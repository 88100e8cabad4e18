---------------------------- MODULE AccessProofs ----------------------------
(***************************************************************************)
(* Proofs about Access, for any number of users, tenants, keys and         *)
(* requests.  The inductive invariant Inv says of each request what its    *)
(* credential, its checks and its effects have to do with each other; a    *)
(* step of one request leaves that of the others alone because keys only   *)
(* ever become more revoked, memberships that vanish leave a time behind,  *)
(* and a signed token does not change.                                     *)
(***************************************************************************)
EXTENDS Access, TLAPS

Passed == {"handle", "revoke", "200", "404"}
Signed(q) == cred[q] = None /\ pc[q] = "200"

\* A session, and what its claims are worth: a pair is a member or was removed
\* after the memberships were read.
GoodSession(r) ==
  cred[r] = None =>
    /\ target[r] = None /\ exec[r] = None /\ seen[r] = {} /\ r \notin dead
    /\ pc[r] \in {"new", "sent", "sign", "200", "500"}
    /\ pc[r] # "new" => user[r] \in User
    /\ pc[r] \in {"sign", "200"} =>
         /\ read[r] <= now
         /\ \A t \in claims[r] : <<user[r], t>> \in member \/ read[r] <= left[<<user[r], t>>]

\* A request with a key.
GoodKey(r) ==
  cred[r] \in Key =>
    /\ key[cred[r]] # "absent"
    /\ r \in dead => key[cred[r]] = "revoked"
    /\ <<kuser[cred[r]], ten[r]>> \in member => r \in was
    /\ pc[r] \in Passed \cup {"member"} =>
         user[r] = kuser[cred[r]] /\ ten[r] = ktenant[cred[r]] /\ r \notin dead
    /\ pc[r] \in Passed => r \in was

\* A request with a token.
GoodToken(r) ==
  cred[r] \in Req =>
    /\ Signed(cred[r]) /\ user[r] = user[cred[r]]
    /\ <<user[r], ten[r]>> \in member => r \in was
    /\ pc[r] \in Passed =>
         r \in was \/ passed[r] < left[<<user[r], ten[r]>>] + (exp[cred[r]] - read[cred[r]])

\* What a request has done.
GoodEffect(r) ==
  /\ cred[r] # None => ten[r] \in Tenant /\ pc[r] \notin {"new", "sign"}
  /\ pc[r] = "revoke" => target[r] # None
  /\ target[r] # None =>
       /\ key[target[r]] # "absent" /\ ktenant[target[r]] = ten[r]
       /\ pc[r] \in {"revoke", "200", "500"}
       /\ pc[r] = "200" => key[target[r]] = "revoked"
  /\ exec[r] # None => exec[r] = <<user[r], KeyOf(r), ten[r]>> /\ pc[r] = "200"
  /\ seen[r] \subseteq {ten[r]}

Good(r) == GoodSession(r) /\ GoodKey(r) /\ GoodToken(r) /\ GoodEffect(r)
Tables ==
  /\ \A k \in Key : key[k] # "absent" => kuser[k] \in User /\ ktenant[k] \in Tenant
  /\ \A p \in Pair : left[p] <= now
Inv == TypeOK /\ Tables /\ \A r \in Req : Good(r)
-----------------------------------------------------------------------------
(* Frames: what a step leaves alone.                                        *)

\* A request that is not the one the step is about.
Same(q) ==
  /\ cred'[q] = cred[q] /\ ten'[q] = ten[q] /\ user'[q] = user[q]
  /\ target'[q] = target[q] /\ pc'[q] = pc[q]
  /\ claims'[q] = claims[q] /\ read'[q] = read[q] /\ exp'[q] = exp[q]
  /\ passed'[q] = passed[q] /\ exec'[q] = exec[q] /\ seen'[q] = seen[q]
  /\ (q \in dead' <=> q \in dead) /\ (q \in was => q \in was')

\* A key keeps its owner and its tenant, and stays revoked.
KeysKept ==
  \A k \in Key : key[k] # "absent" =>
    /\ key'[k] # "absent" /\ kuser'[k] = kuser[k] /\ ktenant'[k] = ktenant[k]
    /\ key[k] = "revoked" => key'[k] = "revoked"

\* A membership that ends leaves its time behind.
MembersKept ==
  /\ now <= now'
  /\ \A p \in Pair : left[p] <= left'[p] /\ (p \in member => p \in member' \/ now <= left'[p])

\* Whoever is a member after the step counts as one since the request was sent.
Joined(q) ==
  /\ cred[q] \in Key /\ <<kuser[cred[q]], ten[q]>> \in member' => q \in was'
  /\ cred[q] \in Req /\ <<user[q], ten[q]>> \in member' => q \in was'

\* A request that the step leaves alone keeps its part of the invariant.
LEMMA FrameRequest ==
  ASSUME Inv, TypeOK', NEW q \in Req, Same(q), cred[q] \in Req => Same(cred[q]),
         KeysKept, MembersKept, Joined(q)
  PROVE  Good(q)'
<1> USE AccessAssumption
<1>1. /\ Good(q) /\ cred[q] \in Key \cup Req \cup {None} /\ target[q] \in Key \cup {None}
      /\ None \notin Key /\ None \notin Req /\ Key \cap Req = {}
      /\ read[q] \in Nat /\ now \in Nat /\ now' \in Nat
  BY Zenon DEF Inv, TypeOK
<1>2. GoodSession(q)'
  <2>1. ASSUME cred[q] = None, pc[q] \in {"sign", "200"}, NEW t \in claims[q]
        PROVE  <<user[q], t>> \in member' \/ read[q] <= left'[<<user[q], t>>]
    <3>1. t \in Tenant /\ user[q] \in User /\ read[q] <= now
      BY <1>1, <2>1, Zenon DEF Good, GoodSession, Inv, TypeOK
    <3>2. <<user[q], t>> \in Pair
      BY <3>1, Zenon DEF Pair
    <3>3. /\ left[<<user[q], t>>] <= left'[<<user[q], t>>]
          /\ left[<<user[q], t>>] \in Nat /\ left'[<<user[q], t>>] \in Nat
      BY <3>2, Zenon DEF MembersKept, Inv, TypeOK
    <3> QED
      BY <1>1, <2>1, <3>1, <3>2, <3>3 DEF MembersKept, Good, GoodSession
  <2>2. read[q] <= now => read[q] <= now'
    BY <1>1 DEF MembersKept
  <2> QED
    BY <1>1, <2>1, <2>2, Zenon DEF Good, GoodSession, Same
<1>3. GoodKey(q)'
  BY <1>1 DEF Good, GoodKey, Same, KeysKept, Joined
<1>4. GoodToken(q)'
  <2> SUFFICES ASSUME cred[q] \in Req
               PROVE  GoodToken(q)'
    BY Zenon DEF GoodToken, Same
  <2> DEFINE c == cred[q]
             p == <<user[q], ten[q]>>
  <2>1. Same(c) /\ Signed(c) /\ user[q] = user[c] /\ (p \in member' => q \in was')
    BY <1>1, Zenon DEF Good, GoodToken, Joined
  <2>2. p \in Pair
    <3>1. Good(c) /\ ten[q] \in Tenant
      BY <1>1, Zenon DEF Inv, Good, GoodEffect
    <3> QED
      BY <2>1, <3>1, Zenon DEF Good, GoodSession, Signed, Pair
  <2>3. /\ left[p] <= left'[p] /\ left[p] \in Nat /\ left'[p] \in Nat
        /\ passed[q] \in Nat /\ exp[c] \in Nat /\ read[c] \in Nat
    BY <2>2, Zenon DEF MembersKept, Inv, TypeOK
  <2>4. passed[q] < left[p] + (exp[c] - read[c]) => passed[q] < left'[p] + (exp[c] - read[c])
    BY <2>3
  <2>5. pc[q] \in Passed => q \in was \/ passed[q] < left[p] + (exp[c] - read[c])
    BY <1>1, Zenon DEF Good, GoodToken
  <2> QED
    BY <2>1, <2>4, <2>5, Zenon DEF GoodToken, Signed, Same
<1>5. GoodEffect(q)'
  BY <1>1 DEF Good, GoodEffect, Same, KeysKept, KeyOf
<1> QED
  BY <1>2, <1>3, <1>4, <1>5, Zenon DEF Good

\* A step of a request that has no answer yet leaves the others alone: none of
\* them uses the request as its token.
LEMMA FrameOthers ==
  ASSUME Inv, TypeOK', NEW r \in Req, pc[r] # "200", \A q \in Req \ {r} : Same(q),
         KeysKept, UNCHANGED <<now, member, left>>
  PROVE  \A q \in Req \ {r} : Good(q)'
<1> TAKE q \in Req \ {r}
<1>1. Good(q) /\ Same(q)
  BY Zenon DEF Inv
<1>2. cred[q] \in Req => Same(cred[q])
  BY <1>1, Zenon DEF Good, GoodToken, Signed
<1>3. MembersKept
  BY DEF MembersKept, Inv, TypeOK
<1>4. Joined(q)
  BY <1>1, Zenon DEF Joined, Good, GoodKey, GoodToken, Same
<1> QED
  BY <1>1, <1>2, <1>3, <1>4, FrameRequest, Zenon

\* The initial states satisfy the invariant.
LEMMA InitInv == Init => Inv
<1> SUFFICES ASSUME Init PROVE Inv
  OBVIOUS
<1> USE AccessAssumption
<1>1. TypeOK /\ Tables
  <2>1. PICK p \in [Key -> Pair] :
          /\ kuser = [k \in Key |-> IF key[k] = "absent" THEN None ELSE p[k][1]]
          /\ ktenant = [k \in Key |-> IF key[k] = "absent" THEN None ELSE p[k][2]]
    BY Zenon DEF Init
  <2>2. \A k \in Key : p[k][1] \in User /\ p[k][2] \in Tenant
    BY <2>1, Zenon DEF Pair
  <2>3. /\ kuser \in [Key -> User \cup {None}] /\ ktenant \in [Key -> Tenant \cup {None}]
        /\ \A k \in Key : key[k] # "absent" => kuser[k] \in User /\ ktenant[k] \in Tenant
    BY <2>1, <2>2, Zenon
  <2>4. Tables
    BY <2>3 DEF Tables, Init
  <2>5. att \in [Req -> 0..MaxMint - 1]
    BY DEF Init
  <2>6. TypeOK
    BY <2>3, <2>5 DEF TypeOK, Init, Open, Answers
  <2> QED
    BY <2>4, <2>6, Zenon
<1>2. ASSUME NEW r \in Req PROVE Good(r)
  BY Zenon DEF Init, Good, GoodSession, GoodKey, GoodToken, GoodEffect
<1> QED
  BY <1>1, <1>2, Zenon DEF Inv

\* SendSession
LEMMA SendSessionStep ==
  ASSUME Inv, NEW r \in Req, SendSession(r)
  PROVE  Inv'
<1> USE AccessAssumption
<1>1. TypeOK'
  BY DEF Inv, TypeOK, SendSession, Sent, Goto, memb, keys, tok, out, hist, Open
<1>2. /\ \A q \in Req \ {r} : Same(q)
      /\ KeysKept /\ UNCHANGED <<now, member, left>> /\ Tables' /\ pc[r] = "new"
  BY DEF Inv, TypeOK, Tables, SendSession, Sent, Goto, memb, keys, tok, out, hist, Same, KeysKept
<1>3. /\ cred'[r] = None /\ target'[r] = None /\ exec'[r] = None /\ seen'[r] = {}
      /\ pc'[r] = "sent" /\ user'[r] \in User /\ r \notin dead'
  <2>1. Good(r) /\ r \in Req
    BY Zenon DEF Inv
  <2>2. /\ cred[r] = None /\ target[r] = None /\ exec[r] = None /\ seen[r] = {}
        /\ r \notin dead
    BY <1>2, <2>1, Zenon DEF Good, GoodSession, GoodEffect
  <2> QED
    BY <2>2 DEF Inv, TypeOK, SendSession, Sent, Goto, out, hist
<1>4. Good(r)'
  BY <1>3, Zenon DEF Good, GoodSession, GoodKey, GoodToken, GoodEffect
<1> QED
  BY <1>1, <1>2, <1>4, FrameOthers, Zenon DEF Inv

\* SendScoped
LEMMA SendScopedStep ==
  ASSUME Inv, NEW r \in Req, SendScoped(r)
  PROVE  Inv'
<1> USE AccessAssumption
<1>1. PICK c \in Tokens \cup Minted, t \in Tenant :
        /\ cred' = [cred EXCEPT ![r] = c] /\ ten' = [ten EXCEPT ![r] = t]
        /\ user' = [user EXCEPT ![r] = IF c \in Req THEN user[c] ELSE None]
        /\ was' = IF <<Owner(c), t>> \in member THEN was \cup {r} ELSE was
        /\ dead' = IF c \in Key /\ key[c] = "revoked" THEN dead \cup {r} ELSE dead
  BY Zenon DEF SendScoped
<1>2. c \in Req \cup Key
  BY Zenon DEF Tokens, Minted
<1>3. Sent(r)
  BY Zenon DEF SendScoped
<1>4. TypeOK'
  BY <1>1, <1>2, <1>3, Zenon DEF Inv, TypeOK, Sent, Goto, memb, keys, tok, out, Open
<1>5. /\ \A q \in Req \ {r} : Same(q)
      /\ KeysKept /\ UNCHANGED <<now, member, left>> /\ Tables' /\ pc[r] = "new"
  BY <1>1, <1>3 DEF Inv, TypeOK, Tables, Sent, Goto, memb, keys, tok, out, Same, KeysKept
<1>6. /\ target[r] = None /\ exec[r] = None /\ seen[r] = {} /\ r \notin dead
  <2>1. Good(r)
    BY Zenon DEF Inv
  <2> QED
    BY <1>5, <2>1, Zenon DEF Good, GoodSession, GoodEffect, Inv, TypeOK
<1>7. /\ target'[r] = None /\ exec'[r] = None /\ seen'[r] = {} /\ pc'[r] = "sent"
      /\ cred'[r] = c /\ ten'[r] = t /\ UNCHANGED <<key, kuser, member>>
  BY <1>1, <1>3, <1>6 DEF Inv, TypeOK, Sent, Goto, memb, keys, out
<1>8. GoodSession(r)' /\ GoodEffect(r)'
  BY <1>2, <1>7, Zenon DEF GoodSession, GoodEffect
<1>9. GoodKey(r)'
  BY <1>1, <1>2, <1>6, <1>7 DEF GoodKey, Minted, Tokens, Owner, Passed
<1>10. GoodToken(r)'
  <2> SUFFICES ASSUME c \in Req PROVE GoodToken(r)'
    BY <1>7, Zenon DEF GoodToken
  <2>1. c \in Tokens /\ c \notin Key
    BY <1>2, Zenon DEF Minted
  <2>2. Signed(c) /\ c # r
    BY <1>5, <2>1, Zenon DEF Tokens, Signed
  <2>3. Signed(c)' /\ user'[c] = user[c]
    BY <1>5, <2>2, Zenon DEF Signed, Same
  <2>4. user'[r] = user[c]
    BY <1>1, Zenon DEF Inv, TypeOK
  <2>5. <<user[c], t>> \in member => r \in was'
    BY <1>1, <2>1, Zenon DEF Owner
  <2> QED
    BY <1>7, <2>3, <2>4, <2>5, Zenon DEF GoodToken, Passed
<1> QED
  BY <1>4, <1>5, <1>8, <1>9, <1>10, FrameOthers, Zenon DEF Inv, Good

\* A step that moves a request on and does nothing else, but for counting
\* attempts or faults.
Moved(r, l) ==
  /\ Goto(r, l)
  /\ UNCHANGED <<now, memb, keys, req, user, target, tok, passed, out, hist, moves>>

\* Refusals and failures.
LEMMA RefuseStep ==
  ASSUME Inv, TypeOK', NEW r \in Req, NEW l \in {"401", "403", "404", "500"}, Moved(r, l),
         \/ l = "500" /\ pc[r] \in Open
         \/ cred[r] # None /\ l # "404" /\ pc[r] \in {"sent", "member"}
         \/ pc[r] = "handle"
  PROVE  Inv'
<1> USE AccessAssumption
<1>1. /\ \A q \in Req \ {r} : Same(q)
      /\ KeysKept /\ UNCHANGED <<now, member, left>> /\ Tables' /\ pc[r] # "200"
  BY Zenon DEF Inv, TypeOK, Tables, Moved, Goto, memb, keys, req, tok, out, hist, Same, KeysKept, Open
<1>2. Good(r) /\ pc'[r] = l
  BY Zenon DEF Inv, TypeOK, Moved, Goto
<1>3. GoodSession(r)'
  BY <1>2, Zenon DEF Good, GoodSession, Moved, memb, keys, req, tok, out, hist, Open
<1>4. GoodKey(r)'
  BY <1>2, Zenon DEF Good, GoodKey, Moved, memb, keys, req, tok, out, hist, Passed, Open
<1>5. GoodToken(r)'
  <2>1. cred[r] \in Req => Signed(cred[r])'
    BY <1>2, <1>1, Zenon DEF Good, GoodToken, Signed, Same, Moved, req
  <2> QED
    BY <1>2, <2>1, Zenon DEF Good, GoodToken, Moved, memb, keys, req, tok, out, hist, Passed, Open
<1>6. GoodEffect(r)'
  BY <1>2, Zenon DEF Good, GoodEffect, GoodSession, Moved, memb, keys, req, tok, out, hist, Open, KeyOf
<1> QED
  BY <1>1, <1>3, <1>4, <1>5, <1>6, FrameOthers, Zenon DEF Inv, Good

\* ResolveMemberships
LEMMA ResolveStep ==
  ASSUME Inv, NEW r \in Req, ResolveMemberships(r)
  PROVE  Inv'
<1> USE AccessAssumption DEF ResolveMemberships
<1>1. TypeOK'
  BY Zenon DEF Inv, TypeOK, Goto, memb, keys, req, out, hist, Open
<1>2. /\ \A q \in Req \ {r} : Same(q)
      /\ KeysKept /\ UNCHANGED <<now, member, left>> /\ Tables' /\ pc[r] = "sent"
  BY DEF Inv, TypeOK, Tables, Goto, memb, keys, req, out, hist, Same, KeysKept
<1>3. /\ cred'[r] = None /\ target'[r] = None /\ exec'[r] = None /\ seen'[r] = {}
      /\ pc'[r] = "sign" /\ user'[r] = user[r] /\ user[r] \in User /\ r \notin dead'
  <2>1. Good(r)
    BY Zenon DEF Inv
  <2>2. /\ target[r] = None /\ exec[r] = None /\ seen[r] = {} /\ user[r] \in User
        /\ r \notin dead
    BY <2>1, Zenon DEF Good, GoodSession
  <2> QED
    BY <2>2, Zenon DEF Inv, TypeOK, Goto, req, out, hist
<1>4. /\ read'[r] = now /\ now \in Nat /\ now' = now /\ member' = member
      /\ claims'[r] = {t \in Tenant : <<user[r], t>> \in member}
  BY Zenon DEF Inv, TypeOK, memb
<1>5. Good(r)'
  BY <1>3, <1>4 DEF Good, GoodSession, GoodKey, GoodToken, GoodEffect
<1> QED
  BY <1>1, <1>2, <1>5, FrameOthers, Zenon DEF Inv

\* SignAccessToken
LEMMA SignStep ==
  ASSUME Inv, NEW r \in Req, SignAccessToken(r)
  PROVE  Inv'
<1> USE AccessAssumption DEF SignAccessToken
<1>1. TypeOK'
  BY DEF Inv, TypeOK, Goto, memb, keys, req, out, hist, Answers
<1>2. /\ \A q \in Req \ {r} : Same(q)
      /\ KeysKept /\ UNCHANGED <<now, member, left>> /\ Tables' /\ pc[r] = "sign"
  BY DEF Inv, TypeOK, Tables, Goto, memb, keys, req, out, hist, Same, KeysKept
<1>3. Good(r) /\ pc'[r] = "200" /\ cred[r] = None
  BY <1>2 DEF Inv, TypeOK, Goto, Good, GoodEffect
<1>4. GoodSession(r)'
  BY <1>2, <1>3, Zenon DEF Good, GoodSession, memb, req, out, hist
<1>5. GoodKey(r)' /\ GoodToken(r)' /\ GoodEffect(r)'
  BY <1>3, <1>4, Zenon DEF GoodSession, GoodKey, GoodToken, GoodEffect, req
<1> QED
  BY <1>1, <1>2, <1>4, <1>5, FrameOthers, Zenon DEF Inv, Good

\* RequireAuth: a tenant among the claims of the token is one the user belongs
\* to, or belonged to when the memberships were read.
LEMMA RequireAuthStep ==
  ASSUME Inv, NEW r \in Req, RequireAuth(r)
  PROVE  Inv'
<1> USE AccessAssumption DEF RequireAuth
<1>1. TypeOK'
  BY DEF Inv, TypeOK, Goto, memb, keys, req, tok, out, hist, Open, Answers
<1>2. CASE Goto(r, "401") /\ UNCHANGED passed
  BY <1>1, <1>2, RefuseStep, Zenon DEF Moved, hist
<1>3. ASSUME UNCHANGED passed \/ passed' = [passed EXCEPT ![r] = now],
             NEW l \in {"member", "handle"}, Goto(r, l),
             l = "handle" => passed'[r] = now /\ Parses(cred[r]) /\ ten[r] \in claims[cred[r]]
      PROVE  Inv'
  <2>1. /\ \A q \in Req \ {r} : Same(q)
        /\ KeysKept /\ UNCHANGED <<now, member, left>> /\ Tables' /\ pc[r] = "sent"
    BY <1>3 DEF Inv, TypeOK, Tables, Goto, memb, keys, req, tok, out, hist, Same, KeysKept
  <2>2. /\ cred'[r] = cred[r] /\ cred[r] \in Req /\ user'[r] = user[r] /\ ten'[r] = ten[r]
        /\ UNCHANGED <<target, exec, seen, was, member, left, exp, read, key, ktenant>>
        /\ pc'[r] = l /\ Good(r)
    BY <1>3, Zenon DEF Inv, TypeOK, Goto, memb, keys, req, tok, out, hist
  <2>3. GoodSession(r)' /\ GoodKey(r)'
    BY <2>2, Zenon DEF GoodSession, GoodKey
  <2>4. GoodEffect(r)'
    BY <1>3, <2>1, <2>2, Zenon DEF Good, GoodEffect, KeyOf
  <2>5. GoodToken(r)'
    <3> DEFINE c == cred[r]
               p == <<user[r], ten[r]>>
    <3>1. Signed(c) /\ user[r] = user[c] /\ c # r /\ Same(c) /\ (p \in member => r \in was)
      BY <2>1, <2>2, Zenon DEF Good, GoodToken, Signed
    <3>2. Signed(c)' /\ user'[c] = user[c]
      BY <2>2, <3>1, Zenon DEF Signed, Same
    <3>3. ASSUME l = "handle"
          PROVE  r \in was \/ passed'[r] < left[p] + (exp[c] - read[c])
      <4>1. /\ ten[r] \in claims[c] /\ now < exp[c] /\ passed'[r] = now
        BY <1>3, <3>3, Zenon DEF Parses
      <4>2. /\ p \in member \/ read[c] <= left[p]
            /\ user[r] \in User /\ ten[r] \in Tenant
        <5>1. Good(c)
          BY <2>2, Zenon DEF Inv
        <5>2. cred[c] = None /\ pc[c] = "200"
          BY <3>1, Zenon DEF Signed
        <5>3. user[c] \in User /\ (<<user[c], ten[r]>> \in member \/ read[c] <= left[<<user[c], ten[r]>>])
          BY <4>1, <5>1, <5>2, Zenon DEF Good, GoodSession
        <5>4. ten[r] \in Tenant
          BY <2>2, Zenon DEF Good, GoodEffect, Inv, TypeOK
        <5> QED
          BY <3>1, <5>3, <5>4, Zenon
      <4>3. left[p] \in Nat /\ exp[c] \in Nat /\ read[c] \in Nat /\ now \in Nat
        BY <2>2, <4>2, Zenon DEF Inv, TypeOK, Pair
      <4> QED
        BY <3>1, <4>1, <4>2, <4>3
    <3> QED
      BY <1>3, <2>2, <3>1, <3>2, <3>3, Zenon DEF GoodToken, Passed
  <2> QED
    BY <1>1, <2>1, <2>3, <2>4, <2>5, FrameOthers, Zenon DEF Inv, Good
<1>4. passed \in [Req -> Nat]
  BY Zenon DEF Inv, TypeOK
<1> QED
  BY <1>2, <1>3, <1>4, Zenon

\* RequireKey: a revoked key is refused, and a key serves its own tenant.
LEMMA RequireKeyStep ==
  ASSUME Inv, NEW r \in Req, RequireKey(r)
  PROVE  Inv'
<1> USE AccessAssumption DEF RequireKey
<1> DEFINE k == cred[r]
<1>1. TypeOK'
  BY DEF Inv, TypeOK, Goto, memb, keys, req, tok, out, hist, Open, Answers
<1>2. ASSUME NEW l \in {"401", "403"}, Goto(r, l), UNCHANGED user
      PROVE  Inv'
  BY <1>1, <1>2, RefuseStep, Zenon DEF Moved, hist
<1>3. CASE /\ CheckAPIKey(k) /\ KeyFits(k, ten[r]) /\ Goto(r, "member")
           /\ user' = [user EXCEPT ![r] = kuser[k]]
  <2>1. /\ \A q \in Req \ {r} : Same(q)
        /\ KeysKept /\ UNCHANGED <<now, member, left>> /\ Tables' /\ pc[r] = "sent"
    BY <1>3 DEF Inv, TypeOK, Tables, Goto, memb, keys, req, tok, out, hist, Same, KeysKept
  <2>2. /\ cred'[r] = k /\ k \in Key /\ user'[r] = kuser[k] /\ ten'[r] = ten[r]
        /\ UNCHANGED <<target, exec, seen, was, dead, member, key, ktenant, kuser>>
        /\ pc'[r] = "member" /\ Good(r) /\ key[k] = "live" /\ ktenant[k] = ten[r]
    BY <1>3, Zenon DEF Inv, TypeOK, Goto, memb, keys, req, tok, out, hist, CheckAPIKey, KeyFits
  <2>3. GoodSession(r)' /\ GoodToken(r)'
    BY <2>2, Zenon DEF GoodSession, GoodToken
  <2>4. GoodKey(r)'
    BY <2>1, <2>2, Zenon DEF Good, GoodKey, Passed
  <2>5. GoodEffect(r)'
    BY <2>1, <2>2, Zenon DEF Good, GoodEffect
  <2> QED
    BY <1>1, <2>1, <2>3, <2>4, <2>5, FrameOthers, Zenon DEF Inv, Good
<1> QED
  BY <1>2, <1>3, Zenon

\* CheckMembership
LEMMA CheckMembershipStep ==
  ASSUME Inv, NEW r \in Req, CheckMembership(r)
  PROVE  Inv'
<1> USE AccessAssumption DEF CheckMembership
<1>1. TypeOK'
  BY DEF Inv, TypeOK, Goto, memb, keys, req, tok, out, hist, Open, Answers
<1>2. Good(r) /\ cred[r] # None
  BY Zenon DEF Inv, Good, GoodSession
<1>3. CASE Goto(r, "403")
  BY <1>1, <1>2, <1>3, RefuseStep, Zenon DEF Moved, hist
<1>4. CASE IsMember(user[r], ten[r]) /\ Goto(r, "handle")
  <2>1. /\ \A q \in Req \ {r} : Same(q)
        /\ KeysKept /\ UNCHANGED <<now, member, left>> /\ Tables' /\ pc[r] = "member"
    BY <1>4 DEF Inv, TypeOK, Tables, Goto, memb, keys, req, tok, out, hist, Same, KeysKept
  <2>2. /\ pc'[r] = "handle" /\ <<user[r], ten[r]>> \in member
        /\ UNCHANGED <<cred, ten, user, target, exec, seen, was, dead, member, key, ktenant, kuser>>
    BY <1>4, Zenon DEF Inv, TypeOK, Goto, memb, keys, req, out, hist, IsMember
  <2>3. GoodSession(r)' /\ GoodEffect(r)'
    BY <1>2, <2>1, <2>2, Zenon DEF Good, GoodSession, GoodEffect, KeyOf
  <2>4. GoodKey(r)'
    BY <1>2, <2>1, <2>2, Zenon DEF Good, GoodKey, Passed
  <2>5. GoodToken(r)'
    <3>1. cred[r] \in Req => cred[r] # r /\ Signed(cred[r]) /\ Same(cred[r])
      BY <1>2, <2>1, Zenon DEF Good, GoodToken, Signed
    <3> QED
      BY <1>2, <2>1, <2>2, <3>1, Zenon DEF Good, GoodToken, Passed, Signed, Same
  <2> QED
    BY <1>1, <2>1, <2>3, <2>4, <2>5, FrameOthers, Zenon DEF Inv, Good
<1> QED
  BY <1>3, <1>4, Zenon

\* A handler, whatever it does, leaves what the middleware established alone.
LEMMA HandlerStep ==
  ASSUME Inv, TypeOK', Tables', NEW r \in Req, pc[r] \in {"handle", "revoke"},
         NEW l \in {"handle", "revoke", "200", "404", "500"}, Goto(r, l),
         UNCHANGED <<now, memb, req, user, tok, passed, hist>>, KeysKept,
         \A q \in Req \ {r} : target'[q] = target[q] /\ exec'[q] = exec[q] /\ seen'[q] = seen[q],
         GoodEffect(r)'
  PROVE  Inv'
<1> USE AccessAssumption
<1>1. \A q \in Req \ {r} : Same(q)
  BY Zenon DEF Inv, TypeOK, Goto, req, tok, hist, Same
<1>2. /\ pc'[r] = l /\ Good(r) /\ cred[r] \in Key \cup Req /\ pc[r] \in Passed
      /\ UNCHANGED <<cred, ten, user, was, dead, member, left, read, exp, passed, now>>
  <2>1. Good(r)
    BY Zenon DEF Inv
  <2>2. cred[r] # None
    BY <2>1, Zenon DEF Good, GoodSession
  <2> QED
    BY <2>1, <2>2 DEF Inv, TypeOK, Goto, req, tok, hist, memb, Passed
<1>3. GoodSession(r)'
  BY <1>2, Zenon DEF GoodSession
<1>4. GoodKey(r)'
  BY <1>2, Zenon DEF Good, GoodKey, KeysKept
<1>5. GoodToken(r)'
  <2>1. cred[r] \in Req => cred[r] # r /\ Signed(cred[r]) /\ Same(cred[r])
    BY <1>1, <1>2, Zenon DEF Good, GoodToken, Signed
  <2>2. cred[r] \in Req => Signed(cred[r])' /\ cred'[r] = cred[r]
    BY <1>2, <2>1, Zenon DEF Signed, Same
  <2> QED
    BY <1>2, <2>2, Zenon DEF Good, GoodToken
<1>6. UNCHANGED <<now, member, left>> /\ pc[r] # "200"
  BY Zenon DEF memb
<1> QED
  BY <1>1, <1>3, <1>4, <1>5, <1>6, FrameOthers, Zenon DEF Inv, Good

\* A request that reached its handler has a tenant and a user.
LEMMA Actor ==
  ASSUME Inv, NEW r \in Req, pc[r] = "handle"
  PROVE  Good(r) /\ cred[r] # None /\ ten[r] \in Tenant /\ user[r] \in User
<1> USE AccessAssumption
<1>1. Good(r) /\ cred[r] # None /\ cred[r] \in Key \cup Req
  BY Zenon DEF Inv, TypeOK, Good, GoodSession
<1>2. ten[r] \in Tenant
  BY <1>1, Zenon DEF Good, GoodEffect
<1>3. ASSUME cred[r] \in Key PROVE user[r] \in User
  BY <1>1, <1>3, Zenon DEF Good, GoodKey, Inv, Tables, Passed
<1>4. ASSUME cred[r] \in Req PROVE user[r] \in User
  <2>1. Good(cred[r]) /\ Signed(cred[r]) /\ user[r] = user[cred[r]]
    BY <1>1, <1>4, Zenon DEF Inv, Good, GoodToken
  <2> QED
    BY <2>1, Zenon DEF Good, GoodSession, Signed
<1> QED
  BY <1>1, <1>2, <1>3, <1>4, Zenon

\* Submit
LEMMA SubmitStep ==
  ASSUME Inv, NEW r \in Req, Submit(r)
  PROVE  Inv'
<1> USE AccessAssumption DEF Submit
<1>1. Good(r) /\ cred[r] # None /\ ten[r] \in Tenant /\ user[r] \in User
  BY Actor, Zenon
<1>2. <<user[r], KeyOf(r), ten[r]>> \in Row
  BY <1>1, Zenon DEF Row, KeyOf
<1>3. TypeOK'
  BY <1>2, Zenon DEF Inv, TypeOK, Goto, memb, keys, req, tok, hist, Answers
<1>4. Tables' /\ KeysKept
  BY Zenon DEF Inv, Tables, memb, keys, KeysKept
<1>5. /\ exec'[r] = <<user[r], KeyOf(r), ten[r]>> /\ pc'[r] = "200"
      /\ UNCHANGED <<cred, ten, user, target, seen, key, ktenant>>
  BY Zenon DEF Inv, TypeOK, Goto, req, keys
<1>6. GoodEffect(r)'
  BY <1>1, <1>5, Zenon DEF Good, GoodEffect, KeyOf
<1>7. \A q \in Req \ {r} : target'[q] = target[q] /\ exec'[q] = exec[q] /\ seen'[q] = seen[q]
  BY DEF Inv, TypeOK
<1> QED
  BY <1>3, <1>4, <1>6, <1>7, HandlerStep, Zenon

\* Show, with rows of the tenant of the request.
LEMMA ShowStep ==
  ASSUME Inv, NEW r \in Req, NEW ts, Show(r, ts), ts \subseteq {ten[r]}
  PROVE  Inv'
<1> USE AccessAssumption DEF Show
<1>1. Good(r) /\ cred[r] # None /\ ten[r] \in Tenant
  <2>1. Good(r) /\ cred[r] # None
    BY Zenon DEF Inv, Good, GoodSession
  <2> QED
    BY <2>1, Zenon DEF Good, GoodEffect
<1>2. TypeOK'
  BY <1>1 DEF Inv, TypeOK, Goto, memb, keys, req, tok, hist, Answers
<1>3. Tables' /\ KeysKept
  BY Zenon DEF Inv, Tables, memb, keys, KeysKept
<1>4. /\ seen'[r] = ts /\ pc'[r] = "200"
      /\ UNCHANGED <<cred, ten, user, target, exec, key, ktenant>>
  BY DEF Inv, TypeOK, Goto, req, keys
<1>5. GoodEffect(r)'
  BY <1>1, <1>4, Zenon DEF Good, GoodEffect, KeyOf
<1>6. \A q \in Req \ {r} : target'[q] = target[q] /\ exec'[q] = exec[q] /\ seen'[q] = seen[q]
  BY Zenon DEF Inv, TypeOK
<1> QED
  BY <1>2, <1>3, <1>5, <1>6, HandlerStep, Zenon

\* Get, List and ListKeys
LEMMA ReadStep ==
  ASSUME Inv, NEW r \in Req, Get(r) \/ List(r) \/ ListKeys(r)
  PROVE  Inv'
<1>1. CASE Get(r)
  <2>1. PICK e \in Req :
          \/ GetExecution(e, ten[r]) /\ Show(r, {exec[e][3]})
          \/ /\ ~GetExecution(e, ten[r]) /\ pc[r] = "handle" /\ Goto(r, "404")
             /\ UNCHANGED <<now, memb, keys, req, user, target, att, tok, passed, out, hist, moves, faults>>
    BY <1>1, Zenon DEF Get
  <2>2. CASE GetExecution(e, ten[r]) /\ Show(r, {exec[e][3]})
    BY <2>2, ShowStep, Zenon DEF GetExecution
  <2>3. CASE /\ pc[r] = "handle" /\ Goto(r, "404")
             /\ UNCHANGED <<now, memb, keys, req, user, target, att, tok, passed, out, hist, moves, faults>>
    <3>1. TypeOK'
      BY <2>3, Zenon DEF Inv, TypeOK, Goto, memb, keys, req, tok, out, hist, Answers
    <3>2. Moved(r, "404")
      BY <2>3, Zenon DEF Moved
    <3> QED
      BY <2>3, <3>1, <3>2, RefuseStep, Zenon
  <2> QED
    BY <2>1, <2>2, <2>3, Zenon
<1>2. CASE List(r)
  <2>1. {exec[e][3] : e \in ListExecutions(ten[r])} \subseteq {ten[r]}
    BY Zenon DEF ListExecutions
  <2> QED
    BY <1>2, <2>1, ShowStep, Zenon DEF List
<1>3. CASE ListKeys(r)
  <2>1. {ktenant[k] : k \in ListAPIKeys(ten[r])} \subseteq {ten[r]}
    BY Zenon DEF ListAPIKeys
  <2> QED
    BY <1>3, <2>1, ShowStep, Zenon DEF ListKeys
<1> QED
  BY <1>1, <1>2, <1>3, Zenon

\* Mint inserts a row under an id that is not taken.
LEMMA MintStep ==
  ASSUME Inv, NEW r \in Req, Mint(r)
  PROVE  Inv'
<1> USE AccessAssumption
<1>1. /\ pc[r] = "handle" /\ Good(r) /\ ten[r] \in Tenant /\ user[r] \in User
  BY Actor, Zenon DEF Mint
<1>2. PICK k \in Key :
       \/ /\ ~KeyIdTaken(k) /\ key' = [key EXCEPT ![k] = "live"]
          /\ kuser' = [kuser EXCEPT ![k] = user[r]] /\ ktenant' = [ktenant EXCEPT ![k] = ten[r]]
          /\ Goto(r, "200") \/ Goto(r, "500")
          /\ UNCHANGED att
       \/ KeyIdTaken(k) /\ Again(r) /\ att' = [att EXCEPT ![r] = @ + 1] /\ UNCHANGED <<keys, pc>>
       \/ KeyIdTaken(k) /\ ~Again(r) /\ Goto(r, "500") /\ UNCHANGED <<keys, att>>
  BY Zenon DEF Mint
<1>3. UNCHANGED <<now, memb, req, user, target, tok, passed, out, hist, moves, faults>>
  BY Zenon DEF Mint
<1>4. PICK l \in {"handle", "200", "500"} : Goto(r, l)
  <2>1. CASE UNCHANGED pc
    <3>1. Goto(r, "handle")
      BY <1>1, <2>1, Zenon DEF Goto, Inv, TypeOK
    <3> QED
      BY <3>1, Zenon
  <2>2. CASE Goto(r, "200") \/ Goto(r, "500")
    BY <2>2, Zenon
  <2> QED
    BY <1>2, <2>1, <2>2, Zenon
<1>5. att' \in [Req -> 0..MaxMint - 1]
  BY <1>2 DEF Inv, TypeOK, Again
<1>6. /\ key' \in [Key -> {"absent", "live", "revoked"}]
      /\ kuser' \in [Key -> User \cup {None}] /\ ktenant' \in [Key -> Tenant \cup {None}]
  BY <1>1, <1>2 DEF Inv, TypeOK, keys
<1>7. TypeOK'
  BY <1>1, <1>3, <1>4, <1>5, <1>6, Zenon DEF Inv, TypeOK, Goto, memb, req, tok, out, hist, Open, Answers
<1>8. Tables' /\ KeysKept
  <2>1. KeysKept
    BY <1>2 DEF Inv, TypeOK, keys, KeysKept, KeyIdTaken
  <2>2. \A j \in Key : key'[j] # "absent" => kuser'[j] \in User /\ ktenant'[j] \in Tenant
    BY <1>1, <1>2 DEF Inv, TypeOK, Tables, keys
  <2>3. \A p \in Pair : left'[p] <= now'
    BY <1>3, Zenon DEF Inv, Tables, memb
  <2> QED
    BY <2>1, <2>2, <2>3, Zenon DEF Tables
<1>9. GoodEffect(r)'
  <2>1. /\ pc'[r] = l /\ UNCHANGED <<cred, ten, user, target, exec, seen>>
        /\ target[r] = None /\ exec[r] = None /\ seen[r] \subseteq {ten[r]}
    <3>1. UNCHANGED <<cred, ten, user, target, exec, seen>>
      BY <1>3, Zenon DEF req, out
    <3>2. target[r] = None /\ exec[r] = None /\ seen[r] \subseteq {ten[r]}
      BY <1>1, Zenon DEF Good, GoodEffect
    <3>3. pc'[r] = l
      BY <1>4, Zenon DEF Inv, TypeOK, Goto
    <3> QED
      BY <3>1, <3>2, <3>3, Zenon
  <2> QED
    BY <1>1, <2>1, Zenon DEF Good, GoodEffect
<1>10. \A q \in Req \ {r} : target'[q] = target[q] /\ exec'[q] = exec[q] /\ seen'[q] = seen[q]
  BY <1>3, Zenon DEF out
<1> QED
  BY <1>1, <1>3, <1>4, <1>7, <1>8, <1>9, <1>10, HandlerStep, Zenon

\* Delete
LEMMA DeleteStep ==
  ASSUME Inv, NEW r \in Req, Delete(r)
  PROVE  Inv'
<1> USE AccessAssumption
<1>1. PICK k \in Key :
       \/ /\ Deletable(k, ten[r]) /\ Goto(r, "revoke")
          /\ target' = [target EXCEPT ![r] = k]
       \/ ~Deletable(k, ten[r]) /\ Goto(r, "404") /\ UNCHANGED target
  BY Zenon DEF Delete
<1>2. /\ pc[r] = "handle"
      /\ UNCHANGED <<now, memb, keys, req, user, att, tok, passed, out, hist, moves, faults>>
  BY Zenon DEF Delete
<1>3. TypeOK'
  BY <1>1, <1>2 DEF Inv, TypeOK, Goto, memb, keys, req, tok, out, hist, Open, Answers
<1>4. CASE ~Deletable(k, ten[r]) /\ Goto(r, "404") /\ UNCHANGED target
  BY <1>2, <1>3, <1>4, RefuseStep, Zenon DEF Moved
<1>5. CASE Deletable(k, ten[r]) /\ Goto(r, "revoke") /\ target' = [target EXCEPT ![r] = k]
  <2>1. Tables' /\ KeysKept
    BY <1>2, Zenon DEF Inv, Tables, memb, keys, KeysKept
  <2>2. /\ target'[r] = k /\ pc'[r] = "revoke" /\ k # None
        /\ key[k] # "absent" /\ ktenant[k] = ten[r] /\ Good(r)
        /\ UNCHANGED <<cred, ten, user, exec, seen, key, ktenant>>
    BY <1>2, <1>5, Zenon DEF Inv, TypeOK, Goto, req, keys, out, Deletable
  <2>3. GoodEffect(r)'
    BY <1>2, <2>2, Zenon DEF Good, GoodEffect
  <2>4. \A q \in Req \ {r} : target'[q] = target[q] /\ exec'[q] = exec[q] /\ seen'[q] = seen[q]
    BY <1>2, <1>5, Zenon DEF Inv, TypeOK, out
  <2> QED
    BY <1>2, <1>3, <1>5, <2>1, <2>3, <2>4, HandlerStep, Zenon
<1> QED
  BY <1>1, <1>4, <1>5, Zenon

\* RevokeAPIKey
LEMMA RevokeStep ==
  ASSUME Inv, NEW r \in Req, RevokeAPIKey(r)
  PROVE  Inv'
<1> USE AccessAssumption DEF RevokeAPIKey
<1>1. PICK l \in {"200", "500"} : Goto(r, l)
  OBVIOUS
<1>2. Good(r) /\ target[r] \in Key /\ key[target[r]] # "absent" /\ ktenant[target[r]] = ten[r]
  <2>1. Good(r) /\ target[r] # None
    BY Zenon DEF Inv, Good, GoodEffect
  <2>2. target \in [Req -> Key \cup {None}]
    BY Zenon DEF Inv, TypeOK
  <2>3. target[r] \in Key
    BY <2>1, <2>2
  <2> QED
    BY <2>1, <2>3, Zenon DEF Good, GoodEffect
<1>3. TypeOK'
  BY <1>1, <1>2, Zenon DEF Inv, TypeOK, Goto, memb, req, tok, out, hist, Answers
<1>4. Tables' /\ KeysKept
  BY <1>2, Zenon DEF Inv, TypeOK, Tables, memb, KeysKept
<1>5. /\ pc'[r] = l /\ key'[target[r]] = "revoked"
      /\ UNCHANGED <<cred, ten, user, exec, seen, target, ktenant>>
  BY <1>1, <1>2, Zenon DEF Inv, TypeOK, Goto, req, out
<1>6. GoodEffect(r)'
  BY <1>1, <1>2, <1>5, Zenon DEF Good, GoodEffect
<1>7. \A q \in Req \ {r} : target'[q] = target[q] /\ exec'[q] = exec[q] /\ seen'[q] = seen[q]
  BY Zenon DEF out
<1> QED
  BY <1>1, <1>3, <1>4, <1>6, <1>7, HandlerStep, Zenon

\* Fail
LEMMA FailStep ==
  ASSUME Inv, NEW r \in Req, Fail(r)
  PROVE  Inv'
<1> USE AccessAssumption DEF Fail
<1>1. /\ FailAnswer(r) \in {"401", "403", "500"}
      /\ FailAnswer(r) = "401" => pc[r] = "sent" /\ cred[r] \in Key
      /\ FailAnswer(r) = "403" => pc[r] = "member"
  BY Zenon DEF FailAnswer
<1>2. TypeOK'
  BY <1>1 DEF Inv, TypeOK, Goto, memb, keys, req, tok, out, hist, Answers
<1>3. pc[r] = "member" => cred[r] # None
  BY Zenon DEF Inv, Good, GoodSession
<1>4. Moved(r, FailAnswer(r))
  BY Zenon DEF Moved
<1> QED
  BY <1>1, <1>2, <1>3, <1>4, RefuseStep, Zenon

\* AddMember, RemoveMember and Tick: a request that sees a membership added
\* counts its user as a member, and one that ends leaves its time behind.
LEMMA AroundStep ==
  ASSUME Inv, (\E p \in Pair : AddMember(p) \/ RemoveMember(p)) \/ Tick
  PROVE  Inv'
<1> USE AccessAssumption
<1>1. ASSUME TypeOK', Tables', KeysKept, MembersKept, \A q \in Req : Same(q) /\ Joined(q)
      PROVE  Inv'
  <2> SUFFICES ASSUME NEW q \in Req PROVE Good(q)'
    BY <1>1, Zenon DEF Inv
  <2> QED
    BY <1>1, FrameRequest, Zenon
<1>2. ASSUME NEW p \in Pair, AddMember(p)
      PROVE  Inv'
  <2> USE <1>2 DEF AddMember, Moves
  <2>1. TypeOK' /\ Tables' /\ KeysKept /\ MembersKept
    <3>1. TypeOK'
      BY DEF Inv, TypeOK, keys, req, tok, out
    <3>2. Tables' /\ KeysKept
      BY Zenon DEF Inv, Tables, KeysKept, keys
    <3>3. MembersKept
      BY DEF Inv, TypeOK, MembersKept
    <3> QED
      BY <3>1, <3>2, <3>3, Zenon
  <2>2. ASSUME NEW q \in Req PROVE Same(q) /\ Joined(q)
    <3>1. Same(q)
      BY Zenon DEF Same, req, tok, out
    <3>2. Good(q)
      BY Zenon DEF Inv
    <3>3. ASSUME cred[q] \in Key, <<kuser[cred[q]], ten[q]>> \in member' PROVE q \in was'
      BY <3>2, <3>3, Zenon DEF Good, GoodKey, Owner
    <3>4. ASSUME cred[q] \in Req, <<user[q], ten[q]>> \in member' PROVE q \in was'
      <4>1. cred[q] \notin Key /\ cred[q] # None /\ user[cred[q]] = user[q]
        BY <3>2, <3>4, Zenon DEF Good, GoodToken
      <4> QED
        BY <3>2, <3>4, <4>1, Zenon DEF Good, GoodToken, Owner
    <3> QED
      BY <3>1, <3>3, <3>4, Zenon DEF Joined
  <2> QED
    BY <1>1, <2>1, <2>2, Zenon
<1>3. ASSUME NEW p \in Pair, RemoveMember(p)
      PROVE  Inv'
  <2> USE <1>3 DEF RemoveMember, Moves
  <2>1. TypeOK'
    BY DEF Inv, TypeOK, keys, req, tok, out, hist
  <2>2. Tables' /\ KeysKept
    BY DEF Inv, TypeOK, Tables, KeysKept, keys
  <2>3. MembersKept
    BY DEF Inv, TypeOK, Tables, MembersKept
  <2>4. ASSUME NEW q \in Req PROVE Same(q) /\ Joined(q)
    <3>1. Same(q)
      BY Zenon DEF Same, req, tok, out, hist
    <3>2. Good(q)
      BY Zenon DEF Inv
    <3> QED
      BY <3>1, <3>2, Zenon DEF Joined, Good, GoodKey, GoodToken, hist
  <2> QED
    BY <1>1, <2>1, <2>2, <2>3, <2>4, Zenon
<1>4. ASSUME Tick
      PROVE  Inv'
  <2> USE <1>4 DEF Tick
  <2>1. TypeOK'
    BY DEF Inv, TypeOK, keys, req, tok, out, hist, memb
  <2>2. Tables' /\ KeysKept
    BY DEF Inv, TypeOK, Tables, KeysKept, keys, memb
  <2>3. MembersKept
    BY DEF Inv, TypeOK, Tables, MembersKept, memb
  <2>4. ASSUME NEW q \in Req PROVE Same(q) /\ Joined(q)
    <3>1. Same(q)
      BY Zenon DEF Same, req, tok, out, hist
    <3>2. Good(q)
      BY Zenon DEF Inv
    <3> QED
      BY <3>1, <3>2, Zenon DEF Joined, Good, GoodKey, GoodToken, hist, memb
  <2> QED
    BY <1>1, <2>1, <2>2, <2>3, <2>4, Zenon
<1> QED
  BY <1>2, <1>3, <1>4, Zenon
-----------------------------------------------------------------------------
\* Every step keeps the invariant.
LEMMA InvStep == Inv /\ [Next]_vars => Inv'
<1> SUFFICES ASSUME Inv, [Next]_vars PROVE Inv'
  OBVIOUS
<1>1. ASSUME NEW r \in Req, SendSession(r) \/ SendScoped(r) \/ Handle(r) \/ Fail(r)
      PROVE  Inv'
  <2>1. CASE Handle(r)
    BY <2>1, ResolveStep, SignStep, RequireAuthStep, RequireKeyStep, CheckMembershipStep,
       SubmitStep, ReadStep, MintStep, DeleteStep, RevokeStep, Zenon DEF Handle
  <2> QED
    BY <1>1, <2>1, SendSessionStep, SendScopedStep, FailStep, Zenon
<1>2. CASE UNCHANGED vars
  <2> USE <1>2 DEF vars, memb, keys, req, tok, out, hist
  <2>1. TypeOK' /\ Tables'
    BY Zenon DEF Inv, TypeOK, Tables
  <2>2. ASSUME NEW r \in Req PROVE Good(r)'
    <3>1. Good(r)
      BY Zenon DEF Inv
    <3> QED
      BY <3>1, Zenon DEF Good, GoodSession, GoodKey, GoodToken, GoodEffect, Signed, KeyOf
  <2> QED
    BY <2>1, <2>2, Zenon DEF Inv
<1> QED
  BY <1>1, <1>2, AroundStep, Zenon DEF Next

\* The invariant holds of Spec.
THEOREM AccessInv == Spec => []Inv
  BY InitInv, InvStep, PTL DEF Spec

\* TypeOK: in particular a key is minted in at most MaxMint attempts.
THEOREM AccessTypes == Spec => []TypeOK
<1>1. Inv => TypeOK
  BY Zenon DEF Inv
<1> QED
  BY <1>1, AccessInv, PTL

\* KeyAccessIsLive: the live checks of RequireAuthWithAPIKeys, for any number
\* of keys and requests and any interleaving of their queries.
THEOREM KeyAccess == Spec => []KeyAccessIsLive
<1>1. Inv => KeyAccessIsLive
  BY Zenon DEF Inv, KeyAccessIsLive, Good, GoodKey, Through, Passed
<1> QED
  BY <1>1, AccessInv, PTL

\* StaleClaimsBounded: the claims RequireAuth trusts are never older than the
\* token and the time it took to sign it.
THEOREM StaleClaims == Spec => []StaleClaimsBounded
<1>1. Inv => StaleClaimsBounded
  BY Zenon DEF Inv, StaleClaimsBounded, Good, GoodToken, Through, Passed
<1> QED
  BY <1>1, AccessInv, PTL

\* RowsAttributed: what ExecutionsHandler.Create records of its actor is true
\* and stays true.
THEOREM Attribution == Spec => []RowsAttributed
<1>1. ASSUME Inv, NEW r \in Req, exec[r] # None
      PROVE  IF exec[r][2] # None
               THEN exec[r][1] = kuser[exec[r][2]] /\ exec[r][3] = ktenant[exec[r][2]]
               ELSE cred[r] \in Req /\ exec[r][1] = user[cred[r]] /\ exec[r][3] = ten[r]
  <2>1. Good(r) /\ exec[r] = <<user[r], KeyOf(r), ten[r]>> /\ pc[r] = "200"
    BY <1>1, Zenon DEF Inv, Good, GoodEffect
  <2>2. cred[r] # None /\ cred[r] \in Key \cup Req
    BY <1>1, <2>1, Zenon DEF Inv, TypeOK, Good, GoodSession
  <2>3. CASE cred[r] \in Key
    <3>1. user[r] = kuser[cred[r]] /\ ten[r] = ktenant[cred[r]]
      BY <2>1, <2>3, Zenon DEF Good, GoodKey, Passed
    <3> QED
      BY <2>1, <2>2, <2>3, <3>1 DEF KeyOf
  <2>4. CASE cred[r] \in Req
    <3>1. user[r] = user[cred[r]]
      BY <2>1, <2>4, Zenon DEF Good, GoodToken
    <3> QED
      BY <2>1, <2>2, <2>4, <3>1, AccessAssumption DEF KeyOf
  <2> QED
    BY <2>2, <2>3, <2>4, Zenon
<1>2. Inv => RowsAttributed
  BY <1>1, Zenon DEF RowsAttributed
<1> QED
  BY <1>2, AccessInv, PTL

\* TenantScoped: the tenant in the WHERE clauses and the comparison in
\* APIKeysHandler.Delete.
THEOREM Scoped == Spec => []TenantScoped
<1>1. Inv => TenantScoped
  BY Zenon DEF Inv, TenantScoped, Good, GoodEffect
<1> QED
  BY <1>1, AccessInv, PTL

\* DeleteSticks: an answered DELETE, however keys are minted after it.
THEOREM Deleted == Spec => []DeleteSticks
<1>1. Inv => DeleteSticks
  BY Zenon DEF Inv, DeleteSticks, Good, GoodEffect
<1> QED
  BY <1>1, AccessInv, PTL
=============================================================================
