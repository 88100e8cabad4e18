------------------------------- MODULE Access -------------------------------
(***************************************************************************)
(* Who may do what for which tenant: access tokens that carry the          *)
(* memberships of the moment they were signed, API keys that are looked up *)
(* on every request, the middleware RequireAuthWithAPIKeys that turns      *)
(* either into a user, a tenant and a key id, and the tenant-scoped        *)
(* handlers behind it.  Every query is a step, so that a membership, a key *)
(* or a token may change between the check and the handler.                *)
(*                                                                         *)
(* A request is a "session" (the part of writeSession that reads the       *)
(* memberships and signs an access token) or "scoped": it has a tenant and *)
(* a credential.  The middleware is the same on every scoped route, so the *)
(* handler is picked when the request comes through.  An access token is   *)
(* named after the request that signed it.  No handler removes a           *)
(* membership: operators do, in the database.                              *)
(***************************************************************************)
EXTENDS Integers

CONSTANTS
  User, Tenant, Key, Req,
  TTL,      \* lifetime of an access token (15 minutes)
  MaxMint,  \* attempts of APIKeysHandler.Create (3)
  MaxTime,  \* bound on the clock
  MaxMoves, \* bound on the changes of memberships
  MaxFaults,  \* bound on the calls that fail
  None

ASSUME AccessAssumption ==
  /\ None \notin User \cup Tenant \cup Key \cup Req /\ Key \cap Req = {}
  /\ TTL \in Nat /\ MaxMint \in Nat \ {0} /\ MaxTime \in Nat
  /\ MaxMoves \in Nat /\ MaxFaults \in Nat

VARIABLES
  now,
  member,   \* the memberships table: pairs <<user, tenant>>
  left,     \* when a pair was last removed
  key, kuser, ktenant,  \* the api_keys table: state, owner and tenant
  cred, ten, user,  \* a request: its credential and tenant, if it is scoped,
            \* and the user it is made by
  target,   \* the key a DELETE is about to revoke, or has revoked
  pc,       \* its next step, or its answer
  att,      \* attempts of Create
  claims, read, exp,  \* the token a session signs: tenants, when they were
            \* read, and expiry
  passed,   \* when the middleware let a request through by its claims
  exec,     \* the execution row a request inserted: <<user, key, tenant>>
  seen,     \* the tenants of the rows a request was shown
  was, dead,  \* history: requests whose user was a member at some time since
            \* they were sent, and requests sent with a key already revoked
  moves, faults

memb == <<member, left>>
keys == <<key, kuser, ktenant>>
req  == <<cred, ten>>
tok  == <<claims, read, exp>>
out  == <<exec, seen>>
hist == <<was, dead>>
vars == <<now, memb, keys, req, user, target, pc, att, tok, passed, out, hist, moves, faults>>

Pair == User \X Tenant
Row == User \X (Key \cup {None}) \X Tenant
Open == {"sent", "sign", "member", "handle", "revoke"}
Answers == {"200", "401", "403", "404", "500"}

\* The type invariant: a key is minted in at most MaxMint attempts.
TypeOK ==
  /\ now \in Nat /\ member \subseteq Pair /\ left \in [Pair -> Nat]
  /\ key \in [Key -> {"absent", "live", "revoked"}]
  /\ kuser \in [Key -> User \cup {None}] /\ ktenant \in [Key -> Tenant \cup {None}]
  /\ cred \in [Req -> Key \cup Req \cup {None}]
  /\ ten \in [Req -> Tenant \cup {None}] /\ target \in [Req -> Key \cup {None}]
  /\ user \in [Req -> User \cup {None}]
  /\ pc \in [Req -> {"new"} \cup Open \cup Answers] /\ att \in [Req -> 0..MaxMint - 1]
  /\ claims \in [Req -> SUBSET Tenant] /\ read \in [Req -> Nat] /\ exp \in [Req -> Nat]
  /\ passed \in [Req -> Nat]
  /\ exec \in [Req -> Row \cup {None}] /\ seen \in [Req -> SUBSET Tenant]
  /\ was \subseteq Req /\ dead \subseteq Req
  /\ moves \in 0..MaxMoves /\ faults \in 0..MaxFaults

\* Keys may have been minted before.
Init ==
  /\ now = 0 /\ member \in SUBSET Pair /\ left = [p \in Pair |-> 0]
  /\ key \in [Key -> {"absent", "live"}]
  /\ \E p \in [Key -> Pair] :
       /\ kuser = [k \in Key |-> IF key[k] = "absent" THEN None ELSE p[k][1]]
       /\ ktenant = [k \in Key |-> IF key[k] = "absent" THEN None ELSE p[k][2]]
  /\ cred = [r \in Req |-> None]
  /\ ten = [r \in Req |-> None] /\ target = [r \in Req |-> None]
  /\ user = [r \in Req |-> None] /\ pc = [r \in Req |-> "new"] /\ att = [r \in Req |-> 0]
  /\ claims = [r \in Req |-> {}] /\ read = [r \in Req |-> 0] /\ exp = [r \in Req |-> 0]
  /\ passed = [r \in Req |-> 0]
  /\ exec = [r \in Req |-> None] /\ seen = [r \in Req |-> {}]
  /\ was = {} /\ dead = {} /\ moves = 0 /\ faults = 0

Goto(r, l) == pc' = [pc EXCEPT ![r] = l]

\* Tokens that were signed and keys that were inserted.
Tokens == {q \in Req : cred[q] = None /\ pc[q] = "200"}
Minted == {k \in Key : key[k] # "absent"}

-----------------------------------------------------------------------------
\* Requests arrive.

Sent(r) ==
  /\ pc[r] = "new" /\ Goto(r, "sent")
  /\ UNCHANGED <<now, memb, keys, target, att, tok, passed, out, moves, faults>>
\* The user behind a credential.
Owner(c) == IF c \in Key THEN kuser[c] ELSE user[c]

\* Somebody has signed in.
SendSession(r) ==
  /\ Sent(r)
  /\ \E u \in User : user' = [user EXCEPT ![r] = u]
  /\ UNCHANGED <<cred, ten, hist>>

\* A request for a tenant, with a token or a key.
SendScoped(r) ==
  /\ Sent(r)
  /\ \E c \in Tokens \cup Minted, t \in Tenant :
       /\ cred' = [cred EXCEPT ![r] = c] /\ ten' = [ten EXCEPT ![r] = t]
       /\ user' = [user EXCEPT ![r] = IF c \in Req THEN user[c] ELSE None]
       /\ was' = IF <<Owner(c), t>> \in member THEN was \cup {r} ELSE was
       /\ dead' = IF c \in Key /\ key[c] = "revoked" THEN dead \cup {r} ELSE dead

-----------------------------------------------------------------------------
\* writeSession: ListTenantMemberships, then SignAccessToken.

ResolveMemberships(r) ==
  /\ pc[r] = "sent" /\ cred[r] = None /\ Goto(r, "sign")
  /\ claims' = [claims EXCEPT ![r] = {t \in Tenant : <<user[r], t>> \in member}]
  /\ read' = [read EXCEPT ![r] = now]
  /\ UNCHANGED <<now, memb, keys, req, user, target, att, exp, passed, out, hist, moves, faults>>

SignAccessToken(r) ==
  /\ pc[r] = "sign" /\ Goto(r, "200") /\ exp' = [exp EXCEPT ![r] = now + TTL]
  /\ UNCHANGED <<now, memb, keys, req, user, target, att, claims, read, passed, out, hist, moves, faults>>

-----------------------------------------------------------------------------
\* RequireAuthWithAPIKeys

\* ParseAccessToken.  (The mutant does not look at the expiry.)
Parses_Mutant(c) == TRUE
Parses(c) == now < exp[c]

\* RequireAuth: a token that does not parse, a tenant among its claims, or a
\* look into the store for any other.
RequireAuth(r) ==
  /\ pc[r] = "sent" /\ cred[r] \in Req
  /\ \/ ~Parses(cred[r]) /\ Goto(r, "401") /\ UNCHANGED passed
     \/ /\ Parses(cred[r]) /\ ten[r] \in claims[cred[r]]
        /\ Goto(r, "handle") /\ passed' = [passed EXCEPT ![r] = now]
     \/ /\ Parses(cred[r]) /\ ten[r] \notin claims[cred[r]]
        /\ Goto(r, "member") /\ UNCHANGED passed
  /\ UNCHANGED <<now, memb, keys, req, user, target, att, tok, out, hist, moves, faults>>

\* CheckAPIKey looks the row up.  (The mutant forgets revoked_at.)
CheckAPIKey_Mutant(k) == key[k] # "absent"
CheckAPIKey(k) == key[k] = "live"

\* A key is good for its own tenant.  (The mutant takes it for any.)
KeyFits_Mutant(k, t) == TRUE
KeyFits(k, t) == ktenant[k] = t

\* An unknown or revoked key is a 401, a key of another tenant a 403, and the
\* owner must be a member now.
RequireKey(r) ==
  LET k == cred[r] IN
  /\ pc[r] = "sent" /\ k \in Key
  /\ \/ ~CheckAPIKey(k) /\ Goto(r, "401") /\ UNCHANGED user
     \/ CheckAPIKey(k) /\ ~KeyFits(k, ten[r]) /\ Goto(r, "403") /\ UNCHANGED user
     \/ /\ CheckAPIKey(k) /\ KeyFits(k, ten[r]) /\ Goto(r, "member")
        /\ user' = [user EXCEPT ![r] = kuser[k]]
  /\ UNCHANGED <<now, memb, keys, req, target, att, tok, passed, out, hist, moves, faults>>

\* CheckMembership.  (The mutant takes the minting of a key for a membership.)
IsMember_Mutant(u, t) == \E k \in Key : kuser[k] = u /\ ktenant[k] = t
IsMember(u, t) == <<u, t>> \in member
CheckMembership(r) ==
  /\ pc[r] = "member"
  /\ \/ IsMember(user[r], ten[r]) /\ Goto(r, "handle")
     \/ ~IsMember(user[r], ten[r]) /\ Goto(r, "403")
  /\ UNCHANGED <<now, memb, keys, req, user, target, att, tok, passed, out, hist, moves, faults>>

-----------------------------------------------------------------------------
\* The handlers, with the tenant, user and key id the middleware resolved.

KeyOf(r) == IF cred[r] \in Key THEN cred[r] ELSE None

\* ExecutionsHandler.Create inserts a row with its actor.
Submit(r) ==
  /\ pc[r] = "handle" /\ Goto(r, "200")
  /\ exec' = [exec EXCEPT ![r] = <<user[r], KeyOf(r), ten[r]>>]
  /\ UNCHANGED <<now, memb, keys, req, user, target, att, tok, passed, seen, hist, moves, faults>>

\* GetExecution selects by id and tenant.  (The mutant selects by id.)
GetExecution_Mutant(e, t) == exec[e] # None
GetExecution(e, t) == exec[e] # None /\ exec[e][3] = t
ListExecutions(t) == {e \in Req : exec[e] # None /\ exec[e][3] = t}
ListAPIKeys(t) == {k \in Minted : ktenant[k] = t}

\* Show answers with rows of the tenants ts.
Show(r, ts) ==
  /\ pc[r] = "handle" /\ Goto(r, "200") /\ seen' = [seen EXCEPT ![r] = ts]
  /\ UNCHANGED <<now, memb, keys, req, user, target, att, tok, passed, exec, hist, moves, faults>>
Get(r) ==
  \E e \in Req :
    \/ GetExecution(e, ten[r]) /\ Show(r, {exec[e][3]})
    \/ /\ ~GetExecution(e, ten[r]) /\ pc[r] = "handle" /\ Goto(r, "404")
       /\ UNCHANGED <<now, memb, keys, req, user, target, att, tok, passed, out, hist, moves, faults>>
List(r) == Show(r, {exec[e][3] : e \in ListExecutions(ten[r])})
ListKeys(r) == Show(r, {ktenant[k] : k \in ListAPIKeys(ten[r])})

\* APIKeysHandler.Create: a drawn id that is taken (23505) is drawn again.
\* (The mutants let an id of a revoked key be reused and count one attempt
\* too many.)
KeyIdTaken_Mutant(k) == key[k] = "live"
KeyIdTaken(k) == key[k] # "absent"
Again_Mutant(r) == att[r] < MaxMint
Again(r) == att[r] < MaxMint - 1
Mint(r) ==
  /\ pc[r] = "handle"
  /\ \E k \in Key :
       \/ /\ ~KeyIdTaken(k) /\ key' = [key EXCEPT ![k] = "live"]
          /\ kuser' = [kuser EXCEPT ![k] = user[r]] /\ ktenant' = [ktenant EXCEPT ![k] = ten[r]]
          /\ Goto(r, "200") \/ Goto(r, "500")
          /\ UNCHANGED att
       \/ KeyIdTaken(k) /\ Again(r) /\ att' = [att EXCEPT ![r] = @ + 1] /\ UNCHANGED <<keys, pc>>
       \/ KeyIdTaken(k) /\ ~Again(r) /\ Goto(r, "500") /\ UNCHANGED <<keys, att>>
  /\ UNCHANGED <<now, memb, req, user, target, tok, passed, out, hist, moves, faults>>

\* APIKeysHandler.Delete: GetAPIKey, the tenant of the row, then RevokeAPIKey.
\* (The mutant does not compare the tenant.)
Deletable_Mutant(k, t) == key[k] # "absent"
Deletable(k, t) == key[k] # "absent" /\ ktenant[k] = t
Delete(r) ==
  /\ pc[r] = "handle"
  /\ \E k \in Key :
       \/ /\ Deletable(k, ten[r]) /\ Goto(r, "revoke")
          /\ target' = [target EXCEPT ![r] = k]
       \/ ~Deletable(k, ten[r]) /\ Goto(r, "404") /\ UNCHANGED target
  /\ UNCHANGED <<now, memb, keys, req, user, att, tok, passed, out, hist, moves, faults>>
RevokeAPIKey(r) ==
  /\ pc[r] = "revoke" /\ key' = [key EXCEPT ![target[r]] = "revoked"]
  /\ Goto(r, "200") \/ Goto(r, "500")
  /\ UNCHANGED <<now, memb, kuser, ktenant, req, user, target, att, tok, passed, out, hist, moves, faults>>

\* A query fails, the body or the path does not fit, or the client is gone.
\* A key that cannot be looked up is a 401 and a membership that cannot be
\* checked a 403; "500" is any other failure.
FailAnswer(r) ==
  CASE pc[r] = "sent" /\ cred[r] \in Key -> "401"
    [] pc[r] = "member" -> "403"
    [] OTHER -> "500"
Fail(r) ==
  /\ pc[r] \in Open /\ faults < MaxFaults /\ faults' = faults + 1 /\ Goto(r, FailAnswer(r))
  /\ UNCHANGED <<now, memb, keys, req, user, target, att, tok, passed, out, hist, moves>>

-----------------------------------------------------------------------------
\* Around the requests: memberships come and go, and time passes.

Moves == moves < MaxMoves /\ moves' = moves + 1
AddMember(p) ==
  /\ Moves /\ p \notin member /\ member' = member \cup {p}
  /\ was' = was \cup {r \in Req : cred[r] # None /\ <<Owner(cred[r]), ten[r]>> = p}
  /\ UNCHANGED <<now, left, keys, req, user, target, pc, att, tok, passed, out, dead, faults>>
RemoveMember(p) ==
  /\ Moves /\ p \in member /\ member' = member \ {p} /\ left' = [left EXCEPT ![p] = now]
  /\ UNCHANGED <<now, keys, req, user, target, pc, att, tok, passed, out, hist, faults>>
Tick ==
  /\ now < MaxTime /\ now' = now + 1
  /\ UNCHANGED <<memb, keys, req, user, target, pc, att, tok, passed, out, hist, moves, faults>>

Handle(r) ==
  \/ ResolveMemberships(r) \/ SignAccessToken(r) \/ RequireAuth(r) \/ RequireKey(r)
  \/ CheckMembership(r) \/ Submit(r) \/ Get(r) \/ List(r) \/ ListKeys(r)
  \/ Mint(r) \/ Delete(r) \/ RevokeAPIKey(r)
Next ==
  \/ \E r \in Req : SendSession(r) \/ SendScoped(r) \/ Handle(r) \/ Fail(r)
  \/ \E p \in Pair : AddMember(p) \/ RemoveMember(p)
  \/ Tick

Spec == Init /\ [][Next]_vars

-----------------------------------------------------------------------------
\* Requests the middleware let through.
Through(r) == pc[r] \in {"handle", "revoke"} \/ (pc[r] \in {"200", "404"} /\ cred[r] # None)

\* A key that was revoked before a request was sent does not serve it, and
\* "a removed user loses key access immediately" (middleware/tenant.go:170):
\* the owner was a member at some moment since.
KeyAccessIsLive ==
  \A r \in Req : Through(r) /\ cred[r] \in Key =>
    r \notin dead /\ r \in was

\* A token serves a user who is no longer a member for at most its lifetime
\* after the memberships were read: counted from the removal, less than TTL
\* plus the time writeSession took from the read to the signature.
StaleClaimsBounded ==
  \A r \in Req : Through(r) /\ cred[r] \in Req =>
    \/ r \in was
    \/ passed[r] < left[<<user[r], ten[r]>>] + (exp[cred[r]] - read[cred[r]])

\* A row is attributed to the credential that made it, and stays so: the key
\* it names still has the row's user and tenant, and a row without a key has
\* the user of the token.
RowsAttributed ==
  \A r \in Req : exec[r] # None =>
    IF exec[r][2] # None
      THEN exec[r][1] = kuser[exec[r][2]] /\ exec[r][3] = ktenant[exec[r][2]]
      ELSE cred[r] \in Req /\ exec[r][1] = user[cred[r]] /\ exec[r][3] = ten[r]

\* A request reads and revokes only what belongs to its own tenant.
TenantScoped ==
  \A r \in Req :
    /\ seen[r] \subseteq {ten[r]}
    /\ target[r] # None => ktenant[target[r]] = ten[r]

\* Once a DELETE is answered 200 the key is revoked for good, whatever is
\* minted afterwards.
DeleteSticks ==
  \A r \in Req : target[r] # None /\ pc[r] = "200" => key[target[r]] = "revoked"
=============================================================================
