--------------------------- MODULE SessionsProofs ---------------------------
(***************************************************************************)
(* Proofs about Sessions, for any number of users, tokens and requests.    *)
(* The inductive invariant says of the table that sessions have one live   *)
(* token unless they ended, and of a rotation that its row lock keeps the  *)
(* token it presents live until it commits.                                *)
(* AllInv follows a LogoutAll from its arrival to its answer.              *)
(***************************************************************************)
EXTENDS Sessions, FiniteSetTheorems, TLAPS

\* Rows that were not inserted belong to no session, and the others to one
\* that began with a login.
Chains ==
  /\ \A j \in Jti :
       /\ tok[j] = "absent" => login[j] = None /\ parent[j] = None
       /\ tok[j] # "absent" => login[login[j]] = login[j]
  /\ \A l \in ended : tok[l] # "absent"

\* The live tokens of sessions, as SessionTokens counts them.
OneLive ==
  /\ \A i, j \in Jti : tok[i] = "live" /\ tok[j] = "live" /\ login[i] = login[j] => i = j
  /\ \A j \in Jti : tok[j] = "live" => login[j] \notin ended
  /\ \A l \in Jti : login[l] = l /\ l \notin ended =>
       \E j \in Jti : tok[j] = "live" /\ login[j] = l

\* A token that has a successor is revoked, and has one successor.
Parents ==
  /\ \A i \in Jti : parent[i] # None => tok[parent[i]] = "revoked"
  /\ NoDoubleMint

\* A rotation holds its row, which nobody revokes meanwhile; a request was
\* sent with a user or with a token that exists.
Holding ==
  /\ \A j \in Jti : rowlock[j] # None => tok[j] = "live"
  /\ \A r \in Req :
       /\ pc[r] = "commit" => arg[r] \in Jti /\ rowlock[arg[r]] = r
       /\ pc[r] # "new" /\ kind[r] \in {"login", "all"} => arg[r] \in User
       /\ pc[r] # "new" /\ kind[r] \in {"refresh", "logout"} =>
            arg[r] \in Jti /\ tok[arg[r]] # "absent"

Table == Chains /\ OneLive /\ Parents
Inv == TypeOK /\ Table /\ Holding
-----------------------------------------------------------------------------
(* What the statements do to the table.                                     *)

\* The types of the table and of its history, apart from the requests.
Rows ==
  /\ tok \in [Jti -> {"absent", "live", "revoked"}]
  /\ owner \in [Jti -> User \cup {None}]
  /\ parent \in [Jti -> Jti \cup {None}] /\ login \in [Jti -> Jti \cup {None}]
  /\ \A j \in Jti : tok[j] # "absent" => owner[j] \in User /\ login[j] \in Jti
  /\ ended \subseteq Jti

\* The types of the requests.
Requests ==
  /\ expired \subseteq Jti /\ issued \subseteq {j \in Jti : tok[j] # "absent"}
  /\ rowlock \in [Jti -> Req \cup {None}]
  /\ \A j \in Jti : rowlock[j] # None => pc[rowlock[j]] = "commit" /\ arg[rowlock[j]] = j
  /\ pc \in [Req -> {"new", "sent", "commit", "rows", "200", "401", "500", "gone"}]
  /\ kind \in [Req -> {None, "login", "refresh", "logout", "all"}]
  /\ arg \in [Req -> User \cup Jti \cup {None}]
  /\ sel \in [Req -> SUBSET Jti]
  /\ before \in [Req -> SUBSET Jti]
  /\ faults \in 0..MaxFaults

\* The two halves make up the type invariant.
LEMMA Halves == TypeOK <=> Rows /\ Requests
BY Zenon DEF TypeOK, Rows, Requests

\* A statement that leaves the table alone keeps its invariant.
LEMMA TableKept ==
  ASSUME Rows, Table, UNCHANGED <<table, ended>>
  PROVE  Rows' /\ Table'
BY DEF Rows, Table, Chains, OneLive, Parents, NoDoubleMint, table

\* The insert of a login starts a session with one live token.
LEMMA LoginRow ==
  ASSUME Rows, Table, NEW n \in Jti, NEW u \in User, Fresh(n),
         tok' = [tok EXCEPT ![n] = "live"], CreateRefreshToken(n, u, None), UNCHANGED ended
  PROVE  Rows' /\ Table'
<1> USE SessionsAssumption DEF Rows, Fresh, CreateRefreshToken
<1>1. Rows'
  OBVIOUS
<1>2. /\ tok'[n] = "live" /\ login'[n] = n /\ parent'[n] = None
      /\ \A j \in Jti \ {n} : tok'[j] = tok[j] /\ login'[j] = login[j] /\ parent'[j] = parent[j]
  OBVIOUS
<1>3. /\ login[n] = None /\ \A j \in Jti : tok[j] # "absent" => login[j] # n
      /\ n \notin ended
  BY DEF Table, Chains
<1>4. Chains'
  BY <1>1, <1>2, <1>3 DEF Table, Chains
<1>5. OneLive'
  BY <1>1, <1>2, <1>3 DEF Table, OneLive
<1>6. Parents'
  BY <1>1, <1>2, <1>3 DEF Table, Parents, NoDoubleMint
<1> QED BY <1>1, <1>4, <1>5, <1>6, Zenon DEF Table

\* A rotation revokes a live token and inserts its only successor.
LEMMA RotatedRows ==
  ASSUME Rows, Table, NEW j \in Jti, NEW n \in Jti, tok[j] = "live", Fresh(n),
         Rotate(j, n), UNCHANGED ended
  PROVE  Rows' /\ Table'
<1> USE SessionsAssumption DEF Rows, Fresh, Rotate, CreateRefreshToken
<1>0. j # n /\ j # None
  OBVIOUS
<1>1. Rows'
  BY <1>0, Zenon
<1>2. /\ tok'[n] = "live" /\ login'[n] = login[j] /\ parent'[n] = j
      /\ tok'[j] = "revoked"
      /\ \A i \in Jti \ {n, j} : tok'[i] = tok[i]
      /\ \A i \in Jti \ {n} : login'[i] = login[i] /\ parent'[i] = parent[i]
  BY <1>0, Zenon
<1>3. /\ login[n] = None /\ login[j] \in Jti /\ login[j] # n
      /\ \A i \in Jti : tok[i] # "absent" => login[i] # n
      /\ \A i \in Jti : parent[i] # None => parent[i] # j
  BY DEF Table, Chains, Parents
<1>4. Chains'
  <2>1. \A i \in Jti : tok'[i] = "absent" => login'[i] = None /\ parent'[i] = None
    BY <1>0, <1>2 DEF Table, Chains
  <2>2. \A i \in Jti : tok'[i] # "absent" => login'[login'[i]] = login'[i]
    BY <1>0, <1>2, <1>3 DEF Table, Chains
  <2>3. \A l \in ended' : tok'[l] # "absent"
    BY <1>0, <1>2, <1>3, Zenon DEF Table, Chains
  <2> QED BY <2>1, <2>2, <2>3, Zenon DEF Chains
<1>5. OneLive'
  <2>1. \A i, k \in Jti : tok'[i] = "live" /\ tok'[k] = "live" /\ login'[i] = login'[k] => i = k
    BY <1>0, <1>2, <1>3 DEF Table, OneLive
  <2>2. \A i \in Jti : tok'[i] = "live" => login'[i] \notin ended'
    BY <1>0, <1>2, <1>3 DEF Table, OneLive
  <2>3. \A l \in Jti : login'[l] = l /\ l \notin ended' =>
          \E i \in Jti : tok'[i] = "live" /\ login'[i] = l
    <3> SUFFICES ASSUME NEW l \in Jti, login'[l] = l, l \notin ended'
                 PROVE  \E i \in Jti : tok'[i] = "live" /\ login'[i] = l
      OBVIOUS
    <3>1. CASE login[j] = l
      BY <3>1, <1>2, Zenon
    <3>2. CASE login[j] # l
      <4>1. l # n /\ login[l] = l
        BY <3>2, <1>2, Zenon
      <4>2. PICK i \in Jti : tok[i] = "live" /\ login[i] = l
        BY <4>1, Zenon DEF Table, OneLive
      <4> QED BY <3>2, <4>2, <1>2, Zenon
    <3> QED BY <3>1, <3>2, Zenon
  <2> QED BY <2>1, <2>2, <2>3, Zenon DEF OneLive
<1>6. Parents'
  <2>1. \A i \in Jti : parent'[i] # None => tok'[parent'[i]] = "revoked"
    BY <1>0, <1>1, <1>2, <1>3 DEF Table, Parents
  <2>2. NoDoubleMint'
    BY <1>0, <1>2, <1>3 DEF Table, Parents, NoDoubleMint
  <2> QED BY <2>1, <2>2, Zenon DEF Parents
<1> QED BY <1>1, <1>4, <1>5, <1>6, Zenon DEF Table

\* A logout revokes live tokens, and the sessions they belong to have ended.
LEMMA RevokedRows ==
  ASSUME Rows, Table, NEW S \in SUBSET Jti, UNCHANGED <<owner, parent, login>>,
         tok' = [j \in Jti |-> IF j \in S /\ tok[j] = "live" THEN "revoked" ELSE tok[j]],
         ended' = ended \cup {login[j] : j \in {i \in S : tok[i] = "live"}}
  PROVE  Rows' /\ Table'
<1> USE SessionsAssumption DEF Rows
<1>1. Rows'
  OBVIOUS
<1>2. \A j \in Jti : /\ tok'[j] = "absent" <=> tok[j] = "absent"
                     /\ tok'[j] = "live" <=> tok[j] = "live" /\ j \notin S
                     /\ tok[j] = "revoked" => tok'[j] = "revoked"
  OBVIOUS
<1>3. \A l \in ended' : l \in ended \/ \E j \in S : tok[j] = "live" /\ login[j] = l
  OBVIOUS
<1>4. Chains'
  BY <1>1, <1>2, <1>3 DEF Table, Chains
<1>5. OneLive'
  <2>1. \A i \in Jti : tok'[i] = "live" => login[i] \notin ended'
    BY <1>2, <1>3 DEF Table, OneLive
  <2>2. \A l \in Jti : login[l] = l /\ l \notin ended' =>
          \E i \in Jti : tok'[i] = "live" /\ login[i] = l
    BY <1>2 DEF Table, OneLive
  <2> QED BY <1>2, <2>1, <2>2 DEF Table, OneLive
<1>6. Parents'
  BY <1>2 DEF Table, Parents, NoDoubleMint
<1> QED BY <1>1, <1>4, <1>5, <1>6, Zenon DEF Table
-----------------------------------------------------------------------------
(* The steps of requests.                                                   *)

\* A request that holds no row moves to a place where it holds none: the locks
\* and the arguments are as before, and rows that were inserted stay.
LEMMA Moves ==
  ASSUME Inv, NEW r \in Req, pc[r] \in {"sent", "rows"},
         NEW l \in {"rows", "200", "401", "500"}, Goto(r, l),
         UNCHANGED <<rowlock, request, before>>,
         expired' = expired, sel' \in [Req -> SUBSET Jti],
         faults' \in 0..MaxFaults,
         issued' \subseteq {j \in Jti : tok'[j] # "absent"},
         \A j \in Jti : /\ tok[j] # "absent" => tok'[j] # "absent"
                        /\ tok[j] = "live" /\ rowlock[j] # None => tok'[j] = "live"
  PROVE  Requests' /\ Holding'
<1> USE SessionsAssumption DEF Goto, request
<1>0. TypeOK /\ Requests /\ Holding
  BY Halves, Zenon DEF Inv
<1>1. /\ pc' \in [Req -> {"new", "sent", "commit", "rows", "200", "401", "500", "gone"}]
      /\ pc'[r] = l /\ \A q \in Req \ {r} : pc'[q] = pc[q]
  BY <1>0 DEF Requests
<1>2. \A j \in Jti : rowlock'[j] # None => pc'[rowlock'[j]] = "commit" /\ arg'[rowlock'[j]] = j
  BY <1>0, <1>1 DEF Requests
<1>3. Requests'
  BY <1>0, <1>1, <1>2, Zenon DEF Requests
<1>4. Holding'
  BY <1>0, <1>1 DEF Holding, Requests
<1> QED BY <1>3, <1>4, Zenon

\* The bound on faults.
LEMMA Faults == Inv /\ (NoFault \/ Fault) => faults' \in 0..MaxFaults
BY SessionsAssumption DEF Inv, TypeOK, NoFault, Fault

\* Sending a request: it names a user or a token a client has received.
LEMMA SendKeeps ==
  ASSUME Inv, NEW r \in Req, Send(r)
  PROVE  Inv'
<1> USE SessionsAssumption
<1>0. TypeOK /\ Rows /\ Requests /\ Table /\ Holding
  BY Halves, Zenon DEF Inv
<1>1. Rows' /\ Table'
  BY <1>0, TableKept, Zenon DEF Send, table
<1>2. PICK k \in {"login", "refresh", "logout", "all"} :
      \E x \in IF k \in {"login", "all"} THEN User ELSE issued :
        LET about == IF x \in User THEN LiveOf(x) ELSE {x} IN
        /\ kind' = [kind EXCEPT ![r] = k] /\ arg' = [arg EXCEPT ![r] = x]
        /\ before' = [before EXCEPT ![r] = {login[j] : j \in {i \in about : tok[i] = "live"}}]
  BY Zenon DEF Send
<1> DEFINE About(x) == IF x \in User THEN LiveOf(x) ELSE {x}
<1>3. PICK x \in IF k \in {"login", "all"} THEN User ELSE issued :
        /\ kind' = [kind EXCEPT ![r] = k] /\ arg' = [arg EXCEPT ![r] = x]
        /\ before' = [before EXCEPT ![r] = {login[j] : j \in {i \in About(x) : tok[i] = "live"}}]
  BY <1>2, Zenon
<1>4. x \in User \/ (x \in Jti /\ tok[x] # "absent")
  BY <1>0, Zenon DEF Requests
<1>5. {login[j] : j \in {i \in About(x) : tok[i] = "live"}} \subseteq Jti
  BY <1>0, <1>4 DEF Rows, LiveOf
<1> HIDE DEF About
<1>6. /\ pc[r] = "new" /\ pc' = [pc EXCEPT ![r] = "sent"]
      /\ UNCHANGED <<tok, expired, issued, rowlock, sel, faults>>
  BY Zenon DEF Send, Goto, table
<1>7. \A j \in Jti : rowlock[j] # r
  BY <1>0, <1>6 DEF Requests
<1>8. before' \in [Req -> SUBSET Jti]
  BY <1>0, <1>3, <1>5, Zenon DEF Requests
<1>9. Requests'
  BY <1>0, <1>3, <1>4, <1>6, <1>7, <1>8 DEF Requests
<1>10. Holding'
  BY <1>0, <1>3, <1>4, <1>6, <1>7 DEF Holding, Requests
<1> QED BY <1>1, <1>9, <1>10, Halves, PTL DEF Inv

\* Login: a refused login leaves the table alone, another inserts one row, and
\* its answer may be lost.
LEMMA LoginKeeps ==
  ASSUME Inv, NEW r \in Req, Login(r)
  PROVE  Inv'
<1> USE SessionsAssumption
<1>0. TypeOK /\ Rows /\ Requests /\ Table /\ Holding
  BY Halves, Zenon DEF Inv
<1>1. /\ pc[r] = "sent" /\ arg[r] \in User
      /\ UNCHANGED <<expired, rowlock, request, sel, history>>
      /\ UNCHANGED <<ended, before>>
  BY <1>0, Zenon DEF Login, Arrived, Holding, history
<1>2. ASSUME UNCHANGED <<table, issued>>, NoFault \/ Fault, Goto(r, "401") \/ Goto(r, "500")
      PROVE  Inv'
  <2>1. Rows' /\ Table'
    BY <1>0, <1>1, <1>2, TableKept, Zenon
  <2>2. Requests' /\ Holding'
    BY <1>0, <1>1, <1>2, Faults, Moves, Zenon DEF Requests, table
  <2> QED BY <2>1, <2>2, Halves, PTL DEF Inv
<1>3. ASSUME NEW n \in Jti, Fresh(n), tok' = [tok EXCEPT ![n] = "live"],
             CreateRefreshToken(n, arg[r], None), NoFault \/ Fault,
             Goto(r, "200") \/ Goto(r, "500"), issued' \subseteq issued \cup {n}
      PROVE  Inv'
  <2>1. Rows' /\ Table'
    BY <1>0, <1>1, <1>3, LoginRow, Zenon
  <2>2. /\ tok'[n] = "live" /\ \A j \in Jti \ {n} : tok'[j] = tok[j]
        /\ issued' \subseteq {j \in Jti : tok'[j] # "absent"}
    BY <1>0, <1>3 DEF Rows, Requests
  <2>3. Requests' /\ Holding'
    BY <1>0, <1>1, <1>3, <2>2, Faults, Moves DEF Requests, Fresh
  <2> QED BY <2>1, <2>3, Halves, PTL DEF Inv
<1> QED BY <1>2, <1>3, Zenon DEF Login, writeSession

\* Refresh: the UPDATE takes the row of a live token, or the request ends.
LEMMA RefreshKeeps ==
  ASSUME Inv, NEW r \in Req, Refresh(r)
  PROVE  Inv'
<1> USE SessionsAssumption
<1>0. TypeOK /\ Rows /\ Requests /\ Table /\ Holding
  BY Halves, Zenon DEF Inv
<1>1. /\ pc[r] = "sent" /\ arg[r] \in Jti
      /\ UNCHANGED <<table, expired, issued, request, sel, history>>
      /\ UNCHANGED <<tok, ended, before, kind, arg>>
  BY <1>0, Zenon DEF Refresh, Arrived, Holding, history, request, table
<1>2. Rows' /\ Table'
  BY <1>0, <1>1, TableKept, Zenon
<1>3. CASE /\ Presentable(arg[r]) /\ rowlock[arg[r]] = None /\ NoFault
           /\ Goto(r, "commit") /\ rowlock' = [rowlock EXCEPT ![arg[r]] = r]
  <2>1. /\ pc'[r] = "commit" /\ \A q \in Req \ {r} : pc'[q] = pc[q]
        /\ rowlock'[arg[r]] = r /\ \A j \in Jti \ {arg[r]} : rowlock'[j] = rowlock[j]
        /\ pc' \in [Req -> {"new", "sent", "commit", "rows", "200", "401", "500", "gone"}]
        /\ rowlock' \in [Jti -> Req \cup {None}]
    BY <1>0, <1>1, <1>3 DEF Requests, Goto
  <2>2. \A j \in Jti : rowlock'[j] # None => pc'[rowlock'[j]] = "commit" /\ arg'[rowlock'[j]] = j
    BY <1>0, <1>1, <2>1 DEF Requests
  <2>3. Requests'
    BY <1>0, <1>1, <2>1, <2>2, <1>3, Zenon DEF Requests, NoFault
  <2>4. Holding'
    BY <1>0, <1>1, <1>3, <2>1 DEF Holding, Presentable
  <2> QED BY <1>2, <2>3, <2>4, Halves, PTL DEF Inv
<1>4. CASE (NoFault \/ Fault) /\ (Goto(r, "401") \/ Goto(r, "500")) /\ UNCHANGED rowlock
  <2>1. Requests' /\ Holding'
    BY <1>0, <1>1, <1>4, Faults, Moves, Zenon DEF Requests
  <2> QED BY <1>2, <2>1, Halves, PTL DEF Inv
<1> QED BY <1>3, <1>4, Zenon DEF Refresh

\* The end of a rotation: it releases the row, of a token that was live until
\* now, and has either exchanged it or left the table alone.
LEMMA CommitKeeps ==
  ASSUME Inv, NEW r \in Req, RefreshCommit(r)
  PROVE  Inv'
<1> USE SessionsAssumption
<1>0. TypeOK /\ Rows /\ Requests /\ Table /\ Holding
  BY Halves, Zenon DEF Inv
<1> DEFINE j == arg[r]
<1>1. /\ pc[r] = "commit" /\ j \in Jti /\ rowlock[j] = r /\ tok[j] = "live"
      /\ rowlock' = [rowlock EXCEPT ![j] = None]
      /\ UNCHANGED <<expired, sel, ended, before, kind, arg>>
  BY <1>0, Zenon DEF RefreshCommit, EndTx, Holding, history, request
<1>2. ASSUME Goto(r, "200") \/ Goto(r, "401") \/ Goto(r, "500") \/ Goto(r, "gone"), NoFault \/ Fault,
             issued' \subseteq {i \in Jti : tok'[i] # "absent"},
             \A i \in Jti \ {j} : /\ tok[i] # "absent" => tok'[i] # "absent"
                                  /\ tok[i] = "live" => tok'[i] = "live",
             tok'[j] # "absent"
      PROVE  Requests' /\ Holding'
  <2>1. PICK l \in {"200", "401", "500", "gone"} : pc' = [pc EXCEPT ![r] = l]
    BY <1>2, Zenon DEF Goto
  <2>2. /\ pc' \in [Req -> {"new", "sent", "commit", "rows", "200", "401", "500", "gone"}]
        /\ pc'[r] # "commit" /\ \A q \in Req \ {r} : pc'[q] = pc[q]
        /\ rowlock' \in [Jti -> Req \cup {None}]
        /\ rowlock'[j] = None /\ \A i \in Jti \ {j} : rowlock'[i] = rowlock[i]
    BY <1>0, <1>1, <2>1 DEF Requests
  <2>3. \A i \in Jti \ {j} : rowlock[i] # r
    BY <1>0, Zenon DEF Requests
  <2>4. \A i \in Jti : rowlock'[i] # None => pc'[rowlock'[i]] = "commit" /\ arg'[rowlock'[i]] = i
    BY <1>0, <1>1, <2>2, <2>3 DEF Requests
  <2>5. Requests'
    BY <1>0, <1>1, <1>2, <2>2, <2>4, Faults, Zenon DEF Requests
  <2>6. \A i \in Jti : rowlock'[i] # None => tok'[i] = "live"
    BY <1>0, <1>2, <2>2, Zenon DEF Holding
  <2>7. \A q \in Req : pc'[q] = "commit" => arg'[q] \in Jti /\ rowlock'[arg'[q]] = q
    BY <1>0, <1>1, <2>2 DEF Holding
  <2>8. Holding'
    BY <1>0, <1>1, <1>2, <2>2, <2>6, <2>7 DEF Holding
  <2> QED BY <2>5, <2>8, Zenon
<1>3. ASSUME NEW n \in Jti, Fresh(n), Rotate(j, n), NoFault \/ Fault,
             Goto(r, "200") \/ Goto(r, "500"), issued' \subseteq issued \cup {n}
      PROVE  Inv'
  <2>1. Rows' /\ Table'
    BY <1>0, <1>1, <1>3, RotatedRows, Zenon
  <2>2. /\ tok'[n] = "live" /\ tok'[j] = "revoked"
        /\ \A i \in Jti \ {n, j} : tok'[i] = tok[i]
    BY <1>0, <1>1, <1>3, Zenon DEF Rows, Rotate, Fresh
  <2>3. issued' \subseteq {i \in Jti : tok'[i] # "absent"}
    BY <1>0, <1>3, <2>2 DEF Requests
  <2>4. Requests' /\ Holding'
    BY <1>2, <1>3, <2>2, <2>3, Zenon DEF Fresh
  <2> QED BY <2>1, <2>4, Halves, PTL DEF Inv
<1>4. ASSUME UNCHANGED <<table, issued>>, NoFault \/ Fault,
             Goto(r, "401") \/ Goto(r, "500") \/ Goto(r, "gone")
      PROVE  Inv'
  <2>1. Rows' /\ Table'
    BY <1>0, <1>1, <1>4, TableKept, Zenon
  <2>2. Requests' /\ Holding'
    BY <1>0, <1>1, <1>2, <1>4, Zenon DEF Requests, table
  <2> QED BY <2>1, <2>2, Halves, PTL DEF Inv
<1> QED BY <1>3, <1>4, Zenon DEF RefreshCommit, RefreshFails

\* Logout: it revokes a token nobody is rotating, or leaves the table alone.
LEMMA LogoutKeeps ==
  ASSUME Inv, NEW r \in Req, Logout(r)
  PROVE  Inv'
<1> USE SessionsAssumption
<1>0. TypeOK /\ Rows /\ Requests /\ Table /\ Holding
  BY Halves, Zenon DEF Inv
<1> DEFINE j == arg[r]
<1>1. /\ pc[r] = "sent" /\ j \in Jti /\ tok[j] # "absent" /\ Goto(r, "200")
      /\ UNCHANGED <<owner, parent, login, expired, issued, rowlock, request, sel, before>>
      /\ faults' \in 0..MaxFaults
  BY <1>0, Faults, Zenon DEF Logout, Arrived, Holding
<1>2. CASE UNCHANGED <<tok, ended>>
  <2>1. Rows' /\ Table'
    BY <1>0, <1>1, <1>2, TableKept, Zenon DEF table
  <2>2. Requests' /\ Holding'
    BY <1>0, <1>1, <1>2, Moves, Zenon DEF Requests
  <2> QED BY <2>1, <2>2, Halves, PTL DEF Inv
<1>3. CASE /\ rowlock[j] = None /\ tok' = [tok EXCEPT ![j] = "revoked"]
           /\ ended' = IF tok[j] = "live" THEN ended \cup {login[j]} ELSE ended
  <2>1. tok' = [i \in Jti |-> IF i \in {j} /\ tok[i] = "live" THEN "revoked" ELSE tok[i]]
    BY <1>0, <1>1, <1>3, Zenon DEF Rows
  <2>2. ended' = ended \cup {login[i] : i \in {h \in {j} : tok[h] = "live"}}
    BY <1>3, Zenon
  <2>3. Rows' /\ Table'
    BY <1>0, <1>1, <2>1, <2>2, RevokedRows, Zenon
  <2>4. \A i \in Jti : /\ tok[i] # "absent" => tok'[i] # "absent"
                       /\ tok[i] = "live" /\ rowlock[i] # None => tok'[i] = "live"
    BY <2>1, <1>3, Zenon
  <2>5. Requests' /\ Holding'
    BY <1>0, <1>1, <2>4, Moves, Zenon DEF Requests
  <2> QED BY <2>3, <2>5, Halves, PTL DEF Inv
<1> QED BY <1>2, <1>3, Zenon DEF Logout

\* LogoutAll selects rows and leaves the table alone.
LEMMA LogoutAllKeeps ==
  ASSUME Inv, NEW r \in Req, LogoutAll(r)
  PROVE  Inv'
<1> USE SessionsAssumption
<1>0. TypeOK /\ Rows /\ Requests /\ Table /\ Holding
  BY Halves, Zenon DEF Inv
<1>1. /\ pc[r] = "sent" /\ (Goto(r, "rows") \/ Goto(r, "500"))
      /\ UNCHANGED <<table, tok, ended, before, expired, issued, rowlock, request>>
      /\ faults' \in 0..MaxFaults /\ sel' \in [Req -> SUBSET Jti]
  BY <1>0, Faults DEF LogoutAll, LogoutAllFails, Arrived, LiveOf, table, history, Requests
<1>2. Rows' /\ Table'
  BY <1>0, <1>1, TableKept, Zenon
<1>3. Requests' /\ Holding'
  BY <1>0, <1>1, Moves, Zenon DEF Requests
<1> QED BY <1>2, <1>3, Halves, PTL DEF Inv

\* It then revokes those of them that are live, none of which is being rotated.
LEMMA RowsKeeps ==
  ASSUME Inv, NEW r \in Req, LogoutAllRows(r)
  PROVE  Inv'
<1> USE SessionsAssumption
<1>0. TypeOK /\ Rows /\ Requests /\ Table /\ Holding
  BY Halves, Zenon DEF Inv
<1>1. /\ pc[r] = "rows" /\ (Goto(r, "200") \/ Goto(r, "500"))
      /\ \A j \in sel[r] : rowlock[j] = None
      /\ UNCHANGED <<owner, parent, login, expired, issued, rowlock, request, sel, before>>
      /\ faults' \in 0..MaxFaults /\ sel[r] \in SUBSET Jti
  BY <1>0, Faults, Zenon DEF LogoutAllRows, LogoutAllFails, Requests
<1>2. CASE UNCHANGED <<tok, ended>>
  <2>1. Rows' /\ Table'
    BY <1>0, <1>1, <1>2, TableKept, Zenon DEF table
  <2>2. Requests' /\ Holding'
    BY <1>0, <1>1, <1>2, Moves, Zenon DEF Requests
  <2> QED BY <2>1, <2>2, Halves, PTL DEF Inv
<1>3. CASE RevokeSelected(r)
  <2>1. Rows' /\ Table'
    BY <1>0, <1>1, <1>3, RevokedRows, Zenon DEF RevokeSelected
  <2>2. \A i \in Jti : /\ tok[i] # "absent" => tok'[i] # "absent"
                       /\ tok[i] = "live" /\ rowlock[i] # None => tok'[i] = "live"
    BY <1>1, <1>3, Zenon DEF RevokeSelected
  <2>3. Requests' /\ Holding'
    BY <1>0, <1>1, <2>2, Moves, Zenon DEF Requests
  <2> QED BY <2>1, <2>3, Halves, PTL DEF Inv
<1> QED BY <1>2, <1>3, Zenon DEF LogoutAllRows

\* The seven days of a token pass.
LEMMA ExpireKeeps ==
  ASSUME Inv, NEW j \in Jti, Expire(j)
  PROVE  Inv'
<1>0. Rows /\ Requests /\ Table /\ Holding
  BY Halves, Zenon DEF Inv
<1>1. /\ UNCHANGED <<table, tok, ended, before, issued, rowlock, pc, kind, arg, sel, faults>>
      /\ expired' \subseteq Jti
  BY <1>0, Zenon DEF Expire, table, history, request, Requests
<1>2. Rows' /\ Table'
  BY <1>0, <1>1, TableKept, Zenon
<1>3. Requests' /\ Holding'
  BY <1>0, <1>1, Zenon DEF Requests, Holding
<1> QED BY <1>2, <1>3, Halves, PTL DEF Inv
-----------------------------------------------------------------------------
(* The theorems.                                                            *)

\* The invariant holds in every state of every execution.
THEOREM SessionsInv == Spec => []Inv
<1>1. Init => Inv
  <2> SUFFICES ASSUME Init PROVE Inv
    OBVIOUS
  <2>1. TypeOK
    BY SessionsAssumption DEF Init, TypeOK
  <2>2. Table
    BY SessionsAssumption, Zenon DEF Init, Table, Chains, OneLive, Parents, NoDoubleMint
  <2>3. Holding
    BY SessionsAssumption, Zenon DEF Init, Holding
  <2> QED BY <2>1, <2>2, <2>3, Zenon DEF Inv
<1>2. Inv /\ [Next]_vars => Inv'
  <2> SUFFICES ASSUME Inv, [Next]_vars PROVE Inv'
    OBVIOUS
  <2>1. CASE UNCHANGED vars
    BY <2>1 DEF vars, table, request, history, Inv, TypeOK, Table, Chains, OneLive, Parents,
                NoDoubleMint, Holding
  <2>2. CASE Next
    BY <2>2, SendKeeps, LoginKeeps, RefreshKeeps, CommitKeeps, LogoutKeeps, LogoutAllKeeps,
       RowsKeeps, ExpireKeeps, Zenon DEF Next, Handle
  <2> QED BY <2>1, <2>2, Zenon
<1> QED BY <1>1, <1>2, PTL DEF Spec

\* TypeOK: what the table, its locks and its requests hold, in particular that
\* a row lock belongs to the rotation that presents the row's token.
THEOREM SessionsTypes == Spec => []TypeOK
<1>1. Inv => TypeOK
  BY Zenon DEF Inv
<1> QED BY <1>1, SessionsInv, PTL

\* A refresh token is exchanged at most once, however many requests present it.
THEOREM MintedOnce == Spec => []NoDoubleMint
<1>1. Inv => NoDoubleMint
  BY Zenon DEF Inv, Table, Parents
<1> QED BY <1>1, SessionsInv, PTL

\* A session has one live token until a logout reaches it, and none afterwards.
THEOREM OneTokenEach == Spec => []SessionTokens
<1>1. Inv => SessionTokens
  <2> SUFFICES ASSUME Inv, NEW l \in Jti, login[l] = l
               PROVE  Cardinality({j \in Jti : login[j] = l /\ tok[j] = "live"}) =
                        IF l \in ended THEN 0 ELSE 1
    BY Zenon DEF SessionTokens
  <2> DEFINE Live == {j \in Jti : login[j] = l /\ tok[j] = "live"}
  <2>1. CASE l \in ended
    <3>1. Live = {}
      BY <2>1 DEF Inv, Table, OneLive
    <3> HIDE DEF Live
    <3>2. Cardinality(Live) = 0
      BY <3>1, FS_EmptySet, Zenon
    <3> QED BY <3>2, <2>1, Zenon DEF Live
  <2>2. CASE l \notin ended
    <3>1. PICK j \in Jti : tok[j] = "live" /\ login[j] = l
      BY <2>2, Zenon DEF Inv, Table, OneLive
    <3>2. Live = {j}
      BY <3>1, Zenon DEF Inv, Table, OneLive
    <3> HIDE DEF Live
    <3>3. Cardinality(Live) = 1
      BY <3>2, FS_Singleton, Zenon
    <3> QED BY <3>3, <2>2, Zenon DEF Live
  <2> QED BY <2>1, <2>2, Zenon
<1> QED BY <1>1, SessionsInv, PTL

-----------------------------------------------------------------------------
(* What LogoutAll does.  It does not end every session of its caller, since *)
(* a rotation it waits for inserts a row it has not selected; those are the *)
(* only sessions that it misses.                                            *)

\* A token that was revoked in a session that goes on was exchanged.
Exchanged ==
  \A i \in Jti : tok[i] = "revoked" /\ login[i] \notin ended => \E k \in Jti : parent[k] = i

\* A session has one user, from the login on.
Owned == \A j \in Jti : tok[j] # "absent" => owner[j] = owner[login[j]]

\* LogoutAll is asked to end sessions of its caller; ...
Asked(r) ==
  \A l \in before[r] : tok[l] # "absent" /\ login[l] = l /\ owner[l] = arg[r]
\* ... once it has selected, each of them has ended or has a selected row; ...
Selected(r) ==
  pc[r] \in {"rows", "200"} =>
    /\ \A l \in before[r] : l \in ended \/ \E i \in sel[r] : login[i] = l
    /\ \A i \in sel[r] : tok[i] # "absent"
\* ... and after its answer the selected rows are revoked.
Answered(r) == pc[r] = "200" => \A i \in sel[r] : tok[i] = "revoked"

Caller(r) ==
  /\ pc[r] = "commit" => kind[r] = "refresh"
  /\ pc[r] # "new" /\ kind[r] = "all" => Asked(r) /\ Selected(r) /\ Answered(r)

AllInv == Exchanged /\ Owned /\ \A r \in Req : Caller(r)

\* Rows keep their user and session, and what was revoked or ended stays so.
Grows ==
  /\ \A j \in Jti : /\ tok[j] # "absent" => tok'[j] # "absent" /\ login'[j] = login[j] /\ owner'[j] = owner[j]
                    /\ tok[j] = "revoked" => tok'[j] = "revoked"
  /\ ended \subseteq ended'

Lasting == Grows /\ Exchanged' /\ Owned'

\* A step without a statement.
LEMMA SameRows == ASSUME Exchanged, Owned, UNCHANGED <<table, ended>> PROVE Lasting
BY Zenon DEF Lasting, Grows, Exchanged, Owned, table

\* The insert of a login.
LEMMA LoginLasts ==
  ASSUME Rows, Table, Exchanged, Owned, NEW n \in Jti, NEW u \in User, Fresh(n),
         tok' = [tok EXCEPT ![n] = "live"], CreateRefreshToken(n, u, None), UNCHANGED ended
  PROVE  Lasting
<1>1. /\ tok'[n] = "live" /\ login'[n] = n /\ owner'[n] = u /\ tok[n] = "absent"
      /\ \A j \in Jti \ {n} : /\ tok'[j] = tok[j] /\ login'[j] = login[j] /\ parent'[j] = parent[j]
                              /\ owner'[j] = owner[j]
  BY Zenon DEF Rows, Fresh, CreateRefreshToken
<1>2. /\ parent[n] = None /\ None \notin Jti
      /\ \A j \in Jti : tok[j] # "absent" => login[j] \in Jti /\ login[j] # n
  <2>1. login[n] = None /\ parent[n] = None /\ None \notin Jti
    BY <1>1, SessionsAssumption, Zenon DEF Table, Chains
  <2> QED BY <2>1, Zenon DEF Table, Chains, Rows
<1>3. Grows
  BY <1>1, Zenon DEF Grows
<1>4. Exchanged'
  <2> SUFFICES ASSUME NEW i \in Jti, tok'[i] = "revoked", login'[i] \notin ended'
               PROVE  \E k \in Jti : parent'[k] = i
    BY Zenon DEF Exchanged
  <2>1. tok[i] = "revoked" /\ login[i] \notin ended
    BY <1>1, Zenon
  <2>2. PICK k \in Jti : parent[k] = i
    BY <2>1, Zenon DEF Exchanged
  <2> QED BY <1>1, <1>2, <2>2, Zenon
<1>5. Owned'
  <2> SUFFICES ASSUME NEW j \in Jti, tok'[j] # "absent" PROVE owner'[j] = owner'[login'[j]]
    BY Zenon DEF Owned
  <2>1. CASE j = n
    BY <1>1, <2>1, Zenon
  <2>2. CASE j # n
    <3>1. tok[j] # "absent" /\ login'[j] = login[j] /\ owner'[j] = owner[j]
      BY <1>1, <2>2, Zenon
    <3>2. owner'[login[j]] = owner[login[j]]
      BY <1>1, <1>2, <3>1, Zenon
    <3>3. owner[j] = owner[login[j]]
      BY <3>1, Zenon DEF Owned
    <3> QED BY <3>1, <3>2, <3>3, Zenon
  <2> QED BY <2>1, <2>2, Zenon
<1> QED BY <1>3, <1>4, <1>5, Zenon DEF Lasting

\* A rotation: the token it revokes has a successor, of the same user.
LEMMA RotationLasts ==
  ASSUME Rows, Table, Exchanged, Owned, NEW j \in Jti, NEW n \in Jti, tok[j] = "live", Fresh(n),
         Rotate(j, n), UNCHANGED ended
  PROVE  Lasting
<1>0. j # n /\ tok[n] = "absent" /\ j # None /\ None \notin Jti
  BY SessionsAssumption, Zenon DEF Fresh
<1>1. /\ tok'[n] = "live" /\ login'[n] = login[j] /\ owner'[n] = owner[j] /\ parent'[n] = j
      /\ tok'[j] = "revoked" /\ \A i \in Jti \ {n, j} : tok'[i] = tok[i]
      /\ \A i \in Jti \ {n} : login'[i] = login[i] /\ parent'[i] = parent[i] /\ owner'[i] = owner[i]
  BY <1>0, Zenon DEF Rows, Rotate, CreateRefreshToken
<1>2. /\ parent[n] = None
      /\ \A i \in Jti : tok[i] # "absent" => login[i] \in Jti /\ login[i] # n
  <2>1. login[n] = None /\ parent[n] = None
    BY <1>0, Zenon DEF Table, Chains
  <2> QED BY <1>0, <2>1, Zenon DEF Table, Chains, Rows
<1>3. Grows
  BY <1>0, <1>1, Zenon DEF Grows
<1>4. Exchanged'
  <2> SUFFICES ASSUME NEW i \in Jti, tok'[i] = "revoked", login'[i] \notin ended'
               PROVE  \E k \in Jti : parent'[k] = i
    BY Zenon DEF Exchanged
  <2>1. CASE i = j
    BY <1>1, <2>1, Zenon
  <2>2. CASE i # j
    <3>1. tok[i] = "revoked" /\ login[i] \notin ended
      BY <1>1, <2>2, Zenon
    <3>2. PICK k \in Jti : parent[k] = i
      BY <3>1, Zenon DEF Exchanged
    <3> QED BY <1>0, <1>1, <1>2, <3>2, Zenon
  <2> QED BY <2>1, <2>2, Zenon
<1>5. Owned'
  <2> SUFFICES ASSUME NEW i \in Jti, tok'[i] # "absent" PROVE owner'[i] = owner'[login'[i]]
    BY Zenon DEF Owned
  <2>1. CASE i = n
    <3>1. owner'[login[j]] = owner[login[j]] /\ owner[j] = owner[login[j]]
      <4>1. login[j] \in Jti \ {n}
        BY <1>2, Zenon
      <4> QED BY <1>1, <4>1, Zenon DEF Owned
    <3> QED BY <1>1, <2>1, <3>1, Zenon
  <2>2. CASE i # n
    <3>1. tok[i] # "absent" /\ login'[i] = login[i] /\ owner'[i] = owner[i]
      BY <1>0, <1>1, <2>2, Zenon
    <3>2. owner'[login[i]] = owner[login[i]] /\ owner[i] = owner[login[i]]
      <4>1. login[i] \in Jti \ {n}
        BY <1>2, <3>1, Zenon
      <4> QED BY <1>1, <3>1, <4>1, Zenon DEF Owned
    <3> QED BY <3>1, <3>2, Zenon
  <2> QED BY <2>1, <2>2, Zenon
<1> QED BY <1>3, <1>4, <1>5, Zenon DEF Lasting

\* A logout: the sessions of the tokens it revokes have ended.
LEMMA RevocationLasts ==
  ASSUME Rows, Table, Exchanged, Owned, NEW S \in SUBSET Jti, UNCHANGED <<owner, parent, login>>,
         tok' = [j \in Jti |-> IF j \in S /\ tok[j] = "live" THEN "revoked" ELSE tok[j]],
         ended' = ended \cup {login[j] : j \in {i \in S : tok[i] = "live"}}
  PROVE  Lasting
<1>1. \A j \in Jti : /\ tok'[j] = "absent" <=> tok[j] = "absent"
                     /\ tok[j] = "revoked" => tok'[j] = "revoked"
                     /\ tok'[j] = "revoked" => tok[j] = "revoked" \/ login[j] \in ended'
  BY Zenon
<1>2. ended \subseteq ended'
  BY Zenon
<1>3. Grows
  BY <1>1, <1>2, Zenon DEF Grows
<1>4. Exchanged'
  BY <1>1, <1>2, Zenon DEF Exchanged
<1>5. Owned'
  BY <1>1, Zenon DEF Owned
<1> QED BY <1>3, <1>4, <1>5, Zenon DEF Lasting

\* Every step makes one of these statements.
LEMMA Lasts == ASSUME Inv, AllInv, [Next]_vars PROVE Lasting
<1>0. Rows /\ Requests /\ Table /\ Holding /\ Exchanged /\ Owned
  BY Halves, Zenon DEF Inv, AllInv
<1>1. ASSUME NEW r \in Req, Send(r) \/ Refresh(r) \/ LogoutAll(r) PROVE Lasting
  BY <1>0, <1>1, SameRows, Zenon DEF Send, Refresh, LogoutAll, history
<1>2. ASSUME NEW r \in Req, Login(r) PROVE Lasting
  <2>1. arg[r] \in User /\ UNCHANGED ended
    BY <1>0, <1>2, Zenon DEF Login, Arrived, Holding, history
  <2> QED BY <1>0, <1>2, <2>1, SameRows, LoginLasts, Zenon DEF Login, writeSession
<1>3. ASSUME NEW r \in Req, RefreshCommit(r) PROVE Lasting
  <2>1. arg[r] \in Jti /\ tok[arg[r]] = "live" /\ UNCHANGED ended
    <3>1. arg[r] \in Jti /\ rowlock[arg[r]] = r /\ r # None
      BY <1>0, <1>3, SessionsAssumption, Zenon DEF RefreshCommit, Holding
    <3> QED BY <1>0, <1>3, <3>1, Zenon DEF RefreshCommit, Holding, history
  <2> QED BY <1>0, <1>3, <2>1, SameRows, RotationLasts, Zenon DEF RefreshCommit, RefreshFails
<1>4. ASSUME NEW r \in Req, Logout(r) PROVE Lasting
  <2> DEFINE j == arg[r]
  <2>1. j \in Jti /\ tok[j] # "absent" /\ UNCHANGED <<owner, parent, login>>
    BY <1>0, <1>4, Zenon DEF Logout, Arrived, Holding
  <2>2. CASE UNCHANGED <<tok, ended>>
    BY <1>0, <2>1, <2>2, SameRows, Zenon DEF table
  <2>3. CASE /\ tok' = [tok EXCEPT ![j] = "revoked"]
             /\ ended' = IF tok[j] = "live" THEN ended \cup {login[j]} ELSE ended
    <3>1. tok' = [i \in Jti |-> IF i \in {j} /\ tok[i] = "live" THEN "revoked" ELSE tok[i]]
      BY <1>0, <2>1, <2>3, Zenon DEF Rows
    <3>2. ended' = ended \cup {login[i] : i \in {h \in {j} : tok[h] = "live"}}
      BY <2>3, Zenon
    <3> QED BY <1>0, <2>1, <3>1, <3>2, RevocationLasts, Zenon
  <2> QED BY <1>4, <2>2, <2>3, Zenon DEF Logout
<1>5. ASSUME NEW r \in Req, LogoutAllRows(r) PROVE Lasting
  <2>1. sel[r] \in SUBSET Jti /\ UNCHANGED <<owner, parent, login>>
    BY <1>0, <1>5, Zenon DEF LogoutAllRows, Requests
  <2>2. UNCHANGED <<tok, ended>> \/ RevokeSelected(r)
    BY <1>5, Zenon DEF LogoutAllRows
  <2> QED BY <1>0, <2>1, <2>2, SameRows, RevocationLasts, Zenon DEF RevokeSelected, table
<1>6. ASSUME (\E j \in Jti : Expire(j)) \/ UNCHANGED vars PROVE Lasting
  BY <1>0, <1>6, SameRows, Zenon DEF Expire, vars, history, table
<1> QED BY <1>1, <1>2, <1>3, <1>4, <1>5, <1>6, Zenon DEF Next, Handle

\* What a LogoutAll knows survives the steps of others.
LEMMA CallerKept ==
  ASSUME Requests, Grows, NEW r \in Req, Caller(r), kind'[r] = kind[r], arg'[r] = arg[r], sel'[r] = sel[r],
         before'[r] = before[r], pc'[r] = pc[r]
  PROVE  Caller(r)'
<1>1. before[r] \subseteq Jti /\ sel[r] \subseteq Jti
  BY Zenon DEF Requests
<1>2. Asked(r) => Asked(r)'
  BY <1>1, Zenon DEF Asked, Grows
<1>3. Selected(r) => Selected(r)'
  <2> SUFFICES ASSUME Selected(r), pc[r] \in {"rows", "200"}
               PROVE  /\ \A l \in before[r] : l \in ended' \/ \E i \in sel[r] : login'[i] = l
                      /\ \A i \in sel[r] : tok'[i] # "absent"
    BY Zenon DEF Selected
  <2>1. \A i \in sel[r] : tok'[i] # "absent" /\ login'[i] = login[i]
    BY <1>1, Zenon DEF Selected, Grows
  <2>2. /\ \A l \in before[r] : l \in ended \/ \E i \in sel[r] : login[i] = l
        /\ ended \subseteq ended'
    BY Zenon DEF Selected, Grows
  <2> QED BY <2>1, <2>2, Zenon
<1>4. Answered(r) => Answered(r)'
  BY <1>1, Zenon DEF Answered, Grows
<1> QED BY <1>2, <1>3, <1>4, Zenon DEF Caller

\* The request comes: the sessions it is to end are its caller's.
LEMMA SendAsks ==
  ASSUME Inv, AllInv, NEW r \in Req, Send(r)
  PROVE  Caller(r)'
<1>0. Rows /\ Requests /\ Table /\ Owned
  BY Halves, Zenon DEF Inv, AllInv
<1>1. pc'[r] = "sent" /\ UNCHANGED table
  BY <1>0, Zenon DEF Send, Goto, Requests
<1>2. ASSUME kind'[r] = "all"
      PROVE  arg'[r] \in User /\ before'[r] = {login[j] : j \in {i \in LiveOf(arg'[r]) : tok[i] = "live"}}
  <2>1. kind \in [Req -> {None, "login", "refresh", "logout", "all"}] /\ DOMAIN arg = Req /\ DOMAIN before = Req
    BY <1>0, Zenon DEF Requests
  <2>2. PICK k \in {"login", "refresh", "logout", "all"} :
        \E x \in IF k \in {"login", "all"} THEN User ELSE issued :
          LET about == IF x \in User THEN LiveOf(x) ELSE {x} IN
          /\ kind' = [kind EXCEPT ![r] = k] /\ arg' = [arg EXCEPT ![r] = x]
          /\ before' = [before EXCEPT ![r] = {login[j] : j \in {i \in about : tok[i] = "live"}}]
    BY Zenon DEF Send
  <2>3. k = "all"
    BY <1>2, <2>1, <2>2, Zenon
  <2>4. PICK x \in User :
          /\ arg' = [arg EXCEPT ![r] = x]
          /\ before' = [before EXCEPT ![r] = {login[j] : j \in {i \in LiveOf(x) : tok[i] = "live"}}]
    BY <2>2, <2>3, Zenon
  <2>5. arg'[r] = x /\ before'[r] = {login[j] : j \in {i \in LiveOf(x) : tok[i] = "live"}}
    BY <2>1, <2>4
  <2> QED BY <2>5, Zenon
<1>3. ASSUME kind'[r] = "all", NEW l \in before'[r]
      PROVE  tok[l] # "absent" /\ login[l] = l /\ owner[l] = arg'[r]
  <2>1. PICK j \in Jti : tok[j] = "live" /\ owner[j] = arg'[r] /\ login[j] = l
    BY <1>2, <1>3, Zenon DEF LiveOf
  <2>2. login[l] = l /\ l \in Jti /\ None \notin Jti
    BY <1>0, <2>1, SessionsAssumption, Zenon DEF Rows, Table, Chains
  <2> QED BY <1>0, <2>1, <2>2, Zenon DEF Owned, Table, Chains
<1> QED BY <1>1, <1>3, Zenon DEF Caller, Asked, Selected, Answered, table

\* It selects the live rows of its caller: every session that goes on has one.
LEMMA LogoutAllSelects ==
  ASSUME Inv, AllInv, NEW r \in Req, LogoutAll(r)
  PROVE  Caller(r)'
<1>0. Rows /\ Requests /\ Table /\ Owned /\ Caller(r)
  BY Halves, Zenon DEF Inv, AllInv
<1>1. /\ pc[r] = "sent" /\ kind[r] = "all" /\ before[r] \subseteq Jti
      /\ UNCHANGED <<tok, owner, login, kind, arg, before, ended>>
      /\ pc'[r] \in {"rows", "500"} /\ (pc'[r] = "rows" => sel'[r] = LiveOf(arg[r]))
  <2>1. pc[r] = "sent" /\ kind[r] = "all" /\ UNCHANGED <<table, request, history>>
    BY Zenon DEF LogoutAll, Arrived
  <2>2. Goto(r, "500") \/ (Goto(r, "rows") /\ sel' = [sel EXCEPT ![r] = LiveOf(arg[r])])
    BY Zenon DEF LogoutAll, LogoutAllFails
  <2>3. before[r] \subseteq Jti /\ DOMAIN pc = Req /\ DOMAIN sel = Req
    BY <1>0, Zenon DEF Requests
  <2>4. (pc'[r] = "500" \/ pc'[r] = "rows") /\ (pc'[r] = "rows" => sel'[r] = LiveOf(arg[r]))
    <3>1. ASSUME NEW l, Goto(r, l) PROVE pc'[r] = l
      BY <2>3, <3>1, Zenon DEF Goto
    <3> QED BY <2>2, <2>3, <3>1, Zenon
  <2> QED BY <2>1, <2>3, <2>4, Zenon DEF table, request, history
<1>2. Asked(r) /\ Asked(r)'
  BY <1>0, <1>1, Zenon DEF Caller, Asked
<1>3. ASSUME pc'[r] = "rows", NEW l \in before[r], l \notin ended PROVE \E i \in sel'[r] : login[i] = l
  <2>1. l \in Jti /\ login[l] = l /\ owner[l] = arg[r]
    BY <1>1, <1>2, Zenon DEF Asked
  <2>2. PICK i \in Jti : tok[i] = "live" /\ login[i] = l
    BY <1>0, <1>3, <2>1, Zenon DEF Table, OneLive
  <2>3. i \in LiveOf(arg[r])
    BY <1>0, <2>1, <2>2, Zenon DEF Owned, LiveOf
  <2> QED BY <1>1, <1>3, <2>2, <2>3, Zenon
<1>4. Selected(r)'
  BY <1>1, <1>3, Zenon DEF Selected, LiveOf
<1> QED BY <1>1, <1>2, <1>4, Zenon DEF Caller, Answered

\* It revokes what it selected.
LEMMA RowsAnswers ==
  ASSUME Inv, AllInv, NEW r \in Req, LogoutAllRows(r)
  PROVE  Caller(r)'
<1>0. Rows /\ Requests /\ Caller(r) /\ Grows
  <2>1. Next
    BY Zenon DEF Next, Handle
  <2> QED BY <2>1, Halves, Lasts, Zenon DEF Inv, AllInv, Lasting
<1>1. /\ pc[r] = "rows" /\ before[r] \subseteq Jti /\ sel[r] \subseteq Jti
      /\ UNCHANGED <<owner, login, kind, arg, before, sel>>
      /\ pc'[r] \in {"200", "500"} /\ (pc'[r] = "200" => RevokeSelected(r))
  <2>1. pc[r] = "rows" /\ UNCHANGED <<owner, login, request, before, sel>>
    BY Zenon DEF LogoutAllRows
  <2>2. Goto(r, "500") \/ (Goto(r, "200") /\ RevokeSelected(r))
    BY Zenon DEF LogoutAllRows, LogoutAllFails
  <2>3. before[r] \subseteq Jti /\ sel[r] \subseteq Jti /\ DOMAIN pc = Req
    BY <1>0, Zenon DEF Requests
  <2>4. (pc'[r] = "500" \/ pc'[r] = "200") /\ (pc'[r] = "200" => RevokeSelected(r))
    <3>1. ASSUME NEW l, Goto(r, l) PROVE pc'[r] = l
      BY <2>3, <3>1, Zenon DEF Goto
    <3> QED BY <2>2, <3>1, Zenon
  <2> QED BY <2>1, <2>3, <2>4, Zenon DEF request
<1>2. ASSUME kind[r] = "all" PROVE Asked(r)' /\ Selected(r)' /\ Answered(r)'
  <2>1. Asked(r) /\ Selected(r)
    BY <1>0, <1>1, <1>2, Zenon DEF Caller
  <2>2. Asked(r)'
    BY <1>0, <1>1, <2>1, Zenon DEF Asked, Grows
  <2>3. Selected(r)'
    BY <1>0, <1>1, <2>1, Zenon DEF Selected, Grows
  <2>4. ASSUME pc'[r] = "200", NEW i \in sel[r] PROVE tok'[i] = "revoked"
    <3>1. i \in Jti /\ tok[i] \in {"live", "revoked"}
      BY <1>0, <1>1, <2>1, Zenon DEF Selected, Rows
    <3>2. tok'[i] = IF tok[i] = "live" THEN "revoked" ELSE tok[i]
      BY <1>1, <2>4, <3>1, Zenon DEF RevokeSelected
    <3> QED BY <3>1, <3>2, Zenon
  <2> QED BY <1>1, <2>2, <2>3, <2>4, Zenon DEF Answered
<1> QED BY <1>1, <1>2, Zenon DEF Caller

\* AllInv is kept by every step.
LEMMA AllStep == Inv /\ AllInv /\ [Next]_vars => AllInv'
<1> SUFFICES ASSUME Inv, AllInv, [Next]_vars PROVE AllInv'
  OBVIOUS
<1>0. Requests /\ Grows /\ Exchanged' /\ Owned'
  BY Halves, Lasts, Zenon DEF Inv, Lasting
<1>1. ASSUME NEW r \in Req, Send(r) \/ Handle(r), NEW q \in Req \ {r} PROVE Caller(q)'
  <2>1. kind'[q] = kind[q] /\ arg'[q] = arg[q] /\ before'[q] = before[q]
    <3>1. CASE Send(r)
      <4>1. \E k, x, b : /\ kind' = [kind EXCEPT ![r] = k] /\ arg' = [arg EXCEPT ![r] = x]
                         /\ before' = [before EXCEPT ![r] = b]
        BY <3>1, Zenon DEF Send
      <4>2. DOMAIN kind = Req /\ DOMAIN arg = Req /\ DOMAIN before = Req
        BY <1>0, Zenon DEF Requests
      <4> QED BY <1>1, <4>1, <4>2, Zenon
    <3>2. CASE Handle(r)
      <4>1. UNCHANGED <<kind, arg, before>>
        BY <3>2, Zenon DEF Handle, Login, Refresh, RefreshCommit, Logout, LogoutAll, LogoutAllRows, request,
           history
      <4> QED BY <4>1, Zenon
    <3> QED BY <1>1, <3>1, <3>2, Zenon
  <2>2. sel'[q] = sel[q] /\ pc'[q] = pc[q]
    <3>1. \E l : Goto(r, l)
      BY <1>1, Zenon DEF Send, Handle, Login, writeSession, Refresh, RefreshCommit, Logout, LogoutAll, LogoutAllRows,
         LogoutAllFails
    <3>2. sel' = sel \/ sel' = [sel EXCEPT ![r] = LiveOf(arg[r])]
      BY <1>1, Zenon DEF Send, Handle, Login, Refresh, RefreshCommit, Logout, LogoutAll, LogoutAllRows
    <3>3. DOMAIN sel = Req /\ DOMAIN pc = Req
      BY <1>0, Zenon DEF Requests
    <3>4. pc'[q] = pc[q]
      BY <1>1, <3>1, <3>3, Zenon DEF Goto
    <3> QED BY <1>1, <3>2, <3>3, <3>4, Zenon
  <2> QED BY <1>0, <2>1, <2>2, CallerKept, Zenon DEF AllInv
<1>2. ASSUME NEW r \in Req, Send(r) \/ Handle(r) PROVE Caller(r)'
  <2>1. CASE Login(r) \/ Refresh(r) \/ RefreshCommit(r) \/ Logout(r)
    <3>1. kind[r] \in {"login", "refresh", "logout"} /\ kind' = kind
      BY <2>1, Zenon DEF Login, Refresh, RefreshCommit, Logout, Arrived, request, AllInv, Caller
    <3>2. pc'[r] = "commit" => kind[r] = "refresh"
      BY <1>0, <2>1, Zenon DEF Login, writeSession, Refresh, RefreshCommit, Logout, Arrived, Goto, Requests
    <3> QED BY <3>1, <3>2, Zenon DEF Caller
  <2> QED BY <1>2, <2>1, SendAsks, LogoutAllSelects, RowsAnswers, Zenon DEF Handle
<1>3. ASSUME (\E j \in Jti : Expire(j)) \/ UNCHANGED vars, NEW q \in Req PROVE Caller(q)'
  <2>1. UNCHANGED <<kind, arg, before, sel, pc>>
    BY <1>3, Zenon DEF Expire, vars, request, history
  <2> QED BY <1>0, <2>1, CallerKept, Zenon DEF AllInv
<1>4. \A q \in Req : Caller(q)'
  BY <1>1, <1>2, <1>3, Zenon DEF Next
<1> QED BY <1>0, <1>4, Zenon DEF AllInv

\* OutlivesByRotation: what holds of "LogoutAll revokes every refresh token for
\* the caller" (auth.go:298), for any number of users, tokens and requests.
THEOREM LogoutAllMisses == Spec => []OutlivesByRotation
<1>1. Init => AllInv
  <2> SUFFICES ASSUME Init PROVE AllInv
    OBVIOUS
  <2>1. \A j \in Jti : tok[j] = "absent"
    BY Zenon DEF Init
  <2>2. \A r \in Req : pc[r] = "new"
    BY Zenon DEF Init
  <2> QED BY <2>1, <2>2, Zenon DEF AllInv, Exchanged, Owned, Caller
<1>2. ASSUME Inv, AllInv, NEW r \in Req, kind[r] = "all", pc[r] = "200"
      PROVE  /\ \A i \in sel[r] : tok[i] = "revoked"
             /\ \A j \in Jti : tok[j] = "live" /\ login[j] \in before[r] =>
                  \E i \in sel[r], k \in Jti : login[i] = login[j] /\ parent[k] = i
  <2>1. Selected(r) /\ Answered(r) /\ sel[r] \subseteq Jti
    BY <1>2, Halves, Zenon DEF AllInv, Caller, Inv, Requests
  <2>2. ASSUME NEW j \in Jti, tok[j] = "live", login[j] \in before[r]
        PROVE  \E i \in sel[r], k \in Jti : login[i] = login[j] /\ parent[k] = i
    <3>1. login[j] \notin ended
      BY <1>2, <2>2, Zenon DEF Inv, Table, OneLive
    <3>2. PICK i \in sel[r] : login[i] = login[j]
      BY <1>2, <2>1, <2>2, <3>1, Zenon DEF Selected
    <3>3. PICK k \in Jti : parent[k] = i
      BY <1>2, <2>1, <3>1, <3>2, Zenon DEF Answered, AllInv, Exchanged
    <3> QED BY <3>2, <3>3, Zenon
  <2> QED BY <1>2, <2>1, <2>2, Zenon DEF Answered
<1>3. Inv /\ AllInv => OutlivesByRotation
  BY <1>2, Zenon DEF OutlivesByRotation
<1> QED BY <1>1, <1>3, AllStep, SessionsInv, PTL DEF Spec
=============================================================================
