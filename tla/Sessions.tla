------------------------------ MODULE Sessions ------------------------------
(***************************************************************************)
(* Refresh tokens: Login (and the end of Register), Refresh, Logout and    *)
(* LogoutAll of AuthHandler, against the table refresh_tokens under READ   *)
(* COMMITTED.  A statement waits for the row lock of an open transaction   *)
(* and then evaluates its WHERE clause on the version that committed; a    *)
(* statement over many rows selects them when it starts.  A session is the *)
(* chain of tokens that descend from one login.                            *)
(***************************************************************************)
EXTENDS Integers, FiniteSets

CONSTANTS
  User,
  Jti,        \* token ids
  Req,        \* requests, each sent once
  MaxFaults,  \* bound on failed calls and crashes
  None

ASSUME SessionsAssumption ==
  /\ None \notin User \cup Jti \cup Req
  /\ MaxFaults \in Nat
  /\ Cardinality(Jti) >= Cardinality(Req)  \* a request draws at most one id

VARIABLES
  tok,      \* refresh_tokens, as committed
  owner,    \* user_id of each row
  parent,   \* the token whose refresh inserted it, None after a login
  login,    \* the first token of its session
  expired,  \* rows and tokens past their seven days
  issued,   \* tokens a client has received
  rowlock,  \* the open transaction that has updated the row
  pc,       \* progress of each request
  kind,     \* the handler each request calls
  arg,      \* the token (Refresh, Logout) or user (Login, LogoutAll) of a request
  sel,      \* rows a LogoutAll statement has selected
  ended,    \* history: sessions with a token that a logout has revoked
  before,   \* history: live sessions a request was about when it was sent
  faults

table == <<tok, owner, parent, login>>
request == <<kind, arg>>
history == <<ended, before>>
vars == <<table, expired, issued, rowlock, pc, request, sel, history, faults>>

\* The type invariant; a row lock belongs to an open rotation of that row.
TypeOK ==
  /\ tok \in [Jti -> {"absent", "live", "revoked"}]
  /\ owner \in [Jti -> User \cup {None}]
  /\ parent \in [Jti -> Jti \cup {None}] /\ login \in [Jti -> Jti \cup {None}]
  /\ \A j \in Jti : tok[j] # "absent" => owner[j] \in User /\ login[j] \in Jti
  /\ expired \subseteq Jti /\ issued \subseteq {j \in Jti : tok[j] # "absent"}
  /\ rowlock \in [Jti -> Req \cup {None}]
  /\ \A j \in Jti : rowlock[j] # None => pc[rowlock[j]] = "commit" /\ arg[rowlock[j]] = j
  /\ pc \in [Req -> {"new", "sent", "commit", "rows", "200", "401", "500", "gone"}]
  /\ kind \in [Req -> {None, "login", "refresh", "logout", "all"}]
  /\ arg \in [Req -> User \cup Jti \cup {None}]
  /\ sel \in [Req -> SUBSET Jti]
  /\ ended \subseteq Jti /\ before \in [Req -> SUBSET Jti]
  /\ faults \in 0..MaxFaults

Init ==
  /\ tok = [j \in Jti |-> "absent"] /\ owner = [j \in Jti |-> None]
  /\ parent = [j \in Jti |-> None] /\ login = [j \in Jti |-> None]
  /\ expired = {} /\ issued = {}
  /\ rowlock = [j \in Jti |-> None]
  /\ pc = [r \in Req |-> "new"] 
  /\ kind = [r \in Req |-> None] /\ arg = [r \in Req |-> None]
  /\ sel = [r \in Req |-> {}]
  /\ ended = {} /\ before = [r \in Req |-> {}]
  /\ faults = 0

-----------------------------------------------------------------------------
NoFault == UNCHANGED faults
Fault == faults < MaxFaults /\ faults' = faults + 1
Goto(r, l) == pc' = [pc EXCEPT ![r] = l]

Arrived(r, k) == pc[r] = "sent" /\ kind[r] = k

LiveOf(u) == {j \in Jti : tok[j] = "live" /\ owner[j] = u}

\* SignRefreshToken draws a uuid that no row has (the primary key would refuse
\* the insert of another).
Fresh(n) == tok[n] = "absent"

\* The row CreateRefreshToken inserts for user u, at a login or in place of p.
CreateRefreshToken(n, u, p) ==
  /\ owner' = [owner EXCEPT ![n] = u]
  /\ parent' = [parent EXCEPT ![n] = p]
  /\ login' = [login EXCEPT ![n] = IF p = None THEN n ELSE login[p]]

\* A request arrives with a user's credentials or access token, or with a
\* refresh token a client has received.
Send(r) ==
  /\ pc[r] = "new" /\ Goto(r, "sent")
  /\ \E k \in {"login", "refresh", "logout", "all"} :
       \E x \in IF k \in {"login", "all"} THEN User ELSE issued :
         LET about == IF x \in User THEN LiveOf(x) ELSE {x} IN
         /\ kind' = [kind EXCEPT ![r] = k] /\ arg' = [arg EXCEPT ![r] = x]
         /\ before' = [before EXCEPT ![r] = {login[j] : j \in {i \in about : tok[i] = "live"}}]
  /\ UNCHANGED <<table, expired, issued, rowlock, sel, ended, faults>>

\* writeSession: one insert, whose reply may be lost.
writeSession(r) ==
  \E n \in Jti :
    /\ Fresh(n)
    /\ \/ /\ tok' = [tok EXCEPT ![n] = "live"] /\ CreateRefreshToken(n, arg[r], None)
          /\ \/ NoFault /\ Goto(r, "200") /\ issued' = issued \cup {n}
             \/ Fault /\ Goto(r, "500") /\ UNCHANGED issued
       \/ Fault /\ Goto(r, "500") /\ UNCHANGED <<table, issued>>

\* Login: the credentials are wrong, or a session starts.
Login(r) ==
  /\ Arrived(r, "login")
  /\ writeSession(r) \/ (NoFault /\ Goto(r, "401") /\ UNCHANGED <<table, issued>>)
  /\ UNCHANGED <<expired, rowlock, request, sel, history>>

\* The UPDATE that opens the rotation: its WHERE clause.  (Without the test of
\* revoked_at a token could be presented twice.)
Presentable_Mutant(j) == tok[j] # "absent" /\ j \notin expired
Presentable(j) == tok[j] = "live" /\ j \notin expired

Refresh(r) ==
  LET j == arg[r] IN
  /\ Arrived(r, "refresh")
  /\ \/ /\ Presentable(j) /\ rowlock[j] = None /\ NoFault
        /\ Goto(r, "commit") /\ rowlock' = [rowlock EXCEPT ![j] = r]
     \/ ~Presentable(j) /\ NoFault /\ Goto(r, "401") /\ UNCHANGED rowlock
     \/ Fault /\ Goto(r, "500") /\ UNCHANGED rowlock
  /\ UNCHANGED <<table, expired, issued, request, sel, history>>

\* The rest of the rotation: read the user and the memberships, sign, insert the
\* successor, commit.  An error before the commit rolls back and leaves the
\* token as it was; a lost reply leaves a successor nobody has received.
\* (A rotation without a transaction would keep the revocation.)
Rotate(j, n) ==
  /\ tok' = [tok EXCEPT ![j] = "revoked", ![n] = "live"]
  /\ CreateRefreshToken(n, owner[j], j)
RefreshFails_Mutant(j) ==
  tok' = [tok EXCEPT ![j] = "revoked"] /\ UNCHANGED <<owner, parent, login>>
RefreshFails(j) == UNCHANGED table

\* Commit or rollback, deferred by the handler, releases the row.  (A return
\* without the deferred rollback would not.)
EndTx_Mutant(j) == UNCHANGED rowlock
EndTx(j) == rowlock' = [rowlock EXCEPT ![j] = None]

RefreshCommit(r) ==
  LET j == arg[r] IN
  /\ pc[r] = "commit"
  /\ \/ \E n \in Jti : /\ Fresh(n) /\ Rotate(j, n)
                       /\ \/ NoFault /\ Goto(r, "200") /\ issued' = issued \cup {n}
                          \/ Fault /\ Goto(r, "500") /\ UNCHANGED issued
     \/ NoFault /\ Goto(r, "401") /\ RefreshFails(j) /\ UNCHANGED issued  \* no such user
     \/ Fault /\ Goto(r, "500") /\ RefreshFails(j) /\ UNCHANGED issued
     \/ Fault /\ Goto(r, "gone") /\ RefreshFails(j) /\ UNCHANGED issued
  /\ EndTx(j)
  /\ UNCHANGED <<expired, request, sel, history>>

\* RevokeRefreshToken; its error is discarded and the answer is always 200.  A
\* token past its expiry does not parse and is left alone.
Logout(r) ==
  LET j == arg[r] IN
  /\ Arrived(r, "logout")
  /\ \/ /\ j \notin expired /\ rowlock[j] = None /\ NoFault
        /\ tok' = [tok EXCEPT ![j] = "revoked"]
        /\ ended' = IF tok[j] = "live" THEN ended \cup {login[j]} ELSE ended
     \/ (IF j \in expired THEN NoFault ELSE Fault) /\ UNCHANGED <<tok, ended>>
  /\ Goto(r, "200")
  /\ UNCHANGED <<owner, parent, login, expired, issued, rowlock, request, sel, before>>

\* An error of the statement is answered with 500, whether or not it committed.
\* (Discarded, as Logout discards it, it would be answered with 200.)
LogoutAllFails_Mutant(r) == Fault /\ Goto(r, "200")
LogoutAllFails(r) == Fault /\ Goto(r, "500")

\* RevokeAllRefreshTokens starts: it selects the rows that are live now.
LogoutAll(r) ==
  /\ Arrived(r, "all")
  /\ \/ NoFault /\ Goto(r, "rows") /\ sel' = [sel EXCEPT ![r] = LiveOf(arg[r])]
     \/ LogoutAllFails(r) /\ UNCHANGED sel
  /\ UNCHANGED <<table, expired, issued, rowlock, request, history>>

\* It has waited for the locks of the selected rows, and revokes those that are
\* still live.
RevokeSelected(r) ==
  /\ tok' = [j \in Jti |-> IF j \in sel[r] /\ tok[j] = "live" THEN "revoked" ELSE tok[j]]
  /\ ended' = ended \cup {login[j] : j \in {i \in sel[r] : tok[i] = "live"}}

LogoutAllRows(r) ==
  /\ pc[r] = "rows" /\ \A j \in sel[r] : rowlock[j] = None
  /\ \/ NoFault /\ Goto(r, "200") /\ RevokeSelected(r)
     \/ LogoutAllFails(r) /\ (UNCHANGED <<tok, ended>> \/ RevokeSelected(r))
  /\ UNCHANGED <<owner, parent, login, expired, issued, rowlock, request, sel, before>>

Expire(j) ==
  /\ tok[j] # "absent" /\ j \notin expired
  /\ expired' = expired \cup {j}
  /\ UNCHANGED <<table, issued, rowlock, pc, request, sel, history, faults>>

Handle(r) ==
  Login(r) \/ Refresh(r) \/ RefreshCommit(r) \/ Logout(r) \/ LogoutAll(r) \/ LogoutAllRows(r)

Next ==
  \/ \E r \in Req : Send(r) \/ Handle(r)
  \/ \E j \in Jti : Expire(j)

Spec == Init /\ [][Next]_vars

-----------------------------------------------------------------------------
\* A refresh token is exchanged at most once, however many requests present it
\* at the same time (the UPDATE of Refresh and its row lock).
NoDoubleMint ==
  \A i, j \in Jti : parent[i] # None /\ parent[i] = parent[j] => i = j

\* A session has one token that is not revoked as long as no logout has reached
\* it, whatever fails in the middle of a rotation, and none afterwards.
SessionTokens ==
  \A l \in Jti : login[l] = l =>
    Cardinality({j \in Jti : login[j] = l /\ tok[j] = "live"}) = IF l \in ended THEN 0 ELSE 1

\* What LogoutAll does achieve (auth.go:298-318): a session that was live when it
\* came and still has a live token after its answer was refreshed while it ran.
\* One of the tokens it selected, live at that time, was exchanged for another
\* before it was answered; every token it selected is revoked.
OutlivesByRotation ==
  \A r \in Req : kind[r] = "all" /\ pc[r] = "200" =>
    /\ \A i \in sel[r] : tok[i] = "revoked"
    /\ \A j \in Jti : tok[j] = "live" /\ login[j] \in before[r] =>
         \E i \in sel[r], k \in Jti : login[i] = login[j] /\ parent[k] = i

-----------------------------------------------------------------------------
(* A claim of the handler comments that the code does not keep.             *)

\* "LogoutAll revokes every refresh token for the caller" (auth.go:298) and "a
\* logout landing mid-flight cannot be undone" (auth.go:177): no session that was
\* live when the request came can be refreshed after the answer.
LogoutAllEndsSessions ==
  \A r \in Req : kind[r] = "all" /\ pc[r] = "200" =>
    \A j \in Jti : Presentable(j) => login[j] \notin before[r]
=============================================================================
