------------------------------- MODULE Quota -------------------------------
(***************************************************************************)
(* Submit quotas: PostgresChecker.CheckAndCreate, the transaction that     *)
(* takes the tenant's advisory lock, counts, decides and inserts, and the  *)
(* branch of ExecutionsHandler.Create around it that fails open.  Time is  *)
(* counted in ticks; a statement takes less than a tick, a transaction and *)
(* a wait for the lock may take longer.  One gateway clock stands for      *)
(* PostgresChecker.Clock and for now() of Postgres.                        *)
(***************************************************************************)
EXTENDS Integers, FiniteSets

CONSTANTS
  Submit,      \* requests that passed validation
  Tenant,
  TenantOf,    \* the tenant of each request
  TierOf,      \* tenants.tier
  tierLimits,  \* per tier: SubmitsPerHour and MaxActive, -1 for unlimited
  Window,      \* SubmitWindow, in ticks
  LockWait,    \* quotaLockTimeout, in ticks
  MaxTime,     \* bound on the clock
  MaxFaults,   \* bound on failed calls
  None         \* nobody holds the lock

ASSUME QuotaAssumption ==
  /\ TenantOf \in [Submit -> Tenant] /\ None \notin Submit
  /\ tierLimits \in [DOMAIN tierLimits -> [SubmitsPerHour: Int, MaxActive: Int]]
  /\ "free" \in DOMAIN tierLimits
  /\ LockWait \in Nat /\ Window \in Nat /\ LockWait <= Window
  /\ MaxTime \in Nat /\ MaxFaults \in Nat

VARIABLES
  now,
  pc,      \* progress of each request
  began,   \* start of its transaction: now() in it, so its created_at
  lock,    \* the session that has the tenant's advisory lock
  rows,    \* committed executions: <<s, "locked">> from CheckAndCreate,
           \*   <<s, "open">> from the insert after it failed
  active,  \* those that are queued or running
  at,      \* created_at of the committed rows
  faults

vars == <<now, pc, began, lock, rows, active, at, faults>>

Row == Submit \X {"locked", "open"}
Answered == {"202", "429", "500"}

\* The type invariant.
TypeOK ==
  /\ now \in 0..MaxTime
  /\ pc \in [Submit -> {"new", "lock", "check", "insert", "open"} \cup Answered]
  /\ began \in [Submit -> 0..MaxTime]
  /\ lock \in [Tenant -> Submit \cup {None}]
  /\ rows \subseteq Row /\ active \subseteq rows
  /\ at \in [Row -> 0..MaxTime]
  /\ faults \in 0..MaxFaults

Init ==
  /\ now = 0
  /\ pc = [s \in Submit |-> "new"]
  /\ began = [s \in Submit |-> 0]
  /\ lock = [t \in Tenant |-> None]
  /\ rows = {} /\ active = {}
  /\ at = [r \in Row |-> 0]
  /\ faults = 0

-----------------------------------------------------------------------------
NoFault == UNCHANGED faults
Fault == faults < MaxFaults /\ faults' = faults + 1
Goto(s, l) == pc' = [pc EXCEPT ![s] = l]

\* The session of a failed or finished transaction gives the lock back; one
\* whose connection hangs keeps it until Postgres ends the session.
Unlock(s) == lock' = [lock EXCEPT ![TenantOf[s]] = None]
Hangs == Fault /\ UNCHANGED lock

Store_Mutant(r, time) ==
  /\ rows' = rows \cup {r} /\ active' = active \cup {r}
  /\ at' = [at EXCEPT ![r] = time + 1]
Store(r, time) ==
  /\ rows' = rows \cup {r} /\ active' = active \cup {r}
  /\ at' = [at EXCEPT ![r] = time]
NoRow == UNCHANGED <<rows, active, at>>

RowsOf(t) == {r \in rows : TenantOf[r[1]] = t}
CountExecutionsSince(t, time) == Cardinality({r \in RowsOf(t) : at[r] >= time})
CountActiveExecutions(t) == Cardinality(RowsOf(t) \cap active)

\* Unknown tiers fall back to the free tier.  (The column's CHECK admits only the
\* four names in lower case, which the lookup's normalisation leaves alone.)
limitsFor(tier) == IF tier \in DOMAIN tierLimits THEN tierLimits[tier] ELSE tierLimits["free"]

\* (decide_Mutant would admit one more.)
decide_Mutant(l, hourly, act) ==
  /\ l.SubmitsPerHour >= 0 => hourly <= l.SubmitsPerHour
  /\ l.MaxActive >= 0 => act <= l.MaxActive
decide(l, hourly, act) ==
  /\ l.SubmitsPerHour >= 0 => hourly < l.SubmitsPerHour
  /\ l.MaxActive >= 0 => act < l.MaxActive

\* What the counts say now; rows of transactions still open are not visible.
checkCounts(t) ==
  decide(limitsFor(TierOf[t]), CountExecutionsSince(t, now - Window), CountActiveExecutions(t))

\* Pool.Begin, the parse of the tenant id and SET LOCAL lock_timeout.  (The
\* bound on the clock leaves time for the lock timeout.)
Begin(s) ==
  /\ pc[s] = "new" /\ now + LockWait <= MaxTime
  /\ \/ NoFault /\ Goto(s, "lock") /\ began' = [began EXCEPT ![s] = now]
     \/ Fault /\ Goto(s, "open") /\ UNCHANGED began
  /\ UNCHANGED <<now, lock, rows, active, at>>

\* pg_advisory_xact_lock: granted, an error, or no lock within lock_timeout.
\* (Without the timeout the request waits as long as the lock is held.)
Lock_Mutant(s) ==
  /\ pc[s] = "lock" /\ lock[TenantOf[s]] = None
  /\ NoFault /\ Goto(s, "check") /\ lock' = [lock EXCEPT ![TenantOf[s]] = s]
  /\ UNCHANGED <<now, began, rows, active, at>>
Lock(s) ==
  /\ pc[s] = "lock"
  /\ \/ /\ lock[TenantOf[s]] = None /\ NoFault /\ Goto(s, "check")
        /\ lock' = [lock EXCEPT ![TenantOf[s]] = s]
     \/ /\ IF now >= began[s] + LockWait /\ lock[TenantOf[s]] # None THEN NoFault ELSE Fault
        /\ Goto(s, "open") /\ UNCHANGED lock
  /\ UNCHANGED <<now, began, rows, active, at>>

\* checkCounts: denied and rolled back, allowed, or a query failed.  (With the
\* check in a transaction of its own the lock would be free before the insert.)
Check_Mutant(s) ==
  /\ pc[s] = "check"
  /\ NoFault /\ Unlock(s)
  /\ Goto(s, IF checkCounts(TenantOf[s]) THEN "insert" ELSE "429")
  /\ UNCHANGED <<now, began>> /\ NoRow
Check(s) ==
  /\ pc[s] = "check"
  /\ \/ checkCounts(TenantOf[s]) /\ NoFault /\ Goto(s, "insert") /\ UNCHANGED lock
     \/ ~checkCounts(TenantOf[s]) /\ NoFault /\ Goto(s, "429") /\ Unlock(s)
     \/ Fault /\ Goto(s, "open") /\ Unlock(s)
     \/ Hangs /\ Goto(s, "open")
  /\ UNCHANGED <<now, began>> /\ NoRow

\* CreateExecution and Commit.  The commit may take effect although its reply
\* is lost, and the request goes on to the insert of the fail-open branch.
\* (So would every request if the handler fell through after a success.)
Insert_Mutant(s) ==
  /\ pc[s] = "insert"
  /\ NoFault /\ Store(<<s, "locked">>, began[s]) /\ Goto(s, "open") /\ Unlock(s)
  /\ UNCHANGED <<now, began>>
Insert(s) ==
  /\ pc[s] = "insert"
  /\ \/ NoFault /\ Store(<<s, "locked">>, began[s]) /\ Goto(s, "202") /\ Unlock(s)
     \/ Fault /\ NoRow /\ Goto(s, "open") /\ Unlock(s)
     \/ Hangs /\ NoRow /\ Goto(s, "open")
     \/ Fault /\ Store(<<s, "locked">>, began[s]) /\ Goto(s, "open") /\ Unlock(s)
  /\ UNCHANGED <<now, began>>

\* Fail open: CreateExecution without a check.
Open(s) ==
  /\ pc[s] = "open"
  /\ \/ NoFault /\ Store(<<s, "open">>, now) /\ Goto(s, "202")
     \/ Fault /\ NoRow /\ Goto(s, "500")
     \/ Fault /\ Store(<<s, "open">>, now) /\ Goto(s, "500")
  /\ UNCHANGED <<now, began, lock>>

\* Postgres ends a hung session and frees its lock.
SessionEnds(t) ==
  /\ lock[t] # None /\ pc[lock[t]] \notin {"check", "insert"}
  /\ lock' = [lock EXCEPT ![t] = None]
  /\ UNCHANGED <<now, pc, began, rows, active, at, faults>>

\* A row reaches a terminal status (dispatcher, reaper).
Complete(r) ==
  /\ r \in active
  /\ active' = active \ {r}
  /\ UNCHANGED <<now, pc, began, lock, rows, at, faults>>

\* A free lock is granted and the counts are read within the tick, and
\* lock_timeout is punctual.
Tick ==
  /\ now < MaxTime
  /\ \A s \in Submit : /\ pc[s] # "check"
                       /\ pc[s] = "lock" => lock[TenantOf[s]] # None /\ now < began[s] + LockWait
  /\ now' = now + 1
  /\ UNCHANGED <<pc, began, lock, rows, active, at, faults>>

Step(s) == Begin(s) \/ Lock(s) \/ Check(s) \/ Insert(s) \/ Open(s)

Next ==
  \/ \E s \in Submit : Step(s)
  \/ \E t \in Tenant : SessionEnds(t)
  \/ \E r \in Row : Complete(r)
  \/ Tick

Spec == Init /\ [][Next]_vars

\* Every call returns, the clock advances.  Nothing is assumed of completions
\* or of hung sessions.
Fairness == (\A s \in Submit : WF_vars(Step(s))) /\ WF_vars(Tick)
FairSpec == Spec /\ Fairness

-----------------------------------------------------------------------------
Limit(t) == limitsFor(TierOf[t])
Locked(t) == {r \in RowsOf(t) : r[2] = "locked"}

\* However the submits of a tenant interleave, on one gateway or several, the
\* executions admitted under the lock never exceed the active limit; only rows
\* inserted by failing open can come on top.
ActiveCapped ==
  \A t \in Tenant : Limit(t).MaxActive >= 0 => Cardinality(Locked(t) \cap active) <= Limit(t).MaxActive

\* The submits admitted under the lock keep the hourly limit in every window
\* that is shorter than SubmitWindow by the wait for the lock: created_at is the
\* start of the transaction, the window of the count ends after the wait.
HourlyCapped ==
  \A t \in Tenant, x \in 0..MaxTime :
    Limit(t).SubmitsPerHour >= 0 =>
      Cardinality({r \in Locked(t) : at[r] \in x..(x + Window - LockWait)}) <= Limit(t).SubmitsPerHour

\* A request that was denied inserted nothing, and one that inserted two rows
\* lost the reply to its commit: there are never more rows than requests and
\* failed calls account for.
RowsAccounted ==
  /\ \A s \in Submit, k \in {"locked", "open"} : pc[s] \in {"new", "lock", "check", "429"} => <<s, k>> \notin rows
  /\ Cardinality({s \in Submit : {<<s, "locked">>, <<s, "open">>} \subseteq rows}) <= faults

\* A request whose tenant's lock is stuck fails open: nobody waits longer than
\* quotaLockTimeout and every request is answered, although nothing ends a
\* session that hangs with the lock.
EveryoneAnswered == \A s \in Submit : pc[s] # "new" ~> pc[s] \in Answered
=============================================================================
