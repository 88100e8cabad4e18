----------------------------- MODULE QuotaProofs -----------------------------
(***************************************************************************)
(* Proofs about Quota, for any submits, tenants, tiers, limits and times.  *)
(* The inductive invariant says that a transaction past the lock holds it, *)
(* and that one about to insert has room under both limits: nobody else    *)
(* can take the room, because nobody else has the lock.                    *)
(***************************************************************************)
EXTENDS Quota, FiniteSetTheorems, TLAPS

ActiveLocked(t) == Locked(t) \cap active
InSpan(t, x) == {r \in Locked(t) : at[r] \in x..(x + Window - LockWait)}

\* A transaction past the lock has it, and waited LockWait for it at the most.
Granted(s) ==
  /\ pc[s] \in {"check", "insert"} => lock[TenantOf[s]] = s
  /\ began[s] <= now
  /\ pc[s] \in {"lock", "check"} => now <= began[s] + LockWait

\* A request that may insert finds room under both limits of its tenant.
Room(s) ==
  LET t == TenantOf[s] IN
  pc[s] = "insert" =>
    /\ Limit(t).MaxActive >= 0 => Cardinality(ActiveLocked(t)) < Limit(t).MaxActive
    /\ Limit(t).SubmitsPerHour >= 0 =>
         \A x \in 0..MaxTime : began[s] \in x..(x + Window - LockWait) =>
           Cardinality(InSpan(t, x)) < Limit(t).SubmitsPerHour

\* The rows a request can have inserted at each of its steps.
Inserts(s) ==
  /\ pc[s] \in {"new", "lock", "check", "insert", "429"} =>
       <<s, "locked">> \notin rows /\ <<s, "open">> \notin rows
  /\ pc[s] = "open" => <<s, "open">> \notin rows

\* The requests that lost the reply to their commit.
Lost == {s \in Submit : <<s, "locked">> \in rows /\ (pc[s] # "202" \/ <<s, "open">> \in rows)}
Paid == IsFiniteSet(Lost) /\ Cardinality(Lost) <= faults

Good(s) == Granted(s) /\ Room(s) /\ Inserts(s)
Inv ==
  /\ TypeOK /\ IsFiniteSet(rows) /\ Paid
  /\ ActiveCapped /\ HourlyCapped
  /\ \A s \in Submit : Good(s)

-----------------------------------------------------------------------------
\* limitsFor answers for every tier, known or not.
LEMMA LimitType == \A t : Limit(t) \in [SubmitsPerHour: Int, MaxActive: Int]
  BY QuotaAssumption, Zenon DEF Limit, limitsFor

\* The rows that the counts of CheckAndCreate look at are finitely many.
LEMMA Counted ==
  ASSUME IsFiniteSet(rows), NEW S, S \subseteq rows
  PROVE  IsFiniteSet(S) /\ Cardinality(S) \in Nat
  BY FS_Subset, FS_CardinalityType, Zenon

\* A part of the rows counts for no more than the whole.
LEMMA Fewer ==
  ASSUME NEW S, IsFiniteSet(S), NEW T, T \subseteq S
  PROVE  Cardinality(T) \in Nat /\ Cardinality(S) \in Nat /\ Cardinality(T) <= Cardinality(S)
  BY FS_Subset, FS_CardinalityType, Zenon

\* A row more counts for one at the most.
LEMMA OneMore ==
  ASSUME NEW S, IsFiniteSet(S), NEW r, NEW T, T \subseteq S \cup {r}
  PROVE  /\ IsFiniteSet(T) /\ Cardinality(T) \in Nat /\ Cardinality(S) \in Nat
         /\ Cardinality(T) <= Cardinality(S) + 1
<1>1. /\ IsFiniteSet(S \cup {r})
      /\ Cardinality(S \cup {r}) = IF r \in S THEN Cardinality(S) ELSE Cardinality(S) + 1
  BY FS_AddElement, Zenon
<1>2. IsFiniteSet(T) /\ Cardinality(T) <= Cardinality(S \cup {r})
  BY <1>1, FS_Subset, Zenon
<1>3. Cardinality(S) \in Nat /\ Cardinality(T) \in Nat
  BY <1>2, FS_CardinalityType, Zenon
<1> QED BY <1>1, <1>2, <1>3

\* The sets the two limits are about consist of committed rows.
LEMMA Parts ==
  ASSUME IsFiniteSet(rows), NEW t, NEW x
  PROVE  /\ IsFiniteSet(ActiveLocked(t)) /\ IsFiniteSet(InSpan(t, x))
         /\ Cardinality(ActiveLocked(t)) \in Nat /\ Cardinality(InSpan(t, x)) \in Nat
<1>1. ActiveLocked(t) \subseteq rows /\ InSpan(t, x) \subseteq rows
  BY Zenon DEF ActiveLocked, InSpan, Locked, RowsOf
<1> QED BY <1>1, Counted, Zenon

-----------------------------------------------------------------------------
\* A step that adds no row under the lock of tenant t.
Spares(t) ==
  /\ ActiveLocked(t)' \subseteq ActiveLocked(t)
  /\ \A x \in 0..MaxTime : InSpan(t, x)' = InSpan(t, x)

\* Such a step takes no room: both limits of the tenant are kept, and so is the
\* room of a request that is about to insert.
LEMMA RoomKept ==
  ASSUME IsFiniteSet(rows), NEW t \in Tenant, Spares(t)
  PROVE  /\ Cardinality(ActiveLocked(t)') \in Nat /\ Cardinality(ActiveLocked(t)) \in Nat
         /\ Cardinality(ActiveLocked(t)') <= Cardinality(ActiveLocked(t))
         /\ \A x \in 0..MaxTime : Cardinality(InSpan(t, x)') = Cardinality(InSpan(t, x))
<1>1. IsFiniteSet(ActiveLocked(t))
  BY Parts, Zenon
<1> QED BY <1>1, Fewer, Zenon DEF Spares

\* Rows that do not change, or only complete, take no room of anyone.
LEMMA QuietRows ==
  ASSUME rows' = rows, at' = at, active' \subseteq active
  PROVE  \A t : Spares(t)
  BY Zenon DEF Spares, ActiveLocked, InSpan, Locked, RowsOf

\* The insert of the fail-open branch takes no room of anyone.
LEMMA OpenRow ==
  ASSUME TypeOK, NEW s \in Submit, <<s, "open">> \notin rows, Store(<<s, "open">>, now)
  PROVE  \A t : Spares(t)
<1> DEFINE r == <<s, "open">>
<1>1. r[2] # "locked" /\ r \in Row
  BY Zenon DEF Row
<1>2. rows' = rows \cup {r} /\ active' = active \cup {r} /\ \A q \in Row \ {r} : at'[q] = at[q]
  BY <1>1, Zenon DEF Store, TypeOK
<1>3. ASSUME NEW t PROVE Locked(t)' = Locked(t) /\ Locked(t) \subseteq Row \ {r}
  BY <1>1, <1>2, Zenon DEF Locked, RowsOf, TypeOK
<1> HIDE DEF r
<1>4. ASSUME NEW t PROVE ActiveLocked(t)' \subseteq ActiveLocked(t)
  BY <1>2, <1>3, Zenon DEF ActiveLocked
<1>5. ASSUME NEW t, NEW x PROVE InSpan(t, x)' = InSpan(t, x)
  BY <1>2, <1>3, Zenon DEF InSpan
<1> QED BY <1>4, <1>5, Zenon DEF Spares

\* The insert under the lock adds one row, of its own tenant.
LEMMA LockedRow ==
  ASSUME TypeOK, NEW s \in Submit, <<s, "locked">> \notin rows, Store(<<s, "locked">>, began[s])
  PROVE  LET t == TenantOf[s] IN
         /\ \A u : u # t => Spares(u)
         /\ ActiveLocked(t)' \subseteq ActiveLocked(t) \cup {<<s, "locked">>}
         /\ \A x : /\ InSpan(t, x)' \subseteq InSpan(t, x) \cup {<<s, "locked">>}
                   /\ began[s] \notin x..(x + Window - LockWait) => InSpan(t, x)' \subseteq InSpan(t, x)
<1> DEFINE r == <<s, "locked">>
           t == TenantOf[s]
<1>1. r[1] = s /\ r \in Row
  BY Zenon DEF Row
<1>2. rows' = rows \cup {r} /\ active' = active \cup {r} /\ at'[r] = began[s] /\ \A q \in Row \ {r} : at'[q] = at[q]
  BY <1>1, Zenon DEF Store, TypeOK
<1>3. ASSUME NEW u PROVE /\ Locked(u) \subseteq Row \ {r} /\ Locked(u)' \subseteq Locked(u) \cup {r}
                         /\ Locked(u) \subseteq Locked(u)' /\ (u # t => r \notin Locked(u)')
  BY <1>1, <1>2, Zenon DEF Locked, RowsOf, TypeOK
<1> HIDE DEF r, t
<1>4. ASSUME NEW u PROVE ActiveLocked(u)' \subseteq ActiveLocked(u) \cup {r} /\ (u # t => r \notin ActiveLocked(u)')
  BY <1>2, <1>3, Zenon DEF ActiveLocked
<1>5. ASSUME NEW u, NEW x
      PROVE  /\ InSpan(u, x)' \subseteq InSpan(u, x) \cup {r} /\ InSpan(u, x) \subseteq InSpan(u, x)'
             /\ (u # t => r \notin InSpan(u, x)')
             /\ (began[s] \notin x..(x + Window - LockWait) => r \notin InSpan(u, x)')
  BY <1>2, <1>3, Zenon DEF InSpan
<1>6. ASSUME NEW u, u # t PROVE Spares(u)
  <2>1. ActiveLocked(u)' \subseteq ActiveLocked(u)
    BY <1>4, <1>6, Zenon
  <2>2. \A x \in 0..MaxTime : InSpan(u, x)' = InSpan(u, x)
    <3>1. ASSUME NEW x PROVE InSpan(u, x)' = InSpan(u, x)
      <4>1. /\ InSpan(u, x)' \subseteq InSpan(u, x) \cup {r} /\ InSpan(u, x) \subseteq InSpan(u, x)'
            /\ r \notin InSpan(u, x)'
        BY <1>5, <1>6, Zenon
      <4> HIDE DEF InSpan
      <4> QED BY <4>1, Zenon
    <3> QED BY <3>1, Zenon
  <2> QED BY <2>1, <2>2, Zenon DEF Spares
<1>7. ActiveLocked(t)' \subseteq ActiveLocked(t) \cup {r}
  BY <1>4, Zenon
<1>8. ASSUME NEW x
      PROVE  /\ InSpan(t, x)' \subseteq InSpan(t, x) \cup {r}
             /\ began[s] \notin x..(x + Window - LockWait) => InSpan(t, x)' \subseteq InSpan(t, x)
  BY <1>5, Zenon
<1> QED BY <1>6, <1>7, <1>8, Zenon DEF r, t

-----------------------------------------------------------------------------
\* The limits of one tenant.
Capped(t) ==
  /\ Limit(t).MaxActive >= 0 => Cardinality(ActiveLocked(t)) <= Limit(t).MaxActive
  /\ Limit(t).SubmitsPerHour >= 0 =>
       \A x \in 0..MaxTime : Cardinality(InSpan(t, x)) <= Limit(t).SubmitsPerHour

\* ActiveCapped and HourlyCapped are the limits of every tenant.
LEMMA Caps == ActiveCapped /\ HourlyCapped <=> \A t \in Tenant : Capped(t)
  BY Zenon DEF ActiveCapped, HourlyCapped, Capped, ActiveLocked, InSpan

\* A step that spares a tenant keeps its limits.
LEMMA CapSpared ==
  ASSUME IsFiniteSet(rows), NEW t \in Tenant, Spares(t), Capped(t)
  PROVE  Capped(t)'
<1>1. ASSUME Limit(t).MaxActive >= 0 PROVE Cardinality(ActiveLocked(t)') <= Limit(t).MaxActive
  <2>1. Cardinality(ActiveLocked(t)) <= Limit(t).MaxActive
    BY <1>1, Zenon DEF Capped
  <2> QED BY <2>1, RoomKept, LimitType
<1>2. ASSUME Limit(t).SubmitsPerHour >= 0, NEW x \in 0..MaxTime
      PROVE  Cardinality(InSpan(t, x)') <= Limit(t).SubmitsPerHour
  BY <1>2, RoomKept, Zenon DEF Capped
<1> QED BY <1>1, <1>2, Zenon DEF Capped, Limit, limitsFor

\* A step that spares a tenant keeps the room of its request.
LEMMA RoomSpared ==
  ASSUME IsFiniteSet(rows), NEW u \in Submit, Spares(TenantOf[u]), Room(u), pc[u] = "insert", began'[u] = began[u]
  PROVE  Room(u)'
<1> DEFINE t == TenantOf[u]
<1>0. t \in Tenant
  BY QuotaAssumption, Zenon
<1>1. ASSUME Limit(t).MaxActive >= 0 PROVE Cardinality(ActiveLocked(t)') < Limit(t).MaxActive
  <2>1. Cardinality(ActiveLocked(t)) < Limit(t).MaxActive
    BY <1>1, Zenon DEF Room
  <2> QED BY <1>0, <2>1, RoomKept, LimitType
<1>2. ASSUME Limit(t).SubmitsPerHour >= 0, NEW x \in 0..MaxTime, began[u] \in x..(x + Window - LockWait)
      PROVE  Cardinality(InSpan(t, x)') < Limit(t).SubmitsPerHour
  <2>1. Cardinality(InSpan(t, x)) < Limit(t).SubmitsPerHour
    BY <1>2, Zenon DEF Room
  <2> QED BY <1>0, <2>1, RoomKept, Zenon
<1> QED BY <1>1, <1>2, Zenon DEF Room, Limit, limitsFor

\* A step that adds no row under a lock keeps the limits, and the room of those
\* that were about to insert.
LEMMA SparingStep ==
  ASSUME Inv, TypeOK', IsFiniteSet(rows)', Paid', \A t \in Tenant : Spares(t),
         \A u \in Submit : /\ Granted(u)' /\ Inserts(u)'
                           /\ pc'[u] = "insert" => \/ pc[u] = "insert" /\ began'[u] = began[u]
                                                   \/ Room(u)'
  PROVE  Inv'
<1>1. \A t \in Tenant : Capped(t)'
  BY Caps, CapSpared, Zenon DEF Inv
<1>2. ActiveCapped' /\ HourlyCapped'
  BY <1>1, Zenon DEF ActiveCapped, HourlyCapped, Capped, ActiveLocked, InSpan
<1>3. ASSUME NEW u \in Submit PROVE Room(u)'
  <2>1. CASE pc[u] = "insert" /\ began'[u] = began[u]
    BY <2>1, RoomSpared, QuotaAssumption, Zenon DEF Inv, Good
  <2> QED BY <2>1, Zenon DEF Room
<1> QED BY <1>2, <1>3, Zenon DEF Inv, Good

\* A request is paid for when nobody new loses the reply to a commit.
LEMMA PaidKept ==
  ASSUME Inv, Lost' \subseteq Lost, faults' \in Nat, faults <= faults'
  PROVE  Paid'
<1>1. IsFiniteSet(Lost) /\ Cardinality(Lost) <= faults /\ faults \in Nat
  BY QuotaAssumption DEF Inv, Paid, TypeOK
<1>2. IsFiniteSet(Lost') /\ Cardinality(Lost') \in Nat /\ Cardinality(Lost) \in Nat
      /\ Cardinality(Lost') <= Cardinality(Lost)
  BY <1>1, FS_Subset, Fewer, Zenon
<1> QED BY <1>1, <1>2 DEF Paid

\* A failed call pays for one.
LEMMA PaidMore ==
  ASSUME Inv, NEW s, Lost' \subseteq Lost \cup {s}, faults' = faults + 1
  PROVE  Paid'
<1>1. IsFiniteSet(Lost) /\ Cardinality(Lost) <= faults /\ faults \in Nat
  BY QuotaAssumption DEF Inv, Paid, TypeOK
<1>2. IsFiniteSet(Lost') /\ Cardinality(Lost') \in Nat /\ Cardinality(Lost) \in Nat
      /\ Cardinality(Lost') <= Cardinality(Lost) + 1
  BY <1>1, OneMore, Zenon
<1> QED BY <1>1, <1>2 DEF Paid

\* The counts CheckAndCreate reads while it has the lock leave room for one
\* more: every row of a window that contains the start of the transaction was
\* in the window of the count, however long the lock took.
LEMMA Admit ==
  ASSUME Inv, NEW s \in Submit, pc[s] = "check", checkCounts(TenantOf[s]), NoRow, began' = began
  PROVE  Room(s)'
<1> USE QuotaAssumption
<1> DEFINE t == TenantOf[s]
           recent == {r \in RowsOf(t) : at[r] >= now - Window}
<1>1. /\ Limit(t).SubmitsPerHour >= 0 => Cardinality(recent) < Limit(t).SubmitsPerHour
      /\ Limit(t).MaxActive >= 0 => Cardinality(RowsOf(t) \cap active) < Limit(t).MaxActive
  BY Zenon DEF checkCounts, decide, Limit, CountExecutionsSince, CountActiveExecutions
<1>2. IsFiniteSet(recent) /\ IsFiniteSet(RowsOf(t) \cap active)
  <2>1. recent \subseteq rows /\ (RowsOf(t) \cap active) \subseteq rows
    BY Zenon DEF RowsOf
  <2> QED BY <2>1, Counted, Zenon DEF Inv
<1>3. ActiveLocked(t) \subseteq RowsOf(t) \cap active
  BY Zenon DEF ActiveLocked, Locked
<1>4. ASSUME NEW x \in 0..MaxTime, began[s] \in x..(x + Window - LockWait)
      PROVE  InSpan(t, x) \subseteq recent
  <2>1. now \in Int /\ began[s] \in Int /\ now <= began[s] + LockWait
    BY DEF Inv, Good, Granted, TypeOK
  <2>2. now - Window <= x
    BY <1>4, <2>1
  <2>3. SUFFICES ASSUME NEW r \in Locked(t), at[r] \in x..(x + Window - LockWait) PROVE at[r] >= now - Window
    BY Zenon DEF InSpan, Locked
  <2> QED BY <2>1, <2>2, <2>3
<1> HIDE DEF recent
<1>5. Limit(t).MaxActive >= 0 => Cardinality(ActiveLocked(t)) < Limit(t).MaxActive
  BY <1>1, <1>2, <1>3, Fewer, LimitType
<1>6. ASSUME Limit(t).SubmitsPerHour >= 0, NEW x \in 0..MaxTime, began[s] \in x..(x + Window - LockWait)
      PROVE  Cardinality(InSpan(t, x)) < Limit(t).SubmitsPerHour
  BY <1>1, <1>2, <1>4, <1>6, Fewer, LimitType
<1> QED BY <1>5, <1>6, Zenon DEF Room, NoRow, ActiveLocked, InSpan, Locked, RowsOf, Limit, limitsFor

-----------------------------------------------------------------------------
\* What a step of one request leaves alone: the others, and the lock of every
\* other request that has it.
Apart(s) ==
  /\ now' = now
  /\ \A u \in Submit \ {s} : /\ pc'[u] = pc[u] /\ began'[u] = began[u]
                             /\ \A k : <<u, k>> \in rows' <=> <<u, k>> \in rows
                             /\ lock[TenantOf[u]] = u => lock'[TenantOf[u]] = u

\* A step of one request disturbs no other.
LEMMA Others ==
  ASSUME Inv, NEW s \in Submit, Apart(s), Granted(s)', Inserts(s)'
  PROVE  \A u \in Submit : Granted(u)' /\ Inserts(u)'
<1>1. \A u \in Submit \ {s} : Granted(u)'
  BY Zenon DEF Inv, Good, Granted, Apart
<1>2. \A u \in Submit \ {s} : Inserts(u)'
  BY Zenon DEF Inv, Good, Inserts, Apart
<1> QED BY <1>1, <1>2, Zenon

\* The replies that were lost are those of before, but for the request itself.
LEMMA LostApart ==
  ASSUME NEW s \in Submit, Apart(s)
  PROVE  Lost' \subseteq Lost \cup {s}
  BY Zenon DEF Lost, Apart

\* Taking, keeping or giving back the own lock leaves the locks of others.
LEMMA OwnLock ==
  ASSUME Inv, NEW s \in Submit,
         \/ lock' = lock
         \/ lock[TenantOf[s]] = s /\ Unlock(s)
         \/ lock[TenantOf[s]] = None /\ lock' = [lock EXCEPT ![TenantOf[s]] = s]
  PROVE  /\ lock' \in [Tenant -> Submit \cup {None}]
         /\ \A u \in Submit \ {s} : lock[TenantOf[u]] = u => lock'[TenantOf[u]] = u
  BY QuotaAssumption, Zenon DEF Inv, TypeOK, Unlock

\* The counter of failed calls after a call that failed or not.
LEMMA Faults ==
  ASSUME Inv, Fault \/ NoFault
  PROVE  /\ faults' \in 0..MaxFaults /\ faults \in Nat /\ faults' \in Nat /\ faults <= faults'
         /\ Fault => faults' = faults + 1
  BY QuotaAssumption DEF Inv, TypeOK, Fault, NoFault

\* Goto moves the request.
LEMMA Moved ==
  ASSUME Inv, NEW s \in Submit, NEW l, Goto(s, l)
  PROVE  pc'[s] = l /\ \A u \in Submit \ {s} : pc'[u] = pc[u]
  BY Zenon DEF Inv, TypeOK, Goto

\* A step of a request that inserts nothing.
LEMMA RowlessStep ==
  ASSUME Inv, NEW s \in Submit,
         pc[s] \in {"new", "lock", "check", "insert", "open"},
         NEW l \in {"lock", "check", "insert", "open", "429", "500"}, Goto(s, l), NoRow, now' = now, Fault \/ NoFault,
         \/ lock' = lock
         \/ lock[TenantOf[s]] = s /\ Unlock(s)
         \/ lock[TenantOf[s]] = None /\ lock' = [lock EXCEPT ![TenantOf[s]] = s],
         began' \in [Submit -> 0..MaxTime], \A u \in Submit \ {s} : began'[u] = began[u],
         Granted(s)', l = "insert" => Room(s)', pc[s] = "open" => l = "500"
  PROVE  Inv'
<1>1. /\ pc' \in [Submit -> {"new", "lock", "check", "insert", "open"} \cup Answered]
      /\ pc'[s] = l /\ \A u \in Submit \ {s} : pc'[u] = pc[u]
  BY Zenon DEF Goto, Inv, TypeOK, Answered
<1>2. /\ lock' \in [Tenant -> Submit \cup {None}]
      /\ \A u \in Submit \ {s} : lock[TenantOf[u]] = u => lock'[TenantOf[u]] = u
  BY OwnLock, Zenon
<1>3. TypeOK' /\ IsFiniteSet(rows)'
  BY <1>1, <1>2, Faults, Zenon DEF Inv, TypeOK, NoRow
<1>4. Apart(s)
  BY <1>1, <1>2, Zenon DEF Apart, NoRow
<1>5. Inserts(s)'
  BY <1>1, Zenon DEF Inv, Good, Inserts, NoRow
<1>6. Lost' \subseteq Lost
  <2>1. pc[s] # "202"
    BY Zenon
  <2> QED BY <1>1, <2>1, Zenon DEF Lost, NoRow
<1>7. Paid'
  BY <1>6, Faults, PaidKept, Zenon
<1>8. \A t \in Tenant : Spares(t)
  BY QuietRows, Zenon DEF NoRow
<1>9. \A u \in Submit : Granted(u)' /\ Inserts(u)'
  BY <1>4, <1>5, Others, Zenon
<1>10. \A u \in Submit : pc'[u] = "insert" => (pc[u] = "insert" /\ began'[u] = began[u]) \/ Room(u)'
  BY <1>1, Zenon
<1> QED BY <1>3, <1>7, <1>8, <1>9, <1>10, SparingStep, Zenon

\* Begin: a new transaction starts now, or the request fails open.
LEMMA BeginStep ==
  ASSUME Inv, NEW s \in Submit, Begin(s)
  PROVE  Inv'
<1> USE QuotaAssumption
<1>0. now \in 0..MaxTime /\ now \in Nat /\ began \in [Submit -> 0..MaxTime]
      /\ began[s] <= now
  BY DEF Inv, TypeOK, Good, Granted, Answered
<1>1. pc[s] = "new" /\ NoRow /\ now' = now /\ lock' = lock
  BY Zenon DEF Begin, NoRow
<1>2. CASE NoFault /\ Goto(s, "lock") /\ began' = [began EXCEPT ![s] = now]
  <2>1. /\ pc'[s] = "lock" /\ began'[s] = now /\ began' \in [Submit -> 0..MaxTime]
        /\ \A u \in Submit \ {s} : began'[u] = began[u]
    BY <1>0, <1>2, Moved, Zenon
  <2>2. Granted(s)'
    BY <1>0, <1>1, <2>1 DEF Granted
  <2> QED BY <1>1, <1>2, <2>1, <2>2, RowlessStep, Zenon
<1>3. CASE Fault /\ Goto(s, "open") /\ began' = began
  <2>1. pc'[s] = "open"
    BY <1>0, <1>3, Moved, Zenon
  <2>2. Granted(s)'
    BY <1>0, <1>1, <1>3, <2>1, Zenon DEF Granted
  <2> QED BY <1>0, <1>1, <1>3, <2>2, RowlessStep, Zenon
<1> QED BY <1>2, <1>3, Zenon DEF Begin

\* Lock: the free lock is taken, or the request fails open.
LEMMA LockStep ==
  ASSUME Inv, NEW s \in Submit, Lock(s)
  PROVE  Inv'
<1> USE QuotaAssumption
<1>0. /\ began \in [Submit -> 0..MaxTime] /\ lock \in [Tenant -> Submit \cup {None}]
      /\ began[s] <= now /\ (pc[s] = "lock" => now <= began[s] + LockWait)
  BY Zenon DEF Inv, TypeOK, Good, Granted, Answered
<1>1. pc[s] = "lock" /\ NoRow /\ now' = now /\ began' = began
  BY Zenon DEF Lock, NoRow
<1>2. CASE lock[TenantOf[s]] = None /\ NoFault /\ Goto(s, "check") /\ lock' = [lock EXCEPT ![TenantOf[s]] = s]
  <2>1. pc'[s] = "check" /\ lock'[TenantOf[s]] = s
    BY <1>0, <1>2, Moved, Zenon
  <2>2. Granted(s)'
    BY <1>0, <1>1, <2>1, Zenon DEF Granted
  <2> QED BY <1>0, <1>1, <1>2, <2>2, RowlessStep, Zenon
<1>3. CASE (Fault \/ NoFault) /\ Goto(s, "open") /\ lock' = lock
  <2>1. pc'[s] = "open"
    BY <1>0, <1>3, Moved, Zenon
  <2>2. Granted(s)'
    BY <1>0, <1>1, <2>1, Zenon DEF Granted
  <2> QED BY <1>0, <1>1, <1>3, <2>2, RowlessStep, Zenon
<1> QED BY <1>2, <1>3, Zenon DEF Lock

\* Check: the counts leave room, deny, or fail.
LEMMA CheckStep ==
  ASSUME Inv, NEW s \in Submit, Check(s)
  PROVE  Inv'
<1>0. /\ began \in [Submit -> 0..MaxTime]
      /\ began[s] <= now /\ (pc[s] = "check" => lock[TenantOf[s]] = s)
  BY Zenon DEF Inv, TypeOK, Good, Granted, Answered
<1>1. pc[s] = "check" /\ NoRow /\ now' = now /\ began' = began
  BY Zenon DEF Check
<1>2. CASE checkCounts(TenantOf[s]) /\ NoFault /\ Goto(s, "insert") /\ UNCHANGED lock
  <2>1. pc'[s] = "insert" /\ lock'[TenantOf[s]] = s
    BY <1>0, <1>1, <1>2, Moved, Zenon
  <2>2. Granted(s)' /\ Room(s)'
    BY <1>0, <1>1, <1>2, <2>1, Admit, Zenon DEF Granted
  <2> QED BY <1>0, <1>1, <1>2, <2>2, RowlessStep, Zenon
<1>3. ASSUME NEW l \in {"429", "open"}, Goto(s, l), Fault \/ NoFault, Unlock(s) \/ UNCHANGED lock
      PROVE  Inv'
  <2>1. pc'[s] = l
    BY <1>0, <1>3, Moved, Zenon
  <2>2. Granted(s)'
    BY <1>0, <1>1, <2>1, Zenon DEF Granted
  <2> QED BY <1>0, <1>1, <1>3, <2>2, RowlessStep, Zenon
<1> QED BY <1>2, <1>3, Zenon DEF Check, Hangs

\* The row of a commit under the lock takes the room the check found.
LEMMA CommitStep ==
  ASSUME Inv, NEW s \in Submit, pc[s] = "insert", Store(<<s, "locked">>, began[s]), Unlock(s),
         UNCHANGED <<now, began>>,
         NEW l \in {"202", "open"}, Goto(s, l), Fault \/ NoFault, l = "open" => Fault
  PROVE  Inv'
<1> DEFINE t == TenantOf[s]
           r == <<s, "locked">>
<1> USE QuotaAssumption
<1>0. /\ t \in Tenant /\ r \in Row /\ began[s] \in 0..MaxTime /\ IsFiniteSet(rows)
      /\ r \notin rows /\ <<s, "open">> \notin rows /\ lock[t] = s /\ began[s] <= now
  BY Zenon DEF Inv, TypeOK, Good, Granted, Inserts, Row
<1>1. pc'[s] = l /\ \A u \in Submit \ {s} : pc'[u] = pc[u]
  BY Moved, Zenon
<1>2. /\ lock' \in [Tenant -> Submit \cup {None}]
      /\ \A u \in Submit \ {s} : lock[TenantOf[u]] = u => lock'[TenantOf[u]] = u
  BY <1>0, OwnLock, Zenon
<1>3. rows' = rows \cup {r} /\ active' = active \cup {r} /\ <<s, "open">> \notin rows'
  <2>1. <<s, "open">> # r
    OBVIOUS
  <2> QED BY <1>0, <2>1, Zenon DEF Store
<1>4. pc' \in [Submit -> {"new", "lock", "check", "insert", "open"} \cup Answered] /\ at' \in [Row -> 0..MaxTime]
  BY <1>0, Zenon DEF Inv, TypeOK, Goto, Store, Answered
<1>5. TypeOK'
  BY <1>0, <1>2, <1>3, <1>4, Faults, Zenon DEF Inv, TypeOK
<1>6. IsFiniteSet(rows)'
  BY <1>0, <1>3, FS_AddElement, Zenon
<1>7. Apart(s)
  <2>1. \A u \in Submit \ {s} : \A k : <<u, k>> # r
    OBVIOUS
  <2> QED BY <1>1, <1>2, <1>3, <2>1, Zenon DEF Apart
<1>8. Granted(s)' /\ Inserts(s)'
  BY <1>0, <1>1, <1>3, Zenon DEF Granted, Inserts
<1>9. \A u \in Submit : Granted(u)' /\ Inserts(u)'
  BY <1>7, <1>8, Others, Zenon
<1>10. Paid'
  <2>1. CASE l = "202"
    <3>1. Lost' \subseteq Lost
      BY <1>1, <1>3, <1>7, <2>1, LostApart, Zenon DEF Lost
    <3> QED BY <3>1, Faults, PaidKept, Zenon
  <2>2. CASE l = "open"
    BY <1>7, <2>2, LostApart, Faults, PaidMore, Zenon
  <2> QED BY <2>1, <2>2, Zenon
<1>11. /\ \A u : u # t => Spares(u)
       /\ ActiveLocked(t)' \subseteq ActiveLocked(t) \cup {r}
       /\ \A x : /\ InSpan(t, x)' \subseteq InSpan(t, x) \cup {r}
                 /\ began[s] \notin x..(x + Window - LockWait) => InSpan(t, x)' \subseteq InSpan(t, x)
  BY <1>0, LockedRow, Zenon DEF Inv
<1> HIDE DEF r
<1>12. ASSUME NEW u \in Submit PROVE Room(u)'
  <2>1. CASE pc'[u] = "insert"
    <3>1. u # s /\ pc[u] = "insert" /\ lock[TenantOf[u]] = u /\ began'[u] = began[u] /\ Room(u)
      BY <1>1, <2>1, Zenon DEF Inv, Good, Granted
    <3>2. Spares(TenantOf[u])
      BY <1>0, <1>11, <3>1, Zenon
    <3> QED BY <1>0, <3>1, <3>2, RoomSpared, Zenon
  <2> QED BY <2>1, Zenon DEF Room
<1>13. ASSUME NEW u \in Tenant PROVE Capped(u)'
  <2>1. CASE u # t
    BY <1>0, <1>11, <2>1, Caps, CapSpared, Zenon DEF Inv
  <2>2. ASSUME Limit(t).MaxActive >= 0 PROVE Cardinality(ActiveLocked(t)') <= Limit(t).MaxActive
    <3>1. Cardinality(ActiveLocked(t)) < Limit(t).MaxActive /\ IsFiniteSet(ActiveLocked(t))
      BY <1>0, <2>2, Parts, Zenon DEF Inv, Good, Room
    <3>2. /\ Cardinality(ActiveLocked(t)') \in Nat /\ Cardinality(ActiveLocked(t)) \in Nat
          /\ Cardinality(ActiveLocked(t)') <= Cardinality(ActiveLocked(t)) + 1
      BY <1>11, <3>1, OneMore, Zenon
    <3> QED BY <3>1, <3>2, LimitType
  <2>3. ASSUME Limit(t).SubmitsPerHour >= 0, NEW x \in 0..MaxTime
        PROVE  Cardinality(InSpan(t, x)') <= Limit(t).SubmitsPerHour
    <3>0. IsFiniteSet(InSpan(t, x)) /\ Cardinality(InSpan(t, x)) <= Limit(t).SubmitsPerHour
      BY <1>0, <2>3, Parts, Caps, Zenon DEF Inv, Capped
    <3>1. CASE began[s] \in x..(x + Window - LockWait)
      <4>1. Cardinality(InSpan(t, x)) < Limit(t).SubmitsPerHour
        BY <2>3, <3>1, Zenon DEF Inv, Good, Room
      <4>2. InSpan(t, x)' \subseteq InSpan(t, x) \cup {r}
        BY <1>11, Zenon
      <4>3. /\ Cardinality(InSpan(t, x)') \in Nat /\ Cardinality(InSpan(t, x)) \in Nat
            /\ Cardinality(InSpan(t, x)') <= Cardinality(InSpan(t, x)) + 1
        BY <3>0, <4>2, OneMore, Zenon
      <4> QED BY <4>1, <4>3, LimitType
    <3>2. CASE began[s] \notin x..(x + Window - LockWait)
      <4>1. /\ Cardinality(InSpan(t, x)') \in Nat /\ Cardinality(InSpan(t, x)) \in Nat
            /\ Cardinality(InSpan(t, x)') <= Cardinality(InSpan(t, x))
        BY <1>11, <3>0, <3>2, Fewer, Zenon
      <4> QED BY <3>0, <4>1, LimitType
    <3> QED BY <3>1, <3>2, Zenon
  <2>4. Capped(t)'
    BY <2>2, <2>3, Zenon DEF Capped, Limit, limitsFor
  <2> QED BY <2>1, <2>4, Zenon
<1>14. ActiveCapped' /\ HourlyCapped'
  BY <1>13, Zenon DEF ActiveCapped, HourlyCapped, Capped, ActiveLocked, InSpan
<1> QED BY <1>5, <1>6, <1>9, <1>10, <1>12, <1>14, Zenon DEF Inv, Good

\* Insert: the commit takes effect, its reply lost or not, or it fails.
LEMMA InsertStep ==
  ASSUME Inv, NEW s \in Submit, Insert(s)
  PROVE  Inv'
<1>0. /\ began \in [Submit -> 0..MaxTime] /\ began[s] <= now /\ lock[TenantOf[s]] = s
      /\ pc[s] = "insert" /\ now' = now /\ began' = began
  BY Zenon DEF Inv, TypeOK, Good, Granted, Insert
<1>1. CASE NoFault /\ Store(<<s, "locked">>, began[s]) /\ Goto(s, "202") /\ Unlock(s)
  BY <1>0, <1>1, CommitStep, Zenon
<1>2. CASE Fault /\ Store(<<s, "locked">>, began[s]) /\ Goto(s, "open") /\ Unlock(s)
  BY <1>0, <1>2, CommitStep, Zenon
<1>3. CASE Fault /\ NoRow /\ Goto(s, "open") /\ (Unlock(s) \/ UNCHANGED lock)
  <2>1. pc'[s] = "open"
    BY <1>3, Moved, Zenon
  <2>2. Granted(s)'
    BY <1>0, <2>1, Zenon DEF Granted
  <2> QED BY <1>0, <1>3, <2>2, RowlessStep, Zenon
<1> QED BY <1>1, <1>2, <1>3, Zenon DEF Insert, Hangs

\* Open: the insert of the fail-open branch, its reply lost or not.
LEMMA OpenStep ==
  ASSUME Inv, NEW s \in Submit, Open(s)
  PROVE  Inv'
<1> DEFINE r == <<s, "open">>
<1>0. /\ began \in [Submit -> 0..MaxTime] /\ began[s] <= now /\ r \in Row /\ r \notin rows
      /\ pc[s] = "open" /\ now' = now /\ began' = began /\ lock' = lock /\ now \in 0..MaxTime /\ IsFiniteSet(rows)
  BY Zenon DEF Inv, TypeOK, Good, Granted, Inserts, Open, Row
<1>1. CASE Fault /\ NoRow /\ Goto(s, "500")
  <2>1. pc'[s] = "500"
    BY <1>1, Moved, Zenon
  <2>2. Granted(s)'
    BY <1>0, <2>1, Zenon DEF Granted
  <2> QED BY <1>0, <1>1, <2>2, RowlessStep, Zenon
<1>2. ASSUME NEW l \in {"202", "500"}, Goto(s, l), Store(r, now), Fault \/ NoFault
      PROVE  Inv'
  <2>1. pc'[s] = l /\ \A u \in Submit \ {s} : pc'[u] = pc[u]
    BY <1>2, Moved, Zenon
  <2>2. rows' = rows \cup {r} /\ active' = active \cup {r} /\ at' \in [Row -> 0..MaxTime]
    BY <1>0, <1>2, Zenon DEF Store, Inv, TypeOK
  <2>3. pc' \in [Submit -> {"new", "lock", "check", "insert", "open"} \cup Answered]
    BY <1>2, Zenon DEF Inv, TypeOK, Goto, Answered
  <2>4. TypeOK' /\ IsFiniteSet(rows)'
    BY <1>0, <1>2, <2>2, <2>3, Faults, FS_AddElement, Zenon DEF Inv, TypeOK
  <2>5. Apart(s)
    <3>1. \A u \in Submit \ {s} : \A k : <<u, k>> # r
      OBVIOUS
    <3> QED BY <1>0, <2>1, <2>2, <3>1, Zenon DEF Apart
  <2>6. Granted(s)' /\ Inserts(s)'
    BY <1>0, <2>1, Zenon DEF Granted, Inserts
  <2>7. \A u \in Submit : Granted(u)' /\ Inserts(u)'
    BY <2>5, <2>6, Others, Zenon
  <2>8. <<s, "locked">> # r
    OBVIOUS
  <2>9. Lost' \subseteq Lost
    BY <1>0, <2>2, <2>5, <2>8, LostApart, Zenon DEF Lost
  <2>10. Paid'
    BY <1>2, <2>9, Faults, PaidKept, Zenon
  <2>11. \A t : Spares(t)
    BY <1>0, <1>2, OpenRow, Zenon DEF Inv
  <2>12. \A u \in Submit : pc'[u] = "insert" => pc[u] = "insert" /\ began'[u] = began[u]
    BY <1>0, <2>1, Zenon
  <2> QED BY <2>4, <2>7, <2>10, <2>11, <2>12, SparingStep, Zenon
<1> QED BY <1>1, <1>2, Zenon DEF Open

-----------------------------------------------------------------------------
\* SessionEnds: nobody past the lock loses it.
LEMMA SessionStep ==
  ASSUME Inv, NEW t \in Tenant, SessionEnds(t)
  PROVE  Inv'
<1>1. /\ UNCHANGED <<now, pc, began, rows, active, at, faults>>
      /\ lock' \in [Tenant -> Submit \cup {None}]
      /\ \A u \in Tenant : u # t => lock'[u] = lock[u]
      /\ pc[lock[t]] \notin {"check", "insert"}
  BY Zenon DEF SessionEnds, Inv, TypeOK
<1>2. TypeOK' /\ IsFiniteSet(rows)' /\ Paid' /\ \A u \in Tenant : Spares(u)
  BY <1>1, QuietRows, Zenon DEF Inv, TypeOK, Paid, Lost
<1>3. ASSUME NEW u \in Submit PROVE Granted(u)' /\ Inserts(u)'
  BY <1>1, QuotaAssumption, Zenon DEF Inv, Good, Granted, Inserts
<1> QED BY <1>1, <1>2, <1>3, SparingStep, Zenon

\* Complete: an execution that ends makes room.
LEMMA CompleteStep ==
  ASSUME Inv, NEW r \in Row, Complete(r)
  PROVE  Inv'
<1>1. UNCHANGED <<now, pc, began, lock, rows, at, faults>> /\ active' \subseteq active
  BY Zenon DEF Complete
<1>2. TypeOK' /\ IsFiniteSet(rows)' /\ Paid' /\ \A u \in Tenant : Spares(u)
  BY <1>1, QuietRows, Zenon DEF Inv, TypeOK, Paid, Lost
<1>3. ASSUME NEW u \in Submit PROVE Granted(u)' /\ Inserts(u)'
  BY <1>1, Zenon DEF Inv, Good, Granted, Inserts
<1> QED BY <1>1, <1>2, <1>3, SparingStep, Zenon

\* Tick: lock_timeout is punctual, and the counts are read within the tick.
LEMMA TickStep ==
  ASSUME Inv, Tick
  PROVE  Inv'
<1> USE QuotaAssumption
<1>1. UNCHANGED <<pc, began, lock, rows, active, at, faults>> /\ now \in Nat /\ now' = now + 1 /\ now' \in 0..MaxTime
  BY DEF Tick, Inv, TypeOK
<1>2. TypeOK' /\ IsFiniteSet(rows)' /\ Paid' /\ \A u \in Tenant : Spares(u)
  BY <1>1, QuietRows, Zenon DEF Inv, TypeOK, Paid, Lost
<1>3. ASSUME NEW u \in Submit PROVE Granted(u)' /\ Inserts(u)'
  <2>1. began[u] \in Nat /\ began[u] <= now /\ pc[u] # "check" /\ (pc[u] = "lock" => now < began[u] + LockWait)
    BY DEF Inv, TypeOK, Good, Granted, Tick
  <2>2. began[u] <= now' /\ (pc[u] = "lock" => now' <= began[u] + LockWait)
    BY <1>1, <2>1
  <2> QED BY <1>1, <2>1, <2>2, Zenon DEF Inv, Good, Granted, Inserts
<1> QED BY <1>1, <1>2, <1>3, SparingStep, Zenon

\* Nothing is inserted yet.
LEMMA InitInv == Init => Inv
<1> SUFFICES ASSUME Init PROVE Inv
  OBVIOUS
<1> USE QuotaAssumption
<1>1. TypeOK
  BY DEF Init, TypeOK
<1>2. Lost = {} /\ rows = {} /\ \A t, x : ActiveLocked(t) = {} /\ InSpan(t, x) = {}
  BY Zenon DEF Init, Lost, ActiveLocked, InSpan, Locked, RowsOf
<1>3. IsFiniteSet({}) /\ Cardinality({}) = 0
  BY FS_EmptySet, Zenon
<1>4. IsFiniteSet(rows) /\ Paid
  BY <1>2, <1>3 DEF Paid, Init
<1>5. \A t \in Tenant : Capped(t)
  BY <1>2, <1>3, LimitType, Zenon DEF Capped
<1>6. ASSUME NEW s \in Submit PROVE Good(s)
  BY <1>2 DEF Init, Good, Granted, Room, Inserts
<1> QED BY <1>1, <1>4, <1>5, <1>6, Caps, Zenon DEF Inv

\* Every step keeps the invariant.
LEMMA InvStep == Inv /\ [Next]_vars => Inv'
<1> SUFFICES ASSUME Inv, [Next]_vars PROVE Inv'
  OBVIOUS
<1>1. ASSUME NEW s \in Submit, Step(s) PROVE Inv'
  BY <1>1, BeginStep, LockStep, CheckStep, InsertStep, OpenStep, Zenon DEF Step
<1>2. CASE UNCHANGED vars
  <2>1. UNCHANGED <<now, pc, began, lock, rows, active, at, faults>>
    BY <1>2, Zenon DEF vars
  <2>2. TypeOK' /\ IsFiniteSet(rows)' /\ Paid' /\ \A u \in Tenant : Spares(u)
    BY <2>1, QuietRows, Zenon DEF Inv, TypeOK, Paid, Lost
  <2>3. \A u \in Submit : Granted(u)' /\ Inserts(u)'
    BY <2>1, Zenon DEF Inv, Good, Granted, Inserts
  <2> QED BY <2>1, <2>2, <2>3, SparingStep, Zenon
<1> QED BY <1>1, <1>2, SessionStep, CompleteStep, TickStep, Zenon DEF Next

-----------------------------------------------------------------------------
\* The inductive invariant holds in every state of the quota check.
THEOREM QuotaInv == Spec => []Inv
<1> QED BY InitInv, InvStep, PTL DEF Spec

\* The variables keep their types, for any submits and limits.
THEOREM QuotaTypes == Spec => []TypeOK
<1>1. Inv => TypeOK
  BY Zenon DEF Inv
<1> QED BY <1>1, QuotaInv, PTL

\* However many gateways run CheckAndCreate at once, and whichever of their
\* calls fail, the executions admitted under the lock of a tenant keep its
\* active limit.
THEOREM ActiveLimit == Spec => []ActiveCapped
<1>1. Inv => ActiveCapped
  BY Zenon DEF Inv
<1> QED BY <1>1, QuotaInv, PTL

\* They keep the hourly limit in every window that is shorter than SubmitWindow
\* by quotaLockTimeout, whatever the two settings are.
THEOREM HourlyLimit == Spec => []HourlyCapped
<1>1. Inv => HourlyCapped
  BY Zenon DEF Inv
<1> QED BY <1>1, QuotaInv, PTL

\* A denied request has no row, and no more requests have two rows than calls
\* failed.
THEOREM RowsPaid == Spec => []RowsAccounted
<1>1. ASSUME Inv PROVE RowsAccounted
  <2> DEFINE twice == {s \in Submit : {<<s, "locked">>, <<s, "open">>} \subseteq rows}
  <2>1. twice \subseteq Lost
    BY Zenon DEF Lost
  <2>2. Cardinality(twice) <= Cardinality(Lost) /\ Cardinality(twice) \in Nat /\ Cardinality(Lost) \in Nat
    BY <1>1, <2>1, Fewer, Zenon DEF Inv, Paid
  <2>3. Cardinality(Lost) <= faults /\ faults \in Nat
    BY <1>1, QuotaAssumption DEF Inv, Paid, TypeOK
  <2>4. \A s \in Submit, k \in {"locked", "open"} : pc[s] \in {"new", "lock", "check", "429"} => <<s, k>> \notin rows
    BY <1>1, Zenon DEF Inv, Good, Inserts
  <2> HIDE DEF twice
  <2>5. Cardinality(twice) <= faults
    BY <2>2, <2>3
  <2> QED BY <2>4, <2>5, Zenon DEF RowsAccounted, twice
<1> QED BY <1>1, QuotaInv, PTL
=============================================================================
