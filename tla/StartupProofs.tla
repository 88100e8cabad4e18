---------------------------- MODULE StartupProofs ----------------------------
(***************************************************************************)
(* Proofs about Startup, for any number of processes and any releases.     *)
(* The inductive invariant adds to the migrations table where each process *)
(* stands: one that runs a script is the only one, and applies the version *)
(* that comes next.                                                        *)
(***************************************************************************)
EXTENDS Startup, TLAPS

Applying == {"script", "commit"}

\* Where a process stands.
Stands(p) ==
  /\ IF pc[p] \in Applying
       THEN tx[p] = at[p] /\ at[p] = Len(schema) + 1 /\ at[p] <= Versions[p]
       ELSE tx[p] = None
  /\ pc[p] \in {"connect", "table", "create"} => at[p] = 1
  /\ pc[p] = "claim" => at[p] <= Len(schema) + 1
  /\ pc[p] \in {"down", "connect"} => p \notin pool
  /\ p \in pool /\ pc[p] \in {"nats", "streams", "serve", "done"} => Versions[p] <= Len(schema)
  /\ p \in ready => p \in pool /\ pc[p] = "serve"
  /\ p \in Dispatcher /\ pc[p] = "serve" => stream

\* At most one process applies a migration.
Alone == \A p, q \in Process : pc[p] \in Applying /\ pc[q] \in Applying => p = q

Inv == TypeOK /\ AppliedInOrder /\ Alone /\ \A p \in Process : Stands(p)
-----------------------------------------------------------------------------
\* A process that the step leaves alone.
Same(q) ==
  /\ pc'[q] = pc[q] /\ tx'[q] = tx[q] /\ at'[q] = at[q]
  /\ (q \in pool' <=> q \in pool) /\ (q \in ready' <=> q \in ready)

\* The step of a process that commits nothing.
LEMMA FrameOthers ==
  ASSUME Inv, NEW p \in Process, \A q \in Process \ {p} : Same(q), UNCHANGED db, TypeOK',
         Stands(p)', pc'[p] \in Applying => pc[p] \in Applying, stream => stream'
  PROVE  Inv'
<1>1. AppliedInOrder'
  BY Zenon DEF Inv, AppliedInOrder, db
<1>2. Alone'
  BY Zenon DEF Inv, Alone, Same
<1>3. \A q \in Process \ {p} : Stands(q)'
  BY DEF Inv, Stands, Same, db
<1> QED
  BY <1>1, <1>2, <1>3, Zenon DEF Inv

\* The initial states satisfy the invariant.
LEMMA InitInv == Init => Inv
<1> SUFFICES ASSUME Init PROVE Inv
  OBVIOUS
<1> USE StartupAssumption
<1>1. TypeOK
  <2>1. at \in [Process -> Nat] /\ \A p \in Process : at[p] \in 1..Versions[p] + 1
    BY DEF Init
  <2>2. schema \in Seq(Nat) /\ faults \in 0..MaxFaults
    BY DEF Init
  <2> QED
    BY <2>1, <2>2, Zenon DEF Init, TypeOK
<1>2. Len(schema) = 0
  BY Zenon DEF Init
<1>3. AppliedInOrder
  BY <1>2 DEF Init, AppliedInOrder
<1>4. Alone
  BY Zenon DEF Init, Alone, Applying
<1>5. ASSUME NEW p \in Process PROVE Stands(p)
  BY Zenon DEF Init, Stands, Applying
<1> QED
  BY <1>1, <1>3, <1>4, <1>5, Zenon DEF Inv

\* Exit, from wherever the process stands.
LEMMA ExitStep ==
  ASSUME Inv, NEW p \in Process, Exit(p), faults' \in 0..MaxFaults
  PROVE  Inv'
<1> USE StartupAssumption DEF Exit
<1>1. TypeOK'
  BY Zenon DEF Inv, TypeOK, Goto, db, deps
<1>2. \A q \in Process \ {p} : Same(q)
  BY Zenon DEF Inv, TypeOK, Goto, Same
<1>3. pc'[p] = "down" /\ tx'[p] = None /\ p \notin pool'
  BY Zenon DEF Inv, TypeOK, Goto
<1>4. p \notin ready' /\ stream' = stream
  BY Zenon DEF deps
<1>5. Stands(p)' /\ pc'[p] \notin Applying
  BY <1>3, <1>4, Zenon DEF Stands, Applying
<1> QED
  BY <1>1, <1>2, <1>4, <1>5, FrameOthers, Zenon

\* A process moves on: only its own pc, at, pool and conn, and the stream, change.
LEMMA MoveStep ==
  ASSUME Inv, NEW p \in Process, NEW l \in Booting \cup {"serve", "done"}, Goto(p, l),
         UNCHANGED <<tx, db, pg, js, ready>>, faults' \in 0..MaxFaults,
         stream' \in BOOLEAN, stream => stream',
         l = "serve" /\ p \in Dispatcher => stream',
         at' \in [Process -> Nat], \A q \in Process : at'[q] \in 1..Versions[q] + 1,
         \A q \in Process \ {p} : at'[q] = at[q],
         pool' = pool \/ pool' = pool \cup {p}, conn' = conn \/ conn' = conn \cup {p},
         pc[p] # "serve",
         IF l \in Applying THEN pc[p] \in Applying /\ at'[p] = at[p] ELSE pc[p] \notin Applying,
         l \in {"connect", "table", "create"} => at'[p] = 1,
         l = "claim" => at'[p] <= Len(schema) + 1,
         l = "connect" => p \notin pool',
         p \in pool' /\ l \in {"nats", "streams", "serve", "done"} => Versions[p] <= Len(schema)
  PROVE  Inv'
<1> USE StartupAssumption
<1>1. TypeOK'
  BY Zenon DEF Inv, TypeOK, Goto, db, deps
<1>2. \A q \in Process \ {p} : Same(q)
  BY Zenon DEF Inv, TypeOK, Goto, Same
<1>3. pc'[p] = l /\ Stands(p) /\ tx'[p] = tx[p] /\ UNCHANGED <<schema, ready>> /\ l # "down"
  BY Zenon DEF Inv, TypeOK, Goto, db, Booting
<1>4. Stands(p)'
  BY <1>3, Zenon DEF Stands, Applying
<1> QED
  BY <1>1, <1>2, <1>3, <1>4, FrameOthers, Zenon

\* Start, Connect, FindTable, RunScript, Migrated, ConnectNATS and EnsureStreams
LEMMA BootStep ==
  ASSUME Inv, NEW p \in Process,
         \/ Start(p) \/ Connect(p) \/ FindTable(p) \/ RunScript(p)
         \/ Migrated(p) \/ ConnectNATS(p) \/ EnsureStreams(p)
  PROVE  Inv'
<1> USE StartupAssumption
<1>0. Stands(p) /\ faults \in 0..MaxFaults /\ at \in [Process -> Nat] /\ Len(schema) \in Nat
      /\ \A q \in Process : at[q] \in 1..Versions[q] + 1
      /\ stream \in BOOLEAN /\ (p \in Gateway => p \notin Dispatcher)
  BY DEF Inv, TypeOK
<1>1. CASE Start(p)
  <2>1. /\ at' \in [Process -> Nat] /\ \A q \in Process : at'[q] \in 1..Versions[q] + 1
        /\ \A q \in Process \ {p} : at'[q] = at[q]
    BY <1>0, <1>1 DEF Start
  <2> QED
    BY <1>0, <1>1, <2>1, MoveStep, Zenon DEF Start, Stands, held, Booting, Applying, deps
<1>2. CASE Connect(p)
  <2>1. CASE pg /\ Goto(p, "table") /\ pool' = pool \cup {p} /\ UNCHANGED <<at, tx, db, deps, conn, ready>>
    BY <1>0, <1>2, <2>1, MoveStep, Zenon DEF Connect, Booting, Applying, Stands, deps
  <2>2. CASE p \in Gateway /\ Goto(p, "nats") /\ UNCHANGED <<at, tx, db, deps, held, ready>>
    BY <1>0, <1>2, <2>2, MoveStep, Zenon DEF Connect, Booting, Applying, held, Stands, deps
  <2> QED
    BY <1>0, <1>2, <2>1, <2>2, ExitStep, Zenon DEF Connect
<1>3. CASE FindTable(p)
  <2>1. CASE table
    BY <1>0, <1>3, <2>1, MoveStep DEF FindTable, Booting, Applying, held, Stands, deps
  <2>2. CASE ~table
    BY <1>0, <1>3, <2>2, MoveStep, Zenon DEF FindTable, Booting, Applying, held, Stands, deps
  <2> QED
    BY <2>1, <2>2, Zenon
<1>4. CASE RunScript(p)
  BY <1>0, <1>4, MoveStep, Zenon DEF RunScript, Booting, Applying, held, deps
<1>5. CASE Migrated(p)
  BY <1>0, <1>5, MoveStep DEF Migrated, Booting, Applying, held, Stands, deps
<1>6. CASE ConnectNATS(p)
  <2>1. CASE /\ js /\ Goto(p, "streams") /\ conn' = conn \cup {p}
             /\ UNCHANGED <<at, tx, db, deps, pool, ready>>
    BY <1>0, <1>6, <2>1, MoveStep, Zenon DEF ConnectNATS, Applying, Booting, Stands, deps
  <2>2. CASE p \in Gateway /\ Goto(p, "serve") /\ UNCHANGED <<at, tx, db, deps, held, ready>>
    BY <1>0, <1>6, <2>2, MoveStep, Zenon DEF ConnectNATS, Applying, held, Stands, deps
  <2> QED
    BY <1>0, <1>6, <2>1, <2>2, ExitStep, Zenon DEF ConnectNATS
<1>7. CASE EnsureStreams(p)
  <2>0. pc[p] = "streams"
    BY <1>7, Zenon DEF EnsureStreams
  <2>1. CASE stream' = TRUE /\ Goto(p, "serve") /\ UNCHANGED <<at, tx, db, pg, js, held, ready, faults>>
    BY <1>0, <2>0, <2>1, MoveStep, Zenon DEF Applying, held, Stands
  <2>2. CASE StreamsFail(p)
    <3>1. faults' \in 0..MaxFaults
      BY <1>0, <2>2 DEF StreamsFail, Fault
    <3>2. CASE p \in Gateway /\ Goto(p, "serve") /\ UNCHANGED <<at, tx, db, deps, held, ready>>
      BY <1>0, <2>0, <3>1, <3>2, MoveStep, Zenon DEF Applying, held, Stands, deps
    <3> QED
      BY <2>2, <3>1, <3>2, ExitStep, Zenon DEF StreamsFail
  <2> QED
    BY <1>7, <2>1, <2>2, Zenon DEF EnsureStreams
<1> QED
  BY <1>1, <1>2, <1>3, <1>4, <1>5, <1>6, <1>7, Zenon

\* CreateTable
LEMMA CreateTableStep ==
  ASSUME Inv, NEW p \in Process, CreateTable(p)
  PROVE  Inv'
<1> USE StartupAssumption DEF CreateTable
<1>1. CASE Exit(p)
  <2>1. faults' \in 0..MaxFaults
    BY Zenon DEF Inv, TypeOK
  <2> QED
    BY <1>1, <2>1, ExitStep, Zenon
<1>2. CASE /\ table' = TRUE /\ Goto(p, "claim")
           /\ UNCHANGED <<at, tx, marks, schema, deps, held, ready>>
  <2>1. TypeOK'
    BY <1>2, Zenon DEF Inv, TypeOK, Goto, deps, held, Booting
  <2>2. \A q \in Process \ {p} : Same(q) /\ Stands(q)
    BY <1>2, Zenon DEF Inv, TypeOK, Goto, held, Same
  <2>3. \A q \in Process \ {p} : Stands(q)'
    BY <1>2, <2>2, Zenon DEF Stands, Same, deps
  <2>4. pc'[p] = "claim" /\ Stands(p) /\ at[p] = 1 /\ Len(schema) \in Nat
    BY <1>2 DEF Inv, TypeOK, Goto, Stands
  <2>5. Stands(p)'
    BY <1>2, <2>4 DEF Stands, Applying, held
  <2>6. Alone'
    BY <2>2, <2>4, Zenon DEF Alone, Inv, Applying, Same
  <2>7. AppliedInOrder'
    BY <1>2, Zenon DEF Inv, AppliedInOrder
  <2> QED
    BY <2>1, <2>3, <2>5, <2>6, <2>7, Zenon DEF Inv
<1> QED
  BY <1>1, <1>2, Zenon

\* Claim: a version that is not marked is the next one, and nobody else
\* applies it.
LEMMA ClaimStep ==
  ASSUME Inv, NEW p \in Process, Claim(p)
  PROVE  Inv'
<1> USE StartupAssumption DEF Claim
<1>0. /\ Stands(p) /\ pc[p] = "claim" /\ at[p] <= Versions[p] /\ Len(schema) \in Nat
      /\ at[p] \in Nat \ {0} /\ at[p] <= Len(schema) + 1 /\ marks = 1..Len(schema)
      /\ tx[p] = None /\ Versions[p] \in Nat /\ stream \in BOOLEAN /\ faults \in 0..MaxFaults
  BY DEF Inv, TypeOK, Stands, Applying, AppliedInOrder
<1>1. CASE at[p] \in marks /\ at' = [at EXCEPT ![p] = at[p] + 1] /\ UNCHANGED <<pc, tx>>
  <2>1. /\ at' \in [Process -> Nat] /\ \A q \in Process : at'[q] \in 1..Versions[q] + 1
        /\ \A q \in Process \ {p} : at'[q] = at[q]
    BY <1>0, <1>1 DEF Inv, TypeOK
  <2>2. Goto(p, "claim")
    BY <1>0, <1>1, Zenon DEF Inv, TypeOK, Goto
  <2>3. at'[p] <= Len(schema) + 1
    BY <1>0, <1>1 DEF Inv, TypeOK
  <2> QED
    BY <1>0, <1>1, <2>1, <2>2, <2>3, MoveStep, Zenon DEF Booting, Applying, held, deps
<1>2. CASE /\ at[p] \notin marks /\ tx' = [tx EXCEPT ![p] = at[p]] /\ Goto(p, "script")
           /\ UNCHANGED at
  <2>1. at[p] = Len(schema) + 1
    BY <1>0, <1>2
  <2>2. ASSUME NEW q \in Process, pc[q] \in Applying PROVE FALSE
    BY <2>1, <2>2, Zenon DEF Inv, Stands
  <2>3. TypeOK'
    BY <1>0, <1>2, Zenon DEF Inv, TypeOK, Goto, db, deps, held, Booting
  <2>4. \A q \in Process \ {p} : Same(q)
    BY <1>2, Zenon DEF Inv, TypeOK, Goto, held, Same
  <2>5. \A q \in Process \ {p} : Stands(q)'
    BY <1>2, <2>4, Zenon DEF Inv, Stands, Same, db, deps
  <2>6. pc'[p] = "script" /\ tx'[p] = at[p] /\ UNCHANGED <<at, schema, ready, pool>>
    BY <1>2, Zenon DEF Inv, TypeOK, Goto, db, held
  <2>7. Stands(p)'
    BY <1>0, <2>1, <2>6, Zenon DEF Stands, Applying
  <2>8. Alone'
    BY <2>2, <2>4, Zenon DEF Alone, Same
  <2>9. AppliedInOrder'
    BY Zenon DEF Inv, AppliedInOrder, db
  <2> QED
    BY <2>3, <2>5, <2>7, <2>8, <2>9, Zenon DEF Inv
<1> QED
  BY <1>1, <1>2, Zenon

\* What a commit appends to an ordered schema keeps it ordered.
LEMMA Appended ==
  ASSUME Inv, NEW v, v = Len(schema) + 1, Committed(v)
  PROVE  /\ schema' \in Seq(Nat) /\ Len(schema') = Len(schema) + 1
         /\ marks' \subseteq Nat /\ table' \in BOOLEAN /\ AppliedInOrder'
<1> DEFINE n == Len(schema)
<1>1. n \in Nat /\ schema \in Seq(Nat) /\ schema = [i \in 1..n |-> i] /\ marks = 1..n
  BY DEF Inv, TypeOK, AppliedInOrder
<1>2. schema' = Append(schema, n + 1) /\ marks' = marks \cup {n + 1} /\ table' = table
  BY Zenon DEF Committed
<1>3. schema' \in Seq(Nat) /\ Len(schema') = n + 1
  BY <1>1, <1>2
<1>4. \A i \in 1..n + 1 : schema'[i] = i
  BY <1>1, <1>2
<1>5. schema' = [i \in 1..n + 1 |-> i]
  BY <1>3, <1>4
<1>6. marks' = 1..n + 1
  BY <1>1, <1>2
<1> QED
  BY <1>1, <1>2, <1>3, <1>5, <1>6 DEF AppliedInOrder, Inv, TypeOK

\* Commit and CommitLost: the process that applies a migration is the only one.
LEMMA CommitStep ==
  ASSUME Inv, NEW p \in Process, Commit(p) \/ CommitLost(p)
  PROVE  Inv'
<1> USE StartupAssumption
<1>0. /\ Stands(p) /\ pc[p] = "commit" /\ Len(schema) \in Nat /\ Committed(tx[p])
      /\ tx[p] = Len(schema) + 1 /\ at[p] = Len(schema) + 1 /\ at[p] <= Versions[p]
      /\ Versions[p] \in Nat
  BY DEF Inv, TypeOK, Stands, Applying, Commit, CommitLost
<1>1. /\ schema' \in Seq(Nat) /\ Len(schema') = Len(schema) + 1
      /\ marks' \subseteq Nat /\ table' \in BOOLEAN /\ AppliedInOrder'
  BY <1>0, Appended, Zenon
<1>2. /\ tx' = [tx EXCEPT ![p] = None] /\ UNCHANGED <<deps, ready>>
      /\ (UNCHANGED at \/ at' = [at EXCEPT ![p] = at[p] + 1])
      /\ (UNCHANGED held \/ (pool' = pool \ {p} /\ conn' = conn \ {p}))
      /\ faults' \in 0..MaxFaults
  BY DEF Commit, CommitLost, Fault, Inv, TypeOK
<1>3. PICK l \in {"claim", "down"} : Goto(p, l)
  BY Zenon DEF Commit, CommitLost
<1>4. /\ l = "claim" => at'[p] = at[p] + 1
      /\ l = "down" => p \notin pool'
  BY <1>0, <1>3, Zenon DEF Commit, CommitLost, Inv, TypeOK, Goto
<1>5. /\ at' \in [Process -> Nat] /\ \A q \in Process : at'[q] \in 1..Versions[q] + 1
      /\ tx' \in [Process -> Nat \cup {None}]
  <2>1. /\ at \in [Process -> Nat] /\ \A q \in Process : at[q] \in 1..Versions[q] + 1
        /\ tx \in [Process -> Nat \cup {None}]
    BY Zenon DEF Inv, TypeOK
  <2>2. CASE UNCHANGED at
    BY <1>2, <2>1, <2>2, Zenon
  <2>3. CASE at' = [at EXCEPT ![p] = at[p] + 1]
    <3>1. at[p] + 1 \in 1..Versions[p] + 1
      BY <1>0
    <3> QED
      BY <1>0, <1>2, <2>1, <2>3, <3>1
  <2> QED
    BY <1>2, <2>2, <2>3, Zenon
<1>6. TypeOK'
  BY <1>1, <1>2, <1>3, <1>5, Zenon DEF Inv, TypeOK, Goto, deps, held, Booting
<1>7. \A q \in Process \ {p} : Same(q)
  BY <1>2, <1>3, Zenon DEF Inv, TypeOK, Goto, held, Same
<1>8. ASSUME NEW q \in Process \ {p} PROVE Stands(q)' /\ pc[q] \notin Applying
  <2>1. Stands(q) /\ pc[q] \notin Applying /\ Same(q)
    BY <1>0, <1>7, Zenon DEF Inv, Alone, Applying
  <2>2. Versions[q] \in Nat /\ at[q] \in Nat
    BY Zenon DEF Inv, TypeOK
  <2> QED
    BY <1>0, <1>1, <1>2, <2>1, <2>2 DEF Stands, Same, deps
<1>9. pc'[p] = l /\ tx'[p] = None /\ ready' = ready
  BY <1>2, <1>3, Zenon DEF Inv, TypeOK, Goto
<1>10. Stands(p)'
  BY <1>0, <1>1, <1>4, <1>9 DEF Stands, Applying
<1>11. Alone'
  BY <1>7, <1>8, <1>9, Zenon DEF Alone, Same, Applying
<1> QED
  BY <1>1, <1>6, <1>8, <1>10, <1>11, Zenon DEF Inv

\* Probes, clients that are closed, and the dependencies that come and go.
LEMMA AroundStep ==
  ASSUME Inv,
         \/ \E g \in Gateway : Probe(g)
         \/ \E p \in Process : ClientGivesUp(p)
         \/ PostgresStops \/ PostgresStarts \/ NATSStops \/ NATSStarts
  PROVE  Inv'
<1> USE StartupAssumption
<1>1. ASSUME NEW g \in Gateway, Probe(g)
      PROVE  Inv'
  <2> USE <1>1 DEF Probe
  <2>0. g \in Process
    BY Zenon DEF Process
  <2>1. ready' = ready \/ (ready' = ready \cup {g} /\ g \in pool)
    BY Zenon DEF Answer, Ready
  <2>2. TypeOK'
    BY <2>1, Zenon DEF Inv, TypeOK, boot, db, deps, held
  <2>3. \A q \in Process \ {g} : Same(q)
    BY <2>1, Zenon DEF Inv, TypeOK, boot, held, Same
  <2>4. Stands(g)' /\ stream' = stream
    BY <2>0, <2>1, Zenon DEF Inv, Stands, boot, db, held, deps
  <2> QED
    BY <2>0, <2>2, <2>3, <2>4, FrameOthers, Zenon DEF boot
<1>2. ASSUME PostgresStops
      PROVE  Inv'
  <2> USE <1>2 DEF PostgresStops, Fault
  <2>1. TypeOK'
    <3>1. /\ pc' \in [Process -> Booting \cup {"down", "serve", "done"}]
          /\ tx' \in [Process -> Nat \cup {None}] /\ pool' \subseteq Process
      BY Zenon DEF Inv, TypeOK
    <3>2. faults' \in 0..MaxFaults
      BY DEF Inv, TypeOK
    <3> QED
      BY <3>1, <3>2, Zenon DEF Inv, TypeOK, db
  <2>2. ASSUME NEW p \in Process PROVE Stands(p)' /\ pc'[p] \notin Applying
    <3>1. /\ Stands(p) /\ tx'[p] = None /\ UNCHANGED <<at, schema, ready, stream>>
      BY Zenon DEF Inv, db
    <3>2. \/ pc'[p] = "down" /\ p \notin pool' /\ pc[p] # "serve"
          \/ /\ pc'[p] = pc[p] /\ (p \in pool' <=> p \in pool)
             /\ pc[p] \notin Applying
      BY Zenon DEF Booting, Applying
    <3>3. CASE pc'[p] = "down" /\ p \notin pool' /\ pc[p] # "serve"
      BY <3>1, <3>3, Zenon DEF Stands, Applying
    <3>4. CASE pc'[p] = pc[p] /\ (p \in pool' <=> p \in pool) /\ pc[p] \notin Applying
      <4> HIDE <1>2 DEF PostgresStops, Fault
      <4>1. Stands(p)'
        BY <3>1, <3>4 DEF Stands
      <4> QED
        BY <3>4, <4>1, Zenon
    <3> QED
      BY <3>2, <3>3, <3>4, Zenon
  <2>3. AppliedInOrder' /\ Alone'
    BY <2>2, Zenon DEF Inv, AppliedInOrder, Alone, db
  <2> QED
    BY <2>1, <2>2, <2>3, Zenon DEF Inv
<1>3. ASSUME UNCHANGED <<boot, db, pool, stream, ready>>, pg' \in BOOLEAN, js' \in BOOLEAN,
             conn' \subseteq Process, faults' \in 0..MaxFaults
      PROVE  Inv'
  <2> USE <1>3 DEF boot, db
  <2>1. TypeOK' /\ AppliedInOrder' /\ Alone'
    BY Zenon DEF Inv, TypeOK, AppliedInOrder, Alone
  <2>2. \A p \in Process : Stands(p)'
    BY Zenon DEF Inv, Stands
  <2> QED
    BY <2>1, <2>2, Zenon DEF Inv
<1>4. CASE PostgresStarts \/ NATSStops \/ NATSStarts \/ \E p \in Process : ClientGivesUp(p)
  <2> USE <1>4 DEF PostgresStarts, NATSStops, NATSStarts, ClientGivesUp
  <2>1. UNCHANGED <<boot, db, pool, stream, ready>> /\ (UNCHANGED faults \/ Fault)
    BY Zenon DEF held, deps
  <2>2. pg' \in BOOLEAN /\ js' \in BOOLEAN /\ conn' \subseteq Process
    BY Zenon DEF Inv, TypeOK, held, deps
  <2>3. faults' \in 0..MaxFaults
    BY <2>1 DEF Fault, Inv, TypeOK
  <2> QED
    BY <1>3, <2>1, <2>2, <2>3, Zenon
<1> QED
  BY <1>1, <1>2, <1>4, Zenon

\* Every step keeps the invariant.
LEMMA InvStep == Inv /\ [Next]_vars => Inv'
<1> SUFFICES ASSUME Inv, [Next]_vars PROVE Inv'
  OBVIOUS
<1>1. ASSUME NEW p \in Process, Start(p) \/ Proceed(p) \/ CommitLost(p) \/ ClientGivesUp(p) \/ Crash(p)
      PROVE  Inv'
  <2>1. CASE Start(p) \/ Proceed(p)
    BY <2>1, BootStep, CreateTableStep, ClaimStep, CommitStep, Zenon DEF Proceed
  <2>2. CASE Crash(p)
    <3>1. faults' \in 0..MaxFaults
      BY <2>2, StartupAssumption DEF Crash, Fault, Inv, TypeOK
    <3> QED
      BY <2>2, <3>1, ExitStep, Zenon DEF Crash
  <2> QED
    BY <1>1, <2>1, <2>2, CommitStep, AroundStep, Zenon
<1>2. CASE UNCHANGED vars
  <2> USE <1>2 DEF vars, boot, db, deps, held
  <2>1. TypeOK' /\ AppliedInOrder' /\ Alone'
    BY Zenon DEF Inv, TypeOK, AppliedInOrder, Alone
  <2>2. \A p \in Process : Stands(p)'
    BY Zenon DEF Inv, Stands
  <2> QED
    BY <2>1, <2>2, Zenon DEF Inv
<1> QED
  BY <1>1, <1>2, AroundStep, Zenon DEF Next

\* The invariant holds of Spec.
THEOREM StartupInv == Spec => []Inv
  BY InitInv, InvStep, PTL DEF Spec

\* AppliedInOrder: store.Migrate's claim and script in one transaction, for
\* any number of racing processes, crashes and lost replies.
THEOREM MigratedOnce == Spec => []AppliedInOrder
<1>1. Inv => AppliedInOrder
  BY Zenon DEF Inv
<1> QED
  BY <1>1, StartupInv, PTL

\* ServesMigrated: a replica that skips a version finds it committed.
THEOREM Served == Spec => []ServesMigrated
<1>1. Inv => ServesMigrated
  BY Zenon DEF Inv, TypeOK, ServesMigrated, Stands
<1> QED
  BY <1>1, StartupInv, PTL

\* ReadyIsWired: what /readyz promises of a gateway holds until it exits, and of
\* its submits once a dispatcher, which exits without the stream, is up.
THEOREM ReadyWired == Spec => []ReadyIsWired
<1>1. ASSUME Inv, NEW g \in Gateway, g \in ready
      PROVE  /\ pg => \A route \in Route \ {"submit", "readyz"} : Answer(g, route) = "served"
             /\ Versions[g] <= Len(schema)
  <2>1. g \in pool /\ pc[g] = "serve" /\ Versions[g] <= Len(schema)
    BY <1>1, Zenon DEF Inv, Stands, Process
  <2>2. ASSUME pg, NEW route \in Route \ {"submit", "readyz"} PROVE Answer(g, route) = "served"
    BY <2>1, <2>2, Zenon DEF Answer, Route
  <2> QED
    BY <2>1, <2>2, Zenon
<1>2. ASSUME Inv, NEW g \in Gateway, Ready(g), NEW d \in Dispatcher, pc[d] = "serve"
      PROVE  Answer(g, "submit") = "served"
  <2>1. stream
    BY <1>2, Zenon DEF Inv, Stands, Process
  <2> QED
    BY <1>2, <2>1, Zenon DEF Answer, Ready, Publish
<1>3. Inv => ReadyIsWired
  BY <1>1, <1>2, Zenon DEF ReadyIsWired
<1> QED
  BY <1>3, StartupInv, PTL
=============================================================================
