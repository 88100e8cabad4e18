------------------------------ MODULE Startup ------------------------------
(***************************************************************************)
(* Processes coming up together: gateways (cmd/gateway), dispatchers       *)
(* (cmd/dispatcher) and one-shot migrators (gateway -migrate-only) connect *)
(* to Postgres, apply the migrations they embed (store.Migrate), connect   *)
(* to NATS, create the streams and serve.  A dispatcher exits without      *)
(* either dependency; a gateway serves what it can with the handlers       *)
(* NewRouter chose when it started.  Gateways and dispatchers that exit    *)
(* are started again (restart: unless-stopped); a migrator is run by hand. *)
(*                                                                         *)
(* Migrations are numbered in the lexical order of their files.  Processes *)
(* of different releases embed different prefixes of them.                 *)
(***************************************************************************)
EXTENDS Integers, Sequences

CONSTANTS
  Gateway, Dispatcher, Migrator,  \* processes
  Versions,   \* Versions[p]: how many migrations p's binary embeds
  MaxFaults,  \* bound on the crashes, outages and failed calls of a behaviour
  None        \* no version

Process == Gateway \cup Dispatcher \cup Migrator

ASSUME StartupAssumption ==
  /\ Gateway \cap Dispatcher = {} /\ Migrator \cap (Gateway \cup Dispatcher) = {}
  /\ Versions \in [Process -> Nat \ {0}] /\ MaxFaults \in Nat /\ None \notin Nat

VARIABLES
  pc,      \* what a process does next
  at,      \* the version it applies next
  tx,      \* the version its open transaction has claimed
  table,   \* schema_migrations exists
  marks,   \* committed rows of schema_migrations
  schema,  \* scripts committed, in the order of their commits
  pg, js,  \* Postgres and NATS answer
  stream,  \* the submit stream exists (FileStorage: it survives NATS)
  pool,    \* processes that hold a pgx pool
  conn,    \* processes that hold a NATS client that is not closed
  ready,   \* history: gateways that have answered /readyz with 200
  faults

boot == <<pc, at, tx>>
db   == <<table, marks, schema>>
deps == <<pg, js, stream>>
held == <<pool, conn>>
vars == <<boot, db, deps, held, ready, faults>>

Booting == {"connect", "table", "create", "claim", "script", "commit", "nats", "streams"}
Route == {"auth", "logout", "tenant", "submit", "key", "readyz"}

\* The type invariant.
TypeOK ==
  /\ pc \in [Process -> Booting \cup {"down", "serve", "done"}]
  /\ at \in [Process -> Nat] /\ \A p \in Process : at[p] \in 1..Versions[p] + 1
  /\ tx \in [Process -> Nat \cup {None}]
  /\ table \in BOOLEAN /\ marks \subseteq Nat /\ schema \in Seq(Nat)
  /\ pg \in BOOLEAN /\ js \in BOOLEAN /\ stream \in BOOLEAN
  /\ pool \subseteq Process /\ conn \subseteq Process /\ ready \subseteq Gateway
  /\ faults \in 0..MaxFaults

Init ==
  /\ pc = [p \in Process |-> "down"] /\ at = [p \in Process |-> 1]
  /\ tx = [p \in Process |-> None]
  /\ table = FALSE /\ marks = {} /\ schema = <<>>
  /\ pg \in BOOLEAN /\ js \in BOOLEAN /\ stream = FALSE
  /\ pool = {} /\ conn = {} /\ ready = {} /\ faults = 0

Fault == faults < MaxFaults /\ faults' = faults + 1
Goto(p, step) == pc' = [pc EXCEPT ![p] = step]

\* The process ends: Postgres rolls its open transaction back.
Exit(p) ==
  /\ Goto(p, "down") /\ tx' = [tx EXCEPT ![p] = None]
  /\ pool' = pool \ {p} /\ conn' = conn \ {p} /\ ready' = ready \ {p}
  /\ UNCHANGED <<at, db, deps>>

-----------------------------------------------------------------------------
\* main

Start(p) ==
  /\ pc[p] = "down" /\ Goto(p, "connect") /\ at' = [at EXCEPT ![p] = 1]
  /\ UNCHANGED <<tx, db, deps, held, ready, faults>>

\* store.Connect pings.  Without Postgres a gateway goes on, the others exit.
Connect(p) ==
  /\ pc[p] = "connect"
  /\ \/ /\ pg /\ Goto(p, "table") /\ pool' = pool \cup {p}
        /\ UNCHANGED <<at, tx, db, deps, conn, ready>>
     \/ /\ ~pg /\ p \in Gateway /\ Goto(p, "nats")
        /\ UNCHANGED <<at, tx, db, deps, held, ready>>
     \/ ~pg /\ p \notin Gateway /\ Exit(p)
  /\ UNCHANGED faults

\* rnats.Connect.  A gateway goes on without a client.
ConnectNATS(p) ==
  /\ pc[p] = "nats"
  /\ \/ /\ js /\ Goto(p, "streams") /\ conn' = conn \cup {p}
        /\ UNCHANGED <<at, tx, db, deps, pool, ready>>
     \/ /\ ~js /\ p \in Gateway /\ Goto(p, "serve")
        /\ UNCHANGED <<at, tx, db, deps, held, ready>>
     \/ ~js /\ p \notin Gateway /\ Exit(p)
  /\ UNCHANGED faults

\* EnsureStreams fails: NATS has gone, or the start-up context, which Connect and
\* Migrate have used as well, has run out.  A gateway keeps its client and serves
\* ("submits may 502"), a dispatcher exits.  (The mutant treats both alike.)
StreamsFail_Mutant(p) ==
  /\ IF js /\ p \in conn THEN Fault ELSE UNCHANGED faults
  /\ Goto(p, "serve") /\ UNCHANGED <<at, tx, db, deps, held, ready>>
StreamsFail(p) ==
  /\ IF js /\ p \in conn THEN Fault ELSE UNCHANGED faults
  /\ \/ /\ p \in Gateway /\ Goto(p, "serve")
        /\ UNCHANGED <<at, tx, db, deps, held, ready>>
     \/ p \notin Gateway /\ Exit(p)

EnsureStreams(p) ==
  /\ pc[p] = "streams"
  /\ \/ /\ js /\ p \in conn /\ stream' = TRUE /\ Goto(p, "serve")
        /\ UNCHANGED <<at, tx, db, pg, js, held, ready, faults>>
     \/ StreamsFail(p)

\* The client reconnects to NATS, up to the limit of its default options; then it
\* is closed for good, and every call through it fails.
ClientGivesUp(p) ==
  /\ ~js /\ p \in conn /\ conn' = conn \ {p}
  /\ UNCHANGED <<boot, db, deps, pool, ready, faults>>

-----------------------------------------------------------------------------
\* store.Migrate

\* CREATE TABLE IF NOT EXISTS looks for the table, then creates it; the
\* process that loses a race between the two gets a unique violation.
FindTable_Mutant(p) ==
  /\ pc[p] = "table" /\ pg /\ Goto(p, "create")
  /\ UNCHANGED <<at, tx, db, deps, held, ready, faults>>
FindTable(p) ==
  /\ pc[p] = "table" /\ pg
  /\ Goto(p, IF table THEN "claim" ELSE "create")
  /\ UNCHANGED <<at, tx, db, deps, held, ready, faults>>

CreateTable(p) ==
  /\ pc[p] = "create" /\ pg
  /\ \/ /\ ~table /\ table' = TRUE /\ Goto(p, "claim")
        /\ UNCHANGED <<at, tx, marks, schema, deps, held, ready>>
     \/ table /\ Exit(p)
  /\ UNCHANGED faults

\* applyMigration for the next version: INSERT ... ON CONFLICT DO NOTHING waits
\* for the open transaction of another process with the same version, skips a
\* version that is committed, and claims one that is not.
\* (The mutant takes an uncommitted claim for a committed one.)
Claim_Mutant(p) ==
  LET v == at[p] IN
  /\ pc[p] = "claim" /\ v <= Versions[p] /\ pg
  /\ \/ /\ v \in marks \cup {tx[q] : q \in Process} /\ at' = [at EXCEPT ![p] = v + 1]
        /\ UNCHANGED <<pc, tx>>
     \/ /\ v \notin marks \cup {tx[q] : q \in Process} /\ tx' = [tx EXCEPT ![p] = v]
        /\ Goto(p, "script") /\ UNCHANGED at
  /\ UNCHANGED <<db, deps, held, ready, faults>>
Claim(p) ==
  LET v == at[p] IN
  /\ pc[p] = "claim" /\ v <= Versions[p] /\ pg
  /\ \A q \in Process : tx[q] # v
  /\ \/ v \in marks /\ at' = [at EXCEPT ![p] = v + 1] /\ UNCHANGED <<pc, tx>>
     \/ /\ v \notin marks /\ tx' = [tx EXCEPT ![p] = v] /\ Goto(p, "script")
        /\ UNCHANGED at
  /\ UNCHANGED <<db, deps, held, ready, faults>>

\* The script runs inside the transaction; one that fails is a Crash.
RunScript(p) ==
  /\ pc[p] = "script" /\ pg /\ Goto(p, "commit")
  /\ UNCHANGED <<at, tx, db, deps, held, ready, faults>>

\* The claim and the effect of the script are committed together.
Committed(v) == marks' = marks \cup {v} /\ schema' = Append(schema, v) /\ UNCHANGED table

Commit(p) ==
  /\ pc[p] = "commit" /\ pg
  /\ Committed(tx[p])
  /\ tx' = [tx EXCEPT ![p] = None] /\ at' = [at EXCEPT ![p] = @ + 1] /\ Goto(p, "claim")
  /\ UNCHANGED <<deps, held, ready, faults>>

\* The commit is done and its reply lost: the process exits.
CommitLost_Mutant(p) ==
  /\ pc[p] = "commit" /\ pg /\ Fault
  /\ schema' = Append(schema, tx[p])
  /\ tx' = [tx EXCEPT ![p] = None] /\ Goto(p, "down")
  /\ pool' = pool \ {p} /\ conn' = conn \ {p}
  /\ UNCHANGED <<at, table, marks, deps, ready>>
CommitLost(p) ==
  /\ pc[p] = "commit" /\ pg /\ Fault
  /\ Committed(tx[p])
  /\ tx' = [tx EXCEPT ![p] = None] /\ Goto(p, "down")
  /\ pool' = pool \ {p} /\ conn' = conn \ {p}
  /\ UNCHANGED <<at, deps, ready>>

\* Migrate returns: a migrator is done, the others connect to NATS.
Migrated(p) ==
  /\ pc[p] = "claim" /\ at[p] > Versions[p]
  /\ Goto(p, IF p \in Migrator THEN "done" ELSE "nats")
  /\ UNCHANGED <<at, tx, db, deps, held, ready, faults>>

-----------------------------------------------------------------------------
\* A gateway answers requests with the handlers it was built with.

\* readiness: a client that is missing counts as one that does not answer.
Ready_Mutant(g) == (g \in pool => pg) /\ (g \in conn => js)
Ready(g) == g \in pool /\ pg /\ g \in conn /\ js

\* PublishSubmit needs the stream; without a client it is errPublisher's, which
\* only fails.
Publish(g) == IF g \in conn /\ js /\ stream THEN "served" ELSE "502"

\* NewRouter: without a pool the auth routes are 501 stubs and the tenant
\* routes, for a token that names the tenant, report 503.  An API key cannot
\* be looked up and counts as unknown.  Logout discards the store's error.
Answer(g, route) ==
  CASE route = "readyz"              -> IF Ready(g) THEN "served" ELSE "503"
    [] route = "key"                 -> IF g \in pool /\ pg THEN "served" ELSE "401"
    [] route \in {"auth", "logout"} /\ g \notin pool -> "501"
    [] route \in {"tenant", "submit"} /\ g \notin pool -> "503"
    [] route \in {"auth", "tenant", "submit"} /\ g \in pool /\ ~pg -> "500"
    [] OTHER -> IF route = "submit" THEN Publish(g) ELSE "served"

\* No request changes what a later one finds; a good answer of /readyz is noted.
Probe(g) ==
  /\ pc[g] = "serve"
  /\ ready' = IF Answer(g, "readyz") = "served" THEN ready \cup {g} ELSE ready
  /\ UNCHANGED <<boot, db, deps, held, faults>>

-----------------------------------------------------------------------------
\* Faults

\* A process is killed, told to stop, or a call of its start-up fails or
\* outlasts the start-up context (log.Fatal).
Crash(p) == pc[p] \notin {"down", "done"} /\ Fault /\ Exit(p)

\* Postgres restarts: open transactions are gone, and the start-ups that were
\* inside Migrate exit.
PostgresStops ==
  LET lost == {p \in Process : pc[p] \in Booting \ {"connect", "nats", "streams"}} IN
  /\ pg /\ Fault /\ pg' = FALSE
  /\ tx' = [p \in Process |-> None]
  /\ pc' = [p \in Process |-> IF p \in lost THEN "down" ELSE pc[p]]
  /\ pool' = pool \ lost
  /\ UNCHANGED <<at, db, js, stream, conn, ready>>
NATSStops == js /\ Fault /\ js' = FALSE /\ UNCHANGED <<boot, db, pg, stream, held, ready>>
PostgresStarts == ~pg /\ pg' = TRUE /\ UNCHANGED <<boot, db, js, stream, held, ready, faults>>
NATSStarts == ~js /\ js' = TRUE /\ UNCHANGED <<boot, db, pg, stream, held, ready, faults>>

Proceed(p) ==
  \/ Connect(p) \/ FindTable(p) \/ CreateTable(p) \/ Claim(p) \/ RunScript(p)
  \/ Commit(p) \/ Migrated(p) \/ ConnectNATS(p) \/ EnsureStreams(p)
Next ==
  \/ \E p \in Process : Start(p) \/ Proceed(p) \/ CommitLost(p) \/ ClientGivesUp(p) \/ Crash(p)
  \/ \E g \in Gateway : Probe(g)
  \/ PostgresStops \/ PostgresStarts \/ NATSStops \/ NATSStarts

Spec == Init /\ [][Next]_vars

\* What compose restarts.
Supervised == Gateway \cup Dispatcher

\* Gateways and dispatchers that exit are restarted, a start-up goes on while it
\* can, and the dependencies come back.  Nobody has to run a migrator.
FairSpec ==
  /\ Spec /\ \A p \in Supervised : WF_vars(Start(p))
  /\ \A p \in Process : WF_vars(Proceed(p))
  /\ WF_vars(PostgresStarts) /\ WF_vars(NATSStarts)

-----------------------------------------------------------------------------
\* Every script is applied exactly once and in order, and schema_migrations
\* names exactly the applied ones, whichever processes race, crash or lose the
\* reply of a commit.
AppliedInOrder ==
  /\ schema = [i \in 1..Len(schema) |-> i]
  /\ marks = 1..Len(schema)

\* A process that goes on with a pool has the schema its binary was built for:
\* "a concurrent replica that loses the race simply skips" (migrate.go:17), but
\* not before the winner has committed.
ServesMigrated ==
  \A p \in pool : pc[p] \in {"nats", "streams", "serve", "done"} => Versions[p] <= Len(schema)

\* What /readyz promises (readiness in gateway/main.go).  A gateway that has ever
\* reported ready serves every route but submits whenever Postgres answers, with
\* its whole schema, until it exits: one that came up without Postgres, and keeps
\* its stubs, is never ready.  Submits need more: one that would report ready now
\* serves them as well once a dispatcher is up, and may answer 502 before, since
\* the probe looks at the connection and not at the stream.
ReadyIsWired ==
  \A g \in Gateway :
    /\ g \in ready =>
         /\ pg => \A route \in Route \ {"submit", "readyz"} : Answer(g, route) = "served"
         /\ Versions[g] <= Len(schema)
    /\ Ready(g) /\ (\E d \in Dispatcher : pc[d] = "serve") => Answer(g, "submit") = "served"

\* Whatever crashed or raced, every gateway and dispatcher ends up serving and
\* stays so: no start-up waits forever for another's claim, that of a migrator
\* included, and none is caught in a loop of failing migrations.
EventuallyUp == \A p \in Supervised : <>[](pc[p] = "serve")
=============================================================================
