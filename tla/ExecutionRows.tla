--------------------------- MODULE ExecutionRows ---------------------------
(***************************************************************************)
(* The status column of the executions table and the guarded statements    *)
(* that change it (internal/store/queries/executions.sql).  A table is a   *)
(* function r from execution ids to statuses; "none" is an absent row.     *)
(* Every UPDATE repeats the status it expects in its WHERE clause, so a    *)
(* statement that matches no row returns the table it was given.           *)
(***************************************************************************)

Terminal == {"succeeded", "failed", "timeout"}
Status == {"none", "queued", "running"} \cup Terminal

CreateExecution(r, e) == [r EXCEPT ![e] = "queued"]

\* The claim guard of MarkExecutionRunning.  (Claimable_Mutant would let a
\* redelivery take over a running row.)
Claimable_Mutant(s) == s \in {"queued", "running"}
Claimable(s) == s = "queued"

MarkExecutionRunning(r, e) ==
  [r EXCEPT ![e] = IF Claimable(r[e]) THEN "running" ELSE r[e]]

\* Without its guard the requeue would revive a row the reaper has failed.
RequeueExecution_Mutant(r, e) == [r EXCEPT ![e] = "queued"]
RequeueExecution(r, e) ==
  [r EXCEPT ![e] = IF r[e] = "running" THEN "queued" ELSE r[e]]

FinishExecution(r, e, status) ==
  [r EXCEPT ![e] = IF r[e] = "running" THEN status ELSE r[e]]

SetExecutionFailed(r, e) ==
  [r EXCEPT ![e] = IF r[e] = "queued" THEN "failed" ELSE r[e]]

MarkStaleQueuedFailed(r, e) ==
  [r EXCEPT ![e] = IF r[e] = "queued" THEN "failed" ELSE r[e]]

\* One statement over the whole table: stale is the set of rows whose
\* updated_at is older than StaleAfter.
ReapStaleExecutions(r, stale) ==
  [e \in DOMAIN r |-> IF r[e] = "running" /\ e \in stale THEN "failed" ELSE r[e]]

\* The rows the stale-queued sweep selects: old is the set of rows whose
\* created_at is older than StaleQueuedAfter.
\* (Without the sweep for queued rows there would be nothing to select.)
ListStaleQueuedExecutions_Mutant(r, old) == {}
ListStaleQueuedExecutions(r, old) == {e \in DOMAIN r : r[e] = "queued" /\ e \in old}
=============================================================================
