--------------------------- MODULE DispatchClaims ---------------------------
(***************************************************************************)
(* What comments and documents of the repository say of the pipeline and   *)
(* the code does not do.  Each is refuted by a run of its own.             *)
(***************************************************************************)
EXTENDS Dispatch

\* A submit whose publish failed is failed "loudly instead of leaving a
\* ghost-queued execution" (internal/http/handlers/executions.go:211).
NoGhostQueued == \A e \in Exec : gw[e] = "502" => row[e] # "queued"

\* "When an execution reaches a terminal state ..., the dispatcher POSTs a
\* signed JSON event" (docs/webhooks.md:3).
WebhookOnEveryEnd == \A e \in Webhook : row[e] \in Terminal ~> events[e] # {}
=============================================================================
