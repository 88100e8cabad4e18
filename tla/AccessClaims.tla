---------------------------- MODULE AccessClaims ----------------------------
(***************************************************************************)
(* What the repository's README says of tenancy and the code does not do.  *)
(***************************************************************************)
EXTENDS Access

\* "users <-> tenants many-to-many via `memberships`, re-checked per request"
\* (README.md:146-147): whoever is served for a tenant was a member of it at some
\* moment since the request was sent, whichever credential came with it.
MembershipRechecked == \A r \in Req : Through(r) => r \in was
=============================================================================
