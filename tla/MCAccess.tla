------------------------------ MODULE MCAccess ------------------------------
(* Requests, keys and tenants are interchangeable. *)
EXTENDS AccessClaims, TLC

Symmetry == Permutations(Req) \cup Permutations(Key) \cup Permutations(Tenant)
=============================================================================
