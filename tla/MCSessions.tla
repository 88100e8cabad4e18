----------------------------- MODULE MCSessions -----------------------------
(* Small instances of Sessions: token ids and requests are interchangeable. *)
EXTENDS Sessions, TLC

Symmetry == Permutations(User) \cup Permutations(Jti) \cup Permutations(Req)
=============================================================================
