----------------------------- MODULE MCStartup -----------------------------
(* A rolling upgrade: the dispatchers embed one migration less than the rest. *)
EXTENDS Startup, TLC

Rolling == [p \in Process |-> IF p \in Dispatcher THEN 1 ELSE 2]
=============================================================================
