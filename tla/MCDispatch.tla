----------------------------- MODULE MCDispatch -----------------------------
EXTENDS DispatchClaims, TLC

\* One worker per dispatcher, named after its process.
OwnHost == [w \in Workers |-> w]

\* All the workers in one dispatcher.
SameHost == [w \in Workers |-> CHOOSE d \in Dispatcher : TRUE]

Symmetry == Permutations(Workers) \cup Permutations(Exec)
=============================================================================
