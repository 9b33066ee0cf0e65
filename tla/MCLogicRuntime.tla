--------------------------- MODULE MCLogicRuntime ---------------------------
(* Instances of LogicRuntime for TLC. *)
EXTENDS LogicRuntime, TLC

\* Calls are interchangeable: nothing orders or names them.
CallSymmetry == Permutations(Calls)
=============================================================================
