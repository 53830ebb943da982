-------------------------- MODULE MCCycleCollector --------------------------
(* Addresses are interchangeable: nothing orders or names them. *)
EXTENDS CycleCollector, TLC

Addresses == Permutations(Obj)
=============================================================================
