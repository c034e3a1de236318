------------------------------ MODULE MCCrypt ------------------------------
(***************************************************************************)
(* The instance of Crypt that TLC checks: two keys in two slots.           *)
(***************************************************************************)
EXTENDS Crypt, TLC

Symmetry == Permutations(Obj)
=============================================================================
