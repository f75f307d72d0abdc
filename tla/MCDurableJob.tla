---------------------------- MODULE MCDurableJob ----------------------------
(***************************************************************************)
(* Instances of DurableJob for TLC.  Which deployment a slot runs is not   *)
(* fixed: a restart may change it (Admit).  So listener slots are          *)
(* interchangeable, and so are runner slots, and the safety runs quotient  *)
(* by their permutations.                                                  *)
(***************************************************************************)
EXTENDS DurableJobRefinement, TLC

SlotSymmetry == Permutations(Consumers) \cup Permutations(Publishers)
=============================================================================
