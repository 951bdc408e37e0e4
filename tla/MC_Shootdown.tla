---------------------------- MODULE MC_Shootdown ----------------------------
(***************************************************************************)
(* Instances of Shootdown for TLC.  Pages are only compared; the cores are *)
(* numbered and visited in that order.                                     *)
(***************************************************************************)
EXTENDS Shootdown, TLC

PageSymmetry == Permutations(Pages)
=============================================================================
