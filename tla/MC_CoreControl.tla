--------------------------- MODULE MC_CoreControl ---------------------------
(***************************************************************************)
(* Instances of CoreControl for TLC.                                       *)
(***************************************************************************)
EXTENDS CoreControl

BSP == {"bsp"}
=============================================================================
