------------------------------ MODULE MCLaneSum ------------------------------
(***************************************************************************)
(* A byte of four values, so int32_t is -128 .. 127; 1.0 is 8; gradients   *)
(* are twelfths.  Three workers with gradients up to 63/12 just pass the   *)
(* bound check; two with 96/12 reach 128 exactly and just fail it; 200/12  *)
(* is itself out of range.                                                 *)
(***************************************************************************)
EXTENDS LaneSum

MCGradients == {-96, -63, -19, -1, 1, 20, 63, 96, 200}
=============================================================================
