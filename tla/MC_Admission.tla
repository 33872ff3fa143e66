---------------------------- MODULE MC_Admission ----------------------------
(* Instantiation of Admission for TLC: three concurrent calls, an owner   *)
(* with an enabled record holding one credit, an owner whose only     *)
(* record is disabled, and three bodies: one that is admitted, one        *)
(* without FolderConfig, one validate.Struct refuses.  The second owner   *)
(* may not convert to the second body's formats.                          *)
EXTENDS Admission, TLC

CONSTANTS r1, r2, r3, o1, o2, b1, b2, b3

MC_Requests == {r1, r2, r3}
MC_Owners == {o1, o2}
MC_Bodies == {b1, b2, b3}
MC_Record == (o1 :> "enabled") @@ (o2 :> "disabled")
MC_InitialAvailable == (o1 :> 1) @@ (o2 :> 0)
MC_FormatAllowed == (MC_Owners \X MC_Bodies) \ {<<o2, b2>>}
MC_ValidBodies == {b1, b2}
MC_FolderBodies == {b1, b3}

MC_Symmetry == Permutations(MC_Requests)
=============================================================================
