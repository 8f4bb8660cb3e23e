---------------------------- MODULE MCPosesPanel ----------------------------
(***************************************************************************)
(* Values for model-checking PosesPanel.  No definition names a slot or a  *)
(* pose, so slots and poses are interchangeable.                           *)
(***************************************************************************)
EXTENDS PosesPanel, TLC

Symmetry == Permutations(Slots) \cup Permutations(Poses)
=============================================================================
