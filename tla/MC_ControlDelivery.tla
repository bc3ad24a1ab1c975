------------------------- MODULE MC_ControlDelivery -------------------------
(* Small instances of ControlDelivery. *)
EXTENDS ControlDelivery, TLC

ContentSymmetry == Permutations(Contents)
=============================================================================
