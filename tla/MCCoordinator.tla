--------------------------- MODULE MCCoordinator ---------------------------
(***************************************************************************)
(* Instances of Coordinator for TLC.  Bounds: the constants below; a slot  *)
(* id that retention pruned may be issued again, so windows slide further  *)
(* than the number of ids.                                                 *)
(***************************************************************************)
EXTENDS WindowDocument

\* Slot ids are interchangeable.
SlotSymmetry == Permutations(SlotIds)

=============================================================================
