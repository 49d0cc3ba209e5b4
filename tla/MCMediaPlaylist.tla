-------------------------- MODULE MCMediaPlaylist --------------------------
(***************************************************************************)
(* Instances of MediaPlaylist for TLC, bounded by the constants below.     *)
(***************************************************************************)
EXTENDS MediaPlaylist

\* Slot ids are interchangeable, and so are tracks: no constant names one.
TrackSlotSymmetry == Permutations(SlotIds) \cup Permutations(Tracks)

=============================================================================
