----------------------------- MODULE MCTrackList -----------------------------
(* TLC instance of TrackListSpec. *)
EXTENDS TrackListSpec, TLC

MCSym == Permutations(Node)
=============================================================================
