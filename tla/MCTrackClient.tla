----------------------------- MODULE MCTrackClient ----------------------------
(* One model of TrackClient for TLC. *)
EXTENDS TrackClient, TLC

Symmetry == Permutations(Tracks)
=============================================================================
