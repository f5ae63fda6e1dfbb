---------------------------- MODULE MCVideoEncoder ----------------------------
(* Models of VideoEncoder for TLC. *)
EXTENDS VideoEncoder, TLC

Symmetry == Permutations(Tracks)
=============================================================================
