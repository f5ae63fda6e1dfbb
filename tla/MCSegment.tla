------------------------------ MODULE MCSegment ------------------------------
(* Small instances of SegmentClient: the steps of the two tracks' times.   *)
EXTENDS SegmentClient

MCSmooth == {0, 1, 2}
MCBack == {-1, 0, 1, 2}

(* The run is one of two tracks that keep together: what SegmentClient's   *)
(* proofs assume of the steps holds here.                                  *)
ASSUME MCGentle == Gentle(2)
=============================================================================
