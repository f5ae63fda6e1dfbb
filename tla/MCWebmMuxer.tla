----------------------------- MODULE MCWebmMuxer -----------------------------
(* Small instances of WebmMuxer: the steps of the caller's time.           *)
EXTENDS WebmMuxer

MCSteps == {-1, 1, 4, 11}
=============================================================================
