-------------------------- MODULE VideoTrack_proofs ---------------------------
(* What every operation of VideoTrack preserves, for TrackClient and       *)
(* VideoEncoder, which are built from these operations.                    *)
EXTENDS VideoTrack, TLAPS

(* The initial state is well typed.                                        *)
LEMMA TrackInitType == ASSUME TrackInit PROVE TrackTypeOK
BY TrackAssumption DEF TrackInit, TrackTypeOK

(* Capturing a frame keeps the types (the browser).                        *)
LEMMA CaptureType ==
  ASSUME TrackTypeOK, NEW t \in Tracks, Capture(t)
  PROVE  TrackTypeOK'
<1>1. PICK n \in clock[t] + 1 .. MaxTs :
        /\ clock' = [clock EXCEPT ![t] = n]
        /\ arrival' = [arrival EXCEPT ![t] = [track |-> t, ts |-> n]]
        /\ lent' = [lent EXCEPT ![t] = @ \cup {[track |-> t, ts |-> n]}]
  BY DEF Capture
<1>2. clock[t] \in 0 .. MaxTs /\ MaxTs \in Nat
  BY TrackAssumption DEF TrackTypeOK
<1>3. n \in 1 .. MaxTs
  BY <1>1, <1>2
<1>4. [track |-> t, ts |-> n] \in Frame
  BY <1>3 DEF Frame
<1>5. clock' \in [Tracks -> 0 .. MaxTs]
  BY <1>1, <1>3, <1>2 DEF TrackTypeOK
<1>6. arrival' \in [Tracks -> Frame \cup {NoFrame}]
  BY <1>1, <1>4 DEF TrackTypeOK
<1>7. lent' \in [Tracks -> SUBSET Frame]
  BY <1>1, <1>4 DEF TrackTypeOK
<1> QED
  BY <1>5, <1>6, <1>7 DEF Capture, TrackTypeOK

(* So do the callbacks of a track (video_track.cpp:41-85).                 *)
LEMMA TrackCallbackType ==
  ASSUME TrackTypeOK, NEW t \in Tracks, TrackCallback(t)
  PROVE  TrackTypeOK'
<1>1. CASE ConfigureDone(t)
  BY <1>1 DEF ConfigureDone, TrackTypeOK
<1>2. CASE ConfigureFailed(t)
  BY <1>2 DEF ConfigureFailed, TrackTypeOK
<1>3. CASE TrackFramesLoop(t)
  <2>1. lent' \in [Tracks -> SUBSET Frame]
    BY <1>3 DEF TrackFramesLoop, Recycled, TrackTypeOK
  <2>2. current' \in [Tracks -> Frame \cup {NoFrame}]
    BY <1>3 DEF TrackFramesLoop, TrackTypeOK
  <2>3. fetching' \in [Tracks -> BOOLEAN]
    BY <1>3 DEF TrackFramesLoop, TrackTypeOK
  <2> QED
    BY <1>3, <2>1, <2>2, <2>3 DEF TrackFramesLoop, TrackTypeOK
<1>4. CASE TrackFramesAborted(t)
  BY <1>4 DEF TrackFramesAborted, TrackTypeOK
<1>5. CASE TrackFramesFailed(t)
  <2>1. lent' \in [Tracks -> SUBSET Frame]
    BY <1>5 DEF TrackFramesFailed, Recycled, TrackTypeOK
  <2> QED
    BY <1>5, <2>1 DEF TrackFramesFailed, TrackTypeOK
<1> QED
  BY <1>1, <1>2, <1>3, <1>4, <1>5 DEF TrackCallback

(* And the operations its client calls (video_track.cpp:21-39, 58-60,      *)
(* 87-94).                                                                 *)
LEMMA StartTrackingType ==
  ASSUME TrackTypeOK, NEW S, StartTracking(S)
  PROVE  TrackTypeOK'
BY DEF StartTracking, TrackTypeOK

(* The statements of StopTracking keep the types.                          *)
LEMMA StopTrackingType ==
  ASSUME TrackTypeOK, NEW t \in Tracks, StopTracking(t)
  PROVE  TrackTypeOK'
<1>1. CASE ClearTracking(t)
  BY <1>1 DEF ClearTracking, TrackTypeOK
<1>2. CASE RecycleCurrent(t)
  <2>1. lent' \in [Tracks -> SUBSET Frame]
    BY <1>2 DEF RecycleCurrent, Recycled, TrackTypeOK
  <2> QED
    BY <1>2, <2>1 DEF RecycleCurrent, TrackTypeOK
<1>3. CASE CloseTrack(t)
  BY <1>3 DEF CloseTrack, TrackTypeOK
<1> QED
  BY <1>1, <1>2, <1>3 DEF StopTracking

(* A frame taken keeps them.                                                *)
LEMMA TakeFrameType ==
  ASSUME TrackTypeOK, NEW t, TakeFrame(t)
  PROVE  TrackTypeOK'
BY DEF TakeFrame, TrackTypeOK

(* A frame given back keeps them.                                           *)
LEMMA RecycleFrameType ==
  ASSUME TrackTypeOK, NEW t, NEW f, RecycleFrame(t, f)
  PROVE  TrackTypeOK'
<1>1. lent' \in [Tracks -> SUBSET Frame]
  BY DEF RecycleFrame, Recycled, TrackTypeOK
<1> QED
  BY <1>1 DEF RecycleFrame, TrackTypeOK
=============================================================================
