-------------------------- MODULE TrackClient_proofs --------------------------
(***************************************************************************)
(* Proofs about TrackClient, for every number of tracks and buffers.       *)
(*                                                                         *)
(* LentIsInHand is not inductive alone: a frame must also be younger than  *)
(* every frame in hand when it is captured, and a loop that is waiting for *)
(* a frame must be one that will keep it.                                  *)
(***************************************************************************)
EXTENDS TrackClient, VideoTrack_proofs

(* Frames in hand come from their own track and its past.                  *)
Past ==
  /\ \A t \in Tracks :
       /\ current[t] # NoFrame => current[t].track = t /\ current[t].ts <= clock[t]
       /\ arrival[t] # NoFrame => arrival[t].track = t /\ arrival[t].ts <= clock[t]
  /\ \A f \in taken : f.ts <= clock[f.track]

(* A frame arrives only at a loop that waits for it, and the loop of a     *)
(* track that is not stopped waits only while it is tracking.              *)
Awaited ==
  \A t \in Tracks :
    /\ arrival[t] # NoFrame => fetching[t]
    /\ fetching[t] /\ ~closed[t] /\ halt[t] = "no" => tracking[t]

IInv == TypeOK /\ LentIsInHand /\ OneHolder /\ Past /\ Awaited

(* The inductive invariant holds initially.                                *)
LEMMA InitInv == ASSUME Init PROVE IInv
<1>1. TypeOK
  BY TrackInitType DEF Init, TypeOK
<1>2. LentIsInHand /\ OneHolder /\ Past /\ Awaited
  BY DEF Init, TrackInit, LentIsInHand, InHand, OneHolder, Past, Awaited
<1> QED
  BY <1>1, <1>2 DEF IInv

(* Every step of the client, of a track or of the browser keeps the types. *)
LEMMA NextType == ASSUME TypeOK, [Next]_clientVars PROVE TypeOK'
<1>1. CASE UNCHANGED clientVars
  BY <1>1 DEF TypeOK, TrackTypeOK, clientVars, trackVars
<1>2. CASE \E S \in SUBSET Tracks : Start(S)
  BY <1>2, StartTrackingType DEF TypeOK, Start
<1>3. CASE \E t \in Tracks : Take(t)
  <2>1. PICK t \in Tracks : Take(t)
    BY <1>3
  <2>2. current[t] \in Frame
    BY <2>1 DEF TypeOK, TrackTypeOK, Take
  <2> QED
    BY <2>1, <2>2, TakeFrameType DEF TypeOK, Take
<1>4. CASE \E f \in taken : GiveBack(f)
  BY <1>4, RecycleFrameType DEF TypeOK, GiveBack
<1>5. CASE \E t \in Tracks : (Capture(t) \/ TrackCallback(t)) /\ UNCHANGED taken
  BY <1>5, CaptureType, TrackCallbackType DEF TypeOK
<1>6. CASE \E t \in Tracks : Stop(t)
  BY <1>6, StopTrackingType DEF TypeOK, Stop
<1> QED
  BY <1>1, <1>2, <1>3, <1>4, <1>5, <1>6 DEF Next

(* A captured frame is new: it is in nobody's hand.                        *)
LEMMA CaptureInv ==
  ASSUME IInv, NEW t \in Tracks, Capture(t), UNCHANGED taken
  PROVE  LentIsInHand' /\ OneHolder' /\ Past' /\ Awaited'
<1>1. PICK n \in clock[t] + 1 .. MaxTs :
        /\ clock' = [clock EXCEPT ![t] = n]
        /\ arrival' = [arrival EXCEPT ![t] = [track |-> t, ts |-> n]]
        /\ lent' = [lent EXCEPT ![t] = @ \cup {[track |-> t, ts |-> n]}]
  BY DEF Capture
<1> DEFINE f == [track |-> t, ts |-> n]
<1>2. clock[t] \in Nat /\ MaxTs \in Nat /\ n \in Nat /\ clock[t] < n
  BY <1>1, TrackAssumption DEF IInv, TypeOK, TrackTypeOK
<1>3. f \in Frame /\ f # NoFrame
  BY <1>1, <1>2, TrackAssumption DEF Frame
<1>4. /\ fetching[t] /\ arrival[t] = NoFrame /\ ~closed[t]
      /\ UNCHANGED <<tracking, current, configuring, fetching, halt, closed>>
  BY DEF Capture
<1>5. f \notin taken /\ \A s \in Tracks : f # current[s] /\ f # arrival[s]
  <2>1. f \notin taken
    BY <1>2 DEF IInv, Past
  <2>2. ASSUME NEW s \in Tracks PROVE f # current[s] /\ f # arrival[s]
    BY <1>2, <1>3 DEF IInv, Past
  <2> QED
    BY <2>1, <2>2
<1>6. LentIsInHand'
  <2> SUFFICES ASSUME NEW s \in Tracks, ~closed'[s]
               PROVE  /\ InHand(s)' \subseteq lent'[s]
                      /\ halt'[s] = "no" => lent'[s] = InHand(s)'
    BY DEF LentIsInHand
  <2>1. InHand(s) \subseteq lent[s] /\ (halt[s] = "no" => lent[s] = InHand(s))
    BY <1>4 DEF IInv, LentIsInHand
  <2>2. CASE s = t
    <3>1. lent'[s] = lent[s] \cup {f} /\ arrival'[s] = f
      BY <2>2, <1>1 DEF IInv, TypeOK, TrackTypeOK
    <3> QED
      BY <3>1, <2>1, <2>2, <1>3, <1>4 DEF InHand
  <2>3. CASE s # t
    BY <2>3, <2>1, <1>1, <1>4 DEF InHand, IInv, TypeOK, TrackTypeOK
  <2> QED
    BY <2>2, <2>3
<1>7. OneHolder'
  BY <1>1, <1>3, <1>4, <1>5 DEF OneHolder, IInv, TypeOK, TrackTypeOK
<1>8. Past'
  <2>1. \A s \in Tracks : clock[s] <= clock'[s]
    BY <1>1, <1>2 DEF IInv, TypeOK, TrackTypeOK
  <2>2. \A s \in Tracks : clock[s] \in Nat /\ clock'[s] \in Nat
    BY <1>1, <1>2 DEF IInv, TypeOK, TrackTypeOK
  <2>3. \A g \in Frame : g.ts \in Nat /\ g.track \in Tracks
    BY DEF Frame
  <2>4. ASSUME NEW g \in taken PROVE g.ts <= clock'[g.track]
    BY <2>1, <2>2, <2>3 DEF IInv, TypeOK, Past
  <2>5. ASSUME NEW s \in Tracks, current'[s] # NoFrame
        PROVE  current'[s].track = s /\ current'[s].ts <= clock'[s]
    <3>1. /\ current[s] \in Frame /\ current'[s] = current[s]
          /\ current[s].track = s /\ current[s].ts <= clock[s]
      BY <2>5, <1>4 DEF IInv, TypeOK, TrackTypeOK, Past
    <3>2. current[s].ts \in Nat
      BY <3>1, <2>3
    <3> QED
      BY <3>1, <3>2, <2>1, <2>2
  <2>6. ASSUME NEW s \in Tracks, arrival'[s] # NoFrame
        PROVE  arrival'[s].track = s /\ arrival'[s].ts <= clock'[s]
    <3>1. CASE s = t
      BY <3>1, <1>1, <1>2 DEF IInv, TypeOK, TrackTypeOK
    <3>2. CASE s # t
      BY <3>2, <2>6, <1>1, <2>1, <2>2, <2>3 DEF IInv, TypeOK, TrackTypeOK, Past
    <3> QED
      BY <3>1, <3>2
  <2> QED
    BY <2>4, <2>5, <2>6 DEF Past
<1>9. Awaited'
  BY <1>1, <1>4 DEF Awaited, IInv, TypeOK, TrackTypeOK
<1> QED
  BY <1>6, <1>7, <1>8, <1>9

(* A track's callbacks pass the arriving frame on and return the one they  *)
(* replace (video_track.cpp:62-85).                                        *)
LEMMA CallbackInv ==
  ASSUME IInv, NEW t \in Tracks, TrackCallback(t), UNCHANGED taken
  PROVE  LentIsInHand' /\ OneHolder' /\ Past' /\ Awaited'
<1> USE DEF IInv, TypeOK, TrackTypeOK
<1>0. NoFrame \notin Frame
  BY TrackAssumption
<1>1. CASE ConfigureDone(t)
  <2>1. LentIsInHand' /\ OneHolder' /\ Past'
    BY <1>1 DEF ConfigureDone, LentIsInHand, InHand, OneHolder, Past
  <2>2. Awaited'
    BY <1>1 DEF ConfigureDone, Awaited
  <2> QED
    BY <2>1, <2>2
<1>2. CASE ConfigureFailed(t)
  BY <1>2 DEF ConfigureFailed, LentIsInHand, InHand, OneHolder, Past, Awaited
<1>3. CASE TrackFramesLoop(t)
  <2>1. LentIsInHand'
    <3> SUFFICES ASSUME NEW s \in Tracks, ~closed'[s]
                 PROVE  /\ InHand(s)' \subseteq lent'[s]
                        /\ halt'[s] = "no" => lent'[s] = InHand(s)'
      BY DEF LentIsInHand
    <3>1. InHand(s) \subseteq lent[s] /\ ~closed[s]
          /\ (halt[s] = "no" => lent[s] = InHand(s))
      BY <1>3 DEF TrackFramesLoop, LentIsInHand
    <3>2. CASE s = t
      <4>1. halt[t] = "no" => tracking[t]
        BY <1>3, <3>1, <3>2 DEF TrackFramesLoop, Awaited
      <4>2. /\ lent'[t] = lent[t] \ {current[t]}
            /\ current'[t] = IF tracking[t] THEN arrival[t] ELSE NoFrame
            /\ arrival'[t] = NoFrame
        BY <1>3 DEF TrackFramesLoop, Recycled
      <4>3. current[t] \notin taken /\ current[t] # arrival[t]
        BY <1>0, <1>3 DEF OneHolder, TrackFramesLoop
      <4> QED
        BY <4>1, <4>2, <4>3, <3>1, <3>2, <1>3 DEF TrackFramesLoop, InHand
    <3>3. CASE s # t
      BY <3>3, <3>1, <1>3 DEF TrackFramesLoop, Recycled, InHand
    <3> QED
      BY <3>2, <3>3
  <2>2. OneHolder'
    BY <1>3, <1>0 DEF TrackFramesLoop, OneHolder
  <2>3. Past'
    BY <1>3 DEF TrackFramesLoop, Past
  <2>4. Awaited'
    BY <1>3 DEF TrackFramesLoop, Awaited
  <2> QED
    BY <2>1, <2>2, <2>3, <2>4
<1>4. CASE TrackFramesAborted(t)
  BY <1>4 DEF TrackFramesAborted, LentIsInHand, InHand, OneHolder, Past, Awaited
<1>5. CASE TrackFramesFailed(t)
  <2>1. LentIsInHand'
    <3> SUFFICES ASSUME NEW s \in Tracks, ~closed'[s]
                 PROVE  /\ InHand(s)' \subseteq lent'[s]
                        /\ halt'[s] = "no" => lent'[s] = InHand(s)'
      BY DEF LentIsInHand
    <3>1. InHand(s) \subseteq lent[s] /\ (halt[s] = "no" => lent[s] = InHand(s))
      BY <1>5 DEF TrackFramesFailed, LentIsInHand
    <3>2. CASE s = t
      <4>1. /\ lent'[t] = lent[t] \ {current[t]}
            /\ current'[t] = NoFrame
            /\ arrival'[t] = NoFrame /\ arrival[t] = NoFrame
        BY <1>5 DEF TrackFramesFailed, Recycled
      <4>2. current[t] # NoFrame => current[t] \notin taken
        BY DEF OneHolder
      <4>3. halt'[t] = halt[t] /\ UNCHANGED taken
        BY <1>5 DEF TrackFramesFailed
      <4>4. NoFrame \notin InHand(t)
        BY <1>0 DEF InHand
      <4> QED
        BY <4>1, <4>2, <4>3, <4>4, <3>1, <3>2, <1>0 DEF InHand
    <3>3. CASE s # t
      BY <3>3, <3>1, <1>5 DEF TrackFramesFailed, Recycled, InHand
    <3> QED
      BY <3>2, <3>3
  <2>2. OneHolder' /\ Past' /\ Awaited'
    BY <1>5 DEF TrackFramesFailed, OneHolder, Past, Awaited
  <2> QED
    BY <2>1, <2>2
<1> QED
  BY <1>1, <1>2, <1>3, <1>4, <1>5 DEF TrackCallback

(* Starting asks for nothing yet.                                          *)
LEMMA StartInv ==
  ASSUME IInv, NEW S \in SUBSET Tracks, Start(S)
  PROVE  LentIsInHand' /\ OneHolder' /\ Past' /\ Awaited'
BY DEF IInv, TypeOK, TrackTypeOK, Start, StartTracking, LentIsInHand, InHand,
       OneHolder, Past, Awaited

(* Stopping gives the current frame back and ends every loan of the track  *)
(* (video_track.cpp:87-94).                                                *)
LEMMA StopInv ==
  ASSUME IInv, NEW t \in Tracks, Stop(t)
  PROVE  LentIsInHand' /\ OneHolder' /\ Past' /\ Awaited'
<1> USE DEF IInv, TypeOK, TrackTypeOK
<1>1. CASE ClearTracking(t)
  <2>1. UNCHANGED <<current, arrival, closed, lent, clock, taken, fetching>>
    BY <1>1 DEF Stop, ClearTracking
  <2>2. \A s \in Tracks : halt'[s] = "no" => halt[s] = "no" /\ tracking'[s] = tracking[s]
    BY <1>1 DEF ClearTracking
  <2> QED
    BY <2>1, <2>2 DEF LentIsInHand, InHand, OneHolder, Past, Awaited
<1>2. CASE RecycleCurrent(t)
  <2>1. LentIsInHand'
    <3> SUFFICES ASSUME NEW s \in Tracks, ~closed'[s]
                 PROVE  /\ InHand(s)' \subseteq lent'[s]
                        /\ halt'[s] = "no" => lent'[s] = InHand(s)'
      BY DEF LentIsInHand
    <3>1. InHand(s) \subseteq lent[s] /\ (halt[s] = "no" => lent[s] = InHand(s))
      BY <1>2 DEF RecycleCurrent, LentIsInHand
    <3>2. CASE s = t
      <4>1. /\ lent'[t] = lent[t] \ {current[t]} /\ halt'[t] # "no"
            /\ current'[t] = NoFrame /\ UNCHANGED <<arrival, taken>>
        BY <1>2 DEF RecycleCurrent, Recycled, Stop
      <4>2. current[t] # NoFrame => current[t] \notin taken \cup {arrival[t]}
        BY DEF OneHolder
      <4> QED
        BY <4>1, <4>2, <3>1, <3>2, TrackAssumption DEF InHand
    <3>3. CASE s # t
      BY <3>3, <3>1, <1>2 DEF RecycleCurrent, Recycled, InHand, Stop
    <3> QED
      BY <3>2, <3>3
  <2>2. OneHolder' /\ Past' /\ Awaited'
    BY <1>2 DEF RecycleCurrent, OneHolder, Past, Awaited, Stop
  <2> QED
    BY <2>1, <2>2
<1>3. CASE CloseTrack(t)
  BY <1>3 DEF CloseTrack, LentIsInHand, InHand, OneHolder, Past, Awaited, Stop
<1> QED
  BY <1>1, <1>2, <1>3 DEF Stop, StopTracking

(* Taking a frame moves it from the loop to the client.                    *)
LEMMA TakeInv ==
  ASSUME IInv, NEW t \in Tracks, Take(t)
  PROVE  LentIsInHand' /\ OneHolder' /\ Past' /\ Awaited'
<1> USE DEF IInv, TypeOK, TrackTypeOK
<1>1. /\ current[t] # NoFrame
      /\ taken' = taken \cup {current[t]}
      /\ current' = [current EXCEPT ![t] = NoFrame]
      /\ UNCHANGED <<tracking, fetching, arrival, halt, closed, lent, clock>>
  BY DEF Take, TakeFrame
<1>2. current[t].track = t /\ current[t].ts <= clock[t]
  BY <1>1 DEF Past
<1>3. \A s \in Tracks : arrival[s] # NoFrame => arrival[s] # current[t]
  BY <1>1, <1>2 DEF Past, OneHolder
<1>4. \A s \in Tracks :
        s # t /\ current[s] # NoFrame => current[s] # current[t]
  BY <1>1, <1>2 DEF Past
<1>5. LentIsInHand'
  <2> SUFFICES ASSUME NEW s \in Tracks, ~closed'[s]
               PROVE  /\ InHand(s)' \subseteq lent'[s]
                      /\ halt'[s] = "no" => lent'[s] = InHand(s)'
    BY DEF LentIsInHand
  <2>1. InHand(s) \subseteq lent'[s] /\ (halt[s] = "no" => lent'[s] = InHand(s))
    BY <1>1 DEF LentIsInHand
  <2>2. CASE s = t
    BY <1>1, <1>2, <2>1, <2>2 DEF InHand
  <2>3. CASE s # t
    BY <1>1, <1>2, <2>1, <2>3 DEF InHand
  <2> QED
    BY <2>2, <2>3
<1>6. OneHolder'
  BY <1>1, <1>3, <1>4 DEF OneHolder
<1>7. Past' /\ Awaited'
  BY <1>1, <1>2 DEF Past, Awaited
<1> QED
  BY <1>5, <1>6, <1>7

(* Giving it back ends the loan.                                           *)
LEMMA GiveBackInv ==
  ASSUME IInv, NEW f \in taken, GiveBack(f)
  PROVE  LentIsInHand' /\ OneHolder' /\ Past' /\ Awaited'
<1> USE DEF IInv, TypeOK, TrackTypeOK
<1>1. /\ taken' = taken \ {f}
      /\ lent' = [lent EXCEPT ![f.track] = @ \ {f}]
      /\ UNCHANGED <<tracking, fetching, current, arrival, halt, closed, clock>>
  BY DEF GiveBack, RecycleFrame, Recycled
<1>2. f \in Frame /\ f # NoFrame /\ f.track \in Tracks
  BY TrackAssumption DEF Frame
<1>3. \A s \in Tracks : f # current[s] /\ f # arrival[s]
  BY <1>2 DEF OneHolder
<1>4. LentIsInHand'
  <2> SUFFICES ASSUME NEW s \in Tracks, ~closed'[s]
               PROVE  /\ InHand(s)' \subseteq lent'[s]
                      /\ halt'[s] = "no" => lent'[s] = InHand(s)'
    BY DEF LentIsInHand
  <2>1. InHand(s) \subseteq lent[s] /\ (halt[s] = "no" => lent[s] = InHand(s))
    BY <1>1 DEF LentIsInHand
  <2>2. CASE s = f.track
    BY <1>1, <1>2, <1>3, <2>1, <2>2 DEF InHand
  <2>3. CASE s # f.track
    BY <1>1, <1>2, <1>3, <2>1, <2>3 DEF InHand
  <2> QED
    BY <2>2, <2>3
<1>5. OneHolder' /\ Past' /\ Awaited'
  BY <1>1 DEF OneHolder, Past, Awaited
<1> QED
  BY <1>4, <1>5

(* The invariant is inductive.                                             *)
LEMMA NextInv == ASSUME IInv, [Next]_clientVars PROVE IInv'
<1>1. TypeOK'
  BY NextType DEF IInv
<1>2. LentIsInHand' /\ OneHolder' /\ Past' /\ Awaited'
  <2>1. CASE UNCHANGED clientVars
    BY <2>1 DEF IInv, LentIsInHand, InHand, OneHolder, Past, Awaited,
                clientVars, trackVars
  <2>2. CASE Next
    BY <2>2, CaptureInv, CallbackInv, StartInv, StopInv, TakeInv, GiveBackInv DEF Next
  <2> QED
    BY <2>1, <2>2
<1> QED
  BY <1>1, <1>2 DEF IInv

(* Under the contract no buffer is lost or used after it was given back:   *)
(* what the browser waits for is what the plugin holds, whatever the order *)
(* of captures, callbacks, takes, returns, starts and stops.               *)
THEOREM NoBufferLost == Spec => []LentIsInHand
<1>1. Init => IInv
  BY InitInv
<1>2. IInv /\ [Next]_clientVars => IInv'
  BY NextInv
<1>3. IInv => LentIsInHand
  BY DEF IInv
<1> QED
  BY <1>1, <1>2, <1>3, PTL DEF Spec

(* Nor is a buffer ever held twice, so none is recycled twice.             *)
THEOREM HeldOnce == Spec => []OneHolder
<1>1. Init => IInv
  BY InitInv
<1>2. IInv /\ [Next]_clientVars => IInv'
  BY NextInv
<1>3. IInv => OneHolder
  BY DEF IInv
<1> QED
  BY <1>1, <1>2, <1>3, PTL DEF Spec
=============================================================================
