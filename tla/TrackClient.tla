------------------------------ MODULE TrackClient -----------------------------
(***************************************************************************)
(* What VideoTrack asks of its client: a frame is taken from the track     *)
(* that holds it, and a frame taken is given back to the track it came     *)
(* from, once.  VideoEncoder is the only client; it is shown to keep this  *)
(* contract while one track is in use.                                     *)
(***************************************************************************)
EXTENDS VideoTrack

VARIABLE taken   \* frames the client has taken and not given back

clientVars == <<trackVars, taken>>

Start(S) == StartTracking(S) /\ UNCHANGED taken

Stop(t) == StopTracking(t) /\ UNCHANGED taken

Take(t) ==
  /\ current[t] # NoFrame
  /\ taken' = taken \cup {current[t]}
  /\ TakeFrame(t)

GiveBack(f) ==
  /\ f \in taken
  /\ taken' = taken \ {f}
  /\ RecycleFrame(f.track, f)

Init == TrackInit /\ taken = {}

Next ==
  \/ \E S \in SUBSET Tracks : Start(S)
  \/ \E t \in Tracks : Stop(t) \/ Take(t)
  \/ \E f \in taken : GiveBack(f)
  \/ \E t \in Tracks : (Capture(t) \/ TrackCallback(t)) /\ UNCHANGED taken

Spec == Init /\ [][Next]_clientVars

-----------------------------------------------------------------------------
TypeOK ==
  /\ TrackTypeOK
  /\ taken \subseteq Frame

(* The frames of track t that the plugin can still touch.                  *)
InHand(t) == ({current[t], arrival[t]} \ {NoFrame})
               \cup {f \in taken : f.track = t}

(* No buffer is lost and none is used after it was given back: until a     *)
(* track is stopped, the buffers the browser waits for are exactly those   *)
(* its loop holds, is about to receive, or has handed to the encoder; and  *)
(* while it is being stopped, what these hold is still lent.               *)
(* (TrackFramesLoop, video_track.cpp:62-85, recycles what nobody took, and *)
(* between the statements of StopTracking drops the frame that arrives.)   *)
LentIsInHand ==
  \A t \in Tracks :
    ~closed[t] => /\ InHand(t) \subseteq lent[t]
                  /\ halt[t] = "no" => lent[t] = InHand(t)

(* A frame has one holder: the loop's current frame was not also taken,    *)
(* and the frame arriving is neither, so no frame is recycled twice.       *)
OneHolder ==
  \A t \in Tracks :
    /\ current[t] # NoFrame => current[t] \notin taken \cup {arrival[t]}
    /\ arrival[t] # NoFrame => arrival[t] \notin taken
=============================================================================
