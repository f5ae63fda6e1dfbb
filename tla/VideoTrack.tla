------------------------------ MODULE VideoTrack ------------------------------
(***************************************************************************)
(* VideoTrack (src/src/video_track.cpp): the plugin's side of the camera   *)
(* tracks the page hands over, one GetFrame loop per track, together with  *)
(* the browser's side of it (pp::MediaStreamVideoTrack), modelled from the *)
(* calls video_track.cpp makes.                                            *)
(*                                                                         *)
(* A frame is a buffer the browser lends.  It names its track and carries  *)
(* its capture timestamp; pixels are left out.  The browser owns           *)
(* NumBuffers buffers per track (BUFFERED_FRAMES in StartTracking) and     *)
(* cannot capture while all of them are lent.                              *)
(*                                                                         *)
(* The operators below are the handlers, each one a whole call, and the    *)
(* statements of StopTracking.  They are composed with the encoder in      *)
(* VideoEncoder and with a well-behaved client in TrackClient.             *)
(***************************************************************************)
EXTENDS Naturals, FiniteSets

CONSTANTS
  Tracks,      \* the tracks the page may hand over
  NumBuffers,  \* buffers the browser lends per track
  MaxTs,       \* bound: timestamps run in 1..MaxTs
  NoFrame      \* a null pp::VideoFrame

Frame == [track : Tracks, ts : 1 .. MaxTs]

ASSUME TrackAssumption ==
  /\ NumBuffers \in Nat \ {0}
  /\ MaxTs \in Nat
  /\ NoFrame \notin Frame

VARIABLES
  tracking,     \* [Tracks -> BOOLEAN]: VideoTrack::tracking
  current,      \* [Tracks -> frame]: VideoTrack::current_frame
  configuring,  \* [Tracks -> BOOLEAN]: a ConfigureCallback is outstanding
  fetching,     \* [Tracks -> BOOLEAN]: a TrackFramesLoop callback is outstanding
  arrival,      \* [Tracks -> frame]: the frame that callback was completed with
  halt,         \* [Tracks -> {"no", "cleared", "emptied"}]: how far StopTracking is
  closed,       \* [Tracks -> BOOLEAN]: the browser's track is closed, its last statement
  lent,         \* [Tracks -> SUBSET Frame]: buffers the browser is waiting for
  clock         \* [Tracks -> 0 .. MaxTs]: timestamp of the last capture

trackVars == <<tracking, current, configuring, fetching, arrival, halt, closed,
               lent, clock>>

TrackTypeOK ==
  /\ tracking \in [Tracks -> BOOLEAN]
  /\ current \in [Tracks -> Frame \cup {NoFrame}]
  /\ configuring \in [Tracks -> BOOLEAN]
  /\ fetching \in [Tracks -> BOOLEAN]
  /\ arrival \in [Tracks -> Frame \cup {NoFrame}]
  /\ halt \in [Tracks -> {"no", "cleared", "emptied"}]
  /\ closed \in [Tracks -> BOOLEAN]
  /\ lent \in [Tracks -> SUBSET Frame]
  /\ clock \in [Tracks -> 0 .. MaxTs]

TrackInit ==
  /\ tracking = [t \in Tracks |-> FALSE]
  /\ current = [t \in Tracks |-> NoFrame]
  /\ configuring = [t \in Tracks |-> FALSE]
  /\ fetching = [t \in Tracks |-> FALSE]
  /\ arrival = [t \in Tracks |-> NoFrame]
  /\ halt = [t \in Tracks |-> "no"]
  /\ closed = [t \in Tracks |-> FALSE]
  /\ lent = [t \in Tracks |-> {}]
  /\ clock = [t \in Tracks |-> 0]

-----------------------------------------------------------------------------
(* The browser. *)

(* RecycleFrame of the browser's track t: a frame that t did not lend is   *)
(* refused, which leaves it lent by the track that did.                    *)
Recycled(t, f) == [lent EXCEPT ![t] = @ \ {f}]

(* The browser captures into a free buffer and completes the outstanding   *)
(* GetFrame with it.  Timestamps grow within a track; two tracks do not    *)
(* share a time base.                                                      *)
Capture(t) ==
  /\ fetching[t]
  /\ arrival[t] = NoFrame
  /\ ~closed[t]
  /\ Cardinality(lent[t]) < NumBuffers
  /\ \E n \in clock[t] + 1 .. MaxTs :
       LET f == [track |-> t, ts |-> n] IN
         /\ clock' = [clock EXCEPT ![t] = n]
         /\ arrival' = [arrival EXCEPT ![t] = f]
         /\ lent' = [lent EXCEPT ![t] = @ \cup {f}]
  /\ UNCHANGED <<tracking, current, configuring, fetching, halt, closed>>

-----------------------------------------------------------------------------
(* The plugin. *)

(* StartTracking on every track of S: a track already tracking is left     *)
(* alone, the others ask the browser to configure them.                    *)
StartTracking(S) ==
  /\ configuring' = [t \in Tracks |->
                       configuring[t] \/ (t \in S /\ ~tracking[t])]
  /\ UNCHANGED <<tracking, current, fetching, arrival, halt, closed, lent, clock>>

(* ConfigureCallback with PP_OK: the track is tracking and asks for its    *)
(* first frame.                                                            *)
ConfigureDone(t) ==
  /\ configuring[t]
  /\ configuring' = [configuring EXCEPT ![t] = FALSE]
  /\ tracking' = [tracking EXCEPT ![t] = TRUE]
  /\ fetching' = [fetching EXCEPT ![t] = TRUE]
  /\ UNCHANGED <<current, arrival, halt, closed, lent, clock>>

(* ConfigureCallback with an error: logged, the track never starts.        *)
ConfigureFailed(t) ==
  /\ configuring[t]
  /\ configuring' = [configuring EXCEPT ![t] = FALSE]
  /\ UNCHANGED <<tracking, current, fetching, arrival, halt, closed, lent, clock>>

(* Variant: the frame nobody took is replaced and not recycled.            *)
TrackFramesLoopKeeping(t) ==
  /\ fetching[t] /\ arrival[t] # NoFrame
  /\ current' = [current EXCEPT ![t] = IF tracking[t] THEN arrival[t] ELSE NoFrame]
  /\ fetching' = [fetching EXCEPT ![t] = tracking[t]]
  /\ arrival' = [arrival EXCEPT ![t] = NoFrame]
  /\ UNCHANGED <<tracking, configuring, halt, closed, lent, clock>>

(* TrackFramesLoop with PP_OK.  The frame nobody took is recycled and the  *)
(* new one replaces it, and the loop goes on only while tracking.          *)
TrackFramesLoop(t) ==
  /\ fetching[t]
  /\ arrival[t] # NoFrame
  /\ lent' = Recycled(t, current[t])
  /\ current' = [current EXCEPT ![t] = IF tracking[t] THEN arrival[t] ELSE NoFrame]
  /\ fetching' = [fetching EXCEPT ![t] = tracking[t]]
  /\ arrival' = [arrival EXCEPT ![t] = NoFrame]
  /\ UNCHANGED <<tracking, configuring, halt, closed, clock>>

(* TrackFramesLoop with PP_ERROR_ABORTED: the track was closed with the    *)
(* request outstanding; the handler returns at once.                       *)
TrackFramesAborted(t) ==
  /\ fetching[t]
  /\ arrival[t] = NoFrame
  /\ closed[t]
  /\ fetching' = [fetching EXCEPT ![t] = FALSE]
  /\ UNCHANGED <<tracking, current, configuring, arrival, halt, closed, lent, clock>>

(* TrackFramesLoop with any other error: the frame held is recycled and    *)
(* the request is not renewed, so this track has delivered its last frame. *)
TrackFramesFailed(t) ==
  /\ fetching[t]
  /\ arrival[t] = NoFrame
  /\ lent' = Recycled(t, current[t])
  /\ current' = [current EXCEPT ![t] = NoFrame]
  /\ fetching' = [fetching EXCEPT ![t] = FALSE]
  /\ UNCHANGED <<tracking, configuring, arrival, halt, closed, clock>>

(* Variant: the encoder copies the handle and does not detach it.          *)
TakeFrameShared(t) == UNCHANGED trackVars

(* The encoder takes the current frame (track->current_frame.detach()): it *)
(* is still lent, and no longer this object's to recycle.                  *)
TakeFrame(t) ==
  /\ current' = [current EXCEPT ![t] = NoFrame]
  /\ UNCHANGED <<tracking, configuring, fetching, arrival, halt, closed, lent, clock>>

(* Variant: the frame is dropped and not given back.                       *)
RecycleFrameDropped(t, f) == UNCHANGED trackVars

(* VideoTrack::RecycleFrame, called on track t for a frame taken earlier.  *)
RecycleFrame(t, f) ==
  /\ lent' = Recycled(t, f)
  /\ UNCHANGED <<tracking, current, configuring, fetching, arrival, halt, closed, clock>>

(* StopTracking, on the main thread: its statements interleave with the    *)
(* callbacks, which run on the encoder's.  Clearing the flag comes first.  *)
ClearTracking(t) ==
  /\ halt[t] = "no"
  /\ halt' = [halt EXCEPT ![t] = "cleared"]
  /\ tracking' = [tracking EXCEPT ![t] = FALSE]
  /\ UNCHANGED <<current, configuring, fetching, arrival, closed, lent, clock>>

(* The current frame, if there is one, is recycled and detached.           *)
RecycleCurrent(t) ==
  /\ halt[t] = "cleared"
  /\ halt' = [halt EXCEPT ![t] = "emptied"]
  /\ lent' = Recycled(t, current[t])
  /\ current' = [current EXCEPT ![t] = NoFrame]
  /\ UNCHANGED <<tracking, configuring, fetching, arrival, closed, clock>>

(* Close() invalidates every buffer the browser had lent.                  *)
CloseTrack(t) ==
  /\ halt[t] = "emptied"
  /\ ~closed[t]
  /\ closed' = [closed EXCEPT ![t] = TRUE]
  /\ lent' = [lent EXCEPT ![t] = {}]
  /\ UNCHANGED <<tracking, current, configuring, fetching, arrival, halt, clock>>

StopTracking(t) ==
  \/ ClearTracking(t)
  \/ RecycleCurrent(t)
  \/ CloseTrack(t)

(* The callbacks of one track, run by the message loop of its thread.      *)
TrackCallback(t) ==
  \/ ConfigureDone(t)
  \/ ConfigureFailed(t)
  \/ TrackFramesLoop(t)
  \/ TrackFramesAborted(t)
  \/ TrackFramesFailed(t)
=============================================================================
