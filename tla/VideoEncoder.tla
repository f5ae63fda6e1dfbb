----------------------------- MODULE VideoEncoder -----------------------------
(***************************************************************************)
(* VideoEncoder (src/src/video_encoder.cpp) over its VideoTracks: the      *)
(* pipeline from the camera tracks to the muxer.                           *)
(*                                                                         *)
(*   track --tick--> waiting/given --EncodeFrame--> submitted              *)
(*                       --browser--> coded --OnGetBitstreamBuffer--> muxer*)
(*                                                                         *)
(* All handlers are callbacks of one encoder thread and run one at a time, *)
(* in any order the browser's completions allow.  StopEncode alone runs on *)
(* the main thread, so its statements, and those of StopTracking on each   *)
(* track, interleave with them.                                            *)
(*                                                                         *)
(* The browser's encoder (pp::VideoEncoder) is modelled from its use here: *)
(* EncBuffers input frames, one GetVideoFrame request at a time, input     *)
(* coded in order, one bitstream buffer per frame coded.                   *)
(***************************************************************************)
EXTENDS VideoTrack, Sequences

CONSTANTS
  NoTrack,        \* a NULL VideoTrack*
  KeyFrameRatio,  \* KEY_FRAME_RATIO
  EncBuffers,     \* input frames of the browser's encoder
  MaxSwitches,    \* bound: change_track commands
  Faults          \* what may fail: any of "init", "copy", "encode", "bits", "mux"

ASSUME EncoderAssumption ==
  /\ NoTrack \notin Tracks
  /\ KeyFrameRatio \in Nat
  /\ EncBuffers \in Nat \ {0}
  /\ MaxSwitches \in Nat

VARIABLES
  \* Fields of the VideoEncoder object.
  tracks,      \* ids in the map of tracks
  track,       \* the track in use
  newTrack,    \* the track to use from the next tick on
  encoding,    \* the encoder is active
  ticking,     \* encode_ticking
  receiving,   \* receiving_frames
  forceKey,    \* force_key_frame
  frameCount,  \* frame_count
  timestamps,  \* labels of the frames being encoded, in order
  lastTs,      \* last_ts
  \* Callbacks posted or awaited.
  init,        \* the Initialize request: "none", "pending", "over"
  ticks,       \* GetEncoderFrameTick callbacks posted
  waiting,     \* frame bound to the outstanding GetVideoFrame request
  given,       \* frames of the requests answered with an input frame, in order
  refused,     \* frames of the requests answered with an error
  dones,       \* OnEncodeDone callbacks with PP_OK posted
  bits,        \* the GetBitstreamBuffer request: "none", "waiting", "ready"
  \* The browser's encoder.
  slots,       \* input frames it can give
  submitted,   \* inputs passed to Encode and not yet coded
  coded,       \* inputs coded and not yet collected
  shut,        \* it was closed
  \* The main thread, and history.
  stopping,    \* where StopEncode is
  switches,    \* change_track commands so far
  recorded,    \* the last block the muxer took
  gap          \* frames submitted since the last forced key frame

fieldVars == <<tracks, track, newTrack, encoding, ticking, receiving, forceKey,
               frameCount, timestamps, lastTs>>
requestVars == <<init, ticks, waiting, given, refused, dones, bits>>
browserVars == <<slots, submitted, coded, shut>>
auxVars == <<stopping, switches, recorded, gap>>
vars == <<trackVars, fieldVars, requestVars, browserVars, auxVars>>

(* An input of the browser's encoder: the frame copied into it and whether *)
(* a key frame was asked for.                                              *)
Input == [frame : Frame, key : BOOLEAN]

(* A block of the file: the frame it holds, the time it is labelled with.  *)
Block == [frame : Frame, label : 1 .. MaxTs, key : BOOLEAN]
NoBlock == [label |-> 0]

(* Frames taken from a track and not given back.                           *)
Taken == ({waiting} \ {NoFrame}) \cup {given[i] : i \in DOMAIN given}
           \cup refused

TypeOK ==
  /\ TrackTypeOK
  /\ tracks \subseteq Tracks
  /\ track \in Tracks \cup {NoTrack}
  /\ newTrack \in Tracks \cup {NoTrack}
  /\ encoding \in BOOLEAN
  /\ ticking \in BOOLEAN
  /\ receiving \in BOOLEAN
  /\ forceKey \in BOOLEAN
  /\ frameCount \in Nat
  /\ timestamps \in Seq(1 .. MaxTs)
  /\ lastTs \in 0 .. MaxTs
  /\ init \in {"none", "pending", "over"}
  /\ ticks \in Nat
  /\ waiting \in Frame \cup {NoFrame}
  /\ given \in Seq(Frame)
  /\ refused \subseteq Frame
  /\ dones \in Nat
  /\ bits \in {"none", "waiting", "ready"}
  /\ slots \in Nat
  /\ submitted \in Seq(Input)
  /\ coded \in Seq(Input)
  /\ shut \in BOOLEAN
  /\ stopping \in {"no", "close", "clear", "flag", "finish", "stopped",
                  "deleted"}
  /\ switches \in Nat
  /\ recorded \in Block \cup {NoBlock}
  /\ gap \in Nat

(* The constructor.  receiving_frames is set by Encode before it is read.  *)
Init ==
  /\ TrackInit
  /\ tracks = {}
  /\ track = NoTrack
  /\ newTrack = NoTrack
  /\ encoding = FALSE
  /\ ticking = FALSE
  /\ receiving = FALSE
  /\ forceKey = FALSE
  /\ frameCount = 0
  /\ timestamps = <<>>
  /\ lastTs = 0
  /\ init = "none"
  /\ ticks = 0
  /\ waiting = NoFrame
  /\ given = <<>>
  /\ refused = {}
  /\ dones = 0
  /\ bits = "none"
  /\ slots = EncBuffers
  /\ submitted = <<>>
  /\ coded = <<>>
  /\ shut = FALSE
  /\ stopping = "no"
  /\ switches = 0
  /\ recorded = NoBlock
  /\ gap = 0

-----------------------------------------------------------------------------
(* Commands. *)

(* AddTrack, as HandleMessage calls it: before the Encode of this object.  *)
AddTrack(t) ==
  /\ init = "none"
  /\ ~encoding
  /\ t \notin tracks
  /\ tracks' = tracks \cup {t}
  /\ UNCHANGED <<trackVars, track, newTrack, encoding, ticking, receiving,
                 forceKey, frameCount, timestamps, lastTs, requestVars,
                 browserVars, auxVars>>

(* SetTrack on a track of the map (any other id is only logged): the first *)
(* one is in use at once, a later one from the next tick on.               *)
SetTrack(t) ==
  /\ t \in tracks
  /\ \/ /\ track = NoTrack
        /\ track' = t
        /\ UNCHANGED <<newTrack, switches>>
     \/ /\ track # NoTrack
        /\ init # "none"
        /\ switches < MaxSwitches
        /\ newTrack' = t
        /\ switches' = switches + 1
        /\ UNCHANGED track
  /\ UNCHANGED <<trackVars, tracks, encoding, ticking, receiving, forceKey,
                 frameCount, timestamps, lastTs, requestVars, browserVars,
                 stopping, recorded, gap>>

(* Encode: start every track (StartTrackFrames), then ask the browser to   *)
(* initialize the encoder (StartEncoder).                                  *)
Encode ==
  /\ init = "none"
  /\ StartTracking(tracks)
  /\ receiving' = TRUE
  /\ timestamps' = <<>>
  /\ init' = "pending"
  /\ UNCHANGED <<tracks, track, newTrack, encoding, ticking, forceKey,
                 frameCount, lastTs, ticks, waiting, given, refused, dones,
                 bits, browserVars, auxVars>>

(* OnInitializedEncoder with PP_OK: the bitstream loop and the tick loop   *)
(* (ScheduleNextEncode) start.                                             *)
OnInitializedEncoder ==
  /\ init = "pending"
  /\ init' = "over"
  /\ encoding' = TRUE
  /\ bits' = "waiting"
  /\ ticks' = IF ticking THEN ticks ELSE ticks + 1
  /\ ticking' = TRUE
  /\ UNCHANGED <<trackVars, tracks, track, newTrack, receiving, forceKey,
                 frameCount, timestamps, lastTs, waiting, given, refused,
                 dones, browserVars, auxVars>>

(* OnInitializedEncoder with an error: logged, and nothing else starts.    *)
InitializeFailed ==
  /\ "init" \in Faults
  /\ init = "pending"
  /\ init' = "over"
  /\ UNCHANGED <<trackVars, fieldVars, ticks, waiting, given, refused, dones,
                 bits, browserVars, auxVars>>

-----------------------------------------------------------------------------
(* The tick loop. *)

(* GetEncoderFrame(f): GetVideoFrame of the browser's encoder, with f bound*)
(* to the callback.  It is refused while another request is outstanding.   *)
GetEncoderFrame(f) ==
  IF shut \/ waiting # NoFrame
    THEN refused' = refused \cup {f} /\ UNCHANGED waiting
    ELSE waiting' = f /\ UNCHANGED refused

(* The track in use from this tick on.                                     *)
NextTrack == IF newTrack # NoTrack THEN newTrack ELSE track

(* Variant: a tick that finds no frame does not post the next one.         *)
GetEncoderFrameTickStops ==
  /\ ticks > 0
  /\ encoding
  /\ newTrack' = NoTrack
  /\ forceKey' = (forceKey \/ newTrack # NoTrack)
  /\ track' = NextTrack
  /\ IF receiving /\ NextTrack # NoTrack /\ current[NextTrack] # NoFrame
       THEN /\ TakeFrame(NextTrack)
            /\ GetEncoderFrame(current[NextTrack])
            /\ UNCHANGED ticks
       ELSE /\ ticks' = ticks - 1
            /\ UNCHANGED <<trackVars, waiting, refused>>
  /\ UNCHANGED <<tracks, encoding, ticking, receiving, frameCount, timestamps,
                 lastTs, init, given, dones, bits, browserVars, auxVars>>

(* GetEncoderFrameTick while encoding: switch tracks if asked to, take the *)
(* frame of the track in use if it has one, post the next tick.            *)
GetEncoderFrameTick ==
  /\ ticks > 0
  /\ encoding
  /\ newTrack' = NoTrack
  /\ forceKey' = (forceKey \/ newTrack # NoTrack)
  /\ track' = NextTrack
  /\ IF receiving /\ NextTrack # NoTrack /\ current[NextTrack] # NoFrame
       THEN TakeFrame(NextTrack) /\ GetEncoderFrame(current[NextTrack])
       ELSE UNCHANGED <<trackVars, waiting, refused>>
  /\ ticking' = TRUE
  /\ UNCHANGED <<tracks, encoding, receiving, frameCount, timestamps, lastTs,
                 init, ticks, given, dones, bits, browserVars, auxVars>>

(* GetEncoderFrameTick after encoding was cleared: the loop ends here.     *)
LastTick ==
  /\ ticks > 0
  /\ ~encoding
  /\ ticks' = ticks - 1
  /\ UNCHANGED <<trackVars, fieldVars, init, waiting, given, refused, dones,
                 bits, browserVars, auxVars>>

-----------------------------------------------------------------------------
(* Encoding. *)

(* Variant: the key frame comes one frame late.                            *)
EncodeFrameLateKey(f) ==
  LET key == frameCount > KeyFrameRatio + 1 IN
    /\ timestamps' = Append(timestamps, f.ts)
    /\ forceKey' = key
    /\ submitted' = Append(submitted, [frame |-> f, key |-> key])
    /\ gap' = IF key THEN 0 ELSE gap + 1

(* Variant: CopyVideoFrame leaves the input's own timestamp.               *)
EncodeFrameUnstamped(f) ==
  LET key == frameCount > KeyFrameRatio IN
    /\ timestamps' = Append(timestamps, 0)
    /\ forceKey' = key
    /\ submitted' = Append(submitted, [frame |-> f, key |-> key])
    /\ gap' = IF key THEN 0 ELSE gap + 1

(* EncodeFrame: queue the label, decide on a key frame, submit.  An Encode *)
(* on a closed encoder fails: the input stays queued where nothing codes.  *)
EncodeFrame(f) ==
  LET key == frameCount > KeyFrameRatio IN
    /\ timestamps' = Append(timestamps, f.ts)
    /\ forceKey' = key
    /\ submitted' = Append(submitted, [frame |-> f, key |-> key])
    /\ gap' = IF key THEN 0 ELSE gap + 1

(* Variant: while frames are being encoded the next one is skipped.        *)
OnEncoderFrameSkips ==
  /\ given # <<>>
  /\ given' = Tail(given)
  /\ IF timestamps = <<>> THEN EncodeFrame(Head(given))
     ELSE UNCHANGED <<timestamps, forceKey, submitted, gap>>
  /\ RecycleFrame(track, Head(given))
  /\ UNCHANGED <<tracks, track, newTrack, encoding, ticking, receiving,
                 frameCount, lastTs, init, ticks, waiting, refused, dones,
                 bits, slots, coded, shut, stopping, switches, recorded>>

(* Variant: the track's frame is not given back once it is copied.         *)
OnEncoderFrameKeeps ==
  /\ given # <<>>
  /\ given' = Tail(given)
  /\ EncodeFrame(Head(given))
  /\ UNCHANGED <<trackVars, tracks, track, newTrack, encoding, ticking,
                 receiving, frameCount, lastTs, init, ticks, waiting, refused,
                 dones, bits, slots, coded, shut, stopping, switches, recorded>>

(* OnEncoderFrame with an input frame: copy, encode, and give the track's  *)
(* frame back to the track in use.                                         *)
OnEncoderFrame ==
  /\ given # <<>>
  /\ given' = Tail(given)
  /\ EncodeFrame(Head(given))
  /\ RecycleFrame(track, Head(given))
  /\ UNCHANGED <<tracks, track, newTrack, encoding, ticking, receiving,
                 frameCount, lastTs, init, ticks, waiting, refused, dones,
                 bits, slots, coded, shut, stopping, switches, recorded>>

(* Variant: a failed copy returns early.                                   *)
OnEncoderFrameNotCopiedKeeps ==
  /\ "copy" \in Faults
  /\ given # <<>>
  /\ given' = Tail(given)
  /\ UNCHANGED <<trackVars, fieldVars, init, ticks, waiting, refused, dones,
                 bits, browserVars, auxVars>>

(* ... when the copy fails: the input frame is neither encoded nor given   *)
(* back to the browser.                                                    *)
OnEncoderFrameNotCopied ==
  /\ "copy" \in Faults
  /\ given # <<>>
  /\ given' = Tail(given)
  /\ RecycleFrame(track, Head(given))
  /\ UNCHANGED <<fieldVars, init, ticks, waiting, refused, dones, bits,
                 browserVars, auxVars>>

(* ... with an error: the frame is given back unused.                      *)
OnEncoderFrameRefused(f) ==
  /\ f \in refused
  /\ refused' = refused \ {f}
  /\ RecycleFrame(track, f)
  /\ UNCHANGED <<fieldVars, init, ticks, waiting, given, dones, bits,
                 browserVars, auxVars>>

(* ... with PP_ERROR_ABORTED, the encoder being closed: the same.          *)
OnEncoderFrameAborted ==
  /\ shut
  /\ waiting # NoFrame
  /\ waiting' = NoFrame
  /\ RecycleFrame(track, waiting)
  /\ UNCHANGED <<fieldVars, init, ticks, given, refused, dones, bits,
                 browserVars, auxVars>>

(* OnEncodeDone with PP_OK: a key frame asked for restarts the count.  By  *)
(* the time this runs the browser can give the input frame out again.      *)
OnEncodeDone ==
  /\ dones > 0
  /\ dones' = dones - 1
  /\ slots' = slots + 1
  /\ frameCount' = IF forceKey THEN 1 ELSE frameCount + 1
  /\ forceKey' = FALSE
  /\ UNCHANGED <<trackVars, tracks, track, newTrack, encoding, ticking,
                 receiving, timestamps, lastTs, init, ticks, waiting, given,
                 refused, bits, submitted, coded, shut, auxVars>>

-----------------------------------------------------------------------------
(* The bitstream loop. *)

(* What the bitstream callback leaves alone.                               *)
BitstreamUnchanged ==
  UNCHANGED <<trackVars, tracks, track, newTrack, encoding, ticking, receiving,
              forceKey, frameCount, init, ticks, waiting, given, refused,
              dones, slots, submitted, shut, stopping, switches, gap>>

(* Variant: a late frame is dropped and its label is not.                  *)
OnGetBitstreamBufferKeepsLabel ==
  /\ bits = "ready"
  /\ IF Head(timestamps) >= lastTs
       THEN /\ lastTs' = Head(timestamps)
            /\ recorded' = [frame |-> Head(coded).frame, key |-> Head(coded).key,
                            label |-> Head(timestamps)]
            /\ timestamps' = Tail(timestamps)
       ELSE UNCHANGED <<lastTs, recorded, timestamps>>
  /\ coded' = Tail(coded)
  /\ bits' = IF shut THEN "none" ELSE "waiting"
  /\ BitstreamUnchanged

(* Variant: late frames are saved too.                                     *)
OnGetBitstreamBufferSavesLate ==
  /\ bits = "ready"
  /\ lastTs' = Head(timestamps)
  /\ recorded' = [frame |-> Head(coded).frame, label |-> Head(timestamps),
                  key |-> Head(coded).key]
  /\ timestamps' = Tail(timestamps)
  /\ coded' = Tail(coded)
  /\ bits' = IF shut THEN "none" ELSE "waiting"
  /\ BitstreamUnchanged

(* Variant: the next buffer is not asked for.                              *)
OnGetBitstreamBufferOnce ==
  /\ bits = "ready"
  /\ lastTs' = Head(timestamps)
  /\ recorded' = [frame |-> Head(coded).frame, label |-> Head(timestamps),
                  key |-> Head(coded).key]
  /\ timestamps' = Tail(timestamps)
  /\ coded' = Tail(coded)
  /\ bits' = "none"
  /\ BitstreamUnchanged

(* OnGetBitstreamBuffer with a buffer: save it unless its label is older   *)
(* than the last one, drop the label, ask for the next buffer.             *)
OnGetBitstreamBuffer ==
  /\ bits = "ready"
  /\ LET in == Head(coded)
         label == Head(timestamps) IN
       IF label >= lastTs
         THEN /\ lastTs' = label
              /\ \/ recorded' = [frame |-> in.frame, label |-> label,
                                 key |-> in.key]
                 \/ "mux" \in Faults /\ UNCHANGED recorded
         ELSE UNCHANGED <<lastTs, recorded>>
  /\ timestamps' = Tail(timestamps)
  /\ coded' = Tail(coded)
  /\ bits' = IF shut THEN "none" ELSE "waiting"
  /\ BitstreamUnchanged

(* ... aborted by Close, or with an error: the loop ends.                  *)
BitstreamLoopEnds ==
  /\ bits = "waiting"
  /\ shut \/ "bits" \in Faults
  /\ bits' = "none"
  /\ UNCHANGED <<trackVars, fieldVars, init, ticks, waiting, given, refused,
                 dones, browserVars, auxVars>>

-----------------------------------------------------------------------------
(* The browser's encoder. *)

(* It answers the outstanding GetVideoFrame with a free input frame.       *)
GiveInput ==
  /\ ~shut
  /\ waiting # NoFrame
  /\ slots > 0
  /\ slots' = slots - 1
  /\ given' = Append(given, waiting)
  /\ waiting' = NoFrame
  /\ UNCHANGED <<trackVars, fieldVars, init, ticks, refused, dones, bits,
                 submitted, coded, shut, auxVars>>

(* It codes the oldest input.                                              *)
Code ==
  /\ ~shut
  /\ submitted # <<>>
  /\ submitted' = Tail(submitted)
  /\ coded' = Append(coded, Head(submitted))
  /\ dones' = dones + 1
  /\ UNCHANGED <<trackVars, fieldVars, init, ticks, waiting, given, refused,
                 bits, slots, shut, auxVars>>

(* It fails to, and OnEncodeDone with that error changes nothing.          *)
CodeFailed ==
  /\ "encode" \in Faults
  /\ ~shut
  /\ submitted # <<>>
  /\ submitted' = Tail(submitted)
  /\ slots' = slots + 1
  /\ UNCHANGED <<trackVars, fieldVars, requestVars, coded, shut, auxVars>>

(* It completes GetBitstreamBuffer with the oldest coded frame.            *)
BitsReady ==
  /\ ~shut
  /\ bits = "waiting"
  /\ coded # <<>>
  /\ bits' = "ready"
  /\ UNCHANGED <<trackVars, fieldVars, init, ticks, waiting, given, refused,
                 dones, browserVars, auxVars>>

-----------------------------------------------------------------------------
(* StopEncode, on the main thread, statement by statement. *)

(* StopTrackingFrames begins.  HandleMessage calls StopEncode only while   *)
(* encoding.                                                               *)
StopEncode ==
  /\ stopping = "no"
  /\ encoding
  /\ receiving' = FALSE
  /\ stopping' = "close"
  /\ UNCHANGED <<trackVars, tracks, track, newTrack, encoding, ticking,
                 forceKey, frameCount, timestamps, lastTs, requestVars,
                 browserVars, switches, recorded, gap>>

(* It stops the tracks, one after the other.                               *)
StopTrack(t) ==
  /\ stopping = "close"
  /\ t \in tracks
  /\ \A s \in tracks \ {t} : halt[s] = "no" \/ closed[s]
  /\ StopTracking(t)
  /\ UNCHANGED <<fieldVars, requestVars, browserVars, auxVars>>

(* encoder.Close(): what was answered before stays answered.               *)
CloseEncoder ==
  /\ stopping = "close"
  /\ \A t \in tracks : closed[t]
  /\ shut' = TRUE
  /\ stopping' = "clear"
  /\ UNCHANGED <<trackVars, fieldVars, requestVars, slots, submitted, coded,
                 switches, recorded, gap>>

(* tracks.clear().                                                         *)
ClearTracks ==
  /\ stopping = "clear"
  /\ tracks' = {}
  /\ stopping' = "flag"
  /\ UNCHANGED <<trackVars, track, newTrack, encoding, ticking, receiving,
                 forceKey, frameCount, timestamps, lastTs, requestVars,
                 browserVars, switches, recorded, gap>>

(* encoding = false.                                                       *)
ClearEncoding ==
  /\ stopping = "flag"
  /\ encoding' = FALSE
  /\ stopping' = "finish"
  /\ UNCHANGED <<trackVars, tracks, track, newTrack, ticking, receiving,
                 forceKey, frameCount, timestamps, lastTs, requestVars,
                 browserVars, switches, recorded, gap>>

(* muxer.Finish(): the file is complete.                                   *)
FinishMuxer ==
  /\ stopping = "finish"
  /\ stopping' = "stopped"
  /\ UNCHANGED <<trackVars, fieldVars, requestVars, browserVars, switches,
                 recorded, gap>>

(* delete video_enc: the destructor deletes the track in use, and with both *)
(* objects go their callback factories, which drop the callbacks pending.  *)
DeleteEncoder ==
  /\ stopping = "stopped"
  /\ stopping' = "deleted"
  /\ UNCHANGED <<trackVars, fieldVars, requestVars, browserVars, switches,
                 recorded, gap>>

-----------------------------------------------------------------------------
(* The page sends no command for this object once it is stopped.           *)
Command ==
  \/ \E t \in Tracks : AddTrack(t) \/ SetTrack(t)
  \/ Encode
  \/ StopEncode

Stop ==
  \/ \E t \in Tracks : StopTrack(t)
  \/ CloseEncoder
  \/ ClearTracks
  \/ ClearEncoding
  \/ FinishMuxer
  \/ DeleteEncoder

(* The callbacks of the encoder object.                                    *)
Handler ==
  \/ OnInitializedEncoder
  \/ InitializeFailed
  \/ GetEncoderFrameTick
  \/ LastTick
  \/ OnEncoderFrame
  \/ OnEncoderFrameNotCopied
  \/ \E f \in refused : OnEncoderFrameRefused(f)
  \/ OnEncoderFrameAborted
  \/ OnEncodeDone
  \/ OnGetBitstreamBuffer
  \/ BitstreamLoopEnds

Callback == stopping # "deleted" /\ Handler

Browser ==
  \/ GiveInput
  \/ Code
  \/ CodeFailed
  \/ BitsReady

TrackStep(t) ==
  /\ Capture(t) \/ (TrackCallback(t) /\ ~(stopping = "deleted" /\ t = track))
  /\ UNCHANGED <<fieldVars, requestVars, browserVars, auxVars>>

Next ==
  \/ Command
  \/ Stop
  \/ Callback
  \/ Browser
  \/ \E t \in Tracks : TrackStep(t)

Spec == Init /\ [][Next]_vars

(* The encoder thread runs every callback posted to it, the browser answers *)
(* every request and codes every frame, and StopEncode goes on to its end. *)
(* Nothing obliges the camera to capture or the page to send a command.    *)
Fairness ==
  /\ WF_vars(stopping # "deleted" /\ (OnInitializedEncoder \/ InitializeFailed))
  /\ WF_vars(stopping # "deleted" /\ (GetEncoderFrameTick \/ LastTick))
  /\ WF_vars(stopping # "deleted"
               /\ (OnEncoderFrame \/ OnEncoderFrameNotCopied))
  /\ \A f \in Frame :
       WF_vars(stopping # "deleted" /\ OnEncoderFrameRefused(f))
  /\ WF_vars(stopping # "deleted" /\ OnEncoderFrameAborted)
  /\ WF_vars(stopping # "deleted" /\ OnEncodeDone)
  /\ WF_vars(stopping # "deleted" /\ OnGetBitstreamBuffer)
  /\ WF_vars(GiveInput)
  /\ WF_vars(Code \/ CodeFailed)
  /\ WF_vars(BitsReady)
  /\ WF_vars(Stop)

FairSpec == Spec /\ Fairness

-----------------------------------------------------------------------------
(* Safety. *)

(* The browser's input frames are conserved: each one is free, with a frame *)
(* about to be copied into it, queued, or coded with its OnEncodeDone on   *)
(* the way.  Lost ones would leave GetVideoFrame unanswered and the camera *)
(* frame bound to it unreturned (OnEncoderFrame, EncodeFrame, OnEncodeDone).*)
SlotsConserved ==
  "copy" \notin Faults =>
    slots + Len(given) + Len(submitted) + dones = EncBuffers

(* The queue of labels keeps step with the encoder: its entries are the    *)
(* timestamps of the frames being encoded, oldest first, so front() is the *)
(* timestamp of the buffer collected and is never taken of an empty queue  *)
(* (EncodeFrame, OnGetBitstreamBuffer).                                    *)
LabelsInStep ==
  "encode" \notin Faults =>
    timestamps = [i \in 1 .. Len(coded \o submitted) |->
                    (coded \o submitted)[i].frame.ts]

(* With one track in use, no more than KEY_FRAME_RATIO frames and those the *)
(* encoder can hold go by between two forced key frames, although          *)
(* frame_count lags behind the frames submitted and is reset by whichever  *)
(* OnEncodeDone comes next (EncodeFrame, OnEncodeDone).                    *)
KeyFrameInterval ==
  switches = 0 /\ Faults \cap {"copy", "encode"} = {} =>
    gap <= KeyFrameRatio + EncBuffers

(* A track that is running and not being stopped has not lost every buffer: *)
(* the browser still has one to capture into, or waits for one the plugin  *)
(* can give back (OnEncoderFrame, RecycleFrame).                           *)
RunningTracksHaveBuffers ==
  \A t \in tracks :
    tracking[t] /\ halt[t] = "no" /\ ~closed[t] =>
      Cardinality(lent[t] \ (Taken \cup {current[t], arrival[t]})) < NumBuffers

(* While no track change has been asked for, the encoder keeps the         *)
(* contract VideoTrack asks of its client.                                 *)
Contract == INSTANCE TrackClient WITH taken <- Taken
ContractSpec == Contract!Spec

(* Steps. *)

(* The file promised: blocks labelled with their own frames' timestamps,   *)
(* in an order that never goes back.                                       *)
File == INSTANCE Recording
FileSpec == File!Spec

(* A track change loses nothing: the first block of the new track is a     *)
(* forced key frame.                                                       *)
KeyFrameOnSwitch ==
  [][(/\ recorded' # recorded
       /\ recorded # NoBlock
       /\ recorded.frame.track' # recorded.frame.track) => recorded.key']_vars

(* A block is labelled with its own frame's timestamp, whatever fails.     *)
BlocksOwnLabel == recorded # NoBlock => recorded.label = recorded.frame.ts

(* Nothing is added to the file once Finish has completed it.              *)
NothingAfterFinish ==
  [][(stopping \in {"stopped", "deleted"}) => recorded' = recorded]_vars

(* Progress. *)

(* With one track, every frame taken is given back to the browser, which   *)
(* can capture into it again, unless the encoder is deleted with it        *)
(* (GetEncoderFrame, OnEncoderFrame, RecycleFrame).                        *)
FramesGivenBack ==
  \A f \in Frame :
    f \in Taken ~> f \notin Taken \cup lent[f.track] \/ stopping = "deleted"

(* A track asked for is in use before long once the encoder is encoding,   *)
(* unless it is stopped.                                                   *)
SwitchHappens ==
  encoding /\ newTrack # NoTrack ~> newTrack = NoTrack \/ stopping # "no"

(* With one track, a frame submitted is saved, unless the encoder is       *)
(* stopped first.                                                          *)
SubmittedIsSaved ==
  \A f \in Frame :
    (\E i \in DOMAIN submitted : submitted[i].frame = f)
      ~> (recorded # NoBlock /\ recorded.frame = f) \/ stopping # "no"
=============================================================================
