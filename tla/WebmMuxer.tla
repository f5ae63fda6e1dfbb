------------------------------- MODULE WebmMuxer -------------------------------
(***************************************************************************)
(* WebmMuxer (src/src/webm_muxer.cpp): the file of one recording.  It      *)
(* opens the file with the first frame, drops the frames that come late or *)
(* empty, and makes up for them by repeating the last frame saved, before  *)
(* the next one that can be saved.  The mkvmuxer::Segment it writes to is  *)
(* the one of module Segment; only its video track is ever fed.            *)
(*                                                                         *)
(* The caller is any: AddVideoFrame with times that move by Steps, Finish, *)
(* and the destructor, in every order.  `crashed' is reached through the   *)
(* calls that are undefined: a null or a deleted pSegment is used.         *)
(***************************************************************************)
EXTENDS Segment

CONSTANTS
  Steps,     \* how the caller's time moves from frame to frame
  MaxCalls,  \* bound: frames added
  MaxFiles,  \* bound: times the file is opened
  Failing,   \* whether the file may refuse to open
  Deleting   \* whether the caller deletes the muxer

ASSUME MuxerAssumption ==
  /\ Steps \subseteq Int
  /\ MaxCalls \in Nat /\ MaxFiles \in Nat
  /\ Failing \in BOOLEAN /\ Deleting \in BOOLEAN

VARIABLES
  initialized, finished,  \* the flags of that name
  pSegment,               \* "null", "live" or "deleted": the pointer
  segment,                \* the Segment behind it, and the file it wrote
  last_frame,             \* last_frame
  delayed_frame_count,    \* delayed_frame_count
  crashed,                \* a call was undefined
  deleted,                \* the muxer itself is gone
  calls,                  \* auxiliary: AddVideoFrame calls so far
  clock,                  \* auxiliary: the caller's time
  files,                  \* auxiliary: times the file was opened
  answered,               \* auxiliary: the file's frames answered with true
  since,                  \* auxiliary: calls since the file's first frame
  gap                     \* auxiliary: a frame came long after the last one
                          \* saved

vars == <<initialized, finished, pSegment, segment, last_frame,
          delayed_frame_count, crashed, deleted, calls, clock, files,
          answered, since, gap>>

NoData == [track |-> 0, timestamp |-> 0, is_key |-> FALSE, valid |-> FALSE,
           id |-> 0]

Init ==
  /\ initialized = FALSE /\ finished = FALSE
  /\ pSegment = "null" /\ segment = NewSegment
  /\ last_frame = NoData
  /\ delayed_frame_count = 0
  /\ crashed = FALSE /\ deleted = FALSE
  /\ calls = 0 /\ clock = 0 /\ files = 0
  /\ answered = <<>> /\ since = 0 /\ gap = FALSE

-----------------------------------------------------------------------------
(* AddVideoFrame. *)

(* A frame without data keeps the Frame's defaults.                        *)
CreateFrame(hasData, timestamp, key) ==
  IF hasData
  THEN [track |-> VideoTrackNumber, timestamp |-> timestamp, is_key |-> key,
        valid |-> TRUE, id |-> calls + 1]
  ELSE NoData

(* Variant: the delay is taken from the start of the file.                 *)
SaveDelayedFromZero(s, last, delayed, current_ts) ==
  LET delta == current_ts \div delayed
      Repeat(i) == [last EXCEPT !.timestamp = @ + (i - 1) * delta]
  IN [seg |-> FoldLeft(LAMBDA t, i : AddGenericFrame(t, Repeat(i)).seg, s,
                       [i \in 1 .. delayed |-> i]),
      last |-> Repeat(delayed)]

(* The last frame again, once for every frame delayed, spread from its own *)
(* time to that of the new one; the segment's answers are not looked at.   *)
SaveDelayed(s, last, delayed, current_ts) ==
  LET delta == (current_ts - last.timestamp) \div delayed
      Repeat(i) == [last EXCEPT !.timestamp = @ + (i - 1) * delta]
      after[i \in 0 .. delayed] ==
        IF i = 0 THEN s ELSE AddGenericFrame(after[i - 1], Repeat(i)).seg
  IN [seg |-> after[delayed], last |-> Repeat(delayed)]

(* The frames of this file answered with true, before this call.           *)
AnsweredBefore == IF initialized THEN answered ELSE <<>>

(* A frame that is late or empty is only counted.                          *)
Delay ==
  /\ delayed_frame_count' = delayed_frame_count + 1
  /\ answered' = AnsweredBefore

(* Variant: the frame becomes the last one whether it was saved or not.    *)
SaveAlways(s, last, f) ==
  LET caught == IF delayed_frame_count > 0
                THEN SaveDelayed(s, last, delayed_frame_count, f.timestamp)
                ELSE [seg |-> s, last |-> last]
      added == AddGenericFrame(caught.seg, f)
  IN /\ segment' = added.seg
     /\ last_frame' = f
     /\ delayed_frame_count' = 0
     /\ answered' = Append(AnsweredBefore, f)

Save(s, last, f) ==
  LET caught == IF delayed_frame_count > 0
                THEN SaveDelayed(s, last, delayed_frame_count, f.timestamp)
                ELSE [seg |-> s, last |-> last]
      added == AddGenericFrame(caught.seg, f)
  IN /\ segment' = added.seg
     /\ last_frame' = IF added.ok THEN f ELSE caught.last
     /\ delayed_frame_count' = 0
     /\ answered' = IF added.ok THEN Append(AnsweredBefore, f)
                               ELSE AnsweredBefore

AddOrDelay(s, last, f) ==
  IF ~f.valid \/ f.timestamp < last.timestamp
  THEN Delay /\ segment' = s /\ last_frame' = last
  ELSE Save(s, last, f)

(* Auxiliary: so long after a frame that it may be out of reach of the     *)
(* cluster that has that frame, which may have begun a duration earlier.   *)
LongAfter(f, last) ==
  Timecode(f.timestamp) - Timecode(last.timestamp)
    + (MaxClusterDuration - 1) \div TimecodeScale > MaxBlockTimecode

(* Init: the first frame, and the first after Finish, opens the file anew. *)
OpenFile ==
  /\ files < MaxFiles
  /\ initialized' = TRUE /\ finished' = FALSE
  /\ pSegment' = "live"
  /\ files' = files + 1

AddVideoFrame(step, key, hasData) ==
  LET ts == clock + step
      f == CreateFrame(hasData, ts, key)
      s == IF initialized THEN segment ELSE NewSegment
      last == IF initialized THEN last_frame
              ELSE [last_frame EXCEPT !.timestamp = 0]
  IN /\ ~crashed /\ ~deleted
     /\ calls < MaxCalls /\ ts >= 0
     /\ IF initialized
        THEN UNCHANGED <<initialized, finished, pSegment, files>>
        ELSE OpenFile
     /\ AddOrDelay(s, last, f)
     /\ calls' = calls + 1
     /\ clock' = ts
     /\ since' = CASE segment'.clusters = <<>> -> 0
                   [] segment'.clusters # <<>> /\ initialized -> since + 1
                   [] segment'.clusters # <<>> /\ ~initialized -> 1
     /\ gap' = (gap \/ (f.valid /\ last.valid /\ LongAfter(f, last)))
     /\ UNCHANGED <<crashed, deleted>>

(* Init fails to open the file: the frame is dropped and not even counted. *)
AddVideoFrameNoFile ==
  /\ Failing /\ ~crashed /\ ~deleted
  /\ ~initialized /\ calls < MaxCalls
  /\ calls' = calls + 1
  /\ UNCHANGED <<initialized, finished, pSegment, segment, last_frame,
                 delayed_frame_count, crashed, deleted, clock, files,
                 answered, since, gap>>

-----------------------------------------------------------------------------
(* Finish and the destructor. *)

(* Finish on a muxer that never opened its file calls a null Segment.      *)
FinishNull ==
  /\ ~crashed /\ ~deleted /\ ~finished /\ pSegment = "null"
  /\ crashed' = TRUE
  /\ UNCHANGED <<initialized, finished, pSegment, segment, last_frame,
                 delayed_frame_count, deleted, calls, clock, files, answered,
                 since, gap>>

(* Finish on an open file: the file stays open when it cannot be completed. *)
FinishFile ==
  /\ ~crashed /\ ~deleted /\ ~finished /\ pSegment = "live"
  /\ \E sizeMatches \in BOOLEAN :
       LET done == Finalize(segment, sizeMatches)
       IN /\ segment' = done.seg
          /\ IF done.ok
             THEN /\ finished' = TRUE /\ initialized' = FALSE
                  /\ pSegment' = "deleted"
             ELSE UNCHANGED <<finished, initialized, pSegment>>
  /\ UNCHANGED <<last_frame, delayed_frame_count, crashed, deleted, calls,
                 clock, files, answered, since, gap>>

(* ~WebmMuxer deletes pSegment, which Finish has deleted and not cleared.  *)
Delete ==
  /\ Deleting /\ ~crashed /\ ~deleted
  /\ deleted' = TRUE
  /\ crashed' = (pSegment = "deleted")
  /\ pSegment' = "null"
  /\ UNCHANGED <<initialized, finished, segment, last_frame,
                 delayed_frame_count, calls, clock, files, answered, since,
                 gap>>

Next ==
  \/ \E step \in Steps, key, hasData \in BOOLEAN :
       AddVideoFrame(step, key, hasData)
  \/ AddVideoFrameNoFile
  \/ FinishNull
  \/ FinishFile
  \/ Delete

Spec == Init /\ [][Next]_vars

-----------------------------------------------------------------------------
(* Properties. *)

(* The file's blocks, in the order they were written.                      *)
File == FlattenSeq([i \in DOMAIN segment.clusters |->
                      segment.clusters[i].blocks])

(* Every frame AddVideoFrame answered with true is in the file, with its   *)
(* own time, and the file shows the frames in the order of the calls.      *)
SavedIsWritten ==
  /\ ToSet(answered) \subseteq ToSet(File)
  /\ \A i, j \in DOMAIN File : i < j => File[i].id <= File[j].id

(* Finish closed the last cluster, and failed.                             *)
FinishFailed == initialized /\ Last(segment.clusters).finalized

(* The frozen picture of SaveDelayed: once the muxer has caught up, the    *)
(* file has one block for each call since its first frame, and the block   *)
(* of a frame that was dropped shows the last one saved before it.  The    *)
(* times of the blocks do not matter, only that none was refused: a time   *)
(* too late would make the segment refuse the frame that follows.  It is   *)
(* about the one file a recording has, while no frame comes so long after  *)
(* the last one saved (LongAfter) that the segment may refuse a key frame, *)
(* and no Finish has failed after it closed the last cluster.              *)
FrozenPicture ==
  delayed_frame_count = 0 /\ answered # <<>> /\ files = 1 /\ ~gap
      /\ ~FinishFailed =>
    /\ Len(File) = since
    /\ \A n \in DOMAIN File :
         File[n].id = Max({f.id : f \in {g \in ToSet(answered) :
                                           g.id - answered[1].id < n}})

(* A file that Finish has closed is complete: nothing is left in the queue *)
(* of the segment, each cluster has been sized, and the cues point at each *)
(* of them.                                                                *)
FinishedIsComplete ==
  finished /\ ~crashed =>
    /\ segment.frames = <<>>
    /\ \A c \in ToSet(segment.clusters) : c.finalized /\ c.blocks # <<>>
    /\ {c.position_for_cues : c \in ToSet(segment.clusters)}
         = {q.cluster : q \in ToSet(segment.cues)}

=============================================================================
