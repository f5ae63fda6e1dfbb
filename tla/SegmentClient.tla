----------------------------- MODULE SegmentClient -----------------------------
(***************************************************************************)
(* A caller of mkvmuxer::Segment with a video and an audio track, as the   *)
(* disabled audio path of the program would be: every call of the public   *)
(* interface in any order.  Each track is offered frames of its own, whose *)
(* times move by Steps and stay within MaxSkew of the other track's.       *)
(***************************************************************************)
EXTENDS Segment

CONSTANTS
  VideoSteps, AudioSteps,  \* how a track's time moves from frame to frame
  MaxSkew,                 \* how far apart the two tracks' times may be
  MaxFrames,               \* bound: frames offered
  Forcing                  \* whether ForceNewClusterOnNextFrame is called

ASSUME ClientAssumption ==
  /\ VideoSteps \subseteq Int /\ AudioSteps \subseteq Int
  /\ MaxSkew \in Nat /\ MaxFrames \in Nat
  /\ Forcing \in BOOLEAN

VARIABLES
  segment,   \* the Segment
  offered,   \* [track -> time of the last frame offered]
  count,     \* frames offered
  accepted,  \* the frames AddGenericFrame returned true for
  refused,   \* whether it returned false for a frame that was in order
  finished   \* "no", "ok" or "failed": what Finalize returned

vars == <<segment, offered, count, accepted, refused, finished>>

Init ==
  /\ segment = NewSegment
  /\ offered = [t \in {VideoTrackNumber, AudioTrackNumber} |-> 0]
  /\ count = 0
  /\ accepted = <<>>
  /\ refused = FALSE
  /\ finished = "no"

Offer(track, step, key) ==
  LET ts == offered[track] + step
      other == offered[VideoTrackNumber + AudioTrackNumber - track]
      f == [track |-> track, timestamp |-> ts, is_key |-> key,
            valid |-> TRUE, id |-> count + 1]
      r == AddGenericFrame(segment, f)
  IN /\ finished = "no" /\ ~segment.crashed
     /\ count < MaxFrames
     /\ ts >= 0 /\ ts - other <= MaxSkew /\ other - ts <= MaxSkew
     /\ segment' = r.seg
     /\ offered' = [offered EXCEPT ![track] = ts]
     /\ count' = count + 1
     /\ accepted' = IF r.ok THEN Append(accepted, f) ELSE accepted
     /\ refused' = (refused \/ (~r.ok /\ ts >= segment.last_timestamp))
     /\ UNCHANGED finished

OfferVideo ==
  \E step \in VideoSteps, key \in BOOLEAN : Offer(VideoTrackNumber, step, key)

OfferAudio ==
  \E step \in AudioSteps : Offer(AudioTrackNumber, step, TRUE)

ForceNewCluster ==
  /\ Forcing /\ finished = "no" /\ ~segment.crashed
  /\ ~segment.force_new_cluster
  /\ segment' = ForceNewClusterOnNextFrame(segment)
  /\ UNCHANGED <<offered, count, accepted, refused, finished>>

Finish ==
  /\ finished = "no" /\ ~segment.crashed
  /\ \E sizeMatches \in BOOLEAN :
       LET r == Finalize(segment, sizeMatches)
       IN /\ segment' = r.seg
          /\ finished' = IF r.ok THEN "ok" ELSE "failed"
  /\ UNCHANGED <<offered, count, accepted, refused>>

Next == OfferVideo \/ OfferAudio \/ ForceNewCluster \/ Finish

Spec == Init /\ [][Next]_vars

-----------------------------------------------------------------------------
(* Two tracks that keep together. *)

(* How many timecodes m units of time span at most.                        *)
Leap(m) == m \div TimecodeScale + 1

(* A leap from anywhere in a cluster stays within a block's reach of it.   *)
Roomy(m) ==
  /\ m \in Nat
  /\ Leap(m) + Leap(m) <= MaxBlockTimecode
  /\ Span + Leap(m) <= MaxBlockTimecode

(* No video frame is more than m after the one before, none of the two     *)
(* tracks is more than m ahead of the other, and audio does not go back;   *)
(* m leaves room in a cluster.                                             *)
Gentle(m) ==
  /\ Roomy(m)
  /\ MaxSkew <= m
  /\ \A step \in VideoSteps : step <= m
  /\ AudioSteps \subseteq Nat

-----------------------------------------------------------------------------
(* Properties. *)

(* The file's blocks, in the order they were written.                      *)
File(s) == FlattenSeq([i \in DOMAIN s.clusters |-> s.clusters[i].blocks])

VideoBlocks(c) ==
  {i \in DOMAIN c.blocks : c.blocks[i].track = VideoTrackNumber}

(* The cues index the file: a cluster with video has exactly one cue, at   *)
(* the cluster's position in the file, with the number and the time of its *)
(* first video block, and there are no other cues.  The position is taken  *)
(* when the cluster is made, before its header is written, and the cue is  *)
(* added in whichever of the three writing loops meets the first video     *)
(* block.                                                                  *)
CuesIndexClusters ==
  LET Start(i) == MaxOffset([clusters |-> SubSeq(segment.clusters, 1, i - 1)])
      CueOf(i) == LET b == Min(VideoBlocks(segment.clusters[i]))
                  IN [time |-> Timecode(segment.clusters[i].blocks[b].timestamp),
                      cluster |-> Start(i), block |-> b]
      withVideo == {i \in DOMAIN segment.clusters :
                      VideoBlocks(segment.clusters[i]) # {}}
  IN /\ ToSet(segment.cues) = {CueOf(i) : i \in withVideo}
     /\ Len(segment.cues) = Cardinality(withVideo)

(* A video key frame is the first video block of its cluster, so that a    *)
(* player that seeks to a cluster can start decoding there.                *)
KeyFramesOpenClusters ==
  \A c \in ToSet(segment.clusters) : \A i \in VideoBlocks(c) :
    c.blocks[i].is_key => i = Min(VideoBlocks(c))

(* Every frame accepted is in the file or in the queue, exactly once, and  *)
(* no other is; after a successful Finalize all are in the file.  This is  *)
(* so for tracks that keep together (Gentle); a queued frame that the next *)
(* cluster refuses is lost.                                                *)
AcceptedIsKept ==
  LET kept == File(segment) \o segment.frames
  IN /\ ~segment.crashed
     /\ segment.freed = 0
     /\ Len(kept) = Len(accepted)
     /\ ToSet(kept) = ToSet(accepted)
     /\ finished = "ok" => segment.frames = <<>>

(* Once a video frame was accepted, Finalize succeeds, with the sizes of   *)
(* all clusters written, whatever was offered since.                       *)
VideoCanBeFinished ==
  [][(finished # finished' /\ \E f \in ToSet(accepted) : f.track = VideoTrackNumber)
       => /\ finished' = "ok"
          /\ \A c \in ToSet(segment'.clusters) : c.finalized]_vars

(* "Audio blocks that contain the video key frame's timecode should be in  *)
(* the same cluster as the video key frame block" (mkvmuxer.hpp:1421-1423): *)
(* of the audio queued when a video key frame is written, the last that    *)
(* is not later than it ends up in its cluster.                            *)
AudioWithKeyFrame ==
  [][\A c \in ToSet(segment'.clusters) : \A k \in VideoBlocks(c) :
       LET key == c.blocks[k]
           early == {f \in ToSet(segment.frames) : f.timestamp <= key.timestamp}
       IN (key.is_key /\ key.id = count + 1 /\ early # {}) =>
            \E a \in ToSet(c.blocks) :
              /\ a \in early
              /\ \A f \in early : f.id <= a.id]_vars

(* TestFrame's "1 = create a new cluster, and write frame to that new      *)
(* cluster" and "2 = create a new cluster, and re-run test"                *)
(* (mkvmuxer.hpp:1336-1337): a frame with data that is not earlier than    *)
(* the ones before it is written or queued.                                *)
FrameInOrderIsWritten == ~refused

=============================================================================
