-------------------------------- MODULE Segment --------------------------------
(***************************************************************************)
(* mkvmuxer::Segment (src/src/libwebm/mkvmuxer.cpp), the writer of the     *)
(* WebM file, as WebmMuxer sets it up: kFile mode, a seekable writer that  *)
(* does not fail, cues on the video track, no chunking and no bound on the *)
(* size of a cluster.                                                      *)
(*                                                                         *)
(* A segment is a record and every operator is one method: it returns      *)
(* whether the method succeeded and the segment it leaves, failed or not.  *)
(* The file is the sequence of clusters with the blocks written to them; a *)
(* position in it counts cluster headers and blocks.  `freed' is how many  *)
(* of the queued frames, from the front, have been deleted while still in  *)
(* the queue; touching one of those is undefined, which `crashed' records. *)
(***************************************************************************)
EXTENDS Integers, SequencesExt

CONSTANTS
  TimecodeScale,       \* time units of a timestamp in one timecode
  MaxBlockTimecode,    \* kMaxBlockTimecode
  MaxClusterDuration,  \* max_cluster_duration_, in units of a timestamp
  Extras               \* how many of chapters and tags the segment has

ASSUME SegmentAssumption ==
  /\ TimecodeScale \in Nat \ {0}
  /\ MaxBlockTimecode \in Nat
  /\ MaxClusterDuration \in Nat \ {0}
  /\ Extras \in 0 .. 2

VideoTrackNumber == 1
AudioTrackNumber == 2
kSeekEntryCount == 5

NewSegment ==
  [header_written |-> FALSE, seeks |-> 0, clusters |-> <<>>, cues |-> <<>>,
   frames |-> <<>>, freed |-> 0, force_new_cluster |-> FALSE,
   new_cuepoint |-> FALSE, last_timestamp |-> 0, crashed |-> FALSE]

Succeeded(s) == [ok |-> TRUE, seg |-> s]
Refused(s) == [ok |-> FALSE, seg |-> s]
Crashed(s) == Refused([s EXCEPT !.crashed = TRUE])

(* The next statement, unless an earlier one returned an error.            *)
Then(r, Next(_)) == IF r.ok THEN Next(r.seg) ELSE r

Timecode(ts) == ts \div TimecodeScale

(* The last timecode, from its beginning, a cluster takes frames for.      *)
Span == (MaxClusterDuration - 1) \div TimecodeScale

(* What has been written of a cluster: its header and its blocks.          *)
Written(c) == Len(c.blocks) + IF c.header_written THEN 1 ELSE 0

(* Position in the file: what has been written so far.                     *)
MaxOffset(s) ==
  LET sum[n \in 0 .. Len(s.clusters)] ==
        IF n = 0 THEN 0 ELSE sum[n - 1] + Written(s.clusters[n])
  IN sum[Len(s.clusters)]

-----------------------------------------------------------------------------
(* Writing to the last cluster. *)

(* Cluster::AddFrame: the header goes out with the first block, even when  *)
(* the block itself then cannot be written.                                *)
AddFrame(c, f) ==
  LET opened == [c EXCEPT !.header_written = TRUE]
      inRange == Timecode(f.timestamp) - c.timecode \in 0 .. MaxBlockTimecode
  IN CASE ~f.valid \/ c.finalized -> [ok |-> FALSE, cluster |-> c]
       [] f.valid /\ ~c.finalized /\ ~inRange ->
            [ok |-> FALSE, cluster |-> opened]
       [] f.valid /\ ~c.finalized /\ inRange ->
            [ok |-> TRUE,
             cluster |-> [opened EXCEPT !.blocks = Append(@, f)]]

(* Variant: the number of the block the cue is for, counted from zero.     *)
AddCuePointFromZero(s, f) ==
  LET c == Last(s.clusters)
  IN [s EXCEPT !.new_cuepoint = FALSE,
               !.cues = Append(@, [time |-> Timecode(f.timestamp),
                                   cluster |-> c.position_for_cues,
                                   block |-> Len(c.blocks) - 1])]

AddCuePoint(s, f) ==
  LET c == Last(s.clusters)
  IN [s EXCEPT !.new_cuepoint = FALSE,
               !.cues = Append(@, [time |-> Timecode(f.timestamp),
                                   cluster |-> c.position_for_cues,
                                   block |-> Len(c.blocks)])]

(* A frame into the last cluster, with the cue the cluster still lacks.    *)
WriteBlock(s, f) ==
  LET n == Len(s.clusters)
      added == AddFrame(s.clusters[n], f)
      t == [s EXCEPT !.clusters[n] = added.cluster]
  IN CASE ~added.ok -> Refused(t)
       [] added.ok /\ t.new_cuepoint /\ f.track = VideoTrackNumber ->
            Succeeded(AddCuePoint(t, f))
       [] OTHER -> Succeeded(t)

(* A queued frame into the last cluster; the queue keeps a deleted frame.  *)
WriteQueued(s, f) ==
  Then(WriteBlock(s, f),
       LAMBDA t : Succeeded([t EXCEPT
         !.freed = @ + 1,
         !.last_timestamp = IF f.timestamp > @ THEN f.timestamp ELSE @]))

WriteQueue(s, queue) ==
  LET after[n \in 0 .. Len(queue)] ==
        IF n = 0 THEN Succeeded(s)
        ELSE Then(after[n - 1], LAMBDA t : WriteQueued(t, queue[n]))
  IN after[Len(queue)]

WriteFramesAll(s) ==
  CASE s.frames = <<>> -> Succeeded(s)
    [] s.frames # <<>> /\ s.clusters = <<>> -> Refused(s)
    [] s.frames # <<>> /\ s.clusters # <<>> /\ s.freed > 0 -> Crashed(s)
    [] OTHER ->
         Then(WriteQueue(s, s.frames),
              LAMBDA t : Succeeded([t EXCEPT !.frames = <<>>, !.freed = 0]))

(* Variant: the frame that reaches into the new cluster is written too.    *)
WriteFramesLessThanAll(s, timestamp) ==
  LET early == {i \in 1 .. Len(s.frames) : s.frames[i].timestamp <= timestamp}
      shift == Cardinality(early)
  IN IF s.frames = <<>> \/ s.clusters = <<>> THEN Succeeded(s)
     ELSE Then(WriteQueue(s, SubSeq(s.frames, 1, shift)),
               LAMBDA t : Succeeded([t EXCEPT
                 !.frames = SubSeq(@, shift + 1, Len(@)), !.freed = 0]))

(* Variant: the queue is moved down by one frame too many.                 *)
WriteFramesLessThanShort(s, timestamp) ==
  LET later == {i \in 2 .. Len(s.frames) : s.frames[i].timestamp > timestamp}
      shift == (IF later = {} THEN Len(s.frames) ELSE Min(later) - 1) - 1
  IN IF s.frames = <<>> \/ s.clusters = <<>> THEN Succeeded(s)
     ELSE Then(WriteQueue(s, SubSeq(s.frames, 1, shift)),
               LAMBDA t : Succeeded([t EXCEPT
                 !.frames = SubSeq(@, shift + 2, Len(@)), !.freed = 0]))

(* The frames followed by another one that is not after timestamp.         *)
WriteFramesLessThan(s, timestamp) ==
  LET later == {i \in 2 .. Len(s.frames) : s.frames[i].timestamp > timestamp}
      shift == (IF later = {} THEN Len(s.frames) ELSE Min(later) - 1) - 1
  IN CASE s.frames = <<>> \/ s.clusters = <<>> -> Succeeded(s)
       [] s.frames # <<>> /\ s.clusters # <<>> /\ s.freed > 0 ->
            IF shift > 0 \/ (s.freed > 1 /\ Len(s.frames) > 1)
            THEN Crashed(s) ELSE Succeeded(s)
       [] OTHER ->
            Then(WriteQueue(s, SubSeq(s.frames, 1, shift)),
                 LAMBDA t : Succeeded([t EXCEPT
                   !.frames = SubSeq(@, shift + 1, Len(@)), !.freed = 0]))

-----------------------------------------------------------------------------
(* Clusters. *)

(* Cluster::Finalize of the last cluster: it fails when nothing was ever   *)
(* written to it.                                                          *)
FinalizeCluster(s) ==
  LET n == Len(s.clusters)
  IN CASE n = 0 -> Succeeded(s)
       [] n > 0 /\ (s.clusters[n].finalized \/ ~s.clusters[n].header_written) ->
            Refused(s)
       [] OTHER -> Succeeded([s EXCEPT !.clusters[n].finalized = TRUE])

(* Variant: the timecode ignores the frames still queued.                  *)
OpenClusterLate(s, timestamp) ==
  [s EXCEPT !.new_cuepoint = TRUE,
            !.clusters =
     Append(@, [timecode |-> Timecode(timestamp), finalized |-> FALSE,
                header_written |-> FALSE,
                position_for_cues |-> MaxOffset(s), blocks |-> <<>>])]

(* The new cluster starts at the frame or at the earliest queued one.      *)
OpenCluster(s, timestamp) ==
  LET queued == IF s.frames = <<>> THEN timestamp ELSE s.frames[1].timestamp
      first == IF Timecode(queued) < Timecode(timestamp)
               THEN Timecode(queued) ELSE Timecode(timestamp)
  IN [s EXCEPT !.new_cuepoint = TRUE,
               !.clusters =
        Append(@, [timecode |-> first, finalized |-> FALSE,
                   header_written |-> FALSE,
                   position_for_cues |-> MaxOffset(s), blocks |-> <<>>])]

(* Variant: the cluster before is left open.                               *)
MakeNewClusterOpen(s, timestamp) ==
  Then(WriteFramesLessThan(s, timestamp), LAMBDA t :
    IF t.freed > 0 THEN Crashed(t) ELSE Succeeded(OpenCluster(t, timestamp)))

MakeNewCluster(s, timestamp) ==
  Then(WriteFramesLessThan(s, timestamp), LAMBDA t :
    Then(FinalizeCluster(t), LAMBDA u :
      IF u.freed > 0 THEN Crashed(u)
      ELSE Succeeded(OpenCluster(u, timestamp))))

(* Variant: a key frame does not open a cluster.                           *)
TestFrameNoKey(s, f) ==
  LET c == Last(s.clusters)
      delta == Timecode(f.timestamp) - c.timecode
  IN CASE s.force_new_cluster -> 1
       [] ~s.force_new_cluster /\ s.clusters = <<>> -> 1
       [] OTHER ->
            CASE delta < 0 -> -1
              [] delta > MaxBlockTimecode -> 2
              [] delta \in 0 .. MaxBlockTimecode ->
                   IF delta * TimecodeScale >= MaxClusterDuration
                   THEN 1 ELSE 0

(* -1: out of order; 0: into the last cluster; 1: into a new cluster;      *)
(* 2: make a new cluster and test again.                                   *)
TestFrame(s, f) ==
  LET c == Last(s.clusters)
      delta == Timecode(f.timestamp) - c.timecode
  IN CASE s.force_new_cluster -> 1
       [] ~s.force_new_cluster /\ s.clusters = <<>> -> 1
       [] OTHER ->
            CASE delta < 0 -> -1
              [] delta > MaxBlockTimecode -> 2
              [] delta \in 0 .. MaxBlockTimecode ->
                   IF \/ f.is_key /\ f.track = VideoTrackNumber
                      \/ delta * TimecodeScale >= MaxClusterDuration
                   THEN 1 ELSE 0

(* One turn of the loop of DoNewClusterProcessing.                         *)
Turn(s, f) ==
  LET result == TestFrame(s, f)
      t == [s EXCEPT !.force_new_cluster = FALSE]
      made == IF result > 0 THEN MakeNewCluster(t, f.timestamp)
                            ELSE Succeeded(t)
      done == IF result < 0 THEN Refused(s) ELSE Then(made, WriteFramesAll)
  IN [ok |-> done.ok, seg |-> done.seg, again |-> result = 2]

(* The loop ends after three turns: the second new cluster finds the queue *)
(* empty and starts at the frame itself.                                   *)
DoNewClusterProcessing(s, f) ==
  LET Again(r) == IF r.ok /\ r.again THEN Turn(r.seg, f) ELSE r
  IN Again(Again(Turn(s, f)))

-----------------------------------------------------------------------------
(* The segment's interface. *)

ForceNewClusterOnNextFrame(s) == [s EXCEPT !.force_new_cluster = TRUE]

(* Variant: one seek entry too many.                                       *)
CheckHeaderInfoExtra(s) ==
  IF s.header_written THEN Succeeded(s)
  ELSE Succeeded([s EXCEPT !.header_written = TRUE, !.seeks = @ + 4 + Extras])

(* CheckHeaderInfo: the header takes seek entries for the info, the        *)
(* tracks, the chapters and the tags, and then one for the first cluster.  *)
(* Each Finalize that failed before has taken one as well: without room    *)
(* for the header it fails for good, without room for the last just once.  *)
CheckHeaderInfo(s) ==
  LET used == s.seeks + 2 + Extras
  IN CASE s.header_written -> Succeeded(s)
       [] ~s.header_written /\ used > kSeekEntryCount ->
            Refused([s EXCEPT !.seeks = kSeekEntryCount])
       [] ~s.header_written /\ used = kSeekEntryCount ->
            Refused([s EXCEPT !.seeks = used, !.header_written = TRUE])
       [] ~s.header_written /\ used < kSeekEntryCount ->
            Succeeded([s EXCEPT !.seeks = used + 1, !.header_written = TRUE])

(* Frames of the audio track wait for the next video frame.                *)
AddGenericFrame(s, f) ==
  Then(CheckHeaderInfo(s), LAMBDA t :
    LET inOrder == /\ f.timestamp >= t.last_timestamp
                   /\ f.track \in {VideoTrackNumber, AudioTrackNumber}
    IN CASE ~inOrder -> Refused(t)
         [] inOrder /\ f.track = AudioTrackNumber /\ ~t.force_new_cluster ->
              Succeeded([t EXCEPT !.frames = Append(@, f)])
         [] OTHER ->
              Then(DoNewClusterProcessing(t, f), LAMBDA u :
                Then(WriteBlock(u, f), LAMBDA v :
                  Succeeded([v EXCEPT !.last_timestamp = f.timestamp]))))

(* Without a header it rewrites one and compares its size with the member  *)
(* ebml_header_size_, which nothing has set: sizeMatches is what it holds. *)
Finalize(s, sizeMatches) ==
  Then(WriteFramesAll(s), LAMBDA t :
    Then(FinalizeCluster(t), LAMBDA u :
      CASE u.seeks >= kSeekEntryCount -> Refused(u)
        [] u.seeks < kSeekEntryCount /\ ~u.header_written /\ ~sizeMatches ->
             Refused([u EXCEPT !.seeks = @ + 1])
        [] OTHER -> Succeeded([u EXCEPT !.seeks = @ + 1])))

=============================================================================
