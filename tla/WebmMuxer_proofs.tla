---------------------------- MODULE WebmMuxer_proofs ----------------------------
(***************************************************************************)
(* What the file of a recording holds, for every caller of WebmMuxer.      *)
(*                                                                         *)
(* The muxer feeds only video to its segment, so the queue stays empty and *)
(* each cluster with a header has blocks: Muxed says so, on top of what    *)
(* Good of Segment_proofs says of every segment. Content is the file; the  *)
(* lemmas about FlattenSeq say how a cluster and a block change it.        *)
(*                                                                         *)
(* Holds relates the file to the frames answered with true, and MuxerInv   *)
(* carries it through the calls: AnswersAreWritten, FinishCompletes.       *)
(*                                                                         *)
(* PictureFrozen needs more: that no frame is refused in between. Fresh,   *)
(* Open and Stuck are what a segment can be (no frame yet; the last frame  *)
(* at time l; closed by Finish), and the lemmas about them say which frame *)
(* each is sure to write, or to refuse. Shown is the file as the picture   *)
(* wants it, and PicInv says it of the file and the frames delayed         *)
(* together.                                                               *)
(***************************************************************************)
EXTENDS WebmMuxer, Segment_proofs

(* A cluster has blocks, all of video, from its header on.                 *)
Whole(c) ==
  /\ c.header_written => c.blocks # <<>>
  /\ c.blocks # <<>> => c.header_written
  /\ c.finalized => c.header_written
  /\ \A i \in DOMAIN c.blocks : c.blocks[i].track = VideoTrackNumber

AllWhole(cs) == \A i \in DOMAIN cs : Whole(cs[i])

(* A segment that was fed video only.                                      *)
Muxed(s) ==
  /\ Good(s)
  /\ s.frames = <<>> /\ s.freed = 0
  /\ AllWhole(s.clusters) /\ Closed(s.clusters)

(* Muxed is about the clusters, the cues and the queue.                     *)
LEMMA MuxedSame ==
  ASSUME NEW s, Muxed(s), NEW t, Good(t), t.clusters = s.clusters,
         t.frames = s.frames, t.freed = s.freed
  PROVE  Muxed(t) /\ Content(t) = Content(s)
BY DEF Muxed, Content

(* A segment that nothing was written to holds nothing.                     *)
LEMMA NewIsMuxed == Muxed(NewSegment) /\ Content(NewSegment) = <<>>
<1>1. /\ NewSegment.clusters = <<>> /\ NewSegment.frames = <<>>
      /\ NewSegment.freed = 0
  BY DEF NewSegment
<1>2. Parts(<<>>) = <<>>
  BY DEF Parts
<1>3. FlattenSeq(<<>>) = <<>>
  BY DEF FlattenSeq
<1> QED
  BY <1>1, <1>2, <1>3, NewIsGood DEF Muxed, AllWhole, Closed, Content

(* With nothing queued there is nothing to write before the frame.         *)
LEMMA NothingQueued ==
  ASSUME NEW s, s.frames = <<>>, NEW timestamp
  PROVE  /\ WriteFramesAll(s) = Succeeded(s)
         /\ WriteFramesLessThan(s, timestamp) = Succeeded(s)
BY DEF WriteFramesAll, WriteFramesLessThan

(* A cluster closed leaves the file as it is.                               *)
LEMMA FinalizeClusterMuxed ==
  ASSUME NEW s, Muxed(s)
  PROVE  LET q == FinalizeCluster(s) IN
         /\ q.ok \in BOOLEAN /\ Muxed(q.seg) /\ Content(q.seg) = Content(s)
         /\ q.ok => AllFinalized(q.seg.clusters)
<1> DEFINE n == Len(s.clusters)
           c == s.clusters[n]
           d == [c EXCEPT !.finalized = TRUE]
           ds == [s.clusters EXCEPT ![n] = d]
           t == [s EXCEPT !.clusters = ds]
           q == FinalizeCluster(s)
<1>1. /\ Good(s) /\ s.clusters \in Seq(Cluster) /\ n \in Nat
      /\ s \in SegmentType /\ AllWhole(s.clusters) /\ Closed(s.clusters)
      /\ s.frames = <<>> /\ s.freed = 0
  BY GoodTypes DEF Muxed
<1>2. q.ok \in BOOLEAN /\ Good(q.seg)
  BY <1>1, FinalizeClusterKept DEF Kept
<1>3. CASE n = 0
  <2>1. q = [ok |-> TRUE, seg |-> s]
    BY <1>3 DEF FinalizeCluster, Succeeded
  <2>2. AllFinalized(s.clusters)
    <3>1. DOMAIN s.clusters = {}
      BY <1>1, <1>3, LenProperties
    <3> QED
      BY <3>1 DEF AllFinalized
  <2> HIDE DEF q
  <2> QED
    BY <2>1, <2>2 DEF q
<1>4. CASE n # 0 /\ (c.finalized \/ ~c.header_written)
  <2>1. q = [ok |-> FALSE, seg |-> s]
    BY <1>1, <1>4 DEF FinalizeCluster, Refused
  <2> HIDE DEF q
  <2> QED
    BY <2>1 DEF q
<1>5. CASE n # 0 /\ ~(c.finalized \/ ~c.header_written)
  <2>1. q = Succeeded([s EXCEPT !.clusters[n].finalized = TRUE])
    BY <1>1, <1>5 DEF FinalizeCluster
  <2>2. [s EXCEPT !.clusters[n].finalized = TRUE] = t
    OBVIOUS
  <2>3. q.ok = TRUE /\ q.seg = t
    BY <2>1, <2>2 DEF Succeeded
  <2>4. n \in 1 .. n /\ c \in Cluster
    BY <1>1, <1>5, ElementOfSeq
  <2>5. /\ d \in Cluster /\ d.blocks = c.blocks /\ d.finalized
        /\ d.header_written
    <3> HIDE DEF c
    <3> QED
      BY <1>5, <2>4 DEF Cluster
  <2>6. LastReplaced(s.clusters, ds, d)
    BY <1>1, <1>5, <2>5 DEF LastReplaced
  <2>7. /\ ds \in Seq(Cluster) /\ Len(ds) = n /\ DOMAIN ds = 1 .. n
        /\ DOMAIN s.clusters = 1 .. n
        /\ ds[n] = d
        /\ \A i \in 1 .. n : i # n => ds[i] = s.clusters[i]
    <3> HIDE DEF d, ds
    <3> QED
      BY <2>6, ReplacedLast
  <2>8. /\ t.clusters = ds /\ t.frames = s.frames /\ t.freed = s.freed
    BY <1>1, <2>7, WithClusters DEF SameButClusters
  <2>9. Whole(d)
    <3>1. Whole(c)
      BY <1>1, <2>4, <2>7 DEF AllWhole
    <3> HIDE DEF c, d
    <3> QED
      BY <1>5, <2>5, <3>1 DEF Whole
  <2> HIDE DEF t, ds, d, q, n
  <2>10. AllWhole(ds)
    BY <1>1, <2>7, <2>9 DEF AllWhole
  <2>11. AllFinalized(ds) /\ Closed(ds)
    BY <1>1, <2>5, <2>7 DEF AllFinalized, Closed, n
  <2>12. Muxed(t)
    BY <1>1, <1>2, <2>3, <2>8, <2>10, <2>11 DEF Muxed
  <2>13. Content(t) = Content(s)
    BY <2>5, <2>6, <2>8, ContentFlagged DEF Content, n
  <2> QED
    BY <2>3, <2>8, <2>11, <2>12, <2>13 DEF q
<1> QED
  BY <1>3, <1>4, <1>5

-----------------------------------------------------------------------------
(* A video frame added to the segment. *)

(* The last cluster takes a block with the frame's timecode.               *)
Fits(s, f) ==
  /\ Len(s.clusters) # 0
  /\ Timecode(f.timestamp) - Last(s.clusters).timecode \in 0 .. MaxBlockTimecode

(* What is done before the block is written keeps the file, and leaves a   *)
(* cluster the frame fits into.                                            *)
Prepared(s, f, r) ==
  /\ r.ok \in BOOLEAN /\ Muxed(r.seg) /\ Content(r.seg) = Content(s)
  /\ r.ok => Fits(r.seg, f)

(* So does a cluster made, and the frame fits into it.                      *)
LEMMA MakeNewClusterMuxed ==
  ASSUME NEW s, Muxed(s), NEW f \in Frame
  PROVE  Prepared(s, f, MakeNewCluster(s, f.timestamp))
<1> DEFINE ts == f.timestamp
           q == FinalizeCluster(s)
           u == q.seg
           o == OpenCluster(u, ts)
           e == NewCluster(u, ts)
           m == MakeNewCluster(s, ts)
<1>0. s.frames = <<>> /\ ts \in Int
  BY DEF Muxed, Frame
<1>1. WriteFramesLessThan(s, ts) = Succeeded(s)
  BY <1>0, NothingQueued
<1>2. m = IF q.ok THEN IF u.freed > 0 THEN Crashed(u) ELSE Succeeded(o) ELSE q
  BY <1>1 DEF MakeNewCluster, Then, Succeeded
<1>3. /\ q.ok \in BOOLEAN /\ Muxed(u) /\ Content(u) = Content(s)
      /\ q.ok => AllFinalized(u.clusters)
  BY FinalizeClusterMuxed
<1> HIDE DEF q, m
<1>4. CASE ~q.ok
  <2>1. m = q
    BY <1>2, <1>4
  <2> QED
    BY <1>3, <1>4, <2>1 DEF Prepared, m
<1>5. CASE q.ok
  <2> HIDE DEF u
  <2>1. /\ Good(u) /\ u.freed = 0 /\ u.frames = <<>>
        /\ AllWhole(u.clusters) /\ AllFinalized(u.clusters)
    BY <1>3, <1>5 DEF Muxed
  <2>2. m = Succeeded(o)
    BY <1>2, <1>5, <2>1 DEF u
  <2>3. Opened(u, o, e)
    BY <1>0, <2>1, OpenClusterOpens
  <2>4. e.timecode = Timecode(ts)
    BY <2>1 DEF NewCluster
  <2> HIDE DEF o, e
  <2>5. /\ Good(o) /\ o.clusters = Append(u.clusters, e)
        /\ e \in Cluster /\ e.blocks = <<>>
        /\ ~e.header_written /\ ~e.finalized
        /\ o.frames = <<>> /\ o.freed = 0
    BY <2>1, <2>3 DEF Opened, SameButClusters
  <2> DEFINE n == Len(u.clusters)
  <2>6. /\ n \in Nat /\ u.clusters \in Seq(Cluster)
        /\ DOMAIN u.clusters = 1 .. n
        /\ Len(o.clusters) = n + 1 /\ DOMAIN o.clusters = 1 .. n + 1
        /\ \A i \in 1 .. n : o.clusters[i] = u.clusters[i]
        /\ o.clusters[n + 1] = e
    <3>1. n \in Nat /\ u.clusters \in Seq(Cluster) /\ DOMAIN u.clusters = 1 .. n
      BY <2>1, GoodTypes, LenProperties
    <3>2. o.clusters \in Seq(Cluster)
      BY <2>5, GoodTypes
    <3> QED
      BY <2>5, <3>1, <3>2, AppendProperties, LenProperties
  <2> HIDE DEF n
  <2>7. Whole(e)
    BY <2>5 DEF Whole
  <2>8. AllWhole(o.clusters)
    BY <2>1, <2>6, <2>7 DEF AllWhole
  <2>9. Closed(o.clusters)
    BY <2>1, <2>6 DEF Closed, AllFinalized
  <2>10. Content(o) = Content(u)
    BY <2>5, <2>6, ContentOpened DEF Content
  <2>11. Fits(o, f)
    <3>1. Last(o.clusters).timecode = Timecode(ts)
      BY <2>4, <2>6 DEF Last
    <3>2. Timecode(ts) \in Int
      BY <1>0, TimecodeType
    <3>3. Timecode(ts) - Timecode(ts) = 0
      BY <3>2
    <3> QED
      BY <2>6, <3>1, <3>3, SegmentAssumption DEF Fits
  <2>12. Muxed(o)
    BY <2>5, <2>8, <2>9 DEF Muxed
  <2>13. m.ok = TRUE /\ m.seg = o
    BY <2>2 DEF Succeeded
  <2> QED
    BY <1>3, <2>10, <2>11, <2>12, <2>13 DEF Prepared, m, u
<1> QED
  BY <1>3, <1>4, <1>5

(* So does a turn of the loop.                                              *)
LEMMA TurnMuxed ==
  ASSUME NEW s, Muxed(s), NEW f \in Frame
  PROVE  Prepared(s, f, Turn(s, f))
<1> DEFINE result == TestFrame(s, f)
           t == [s EXCEPT !.force_new_cluster = FALSE]
           made == IF result > 0 THEN MakeNewCluster(t, f.timestamp)
                                 ELSE Succeeded(t)
           r == Turn(s, f)
<1>1. Good(s) /\ result \in {-1, 0, 1, 2}
  BY TestFrameResult DEF Muxed
<1>2. Muxed(t) /\ Content(t) = Content(s) /\ t.clusters = s.clusters
  <2>1. /\ t \in SegmentType /\ t.clusters = s.clusters /\ t.cues = s.cues
        /\ t.frames = s.frames /\ t.freed = s.freed
        /\ t.new_cuepoint <=> s.new_cuepoint
    <3>1. s \in SegmentType
      BY <1>1, GoodTypes
    <3> QED
      BY <3>1 DEF SegmentType
  <2>2. AudioOnly(t.frames)
    BY <1>1, <2>1, GoodTypes
  <2> HIDE DEF t
  <2>3. Good(t)
    BY <1>1, <2>1, <2>2, GoodSame
  <2> QED
    BY <2>1, <2>3, MuxedSame
<1>3. ~(result < 0) => Prepared(s, f, made)
  <2>1. CASE result > 0
    <3>1. made = MakeNewCluster(t, f.timestamp)
      BY <2>1
    <3>2. Prepared(t, f, made)
      BY <1>2, <3>1, MakeNewClusterMuxed
    <3> QED
      BY <1>2, <3>2 DEF Prepared
  <2>2. CASE result = 0
    <3>1. made.ok = TRUE /\ made.seg = t
      BY <2>2 DEF Succeeded
    <3>2. Fits(s, f)
      BY <1>1, <2>2, TestFrameResult DEF Fits
    <3>3. Fits(t, f)
      BY <1>2, <3>2 DEF Fits
    <3> HIDE DEF made, t
    <3> QED
      BY <1>2, <3>1, <3>3 DEF Prepared
  <2> QED
    BY <1>1, <2>1, <2>2
<1>4. /\ result < 0 => r.ok = FALSE /\ r.seg = s
      /\ ~(result < 0) => r.ok = made.ok /\ r.seg = made.seg
  <2> DEFINE all == WriteFramesAll(made.seg)
  <2>0. ~(result < 0) => all = Succeeded(made.seg)
    <3>1. ~(result < 0) => made.seg.frames = <<>>
      BY <1>3 DEF Prepared, Muxed
    <3> HIDE DEF made, result
    <3> QED
      BY <3>1, NothingQueued
  <2> HIDE DEF all, made, result
  <2>1. r = LET done == IF result < 0 THEN Refused(s)
                        ELSE IF made.ok THEN all ELSE made
            IN [ok |-> done.ok, seg |-> done.seg, again |-> result = 2]
    BY DEF Turn, Then, all, made, result
  <2> HIDE DEF r
  <2>2. result < 0 => r.ok = FALSE /\ r.seg = s
    BY <2>1 DEF Refused
  <2>3. ~(result < 0) /\ made.ok => r.ok = TRUE /\ r.seg = made.seg
    BY <2>0, <2>1 DEF Succeeded
  <2>4. ~(result < 0) /\ ~made.ok => r.ok = made.ok /\ r.seg = made.seg
    BY <2>1
  <2>5. ~(result < 0) => made.ok \in BOOLEAN
    BY <1>3 DEF Prepared
  <2> QED
    BY <2>2, <2>3, <2>4, <2>5
<1> HIDE DEF r, made, result
<1>5. CASE result < 0
  BY <1>4, <1>5 DEF Prepared, r
<1>6. CASE ~(result < 0)
  BY <1>3, <1>4, <1>6 DEF Prepared, r
<1> QED
  BY <1>5, <1>6

(* So do all its turns.                                                     *)
LEMMA DoNewClusterMuxed ==
  ASSUME NEW s, Muxed(s), NEW f \in Frame
  PROVE  Prepared(s, f, DoNewClusterProcessing(s, f))
<1> DEFINE Again(r) == IF r.ok /\ r.again THEN Turn(r.seg, f) ELSE r
           r1 == Turn(s, f)
           r2 == Again(r1)
           r3 == Again(r2)
<1>1. DoNewClusterProcessing(s, f) = r3
  BY DEF DoNewClusterProcessing
<1>2. Prepared(s, f, r1)
  BY TurnMuxed
<1> HIDE DEF r1
<1>3. Prepared(s, f, r2)
  <2>1. Prepared(r1.seg, f, Turn(r1.seg, f))
    BY <1>2, TurnMuxed DEF Prepared
  <2> QED
    BY <1>2, <2>1 DEF Prepared
<1> HIDE DEF r2
<1>4. Prepared(s, f, r3)
  <2>1. Prepared(r2.seg, f, Turn(r2.seg, f))
    BY <1>3, TurnMuxed DEF Prepared
  <2> QED
    BY <1>3, <2>1 DEF Prepared
<1> QED
  BY <1>1, <1>4

(* The block itself: it is the last of the file, or the file stays.        *)
Added(s, f, r) ==
  /\ r.ok \in BOOLEAN /\ Muxed(r.seg)
  /\ r.ok => Content(r.seg) = Append(Content(s), f)
  /\ ~r.ok => Content(r.seg) = Content(s)

(* A block of video in a cluster that holds video.                          *)
LEMMA BlockMuxed ==
  ASSUME NEW c \in Cluster, Whole(c), NEW f \in Frame,
         f.track = VideoTrackNumber, f.valid,
         Timecode(f.timestamp) - c.timecode \in 0 .. MaxBlockTimecode
  PROVE  LET a == AddFrame(c, f) IN
         /\ Whole(a.cluster)
         /\ ~a.ok => a.cluster = c
<1> DEFINE a == AddFrame(c, f)
           o == [c EXCEPT !.header_written = TRUE]
           d == [o EXCEPT !.blocks = Append(@, f)]
<1>1. CASE c.finalized
  <2>1. a = [ok |-> FALSE, cluster |-> c]
    BY <1>1 DEF AddFrame
  <2> QED
    BY <2>1
<1>2. CASE ~c.finalized
  <2>1. a = [ok |-> TRUE, cluster |-> d]
    BY <1>2 DEF AddFrame
  <2>2. o \in Cluster /\ o.header_written /\ o.blocks = c.blocks
    BY OpenedType
  <2> HIDE DEF o
  <2>3. /\ d \in Cluster /\ d.blocks = Append(c.blocks, f)
        /\ d.header_written
    BY <2>2, BlockedType
  <2> HIDE DEF d
  <2>4. /\ c.blocks \in Seq(Frame) /\ Len(c.blocks) \in Nat
        /\ DOMAIN c.blocks = 1 .. Len(c.blocks)
    BY LenProperties DEF Cluster
  <2>5. /\ Len(d.blocks) = Len(c.blocks) + 1
        /\ DOMAIN d.blocks = 1 .. Len(c.blocks) + 1
        /\ \A i \in 1 .. Len(c.blocks) : d.blocks[i] = c.blocks[i]
        /\ d.blocks[Len(c.blocks) + 1] = f
        /\ d.blocks # <<>>
    <3>1. Append(c.blocks, f) \in Seq(Frame)
      BY <2>4, AppendProperties
    <3> QED
      BY <2>3, <2>4, <3>1, AppendProperties, LenProperties
  <2>6. \A i \in DOMAIN d.blocks : d.blocks[i].track = VideoTrackNumber
    <3>1. \A i \in 1 .. Len(c.blocks) : c.blocks[i].track = VideoTrackNumber
      BY <2>4 DEF Whole
    <3> QED
      BY <2>4, <2>5, <3>1
  <2>7. Whole(d)
    BY <2>3, <2>5, <2>6 DEF Whole
  <2> HIDE DEF a
  <2> QED
    BY <2>1, <2>7 DEF a
<1> QED
  BY <1>1, <1>2

(* The same in the last cluster of the file.                                *)
LEMMA WriteBlockMuxed ==
  ASSUME NEW s, Muxed(s), NEW f \in Frame, Fits(s, f),
         f.track = VideoTrackNumber, f.valid, IsVideoKey(f) => s.new_cuepoint
  PROVE  Added(s, f, WriteBlock(s, f))
<1> DEFINE n == Len(s.clusters)
           c == s.clusters[n]
           a == AddFrame(c, f)
           r == WriteBlock(s, f)
           d == a.cluster
           ds == [s.clusters EXCEPT ![n] = d]
           t == r.seg
<1>1. /\ Good(s) /\ s \in SegmentType /\ s.clusters \in Seq(Cluster)
      /\ n \in Nat /\ n # 0 /\ s.frames = <<>> /\ s.freed = 0
      /\ AllWhole(s.clusters) /\ Closed(s.clusters)
  BY GoodTypes DEF Muxed, Fits
<1>2. n \in 1 .. n /\ c \in Cluster /\ DOMAIN s.clusters = 1 .. n
  BY <1>1, ElementOfSeq, LenProperties
<1>3. Timecode(f.timestamp) - c.timecode \in 0 .. MaxBlockTimecode
  BY DEF Fits, Last
<1>4. Whole(c)
  BY <1>1, <1>2 DEF AllWhole
<1>5. BlockWritten(s, f, r)
  BY <1>1, WriteBlockResult
<1>6. /\ r.ok \in BOOLEAN /\ (r.ok <=> a.ok) /\ Good(t)
      /\ t.clusters = ds /\ t.frames = s.frames /\ t.freed = s.freed
  BY <1>5 DEF BlockWritten, SameButClusters
<1>7. AddFrameResult(c, f, a)
  BY <1>2, AddFrameType
<1>8. Whole(d) /\ (~a.ok => d = c)
  <2> HIDE DEF c
  <2> QED
    BY <1>2, <1>3, <1>4, BlockMuxed
<1>9. /\ d \in Cluster
      /\ d.finalized <=> c.finalized
      /\ a.ok => d.blocks = Append(c.blocks, f)
      /\ ~a.ok => d.blocks = c.blocks
  BY <1>7 DEF AddFrameResult
<1> HIDE DEF r, t, a, c, d
<1>10. LastReplaced(s.clusters, ds, d)
  BY <1>1, <1>9 DEF LastReplaced
<1> HIDE DEF ds
<1>11. /\ Len(ds) = n /\ DOMAIN ds = 1 .. n /\ ds[n] = d
       /\ \A i \in 1 .. n : i # n => ds[i] = s.clusters[i]
  BY <1>10, ReplacedLast
<1> HIDE DEF n
<1>12. AllWhole(ds) /\ Closed(ds)
  <2>1. AllWhole(ds)
    BY <1>1, <1>2, <1>8, <1>11 DEF AllWhole
  <2>2. Closed(ds)
    BY <1>1, <1>2, <1>11 DEF Closed, n
  <2> QED
    BY <2>1, <2>2
<1>13. Muxed(t)
  BY <1>1, <1>6, <1>12 DEF Muxed
<1>14. r.ok => Content(t) = Append(Content(s), f)
  BY <1>6, <1>9, <1>10, ContentAdded DEF Content, c, n
<1>15. ~r.ok => Content(t) = Content(s)
  BY <1>6, <1>9, <1>10, ContentFlagged DEF Content, c, n
<1> QED
  BY <1>6, <1>13, <1>14, <1>15 DEF Added, t, r

(* The frames the muxer may add: those of the video track, and a repeated  *)
(* frame of which there is none yet, which the segment refuses.            *)
Muxable(f) ==
  /\ f \in Frame
  /\ f.track \in {0, VideoTrackNumber}
  /\ f.track = VideoTrackNumber => f.valid

(* AddGenericFrame writes the frame last, or leaves the file.               *)
LEMMA AddGenericFrameMuxed ==
  ASSUME NEW s, Muxed(s), NEW f, Muxable(f)
  PROVE  Added(s, f, AddGenericFrame(s, f))
<1> DEFINE h == CheckHeaderInfo(s)
           t == h.seg
           inOrder == /\ f.timestamp >= t.last_timestamp
                      /\ f.track \in {VideoTrackNumber, AudioTrackNumber}
           r == DoNewClusterProcessing(t, f)
           q == WriteBlock(r.seg, f)
           v == [q.seg EXCEPT !.last_timestamp = f.timestamp]
           x == AddGenericFrame(s, f)
<1>0. f \in Frame /\ f.track \in {0, 1} /\ (f.track = 1 => f.valid)
  BY DEF Muxable, VideoTrackNumber
<1>1. h.ok \in BOOLEAN /\ Muxed(t) /\ Content(t) = Content(s)
  <2>1. h.ok \in BOOLEAN /\ HeaderOnly(s, t)
    BY CheckHeaderInfoGood DEF Muxed
  <2> HIDE DEF t
  <2> QED
    BY <2>1, MuxedSame DEF HeaderOnly
<1> HIDE DEF h, t
<1>5. CASE ~h.ok
  <2>1. x = h
    BY <1>5 DEF AddGenericFrame, Then, h
  <2> HIDE DEF x
  <2> QED
    BY <1>1, <1>5, <2>1 DEF t, x, Added
<1>2. CASE h.ok /\ ~inOrder
  <2>1. x = Refused(t)
    BY <1>2 DEF AddGenericFrame, Then, h, t
  <2> QED
    BY <1>1, <2>1 DEF Refused, Added
<1>3. CASE h.ok /\ inOrder
  <2>0. f.track = VideoTrackNumber /\ f.track # AudioTrackNumber
    BY <1>0, <1>3 DEF VideoTrackNumber, AudioTrackNumber
  <2>1. x = IF r.ok THEN IF q.ok THEN Succeeded(v) ELSE q ELSE r
    BY <1>3, <2>0 DEF AddGenericFrame, Then, h, t
  <2> HIDE DEF x
  <2>2. Prepared(t, f, r)
    BY <1>0, <1>1, DoNewClusterMuxed
  <2>3. ReadyFor(f, r)
    BY <1>0, <1>1, DoNewClusterReady DEF Muxed
  <2> HIDE DEF r
  <2>4. CASE ~r.ok
    BY <1>1, <2>1, <2>2, <2>4 DEF Prepared, Added, x
  <2>5. CASE r.ok
    <3>1. Muxed(r.seg) /\ Content(r.seg) = Content(s) /\ Fits(r.seg, f)
      BY <1>1, <2>2, <2>5 DEF Prepared
    <3>2. IsVideoKey(f) => r.seg.new_cuepoint
      BY <2>3, <2>5 DEF ReadyFor
    <3>3. Added(r.seg, f, q)
      BY <1>0, <2>0, <3>1, <3>2, WriteBlockMuxed DEF VideoTrackNumber
    <3>4. Added(s, f, q)
      BY <3>1, <3>3 DEF Added
    <3> HIDE DEF q
    <3>5. CASE ~q.ok
      BY <2>1, <2>5, <3>4, <3>5 DEF x
    <3>6. CASE q.ok
      <4>1. Muxed(q.seg)
        BY <3>4 DEF Added
      <4>2. /\ v \in SegmentType /\ v.clusters = q.seg.clusters
            /\ v.cues = q.seg.cues /\ v.frames = q.seg.frames
            /\ v.freed = q.seg.freed
            /\ v.new_cuepoint <=> q.seg.new_cuepoint
        <5>1. q.seg \in SegmentType /\ f.timestamp \in Int
          BY <1>0, <4>1, GoodTypes DEF Frame, Muxed
        <5> QED
          BY <5>1 DEF SegmentType
      <4> HIDE DEF v
      <4>3. AudioOnly(v.frames)
        BY <4>1, <4>2, GoodTypes DEF Muxed
      <4>4. Good(v)
        BY <4>1, <4>2, <4>3, GoodSame DEF Muxed
      <4>5. Muxed(v) /\ Content(v) = Content(q.seg)
        BY <4>1, <4>2, <4>4, MuxedSame
      <4>6. x.ok = TRUE /\ x.seg = v
        BY <2>1, <2>5, <3>6 DEF Succeeded
      <4> QED
        BY <3>4, <3>6, <4>5, <4>6 DEF Added, x
    <3> QED
      BY <3>5, <3>6
  <2> QED
    BY <2>4, <2>5
<1> QED
  BY <1>1, <1>2, <1>3, <1>5

-----------------------------------------------------------------------------
(* Segment::Finalize. *)

(* Finalize leaves the blocks, and closes every cluster it can.             *)
LEMMA FinalizeMuxed ==
  ASSUME NEW s, Muxed(s), NEW sizeMatches \in BOOLEAN
  PROVE  LET x == Finalize(s, sizeMatches)
             q == FinalizeCluster(s)
         IN /\ x.ok \in BOOLEAN /\ Muxed(x.seg) /\ Content(x.seg) = Content(s)
            /\ HeaderOnly(q.seg, x.seg)
            /\ x.ok => q.ok
            /\ q.ok => AllFinalized(x.seg.clusters)
<1> DEFINE q == FinalizeCluster(s)
           u == q.seg
           v == [u EXCEPT !.seeks = @ + 1]
           x == Finalize(s, sizeMatches)
<1>1. WriteFramesAll(s) = Succeeded(s)
  BY NothingQueued DEF Muxed
<1>2. x = IF q.ok
          THEN CASE u.seeks >= kSeekEntryCount -> Refused(u)
                 [] u.seeks < kSeekEntryCount /\ ~u.header_written
                      /\ ~sizeMatches -> Refused(v)
                 [] OTHER -> Succeeded(v)
          ELSE q
  <2> HIDE DEF v
  <2> QED
    BY <1>1 DEF Finalize, Then, Succeeded, v
<1>3. /\ q.ok \in BOOLEAN /\ Muxed(u) /\ Content(u) = Content(s)
      /\ q.ok => AllFinalized(u.clusters)
  BY FinalizeClusterMuxed
<1> HIDE DEF x, q, u
<1>4. /\ Muxed(v) /\ Content(v) = Content(u) /\ v.clusters = u.clusters
      /\ HeaderOnly(u, v) /\ HeaderOnly(u, u)
  <2>1. HeaderOnly(u, v) /\ HeaderOnly(u, u)
    BY <1>3, SeekAdded DEF HeaderOnly, Muxed
  <2> HIDE DEF v
  <2> QED
    BY <1>3, <2>1, MuxedSame DEF HeaderOnly
<1> HIDE DEF v
<1>5. CASE ~q.ok
  <2>1. x = q
    BY <1>2, <1>5
  <2>2. x.ok = FALSE /\ x.seg = u
    BY <1>3, <1>5, <2>1 DEF u
  <2> QED
    BY <1>3, <1>4, <1>5, <2>2 DEF x, u, q
<1>6. CASE q.ok
  <2>1. x \in {Refused(u), Refused(v), Succeeded(v)}
    <3>1. u.seeks \in Nat
      BY <1>3, GoodTypes DEF Muxed, SegmentType
    <3> QED
      BY <1>2, <1>6, <3>1 DEF kSeekEntryCount
  <2>2. x.ok \in BOOLEAN /\ (x.seg = u \/ x.seg = v)
    <3>1. CASE x = Refused(u)
      BY <3>1 DEF Refused
    <3>2. CASE x = Refused(v)
      BY <3>2 DEF Refused
    <3>3. CASE x = Succeeded(v)
      BY <3>3 DEF Succeeded
    <3> QED
      BY <2>1, <3>1, <3>2, <3>3
  <2> QED
    BY <1>3, <1>4, <1>6, <2>2 DEF x, u, q
<1> QED
  BY <1>5, <1>6

-----------------------------------------------------------------------------
(* The file and the frames it was answered for. *)

(* The frames q are in the order of the calls, none after call k.          *)
InOrder(q, k) ==
  /\ q \in Seq(Frame)
  /\ \A i \in DOMAIN q : q[i].id <= k
  /\ \A i, j \in DOMAIN q : i < j => q[i].id <= q[j].id

(* The file of s, in the order of the calls up to k, holds the frames A.   *)
Holds(s, k, A) ==
  /\ Muxed(s)
  /\ InOrder(Content(s), k)
  /\ A \subseteq ToSet(Content(s))

(* A frame not before the last call keeps the order.                        *)
LEMMA InOrderAppend ==
  ASSUME NEW q, NEW k \in Nat, InOrder(q, k), NEW f \in Frame, k <= f.id
  PROVE  /\ InOrder(Append(q, f), f.id)
         /\ ToSet(Append(q, f)) = ToSet(q) \cup {f}
<1> DEFINE n == Len(q)
           p == Append(q, f)
           m == f.id
<1>1. q \in Seq(Frame) /\ n \in Nat /\ DOMAIN q = 1 .. n
  BY LenProperties DEF InOrder
<1>2. /\ p \in Seq(Frame) /\ Len(p) = n + 1
      /\ \A i \in 1 .. n : p[i] = q[i]
      /\ p[n + 1] = f
  BY <1>1, AppendProperties
<1> HIDE DEF n, p
<1>3. DOMAIN p = 1 .. n + 1
  BY <1>1, <1>2, LenProperties
<1>4. /\ \A i \in 1 .. n : q[i].id \in Nat
      /\ m \in Nat
  <2>1. \A i \in 1 .. n : q[i] \in Frame
    BY <1>1, ElementOfSeq DEF n
  <2> QED
    BY <2>1 DEF Frame
<1>5. /\ \A i \in 1 .. n : q[i].id <= k
      /\ \A i, j \in 1 .. n : i < j => q[i].id <= q[j].id
  BY <1>1 DEF InOrder
<1>6. \A i \in 1 .. n + 1 : i \in 1 .. n \/ i = n + 1
  BY <1>1
<1>7. \A i \in 1 .. n + 1 : p[i].id <= m
  <2> SUFFICES ASSUME NEW i \in 1 .. n + 1 PROVE p[i].id <= m
    OBVIOUS
  <2>1. CASE i = n + 1
    BY <1>2, <1>4, <2>1
  <2>2. CASE i \in 1 .. n
    <3>1. p[i].id <= k /\ p[i].id \in Nat
      BY <1>2, <1>4, <1>5, <2>2
    <3> QED
      BY <1>4, <3>1
  <2> QED
    BY <1>6, <2>1, <2>2
<1>8. \A i, j \in 1 .. n + 1 : i < j => p[i].id <= p[j].id
  <2> SUFFICES ASSUME NEW i \in 1 .. n + 1, NEW j \in 1 .. n + 1, i < j
               PROVE  p[i].id <= p[j].id
    OBVIOUS
  <2>1. CASE j = n + 1
    BY <1>2, <1>7, <2>1
  <2>2. CASE j \in 1 .. n
    <3>1. i \in 1 .. n
      BY <1>1, <2>2
    <3> QED
      BY <1>2, <1>5, <2>2, <3>1
  <2> QED
    BY <1>6, <2>1, <2>2
<1>9. InOrder(p, m)
  BY <1>2, <1>3, <1>7, <1>8 DEF InOrder
<1>10. ToSet(p) = ToSet(q) \cup {f}
  <2>1. ToSet(p) = {p[i] : i \in 1 .. n + 1}
    BY <1>3 DEF ToSet
  <2>2. ToSet(q) = {q[i] : i \in 1 .. n}
    BY <1>1 DEF ToSet
  <2>3. \A i \in 1 .. n : i \in 1 .. n + 1
    BY <1>1
  <2>4. n + 1 \in 1 .. n + 1
    BY <1>1
  <2> QED
    BY <1>2, <1>6, <2>1, <2>2, <2>3, <2>4
<1> QED
  BY <1>9, <1>10 DEF p

(* The order up to a call is the order up to a later one.                   *)
LEMMA InOrderLater ==
  ASSUME NEW q, NEW k \in Nat, InOrder(q, k), NEW m \in Nat, k <= m
  PROVE  InOrder(q, m)
<1>1. \A i \in DOMAIN q : q[i].id \in Nat
  <2>1. \A i \in DOMAIN q : q[i] \in Frame
    BY ElementOfSeq, LenProperties DEF InOrder
  <2> QED
    BY <2>1 DEF Frame
<1> QED
  BY <1>1 DEF InOrder

(* AddGenericFrame never takes a frame out of the file.                    *)
LEMMA AddHolds ==
  ASSUME NEW s, NEW k \in Nat, NEW A, Holds(s, k, A), NEW f, Muxable(f),
         k <= f.id
  PROVE  LET x == AddGenericFrame(s, f) IN
         /\ x.ok \in BOOLEAN
         /\ Holds(x.seg, f.id, A)
         /\ x.ok => Holds(x.seg, f.id, A \cup {f})
         /\ ~x.ok => Holds(x.seg, k, A)
<1> DEFINE x == AddGenericFrame(s, f)
           c == Content(s)
           d == Content(x.seg)
<1>1. Added(s, f, x)
  BY AddGenericFrameMuxed DEF Holds
<1>2. f \in Frame /\ f.id \in Nat
  BY DEF Muxable, Frame
<1> HIDE DEF x
<1>3. x.ok \in BOOLEAN /\ Muxed(x.seg) /\ InOrder(c, k) /\ A \subseteq ToSet(c)
  BY <1>1 DEF Added, Holds
<1>4. CASE x.ok
  <2>1. d = Append(c, f)
    BY <1>1, <1>4 DEF Added
  <2> HIDE DEF c, d
  <2>2. InOrder(d, f.id) /\ ToSet(d) = ToSet(c) \cup {f}
    BY <1>2, <1>3, <2>1, InOrderAppend
  <2> QED
    BY <1>3, <1>4, <2>2 DEF Holds, d, x
<1>5. CASE ~x.ok
  <2>1. d = c
    BY <1>1, <1>5 DEF Added
  <2>2. InOrder(d, k) /\ InOrder(d, f.id)
    <3> HIDE DEF c, d
    <3> QED
      BY <1>2, <1>3, <2>1, InOrderLater
  <2> QED
    BY <1>3, <1>5, <2>1, <2>2 DEF Holds, x
<1> QED
  BY <1>3, <1>4, <1>5

-----------------------------------------------------------------------------
(* SaveDelayed. *)

(* The frame as it is repeated, and the segments after each repetition.    *)
Repeated(last, delta, i) == [last EXCEPT !.timestamp = @ + (i - 1) * delta]

Repeats(s, last, delta, k, h) ==
  h = [i \in 0 .. k |->
         IF i = 0 THEN s
         ELSE AddGenericFrame(h[i - 1], Repeated(last, delta, i)).seg]

RepeatsNext(s, last, delta, h, i) ==
  h[i] = IF i = 0 THEN s
         ELSE AddGenericFrame(h[i - 1], Repeated(last, delta, i)).seg

(* A repeated frame differs in its time only.                               *)
LEMMA RepeatedMuxable ==
  ASSUME NEW last, Muxable(last), NEW delta \in Int, NEW i \in Int
  PROVE  LET f == Repeated(last, delta, i) IN
         /\ Muxable(f) /\ f.id = last.id /\ f.track = last.track
         /\ f.timestamp = last.timestamp + (i - 1) * delta
<1> DEFINE x == last.timestamp + (i - 1) * delta
           f == [last EXCEPT !.timestamp = x]
<1>1. last \in Frame /\ last.timestamp \in Int
  BY DEF Muxable, Frame
<1>2. x \in Int
  <2>1. (i - 1) * delta \in Int
    OBVIOUS
  <2> HIDE DEF x
  <2> QED
    BY <1>1, <2>1 DEF x
<1> HIDE DEF x
<1>3. /\ f \in Frame /\ f.track = last.track /\ f.id = last.id
      /\ f.valid <=> last.valid
      /\ f.timestamp = x
  BY <1>1, <1>2 DEF Frame
<1>4. Repeated(last, delta, i) = f
  BY DEF Repeated, x
<1> HIDE DEF f
<1> QED
  BY <1>3, <1>4 DEF Muxable, x

(* The entries of SaveDelayed's recursion.                                  *)
LEMMA RepeatEntries ==
  ASSUME NEW s, NEW last, NEW delta, NEW k \in Nat, NEW h,
         Repeats(s, last, delta, k, h), NEW i \in 0 .. k
  PROVE  RepeatsNext(s, last, delta, h, i)
<1> DEFINE F == [j \in 0 .. k |->
                   IF j = 0 THEN s
                   ELSE AddGenericFrame(h[j - 1], Repeated(last, delta, j)).seg]
<1>1. h = F
  BY DEF Repeats
<1>2. F[i] = IF i = 0 THEN s
             ELSE AddGenericFrame(h[i - 1], Repeated(last, delta, i)).seg
  OBVIOUS
<1> HIDE DEF F
<1> QED
  BY <1>1, <1>2 DEF RepeatsNext

(* The recursion of SaveDelayed has a solution.                             *)
LEMMA RepeatsExist ==
  ASSUME NEW s, NEW last, NEW delta, NEW k \in Nat
  PROVE  \E h : Repeats(s, last, delta, k, h)
<1> DEFINE T == {m \in 0 .. k : \E h : Repeats(s, last, delta, m, h)}
           R(i) == Repeated(last, delta, i)
<1>1. 0 \in T
  <2> DEFINE z == [i \in 0 .. 0 |-> s]
  <2>1. z = [i \in 0 .. 0 |->
               IF i = 0 THEN s ELSE AddGenericFrame(z[i - 1], R(i)).seg]
    OBVIOUS
  <2>2. Repeats(s, last, delta, 0, z)
    <3> HIDE DEF z
    <3> QED
      BY <2>1 DEF Repeats
  <2> QED
    BY <2>2
<1>2. ASSUME NEW m \in 0 .. k - 1, m \in T PROVE m + 1 \in T
  <2>1. PICK h : Repeats(s, last, delta, m, h)
    BY <1>2
  <2>2. \A i \in 0 .. m : RepeatsNext(s, last, delta, h, i)
    <3>1. m \in Nat
      OBVIOUS
    <3> HIDE DEF T
    <3> QED
      BY <2>1, <3>1, RepeatEntries
  <2> DEFINE e(i) == IF i = 0 THEN s ELSE AddGenericFrame(h[i - 1], R(i)).seg
             g == [i \in 0 .. m + 1 |-> e(i)]
             d(i) == IF i = 0 THEN s ELSE AddGenericFrame(g[i - 1], R(i)).seg
  <2>3. ASSUME NEW i \in 0 .. m PROVE g[i] = h[i]
    BY <2>2 DEF RepeatsNext
  <2>4. \A i \in 0 .. m + 1 : e(i) = d(i)
    <3> HIDE DEF g, R
    <3>1. ASSUME NEW i \in 0 .. m + 1, i # 0 PROVE g[i - 1] = h[i - 1]
      <4>1. i - 1 \in 0 .. m
        BY <3>1
      <4> QED
        BY <2>3, <4>1
    <3> QED
      BY <3>1
  <2>5. g = [i \in 0 .. m + 1 |-> d(i)]
    <3> HIDE DEF e, d
    <3> QED
      BY <2>4
  <2>6. Repeats(s, last, delta, m + 1, g)
    <3> HIDE DEF g
    <3> QED
      BY <2>5 DEF Repeats
  <2> QED
    BY <2>6
<1>3. \A m \in 0 .. k : m \in T
  <2> HIDE DEF T
  <2> QED
    BY <1>1, <1>2, UpTo
<1> QED
  BY <1>3

(* The repeated frames come after all of the file and before what follows. *)
CaughtUp(r, last, A) ==
  /\ Holds(r.seg, last.id, A)
  /\ Muxable(r.last) /\ r.last.id = last.id

(* No repetition takes a frame out of the file or out of order.             *)
LEMMA SaveDelayedHolds ==
  ASSUME NEW s, NEW A, NEW last, Holds(s, last.id, A), Muxable(last),
         NEW delayed \in Nat, delayed # 0, NEW current_ts \in Int
  PROVE  CaughtUp(SaveDelayed(s, last, delayed, current_ts), last, A)
<1> DEFINE delta == (current_ts - last.timestamp) \div delayed
           g == CHOOSE h : Repeats(s, last, delta, delayed, h)
           T == {i \in 0 .. delayed : Holds(g[i], last.id, A)}
           r == SaveDelayed(s, last, delayed, current_ts)
<1>1. delta \in Int /\ last.id \in Nat /\ delayed \in Nat
  BY DEF Muxable, Frame
<1>2. Repeats(s, last, delta, delayed, g)
  <2> HIDE DEF delta
  <2> QED
    BY RepeatsExist
<1>3. r.seg = g[delayed] /\ r.last = Repeated(last, delta, delayed)
  BY DEF SaveDelayed, Repeats, Repeated
<1> HIDE DEF delta, g, r
<1>4. 0 \in T
  <2>1. 0 \in 0 .. delayed
    OBVIOUS
  <2>2. g[0] = s
    BY <1>1, <1>2, <2>1, RepeatEntries DEF RepeatsNext
  <2> QED
    BY <2>1, <2>2
<1>5. ASSUME NEW i \in 0 .. delayed - 1, i \in T PROVE i + 1 \in T
  <2> DEFINE f == Repeated(last, delta, i + 1)
             u == g[i]
  <2>1. i + 1 \in 0 .. delayed /\ i + 1 # 0 /\ (i + 1) - 1 = i /\ i + 1 \in Int
    OBVIOUS
  <2>2. g[i + 1] = AddGenericFrame(u, f).seg
    <3>1. RepeatsNext(s, last, delta, g, i + 1)
      BY <1>1, <1>2, <2>1, RepeatEntries
    <3> QED
      BY <2>1, <3>1 DEF RepeatsNext
  <2>3. Muxable(f) /\ f.id = last.id
    BY <1>1, <2>1, RepeatedMuxable
  <2>4. Holds(u, last.id, A)
    BY <1>5
  <2> HIDE DEF f, u
  <2>5. last.id <= f.id
    BY <1>1, <2>3
  <2>6. Holds(AddGenericFrame(u, f).seg, f.id, A)
    BY <1>1, <2>3, <2>4, <2>5, AddHolds
  <2> QED
    BY <2>1, <2>2, <2>3, <2>6
<1>6. \A i \in 0 .. delayed : i \in T
  <2> HIDE DEF T
  <2> QED
    BY <1>1, <1>4, <1>5, UpTo
<1>7. Holds(g[delayed], last.id, A)
  BY <1>6
<1>8. Muxable(r.last) /\ r.last.id = last.id
  BY <1>1, <1>3, RepeatedMuxable
<1> QED
  BY <1>3, <1>7, <1>8 DEF r, CaughtUp

-----------------------------------------------------------------------------
(* The muxer. *)

(* The file holds the frames answered with true, in the order of the calls *)
(* up to the last one saved, and what Finish closed has nothing left open. *)
MuxerInv ==
  /\ Muxable(last_frame) /\ calls \in Nat /\ last_frame.id <= calls
  /\ delayed_frame_count \in Nat /\ clock \in Int
  /\ answered \in Seq(Frame)
  /\ initialized \in BOOLEAN
  /\ Holds(segment, last_frame.id, ToSet(answered))
  /\ initialized => ~finished
  /\ finished => AllFinalized(segment.clusters)

(* Nothing was answered with true at first.                                 *)
LEMMA MuxerInit == Init => MuxerInv
<1> SUFFICES ASSUME Init PROVE MuxerInv
  OBVIOUS
<1>1. /\ last_frame = NoData /\ calls = 0 /\ delayed_frame_count = 0
      /\ clock = 0 /\ answered = <<>> /\ segment = NewSegment
      /\ initialized = FALSE /\ finished = FALSE
  BY DEF Init
<1>2. Muxable(NoData) /\ NoData.id = 0
  BY DEF NoData, Muxable, Frame, VideoTrackNumber
<1>3. <<>> \in Seq(Frame) /\ DOMAIN <<>> = {} /\ ToSet(<<>>) = {}
  BY EmptySeq, LenProperties DEF ToSet
<1>4. Holds(NewSegment, 0, {})
  BY <1>3, NewIsMuxed DEF Holds, InOrder
<1>5. Holds(segment, last_frame.id, ToSet(answered))
  BY <1>1, <1>2, <1>3, <1>4
<1>6. Muxable(last_frame) /\ last_frame.id <= calls
  BY <1>1, <1>2
<1>7. calls \in Nat /\ delayed_frame_count \in Nat /\ clock \in Int
  BY <1>1
<1>8. initialized \in BOOLEAN /\ ~initialized /\ ~finished
  BY <1>1
<1> QED
  BY <1>1, <1>3, <1>5, <1>6, <1>7, <1>8 DEF MuxerInv

(* What a frame leaves, saved or delayed.                                  *)
SavedNext(last, f) ==
  /\ Muxable(last_frame') /\ last_frame'.id \in {last.id, f.id}
  /\ delayed_frame_count' \in Nat
  /\ answered' \in Seq(Frame)
  /\ Holds(segment', last_frame'.id, ToSet(answered'))

(* The elements of a sequence with one more.                                *)
LEMMA SetOfAppended ==
  ASSUME NEW q \in Seq(Frame), NEW f \in Frame
  PROVE  Append(q, f) \in Seq(Frame) /\ ToSet(Append(q, f)) = ToSet(q) \cup {f}
<1> DEFINE n == Len(q)
           p == Append(q, f)
<1>1. n \in Nat /\ DOMAIN q = 1 .. n
  BY LenProperties
<1>2. /\ p \in Seq(Frame) /\ Len(p) = n + 1
      /\ \A i \in 1 .. n : p[i] = q[i]
      /\ p[n + 1] = f
  BY AppendProperties
<1> HIDE DEF n, p
<1>3. DOMAIN p = 1 .. n + 1
  BY <1>1, <1>2, LenProperties
<1>4. ToSet(p) = {p[i] : i \in 1 .. n + 1} /\ ToSet(q) = {q[i] : i \in 1 .. n}
  BY <1>1, <1>3 DEF ToSet
<1>5. /\ \A i \in 1 .. n + 1 : i \in 1 .. n \/ i = n + 1
      /\ \A i \in 1 .. n : i \in 1 .. n + 1
      /\ n + 1 \in 1 .. n + 1
  BY <1>1
<1>6. ToSet(p) = ToSet(q) \cup {f}
  BY <1>2, <1>4, <1>5
<1> QED
  BY <1>2, <1>6 DEF p

(* A frame saved, or not, with those delayed before it.                     *)
LEMMA SaveHolds ==
  ASSUME NEW s, NEW last, Muxable(last), NEW f, Muxable(f), last.id <= f.id,
         delayed_frame_count \in Nat, AnsweredBefore \in Seq(Frame),
         Holds(s, last.id, ToSet(AnsweredBefore)), Save(s, last, f)
  PROVE  SavedNext(last, f)
<1> DEFINE A == AnsweredBefore
           S == ToSet(A)
           caught == IF delayed_frame_count > 0
                     THEN SaveDelayed(s, last, delayed_frame_count, f.timestamp)
                     ELSE [seg |-> s, last |-> last]
           added == AddGenericFrame(caught.seg, f)
<1>1. /\ segment' = added.seg
      /\ last_frame' = IF added.ok THEN f ELSE caught.last
      /\ delayed_frame_count' = 0
      /\ answered' = IF added.ok THEN Append(A, f) ELSE A
  BY DEF Save
<1>2. f \in Frame /\ f.timestamp \in Int /\ f.id \in Nat /\ last.id \in Nat
  BY DEF Muxable, Frame
<1>3. /\ Holds(caught.seg, last.id, S)
      /\ Muxable(caught.last) /\ caught.last.id = last.id
  <2>1. CASE delayed_frame_count > 0
    <3>1. caught = SaveDelayed(s, last, delayed_frame_count, f.timestamp)
      BY <2>1
    <3>2. delayed_frame_count # 0
      BY <2>1
    <3> HIDE DEF caught, S, A
    <3>3. Holds(s, last.id, S)
      BY DEF S, A
    <3>4. CaughtUp(caught, last, S)
      BY <1>2, <3>1, <3>2, <3>3, SaveDelayedHolds
    <3> QED
      BY <3>4 DEF CaughtUp
  <2>2. CASE ~(delayed_frame_count > 0)
    <3>1. caught = [seg |-> s, last |-> last]
      BY <2>2
    <3> HIDE DEF caught
    <3> QED
      BY <3>1
  <2> QED
    BY <2>1, <2>2
<1> HIDE DEF caught, S
<1>4. /\ added.ok \in BOOLEAN
      /\ added.ok => Holds(added.seg, f.id, S \cup {f})
      /\ ~added.ok => Holds(added.seg, last.id, S)
  BY <1>2, <1>3, AddHolds
<1> HIDE DEF added, A
<1>5. CASE added.ok
  <2>1. answered' \in Seq(Frame) /\ ToSet(answered') = S \cup {f}
    BY <1>1, <1>2, <1>5, SetOfAppended DEF S, A
  <2> QED
    BY <1>1, <1>4, <1>5, <2>1 DEF SavedNext
<1>6. CASE ~added.ok
  <2>1. answered' \in Seq(Frame) /\ ToSet(answered') = S
    BY <1>1, <1>6 DEF S, A
  <2> QED
    BY <1>1, <1>3, <1>4, <1>6, <2>1 DEF SavedNext
<1> QED
  BY <1>4, <1>5, <1>6

(* AddVideoFrame keeps the invariant.                                       *)
LEMMA MuxerFrame ==
  ASSUME MuxerInv, NEW step \in Steps, NEW key \in BOOLEAN,
         NEW hasData \in BOOLEAN, AddVideoFrame(step, key, hasData)
  PROVE  MuxerInv'
<1> DEFINE ts == clock + step
           f == CreateFrame(hasData, ts, key)
           s == IF initialized THEN segment ELSE NewSegment
           last == IF initialized THEN last_frame
                   ELSE [last_frame EXCEPT !.timestamp = 0]
<1>1. /\ AddOrDelay(s, last, f) /\ calls' = calls + 1 /\ clock' = ts
      /\ IF initialized THEN UNCHANGED <<initialized, finished, pSegment, files>>
                        ELSE OpenFile
  BY DEF AddVideoFrame
<1>2. /\ Muxable(last_frame) /\ calls \in Nat /\ last_frame.id <= calls
      /\ delayed_frame_count \in Nat /\ clock \in Int
      /\ answered \in Seq(Frame) /\ initialized \in BOOLEAN
      /\ Holds(segment, last_frame.id, ToSet(answered))
      /\ initialized => ~finished
  BY DEF MuxerInv
<1>3. step \in Int /\ ts \in Int
  BY <1>2, MuxerAssumption
<1>4. /\ initialized' = TRUE /\ ~finished' /\ calls' \in Nat /\ clock' \in Int
  <2>1. CASE initialized
    BY <1>1, <1>2, <1>3, <2>1
  <2>2. CASE ~initialized
    BY <1>1, <1>2, <1>3, <2>2 DEF OpenFile
  <2> QED
    BY <1>2, <2>1, <2>2
<1> HIDE DEF ts
<1>5. /\ hasData => Muxable(f) /\ f.id = calls + 1 /\ f.valid
      /\ ~hasData => ~f.valid
  <2>1. CASE hasData
    <3>1. f = [track |-> VideoTrackNumber, timestamp |-> ts, is_key |-> key,
               valid |-> TRUE, id |-> calls + 1]
      BY <2>1 DEF CreateFrame
    <3>2. calls + 1 \in Nat
      BY <1>2
    <3> HIDE DEF f
    <3>3. f \in Frame
      BY <1>3, <3>1, <3>2 DEF Frame, VideoTrackNumber
    <3> QED
      BY <2>1, <3>1, <3>3 DEF Muxable
  <2>2. CASE ~hasData
    BY <2>2 DEF CreateFrame, NoData
  <2> QED
    BY <2>1, <2>2
<1>6. Muxable(last) /\ last.id = last_frame.id
  <2>1. CASE initialized
    BY <1>2, <2>1
  <2>2. CASE ~initialized
    <3> DEFINE z == [last_frame EXCEPT !.timestamp = 0]
    <3>1. last = z
      BY <2>2
    <3>2. last_frame \in Frame
      BY <1>2 DEF Muxable
    <3>3. /\ z \in Frame /\ z.track = last_frame.track
          /\ z.id = last_frame.id /\ (z.valid <=> last_frame.valid)
      BY <3>2 DEF Frame
    <3> HIDE DEF z, last
    <3> QED
      BY <1>2, <3>1, <3>3 DEF Muxable
  <2> QED
    BY <1>2, <2>1, <2>2
<1>7. /\ AnsweredBefore \in Seq(Frame)
      /\ Holds(s, last.id, ToSet(AnsweredBefore))
  <2>1. CASE initialized
    BY <1>2, <1>6, <2>1 DEF AnsweredBefore
  <2>2. CASE ~initialized
    <3>1. AnsweredBefore = <<>> /\ s = NewSegment
      BY <2>2 DEF AnsweredBefore
    <3>2. <<>> \in Seq(Frame) /\ DOMAIN <<>> = {} /\ ToSet(<<>>) = {}
      BY EmptySeq, LenProperties DEF ToSet
    <3>3. Holds(NewSegment, last.id, {})
      BY <3>2, NewIsMuxed DEF Holds, InOrder
    <3> QED
      BY <3>1, <3>2, <3>3
  <2> QED
    BY <1>2, <2>1, <2>2
<1> HIDE DEF f, s, last
<1>8. /\ Muxable(last_frame') /\ last_frame'.id <= calls'
      /\ delayed_frame_count' \in Nat /\ answered' \in Seq(Frame)
      /\ Holds(segment', last_frame'.id, ToSet(answered'))
  <2>0. last_frame.id \in Nat
    BY <1>2 DEF Muxable, Frame
  <2>1. CASE ~f.valid \/ f.timestamp < last.timestamp
    <3>1. Delay /\ segment' = s /\ last_frame' = last
      BY <1>1, <2>1 DEF AddOrDelay
    <3> QED
      BY <1>1, <1>2, <1>6, <1>7, <2>0, <3>1 DEF Delay
  <2>2. CASE ~(~f.valid \/ f.timestamp < last.timestamp)
    <3>1. Save(s, last, f)
      BY <1>1, <2>2 DEF AddOrDelay
    <3>2. Muxable(f) /\ f.id = calls + 1 /\ last.id <= f.id
      BY <1>2, <1>5, <1>6, <2>0, <2>2
    <3>3. SavedNext(last, f)
      BY <1>2, <1>6, <1>7, <3>1, <3>2, SaveHolds
    <3>4. last_frame'.id <= calls'
      BY <1>1, <1>2, <1>6, <2>0, <3>2, <3>3 DEF SavedNext
    <3> QED
      BY <3>3, <3>4 DEF SavedNext
  <2> QED
    BY <2>1, <2>2
<1> QED
  BY <1>4, <1>8 DEF MuxerInv

(* So does every step.                                                      *)
LEMMA MuxerNext == MuxerInv /\ [Next]_vars => MuxerInv'
<1> SUFFICES ASSUME MuxerInv, [Next]_vars PROVE MuxerInv'
  OBVIOUS
<1>1. CASE \E step \in Steps, key, hasData \in BOOLEAN :
             AddVideoFrame(step, key, hasData)
  BY <1>1, MuxerFrame
<1>2. CASE AddVideoFrameNoFile
  <2>1. last_frame.id \in Nat
    BY DEF MuxerInv, Muxable, Frame
  <2> QED
    BY <1>2, <2>1 DEF AddVideoFrameNoFile, MuxerInv
<1>3. CASE FinishNull
  BY <1>3 DEF FinishNull, MuxerInv
<1>4. CASE FinishFile
  <2>1. PICK sizeMatches \in BOOLEAN :
          LET done == Finalize(segment, sizeMatches)
          IN /\ segment' = done.seg
             /\ IF done.ok
                THEN /\ finished' = TRUE /\ initialized' = FALSE
                     /\ pSegment' = "deleted"
                ELSE UNCHANGED <<finished, initialized, pSegment>>
    BY <1>4 DEF FinishFile
  <2> DEFINE done == Finalize(segment, sizeMatches)
  <2>2. /\ Muxed(segment) /\ InOrder(Content(segment), last_frame.id)
        /\ ToSet(answered) \subseteq ToSet(Content(segment))
    BY DEF MuxerInv, Holds
  <2>3. /\ done.ok \in BOOLEAN /\ Muxed(done.seg)
        /\ Content(done.seg) = Content(segment)
        /\ done.ok => AllFinalized(done.seg.clusters)
    BY <2>2, FinalizeMuxed
  <2>4. ~finished /\ UNCHANGED <<last_frame, delayed_frame_count, calls, clock,
                                answered>>
    BY <1>4 DEF FinishFile
  <2>5. /\ segment' = done.seg
        /\ done.ok => finished' = TRUE /\ initialized' = FALSE
        /\ ~done.ok => UNCHANGED <<finished, initialized>>
    BY <2>1
  <2> HIDE DEF done
  <2>6. Holds(segment', last_frame', ToSet(answered'))
          <=> Holds(done.seg, last_frame, ToSet(answered))
    BY <2>4, <2>5
  <2>7. Holds(done.seg, last_frame.id, ToSet(answered))
    BY <2>2, <2>3 DEF Holds
  <2>8. CASE done.ok
    BY <2>3, <2>4, <2>5, <2>7, <2>8 DEF MuxerInv
  <2>9. CASE ~done.ok
    BY <2>4, <2>5, <2>7, <2>9 DEF MuxerInv
  <2> QED
    BY <2>3, <2>8, <2>9
<1>5. CASE Delete
  BY <1>5 DEF Delete, MuxerInv
<1>6. CASE UNCHANGED vars
  BY <1>6 DEF vars, MuxerInv
<1> QED
  BY <1>1, <1>2, <1>3, <1>4, <1>5, <1>6 DEF Next

(* The invariant holds.                                                     *)
LEMMA MuxerInvariant == Spec => []MuxerInv
BY MuxerInit, MuxerNext, PTL DEF Spec

(* Every frame answered with true is in the file, and the file is in the   *)
(* order of the calls, repeated frames and late ones included.             *)
THEOREM AnswersAreWritten == Spec => []SavedIsWritten
<1>1. MuxerInv => SavedIsWritten
  <2> SUFFICES ASSUME MuxerInv PROVE SavedIsWritten
    OBVIOUS
  <2>1. File = Content(segment)
    BY DEF File, Content, Parts
  <2> QED
    BY <2>1 DEF MuxerInv, Holds, InOrder, SavedIsWritten
<1> QED
  BY <1>1, MuxerInvariant, PTL

(* The cues of a segment whose clusters all hold video point at each.      *)
LEMMA CuesPointAtAll ==
  ASSUME NEW s, Muxed(s), AllFinalized(s.clusters)
  PROVE  /\ \A c \in ToSet(s.clusters) : c.finalized /\ c.blocks # <<>>
         /\ {c.position_for_cues : c \in ToSet(s.clusters)}
              = {q.cluster : q \in ToSet(s.cues)}
<1> DEFINE cs == s.clusters
<1>1. /\ cs \in Seq(Cluster) /\ AllWhole(cs) /\ AllFinalized(cs)
      /\ Cued(cs, s.cues)
  BY GoodTypes DEF Muxed, Good
<1> HIDE DEF cs
<1>2. ToSet(cs) = {cs[i] : i \in DOMAIN cs}
  BY DEF ToSet
<1>3. \A i \in DOMAIN cs : cs[i].finalized /\ cs[i].blocks # <<>> /\ Whole(cs[i])
  BY <1>1 DEF AllFinalized, AllWhole, Whole
<1>4. WithVideo(cs) = DOMAIN cs
  <2> SUFFICES ASSUME NEW i \in DOMAIN cs PROVE Video(cs[i]) # {}
    BY DEF WithVideo
  <2> DEFINE c == cs[i]
  <2>1. c \in Cluster /\ Whole(c) /\ c.blocks # <<>>
    BY <1>1, <1>3, LenProperties, ElementOfSeq
  <2> HIDE DEF c
  <2>2. c.blocks \in Seq(Frame)
    BY <2>1 DEF Cluster
  <2>3. 1 \in DOMAIN c.blocks
    BY <2>1, <2>2, LenProperties, EmptySeq
  <2>4. 1 \in Video(c)
    BY <2>1, <2>3 DEF Video, Whole
  <2> QED
    BY <2>4 DEF c
<1>5. \A i \in DOMAIN cs : CueOf(cs[i]).cluster = cs[i].position_for_cues
  BY DEF CueOf
<1>6. ToSet(s.cues) = {CueOf(cs[i]) : i \in DOMAIN cs}
  BY <1>1, <1>4 DEF Cued
<1>7. {c.position_for_cues : c \in ToSet(cs)} = {q.cluster : q \in ToSet(s.cues)}
  <2>1. {c.position_for_cues : c \in ToSet(cs)}
          = {cs[i].position_for_cues : i \in DOMAIN cs}
    BY <1>2
  <2>2. {q.cluster : q \in ToSet(s.cues)}
          = {CueOf(cs[i]).cluster : i \in DOMAIN cs}
    BY <1>6
  <2> QED
    BY <1>5, <2>1, <2>2
<1> QED
  BY <1>2, <1>3, <1>7 DEF cs

(* What Finish has closed is complete.                                     *)
THEOREM FinishCompletes == Spec => []FinishedIsComplete
<1>1. MuxerInv => FinishedIsComplete
  <2> SUFFICES ASSUME MuxerInv, finished PROVE FinishedIsComplete
    BY DEF FinishedIsComplete
  <2>1. Muxed(segment) /\ AllFinalized(segment.clusters)
    BY DEF MuxerInv, Holds
  <2>2. segment.frames = <<>>
    BY <2>1 DEF Muxed
  <2> QED
    BY <2>1, <2>2, CuesPointAtAll DEF FinishedIsComplete
<1> QED
  BY <1>1, MuxerInvariant, PTL

-----------------------------------------------------------------------------
(* Frames that the segment cannot refuse. *)

(* The frame can be written: the last cluster is open and begins at most   *)
(* Span before it.                                                         *)
Awaits(s, f) ==
  /\ Muxed(s) /\ s.header_written /\ ~s.force_new_cluster
  /\ IsVideoKey(f) => s.new_cuepoint
  /\ Len(s.clusters) # 0
  /\ LET c == s.clusters[Len(s.clusters)] IN
     /\ ~c.finalized
     /\ Timecode(f.timestamp) - c.timecode \in 0 .. Span
     /\ Timecode(f.timestamp) - c.timecode \in 0 .. MaxBlockTimecode

(* The last frame was written at time l.                                   *)
Open(s, l) ==
  /\ Muxed(s) /\ s.header_written /\ ~s.force_new_cluster
  /\ s.last_timestamp = l
  /\ Len(s.clusters) # 0
  /\ LET c == s.clusters[Len(s.clusters)] IN
     /\ c.header_written /\ ~c.finalized
     /\ Timecode(l) - c.timecode \in 0 .. Span

(* No frame was written.                                                   *)
Fresh(s) ==
  /\ Muxed(s) /\ ~s.force_new_cluster
  /\ s.last_timestamp = 0
  /\ s.clusters = <<>>

VideoFrame(f) == Muxable(f) /\ f.track = VideoTrackNumber

(* The block of a frame awaited is written.                                 *)
LEMMA BlockAccepted ==
  ASSUME NEW s, NEW f, VideoFrame(f), Awaits(s, f)
  PROVE  LET r == WriteBlock(s, f)
             v == [r.seg EXCEPT !.last_timestamp = f.timestamp]
         IN /\ r.ok
            /\ Open(v, f.timestamp)
            /\ Content(v) = Append(Content(s), f)
<1> DEFINE n == Len(s.clusters)
           c == s.clusters[n]
           a == AddFrame(c, f)
           d == a.cluster
           ds == [s.clusters EXCEPT ![n] = d]
           r == WriteBlock(s, f)
           x == r.seg
           ts == f.timestamp
           v == [x EXCEPT !.last_timestamp = ts]
<1>1. /\ Muxed(s) /\ Good(s) /\ n \in Nat /\ n # 0
      /\ s.clusters \in Seq(Cluster)
      /\ s.header_written /\ ~s.force_new_cluster /\ ~c.finalized
      /\ Timecode(ts) - c.timecode \in 0 .. Span
      /\ Timecode(ts) - c.timecode \in 0 .. MaxBlockTimecode
      /\ IsVideoKey(f) => s.new_cuepoint
  BY GoodTypes DEF Awaits, Muxed
<1>2. f \in Frame /\ f.track = VideoTrackNumber /\ f.valid /\ ts \in Int
  BY DEF VideoFrame, Muxable, Frame
<1>3. n \in 1 .. n /\ c \in Cluster /\ DOMAIN s.clusters = 1 .. n
  BY <1>1, ElementOfSeq, LenProperties
<1>4. Fits(s, f)
  BY <1>1 DEF Fits, Last
<1>5. BlockWritten(s, f, r)
  BY <1>1, <1>2, WriteBlockResult
<1>6. Added(s, f, r)
  BY <1>1, <1>2, <1>4, WriteBlockMuxed
<1>7. AddFrameResult(c, f, a)
  BY <1>2, <1>3, AddFrameType
<1>8. a.ok = TRUE
  <2> HIDE DEF c
  <2> QED
    BY <1>1, <1>2 DEF AddFrame
<1>9. /\ r.ok
      /\ x.clusters = ds
      /\ SameButClusters(s, x) /\ Muxed(x)
      /\ Content(x) = Append(Content(s), f)
  BY <1>5, <1>6, <1>8 DEF BlockWritten, Added
<1>10. /\ d \in Cluster /\ d.timecode = c.timecode /\ ~d.finalized
       /\ d.header_written
  BY <1>1, <1>7, <1>8 DEF AddFrameResult
<1> HIDE DEF r, x, a, c, d
<1>11. LastReplaced(s.clusters, ds, d)
  BY <1>1, <1>10 DEF LastReplaced
<1> HIDE DEF ds
<1>12. Len(ds) = n /\ ds[n] = d
  BY <1>11, ReplacedLast
<1> HIDE DEF n
<1>13. /\ v \in SegmentType /\ v.clusters = x.clusters /\ v.cues = x.cues
       /\ v.frames = x.frames /\ v.freed = x.freed
       /\ v.last_timestamp = ts
       /\ v.header_written <=> x.header_written
       /\ v.force_new_cluster <=> x.force_new_cluster
       /\ v.new_cuepoint <=> x.new_cuepoint
  <2>1. x \in SegmentType
    BY <1>9 DEF SameButClusters
  <2> QED
    BY <1>2, <2>1 DEF SegmentType
<1> HIDE DEF v
<1>14. Good(v)
  <2>1. AudioOnly(v.frames)
    BY <1>9, <1>13, GoodTypes DEF Muxed
  <2> QED
    BY <1>9, <1>13, <2>1, GoodSame DEF Muxed
<1>15. Muxed(v) /\ Content(v) = Content(x)
  BY <1>9, <1>13, <1>14, MuxedSame
<1>16. Open(v, ts)
  <2>1. v.header_written /\ ~v.force_new_cluster
    BY <1>1, <1>9, <1>13 DEF SameButClusters
  <2> QED
    BY <1>1, <1>9, <1>10, <1>12, <1>13, <1>15, <2>1 DEF Open, n
<1> QED
  BY <1>9, <1>15, <1>16 DEF v, x, r

(* A cluster can be made when the last one can be closed.                  *)
Closable(s) ==
  Len(s.clusters) # 0 =>
    LET c == s.clusters[Len(s.clusters)] IN c.header_written /\ ~c.finalized

(* A cluster that can be closed is, and nothing else changes.               *)
LEMMA ClusterClosed ==
  ASSUME NEW s, Muxed(s), Closable(s)
  PROVE  LET q == FinalizeCluster(s) IN
         q.ok /\ SameButClusters(s, q.seg)
<1> DEFINE n == Len(s.clusters)
           q == FinalizeCluster(s)
<1>1. /\ n \in Nat /\ s \in SegmentType /\ s.clusters \in Seq(Cluster)
  BY GoodTypes DEF Muxed
<1>2. CASE n = 0
  <2>1. q = Succeeded(s)
    BY <1>2 DEF FinalizeCluster
  <2> HIDE DEF q
  <2> QED
    BY <1>1, <2>1 DEF Succeeded, SameButClusters, q
<1>3. CASE n # 0
  <2> DEFINE c == s.clusters[n]
             d == [c EXCEPT !.finalized = TRUE]
             ds == [s.clusters EXCEPT ![n] = d]
             t == [s EXCEPT !.clusters = ds]
  <2>1. c.header_written /\ ~c.finalized
    BY <1>3 DEF Closable
  <2>2. q = Succeeded([s EXCEPT !.clusters[n].finalized = TRUE])
    BY <1>1, <1>3, <2>1 DEF FinalizeCluster
  <2>3. [s EXCEPT !.clusters[n].finalized = TRUE] = t
    OBVIOUS
  <2>4. c \in Cluster
    BY <1>1, <1>3, ElementOfSeq
  <2>5. d \in Cluster
    <3> HIDE DEF c
    <3> QED
      BY <2>4 DEF Cluster
  <2> HIDE DEF d
  <2>6. LastReplaced(s.clusters, ds, d)
    BY <1>1, <1>3, <2>5 DEF LastReplaced
  <2> HIDE DEF ds
  <2>7. ds \in Seq(Cluster)
    BY <2>6, ReplacedLast
  <2>8. SameButClusters(s, t)
    BY <1>1, <2>7, WithClusters
  <2> HIDE DEF t, q
  <2> QED
    BY <2>2, <2>3, <2>8 DEF Succeeded, q
<1> QED
  BY <1>2, <1>3

(* A cluster made for a frame awaits it.                                    *)
LEMMA ClusterMade ==
  ASSUME NEW s, Muxed(s), Closable(s), s.header_written,
         ~s.force_new_cluster, NEW f, VideoFrame(f)
  PROVE  LET m == MakeNewCluster(s, f.timestamp) IN
         m.ok /\ Awaits(m.seg, f) /\ Content(m.seg) = Content(s)
<1> DEFINE ts == f.timestamp
           q == FinalizeCluster(s)
           u == q.seg
           o == OpenCluster(u, ts)
           e == NewCluster(u, ts)
           m == MakeNewCluster(s, ts)
<1>0. s.frames = <<>> /\ ts \in Int /\ f \in Frame
  BY DEF Muxed, VideoFrame, Muxable, Frame
<1>1. WriteFramesLessThan(s, ts) = Succeeded(s)
  BY <1>0, NothingQueued
<1>2. m = IF q.ok THEN IF u.freed > 0 THEN Crashed(u) ELSE Succeeded(o) ELSE q
  BY <1>1 DEF MakeNewCluster, Then, Succeeded
<1>3. q.ok /\ Muxed(u) /\ SameButClusters(s, u)
  BY FinalizeClusterMuxed, ClusterClosed
<1>4. Prepared(s, f, m)
  BY <1>0, MakeNewClusterMuxed
<1> HIDE DEF q, m, u
<1>5. /\ Good(u) /\ u.freed = 0 /\ u.frames = <<>>
      /\ u.header_written /\ ~u.force_new_cluster
  BY <1>3 DEF Muxed, SameButClusters
<1>6. m.ok = TRUE /\ m.seg = o
  BY <1>2, <1>3, <1>5 DEF Succeeded
<1>7. Opened(u, o, e)
  BY <1>0, <1>5, OpenClusterOpens
<1>8. e.timecode = Timecode(ts)
  BY <1>5 DEF NewCluster
<1> HIDE DEF o, e
<1>9. /\ o.clusters = Append(u.clusters, e) /\ ~e.finalized
      /\ e \in Cluster
      /\ o.new_cuepoint
      /\ o.header_written /\ ~o.force_new_cluster
  BY <1>5, <1>7 DEF Opened, SameButClusters
<1>10. LET n == Len(o.clusters) IN n # 0 /\ o.clusters[n] = e
  <2>1. u.clusters \in Seq(Cluster) /\ Len(u.clusters) \in Nat
    BY <1>5, GoodTypes
  <2> QED
    BY <1>9, <2>1, AppendProperties
<1>11. Timecode(ts) - e.timecode = 0
  <2>1. Timecode(ts) \in Int
    BY <1>0, TimecodeType
  <2> QED
    BY <1>8, <2>1
<1>12. 0 \in 0 .. Span /\ 0 \in 0 .. MaxBlockTimecode
  BY SpanType, SegmentAssumption
<1>13. Muxed(o) /\ Content(o) = Content(s)
  BY <1>4, <1>6 DEF Prepared
<1>14. Awaits(o, f)
  BY <1>9, <1>10, <1>11, <1>12, <1>13 DEF Awaits
<1> QED
  BY <1>6, <1>13, <1>14 DEF m

(* What TestFrame decides about a frame in reach: the last cluster takes   *)
(* it, or can be closed for a new one.                                     *)
LEMMA TurnAccepts ==
  ASSUME NEW s, Muxed(s), s.header_written, ~s.force_new_cluster, Closable(s),
         NEW f, VideoFrame(f),
         TestFrame(s, f) = 1 \/ (TestFrame(s, f) = 0 /\ Awaits(s, f))
  PROVE  LET r == Turn(s, f) IN
         /\ r.ok /\ ~r.again
         /\ Awaits(r.seg, f) /\ Content(r.seg) = Content(s)
<1> DEFINE result == TestFrame(s, f)
           t == [s EXCEPT !.force_new_cluster = FALSE]
           made == IF result > 0 THEN MakeNewCluster(t, f.timestamp)
                                 ELSE Succeeded(t)
           r == Turn(s, f)
<1>1. t = s
  <2>1. s \in SegmentType /\ s.force_new_cluster = FALSE
    <3>1. s \in SegmentType
      BY GoodTypes DEF Muxed
    <3>2. s.force_new_cluster \in BOOLEAN
      BY <3>1 DEF SegmentType
    <3> QED
      BY <3>1, <3>2
  <2> QED
    BY <2>1 DEF SegmentType
<1>2. made.ok /\ Awaits(made.seg, f) /\ Content(made.seg) = Content(s)
  <2> HIDE DEF t
  <2>1. CASE result = 1
    <3>1. made = MakeNewCluster(s, f.timestamp)
      BY <1>1, <2>1
    <3> HIDE DEF made
    <3> QED
      BY <3>1, ClusterMade
  <2>2. CASE result = 0 /\ Awaits(s, f)
    <3>1. made = Succeeded(s)
      BY <1>1, <2>2
    <3> HIDE DEF made
    <3> QED
      BY <2>2, <3>1 DEF Succeeded
  <2> QED
    BY <2>1, <2>2
<1>3. WriteFramesAll(made.seg) = Succeeded(made.seg)
  <2>1. made.seg.frames = <<>>
    BY <1>2 DEF Awaits, Muxed
  <2> HIDE DEF made
  <2> QED
    BY <2>1, NothingQueued
<1> HIDE DEF made
<1>4. r.ok /\ r.seg = made.seg /\ ~r.again
  <2>1. ~(result < 0) /\ result # 2
    OBVIOUS
  <2> HIDE DEF result
  <2> DEFINE done == IF result < 0 THEN Refused(s)
                     ELSE IF made.ok THEN WriteFramesAll(made.seg) ELSE made
  <2>2. r = [ok |-> done.ok, seg |-> done.seg, again |-> result = 2]
    BY DEF Turn, Then, made, result
  <2>3. done = Succeeded(made.seg)
    BY <1>2, <1>3, <2>1
  <2> HIDE DEF r, done
  <2>4. r.ok = done.ok /\ r.seg = done.seg
    BY <2>2
  <2>5. ~r.again
    BY <2>1, <2>2
  <2> QED
    BY <2>3, <2>4, <2>5 DEF Succeeded
<1> HIDE DEF r
<1> QED
  BY <1>2, <1>4 DEF r

(* The loop then takes one turn.                                            *)
LEMMA ProcessingAccepts ==
  ASSUME NEW s, Muxed(s), s.header_written, ~s.force_new_cluster, Closable(s),
         NEW f, VideoFrame(f),
         TestFrame(s, f) = 1 \/ (TestFrame(s, f) = 0 /\ Awaits(s, f))
  PROVE  LET r == DoNewClusterProcessing(s, f) IN
         r.ok /\ Awaits(r.seg, f) /\ Content(r.seg) = Content(s)
<1> DEFINE r == Turn(s, f)
<1>1. /\ r.ok /\ ~r.again
      /\ Awaits(r.seg, f) /\ Content(r.seg) = Content(s)
  BY TurnAccepts
<1> HIDE DEF r
<1>2. DoNewClusterProcessing(s, f) = r
  BY <1>1 DEF DoNewClusterProcessing, r
<1> QED
  BY <1>1, <1>2

(* The header is written by the call that succeeds.                        *)
LEMMA HeaderReady ==
  ASSUME NEW s, Good(s)
  PROVE  LET q == CheckHeaderInfo(s) IN
         /\ q.ok => q.seg.header_written
         /\ s.header_written => q = Succeeded(s)
<1> DEFINE q == CheckHeaderInfo(s)
           used == s.seeks + 2 + Extras
<1>1. /\ used \in Nat /\ kSeekEntryCount \in Nat /\ s.header_written \in BOOLEAN
      /\ s \in SegmentType
  <2>1. s.seeks \in Nat /\ s.header_written \in BOOLEAN /\ s \in SegmentType
    BY GoodTypes DEF SegmentType
  <2> QED
    BY <2>1, SegmentAssumption DEF kSeekEntryCount
<1>2. CASE s.header_written
  BY <1>2 DEF CheckHeaderInfo, Succeeded
<1>3. CASE ~s.header_written /\ used >= kSeekEntryCount
  <2>1. q = Refused([s EXCEPT !.seeks = kSeekEntryCount])
          \/ q = Refused([s EXCEPT !.seeks = used, !.header_written = TRUE])
    BY <1>1, <1>3 DEF CheckHeaderInfo
  <2>2. ~q.ok
    BY <2>1 DEF Refused
  <2> QED
    BY <1>3, <2>2
<1>4. CASE ~s.header_written /\ used < kSeekEntryCount
  <2> DEFINE t == [s EXCEPT !.seeks = used + 1, !.header_written = TRUE]
  <2>1. q = Succeeded(t)
    BY <1>1, <1>4 DEF CheckHeaderInfo
  <2>2. t.header_written
    BY <1>1 DEF SegmentType
  <2> HIDE DEF t, q
  <2> QED
    BY <1>4, <2>1, <2>2 DEF Succeeded, q
<1> QED
  BY <1>1, <1>2, <1>3, <1>4

(* The frame is written as the last one of the file.                       *)
AddsTo(s, f, x) ==
  /\ x.ok
  /\ Open(x.seg, f.timestamp)
  /\ Content(x.seg) = Append(Content(s), f)

(* AddGenericFrame for a frame that one turn makes room for.                *)
LEMMA FrameAccepted ==
  ASSUME NEW s, CheckHeaderInfo(s).ok, NEW t, t = CheckHeaderInfo(s).seg,
         Muxed(t), t.header_written, ~t.force_new_cluster, Closable(t),
         Content(t) = Content(s),
         NEW f, VideoFrame(f), f.timestamp >= t.last_timestamp,
         TestFrame(t, f) = 1 \/ (TestFrame(t, f) = 0 /\ Awaits(t, f))
  PROVE  AddsTo(s, f, AddGenericFrame(s, f))
<1> DEFINE r == DoNewClusterProcessing(t, f)
           q == WriteBlock(r.seg, f)
           v == [q.seg EXCEPT !.last_timestamp = f.timestamp]
           x == AddGenericFrame(s, f)
<1>1. f.track = 1
  BY DEF VideoFrame, VideoTrackNumber
<1>2. r.ok /\ Awaits(r.seg, f) /\ Content(r.seg) = Content(t)
  BY ProcessingAccepts
<1>3. x = IF r.ok THEN IF q.ok THEN Succeeded(v) ELSE q ELSE r
  BY <1>1 DEF AddGenericFrame, Then, VideoTrackNumber, AudioTrackNumber
<1> HIDE DEF x, r
<1>4. q.ok /\ Open(v, f.timestamp) /\ Content(v) = Append(Content(r.seg), f)
  BY <1>2, BlockAccepted
<1>5. x = Succeeded(v)
  BY <1>2, <1>3, <1>4
<1> HIDE DEF v
<1> QED
  BY <1>2, <1>4, <1>5 DEF AddsTo, Succeeded, x

(* After a frame at l, one whose timecode is in reach of every cluster     *)
(* that l can be in is written.                                            *)
InReach(l, ts) ==
  /\ l <= ts
  /\ Timecode(ts) - Timecode(l) + Span <= MaxBlockTimecode

(* A frame in reach of the last one is written.                             *)
LEMMA OpenAccepts ==
  ASSUME NEW s, NEW l \in Int, Open(s, l), NEW f, VideoFrame(f),
         InReach(l, f.timestamp)
  PROVE  AddsTo(s, f, AddGenericFrame(s, f))
<1> DEFINE n == Len(s.clusters)
           c == s.clusters[n]
           ts == f.timestamp
           delta == Timecode(ts) - c.timecode
<1>1. /\ Muxed(s) /\ Good(s) /\ s \in SegmentType
      /\ s.clusters \in Seq(Cluster) /\ n \in Nat /\ n # 0
      /\ s.header_written /\ ~s.force_new_cluster
      /\ c.header_written /\ ~c.finalized
      /\ Timecode(l) - c.timecode \in 0 .. Span
      /\ s.last_timestamp = l
  BY GoodTypes DEF Open, Muxed
<1>2. /\ f \in Frame /\ f.track = VideoTrackNumber /\ f.valid /\ ts \in Int
      /\ f.is_key \in BOOLEAN
  BY DEF VideoFrame, Muxable, Frame
<1>3. n \in 1 .. n /\ c \in Cluster /\ c.timecode \in Int
  <2>1. n \in 1 .. n /\ c \in Cluster
    BY <1>1, ElementOfSeq, LenProperties
  <2> QED
    BY <2>1 DEF Cluster
<1>4. /\ Timecode(l) \in Int /\ Timecode(ts) \in Int
      /\ Timecode(l) <= Timecode(ts)
  BY <1>2, TimecodeMonotone DEF InReach
<1>5. delta \in Nat /\ delta \in 0 .. MaxBlockTimecode
  <2>1. Timecode(ts) - Timecode(l) + Span <= MaxBlockTimecode
    BY DEF InReach
  <2> DEFINE a == Timecode(l)
             b == Timecode(ts)
             t == c.timecode
  <2>2. Span \in Nat /\ MaxBlockTimecode \in Nat
    BY SpanType, SegmentAssumption
  <2>3. /\ a \in Int /\ b \in Int /\ t \in Int /\ a <= b
        /\ a - t \in 0 .. Span /\ b - a + Span <= MaxBlockTimecode
    BY <1>1, <1>3, <1>4, <2>1
  <2> HIDE DEF a, b, t, c, ts
  <2>4. b - t \in Nat /\ b - t \in 0 .. MaxBlockTimecode
    BY <2>2, <2>3
  <2> QED
    BY <2>4 DEF a, b, t
<1>6. CheckHeaderInfo(s).ok /\ CheckHeaderInfo(s).seg = s
  BY <1>1, HeaderReady DEF Succeeded
<1>7. Closable(s)
  BY <1>1 DEF Closable
<1>8. f.timestamp >= s.last_timestamp
  BY <1>1, <1>2 DEF InReach
<1>9. s.clusters # <<>>
  BY <1>1, EmptySeq
<1> DEFINE late == IsVideoKey(f) \/ delta * TimecodeScale >= MaxClusterDuration
<1>10. TestFrame(s, f) = IF late THEN 1 ELSE 0
  <2>1. TestFrame(s, f) = IF \/ f.is_key /\ f.track = VideoTrackNumber
                             \/ delta * TimecodeScale >= MaxClusterDuration
                          THEN 1 ELSE 0
    <3>1. ~(delta < 0) /\ ~(delta > MaxBlockTimecode) /\ delta \in 0 .. MaxBlockTimecode
      BY <1>5, SegmentAssumption
    <3>2. Last(s.clusters) = c
      BY DEF Last
    <3> DEFINE d == delta
    <3> HIDE DEF c
    <3>3. d = Timecode(f.timestamp) - Last(s.clusters).timecode
      BY <3>2
    <3> HIDE DEF d
    <3> QED
      BY <1>1, <1>9, <3>1, <3>3 DEF TestFrame, d
  <2> HIDE DEF delta
  <2> QED
    BY <2>1 DEF IsVideoKey
<1>11. ~late => Awaits(s, f)
  <2> SUFFICES ASSUME ~late PROVE Awaits(s, f)
    OBVIOUS
  <2>1. delta * TimecodeScale < MaxClusterDuration
    <3>1. delta * TimecodeScale \in Int /\ MaxClusterDuration \in Int
      BY <1>5, SegmentAssumption
    <3> HIDE DEF delta
    <3> QED
      BY <3>1
  <2>2. delta <= Span
    <3> HIDE DEF delta
    <3> QED
      BY <1>5, <2>1, SpanType
  <2>3. delta \in 0 .. Span
    <3> HIDE DEF delta
    <3> QED
      BY <1>5, <2>2, SpanType
  <2> QED
    BY <1>1, <1>5, <2>3 DEF Awaits
<1> HIDE DEF late
<1>12. TestFrame(s, f) = 1 \/ (TestFrame(s, f) = 0 /\ Awaits(s, f))
  BY <1>10, <1>11
<1> QED
  BY <1>1, <1>6, <1>7, <1>8, <1>12, FrameAccepted

(* The first frame of a file is written unless the header cannot be, and   *)
(* an empty frame never is.                                                *)
Starts(s, f, x) ==
  /\ x.ok \in BOOLEAN
  /\ x.ok => f.track = VideoTrackNumber /\ AddsTo(s, f, x)
  /\ ~x.ok => Fresh(x.seg)

(* The first frame, or an empty one, before any cluster.                    *)
LEMMA FreshAccepts ==
  ASSUME NEW s, Fresh(s), NEW f, Muxable(f),
         f.track = VideoTrackNumber => f.timestamp >= 0
  PROVE  Starts(s, f, AddGenericFrame(s, f))
<1> DEFINE h == CheckHeaderInfo(s)
           t == h.seg
           x == AddGenericFrame(s, f)
<1>1. /\ h.ok \in BOOLEAN /\ h.ok => t.header_written
      /\ HeaderOnly(s, t)
  BY CheckHeaderInfoGood, HeaderReady DEF Fresh, Muxed
<1>2. f \in Frame /\ f.track \in {0, 1} /\ f.timestamp \in Int
  BY DEF Muxable, Frame, VideoTrackNumber
<1> HIDE DEF h, t
<1>3. Fresh(t) /\ Content(t) = Content(s)
  <2>1. Muxed(t) /\ Content(t) = Content(s)
    BY <1>1, MuxedSame DEF HeaderOnly, Fresh
  <2> QED
    BY <1>1, <2>1 DEF HeaderOnly, Fresh
<1>4. CASE ~h.ok
  <2>1. x = h
    BY <1>4 DEF AddGenericFrame, Then, h
  <2> HIDE DEF x
  <2>2. x.seg = t
    BY <2>1 DEF t
  <2>3. x.ok = h.ok
    BY <2>1
  <2>4. x.ok = FALSE
    BY <1>1, <1>4, <2>3
  <2> QED
    BY <1>3, <2>2, <2>4 DEF Starts, x
<1>5. CASE h.ok /\ f.track = 0
  <2>1. x = Refused(t)
    BY <1>5 DEF AddGenericFrame, Then, h, t, VideoTrackNumber, AudioTrackNumber
  <2> HIDE DEF x
  <2> QED
    BY <1>3, <2>1 DEF Starts, Refused, x
<1>6. CASE h.ok /\ f.track = 1
  <2>1. VideoFrame(f) /\ f.timestamp >= t.last_timestamp
    BY <1>3, <1>6 DEF VideoFrame, VideoTrackNumber, Fresh
  <2>2. /\ Muxed(t) /\ t.header_written /\ ~t.force_new_cluster
        /\ t.clusters = <<>>
    BY <1>1, <1>3, <1>6 DEF Fresh
  <2>3. Closable(t)
    BY <2>2, EmptySeq DEF Closable
  <2>4. TestFrame(t, f) = 1
    BY <2>2 DEF TestFrame
  <2>5. AddsTo(s, f, x)
    BY <1>3, <1>6, <2>1, <2>2, <2>3, <2>4, FrameAccepted DEF h, t
  <2> HIDE DEF x
  <2>6. x.ok \in BOOLEAN
    BY AddGenericFrameMuxed DEF Added, Fresh, x
  <2> QED
    BY <1>6, <2>5, <2>6 DEF Starts, AddsTo, VideoTrackNumber, x
<1> QED
  BY <1>1, <1>2, <1>4, <1>5, <1>6

(* Nothing is written once Finish has closed the last cluster.             *)
Stuck(s) ==
  /\ Muxed(s) /\ Len(s.clusters) # 0
  /\ s.clusters[Len(s.clusters)].finalized

(* A closed cluster takes no block.                                         *)
LEMMA BlockStuck ==
  ASSUME NEW s, s.clusters \in Seq(Cluster), s \in SegmentType,
         Len(s.clusters) # 0, s.clusters[Len(s.clusters)].finalized, NEW f
  PROVE  LET r == WriteBlock(s, f) IN
         ~r.ok /\ r.seg.clusters = s.clusters
<1> DEFINE n == Len(s.clusters)
           c == s.clusters[n]
           t == [s EXCEPT !.clusters[n] = c]
           r == WriteBlock(s, f)
<1>1. AddFrame(c, f) = [ok |-> FALSE, cluster |-> c]
  BY DEF AddFrame
<1>2. r = Refused(t)
  BY <1>1 DEF WriteBlock
<1>3. t.clusters = s.clusters
  <2>1. n \in 1 .. n /\ DOMAIN s.clusters = 1 .. n
    BY ElementOfSeq, LenProperties
  <2> HIDE DEF n
  <2>2. [s.clusters EXCEPT ![n] = c] = s.clusters
    BY <2>1
  <2> QED
    BY <2>2 DEF SegmentType
<1> HIDE DEF t, r
<1> QED
  BY <1>2, <1>3 DEF Refused, r

(* A closed last cluster cannot make way for a new one.                     *)
LEMMA TurnStuck ==
  ASSUME NEW s, Stuck(s), NEW f \in Frame
  PROVE  LET r == Turn(s, f) IN
         r.seg.clusters = s.clusters /\ ~(r.ok /\ r.again)
<1> DEFINE result == TestFrame(s, f)
           t == [s EXCEPT !.force_new_cluster = FALSE]
           made == IF result > 0 THEN MakeNewCluster(t, f.timestamp)
                                 ELSE Succeeded(t)
           r == Turn(s, f)
           done == IF result < 0 THEN Refused(s) ELSE Then(made, WriteFramesAll)
<1>1. result \in {-1, 0, 1, 2} /\ s \in SegmentType /\ Good(s)
  BY TestFrameResult, GoodTypes DEF Stuck, Muxed
<1>2. t.clusters = s.clusters /\ t.frames = <<>> /\ t.freed = 0
  BY <1>1 DEF SegmentType, Stuck, Muxed
<1>3. /\ r.ok = done.ok /\ r.seg = done.seg
      /\ r.again <=> result = 2
  <2>1. r = [ok |-> done.ok, seg |-> done.seg, again |-> result = 2]
    BY DEF Turn
  <2> HIDE DEF result, done, r
  <2> QED
    BY <2>1
<1> HIDE DEF t, r
<1>4. CASE result < 0
  <2>1. done = Refused(s)
    BY <1>4
  <2> HIDE DEF done
  <2> QED
    BY <1>3, <1>4, <2>1 DEF Refused, r
<1>5. CASE result = 0
  <2>1. done = Succeeded(t)
    <3>1. WriteFramesAll(t) = Succeeded(t)
      BY <1>2, NothingQueued
    <3> QED
      BY <1>5, <3>1 DEF Then, Succeeded
  <2> HIDE DEF done
  <2> QED
    BY <1>2, <1>3, <1>5, <2>1 DEF Succeeded, r
<1>6. CASE result > 0
  <2>1. WriteFramesLessThan(t, f.timestamp) = Succeeded(t)
    BY <1>2, NothingQueued
  <2>2. FinalizeCluster(t) = Refused(t)
    <3>1. Len(t.clusters) \in Nat /\ Len(t.clusters) # 0
      BY <1>1, <1>2, GoodTypes, LenProperties DEF Stuck
    <3> QED
      BY <1>2, <3>1 DEF FinalizeCluster, Stuck
  <2>3. MakeNewCluster(t, f.timestamp) = Refused(t)
    BY <2>1, <2>2 DEF MakeNewCluster, Then, Succeeded, Refused
  <2>4. done = Refused(t)
    <3>1. ~(result < 0) /\ made = Refused(t)
      BY <1>1, <1>6, <2>3
    <3> HIDE DEF result, made
    <3> QED
      BY <3>1 DEF Then, Refused
  <2> HIDE DEF done
  <2> QED
    BY <1>2, <1>3, <2>4 DEF Refused, r
<1> QED
  BY <1>1, <1>4, <1>5, <1>6

(* So every frame is refused, and it stays closed.                          *)
LEMMA StuckRefuses ==
  ASSUME NEW s, Stuck(s), NEW f, Muxable(f)
  PROVE  Stuck(AddGenericFrame(s, f).seg)
<1> DEFINE h == CheckHeaderInfo(s)
           t == h.seg
           r == DoNewClusterProcessing(t, f)
           q == WriteBlock(r.seg, f)
           v == [q.seg EXCEPT !.last_timestamp = f.timestamp]
           x == AddGenericFrame(s, f)
<1>1. f \in Frame /\ f.track \in {0, 1}
  BY DEF Muxable, VideoTrackNumber
<1>2. Muxed(x.seg)
  BY AddGenericFrameMuxed DEF Stuck, Added
<1>3. Stuck(t) /\ t.clusters = s.clusters
  <2>1. HeaderOnly(s, t)
    BY CheckHeaderInfoGood DEF Stuck, Muxed
  <2> HIDE DEF t
  <2>2. Muxed(t)
    BY <2>1, MuxedSame DEF HeaderOnly, Stuck
  <2> QED
    BY <2>1, <2>2 DEF HeaderOnly, Stuck
<1> HIDE DEF h, t
<1>4. r.seg.clusters = s.clusters /\ Muxed(r.seg)
  <2> DEFINE z == Turn(t, f)
  <2>1. z.seg.clusters = t.clusters /\ ~(z.ok /\ z.again)
    BY <1>1, <1>3, TurnStuck
  <2>2. Muxed(z.seg)
    BY <1>1, <1>3, TurnMuxed DEF Prepared, Stuck
  <2> HIDE DEF z
  <2>3. r = z
    BY <2>1 DEF DoNewClusterProcessing, z
  <2> QED
    BY <1>3, <2>1, <2>2, <2>3
<1> HIDE DEF r
<1>5. ~q.ok /\ q.seg.clusters = s.clusters
  <2>1. r.seg \in SegmentType /\ r.seg.clusters \in Seq(Cluster)
    BY <1>4, GoodTypes DEF Muxed
  <2> QED
    BY <1>3, <1>4, <2>1, BlockStuck DEF Stuck
<1> HIDE DEF q
<1>6. x \in {h, Refused(t), r, q}
  BY <1>1, <1>5 DEF AddGenericFrame, Then, h, t, r, q, VideoTrackNumber,
                    AudioTrackNumber
<1>7. x.seg.clusters = s.clusters
  <2> HIDE DEF x
  <2>1. CASE x = h
    BY <1>3, <2>1 DEF t
  <2>2. CASE x = Refused(t)
    BY <1>3, <2>2 DEF Refused
  <2>3. CASE x = r
    BY <1>4, <2>3
  <2>4. CASE x = q
    BY <1>5, <2>4
  <2> QED
    BY <1>6, <2>1, <2>2, <2>3, <2>4
<1> QED
  BY <1>2, <1>7 DEF Stuck

-----------------------------------------------------------------------------
(* The frozen picture. *)

(* The n-th block of the file q shows the last of the frames `ids' that    *)
(* was saved by the n-th call, counted from that of the first one.         *)
Shown(q, ids, first, latest) ==
  /\ q \in Seq(Frame) /\ ids \subseteq Nat
  /\ first \in ids /\ latest \in ids
  /\ \A x \in ids : x <= latest
  /\ latest - first < Len(q)
  /\ \A n \in 1 .. Len(q) :
       /\ q[n].id \in ids /\ q[n].id - first < n
       /\ \A x \in ids : x - first < n => x <= q[n].id

(* The latest frame once more.                                              *)
LEMMA AppendShown ==
  ASSUME NEW q, NEW ids, NEW first, NEW latest, Shown(q, ids, first, latest),
         NEW f \in Frame, f.id = latest
  PROVE  /\ Shown(Append(q, f), ids, first, latest)
         /\ Len(Append(q, f)) = Len(q) + 1
<1> DEFINE m == Len(q)
           p == Append(q, f)
<1>1. /\ q \in Seq(Frame) /\ ids \subseteq Nat
      /\ first \in ids /\ latest \in ids
      /\ \A x \in ids : x <= latest
      /\ latest - first < m
      /\ \A n \in 1 .. m :
           /\ q[n].id \in ids /\ q[n].id - first < n
           /\ \A x \in ids : x - first < n => x <= q[n].id
  BY DEF Shown
<1>2. /\ m \in Nat /\ p \in Seq(Frame) /\ Len(p) = m + 1
      /\ \A i \in 1 .. m : p[i] = q[i]
      /\ p[m + 1] = f
  BY <1>1, AppendProperties, LenProperties
<1> HIDE DEF m, p
<1>3. first \in Nat /\ latest \in Nat /\ latest - first < m + 1
  BY <1>1, <1>2
<1>4. ASSUME NEW n \in 1 .. m + 1
      PROVE  /\ p[n].id \in ids /\ p[n].id - first < n
             /\ \A x \in ids : x - first < n => x <= p[n].id
  <2>1. CASE n = m + 1
    BY <1>1, <1>2, <1>3, <2>1
  <2>2. CASE n \in 1 .. m
    BY <1>1, <1>2, <2>2
  <2> QED
    BY <1>2, <2>1, <2>2
<1>5. Shown(p, ids, first, latest)
  BY <1>1, <1>2, <1>3, <1>4 DEF Shown
<1> QED
  BY <1>2, <1>5 DEF m, p

(* The frame of the call that comes next.                                  *)
LEMMA SaveShown ==
  ASSUME NEW q, NEW ids, NEW first, NEW latest, Shown(q, ids, first, latest),
         NEW f \in Frame, f.id = first + Len(q)
  PROVE  /\ Shown(Append(q, f), ids \cup {f.id}, first, f.id)
         /\ Len(Append(q, f)) = Len(q) + 1
<1> DEFINE m == Len(q)
           p == Append(q, f)
           k == f.id
           jds == ids \cup {k}
<1>1. /\ q \in Seq(Frame) /\ ids \subseteq Nat
      /\ first \in ids /\ latest \in ids
      /\ \A x \in ids : x <= latest
      /\ latest - first < m
      /\ \A n \in 1 .. m :
           /\ q[n].id \in ids /\ q[n].id - first < n
           /\ \A x \in ids : x - first < n => x <= q[n].id
      /\ k = first + m
  BY DEF Shown
<1>2. /\ m \in Nat /\ p \in Seq(Frame) /\ Len(p) = m + 1
      /\ \A i \in 1 .. m : p[i] = q[i]
      /\ p[m + 1] = f
  BY <1>1, AppendProperties, LenProperties
<1>3. k \in Nat /\ p[m + 1].id = k
  BY <1>2 DEF Frame
<1> HIDE DEF m, p, k
<1>4. /\ first \in Nat /\ latest \in Nat /\ k - first < m + 1
      /\ jds \subseteq Nat /\ first \in jds /\ k \in jds
      /\ \A x \in jds : x <= k
  BY <1>1, <1>2, <1>3
<1>5. ASSUME NEW n \in 1 .. m + 1
      PROVE  /\ p[n].id \in jds /\ p[n].id - first < n
             /\ \A x \in jds : x - first < n => x <= p[n].id
  <2>1. CASE n = m + 1
    BY <1>2, <1>3, <1>4, <2>1
  <2>2. CASE n \in 1 .. m
    <3>1. p[n].id = q[n].id /\ q[n].id \in ids /\ q[n].id - first < n
      BY <1>1, <1>2, <2>2
    <3>2. \A x \in ids : x - first < n => x <= q[n].id
      BY <1>1, <2>2
    <3>3. ~(k - first < n)
      BY <1>1, <1>2, <1>3, <1>4, <2>2
    <3> QED
      BY <3>1, <3>2, <3>3
  <2> QED
    BY <1>2, <2>1, <2>2
<1> HIDE DEF jds
<1>6. Shown(p, jds, first, k)
  BY <1>2, <1>4, <1>5 DEF Shown
<1> QED
  BY <1>2, <1>6 DEF m, p, k, jds

(* The first frame.                                                         *)
LEMMA FirstShown ==
  ASSUME NEW f \in Frame
  PROVE  Shown(<<f>>, {f.id}, f.id, f.id)
<1>1. <<f>> \in Seq(Frame) /\ Len(<<f>>) = 1 /\ <<f>>[1] = f /\ f.id \in Nat
  BY DEF Frame
<1> DEFINE q == <<f>>
<1> HIDE DEF q
<1>2. Shown(q, {f.id}, f.id, f.id)
  BY <1>1 DEF Shown, q
<1> QED
  BY <1>2 DEF q

(* The times of the repeated frames: from the last one on, and never after *)
(* the next one.                                                           *)
LEMMA Spread ==
  ASSUME NEW l \in Int, NEW ts \in Int, l <= ts, NEW k \in Nat, k # 0,
         NEW delta, delta = (ts - l) \div k
  PROVE  /\ delta \in Nat
         /\ \A i \in 0 .. k : i * delta \in Nat /\ l + i * delta <= ts
         /\ \A i \in Nat : i * delta <= (i + 1) * delta
<1>1. delta \in Nat /\ k * delta <= ts - l
  <2>1. ts - l \in Nat
    OBVIOUS
  <2> QED
    BY <2>1
<1>2. ASSUME NEW i \in 0 .. k PROVE i * delta \in Nat /\ i * delta <= k * delta
  BY <1>1
<1>3. \A i \in Nat : i * delta <= (i + 1) * delta
  BY <1>1
<1>4. ASSUME NEW i \in 0 .. k PROVE l + i * delta <= ts
  <2> DEFINE x == i * delta
             y == k * delta
  <2>1. x \in Nat /\ x <= y /\ y <= ts - l /\ y \in Nat
    BY <1>1, <1>2
  <2> HIDE DEF x, y
  <2>2. l + x <= ts
    BY <2>1
  <2> QED
    BY <2>2 DEF x
<1> QED
  BY <1>1, <1>2, <1>3, <1>4

(* SaveDelayed, one repetition after another.                              *)
RepeatStays(T, last, delta, i) ==
  \A u \in T[i] : AddGenericFrame(u, Repeated(last, delta, i + 1)).seg \in T[i + 1]

(* A property that each repetition hands on holds after the last.           *)
LEMMA SaveDelayedStays ==
  ASSUME NEW s, NEW last, NEW k \in Nat, k # 0, NEW ts,
         NEW delta, delta = (ts - last.timestamp) \div k, NEW T, s \in T[0],
         \A i \in 0 .. k - 1 : RepeatStays(T, last, delta, i)
  PROVE  LET r == SaveDelayed(s, last, k, ts) IN
         r.seg \in T[k] /\ r.last = Repeated(last, delta, k)
<1> DEFINE g == CHOOSE h : Repeats(s, last, delta, k, h)
           G == {i \in 0 .. k : g[i] \in T[i]}
           r == SaveDelayed(s, last, k, ts)
<1>1. Repeats(s, last, delta, k, g)
  BY RepeatsExist
<1>2. r.seg = g[k] /\ r.last = Repeated(last, delta, k)
  BY DEF SaveDelayed, Repeats, Repeated
<1> HIDE DEF g, r
<1>3. 0 \in G
  <2>1. 0 \in 0 .. k
    OBVIOUS
  <2> HIDE DEF G
  <2>2. RepeatsNext(s, last, delta, g, 0)
    BY <1>1, <2>1, RepeatEntries
  <2>3. g[0] = s
    BY <2>2 DEF RepeatsNext
  <2> QED
    BY <2>1, <2>3 DEF G
<1>4. ASSUME NEW i \in 0 .. k - 1, i \in G PROVE i + 1 \in G
  <2>1. i + 1 \in 0 .. k /\ i + 1 # 0 /\ (i + 1) - 1 = i
    OBVIOUS
  <2>2. g[i] \in T[i]
    BY <1>4
  <2> HIDE DEF G
  <2>3. RepeatsNext(s, last, delta, g, i + 1)
    BY <1>1, <2>1, RepeatEntries
  <2>4. g[i + 1] = AddGenericFrame(g[i], Repeated(last, delta, i + 1)).seg
    BY <2>1, <2>3 DEF RepeatsNext
  <2>5. g[i + 1] \in T[i + 1]
    BY <2>2, <2>4 DEF RepeatStays
  <2> QED
    BY <2>1, <2>5 DEF G
<1>5. \A i \in 0 .. k : i \in G
  <2> HIDE DEF G
  <2> QED
    BY <1>3, <1>4, UpTo
<1>6. g[k] \in T[k]
  BY <1>5
<1> QED
  BY <1>2, <1>6 DEF r

(* Repetitions into a closed cluster leave it closed.                       *)
LEMMA SaveDelayedStuck ==
  ASSUME NEW s, Stuck(s), NEW last, Muxable(last),
         NEW k \in Nat, k # 0, NEW ts \in Int
  PROVE  Stuck(SaveDelayed(s, last, k, ts).seg)
<1> DEFINE delta == (ts - last.timestamp) \div k
           A == {u \in SegmentType : Stuck(u)}
           T == [i \in 0 .. k |-> A]
<1>1. delta \in Int
  BY DEF Muxable, Frame
<1>2. \A u : Stuck(u) => u \in A
  BY GoodTypes DEF Stuck, Muxed
<1>3. s \in T[0]
  BY <1>2
<1>4. ASSUME NEW i \in 0 .. k - 1 PROVE RepeatStays(T, last, delta, i)
  <2> DEFINE f == Repeated(last, delta, i + 1)
  <2>1. Muxable(f)
    <3> HIDE DEF delta
    <3> QED
      BY <1>1, RepeatedMuxable
  <2> HIDE DEF f, delta
  <2>2. ASSUME NEW u \in A PROVE AddGenericFrame(u, f).seg \in A
    <3>1. Stuck(AddGenericFrame(u, f).seg)
      BY <2>1, StuckRefuses
    <3> HIDE DEF A
    <3> QED
      BY <1>2, <3>1
  <2>3. T[i] = A /\ T[i + 1] = A
    OBVIOUS
  <2> HIDE DEF A, T
  <2> QED
    BY <2>2, <2>3 DEF RepeatStays, f
<1> HIDE DEF T
<1>5. SaveDelayed(s, last, k, ts).seg \in T[k]
  BY <1>3, <1>4, SaveDelayedStays
<1> QED
  BY <1>5 DEF T

(* An empty frame is repeated in vain.                                     *)
LEMMA SaveDelayedFresh ==
  ASSUME NEW s, Fresh(s), NEW last, Muxable(last), last.track = 0,
         NEW k \in Nat, k # 0, NEW ts \in Int
  PROVE  LET r == SaveDelayed(s, last, k, ts) IN
         /\ Fresh(r.seg)
         /\ Muxable(r.last) /\ r.last.id = last.id /\ r.last.track = 0
<1> DEFINE delta == (ts - last.timestamp) \div k
           A == {u \in SegmentType : Fresh(u)}
           T == [i \in 0 .. k |-> A]
           r == SaveDelayed(s, last, k, ts)
<1>1. delta \in Int
  BY DEF Muxable, Frame
<1>2. \A u : Fresh(u) => u \in A
  BY GoodTypes DEF Fresh, Muxed
<1>3. s \in T[0]
  BY <1>2
<1>4. ASSUME NEW i \in 0 .. k - 1 PROVE RepeatStays(T, last, delta, i)
  <2> DEFINE f == Repeated(last, delta, i + 1)
  <2>1. Muxable(f) /\ f.track # VideoTrackNumber
    <3> HIDE DEF delta
    <3> QED
      BY <1>1, RepeatedMuxable DEF VideoTrackNumber
  <2> HIDE DEF f, delta
  <2>2. ASSUME NEW u \in A PROVE AddGenericFrame(u, f).seg \in A
    <3>1. Starts(u, f, AddGenericFrame(u, f))
      BY <2>1, FreshAccepts
    <3>2. Fresh(AddGenericFrame(u, f).seg)
      BY <2>1, <3>1 DEF Starts
    <3> HIDE DEF A
    <3> QED
      BY <1>2, <3>2
  <2>3. T[i] = A /\ T[i + 1] = A
    OBVIOUS
  <2> HIDE DEF A, T
  <2> QED
    BY <2>2, <2>3 DEF RepeatStays, f
<1> HIDE DEF T
<1>5. r.seg \in T[k] /\ r.last = Repeated(last, delta, k)
  <2>1. r.seg \in T[k]
    BY <1>3, <1>4, SaveDelayedStays
  <2>2. r.last = Repeated(last, delta, k)
    BY DEF SaveDelayed, Repeated
  <2> QED
    BY <2>1, <2>2
<1>6. Fresh(r.seg)
  BY <1>5 DEF T
<1> HIDE DEF r, delta
<1> QED
  BY <1>1, <1>5, <1>6, RepeatedMuxable DEF r

(* The last frame saved is repeated, and its repetitions are all written.  *)
Shows(s, ids, first, latest, n) ==
  /\ Shown(Content(s), ids, first, latest)
  /\ Len(Content(s)) = n

(* A frame repeated in reach is written each time, and shown.               *)
LEMMA SaveDelayedShows ==
  ASSUME NEW s, NEW last, VideoFrame(last), Open(s, last.timestamp),
         NEW k \in Nat, k # 0, NEW ts \in Int, InReach(last.timestamp, ts),
         NEW ids, NEW first, NEW n \in Nat, Shows(s, ids, first, last.id, n)
  PROVE  LET r == SaveDelayed(s, last, k, ts) IN
         /\ VideoFrame(r.last) /\ r.last.id = last.id
         /\ Open(r.seg, r.last.timestamp)
         /\ InReach(r.last.timestamp, ts)
         /\ Shows(r.seg, ids, first, last.id, n + k)
<1> DEFINE l == last.timestamp
           delta == (ts - l) \div k
           at(i) == IF i = 0 THEN l ELSE l + (i - 1) * delta
           P(u, i) == Open(u, at(i)) /\ Shows(u, ids, first, last.id, n + i)
           A(i) == {u \in SegmentType : P(u, i)}
           T == [i \in 0 .. k |-> A(i)]
           r == SaveDelayed(s, last, k, ts)
<1>1. Muxable(last) /\ last.track = VideoTrackNumber /\ l \in Int /\ l <= ts
  BY DEF VideoFrame, Muxable, Frame, InReach
<1>2. /\ delta \in Nat
      /\ \A i \in 0 .. k : i * delta \in Nat /\ l + i * delta <= ts
      /\ \A i \in Nat : i * delta <= (i + 1) * delta
  BY <1>1, Spread
<1>3. \A u, i : P(u, i) => u \in A(i)
  BY GoodTypes DEF Open, Muxed
<1>4. at(0) = l /\ n + 0 = n
  OBVIOUS
<1> HIDE DEF l, delta
<1>5. \A i \in 0 .. k : at(i) \in Int /\ l <= at(i) /\ at(i) <= ts
  <2> SUFFICES ASSUME NEW i \in 0 .. k
               PROVE  at(i) \in Int /\ l <= at(i) /\ at(i) <= ts
    OBVIOUS
  <2>1. CASE i = 0
    BY <1>1, <2>1
  <2>2. CASE i # 0
    <3> DEFINE x == (i - 1) * delta
    <3>1. i - 1 \in 0 .. k
      BY <2>2
    <3>2. x \in Nat /\ l + x <= ts
      BY <1>2, <3>1
    <3>3. at(i) = l + x
      BY <2>2
    <3> HIDE DEF x, at
    <3> QED
      BY <1>1, <3>2, <3>3
  <2> QED
    BY <2>1, <2>2
<1>6. ASSUME NEW i \in 0 .. k - 1
      PROVE  at(i + 1) = l + i * delta /\ at(i) <= at(i + 1)
  <2>1. i + 1 # 0 /\ (i + 1) - 1 = i
    OBVIOUS
  <2>2. at(i + 1) = l + i * delta
    BY <2>1
  <2>3. at(i) <= at(i + 1)
    <3>1. CASE i = 0
      BY <1>4, <1>5, <3>1
    <3>2. CASE i # 0
      <4> DEFINE x == (i - 1) * delta
                 y == i * delta
      <4>1. i - 1 \in Nat /\ (i - 1) + 1 = i
        BY <3>2
      <4>2. x <= y
        BY <1>2, <4>1
      <4>3. x \in Nat /\ y \in Nat
        <5>1. i - 1 \in 0 .. k /\ i \in 0 .. k
          BY <3>2
        <5> QED
          BY <1>2, <5>1
      <4>4. at(i) = l + x /\ at(i + 1) = l + y
        BY <2>2, <3>2
      <4> HIDE DEF x, y, at
      <4> QED
        BY <1>1, <4>2, <4>3, <4>4
    <3> QED
      BY <3>1, <3>2
  <2> QED
    BY <2>2, <2>3
<1> HIDE DEF at
<1>7. \A i \in 0 .. k - 1 : InReach(at(i), at(i + 1))
  <2> SUFFICES ASSUME NEW i \in 0 .. k - 1 PROVE InReach(at(i), at(i + 1))
    OBVIOUS
  <2> DEFINE a == at(i)
             b == at(i + 1)
  <2>1. i \in 0 .. k /\ i + 1 \in 0 .. k
    OBVIOUS
  <2>2. a \in Int /\ b \in Int /\ l <= a /\ b <= ts /\ a <= b
    BY <1>5, <1>6, <2>1
  <2> HIDE DEF a, b
  <2>3. Timecode(l) <= Timecode(a) /\ Timecode(b) <= Timecode(ts)
    BY <1>1, <2>2, TimecodeMonotone
  <2>4. /\ Timecode(l) \in Int /\ Timecode(a) \in Int
        /\ Timecode(b) \in Int /\ Timecode(ts) \in Int
    BY <1>1, <2>2, TimecodeType
  <2>5. Timecode(ts) - Timecode(l) + Span <= MaxBlockTimecode
    BY DEF InReach, l
  <2>6. Timecode(b) - Timecode(a) + Span <= MaxBlockTimecode
    BY <2>3, <2>4, <2>5, SpanType, SegmentAssumption
  <2>7. InReach(a, b)
    BY <2>2, <2>6 DEF InReach
  <2> QED
    BY <2>7 DEF a, b
<1>8. ASSUME NEW i \in 0 .. k - 1, NEW u, P(u, i)
      PROVE  P(AddGenericFrame(u, Repeated(last, delta, i + 1)).seg, i + 1)
  <2> DEFINE f == Repeated(last, delta, i + 1)
             x == AddGenericFrame(u, f)
  <2>1. VideoFrame(f) /\ f.id = last.id /\ f.timestamp = at(i + 1)
    <3>1. (i + 1) - 1 = i /\ i + 1 \in Int /\ delta \in Int
      BY <1>2
    <3>2. /\ Muxable(f) /\ f.id = last.id /\ f.track = last.track
          /\ f.timestamp = l + ((i + 1) - 1) * delta
      <4> HIDE DEF P
      <4> QED
        BY <1>1, <3>1, RepeatedMuxable DEF l
    <3>3. at(i + 1) = l + ((i + 1) - 1) * delta
      BY <1>6, <3>1
    <3> HIDE DEF f
    <3> QED
      BY <1>1, <3>2, <3>3 DEF VideoFrame
  <2>2. f \in Frame
    BY <2>1 DEF VideoFrame, Muxable
  <2> HIDE DEF f, P
  <2>3. Open(u, at(i)) /\ Shows(u, ids, first, last.id, n + i)
    BY <1>8 DEF P
  <2>4. at(i) \in Int
    <3>1. i \in 0 .. k
      OBVIOUS
    <3> QED
      BY <1>5, <3>1
  <2>5. AddsTo(u, f, x)
    BY <1>7, <2>1, <2>3, <2>4, OpenAccepts
  <2> HIDE DEF x
  <2>6. Open(x.seg, at(i + 1)) /\ Content(x.seg) = Append(Content(u), f)
    BY <2>1, <2>5 DEF AddsTo
  <2>7. Shows(x.seg, ids, first, last.id, (n + i) + 1)
    <3>1. /\ Shown(Append(Content(u), f), ids, first, last.id)
          /\ Len(Append(Content(u), f)) = Len(Content(u)) + 1
      BY <2>1, <2>2, <2>3, AppendShown DEF Shows
    <3> QED
      BY <2>3, <2>6, <3>1 DEF Shows
  <2>8. (n + i) + 1 = n + (i + 1)
    OBVIOUS
  <2>9. P(x.seg, i + 1)
    BY <2>6, <2>7, <2>8 DEF P
  <2> QED
    BY <2>9 DEF x, f
<1>9. P(s, 0)
  BY <1>4 DEF l
<1> HIDE DEF P
<1>10. s \in T[0]
  BY <1>3, <1>9
<1>11. ASSUME NEW i \in 0 .. k - 1 PROVE RepeatStays(T, last, delta, i)
  <2>1. i \in 0 .. k /\ i + 1 \in 0 .. k
    OBVIOUS
  <2>2. T[i] = A(i) /\ T[i + 1] = A(i + 1)
    BY <2>1
  <2>3. \A u \in A(i) : P(u, i)
    OBVIOUS
  <2> HIDE DEF A, T
  <2> QED
    BY <1>3, <1>8, <2>2, <2>3 DEF RepeatStays
<1>12. r.seg \in T[k] /\ r.last = Repeated(last, delta, k)
  <2> HIDE DEF T
  <2> QED
    BY <1>10, <1>11, SaveDelayedStays DEF delta, l
<1>13. P(r.seg, k)
  <2>1. T[k] = A(k)
    OBVIOUS
  <2> QED
    BY <1>12, <2>1
<1> HIDE DEF r, A, T
<1>14. Open(r.seg, at(k)) /\ Shows(r.seg, ids, first, last.id, n + k)
  BY <1>13 DEF P
<1>15. VideoFrame(r.last) /\ r.last.id = last.id /\ r.last.timestamp = at(k)
  <2>1. k - 1 \in 0 .. k - 1 /\ (k - 1) + 1 = k /\ k \in Int /\ delta \in Int
    BY <1>2
  <2>2. at(k) = l + (k - 1) * delta
    BY <1>6, <2>1
  <2> QED
    BY <1>1, <1>12, <2>1, <2>2, RepeatedMuxable DEF VideoFrame, l
<1>16. InReach(at(k), ts)
  <2> DEFINE a == at(k)
  <2>1. k \in 0 .. k
    OBVIOUS
  <2>2. a \in Int /\ l <= a /\ a <= ts
    BY <1>5, <2>1
  <2> HIDE DEF a
  <2>3. /\ Timecode(l) <= Timecode(a) /\ Timecode(l) \in Int
        /\ Timecode(a) \in Int /\ Timecode(ts) \in Int
    BY <1>1, <2>2, TimecodeMonotone, TimecodeType
  <2>4. Timecode(ts) - Timecode(l) + Span <= MaxBlockTimecode
    BY DEF InReach, l
  <2>5. InReach(a, ts)
    BY <2>2, <2>3, <2>4, SpanType, SegmentAssumption DEF InReach
  <2> QED
    BY <2>5 DEF a
<1> QED
  BY <1>14, <1>15, <1>16 DEF r

-----------------------------------------------------------------------------
(* Save, before and after the first frame of the file. *)

Ids(q) == {f.id : f \in ToSet(q)}

(* The calls of a sequence with one frame more.                             *)
LEMMA IdsAppended ==
  ASSUME NEW A \in Seq(Frame), NEW f \in Frame
  PROVE  /\ Append(A, f) \in Seq(Frame) /\ Append(A, f) # <<>>
         /\ Ids(Append(A, f)) = Ids(A) \cup {f.id}
         /\ A # <<>> => Append(A, f)[1] = A[1]
         /\ A = <<>> => Append(A, f) = <<f>> /\ Ids(<<f>>) = {f.id}
<1> DEFINE p == Append(A, f)
           n == Len(A)
<1>1. /\ p \in Seq(Frame) /\ n \in Nat /\ Len(p) = n + 1
      /\ \A i \in 1 .. n : p[i] = A[i]
  BY AppendProperties, LenProperties
<1>2. ToSet(p) = ToSet(A) \cup {f}
  BY SetOfAppended
<1>3. p # <<>> /\ (A # <<>> => n # 0)
  <2> HIDE DEF p
  <2> QED
    BY <1>1, EmptySeq
<1>4. A # <<>> => p[1] = A[1]
  BY <1>1, <1>3
<1>5. Ids(p) = Ids(A) \cup {f.id}
  BY <1>2 DEF Ids
<1>6. ASSUME A = <<>> PROVE p = <<f>> /\ Ids(<<f>>) = {f.id}
  <2>1. p = <<f>>
    BY <1>6
  <2>2. ToSet(A) = {}
    BY <1>6, LenProperties, EmptySeq DEF ToSet
  <2>3. Ids(A) = {}
    BY <2>2 DEF Ids
  <2> QED
    BY <1>5, <2>1, <2>3
<1> QED
  BY <1>1, <1>3, <1>4, <1>5, <1>6

(* A file without clusters is empty.                                        *)
LEMMA FreshEmpty ==
  ASSUME NEW s, Fresh(s)
  PROVE  Content(s) = <<>>
<1>1. Content(NewSegment) = Content(s)
  BY DEF Fresh, NewSegment, Content
<1> QED
  BY <1>1, NewIsMuxed

(* What CreateFrame makes.                                                  *)
LEMMA FrameCreated ==
  ASSUME calls \in Nat, NEW ts \in Int, NEW key \in BOOLEAN,
         NEW hasData \in BOOLEAN
  PROVE  LET f == CreateFrame(hasData, ts, key) IN
         /\ hasData => /\ VideoFrame(f) /\ f.valid
                       /\ f.id = calls + 1 /\ f.timestamp = ts
         /\ ~hasData => ~f.valid
<1> DEFINE f == CreateFrame(hasData, ts, key)
<1>1. CASE hasData
  <2>1. f = [track |-> VideoTrackNumber, timestamp |-> ts, is_key |-> key,
             valid |-> TRUE, id |-> calls + 1]
    BY <1>1 DEF CreateFrame
  <2>2. calls + 1 \in Nat
    OBVIOUS
  <2> HIDE DEF f
  <2>3. f \in Frame
    BY <2>1, <2>2 DEF Frame, VideoTrackNumber
  <2>4. /\ VideoFrame(f) /\ f.valid
        /\ f.id = calls + 1 /\ f.timestamp = ts
    BY <2>1, <2>3 DEF Muxable, VideoFrame
  <2> QED
    BY <1>1, <2>4 DEF f
<1>2. CASE ~hasData
  BY <1>2 DEF CreateFrame, NoData
<1> QED
  BY <1>1, <1>2

(* The first frame of the file, with all the calls before it delayed: it   *)
(* is the first of the file, or the segment stays as it was.               *)
SavedFirst(f) ==
  /\ delayed_frame_count' = 0
  /\ \/ answered' = <<>> /\ Fresh(segment') /\ last_frame'.track = 0
     \/ /\ answered' = <<f>> /\ last_frame' = f
        /\ Open(segment', f.timestamp) /\ Content(segment') = <<f>>

(* Save, before the first frame.                                            *)
LEMMA SaveWaiting ==
  ASSUME NEW s, Fresh(s), NEW last, Muxable(last), last.track = 0,
         NEW f, VideoFrame(f), f.timestamp >= 0,
         delayed_frame_count \in Nat, AnsweredBefore = <<>>, Save(s, last, f)
  PROVE  SavedFirst(f)
<1> DEFINE caught == IF delayed_frame_count > 0
                     THEN SaveDelayed(s, last, delayed_frame_count, f.timestamp)
                     ELSE [seg |-> s, last |-> last]
           added == AddGenericFrame(caught.seg, f)
<1>1. /\ segment' = added.seg
      /\ last_frame' = IF added.ok THEN f ELSE caught.last
      /\ delayed_frame_count' = 0
      /\ answered' = IF added.ok THEN Append(AnsweredBefore, f)
                                 ELSE AnsweredBefore
  BY DEF Save
<1>2. /\ f \in Frame /\ Muxable(f) /\ f.timestamp \in Int
      /\ f.track = VideoTrackNumber
  BY DEF VideoFrame, Muxable, Frame
<1>3. Fresh(caught.seg) /\ caught.last.track = 0
  <2>1. CASE delayed_frame_count > 0
    <3>1. caught = SaveDelayed(s, last, delayed_frame_count, f.timestamp)
      BY <2>1
    <3>2. delayed_frame_count # 0
      BY <2>1
    <3> HIDE DEF caught
    <3> QED
      BY <1>2, <3>1, <3>2, SaveDelayedFresh
  <2>2. CASE ~(delayed_frame_count > 0)
    <3>1. caught = [seg |-> s, last |-> last]
      BY <2>2
    <3> HIDE DEF caught
    <3> QED
      BY <3>1
  <2> QED
    BY <2>1, <2>2
<1> HIDE DEF caught
<1>4. Starts(caught.seg, f, added)
  BY <1>2, <1>3, FreshAccepts
<1>5. Content(caught.seg) = <<>>
  BY <1>3, FreshEmpty
<1> HIDE DEF added
<1>6. CASE added.ok
  <2>1. AddsTo(caught.seg, f, added)
    BY <1>4, <1>6 DEF Starts
  <2>2. Open(added.seg, f.timestamp) /\ Content(added.seg) = Append(<<>>, f)
    BY <1>5, <2>1 DEF AddsTo
  <2>3. Append(<<>>, f) = <<f>>
    BY <1>2, EmptySeq, IdsAppended
  <2> QED
    BY <1>1, <1>6, <2>2, <2>3 DEF SavedFirst
<1>7. CASE ~added.ok
  <2>1. Fresh(added.seg)
    BY <1>4, <1>7 DEF Starts
  <2> QED
    BY <1>1, <1>3, <1>7, <2>1 DEF SavedFirst
<1> QED
  BY <1>6, <1>7

(* A later frame: it is written, after one block for each call delayed.    *)
SavedShowing(A, f, n) ==
  /\ delayed_frame_count' = 0
  /\ answered' = Append(A, f) /\ last_frame' = f
  /\ Open(segment', f.timestamp)
  /\ Shows(segment', Ids(answered'), answered'[1].id, f.id,
           n + delayed_frame_count + 1)

(* Save, after the first frame.                                             *)
LEMMA SaveShowing ==
  ASSUME NEW s, NEW last, VideoFrame(last), Open(s, last.timestamp),
         NEW f, VideoFrame(f), InReach(last.timestamp, f.timestamp),
         delayed_frame_count \in Nat,
         NEW A \in Seq(Frame), AnsweredBefore = A, A # <<>>,
         NEW n \in Nat, Shows(s, Ids(A), A[1].id, last.id, n),
         f.id = A[1].id + (n + delayed_frame_count), Save(s, last, f)
  PROVE  SavedShowing(A, f, n)
<1> DEFINE k == delayed_frame_count
           caught == IF k > 0 THEN SaveDelayed(s, last, k, f.timestamp)
                     ELSE [seg |-> s, last |-> last]
           added == AddGenericFrame(caught.seg, f)
           first == A[1].id
<1>1. /\ segment' = added.seg
      /\ last_frame' = IF added.ok THEN f ELSE caught.last
      /\ delayed_frame_count' = 0
      /\ answered' = IF added.ok THEN Append(A, f) ELSE A
  BY DEF Save
<1>2. f \in Frame /\ f.timestamp \in Int /\ last.timestamp \in Int
  BY DEF VideoFrame, Muxable, Frame
<1>3. /\ VideoFrame(caught.last)
      /\ Open(caught.seg, caught.last.timestamp)
      /\ InReach(caught.last.timestamp, f.timestamp)
      /\ Shows(caught.seg, Ids(A), first, last.id, n + k)
  <2>1. CASE k > 0
    <3>1. caught = SaveDelayed(s, last, k, f.timestamp)
      BY <2>1
    <3>2. k # 0
      BY <2>1
    <3> HIDE DEF caught
    <3> QED
      BY <1>2, <3>1, <3>2, SaveDelayedShows
  <2>2. CASE ~(k > 0)
    <3>1. caught = [seg |-> s, last |-> last]
      BY <2>2
    <3>2. n + k = n
      BY <2>2
    <3> HIDE DEF caught, k
    <3> QED
      BY <3>1, <3>2
  <2> QED
    BY <2>1, <2>2
<1> HIDE DEF caught
<1>4. AddsTo(caught.seg, f, added)
  <2>1. caught.last.timestamp \in Int
    BY <1>3 DEF VideoFrame, Muxable, Frame
  <2> QED
    BY <1>3, <2>1, OpenAccepts
<1> DEFINE q == Content(caught.seg)
<1>5. Shown(q, Ids(A), first, last.id) /\ Len(q) = n + k
  BY <1>3 DEF Shows
<1> HIDE DEF added
<1>6. /\ added.ok
      /\ Open(added.seg, f.timestamp)
      /\ Content(added.seg) = Append(q, f)
  BY <1>4 DEF AddsTo
<1> HIDE DEF q, first
<1>7. /\ Shown(Append(q, f), Ids(A) \cup {f.id}, first, f.id)
      /\ Len(Append(q, f)) = Len(q) + 1
  <2>1. f.id = first + Len(q)
    BY <1>5 DEF first
  <2> QED
    BY <1>2, <1>5, <2>1, SaveShown
<1>8. Shows(added.seg, Ids(A) \cup {f.id}, first, f.id, n + k + 1)
  BY <1>5, <1>6, <1>7 DEF Shows
<1>9. /\ Ids(Append(A, f)) = Ids(A) \cup {f.id}
      /\ Append(A, f)[1] = A[1]
  BY <1>2, IdsAppended
<1> QED
  BY <1>1, <1>6, <1>8, <1>9 DEF SavedShowing, first

(* After a failed Finish nothing is.                                       *)
LEMMA SaveStuck ==
  ASSUME NEW s, Stuck(s), NEW last, Muxable(last), NEW f, Muxable(f),
         delayed_frame_count \in Nat, Save(s, last, f)
  PROVE  Stuck(segment')
<1> DEFINE k == delayed_frame_count
           caught == IF k > 0 THEN SaveDelayed(s, last, k, f.timestamp)
                     ELSE [seg |-> s, last |-> last]
<1>1. segment' = AddGenericFrame(caught.seg, f).seg
  BY DEF Save
<1>2. f.timestamp \in Int
  BY DEF Muxable, Frame
<1>3. Stuck(caught.seg)
  <2>1. CASE k > 0
    <3>1. caught = SaveDelayed(s, last, k, f.timestamp)
      BY <2>1
    <3>2. k # 0
      BY <2>1
    <3> HIDE DEF caught
    <3> QED
      BY <1>2, <3>1, <3>2, SaveDelayedStuck
  <2>2. CASE ~(k > 0)
    <3>1. caught = [seg |-> s, last |-> last]
      BY <2>2
    <3> HIDE DEF caught
    <3> QED
      BY <3>1
  <2> QED
    BY <2>1, <2>2
<1> HIDE DEF caught
<1> QED
  BY <1>1, <1>3, StuckRefuses

-----------------------------------------------------------------------------
(* The picture of the one file a recording has. *)

(* The file waits for its first frame, which no repetition can be: there   *)
(* is none to repeat.                                                      *)
Waiting ==
  /\ Fresh(segment) /\ since = 0 /\ last_frame.track = 0

(* The blocks shown so far and the frames delayed are the calls since the  *)
(* first frame, and the segment is ready for the next one.                 *)
Showing ==
  /\ Shown(Content(segment), Ids(answered), answered[1].id, last_frame.id)
  /\ since = Len(Content(segment)) + delayed_frame_count
  /\ initialized => /\ Open(segment, last_frame.timestamp)
                    /\ VideoFrame(last_frame)
                    /\ calls = answered[1].id + since - 1

(* The only file of a recording, from its opening on.                      *)
PicInv ==
  /\ files \in Nat
  /\ files = 0 => ~initialized /\ last_frame.track = 0
  /\ files = 1 /\ initialized /\ answered = <<>> => Waiting
  /\ files = 1 /\ answered # <<>> /\ ~gap /\ ~FinishFailed => Showing

(* No file is open at first.                                                *)
LEMMA PicInit == Init => PicInv
BY DEF Init, PicInv, NoData

(* What was answered with true is in some cluster.                         *)
LEMMA SomethingWritten ==
  ASSUME NEW s, NEW k, NEW A \in Seq(Frame), Holds(s, k, ToSet(A)), A # <<>>
  PROVE  /\ Len(s.clusters) # 0 /\ s.clusters # <<>>
         /\ A[1] \in Frame
<1>1. Muxed(s) /\ ToSet(A) \subseteq ToSet(Content(s))
  BY DEF Holds
<1>2. A[1] \in ToSet(A) /\ A[1] \in Frame
  <2>1. Len(A) \in Nat /\ Len(A) # 0
    BY LenProperties, EmptySeq
  <2>2. 1 \in 1 .. Len(A) /\ DOMAIN A = 1 .. Len(A)
    BY <2>1, LenProperties
  <2> QED
    BY <2>2, ElementOfSeq DEF ToSet
<1>3. s.clusters # <<>>
  <2> SUFFICES ASSUME s.clusters = <<>> PROVE FALSE
    OBVIOUS
  <2>1. Content(NewSegment) = Content(s)
    BY DEF NewSegment, Content
  <2>2. Content(s) = <<>>
    BY <2>1, NewIsMuxed
  <2>3. ToSet(Content(s)) = {}
    BY <2>2, LenProperties, EmptySeq DEF ToSet
  <2> QED
    BY <1>1, <1>2, <2>3
<1>4. Len(s.clusters) # 0
  BY <1>1, <1>3, GoodTypes DEF Muxed
<1> QED
  BY <1>2, <1>3, <1>4

(* The first frame of the file, and those delayed before it.               *)
LEMMA PicFirst ==
  ASSUME MuxerInv, PicInv, NEW step \in Steps, NEW key \in BOOLEAN,
         NEW hasData \in BOOLEAN, AddVideoFrame(step, key, hasData),
         files' = 1, initialized => answered = <<>>
  PROVE  PicInv'
<1> DEFINE ts == clock + step
           f == CreateFrame(hasData, ts, key)
           s == IF initialized THEN segment ELSE NewSegment
           last == IF initialized THEN last_frame
                   ELSE [last_frame EXCEPT !.timestamp = 0]
<1>1. /\ AddOrDelay(s, last, f) /\ calls' = calls + 1 /\ ts >= 0
      /\ IF initialized THEN UNCHANGED <<initialized, finished, pSegment, files>>
                        ELSE OpenFile
      /\ since' = CASE segment'.clusters = <<>> -> 0
                    [] segment'.clusters # <<>> /\ initialized -> since + 1
                    [] segment'.clusters # <<>> /\ ~initialized -> 1
  BY DEF AddVideoFrame
<1>2. /\ Muxable(last_frame) /\ calls \in Nat /\ clock \in Int
      /\ delayed_frame_count \in Nat /\ initialized \in BOOLEAN
  BY DEF MuxerInv
<1>3. ts \in Int
  <2>1. step \in Int
    BY MuxerAssumption
  <2> QED
    BY <1>2, <2>1
<1> HIDE DEF ts
<1>4. /\ hasData => /\ VideoFrame(f) /\ f.valid
                    /\ f.id = calls + 1 /\ f.timestamp = ts
      /\ ~hasData => ~f.valid
  BY <1>2, <1>3, FrameCreated
<1>5. /\ Fresh(s) /\ Muxable(last) /\ last.track = 0
      /\ AnsweredBefore = <<>>
      /\ initialized => since = 0
  <2>1. CASE initialized
    <3>1. files = 1
      BY <1>1, <2>1
    <3>2. Waiting
      BY <2>1, <3>1 DEF PicInv
    <3> QED
      BY <1>2, <2>1, <3>2 DEF Waiting, AnsweredBefore
  <2>2. CASE ~initialized
    <3>1. files \in Nat /\ files' = files + 1
      BY <1>1, <2>2 DEF OpenFile, PicInv
    <3>2. last_frame.track = 0
      BY <3>1 DEF PicInv
    <3>3. Fresh(NewSegment)
      BY NewIsMuxed DEF Fresh, NewSegment
    <3> DEFINE z == [last_frame EXCEPT !.timestamp = 0]
    <3>4. last = z /\ s = NewSegment
      BY <2>2
    <3>5. z \in Frame /\ z.track = last_frame.track
      BY <1>2 DEF Frame, Muxable
    <3> HIDE DEF z, last
    <3>6. Muxable(z) /\ z.track = 0
      BY <3>2, <3>5 DEF Muxable, VideoTrackNumber
    <3> QED
      BY <2>2, <3>3, <3>4, <3>6 DEF AnsweredBefore
  <2> QED
    BY <1>2, <2>1, <2>2
<1>6. initialized'
  BY <1>1 DEF OpenFile
<1> HIDE DEF f, s, last
<1>7. CASE ~f.valid \/ f.timestamp < last.timestamp
  <2>1. Delay /\ segment' = s /\ last_frame' = last
    BY <1>1, <1>7 DEF AddOrDelay
  <2>2. answered' = <<>> /\ segment'.clusters = <<>>
    BY <1>5, <2>1 DEF Delay, Fresh
  <2>3. since' = 0
    BY <1>1, <2>2
  <2>4. Waiting'
    BY <1>5, <2>1, <2>3 DEF Waiting
  <2> QED
    BY <2>2, <2>4 DEF PicInv
<1>8. CASE ~(~f.valid \/ f.timestamp < last.timestamp)
  <2>1. Save(s, last, f)
    BY <1>1, <1>8 DEF AddOrDelay
  <2>2. VideoFrame(f) /\ f.id = calls + 1 /\ f.timestamp = ts
    BY <1>4, <1>8
  <2>3. SavedFirst(f)
    BY <1>1, <1>2, <1>5, <2>1, <2>2, SaveWaiting
  <2>4. f \in Frame /\ f.id \in Nat
    BY <2>2 DEF VideoFrame, Muxable, Frame
  <2>5. CASE answered' = <<>>
    <3>1. <<f>> # <<>>
      BY <2>4, EmptySeq, IdsAppended
    <3>2. Fresh(segment') /\ last_frame'.track = 0
      BY <2>3, <2>5, <3>1 DEF SavedFirst
    <3>3. since' = 0
      BY <1>1, <3>2 DEF Fresh
    <3>4. Waiting'
      BY <3>2, <3>3 DEF Waiting
    <3> QED
      BY <2>5, <3>4 DEF PicInv
  <2>6. CASE answered' # <<>>
    <3>1. /\ answered' = <<f>> /\ last_frame' = f
          /\ Open(segment', f.timestamp) /\ Content(segment') = <<f>>
          /\ delayed_frame_count' = 0
      BY <2>3, <2>6 DEF SavedFirst
    <3>2. segment'.clusters # <<>>
      <4>1. Good(segment') /\ Len(segment'.clusters) # 0
        BY <3>1 DEF Open, Muxed
      <4> QED
        BY <4>1, GoodTypes
    <3>3. since' = 1
      BY <1>1, <1>2, <1>5, <3>2
    <3>4. Len(<<f>>) = 1 /\ <<f>>[1] = f
      BY <2>4
    <3>5. Shown(<<f>>, Ids(<<f>>), f.id, f.id)
      <4>1. Ids(<<f>>) = {f.id}
        BY <2>4, EmptySeq, IdsAppended
      <4> QED
        BY <2>4, <4>1, FirstShown
    <3>6. calls' = answered'[1].id + since' - 1
      <4>1. answered'[1] = f
        BY <3>1, <3>4
      <4> QED
        BY <1>1, <1>2, <2>2, <3>3, <4>1
    <3>7. Showing'
      <4>1. since' = Len(Content(segment')) + delayed_frame_count'
        BY <3>1, <3>3, <3>4
      <4>2. Shown(Content(segment'), Ids(answered'), answered'[1].id,
                  last_frame'.id)
        BY <3>1, <3>4, <3>5
      <4>3. VideoFrame(last_frame') /\ Open(segment', last_frame'.timestamp)
        BY <2>2, <3>1
      <4> QED
        BY <3>6, <4>1, <4>2, <4>3 DEF Showing
    <3> QED
      BY <2>6, <3>7 DEF PicInv
  <2> QED
    BY <2>5, <2>6
<1> QED
  BY <1>7, <1>8

(* A later one.                                                            *)
LEMMA PicLater ==
  ASSUME MuxerInv, PicInv, NEW step \in Steps, NEW key \in BOOLEAN,
         NEW hasData \in BOOLEAN, AddVideoFrame(step, key, hasData),
         files = 1, initialized, answered # <<>>
  PROVE  PicInv'
<1> DEFINE ts == clock + step
           f == CreateFrame(hasData, ts, key)
<1>1. /\ AddOrDelay(segment, last_frame, f) /\ calls' = calls + 1
      /\ UNCHANGED <<initialized, finished, pSegment, files>>
      /\ since' = CASE segment'.clusters = <<>> -> 0
                    [] segment'.clusters # <<>> /\ initialized -> since + 1
                    [] segment'.clusters # <<>> /\ ~initialized -> 1
      /\ gap' = (gap \/ (f.valid /\ last_frame.valid /\ LongAfter(f, last_frame)))
  BY DEF AddVideoFrame
<1>2. /\ Muxable(last_frame) /\ calls \in Nat /\ clock \in Int
      /\ delayed_frame_count \in Nat
  BY DEF MuxerInv
<1>3. ts \in Int
  <2>1. step \in Int
    BY MuxerAssumption
  <2> QED
    BY <1>2, <2>1
<1> HIDE DEF ts
<1>4. /\ hasData => /\ VideoFrame(f) /\ f.valid
                    /\ f.id = calls + 1 /\ f.timestamp = ts
      /\ ~hasData => ~f.valid
  BY <1>2, <1>3, FrameCreated
<1> HIDE DEF f
<1>5. /\ Muxed(segment) /\ Len(segment.clusters) # 0
      /\ segment.clusters # <<>>
      /\ answered \in Seq(Frame) /\ answered[1] \in Frame
  <2>1. /\ answered \in Seq(Frame)
        /\ Holds(segment, last_frame.id, ToSet(answered))
    BY DEF MuxerInv
  <2> QED
    BY <2>1, SomethingWritten DEF Holds
<1>6. files' = 1 /\ initialized' /\ AnsweredBefore = answered
  BY <1>1 DEF AnsweredBefore
<1>7. ASSUME answered' # <<>>, ~gap', ~FinishFailed' PROVE Showing'
  <2>1. ~gap /\ (f.valid /\ last_frame.valid => ~LongAfter(f, last_frame))
    BY <1>1, <1>7
  <2>2. ~Stuck(segment')
    BY <1>6, <1>7 DEF Stuck, FinishFailed, Last
  <2>3. CASE ~f.valid \/ f.timestamp < last_frame.timestamp
    <3>1. Delay /\ segment' = segment /\ last_frame' = last_frame
      BY <1>1, <2>3 DEF AddOrDelay
    <3>2. ~FinishFailed
      BY <1>5, <2>2, <3>1 DEF FinishFailed, Stuck, Last
    <3>3. Showing
      BY <2>1, <3>2 DEF PicInv
    <3>4. answered' = answered /\ delayed_frame_count' = delayed_frame_count + 1
      BY <1>6, <3>1 DEF Delay
    <3>5. since' = since + 1
      BY <1>1, <1>5, <3>1
    <3>6. /\ Shown(Content(segment), Ids(answered), answered[1].id, last_frame.id)
          /\ since = Len(Content(segment)) + delayed_frame_count
          /\ Open(segment, last_frame.timestamp)
          /\ VideoFrame(last_frame)
          /\ calls = answered[1].id + since - 1
      BY <3>3 DEF Showing
    <3>7. Len(Content(segment)) \in Nat /\ answered[1].id \in Nat
      BY <1>5, <3>6, LenProperties DEF Shown, Frame
    <3>8. since' = Len(Content(segment)) + delayed_frame_count'
      BY <1>2, <3>4, <3>5, <3>6, <3>7
    <3>9. calls' = answered[1].id + since' - 1
      BY <1>1, <1>2, <3>5, <3>6, <3>7
    <3> QED
      BY <3>1, <3>4, <3>6, <3>8, <3>9 DEF Showing
  <2>4. CASE ~(~f.valid \/ f.timestamp < last_frame.timestamp)
    <3>1. Save(segment, last_frame, f)
      BY <1>1, <2>4 DEF AddOrDelay
    <3>2. /\ VideoFrame(f) /\ Muxable(f) /\ f.id = calls + 1
          /\ f.timestamp \in Int
      BY <1>3, <1>4, <2>4 DEF VideoFrame
    <3>3. ~FinishFailed
      <4>1. ~Stuck(segment)
        BY <1>2, <2>2, <3>1, <3>2, SaveStuck
      <4> QED
        BY <1>5, <4>1 DEF FinishFailed, Stuck, Last
    <3>4. Showing
      BY <2>1, <3>3 DEF PicInv
    <3> DEFINE n == Len(Content(segment))
               m == n + delayed_frame_count + 1
    <3>5. /\ Shown(Content(segment), Ids(answered), answered[1].id, last_frame.id)
          /\ since = n + delayed_frame_count
          /\ Open(segment, last_frame.timestamp)
          /\ VideoFrame(last_frame)
          /\ calls = answered[1].id + since - 1
      BY <3>4 DEF Showing
    <3>6. n \in Nat /\ answered[1].id \in Nat /\ last_frame.timestamp \in Int
      BY <1>5, <3>5, LenProperties DEF Shown, Frame, VideoFrame, Muxable
    <3>7. InReach(last_frame.timestamp, f.timestamp)
      <4>1. last_frame.valid
        BY <3>5 DEF VideoFrame, Muxable
      <4>2. ~LongAfter(f, last_frame)
        BY <2>1, <2>4, <4>1
      <4>3. ~(Timecode(f.timestamp) - Timecode(last_frame.timestamp) + Span
                > MaxBlockTimecode)
        BY <4>2 DEF LongAfter, Span
      <4>4. /\ Timecode(f.timestamp) \in Int
            /\ Timecode(last_frame.timestamp) \in Int
        BY <3>2, <3>6, TimecodeType
      <4>5. last_frame.timestamp <= f.timestamp
        BY <2>4, <3>2, <3>6
      <4> QED
        BY <4>3, <4>4, <4>5, SpanType, SegmentAssumption DEF InReach
    <3>8. f.id = answered[1].id + (n + delayed_frame_count)
      <4> HIDE DEF n
      <4> QED
        BY <1>2, <3>2, <3>5, <3>6
    <3>9. Shows(segment, Ids(answered), answered[1].id, last_frame.id, n)
      BY <3>5 DEF Shows
    <3> HIDE DEF n
    <3>10. SavedShowing(answered, f, n)
      BY <1>2, <1>5, <1>6, <3>1, <3>2, <3>5, <3>6, <3>7, <3>8, <3>9, SaveShowing
    <3>11. /\ delayed_frame_count' = 0 /\ last_frame' = f
           /\ Open(segment', f.timestamp)
           /\ Shown(Content(segment'), Ids(answered'), answered'[1].id, f.id)
           /\ Len(Content(segment')) = m
           /\ answered' = Append(answered, f)
      BY <3>10 DEF SavedShowing, Shows
    <3>12. answered'[1] = answered[1]
      BY <1>5, <3>2, <3>11, IdsAppended DEF Muxable
    <3>13. segment'.clusters # <<>>
      <4>1. Good(segment') /\ Len(segment'.clusters) # 0
        BY <3>11 DEF Open, Muxed
      <4> QED
        BY <4>1, GoodTypes
    <3>14. since' = since + 1 /\ since' = m + 0
      BY <1>1, <1>2, <3>5, <3>6, <3>13
    <3>15. calls' = answered'[1].id + since' - 1
      BY <1>1, <1>2, <3>5, <3>6, <3>12, <3>14
    <3> HIDE DEF m
    <3> QED
      BY <3>2, <3>11, <3>14, <3>15 DEF Showing
  <2> QED
    BY <2>3, <2>4
<1>8. answered' # <<>>
  <2>1. CASE ~f.valid \/ f.timestamp < last_frame.timestamp
    BY <1>1, <1>6, <2>1 DEF AddOrDelay, Delay
  <2>2. CASE ~(~f.valid \/ f.timestamp < last_frame.timestamp)
    <3>1. VideoFrame(f)
      BY <1>4, <2>2
    <3>2. f \in Frame
      BY <3>1 DEF VideoFrame, Muxable
    <3>3. answered' = Append(answered, f) \/ answered' = answered
      BY <1>1, <1>6, <2>2 DEF AddOrDelay, Save
    <3> QED
      BY <1>5, <3>2, <3>3, IdsAppended
  <2> QED
    BY <2>1, <2>2
<1> QED
  BY <1>6, <1>7, <1>8 DEF PicInv

(* Finish keeps the picture, or fails for good.                             *)
LEMMA PicFinish ==
  ASSUME MuxerInv, MuxerInv', PicInv, FinishFile
  PROVE  PicInv'
<1>1. PICK sizeMatches \in BOOLEAN :
        LET done == Finalize(segment, sizeMatches)
        IN /\ segment' = done.seg
           /\ IF done.ok
              THEN /\ finished' = TRUE /\ initialized' = FALSE
                   /\ pSegment' = "deleted"
              ELSE UNCHANGED <<finished, initialized, pSegment>>
  BY DEF FinishFile
<1> DEFINE done == Finalize(segment, sizeMatches)
           q == FinalizeCluster(segment)
<1>2. /\ segment' = done.seg
      /\ done.ok => ~initialized'
      /\ ~done.ok => (initialized' <=> initialized)
  BY <1>1
<1>3. UNCHANGED <<last_frame, delayed_frame_count, calls, files, answered,
                  since, gap>>
  BY DEF FinishFile
<1>4. Muxed(segment)
  BY DEF MuxerInv, Holds
<1>5. /\ done.ok \in BOOLEAN /\ Content(segment') = Content(segment)
      /\ Muxed(segment')
      /\ HeaderOnly(q.seg, segment')
      /\ done.ok => q.ok
      /\ q.ok => AllFinalized(segment'.clusters)
  BY <1>2, <1>4, FinalizeMuxed
<1> HIDE DEF done, q
<1>6. files = 1 /\ initialized' /\ answered = <<>> => Waiting'
  <2> SUFFICES ASSUME files = 1, initialized', answered = <<>>
               PROVE  Waiting'
    OBVIOUS
  <2>1. Waiting
    BY <1>2, <1>5 DEF PicInv
  <2>2. q = Succeeded(segment)
    <3>1. Len(segment.clusters) = 0
      BY <1>4, <2>1, GoodTypes DEF Waiting, Fresh, Muxed
    <3> QED
      BY <3>1 DEF FinalizeCluster, q
  <2>3. HeaderOnly(segment, segment')
    BY <1>5, <2>2 DEF Succeeded
  <2>4. Fresh(segment')
    BY <1>5, <2>1, <2>3 DEF HeaderOnly, Fresh, Waiting
  <2> QED
    BY <1>3, <2>1, <2>4 DEF Waiting
<1>7. files = 1 /\ answered # <<>> /\ ~gap /\ ~FinishFailed' => Showing'
  <2> SUFFICES ASSUME files = 1, answered # <<>>, ~gap, ~FinishFailed'
               PROVE  Showing'
    OBVIOUS
  <2>1. Len(segment.clusters) # 0
    <3>1. /\ answered \in Seq(Frame)
          /\ Holds(segment, last_frame.id, ToSet(answered))
      BY DEF MuxerInv
    <3> QED
      BY <3>1, SomethingWritten
  <2>2. Stuck(segment) => ~q.ok /\ q.seg = segment
    <3>1. Len(segment.clusters) \in Nat
      BY <1>4, GoodTypes DEF Muxed
    <3>2. ASSUME Stuck(segment) PROVE q = Refused(segment)
      BY <2>1, <3>1, <3>2 DEF FinalizeCluster, Stuck, q
    <3> QED
      BY <3>2 DEF Refused
  <2>3. ~FinishFailed
    <3> SUFFICES ASSUME FinishFailed PROVE FALSE
      OBVIOUS
    <3>1. initialized /\ Stuck(segment)
      BY <1>4, <2>1 DEF FinishFailed, Stuck, Last
    <3>2. ~q.ok /\ q.seg = segment
      BY <2>2, <3>1
    <3>3. initialized'
      BY <1>2, <1>5, <3>1, <3>2
    <3>4. segment'.clusters = segment.clusters
      BY <1>5, <3>2 DEF HeaderOnly
    <3> QED
      BY <3>1, <3>3, <3>4 DEF FinishFailed, Stuck, Last
  <2>4. Showing
    BY <2>3 DEF PicInv
  <2>5. ~initialized'
    <3> SUFFICES ASSUME initialized' PROVE FALSE
      OBVIOUS
    <3>1. initialized
      BY <1>2, <1>5
    <3>2. Open(segment, last_frame.timestamp)
      BY <2>4, <3>1 DEF Showing
    <3>3. Closable(segment)
      BY <3>2 DEF Open, Closable
    <3>4. q.ok
      BY <1>4, <3>3, ClusterClosed DEF q
    <3>5. AllFinalized(segment'.clusters)
      BY <1>5, <3>4
    <3>6. Len(segment'.clusters) # 0
      <4>1. /\ answered' \in Seq(Frame) /\ answered' # <<>>
            /\ Holds(segment', last_frame'.id, ToSet(answered'))
        BY <1>3 DEF MuxerInv
      <4> QED
        BY <4>1, SomethingWritten
    <3>7. segment'.clusters[Len(segment'.clusters)].finalized
      <4>1. /\ Len(segment'.clusters) \in Nat
            /\ DOMAIN segment'.clusters = 1 .. Len(segment'.clusters)
        BY <1>5, GoodTypes, LenProperties DEF Muxed
      <4> QED
        BY <3>5, <3>6, <4>1 DEF AllFinalized
    <3> QED
      BY <3>7 DEF FinishFailed, Last
  <2> QED
    BY <1>3, <1>5, <2>4, <2>5 DEF Showing
<1> QED
  BY <1>2, <1>3, <1>6, <1>7 DEF PicInv

(* Every step keeps the picture.                                            *)
LEMMA PicNext ==
  MuxerInv /\ MuxerInv' /\ PicInv /\ [Next]_vars => PicInv'
<1> SUFFICES ASSUME MuxerInv, MuxerInv', PicInv, [Next]_vars PROVE PicInv'
  OBVIOUS
<1>1. CASE \E step \in Steps, key, hasData \in BOOLEAN :
             AddVideoFrame(step, key, hasData)
  <2>1. PICK step \in Steps, key \in BOOLEAN, hasData \in BOOLEAN :
          AddVideoFrame(step, key, hasData)
    BY <1>1
  <2>2. IF initialized THEN UNCHANGED <<initialized, finished, pSegment, files>>
                       ELSE OpenFile
    BY <2>1 DEF AddVideoFrame
  <2>3. /\ initialized' /\ files \in Nat
        /\ initialized => files' = files
        /\ ~initialized => files' = files + 1
        /\ initialized => files # 0
    BY <2>2 DEF OpenFile, PicInv
  <2>4. CASE files' # 1
    <3>1. files' \in Nat /\ files' # 0
      BY <2>3
    <3> QED
      BY <2>4, <3>1 DEF PicInv
  <2>5. CASE files' = 1 /\ (initialized => answered = <<>>)
    BY <2>1, <2>5, PicFirst
  <2>6. CASE files' = 1 /\ initialized /\ answered # <<>>
    <3>1. files = 1
      BY <2>3, <2>6
    <3> QED
      BY <2>1, <2>6, <3>1, PicLater
  <2> QED
    BY <2>4, <2>5, <2>6
<1>2. CASE AddVideoFrameNoFile
  <2>1. ~initialized
    BY <1>2 DEF AddVideoFrameNoFile
  <2>2. UNCHANGED <<initialized, segment, last_frame, delayed_frame_count,
                    files, answered, since, gap>>
    BY <1>2 DEF AddVideoFrameNoFile
  <2> QED
    BY <2>1, <2>2 DEF PicInv, Showing, FinishFailed
<1>3. CASE FinishNull
  BY <1>3 DEF FinishNull, PicInv, Waiting, Showing, FinishFailed
<1>4. CASE FinishFile
  BY <1>4, PicFinish
<1>5. CASE Delete
  BY <1>5 DEF Delete, PicInv, Waiting, Showing, FinishFailed
<1>6. CASE UNCHANGED vars
  BY <1>6 DEF vars, PicInv, Waiting, Showing, FinishFailed
<1> QED
  BY <1>1, <1>2, <1>3, <1>4, <1>5, <1>6 DEF Next

(* The picture holds.                                                       *)
LEMMA PicInvariant == Spec => []PicInv
BY PicInit, PicNext, MuxerInvariant, PTL DEF Spec

(* The greatest element is Max.                                             *)
LEMMA MaxIs ==
  ASSUME NEW S, S \subseteq Nat, NEW m \in S, \A x \in S : x <= m
  PROVE  Max(S) = m
<1>1. m >= m /\ \A x \in S : m >= x
  OBVIOUS
<1>2. Max(S) \in S /\ \A x \in S : Max(S) >= x
  BY <1>1 DEF Max
<1>3. Max(S) >= m /\ Max(S) <= m /\ Max(S) \in Nat /\ m \in Nat
  BY <1>2
<1> QED
  BY <1>3

(* A block of the file for each call, with the last frame saved by then.   *)
THEOREM PictureFrozen == Spec => []FrozenPicture
<1>1. MuxerInv /\ PicInv => FrozenPicture
  <2> SUFFICES ASSUME MuxerInv, PicInv, delayed_frame_count = 0,
                      answered # <<>>, files = 1, ~gap, ~FinishFailed
               PROVE  /\ Len(File) = since
                      /\ \A n \in DOMAIN File :
                           File[n].id = Max({f.id : f \in
                             {g \in ToSet(answered) :
                                g.id - answered[1].id < n}})
    BY DEF FrozenPicture
  <2> DEFINE q == Content(segment)
             ids == Ids(answered)
             first == answered[1].id
             Until(n) == {g \in ToSet(answered) : g.id - first < n}
  <2>1. File = q
    BY DEF File, Content, Parts
  <2>2. /\ Shown(q, ids, first, last_frame.id)
        /\ since = Len(q) + delayed_frame_count
    BY DEF PicInv, Showing
  <2>3. /\ q \in Seq(Frame) /\ ids \subseteq Nat
        /\ \A n \in 1 .. Len(q) :
             /\ q[n].id \in ids /\ q[n].id - first < n
             /\ \A x \in ids : x - first < n => x <= q[n].id
    BY <2>2 DEF Shown
  <2>4. Len(q) = since /\ DOMAIN q = 1 .. Len(q)
    BY <2>2, <2>3, LenProperties
  <2>5. ids = {f.id : f \in ToSet(answered)}
    BY DEF Ids
  <2> HIDE DEF q, ids, first
  <2>6. ASSUME NEW n \in 1 .. Len(q)
        PROVE  q[n].id = Max({f.id : f \in Until(n)})
    <3> DEFINE S == {f.id : f \in Until(n)}
    <3>1. S \subseteq ids /\ \A x \in S : x - first < n
      BY <2>5
    <3>2. q[n].id \in S
      BY <2>3, <2>5
    <3> HIDE DEF S
    <3>3. \A x \in S : x <= q[n].id
      BY <2>3, <3>1
    <3>4. S \subseteq Nat
      BY <2>3, <3>1
    <3>5. Max(S) = q[n].id
      BY <3>2, <3>3, <3>4, MaxIs
    <3> QED
      BY <3>5 DEF S
  <2> QED
    BY <2>1, <2>4, <2>6 DEF first
<1> QED
  BY <1>1, MuxerInvariant, PicInvariant, PTL

=============================================================================
