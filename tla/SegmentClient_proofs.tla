-------------------------- MODULE SegmentClient_proofs --------------------------
(***************************************************************************)
(* What a file written through mkvmuxer::Segment can be used for, for      *)
(* every caller: its cues index it and its key frames open their clusters. *)
(* The invariant is Good of Segment_proofs, which every method keeps; here *)
(* it is carried through the calls of SegmentClient.                       *)
(*                                                                         *)
(* And what becomes of the frames when the two tracks keep together        *)
(* (Gentle): none is lost or left behind, and Finalize succeeds.  The      *)
(* invariant is Keeping.  Its core, Steady, says that the queue is in      *)
(* order and within reach of the last cluster, so that no loop of          *)
(* AddGenericFrame meets a frame its cluster refuses.                      *)
(***************************************************************************)
EXTENDS SegmentClient, Segment_proofs

IInv ==
  /\ Good(segment)
  /\ offered \in [{VideoTrackNumber, AudioTrackNumber} -> Int]
  /\ count \in Nat

(* A new segment is good.                                                   *)
LEMMA InitIInv == Init => IInv
BY NewIsGood DEF Init, IInv

(* A frame offered leaves it good, taken or refused.                        *)
LEMMA OfferIInv ==
  ASSUME IInv, NEW track \in {VideoTrackNumber, AudioTrackNumber},
         NEW step \in Int, NEW key \in BOOLEAN, Offer(track, step, key)
  PROVE  IInv'
<1> DEFINE ts == offered[track] + step
           f == [track |-> track, timestamp |-> ts, is_key |-> key,
                 valid |-> TRUE, id |-> count + 1]
<1>1. ts \in Int
  BY DEF IInv
<1> HIDE DEF ts
<1>2. f \in Frame
  BY <1>1 DEF IInv, Frame, VideoTrackNumber, AudioTrackNumber
<1>3. segment' = AddGenericFrame(segment, f).seg
  BY DEF Offer, ts
<1> HIDE DEF f
<1>4. Good(segment')
  BY <1>2, <1>3, AddGenericFrameGood DEF IInv
<1>5. offered' \in [{VideoTrackNumber, AudioTrackNumber} -> Int]
  <2>1. offered' = [offered EXCEPT ![track] = ts]
    BY DEF Offer, ts
  <2> QED
    BY <1>1, <2>1 DEF IInv
<1>6. count' \in Nat
  BY DEF Offer, IInv
<1> QED
  BY <1>4, <1>5, <1>6 DEF IInv

(* So does every call.                                                      *)
LEMMA NextIInv == IInv /\ [Next]_vars => IInv'
<1> SUFFICES ASSUME IInv, [Next]_vars PROVE IInv'
  OBVIOUS
<1>1. CASE OfferVideo
  <2>1. PICK step \in VideoSteps, key \in BOOLEAN :
          Offer(VideoTrackNumber, step, key)
    BY <1>1 DEF OfferVideo
  <2> QED
    BY <2>1, OfferIInv, ClientAssumption
<1>2. CASE OfferAudio
  <2>1. PICK step \in AudioSteps : Offer(AudioTrackNumber, step, TRUE)
    BY <1>2 DEF OfferAudio
  <2> QED
    BY <2>1, OfferIInv, ClientAssumption
<1>3. CASE ForceNewCluster
  <2>1. segment' = ForceNewClusterOnNextFrame(segment)
        /\ offered' = offered /\ count' = count
    BY <1>3 DEF ForceNewCluster
  <2> QED
    BY <2>1, ForceNewClusterGood DEF IInv
<1>4. CASE Finish
  <2>1. PICK sizeMatches \in BOOLEAN :
          segment' = Finalize(segment, sizeMatches).seg
    BY <1>4 DEF Finish
  <2>2. offered' = offered /\ count' = count
    BY <1>4 DEF Finish
  <2>3. Good(segment')
    BY <2>1, FinalizeGood DEF IInv
  <2> QED
    BY <2>2, <2>3 DEF IInv
<1>5. CASE UNCHANGED vars
  BY <1>5 DEF vars, IInv
<1> QED
  BY <1>1, <1>2, <1>3, <1>4, <1>5 DEF Next

(* A segment is what SegmentType says, and keeps to Good, at all times.    *)
LEMMA AlwaysGood == Spec => []IInv
<1> QED
  BY InitIInv, NextIInv, PTL DEF Spec

(* Whatever is offered, in whatever order and with whatever times, and     *)
(* wherever the caller forces a cluster: a video key frame is the first    *)
(* video block of its cluster.                                             *)
LEMMA GoodKeys ==
  ASSUME IInv
  PROVE  KeyFramesOpenClusters
<1> SUFFICES ASSUME NEW c \in ToSet(segment.clusters),
                    NEW i \in VideoBlocks(c), c.blocks[i].is_key
             PROVE  i = Min(VideoBlocks(c))
  BY DEF KeyFramesOpenClusters
<1>1. PICK n \in DOMAIN segment.clusters : c = segment.clusters[n]
  BY DEF ToSet
<1>2. KeyFirst(c)
  BY <1>1 DEF IInv, Good, KeysFirst
<1>3. c \in Cluster
  <2>1. segment.clusters \in Seq(Cluster)
    BY GoodTypes DEF IInv
  <2> QED
    BY <1>1, <2>1, LenProperties, ElementOfSeq
<1>4. VideoBlocks(c) = Video(c)
  BY DEF VideoBlocks, Video
<1>5. Video(c) \subseteq Nat
  BY <1>3, VideoNumbers
<1>6. \A j \in Video(c) : i <= j
  BY <1>2, <1>4 DEF KeyFirst
<1>7. Min(Video(c)) = i
  BY <1>4, <1>5, <1>6, MinIs
<1> QED
  BY <1>4, <1>7

(* TestFrame opens a new cluster for every video key frame, the queue that *)
(* is written into it first holds audio only, and nothing else that a      *)
(* caller may do puts a key frame behind another video block.              *)
THEOREM KeyFramesFirst == Spec => []KeyFramesOpenClusters
<1> QED
  BY AlwaysGood, GoodKeys, PTL

(* Good says what the two properties ask for.                               *)
LEMMA GoodCues ==
  ASSUME IInv
  PROVE  CuesIndexClusters
<1> DEFINE cs == segment.clusters
           Start(i) == MaxOffset([clusters |-> SubSeq(cs, 1, i - 1)])
           AtStart(i) == LET b == Min(VideoBlocks(cs[i]))
                         IN [time |-> Timecode(cs[i].blocks[b].timestamp),
                             cluster |-> Start(i), block |-> b]
           withVideo == {i \in DOMAIN cs : VideoBlocks(cs[i]) # {}}
<1>1. withVideo = WithVideo(cs)
  BY DEF WithVideo, VideoBlocks, Video
<1>2. Cued(cs, segment.cues) /\ Positioned(cs)
  BY DEF IInv, Good
<1>3. ASSUME NEW i \in WithVideo(cs) PROVE AtStart(i) = CueOf(cs[i])
  <2>1. i \in DOMAIN cs
    BY DEF WithVideo
  <2>2. cs[i].position_for_cues = Start(i)
    BY <1>2, <2>1 DEF Positioned
  <2>3. VideoBlocks(cs[i]) = Video(cs[i])
    BY DEF VideoBlocks, Video
  <2> QED
    BY <2>2, <2>3 DEF CueOf
<1>4. ToSet(segment.cues) = {AtStart(i) : i \in withVideo}
  <2>1. {AtStart(i) : i \in withVideo} = {CueOf(cs[i]) : i \in WithVideo(cs)}
    <3> HIDE DEF AtStart, withVideo
    <3> QED
      BY <1>1, <1>3
  <2> HIDE DEF AtStart, withVideo
  <2> QED
    BY <1>2, <2>1 DEF Cued
<1>5. Len(segment.cues) = Cardinality(withVideo)
  BY <1>1, <1>2 DEF Cued
<1> QED
  BY <1>4, <1>5 DEF CuesIndexClusters

(* For every caller the cues are the index of the file: one for each       *)
(* cluster that has video, none else, with the position the cluster has in *)
(* the file and the number and time of its first video block.  The         *)
(* position is taken when the cluster is opened, before anything of it is  *)
(* written, and holds because an earlier cluster never changes again.      *)
THEOREM CuesAreTheIndex == Spec => []CuesIndexClusters
<1> QED
  BY AlwaysGood, GoodCues, PTL

-----------------------------------------------------------------------------
(* Blocks that can be written. *)

(* The frames q, written one after another to cluster c, make it d.        *)
Taken(c, q, d) ==
  /\ c \in Cluster /\ d \in Cluster
  /\ d.blocks = c.blocks \o q
  /\ d.timecode = c.timecode
  /\ d.finalized <=> c.finalized
  /\ d.header_written <=> c.header_written \/ q # <<>>

(* The same to the last cluster of s, which becomes t.                     *)
Wrote(s, q, t) ==
  /\ Good(t)
  /\ t.seeks = s.seeks
  /\ t.header_written <=> s.header_written
  /\ t.force_new_cluster <=> s.force_new_cluster
  /\ t.crashed <=> s.crashed
  /\ Content(t) = Content(s) \o q
  /\ Len(t.clusters) = Len(s.clusters)
  /\ \A i \in 1 .. Len(s.clusters) - 1 : t.clusters[i] = s.clusters[i]
  /\ Taken(s.clusters[Len(s.clusters)], q, t.clusters[Len(s.clusters)])

(* The last cluster is open and has the frame's timecode.                  *)
Room(s, f) ==
  /\ f.valid
  /\ ~s.clusters[Len(s.clusters)].finalized
  /\ Timecode(f.timestamp) - s.clusters[Len(s.clusters)].timecode
       \in 0 .. MaxBlockTimecode

(* A good segment and its last cluster.                                    *)
LEMMA LastOf ==
  ASSUME NEW s, Good(s), Len(s.clusters) # 0
  PROVE  /\ s.clusters \in Seq(Cluster) /\ Len(s.clusters) \in Nat \ {0}
         /\ s.clusters[Len(s.clusters)] \in Cluster
         /\ s.clusters[Len(s.clusters)].blocks \in Seq(Frame)
         /\ s.clusters[Len(s.clusters)].timecode \in Int
         /\ Content(s) \in Seq(Frame)
<1>1. s.clusters \in Seq(Cluster) /\ Len(s.clusters) \in Nat \ {0}
  BY GoodTypes
<1>2. s.clusters[Len(s.clusters)] \in Cluster
  <2>1. Len(s.clusters) \in 1 .. Len(s.clusters)
    BY <1>1
  <2> QED
    BY <1>1, <2>1, ElementOfSeq
<1> QED
  BY <1>1, <1>2, ContentType DEF Cluster

(* Nothing written.                                                        *)
LEMMA WroteNothing ==
  ASSUME NEW s, Good(s), Len(s.clusters) # 0
  PROVE  Wrote(s, <<>>, s)
<1>1. Content(s) \o <<>> = Content(s)
  BY LastOf, ConcatEmptySeq
<1> DEFINE c == s.clusters[Len(s.clusters)]
<1>2. c \in Cluster /\ c.blocks \o <<>> = c.blocks
  BY LastOf, ConcatEmptySeq
<1>3. Taken(c, <<>>, c)
  BY <1>2 DEF Taken
<1> QED
  BY <1>1, <1>3 DEF Wrote

(* One frame after others.                                                 *)
LEMMA WroteTwice ==
  ASSUME NEW s, Good(s), Len(s.clusters) # 0, NEW q \in Seq(Frame),
         NEW t, Wrote(s, q, t), NEW p \in Seq(Frame), NEW u, Wrote(t, p, u)
  PROVE  Wrote(s, q \o p, u)
<1> DEFINE n == Len(s.clusters)
           c == s.clusters[n]
           d == t.clusters[n]
           e == u.clusters[n]
<1>1. n \in Nat \ {0} /\ Content(s) \in Seq(Frame)
  BY LastOf
<1>2. Taken(c, q, d) /\ Len(t.clusters) = n
  BY DEF Wrote
<1>3. Taken(d, p, e) /\ Len(u.clusters) = n
  BY <1>2 DEF Wrote
<1>4. Content(u) = Content(s) \o (q \o p)
  <2>1. Content(t) = Content(s) \o q /\ Content(u) = Content(t) \o p
    BY DEF Wrote
  <2> QED
    BY <1>1, <2>1, ConcatAssociative
<1>5. Taken(c, q \o p, e)
  <2>1. c.blocks \in Seq(Frame)
    BY LastOf
  <2> HIDE DEF c, d, e
  <2>2. /\ d.blocks = c.blocks \o q /\ e.blocks = d.blocks \o p
    BY <1>2, <1>3 DEF Taken
  <2>3. e.blocks = c.blocks \o (q \o p)
    <3>1. ASSUME NEW b \in Seq(Frame) PROVE (b \o q) \o p = b \o (q \o p)
      BY ConcatAssociative
    <3> QED
      BY <2>1, <2>2, <3>1
  <2>4. q \o p = <<>> <=> q = <<>> /\ p = <<>>
    BY ConcatEqualIffEmpty
  <2> QED
    BY <1>2, <1>3, <2>3, <2>4 DEF Taken
<1>6. \A i \in 1 .. n - 1 : u.clusters[i] = s.clusters[i]
  <2>1. \A i \in 1 .. n - 1 : t.clusters[i] = s.clusters[i]
    BY DEF Wrote
  <2>2. \A i \in 1 .. n - 1 : u.clusters[i] = t.clusters[i]
    BY <1>2 DEF Wrote
  <2> QED
    BY <2>1, <2>2
<1> HIDE DEF n, c, e
<1>7. Good(u) /\ u.seeks = s.seeks
      /\ (u.header_written <=> s.header_written)
      /\ (u.force_new_cluster <=> s.force_new_cluster)
      /\ (u.crashed <=> s.crashed)
  BY DEF Wrote
<1> QED
  BY <1>3, <1>4, <1>5, <1>6, <1>7 DEF Wrote, n, c, e

(* A block that has room.                                                  *)
LEMMA BlockFits ==
  ASSUME NEW s, Good(s), Len(s.clusters) # 0, NEW f \in Frame, Room(s, f),
         IsVideoKey(f) => s.new_cuepoint
  PROVE  LET r == WriteBlock(s, f) IN
         /\ r.ok /\ Wrote(s, <<f>>, r.seg)
         /\ r.seg.frames = s.frames /\ r.seg.freed = s.freed
<1> DEFINE n == Len(s.clusters)
           c == s.clusters[n]
           a == AddFrame(c, f)
           d == a.cluster
           r == WriteBlock(s, f)
           t == r.seg
<1>1. s.clusters \in Seq(Cluster) /\ n \in Nat \ {0} /\ c \in Cluster
      /\ c.blocks \in Seq(Frame)
  BY LastOf
<1>2. BlockWritten(s, f, r)
  BY WriteBlockResult
<1>3. AddFrameResult(c, f, a)
  BY <1>1, AddFrameType
<1>4. a.ok
  <2>1. /\ f.valid /\ ~c.finalized
        /\ Timecode(f.timestamp) - c.timecode \in 0 .. MaxBlockTimecode
    BY DEF Room
  <2> HIDE DEF c
  <2> QED
    BY <2>1 DEF AddFrame
<1> HIDE DEF a, r
<1>5. /\ t.clusters = [s.clusters EXCEPT ![n] = d] /\ r.ok /\ Good(t)
      /\ SameButClusters(s, t)
  BY <1>2, <1>4 DEF BlockWritten, a
<1>6. /\ d \in Cluster /\ d.blocks = Append(c.blocks, f)
      /\ d.header_written /\ d.timecode = c.timecode
      /\ d.finalized <=> c.finalized
  BY <1>3, <1>4 DEF AddFrameResult
<1> HIDE DEF d, c
<1>7. LastReplaced(s.clusters, t.clusters, d)
  BY <1>1, <1>5, <1>6 DEF LastReplaced
<1>8. Content(t) = Append(Content(s), f)
  BY <1>6, <1>7, ContentAdded DEF Content, c
<1>9. Content(t) = Content(s) \o <<f>> /\ d.blocks = c.blocks \o <<f>>
  BY <1>1, <1>6, <1>8, ContentType, AppendIsConcat
<1>10. /\ Len(t.clusters) = n /\ t.clusters[n] = d
       /\ \A i \in 1 .. n - 1 : t.clusters[i] = s.clusters[i]
  <2>1. /\ Len(t.clusters) = n /\ t.clusters[n] = d
        /\ \A i \in 1 .. n : i # n => t.clusters[i] = s.clusters[i]
    BY <1>7, ReplacedLast
  <2> QED
    BY <1>1, <2>1
<1>11. Taken(c, <<f>>, d)
  <2>1. <<f>> # <<>>
    OBVIOUS
  <2> QED
    BY <1>1, <1>6, <1>9, <2>1 DEF Taken
<1>12. Wrote(s, <<f>>, t)
  <2> HIDE DEF t
  <2> QED
    BY <1>5, <1>9, <1>10, <1>11 DEF Wrote, SameButClusters, c
<1> QED
  BY <1>5, <1>12 DEF SameButClusters, r

(* Wrote is about the clusters, the cues and the header.                   *)
LEMMA WroteSame ==
  ASSUME NEW s, NEW q, NEW t, Wrote(s, q, t), NEW u, Good(u),
         u.clusters = t.clusters, u.seeks = t.seeks,
         u.header_written <=> t.header_written,
         u.force_new_cluster <=> t.force_new_cluster,
         u.crashed <=> t.crashed
  PROVE  Wrote(s, q, u)
<1>1. Content(u) = Content(t)
  BY DEF Content
<1> QED
  BY <1>1 DEF Wrote

(* There is as much room after as before.                                  *)
LEMMA RoomKept ==
  ASSUME NEW s, NEW q, NEW t, Wrote(s, q, t), NEW f, Room(s, f)
  PROVE  Room(t, f)
<1>1. Len(t.clusters) = Len(s.clusters)
  BY DEF Wrote
<1> DEFINE c == s.clusters[Len(s.clusters)]
           d == t.clusters[Len(s.clusters)]
<1>2. d.timecode = c.timecode /\ (d.finalized <=> c.finalized)
  BY DEF Wrote, Taken
<1> QED
  BY <1>1, <1>2 DEF Room

(* A queued frame that has room.                                           *)
LEMMA QueuedFits ==
  ASSUME NEW s, Good(s), Len(s.clusters) # 0, NEW f \in Frame, Room(s, f),
         f.track = AudioTrackNumber
  PROVE  LET r == WriteQueued(s, f) IN
         /\ r.ok /\ Wrote(s, <<f>>, r.seg) /\ r.seg.frames = s.frames
<1> DEFINE b == WriteBlock(s, f)
           t == b.seg
           last == IF f.timestamp > t.last_timestamp
                   THEN f.timestamp ELSE t.last_timestamp
           u == [t EXCEPT !.freed = @ + 1, !.last_timestamp = last]
           r == WriteQueued(s, f)
<1>1. ~IsVideoKey(f)
  BY DEF IsVideoKey, AudioTrackNumber, VideoTrackNumber
<1>2. b.ok /\ Wrote(s, <<f>>, t) /\ t.frames = s.frames
  BY <1>1, BlockFits
<1>3. Kept(s, r)
  BY WriteQueuedKept
<1>4. r = Succeeded(u)
  BY <1>2 DEF WriteQueued, Then
<1>5. t \in SegmentType
  BY <1>2, GoodTypes DEF Wrote
<1> HIDE DEF b, last
<1>6. /\ u.clusters = t.clusters /\ u.seeks = t.seeks /\ u.frames = t.frames
      /\ u.header_written <=> t.header_written
      /\ u.force_new_cluster <=> t.force_new_cluster
      /\ u.crashed <=> t.crashed
  <2> HIDE DEF t
  <2> QED
    BY <1>5 DEF SegmentType
<1> HIDE DEF t, u
<1>7. r.ok /\ r.seg = u
  BY <1>4 DEF Succeeded
<1>8. Good(u)
  BY <1>3, <1>7 DEF Kept
<1>9. Wrote(s, <<f>>, u)
  BY <1>2, <1>6, <1>8, WroteSame
<1> QED
  BY <1>2, <1>6, <1>7, <1>9

(* The frames of a queue all have room.                                    *)
Rooms(s, q) ==
  /\ q \in Seq(Frame)
  /\ \A i \in 1 .. Len(q) : q[i].track = AudioTrackNumber /\ Room(s, q[i])

(* A queue that has room, frame by frame.                                  *)
LEMMA QueueFits ==
  ASSUME NEW s, Good(s), Len(s.clusters) # 0, NEW q, Rooms(s, q)
  PROVE  LET r == WriteQueue(s, q) IN
         /\ r.ok /\ Wrote(s, q, r.seg) /\ r.seg.frames = s.frames
<1> DEFINE k == Len(q)
           f == CHOOSE h : Writing(s, q, k, h)
           Part(n) == SubSeq(q, 1, n)
           Done(n) == /\ f[n].ok /\ Wrote(s, Part(n), f[n].seg)
                      /\ f[n].seg.frames = s.frames
           T == {n \in 0 .. k : Done(n)}
<1>1. q \in Seq(Frame) /\ k \in Nat
  BY LenProperties DEF Rooms
<1>2. Writing(s, q, k, f)
  BY <1>1, WritingExists
<1>3. WriteQueue(s, q) = f[k]
  BY DEF WriteQueue, Writing, Then
<1> HIDE DEF f
<1>4. 0 \in T
  <2>1. 0 \in 0 .. k
    BY <1>1
  <2>2. f[0] = Succeeded(s)
    BY <1>1, <1>2, <2>1, WritingEntries DEF WritesNext
  <2>3. Part(0) = <<>>
    BY SubSeqEmpty
  <2>4. f[0].ok /\ f[0].seg = s
    BY <2>2 DEF Succeeded
  <2> HIDE DEF Part
  <2>5. Done(0)
    BY <2>3, <2>4, WroteNothing
  <2> QED
    BY <2>1, <2>5
<1>5. ASSUME NEW n \in 0 .. k - 1, n \in T PROVE n + 1 \in T
  <2> DEFINE r == f[n]
             m == q[n + 1]
             x == WriteQueued(r.seg, m)
  <2>1. /\ n + 1 \in 0 .. k /\ n + 1 \in 1 .. k
        /\ (n + 1) - 1 = n /\ n + 1 # 0 /\ 1 \in 1 .. k
    BY <1>1
  <2>2. m \in Frame /\ m.track = AudioTrackNumber /\ Room(s, m)
    BY <1>1, <2>1, ElementOfSeq DEF Rooms
  <2>3. f[n + 1] = IF r.ok THEN x ELSE r
    <3>1. WritesNext(s, q, f, n + 1)
      <4> HIDE DEF k
      <4> QED
        BY <1>1, <1>2, <2>1, WritingEntries
    <3> QED
      BY <2>1, <3>1 DEF WritesNext
  <2>4. r.ok /\ Wrote(s, Part(n), r.seg) /\ r.seg.frames = s.frames
    BY <1>5
  <2>5. Part(n) \in Seq(Frame)
    <3>1. \A i \in 1 .. n : q[i] \in Frame
      BY <1>1, ElementOfSeq
    <3> QED
      BY <3>1, SubSeqProperties
  <2>6. Part(n + 1) = Part(n) \o <<m>>
    <3> HIDE DEF k
    <3>1. n + 1 \in 1 .. Len(q)
      BY <2>1 DEF k
    <3>2. SubSeq(q, 1, n + 1) = SubSeq(q, 1, (n + 1) - 1) \o <<q[n + 1]>>
      BY <1>1, <2>1, <3>1, SubSeqRecursiveSecond DEF k
    <3> QED
      BY <2>1, <3>2
  <2> HIDE DEF r, m, Part
  <2>7. Good(r.seg) /\ Len(r.seg.clusters) # 0 /\ Room(r.seg, m)
    <3>1. Good(r.seg) /\ Len(r.seg.clusters) = Len(s.clusters)
      BY <2>4 DEF Wrote
    <3> QED
      BY <2>2, <2>4, <3>1, RoomKept
  <2>8. x.ok /\ Wrote(r.seg, <<m>>, x.seg) /\ x.seg.frames = r.seg.frames
    BY <2>2, <2>7, QueuedFits
  <2> HIDE DEF x
  <2>9. Wrote(s, Part(n) \o <<m>>, x.seg)
    <3>1. <<m>> \in Seq(Frame)
      BY <2>2
    <3> QED
      BY <2>4, <2>5, <2>8, <3>1, WroteTwice
  <2>10. f[n + 1] = x
    BY <2>3, <2>4
  <2>11. Done(n + 1)
    BY <2>4, <2>6, <2>8, <2>9, <2>10
  <2> QED
    BY <2>1, <2>11
<1>6. \A n \in 0 .. k : n \in T
  <2> HIDE DEF k, T
  <2> QED
    BY <1>1, <1>4, <1>5, UpTo
<1>7. Done(k)
  <2>1. k \in 0 .. k
    BY <1>1
  <2> QED
    BY <1>6, <2>1
<1>8. Part(k) = q
  BY <1>1, SubSeqFull
<1> QED
  BY <1>3, <1>7, <1>8

(* The whole queue, when it has room.                                      *)
LEMMA AllFit ==
  ASSUME NEW s, Good(s), Len(s.clusters) # 0, s.freed = 0,
         Rooms(s, s.frames)
  PROVE  LET r == WriteFramesAll(s) IN
         /\ r.ok /\ Wrote(s, s.frames, r.seg)
         /\ r.seg.frames = <<>> /\ r.seg.freed = 0
<1> DEFINE w == WriteQueue(s, s.frames)
           t == w.seg
           u == [t EXCEPT !.frames = <<>>, !.freed = 0]
           r == WriteFramesAll(s)
<1>1. s.clusters # <<>> /\ ~(s.freed > 0)
  BY GoodTypes
<1>2. CASE s.frames = <<>>
  <2>1. r = Succeeded(s)
    BY <1>2 DEF WriteFramesAll
  <2> HIDE DEF r
  <2> QED
    BY <1>2, <2>1, WroteNothing DEF Succeeded, r
<1>3. CASE s.frames # <<>>
  <2>1. w.ok /\ Wrote(s, s.frames, t)
    BY QueueFits
  <2>2. r = Succeeded(u)
    BY <1>1, <1>3, <2>1 DEF WriteFramesAll, Then
  <2>3. Kept(s, r)
    BY WriteFramesAllKept
  <2>4. t \in SegmentType
    BY <2>1, GoodTypes DEF Wrote
  <2> HIDE DEF w
  <2>5. /\ u.clusters = t.clusters /\ u.seeks = t.seeks
        /\ u.header_written <=> t.header_written
        /\ u.force_new_cluster <=> t.force_new_cluster
        /\ u.crashed <=> t.crashed
        /\ u.frames = <<>> /\ u.freed = 0
    <3> HIDE DEF t
    <3> QED
      BY <2>4 DEF SegmentType
  <2> HIDE DEF t, u
  <2>6. r.ok /\ r.seg = u
    BY <2>2 DEF Succeeded
  <2>7. Good(u)
    BY <2>3, <2>6 DEF Kept
  <2>8. Wrote(s, s.frames, u)
    BY <2>1, <2>5, <2>7, WroteSame
  <2> QED
    BY <2>5, <2>6, <2>8
<1> QED
  BY <1>2, <1>3

(* The first k frames are the ones WriteFramesLessThan takes: if there are *)
(* any, the next one is not later than timestamp either.                   *)
Cut(fs, timestamp, k) ==
  /\ k \in 0 .. Len(fs)
  /\ k # 0 => k < Len(fs) /\ fs[k + 1].timestamp <= timestamp

(* The front of the queue, when it has room.                               *)
LEMMA FrontFits ==
  ASSUME NEW s, Good(s), Len(s.clusters) # 0, s.freed = 0,
         Rooms(s, s.frames), NEW timestamp \in Int
  PROVE  LET r == WriteFramesLessThan(s, timestamp) IN
         /\ r.ok /\ r.seg.freed = 0
         /\ \E k \in 0 .. Len(s.frames) :
              /\ Cut(s.frames, timestamp, k)
              /\ Wrote(s, SubSeq(s.frames, 1, k), r.seg)
              /\ r.seg.frames = SubSeq(s.frames, k + 1, Len(s.frames))
<1> DEFINE fs == s.frames
           n == Len(fs)
           r == WriteFramesLessThan(s, timestamp)
<1>1. /\ s.clusters # <<>> /\ ~(s.freed > 0)
      /\ fs \in Seq(Frame) /\ n \in Nat
      /\ fs = <<>> <=> n = 0
  BY GoodTypes
<1>2. CASE fs = <<>>
  <2>1. r = Succeeded(s)
    BY <1>2 DEF WriteFramesLessThan
  <2>2. SubSeq(fs, 1, 0) = <<>> /\ SubSeq(fs, 0 + 1, n) = <<>>
    BY <1>1, <1>2, SubSeqEmpty
  <2>3. Cut(fs, timestamp, 0) /\ 0 \in 0 .. n
    BY <1>1 DEF Cut
  <2>4. Wrote(s, <<>>, s)
    BY WroteNothing
  <2> HIDE DEF r, n, fs
  <2>5. r.ok /\ r.seg = s
    BY <2>1 DEF Succeeded
  <2>6. /\ Cut(fs, timestamp, 0)
        /\ Wrote(s, SubSeq(fs, 1, 0), r.seg)
        /\ r.seg.frames = SubSeq(fs, 0 + 1, n)
    BY <1>2, <2>2, <2>3, <2>4, <2>5 DEF fs
  <2> QED
    BY <2>3, <2>5, <2>6 DEF r, fs, n
<1>3. CASE fs # <<>>
  <2> DEFINE later == {i \in 2 .. n : fs[i].timestamp > timestamp}
             k == (IF later = {} THEN n ELSE Min(later) - 1) - 1
             p == SubSeq(fs, 1, k)
             w == WriteQueue(s, p)
             t == w.seg
             left == SubSeq(t.frames, k + 1, Len(t.frames))
             u == [t EXCEPT !.frames = left, !.freed = 0]
  <2>1. r = IF w.ok THEN Succeeded(u) ELSE w
    BY <1>1, <1>3 DEF WriteFramesLessThan, Then
  <2>2. \A i \in 1 .. n : fs[i].timestamp \in Int /\ fs[i] \in Frame
    <3>1. \A i \in 1 .. n : fs[i] \in Frame
      BY <1>1, ElementOfSeq
    <3> QED
      BY <3>1 DEF Frame
  <2>3. k \in 0 .. n - 1 /\ (k # 0 => k + 1 \in 2 .. n /\ k + 1 \notin later)
    <3>1. CASE later = {}
      <4>1. k = n - 1 /\ n # 0
        BY <1>1, <1>3, <3>1
      <4>2. n \in Nat
        BY <1>1
      <4>3. k + 1 \notin later
        BY <3>1
      <4> HIDE DEF k, later, n
      <4> QED
        BY <4>1, <4>2, <4>3
    <3>2. CASE later # {}
      <4>1. later \subseteq Nat
        OBVIOUS
      <4>2. Min(later) \in later /\ \A x \in later : Min(later) <= x
        <5> HIDE DEF later
        <5> QED
          BY <3>2, <4>1, MinIn
      <4>3. Min(later) \in 2 .. n
        BY <4>2
      <4> DEFINE m == Min(later)
      <4>4. m \in 2 .. n /\ m - 1 \notin later
        <5> HIDE DEF later
        <5> QED
          BY <4>2, <4>3
      <4>5. k = m - 2
        BY <3>2, <4>3
      <4> HIDE DEF m, later, k
      <4> QED
        BY <1>1, <4>4, <4>5
    <3> QED
      BY <3>1, <3>2
  <2>4. Cut(fs, timestamp, k)
    <3>1. ASSUME k # 0 PROVE fs[k + 1].timestamp <= timestamp
      <4>1. k + 1 \in 2 .. n /\ k + 1 \notin later
        BY <2>3, <3>1
      <4> HIDE DEF k
      <4> QED
        BY <2>2, <4>1
    <3> HIDE DEF k, later
    <3> QED
      BY <1>1, <2>3, <3>1 DEF Cut
  <2> HIDE DEF k
  <2>5. Rooms(s, p)
    <3>1. /\ p \in Seq(Frame) /\ Len(p) = k
          /\ \A i \in 1 .. k : p[i] = fs[i]
      <4>1. \A i \in 1 .. k : fs[i] \in Frame
        BY <1>1, <2>2, <2>3
      <4>2. /\ p \in Seq(Frame) /\ Len(p) = IF 1 <= k THEN k - 1 + 1 ELSE 0
            /\ \A i \in 1 .. k - 1 + 1 : p[i] = fs[1 + i - 1]
        BY <2>3, <4>1, SubSeqProperties
      <4>3. Len(p) = k
        BY <2>3, <4>2
      <4>4. \A i \in 1 .. k : i \in 1 .. k - 1 + 1 /\ 1 + i - 1 = i
        BY <2>3
      <4> HIDE DEF p
      <4> QED
        BY <4>2, <4>3, <4>4
    <3>2. \A i \in 1 .. k : i \in 1 .. n
      BY <1>1, <2>3
    <3> HIDE DEF p
    <3> QED
      BY <3>1, <3>2 DEF Rooms
  <2>6. w.ok /\ Wrote(s, p, t) /\ t.frames = fs
    BY <2>5, QueueFits
  <2>7. Kept(s, r)
    BY WriteFramesLessThanKept
  <2>8. t \in SegmentType
    BY <2>6, GoodTypes DEF Wrote
  <2> HIDE DEF w, p
  <2>9. /\ u.clusters = t.clusters /\ u.seeks = t.seeks
        /\ u.header_written <=> t.header_written
        /\ u.force_new_cluster <=> t.force_new_cluster
        /\ u.crashed <=> t.crashed
        /\ u.frames = left /\ u.freed = 0
    <3> HIDE DEF t, left
    <3> QED
      BY <2>8 DEF SegmentType
  <2>10. left = SubSeq(fs, k + 1, n)
    BY <2>6
  <2> HIDE DEF t, u, left
  <2>11. r.ok /\ r.seg = u
    BY <2>1, <2>6 DEF Succeeded
  <2>12. Good(u)
    BY <2>7, <2>11 DEF Kept
  <2>13. Wrote(s, p, u)
    BY <2>6, <2>9, <2>12, WroteSame
  <2>14. k \in 0 .. n
    BY <1>1, <2>3
  <2> HIDE DEF r, n, fs
  <2> QED
    BY <2>4, <2>9, <2>10, <2>11, <2>13, <2>14 DEF r, n, fs, p
<1> QED
  BY <1>2, <1>3

-----------------------------------------------------------------------------
(* Tracks without gaps. *)

(* How far behind the last frame its cluster's timecode may be.            *)
Bound(m) == IF Span >= Leap(m) THEN Span ELSE Leap(m)

(* The numbers of the two, and how they compare.                           *)
LEMMA LeapType ==
  ASSUME NEW m, Roomy(m)
  PROVE  /\ m \in Nat /\ Leap(m) \in Nat /\ Bound(m) \in Nat
         /\ Span <= Bound(m) /\ Leap(m) <= Bound(m)
         /\ Bound(m) + Leap(m) <= MaxBlockTimecode
<1>1. TimecodeScale \in Nat \ {0} /\ m \in Nat
  BY SegmentAssumption DEF Roomy
<1>2. m \div TimecodeScale \in Nat
  <2> DEFINE k == TimecodeScale
             q == m \div k
  <2> HIDE DEF k
  <2>1. k \in Nat \ {0}
    BY <1>1 DEF k
  <2>2. q \in Int /\ m < q * k + k
    BY <1>1, <2>1
  <2> HIDE DEF q
  <2>3. q >= 0
    BY <1>1, <2>1, <2>2
  <2> QED
    BY <2>2, <2>3 DEF q, k
<1>3. Leap(m) \in Nat
  BY <1>2 DEF Leap
<1>4. Span \in Nat
  BY SpanType
<1>5. MaxBlockTimecode \in Nat
  BY SegmentAssumption
<1> QED
  BY <1>1, <1>3, <1>4, <1>5 DEF Bound, Roomy

(* Times that are m units apart are no more than a leap apart.             *)
LEMMA LeapIs ==
  ASSUME NEW m \in Nat, NEW a \in Int, NEW b \in Int, a <= b, b <= a + m
  PROVE  Timecode(b) - Timecode(a) \in 0 .. Leap(m)
<1> DEFINE k == TimecodeScale
           p == a \div k
           q == b \div k
           d == m \div k
<1>1. k \in Nat \ {0}
  BY SegmentAssumption
<1>2. Timecode(a) = p /\ Timecode(b) = q /\ Leap(m) = d + 1
  BY DEF Timecode, Leap
<1>3. p <= q
  BY <1>2, TimecodeMonotone
<1> HIDE DEF k
<1>4. p \in Int /\ p * k <= a /\ a < p * k + k
  BY <1>1
<1>5. q \in Int /\ q * k <= b
  BY <1>1
<1>6. d \in Int /\ m < d * k + k
  BY <1>1
<1> HIDE DEF p, q, d
<1>7. q * k < p * k + k + d * k + k
  <2> DEFINE x == p * k
             y == q * k
             z == d * k
  <2>1. x \in Int /\ y \in Int /\ z \in Int
    BY <1>1, <1>4, <1>5, <1>6
  <2>2. a < x + k /\ y <= b /\ m < z + k
    BY <1>4, <1>5, <1>6
  <2> HIDE DEF x, y, z
  <2>3. y < x + k + z + k
    BY <1>1, <2>1, <2>2
  <2> QED
    BY <2>3 DEF x, y, z
<1>8. (q - p - d) * k < 2 * k
  BY <1>1, <1>4, <1>5, <1>6, <1>7
<1>9. q - p - d < 2
  <2> DEFINE x == q - p - d
  <2>1. x \in Int /\ x * k < 2 * k
    BY <1>4, <1>5, <1>6, <1>8
  <2> HIDE DEF x
  <2>2. x < 2
    BY <1>1, <2>1
  <2> QED
    BY <2>2 DEF x
<1> QED
  BY <1>2, <1>3, <1>4, <1>5, <1>6, <1>9

(* A frame that is valid and at most m units after the last one written.   *)
Within(s, f, m) ==
  /\ f.valid
  /\ s.last_timestamp <= f.timestamp
  /\ f.timestamp <= s.last_timestamp + m

(* The queue: such frames, in the order of their times and numbers.        *)
Lined(s, m) ==
  /\ \A i \in 1 .. Len(s.frames) : Within(s, s.frames[i], m)
  /\ \A i, j \in 1 .. Len(s.frames) :
       i < j => /\ s.frames[i].timestamp <= s.frames[j].timestamp
                /\ s.frames[i].id < s.frames[j].id

(* The frames of fs, and of the clusters cs, have numbers up to n.         *)
Numbered(fs, n) == \A i \in 1 .. Len(fs) : fs[i].id <= n

AllNumbered(cs, n) == \A i \in 1 .. Len(cs) : Numbered(cs[i].blocks, n)

(* The last cluster has a block, is open, and starts at most d timecodes   *)
(* before timestamp.                                                       *)
LastOpen(s, timestamp, d) ==
  LET c == s.clusters[Len(s.clusters)]
  IN /\ c.header_written /\ ~c.finalized
     /\ Timecode(timestamp) - c.timecode \in 0 .. d

(* A segment whose frames so far were all within m units.                  *)
Steady(s, m, n) ==
  /\ Good(s) /\ s.freed = 0 /\ ~s.crashed
  /\ Closed(s.clusters)
  /\ Lined(s, m)
  /\ n \in Nat /\ Numbered(s.frames, n) /\ AllNumbered(s.clusters, n)
  /\ Len(s.clusters) # 0 => LastOpen(s, s.last_timestamp, Bound(m))

(* A frame within m units has room in the last cluster.                    *)
LEMMA WithinRoom ==
  ASSUME NEW m, Roomy(m), NEW n, NEW s, Steady(s, m, n), Len(s.clusters) # 0,
         NEW f \in Frame, Within(s, f, m)
  PROVE  Room(s, f) /\ Timecode(s.last_timestamp) <= Timecode(f.timestamp)
<1> DEFINE c == s.clusters[Len(s.clusters)]
           l == s.last_timestamp
           x == Timecode(l)
           y == Timecode(f.timestamp)
<1>1. Good(s) /\ LastOpen(s, l, Bound(m))
  BY DEF Steady
<1>2. c.timecode \in Int /\ l \in Int /\ f.timestamp \in Int
  BY <1>1, LastOf, GoodTypes DEF SegmentType, Frame
<1>3. /\ Leap(m) \in Nat /\ Bound(m) \in Nat
      /\ Bound(m) + Leap(m) <= MaxBlockTimecode
      /\ m \in Nat /\ MaxBlockTimecode \in Nat
  BY LeapType, SegmentAssumption
<1>4. y - x \in 0 .. Leap(m) /\ x \in Int /\ y \in Int
  BY <1>2, <1>3, LeapIs, TimecodeType DEF Within
<1>5. x - c.timecode \in 0 .. Bound(m)
  BY <1>1 DEF LastOpen
<1>6. ~c.finalized /\ f.valid
  BY <1>1 DEF LastOpen, Within
<1>7. y - c.timecode \in 0 .. MaxBlockTimecode /\ x <= y
  <2> DEFINE z == c.timecode
  <2> HIDE DEF x, y, c
  <2>1. z \in Int
    BY <1>2
  <2> HIDE DEF z
  <2>2. x - z \in 0 .. Bound(m)
    BY <1>5 DEF z
  <2>3. y - z \in 0 .. MaxBlockTimecode /\ x <= y
    BY <1>3, <1>4, <2>1, <2>2
  <2> QED
    BY <2>3 DEF z
<1> QED
  BY <1>6, <1>7 DEF Room

(* So has the whole queue.                                                 *)
LEMMA SteadyRooms ==
  ASSUME NEW m, Roomy(m), NEW n, NEW s, Steady(s, m, n), Len(s.clusters) # 0
  PROVE  Rooms(s, s.frames)
<1>1. /\ s.frames \in Seq(Frame) /\ AudioOnly(s.frames)
      /\ DOMAIN s.frames = 1 .. Len(s.frames)
  BY GoodTypes DEF Steady
<1>2. ASSUME NEW i \in 1 .. Len(s.frames)
      PROVE  s.frames[i].track = AudioTrackNumber /\ Room(s, s.frames[i])
  <2>1. s.frames[i] \in Frame /\ s.frames[i].track = AudioTrackNumber
    BY <1>1, ElementOfSeq DEF AudioOnly
  <2>2. Within(s, s.frames[i], m)
    BY DEF Steady, Lined
  <2> QED
    BY <2>1, <2>2, WithinRoom
<1> QED
  BY <1>1, <1>2 DEF Rooms

(* The last cluster, with a block and open, can be closed.                 *)
LEMMA FinalizeOpen ==
  ASSUME NEW s, Good(s), Len(s.clusters) # 0,
         s.clusters[Len(s.clusters)].header_written,
         ~s.clusters[Len(s.clusters)].finalized
  PROVE  LET r == FinalizeCluster(s)
             d == r.seg.clusters[Len(s.clusters)]
         IN /\ r.ok /\ Good(r.seg) /\ SameButClusters(s, r.seg)
            /\ LastReplaced(s.clusters, r.seg.clusters, d)
            /\ d.finalized /\ d.blocks = s.clusters[Len(s.clusters)].blocks
            /\ d.header_written
<1> DEFINE n == Len(s.clusters)
           c == s.clusters[n]
           e == [c EXCEPT !.finalized = TRUE]
           ds == [s.clusters EXCEPT ![n] = e]
           t == [s EXCEPT !.clusters = ds]
           r == FinalizeCluster(s)
<1>1. s.clusters \in Seq(Cluster) /\ n \in Nat \ {0} /\ c \in Cluster
  BY LastOf
<1>2. r = Succeeded(t)
  <2>1. r = Succeeded([s EXCEPT !.clusters[n].finalized = TRUE])
    <3>1. n \in Nat \ {0} /\ c.header_written /\ ~c.finalized
      BY <1>1
    <3> HIDE DEF n
    <3> QED
      BY <3>1 DEF FinalizeCluster, n
  <2>2. [s EXCEPT !.clusters[n].finalized = TRUE] = t
    OBVIOUS
  <2> QED
    BY <2>1, <2>2
<1>3. e \in Cluster /\ e.blocks = c.blocks /\ e.finalized /\ e.header_written
  <2>1. c.header_written
    OBVIOUS
  <2> HIDE DEF c
  <2> QED
    BY <1>1, <2>1 DEF Cluster
<1>4. LastReplaced(s.clusters, ds, e)
  BY <1>1, <1>3 DEF LastReplaced
<1>5. ds \in Seq(Cluster) /\ ds[n] = e
  <2> HIDE DEF ds, e
  <2> QED
    BY <1>4, ReplacedLast
<1>6. s \in SegmentType
  BY GoodTypes
<1>7. SameButClusters(s, t) /\ t.clusters = ds
  <2> HIDE DEF ds
  <2> QED
    BY <1>5, <1>6, WithClusters
<1>8. Good(r.seg)
  BY FinalizeClusterKept DEF Kept
<1> HIDE DEF r, t, ds, e
<1>9. r.ok /\ r.seg = t
  BY <1>2 DEF Succeeded
<1>10. r.seg.clusters = ds /\ r.seg.clusters[n] = e
  BY <1>5, <1>7, <1>9
<1> QED
  BY <1>3, <1>4, <1>7, <1>8, <1>9, <1>10 DEF r

(* What was there of s before the last cluster of t, from k frames of the  *)
(* queue on: the k are in the file, and every cluster of t is closed.      *)
Settled(s, timestamp, k, n, t) ==
  /\ Good(t) /\ t.freed = 0
  /\ t.seeks = s.seeks
  /\ t.header_written <=> s.header_written
  /\ t.crashed <=> s.crashed
  /\ k \in 0 .. Len(s.frames)
  /\ Cut(s.frames, timestamp, k)
  /\ t.frames = SubSeq(s.frames, k + 1, Len(s.frames))
  /\ Content(t) = Content(s) \o SubSeq(s.frames, 1, k)
  /\ AllFinalized(t.clusters)
  /\ AllNumbered(t.clusters, n)

(* Frames added to frames.                                                 *)
LEMMA NumberedBoth ==
  ASSUME NEW a \in Seq(Frame), NEW b \in Seq(Frame), NEW n,
         Numbered(a, n), Numbered(b, n)
  PROVE  Numbered(a \o b, n)
<1>1. /\ Len(a) \in Nat /\ Len(b) \in Nat
      /\ Len(a \o b) = Len(a) + Len(b)
      /\ \A i \in 1 .. Len(a) + Len(b) :
           (a \o b)[i] = IF i <= Len(a) THEN a[i] ELSE b[i - Len(a)]
  BY LenProperties, ConcatProperties
<1> DEFINE ab == a \o b
<1> HIDE DEF ab
<1>2. ASSUME NEW i \in 1 .. Len(ab) PROVE ab[i].id <= n
  <2>1. CASE i <= Len(a)
    <3>1. ab[i] = a[i] /\ i \in 1 .. Len(a)
      BY <1>1, <2>1 DEF ab
    <3> QED
      BY <3>1 DEF Numbered
  <2>2. CASE ~(i <= Len(a))
    <3>1. ab[i] = b[i - Len(a)] /\ i - Len(a) \in 1 .. Len(b)
      BY <1>1, <2>2 DEF ab
    <3> QED
      BY <3>1 DEF Numbered
  <2> QED
    BY <2>1, <2>2
<1> QED
  BY <1>2 DEF Numbered, ab

(* Part of a sequence.                                                     *)
LEMMA PartOf ==
  ASSUME NEW fs \in Seq(Frame), NEW k \in 0 .. Len(fs)
  PROVE  /\ SubSeq(fs, 1, k) \in Seq(Frame) /\ Len(SubSeq(fs, 1, k)) = k
         /\ \A i \in 1 .. k : SubSeq(fs, 1, k)[i] = fs[i]
         /\ SubSeq(fs, k + 1, Len(fs)) \in Seq(Frame)
         /\ Len(SubSeq(fs, k + 1, Len(fs))) = Len(fs) - k
         /\ \A i \in 1 .. Len(fs) - k :
              SubSeq(fs, k + 1, Len(fs))[i] = fs[k + i]
         /\ SubSeq(fs, 1, k) \o SubSeq(fs, k + 1, Len(fs)) = fs
<1> DEFINE n == Len(fs)
           p == SubSeq(fs, 1, k)
           q == SubSeq(fs, k + 1, n)
<1>1. n \in Nat /\ k \in Nat /\ k <= n
  BY LenProperties
<1>2. \A i \in 1 .. n : fs[i] \in Frame
  BY ElementOfSeq
<1> HIDE DEF n
<1>3. p \in Seq(Frame) /\ Len(p) = k /\ \A i \in 1 .. k : p[i] = fs[i]
  <2>1. \A i \in 1 .. k : fs[i] \in Frame
    BY <1>1, <1>2
  <2>2. /\ p \in Seq(Frame) /\ Len(p) = IF 1 <= k THEN k - 1 + 1 ELSE 0
        /\ \A i \in 1 .. k - 1 + 1 : p[i] = fs[1 + i - 1]
    BY <1>1, <2>1, SubSeqProperties
  <2>3. Len(p) = k
    BY <1>1, <2>2
  <2>4. \A i \in 1 .. k : i \in 1 .. k - 1 + 1 /\ 1 + i - 1 = i
    BY <1>1
  <2> HIDE DEF p
  <2> QED
    BY <2>2, <2>3, <2>4
<1>4. /\ q \in Seq(Frame) /\ Len(q) = n - k
      /\ \A i \in 1 .. n - k : q[i] = fs[k + i]
  <2>1. \A i \in k + 1 .. n : fs[i] \in Frame
    BY <1>1, <1>2
  <2>2. /\ q \in Seq(Frame)
        /\ Len(q) = IF k + 1 <= n THEN n - (k + 1) + 1 ELSE 0
        /\ \A i \in 1 .. n - (k + 1) + 1 : q[i] = fs[k + 1 + i - 1]
    BY <1>1, <2>1, SubSeqProperties
  <2>3. Len(q) = n - k
    BY <1>1, <2>2
  <2>4. \A i \in 1 .. n - k : i \in 1 .. n - (k + 1) + 1 /\ k + 1 + i - 1 = k + i
    BY <1>1
  <2> HIDE DEF q
  <2> QED
    BY <2>2, <2>3, <2>4
<1>5. p \o q = fs
  <2> DEFINE pq == p \o q
  <2> HIDE DEF p, q
  <2>1. /\ pq \in Seq(Frame) /\ Len(pq) = k + (n - k)
        /\ \A i \in 1 .. k + (n - k) :
             pq[i] = IF i <= k THEN p[i] ELSE q[i - k]
    <3>1. /\ p \o q \in Seq(Frame) /\ Len(p \o q) = Len(p) + Len(q)
          /\ \A i \in 1 .. Len(p) + Len(q) :
               (p \o q)[i] = IF i <= Len(p) THEN p[i] ELSE q[i - Len(p)]
      BY <1>3, <1>4, ConcatProperties
    <3>2. Len(p) = k /\ Len(q) = n - k
      BY <1>3, <1>4
    <3> QED
      BY <3>1, <3>2 DEF pq
  <2>2. Len(pq) = n
    BY <1>1, <2>1
  <2> HIDE DEF pq
  <2>3. ASSUME NEW i \in 1 .. n PROVE pq[i] = fs[i]
    <3>1. CASE i <= k
      BY <1>1, <1>3, <2>1, <3>1
    <3>2. CASE ~(i <= k)
      <4>1. i - k \in 1 .. n - k /\ k + (i - k) = i
        BY <1>1, <3>2
      <4>2. pq[i] = q[i - k]
        BY <1>1, <2>1, <3>2
      <4>3. q[i - k] = fs[k + (i - k)]
        BY <1>4, <4>1
      <4> QED
        BY <4>1, <4>2, <4>3
    <3> QED
      BY <3>1, <3>2
  <2>4. pq = fs
    BY <2>1, <2>2, <2>3, SeqEqual DEF n
  <2> QED
    BY <2>4 DEF pq
<1> QED
  BY <1>3, <1>4, <1>5 DEF n

(* Blocks written to the last cluster.                                     *)
LEMMA WroteNumbered ==
  ASSUME NEW s, Good(s), Len(s.clusters) # 0, NEW q \in Seq(Frame),
         NEW t, Wrote(s, q, t), NEW n, AllNumbered(s.clusters, n),
         Numbered(q, n)
  PROVE  AllNumbered(t.clusters, n)
<1> DEFINE k == Len(s.clusters)
           c == s.clusters[k]
           d == t.clusters[k]
<1>1. k \in Nat \ {0} /\ c.blocks \in Seq(Frame)
  BY LastOf
<1>2. Len(t.clusters) = k
  BY DEF Wrote
<1>3. d.blocks = c.blocks \o q
  BY DEF Wrote, Taken
<1>4. Numbered(c.blocks, n)
  BY <1>1 DEF AllNumbered
<1> HIDE DEF c, d
<1>5. Numbered(d.blocks, n)
  BY <1>1, <1>3, <1>4, NumberedBoth
<1>6. ASSUME NEW i \in 1 .. k PROVE Numbered(t.clusters[i].blocks, n)
  <2>1. CASE i = k
    BY <1>5, <2>1 DEF d
  <2>2. CASE i # k
    <3>1. i \in 1 .. k - 1
      BY <1>1, <2>2
    <3>2. t.clusters[i] = s.clusters[i]
      BY <3>1 DEF Wrote
    <3> QED
      BY <3>2 DEF AllNumbered
  <2> QED
    BY <2>1, <2>2
<1> QED
  BY <1>2, <1>6 DEF AllNumbered

(* Closing the last cluster, if there is one, behind the front of the      *)
(* queue: what MakeNewCluster does before it makes the new one.            *)
LEMMA Settles ==
  ASSUME NEW m, Roomy(m), NEW n, NEW s, Steady(s, m, n), NEW timestamp \in Int
  PROVE  LET w == WriteFramesLessThan(s, timestamp)
             q == FinalizeCluster(w.seg)
         IN /\ w.ok /\ q.ok
            /\ \E k \in 0 .. Len(s.frames) : Settled(s, timestamp, k, n, q.seg)
<1> DEFINE w == WriteFramesLessThan(s, timestamp)
           t == w.seg
           q == FinalizeCluster(t)
           fs == s.frames
<1>1. /\ Good(s) /\ s.freed = 0 /\ Closed(s.clusters)
      /\ Numbered(fs, n) /\ AllNumbered(s.clusters, n)
  BY DEF Steady
<1>2. /\ s.clusters \in Seq(Cluster) /\ Len(s.clusters) \in Nat
      /\ fs \in Seq(Frame) /\ Len(fs) \in Nat
      /\ s.clusters = <<>> <=> Len(s.clusters) = 0
  BY <1>1, GoodTypes
<1>3. CASE Len(s.clusters) = 0
  <2>1. w = Succeeded(s)
    BY <1>2, <1>3 DEF WriteFramesLessThan
  <2>2. w.ok /\ t = s
    BY <2>1 DEF Succeeded
  <2>3. q = Succeeded(s)
    BY <1>3, <2>2 DEF FinalizeCluster
  <2>4. q.ok /\ q.seg = s
    BY <2>3 DEF Succeeded
  <2>5. /\ 0 \in 0 .. Len(fs) /\ Cut(fs, timestamp, 0)
    BY <1>2 DEF Cut
  <2>6. /\ fs = SubSeq(fs, 0 + 1, Len(fs)) /\ SubSeq(fs, 1, 0) = <<>>
    <3>1. SubSeq(fs, 1, Len(fs)) = fs /\ SubSeq(fs, 1, 0) = <<>>
      BY <1>2, SubSeqFull, SubSeqEmpty
    <3> QED
      BY <3>1
  <2>7. Content(s) \o <<>> = Content(s)
    BY <1>2, ContentType, ConcatEmptySeq
  <2>8. AllFinalized(s.clusters)
    <3>1. DOMAIN s.clusters = {}
      BY <1>2, <1>3
    <3> QED
      BY <3>1 DEF AllFinalized
  <2> HIDE DEF fs, q, w, t
  <2>9. Settled(s, timestamp, 0, n, s)
    BY <1>1, <2>5, <2>6, <2>7, <2>8 DEF Settled, fs
  <2> QED
    BY <2>2, <2>4, <2>5, <2>9 DEF fs, q, w, t
<1>4. CASE Len(s.clusters) # 0
  <2>1. Rooms(s, fs) /\ LastOpen(s, s.last_timestamp, Bound(m))
    BY <1>4, SteadyRooms DEF Steady
  <2>2. /\ w.ok /\ t.freed = 0
        /\ \E k \in 0 .. Len(fs) :
             /\ Cut(fs, timestamp, k)
             /\ Wrote(s, SubSeq(fs, 1, k), t)
             /\ t.frames = SubSeq(fs, k + 1, Len(fs))
    BY <1>1, <1>4, <2>1, FrontFits
  <2>3. PICK k \in 0 .. Len(fs) :
             /\ Cut(fs, timestamp, k)
             /\ Wrote(s, SubSeq(fs, 1, k), t)
             /\ t.frames = SubSeq(fs, k + 1, Len(fs))
    BY <2>2
  <2> DEFINE p == SubSeq(fs, 1, k)
             j == Len(s.clusters)
             u == q.seg
             d == u.clusters[j]
  <2>4. p \in Seq(Frame) /\ Numbered(p, n)
    <3>1. p \in Seq(Frame) /\ Len(p) = k /\ \A i \in 1 .. k : p[i] = fs[i]
      BY <1>2, PartOf
    <3>2. \A i \in 1 .. k : i \in 1 .. Len(fs)
      BY <1>2
    <3> HIDE DEF p
    <3> QED
      BY <1>1, <3>1, <3>2 DEF Numbered
  <2> HIDE DEF w, t, p
  <2>5. /\ Good(t) /\ Len(t.clusters) = j /\ j \in Nat \ {0}
        /\ Wrote(s, p, t)
    BY <1>2, <1>4, <2>3 DEF Wrote, p
  <2>6. t.clusters[j].header_written /\ ~t.clusters[j].finalized
    <3>1. Taken(s.clusters[j], p, t.clusters[j])
      BY <2>5 DEF Wrote
    <3>2. s.clusters[j].header_written /\ ~s.clusters[j].finalized
      BY <2>1 DEF LastOpen
    <3> QED
      BY <3>1, <3>2 DEF Taken
  <2>7. /\ q.ok /\ Good(u) /\ SameButClusters(t, u)
        /\ LastReplaced(t.clusters, u.clusters, d)
        /\ d.finalized /\ d.blocks = t.clusters[j].blocks
    BY <2>5, <2>6, FinalizeOpen
  <2> HIDE DEF q, u, d
  <2>8. Content(u) = Content(s) \o p
    <3>1. FlattenSeq(Parts(u.clusters)) = FlattenSeq(Parts(t.clusters))
      BY <2>5, <2>7, ContentFlagged
    <3>2. Content(t) = Content(s) \o p
      BY <2>5 DEF Wrote
    <3> QED
      BY <3>1, <3>2 DEF Content
  <2>9. /\ DOMAIN u.clusters = 1 .. j /\ Len(u.clusters) = j
        /\ u.clusters[j] = d
        /\ \A i \in 1 .. j : i # j => u.clusters[i] = t.clusters[i]
    BY <2>5, <2>7, ReplacedLast
  <2>10. AllFinalized(u.clusters)
    <3>1. ASSUME NEW i \in 1 .. j PROVE u.clusters[i].finalized
      <4>1. CASE i = j
        BY <2>7, <2>9, <4>1
      <4>2. CASE i # j
        <5>1. u.clusters[i] = s.clusters[i]
          <6>1. i \in 1 .. j - 1
            BY <2>5, <4>2
          <6> QED
            BY <2>5, <2>9, <4>2, <6>1 DEF Wrote
        <5>2. i \in DOMAIN s.clusters
          BY <1>2, LenProperties
        <5> QED
          BY <1>1, <4>2, <5>1, <5>2 DEF Closed
      <4> QED
        BY <4>1, <4>2
    <3> QED
      BY <2>9, <3>1 DEF AllFinalized
  <2>11. AllNumbered(u.clusters, n)
    <3>1. AllNumbered(t.clusters, n)
      BY <1>1, <1>4, <2>4, <2>5, WroteNumbered
    <3>2. \A i \in 1 .. j : u.clusters[i].blocks = t.clusters[i].blocks
      BY <2>7, <2>9
    <3> QED
      BY <2>5, <2>9, <3>1, <3>2 DEF AllNumbered
  <2>12. /\ u.freed = 0 /\ u.seeks = s.seeks /\ u.frames = SubSeq(fs, k + 1, Len(fs))
         /\ u.header_written <=> s.header_written
         /\ u.crashed <=> s.crashed
    BY <2>2, <2>3, <2>5, <2>7 DEF SameButClusters, Wrote, t
  <2>13. Settled(s, timestamp, k, n, u)
    BY <2>3, <2>7, <2>8, <2>10, <2>11, <2>12 DEF Settled, p
  <2> QED
    BY <2>2, <2>7, <2>13 DEF w, t, q, u
<1> QED
  BY <1>2, <1>3, <1>4

(* A new cluster behind what was settled: it starts at the frame to come   *)
(* or at the first of the queue, and has no block yet.                     *)
Made(s, f, k, n, u) ==
  LET e == u.clusters[Len(u.clusters)]
  IN /\ Good(u) /\ u.freed = 0
     /\ u.seeks = s.seeks
     /\ u.header_written <=> s.header_written
     /\ u.crashed <=> s.crashed
     /\ Cut(s.frames, f.timestamp, k)
     /\ u.frames = SubSeq(s.frames, k + 1, Len(s.frames))
     /\ Content(u) = Content(s) \o SubSeq(s.frames, 1, k)
     /\ u.new_cuepoint
     /\ Len(u.clusters) # 0
     /\ Closed(u.clusters) /\ AllNumbered(u.clusters, n)
     /\ ~e.finalized /\ e.blocks = <<>>
     /\ \/ e.timecode = Timecode(f.timestamp)
        \/ u.frames # <<>> /\ e.timecode = Timecode(u.frames[1].timestamp)
     /\ e.timecode <= Timecode(f.timestamp)
     /\ u.frames # <<>> => e.timecode <= Timecode(u.frames[1].timestamp)

(* MakeNewCluster succeeds with it.                                        *)
LEMMA Makes ==
  ASSUME NEW m, Roomy(m), NEW n, NEW s, Steady(s, m, n), NEW f \in Frame
  PROVE  LET r == MakeNewCluster(s, f.timestamp)
         IN /\ r.ok
            /\ \E k \in 0 .. Len(s.frames) : Made(s, f, k, n, r.seg)
<1> DEFINE ts == f.timestamp
           w == WriteFramesLessThan(s, ts)
           q == FinalizeCluster(w.seg)
           t == q.seg
           u == OpenCluster(t, ts)
           e == NewCluster(t, ts)
           r == MakeNewCluster(s, ts)
<1>1. ts \in Int
  BY DEF Frame
<1>2. w.ok /\ q.ok /\ \E k \in 0 .. Len(s.frames) : Settled(s, ts, k, n, t)
  BY <1>1, Settles
<1>3. PICK k \in 0 .. Len(s.frames) : Settled(s, ts, k, n, t)
  BY <1>2
<1>4. r = Succeeded(u)
  <2>1. t.freed = 0
    BY <1>3 DEF Settled
  <2>2. ~(t.freed > 0)
    BY <2>1
  <2>3. r = IF w.ok THEN IF q.ok THEN IF t.freed > 0 THEN Crashed(t)
                                                   ELSE Succeeded(u)
                                 ELSE q
                    ELSE w
    BY DEF MakeNewCluster, Then
  <2> QED
    BY <1>2, <2>2, <2>3
<1> HIDE DEF w, q, t, r, ts
<1>5. Good(t)
  BY <1>3 DEF Settled
<1>6. Opened(t, u, e)
  BY <1>1, <1>5, OpenClusterOpens
<1> HIDE DEF u, e
<1>7. /\ Good(u) /\ e \in Cluster /\ e.blocks = <<>> /\ ~e.finalized
      /\ u.clusters = Append(t.clusters, e) /\ u.new_cuepoint
      /\ SameButClusters(t, u)
  BY <1>6 DEF Opened
<1>8. t.clusters \in Seq(Cluster) /\ Len(t.clusters) \in Nat
      /\ t.frames \in Seq(Frame)
  BY <1>5, GoodTypes
<1> DEFINE j == Len(t.clusters)
<1>9. /\ Len(u.clusters) = j + 1 /\ u.clusters[j + 1] = e
      /\ \A i \in 1 .. j : u.clusters[i] = t.clusters[i]
      /\ DOMAIN u.clusters = 1 .. j + 1
  <2>1. /\ Len(u.clusters) = j + 1 /\ u.clusters[j + 1] = e
        /\ \A i \in 1 .. j : u.clusters[i] = t.clusters[i]
        /\ u.clusters \in Seq(Cluster)
    BY <1>7, <1>8, AppendProperties
  <2>2. DOMAIN u.clusters = 1 .. Len(u.clusters)
    BY <2>1, LenProperties
  <2> QED
    BY <2>1, <2>2
<1>10. Content(u) = Content(s) \o SubSeq(s.frames, 1, k)
  <2>1. FlattenSeq(Parts(u.clusters)) = FlattenSeq(Parts(t.clusters))
    BY <1>7, <1>8, ContentOpened
  <2> QED
    BY <1>3, <2>1 DEF Content, Settled
<1>11. DOMAIN t.clusters = 1 .. j
  BY <1>8, LenProperties
<1> HIDE DEF j
<1>12. Closed(u.clusters) /\ AllNumbered(u.clusters, n)
  <2>1. j \in Nat
    BY <1>8 DEF j
  <2>2. AllFinalized(t.clusters) /\ AllNumbered(t.clusters, n)
    BY <1>3 DEF Settled
  <2>3. ASSUME NEW i \in 1 .. j + 1, i # j + 1 PROVE u.clusters[i].finalized
    <3>1. i \in 1 .. j
      BY <2>1, <2>3
    <3> QED
      BY <1>9, <1>11, <2>2, <3>1 DEF AllFinalized
  <2>4. ASSUME NEW i \in 1 .. j + 1 PROVE Numbered(u.clusters[i].blocks, n)
    <3>1. CASE i = j + 1
      BY <1>7, <1>9, <3>1 DEF Numbered
    <3>2. CASE i # j + 1
      <4>1. i \in 1 .. j
        BY <2>1, <3>2
      <4> QED
        BY <1>9, <2>2, <4>1 DEF AllNumbered, j
    <3> QED
      BY <3>1, <3>2
  <2> QED
    BY <1>9, <2>3, <2>4 DEF Closed, AllNumbered
<1>13. Len(u.clusters) # 0 /\ u.clusters[Len(u.clusters)] = e
  <2>1. j \in Nat
    BY <1>8 DEF j
  <2> QED
    BY <1>9, <2>1
<1>14. /\ u.freed = 0 /\ u.seeks = s.seeks /\ u.frames = t.frames
       /\ u.header_written <=> s.header_written
       /\ u.crashed <=> s.crashed
       /\ t.frames = SubSeq(s.frames, k + 1, Len(s.frames))
       /\ Cut(s.frames, ts, k)
  BY <1>3, <1>7 DEF SameButClusters, Settled
<1>15. /\ \/ e.timecode = Timecode(ts)
          \/ t.frames # <<>> /\ e.timecode = Timecode(t.frames[1].timestamp)
       /\ e.timecode <= Timecode(ts)
       /\ t.frames # <<>> => e.timecode <= Timecode(t.frames[1].timestamp)
  <2> DEFINE a == t.frames[1].timestamp
             x == Timecode(a)
             y == Timecode(ts)
  <2>1. /\ t.frames = <<>> => e.timecode = IF y < y THEN y ELSE y
        /\ t.frames # <<>> => e.timecode = IF x < y THEN x ELSE y
    <3> HIDE DEF x, y
    <3> QED
      BY DEF e, NewCluster, x, y
  <2>2. y \in Int
    BY <1>1, TimecodeType
  <2>3. t.frames # <<>> => x \in Int
    <3>1. ASSUME t.frames # <<>> PROVE a \in Int
      <4>1. 1 \in 1 .. Len(t.frames)
        BY <1>5, <3>1, GoodTypes
      <4>2. t.frames[1] \in Frame
        BY <1>8, <4>1, ElementOfSeq
      <4> QED
        BY <4>2 DEF Frame
    <3> QED
      BY <3>1, TimecodeType
  <2> HIDE DEF x, y
  <2>4. CASE t.frames = <<>>
    BY <2>1, <2>2, <2>4 DEF y
  <2>5. CASE t.frames # <<>>
    <3>1. e.timecode \in {x, y} /\ e.timecode <= y /\ e.timecode <= x
      BY <2>1, <2>2, <2>3, <2>5
    <3> QED
      BY <2>5, <3>1 DEF x, y
  <2> QED
    BY <2>4, <2>5
<1>16. Made(s, f, k, n, u)
  BY <1>7, <1>10, <1>12, <1>13, <1>14, <1>15 DEF Made, ts
<1>17. r.ok /\ r.seg = u
  BY <1>4 DEF Succeeded
<1> QED
  BY <1>16, <1>17 DEF r, ts

(* The new cluster has room for the frame and for what is left queued.     *)
LEMMA MadeRoom ==
  ASSUME NEW m, Roomy(m), NEW n, NEW s, Steady(s, m, n), NEW f \in Frame,
         Within(s, f, m), NEW k \in 0 .. Len(s.frames), NEW u,
         Made(s, f, k, n, u)
  PROVE  /\ Room(u, f) /\ Rooms(u, u.frames)
         /\ Timecode(f.timestamp) - u.clusters[Len(u.clusters)].timecode
              \in 0 .. Bound(m)
<1> DEFINE e == u.clusters[Len(u.clusters)]
           l == s.last_timestamp
           fs == s.frames
           Reached(g) == Timecode(g.timestamp) - e.timecode \in 0 .. Leap(m)
<1>1. /\ Good(s) /\ Good(u) /\ u.frames = SubSeq(fs, k + 1, Len(fs))
      /\ Len(u.clusters) # 0 /\ ~e.finalized
      /\ e.timecode <= Timecode(f.timestamp)
      /\ u.frames # <<>> => e.timecode <= Timecode(u.frames[1].timestamp)
      /\ \/ e.timecode = Timecode(f.timestamp)
         \/ u.frames # <<>> /\ e.timecode = Timecode(u.frames[1].timestamp)
  BY DEF Made, Steady
<1>2. /\ fs \in Seq(Frame) /\ Len(fs) \in Nat /\ l \in Int
      /\ f.timestamp \in Int /\ e.timecode \in Int
  BY <1>1, GoodTypes, LastOf DEF SegmentType, Frame
<1>3. /\ Leap(m) \in Nat /\ Bound(m) \in Nat /\ Leap(m) <= Bound(m)
      /\ Bound(m) + Leap(m) <= MaxBlockTimecode /\ m \in Nat
      /\ MaxBlockTimecode \in Nat
  BY LeapType, SegmentAssumption
<1> HIDE DEF e
<1>4. ASSUME NEW g \in Frame, Within(s, g, m)
      PROVE  /\ Timecode(l) \in Int /\ Timecode(g.timestamp) \in Int
             /\ Timecode(g.timestamp) - Timecode(l) \in 0 .. Leap(m)
  <2>1. g.timestamp \in Int /\ l <= g.timestamp /\ g.timestamp <= l + m
    BY <1>4 DEF Within, Frame
  <2> QED
    BY <1>2, <1>3, <2>1, LeapIs, TimecodeType
<1>5. ASSUME NEW i \in 1 .. Len(u.frames)
      PROVE  /\ u.frames[i] \in Frame /\ Within(s, u.frames[i], m)
             /\ u.frames[i].track = AudioTrackNumber
             /\ 1 \in 1 .. Len(u.frames)
             /\ u.frames[1] \in Frame /\ Within(s, u.frames[1], m)
             /\ u.frames[1].timestamp <= u.frames[i].timestamp
  <2>1. /\ Len(u.frames) = Len(fs) - k
        /\ \A j \in 1 .. Len(fs) - k : u.frames[j] = fs[k + j]
    BY <1>1, <1>2, PartOf
  <2>2. /\ k + i \in 1 .. Len(fs) /\ k + 1 \in 1 .. Len(fs)
        /\ i \in 1 .. Len(fs) - k /\ 1 \in 1 .. Len(fs) - k
        /\ k + 1 <= k + i /\ (k + 1 = k + i \/ k + 1 < k + i)
    BY <1>2, <2>1
  <2>3. u.frames[i] = fs[k + i] /\ u.frames[1] = fs[k + 1]
    BY <2>1, <2>2
  <2>4. fs[k + i] \in Frame /\ fs[k + 1] \in Frame
    BY <1>2, <2>2, ElementOfSeq
  <2>5. AudioOnly(fs) /\ Lined(s, m) /\ DOMAIN fs = 1 .. Len(fs)
    BY <1>1, GoodTypes DEF Steady
  <2>6. fs[k + 1].timestamp <= fs[k + i].timestamp
    <3>1. fs[k + 1].timestamp \in Int
      BY <2>4 DEF Frame
    <3>2. CASE k + 1 = k + i
      BY <3>1, <3>2
    <3>3. CASE k + 1 < k + i
      BY <2>2, <2>5, <3>3 DEF Lined
    <3> QED
      BY <2>2, <3>2, <3>3
  <2> QED
    BY <2>1, <2>2, <2>3, <2>4, <2>5, <2>6 DEF Lined, AudioOnly
<1>6. Timecode(l) <= e.timecode
  <2>1. CASE e.timecode = Timecode(f.timestamp)
    BY <1>3, <1>4, <2>1
  <2>2. CASE u.frames # <<>> /\ e.timecode = Timecode(u.frames[1].timestamp)
    <3>1. 1 \in 1 .. Len(u.frames)
      BY <1>1, <2>2, GoodTypes
    <3>2. u.frames[1] \in Frame /\ Within(s, u.frames[1], m)
      BY <1>5, <3>1
    <3> QED
      BY <1>3, <1>4, <2>2, <3>2
  <2> QED
    BY <1>1, <2>1, <2>2
<1>7. ASSUME NEW g \in Frame, Within(s, g, m),
             e.timecode <= Timecode(g.timestamp)
      PROVE  Reached(g)
  <2>1. /\ Timecode(l) \in Int /\ Timecode(g.timestamp) \in Int
        /\ Timecode(g.timestamp) - Timecode(l) \in 0 .. Leap(m)
    BY <1>4, <1>7
  <2> DEFINE a == Timecode(l)
             b == Timecode(g.timestamp)
             d == e.timecode
             p == Leap(m)
  <2>2. /\ a \in Int /\ b \in Int /\ d \in Int /\ p \in Nat
        /\ b - a \in 0 .. p /\ a <= d /\ d <= b
    BY <1>2, <1>3, <1>6, <1>7, <2>1
  <2> HIDE DEF a, b, d, p
  <2>3. b - d \in 0 .. p
    BY <2>2
  <2> QED
    BY <2>3 DEF a, b, d, p
<1>8. ASSUME NEW g \in Frame, Within(s, g, m), Reached(g) PROVE Room(u, g)
  <2>1. Timecode(g.timestamp) - e.timecode \in 0 .. MaxBlockTimecode
    BY <1>3, <1>8
  <2> QED
    BY <1>1, <1>8, <2>1 DEF Room, Within, e
<1>9. Reached(f)
  BY <1>1, <1>7
<1>10. ASSUME NEW i \in 1 .. Len(u.frames)
       PROVE  u.frames[i].track = AudioTrackNumber /\ Room(u, u.frames[i])
  <2> DEFINE g == u.frames[i]
             h == u.frames[1]
  <2>1. /\ g \in Frame /\ Within(s, g, m) /\ g.track = AudioTrackNumber
        /\ h \in Frame /\ h.timestamp <= g.timestamp
        /\ 1 \in 1 .. Len(u.frames)
    BY <1>5
  <2>2. u.frames # <<>>
    <3>1. u.frames = <<>> <=> Len(u.frames) = 0
      BY <1>1, GoodTypes
    <3> HIDE DEF g, h
    <3> QED
      BY <2>1, <3>1
  <2>3. e.timecode <= Timecode(h.timestamp)
    BY <1>1, <2>2
  <2> HIDE DEF g, h
  <2>4. g.timestamp \in Int /\ h.timestamp \in Int
    BY <2>1 DEF Frame
  <2>5. /\ Timecode(h.timestamp) \in Int /\ Timecode(g.timestamp) \in Int
        /\ Timecode(h.timestamp) <= Timecode(g.timestamp)
    BY <2>1, <2>4, TimecodeMonotone
  <2>6. e.timecode <= Timecode(g.timestamp)
    BY <1>2, <2>3, <2>5
  <2>7. Room(u, g)
    BY <1>7, <1>8, <2>1, <2>6
  <2> QED
    BY <2>1, <2>7 DEF g
<1>11. u.frames \in Seq(Frame)
  BY <1>1, GoodTypes
<1>12. Timecode(f.timestamp) - e.timecode \in 0 .. Bound(m)
  BY <1>3, <1>9
<1> QED
  BY <1>8, <1>9, <1>10, <1>11, <1>12 DEF Rooms, e

(* The segment before the frame is written: the queue is in the file and   *)
(* the last cluster has room.                                              *)
Filled(s, f, m, n, v) ==
  LET c == v.clusters[Len(v.clusters)]
  IN /\ Good(v) /\ v.freed = 0 /\ v.frames = <<>>
     /\ v.seeks = s.seeks
     /\ v.header_written <=> s.header_written
     /\ v.crashed <=> s.crashed
     /\ Len(v.clusters) # 0
     /\ Closed(v.clusters) /\ AllNumbered(v.clusters, n)
     /\ Room(v, f)
     /\ Timecode(f.timestamp) - c.timecode \in 0 .. Bound(m)
     /\ Content(v) = Content(s) \o s.frames
     /\ IsVideoKey(f) =>
          /\ v.new_cuepoint
          /\ \E k \in 0 .. Len(s.frames) :
               /\ Cut(s.frames, f.timestamp, k)
               /\ c.blocks = SubSeq(s.frames, k + 1, Len(s.frames))

(* The queue written keeps the clusters closed.                            *)
LEMMA WroteClosed ==
  ASSUME NEW s, Good(s), Len(s.clusters) # 0, NEW q, NEW t, Wrote(s, q, t),
         Closed(s.clusters)
  PROVE  Closed(t.clusters)
<1>1. /\ Len(t.clusters) = Len(s.clusters) /\ Len(s.clusters) \in Nat
      /\ DOMAIN t.clusters = 1 .. Len(s.clusters)
      /\ DOMAIN s.clusters = 1 .. Len(s.clusters)
  <2>1. s.clusters \in Seq(Cluster) /\ t.clusters \in Seq(Cluster)
        /\ Len(t.clusters) = Len(s.clusters) /\ Len(s.clusters) \in Nat
    BY GoodTypes DEF Wrote
  <2> QED
    BY <2>1, LenProperties
<1>2. \A i \in 1 .. Len(s.clusters) - 1 : t.clusters[i] = s.clusters[i]
  BY DEF Wrote
<1>3. ASSUME NEW i \in 1 .. Len(s.clusters), i # Len(s.clusters)
      PROVE  t.clusters[i].finalized
  <2>1. i \in 1 .. Len(s.clusters) - 1
    BY <1>1, <1>3
  <2> QED
    BY <1>1, <1>2, <1>3, <2>1 DEF Closed
<1> QED
  BY <1>1, <1>3 DEF Closed

(* What TestFrame answers then: a new cluster or the one there is, which   *)
(* is not over yet.                                                        *)
LEMMA TestSteady ==
  ASSUME NEW m, Roomy(m), NEW n, NEW s, Steady(s, m, n), NEW f \in Frame,
         Within(s, f, m)
  PROVE  \/ TestFrame(s, f) = 1
         \/ /\ TestFrame(s, f) = 0 /\ Len(s.clusters) # 0 /\ ~IsVideoKey(f)
            /\ Timecode(f.timestamp) - s.clusters[Len(s.clusters)].timecode
                 \in 0 .. Span
<1> DEFINE c == Last(s.clusters)
           delta == Timecode(f.timestamp) - c.timecode
           result == TestFrame(s, f)
<1>1. Good(s)
  BY DEF Steady
<1>2. CASE s.force_new_cluster
  BY <1>2 DEF TestFrame
<1>3. CASE ~s.force_new_cluster /\ s.clusters = <<>>
  BY <1>3 DEF TestFrame
<1>4. CASE ~s.force_new_cluster /\ s.clusters # <<>>
  <2>1. Len(s.clusters) # 0
    BY <1>1, <1>4, GoodTypes
  <2>2. c = s.clusters[Len(s.clusters)]
    BY DEF Last
  <2>3. delta \in 0 .. MaxBlockTimecode
    BY <2>1, <2>2, WithinRoom DEF Room
  <2>4. result = CASE delta < 0 -> -1
                   [] delta > MaxBlockTimecode -> 2
                   [] delta \in 0 .. MaxBlockTimecode ->
                        IF \/ f.is_key /\ f.track = VideoTrackNumber
                           \/ delta * TimecodeScale >= MaxClusterDuration
                        THEN 1 ELSE 0
    BY <1>4 DEF TestFrame
  <2> HIDE DEF delta, result
  <2>5. result = IF \/ f.is_key /\ f.track = VideoTrackNumber
                    \/ delta * TimecodeScale >= MaxClusterDuration
                 THEN 1 ELSE 0
    BY <2>3, <2>4, SegmentAssumption
  <2>6. CASE result = 1
    BY <2>6 DEF result
  <2>7. CASE result # 1
    <3>1. /\ result = 0 /\ ~IsVideoKey(f)
          /\ ~(delta * TimecodeScale >= MaxClusterDuration)
      BY <2>5, <2>7 DEF IsVideoKey
    <3>2. delta \in Nat /\ delta * TimecodeScale < MaxClusterDuration
      BY <2>3, <3>1, SegmentAssumption
    <3>3. delta \in 0 .. Span
      BY <3>2, SpanType
    <3> QED
      BY <2>1, <2>2, <3>1, <3>3 DEF delta, result
  <2> QED
    BY <2>6, <2>7
<1> QED
  BY <1>2, <1>3, <1>4

(* The queue of u, written out.                                            *)
Emptied(u, n, v) ==
  LET j == Len(u.clusters)
  IN /\ Good(v) /\ v.freed = 0 /\ v.frames = <<>>
     /\ v.seeks = u.seeks
     /\ v.header_written <=> u.header_written
     /\ v.crashed <=> u.crashed
     /\ v.new_cuepoint <=> u.new_cuepoint
     /\ Len(v.clusters) = j
     /\ Closed(v.clusters) /\ AllNumbered(v.clusters, n)
     /\ Content(v) = Content(u) \o u.frames
     /\ Taken(u.clusters[j], u.frames, v.clusters[j])

(* WriteFramesAll does so when there is room.                              *)
LEMMA Empties ==
  ASSUME NEW u, Good(u), u.freed = 0, Len(u.clusters) # 0,
         Rooms(u, u.frames), Closed(u.clusters), NEW n,
         Numbered(u.frames, n), AllNumbered(u.clusters, n)
  PROVE  LET r == WriteFramesAll(u) IN
         /\ r.ok /\ Emptied(u, n, r.seg)
         /\ \A f : Room(u, f) => Room(r.seg, f)
<1> DEFINE r == WriteFramesAll(u)
           v == r.seg
<1>1. r.ok /\ Wrote(u, u.frames, v) /\ v.frames = <<>> /\ v.freed = 0
  BY AllFit
<1>2. Kept(u, r)
  BY WriteFramesAllKept
<1> HIDE DEF r
<1>3. u.frames \in Seq(Frame)
  BY GoodTypes
<1>4. AllNumbered(v.clusters, n)
  BY <1>1, <1>3, WroteNumbered
<1>5. Closed(v.clusters)
  BY <1>1, WroteClosed
<1>6. \A f : Room(u, f) => Room(v, f)
  BY <1>1, RoomKept
<1>7. Good(v) /\ (v.new_cuepoint <=> u.new_cuepoint)
      /\ Len(v.clusters) = Len(u.clusters)
  BY <1>2 DEF Kept
<1>8. Emptied(u, n, v)
  BY <1>1, <1>4, <1>5, <1>7 DEF Emptied, Wrote
<1> QED
  BY <1>1, <1>6, <1>8 DEF r

(* Into the cluster there is.                                              *)
LEMMA FillsOld ==
  ASSUME NEW m, Roomy(m), NEW n, NEW s, Steady(s, m, n), NEW f \in Frame,
         Within(s, f, m), Len(s.clusters) # 0, ~IsVideoKey(f),
         Timecode(f.timestamp) - s.clusters[Len(s.clusters)].timecode
           \in 0 .. Span
  PROVE  LET r == WriteFramesAll(s) IN
         r.ok /\ Filled(s, f, m, n, r.seg)
<1> DEFINE r == WriteFramesAll(s)
           v == r.seg
           j == Len(s.clusters)
<1>1. /\ Good(s) /\ s.freed = 0 /\ Closed(s.clusters)
      /\ Numbered(s.frames, n) /\ AllNumbered(s.clusters, n)
  BY DEF Steady
<1>2. Room(s, f) /\ Rooms(s, s.frames)
  BY WithinRoom, SteadyRooms
<1>3. r.ok /\ Emptied(s, n, v) /\ Room(v, f)
  BY <1>1, <1>2, Empties
<1> HIDE DEF r
<1>4. v.clusters[j].timecode = s.clusters[j].timecode /\ Len(v.clusters) = j
  BY <1>3 DEF Emptied, Taken
<1>5. Span <= Bound(m) /\ Span \in Nat /\ Bound(m) \in Nat
  BY LeapType, SpanType
<1>6. Timecode(f.timestamp) - v.clusters[j].timecode \in 0 .. Bound(m)
  <2> DEFINE d == Timecode(f.timestamp) - s.clusters[j].timecode
  <2>1. d \in 0 .. Span
    OBVIOUS
  <2> HIDE DEF d
  <2>2. d \in 0 .. Bound(m)
    BY <1>5, <2>1
  <2> QED
    BY <1>4, <2>2 DEF d
<1>7. Filled(s, f, m, n, v)
  BY <1>3, <1>4, <1>6 DEF Filled, Emptied
<1> QED
  BY <1>3, <1>7 DEF r

(* Into a new one.                                                         *)
LEMMA FillsNew ==
  ASSUME NEW m, Roomy(m), NEW n, NEW s, Steady(s, m, n), NEW f \in Frame,
         Within(s, f, m), NEW k \in 0 .. Len(s.frames), NEW u,
         Made(s, f, k, n, u)
  PROVE  LET r == WriteFramesAll(u) IN
         r.ok /\ Filled(s, f, m, n, r.seg)
<1> DEFINE r == WriteFramesAll(u)
           v == r.seg
           j == Len(u.clusters)
           fs == s.frames
           p == SubSeq(fs, 1, k)
           q == SubSeq(fs, k + 1, Len(fs))
<1>1. /\ Good(u) /\ u.freed = 0 /\ Closed(u.clusters)
      /\ AllNumbered(u.clusters, n) /\ j # 0
      /\ u.frames = q /\ Content(u) = Content(s) \o p
      /\ u.clusters[j].blocks = <<>>
      /\ u.seeks = s.seeks /\ u.new_cuepoint
      /\ u.header_written <=> s.header_written
      /\ u.crashed <=> s.crashed
      /\ Cut(fs, f.timestamp, k)
  BY DEF Made
<1>2. fs \in Seq(Frame) /\ Content(s) \in Seq(Frame) /\ Numbered(fs, n)
  BY GoodTypes, ContentType DEF Steady
<1>3. /\ p \in Seq(Frame) /\ q \in Seq(Frame) /\ p \o q = fs
      /\ Len(q) = Len(fs) - k
      /\ \A i \in 1 .. Len(fs) - k : q[i] = fs[k + i]
      /\ Len(fs) \in Nat
  BY <1>2, PartOf, LenProperties
<1>4. Numbered(q, n)
  <2>1. \A i \in 1 .. Len(fs) - k : k + i \in 1 .. Len(fs)
    BY <1>3
  <2> HIDE DEF q, fs
  <2> QED
    BY <1>2, <1>3, <2>1 DEF Numbered
<1>5. /\ Room(u, f) /\ Rooms(u, u.frames)
      /\ Timecode(f.timestamp) - u.clusters[j].timecode \in 0 .. Bound(m)
  BY MadeRoom
<1>6. r.ok /\ Emptied(u, n, v) /\ Room(v, f)
  BY <1>1, <1>4, <1>5, Empties
<1> HIDE DEF r
<1>7. /\ Len(v.clusters) = j
      /\ v.clusters[j].timecode = u.clusters[j].timecode
      /\ v.clusters[j].blocks = <<>> \o q
      /\ Content(v) = Content(u) \o q
  BY <1>1, <1>6 DEF Emptied, Taken
<1> HIDE DEF p, q, fs
<1>8. v.clusters[j].blocks = q
  BY <1>3, <1>7, ConcatEmptySeq
<1>9. Content(v) = Content(s) \o fs
  <2>1. (Content(s) \o p) \o q = Content(s) \o (p \o q)
    <3>1. ASSUME NEW a \in Seq(Frame), NEW b \in Seq(Frame),
                 NEW c \in Seq(Frame)
          PROVE  (a \o b) \o c = a \o (b \o c)
      BY ConcatAssociative
    <3> QED
      BY <1>2, <1>3, <3>1
  <2> QED
    BY <1>1, <1>3, <1>7, <2>1
<1>10. /\ Cut(s.frames, f.timestamp, k)
       /\ v.clusters[j].blocks = SubSeq(s.frames, k + 1, Len(s.frames))
       /\ Content(v) = Content(s) \o s.frames
  BY <1>1, <1>8, <1>9 DEF q, fs
<1>11. Filled(s, f, m, n, v)
  BY <1>1, <1>5, <1>6, <1>7, <1>10 DEF Filled, Emptied
<1> QED
  BY <1>6, <1>11 DEF r

(* ForceNewClusterOnNextFrame's flag, reset: nothing else changes.         *)
LEMMA SteadyUnforced ==
  ASSUME NEW m, NEW n, NEW s, Steady(s, m, n), NEW b \in BOOLEAN
  PROVE  LET t == [s EXCEPT !.force_new_cluster = b] IN
         /\ Steady(t, m, n)
         /\ t.clusters = s.clusters /\ t.frames = s.frames
         /\ t.seeks = s.seeks /\ t.last_timestamp = s.last_timestamp
         /\ t.header_written <=> s.header_written
         /\ t.crashed <=> s.crashed
<1> DEFINE t == [s EXCEPT !.force_new_cluster = b]
<1>1. Good(s) /\ s \in SegmentType /\ AudioOnly(s.frames)
  BY GoodTypes DEF Steady
<1>2. /\ t \in SegmentType /\ t.clusters = s.clusters /\ t.cues = s.cues
      /\ t.frames = s.frames /\ t.freed = s.freed /\ t.seeks = s.seeks
      /\ t.last_timestamp = s.last_timestamp
      /\ t.new_cuepoint <=> s.new_cuepoint
      /\ t.header_written <=> s.header_written
      /\ t.crashed <=> s.crashed
  BY <1>1 DEF SegmentType
<1> HIDE DEF t
<1>3. Good(t)
  BY <1>1, <1>2, GoodSame
<1>4. Lined(t, m) /\ LastOpen(t, t.last_timestamp, Bound(m))
        <=> Lined(s, m) /\ LastOpen(s, s.last_timestamp, Bound(m))
  BY <1>2 DEF Lined, Within, LastOpen
<1>5. Lined(t, m) <=> Lined(s, m)
  BY <1>2 DEF Lined, Within
<1>6. LastOpen(t, t.last_timestamp, Bound(m))
        <=> LastOpen(s, s.last_timestamp, Bound(m))
  BY <1>2 DEF LastOpen
<1>7. Steady(t, m, n)
  BY <1>2, <1>3, <1>5, <1>6 DEF Steady
<1> QED
  BY <1>2, <1>7 DEF t

(* The same frames to write, and the same queue.                           *)
LEMMA FilledSame ==
  ASSUME NEW m, NEW n, NEW s, NEW t, NEW f, NEW v, Filled(t, f, m, n, v),
         t.clusters = s.clusters, t.frames = s.frames, t.seeks = s.seeks,
         t.header_written <=> s.header_written,
         t.crashed <=> s.crashed
  PROVE  Filled(s, f, m, n, v)
<1>1. Content(t) = Content(s)
  BY DEF Content
<1> QED
  BY <1>1 DEF Filled

(* One turn is enough.                                                     *)
LEMMA SteadyTurn ==
  ASSUME NEW m, Roomy(m), NEW n, NEW s, Steady(s, m, n), NEW f \in Frame,
         Within(s, f, m)
  PROVE  LET r == Turn(s, f) IN
         r.ok /\ ~r.again /\ Filled(s, f, m, n, r.seg)
<1> DEFINE result == TestFrame(s, f)
           t == [s EXCEPT !.force_new_cluster = FALSE]
           made == IF result > 0 THEN MakeNewCluster(t, f.timestamp)
                                 ELSE Succeeded(t)
           all == WriteFramesAll(made.seg)
           r == Turn(s, f)
<1>1. /\ Steady(t, m, n)
      /\ t.clusters = s.clusters /\ t.frames = s.frames
      /\ t.seeks = s.seeks /\ t.last_timestamp = s.last_timestamp
      /\ t.header_written <=> s.header_written
      /\ t.crashed <=> s.crashed
  BY SteadyUnforced
<1> HIDE DEF t
<1>2. Within(t, f, m)
  BY <1>1 DEF Within
<1>3. r = LET done == IF result < 0 THEN Refused(s)
                      ELSE IF made.ok THEN all ELSE made
          IN [ok |-> done.ok, seg |-> done.seg, again |-> result = 2]
  <2> HIDE DEF result
  <2> QED
    BY DEF Turn, Then, result, t
<1>6. ~(result < 0) /\ made.ok =>
        /\ r.ok = all.ok /\ r.seg = all.seg
        /\ r.again <=> result = 2
  <2> HIDE DEF all, made, result, r
  <2> QED
    BY <1>3
<1> HIDE DEF r, result
<1>4. CASE result = 1
  <2>1. /\ MakeNewCluster(t, f.timestamp).ok
        /\ \E k \in 0 .. Len(t.frames) :
             Made(t, f, k, n, MakeNewCluster(t, f.timestamp).seg)
    BY <1>1, Makes
  <2>2. made = MakeNewCluster(t, f.timestamp)
    BY <1>4
  <2> HIDE DEF made
  <2>3. PICK k \in 0 .. Len(t.frames) : Made(t, f, k, n, made.seg)
    BY <2>1, <2>2
  <2>4. all.ok /\ Filled(t, f, m, n, all.seg)
    BY <1>1, <1>2, <2>3, FillsNew
  <2> HIDE DEF all
  <2>5. r.ok = all.ok /\ r.seg = all.seg /\ ~r.again
    BY <1>4, <1>6, <2>1, <2>2
  <2>6. Filled(s, f, m, n, all.seg)
    BY <1>1, <2>4, FilledSame
  <2> QED
    BY <2>4, <2>5, <2>6 DEF r
<1>5. CASE /\ result = 0 /\ Len(s.clusters) # 0 /\ ~IsVideoKey(f)
           /\ Timecode(f.timestamp) - s.clusters[Len(s.clusters)].timecode
                \in 0 .. Span
  <2>1. made.ok /\ made.seg = t
    BY <1>5 DEF Succeeded
  <2> HIDE DEF made
  <2>2. WriteFramesAll(t).ok /\ Filled(t, f, m, n, WriteFramesAll(t).seg)
    BY <1>1, <1>2, <1>5, FillsOld
  <2>3. all.ok /\ Filled(t, f, m, n, all.seg)
    BY <2>1, <2>2
  <2> HIDE DEF all
  <2>4. r.ok = all.ok /\ r.seg = all.seg /\ ~r.again
    BY <1>5, <1>6, <2>1
  <2>5. Filled(s, f, m, n, all.seg)
    BY <1>1, <2>3, FilledSame
  <2> QED
    BY <2>3, <2>4, <2>5 DEF r
<1> QED
  BY <1>4, <1>5, TestSteady DEF result

(* So is the loop.                                                         *)
LEMMA SteadyLoop ==
  ASSUME NEW m, Roomy(m), NEW n, NEW s, Steady(s, m, n), NEW f \in Frame,
         Within(s, f, m)
  PROVE  LET r == DoNewClusterProcessing(s, f) IN
         r.ok /\ Filled(s, f, m, n, r.seg)
<1> DEFINE Again(r) == IF r.ok /\ r.again THEN Turn(r.seg, f) ELSE r
           r1 == Turn(s, f)
<1>1. r1.ok /\ ~r1.again /\ Filled(s, f, m, n, r1.seg)
  BY SteadyTurn
<1>2. DoNewClusterProcessing(s, f) = Again(Again(r1))
  BY DEF DoNewClusterProcessing
<1> HIDE DEF r1
<1>3. Again(r1) = r1
  BY <1>1
<1>4. DoNewClusterProcessing(s, f) = r1
  BY <1>2, <1>3
<1> QED
  BY <1>1, <1>4

(* The segment with the frame written, and its time the last.              *)
Added(s, f, m, n, v) ==
  LET j == Len(v.clusters)
  IN /\ Good(v) /\ v.freed = 0 /\ v.frames = <<>>
     /\ v.seeks = s.seeks
     /\ v.header_written <=> s.header_written
     /\ v.crashed <=> s.crashed
     /\ j # 0 /\ Closed(v.clusters)
     /\ LastOpen(v, f.timestamp, Bound(m))
     /\ Content(v) = Content(s) \o s.frames \o <<f>>
     /\ \A i \in 1 .. j - 1 : Numbered(v.clusters[i].blocks, n)
     /\ \E b \in Seq(Frame) :
          /\ v.clusters[j].blocks = Append(b, f) /\ Numbered(b, n)
          /\ IsVideoKey(f) =>
               \E k \in 0 .. Len(s.frames) :
                 /\ Cut(s.frames, f.timestamp, k)
                 /\ b = SubSeq(s.frames, k + 1, Len(s.frames))

(* The frame has room, and becomes the last block.                         *)
LEMMA Adds ==
  ASSUME NEW m, Roomy(m), NEW n, NEW s, Good(s), NEW f \in Frame, NEW u,
         Filled(s, f, m, n, u)
  PROVE  LET r == WriteBlock(u, f) IN r.ok /\ Added(s, f, m, n, r.seg)
<1> DEFINE r == WriteBlock(u, f)
           v == r.seg
           j == Len(u.clusters)
           b == u.clusters[j].blocks
<1>1. /\ Good(u) /\ u.freed = 0 /\ u.frames = <<>>
      /\ u.seeks = s.seeks
      /\ u.header_written <=> s.header_written
      /\ u.crashed <=> s.crashed
      /\ j # 0
      /\ Closed(u.clusters) /\ AllNumbered(u.clusters, n)
      /\ Room(u, f)
      /\ Timecode(f.timestamp) - u.clusters[j].timecode \in 0 .. Bound(m)
      /\ Content(u) = Content(s) \o s.frames
      /\ IsVideoKey(f) =>
           /\ u.new_cuepoint
           /\ \E k \in 0 .. Len(s.frames) :
                /\ Cut(s.frames, f.timestamp, k)
                /\ b = SubSeq(s.frames, k + 1, Len(s.frames))
  BY DEF Filled
<1>2. r.ok /\ Wrote(u, <<f>>, v) /\ v.frames = u.frames /\ v.freed = u.freed
  BY <1>1, BlockFits
<1> HIDE DEF r
<1>3. /\ Good(v) /\ Len(v.clusters) = j
      /\ v.seeks = u.seeks
      /\ v.header_written <=> u.header_written
      /\ v.crashed <=> u.crashed
      /\ Content(v) = Content(u) \o <<f>>
      /\ \A i \in 1 .. j - 1 : v.clusters[i] = u.clusters[i]
      /\ Taken(u.clusters[j], <<f>>, v.clusters[j])
  BY <1>2 DEF Wrote
<1>4. Closed(v.clusters)
  BY <1>1, <1>2, WroteClosed
<1>5. LastOpen(v, f.timestamp, Bound(m))
  <2>1. <<f>> # <<>>
    OBVIOUS
  <2>2. ~u.clusters[j].finalized
    BY <1>1 DEF Room
  <2> QED
    BY <1>1, <1>3, <2>1, <2>2 DEF LastOpen, Taken
<1>6. b \in Seq(Frame) /\ j \in Nat \ {0}
  BY <1>1, LastOf
<1> HIDE DEF v
<1>7. v.clusters[j].blocks = Append(b, f)
  <2>1. v.clusters[j].blocks = b \o <<f>>
    BY <1>3 DEF Taken
  <2> HIDE DEF b
  <2> QED
    BY <1>6, <2>1, AppendIsConcat
<1>8. /\ Numbered(b, n)
      /\ \A i \in 1 .. j - 1 : Numbered(v.clusters[i].blocks, n)
  <2>1. j \in 1 .. j /\ \A i \in 1 .. j - 1 : i \in 1 .. j
    BY <1>6
  <2> QED
    BY <1>1, <1>3, <2>1 DEF AllNumbered
<1> HIDE DEF b, j
<1>9. \E z \in Seq(Frame) :
        /\ v.clusters[j].blocks = Append(z, f) /\ Numbered(z, n)
        /\ IsVideoKey(f) =>
             \E k \in 0 .. Len(s.frames) :
               /\ Cut(s.frames, f.timestamp, k)
               /\ z = SubSeq(s.frames, k + 1, Len(s.frames))
  <2>1. /\ v.clusters[j].blocks = Append(b, f) /\ Numbered(b, n)
        /\ IsVideoKey(f) =>
             \E k \in 0 .. Len(s.frames) :
               /\ Cut(s.frames, f.timestamp, k)
               /\ b = SubSeq(s.frames, k + 1, Len(s.frames))
    BY <1>1, <1>7, <1>8
  <2> QED
    BY <1>6, <2>1
<1>10. Added(s, f, m, n, v)
  BY <1>1, <1>2, <1>3, <1>4, <1>5, <1>8, <1>9 DEF Added, v, j
<1> QED
  BY <1>2, <1>10 DEF r, v

(* The seek entries the header takes, once; no Finalize came before it.    *)
Headed(s) ==
  /\ s.header_written => s.seeks = 3 + Extras
  /\ ~s.header_written => s.seeks = 0

(* Two segments that differ in the header at most.                         *)
SameFrames(s, t) ==
  /\ t.clusters = s.clusters /\ t.frames = s.frames
  /\ t.last_timestamp = s.last_timestamp
  /\ t.force_new_cluster <=> s.force_new_cluster

(* Then the header goes out, or was out.                                   *)
LEMMA HeaderFits ==
  ASSUME NEW m, NEW n, NEW s, Steady(s, m, n), Headed(s)
  PROVE  LET q == CheckHeaderInfo(s) IN
         /\ q.ok /\ Steady(q.seg, m, n) /\ Headed(q.seg)
         /\ q.seg.header_written /\ SameFrames(s, q.seg)
<1> DEFINE q == CheckHeaderInfo(s)
           k == 3 + Extras
           t == [s EXCEPT !.seeks = k, !.header_written = TRUE]
<1>1. Good(s) /\ s \in SegmentType
  BY GoodTypes DEF Steady
<1>2. CASE s.header_written
  <2>1. q = Succeeded(s)
    BY <1>2 DEF CheckHeaderInfo
  <2> HIDE DEF q
  <2>2. q.ok /\ q.seg = s
    BY <2>1 DEF Succeeded
  <2> QED
    BY <1>2, <2>2 DEF SameFrames, q
<1>3. CASE ~s.header_written
  <2>1. Extras \in 0 .. 2 /\ s.seeks = 0
    BY <1>3, SegmentAssumption DEF Headed
  <2>2. /\ s.seeks + 2 + Extras < kSeekEntryCount
        /\ s.seeks + 2 + Extras + 1 = k /\ k \in Nat
        /\ ~(s.seeks + 2 + Extras > kSeekEntryCount)
        /\ s.seeks + 2 + Extras # kSeekEntryCount
    BY <2>1 DEF kSeekEntryCount
  <2>3. q = Succeeded([s EXCEPT !.seeks = s.seeks + 2 + Extras + 1,
                                !.header_written = TRUE])
    <3> DEFINE used == s.seeks + 2 + Extras
    <3>1. used < kSeekEntryCount /\ ~(used > kSeekEntryCount)
          /\ used # kSeekEntryCount
      BY <2>2
    <3>2. q = CASE s.header_written -> Succeeded(s)
       [] ~s.header_written /\ used > kSeekEntryCount ->
            Refused([s EXCEPT !.seeks = kSeekEntryCount])
       [] ~s.header_written /\ used = kSeekEntryCount ->
            Refused([s EXCEPT !.seeks = used, !.header_written = TRUE])
       [] ~s.header_written /\ used < kSeekEntryCount ->
            Succeeded([s EXCEPT !.seeks = used + 1, !.header_written = TRUE])
      BY DEF CheckHeaderInfo
    <3> HIDE DEF used, q
    <3>3. q = Succeeded([s EXCEPT !.seeks = used + 1, !.header_written = TRUE])
      BY <1>3, <3>1, <3>2
    <3> QED
      BY <3>3 DEF used
  <2>4. q = Succeeded(t)
    BY <2>2, <2>3
  <2> HIDE DEF q, k
  <2>5. HeaderOnly(s, t)
    BY <1>1, <2>2, HeaderSet
  <2>6. /\ t.seeks = k /\ t.header_written /\ (t.crashed <=> s.crashed)
        /\ t.freed = s.freed /\ SameFrames(s, t) /\ Good(t)
    <3>1. /\ t.seeks = k /\ t.header_written /\ (t.crashed <=> s.crashed)
      BY <1>1 DEF SegmentType
    <3> HIDE DEF t
    <3> QED
      BY <2>5, <3>1 DEF HeaderOnly, SameFrames
  <2> HIDE DEF t
  <2>7. Lined(t, m) <=> Lined(s, m)
    BY <2>6 DEF Lined, Within, SameFrames
  <2>8. LastOpen(t, t.last_timestamp, Bound(m))
          <=> LastOpen(s, s.last_timestamp, Bound(m))
    BY <2>6 DEF LastOpen, SameFrames
  <2>9. Steady(t, m, n)
    BY <2>6, <2>7, <2>8 DEF Steady, SameFrames
  <2>10. q.ok /\ q.seg = t
    BY <2>4 DEF Succeeded
  <2> QED
    BY <2>6, <2>9, <2>10 DEF Headed, q, k
<1> QED
  BY <1>2, <1>3

(* A frame of a sequence, and its number.                                  *)
LEMMA FrameAt ==
  ASSUME NEW fs \in Seq(Frame), NEW i \in 1 .. Len(fs)
  PROVE  /\ fs[i] \in Frame /\ fs[i].id \in Nat
         /\ \A n : Numbered(fs, n) => fs[i].id <= n
<1>1. fs[i] \in Frame
  BY ElementOfSeq
<1> QED
  BY <1>1 DEF Frame, Numbered

(* A cluster's blocks.                                                     *)
LEMMA BlocksAt ==
  ASSUME NEW cs \in Seq(Cluster), NEW i \in 1 .. Len(cs)
  PROVE  cs[i].blocks \in Seq(Frame)
<1>1. cs[i] \in Cluster
  BY ElementOfSeq
<1> QED
  BY <1>1 DEF Cluster

(* Frames with numbers up to n have numbers up to the next.                *)
LEMMA NumberedMore ==
  ASSUME NEW n \in Nat, NEW fs \in Seq(Frame), Numbered(fs, n)
  PROVE  Numbered(fs, n + 1)
<1>1. ASSUME NEW i \in 1 .. Len(fs) PROVE fs[i].id <= n + 1
  <2>1. fs[i].id \in Nat /\ fs[i].id <= n
    BY FrameAt
  <2> QED
    BY <2>1
<1> QED
  BY <1>1 DEF Numbered

(* A steady segment is steady with any larger bound on the numbers.        *)
LEMMA SteadyLater ==
  ASSUME NEW m, NEW n, NEW s, Steady(s, m, n)
  PROVE  Steady(s, m, n + 1)
<1>1. /\ n \in Nat /\ s.frames \in Seq(Frame) /\ s.clusters \in Seq(Cluster)
      /\ Numbered(s.frames, n) /\ AllNumbered(s.clusters, n)
  BY GoodTypes DEF Steady
<1>3. AllNumbered(s.clusters, n + 1)
  <2>1. ASSUME NEW i \in 1 .. Len(s.clusters)
        PROVE  Numbered(s.clusters[i].blocks, n + 1)
    <3>1. s.clusters[i].blocks \in Seq(Frame)
      BY <1>1, BlocksAt
    <3> QED
      BY <1>1, <3>1, NumberedMore DEF AllNumbered
  <2> QED
    BY <2>1 DEF AllNumbered
<1>4. Numbered(s.frames, n + 1) /\ n + 1 \in Nat
  BY <1>1, NumberedMore
<1> QED
  BY <1>3, <1>4 DEF Steady

(* A frame with the next number at the end of frames.                      *)
LEMMA NumberedNext ==
  ASSUME NEW n \in Nat, NEW b \in Seq(Frame), Numbered(b, n), NEW f \in Frame,
         f.id = n + 1
  PROVE  Numbered(Append(b, f), n + 1)
<1> DEFINE q == Append(b, f)
<1>1. /\ Len(q) = Len(b) + 1 /\ q[Len(b) + 1] = f /\ Len(b) \in Nat
      /\ \A i \in 1 .. Len(b) : q[i] = b[i]
  BY AppendProperties, LenProperties
<1> HIDE DEF q
<1>2. ASSUME NEW i \in 1 .. Len(q) PROVE q[i].id <= n + 1
  <2>1. CASE i = Len(b) + 1
    BY <1>1, <2>1
  <2>2. CASE i # Len(b) + 1
    <3>1. i \in 1 .. Len(b)
      BY <1>1, <2>2
    <3>2. q[i].id \in Nat /\ q[i].id <= n
      BY <1>1, <3>1, FrameAt
    <3> QED
      BY <3>2
  <2> QED
    BY <2>1, <2>2
<1> QED
  BY <1>2 DEF Numbered, q

(* The frame written leaves the segment steady.                            *)
LEMMA AddedSteady ==
  ASSUME NEW m, Roomy(m), NEW n \in Nat, NEW s, ~s.crashed, NEW f \in Frame,
         f.id = n + 1, NEW u, Added(s, f, m, n, u)
  PROVE  LET v == [u EXCEPT !.last_timestamp = f.timestamp] IN
         /\ Steady(v, m, n + 1) /\ v.last_timestamp = f.timestamp
         /\ v.seeks = s.seeks /\ (v.header_written <=> s.header_written)
         /\ v.frames = <<>> /\ Len(v.clusters) # 0
         /\ v.clusters = u.clusters
<1> DEFINE v == [u EXCEPT !.last_timestamp = f.timestamp]
           j == Len(u.clusters)
<1>1. /\ Good(u) /\ u.freed = 0 /\ u.frames = <<>>
      /\ u.seeks = s.seeks
      /\ u.header_written <=> s.header_written
      /\ u.crashed <=> s.crashed
      /\ j # 0 /\ Closed(u.clusters)
      /\ LastOpen(u, f.timestamp, Bound(m))
      /\ \A i \in 1 .. j - 1 : Numbered(u.clusters[i].blocks, n)
      /\ \E b \in Seq(Frame) : u.clusters[j].blocks = Append(b, f) /\ Numbered(b, n)
  BY DEF Added
<1>2. u \in SegmentType /\ f.timestamp \in Int
  BY <1>1, GoodTypes DEF Frame
<1>3. /\ v \in SegmentType /\ v.clusters = u.clusters /\ v.cues = u.cues
      /\ v.frames = u.frames /\ v.freed = u.freed /\ v.seeks = u.seeks
      /\ v.last_timestamp = f.timestamp
      /\ v.new_cuepoint <=> u.new_cuepoint
      /\ v.header_written <=> u.header_written
      /\ v.crashed <=> u.crashed
  BY <1>2 DEF SegmentType
<1> HIDE DEF v
<1>4. Good(v)
  <2>1. AudioOnly(v.frames)
    BY <1>1, <1>3, GoodTypes
  <2> QED
    BY <1>1, <1>3, <2>1, GoodSame
<1>5. Lined(v, m) /\ Numbered(v.frames, n + 1)
  <2>1. v.frames = <<>>
    BY <1>1, <1>3
  <2>2. Len(v.frames) = 0
    BY <2>1
  <2>3. 1 .. Len(v.frames) = {}
    BY <2>2
  <2> QED
    BY <2>3 DEF Lined, Numbered
<1>6. AllNumbered(v.clusters, n + 1)
  <2>1. u.clusters \in Seq(Cluster) /\ j \in Nat \ {0}
    BY <1>1, GoodTypes
  <2>2. ASSUME NEW i \in 1 .. j PROVE Numbered(u.clusters[i].blocks, n + 1)
    <3>1. CASE i = j
      <4>1. PICK b \in Seq(Frame) :
              u.clusters[j].blocks = Append(b, f) /\ Numbered(b, n)
        BY <1>1
      <4> QED
        BY <3>1, <4>1, NumberedNext
    <3>2. CASE i # j
      <4>1. i \in 1 .. j - 1
        BY <2>1, <3>2
      <4>2. Numbered(u.clusters[i].blocks, n)
        BY <1>1, <4>1
      <4>3. u.clusters[i].blocks \in Seq(Frame)
        BY <2>1, BlocksAt
      <4> QED
        BY <4>2, <4>3, NumberedMore
    <3> QED
      BY <3>1, <3>2
  <2> QED
    BY <1>3, <2>2 DEF AllNumbered
<1>7. LastOpen(v, v.last_timestamp, Bound(m))
  BY <1>1, <1>3 DEF LastOpen
<1>8. n + 1 \in Nat
  OBVIOUS
<1>9. Steady(v, m, n + 1)
  BY <1>1, <1>3, <1>4, <1>5, <1>6, <1>7, <1>8 DEF Steady
<1> QED
  BY <1>1, <1>3, <1>9 DEF v

(* A video key frame of v with the next number has with it the frames that *)
(* s queued, from one that is not later than it, if there is one, on.      *)
Accompanied(s, v, n) ==
  \A i \in 1 .. Len(v.clusters) :
    LET c == v.clusters[i]
    IN \A x \in 1 .. Len(c.blocks) :
         c.blocks[x].id = n + 1 /\ IsVideoKey(c.blocks[x]) =>
           \E k \in 0 .. Len(s.frames) :
             /\ Cut(s.frames, c.blocks[x].timestamp, k)
             /\ \A y \in k + 1 .. Len(s.frames) :
                  \E z \in 1 .. Len(c.blocks) : c.blocks[z] = s.frames[y]

(* There is none among the frames so far.                                  *)
LEMMA NoneNext ==
  ASSUME NEW n \in Nat, NEW s, NEW v, v.clusters \in Seq(Cluster),
         AllNumbered(v.clusters, n)
  PROVE  Accompanied(s, v, n)
<1>1. ASSUME NEW i \in 1 .. Len(v.clusters),
             NEW x \in 1 .. Len(v.clusters[i].blocks)
      PROVE  v.clusters[i].blocks[x].id # n + 1
  <2> DEFINE b == v.clusters[i].blocks
  <2>1. b \in Seq(Frame) /\ Numbered(b, n)
    BY BlocksAt DEF AllNumbered
  <2>2. x \in 1 .. Len(b)
    OBVIOUS
  <2> HIDE DEF b
  <2>3. b[x].id \in Nat /\ b[x].id <= n
    BY <2>1, <2>2, FrameAt
  <2>4. b[x].id # n + 1
    BY <2>3
  <2> QED
    BY <2>4 DEF b
<1> QED
  BY <1>1 DEF Accompanied

(* The frame just written is.                                              *)
LEMMA AddedNext ==
  ASSUME NEW m, NEW n \in Nat, NEW s, Good(s), NEW f \in Frame, f.id = n + 1,
         NEW u, Added(s, f, m, n, u), NEW v, v.clusters = u.clusters
  PROVE  Accompanied(s, v, n)
<1> DEFINE cs == u.clusters
           j == Len(cs)
           fs == s.frames
<1>1. /\ Good(u) /\ j # 0
      /\ \A i \in 1 .. j - 1 : Numbered(cs[i].blocks, n)
      /\ \E b \in Seq(Frame) :
           /\ cs[j].blocks = Append(b, f) /\ Numbered(b, n)
           /\ IsVideoKey(f) =>
                \E k \in 0 .. Len(fs) :
                  /\ Cut(fs, f.timestamp, k)
                  /\ b = SubSeq(fs, k + 1, Len(fs))
  BY DEF Added
<1>2. cs \in Seq(Cluster) /\ j \in Nat \ {0}
  BY <1>1, GoodTypes
<1>3. PICK b \in Seq(Frame) :
        /\ cs[j].blocks = Append(b, f) /\ Numbered(b, n)
        /\ IsVideoKey(f) =>
             \E k \in 0 .. Len(fs) :
               /\ Cut(fs, f.timestamp, k)
               /\ b = SubSeq(fs, k + 1, Len(fs))
  BY <1>1
<1>4. fs \in Seq(Frame) /\ Len(fs) \in Nat
  BY GoodTypes
<1> DEFINE q == Append(b, f)
<1>5. /\ Len(q) = Len(b) + 1 /\ q[Len(b) + 1] = f /\ Len(b) \in Nat
      /\ \A i \in 1 .. Len(b) : q[i] = b[i]
  BY AppendProperties, LenProperties
<1> HIDE DEF q, cs, j, fs
<1>6. ASSUME NEW i \in 1 .. j, NEW x \in 1 .. Len(cs[i].blocks),
             cs[i].blocks[x].id = n + 1
      PROVE  i = j /\ cs[i].blocks[x] = f
  <2>1. CASE i # j
    <3> DEFINE d == cs[i].blocks
    <3>1. i \in 1 .. j - 1 /\ i \in 1 .. Len(cs)
      BY <1>2, <2>1 DEF j
    <3>2. d \in Seq(Frame) /\ Numbered(d, n)
      BY <1>1, <1>2, <3>1, BlocksAt
    <3>3. x \in 1 .. Len(d) /\ d[x].id = n + 1
      BY <1>6
    <3> HIDE DEF d
    <3>4. d[x].id \in Nat /\ d[x].id <= n
      BY <3>2, <3>3, FrameAt
    <3> QED
      BY <3>3, <3>4
  <2>2. CASE i = j
    <3>1. cs[i].blocks = q
      BY <1>3, <2>2 DEF q
    <3>2. x \in 1 .. Len(b) + 1 /\ q[x].id = n + 1
      BY <1>5, <1>6, <3>1
    <3>3. x = Len(b) + 1
      <4>1. ASSUME x # Len(b) + 1 PROVE FALSE
        <5>1. x \in 1 .. Len(b)
          BY <1>5, <3>2, <4>1
        <5>2. b[x].id \in Nat /\ b[x].id <= n
          BY <1>3, <5>1, FrameAt
        <5> QED
          BY <1>5, <3>2, <5>1, <5>2
      <4> QED
        BY <4>1
    <3> QED
      BY <1>5, <2>2, <3>1, <3>3
  <2> QED
    BY <2>1, <2>2
<1>7. ASSUME IsVideoKey(f)
      PROVE  \E k \in 0 .. Len(fs) :
               /\ Cut(fs, f.timestamp, k)
               /\ \A y \in k + 1 .. Len(fs) :
                    \E z \in 1 .. Len(q) : q[z] = fs[y]
  <2>1. PICK k \in 0 .. Len(fs) :
               /\ Cut(fs, f.timestamp, k)
               /\ b = SubSeq(fs, k + 1, Len(fs))
    BY <1>3, <1>7
  <2>2. /\ Len(b) = Len(fs) - k
        /\ \A i \in 1 .. Len(fs) - k : b[i] = fs[k + i]
    BY <1>4, <2>1, PartOf
  <2>3. ASSUME NEW y \in k + 1 .. Len(fs)
        PROVE  \E z \in 1 .. Len(q) : q[z] = fs[y]
    <3> DEFINE z == y - k
    <3>1. z \in 1 .. Len(fs) - k /\ k + z = y /\ z \in 1 .. Len(b)
          /\ z \in 1 .. Len(b) + 1
      BY <1>4, <2>2
    <3> HIDE DEF z
    <3>2. q[z] = fs[y] /\ z \in 1 .. Len(q)
      BY <1>5, <2>2, <3>1
    <3> QED
      BY <3>2
  <2> QED
    BY <2>1, <2>3
<1>8. cs[j].blocks = q
  BY <1>3 DEF q
<1>9. ASSUME NEW i \in 1 .. j, NEW x \in 1 .. Len(cs[i].blocks),
             cs[i].blocks[x].id = n + 1, IsVideoKey(cs[i].blocks[x])
      PROVE  \E k \in 0 .. Len(fs) :
               /\ Cut(fs, cs[i].blocks[x].timestamp, k)
               /\ \A y \in k + 1 .. Len(fs) :
                    \E z \in 1 .. Len(cs[i].blocks) : cs[i].blocks[z] = fs[y]
  <2>1. i = j /\ cs[i].blocks[x] = f
    BY <1>6, <1>9
  <2>2. cs[i].blocks = q /\ IsVideoKey(f)
    BY <1>8, <1>9, <2>1
  <2> QED
    BY <1>7, <2>1, <2>2
<1> QED
  BY <1>9 DEF Accompanied, cs, j, fs

(* One more frame in the queue.                                            *)
LEMMA Queued ==
  ASSUME NEW m, NEW n \in Nat, NEW s, Steady(s, m, n), NEW f \in Frame,
         f.id = n + 1, f.track = AudioTrackNumber, Within(s, f, m),
         \A i \in 1 .. Len(s.frames) : s.frames[i].timestamp <= f.timestamp
  PROVE  LET v == [s EXCEPT !.frames = Append(@, f)] IN
         /\ Steady(v, m, n + 1)
         /\ v.frames = Append(s.frames, f) /\ v.clusters = s.clusters
         /\ v.last_timestamp = s.last_timestamp /\ v.seeks = s.seeks
         /\ v.header_written <=> s.header_written
<1> DEFINE fs == s.frames
           q == Append(fs, f)
           v == [s EXCEPT !.frames = q]
           k == Len(fs)
<1>1. /\ Good(s) /\ s.freed = 0 /\ ~s.crashed /\ Closed(s.clusters)
      /\ Lined(s, m) /\ Numbered(fs, n)
      /\ Len(s.clusters) # 0 => LastOpen(s, s.last_timestamp, Bound(m))
  BY DEF Steady
<1>2. /\ s \in SegmentType /\ fs \in Seq(Frame) /\ k \in Nat /\ AudioOnly(fs)
      /\ DOMAIN fs = 1 .. k
  BY <1>1, GoodTypes
<1>3. /\ q \in Seq(Frame) /\ Len(q) = k + 1 /\ q[k + 1] = f
      /\ \A i \in 1 .. k : q[i] = fs[i]
  BY <1>2, AppendProperties
<1>4. DOMAIN q = 1 .. k + 1
  BY <1>3, LenProperties
<1>5. \A i \in 1 .. k : Within(s, fs[i], m)
  BY <1>1 DEF Lined
<1>6. \A i, j \in 1 .. k : i < j => /\ fs[i].timestamp <= fs[j].timestamp
                                    /\ fs[i].id < fs[j].id
  BY <1>1 DEF Lined
<1>7. \A i \in 1 .. k : fs[i].timestamp <= f.timestamp
  OBVIOUS
<1>8. \A i \in 1 .. k : fs[i].id < f.id
  <2>1. ASSUME NEW i \in 1 .. k PROVE fs[i].id < f.id
    <3>1. fs[i].id \in Nat /\ fs[i].id <= n
      BY <1>1, <1>2, FrameAt
    <3> QED
      BY <3>1
  <2> QED
    BY <2>1
<1> HIDE DEF q, fs, k
<1>9. /\ v \in SegmentType /\ v.clusters = s.clusters /\ v.cues = s.cues
      /\ v.frames = q /\ v.freed = s.freed /\ v.seeks = s.seeks
      /\ v.last_timestamp = s.last_timestamp
      /\ v.new_cuepoint <=> s.new_cuepoint
      /\ v.header_written <=> s.header_written
      /\ v.crashed <=> s.crashed
  BY <1>2, <1>3 DEF SegmentType
<1> HIDE DEF v
<1>10. Good(v)
  <2>1. AudioOnly(q)
    <3>1. ASSUME NEW i \in 1 .. k + 1 PROVE q[i].track = AudioTrackNumber
      <4>1. CASE i = k + 1
        BY <1>3, <4>1
      <4>2. CASE i # k + 1
        <5>1. i \in 1 .. k
          BY <1>2, <4>2
        <5> QED
          BY <1>2, <1>3, <5>1 DEF AudioOnly
      <4> QED
        BY <4>1, <4>2
    <3> QED
      BY <1>4, <3>1 DEF AudioOnly
  <2> QED
    BY <1>1, <1>9, <2>1, GoodSame
<1>11. \A i \in 1 .. k + 1 : Within(s, q[i], m)
  <2>1. ASSUME NEW i \in 1 .. k + 1 PROVE Within(s, q[i], m)
    <3>1. CASE i = k + 1
      BY <1>3, <3>1
    <3>2. CASE i # k + 1
      <4>1. i \in 1 .. k
        BY <1>2, <3>2
      <4> QED
        BY <1>3, <1>5, <4>1
    <3> QED
      BY <3>1, <3>2
  <2> QED
    BY <2>1
<1>12. \A i, j \in 1 .. k + 1 :
         i < j => q[i].timestamp <= q[j].timestamp /\ q[i].id < q[j].id
  <2>1. ASSUME NEW i \in 1 .. k + 1, NEW j \in 1 .. k + 1, i < j
        PROVE  q[i].timestamp <= q[j].timestamp /\ q[i].id < q[j].id
    <3>1. i \in 1 .. k
      BY <1>2, <2>1
    <3>2. CASE j = k + 1
      BY <1>3, <1>7, <1>8, <3>1, <3>2 DEF fs, k
    <3>3. CASE j # k + 1
      <4>1. j \in 1 .. k
        BY <1>2, <3>3
      <4> QED
        BY <1>3, <1>6, <2>1, <3>1, <4>1
    <3> QED
      BY <3>2, <3>3
  <2> QED
    BY <2>1
<1>13. Lined(v, m)
  <2>1. \A i \in 1 .. Len(v.frames) : Within(v, v.frames[i], m)
    BY <1>3, <1>9, <1>11 DEF Within
  <2> QED
    BY <1>3, <1>9, <1>12, <2>1 DEF Lined
<1>14. Numbered(q, n + 1)
  BY <1>1, <1>2, NumberedNext DEF q
<1>15. AllNumbered(s.clusters, n + 1)
  BY SteadyLater DEF Steady
<1>16. LastOpen(v, v.last_timestamp, Bound(m))
         <=> LastOpen(s, s.last_timestamp, Bound(m))
  BY <1>9 DEF LastOpen
<1>17. n + 1 \in Nat
  OBVIOUS
<1>18. Steady(v, m, n + 1)
  BY <1>1, <1>9, <1>10, <1>13, <1>14, <1>15, <1>16, <1>17 DEF Steady
<1> QED
  BY <1>9, <1>18 DEF v, q, fs

(* The file and, behind it, the queue.                                     *)
Held(s) == Content(s) \o s.frames

(* What an offered frame makes of a steady segment.                        *)
Offered(s, f, m, n, r) ==
  LET v == r.seg
  IN /\ r.ok <=> f.timestamp >= s.last_timestamp
     /\ Steady(v, m, n + 1) /\ Headed(v) /\ v.header_written
     /\ Held(v) = IF r.ok THEN Append(Held(s), f) ELSE Held(s)
     /\ s.last_timestamp <= v.last_timestamp
     /\ f.track = VideoTrackNumber => f.timestamp <= v.last_timestamp
     /\ \/ v.frames = <<>>
        \/ v.frames = s.frames
        \/ f.track = AudioTrackNumber /\ v.frames = Append(s.frames, f)
     /\ Accompanied(s, v, n)

(* Nothing of the segment, or of what it depends on here, is new.          *)
LEMMA HeldSame ==
  ASSUME NEW s, NEW t, t.clusters = s.clusters, t.frames = s.frames
  PROVE  Held(t) = Held(s)
BY DEF Held, Content

(* Held is a sequence of frames.                                           *)
LEMMA HeldType ==
  ASSUME NEW s, Good(s)
  PROVE  Held(s) \in Seq(Frame) /\ Content(s) \in Seq(Frame)
<1>1. Content(s) \in Seq(Frame) /\ s.frames \in Seq(Frame)
  BY GoodTypes, ContentType
<1> QED
  BY <1>1, ConcatProperties DEF Held

(* A frame offered to a steady segment: refused when it is earlier than    *)
(* the last one written, queued or written.                                *)
LEMMA OfferedSteady ==
  ASSUME NEW m, Roomy(m), NEW n \in Nat, NEW s, Steady(s, m, n), Headed(s),
         NEW f \in Frame, f.valid, f.id = n + 1,
         f.track \in {VideoTrackNumber, AudioTrackNumber},
         f.timestamp <= s.last_timestamp + m,
         f.track = AudioTrackNumber =>
           \A i \in 1 .. Len(s.frames) : s.frames[i].timestamp <= f.timestamp
  PROVE  Offered(s, f, m, n, AddGenericFrame(s, f))
<1> DEFINE h == CheckHeaderInfo(s)
           t == h.seg
           inOrder == /\ f.timestamp >= t.last_timestamp
                      /\ f.track \in {VideoTrackNumber, AudioTrackNumber}
           r == AddGenericFrame(s, f)
<1>1. /\ h.ok /\ Steady(t, m, n) /\ Headed(t) /\ t.header_written
      /\ SameFrames(s, t)
  BY HeaderFits
<1>2. r = CASE ~inOrder -> Refused(t)
            [] inOrder /\ f.track = AudioTrackNumber /\ ~t.force_new_cluster ->
                 Succeeded([t EXCEPT !.frames = Append(@, f)])
            [] OTHER ->
                 Then(DoNewClusterProcessing(t, f), LAMBDA u :
                   Then(WriteBlock(u, f), LAMBDA v :
                     Succeeded([v EXCEPT !.last_timestamp = f.timestamp])))
  BY <1>1 DEF AddGenericFrame, Then
<1> HIDE DEF h, t, r
<1>3. /\ t.clusters = s.clusters /\ t.frames = s.frames
      /\ t.last_timestamp = s.last_timestamp
  BY <1>1 DEF SameFrames
<1>4. /\ Good(t) /\ ~t.crashed /\ t.clusters \in Seq(Cluster)
      /\ t.frames \in Seq(Frame) /\ t.last_timestamp \in Int
      /\ AllNumbered(t.clusters, n)
      /\ f.timestamp \in Int
  BY <1>1, GoodTypes DEF Steady, SegmentType, Frame
<1>5. /\ Held(t) = Held(s) /\ Content(t) = Content(s)
      /\ Content(s) \in Seq(Frame) /\ s.frames \in Seq(Frame)
  <2>1. Content(t) = Content(s)
    BY <1>3 DEF Content
  <2> QED
    BY <1>3, <1>4, <2>1, HeldSame, HeldType
<1>6. CASE ~inOrder
  <2>1. r = Refused(t)
    BY <1>2, <1>6
  <2>2. ~r.ok /\ r.seg = t
    BY <2>1 DEF Refused
  <2>3. ~(f.timestamp >= s.last_timestamp) /\ f.timestamp <= t.last_timestamp
        /\ t.last_timestamp <= t.last_timestamp
    BY <1>3, <1>4, <1>6
  <2>4. Steady(t, m, n + 1)
    BY <1>1, SteadyLater
  <2>5. Accompanied(s, t, n)
    BY <1>4, NoneNext
  <2> QED
    BY <1>1, <1>3, <1>5, <2>2, <2>3, <2>4, <2>5 DEF Offered, r
<1>7. CASE inOrder /\ f.track = AudioTrackNumber /\ ~t.force_new_cluster
  <2> DEFINE v == [t EXCEPT !.frames = Append(@, f)]
  <2>1. r = Succeeded(v)
    BY <1>2, <1>7
  <2>2. Within(t, f, m)
    BY <1>3, <1>4, <1>7 DEF Within
  <2>3. /\ Steady(v, m, n + 1)
        /\ v.frames = Append(t.frames, f) /\ v.clusters = t.clusters
        /\ v.last_timestamp = t.last_timestamp /\ v.seeks = t.seeks
        /\ v.header_written <=> t.header_written
    <3>1. \A i \in 1 .. Len(t.frames) : t.frames[i].timestamp <= f.timestamp
      BY <1>3, <1>7
    <3> HIDE DEF v
    <3> QED
      BY <1>1, <1>7, <2>2, <3>1, Queued DEF v
  <2> HIDE DEF v
  <2>4. r.ok /\ r.seg = v
    BY <2>1 DEF Succeeded
  <2>5. Held(v) = Append(Held(s), f)
    <3>1. Content(v) = Content(s)
      BY <1>3, <2>3 DEF Content
    <3>2. Content(s) \o Append(s.frames, f) = Append(Content(s) \o s.frames, f)
      BY <1>5, ConcatAppend
    <3> QED
      BY <1>3, <2>3, <3>1, <3>2 DEF Held
  <2>6. Accompanied(s, v, n)
    BY <1>4, <2>3, NoneNext
  <2>7. Headed(v) /\ v.header_written
    BY <1>1, <2>3 DEF Headed
  <2>8. f.timestamp >= s.last_timestamp /\ s.last_timestamp <= v.last_timestamp
    BY <1>3, <1>4, <1>7, <2>3
  <2>9. f.track # VideoTrackNumber
    BY <1>7 DEF AudioTrackNumber, VideoTrackNumber
  <2> QED
    BY <1>3, <1>7, <2>3, <2>4, <2>5, <2>6, <2>7, <2>8, <2>9 DEF Offered, r
<1>8. CASE inOrder /\ ~(f.track = AudioTrackNumber /\ ~t.force_new_cluster)
  <2> DEFINE d == DoNewClusterProcessing(t, f)
             w == WriteBlock(d.seg, f)
             u == w.seg
             v == [u EXCEPT !.last_timestamp = f.timestamp]
  <2>1. r = IF d.ok THEN IF w.ok THEN Succeeded(v) ELSE w ELSE d
    BY <1>2, <1>8 DEF Then
  <2>2. Within(t, f, m)
    BY <1>3, <1>4, <1>8 DEF Within
  <2>3. d.ok /\ Filled(t, f, m, n, d.seg)
    BY <1>1, <2>2, SteadyLoop
  <2> HIDE DEF d
  <2>4. w.ok /\ Added(t, f, m, n, u)
    BY <1>4, <2>3, Adds
  <2> HIDE DEF w, u
  <2>5. /\ Steady(v, m, n + 1) /\ v.last_timestamp = f.timestamp
        /\ v.seeks = t.seeks /\ (v.header_written <=> t.header_written)
        /\ v.frames = <<>> /\ v.clusters = u.clusters
    BY <1>4, <2>4, AddedSteady
  <2> HIDE DEF v
  <2>6. r.ok /\ r.seg = v
    BY <2>1, <2>3, <2>4 DEF Succeeded
  <2>7. Held(v) = Append(Held(s), f)
    <3>1. Content(u) = Content(t) \o t.frames \o <<f>>
      BY <2>4 DEF Added
    <3>2. Content(v) = Content(u)
      BY <2>5 DEF Content
    <3>3. Content(v) = Held(s) \o <<f>>
      BY <1>3, <1>5, <3>1, <3>2 DEF Held
    <3>4. Held(v) = Content(v) \o <<>> /\ Good(v)
      BY <2>5 DEF Held, Steady
    <3>5. Held(v) = Content(v)
      BY <3>4, HeldType, ConcatEmptySeq
    <3>6. Held(s) \in Seq(Frame)
      BY <1>4, <1>5, HeldType
    <3>7. Append(Held(s), f) = Held(s) \o <<f>>
      <4> DEFINE b == Held(s)
      <4> HIDE DEF b
      <4>1. b \in Seq(Frame)
        BY <3>6 DEF b
      <4>2. Append(b, f) = b \o <<f>>
        BY <4>1, AppendIsConcat
      <4> QED
        BY <4>2 DEF b
    <3> QED
      BY <3>3, <3>5, <3>7
  <2>8. Accompanied(t, v, n)
    BY <1>4, <2>4, <2>5, AddedNext
  <2>9. Accompanied(s, v, n)
    BY <1>3, <2>8 DEF Accompanied
  <2>10. Headed(v) /\ v.header_written
    BY <1>1, <2>5 DEF Headed
  <2>11. /\ f.timestamp >= s.last_timestamp
         /\ s.last_timestamp <= v.last_timestamp
         /\ f.timestamp <= v.last_timestamp
    BY <1>3, <1>4, <1>8, <2>5
  <2> QED
    BY <2>5, <2>6, <2>7, <2>9, <2>10, <2>11 DEF Offered, r
<1> QED
  BY <1>6, <1>7, <1>8 DEF r

(* What Finalize makes of one: nothing held is lost, and with a cluster    *)
(* and room for one more seek entry it succeeds.                           *)
Finished(s, n, r) ==
  LET v == r.seg
  IN /\ Good(v) /\ v.freed = 0 /\ ~v.crashed
     /\ Held(v) = Held(s)
     /\ r.ok => v.frames = <<>>
     /\ AllNumbered(v.clusters, n)
     /\ Len(s.clusters) # 0 /\ s.header_written /\ Extras # 2 =>
          r.ok /\ AllFinalized(v.clusters)

(* The end of Finalize: the seek entry for the cues, and the header.       *)
SeekTaken(u, sizeMatches) ==
  CASE u.seeks >= kSeekEntryCount -> Refused(u)
    [] u.seeks < kSeekEntryCount /\ ~u.header_written /\ ~sizeMatches ->
         Refused([u EXCEPT !.seeks = @ + 1])
    [] OTHER -> Succeeded([u EXCEPT !.seeks = @ + 1])

(* It touches the entries only, and succeeds when there is one left and    *)
(* the header is written.                                                  *)
LEMMA SeekTakes ==
  ASSUME NEW u, Good(u), NEW sizeMatches \in BOOLEAN
  PROVE  LET r == SeekTaken(u, sizeMatches)
             v == r.seg
         IN /\ r.ok \in BOOLEAN /\ Good(v)
            /\ v.clusters = u.clusters /\ v.frames = u.frames
            /\ v.freed = u.freed /\ (v.crashed <=> u.crashed)
            /\ u.seeks < kSeekEntryCount /\ u.header_written => r.ok
<1> DEFINE r == SeekTaken(u, sizeMatches)
           t == [u EXCEPT !.seeks = @ + 1]
<1>1. u \in SegmentType /\ u.seeks \in Nat /\ u.header_written \in BOOLEAN
      /\ kSeekEntryCount \in Nat
  <2>1. u \in SegmentType
    BY GoodTypes
  <2> QED
    BY <2>1 DEF SegmentType, kSeekEntryCount
<1>2. HeaderOnly(u, t)
  BY SeekAdded
<1>3. t.crashed <=> u.crashed
  BY <1>1 DEF SegmentType
<1> HIDE DEF t
<1>4. r = CASE u.seeks >= kSeekEntryCount -> Refused(u)
            [] u.seeks < kSeekEntryCount /\ ~u.header_written /\ ~sizeMatches ->
                 Refused(t)
            [] OTHER -> Succeeded(t)
  BY DEF SeekTaken, t
<1> HIDE DEF r
<1>5. CASE u.seeks >= kSeekEntryCount
  <2>1. r = Refused(u)
    BY <1>1, <1>4, <1>5
  <2>2. ~r.ok /\ r.seg = u /\ r.ok \in BOOLEAN
    BY <2>1 DEF Refused
  <2>3. ~(u.seeks < kSeekEntryCount)
    BY <1>1, <1>5
  <2> QED
    BY <2>2, <2>3 DEF r
<1>6. CASE u.seeks < kSeekEntryCount /\ ~u.header_written /\ ~sizeMatches
  <2>1. r = Refused(t)
    BY <1>1, <1>4, <1>6
  <2>2. ~r.ok /\ r.seg = t /\ r.ok \in BOOLEAN
    BY <2>1 DEF Refused
  <2> QED
    BY <1>2, <1>3, <1>6, <2>2 DEF HeaderOnly, r
<1>7. CASE u.seeks < kSeekEntryCount /\ ~(~u.header_written /\ ~sizeMatches)
  <2>1. r = Succeeded(t)
    BY <1>1, <1>4, <1>7
  <2>2. r.ok /\ r.seg = t /\ r.ok \in BOOLEAN
    BY <2>1 DEF Succeeded
  <2> QED
    BY <1>2, <1>3, <2>2 DEF HeaderOnly, r
<1>8. u.seeks >= kSeekEntryCount \/ u.seeks < kSeekEntryCount
  BY <1>1
<1> QED
  BY <1>5, <1>6, <1>7, <1>8

(* What Finalize makes of a steady segment.                                *)
LEMMA FinishedSteady ==
  ASSUME NEW m, Roomy(m), NEW n, NEW s, Steady(s, m, n), Headed(s),
         NEW sizeMatches \in BOOLEAN
  PROVE  Finished(s, n, Finalize(s, sizeMatches))
<1> DEFINE w == WriteFramesAll(s)
           t == w.seg
           q == FinalizeCluster(t)
           u == q.seg
           x == SeekTaken(u, sizeMatches)
           v == x.seg
           r == Finalize(s, sizeMatches)
           j == Len(s.clusters)
<1>1. r = IF w.ok THEN IF q.ok THEN x ELSE q ELSE w
  BY DEF Finalize, Then, SeekTaken
<1>2. /\ Good(s) /\ s.freed = 0 /\ ~s.crashed /\ Closed(s.clusters)
      /\ Numbered(s.frames, n) /\ AllNumbered(s.clusters, n)
  BY DEF Steady
<1>3. /\ s.clusters \in Seq(Cluster) /\ j \in Nat
      /\ s.clusters = <<>> <=> j = 0
  BY <1>2, GoodTypes
<1> HIDE DEF r
<1>4. CASE j = 0 /\ s.frames # <<>>
  <2>1. w = Refused(s)
    BY <1>3, <1>4 DEF WriteFramesAll
  <2>2. ~w.ok /\ w.seg = s
    BY <2>1 DEF Refused
  <2> HIDE DEF w
  <2>3. ~r.ok /\ r.seg = s
    BY <1>1, <2>2
  <2> QED
    BY <1>2, <1>4, <2>3 DEF Finished, r
<1>5. CASE j = 0 /\ s.frames = <<>>
  <2>1. w = Succeeded(s)
    BY <1>5 DEF WriteFramesAll
  <2>2. w.ok /\ t = s
    BY <2>1 DEF Succeeded
  <2>3. q = Succeeded(s)
    BY <1>5, <2>2 DEF FinalizeCluster
  <2>4. q.ok /\ u = s
    BY <2>3 DEF Succeeded
  <2> HIDE DEF w, t, q, u
  <2>5. /\ Good(v) /\ v.clusters = s.clusters /\ v.frames = s.frames
        /\ v.freed = s.freed /\ (v.crashed <=> s.crashed)
    <3>1. Good(u)
      BY <1>2, <2>4
    <3>2. /\ Good(v) /\ v.clusters = u.clusters /\ v.frames = u.frames
          /\ v.freed = u.freed /\ (v.crashed <=> u.crashed)
      BY <3>1, SeekTakes
    <3> HIDE DEF x
    <3> QED
      BY <2>4, <3>2
  <2> HIDE DEF x
  <2>6. r = x
    BY <1>1, <2>2, <2>4
  <2>7. Held(v) = Held(s)
    BY <2>5, HeldSame
  <2> QED
    BY <1>2, <1>5, <2>5, <2>6, <2>7 DEF Finished, r
<1>6. CASE j # 0
  <2>1. /\ Rooms(s, s.frames)
        /\ LastOpen(s, s.last_timestamp, Bound(m))
    BY <1>6, SteadyRooms DEF Steady
  <2>2. w.ok /\ Emptied(s, n, t)
    BY <1>2, <1>6, <2>1, Empties
  <2> HIDE DEF w, t
  <2>3. /\ Good(t) /\ t.freed = 0 /\ t.frames = <<>>
        /\ t.seeks = s.seeks
        /\ t.header_written <=> s.header_written
        /\ t.crashed <=> s.crashed
        /\ Len(t.clusters) = j
        /\ Closed(t.clusters) /\ AllNumbered(t.clusters, n)
        /\ Content(t) = Content(s) \o s.frames
        /\ Taken(s.clusters[j], s.frames, t.clusters[j])
    BY <2>2 DEF Emptied
  <2>4. t.clusters[j].header_written /\ ~t.clusters[j].finalized
    BY <2>1, <2>3 DEF LastOpen, Taken
  <2> DEFINE d == u.clusters[j]
  <2>5. /\ q.ok /\ Good(u) /\ SameButClusters(t, u)
        /\ LastReplaced(t.clusters, u.clusters, d)
        /\ d.finalized /\ d.blocks = t.clusters[j].blocks
    BY <1>6, <2>3, <2>4, FinalizeOpen
  <2> HIDE DEF q, u
  <2>6. Content(u) = Held(s)
    <3>1. FlattenSeq(Parts(u.clusters)) = FlattenSeq(Parts(t.clusters))
      BY <2>3, <2>5, ContentFlagged
    <3> QED
      BY <2>3, <3>1 DEF Content, Held
  <2>7. /\ DOMAIN u.clusters = 1 .. j /\ Len(u.clusters) = j
        /\ \A i \in 1 .. j : i # j => u.clusters[i] = t.clusters[i]
        /\ DOMAIN t.clusters = 1 .. j
    BY <2>3, <2>5, ReplacedLast
  <2>8. AllFinalized(u.clusters)
    <3>1. ASSUME NEW i \in 1 .. j PROVE u.clusters[i].finalized
      <4>1. CASE i = j
        BY <2>5, <4>1
      <4>2. CASE i # j
        BY <2>3, <2>7, <4>2 DEF Closed
      <4> QED
        BY <4>1, <4>2
    <3> QED
      BY <2>7, <3>1 DEF AllFinalized
  <2>9. AllNumbered(u.clusters, n)
    <3>1. \A i \in 1 .. j : u.clusters[i].blocks = t.clusters[i].blocks
      BY <2>5, <2>7
    <3> QED
      BY <2>3, <2>7, <3>1 DEF AllNumbered
  <2>10. /\ u.freed = 0 /\ u.seeks = s.seeks /\ u.frames = <<>>
         /\ u.header_written <=> s.header_written
         /\ u.crashed <=> s.crashed
    BY <2>3, <2>5 DEF SameButClusters
  <2>11. /\ Good(v) /\ v.clusters = u.clusters /\ v.frames = u.frames
         /\ v.freed = u.freed /\ (v.crashed <=> u.crashed)
         /\ u.seeks < kSeekEntryCount /\ u.header_written => x.ok
    BY <2>5, SeekTakes
  <2> HIDE DEF x, d
  <2>12. r = x
    BY <1>1, <2>2, <2>5
  <2>13. s.header_written /\ Extras # 2 => x.ok
    <3>1. ASSUME s.header_written, Extras # 2 PROVE u.seeks < kSeekEntryCount
      <4>1. u.seeks = 3 + Extras /\ Extras \in 0 .. 2
        BY <2>10, <3>1, SegmentAssumption DEF Headed
      <4> QED
        BY <3>1, <4>1 DEF kSeekEntryCount
    <3> QED
      BY <2>10, <2>11, <3>1
  <2>14. Held(v) = Held(s)
    <3>1. Content(v) = Held(s) /\ v.frames = <<>>
      BY <2>6, <2>10, <2>11 DEF Content
    <3>2. Content(v) \in Seq(Frame)
      BY <2>11, HeldType
    <3> QED
      BY <3>1, <3>2, ConcatEmptySeq DEF Held
  <2> QED
    BY <1>2, <2>8, <2>9, <2>10, <2>11, <2>12, <2>13, <2>14 DEF Finished, r
<1> QED
  BY <1>4, <1>5, <1>6

-----------------------------------------------------------------------------
(* A client whose tracks keep together. *)

(* Until Finalize was called the segment is steady, no video offered is    *)
(* later than the last frame written and no audio queued later than the    *)
(* last offered.                                                           *)
Going(m) ==
  /\ Steady(segment, m, count) /\ Headed(segment)
  /\ Len(segment.clusters) # 0 => segment.header_written
  /\ offered[VideoTrackNumber] <= segment.last_timestamp
  /\ \A i \in 1 .. Len(segment.frames) :
       segment.frames[i].timestamp <= offered[AudioTrackNumber]

(* File and queue hold what was accepted, in the order it came.            *)
Keeping(m) ==
  /\ IInv
  /\ ~segment.crashed /\ segment.freed = 0
  /\ Held(segment) = accepted
  /\ AllNumbered(segment.clusters, count)
  /\ ~refused
  /\ finished = "ok" => segment.frames = <<>>
  /\ finished = "no" => Going(m)

(* Without clusters there are no blocks.                                   *)
LEMMA NoClusters ==
  ASSUME NEW s, Good(s), Len(s.clusters) = 0
  PROVE  Content(s) = <<>>
<1> DEFINE ps == Parts(s.clusters)
<1>1. ps \in Seq(Seq(Frame)) /\ Len(ps) = 0
  BY GoodTypes, PartsType
<1> HIDE DEF ps
<1>2. ps = <<>>
  BY <1>1, EmptySeq
<1>3. FlattenSeq(ps) = ps
  BY <1>1 DEF FlattenSeq
<1> QED
  BY <1>2, <1>3 DEF Content, ps

(* A new segment is steady.                                                *)
LEMMA InitKeeping ==
  ASSUME NEW m, Gentle(m), Init
  PROVE  Keeping(m)
<1> DEFINE s == NewSegment
<1>1. IInv
  BY InitIInv
<1>2. /\ s.clusters = <<>> /\ s.frames = <<>> /\ s.freed = 0 /\ ~s.crashed
      /\ ~s.header_written /\ s.seeks = 0 /\ s.last_timestamp = 0
  BY DEF NewSegment
<1>3. Good(s)
  BY NewIsGood
<1> HIDE DEF s
<1>4. /\ segment = s /\ accepted = <<>> /\ ~refused /\ finished = "no"
      /\ count = 0 /\ offered[VideoTrackNumber] = 0
  BY DEF Init, s, VideoTrackNumber, AudioTrackNumber
<1>5. Len(s.clusters) = 0 /\ Len(s.frames) = 0 /\ DOMAIN s.clusters = {}
  BY <1>2
<1>6. 1 .. Len(s.clusters) = {} /\ 1 .. Len(s.frames) = {}
  BY <1>5
<1>7. Held(s) = <<>>
  <2>1. Content(s) = <<>>
    BY <1>3, <1>5, NoClusters
  <2>2. <<>> \o <<>> = <<>>
    <3>1. <<>> \in Seq(Frame)
      BY EmptySeq
    <3> QED
      BY <3>1, ConcatEmptySeq
  <2> QED
    BY <1>2, <2>1, <2>2 DEF Held
<1>8. Steady(s, m, 0)
  BY <1>2, <1>3, <1>5, <1>6 DEF Steady, Closed, Lined, Numbered, AllNumbered
<1>9. Going(m) /\ AllNumbered(segment.clusters, count)
  BY <1>2, <1>4, <1>5, <1>6, <1>8 DEF Going, Headed, Steady
<1> QED
  BY <1>1, <1>2, <1>4, <1>7, <1>9 DEF Keeping

(* The frame a track is offered next.                                      *)
NextFrame(track, step, key) ==
  [track |-> track, timestamp |-> offered[track] + step, is_key |-> key,
   valid |-> TRUE, id |-> count + 1]

(* Steps the client may take: video moves on by m at most, audio does not  *)
(* go back.                                                                *)
MayStep(m, track, step) ==
  \/ track = VideoTrackNumber /\ step \in Int /\ step <= m
  \/ track = AudioTrackNumber /\ step \in Nat

(* An offer as the segment sees it.                                        *)
LEMMA OfferIsOffered ==
  ASSUME NEW m, Gentle(m), Keeping(m),
         NEW track \in {VideoTrackNumber, AudioTrackNumber}, NEW step,
         MayStep(m, track, step), NEW key \in BOOLEAN, Offer(track, step, key)
  PROVE  LET f == NextFrame(track, step, key)
         IN /\ f \in Frame
            /\ Offered(segment, f, m, count, AddGenericFrame(segment, f))
<1> DEFINE f == NextFrame(track, step, key)
           ts == offered[track] + step
           other == offered[VideoTrackNumber + AudioTrackNumber - track]
           s == segment
<1>1. /\ IInv /\ Going(m) /\ finished = "no"
  BY DEF Keeping, Offer
<1>2. /\ offered \in [{VideoTrackNumber, AudioTrackNumber} -> Int]
      /\ count \in Nat /\ Good(s) /\ Steady(s, m, count) /\ Headed(s)
      /\ offered[VideoTrackNumber] <= s.last_timestamp
      /\ \A i \in 1 .. Len(s.frames) :
           s.frames[i].timestamp <= offered[AudioTrackNumber]
  BY <1>1 DEF IInv, Going
<1>3. step \in Int /\ ts \in Int /\ m \in Nat /\ Roomy(m)
  BY <1>2 DEF MayStep, Gentle, Roomy
<1>4. /\ f.track = track /\ f.timestamp = ts /\ f.valid /\ f.id = count + 1
      /\ f \in Frame
  <2> HIDE DEF ts
  <2>1. f = [track |-> track, timestamp |-> ts, is_key |-> key,
             valid |-> TRUE, id |-> count + 1]
    BY DEF NextFrame, ts
  <2> HIDE DEF f
  <2> QED
    BY <1>2, <1>3, <2>1 DEF Frame, VideoTrackNumber, AudioTrackNumber
<1>5. ts <= s.last_timestamp + m
  <2>1. s.last_timestamp \in Int
    BY <1>2, GoodTypes DEF SegmentType
  <2>2. CASE track = VideoTrackNumber
    <3>1. step <= m
      BY <2>2 DEF MayStep, VideoTrackNumber, AudioTrackNumber
    <3>2. offered[VideoTrackNumber] \in Int
      BY <1>2
    <3> QED
      BY <1>2, <1>3, <2>1, <2>2, <3>1, <3>2
  <2>3. CASE track = AudioTrackNumber
    <3>1. ts - other <= MaxSkew
      BY DEF Offer
    <3>2. other = offered[VideoTrackNumber]
      BY <2>3 DEF VideoTrackNumber, AudioTrackNumber
    <3>3. offered[VideoTrackNumber] \in Int /\ MaxSkew \in Nat /\ MaxSkew <= m
      BY <1>2, ClientAssumption DEF Gentle
    <3> DEFINE x == offered[VideoTrackNumber]
               l == s.last_timestamp
    <3>4. x \in Int /\ x <= l /\ l \in Int /\ ts - x <= MaxSkew
      BY <1>2, <2>1, <3>1, <3>2, <3>3
    <3> HIDE DEF x, l, ts
    <3>5. ts <= l + m
      BY <1>3, <3>3, <3>4
    <3> QED
      BY <3>5 DEF l
  <2> QED
    BY <2>2, <2>3
<1>6. ASSUME track = AudioTrackNumber
      PROVE  \A i \in 1 .. Len(s.frames) : s.frames[i].timestamp <= ts
  <2>1. step \in Nat /\ offered[AudioTrackNumber] \in Int
    BY <1>2, <1>6 DEF MayStep, VideoTrackNumber, AudioTrackNumber
  <2>2. ASSUME NEW i \in 1 .. Len(s.frames) PROVE s.frames[i].timestamp <= ts
    <3>1. s.frames[i].timestamp <= offered[AudioTrackNumber]
      BY <1>2
    <3>2. s.frames[i].timestamp \in Int
      <4>1. s.frames \in Seq(Frame)
        BY <1>2, GoodTypes
      <4>2. s.frames[i] \in Frame
        BY <4>1, FrameAt
      <4> QED
        BY <4>2 DEF Frame
    <3> QED
      BY <1>3, <1>6, <2>1, <3>1, <3>2
  <2> QED
    BY <2>2
<1> HIDE DEF f, ts, s
<1>7. Offered(s, f, m, count, AddGenericFrame(s, f))
  BY <1>2, <1>3, <1>4, <1>5, <1>6, OfferedSteady
<1> QED
  BY <1>4, <1>7 DEF f, s

(* It keeps the client's invariant.                                        *)
LEMMA OfferKeeping ==
  ASSUME NEW m, Gentle(m), Keeping(m),
         NEW track \in {VideoTrackNumber, AudioTrackNumber}, NEW step,
         MayStep(m, track, step), NEW key \in BOOLEAN, Offer(track, step, key)
  PROVE  Keeping(m)' /\ Accompanied(segment, segment', count)
<1> DEFINE f == NextFrame(track, step, key)
           r == AddGenericFrame(segment, f)
           ts == offered[track] + step
<1>1. f \in Frame /\ Offered(segment, f, m, count, r)
  BY OfferIsOffered
<1>2. /\ segment' = r.seg
      /\ offered' = [offered EXCEPT ![track] = ts]
      /\ count' = count + 1
      /\ accepted' = IF r.ok THEN Append(accepted, f) ELSE accepted
      /\ refused' = (refused \/ (~r.ok /\ ts >= segment.last_timestamp))
      /\ finished' = finished /\ finished = "no" /\ ts >= 0
  BY DEF Offer, NextFrame
<1>3. /\ IInv /\ Going(m) /\ ~refused /\ Held(segment) = accepted
      /\ f.timestamp = ts /\ f.track = track
  BY <1>2 DEF Keeping, NextFrame
<1> HIDE DEF f, r
<1>4. /\ r.ok <=> ts >= segment.last_timestamp
      /\ Steady(segment', m, count + 1) /\ Headed(segment')
      /\ segment'.header_written
      /\ Held(segment') = IF r.ok THEN Append(Held(segment), f)
                                  ELSE Held(segment)
      /\ segment.last_timestamp <= segment'.last_timestamp
      /\ track = VideoTrackNumber => ts <= segment'.last_timestamp
      /\ \/ segment'.frames = <<>>
         \/ segment'.frames = segment.frames
         \/ track = AudioTrackNumber /\ segment'.frames = Append(segment.frames, f)
      /\ Accompanied(segment, segment', count)
  BY <1>1, <1>2, <1>3 DEF Offered
<1>5. /\ offered \in [{VideoTrackNumber, AudioTrackNumber} -> Int]
      /\ step \in Int /\ ts \in Int /\ Good(segment) /\ count \in Nat
      /\ segment.frames \in Seq(Frame) /\ segment.last_timestamp \in Int
      /\ segment'.last_timestamp \in Int
  <2>1. /\ offered \in [{VideoTrackNumber, AudioTrackNumber} -> Int]
        /\ Good(segment) /\ Good(segment') /\ count \in Nat
    BY <1>3, <1>4 DEF IInv, Steady
  <2> QED
    BY <2>1, GoodTypes DEF MayStep, SegmentType
<1>6. IInv'
  <2>1. offered' \in [{VideoTrackNumber, AudioTrackNumber} -> Int]
    BY <1>2, <1>5
  <2>2. Good(segment') /\ count' \in Nat
    BY <1>2, <1>4, <1>5 DEF Steady
  <2> QED
    BY <2>1, <2>2 DEF IInv
<1>7. Held(segment') = accepted'
  BY <1>2, <1>3, <1>4
<1>8. ~refused'
  BY <1>2, <1>3, <1>4
<1>9. offered'[VideoTrackNumber] <= segment'.last_timestamp
  <2>1. CASE track = VideoTrackNumber
    <3>1. offered'[VideoTrackNumber] = ts
      BY <1>2, <1>5, <2>1
    <3> QED
      BY <1>4, <2>1, <3>1
  <2>2. CASE track # VideoTrackNumber
    <3>1. offered'[VideoTrackNumber] = offered[VideoTrackNumber]
      BY <1>2, <1>5, <2>2
    <3>2. offered[VideoTrackNumber] <= segment.last_timestamp
          /\ offered[VideoTrackNumber] \in Int
      BY <1>3, <1>5 DEF Going
    <3> QED
      BY <1>4, <1>5, <3>1, <3>2
  <2> QED
    BY <2>1, <2>2
<1>10. \A i \in 1 .. Len(segment'.frames) :
         segment'.frames[i].timestamp <= offered'[AudioTrackNumber]
  <2>1. /\ offered[AudioTrackNumber] \in Int
        /\ offered'[AudioTrackNumber] \in Int
        /\ offered[AudioTrackNumber] <= offered'[AudioTrackNumber]
        /\ track = AudioTrackNumber => offered'[AudioTrackNumber] = ts
    <3>1. CASE track = AudioTrackNumber
      <4>1. step \in Nat
        BY <3>1 DEF MayStep, VideoTrackNumber, AudioTrackNumber
      <4>2. offered'[AudioTrackNumber] = ts /\ offered[AudioTrackNumber] \in Int
        BY <1>2, <1>5, <3>1
      <4> QED
        BY <3>1, <4>1, <4>2
    <3>2. CASE track # AudioTrackNumber
      <4>1. offered'[AudioTrackNumber] = offered[AudioTrackNumber]
            /\ offered[AudioTrackNumber] \in Int
        BY <1>2, <1>5, <3>2
      <4> QED
        BY <3>2, <4>1
    <3> QED
      BY <3>1, <3>2
  <2>2. ASSUME NEW i \in 1 .. Len(segment.frames)
        PROVE  segment.frames[i].timestamp <= offered'[AudioTrackNumber]
    <3>1. segment.frames[i].timestamp <= offered[AudioTrackNumber]
      BY <1>3 DEF Going
    <3>2. segment.frames[i] \in Frame
      BY <1>5, FrameAt
    <3>3. segment.frames[i].timestamp \in Int
      BY <3>2 DEF Frame
    <3> QED
      BY <2>1, <3>1, <3>3
  <2>3. CASE segment'.frames = <<>>
    <3>1. Len(segment'.frames) = 0
      BY <2>3
    <3> QED
      BY <3>1
  <2>4. CASE segment'.frames = segment.frames
    BY <2>2, <2>4
  <2>5. CASE track = AudioTrackNumber /\ segment'.frames = Append(segment.frames, f)
    <3> DEFINE fs == segment.frames
               q == Append(fs, f)
    <3>1. /\ Len(q) = Len(fs) + 1 /\ q[Len(fs) + 1] = f /\ Len(fs) \in Nat
          /\ \A i \in 1 .. Len(fs) : q[i] = fs[i]
      BY <1>1, <1>5, AppendProperties, LenProperties
    <3>2. offered'[AudioTrackNumber] = f.timestamp
      BY <1>3, <2>1, <2>5
    <3> HIDE DEF q, fs
    <3>3. ASSUME NEW i \in 1 .. Len(q)
          PROVE  q[i].timestamp <= offered'[AudioTrackNumber]
      <4>1. CASE i = Len(fs) + 1
        BY <1>3, <1>5, <3>1, <3>2, <4>1
      <4>2. CASE i # Len(fs) + 1
        <5>1. i \in 1 .. Len(fs)
          BY <3>1, <4>2
        <5> QED
          BY <2>2, <3>1, <5>1 DEF fs
      <4> QED
        BY <4>1, <4>2
    <3> QED
      BY <2>5, <3>3 DEF q, fs
  <2> QED
    BY <1>4, <2>3, <2>4, <2>5
<1>11. Going(m)'
  BY <1>2, <1>4, <1>9, <1>10 DEF Going
<1>12. /\ ~segment'.crashed /\ segment'.freed = 0
       /\ AllNumbered(segment'.clusters, count')
       /\ finished' # "ok"
  BY <1>2, <1>4 DEF Steady
<1>13. Keeping(m)'
  BY <1>6, <1>7, <1>8, <1>11, <1>12 DEF Keeping
<1> QED
  BY <1>4, <1>13

(* A cluster asked for is made later.                                      *)
LEMMA ForceKeeping ==
  ASSUME NEW m, Gentle(m), Keeping(m), ForceNewCluster
  PROVE  /\ Keeping(m)' /\ AllNumbered(segment'.clusters, count)
         /\ finished' = finished
<1> DEFINE t == [segment EXCEPT !.force_new_cluster = TRUE]
<1>1. /\ segment' = t /\ finished = "no"
      /\ offered' = offered /\ count' = count /\ accepted' = accepted
      /\ refused' = refused /\ finished' = finished
  BY DEF ForceNewCluster, ForceNewClusterOnNextFrame
<1>2. /\ IInv /\ Going(m) /\ ~refused /\ Held(segment) = accepted
  BY <1>1 DEF Keeping
<1>3. Steady(segment, m, count)
  BY <1>2 DEF Going
<1>4. /\ Steady(t, m, count)
      /\ t.clusters = segment.clusters /\ t.frames = segment.frames
      /\ t.seeks = segment.seeks
      /\ t.last_timestamp = segment.last_timestamp
      /\ t.header_written <=> segment.header_written
      /\ t.crashed <=> segment.crashed
  <2>1. ASSUME NEW b \in BOOLEAN
        PROVE  LET u == [segment EXCEPT !.force_new_cluster = b] IN
               /\ Steady(u, m, count)
               /\ u.clusters = segment.clusters
               /\ u.frames = segment.frames /\ u.seeks = segment.seeks
               /\ u.last_timestamp = segment.last_timestamp
               /\ u.header_written <=> segment.header_written
               /\ u.crashed <=> segment.crashed
    BY <1>3, SteadyUnforced
  <2> QED
    BY <2>1
<1> HIDE DEF t
<1>5. Going(m)'
  BY <1>1, <1>2, <1>4 DEF Going, Headed
<1>6. IInv'
  BY <1>1, <1>2, <1>4 DEF IInv, Steady
<1>7. Held(t) = Held(segment)
  BY <1>4, HeldSame
<1>8. /\ ~t.crashed /\ t.freed = 0 /\ AllNumbered(t.clusters, count)
  BY <1>4 DEF Steady
<1>9. Keeping(m)'
  BY <1>1, <1>2, <1>5, <1>6, <1>7, <1>8 DEF Keeping
<1> QED
  BY <1>1, <1>8, <1>9

(* Finalize loses nothing.                                                 *)
LEMMA FinishKeeping ==
  ASSUME NEW m, Gentle(m), Keeping(m), Finish
  PROVE  /\ Keeping(m)' /\ AllNumbered(segment'.clusters, count)
         /\ accepted' = accepted
         /\ Len(segment.clusters) # 0 /\ Extras # 2 =>
              finished' = "ok" /\ AllFinalized(segment'.clusters)
<1>1. PICK sizeMatches \in BOOLEAN :
        /\ segment' = Finalize(segment, sizeMatches).seg
        /\ finished' = IF Finalize(segment, sizeMatches).ok
                       THEN "ok" ELSE "failed"
  BY DEF Finish
<1>2. /\ finished = "no"
      /\ offered' = offered /\ count' = count /\ accepted' = accepted
      /\ refused' = refused
  BY DEF Finish
<1>3. /\ IInv /\ Going(m) /\ ~refused /\ Held(segment) = accepted
  BY <1>2 DEF Keeping
<1> DEFINE r == Finalize(segment, sizeMatches)
<1>4. Finished(segment, count, r)
  <2>1. Steady(segment, m, count) /\ Headed(segment) /\ Roomy(m)
    BY <1>3 DEF Going, Gentle
  <2> QED
    BY <2>1, FinishedSteady
<1>5. segment' = r.seg /\ finished' = IF r.ok THEN "ok" ELSE "failed"
  BY <1>1
<1> HIDE DEF r
<1>6. /\ Good(segment') /\ segment'.freed = 0 /\ ~segment'.crashed
      /\ Held(segment') = Held(segment)
      /\ r.ok => segment'.frames = <<>>
      /\ AllNumbered(segment'.clusters, count)
      /\ Len(segment.clusters) # 0 /\ segment.header_written /\ Extras # 2 =>
           r.ok /\ AllFinalized(segment'.clusters)
  BY <1>4, <1>5 DEF Finished
<1>7. finished' # "no" /\ (finished' = "ok" => r.ok) /\ (r.ok => finished' = "ok")
  BY <1>5
<1>8. IInv'
  BY <1>2, <1>3, <1>6 DEF IInv
<1>9. Keeping(m)'
  BY <1>2, <1>3, <1>6, <1>7, <1>8 DEF Keeping
<1>10. Len(segment.clusters) # 0 => segment.header_written
  BY <1>3 DEF Going
<1> QED
  BY <1>2, <1>6, <1>7, <1>9, <1>10

(* Every step keeps it; only Finish ends, and only an offer brings a frame *)
(* with a new number.                                                      *)
LEMMA StepKeeping ==
  ASSUME NEW m, Gentle(m), Keeping(m), [Next]_vars
  PROVE  /\ Keeping(m)'
         /\ finished' # finished => Finish
         /\ \/ AllNumbered(segment'.clusters, count)
            \/ finished = "no" /\ Accompanied(segment, segment', count)
<1>1. CASE OfferVideo
  <2>1. PICK step \in VideoSteps, key \in BOOLEAN :
          Offer(VideoTrackNumber, step, key)
    BY <1>1 DEF OfferVideo
  <2>2. MayStep(m, VideoTrackNumber, step)
    BY ClientAssumption DEF MayStep, Gentle
  <2>3. Keeping(m)' /\ Accompanied(segment, segment', count)
    BY <2>1, <2>2, OfferKeeping
  <2>4. finished' = finished /\ finished = "no"
    BY <2>1 DEF Offer
  <2> QED
    BY <2>3, <2>4
<1>2. CASE OfferAudio
  <2>1. PICK step \in AudioSteps : Offer(AudioTrackNumber, step, TRUE)
    BY <1>2 DEF OfferAudio
  <2>2. MayStep(m, AudioTrackNumber, step)
    BY DEF MayStep, Gentle
  <2>3. Keeping(m)' /\ Accompanied(segment, segment', count)
    BY <2>1, <2>2, OfferKeeping
  <2>4. finished' = finished /\ finished = "no"
    BY <2>1 DEF Offer
  <2> QED
    BY <2>3, <2>4
<1>3. CASE ForceNewCluster
  BY <1>3, ForceKeeping
<1>4. CASE Finish
  BY <1>4, FinishKeeping
<1>5. CASE UNCHANGED vars
  BY <1>5 DEF vars, Keeping, IInv, Going
<1> QED
  BY <1>1, <1>2, <1>3, <1>4, <1>5 DEF Next

(* So it always holds.                                                     *)
LEMMA AlwaysKeeping ==
  ASSUME NEW m, Gentle(m)
  PROVE  Spec => []Keeping(m)
<1>1. Init => Keeping(m)
  BY InitKeeping
<1>2. Keeping(m) /\ [Next]_vars => Keeping(m)'
  BY StepKeeping
<1> QED
  BY <1>1, <1>2, PTL DEF Spec

(* The file as Segment_proofs has it.                                      *)
LEMMA FileIsContent ==
  ASSUME NEW s
  PROVE  File(s) = Content(s)
BY DEF File, Content, Parts

(* What is held is what is kept.                                           *)
LEMMA KeepingKept ==
  ASSUME NEW m, Keeping(m)
  PROVE  AcceptedIsKept /\ FrameInOrderIsWritten
<1>1. File(segment) \o segment.frames = accepted
  BY FileIsContent DEF Keeping, Held
<1> QED
  BY <1>1 DEF Keeping, AcceptedIsKept, FrameInOrderIsWritten

(* Nothing is lost: what AddGenericFrame said it took from two tracks that *)
(* keep together is in the file or waits in the queue, once each, and a    *)
(* Finalize that succeeds leaves nothing in the queue.  None of the loops  *)
(* that write queued audio meets a block its cluster refuses, where        *)
(* WriteFramesAll drops the frames behind it and WriteFramesLessThan frees *)
(* what it wrote and keeps the pointers.                                   *)
THEOREM NothingLost ==
  ASSUME NEW m, Gentle(m)
  PROVE  Spec => []AcceptedIsKept
<1>1. Keeping(m) => AcceptedIsKept
  BY KeepingKept
<1>2. Spec => []Keeping(m)
  BY AlwaysKeeping
<1> QED
  BY <1>1, <1>2, PTL

(* TestFrame's answers are the ones its comment lists: of two tracks that  *)
(* keep together AddGenericFrame refuses no frame that is not earlier than *)
(* the last one written, and the loop around TestFrame never answers -1.   *)
THEOREM InOrderIsWritten ==
  ASSUME NEW m, Gentle(m)
  PROVE  Spec => []FrameInOrderIsWritten
<1>1. Keeping(m) => FrameInOrderIsWritten
  BY KeepingKept
<1>2. Spec => []Keeping(m)
  BY AlwaysKeeping
<1> QED
  BY <1>1, <1>2, PTL

(* A video frame accepted is in a cluster: the queue holds audio only.     *)
LEMMA VideoHasCluster ==
  ASSUME NEW m, Keeping(m), NEW f \in ToSet(accepted),
         f.track = VideoTrackNumber
  PROVE  Len(segment.clusters) # 0
<1> SUFFICES ASSUME Len(segment.clusters) = 0 PROVE FALSE
  OBVIOUS
<1>1. Good(segment) /\ accepted = Content(segment) \o segment.frames
  BY DEF Keeping, IInv, Held
<1>2. /\ segment.frames \in Seq(Frame) /\ AudioOnly(segment.frames)
      /\ Content(segment) = <<>>
  BY <1>1, GoodTypes, NoClusters
<1>3. accepted = segment.frames
  BY <1>1, <1>2, ConcatEmptySeq
<1>4. PICK i \in DOMAIN segment.frames : f = segment.frames[i]
  BY <1>3 DEF ToSet
<1> QED
  BY <1>2, <1>4 DEF AudioOnly, AudioTrackNumber, VideoTrackNumber

(* Finalize succeeds once a video frame of two tracks that keep together   *)
(* was accepted, and writes the size of every cluster.  The seek entry for *)
(* the cues has to be left: with chapters and tags both (Extras = 2) the   *)
(* header takes all five, and Finalize returns false at the last.          *)
THEOREM VideoFinishes ==
  ASSUME NEW m, Gentle(m), Extras # 2
  PROVE  Spec => VideoCanBeFinished
<1> DEFINE Ends ==
      (finished # finished' /\ \E f \in ToSet(accepted) : f.track = VideoTrackNumber)
       => /\ finished' = "ok"
          /\ \A c \in ToSet(segment'.clusters) : c.finalized
<1>1. Keeping(m) /\ [Next]_vars => Ends
  <2> SUFFICES ASSUME Keeping(m), [Next]_vars, finished # finished',
                      NEW f \in ToSet(accepted), f.track = VideoTrackNumber
               PROVE  /\ finished' = "ok"
                      /\ \A c \in ToSet(segment'.clusters) : c.finalized
    OBVIOUS
  <2>1. Finish
    BY StepKeeping
  <2>2. Len(segment.clusters) # 0
    BY VideoHasCluster
  <2>3. finished' = "ok" /\ AllFinalized(segment'.clusters)
    BY <2>1, <2>2, FinishKeeping
  <2> QED
    BY <2>3 DEF AllFinalized, ToSet
<1>2. Spec => []Keeping(m)
  BY AlwaysKeeping
<1> QED
  BY <1>1, <1>2, PTL DEF Spec, VideoCanBeFinished

(* The last of a queue in order that is not later than timestamp, when one *)
(* is: those that are not later are the first up to it.                    *)
LEMMA LastEarly ==
  ASSUME NEW fs \in Seq(Frame), NEW timestamp \in Int,
         \A i, j \in 1 .. Len(fs) :
           i < j => fs[i].timestamp <= fs[j].timestamp,
         NEW a \in 1 .. Len(fs), fs[a].timestamp <= timestamp
  PROVE  \E e \in 1 .. Len(fs) :
           \A i \in 1 .. Len(fs) : fs[i].timestamp <= timestamp <=> i <= e
<1> DEFINE n == Len(fs)
           Late == {i \in 1 .. n + 1 : i <= n => fs[i].timestamp > timestamp}
           l == Min(Late)
<1>1. n \in Nat /\ \A i \in 1 .. n : fs[i].timestamp \in Int
  <2>1. \A i \in 1 .. n : fs[i] \in Frame
    BY FrameAt
  <2> QED
    BY <2>1, LenProperties DEF Frame
<1>2. Late \subseteq Nat /\ n + 1 \in Late
  BY <1>1
<1>3. l \in Late /\ \A i \in Late : l <= i
  <2> HIDE DEF Late
  <2> QED
    BY <1>2, MinIn
<1> HIDE DEF n, l
<1>4. l \in 1 .. n + 1 /\ (l <= n => fs[l].timestamp > timestamp)
  BY <1>3
<1>5. ASSUME NEW i \in 1 .. n, i < l PROVE fs[i].timestamp <= timestamp
  <2>1. i \notin Late
    BY <1>1, <1>3, <1>4, <1>5
  <2> QED
    BY <1>1, <2>1
<1>6. ASSUME NEW i \in 1 .. n, l <= i PROVE ~(fs[i].timestamp <= timestamp)
  <2>1. l \in 1 .. n /\ fs[l].timestamp > timestamp
    BY <1>1, <1>4, <1>6
  <2>2. fs[l].timestamp <= fs[i].timestamp
    <3>1. CASE l = i
      BY <1>1, <3>1
    <3>2. CASE l # i
      BY <1>1, <1>6, <2>1, <3>2 DEF n
    <3> QED
      BY <3>1, <3>2
  <2> QED
    BY <1>1, <2>1, <2>2
<1>7. a \in 1 .. n /\ a < l
  <2>1. a \in 1 .. n
    BY DEF n
  <2> QED
    BY <1>1, <1>4, <1>6, <2>1
<1>8. l - 1 \in 1 .. n
  BY <1>1, <1>4, <1>7
<1>9. ASSUME NEW i \in 1 .. n
      PROVE  fs[i].timestamp <= timestamp <=> i <= l - 1
  <2>1. CASE i < l
    BY <1>1, <1>4, <1>5, <2>1
  <2>2. CASE l <= i
    BY <1>1, <1>4, <1>6, <2>2
  <2> QED
    BY <1>1, <1>4, <2>1, <2>2
<1> QED
  BY <1>8, <1>9 DEF n

(* Then the last of the queue that is not later than the key frame is in   *)
(* the key frame's cluster.                                                *)
LEMMA LastAccompanies ==
  ASSUME NEW fs \in Seq(Frame), NEW key \in Frame, NEW bs,
         \A i, j \in 1 .. Len(fs) :
           i < j => /\ fs[i].timestamp <= fs[j].timestamp
                    /\ fs[i].id < fs[j].id,
         NEW k \in 0 .. Len(fs), Cut(fs, key.timestamp, k),
         \A y \in k + 1 .. Len(fs) : \E z \in 1 .. Len(bs) : bs[z] = fs[y],
         DOMAIN bs = 1 .. Len(bs)
  PROVE  LET early == {f \in ToSet(fs) : f.timestamp <= key.timestamp}
         IN early # {} =>
              \E a \in ToSet(bs) : a \in early /\ \A f \in early : f.id <= a.id
<1> DEFINE early == {f \in ToSet(fs) : f.timestamp <= key.timestamp}
           n == Len(fs)
<1> SUFFICES ASSUME early # {}
             PROVE  \E a \in ToSet(bs) :
                      a \in early /\ \A f \in early : f.id <= a.id
  OBVIOUS
<1>1. DOMAIN fs = 1 .. n /\ n \in Nat /\ key.timestamp \in Int
  BY LenProperties DEF Frame
<1>2. PICK h \in 1 .. n : fs[h].timestamp <= key.timestamp
  BY <1>1 DEF ToSet
<1>3. PICK e \in 1 .. n :
        \A i \in 1 .. n : fs[i].timestamp <= key.timestamp <=> i <= e
  BY <1>1, <1>2, LastEarly
<1>4. e \in k + 1 .. n
  <2>1. CASE k = 0
    BY <1>1, <2>1
  <2>2. CASE k # 0
    <3>1. k + 1 \in 1 .. n /\ fs[k + 1].timestamp <= key.timestamp
      BY <1>1, <2>2 DEF Cut
    <3> QED
      BY <1>1, <1>3, <3>1
  <2> QED
    BY <2>1, <2>2
<1>5. PICK z \in 1 .. Len(bs) : bs[z] = fs[e]
  BY <1>4
<1>6. fs[e] \in ToSet(bs)
  BY <1>5 DEF ToSet
<1>7. fs[e] \in early
  <2>1. fs[e].timestamp <= key.timestamp
    BY <1>1, <1>3
  <2>2. fs[e] \in ToSet(fs)
    BY <1>1 DEF ToSet
  <2> QED
    BY <2>1, <2>2
<1>8. ASSUME NEW f \in early PROVE f.id <= fs[e].id
  <2>1. PICK i \in 1 .. n : f = fs[i]
    BY <1>1 DEF ToSet
  <2>2. i <= e
    BY <1>3, <2>1
  <2>3. fs[i].id \in Nat /\ fs[e].id \in Nat
    BY FrameAt
  <2>4. CASE i = e
    BY <2>1, <2>3, <2>4
  <2>5. CASE i # e
    BY <1>1, <2>1, <2>2, <2>3, <2>5
  <2> QED
    BY <2>4, <2>5
<1> QED
  BY <1>6, <1>7, <1>8

(* The step that writes a key frame.                                       *)
LEMMA KeepingAudio ==
  ASSUME NEW m, Gentle(m), Keeping(m), [Next]_vars,
         NEW c \in ToSet(segment'.clusters), NEW k \in VideoBlocks(c),
         c.blocks[k].is_key, c.blocks[k].id = count + 1
  PROVE  LET early == {f \in ToSet(segment.frames) :
                         f.timestamp <= c.blocks[k].timestamp}
         IN early # {} =>
              \E a \in ToSet(c.blocks) :
                a \in early /\ \A f \in early : f.id <= a.id
<1> DEFINE key == c.blocks[k]
           cs == segment'.clusters
<1>1. /\ Keeping(m)' /\ count \in Nat
      /\ \/ AllNumbered(cs, count)
         \/ finished = "no" /\ Accompanied(segment, segment', count)
  BY StepKeeping DEF Keeping, IInv
<1>2. cs \in Seq(Cluster)
  <2>1. Good(segment')
    BY <1>1 DEF Keeping, IInv
  <2> QED
    BY <2>1, GoodTypes
<1>3. PICK i \in 1 .. Len(cs) : c = cs[i]
  <2>1. DOMAIN cs = 1 .. Len(cs)
    BY <1>2, LenProperties
  <2> QED
    BY <2>1 DEF ToSet
<1>4. /\ c.blocks \in Seq(Frame) /\ DOMAIN c.blocks = 1 .. Len(c.blocks)
      /\ k \in 1 .. Len(c.blocks)
  <2>1. c.blocks \in Seq(Frame)
    BY <1>2, <1>3, BlocksAt
  <2> QED
    BY <2>1, LenProperties DEF VideoBlocks
<1>5. key \in Frame /\ IsVideoKey(key)
  BY <1>4, FrameAt DEF VideoBlocks, IsVideoKey
<1>6. CASE AllNumbered(cs, count)
  <2>1. Numbered(c.blocks, count)
    BY <1>3, <1>6 DEF AllNumbered
  <2>2. key.id <= count /\ key.id \in Nat
    BY <1>4, <2>1, FrameAt
  <2> QED
    BY <1>1, <2>2
<1>7. CASE finished = "no" /\ Accompanied(segment, segment', count)
  <2>1. Good(segment) /\ Lined(segment, m)
    BY <1>7 DEF Keeping, Going, Steady
  <2>2. segment.frames \in Seq(Frame)
    BY <2>1, GoodTypes
  <2>3. PICK x \in 0 .. Len(segment.frames) :
          /\ Cut(segment.frames, key.timestamp, x)
          /\ \A y \in x + 1 .. Len(segment.frames) :
               \E z \in 1 .. Len(c.blocks) : c.blocks[z] = segment.frames[y]
    BY <1>3, <1>4, <1>5, <1>7 DEF Accompanied
  <2>4. \A a, b \in 1 .. Len(segment.frames) :
          a < b => /\ segment.frames[a].timestamp <= segment.frames[b].timestamp
                   /\ segment.frames[a].id < segment.frames[b].id
    BY <2>1 DEF Lined
  <2> HIDE DEF key
  <2> DEFINE early == {f \in ToSet(segment.frames) :
                         f.timestamp <= key.timestamp}
  <2>5. early # {} =>
          \E a \in ToSet(c.blocks) :
            a \in early /\ \A f \in early : f.id <= a.id
    BY <1>4, <1>5, <2>2, <2>3, <2>4, LastAccompanies
  <2> QED
    BY <2>5 DEF key
<1> QED
  BY <1>1, <1>6, <1>7

(* The audio of a key frame's time is in its cluster: of what is queued    *)
(* when the key frame of two tracks that keep together is written, the     *)
(* last frame not later than it goes behind the new cluster's header, as   *)
(* WriteFramesLessThan leaves one and the key frame's own loop writes it.  *)
THEOREM AudioFollowsKeyFrame ==
  ASSUME NEW m, Gentle(m)
  PROVE  Spec => AudioWithKeyFrame
<1>1. Keeping(m) /\ [Next]_vars =>
        \A c \in ToSet(segment'.clusters) : \A k \in VideoBlocks(c) :
          LET key == c.blocks[k]
              early == {f \in ToSet(segment.frames) :
                          f.timestamp <= key.timestamp}
          IN (key.is_key /\ key.id = count + 1 /\ early # {}) =>
               \E a \in ToSet(c.blocks) :
                 /\ a \in early
                 /\ \A f \in early : f.id <= a.id
  BY KeepingAudio
<1>2. Spec => []Keeping(m)
  BY AlwaysKeeping
<1> QED
  BY <1>1, <1>2, PTL DEF Spec, AudioWithKeyFrame
=============================================================================
