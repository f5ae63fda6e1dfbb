------------------------------ MODULE MkvReading ------------------------------
(* How a WebM file is read while it grows (src/src/libwebm/mkvparser.cpp): the
   loading of clusters in the order of the file, the preloading of clusters that
   are looked for out of order, and the search for blocks.

   seg.clusters holds the loaded clusters first, seg.loaded of them, and after
   them the preloaded ones, whose index is -1; all by position.  While the last
   loaded cluster has no known end, unknown is its place and pos is negative.
   Times are given as timecodes.  A search that gives up after 100 clusters does
   not occur: the files here have fewer.  *)
EXTENDS MkvParser

Again == Ends("again")

(* A failed assertion, which stops the program: the build keeps them.  *)
Aborted == Ends("abort")

(* The result of a method of a segment, and the segment it leaves.  *)
With(result, seg) == [result |-> result, seg |-> seg]

-----------------------------------------------------------------------------
(* The array of clusters. *)

(* The bisection that three methods repeat: the first of the places from i to
   j - 1 (from 0) whose cluster is not before start.  *)
RECURSIVE Bisect(_, _, _, _)
Bisect(clusters, i, j, start) ==
  LET k == i + (j - i) \div 2
      at == clusters[k + 1].element_start
  IN IF i >= j THEN [found |-> FALSE, at |-> i + 1]
     ELSE IF at < start THEN Bisect(clusters, k + 1, j, start)
     ELSE IF at > start THEN Bisect(clusters, i, k, start)
     ELSE [found |-> TRUE, at |-> k + 1]

(* Segment::PreloadCluster: none among the loaded ones.  *)
PreloadCluster(seg, at, start) ==
  IF at <= seg.loaded THEN With(Bad, seg)
  ELSE With(Ok, [seg EXCEPT !.clusters = InsertAt(@, at, NewCluster(-1, start))])

(* Segment::FindOrPreloadCluster.  *)
FindOrPreloadCluster(seg, start) ==
  LET place == Bisect(seg.clusters, 0, Len(seg.clusters), start)
      p == PreloadCluster(seg, place.at, start)
  IN IF place.found THEN [at |-> place.at, seg |-> seg]
     ELSE [at |-> IF p.result.s = "ok" THEN place.at ELSE 0, seg |-> p.seg]

(* Segment::AppendCluster: before the preloaded ones.  *)
AppendCluster(seg, start) ==
  [seg EXCEPT !.clusters = InsertAt(@, seg.loaded + 1, NewCluster(seg.loaded, start)),
              !.loaded = @ + 1]

-----------------------------------------------------------------------------
(* Segment::LoadCluster. *)

(* The first loop of DoLoadCluster: on to the next cluster.  *)
RECURSIVE ToCluster(_, _)
ToCluster(r, seg) ==
  LET stop == SegmentStop(seg)
      h == HeaderField(r, seg.pos, stop)
      past == h.next + h.size
      End(result) == [result |-> result, h |-> h, seg |-> seg]
      Cued == [seg EXCEPT !.cues = IF @ = <<>> THEN <<NewCuesAt(h.next, h.size)>> ELSE @]
  IN IF AtEnd(r, seg) THEN End(Done)
     ELSE IF h.result.s # "ok" THEN End(h.result)
     ELSE IF h.size = 0 THEN ToCluster(r, [seg EXCEPT !.pos = h.next])
     ELSE IF h.size # Unknown /\ stop >= 0 /\ past > stop THEN End(Bad)
     ELSE IF h.id = Id.Cluster THEN End(Ok)
     ELSE IF h.size = Unknown THEN End(Bad)
     ELSE ToCluster(r, [IF h.id = Id.Cues THEN Cued ELSE seg EXCEPT !.pos = past])

(* A cluster that was preloaded becomes a loaded one.  *)
TakePreloaded(seg, h) ==
  LET c == seg.clusters[seg.loaded + 1]
      next == IF h.size = Unknown THEN c.element_start + c.element_size
              ELSE h.next + h.size
  IN IF h.size = Unknown /\ c.element_size <= 0 THEN With(Bad, seg)
     ELSE With(IF SegmentStop(seg) >= 0 /\ next > SegmentStop(seg) THEN Bad ELSE Ok,
               [seg EXCEPT !.clusters[seg.loaded + 1].index = seg.loaded,
                           !.loaded = @ + 1, !.pos = next])

(* A cluster without blocks is passed over.  *)
PassOver(r, seg, h) ==
  LET next == IF h.size = Unknown THEN h.next ELSE h.next + h.size
      stop == SegmentStop(seg)
  IN IF r.total >= 0 /\ next >= r.total THEN With(Done, [seg EXCEPT !.pos = r.total])
     ELSE IF stop >= 0 /\ next >= stop THEN With(Done, [seg EXCEPT !.pos = stop])
     ELSE With(Again, [seg EXCEPT !.pos = next])

(* Variant: a cluster that was preloaded is loaded once more.  *)
DoLoadClusterTwice(r, seg) ==
  LET e == ToCluster(r, seg)
      has == HasBlockEntries(r, seg, e.seg.pos)
      new == AppendCluster(e.seg, e.seg.pos)
  IN IF e.result.s # "ok" THEN With(e.result, e.seg)
     ELSE IF has.s \in {"need", "bad"} THEN With(has, e.seg)
     ELSE IF has.s = "done" THEN PassOver(r, e.seg, e.h)
     ELSE IF e.h.size = Unknown
     THEN With(Ok, [new EXCEPT !.pos = -e.h.next, !.unknown = new.loaded])
     ELSE With(Ok, [new EXCEPT !.pos = e.h.next + e.h.size])

DoLoadCluster(r, seg) ==
  LET e == ToCluster(r, seg)
      has == HasBlockEntries(r, seg, e.seg.pos)
      preloaded == /\ seg.loaded < Len(seg.clusters)
                   /\ seg.clusters[seg.loaded + 1].element_start = e.seg.pos
      new == AppendCluster(e.seg, e.seg.pos)
  IN IF e.result.s # "ok" THEN With(e.result, e.seg)
     ELSE IF has.s \in {"need", "bad"} THEN With(has, e.seg)
     ELSE IF preloaded THEN IF has.s = "done" THEN With(Bad, e.seg)
                            ELSE TakePreloaded(e.seg, e.h)
     ELSE IF has.s = "done" THEN PassOver(r, e.seg, e.h)
     ELSE IF e.h.size = Unknown
     THEN With(Ok, [new EXCEPT !.pos = -e.h.next, !.unknown = new.loaded])
     ELSE With(Ok, [new EXCEPT !.pos = e.h.next + e.h.size])

(* One more block of the cluster at a place.  *)
ParseAt(r, seg, i) ==
  LET p == ParseCluster(r, seg.clusters[i])
  IN With(p.result, [seg EXCEPT !.clusters[i] = p.cluster])

(* The cluster that has no size is parsed until its end is found.  *)
DoLoadClusterUnknownSize(r, seg) ==
  LET p == ParseAt(r, seg, seg.unknown)
      c == p.seg.clusters[seg.unknown]
  IN CASE p.result.s = "ok" -> With(Again, p.seg)
       [] p.result.s = "done" ->
            With(Again, [p.seg EXCEPT !.pos = c.element_start + c.element_size,
                                      !.unknown = 0])
       [] OTHER -> p

RECURSIVE LoadCluster(_, _)
LoadCluster(r, seg) ==
  LET once == IF seg.pos < 0 THEN DoLoadClusterUnknownSize(r, seg)
              ELSE DoLoadCluster(r, seg)
  IN IF once.result.s = "again" THEN LoadCluster(r, once.seg) ELSE once

(* Segment::Load: the headers and all clusters, of a file that is all there.  *)
RECURSIVE LoadAll(_, _)
LoadAll(r, seg) ==
  LET l == LoadCluster(r, seg)
  IN IF l.result.s = "ok" THEN LoadAll(r, l.seg)
     ELSE With(IF l.result.s = "done" THEN Ok ELSE l.result, l.seg)

SegmentLoad(r, seg) ==
  LET p == ParseHeaders(r, seg)
  IN IF seg.clusters # <<>> THEN With(Bad, seg)
     ELSE IF p.result.s # "ok" THEN With(p.result, p.seg)
     ELSE IF p.seg.info = <<>> \/ p.seg.tracks = <<>> THEN With(Bad, p.seg)
     ELSE LoadAll(r, p.seg)

(* Segment::ParseCues: of a file whose size is known, at a position.  *)
ParseCues(r, seg, start) ==
  LET stop == SegmentStop(seg)
      id == IdField(r, start, stop)
      h == HeaderField(r, start, stop)
      past == h.next + h.size
  IN IF seg.cues # <<>> THEN With(Ok, seg)
     ELSE IF r.total < 0 \/ start >= r.total THEN With(Done, seg)
     ELSE IF id.s # "ok" THEN With(id, seg)
     ELSE IF id.v # Id.Cues THEN With(Bad, seg)
     ELSE IF h.result.s # "ok" THEN With(h.result, seg)
     ELSE IF h.size = 0 THEN With(Done, seg)
     ELSE IF h.size = Unknown \/ (stop >= 0 /\ past > stop) THEN With(Bad, seg)
     ELSE IF past > r.total THEN With(Done, seg)
     ELSE IF past > r.avail THEN With(Need(past), seg)
     ELSE With(Ok, [seg EXCEPT !.cues = <<NewCuesAt(h.next, h.size)>>])

DoneParsing(r, seg) ==
  IF seg.size < 0 THEN r.total >= 0 /\ seg.pos >= r.total
  ELSE seg.pos >= SegmentStop(seg)

-----------------------------------------------------------------------------
(* Blocks in a cluster. *)

(* Block::GetTimeCode: the cluster's and the block's own.  *)
Timecode(c, entry) == c.timecode + entry.timecode

Earliest == -40000     \* before every timecode

(* The first entry from index on that is of the track, not before a time and,
   when key says so, a key frame; what is not parsed yet is, one block at a
   time.  0 when there is none.  *)
RECURSIVE ScanTo(_, _, _, _, _, _)
ScanTo(r, c, index, track, from, key) ==
  LET p == ParseCluster(r, c)
      x == c.entries[index]
      End(result, at) == [result |-> result, at |-> at, cluster |-> c]
  IN IF index > Len(c.entries)
     THEN IF p.result.s = "ok" THEN ScanTo(r, p.cluster, index, track, from, key)
          ELSE [result |-> p.result, at |-> 0, cluster |-> p.cluster]
     ELSE IF x.track = track /\ Timecode(c, x) >= from /\ (key => x.is_key)
     THEN End(Ok, index)
     ELSE ScanTo(r, c, index + 1, track, from, key)

(* Cluster's parse up to its n-th block.  *)
RECURSIVE ParseTo(_, _, _)
ParseTo(r, c, n) ==
  LET p == ParseCluster(r, c)
  IN IF Len(c.entries) >= n THEN [result |-> Ok, cluster |-> c]
     ELSE IF p.result.s = "ok" THEN ParseTo(r, p.cluster, n) ELSE p

TypeOf(seg, number) ==
  LET with == SelectSeq(seg.tracks[1].entries, LAMBDA t : t.info.number = number)
  IN IF with = <<>> THEN 0 ELSE Head(with).info.type

(* The entry at, if it is not 0, in cluster i, which the search leaves as c.  *)
Entry(seg, i, c, at, result) ==
  [result |-> result, seg |-> [seg EXCEPT !.clusters[i] = c], cluster |-> i, at |-> at]

(* Cluster::GetEntry of a cue point's position: the block with the number that
   the cue gives, if it is of that track and time; or else the first block of
   the track at that time, and of video only a key frame.  *)
GetCueEntry(r, seg, i, timecode, position) ==
  LET to == ParseTo(r, seg.clusters[i], position.block)
      named == to.cluster.entries[position.block]
      exact(c, x) == x.track = position.track /\ Timecode(c, x) = timecode
      first == ScanTo(r, to.cluster, 1, position.track, timecode, FALSE)
      x == first.cluster.entries[first.at]
      good == /\ exact(first.cluster, x)
              /\ CASE TypeOf(seg, position.track) = kAudioTrack -> TRUE
                   [] TypeOf(seg, position.track) = kVideoTrack -> x.is_key
                   [] OTHER -> FALSE
  IN IF position.block > 0 /\ to.result.s # "ok"
     THEN Entry(seg, i, to.cluster, 0, to.result)
     ELSE IF position.block > 0 /\ exact(to.cluster, named)
     THEN Entry(seg, i, to.cluster, position.block, Ok)
     ELSE IF first.result.s # "ok" \/ ~good
     THEN Entry(seg, i, first.cluster, 0, first.result)
     ELSE Entry(seg, i, first.cluster, first.at, Ok)

(* Segment::GetBlock: the block of a cue point's position, in a cluster that is
   preloaded when it is not there yet.  *)
GetBlock(r, seg, timecode, position) ==
  LET f == FindOrPreloadCluster(seg, seg.start + position.pos)
  IN IF f.at = 0 THEN [result |-> Bad, seg |-> f.seg, cluster |-> 0, at |-> 0]
     ELSE GetCueEntry(r, f.seg, f.at, timecode, position)

(* Variant: any block of the track is a seek target.  *)
GetTimeEntryAny(r, seg, i, track, key, timecode) ==
  LET after == ScanTo(r, seg.clusters[i], 1, track, timecode + 1, FALSE)
      stop == IF after.at = 0 THEN Len(after.cluster.entries) ELSE after.at - 1
      targets == {n \in 1 .. stop : after.cluster.entries[n].track = track}
  IN Entry(seg, i, after.cluster,
           IF targets = {} \/ after.result.s \in {"need", "bad"} THEN 0 ELSE Max(targets),
           after.result)

(* Cluster::GetEntry of a track and a time: the last block of the track that is
   a seek target and not after that time.  *)
GetTimeEntry(r, seg, i, track, key, timecode) ==
  LET after == ScanTo(r, seg.clusters[i], 1, track, timecode + 1, FALSE)
      stop == IF after.at = 0 THEN Len(after.cluster.entries) ELSE after.at - 1
      targets == {n \in 1 .. stop : LET x == after.cluster.entries[n]
                                    IN x.track = track /\ (key => x.is_key)}
  IN Entry(seg, i, after.cluster,
           IF targets = {} \/ after.result.s \in {"need", "bad"} THEN 0 ELSE Max(targets),
           after.result)

-----------------------------------------------------------------------------
(* From cluster to cluster. *)

(* An element header the way Segment::GetNext reads it: what has not arrived, or
   does not fit, fails an assertion, except that the rest of an ID may be missing
   ("done").  *)
AssertedHeader(r, pos, stop) ==
  LET id == IdField(r, pos, stop)
      h == HeaderField(r, pos, stop)
      begun == /\ pos < r.avail /\ ByteAt(r, pos) # 0
               /\ pos + CodedLength(ByteAt(r, pos)) <= stop
  IN IF ~begun THEN Aborted
     ELSE IF id.s # "ok" THEN Done
     ELSE IF h.result.s # "ok" \/ h.size = Unknown \/ h.next + h.size > stop THEN Aborted
     ELSE Ok

(* The first cluster with blocks from pos on, whose place is next; "done" when
   there is none.  *)
RECURSIVE NextWithBlocks(_, _, _)
NextWithBlocks(r, seg, pos) ==
  LET stop == SegmentStop(seg)
      read == AssertedHeader(r, pos, stop)
      h == HeaderField(r, pos, stop)
      has == HasBlockEntries(r, seg, pos)
  IN IF pos >= stop THEN Done
     ELSE IF read.s # "ok" THEN read
     ELSE IF h.id # Id.Cluster \/ h.size = 0 \/ has.s = "done"
     THEN NextWithBlocks(r, seg, h.next + h.size)
     ELSE IF has.s = "ok" THEN [Ok EXCEPT !.next = pos]
     ELSE Aborted

(* Segment::GetNext of a cluster: the place of the next loaded one, or 0, which
   is m_eos, when that is not loaded; after a preloaded one, the next that has
   blocks, which is found among the preloaded ones or preloaded, or none
   ("done").  A failed assertion is "abort".  *)
GetNext(r, seg, i) ==
  LET c == seg.clusters[i]
      stop == SegmentStop(seg)
      id == IdField(r, c.element_start, stop)
      read == AssertedHeader(r, c.element_start, stop)
      h == HeaderField(r, c.element_start, stop)
      next == NextWithBlocks(r, seg, h.next + h.size)
      place == Bisect(seg.clusters, seg.loaded, Len(seg.clusters), next.next)
      p == PreloadCluster(seg, place.at, next.next)
      End(result, at, s) == [result |-> result, at |-> at, seg |-> s]
  IN IF c.index >= 0 THEN End(Ok, IF i < seg.loaded THEN i + 1 ELSE 0, seg)
     ELSE IF stop < 0 THEN End(Aborted, 0, seg)
     ELSE IF id.s = "ok" /\ id.v # Id.Cluster THEN End(Done, 0, seg)
     ELSE IF read.s # "ok" THEN End(read, 0, seg)
     ELSE IF h.size = 0 THEN End(Aborted, 0, seg)
     ELSE IF next.s # "ok" THEN End(next, 0, seg)
     ELSE IF place.found THEN End(Ok, place.at, seg)
     ELSE End(Ok, place.at, p.seg)

(* Segment::DoParseNext from pos on: the next cluster with blocks, which is
   found among the preloaded ones or preloaded.  A cluster without blocks and
   without a size is not written.  *)
RECURSIVE DoParseNext(_, _, _)
DoParseNext(r, seg, pos) ==
  LET e == ToCluster(r, [seg EXCEPT !.pos = pos])
      kept == [e.seg EXCEPT !.pos = seg.pos]
      place == Bisect(seg.clusters, seg.loaded, Len(seg.clusters), e.seg.pos)
      has == HasBlockEntries(r, seg, e.seg.pos)
      p == PreloadCluster(kept, place.at, e.seg.pos)
      End(result, at, s) == [result |-> result, at |-> at, seg |-> s]
  IN IF e.result.s # "ok" THEN End(e.result, 0, kept)
     ELSE IF place.found THEN End(Ok, place.at, kept)
     ELSE IF has.s \in {"need", "bad"} THEN End(has, 0, kept)
     ELSE IF has.s = "ok" THEN End(p.result, place.at, p.seg)
     ELSE DoParseNext(r, kept, e.h.next + e.h.size)

(* Segment::ParseNext: after a loaded cluster the next is loaded.  After a
   preloaded one whose end is not known it fails: the ID is read the way a
   size is, which takes its marker away.  *)
ParseNext(r, seg, i) ==
  LET c == seg.clusters[i]
      load == LoadCluster(r, seg)
      End(result, at, s) == [result |-> result, at |-> at, seg |-> s]
  IN IF c.index >= 0 /\ i < seg.loaded THEN End(Ok, i + 1, seg)
     ELSE IF c.index >= 0
     THEN End(load.result, IF load.result.s = "ok" THEN load.seg.loaded ELSE 0, load.seg)
     ELSE IF c.element_size < 0 THEN End(Bad, 0, seg)
     ELSE DoParseNext(r, seg, c.element_start + c.element_size)

-----------------------------------------------------------------------------
(* Track. *)

(* The first entry of the track from entry index of cluster i on, cluster by
   cluster.  After the last cluster that is loaded "need" asks for another one;
   after a preloaded one, no next cluster is the end.  *)
RECURSIVE TrackScan(_, _, _, _, _, _)
TrackScan(r, seg, i, index, track, key) ==
  LET found == ScanTo(r, seg.clusters[i], index, track, Earliest, key)
      here == [seg EXCEPT !.clusters[i] = found.cluster]
      next == GetNext(r, here, i)
      None(result, s) == [result |-> result, seg |-> s, cluster |-> 0, at |-> 0]
  IN IF i = 0 THEN None(IF DoneParsing(r, seg) THEN Done ELSE Need(r.avail + 1), seg)
     ELSE IF found.result.s # "done" THEN Entry(seg, i, found.cluster, found.at, found.result)
     ELSE IF next.result.s # "ok" THEN None(next.result, here)
     ELSE TrackScan(r, next.seg, next.at, 1, track, key)

IsVideo(seg, track) == TypeOf(seg, track) = kVideoTrack

(* Track::GetFirst: the first block that is a seek target, which of a video
   track is the first key frame.  *)
GetFirst(r, seg, track) ==
  TrackScan(r, seg, IF seg.loaded = 0 THEN 0 ELSE 1, 1, track, IsVideo(seg, track))

(* Track::GetNext after entry at of cluster i.  *)
GetNextEntry(r, seg, i, at, track) == TrackScan(r, seg, i, at + 1, track, FALSE)

(* The first loaded cluster, of the places from i + 1 to j, that is after the
   time; the bisection that both Seeks and FindCluster make.  They load the
   timecodes they look at, which a later parse does anyway.  *)
RECURSIVE FirstAfter(_, _, _, _, _)
FirstAfter(r, seg, i, j, timecode) ==
  LET k == i + (j - i) \div 2
  IN IF i >= j THEN i + 1
     ELSE IF Load(r, seg.clusters[k + 1]).cluster.timecode <= timecode
     THEN FirstAfter(r, seg, k + 1, j, timecode)
     ELSE FirstAfter(r, seg, i, k, timecode)

(* Segment::FindCluster: the last one that is not after the time, or the first
   one.  *)
FindCluster(r, seg, timecode) ==
  IF seg.loaded = 0 THEN 0
  ELSE IF timecode <= Load(r, seg.clusters[1]).cluster.timecode THEN 1
  ELSE FirstAfter(r, seg, 0, seg.loaded, timecode) - 1

(* Back from cluster i to the first one that has a block to seek to.  Each of
   them is parsed until its block is found: that more of it has arrived is
   asserted.  *)
RECURSIVE SeekBack(_, _, _, _, _, _, _)
SeekBack(r, seg, first, i, track, key, timecode) ==
  LET e == IF key THEN GetTimeEntry(r, seg, i, track, key, timecode)
           ELSE LET x == ScanTo(r, seg.clusters[i], 1, track, Earliest, FALSE)
                IN Entry(seg, i, x.cluster, x.at, x.result)
  IN IF i < first THEN [result |-> Done, seg |-> seg, cluster |-> 0, at |-> 0]
     ELSE IF e.result.s \in {"need", "bad"} THEN [e EXCEPT !.result = Aborted, !.at = 0]
     ELSE IF e.at # 0 THEN e
     ELSE SeekBack(r, e.seg, first, i - 1, track, key, timecode)

(* VideoTrack::Seek goes to the last key frame not after the time; Track::Seek
   to the first block of the track in the last cluster not after it.  *)
Seek(r, seg, track, timecode) ==
  LET f == GetFirst(r, seg, track)
      c == f.seg.clusters[f.cluster]
      from == FirstAfter(r, f.seg, f.cluster - 1, f.seg.loaded, timecode) - 1
  IN IF f.result.s # "ok" THEN f
     ELSE IF timecode <= Timecode(c, c.entries[f.at]) THEN f
     ELSE SeekBack(r, f.seg, f.cluster, from, track, IsVideo(seg, track), timecode)
=============================================================================
