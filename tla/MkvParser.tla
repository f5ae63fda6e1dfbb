------------------------------ MODULE MkvParser ------------------------------
(* mkvparser's Segment, Cluster and Block (src/src/libwebm/mkvparser.cpp): the
   incremental parse of a WebM file that may still be growing, and the search
   for the block of a cue point.

   A call ends with "ok", with "done" when there is nothing more, with "need"
   when it wants the file up to some byte that cannot be read yet, or with "bad".
   Every operator is one method.  *)
EXTENDS MkvElements

-----------------------------------------------------------------------------
(* The fields of an element header, read one at a time. *)

Need(wanted) == [s |-> "need", wanted |-> wanted, v |-> 0, next |-> 0]
Ends(s) == [s |-> s, wanted |-> 0, v |-> 0, next |-> 0]
Ok == Ends("ok")
Done == Ends("done")
Bad == Ends("bad")

(* A number at pos that must end before stop, if there is a stop (-1: none).
   This is the check that every loop of the parser repeats.  *)
Field(r, pos, stop, Read(_, _)) ==
  IF pos + 1 > r.avail THEN Need(pos + 1)
  ELSE IF ByteAt(r, pos) = 0 THEN Bad
  ELSE LET len == CodedLength(ByteAt(r, pos))
           number == Read(r, pos)
       IN IF stop >= 0 /\ pos + len > stop THEN Bad
          ELSE IF pos + len > r.avail THEN Need(pos + len)
          ELSE IF ~number.ok THEN Bad
          ELSE [s |-> "ok", wanted |-> 0, v |-> number.v, next |-> pos + len]

IdField(r, pos, stop) == Field(r, pos, stop, ReadID)
SizeField(r, pos, stop) == Field(r, pos, stop, ReadUInt)

(* An ID and a size; next is where the payload starts.  *)
HeaderField(r, pos, stop) ==
  LET id == IdField(r, pos, stop)
      size == SizeField(r, id.next, stop)
  IN IF id.s # "ok" THEN [result |-> id, id |-> 0, size |-> 0, next |-> 0]
     ELSE [result |-> size, id |-> id.v, size |-> size.v, next |-> size.next]

-----------------------------------------------------------------------------
(* EBMLHeader::Parse. *)

kMaxScanBytes == 1024

(* The header is looked for in the first bytes; fewer than the four bytes of
   its ID are an error, and not a reason to wait.  *)
ParseEbmlHeader(r) ==
  LET scanned == IF r.avail >= kMaxScanBytes THEN kMaxScanBytes ELSE r.avail
      marks == {p \in 0 .. scanned - 1 : ByteAt(r, p) = 26}
      at == IF marks = {} THEN scanned ELSE Min(marks)
      id == ReadID(r, at)
      size == SizeField(r, at + 4, r.total)
      c == Children(r, size.next, size.next + size.v)
      numbers == {"EBMLVersion", "EBMLReadVersion", "EBMLMaxIDLength",
                  "EBMLMaxSizeLength", "DocTypeVersion", "DocTypeReadVersion"}
      valid == /\ c.ok /\ \A k \in ToSet(c.kids) : k.size > 0
               /\ Positive(r, c.kids, numbers)
               /\ Len(Named(c.kids, "DocType")) = 1
               /\ UIntOf(r, c.kids, "EBMLMaxIDLength", 4) \in 1 .. 4
               /\ UIntOf(r, c.kids, "EBMLMaxSizeLength", 8) \in 1 .. 8
  IN IF ~id.ok \/ id.v # Id.EBML THEN Bad
     ELSE IF size.s # "ok" THEN size
     ELSE IF size.v = Unknown THEN Bad
     ELSE IF r.total >= 0 /\ r.total - size.next < size.v THEN Bad
     ELSE IF r.avail - size.next < size.v THEN Need(size.next + size.v)
     ELSE IF ~valid THEN Bad
     ELSE [s |-> "ok", wanted |-> 0, next |-> size.next + size.v,
           v |-> UIntOf(r, c.kids, "DocTypeVersion", 1),
           doc_type |-> StringOf(r, c.kids, "DocType")]

-----------------------------------------------------------------------------
(* Segment. *)

NewSegment(start, size) ==
  [start |-> start, size |-> size, pos |-> start, unknown |-> 0,
   seek_head |-> <<>>, info |-> <<>>, tracks |-> <<>>, cues |-> <<>>,
   chapters |-> <<>>, tags |-> <<>>, clusters |-> <<>>, loaded |-> 0]

(* Segment::CreateInstance: elements before the segment are passed over.  *)
RECURSIVE CreateInstance(_, _)
CreateInstance(r, pos) ==
  LET h == HeaderField(r, pos, r.total)
      sized == /\ h.size # Unknown /\ r.total >= 0 /\ h.next + h.size <= r.total
  IN IF r.total >= 0 /\ pos >= r.total THEN [result |-> Bad, seg |-> <<>>]
     ELSE IF h.result.s # "ok" THEN [result |-> h.result, seg |-> <<>>]
     ELSE IF h.id = Id.Segment
     THEN [result |-> h.result,
           seg |-> <<NewSegment(h.next, IF sized THEN h.size ELSE -1)>>]
     ELSE IF h.size = Unknown \/ (r.total >= 0 /\ h.next + h.size > r.total)
     THEN [result |-> Bad, seg |-> <<>>]
     ELSE IF h.next + h.size > r.avail
     THEN [result |-> Need(h.next + h.size), seg |-> <<>>]
     ELSE CreateInstance(r, h.next + h.size)

SegmentStop(seg) == IF seg.size < 0 THEN -1 ELSE seg.start + seg.size

(* Variant: the end of the segment is the only one.  *)
AtEndOfSegment(r, seg) == SegmentStop(seg) >= 0 /\ seg.pos >= SegmentStop(seg)

AtEnd(r, seg) ==
  \/ r.total >= 0 /\ seg.pos >= r.total
  \/ SegmentStop(seg) >= 0 /\ seg.pos >= SegmentStop(seg)

(* What ParseHeaders makes of one element: the segment with it, or nothing
   when it is bad.  Info and Tracks come once; of the others a second is
   passed over.  The cues are kept for later.  *)
WithElement(r, seg, id, start, size) ==
  LET Once(old, parsed, new) == IF old # <<>> \/ ~parsed.ok THEN <<>> ELSE <<new>>
      First(old, parsed, new) ==
        IF old # <<>> THEN <<seg>> ELSE IF parsed.ok THEN <<new>> ELSE <<>>
  IN CASE id = Id.Info ->
            LET p == ParseSegmentInfo(r, start, size)
            IN Once(seg.info, p, [seg EXCEPT !.info = <<p>>])
       [] id = Id.Tracks ->
            LET p == ParseTracks(r, start, size)
            IN Once(seg.tracks, p, [seg EXCEPT !.tracks = <<p>>])
       [] id = Id.Cues ->
            <<[seg EXCEPT !.cues = IF @ = <<>> THEN <<NewCuesAt(start, size)>> ELSE @]>>
       [] id = Id.SeekHead ->
            LET p == ParseSeekHead(r, start, size)
            IN First(seg.seek_head, p, [seg EXCEPT !.seek_head = <<p>>])
       [] id = Id.Chapters ->
            LET p == ParseChapters(r, start, size)
            IN First(seg.chapters, p, [seg EXCEPT !.chapters = <<p>>])
       [] id = Id.Tags ->
            LET p == ParseTags(r, start, size)
            IN First(seg.tags, p, [seg EXCEPT !.tags = <<p>>])
       [] OTHER -> <<seg>>

(* Segment::ParseHeaders: up to the first cluster.  *)
RECURSIVE ParseHeaders(_, _)
ParseHeaders(r, seg) ==
  LET stop == SegmentStop(seg)
      id == IdField(r, seg.pos, stop)
      h == HeaderField(r, seg.pos, stop)
      after == WithElement(r, seg, h.id, h.next, h.size)
      End(x) == [result |-> x, seg |-> seg]
  IN IF AtEnd(r, seg) \/ (id.s = "ok" /\ id.v = Id.Cluster)
     THEN End(IF seg.info = <<>> \/ seg.tracks = <<>> THEN Bad
              ELSE [s |-> "ok", wanted |-> 0, v |-> 0, next |-> seg.pos])
     ELSE IF h.result.s # "ok" THEN End(h.result)
     ELSE IF h.size = Unknown \/ (stop >= 0 /\ h.next + h.size > stop) THEN End(Bad)
     ELSE IF h.next + h.size > r.avail THEN End(Need(h.next + h.size))
     ELSE IF after = <<>> THEN End(Bad)
     ELSE ParseHeaders(r, [after[1] EXCEPT !.pos = h.next + h.size])

-----------------------------------------------------------------------------
(* Block. *)

(* Frames of these sizes, one after the other; they must use the block up.  *)
Laid(pos, stop, sizes) ==
  LET Before(i) == FoldLeft(LAMBDA n, x : n + x, 0, SubSeq(sizes, 1, i - 1))
  IN [ok |-> (\A x \in ToSet(sizes) : x > 0) /\ pos + Before(Len(sizes) + 1) = stop,
      frames |-> [i \in DOMAIN sizes |-> [pos |-> pos + Before(i), len |-> sizes[i]]]]

NoFrames == [ok |-> FALSE, frames |-> <<>>]
NoSizes == [ok |-> FALSE, next |-> 0, sizes |-> <<>>]

(* Xiph lacing: a size is bytes of 255 and a last one that is less.  *)
RECURSIVE XiphSizes(_, _, _, _)
XiphSizes(r, pos, stop, count) ==
  LET ends == {p \in pos .. stop - 1 : Readable(r, p, 1) /\ ByteAt(r, p) < 255}
      end == Min(ends)
      rest == XiphSizes(r, end + 1, stop, count - 1)
      size == 255 * (end - pos) + ByteAt(r, end)
  IN IF count = 0 THEN [ok |-> TRUE, next |-> pos, sizes |-> <<>>]
     ELSE IF ends = {} \/ size = 0 THEN NoSizes
     ELSE [rest EXCEPT !.sizes = <<size>> \o @]

(* EBML lacing: the first size, then signed differences, each biased by half
   the range of its length.  *)
RECURSIVE EbmlSizes(_, _, _, _, _)
EbmlSizes(r, pos, stop, count, prev) ==
  LET n == ReadUInt(r, pos)
      size == IF prev = 0 THEN n.raw ELSE prev + n.raw - (2 ^ (7 * n.len - 1) - 1)
      rest == EbmlSizes(r, pos + n.len, stop, count - 1, size)
  IN IF count = 0 THEN [ok |-> TRUE, next |-> pos, sizes |-> <<>>]
     ELSE IF pos >= stop \/ ~n.ok \/ pos + n.len > stop \/ size <= 0 THEN NoSizes
     ELSE [rest EXCEPT !.sizes = <<size>> \o @]

(* The frames of a block, by its lacing: none, Xiph, of one size, EBML.  The
   last frame of a lace takes what is left.  *)
FramesOf(r, pos, stop, lacing) ==
  LET count == ByteAt(r, pos) + 1
      laced == pos + 1
      Closed(given) ==
        LET sum == FoldLeft(LAMBDA n, x : n + x, 0, given.sizes)
        IN IF given.ok
           THEN Laid(given.next, stop,
                     IF Len(given.sizes) = count THEN given.sizes
                     ELSE Append(given.sizes, stop - given.next - sum))
           ELSE NoFrames
  IN CASE lacing = 0 -> Laid(pos, stop, <<stop - pos>>)
       [] lacing # 0 /\ (pos >= stop \/ ~Readable(r, pos, 1)) -> NoFrames
       [] lacing = 1 /\ pos < stop /\ Readable(r, pos, 1) ->
            Closed(XiphSizes(r, laced, stop, count - 1))
       [] lacing = 2 /\ pos < stop /\ Readable(r, pos, 1) ->
            IF (stop - laced) % count # 0 THEN NoFrames
            ELSE Laid(laced, stop, [i \in 1 .. count |-> (stop - laced) \div count])
       [] OTHER -> Closed(EbmlSizes(r, laced, stop, IF count = 1 THEN 1 ELSE count - 1, 0))

(* Block::Parse.  *)
ParseBlock(r, start, size) ==
  LET stop == start + size
      track == ReadUInt(r, start)
      time == UnserializeInt(r, start + track.len, 2)
      at == start + track.len + 2
      laid == FramesOf(r, at + 1, stop, (ByteAt(r, at) \div 2) % 4)
  IN IF track.ok /\ track.raw > 0 /\ stop > at /\ Readable(r, at, 1) /\ laid.ok
     THEN [ok |-> TRUE, track |-> track.raw, timecode |-> time.v,
           is_key |-> ByteAt(r, at) >= 128, frames |-> laid.frames,
           duration |-> -1, discard_padding |-> 0, group |-> FALSE]
     ELSE [ok |-> FALSE]

(* Variant: the block's own flag says whether it is a key frame.  *)
ParseGroupByFlag(r, start, size, discard_padding) ==
  LET c == Items(r, start, start + size)
      blocks == Named(c.kids, "Block")
      references == [i \in DOMAIN Named(c.kids, "ReferenceBlock") |->
                       UnserializeInt(r, Named(c.kids, "ReferenceBlock")[i].pos,
                                      Named(c.kids, "ReferenceBlock")[i].size)]
      earlier == SelectSeq(references, LAMBDA x : x.v <= 0)
      later == SelectSeq(references, LAMBDA x : x.v > 0)
      block == ParseBlock(r, blocks[1].pos, blocks[1].size)
  IN IF /\ c.ok /\ blocks # <<>> /\ AllParsed(references)
        /\ Each(c.kids, "BlockDuration", LAMBDA k : UInt(r, k) >= 0)
        /\ block.ok
     THEN [block EXCEPT !.group = TRUE, !.duration = UIntOf(r, c.kids, "BlockDuration", -1),
                        !.discard_padding = discard_padding]
     ELSE [ok |-> FALSE]

(* Cluster::CreateBlockGroup: a group that refers to no other block is a key
   frame; SetKey overrules the flag.  *)
ParseGroup(r, start, size, discard_padding) ==
  LET c == Items(r, start, start + size)
      blocks == Named(c.kids, "Block")
      references == [i \in DOMAIN Named(c.kids, "ReferenceBlock") |->
                       UnserializeInt(r, Named(c.kids, "ReferenceBlock")[i].pos,
                                      Named(c.kids, "ReferenceBlock")[i].size)]
      earlier == SelectSeq(references, LAMBDA x : x.v <= 0)
      later == SelectSeq(references, LAMBDA x : x.v > 0)
      block == ParseBlock(r, blocks[1].pos, blocks[1].size)
  IN IF /\ c.ok /\ blocks # <<>> /\ AllParsed(references)
        /\ Each(c.kids, "BlockDuration", LAMBDA k : UInt(r, k) >= 0)
        /\ block.ok
     THEN [block EXCEPT !.group = TRUE, !.is_key = (earlier = <<>> /\ later = <<>>),
                        !.duration = UIntOf(r, c.kids, "BlockDuration", -1),
                        !.discard_padding = discard_padding]
     ELSE [ok |-> FALSE]

-----------------------------------------------------------------------------
(* Cluster.  index is -1 while the cluster is only preloaded; count is -1
   before the first block is made.  *)

NewCluster(index, element_start) ==
  [index |-> index, element_start |-> element_start, pos |-> element_start,
   element_size |-> -1, timecode |-> -1, entries |-> <<>>]

(* Cluster::HasBlockEntries: is there a block in the cluster at pos?  "ok": yes;
   "done": no.  *)
RECURSIVE HasBlockIn(_, _, _)
HasBlockIn(r, pos, stop) ==
  LET id == IdField(r, pos, stop)
      h == HeaderField(r, pos, stop)
  IN IF stop >= 0 /\ pos >= stop THEN Done
     ELSE IF id.s # "ok" THEN id
     ELSE IF id.v \in {Id.Cluster, Id.Cues} THEN Done
     ELSE IF stop >= 0 /\ id.next >= stop THEN Bad
     ELSE IF h.result.s # "ok" THEN h.result
     ELSE IF h.size = Unknown \/ (stop >= 0 /\ h.next + h.size > stop) THEN Bad
     ELSE IF h.size > 0 /\ h.id \in {Id.BlockGroup, Id.SimpleBlock} THEN h.result
     ELSE HasBlockIn(r, h.next + h.size, stop)

HasBlockEntries(r, seg, pos) ==
  LET h == HeaderField(r, pos, SegmentStop(seg))
      stop == IF h.size = Unknown THEN -1 ELSE h.next + h.size
      outside == r.total >= 0 /\ stop > r.total
  IN IF r.total >= 0 /\ pos >= r.total THEN Done
     ELSE IF h.result.s # "ok" THEN h.result
     ELSE IF h.id # Id.Cluster THEN Bad
     ELSE IF h.size = 0 \/ outside THEN Done
     ELSE IF SegmentStop(seg) >= 0 /\ stop > SegmentStop(seg) THEN Bad
     ELSE HasBlockIn(r, h.next, stop)

(* Cluster::Load: the timecode, which must be there, and one block, which may
   come before it.  *)
RECURSIVE LoadFrom(_, _, _, _, _)
LoadFrom(r, pos, stop, timecode, block) ==
  LET id == IdField(r, pos, stop)
      h == HeaderField(r, pos, stop)
      wanted == h.id = Id.Timecode /\ h.size > 0
      found == block \/ (h.size > 0 /\ h.id \in {Id.BlockGroup, Id.SimpleBlock})
      time == IF wanted THEN UnserializeUInt(r, h.next, h.size) ELSE timecode.v
      End(t) == IF t.v < 0 \/ ~found THEN Bad ELSE t
      next == IF wanted THEN [s |-> "ok", wanted |-> 0, v |-> time, next |-> h.next + h.size]
              ELSE timecode
  IN IF stop >= 0 /\ pos >= stop THEN Bad
     ELSE IF id.s # "ok" THEN id
     ELSE IF id.v \in {Id.Cluster, Id.Cues} THEN Bad
     ELSE IF h.result.s # "ok" THEN h.result
     ELSE IF h.size = Unknown \/ (stop >= 0 /\ h.next + h.size > stop) THEN Bad
     ELSE IF wanted /\ h.next + h.size > r.avail THEN Need(h.next + h.size)
     ELSE IF time < 0 /\ wanted THEN Bad
     ELSE IF found THEN End(next)
     ELSE LoadFrom(r, h.next + h.size, stop, next, found)

Load(r, c) ==
  LET h == HeaderField(r, c.pos, -1)
      stop == IF h.size = Unknown THEN -1 ELSE h.next + h.size
      timecode == LoadFrom(r, h.next, stop, [Bad EXCEPT !.v = -1], FALSE)
  IN IF c.timecode >= 0 THEN [result |-> Ok, cluster |-> c]
     ELSE IF h.result.s # "ok" THEN [result |-> h.result, cluster |-> c]
     ELSE IF h.id # Id.Cluster \/ h.size = 0 \/ timecode.s = "bad"
     THEN [result |-> Bad, cluster |-> c]
     ELSE IF timecode.s = "need" THEN [result |-> timecode, cluster |-> c]
     ELSE [result |-> timecode,
           cluster |-> [c EXCEPT !.pos = timecode.next, !.timecode = timecode.v,
                                 !.element_size = IF stop >= 0
                                                  THEN stop - c.element_start ELSE @]]

ClusterStop(c) ==
  IF c.element_size < 0 THEN -1 ELSE c.element_start + c.element_size

(* Track number, timecode and flags of a block, before anything is made of it;
   one more byte must follow.  *)
BlockHeader(r, start, stop) ==
  LET track == SizeField(r, start, stop)
  IN IF track.s # "ok" THEN track
     ELSE IF track.v = 0 \/ track.next + 3 >= stop THEN Bad
     ELSE IF track.next + 3 > r.avail THEN Need(track.next + 3)
     ELSE track

(* Cluster::ParseSimpleBlock and ParseBlockGroup: one more entry.  *)
AddEntry(c, block, stop) ==
  IF ~block.ok THEN [result |-> Bad, cluster |-> c]
  ELSE [result |-> Ok,
        cluster |-> [c EXCEPT !.entries = Append(@, block), !.pos = stop]]

ParseSimpleBlock(r, c, start, size) ==
  LET head == BlockHeader(r, start, start + size)
  IN IF head.s # "ok" THEN [result |-> head, cluster |-> c]
     ELSE AddEntry(c, ParseBlock(r, start, size), start + size)

ParseBlockGroup(r, c, start, size) ==
  LET stop == start + size
      items == Items(r, start, stop)
      kids == Filled(items)
      padding == LastOf(kids, "DiscardPadding",
                        LAMBDA k : UnserializeInt(r, k.pos, k.size).v, 0)
      good == /\ items.ok /\ \A k \in ToSet(kids) : ~k.unknown
              /\ Each(kids, "DiscardPadding", LAMBDA k : UnserializeInt(r, k.pos, k.size).ok)
              /\ Each(kids, "Block",
                      LAMBDA k : BlockHeader(r, k.pos, k.pos + k.size).s = "ok")
  IN IF r.total >= 0 /\ stop > r.total THEN [result |-> Bad, cluster |-> c]
     ELSE IF stop > r.avail THEN [result |-> Need(stop), cluster |-> c]
     ELSE IF ~good THEN [result |-> Bad, cluster |-> c]
     ELSE AddEntry(c, ParseGroup(r, start, size, padding), stop)

(* Cluster::Parse from pos on.  A cluster of unknown size ends where the next
   one, or the cues, begin, or where the file ends.  *)
RECURSIVE ParseFrom(_, _, _)
ParseFrom(r, c, pos) ==
  LET stop == ClusterStop(c)
      id == IdField(r, pos, stop)
      h == HeaderField(r, pos, stop)
      past == h.next + h.size
      EndsAt(at) ==
        LET e == [c EXCEPT !.pos = at,
                           !.element_size = IF @ < 0 THEN at - c.element_start ELSE @]
        IN [result |-> Done, cluster |-> e]
      End(x) == [result |-> x, cluster |-> c]
      ofBlock == h.id \in {Id.BlockGroup, Id.SimpleBlock}
  IN IF stop >= 0 /\ pos >= stop THEN EndsAt(pos)
     ELSE IF r.total >= 0 /\ pos >= r.total THEN EndsAt(pos)
     ELSE IF id.s # "ok" THEN End(id)
     ELSE IF id.v \in {Id.Cluster, Id.Cues} THEN EndsAt(pos)
     ELSE IF h.result.s # "ok" THEN End(h.result)
     ELSE IF h.size = Unknown THEN End(Bad)
     ELSE IF h.size = 0 THEN ParseFrom(r, c, h.next)
     ELSE IF stop >= 0 /\ past > stop THEN IF ofBlock THEN End(Bad) ELSE EndsAt(stop)
     ELSE IF stop < 0 /\ r.total >= 0 /\ past > r.total THEN EndsAt(r.total)
     ELSE IF stop < 0 /\ past > r.avail THEN End(Need(past))
     ELSE IF h.id = Id.BlockGroup THEN ParseBlockGroup(r, c, h.next, h.size)
     ELSE IF h.id = Id.SimpleBlock THEN ParseSimpleBlock(r, c, h.next, h.size)
     ELSE ParseFrom(r, c, past)

(* Cluster::Parse: one more block ("ok"), or none ("done").  *)
ParseCluster(r, c) ==
  LET l == Load(r, c)
  IN IF l.result.s # "ok" THEN l
     ELSE IF ClusterStop(l.cluster) >= 0 /\ l.cluster.pos >= ClusterStop(l.cluster)
     THEN [result |-> Done, cluster |-> l.cluster]
     ELSE ParseFrom(r, l.cluster, l.cluster.pos)

(* Cluster::GetLast: all blocks that can be had.  *)
RECURSIVE ParseAll(_, _)
ParseAll(r, c) ==
  LET p == ParseCluster(r, c)
  IN IF p.result.s = "ok" THEN ParseAll(r, p.cluster) ELSE p
=============================================================================
