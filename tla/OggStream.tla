------------------------------ MODULE OggStream ------------------------------
(* libogg's logical stream (libogg/framing.cpp): packets are cut into segments
   (the lacing values), segments are gathered into pages, and pages are taken
   apart into packets again.  The state of a stream is a record with the fields
   of ogg_stream_state that the functions decide on; the functions are
   operators from a state to a result with the state after the call.  One
   record serves the encoder and the decoder, as in the source.  *)
EXTENDS Integers, Sequences, FiniteSets, SequencesExt

CONSTANTS Full,        \* a lacing value that says "the packet goes on": 255
          MaxSegments, \* segments on a page: 255
          SpanPackets, \* packets a page of nominal size must complete: 4
          NominalFill  \* bytes that make a page worth sending: 4096

ASSUME SizeAssumption ==
  /\ Full \in Nat \ {0}
  /\ MaxSegments \in Nat \ {0}
  /\ SpanPackets \in Nat
  /\ NominalFill \in Nat

(* One entry of lacing_vals and granule_vals.  first, last and hole are the
   flag bits 0x100, 0x200 and 0x400 above the eight bits of the length.  *)
Segment(len, granule) ==
  [len |-> len, granule |-> granule, first |-> FALSE, last |-> FALSE, hole |-> FALSE]

HoleMark == [Segment(0, -1) EXCEPT !.hole = TRUE]

(* body_data is missing only after ogg_stream_clear, which every failed
   allocation runs: from then on ogg_stream_check refuses every call.  *)
Zeroed ==
  [body |-> <<>>, body_returned |-> 0,
   lacing |-> <<>>, lacing_packet |-> 0, lacing_returned |-> 0,
   e_o_s |-> FALSE, b_o_s |-> FALSE,
   serialno |-> 0, pageno |-> 0, packetno |-> 0, granulepos |-> 0,
   allocated |-> FALSE]

StreamInit(serialno) == [Zeroed EXCEPT !.serialno = serialno, !.allocated = TRUE]

StreamClear == Zeroed

StreamCheck(os) == os.allocated

StreamReset(os) ==
  IF StreamCheck(os) THEN [StreamInit(os.serialno) EXCEPT !.pageno = -1] ELSE os

StreamResetSerialno(os, serialno) ==
  IF StreamCheck(os) THEN [StreamReset(os) EXCEPT !.serialno = serialno] ELSE os

Drop(s, n) == SubSeq(s, n + 1, Len(s))
Take(s, n) == SubSeq(s, 1, n)

-----------------------------------------------------------------------------
(* Encoding: packets to segments.  *)

Lacing(bytes, granule, previous) ==
  LET whole == bytes \div Full
      tail  == Segment(bytes % Full, granule)
      all   == [i \in 1..whole |-> Segment(Full, previous)] \o <<tail>>
  IN  [all EXCEPT ![1].first = TRUE]

(* ogg_stream_iovecin: the pieces of one packet, copied one behind the other.
   expandable is FALSE when the allocation of more room fails.  *)
Iovecin(os, iov, e_o_s, granulepos, expandable) ==
  LET packet == FlattenSeq(iov)
  IN  IF ~StreamCheck(os) THEN [ret |-> -1, os |-> os]
      ELSE IF ~expandable THEN [ret |-> -1, os |-> StreamClear]
      ELSE [ret |-> 0,
            os  |-> [os EXCEPT
                       !.body = Drop(@, os.body_returned) \o packet,
                       !.body_returned = 0,
                       !.lacing = @ \o Lacing(Len(packet), granulepos, os.granulepos),
                       !.granulepos = granulepos,
                       !.packetno = @ + 1,
                       !.e_o_s = @ \/ e_o_s]]

Packetin(os, op, expandable) ==
  Iovecin(os, <<op.packet>>, op.e_o_s, op.granulepos, expandable)

-----------------------------------------------------------------------------
(* Encoding: segments to pages.  *)

Ends(lacing, n) == {i \in 1..n : lacing[i].len < Full}

(* All prefix sums of the lacing values at once.  *)
Filled(lacing, n) ==
  LET acc[i \in 0..n] == IF i = 0 THEN 0 ELSE acc[i - 1] + lacing[i].len
  IN  acc

(* The header page holds the first packet only, as far as it fits.  *)
HeaderPageSegments(lacing, maxvals) ==
  IF Ends(lacing, maxvals) = {} THEN maxvals ELSE Min(Ends(lacing, maxvals))

(* Variant: a page stops wherever it is big enough.  *)
StopsAnywhere(lacing, maxvals, nfill) ==
  {v \in 1..(maxvals - 1) : Filled(lacing, maxvals)[v] > nfill}

(* Where a page may stop before all that fits is on it: behind a packet, with
   more than nfill bytes and at least SpanPackets packets.  *)
NominalStops(lacing, maxvals, nfill) ==
  LET acc == Filled(lacing, maxvals)
  IN  {v \in Ends(lacing, maxvals - 1) :
         acc[v] > nfill /\ Cardinality(Ends(lacing, v)) >= SpanPackets}

(* Variant: the granule position of the first packet that ends on the page.  *)
GranuleOfFirstPacket(os, vals) ==
  IF Ends(os.lacing, vals) = {} THEN -1 ELSE os.lacing[Min(Ends(os.lacing, vals))].granule

PageGranule(os, vals) ==
  IF ~os.b_o_s THEN 0
  ELSE LET ends == Ends(os.lacing, vals)
       IN  IF ends = {} THEN -1 ELSE os.lacing[Max(ends)].granule

(* A page, as its header and body say it.  lens is the segment table.  *)
BuildPage(os, vals, pageno) ==
  LET lens  == [i \in 1..vals |-> os.lacing[i].len]
      bytes == Filled(os.lacing, vals)[vals]
  IN  [continued |-> ~os.lacing[1].first,
       bos |-> ~os.b_o_s,
       eos |-> os.e_o_s /\ Len(os.lacing) = vals,
       granulepos |-> PageGranule(os, vals),
       serialno |-> os.serialno,
       pageno |-> pageno,
       lens |-> lens,
       body |-> SubSeq(os.body, os.body_returned + 1, os.body_returned + bytes)]

(* ogg_stream_flush_i.  *)
FlushI(os, force, nfill) ==
  LET maxvals == IF Len(os.lacing) > MaxSegments THEN MaxSegments ELSE Len(os.lacing)
      stops   == NominalStops(os.lacing, maxvals, nfill)
      vals    == IF ~os.b_o_s THEN HeaderPageSegments(os.lacing, maxvals)
                 ELSE IF stops # {} THEN Min(stops) ELSE maxvals
      forced  == force \/ (os.b_o_s /\ (stops # {} \/ vals = MaxSegments))
      pageno  == IF os.pageno = -1 THEN 0 ELSE os.pageno
      page    == BuildPage(os, vals, pageno)
  IN  IF ~StreamCheck(os) \/ maxvals = 0 \/ ~forced
      THEN [ret |-> 0, os |-> os]
      ELSE [ret |-> 1, page |-> page,
            os  |-> [os EXCEPT
                       !.lacing = Drop(@, vals),
                       !.body_returned = @ + Len(page.body),
                       !.b_o_s = TRUE,
                       !.pageno = pageno + 1]]

FlushFill(os, nfill) == FlushI(os, TRUE, nfill)

Flush(os) == FlushFill(os, NominalFill)

PageoutFill(os, nfill) ==
  IF ~StreamCheck(os) THEN [ret |-> 0, os |-> os]
  ELSE FlushI(os, os.lacing # <<>> /\ (os.e_o_s \/ ~os.b_o_s), nfill)

Pageout(os) == PageoutFill(os, NominalFill)

StreamEos(os) == ~StreamCheck(os) \/ os.e_o_s

-----------------------------------------------------------------------------
(* Decoding: pages to segments.  *)

LacedBytes(lacing) == Filled(lacing, Len(lacing))[Len(lacing)]

(* What packetout has handed out is given up with the next page.  *)
CleanReturned(os) ==
  [os EXCEPT !.body = Drop(@, os.body_returned), !.body_returned = 0,
             !.lacing = Drop(@, os.lacing_returned),
             !.lacing_packet = @ - os.lacing_returned,
             !.lacing_returned = 0]

(* Variant: the gap is not marked.  *)
RollBackUnmarked(os) ==
  [os EXCEPT !.body = Take(@, Len(@) - LacedBytes(Drop(os.lacing, os.lacing_packet))),
             !.lacing = Take(@, os.lacing_packet)]

(* A page out of sequence: the packet it leaves incomplete is taken back, and
   a mark says that something is missing - not right after a reset, when
   nothing came before.  *)
OutOfSequence(os) ==
  LET partial == LacedBytes(Drop(os.lacing, os.lacing_packet))
      kept    == Take(os.lacing, os.lacing_packet)
      marked  == os.pageno # -1
  IN  [os EXCEPT !.body = Take(@, Len(@) - partial),
                 !.lacing = IF marked THEN Append(kept, HoleMark) ELSE kept,
                 !.lacing_packet = IF marked THEN @ + 1 ELSE @]

(* Variant: the whole page is skipped.  *)
SkipWholePage(os, page) ==
  IF page.continued /\ (os.lacing = <<>> \/ Last(os.lacing) = HoleMark)
  THEN Len(page.lens) ELSE 0

(* Segments at the head of a continued page whose beginning is not there.  The
   source compares the whole entry with the mark, flags included.  *)
SkippedSegments(os, page) ==
  LET ends == {i \in DOMAIN page.lens : page.lens[i] < Full}
  IN  IF ~page.continued \/ ~(os.lacing = <<>> \/ Last(os.lacing) = HoleMark) THEN 0
      ELSE IF ends = {} THEN Len(page.lens) ELSE Min(ends)

PageSegments(page, skip, bos) ==
  LET ends  == {i \in (skip + 1)..Len(page.lens) : page.lens[i] < Full}
      saved == IF ends = {} THEN 0 ELSE Max(ends)
  IN  [k \in 1..(Len(page.lens) - skip) |->
         [Segment(page.lens[k + skip], IF k + skip = saved THEN page.granulepos ELSE -1)
            EXCEPT !.first = bos /\ k = 1]]

(* The tail of ogg_stream_pagein, for a page of this stream.  *)
TakeIn(os, page) ==
  LET skip  == SkippedSegments(os, page)
      added == PageSegments(page, skip, page.bos /\ skip = 0)
      all   == os.lacing \o added
      ends  == {i \in (Len(os.lacing) + 1)..Len(all) : all[i].len < Full}
      bytes == LacedBytes(added)
  IN  [os EXCEPT !.body = @ \o Drop(page.body, Len(page.body) - bytes),
                 !.lacing = IF page.eos /\ all # <<>>
                            THEN [all EXCEPT ![Len(all)].last = TRUE] ELSE all,
                 !.lacing_packet = IF ends = {} THEN @ ELSE Max(ends),
                 !.e_o_s = @ \/ page.eos,
                 !.pageno = page.pageno + 1]

Pagein(os, page, expandable) ==
  LET clean == CleanReturned(os)
      ready == IF page.pageno # clean.pageno THEN OutOfSequence(clean) ELSE clean
  IN  IF ~StreamCheck(os) THEN [ret |-> -1, os |-> os]
      ELSE IF page.serialno # os.serialno THEN [ret |-> -1, os |-> clean]
      ELSE IF ~expandable THEN [ret |-> -1, os |-> StreamClear]
      ELSE [ret |-> 0, os |-> TakeIn(ready, page)]

-----------------------------------------------------------------------------
(* Decoding: segments to packets.  *)

(* _packetout: the mark of a hole is consumed even by a peek.  *)
PacketoutI(os, adv) ==
  LET ptr   == os.lacing_returned + 1
      last  == Min({i \in ptr..Len(os.lacing) : os.lacing[i].len < Full})
      bytes == LacedBytes(SubSeq(os.lacing, ptr, last))
      op    == [packet |-> SubSeq(os.body, os.body_returned + 1, os.body_returned + bytes),
                b_o_s |-> os.lacing[ptr].first,
                e_o_s |-> \E i \in ptr..last : os.lacing[i].last,
                granulepos |-> os.lacing[last].granule,
                packetno |-> os.packetno]
  IN  IF ~StreamCheck(os) \/ os.lacing_packet < ptr THEN [ret |-> 0, os |-> os]
      ELSE IF os.lacing[ptr].hole
      THEN [ret |-> -1, os |-> [os EXCEPT !.lacing_returned = @ + 1, !.packetno = @ + 1]]
      ELSE [ret |-> 1, op |-> op,
            os  |-> IF adv THEN [os EXCEPT !.body_returned = @ + bytes,
                                           !.lacing_returned = last,
                                           !.packetno = @ + 1]
                    ELSE os]

Packetout(os) == PacketoutI(os, TRUE)
Packetpeek(os) == PacketoutI(os, FALSE)
=============================================================================
