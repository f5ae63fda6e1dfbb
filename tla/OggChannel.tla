----------------------------- MODULE OggChannel -----------------------------
(* An encoder stream, a wire that loses, cuts and damages pages, the sync layer
   behind it and a decoder stream, driven the way test_pack and the loss and
   sync tests at the end of libogg/framing.cpp drive them: packets go in, pages
   go out as they become ready or are flushed, bytes arrive in any portions,
   pages and packets are taken when the reader likes.  *)
EXTENDS OggStream, OggSync

CONSTANTS Lengths,     \* packet lengths
          Faults,      \* what may go wrong: "lost", "cut", "damaged", "memory", "foreign", "seek"
          Disguised,   \* packets that begin with the capture pattern
          Portions,    \* how many bytes arrive at once
          MaxPackets,  \* bound: packets submitted
          MaxFaults    \* bound: things that go wrong

ASSUME ChannelAssumption ==
  /\ Lengths \subseteq Nat
  /\ Portions \subseteq Nat \ {0}
  /\ MaxPackets \in Nat
  /\ MaxFaults \in Nat

VARIABLES enc, dec,    \* the two logical streams
          oy,          \* the sync layer
          wire,        \* bytes under way
          recorded,    \* the writer has ended
          packets,     \* history: what was submitted
          pages,       \* history: pages the encoder made
          got,         \* history: pages the sync layer delivered
          log,         \* history: packet numbers, holes and seeks the reader saw
          op,          \* the packet packetout gave last
          faults       \* history: how many things went wrong

vars == <<enc, dec, oy, wire, recorded, packets, pages, got, log, op, faults>>

Serial == 1
OtherSerial == 2

NoPacket == [packet |-> <<>>, e_o_s |-> FALSE, b_o_s |-> FALSE, granulepos |-> -1, packetno |-> -1]

Init ==
  /\ enc = StreamInit(Serial) /\ dec = StreamInit(Serial) /\ oy = SyncInit
  /\ wire = <<>> /\ recorded = FALSE /\ packets = <<>> /\ pages = <<>>
  /\ got = <<>> /\ log = <<>> /\ op = NoPacket /\ faults = 0

CanFail(fault) == fault \in Faults /\ faults < MaxFaults

(* The bytes of packet k: no two packets agree in any of them, but a packet may
   begin with the capture pattern.  It does not end with it: a page cut just
   before such an end is whole again with the beginning of the next one.  *)
Bytes(k, len) ==
  [j \in 1..len |-> IF k \in Disguised /\ len > 1 /\ j = 1 THEN Capture ELSE 100 * k + j]

GranuleOf(k) == 1000 * k

-----------------------------------------------------------------------------
(* The writing side.  *)

Submit(len, e_o_s, expandable) ==
  LET k == Len(packets) + 1
      p == [packet |-> Bytes(k, len), e_o_s |-> e_o_s, granulepos |-> GranuleOf(k)]
      r == Packetin(enc, p, expandable)
  IN  /\ ~recorded /\ k <= MaxPackets /\ ~StreamEos(enc)
      /\ \A i \in DOMAIN packets : packets[i].packet # p.packet
      /\ expandable \/ CanFail("memory")
      /\ enc' = r.os
      /\ packets' = IF r.ret = 0 THEN Append(packets, p) ELSE packets
      /\ faults' = IF expandable THEN faults ELSE faults + 1
      /\ UNCHANGED <<dec, oy, wire, recorded, pages, got, log, op>>

PacketsIn == \E len \in Lengths, e_o_s, expandable \in BOOLEAN : Submit(len, e_o_s, expandable)

Transmit(tokens) == wire' = wire \o tokens

Arrives(page) == Transmit(PageTokens(page)) /\ UNCHANGED faults

Lost(page) ==
  /\ CanFail("lost") /\ faults' = faults + 1
  /\ UNCHANGED wire

Cut(page) ==
  /\ CanFail("cut") /\ faults' = faults + 1
  /\ \E n \in 1..(Len(PageTokens(page)) - 1) : Transmit(SubSeq(PageTokens(page), 1, n))

Damaged(page) ==
  /\ CanFail("damaged") /\ faults' = faults + 1
  /\ \E i \in 1..Len(PageTokens(page)) :
       Transmit([PageTokens(page) EXCEPT
                   ![i] = IF @ = Byte(Capture) THEN Byte(WildValue) ELSE Byte(Capture)])

Send(result) ==
  /\ ~recorded /\ result.ret = 1
  /\ enc' = result.os
  /\ pages' = Append(pages, result.page)
  /\ Arrives(result.page) \/ Lost(result.page) \/ Cut(result.page) \/ Damaged(result.page)
  /\ UNCHANGED <<dec, oy, recorded, packets, got, log, op>>

PageOut == Send(Pageout(enc))

FlushOut == Send(Flush(enc))

(* A page of another logical stream in the same file.  *)
Foreign ==
  /\ CanFail("foreign") /\ ~recorded /\ faults' = faults + 1
  /\ Transmit(PageTokens(
           [continued |-> FALSE, bos |-> TRUE, eos |-> FALSE, granulepos |-> 0,
            serialno |-> OtherSerial, pageno |-> 0, lens |-> <<1>>, body |-> <<Capture>>]))
  /\ UNCHANGED <<enc, dec, oy, recorded, packets, pages, got, log, op>>

(* The stream may stop anywhere: what follows reads what was written.  *)
Close ==
  /\ ~recorded /\ recorded' = TRUE
  /\ UNCHANGED <<enc, dec, oy, wire, packets, pages, got, log, op, faults>>

-----------------------------------------------------------------------------
(* The reading side.  *)

Drained == SyncPageout(oy) = [ret |-> 0, oy |-> oy]

Feed ==
  /\ recorded /\ wire # <<>> /\ Drained
  /\ \E n \in Portions :
       LET bytes == IF n < Len(wire) THEN n ELSE Len(wire)
       IN  /\ oy' = SyncWrite(oy, Take(wire, bytes))
           /\ wire' = Drop(wire, bytes)
  /\ UNCHANGED <<enc, dec, recorded, packets, pages, got, log, op, faults>>

PageIn(expandable) ==
  LET sync == SyncPageout(oy)
  IN  /\ ~Drained
      /\ oy' = sync.oy
      /\ expandable \/ (CanFail("memory") /\ sync.ret > 0)
      /\ IF sync.ret > 0
         THEN /\ got' = Append(got, sync.page)
              /\ dec' = Pagein(dec, sync.page, expandable).os
         ELSE UNCHANGED <<got, dec>>
      /\ faults' = IF expandable THEN faults ELSE faults + 1
      /\ UNCHANGED <<enc, wire, recorded, packets, pages, log, op>>

PagesIn == \E expandable \in BOOLEAN : PageIn(expandable)

(* A packet nobody submitted gets a number behind all of them.  *)
NumberOf(bytes) ==
  IF \E k \in DOMAIN packets : packets[k].packet = bytes
  THEN CHOOSE k \in DOMAIN packets : packets[k].packet = bytes
  ELSE MaxPackets + 1

HoleEntry == 0
SeekEntry == -1

(* packetout, or a peek that the reader takes the hole from.  *)
PacketOut ==
  \E adv \in BOOLEAN :
    LET r == PacketoutI(dec, adv)
    IN  /\ r.ret = -1 \/ (r.ret = 1 /\ adv)
        /\ dec' = r.os
        /\ log' = Append(log, IF r.ret = 1 THEN NumberOf(r.op.packet) ELSE HoleEntry)
        /\ op' = IF r.ret = 1 THEN r.op ELSE op
        /\ UNCHANGED <<enc, oy, wire, recorded, packets, pages, got, faults>>

(* The reader drops what it has and goes on from wherever the wire is.  *)
Seek ==
  /\ CanFail("seek") /\ recorded /\ faults' = faults + 1
  /\ oy' = SyncReset
  /\ dec' = StreamResetSerialno(dec, Serial)
  /\ log' = Append(log, SeekEntry)
  /\ UNCHANGED <<enc, wire, recorded, packets, pages, got, op>>

Next == \/ PacketsIn \/ PageOut \/ FlushOut \/ Foreign \/ Close
        \/ Feed \/ PagesIn \/ PacketOut \/ Seek

Spec == Init /\ [][Next]_vars

-----------------------------------------------------------------------------
(* A page ends inside a packet only when it has no segment left.  *)
PagesSpanOnlyWhenFull ==
  \A i \in DOMAIN pages :
    pages[i].lens[Len(pages[i].lens)] = Full => Len(pages[i].lens) = MaxSegments

(* A packet comes out with its own bytes and with the labels of its own page:
   no granule position or the one it was submitted with - 0 for the header
   packet -, the beginning flag on the first packet and on no other, the end
   flag on no packet that was not submitted as the last.  *)
PacketsKeepLabels ==
  op.packetno # -1 =>
    \E k \in DOMAIN packets :
      /\ packets[k].packet = op.packet
      /\ op.granulepos \in {-1, packets[k].granulepos} \/ (k = 1 /\ op.granulepos = 0)
      /\ op.b_o_s <=> k = 1
      /\ op.e_o_s => packets[k].e_o_s

Channel == INSTANCE PacketChannel
             WITH submitted <- Len(packets), Hole <- HoleEntry, Seek <- SeekEntry
(* Packets come out in order and none goes missing silently.  *)
ChannelSpec == Channel!Spec

Exhausted == recorded /\ wire = <<>> /\ Drained /\ Packetout(dec).ret = 0

(* The numbers that the segments of packet k have in the stream, and those of
   the segments on the i-th page.  *)
SegmentsOf(k) ==
  LET count[i \in 0..k] == IF i = 0 THEN 0
                           ELSE count[i - 1] + Len(packets[i].packet) \div Full + 1
  IN  (count[k - 1] + 1)..count[k]

SegmentsOn(i) ==
  LET count[j \in 0..i] == IF j = 0 THEN 0 ELSE count[j - 1] + Len(pages[j].lens)
  IN  (count[i - 1] + 1)..count[i]

Arrived(k) ==
  SegmentsOf(k) \subseteq UNION {SegmentsOn(i) : i \in {j \in DOMAIN pages : pages[j] \in ToSet(got)}}

(* Once the reader finds nothing more to read, every packet all of whose pages
   reached it is in the log, whatever was lost around it; and there is a hole
   only when something was lost.  *)
IntactPacketsArrive ==
  (Exhausted /\ StreamCheck(dec) /\ SeekEntry \notin ToSet(log)) =>
    /\ \A k \in DOMAIN packets : Arrived(k) => k \in ToSet(log)
    /\ faults = 0 => HoleEntry \notin ToSet(log)
=============================================================================
