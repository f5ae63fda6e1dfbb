----------------------------- MODULE OggSelfTest -----------------------------
(* The self tests of libogg (the parts of framing.cpp and bitwise.cpp under
   _V_SELFTEST), run against the models: the constants are the ones of the
   source, packets and words are the tests' own, and what the tests expect,
   down to the checksums of the pages, is what the models must compute.
   Times(n, x) stands for the long runs of equal numbers.  *)
EXTENDS Integers, Sequences, FiniteSets, Bitwise

Stream == INSTANCE OggStream WITH Full <- 255, MaxSegments <- 255, SpanPackets <- 4, NominalFill <- 4096
Sync == INSTANCE OggSync WITH Capture <- 1000, WildValue <- 1001
Pack == INSTANCE OggPack WITH B <- 8, Increment <- 256

CONSTANTS
  CrcBody,     \* bound: a page's checksum is computed up to this body length
  Outcome(_)   \* Passes, as a constant: TLC's coverage does not look into one

VARIABLES test, report

testVars == <<test, report>>

Times(n, x) == [i \in 1..n |-> x]
LastOf(s) == s[Len(s)]

-----------------------------------------------------------------------------
(* The checksum.  A word is its four bytes, the highest first.  *)
XorOfNibbles == [u \in 0..15 |-> [v \in 0..15 |-> u ^^ v]]

XorByte(u, v) == 16 * XorOfNibbles[u \div 16][v \div 16] + XorOfNibbles[u % 16][v % 16]

XorWord(u, v) == <<XorByte(u[1], v[1]), XorByte(u[2], v[2]), XorByte(u[3], v[3]), XorByte(u[4], v[4])>>

Polynomial == <<4, 193, 29, 183>>

ShiftLeft(r) == [i \in 1..4 |-> ((2 * r[i]) % 256) + (IF i < 4 THEN r[i + 1] \div 128 ELSE 0)]

CrcEntry(index) ==
  LET r[n \in 0..8] == IF n = 0 THEN <<index, 0, 0, 0>>
                       ELSE IF r[n - 1][1] >= 128 THEN XorWord(ShiftLeft(r[n - 1]), Polynomial)
                       ELSE ShiftLeft(r[n - 1])
  IN  r[8]

CrcLookup == [index \in 0..255 |-> CrcEntry(index)]

CrcByte(r, byte) == XorWord(<<r[2], r[3], r[4], 0>>, CrcLookup[XorByte(r[1], byte)])

RECURSIVE CrcOf(_, _, _, _)
CrcOf(r, bytes, from, to) ==
  IF from > to THEN r
  ELSE IF from = to THEN CrcByte(r, bytes[from])
  ELSE LET mid  == (from + to) \div 2
           half == CrcOf(r, bytes, from, mid)
       IN  IF half[4] \in 0..255 THEN CrcOf(half, bytes, mid + 1, to) ELSE r

(* n as that many bytes, the lowest first; -1 is all ones.  *)
Little(n, width) ==
  [i \in 1..width |-> IF n < 0 THEN 255 ELSE IF i > 4 THEN 0 ELSE (n \div 256 ^ (i - 1)) % 256]

Flags(page) ==
  (IF page.continued THEN 1 ELSE 0) + (IF page.bos THEN 2 ELSE 0) + (IF page.eos THEN 4 ELSE 0)

SerialBytes == <<1, 2, 3, 4>>    \* 0x04030201

PageHeader(page, crc) ==
  <<79, 103, 103, 83, 0, Flags(page)>> \o Little(page.granulepos, 8) \o SerialBytes
    \o Little(page.pageno, 4) \o crc \o <<Len(page.lens)>> \o page.lens

PageCrc(page) ==
  LET bytes == PageHeader(page, <<0, 0, 0, 0>>) \o page.body
      r     == CrcOf(<<0, 0, 0, 0>>, bytes, 1, Len(bytes))
  IN  [i \in 1..4 |-> r[5 - i]]

-----------------------------------------------------------------------------
(* The expected headers: flags, granule position, page number, checksum and
   segment table; the rest of a header is the same in all of them.  *)
Expect(flags, granule, no, crc, lens) == PageHeader(
  [continued |-> flags % 2 = 1, bos |-> (flags \div 2) % 2 = 1, eos |-> flags \div 4 = 1,
   granulepos |-> granule, pageno |-> no, lens |-> lens], crc)

NilHead == Expect(2, 0, 0, <<255, 123, 35, 23>>, <<0>>)
Head1_0 == Expect(6, 0, 0, <<21, 237, 236, 145>>, <<17>>)
Head1_1 == Expect(2, 0, 0, <<89, 16, 108, 44>>, <<17>>)
Head2_1 == Expect(4, 6151, 1, <<137, 51, 133, 206>>,
                  <<254, 255, 0, 255, 1, 255, 245, 255, 255, 0, 255, 255, 90>>)
Head1_2 == NilHead
Head2_2 == Expect(4, 10247, 1, <<92, 63, 102, 203>>,
                  <<17, 254, 255, 0, 0, 255, 1, 0, 255, 245, 255, 255, 0, 255, 255, 90, 0>>)
Head1_3 == Expect(2, 0, 0, <<1, 39, 49, 170>>, Times(17, 255) \o <<10>>)
Head2_3 == Expect(4, 2055, 1, <<127, 78, 138, 210>>, <<255, 4, 255, 0>>)
Head1_4 == NilHead
Head2_4 == Expect(0, -1, 1, <<248, 60, 25, 121>>, Times(255, 255))
Head3_4 == Expect(5, 3079, 2, <<56, 230, 182, 40>>, <<255, 220, 255, 4, 255, 0>>)
Head1_4b == NilHead
Head2_4b == Expect(0, 4103, 1, <<206, 143, 23, 26>>, Times(17, 255) \o <<10, 255, 4, 255, 0, 0>>)
Head3_4b == Expect(4, 5127, 2, <<155, 178, 80, 161>>, <<0>>)
Head1_5 == NilHead
Head2_5 == Expect(0, 261127, 1, <<237, 42, 46, 167>>, Times(255, 10))
Head3_5 == Expect(4, 262151, 2, <<108, 59, 130, 61>>, <<50>>)
Head1_6 == NilHead
Head2_6 == Expect(0, 1031, 1, <<104, 34, 124, 61>>, <<100>> \o Times(254, 255))
Head3_6 == Expect(1, -1, 2, <<244, 135, 186, 243>>, Times(255, 255))
Head4_6 == Expect(5, 4103, 3, <<247, 47, 108, 96>>, <<254, 255, 4, 255, 0>>)
Head1_7 == NilHead
Head2_7 == Head2_6
Head3_7 == Expect(5, 2055, 2, <<212, 224, 96, 229>>, <<0>>)

Packets0 == <<17>>
Packets1 == <<17, 254, 255, 256, 500, 510, 600>>
Packets2 == <<0, 17, 254, 255, 0, 256, 0, 500, 510, 600, 0>>
Packets3 == <<4345, 259, 255>>
Packets4 == <<0, 65500, 259, 255>>
Packets4b == <<0, 4345, 259, 255, 0, 0>>
Packets5 == <<0>> \o Times(255, 10) \o <<50>>
Packets6 == <<0, 100, 130049, 259, 255>>
Packets7 == <<0, 100, 64770>>

-----------------------------------------------------------------------------
(* test_pack: a packet goes in, the pages that are ready come out and go
   through the sync layer into the decoder, whose packets are taken at once.  *)
Data(i, len) == [j \in 1..len |-> (i + j - 2) % 256]

TestPacket(pl, i) ==
  [packet |-> Data(i, pl[i]), e_o_s |-> i = Len(pl), granulepos |-> 7 + 1024 * (i - 1)]

Begun(keep) ==
  [enc |-> Stream!StreamInit(1), dec |-> Stream!StreamInit(1), oy |-> Sync!SyncInit,
   pages |-> <<>>, decoded |-> <<>>, out |-> <<>>, keep |-> keep]

RECURSIVE TakePackets(_)
TakePackets(t) ==
  LET peek == Stream!Packetpeek(t.dec)
      take == Stream!Packetout(peek.os)
  IN  IF peek.ret = 0 THEN t
      ELSE IF peek.ret < 0 THEN [t EXCEPT !.dec = peek.os]
      ELSE TakePackets([t EXCEPT !.dec = take.os,
                                 !.out = Append(@, [op |-> take.op, same |-> take.op = peek.op])])

RECURSIVE TakePages(_)
TakePages(t) ==
  LET r == Sync!SyncPageout(t.oy)
      s == [t EXCEPT !.oy = r.oy]
  IN  IF r.ret = 0 THEN s
      ELSE IF r.ret < 0 THEN TakePages(s)
      ELSE TakePages(TakePackets([s EXCEPT !.decoded = Append(@, r.page),
                                           !.dec = Stream!Pagein(@, r.page, TRUE).os]))

(* What reaches the wire of the n-th page: test_pack leaves a whole page out,
   or a part of its header, the part that is behind the first byteskip bytes
   of all.  *)
OnTheWire(page, n, keep) ==
  IF n > keep.pages THEN Sync!PageTokens(page)
  ELSE SubSeq(Sync!PageTokens(page), 1, IF n = keep.pages THEN keep.tokens ELSE 0)
         \o (IF n = keep.pages THEN [i \in 1..Len(page.body) |-> Sync!Byte(page.body[i])] ELSE <<>>)

RECURSIVE RetrievePages(_)
RetrievePages(t) ==
  LET r == Stream!Pageout(t.enc)
  IN  IF r.ret = 0 THEN t
      ELSE RetrievePages(TakePages(
             [t EXCEPT !.enc = r.os, !.pages = Append(@, r.page),
                       !.oy = Sync!SyncWrite(@, OnTheWire(r.page, Len(t.pages) + 1, t.keep))]))

RECURSIVE PackFrom(_, _, _)
PackFrom(t, pl, i) ==
  IF i > Len(pl) THEN t
  ELSE PackFrom(RetrievePages([t EXCEPT !.enc = Stream!Packetin(@, TestPacket(pl, i), TRUE).os]),
                pl, i + 1)

CheckPage(page, head) ==
  LET crc == IF Len(page.body) <= CrcBody THEN PageCrc(page) ELSE SubSeq(head, 23, 26)
  IN  PageHeader(page, crc) = head

(* The checks at the end of test_pack and on its way; packetskip packets are
   not expected back.  *)
TestPack(pl, headers, keep, packetskip) ==
  LET t == PackFrom(Begun(keep), pl, 1)
      n == Len(pl) - packetskip
  IN  /\ Len(t.pages) = Len(headers)
      /\ \A i \in DOMAIN headers : CheckPage(t.pages[i], headers[i])
      /\ t.decoded = SubSeq(t.pages, keep.pages + 1, Len(t.pages))
      /\ Len(t.out) = n
      /\ \A i \in 1..n :
           /\ t.out[i].same
           /\ t.out[i].op.packet = Data(packetskip + i, pl[packetskip + i])
           /\ t.out[i].op.b_o_s = (i = 1 /\ packetskip = 0)
           /\ t.out[i].op.e_o_s = (i = n)

AllPages == [pages |-> 0, tokens |-> 0]

(* byteskip 100: the first page has 28 bytes, so 210 bytes of the header of the
   second are copied, which are 4 tokens and 183 lacing values, and its body.  *)
Skip100 == [pages |-> 2, tokens |-> 187]

-----------------------------------------------------------------------------
(* The tests of lost pages and of synchronisation.  *)
Packets8 == <<0, 1, 1, 98, 4079, 1, 1, 2954, 2057, 76, 34, 912, 0, 234, 1000, 1000, 1000, 300>>

RECURSIVE PacketsIn(_, _, _)
PacketsIn(os, pl, i) ==
  IF i > Len(pl) THEN os
  ELSE PacketsIn(Stream!Packetin(os, [packet |-> Data(i, pl[i]), e_o_s |-> i = Len(pl),
                                      granulepos |-> 1000 * i], TRUE).os, pl, i + 1)

RECURSIVE FivePages(_, _)
FivePages(os, og) ==
  LET r == Stream!Pageout(os)
  IN  IF Len(og) = 5 \/ r.ret = 0 THEN og ELSE FivePages(r.os, Append(og, r.page))

SyncTestPages == FivePages(PacketsIn(Stream!StreamInit(1), Packets8, 1), <<>>)

RECURSIVE PageinAll(_, _)
PageinAll(os, pages) ==
  IF pages = <<>> THEN os ELSE PageinAll(Stream!Pagein(os, Head(pages), TRUE).os, Tail(pages))

(* One packetout against <<length, number, granule position, sequence>>, or
   against the error that a lost page must give.  *)
Lost == <<-1, 0, 0, 0>>

RECURSIVE CheckPackets(_, _)
CheckPackets(os, expected) ==
  LET r == Stream!Packetout(os)
      e == Head(expected)
  IN  \/ expected = <<>>
      \/ /\ IF e = Lost THEN r.ret = -1
            ELSE /\ r.ret = 1
                 /\ r.op.packet = Data(e[2] + 1, e[1])
                 /\ r.op.granulepos = e[3] /\ r.op.packetno = e[4]
         /\ CheckPackets(r.os, Tail(expected))

FirstFive == << <<0, 0, 0, 0>>, <<1, 1, -1, 1>>, <<1, 2, -1, 2>>, <<98, 3, -1, 3>>, <<4079, 4, 5000, 4>> >>

LossTest(og) ==
  CheckPackets(PageinAll([Stream!StreamInit(1) EXCEPT !.pageno = -1], <<og[1], og[2], og[4]>>),
               FirstFive \o <<Lost, <<76, 9, -1, 6>>, <<34, 10, -1, 7>> >>)

RollbackTest(og) ==
  CheckPackets(PageinAll([Stream!StreamInit(1) EXCEPT !.pageno = -1], <<og[1], og[2], og[3], og[5]>>),
               FirstFive \o << <<1, 5, -1, 5>>, <<1, 6, -1, 6>>, <<2954, 7, -1, 7>>, <<2057, 8, 9000, 8>>,
                               Lost, <<300, 17, 18000, 10>> >>)

(* Bytes that arrive, and whether each of the pageouts behind them finds a
   page.  *)
RECURSIVE Pageouts(_, _)
Pageouts(oy, finds) ==
  IF finds = <<>> THEN [oy |-> oy, ok |-> TRUE]
  ELSE LET r == Sync!SyncPageout(oy)
       IN  IF (r.ret > 0) = Head(finds) THEN Pageouts(r.oy, Tail(finds)) ELSE [oy |-> oy, ok |-> FALSE]

RECURSIVE SyncScript(_, _)
SyncScript(oy, script) ==
  \/ script = <<>>
  \/ LET r == Pageouts(Sync!SyncWrite(oy, Head(script)[1]), Head(script)[2])
     IN  r.ok /\ SyncScript(r.oy, Tail(script))

Tokens(page, from, to) == SubSeq(Sync!PageTokens(page), from, to)
WholePage(page) == Sync!PageTokens(page)
BodyOf(page) == [i \in 1..Len(page.body) |-> Sync!Byte(page.body[i])]
HeaderTokens(page) == 4 + Len(page.lens)

(* Fractions of a page: nothing of it, up to the checksum, one lacing value,
   the header, 1000 bytes of the body, the rest.  *)
PartialInputs(og) ==
  LET p == og[2]
      h == HeaderTokens(p)
  IN  SyncScript(Sync!SyncReset,
        << <<Tokens(p, 1, 0), <<FALSE>> >>, <<Tokens(p, 1, 2), <<FALSE>> >>,
           <<Tokens(p, 3, 5), <<FALSE>> >>, <<Tokens(p, 6, h), <<FALSE>> >>,
           <<Tokens(p, h + 1, h + 1000), <<FALSE>> >>,
           <<Tokens(p, h + 1001, h + Len(p.body)), <<TRUE>> >> >>)

OnePlusPartial(og) ==
  LET p == og[2]
  IN  SyncScript(Sync!SyncReset,
        << <<WholePage(p) \o Tokens(p, 1, 2), <<TRUE, FALSE>> >>,
           <<Tokens(p, 3, Len(WholePage(p))), <<TRUE>> >> >>)

GarbageThenPage(og) ==
  SyncScript(Sync!SyncReset,
    << <<BodyOf(og[2]) \o WholePage(og[2]) \o Tokens(og[3], 1, 2), <<FALSE, TRUE, FALSE>> >>,
       <<Tokens(og[3], 3, Len(WholePage(og[3]))), <<TRUE>> >> >>)

Recapture(og) ==
  SyncScript(Sync!SyncReset,
    << <<WholePage(og[2]) \o Tokens(og[3], 1, HeaderTokens(og[3])) \o Tokens(og[3], 1, HeaderTokens(og[3])),
         <<TRUE>> >>,
       <<SubSeq(BodyOf(og[3]), 1, Len(og[3].body) - 5) \o WholePage(og[4]), <<FALSE, TRUE>> >> >>)

-----------------------------------------------------------------------------
(* The bit packer's tests.  *)
TestBuffer1 ==
  <<18, 12, 103948, 4325, 543, 76, 432, 52, 3, 65, 4, 56, 32, 42, 34, 21, 1, 23, 32, 546, 456, 7,
    567, 56, 8, 8, 55, 3, 52, 342, 341, 4, 265, 7, 67, 86, 2199, 21, 7, 1, 5, 1, 4>>
TestBuffer2 ==
  <<216531625, 1237861823, 56732452, 131, 3212421, 12325343, 34547562, 12313212, 1233432, 534, 5,
    346435231, 14436467, 7869299, 76326614, 167548585, 85525151, 0, 12321, 1, 349528352>>
TestBuffer3 ==
  <<1, 0, 14, 0, 1, 0, 12, 0, 1, 0, 0, 0, 1, 1, 0, 1, 0, 1, 0, 1, 0, 1, 0, 1, 0, 1, 0, 0, 1, 1, 1, 1, 1,
    0, 0, 1, 0, 1, 30, 1, 1, 1, 0, 0, 1, 0, 0, 0, 12, 0, 11, 0, 1, 0, 0, 1>>
Large ==
  <<2136531625, 2137861823, 56732452, 131, 3212421, 12325343, 34547562, 12313212, 1233432, 534, 5,
    2146435231, 14436467, 7869299, 76326614, 167548585, 85525151, 0, 12321, 1, 2146528352>>

One == <<146, 25, 44, 151, 195, 15, 153, 176, 233, 131, 196, 65, 85, 172, 47, 40, 34, 242, 223, 136, 35,
         222, 211, 86, 171, 50, 225, 135, 214, 75, 172, 223, 4>>
OneB == <<150, 101, 131, 33, 203, 15, 204, 216, 105, 193, 156, 65, 84, 85, 222, 8, 139, 145, 227, 126, 34,
          55, 244, 171, 85, 100, 39, 195, 173, 18, 245, 251, 128>>
Two == <<61, 255, 255, 251, 231, 29>>
TwoB == <<247, 63, 255, 253, 249, 120>>
Three == <<169, 2, 232, 252, 91, 132, 156, 36, 89, 13, 123, 176, 144, 32, 254, 142, 224, 85, 59, 121, 144,
           79, 124, 23, 67, 90, 90, 216, 79, 23, 83, 58, 135, 196, 61, 55, 129, 183, 54, 101, 100, 170, 37,
           127, 126, 10, 100, 52, 4, 14, 18, 86, 77, 1>>
ThreeB == <<206, 128, 42, 153, 57, 8, 183, 251, 13, 89, 36, 30, 32, 144, 183, 130, 59, 240, 121, 59, 85, 223,
            19, 228, 180, 134, 33, 107, 74, 98, 233, 253, 196, 135, 63, 2, 110, 114, 50, 155, 90, 127, 37,
            170, 104, 200, 20, 254, 4, 58, 106, 176, 144, 0>>
Four == <<18, 6, 163, 252, 97, 194, 104, 131, 32, 1, 7, 82, 137, 42, 129, 11, 72, 132, 60, 220, 112, 8, 196,
          109, 64, 179, 86, 9, 137, 195, 208, 122, 169, 28, 2, 133, 0, 1>>
FourB == <<36, 48, 102, 83, 243, 24, 52, 7, 4, 35, 132, 10, 145, 21, 2, 93, 2, 41, 1, 219, 184, 16, 33, 184,
           54, 149, 170, 132, 18, 30, 29, 98, 229, 67, 129, 10, 4, 32>>
Five == <<169, 2, 126, 139, 144, 172, 30, 4, 80, 72, 240, 59, 130, 218, 73, 62, 241, 24, 210, 44, 4, 20, 0,
          248, 116, 49, 135, 100, 110, 130, 181, 169, 84, 75, 159, 2, 1, 0, 132, 192, 8, 0, 0, 18, 22>>
FiveB == <<1, 84, 145, 111, 245, 100, 128, 8, 56, 36, 40, 71, 126, 78, 213, 226, 124, 105, 12, 0, 133, 128,
           0, 162, 233, 242, 67, 152, 77, 205, 77, 172, 150, 169, 129, 79, 128, 0, 6, 4, 32, 0, 27, 9, 0>>
Six == <<17, 177, 170, 242, 169, 19, 148>>
SixB == <<136, 141, 85, 79, 149, 200, 41>>

OneBits(v) == {k \in 0..30 : (v \div 2 ^ k) % 2 = 1}
ByteOf(ones) == LET sum[k \in -1..7] == IF k = -1 THEN 0 ELSE sum[k - 1] + (IF k \in ones THEN 2 ^ k ELSE 0)
                IN  sum[7]

Ilog(v) == Cardinality({k \in 0..30 : v >= 2 ^ k})

WidthOf(v, bits) == IF bits # 0 THEN bits ELSE Ilog(v)

RECURSIVE WriteAll(_, _, _, _)
WriteAll(o, msb, values, bits) ==
  IF values = <<>> THEN o
  ELSE WriteAll(Pack!Write(o, msb, OneBits(Head(values)), WidthOf(Head(values), bits), TRUE),
                msb, Tail(values), bits)

(* A look and a read of the same word; a single bit goes through look1 and
   read1 as well.  *)
RECURSIVE ReadsAll(_, _, _, _)
ReadsAll(r, msb, values, bits) ==
  IF values = <<>> THEN Pack!Bytes(r) = r.storage
  ELSE LET n    == WidthOf(Head(values), bits)
           word == OneBits(Head(values)) \cap 0..(n - 1)
           read == IF n = 1 THEN Pack!Read1(r, msb) ELSE Pack!Read(r, msb, n)
       IN  /\ Pack!Look(r, msb, n) = word
           /\ n = 1 => Pack!Look1(r, msb) = word
           /\ read.ret = word
           /\ n = 32 => Pack!Adv(r, n) = read.b
           /\ ReadsAll(read.b, msb, Tail(values), bits)

Cliptest(msb, values, bits, comp) ==
  LET o == WriteAll(Pack!Reset(Pack!Writeinit), msb, values, bits)
  IN  /\ Pack!Bytes(o) = Len(comp)
      /\ \A i \in DOMAIN comp : ByteOf(o.buffer[i]) = comp[i]
      /\ ReadsAll(Pack!Readinit(o.buffer, Pack!Bytes(o)), msb, values, bits)

WideTest(msb) ==
  LET o == WriteAll(Pack!Reset(Pack!Writeinit), msb, Large, 32)
  IN  ReadsAll(Pack!Readinit(o.buffer, Pack!Bytes(o)), msb, Large, 32)

PastEnd(msb) ==
  LET zeros   == Pack!Readinit(Times(8, {}), 8)
      after[n \in 0..64] == IF n = 0 THEN zeros ELSE Pack!Read(after[n - 1], msb, 1).b
      at46    == Pack!Read(Pack!Read(zeros, msb, 30).b, msb, 16)
  IN  /\ \A n \in 0..63 : Pack!Read(after[n], msb, 1).ret = {}
      /\ Pack!Look(after[64], msb, 1) = Pack!Error /\ Pack!Read(after[64], msb, 1).ret = Pack!Error
      /\ Pack!Read(zeros, msb, 30).ret = {} /\ at46.ret = {}
      /\ Pack!Look(at46.b, msb, 18) = {}
      /\ \A n \in {19, 32} : Pack!Look(at46.b, msb, n) = Pack!Error

-----------------------------------------------------------------------------
Passes(n) ==
  CASE n = 1 -> TestPack(Packets0, <<Head1_0>>, AllPages, 0)
    [] n = 2 -> TestPack(Packets1, <<Head1_1, Head2_1>>, AllPages, 0)
    [] n = 3 -> TestPack(Packets2, <<Head1_2, Head2_2>>, AllPages, 0)
    [] n = 4 -> TestPack(Packets3, <<Head1_3, Head2_3>>, AllPages, 0)
    [] n = 5 -> TestPack(Packets4, <<Head1_4, Head2_4, Head3_4>>, AllPages, 0)
    [] n = 6 -> TestPack(Packets4b, <<Head1_4b, Head2_4b, Head3_4b>>, AllPages, 0)
    [] n = 7 -> TestPack(Packets5, <<Head1_5, Head2_5, Head3_5>>, AllPages, 0)
    [] n = 8 -> TestPack(Packets6, <<Head1_6, Head2_6, Head3_6, Head4_6>>, AllPages, 0)
    [] n = 9 -> TestPack(Packets6, <<Head1_6, Head2_6, Head3_6, Head4_6>>, Skip100, 3)
    [] n = 10 -> TestPack(Packets7, <<Head1_7, Head2_7, Head3_7>>, AllPages, 0)
    [] n = 11 -> LossTest(SyncTestPages)
    [] n = 12 -> RollbackTest(SyncTestPages)
    [] n = 13 -> PartialInputs(SyncTestPages)
    [] n = 14 -> OnePlusPartial(SyncTestPages)
    [] n = 15 -> GarbageThenPage(SyncTestPages)
    [] n = 16 -> Recapture(SyncTestPages)
    [] n = 17 -> Cliptest(FALSE, TestBuffer1, 0, One) /\ Cliptest(TRUE, TestBuffer1, 0, OneB)
    [] n = 18 -> Cliptest(FALSE, TestBuffer3, 0, Two) /\ Cliptest(TRUE, TestBuffer3, 0, TwoB)
    [] n = 19 -> Cliptest(FALSE, TestBuffer2, 0, Three) /\ Cliptest(TRUE, TestBuffer2, 0, ThreeB)
    [] n = 20 -> WideTest(FALSE) /\ WideTest(TRUE)
    [] n = 21 -> Cliptest(FALSE, TestBuffer1, 7, Four) /\ Cliptest(TRUE, TestBuffer1, 7, FourB)
    [] n = 22 -> Cliptest(FALSE, TestBuffer2, 17, Five) /\ Cliptest(TRUE, TestBuffer2, 17, FiveB)
    [] n = 23 -> Cliptest(FALSE, TestBuffer3, 1, Six) /\ Cliptest(TRUE, TestBuffer3, 1, SixB)
    [] n = 24 -> PastEnd(FALSE) /\ PastEnd(TRUE)

Tests == 24

TestInit == test = 0 /\ report = {}

(* One test after the other; report has the ones that failed.  *)
RunTest ==
  /\ test < Tests
  /\ test' = test + 1
  /\ report' = IF Outcome(test + 1) THEN report ELSE report \cup {test + 1}

TestSpec == TestInit /\ [][RunTest]_testVars

-----------------------------------------------------------------------------
(* The models compute what libogg's own tests expect.  *)
SelfTestsPass == report = {}
=============================================================================
