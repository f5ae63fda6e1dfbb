---------------------------- MODULE OggPackClient ----------------------------
(* A program that packs words into a buffer with libogg's bit packer, in either
   bit order, and then reads the packed bytes back: every legal sequence of the
   calls, in a machine of small bytes.  written is what the buffer should hold:
   the bits in the order in which a reader meets them.  *)
EXTENDS OggPack

CONSTANTS PackOps,    \* bound: calls that pack
          ReadOps,    \* bound: calls that read
          PackWidths, \* widths a client asks for
          Source      \* bytes that are copied into the buffer

VARIABLES o, r, msb, written, calls, pos, got, wanted

packVars == <<o, r, msb, written, calls, pos, got, wanted>>

NotReading == -1

PackInit ==
  /\ msb \in BOOLEAN
  /\ o = Writeinit
  /\ r = Cleared
  /\ written = <<>>
  /\ calls = 0
  /\ pos = NotReading
  /\ got = {} /\ wanted = {}

(* The bits of a value as a reader meets them.  *)
InOrderOf(order, value, n) == [j \in 1..n |-> (IF order THEN n - j ELSE j - 1) \in value]

(* Values of a width: none, all and some of the bits, and bits beyond it.  *)
ValuesOf(n) == {{}, 0..(n - 1), {n - 1, n, 2 * B}}

Packed(packer, bits) ==
  /\ pos = NotReading /\ calls < PackOps
  /\ calls' = calls + 1
  /\ o' = packer
  /\ written' = IF packer.null THEN <<>> ELSE bits
  /\ UNCHANGED <<r, msb, pos, got, wanted>>

PackWord ==
  \E n \in PackWidths, memory \in BOOLEAN : \E value \in ValuesOf(n) :
    Packed(Write(o, msb, value, n, memory),
           IF n \in 0..MaxBits THEN written \o InOrderOf(msb, value, n) ELSE <<>>)

PackAlign ==
  LET short == (B - o.endbit) % B
  IN  Packed(Writealign(o, msb, TRUE), written \o [j \in 1..short |-> FALSE])

PackTrunc ==
  \E n \in {0, B, B + 1, 2 * B + 2} \cap 0..Len(written) :
    Packed(Writetrunc(o, msb, n), SubSeq(written, 1, n))

(* Bit j of the copied stream.  *)
SourceBits(n) == [j \in 1..n |-> BitAt(msb, (j - 1) % B) \in Source[(j - 1) \div B + 1]]

PackCopy ==
  \E n \in {1, B, B + 1, 2 * B} :
    Packed(Writecopy(o, msb, Source, n, TRUE), written \o SourceBits(n))

PackReset == written # <<>> /\ Packed(Reset(o), <<>>)

ReadStart ==
  /\ pos = NotReading /\ Writecheck(o)
  /\ r' = Readinit(o.buffer, Bytes(o))
  /\ pos' = 0 /\ calls' = 0
  /\ o' = Cleared
  /\ UNCHANGED <<msb, written, got, wanted>>

Whole == B * r.storage

(* What n bits from here should be: behind the last bit written come zeros up
   to the end of its byte, and then nothing.  *)
Wanted(n) ==
  IF n \notin 0..MaxBits \/ pos + n > Whole THEN Error
  ELSE {i \in 0..(n - 1) :
          LET j == pos + Place(msb, i, n) + 1 IN j <= Len(written) /\ written[j]}

ReadCall(n, value, reader, ahead) ==
  /\ pos # NotReading /\ calls < ReadOps
  /\ calls' = calls + 1
  /\ got' = value
  /\ wanted' = Wanted(n)
  /\ r' = reader
  /\ pos' = ahead
  /\ UNCHANGED <<o, msb, written>>

(* Once a read or an advance fails, the reader stays behind the end.  *)
Moved(n) == IF n \notin 0..MaxBits \/ pos + n > Whole THEN Whole + 1 ELSE pos + n

ReadWord == \E n \in PackWidths : LET read == Read(r, msb, n) IN ReadCall(n, read.ret, read.b, Moved(n))
ReadBit == LET read == Read1(r, msb) IN ReadCall(1, read.ret, read.b, Moved(1))
(* A look, and an advance over what was looked at.  *)
LookAndAdv ==
  \E n \in PackWidths \cap 0..MaxBits : ReadCall(n, Look(r, msb, n), Adv(r, n), Moved(n))
LookAndAdv1 ==
  pos < Whole /\ ReadCall(1, Look1(r, msb), Adv1(r), Moved(1))

PackNext ==
  \/ PackWord \/ PackAlign \/ PackTrunc \/ PackCopy \/ PackReset
  \/ ReadStart
  \/ ReadWord \/ ReadBit \/ LookAndAdv \/ LookAndAdv1

PackSpec == PackInit /\ [][PackNext]_packVars

-----------------------------------------------------------------------------
(* A read, or a look, returns the bits that were written at its place, at every
   offset and width, and -1 exactly when not all of its bits are there; after a
   read that failed every later one fails.  *)
ReadsWhatWasPacked == got = wanted
=============================================================================
