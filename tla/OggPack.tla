------------------------------- MODULE OggPack -------------------------------
(* libogg's bit packer (libogg/bitwise.cpp), in both bit orders.  A byte and a
   value are the sets of their one bits, so that or is union, a mask is an
   intersection and a shift renumbers.  Bits of the stream are numbered from
   endbit of the byte at ptr on: LSb first puts bit i of a value at place i and
   place q of a byte at its bit q, MSb first turns both around.  *)
EXTENDS Integers, Sequences, FiniteSets

CONSTANTS B,          \* bits of a byte: 8
          Increment   \* BUFFER_INCREMENT

MaxBits == 4 * B

(* Memory that was never written: all ones, the worst case for an or.  *)
Garbage == 0..(B - 1)

(* The buffer of a packer; ptr is buffer + endbyte except when it is null.  *)
Cleared == [buffer |-> <<>>, storage |-> 0, endbyte |-> 0, endbit |-> 0, null |-> TRUE]

Grown(b, storage) ==
  [b EXCEPT !.storage = storage,
            !.buffer = [i \in 1..storage |-> IF i \in DOMAIN b.buffer THEN b.buffer[i] ELSE Garbage]]

Writeinit ==
  [buffer |-> [i \in 1..Increment |-> IF i = 1 THEN {} ELSE Garbage],
   storage |-> Increment, endbyte |-> 0, endbit |-> 0, null |-> FALSE]

Writeclear == Cleared

Writecheck(b) == ~b.null /\ b.storage # 0

(* mask and mask8B: the places before the n-th of a byte.  *)
Mask(msb, n) == IF msb THEN (B - n)..(B - 1) ELSE 0..(n - 1)

(* oggpack_writetrunc: the byte that is now the last keeps the bits before
   the end, those behind it are never looked at again.  *)
Writetrunc(b, msb, bits) ==
  LET bytes == bits \div B
      rest  == bits % B
  IN  IF b.null THEN b
      ELSE [b EXCEPT !.endbyte = bytes, !.endbit = rest,
                     !.buffer[bytes + 1] = @ \cap Mask(msb, rest)]

(* Where bit i of a value of some width comes in the stream, and which bit of
   a byte place q of it is.  *)
Place(msb, i, bits) == IF msb THEN bits - 1 - i ELSE i

(* Variant: a byte is filled from the same end in both orders.  *)
BitAtLSb(msb, q) == q

BitAt(msb, q) == IF msb THEN B - 1 - q ELSE q

(* The bits of a value that fall into the k-th byte from ptr.  *)
Share(msb, value, bits, endbit, k) ==
  {BitAt(msb, q) : q \in {p \in 0..(B - 1) :
      \E i \in value \cap 0..(bits - 1) : endbit + Place(msb, i, bits) = k * B + p}}

(* The byte at ptr is completed, the ones after it are overwritten, the last
   of them even if no bit of the value falls into it.  *)
Put(b, msb, value, bits) ==
  LET end == b.endbit + bits
  IN  [b EXCEPT !.buffer =
                  [i \in DOMAIN @ |->
                     LET k == i - 1 - b.endbyte
                     IN  IF k = 0 THEN @[i] \cup Share(msb, value, bits, b.endbit, 0)
                         ELSE IF k > 0 /\ end >= k * B THEN Share(msb, value, bits, b.endbit, k)
                         ELSE @[i]],
                !.endbyte = @ + end \div B,
                !.endbit = end % B]

(* oggpack_write and oggpackB_write.  memory is whether a realloc succeeds.  *)
Write(b, msb, value, bits, memory) ==
  IF bits \notin 0..MaxBits THEN Cleared
  ELSE IF b.endbyte < b.storage - 4 THEN Put(b, msb, value, bits)
  ELSE IF b.null THEN b
  ELSE IF ~memory THEN Cleared
  ELSE Put(Grown(b, b.storage + Increment), msb, value, bits)

Writealign(b, msb, memory) ==
  IF B - b.endbit < B THEN Write(b, msb, {}, B - b.endbit, memory) ELSE b

RECURSIVE WriteBytes(_, _, _, _)
WriteBytes(b, msb, source, memory) ==
  IF source = <<>> THEN b
  ELSE WriteBytes(Write(b, msb, Head(source), B, memory), msb, Tail(source), memory)

(* memmove of whole bytes, and a fresh byte behind them.  *)
PutBytes(b, source) ==
  LET n == Len(source)
  IN  [b EXCEPT !.buffer = [i \in DOMAIN @ |->
                              IF i - b.endbyte \in 1..n THEN source[i - b.endbyte]
                              ELSE IF i - b.endbyte = n + 1 THEN {} ELSE @[i]],
                !.endbyte = @ + n]

(* The rest of a copy: the first bits of the byte behind the whole ones.  *)
LastBits(msb, byte, bits) ==
  IF msb THEN {i - (B - bits) : i \in byte \cap (B - bits)..(B - 1)} ELSE byte

(* oggpack_writecopy_helper.  An aligned copy that needs room first asks that
   there be Increment bytes of room, which there never are then: it fails and
   clears the buffer, and the code that would grow it is never reached.  *)
Writecopy(b, msb, source, bits, memory) ==
  LET bytes == bits \div B
      rest  == bits % B
      whole == SubSeq(source, 1, bytes)
      fits  == b.endbyte + bytes + 1 < b.storage
      body  == IF b.endbit # 0 THEN WriteBytes(b, msb, whole, memory) ELSE PutBytes(b, whole)
  IN  IF b.endbit = 0 /\ ~fits THEN Cleared
      ELSE IF rest = 0 THEN body
      ELSE Write(body, msb, LastBits(msb, source[bytes + 1], rest), rest, memory)

Reset(b) ==
  IF b.null THEN b ELSE [b EXCEPT !.buffer[1] = {}, !.endbyte = 0, !.endbit = 0]

Bytes(b) == b.endbyte + (b.endbit + B - 1) \div B
Bits(b) == b.endbyte * B + b.endbit

-----------------------------------------------------------------------------
(* Reading.  *)

Readinit(buffer, bytes) ==
  [buffer |-> SubSeq(buffer, 1, bytes), storage |-> bytes, endbyte |-> 0, endbit |-> 0,
   null |-> FALSE]

(* A long has MaxBits bits: -1 is the value with all of them.  *)
Error == 0..(MaxBits - 1)

(* The value in the next bits: places that lie behind the buffer are only
   asked for when the check on the size has passed.  *)
Peek(b, msb, bits) ==
  {i \in 0..(bits - 1) :
     LET p == b.endbit + Place(msb, i, bits)
     IN  BitAt(msb, p % B) \in b.buffer[b.endbyte + p \div B + 1]}

BytesOf(bits) == (bits + B - 1) \div B

(* Variant: the bits already read of the byte are not counted.  *)
MissingFromByte(b, bits) ==
  \/ bits \notin 0..MaxBits
  \/ b.endbyte > b.storage - BytesOf(bits)

(* Far from the end every read has its bytes; near it the size is checked.  *)
Missing(b, bits) ==
  \/ bits \notin 0..MaxBits
  \/ /\ b.endbyte >= b.storage - 4
     /\ b.endbyte > b.storage - BytesOf(b.endbit + bits)

(* oggpack_look and oggpackB_look.  *)
Look(b, msb, bits) == IF Missing(b, bits) THEN Error ELSE Peek(b, msb, bits)

Overflow(b) == [b EXCEPT !.null = TRUE, !.endbyte = b.storage, !.endbit = 1]

Ahead(b, bits) ==
  [b EXCEPT !.endbyte = @ + (b.endbit + bits) \div B, !.endbit = (@ + bits) % B]

Adv(b, bits) ==
  IF b.endbyte > b.storage - BytesOf(b.endbit + bits) THEN Overflow(b) ELSE Ahead(b, bits)

(* oggpack_read and oggpackB_read.  *)
Read(b, msb, bits) ==
  IF Missing(b, bits) THEN [ret |-> Error, b |-> Overflow(b)]
  ELSE [ret |-> Peek(b, msb, bits), b |-> Ahead(b, bits)]

Look1(b, msb) ==
  IF b.endbyte >= b.storage THEN Error ELSE Peek(b, msb, 1)

Adv1(b) ==
  IF b.endbit + 1 > B - 1 THEN [b EXCEPT !.endbit = 0, !.endbyte = @ + 1]
  ELSE [b EXCEPT !.endbit = @ + 1]

Read1(b, msb) ==
  IF b.endbyte >= b.storage THEN [ret |-> Error, b |-> Overflow(b)]
  ELSE [ret |-> Peek(b, msb, 1), b |-> Adv1(b)]
=============================================================================
