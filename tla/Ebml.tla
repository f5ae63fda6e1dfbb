-------------------------------- MODULE Ebml --------------------------------
(* EBML serialization: src/src/libwebm/mkvmuxerutil.cpp over the file of
   mkvwriter.cpp, byte by byte.

   A writer is a record: the bytes of the file, the position in it, how many
   bytes the device has room for, whether the file is open, and ok, which the
   first failing call makes FALSE: every writer of the library returns at once
   when a call fails, so a call on a writer that is not ok does nothing.
   Values are below 2^31; a string is the sequence of its bytes, a NULL pointer
   is Null, and a float is a whole number below 2^24.  *)
EXTENDS Integers, SequencesExt, MkvIds

Null == <<-1>>

NewWriter(room) ==
  [out |-> <<>>, pos |-> 0, room |-> room, open |-> TRUE, ok |-> TRUE]

Fail(w) == [w EXCEPT !.ok = FALSE]

(* fwrite at the file's position; what does not fit is lost.  *)
PutBytes(w, bytes) ==
  LET n == Len(bytes)
      fit == IF w.pos + n <= w.room THEN n
             ELSE IF w.pos >= w.room THEN 0 ELSE w.room - w.pos
      put == SubSeq(bytes, 1, fit)
  IN CASE ~w.ok \/ n = 0 -> w
       [] w.ok /\ n > 0 /\ ~w.open -> Fail(w)
       [] OTHER ->
            [w EXCEPT
               !.out = IF w.pos = Len(@) THEN @ \o put
                       ELSE SubSeq(@, 1, w.pos) \o put
                              \o SubSeq(@, w.pos + fit + 1, Len(@)),
               !.pos = @ + fit,
               !.ok = fit = n]

Position(w) == IF w.open THEN w.pos ELSE 0

(* fseek: also past the end of what is written.  *)
SeekTo(w, position) ==
  IF ~w.ok THEN w
  ELSE IF w.open /\ position >= 0 THEN [w EXCEPT !.pos = position] ELSE Fail(w)

CloseFile(w) == [w EXCEPT !.open = FALSE]

-----------------------------------------------------------------------------
(* Sizes. *)

(* Variant: the value of all ones is not reserved.  *)
GetCodedUIntSizeFull(value) ==
  CASE value <= 127 -> 1
    [] value \in 128 .. 16383 -> 2
    [] value \in 16384 .. 2097151 -> 3
    [] value \in 2097152 .. 268435455 -> 4
    [] OTHER -> 5

(* Seven bits in each byte, and all ones is reserved.  *)
GetCodedUIntSize(value) ==
  CASE value < 127 -> 1
    [] value \in 127 .. 16382 -> 2
    [] value \in 16383 .. 2097150 -> 3
    [] value \in 2097151 .. 268435454 -> 4
    [] OTHER -> 5

GetUIntSize(value) ==
  CASE value < 256 -> 1
    [] value \in 256 .. 65535 -> 2
    [] value \in 65536 .. 16777215 -> 3
    [] OTHER -> 4

(* 2 * v, as the sign takes a bit; a value that would need a fifth byte is
   out of the model's range.  *)
GetIntSize(value) == GetUIntSize(2 * (IF value < 0 THEN -value - 1 ELSE value))

EbmlMasterElementSize(type, size) == GetUIntSize(type) + GetCodedUIntSize(size)

kDateElementSize == 8

(* Elements that hold a value: the overloads of EbmlElementSize and of
   WriteEbmlElement tell them apart by the value's type.  *)
U(name, value) == [of |-> "uint", type |-> Id[name], value |-> value]
I(name, value) == [of |-> "int", type |-> Id[name], value |-> value]
F(name, value) == [of |-> "float", type |-> Id[name], value |-> value]
S(name, value) == [of |-> "string", type |-> Id[name], value |-> value]
B(name, value) == [of |-> "binary", type |-> Id[name], value |-> value]
D(name, value) == [of |-> "date", type |-> Id[name], value |-> value]

If(condition, element) == IF condition THEN <<element>> ELSE <<>>

(* One byte for the length of every value but a binary one.  *)
EbmlElementSize(e) ==
  CASE e.of = "uint" -> GetUIntSize(e.type) + GetUIntSize(e.value) + 1
    [] e.of = "int" -> GetUIntSize(e.type) + GetIntSize(e.value) + 1
    [] e.of = "float" -> GetUIntSize(e.type) + 4 + 1
    [] e.of = "date" -> GetUIntSize(e.type) + kDateElementSize + 1
    [] e.of = "string" ->
         IF e.value = Null THEN 0 ELSE GetUIntSize(e.type) + Len(e.value) + 1
    [] e.of = "binary" ->
         IF e.value = Null THEN 0
         ELSE GetUIntSize(e.type) + Len(e.value) + GetCodedUIntSize(Len(e.value))

SizeOf(elements) == FoldLeft(LAMBDA n, e : n + EbmlElementSize(e), 0, elements)

WithHeader(type, size) == EbmlMasterElementSize(type, size) + size

-----------------------------------------------------------------------------
(* Writing. *)

(* SerializeInt: big endian, two's complement.  *)
BigEndian(value, size) ==
  [i \in 1 .. size |->
     IF size - i > 3 THEN IF value < 0 THEN 255 ELSE 0
     ELSE (value \div 256 ^ (size - i)) % 256]

SerializeInt(w, value, size) == PutBytes(w, BigEndian(value, size))

(* The bits of an IEEE single, for a whole number below 2^24.  *)
FloatBits(f) ==
  LET e == CHOOSE k \in 0 .. 23 : f \in 2 ^ k .. 2 ^ (k + 1) - 1
      mantissa == f * 2 ^ (23 - e) - 2 ^ 23
  IN IF f = 0 THEN <<0, 0, 0, 0>>
     ELSE <<(127 + e) \div 2,
            ((127 + e) % 2) * 128 + mantissa \div 65536,
            (mantissa \div 256) % 256, mantissa % 256>>

SerializeFloat(w, f) == PutBytes(w, FloatBits(f))

(* A length marker above the value; kEbmlUnknownValue is all ones.  *)
WriteUIntSize(w, value, size) ==
  LET plain == BigEndian(value, size)
      coded == <<plain[1] + 2 ^ (8 - size)>> \o Tail(plain)
  IN IF size \notin 1 .. 8 \/ (size < 5 /\ value > 128 ^ size - 2)
     THEN Fail(w) ELSE PutBytes(w, coded)

kEbmlUnknownValue == <<1, 255, 255, 255, 255, 255, 255, 255>>

WriteUInt(w, value) == WriteUIntSize(w, value, GetCodedUIntSize(value))

WriteID(w, type) == SerializeInt(w, type, GetUIntSize(type))

WriteEbmlMasterElement(w, type, size) == WriteUInt(WriteID(w, type), size)

Headed(w, e, size) == WriteUInt(WriteID(w, e.type), size)

(* A NULL string, and a binary of no bytes, are refused.  *)
WriteEbmlElement(w, e) ==
  CASE e.of = "uint" ->
         LET size == GetUIntSize(e.value)
         IN SerializeInt(Headed(w, e, size), e.value, size)
    [] e.of = "int" ->
         LET size == GetIntSize(e.value)
         IN SerializeInt(Headed(w, e, size), e.value, size)
    [] e.of = "float" -> SerializeFloat(Headed(w, e, 4), e.value)
    [] e.of = "date" ->
         SerializeInt(Headed(w, e, kDateElementSize), e.value, kDateElementSize)
    [] e.of = "string" ->
         IF e.value = Null THEN Fail(w)
         ELSE PutBytes(Headed(w, e, Len(e.value)), e.value)
    [] e.of = "binary" ->
         IF e.value \in {Null, <<>>} THEN Fail(w)
         ELSE PutBytes(Headed(w, e, Len(e.value)), e.value)

(* One after the other; the first that fails is the last.  *)
WriteEach(w, things, Write(_, _)) ==
  FoldLeft(LAMBDA v, x : IF v.ok THEN Write(v, x) ELSE v, w, things)

WriteAll(w, elements) == WriteEach(w, elements, WriteEbmlElement)

(* What the writers of master elements do at their end: compare the bytes
   written since start with the size the header announced.  *)
CheckSize(w, start, size) ==
  IF w.ok /\ w.pos - start # size THEN Fail(w) ELSE w

(* A Void of size bytes in all; of some sizes there is none.  *)
WriteVoidElement(w, size) ==
  LET inside == size - 1 - GetCodedUIntSize(size - 1)
      start == w.pos
  IN IF inside < 0 \/ WithHeader(Id.Void, inside) # size THEN Fail(w)
     ELSE CheckSize(PutBytes(WriteUInt(WriteID(w, Id.Void), inside),
                             [i \in 1 .. inside |-> 0]),
                    start, size)
=============================================================================
