-------------------------- MODULE OggChannel_proofs --------------------------
(* Proofs about libogg's framing (OggStream, OggSync) between an encoder stream
   and a decoder stream on a faulty wire (OggChannel), for every page size,
   every packet length, every portion in which bytes arrive, and however many
   pages are lost, cut or damaged.

   The argument ties everything to one layout of the packets submitted so far.
   st[k] is the number of lacing values in front of packet k, off[g] the number
   of bytes in front of and including lacing value g, bytes the concatenation
   of the packets, and cut[i] the number of lacing values on the first i pages
   (Streamed, Paged).  Four statements about it make up the invariant, Inv:

     EncoderOk   what the encoder still holds are the lacing values and bytes
                 behind the last cut;
     Carrying    every checksum token between the reader and the pages it has
                 not seen yet is that of a page, and these come in the order
                 the pages were made in: what was cut or damaged can hide a
                 page or bring up bytes that look like one, yet the checksum
                 lets through a page of the encoder's only, and a later one
                 each time;
     Decoder     each lacing value the decoder holds is one of the layout or a
                 mark for a hole, with its own bytes, and a run without a mark
                 is contiguous (View); a value that is not the first of its
                 packet is only ever put behind its predecessor, so a packet
                 that comes out whole has all of its bytes;
     Begins      what comes next in the decoder is the start of the packet
                 after the last one in the log, or the log ends in a hole or a
                 seek, or a mark for a hole is in front of it.

   The sections follow the data: sequences and sums, the tokens and the sync
   layer, the encoder's two operations, the wire, the decoder's view and its two
   operations (ogg_stream_pagein and ogg_stream_packetout), the log, and the
   actions of OggChannel one by one.                                         *)
EXTENDS OggChannel, SequenceTheorems, WellFoundedInduction, TLAPS

-----------------------------------------------------------------------------
(* Numbers, and parts of sequences. *)

(* What holds at 0 and is handed on from each number to the next, as a set *)
(* of numbers, holds up to k.                                              *)
LEMMA UpTo ==
  ASSUME NEW T, NEW k \in Nat, 0 \in T,
         \A n \in 0 .. k - 1 : n \in T => n + 1 \in T
  PROVE  \A n \in 0 .. k : n \in T
<1> DEFINE Out == {n \in 0 .. k : n \notin T}
<1> SUFFICES ASSUME Out # {} PROVE FALSE
  OBVIOUS
<1>1. PICK m \in Out : \A n \in Out : ~(<<n, m>> \in OpToRel(<, Nat))
  <2>1. Out \subseteq Nat
    OBVIOUS
  <2> HIDE DEF Out
  <2> QED
    BY <2>1, NatLessThanWellFounded, WFMin
<1>2. m \in 1 .. k
  OBVIOUS
<1>3. m - 1 \in Out
  BY <1>2
<1>4. <<m - 1, m>> \in OpToRel(<, Nat)
  BY <1>2 DEF OpToRel
<1> QED
  BY <1>1, <1>3, <1>4

(* Min is the least element.                                                *)
LEMMA MinIn ==
  ASSUME NEW S, S \subseteq Nat, S # {}
  PROVE  Min(S) \in S /\ \A x \in S : Min(S) <= x
<1>1. PICK m \in S : \A n \in S : ~(<<n, m>> \in OpToRel(<, Nat))
  BY NatLessThanWellFounded, WFMin
<1>2. ASSUME NEW n \in S PROVE m <= n
  <2>1. n \in Nat /\ m \in Nat
    BY <1>1
  <2>2. ~(n < m)
    <3> SUFFICES ASSUME n < m PROVE FALSE
      OBVIOUS
    <3>1. <<n, m>> \in OpToRel(<, Nat)
      BY <2>1 DEF OpToRel
    <3> QED
      BY <1>1, <3>1
  <2> QED
    BY <2>1, <2>2
<1>3. \E x \in S : \A y \in S : x <= y
  BY <1>1, <1>2
<1> QED
  BY <1>3 DEF Min

(* The least element is Min.                                                *)
LEMMA MinIs ==
  ASSUME NEW S, S \subseteq Nat, NEW m \in S, \A x \in S : m <= x
  PROVE  Min(S) = m
<1>1. Min(S) \in S /\ Min(S) <= m
  BY MinIn
<1>2. m <= Min(S) /\ m \in Nat /\ Min(S) \in Nat
  BY <1>1
<1> QED
  BY <1>1, <1>2

(* A set of numbers with an upper bound has a greatest one.                *)
LEMMA MaxIn ==
  ASSUME NEW n \in Nat, NEW S, S \subseteq 0 .. n, S # {}
  PROVE  Max(S) \in S /\ \A x \in S : x <= Max(S)
<1> DEFINE D == {n - x : x \in S}
<1>0. \A x \in S : x \in Int /\ 0 <= x /\ x <= n
  OBVIOUS
<1>1. D \subseteq Nat /\ D # {}
  <2>1. \A x \in S : n - x \in Nat
    BY <1>0
  <2> QED
    BY <2>1
<1>2. Min(D) \in D /\ \A d \in D : Min(D) <= d
  <2> HIDE DEF D
  <2> QED
    BY <1>1, MinIn
<1>3. PICK m \in S : Min(D) = n - m
  BY <1>2
<1>4. \A x \in S : m >= x
  <2>1. ASSUME NEW x \in S PROVE m >= x
    <3>1. n - x \in D
      OBVIOUS
    <3>2. n - m <= n - x
      <4> HIDE DEF D
      <4> QED
        BY <1>2, <1>3, <3>1
    <3>3. m \in Int /\ x \in Int
      BY <1>0, <1>3
    <3> QED
      BY <3>2, <3>3
  <2> QED
    BY <2>1
<1>5. Max(S) \in S /\ \A x \in S : Max(S) >= x
  BY <1>4 DEF Max
<1> QED
  BY <1>0, <1>5

(* The greatest element is Max.                                            *)
LEMMA MaxIs ==
  ASSUME NEW n \in Nat, NEW S, S \subseteq 0 .. n, NEW m \in S,
         \A x \in S : x <= m
  PROVE  Max(S) = m
<1>1. Max(S) \in S /\ m <= Max(S)
  BY MaxIn
<1>0. \A x \in S : x \in Int
  OBVIOUS
<1>2. Max(S) <= m /\ m \in Int /\ Max(S) \in Int
  BY <1>0, <1>1
<1> QED
  BY <1>1, <1>2

(* A part of a sequence.                                                   *)
LEMMA Piece ==
  ASSUME NEW S, NEW s \in Seq(S), NEW m \in 1 .. Len(s) + 1,
         NEW n \in m - 1 .. Len(s)
  PROVE  /\ SubSeq(s, m, n) \in Seq(S)
         /\ Len(SubSeq(s, m, n)) = n - m + 1
         /\ \A i \in 1 .. n - m + 1 : SubSeq(s, m, n)[i] = s[m + i - 1]
<1>1. Len(s) \in Nat /\ m \in Int /\ n \in Int
  BY LenProperties
<1>2. \A i \in m .. n : s[i] \in S
  <2>1. \A i \in m .. n : i \in 1 .. Len(s)
    BY <1>1
  <2> QED
    BY <2>1, ElementOfSeq
<1>3. /\ SubSeq(s, m, n) \in Seq(S)
      /\ Len(SubSeq(s, m, n)) = IF m <= n THEN n - m + 1 ELSE 0
      /\ \A i \in 1 .. n - m + 1 : SubSeq(s, m, n)[i] = s[m + i - 1]
  BY <1>1, <1>2, SubSeqProperties
<1>4. ~(m <= n) => n - m + 1 = 0
  BY <1>1
<1> QED
  BY <1>3, <1>4

(* The first elements of a sequence, and the others.                       *)
LEMMA TakeIs ==
  ASSUME NEW S, NEW s \in Seq(S), NEW k \in 0 .. Len(s)
  PROVE  /\ Take(s, k) \in Seq(S) /\ Len(Take(s, k)) = k
         /\ \A i \in 1 .. k : Take(s, k)[i] = s[i]
<1>1. Len(s) \in Nat /\ k \in Nat /\ k <= Len(s)
  BY LenProperties
<1>2. 1 \in 1 .. Len(s) + 1 /\ k \in 1 - 1 .. Len(s)
  BY <1>1
<1>3. /\ SubSeq(s, 1, k) \in Seq(S) /\ Len(SubSeq(s, 1, k)) = k - 1 + 1
      /\ \A i \in 1 .. k - 1 + 1 : SubSeq(s, 1, k)[i] = s[1 + i - 1]
  BY <1>2, Piece
<1>4. k - 1 + 1 = k /\ \A i \in 1 .. k : 1 + i - 1 = i
  BY <1>1
<1> QED
  BY <1>3, <1>4 DEF Take

(* What is left of a sequence after its first k elements. *)
LEMMA DropIs ==
  ASSUME NEW S, NEW s \in Seq(S), NEW k \in 0 .. Len(s)
  PROVE  /\ Drop(s, k) \in Seq(S) /\ Len(Drop(s, k)) = Len(s) - k
         /\ \A i \in 1 .. Len(s) - k : Drop(s, k)[i] = s[k + i]
<1>1. Len(s) \in Nat /\ k \in Nat /\ k <= Len(s)
  BY LenProperties
<1>2. k + 1 \in 1 .. Len(s) + 1 /\ Len(s) \in (k + 1) - 1 .. Len(s)
  BY <1>1
<1>3. /\ SubSeq(s, k + 1, Len(s)) \in Seq(S)
      /\ Len(SubSeq(s, k + 1, Len(s))) = Len(s) - (k + 1) + 1
      /\ \A i \in 1 .. Len(s) - (k + 1) + 1 :
           SubSeq(s, k + 1, Len(s))[i] = s[(k + 1) + i - 1]
  BY <1>2, Piece
<1>4. /\ Len(s) - (k + 1) + 1 = Len(s) - k
      /\ \A i \in 1 .. Len(s) - k : (k + 1) + i - 1 = k + i
  BY <1>1
<1> QED
  BY <1>3, <1>4 DEF Drop

(* One behind the other.                                                   *)
LEMMA Joined ==
  ASSUME NEW S, NEW s \in Seq(S), NEW t \in Seq(S)
  PROVE  /\ s \o t \in Seq(S) /\ Len(s \o t) = Len(s) + Len(t)
         /\ \A i \in 1 .. Len(s) : (s \o t)[i] = s[i]
         /\ \A i \in 1 .. Len(t) : (s \o t)[Len(s) + i] = t[i]
<1>1. Len(s) \in Nat /\ Len(t) \in Nat
  BY LenProperties
<1>2. /\ s \o t \in Seq(S) /\ Len(s \o t) = Len(s) + Len(t)
      /\ \A i \in 1 .. Len(s) + Len(t) :
           (s \o t)[i] = IF i <= Len(s) THEN s[i] ELSE t[i - Len(s)]
  BY ConcatProperties
<1>3. \A i \in 1 .. Len(s) : i \in 1 .. Len(s) + Len(t) /\ i <= Len(s)
  BY <1>1
<1>4. \A i \in 1 .. Len(t) :
        /\ Len(s) + i \in 1 .. Len(s) + Len(t) /\ ~(Len(s) + i <= Len(s))
        /\ (Len(s) + i) - Len(s) = i
  BY <1>1
<1> QED
  BY <1>2, <1>3, <1>4

(* Without its first elements a sequence does not change by what comes     *)
(* behind.                                                                 *)
LEMMA DropJoined ==
  ASSUME NEW S, NEW s \in Seq(S), NEW t \in Seq(S), NEW k \in 0 .. Len(s)
  PROVE  Drop(s, k) \o t = Drop(s \o t, k)
<1> DEFINE n == Len(s)
           d == Drop(s, k)
           x == d \o t
           y == Drop(s \o t, k)
<1>1. n \in Nat /\ Len(t) \in Nat /\ k \in Nat /\ k <= n
  BY LenProperties
<1>2. d \in Seq(S) /\ Len(d) = n - k /\ \A i \in 1 .. n - k : d[i] = s[k + i]
  BY DropIs
<1>3. /\ s \o t \in Seq(S) /\ Len(s \o t) = n + Len(t)
      /\ \A i \in 1 .. n : (s \o t)[i] = s[i]
      /\ \A i \in 1 .. Len(t) : (s \o t)[n + i] = t[i]
  BY Joined
<1>4. /\ x \in Seq(S) /\ Len(x) = Len(d) + Len(t)
      /\ \A i \in 1 .. Len(d) : x[i] = d[i]
      /\ \A i \in 1 .. Len(t) : x[Len(d) + i] = t[i]
  <2>1. d \in Seq(S)
    BY <1>2
  <2> HIDE DEF d, n
  <2> QED
    BY <2>1, Joined
<1>5. k \in 0 .. Len(s \o t)
  BY <1>1, <1>3
<1>6. /\ y \in Seq(S) /\ Len(y) = Len(s \o t) - k
      /\ \A i \in 1 .. Len(s \o t) - k : y[i] = (s \o t)[k + i]
  BY <1>3, <1>5, DropIs
<1> HIDE DEF n, d, x, y
<1>7. Len(x) = Len(y)
  BY <1>1, <1>2, <1>3, <1>4, <1>6
<1>8. ASSUME NEW i \in 1 .. Len(x) PROVE x[i] = y[i]
  <2>1. i \in 1 .. Len(s \o t) - k
    BY <1>1, <1>2, <1>3, <1>4, <1>8
  <2>2. y[i] = (s \o t)[k + i]
    BY <1>6, <2>1
  <2>3. CASE i <= n - k
    <3>1. i \in 1 .. n - k /\ k + i \in 1 .. n /\ i \in 1 .. Len(d)
      BY <1>1, <1>2, <2>1, <2>3
    <3> QED
      BY <1>2, <1>3, <1>4, <2>2, <3>1
  <2>4. CASE ~(i <= n - k)
    <3> DEFINE j == i - (n - k)
    <3>1. j \in 1 .. Len(t) /\ k + i = n + j /\ i = Len(d) + j
      BY <1>1, <1>2, <1>3, <2>1, <2>4
    <3> HIDE DEF j
    <3> QED
      BY <1>3, <1>4, <2>2, <3>1
  <2> QED
    BY <2>3, <2>4
<1> QED
  BY <1>4, <1>6, <1>7, <1>8, SeqEqual DEF x, y, d

-----------------------------------------------------------------------------
(* Sums. *)

(* The sums of w from lo + 1 on.                                           *)
Sums(w, lo, k, h) ==
  h = [n \in lo .. k |-> IF n = lo THEN 0 ELSE h[n - 1] + w[n]]

(* The entries of such sums.                                               *)
LEMMA SumEntries ==
  ASSUME NEW w, NEW lo \in Nat, NEW k \in Nat, NEW h, Sums(w, lo, k, h),
         NEW n \in lo .. k
  PROVE  /\ n = lo => h[n] = 0
         /\ n # lo => h[n] = h[n - 1] + w[n]
<1> DEFINE F == [j \in lo .. k |-> IF j = lo THEN 0 ELSE h[j - 1] + w[j]]
<1>1. h = F
  BY DEF Sums
<1>2. F[n] = IF n = lo THEN 0 ELSE h[n - 1] + w[n]
  OBVIOUS
<1>3. h[n] = IF n = lo THEN 0 ELSE h[n - 1] + w[n]
  <2> HIDE DEF F
  <2> QED
    BY <1>1, <1>2
<1> QED
  BY <1>3

(* They exist.                                                             *)
LEMMA SumsExist ==
  ASSUME NEW w, NEW lo \in Nat, NEW k \in Nat, lo <= k
  PROVE  \E h : Sums(w, lo, k, h)
<1> DEFINE T == {m \in 0 .. k - lo : \E h : Sums(w, lo, lo + m, h)}
<1>0. k - lo \in Nat /\ lo + (k - lo) = k
  OBVIOUS
<1>1. 0 \in T
  <2> DEFINE z == [n \in lo .. lo |-> 0]
  <2>1. z = [n \in lo .. lo |-> IF n = lo THEN 0 ELSE z[n - 1] + w[n]]
    OBVIOUS
  <2>2. Sums(w, lo, lo, z)
    <3> HIDE DEF z
    <3> QED
      BY <2>1 DEF Sums
  <2>3. 0 \in 0 .. k - lo /\ lo + 0 = lo
    BY <1>0
  <2> QED
    BY <2>2, <2>3
<1>2. ASSUME NEW m \in 0 .. k - lo - 1, m \in T PROVE m + 1 \in T
  <2>1. PICK h : Sums(w, lo, lo + m, h)
    BY <1>2
  <2>0. \A n \in lo .. lo + m : /\ n = lo => h[n] = 0
                                /\ n # lo => h[n] = h[n - 1] + w[n]
    <3>1. lo + m \in Nat
      OBVIOUS
    <3> HIDE DEF T
    <3>2. ASSUME NEW n \in lo .. lo + m
          PROVE  /\ n = lo => h[n] = 0
                 /\ n # lo => h[n] = h[n - 1] + w[n]
      BY <2>1, <3>1, SumEntries
    <3> QED
      BY <3>2
  <2> DEFINE e(n) == IF n = lo THEN 0 ELSE h[n - 1] + w[n]
             g == [n \in lo .. lo + m + 1 |-> e(n)]
             d(n) == IF n = lo THEN 0 ELSE g[n - 1] + w[n]
  <2>2. ASSUME NEW n \in lo .. lo + m PROVE g[n] = h[n]
    BY <2>0
  <2>3. \A n \in lo .. lo + m + 1 : e(n) = d(n)
    <3> HIDE DEF g
    <3>1. ASSUME NEW n \in lo .. lo + m + 1, n # lo PROVE g[n - 1] = h[n - 1]
      <4>1. n - 1 \in lo .. lo + m
        BY <3>1
      <4> QED
        BY <2>2, <4>1
    <3> QED
      BY <3>1
  <2>4. g = [n \in lo .. lo + m + 1 |-> d(n)]
    <3> HIDE DEF e, d
    <3> QED
      BY <2>3
  <2>5. Sums(w, lo, lo + m + 1, g)
    <3> HIDE DEF g
    <3> QED
      BY <2>4 DEF Sums
  <2>6. lo + m + 1 = lo + (m + 1) /\ m + 1 \in 0 .. k - lo
    BY <1>0
  <2> HIDE DEF g
  <2> QED
    BY <2>5, <2>6
<1>3. \A m \in 0 .. k - lo : m \in T
  <2> HIDE DEF T
  <2> QED
    BY <1>0, <1>1, <1>2, UpTo
<1>4. k - lo \in 0 .. k - lo
  BY <1>0
<1>5. \E h : Sums(w, lo, lo + (k - lo), h)
  BY <1>3, <1>4
<1> QED
  BY <1>0, <1>5

-----------------------------------------------------------------------------
(* Tokens, and the sync layer. *)

Page == [continued : BOOLEAN, bos : BOOLEAN, eos : BOOLEAN, granulepos : Int,
         serialno : Int, pageno : Int, lens : Seq(Nat), body : Seq(Nat)]

Token ==
  {Byte(n) : n \in Nat} \cup {Fields(p) : p \in Page}
    \cup {Checksum(p) : p \in Page}

(* A function from 1 to n is a sequence.                                   *)
LEMMA FunSeq ==
  ASSUME NEW S, NEW n \in Nat, NEW f \in [1 .. n -> S]
  PROVE  f \in Seq(S) /\ Len(f) = n /\ \A i \in 1 .. n : f[i] \in S
OBVIOUS

(* What a token is.                                                        *)
LEMMA TokenIs ==
  ASSUME NEW t \in Token
  PROVE  /\ t[1] = "byte" => t[2] \in Nat
         /\ t[1] = "checksum" => t[2] \in Page /\ t = Checksum(t[2])
         /\ Value(t) \in Nat
<1>1. CASE \E n \in Nat : t = Byte(n)
  BY <1>1 DEF Byte, Value
<1>2. CASE \E p \in Page : t = Fields(p)
  BY <1>2, CaptureAssumption DEF Fields, Value
<1>3. CASE \E p \in Page : t = Checksum(p)
  BY <1>3, CaptureAssumption DEF Checksum, Value
<1> QED
  BY <1>1, <1>2, <1>3 DEF Token

(* The checksum is a page's third token, and the only one.                 *)
LEMMA PageTokensAre ==
  ASSUME NEW p \in Page
  PROVE  LET ts == PageTokens(p)
         IN /\ ts \in Seq(Token) /\ Len(ts) \in Nat /\ Len(ts) >= 4
            /\ ts[3] = Checksum(p)
            /\ \A i \in 1 .. Len(ts) : ts[i][1] = "checksum" => i = 3
<1> DEFINE ts == PageTokens(p)
           h == <<Byte(Capture), Fields(p), Checksum(p), Byte(Len(p.lens))>>
           l == [i \in 1 .. Len(p.lens) |-> Byte(p.lens[i])]
           b == [i \in 1 .. Len(p.body) |-> Byte(p.body[i])]
<1>1. /\ p.lens \in Seq(Nat) /\ p.body \in Seq(Nat)
      /\ Len(p.lens) \in Nat /\ Len(p.body) \in Nat
  BY LenProperties DEF Page
<1>2. h \in Seq(Token) /\ Len(h) = 4
  <2>1. /\ Byte(Capture) \in Token /\ Byte(Len(p.lens)) \in Token
        /\ Fields(p) \in Token /\ Checksum(p) \in Token
    BY <1>1, CaptureAssumption DEF Token
  <2> QED
    BY <2>1
<1>3. /\ h[3] = Checksum(p)
      /\ \A i \in 1 .. 4 : h[i][1] = "checksum" => i = 3
  <2>1. /\ h[1][1] = "byte" /\ h[2][1] = "fields" /\ h[4][1] = "byte"
        /\ h[3] = Checksum(p)
    BY DEF Byte, Fields
  <2>2. \A i \in 1 .. 4 : i = 1 \/ i = 2 \/ i = 3 \/ i = 4
    OBVIOUS
  <2> HIDE DEF h
  <2> QED
    BY <2>1, <2>2
<1>4. /\ l \in Seq(Token) /\ Len(l) = Len(p.lens)
      /\ \A i \in 1 .. Len(l) : l[i][1] = "byte"
  <2>1. \A i \in 1 .. Len(p.lens) : Byte(p.lens[i]) \in Token
    <3>1. \A i \in 1 .. Len(p.lens) : p.lens[i] \in Nat
      BY <1>1, ElementOfSeq
    <3> QED
      BY <3>1 DEF Token
  <2>2. l \in [1 .. Len(p.lens) -> Token]
    BY <2>1
  <2>3. \A i \in 1 .. Len(p.lens) : l[i] = Byte(p.lens[i])
    OBVIOUS
  <2> HIDE DEF l
  <2>4. l \in Seq(Token) /\ Len(l) = Len(p.lens)
    BY <1>1, <2>2, FunSeq
  <2> QED
    BY <2>3, <2>4 DEF Byte
<1>5. /\ b \in Seq(Token) /\ Len(b) = Len(p.body)
      /\ \A i \in 1 .. Len(b) : b[i][1] = "byte"
  <2>1. \A i \in 1 .. Len(p.body) : Byte(p.body[i]) \in Token
    <3>1. \A i \in 1 .. Len(p.body) : p.body[i] \in Nat
      BY <1>1, ElementOfSeq
    <3> QED
      BY <3>1 DEF Token
  <2>2. b \in [1 .. Len(p.body) -> Token]
    BY <2>1
  <2>3. \A i \in 1 .. Len(p.body) : b[i] = Byte(p.body[i])
    OBVIOUS
  <2> HIDE DEF b
  <2>4. b \in Seq(Token) /\ Len(b) = Len(p.body)
    BY <1>1, <2>2, FunSeq
  <2> QED
    BY <2>3, <2>4 DEF Byte
<1>6. ts = (h \o l) \o b
  BY DEF PageTokens
<1> HIDE DEF h, l, b, ts
<1>7. /\ h \o l \in Seq(Token) /\ Len(h \o l) = 4 + Len(l)
      /\ \A i \in 1 .. 4 : (h \o l)[i] = h[i]
      /\ \A i \in 1 .. Len(l) : (h \o l)[4 + i] = l[i]
  <2>1. /\ h \o l \in Seq(Token) /\ Len(h \o l) = Len(h) + Len(l)
        /\ \A i \in 1 .. Len(h) : (h \o l)[i] = h[i]
        /\ \A i \in 1 .. Len(l) : (h \o l)[Len(h) + i] = l[i]
    <3>1. h \in Seq(Token) /\ l \in Seq(Token)
      BY <1>2, <1>4
    <3> QED
      BY <3>1, Joined
  <2> QED
    BY <1>2, <2>1
<1> DEFINE hl == h \o l
<1>8. /\ hl \o b \in Seq(Token) /\ Len(hl \o b) = Len(hl) + Len(b)
      /\ \A i \in 1 .. Len(hl) : (hl \o b)[i] = hl[i]
      /\ \A i \in 1 .. Len(b) : (hl \o b)[Len(hl) + i] = b[i]
  <2>1. hl \in Seq(Token) /\ b \in Seq(Token)
    BY <1>5, <1>7
  <2> HIDE DEF hl
  <2> QED
    BY <2>1, Joined
<1>9. Len(l) \in Nat /\ Len(b) \in Nat /\ Len(hl) = 4 + Len(l)
  BY <1>1, <1>4, <1>5, <1>7
<1>10. ts = hl \o b /\ \A i \in 1 .. 4 : hl[i] = h[i]
  BY <1>6, <1>7
<1>11. \A i \in 1 .. Len(l) : hl[4 + i] = l[i]
  BY <1>7
<1> HIDE DEF hl
<1>12. /\ ts \in Seq(Token) /\ Len(ts) = Len(hl) + Len(b)
       /\ Len(ts) \in Nat /\ Len(ts) >= 4
  BY <1>8, <1>9, <1>10
<1>13. ts[3] = Checksum(p)
  BY <1>3, <1>8, <1>9, <1>10
<1>14. ASSUME NEW i \in 1 .. Len(ts), ts[i][1] = "checksum" PROVE i = 3
  <2>1. CASE i <= 4
    <3>1. ts[i] = h[i]
      BY <1>8, <1>9, <1>10, <2>1
    <3> QED
      BY <1>3, <1>14, <2>1, <3>1
  <2>2. CASE i > 4 /\ i <= Len(hl)
    <3>1. /\ i - 4 \in 1 .. Len(l) /\ 4 + (i - 4) = i /\ i \in 1 .. Len(hl)
      BY <1>9, <2>2
    <3>2. ts[i] = l[i - 4]
      BY <1>8, <1>10, <1>11, <3>1
    <3> QED
      BY <1>4, <1>14, <3>1, <3>2
  <2>3. CASE i > Len(hl)
    <3>1. i - Len(hl) \in 1 .. Len(b) /\ Len(hl) + (i - Len(hl)) = i
      BY <1>9, <1>12, <2>3
    <3>2. ts[i] = b[i - Len(hl)]
      BY <1>8, <1>10, <3>1
    <3> QED
      BY <1>5, <1>14, <3>1, <3>2
  <2> QED
    BY <1>9, <2>1, <2>2, <2>3
<1> QED
  BY <1>12, <1>13, <1>14 DEF ts

(* The length of a body, read from a segment table, is a number.           *)
LEMMA TableType ==
  ASSUME NEW page \in Seq(Token), NEW k \in HeaderLen .. Len(page)
  PROVE  SumOfTable(page, k) \in Nat
<1> DEFINE w == [i \in 1 .. k |-> Value(page[i])]
           IsSum(h) == h = [i \in HeaderLen .. k |->
                         IF i = HeaderLen THEN 0 ELSE h[i - 1] + Value(page[i])]
           f == CHOOSE h : IsSum(h)
<1>1. HeaderLen = 4 /\ k \in Nat /\ k >= 4 /\ Len(page) \in Nat
  BY LenProperties DEF HeaderLen
<1>2. \A i \in 1 .. k : w[i] = Value(page[i]) /\ w[i] \in Nat
  <2>1. \A i \in 1 .. k : i \in 1 .. Len(page)
    BY <1>1
  <2>2. \A i \in 1 .. k : page[i] \in Token
    BY <2>1, ElementOfSeq
  <2> QED
    BY <2>2, TokenIs
<1> HIDE DEF w
<1>3. PICK g : Sums(w, HeaderLen, k, g)
  BY <1>1, SumsExist
<1>4. IsSum(g)
  <2> DEFINE e(i) == IF i = HeaderLen THEN 0 ELSE g[i - 1] + w[i]
             d(i) == IF i = HeaderLen THEN 0 ELSE g[i - 1] + Value(page[i])
  <2>1. \A i \in HeaderLen .. k : e(i) = d(i)
    BY <1>1, <1>2
  <2>2. g = [i \in HeaderLen .. k |-> e(i)]
    BY <1>3 DEF Sums
  <2> HIDE DEF e, d
  <2>3. g = [i \in HeaderLen .. k |-> d(i)]
    BY <2>1, <2>2
  <2> QED
    BY <2>3 DEF d
<1>5. IsSum(f)
  BY <1>4
<1>6. Sums(w, HeaderLen, k, f)
  <2> DEFINE e(i) == IF i = HeaderLen THEN 0 ELSE f[i - 1] + w[i]
             d(i) == IF i = HeaderLen THEN 0 ELSE f[i - 1] + Value(page[i])
  <2>2. f = [i \in HeaderLen .. k |-> d(i)]
    BY <1>5
  <2> HIDE DEF f
  <2>1. \A i \in HeaderLen .. k : e(i) = d(i)
    BY <1>1, <1>2
  <2> HIDE DEF e, d
  <2>3. f = [i \in HeaderLen .. k |-> e(i)]
    BY <2>1, <2>2
  <2> QED
    BY <2>3 DEF e, Sums
<1>7. SumOfTable(page, k) = f[k]
  BY DEF SumOfTable
<1> HIDE DEF f
<1> DEFINE T == {n \in 0 .. k - 4 : f[4 + n] \in Nat}
<1>8. 0 \in T
  <2>1. HeaderLen \in HeaderLen .. k /\ HeaderLen \in Nat /\ k \in Nat
    BY <1>1
  <2>2. f[HeaderLen] = 0
    BY <1>6, <2>1, SumEntries
  <2> QED
    BY <1>1, <2>2
<1>9. ASSUME NEW n \in 0 .. k - 4 - 1, n \in T PROVE n + 1 \in T
  <2>1. /\ 4 + (n + 1) \in HeaderLen .. k /\ 4 + (n + 1) # HeaderLen
        /\ 4 + (n + 1) \in 1 .. k /\ (4 + (n + 1)) - 1 = 4 + n
        /\ n + 1 \in 0 .. k - 4
    BY <1>1
  <2>2. f[4 + (n + 1)] = f[(4 + (n + 1)) - 1] + w[4 + (n + 1)]
    BY <1>1, <1>6, <2>1, SumEntries
  <2> QED
    BY <1>2, <1>9, <2>1, <2>2
<1>10. \A n \in 0 .. k - 4 : n \in T
  <2>1. k - 4 \in Nat
    BY <1>1
  <2> HIDE DEF T
  <2> QED
    BY <1>8, <1>9, <2>1, UpTo
<1>11. k - 4 \in 0 .. k - 4 /\ 4 + (k - 4) = k
  BY <1>1
<1> QED
  BY <1>7, <1>10, <1>11

-----------------------------------------------------------------------------
(* What the sync layer keeps, and what it delivers. *)

SyncOk(y) ==
  /\ y \in [data : Seq(Token), returned : Nat, unsynced : BOOLEAN,
            headerbytes : Nat, bodybytes : Nat]
  /\ y.returned <= Len(y.data)
  /\ y.headerbytes # 0 => y.headerbytes >= HeaderLen

(* What an update of the state is, for any set of data.                    *)
LEMMA Updated ==
  ASSUME NEW D, NEW u \in BOOLEAN, NEW n \in Nat, NEW h \in Nat, NEW b \in Nat,
         NEW y \in [data : D, returned : Nat, unsynced : BOOLEAN,
                    headerbytes : Nat, bodybytes : Nat]
  PROVE  LET z == [y EXCEPT !.unsynced = u, !.returned = n,
                            !.headerbytes = h, !.bodybytes = b]
         IN /\ z \in [data : D, returned : Nat, unsynced : BOOLEAN,
                      headerbytes : Nat, bodybytes : Nat]
            /\ z.data = y.data /\ z.returned = n /\ z.unsynced = u
            /\ z.headerbytes = h /\ z.bodybytes = b
OBVIOUS

(* y is as good as x, with the same data and no less of it returned; a     *)
(* page delivered has its checksum among what was returned in between.     *)
Sought(x, r) ==
  /\ r.ret \in Int /\ SyncOk(r.oy)
  /\ r.oy.data = x.data /\ x.returned <= r.oy.returned
  /\ r.ret < 0 => x.returned < Len(x.data)
  /\ r.ret > 0 => \E i \in x.returned + 1 .. r.oy.returned :
                    x.data[i] = Checksum(r.page)

(* The bytes not returned.                                                 *)
LEMMA RestIs ==
  ASSUME NEW y, SyncOk(y)
  PROVE  LET page == SubSeq(y.data, y.returned + 1, Len(y.data))
         IN /\ page \in Seq(Token) /\ Len(page) = Len(y.data) - y.returned
            /\ Len(page) \in Nat /\ Len(y.data) \in Nat /\ y.returned \in Nat
            /\ \A i \in 1 .. Len(page) : page[i] = y.data[y.returned + i]
<1>1. y.data \in Seq(Token) /\ y.returned \in Nat /\ y.returned <= Len(y.data)
  BY DEF SyncOk
<1>2. Len(y.data) \in Nat
  BY <1>1, LenProperties
<1>3. y.returned \in 0 .. Len(y.data)
  BY <1>1, <1>2
<1>4. LET page == SubSeq(y.data, y.returned + 1, Len(y.data))
      IN /\ page \in Seq(Token) /\ Len(page) = Len(y.data) - y.returned
         /\ \A i \in 1 .. Len(y.data) - y.returned :
              page[i] = y.data[y.returned + i]
  BY <1>1, <1>3, DropIs DEF Drop
<1> QED
  BY <1>1, <1>2, <1>4

(* On to the next capture.                                                 *)
LEMMA SyncFailIs ==
  ASSUME NEW y, SyncOk(y), y.returned < Len(y.data)
  PROVE  LET page == SubSeq(y.data, y.returned + 1, Len(y.data))
             r == SyncFail(y, page)
         IN Sought(y, r) /\ r.ret < 0
<1> DEFINE page == SubSeq(y.data, y.returned + 1, Len(y.data))
           n == Len(page)
           captures == {i \in 2 .. n : page[i] = Byte(Capture)}
           skipped == IF captures = {} THEN n ELSE Min(captures) - 1
           r == SyncFail(y, page)
           z == [y EXCEPT !.headerbytes = 0, !.bodybytes = 0,
                          !.returned = @ + skipped]
<1>1. /\ n = Len(y.data) - y.returned /\ n \in Nat
      /\ Len(y.data) \in Nat /\ y.returned \in Nat
  BY RestIs
<1>2. r.ret = -skipped /\ r.oy = z
  BY DEF SyncFail
<1>3. skipped \in 1 .. n
  <2>1. CASE captures = {}
    BY <1>1, <2>1
  <2>2. CASE captures # {}
    <3>1. captures \subseteq Nat /\ captures \subseteq 2 .. n
      BY <1>1
    <3>2. Min(captures) \in captures
      <4> HIDE DEF captures
      <4> QED
        BY <2>2, <3>1, MinIn
    <3>3. skipped = Min(captures) - 1 /\ Min(captures) \in 2 .. n
      BY <2>2, <3>1, <3>2
    <3> HIDE DEF captures, skipped, n
    <3> QED
      BY <1>1, <3>3
  <2> QED
    BY <2>1, <2>2
<1> HIDE DEF skipped, r, page
<1>4. /\ z.data = y.data /\ z.returned = y.returned + skipped
      /\ z.headerbytes = 0 /\ z.bodybytes = 0 /\ z.unsynced = y.unsynced
      /\ z \in [data : Seq(Token), returned : Nat, unsynced : BOOLEAN,
                headerbytes : Nat, bodybytes : Nat]
  <2> DEFINE D == Seq(Token)
  <2>1. /\ y \in [data : D, returned : Nat, unsynced : BOOLEAN,
                  headerbytes : Nat, bodybytes : Nat]
        /\ y.unsynced \in BOOLEAN /\ y.returned + skipped \in Nat
    BY <1>1, <1>3 DEF SyncOk
  <2> HIDE DEF D
  <2>2. z = [y EXCEPT !.unsynced = y.unsynced, !.returned = y.returned + skipped,
                      !.headerbytes = 0, !.bodybytes = 0]
    BY <2>1
  <2> HIDE DEF z
  <2>3. /\ z \in [data : D, returned : Nat, unsynced : BOOLEAN,
                   headerbytes : Nat, bodybytes : Nat]
        /\ z.data = y.data /\ z.returned = y.returned + skipped
        /\ z.unsynced = y.unsynced /\ z.headerbytes = 0 /\ z.bodybytes = 0
    BY <2>1, <2>2, Updated
  <2> QED
    BY <2>3 DEF D
<1> HIDE DEF z
<1>5. SyncOk(z) /\ y.returned <= z.returned
  BY <1>1, <1>3, <1>4 DEF SyncOk
<1>6. r.ret \in Int /\ r.ret < 0 /\ y.returned < Len(y.data)
  BY <1>1, <1>2, <1>3
<1>7. ~(r.ret > 0)
  BY <1>6
<1> QED
  BY <1>2, <1>4, <1>5, <1>6, <1>7 DEF Sought, r, page

(* A page whose bytes are all there is accepted or not.                    *)
LEMMA VerifyIs ==
  ASSUME NEW x, NEW y, SyncOk(x), SyncOk(y), y.data = x.data,
         y.returned = x.returned, y.headerbytes > 0,
         y.headerbytes + y.bodybytes <= Len(y.data) - y.returned
  PROVE  LET page == SubSeq(y.data, y.returned + 1, Len(y.data))
         IN Sought(x, Verify(y, page))
<1> DEFINE page == SubSeq(y.data, y.returned + 1, Len(y.data))
           length == y.headerbytes + y.bodybytes
           tokens == SubSeq(page, 1, length)
           r == Verify(y, page)
           z == [y EXCEPT !.unsynced = FALSE, !.returned = @ + length,
                          !.headerbytes = 0, !.bodybytes = 0]
<1>1. /\ page \in Seq(Token) /\ Len(page) = Len(y.data) - y.returned
      /\ Len(page) \in Nat /\ Len(y.data) \in Nat /\ y.returned \in Nat
      /\ \A i \in 1 .. Len(page) : page[i] = y.data[y.returned + i]
  BY RestIs
<1>2. length \in Nat /\ length >= 3 /\ length <= Len(page)
  <2>1. /\ y.headerbytes \in Nat /\ y.bodybytes \in Nat
        /\ y.headerbytes >= 4
    BY DEF SyncOk, HeaderLen
  <2> HIDE DEF page
  <2> QED
    BY <1>1, <2>1
<1>3. CASE ChecksumMatches(tokens)
  <2>1. r.ret = length /\ r.page = tokens[3][2] /\ r.oy = z
    BY <1>3 DEF Verify
  <2>2. /\ z.data = y.data /\ z.returned = y.returned + length /\ z.headerbytes = 0
        /\ z \in [data : Seq(Token), returned : Nat, unsynced : BOOLEAN,
                  headerbytes : Nat, bodybytes : Nat]
    <3> DEFINE D == Seq(Token)
               a == y.returned
    <3>0. a \in Nat /\ length \in Nat
      BY <1>1, <1>2
    <3> HIDE DEF D, length, a
    <3>a. a + length \in Nat
      BY ONLY <3>0
    <3>1. /\ y \in [data : D, returned : Nat, unsynced : BOOLEAN,
                    headerbytes : Nat, bodybytes : Nat]
          /\ y.returned + length \in Nat
      BY <3>a DEF SyncOk, D, a
    <3>2. z = [y EXCEPT !.unsynced = FALSE, !.returned = y.returned + length,
                        !.headerbytes = 0, !.bodybytes = 0]
      BY <3>1
    <3> HIDE DEF z
    <3>3. /\ z \in [data : D, returned : Nat, unsynced : BOOLEAN,
                     headerbytes : Nat, bodybytes : Nat]
          /\ z.data = y.data /\ z.returned = y.returned + length
          /\ z.headerbytes = 0
      BY <3>1, <3>2, Updated
    <3> QED
      BY <3>3 DEF D
  <2> HIDE DEF page, length
  <2>3. /\ Len(tokens) = length /\ tokens \in Seq(Token)
        /\ \A i \in 1 .. length : tokens[i] = page[i]
    <3>1. length \in 0 .. Len(page)
      BY <1>1, <1>2
    <3> QED
      BY <1>1, <3>1, TakeIs DEF Take
  <2> HIDE DEF tokens, z, r
  <2>4. tokens[3][1] = "checksum" /\ tokens = PageTokens(tokens[3][2])
    BY <1>3 DEF ChecksumMatches
  <2>5. length >= 3
    BY <1>2
  <2>6. 3 \in 1 .. length /\ 3 \in 1 .. Len(page)
    BY <1>1, <1>2, <2>5
  <2>7. tokens[3] \in Token /\ tokens[3] = y.data[y.returned + 3]
    BY <1>1, <2>3, <2>6, ElementOfSeq
  <2>8. tokens[3] = Checksum(r.page)
    BY <2>1, <2>4, <2>7, TokenIs
  <2>9. y.returned + 3 \in x.returned + 1 .. r.oy.returned
    BY <1>1, <1>2, <2>1, <2>2, <2>6
  <2>10. SyncOk(r.oy)
    <3>1. /\ z.data = y.data /\ z.returned = y.returned + length /\ z.headerbytes = 0
          /\ length \in Nat /\ length <= Len(page) /\ y.returned \in Nat
          /\ Len(page) = Len(y.data) - y.returned /\ Len(y.data) \in Nat
      BY <1>1, <1>2, <2>2
    <3>2. z.returned <= Len(z.data)
      BY ONLY <3>1
    <3> QED
      BY <2>1, <2>2, <3>2 DEF SyncOk
  <2>11. ~(r.ret < 0) /\ r.ret \in Int /\ x.returned <= r.oy.returned
    BY <1>1, <1>2, <2>1, <2>2
  <2> QED
    BY <2>1, <2>2, <2>7, <2>8, <2>9, <2>10, <2>11 DEF Sought, r, page
<1>4. CASE ~ChecksumMatches(tokens)
  <2>1. r = SyncFail(y, page)
    BY <1>4 DEF Verify
  <2>2. y.returned < Len(y.data)
    <3> HIDE DEF page
    <3> QED
      BY <1>1, <1>2
  <2>3. Sought(y, r) /\ r.ret < 0
    BY <2>1, <2>2, SyncFailIs
  <2> HIDE DEF r
  <2>4. ~(r.ret > 0)
    BY <2>3 DEF Sought
  <2> QED
    BY <2>2, <2>3, <2>4 DEF Sought, r
<1> QED
  BY <1>3, <1>4

(* ogg_sync_pageseek.                                                      *)
LEMMA PageseekIs ==
  ASSUME NEW y, SyncOk(y)
  PROVE  Sought(y, Pageseek(y))
<1> DEFINE page == SubSeq(y.data, y.returned + 1, Len(y.data))
           bytes == Len(page)
           header == Value(page[HeaderLen]) + HeaderLen
           measured == [y EXCEPT !.headerbytes = header,
                                 !.bodybytes = @ + SumOfTable(page, header)]
           Complete(o) == o.headerbytes + o.bodybytes <= bytes
           wait(o) == [ret |-> 0, oy |-> o]
<1>1. /\ page \in Seq(Token) /\ bytes = Len(y.data) - y.returned
      /\ bytes \in Nat /\ Len(y.data) \in Nat /\ y.returned \in Nat
  BY RestIs
<1>2. Sought(y, wait(y))
  BY <1>1 DEF Sought
<1>3. y.headerbytes \in Nat /\ y.bodybytes \in Nat /\ HeaderLen = 4
  BY DEF SyncOk, HeaderLen
<1>4. CASE y.headerbytes # 0
  <2>1. CASE Complete(y)
    <3>1. Pageseek(y) = Verify(y, page)
      BY <1>4, <2>1 DEF Pageseek
    <3>2. y.headerbytes > 0 /\ y.headerbytes + y.bodybytes <= Len(y.data) - y.returned
      <4> HIDE DEF page
      <4> QED
        BY <1>1, <1>3, <1>4, <2>1
    <3>3. Sought(y, Verify(y, page))
      BY <3>2, VerifyIs
    <3> QED
      BY <3>1, <3>3
  <2>2. CASE ~Complete(y)
    <3>1. Pageseek(y) = wait(y)
      BY <1>4, <2>2 DEF Pageseek
    <3> QED
      BY <1>2, <3>1
  <2> QED
    BY <2>1, <2>2
<1>5. CASE y.headerbytes = 0 /\ bytes < HeaderLen
  <2>1. Pageseek(y) = wait(y)
    BY <1>5 DEF Pageseek
  <2> QED
    BY <1>2, <2>1
<1>6. CASE y.headerbytes = 0 /\ ~(bytes < HeaderLen) /\ page[1] # Byte(Capture)
  <2>1. Pageseek(y) = SyncFail(y, page)
    BY <1>6 DEF Pageseek
  <2>2. y.returned < Len(y.data)
    <3> HIDE DEF page
    <3> QED
      BY <1>1, <1>3, <1>6
  <2> QED
    BY <2>1, <2>2, SyncFailIs
<1>7. CASE y.headerbytes = 0 /\ ~(bytes < HeaderLen) /\ page[1] = Byte(Capture)
  <2>1. CASE bytes < header
    <3>1. Pageseek(y) = wait(y)
      BY <1>7, <2>1 DEF Pageseek
    <3> QED
      BY <1>2, <3>1
  <2>2. CASE ~(bytes < header)
    <3>1. header \in HeaderLen .. bytes /\ header \in Nat
      <4>1. HeaderLen \in 1 .. Len(page)
        <5> HIDE DEF page
        <5> QED
          BY <1>1, <1>3, <1>7
      <4>2. page[HeaderLen] \in Token
        BY <1>1, <4>1, ElementOfSeq
      <4>3. Value(page[HeaderLen]) \in Nat
        BY <4>2, TokenIs
      <4> HIDE DEF page
      <4> QED
        BY <1>1, <1>3, <1>7, <2>2, <4>3
    <3>2. SumOfTable(page, header) \in Nat
      <4> HIDE DEF page, header
      <4> QED
        BY <1>1, <3>1, TableType
    <3> DEFINE D == Seq(Token)
               b == y.bodybytes + SumOfTable(page, header)
    <3>3. /\ measured \in [data : D, returned : Nat, unsynced : BOOLEAN,
                           headerbytes : Nat, bodybytes : Nat]
          /\ measured.data = y.data /\ measured.returned = y.returned
          /\ measured.headerbytes = header
      <4>1. /\ y \in [data : D, returned : Nat, unsynced : BOOLEAN,
                      headerbytes : Nat, bodybytes : Nat]
            /\ b \in Nat
        <5> HIDE DEF page, header
        <5> QED
          BY <1>3, <3>2 DEF SyncOk
      <4> HIDE DEF D, header, page
      <4>2. measured = [y EXCEPT !.unsynced = y.unsynced, !.returned = y.returned,
                                 !.headerbytes = header, !.bodybytes = b]
        BY <4>1
      <4>3. y.unsynced \in BOOLEAN /\ y.returned \in Nat
        BY <4>1
      <4> HIDE DEF measured, b
      <4> QED
        BY <3>1, <4>1, <4>2, <4>3, Updated
    <3> HIDE DEF measured
    <3>4. SyncOk(measured)
      <4> HIDE DEF page, header
      <4>1. measured.headerbytes >= HeaderLen
        BY <1>1, <1>3, <3>1, <3>3
      <4>2. measured.returned <= Len(measured.data)
        BY <3>3 DEF SyncOk
      <4> QED
        BY <3>3, <4>1, <4>2 DEF SyncOk, D
    <3>5. CASE Complete(measured)
      <4>1. Pageseek(y) = Verify(measured, page)
        BY <1>7, <2>2, <3>5, <1>3 DEF Pageseek, measured
      <4>2. /\ measured.headerbytes > 0
            /\ measured.headerbytes + measured.bodybytes
                 <= Len(measured.data) - measured.returned
        <5> HIDE DEF page, header
        <5> QED
          BY <1>1, <1>3, <3>1, <3>3, <3>5
      <4>3. page = SubSeq(measured.data, measured.returned + 1, Len(measured.data))
        BY <3>3
      <4> HIDE DEF page
      <4> QED
        BY <3>3, <3>4, <4>1, <4>2, <4>3, VerifyIs
    <3>6. CASE ~Complete(measured)
      <4>1. Pageseek(y) = wait(measured)
        BY <1>7, <2>2, <3>6, <1>3 DEF Pageseek, measured
      <4>2. Sought(y, wait(measured))
        <5> HIDE DEF header, page
        <5> QED
          BY <1>1, <3>3, <3>4 DEF Sought
      <4> QED
        BY <4>1, <4>2
    <3> QED
      BY <3>5, <3>6
  <2> QED
    BY <2>1, <2>2
<1> QED
  BY <1>4, <1>5, <1>6, <1>7

(* ogg_sync_pageout.                                                       *)
LEMMA SyncPageoutIs ==
  ASSUME NEW y, SyncOk(y)
  PROVE  Sought(y, SyncPageout(y))
<1> DEFINE seek == Pageseek(y)
           places == {p \in (y.returned + 1) .. Len(y.data) :
                        p < Len(y.data) => y.data[p + 1] = Byte(Capture)}
           at(p) == [y EXCEPT !.headerbytes = 0, !.bodybytes = 0, !.returned = p]
           from(p) == Pageseek(at(p))
           Found == {p \in places : from(p).ret >= 0}
<1>0. Sought(y, seek)
  BY PageseekIs
<1>1. CASE seek.ret >= 0
  <2>1. SyncPageout(y) = seek
    BY <1>1 DEF SyncPageout
  <2> QED
    BY <1>0, <2>1
<1>2. CASE ~(seek.ret >= 0) /\ ~y.unsynced
  <2> DEFINE z == [seek.oy EXCEPT !.unsynced = TRUE]
             r == [ret |-> -1, oy |-> z]
  <2>1. SyncPageout(y) = r
    BY <1>2 DEF SyncPageout
  <2> HIDE DEF seek
  <2>2. SyncOk(z) /\ z.data = seek.oy.data /\ z.returned = seek.oy.returned
    <3> DEFINE D == Seq(Token)
               o == seek.oy
    <3>1. /\ o \in [data : D, returned : Nat, unsynced : BOOLEAN,
                    headerbytes : Nat, bodybytes : Nat]
          /\ o.returned \in Nat /\ o.headerbytes \in Nat /\ o.bodybytes \in Nat
          /\ o.returned <= Len(o.data)
          /\ o.headerbytes # 0 => o.headerbytes >= HeaderLen
      BY <1>0 DEF Sought, SyncOk
    <3> HIDE DEF D, o
    <3>2. z = [o EXCEPT !.unsynced = TRUE, !.returned = o.returned,
                        !.headerbytes = o.headerbytes, !.bodybytes = o.bodybytes]
      BY <3>1 DEF o
    <3> HIDE DEF z
    <3>3. /\ z \in [data : D, returned : Nat, unsynced : BOOLEAN,
                    headerbytes : Nat, bodybytes : Nat]
          /\ z.data = o.data /\ z.returned = o.returned
          /\ z.headerbytes = o.headerbytes
      BY <3>1, <3>2, Updated
    <3> QED
      BY <3>1, <3>3 DEF SyncOk, D, o
  <2> HIDE DEF z
  <2>3. seek.ret < 0
    BY <1>0, <1>2 DEF Sought
  <2>4. Sought(y, r)
    BY <1>0, <2>2, <2>3 DEF Sought
  <2> HIDE DEF r
  <2> QED
    BY <2>1, <2>4
<1>3. CASE ~(seek.ret >= 0) /\ y.unsynced
  <2>1. SyncPageout(y) = from(Min(Found))
    BY <1>3 DEF SyncPageout
  <2>2. /\ y.returned < Len(y.data) /\ Len(y.data) \in Nat /\ y.returned \in Nat
        /\ y.data \in Seq(Token)
    <3>1. seek.ret \in Int /\ (seek.ret < 0 => y.returned < Len(y.data))
      BY <1>0 DEF Sought
    <3> HIDE DEF seek
    <3> QED
      BY <1>3, <3>1, LenProperties DEF SyncOk
  <2>3. ASSUME NEW p \in y.returned + 1 .. Len(y.data)
        PROVE  /\ SyncOk(at(p)) /\ at(p).data = y.data /\ at(p).returned = p
               /\ at(p).headerbytes = 0
    <3> DEFINE D == Seq(Token)
               z == at(p)
    <3>0. p \in Nat /\ p <= Len(y.data)
      BY <2>2
    <3>1. /\ y \in [data : D, returned : Nat, unsynced : BOOLEAN,
                    headerbytes : Nat, bodybytes : Nat]
          /\ y.unsynced \in BOOLEAN
      BY DEF SyncOk
    <3> HIDE DEF D
    <3>2. z = [y EXCEPT !.unsynced = y.unsynced, !.returned = p,
                        !.headerbytes = 0, !.bodybytes = 0]
      BY <3>1
    <3> HIDE DEF z
    <3>3. /\ z \in [data : D, returned : Nat, unsynced : BOOLEAN,
                    headerbytes : Nat, bodybytes : Nat]
          /\ z.data = y.data /\ z.returned = p /\ z.headerbytes = 0
      BY <3>0, <3>1, <3>2, Updated
    <3> QED
      BY <3>0, <3>3 DEF SyncOk, D, z
  <2>4. Len(y.data) \in Found
    <3> DEFINE p == Len(y.data)
               z == at(p)
    <3>1. /\ p \in y.returned + 1 .. Len(y.data) /\ ~(p < Len(y.data))
          /\ p \in places
      BY <2>2
    <3>2. SyncOk(z) /\ z.data = y.data /\ z.returned = p /\ z.headerbytes = 0
      BY <2>3, <3>1
    <3> HIDE DEF z
    <3>3. Pageseek(z).ret = 0
      <4> DEFINE page == SubSeq(z.data, z.returned + 1, Len(z.data))
      <4>1. Len(page) = 0
        <5>1. Len(page) = Len(z.data) - z.returned
          BY <3>2, RestIs
        <5> HIDE DEF page
        <5> QED
          BY <2>2, <3>2, <5>1
      <4>2. Len(page) < HeaderLen
        <5> HIDE DEF page
        <5> QED
          BY <4>1 DEF HeaderLen
      <4>3. Pageseek(z) = [ret |-> 0, oy |-> z]
        BY <3>2, <4>2 DEF Pageseek
      <4> QED
        BY <4>3
    <3>4. from(p).ret >= 0
      BY <3>3 DEF z
    <3> HIDE DEF p, places, from
    <3> QED
      BY <3>1, <3>4 DEF p
  <2>5. Min(Found) \in Found
    <3>1. Found \subseteq Nat /\ Found # {}
      <4> HIDE DEF from
      <4>1. places \subseteq Nat
        BY <2>2
      <4> HIDE DEF places
      <4> QED
        BY <2>4, <4>1
    <3> HIDE DEF Found
    <3> QED
      BY <3>1, MinIn
  <2> DEFINE m == Min(Found)
             r == from(m)
  <2>6. m \in y.returned + 1 .. Len(y.data) /\ r.ret >= 0
    BY <2>5
  <2> HIDE DEF m
  <2>7. Sought(at(m), r)
    BY <2>3, <2>6, PageseekIs
  <2>8. at(m).data = y.data /\ at(m).returned = m /\ m \in Nat /\ y.returned <= m
    <3> HIDE DEF at, r, from, Found, places
    <3>1. m \in y.returned + 1 .. Len(y.data)
      BY <2>6
    <3>2. at(m).data = y.data /\ at(m).returned = m
      BY <2>3, <3>1
    <3> QED
      BY <2>2, <3>1, <3>2
  <2> HIDE DEF r, at
  <2>9. Sought(y, r)
    <3>1. /\ r.ret \in Int /\ SyncOk(r.oy)
          /\ r.oy.data = y.data /\ m <= r.oy.returned
          /\ r.ret > 0 => \E i \in m + 1 .. r.oy.returned :
                            y.data[i] = Checksum(r.page)
      BY <2>7, <2>8 DEF Sought
    <3>2. r.oy.returned \in Nat
      BY <3>1 DEF SyncOk
    <3>3. /\ y.returned <= r.oy.returned
          /\ m + 1 .. r.oy.returned \subseteq y.returned + 1 .. r.oy.returned
      BY <2>2, <2>8, <3>1, <3>2
    <3>4. ~(r.ret < 0)
      BY <2>6, <3>1
    <3> QED
      BY <3>1, <3>3, <3>4 DEF Sought
  <2> QED
    BY <2>1, <2>9 DEF m, r, at
<1> QED
  BY <1>1, <1>2, <1>3

-----------------------------------------------------------------------------
(* Segments, and the bytes before each of them. *)

SegmentType == [len : Nat, granule : Int, first : BOOLEAN, last : BOOLEAN,
                hole : BOOLEAN]

StreamState ==
  [body : Seq(Nat), body_returned : Nat,
   lacing : Seq(SegmentType), lacing_packet : Nat, lacing_returned : Nat,
   e_o_s : BOOLEAN, b_o_s : BOOLEAN,
   serialno : Int, pageno : Int, packetno : Int, granulepos : Int,
   allocated : BOOLEAN]

(* The prefix sums of lacing values.                                       *)
LEMMA FilledIs ==
  ASSUME NEW l, NEW n \in Nat
  PROVE  /\ Filled(l, n)[0] = 0
         /\ \A i \in 1 .. n : Filled(l, n)[i] = Filled(l, n)[i - 1] + l[i].len
<1> DEFINE w == [i \in 1 .. n |-> l[i].len]
           IsSum(h) == h = [i \in 0 .. n |-> IF i = 0 THEN 0 ELSE h[i - 1] + l[i].len]
           f == CHOOSE h : IsSum(h)
<1>1. \A i \in 1 .. n : w[i] = l[i].len
  OBVIOUS
<1> HIDE DEF w
<1>2. PICK g : Sums(w, 0, n, g)
  BY SumsExist
<1>3. IsSum(g)
  <2> DEFINE e(i) == IF i = 0 THEN 0 ELSE g[i - 1] + w[i]
             d(i) == IF i = 0 THEN 0 ELSE g[i - 1] + l[i].len
  <2>1. \A i \in 0 .. n : e(i) = d(i)
    BY <1>1
  <2>2. g = [i \in 0 .. n |-> e(i)]
    BY <1>2 DEF Sums
  <2> HIDE DEF e, d
  <2>3. g = [i \in 0 .. n |-> d(i)]
    BY <2>1, <2>2
  <2> QED
    BY <2>3 DEF d
<1>4. IsSum(f)
  BY <1>3
<1>5. Filled(l, n) = f
  BY DEF Filled
<1>6. \A i \in 0 .. n : f[i] = IF i = 0 THEN 0 ELSE f[i - 1] + l[i].len
  <2> DEFINE d(i) == IF i = 0 THEN 0 ELSE f[i - 1] + l[i].len
  <2>1. f = [i \in 0 .. n |-> d(i)]
    BY <1>4
  <2> HIDE DEF f, d
  <2>2. \A i \in 0 .. n : f[i] = d(i)
    BY <2>1
  <2> QED
    BY <2>2 DEF d
<1> HIDE DEF f, IsSum
<1> QED
  BY <1>5, <1>6

(* If g counts the bytes before each segment, the sums are its differences. *)
LEMMA FilledGap ==
  ASSUME NEW l, NEW n \in Nat, NEW g,
         \A i \in 0 .. n : g[i] \in Nat,
         \A i \in 1 .. n : l[i].len = g[i] - g[i - 1]
  PROVE  \A i \in 0 .. n : Filled(l, n)[i] = g[i] - g[0]
<1> DEFINE f == Filled(l, n)
           S == {i \in 0 .. n : f[i] = g[i] - g[0]}
<1>1. /\ f[0] = 0
      /\ \A i \in 1 .. n : f[i] = f[i - 1] + l[i].len
  BY FilledIs
<1> HIDE DEF f
<1>2. 0 \in S
  BY <1>1
<1>3. ASSUME NEW i \in 0 .. n - 1, i \in S PROVE i + 1 \in S
  <2>1. /\ i + 1 \in 1 .. n /\ i + 1 \in 0 .. n /\ i \in 0 .. n /\ (i + 1) - 1 = i
        /\ 0 \in 0 .. n
    OBVIOUS
  <2>2. f[i + 1] = f[i] + l[i + 1].len /\ l[i + 1].len = g[i + 1] - g[i]
    BY <1>1, <2>1
  <2>3. g[i] \in Nat /\ g[i + 1] \in Nat /\ g[0] \in Nat /\ f[i] = g[i] - g[0]
    BY <1>3, <2>1
  <2> QED
    BY <2>1, <2>2, <2>3
<1>4. \A i \in 0 .. n : i \in S
  <2> HIDE DEF S
  <2> QED
    BY <1>2, <1>3, UpTo
<1> QED
  BY <1>4 DEF f

(* The bytes in a run of segments.                                         *)
LEMMA LacedGap ==
  ASSUME NEW l, Len(l) \in Nat, NEW g,
         \A i \in 0 .. Len(l) : g[i] \in Nat,
         \A i \in 1 .. Len(l) : l[i].len = g[i] - g[i - 1]
  PROVE  LacedBytes(l) = g[Len(l)] - g[0]
BY FilledGap DEF LacedBytes

(* The same in the middle of a sequence.                                   *)
LEMMA LacedPiece ==
  ASSUME NEW S, NEW l \in Seq(S), NEW g, NEW p \in 1 .. Len(l) + 1,
         NEW q \in p - 1 .. Len(l),
         \A i \in p - 1 .. q : g[i] \in Nat,
         \A i \in p .. q : l[i].len = g[i] - g[i - 1]
  PROVE  LacedBytes(SubSeq(l, p, q)) = g[q] - g[p - 1]
<1> DEFINE x == SubSeq(l, p, q)
           h == [i \in 0 .. q - p + 1 |-> g[p - 1 + i]]
<1>0. Len(l) \in Nat /\ p \in Nat /\ q \in Nat /\ q - p + 1 \in Nat
  BY LenProperties
<1>1. Len(x) = q - p + 1 /\ \A i \in 1 .. q - p + 1 : x[i] = l[p + i - 1]
  BY Piece
<1> HIDE DEF x
<1>2. \A i \in 0 .. Len(x) : h[i] \in Nat
  <2>1. ASSUME NEW i \in 0 .. Len(x) PROVE h[i] \in Nat
    <3>1. p - 1 + i \in p - 1 .. q /\ i \in 0 .. q - p + 1
      BY <1>0, <1>1
    <3> QED
      BY <3>1
  <2> QED
    BY <2>1
<1>3. \A i \in 1 .. Len(x) : x[i].len = h[i] - h[i - 1]
  <2>1. ASSUME NEW i \in 1 .. Len(x) PROVE x[i].len = h[i] - h[i - 1]
    <3>1. /\ p + i - 1 \in p .. q /\ i \in 0 .. q - p + 1 /\ i - 1 \in 0 .. q - p + 1
          /\ p - 1 + i = p + i - 1 /\ p - 1 + (i - 1) = (p + i - 1) - 1
          /\ i \in 1 .. q - p + 1
      BY <1>0, <1>1
    <3>2. h[i] = g[p + i - 1] /\ h[i - 1] = g[(p + i - 1) - 1]
      BY <3>1
    <3> QED
      BY <1>1, <3>1, <3>2
  <2> QED
    BY <2>1
<1>4. h[0] = g[p - 1] /\ h[Len(x)] = g[q]
  <2>1. p - 1 + 0 = p - 1 /\ p - 1 + (q - p + 1) = q /\ 0 \in 0 .. q - p + 1
        /\ q - p + 1 \in 0 .. q - p + 1
    BY <1>0
  <2> QED
    BY <1>1, <2>1
<1>5. Len(x) \in Nat
  BY <1>0, <1>1
<1> HIDE DEF h
<1>6. LacedBytes(x) = h[Len(x)] - h[0]
  BY <1>2, <1>3, <1>5, LacedGap
<1> QED
  BY <1>4, <1>6 DEF x

(* What an update of a stream is, for any sets of bytes and segments.      *)
LEMMA StreamUpdated ==
  ASSUME NEW B, NEW L, NEW b \in B, NEW br \in Nat, NEW l \in L, NEW lp \in Nat,
         NEW lr \in Nat, NEW eo \in BOOLEAN, NEW bo \in BOOLEAN, NEW pn \in Int,
         NEW kn \in Int, NEW gp \in Int,
         NEW y \in [body : B, body_returned : Nat,
                    lacing : L, lacing_packet : Nat, lacing_returned : Nat,
                    e_o_s : BOOLEAN, b_o_s : BOOLEAN,
                    serialno : Int, pageno : Int, packetno : Int, granulepos : Int,
                    allocated : BOOLEAN],
         NEW z, z = [y EXCEPT !.body = b, !.body_returned = br, !.lacing = l,
                              !.lacing_packet = lp, !.lacing_returned = lr,
                              !.e_o_s = eo, !.b_o_s = bo, !.pageno = pn,
                              !.packetno = kn, !.granulepos = gp]
  PROVE  /\ z \in [body : B, body_returned : Nat,
                   lacing : L, lacing_packet : Nat, lacing_returned : Nat,
                   e_o_s : BOOLEAN, b_o_s : BOOLEAN,
                   serialno : Int, pageno : Int, packetno : Int, granulepos : Int,
                   allocated : BOOLEAN]
         /\ z.body = b /\ z.body_returned = br /\ z.lacing = l
         /\ z.lacing_packet = lp /\ z.lacing_returned = lr
         /\ z.e_o_s = eo /\ z.b_o_s = bo /\ z.serialno = y.serialno
         /\ z.pageno = pn /\ z.packetno = kn /\ z.granulepos = gp
         /\ z.allocated = y.allocated
OBVIOUS

(* Division by Full.                                                       *)
LEMMA Divided ==
  ASSUME NEW n \in Nat
  PROVE  /\ n \div Full \in Nat /\ n % Full \in Nat /\ n % Full < Full
         /\ n = (Full * (n \div Full)) + (n % Full)
<1>1. Full \in Nat /\ Full > 0
  BY SizeAssumption
<1> QED
  BY <1>1

(* The segments of a packet.                                               *)
LEMMA LacingIs ==
  ASSUME NEW n \in Nat, NEW granule \in Int, NEW previous \in Int
  PROVE  LET l == Lacing(n, granule, previous)
             w == n \div Full
         IN /\ l \in Seq(SegmentType) /\ Len(l) = w + 1 /\ w \in Nat
            /\ \A i \in 1 .. w : l[i].len = Full
            /\ l[w + 1].len = n % Full /\ l[w + 1].granule = granule
            /\ \A i \in 1 .. w + 1 : l[i].first <=> i = 1
<1> DEFINE l == Lacing(n, granule, previous)
           w == n \div Full
           head == [i \in 1 .. w |-> Segment(Full, previous)]
           tail == Segment(n % Full, granule)
           all == head \o <<tail>>
<1>1. w \in Nat /\ n % Full \in Nat /\ Full \in Nat
  BY Divided, SizeAssumption
<1> HIDE DEF w
<1>2. head \in Seq(SegmentType) /\ Len(head) = w /\ \A i \in 1 .. w : head[i] = Segment(Full, previous)
  <2>1. Segment(Full, previous) \in SegmentType
    BY <1>1 DEF Segment, SegmentType
  <2>2. head \in [1 .. w -> SegmentType]
    BY <2>1
  <2>3. \A i \in 1 .. w : head[i] = Segment(Full, previous)
    OBVIOUS
  <2> HIDE DEF head
  <2> QED
    BY <1>1, <2>2, <2>3, FunSeq
<1>3. tail \in SegmentType /\ tail.len = n % Full /\ tail.granule = granule /\ ~tail.first
  BY <1>1 DEF Segment, SegmentType
<1>4. /\ <<tail>> \in Seq(SegmentType) /\ Len(<<tail>>) = 1 /\ <<tail>>[1] = tail
  BY <1>3
<1> DEFINE one == <<tail>>
<1> HIDE DEF head, tail
<1>5. /\ all \in Seq(SegmentType) /\ Len(all) = w + 1
      /\ \A i \in 1 .. w : all[i] = Segment(Full, previous)
      /\ all[w + 1] = tail
  <2>1. one \in Seq(SegmentType) /\ Len(one) = 1 /\ one[1] = tail
    BY <1>4
  <2> HIDE DEF one
  <2>2. /\ head \o one \in Seq(SegmentType) /\ Len(head \o one) = Len(head) + Len(one)
        /\ \A i \in 1 .. Len(head) : (head \o one)[i] = head[i]
        /\ \A i \in 1 .. Len(one) : (head \o one)[Len(head) + i] = one[i]
    <3>1. head \in Seq(SegmentType) /\ one \in Seq(SegmentType)
      BY <1>2, <2>1
    <3> QED
      BY <3>1, Joined
  <2>3. 1 \in 1 .. 1
    OBVIOUS
  <2> QED
    BY <1>1, <1>2, <2>1, <2>2, <2>3 DEF one
<1>6. l = [all EXCEPT ![1].first = TRUE]
  BY DEF Lacing, w, head, tail
<1> HIDE DEF all, l
<1>7. \A i \in 1 .. w + 1 : all[i] \in SegmentType
  BY <1>1, <1>5, ElementOfSeq
<1> DEFINE x == [all[1] EXCEPT !.first = TRUE]
<1>8. 1 \in 1 .. w + 1
  BY <1>1
<1>9. x \in SegmentType /\ x.first /\ x.len = all[1].len /\ x.granule = all[1].granule
  BY <1>7, <1>8 DEF SegmentType
<1>10. all \in [1 .. w + 1 -> SegmentType]
  BY <1>5
<1>11. l = [all EXCEPT ![1] = x]
  BY <1>6, <1>10
<1> HIDE DEF x
<1>12. l \in [1 .. w + 1 -> SegmentType]
  BY <1>9, <1>10, <1>11
<1>13. l[1] = x /\ \A i \in 1 .. w + 1 : i # 1 => l[i] = all[i]
  BY <1>8, <1>10, <1>11
<1>14. l \in Seq(SegmentType) /\ Len(l) = w + 1
  BY <1>1, <1>12, FunSeq
<1>15. \A i \in 1 .. w + 1 : l[i].len = all[i].len /\ l[i].granule = all[i].granule
  BY <1>9, <1>13
<1>16. \A i \in 1 .. w : i \in 1 .. w + 1 /\ l[i].len = Full
  BY <1>1, <1>5, <1>15 DEF Segment
<1>17. w + 1 \in 1 .. w + 1
  BY <1>1
<1>18. \A i \in 1 .. w + 1 : i # 1 => ~all[i].first
  <2>1. ASSUME NEW i \in 1 .. w + 1, i # 1 PROVE ~all[i].first
    <3>1. CASE i = w + 1
      BY <1>3, <1>5, <3>1
    <3>2. CASE i # w + 1
      <4>1. i \in 1 .. w
        BY <1>1, <3>2
      <4> QED
        BY <1>5, <4>1 DEF Segment
    <3> QED
      BY <3>1, <3>2
  <2> QED
    BY <2>1
<1>19. \A i \in 1 .. w + 1 : l[i].first <=> i = 1
  BY <1>9, <1>13, <1>18
<1> QED
  BY <1>1, <1>3, <1>5, <1>14, <1>15, <1>16, <1>17, <1>19 DEF l, w

(* Parts of a joined sequence.                                             *)
LEMMA PieceOfFirst ==
  ASSUME NEW S, NEW s \in Seq(S), NEW u \in Seq(S), NEW m \in 1 .. Len(s) + 1,
         NEW n \in m - 1 .. Len(s)
  PROVE  SubSeq(s \o u, m, n) = SubSeq(s, m, n)
<1> DEFINE x == SubSeq(s, m, n)
           y == SubSeq(s \o u, m, n)
<1>0. Len(s) \in Nat /\ Len(u) \in Nat /\ m \in Nat /\ n \in Int
  BY LenProperties
<1>1. /\ s \o u \in Seq(S) /\ Len(s \o u) = Len(s) + Len(u)
      /\ \A i \in 1 .. Len(s) : (s \o u)[i] = s[i]
  BY Joined
<1>2. /\ x \in Seq(S) /\ Len(x) = n - m + 1
      /\ \A i \in 1 .. n - m + 1 : x[i] = s[m + i - 1]
  BY Piece
<1>3. /\ y \in Seq(S) /\ Len(y) = n - m + 1
      /\ \A i \in 1 .. n - m + 1 : y[i] = (s \o u)[m + i - 1]
  <2> DEFINE j == s \o u
  <2>1. j \in Seq(S) /\ m \in 1 .. Len(j) + 1 /\ n \in m - 1 .. Len(j)
    BY <1>0, <1>1
  <2> HIDE DEF j
  <2>2. /\ SubSeq(j, m, n) \in Seq(S) /\ Len(SubSeq(j, m, n)) = n - m + 1
        /\ \A i \in 1 .. n - m + 1 : SubSeq(j, m, n)[i] = j[m + i - 1]
    BY <2>1, Piece
  <2> QED
    BY <2>2 DEF j
<1> HIDE DEF x, y
<1>4. \A i \in 1 .. n - m + 1 : m + i - 1 \in 1 .. Len(s)
  BY <1>0
<1>5. \A i \in 1 .. Len(x) : x[i] = y[i]
  BY <1>1, <1>2, <1>3, <1>4
<1> QED
  BY <1>2, <1>3, <1>5, SeqEqual DEF x, y

(* The second part of a joined sequence, read back. *)
LEMMA PieceOfSecond ==
  ASSUME NEW S, NEW s \in Seq(S), NEW u \in Seq(S)
  PROVE  SubSeq(s \o u, Len(s) + 1, Len(s) + Len(u)) = u
<1> DEFINE j == s \o u
           y == SubSeq(j, Len(s) + 1, Len(s) + Len(u))
<1>0. Len(s) \in Nat /\ Len(u) \in Nat
  BY LenProperties
<1>1. /\ j \in Seq(S) /\ Len(j) = Len(s) + Len(u)
      /\ \A i \in 1 .. Len(u) : j[Len(s) + i] = u[i]
  BY Joined
<1> HIDE DEF j
<1>2. /\ Len(s) + 1 \in 1 .. Len(j) + 1
      /\ Len(s) + Len(u) \in (Len(s) + 1) - 1 .. Len(j)
      /\ (Len(s) + Len(u)) - (Len(s) + 1) + 1 = Len(u)
  BY <1>0, <1>1
<1>3. /\ y \in Seq(S) /\ Len(y) = (Len(s) + Len(u)) - (Len(s) + 1) + 1
      /\ \A i \in 1 .. (Len(s) + Len(u)) - (Len(s) + 1) + 1 :
           y[i] = j[(Len(s) + 1) + i - 1]
  BY <1>1, <1>2, Piece
<1> HIDE DEF y
<1>4. \A i \in 1 .. Len(u) : y[i] = u[i]
  <2>1. ASSUME NEW i \in 1 .. Len(u) PROVE y[i] = u[i]
    <3>1. (Len(s) + 1) + i - 1 = Len(s) + i
      BY <1>0
    <3> QED
      BY <1>1, <1>2, <1>3, <3>1
  <2> QED
    BY <2>1
<1> QED
  BY <1>2, <1>3, <1>4, SeqEqual DEF y, j

(* One more element.                                                       *)
LEMMA AppendIs ==
  ASSUME NEW S, NEW s \in Seq(S), NEW e \in S
  PROVE  /\ Append(s, e) \in Seq(S) /\ Len(Append(s, e)) = Len(s) + 1
         /\ \A i \in 1 .. Len(s) : Append(s, e)[i] = s[i]
         /\ Append(s, e)[Len(s) + 1] = e
BY LenProperties

-----------------------------------------------------------------------------
(* The stream as a whole: the segments of all packets, one behind the      *)
(* other, numbered from 1, and their bytes.                                *)

Packet == [packet : Seq(Nat), e_o_s : BOOLEAN, granulepos : Int]

(* How many segments there are.                                            *)
Total(ps, st) == st[Len(ps) + 1]

(* st[k] segments come before packet k.                                    *)
Starts(ps, st) ==
  /\ ps \in Seq(Packet)
  /\ st \in [1 .. Len(ps) + 1 -> Nat] /\ st[1] = 0
  /\ \A j, k \in 1 .. Len(ps) + 1 : j < k => st[j] < st[k]

(* off[g] bytes are in the first g segments.                               *)
Offsets(t, off, bytes) ==
  /\ off \in [0 .. t -> Nat] /\ off[0] = 0
  /\ \A g, h \in 0 .. t : g <= h => off[g] <= off[h]
  /\ \A g \in 1 .. t : off[g] - off[g - 1] <= Full
  /\ bytes \in Seq(Nat) /\ Len(bytes) = off[t]

(* A packet ends with the first segment that is not full.                  *)
Marks(ps, st, off) ==
  \A g \in 1 .. Total(ps, st) :
    off[g] - off[g - 1] < Full <=> \E k \in 1 .. Len(ps) : g = st[k + 1]

Contents(ps, st, off, bytes) ==
  \A k \in 1 .. Len(ps) :
    /\ ps[k].packet = SubSeq(bytes, off[st[k]] + 1, off[st[k + 1]])
    /\ st[k + 1] - st[k] = (Len(ps[k].packet) \div Full) + 1

(* No two packets are the same, and only the last may end the stream.      *)
Distinct(ps) ==
  /\ \A j, k \in 1 .. Len(ps) : ps[j].packet = ps[k].packet => j = k
  /\ \A k \in 1 .. Len(ps) : k # Len(ps) => ~ps[k].e_o_s

Streamed(ps, st, off, bytes) ==
  /\ Starts(ps, st) /\ Offsets(Total(ps, st), off, bytes)
  /\ Marks(ps, st, off) /\ Contents(ps, st, off, bytes) /\ Distinct(ps)

(* Behind segment g a packet begins.                                       *)
Boundary(off, g) == g = 0 \/ off[g] - off[g - 1] < Full

(* Basic facts about numbers of segments.                                  *)
LEMMA StartIs ==
  ASSUME NEW ps, NEW st, Starts(ps, st), NEW k \in 1 .. Len(ps) + 1
  PROVE  /\ st[k] \in 0 .. Total(ps, st) /\ st[k] \in Nat
         /\ Total(ps, st) \in Nat /\ Len(ps) \in Nat
         /\ k # Len(ps) + 1 => /\ k + 1 \in 1 .. Len(ps) + 1 /\ st[k] < st[k + 1]
                               /\ st[k + 1] \in 1 .. Total(ps, st)
<1>1. Len(ps) \in Nat
  BY LenProperties DEF Starts
<1>2. Len(ps) + 1 \in 1 .. Len(ps) + 1 /\ k \in Nat
  BY <1>1
<1>3. st[k] \in Nat /\ st[Len(ps) + 1] \in Nat
  BY <1>2 DEF Starts
<1>4. ASSUME NEW j \in 1 .. Len(ps) + 1 PROVE st[j] \in Nat /\ st[j] <= st[Len(ps) + 1]
  <2>1. CASE j = Len(ps) + 1
    BY <1>3, <2>1
  <2>2. CASE j # Len(ps) + 1
    <3>1. j < Len(ps) + 1
      BY <1>1, <2>2
    <3> QED
      BY <1>2, <1>3, <3>1 DEF Starts
  <2> QED
    BY <2>1, <2>2
<1>5. ASSUME k # Len(ps) + 1
      PROVE  /\ k + 1 \in 1 .. Len(ps) + 1 /\ st[k] < st[k + 1]
             /\ st[k + 1] \in 1 .. Total(ps, st)
  <2>1. k + 1 \in 1 .. Len(ps) + 1 /\ k < k + 1
    BY <1>1, <1>5
  <2>2. st[k] < st[k + 1]
    BY <2>1 DEF Starts
  <2>3. st[k + 1] \in Nat /\ st[k + 1] <= st[Len(ps) + 1]
    BY <1>4, <2>1
  <2> QED
    BY <1>3, <2>1, <2>2, <2>3 DEF Total
<1> QED
  BY <1>1, <1>3, <1>4, <1>5 DEF Total

(* A boundary is where a packet begins.                                    *)
LEMMA BoundaryIs ==
  ASSUME NEW ps, NEW st, NEW off, Starts(ps, st), Marks(ps, st, off),
         NEW g \in 0 .. Total(ps, st)
  PROVE  Boundary(off, g) <=> \E k \in 1 .. Len(ps) + 1 : g = st[k]
<1>1. Len(ps) \in Nat /\ Total(ps, st) \in Nat /\ 1 \in 1 .. Len(ps) + 1
  <2>1. Len(ps) \in Nat
    BY LenProperties DEF Starts
  <2>2. 1 \in 1 .. Len(ps) + 1
    BY <2>1
  <2> QED
    BY <2>1, <2>2, StartIs
<1>2. st[1] = 0
  BY DEF Starts
<1>3. CASE g = 0
  BY <1>1, <1>2, <1>3 DEF Boundary
<1>4. CASE g # 0
  <2>1. g \in 1 .. Total(ps, st)
    BY <1>1, <1>4
  <2>2. Boundary(off, g) <=> \E k \in 1 .. Len(ps) : g = st[k + 1]
    BY <1>4, <2>1 DEF Boundary, Marks
  <2>3. \A k \in 1 .. Len(ps) : k + 1 \in 1 .. Len(ps) + 1
    BY <1>1
  <2>4. \A k \in 1 .. Len(ps) + 1 : k # 1 => k - 1 \in 1 .. Len(ps) /\ k = (k - 1) + 1
    BY <1>1
  <2>5. (\E k \in 1 .. Len(ps) : g = st[k + 1]) <=> \E k \in 1 .. Len(ps) + 1 : g = st[k]
    <3>1. ASSUME NEW k \in 1 .. Len(ps) + 1, g = st[k]
          PROVE  \E j \in 1 .. Len(ps) : g = st[j + 1]
      <4>1. k # 1
        BY <1>2, <1>4, <3>1
      <4>2. k - 1 \in 1 .. Len(ps) /\ k = (k - 1) + 1
        BY <2>4, <4>1
      <4> QED
        BY <3>1, <4>2
    <3> QED
      BY <2>3, <3>1
  <2> QED
    BY <2>2, <2>5
<1> QED
  BY <1>3, <1>4

(* How many bytes the first i segments of a packet of len bytes hold.      *)
PartOf(len, i) == IF i = (len \div Full) + 1 THEN len ELSE i * Full

(* How far into a packet of len bytes each of its lacing values reaches: *)
(* whole values up to the last one, which is what is left over.          *)
LEMMA PartIs ==
  ASSUME NEW len \in Nat
  PROVE  LET w == len \div Full
         IN /\ w \in Nat /\ PartOf(len, 0) = 0 /\ PartOf(len, w + 1) = len
            /\ \A i \in 0 .. w + 1 : PartOf(len, i) \in Nat
            /\ \A i \in 1 .. w : PartOf(len, i) - PartOf(len, i - 1) = Full
            /\ PartOf(len, w + 1) - PartOf(len, w) = len % Full
            /\ len % Full \in Nat /\ len % Full < Full
            /\ \A i, j \in 0 .. w + 1 : i <= j => PartOf(len, i) <= PartOf(len, j)
<1> DEFINE w == len \div Full
           r == len % Full
<1>1. /\ w \in Nat /\ r \in Nat /\ r < Full /\ len = (Full * w) + r
      /\ Full \in Nat /\ Full > 0
  BY Divided, SizeAssumption
<1>2. \A i : PartOf(len, i) = IF i = w + 1 THEN len ELSE i * Full
  BY DEF PartOf
<1> HIDE DEF w, r
<1>3. PartOf(len, 0) = 0 /\ PartOf(len, w + 1) = len /\ PartOf(len, w) = w * Full
  BY <1>1, <1>2
<1>4. \A i \in Nat, j \in Nat : i <= j => i * Full <= j * Full
  <2>1. ASSUME NEW i \in Nat, NEW j \in Nat, i <= j PROVE i * Full <= j * Full
    <3>1. j - i \in Nat /\ (j - i) * Full \in Nat
      BY <1>1, <2>1
    <3>2. j * Full = i * Full + (j - i) * Full
      BY <1>1
    <3>3. i * Full \in Nat
      BY <1>1
    <3> QED
      BY <3>1, <3>2, <3>3
  <2> QED
    BY <2>1
<1>5. \A i \in 0 .. w + 1 : PartOf(len, i) \in Nat
  BY <1>1, <1>2
<1>6. ASSUME NEW i \in 1 .. w PROVE PartOf(len, i) - PartOf(len, i - 1) = Full
  <2>1. i # w + 1 /\ i - 1 # w + 1 /\ i \in Nat
    BY <1>1
  <2>2. PartOf(len, i) = i * Full /\ PartOf(len, i - 1) = (i - 1) * Full
    BY <1>2, <2>1
  <2> QED
    BY <1>1, <2>1, <2>2
<1>7. ASSUME NEW i \in 0 .. w + 1, NEW j \in 0 .. w + 1, i <= j
      PROVE  PartOf(len, i) <= PartOf(len, j)
  <2>1. CASE j # w + 1
    <3>1. i # w + 1 /\ i \in Nat /\ j \in Nat
      BY <1>1, <1>7, <2>1
    <3> QED
      BY <1>2, <1>4, <1>7, <2>1, <3>1
  <2>2. CASE j = w + 1 /\ i = w + 1
    BY <1>1, <1>2, <2>2
  <2>3. CASE j = w + 1 /\ i # w + 1
    <3>1. i \in Nat /\ i <= w
      BY <1>1, <2>3
    <3>2. i * Full <= w * Full
      BY <1>1, <1>4, <3>1
    <3>3. w * Full = Full * w /\ i * Full \in Nat /\ w * Full \in Nat
      BY <1>1, <3>1
    <3> QED
      BY <1>1, <1>2, <2>3, <3>2, <3>3
  <2> QED
    BY <2>1, <2>2, <2>3
<1>8. PartOf(len, w + 1) - PartOf(len, w) = r
  BY <1>1, <1>3
<1> QED
  BY <1>1, <1>3, <1>5, <1>6, <1>7, <1>8 DEF w, r

-----------------------------------------------------------------------------
(* Another packet. *)

NextStarts(ps, st, len) ==
  [k \in 1 .. Len(ps) + 2 |->
     IF k = Len(ps) + 2 THEN Total(ps, st) + (len \div Full) + 1 ELSE st[k]]

NextOffsets(t, off, len) ==
  [g \in 0 .. t + (len \div Full) + 1 |->
     IF g <= t THEN off[g] ELSE off[t] + PartOf(len, g - t)]

(* Laying out one more packet: the starts of the earlier ones stay, and the *)
(* new packet takes the lacing values after theirs.                         *)
LEMMA NextStartsAre ==
  ASSUME NEW ps, NEW st, Starts(ps, st), NEW p \in Packet
  PROVE  LET len == Len(p.packet)
             x == NextStarts(ps, st, len)
         IN /\ Starts(Append(ps, p), x)
            /\ \A k \in 1 .. Len(ps) + 1 : x[k] = st[k]
            /\ Total(Append(ps, p), x) = Total(ps, st) + (len \div Full) + 1
<1> DEFINE len == Len(p.packet)
           w == len \div Full
           n == Len(ps)
           t == Total(ps, st)
           x == NextStarts(ps, st, len)
           qs == Append(ps, p)
<1>1. len \in Nat /\ w \in Nat /\ n \in Nat
  <2>1. p.packet \in Seq(Nat)
    BY DEF Packet
  <2> QED
    BY <2>1, LenProperties, Divided DEF Starts
<1>2. /\ qs \in Seq(Packet) /\ Len(qs) = n + 1
      /\ \A k \in 1 .. n : qs[k] = ps[k]
      /\ qs[n + 1] = p
  BY AppendIs DEF Starts
<1>3. t \in Nat /\ \A k \in 1 .. n + 1 : st[k] \in Nat /\ st[k] <= t
  <2>1. \A k \in 1 .. n + 1 : st[k] \in 0 .. t /\ t \in Nat
    BY StartIs
  <2>2. n + 1 \in 1 .. n + 1
    BY <1>1
  <2> QED
    BY <2>1, <2>2
<1> HIDE DEF w, t, len
<1>4. x = [k \in 1 .. n + 2 |-> IF k = n + 2 THEN t + w + 1 ELSE st[k]]
  BY DEF NextStarts, w, t
<1> HIDE DEF x
<1>5. x \in [1 .. n + 2 -> Nat]
  <2>1. \A k \in 1 .. n + 2 : k = n + 2 \/ k \in 1 .. n + 1
    BY <1>1
  <2> HIDE DEF n
  <2> QED
    BY <1>1, <1>3, <1>4, <2>1
<1>6. x[n + 2] = t + w + 1 /\ \A k \in 1 .. n + 1 : x[k] = st[k]
  BY <1>1, <1>4
<1>7. ASSUME NEW j \in 1 .. n + 2, NEW k \in 1 .. n + 2, j < k PROVE x[j] < x[k]
  <2>1. j \in 1 .. n + 1
    BY <1>1, <1>7
  <2>2. CASE k = n + 2
    <3>1. st[j] \in Nat /\ st[j] <= t /\ x[j] = st[j]
      BY <1>3, <1>6, <2>1
    <3> QED
      BY <1>1, <1>3, <1>6, <2>2, <3>1
  <2>3. CASE k # n + 2
    <3>1. k \in 1 .. n + 1
      BY <1>1, <2>3
    <3>2. st[j] < st[k]
      BY <1>7, <2>1, <3>1 DEF Starts
    <3> QED
      BY <1>6, <2>1, <3>1, <3>2
  <2> QED
    BY <2>2, <2>3
<1>8. x[1] = 0
  <2>1. 1 \in 1 .. n + 1 /\ st[1] = 0
    BY <1>1 DEF Starts
  <2> QED
    BY <1>6, <2>1
<1>9. (n + 1) + 1 = n + 2
  BY <1>1
<1> HIDE DEF qs, n
<1>10. Starts(qs, x)
  BY <1>2, <1>5, <1>7, <1>8, <1>9 DEF Starts
<1>11. Total(qs, x) = t + w + 1
  BY <1>2, <1>6, <1>9 DEF Total
<1> QED
  BY <1>6, <1>10, <1>11 DEF qs, n, x, t, w, len

(* Laying out one more packet: the offsets so far stay, and the new lacing *)
(* values are all full but the last.                                       *)
LEMMA NextOffsetsAre ==
  ASSUME NEW t \in Nat, NEW off, NEW bytes, Offsets(t, off, bytes),
         NEW packet \in Seq(Nat)
  PROVE  LET len == Len(packet)
             w == len \div Full
             x == NextOffsets(t, off, len)
         IN /\ Offsets(t + w + 1, x, bytes \o packet)
            /\ \A g \in 0 .. t : x[g] = off[g]
            /\ x[t + w + 1] = off[t] + len
            /\ \A i \in 1 .. w : x[t + i] - x[t + i - 1] = Full
            /\ x[t + w + 1] - x[t + w] = len % Full
<1> DEFINE len == Len(packet)
           w == len \div Full
           x == NextOffsets(t, off, len)
<1>1. len \in Nat /\ w \in Nat
  BY LenProperties, Divided
<1>2. /\ PartOf(len, 0) = 0 /\ PartOf(len, w + 1) = len
      /\ \A i \in 0 .. w + 1 : PartOf(len, i) \in Nat
      /\ \A i \in 1 .. w : PartOf(len, i) - PartOf(len, i - 1) = Full
      /\ PartOf(len, w + 1) - PartOf(len, w) = len % Full
      /\ len % Full \in Nat /\ len % Full < Full
      /\ \A i, j \in 0 .. w + 1 : i <= j => PartOf(len, i) <= PartOf(len, j)
  BY <1>1, PartIs
<1>3. Full \in Nat /\ Full > 0
  BY SizeAssumption
<1> DEFINE r == len % Full
<1>4. x = [g \in 0 .. t + w + 1 |-> IF g <= t THEN off[g] ELSE off[t] + PartOf(len, g - t)]
  BY DEF NextOffsets
<1> HIDE DEF w, len, x, r
<1>5. /\ \A g \in 0 .. t : off[g] \in Nat /\ off[g] <= off[t]
      /\ off[0] = 0
      /\ \A g, h \in 0 .. t : g <= h => off[g] <= off[h]
      /\ \A g \in 1 .. t : off[g] - off[g - 1] <= Full
      /\ bytes \in Seq(Nat) /\ Len(bytes) = off[t]
  <2>1. t \in 0 .. t
    OBVIOUS
  <2> QED
    BY <2>1 DEF Offsets
<1>6. \A g \in 0 .. t : x[g] = off[g]
  BY <1>1, <1>4
<1>7. \A i \in 0 .. w + 1 : x[t + i] = off[t] + PartOf(len, i)
  <2>1. ASSUME NEW i \in 0 .. w + 1 PROVE x[t + i] = off[t] + PartOf(len, i)
    <3>1. t + i \in 0 .. t + w + 1 /\ (t + i) - t = i
      BY <1>1
    <3>2. CASE i = 0
      <4>1. t + i = t /\ t \in 0 .. t
        BY <3>2
      <4> QED
        BY <1>2, <1>5, <1>6, <3>2, <4>1
    <3>3. CASE i # 0
      <4>1. ~(t + i <= t)
        BY <1>1, <3>3
      <4> QED
        BY <1>4, <3>1, <4>1
    <3> QED
      BY <3>2, <3>3
  <2> QED
    BY <2>1
<1>8. \A g \in 0 .. t + w + 1 : g \in 0 .. t \/ \E i \in 1 .. w + 1 : g = t + i
  <2>1. ASSUME NEW g \in 0 .. t + w + 1, ~(g <= t) PROVE \E i \in 1 .. w + 1 : g = t + i
    <3>1. g - t \in 1 .. w + 1 /\ g = t + (g - t)
      BY <1>1, <2>1
    <3> QED
      BY <3>1
  <2> QED
    BY <2>1
<1>9. \A g \in 0 .. t + w + 1 : x[g] \in Nat
  <2>1. ASSUME NEW g \in 0 .. t + w + 1 PROVE x[g] \in Nat
    <3>1. CASE g \in 0 .. t
      BY <1>5, <1>6, <3>1
    <3>2. CASE \E i \in 1 .. w + 1 : g = t + i
      <4>1. PICK i \in 1 .. w + 1 : g = t + i
        BY <3>2
      <4>2. i \in 0 .. w + 1 /\ t \in 0 .. t
        BY <1>1
      <4>3. off[t] \in Nat /\ PartOf(len, i) \in Nat
        BY <1>2, <1>5, <4>2
      <4> QED
        BY <1>7, <4>1, <4>2, <4>3
    <3> QED
      BY <1>8, <3>1, <3>2
  <2> QED
    BY <2>1
<1>10. x \in [0 .. t + w + 1 -> Nat]
  BY <1>4, <1>9
<1>11. ASSUME NEW g \in 0 .. t + w + 1, NEW h \in 0 .. t + w + 1, g <= h
       PROVE  x[g] <= x[h]
  <2>0. off[t] \in Nat
    BY <1>5
  <2>1. CASE h \in 0 .. t
    <3>1. g \in 0 .. t
      BY <1>11, <2>1
    <3> QED
      BY <1>5, <1>6, <1>11, <2>1, <3>1
  <2>2. CASE \E j \in 1 .. w + 1 : h = t + j
    <3>1. PICK j \in 1 .. w + 1 : h = t + j
      BY <2>2
    <3>2. j \in 0 .. w + 1 /\ x[h] = off[t] + PartOf(len, j) /\ PartOf(len, j) \in Nat
      BY <1>1, <1>2, <1>7, <3>1
    <3>3. CASE g \in 0 .. t
      <4>1. x[g] = off[g] /\ off[g] \in Nat /\ off[g] <= off[t]
        BY <1>5, <1>6, <3>3
      <4> QED
        BY <2>0, <3>2, <4>1
    <3>4. CASE \E i \in 1 .. w + 1 : g = t + i
      <4>1. PICK i \in 1 .. w + 1 : g = t + i
        BY <3>4
      <4>2. i \in 0 .. w + 1 /\ i <= j
        BY <1>1, <1>11, <3>1, <4>1
      <4>3. PartOf(len, i) \in Nat /\ PartOf(len, i) <= PartOf(len, j)
        BY <1>2, <3>2, <4>2
      <4> QED
        BY <1>7, <2>0, <3>2, <4>1, <4>2, <4>3
    <3> QED
      BY <1>8, <3>3, <3>4
  <2> QED
    BY <1>8, <2>1, <2>2
<1>12. ASSUME NEW i \in 1 .. w + 1
       PROVE  x[t + i] - x[t + i - 1] = PartOf(len, i) - PartOf(len, i - 1)
  <2>1. i \in 0 .. w + 1 /\ i - 1 \in 0 .. w + 1 /\ t + i - 1 = t + (i - 1)
    BY <1>1
  <2>2. off[t] \in Nat /\ PartOf(len, i) \in Nat /\ PartOf(len, i - 1) \in Nat
    BY <1>2, <1>5, <2>1
  <2> QED
    BY <1>7, <2>1, <2>2
<1>13. \A i \in 1 .. w : x[t + i] - x[t + i - 1] = Full
  <2>1. \A i \in 1 .. w : i \in 1 .. w + 1
    BY <1>1
  <2> QED
    BY <1>2, <1>12, <2>1
<1>14. x[t + w + 1] - x[t + w] = len % Full /\ x[t + w + 1] = off[t] + len
  <2>1. /\ w + 1 \in 1 .. w + 1 /\ t + (w + 1) = t + w + 1 /\ t + (w + 1) - 1 = t + w
        /\ (w + 1) - 1 = w /\ w + 1 \in 0 .. w + 1
    BY <1>1
  <2> QED
    BY <1>2, <1>7, <1>12, <2>1
<1>15. ASSUME NEW g \in 1 .. t + w + 1 PROVE x[g] - x[g - 1] <= Full
  <2>1. CASE g \in 0 .. t
    <3>1. g \in 1 .. t /\ g - 1 \in 0 .. t
      BY <2>1
    <3> QED
      BY <1>5, <1>6, <2>1, <3>1
  <2>2. CASE \E i \in 1 .. w + 1 : g = t + i
    <3>1. PICK i \in 1 .. w + 1 : g = t + i
      BY <2>2
    <3>2. CASE i \in 1 .. w
      BY <1>3, <1>13, <3>1, <3>2
    <3>3. CASE i = w + 1
      <4>1. g = t + w + 1 /\ g - 1 = t + w
        BY <1>1, <3>1, <3>3
      <4> QED
        BY <1>2, <1>3, <1>14, <4>1
    <3>4. i \in 1 .. w \/ i = w + 1
      BY <1>1
    <3> QED
      BY <3>2, <3>3, <3>4
  <2>3. g \in 0 .. t + w + 1
    BY <1>1
  <2> QED
    BY <1>8, <2>1, <2>2, <2>3
<1>16. x[0] = 0
  <2>1. 0 \in 0 .. t
    OBVIOUS
  <2> QED
    BY <1>5, <1>6, <2>1
<1>17. bytes \o packet \in Seq(Nat) /\ Len(bytes \o packet) = x[t + w + 1]
  <2>1. bytes \in Seq(Nat) /\ packet \in Seq(Nat)
    BY <1>5
  <2>2. bytes \o packet \in Seq(Nat) /\ Len(bytes \o packet) = Len(bytes) + Len(packet)
    BY <2>1, Joined
  <2> QED
    BY <1>5, <1>14, <2>2 DEF len
<1>18. Offsets(t + w + 1, x, bytes \o packet)
  BY <1>10, <1>11, <1>15, <1>16, <1>17 DEF Offsets
<1> QED
  BY <1>6, <1>13, <1>14, <1>18 DEF w, len, x

(* The stream with one packet more is a stream, of which the former is the *)
(* beginning.                                                              *)
LEMMA NextStreamed ==
  ASSUME NEW ps, NEW st, NEW off, NEW bytes, Streamed(ps, st, off, bytes),
         NEW p \in Packet,
         \A k \in 1 .. Len(ps) : ps[k].packet # p.packet,
         Len(ps) # 0 => ~ps[Len(ps)].e_o_s
  PROVE  LET len == Len(p.packet)
         IN Streamed(Append(ps, p), NextStarts(ps, st, len),
                     NextOffsets(Total(ps, st), off, len), bytes \o p.packet)
<1> DEFINE len == Len(p.packet)
           w == len \div Full
           n == Len(ps)
           t == Total(ps, st)
           qs == Append(ps, p)
           x == NextStarts(ps, st, len)
           y == NextOffsets(t, off, len)
           more == bytes \o p.packet
<1>1. p.packet \in Seq(Nat) /\ len \in Nat /\ w \in Nat /\ n \in Nat
  <2>1. p.packet \in Seq(Nat)
    BY DEF Packet
  <2> QED
    BY <2>1, LenProperties, Divided DEF Streamed, Starts
<1>2. /\ Starts(ps, st) /\ Offsets(t, off, bytes) /\ Marks(ps, st, off)
      /\ Contents(ps, st, off, bytes) /\ Distinct(ps)
  BY DEF Streamed
<1>3. /\ Starts(qs, x) /\ Total(qs, x) = t + w + 1
      /\ \A k \in 1 .. n + 1 : x[k] = st[k]
  BY <1>2, NextStartsAre
<1>4. /\ t \in Nat
      /\ \A k \in 1 .. n + 1 : st[k] \in 0 .. t
      /\ \A k \in 1 .. n : k + 1 \in 1 .. n + 1 /\ st[k] < st[k + 1] /\ st[k + 1] \in 1 .. t
  <2>1. \A k \in 1 .. n + 1 : st[k] \in 0 .. t /\ t \in Nat
    BY <1>2, StartIs
  <2>2. n + 1 \in 1 .. n + 1 /\ \A k \in 1 .. n : k \in 1 .. n + 1 /\ k # n + 1
    BY <1>1
  <2> QED
    BY <1>2, <2>1, <2>2, StartIs
<1>5. /\ Offsets(t + w + 1, y, more)
      /\ \A g \in 0 .. t : y[g] = off[g]
      /\ y[t + w + 1] = off[t] + len
      /\ \A i \in 1 .. w : y[t + i] - y[t + i - 1] = Full
      /\ y[t + w + 1] - y[t + w] = len % Full
  BY <1>1, <1>2, <1>4, NextOffsetsAre
<1>6. /\ qs \in Seq(Packet) /\ Len(qs) = n + 1
      /\ \A k \in 1 .. n : qs[k] = ps[k]
      /\ qs[n + 1] = p
  BY <1>2, AppendIs DEF Starts
<1>7. len % Full \in Nat /\ len % Full < Full /\ Full \in Nat
  BY <1>1, Divided, SizeAssumption
<1>8. x[n + 2] = t + w + 1 /\ x[n + 1] = t /\ (n + 1) + 1 = n + 2
  <2>1. (n + 1) + 1 = n + 2 /\ n + 1 \in 1 .. n + 1
    BY <1>1
  <2>2. x[(n + 1) + 1] = t + w + 1
    BY <1>3, <1>6 DEF Total
  <2> QED
    BY <1>3, <2>1, <2>2 DEF Total
<1> DEFINE r == len % Full
<1> HIDE DEF r, qs, x, y, more, t, w
<1>9. \A k \in 1 .. n : x[k] = st[k] /\ x[k + 1] = st[k + 1]
  <2>1. \A k \in 1 .. n : k \in 1 .. n + 1 /\ k + 1 \in 1 .. n + 1
    BY <1>1
  <2> QED
    BY <1>3, <2>1
<1>10. Marks(qs, x, y)
  <2> SUFFICES ASSUME NEW g \in 1 .. t + w + 1
               PROVE  y[g] - y[g - 1] < Full <=> \E k \in 1 .. n + 1 : g = x[k + 1]
    BY <1>3, <1>6 DEF Marks
  <2>0. \A k \in 1 .. n + 1 : k \in 1 .. n \/ k = n + 1
    BY <1>1
  <2>1. CASE g <= t
    <3>1. g \in 1 .. t /\ g \in 0 .. t /\ g - 1 \in 0 .. t
      BY <1>4, <2>1
    <3>2. y[g] - y[g - 1] < Full <=> \E k \in 1 .. n : g = st[k + 1]
      BY <1>2, <1>5, <3>1 DEF Marks, t
    <3>3. g # x[n + 2]
      BY <1>1, <1>4, <1>8, <2>1
    <3>4. \A k \in 1 .. n : k \in 1 .. n + 1
      BY <1>1
    <3>5. (\E k \in 1 .. n : g = st[k + 1]) <=> \E k \in 1 .. n + 1 : g = x[k + 1]
      BY <1>8, <1>9, <2>0, <3>3, <3>4
    <3> QED
      BY <3>2, <3>5
  <2>2. CASE ~(g <= t) /\ g # t + w + 1
    <3>1. g - t \in 1 .. w /\ t + (g - t) = g /\ t + (g - t) - 1 = g - 1
      BY <1>1, <1>4, <2>2
    <3>2. y[g] - y[g - 1] = Full
      BY <1>5, <3>1
    <3>3. \A k \in 1 .. n + 1 : g # x[k + 1]
      <4>1. \A k \in 1 .. n : st[k + 1] <= t
        BY <1>4
      <4>2. \A k \in 1 .. n : g # x[k + 1]
        BY <1>9, <2>2, <4>1
      <4> QED
        BY <1>8, <2>0, <2>2, <4>2
    <3> QED
      BY <1>7, <3>2, <3>3
  <2>3. CASE g = t + w + 1
    <3>1. y[g] - y[g - 1] = r
      <4>1. g - 1 = t + w
        BY <1>1, <1>4, <2>3
      <4> QED
        BY <1>5, <2>3, <4>1 DEF r
    <3>2. n + 1 \in 1 .. n + 1 /\ g = x[(n + 1) + 1]
      BY <1>1, <1>8, <2>3
    <3> QED
      BY <1>7, <3>1, <3>2 DEF r
  <2> QED
    BY <2>1, <2>2, <2>3
<1>11. Contents(qs, x, y, more)
  <2> SUFFICES ASSUME NEW k \in 1 .. n + 1
               PROVE  /\ qs[k].packet = SubSeq(more, y[x[k]] + 1, y[x[k + 1]])
                      /\ x[k + 1] - x[k] = (Len(qs[k].packet) \div Full) + 1
    BY <1>6 DEF Contents
  <2>1. CASE k \in 1 .. n
    <3> DEFINE a == off[st[k]]
               b == off[st[k + 1]]
    <3>1. ps[k].packet = SubSeq(bytes, a + 1, b)
          /\ st[k + 1] - st[k] = (Len(ps[k].packet) \div Full) + 1
      BY <1>2, <2>1 DEF Contents
    <3>2. st[k] \in 0 .. t /\ st[k + 1] \in 0 .. t /\ st[k] <= st[k + 1]
      <4>1. k \in 1 .. n + 1 /\ k + 1 \in 1 .. n + 1
        BY <1>1, <2>1
      <4>2. st[k] \in 0 .. t /\ st[k + 1] \in 0 .. t /\ st[k] < st[k + 1]
        BY <1>4, <2>1, <4>1
      <4> QED
        BY <1>4, <4>2
    <3>3. y[x[k]] = a /\ y[x[k + 1]] = b
      BY <1>5, <1>9, <2>1, <3>2
    <3>4. a \in Nat /\ b \in Nat /\ a <= b /\ b <= Len(bytes)
      <4>1. t \in 0 .. t /\ \A g \in 0 .. t : g <= t
        BY <1>4
      <4> QED
        BY <1>2, <3>2, <4>1 DEF Offsets
    <3>5. bytes \in Seq(Nat) /\ p.packet \in Seq(Nat)
      BY <1>1, <1>2 DEF Offsets
    <3> HIDE DEF a, b
    <3>6. a + 1 \in 1 .. Len(bytes) + 1 /\ b \in (a + 1) - 1 .. Len(bytes)
      BY <3>4, <3>5, LenProperties
    <3>7. SubSeq(bytes \o p.packet, a + 1, b) = SubSeq(bytes, a + 1, b)
      BY <3>5, <3>6, PieceOfFirst
    <3>8. qs[k] = ps[k]
      BY <1>6, <2>1
    <3> QED
      BY <1>9, <2>1, <3>1, <3>3, <3>7, <3>8 DEF more
  <2>2. CASE k = n + 1
    <3>1. x[k] = t /\ x[k + 1] = t + w + 1 /\ t \in 0 .. t
      BY <1>4, <1>8, <2>2
    <3>2. y[x[k]] = off[t] /\ y[x[k + 1]] = off[t] + len
      BY <1>5, <3>1
    <3>3. bytes \in Seq(Nat) /\ p.packet \in Seq(Nat) /\ Len(bytes) = off[t]
      BY <1>1, <1>2 DEF Offsets
    <3>4. SubSeq(bytes \o p.packet, off[t] + 1, off[t] + len) = p.packet
      BY <3>3, PieceOfSecond
    <3>5. (t + w + 1) - t = w + 1
      BY <1>1, <1>4
    <3> QED
      BY <1>6, <2>2, <3>1, <3>2, <3>4, <3>5 DEF more, w
  <2> QED
    BY <1>1, <2>1, <2>2
<1>12. Distinct(qs)
  <2>1. \A k \in 1 .. n + 1 : k \in 1 .. n \/ k = n + 1
    BY <1>1
  <2>2. ASSUME NEW j \in 1 .. n + 1, NEW k \in 1 .. n + 1, qs[j].packet = qs[k].packet
        PROVE  j = k
    BY <1>2, <1>6, <2>1, <2>2 DEF Distinct
  <2>3. ASSUME NEW k \in 1 .. n + 1, k # n + 1 PROVE ~qs[k].e_o_s
    <3>1. k \in 1 .. n /\ qs[k] = ps[k]
      BY <1>6, <2>1, <2>3
    <3>2. CASE k = n
      <4>1. n # 0
        BY <3>1
      <4> QED
        BY <3>1, <3>2, <4>1
    <3>3. CASE k # n
      BY <1>2, <3>1, <3>3 DEF Distinct
    <3> QED
      BY <3>2, <3>3
  <2> QED
    BY <1>6, <2>2, <2>3 DEF Distinct
<1>13. Streamed(qs, x, y, more)
  BY <1>3, <1>5, <1>10, <1>11, <1>12 DEF Streamed
<1> QED
  BY <1>13 DEF qs, x, y, more, t

-----------------------------------------------------------------------------
(* Pages of the stream. *)

(* p is page number i - 1, with segments a + 1 to b.                       *)
OnPage(p, i, ps, st, off, bytes, a, b) ==
  /\ p.serialno = Serial /\ p.pageno = i - 1
  /\ Len(p.lens) = b - a
  /\ \A s \in 1 .. b - a : p.lens[s] = off[a + s] - off[a + s - 1]
  /\ p.body = SubSeq(bytes, off[a] + 1, off[b])
  /\ p.continued <=> ~Boundary(off, a)
  /\ p.bos <=> i = 1
  /\ \A k \in 1 .. Len(ps) :
       /\ st[k + 1] \in a + 1 .. b
       /\ \A g \in st[k + 1] + 1 .. b : ~Boundary(off, g)
       => p.granulepos = ps[k].granulepos \/ (k = 1 /\ p.granulepos = 0)

(* cut[i] segments are on the first i pages.                               *)
Cuts(m, t, cut) ==
  /\ cut \in [0 .. m -> 0 .. t] /\ cut[0] = 0
  /\ \A i, j \in 0 .. m : i < j => cut[i] < cut[j]

Paged(ps, gs, st, off, bytes, cut) ==
  /\ gs \in Seq(Page) /\ Cuts(Len(gs), Total(ps, st), cut)
  /\ \A i \in 1 .. Len(gs) : OnPage(gs[i], i, ps, st, off, bytes, cut[i - 1], cut[i])
  /\ \A i \in 1 .. Len(gs) :
       gs[i].eos => /\ i = Len(gs) /\ cut[i] = Total(ps, st)
                    /\ Len(ps) # 0 /\ ps[Len(ps)].e_o_s

(* What a cut is.                                                          *)
LEMMA CutIs ==
  ASSUME NEW m \in Nat, NEW t \in Nat, NEW cut, Cuts(m, t, cut)
  PROVE  /\ \A i \in 0 .. m : cut[i] \in 0 .. t /\ cut[i] \in Nat
         /\ \A i \in 1 .. m : /\ i - 1 \in 0 .. m /\ i \in 0 .. m
                              /\ cut[i - 1] < cut[i]
         /\ \A i, j \in 0 .. m : i <= j => cut[i] <= cut[j]
         /\ \A i, j \in 0 .. m : cut[i] = cut[j] => i = j
<1>1. \A i \in 0 .. m : cut[i] \in 0 .. t /\ cut[i] \in Nat
  BY DEF Cuts
<1>2. \A i \in 1 .. m : i - 1 \in 0 .. m /\ i \in 0 .. m /\ i - 1 < i
  OBVIOUS
<1>3. \A i, j \in 0 .. m : i < j => cut[i] < cut[j]
  BY DEF Cuts
<1>4. \A i, j \in 0 .. m : i < j \/ i = j \/ j < i
  OBVIOUS
<1>5. \A i, j \in 0 .. m : i <= j => i < j \/ i = j
  OBVIOUS
<1> QED
  BY <1>1, <1>2, <1>3, <1>4, <1>5

(* A page stays the same page when another packet follows.                 *)
LEMMA PageStays ==
  ASSUME NEW ps, NEW st, NEW off, NEW bytes, Streamed(ps, st, off, bytes),
         NEW q \in Packet, NEW p, NEW i, NEW a \in 0 .. Total(ps, st),
         NEW b \in a + 1 .. Total(ps, st),
         OnPage(p, i, ps, st, off, bytes, a, b)
  PROVE  LET len == Len(q.packet)
         IN OnPage(p, i, Append(ps, q), NextStarts(ps, st, len),
                   NextOffsets(Total(ps, st), off, len), bytes \o q.packet, a, b)
<1> DEFINE len == Len(q.packet)
           w == len \div Full
           n == Len(ps)
           t == Total(ps, st)
           qs == Append(ps, q)
           x == NextStarts(ps, st, len)
           y == NextOffsets(t, off, len)
           more == bytes \o q.packet
<1>1. /\ q.packet \in Seq(Nat) /\ len \in Nat /\ w \in Nat /\ n \in Nat
      /\ Starts(ps, st) /\ Offsets(t, off, bytes)
  <2>1. q.packet \in Seq(Nat)
    BY DEF Packet
  <2> QED
    BY <2>1, LenProperties, Divided DEF Streamed, Starts
<1>2. n + 1 \in 1 .. n + 1 /\ \A k \in 1 .. n : k + 1 \in 1 .. n + 1
  BY <1>1
<1>3. t \in Nat
  BY <1>1, <1>2, StartIs
<1>4. /\ Total(qs, x) = t + w + 1
      /\ \A k \in 1 .. n : x[k + 1] = st[k + 1]
  BY <1>1, <1>2, NextStartsAre
<1>5. /\ Len(qs) = n + 1 /\ \A k \in 1 .. n : qs[k] = ps[k]
  BY <1>1, AppendIs DEF Starts
<1>6. \A g \in 0 .. t : y[g] = off[g]
  BY <1>1, <1>3, NextOffsetsAre
<1>7. x[(n + 1) + 1] = t + w + 1
  BY <1>4, <1>5 DEF Total
<1>8. bytes \in Seq(Nat) /\ Len(bytes) = off[t] /\ off[a] \in Nat /\ off[b] \in Nat
      /\ off[a] <= off[b] /\ off[b] <= off[t]
  <2>1. a \in 0 .. t /\ b \in 0 .. t /\ t \in 0 .. t /\ a <= b /\ b <= t
    BY <1>3
  <2> QED
    BY <1>1, <2>1 DEF Offsets
<1> HIDE DEF x, y, qs, w, t
<1>9. more = more /\ SubSeq(more, y[a] + 1, y[b]) = SubSeq(bytes, off[a] + 1, off[b])
  <2> DEFINE c == off[a]
             d == off[b]
  <2>1. y[a] = c /\ y[b] = d
    BY <1>3, <1>6 DEF t
  <2>2. c + 1 \in 1 .. Len(bytes) + 1 /\ d \in (c + 1) - 1 .. Len(bytes)
    BY <1>8, LenProperties
  <2> HIDE DEF c, d
  <2>3. SubSeq(bytes \o q.packet, c + 1, d) = SubSeq(bytes, c + 1, d)
    BY <1>1, <1>8, <2>2, PieceOfFirst
  <2> QED
    BY <2>1, <2>3 DEF c, d
<1>10. \A g \in 0 .. t : Boundary(y, g) <=> Boundary(off, g)
  <2>1. \A g \in 0 .. t : g # 0 => g - 1 \in 0 .. t
    BY <1>3
  <2> QED
    BY <1>6, <2>1 DEF Boundary
<1>11. \A s \in 1 .. b - a : p.lens[s] = y[a + s] - y[a + s - 1]
  <2>1. \A s \in 1 .. b - a : a + s \in 0 .. t /\ a + s - 1 \in 0 .. t
    BY <1>3 DEF t
  <2>2. \A s \in 1 .. b - a : p.lens[s] = off[a + s] - off[a + s - 1]
    BY DEF OnPage
  <2> QED
    BY <1>6, <2>1, <2>2
<1>12. p.continued <=> ~Boundary(y, a)
  BY <1>3, <1>10 DEF OnPage, t
<1>13. ASSUME NEW k \in 1 .. n + 1, x[k + 1] \in a + 1 .. b,
              \A g \in x[k + 1] + 1 .. b : ~Boundary(y, g)
       PROVE  p.granulepos = qs[k].granulepos \/ (k = 1 /\ p.granulepos = 0)
  <2>1. k # n + 1
    <3>1. ~(t + w + 1 \in a + 1 .. b)
      BY <1>1, <1>3 DEF t
    <3> QED
      BY <1>7, <1>13, <3>1
  <2>2. k \in 1 .. n
    BY <1>1, <2>1
  <2>3. st[k + 1] \in a + 1 .. b
    BY <1>4, <1>13, <2>2
  <2>4. ASSUME NEW g \in st[k + 1] + 1 .. b PROVE ~Boundary(off, g)
    <3>1. g \in 0 .. t
      BY <1>3, <2>3 DEF t
    <3>2. ~Boundary(y, g)
      BY <1>4, <1>13, <2>2
    <3> QED
      BY <1>10, <3>1, <3>2
  <2>5. p.granulepos = ps[k].granulepos \/ (k = 1 /\ p.granulepos = 0)
    BY <2>2, <2>3, <2>4 DEF OnPage
  <2> QED
    BY <1>5, <2>2, <2>5
<1>14. OnPage(p, i, qs, x, y, more, a, b)
  <2>1. /\ p.serialno = Serial /\ p.pageno = i - 1 /\ Len(p.lens) = b - a
        /\ p.bos <=> i = 1
        /\ p.body = SubSeq(more, y[a] + 1, y[b])
    BY <1>9 DEF OnPage
  <2> HIDE DEF more
  <2> QED
    BY <1>5, <1>11, <1>12, <1>13, <2>1 DEF OnPage
<1> QED
  BY <1>14 DEF qs, x, y, t

(* What is paged of the packets so far is paged of them and one more, for *)
(* as long as none of them ended the stream.                              *)
LEMMA PagedStays ==
  ASSUME NEW ps, NEW st, NEW off, NEW bytes, Streamed(ps, st, off, bytes),
         NEW gs, NEW cut, Paged(ps, gs, st, off, bytes, cut),
         NEW q \in Packet, Len(ps) # 0 => ~ps[Len(ps)].e_o_s
  PROVE  LET len == Len(q.packet)
         IN Paged(Append(ps, q), gs, NextStarts(ps, st, len),
                  NextOffsets(Total(ps, st), off, len), bytes \o q.packet, cut)
<1> DEFINE len == Len(q.packet)
           w == len \div Full
           n == Len(ps)
           t == Total(ps, st)
           m == Len(gs)
           qs == Append(ps, q)
           x == NextStarts(ps, st, len)
           y == NextOffsets(t, off, len)
           more == bytes \o q.packet
<1>1. /\ len \in Nat /\ w \in Nat /\ n \in Nat /\ Starts(ps, st)
      /\ m \in Nat /\ Cuts(m, t, cut)
  <2>1. q.packet \in Seq(Nat)
    BY DEF Packet
  <2> QED
    BY <2>1, LenProperties, Divided DEF Streamed, Starts, Paged
<1>2. t \in Nat
  <2>1. n + 1 \in 1 .. n + 1
    BY <1>1
  <2> QED
    BY <1>1, <2>1, StartIs
<1>3. Total(qs, x) = t + w + 1
  BY <1>1, NextStartsAre
<1>4. ASSUME NEW i \in 1 .. m
      PROVE  OnPage(gs[i], i, qs, x, y, more, cut[i - 1], cut[i])
  <2>1. cut[i - 1] \in 0 .. t /\ cut[i] \in cut[i - 1] + 1 .. t
    <3>1. i - 1 \in 0 .. m /\ i \in 0 .. m /\ cut[i - 1] < cut[i]
          /\ cut[i - 1] \in 0 .. t /\ cut[i] \in 0 .. t
      <4> HIDE DEF t, m
      <4> QED
        BY <1>1, <1>2, CutIs
    <3> QED
      BY <1>2, <3>1
  <2>2. OnPage(gs[i], i, ps, st, off, bytes, cut[i - 1], cut[i])
    BY DEF Paged
  <2> QED
    BY <2>1, <2>2, PageStays
<1> HIDE DEF qs, x, y, more, t, w
<1>5. \A i \in 1 .. m : ~gs[i].eos
  BY DEF Paged
<1>6. Cuts(m, t + w + 1, cut)
  <2>1. \A i \in 0 .. t : i \in 0 .. t + w + 1
    BY <1>1, <1>2
  <2> QED
    BY <1>1, <2>1 DEF Cuts
<1>7. Paged(qs, gs, x, y, more, cut)
  BY <1>3, <1>4, <1>5, <1>6 DEF Paged
<1> QED
  BY <1>7 DEF qs, x, y, more, t

-----------------------------------------------------------------------------
(* The encoder holds the segments that are not on pages. *)

(* l are the segments behind the first c.                                  *)
Pending(l, ps, st, off, c) ==
  /\ Len(l) = Total(ps, st) - c
  /\ \A i \in 1 .. Len(l) :
       /\ l[i].len = off[c + i] - off[c + i - 1]
       /\ l[i].first <=> Boundary(off, c + i - 1)
       /\ \A k \in 1 .. Len(ps) : st[k + 1] = c + i => l[i].granule = ps[k].granulepos

EncoderHolds(e, ps, m, st, off, bytes, c) ==
  /\ Pending(e.lacing, ps, st, off, c)
  /\ e.body_returned <= Len(e.body)
  /\ Drop(e.body, e.body_returned) = Drop(bytes, off[c])
  /\ e.pageno = m /\ (e.b_o_s <=> m # 0) /\ e.serialno = Serial
  /\ e.e_o_s <=> Len(ps) # 0 /\ ps[Len(ps)].e_o_s

EncoderOk(e, ps, gs, st, off, bytes, cut) ==
  /\ e \in StreamState
  /\ e.allocated => EncoderHolds(e, ps, Len(gs), st, off, bytes, cut[Len(gs)])

(* One piece, put behind nothing.                                          *)
LEMMA OnePiece ==
  ASSUME NEW x
  PROVE  FlattenSeq(<<x>>) = x
<1> DEFINE IsFlat(h) == h = [i \in 1 .. Len(<<x>>) |->
                              IF i = 1 THEN <<x>>[i] ELSE h[i - 1] \o <<x>>[i]]
           f == CHOOSE h : IsFlat(h)
           g == [i \in 1 .. 1 |-> x]
<1>1. Len(<<x>>) = 1 /\ Len(<<x>>) # 0 /\ <<x>>[1] = x
  OBVIOUS
<1>2. IsFlat(g)
  <2>1. \A i \in 1 .. 1 : i = 1
    OBVIOUS
  <2> DEFINE e(i) == IF i = 1 THEN <<x>>[i] ELSE g[i - 1] \o <<x>>[i]
  <2>2. \A i \in 1 .. 1 : e(i) = x
    BY <1>1, <2>1
  <2> HIDE DEF e
  <2>3. g = [i \in 1 .. 1 |-> e(i)]
    BY <2>2
  <2> QED
    BY <1>1, <2>3 DEF e
<1>3. IsFlat(f)
  BY <1>2
<1>4. f[1] = x
  <2> DEFINE e(i) == IF i = 1 THEN <<x>>[i] ELSE f[i - 1] \o <<x>>[i]
  <2>1. f = [i \in 1 .. 1 |-> e(i)]
    BY <1>1, <1>3
  <2>2. e(1) = x
    BY <1>1
  <2> HIDE DEF f, e
  <2> QED
    BY <2>1, <2>2
<1>5. FlattenSeq(<<x>>) = f[1]
  BY <1>1 DEF FlattenSeq
<1> QED
  BY <1>4, <1>5

(* A packet more to hold.                                                  *)
LEMMA PendingNext ==
  ASSUME NEW ps, NEW st, NEW off, NEW bytes, Streamed(ps, st, off, bytes),
         NEW l \in Seq(SegmentType), NEW c \in 0 .. Total(ps, st),
         Pending(l, ps, st, off, c), NEW q \in Packet, NEW previous \in Int
  PROVE  LET len == Len(q.packet)
             all == l \o Lacing(len, q.granulepos, previous)
         IN /\ all \in Seq(SegmentType)
            /\ Pending(all, Append(ps, q), NextStarts(ps, st, len),
                       NextOffsets(Total(ps, st), off, len), c)
<1> DEFINE len == Len(q.packet)
           w == len \div Full
           r == len % Full
           n == Len(ps)
           t == Total(ps, st)
           qs == Append(ps, q)
           x == NextStarts(ps, st, len)
           y == NextOffsets(t, off, len)
           new == Lacing(len, q.granulepos, previous)
           all == l \o new
<1>1. /\ q.packet \in Seq(Nat) /\ len \in Nat /\ w \in Nat /\ n \in Nat
      /\ q.granulepos \in Int
      /\ Starts(ps, st) /\ Offsets(t, off, bytes) /\ Marks(ps, st, off)
  <2>1. q.packet \in Seq(Nat) /\ q.granulepos \in Int
    BY DEF Packet
  <2> QED
    BY <2>1, LenProperties, Divided DEF Streamed, Starts
<1>2. n + 1 \in 1 .. n + 1 /\ (\A k \in 1 .. n : k + 1 \in 1 .. n + 1)
      /\ \A k \in 1 .. n + 1 : k \in 1 .. n \/ k = n + 1
  BY <1>1
<1>3. t \in Nat /\ c \in Nat /\ c <= t /\ \A k \in 1 .. n : st[k + 1] \in 1 .. t
  <2>1. t \in Nat
    BY <1>1, <1>2, StartIs
  <2>2. \A k \in 1 .. n : k \in 1 .. n + 1 /\ k # n + 1
    BY <1>1
  <2>3. \A k \in 1 .. n : st[k + 1] \in 1 .. t
    BY <1>1, <2>2, StartIs
  <2> QED
    BY <2>1, <2>3
<1>4. /\ Total(qs, x) = t + w + 1
      /\ \A k \in 1 .. n : x[k + 1] = st[k + 1]
  BY <1>1, <1>2, NextStartsAre
<1>5. /\ Len(qs) = n + 1 /\ (\A k \in 1 .. n : qs[k] = ps[k]) /\ qs[n + 1] = q
  BY <1>1, AppendIs DEF Starts
<1>6. /\ \A g \in 0 .. t : y[g] = off[g]
      /\ \A i \in 1 .. w : y[t + i] - y[t + i - 1] = Full
      /\ y[t + w + 1] - y[t + w] = r
  <2>1. q.packet \in Seq(Nat) /\ t \in Nat /\ Offsets(t, off, bytes)
    BY <1>1, <1>3
  <2> QED
    BY <2>1, NextOffsetsAre
<1>7. x[(n + 1) + 1] = t + w + 1
  BY <1>4, <1>5 DEF Total
<1>8. /\ new \in Seq(SegmentType) /\ Len(new) = w + 1
      /\ \A i \in 1 .. w : new[i].len = Full
      /\ new[w + 1].len = r /\ new[w + 1].granule = q.granulepos
      /\ \A i \in 1 .. w + 1 : new[i].first <=> i = 1
  <2> DEFINE g == q.granulepos
  <2>1. len \in Nat /\ g \in Int
    BY <1>1
  <2> HIDE DEF len, g
  <2>2. LET f == Lacing(len, g, previous)
            v == len \div Full
        IN /\ f \in Seq(SegmentType) /\ Len(f) = v + 1 /\ v \in Nat
           /\ \A i \in 1 .. v : f[i].len = Full
           /\ f[v + 1].len = len % Full /\ f[v + 1].granule = g
           /\ \A i \in 1 .. v + 1 : f[i].first <=> i = 1
    BY <2>1, LacingIs
  <2> QED
    BY <2>2 DEF g
<1>9. Full \in Nat
  BY SizeAssumption
<1>10. Boundary(off, t)
  <2>1. t \in 0 .. t /\ \E k \in 1 .. n + 1 : t = st[k]
    BY <1>2, <1>3 DEF Total
  <2> QED
    BY <1>1, <2>1, BoundaryIs
<1> HIDE DEF x, y, qs, w, t, new, r, n
<1>11. /\ all \in Seq(SegmentType) /\ Len(all) = Len(l) + Len(new)
       /\ \A i \in 1 .. Len(l) : all[i] = l[i]
       /\ \A i \in 1 .. Len(new) : all[Len(l) + i] = new[i]
  <2>1. new \in Seq(SegmentType)
    BY <1>8
  <2> QED
    BY <2>1, Joined
<1>12. Len(l) = t - c /\ Len(all) = (t + w + 1) - c /\ c + Len(l) = t
  BY <1>1, <1>3, <1>8, <1>11 DEF Pending, t
<1> HIDE DEF all
<1>13. \A g \in 0 .. t : Boundary(y, g) <=> Boundary(off, g)
  <2>1. \A g \in 0 .. t : g # 0 => g - 1 \in 0 .. t
    BY <1>3
  <2> QED
    BY <1>6, <2>1 DEF Boundary
<1>14. ASSUME NEW i \in 1 .. Len(all)
       PROVE  /\ all[i].len = y[c + i] - y[c + i - 1]
              /\ all[i].first <=> Boundary(y, c + i - 1)
              /\ \A k \in 1 .. n + 1 : x[k + 1] = c + i => all[i].granule = qs[k].granulepos
  <2>1. CASE i <= Len(l)
    <3>1. i \in 1 .. Len(l) /\ c + i \in 0 .. t /\ c + i - 1 \in 0 .. t
      BY <1>1, <1>3, <1>12, <2>1
    <3>2. /\ l[i].len = off[c + i] - off[c + i - 1]
          /\ l[i].first <=> Boundary(off, c + i - 1)
          /\ \A k \in 1 .. n : st[k + 1] = c + i => l[i].granule = ps[k].granulepos
      BY <3>1 DEF Pending, n
    <3>3. c + i # x[(n + 1) + 1]
      BY <1>1, <1>3, <1>7, <3>1
    <3>4. \A k \in 1 .. n + 1 : x[k + 1] = c + i => all[i].granule = qs[k].granulepos
      BY <1>2, <1>4, <1>5, <1>11, <3>1, <3>2, <3>3
    <3> QED
      BY <1>6, <1>11, <1>13, <3>1, <3>2, <3>4
  <2>2. CASE ~(i <= Len(l))
    <3> DEFINE j == i - Len(l)
    <3>1. /\ j \in 1 .. w + 1 /\ i = Len(l) + j /\ c + i = t + j /\ c + i - 1 = t + j - 1
          /\ j \in 1 .. Len(new)
      <4>1. /\ w \in Nat /\ t \in Nat /\ c \in Nat /\ c <= t /\ Len(new) = w + 1
            /\ Len(l) = t - c /\ i \in 1 .. (t + w + 1) - c
        BY <1>1, <1>3, <1>8, <1>12
      <4> QED
        BY <2>2, <4>1
    <3> HIDE DEF j
    <3>2. all[i] = new[j]
      BY <1>11, <3>1
    <3>3. \A k \in 1 .. n : x[k + 1] # c + i
      <4>1. \A k \in 1 .. n : st[k + 1] <= t
        BY <1>3
      <4>2. ~(c + i <= t)
        BY <1>3, <3>1
      <4> QED
        BY <1>4, <4>1, <4>2
    <3>4. CASE j \in 1 .. w
      <4>1. j # w + 1 /\ t + j # t + w + 1
        BY <1>1, <1>3, <3>4
      <4>2. all[i].len = y[c + i] - y[c + i - 1]
        BY <1>6, <1>8, <3>1, <3>2, <3>4
      <4>3. all[i].first <=> Boundary(y, c + i - 1)
        <5>1. CASE j = 1
          <6>1. c + i - 1 = t /\ t \in 0 .. t
            BY <1>3, <3>1, <5>1
          <6> QED
            BY <1>8, <1>10, <1>13, <3>1, <3>2, <5>1, <6>1
        <5>2. CASE j # 1
          <6>1. j - 1 \in 1 .. w /\ t + (j - 1) = c + i - 1 /\ t + (j - 1) - 1 = (c + i - 1) - 1
                /\ c + i - 1 # 0
            BY <1>1, <1>3, <3>1, <3>4, <5>2
          <6>2. y[c + i - 1] - y[(c + i - 1) - 1] = Full
            BY <1>6, <6>1
          <6>3. ~Boundary(y, c + i - 1)
            BY <1>9, <6>1, <6>2 DEF Boundary
          <6> QED
            BY <1>8, <3>1, <3>2, <5>2, <6>3
        <5> QED
          BY <5>1, <5>2
      <4>4. \A k \in 1 .. n + 1 : x[k + 1] # c + i
        BY <1>2, <1>7, <3>1, <3>3, <4>1
      <4> QED
        BY <4>2, <4>3, <4>4
    <3>5. CASE j = w + 1
      <4>1. c + i = t + w + 1 /\ c + i - 1 = t + w
        BY <1>1, <1>3, <3>1, <3>5
      <4>2. all[i].len = y[c + i] - y[c + i - 1]
        BY <1>6, <1>8, <3>2, <3>5, <4>1
      <4>3. all[i].first <=> Boundary(y, c + i - 1)
        <5>1. CASE w = 0
          <6>1. c + i - 1 = t /\ t \in 0 .. t /\ j = 1
            BY <1>3, <3>5, <4>1, <5>1
          <6> QED
            BY <1>8, <1>10, <1>13, <3>1, <3>2, <6>1
        <5>2. CASE w # 0
          <6>1. w \in 1 .. w /\ t + w # 0 /\ j # 1
            BY <1>1, <1>3, <3>5, <5>2
          <6>2. y[t + w] - y[t + w - 1] = Full
            BY <1>6, <6>1
          <6>3. ~Boundary(y, t + w)
            <7> DEFINE d == y[t + w] - y[t + w - 1]
            <7>1. d = Full /\ ~(d < Full)
              BY <1>9, <6>2
            <7> QED
              BY <1>1, <1>3, <6>1, <7>1 DEF Boundary
          <6>4. ~Boundary(y, c + i - 1)
            BY <4>1, <6>3
          <6> QED
            BY <1>8, <3>1, <3>2, <6>1, <6>4
        <5> QED
          BY <5>1, <5>2
      <4>4. all[i].granule = q.granulepos
        BY <1>8, <3>2, <3>5
      <4>5. \A k \in 1 .. n + 1 : x[k + 1] = c + i => all[i].granule = qs[k].granulepos
        BY <1>2, <1>5, <3>3, <4>4
      <4> QED
        BY <4>2, <4>3, <4>5
    <3>6. j \in 1 .. w \/ j = w + 1
      BY <1>1, <3>1
    <3> QED
      BY <3>4, <3>5, <3>6
  <2> QED
    BY <2>1, <2>2
<1>15. Pending(all, qs, x, y, c)
  BY <1>4, <1>5, <1>12, <1>14 DEF Pending
<1> QED
  BY <1>11, <1>15 DEF all, qs, x, y, t, new

(* ogg_stream_packetin.                                                    *)
LEMMA PacketinIs ==
  ASSUME NEW ps, NEW st, NEW off, NEW bytes, Streamed(ps, st, off, bytes),
         NEW gs, NEW cut, Paged(ps, gs, st, off, bytes, cut),
         NEW e, EncoderOk(e, ps, gs, st, off, bytes, cut), e.allocated, ~e.e_o_s,
         NEW q \in Packet
  PROVE  LET len == Len(q.packet)
             r == Packetin(e, q, TRUE)
         IN /\ r.ret = 0 /\ r.os.allocated
            /\ EncoderOk(r.os, Append(ps, q), gs, NextStarts(ps, st, len),
                         NextOffsets(Total(ps, st), off, len), bytes \o q.packet, cut)
<1> DEFINE len == Len(q.packet)
           n == Len(ps)
           t == Total(ps, st)
           m == Len(gs)
           c == cut[m]
           qs == Append(ps, q)
           x == NextStarts(ps, st, len)
           y == NextOffsets(t, off, len)
           more == bytes \o q.packet
           r == Packetin(e, q, TRUE)
           b2 == Drop(e.body, e.body_returned) \o q.packet
           l2 == e.lacing \o Lacing(len, q.granulepos, e.granulepos)
           z == [e EXCEPT !.body = b2, !.body_returned = 0, !.lacing = l2,
                          !.granulepos = q.granulepos, !.packetno = @ + 1,
                          !.e_o_s = @ \/ q.e_o_s]
<1>1. /\ q.packet \in Seq(Nat) /\ len \in Nat /\ n \in Nat /\ m \in Nat
      /\ q.granulepos \in Int /\ q.e_o_s \in BOOLEAN
      /\ Starts(ps, st) /\ Offsets(t, off, bytes) /\ Cuts(m, t, cut)
  <2>1. q.packet \in Seq(Nat) /\ q.granulepos \in Int /\ q.e_o_s \in BOOLEAN
    BY DEF Packet
  <2> QED
    BY <2>1, LenProperties DEF Streamed, Starts, Paged
<1>2. t \in Nat
  <2>1. n + 1 \in 1 .. n + 1
    BY <1>1
  <2> QED
    BY <1>1, <2>1, StartIs
<1>3. c \in 0 .. t
  <2>1. m \in 0 .. m
    BY <1>1
  <2> QED
    BY <1>1, <1>2, <2>1, CutIs
<1>4. r.ret = 0 /\ r.os = z
  <2>1. FlattenSeq(<<q.packet>>) = q.packet
    BY OnePiece
  <2>2. StreamCheck(e)
    BY DEF StreamCheck
  <2>3. r = [ret |-> 0, os |-> z]
    BY <2>1, <2>2 DEF Packetin, Iovecin
  <2> HIDE DEF r, z
  <2> QED
    BY <2>3
<1>5. /\ e \in StreamState /\ EncoderHolds(e, ps, m, st, off, bytes, c)
      /\ e.body \in Seq(Nat) /\ e.body_returned \in Nat /\ e.lacing \in Seq(SegmentType)
      /\ e.granulepos \in Int /\ e.body_returned <= Len(e.body)
  BY DEF EncoderOk, EncoderHolds, StreamState
<1>6. /\ l2 \in Seq(SegmentType) /\ Pending(l2, qs, x, y, c)
  <2>1. Pending(e.lacing, ps, st, off, c)
    BY <1>5 DEF EncoderHolds
  <2> QED
    BY <1>1, <1>3, <1>5, <2>1, PendingNext
<1>7. bytes \in Seq(Nat) /\ off[c] \in 0 .. Len(bytes) /\ y[c] = off[c]
  <2>1. t \in 0 .. t /\ c <= t
    BY <1>2, <1>3
  <2>2. bytes \in Seq(Nat) /\ off[c] \in Nat /\ off[c] <= off[t] /\ Len(bytes) = off[t]
        /\ off[t] \in Nat
    BY <1>1, <1>3, <2>1 DEF Offsets
  <2>3. y[c] = off[c]
    BY <1>1, <1>2, <1>3, NextOffsetsAre
  <2> QED
    BY <2>2, <2>3
<1>8. b2 \in Seq(Nat) /\ b2 = Drop(more, off[c])
  <2>1. Drop(e.body, e.body_returned) \in Seq(Nat)
    <3>1. e.body_returned \in 0 .. Len(e.body)
      BY <1>5, LenProperties
    <3> QED
      BY <1>5, <3>1, DropIs
  <2> DEFINE d == Drop(e.body, e.body_returned)
  <2>2. d \in Seq(Nat) /\ d = Drop(bytes, off[c])
    BY <1>5, <2>1 DEF EncoderHolds
  <2> HIDE DEF d
  <2>3. d \o q.packet \in Seq(Nat)
    BY <1>1, <2>2, Joined
  <2>4. Drop(bytes, off[c]) \o q.packet = Drop(bytes \o q.packet, off[c])
    <3> DEFINE o == off[c]
    <3>1. o \in 0 .. Len(bytes)
      BY <1>7
    <3> HIDE DEF o
    <3>2. Drop(bytes, o) \o q.packet = Drop(bytes \o q.packet, o)
      BY <1>1, <1>7, <3>1, DropJoined
    <3> QED
      BY <3>2 DEF o
  <2> QED
    BY <2>2, <2>3, <2>4 DEF d
<1>9. Drop(b2, 0) = b2
  <2>1. 0 \in 0 .. Len(b2)
    BY <1>8, LenProperties
  <2>2. /\ Drop(b2, 0) \in Seq(Nat) /\ Len(Drop(b2, 0)) = Len(b2) - 0
        /\ \A i \in 1 .. Len(b2) - 0 : Drop(b2, 0)[i] = b2[0 + i]
    <3>1. b2 \in Seq(Nat)
      BY <1>8
    <3> HIDE DEF b2
    <3> QED
      BY <2>1, <3>1, DropIs
  <2> DEFINE d == Drop(b2, 0)
  <2> HIDE DEF d
  <2>3. Len(b2) \in Nat
    BY <1>8, LenProperties
  <2>4. Len(d) = Len(b2) /\ \A i \in 1 .. Len(d) : d[i] = b2[i]
    <3> HIDE DEF b2
    <3> QED
      BY <2>2, <2>3 DEF d
  <2>5. d \in Seq(Nat) /\ b2 \in Seq(Nat)
    BY <1>8, <2>2 DEF d
  <2> HIDE DEF b2
  <2>6. d = b2
    BY <2>4, <2>5, SeqEqual
  <2> QED
    BY <2>6 DEF d
<1> HIDE DEF b2, l2, r, x, y, qs, more, c, m, t
<1>10. /\ z \in StreamState
       /\ z.body = b2 /\ z.body_returned = 0 /\ z.lacing = l2
       /\ z.e_o_s = (e.e_o_s \/ q.e_o_s) /\ z.b_o_s = e.b_o_s
       /\ z.serialno = e.serialno /\ z.pageno = e.pageno /\ z.allocated = e.allocated
  <2> DEFINE B == Seq(Nat)
             L == Seq(SegmentType)
             eo == e.e_o_s \/ q.e_o_s
             kn == e.packetno + 1
  <2>1. /\ e \in [body : B, body_returned : Nat,
                  lacing : L, lacing_packet : Nat, lacing_returned : Nat,
                  e_o_s : BOOLEAN, b_o_s : BOOLEAN,
                  serialno : Int, pageno : Int, packetno : Int, granulepos : Int,
                  allocated : BOOLEAN]
        /\ b2 \in B /\ l2 \in L
    BY <1>5, <1>6, <1>8 DEF StreamState
  <2>2. /\ e.lacing_packet \in Nat /\ e.lacing_returned \in Nat /\ e.b_o_s \in BOOLEAN
        /\ e.pageno \in Int /\ kn \in Int /\ eo \in BOOLEAN
    BY <1>1, <2>1
  <2> HIDE DEF B, L
  <2>3. z = [e EXCEPT !.body = b2, !.body_returned = 0, !.lacing = l2,
                      !.lacing_packet = e.lacing_packet,
                      !.lacing_returned = e.lacing_returned,
                      !.e_o_s = eo, !.b_o_s = e.b_o_s, !.pageno = e.pageno,
                      !.packetno = kn, !.granulepos = q.granulepos]
    BY <2>1
  <2> HIDE DEF z, eo, kn
  <2>4. /\ z \in [body : B, body_returned : Nat,
                  lacing : L, lacing_packet : Nat, lacing_returned : Nat,
                  e_o_s : BOOLEAN, b_o_s : BOOLEAN,
                  serialno : Int, pageno : Int, packetno : Int, granulepos : Int,
                  allocated : BOOLEAN]
        /\ z.body = b2 /\ z.body_returned = 0 /\ z.lacing = l2
        /\ z.e_o_s = eo /\ z.b_o_s = e.b_o_s
        /\ z.serialno = e.serialno /\ z.pageno = e.pageno /\ z.allocated = e.allocated
    <3>1. /\ b2 \in B /\ 0 \in Nat /\ l2 \in L /\ e.lacing_packet \in Nat
          /\ e.lacing_returned \in Nat /\ eo \in BOOLEAN /\ e.b_o_s \in BOOLEAN
          /\ e.pageno \in Int /\ kn \in Int /\ q.granulepos \in Int
          /\ e \in [body : B, body_returned : Nat,
                    lacing : L, lacing_packet : Nat, lacing_returned : Nat,
                    e_o_s : BOOLEAN, b_o_s : BOOLEAN,
                    serialno : Int, pageno : Int, packetno : Int, granulepos : Int,
                    allocated : BOOLEAN]
      BY <1>1, <2>1, <2>2
    <3> QED
      BY ONLY <2>3, <3>1, StreamUpdated
  <2> QED
    BY <2>4 DEF B, L, eo, StreamState
<1>11. Len(qs) = n + 1 /\ qs[n + 1] = q
  BY <1>1, AppendIs DEF Starts, qs
<1> HIDE DEF z
<1>12. EncoderHolds(z, qs, m, x, y, more, c)
  <2>1. z.body_returned <= Len(z.body)
    BY <1>8, <1>10, LenProperties
  <2>2. Drop(z.body, z.body_returned) = Drop(more, y[c])
    BY <1>7, <1>8, <1>9, <1>10
  <2>3. /\ z.pageno = m /\ (z.b_o_s <=> m # 0) /\ z.serialno = Serial
        /\ (z.e_o_s <=> q.e_o_s)
    BY <1>5, <1>10 DEF EncoderHolds
  <2>4. Len(qs) # 0 /\ qs[Len(qs)] = q
    BY <1>1, <1>11
  <2> QED
    BY <1>6, <1>10, <2>1, <2>2, <2>3, <2>4 DEF EncoderHolds
<1>13. EncoderOk(z, qs, gs, x, y, more, cut)
  BY <1>10, <1>12 DEF EncoderOk, m, c
<1> QED
  BY <1>4, <1>5, <1>10, <1>13 DEF qs, x, y, more, t, r

(* Equal rests have equal parts.                                           *)
LEMMA SameRest ==
  ASSUME NEW S, NEW x \in Seq(S), NEW y \in Seq(S), NEW i \in 0 .. Len(x),
         NEW j \in 0 .. Len(y), Drop(x, i) = Drop(y, j), NEW k \in 0 .. Len(x) - i
  PROVE  /\ Len(x) - i = Len(y) - j
         /\ SubSeq(x, i + 1, i + k) = SubSeq(y, j + 1, j + k)
         /\ SubSeq(x, i + 1, i + k) \in Seq(S) /\ Len(SubSeq(x, i + 1, i + k)) = k
         /\ Drop(x, i + k) = Drop(y, j + k)
<1> DEFINE d == Drop(x, i)
           m == Len(x) - i
<1>0. Len(x) \in Nat /\ Len(y) \in Nat /\ i \in Nat /\ j \in Nat /\ m \in Nat
  BY LenProperties
<1>1. /\ d \in Seq(S) /\ Len(d) = m
      /\ \A a \in 1 .. m : d[a] = x[i + a]
  BY DropIs
<1>2. /\ Len(d) = Len(y) - j
      /\ \A a \in 1 .. Len(y) - j : d[a] = y[j + a]
  BY DropIs
<1> HIDE DEF d
<1>3. m = Len(y) - j
  BY <1>1, <1>2
<1>4. \A a \in 1 .. m : x[i + a] = y[j + a]
  BY <1>1, <1>2, <1>3
<1>5. SubSeq(x, i + 1, i + k) = SubSeq(y, j + 1, j + k)
      /\ SubSeq(x, i + 1, i + k) \in Seq(S) /\ Len(SubSeq(x, i + 1, i + k)) = k
  <2> DEFINE u == SubSeq(x, i + 1, i + k)
             v == SubSeq(y, j + 1, j + k)
  <2>1. /\ i + 1 \in 1 .. Len(x) + 1 /\ i + k \in (i + 1) - 1 .. Len(x)
        /\ j + 1 \in 1 .. Len(y) + 1 /\ j + k \in (j + 1) - 1 .. Len(y)
        /\ (i + k) - (i + 1) + 1 = k /\ (j + k) - (j + 1) + 1 = k
        /\ k \in Nat /\ k <= m
    BY <1>0, <1>3
  <2>2. /\ u \in Seq(S) /\ Len(u) = (i + k) - (i + 1) + 1
        /\ \A a \in 1 .. (i + k) - (i + 1) + 1 : u[a] = x[(i + 1) + a - 1]
    BY <2>1, Piece
  <2>3. /\ v \in Seq(S) /\ Len(v) = (j + k) - (j + 1) + 1
        /\ \A a \in 1 .. (j + k) - (j + 1) + 1 : v[a] = y[(j + 1) + a - 1]
    BY <2>1, Piece
  <2> HIDE DEF u, v
  <2>4. \A a \in 1 .. k : u[a] = v[a]
    <3>1. ASSUME NEW a \in 1 .. k PROVE u[a] = v[a]
      <4>1. (i + 1) + a - 1 = i + a /\ (j + 1) + a - 1 = j + a /\ a \in 1 .. m
        BY <1>0, <2>1
      <4> QED
        BY <1>4, <2>1, <2>2, <2>3, <4>1
    <3> QED
      BY <3>1
  <2>5. u = v
    BY <2>1, <2>2, <2>3, <2>4, SeqEqual
  <2> QED
    BY <2>1, <2>2, <2>5 DEF u, v
<1>6. Drop(x, i + k) = Drop(y, j + k)
  <2> DEFINE u == Drop(x, i + k)
             v == Drop(y, j + k)
  <2>1. /\ i + k \in 0 .. Len(x) /\ j + k \in 0 .. Len(y)
        /\ Len(x) - (i + k) = m - k /\ Len(y) - (j + k) = m - k /\ k \in Nat /\ k <= m
    BY <1>0, <1>3
  <2>2. /\ u \in Seq(S) /\ Len(u) = Len(x) - (i + k)
        /\ \A a \in 1 .. Len(x) - (i + k) : u[a] = x[(i + k) + a]
    BY <2>1, DropIs
  <2>3. /\ v \in Seq(S) /\ Len(v) = Len(y) - (j + k)
        /\ \A a \in 1 .. Len(y) - (j + k) : v[a] = y[(j + k) + a]
    BY <2>1, DropIs
  <2> HIDE DEF u, v
  <2>4. \A a \in 1 .. m - k : u[a] = v[a]
    <3>1. ASSUME NEW a \in 1 .. m - k PROVE u[a] = v[a]
      <4>1. (i + k) + a = i + (k + a) /\ (j + k) + a = j + (k + a) /\ k + a \in 1 .. m
        BY <1>0, <2>1
      <4> QED
        BY <1>4, <2>1, <2>2, <2>3, <4>1
    <3> QED
      BY <3>1
  <2>5. u = v
    BY <2>1, <2>2, <2>3, <2>4, SeqEqual
  <2> QED
    BY <2>5 DEF u, v
<1> QED
  BY <1>3, <1>5, <1>6

(* How many segments a page takes.                                         *)
MaxVals(l) == IF Len(l) > MaxSegments THEN MaxSegments ELSE Len(l)

Vals(os, nfill) ==
  IF ~os.b_o_s THEN HeaderPageSegments(os.lacing, MaxVals(os.lacing))
  ELSE IF NominalStops(os.lacing, MaxVals(os.lacing), nfill) # {}
       THEN Min(NominalStops(os.lacing, MaxVals(os.lacing), nfill))
       ELSE MaxVals(os.lacing)

(* How many lacing values a flush takes: at least one, at most a page's *)
(* worth, and short of that worth only where a packet ends              *)
(* (ogg_stream_flush_i).                                                *)
LEMMA ValsIs ==
  ASSUME NEW os, os.lacing \in Seq(SegmentType), Len(os.lacing) # 0, NEW nfill,
         os.lacing[Len(os.lacing)].len < Full
  PROVE  LET v == Vals(os, nfill)
             l == os.lacing
         IN /\ v \in 1 .. Len(l) /\ v <= MaxSegments
            /\ l[v].len = Full => v = MaxSegments
            /\ ~os.b_o_s => \A i \in 1 .. v - 1 : ~(l[i].len < Full)
<1> DEFINE l == os.lacing
           n == Len(l)
           x == MaxVals(l)
           v == Vals(os, nfill)
           stops == NominalStops(l, x, nfill)
<1>1. n \in Nat /\ n >= 1 /\ MaxSegments \in Nat /\ MaxSegments >= 1 /\ Full \in Nat
  BY LenProperties, SizeAssumption
<1>2. x \in 1 .. n /\ x <= MaxSegments /\ (x = MaxSegments \/ x = n)
  BY <1>1 DEF MaxVals
<1>3. l[n].len < Full
  OBVIOUS
<1>4. l[x].len = Full => x = MaxSegments
  <2>1. CASE x = n
    <3>1. l[n] \in SegmentType
      BY <1>1, ElementOfSeq
    <3>2. l[n].len # Full
      BY <1>1, <1>3, <3>1 DEF SegmentType
    <3> QED
      BY <2>1, <3>2
  <2> QED
    BY <1>2, <2>1
<1>5. \A i \in 1 .. n : l[i].len \in Nat
  <2>1. \A i \in 1 .. n : l[i] \in SegmentType
    BY ElementOfSeq
  <2> QED
    BY <2>1 DEF SegmentType
<1> HIDE DEF l, n, x
<1>6. CASE ~os.b_o_s
  <2>1. v = HeaderPageSegments(l, x)
    BY <1>6 DEF Vals, l, x
  <2> HIDE DEF v
  <2> DEFINE E == Ends(l, x)
  <2>2. E = {i \in 1 .. x : l[i].len < Full}
    BY DEF Ends
  <2> HIDE DEF E
  <2>3. CASE E = {}
    <3>1. v = x
      BY <2>1, <2>3 DEF HeaderPageSegments, E
    <3>2. \A i \in 1 .. x - 1 : i \in 1 .. x
      BY <1>2
    <3> QED
      BY <1>2, <1>4, <2>2, <2>3, <3>1, <3>2 DEF v, l, n
  <2>4. CASE E # {}
    <3>1. v = Min(E)
      BY <2>1, <2>4 DEF HeaderPageSegments, E
    <3>2. E \subseteq Nat
      BY <2>2
    <3>3. Min(E) \in E /\ \A i \in E : Min(E) <= i
      BY <2>4, <3>2, MinIn
    <3>4. v \in 1 .. x /\ l[v].len < Full
      BY <2>2, <3>1, <3>3
    <3>5. v \in 1 .. n /\ v <= MaxSegments
      BY <1>1, <1>2, <3>4
    <3>6. l[v].len # Full
      BY <1>1, <1>5, <3>4, <3>5
    <3>7. ASSUME NEW i \in 1 .. v - 1 PROVE ~(l[i].len < Full)
      <4>1. i \in 1 .. x /\ ~(v <= i)
        BY <1>2, <3>4
      <4> QED
        BY <2>2, <3>1, <3>3, <4>1
    <3> QED
      BY <3>5, <3>6, <3>7 DEF v, l, n
  <2> QED
    BY <2>3, <2>4
<1>7. CASE os.b_o_s /\ stops # {}
  <2>1. v = Min(stops)
    BY <1>7 DEF Vals, l, x
  <2>2. stops \subseteq {i \in 1 .. x - 1 : l[i].len < Full}
    BY DEF NominalStops, Ends
  <2> HIDE DEF stops, v
  <2>3. stops \subseteq Nat
    BY <2>2
  <2>4. Min(stops) \in stops
    BY <1>7, <2>3, MinIn
  <2>5. v \in 1 .. x - 1 /\ l[v].len < Full
    BY <2>1, <2>2, <2>4
  <2>6. v \in 1 .. n /\ v <= MaxSegments
    BY <1>1, <1>2, <2>5
  <2>7. l[v].len # Full
    BY <1>1, <1>5, <2>5, <2>6
  <2> QED
    BY <1>7, <2>6, <2>7 DEF v, l, n
<1>8. CASE os.b_o_s /\ stops = {}
  <2>1. v = x
    BY <1>8 DEF Vals, l, x
  <2> QED
    BY <1>2, <1>4, <1>8, <2>1 DEF l, n
<1> QED
  BY <1>6, <1>7, <1>8

\* k entries behind the first i.
Slice(s, i, k) == SubSeq(s, i + 1, i + k)
Ahead(i, k) == i + k
Left(s, i) == Len(s) - i
(* Sequences that go on alike after i and j entries do so k entries long.   *)
LEMMA SameSlice ==
  ASSUME NEW S, NEW x \in Seq(S), NEW y \in Seq(S), NEW i \in 0 .. Len(x),
         NEW j \in 0 .. Len(y), Drop(x, i) = Drop(y, j), NEW k \in 0 .. Len(x) - i
  PROVE  /\ Slice(x, i, k) = Slice(y, j, k)
         /\ Slice(x, i, k) \in Seq(S) /\ Len(Slice(x, i, k)) = k
         /\ Drop(x, Ahead(i, k)) = Drop(y, Ahead(j, k))
<1>1. /\ SubSeq(x, i + 1, i + k) = SubSeq(y, j + 1, j + k)
         /\ SubSeq(x, i + 1, i + k) \in Seq(S) /\ Len(SubSeq(x, i + 1, i + k)) = k
         /\ Drop(x, i + k) = Drop(y, j + k)
  BY SameRest
<1> QED
  BY <1>1 DEF Slice, Ahead

(* And as many entries are left.                                           *)
LEMMA SameLen ==
  ASSUME NEW S, NEW x \in Seq(S), NEW y \in Seq(S), NEW i \in 0 .. Len(x),
         NEW j \in 0 .. Len(y), Drop(x, i) = Drop(y, j)
  PROVE  Left(x, i) = Left(y, j)
<1>1. 0 \in 0 .. Len(x) - i
  BY LenProperties
<1>2. Len(x) - i = Len(y) - j
  BY <1>1, SameRest
<1> QED
  BY <1>2 DEF Left


(* The segments waiting end with the end of a packet.                      *)
LEMMA LastIsEnd ==
  ASSUME NEW ps, NEW st, NEW off, NEW bytes, Streamed(ps, st, off, bytes),
         NEW l, NEW c \in 0 .. Total(ps, st), Pending(l, ps, st, off, c), Len(l) # 0
  PROVE  l[Len(l)].len < Full
<1> DEFINE t == Total(ps, st)
<1>1. Len(ps) \in Nat /\ t \in Nat /\ Starts(ps, st)
  <2>1. Len(ps) \in Nat /\ Starts(ps, st)
    BY LenProperties DEF Streamed, Starts
  <2>2. Len(ps) + 1 \in 1 .. Len(ps) + 1
    BY <2>1
  <2> QED
    BY <2>1, <2>2, StartIs
<1>2. Len(l) = t - c /\ c \in Nat /\ c <= t /\ Len(l) \in 1 .. Len(l) /\ c + Len(l) = t
      /\ t \in 1 .. t
  BY <1>1 DEF Pending
<1>3. l[Len(l)].len = off[t] - off[t - 1]
  BY <1>2 DEF Pending
<1>4. \E k \in 1 .. Len(ps) : t = st[k + 1]
  <2>1. Len(ps) # 0
    <3>1. st[1] = 0
      BY <1>1 DEF Starts
    <3>2. ASSUME Len(ps) = 0 PROVE FALSE
      BY <1>2, <3>1, <3>2 DEF Total
    <3> QED
      BY <3>2
  <2>2. Len(ps) \in 1 .. Len(ps)
    BY <1>1, <2>1
  <2> QED
    BY <2>2 DEF Total
<1>5. off[t] - off[t - 1] < Full
  BY <1>2, <1>4 DEF Streamed, Marks
<1> QED
  BY <1>3, <1>5

(* The page that a flush makes.                                            *)
LEMMA PageBuilt ==
  ASSUME NEW ps, NEW st, NEW off, NEW bytes, Streamed(ps, st, off, bytes),
         NEW e \in StreamState, NEW m \in Nat, NEW c \in 0 .. Total(ps, st),
         c = 0 <=> m = 0,
         EncoderHolds(e, ps, m, st, off, bytes, c), Len(e.lacing) # 0, NEW nfill
  PROVE  LET v == Vals(e, nfill)
             p == BuildPage(e, v, m)
         IN /\ v \in 1 .. Len(e.lacing) /\ c + v \in c + 1 .. Total(ps, st)
            /\ p \in Page /\ OnPage(p, m + 1, ps, st, off, bytes, c, c + v)
            /\ p.lens[Len(p.lens)] = Full => Len(p.lens) = MaxSegments
            /\ p.eos => c + v = Total(ps, st) /\ Len(ps) # 0 /\ ps[Len(ps)].e_o_s
            /\ off[c] \in Nat /\ off[c + v] \in Nat
            /\ off[c + v] - off[c] \in 0 .. Len(e.body) - e.body_returned
            /\ Len(p.body) = off[c + v] - off[c]
            /\ off[c] \in 0 .. Len(bytes)
            /\ e.body_returned \in 0 .. Len(e.body)
<1> DEFINE l == e.lacing
           v == Vals(e, nfill)
           p == BuildPage(e, v, m)
           t == Total(ps, st)
           n == Len(l)
           br == e.body_returned
           o == off[c]
           nb == off[c + v] - off[c]
           lens == [i \in 1 .. v |-> l[i].len]
<1>1. /\ e.lacing \in Seq(SegmentType) /\ e.body \in Seq(Nat) /\ br \in Nat
      /\ e.e_o_s \in BOOLEAN /\ e.b_o_s \in BOOLEAN
  BY DEF StreamState
<1>2. /\ Starts(ps, st) /\ Offsets(t, off, bytes) /\ Marks(ps, st, off)
      /\ Pending(l, ps, st, off, c)
  BY DEF Streamed, EncoderHolds
<1>3. t \in Nat /\ Len(ps) \in Nat
  <2>1. Len(ps) \in Nat
    BY <1>2, LenProperties DEF Starts
  <2>2. Len(ps) + 1 \in 1 .. Len(ps) + 1
    BY <2>1
  <2> QED
    BY <1>2, <2>1, <2>2, StartIs
<1>4. /\ v \in 1 .. n /\ v <= MaxSegments
      /\ l[v].len = Full => v = MaxSegments
      /\ ~e.b_o_s => \A i \in 1 .. v - 1 : ~(l[i].len < Full)
  <2>1. l[n].len < Full
    BY <1>2, LastIsEnd
  <2> QED
    BY <1>1, <2>1, ValsIs
<1> HIDE DEF v
<1>5. /\ n = t - c /\ c \in Nat /\ c <= t /\ c + v \in c + 1 .. t /\ c + v \in 0 .. t
      /\ c \in 0 .. t /\ v \in Nat
  BY <1>2, <1>3, <1>4 DEF Pending
<1>n. n \in Nat /\ n = Len(l)
  BY <1>1, LenProperties
<1>6. \A i \in 1 .. v : /\ i \in 1 .. n /\ l[i].len = off[c + i] - off[c + i - 1]
                        /\ l[i] \in SegmentType
  <2>1. \A i \in 1 .. v : i \in 1 .. n
    BY <1>4, <1>5
  <2>2. \A i \in 1 .. n : l[i] \in SegmentType
    BY <1>1, ElementOfSeq
  <2> QED
    BY <1>2, <2>1, <2>2 DEF Pending
<1>7. \A g \in 0 .. t : off[g] \in Nat
  BY <1>2 DEF Offsets
<1>8. Filled(l, v)[v] = nb
  <2> DEFINE g == [i \in 0 .. v |-> off[c + i]]
  <2>1. \A i \in 0 .. v : g[i] \in Nat
    <3>1. \A i \in 0 .. v : c + i \in 0 .. t
      BY <1>3, <1>5
    <3> QED
      BY <1>7, <3>1
  <2>2. \A i \in 1 .. v : l[i].len = g[i] - g[i - 1]
    <3>1. \A i \in 1 .. v : /\ i \in 0 .. v /\ i - 1 \in 0 .. v
                            /\ c + (i - 1) = c + i - 1
      BY <1>5
    <3> QED
      BY <1>6, <3>1
  <2>3. g[v] = off[c + v] /\ g[0] = off[c]
    <3>1. v \in 0 .. v /\ 0 \in 0 .. v /\ c + 0 = c
      BY <1>5
    <3> QED
      BY <3>1
  <2> HIDE DEF g
  <2>4. v \in 0 .. v
    BY <1>5
  <2>5. Filled(l, v)[v] = g[v] - g[0]
    <3>1. v \in Nat
      BY <1>5
    <3> QED
      BY ONLY <2>1, <2>2, <2>4, <3>1, FilledGap
  <2> QED
    BY <2>3, <2>5, Zenon
<1>9. /\ bytes \in Seq(Nat) /\ Len(bytes) = off[t] /\ o \in Nat /\ o <= off[t]
      /\ off[t] \in Nat /\ nb \in Nat /\ o + nb = off[c + v] /\ o + nb <= off[t]
      /\ off[c + v] \in Nat
  <2>1. t \in 0 .. t /\ c <= c + v /\ c + v <= t
    BY <1>3, <1>5
  <2>2. /\ bytes \in Seq(Nat) /\ Len(bytes) = off[t]
        /\ off[c] \in Nat /\ off[c + v] \in Nat /\ off[t] \in Nat
        /\ off[c] <= off[c + v] /\ off[c + v] <= off[t] /\ off[c] <= off[t]
    BY <1>2, <1>5, <2>1 DEF Offsets
  <2> QED
    BY <2>2
<1>10. o \in 0 .. Len(bytes) /\ br \in 0 .. Len(e.body) /\ br <= Len(e.body)
       /\ Drop(e.body, br) = Drop(bytes, o)
  <2>1. br <= Len(e.body) /\ Drop(e.body, br) = Drop(bytes, o)
    BY DEF EncoderHolds
  <2> QED
    BY <1>1, <1>9, <2>1, LenProperties
<1> HIDE DEF o, nb
<1> HIDE DEF br, n, l, t
<1>11. Len(e.body) - br = Len(bytes) - o /\ nb \in 0 .. Len(e.body) - br
  <2>1. 0 \in 0 .. Len(e.body) - br
    BY <1>1, <1>10, LenProperties
  <2>2. /\ e.body \in Seq(Nat) /\ bytes \in Seq(Nat) /\ br \in 0 .. Len(e.body)
        /\ o \in 0 .. Len(bytes) /\ Drop(e.body, br) = Drop(bytes, o)
        /\ 0 \in 0 .. Len(e.body) - br
        /\ br \in Int /\ o \in Int /\ Len(e.body) \in Int /\ Len(bytes) \in Int
    BY <1>1, <1>9, <1>10, <2>1, LenProperties
  <2>3. Left(e.body, br) = Left(bytes, o)
    BY ONLY <2>2, SameLen
  <2>4. Len(e.body) - br = Len(bytes) - o
    BY <2>3 DEF Left
  <2> QED
    BY <1>9, <1>10, <2>4
<1>12. /\ SubSeq(e.body, br + 1, br + nb) = SubSeq(bytes, o + 1, o + nb)
       /\ SubSeq(e.body, br + 1, br + nb) \in Seq(Nat)
       /\ Len(SubSeq(e.body, br + 1, br + nb)) = nb
  <2>1. /\ e.body \in Seq(Nat) /\ bytes \in Seq(Nat) /\ br \in 0 .. Len(e.body)
        /\ o \in 0 .. Len(bytes) /\ Drop(e.body, br) = Drop(bytes, o)
        /\ nb \in 0 .. Len(e.body) - br
    BY <1>1, <1>9, <1>10, <1>11
  <2> QED
    <3>1. /\ Slice(e.body, br, nb) = Slice(bytes, o, nb)
          /\ Slice(e.body, br, nb) \in Seq(Nat) /\ Len(Slice(e.body, br, nb)) = nb
      BY ONLY <2>1, SameSlice
    <3> QED
      BY <3>1 DEF Slice
<1>13. lens \in Seq(Nat) /\ Len(lens) = v /\ \A i \in 1 .. v : lens[i] = l[i].len
  <2>1. \A i \in 1 .. v : l[i].len \in Nat
    BY <1>6 DEF SegmentType
  <2>2. lens \in [1 .. v -> Nat]
    BY <2>1
  <2>3. \A i \in 1 .. v : lens[i] = l[i].len
    OBVIOUS
  <2> HIDE DEF lens
  <2> QED
    BY <1>5, <2>2, <2>3, FunSeq
<1>14. /\ p.continued = ~l[1].first /\ p.bos = ~e.b_o_s
       /\ p.eos = (e.e_o_s /\ n = v)
       /\ p.granulepos = PageGranule(e, v) /\ p.serialno = e.serialno
       /\ p.pageno = m /\ p.lens = lens
       /\ p.body = SubSeq(e.body, br + 1, br + nb)
       /\ p = [continued |-> p.continued, bos |-> p.bos, eos |-> p.eos,
               granulepos |-> p.granulepos, serialno |-> p.serialno,
               pageno |-> p.pageno, lens |-> p.lens, body |-> p.body]
  BY <1>8 DEF BuildPage, l, n, br
<1> HIDE DEF p, lens
<1> DEFINE E == Ends(l, v)
<1>15. E = {i \in 1 .. v : l[i].len < Full}
  BY DEF Ends, l
<1> HIDE DEF E
<1>16. PageGranule(e, v) \in Int
  <2>1. CASE ~e.b_o_s
    BY <2>1 DEF PageGranule
  <2>2. CASE e.b_o_s /\ E = {}
    BY <2>2 DEF PageGranule, E, l
  <2>3. CASE e.b_o_s /\ E # {}
    <3>1. E \subseteq 0 .. v
      BY <1>15
    <3>2. Max(E) \in E
      BY <1>5, <2>3, <3>1, MaxIn
    <3>3. l[Max(E)].granule \in Int
      BY <1>6, <1>15, <3>2 DEF SegmentType
    <3> QED
      BY <2>3, <3>3 DEF PageGranule, E, l
  <2> QED
    BY <1>1, <2>1, <2>2, <2>3
<1>17. p \in Page
  <2>1. /\ p.continued \in BOOLEAN /\ p.bos \in BOOLEAN /\ p.eos \in BOOLEAN
        /\ p.granulepos \in Int /\ p.serialno \in Int /\ p.pageno \in Int
        /\ p.lens \in Seq(Nat) /\ p.body \in Seq(Nat)
    <3>1. 1 \in 1 .. v /\ e.serialno \in Int
      BY <1>4, <1>5 DEF StreamState
    <3>2. l[1].first \in BOOLEAN
      BY <1>6, <3>1 DEF SegmentType
    <3> QED
      BY <1>1, <1>12, <1>13, <1>14, <1>16, <3>1, <3>2
  <2> QED
    BY <1>14, <2>1 DEF Page
<1>18. Len(p.lens) = v /\ \A s \in 1 .. v : p.lens[s] = off[c + s] - off[c + s - 1]
  BY <1>6, <1>13, <1>14
<1>19. p.continued <=> ~Boundary(off, c)
  <2>1. 1 \in 1 .. n /\ c + 1 - 1 = c
    BY <1>n, <1>4, <1>5
  <2>2. l[1].first <=> Boundary(off, c)
    BY <1>2, <2>1 DEF Pending, n
  <2> QED
    BY <1>14, <2>2
<1>20. p.bos <=> m + 1 = 1
  <2>1. e.b_o_s <=> m # 0
    BY DEF EncoderHolds
  <2>2. m + 1 = 1 <=> m = 0
    OBVIOUS
  <2>3. p.bos <=> ~e.b_o_s
    BY <1>14, Zenon
  <2> QED
    BY <2>1, <2>2, <2>3, Zenon
<1>21. ASSUME NEW k \in 1 .. Len(ps), st[k + 1] \in c + 1 .. c + v,
              \A g \in st[k + 1] + 1 .. c + v : ~Boundary(off, g)
       PROVE  p.granulepos = ps[k].granulepos \/ (k = 1 /\ p.granulepos = 0)
  <2> DEFINE s == st[k + 1] - c
  <2>1. s \in 1 .. v /\ c + s = st[k + 1] /\ c + s - 1 = st[k + 1] - 1
    <3> DEFINE g == st[k + 1]
    <3>1. c \in Nat /\ v \in Nat /\ g \in c + 1 .. c + v
      BY <1>5, <1>21
    <3> HIDE DEF g
    <3>2. g - c \in 1 .. v /\ c + (g - c) = g /\ c + (g - c) - 1 = g - 1
      BY <3>1
    <3> QED
      BY <3>2 DEF g
  <2> HIDE DEF s
  <2>2. st[k + 1] \in 1 .. t
    BY <1>3, <1>5, <1>21
  <2>3. off[st[k + 1]] - off[st[k + 1] - 1] < Full
    BY <1>2, <2>2 DEF Marks, t
  <2>4. s \in E
    BY <1>6, <1>15, <2>1, <2>3
  <2>5. CASE ~e.b_o_s
    <3>1. m = 0 /\ c = 0
      BY <2>5 DEF EncoderHolds
    <3>2. s = v
      <4>1. ~(s \in 1 .. v - 1)
        BY <1>4, <1>15, <2>4, <2>5
      <4> QED
        BY <1>5, <2>1, <4>1
    <3>3. k = 1
      <4> SUFFICES ASSUME k # 1 PROVE FALSE
        OBVIOUS
      <4>1. /\ 2 \in 1 .. Len(ps) + 1 /\ k + 1 \in 1 .. Len(ps) + 1 /\ 2 < k + 1
            /\ 1 \in 1 .. Len(ps) /\ 1 + 1 = 2 /\ 1 \in 1 .. Len(ps) + 1 /\ 1 < 2
        BY <1>3
      <4>2. st[1] < st[2] /\ st[2] < st[k + 1] /\ st[1] = 0 /\ st[2] \in Nat
        BY <1>2, <4>1 DEF Starts
      <4>3. st[2] \in 1 .. v - 1 /\ st[2] \in 1 .. v /\ st[2] \in 1 .. t
        <5>1. st[2] \in Nat /\ 0 < st[2] /\ st[2] < st[k + 1] /\ st[k + 1] = v
          BY <1>5, <2>1, <3>1, <3>2, <4>2
        <5>2. v \in Nat /\ t \in Nat /\ v <= t
          BY <1>3, <1>5, <3>1
        <5> QED
          BY <5>1, <5>2
      <4>4. off[st[2]] - off[st[2] - 1] < Full
        BY <1>2, <4>1, <4>3 DEF Marks, t
      <4>5. c + st[2] = st[2]
        BY <3>1, <4>3
      <4>6. l[st[2]].len < Full
        BY <1>6, <4>3, <4>4, <4>5
      <4> QED
        BY <1>4, <2>5, <4>3, <4>6
    <3> QED
      BY <1>14, <2>5, <3>3 DEF PageGranule
  <2>6. CASE e.b_o_s
    <3>1. ASSUME NEW i \in E PROVE i <= s
      <4> SUFFICES ASSUME ~(i <= s) PROVE FALSE
        OBVIOUS
      <4>1. i \in 1 .. v /\ c + i \in st[k + 1] + 1 .. c + v /\ c + i # 0
        BY <1>5, <1>15, <2>1
      <4>2. ~Boundary(off, c + i)
        BY <1>21, <4>1
      <4>3. l[i].len < Full /\ l[i].len = off[c + i] - off[c + i - 1]
        BY <1>6, <1>15, <4>1
      <4> QED
        BY <4>1, <4>2, <4>3 DEF Boundary
    <3>2. E \subseteq 0 .. v
      BY <1>15
    <3>3. Max(E) = s
      BY <1>5, <2>4, <3>1, <3>2, MaxIs
    <3>4. PageGranule(e, v) = l[s].granule
      BY <2>4, <2>6, <3>3 DEF PageGranule, E, l
    <3>5. s \in 1 .. n
      BY <1>6, <2>1
    <3>6. l[s].granule = ps[k].granulepos
      BY <1>2, <2>1, <3>5 DEF Pending, n
    <3> QED
      BY <1>14, <3>4, <3>6
  <2> QED
    BY <1>1, <2>5, <2>6
<1>22. OnPage(p, m + 1, ps, st, off, bytes, c, c + v)
  <2>1. (c + v) - c = v /\ (m + 1) - 1 = m
    BY <1>5
  <2>2. p.body = SubSeq(bytes, off[c] + 1, off[c + v])
    BY <1>9, <1>12, <1>14 DEF o
  <2>3. p.serialno = Serial /\ p.pageno = m
    BY <1>14 DEF EncoderHolds
  <2> QED
    BY <1>18, <1>19, <1>20, <1>21, <2>1, <2>2, <2>3 DEF OnPage
<1>23. p.lens[Len(p.lens)] = Full => Len(p.lens) = MaxSegments
  <2>1. v \in 1 .. v
    BY <1>4, <1>5
  <2>2. p.lens[v] = l[v].len
    BY <1>13, <1>14, <2>1
  <2> QED
    BY <1>4, <1>18, <2>2
<1>24. p.eos => c + v = t /\ Len(ps) # 0 /\ ps[Len(ps)].e_o_s
  <2>1. e.e_o_s <=> Len(ps) # 0 /\ ps[Len(ps)].e_o_s
    BY DEF EncoderHolds
  <2>2. n = v => c + v = t
    BY <1>3, <1>5
  <2>3. p.eos => e.e_o_s /\ n = v
    BY <1>14, Zenon
  <2> QED
    BY <2>1, <2>2, <2>3, Zenon
<1>25. Len(p.body) = nb
  BY <1>12, <1>14
<1> QED
  BY <1>4, <1>5, <1>9, <1>10, <1>11, <1>17, <1>22, <1>23, <1>24, <1>25
     DEF p, v, l, t, n, br, o, nb

(* What waits after the first v segments are gone.                         *)
LEMMA PendingDrop ==
  ASSUME NEW ps, NEW st, NEW off, Starts(ps, st), NEW l \in Seq(SegmentType),
         NEW c \in 0 .. Total(ps, st), Pending(l, ps, st, off, c),
         NEW v \in 1 .. Len(l)
  PROVE  Drop(l, v) \in Seq(SegmentType) /\ Pending(Drop(l, v), ps, st, off, c + v)
<1> DEFINE d == Drop(l, v)
           t == Total(ps, st)
           n == Len(l)
<1>1. n \in Nat /\ c \in Nat /\ v \in Nat /\ v \in 0 .. n /\ v <= n
  BY LenProperties
<1>2. t \in Nat
  <2>1. Len(ps) \in Nat
    BY LenProperties DEF Starts
  <2>2. Len(ps) + 1 \in 1 .. Len(ps) + 1
    BY <2>1
  <2> QED
    BY <2>2, StartIs
<1>3. n = t - c
  BY DEF Pending
<1>4. d \in Seq(SegmentType) /\ Len(d) = n - v /\ \A i \in 1 .. n - v : d[i] = l[v + i]
  BY <1>1, DropIs
<1> HIDE DEF d, n, t
<1>5. ASSUME NEW i \in 1 .. n - v
      PROVE  /\ d[i].len = off[c + v + i] - off[c + v + i - 1]
             /\ d[i].first <=> Boundary(off, c + v + i - 1)
             /\ \A k \in 1 .. Len(ps) : st[k + 1] = c + v + i
                                         => d[i].granule = ps[k].granulepos
  <2> DEFINE j == v + i
  <2>1. j \in 1 .. n /\ c + j = c + v + i /\ c + j - 1 = c + v + i - 1
    BY <1>1
  <2>2. d[i] = l[j]
    BY <1>4
  <2> HIDE DEF j
  <2>3. /\ l[j].len = off[c + j] - off[c + j - 1]
        /\ l[j].first <=> Boundary(off, c + j - 1)
        /\ \A k \in 1 .. Len(ps) : st[k + 1] = c + j => l[j].granule = ps[k].granulepos
    BY <2>1 DEF Pending, n
  <2> QED
    BY <2>1, <2>2, <2>3
<1>6. n - v = t - (c + v)
  BY <1>1, <1>2, <1>3
<1>7. Pending(d, ps, st, off, c + v)
  BY <1>4, <1>5, <1>6 DEF Pending, t
<1> QED
  BY <1>4, <1>7 DEF d

NextCut(m, cut, v) == [i \in 0 .. m + 1 |-> IF i = m + 1 THEN cut[m] + v ELSE cut[i]]

(* One more page.                                                          *)
LEMMA NextCutIs ==
  ASSUME NEW m \in Nat, NEW t \in Nat, NEW cut, Cuts(m, t, cut), NEW v,
         cut[m] + v \in cut[m] + 1 .. t
  PROVE  LET d == NextCut(m, cut, v)
         IN /\ Cuts(m + 1, t, d) /\ d[m + 1] = cut[m] + v
            /\ \A i \in 0 .. m : d[i] = cut[i]
<1> DEFINE d == NextCut(m, cut, v)
           g == cut[m] + v
<1>1. /\ m + 1 \in 0 .. m + 1 /\ ~(m + 1 \in 0 .. m) /\ m \in 0 .. m
      /\ 0 \in 0 .. m /\ 0 # m + 1
      /\ \A i \in 0 .. m + 1 : i \in 0 .. m \/ i = m + 1
      /\ \A i \in 0 .. m : i \in 0 .. m + 1 /\ i # m + 1
  OBVIOUS
<1>2. /\ \A i \in 0 .. m : cut[i] \in 0 .. t /\ cut[i] <= cut[m]
      /\ cut[0] = 0
  <2>1. \A i \in 0 .. m : i <= m
    OBVIOUS
  <2> QED
    BY <1>1, <2>1, CutIs DEF Cuts
<1>3. g \in 0 .. t /\ cut[m] < g /\ \A i \in 0 .. m : cut[i] < g
  <2>1. cut[m] \in 0 .. t /\ g \in cut[m] + 1 .. t
    BY <1>1, <1>2
  <2> HIDE DEF g
  <2> QED
    BY <1>2, <2>1
<1> HIDE DEF g
<1>4. d[m + 1] = g /\ \A i \in 0 .. m : d[i] = cut[i]
  BY <1>1 DEF NextCut, g
<1>5. d \in [0 .. m + 1 -> 0 .. t]
  <2>1. d = [i \in 0 .. m + 1 |-> d[i]]
    BY DEF NextCut
  <2>2. \A i \in 0 .. m + 1 : d[i] \in 0 .. t
    BY <1>1, <1>2, <1>3, <1>4
  <2> HIDE DEF d
  <2> QED
    BY <2>1, <2>2
<1> HIDE DEF d
<1>6. ASSUME NEW i \in 0 .. m + 1, NEW j \in 0 .. m + 1, i < j PROVE d[i] < d[j]
  <2>1. i \in 0 .. m
    BY <1>6
  <2>2. CASE j \in 0 .. m
    BY <1>4, <1>6, <2>1, <2>2 DEF Cuts
  <2>3. CASE j = m + 1
    BY <1>3, <1>4, <2>1, <2>3
  <2> QED
    BY <1>1, <2>2, <2>3
<1>7. Cuts(m + 1, t, d) /\ d[m + 1] = g
  BY <1>1, <1>2, <1>4, <1>5, <1>6 DEF Cuts
<1> QED
  BY <1>4, <1>7 DEF d, g

(* A flush that makes a page: it carries the next segments, and only a full
   page ends with a segment that says "the packet goes on".               *)
LEMMA FlushIs ==
  ASSUME NEW ps, NEW st, NEW off, NEW bytes, Streamed(ps, st, off, bytes),
         NEW gs, NEW cut, Paged(ps, gs, st, off, bytes, cut),
         NEW e, EncoderOk(e, ps, gs, st, off, bytes, cut),
         NEW force, NEW nfill, FlushI(e, force, nfill).ret = 1
  PROVE  LET r == FlushI(e, force, nfill)
             d == NextCut(Len(gs), cut, Vals(e, nfill))
         IN /\ Paged(ps, Append(gs, r.page), st, off, bytes, d)
            /\ EncoderOk(r.os, ps, Append(gs, r.page), st, off, bytes, d)
            /\ r.page \in Page
            /\ r.page.lens[Len(r.page.lens)] = Full => Len(r.page.lens) = MaxSegments
<1> DEFINE r == FlushI(e, force, nfill)
           t == Total(ps, st)
           m == Len(gs)
           c == cut[m]
           v == Vals(e, nfill)
           d == NextCut(m, cut, v)
           p == BuildPage(e, v, m)
           hs == Append(gs, p)
           l2 == Drop(e.lacing, v)
           br == e.body_returned + Len(p.body)
           z == [e EXCEPT !.lacing = l2, !.body_returned = br, !.b_o_s = TRUE,
                          !.pageno = m + 1]
<1>1. m \in Nat /\ gs \in Seq(Page) /\ Starts(ps, st) /\ Cuts(m, t, cut)
      /\ Offsets(t, off, bytes) /\ Len(ps) \in Nat
  BY LenProperties DEF Paged, Streamed, Starts
<1>2. t \in Nat
  <2>1. Len(ps) + 1 \in 1 .. Len(ps) + 1
    BY <1>1
  <2> QED
    BY <1>1, <2>1, StartIs
<1>3. e.allocated /\ Len(e.lacing) # 0
  <2>1. e \in StreamState
    BY DEF EncoderOk
  <2>2. e.lacing \in Seq(SegmentType)
    BY <2>1 DEF StreamState
  <2>3. ~(FlushI(e, force, nfill) = [ret |-> 0, os |-> e])
    <3> SUFFICES ASSUME FlushI(e, force, nfill) = [ret |-> 0, os |-> e] PROVE FALSE
      OBVIOUS
    <3> QED
      OBVIOUS
  <2>4. e.allocated
    BY <2>3 DEF FlushI, StreamCheck
  <2>5. MaxVals(e.lacing) # 0
    BY <2>3 DEF FlushI, MaxVals
  <2> QED
    BY <2>4, <2>5, SizeAssumption DEF MaxVals
<1>4. EncoderHolds(e, ps, m, st, off, bytes, c) /\ e \in StreamState /\ e.pageno = m
      /\ e.lacing \in Seq(SegmentType) /\ e.body \in Seq(Nat) /\ e.body_returned \in Nat
  BY <1>3 DEF EncoderOk, EncoderHolds, StreamState
<1>5. r.page = p /\ r.os = z
  <2>1. e.pageno # -1
    BY <1>1, <1>4
  <2>2. r = [ret |-> 1, page |-> p, os |-> z]
    <3>1. ~(FlushI(e, force, nfill) = [ret |-> 0, os |-> e])
      <4> SUFFICES ASSUME FlushI(e, force, nfill) = [ret |-> 0, os |-> e] PROVE FALSE
        OBVIOUS
      <4> QED
        OBVIOUS
    <3> QED
      BY <1>4, <2>1, <3>1 DEF FlushI, Vals, MaxVals
  <2> HIDE DEF r, z, p
  <2> QED
    BY <2>2
<1>6. m \in 0 .. m /\ c \in 0 .. t /\ (c = 0 <=> m = 0)
  <2>1. m \in 0 .. m /\ 0 \in 0 .. m /\ m - 1 \in Int
    BY <1>1
  <2>2. cut[0] = 0 /\ c \in 0 .. t /\ (cut[m] = cut[0] => m = 0)
    BY <1>1, <1>2, <2>1, CutIs DEF Cuts
  <2> QED
    BY <2>1, <2>2
<1> HIDE DEF t, c
<1>7. /\ v \in 1 .. Len(e.lacing) /\ c + v \in c + 1 .. t
      /\ p \in Page /\ OnPage(p, m + 1, ps, st, off, bytes, c, c + v)
      /\ p.lens[Len(p.lens)] = Full => Len(p.lens) = MaxSegments
      /\ p.eos => c + v = t /\ Len(ps) # 0 /\ ps[Len(ps)].e_o_s
      /\ off[c] \in Nat /\ off[c + v] \in Nat
      /\ off[c + v] - off[c] \in 0 .. Len(e.body) - e.body_returned
      /\ Len(p.body) = off[c + v] - off[c]
      /\ off[c] \in 0 .. Len(bytes)
      /\ e.body_returned \in 0 .. Len(e.body)
  <2>1. /\ Streamed(ps, st, off, bytes) /\ e \in StreamState /\ m \in Nat
        /\ c \in 0 .. Total(ps, st) /\ (c = 0 <=> m = 0)
        /\ EncoderHolds(e, ps, m, st, off, bytes, c) /\ Len(e.lacing) # 0
    BY <1>1, <1>3, <1>4, <1>6 DEF t
  <2> HIDE DEF m
  <2> QED
    BY ONLY <2>1, PageBuilt DEF v, p, t
<1> HIDE DEF v, p
<1>8. Cuts(m + 1, t, d) /\ d[m + 1] = c + v /\ \A i \in 0 .. m : d[i] = cut[i]
  BY <1>1, <1>2, <1>7, NextCutIs DEF c
<1> HIDE DEF d
<1>9. /\ hs \in Seq(Page) /\ Len(hs) = m + 1 /\ hs[m + 1] = p
      /\ \A i \in 1 .. m : hs[i] = gs[i]
  BY <1>1, <1>7, AppendIs
<1> HIDE DEF hs
<1>10. \A i \in 1 .. m : /\ i \in 0 .. m /\ i - 1 \in 0 .. m
                         /\ OnPage(gs[i], i, ps, st, off, bytes, cut[i - 1], cut[i])
  BY <1>1 DEF Paged
<1>11. \A i \in 1 .. m : ~gs[i].eos
  <2> SUFFICES ASSUME NEW i \in 1 .. m, gs[i].eos PROVE FALSE
    OBVIOUS
  <2>1. i = m /\ cut[i] = t
    BY DEF Paged, t
  <2>2. c = t
    BY <2>1 DEF c
  <2> QED
    BY <1>2, <1>6, <1>7, <2>2
<1>12. \A i \in 1 .. m + 1 : i \in 1 .. m \/ (i = m + 1 /\ i - 1 = m)
  BY <1>1
<1>13. Paged(ps, hs, st, off, bytes, d)
  <2>1. \A i \in 1 .. m + 1 : OnPage(hs[i], i, ps, st, off, bytes, d[i - 1], d[i])
    <3> SUFFICES ASSUME NEW i \in 1 .. m + 1
                 PROVE  OnPage(hs[i], i, ps, st, off, bytes, d[i - 1], d[i])
      OBVIOUS
    <3>1. CASE i \in 1 .. m
      BY <1>8, <1>9, <1>10, <3>1
    <3>2. CASE i = m + 1 /\ i - 1 = m
      <4>1. d[i - 1] = c /\ d[i] = c + v
        BY <1>6, <1>8, <3>2 DEF c
      <4> QED
        BY <1>7, <1>9, <3>2, <4>1
    <3> QED
      BY <1>12, <3>1, <3>2
  <2>2. \A i \in 1 .. m + 1 : hs[i].eos => /\ i = m + 1 /\ d[i] = t
                                           /\ Len(ps) # 0 /\ ps[Len(ps)].e_o_s
    BY <1>7, <1>8, <1>9, <1>11, <1>12
  <2> QED
    BY <1>8, <1>9, <2>1, <2>2 DEF Paged, t
<1>14. l2 \in Seq(SegmentType) /\ Pending(l2, ps, st, off, c + v)
  <2>1. Pending(e.lacing, ps, st, off, c)
    BY <1>4 DEF EncoderHolds
  <2> QED
    BY <1>1, <1>4, <1>6, <1>7, <2>1, PendingDrop DEF t
<1>15. br \in Nat /\ br <= Len(e.body) /\ Drop(e.body, br) = Drop(bytes, off[c + v])
  <2> DEFINE b0 == e.body_returned
             o == off[c]
             k == off[c + v] - off[c]
  <2>1. /\ e.body \in Seq(Nat) /\ bytes \in Seq(Nat) /\ b0 \in 0 .. Len(e.body)
        /\ o \in 0 .. Len(bytes) /\ Drop(e.body, b0) = Drop(bytes, o)
        /\ k \in 0 .. Len(e.body) - b0
    BY <1>1, <1>4, <1>7 DEF Offsets, EncoderHolds
  <2>2. o + k = off[c + v] /\ b0 + k = br /\ b0 + k \in Nat /\ b0 + k <= Len(e.body)
    <3>1. o + k = off[c + v] /\ b0 + k = br
      BY <1>7
    <3> HIDE DEF b0, k
    <3>2. Len(e.body) \in Nat
      BY <1>4, LenProperties
    <3> QED
      BY <2>1, <3>1, <3>2
  <2> HIDE DEF b0, o, k
  <2>3. Drop(e.body, Ahead(b0, k)) = Drop(bytes, Ahead(o, k))
    BY ONLY <2>1, SameSlice
  <2> QED
    BY <2>2, <2>3 DEF Ahead
<1> HIDE DEF l2, br, r
<1>16. /\ z \in StreamState
       /\ z.body = e.body /\ z.body_returned = br /\ z.lacing = l2
       /\ z.e_o_s = e.e_o_s /\ z.b_o_s = TRUE
       /\ z.serialno = e.serialno /\ z.pageno = m + 1 /\ z.allocated = e.allocated
  <2> DEFINE B == Seq(Nat)
             L == Seq(SegmentType)
  <2>1. /\ e \in [body : B, body_returned : Nat,
                  lacing : L, lacing_packet : Nat, lacing_returned : Nat,
                  e_o_s : BOOLEAN, b_o_s : BOOLEAN,
                  serialno : Int, pageno : Int, packetno : Int, granulepos : Int,
                  allocated : BOOLEAN]
        /\ e.body \in B /\ l2 \in L
    BY <1>4, <1>14 DEF StreamState
  <2>2. /\ e.lacing_packet \in Nat /\ e.lacing_returned \in Nat /\ e.e_o_s \in BOOLEAN
        /\ m + 1 \in Int /\ e.packetno \in Int /\ e.granulepos \in Int
    BY <1>1, <2>1
  <2> HIDE DEF B, L, m
  <2>3. z = [e EXCEPT !.body = e.body, !.body_returned = br, !.lacing = l2,
                      !.lacing_packet = e.lacing_packet,
                      !.lacing_returned = e.lacing_returned,
                      !.e_o_s = e.e_o_s, !.b_o_s = TRUE, !.pageno = m + 1,
                      !.packetno = e.packetno, !.granulepos = e.granulepos]
    BY <2>1
  <2> DEFINE pn == m + 1
  <2> HIDE DEF z, pn
  <2>4. /\ z \in [body : B, body_returned : Nat,
                  lacing : L, lacing_packet : Nat, lacing_returned : Nat,
                  e_o_s : BOOLEAN, b_o_s : BOOLEAN,
                  serialno : Int, pageno : Int, packetno : Int, granulepos : Int,
                  allocated : BOOLEAN]
        /\ z.body = e.body /\ z.body_returned = br /\ z.lacing = l2
        /\ z.e_o_s = e.e_o_s /\ z.b_o_s = TRUE
        /\ z.serialno = e.serialno /\ z.pageno = pn /\ z.allocated = e.allocated
    <3>1. /\ e.body \in B /\ br \in Nat /\ l2 \in L /\ e.lacing_packet \in Nat
          /\ e.lacing_returned \in Nat /\ e.e_o_s \in BOOLEAN /\ TRUE \in BOOLEAN
          /\ pn \in Int /\ e.packetno \in Int /\ e.granulepos \in Int
          /\ e \in [body : B, body_returned : Nat,
                    lacing : L, lacing_packet : Nat, lacing_returned : Nat,
                    e_o_s : BOOLEAN, b_o_s : BOOLEAN,
                    serialno : Int, pageno : Int, packetno : Int, granulepos : Int,
                    allocated : BOOLEAN]
      BY <1>15, <2>1, <2>2 DEF pn
    <3>2. z = [e EXCEPT !.body = e.body, !.body_returned = br, !.lacing = l2,
                        !.lacing_packet = e.lacing_packet,
                        !.lacing_returned = e.lacing_returned,
                        !.e_o_s = e.e_o_s, !.b_o_s = TRUE, !.pageno = pn,
                        !.packetno = e.packetno, !.granulepos = e.granulepos]
      BY <2>3 DEF pn
    <3> QED
      BY ONLY <3>1, <3>2, StreamUpdated
  <2> QED
    BY <2>4 DEF B, L, StreamState, pn
<1> HIDE DEF z
<1>17. EncoderHolds(z, ps, m + 1, st, off, bytes, d[m + 1])
  <2>1. /\ z.pageno = m + 1 /\ (z.b_o_s <=> m + 1 # 0) /\ z.serialno = Serial
        /\ (z.e_o_s <=> Len(ps) # 0 /\ ps[Len(ps)].e_o_s)
    <3>1. m + 1 # 0
      BY <1>1
    <3>2. e.serialno = Serial /\ (e.e_o_s <=> Len(ps) # 0 /\ ps[Len(ps)].e_o_s)
      BY <1>4 DEF EncoderHolds
    <3> QED
      BY <1>16, <3>1, <3>2
  <2> QED
    BY <1>8, <1>14, <1>15, <1>16, <2>1 DEF EncoderHolds
<1>18. EncoderOk(z, ps, hs, st, off, bytes, d)
  BY <1>9, <1>16, <1>17 DEF EncoderOk
<1> QED
  BY <1>5, <1>7, <1>13, <1>18 DEF hs, d, v, r

(* What the writing side keeps: packets are laid out in segments, bytes and
   pages, and the encoder holds what is on no page yet.                    *)
Written(e, ps, gs, st, off, bytes, cut) ==
  /\ Streamed(ps, st, off, bytes)
  /\ Paged(ps, gs, st, off, bytes, cut)
  /\ EncoderOk(e, ps, gs, st, off, bytes, cut)

(* A stream that has just been set up.                                     *)
LEMMA FreshStream ==
  ASSUME NEW s \in Int
  PROVE  /\ StreamInit(s) \in StreamState /\ Zeroed \in StreamState
         /\ ~Zeroed.allocated /\ StreamInit(s).allocated
         /\ StreamInit(s).body = <<>> /\ StreamInit(s).body_returned = 0
         /\ StreamInit(s).lacing = <<>> /\ StreamInit(s).lacing_packet = 0
         /\ StreamInit(s).lacing_returned = 0
         /\ ~StreamInit(s).e_o_s /\ ~StreamInit(s).b_o_s
         /\ StreamInit(s).serialno = s /\ StreamInit(s).pageno = 0
<1>1. <<>> \in Seq(Nat) /\ <<>> \in Seq(SegmentType)
  BY EmptySeq
<1> DEFINE B == Seq(Nat)
           L == Seq(SegmentType)
           w == Zeroed
           z == [w EXCEPT !.serialno = s, !.allocated = TRUE]
<1>2. /\ w \in [body : B, body_returned : Nat,
               lacing : L, lacing_packet : Nat, lacing_returned : Nat,
               e_o_s : BOOLEAN, b_o_s : BOOLEAN,
               serialno : Int, pageno : Int, packetno : Int, granulepos : Int,
               allocated : BOOLEAN]
      /\ w.body = <<>> /\ w.body_returned = 0
      /\ w.lacing = <<>> /\ w.lacing_packet = 0 /\ w.lacing_returned = 0
      /\ ~w.e_o_s /\ ~w.b_o_s /\ w.pageno = 0 /\ ~w.allocated
  BY <1>1 DEF Zeroed
<1>3. StreamInit(s) = z
  BY DEF StreamInit
<1> HIDE DEF B, L, w
<1>4. /\ z \in [body : B, body_returned : Nat,
               lacing : L, lacing_packet : Nat, lacing_returned : Nat,
               e_o_s : BOOLEAN, b_o_s : BOOLEAN,
               serialno : Int, pageno : Int, packetno : Int, granulepos : Int,
               allocated : BOOLEAN]
      /\ z.body = <<>> /\ z.body_returned = 0
      /\ z.lacing = <<>> /\ z.lacing_packet = 0 /\ z.lacing_returned = 0
      /\ ~z.e_o_s /\ ~z.b_o_s /\ z.pageno = 0 /\ z.serialno = s /\ z.allocated
  BY <1>2
<1> HIDE DEF z
<1> QED
  BY <1>2, <1>3, <1>4 DEF B, L, w, StreamState

(* The writer before its first packet, with the empty layout. *)
LEMMA WrittenAtFirst ==
  ASSUME Init
  PROVE  Written(enc, packets, pages,
                 [k \in 1 .. 1 |-> 0], [g \in 0 .. 0 |-> 0], <<>>, [i \in 0 .. 0 |-> 0])
<1> DEFINE st == [k \in 1 .. 1 |-> 0]
           off == [g \in 0 .. 0 |-> 0]
           cut == [i \in 0 .. 0 |-> 0]
<1>1. /\ packets = <<>> /\ pages = <<>> /\ enc = StreamInit(Serial) /\ Len(<<>>) = 0
      /\ <<>> \in Seq(Packet) /\ <<>> \in Seq(Page) /\ <<>> \in Seq(Nat)
  BY EmptySeq DEF Init
<1>2. /\ Total(<<>>, st) = 0 /\ st[1] = 0 /\ off[0] = 0 /\ cut[0] = 0
      /\ st \in [1 .. 1 -> Nat] /\ off \in [0 .. 0 -> Nat] /\ cut \in [0 .. 0 -> 0 .. 0]
  BY <1>1 DEF Total
<1> HIDE DEF st, off, cut
<1>3. Streamed(<<>>, st, off, <<>>)
  <2>1. Starts(<<>>, st)
    BY <1>1, <1>2 DEF Starts
  <2>2. Offsets(0, off, <<>>)
    BY <1>1, <1>2 DEF Offsets
  <2>3. Marks(<<>>, st, off) /\ Contents(<<>>, st, off, <<>>) /\ Distinct(<<>>)
    BY <1>1, <1>2 DEF Marks, Contents, Distinct
  <2> QED
    BY <1>2, <2>1, <2>2, <2>3 DEF Streamed
<1>4. Paged(<<>>, <<>>, st, off, <<>>, cut)
  BY <1>1, <1>2 DEF Paged, Cuts
<1>5. EncoderOk(enc, <<>>, <<>>, st, off, <<>>, cut)
  <2>1. Serial \in Int
    BY DEF Serial
  <2> DEFINE e == StreamInit(Serial)
  <2>2. /\ e \in StreamState /\ e.body = <<>> /\ e.body_returned = 0
        /\ e.lacing = <<>> /\ ~e.e_o_s /\ ~e.b_o_s /\ e.serialno = Serial /\ e.pageno = 0
    BY <2>1, FreshStream
  <2> HIDE DEF e
  <2>3. EncoderHolds(e, <<>>, 0, st, off, <<>>, 0)
    BY <1>1, <1>2, <2>2 DEF EncoderHolds, Pending
  <2> QED
    BY <1>1, <1>2, <2>2, <2>3 DEF EncoderOk, e
<1> QED
  BY <1>1, <1>3, <1>4, <1>5 DEF Written, st, off, cut

(* The bytes of a packet, and the packet.                                  *)
LEMMA SubmittedIs ==
  ASSUME NEW k \in Nat, NEW len \in Lengths, NEW e_o_s \in BOOLEAN
  PROVE  [packet |-> Bytes(k, len), e_o_s |-> e_o_s, granulepos |-> GranuleOf(k)] \in Packet
<1>1. len \in Nat
  BY ChannelAssumption
<1>2. Bytes(k, len) \in [1 .. len -> Nat]
  <2>1. \A j \in 1 .. len : 100 * k + j \in Nat /\ Capture \in Nat
    BY CaptureAssumption
  <2> QED
    BY <2>1 DEF Bytes
<1>3. Bytes(k, len) \in Seq(Nat)
  BY <1>1, <1>2, FunSeq
<1>4. GranuleOf(k) \in Int
  BY DEF GranuleOf
<1> QED
  BY <1>3, <1>4 DEF Packet

(* A packet goes in, or the memory for it is missing.                      *)
LEMMA SubmitWrites ==
  ASSUME NEW st, NEW off, NEW bytes, NEW cut, Written(enc, packets, pages, st, off, bytes, cut),
         NEW len \in Lengths, NEW e_o_s \in BOOLEAN, NEW expandable \in BOOLEAN,
         Submit(len, e_o_s, expandable)
  PROVE  \/ packets' = packets /\ Written(enc', packets', pages', st, off, bytes, cut)
         \/ \E q \in Packet :
              LET n == Len(q.packet)
              IN /\ packets' = Append(packets, q)
                 /\ \A k \in 1 .. Len(packets) : packets[k].packet # q.packet
                 /\ Len(packets) # 0 => ~packets[Len(packets)].e_o_s
                 /\ Written(enc', packets', pages', NextStarts(packets, st, n),
                            NextOffsets(Total(packets, st), off, n),
                            bytes \o q.packet, cut)
<1> DEFINE k == Len(packets) + 1
           q == [packet |-> Bytes(k, len), e_o_s |-> e_o_s, granulepos |-> GranuleOf(k)]
<1>1. packets \in Seq(Packet) /\ k \in Nat
  BY LenProperties DEF Written, Streamed, Starts
<1>2. q \in Packet
  BY <1>1, SubmittedIs
<1> HIDE DEF k, q
<1>3. /\ enc.allocated /\ ~enc.e_o_s /\ pages' = pages
      /\ enc' = Packetin(enc, q, expandable).os
      /\ packets' = IF Packetin(enc, q, expandable).ret = 0 THEN Append(packets, q)
                    ELSE packets
      /\ \A i \in DOMAIN packets : packets[i].packet # q.packet
  BY DEF Submit, StreamEos, StreamCheck, q, k
<1>4. CASE ~expandable
  <2>1. Packetin(enc, q, expandable) = [ret |-> -1, os |-> Zeroed]
    BY <1>3, <1>4 DEF Packetin, Iovecin, StreamCheck, StreamClear
  <2>2. enc' = Zeroed /\ packets' = packets
    BY <1>3, <2>1
  <2>3. Zeroed \in StreamState /\ ~Zeroed.allocated
    BY FreshStream DEF Serial
  <2>4. EncoderOk(Zeroed, packets, pages, st, off, bytes, cut)
    BY <2>3 DEF EncoderOk
  <2> QED
    BY <1>3, <2>2, <2>4 DEF Written
<1>5. CASE expandable
  <2> DEFINE n == Len(q.packet)
             x == NextStarts(packets, st, n)
             y == NextOffsets(Total(packets, st), off, n)
             r == Packetin(enc, q, TRUE)
  <2>1. r.ret = 0 /\ EncoderOk(r.os, Append(packets, q), pages, x, y, bytes \o q.packet, cut)
    BY <1>2, <1>3, PacketinIs DEF Written
  <2>2. \A i \in 1 .. Len(packets) : packets[i].packet # q.packet
    <3>1. DOMAIN packets = 1 .. Len(packets)
      BY <1>1, LenProperties
    <3> QED
      BY <1>3, <3>1
  <2>3. Len(packets) # 0 => ~packets[Len(packets)].e_o_s
    BY <1>3 DEF Written, EncoderOk, EncoderHolds
  <2>4. Streamed(Append(packets, q), x, y, bytes \o q.packet)
    BY <1>2, <2>2, <2>3, NextStreamed DEF Written
  <2>5. Paged(Append(packets, q), pages, x, y, bytes \o q.packet, cut)
    BY <1>2, <2>2, <2>3, PagedStays DEF Written
  <2>6. expandable = TRUE
    BY <1>5
  <2>7. enc' = r.os /\ packets' = Append(packets, q)
    BY <1>3, <2>1, <2>6
  <2> HIDE DEF x, y, r
  <2>8. Written(enc', packets', pages', x, y, bytes \o q.packet, cut)
    BY <1>3, <2>1, <2>4, <2>5, <2>7 DEF Written
  <2> QED
    BY <1>2, <2>2, <2>3, <2>7, <2>8 DEF x, y
<1> QED
  BY <1>4, <1>5

(* A page is made.                                                         *)
LEMMA SendWrites ==
  ASSUME NEW st, NEW off, NEW bytes, NEW cut, Written(enc, packets, pages, st, off, bytes, cut),
         NEW force, NEW nfill,
         FlushI(enc, force, nfill).ret = 1,
         enc' = FlushI(enc, force, nfill).os,
         pages' = Append(pages, FlushI(enc, force, nfill).page),
         packets' = packets
  PROVE  /\ FlushI(enc, force, nfill).page \in Page
         /\ Written(enc', packets', pages', st, off, bytes,
                    NextCut(Len(pages), cut, Vals(enc, nfill)))
         /\ LET lens == FlushI(enc, force, nfill).page.lens
            IN lens[Len(lens)] = Full => Len(lens) = MaxSegments
<1> DEFINE d == NextCut(Len(pages), cut, Vals(enc, nfill))
           r == FlushI(enc, force, nfill)
<1>1. /\ Paged(packets, Append(pages, r.page), st, off, bytes, d)
      /\ EncoderOk(r.os, packets, Append(pages, r.page), st, off, bytes, d)
      /\ r.page \in Page
      /\ r.page.lens[Len(r.page.lens)] = Full => Len(r.page.lens) = MaxSegments
  BY FlushIs DEF Written
<1> HIDE DEF d, r
<1>2. Written(enc', packets', pages', st, off, bytes, d)
  BY <1>1 DEF Written, r
<1> QED
  BY <1>1, <1>2 DEF d, r

-----------------------------------------------------------------------------
(* The wire. *)

(* The checksum of a page of the stream.                                   *)
Own(x) == x[1] = "checksum" /\ x[2].serialno = Serial

(* Pages carry their number.                                               *)
Numbered(gs) ==
  /\ gs \in Seq(Page)
  /\ \A i \in 1 .. Len(gs) : gs[i].serialno = Serial /\ gs[i].pageno = i - 1

(* Behind the first k tokens of s, checksums of the stream belong to pages
   after the first n, and stand in the order of the pages.                 *)
Coming(gs, n, s, k) ==
  /\ s \in Seq(Token)
  /\ \A i \in k + 1 .. Len(s) : Own(s[i]) => \E j \in n + 1 .. Len(gs) : s[i] = Checksum(gs[j])
  /\ \A i, j \in k + 1 .. Len(s) :
       i < j /\ Own(s[i]) /\ Own(s[j]) => s[i][2].pageno < s[j][2].pageno

(* The pages of a layout carry their own place as pageno. *)
LEMMA PagedNumbered ==
  ASSUME NEW ps, NEW gs, NEW st, NEW off, NEW bytes, NEW cut,
         Paged(ps, gs, st, off, bytes, cut)
  PROVE  Numbered(gs)
  BY DEF Paged, Numbered, OnPage

(* u behind h is part of s behind k, d places away.                         *)
Moved(s, k, u, h, d) ==
  \A i \in h + 1 .. Len(u) : i + d \in k + 1 .. Len(s) /\ u[i] = s[i + d]

(* Part of what was coming is coming.                                      *)
LEMMA ComingPart ==
  ASSUME NEW gs, NEW n, NEW s, NEW k \in Nat, Coming(gs, n, s, k),
         NEW u \in Seq(Token), NEW h \in Nat, NEW d \in Int,
         Moved(s, k, u, h, d)
  PROVE  Coming(gs, n, u, h)
<1>1. \A i \in h + 1 .. Len(u) : Own(u[i]) => \E j \in n + 1 .. Len(gs) : u[i] = Checksum(gs[j])
  BY DEF Coming, Moved
<1>2. ASSUME NEW i \in h + 1 .. Len(u), NEW j \in h + 1 .. Len(u),
             i < j, Own(u[i]), Own(u[j])
      PROVE  u[i][2].pageno < u[j][2].pageno
  <2> DEFINE a == i + d
             b == j + d
  <2>1. a \in k + 1 .. Len(s) /\ u[i] = s[a] /\ b \in k + 1 .. Len(s) /\ u[j] = s[b]
    BY DEF Moved
  <2>2. a < b
    BY <1>2
  <2> HIDE DEF a, b
  <2> QED
    BY <1>2, <2>1, <2>2 DEF Coming
<1> QED
  BY <1>1, <1>2 DEF Coming

(* p is a page that was to come, and later ones are.                        *)
Found(gs, n, s, h, p) ==
  \E j \in n + 1 .. Len(gs) : p = gs[j] /\ Coming(gs, j, s, h)

(* Once page number j - 1 was found, later pages are coming.               *)
LEMMA ComingAfter ==
  ASSUME NEW gs, Numbered(gs), NEW n \in 0 .. Len(gs), NEW s, NEW k \in Nat,
         Coming(gs, n, s, k), NEW i \in k + 1 .. Len(s), NEW p, s[i] = Checksum(p),
         p.serialno = Serial, NEW h \in Nat, i <= h
  PROVE  Found(gs, n, s, h, p)
<1>1. s[i][1] = "checksum" /\ s[i][2] = p
  BY DEF Checksum
<1>2. Own(s[i])
  BY <1>1 DEF Own
<1>3. PICK j \in n + 1 .. Len(gs) : s[i] = Checksum(gs[j])
  BY <1>2 DEF Coming
<1>4. Len(gs) \in Nat /\ n \in Nat /\ j \in 1 .. Len(gs) /\ s \in Seq(Token) /\ Len(s) \in Nat
  BY LenProperties DEF Numbered, Coming
<1>5. p = gs[j] /\ p.pageno = j - 1
  BY <1>1, <1>3, <1>4 DEF Checksum, Numbered
<1>6. \A a \in h + 1 .. Len(s) : a \in k + 1 .. Len(s) /\ i < a
  BY <1>4
<1>7. ASSUME NEW a \in h + 1 .. Len(s), Own(s[a])
      PROVE  \E b \in j + 1 .. Len(gs) : s[a] = Checksum(gs[b])
  <2>1. s[i][2].pageno < s[a][2].pageno
    BY <1>2, <1>6, <1>7 DEF Coming
  <2>2. PICK b \in n + 1 .. Len(gs) : s[a] = Checksum(gs[b])
    BY <1>6, <1>7 DEF Coming
  <2>3. s[a][2] = gs[b] /\ b \in 1 .. Len(gs)
    BY <1>4, <2>2 DEF Checksum
  <2>4. gs[b].pageno = b - 1
    BY <2>3 DEF Numbered
  <2>5. j - 1 < b - 1
    BY <1>1, <1>5, <2>1, <2>3, <2>4
  <2>6. b \in j + 1 .. Len(gs)
    BY <1>4, <2>5
  <2> QED
    BY <2>2, <2>6
<1>8. Coming(gs, j, s, h)
  BY <1>4, <1>6, <1>7 DEF Coming
<1> QED
  BY <1>5, <1>8 DEF Found

(* Tokens that are sent: at most one of them is a checksum of the stream, and
   that of the page made last.                                             *)
LEMMA ComingSent ==
  ASSUME NEW gs, NEW n \in 0 .. Len(gs), NEW s, NEW k \in Nat, k <= Len(s),
         Numbered(gs), Coming(gs, n, s, k),
         NEW p, p \in Page, Numbered(Append(gs, p)), NEW ts \in Seq(Token),
         \A i \in 1 .. Len(ts) : Own(ts[i]) => ts[i] = Checksum(p),
         \A i, j \in 1 .. Len(ts) : Own(ts[i]) /\ Own(ts[j]) => i = j
  PROVE  Coming(Append(gs, p), n, s \o ts, k)
<1> DEFINE m == Len(gs)
           hs == Append(gs, p)
           u == s \o ts
<1>1. /\ s \in Seq(Token) /\ Len(s) \in Nat /\ Len(ts) \in Nat /\ m \in Nat
      /\ gs \in Seq(Page) /\ n \in Nat /\ n <= m
  BY LenProperties DEF Coming, Numbered
<1>2. /\ u \in Seq(Token) /\ Len(u) = Len(s) + Len(ts)
      /\ \A i \in 1 .. Len(s) : u[i] = s[i]
      /\ \A i \in 1 .. Len(ts) : u[Len(s) + i] = ts[i]
  BY <1>1, Joined
<1>3. /\ Len(hs) = m + 1 /\ hs[m + 1] = p /\ \A i \in 1 .. m : hs[i] = gs[i]
  BY <1>1, AppendIs
<1>4. p.pageno = m
  BY <1>1, <1>3 DEF Numbered
<1> HIDE DEF u, hs, m
<1>5. \A i \in k + 1 .. Len(u) :
        \/ i \in k + 1 .. Len(s) /\ u[i] = s[i] /\ i <= Len(s)
        \/ i - Len(s) \in 1 .. Len(ts) /\ u[i] = ts[i - Len(s)] /\ Len(s) < i
  <2> SUFFICES ASSUME NEW i \in k + 1 .. Len(u)
               PROVE  \/ i \in k + 1 .. Len(s) /\ u[i] = s[i] /\ i <= Len(s)
                      \/ i - Len(s) \in 1 .. Len(ts) /\ u[i] = ts[i - Len(s)] /\ Len(s) < i
    OBVIOUS
  <2>1. CASE i <= Len(s)
    <3>1. i \in k + 1 .. Len(s) /\ i \in 1 .. Len(s)
      BY <1>1, <2>1
    <3> QED
      BY <1>2, <2>1, <3>1
  <2>2. CASE ~(i <= Len(s))
    <3> DEFINE j == i - Len(s)
    <3>1. j \in 1 .. Len(ts) /\ Len(s) + j = i /\ Len(s) < i
      BY <1>1, <1>2, <2>2
    <3> HIDE DEF j
    <3>2. u[Len(s) + j] = ts[j]
      BY <1>2, <3>1
    <3> QED
      BY <3>1, <3>2 DEF j
  <2> QED
    BY <2>1, <2>2
<1>6. ASSUME NEW i \in k + 1 .. Len(s), Own(s[i])
      PROVE  \E j \in n + 1 .. m : s[i] = Checksum(gs[j]) /\ s[i][2].pageno < m /\ j \in 1 .. m
  <2>1. PICK j \in n + 1 .. m : s[i] = Checksum(gs[j])
    BY <1>6 DEF Coming, m
  <2>2. j \in 1 .. m /\ j - 1 < m
    BY <1>1
  <2>3. gs[j].pageno = j - 1 /\ s[i][2] = gs[j]
    BY <2>1, <2>2 DEF Numbered, Checksum, m
  <2> QED
    BY <2>1, <2>2, <2>3
<1>7. ASSUME NEW i \in k + 1 .. Len(u), Own(u[i])
      PROVE  \E j \in n + 1 .. m + 1 : u[i] = Checksum(hs[j])
  <2>1. CASE i \in k + 1 .. Len(s) /\ u[i] = s[i]
    <3>1. PICK j \in n + 1 .. m : s[i] = Checksum(gs[j]) /\ j \in 1 .. m
      BY <1>6, <1>7, <2>1
    <3>2. j \in n + 1 .. m + 1 /\ hs[j] = gs[j]
      BY <1>1, <1>3, <3>1
    <3> QED
      BY <2>1, <3>1, <3>2
  <2>2. CASE i - Len(s) \in 1 .. Len(ts) /\ u[i] = ts[i - Len(s)]
    <3>1. u[i] = Checksum(p)
      BY <1>7, <2>2
    <3>2. m + 1 \in n + 1 .. m + 1
      BY <1>1
    <3> QED
      BY <1>3, <3>1, <3>2
  <2> QED
    BY <1>5, <2>1, <2>2
<1>8. ASSUME NEW i \in k + 1 .. Len(u), NEW j \in k + 1 .. Len(u), i < j,
             Own(u[i]), Own(u[j])
      PROVE  u[i][2].pageno < u[j][2].pageno
  <2>1. CASE j <= Len(s)
    <3>1. i <= Len(s) /\ ~(Len(s) < i) /\ ~(Len(s) < j)
      BY <1>1, <1>8, <2>1
    <3>2. /\ i \in k + 1 .. Len(s) /\ u[i] = s[i]
          /\ j \in k + 1 .. Len(s) /\ u[j] = s[j]
      BY <1>5, <3>1
    <3> QED
      BY <1>8, <3>2 DEF Coming
  <2>2. CASE ~(j <= Len(s))
    <3>1. j - Len(s) \in 1 .. Len(ts) /\ u[j] = ts[j - Len(s)]
      BY <1>5, <2>2
    <3>2. u[j][2].pageno = m
      <4>1. u[j] = Checksum(p)
        BY <1>8, <3>1
      <4> QED
        BY <1>4, <4>1 DEF Checksum
    <3>3. CASE i \in k + 1 .. Len(s) /\ u[i] = s[i]
      BY <1>6, <1>8, <3>2, <3>3
    <3>4. CASE i - Len(s) \in 1 .. Len(ts) /\ u[i] = ts[i - Len(s)]
      <4>1. i - Len(s) = j - Len(s)
        BY <1>8, <3>1, <3>4
      <4> QED
        BY <1>1, <1>8, <4>1
    <3> QED
      BY <1>5, <3>3, <3>4
  <2> QED
    BY <2>1, <2>2
<1>9. Coming(hs, n, u, k)
  BY <1>2, <1>3, <1>7, <1>8 DEF Coming
<1> QED
  BY <1>9 DEF hs, u

(* Tokens of other streams.                                                *)
LEMMA ComingOther ==
  ASSUME NEW gs, NEW n, NEW s, NEW k \in Nat, k <= Len(s),
         Coming(gs, n, s, k), NEW ts \in Seq(Token),
         \A i \in 1 .. Len(ts) : ~Own(ts[i])
  PROVE  Coming(gs, n, s \o ts, k)
<1> DEFINE u == s \o ts
<1>1. /\ s \in Seq(Token) /\ Len(s) \in Nat /\ Len(ts) \in Nat
  BY LenProperties DEF Coming
<1>2. /\ u \in Seq(Token) /\ Len(u) = Len(s) + Len(ts)
      /\ \A i \in 1 .. Len(s) : u[i] = s[i]
      /\ \A i \in 1 .. Len(ts) : u[Len(s) + i] = ts[i]
  BY <1>1, Joined
<1> HIDE DEF u
<1>3. ASSUME NEW i \in k + 1 .. Len(u), Own(u[i])
      PROVE  i \in k + 1 .. Len(s) /\ u[i] = s[i]
  <2>1. CASE i <= Len(s)
    <3>1. i \in k + 1 .. Len(s) /\ i \in 1 .. Len(s)
      BY <1>1, <2>1
    <3> QED
      BY <1>2, <3>1
  <2>2. CASE ~(i <= Len(s))
    <3> DEFINE j == i - Len(s)
    <3>1. j \in 1 .. Len(ts) /\ Len(s) + j = i
      BY <1>1, <1>2, <2>2
    <3> HIDE DEF j
    <3>2. u[Len(s) + j] = ts[j]
      BY <1>2, <3>1
    <3> QED
      BY <1>3, <3>1, <3>2
  <2> QED
    BY <2>1, <2>2
<1>4. Coming(gs, n, u, k)
  BY <1>2, <1>3 DEF Coming
<1> QED
  BY <1>4 DEF u

(* The sync layer and the wire, with the pages after the first n to come.  *)
Carrying(y, w, gs, n) ==
  SyncOk(y) /\ w \in Seq(Token) /\ Coming(gs, n, y.data \o w, y.returned)

(* The read buffer followed by the wire: the tokens still to be read, and *)
(* where each of them comes from.                                         *)
LEMMA CarryingJoined ==
  ASSUME NEW y, SyncOk(y), NEW w \in Seq(Token)
  PROVE  /\ y.data \in Seq(Token) /\ Len(y.data) \in Nat /\ Len(w) \in Nat
         /\ y.returned \in Nat /\ y.returned <= Len(y.data)
         /\ y.data \o w \in Seq(Token) /\ Len(y.data \o w) = Len(y.data) + Len(w)
         /\ \A i \in 1 .. Len(y.data) : (y.data \o w)[i] = y.data[i]
         /\ \A i \in 1 .. Len(w) : (y.data \o w)[Len(y.data) + i] = w[i]
<1>1. y.data \in Seq(Token) /\ y.returned \in Nat /\ y.returned <= Len(y.data)
  BY DEF SyncOk
<1>2. Len(y.data) \in Nat /\ Len(w) \in Nat
  BY <1>1, LenProperties
<1> QED
  BY <1>1, <1>2, Joined

(* What may follow on the wire when a page is sent.                        *)
Fair(p, ts) ==
  /\ ts \in Seq(Token)
  /\ \A i \in 1 .. Len(ts) : ts[i][1] = "checksum" => i = 3 /\ ts[i] = Checksum(p)

(* A page's own tokens are a fair copy of it. *)
LEMMA PageTokensFair ==
  ASSUME NEW p \in Page
  PROVE  Fair(p, PageTokens(p))
  BY PageTokensAre DEF Fair

(* So is a copy that lost its end ... *)
LEMMA CutFair ==
  ASSUME NEW p, NEW ts, Fair(p, ts), NEW n \in 1 .. Len(ts) - 1
  PROVE  Fair(p, SubSeq(ts, 1, n))
<1>1. ts \in Seq(Token) /\ Len(ts) \in Nat /\ n \in Nat
  BY LenProperties DEF Fair
<1>2. Take(ts, n) = SubSeq(ts, 1, n)
  BY DEF Take
<1>3. n \in 0 .. Len(ts) /\ \A i \in 1 .. n : i \in 1 .. Len(ts)
  BY <1>1
<1>4. /\ Take(ts, n) \in Seq(Token) /\ Len(Take(ts, n)) = n
      /\ \A i \in 1 .. n : Take(ts, n)[i] = ts[i]
  BY <1>1, <1>3, TakeIs
<1>5. Fair(p, Take(ts, n))
  BY <1>3, <1>4 DEF Fair
<1> QED
  BY <1>2, <1>5

(* ... a copy with a changed byte ... *)
LEMMA DamagedFair ==
  ASSUME NEW p, NEW ts, Fair(p, ts), NEW i \in 1 .. Len(ts), NEW v \in Nat
  PROVE  Fair(p, [ts EXCEPT ![i] = Byte(v)])
<1>1. ts \in Seq(Token) /\ Byte(v) \in Token
  BY DEF Fair, Token
<1> DEFINE u == [ts EXCEPT ![i] = Byte(v)]
<1>2. /\ u \in Seq(Token) /\ Len(u) = Len(ts)
      /\ \A j \in 1 .. Len(ts) : u[j] = IF j = i THEN Byte(v) ELSE ts[j]
  BY <1>1, ExceptSeq
<1>3. Byte(v)[1] # "checksum"
  BY DEF Byte
<1> HIDE DEF u
<1>4. Fair(p, u)
  BY <1>2, <1>3 DEF Fair
<1> QED
  BY <1>4 DEF u

(* ... and a copy that was lost entirely. *)
LEMMA NothingFair ==
  ASSUME NEW p
  PROVE  Fair(p, <<>>)
<1>1. <<>> \in Seq(Token) /\ Len(<<>>) = 0
  BY EmptySeq
<1> QED
  BY <1>1 DEF Fair

(* A page of the stream that arrives in any of these ways keeps the order.  *)
LEMMA CarryingSent ==
  ASSUME NEW y, NEW w, NEW gs, NEW n \in 0 .. Len(gs), Carrying(y, w, gs, n),
         Numbered(gs), NEW p \in Page, Numbered(Append(gs, p)), NEW ts, Fair(p, ts)
  PROVE  Carrying(y, w \o ts, Append(gs, p), n)
<1>1. /\ SyncOk(y) /\ w \in Seq(Token) /\ ts \in Seq(Token)
      /\ Coming(gs, n, y.data \o w, y.returned)
  BY DEF Carrying, Fair
<1>2. /\ y.data \in Seq(Token) /\ y.returned \in Nat /\ Len(y.data) \in Nat
      /\ y.returned <= Len(y.data) /\ Len(w) \in Nat
      /\ Len(y.data \o w) = Len(y.data) + Len(w)
  BY <1>1, CarryingJoined
<1>3. y.returned <= Len(y.data \o w)
  BY <1>2
<1>4. /\ \A i \in 1 .. Len(ts) : Own(ts[i]) => ts[i] = Checksum(p)
      /\ \A i, j \in 1 .. Len(ts) : Own(ts[i]) /\ Own(ts[j]) => i = j
  BY DEF Fair, Own
<1>5. Coming(Append(gs, p), n, (y.data \o w) \o ts, y.returned)
  BY <1>1, <1>2, <1>3, <1>4, ComingSent
<1>6. (y.data \o w) \o ts = y.data \o (w \o ts)
  <2> DEFINE x == y.data
  <2>1. x \in Seq(Token) /\ w \in Seq(Token) /\ ts \in Seq(Token)
    BY <1>1, <1>2
  <2> HIDE DEF x
  <2>2. (x \o w) \o ts = x \o (w \o ts)
    BY <2>1, ConcatAssociative
  <2> QED
    BY <2>2 DEF x
<1>7. w \o ts \in Seq(Token)
  BY <1>1, Joined
<1> QED
  BY <1>1, <1>5, <1>6, <1>7 DEF Carrying

(* So does a page of another stream.                                       *)
LEMMA CarryingOther ==
  ASSUME NEW y, NEW w, NEW gs, NEW n, Carrying(y, w, gs, n),
         NEW p \in Page, p.serialno # Serial
  PROVE  Carrying(y, w \o PageTokens(p), gs, n)
<1> DEFINE ts == PageTokens(p)
<1>1. /\ SyncOk(y) /\ w \in Seq(Token)
      /\ Coming(gs, n, y.data \o w, y.returned)
  BY DEF Carrying
<1>2. ts \in Seq(Token) /\ Fair(p, ts)
  BY PageTokensFair DEF Fair
<1> HIDE DEF ts
<1>3. /\ y.data \in Seq(Token) /\ y.returned \in Nat /\ Len(y.data) \in Nat
      /\ y.returned <= Len(y.data) /\ Len(w) \in Nat
      /\ Len(y.data \o w) = Len(y.data) + Len(w)
  BY <1>1, CarryingJoined
<1>4. y.returned <= Len(y.data \o w)
  BY <1>3
<1>5. \A i \in 1 .. Len(ts) : ~Own(ts[i])
  BY <1>2 DEF Fair, Own, Checksum
<1>6. Coming(gs, n, (y.data \o w) \o ts, y.returned)
  BY <1>1, <1>2, <1>3, <1>4, <1>5, ComingOther
<1>7. (y.data \o w) \o ts = y.data \o (w \o ts)
  <2> DEFINE x == y.data
  <2>1. x \in Seq(Token) /\ w \in Seq(Token) /\ ts \in Seq(Token)
    BY <1>1, <1>2, <1>3
  <2> HIDE DEF x
  <2>2. (x \o w) \o ts = x \o (w \o ts)
    BY <2>1, ConcatAssociative
  <2> QED
    BY <2>2 DEF x
<1>8. w \o ts \in Seq(Token)
  BY <1>1, <1>2, Joined
<1> QED
  BY <1>1, <1>6, <1>7, <1>8 DEF Carrying, ts

(* Bytes go from the wire into the sync layer.                             *)
LEMMA CarryingFed ==
  ASSUME NEW y, NEW w, NEW gs, NEW n, Carrying(y, w, gs, n), NEW b \in 0 .. Len(w)
  PROVE  Carrying(SyncWrite(y, Take(w, b)), Drop(w, b), gs, n)
<1> DEFINE d == SubSeq(y.data, y.returned + 1, Len(y.data))
           x == Take(w, b)
           v == Drop(w, b)
           z == SyncWrite(y, x)
           e == d \o x
           D == Seq(Token)
<1>1. /\ SyncOk(y) /\ w \in Seq(Token)
      /\ Coming(gs, n, y.data \o w, y.returned)
  BY DEF Carrying
<1>2. /\ y.data \in Seq(Token) /\ y.returned \in Nat /\ Len(y.data) \in Nat
      /\ y.returned <= Len(y.data) /\ Len(w) \in Nat /\ b \in Nat /\ b <= Len(w)
      /\ Len(y.data \o w) = Len(y.data) + Len(w)
      /\ \A i \in 1 .. Len(y.data) : (y.data \o w)[i] = y.data[i]
      /\ \A i \in 1 .. Len(w) : (y.data \o w)[Len(y.data) + i] = w[i]
  BY <1>1, CarryingJoined
<1>3. /\ d \in Seq(Token) /\ Len(d) = Len(y.data) - y.returned /\ Len(d) \in Nat
      /\ \A i \in 1 .. Len(d) : d[i] = y.data[y.returned + i]
  BY <1>1, RestIs
<1>4. /\ x \in Seq(Token) /\ Len(x) = b /\ \A i \in 1 .. b : x[i] = w[i]
      /\ v \in Seq(Token) /\ Len(v) = Len(w) - b
      /\ \A i \in 1 .. Len(w) - b : v[i] = w[b + i]
  BY <1>1, <1>2, TakeIs, DropIs
<1> HIDE DEF d, x, v
<1>5. e \in Seq(Token)
  BY <1>3, <1>4, Joined
<1>6. SyncOk(z) /\ z.data = e /\ z.returned = 0
  <2>1. y \in [data : D, returned : Nat, unsynced : BOOLEAN,
               headerbytes : Nat, bodybytes : Nat] /\ e \in D
    BY <1>1, <1>5 DEF SyncOk
  <2>2. z = [y EXCEPT !.data = e, !.returned = 0]
    BY DEF SyncWrite, d
  <2> HIDE DEF D, e, z
  <2>3. /\ z \in [data : D, returned : Nat, unsynced : BOOLEAN,
               headerbytes : Nat, bodybytes : Nat]
        /\ z.data = e /\ z.returned = 0 /\ z.headerbytes = y.headerbytes
    BY <2>1, <2>2
  <2>4. Len(e) \in Nat
    BY <2>1, LenProperties DEF D
  <2> QED
    BY <1>1, <2>3, <2>4 DEF SyncOk, D
<1>7. e \o v = d \o w
  <2>1. x \o v = w
    <3>1. /\ x \o v \in Seq(Token) /\ Len(x \o v) = Len(w)
          /\ \A i \in 1 .. b : (x \o v)[i] = x[i]
          /\ \A i \in 1 .. Len(w) - b : (x \o v)[b + i] = v[i]
      <4>1. /\ x \o v \in Seq(Token) /\ Len(x \o v) = Len(x) + Len(v)
            /\ \A i \in 1 .. Len(x) : (x \o v)[i] = x[i]
            /\ \A i \in 1 .. Len(v) : (x \o v)[Len(x) + i] = v[i]
        <5>1. x \in Seq(Token) /\ v \in Seq(Token)
          BY <1>4
        <5> QED
          BY ONLY <5>1, Joined
      <4> QED
        BY <1>2, <1>4, <4>1
    <3> DEFINE u == x \o v
    <3>2. ASSUME NEW i \in 1 .. Len(w) PROVE u[i] = w[i]
      <4>1. CASE i <= b
        <5>1. i \in 1 .. b
          BY <1>2, <4>1
        <5> QED
          BY <1>4, <3>1, <5>1
      <4>2. CASE ~(i <= b)
        <5> DEFINE j == i - b
        <5>1. j \in 1 .. Len(w) - b /\ b + j = i
          BY <1>2, <4>2
        <5> HIDE DEF j
        <5>2. u[b + j] = v[j] /\ v[j] = w[b + j]
          BY <1>4, <3>1, <5>1
        <5> QED
          BY <5>1, <5>2
      <4> QED
        BY <4>1, <4>2
    <3>3. u \in Seq(Token) /\ w \in Seq(Token) /\ Len(u) = Len(w)
      BY <1>1, <3>1
    <3> HIDE DEF u
    <3>4. u = w
      BY <3>2, <3>3, SeqEqual
    <3> QED
      BY <3>4 DEF u
  <2>2. (d \o x) \o v = d \o (x \o v)
    <3>1. d \in Seq(Token) /\ x \in Seq(Token) /\ v \in Seq(Token)
      BY <1>3, <1>4
    <3> QED
      BY ONLY <3>1, ConcatAssociative
  <2> QED
    BY <2>1, <2>2
<1> HIDE DEF e, z
<1>8. /\ d \o w \in Seq(Token) /\ Len(d \o w) = Len(d) + Len(w)
      /\ \A i \in 1 .. Len(d) : (d \o w)[i] = d[i]
      /\ \A i \in 1 .. Len(w) : (d \o w)[Len(d) + i] = w[i]
  <2>1. d \in Seq(Token) /\ w \in Seq(Token)
    BY <1>1, <1>3
  <2> QED
    BY ONLY <2>1, Joined
<1> DEFINE s == y.data \o w
           u == d \o w
           k == y.returned
<1>9. ASSUME NEW i \in 0 + 1 .. Len(u) PROVE i + k \in k + 1 .. Len(s) /\ u[i] = s[i + k]
  <2>0. Len(u) = Len(d) + Len(w) /\ Len(s) = Len(y.data) + Len(w)
        /\ Len(d) = Len(y.data) - k /\ k \in Nat /\ Len(d) \in Nat /\ Len(w) \in Nat
        /\ Len(y.data) \in Nat /\ k <= Len(y.data)
    BY <1>2, <1>3, <1>8
  <2> DEFINE a == i + k
  <2>1. a \in k + 1 .. Len(s)
    BY <2>0
  <2>2. CASE i <= Len(d)
    <3>1. i \in 1 .. Len(d) /\ a \in 1 .. Len(y.data) /\ k + i = a
      <4> DEFINE m == Len(d)
                 h == Len(y.data)
      <4>1. k \in Nat /\ m \in Nat /\ h \in Nat /\ m = h - k /\ i <= m /\ i \in Nat /\ 1 <= i
        BY <2>0, <2>2
      <4> HIDE DEF m, h, k
      <4>2. i \in 1 .. m /\ i + k \in 1 .. h /\ k + i = i + k
        BY ONLY <4>1
      <4> QED
        BY <4>2 DEF m, h
    <3> HIDE DEF a
    <3>2. u[i] = d[i] /\ d[i] = y.data[a] /\ s[a] = y.data[a]
      BY <1>2, <1>3, <1>8, <3>1
    <3> QED
      BY <2>1, <3>2 DEF a
  <2>3. CASE ~(i <= Len(d))
    <3> DEFINE j == i - Len(d)
    <3>1. j \in 1 .. Len(w) /\ Len(d) + j = i /\ Len(y.data) + j = a
      <4> DEFINE m == Len(d)
                 h == Len(y.data)
                 r == Len(w)
      <4>1. /\ k \in Nat /\ m \in Nat /\ h \in Nat /\ r \in Nat /\ m = h - k
            /\ ~(i <= m) /\ i \in 1 .. m + r
        BY <2>0, <2>3
      <4> HIDE DEF m, h, r, k
      <4>2. i - m \in 1 .. r /\ m + (i - m) = i /\ h + (i - m) = i + k
        BY ONLY <4>1
      <4> QED
        BY <4>2 DEF m, h, r
    <3> HIDE DEF a, j
    <3>2. u[Len(d) + j] = w[j] /\ s[Len(y.data) + j] = w[j]
      BY <1>2, <1>8, <3>1
    <3> QED
      BY <2>1, <3>1, <3>2 DEF a
  <2> QED
    BY <2>2, <2>3
<1>10. u \in Seq(Token) /\ k \in Nat /\ k \in Int /\ Coming(gs, n, s, k)
  BY <1>1, <1>2, <1>8
<1> HIDE DEF u, k, s
<1>11. Coming(gs, n, u, 0)
  <2>1. Moved(s, k, u, 0, k)
    BY <1>9 DEF Moved
  <2> QED
    BY <1>10, <2>1, ComingPart
<1> QED
  BY <1>4, <1>6, <1>7, <1>11 DEF Carrying, u, z, x, v

(* Looking for a page leaves less; a page of the stream is one of those that
   were to come, and then later ones are.                                  *)
LEMMA CarryingSought ==
  ASSUME NEW y, NEW w, NEW gs, NEW n \in 0 .. Len(gs), Carrying(y, w, gs, n), Numbered(gs)
  PROVE  LET r == SyncPageout(y)
         IN /\ r.ret \in Int /\ Carrying(r.oy, w, gs, n)
            /\ r.ret > 0 /\ r.page.serialno = Serial
               => \E j \in n + 1 .. Len(gs) : r.page = gs[j] /\ Carrying(r.oy, w, gs, j)
<1> DEFINE r == SyncPageout(y)
           s == y.data \o w
           k == y.returned
           h == r.oy.returned
<1>1. SyncOk(y) /\ w \in Seq(Token) /\ Coming(gs, n, s, k)
  BY DEF Carrying
<1>2. Sought(y, r)
  BY <1>1, SyncPageoutIs
<1> HIDE DEF r
<1>3. /\ r.ret \in Int /\ SyncOk(r.oy) /\ r.oy.data = y.data /\ k <= h
      /\ h \in Nat /\ h <= Len(y.data) /\ k \in Nat
      /\ r.ret > 0 => \E i \in k + 1 .. h : y.data[i] = Checksum(r.page)
  BY <1>1, <1>2 DEF Sought, SyncOk
<1>4. /\ s \in Seq(Token) /\ Len(s) = Len(y.data) + Len(w) /\ Len(y.data) \in Nat
      /\ Len(w) \in Nat /\ \A i \in 1 .. Len(y.data) : s[i] = y.data[i]
  BY <1>1, CarryingJoined
<1> HIDE DEF s, k, h
<1>5. Coming(gs, n, s, h)
  <2>1. Moved(s, k, s, h, 0)
    BY <1>3, <1>4 DEF Moved
  <2> QED
    BY <1>1, <1>3, <1>4, <2>1, ComingPart
<1>6. Carrying(r.oy, w, gs, n)
  BY <1>1, <1>3, <1>5 DEF Carrying, s, h
<1>7. ASSUME r.ret > 0, r.page.serialno = Serial
      PROVE  \E j \in n + 1 .. Len(gs) : r.page = gs[j] /\ Carrying(r.oy, w, gs, j)
  <2>1. PICK i \in k + 1 .. h : y.data[i] = Checksum(r.page)
    BY <1>3, <1>7
  <2>2. i \in k + 1 .. Len(s) /\ i \in 1 .. Len(y.data) /\ i <= h
    BY <1>3, <1>4
  <2>3. s[i] = Checksum(r.page)
    BY <1>4, <2>1, <2>2
  <2>4. PICK j \in n + 1 .. Len(gs) : r.page = gs[j] /\ Coming(gs, j, s, h)
    <3>1. Found(gs, n, s, h, r.page)
      BY <1>1, <1>3, <1>7, <2>2, <2>3, ComingAfter
    <3> QED
      BY <3>1 DEF Found
  <2>5. Carrying(r.oy, w, gs, j)
    BY <1>1, <1>3, <2>4 DEF Carrying, s, h
  <2> QED
    BY <2>4, <2>5
<1> QED
  BY <1>3, <1>6, <1>7 DEF r

(* A reset of the sync layer leaves what is on the wire.                   *)
LEMMA CarryingReset ==
  ASSUME NEW y, NEW w, NEW gs, NEW n, Carrying(y, w, gs, n)
  PROVE  Carrying(SyncReset, w, gs, n)
<1> DEFINE s == y.data \o w
           k == y.returned
           e == <<>> \o w
<1>1. SyncOk(y) /\ w \in Seq(Token) /\ Coming(gs, n, s, k)
  BY DEF Carrying
<1>2. /\ Len(s) = Len(y.data) + Len(w) /\ Len(y.data) \in Nat /\ k <= Len(y.data)
      /\ Len(w) \in Nat /\ k \in Nat
      /\ \A i \in 1 .. Len(w) : s[Len(y.data) + i] = w[i]
  BY <1>1, CarryingJoined
<1> HIDE DEF s, k
<1>3. ASSUME NEW i \in 0 + 1 .. Len(w)
      PROVE  i + Len(y.data) \in k + 1 .. Len(s) /\ w[i] = s[i + Len(y.data)]
  <2>1. i + Len(y.data) = Len(y.data) + i /\ i \in 1 .. Len(w)
    BY <1>2
  <2> QED
    BY <1>2, <2>1
<1>4. Coming(gs, n, w, 0)
  <2>1. Moved(s, k, w, 0, Len(y.data))
    BY <1>3 DEF Moved
  <2> QED
    BY <1>1, <1>2, <2>1, ComingPart
<1>5. e = w
  BY <1>1, ConcatEmptySeq
<1>6. SyncOk(SyncReset) /\ SyncReset.data = <<>> /\ SyncReset.returned = 0
  <2>1. <<>> \in Seq(Token) /\ Len(<<>>) = 0
    BY EmptySeq
  <2> QED
    BY <2>1 DEF SyncReset, SyncInit, SyncOk
<1> QED
  BY <1>1, <1>4, <1>5, <1>6 DEF Carrying

-----------------------------------------------------------------------------
(* The decoder. *)

(* s is segment number g of the stream, with the labels it may have.       *)
Entry(s, g, ps, st, off) ==
  /\ ~s.hole
  /\ s.len = off[g] - off[g - 1]
  /\ s.first <=> g = 1
  /\ s.last => g = Total(ps, st) /\ Len(ps) # 0 /\ ps[Len(ps)].e_o_s
  /\ \A k \in 1 .. Len(ps) :
       g = st[k + 1] => \/ s.granule \in {-1, ps[k].granulepos}
                        \/ k = 1 /\ s.granule = 0

(* n bytes of b behind x are those of the stream behind y.                 *)
Copied(b, x, n, bytes, y) == \A j \in 1 .. n : b[x + j] = bytes[y + j]

(* The segments l and bytes b of a decoder, the first w of them up to the end
   of a packet or a hole: where the bytes of each end, and which segment of the
   stream it is, 0 for a hole.                                             *)
Shape(l, b, w, pos, bo, top) ==
  /\ l \in Seq(SegmentType) /\ b \in Seq(Nat)
  /\ pos \in [1 .. Len(l) -> 0 .. top]
  /\ bo \in [0 .. Len(l) -> Nat] /\ bo[0] = 0 /\ bo[Len(l)] = Len(b)
  /\ \A i \in 1 .. Len(l) : bo[i] = bo[i - 1] + l[i].len
  /\ \A i, j \in 0 .. Len(l) : i <= j => bo[i] <= bo[j]
  /\ w \in 0 .. Len(l) /\ (w # 0 => l[w].len < Full)
  /\ \A i \in w + 1 .. Len(l) : l[i].len = Full

Filling(l, b, pos, bo, ps, st, off, bytes) ==
  \A i \in 1 .. Len(l) :
    /\ pos[i] = 0 => l[i].hole /\ l[i].len = 0
    /\ pos[i] # 0 => /\ Entry(l[i], pos[i], ps, st, off)
                     /\ Copied(b, bo[i - 1], l[i].len, bytes, off[pos[i] - 1])

(* Segments follow each other; behind a hole a packet begins, and before a
   hole one ends.                                                          *)
Follow(p, q, len, off) ==
  /\ p # 0 /\ q # 0 => q = p + 1
  /\ p = 0 /\ q # 0 => Boundary(off, q - 1)
  /\ q = 0 => len < Full

Sequence(l, pos, off) ==
  /\ \A i, j \in 1 .. Len(l) : i < j /\ pos[i] # 0 /\ pos[j] # 0 => pos[i] < pos[j]
  /\ \A i \in 1 .. Len(l) - 1 : Follow(pos[i], pos[i + 1], l[i].len, off)

View(l, b, w, pos, bo, top, ps, st, off, bytes) ==
  /\ Shape(l, b, w, pos, bo, top)
  /\ Filling(l, b, pos, bo, ps, st, off, bytes)
  /\ Sequence(l, pos, off)

LaterPos(pos, n, q) == [i \in 1 .. n - q |-> pos[q + i]]
LaterBytes(bo, n, q) == [i \in 0 .. n - q |-> bo[q + i] - bo[q]]

(* Without its first segments.                                             *)
LEMMA ViewDrop ==
  ASSUME NEW l, NEW b, NEW w, NEW pos, NEW bo, NEW top \in Nat, NEW ps, NEW st, NEW off,
         NEW bytes, View(l, b, w, pos, bo, top, ps, st, off, bytes), NEW q \in 0 .. w
  PROVE  /\ View(Drop(l, q), Drop(b, bo[q]), w - q, LaterPos(pos, Len(l), q),
                 LaterBytes(bo, Len(l), q), top, ps, st, off, bytes)
         /\ Len(Drop(l, q)) = Len(l) - q
         /\ \A i \in 1 .. Len(l) - q : /\ Drop(l, q)[i] = l[q + i]
                                       /\ LaterPos(pos, Len(l), q)[i] = pos[q + i]
<1> DEFINE n == Len(l)
           l2 == Drop(l, q)
           b2 == Drop(b, bo[q])
           x == LaterPos(pos, n, q)
           y == LaterBytes(bo, n, q)
<1>1. /\ l \in Seq(SegmentType) /\ b \in Seq(Nat) /\ n \in Nat /\ Len(b) \in Nat
      /\ w \in 0 .. n /\ w \in Nat /\ w <= n
      /\ pos \in [1 .. n -> 0 .. top] /\ bo \in [0 .. n -> Nat]
      /\ bo[0] = 0 /\ bo[n] = Len(b)
      /\ \A i \in 1 .. n : bo[i] = bo[i - 1] + l[i].len
      /\ \A i, j \in 0 .. n : i <= j => bo[i] <= bo[j]
      /\ w # 0 => l[w].len < Full
      /\ \A i \in w + 1 .. n : l[i].len = Full
  BY LenProperties DEF View, Shape
<1>2. q \in Nat /\ q <= w /\ q \in 0 .. n /\ q <= n
  BY <1>1
<1>0. \A i \in 1 .. n : l[i] \in SegmentType /\ l[i].len \in Nat
  <2>1. l \in Seq(SegmentType)
    BY <1>1
  <2>2. \A i \in 1 .. n : l[i] \in SegmentType
    BY <2>1, ElementOfSeq
  <2> HIDE DEF n
  <2> QED
    BY <2>2 DEF SegmentType
<1>3. bo[q] \in 0 .. Len(b) /\ bo[q] \in Nat
  <2> HIDE DEF n
  <2>1. n \in 0 .. n
    BY <1>1
  <2>2. bo[q] \in Nat /\ bo[q] <= Len(b)
    BY <1>1, <1>2, <2>1
  <2> QED
    BY <1>1, <2>2
<1>4. /\ l2 \in Seq(SegmentType) /\ Len(l2) = n - q /\ \A i \in 1 .. n - q : l2[i] = l[q + i]
  BY <1>1, <1>2, DropIs
<1>5. /\ b2 \in Seq(Nat) /\ Len(b2) = Len(b) - bo[q]
      /\ \A i \in 1 .. Len(b) - bo[q] : b2[i] = b[bo[q] + i]
  <2> DEFINE o == bo[q]
  <2>1. o \in 0 .. Len(b) /\ b \in Seq(Nat)
    BY <1>1, <1>3
  <2> HIDE DEF o
  <2>2. /\ Drop(b, o) \in Seq(Nat) /\ Len(Drop(b, o)) = Len(b) - o
        /\ \A i \in 1 .. Len(b) - o : Drop(b, o)[i] = b[o + i]
    BY <2>1, DropIs
  <2> QED
    BY <2>2 DEF o
<1> HIDE DEF l2, b2, n
<1>6. /\ \A i \in 1 .. n - q : x[i] = pos[q + i] /\ q + i \in 1 .. n /\ pos[q + i] \in 0 .. top
      /\ \A i \in 0 .. n - q : /\ y[i] = bo[q + i] - bo[q] /\ q + i \in 0 .. n
                               /\ bo[q + i] \in Nat /\ bo[q] <= bo[q + i]
                               /\ bo[q + i] <= Len(b)
  <2>1. /\ \A i \in 1 .. n - q : x[i] = pos[q + i]
        /\ \A i \in 0 .. n - q : y[i] = bo[q + i] - bo[q]
    BY DEF LaterPos, LaterBytes
  <2>2. /\ \A i \in 1 .. n - q : q + i \in 1 .. n
        /\ \A i \in 0 .. n - q : q + i \in 0 .. n /\ q <= q + i /\ q + i <= n
        /\ n \in 0 .. n
    BY <1>1, <1>2
  <2> HIDE DEF x, y
  <2> QED
    BY <1>1, <1>2, <2>1, <2>2
<1>7. x \in [1 .. n - q -> 0 .. top] /\ y \in [0 .. n - q -> Nat]
  <2>1. x = [i \in 1 .. n - q |-> x[i]] /\ y = [i \in 0 .. n - q |-> y[i]]
    BY DEF LaterPos, LaterBytes
  <2> HIDE DEF x, y
  <2>2. \A i \in 0 .. n - q : y[i] \in Nat
    BY <1>3, <1>6
  <2>3. \A i \in 1 .. n - q : x[i] \in 0 .. top
    BY <1>6
  <2> QED
    BY <2>1, <2>2, <2>3
<1> HIDE DEF x, y
<1>8. Shape(l2, b2, w - q, x, y, top)
  <2>1. y[0] = 0 /\ y[n - q] = Len(b2)
    <3>1. 0 \in 0 .. n - q /\ n - q \in 0 .. n - q /\ q + 0 = q /\ q + (n - q) = n
      BY <1>1, <1>2
    <3> QED
      BY <1>1, <1>3, <1>5, <1>6, <3>1
  <2>2. ASSUME NEW i \in 1 .. n - q PROVE y[i] = y[i - 1] + l2[i].len
    <3>1. i \in 0 .. n - q /\ i - 1 \in 0 .. n - q /\ q + (i - 1) = (q + i) - 1
      BY <1>1, <1>2
    <3>2. bo[q + i] = bo[(q + i) - 1] + l[q + i].len
      BY <1>1, <1>6
    <3>3. l[q + i].len \in Nat
      BY <1>0, <1>6
    <3>4. /\ y[i] = bo[q + i] - bo[q] /\ y[i - 1] = bo[(q + i) - 1] - bo[q]
          /\ l2[i].len = l[q + i].len /\ bo[(q + i) - 1] \in Nat
      BY <1>4, <1>6, <3>1
    <3> DEFINE a == bo[q + i]
               c == bo[(q + i) - 1]
               d == bo[q]
               e == l[q + i].len
    <3>5. a = c + e /\ c \in Nat /\ d \in Nat /\ e \in Nat
      BY <1>3, <3>2, <3>3, <3>4
    <3>6. y[i] = a - d /\ y[i - 1] = c - d /\ l2[i].len = e
      BY <3>4
    <3> HIDE DEF a, c, d, e
    <3> QED
      BY <3>5, <3>6
  <2>3. \A i, j \in 0 .. n - q : i <= j => y[i] <= y[j]
    <3>1. \A i, j \in 0 .. n - q : i <= j => q + i <= q + j
      BY <1>1, <1>2
    <3> QED
      BY <1>1, <1>3, <1>6, <3>1
  <2>4. w - q \in 0 .. n - q
    BY <1>1, <1>2
  <2>5. w - q # 0 => l2[w - q].len < Full
    <3> SUFFICES ASSUME w - q # 0 PROVE l2[w - q].len < Full
      OBVIOUS
    <3>1. w - q \in 1 .. n - q /\ q + (w - q) = w /\ w # 0
      BY <1>1, <1>2
    <3> QED
      BY <1>1, <1>4, <3>1
  <2>6. \A i \in w - q + 1 .. n - q : l2[i].len = Full
    <3> SUFFICES ASSUME NEW i \in w - q + 1 .. n - q PROVE l2[i].len = Full
      OBVIOUS
    <3>1. i \in 1 .. n - q /\ q + i \in w + 1 .. n
      BY <1>1, <1>2
    <3>2. l[q + i].len = Full
      BY <1>1, <3>1
    <3>3. l2[i] = l[q + i]
      BY <1>4, <3>1
    <3> QED
      BY <3>2, <3>3
  <2> QED
    BY <1>4, <1>5, <1>7, <2>1, <2>2, <2>3, <2>4, <2>5, <2>6 DEF Shape
<1>9. Filling(l2, b2, x, y, ps, st, off, bytes)
  <2> SUFFICES ASSUME NEW i \in 1 .. n - q
               PROVE  /\ x[i] = 0 => l2[i].hole /\ l2[i].len = 0
                      /\ x[i] # 0 => /\ Entry(l2[i], x[i], ps, st, off)
                                     /\ Copied(b2, y[i - 1], l2[i].len, bytes, off[x[i] - 1])
    BY <1>4 DEF Filling
  <2> DEFINE j == q + i
  <2>1. j \in 1 .. n /\ x[i] = pos[j] /\ l2[i] = l[j] /\ i - 1 \in 0 .. n - q
        /\ q + (i - 1) = j - 1 /\ j - 1 \in 0 .. n /\ j \in 0 .. n /\ j <= n
    <3>1. x[i] = pos[j] /\ l2[i] = l[j]
      BY <1>4, <1>6
    <3>2. /\ j \in 1 .. n /\ i - 1 \in 0 .. n - q
          /\ q + (i - 1) = j - 1 /\ j - 1 \in 0 .. n /\ j \in 0 .. n /\ j <= n
      BY <1>1, <1>2
    <3> QED
      BY <3>1, <3>2
  <2>2. y[i - 1] = bo[j - 1] - bo[q]
    BY <1>6, <2>1
  <2> HIDE DEF j
  <2>3. /\ pos[j] = 0 => l[j].hole /\ l[j].len = 0
        /\ pos[j] # 0 => /\ Entry(l[j], pos[j], ps, st, off)
                         /\ Copied(b, bo[j - 1], l[j].len, bytes, off[pos[j] - 1])
    BY <2>1 DEF View, Filling, n
  <2>4. ASSUME NEW o, Copied(b, bo[j - 1], l[j].len, bytes, o)
        PROVE  Copied(b2, y[i - 1], l[j].len, bytes, o)
    <3> SUFFICES ASSUME NEW h \in 1 .. l[j].len PROVE b2[y[i - 1] + h] = bytes[o + h]
      BY DEF Copied
    <3>1. l[j].len \in Nat /\ bo[j - 1] \in Nat /\ bo[j] \in Nat /\ bo[j] <= Len(b)
          /\ bo[j] = bo[j - 1] + l[j].len /\ bo[q] <= bo[j - 1]
      <4>1. l[j].len \in Nat
        BY <1>0, <2>1
      <4>2. bo[q] <= bo[j - 1]
        BY <1>6, <2>1
      <4>3. n \in 0 .. n
        BY <1>1
      <4> QED
        BY <1>1, <2>1, <4>1, <4>2, <4>3
    <3> DEFINE e == bo[j - 1] - bo[q] + h
    <3>2. e \in 1 .. Len(b) - bo[q] /\ bo[q] + e = bo[j - 1] + h
      <4> DEFINE c == bo[j - 1]
                 d == bo[q]
                 f == l[j].len
      <4>1. /\ c \in Nat /\ d \in Nat /\ f \in Nat /\ d <= c /\ c + f <= Len(b)
            /\ Len(b) \in Nat /\ h \in 1 .. f
        BY <1>1, <1>3, <3>1
      <4> HIDE DEF c, d, f
      <4>2. c - d + h \in 1 .. Len(b) - d /\ d + (c - d + h) = c + h
        BY <4>1
      <4> QED
        BY <4>2 DEF c, d
    <3>3. y[i - 1] + h = e
      BY <2>2
    <3> HIDE DEF e
    <3>4. b2[e] = b[bo[j - 1] + h]
      BY <1>5, <3>2
    <3> QED
      BY <2>4, <3>3, <3>4 DEF Copied
  <2> QED
    BY <2>1, <2>3, <2>4
<1>10. Sequence(l2, x, off)
  <2>1. \A i, j \in 1 .. n : i < j /\ pos[i] # 0 /\ pos[j] # 0 => pos[i] < pos[j]
    BY DEF View, Sequence, n
  <2>2. \A i \in 1 .. n - 1 : Follow(pos[i], pos[i + 1], l[i].len, off)
    BY DEF View, Sequence, n
  <2>3. \A i, j \in 1 .. n - q : i < j => q + i < q + j
    BY <1>1, <1>2
  <2>4. \A i, j \in 1 .. n - q : i < j /\ x[i] # 0 /\ x[j] # 0 => x[i] < x[j]
    BY <1>6, <2>1, <2>3
  <2>5. ASSUME NEW i \in 1 .. (n - q) - 1 PROVE Follow(x[i], x[i + 1], l2[i].len, off)
    <3>1. i \in 1 .. n - q /\ i + 1 \in 1 .. n - q /\ q + i \in 1 .. n - 1
          /\ q + (i + 1) = (q + i) + 1
      BY <1>1, <1>2
    <3>2. Follow(pos[q + i], pos[(q + i) + 1], l[q + i].len, off)
      BY <2>2, <3>1
    <3>3. x[i] = pos[q + i] /\ x[i + 1] = pos[(q + i) + 1] /\ l2[i] = l[q + i]
      BY <1>4, <1>6, <3>1
    <3> QED
      BY <3>2, <3>3
  <2> QED
    BY <1>4, <2>4, <2>5 DEF Sequence
<1> QED
  BY <1>4, <1>6, <1>8, <1>9, <1>10 DEF View, l2, b2, x, y, n

(* The parts of a view, to be cited together.                              *)
ViewFacts(l, b, w, pos, bo, top, ps, st, off, bytes) ==
  /\ l \in Seq(SegmentType) /\ b \in Seq(Nat) /\ Len(l) \in Nat /\ Len(b) \in Nat
  /\ w \in 0 .. Len(l) /\ w \in Nat /\ w <= Len(l)
  /\ pos \in [1 .. Len(l) -> 0 .. top] /\ bo \in [0 .. Len(l) -> Nat]
  /\ bo[0] = 0 /\ bo[Len(l)] = Len(b)
  /\ \A i \in 1 .. Len(l) : bo[i] = bo[i - 1] + l[i].len
  /\ \A i, j \in 0 .. Len(l) : i <= j => bo[i] <= bo[j]
  /\ w # 0 => l[w].len < Full
  /\ \A i \in w + 1 .. Len(l) : l[i].len = Full
  /\ \A i \in 1 .. Len(l) : l[i] \in SegmentType /\ l[i].len \in Nat
  /\ \A i \in 0 .. Len(l) : bo[i] \in Nat /\ bo[i] <= Len(b)
  /\ \A i \in 1 .. Len(l) :
       /\ i - 1 \in 0 .. Len(l) /\ i \in 0 .. Len(l)
       /\ pos[i] \in 0 .. top /\ pos[i] \in Nat
       /\ pos[i] = 0 => l[i].hole /\ l[i].len = 0
       /\ pos[i] # 0 => /\ Entry(l[i], pos[i], ps, st, off)
                        /\ Copied(b, bo[i - 1], l[i].len, bytes, off[pos[i] - 1])
  /\ \A i, j \in 1 .. Len(l) : i < j /\ pos[i] # 0 /\ pos[j] # 0 => pos[i] < pos[j]
  /\ \A i \in 1 .. Len(l) - 1 : Follow(pos[i], pos[i + 1], l[i].len, off)

(* What the decoder's view says, one fact at a time. *)
LEMMA ViewIs ==
  ASSUME NEW l, NEW b, NEW w, NEW pos, NEW bo, NEW top \in Nat, NEW ps, NEW st, NEW off,
         NEW bytes, View(l, b, w, pos, bo, top, ps, st, off, bytes)
  PROVE  ViewFacts(l, b, w, pos, bo, top, ps, st, off, bytes)
<1> DEFINE n == Len(l)
<1>1. /\ l \in Seq(SegmentType) /\ b \in Seq(Nat) /\ n \in Nat /\ Len(b) \in Nat
      /\ w \in 0 .. n
      /\ pos \in [1 .. n -> 0 .. top] /\ bo \in [0 .. n -> Nat]
      /\ bo[0] = 0 /\ bo[n] = Len(b)
      /\ \A i \in 1 .. n : bo[i] = bo[i - 1] + l[i].len
      /\ \A i, j \in 0 .. n : i <= j => bo[i] <= bo[j]
      /\ w # 0 => l[w].len < Full
      /\ \A i \in w + 1 .. n : l[i].len = Full
  BY LenProperties DEF View, Shape
<1>2. \A i \in 1 .. n : l[i] \in SegmentType
  <2>1. l \in Seq(SegmentType)
    BY <1>1
  <2> QED
    BY <2>1, ElementOfSeq
<1>3. /\ \A i \in 1 .. n :
              /\ pos[i] = 0 => l[i].hole /\ l[i].len = 0
              /\ pos[i] # 0 => /\ Entry(l[i], pos[i], ps, st, off)
                               /\ Copied(b, bo[i - 1], l[i].len, bytes, off[pos[i] - 1])
      /\ \A i, j \in 1 .. n : i < j /\ pos[i] # 0 /\ pos[j] # 0 => pos[i] < pos[j]
      /\ \A i \in 1 .. n - 1 : Follow(pos[i], pos[i + 1], l[i].len, off)
  BY DEF View, Filling, Sequence
<1> HIDE DEF n
<1>4. \A i \in 1 .. n : l[i].len \in Nat
  BY <1>2 DEF SegmentType
<1>5. w \in Nat /\ w <= n
  BY <1>1
<1>6. \A i \in 0 .. n : bo[i] \in Nat /\ bo[i] <= Len(b)
  <2>1. \A i \in 0 .. n : n \in 0 .. n /\ i <= n
    BY <1>1
  <2> QED
    BY <1>1, <2>1
<1>7. \A i \in 1 .. n : /\ i - 1 \in 0 .. n /\ i \in 0 .. n
                        /\ pos[i] \in 0 .. top /\ pos[i] \in Nat
  BY <1>1
<1> QED
  BY <1>1, <1>2, <1>3, <1>4, <1>5, <1>6, <1>7 DEF n, ViewFacts

(* What is behind the last end of a packet fills the rest of the bytes.    *)
Rest(l, q, b, bo) == LacedBytes(Drop(l, q)) = Len(b) - bo[q]

(* The lacing values the decoder still holds from q on, and the bytes they *)
(* stand for.                                                              *)
LEMMA ViewRest ==
  ASSUME NEW l, NEW b, NEW w, NEW pos, NEW bo, NEW top \in Nat, NEW ps, NEW st, NEW off,
         NEW bytes, View(l, b, w, pos, bo, top, ps, st, off, bytes), NEW q \in 0 .. Len(l)
  PROVE  Rest(l, q, b, bo)
<1>1. /\ l \in Seq(SegmentType) /\ Len(l) \in Nat /\ bo[Len(l)] = Len(b)
      /\ \A i \in 1 .. Len(l) : bo[i] = bo[i - 1] + l[i].len
      /\ \A i \in 1 .. Len(l) : l[i].len \in Nat
      /\ \A i \in 0 .. Len(l) : bo[i] \in Nat
      /\ \A i \in 1 .. Len(l) : i - 1 \in 0 .. Len(l) /\ i \in 0 .. Len(l)
  <2>1. ViewFacts(l, b, w, pos, bo, top, ps, st, off, bytes)
    BY ViewIs
  <2> QED
    BY <2>1 DEF ViewFacts
<1> DEFINE n == Len(l)
<1> HIDE DEF n
<1>2. q + 1 \in 1 .. n + 1 /\ n \in (q + 1) - 1 .. n /\ (q + 1) - 1 = q /\ q \in 0 .. n
  BY <1>1 DEF n
<1>3. \A i \in (q + 1) - 1 .. n : bo[i] \in Nat
  BY <1>1, <1>2 DEF n
<1>4. \A i \in q + 1 .. n : l[i].len = bo[i] - bo[i - 1]
  <2> SUFFICES ASSUME NEW i \in q + 1 .. n PROVE l[i].len = bo[i] - bo[i - 1]
    OBVIOUS
  <2> DEFINE c == bo[i]
             d == bo[i - 1]
             e == l[i].len
  <2>1. i \in 1 .. n
    BY <1>1, <1>2 DEF n
  <2>2. c = d + e /\ c \in Nat /\ d \in Nat /\ e \in Nat
    BY <1>1, <2>1 DEF n
  <2> HIDE DEF c, d, e
  <2>3. e = c - d
    BY <2>2
  <2> QED
    BY <2>3 DEF c, d, e
<1>5. LacedBytes(SubSeq(l, q + 1, n)) = bo[n] - bo[(q + 1) - 1]
  <2> DEFINE p == q + 1
  <2>1. /\ l \in Seq(SegmentType) /\ p \in 1 .. Len(l) + 1 /\ n \in p - 1 .. Len(l)
        /\ \A i \in p - 1 .. n : bo[i] \in Nat
        /\ \A i \in p .. n : l[i].len = bo[i] - bo[i - 1]
    BY <1>1, <1>2, <1>3, <1>4 DEF n
  <2> HIDE DEF p
  <2>2. LacedBytes(SubSeq(l, p, n)) = bo[n] - bo[p - 1]
    BY ONLY <2>1, LacedPiece
  <2> QED
    BY <2>2 DEF p
<1> QED
  BY <1>1, <1>2, <1>5 DEF Drop, n, Rest

HolePos(pos, w) == [i \in 1 .. w + 1 |-> IF i = w + 1 THEN 0 ELSE pos[i]]
HoleBytes(bo, w) == [i \in 0 .. w + 1 |-> IF i = w + 1 THEN bo[w] ELSE bo[i]]

(* The mark ogg_stream_pagein leaves for a missing page: a lacing value of *)
(* no bytes with the hole flag.                                            *)
LEMMA HoleMarkIs ==
  HoleMark \in SegmentType /\ HoleMark.hole /\ HoleMark.len = 0
<1> DEFINE s == [len |-> 0, granule |-> -1, first |-> FALSE, last |-> FALSE, hole |-> FALSE]
           z == [s EXCEPT !.hole = TRUE]
<1>1. s \in SegmentType /\ s.len = 0
  BY DEF SegmentType
<1>2. HoleMark = z
  BY DEF HoleMark, Segment
<1> HIDE DEF s
<1>3. z \in SegmentType /\ z.hole /\ z.len = 0
  BY <1>1 DEF SegmentType
<1> QED
  BY <1>2, <1>3

(* The packet at the end is taken back, and a hole follows.                *)
LEMMA ViewHole ==
  ASSUME NEW l, NEW b, NEW w, NEW pos, NEW bo, NEW top \in Nat, NEW ps, NEW st, NEW off,
         NEW bytes, View(l, b, w, pos, bo, top, ps, st, off, bytes)
  PROVE  /\ View(Append(Take(l, w), HoleMark), Take(b, bo[w]), w + 1, HolePos(pos, w),
                 HoleBytes(bo, w), top, ps, st, off, bytes)
         /\ Len(Append(Take(l, w), HoleMark)) = w + 1 /\ w \in Nat
         /\ Append(Take(l, w), HoleMark)[w + 1] = HoleMark
         /\ HolePos(pos, w)[w + 1] = 0
         /\ \A i \in 1 .. w : i \in 1 .. Len(l) /\ HolePos(pos, w)[i] = pos[i]
<1> DEFINE n == Len(l)
           t == Take(l, w)
           l2 == Append(t, HoleMark)
           b2 == Take(b, bo[w])
           x == HolePos(pos, w)
           y == HoleBytes(bo, w)
<1>1. /\ l \in Seq(SegmentType) /\ b \in Seq(Nat) /\ n \in Nat /\ Len(b) \in Nat
      /\ w \in 0 .. n /\ w \in Nat /\ w <= n
      /\ bo[0] = 0
      /\ \A i \in 1 .. n : bo[i] = bo[i - 1] + l[i].len
      /\ \A i, j \in 0 .. n : i <= j => bo[i] <= bo[j]
      /\ w # 0 => l[w].len < Full
      /\ \A i \in 1 .. n : l[i] \in SegmentType /\ l[i].len \in Nat
      /\ \A i \in 0 .. n : bo[i] \in Nat /\ bo[i] <= Len(b)
      /\ \A i \in 1 .. n :
              /\ i - 1 \in 0 .. n /\ i \in 0 .. n
              /\ pos[i] \in 0 .. top /\ pos[i] \in Nat
              /\ pos[i] = 0 => l[i].hole /\ l[i].len = 0
              /\ pos[i] # 0 => /\ Entry(l[i], pos[i], ps, st, off)
                               /\ Copied(b, bo[i - 1], l[i].len, bytes, off[pos[i] - 1])
      /\ \A i, j \in 1 .. n : i < j /\ pos[i] # 0 /\ pos[j] # 0 => pos[i] < pos[j]
      /\ \A i \in 1 .. n - 1 : Follow(pos[i], pos[i + 1], l[i].len, off)
  <2>1. ViewFacts(l, b, w, pos, bo, top, ps, st, off, bytes)
    BY ViewIs
  <2> QED
    BY <2>1 DEF ViewFacts
<1>2. /\ t \in Seq(SegmentType) /\ Len(t) = w /\ \A i \in 1 .. w : t[i] = l[i]
  <2>1. l \in Seq(SegmentType) /\ w \in 0 .. Len(l)
    BY <1>1
  <2> QED
    BY ONLY <2>1, TakeIs
<1> HIDE DEF n, t
<1>3. /\ l2 \in Seq(SegmentType) /\ Len(l2) = w + 1 /\ l2[w + 1] = HoleMark
      /\ \A i \in 1 .. w : l2[i] = l[i]
  <2>1. t \in Seq(SegmentType) /\ HoleMark \in SegmentType
    BY <1>2, HoleMarkIs
  <2>2. /\ l2 \in Seq(SegmentType) /\ Len(l2) = Len(t) + 1 /\ l2[Len(t) + 1] = HoleMark
        /\ \A i \in 1 .. Len(t) : l2[i] = t[i]
    BY ONLY <2>1, AppendIs
  <2> QED
    BY <1>2, <2>2
<1>4. /\ bo[w] \in Nat /\ bo[w] <= Len(b)
      /\ b2 \in Seq(Nat) /\ Len(b2) = bo[w] /\ \A i \in 1 .. bo[w] : b2[i] = b[i]
  <2> DEFINE o == bo[w]
  <2>1. o \in Nat /\ o <= Len(b) /\ o \in 0 .. Len(b) /\ b \in Seq(Nat)
    BY <1>1
  <2> HIDE DEF o
  <2>2. Take(b, o) \in Seq(Nat) /\ Len(Take(b, o)) = o /\ \A i \in 1 .. o : Take(b, o)[i] = b[i]
    BY <2>1, TakeIs
  <2> QED
    BY <2>1, <2>2 DEF o
<1> HIDE DEF l2, b2
<1>5. /\ w + 1 \in 0 .. w + 1 /\ w + 1 \in 1 .. w + 1 /\ w \in 0 .. w
      /\ \A i \in 1 .. w : /\ i \in 1 .. n /\ i \in 1 .. w + 1 /\ i # w + 1
                           /\ i \in 0 .. w /\ i - 1 \in 0 .. w
      /\ \A i \in 0 .. w : i \in 0 .. n /\ i \in 0 .. w + 1 /\ i # w + 1 /\ i <= w
      /\ \A i \in 1 .. w + 1 : i \in 1 .. w \/ i = w + 1
      /\ \A i \in 0 .. w + 1 : i \in 0 .. w \/ i = w + 1
      /\ 0 \in 0 .. w /\ (w + 1) - 1 = w
  BY <1>1
<1>6. /\ x[w + 1] = 0 /\ \A i \in 1 .. w : x[i] = pos[i]
      /\ y[w + 1] = bo[w] /\ \A i \in 0 .. w : y[i] = bo[i]
  BY <1>5 DEF HolePos, HoleBytes
<1>7. x \in [1 .. w + 1 -> 0 .. top] /\ y \in [0 .. w + 1 -> Nat]
  <2>1. x = [i \in 1 .. w + 1 |-> x[i]] /\ y = [i \in 0 .. w + 1 |-> y[i]]
    BY DEF HolePos, HoleBytes
  <2> HIDE DEF x, y
  <2>2. \A i \in 1 .. w + 1 : x[i] \in 0 .. top
    <3>1. \A i \in 1 .. w : x[i] \in 0 .. top
      BY <1>1, <1>5, <1>6
    <3>2. x[w + 1] \in 0 .. top
      BY <1>6
    <3> QED
      BY <1>5, <3>1, <3>2
  <2>3. \A i \in 0 .. w + 1 : y[i] \in Nat
    BY <1>1, <1>5, <1>6
  <2> QED
    BY <2>1, <2>2, <2>3
<1> HIDE DEF x, y
<1>8. Shape(l2, b2, w + 1, x, y, top)
  <2>1. \A i \in 1 .. w + 1 : y[i] = y[i - 1] + l2[i].len
    <3>1. ASSUME NEW i \in 1 .. w PROVE y[i] = y[i - 1] + l2[i].len
      BY <1>1, <1>3, <1>5, <1>6
    <3>2. y[w + 1] = y[(w + 1) - 1] + l2[w + 1].len
      <4>1. y[w + 1] = bo[w] /\ y[(w + 1) - 1] = bo[w] /\ l2[w + 1].len = 0
        BY <1>3, <1>5, <1>6, HoleMarkIs
      <4> QED
        BY <1>4, <4>1
    <3> QED
      BY <1>5, <3>1, <3>2
  <2>2. ASSUME NEW i \in 0 .. w + 1, NEW j \in 0 .. w + 1, i <= j PROVE y[i] <= y[j]
    <3>1. CASE j \in 0 .. w
      <4>1. i \in 0 .. w
        BY <1>1, <2>2, <3>1
      <4> QED
        BY <1>1, <1>5, <1>6, <2>2, <3>1, <4>1
    <3>2. CASE j = w + 1 /\ i \in 0 .. w
      BY <1>1, <1>5, <1>6, <3>2
    <3>3. CASE j = w + 1 /\ i = w + 1
      BY <1>4, <1>6, <3>3
    <3> QED
      BY <1>5, <3>1, <3>2, <3>3
  <2>3. y[0] = 0 /\ y[w + 1] = Len(b2)
    BY <1>1, <1>4, <1>5, <1>6
  <2>4. l2[w + 1].len < Full
    BY <1>3, HoleMarkIs, SizeAssumption
  <2>5. \A i \in (w + 1) + 1 .. w + 1 : l2[i].len = Full
    BY <1>1
  <2> QED
    BY <1>3, <1>4, <1>5, <1>7, <2>1, <2>2, <2>3, <2>4, <2>5 DEF Shape
<1>9. Filling(l2, b2, x, y, ps, st, off, bytes)
  <2> SUFFICES ASSUME NEW i \in 1 .. w + 1
               PROVE  /\ x[i] = 0 => l2[i].hole /\ l2[i].len = 0
                      /\ x[i] # 0 => /\ Entry(l2[i], x[i], ps, st, off)
                                     /\ Copied(b2, y[i - 1], l2[i].len, bytes, off[x[i] - 1])
    BY <1>3 DEF Filling
  <2>1. CASE i = w + 1
    BY <1>3, <1>6, <2>1, HoleMarkIs
  <2>2. CASE i \in 1 .. w
    <3>1. x[i] = pos[i] /\ l2[i] = l[i] /\ y[i - 1] = bo[i - 1] /\ i \in 1 .. n
      BY <1>3, <1>5, <1>6, <2>2
    <3>2. ASSUME NEW o, Copied(b, bo[i - 1], l[i].len, bytes, o)
          PROVE  Copied(b2, bo[i - 1], l[i].len, bytes, o)
      <4> SUFFICES ASSUME NEW h \in 1 .. l[i].len PROVE b2[bo[i - 1] + h] = bytes[o + h]
        BY DEF Copied
      <4>1. /\ bo[i] = bo[i - 1] + l[i].len /\ bo[i - 1] \in Nat /\ bo[i] <= bo[w]
            /\ l[i].len \in Nat /\ bo[w] \in Nat /\ bo[i] \in Nat
        BY <1>1, <1>4, <1>5, <2>2, <3>1
      <4> DEFINE e == bo[i - 1] + h
      <4>2. e \in 1 .. bo[w]
        <5> DEFINE c == bo[i - 1]
                   d == l[i].len
                   f == bo[w]
        <5>1. c \in Nat /\ d \in Nat /\ f \in Nat /\ c + d <= f /\ h \in 1 .. d
          BY <4>1
        <5> HIDE DEF c, d, f
        <5>2. c + h \in 1 .. f
          BY <5>1
        <5> QED
          BY <5>2 DEF c, f
      <4> HIDE DEF e
      <4>3. b2[e] = b[e]
        BY <1>4, <4>2
      <4> QED
        BY <3>2, <4>3 DEF e, Copied
    <3> QED
      BY <1>1, <3>1, <3>2
  <2> QED
    BY <1>5, <2>1, <2>2
<1>10. Sequence(l2, x, off)
  <2>1. ASSUME NEW i \in 1 .. w + 1, NEW j \in 1 .. w + 1, i < j, x[i] # 0, x[j] # 0
        PROVE  x[i] < x[j]
    <3>1. i \in 1 .. w /\ j \in 1 .. w
      BY <1>5, <1>6, <2>1
    <3> QED
      BY <1>1, <1>5, <1>6, <2>1, <3>1
  <2>2. ASSUME NEW i \in 1 .. (w + 1) - 1 PROVE Follow(x[i], x[i + 1], l2[i].len, off)
    <3>1. i \in 1 .. w
      BY <1>1
    <3>2. CASE i = w
      <4>1. x[i + 1] = 0 /\ l2[i] = l[w] /\ l[w].len < Full
        BY <1>1, <1>3, <1>6, <3>1, <3>2
      <4> QED
        BY <4>1 DEF Follow
    <3>3. CASE i # w
      <4>1. i + 1 \in 1 .. w /\ i \in 1 .. n - 1
        BY <1>1, <3>1, <3>3
      <4>2. x[i] = pos[i] /\ x[i + 1] = pos[i + 1] /\ l2[i] = l[i]
        BY <1>3, <1>6, <3>1, <4>1
      <4> QED
        BY <1>1, <4>1, <4>2
    <3> QED
      BY <3>2, <3>3
  <2> QED
    BY <1>3, <2>1, <2>2 DEF Sequence
<1>11. View(l2, b2, w + 1, x, y, top, ps, st, off, bytes)
  BY <1>8, <1>9, <1>10 DEF View
<1> QED
  BY <1>1, <1>3, <1>5, <1>6, <1>11 DEF l2, b2, x, y, t, n

JoinedPos(pos, n, g, m) == [i \in 1 .. n + m |-> IF i <= n THEN pos[i] ELSE g + (i - n)]
JoinedBytes(bo, n, o, off, g, m) ==
  [i \in 0 .. n + m |-> IF i <= n THEN bo[i] ELSE (o + off[g + (i - n)]) - off[g]]

(* l2 is l, flags of holes apart, and segments g + 1 to g + m; c has their
   bytes.                                                                  *)
Longer(l, l2, c, w2, pos, top, g, m, ps, st, off, bytes) ==
  /\ top <= g /\ g + m <= Total(ps, st)
  /\ l2 \in Seq(SegmentType) /\ Len(l2) = Len(l) + m
  /\ \A i \in 1 .. Len(l) : /\ l2[i].len = l[i].len
                            /\ pos[i] = 0 => l2[i].hole
                            /\ pos[i] # 0 => Entry(l2[i], pos[i], ps, st, off)
  /\ \A k \in 1 .. m : Entry(l2[Len(l) + k], g + k, ps, st, off)
  /\ Len(l) # 0 /\ m # 0 => Follow(pos[Len(l)], g + 1, l[Len(l)].len, off)
  /\ c \in Seq(Nat) /\ Len(c) = off[g + m] - off[g]
  /\ Copied(c, 0, off[g + m] - off[g], bytes, off[g])
  /\ w2 \in 0 .. Len(l) + m
  /\ w2 # 0 => l2[w2].len < Full
  /\ \A i \in w2 + 1 .. Len(l) + m : l2[i].len = Full

Joins(l, l2, b2, w2, pos, bo, o, g, m, ps, st, off, bytes) ==
  /\ View(l2, b2, w2, JoinedPos(pos, Len(l), g, m),
          JoinedBytes(bo, Len(l), o, off, g, m), g + m, ps, st, off, bytes)
  /\ Len(l) \in Nat
  /\ \A i \in 1 .. Len(l) : JoinedPos(pos, Len(l), g, m)[i] = pos[i]
  /\ \A k \in 1 .. m : JoinedPos(pos, Len(l), g, m)[Len(l) + k] = g + k

(* Segments g + 1 to g + m of the stream follow a view.                    *)
LEMMA ViewJoin ==
  ASSUME NEW l, NEW b, NEW w, NEW pos, NEW bo, NEW top \in Nat, NEW ps, NEW st, NEW off,
         NEW bytes, View(l, b, w, pos, bo, top, ps, st, off, bytes),
         Offsets(Total(ps, st), off, bytes), Total(ps, st) \in Nat,
         NEW g \in Nat, NEW m \in Nat, NEW l2, NEW c, NEW w2,
         Longer(l, l2, c, w2, pos, top, g, m, ps, st, off, bytes)
  PROVE  Joins(l, l2, b \o c, w2, pos, bo, Len(b), g, m, ps, st, off, bytes)
<1> DEFINE n == Len(l)
           o == Len(b)
           b2 == b \o c
           x == JoinedPos(pos, n, g, m)
           y == JoinedBytes(bo, n, o, off, g, m)
           t == Total(ps, st)
<1>0. /\ top <= g /\ g + m <= t
      /\ l2 \in Seq(SegmentType) /\ Len(l2) = n + m
      /\ \A i \in 1 .. n : /\ l2[i].len = l[i].len
                           /\ pos[i] = 0 => l2[i].hole
                           /\ pos[i] # 0 => Entry(l2[i], pos[i], ps, st, off)
      /\ \A k \in 1 .. m : Entry(l2[n + k], g + k, ps, st, off)
      /\ n # 0 /\ m # 0 => Follow(pos[n], g + 1, l[n].len, off)
      /\ c \in Seq(Nat) /\ Len(c) = off[g + m] - off[g]
      /\ Copied(c, 0, off[g + m] - off[g], bytes, off[g])
      /\ w2 \in 0 .. n + m
      /\ w2 # 0 => l2[w2].len < Full
      /\ \A i \in w2 + 1 .. n + m : l2[i].len = Full
  BY DEF Longer
<1>1. /\ l \in Seq(SegmentType) /\ b \in Seq(Nat) /\ n \in Nat /\ o \in Nat
      /\ bo[0] = 0 /\ bo[n] = o
      /\ \A i \in 1 .. n : bo[i] = bo[i - 1] + l[i].len
      /\ \A i, j \in 0 .. n : i <= j => bo[i] <= bo[j]
      /\ \A i \in 1 .. n : l[i].len \in Nat
      /\ \A i \in 0 .. n : bo[i] \in Nat /\ bo[i] <= o
      /\ \A i \in 1 .. n :
              /\ i - 1 \in 0 .. n /\ i \in 0 .. n
              /\ pos[i] \in 0 .. top /\ pos[i] \in Nat
              /\ pos[i] = 0 => l[i].hole /\ l[i].len = 0
              /\ pos[i] # 0 => Copied(b, bo[i - 1], l[i].len, bytes, off[pos[i] - 1])
      /\ \A i, j \in 1 .. n : i < j /\ pos[i] # 0 /\ pos[j] # 0 => pos[i] < pos[j]
      /\ \A i \in 1 .. n - 1 : Follow(pos[i], pos[i + 1], l[i].len, off)
  <2>1. ViewFacts(l, b, w, pos, bo, top, ps, st, off, bytes)
    BY ViewIs
  <2> QED
    BY <2>1 DEF ViewFacts
<1>2. \A k \in 0 .. m : /\ g + k \in 0 .. t /\ off[g + k] \in Nat /\ off[g] \in Nat
                        /\ off[g] <= off[g + k]
                        /\ \A h \in 0 .. m : k <= h => off[g + k] <= off[g + h]
  <2>1. /\ \A u \in 0 .. t : off[u] \in Nat
        /\ \A u, v \in 0 .. t : u <= v => off[u] <= off[v]
    BY DEF Offsets
  <2>2. \A k \in 0 .. m : g + k \in 0 .. t /\ g \in 0 .. t /\ g <= g + k
    BY <1>0
  <2>3. \A k, h \in 0 .. m : k <= h => g + k <= g + h
    OBVIOUS
  <2> HIDE DEF t
  <2> QED
    BY <2>1, <2>2, <2>3
<1>3. /\ b2 \in Seq(Nat) /\ Len(b2) = o + Len(c)
      /\ \A i \in 1 .. o : b2[i] = b[i]
      /\ \A i \in 1 .. Len(c) : b2[o + i] = c[i]
  <2>1. b \in Seq(Nat) /\ c \in Seq(Nat)
    BY <1>0, <1>1
  <2> QED
    BY ONLY <2>1, Joined
<1>4. /\ \A i \in 1 .. n : l2[i].len = l[i].len
      /\ Len(l2) = n + m /\ w2 \in 0 .. n + m
      /\ \A i \in w2 + 1 .. n + m : l2[i].len = Full
      /\ n # 0 /\ m # 0 => Follow(pos[n], g + 1, l[n].len, off)
      /\ \A i \in 1 .. n : /\ pos[i] = 0 => l2[i].hole
                           /\ pos[i] # 0 => Entry(l2[i], pos[i], ps, st, off)
      /\ \A k \in 1 .. m : Entry(l2[n + k], g + k, ps, st, off)
  BY <1>0
<1> HIDE DEF n, o, b2, t
<1>5. /\ \A i \in 1 .. n : x[i] = pos[i]
      /\ \A k \in 1 .. m : x[n + k] = g + k
      /\ \A i \in 0 .. n : y[i] = bo[i]
      /\ \A k \in 1 .. m : y[n + k] = (o + off[g + k]) - off[g]
  <2>1. /\ \A i \in 1 .. n : i \in 1 .. n + m /\ i <= n
        /\ \A i \in 0 .. n : i \in 0 .. n + m /\ i <= n
        /\ \A k \in 1 .. m : /\ n + k \in 1 .. n + m /\ n + k \in 0 .. n + m
                             /\ ~(n + k <= n) /\ (n + k) - n = k
    BY <1>1
  <2> QED
    BY <2>1 DEF JoinedPos, JoinedBytes
<1>6. \A i \in 1 .. n + m : i \in 1 .. n \/ \E k \in 1 .. m : i = n + k
  <2>1. \A i \in 1 .. n + m : i \in 1 .. n \/ (i - n \in 1 .. m /\ i = n + (i - n))
    BY <1>1
  <2> QED
    BY <2>1
<1>7. \A i \in 0 .. n + m : i \in 0 .. n \/ \E k \in 1 .. m : i = n + k
  <2>1. \A i \in 0 .. n + m : i \in 0 .. n \/ (i - n \in 1 .. m /\ i = n + (i - n))
    BY <1>1
  <2> QED
    BY <2>1
<1>8. \A k \in 0 .. m : (o + off[g + k]) - off[g] \in Nat /\ o <= (o + off[g + k]) - off[g]
  <2> SUFFICES ASSUME NEW k \in 0 .. m
               PROVE  (o + off[g + k]) - off[g] \in Nat /\ o <= (o + off[g + k]) - off[g]
    OBVIOUS
  <2> DEFINE d == off[g + k]
             f == off[g]
  <2>1. d \in Nat /\ f \in Nat /\ f <= d /\ o \in Nat
    BY <1>1, <1>2
  <2> HIDE DEF d, f
  <2>2. (o + d) - f \in Nat /\ o <= (o + d) - f
    BY ONLY <2>1
  <2> QED
    BY <2>2 DEF d, f
<1>9. x \in [1 .. n + m -> 0 .. g + m] /\ y \in [0 .. n + m -> Nat]
  <2>1. x = [i \in 1 .. n + m |-> x[i]] /\ y = [i \in 0 .. n + m |-> y[i]]
    BY DEF JoinedPos, JoinedBytes
  <2> HIDE DEF x, y
  <2>2. \A i \in 1 .. n + m : x[i] \in 0 .. g + m
    <3>0. \A e \in 0 .. top : e \in 0 .. g + m
      BY <1>0
    <3>1. \A i \in 1 .. n : x[i] \in 0 .. g + m
      BY <1>1, <1>5, <3>0
    <3>2. \A k \in 1 .. m : x[n + k] \in 0 .. g + m
      BY <1>5
    <3> QED
      BY <1>6, <3>1, <3>2
  <2>3. \A i \in 0 .. n + m : y[i] \in Nat
    <3>1. \A i \in 0 .. n : y[i] \in Nat
      BY <1>1, <1>5
    <3>2. ASSUME NEW k \in 1 .. m PROVE y[n + k] \in Nat
      <4>1. k \in 0 .. m
        OBVIOUS
      <4>2. (o + off[g + k]) - off[g] \in Nat
        BY <1>8, <4>1
      <4> QED
        BY <1>5, <4>2
    <3> QED
      BY <1>7, <3>1, <3>2
  <2> QED
    BY <2>1, <2>2, <2>3
<1> HIDE DEF x, y
<1>10. ASSUME NEW k \in 1 .. m
       PROVE  /\ l2[n + k].len = off[g + k] - off[(g + k) - 1]
              /\ y[(n + k) - 1] = (o + off[(g + k) - 1]) - off[g]
              /\ off[(g + k) - 1] \in Nat /\ off[g + k] \in Nat /\ off[g] \in Nat
              /\ off[g] <= off[(g + k) - 1] /\ off[(g + k) - 1] <= off[g + k]
              /\ off[g + k] <= off[g + m]
  <2>1. l2[n + k].len = off[g + k] - off[(g + k) - 1]
    BY <1>4 DEF Entry
  <2>2. /\ k - 1 \in 0 .. m /\ k \in 0 .. m /\ m \in 0 .. m /\ g + (k - 1) = (g + k) - 1
        /\ n + (k - 1) = (n + k) - 1 /\ k - 1 <= k /\ k <= m
    BY <1>1
  <2>3. /\ off[(g + k) - 1] \in Nat /\ off[g + k] \in Nat /\ off[g] \in Nat
        /\ off[g] <= off[(g + k) - 1] /\ off[(g + k) - 1] <= off[g + k]
        /\ off[g + k] <= off[g + m]
    BY <1>2, <2>2
  <2>4. y[(n + k) - 1] = (o + off[(g + k) - 1]) - off[g]
    <3>1. CASE k = 1
      <4>1. (n + k) - 1 = n /\ n \in 0 .. n /\ (g + k) - 1 = g
        BY <1>1, <3>1
      <4>2. y[(n + k) - 1] = o /\ off[(g + k) - 1] = off[g]
        BY <1>1, <1>5, <4>1
      <4> QED
        BY <1>1, <2>3, <4>2
    <3>2. CASE k # 1
      <4>1. k - 1 \in 1 .. m
        BY <3>2
      <4> QED
        BY <1>5, <2>2, <4>1
    <3> QED
      BY <3>1, <3>2
  <2> QED
    BY <2>1, <2>3, <2>4
<1>11. Shape(l2, b2, w2, x, y, g + m)
  <2>1. \A i \in 1 .. n + m : y[i] = y[i - 1] + l2[i].len
    <3>1. ASSUME NEW i \in 1 .. n PROVE y[i] = y[i - 1] + l2[i].len
      BY <1>1, <1>4, <1>5
    <3>2. ASSUME NEW k \in 1 .. m PROVE y[n + k] = y[(n + k) - 1] + l2[n + k].len
      <4> DEFINE d == off[(g + k) - 1]
                 e == off[g + k]
                 f == off[g]
      <4>1. /\ y[n + k] = (o + e) - f /\ y[(n + k) - 1] = (o + d) - f
            /\ l2[n + k].len = e - d /\ d \in Nat /\ e \in Nat /\ f \in Nat
        BY <1>5, <1>10
      <4> HIDE DEF d, e, f
      <4> QED
        BY <1>1, <4>1
    <3> QED
      BY <1>6, <3>1, <3>2
  <2>2. ASSUME NEW i \in 0 .. n + m, NEW j \in 0 .. n + m, i <= j PROVE y[i] <= y[j]
    <3>1. CASE j \in 0 .. n
      <4>1. i \in 0 .. n
        BY <1>1, <2>2, <3>1
      <4> QED
        BY <1>1, <1>5, <2>2, <3>1, <4>1
    <3>2. ASSUME NEW k \in 1 .. m, j = n + k PROVE y[i] <= y[j]
      <4>0. k \in 0 .. m
        OBVIOUS
      <4>1. CASE i \in 0 .. n
        <5>1. y[i] = bo[i] /\ bo[i] <= o /\ bo[i] \in Nat
          BY <1>1, <1>5, <4>1
        <5>2. y[j] \in Nat /\ o <= y[j]
          BY <1>5, <1>8, <3>2, <4>0
        <5> QED
          BY <1>1, <5>1, <5>2
      <4>2. ASSUME NEW h \in 1 .. m, i = n + h PROVE y[i] <= y[j]
        <5>1. h \in 0 .. m /\ h <= k
          BY <1>1, <2>2, <3>2, <4>2
        <5> DEFINE d == off[g + h]
                   e == off[g + k]
                   f == off[g]
        <5>2. d \in Nat /\ e \in Nat /\ f \in Nat /\ d <= e
          BY <1>2, <4>0, <5>1
        <5>3. y[i] = (o + d) - f /\ y[j] = (o + e) - f
          BY <1>5, <3>2, <4>2
        <5>4. o \in Nat
          BY <1>1
        <5> HIDE DEF d, e, f
        <5> QED
          BY ONLY <5>2, <5>3, <5>4
      <4> QED
        BY <1>7, <4>1, <4>2
    <3> QED
      BY <1>7, <3>1, <3>2
  <2>3. y[0] = 0
    <3>1. 0 \in 0 .. n
      BY <1>1
    <3> QED
      BY <1>1, <1>5, <3>1
  <2>4. y[n + m] = Len(b2)
    <3>1. CASE m = 0
      <4>1. n + m = n /\ n \in 0 .. n /\ g + m = g
        BY <1>1, <3>1
      <4>2. off[g] \in Nat
        BY <1>2
      <4> DEFINE f == off[g]
      <4>3. f \in Nat /\ Len(c) = f - f
        BY <1>0, <4>1, <4>2
      <4> HIDE DEF f
      <4>4. Len(c) = 0
        BY <1>0, <4>3
      <4>5. y[n + m] = o
        BY <1>1, <1>5, <4>1
      <4>6. Len(b2) = o + Len(c) /\ o \in Nat
        BY <1>1, <1>3
      <4> QED
        BY ONLY <4>4, <4>5, <4>6
    <3>2. CASE m # 0
      <4>1. m \in 1 .. m
        BY <3>2
      <4>2. y[n + m] = (o + off[g + m]) - off[g] /\ off[g] \in Nat /\ off[g + m] \in Nat
        BY <1>5, <1>10, <4>1
      <4>3. Len(b2) = o + Len(c) /\ o \in Nat /\ Len(c) = off[g + m] - off[g]
        BY <1>0, <1>1, <1>3
      <4> DEFINE d == off[g + m]
                 f == off[g]
      <4>4. /\ y[n + m] = (o + d) - f /\ f \in Nat /\ d \in Nat
            /\ Len(b2) = o + Len(c) /\ o \in Nat /\ Len(c) = d - f
        BY <4>2, <4>3
      <4> HIDE DEF d, f
      <4> QED
        BY ONLY <4>4
    <3> QED
      BY <3>1, <3>2
  <2> QED
    BY <1>0, <1>3, <1>4, <1>9, <2>1, <2>2, <2>3, <2>4 DEF Shape
<1>12. Filling(l2, b2, x, y, ps, st, off, bytes)
  <2> SUFFICES ASSUME NEW i \in 1 .. n + m
               PROVE  /\ x[i] = 0 => l2[i].hole /\ l2[i].len = 0
                      /\ x[i] # 0 => /\ Entry(l2[i], x[i], ps, st, off)
                                     /\ Copied(b2, y[i - 1], l2[i].len, bytes, off[x[i] - 1])
    BY <1>4 DEF Filling
  <2>1. CASE i \in 1 .. n
    <3>1. x[i] = pos[i] /\ l2[i].len = l[i].len /\ y[i - 1] = bo[i - 1]
      BY <1>1, <1>4, <1>5, <2>1
    <3>2. ASSUME NEW v, Copied(b, bo[i - 1], l[i].len, bytes, v)
          PROVE  Copied(b2, bo[i - 1], l[i].len, bytes, v)
      <4> SUFFICES ASSUME NEW h \in 1 .. l[i].len PROVE b2[bo[i - 1] + h] = bytes[v + h]
        BY DEF Copied
      <4> DEFINE e == bo[i - 1] + h
      <4>1. e \in 1 .. o
        <5> DEFINE d == bo[i - 1]
                   f == l[i].len
                   u == bo[i]
        <5>1. d \in Nat /\ f \in Nat /\ u = d + f /\ u <= o /\ h \in 1 .. f
          BY <1>1, <2>1
        <5> HIDE DEF d, f, u
        <5>2. d + h \in 1 .. o
          BY <1>1, <5>1
        <5> QED
          BY <5>2 DEF d
      <4> HIDE DEF e
      <4>2. b2[e] = b[e]
        BY <1>3, <4>1
      <4> QED
        BY <3>2, <4>2 DEF e, Copied
    <3> QED
      BY <1>1, <1>4, <2>1, <3>1, <3>2
  <2>2. ASSUME NEW k \in 1 .. m, i = n + k
        PROVE  /\ x[i] = 0 => l2[i].hole /\ l2[i].len = 0
               /\ x[i] # 0 => /\ Entry(l2[i], x[i], ps, st, off)
                              /\ Copied(b2, y[i - 1], l2[i].len, bytes, off[x[i] - 1])
    <3>1. x[i] = g + k /\ g + k # 0 /\ Entry(l2[i], g + k, ps, st, off)
      BY <1>4, <1>5, <2>2
    <3>2. Copied(b2, y[i - 1], l2[i].len, bytes, off[(g + k) - 1])
      <4> SUFFICES ASSUME NEW h \in 1 .. l2[i].len
                   PROVE  b2[y[i - 1] + h] = bytes[off[(g + k) - 1] + h]
        BY DEF Copied
      <4> DEFINE d == off[(g + k) - 1]
                 e == off[g + k]
                 f == off[g]
                 u == off[g + m]
                 r == l2[i].len
                 q == (d - f) + h
      <4>1. /\ y[i - 1] = (o + d) - f /\ r = e - d
            /\ d \in Nat /\ e \in Nat /\ f \in Nat /\ u \in Nat
            /\ f <= d /\ d <= e /\ e <= u /\ h \in 1 .. r
        <5>1. m \in 0 .. m
          OBVIOUS
        <5>2. u \in Nat
          BY <1>2, <5>1
        <5> QED
          BY <1>10, <2>2, <5>2
      <4>2. Len(c) = u - f /\ \A j \in 1 .. u - f : c[0 + j] = bytes[f + j]
        BY <1>0 DEF Copied
      <4> HIDE DEF d, e, f, u, r
      <4>3. q \in 1 .. u - f /\ 0 + q = q /\ f + q = d + h /\ ((o + d) - f) + h = o + q
        BY <1>0, <1>1, <4>1
      <4> HIDE DEF q
      <4>4. b2[o + q] = c[q] /\ c[q] = bytes[f + q]
        BY <1>3, <4>2, <4>3
      <4> QED
        BY <4>1, <4>3, <4>4 DEF d
    <3> QED
      BY <3>1, <3>2
  <2> QED
    BY <1>6, <2>1, <2>2
<1>13. Sequence(l2, x, off)
  <2>1. ASSUME NEW i \in 1 .. n + m, NEW j \in 1 .. n + m, i < j, x[i] # 0, x[j] # 0
        PROVE  x[i] < x[j]
    <3>1. CASE j \in 1 .. n
      <4>1. i \in 1 .. n
        BY <1>1, <2>1, <3>1
      <4> QED
        BY <1>1, <1>5, <2>1, <3>1, <4>1
    <3>2. ASSUME NEW k \in 1 .. m, j = n + k PROVE x[i] < x[j]
      <4>1. CASE i \in 1 .. n
        <5>1. x[i] \in 0 .. top /\ x[j] = g + k
          BY <1>1, <1>5, <3>2, <4>1
        <5> QED
          BY <1>0, <5>1
      <4>2. ASSUME NEW h \in 1 .. m, i = n + h PROVE x[i] < x[j]
        <5>1. h < k
          BY <1>1, <2>1, <3>2, <4>2
        <5>2. x[i] = g + h /\ x[j] = g + k
          BY <1>5, <3>2, <4>2
        <5> QED
          BY <5>1, <5>2
      <4> QED
        BY <1>6, <4>1, <4>2
    <3> QED
      BY <1>6, <3>1, <3>2
  <2>2. ASSUME NEW i \in 1 .. (n + m) - 1 PROVE Follow(x[i], x[i + 1], l2[i].len, off)
    <3>1. CASE i \in 1 .. n - 1
      <4>0. n \in Nat
        BY <1>1
      <4>1. i \in 1 .. n /\ i + 1 \in 1 .. n
        BY ONLY <3>1, <4>0
      <4>2. Follow(pos[i], pos[i + 1], l[i].len, off)
        BY <1>1, <3>1
      <4>3. x[i] = pos[i] /\ x[i + 1] = pos[i + 1] /\ l2[i].len = l[i].len
        BY <1>4, <1>5, <4>1
      <4> QED
        BY <4>2, <4>3
    <3>2. CASE i = n
      <4>1. n \in 1 .. n /\ 1 \in 1 .. m /\ n # 0 /\ m # 0
        BY <1>1, <2>2, <3>2
      <4>2. x[i] = pos[n] /\ x[i + 1] = g + 1 /\ l2[i].len = l[n].len
        BY <1>4, <1>5, <3>2, <4>1
      <4> QED
        BY <1>4, <4>1, <4>2
    <3>3. CASE i > n
      <4> DEFINE k == i - n
      <4>1. k \in 1 .. m /\ k + 1 \in 1 .. m /\ i = n + k /\ i + 1 = n + (k + 1)
        <5>1. n \in Nat /\ m \in Nat /\ i \in 1 .. (n + m) - 1
          BY <1>1, <2>2
        <5> QED
          BY ONLY <3>3, <5>1
      <4> HIDE DEF k
      <4>2. x[i] = g + k /\ x[i + 1] = g + (k + 1)
        BY <1>5, <4>1
      <4>3. g + k # 0 /\ g + (k + 1) # 0 /\ g + (k + 1) = (g + k) + 1 /\ k \in Nat
        BY <4>1
      <4> QED
        BY <4>2, <4>3 DEF Follow
    <3> QED
      BY <1>1, <2>2, <3>1, <3>2, <3>3
  <2> QED
    BY <1>4, <2>1, <2>2 DEF Sequence
<1>14. View(l2, b2, w2, x, y, g + m, ps, st, off, bytes)
  BY <1>11, <1>12, <1>13 DEF View
<1> QED
  BY <1>1, <1>5, <1>14 DEF Joins, n, o, b2, x, y

(* What a decoder can go on with: the segment in front is there.           *)
Unbroken(l) == l # <<>> /\ Last(l) # HoleMark

(* The segments skipped are the rest of a packet whose beginning is gone.  *)
LEMMA SkipIs ==
  ASSUME NEW page \in Page, NEW m \in Nat, Len(page.lens) = m, NEW a \in Nat, NEW off,
         \A k \in 1 .. m : page.lens[k] = off[a + k] - off[a + k - 1],
         page.continued <=> ~Boundary(off, a), NEW os
  PROVE  LET s == SkippedSegments(os, page)
         IN /\ s \in 0 .. m
            /\ s = m \/ Boundary(off, a + s) \/ Unbroken(os.lacing)
            /\ Unbroken(os.lacing) => s = 0
            /\ Boundary(off, a) => s = 0
<1> DEFINE ends == {i \in DOMAIN page.lens : page.lens[i] < Full}
           s == SkippedSegments(os, page)
<1>1. CASE ~page.continued \/ Unbroken(os.lacing)
  <2>1. s = 0
    BY <1>1 DEF SkippedSegments, Unbroken
  <2>2. a + 0 = a /\ 0 \in 0 .. m
    OBVIOUS
  <2> HIDE DEF s
  <2>3. Boundary(off, a + s) \/ Unbroken(os.lacing)
    BY <1>1, <2>1, <2>2
  <2> QED
    BY <2>1, <2>2, <2>3 DEF s
<1>2. CASE page.continued /\ ~Unbroken(os.lacing)
  <2>1. s = IF ends = {} THEN m ELSE Min(ends)
    BY <1>2 DEF SkippedSegments, Unbroken
  <2>2. ends \subseteq 1 .. m /\ \A i \in ends : page.lens[i] < Full
    <3>1. page.lens \in Seq(Nat)
      BY DEF Page
    <3>2. DOMAIN page.lens = 1 .. m
      BY <3>1, LenProperties
    <3> QED
      BY <3>2
  <2> HIDE DEF ends, s
  <2>3. CASE ends = {}
    BY <1>2, <2>1, <2>3 DEF s
  <2>4. CASE ends # {}
    <3>1. ends \subseteq Nat
      BY <2>2
    <3>2. s \in ends
      BY <2>1, <2>4, <3>1, MinIn
    <3>3. s \in 1 .. m /\ page.lens[s] < Full
      BY <2>2, <3>2
    <3>4. off[a + s] - off[a + s - 1] < Full
      BY <3>3
    <3> QED
      BY <1>2, <3>3, <3>4 DEF s, Boundary
  <2> QED
    BY <2>3, <2>4
<1> QED
  BY <1>1, <1>2

Labelled(bos, page, s) == bos = (page.bos /\ s = 0)

Entries(x, g, n, ps, st, off) ==
  /\ x \in Seq(SegmentType) /\ Len(x) = n
  /\ \A k \in 1 .. n : Entry(x[k], g + k, ps, st, off)

(* A page's segments as the decoder keeps them are the stream's.           *)
LEMMA AddedIs ==
  ASSUME NEW ps, NEW st, NEW off, NEW bytes, Streamed(ps, st, off, bytes),
         NEW page \in Page, NEW i, NEW a \in 0 .. Total(ps, st),
         NEW e \in a .. Total(ps, st), OnPage(page, i, ps, st, off, bytes, a, e),
         i = 1 <=> a = 0, NEW s \in 0 .. e - a,
         NEW bos, Labelled(bos, page, s)
  PROVE  Entries(PageSegments(page, s, bos), a + s, (e - a) - s, ps, st, off)
<1> DEFINE m == e - a
           n == m - s
           t == Total(ps, st)
           ends == {j \in (s + 1) .. Len(page.lens) : page.lens[j] < Full}
           saved == IF ends = {} THEN 0 ELSE Max(ends)
           seg(k) == [Segment(page.lens[k + s],
                              IF k + s = saved THEN page.granulepos ELSE -1)
                        EXCEPT !.first = bos /\ k = 1]
           x == PageSegments(page, s, bos)
<1>0. bos = (page.bos /\ s = 0)
  BY DEF Labelled
<1>1. /\ t \in Nat /\ a \in Nat /\ e \in Nat /\ e <= t /\ m \in Nat /\ s \in Nat /\ s <= m
      /\ n \in Nat /\ a + m = e
  <2>1. t \in Nat
    <3>1. 1 \in 1 .. Len(ps) + 1 /\ Starts(ps, st)
      <4>1. ps \in Seq(Packet)
        BY DEF Streamed, Starts
      <4>2. Len(ps) \in Nat
        BY <4>1, LenProperties
      <4> QED
        BY <4>2 DEF Streamed
    <3> QED
      BY <3>1, StartIs
  <2> HIDE DEF t
  <2>2. a \in 0 .. t /\ e \in a .. t
    BY DEF t
  <2> QED
    BY <2>1, <2>2
<1>2. /\ page.lens \in Seq(Nat) /\ page.granulepos \in Int /\ page.bos \in BOOLEAN
      /\ Len(page.lens) = m
      /\ \A k \in 1 .. m : page.lens[k] = off[a + k] - off[a + k - 1] /\ page.lens[k] \in Nat
      /\ page.bos <=> i = 1
      /\ \A k \in 1 .. Len(ps) :
           /\ st[k + 1] \in a + 1 .. e
           /\ \A g \in st[k + 1] + 1 .. e : ~Boundary(off, g)
           => page.granulepos = ps[k].granulepos \/ (k = 1 /\ page.granulepos = 0)
  <2>1. page.lens \in Seq(Nat) /\ page.granulepos \in Int /\ page.bos \in BOOLEAN
    BY DEF Page
  <2>2. Len(page.lens) = m
    BY DEF OnPage
  <2>3. \A k \in 1 .. m : page.lens[k] \in Nat
    <3> HIDE DEF m
    <3> QED
      BY <2>1, <2>2, ElementOfSeq
  <2> QED
    BY <2>1, <2>2, <2>3 DEF OnPage
<1>3. x = [k \in 1 .. n |-> seg(k)]
  <2>1. Len(page.lens) - s = n
    BY <1>2
  <2> QED
    BY <2>1 DEF PageSegments
<1>4. ends \subseteq 0 .. m /\ \A j \in s + 1 .. m : page.lens[j] < Full => j \in ends
  <2>1. ends = {j \in (s + 1) .. m : page.lens[j] < Full}
    BY <1>2
  <2> HIDE DEF ends, m
  <2> QED
    BY <1>1, <2>1
<1> HIDE DEF m, n, t, ends
<1>5. saved \in Nat /\ \A j \in s + 1 .. m : page.lens[j] < Full => j <= saved
  <2>1. CASE ends = {}
    BY <1>4, <2>1
  <2>2. CASE ends # {}
    <3>1. Max(ends) \in ends /\ \A j \in ends : j <= Max(ends)
      BY <1>1, <1>4, <2>2, MaxIn
    <3>2. Max(ends) \in Nat
      <4> DEFINE h == Max(ends)
      <4>1. h \in 0 .. m
        BY <1>4, <3>1
      <4> HIDE DEF h
      <4>2. h \in Nat
        BY <4>1
      <4> QED
        BY <4>2 DEF h
    <3> QED
      BY <1>4, <2>2, <3>1, <3>2
  <2> QED
    BY <2>1, <2>2
<1> HIDE DEF saved
<1>6. ASSUME NEW k \in 1 .. n PROVE k + s \in 1 .. m /\ k + s \in s + 1 .. m /\ a + (k + s) = (a + s) + k
  BY <1>1 DEF n
<1>7. ASSUME NEW k \in 1 .. n
      PROVE  /\ seg(k) \in SegmentType
             /\ seg(k).len = page.lens[k + s] /\ ~seg(k).hole /\ ~seg(k).last
             /\ seg(k).first <=> bos /\ k = 1
             /\ seg(k).granule = IF k + s = saved THEN page.granulepos ELSE -1
  <2>1. page.lens[k + s] \in Nat
    BY <1>2, <1>6
  <2>2. bos \in BOOLEAN
    BY <1>0, <1>2
  <2> DEFINE u == page.lens[k + s]
             v == IF k + s = saved THEN page.granulepos ELSE -1
             f == bos /\ k = 1
  <2>3. u \in Nat /\ v \in Int /\ f \in BOOLEAN
    BY <1>2, <2>1, <2>2
  <2>4. seg(k) = [Segment(u, v) EXCEPT !.first = f]
    OBVIOUS
  <2> HIDE DEF u, v, f, seg
  <2>5. /\ [Segment(u, v) EXCEPT !.first = f] \in SegmentType
        /\ [Segment(u, v) EXCEPT !.first = f].len = u
        /\ ~[Segment(u, v) EXCEPT !.first = f].hole
        /\ ~[Segment(u, v) EXCEPT !.first = f].last
        /\ [Segment(u, v) EXCEPT !.first = f].first = f
        /\ [Segment(u, v) EXCEPT !.first = f].granule = v
    BY <2>3 DEF Segment, SegmentType
  <2>6. seg(k) \in SegmentType /\ seg(k).len = u /\ ~seg(k).hole /\ ~seg(k).last
        /\ seg(k).first = f /\ seg(k).granule = v
    BY <2>4, <2>5
  <2> QED
    BY <2>6 DEF u, v, f
<1>8. ASSUME NEW k \in 1 .. n PROVE Entry(seg(k), (a + s) + k, ps, st, off)
  <2> DEFINE g == (a + s) + k
             z == seg(k)
  <2>1. z.len = off[g] - off[g - 1] /\ g \in Nat /\ g # 0
    <3>1. page.lens[k + s] = off[a + (k + s)] - off[a + (k + s) - 1]
      BY <1>2, <1>6
    <3>2. g \in Nat /\ g # 0
      BY <1>1
    <3>3. z.len = page.lens[k + s] /\ a + (k + s) = g
      BY <1>6, <1>7
    <3> HIDE DEF z, g
    <3> QED
      BY <3>1, <3>2, <3>3
  <2>2. z.first <=> g = 1
    <3>1. page.bos <=> a = 0
      BY <1>2
    <3>2. a = 0 /\ s = 0 /\ k = 1 <=> g = 1
      BY <1>1
    <3> QED
      BY <1>0, <1>7, <3>1, <3>2
  <2>3. ASSUME NEW j \in 1 .. Len(ps), g = st[j + 1]
        PROVE  z.granule \in {-1, ps[j].granulepos} \/ (j = 1 /\ z.granule = 0)
    <3>1. CASE k + s = saved
      <4>1. z.granule = page.granulepos
        BY <1>7, <3>1
      <4>2. st[j + 1] \in a + 1 .. e
        <5>1. g \in a + 1 .. e
          BY <1>1, <1>6
        <5> QED
          BY <2>3, <5>1
      <4>3. ASSUME NEW h \in st[j + 1] + 1 .. e PROVE ~Boundary(off, h)
        <5>1. h \in g + 1 .. e
          BY <2>3
        <5> DEFINE r == h - a
        <5>2. r \in s + 1 .. m /\ r \in 1 .. m /\ a + r = h /\ r > k + s /\ h # 0 /\ r \in Nat
          BY <1>1, <5>1
        <5> HIDE DEF r
        <5>3. ~(page.lens[r] < Full)
          BY <1>1, <1>5, <3>1, <5>2
        <5>4. page.lens[r] = off[h] - off[h - 1]
          <6>1. page.lens[r] = off[a + r] - off[a + r - 1]
            BY <1>2, <5>2
          <6> QED
            BY <5>2, <6>1
        <5> QED
          BY <5>2, <5>3, <5>4 DEF Boundary
      <4>4. page.granulepos = ps[j].granulepos \/ (j = 1 /\ page.granulepos = 0)
        BY <1>2, <4>2, <4>3
      <4> QED
        BY <4>1, <4>4
    <3>2. CASE k + s # saved
      <4>1. z.granule = -1
        BY <1>7, <3>2
      <4> QED
        BY <4>1
    <3> QED
      BY <3>1, <3>2
  <2>4. ~z.hole /\ ~z.last
    BY <1>7
  <2> HIDE DEF z, g
  <2>5. Entry(z, g, ps, st, off)
    BY <2>1, <2>2, <2>3, <2>4 DEF Entry
  <2> QED
    BY <2>5 DEF z, g
<1>9. /\ x \in Seq(SegmentType) /\ Len(x) = n
      /\ \A k \in 1 .. n : x[k] = seg(k)
  <2>1. x \in [1 .. n -> SegmentType]
    BY <1>3, <1>7
  <2>2. \A k \in 1 .. n : x[k] = seg(k)
    BY <1>3
  <2> HIDE DEF x
  <2>3. x \in Seq(SegmentType) /\ Len(x) = n
    BY <1>1, <2>1, FunSeq
  <2> QED
    BY <2>2, <2>3
<1>10. \A k \in 1 .. n : Entry(x[k], (a + s) + k, ps, st, off)
  <2> HIDE DEF x, seg
  <2> QED
    BY <1>8, <1>9
<1> QED
  BY <1>9, <1>10 DEF n, m, Entries

(* The end flag is set on the last segment, whatever it is.                *)
Closed(all, eos) == IF eos /\ all # <<>> THEN [all EXCEPT ![Len(all)].last = TRUE] ELSE all

(* Marking the end of the stream on the last lacing value changes no other *)
(* field.                                                                  *)
LEMMA ClosedIs ==
  ASSUME NEW all \in Seq(SegmentType), NEW eos \in BOOLEAN
  PROVE  LET z == Closed(all, eos)
         IN /\ z \in Seq(SegmentType) /\ Len(z) = Len(all) /\ Len(all) \in Nat
            /\ \A i \in 1 .. Len(all) :
                 /\ z[i].len = all[i].len /\ z[i].hole = all[i].hole
                 /\ z[i].first = all[i].first /\ z[i].granule = all[i].granule
                 /\ z[i].last => all[i].last \/ (eos /\ i = Len(all))
            /\ ~eos => z = all
<1> DEFINE n == Len(all)
           z == Closed(all, eos)
<1>1. n \in Nat /\ \A i \in 1 .. n : all[i] \in SegmentType
  <2>1. n \in Nat
    BY LenProperties
  <2>2. \A i \in 1 .. n : all[i] \in SegmentType
    BY ElementOfSeq
  <2> QED
    BY <2>1, <2>2
<1>2. CASE ~(eos /\ all # <<>>)
  BY <1>1, <1>2 DEF Closed
<1>3. CASE eos /\ all # <<>>
  <2>1. z = [all EXCEPT ![n].last = TRUE]
    BY <1>3 DEF Closed
  <2>2. n \in 1 .. n
    <3>1. n # 0
      BY <1>3, EmptySeq
    <3> QED
      BY <1>1, <3>1
  <2>3. all \in [1 .. n -> SegmentType]
    <3>1. all = [i \in 1 .. n |-> all[i]]
      BY LenProperties
    <3> QED
      BY <1>1, <3>1
  <2> DEFINE u == [all[n] EXCEPT !.last = TRUE]
  <2>4. z = [all EXCEPT ![n] = u]
    BY <2>1
  <2> HIDE DEF n, z
  <2>5. u \in SegmentType /\ u.len = all[n].len /\ u.hole = all[n].hole
        /\ u.first = all[n].first /\ u.granule = all[n].granule
    <3> DEFINE v == all[n]
    <3>1. v \in SegmentType
      BY <1>1, <2>2
    <3> HIDE DEF v
    <3>2. /\ [v EXCEPT !.last = TRUE] \in SegmentType
          /\ [v EXCEPT !.last = TRUE].len = v.len
          /\ [v EXCEPT !.last = TRUE].hole = v.hole
          /\ [v EXCEPT !.last = TRUE].first = v.first
          /\ [v EXCEPT !.last = TRUE].granule = v.granule
      BY <3>1 DEF SegmentType
    <3> QED
      BY <3>2 DEF v
  <2> HIDE DEF u
  <2>6. z \in [1 .. n -> SegmentType]
    BY <2>3, <2>4, <2>5
  <2>7. z \in Seq(SegmentType) /\ Len(z) = n
    BY <1>1, <2>6, FunSeq
  <2>8. \A i \in 1 .. n : z[i] = IF i = n THEN u ELSE all[i]
    BY <2>3, <2>4
  <2>9. \A i \in 1 .. n :
          /\ z[i].len = all[i].len /\ z[i].hole = all[i].hole
          /\ z[i].first = all[i].first /\ z[i].granule = all[i].granule
          /\ z[i].last => all[i].last \/ (eos /\ i = n)
    BY <1>3, <2>5, <2>8
  <2> QED
    BY <1>1, <1>3, <2>7, <2>9 DEF n, z
<1> QED
  BY <1>2, <1>3

(* Up to where packets are complete, or holes marked.                      *)
NewEnds(all, n) == {i \in (n + 1) .. Len(all) : all[i].len < Full}
NewWhole(all, n, w) == IF NewEnds(all, n) = {} THEN w ELSE Max(NewEnds(all, n))

Complete(l, n, w) ==
  /\ w \in 0 .. n
  /\ w # 0 => l[w].len < Full
  /\ \A i \in w + 1 .. n : l[i].len = Full

Extended(all, l, n, m) ==
  /\ Len(all) = n + m
  /\ \A i \in 1 .. n : all[i].len = l[i].len
  /\ \A k \in 1 .. m : all[n + k].len \in Nat /\ all[n + k].len <= Full

(* Where the last complete packet ends after a page's lacing values were *)
(* added.                                                                *)
LEMMA NewWholeIs ==
  ASSUME NEW l, NEW n \in Nat, NEW w, Complete(l, n, w),
         NEW all, NEW m \in Nat, Extended(all, l, n, m)
  PROVE  Complete(all, n + m, NewWhole(all, n, w))
<1> DEFINE ends == NewEnds(all, n)
           v == NewWhole(all, n, w)
<1>0. /\ w \in 0 .. n
      /\ w # 0 => l[w].len < Full
      /\ \A i \in w + 1 .. n : l[i].len = Full
      /\ Len(all) = n + m
      /\ \A i \in 1 .. n : all[i].len = l[i].len
      /\ \A k \in 1 .. m : all[n + k].len \in Nat /\ all[n + k].len <= Full
  BY DEF Complete, Extended
<1>1. /\ ends \subseteq 0 .. n + m
      /\ \A i \in ends : i \in n + 1 .. n + m /\ all[i].len < Full
      /\ \A i \in n + 1 .. n + m : all[i].len < Full => i \in ends
  BY <1>0 DEF NewEnds
<1>2. \A i \in n + 1 .. n + m : i \notin ends => all[i].len = Full
  <2> SUFFICES ASSUME NEW i \in n + 1 .. n + m, i \notin ends PROVE all[i].len = Full
    OBVIOUS
  <2> DEFINE k == i - n
  <2>1. k \in 1 .. m /\ i = n + k
    OBVIOUS
  <2> HIDE DEF k
  <2>2. all[i].len \in Nat /\ all[i].len <= Full
    BY <1>0, <2>1
  <2>3. ~(all[i].len < Full)
    BY <1>1
  <2> QED
    BY <2>2, <2>3, SizeAssumption
<1>3. \A i \in w + 1 .. n : all[i].len = Full
  BY <1>0
<1> HIDE DEF ends
<1>4. CASE ends = {}
  <2>1. v = w
    BY <1>4 DEF NewWhole, ends
  <2> HIDE DEF v
  <2>2. \A i \in w + 1 .. n + m : i \in w + 1 .. n \/ i \in n + 1 .. n + m
    BY <1>0
  <2>3. w # 0 => w \in 1 .. n
    BY <1>0
  <2>4. w \in 0 .. n + m
    BY <1>0
  <2> QED
    BY <1>0, <1>2, <1>3, <1>4, <2>1, <2>2, <2>3, <2>4 DEF v, Complete
<1>5. CASE ends # {}
  <2>1. v = Max(ends)
    BY <1>5 DEF NewWhole, ends
  <2> HIDE DEF v
  <2>2. v \in ends /\ \A i \in ends : i <= v
    <3> DEFINE u == n + m
    <3>1. u \in Nat /\ ends \subseteq 0 .. u
      BY <1>1
    <3> HIDE DEF u
    <3> QED
      BY <1>5, <2>1, <3>1, MaxIn
  <2>3. v \in n + 1 .. n + m
    BY <1>1, <2>2
  <2>4. \A i \in v + 1 .. n + m : i \in n + 1 .. n + m /\ ~(i <= v)
    BY <2>3
  <2> QED
    BY <1>0, <1>1, <1>2, <2>2, <2>3, <2>4 DEF v, Complete
<1> QED
  BY <1>4, <1>5

(* The bytes of a page behind those of the segments skipped.               *)
LEMMA BodyAdded ==
  ASSUME NEW t \in Nat, NEW off, NEW bytes, Offsets(t, off, bytes),
         NEW a \in 0 .. t, NEW g \in a .. t, NEW e \in g .. t,
         NEW body, body = SubSeq(bytes, off[a] + 1, off[e]),
         NEW x, Len(x) = e - g, \A k \in 1 .. e - g : x[k].len = off[g + k] - off[g + k - 1]
  PROVE  LET c == Drop(body, Len(body) - LacedBytes(x))
         IN /\ c \in Seq(Nat) /\ Len(c) = off[e] - off[g]
            /\ Copied(c, 0, off[e] - off[g], bytes, off[g])
<1> DEFINE A == off[a]
           G == off[g]
           E == off[e]
           m == e - g
           c == Drop(body, Len(body) - LacedBytes(x))
<1>1. /\ A \in Nat /\ G \in Nat /\ E \in Nat /\ A <= G /\ G <= E /\ E <= Len(bytes)
      /\ bytes \in Seq(Nat) /\ Len(bytes) \in Nat
  <2>1. a \in 0 .. t /\ g \in 0 .. t /\ e \in 0 .. t /\ t \in 0 .. t /\ a <= g /\ g <= e /\ e <= t
    OBVIOUS
  <2>2. bytes \in Seq(Nat) /\ Len(bytes) = off[t]
    BY DEF Offsets
  <2>3. Len(bytes) \in Nat
    BY <2>2, LenProperties
  <2>4. /\ off \in [0 .. t -> Nat]
        /\ \A u, v \in 0 .. t : u <= v => off[u] <= off[v]
    BY DEF Offsets
  <2> QED
    BY <2>1, <2>2, <2>3, <2>4
<1>2. LacedBytes(x) = E - G
  <2> DEFINE h == [k \in 0 .. m |-> off[g + k]]
  <2>1. m \in Nat /\ g + m = e /\ g + 0 = g /\ 0 \in 0 .. m /\ m \in 0 .. m
    OBVIOUS
  <2>2. \A k \in 0 .. m : h[k] \in Nat
    <3>1. \A k \in 0 .. m : g + k \in 0 .. t
      OBVIOUS
    <3> QED
      BY <3>1 DEF Offsets
  <2>3. ASSUME NEW k \in 1 .. m PROVE x[k].len = h[k] - h[k - 1]
    <3>1. k \in 0 .. m /\ k - 1 \in 0 .. m /\ g + (k - 1) = g + k - 1
      OBVIOUS
    <3> QED
      BY <3>1
  <2>4. h[m] = E /\ h[0] = G
    BY <2>1
  <2> HIDE DEF h
  <2>5. LacedBytes(x) = h[m] - h[0]
    BY <2>1, <2>2, <2>3, LacedGap
  <2> QED
    BY <2>4, <2>5
<1> HIDE DEF A, G, E, m
<1>3. /\ body \in Seq(Nat) /\ Len(body) = E - A
      /\ \A i \in 1 .. E - A : body[i] = bytes[A + i]
  <2>1. A + 1 \in 1 .. Len(bytes) + 1 /\ E \in (A + 1) - 1 .. Len(bytes)
    BY <1>1
  <2> DEFINE d == A + 1
  <2> HIDE DEF d
  <2>2. d \in 1 .. Len(bytes) + 1 /\ E \in d - 1 .. Len(bytes)
    BY <2>1 DEF d
  <2>3. /\ SubSeq(bytes, d, E) \in Seq(Nat)
        /\ Len(SubSeq(bytes, d, E)) = E - d + 1
        /\ \A i \in 1 .. E - d + 1 : SubSeq(bytes, d, E)[i] = bytes[d + i - 1]
    BY <1>1, <2>2, Piece
  <2>4. body = SubSeq(bytes, d, E)
    BY DEF d, A, E
  <2>5. E - d + 1 = E - A /\ \A i \in 1 .. E - A : d + i - 1 = A + i
    BY <1>1 DEF d
  <2> QED
    BY <2>3, <2>4, <2>5
<1>4. Len(body) - LacedBytes(x) = G - A /\ G - A \in 0 .. Len(body)
  <2> DEFINE u == Len(body)
             v == LacedBytes(x)
  <2>1. u = E - A /\ v = E - G
    BY <1>2, <1>3
  <2> HIDE DEF u, v
  <2>2. u - v = G - A /\ G - A \in 0 .. u
    BY <1>1, <2>1
  <2> QED
    BY <2>2 DEF u, v
<1> DEFINE k == G - A
<1> HIDE DEF k
<1>5. k \in 0 .. Len(body) /\ c = Drop(body, k)
  BY <1>4 DEF k
<1> HIDE DEF c
<1>6. c \in Seq(Nat) /\ Len(c) = Len(body) - k /\ \A i \in 1 .. Len(body) - k : c[i] = body[k + i]
  <2>1. /\ Drop(body, k) \in Seq(Nat) /\ Len(Drop(body, k)) = Len(body) - k
        /\ \A i \in 1 .. Len(body) - k : Drop(body, k)[i] = body[k + i]
    <3>1. body \in Seq(Nat) /\ k \in 0 .. Len(body)
      BY <1>3, <1>5
    <3> QED
      BY ONLY <3>1, DropIs
  <2> QED
    BY <1>5, <2>1
<1>7. Len(body) - k = E - G
  BY <1>1, <1>3 DEF k
<1>8. ASSUME NEW j \in 1 .. E - G PROVE c[0 + j] = bytes[G + j]
  <2>1. c[j] = body[k + j]
    BY <1>6, <1>7
  <2>2. k + j \in 1 .. E - A /\ A + (k + j) = G + j /\ 0 + j = j
    BY <1>1 DEF k
  <2> QED
    BY <1>3, <2>1, <2>2
<1>9. Copied(c, 0, E - G, bytes, G)
  BY <1>8 DEF Copied
<1> QED
  BY <1>6, <1>7, <1>9 DEF c, E, G

(* The reader's log ends with a hole or a seek.                            *)
Marked(lg) == lg # <<>> /\ lg[Len(lg)] \in {HoleEntry, SeekEntry}

(* A view begins where the last packet, number lam, ended; or behind a gap
   that has been told of.                                                  *)
Begins(l, pos, ps, st, off, c, lam, lg) ==
  /\ lam \in 0 .. Len(ps) /\ st[lam + 1] <= c
  /\ \A i \in 1 .. Len(l) : pos[i] # 0 => st[lam + 1] < pos[i]
  /\ Len(l) # 0 /\ pos[1] # 0 =>
       Boundary(off, pos[1] - 1) /\ (pos[1] = st[lam + 1] + 1 \/ Marked(lg))

(* It ends behind segment a, or with a hole, which the end flag may have
   changed if no page is left; or it is empty, and a gap before a told of. *)
Resume(l, pos, st, lam, lg, a, left) ==
  \/ Len(l) # 0 /\ pos[Len(l)] # 0 /\ pos[Len(l)] = a
  \/ Len(l) # 0 /\ pos[Len(l)] = 0 /\ (l[Len(l)] = HoleMark \/ left = 0)
  \/ Len(l) = 0 /\ (Marked(lg) \/ st[lam + 1] = a)

(* What the tail of pagein makes of the lacing, the body and the mark.     *)
LEMMA TakeInParts ==
  ASSUME NEW os \in StreamState, NEW page \in Page
  PROVE  LET skip  == SkippedSegments(os, page)
             added == PageSegments(page, skip, page.bos /\ skip = 0)
             all   == os.lacing \o added
             c     == Drop(page.body, Len(page.body) - LacedBytes(added))
             z     == TakeIn(os, page)
         IN  all \in Seq(SegmentType) /\ c \in Seq(Nat)
               /\ NewWhole(all, Len(os.lacing), os.lacing_packet) \in Nat
             => /\ z \in StreamState
                /\ z.lacing = Closed(all, page.eos)
                /\ z.body = os.body \o c
                /\ z.lacing_packet = NewWhole(all, Len(os.lacing), os.lacing_packet)
                /\ z.pageno = page.pageno + 1
                /\ z.body_returned = os.body_returned
                /\ z.lacing_returned = os.lacing_returned
                /\ z.serialno = os.serialno /\ z.allocated = os.allocated
<1> DEFINE skip  == SkippedSegments(os, page)
           added == PageSegments(page, skip, page.bos /\ skip = 0)
           all   == os.lacing \o added
           c     == Drop(page.body, Len(page.body) - LacedBytes(added))
           l2    == Closed(all, page.eos)
           b2    == os.body \o c
           w2    == NewWhole(all, Len(os.lacing), os.lacing_packet)
           ends  == {i \in (Len(os.lacing) + 1) .. Len(all) : all[i].len < Full}
           eo    == os.e_o_s \/ page.eos
           z     == TakeIn(os, page)
<1> SUFFICES ASSUME all \in Seq(SegmentType), c \in Seq(Nat), w2 \in Nat
             PROVE  /\ z \in StreamState
                    /\ z.lacing = l2 /\ z.body = b2 /\ z.lacing_packet = w2
                    /\ z.pageno = page.pageno + 1
                    /\ z.body_returned = os.body_returned
                    /\ z.lacing_returned = os.lacing_returned
                    /\ z.serialno = os.serialno /\ z.allocated = os.allocated
  OBVIOUS
<1>1. /\ os.body \in Seq(Nat) /\ os.e_o_s \in BOOLEAN /\ page.eos \in BOOLEAN
      /\ page.pageno \in Int /\ os.body_returned \in Nat /\ os.lacing_returned \in Nat
      /\ os.b_o_s \in BOOLEAN /\ os.packetno \in Int /\ os.granulepos \in Int
  BY DEF StreamState, Page
<1>2. l2 \in Seq(SegmentType) /\ b2 \in Seq(Nat) /\ eo \in BOOLEAN /\ page.pageno + 1 \in Int
  <2>1. l2 \in Seq(SegmentType)
    <3> HIDE DEF all
    <3> QED
      BY <1>1, ClosedIs
  <2>2. b2 \in Seq(Nat)
    <3> HIDE DEF c
    <3>1. os.body \in Seq(Nat) /\ c \in Seq(Nat)
      BY <1>1
    <3> QED
      BY ONLY <3>1, Joined
  <2> QED
    BY <1>1, <2>1, <2>2
<1>3. z = [os EXCEPT !.body = b2, !.lacing = l2, !.lacing_packet = w2,
                     !.e_o_s = eo, !.pageno = page.pageno + 1]
  <2>1. /\ l2 = IF page.eos /\ all # <<>> THEN [all EXCEPT ![Len(all)].last = TRUE] ELSE all
        /\ w2 = IF ends = {} THEN os.lacing_packet ELSE Max(ends)
    BY DEF Closed, NewWhole, NewEnds
  <2>2. z = [os EXCEPT !.body = @ \o c,
                 !.lacing = IF page.eos /\ all # <<>>
                            THEN [all EXCEPT ![Len(all)].last = TRUE] ELSE all,
                 !.lacing_packet = IF ends = {} THEN @ ELSE Max(ends),
                 !.e_o_s = @ \/ page.eos,
                 !.pageno = page.pageno + 1]
    BY DEF TakeIn
  <2> HIDE DEF l2, w2, all, ends, c
  <2> QED
    BY <2>1, <2>2
<1> DEFINE pn == page.pageno + 1
<1> HIDE DEF l2, b2, w2, eo, z, pn
<1>4. z = [os EXCEPT !.body = b2, !.lacing = l2, !.lacing_packet = w2,
                     !.e_o_s = eo, !.pageno = pn]
  BY <1>3 DEF pn
<1>5. pn \in Int
  BY <1>2 DEF pn
<1>6. /\ z \in StreamState
      /\ z.lacing = l2 /\ z.body = b2 /\ z.lacing_packet = w2
      /\ z.pageno = pn
      /\ z.body_returned = os.body_returned
      /\ z.lacing_returned = os.lacing_returned
      /\ z.serialno = os.serialno /\ z.allocated = os.allocated
  BY <1>2, <1>4, <1>5 DEF StreamState
<1> QED
  BY <1>6 DEF pn

(* Where the segments of a page go on a view that it continues.            *)
Continues(l, pos, off, g) ==
  Len(l) # 0 => \/ pos[Len(l)] # 0 /\ pos[Len(l)] = g
                \/ pos[Len(l)] = 0 /\ l[Len(l)] = HoleMark /\ Boundary(off, g)

Placed(s, k, l, pos, st, off, a, lam, lg) ==
  /\ s \in 0 .. k
  /\ s # k => Continues(l, pos, off, a + s)
  /\ s # k /\ Len(l) = 0 =>
       Boundary(off, a + s) /\ (a + s = st[lam + 1] \/ Marked(lg))
  /\ s = k => \/ Len(l) = 0 /\ Marked(lg)
              \/ Len(l) # 0 /\ pos[Len(l)] = 0 /\ l[Len(l)] = HoleMark

(* The segments skipped and the place the others take.                     *)
LEMMA PlaceIs ==
  ASSUME NEW ps, NEW st, NEW off, NEW bytes, Streamed(ps, st, off, bytes),
         NEW page \in Page, NEW i, NEW a \in 0 .. Total(ps, st),
         NEW e \in a + 1 .. Total(ps, st), OnPage(page, i, ps, st, off, bytes, a, e),
         NEW os \in StreamState, NEW w, NEW pos, NEW bo, NEW top \in Nat,
         View(os.lacing, os.body, w, pos, bo, top, ps, st, off, bytes),
         NEW lam, NEW lg, Begins(os.lacing, pos, ps, st, off, top, lam, lg),
         NEW left \in Nat \ {0}, Resume(os.lacing, pos, st, lam, lg, a, left)
  PROVE  Placed(SkippedSegments(os, page), e - a, os.lacing, pos, st, off, a, lam, lg)
<1> DEFINE s == SkippedSegments(os, page)
           l == os.lacing
           n == Len(l)
           m == e - a
           t == Total(ps, st)
<1>1. ViewFacts(l, os.body, w, pos, bo, top, ps, st, off, bytes)
  BY ViewIs
<1>2. /\ l \in Seq(SegmentType) /\ n \in Nat
      /\ \A j \in 1 .. n : pos[j] # 0 => ~l[j].hole
  <2>1. l \in Seq(SegmentType) /\ n \in Nat
    BY <1>1 DEF ViewFacts
  <2>2. \A j \in 1 .. n : pos[j] # 0 => Entry(l[j], pos[j], ps, st, off)
    BY <1>1 DEF ViewFacts
  <2> QED
    BY <2>1, <2>2 DEF Entry
<1>3. Starts(ps, st) /\ Marks(ps, st, off) /\ Len(ps) \in Nat /\ t \in Nat
  <2>1. Starts(ps, st) /\ Marks(ps, st, off)
    BY DEF Streamed
  <2>2. Len(ps) \in Nat
    BY <2>1, LenProperties DEF Starts
  <2>3. 1 \in 1 .. Len(ps) + 1
    BY <2>2
  <2> QED
    BY <2>1, <2>2, <2>3, StartIs
<1>4. a \in Nat /\ e \in Nat /\ m \in Nat /\ m # 0
  <2>1. a \in 0 .. t /\ e \in a + 1 .. t
    OBVIOUS
  <2> HIDE DEF t
  <2> QED
    BY <1>3, <2>1
<1>5. /\ s \in 0 .. m
      /\ s = m \/ Boundary(off, a + s) \/ Unbroken(l)
      /\ Unbroken(l) => s = 0
      /\ Boundary(off, a) => s = 0
  <2>1. /\ Len(page.lens) = m
        /\ \A k \in 1 .. m : page.lens[k] = off[a + k] - off[a + k - 1]
        /\ page.continued <=> ~Boundary(off, a)
    BY DEF OnPage
  <2> HIDE DEF m
  <2> QED
    BY <1>4, <2>1, SkipIs
<1> HIDE DEF s, m, t
<1>6. n # 0 => l # <<>> /\ Last(l) = l[n] /\ n \in 1 .. n
  BY <1>2 DEF Last
<1>7. n = 0 => ~Unbroken(l)
  <2>1. n = 0 => l = <<>>
    BY <1>2, EmptySeq
  <2> QED
    BY <2>1 DEF Unbroken
<1>8. ASSUME n # 0, pos[n] # 0, pos[n] = a
      PROVE  s = 0 /\ a + s = a
  <2>1. ~l[n].hole
    BY <1>2, <1>6, <1>8
  <2>2. l[n] # HoleMark
    BY <2>1 DEF HoleMark, Segment
  <2>3. Unbroken(l)
    BY <1>6, <1>8, <2>2 DEF Unbroken
  <2> QED
    BY <1>4, <1>5, <2>3
<1>9. ASSUME n # 0, pos[n] = 0, l[n] = HoleMark
      PROVE  ~Unbroken(l)
  BY <1>6, <1>9 DEF Unbroken
<1>10. ASSUME n = 0, st[lam + 1] = a
       PROVE  s = 0 /\ a + s = a
  <2>1. lam \in 0 .. Len(ps)
    BY DEF Begins
  <2>2. lam + 1 \in 1 .. Len(ps) + 1
    BY <1>3, <2>1
  <2>3. a \in 0 .. Total(ps, st)
    OBVIOUS
  <2>4. Boundary(off, a)
    BY <1>3, <1>10, <2>2, <2>3, BoundaryIs
  <2> QED
    BY <1>4, <1>5, <2>4
<1>11. \/ n # 0 /\ pos[n] # 0 /\ pos[n] = a
       \/ n # 0 /\ pos[n] = 0 /\ l[n] = HoleMark
       \/ n = 0 /\ (Marked(lg) \/ st[lam + 1] = a)
  BY DEF Resume
<1>12. /\ s # m => Continues(l, pos, off, a + s)
       /\ s # m /\ n = 0 => Boundary(off, a + s) /\ (a + s = st[lam + 1] \/ Marked(lg))
       /\ s = m => \/ n = 0 /\ Marked(lg)
                   \/ n # 0 /\ pos[n] = 0 /\ l[n] = HoleMark
  <2>1. CASE n # 0 /\ pos[n] # 0 /\ pos[n] = a
    <3>1. s # m /\ a + s = a
      BY <1>4, <1>8, <2>1
    <3> QED
      BY <2>1, <3>1 DEF Continues
  <2>2. CASE n # 0 /\ pos[n] = 0 /\ l[n] = HoleMark
    <3>1. s # m => Boundary(off, a + s)
      BY <1>5, <1>9, <2>2
    <3> QED
      BY <2>2, <3>1 DEF Continues
  <2>3. CASE n = 0 /\ (Marked(lg) \/ st[lam + 1] = a)
    <3>1. s # m => Boundary(off, a + s)
      BY <1>5, <1>7, <2>3
    <3>2. s = m => Marked(lg)
      BY <1>4, <1>10, <2>3
    <3>3. s # m => (a + s = st[lam + 1] \/ Marked(lg))
      BY <1>10, <2>3
    <3> QED
      BY <2>3, <3>1, <3>2, <3>3 DEF Continues
  <2> QED
    BY <1>11, <2>1, <2>2, <2>3
<1> QED
  BY <1>5, <1>12 DEF s, m, Placed

Grown(l, l2, pos, x, a, g, m, e, left) ==
  /\ Len(l) \in Nat /\ Len(l2) = Len(l) + m
  /\ a \in Nat /\ g \in Nat /\ m \in Nat /\ a <= g /\ e = g + m /\ a < e
  /\ m = 0 /\ left # 0 => l2 = l
  /\ \A i \in 1 .. Len(l) : x[i] = pos[i]
  /\ \A k \in 1 .. m : x[Len(l) + k] = g + k

(* What a page leaves for the next one and for packetout.                  *)
LEMMA TakenIn ==
  ASSUME NEW l, NEW pos, NEW ps, NEW st, NEW off, NEW top \in Nat, NEW lam, NEW lg,
         Begins(l, pos, ps, st, off, top, lam, lg), Starts(ps, st),
         NEW l2, NEW x, NEW a, NEW g, NEW m, NEW e, NEW left,
         Grown(l, l2, pos, x, a, g, m, e, left), top <= a,
         m # 0 /\ Len(l) = 0 => Boundary(off, g) /\ (g = st[lam + 1] \/ Marked(lg)),
         m = 0 => \/ Len(l) = 0 /\ Marked(lg)
                  \/ Len(l) # 0 /\ pos[Len(l)] = 0 /\ l[Len(l)] = HoleMark
  PROVE  /\ Begins(l2, x, ps, st, off, e, lam, lg)
         /\ Resume(l2, x, st, lam, lg, e, left)
<1> DEFINE b == st[lam + 1]
           n == Len(l)
<1>0. /\ n \in Nat /\ Len(l2) = n + m
      /\ a \in Nat /\ g \in Nat /\ m \in Nat /\ a <= g /\ e = g + m /\ a < e
      /\ m = 0 /\ left # 0 => l2 = l
      /\ \A i \in 1 .. n : x[i] = pos[i]
      /\ \A k \in 1 .. m : x[n + k] = g + k
  BY DEF Grown
<1>00. /\ m # 0 /\ n = 0 => Boundary(off, g) /\ (g = st[lam + 1] \/ Marked(lg))
       /\ m = 0 => \/ n = 0 /\ Marked(lg)
                   \/ n # 0 /\ pos[n] = 0 /\ l[n] = HoleMark
  OBVIOUS
<1>1. /\ lam \in 0 .. Len(ps) /\ b <= top /\ b \in Nat
      /\ \A i \in 1 .. n : pos[i] # 0 => b < pos[i]
      /\ n # 0 /\ pos[1] # 0 => Boundary(off, pos[1] - 1) /\ (pos[1] = b + 1 \/ Marked(lg))
  <2>1. /\ lam \in 0 .. Len(ps) /\ b <= top
        /\ \A i \in 1 .. n : pos[i] # 0 => b < pos[i]
        /\ n # 0 /\ pos[1] # 0 => Boundary(off, pos[1] - 1) /\ (pos[1] = b + 1 \/ Marked(lg))
    BY DEF Begins
  <2>2. Len(ps) \in Nat
    BY LenProperties DEF Starts
  <2>3. lam + 1 \in 1 .. Len(ps) + 1
    BY <2>1, <2>2
  <2>4. b \in Nat
    BY <2>3, StartIs
  <2> QED
    BY <2>1, <2>4
<1> HIDE DEF b, n
<1>2. \A i \in 1 .. n + m : i \in 1 .. n \/ \E k \in 1 .. m : i = n + k
  <2>1. \A i \in 1 .. n + m : i \in 1 .. n \/ (i - n \in 1 .. m /\ i = n + (i - n))
    BY <1>0
  <2> QED
    BY <1>0, <1>00, <2>1
<1>3. b <= e
  BY <1>0, <1>00, <1>1
<1>4. \A i \in 1 .. n + m : x[i] # 0 => b < x[i]
  <2>1. \A i \in 1 .. n : x[i] # 0 => b < x[i]
    BY <1>0, <1>00, <1>1
  <2>2. \A k \in 1 .. m : b < g + k
    BY <1>0, <1>00, <1>1
  <2>3. \A k \in 1 .. m : x[n + k] # 0 => b < x[n + k]
    BY <1>0, <1>00, <2>2
  <2> QED
    BY <1>0, <1>00, <1>2, <2>1, <2>3
<1>5. ASSUME n + m # 0, x[1] # 0
      PROVE  Boundary(off, x[1] - 1) /\ (x[1] = b + 1 \/ Marked(lg))
  <2>1. CASE n # 0
    <3>1. 1 \in 1 .. n
      BY <1>0, <1>00, <2>1
    <3> QED
      BY <1>0, <1>00, <1>1, <1>5, <2>1, <3>1
  <2>2. CASE n = 0
    <3>1. m # 0 /\ 1 \in 1 .. m /\ n + 1 = 1
      BY <1>0, <1>00, <1>5, <2>2
    <3>2. x[1] = g + 1 /\ (g + 1) - 1 = g
      BY <1>0, <1>00, <3>1
    <3>3. Boundary(off, g) /\ (g = b \/ Marked(lg))
      BY <1>0, <1>00, <2>2, <3>1 DEF b
    <3> QED
      BY <1>0, <1>00, <3>2, <3>3
  <2> QED
    BY <1>0, <1>00, <2>1, <2>2
<1>6. Begins(l2, x, ps, st, off, e, lam, lg)
  <2>1. /\ lam \in 0 .. Len(ps) /\ st[lam + 1] <= e
        /\ \A i \in 1 .. Len(l2) : x[i] # 0 => st[lam + 1] < x[i]
        /\ Len(l2) # 0 /\ x[1] # 0 =>
             Boundary(off, x[1] - 1) /\ (x[1] = st[lam + 1] + 1 \/ Marked(lg))
    BY <1>0, <1>00, <1>1, <1>3, <1>4, <1>5 DEF b
  <2> QED
    BY <1>0, <1>00, <2>1 DEF Begins
<1>7. Resume(l2, x, st, lam, lg, e, left)
  <2>1. CASE m # 0
    <3>1. m \in 1 .. m
      BY <1>0, <1>00, <2>1
    <3>2. x[n + m] = e /\ e # 0 /\ n + m # 0
      BY <1>0, <1>00, <2>1, <3>1
    <3> QED
      BY <1>0, <1>00, <3>2 DEF Resume
  <2>2. CASE m = 0 /\ n = 0
    BY <1>0, <1>00, <2>2 DEF Resume
  <2>3. CASE m = 0 /\ n # 0
    <3>1. n + m = n /\ n \in 1 .. n
      BY <1>0, <1>00, <2>3
    <3>2. x[n] = 0 /\ (left = 0 \/ l2[n] = HoleMark)
      BY <1>0, <1>00, <2>3, <3>1
    <3> QED
      BY <1>0, <1>00, <2>3, <3>1, <3>2 DEF Resume
  <2> QED
    BY <1>0, <1>00, <2>1, <2>2, <2>3
<1> QED
  BY <1>6, <1>7

(* A decoder's segments and bytes hold part of the stream, from where its
   reader is up to segment c.                                              *)
Holds(l, b, w, c, ps, st, off, bytes, pageno, lam, lg, left, n) ==
  \E pos, bo :
    /\ View(l, b, w, pos, bo, c, ps, st, off, bytes)
    /\ Begins(l, pos, ps, st, off, c, lam, lg)
    /\ \/ pageno = n /\ Resume(l, pos, st, lam, lg, c, left)
       \/ pageno = -1 /\ Len(l) = 0 /\ Marked(lg)

TookIn(z, os, c, ps, st, off, bytes, lam, lg, left, n) ==
  /\ z \in StreamState
  /\ z.body_returned = os.body_returned
  /\ z.lacing_returned = os.lacing_returned
  /\ z.serialno = os.serialno /\ z.allocated = os.allocated
  /\ Holds(z.lacing, z.body, z.lacing_packet, c, ps, st, off, bytes, z.pageno,
           lam, lg, left, n)

(* Taking in a page of the stream.                                         *)
LEMMA TakeInIs ==
  ASSUME NEW ps, NEW st, NEW off, NEW bytes, Streamed(ps, st, off, bytes),
         NEW page \in Page, NEW i \in Nat, NEW a \in 0 .. Total(ps, st),
         NEW e \in a + 1 .. Total(ps, st), OnPage(page, i, ps, st, off, bytes, a, e),
         i = 1 <=> a = 0,
         NEW left \in Nat,
         page.eos => left = 0 /\ e = Total(ps, st) /\ Len(ps) # 0 /\ ps[Len(ps)].e_o_s,
         NEW os \in StreamState, NEW pos, NEW bo, NEW top \in Nat, top <= a,
         View(os.lacing, os.body, os.lacing_packet, pos, bo, top, ps, st, off, bytes),
         NEW lam, NEW lg, Begins(os.lacing, pos, ps, st, off, top, lam, lg),
         NEW next, next = left + 1, Resume(os.lacing, pos, st, lam, lg, a, next)
  PROVE  TookIn(TakeIn(os, page), os, e, ps, st, off, bytes, lam, lg, left, i)
<1> DEFINE s == SkippedSegments(os, page)
           bos == page.bos /\ s = 0
           added == PageSegments(page, s, bos)
           l == os.lacing
           n == Len(l)
           b == os.body
           w == os.lacing_packet
           all == l \o added
           c == Drop(page.body, Len(page.body) - LacedBytes(added))
           l2 == Closed(all, page.eos)
           w2 == NewWhole(all, n, w)
           g == a + s
           m == e - g
           t == Total(ps, st)
           x == JoinedPos(pos, n, g, m)
           y == JoinedBytes(bo, n, Len(b), off, g, m)
           z == TakeIn(os, page)
<1>1. ViewFacts(l, b, w, pos, bo, top, ps, st, off, bytes)
  BY ViewIs
<1>2. /\ l \in Seq(SegmentType) /\ n \in Nat /\ w \in 0 .. n /\ w \in Nat
      /\ w # 0 => l[w].len < Full
      /\ \A j \in w + 1 .. n : l[j].len = Full
      /\ \A j \in 1 .. n : /\ pos[j] = 0 => l[j].hole
                           /\ pos[j] # 0 => Entry(l[j], pos[j], ps, st, off)
  BY <1>1 DEF ViewFacts
<1>3. Starts(ps, st) /\ Offsets(t, off, bytes) /\ Len(ps) \in Nat /\ t \in Nat
  <2>1. Starts(ps, st) /\ Offsets(t, off, bytes)
    BY DEF Streamed
  <2>2. Len(ps) \in Nat
    BY <2>1, LenProperties DEF Starts
  <2>3. 1 \in 1 .. Len(ps) + 1
    BY <2>2
  <2> QED
    BY <2>1, <2>2, <2>3, StartIs
<1>4. /\ s \in 0 .. e - a
      /\ s # e - a => Continues(l, pos, off, a + s)
      /\ s # e - a /\ n = 0 => Boundary(off, a + s) /\ (a + s = st[lam + 1] \/ Marked(lg))
      /\ s = e - a => \/ n = 0 /\ Marked(lg)
                      \/ n # 0 /\ pos[n] = 0 /\ l[n] = HoleMark
  <2>1. /\ Streamed(ps, st, off, bytes) /\ page \in Page
        /\ a \in 0 .. Total(ps, st) /\ e \in a + 1 .. Total(ps, st)
        /\ OnPage(page, i, ps, st, off, bytes, a, e) /\ os \in StreamState
        /\ top \in Nat /\ View(l, b, w, pos, bo, top, ps, st, off, bytes)
        /\ Begins(l, pos, ps, st, off, top, lam, lg)
    OBVIOUS
  <2>2. next \in Nat \ {0} /\ Resume(l, pos, st, lam, lg, a, next)
    OBVIOUS
  <2>3. Placed(s, e - a, l, pos, st, off, a, lam, lg)
    BY ONLY <2>1, <2>2, PlaceIs
  <2> HIDE DEF s, l
  <2> QED
    BY <2>3 DEF Placed
<1>5. /\ a \in Nat /\ e \in Nat /\ s \in Nat /\ g \in Nat /\ m \in Nat /\ a <= g /\ e = g + m
      /\ a < e /\ (s = e - a <=> m = 0) /\ g \in a .. t /\ e \in g .. t /\ (e - a) - s = m
      /\ g + m <= t /\ e <= t
  <2>1. a \in 0 .. t /\ e \in a + 1 .. t
    OBVIOUS
  <2>2. t \in Nat /\ s \in 0 .. e - a
    BY <1>3, <1>4
  <2> HIDE DEF s, t
  <2> QED
    BY <2>1, <2>2
<1>6. /\ added \in Seq(SegmentType) /\ Len(added) = m
      /\ \A k \in 1 .. m : Entry(added[k], g + k, ps, st, off)
  <2>1. /\ added \in Seq(SegmentType) /\ Len(added) = (e - a) - s
        /\ \A k \in 1 .. (e - a) - s : Entry(added[k], (a + s) + k, ps, st, off)
    <3>1. /\ Streamed(ps, st, off, bytes) /\ page \in Page
          /\ a \in 0 .. Total(ps, st) /\ e \in a .. Total(ps, st)
          /\ OnPage(page, i, ps, st, off, bytes, a, e)
          /\ i = 1 <=> a = 0
      BY <1>5
    <3>2. s \in 0 .. e - a
      BY <1>4
    <3>3. Labelled(bos, page, s)
      BY DEF Labelled
    <3> HIDE DEF s, bos
    <3>4. Entries(added, a + s, (e - a) - s, ps, st, off)
      BY ONLY <3>1, <3>2, <3>3, AddedIs
    <3> HIDE DEF added
    <3> QED
      BY <3>4 DEF Entries
  <2> QED
    BY <1>5, <2>1
<1> HIDE DEF s, bos, added, t, m, g, n
<1>7. /\ all \in Seq(SegmentType) /\ Len(all) = n + m /\ page.eos \in BOOLEAN
      /\ \A j \in 1 .. n : all[j] = l[j]
      /\ \A k \in 1 .. m : all[n + k] = added[k]
  <2>1. /\ all \in Seq(SegmentType) /\ Len(all) = n + Len(added)
        /\ \A j \in 1 .. n : all[j] = l[j]
        /\ \A k \in 1 .. Len(added) : all[n + k] = added[k]
    <3>1. l \in Seq(SegmentType) /\ added \in Seq(SegmentType)
      BY <1>2, <1>6
    <3> QED
      BY ONLY <3>1, Joined DEF n, all
  <2>2. page.eos \in BOOLEAN
    BY DEF Page
  <2> QED
    BY <1>6, <2>1, <2>2
<1> HIDE DEF all
<1>8. /\ l2 \in Seq(SegmentType) /\ Len(l2) = n + m
      /\ \A j \in 1 .. n + m :
           /\ l2[j].len = all[j].len /\ l2[j].hole = all[j].hole
           /\ l2[j].first = all[j].first /\ l2[j].granule = all[j].granule
           /\ l2[j].last => all[j].last \/ (page.eos /\ j = n + m)
      /\ ~page.eos => l2 = all
  <2>1. /\ l2 \in Seq(SegmentType) /\ Len(l2) = Len(all) /\ Len(all) \in Nat
        /\ \A j \in 1 .. Len(all) :
             /\ l2[j].len = all[j].len /\ l2[j].hole = all[j].hole
             /\ l2[j].first = all[j].first /\ l2[j].granule = all[j].granule
             /\ l2[j].last => all[j].last \/ (page.eos /\ j = Len(all))
        /\ ~page.eos => l2 = all
    BY <1>7, ClosedIs
  <2> QED
    BY <1>7, <2>1
<1> HIDE DEF l2
<1>9. /\ \A j \in 1 .. n : j \in 1 .. n + m
      /\ \A k \in 1 .. m : n + k \in 1 .. n + m
  BY <1>2, <1>5
<1>10. /\ w2 \in 0 .. n + m
       /\ w2 # 0 => l2[w2].len < Full
       /\ \A j \in w2 + 1 .. n + m : l2[j].len = Full
  <2>1. \A j \in 1 .. n : all[j].len = l[j].len
    BY <1>7
  <2>2. ASSUME NEW k \in 1 .. m PROVE all[n + k].len \in Nat /\ all[n + k].len <= Full
    <3>1. all[n + k] \in SegmentType
      BY <1>7, <1>9, ElementOfSeq
    <3>2. all[n + k].len = off[g + k] - off[(g + k) - 1]
      <4>1. Entry(all[n + k], g + k, ps, st, off)
        BY <1>6, <1>7
      <4> QED
        BY <4>1 DEF Entry
    <3>3. g + k \in 1 .. t
      BY <1>3, <1>5
    <3> QED
      BY <1>3, <3>1, <3>2, <3>3 DEF SegmentType, Offsets
  <2>3. /\ w2 \in 0 .. n + m
        /\ w2 # 0 => all[w2].len < Full
        /\ \A j \in w2 + 1 .. n + m : all[j].len = Full
    <3>1. Complete(l, n, w) /\ n \in Nat /\ m \in Nat
      BY <1>2, <1>5 DEF Complete
    <3>2. Extended(all, l, n, m)
      BY <1>7, <2>1, <2>2 DEF Extended
    <3>3. Complete(all, n + m, w2)
      BY ONLY <3>1, <3>2, NewWholeIs DEF w2
    <3> HIDE DEF w2
    <3> QED
      BY <3>3 DEF Complete
  <2> HIDE DEF w2
  <2>4. w2 # 0 => w2 \in 1 .. n + m
    BY <2>3
  <2>5. \A j \in w2 + 1 .. n + m : j \in 1 .. n + m
    BY <2>3
  <2> QED
    BY <1>8, <2>3, <2>4, <2>5
<1>11. c \in Seq(Nat) /\ Len(c) = off[e] - off[g] /\ Copied(c, 0, off[e] - off[g], bytes, off[g])
  <2>1. /\ a \in 0 .. t /\ page.body = SubSeq(bytes, off[a] + 1, off[e])
    BY DEF OnPage, t
  <2>2. Len(added) = e - g /\ \A k \in 1 .. e - g : added[k].len = off[g + k] - off[g + k - 1]
    <3>1. e - g = m
      BY <1>5
    <3>2. ASSUME NEW k \in 1 .. m PROVE added[k].len = off[g + k] - off[g + k - 1]
      <4>1. Entry(added[k], g + k, ps, st, off)
        BY <1>6
      <4>2. (g + k) - 1 = g + k - 1
        BY ONLY <1>5
      <4>3. added[k].len = off[g + k] - off[(g + k) - 1]
        BY ONLY <4>1 DEF Entry
      <4> QED
        BY ONLY <4>2, <4>3
    <3> QED
      BY <1>6, <3>1, <3>2
  <2>3. t \in Nat /\ Offsets(t, off, bytes) /\ g \in a .. t /\ e \in g .. t
    BY <1>3, <1>5
  <2> QED
    BY ONLY <2>1, <2>2, <2>3, BodyAdded DEF c
<1> HIDE DEF c
<1>12. ASSUME NEW j \in 1 .. n
       PROVE  /\ l2[j].len = l[j].len
              /\ pos[j] = 0 => l2[j].hole
              /\ pos[j] # 0 => Entry(l2[j], pos[j], ps, st, off)
  <2>1. /\ l2[j].len = l[j].len /\ l2[j].hole = l[j].hole
        /\ l2[j].first = l[j].first /\ l2[j].granule = l[j].granule
        /\ l2[j].last => l[j].last \/ (page.eos /\ j = n + m)
    BY <1>7, <1>8, <1>9
  <2>2. pos[j] = 0 => l2[j].hole
    BY <1>2, <2>1
  <2>3. ASSUME pos[j] # 0 PROVE Entry(l2[j], pos[j], ps, st, off)
    <3>1. Entry(l[j], pos[j], ps, st, off)
      BY <1>2, <2>3
    <3>2. j # n + m
      <4> SUFFICES ASSUME j = n + m PROVE FALSE
        OBVIOUS
      <4>1. m = 0 /\ j = n
        BY <1>2, <1>5
      <4> QED
        BY <1>2, <1>4, <1>5, <2>3, <4>1
    <3> QED
      BY <2>1, <3>1, <3>2 DEF Entry
  <2> QED
    BY <2>1, <2>2, <2>3
<1>13. ASSUME NEW k \in 1 .. m PROVE Entry(l2[n + k], g + k, ps, st, off)
  <2> DEFINE j == n + k
             h == g + k
  <2>1. /\ l2[j].len = added[k].len /\ l2[j].hole = added[k].hole
        /\ l2[j].first = added[k].first /\ l2[j].granule = added[k].granule
        /\ l2[j].last => added[k].last \/ (page.eos /\ j = n + m)
    BY <1>7, <1>8, <1>9
  <2>2. Entry(added[k], h, ps, st, off)
    BY <1>6
  <2>3. j = n + m => h = e
    BY <1>2, <1>5
  <2>4. page.eos => e = Total(ps, st) /\ Len(ps) # 0 /\ ps[Len(ps)].e_o_s
    OBVIOUS
  <2> HIDE DEF j, h
  <2>5. Entry(l2[j], h, ps, st, off)
    BY <2>1, <2>2, <2>3, <2>4 DEF Entry
  <2> QED
    BY <2>5 DEF j, h
<1>14. n # 0 /\ m # 0 => Follow(pos[n], g + 1, l[n].len, off)
  <2> SUFFICES ASSUME n # 0, m # 0 PROVE Follow(pos[n], g + 1, l[n].len, off)
    OBVIOUS
  <2>1. \/ pos[n] # 0 /\ pos[n] = g
        \/ pos[n] = 0 /\ l[n] = HoleMark /\ Boundary(off, g)
    BY <1>4, <1>5 DEF Continues, n, g
  <2>2. g + 1 # 0 /\ (g + 1) - 1 = g
    BY <1>5
  <2> QED
    BY <2>1, <2>2 DEF Follow
<1>15. /\ View(l2, b \o c, w2, x, y, e, ps, st, off, bytes)
       /\ \A j \in 1 .. n : x[j] = pos[j]
       /\ \A k \in 1 .. m : x[n + k] = g + k
  <2>1. /\ View(l2, b \o c, w2, x, y, g + m, ps, st, off, bytes)
        /\ \A j \in 1 .. n : x[j] = pos[j]
        /\ \A k \in 1 .. m : x[n + k] = g + k
    <3>1. /\ top <= g /\ g + m <= Total(ps, st) /\ Len(l2) = Len(l) + m
          /\ Total(ps, st) \in Nat /\ Offsets(Total(ps, st), off, bytes)
          /\ g \in Nat /\ m \in Nat /\ l2 \in Seq(SegmentType)
      BY <1>3, <1>5, <1>8 DEF n, t
    <3>0. /\ View(l, b, w, pos, bo, top, ps, st, off, bytes) /\ top \in Nat
      OBVIOUS
    <3>2. \A j \in 1 .. Len(l) : /\ l2[j].len = l[j].len
                                 /\ pos[j] = 0 => l2[j].hole
                                 /\ pos[j] # 0 => Entry(l2[j], pos[j], ps, st, off)
      BY <1>12 DEF n
    <3>3. /\ \A k \in 1 .. m : Entry(l2[Len(l) + k], g + k, ps, st, off)
          /\ Len(l) # 0 /\ m # 0 => Follow(pos[Len(l)], g + 1, l[Len(l)].len, off)
      BY <1>13, <1>14 DEF n
    <3>4. /\ c \in Seq(Nat) /\ Len(c) = off[g + m] - off[g]
          /\ Copied(c, 0, off[g + m] - off[g], bytes, off[g])
      BY <1>5, <1>11
    <3>5. /\ w2 \in 0 .. Len(l) + m
          /\ w2 # 0 => l2[w2].len < Full
          /\ \A j \in w2 + 1 .. Len(l) + m : l2[j].len = Full
      BY <1>10 DEF n
    <3>6. Longer(l, l2, c, w2, pos, top, g, m, ps, st, off, bytes)
      BY <1>5, <3>1, <3>2, <3>3, <3>4, <3>5 DEF Longer
    <3> HIDE DEF w2, l, b, w, x, y
    <3>7. Joins(l, l2, b \o c, w2, pos, bo, Len(b), g, m, ps, st, off, bytes)
      BY ONLY <3>0, <3>1, <3>6, ViewJoin
    <3> QED
      BY <3>7 DEF Joins, x, y, n
  <2> QED
    BY <1>5, <2>1
<1> HIDE DEF x, y, w2
<1>16. /\ Begins(l2, x, ps, st, off, e, lam, lg)
       /\ Resume(l2, x, st, lam, lg, e, left)
  <2>1. m # 0 /\ n = 0 => Boundary(off, g) /\ (g = st[lam + 1] \/ Marked(lg))
    BY <1>4, <1>5 DEF g
  <2>2. m = 0 => \/ n = 0 /\ Marked(lg)
                 \/ n # 0 /\ pos[n] = 0 /\ l[n] = HoleMark
    BY <1>4, <1>5
  <2>3. m = 0 /\ left # 0 => l2 = l
    <3> SUFFICES ASSUME m = 0, left # 0 PROVE l2 = l
      OBVIOUS
    <3>1. l2 = all /\ added = <<>>
      BY <1>6, <1>8, EmptySeq
    <3> QED
      BY <1>2, <3>1 DEF all
  <2>4. /\ Starts(ps, st) /\ n \in Nat /\ Len(l) = n /\ a \in Nat /\ g \in Nat /\ m \in Nat
        /\ a <= g /\ e = g + m /\ a < e /\ Len(l2) = n + m
        /\ \A j \in 1 .. n : x[j] = pos[j]
        /\ \A k \in 1 .. m : x[n + k] = g + k
    BY <1>2, <1>3, <1>5, <1>7, <1>8, <1>15 DEF n
  <2> QED
    <3>1. Begins(l, pos, ps, st, off, top, lam, lg) /\ top \in Nat /\ top <= a
      OBVIOUS
    <3>2. Grown(l, l2, pos, x, a, g, m, e, left)
      BY <2>3, <2>4 DEF Grown, n
    <3>3. Len(l) = n
      BY DEF n
    <3> HIDE DEF l
    <3> QED
      BY ONLY <2>1, <2>2, <2>4, <3>1, <3>2, <3>3, TakenIn
<1>17. page.pageno = i - 1 /\ i - 1 + 1 = i
  BY DEF OnPage
<1>18. w2 \in Nat
  BY <1>2, <1>5, <1>10
<1>19. /\ z \in StreamState
       /\ z.lacing = l2 /\ z.body = b \o c /\ z.lacing_packet = w2
       /\ z.pageno = i
       /\ z.body_returned = os.body_returned
       /\ z.lacing_returned = os.lacing_returned
       /\ z.serialno = os.serialno /\ z.allocated = os.allocated
  <2>1. all \in Seq(SegmentType) /\ c \in Seq(Nat) /\ w2 \in Nat
    BY <1>7, <1>11, <1>18
  <2> HIDE DEF z
  <2>2. /\ z \in StreamState
        /\ z.lacing = l2 /\ z.body = b \o c /\ z.lacing_packet = w2
        /\ z.pageno = page.pageno + 1
        /\ z.body_returned = os.body_returned
        /\ z.lacing_returned = os.lacing_returned
        /\ z.serialno = os.serialno /\ z.allocated = os.allocated
    BY <2>1, TakeInParts DEF z, l2, w2, c, all, added, bos, s, n
  <2> QED
    BY <1>17, <2>2
<1> HIDE DEF z
<1>20. Holds(l2, b \o c, w2, e, ps, st, off, bytes, i, lam, lg, left, i)
  BY <1>15, <1>16 DEF Holds
<1> QED
  BY <1>19, <1>20 DEF z, TookIn

(* A decoder: what its reader has not taken yet is part of the stream, and
   page n is the last that came in.                                        *)
Decoder(d, ps, gs, st, off, bytes, cut, n, lam, lg) ==
  /\ d \in StreamState
  /\ d.allocated =>
       /\ d.serialno = Serial
       /\ d.lacing_returned <= d.lacing_packet /\ d.lacing_packet <= Len(d.lacing)
       /\ d.body_returned <= Len(d.body)
       /\ Holds(Drop(d.lacing, d.lacing_returned), Drop(d.body, d.body_returned),
                d.lacing_packet - d.lacing_returned, cut[n], ps, st, off, bytes,
                d.pageno, lam, lg, Len(gs) - n, n)

(* Dropping nothing changes nothing. *)
LEMMA DropNothing ==
  ASSUME NEW S, NEW s \in Seq(S)
  PROVE  Drop(s, 0) = s
<1>1. Len(s) \in Nat /\ s = [i \in 1 .. Len(s) |-> s[i]]
  BY LenProperties
<1>2. 0 \in 0 .. Len(s)
  BY <1>1
<1>3. /\ Drop(s, 0) \in Seq(S) /\ Len(Drop(s, 0)) = Len(s) - 0
      /\ \A i \in 1 .. Len(s) - 0 : Drop(s, 0)[i] = s[0 + i]
  BY <1>2, DropIs
<1>4. Len(s) - 0 = Len(s) /\ \A i \in 1 .. Len(s) : 0 + i = i
  BY <1>1
<1> DEFINE z == Drop(s, 0)
<1> HIDE DEF z
<1>5. z \in Seq(S) /\ Len(z) = Len(s) /\ \A i \in 1 .. Len(s) : z[i] = s[i]
  BY <1>3, <1>4 DEF z
<1>6. z = [i \in 1 .. Len(z) |-> z[i]]
  BY <1>5, LenProperties
<1>7. z = s
  BY <1>1, <1>5, <1>6
<1> QED
  BY <1>7 DEF z

(* Giving up what was handed out.                                          *)
LEMMA CleanIs ==
  ASSUME NEW d \in StreamState,
         d.lacing_returned <= d.lacing_packet, d.lacing_packet <= Len(d.lacing),
         d.body_returned <= Len(d.body)
  PROVE  LET z == CleanReturned(d)
         IN /\ z \in StreamState
            /\ z.lacing = Drop(d.lacing, d.lacing_returned)
            /\ z.body = Drop(d.body, d.body_returned)
            /\ z.lacing_packet = d.lacing_packet - d.lacing_returned
            /\ z.lacing_returned = 0 /\ z.body_returned = 0
            /\ z.pageno = d.pageno /\ z.serialno = d.serialno /\ z.allocated = d.allocated
<1> DEFINE l == d.lacing
           b == d.body
           lr == d.lacing_returned
           br == d.body_returned
           lp == d.lacing_packet
           l2 == Drop(l, lr)
           b2 == Drop(b, br)
           w == lp - lr
           z == CleanReturned(d)
<1>1. /\ l \in Seq(SegmentType) /\ b \in Seq(Nat) /\ lr \in Nat /\ br \in Nat /\ lp \in Nat
      /\ lr <= lp /\ lp <= Len(l) /\ br <= Len(b)
  BY DEF StreamState
<1>2. Len(l) \in Nat /\ Len(b) \in Nat
  BY <1>1, LenProperties
<1>3. z = [d EXCEPT !.body = b2, !.body_returned = 0, !.lacing = l2,
                    !.lacing_packet = w, !.lacing_returned = 0]
  BY DEF CleanReturned
<1> HIDE DEF l, b, lr, br, lp, z
<1>4. lr \in 0 .. Len(l) /\ br \in 0 .. Len(b) /\ w \in Nat
  BY <1>1, <1>2
<1>5. l2 \in Seq(SegmentType) /\ b2 \in Seq(Nat)
  BY <1>1, <1>4, DropIs
<1> HIDE DEF l2, b2, w
<1>6. /\ z \in StreamState
      /\ z.lacing = l2 /\ z.body = b2 /\ z.lacing_packet = w
      /\ z.lacing_returned = 0 /\ z.body_returned = 0
      /\ z.pageno = d.pageno /\ z.serialno = d.serialno /\ z.allocated = d.allocated
  BY <1>3, <1>4, <1>5 DEF StreamState
<1> QED
  BY <1>6 DEF l, b, lr, br, lp, l2, b2, w, z

(* What a page out of sequence leaves.                                     *)
LEMMA OutOfSequenceIs ==
  ASSUME NEW c \in StreamState, NEW kept, kept \in Seq(SegmentType),
         kept = Take(c.lacing, c.lacing_packet),
         NEW b, b \in Seq(Nat),
         b = Take(c.body, Len(c.body) - LacedBytes(Drop(c.lacing, c.lacing_packet)))
  PROVE  LET z == OutOfSequence(c)
         IN /\ z \in StreamState /\ z.body = b
            /\ z.lacing = IF c.pageno # -1 THEN Append(kept, HoleMark) ELSE kept
            /\ z.lacing_packet = IF c.pageno # -1 THEN c.lacing_packet + 1 ELSE c.lacing_packet
            /\ z.lacing_returned = c.lacing_returned /\ z.body_returned = c.body_returned
            /\ z.pageno = c.pageno /\ z.serialno = c.serialno /\ z.allocated = c.allocated
<1> DEFINE z == OutOfSequence(c)
           l == IF c.pageno # -1 THEN Append(kept, HoleMark) ELSE kept
           w == IF c.pageno # -1 THEN c.lacing_packet + 1 ELSE c.lacing_packet
<1>1. z = [c EXCEPT !.body = b, !.lacing = l, !.lacing_packet = w]
  BY DEF OutOfSequence
<1>2. l \in Seq(SegmentType)
  BY HoleMarkIs, AppendIs
<1>3. w \in Nat
  BY DEF StreamState
<1> HIDE DEF z, l, w
<1>4. /\ z \in StreamState /\ z.body = b /\ z.lacing = l /\ z.lacing_packet = w
      /\ z.lacing_returned = c.lacing_returned /\ z.body_returned = c.body_returned
      /\ z.pageno = c.pageno /\ z.serialno = c.serialno /\ z.allocated = c.allocated
  BY <1>1, <1>2, <1>3 DEF StreamState
<1> QED
  BY <1>4 DEF z, l, w

ReadyFor(r, ps, st, off, bytes, top, lam, lg, a, left) ==
  \E pos, bo :
    /\ View(r.lacing, r.body, r.lacing_packet, pos, bo, top, ps, st, off, bytes)
    /\ Begins(r.lacing, pos, ps, st, off, top, lam, lg)
    /\ Resume(r.lacing, pos, st, lam, lg, a, left)

Prepared(r, c, ps, st, off, bytes, top, lam, lg, a, left) ==
  /\ r \in StreamState
  /\ r.lacing_returned = c.lacing_returned /\ r.body_returned = c.body_returned
  /\ r.serialno = c.serialno /\ r.allocated = c.allocated
  /\ ReadyFor(r, ps, st, off, bytes, top, lam, lg, a, left)

Readied(c, j) == IF j # c.pageno THEN OutOfSequence(c) ELSE c

(* The decoder is ready for a page once a gap before it is marked.         *)
LEMMA ReadyIs ==
  ASSUME NEW ps, NEW st, NEW off, NEW bytes, NEW c \in StreamState, NEW n \in Nat,
         NEW top \in Nat, NEW lam, NEW lg, NEW left, NEW rest, NEW j \in Nat, NEW a,
         Holds(c.lacing, c.body, c.lacing_packet, top, ps, st, off, bytes, c.pageno,
               lam, lg, left, n),
         j = n => left = rest /\ a = top
  PROVE  Prepared(Readied(c, j), c, ps, st, off, bytes, top, lam, lg, a, rest)
<1> DEFINE r == Readied(c, j)
           l == c.lacing
           b == c.body
           w == c.lacing_packet
<1>1. PICK pos, bo :
        /\ View(l, b, w, pos, bo, top, ps, st, off, bytes)
        /\ Begins(l, pos, ps, st, off, top, lam, lg)
        /\ \/ c.pageno = n /\ Resume(l, pos, st, lam, lg, top, left)
           \/ c.pageno = -1 /\ Len(l) = 0 /\ Marked(lg)
  BY DEF Holds
<1>2. ViewFacts(l, b, w, pos, bo, top, ps, st, off, bytes)
  BY <1>1, ViewIs
<1>3. /\ l \in Seq(SegmentType) /\ b \in Seq(Nat) /\ Len(l) \in Nat /\ Len(b) \in Nat
      /\ w \in 0 .. Len(l) /\ w \in Nat /\ w <= Len(l)
      /\ bo[0] = 0 /\ bo[Len(l)] = Len(b)
      /\ bo[w] \in Nat /\ bo[w] <= Len(b)
  BY <1>2 DEF ViewFacts
<1>4. c.pageno = n \/ c.pageno = -1
  BY <1>1
<1> HIDE DEF l, b, w
<1>5. CASE j = c.pageno
  <2>1. r = c
    BY <1>5 DEF Readied
  <2>2. j # -1
    OBVIOUS
  <2>3. Resume(l, pos, st, lam, lg, top, left) /\ j = n
    BY <1>1, <1>5, <2>2
  <2>4. Resume(l, pos, st, lam, lg, a, rest)
    BY <2>3
  <2>5. ReadyFor(c, ps, st, off, bytes, top, lam, lg, a, rest)
    BY <1>1, <2>4 DEF ReadyFor, l, b, w
  <2> HIDE DEF r
  <2> QED
    BY <2>1, <2>5 DEF r, Prepared
<1>6. CASE j # c.pageno
  <2> DEFINE kept == Take(l, w)
             o == bo[w]
             b2 == Take(b, o)
             l2 == IF c.pageno # -1 THEN Append(kept, HoleMark) ELSE kept
             w2 == IF c.pageno # -1 THEN w + 1 ELSE w
  <2>1. Len(b) - LacedBytes(Drop(l, w)) = o
    <3> DEFINE d == LacedBytes(Drop(l, w))
    <3>1. d = Len(b) - o
      <4>1. View(l, b, w, pos, bo, top, ps, st, off, bytes) /\ w \in 0 .. Len(l) /\ top \in Nat
        BY <1>1, <1>3
      <4>2. Rest(l, w, b, bo)
        BY ONLY <4>1, ViewRest
      <4> QED
        BY <4>2 DEF Rest
    <3> HIDE DEF d, o
    <3>2. o \in Nat
      BY <1>3 DEF o
    <3>3. Len(b) - d = o
      BY <1>3, <3>1, <3>2
    <3> QED
      BY <3>3 DEF d
  <2>2. kept \in Seq(SegmentType) /\ Len(kept) = w
    BY <1>3, TakeIs
  <2>3. b2 \in Seq(Nat) /\ Len(b2) = o
    <3>1. b \in Seq(Nat) /\ o \in 0 .. Len(b)
      BY <1>3
    <3> HIDE DEF o
    <3> QED
      BY ONLY <3>1, TakeIs DEF b2
  <2>4. /\ r \in StreamState /\ r.body = b2 /\ r.lacing = l2 /\ r.lacing_packet = w2
        /\ r.lacing_returned = c.lacing_returned /\ r.body_returned = c.body_returned
        /\ r.serialno = c.serialno /\ r.allocated = c.allocated
    <3> DEFINE z == OutOfSequence(c)
    <3>1. r = z
      BY <1>6 DEF Readied
    <3>2. b2 = Take(b, Len(b) - LacedBytes(Drop(l, w)))
      BY <2>1
    <3> HIDE DEF kept, b2, o, z, r
    <3>3. /\ z \in StreamState /\ z.body = b2
          /\ z.lacing = IF c.pageno # -1 THEN Append(kept, HoleMark) ELSE kept
          /\ z.lacing_packet = IF c.pageno # -1 THEN c.lacing_packet + 1 ELSE c.lacing_packet
          /\ z.lacing_returned = c.lacing_returned /\ z.body_returned = c.body_returned
          /\ z.pageno = c.pageno /\ z.serialno = c.serialno /\ z.allocated = c.allocated
      <4>1. /\ kept \in Seq(SegmentType) /\ kept = Take(c.lacing, c.lacing_packet)
            /\ b2 \in Seq(Nat)
            /\ b2 = Take(c.body, Len(c.body) - LacedBytes(Drop(c.lacing, c.lacing_packet)))
        BY <2>2, <2>3, <3>2 DEF kept, l, b, w
      <4> QED
        BY <4>1, OutOfSequenceIs DEF z
    <3> QED
      BY <3>1, <3>3 DEF w
  <2> HIDE DEF r
  <2>5. CASE c.pageno # -1
    <3> DEFINE x == HolePos(pos, w)
               y == HoleBytes(bo, w)
    <3>1. l2 = Append(kept, HoleMark) /\ w2 = w + 1
      BY <2>5
    <3> HIDE DEF l2, w2
    <3>2. /\ View(Append(Take(l, w), HoleMark), Take(b, bo[w]), w + 1, HolePos(pos, w),
                 HoleBytes(bo, w), top, ps, st, off, bytes)
          /\ Len(Append(Take(l, w), HoleMark)) = w + 1 /\ w \in Nat
          /\ Append(Take(l, w), HoleMark)[w + 1] = HoleMark
          /\ HolePos(pos, w)[w + 1] = 0
          /\ \A i \in 1 .. w : i \in 1 .. Len(l) /\ HolePos(pos, w)[i] = pos[i]
      BY ONLY <1>1, top \in Nat, ViewHole
    <3>3. /\ View(l2, b2, w2, x, y, top, ps, st, off, bytes)
          /\ Len(l2) = w + 1 /\ l2[w + 1] = HoleMark /\ x[w + 1] = 0
          /\ \A i \in 1 .. w : i \in 1 .. Len(l) /\ x[i] = pos[i]
      BY <3>1, <3>2
    <3> HIDE DEF x, y, b2, kept
    <3>4. Begins(l2, x, ps, st, off, top, lam, lg)
      <4>1. /\ lam \in 0 .. Len(ps) /\ st[lam + 1] <= top
            /\ \A i \in 1 .. Len(l) : pos[i] # 0 => st[lam + 1] < pos[i]
            /\ Len(l) # 0 /\ pos[1] # 0 =>
                 Boundary(off, pos[1] - 1) /\ (pos[1] = st[lam + 1] + 1 \/ Marked(lg))
        BY <1>1 DEF Begins
      <4>2. \A i \in 1 .. w + 1 : i \in 1 .. w \/ i = w + 1
        BY <1>3
      <4>3. \A i \in 1 .. w + 1 : x[i] # 0 => st[lam + 1] < x[i]
        BY <3>3, <4>1, <4>2
      <4>4. x[1] # 0 => 1 \in 1 .. w
        <5>1. 1 \in 1 .. w + 1
          BY <1>3
        <5> QED
          BY <3>3, <4>2, <5>1
      <4>5. x[1] # 0 => Boundary(off, x[1] - 1) /\ (x[1] = st[lam + 1] + 1 \/ Marked(lg))
        <5>1. 1 \in 1 .. w => Len(l) # 0
          BY <1>3
        <5> QED
          BY <3>3, <4>1, <4>4, <5>1
      <4> QED
        BY <3>3, <4>1, <4>3, <4>5 DEF Begins
    <3>5. Resume(l2, x, st, lam, lg, a, rest)
      <4>1. w + 1 # 0
        BY <1>3
      <4> QED
        BY <3>3, <4>1 DEF Resume
    <3>6. ReadyFor(r, ps, st, off, bytes, top, lam, lg, a, rest)
      BY <2>4, <3>3, <3>4, <3>5 DEF ReadyFor
    <3> QED
      BY <2>4, <3>6 DEF r, Prepared
  <2>6. CASE c.pageno = -1
    <3>1. Len(l) = 0 /\ Marked(lg)
      BY <1>1, <2>6
    <3>2. w = 0 /\ o = 0 /\ Len(b) = 0
      BY <1>3, <3>1
    <3>3. kept = l /\ b2 = b
      <4>1. kept = <<>> /\ b2 = <<>> /\ l = <<>> /\ b = <<>>
        BY <1>3, <2>2, <2>3, <3>1, <3>2, EmptySeq
      <4> QED
        BY <4>1
    <3>4. l2 = l /\ w2 = w
      BY <2>6, <3>3
    <3>5. Resume(l, pos, st, lam, lg, a, rest)
      BY <3>1 DEF Resume
    <3> HIDE DEF l2, w2, b2, kept
    <3>6. ReadyFor(r, ps, st, off, bytes, top, lam, lg, a, rest)
      BY <1>1, <2>4, <3>3, <3>4, <3>5 DEF ReadyFor
    <3> QED
      BY <2>4, <3>6 DEF r, Prepared
  <2> QED
    BY <2>5, <2>6
<1> QED
  BY <1>5, <1>6

(* A decoder that has given up what was handed out.                        *)
LEMMA FreshDecoder ==
  ASSUME NEW d \in StreamState, d.lacing_returned = 0, d.body_returned = 0,
         d.serialno = Serial,
         NEW ps, NEW gs, NEW st, NEW off, NEW bytes, NEW cut, NEW n, cut[n] \in Nat,
         NEW lam, NEW lg,
         Holds(d.lacing, d.body, d.lacing_packet, cut[n], ps, st, off, bytes,
               d.pageno, lam, lg, Len(gs) - n, n)
  PROVE  Decoder(d, ps, gs, st, off, bytes, cut, n, lam, lg)
<1>1. /\ d.lacing \in Seq(SegmentType) /\ d.body \in Seq(Nat) /\ d.lacing_packet \in Nat
  BY DEF StreamState
<1>2. Drop(d.lacing, 0) = d.lacing /\ Drop(d.body, 0) = d.body /\ d.lacing_packet - 0 = d.lacing_packet
  <2>1. Drop(d.lacing, 0) = d.lacing
    BY <1>1, DropNothing
  <2>2. Drop(d.body, 0) = d.body
    BY <1>1, DropNothing
  <2> QED
    BY <1>1, <2>1, <2>2
<1>3. Len(d.body) \in Nat
  BY <1>1, LenProperties
<1>4. d.lacing_packet <= Len(d.lacing)
  <2>1. PICK pos, bo : View(d.lacing, d.body, d.lacing_packet, pos, bo, cut[n], ps, st, off, bytes)
    BY DEF Holds
  <2>2. d.lacing_packet \in 0 .. Len(d.lacing)
    BY <2>1 DEF View, Shape
  <2>3. Len(d.lacing) \in Nat
    BY <1>1, LenProperties
  <2> QED
    BY <2>2, <2>3
<1>5. 0 <= d.lacing_packet /\ 0 <= Len(d.body)
  BY <1>1, <1>3
<1>6. Holds(Drop(d.lacing, d.lacing_returned), Drop(d.body, d.body_returned),
            d.lacing_packet - d.lacing_returned, cut[n], ps, st, off, bytes,
            d.pageno, lam, lg, Len(gs) - n, n)
  BY <1>2
<1>7. d.lacing_returned <= d.lacing_packet /\ d.body_returned <= Len(d.body)
  BY <1>5
<1> QED
  BY <1>4, <1>6, <1>7 DEF Decoder

(* Pagein: a page of another stream changes nothing, a page of this one
   becomes the last that came in.                                          *)
LEMMA PageinIs ==
  ASSUME NEW ps, NEW st, NEW off, NEW bytes, Streamed(ps, st, off, bytes),
         NEW gs, NEW cut, Paged(ps, gs, st, off, bytes, cut), NEW n \in 0 .. Len(gs),
         NEW lam, NEW lg, NEW d, Decoder(d, ps, gs, st, off, bytes, cut, n, lam, lg),
         NEW page \in Page, NEW ex \in BOOLEAN
  PROVE  /\ page.serialno # Serial =>
              Decoder(Pagein(d, page, ex).os, ps, gs, st, off, bytes, cut, n, lam, lg)
         /\ \A j \in n + 1 .. Len(gs) : page = gs[j] =>
              Decoder(Pagein(d, page, ex).os, ps, gs, st, off, bytes, cut, j, lam, lg)
<1> DEFINE z == Pagein(d, page, ex).os
           clean == CleanReturned(d)
           ready == Readied(clean, page.pageno)
           t == Total(ps, st)
           m == Len(gs)
<1>1. d \in StreamState
  BY DEF Decoder
<1>2. CASE ~d.allocated
  <2>1. z = d
    BY <1>2 DEF Pagein, StreamCheck
  <2> HIDE DEF z
  <2> QED
    BY <1>1, <1>2, <2>1 DEF Decoder, z
<1>3. CASE d.allocated
  <2>1. /\ d.serialno = Serial
        /\ d.lacing_returned <= d.lacing_packet /\ d.lacing_packet <= Len(d.lacing)
        /\ d.body_returned <= Len(d.body)
        /\ Holds(Drop(d.lacing, d.lacing_returned), Drop(d.body, d.body_returned),
                 d.lacing_packet - d.lacing_returned, cut[n], ps, st, off, bytes,
                 d.pageno, lam, lg, m - n, n)
    BY <1>3 DEF Decoder
  <2>2. /\ clean \in StreamState
        /\ clean.lacing = Drop(d.lacing, d.lacing_returned)
        /\ clean.body = Drop(d.body, d.body_returned)
        /\ clean.lacing_packet = d.lacing_packet - d.lacing_returned
        /\ clean.lacing_returned = 0 /\ clean.body_returned = 0
        /\ clean.pageno = d.pageno /\ clean.serialno = d.serialno
        /\ clean.allocated = d.allocated
    BY <1>1, <2>1, CleanIs
  <2> HIDE DEF clean
  <2>3. Holds(clean.lacing, clean.body, clean.lacing_packet, cut[n], ps, st, off, bytes,
              clean.pageno, lam, lg, m - n, n)
    BY <2>1, <2>2
  <2>4. gs \in Seq(Page) /\ m \in Nat /\ Cuts(m, t, cut) /\ t \in Nat /\ n \in Nat
    <3>1. gs \in Seq(Page) /\ Cuts(m, t, cut)
      BY DEF Paged
    <3>2. m \in Nat
      BY <3>1, LenProperties
    <3>3. Starts(ps, st)
      BY DEF Streamed
    <3>4. ps \in Seq(Packet)
      BY <3>3 DEF Starts
    <3>5. Len(ps) \in Nat
      BY <3>4, LenProperties
    <3>6. 1 \in 1 .. Len(ps) + 1
      BY <3>5
    <3>7. t \in Nat
      BY <3>3, <3>6, StartIs
    <3> QED
      BY <3>1, <3>2, <3>7
  <2>5. /\ \A i \in 0 .. m : cut[i] \in 0 .. t /\ cut[i] \in Nat
        /\ \A i \in 1 .. m : /\ i - 1 \in 0 .. m /\ i \in 0 .. m
                             /\ cut[i - 1] < cut[i]
        /\ \A i, j \in 0 .. m : i <= j => cut[i] <= cut[j]
        /\ \A i, j \in 0 .. m : cut[i] = cut[j] => i = j
    BY <2>4, CutIs
  <2>6. ASSUME page.serialno # Serial
        PROVE  Decoder(z, ps, gs, st, off, bytes, cut, n, lam, lg)
    <3>1. z = clean
      BY <1>3, <2>1, <2>6 DEF Pagein, StreamCheck, clean
    <3> HIDE DEF z
    <3>2. cut[n] \in Nat
      BY <2>5
    <3> QED
      BY <2>1, <2>2, <2>3, <3>1, <3>2, FreshDecoder
  <2>7. ASSUME NEW j \in n + 1 .. m, page = gs[j]
        PROVE  Decoder(z, ps, gs, st, off, bytes, cut, j, lam, lg)
    <3> DEFINE k == j - 1
               a == cut[k]
               e == cut[j]
               top == cut[n]
               rest == (m - j) + 1
    <3>1. /\ j \in 1 .. m /\ j \in Nat /\ k \in Nat /\ k \in 0 .. m /\ j \in 0 .. m
          /\ n \in 0 .. m /\ n <= k /\ m - j \in Nat /\ k + 1 = j /\ 0 \in 0 .. m
          /\ (k = n => m - n = rest)
      BY <2>4
    <3>2. /\ OnPage(page, j, ps, st, off, bytes, a, e)
          /\ page.eos => /\ j = m /\ e = t
                         /\ Len(ps) # 0 /\ ps[Len(ps)].e_o_s
      BY <2>7, <3>1 DEF Paged
    <3>3. page.serialno = Serial /\ page.pageno = k
      BY <3>2 DEF OnPage
    <3>4. /\ a \in 0 .. t /\ e \in a + 1 .. t /\ top \in Nat /\ top <= a /\ e \in Nat
          /\ (j = 1 <=> a = 0)
      <4>1. a \in 0 .. t /\ e \in 0 .. t /\ a < e /\ top \in Nat /\ top <= a /\ e \in Nat
        BY <2>5, <3>1
      <4>2. j = 1 <=> k = 0
        BY <3>1
      <4>3. cut[0] = 0
        BY <2>4 DEF Cuts
      <4>4. a = 0 <=> k = 0
        BY <2>5, <3>1, <4>3
      <4> QED
        BY <2>4, <4>1, <4>2, <4>4
    <3>5. CASE ~ex
      <4>1. z = Zeroed
        BY <1>3, <2>1, <3>3, <3>5 DEF Pagein, StreamCheck, StreamClear
      <4> HIDE DEF z
      <4>2. Zeroed \in StreamState /\ ~Zeroed.allocated
        BY FreshStream
      <4> QED
        BY <4>1, <4>2 DEF Decoder
    <3>6. CASE ex
      <4>1. z = TakeIn(ready, page)
        BY <1>3, <2>1, <3>3, <3>6 DEF Pagein, StreamCheck, clean, Readied
      <4>2. /\ ready \in StreamState
            /\ ready.lacing_returned = clean.lacing_returned
            /\ ready.body_returned = clean.body_returned
            /\ ready.serialno = clean.serialno /\ ready.allocated = clean.allocated
            /\ ReadyFor(ready, ps, st, off, bytes, top, lam, lg, a, rest)
        <5> DEFINE left == m - n
        <5>1. Holds(clean.lacing, clean.body, clean.lacing_packet, top, ps, st, off, bytes,
                    clean.pageno, lam, lg, left, n)
          BY <2>3
        <5>2. k = n => left = rest /\ a = top
          BY <3>1
        <5>3. ready = Readied(clean, k)
          BY <3>3
        <5>4. top \in Nat /\ k \in Nat /\ clean \in StreamState /\ n \in Nat
          BY <2>2, <2>4, <3>1, <3>4
        <5> HIDE DEF left, rest, a, top, k, ready
        <5>5. Prepared(Readied(clean, k), clean, ps, st, off, bytes, top, lam, lg, a, rest)
          BY ONLY <5>1, <5>2, <5>4, ReadyIs
        <5> QED
          BY <5>3, <5>5 DEF Prepared
      <4> HIDE DEF z, ready
      <4>3. PICK pos, bo :
              /\ View(ready.lacing, ready.body, ready.lacing_packet, pos, bo, top,
                      ps, st, off, bytes)
              /\ Begins(ready.lacing, pos, ps, st, off, top, lam, lg)
              /\ Resume(ready.lacing, pos, st, lam, lg, a, rest)
        BY <4>2 DEF ReadyFor
      <4>4. /\ z \in StreamState
            /\ z.body_returned = ready.body_returned
            /\ z.lacing_returned = ready.lacing_returned
            /\ z.serialno = ready.serialno /\ z.allocated = ready.allocated
            /\ Holds(z.lacing, z.body, z.lacing_packet, e, ps, st, off, bytes, z.pageno,
                     lam, lg, m - j, j)
        <5> DEFINE left == m - j
        <5>1. left \in Nat /\ rest = left + 1 /\ (j = m => left = 0)
          BY <2>4, <3>1
        <5>2. page.eos => left = 0 /\ e = Total(ps, st) /\ Len(ps) # 0 /\ ps[Len(ps)].e_o_s
          BY <3>2, <5>1
        <5>3. Resume(ready.lacing, pos, st, lam, lg, a, rest)
          BY <4>3
        <5> HIDE DEF left, rest, a, e, top
        <5>4. /\ Streamed(ps, st, off, bytes) /\ page \in Page /\ j \in Nat
              /\ a \in 0 .. Total(ps, st) /\ e \in a + 1 .. Total(ps, st)
              /\ OnPage(page, j, ps, st, off, bytes, a, e)
              /\ (j = 1 <=> a = 0)
              /\ ready \in StreamState /\ top \in Nat /\ top <= a
          BY <3>1, <3>2, <3>4, <4>2
        <5>5. TookIn(TakeIn(ready, page), ready, e, ps, st, off, bytes, lam, lg, left, j)
          BY ONLY <4>3, <5>1, <5>2, <5>3, <5>4, TakeInIs
        <5> QED
          BY <4>1, <5>5 DEF TookIn, left, e
      <4>5. cut[j] \in Nat /\ z.lacing_returned = 0 /\ z.body_returned = 0
            /\ z.serialno = Serial
        BY <2>1, <2>2, <3>4, <4>2, <4>4
      <4> QED
        BY <4>4, <4>5, FreshDecoder
    <3> QED
      BY <3>5, <3>6
  <2> QED
    BY <2>6, <2>7
<1> QED
  BY <1>2, <1>3

(* The first q segments are those of packet k.                             *)
Run(pos, st, k, q) ==
  /\ \A i \in 1 .. q : pos[i] = st[k] + i
  /\ st[k + 1] = st[k] + q

(* q segments, the last of which says that the packet ends.                *)
OnePacket(l, q) ==
  /\ q \in 1 .. Len(l) /\ l[q].len < Full
  /\ \A i \in 1 .. q - 1 : ~(l[i].len < Full)

(* They are those of a packet after the last one, and of the next one
   unless the reader was told of a gap.                                    *)
LEMMA RunIs ==
  ASSUME NEW ps, NEW st, NEW off, NEW bytes, Streamed(ps, st, off, bytes),
         NEW l, NEW b, NEW w, NEW pos, NEW bo, NEW top \in Nat,
         View(l, b, w, pos, bo, top, ps, st, off, bytes), top <= Total(ps, st),
         NEW lam, NEW lg, Begins(l, pos, ps, st, off, top, lam, lg),
         pos[1] # 0, NEW q, OnePacket(l, q)
  PROVE  \E k \in 1 .. Len(ps) :
           k > lam /\ (k = lam + 1 \/ Marked(lg)) /\ Run(pos, st, k, q)
<1> DEFINE n == Len(l)
           t == Total(ps, st)
           np == Len(ps)
<1>1. ViewFacts(l, b, w, pos, bo, top, ps, st, off, bytes)
  BY ViewIs
<1>2. /\ n \in Nat
      /\ \A i \in 1 .. n : /\ pos[i] \in 0 .. top /\ pos[i] \in Nat
                           /\ pos[i] # 0 => Entry(l[i], pos[i], ps, st, off)
      /\ \A i \in 1 .. n - 1 : Follow(pos[i], pos[i + 1], l[i].len, off)
  BY <1>1 DEF ViewFacts
<1>3. /\ q \in 1 .. n /\ l[q].len < Full
      /\ \A i \in 1 .. q - 1 : ~(l[i].len < Full)
  BY DEF OnePacket
<1>4. Starts(ps, st) /\ Marks(ps, st, off)
  BY DEF Streamed
<1>5. np \in Nat
  BY <1>4, LenProperties DEF Starts
<1>6. /\ \A j, k \in 1 .. np + 1 : j < k => st[j] < st[k]
      /\ \A k \in 1 .. np + 1 : st[k] \in Nat
      /\ t = st[np + 1]
  BY <1>4 DEF Starts, Total
<1>7. /\ lam \in 0 .. np
      /\ \A i \in 1 .. n : pos[i] # 0 => st[lam + 1] < pos[i]
      /\ n # 0 => Boundary(off, pos[1] - 1) /\ (pos[1] = st[lam + 1] + 1 \/ Marked(lg))
  BY DEF Begins
<1>8. t \in Nat /\ top <= t /\ top \in Nat
  <2>1. np + 1 \in 1 .. np + 1
    BY <1>5
  <2> QED
    BY <1>6, <2>1
<1> HIDE DEF n, t, np
<1>9. 1 \in 1 .. n /\ q \in Nat /\ n # 0 /\ q \in 1 .. n /\ q # 0
  BY <1>2, <1>3
<1>10. pos[1] - 1 \in 0 .. t /\ pos[1] \in Nat /\ pos[1] <= t
  <2> DEFINE p == pos[1]
  <2>1. p \in 0 .. top /\ p # 0
    BY <1>2, <1>9
  <2> HIDE DEF p
  <2>2. p - 1 \in 0 .. t /\ p \in Nat /\ p <= t
    BY <1>8, <2>1
  <2> QED
    BY <2>2 DEF p
<1>11. PICK k \in 1 .. np + 1 : pos[1] - 1 = st[k]
  <2> DEFINE g == pos[1] - 1
  <2>1. g \in 0 .. Total(ps, st) /\ Boundary(off, g)
    BY <1>7, <1>9, <1>10 DEF t
  <2> HIDE DEF g
  <2>2. \E k \in 1 .. Len(ps) + 1 : g = st[k]
    BY <1>4, <2>1, BoundaryIs
  <2> QED
    BY <2>2 DEF g, np
<1> DEFINE s == st[k]
           e == st[k + 1]
<1>12. s \in Nat /\ pos[1] = s + 1
  BY <1>6, <1>10, <1>11
<1>13. k \in 1 .. np
  <2>1. k # np + 1
    BY <1>6, <1>8, <1>10, <1>12
  <2> QED
    BY <1>5, <2>1
<1>14. k + 1 \in 1 .. np + 1 /\ k \in 1 .. np + 1
  BY <1>5, <1>13
<1>15. e \in Nat /\ s < e
  BY <1>6, <1>14
<1> HIDE DEF s, e
<1>16. \A i \in 1 .. q : pos[i] = s + i
  <2> DEFINE T == {i \in 0 .. q : i # 0 => pos[i] = s + i}
  <2>1. 0 \in T
    BY <1>9
  <2>2. ASSUME NEW i \in 0 .. q - 1, i \in T PROVE i + 1 \in T
    <3>1. i + 1 \in 0 .. q /\ i + 1 \in 1 .. q
      BY <1>9
    <3>2. CASE i = 0
      BY <1>12, <3>1, <3>2
    <3>3. CASE i # 0
      <4>1. i \in 1 .. q - 1 /\ i \in 1 .. n - 1 /\ i \in 1 .. n /\ i + 1 \in 1 .. n /\ i \in Nat
        BY <1>2, <1>9, <3>3
      <4>2. Follow(pos[i], pos[i + 1], l[i].len, off) /\ pos[i] = s + i /\ pos[i] # 0
        BY <1>2, <1>12, <2>2, <3>3, <4>1
      <4>3. pos[i + 1] # 0
        BY <1>3, <4>1, <4>2 DEF Follow
      <4>4. pos[i + 1] = pos[i] + 1
        BY <4>2, <4>3 DEF Follow
      <4>5. pos[i + 1] = s + (i + 1)
        BY <1>12, <4>1, <4>2, <4>4
      <4> QED
        BY <3>1, <4>5
    <3> QED
      BY <3>2, <3>3
  <2> HIDE DEF T
  <2>3. \A i \in 0 .. q : i \in T
    BY <1>9, <2>1, <2>2, UpTo
  <2>4. \A i \in 1 .. q : i \in 0 .. q /\ i # 0
    OBVIOUS
  <2> QED
    BY <2>3, <2>4 DEF T
<1>17. ASSUME NEW i \in 1 .. q
       PROVE  /\ l[i].len = off[s + i] - off[(s + i) - 1] /\ s + i \in 1 .. t /\ s + i \in Nat
              /\ l[i].len < Full <=> \E j \in 1 .. np : s + i = st[j + 1]
  <2>1. i \in 1 .. n /\ i \in Nat /\ i >= 1
    BY <1>2, <1>9
  <2>2. pos[i] = s + i /\ pos[i] \in 0 .. top
    BY <1>2, <1>16, <2>1
  <2>3. s + i \in 1 .. t /\ s + i # 0 /\ s + i \in Nat
    BY <1>8, <1>12, <2>1, <2>2
  <2>4. Entry(l[i], s + i, ps, st, off)
    BY <1>2, <2>1, <2>2, <2>3
  <2> DEFINE g == s + i
  <2> HIDE DEF g
  <2>5. l[i].len = off[g] - off[g - 1] /\ g \in 1 .. t
    BY <2>3, <2>4 DEF Entry, g
  <2>6. off[g] - off[g - 1] < Full <=> \E j \in 1 .. np : g = st[j + 1]
    BY <1>4, <2>5 DEF Marks, t, np
  <2> QED
    BY <2>3, <2>5, <2>6 DEF g
<1>18. PICK j \in 1 .. np : s + q = st[j + 1]
  <2>1. q \in 1 .. q
    BY <1>9
  <2> QED
    BY <1>3, <1>17, <2>1
<1>19. e >= s + q
  <2> SUFFICES ASSUME e < s + q PROVE FALSE
    BY <1>9, <1>12, <1>15
  <2> DEFINE h == e - s
  <2>1. h \in 1 .. q - 1 /\ h \in 1 .. q /\ s + h = e
    BY <1>9, <1>12, <1>15
  <2> HIDE DEF h
  <2>2. l[h].len < Full
    BY <1>13, <1>17, <2>1 DEF e
  <2> QED
    BY <1>3, <2>1, <2>2
<1>20. j >= k
  <2> SUFFICES ASSUME ~(j >= k) PROVE FALSE
    OBVIOUS
  <2>1. j + 1 <= k /\ j + 1 \in 1 .. np + 1 /\ (j + 1 = k \/ j + 1 < k)
    BY <1>5, <1>13
  <2>2. st[j + 1] <= s
    BY <1>6, <1>12, <1>14, <2>1 DEF s
  <2> QED
    BY <1>9, <1>12, <1>18, <2>2
<1>21. s + q = e
  <2>1. j + 1 \in 1 .. np + 1 /\ (j + 1 = k + 1 \/ k + 1 < j + 1)
    BY <1>5, <1>13, <1>20
  <2>2. e <= st[j + 1]
    BY <1>6, <1>14, <1>15, <2>1 DEF e
  <2> QED
    BY <1>9, <1>12, <1>15, <1>18, <1>19, <2>2
<1>22. Run(pos, st, k, q)
  BY <1>16, <1>21 DEF Run, s, e
<1>23. k > lam /\ (k = lam + 1 \/ Marked(lg))
  <2> DEFINE a == st[lam + 1]
  <2>1. lam \in Nat /\ lam + 1 \in 1 .. np + 1 /\ a \in Nat
    <3>1. lam \in Nat /\ lam + 1 \in 1 .. np + 1
      BY <1>5, <1>7
    <3> QED
      BY <1>6, <3>1
  <2>2. a < s + 1
    BY <1>7, <1>9, <1>12
  <2>3. k > lam
    <3> SUFFICES ASSUME ~(k > lam) PROVE FALSE
      OBVIOUS
    <3>1. k < lam + 1
      BY <1>13, <2>1
    <3>2. s < a
      BY <1>6, <1>14, <2>1, <3>1 DEF s
    <3> QED
      BY <1>12, <2>1, <2>2, <3>2
  <2>4. ASSUME ~Marked(lg) PROVE k = lam + 1
    <3>1. pos[1] = a + 1
      BY <1>7, <1>9, <2>4
    <3>2. a = s
      BY <1>12, <2>1, <3>1
    <3>3. ~(lam + 1 < k)
      BY <1>6, <1>12, <1>14, <2>1, <3>2 DEF s
    <3> QED
      BY <1>13, <2>1, <2>3, <3>3
  <2> QED
    BY <2>3, <2>4
<1> QED
  BY <1>13, <1>22, <1>23 DEF np

(* Two sequences with the same elements.                                   *)
LEMMA SameSeq ==
  ASSUME NEW S, NEW s \in Seq(S), NEW t \in Seq(S), NEW n, Len(s) = n, Len(t) = n,
         \A i \in 1 .. n : s[i] = t[i]
  PROVE  s = t
<1>1. s = [i \in 1 .. n |-> s[i]] /\ t = [i \in 1 .. n |-> t[i]]
  BY LenProperties
<1> QED
  BY <1>1

(* The bytes of the segments of a packet are those of the packet.          *)
Spelled(b, ps, k, n) == n = Len(ps[k].packet) /\ Take(b, n) = ps[k].packet

(* A run of lacing values the decoder holds whole spells its packet's *)
(* bytes.                                                             *)
LEMMA RunBytes ==
  ASSUME NEW ps, NEW st, NEW off, NEW bytes, Streamed(ps, st, off, bytes),
         NEW l, NEW b, NEW w, NEW pos, NEW bo, NEW top \in Nat,
         View(l, b, w, pos, bo, top, ps, st, off, bytes),
         NEW k \in 1 .. Len(ps), NEW q, OnePacket(l, q), Run(pos, st, k, q)
  PROVE  Spelled(b, ps, k, bo[q])
<1> DEFINE t == Total(ps, st)
           n == Len(l)
           s == st[k]
           e == st[k + 1]
           y == ps[k].packet
           f == SubSeq(bytes, off[s] + 1, off[e])
<1>1. ViewFacts(l, b, w, pos, bo, top, ps, st, off, bytes)
  BY ViewIs
<1>2. /\ n \in Nat /\ b \in Seq(Nat) /\ Len(b) \in Nat /\ bo[0] = 0
      /\ \A i \in 1 .. n : /\ bo[i] = bo[i - 1] + l[i].len /\ l[i].len \in Nat
                           /\ pos[i] # 0 => /\ Entry(l[i], pos[i], ps, st, off)
                                            /\ Copied(b, bo[i - 1], l[i].len, bytes, off[pos[i] - 1])
      /\ \A i \in 0 .. n : bo[i] \in Nat /\ bo[i] <= Len(b)
  BY <1>1 DEF ViewFacts
<1>3. q \in 1 .. n
  BY DEF OnePacket
<1>4. k \in 1 .. Len(ps) + 1 /\ k # Len(ps) + 1
  <2>1. ps \in Seq(Packet)
    BY DEF Streamed, Starts
  <2>2. Len(ps) \in Nat
    BY <2>1, LenProperties
  <2> QED
    BY <2>2
<1>5. s \in 0 .. t /\ s \in Nat /\ t \in Nat /\ s < e /\ e \in 1 .. t
  BY <1>4, StartIs DEF Streamed
<1>6. /\ \A g \in 0 .. t : off[g] \in Nat
      /\ \A g, h \in 0 .. t : g <= h => off[g] <= off[h]
      /\ bytes \in Seq(Nat) /\ Len(bytes) = off[t]
  BY DEF Streamed, Offsets
<1>7. y = f
  BY DEF Streamed, Contents
<1>8. e = s + q /\ \A i \in 1 .. q : pos[i] = s + i
  BY DEF Run
<1> HIDE DEF t, n, s, e, y, f
<1>9. \A i \in 0 .. q : s + i \in 0 .. t /\ i \in 0 .. n
  BY <1>2, <1>3, <1>5, <1>8
<1> DEFINE T == {i \in 0 .. q : /\ bo[i] = off[s + i] - off[s]
                                /\ \A j \in 1 .. bo[i] : b[j] = bytes[off[s] + j]}
<1>10. \A i \in 0 .. q : i \in T
  <2>1. 0 \in T
    <3>1. s + 0 = s /\ 0 \in 0 .. q
      BY <1>3, <1>5
    <3>2. off[s] - off[s] = 0
      BY <1>5, <1>6
    <3> QED
      BY <1>2, <3>1, <3>2
  <2>2. ASSUME NEW i \in 0 .. q - 1, i \in T PROVE i + 1 \in T
    <3>1. i + 1 \in 1 .. n /\ i + 1 \in 1 .. q /\ i + 1 \in 0 .. q /\ i \in 0 .. q
          /\ (i + 1) - 1 = i /\ i + 1 \in 0 .. n /\ i \in 0 .. n
      BY <1>2, <1>3
    <3> DEFINE u == i + 1
    <3>2. pos[u] = s + u /\ pos[u] # 0 /\ (s + u) - 1 = s + i /\ s + u \in 0 .. t
      <4>1. pos[u] = s + u
        BY <1>8, <3>1
      <4>2. s + u # 0 /\ (s + u) - 1 = s + i
        BY <1>5, <3>1
      <4> HIDE DEF u
      <4> QED
        BY <1>9, <3>1, <4>1, <4>2 DEF u
    <3> HIDE DEF u
    <3>3. /\ bo[u] = bo[i] + l[u].len /\ l[u].len \in Nat
          /\ l[u].len = off[s + u] - off[s + i]
          /\ Copied(b, bo[i], l[u].len, bytes, off[s + i])
      BY <1>2, <3>1, <3>2 DEF Entry, u
    <3>4. bo[i] = off[s + i] - off[s] /\ \A j \in 1 .. bo[i] : b[j] = bytes[off[s] + j]
      BY <2>2
    <3> DEFINE A == bo[i]
               B == bo[u]
               c == l[u].len
               O == off[s + u]
               P == off[s + i]
               R == off[s]
    <3>5. /\ A \in Nat /\ B \in Nat /\ c \in Nat /\ O \in Nat /\ P \in Nat /\ R \in Nat
          /\ B = A + c /\ c = O - P /\ A = P - R
      BY <1>2, <1>5, <1>6, <1>9, <3>1, <3>2, <3>3, <3>4 DEF u
    <3>6. Copied(b, A, c, bytes, P)
      BY <3>3
    <3>7. \A j \in 1 .. A : b[j] = bytes[R + j]
      BY <3>4
    <3> HIDE DEF A, B, c, O, P, R
    <3>8. B = O - R
      BY <3>5
    <3>9. \A j \in 1 .. B : b[j] = bytes[R + j]
      <4> SUFFICES ASSUME NEW j \in 1 .. B PROVE b[j] = bytes[R + j]
        OBVIOUS
      <4>1. CASE j <= A
        BY <3>5, <3>7, <4>1
      <4>2. CASE ~(j <= A)
        <5>1. j - A \in 1 .. c /\ A + (j - A) = j /\ P + (j - A) = R + j
          BY <3>5, <4>2
        <5> QED
          BY <3>6, <5>1 DEF Copied
      <4> QED
        BY <4>1, <4>2
    <3>10. u \in 0 .. q
      BY <3>1 DEF u
    <3> QED
      BY <3>8, <3>9, <3>10 DEF A, B, c, O, P, R, u
  <2> HIDE DEF T
  <2>3. q \in Nat
    BY <1>2, <1>3
  <2> QED
    BY <2>1, <2>2, <2>3, UpTo
<1> DEFINE N == bo[q]
           R == off[s]
           O == off[e]
<1>11. q \in 0 .. q /\ q \in T
  <2>1. q \in 0 .. q
    BY <1>2, <1>3
  <2> HIDE DEF T
  <2> QED
    BY <1>10, <2>1
<1>12. N = O - R /\ N \in Nat /\ N <= Len(b) /\ \A j \in 1 .. N : b[j] = bytes[R + j]
  BY <1>2, <1>8, <1>9, <1>11
<1>13. R \in Nat /\ O \in Nat /\ O <= Len(bytes) /\ Len(bytes) \in Nat
  <2>1. e \in 0 .. t /\ t \in 0 .. t /\ e <= t
    BY <1>5
  <2> QED
    BY <1>5, <1>6, <2>1
<1> HIDE DEF N, R, O
<1>14. /\ Take(b, N) \in Seq(Nat) /\ Len(Take(b, N)) = N
       /\ \A i \in 1 .. N : Take(b, N)[i] = b[i]
  BY <1>2, <1>12, TakeIs
<1>15. f = SubSeq(bytes, R + 1, O)
  BY DEF f, R, O
<1>16. R + 1 \in 1 .. Len(bytes) + 1 /\ O \in (R + 1) - 1 .. Len(bytes)
       /\ O - (R + 1) + 1 = N /\ \A i \in 1 .. N : (R + 1) + i - 1 = R + i
  BY <1>12, <1>13
<1>17. f \in Seq(Nat) /\ Len(f) = N /\ \A i \in 1 .. N : f[i] = bytes[R + i]
  <2> DEFINE m == R + 1
             z == SubSeq(bytes, m, O)
  <2>1. m \in 1 .. Len(bytes) + 1 /\ O \in m - 1 .. Len(bytes) /\ bytes \in Seq(Nat)
    BY <1>6, <1>16
  <2> HIDE DEF m
  <2>2. /\ z \in Seq(Nat) /\ Len(z) = O - m + 1
        /\ \A i \in 1 .. O - m + 1 : z[i] = bytes[m + i - 1]
    BY <2>1, Piece
  <2>3. z = f
    BY <1>15 DEF m
  <2> HIDE DEF z
  <2>4. f \in Seq(Nat) /\ Len(f) = N /\ \A i \in 1 .. N : f[i] = bytes[m + i - 1]
    BY <1>16, <2>2, <2>3 DEF m
  <2>5. \A i \in 1 .. N : m + i - 1 = R + i
    BY <1>16 DEF m
  <2> QED
    BY <2>4, <2>5
<1>18. Take(b, N) = f
  <2> DEFINE x == Take(b, N)
  <2>1. x \in Seq(Nat) /\ f \in Seq(Nat) /\ Len(x) = N /\ Len(f) = N
        /\ \A i \in 1 .. N : x[i] = f[i]
    BY <1>12, <1>14, <1>17
  <2> HIDE DEF x
  <2>2. x = f
    BY <2>1, SameSeq
  <2> QED
    BY <2>2 DEF x
<1> QED
  BY <1>7, <1>17, <1>18 DEF Spelled, N, y

(* Dropping twice, and a part of what is left.                             *)
LEMMA DropTwice ==
  ASSUME NEW S, NEW s \in Seq(S), NEW i \in 0 .. Len(s), NEW j \in 0 .. Len(s) - i
  PROVE  /\ Drop(Drop(s, i), j) = Drop(s, i + j)
         /\ SubSeq(s, i + 1, i + j) = Take(Drop(s, i), j)
<1> DEFINE n == Len(s)
           m == n - i
           k == i + j
           a == Drop(s, i)
           x == Drop(a, j)
           y == Drop(s, k)
           u == Take(a, j)
           p == i + 1
           v == SubSeq(s, p, k)
<1>1. n \in Nat /\ i \in Nat /\ j \in Nat /\ i <= n /\ i + j <= n
  BY LenProperties
<1>2. /\ m \in Nat /\ k \in 0 .. n /\ j \in 0 .. m /\ m - j = n - k
      /\ p \in 1 .. n + 1 /\ k \in p - 1 .. n /\ k - p + 1 = j
  BY <1>1
<1>3. a \in Seq(S) /\ Len(a) = m /\ \A h \in 1 .. m : a[h] = s[i + h]
  BY DropIs
<1>4. y \in Seq(S) /\ Len(y) = n - k /\ \A h \in 1 .. n - k : y[h] = s[k + h]
  <2>1. k \in 0 .. Len(s)
    BY <1>2
  <2> HIDE DEF k, n
  <2>2. y \in Seq(S) /\ Len(y) = Len(s) - k /\ \A h \in 1 .. Len(s) - k : y[h] = s[k + h]
    BY <2>1, DropIs
  <2> QED
    BY <2>2 DEF n
<1>5. v \in Seq(S) /\ Len(v) = k - p + 1 /\ \A h \in 1 .. k - p + 1 : v[h] = s[p + h - 1]
  <2>1. p \in 1 .. Len(s) + 1 /\ k \in p - 1 .. Len(s)
    BY <1>2
  <2> HIDE DEF k, n, p
  <2> QED
    BY <2>1, Piece
<1> HIDE DEF a
<1>6. /\ x \in Seq(S) /\ Len(x) = m - j /\ \A h \in 1 .. m - j : x[h] = a[j + h]
      /\ u \in Seq(S) /\ Len(u) = j /\ \A h \in 1 .. j : u[h] = a[h]
  <2>1. j \in 0 .. Len(a) /\ a \in Seq(S) /\ Len(a) = m
    BY <1>2, <1>3
  <2> HIDE DEF m
  <2>2. /\ x \in Seq(S) /\ Len(x) = Len(a) - j /\ \A h \in 1 .. Len(a) - j : x[h] = a[j + h]
    BY <2>1, DropIs
  <2>3. u \in Seq(S) /\ Len(u) = j /\ \A h \in 1 .. j : u[h] = a[h]
    BY <2>1, TakeIs
  <2> HIDE DEF x, u
  <2> QED
    BY <2>1, <2>2, <2>3
<1>7. /\ \A h \in 1 .. m - j : j + h \in 1 .. m /\ i + (j + h) = k + h
      /\ \A h \in 1 .. j : h \in 1 .. m /\ p + h - 1 = i + h
  BY <1>1, <1>2
<1> HIDE DEF x, y, u, v, k, p, m, n
<1>8. x = y
  <2>1. ASSUME NEW h \in 1 .. m - j PROVE x[h] = y[h]
    <3>1. h \in 1 .. n - k
      BY <1>2
    <3>2. y[h] = s[k + h]
      BY <1>4, <3>1
    <3>3. x[h] = a[j + h] /\ j + h \in 1 .. m /\ i + (j + h) = k + h
      BY <1>6, <1>7
    <3>4. a[j + h] = s[i + (j + h)]
      BY <1>3, <3>3
    <3> QED
      BY <3>2, <3>3, <3>4
  <2>2. Len(x) = m - j /\ Len(y) = m - j
    BY <1>2, <1>4, <1>6
  <2> DEFINE z == m - j
  <2>3. Len(x) = z /\ Len(y) = z /\ \A h \in 1 .. z : x[h] = y[h]
    BY <2>1, <2>2
  <2> HIDE DEF z
  <2> QED
    BY <1>4, <1>6, <2>3, SameSeq
<1>9. u = v
  <2>1. ASSUME NEW h \in 1 .. j PROVE u[h] = v[h]
    <3>1. h \in 1 .. k - p + 1
      BY <1>2
    <3>2. v[h] = s[p + h - 1]
      BY <1>5, <3>1
    <3>3. u[h] = a[h] /\ h \in 1 .. m /\ p + h - 1 = i + h
      BY <1>6, <1>7
    <3>4. a[h] = s[i + h]
      BY <1>3, <3>3
    <3> QED
      BY <3>2, <3>3, <3>4
  <2>2. Len(u) = j /\ Len(v) = j
    BY <1>2, <1>5, <1>6
  <2> QED
    BY <1>5, <1>6, <2>1, <2>2, SameSeq
<1> QED
  BY <1>8, <1>9 DEF x, y, u, v, k, p, a

(* The next reading position is good to go on from.                        *)
Goes(l2, x, ps, st, off, c, k, lg, left) ==
  Begins(l2, x, ps, st, off, c, k, lg) /\ Resume(l2, x, st, k, lg, c, left)

(* l2 and x are l and pos without their first q entries.                   *)
Later(l2, x, l, pos, q) ==
  /\ Len(l2) = Len(l) - q
  /\ \A i \in 1 .. Len(l) - q : l2[i] = l[q + i] /\ x[i] = pos[q + i]

(* Behind packet k.                                                        *)
LEMMA AfterPacket ==
  ASSUME NEW ps, NEW st, NEW off, NEW bytes, Streamed(ps, st, off, bytes),
         NEW l, NEW b, NEW w, NEW pos, NEW bo, NEW top \in Nat,
         View(l, b, w, pos, bo, top, ps, st, off, bytes),
         NEW k \in 1 .. Len(ps), NEW q, OnePacket(l, q), Run(pos, st, k, q),
         NEW lam, NEW lg, NEW left, Resume(l, pos, st, lam, lg, top, left),
         NEW l2, NEW x, Later(l2, x, l, pos, q),
         NEW lg2
  PROVE  Goes(l2, x, ps, st, off, top, k, lg2, left)
<1> DEFINE n == Len(l)
           m == n - q
           a == st[k + 1]
<1>1. ViewFacts(l, b, w, pos, bo, top, ps, st, off, bytes)
  BY ViewIs
<1>2. /\ n \in Nat
      /\ \A i \in 1 .. n : /\ pos[i] \in 0 .. top
                           /\ pos[i] # 0 => Entry(l[i], pos[i], ps, st, off)
      /\ \A i, j \in 1 .. n : i < j /\ pos[i] # 0 /\ pos[j] # 0 => pos[i] < pos[j]
      /\ \A i \in 1 .. n - 1 : Follow(pos[i], pos[i + 1], l[i].len, off)
  BY <1>1 DEF ViewFacts
<1>3. q \in 1 .. n /\ l[q].len < Full
  BY DEF OnePacket
<1>4. k \in 1 .. Len(ps) + 1 /\ k # Len(ps) + 1 /\ k \in 0 .. Len(ps)
  <2>1. ps \in Seq(Packet)
    BY DEF Streamed, Starts
  <2>2. Len(ps) \in Nat
    BY <2>1, LenProperties
  <2> QED
    BY <2>2
<1>5. st[k] \in Nat /\ a \in Nat /\ a = st[k] + q
  <2>1. st[k] \in Nat /\ st[k + 1] \in 1 .. Total(ps, st) /\ Total(ps, st) \in Nat
    BY <1>4, StartIs DEF Streamed
  <2>2. st[k + 1] = st[k] + q
    BY DEF Run
  <2> HIDE DEF n
  <2>3. q \in Nat
    BY <1>2, <1>3
  <2> QED
    BY <2>1, <2>2, <2>3
<1>6. pos[q] = st[k] + q
  <2>1. q \in 1 .. q
    BY <1>2, <1>3
  <2> QED
    BY <2>1 DEF Run
<1>7. Len(l2) = m /\ \A i \in 1 .. m : l2[i] = l[q + i] /\ x[i] = pos[q + i]
  BY DEF Later
<1>8. /\ \/ n # 0 /\ pos[n] # 0 /\ pos[n] = top
         \/ n # 0 /\ pos[n] = 0 /\ (l[n] = HoleMark \/ left = 0)
         \/ n = 0
  BY DEF Resume
<1> HIDE DEF n, m, a
<1>9. pos[q] = a /\ a # 0 /\ a <= top /\ pos[q] # 0 /\ m \in Nat
  BY <1>2, <1>3, <1>5, <1>6 DEF m
<1>10. \A i \in 1 .. m : q + i \in 1 .. n /\ q < q + i
  BY <1>2, <1>3 DEF m
<1>11. \A i \in 1 .. m : x[i] # 0 => a < x[i]
  BY <1>2, <1>3, <1>7, <1>9, <1>10
<1>12. ASSUME m # 0, x[1] # 0 PROVE Boundary(off, x[1] - 1) /\ x[1] = a + 1
  <2>1. q \in 1 .. n - 1 /\ 1 \in 1 .. m
    BY <1>2, <1>3, <1>9, <1>12 DEF m
  <2>2. Follow(pos[q], pos[q + 1], l[q].len, off) /\ x[1] = pos[q + 1]
    BY <1>2, <1>7, <2>1
  <2>3. x[1] = a + 1
    BY <1>9, <1>12, <2>2 DEF Follow
  <2>4. x[1] - 1 = a
    BY <1>5, <2>3
  <2>5. Entry(l[q], a, ps, st, off)
    BY <1>2, <1>3, <1>9
  <2>6. off[a] - off[a - 1] < Full
    BY <1>3, <2>5 DEF Entry
  <2> QED
    BY <2>3, <2>4, <2>6 DEF Boundary
<1>13. Begins(l2, x, ps, st, off, top, k, lg2)
  BY <1>4, <1>7, <1>9, <1>11, <1>12 DEF Begins, a
<1>14. Resume(l2, x, st, k, lg2, top, left)
  <2>1. CASE m = 0
    <3>1. n = q
      BY <1>2, <1>3, <2>1 DEF m
    <3>2. a = top
      BY <1>3, <1>8, <1>9, <3>1
    <3> QED
      BY <1>7, <2>1, <3>2 DEF Resume, a
  <2>2. CASE m # 0
    <3>1. m \in 1 .. m /\ q + m = n /\ n # 0
      BY <1>2, <1>3, <1>9, <2>2 DEF m
    <3>2. l2[m] = l[n] /\ x[m] = pos[n]
      BY <1>7, <3>1
    <3> QED
      BY <1>7, <1>8, <2>2, <3>1, <3>2 DEF Resume
  <2> QED
    BY <2>1, <2>2
<1> QED
  BY <1>13, <1>14 DEF Goes

(* Behind a hole.                                                          *)
LEMMA AfterHole ==
  ASSUME NEW ps, NEW st, NEW off, NEW bytes,
         NEW l, NEW b, NEW w, NEW pos, NEW bo, NEW top \in Nat,
         View(l, b, w, pos, bo, top, ps, st, off, bytes),
         Len(l) # 0, pos[1] = 0,
         NEW lam, NEW lg, Begins(l, pos, ps, st, off, top, lam, lg),
         NEW left, Resume(l, pos, st, lam, lg, top, left),
         NEW l2, NEW x, Later(l2, x, l, pos, 1),
         NEW lg2, Marked(lg2)
  PROVE  Goes(l2, x, ps, st, off, top, lam, lg2, left)
<1> DEFINE n == Len(l)
           m == n - 1
<1>1. ViewFacts(l, b, w, pos, bo, top, ps, st, off, bytes)
  BY ViewIs
<1>2. /\ n \in Nat /\ n # 0
      /\ \A i \in 1 .. n - 1 : Follow(pos[i], pos[i + 1], l[i].len, off)
  BY <1>1 DEF ViewFacts
<1>3. Len(l2) = m /\ \A i \in 1 .. m : l2[i] = l[1 + i] /\ x[i] = pos[1 + i]
  BY DEF Later
<1>4. /\ lam \in 0 .. Len(ps) /\ st[lam + 1] <= top
      /\ \A i \in 1 .. n : pos[i] # 0 => st[lam + 1] < pos[i]
  BY DEF Begins
<1>5. /\ \/ pos[n] # 0 /\ pos[n] = top
         \/ pos[n] = 0 /\ (l[n] = HoleMark \/ left = 0)
  BY <1>2 DEF Resume
<1> HIDE DEF n, m
<1>6. m \in Nat /\ \A i \in 1 .. m : 1 + i \in 1 .. n
  BY <1>2 DEF m
<1>7. \A i \in 1 .. m : x[i] # 0 => st[lam + 1] < x[i]
  BY <1>3, <1>4, <1>6
<1>8. ASSUME m # 0, x[1] # 0 PROVE Boundary(off, x[1] - 1)
  <2>1. 1 \in 1 .. n - 1 /\ 1 \in 1 .. m /\ 1 + 1 = 2
    BY <1>2, <1>8 DEF m
  <2>2. Follow(pos[1], pos[2], l[1].len, off) /\ x[1] = pos[2]
    BY <1>2, <1>3, <2>1
  <2> QED
    BY <1>8, <2>2 DEF Follow
<1>9. Begins(l2, x, ps, st, off, top, lam, lg2)
  BY <1>3, <1>4, <1>7, <1>8 DEF Begins
<1>10. Resume(l2, x, st, lam, lg2, top, left)
  <2>1. CASE m = 0
    BY <1>3, <2>1 DEF Resume
  <2>2. CASE m # 0
    <3>1. m \in 1 .. m /\ 1 + m = n
      BY <1>2, <1>6, <2>2 DEF m
    <3>2. l2[m] = l[n] /\ x[m] = pos[n]
      BY <1>3, <3>1
    <3> QED
      BY <1>3, <1>5, <2>2, <3>2 DEF Resume
  <2> QED
    BY <2>1, <2>2
<1> QED
  BY <1>9, <1>10 DEF Goes

(* A decoder that has handed out i more segments and j more bytes.         *)
Advanced(z, d, i, j) ==
  /\ z \in StreamState
  /\ z.lacing_returned = d.lacing_returned + i /\ z.body_returned = d.body_returned + j
  /\ z.lacing = d.lacing /\ z.body = d.body /\ z.lacing_packet = d.lacing_packet
  /\ z.pageno = d.pageno /\ z.serialno = d.serialno /\ z.allocated = d.allocated

(* What is read of the segments l and the bytes b of a packet: q segments  *)
(* with n bytes.                                                           *)
Reads(p, l, b, q, n) ==
  /\ p.packet = Take(b, n) /\ p.b_o_s = l[1].first /\ p.granulepos = l[q].granule
  /\ p.e_o_s => \E i \in 1 .. q : l[i].last

(* The decoder past the packet it handed over (_packetout). *)
LEMMA AdvancedIs ==
  ASSUME NEW d \in StreamState, NEW i \in Nat, NEW j \in Nat, NEW kn \in Int,
         NEW lr, lr = d.lacing_returned + i, NEW br, br = d.body_returned + j,
         NEW z, z = [d EXCEPT !.body_returned = br, !.lacing_returned = lr, !.packetno = kn]
  PROVE  Advanced(z, d, i, j)
<1>1. lr \in Nat /\ br \in Nat
  BY DEF StreamState
<1>2. z \in StreamState /\ z.lacing_returned = lr /\ z.body_returned = br
      /\ z.lacing = d.lacing /\ z.body = d.body /\ z.lacing_packet = d.lacing_packet
      /\ z.pageno = d.pageno /\ z.serialno = d.serialno /\ z.allocated = d.allocated
  BY <1>1 DEF StreamState
<1> QED
  BY <1>2 DEF Advanced

(* The segment the reader is at, and where its packet ends.                *)
AtFront(a, lr, l, q) ==
  /\ lr + 1 \in 1 .. Len(a) /\ a[lr + 1] = l[1]
  /\ Min({i \in lr + 1 .. Len(a) : a[i].len < Full}) = lr + q
  /\ a[lr + q] = l[q]
  /\ \A i \in lr + 1 .. lr + q : i - lr \in 1 .. q /\ a[i] = l[i - lr]

(* The lacing values of the packet at the front of the decoder's queue. *)
LEMMA FrontIs ==
  ASSUME NEW d \in StreamState, NEW lr, lr = d.lacing_returned, lr <= Len(d.lacing),
         NEW l, l = Drop(d.lacing, lr), NEW q, OnePacket(l, q)
  PROVE  AtFront(d.lacing, lr, l, q)
<1> DEFINE a == d.lacing
           n == Len(a)
           E == {i \in lr + 1 .. n : a[i].len < Full}
           m == lr + q
<1>1. a \in Seq(SegmentType) /\ lr \in Nat
  BY DEF StreamState
<1>2. n \in Nat /\ lr \in 0 .. n
  BY <1>1, LenProperties
<1>3. Len(l) = n - lr /\ \A i \in 1 .. n - lr : l[i] = a[lr + i]
  <2>1. a \in Seq(SegmentType) /\ lr \in 0 .. Len(a) /\ l = Drop(a, lr)
    BY <1>1, <1>2
  <2> HIDE DEF a
  <2>2. Len(Drop(a, lr)) = Len(a) - lr /\ \A i \in 1 .. Len(a) - lr : Drop(a, lr)[i] = a[lr + i]
    BY ONLY <2>1, DropIs
  <2> QED
    BY <2>1, <2>2
<1>4. q \in 1 .. Len(l) /\ l[q].len < Full /\ \A i \in 1 .. q - 1 : ~(l[i].len < Full)
  BY DEF OnePacket
<1>5. /\ q \in 1 .. n - lr /\ q \in Nat /\ q >= 1 /\ m \in lr + 1 .. n
      /\ 1 \in 1 .. n - lr /\ lr + 1 \in 1 .. n
  BY <1>2, <1>3, <1>4
<1>6. a[lr + q] = l[q] /\ a[lr + 1] = l[1]
  BY <1>3, <1>5
<1>7. ASSUME NEW i \in lr + 1 .. n
      PROVE  i - lr \in 1 .. n - lr /\ a[i] = l[i - lr]
  <2> DEFINE j == i - lr
  <2>1. j \in 1 .. n - lr /\ lr + j = i
    BY <1>2
  <2> HIDE DEF j
  <2>2. l[j] = a[lr + j]
    BY <1>3, <2>1
  <2> QED
    BY <2>1, <2>2 DEF j
<1> HIDE DEF a, n
<1>8. Min(E) = m
  <2>1. E \subseteq Nat /\ m \in E
    BY <1>2, <1>4, <1>5, <1>6
  <2>2. ASSUME NEW i \in E PROVE m <= i
    <3>1. i \in lr + 1 .. n /\ a[i].len < Full
      OBVIOUS
    <3>2. i - lr \in 1 .. n - lr /\ l[i - lr].len < Full
      BY <1>7, <3>1
    <3>3. ~(i - lr \in 1 .. q - 1)
      BY <1>4, <3>2
    <3> QED
      BY <1>2, <1>5, <3>1, <3>3
  <2> HIDE DEF E, m
  <2> QED
    BY <2>1, <2>2, MinIs
<1>9. ASSUME NEW i \in lr + 1 .. lr + q PROVE i - lr \in 1 .. q /\ a[i] = l[i - lr]
  <2>1. i \in lr + 1 .. n /\ i - lr \in 1 .. q
    BY <1>2, <1>5
  <2> QED
    BY <1>7, <2>1
<1> QED
  BY <1>5, <1>6, <1>8, <1>9 DEF a, n, AtFront

(* packetout and packetpeek.                                               *)
LEMMA PacketoutParts ==
  ASSUME NEW d \in StreamState, d.lacing_returned <= d.lacing_packet,
         d.lacing_packet <= Len(d.lacing), d.body_returned <= Len(d.body),
         NEW adv \in BOOLEAN, NEW l, l = Drop(d.lacing, d.lacing_returned),
         NEW b, b = Drop(d.body, d.body_returned), NEW r, r = PacketoutI(d, adv)
  PROVE  /\ r.ret # 0 => d.allocated /\ d.lacing_returned < d.lacing_packet
         /\ r.ret = -1 => l[1].hole /\ Advanced(r.os, d, 1, 0)
         /\ r.ret = 1 => ~l[1].hole
         /\ r.ret = 1 => \A q : OnePacket(l, q) =>
              \A n \in 0 .. Len(b) :
                n = LacedBytes(SubSeq(d.lacing, d.lacing_returned + 1, d.lacing_returned + q))
                => Reads(r.op, l, b, q, n) /\ (adv => Advanced(r.os, d, q, n))
<1> DEFINE a == d.lacing
           lr == d.lacing_returned
           br == d.body_returned
           lp == d.lacing_packet
           ptr == lr + 1
           last == Min({i \in ptr..Len(a) : a[i].len < Full})
           by == LacedBytes(SubSeq(a, ptr, last))
           out == [packet |-> SubSeq(d.body, br + 1, br + by),
                   b_o_s |-> a[ptr].first,
                   e_o_s |-> \E i \in ptr..last : a[i].last,
                   granulepos |-> a[last].granule,
                   packetno |-> d.packetno]
           h == [d EXCEPT !.lacing_returned = @ + 1, !.packetno = @ + 1]
           z == [d EXCEPT !.body_returned = @ + by, !.lacing_returned = last, !.packetno = @ + 1]
<1>1. /\ a \in Seq(SegmentType) /\ lr \in Nat /\ br \in Nat /\ lp \in Nat /\ d.packetno \in Int
      /\ d.body \in Seq(Nat)
  BY DEF StreamState
<1>2. Len(a) \in Nat /\ Len(d.body) \in Nat
  BY <1>1, LenProperties
<1>3. r = IF ~StreamCheck(d) \/ lp < ptr THEN [ret |-> 0, os |-> d]
          ELSE IF a[ptr].hole THEN [ret |-> -1, os |-> h]
          ELSE [ret |-> 1, op |-> out, os |-> IF adv THEN z ELSE d]
  BY DEF PacketoutI
<1> HIDE DEF out, h, z
<1>4. CASE ~d.allocated \/ lp < ptr
  <2>1. r.ret = 0
    BY <1>3, <1>4 DEF StreamCheck
  <2> QED
    BY <2>1
<1>5. CASE d.allocated /\ ~(lp < ptr)
  <2>1. lr < lp /\ lr \in 0 .. Len(a) /\ 1 \in 1 .. Len(a) - lr
    BY <1>1, <1>2, <1>5
  <2>2. a[ptr] = l[1]
    BY <1>1, <2>1, DropIs
  <2>3. CASE a[ptr].hole
    <3>1. r.ret = -1 /\ r.os = h
      BY <1>3, <1>5, <2>3 DEF StreamCheck
    <3>2. h = [d EXCEPT !.body_returned = br + 0, !.lacing_returned = lr + 1,
                        !.packetno = d.packetno + 1]
      <4>1. br + 0 = br
        BY <1>1
      <4>2. d = [d EXCEPT !.body_returned = br]
        BY DEF StreamState
      <4>3. h = [d EXCEPT !.lacing_returned = lr + 1, !.packetno = d.packetno + 1]
        BY DEF h
      <4> DEFINE x == lr + 1
                 y == d.packetno + 1
      <4> HIDE DEF x, y
      <4>4. [d EXCEPT !.lacing_returned = x, !.packetno = y]
            = [d EXCEPT !.body_returned = d.body_returned, !.lacing_returned = x, !.packetno = y]
        BY DEF StreamState
      <4> QED
        BY <4>1, <4>3, <4>4 DEF x, y
    <3>3. d.packetno + 1 \in Int
      BY <1>1
    <3>4. Advanced(h, d, 1, 0)
      <4> DEFINE x == lr + 1
                 v == br + 0
                 y == d.packetno + 1
      <4>1. x = d.lacing_returned + 1 /\ v = d.body_returned + 0 /\ y \in Int
            /\ h = [d EXCEPT !.body_returned = v, !.lacing_returned = x, !.packetno = y]
        BY <3>2, <3>3
      <4> HIDE DEF x, v, y
      <4>2. 1 \in Nat /\ 0 \in Nat
        OBVIOUS
      <4> QED
        BY <4>1, <4>2, AdvancedIs
    <3> QED
      BY <1>5, <2>1, <2>2, <2>3, <3>1, <3>4
  <2>4. CASE ~a[ptr].hole
    <3>1. r.ret = 1 /\ r.op = out /\ r.os = IF adv THEN z ELSE d
      BY <1>3, <1>5, <2>4 DEF StreamCheck
    <3>2. ASSUME NEW q, OnePacket(l, q), NEW n \in 0 .. Len(b),
                 n = LacedBytes(SubSeq(a, lr + 1, lr + q))
          PROVE  Reads(r.op, l, b, q, n) /\ (adv => Advanced(r.os, d, q, n))
      <4>1. /\ last = lr + q /\ a[lr + q] = l[q]
            /\ \A i \in lr + 1 .. lr + q : i - lr \in 1 .. q /\ a[i] = l[i - lr]
        <5>1. lr = d.lacing_returned /\ lr <= Len(d.lacing) /\ l = Drop(d.lacing, lr)
          BY <1>1, <1>2, <2>1
        <5> HIDE DEF lr
        <5>2. AtFront(d.lacing, lr, l, q)
          BY ONLY <3>2, <5>1, d \in StreamState, FrontIs
        <5> QED
          BY <5>2 DEF AtFront
      <4>2. by = n
        BY <3>2, <4>1
      <4> HIDE DEF last, by
      <4>3. SubSeq(d.body, br + 1, br + n) = Take(b, n)
        <5>1. br \in 0 .. Len(d.body) /\ Len(b) = Len(d.body) - br
          <6>1. br \in 0 .. Len(d.body)
            BY <1>1, <1>2
          <6> QED
            BY <1>1, <6>1, DropIs
        <5>2. n \in 0 .. Len(d.body) - br
          BY <3>2, <5>1
        <5> HIDE DEF br
        <5>3. SubSeq(d.body, br + 1, br + n) = Take(Drop(d.body, br), n)
          BY <1>1, <5>1, <5>2, DropTwice
        <5> QED
          BY <5>3 DEF br
      <4>4. /\ out.packet = Take(b, n) /\ out.b_o_s = l[1].first /\ out.granulepos = l[q].granule
        BY <2>2, <4>1, <4>2, <4>3 DEF out
      <4>5. out.e_o_s => \E i \in 1 .. q : l[i].last
        <5>1. out.e_o_s <=> \E i \in lr + 1 .. lr + q : a[i].last
          BY <4>1 DEF out
        <5> QED
          BY <4>1, <5>1
      <4>6. Reads(out, l, b, q, n)
        BY <4>4, <4>5 DEF Reads
      <4>7. Advanced(z, d, q, n)
        <5>1. q \in Nat /\ n \in Nat
          <6>1. q \in 1 .. Len(l)
            BY <3>2 DEF OnePacket
          <6>2. b \in Seq(Nat) /\ l \in Seq(SegmentType)
            <7>1. br \in 0 .. Len(d.body)
              BY <1>1, <1>2
            <7> QED
              BY <1>1, <2>1, <7>1, DropIs
          <6>3. Len(l) \in Nat /\ Len(b) \in Nat
            BY <6>2, LenProperties
          <6> QED
            BY <3>2, <6>1, <6>3
        <5> DEFINE x == lr + q
                   v == br + n
                   y == d.packetno + 1
        <5>2. z = [d EXCEPT !.body_returned = v, !.lacing_returned = x, !.packetno = y]
          BY <4>1, <4>2 DEF z
        <5>3. x = d.lacing_returned + q /\ v = d.body_returned + n /\ y \in Int
          BY <1>1
        <5> HIDE DEF x, v, y
        <5> QED
          BY <5>1, <5>2, <5>3, AdvancedIs
      <4> QED
        BY <3>1, <4>6, <4>7
    <3> QED
      BY <1>5, <2>1, <2>2, <2>4, <3>1, <3>2
  <2> QED
    BY <2>3, <2>4
<1> QED
  BY <1>4, <1>5

(* A packet with the labels of packet k.                                   *)
Labels(p, ps, k) ==
  /\ ps[k].packet = p.packet
  /\ p.granulepos \in {-1, ps[k].granulepos} \/ (k = 1 /\ p.granulepos = 0)
  /\ p.b_o_s <=> k = 1
  /\ p.e_o_s => ps[k].e_o_s

(* What a packet read from a whole run says of itself: its flags and its *)
(* granule position are those it was submitted with.                     *)
LEMMA LabelsAre ==
  ASSUME NEW ps, NEW st, NEW off, NEW bytes, Streamed(ps, st, off, bytes),
         NEW l, NEW b, NEW w, NEW pos, NEW bo, NEW top \in Nat,
         View(l, b, w, pos, bo, top, ps, st, off, bytes),
         NEW k \in 1 .. Len(ps), NEW q, OnePacket(l, q), Run(pos, st, k, q),
         NEW p, NEW n, Reads(p, l, b, q, n), Spelled(b, ps, k, n)
  PROVE  Labels(p, ps, k)
<1> DEFINE m == Len(l)
           s == st[k]
           np == Len(ps)
<1>1. ViewFacts(l, b, w, pos, bo, top, ps, st, off, bytes)
  BY ViewIs
<1>2. /\ m \in Nat
      /\ \A i \in 1 .. m : pos[i] # 0 => Entry(l[i], pos[i], ps, st, off)
  BY <1>1 DEF ViewFacts
<1>3. q \in 1 .. m
  BY DEF OnePacket
<1>4. k \in 1 .. np + 1 /\ k # np + 1 /\ k \in 1 .. np /\ np \in Nat
  <2>1. ps \in Seq(Packet)
    BY DEF Streamed, Starts
  <2>2. Len(ps) \in Nat
    BY <2>1, LenProperties
  <2> QED
    BY <2>2
<1>5. s \in Nat /\ k + 1 \in 1 .. np + 1 /\ st[k + 1] \in Nat
  <2>1. st[k] \in Nat /\ k + 1 \in 1 .. Len(ps) + 1
    BY <1>4, StartIs DEF Streamed
  <2>2. st[k + 1] \in Nat
    <3> DEFINE j == k + 1
    <3>1. j \in 1 .. Len(ps) + 1
      BY <2>1
    <3> HIDE DEF j
    <3>2. st[j] \in Nat
      BY <3>1, StartIs DEF Streamed
    <3> QED
      BY <3>2 DEF j
  <2> QED
    BY <2>1, <2>2
<1>6. /\ st[1] = 0 /\ \A i, j \in 1 .. np + 1 : i < j => st[i] < st[j]
      /\ Total(ps, st) = st[np + 1]
  BY DEF Streamed, Starts, Total
<1>7. st[k + 1] = s + q /\ \A i \in 1 .. q : pos[i] = s + i
  BY DEF Run
<1>8. /\ p.packet = Take(b, n) /\ p.b_o_s = l[1].first /\ p.granulepos = l[q].granule
      /\ p.e_o_s => \E i \in 1 .. q : l[i].last
  BY DEF Reads
<1> HIDE DEF m, s, np
<1>9. ASSUME NEW i \in 1 .. q PROVE Entry(l[i], s + i, ps, st, off) /\ s + i # 0
  <2>1. i \in 1 .. m /\ s + i # 0 /\ pos[i] = s + i
    BY <1>2, <1>3, <1>5, <1>7
  <2> DEFINE g == s + i
  <2>2. pos[i] = g /\ g # 0
    BY <2>1
  <2> HIDE DEF g
  <2>3. Entry(l[i], g, ps, st, off) /\ g # 0
    BY <1>2, <2>1, <2>2
  <2> QED
    BY <2>3 DEF g
<1>10. 1 \in 1 .. q /\ q \in 1 .. q
  BY <1>2, <1>3
<1>11. ps[k].packet = p.packet
  BY <1>8 DEF Spelled
<1>12. p.granulepos \in {-1, ps[k].granulepos} \/ (k = 1 /\ p.granulepos = 0)
  <2> DEFINE g == s + q
  <2>1. Entry(l[q], g, ps, st, off) /\ g = st[k + 1]
    BY <1>7, <1>9, <1>10
  <2> HIDE DEF g
  <2>2. \A j \in 1 .. Len(ps) :
          g = st[j + 1] => \/ l[q].granule \in {-1, ps[j].granulepos}
                           \/ j = 1 /\ l[q].granule = 0
    BY <2>1 DEF Entry
  <2>3. \/ l[q].granule \in {-1, ps[k].granulepos}
        \/ k = 1 /\ l[q].granule = 0
    BY <1>4, <2>1, <2>2 DEF np
  <2> QED
    BY <1>8, <2>3
<1>13. p.b_o_s <=> k = 1
  <2>1. l[1].first <=> s + 1 = 1
    <3> DEFINE g == s + 1
    <3>1. Entry(l[1], g, ps, st, off)
      BY <1>9, <1>10
    <3> HIDE DEF g
    <3>2. l[1].first <=> g = 1
      BY <3>1 DEF Entry
    <3> QED
      BY <3>2 DEF g
  <2>2. s = 0 <=> k = 1
    <3>1. k = 1 => s = 0
      BY <1>6 DEF s
    <3>2. ASSUME k # 1 PROVE s # 0
      <4>1. 1 \in 1 .. np + 1 /\ 1 < k
        BY <1>4, <3>2
      <4>2. st[1] < st[k]
        BY <1>4, <1>6, <4>1
      <4> QED
        BY <1>5, <1>6, <4>2 DEF s
    <3> QED
      BY <3>1, <3>2
  <2>3. s + 1 = 1 <=> s = 0
    BY <1>5
  <2> QED
    BY <1>8, <2>1, <2>2, <2>3
<1>14. ASSUME p.e_o_s PROVE ps[k].e_o_s
  <2>1. PICK i \in 1 .. q : l[i].last
    BY <1>8, <1>14
  <2> DEFINE g == s + i
  <2>2. Entry(l[i], g, ps, st, off)
    BY <1>9
  <2>3. g <= st[k + 1] /\ g \in Nat
    BY <1>2, <1>3, <1>5, <1>7
  <2> HIDE DEF g
  <2>4. g = st[np + 1] /\ ps[np].e_o_s
    BY <1>6, <2>1, <2>2 DEF Entry, np
  <2>5. k = np
    <3> SUFFICES ASSUME k # np PROVE FALSE
      OBVIOUS
    <3>1. k + 1 < np + 1 /\ np + 1 \in 1 .. np + 1
      BY <1>4
    <3>2. st[k + 1] < st[np + 1]
      BY <1>5, <1>6, <3>1
    <3> QED
      BY <1>5, <2>3, <2>4, <3>2
  <2> QED
    BY <2>4, <2>5
<1> QED
  BY <1>11, <1>12, <1>13, <1>14 DEF Labels

(* A packet that ends somewhere has a first end.                           *)
LEMMA FirstEnd ==
  ASSUME NEW l, Len(l) \in Nat, NEW w \in 1 .. Len(l), l[w].len < Full
  PROVE  \E q \in 1 .. w : OnePacket(l, q)
<1> DEFINE E == {i \in 1 .. Len(l) : l[i].len < Full}
           q == Min(E)
<1>1. E \subseteq Nat /\ w \in E
  OBVIOUS
<1>2. q \in E /\ \A x \in E : q <= x
  <2> HIDE DEF E
  <2> QED
    BY <1>1, MinIn
<1>3. q \in 1 .. Len(l) /\ l[q].len < Full /\ q <= w
  BY <1>1, <1>2
<1>4. ASSUME NEW i \in 1 .. q - 1 PROVE ~(l[i].len < Full)
  <2> HIDE DEF q
  <2>1. i \in 1 .. Len(l) /\ ~(q <= i)
    BY <1>3
  <2> QED
    BY <1>2, <2>1
<1> HIDE DEF E, q
<1>5. OnePacket(l, q) /\ q \in 1 .. w
  BY <1>3, <1>4 DEF OnePacket
<1> QED
  BY <1>5

(* Handing out segments and bytes keeps a decoder's view of the stream.    *)
LEMMA Stepped ==
  ASSUME NEW ps, NEW st, NEW off, NEW bytes, NEW gs, NEW cut, NEW n, NEW top \in Nat, top = cut[n],
         NEW d \in StreamState, d.serialno = Serial, d.pageno = n,
         NEW lr, lr = d.lacing_returned, NEW br, br = d.body_returned,
         lr <= d.lacing_packet, d.lacing_packet <= Len(d.lacing), br <= Len(d.body),
         NEW l, l = Drop(d.lacing, lr), NEW b, b = Drop(d.body, br),
         NEW w, w = d.lacing_packet - lr,
         NEW pos, NEW bo, View(l, b, w, pos, bo, top, ps, st, off, bytes),
         NEW q \in 0 .. w, NEW c, c = bo[q], NEW z, Advanced(z, d, q, c),
         NEW l2, l2 = Drop(l, q), NEW x, x = LaterPos(pos, Len(l), q),
         NEW k, NEW lg, Goes(l2, x, ps, st, off, top, k, lg, Len(gs) - n)
  PROVE  Decoder(z, ps, gs, st, off, bytes, cut, n, k, lg)
<1>1. /\ d.lacing \in Seq(SegmentType) /\ d.body \in Seq(Nat)
      /\ lr \in Nat /\ br \in Nat /\ d.lacing_packet \in Nat
  BY DEF StreamState
<1>2. Len(d.lacing) \in Nat /\ Len(d.body) \in Nat
  BY <1>1, LenProperties
<1>3. lr \in 0 .. Len(d.lacing) /\ br \in 0 .. Len(d.body) /\ w \in Nat /\ q \in Nat /\ q <= w
  BY <1>1, <1>2
<1>4. Len(b) = Len(d.body) - br /\ Len(l) = Len(d.lacing) - lr
  BY <1>1, <1>3, DropIs
<1>5. ViewFacts(l, b, w, pos, bo, top, ps, st, off, bytes)
  BY ViewIs
<1>6. c \in 0 .. Len(b) /\ c \in Nat
  <2>1. q \in 0 .. Len(l) /\ Len(b) \in Nat
    BY <1>3, <1>5 DEF ViewFacts
  <2>2. bo[q] \in Nat /\ bo[q] <= Len(b)
    BY <1>5, <2>1 DEF ViewFacts
  <2> QED
    BY <2>1, <2>2
<1> DEFINE b2 == Drop(b, c)
           w2 == w - q
           y == LaterBytes(bo, Len(l), q)
<1>7. View(l2, b2, w2, x, y, top, ps, st, off, bytes)
  BY ViewDrop
<1>8. /\ z \in StreamState
      /\ z.lacing_returned = lr + q /\ z.body_returned = br + c
      /\ z.lacing = d.lacing /\ z.body = d.body /\ z.lacing_packet = d.lacing_packet
      /\ z.pageno = n /\ z.serialno = Serial
  BY DEF Advanced
<1>9. Drop(d.lacing, lr + q) = l2
  <2>1. q \in 0 .. Len(d.lacing) - lr
    BY <1>1, <1>2, <1>3
  <2> QED
    BY <1>1, <1>3, <2>1, DropTwice
<1>10. Drop(d.body, br + c) = b2
  <2>1. c \in 0 .. Len(d.body) - br
    BY <1>4, <1>6
  <2> QED
    BY <1>1, <1>3, <2>1, DropTwice
<1>11. d.lacing_packet - (lr + q) = w2 /\ lr + q <= d.lacing_packet /\ br + c <= Len(d.body)
  <2> DEFINE lp == d.lacing_packet
             m == Len(d.body)
             o == Len(b)
  <2>1. lp \in Nat /\ m \in Nat /\ w = lp - lr
    BY <1>1, <1>2
  <2>2. o = m - br /\ c \in 0 .. o
    BY <1>4, <1>6
  <2>a. lr \in Nat /\ br \in Nat /\ q \in Nat /\ q <= w
    BY <1>1, <1>3
  <2> HIDE DEF lp, m, o
  <2>3. lp - (lr + q) = w - q /\ lr + q <= lp
    BY ONLY <2>1, <2>a
  <2>4. br + c <= m
    BY ONLY <2>1, <2>2, <2>a
  <2> QED
    BY <2>3, <2>4 DEF lp, m
<1> HIDE DEF b2, w2, y
<1>12. Holds(l2, b2, w2, top, ps, st, off, bytes, n, k, lg, Len(gs) - n, n)
  BY <1>7 DEF Goes, Holds
<1>13. Holds(Drop(z.lacing, z.lacing_returned), Drop(z.body, z.body_returned),
             z.lacing_packet - z.lacing_returned, cut[n], ps, st, off, bytes,
             z.pageno, k, lg, Len(gs) - n, n)
  BY <1>8, <1>9, <1>10, <1>11, <1>12
<1>14. /\ z.lacing_returned <= z.lacing_packet /\ z.lacing_packet <= Len(z.lacing)
       /\ z.body_returned <= Len(z.body)
  BY <1>8, <1>11
<1> QED
  BY <1>8, <1>13, <1>14 DEF Decoder

(* The bytes of the segments handed out.                                   *)
LEMMA LacedFront ==
  ASSUME NEW a \in Seq(SegmentType), NEW lr \in 0 .. Len(a), NEW l, l = Drop(a, lr),
         NEW b, NEW w, NEW pos, NEW bo, NEW top \in Nat, NEW ps, NEW st, NEW off, NEW bytes,
         View(l, b, w, pos, bo, top, ps, st, off, bytes), NEW q \in 1 .. Len(l)
  PROVE  LacedBytes(SubSeq(a, lr + 1, lr + q)) = bo[q]
<1> DEFINE n == Len(a)
           p == lr + 1
           e == lr + q
           f(i) == bo[i - lr]
           g == [i \in p - 1 .. e |-> f(i)]
<1>1. ViewFacts(l, b, w, pos, bo, top, ps, st, off, bytes)
  BY ViewIs
<1>2. /\ bo[0] = 0
      /\ \A i \in 1 .. Len(l) : bo[i] = bo[i - 1] + l[i].len /\ l[i].len \in Nat
      /\ \A i \in 0 .. Len(l) : bo[i] \in Nat
  BY <1>1 DEF ViewFacts
<1>3. n \in Nat /\ lr \in Nat /\ lr <= n
  BY LenProperties
<1>4. Len(l) = n - lr /\ \A i \in 1 .. n - lr : l[i] = a[lr + i]
  BY DropIs
<1>5. /\ q \in Nat /\ q >= 1 /\ lr + q <= n /\ p \in 1 .. n + 1 /\ e \in p - 1 .. n
      /\ p - 1 = lr
  BY <1>3, <1>4
<1>6. \A i \in p - 1 .. e : g[i] = f(i) /\ i - lr \in 0 .. Len(l)
  <2>1. \A i \in p - 1 .. e : i - lr \in 0 .. Len(l)
    BY <1>3, <1>4, <1>5
  <2> HIDE DEF f
  <2> QED
    BY <2>1
<1>7. \A i \in p - 1 .. e : g[i] \in Nat
  <2> HIDE DEF g
  <2> QED
    BY <1>2, <1>6
<1>8. ASSUME NEW i \in p .. e PROVE a[i].len = g[i] - g[i - 1]
  <2> DEFINE j == i - lr
  <2>1. j \in 1 .. Len(l) /\ lr + j = i /\ j \in 1 .. n - lr /\ (i - 1) - lr = j - 1
        /\ i \in p - 1 .. e /\ i - 1 \in p - 1 .. e /\ j \in 0 .. Len(l) /\ j - 1 \in 0 .. Len(l)
    BY <1>3, <1>4, <1>5
  <2> HIDE DEF g, p, e
  <2>2. g[i] = bo[j] /\ g[i - 1] = bo[j - 1]
    BY <1>6, <2>1
  <2> HIDE DEF j
  <2>3. bo[j] = bo[j - 1] + l[j].len /\ l[j].len \in Nat /\ bo[j - 1] \in Nat
    BY <1>2, <2>1
  <2>4. l[j] = a[i]
    BY <1>4, <2>1
  <2> DEFINE u == bo[j]
             v == bo[j - 1]
             z == l[j].len
  <2>5. u = v + z /\ v \in Nat /\ z \in Nat
    BY <2>3
  <2> HIDE DEF u, v, z
  <2>6. z = u - v
    BY <2>5
  <2> QED
    BY <2>2, <2>4, <2>6 DEF u, v, z
<1>9. g[p - 1] = 0 /\ g[e] = bo[q]
  <2>1. lr \in p - 1 .. e /\ e \in p - 1 .. e /\ lr - lr = 0 /\ (lr + q) - lr = q
    BY <1>3, <1>5
  <2>2. g[lr] = bo[lr - lr] /\ g[e] = bo[e - lr]
    BY <1>6, <2>1
  <2> HIDE DEF g
  <2> QED
    BY <1>2, <1>5, <2>1, <2>2
<1> HIDE DEF g, p, e, n
<1>10. LacedBytes(SubSeq(a, p, e)) = g[e] - g[p - 1]
  <2>1. p \in 1 .. Len(a) + 1 /\ e \in p - 1 .. Len(a)
    BY <1>5 DEF n
  <2> QED
    BY <1>7, <1>8, <2>1, LacedPiece
<1>11. bo[q] \in Nat
  <2>1. q \in 0 .. Len(l)
    BY <1>3, <1>4, <1>5
  <2> QED
    BY <1>2, <2>1
<1>12. g[e] - g[p - 1] = bo[q]
  BY <1>9, <1>11
<1> QED
  BY <1>10, <1>12 DEF p, e

(* The next packet: a later one, the next one unless the reader was told   *)
(* of a gap, with its own labels.                                          *)
Delivered(r, ps, gs, st, off, bytes, cut, n, lam, lg) ==
  \E k \in 1 .. Len(ps) :
    /\ k > lam /\ (k = lam + 1 \/ Marked(lg))
    /\ Labels(r.op, ps, k)
    /\ Decoder(r.os, ps, gs, st, off, bytes, cut, n, k, Append(lg, k))

(* A log that ends in a hole or a seek is marked as interrupted. *)
LEMMA MarkedHole ==
  ASSUME NEW lg, lg \in Seq(Int), NEW mark \in {HoleEntry, SeekEntry}
  PROVE  Marked(Append(lg, mark))
<1>1. mark \in Int
  BY DEF HoleEntry, SeekEntry
<1> DEFINE z == Append(lg, mark)
<1>2. Len(lg) \in Nat /\ Len(z) = Len(lg) + 1 /\ z[Len(lg) + 1] = mark
  BY <1>1, AppendIs, LenProperties
<1>3. z # <<>>
  BY <1>2, EmptySeq
<1> HIDE DEF z
<1>4. z[Len(z)] = mark
  BY <1>2
<1> QED
  BY <1>3, <1>4 DEF Marked, z

(* packetout gives the next packet of the stream, or tells of a hole.      *)
LEMMA PacketoutIs ==
  ASSUME NEW ps, NEW st, NEW off, NEW bytes, Streamed(ps, st, off, bytes),
         NEW gs, NEW cut, NEW n, NEW top \in Nat, top = cut[n], top <= Total(ps, st),
         NEW lam, NEW lg, lg \in Seq(Int), NEW d, Decoder(d, ps, gs, st, off, bytes, cut, n, lam, lg),
         NEW adv \in BOOLEAN, NEW r, r = PacketoutI(d, adv)
  PROVE  /\ r.ret = -1 => Decoder(r.os, ps, gs, st, off, bytes, cut, n, lam, Append(lg, HoleEntry))
         /\ r.ret = 1 /\ adv => Delivered(r, ps, gs, st, off, bytes, cut, n, lam, lg)
<1> DEFINE lr == d.lacing_returned
           br == d.body_returned
           l == Drop(d.lacing, lr)
           b == Drop(d.body, br)
           w == d.lacing_packet - lr
           left == Len(gs) - n
<1>1. d \in StreamState
  BY DEF Decoder
<1>2. CASE ~d.allocated
  <2>1. r = [ret |-> 0, os |-> d]
    BY <1>2 DEF PacketoutI, StreamCheck
  <2>2. r.ret = 0
    BY <2>1
  <2> QED
    BY <2>2
<1>3. CASE d.allocated /\ r.ret # 0
  <2>1. /\ d.serialno = Serial
        /\ lr <= d.lacing_packet /\ d.lacing_packet <= Len(d.lacing) /\ br <= Len(d.body)
        /\ Holds(l, b, w, top, ps, st, off, bytes, d.pageno, lam, lg, left, n)
    BY <1>3 DEF Decoder
  <2>2. /\ d.allocated /\ lr < d.lacing_packet
        /\ r.ret = -1 => l[1].hole /\ Advanced(r.os, d, 1, 0)
        /\ r.ret = 1 => ~l[1].hole
        /\ r.ret = 1 => \A q : OnePacket(l, q) =>
             \A m \in 0 .. Len(b) :
               m = LacedBytes(SubSeq(d.lacing, lr + 1, lr + q))
               => Reads(r.op, l, b, q, m) /\ (adv => Advanced(r.os, d, q, m))
    BY <1>1, <1>3, <2>1, PacketoutParts
  <2>3. lr \in Nat /\ d.lacing_packet \in Nat /\ d.lacing \in Seq(SegmentType) /\ d.body \in Seq(Nat)
    BY <1>1 DEF StreamState
  <2>4. PICK pos, bo :
          /\ View(l, b, w, pos, bo, top, ps, st, off, bytes)
          /\ Begins(l, pos, ps, st, off, top, lam, lg)
          /\ \/ d.pageno = n /\ Resume(l, pos, st, lam, lg, top, left)
             \/ d.pageno = -1 /\ Len(l) = 0 /\ Marked(lg)
    BY <2>1 DEF Holds
  <2> HIDE DEF lr, br, l, b, w, left
  <2>5. w \in Nat /\ w # 0
    BY <2>2, <2>3 DEF w
  <2>6. ViewFacts(l, b, w, pos, bo, top, ps, st, off, bytes)
    BY <2>4, ViewIs
  <2>7. /\ Len(l) \in Nat /\ w <= Len(l) /\ l[w].len < Full /\ bo[0] = 0 /\ Len(b) \in Nat
        /\ \A i \in 0 .. Len(l) : bo[i] \in Nat /\ bo[i] <= Len(b)
        /\ \A i \in 1 .. Len(l) :
             /\ i - 1 \in 0 .. Len(l)
             /\ bo[i] = bo[i - 1] + l[i].len
             /\ pos[i] = 0 => l[i].hole /\ l[i].len = 0
             /\ pos[i] # 0 => Entry(l[i], pos[i], ps, st, off)
    BY <2>5, <2>6 DEF ViewFacts
  <2>8. 1 \in 1 .. Len(l) /\ w \in 1 .. Len(l) /\ Len(l) # 0
    BY <2>5, <2>7
  <2>9. d.pageno = n /\ Resume(l, pos, st, lam, lg, top, left)
    BY <2>4, <2>8
  <2>10. pos[1] = 0 <=> l[1].hole
    BY <2>7, <2>8 DEF Entry
  <2>11. ASSUME NEW q \in 1 .. w
         PROVE  Later(Drop(l, q), LaterPos(pos, Len(l), q), l, pos, q)
    <3>1. q \in 0 .. w
      BY <2>5
    <3>2. /\ Len(Drop(l, q)) = Len(l) - q
          /\ \A i \in 1 .. Len(l) - q : /\ Drop(l, q)[i] = l[q + i]
                                        /\ LaterPos(pos, Len(l), q)[i] = pos[q + i]
      BY ONLY <2>4, <3>1, top \in Nat, ViewDrop
    <3> QED
      BY <3>2 DEF Later
  <2>12. ASSUME NEW q \in 1 .. w, NEW c, c = bo[q], NEW z, Advanced(z, d, q, c), NEW k, NEW lg2,
                Goes(Drop(l, q), LaterPos(pos, Len(l), q), ps, st, off, top, k, lg2, left)
         PROVE  Decoder(z, ps, gs, st, off, bytes, cut, n, k, lg2)
    <3>1. q \in 0 .. w
      BY <2>5
    <3>2. /\ lr = d.lacing_returned /\ br = d.body_returned
          /\ l = Drop(d.lacing, lr) /\ b = Drop(d.body, br) /\ w = d.lacing_packet - lr
      BY DEF lr, br, l, b, w
    <3>3. Goes(Drop(l, q), LaterPos(pos, Len(l), q), ps, st, off, top, k, lg2, Len(gs) - n)
      BY <2>12 DEF left
    <3> QED
      BY ONLY <1>1, <2>1, <2>4, <2>9, <2>12, <3>1, <3>2, <3>3, top \in Nat, top = cut[n], Stepped
  <2>13. ASSUME r.ret = -1
         PROVE  Decoder(r.os, ps, gs, st, off, bytes, cut, n, lam, Append(lg, HoleEntry))
    <3> DEFINE lg2 == Append(lg, HoleEntry)
               l2 == Drop(l, 1)
               x == LaterPos(pos, Len(l), 1)
    <3>1. pos[1] = 0 /\ Advanced(r.os, d, 1, 0)
      BY <2>2, <2>10, <2>13
    <3>2. 1 \in 1 .. w
      BY <2>5
    <3>3. bo[1] = 0
      <4>1. bo[1] = bo[1 - 1] + l[1].len /\ l[1].len = 0
        BY <2>7, <2>8, <3>1
      <4>2. 1 - 1 = 0
        OBVIOUS
      <4> QED
        BY <2>7, <4>1, <4>2
    <3>4. Marked(lg2)
      BY MarkedHole
    <3>5. Later(l2, x, l, pos, 1)
      BY <2>11, <3>2
    <3> HIDE DEF lg2, l2, x
    <3>6. Goes(l2, x, ps, st, off, top, lam, lg2, left)
      BY <2>4, <2>8, <2>9, <3>1, <3>4, <3>5, AfterHole
    <3> DEFINE z == r.os
    <3>7. Advanced(z, d, 1, bo[1])
      BY <3>1, <3>3
    <3> HIDE DEF z
    <3>8. Decoder(z, ps, gs, st, off, bytes, cut, n, lam, lg2)
      BY <2>12, <3>2, <3>6, <3>7 DEF l2, x
    <3> QED
      BY <3>8 DEF z, lg2
  <2>14. ASSUME r.ret = 1, adv
         PROVE  Delivered(r, ps, gs, st, off, bytes, cut, n, lam, lg)
    <3>1. pos[1] # 0
      BY <2>2, <2>10, <2>14
    <3>2. PICK q \in 1 .. w : OnePacket(l, q)
      BY <2>7, <2>8, FirstEnd
    <3>3. PICK k \in 1 .. Len(ps) :
             k > lam /\ (k = lam + 1 \/ Marked(lg)) /\ Run(pos, st, k, q)
      BY <2>4, <3>1, <3>2, RunIs
    <3> DEFINE c == bo[q]
               l2 == Drop(l, q)
               x == LaterPos(pos, Len(l), q)
               lg2 == Append(lg, k)
               z == r.os
    <3>4. q \in 1 .. Len(l) /\ q \in 0 .. Len(l) /\ c \in 0 .. Len(b) /\ c \in Nat
      <4>1. q \in 1 .. Len(l) /\ q \in 0 .. Len(l)
        BY <2>5, <2>7
      <4>2. c \in Nat /\ c <= Len(b)
        BY <2>7, <4>1
      <4> HIDE DEF c
      <4> QED
        BY <2>7, <4>1, <4>2
    <3>5. c = LacedBytes(SubSeq(d.lacing, lr + 1, lr + q))
      <4>1. lr \in 0 .. Len(d.lacing)
        <5>1. Len(d.lacing) \in Nat
          BY <2>3, LenProperties
        <5>2. lr <= d.lacing_packet /\ d.lacing_packet <= Len(d.lacing)
          BY <2>1
        <5> QED
          BY <2>3, <5>1, <5>2
      <4>2. l = Drop(d.lacing, lr)
        BY DEF l
      <4> QED
        BY <2>3, <2>4, <3>4, <4>1, <4>2, LacedFront
    <3> HIDE DEF c
    <3>6. Reads(r.op, l, b, q, c) /\ Advanced(r.os, d, q, c)
      BY <2>2, <2>14, <3>2, <3>4, <3>5
    <3>7. Spelled(b, ps, k, c)
      BY <2>4, <3>2, <3>3, RunBytes DEF c
    <3>8. Labels(r.op, ps, k)
      BY <2>4, <3>2, <3>3, <3>6, <3>7, LabelsAre
    <3>9. Later(l2, x, l, pos, q)
      BY <2>11, <3>2
    <3> HIDE DEF lg2, l2, x
    <3>10. Goes(l2, x, ps, st, off, top, k, lg2, left)
      BY <2>4, <2>9, <3>2, <3>3, <3>9, AfterPacket
    <3>11. Advanced(z, d, q, c)
      BY <3>6
    <3> HIDE DEF z
    <3>12. Decoder(z, ps, gs, st, off, bytes, cut, n, k, lg2)
      BY <2>12, <3>2, <3>10, <3>11 DEF l2, x, c
    <3>13. Decoder(r.os, ps, gs, st, off, bytes, cut, n, k, Append(lg, k))
      BY <3>12 DEF z, lg2
    <3> QED
      BY <3>3, <3>8, <3>13 DEF Delivered
  <2> QED
    BY <2>13, <2>14
<1>4. CASE r.ret = 0
  BY <1>4
<1> QED
  BY <1>2, <1>3, <1>4

(* Nothing is held, and nothing is missing before segment c that the       *)
(* reader was not told of.                                                 *)
LEMMA EmptyHolds ==
  ASSUME NEW ps, NEW st, NEW off, NEW bytes, NEW c \in Nat, NEW lam \in 0 .. Len(ps),
         st[lam + 1] <= c, NEW pageno, NEW lg, NEW left, NEW n,
         \/ pageno = n /\ st[lam + 1] = c
         \/ pageno = -1 /\ Marked(lg)
  PROVE  Holds(<<>>, <<>>, 0, c, ps, st, off, bytes, pageno, lam, lg, left, n)
<1> DEFINE pos == [i \in 1 .. 0 |-> 0]
           bo == [i \in 0 .. 0 |-> 0]
<1>1. <<>> \in Seq(SegmentType) /\ <<>> \in Seq(Nat) /\ Len(<<>>) = 0
  BY EmptySeq
<1>2. pos \in [1 .. 0 -> 0 .. c] /\ bo \in [0 .. 0 -> Nat] /\ bo[0] = 0
  OBVIOUS
<1> HIDE DEF pos, bo
<1>3. Shape(<<>>, <<>>, 0, pos, bo, c)
  <2>1. \A i, j \in 0 .. 0 : i <= j => bo[i] <= bo[j]
    <3>1. \A i \in 0 .. 0 : i = 0
      OBVIOUS
    <3> QED
      BY <1>2, <3>1
  <2> QED
    BY <1>1, <1>2, <2>1 DEF Shape
<1>4. /\ Filling(<<>>, <<>>, pos, bo, ps, st, off, bytes)
      /\ Sequence(<<>>, pos, off)
  BY <1>1 DEF Filling, Sequence
<1>5. View(<<>>, <<>>, 0, pos, bo, c, ps, st, off, bytes)
  BY <1>3, <1>4 DEF View
<1>6. Begins(<<>>, pos, ps, st, off, c, lam, lg)
  BY <1>1 DEF Begins
<1>7. st[lam + 1] = c => Resume(<<>>, pos, st, lam, lg, c, left)
  BY <1>1 DEF Resume
<1>8. \/ pageno = n /\ Resume(<<>>, pos, st, lam, lg, c, left)
      \/ pageno = -1 /\ Len(<<>>) = 0 /\ Marked(lg)
  BY <1>1, <1>7
<1> QED
  BY <1>5, <1>6, <1>8 DEF Holds

(* A decoder that was just set up, whatever was written.                   *)
LEMMA FreshIs ==
  ASSUME NEW ps, NEW st, NEW off, NEW bytes, Streamed(ps, st, off, bytes),
         NEW gs, NEW cut, Paged(ps, gs, st, off, bytes, cut)
  PROVE  Decoder(StreamInit(Serial), ps, gs, st, off, bytes, cut, 0, 0, <<>>)
<1> DEFINE d == StreamInit(Serial)
<1>1. /\ d \in StreamState /\ d.body = <<>> /\ d.body_returned = 0 /\ d.lacing = <<>>
      /\ d.lacing_packet = 0 /\ d.lacing_returned = 0
      /\ d.serialno = Serial /\ d.pageno = 0
  BY FreshStream DEF Serial
<1>2. cut[0] = 0 /\ st[1] = 0
  BY DEF Streamed, Starts, Paged, Cuts
<1>3. 0 \in 0 .. Len(ps)
  <2>1. ps \in Seq(Packet)
    BY DEF Streamed, Starts
  <2>2. Len(ps) \in Nat
    BY <2>1, LenProperties
  <2> QED
    BY <2>2
<1> HIDE DEF d
<1> DEFINE left == Len(gs) - 0
<1> HIDE DEF left
<1>4. Holds(<<>>, <<>>, 0, 0, ps, st, off, bytes, 0, 0, <<>>, left, 0)
  <2>1. st[0 + 1] = 0 /\ st[0 + 1] <= 0 /\ 0 \in Nat
    BY <1>2
  <2> QED
    BY <1>3, <2>1, EmptyHolds
<1>5. Holds(d.lacing, d.body, d.lacing_packet, cut[0], ps, st, off, bytes,
            d.pageno, 0, <<>>, Len(gs) - 0, 0)
  BY <1>1, <1>2, <1>4 DEF left
<1> DEFINE n == 0
<1>6. cut[n] \in Nat
  BY <1>2
<1>7. Holds(d.lacing, d.body, d.lacing_packet, cut[n], ps, st, off, bytes,
            d.pageno, 0, <<>>, Len(gs) - n, n)
  BY <1>5
<1> HIDE DEF n
<1>8. Decoder(d, ps, gs, st, off, bytes, cut, n, 0, <<>>)
  BY <1>1, <1>6, <1>7, FreshDecoder
<1> QED
  BY <1>8 DEF d, n

(* A reader that seeks drops what the decoder holds.                       *)
LEMMA SeekIs ==
  ASSUME NEW ps, NEW st, NEW off, NEW bytes,
         NEW gs, NEW cut, NEW n, NEW top \in Nat, top = cut[n],
         NEW lam, NEW lg, lg \in Seq(Int), NEW d,
         Decoder(d, ps, gs, st, off, bytes, cut, n, lam, lg)
  PROVE  Decoder(StreamResetSerialno(d, Serial), ps, gs, st, off, bytes, cut, n, lam,
                 Append(lg, SeekEntry))
<1> DEFINE z == StreamResetSerialno(d, Serial)
           lg2 == Append(lg, SeekEntry)
<1>1. d \in StreamState
  BY DEF Decoder
<1>2. CASE ~d.allocated
  <2>1. z = d
    BY <1>2 DEF StreamResetSerialno, StreamCheck
  <2> HIDE DEF z
  <2>2. Decoder(z, ps, gs, st, off, bytes, cut, n, lam, lg2)
    BY <1>1, <1>2, <2>1 DEF Decoder
  <2> QED
    BY <2>2 DEF z
<1>3. CASE d.allocated
  <2> DEFINE s == d.serialno
             x == StreamInit(s)
  <2>1. z = [[x EXCEPT !.pageno = -1] EXCEPT !.serialno = Serial]
    BY <1>3 DEF StreamResetSerialno, StreamReset, StreamCheck
  <2>2. s \in Int /\ Serial \in Int
    BY <1>1 DEF StreamState, Serial
  <2> HIDE DEF s
  <2>3. /\ x \in StreamState /\ x.body = <<>> /\ x.body_returned = 0 /\ x.lacing = <<>>
        /\ x.lacing_packet = 0 /\ x.lacing_returned = 0
    BY <2>2, FreshStream
  <2> HIDE DEF x, z
  <2>4. /\ z \in StreamState /\ z.body = <<>> /\ z.body_returned = 0 /\ z.lacing = <<>>
        /\ z.lacing_packet = 0 /\ z.lacing_returned = 0 /\ z.serialno = Serial /\ z.pageno = -1
    <3> DEFINE y == [x EXCEPT !.pageno = -1]
               sn == Serial
    <3>1. sn \in Int /\ -1 \in Int
      BY <2>2
    <3> HIDE DEF sn
    <3>2. y \in StreamState /\ y.body = x.body /\ y.body_returned = x.body_returned
          /\ y.lacing = x.lacing /\ y.lacing_packet = x.lacing_packet
          /\ y.lacing_returned = x.lacing_returned /\ y.pageno = -1
      BY <2>3, <3>1 DEF StreamState
    <3>3. z = [y EXCEPT !.serialno = sn]
      BY <2>1 DEF sn
    <3> HIDE DEF y
    <3>4. z \in StreamState /\ z.body = y.body /\ z.body_returned = y.body_returned
          /\ z.lacing = y.lacing /\ z.lacing_packet = y.lacing_packet
          /\ z.lacing_returned = y.lacing_returned /\ z.pageno = y.pageno /\ z.serialno = sn
      BY <3>1, <3>2, <3>3 DEF StreamState
    <3> QED
      BY <2>3, <3>2, <3>4 DEF sn
  <2>5. Marked(lg2)
    BY MarkedHole
  <2>6. lam \in 0 .. Len(ps) /\ st[lam + 1] <= top
    <3> DEFINE l == Drop(d.lacing, d.lacing_returned)
    <3>1. \E pos : Begins(l, pos, ps, st, off, top, lam, lg)
      BY <1>3 DEF Decoder, Holds
    <3> HIDE DEF l
    <3> QED
      BY <3>1 DEF Begins
  <2> HIDE DEF lg2
  <2> DEFINE left == Len(gs) - n
  <2> HIDE DEF left
  <2>7. Holds(<<>>, <<>>, 0, top, ps, st, off, bytes, -1, lam, lg2, left, n)
    BY <2>5, <2>6, EmptyHolds
  <2>8. Holds(z.lacing, z.body, z.lacing_packet, cut[n], ps, st, off, bytes,
              z.pageno, lam, lg2, Len(gs) - n, n)
    BY <2>4, <2>7 DEF left
  <2>9. Decoder(z, ps, gs, st, off, bytes, cut, n, lam, lg2)
    BY <2>4, <2>8, FreshDecoder
  <2> QED
    BY <2>9 DEF z, lg2
<1> QED
  BY <1>2, <1>3

-----------------------------------------------------------------------------
(* The log. *)

NumbersOf(lg) == {i \in DOMAIN lg : ~(lg[i] = HoleEntry \/ lg[i] = SeekEntry)}

(* The number of the last packet in it.                                    *)
LastOf(lg) ==
  IF NumbersOf(lg) = {} THEN 0
  ELSE lg[CHOOSE i \in NumbersOf(lg) : \A j \in NumbersOf(lg) : j <= i]

(* These are the channel's.                                                *)
LEMMA LogIs ==
  /\ Channel!Latest = LastOf(log)
  /\ log # <<>> /\ Channel!IsMark(log[Len(log)]) <=> Marked(log)
<1>1. \A e : Channel!IsMark(e) <=> (e = HoleEntry \/ e = SeekEntry)
  BY DEF Channel!IsMark
<1>2. Channel!Numbers = NumbersOf(log)
  BY <1>1 DEF Channel!Numbers, NumbersOf
<1>3. Channel!Latest = LastOf(log)
  BY <1>2 DEF Channel!Latest, LastOf
<1> QED
  BY <1>1, <1>3 DEF Marked

(* The empty log has delivered nothing. *)
LEMMA LogAtFirst == LastOf(<<>>) = 0
<1>1. NumbersOf(<<>>) = {}
  BY EmptySeq DEF NumbersOf
<1> QED
  BY <1>1 DEF LastOf

(* What is added to it.                                                    *)
LEMMA LogGrows ==
  ASSUME NEW lg, lg \in Seq(Int), NEW e \in Int
  PROVE  LastOf(Append(lg, e)) = IF e = HoleEntry \/ e = SeekEntry THEN LastOf(lg) ELSE e
<1> DEFINE n == Len(lg)
           h == Append(lg, e)
           A == NumbersOf(lg)
           B == NumbersOf(h)
           top(S) == CHOOSE i \in S : \A j \in S : j <= i
<1>1. n \in Nat /\ DOMAIN lg = 1 .. n
  BY LenProperties
<1>2. h \in Seq(Int) /\ Len(h) = n + 1 /\ (\A i \in 1 .. n : h[i] = lg[i]) /\ h[n + 1] = e
  BY AppendIs
<1> HIDE DEF h, n
<1>3. DOMAIN h = 1 .. n + 1
  BY <1>2, LenProperties
<1>4. \A i \in 1 .. n + 1 : i \in 1 .. n \/ i = n + 1
  BY <1>1
<1>5. n + 1 \in 1 .. n + 1 /\ \A i \in 1 .. n : i \in 1 .. n + 1
  BY <1>1
<1>6. CASE e = HoleEntry \/ e = SeekEntry
  <2>1. B = A
    BY <1>1, <1>2, <1>3, <1>4, <1>5, <1>6 DEF NumbersOf
  <2> HIDE DEF B
  <2>2. CASE A = {}
    BY <1>6, <2>1, <2>2 DEF LastOf, B, h
  <2>3. CASE A # {}
    <3>1. A \subseteq 0 .. n /\ A \subseteq 1 .. n
      BY <1>1 DEF NumbersOf
    <3> HIDE DEF A
    <3>2. \E i \in A : \A j \in A : j <= i
      <4>1. Max(A) \in A /\ \A x \in A : x <= Max(A)
        BY <1>1, <2>3, <3>1, MaxIn
      <4> QED
        BY <4>1
    <3>3. top(A) \in A
      BY <3>2
    <3> DEFINE i == top(A)
    <3>4. i \in 1 .. n
      BY <3>1, <3>3
    <3>5. LastOf(lg) = lg[top(A)]
      BY <2>3 DEF LastOf, A
    <3>6. LastOf(h) = h[top(B)]
      BY <2>1, <2>3 DEF LastOf, B
    <3>7. top(B) = top(A)
      BY <2>1
    <3> HIDE DEF i
    <3>8. h[i] = lg[i]
      BY <1>2, <3>4
    <3> QED
      BY <1>6, <3>5, <3>6, <3>7, <3>8 DEF h, i
  <2> QED
    BY <2>2, <2>3
<1>7. CASE ~(e = HoleEntry \/ e = SeekEntry)
  <2>1. n + 1 \in B /\ B \subseteq 1 .. n + 1
    BY <1>2, <1>3, <1>5, <1>7 DEF NumbersOf
  <2> HIDE DEF B
  <2>2. \A j \in B : j <= n + 1
    BY <1>1, <2>1
  <2>3. top(B) \in B /\ \A j \in B : j <= top(B)
    BY <2>1, <2>2
  <2> DEFINE i == top(B)
  <2>4. i \in 1 .. n + 1 /\ n + 1 <= i
    BY <2>1, <2>3
  <2> HIDE DEF i
  <2>5. i = n + 1
    BY <1>1, <2>4
  <2>6. LastOf(h) = h[top(B)]
    BY <2>1 DEF LastOf, B
  <2> QED
    BY <1>2, <1>7, <2>5, <2>6 DEF h, i
<1> QED
  BY <1>6, <1>7

-----------------------------------------------------------------------------
(* The channel. *)

(* The stream in segments and bytes, its pages cut[i] segments long, and the
   reader with n of them: what is under way are later pages, and what the
   decoder holds goes on behind the last packet in the log.                *)
Traced(st, off, bytes, cut, n) ==
  /\ Written(enc, packets, pages, st, off, bytes, cut)
  /\ n \in 0 .. Len(pages) /\ Carrying(oy, wire, pages, n)
  /\ Decoder(dec, packets, pages, st, off, bytes, cut, n, LastOf(log), log)

ReaderWaits ==
  ~recorded => dec = StreamInit(Serial) /\ oy = SyncInit /\ log = <<>> /\ op = NoPacket

OpLabelled == op # NoPacket => \E k \in 1 .. Len(packets) : Labels(op, packets, k)

Inv ==
  /\ \E st, off, bytes, cut, n : Traced(st, off, bytes, cut, n)
  /\ log \in Seq(Int)
  /\ ReaderWaits
  /\ OpLabelled
  /\ PagesSpanOnlyWhenFull

(* Earlier pages may come as well.                                         *)
LEMMA CarryingMore ==
  ASSUME NEW y, NEW w, NEW gs, NEW n \in Nat, Carrying(y, w, gs, n)
  PROVE  Carrying(y, w, gs, 0)
<1> DEFINE s == y.data \o w
           k == y.returned
<1>1. Coming(gs, n, s, k)
  BY DEF Carrying
<1> HIDE DEF s, k
<1>2. \A j \in n + 1 .. Len(gs) : j \in 0 + 1 .. Len(gs)
  OBVIOUS
<1>3. Coming(gs, 0, s, k)
  BY <1>1, <1>2 DEF Coming
<1> QED
  BY <1>3 DEF Carrying, s, k

(* While the writer is at work the reader has nothing.                     *)
LEMMA ReaderFresh ==
  ASSUME NEW st, NEW off, NEW bytes, NEW cut,
         Written(enc', packets', pages', st, off, bytes, cut),
         Carrying(oy', wire', pages', 0),
         dec' = StreamInit(Serial), log' = <<>>
  PROVE  Traced(st, off, bytes, cut, 0)'
<1>1. Streamed(packets', st, off, bytes) /\ Paged(packets', pages', st, off, bytes, cut)
  BY DEF Written
<1>2. Decoder(dec', packets', pages', st, off, bytes, cut, 0, LastOf(log'), log')
  BY <1>1, FreshIs, LogAtFirst
<1>3. 0 \in 0 .. Len(pages')
  <2>1. pages' \in Seq(Page)
    BY <1>1 DEF Paged
  <2>2. Len(pages') \in Nat
    BY <2>1, LenProperties
  <2> QED
    BY <2>2
<1> QED
  BY <1>2, <1>3 DEF Traced

(* The invariant holds at first. *)
LEMMA InvAtFirst ==
  ASSUME Init
  PROVE  Inv
<1> DEFINE st == [k \in 1 .. 1 |-> 0]
           off == [g \in 0 .. 0 |-> 0]
           cut == [i \in 0 .. 0 |-> 0]
<1>1. Written(enc, packets, pages, st, off, <<>>, cut)
  BY WrittenAtFirst
<1>2. /\ packets = <<>> /\ pages = <<>> /\ dec = StreamInit(Serial) /\ oy = SyncInit
      /\ wire = <<>> /\ log = <<>> /\ op = NoPacket /\ ~recorded
  BY DEF Init
<1> HIDE DEF st, off, cut
<1>3. /\ <<>> \in Seq(Token) /\ <<>> \in Seq(Int) /\ Len(<<>>) = 0
  BY EmptySeq
<1>4. Carrying(oy, wire, pages, 0)
  <2>1. SyncOk(SyncInit)
    BY <1>3 DEF SyncOk, SyncInit
  <2>2. SyncInit.data = <<>> /\ SyncInit.returned = 0
    BY DEF SyncInit
  <2>3. <<>> \o <<>> = <<>>
    OBVIOUS
  <2>4. Coming(<<>>, 0, <<>>, 0)
    <3>1. \A i \in 0 + 1 .. 0 : FALSE
      OBVIOUS
    <3> QED
      BY <1>3, <3>1 DEF Coming
  <2> QED
    BY <1>2, <1>3, <2>1, <2>2, <2>3, <2>4 DEF Carrying
<1>5. Traced(st, off, <<>>, cut, 0)
  <2>1. Streamed(packets, st, off, <<>>) /\ Paged(packets, pages, st, off, <<>>, cut)
    BY <1>1 DEF Written
  <2>2. Decoder(dec, packets, pages, st, off, <<>>, cut, 0, LastOf(log), log)
    BY <1>2, <2>1, FreshIs, LogAtFirst
  <2>3. 0 \in 0 .. Len(pages)
    BY <1>2, <1>3
  <2> QED
    BY <1>1, <1>4, <2>2, <2>3 DEF Traced
<1>6. PagesSpanOnlyWhenFull
  <2>1. DOMAIN pages = {}
    BY <1>2, EmptySeq
  <2> QED
    BY <2>1 DEF PagesSpanOnlyWhenFull
<1>7. ReaderWaits /\ OpLabelled
  BY <1>2 DEF ReaderWaits, OpLabelled
<1>8. log \in Seq(Int)
  BY <1>2, <1>3
<1> QED
  BY <1>5, <1>6, <1>7, <1>8 DEF Inv

(* What the writer needs of the invariant.                                 *)
LEMMA WriterReady ==
  ASSUME Inv, ~recorded
  PROVE  /\ dec = StreamInit(Serial) /\ oy = SyncInit /\ log = <<>> /\ op = NoPacket
         /\ \E st, off, bytes, cut :
              Written(enc, packets, pages, st, off, bytes, cut) /\ Carrying(oy, wire, pages, 0)
<1>1. PICK st, off, bytes, cut, n : Traced(st, off, bytes, cut, n)
  BY DEF Inv
<1>2. n \in Nat /\ Written(enc, packets, pages, st, off, bytes, cut) /\ Carrying(oy, wire, pages, n)
  BY <1>1 DEF Traced
<1>3. Carrying(oy, wire, pages, 0)
  BY <1>2, CarryingMore
<1>4. dec = StreamInit(Serial) /\ oy = SyncInit /\ log = <<>> /\ op = NoPacket
  BY DEF Inv, ReaderWaits
<1> QED
  BY <1>2, <1>3, <1>4

(* A step of the writer.                                                   *)
LEMMA WriterKeeps ==
  ASSUME ~recorded, Inv, UNCHANGED <<dec, oy, log, op>>,
         NEW st, NEW off, NEW bytes, NEW cut,
         Written(enc', packets', pages', st, off, bytes, cut),
         Carrying(oy', wire', pages', 0), PagesSpanOnlyWhenFull'
  PROVE  Inv'
<1>1. dec = StreamInit(Serial) /\ oy = SyncInit /\ log = <<>> /\ op = NoPacket
  BY WriterReady
<1>2. dec' = StreamInit(Serial) /\ oy' = SyncInit /\ log' = <<>> /\ op' = NoPacket
  BY <1>1
<1>3. Traced(st, off, bytes, cut, 0)'
  BY <1>2, ReaderFresh
<1>4. (log \in Seq(Int))'
  BY <1>2, EmptySeq
<1>5. ReaderWaits' /\ OpLabelled'
  BY <1>2 DEF ReaderWaits, OpLabelled, NoPacket
<1> QED
  BY <1>3, <1>4, <1>5 DEF Inv

(* The step does not touch the pages.                                      *)
LEMMA PagesStay ==
  ASSUME PagesSpanOnlyWhenFull, pages' = pages
  PROVE  PagesSpanOnlyWhenFull'
BY DEF PagesSpanOnlyWhenFull

(* Submitting a packet keeps the invariant, and the writer stays fit for *)
(* the next.                                                             *)
LEMMA SubmitKeeps ==
  ASSUME Inv, NEW len \in Lengths, NEW e_o_s \in BOOLEAN, NEW expandable \in BOOLEAN,
         Submit(len, e_o_s, expandable)
  PROVE  Inv'
<1>1. ~recorded /\ UNCHANGED <<dec, oy, wire, pages, log, op>>
  BY DEF Submit
<1>2. PICK st, off, bytes, cut :
         Written(enc, packets, pages, st, off, bytes, cut) /\ Carrying(oy, wire, pages, 0)
  BY <1>1, WriterReady
<1>3. Carrying(oy', wire', pages', 0)
  BY <1>1, <1>2
<1>4. PagesSpanOnlyWhenFull'
  BY <1>1, PagesStay DEF Inv
<1>5. \/ packets' = packets /\ Written(enc', packets', pages', st, off, bytes, cut)
      \/ \E q \in Packet :
           Written(enc', packets', pages', NextStarts(packets, st, Len(q.packet)),
                   NextOffsets(Total(packets, st), off, Len(q.packet)), bytes \o q.packet, cut)
  BY <1>2, SubmitWrites
<1>6. \E u, v, w : Written(enc', packets', pages', u, v, w, cut)
  BY <1>5
<1>7. PICK u, v, w : Written(enc', packets', pages', u, v, w, cut)
  BY <1>6
<1>8. UNCHANGED <<dec, oy, log, op>>
  BY <1>1
<1> QED
  BY <1>1, <1>3, <1>4, <1>7, <1>8, WriterKeeps

(* A page is sent.                                                         *)
LEMMA SendKeeps ==
  ASSUME Inv, NEW force, NEW nfill, NEW r, r = FlushI(enc, force, nfill), Send(r)
  PROVE  Inv'
<1> DEFINE p == r.page
<1>1. /\ ~recorded /\ r.ret = 1 /\ enc' = r.os /\ pages' = Append(pages, p)
      /\ UNCHANGED <<dec, oy, log, op>> /\ packets' = packets
      /\ Arrives(p) \/ Lost(p) \/ Cut(p) \/ Damaged(p)
  BY DEF Send
<1>2. PICK st, off, bytes, cut :
         Written(enc, packets, pages, st, off, bytes, cut) /\ Carrying(oy, wire, pages, 0)
  BY <1>1, WriterReady
<1> DEFINE c2 == NextCut(Len(pages), cut, Vals(enc, nfill))
<1>3. /\ p \in Page /\ Written(enc', packets', pages', st, off, bytes, c2)
      /\ p.lens[Len(p.lens)] = Full => Len(p.lens) = MaxSegments
  BY <1>1, <1>2, SendWrites
<1> HIDE DEF c2, p
<1>4. Numbered(pages) /\ Numbered(Append(pages, p))
  <2>1. Paged(packets, pages, st, off, bytes, cut)
    BY <1>2 DEF Written
  <2>2. Paged(packets', pages', st, off, bytes, c2)
    BY <1>3 DEF Written
  <2>3. Numbered(pages')
    BY <2>2, PagedNumbered
  <2> QED
    BY <1>1, <2>1, <2>3, PagedNumbered
<1>5. pages \in Seq(Page) /\ Len(pages) \in Nat
  BY <1>4, LenProperties DEF Numbered
<1>6. \E ts : Fair(p, ts) /\ wire' = wire \o ts
  <2> DEFINE pt == PageTokens(p)
  <2>1. Fair(p, pt)
    BY <1>3, PageTokensFair
  <2>2. CASE Arrives(p)
    BY <2>1, <2>2 DEF Arrives, Transmit
  <2>3. CASE Lost(p)
    <3>1. wire' = wire
      BY <2>3 DEF Lost
    <3>2. wire \in Seq(Token)
      BY <1>2 DEF Carrying
    <3>3. wire \o <<>> = wire
      BY <3>2, ConcatEmptySeq
    <3> QED
      BY <3>1, <3>3, NothingFair
  <2>4. CASE Cut(p)
    <3>1. PICK n \in 1 .. Len(pt) - 1 : wire' = wire \o SubSeq(pt, 1, n)
      BY <2>4 DEF Cut, Transmit
    <3> HIDE DEF pt
    <3>2. Fair(p, SubSeq(pt, 1, n))
      BY <2>1, CutFair
    <3> QED
      BY <3>1, <3>2
  <2>5. CASE Damaged(p)
    <3>1. PICK i \in 1 .. Len(pt) :
             wire' = wire \o [pt EXCEPT ![i] = IF pt[i] = Byte(Capture) THEN Byte(WildValue)
                                               ELSE Byte(Capture)]
      BY <2>5 DEF Damaged, Transmit
    <3> DEFINE v == IF pt[i] = Byte(Capture) THEN WildValue ELSE Capture
               u == [pt EXCEPT ![i] = Byte(v)]
    <3>2. v \in Nat
      BY CaptureAssumption
    <3>3. wire' = wire \o u
      BY <3>1
    <3> HIDE DEF pt, v
    <3>4. Fair(p, u)
      BY <2>1, <3>2, DamagedFair
    <3> QED
      BY <3>3, <3>4
  <2> QED
    BY <1>1, <2>2, <2>3, <2>4, <2>5
<1>7. PICK ts : Fair(p, ts) /\ wire' = wire \o ts
  BY <1>6
<1>8. Carrying(oy', wire', pages', 0)
  <2>1. 0 \in 0 .. Len(pages)
    BY <1>5
  <2>2. Carrying(oy, wire \o ts, Append(pages, p), 0)
    BY <1>2, <1>3, <1>4, <1>7, <2>1, CarryingSent
  <2> QED
    BY <1>1, <1>7, <2>2 DEF p
<1>9. PagesSpanOnlyWhenFull'
  <2> DEFINE n == Len(pages)
             gs == Append(pages, p)
  <2>1. /\ gs \in Seq(Page) /\ Len(gs) = n + 1 /\ n \in Nat
        /\ \A i \in 1 .. n : gs[i] = pages[i]
        /\ gs[n + 1] = p
    BY <1>3, <1>5, AppendIs
  <2>2. pages' = gs
    BY <1>1 DEF p
  <2>3. DOMAIN pages = 1 .. n
    BY <1>5, LenProperties
  <2> HIDE DEF gs, n
  <2>4. DOMAIN gs = 1 .. n + 1
    BY <2>1, LenProperties
  <2>5. ASSUME NEW i \in 1 .. n + 1
        PROVE  gs[i].lens[Len(gs[i].lens)] = Full => Len(gs[i].lens) = MaxSegments
    <3>1. CASE i \in 1 .. n
      <4>1. gs[i] = pages[i] /\ i \in DOMAIN pages
        BY <2>1, <2>3, <3>1
      <4> QED
        BY <4>1 DEF Inv, PagesSpanOnlyWhenFull
    <3>2. CASE i = n + 1
      BY <1>3, <2>1, <3>2
    <3> QED
      BY <2>1, <3>1, <3>2
  <2> QED
    BY <2>2, <2>4, <2>5 DEF PagesSpanOnlyWhenFull
<1>10. UNCHANGED <<dec, oy, log, op>> /\ ~recorded
  BY <1>1
<1> QED
  BY <1>3, <1>8, <1>9, <1>10, WriterKeeps

(* Bytes of another source on the wire keep the invariant. *)
LEMMA ForeignKeeps ==
  ASSUME Inv, Foreign
  PROVE  Inv'
<1> DEFINE p == [continued |-> FALSE, bos |-> TRUE, eos |-> FALSE, granulepos |-> 0,
                 serialno |-> OtherSerial, pageno |-> 0, lens |-> <<1>>, body |-> <<Capture>>]
<1>1. ~recorded /\ UNCHANGED <<enc, dec, oy, packets, pages, log, op>>
      /\ wire' = wire \o PageTokens(p)
  BY DEF Foreign, Transmit
<1>2. PICK st, off, bytes, cut :
         Written(enc, packets, pages, st, off, bytes, cut) /\ Carrying(oy, wire, pages, 0)
  BY <1>1, WriterReady
<1>3. p \in Page /\ p.serialno # Serial
  <2>1. <<1>> \in Seq(Nat) /\ <<Capture>> \in Seq(Nat)
    BY CaptureAssumption
  <2> QED
    BY <2>1 DEF Page, OtherSerial, Serial
<1> HIDE DEF p
<1>4. Carrying(oy, wire \o PageTokens(p), pages, 0)
  BY <1>2, <1>3, CarryingOther
<1>5. Carrying(oy', wire', pages', 0)
  BY <1>1, <1>4
<1>6. Written(enc', packets', pages', st, off, bytes, cut)
  BY <1>1, <1>2
<1>7. PagesSpanOnlyWhenFull'
  BY <1>1, PagesStay DEF Inv
<1>8. UNCHANGED <<dec, oy, log, op>>
  BY <1>1
<1> QED
  BY <1>1, <1>5, <1>6, <1>7, <1>8, WriterKeeps

(* The sync layer has nothing to find before anything was fed to it.       *)
LEMMA IdleSync == SyncPageout(SyncInit) = [ret |-> 0, oy |-> SyncInit]
<1> DEFINE y == SyncInit
           page == SubSeq(y.data, y.returned + 1, Len(y.data))
           w == [ret |-> 0, oy |-> y]
<1>1. y.headerbytes = 0 /\ y.returned = 0 /\ y.data = <<>>
  BY DEF SyncInit
<1>2. Len(page) = 0
  <2>1. <<>> \in Seq(Token) /\ Len(<<>>) = 0
    BY EmptySeq
  <2>2. 1 \in 1 .. 1 /\ 0 \in 1 - 1 .. 0 /\ 0 - 1 + 1 = 0
    OBVIOUS
  <2>3. Len(SubSeq(<<>>, 1, 0)) = 0
    <3> DEFINE e == <<>>
    <3>1. e \in Seq(Token) /\ 1 \in 1 .. Len(e) + 1 /\ 0 \in 1 - 1 .. Len(e)
      BY <2>1, <2>2
    <3> HIDE DEF e
    <3>2. Len(SubSeq(e, 1, 0)) = 0 - 1 + 1
      BY <3>1, Piece
    <3> QED
      BY <2>2, <3>2 DEF e
  <2> QED
    BY <1>1, <2>1, <2>3
<1>3. Len(page) < HeaderLen
  <2>1. 0 < 4
    OBVIOUS
  <2> HIDE DEF page
  <2> QED
    BY <1>2, <2>1 DEF HeaderLen
<1> HIDE DEF y
<1>4. Pageseek(y) = w
  BY <1>1, <1>3 DEF Pageseek
<1> HIDE DEF w
<1>5. w.ret = 0 /\ 0 >= 0
  BY DEF w
<1> DEFINE seek == Pageseek(y)
<1>6. seek = w
  BY <1>4
<1> HIDE DEF seek
<1>7. SyncPageout(y) = w
  BY <1>5, <1>6 DEF SyncPageout, seek
<1> QED
  BY <1>7 DEF w, y

(* What a step of the reader leaves alone.                                 *)
Reading == UNCHANGED <<enc, recorded, packets, pages>> /\ recorded

(* A step of the reader.                                                   *)
LEMMA ReaderKeeps ==
  ASSUME Inv, Reading, log' \in Seq(Int),
         NEW st, NEW off, NEW bytes, NEW cut, NEW m \in 0 .. Len(pages),
         Written(enc, packets, pages, st, off, bytes, cut),
         Carrying(oy', wire', pages, m),
         Decoder(dec', packets, pages, st, off, bytes, cut, m, LastOf(log'), log'),
         op' = op \/ \E k \in 1 .. Len(packets) : Labels(op', packets, k)
  PROVE  Inv'
<1>1. enc' = enc /\ packets' = packets /\ pages' = pages /\ recorded' = recorded /\ recorded
  BY DEF Reading
<1>2. Traced(st, off, bytes, cut, m)'
  BY <1>1 DEF Traced
<1>3. ReaderWaits'
  BY <1>1 DEF ReaderWaits
<1>4. OpLabelled'
  BY <1>1 DEF Inv, OpLabelled
<1>5. PagesSpanOnlyWhenFull'
  BY <1>1, PagesStay DEF Inv
<1> QED
  BY <1>2, <1>3, <1>4, <1>5 DEF Inv

(* What the reader needs of the invariant.                                 *)
LEMMA ReaderReady ==
  ASSUME NEW st, NEW off, NEW bytes, NEW cut, NEW n, Traced(st, off, bytes, cut, n)
  PROVE  /\ Streamed(packets, st, off, bytes) /\ Paged(packets, pages, st, off, bytes, cut)
         /\ Numbered(pages) /\ n \in 0 .. Len(pages)
         /\ cut[n] \in Nat /\ cut[n] <= Total(packets, st)
         /\ Written(enc, packets, pages, st, off, bytes, cut)
         /\ Carrying(oy, wire, pages, n)
         /\ Decoder(dec, packets, pages, st, off, bytes, cut, n, LastOf(log), log)
<1>1. /\ Written(enc, packets, pages, st, off, bytes, cut)
      /\ Carrying(oy, wire, pages, n) /\ n \in 0 .. Len(pages)
      /\ Decoder(dec, packets, pages, st, off, bytes, cut, n, LastOf(log), log)
  BY DEF Traced
<1>2. Streamed(packets, st, off, bytes) /\ Paged(packets, pages, st, off, bytes, cut)
  BY <1>1 DEF Written
<1>3. Numbered(pages)
  BY <1>2, PagedNumbered
<1>4. cut[n] \in 0 .. Total(packets, st)
  BY <1>1, <1>2 DEF Paged, Cuts
<1>5. Total(packets, st) \in Nat
  <2>1. packets \in Seq(Packet) /\ Starts(packets, st)
    BY <1>2 DEF Streamed, Starts
  <2>2. 1 \in 1 .. Len(packets) + 1
    BY <2>1, LenProperties
  <2> QED
    BY <2>1, <2>2, StartIs
<1>6. cut[n] \in Nat /\ cut[n] <= Total(packets, st)
  BY <1>4, <1>5
<1> QED
  BY <1>1, <1>2, <1>3, <1>6

(* Handing bytes to the sync layer keeps the invariant. *)
LEMMA FeedKeeps ==
  ASSUME Inv, Feed
  PROVE  Inv'
<1>1. PICK st, off, bytes, cut, n : Traced(st, off, bytes, cut, n)
  BY DEF Inv
<1>2. /\ n \in 0 .. Len(pages) /\ Written(enc, packets, pages, st, off, bytes, cut)
      /\ Carrying(oy, wire, pages, n)
      /\ Decoder(dec, packets, pages, st, off, bytes, cut, n, LastOf(log), log)
  BY <1>1, ReaderReady
<1>3. Reading /\ UNCHANGED <<dec, log, op>>
  BY DEF Feed, Reading
<1>4. PICK h \in Portions :
        LET b == IF h < Len(wire) THEN h ELSE Len(wire)
        IN  oy' = SyncWrite(oy, Take(wire, b)) /\ wire' = Drop(wire, b)
  BY DEF Feed
<1> DEFINE b == IF h < Len(wire) THEN h ELSE Len(wire)
<1>5. b \in 0 .. Len(wire)
  <2>1. wire \in Seq(Token) /\ h \in Nat
    BY <1>2, ChannelAssumption DEF Carrying
  <2>2. Len(wire) \in Nat
    BY <2>1, LenProperties
  <2> QED
    BY <2>1, <2>2
<1>6. oy' = SyncWrite(oy, Take(wire, b)) /\ wire' = Drop(wire, b)
  BY <1>4
<1> HIDE DEF b
<1>7. Carrying(oy', wire', pages, n)
  BY <1>2, <1>5, <1>6, CarryingFed
<1>8. Decoder(dec', packets, pages, st, off, bytes, cut, n, LastOf(log'), log')
  BY <1>2, <1>3
<1>9. log' \in Seq(Int) /\ op' = op
  BY <1>3 DEF Inv
<1> QED
  BY <1>2, <1>3, <1>7, <1>8, <1>9, ReaderKeeps

(* A page comes in, or a loss of sync is reported.                         *)
LEMMA PageInKeeps ==
  ASSUME Inv, NEW ex \in BOOLEAN, PageIn(ex)
  PROVE  Inv'
<1> DEFINE sync == SyncPageout(oy)
<1>1. PICK st, off, bytes, cut, n : Traced(st, off, bytes, cut, n)
  BY DEF Inv
<1>2. /\ n \in 0 .. Len(pages) /\ Written(enc, packets, pages, st, off, bytes, cut)
      /\ Carrying(oy, wire, pages, n) /\ Numbered(pages)
      /\ Streamed(packets, st, off, bytes) /\ Paged(packets, pages, st, off, bytes, cut)
      /\ Decoder(dec, packets, pages, st, off, bytes, cut, n, LastOf(log), log)
  BY <1>1, ReaderReady
<1>3. /\ ~Drained /\ oy' = sync.oy
      /\ UNCHANGED <<enc, wire, recorded, packets, pages, log, op>>
      /\ sync.ret > 0 => dec' = Pagein(dec, sync.page, ex).os
      /\ ~(sync.ret > 0) => dec' = dec
  BY DEF PageIn
<1>4. recorded
  <2>1. oy # SyncInit
    BY <1>3, IdleSync DEF Drained
  <2> QED
    BY <2>1 DEF Inv, ReaderWaits
<1>5. Reading /\ log' = log /\ op' = op /\ wire' = wire /\ log' \in Seq(Int)
  BY <1>3, <1>4 DEF Reading, Inv
<1>6. /\ sync.ret \in Int /\ Carrying(sync.oy, wire, pages, n)
      /\ sync.ret > 0 /\ sync.page.serialno = Serial
         => \E j \in n + 1 .. Len(pages) : sync.page = pages[j] /\ Carrying(sync.oy, wire, pages, j)
  BY <1>2, CarryingSought
<1>7. n \in Nat /\ pages \in Seq(Page) /\ Len(pages) \in Nat
  BY <1>2, LenProperties DEF Numbered
<1>8. CASE ~(sync.ret > 0)
  <2>1. dec' = dec
    BY <1>3, <1>8
  <2>2. Decoder(dec', packets, pages, st, off, bytes, cut, n, LastOf(log'), log')
    BY <1>2, <1>5, <2>1
  <2>3. Carrying(oy', wire', pages, n)
    BY <1>3, <1>5, <1>6
  <2> QED
    BY <1>2, <1>5, <2>2, <2>3, ReaderKeeps
<1>9. CASE sync.ret > 0 /\ sync.page.serialno # Serial
  <2> DEFINE p == sync.page
  <2>1. p \in Page
    <3>1. Sought(oy, sync)
      BY <1>2, SyncPageoutIs DEF Carrying
    <3>2. \E i \in oy.returned + 1 .. sync.oy.returned : oy.data[i] = Checksum(p)
      BY <1>9, <3>1 DEF Sought
    <3> DEFINE h == sync.oy.returned
    <3>3. /\ oy.data \in Seq(Token) /\ oy.returned \in Nat /\ h \in Nat /\ h <= Len(oy.data)
      BY <1>2, <3>1 DEF Carrying, Sought, SyncOk
    <3> HIDE DEF h, sync, p
    <3>4. Len(oy.data) \in Nat
      BY <3>3, LenProperties
    <3>5. PICK i \in oy.returned + 1 .. h : oy.data[i] = Checksum(p)
      BY <3>2 DEF h
    <3>6. i \in 1 .. Len(oy.data)
      BY <3>3, <3>4
    <3>7. Checksum(p) \in Token
      BY <3>3, <3>5, <3>6, ElementOfSeq
    <3> DEFINE t == Checksum(p)
    <3>8. t[1] = "checksum" /\ t[2] = p /\ t \in Token
      BY <3>7 DEF Checksum
    <3> HIDE DEF t
    <3>9. t[2] \in Page
      BY <3>8, TokenIs
    <3> QED
      BY <3>8, <3>9
  <2> HIDE DEF sync
  <2>2. dec' = Pagein(dec, p, ex).os /\ p.serialno # Serial
    BY <1>3, <1>9
  <2> HIDE DEF p
  <2>3. Decoder(Pagein(dec, p, ex).os, packets, pages, st, off, bytes, cut, n, LastOf(log), log)
    BY <1>2, <2>1, <2>2, PageinIs
  <2>4. Decoder(dec', packets, pages, st, off, bytes, cut, n, LastOf(log'), log')
    BY <1>5, <2>2, <2>3
  <2>5. Carrying(oy', wire', pages, n)
    BY <1>3, <1>5, <1>6
  <2> QED
    BY <1>2, <1>5, <2>4, <2>5, ReaderKeeps
<1>10. CASE sync.ret > 0 /\ sync.page.serialno = Serial
  <2> DEFINE p == sync.page
  <2> HIDE DEF sync
  <2>1. PICK j \in n + 1 .. Len(pages) : p = pages[j] /\ Carrying(sync.oy, wire, pages, j)
    BY <1>6, <1>10
  <2>2. j \in 0 .. Len(pages) /\ j \in 1 .. Len(pages)
    BY <1>7
  <2>3. p \in Page
    BY <1>7, <2>1, <2>2, ElementOfSeq
  <2>4. dec' = Pagein(dec, p, ex).os
    BY <1>3, <1>10
  <2> HIDE DEF p
  <2>5. Decoder(Pagein(dec, p, ex).os, packets, pages, st, off, bytes, cut, j, LastOf(log), log)
    BY <1>2, <2>1, <2>3, PageinIs
  <2>6. Decoder(dec', packets, pages, st, off, bytes, cut, j, LastOf(log'), log')
    BY <1>5, <2>4, <2>5
  <2>7. Carrying(oy', wire', pages, j)
    BY <1>3, <1>5, <2>1
  <2> QED
    BY <1>2, <1>5, <2>2, <2>6, <2>7, ReaderKeeps
<1> QED
  BY <1>6, <1>8, <1>9, <1>10

(* The number of a packet that was submitted.                              *)
LEMMA NumberIs ==
  ASSUME Distinct(packets), packets \in Seq(Packet), NEW k \in 1 .. Len(packets),
         NEW x, packets[k].packet = x
  PROVE  NumberOf(x) = k
<1>1. DOMAIN packets = 1 .. Len(packets)
  BY LenProperties
<1>2. \A j \in DOMAIN packets : packets[j].packet = x => j = k
  BY <1>1 DEF Distinct
<1>3. k \in DOMAIN packets
  BY <1>1
<1> QED
  BY <1>2, <1>3 DEF NumberOf

(* A packet, or a hole.                                                    *)
Took(adv) ==
  /\ PacketoutI(dec, adv).ret = 1 /\ adv
  /\ \E k \in 1 .. Len(packets) :
       /\ k > LastOf(log) /\ (k = LastOf(log) + 1 \/ Marked(log))
       /\ log' = Append(log, k)

Missed == log' = Append(log, HoleEntry)

(* ogg_stream_packetout keeps the invariant: it reports a hole, or hands *)
(* over a packet later than all before it.                               *)
LEMMA PacketOutKeeps ==
  ASSUME Inv, PacketOut
  PROVE  Inv' /\ (Missed \/ \E adv \in BOOLEAN : Took(adv))
<1>1. PICK st, off, bytes, cut, n : Traced(st, off, bytes, cut, n)
  BY DEF Inv
<1>2. /\ n \in 0 .. Len(pages) /\ Written(enc, packets, pages, st, off, bytes, cut)
      /\ Carrying(oy, wire, pages, n)
      /\ cut[n] \in Nat /\ cut[n] <= Total(packets, st)
      /\ Streamed(packets, st, off, bytes)
      /\ Decoder(dec, packets, pages, st, off, bytes, cut, n, LastOf(log), log)
  BY <1>1, ReaderReady
<1>3. PICK adv \in BOOLEAN :
        LET r == PacketoutI(dec, adv)
        IN  /\ r.ret = -1 \/ (r.ret = 1 /\ adv)
            /\ dec' = r.os
            /\ log' = Append(log, IF r.ret = 1 THEN NumberOf(r.op.packet) ELSE HoleEntry)
            /\ op' = IF r.ret = 1 THEN r.op ELSE op
            /\ UNCHANGED <<enc, oy, wire, recorded, packets, pages, got, faults>>
  BY DEF PacketOut
<1> DEFINE r == PacketoutI(dec, adv)
           lam == LastOf(log)
           top == cut[n]
<1>4. /\ r.ret = -1 \/ (r.ret = 1 /\ adv)
      /\ dec' = r.os
      /\ r.ret = 1 => log' = Append(log, NumberOf(r.op.packet)) /\ op' = r.op
      /\ r.ret = -1 => log' = Append(log, HoleEntry) /\ op' = op
      /\ UNCHANGED <<enc, oy, wire, recorded, packets, pages>>
  BY <1>3
<1>5. recorded
  <2> SUFFICES ASSUME ~recorded PROVE FALSE
    OBVIOUS
  <2> DEFINE d == StreamInit(Serial)
  <2>1. dec = d
    BY DEF Inv, ReaderWaits
  <2>2. /\ d \in StreamState /\ d.body = <<>> /\ d.body_returned = 0 /\ d.lacing = <<>>
        /\ d.lacing_packet = 0 /\ d.lacing_returned = 0
    BY FreshStream DEF Serial
  <2>3. Len(<<>>) = 0
    BY EmptySeq
  <2> HIDE DEF d
  <2>4. /\ d.lacing_returned <= d.lacing_packet /\ d.lacing_packet <= Len(d.lacing)
        /\ d.body_returned <= Len(d.body) /\ ~(d.lacing_returned < d.lacing_packet)
    BY <2>2, <2>3
  <2> DEFINE s == PacketoutI(d, adv)
             l == Drop(d.lacing, d.lacing_returned)
             b == Drop(d.body, d.body_returned)
  <2>5. s.ret # 0
    BY <1>4, <2>1
  <2> HIDE DEF s, l, b
  <2>6. s.ret # 0 => d.allocated /\ d.lacing_returned < d.lacing_packet
    BY <2>2, <2>4, PacketoutParts DEF s, l, b
  <2> QED
    BY <2>4, <2>5, <2>6
<1>6. Reading
  BY <1>4, <1>5 DEF Reading
<1>7. /\ log \in Seq(Int) /\ HoleEntry \in Int
  BY DEF Inv, HoleEntry
<1>8. Carrying(oy', wire', pages, n)
  BY <1>2, <1>4
<1>9. /\ r.ret = -1 => Decoder(r.os, packets, pages, st, off, bytes, cut, n, lam, Append(log, HoleEntry))
      /\ r.ret = 1 /\ adv => Delivered(r, packets, pages, st, off, bytes, cut, n, lam, log)
  <2>1. top \in Nat /\ top <= Total(packets, st)
    BY <1>2
  <2>2. Decoder(dec, packets, pages, st, off, bytes, cut, n, lam, log)
    BY <1>2
  <2>3. r = PacketoutI(dec, adv) /\ top = cut[n]
    OBVIOUS
  <2> HIDE DEF r, lam, top
  <2> QED
    BY <1>2, <1>7, <2>1, <2>2, <2>3, PacketoutIs
<1> HIDE DEF r
<1>10. CASE r.ret = -1
  <2>1. log' = Append(log, HoleEntry) /\ op' = op
    BY <1>4, <1>10
  <2>2. LastOf(log') = LastOf(log)
    BY <1>7, <2>1, LogGrows
  <2>3. log' \in Seq(Int)
    BY <1>7, <2>1, AppendIs
  <2>4. Decoder(dec', packets, pages, st, off, bytes, cut, n, LastOf(log'), log')
    BY <1>4, <1>9, <1>10, <2>1, <2>2 DEF lam
  <2>5. Inv'
    BY <1>2, <1>6, <1>8, <2>1, <2>3, <2>4, ReaderKeeps
  <2> QED
    BY <2>1, <2>5 DEF Missed
<1>11. CASE r.ret = 1 /\ adv
  <2>1. PICK k \in 1 .. Len(packets) :
          /\ k > lam /\ (k = lam + 1 \/ Marked(log))
          /\ Labels(r.op, packets, k)
          /\ Decoder(r.os, packets, pages, st, off, bytes, cut, n, k, Append(log, k))
    BY <1>9, <1>11 DEF Delivered
  <2>2. packets \in Seq(Packet) /\ Distinct(packets)
    BY <1>2 DEF Streamed, Starts
  <2>3. NumberOf(r.op.packet) = k
    BY <2>1, <2>2, NumberIs DEF Labels
  <2>4. log' = Append(log, k) /\ op' = r.op
    BY <1>4, <1>11, <2>3
  <2>5. k \in Int /\ k # HoleEntry /\ k # SeekEntry
    <3>1. Len(packets) \in Nat
      BY <2>2, LenProperties
    <3> QED
      BY <3>1 DEF HoleEntry, SeekEntry
  <2>6. LastOf(log') = k
    BY <1>7, <2>4, <2>5, LogGrows
  <2>7. log' \in Seq(Int)
    BY <1>7, <2>4, <2>5, AppendIs
  <2>8. Decoder(dec', packets, pages, st, off, bytes, cut, n, LastOf(log'), log')
    BY <1>4, <2>1, <2>4, <2>6
  <2>9. \E j \in 1 .. Len(packets) : Labels(op', packets, j)
    BY <2>1, <2>4
  <2>10. Inv'
    BY <1>2, <1>6, <1>8, <2>7, <2>8, <2>9, ReaderKeeps
  <2>11. Took(adv)
    BY <1>11, <2>1, <2>4 DEF Took, lam, r
  <2> QED
    BY <2>10, <2>11
<1> QED
  BY <1>4, <1>10, <1>11

(* A seek, which resets both layers, keeps the invariant. *)
LEMMA SeekKeeps ==
  ASSUME Inv, Seek
  PROVE  Inv'
<1>1. PICK st, off, bytes, cut, n : Traced(st, off, bytes, cut, n)
  BY DEF Inv
<1>2. /\ n \in 0 .. Len(pages) /\ Written(enc, packets, pages, st, off, bytes, cut)
      /\ Carrying(oy, wire, pages, n) /\ cut[n] \in Nat
      /\ Decoder(dec, packets, pages, st, off, bytes, cut, n, LastOf(log), log)
  BY <1>1, ReaderReady
<1>3. /\ Reading /\ oy' = SyncReset /\ dec' = StreamResetSerialno(dec, Serial)
      /\ log' = Append(log, SeekEntry) /\ UNCHANGED <<wire, op>>
  BY DEF Seek, Reading
<1>4. log \in Seq(Int) /\ SeekEntry \in Int
  BY DEF Inv, SeekEntry
<1> DEFINE top == cut[n]
<1>5. top \in Nat /\ top = cut[n]
  BY <1>2
<1> HIDE DEF top
<1>6. Decoder(dec', packets, pages, st, off, bytes, cut, n, LastOf(log), log')
  BY <1>2, <1>3, <1>4, <1>5, SeekIs
<1>7. LastOf(log') = LastOf(log)
  BY <1>3, <1>4, LogGrows
<1>8. log' \in Seq(Int)
  BY <1>3, <1>4, AppendIs
<1>9. Carrying(oy', wire', pages, n)
  BY <1>2, <1>3, CarryingReset
<1> QED
  BY <1>2, <1>3, <1>6, <1>7, <1>8, <1>9, ReaderKeeps

(* Closing the stream keeps the invariant. *)
LEMMA CloseKeeps ==
  ASSUME Inv, Close
  PROVE  Inv'
<1>1. UNCHANGED <<enc, dec, oy, wire, packets, pages, log, op>> /\ recorded'
  BY DEF Close
<1>2. PICK st, off, bytes, cut, n : Traced(st, off, bytes, cut, n)
  BY DEF Inv
<1>3. Traced(st, off, bytes, cut, n)'
  BY <1>1, <1>2 DEF Traced
<1>4. ReaderWaits'
  BY <1>1 DEF ReaderWaits
<1>5. OpLabelled'
  BY <1>1 DEF Inv, OpLabelled
<1>6. PagesSpanOnlyWhenFull'
  BY <1>1, PagesStay DEF Inv
<1>7. (log \in Seq(Int))'
  BY <1>1 DEF Inv
<1> QED
  BY <1>3, <1>4, <1>5, <1>6, <1>7 DEF Inv

(* The last number is a number.                                            *)
LEMMA LogInt ==
  ASSUME NEW lg, lg \in Seq(Int)
  PROVE  LastOf(lg) \in Int
<1> DEFINE A == NumbersOf(lg)
           top == CHOOSE i \in A : \A j \in A : j <= i
           n == Len(lg)
<1>1. n \in Nat /\ DOMAIN lg = 1 .. n
  BY LenProperties
<1>2. CASE A = {}
  BY <1>2 DEF LastOf
<1>3. CASE A # {}
  <2>1. A \subseteq 0 .. n /\ A \subseteq 1 .. n
    BY <1>1 DEF NumbersOf
  <2> HIDE DEF A
  <2>2. \E i \in A : \A j \in A : j <= i
    <3>1. Max(A) \in A /\ \A x \in A : x <= Max(A)
      BY <1>1, <1>3, <2>1, MaxIn
    <3> QED
      BY <3>1
  <2>3. top \in A
    BY <2>2
  <2>4. top \in 1 .. Len(lg)
    BY <2>1, <2>3
  <2>5. LastOf(lg) = lg[top]
    BY <1>3 DEF LastOf, A
  <2> HIDE DEF top
  <2>6. lg[top] \in Int
    BY <2>4, ElementOfSeq
  <2> QED
    BY <2>5, <2>6
<1> QED
  BY <1>2, <1>3

(* Every step keeps the invariant.                                         *)
LEMMA InvKept == Inv /\ [Next]_vars => Inv'
<1> SUFFICES ASSUME Inv, [Next]_vars PROVE Inv'
  OBVIOUS
<1>1. CASE PacketsIn
  <2>1. PICK len \in Lengths, e_o_s \in BOOLEAN, expandable \in BOOLEAN :
          Submit(len, e_o_s, expandable)
    BY <1>1 DEF PacketsIn
  <2> QED
    BY <2>1, SubmitKeeps
<1>2. CASE PageOut
  <2> DEFINE r == Pageout(enc)
             force == enc.lacing # <<>> /\ (enc.e_o_s \/ ~enc.b_o_s)
  <2>1. Send(r) /\ r.ret = 1
    BY <1>2 DEF PageOut, Send
  <2>2. r = IF ~StreamCheck(enc) THEN [ret |-> 0, os |-> enc]
            ELSE FlushI(enc, force, NominalFill)
    BY DEF Pageout, PageoutFill
  <2> HIDE DEF r, force
  <2>3. StreamCheck(enc)
    BY <2>1, <2>2
  <2>4. r = FlushI(enc, force, NominalFill)
    BY <2>2, <2>3
  <2> QED
    BY <2>1, <2>4, SendKeeps
<1>3. CASE FlushOut
  <2> DEFINE r == Flush(enc)
  <2>1. Send(r)
    BY <1>3 DEF FlushOut
  <2>2. r = FlushI(enc, TRUE, NominalFill)
    BY DEF Flush, FlushFill
  <2> HIDE DEF r
  <2> QED
    BY <2>1, <2>2, SendKeeps
<1>4. CASE Foreign
  BY <1>4, ForeignKeeps
<1>5. CASE Close
  BY <1>5, CloseKeeps
<1>6. CASE Feed
  BY <1>6, FeedKeeps
<1>7. CASE PagesIn
  <2>1. PICK ex \in BOOLEAN : PageIn(ex)
    BY <1>7 DEF PagesIn
  <2> QED
    BY <2>1, PageInKeeps
<1>8. CASE PacketOut
  BY <1>8, PacketOutKeeps
<1>9. CASE Seek
  BY <1>9, SeekKeeps
<1>10. CASE UNCHANGED vars
  <2>1. UNCHANGED <<enc, dec, oy, wire, recorded, packets, pages, log, op>>
    BY <1>10 DEF vars
  <2>2. PICK st, off, bytes, cut, n : Traced(st, off, bytes, cut, n)
    BY DEF Inv
  <2>3. Traced(st, off, bytes, cut, n)'
    BY <2>1, <2>2 DEF Traced
  <2>4. ReaderWaits' /\ OpLabelled' /\ (log \in Seq(Int))'
    BY <2>1 DEF Inv, ReaderWaits, OpLabelled
  <2>5. PagesSpanOnlyWhenFull'
    BY <2>1, PagesStay DEF Inv
  <2> QED
    BY <2>3, <2>4, <2>5 DEF Inv
<1> QED
  BY <1>1, <1>2, <1>3, <1>4, <1>5, <1>6, <1>7, <1>8, <1>9, <1>10 DEF Next

(* Where the invariant holds, packets have their labels.                   *)
LEMMA InvLabels == Inv => PacketsKeepLabels
<1> SUFFICES ASSUME Inv, op.packetno # -1 PROVE PacketsKeepLabels
  BY DEF PacketsKeepLabels
<1>1. op # NoPacket
  BY DEF NoPacket
<1>2. PICK k \in 1 .. Len(packets) : Labels(op, packets, k)
  BY <1>1 DEF Inv, OpLabelled
<1>3. k \in DOMAIN packets
  <2>1. PICK st, off, bytes, cut, n : Traced(st, off, bytes, cut, n)
    BY DEF Inv
  <2>2. packets \in Seq(Packet)
    BY <2>1 DEF Traced, Written, Streamed, Starts
  <2> QED
    BY <2>2, LenProperties
<1>4. /\ packets[k].packet = op.packet
      /\ op.granulepos \in {-1, packets[k].granulepos} \/ (k = 1 /\ op.granulepos = 0)
      /\ op.b_o_s <=> k = 1
      /\ op.e_o_s => packets[k].e_o_s
  BY <1>2 DEF Labels
<1> QED
  BY <1>3, <1>4 DEF PacketsKeepLabels

(* Every step is one of the channel's, or none.                            *)
LEMMA ChannelStep ==
  ASSUME Inv, [Next]_vars
  PROVE  [Channel!Next]_<<Len(packets), log>>
<1>1. PICK st, off, bytes, cut, n : Traced(st, off, bytes, cut, n)
  BY DEF Inv
<1>2. /\ packets \in Seq(Packet) /\ Written(enc, packets, pages, st, off, bytes, cut)
  BY <1>1 DEF Traced, Written, Streamed, Starts
<1>3. CASE PacketsIn
  <2>1. PICK len \in Lengths, e_o_s \in BOOLEAN, expandable \in BOOLEAN :
          Submit(len, e_o_s, expandable)
    BY <1>3 DEF PacketsIn
  <2>2. \/ packets' = packets
        \/ \E q \in Packet : packets' = Append(packets, q)
    BY <1>2, <2>1, SubmitWrites
  <2>3. log' = log
    BY <2>1 DEF Submit
  <2>4. CASE packets' = packets
    BY <2>3, <2>4
  <2>5. CASE \E q \in Packet : packets' = Append(packets, q)
    <3>1. PICK q \in Packet : packets' = Append(packets, q)
      BY <2>5
    <3>2. Len(packets') = Len(packets) + 1
      BY <1>2, <3>1, AppendIs
    <3> QED
      BY <2>3, <3>2 DEF Channel!Next, Channel!Submit
  <2> QED
    BY <2>2, <2>4, <2>5
<1>4. CASE PacketOut
  <2>1. packets' = packets
    BY <1>4 DEF PacketOut
  <2>2. CASE Missed
    <3>1. log' = Append(log, HoleEntry)
      BY <2>2 DEF Missed
    <3> QED
      BY <2>1, <3>1 DEF Channel!Next, Channel!Report
  <2>3. CASE \E adv \in BOOLEAN : Took(adv)
    <3>1. PICK k \in 1 .. Len(packets) :
            /\ k > LastOf(log) /\ (k = LastOf(log) + 1 \/ Marked(log))
            /\ log' = Append(log, k)
      BY <2>3 DEF Took
    <3>2. LastOf(log) \in Int
      BY LogInt DEF Inv
    <3>3. Len(packets) \in Nat
      BY <1>2, LenProperties
    <3> DEFINE lam == LastOf(log)
    <3>4. Channel!Latest = lam /\ (Channel!Interrupted <=> Marked(log))
      BY LogIs DEF Channel!Interrupted
    <3> HIDE DEF lam
    <3>5. k \in lam + 1 .. Len(packets) /\ (k = lam + 1 \/ Marked(log))
      <4>1. k > lam /\ lam \in Int /\ (k = lam + 1 \/ Marked(log))
        BY <3>1, <3>2 DEF lam
      <4> QED
        BY <3>3, <4>1
    <3>6. /\ k \in (Channel!Latest + 1) .. Len(packets)
          /\ k = Channel!Latest + 1 \/ Channel!Interrupted
          /\ log' = Append(log, k) /\ Len(packets') = Len(packets)
      BY <2>1, <3>1, <3>4, <3>5
    <3>7. Channel!Deliver
      BY <3>6 DEF Channel!Deliver
    <3> QED
      BY <3>7 DEF Channel!Next
  <2> QED
    BY <1>4, <2>2, <2>3, PacketOutKeeps
<1>5. CASE Seek
  <2>1. packets' = packets /\ log' = Append(log, SeekEntry)
    BY <1>5 DEF Seek
  <2> QED
    BY <2>1 DEF Channel!Next, Channel!Report
<1>6. CASE PageOut \/ FlushOut \/ Foreign \/ Close \/ Feed \/ PagesIn \/ UNCHANGED vars
  <2>1. packets' = packets /\ log' = log
    BY <1>6 DEF PageOut, FlushOut, Send, Foreign, Close, Feed, PagesIn, PageIn, vars
  <2> QED
    BY <2>1
<1> QED
  BY <1>3, <1>4, <1>5, <1>6 DEF Next

(* A page ends inside a packet only when it has no segment left
   (ogg_stream_flush_i).                                                   *)
THEOREM PagesSpanOnlyWhenFullHolds == Spec => []PagesSpanOnlyWhenFull
<1>1. Inv => PagesSpanOnlyWhenFull
  BY DEF Inv
<1> QED
  BY <1>1, InvAtFirst, InvKept, PTL DEF Spec

(* A packet comes out with its own bytes and labels.                       *)
THEOREM PacketsKeepLabelsHolds == Spec => []PacketsKeepLabels
BY InvAtFirst, InvKept, InvLabels, PTL DEF Spec

(* The channel is a packet channel.                                        *)
THEOREM ChannelSpecHolds == Spec => ChannelSpec
<1>1. Init => Channel!Init
  <2>1. Len(<<>>) = 0
    BY EmptySeq
  <2> QED
    BY <2>1 DEF Init, Channel!Init
<1>2. Inv /\ [Next]_vars => [Channel!Next]_Channel!channelVars
  BY ChannelStep DEF Channel!channelVars
<1> QED
  BY <1>1, <1>2, InvAtFirst, InvKept, PTL DEF Spec, ChannelSpec, Channel!Spec
=============================================================================
