----------------------------- MODULE Segment_proofs -----------------------------
(***************************************************************************)
(* What every method of Segment keeps of a segment, whatever it is called  *)
(* with and whether it succeeds: Good. Here are the lemmas, one per method *)
(* and outcome; SegmentClient_proofs and WebmMuxer_proofs draw the         *)
(* conclusions.                                                            *)
(*                                                                         *)
(* MaxOffset, WriteQueue and the content of the file are recursive         *)
(* functions over a sequence. What they compute is proved for every        *)
(* length: with UpTo, which is induction over a set of numbers, a function *)
(* that follows the recursion exists, so the one they take does; and UpTo  *)
(* carries a property from each of its values to the next.                 *)
(***************************************************************************)
EXTENDS Segment, SequenceTheorems, FiniteSetTheorems, WellFoundedInduction,
        TLAPS

(* What holds at 0 and is handed on from each number to the next, as a set *)
(* of numbers, holds up to k.                                              *)
LEMMA UpTo ==
  ASSUME NEW T, NEW k \in Nat, 0 \in T,
         \A n \in 0 .. k - 1 : n \in T => n + 1 \in T
  PROVE  \A n \in 0 .. k : n \in T
<1> DEFINE Out == {n \in 0 .. k : n \notin T}
<1> SUFFICES ASSUME Out # {} PROVE FALSE
  OBVIOUS
<1>1. PICK m \in Out : \A n \in Out : ~(<<n, m>> \in OpToRel(<, Nat))
  <2>1. Out \subseteq Nat
    OBVIOUS
  <2> HIDE DEF Out
  <2> QED
    BY <2>1, NatLessThanWellFounded, WFMin
<1>2. m \in 1 .. k
  OBVIOUS
<1>3. m - 1 \in Out
  BY <1>2
<1>4. <<m - 1, m>> \in OpToRel(<, Nat)
  BY <1>2 DEF OpToRel
<1> QED
  BY <1>1, <1>3, <1>4

-----------------------------------------------------------------------------
(* The file as one sequence: FlattenSeq. *)

(* The partial results of FlattenSeq.                                      *)
Partial(ss, n, h) ==
  h = [i \in 1 .. n |-> IF i = 1 THEN ss[i] ELSE h[i - 1] \o ss[i]]

(* The entries of FlattenSeq's recursion.                                   *)
LEMMA PartialEntries ==
  ASSUME NEW ss, NEW n \in Nat, NEW h, Partial(ss, n, h), NEW i \in 1 .. n
  PROVE  h[i] = IF i = 1 THEN ss[i] ELSE h[i - 1] \o ss[i]
<1> DEFINE F == [j \in 1 .. n |-> IF j = 1 THEN ss[j] ELSE h[j - 1] \o ss[j]]
<1>1. h = F
  BY DEF Partial
<1>2. F[i] = IF i = 1 THEN ss[i] ELSE h[i - 1] \o ss[i]
  OBVIOUS
<1> HIDE DEF F
<1> QED
  BY <1>1, <1>2

(* They exist, so the recursion defines what it says.                      *)
LEMMA PartialExists ==
  ASSUME NEW ss, NEW k \in Nat
  PROVE  \E h : Partial(ss, k, h)
<1> DEFINE T == {n \in 0 .. k : \E h : Partial(ss, n, h)}
<1>1. 0 \in T
  <2>1. Partial(ss, 0, [i \in {} |-> 0])
    BY DEF Partial
  <2> QED
    BY <2>1
<1>2. ASSUME NEW n \in 0 .. k - 1, n \in T PROVE n + 1 \in T
  <2>1. PICK h : Partial(ss, n, h)
    BY <1>2
  <2> DEFINE g == [i \in 1 .. n + 1 |->
                     IF i = 1 THEN ss[i] ELSE h[i - 1] \o ss[i]]
  <2>2. ASSUME NEW i \in 1 .. n PROVE g[i] = h[i]
    <3>1. h[i] = IF i = 1 THEN ss[i] ELSE h[i - 1] \o ss[i]
      BY <2>1, PartialEntries
    <3> QED
      BY <3>1
  <2>3. ASSUME NEW i \in 1 .. n + 1, i # 1 PROVE g[i - 1] = h[i - 1]
    <3>1. i - 1 \in 1 .. n
      BY <2>3
    <3> HIDE DEF g
    <3> QED
      BY <2>2, <3>1
  <2>4. g = [i \in 1 .. n + 1 |-> IF i = 1 THEN ss[i] ELSE g[i - 1] \o ss[i]]
    <3> DEFINE e(i) == IF i = 1 THEN ss[i] ELSE h[i - 1] \o ss[i]
               d(i) == IF i = 1 THEN ss[i] ELSE g[i - 1] \o ss[i]
    <3>1. \A i \in 1 .. n + 1 : e(i) = d(i)
      <4> HIDE DEF g
      <4> QED
        BY <2>3
    <3> HIDE DEF e, d
    <3>2. [i \in 1 .. n + 1 |-> e(i)] = [i \in 1 .. n + 1 |-> d(i)]
      BY <3>1
    <3> QED
      BY <3>2 DEF e, d
  <2>5. Partial(ss, n + 1, g)
    <3> HIDE DEF g
    <3> QED
      BY <2>4 DEF Partial
  <2> QED
    BY <2>5
<1>3. \A n \in 0 .. k : n \in T
  <2> HIDE DEF T
  <2> QED
    BY <1>1, <1>2, UpTo
<1> QED
  BY <1>3

(* FlattenSeq takes the last of them.                                      *)
LEMMA FlattenIsPartial ==
  ASSUME NEW ss, Len(ss) \in Nat, Len(ss) # 0
  PROVE  \E h : Partial(ss, Len(ss), h) /\ FlattenSeq(ss) = h[Len(ss)]
<1>1. PICK g : Partial(ss, Len(ss), g)
  BY PartialExists
<1> DEFINE f == CHOOSE h : Partial(ss, Len(ss), h)
<1>2. Partial(ss, Len(ss), f)
  BY <1>1
<1>3. FlattenSeq(ss) = f[Len(ss)]
  BY DEF FlattenSeq, Partial
<1> QED
  BY <1>2, <1>3

(* Partial results agree as far as the sequences do.                       *)
AgreeTo(k, ss, tt) == \A i \in 1 .. k : ss[i] = tt[i]

(* Two sequences that begin alike are flattened alike so far.               *)
LEMMA PartialAgree ==
  ASSUME NEW ss, NEW tt, NEW m \in Nat, NEW n \in Nat, NEW k \in Nat,
         k <= m, k <= n, AgreeTo(k, ss, tt),
         NEW h, Partial(ss, m, h), NEW g, Partial(tt, n, g)
  PROVE  AgreeTo(k, h, g)
<1> DEFINE T == {i \in 0 .. k : i # 0 => h[i] = g[i]}
<1>1. 0 \in T
  OBVIOUS
<1>2. ASSUME NEW i \in 0 .. k - 1, i \in T PROVE i + 1 \in T
  <2>1. i + 1 \in 1 .. m /\ i + 1 \in 1 .. n /\ i + 1 \in 1 .. k
    OBVIOUS
  <2>2. /\ h[i + 1] = IF i + 1 = 1 THEN ss[i + 1] ELSE h[(i + 1) - 1] \o ss[i + 1]
        /\ g[i + 1] = IF i + 1 = 1 THEN tt[i + 1] ELSE g[(i + 1) - 1] \o tt[i + 1]
    BY <2>1, PartialEntries
  <2>3. (i + 1) - 1 = i /\ ss[i + 1] = tt[i + 1]
    BY <2>1 DEF AgreeTo
  <2>4. i # 0 => h[i] = g[i]
    BY <1>2
  <2>5. h[i + 1] = g[i + 1]
    BY <2>2, <2>3, <2>4
  <2> QED
    BY <2>1, <2>5
<1>3. \A i \in 0 .. k : i \in T
  <2> HIDE DEF T
  <2> QED
    BY <1>1, <1>2, UpTo
<1> QED
  BY <1>3 DEF AgreeTo

(* A partial flattening is a sequence of frames.                            *)
LEMMA PartialType ==
  ASSUME NEW S, NEW ss \in Seq(Seq(S)), NEW n \in 0 .. Len(ss), NEW h,
         Partial(ss, n, h)
  PROVE  \A i \in 1 .. n : h[i] \in Seq(S)
<1> DEFINE T == {i \in 0 .. n : i # 0 => h[i] \in Seq(S)}
<1>0. Len(ss) \in Nat /\ n \in Nat
  BY LenProperties
<1>1. 0 \in T
  BY <1>0
<1>2. ASSUME NEW i \in 0 .. n - 1, i \in T PROVE i + 1 \in T
  <2>1. i + 1 \in 1 .. n /\ i + 1 \in 1 .. Len(ss) /\ (i + 1) - 1 = i
    BY <1>0
  <2>2. h[i + 1] = IF i + 1 = 1 THEN ss[i + 1] ELSE h[(i + 1) - 1] \o ss[i + 1]
    BY <1>0, <2>1, PartialEntries
  <2>3. ss[i + 1] \in Seq(S)
    BY <2>1, ElementOfSeq
  <2>4. i # 0 => h[i] \in Seq(S)
    BY <1>2
  <2>5. h[i + 1] \in Seq(S)
    BY <2>1, <2>2, <2>3, <2>4, ConcatProperties
  <2> QED
    BY <2>1, <2>5
<1>3. \A i \in 0 .. n : i \in T
  <2> HIDE DEF T
  <2> QED
    BY <1>0, <1>1, <1>2, UpTo
<1> QED
  BY <1>0, <1>3

(* What flattening yields, and how it follows changes at the end: a new    *)
(* empty sequence adds nothing, an element added to the last comes last.   *)
LEMMA FlattenType ==
  ASSUME NEW S, NEW ss \in Seq(Seq(S))
  PROVE  FlattenSeq(ss) \in Seq(S)
<1>1. Len(ss) \in Nat
  BY LenProperties
<1>2. CASE Len(ss) = 0
  <2>1. ss = <<>>
    BY <1>2, EmptySeq
  <2>2. FlattenSeq(ss) = ss
    BY <1>2 DEF FlattenSeq
  <2> QED
    BY <2>1, <2>2, EmptySeq
<1>3. CASE Len(ss) # 0
  <2>1. PICK h : Partial(ss, Len(ss), h) /\ FlattenSeq(ss) = h[Len(ss)]
    BY <1>1, <1>3, FlattenIsPartial
  <2>2. Len(ss) \in 1 .. Len(ss) /\ Len(ss) \in 0 .. Len(ss)
    BY <1>1, <1>3
  <2> QED
    BY <2>1, <2>2, PartialType
<1> QED
  BY <1>2, <1>3

(* An empty sequence at the end adds nothing.                               *)
LEMMA FlattenOpen ==
  ASSUME NEW S, NEW ss \in Seq(Seq(S))
  PROVE  FlattenSeq(Append(ss, <<>>)) = FlattenSeq(ss)
<1> DEFINE n == Len(ss)
           tt == Append(ss, <<>>)
<1>1. /\ n \in Nat /\ tt \in Seq(Seq(S)) /\ Len(tt) = n + 1
      /\ AgreeTo(n, ss, tt)
      /\ tt[n + 1] = <<>>
  <2>1. <<>> \in Seq(S)
    BY EmptySeq
  <2> QED
    BY <2>1, AppendProperties, LenProperties DEF AgreeTo
<1> HIDE DEF tt
<1>2. n + 1 \in Nat /\ n + 1 # 0 /\ n + 1 \in 1 .. n + 1 /\ (n + 1) - 1 = n
      /\ n <= n /\ n <= n + 1 /\ (n # 0 => n \in 1 .. n)
      /\ (n + 1 = 1 <=> n = 0)
  BY <1>1
<1>3. PICK g : Partial(tt, n + 1, g) /\ FlattenSeq(tt) = g[n + 1]
  BY <1>1, <1>2, FlattenIsPartial
<1>4. CASE n = 0
  <2>1. g[n + 1] = tt[n + 1]
    <3> HIDE DEF n
    <3> QED
      BY <1>2, <1>3, <1>4, PartialEntries
  <2>2. FlattenSeq(ss) = ss /\ ss = <<>>
    BY <1>4, EmptySeq DEF FlattenSeq
  <2> QED
    BY <1>1, <1>3, <2>1, <2>2 DEF tt
<1>5. CASE n # 0
  <2>1. PICK h : Partial(ss, n, h) /\ FlattenSeq(ss) = h[n]
    BY <1>1, <1>5, FlattenIsPartial
  <2>2. h[n] = g[n]
    <3> HIDE DEF n
    <3>1. AgreeTo(n, h, g)
      BY <1>1, <1>2, <1>3, <2>1, PartialAgree
    <3> QED
      BY <1>2, <1>5, <3>1 DEF AgreeTo
  <2>3. h[n] \in Seq(S)
    BY <2>1, FlattenType
  <2>4. g[n + 1] = g[n] \o tt[n + 1]
    <3> HIDE DEF n
    <3>1. g[n + 1] = IF n + 1 = 1 THEN tt[n + 1] ELSE g[(n + 1) - 1] \o tt[n + 1]
      BY <1>2, <1>3, PartialEntries
    <3> QED
      BY <1>2, <1>5, <3>1
  <2>5. FlattenSeq(tt) = h[n] \o <<>>
    BY <1>1, <1>3, <2>2, <2>4
  <2> QED
    BY <2>1, <2>3, <2>5, ConcatEmptySeq DEF tt
<1> QED
  BY <1>4, <1>5

(* Concatenation and Append associate.                                      *)
LEMMA ConcatAppend ==
  ASSUME NEW S, NEW a \in Seq(S), NEW b \in Seq(S), NEW e \in S
  PROVE  a \o Append(b, e) = Append(a \o b, e)
<1>1. /\ Append(b, e) = b \o <<e>>
      /\ a \o b \in Seq(S)
      /\ <<e>> \in Seq(S)
  BY AppendIsConcat, ConcatProperties
<1>2. Append(a \o b, e) = (a \o b) \o <<e>>
  BY <1>1, AppendIsConcat
<1> DEFINE z == <<e>>
<1> HIDE DEF z
<1>3. (a \o b) \o z = a \o (b \o z)
  BY <1>1, ConcatAssociative DEF z
<1> QED
  BY <1>1, <1>2, <1>3 DEF z

(* An element at the end of the last sequence comes last of all.            *)
LEMMA FlattenAdd ==
  ASSUME NEW S, NEW ss \in Seq(Seq(S)), NEW tt \in Seq(Seq(S)), NEW e \in S,
         Len(ss) # 0, Len(tt) = Len(ss),
         \A i \in 1 .. Len(ss) - 1 : tt[i] = ss[i],
         tt[Len(ss)] = Append(ss[Len(ss)], e)
  PROVE  FlattenSeq(tt) = Append(FlattenSeq(ss), e)
<1> DEFINE n == Len(ss)
<1>1. /\ n \in Nat /\ n \in 1 .. n /\ n - 1 \in Nat /\ n - 1 <= n
      /\ (n # 1 => n - 1 \in 1 .. n - 1 /\ n - 1 \in 1 .. n)
      /\ AgreeTo(n - 1, ss, tt)
  <2>1. n \in Nat /\ n # 0
    BY LenProperties
  <2>2. \A i \in 1 .. n - 1 : ss[i] = tt[i]
    OBVIOUS
  <2> HIDE DEF n
  <2> QED
    BY <2>1, <2>2 DEF AgreeTo
<1>2. PICK h : Partial(ss, n, h) /\ FlattenSeq(ss) = h[n]
  BY <1>1, FlattenIsPartial
<1>3. PICK g : Partial(tt, n, g) /\ FlattenSeq(tt) = g[n]
  BY <1>1, FlattenIsPartial
<1>n. n = Len(ss) /\ n = Len(tt) /\ tt[n] = Append(ss[n], e)
  OBVIOUS
<1> HIDE DEF n
<1>4. /\ h[n] = IF n = 1 THEN ss[n] ELSE h[n - 1] \o ss[n]
      /\ g[n] = IF n = 1 THEN tt[n] ELSE g[n - 1] \o tt[n]
  BY <1>1, <1>2, <1>3, PartialEntries
<1>5. CASE n = 1
  BY <1>2, <1>3, <1>4, <1>5, <1>n
<1>6. CASE n # 1
  <2>2. h[n - 1] = g[n - 1]
    <3>1. AgreeTo(n - 1, h, g)
      BY <1>1, <1>2, <1>3, PartialAgree
    <3> QED
      BY <1>1, <1>6, <3>1 DEF AgreeTo
  <2>3. h[n - 1] \in Seq(S) /\ ss[n] \in Seq(S)
    <3>1. n \in 0 .. Len(ss) /\ n - 1 \in 1 .. n
      BY <1>1, <1>6, <1>n
    <3>2. h[n - 1] \in Seq(S)
      BY <1>2, <3>1, PartialType
    <3>3. ss[n] \in Seq(S)
      BY <1>1, <1>n, ElementOfSeq
    <3> QED
      BY <3>2, <3>3
  <2>4. h[n - 1] \o Append(ss[n], e) = Append(h[n - 1] \o ss[n], e)
    <3> DEFINE a == h[n - 1]
               b == ss[n]
    <3>1. a \in Seq(S) /\ b \in Seq(S)
      BY <2>3
    <3> HIDE DEF a, b
    <3>2. a \o Append(b, e) = Append(a \o b, e)
      BY <3>1, ConcatAppend, SMTT(30)
    <3> QED
      BY <3>2 DEF a, b
  <2> QED
    BY <1>2, <1>3, <1>4, <1>6, <1>n, <2>2, <2>4
<1> QED
  BY <1>5, <1>6

-----------------------------------------------------------------------------
(* What the records of a segment hold. *)

Frame == [track : Nat, timestamp : Int, is_key : BOOLEAN, valid : BOOLEAN,
          id : Nat]

Cluster == [timecode : Int, finalized : BOOLEAN, header_written : BOOLEAN,
            position_for_cues : Nat, blocks : Seq(Frame)]

Cue == [time : Int, cluster : Nat, block : Nat]

SegmentType ==
  [header_written : BOOLEAN, seeks : Nat, clusters : Seq(Cluster),
   cues : Seq(Cue), frames : Seq(Frame), freed : Nat,
   force_new_cluster : BOOLEAN, new_cuepoint : BOOLEAN,
   last_timestamp : Int, crashed : BOOLEAN]

(* Times and timecodes are integers.                                        *)
LEMMA TimecodeType ==
  ASSUME NEW ts \in Int
  PROVE  Timecode(ts) \in Int
BY SegmentAssumption DEF Timecode

(* A cluster takes a natural number of places in the file.                  *)
LEMMA WrittenType ==
  ASSUME NEW c \in Cluster
  PROVE  Written(c) \in Nat
<1>1. c.blocks \in Seq(Frame) /\ c.header_written \in BOOLEAN
  BY DEF Cluster
<1>2. Len(c.blocks) \in Nat
  BY <1>1, LenProperties
<1>3. CASE c.header_written
  <2>1. Written(c) = Len(c.blocks) + 1
    BY <1>3 DEF Written
  <2> QED
    BY <1>2, <2>1
<1>4. CASE ~c.header_written
  <2>1. Written(c) = Len(c.blocks) + 0
    BY <1>4 DEF Written
  <2> QED
    BY <1>2, <2>1
<1> QED
  BY <1>3, <1>4

(* MaxOffset is a number: its sums exist and each of them is one.          *)
Sums(cs, k, h) ==
  h = [n \in 0 .. k |-> IF n = 0 THEN 0 ELSE h[n - 1] + Written(cs[n])]

(* The entries of MaxOffset's sum.                                          *)
LEMMA SumEntries ==
  ASSUME NEW cs, NEW k \in Nat, NEW h, Sums(cs, k, h), NEW n \in 0 .. k
  PROVE  /\ n = 0 => h[n] = 0
         /\ n # 0 => h[n] = h[n - 1] + Written(cs[n])
<1> DEFINE F == [j \in 0 .. k |-> IF j = 0 THEN 0 ELSE h[j - 1] + Written(cs[j])]
<1>1. h = F
  BY DEF Sums
<1>2. F[n] = IF n = 0 THEN 0 ELSE h[n - 1] + Written(cs[n])
  OBVIOUS
<1>3. h[n] = IF n = 0 THEN 0 ELSE h[n - 1] + Written(cs[n])
  <2> HIDE DEF F
  <2> QED
    BY <1>1, <1>2
<1> QED
  BY <1>3

(* The recursion of MaxOffset's sum has a solution.                         *)
LEMMA SumsExist ==
  ASSUME NEW cs, NEW k \in Nat
  PROVE  \E h : Sums(cs, k, h)
<1> DEFINE T == {m \in 0 .. k : \E h : Sums(cs, m, h)}
<1>1. 0 \in T
  <2> DEFINE z == [n \in 0 .. 0 |-> 0]
  <2>1. z = [n \in 0 .. 0 |-> IF n = 0 THEN 0 ELSE z[n - 1] + Written(cs[n])]
    OBVIOUS
  <2>2. Sums(cs, 0, z)
    <3> HIDE DEF z
    <3> QED
      BY <2>1 DEF Sums
  <2> QED
    BY <2>2
<1>2. ASSUME NEW m \in 0 .. k - 1, m \in T PROVE m + 1 \in T
  <2>1. PICK h : Sums(cs, m, h)
    BY <1>2
  <2>0. \A n \in 0 .. m : /\ n = 0 => h[n] = 0
                          /\ n # 0 => h[n] = h[n - 1] + Written(cs[n])
    <3>1. m \in Nat
      OBVIOUS
    <3> HIDE DEF T
    <3>2. ASSUME NEW n \in 0 .. m
          PROVE  /\ n = 0 => h[n] = 0
                 /\ n # 0 => h[n] = h[n - 1] + Written(cs[n])
      BY <2>1, <3>1, SumEntries
    <3> QED
      BY <3>2
  <2> DEFINE e(n) == IF n = 0 THEN 0 ELSE h[n - 1] + Written(cs[n])
             g == [n \in 0 .. m + 1 |-> e(n)]
             d(n) == IF n = 0 THEN 0 ELSE g[n - 1] + Written(cs[n])
  <2>2. ASSUME NEW n \in 0 .. m PROVE g[n] = h[n]
    BY <2>0
  <2>3. \A n \in 0 .. m + 1 : e(n) = d(n)
    <3> HIDE DEF g
    <3>1. ASSUME NEW n \in 0 .. m + 1, n # 0 PROVE g[n - 1] = h[n - 1]
      <4>1. n - 1 \in 0 .. m
        BY <3>1
      <4> QED
        BY <2>2, <4>1
    <3> QED
      BY <3>1
  <2>4. g = [n \in 0 .. m + 1 |-> d(n)]
    <3> HIDE DEF e, d
    <3> QED
      BY <2>3
  <2>5. Sums(cs, m + 1, g)
    <3> HIDE DEF g
    <3> QED
      BY <2>4 DEF Sums
  <2> QED
    BY <2>5
<1>3. \A m \in 0 .. k : m \in T
  <2> HIDE DEF T
  <2> QED
    BY <1>1, <1>2, UpTo
<1> QED
  BY <1>3

(* A position in the file is a natural number.                              *)
LEMMA OffsetType ==
  ASSUME NEW cs \in Seq(Cluster), NEW s, s.clusters = cs
  PROVE  MaxOffset(s) \in Nat
<1> DEFINE k == Len(cs)
           f == CHOOSE h : Sums(cs, k, h)
           T == {n \in 0 .. k : f[n] \in Nat}
<1>1. k \in Nat
  BY LenProperties
<1>2. Sums(cs, k, f)
  BY <1>1, SumsExist
<1>3. MaxOffset(s) = f[k]
  BY DEF MaxOffset, Sums
<1> HIDE DEF f
<1>4. 0 \in T
  <2>1. 0 \in 0 .. k
    BY <1>1
  <2>2. f[0] = 0
    BY <1>1, <1>2, <2>1, SumEntries
  <2> QED
    BY <2>1, <2>2
<1>5. ASSUME NEW n \in 0 .. k - 1, n \in T PROVE n + 1 \in T
  <2>1. n + 1 \in 0 .. k /\ n + 1 \in 1 .. k /\ (n + 1) - 1 = n /\ n + 1 # 0
    BY <1>1
  <2>2. cs[n + 1] \in Cluster
    BY <2>1, ElementOfSeq
  <2>3. Written(cs[n + 1]) \in Nat
    BY <2>2, WrittenType
  <2>4. f[n + 1] = f[(n + 1) - 1] + Written(cs[n + 1])
    <3> HIDE DEF k
    <3> QED
      BY <1>1, <1>2, <2>1, SumEntries
  <2> QED
    BY <1>5, <2>1, <2>3, <2>4
<1>6. \A n \in 0 .. k : n \in T
  <2> HIDE DEF k, T
  <2> QED
    BY <1>1, <1>4, <1>5, UpTo
<1> QED
  BY <1>1, <1>3, <1>6

-----------------------------------------------------------------------------
(* A cluster's video and its cue. *)

Video(c) ==
  {i \in DOMAIN c.blocks : c.blocks[i].track = VideoTrackNumber}

CueOf(c) ==
  LET b == Min(Video(c))
  IN [time |-> Timecode(c.blocks[b].timestamp),
      cluster |-> c.position_for_cues, block |-> b]

KeyFirst(c) == \A i, j \in Video(c) : c.blocks[i].is_key => i <= j

(* Min is the least element.                                                *)
LEMMA MinIn ==
  ASSUME NEW S, S \subseteq Nat, S # {}
  PROVE  Min(S) \in S /\ \A x \in S : Min(S) <= x
<1>1. PICK m \in S : \A n \in S : ~(<<n, m>> \in OpToRel(<, Nat))
  BY NatLessThanWellFounded, WFMin
<1>2. ASSUME NEW n \in S PROVE m <= n
  <2>1. n \in Nat /\ m \in Nat
    BY <1>1
  <2>2. ~(n < m)
    <3> SUFFICES ASSUME n < m PROVE FALSE
      OBVIOUS
    <3>1. <<n, m>> \in OpToRel(<, Nat)
      BY <2>1 DEF OpToRel
    <3> QED
      BY <1>1, <3>1
  <2> QED
    BY <2>1, <2>2
<1>3. \E x \in S : \A y \in S : x <= y
  BY <1>1, <1>2
<1> QED
  BY <1>3 DEF Min

(* The least element is Min.                                                *)
LEMMA MinIs ==
  ASSUME NEW S, S \subseteq Nat, NEW m \in S, \A x \in S : m <= x
  PROVE  Min(S) = m
<1>1. Min(S) \in S /\ Min(S) <= m
  BY MinIn
<1>2. m <= Min(S) /\ m \in Nat /\ Min(S) \in Nat
  BY <1>1
<1> QED
  BY <1>1, <1>2

(* The blocks of video, by their numbers.                                  *)
LEMMA VideoNumbers ==
  ASSUME NEW c \in Cluster
  PROVE  /\ Len(c.blocks) \in Nat
         /\ DOMAIN c.blocks = 1 .. Len(c.blocks)
         /\ Video(c) \subseteq 1 .. Len(c.blocks)
         /\ Video(c) \subseteq Nat
<1>1. c.blocks \in Seq(Frame)
  BY DEF Cluster
<1>2. Len(c.blocks) \in Nat /\ DOMAIN c.blocks = 1 .. Len(c.blocks)
  BY <1>1, LenProperties
<1> QED
  BY <1>2 DEF Video

(* What a block changes in its cluster.                                    *)
LEMMA VideoAdded ==
  ASSUME NEW c \in Cluster, NEW d \in Cluster, NEW f \in Frame,
         d.blocks = Append(c.blocks, f)
  PROVE  /\ Video(d) = IF f.track = VideoTrackNumber
                       THEN Video(c) \cup {Len(c.blocks) + 1} ELSE Video(c)
         /\ \A i \in 1 .. Len(c.blocks) : d.blocks[i] = c.blocks[i]
         /\ d.blocks[Len(c.blocks) + 1] = f
<1> DEFINE n == Len(c.blocks)
<1>1. c.blocks \in Seq(Frame) /\ d.blocks \in Seq(Frame)
  BY DEF Cluster
<1>2. /\ n \in Nat /\ DOMAIN c.blocks = 1 .. n
      /\ Len(d.blocks) = n + 1
      /\ \A i \in 1 .. n : d.blocks[i] = c.blocks[i]
      /\ d.blocks[n + 1] = f
  BY <1>1, LenProperties, AppendProperties
<1>3. DOMAIN d.blocks = 1 .. n + 1
  BY <1>1, <1>2, LenProperties
<1> HIDE DEF n
<1>4. ASSUME NEW i
      PROVE  i \in Video(d) <=>
               \/ i \in Video(c)
               \/ i = n + 1 /\ f.track = VideoTrackNumber
  BY <1>2, <1>3 DEF Video
<1>5. CASE f.track = VideoTrackNumber
  BY <1>2, <1>4, <1>5 DEF n
<1>6. CASE f.track # VideoTrackNumber
  BY <1>2, <1>4, <1>6 DEF n
<1> QED
  BY <1>5, <1>6

(* The cue of a cluster whose video stays.                                  *)
LEMMA SameCue ==
  ASSUME NEW c \in Cluster, NEW d \in Cluster, NEW f \in Frame,
         d.blocks = Append(c.blocks, f),
         d.position_for_cues = c.position_for_cues, Video(c) # {}
  PROVE  Video(d) # {} /\ CueOf(d) = CueOf(c)
<1> DEFINE n == Len(c.blocks)
           b == Min(Video(c))
<1>1. n \in Nat /\ Video(c) \subseteq 1 .. n /\ Video(c) \subseteq Nat
      /\ Video(d) \subseteq Nat
  BY VideoNumbers
<1>2. b \in Video(c) /\ \A x \in Video(c) : b <= x
  BY <1>1, MinIn
<1> HIDE DEF b
<1>3. b \in Video(d) /\ \A x \in Video(d) : x \in Video(c) \/ x = n + 1
  BY <1>2, VideoAdded
<1>4. \A x \in Video(d) : b <= x
  BY <1>1, <1>2, <1>3
<1>5. Min(Video(d)) = b
  BY <1>1, <1>3, <1>4, MinIs
<1>6. d.blocks[b] = c.blocks[b]
  BY <1>1, <1>2, VideoAdded
<1> QED
  BY <1>3, <1>5, <1>6 DEF CueOf, b

(* The cue of a cluster's first video block.                                *)
LEMMA FirstCue ==
  ASSUME NEW c \in Cluster, NEW d \in Cluster, NEW f \in Frame,
         d.blocks = Append(c.blocks, f),
         d.position_for_cues = c.position_for_cues,
         Video(c) = {}, f.track = VideoTrackNumber
  PROVE  /\ Video(d) # {}
         /\ CueOf(d) = [time |-> Timecode(f.timestamp),
                        cluster |-> d.position_for_cues,
                        block |-> Len(d.blocks)]
<1>0. c.blocks \in Seq(Frame)
  BY DEF Cluster
<1>1. Len(c.blocks) \in Nat /\ Len(d.blocks) = Len(c.blocks) + 1
  BY <1>0, VideoNumbers, AppendProperties
<1>2. Video(d) = {Len(d.blocks)} /\ d.blocks[Len(d.blocks)] = f
  BY <1>1, VideoAdded
<1>3. Min(Video(d)) = Len(d.blocks)
  <2>1. /\ Video(d) \subseteq Nat /\ Len(d.blocks) \in Video(d)
        /\ \A x \in Video(d) : Len(d.blocks) <= x
    BY <1>1, <1>2
  <2> QED
    BY <2>1, MinIs
<1> QED
  BY <1>2, <1>3 DEF CueOf

(* A key frame as the first video of a cluster, or no key frame.            *)
LEMMA KeyAdded ==
  ASSUME NEW c \in Cluster, NEW d \in Cluster, NEW f \in Frame,
         d.blocks = Append(c.blocks, f), KeyFirst(c),
         f.track = VideoTrackNumber /\ f.is_key => Video(c) = {}
  PROVE  KeyFirst(d)
<1> SUFFICES ASSUME NEW i \in Video(d), NEW j \in Video(d), d.blocks[i].is_key
             PROVE  i <= j
  BY DEF KeyFirst
<1> DEFINE n == Len(c.blocks)
<1>1. /\ n \in Nat /\ Video(c) \subseteq 1 .. n
      /\ \A x \in Video(d) : x \in Video(c) \/
                             (x = n + 1 /\ f.track = VideoTrackNumber)
      /\ \A x \in 1 .. n : d.blocks[x] = c.blocks[x]
      /\ d.blocks[n + 1] = f
  BY VideoNumbers, VideoAdded
<1> HIDE DEF n
<1>2. CASE i \in Video(c)
  <2>1. c.blocks[i].is_key /\ i \in 1 .. n
    BY <1>1, <1>2
  <2>2. CASE j \in Video(c)
    BY <1>2, <2>1, <2>2 DEF KeyFirst
  <2>3. CASE j = n + 1
    BY <1>1, <2>1, <2>3
  <2> QED
    BY <1>1, <2>2, <2>3
<1>3. CASE i \notin Video(c)
  <2>1. i = n + 1 /\ f.track = VideoTrackNumber /\ f.is_key
    BY <1>1, <1>3
  <2>2. Video(c) = {}
    BY <2>1
  <2> QED
    BY <1>1, <2>1, <2>2
<1> QED
  BY <1>2, <1>3

-----------------------------------------------------------------------------
(* The clusters and the cues. *)

WithVideo(cs) == {i \in DOMAIN cs : Video(cs[i]) # {}}

Positioned(cs) ==
  \A i \in DOMAIN cs :
    cs[i].position_for_cues = MaxOffset([clusters |-> SubSeq(cs, 1, i - 1)])

Cued(cs, cues) ==
  /\ ToSet(cues) = {CueOf(cs[i]) : i \in WithVideo(cs)}
  /\ Len(cues) = Cardinality(WithVideo(cs))

KeysFirst(cs) == \A i \in DOMAIN cs : KeyFirst(cs[i])

(* The last cluster replaced: what a block or a flag does.                 *)
LastReplaced(cs, ds, d) ==
  /\ cs \in Seq(Cluster) /\ d \in Cluster /\ Len(cs) # 0
  /\ ds = [cs EXCEPT ![Len(cs)] = d]

(* A sequence of clusters of which the last is replaced.                    *)
LEMMA ReplacedLast ==
  ASSUME NEW cs, NEW ds, NEW d, LastReplaced(cs, ds, d)
  PROVE  /\ ds \in Seq(Cluster) /\ Len(cs) \in Nat /\ Len(ds) = Len(cs)
         /\ Len(cs) \in 1 .. Len(cs)
         /\ DOMAIN cs = 1 .. Len(cs) /\ DOMAIN ds = 1 .. Len(cs)
         /\ cs[Len(cs)] \in Cluster
         /\ ds[Len(cs)] = d
         /\ \A i \in 1 .. Len(cs) : i # Len(cs) => ds[i] = cs[i]
<1> DEFINE n == Len(cs)
<1>1. cs \in Seq(Cluster) /\ d \in Cluster /\ n # 0 /\ ds = [cs EXCEPT ![n] = d]
  BY DEF LastReplaced
<1>2. n \in Nat /\ DOMAIN cs = 1 .. n /\ n \in 1 .. n /\ cs[n] \in Cluster
  BY <1>1, LenProperties, ElementOfSeq
<1>3. ds \in Seq(Cluster) /\ Len(ds) = n
  BY <1>1, <1>2, ExceptSeq
<1>4. DOMAIN ds = 1 .. n
  BY <1>3, LenProperties
<1>5. ds[n] = d /\ \A i \in 1 .. n : i # n => ds[i] = cs[i]
  BY <1>1, <1>2
<1> QED
  BY <1>2, <1>3, <1>4, <1>5

(* What precedes the last cluster decides its position.                     *)
LEMMA SamePrefix ==
  ASSUME NEW S, NEW cs \in Seq(S), NEW ds \in Seq(S), NEW k \in Nat,
         k <= Len(cs), k <= Len(ds), \A j \in 1 .. k : ds[j] = cs[j]
  PROVE  SubSeq(ds, 1, k) = SubSeq(cs, 1, k)
<1>1. /\ SubSeq(ds, 1, k) \in Seq(S) /\ SubSeq(cs, 1, k) \in Seq(S)
      /\ Len(SubSeq(ds, 1, k)) = k /\ Len(SubSeq(cs, 1, k)) = k
      /\ \A j \in 1 .. k : SubSeq(ds, 1, k)[j] = ds[j]
      /\ \A j \in 1 .. k : SubSeq(cs, 1, k)[j] = cs[j]
  OBVIOUS
<1> QED
  BY <1>1, SeqEqual

(* Positions do not depend on the last cluster itself.                      *)
LEMMA ReplacedPositioned ==
  ASSUME NEW cs, NEW ds, NEW d, LastReplaced(cs, ds, d), Positioned(cs),
         d.position_for_cues = cs[Len(cs)].position_for_cues
  PROVE  Positioned(ds)
<1> DEFINE n == Len(cs)
<1>1. /\ ds \in Seq(Cluster) /\ n \in Nat /\ Len(ds) = n
      /\ n \in 1 .. n
      /\ DOMAIN cs = 1 .. n /\ DOMAIN ds = 1 .. n
      /\ ds[n] = d
      /\ \A i \in 1 .. n : i # n => ds[i] = cs[i]
  BY ReplacedLast
<1>2. cs \in Seq(Cluster)
  BY DEF LastReplaced
<1> HIDE DEF n
<1> SUFFICES ASSUME NEW i \in 1 .. n
             PROVE  ds[i].position_for_cues =
                      MaxOffset([clusters |-> SubSeq(ds, 1, i - 1)])
  BY <1>1 DEF Positioned
<1>3. SubSeq(ds, 1, i - 1) = SubSeq(cs, 1, i - 1)
  <2>1. i - 1 \in Nat /\ i - 1 <= n /\ \A j \in 1 .. i - 1 : j \in 1 .. n /\ j # n
    BY <1>1
  <2>2. \A j \in 1 .. i - 1 : ds[j] = cs[j]
    BY <1>1, <2>1
  <2>3. i - 1 <= Len(cs) /\ i - 1 <= Len(ds)
    BY <1>1, <2>1 DEF n
  <2> QED
    BY <1>1, <1>2, <2>1, <2>2, <2>3, SamePrefix
<1>4. ds[i].position_for_cues = cs[i].position_for_cues
  BY <1>1 DEF n
<1> QED
  BY <1>1, <1>3, <1>4 DEF Positioned

(* Key frames open clusters if they open the last.                          *)
LEMMA ReplacedKeys ==
  ASSUME NEW cs, NEW ds, NEW d, LastReplaced(cs, ds, d), KeysFirst(cs),
         KeyFirst(d)
  PROVE  KeysFirst(ds)
BY ReplacedLast DEF KeysFirst

(* No cue is due for a cluster whose video stays.                           *)
LEMMA ReplacedSameCues ==
  ASSUME NEW cs, NEW ds, NEW d, LastReplaced(cs, ds, d), NEW cues,
         Cued(cs, cues),
         Video(cs[Len(cs)]) = {} <=> Video(d) = {},
         Video(d) # {} => CueOf(d) = CueOf(cs[Len(cs)])
  PROVE  Cued(ds, cues)
<1>1. WithVideo(ds) = WithVideo(cs)
  BY ReplacedLast DEF WithVideo
<1>2. \A i \in WithVideo(cs) : CueOf(ds[i]) = CueOf(cs[i])
  <2> SUFFICES ASSUME NEW i \in WithVideo(cs) PROVE CueOf(ds[i]) = CueOf(cs[i])
    OBVIOUS
  <2>1. i \in 1 .. Len(cs) /\ Video(ds[i]) # {}
    BY <1>1, ReplacedLast DEF WithVideo
  <2> QED
    BY <2>1, ReplacedLast
<1>3. {CueOf(ds[i]) : i \in WithVideo(ds)} = {CueOf(cs[i]) : i \in WithVideo(cs)}
  BY <1>1, <1>2
<1> QED
  BY <1>1, <1>3 DEF Cued

(* The cue added with the first video block is the one due.                 *)
LEMMA ReplacedNewCue ==
  ASSUME NEW cs, NEW ds, NEW d, LastReplaced(cs, ds, d),
         NEW cues \in Seq(Cue), Cued(cs, cues), CueOf(d) \in Cue,
         Video(cs[Len(cs)]) = {}, Video(d) # {}
  PROVE  Cued(ds, Append(cues, CueOf(d)))
<1> DEFINE n == Len(cs)
<1>1. /\ n \in Nat /\ n \in 1 .. n
      /\ DOMAIN cs = 1 .. n /\ DOMAIN ds = 1 .. n
      /\ ds[n] = d
      /\ \A i \in 1 .. n : i # n => ds[i] = cs[i]
  BY ReplacedLast
<1>2. n \notin WithVideo(cs)
  BY DEF WithVideo
<1> HIDE DEF n
<1>3. WithVideo(ds) = WithVideo(cs) \cup {n}
  <2>1. ASSUME NEW i PROVE i \in WithVideo(ds) <=> i \in WithVideo(cs) \/ i = n
    BY <1>1 DEF WithVideo
  <2> QED
    BY <2>1
<1>4. \A i \in WithVideo(cs) : CueOf(ds[i]) = CueOf(cs[i])
  BY <1>1, <1>2 DEF WithVideo
<1>5. {CueOf(ds[i]) : i \in WithVideo(ds)}
        = {CueOf(cs[i]) : i \in WithVideo(cs)} \cup {CueOf(d)}
  BY <1>1, <1>3, <1>4
<1>6. ToSet(Append(cues, CueOf(d))) = ToSet(cues) \cup {CueOf(d)}
  <2> DEFINE q == CueOf(d)
  <2>1. q \in Cue
    OBVIOUS
  <2> HIDE DEF q
  <2>2. /\ DOMAIN cues = 1 .. Len(cues) /\ Len(cues) \in Nat
        /\ DOMAIN Append(cues, q) = 1 .. Len(cues) + 1
        /\ \A i \in 1 .. Len(cues) : Append(cues, q)[i] = cues[i]
        /\ Append(cues, q)[Len(cues) + 1] = q
    <3>1. /\ Append(cues, q) \in Seq(Cue)
          /\ Len(Append(cues, q)) = Len(cues) + 1
          /\ \A i \in 1 .. Len(cues) : Append(cues, q)[i] = cues[i]
          /\ Append(cues, q)[Len(cues) + 1] = q
      BY <2>1, AppendProperties
    <3> QED
      BY <3>1, LenProperties
  <2>3. ASSUME NEW x
        PROVE  (\E i \in DOMAIN Append(cues, q) : x = Append(cues, q)[i])
                 <=> (\E i \in DOMAIN cues : x = cues[i]) \/ x = q
    BY <2>2
  <2>4. ToSet(Append(cues, q)) = ToSet(cues) \cup {q}
    BY <2>3 DEF ToSet
  <2> QED
    BY <2>4 DEF q
<1>7. Cardinality(WithVideo(ds)) = Cardinality(WithVideo(cs)) + 1
  <2>1. IsFiniteSet(1 .. n)
    BY <1>1, FS_Interval
  <2>2. IsFiniteSet(WithVideo(cs))
    <3>1. WithVideo(cs) \subseteq 1 .. n
      BY <1>1 DEF WithVideo
    <3> QED
      BY <2>1, <3>1, FS_Subset
  <2> QED
    BY <1>2, <1>3, <2>2, FS_AddElement
<1>8. Len(Append(cues, CueOf(d))) = Len(cues) + 1
  BY AppendProperties
<1> QED
  BY <1>5, <1>6, <1>7, <1>8 DEF Cued

(* A cluster added: what making a new one does.                            *)
LEMMA ClusterAdded ==
  ASSUME NEW cs \in Seq(Cluster), NEW e \in Cluster, e.blocks = <<>>,
         e.position_for_cues = MaxOffset([clusters |-> cs])
  PROVE  /\ Append(cs, e) \in Seq(Cluster)
         /\ Len(Append(cs, e)) = Len(cs) + 1
         /\ Append(cs, e)[Len(cs) + 1] = e
         /\ Video(e) = {}
         /\ Positioned(cs) => Positioned(Append(cs, e))
         /\ KeysFirst(cs) => KeysFirst(Append(cs, e))
         /\ \A cues : Cued(cs, cues) => Cued(Append(cs, e), cues)
<1> DEFINE n == Len(cs)
           ds == Append(cs, e)
<1>1. /\ n \in Nat /\ DOMAIN cs = 1 .. n
      /\ ds \in Seq(Cluster) /\ Len(ds) = n + 1
      /\ \A i \in 1 .. n : ds[i] = cs[i]
      /\ ds[n + 1] = e
  BY LenProperties, AppendProperties
<1>2. DOMAIN ds = 1 .. n + 1
  BY <1>1, LenProperties
<1>3. Video(e) = {}
  <2>1. DOMAIN e.blocks = {}
    OBVIOUS
  <2> QED
    BY <2>1 DEF Video
<1> HIDE DEF n, ds
<1>4. ASSUME Positioned(cs) PROVE Positioned(ds)
  <2> SUFFICES ASSUME NEW i \in 1 .. n + 1
               PROVE  ds[i].position_for_cues =
                        MaxOffset([clusters |-> SubSeq(ds, 1, i - 1)])
    BY <1>2 DEF Positioned
  <2>1. SubSeq(ds, 1, i - 1) = SubSeq(cs, 1, i - 1)
    <3>1. /\ i - 1 \in Nat /\ i - 1 <= Len(cs) /\ i - 1 <= Len(ds)
          /\ \A j \in 1 .. i - 1 : ds[j] = cs[j]
      BY <1>1 DEF n
    <3> QED
      BY <1>1, <3>1, SamePrefix
  <2>2. CASE i \in 1 .. n
    BY <1>1, <1>4, <2>1, <2>2 DEF Positioned
  <2>3. CASE i = n + 1
    <3>1. SubSeq(cs, 1, i - 1) = cs
      <4>1. /\ SubSeq(cs, 1, n) \in Seq(Cluster)
            /\ Len(SubSeq(cs, 1, n)) = n
            /\ \A j \in 1 .. n : SubSeq(cs, 1, n)[j] = cs[j]
        BY <1>1 DEF n
      <4>2. SubSeq(cs, 1, n) = cs
        BY <4>1, SeqEqual DEF n
      <4>3. i - 1 = n
        BY <1>1, <2>3
      <4> QED
        BY <4>2, <4>3
    <3> QED
      BY <1>1, <2>1, <2>3, <3>1
  <2> QED
    BY <1>1, <2>2, <2>3
<1>5. ASSUME KeysFirst(cs) PROVE KeysFirst(ds)
  <2>1. KeyFirst(e)
    BY <1>3 DEF KeyFirst
  <2>2. ASSUME NEW i \in 1 .. n + 1 PROVE KeyFirst(ds[i])
    BY <1>1, <1>5, <2>1 DEF KeysFirst
  <2> QED
    BY <1>2, <2>2 DEF KeysFirst
<1>6. ASSUME NEW cues, Cued(cs, cues) PROVE Cued(ds, cues)
  <2>1. WithVideo(ds) = WithVideo(cs)
    <3>1. ASSUME NEW i PROVE i \in WithVideo(ds) <=> i \in WithVideo(cs)
      BY <1>1, <1>2, <1>3 DEF WithVideo
    <3> QED
      BY <3>1
  <2>2. \A i \in WithVideo(cs) : CueOf(ds[i]) = CueOf(cs[i])
    BY <1>1 DEF WithVideo
  <2>3. {CueOf(ds[i]) : i \in WithVideo(ds)} = {CueOf(cs[i]) : i \in WithVideo(cs)}
    BY <2>1, <2>2
  <2> QED
    BY <1>6, <2>1, <2>3 DEF Cued
<1> QED
  BY <1>1, <1>3, <1>4, <1>5, <1>6 DEF n, ds

-----------------------------------------------------------------------------
(* What every method keeps of a segment: only audio is queued, the         *)
(* clusters know their positions, the cues index them, key frames come     *)
(* first in theirs, and new_cuepoint says that the last has no video yet.  *)

AudioOnly(fs) == \A i \in DOMAIN fs : fs[i].track = AudioTrackNumber

Pending(cs, new) ==
  cs # <<>> => /\ new => Video(cs[Len(cs)]) = {}
               /\ ~new => Video(cs[Len(cs)]) # {}

Good(s) ==
  /\ s \in SegmentType
  /\ AudioOnly(s.frames)
  /\ Positioned(s.clusters)
  /\ Cued(s.clusters, s.cues)
  /\ KeysFirst(s.clusters)
  /\ Pending(s.clusters, s.new_cuepoint)

(* A method that leaves the clusters' number and the pending cue alone.    *)
Kept(s, r) ==
  /\ r.ok \in BOOLEAN
  /\ Good(r.seg)
  /\ Len(r.seg.clusters) = Len(s.clusters)
  /\ r.seg.new_cuepoint <=> s.new_cuepoint

IsVideoKey(f) == f.track = VideoTrackNumber /\ f.is_key

(* A segment that nothing was written to is good.                           *)
LEMMA NewIsGood == Good(NewSegment)
<1>1. /\ <<>> \in Seq(Cluster) /\ <<>> \in Seq(Cue) /\ <<>> \in Seq(Frame)
  BY EmptySeq
<1>2. NewSegment \in SegmentType
  BY <1>1 DEF NewSegment, SegmentType
<1>3. /\ NewSegment.clusters = <<>> /\ NewSegment.cues = <<>>
      /\ NewSegment.frames = <<>>
  BY DEF NewSegment
<1>4. WithVideo(<<>>) = {}
  BY DEF WithVideo
<1>5. Cued(<<>>, <<>>)
  BY <1>4, FS_EmptySet DEF Cued, ToSet
<1> QED
  BY <1>2, <1>3, <1>5 DEF Good, AudioOnly, Positioned, KeysFirst, Pending

(* Good is about the clusters, the cues and the queue.                      *)
LEMMA GoodSame ==
  ASSUME NEW s, Good(s), NEW t \in SegmentType, t.clusters = s.clusters,
         t.cues = s.cues, t.new_cuepoint <=> s.new_cuepoint,
         AudioOnly(t.frames)
  PROVE  Good(t)
BY DEF Good, Pending

(* Cluster::AddFrame.                                                      *)
LEMMA OpenedType ==
  ASSUME NEW c \in Cluster
  PROVE  LET o == [c EXCEPT !.header_written = TRUE] IN
         /\ o \in Cluster /\ o.header_written
         /\ o.position_for_cues = c.position_for_cues
         /\ o.timecode = c.timecode /\ o.blocks = c.blocks
         /\ o.finalized <=> c.finalized
BY DEF Cluster

(* A cluster with a block more.                                             *)
LEMMA BlockedType ==
  ASSUME NEW o \in Cluster, NEW f \in Frame
  PROVE  LET d == [o EXCEPT !.blocks = Append(@, f)] IN
         /\ d \in Cluster /\ d.blocks = Append(o.blocks, f)
         /\ d.position_for_cues = o.position_for_cues
         /\ d.timecode = o.timecode
         /\ d.finalized <=> o.finalized
         /\ d.header_written <=> o.header_written
<1>1. o.blocks \in Seq(Frame)
  BY DEF Cluster
<1>2. Append(o.blocks, f) \in Seq(Frame)
  BY <1>1, AppendProperties
<1> DEFINE b == Append(o.blocks, f)
<1> HIDE DEF b
<1>3. LET d == [o EXCEPT !.blocks = b] IN
         /\ d \in Cluster /\ d.blocks = b
         /\ d.position_for_cues = o.position_for_cues
         /\ d.timecode = o.timecode
         /\ d.finalized <=> o.finalized
         /\ d.header_written <=> o.header_written
  <2>1. b \in Seq(Frame)
    BY <1>2 DEF b
  <2> QED
    BY <2>1 DEF Cluster
<1> QED
  BY <1>3 DEF b

AddFrameResult(c, f, a) ==
  /\ a.ok \in BOOLEAN /\ a.cluster \in Cluster
  /\ a.cluster.position_for_cues = c.position_for_cues
  /\ a.cluster.timecode = c.timecode
  /\ a.cluster.finalized <=> c.finalized
  /\ a.ok => /\ a.cluster.blocks = Append(c.blocks, f)
             /\ a.cluster.header_written
  /\ ~a.ok => a.cluster.blocks = c.blocks

(* What Cluster::AddFrame leaves.                                           *)
LEMMA AddFrameType ==
  ASSUME NEW c \in Cluster, NEW f \in Frame
  PROVE  AddFrameResult(c, f, AddFrame(c, f))
<1> DEFINE o == [c EXCEPT !.header_written = TRUE]
           d == [o EXCEPT !.blocks = Append(@, f)]
           inRange == Timecode(f.timestamp) - c.timecode \in 0 .. MaxBlockTimecode
<1>1. /\ ~f.valid \/ c.finalized => AddFrame(c, f) = [ok |-> FALSE, cluster |-> c]
      /\ f.valid /\ ~c.finalized /\ ~inRange =>
           AddFrame(c, f) = [ok |-> FALSE, cluster |-> o]
      /\ f.valid /\ ~c.finalized /\ inRange =>
           AddFrame(c, f) = [ok |-> TRUE, cluster |-> d]
  <2> HIDE DEF o, d, inRange
  <2> QED
    BY DEF AddFrame, o, d, inRange
<1>2. /\ o \in Cluster /\ o.header_written
      /\ o.position_for_cues = c.position_for_cues
      /\ o.timecode = c.timecode /\ o.blocks = c.blocks
      /\ o.finalized <=> c.finalized
  BY OpenedType
<1> HIDE DEF o
<1>3. /\ d \in Cluster /\ d.blocks = Append(o.blocks, f)
      /\ d.position_for_cues = o.position_for_cues
      /\ d.timecode = o.timecode
      /\ d.finalized <=> o.finalized
      /\ d.header_written <=> o.header_written
  BY <1>2, BlockedType
<1> HIDE DEF d, inRange
<1>4. CASE ~f.valid \/ c.finalized
  <2>1. AddFrame(c, f) = [ok |-> FALSE, cluster |-> c]
    BY <1>1, <1>4
  <2> QED
    BY <2>1 DEF AddFrameResult
<1>5. CASE f.valid /\ ~c.finalized /\ ~inRange
  <2>1. AddFrame(c, f) = [ok |-> FALSE, cluster |-> o]
    BY <1>1, <1>5
  <2> QED
    BY <1>2, <2>1 DEF AddFrameResult
<1>6. CASE f.valid /\ ~c.finalized /\ inRange
  <2>1. AddFrame(c, f) = [ok |-> TRUE, cluster |-> d]
    BY <1>1, <1>6
  <2> QED
    BY <1>2, <1>3, <2>1 DEF AddFrameResult
<1> QED
  BY <1>4, <1>5, <1>6

(* Segment::AddGenericFrame from the writing on: a block into the last     *)
(* cluster, and its cue.                                                   *)
SameButClusters(s, t) ==
  /\ t \in SegmentType
  /\ t.frames = s.frames /\ t.freed = s.freed /\ t.seeks = s.seeks
  /\ t.last_timestamp = s.last_timestamp
  /\ t.header_written <=> s.header_written
  /\ t.force_new_cluster <=> s.force_new_cluster
  /\ t.crashed <=> s.crashed

(* The segment with other clusters.                                         *)
LEMMA WithClusters ==
  ASSUME NEW s \in SegmentType, NEW ds \in Seq(Cluster)
  PROVE  LET t == [s EXCEPT !.clusters = ds] IN
         /\ SameButClusters(s, t)
         /\ t.clusters = ds /\ t.cues = s.cues
         /\ t.new_cuepoint <=> s.new_cuepoint
BY DEF SegmentType, SameButClusters

(* The segment with one cue more.                                           *)
LEMMA WithCue ==
  ASSUME NEW s \in SegmentType, NEW q \in Cue
  PROVE  LET t == [s EXCEPT !.new_cuepoint = FALSE, !.cues = Append(@, q)] IN
         /\ SameButClusters(s, t)
         /\ t.clusters = s.clusters /\ t.cues = Append(s.cues, q)
         /\ ~t.new_cuepoint
<1> DEFINE qs == Append(s.cues, q)
<1>1. qs \in Seq(Cue)
  BY AppendProperties DEF SegmentType
<1> HIDE DEF qs
<1>2. LET t == [s EXCEPT !.new_cuepoint = FALSE, !.cues = qs] IN
         /\ SameButClusters(s, t)
         /\ t.clusters = s.clusters /\ t.cues = qs
         /\ ~t.new_cuepoint
  BY <1>1 DEF SegmentType, SameButClusters
<1> QED
  BY <1>2 DEF qs

BlockWritten(s, f, r) ==
  LET n == Len(s.clusters)
      a == AddFrame(s.clusters[n], f)
  IN /\ r.ok \in BOOLEAN
     /\ r.ok <=> a.ok
     /\ Good(r.seg)
     /\ r.seg.clusters = [s.clusters EXCEPT ![n] = a.cluster]
     /\ SameButClusters(s, r.seg)
     /\ f.track # VideoTrackNumber =>
          (r.seg.new_cuepoint <=> s.new_cuepoint)

(* A block in the last cluster, with the cue that is due.                   *)
LEMMA WriteBlockResult ==
  ASSUME NEW s, Good(s), NEW f \in Frame, Len(s.clusters) # 0,
         IsVideoKey(f) => s.new_cuepoint
  PROVE  BlockWritten(s, f, WriteBlock(s, f))
<1> DEFINE cs == s.clusters
           n == Len(cs)
           c == cs[n]
           a == AddFrame(c, f)
           d == a.cluster
           ds == [cs EXCEPT ![n] = d]
           t == [s EXCEPT !.clusters = ds]
           r == WriteBlock(s, f)
<1>1. cs \in Seq(Cluster) /\ n \in Nat /\ n \in 1 .. n /\ c \in Cluster
      /\ s \in SegmentType /\ s.cues \in Seq(Cue)
  <2>1. cs \in Seq(Cluster) /\ s \in SegmentType /\ s.cues \in Seq(Cue)
    BY DEF Good, SegmentType
  <2> QED
    BY <2>1, LenProperties, ElementOfSeq
<1>2. AddFrameResult(c, f, a)
  BY <1>1, AddFrameType
<1>3. LastReplaced(cs, ds, d)
  BY <1>1, <1>2 DEF LastReplaced, AddFrameResult
<1>4. ds \in Seq(Cluster) /\ Len(ds) = n /\ ds[n] = d
  BY <1>3, ReplacedLast
<1>5. /\ SameButClusters(s, t) /\ t.clusters = ds /\ t.cues = s.cues
      /\ t.new_cuepoint <=> s.new_cuepoint
  BY <1>1, <1>4, WithClusters
<1>6. /\ ~a.ok => r = Refused(t)
      /\ a.ok /\ t.new_cuepoint /\ f.track = VideoTrackNumber =>
           r = Succeeded(AddCuePoint(t, f))
      /\ a.ok /\ ~(t.new_cuepoint /\ f.track = VideoTrackNumber) =>
           r = Succeeded(t)
  <2>1. [s EXCEPT !.clusters[n] = d] = t
    BY <1>1
  <2> HIDE DEF t
  <2>2. [s EXCEPT !.clusters[Len(s.clusters)] =
           AddFrame(s.clusters[Len(s.clusters)], f).cluster] = t
    BY <2>1
  <2> QED
    BY <2>2 DEF WriteBlock
<1>7. Positioned(ds)
  BY <1>2, <1>3, ReplacedPositioned DEF Good, AddFrameResult
<1>8. /\ AudioOnly(s.frames) /\ KeysFirst(cs) /\ Cued(cs, s.cues) /\ KeyFirst(c)
      /\ s.new_cuepoint => Video(c) = {}
      /\ ~s.new_cuepoint => Video(c) # {}
  <2>1. cs # <<>>
    BY <1>1
  <2> QED
    BY <1>1, <2>1 DEF Good, KeysFirst, Pending
<1>13. ASSUME NEW x, Good(x), x.clusters = ds, SameButClusters(s, x),
              f.track # VideoTrackNumber =>
                (x.new_cuepoint <=> s.new_cuepoint),
              r.ok \in BOOLEAN, r.ok <=> a.ok, r.seg = x
       PROVE  BlockWritten(s, f, r)
  <2> HIDE DEF r
  <2> QED
    BY <1>13 DEF BlockWritten
<1> HIDE DEF t, ds, c, n, cs, r
<1>9. ds # <<>>
  BY <1>1, <1>4 DEF n, cs
<1>10. CASE ~a.ok
  <2>1. d.blocks = c.blocks /\ d.position_for_cues = c.position_for_cues
    BY <1>2, <1>10 DEF AddFrameResult
  <2>2. Video(d) = Video(c) /\ CueOf(d) = CueOf(c) /\ KeyFirst(d)
    BY <1>8, <2>1 DEF Video, CueOf, KeyFirst
  <2>3. Cued(ds, s.cues) /\ KeysFirst(ds)
    BY <1>3, <1>8, <2>2, ReplacedSameCues, ReplacedKeys DEF n, c
  <2>4. Pending(ds, t.new_cuepoint)
    BY <1>4, <1>5, <1>8, <2>2 DEF Pending
  <2>5. Good(t)
    BY <1>5, <1>7, <1>8, <2>3, <2>4 DEF Good, SameButClusters
  <2> QED
    <3>1. r.ok = FALSE /\ r.seg = t
      BY <1>6, <1>10 DEF Refused
    <3> HIDE DEF d, a
    <3> QED
      BY <1>5, <1>10, <1>13, <2>5, <3>1 DEF r
<1>11. CASE a.ok /\ ~(t.new_cuepoint /\ f.track = VideoTrackNumber)
  <2>1. /\ d.blocks = Append(c.blocks, f)
        /\ d.position_for_cues = c.position_for_cues /\ d \in Cluster
    BY <1>2, <1>11 DEF AddFrameResult
  <2>2. KeyFirst(d)
    BY <1>1, <1>8, <2>1, KeyAdded DEF IsVideoKey
  <2>3. Video(c) # {} => Video(d) # {} /\ CueOf(d) = CueOf(c)
    BY <1>1, <2>1, SameCue
  <2>4. Video(c) = {} => Video(d) = {}
    <3>1. Video(c) = {} => f.track # VideoTrackNumber
      BY <1>5, <1>8, <1>11
    <3>2. f.track # VideoTrackNumber => Video(d) = Video(c)
      <4> HIDE DEF d
      <4> QED
        BY <1>1, <2>1, VideoAdded
    <3> QED
      BY <3>1, <3>2
  <2>5. Cued(ds, s.cues) /\ KeysFirst(ds)
    BY <1>3, <1>8, <2>2, <2>3, <2>4, ReplacedSameCues, ReplacedKeys DEF n, c
  <2>6. Pending(ds, t.new_cuepoint)
    BY <1>4, <1>5, <1>8, <2>3, <2>4 DEF Pending
  <2>7. Good(t)
    BY <1>5, <1>7, <1>8, <2>5, <2>6 DEF Good, SameButClusters
  <2> QED
    <3>1. r.ok = TRUE /\ r.seg = t
      BY <1>6, <1>11 DEF Succeeded
    <3> HIDE DEF d, a
    <3> QED
      BY <1>5, <1>11, <1>13, <2>7, <3>1 DEF r
<1>12. CASE a.ok /\ t.new_cuepoint /\ f.track = VideoTrackNumber
  <2>1. /\ d.blocks = Append(c.blocks, f)
        /\ d.position_for_cues = c.position_for_cues /\ d \in Cluster
    BY <1>2, <1>12 DEF AddFrameResult
  <2>2. Video(c) = {}
    BY <1>5, <1>8, <1>12
  <2>3. KeyFirst(d)
    BY <1>1, <1>8, <2>1, <2>2, KeyAdded
  <2>4. /\ Video(d) # {}
        /\ CueOf(d) = [time |-> Timecode(f.timestamp),
                       cluster |-> d.position_for_cues,
                       block |-> Len(d.blocks)]
    BY <1>1, <1>12, <2>1, <2>2, FirstCue
  <2>5. CueOf(d) \in Cue
    <3>1. Timecode(f.timestamp) \in Int
      BY TimecodeType DEF Frame
    <3>2. d.position_for_cues \in Nat /\ Len(d.blocks) \in Nat
      BY <2>1, VideoNumbers DEF Cluster
    <3> QED
      BY <2>4, <3>1, <3>2 DEF Cue
  <2> DEFINE u == AddCuePoint(t, f)
  <2>6. u = [t EXCEPT !.new_cuepoint = FALSE, !.cues = Append(@, CueOf(d))]
    <3>1. Last(t.clusters) = d
      BY <1>4, <1>5 DEF Last
    <3> HIDE DEF t, d
    <3> QED
      BY <2>4, <3>1 DEF AddCuePoint
  <2>7. t \in SegmentType
    BY <1>5 DEF SameButClusters
  <2>8. /\ SameButClusters(t, u) /\ u.clusters = ds
        /\ u.cues = Append(s.cues, CueOf(d)) /\ ~u.new_cuepoint
    <3> DEFINE q == CueOf(d)
               w == [t EXCEPT !.new_cuepoint = FALSE, !.cues = Append(@, q)]
    <3>1. u = w
      BY <2>6
    <3> HIDE DEF t, u, q
    <3>2. /\ SameButClusters(t, w) /\ w.clusters = t.clusters
          /\ w.cues = Append(t.cues, q) /\ ~w.new_cuepoint
      BY <2>5, <2>7, WithCue DEF q
    <3> HIDE DEF w
    <3> QED
      BY <1>5, <3>1, <3>2 DEF q
  <2> HIDE DEF u
  <2>9. SameButClusters(s, u)
    BY <1>5, <2>8 DEF SameButClusters
  <2>10. Cued(ds, u.cues) /\ KeysFirst(ds)
    BY <1>1, <1>3, <1>8, <2>2, <2>3, <2>4, <2>5, <2>8, ReplacedNewCue,
       ReplacedKeys DEF n, c
  <2>11. Pending(ds, u.new_cuepoint)
    BY <1>4, <2>4, <2>8 DEF Pending
  <2>12. Good(u)
    BY <1>7, <1>8, <2>8, <2>9, <2>10, <2>11 DEF Good, SameButClusters
  <2> QED
    <3>1. r.ok = TRUE /\ r.seg = u
      BY <1>6, <1>12 DEF Succeeded, u
    <3> HIDE DEF d, a
    <3> QED
      BY <1>12, <1>13, <2>8, <2>9, <2>12, <3>1 DEF r
<1> QED
  <2>1. a.ok \in BOOLEAN
    BY <1>2 DEF AddFrameResult
  <2> QED
    BY <1>10, <1>11, <1>12, <2>1

-----------------------------------------------------------------------------
(* Writing the queue. *)

(* Succeeding, refusing or crashing at once keeps the segment.             *)
LEMMA KeptSame ==
  ASSUME NEW s, Good(s)
  PROVE  Kept(s, Succeeded(s)) /\ Kept(s, Refused(s)) /\ Kept(s, Crashed(s))
<1>1. Kept(s, Succeeded(s)) /\ Kept(s, Refused(s))
  BY DEF Kept, Succeeded, Refused
<1> DEFINE t == [s EXCEPT !.crashed = TRUE]
<1>2. /\ t \in SegmentType /\ t.clusters = s.clusters /\ t.cues = s.cues
      /\ t.frames = s.frames
      /\ t.new_cuepoint <=> s.new_cuepoint
  BY DEF Good, SegmentType
<1>3. Crashed(s) = [ok |-> FALSE, seg |-> t]
  BY DEF Crashed, Refused
<1> HIDE DEF t
<1>4. Good(t)
  <2>1. AudioOnly(t.frames)
    BY <1>2 DEF Good
  <2> QED
    BY <1>2, <2>1, GoodSame
<1>5. Kept(s, Crashed(s))
  BY <1>2, <1>3, <1>4 DEF Kept
<1> QED
  BY <1>1, <1>5

(* What is kept twice is kept.                                              *)
LEMMA KeptTwice ==
  ASSUME NEW s, NEW r, Kept(s, r), NEW q, Kept(r.seg, q)
  PROVE  Kept(s, q)
BY DEF Kept

(* The queue and its bookkeeping may change, if it holds audio only.       *)
QueueSet(s, t) ==
  /\ t \in SegmentType /\ t.clusters = s.clusters /\ t.cues = s.cues
  /\ t.new_cuepoint <=> s.new_cuepoint
  /\ AudioOnly(t.frames)

(* Another queue without video keeps the segment.                          *)
LEMMA KeptQueue ==
  ASSUME NEW s, Good(s), NEW t, QueueSet(s, t)
  PROVE  Kept(s, Succeeded(t))
<1>1. Good(t)
  BY GoodSame DEF QueueSet
<1> QED
  BY <1>1 DEF QueueSet, Kept, Succeeded

(* A queued frame written keeps the segment good.                           *)
LEMMA WriteQueuedKept ==
  ASSUME NEW s, Good(s), NEW f \in Frame, f.track = AudioTrackNumber,
         Len(s.clusters) # 0
  PROVE  /\ Kept(s, WriteQueued(s, f))
         /\ WriteQueued(s, f).seg.frames = s.frames
<1> DEFINE r == WriteBlock(s, f)
           t == r.seg
           last == IF f.timestamp > t.last_timestamp
                   THEN f.timestamp ELSE t.last_timestamp
           u == [t EXCEPT !.freed = @ + 1, !.last_timestamp = last]
<1>1. f.track # VideoTrackNumber /\ ~IsVideoKey(f)
  BY DEF IsVideoKey, AudioTrackNumber, VideoTrackNumber
<1>2. BlockWritten(s, f, r)
  BY <1>1, WriteBlockResult
<1> HIDE DEF r
<1>3. s.clusters \in Seq(Cluster)
  BY DEF Good, SegmentType
<1>4. Len(t.clusters) = Len(s.clusters)
  <2> DEFINE n == Len(s.clusters)
             d == AddFrame(s.clusters[n], f).cluster
  <2>1. n \in Nat /\ n \in 1 .. n /\ s.clusters[n] \in Cluster
    BY <1>3, LenProperties, ElementOfSeq
  <2>2. d \in Cluster
    BY <2>1, AddFrameType DEF AddFrameResult
  <2>3. t.clusters = [s.clusters EXCEPT ![n] = d]
    BY <1>2 DEF BlockWritten
  <2> HIDE DEF d
  <2>4. LastReplaced(s.clusters, t.clusters, d)
    BY <1>3, <2>2, <2>3 DEF LastReplaced
  <2> QED
    BY <2>4, ReplacedLast
<1>5. Kept(s, r) /\ t.frames = s.frames
  BY <1>1, <1>2, <1>4 DEF Kept, BlockWritten, SameButClusters
<1>6. WriteQueued(s, f) = IF r.ok THEN Succeeded(u) ELSE r
  BY DEF WriteQueued, Then, r
<1>7. Kept(t, Succeeded(u)) /\ u.frames = t.frames
  <2>1. t \in SegmentType /\ Good(t) /\ AudioOnly(t.frames)
    BY <1>5 DEF Kept, Good
  <2>2. last \in Int
    BY <2>1 DEF SegmentType, Frame
  <2> HIDE DEF last, t
  <2>3. QueueSet(t, u) /\ u.frames = t.frames
    <3>1. /\ u \in SegmentType /\ u.clusters = t.clusters /\ u.cues = t.cues
          /\ u.frames = t.frames
          /\ u.new_cuepoint <=> t.new_cuepoint
      <4> HIDE DEF u
      <4> DEFINE v == t.freed + 1
      <4>1. v \in Nat
        BY <2>1 DEF SegmentType
      <4>2. u = [t EXCEPT !.freed = v, !.last_timestamp = last]
        BY DEF u
      <4> HIDE DEF v
      <4> QED
        BY <2>1, <2>2, <4>1, <4>2 DEF SegmentType
    <3> HIDE DEF u
    <3> QED
      BY <2>1, <3>1 DEF QueueSet
  <2> HIDE DEF u
  <2> QED
    BY <2>1, <2>3, KeptQueue
<1>8. Kept(s, Succeeded(u))
  BY <1>5, <1>7, KeptTwice
<1> QED
  BY <1>5, <1>6, <1>7, <1>8 DEF Succeeded

(* The partial results of WriteQueue.                                      *)
Writing(s, q, k, h) ==
  h = [n \in 0 .. k |->
         IF n = 0 THEN Succeeded(s)
         ELSE IF h[n - 1].ok THEN WriteQueued(h[n - 1].seg, q[n])
                             ELSE h[n - 1]]

WritesNext(s, q, h, n) ==
  h[n] = IF n = 0 THEN Succeeded(s)
         ELSE IF h[n - 1].ok THEN WriteQueued(h[n - 1].seg, q[n])
                             ELSE h[n - 1]

(* The entries of WriteQueue's recursion.                                   *)
LEMMA WritingEntries ==
  ASSUME NEW s, NEW q, NEW k \in Nat, NEW h, Writing(s, q, k, h),
         NEW n \in 0 .. k
  PROVE  WritesNext(s, q, h, n)
<1> DEFINE F == [j \in 0 .. k |->
                   IF j = 0 THEN Succeeded(s)
                   ELSE IF h[j - 1].ok THEN WriteQueued(h[j - 1].seg, q[j])
                                       ELSE h[j - 1]]
<1>1. h = F
  BY DEF Writing
<1>2. F[n] = IF n = 0 THEN Succeeded(s)
             ELSE IF h[n - 1].ok THEN WriteQueued(h[n - 1].seg, q[n])
                                 ELSE h[n - 1]
  OBVIOUS
<1> HIDE DEF F
<1> QED
  BY <1>1, <1>2 DEF WritesNext

(* The recursion of WriteQueue has a solution.                              *)
LEMMA WritingExists ==
  ASSUME NEW s, NEW q, NEW k \in Nat
  PROVE  \E h : Writing(s, q, k, h)
<1> DEFINE T == {m \in 0 .. k : \E h : Writing(s, q, m, h)}
<1>1. 0 \in T
  <2> DEFINE z == [n \in 0 .. 0 |-> Succeeded(s)]
  <2>1. z = [n \in 0 .. 0 |->
               IF n = 0 THEN Succeeded(s)
               ELSE IF z[n - 1].ok THEN WriteQueued(z[n - 1].seg, q[n])
                                   ELSE z[n - 1]]
    OBVIOUS
  <2>2. Writing(s, q, 0, z)
    <3> HIDE DEF z
    <3> QED
      BY <2>1 DEF Writing
  <2> QED
    BY <2>2
<1>2. ASSUME NEW m \in 0 .. k - 1, m \in T PROVE m + 1 \in T
  <2>1. PICK h : Writing(s, q, m, h)
    BY <1>2
  <2>2. \A n \in 0 .. m : WritesNext(s, q, h, n)
    <3>1. m \in Nat
      OBVIOUS
    <3> HIDE DEF T
    <3> QED
      BY <2>1, <3>1, WritingEntries
  <2> DEFINE e(n) == IF n = 0 THEN Succeeded(s)
                     ELSE IF h[n - 1].ok THEN WriteQueued(h[n - 1].seg, q[n])
                                         ELSE h[n - 1]
             g == [n \in 0 .. m + 1 |-> e(n)]
             d(n) == IF n = 0 THEN Succeeded(s)
                     ELSE IF g[n - 1].ok THEN WriteQueued(g[n - 1].seg, q[n])
                                         ELSE g[n - 1]
  <2>3. ASSUME NEW n \in 0 .. m PROVE g[n] = h[n]
    BY <2>2 DEF WritesNext
  <2>4. \A n \in 0 .. m + 1 : e(n) = d(n)
    <3> HIDE DEF g
    <3>1. ASSUME NEW n \in 0 .. m + 1, n # 0 PROVE g[n - 1] = h[n - 1]
      <4>1. n - 1 \in 0 .. m
        BY <3>1
      <4> QED
        BY <2>3, <4>1
    <3> QED
      BY <3>1
  <2>5. g = [n \in 0 .. m + 1 |-> d(n)]
    <3> HIDE DEF e, d
    <3> QED
      BY <2>4
  <2>6. Writing(s, q, m + 1, g)
    <3> HIDE DEF g
    <3> QED
      BY <2>5 DEF Writing
  <2> QED
    BY <2>6
<1>3. \A m \in 0 .. k : m \in T
  <2> HIDE DEF T
  <2> QED
    BY <1>1, <1>2, UpTo
<1> QED
  BY <1>3

(* So do several, up to the one that fails.                                 *)
LEMMA WriteQueueKept ==
  ASSUME NEW s, Good(s), NEW q \in Seq(Frame), AudioOnly(q),
         Len(s.clusters) # 0
  PROVE  Kept(s, WriteQueue(s, q)) /\ WriteQueue(s, q).seg.frames = s.frames
<1> DEFINE k == Len(q)
           f == CHOOSE h : Writing(s, q, k, h)
           T == {n \in 0 .. k : Kept(s, f[n]) /\ f[n].seg.frames = s.frames}
<1>1. k \in Nat /\ DOMAIN q = 1 .. k
  BY LenProperties
<1>2. Writing(s, q, k, f)
  BY <1>1, WritingExists
<1>3. WriteQueue(s, q) = f[k]
  BY DEF WriteQueue, Writing, Then
<1> HIDE DEF f
<1>4. 0 \in T
  <2>1. 0 \in 0 .. k
    BY <1>1
  <2>2. f[0] = Succeeded(s)
    BY <1>1, <1>2, <2>1, WritingEntries DEF WritesNext
  <2> QED
    BY <2>1, <2>2, KeptSame DEF Succeeded
<1>5. ASSUME NEW n \in 0 .. k - 1, n \in T PROVE n + 1 \in T
  <2> DEFINE r == f[n]
             m == q[n + 1]
  <2>1. /\ n + 1 \in 0 .. k /\ n + 1 \in 1 .. k
        /\ (n + 1) - 1 = n /\ n + 1 # 0
    BY <1>1
  <2>2. m \in Frame /\ m.track = AudioTrackNumber
    BY <1>1, <2>1, ElementOfSeq DEF AudioOnly
  <2>3. f[n + 1] = IF r.ok THEN WriteQueued(r.seg, m) ELSE r
    <3>1. WritesNext(s, q, f, n + 1)
      <4> HIDE DEF k
      <4> QED
        BY <1>1, <1>2, <2>1, WritingEntries
    <3> QED
      BY <2>1, <3>1 DEF WritesNext
  <2>4. Kept(s, r) /\ r.seg.frames = s.frames
    BY <1>5
  <2> HIDE DEF r, m
  <2>5. /\ Kept(r.seg, WriteQueued(r.seg, m))
        /\ WriteQueued(r.seg, m).seg.frames = r.seg.frames
    <3>1. Good(r.seg) /\ Len(r.seg.clusters) # 0
      BY <2>4 DEF Kept
    <3> QED
      BY <2>2, <3>1, WriteQueuedKept
  <2>6. Kept(s, WriteQueued(r.seg, m))
    BY <2>4, <2>5, KeptTwice
  <2>7. Kept(s, f[n + 1]) /\ f[n + 1].seg.frames = s.frames
    BY <2>3, <2>4, <2>5, <2>6
  <2> QED
    BY <2>1, <2>7
<1>6. \A n \in 0 .. k : n \in T
  <2> HIDE DEF k, T
  <2> QED
    BY <1>1, <1>4, <1>5, UpTo
<1> QED
  BY <1>1, <1>3, <1>6

(* The types of a good segment.                                             *)
LEMMA GoodTypes ==
  ASSUME NEW s, Good(s)
  PROVE  /\ s \in SegmentType /\ s.clusters \in Seq(Cluster)
         /\ s.frames \in Seq(Frame) /\ s.cues \in Seq(Cue)
         /\ Len(s.clusters) \in Nat /\ Len(s.frames) \in Nat
         /\ DOMAIN s.frames = 1 .. Len(s.frames)
         /\ s.clusters = <<>> <=> Len(s.clusters) = 0
         /\ s.frames = <<>> <=> Len(s.frames) = 0
         /\ AudioOnly(s.frames)
<1>1. /\ s \in SegmentType /\ s.clusters \in Seq(Cluster)
      /\ s.frames \in Seq(Frame) /\ s.cues \in Seq(Cue)
      /\ AudioOnly(s.frames)
  BY DEF Good, SegmentType
<1> QED
  BY <1>1, LenProperties, EmptySeq

(* What is left of the queue after some of it was written.                 *)
LEMMA QueueCut ==
  ASSUME NEW s, Good(s), NEW fs \in Seq(Frame), AudioOnly(fs)
  PROVE  Kept(s, Succeeded([s EXCEPT !.frames = fs, !.freed = 0]))
<1> DEFINE t == [s EXCEPT !.frames = fs, !.freed = 0]
<1>1. /\ t \in SegmentType /\ t.clusters = s.clusters /\ t.cues = s.cues
      /\ t.frames = fs
      /\ t.new_cuepoint <=> s.new_cuepoint
  <2>1. s \in SegmentType
    BY GoodTypes
  <2> QED
    BY <2>1 DEF SegmentType
<1> HIDE DEF t
<1>2. QueueSet(s, t)
  BY <1>1 DEF QueueSet
<1>3. Kept(s, Succeeded(t))
  BY <1>2, KeptQueue
<1> QED
  BY <1>3 DEF t

(* WriteFramesAll keeps the segment good.                                   *)
LEMMA WriteFramesAllKept ==
  ASSUME NEW s, Good(s)
  PROVE  Kept(s, WriteFramesAll(s))
<1> DEFINE r == WriteQueue(s, s.frames)
           u == [r.seg EXCEPT !.frames = <<>>, !.freed = 0]
<1>1. CASE s.frames = <<>>
  BY <1>1, KeptSame DEF WriteFramesAll
<1>2. CASE s.frames # <<>> /\ s.clusters = <<>>
  BY <1>2, KeptSame DEF WriteFramesAll
<1>3. CASE s.frames # <<>> /\ s.clusters # <<>> /\ s.freed > 0
  BY <1>3, KeptSame DEF WriteFramesAll
<1>4. CASE s.frames # <<>> /\ s.clusters # <<>> /\ ~(s.freed > 0)
  <2>1. Kept(s, r)
    BY <1>4, GoodTypes, WriteQueueKept
  <2>2. Kept(r.seg, Succeeded(u))
    <3>1. Good(r.seg)
      BY <2>1 DEF Kept
    <3>2. <<>> \in Seq(Frame) /\ AudioOnly(<<>>)
      BY EmptySeq DEF AudioOnly
    <3> HIDE DEF r
    <3> QED
      BY <3>1, <3>2, QueueCut
  <2>3. WriteFramesAll(s) = IF r.ok THEN Succeeded(u) ELSE r
    BY <1>4 DEF WriteFramesAll, Then
  <2> HIDE DEF r, u
  <2>4. Kept(s, Succeeded(u))
    BY <2>1, <2>2, KeptTwice
  <2> QED
    BY <2>1, <2>3, <2>4
<1> QED
  BY <1>1, <1>2, <1>3, <1>4

(* A part of the queue has no video either.                                 *)
LEMMA AudioPart ==
  ASSUME NEW fs \in Seq(Frame), AudioOnly(fs), NEW a \in 1 .. Len(fs) + 1,
         NEW b \in 0 .. Len(fs), b >= a - 1
  PROVE  SubSeq(fs, a, b) \in Seq(Frame) /\ AudioOnly(SubSeq(fs, a, b))
<1> DEFINE g == SubSeq(fs, a, b)
<1>1. Len(fs) \in Nat /\ DOMAIN fs = 1 .. Len(fs)
  BY LenProperties
<1>2. g \in Seq(Frame)
  BY <1>1
<1>3. Len(g) = b - a + 1 /\ \A i \in 1 .. b - a + 1 : g[i] = fs[a + i - 1]
  BY <1>1
<1>4. DOMAIN g = 1 .. b - a + 1
  BY <1>2, <1>3, LenProperties
<1>5. \A i \in 1 .. b - a + 1 : a + i - 1 \in 1 .. Len(fs)
  BY <1>1
<1> HIDE DEF g
<1>6. AudioOnly(g)
  BY <1>1, <1>3, <1>4, <1>5 DEF AudioOnly
<1> QED
  BY <1>2, <1>6 DEF g

(* WriteFramesLessThan keeps the segment good.                              *)
LEMMA WriteFramesLessThanKept ==
  ASSUME NEW s, Good(s), NEW timestamp \in Int
  PROVE  Kept(s, WriteFramesLessThan(s, timestamp))
<1> DEFINE n == Len(s.frames)
           later == {i \in 2 .. n : s.frames[i].timestamp > timestamp}
           shift == (IF later = {} THEN n ELSE Min(later) - 1) - 1
           written == SubSeq(s.frames, 1, shift)
           r == WriteQueue(s, written)
           left == SubSeq(r.seg.frames, shift + 1, Len(r.seg.frames))
           u == [r.seg EXCEPT !.frames = left, !.freed = 0]
<1>1. CASE s.frames = <<>> \/ s.clusters = <<>>
  <2>1. WriteFramesLessThan(s, timestamp) = Succeeded(s)
    BY <1>1 DEF WriteFramesLessThan
  <2> QED
    BY <2>1, KeptSame
<1>2. CASE s.frames # <<>> /\ s.clusters # <<>> /\ s.freed > 0
  <2>1. \/ WriteFramesLessThan(s, timestamp) = Succeeded(s)
        \/ WriteFramesLessThan(s, timestamp) = Crashed(s)
    BY <1>2 DEF WriteFramesLessThan
  <2> QED
    BY <2>1, KeptSame
<1>3. CASE s.frames # <<>> /\ s.clusters # <<>> /\ ~(s.freed > 0)
  <2>1. WriteFramesLessThan(s, timestamp) = IF r.ok THEN Succeeded(u) ELSE r
    BY <1>3 DEF WriteFramesLessThan, Then
  <2>2. n \in Nat /\ n # 0
    BY <1>3, GoodTypes
  <2>3. shift \in 0 .. n - 1
    <3>1. CASE later = {}
      BY <2>2, <3>1
    <3>2. CASE later # {}
      <4>1. later \subseteq Nat
        OBVIOUS
      <4>2. Min(later) \in later
        <5> HIDE DEF later
        <5> QED
          BY <3>2, <4>1, MinIn
      <4> QED
        BY <2>2, <3>2, <4>2
    <3> QED
      BY <3>1, <3>2
  <2> HIDE DEF shift
  <2>4. s.frames \in Seq(Frame) /\ AudioOnly(s.frames) /\ DOMAIN s.frames = 1 .. n
    BY GoodTypes
  <2>5. written \in Seq(Frame) /\ AudioOnly(written)
    <3> DEFINE fs == s.frames
    <3>1. fs \in Seq(Frame) /\ AudioOnly(fs) /\ Len(fs) = n
      BY <2>4
    <3> HIDE DEF fs, n
    <3> QED
      BY <2>2, <2>3, <3>1, AudioPart DEF fs
  <2>6. Kept(s, r) /\ r.seg.frames = s.frames
    <3> HIDE DEF written
    <3> QED
      BY <1>3, <2>5, GoodTypes, WriteQueueKept
  <2>7. left \in Seq(Frame) /\ AudioOnly(left)
    <3> DEFINE fs == r.seg.frames
    <3>1. fs \in Seq(Frame) /\ AudioOnly(fs) /\ Len(fs) = n
      BY <2>4, <2>6
    <3>2. shift + 1 \in 1 .. n
      BY <2>2, <2>3
    <3> HIDE DEF fs, n, r
    <3> QED
      BY <2>2, <3>1, <3>2, AudioPart DEF fs
  <2> HIDE DEF r, left
  <2>8. Kept(r.seg, Succeeded(u))
    <3>1. Good(r.seg)
      BY <2>6 DEF Kept
    <3> QED
      BY <2>7, <3>1, QueueCut
  <2> HIDE DEF u
  <2>9. Kept(s, Succeeded(u))
    BY <2>6, <2>8, KeptTwice
  <2> QED
    BY <2>1, <2>6, <2>9
<1> QED
  BY <1>1, <1>2, <1>3

-----------------------------------------------------------------------------
(* Making clusters. *)

(* A cluster closed keeps the segment good.                                 *)
LEMMA FinalizeClusterKept ==
  ASSUME NEW s, Good(s)
  PROVE  /\ Kept(s, FinalizeCluster(s))
         /\ FinalizeCluster(s).seg.frames = s.frames
<1> DEFINE n == Len(s.clusters)
           c == s.clusters[n]
           d == [c EXCEPT !.finalized = TRUE]
           ds == [s.clusters EXCEPT ![n] = d]
           t == [s EXCEPT !.clusters = ds]
<1>1. CASE n = 0 \/ c.finalized \/ ~c.header_written
  <2>1. FinalizeCluster(s) \in {Succeeded(s), Refused(s)}
    BY <1>1, GoodTypes DEF FinalizeCluster
  <2>2. Succeeded(s).seg = s /\ Refused(s).seg = s
    BY DEF Succeeded, Refused
  <2>3. CASE FinalizeCluster(s) = Succeeded(s)
    BY <2>2, <2>3, KeptSame
  <2>4. CASE FinalizeCluster(s) = Refused(s)
    BY <2>2, <2>4, KeptSame
  <2> QED
    BY <2>1, <2>3, <2>4
<1>2. CASE ~(n = 0 \/ c.finalized \/ ~c.header_written)
  <2>1. FinalizeCluster(s) = Succeeded([s EXCEPT !.clusters[n].finalized = TRUE])
    BY <1>2, GoodTypes DEF FinalizeCluster
  <2>2. [s EXCEPT !.clusters[n].finalized = TRUE] = t
    OBVIOUS
  <2>3. s.clusters \in Seq(Cluster) /\ n \in 1 .. n /\ c \in Cluster
        /\ s \in SegmentType
    <3>1. s.clusters \in Seq(Cluster) /\ n \in Nat /\ s \in SegmentType
      BY GoodTypes
    <3> QED
      BY <1>2, <3>1, ElementOfSeq
  <2>4. /\ d \in Cluster /\ d.blocks = c.blocks
        /\ d.position_for_cues = c.position_for_cues
    <3> HIDE DEF c
    <3> QED
      BY <2>3 DEF Cluster
  <2>5. LastReplaced(s.clusters, ds, d)
    BY <1>2, <2>3, <2>4 DEF LastReplaced
  <2>6. ds \in Seq(Cluster) /\ Len(ds) = n /\ ds[n] = d /\ n \in Nat
    <3> HIDE DEF d, ds
    <3> QED
      BY <2>5, ReplacedLast
  <2>7. /\ SameButClusters(s, t) /\ t.clusters = ds /\ t.cues = s.cues
        /\ t.new_cuepoint <=> s.new_cuepoint
    BY <2>3, <2>6, WithClusters
  <2>8. /\ AudioOnly(s.frames) /\ KeysFirst(s.clusters) /\ KeyFirst(c)
        /\ Cued(s.clusters, s.cues) /\ Positioned(s.clusters)
        /\ s.new_cuepoint => Video(c) = {}
        /\ ~s.new_cuepoint => Video(c) # {}
    <3>1. s.clusters # <<>> /\ n \in DOMAIN s.clusters
      BY <1>2, <2>3, LenProperties
    <3> QED
      BY <3>1 DEF Good, KeysFirst, Pending
  <2> HIDE DEF t, ds, d, c
  <2>9. Video(d) = Video(c) /\ CueOf(d) = CueOf(c) /\ KeyFirst(d)
    BY <2>4, <2>8 DEF Video, CueOf, KeyFirst
  <2>10. Positioned(ds) /\ KeysFirst(ds) /\ Cued(ds, s.cues)
    BY <2>4, <2>5, <2>8, <2>9, ReplacedPositioned, ReplacedKeys,
       ReplacedSameCues DEF c
  <2>11. Pending(ds, t.new_cuepoint)
    BY <2>6, <2>7, <2>8, <2>9 DEF Pending
  <2>12. Good(t)
    BY <2>7, <2>8, <2>10, <2>11 DEF Good, SameButClusters
  <2>13. Kept(s, Succeeded(t)) /\ t.frames = s.frames
    BY <2>6, <2>7, <2>12 DEF Kept, Succeeded, SameButClusters
  <2>14. FinalizeCluster(s) = Succeeded(t) /\ Succeeded(t).seg = t
    BY <2>1, <2>2 DEF Succeeded
  <2> QED
    BY <2>13, <2>14
<1> QED
  BY <1>1, <1>2

(* A new cluster: where it starts, and that it is the last.                *)
Opened(s, t, e) ==
  /\ Good(t)
  /\ e \in Cluster /\ e.blocks = <<>>
  /\ ~e.header_written /\ ~e.finalized
  /\ t.clusters = Append(s.clusters, e)
  /\ t.new_cuepoint
  /\ SameButClusters(s, t)

NewCluster(s, timestamp) ==
  LET queued == IF s.frames = <<>> THEN timestamp ELSE s.frames[1].timestamp
      first == IF Timecode(queued) < Timecode(timestamp)
               THEN Timecode(queued) ELSE Timecode(timestamp)
  IN [timecode |-> first, finalized |-> FALSE, header_written |-> FALSE,
      position_for_cues |-> MaxOffset(s), blocks |-> <<>>]

(* A cluster opened is the last, at the end of the file, and a cue is due.  *)
LEMMA OpenClusterOpens ==
  ASSUME NEW s, Good(s), NEW timestamp \in Int
  PROVE  Opened(s, OpenCluster(s, timestamp), NewCluster(s, timestamp))
<1> DEFINE queued == IF s.frames = <<>> THEN timestamp ELSE s.frames[1].timestamp
           first == IF Timecode(queued) < Timecode(timestamp)
                    THEN Timecode(queued) ELSE Timecode(timestamp)
           e == NewCluster(s, timestamp)
           ds == Append(s.clusters, e)
           t == [s EXCEPT !.new_cuepoint = TRUE, !.clusters = ds]
<1>1. OpenCluster(s, timestamp) = t
  BY DEF OpenCluster, NewCluster
<1>2. queued \in Int
  <2>1. s.frames # <<>> => s.frames[1] \in Frame
    <3>1. s.frames # <<>> => 1 \in 1 .. Len(s.frames)
      BY GoodTypes
    <3> QED
      BY <3>1, GoodTypes, ElementOfSeq
  <2> QED
    BY <2>1 DEF Frame
<1>3. first \in Int
  <2> HIDE DEF queued
  <2> QED
    BY <1>2, TimecodeType
<1>4. MaxOffset(s) \in Nat
  BY GoodTypes, OffsetType
<1>5. /\ e \in Cluster /\ e.blocks = <<>>
      /\ ~e.header_written /\ ~e.finalized
      /\ e.position_for_cues = MaxOffset(s)
  <2>1. <<>> \in Seq(Frame)
    BY EmptySeq
  <2> HIDE DEF first
  <2>2. e = [timecode |-> first, finalized |-> FALSE, header_written |-> FALSE,
             position_for_cues |-> MaxOffset(s), blocks |-> <<>>]
    BY DEF NewCluster, first
  <2> HIDE DEF e
  <2> QED
    BY <1>3, <1>4, <2>1, <2>2 DEF Cluster
<1> HIDE DEF e
<1>6. MaxOffset(s) = MaxOffset([clusters |-> s.clusters])
  BY DEF MaxOffset
<1>7. /\ ds \in Seq(Cluster)
      /\ Len(ds) = Len(s.clusters) + 1
      /\ ds[Len(s.clusters) + 1] = e
      /\ Video(e) = {}
      /\ Positioned(ds) /\ KeysFirst(ds) /\ Cued(ds, s.cues)
  <2>1. /\ Positioned(s.clusters) /\ KeysFirst(s.clusters)
        /\ Cued(s.clusters, s.cues) /\ s.clusters \in Seq(Cluster)
    BY GoodTypes DEF Good
  <2>2. e.position_for_cues = MaxOffset([clusters |-> s.clusters])
    BY <1>5, <1>6
  <2> QED
    BY <1>5, <2>1, <2>2, ClusterAdded
<1> HIDE DEF ds
<1>8. SameButClusters(s, t) /\ t.clusters = ds /\ t.cues = s.cues
      /\ t.new_cuepoint
  <2>1. s \in SegmentType
    BY GoodTypes
  <2> QED
    BY <1>7, <2>1 DEF SegmentType, SameButClusters
<1> HIDE DEF t
<1>9. Pending(ds, t.new_cuepoint)
  BY <1>7, <1>8 DEF Pending
<1>10. Good(t)
  BY <1>7, <1>8, <1>9 DEF Good, SameButClusters
<1> QED
  BY <1>1, <1>5, <1>8, <1>10 DEF Opened, ds, e

(* What the methods that may make a cluster promise when they succeed.     *)
Ready(r) ==
  /\ r.ok \in BOOLEAN
  /\ Good(r.seg)
  /\ r.ok => Len(r.seg.clusters) # 0

(* Behind MakeNewCluster a key frame finds no video in the last cluster.    *)
LEMMA MakeNewClusterReady ==
  ASSUME NEW s, Good(s), NEW timestamp \in Int
  PROVE  /\ Ready(MakeNewCluster(s, timestamp))
         /\ MakeNewCluster(s, timestamp).ok =>
              MakeNewCluster(s, timestamp).seg.new_cuepoint
<1> DEFINE r == WriteFramesLessThan(s, timestamp)
           q == FinalizeCluster(r.seg)
           u == q.seg
           o == OpenCluster(u, timestamp)
           m == MakeNewCluster(s, timestamp)
<1>1. m = IF r.ok THEN IF q.ok THEN IF u.freed > 0 THEN Crashed(u)
                                                   ELSE Succeeded(o)
                               ELSE q
                  ELSE r
  BY DEF MakeNewCluster, Then
<1>2. r.ok \in BOOLEAN /\ Good(r.seg)
  BY WriteFramesLessThanKept DEF Kept
<1> HIDE DEF r, m
<1>3. q.ok \in BOOLEAN /\ Good(u)
  BY <1>2, FinalizeClusterKept DEF Kept
<1> HIDE DEF q, u
<1>4. CASE ~r.ok
  BY <1>1, <1>2, <1>4 DEF Ready, m
<1>5. CASE r.ok /\ ~q.ok
  BY <1>1, <1>3, <1>5 DEF Ready, m, u
<1>6. CASE r.ok /\ q.ok /\ u.freed > 0
  <2>1. Good(Crashed(u).seg) /\ ~Crashed(u).ok
    BY <1>3, KeptSame DEF Kept, Crashed, Refused
  <2>2. m = Crashed(u)
    BY <1>1, <1>6
  <2> QED
    BY <2>1, <2>2 DEF Ready, m, Crashed, Refused
<1>7. CASE r.ok /\ q.ok /\ ~(u.freed > 0)
  <2> DEFINE e == NewCluster(u, timestamp)
  <2>1. Opened(u, o, e)
    BY <1>3, OpenClusterOpens
  <2> HIDE DEF o, e
  <2>2. Good(o) /\ o.new_cuepoint /\ Len(o.clusters) = Len(u.clusters) + 1
    BY <1>3, <2>1, GoodTypes, AppendProperties DEF Opened
  <2>3. Len(o.clusters) # 0
    BY <1>3, <2>2, GoodTypes
  <2>4. m = Succeeded(o)
    BY <1>1, <1>7
  <2> QED
    BY <2>2, <2>3, <2>4 DEF Ready, m, Succeeded
<1> QED
  BY <1>2, <1>3, <1>4, <1>5, <1>6, <1>7

-----------------------------------------------------------------------------
(* The public interface. *)

(* What TestFrame answers, and what its answer 0 means.                     *)
LEMMA TestFrameResult ==
  ASSUME NEW s, Good(s), NEW f \in Frame
  PROVE  /\ TestFrame(s, f) \in {-1, 0, 1, 2}
         /\ TestFrame(s, f) = 0 => /\ Len(s.clusters) # 0
                                   /\ ~IsVideoKey(f)
                                   /\ ~s.force_new_cluster
                                   /\ Timecode(f.timestamp)
                                        - Last(s.clusters).timecode
                                        \in 0 .. MaxBlockTimecode
<1> DEFINE c == Last(s.clusters)
           delta == Timecode(f.timestamp) - c.timecode
           result == TestFrame(s, f)
<1>1. CASE s.force_new_cluster
  BY <1>1 DEF TestFrame
<1>2. CASE ~s.force_new_cluster /\ s.clusters = <<>>
  BY <1>2 DEF TestFrame
<1>3. CASE ~s.force_new_cluster /\ s.clusters # <<>>
  <2>1. Len(s.clusters) # 0
    BY <1>3, GoodTypes
  <2>2. c \in Cluster
    <3>1. Len(s.clusters) \in 1 .. Len(s.clusters)
      BY <2>1, GoodTypes
    <3> QED
      BY <3>1, GoodTypes, ElementOfSeq DEF Last
  <2>3. delta \in Int
    <3>1. Timecode(f.timestamp) \in Int
      BY TimecodeType DEF Frame
    <3>2. c.timecode \in Int
      BY <2>2 DEF Cluster
    <3> QED
      BY <3>1, <3>2
  <2>4. result = CASE delta < 0 -> -1
                   [] delta > MaxBlockTimecode -> 2
                   [] delta \in 0 .. MaxBlockTimecode ->
                        IF \/ f.is_key /\ f.track = VideoTrackNumber
                           \/ delta * TimecodeScale >= MaxClusterDuration
                        THEN 1 ELSE 0
    BY <1>3 DEF TestFrame
  <2> HIDE DEF delta, result
  <2>5. CASE delta < 0
    <3>1. result = -1
      BY <2>3, <2>4, <2>5, SegmentAssumption
    <3> QED
      BY <3>1 DEF result
  <2>6. CASE delta > MaxBlockTimecode
    <3>1. result = 2
      BY <2>3, <2>4, <2>6, SegmentAssumption
    <3> QED
      BY <3>1 DEF result
  <2>7. CASE delta \in 0 .. MaxBlockTimecode
    <3>1. result = IF \/ f.is_key /\ f.track = VideoTrackNumber
                      \/ delta * TimecodeScale >= MaxClusterDuration
                   THEN 1 ELSE 0
      BY <2>3, <2>4, <2>7, SegmentAssumption
    <3> QED
      BY <1>3, <2>1, <2>7, <3>1 DEF result, delta, IsVideoKey
  <2> QED
    BY <2>3, <2>5, <2>6, <2>7, SegmentAssumption
<1> QED
  BY <1>1, <1>2, <1>3

(* A turn, and the whole of DoNewClusterProcessing, leave a cluster to     *)
(* write to, and one without video for a key frame.                        *)
ReadyFor(f, r) ==
  /\ Ready(r)
  /\ r.ok /\ IsVideoKey(f) => r.seg.new_cuepoint

(* One turn of the loop, and what it leaves for a key frame.                *)
LEMMA TurnReady ==
  ASSUME NEW s, Good(s), NEW f \in Frame
  PROVE  ReadyFor(f, Turn(s, f))
<1> DEFINE result == TestFrame(s, f)
           t == [s EXCEPT !.force_new_cluster = FALSE]
           made == IF result > 0 THEN MakeNewCluster(t, f.timestamp)
                                 ELSE Succeeded(t)
           all == WriteFramesAll(made.seg)
           r == Turn(s, f)
<1>1. result \in {-1, 0, 1, 2}
  BY TestFrameResult
<1>2. Good(t) /\ t.clusters = s.clusters
  <2>1. /\ t \in SegmentType /\ t.clusters = s.clusters /\ t.cues = s.cues
        /\ t.frames = s.frames
        /\ t.new_cuepoint <=> s.new_cuepoint
    <3>1. s \in SegmentType
      BY GoodTypes
    <3> QED
      BY <3>1 DEF SegmentType
  <2>2. AudioOnly(t.frames)
    BY <2>1, GoodTypes
  <2> HIDE DEF t
  <2> QED
    BY <2>1, <2>2, GoodSame
<1>3. f.timestamp \in Int
  BY DEF Frame
<1>4. /\ result < 0 => r.ok = FALSE /\ r.seg = s
      /\ ~(result < 0) /\ made.ok => r.ok = all.ok /\ r.seg = all.seg
      /\ ~(result < 0) /\ ~made.ok => r.ok = made.ok /\ r.seg = made.seg
  <2> HIDE DEF all, made, result
  <2>1. r = LET done == IF result < 0 THEN Refused(s)
                        ELSE IF made.ok THEN all ELSE made
            IN [ok |-> done.ok, seg |-> done.seg, again |-> result = 2]
    BY DEF Turn, Then, all, made, result
  <2> HIDE DEF r
  <2> QED
    BY <2>1 DEF Refused
<1> HIDE DEF r, t
<1>5. /\ made.ok \in BOOLEAN /\ Good(made.seg)
      /\ ~(result < 0) /\ made.ok =>
           /\ Len(made.seg.clusters) # 0
           /\ IsVideoKey(f) => made.seg.new_cuepoint
  <2>1. CASE result > 0
    <3>1. made = MakeNewCluster(t, f.timestamp)
      BY <2>1
    <3> QED
      BY <1>2, <1>3, <3>1, MakeNewClusterReady DEF Ready
  <2>2. CASE ~(result > 0)
    <3>1. made.ok = TRUE /\ made.seg = t
      BY <2>2 DEF Succeeded
    <3>2. ~(result < 0) => result = 0
      BY <1>1, <2>2
    <3>3. ~(result < 0) => Len(t.clusters) # 0 /\ ~IsVideoKey(f)
      BY <1>2, <3>2, TestFrameResult
    <3> HIDE DEF result, made
    <3> QED
      BY <1>2, <3>1, <3>3
  <2> QED
    BY <2>1, <2>2
<1> HIDE DEF made, result
<1>6. Kept(made.seg, all)
  BY <1>5, WriteFramesAllKept
<1> HIDE DEF all
<1>7. CASE result < 0
  BY <1>4, <1>7 DEF ReadyFor, Ready, r
<1>8. CASE ~(result < 0) /\ ~made.ok
  BY <1>4, <1>5, <1>8 DEF ReadyFor, Ready, r
<1>9. CASE ~(result < 0) /\ made.ok
  BY <1>4, <1>5, <1>6, <1>9 DEF ReadyFor, Ready, Kept, r
<1> QED
  BY <1>7, <1>8, <1>9

(* The same of all its turns.                                               *)
LEMMA DoNewClusterReady ==
  ASSUME NEW s, Good(s), NEW f \in Frame
  PROVE  ReadyFor(f, DoNewClusterProcessing(s, f))
<1> DEFINE Again(r) == IF r.ok /\ r.again THEN Turn(r.seg, f) ELSE r
           r1 == Turn(s, f)
           r2 == Again(r1)
           r3 == Again(r2)
<1>1. DoNewClusterProcessing(s, f) = r3
  BY DEF DoNewClusterProcessing
<1>2. ReadyFor(f, r1)
  BY TurnReady
<1> HIDE DEF r1
<1>3. ReadyFor(f, r2)
  <2>1. Good(r1.seg)
    BY <1>2 DEF ReadyFor, Ready
  <2> QED
    BY <1>2, <2>1, TurnReady
<1> HIDE DEF r2
<1>4. ReadyFor(f, r3)
  <2>1. Good(r2.seg)
    BY <1>3 DEF ReadyFor, Ready
  <2> QED
    BY <1>3, <2>1, TurnReady
<1> QED
  BY <1>1, <1>4

(* The header and its seek entries change nothing else.                    *)
HeaderOnly(s, t) ==
  /\ Good(t)
  /\ t.clusters = s.clusters /\ t.frames = s.frames /\ t.freed = s.freed
  /\ t.last_timestamp = s.last_timestamp
  /\ t.force_new_cluster <=> s.force_new_cluster
  /\ t.new_cuepoint <=> s.new_cuepoint

(* The members that only the header sets.                                   *)
LEMMA HeaderSet ==
  ASSUME NEW s, Good(s), NEW k \in Nat, NEW b \in BOOLEAN
  PROVE  HeaderOnly(s, [s EXCEPT !.seeks = k, !.header_written = b])
<1> DEFINE t == [s EXCEPT !.seeks = k, !.header_written = b]
<1>1. /\ t \in SegmentType /\ t.clusters = s.clusters /\ t.cues = s.cues
      /\ t.frames = s.frames /\ t.freed = s.freed
      /\ t.last_timestamp = s.last_timestamp
      /\ t.force_new_cluster <=> s.force_new_cluster
      /\ t.new_cuepoint <=> s.new_cuepoint
  <2>1. s \in SegmentType
    BY GoodTypes
  <2> QED
    BY <2>1 DEF SegmentType
<1>2. AudioOnly(t.frames)
  BY <1>1, GoodTypes
<1> HIDE DEF t
<1>3. Good(t)
  BY <1>1, <1>2, GoodSame
<1> QED
  BY <1>1, <1>3 DEF HeaderOnly, t

(* The header changes nothing else.                                         *)
LEMMA CheckHeaderInfoGood ==
  ASSUME NEW s, Good(s)
  PROVE  LET q == CheckHeaderInfo(s) IN
         q.ok \in BOOLEAN /\ HeaderOnly(s, q.seg)
<1> DEFINE q == CheckHeaderInfo(s)
           used == s.seeks + 2 + Extras
<1>1. used \in Nat /\ kSeekEntryCount \in Nat /\ s.header_written \in BOOLEAN
  <2>1. s.seeks \in Nat /\ s.header_written \in BOOLEAN
    BY GoodTypes DEF SegmentType
  <2> QED
    BY <2>1, SegmentAssumption DEF kSeekEntryCount
<1>2. CASE s.header_written
  <2>1. q = Succeeded(s)
    BY <1>2 DEF CheckHeaderInfo
  <2>2. HeaderOnly(s, s)
    BY DEF HeaderOnly
  <2> QED
    BY <2>1, <2>2 DEF Succeeded
<1>3. CASE ~s.header_written /\ used > kSeekEntryCount
  <2> DEFINE t == [s EXCEPT !.seeks = kSeekEntryCount]
  <2>1. q = Refused(t)
    BY <1>1, <1>3 DEF CheckHeaderInfo
  <2>2. t = [s EXCEPT !.seeks = kSeekEntryCount, !.header_written = FALSE]
    <3>1. s \in SegmentType /\ s.header_written = FALSE
      BY <1>1, <1>3, GoodTypes
    <3> QED
      BY <3>1 DEF SegmentType
  <2>3. HeaderOnly(s, t)
    BY <1>1, <2>2, HeaderSet
  <2> HIDE DEF t, q
  <2> QED
    BY <2>1, <2>3 DEF Refused, q
<1>4. CASE ~s.header_written /\ used = kSeekEntryCount
  <2> DEFINE t == [s EXCEPT !.seeks = used, !.header_written = TRUE]
  <2> HIDE DEF used
  <2>1. q = Refused(t)
    BY <1>4 DEF CheckHeaderInfo, used, kSeekEntryCount
  <2>2. HeaderOnly(s, t)
    BY <1>1, HeaderSet
  <2> HIDE DEF t, q
  <2> QED
    BY <2>1, <2>2 DEF Refused, q
<1>5. CASE ~s.header_written /\ used < kSeekEntryCount
  <2> DEFINE k == used + 1
             t == [s EXCEPT !.seeks = k, !.header_written = TRUE]
  <2>1. q = Succeeded(t)
    BY <1>1, <1>5 DEF CheckHeaderInfo
  <2>2. k \in Nat
    BY <1>1
  <2> HIDE DEF k
  <2>3. HeaderOnly(s, t)
    BY <2>2, HeaderSet
  <2> HIDE DEF t, q
  <2> QED
    BY <2>1, <2>3 DEF Succeeded, q
<1> HIDE DEF used
<1> QED
  BY <1>1, <1>2, <1>3, <1>4, <1>5

(* A cluster forced is only noted.                                          *)
LEMMA ForceNewClusterGood ==
  ASSUME NEW s, Good(s)
  PROVE  Good(ForceNewClusterOnNextFrame(s))
<1> DEFINE t == [s EXCEPT !.force_new_cluster = TRUE]
<1>1. /\ t \in SegmentType /\ t.clusters = s.clusters /\ t.cues = s.cues
      /\ t.frames = s.frames
      /\ t.new_cuepoint <=> s.new_cuepoint
  <2>1. s \in SegmentType
    BY GoodTypes
  <2> QED
    BY <2>1 DEF SegmentType
<1>2. AudioOnly(t.frames)
  BY <1>1, GoodTypes
<1>3. ForceNewClusterOnNextFrame(s) = t
  BY DEF ForceNewClusterOnNextFrame
<1> HIDE DEF t
<1> QED
  BY <1>1, <1>2, <1>3, GoodSame

(* AddGenericFrame keeps the segment good, taken or refused.                *)
LEMMA AddGenericFrameGood ==
  ASSUME NEW s, Good(s), NEW f \in Frame
  PROVE  AddGenericFrame(s, f).ok \in BOOLEAN /\ Good(AddGenericFrame(s, f).seg)
<1> DEFINE h == CheckHeaderInfo(s)
           t == h.seg
           inOrder == /\ f.timestamp >= t.last_timestamp
                      /\ f.track \in {VideoTrackNumber, AudioTrackNumber}
           r == DoNewClusterProcessing(t, f)
           q == WriteBlock(r.seg, f)
           v == [q.seg EXCEPT !.last_timestamp = f.timestamp]
<1>1. h.ok \in BOOLEAN /\ Good(t)
  BY CheckHeaderInfoGood DEF HeaderOnly
<1> HIDE DEF h, t
<1>0. CASE ~h.ok
  <2>1. AddGenericFrame(s, f) = h
    BY <1>0 DEF AddGenericFrame, Then, h
  <2> QED
    BY <1>1, <2>1 DEF t
<1>2. CASE h.ok /\ ~inOrder
  <2>1. AddGenericFrame(s, f) = Refused(t)
    BY <1>2 DEF AddGenericFrame, Then, h, t
  <2> QED
    BY <1>1, <2>1 DEF Refused
<1>3. CASE h.ok /\ inOrder /\ f.track = AudioTrackNumber /\ ~t.force_new_cluster
  <2> DEFINE fs == Append(t.frames, f)
             u == [t EXCEPT !.frames = fs]
  <2>1. AddGenericFrame(s, f) = Succeeded(u)
    BY <1>3 DEF AddGenericFrame, Then, h, t
  <2>2. fs \in Seq(Frame) /\ AudioOnly(fs)
    <3>1. /\ fs \in Seq(Frame) /\ Len(fs) = Len(t.frames) + 1
          /\ \A i \in 1 .. Len(t.frames) : fs[i] = t.frames[i]
          /\ fs[Len(t.frames) + 1] = f
      BY <1>1, GoodTypes, AppendProperties
    <3>2. Len(t.frames) \in Nat /\ DOMAIN t.frames = 1 .. Len(t.frames)
          /\ AudioOnly(t.frames)
      BY <1>1, GoodTypes
    <3> HIDE DEF fs
    <3>3. DOMAIN fs = 1 .. Len(t.frames) + 1
      BY <3>1, LenProperties
    <3> QED
      BY <1>3, <3>1, <3>2, <3>3 DEF AudioOnly
  <2> HIDE DEF fs
  <2>3. /\ u \in SegmentType /\ u.clusters = t.clusters /\ u.cues = t.cues
        /\ u.frames = fs
        /\ u.new_cuepoint <=> t.new_cuepoint
    <3>1. t \in SegmentType
      BY <1>1, GoodTypes
    <3> QED
      BY <2>2, <3>1 DEF SegmentType
  <2> HIDE DEF u
  <2>4. Good(u)
    BY <1>1, <2>2, <2>3, GoodSame
  <2> QED
    BY <2>1, <2>4 DEF Succeeded
<1>4. CASE h.ok /\ inOrder /\ ~(f.track = AudioTrackNumber /\ ~t.force_new_cluster)
  <2>1. AddGenericFrame(s, f) =
          IF r.ok THEN IF q.ok THEN Succeeded(v) ELSE q ELSE r
    BY <1>4 DEF AddGenericFrame, Then, h, t
  <2>2. ReadyFor(f, r)
    BY <1>1, DoNewClusterReady
  <2> HIDE DEF r
  <2>3. CASE ~r.ok
    BY <2>1, <2>2, <2>3 DEF ReadyFor, Ready
  <2>4. CASE r.ok
    <3>1. Good(r.seg) /\ Len(r.seg.clusters) # 0
          /\ (IsVideoKey(f) => r.seg.new_cuepoint)
      BY <2>2, <2>4 DEF ReadyFor, Ready
    <3>2. q.ok \in BOOLEAN /\ Good(q.seg)
      BY <3>1, WriteBlockResult DEF BlockWritten
    <3> HIDE DEF q
    <3>3. Good(v)
      <4>1. /\ v \in SegmentType /\ v.clusters = q.seg.clusters
            /\ v.cues = q.seg.cues /\ v.frames = q.seg.frames
            /\ v.new_cuepoint <=> q.seg.new_cuepoint
        <5>1. q.seg \in SegmentType /\ f.timestamp \in Int
          BY <3>2, GoodTypes DEF Frame
        <5> QED
          BY <5>1 DEF SegmentType
      <4>2. AudioOnly(v.frames)
        BY <3>2, <4>1, GoodTypes
      <4> HIDE DEF v
      <4> QED
        BY <3>2, <4>1, <4>2, GoodSame
    <3> HIDE DEF v
    <3>4. CASE q.ok
      BY <2>1, <2>4, <3>3, <3>4 DEF Succeeded
    <3>5. CASE ~q.ok
      BY <2>1, <2>4, <3>2, <3>5
    <3> QED
      BY <3>4, <3>5
  <2> QED
    BY <2>3, <2>4
<1> QED
  BY <1>0, <1>1, <1>2, <1>3, <1>4

(* A seek entry changes nothing else.                                       *)
LEMMA SeekAdded ==
  ASSUME NEW s, Good(s)
  PROVE  HeaderOnly(s, [s EXCEPT !.seeks = @ + 1])
<1> DEFINE k == s.seeks + 1
           t == [s EXCEPT !.seeks = k]
<1>1. s \in SegmentType
  BY GoodTypes
<1>2. k \in Nat
  BY <1>1 DEF SegmentType
<1>3. /\ t \in SegmentType /\ t.clusters = s.clusters /\ t.cues = s.cues
      /\ t.frames = s.frames /\ t.freed = s.freed
      /\ t.last_timestamp = s.last_timestamp
      /\ t.force_new_cluster <=> s.force_new_cluster
      /\ t.new_cuepoint <=> s.new_cuepoint
  <2> HIDE DEF k
  <2> QED
    BY <1>1, <1>2 DEF SegmentType
<1>4. AudioOnly(t.frames)
  BY <1>3, GoodTypes
<1>5. Good(t)
  <2> HIDE DEF t
  <2> QED
    BY <1>3, <1>4, GoodSame
<1>6. [s EXCEPT !.seeks = @ + 1] = t
  OBVIOUS
<1> HIDE DEF t
<1>7. HeaderOnly(s, t)
  BY <1>3, <1>5 DEF HeaderOnly
<1> QED
  BY <1>6, <1>7

(* Finalize keeps the segment good, done or failed.                         *)
LEMMA FinalizeGood ==
  ASSUME NEW s, Good(s), NEW sizeMatches \in BOOLEAN
  PROVE  /\ Finalize(s, sizeMatches).ok \in BOOLEAN
         /\ Good(Finalize(s, sizeMatches).seg)
<1> DEFINE r == WriteFramesAll(s)
           q == FinalizeCluster(r.seg)
           u == q.seg
           v == [u EXCEPT !.seeks = @ + 1]
           x == Finalize(s, sizeMatches)
<1>1. r.ok \in BOOLEAN /\ Good(r.seg)
  BY WriteFramesAllKept DEF Kept
<1>2. /\ ~r.ok => x = r
      /\ r.ok /\ ~q.ok => x = q
      /\ r.ok /\ q.ok => x \in {Refused(u), Refused(v), Succeeded(v)}
  <2> HIDE DEF v, r
  <2>1. x = IF r.ok
            THEN IF q.ok
                 THEN CASE u.seeks >= kSeekEntryCount -> Refused(u)
                        [] u.seeks < kSeekEntryCount /\ ~u.header_written
                             /\ ~sizeMatches -> Refused(v)
                        [] OTHER -> Succeeded(v)
                 ELSE q
            ELSE r
    BY DEF Finalize, Then, v, r
  <2> HIDE DEF q
  <2> QED
    BY <2>1, <1>1, GoodTypes DEF kSeekEntryCount, SegmentType
<1> HIDE DEF r, x
<1>3. q.ok \in BOOLEAN /\ Good(u)
  BY <1>1, FinalizeClusterKept DEF Kept
<1> HIDE DEF q, u
<1>4. Good(v)
  BY <1>3, SeekAdded DEF HeaderOnly
<1> HIDE DEF v
<1>5. CASE r.ok /\ q.ok
  <2>1. x \in {Refused(u), Refused(v), Succeeded(v)}
    BY <1>2, <1>5
  <2>2. x.ok \in BOOLEAN /\ (x.seg = u \/ x.seg = v)
    <3>1. CASE x = Refused(u)
      BY <3>1 DEF Refused
    <3>2. CASE x = Refused(v)
      BY <3>2 DEF Refused
    <3>3. CASE x = Succeeded(v)
      BY <3>3 DEF Succeeded
    <3> QED
      BY <2>1, <3>1, <3>2, <3>3
  <2> QED
    BY <1>3, <1>4, <2>2 DEF x
<1> QED
  BY <1>1, <1>2, <1>3, <1>5 DEF x, u

-----------------------------------------------------------------------------
(* The clusters of a file, and the blocks of all of them. *)

(* Only the last cluster may still be written to.                          *)
Closed(cs) == \A i \in DOMAIN cs : i # Len(cs) => cs[i].finalized

AllFinalized(cs) == \A i \in DOMAIN cs : cs[i].finalized

(* The blocks of each cluster, and all of them.                            *)
Parts(cs) == [i \in DOMAIN cs |-> cs[i].blocks]

Content(s) == FlattenSeq(Parts(s.clusters))

(* The blocks of each cluster.                                              *)
LEMMA PartsType ==
  ASSUME NEW cs \in Seq(Cluster)
  PROVE  /\ Parts(cs) \in Seq(Seq(Frame)) /\ Len(Parts(cs)) = Len(cs)
         /\ \A i \in 1 .. Len(cs) : Parts(cs)[i] = cs[i].blocks
<1> DEFINE n == Len(cs)
<1>1. n \in Nat /\ DOMAIN cs = 1 .. n
  BY LenProperties
<1>2. \A i \in 1 .. n : cs[i].blocks \in Seq(Frame)
  <2>1. \A i \in 1 .. n : cs[i] \in Cluster
    BY <1>1, ElementOfSeq
  <2> QED
    BY <2>1 DEF Cluster
<1> HIDE DEF n
<1>3. Parts(cs) = [i \in 1 .. n |-> cs[i].blocks]
  BY <1>1 DEF Parts
<1>4. Parts(cs) \in [1 .. n -> Seq(Frame)]
  BY <1>2, <1>3
<1>5. Parts(cs) \in Seq(Seq(Frame)) /\ Len(Parts(cs)) = n
  BY <1>1, <1>4, SeqDef, LenProperties
<1> QED
  BY <1>3, <1>5 DEF n

(* The file is a sequence of frames.                                        *)
LEMMA ContentType ==
  ASSUME NEW s, s.clusters \in Seq(Cluster)
  PROVE  Content(s) \in Seq(Frame)
BY PartsType, FlattenType DEF Content

(* A new cluster leaves the file as it is.                                 *)
LEMMA ContentOpened ==
  ASSUME NEW cs \in Seq(Cluster), NEW e \in Cluster, e.blocks = <<>>
  PROVE  FlattenSeq(Parts(Append(cs, e))) = FlattenSeq(Parts(cs))
<1> DEFINE ds == Append(cs, e)
           n == Len(cs)
<1>1. /\ n \in Nat /\ ds \in Seq(Cluster) /\ Len(ds) = n + 1
      /\ \A i \in 1 .. n : ds[i] = cs[i]
      /\ ds[n + 1] = e
  BY LenProperties, AppendProperties
<1> HIDE DEF ds
<1>2. /\ Parts(ds) \in Seq(Seq(Frame)) /\ Len(Parts(ds)) = n + 1
      /\ \A i \in 1 .. n + 1 : Parts(ds)[i] = ds[i].blocks
  BY <1>1, PartsType
<1>3. /\ Parts(cs) \in Seq(Seq(Frame)) /\ Len(Parts(cs)) = n
      /\ \A i \in 1 .. n : Parts(cs)[i] = cs[i].blocks
  BY PartsType
<1>4. Parts(ds) = Append(Parts(cs), <<>>)
  <2> DEFINE q == Append(Parts(cs), <<>>)
  <2>1. <<>> \in Seq(Frame)
    BY EmptySeq
  <2> HIDE DEF n
  <2>2. /\ q \in Seq(Seq(Frame)) /\ Len(q) = n + 1
        /\ \A i \in 1 .. n : q[i] = Parts(cs)[i]
        /\ q[n + 1] = <<>>
    BY <1>3, <2>1, AppendProperties
  <2> HIDE DEF q
  <2>3. \A i \in 1 .. n + 1 : q[i] = Parts(ds)[i]
    <3> SUFFICES ASSUME NEW i \in 1 .. n + 1 PROVE q[i] = Parts(ds)[i]
      OBVIOUS
    <3>1. CASE i = n + 1
      BY <1>1, <1>2, <2>2, <3>1
    <3>2. CASE i # n + 1
      <4>1. i \in 1 .. n
        BY <1>1, <3>2
      <4> QED
        BY <1>1, <1>2, <1>3, <2>2, <4>1
    <3> QED
      BY <3>1, <3>2
  <2>4. q = Parts(ds)
    BY <1>2, <2>2, <2>3, SeqEqual
  <2> QED
    BY <2>4 DEF q
<1> QED
  BY <1>3, <1>4, FlattenOpen DEF ds

(* A flag of the last cluster does too, and a block comes last.            *)
LEMMA ContentFlagged ==
  ASSUME NEW cs, NEW ds, NEW d, LastReplaced(cs, ds, d),
         d.blocks = cs[Len(cs)].blocks
  PROVE  FlattenSeq(Parts(ds)) = FlattenSeq(Parts(cs))
<1>1. \A i \in 1 .. Len(cs) : ds[i].blocks = cs[i].blocks
  BY ReplacedLast
<1>2. DOMAIN ds = 1 .. Len(cs) /\ DOMAIN cs = 1 .. Len(cs)
  BY ReplacedLast
<1>3. Parts(ds) = Parts(cs)
  BY <1>1, <1>2 DEF Parts
<1> QED
  BY <1>3

(* A block in the last cluster is the last of the file.                     *)
LEMMA ContentAdded ==
  ASSUME NEW cs, NEW ds, NEW d, LastReplaced(cs, ds, d), NEW f \in Frame,
         d.blocks = Append(cs[Len(cs)].blocks, f)
  PROVE  FlattenSeq(Parts(ds)) = Append(FlattenSeq(Parts(cs)), f)
<1> DEFINE n == Len(cs)
<1>1. /\ cs \in Seq(Cluster) /\ n # 0
      /\ ds \in Seq(Cluster) /\ n \in Nat /\ Len(ds) = n /\ n \in 1 .. n
      /\ ds[n] = d
      /\ \A i \in 1 .. n : i # n => ds[i] = cs[i]
  BY ReplacedLast DEF LastReplaced
<1>2. /\ Parts(ds) \in Seq(Seq(Frame)) /\ Len(Parts(ds)) = n
      /\ \A i \in 1 .. n : Parts(ds)[i] = ds[i].blocks
  BY <1>1, PartsType
<1>3. /\ Parts(cs) \in Seq(Seq(Frame)) /\ Len(Parts(cs)) = n
      /\ \A i \in 1 .. n : Parts(cs)[i] = cs[i].blocks
  BY <1>1, PartsType
<1>4. Parts(ds)[n] = Append(Parts(cs)[n], f)
  BY <1>1, <1>2, <1>3
<1> HIDE DEF n
<1>5. \A i \in 1 .. n - 1 : Parts(ds)[i] = Parts(cs)[i]
  <2>1. \A i \in 1 .. n - 1 : i \in 1 .. n /\ i # n
    BY <1>1
  <2> QED
    BY <1>1, <1>2, <1>3, <2>1
<1> DEFINE p == Parts(cs)
           q == Parts(ds)
<1> HIDE DEF p, q
<1>6. /\ p \in Seq(Seq(Frame)) /\ q \in Seq(Seq(Frame))
      /\ Len(p) = n /\ Len(q) = n /\ n # 0
      /\ q[n] = Append(p[n], f)
      /\ \A i \in 1 .. n - 1 : q[i] = p[i]
  BY <1>1, <1>2, <1>3, <1>4, <1>5 DEF p, q
<1>7. FlattenSeq(q) = Append(FlattenSeq(p), f)
  BY <1>6, FlattenAdd
<1> QED
  BY <1>7 DEF p, q

-----------------------------------------------------------------------------
(* Timecodes. *)

(* What is shorter than a cluster lies within Span.                         *)
LEMMA SpanType ==
  /\ Span \in Nat
  /\ \A d \in Nat : d * TimecodeScale < MaxClusterDuration => d <= Span
<1> DEFINE k == TimecodeScale
           m == MaxClusterDuration - 1
           q == m \div k
<1>1. k \in Nat \ {0} /\ m \in Nat /\ MaxClusterDuration = m + 1
  BY SegmentAssumption
<1> HIDE DEF k, m
<1>2. q \in Int /\ q * k <= m /\ m < q * k + k
  BY <1>1
<1> HIDE DEF q
<1>3. q >= 0
  BY <1>1, <1>2
<1>4. ASSUME NEW d \in Nat, d * k < m + 1 PROVE d <= q
  BY <1>1, <1>2, <1>4
<1> QED
  BY <1>1, <1>2, <1>3, <1>4 DEF Span, q, k, m

(* Later times have later timecodes.                                        *)
LEMMA TimecodeMonotone ==
  ASSUME NEW a \in Int, NEW b \in Int, a <= b
  PROVE  /\ Timecode(a) \in Int /\ Timecode(b) \in Int
         /\ Timecode(a) <= Timecode(b)
<1>1. Timecode(a) \in Int /\ Timecode(b) \in Int
  BY TimecodeType
<1>2. TimecodeScale \in Nat \ {0}
  BY SegmentAssumption
<1>3. a \div TimecodeScale <= b \div TimecodeScale
  BY <1>2
<1> QED
  BY <1>1, <1>3 DEF Timecode
=============================================================================
