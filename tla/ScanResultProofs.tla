-------------------------- MODULE ScanResultProofs --------------------------
(***************************************************************************)
(* What the scan store gives back, for any number of matches, any size of  *)
(* record, any frame span, any size of the write buffer and any shards: a  *)
(* result that is not flagged reads back the matches it was given, in      *)
(* order, one by one and in batches.                                       *)
(***************************************************************************)
EXTENDS ScanResult, SequenceTheorems, WellFoundedInduction, TLAPS

-----------------------------------------------------------------------------
(* Induction and recursion over the naturals, for sets and functions. *)
LEMMA EveryNatural ==
    ASSUME NEW S, 0 \in S, \A n \in Nat : n \in S => n + 1 \in S
    PROVE  \A n \in Nat : n \in S
<1> DEFINE T == {n \in Nat : n \notin S}
<1>1. ASSUME T # {} PROVE FALSE
  <2>1. PICK x \in T : \A y \in T : <<y, x>> \notin OpToRel(<, Nat)
    <3>1. IsWellFoundedOn(OpToRel(<, Nat), Nat)
      BY NatLessThanWellFounded
    <3>2. T \subseteq Nat
      OBVIOUS
    <3> HIDE DEF T
    <3> QED BY <1>1, <3>1, <3>2, WFMin
  <2>2. x \in Nat /\ x \notin S /\ x # 0
    OBVIOUS
  <2>3. x - 1 \in Nat /\ x - 1 < x /\ (x - 1) + 1 = x
    BY <2>2
  <2>4. x - 1 \in S
    BY <2>1, <2>2, <2>3 DEF OpToRel
  <2> QED BY <2>2, <2>3, <2>4
<1> QED BY <1>1

\* A function on m..m+n given by its first value and a step.
Stepwise(f, V, v0, G, m, n) ==
    /\ f \in [m..m + n -> V]
    /\ \A k \in m..m + n : f[k] = IF k = m THEN v0 ELSE G[<<k, f[k - 1]>>]

LEMMA Recursion ==
    ASSUME NEW V, NEW v0 \in V, NEW G \in [Nat \X V -> V], NEW m \in Nat, NEW n \in Nat
    PROVE  \E f : Stepwise(f, V, v0, G, m, n)
<1> DEFINE Good(f, i) == \A k \in m..m + i : f[k] = IF k = m THEN v0 ELSE G[<<k, f[k - 1]>>]
           S == {i \in Nat : \E f \in [m..m + i -> V] : Good(f, i)}
<1>1. 0 \in S
  <2> DEFINE f == [k \in m..m + 0 |-> v0]
  <2>1. f \in [m..m + 0 -> V] /\ Good(f, 0)
    OBVIOUS
  <2> HIDE DEF f, Good
  <2> QED BY <2>1
<1>2. ASSUME NEW i \in Nat, i \in S PROVE i + 1 \in S
  <2>1. PICK f \in [m..m + i -> V] : Good(f, i)
    BY <1>2
  <2> DEFINE g == [k \in m..m + (i + 1) |-> IF k = m + (i + 1) THEN G[<<k, f[m + i]>>] ELSE f[k]]
  <2>2. f[m + i] \in V /\ <<m + (i + 1), f[m + i]>> \in Nat \X V
    OBVIOUS
  <2>3. g \in [m..m + (i + 1) -> V]
    BY <2>2
  <2>4. ASSUME NEW k \in m..m + (i + 1) PROVE g[k] = IF k = m THEN v0 ELSE G[<<k, g[k - 1]>>]
    <3>1. CASE k = m + (i + 1)
      <4>1. k # m /\ k - 1 = m + i /\ k - 1 \in m..m + (i + 1) /\ k - 1 # m + (i + 1)
        BY <3>1
      <4>2. g[k - 1] = f[m + i] /\ g[k] = G[<<k, f[m + i]>>]
        BY <3>1, <4>1
      <4> QED BY <4>1, <4>2
    <3>2. CASE k # m + (i + 1) /\ k # m
      <4>1. k \in m..m + i /\ k - 1 \in m..m + (i + 1) /\ k - 1 # m + (i + 1)
        BY <3>2
      <4>2. g[k] = f[k] /\ g[k - 1] = f[k - 1]
        BY <3>2, <4>1
      <4> QED BY <2>1, <3>2, <4>1, <4>2
    <3>3. CASE k # m + (i + 1) /\ k = m
      <4>1. m \in m..m + i
        OBVIOUS
      <4>2. f[m] = v0
        BY <2>1, <4>1
      <4> QED BY <3>3, <4>2
    <3> QED BY <3>1, <3>2, <3>3
  <2>5. Good(g, i + 1)
    BY <2>4
  <2> HIDE DEF g, Good
  <2>6. \E h \in [m..m + (i + 1) -> V] : Good(h, i + 1)
    BY <2>3, <2>5
  <2>7. i + 1 \in Nat
    OBVIOUS
  <2> QED BY <2>6, <2>7
<1> HIDE DEF S
<1>3. n \in S
  BY <1>1, <1>2, EveryNatural
<1> QED BY <1>3 DEF S, Stepwise

-----------------------------------------------------------------------------
(* Running sums. *)

\* A sequence of frames or shards, as far as its counts go.
Counted(s) == Len(s) \in Nat /\ \A k \in 1..Len(s) : s[k].count \in Nat

LEMMA StartsDef ==
    ASSUME NEW s, Counted(s)
    PROVE  /\ Starts(s) \in [1..Len(s) + 1 -> Nat]
           /\ Starts(s)[1] = 0
           /\ \A k \in 1..Len(s) : Starts(s)[k + 1] = Starts(s)[k] + s[k].count
<1> DEFINE Sum(f) == [k \in 1..Len(s) + 1 |-> IF k = 1 THEN 0 ELSE f[k - 1] + s[k - 1].count]
           G == [p \in Nat \X Nat |-> IF p[1] - 1 \in 1..Len(s) THEN p[2] + s[p[1] - 1].count ELSE 0]
<1>0. Len(s) \in Nat /\ \A k \in 1..Len(s) : s[k].count \in Nat
  BY DEF Counted
<1>1. \E f : f = Sum(f)
  <2>1. G \in [Nat \X Nat -> Nat]
    BY <1>0
  <2>2. PICK f : Stepwise(f, Nat, 0, G, 1, Len(s))
    <3>1. 0 \in Nat /\ 1 \in Nat /\ Len(s) \in Nat
      BY <1>0
    <3> HIDE DEF G
    <3>2. G \in [Nat \X Nat -> Nat]
      BY <2>1
    <3> QED BY <3>1, <3>2, Recursion
  <2>3. ASSUME NEW k \in 1..Len(s) + 1, k # 1 PROVE G[<<k, f[k - 1]>>] = f[k - 1] + s[k - 1].count
    <3>1. k - 1 \in 1..Len(s) /\ f[k - 1] \in Nat /\ <<k, f[k - 1]>> \in Nat \X Nat
      BY <1>0, <2>2, <2>3 DEF Stepwise
    <3> QED BY <3>1
  <2>4. ASSUME NEW k \in 1..Len(s) + 1 PROVE f[k] = IF k = 1 THEN 0 ELSE f[k - 1] + s[k - 1].count
    <3> HIDE DEF G
    <3>1. k \in 1..1 + Len(s)
      BY <1>0, <2>4
    <3>2. f[k] = IF k = 1 THEN 0 ELSE G[<<k, f[k - 1]>>]
      BY <2>2, <3>1 DEF Stepwise
    <3> QED BY <2>3, <3>2
  <2>5. f = Sum(f)
    BY <1>0, <2>2, <2>4 DEF Stepwise
  <2> QED BY <2>5
<1> DEFINE f == CHOOSE f : f = Sum(f)
<1>2. f = Sum(f)
  <2> HIDE DEF Sum
  <2> QED BY <1>1
<1>3. Starts(s) = f
  BY DEF Starts
<1> HIDE DEF f
<1>4. \A k \in 1..Len(s) + 1 : f[k] = IF k = 1 THEN 0 ELSE f[k - 1] + s[k - 1].count
  BY <1>2
<1>5. f[1] = 0
  BY <1>0, <1>4
<1>6. ASSUME NEW k \in 1..Len(s) PROVE f[k + 1] = f[k] + s[k].count
  <2>1. k + 1 \in 1..Len(s) + 1 /\ k + 1 # 1 /\ (k + 1) - 1 = k
    BY <1>0
  <2> QED BY <1>4, <2>1
<1>7. \A k \in 1..Len(s) + 1 : f[k] \in Nat
  <2> DEFINE S == {i \in Nat : i + 1 <= Len(s) + 1 => f[i + 1] \in Nat}
  <2>1. 0 \in S
    BY <1>5
  <2>2. ASSUME NEW i \in Nat, i \in S PROVE i + 1 \in S
    <3>1. CASE i + 1 <= Len(s)
      <4>1. i + 1 \in 1..Len(s) /\ f[i + 1] \in Nat /\ s[i + 1].count \in Nat
        BY <1>0, <2>2, <3>1
      <4> QED BY <1>6, <4>1
    <3>2. CASE ~(i + 1 <= Len(s))
      BY <1>0, <3>2
    <3> QED BY <3>1, <3>2
  <2> HIDE DEF S
  <2>3. \A i \in Nat : i \in S
    BY <2>1, <2>2, EveryNatural
  <2>4. ASSUME NEW k \in 1..Len(s) + 1 PROVE f[k] \in Nat
    <3>1. k - 1 \in Nat /\ (k - 1) + 1 = k /\ k <= Len(s) + 1
      BY <1>0
    <3> QED BY <2>3, <3>1 DEF S
  <2> QED BY <2>4
<1>8. f \in [1..Len(s) + 1 -> Nat]
  <2>1. f = [k \in 1..Len(s) + 1 |-> f[k]]
    BY <1>2
  <2> QED BY <1>7, <2>1
<1> QED BY <1>3, <1>5, <1>6, <1>8

LEMMA StartsAppend ==
    ASSUME NEW T, NEW s \in Seq(T), NEW x \in T, Counted(s), x.count \in Nat
    PROVE  /\ Counted(Append(s, x))
           /\ \A k \in 1..Len(s) + 1 : Starts(Append(s, x))[k] = Starts(s)[k]
           /\ Starts(Append(s, x))[Len(s) + 2] = Starts(s)[Len(s) + 1] + x.count
<1> DEFINE sx == Append(s, x)
           A == Starts(sx)
           B == Starts(s)
<1>1. /\ Len(s) \in Nat /\ Len(sx) = Len(s) + 1
      /\ \A k \in 1..Len(s) : sx[k] = s[k]
      /\ sx[Len(s) + 1] = x
  BY AppendProperties, LenProperties
<1>2. Counted(sx)
  <2>1. ASSUME NEW k \in 1..Len(sx) PROVE sx[k].count \in Nat
    <3>1. CASE k \in 1..Len(s)
      BY <1>1, <3>1 DEF Counted
    <3>2. CASE k = Len(s) + 1
      BY <1>1, <3>2
    <3> QED BY <1>1, <3>1, <3>2
  <2> HIDE DEF sx
  <2> QED BY <1>1, <2>1 DEF Counted
<1> HIDE DEF sx
<1>3. A[1] = 0 /\ \A k \in 1..Len(s) + 1 : A[k + 1] = A[k] + sx[k].count
  BY <1>1, <1>2, StartsDef
<1>4. B[1] = 0 /\ \A k \in 1..Len(s) : B[k + 1] = B[k] + s[k].count
  BY StartsDef
<1> HIDE DEF A, B
<1>5. \A k \in 1..Len(s) + 1 : A[k] = B[k]
  <2> DEFINE S == {i \in Nat : i <= Len(s) => A[i + 1] = B[i + 1]}
  <2>1. 0 \in S
    BY <1>3, <1>4
  <2>2. ASSUME NEW i \in Nat, i \in S PROVE i + 1 \in S
    <3>1. CASE i + 1 <= Len(s)
      <4>1. i + 1 \in 1..Len(s) /\ i + 1 \in 1..Len(s) + 1 /\ A[i + 1] = B[i + 1]
        BY <1>1, <2>2, <3>1
      <4>2. A[(i + 1) + 1] = B[(i + 1) + 1]
        BY <1>1, <1>3, <1>4, <4>1
      <4> QED BY <4>2
    <3>2. CASE ~(i + 1 <= Len(s))
      BY <3>2
    <3> QED BY <3>1, <3>2
  <2> HIDE DEF S
  <2>3. \A i \in Nat : i \in S
    BY <2>1, <2>2, EveryNatural
  <2>4. ASSUME NEW k \in 1..Len(s) + 1 PROVE A[k] = B[k]
    <3>1. k - 1 \in Nat /\ (k - 1) + 1 = k /\ k - 1 <= Len(s)
      BY <1>1
    <3> QED BY <2>3, <3>1 DEF S
  <2> QED BY <2>4
<1>6. A[Len(s) + 2] = B[Len(s) + 1] + x.count
  <2>1. Len(s) + 1 \in 1..Len(s) + 1 /\ (Len(s) + 1) + 1 = Len(s) + 2
    BY <1>1
  <2> QED BY <1>1, <1>3, <1>5, <2>1
<1> QED BY <1>2, <1>5, <1>6 DEF A, B, sx

LEMMA StartsBelow ==
    ASSUME NEW s, Counted(s), NEW k \in 1..Len(s)
    PROVE  Starts(s)[k] + s[k].count <= Starts(s)[Len(s) + 1]
<1> DEFINE A == Starts(s)
           S == {j \in Nat : k + 1 + j <= Len(s) + 1 => A[k + 1] <= A[k + 1 + j]}
<1>1. /\ Len(s) \in Nat /\ A \in [1..Len(s) + 1 -> Nat]
      /\ \A i \in 1..Len(s) : A[i + 1] = A[i] + s[i].count /\ s[i].count \in Nat
  BY StartsDef DEF Counted
<1> HIDE DEF A
<1>2. 0 \in S
  BY <1>1
<1>3. ASSUME NEW j \in Nat, j \in S PROVE j + 1 \in S
  <2>1. SUFFICES ASSUME k + 1 + (j + 1) <= Len(s) + 1 PROVE A[k + 1] <= A[k + 1 + (j + 1)]
    OBVIOUS
  <2>2. k + 1 + j \in 1..Len(s) /\ k + 1 + j \in 1..Len(s) + 1 /\ k + 1 \in 1..Len(s) + 1
        /\ k + 1 + (j + 1) = (k + 1 + j) + 1
    BY <1>1, <2>1
  <2>3. A[k + 1 + (j + 1)] = A[k + 1 + j] + s[k + 1 + j].count /\ s[k + 1 + j].count \in Nat
    BY <1>1, <2>2
  <2>4. A[k + 1] <= A[k + 1 + j] /\ A[k + 1] \in Nat /\ A[k + 1 + j] \in Nat
    <3>1. k + 1 + j <= Len(s) + 1
      BY <1>1, <2>1
    <3>2. A[k + 1] <= A[k + 1 + j]
      BY <1>3, <3>1
    <3> QED BY <1>1, <2>2, <3>2
  <2> QED BY <2>3, <2>4
<1> HIDE DEF S
<1>4. Len(s) - k \in Nat /\ Len(s) - k \in S
  <2>1. Len(s) - k \in Nat
    BY <1>1
  <2> QED BY <1>2, <1>3, <2>1, EveryNatural
<1>5. k + 1 + (Len(s) - k) = Len(s) + 1 /\ k + 1 + (Len(s) - k) <= Len(s) + 1
  BY <1>1
<1>6. A[k + 1] <= A[Len(s) + 1]
  BY <1>4, <1>5 DEF S
<1> QED BY <1>1, <1>6 DEF A

\* An index below the total is in some part.
LEMMA PartFound ==
    ASSUME NEW s, Counted(s), NEW i \in Nat, i < Starts(s)[Len(s) + 1]
    PROVE  \E k \in 1..Len(s) : k \in PartAt(s, i)
<1> DEFINE A == Starts(s)
           S == {j \in Nat : j <= Len(s) /\ i < A[j + 1] =>
                               \E k \in 1..Len(s) : A[k] <= i /\ i < A[k] + s[k].count}
<1>1. /\ Len(s) \in Nat /\ A[1] = 0 /\ A \in [1..Len(s) + 1 -> Nat]
      /\ \A k \in 1..Len(s) : A[k + 1] = A[k] + s[k].count /\ s[k].count \in Nat
  BY StartsDef DEF Counted
<1> HIDE DEF A
<1>2. 0 \in S
  BY <1>1
<1>3. ASSUME NEW j \in Nat, j \in S PROVE j + 1 \in S
  <2>1. SUFFICES ASSUME j + 1 <= Len(s), i < A[(j + 1) + 1]
                 PROVE  \E k \in 1..Len(s) : A[k] <= i /\ i < A[k] + s[k].count
    OBVIOUS
  <2>2. j + 1 \in 1..Len(s) /\ A[j + 1] \in Nat /\ j <= Len(s)
    BY <1>1, <2>1
  <2>3. CASE i < A[j + 1]
    BY <1>3, <2>2, <2>3
  <2>4. CASE A[j + 1] <= i
    BY <1>1, <2>1, <2>2, <2>4
  <2> QED BY <2>2, <2>3, <2>4
<1> HIDE DEF S
<1>4. Len(s) \in S
  BY <1>1, <1>2, <1>3, EveryNatural
<1>5. Len(s) <= Len(s)
  BY <1>1
<1> QED BY <1>4, <1>5 DEF S, A, PartAt
-----------------------------------------------------------------------------
(* Streams of records of one size. *)

Sized(B, size) == {v \in Seq(B) : Len(v) = size}

\* The stream holds the records and nothing else.
Laid(stream, recs, size) ==
    /\ Len(stream) = Len(recs) * size
    /\ \A i \in 1..Len(recs) : SubSeq(stream, (i - 1) * size + 1, i * size) = recs[i]

LEMMA Times ==
    ASSUME NEW i \in Nat, NEW j \in Nat, NEW n \in Nat, i <= j
    PROVE  /\ i * n \in Nat /\ j * n \in Nat
           /\ (i + 1) * n = i * n + n
           /\ i * n <= j * n
<1>1. i * n \in Nat /\ (i + 1) * n = i * n + n /\ j * n \in Nat
  OBVIOUS
<1>2. j - i \in Nat /\ (j - i) * n \in Nat
  OBVIOUS
<1>3. j * n = i * n + (j - i) * n
  BY <1>2
<1> QED BY <1>1, <1>2, <1>3

LEMMA LaidEmpty ==
    ASSUME NEW size \in Nat
    PROVE  Laid(<<>>, <<>>, size)
<1>1. Len(<<>>) = 0 /\ 0 * size = 0
  OBVIOUS
<1> QED BY <1>1 DEF Laid

LEMMA LaidAppend ==
    ASSUME NEW B, NEW size \in Nat \ {0}, NEW stream \in Seq(B), NEW recs \in Seq(Sized(B, size)),
           NEW rec \in Sized(B, size), Laid(stream, recs, size)
    PROVE  Laid(stream \o rec, Append(recs, rec), size)
<1> DEFINE n == Len(recs)
           all == Append(recs, rec)
<1>1. n \in Nat /\ Len(all) = n + 1 /\ all[n + 1] = rec /\ \A i \in 1..n : all[i] = recs[i]
  BY AppendProperties, LenProperties
<1>2. rec \in Seq(B) /\ Len(rec) = size
  BY DEF Sized
<1>3. /\ n * size \in Nat /\ (n + 1) * size = n * size + size
      /\ Len(stream) = n * size
  <2>1. n <= n
    BY <1>1
  <2> QED BY <1>1, <2>1, Times DEF Laid
<1>4. Len(stream \o rec) = Len(all) * size
  <2>1. Len(stream \o rec) = n * size + size
    BY <1>2, <1>3, ConcatProperties
  <2> QED BY <1>1, <1>3, <2>1
<1>5. ASSUME NEW i \in 1..n + 1
      PROVE  SubSeq(stream \o rec, (i - 1) * size + 1, i * size) = all[i]
  <2>1. CASE i \in 1..n
    <3>1. i - 1 \in Nat /\ i \in Nat /\ i - 1 <= i /\ i <= n /\ (i - 1) + 1 = i
      BY <1>1, <2>1
    <3>2. (i - 1) * size \in Nat /\ i * size = (i - 1) * size + size
      BY <3>1, Times
    <3>3. i * size <= n * size /\ i * size \in Nat
      BY <1>1, <3>1, Times
    <3>4. (i - 1) * size + 1 \in 1..Len(stream) /\ i * size \in 1..Len(stream)
      BY <1>3, <3>2, <3>3
    <3>5. SubSeq(stream \o rec, (i - 1) * size + 1, i * size)
            = SubSeq(stream, (i - 1) * size + 1, i * size)
      BY <1>2, <3>4, SubSeqOfConcat1
    <3> QED BY <1>1, <2>1, <3>5 DEF Laid
  <2>2. CASE i = n + 1
    <3>1. i - 1 = n /\ i * size = n * size + size
      BY <1>1, <1>3, <2>2
    <3>2. /\ n * size + 1 \in Len(stream) + 1..Len(stream) + Len(rec)
          /\ n * size + size \in Len(stream) + 1..Len(stream) + Len(rec)
          /\ n * size + 1 - Len(stream) = 1 /\ n * size + size - Len(stream) = size
      BY <1>2, <1>3
    <3>3. SubSeq(stream \o rec, n * size + 1, n * size + size) = SubSeq(rec, 1, size)
      BY <1>2, <3>2, SubSeqOfConcat2
    <3>4. SubSeq(rec, 1, size) = rec
      BY <1>2, SubSeqFull
    <3> QED BY <1>1, <2>2, <3>1, <3>3, <3>4
  <2>3. i \in 1..n \/ i = n + 1
    BY <1>1
  <2> QED BY <2>1, <2>2, <2>3
<1> HIDE DEF all
<1>6. Laid(stream \o rec, all, size)
  BY <1>1, <1>4, <1>5 DEF Laid
<1> QED BY <1>6 DEF all

LEMMA LaidRecord ==
    ASSUME NEW B, NEW size \in Nat \ {0}, NEW stream \in Seq(B), NEW recs \in Seq(Sized(B, size)),
           Laid(stream, recs, size), NEW i \in Nat, i < Len(recs)
    PROVE  /\ Record(stream, i, size) = recs[i + 1]
           /\ Len(Record(stream, i, size)) = size
           /\ RecordOrZero(stream, i, size) = recs[i + 1]
<1>1. Len(recs) \in Nat /\ i + 1 \in 1..Len(recs) /\ (i + 1) - 1 = i
  BY LenProperties
<1>2. (i + 1) * size <= Len(recs) * size /\ (i + 1) * size \in Nat /\ Len(recs) * size \in Nat
  BY <1>1, Times
<1>3. Record(stream, i, size) = SubSeq(stream, i * size + 1, (i + 1) * size)
  <2>1. (IF (i + 1) * size < Len(stream) THEN (i + 1) * size ELSE Len(stream)) = (i + 1) * size
    BY <1>2 DEF Laid
  <2> QED BY <2>1 DEF Record
<1>4. SubSeq(stream, i * size + 1, (i + 1) * size) = recs[i + 1]
  BY <1>1 DEF Laid
<1>5. recs[i + 1] \in Sized(B, size)
  BY <1>1, ElementOfSeq
<1>6. Len(recs[i + 1]) = size
  BY <1>5 DEF Sized
<1> QED BY <1>3, <1>4, <1>6 DEF RecordOrZero
-----------------------------------------------------------------------------
(* What a writer holds. *)

Frame == [base : Nat, count : Nat]

Record3(B, size) == [addr : Nat, val : Sized(B, size), first : Sized(B, size)]

\* The part of a match a writer keeps.
FirstsOf(ms) == [i \in 1..Len(ms) |-> ms[i].first]
ValuesOf(ms) == [i \in 1..Len(ms) |-> ms[i].val]

\* A writer with all its streams open, its buffers filled and flushed together.
Writer(B) ==
    [offs : Seq(Nat), vals : Seq(B), firsts : Seq(B), framesFile : Seq(Frame),
     obuf : Seq(Nat), vbuf : Seq(B), fbuf : Seq(B), frames : Seq(Frame), open : Frame,
     count : Nat, storeFirst : BOOLEAN, fds : SUBSET Streams, err : BOOLEAN]

Sound(r, B) ==
    /\ r \in Writer(B)
    /\ r.fds = (IF r.storeFirst THEN {"offsets", "values", "firsts"} ELSE {"offsets", "values"})
    /\ r.obuf = <<>> <=> r.vbuf = <<>>
    /\ IF r.storeFirst THEN r.obuf = <<>> <=> r.fbuf = <<>> ELSE r.fbuf = <<>> /\ r.firsts = <<>>

\* The bases the frames give to the offsets os are those of the matches: the closed
\* frames cover the first matches, the open one the rest.
Framed(frames, base, count, os, ms) ==
    /\ Counted(frames)
    /\ Starts(frames)[Len(frames) + 1] + count = Len(ms)
    /\ \A k \in 1..Len(frames) : \A i \in Nat :
          Starts(frames)[k] <= i /\ i < Starts(frames)[k] + frames[k].count
             => frames[k].base + os[i + 1] = ms[i + 1].addr
    /\ \A i \in Nat : Starts(frames)[Len(frames) + 1] <= i /\ i < Len(ms)
             => base <= ms[i + 1].addr /\ base + os[i + 1] = ms[i + 1].addr

\* Streams and buffers together hold the matches ms.
Exact(r, ms, size) ==
    /\ r.count = Len(ms)
    /\ Len(r.offs \o r.obuf) = Len(ms)
    /\ Laid(r.vals \o r.vbuf, ValuesOf(ms), size)
    /\ r.storeFirst => Laid(r.firsts \o r.fbuf, FirstsOf(ms), size)
    /\ Framed(r.frames, r.open.base, r.open.count, r.offs \o r.obuf, ms)

\* Writer r has been given the matches ms: it holds them unless it is flagged.
Holds(r, ms, B, size) ==
    /\ Sound(r, B)
    /\ ms \in Seq(Record3(B, size))
    /\ ~r.err => Exact(r, ms, size)

(* A fresh directory, all streams open: nothing was given, nothing is held. *)
THEOREM FreshHolds ==
    ASSUME NEW B, NEW size \in Nat \ {0}, NEW storeFirst \in BOOLEAN
    PROVE  Holds(NewResult(storeFirst, {}), <<>>, B, size)
<1> DEFINE r == NewResult(storeFirst, {})
<1>1. /\ r.offs = <<>> /\ r.vals = <<>> /\ r.firsts = <<>> /\ r.framesFile = <<>> /\ r.obuf = <<>>
      /\ r.vbuf = <<>> /\ r.fbuf = <<>> /\ r.frames = <<>> /\ r.open = [base |-> 0, count |-> 0]
      /\ r.count = 0 /\ r.storeFirst = storeFirst /\ r.err = FALSE
      /\ r.fds = (IF storeFirst THEN {"offsets", "values", "firsts"} ELSE {"offsets", "values"})
  BY DEF NewResult
<1>2. r \in Writer(B)
  <2>1. [base |-> 0, count |-> 0] \in Frame
    BY DEF Frame
  <2>2. <<>> \in Seq(Nat) /\ <<>> \in Seq(B) /\ <<>> \in Seq(Frame)
    OBVIOUS
  <2>3. r.fds \in SUBSET Streams
    BY <1>1 DEF Streams
  <2> QED BY <2>1, <2>2, <2>3 DEF NewResult, Writer, Streams
<1>3. Sound(r, B)
  BY <1>1, <1>2 DEF Sound
<1>4. Exact(r, <<>>, size)
  <2>1. Len(<<>>) = 0 /\ <<>> \o <<>> = <<>>
    OBVIOUS
  <2>2. ValuesOf(<<>>) = <<>> /\ FirstsOf(<<>>) = <<>>
    BY <2>1 DEF ValuesOf, FirstsOf
  <2>3. Laid(<<>>, <<>>, size)
    BY LaidEmpty
  <2>4. Counted(<<>>)
    BY <2>1 DEF Counted
  <2>5. Starts(<<>>)[1] = 0
    BY <2>4, StartsDef
  <2>6. Framed(<<>>, 0, 0, <<>>, <<>>)
    BY <2>1, <2>4, <2>5 DEF Framed
  <2> HIDE DEF r
  <2>7. r.open.base = 0 /\ r.open.count = 0
    BY <1>1
  <2>8. r.offs \o r.obuf = <<>> /\ r.vals \o r.vbuf = <<>> /\ r.firsts \o r.fbuf = <<>>
    BY <1>1, <2>1
  <2>9. Framed(r.frames, r.open.base, r.open.count, r.offs \o r.obuf, <<>>)
    BY <1>1, <2>6, <2>7, <2>8, Zenon
  <2>10. Laid(r.vals \o r.vbuf, ValuesOf(<<>>), size) /\ Laid(r.firsts \o r.fbuf, FirstsOf(<<>>), size)
    BY <2>2, <2>3, <2>8, Zenon
  <2>11. r.count = Len(<<>>) /\ Len(r.offs \o r.obuf) = Len(<<>>)
    BY <1>1, <2>1, <2>8, Zenon
  <2> QED BY <2>9, <2>10, <2>11 DEF Exact
<1>5. <<>> \in Seq(Record3(B, size))
  OBVIOUS
<1> HIDE DEF r
<1>6. Holds(r, <<>>, B, size)
  BY <1>3, <1>4, <1>5 DEF Holds
<1> QED BY <1>6 DEF r
-----------------------------------------------------------------------------
(* Adding a match. *)

\* What is indexed by i below Len(s) is not disturbed by an append.
LEMMA AppendKeeps ==
    ASSUME NEW T, NEW s \in Seq(T), NEW x \in T, NEW i \in Nat, i < Len(s)
    PROVE  Append(s, x)[i + 1] = s[i + 1]
<1>1. Len(s) \in Nat /\ i + 1 \in 1..Len(s)
  BY LenProperties
<1> QED BY <1>1, AppendProperties

\* The match goes into the open frame.
LEMMA FramedSame ==
    ASSUME NEW R, NEW frames \in Seq(Frame), NEW base \in Nat, NEW count \in Nat \ {0},
           NEW os \in Seq(Nat), NEW ms \in Seq(R), NEW m \in R, NEW o \in Nat, Len(os) = Len(ms),
           m.addr \in Nat, base <= m.addr, base + o = m.addr, Framed(frames, base, count, os, ms)
    PROVE  Framed(frames, base, count + 1, Append(os, o), Append(ms, m))
<1> DEFINE os2 == Append(os, o)
           ms2 == Append(ms, m)
           A == Starts(frames)
           F == Len(frames)
           n == Len(ms)
<1>1. /\ n \in Nat /\ Len(ms2) = n + 1 /\ ms2[n + 1] = m /\ os2[n + 1] = o
      /\ \A i \in Nat : i < n => ms2[i + 1] = ms[i + 1] /\ os2[i + 1] = os[i + 1]
  BY AppendProperties, AppendKeeps, LenProperties
<1>2. F \in Nat /\ A \in [1..F + 1 -> Nat] /\ \A k \in 1..F : A[k + 1] = A[k] + frames[k].count /\ frames[k].count \in Nat
  BY StartsDef, LenProperties DEF Framed, Counted
<1>3. Counted(frames) /\ A[F + 1] + count = n
  BY DEF Framed
<1> HIDE DEF os2, ms2
<1>4. A[F + 1] + (count + 1) = Len(ms2)
  <2>1. A[F + 1] \in Nat
    BY <1>2
  <2> HIDE DEF A, F
  <2> QED BY <1>1, <1>3, <2>1
<1>5. ASSUME NEW k \in 1..F, NEW i \in Nat, A[k] <= i, i < A[k] + frames[k].count
      PROVE  frames[k].base + os2[i + 1] = ms2[i + 1].addr
  <2>1. i < n
    <3>1. A[k] + frames[k].count <= A[F + 1]
      BY <1>2, <1>3, StartsBelow
    <3>2. A[k] \in Nat /\ frames[k].count \in Nat /\ A[F + 1] \in Nat
      BY <1>2
    <3> HIDE DEF A, F, n
    <3>3. A[F + 1] <= n
      BY <1>1, <1>3, <3>2
    <3>4. i < A[F + 1]
      BY <1>5, <3>1, <3>2
    <3> QED BY <1>1, <3>2, <3>3, <3>4
  <2>2. frames[k].base + os[i + 1] = ms[i + 1].addr
    BY <1>5 DEF Framed
  <2> QED BY <1>1, <2>1, <2>2
<1>6. ASSUME NEW i \in Nat, A[F + 1] <= i, i < Len(ms2)
      PROVE  base <= ms2[i + 1].addr /\ base + os2[i + 1] = ms2[i + 1].addr
  <2>1. CASE i < n
    BY <1>1, <1>6, <2>1 DEF Framed
  <2>2. CASE i = n
    BY <1>1, <2>2
  <2>3. i < n \/ i = n
    BY <1>1, <1>6
  <2> QED BY <2>1, <2>2, <2>3
<1>7. Framed(frames, base, count + 1, os2, ms2)
  BY <1>3, <1>4, <1>5, <1>6 DEF Framed
<1> QED BY <1>7 DEF os2, ms2

\* A frame table that covers all of ms.
Closes(closed, os, ms) ==
    /\ Counted(closed)
    /\ Starts(closed)[Len(closed) + 1] = Len(ms)
    /\ \A k \in 1..Len(closed) : \A i \in Nat :
          Starts(closed)[k] <= i /\ i < Starts(closed)[k] + closed[k].count
             => i < Len(ms) /\ closed[k].base + os[i + 1] = ms[i + 1].addr

\* Closing the open frame, if it holds anything, completes the table.
LEMMA ClosedFramed ==
    ASSUME NEW R, NEW frames \in Seq(Frame), NEW base \in Nat, NEW count \in Nat,
           NEW os, NEW ms \in Seq(R), Framed(frames, base, count, os, ms)
    PROVE  LET closed == IF count = 0 THEN frames ELSE Append(frames, [base |-> base, count |-> count])
           IN  closed \in Seq(Frame) /\ Closes(closed, os, ms)
<1> DEFINE f == [base |-> base, count |-> count]
           A == Starts(frames)
           F == Len(frames)
           n == Len(ms)
<1>1. n \in Nat /\ F \in Nat
  BY LenProperties
<1>2. /\ Counted(frames) /\ A[F + 1] + count = n /\ A \in [1..F + 1 -> Nat]
      /\ \A k \in 1..F : frames[k].count \in Nat /\ A[k] + frames[k].count <= A[F + 1]
  BY StartsDef, StartsBelow DEF Framed, Counted
<1>3. A[F + 1] \in Nat /\ \A k \in 1..F : A[k] \in Nat
  <2>1. F + 1 \in 1..F + 1 /\ \A k \in 1..F : k \in 1..F + 1
    BY <1>1
  <2> HIDE DEF A, F
  <2> QED BY <1>2, <2>1
<1>4. ASSUME NEW k \in 1..F, NEW i \in Nat, A[k] <= i, i < A[k] + frames[k].count
      PROVE  i < n /\ frames[k].base + os[i + 1] = ms[i + 1].addr
  <2>1. i < n
    <3> HIDE DEF A, F
    <3> QED BY <1>1, <1>2, <1>3, <1>4
  <2>2. frames[k].base + os[i + 1] = ms[i + 1].addr
    BY <1>4 DEF Framed
  <2> QED BY <2>1, <2>2
<1>5. CASE count = 0
  <2>1. A[F + 1] = n
    <3> HIDE DEF A, F
    <3> QED BY <1>2, <1>3, <1>5
  <2> QED BY <1>2, <1>4, <1>5, <2>1 DEF Closes
<1>6. CASE count # 0
  <2> DEFINE c == Append(frames, f)
  <2>1. f \in Frame /\ f.count = count /\ f.base = base
    BY DEF Frame
  <2>2. /\ c \in Seq(Frame) /\ Len(c) = F + 1 /\ c[F + 1] = f /\ \A k \in 1..F : c[k] = frames[k]
    BY <2>1, AppendProperties
  <2>3. /\ Counted(c) /\ \A k \in 1..F + 1 : Starts(c)[k] = A[k]
        /\ Starts(c)[F + 2] = A[F + 1] + count
    BY <1>2, <2>1, StartsAppend
  <2> HIDE DEF c, f
  <2>4. Len(c) + 1 = F + 2 /\ Starts(c)[Len(c) + 1] = n
    <3>1. Len(c) + 1 = F + 2
      BY <1>1, <2>2
    <3> QED BY <1>2, <2>3, <3>1
  <2>5. ASSUME NEW k \in 1..Len(c), NEW i \in Nat, Starts(c)[k] <= i, i < Starts(c)[k] + c[k].count
        PROVE  i < n /\ c[k].base + os[i + 1] = ms[i + 1].addr
    <3>1. CASE k \in 1..F
      <4>1. Starts(c)[k] = A[k] /\ c[k] = frames[k]
        BY <1>1, <2>2, <2>3, <3>1
      <4> QED BY <1>4, <2>5, <3>1, <4>1
    <3>2. CASE k = F + 1
      <4>1. Starts(c)[k] = A[F + 1] /\ c[k] = f
        BY <1>1, <2>2, <2>3, <3>2
      <4>2. A[F + 1] <= i /\ i < n
        <5> HIDE DEF A
        <5> QED BY <1>2, <2>1, <2>5, <4>1
      <4>3. base + os[i + 1] = ms[i + 1].addr
        BY <4>2 DEF Framed
      <4> QED BY <2>1, <4>1, <4>2, <4>3
    <3>3. k \in 1..F \/ k = F + 1
      BY <1>1, <2>2
    <3> QED BY <3>1, <3>2, <3>3
  <2>6. Closes(c, os, ms)
    BY <2>3, <2>4, <2>5 DEF Closes
  <2> QED BY <1>6, <2>2, <2>6 DEF c, f
<1> QED BY <1>5, <1>6

\* The open frame is closed, if it holds anything, and the match begins a new one.
LEMMA FramedNew ==
    ASSUME NEW R, NEW frames \in Seq(Frame), NEW base \in Nat, NEW count \in Nat,
           NEW os \in Seq(Nat), NEW ms \in Seq(R), NEW m \in R, Len(os) = Len(ms),
           m.addr \in Nat, Framed(frames, base, count, os, ms)
    PROVE  LET closed == IF count = 0 THEN frames ELSE Append(frames, [base |-> base, count |-> count])
           IN  /\ closed \in Seq(Frame)
               /\ Framed(closed, m.addr, 1, Append(os, 0), Append(ms, m))
<1> DEFINE os2 == Append(os, 0)
           ms2 == Append(ms, m)
           f == [base |-> base, count |-> count]
           closed == IF count = 0 THEN frames ELSE Append(frames, f)
           n == Len(ms)
<1>1. /\ n \in Nat /\ Len(ms2) = n + 1 /\ ms2[n + 1] = m /\ os2[n + 1] = 0
      /\ \A i \in Nat : i < n => ms2[i + 1] = ms[i + 1] /\ os2[i + 1] = os[i + 1]
  BY AppendProperties, AppendKeeps, LenProperties
<1>2. closed \in Seq(Frame) /\ Closes(closed, os, ms)
  BY ClosedFramed
<1> HIDE DEF os2, ms2, closed
<1>3. Counted(closed) /\ Starts(closed)[Len(closed) + 1] = n
  BY <1>2 DEF Closes
<1>4. Starts(closed)[Len(closed) + 1] + 1 = Len(ms2)
  BY <1>1, <1>3
<1>5. ASSUME NEW k \in 1..Len(closed), NEW i \in Nat, Starts(closed)[k] <= i,
             i < Starts(closed)[k] + closed[k].count
      PROVE  closed[k].base + os2[i + 1] = ms2[i + 1].addr
  <2>1. i < n /\ closed[k].base + os[i + 1] = ms[i + 1].addr
    BY <1>5, <1>2 DEF Closes
  <2> QED BY <1>1, <2>1
<1>6. ASSUME NEW i \in Nat, Starts(closed)[Len(closed) + 1] <= i, i < Len(ms2)
      PROVE  m.addr <= ms2[i + 1].addr /\ m.addr + os2[i + 1] = ms2[i + 1].addr
  <2>1. i = n
    BY <1>1, <1>3, <1>6
  <2> QED BY <1>1, <2>1
<1>7. Framed(closed, m.addr, 1, os2, ms2)
  BY <1>3, <1>4, <1>5, <1>6 DEF Framed
<1> QED BY <1>2, <1>7 DEF os2, ms2, closed
-----------------------------------------------------------------------------
(* The flush. *)

LEMMA FrontSeq ==
    ASSUME NEW T, NEW buf \in Seq(T), buf # <<>>
    PROVE  Front(buf) \in Seq(T)
<1>1. Len(buf) \in Nat /\ 1 \in Int /\ Len(buf) - 1 \in Int
  BY LenProperties
<1>2. \A i \in 1..Len(buf) - 1 : buf[i] \in T
  BY <1>1, ElementOfSeq
<1> QED BY <1>1, <1>2, SubSeqProperties DEF Front

\* Whatever is full, the flushed writer is one that may be flagged, its buffers are
\* empty, and it holds what it held.
LEMMA FlushHolds ==
    ASSUME NEW B, NEW size \in Nat \ {0}, NEW r, NEW ms, NEW full, Holds(r, ms, B, size)
    PROVE  LET f == Flush(r, full)
           IN  /\ Holds(f, ms, B, size)
               /\ f.obuf = <<>> /\ f.vbuf = <<>> /\ f.fbuf = <<>>
               /\ f.storeFirst = r.storeFirst /\ f.frames = r.frames /\ f.open = r.open
<1> DEFINE f == Flush(r, full)
<1>1. Sound(r, B) /\ r \in Writer(B) /\ ms \in Seq(Record3(B, size))
  BY DEF Holds, Sound
<1>2. CASE r.obuf = <<>>
  <2>1. f = r
    BY <1>2 DEF Flush
  <2>2. r.vbuf = <<>> /\ r.fbuf = <<>>
    BY <1>1, <1>2 DEF Sound
  <2> QED BY <1>2, <2>1, <2>2
<1>3. CASE r.obuf # <<>>
  <2>1. /\ r.offs \in Seq(Nat) /\ r.obuf \in Seq(Nat)
        /\ r.vals \in Seq(B) /\ r.vbuf \in Seq(B)
        /\ r.firsts \in Seq(B) /\ r.fbuf \in Seq(B)
        /\ r.storeFirst \in BOOLEAN /\ r.err \in BOOLEAN
    BY <1>1 DEF Writer
  <2>2. /\ "offsets" \in r.fds /\ "values" \in r.fds
        /\ IF r.storeFirst THEN "firsts" \in r.fds ELSE "firsts" \notin r.fds /\ r.fbuf = <<>> /\ r.firsts = <<>>
        /\ r.vbuf # <<>> /\ (r.storeFirst => r.fbuf # <<>>)
    BY <1>1, <1>3 DEF Sound
  <2>3. /\ f.offs = WriteAll(r, "offsets", r.offs, r.obuf, full)
        /\ f.vals = WriteAll(r, "values", r.vals, r.vbuf, full)
        /\ f.firsts = WriteAll(r, "firsts", r.firsts, r.fbuf, full)
        /\ f.err = (r.err \/ full \cap r.fds # {})
        /\ f.obuf = <<>> /\ f.vbuf = <<>> /\ f.fbuf = <<>>
        /\ f.storeFirst = r.storeFirst /\ f.frames = r.frames /\ f.open = r.open
        /\ f.count = r.count /\ f.fds = r.fds /\ f.framesFile = r.framesFile
        /\ f = [offs |-> f.offs, vals |-> f.vals, firsts |-> f.firsts, framesFile |-> f.framesFile,
                obuf |-> f.obuf, vbuf |-> f.vbuf, fbuf |-> f.fbuf, frames |-> f.frames,
                open |-> f.open, count |-> f.count, storeFirst |-> f.storeFirst,
                fds |-> f.fds, err |-> f.err]
    BY <1>1, <1>3 DEF Flush, Writer
  <2> HIDE DEF f
  <2>4. f.offs \in Seq(Nat) /\ ("offsets" \notin full => f.offs = r.offs \o r.obuf)
    <3>1. Front(r.obuf) \in Seq(Nat)
      BY <1>3, <2>1, <2>2, FrontSeq
    <3>2. r.offs \o r.obuf \in Seq(Nat) /\ r.offs \o Front(r.obuf) \in Seq(Nat)
      BY <2>1, <3>1, ConcatProperties
    <3> QED BY <2>2, <2>3, <3>2 DEF WriteAll
  <2>5. f.vals \in Seq(B) /\ ("values" \notin full => f.vals = r.vals \o r.vbuf)
    <3>1. Front(r.vbuf) \in Seq(B)
      BY <2>1, <2>2, FrontSeq
    <3>2. r.vals \o r.vbuf \in Seq(B) /\ r.vals \o Front(r.vbuf) \in Seq(B)
      BY <2>1, <3>1, ConcatProperties
    <3> QED BY <2>2, <2>3, <3>2 DEF WriteAll
  <2>6. /\ f.firsts \in Seq(B)
        /\ r.storeFirst /\ "firsts" \notin full => f.firsts = r.firsts \o r.fbuf
        /\ ~r.storeFirst => f.firsts = <<>>
    <3>1. CASE r.storeFirst
      <4>1. Front(r.fbuf) \in Seq(B)
        BY <2>1, <2>2, <3>1, FrontSeq
      <4>2. r.firsts \o r.fbuf \in Seq(B) /\ r.firsts \o Front(r.fbuf) \in Seq(B)
        BY <2>1, <4>1, ConcatProperties
      <4> QED BY <2>2, <2>3, <3>1, <4>2 DEF WriteAll
    <3>2. CASE ~r.storeFirst
      BY <2>1, <2>2, <2>3, <3>2 DEF WriteAll
    <3> QED BY <3>1, <3>2
  <2>7. f \in Writer(B)
    <3>1. /\ r.framesFile \in Seq(Frame) /\ r.frames \in Seq(Frame) /\ r.open \in Frame
          /\ r.count \in Nat /\ r.fds \in SUBSET Streams
      BY <1>1 DEF Writer
    <3>2. <<>> \in Seq(Nat) /\ <<>> \in Seq(B)
      OBVIOUS
    <3>3. f.err \in BOOLEAN
      BY <2>3
    <3> QED BY <2>1, <2>3, <2>4, <2>5, <2>6, <3>1, <3>2, <3>3 DEF Writer
  <2>8. Sound(f, B)
    BY <1>1, <2>1, <2>3, <2>6, <2>7 DEF Sound
  <2>9. ASSUME ~f.err PROVE Exact(f, ms, size)
    <3>1. ~r.err /\ \A s \in r.fds : s \notin full
      BY <2>3, <2>9
    <3>2. Exact(r, ms, size)
      BY <3>1 DEF Holds
    <3>3. f.offs \o f.obuf = r.offs \o r.obuf
      <4>1. f.offs = r.offs \o r.obuf
        BY <2>2, <2>4, <3>1
      <4>2. f.offs \o <<>> = f.offs
        BY <2>4, ConcatEmptySeq
      <4> QED BY <2>3, <4>1, <4>2
    <3>4. f.vals \o f.vbuf = r.vals \o r.vbuf
      <4>1. f.vals = r.vals \o r.vbuf
        BY <2>2, <2>5, <3>1
      <4>2. f.vals \o <<>> = f.vals
        BY <2>5, ConcatEmptySeq
      <4> QED BY <2>3, <4>1, <4>2
    <3>5. r.storeFirst => f.firsts \o f.fbuf = r.firsts \o r.fbuf
      <4>1. r.storeFirst => f.firsts = r.firsts \o r.fbuf
        BY <2>2, <2>6, <3>1
      <4>2. f.firsts \o <<>> = f.firsts
        BY <2>6, ConcatEmptySeq
      <4> QED BY <2>3, <4>1, <4>2
    <3> QED BY <2>3, <3>2, <3>3, <3>4, <3>5, Zenon DEF Exact
  <2>10. Holds(f, ms, B, size)
    BY <1>1, <2>8, <2>9 DEF Holds
  <2> QED BY <2>3, <2>10 DEF f
<1> QED BY <1>2, <1>3
-----------------------------------------------------------------------------
(* addResult. *)

LEMMA SmallMod ==
    ASSUME NEW x \in Nat, x < FrameSpan
    PROVE  x % FrameSpan = x
BY StoreAssumption

LEMMA ValuesAppend ==
    ASSUME NEW B, NEW size \in Nat, NEW ms \in Seq(Record3(B, size)), NEW m \in Record3(B, size)
    PROVE  /\ ValuesOf(ms) \in Seq(Sized(B, size)) /\ FirstsOf(ms) \in Seq(Sized(B, size))
           /\ Len(ValuesOf(ms)) = Len(ms) /\ Len(FirstsOf(ms)) = Len(ms)
           /\ ValuesOf(Append(ms, m)) = Append(ValuesOf(ms), m.val)
           /\ FirstsOf(Append(ms, m)) = Append(FirstsOf(ms), m.first)
<1> DEFINE n == Len(ms)
           ms2 == Append(ms, m)
           V == ValuesOf(ms)
           F == FirstsOf(ms)
           S == Sized(B, size)
<1>1. /\ n \in Nat /\ Len(ms2) = n + 1 /\ ms2[n + 1] = m
      /\ \A i \in 1..n : ms2[i] = ms[i] /\ ms[i] \in Record3(B, size)
  BY AppendProperties, LenProperties, ElementOfSeq
<1>2. m.val \in S /\ m.first \in S /\ \A i \in 1..n : ms[i].val \in S /\ ms[i].first \in S
  BY <1>1 DEF Record3
<1> HIDE DEF n, S, ms2
<1>3. V = [i \in 1..n |-> ms[i].val] /\ F = [i \in 1..n |-> ms[i].first]
  BY DEF ValuesOf, FirstsOf, n
<1>4. /\ ValuesOf(ms2) = [i \in 1..n + 1 |-> ms2[i].val]
      /\ FirstsOf(ms2) = [i \in 1..n + 1 |-> ms2[i].first]
  BY <1>1 DEF ValuesOf, FirstsOf
<1> HIDE DEF V, F
<1>5. V \in Seq(S) /\ Len(V) = n
  BY <1>1, <1>2, <1>3
<1>6. F \in Seq(S) /\ Len(F) = n
  BY <1>1, <1>2, <1>3
<1>7. ValuesOf(ms2) = Append(V, m.val)
  <2> DEFINE L == ValuesOf(ms2)
             R == Append(V, m.val)
  <2>1. R \in Seq(S) /\ Len(R) = n + 1 /\ R[n + 1] = m.val /\ \A i \in 1..n : R[i] = V[i]
    BY <1>2, <1>5, AppendProperties
  <2>2. \A i \in 1..n + 1 : ms2[i].val \in S
    BY <1>1, <1>2
  <2>3. L \in Seq(S) /\ Len(L) = n + 1
    BY <1>1, <1>4, <2>2
  <2> HIDE DEF R
  <2>4. ASSUME NEW i \in 1..n + 1 PROVE L[i] = R[i]
    <3>1. CASE i \in 1..n
      BY <1>1, <1>3, <1>4, <2>1, <3>1
    <3>2. CASE i = n + 1
      BY <1>1, <1>4, <2>1, <3>2
    <3> QED BY <1>1, <3>1, <3>2
  <2> HIDE DEF L
  <2>5. L = R
    BY <2>1, <2>3, <2>4, SeqEqual
  <2> QED BY <2>5 DEF L, R
<1>8. FirstsOf(ms2) = Append(F, m.first)
  <2> DEFINE L == FirstsOf(ms2)
             R == Append(F, m.first)
  <2>1. R \in Seq(S) /\ Len(R) = n + 1 /\ R[n + 1] = m.first /\ \A i \in 1..n : R[i] = F[i]
    BY <1>2, <1>6, AppendProperties
  <2>2. \A i \in 1..n + 1 : ms2[i].first \in S
    BY <1>1, <1>2
  <2>3. L \in Seq(S) /\ Len(L) = n + 1
    BY <1>1, <1>4, <2>2
  <2> HIDE DEF R
  <2>4. ASSUME NEW i \in 1..n + 1 PROVE L[i] = R[i]
    <3>1. CASE i \in 1..n
      BY <1>1, <1>3, <1>4, <2>1, <3>1
    <3>2. CASE i = n + 1
      BY <1>1, <1>4, <2>1, <3>2
    <3> QED BY <1>1, <3>1, <3>2
  <2> HIDE DEF L
  <2>5. L = R
    BY <2>1, <2>3, <2>4, SeqEqual
  <2> QED BY <2>5 DEF L, R
<1> QED BY <1>5, <1>6, <1>7, <1>8 DEF V, F, ms2, n, S

\* A stream and its buffer, which takes one more record.
LEMMA LaidMore ==
    ASSUME NEW B, NEW size \in Nat \ {0}, NEW file \in Seq(B), NEW buf \in Seq(B),
           NEW recs \in Seq(Sized(B, size)), NEW rec \in Sized(B, size), Laid(file \o buf, recs, size)
    PROVE  /\ buf \o rec \in Seq(B) /\ buf \o rec # <<>>
           /\ Laid(file \o (buf \o rec), Append(recs, rec), size)
<1>1. rec \in Seq(B) /\ Len(rec) = size
  BY DEF Sized
<1>2. buf \o rec \in Seq(B) /\ Len(buf \o rec) = Len(buf) + size /\ file \o buf \in Seq(B)
  BY <1>1, ConcatProperties
<1>3. buf \o rec # <<>>
  BY <1>2, LenProperties
<1>4. file \o (buf \o rec) = (file \o buf) \o rec
  BY <1>1, ConcatAssociative
<1> QED BY <1>2, <1>3, <1>4, LaidAppend

\* The match as it stands in the buffers, before a full buffer is flushed.
Added(r, m) ==
    LET frame == IF NeedsFrame(r, m.addr) THEN [base |-> m.addr, count |-> 0] ELSE r.open
    IN  [r EXCEPT
            !.frames = IF NeedsFrame(r, m.addr) THEN ClosedFrames(r) ELSE @,
            !.open = [frame EXCEPT !.count = @ + 1],
            !.obuf = Append(@, (m.addr - frame.base) % FrameSpan),
            !.vbuf = @ \o m.val,
            !.fbuf = IF r.storeFirst THEN @ \o m.first ELSE @,
            !.count = @ + 1]

\* A stream once its buffer is written.
Whole(file, buf) == file \o buf

LEMMA BufferAppend ==
    ASSUME NEW T, NEW file \in Seq(T), NEW buf \in Seq(T), NEW x \in T
    PROVE  /\ Append(buf, x) \in Seq(T) /\ Append(buf, x) # <<>>
           /\ Whole(file, buf) \in Seq(T)
           /\ Whole(file, Append(buf, x)) = Append(Whole(file, buf), x)
<1>1. <<x>> \in Seq(T) /\ file \o buf \in Seq(T)
  BY ConcatProperties
<1>2. Append(file \o buf, x) = (file \o buf) \o <<x>> /\ Append(buf, x) = buf \o <<x>>
  BY <1>1, AppendIsConcat
<1>3. (file \o buf) \o <<x>> = file \o (buf \o <<x>>)
  BY <1>1, ConcatAssociative
<1> QED BY <1>1, <1>2, <1>3, AppendProperties DEF Whole

LEMMA AddResultAdds ==
    ASSUME NEW r, NEW m, NEW full
    PROVE  AddResult(r, m, full)
             = IF Len(Added(r, m).obuf) >= FlushAt THEN Flush(Added(r, m), full) ELSE Added(r, m)
BY DEF AddResult, Added

LEMMA AddedHolds ==
    ASSUME NEW B, NEW size \in Nat \ {0}, NEW r, NEW ms, NEW m \in Record3(B, size), Holds(r, ms, B, size)
    PROVE  Holds(Added(r, m), Append(ms, m), B, size) /\ Added(r, m).storeFirst = r.storeFirst
<1> DEFINE g == Added(r, m)
           new == NeedsFrame(r, m.addr)
           base == IF new THEN m.addr ELSE r.open.base
           held == IF new THEN 0 ELSE r.open.count
           table == IF new THEN ClosedFrames(r) ELSE r.frames
           o == m.addr - base
<1>1. Sound(r, B) /\ r \in Writer(B) /\ ms \in Seq(Record3(B, size))
  BY DEF Holds, Sound
<1>2. /\ r.offs \in Seq(Nat) /\ r.obuf \in Seq(Nat)
      /\ r.vals \in Seq(B) /\ r.vbuf \in Seq(B)
      /\ r.firsts \in Seq(B) /\ r.fbuf \in Seq(B) /\ r.framesFile \in Seq(Frame)
      /\ r.frames \in Seq(Frame) /\ r.open \in Frame /\ r.open.base \in Nat /\ r.open.count \in Nat
      /\ r.count \in Nat /\ r.fds \in SUBSET Streams
      /\ r.storeFirst \in BOOLEAN /\ r.err \in BOOLEAN
  BY <1>1 DEF Writer, Frame
<1>3. m.addr \in Nat /\ m.val \in Sized(B, size) /\ m.first \in Sized(B, size)
  BY DEF Record3
<1>4. r.open = [base |-> r.open.base, count |-> r.open.count]
  BY <1>2 DEF Frame
<1>5. /\ base \in Nat /\ held \in Nat /\ o \in Nat /\ base <= m.addr /\ base + o = m.addr
      /\ o % FrameSpan = o
      /\ ~new => held # 0
  <2>1. CASE new
    BY <1>3, <2>1, SmallMod, StoreAssumption
  <2>2. CASE ~new
    <3>1. r.open.count # 0 /\ r.open.base <= m.addr /\ m.addr - r.open.base < FrameSpan
      BY <1>2, <1>3, <2>2, StoreAssumption DEF NeedsFrame
    <3>2. m.addr - r.open.base \in Nat
      BY <1>2, <1>3, <3>1
    <3> QED BY <1>2, <1>3, <2>2, <3>1, <3>2, SmallMod
  <2> QED BY <2>1, <2>2
<1>6. g = [r EXCEPT !.frames = table, !.open = [base |-> base, count |-> held + 1],
                    !.obuf = Append(r.obuf, o % FrameSpan), !.vbuf = r.vbuf \o m.val,
                    !.fbuf = IF r.storeFirst THEN r.fbuf \o m.first ELSE r.fbuf,
                    !.count = r.count + 1]
  <2> DEFINE frame == IF new THEN [base |-> m.addr, count |-> 0] ELSE r.open
  <2>1. frame.base = base /\ [frame EXCEPT !.count = frame.count + 1] = [base |-> base, count |-> held + 1]
    <3>1. CASE new
      BY <3>1
    <3>2. CASE ~new
      BY <1>4, <3>2
    <3> QED BY <3>1, <3>2
  <2>2. g = [r EXCEPT !.frames = table, !.open = [frame EXCEPT !.count = frame.count + 1],
                      !.obuf = Append(r.obuf, (m.addr - frame.base) % FrameSpan),
                      !.vbuf = r.vbuf \o m.val,
                      !.fbuf = IF r.storeFirst THEN r.fbuf \o m.first ELSE r.fbuf,
                      !.count = r.count + 1]
    BY DEF Added
  <2>3. o = m.addr - base
    OBVIOUS
  <2> HIDE DEF g, new, base, held, table, frame, o
  <2>4. (m.addr - frame.base) % FrameSpan = o % FrameSpan
    BY <2>1, <2>3
  <2> QED BY <2>1, <2>2, <2>4
<1> HIDE DEF g, new, base, held, table, o
<1>7. /\ g.offs = r.offs /\ g.vals = r.vals /\ g.firsts = r.firsts /\ g.framesFile = r.framesFile
      /\ g.obuf = Append(r.obuf, o) /\ g.vbuf = r.vbuf \o m.val
      /\ g.fbuf = (IF r.storeFirst THEN r.fbuf \o m.first ELSE r.fbuf)
      /\ g.frames = table /\ g.open = [base |-> base, count |-> held + 1]
      /\ g.count = r.count + 1 /\ g.storeFirst = r.storeFirst /\ g.fds = r.fds /\ g.err = r.err
      /\ g = [offs |-> g.offs, vals |-> g.vals, firsts |-> g.firsts, framesFile |-> g.framesFile,
              obuf |-> g.obuf, vbuf |-> g.vbuf, fbuf |-> g.fbuf, frames |-> g.frames,
              open |-> g.open, count |-> g.count, storeFirst |-> g.storeFirst,
              fds |-> g.fds, err |-> g.err]
  BY <1>1, <1>5, <1>6 DEF Writer
<1>8. /\ g.obuf \in Seq(Nat) /\ g.obuf # <<>>
      /\ g.vbuf \in Seq(B) /\ g.vbuf # <<>>
      /\ g.fbuf \in Seq(B) /\ (r.storeFirst => g.fbuf # <<>>) /\ (~r.storeFirst => g.fbuf = r.fbuf)
  <2>1. m.val \in Seq(B) /\ Len(m.val) = size /\ m.first \in Seq(B) /\ Len(m.first) = size
    BY <1>3 DEF Sized
  <2>2. r.vbuf \o m.val \in Seq(B) /\ r.vbuf \o m.val # <<>>
    BY <1>2, <2>1, ConcatProperties, LenProperties
  <2>3. r.fbuf \o m.first \in Seq(B) /\ r.fbuf \o m.first # <<>>
    BY <1>2, <2>1, ConcatProperties, LenProperties
  <2>4. Append(r.obuf, o) \in Seq(Nat) /\ Append(r.obuf, o) # <<>>
    <3>1. r.obuf \in Seq(Nat) /\ o \in Nat
      BY <1>2, <1>5
    <3> QED BY <3>1, BufferAppend
  <2> QED BY <1>2, <1>7, <2>2, <2>3, <2>4
<1>9. table \in Seq(Frame)
  BY <1>2, AppendProperties DEF table, ClosedFrames
<1>10. g \in Writer(B)
  <2>1. [base |-> base, count |-> held + 1] \in Frame
    BY <1>5 DEF Frame
  <2>2. /\ g.offs \in Seq(Nat) /\ g.vals \in Seq(B) /\ g.firsts \in Seq(B) /\ g.framesFile \in Seq(Frame)
        /\ g.obuf \in Seq(Nat) /\ g.vbuf \in Seq(B) /\ g.fbuf \in Seq(B) /\ g.frames \in Seq(Frame)
        /\ g.open \in Frame /\ g.count \in Nat /\ g.storeFirst \in BOOLEAN
        /\ g.fds \in SUBSET Streams /\ g.err \in BOOLEAN
    <3>1. g.offs \in Seq(Nat) /\ g.vals \in Seq(B) /\ g.firsts \in Seq(B) /\ g.framesFile \in Seq(Frame)
      BY <1>2, <1>7, Zenon
    <3>2. g.open \in Frame /\ g.frames \in Seq(Frame)
      BY <1>7, <1>9, <2>1, Zenon
    <3>3. g.storeFirst \in BOOLEAN /\ g.fds \in SUBSET Streams /\ g.err \in BOOLEAN
      BY <1>2, <1>7, Zenon
    <3>4. g.count \in Nat
      <4>1. g.count = r.count + 1 /\ r.count \in Nat
        BY <1>2, <1>7
      <4> QED BY <4>1
    <3> QED BY <1>8, <3>1, <3>2, <3>3, <3>4, Zenon
  <2>3. g = [offs |-> g.offs, vals |-> g.vals, firsts |-> g.firsts, framesFile |-> g.framesFile,
             obuf |-> g.obuf, vbuf |-> g.vbuf, fbuf |-> g.fbuf, frames |-> g.frames,
             open |-> g.open, count |-> g.count, storeFirst |-> g.storeFirst,
             fds |-> g.fds, err |-> g.err]
    BY <1>7
  <2> QED BY <2>2, <2>3 DEF Writer
<1>11. Sound(g, B)
  BY <1>1, <1>7, <1>8, <1>10 DEF Sound
<1>12. Append(ms, m) \in Seq(Record3(B, size)) /\ Len(Append(ms, m)) = Len(ms) + 1
  BY <1>1, AppendProperties
<1>13. ASSUME ~g.err PROVE Exact(g, Append(ms, m), size)
  <2>1. Exact(r, ms, size)
    BY <1>7, <1>13 DEF Holds
  <2> DEFINE os == r.offs \o r.obuf
  <2>2. os \in Seq(Nat) /\ g.offs \o g.obuf = Append(os, o)
    <3>1. r.offs \in Seq(Nat) /\ r.obuf \in Seq(Nat) /\ o \in Nat
      BY <1>2, <1>5
    <3> DEFINE N == Nat
    <3>2. r.offs \in Seq(N) /\ r.obuf \in Seq(N) /\ o \in N
      BY <3>1
    <3> HIDE DEF N
    <3>3. /\ Whole(r.offs, r.obuf) \in Seq(N)
          /\ Whole(r.offs, Append(r.obuf, o)) = Append(Whole(r.offs, r.obuf), o)
      BY <3>2, BufferAppend
    <3> QED BY <1>7, <3>3 DEF N, Whole
  <2>3. Len(os) = Len(ms) /\ r.count = Len(ms) /\ Framed(r.frames, r.open.base, r.open.count, os, ms)
    BY <2>1 DEF Exact
  <2> HIDE DEF os
  <2>4. Framed(table, base, held + 1, Append(os, o), Append(ms, m))
    <3>1. CASE new
      <4>1. base = m.addr /\ held = 0 /\ o = 0 /\ held + 1 = 1
        BY <1>3, <3>1 DEF base, held, o
      <4>2. table = IF r.open.count = 0 THEN r.frames
                    ELSE Append(r.frames, [base |-> r.open.base, count |-> r.open.count])
        BY <1>4, <3>1 DEF table, ClosedFrames
      <4>3. Framed(table, m.addr, 1, Append(os, 0), Append(ms, m))
        <5> DEFINE R == Record3(B, size)
        <5> HIDE DEF R
        <5>1. ms \in Seq(R) /\ m \in R
          BY <1>1 DEF R
        <5> QED BY <1>2, <1>3, <2>2, <2>3, <4>2, <5>1, FramedNew
      <4> QED BY <4>1, <4>3
    <3>2. CASE ~new
      <4>1. base = r.open.base /\ held = r.open.count /\ table = r.frames
        BY <3>2 DEF base, held, table
      <4>2. Framed(table, base, held, os, ms)
        BY <2>3, <4>1
      <4>3. held \in Nat \ {0} /\ table \in Seq(Frame)
        BY <1>5, <1>9, <3>2
      <4> DEFINE R == Record3(B, size)
      <4> HIDE DEF R
      <4>4. ms \in Seq(R) /\ m \in R
        BY <1>1 DEF R
      <4> QED BY <1>3, <1>5, <2>2, <2>3, <4>2, <4>3, <4>4, FramedSame
    <3> QED BY <3>1, <3>2
  <2>5. Laid(g.vals \o g.vbuf, ValuesOf(Append(ms, m)), size)
    <3>1. Laid(r.vals \o r.vbuf, ValuesOf(ms), size) /\ ValuesOf(ms) \in Seq(Sized(B, size))
      BY <1>1, <2>1, ValuesAppend DEF Exact
    <3>2. Laid(r.vals \o (r.vbuf \o m.val), Append(ValuesOf(ms), m.val), size)
      BY <1>2, <1>3, <3>1, LaidMore
    <3>3. ValuesOf(Append(ms, m)) = Append(ValuesOf(ms), m.val)
      BY <1>1, ValuesAppend
    <3> QED BY <1>7, <3>2, <3>3
  <2>6. ASSUME g.storeFirst PROVE Laid(g.firsts \o g.fbuf, FirstsOf(Append(ms, m)), size)
    <3>1. Laid(r.firsts \o r.fbuf, FirstsOf(ms), size) /\ FirstsOf(ms) \in Seq(Sized(B, size))
      BY <1>1, <1>7, <2>1, <2>6, ValuesAppend DEF Exact
    <3>2. Laid(r.firsts \o (r.fbuf \o m.first), Append(FirstsOf(ms), m.first), size)
      BY <1>2, <1>3, <3>1, LaidMore
    <3>3. FirstsOf(Append(ms, m)) = Append(FirstsOf(ms), m.first)
      BY <1>1, ValuesAppend
    <3> QED BY <1>7, <2>6, <3>2, <3>3
  <2>7. g.count = Len(Append(ms, m)) /\ Len(g.offs \o g.obuf) = Len(Append(ms, m))
    <3>1. Len(Append(os, o)) = Len(os) + 1
      BY <1>5, <2>2, AppendProperties
    <3> QED BY <1>7, <1>12, <2>2, <2>3, <3>1
  <2>8. g.open.base = base /\ g.open.count = held + 1
    BY <1>7
  <2> QED BY <1>7, <2>2, <2>4, <2>5, <2>6, <2>7, <2>8 DEF Exact
<1>14. Holds(g, Append(ms, m), B, size)
  BY <1>11, <1>12, <1>13 DEF Holds
<1> QED BY <1>7, <1>14 DEF g

(* addResult, whatever the state of the disk: the writer holds one match more, *)
(* or is flagged.                                                              *)
THEOREM AddResultHolds ==
    ASSUME NEW B, NEW size \in Nat \ {0}, NEW r, NEW ms, NEW m \in Record3(B, size), NEW full,
           Holds(r, ms, B, size)
    PROVE  /\ Holds(AddResult(r, m, full), Append(ms, m), B, size)
           /\ AddResult(r, m, full).storeFirst = r.storeFirst
<1> DEFINE g == Added(r, m)
<1>1. Holds(g, Append(ms, m), B, size) /\ g.storeFirst = r.storeFirst
  BY AddedHolds
<1>2. AddResult(r, m, full) = IF Len(g.obuf) >= FlushAt THEN Flush(g, full) ELSE g
  BY AddResultAdds
<1> HIDE DEF g
<1>3. Holds(Flush(g, full), Append(ms, m), B, size) /\ Flush(g, full).storeFirst = g.storeFirst
  BY <1>1, FlushHolds
<1> QED BY <1>1, <1>2, <1>3

\* The first j matches of ns, one at a time.
LEMMA OneMore ==
    ASSUME NEW T, NEW ms \in Seq(T), NEW ns \in Seq(T), NEW j \in Nat, j < Len(ns)
    PROVE  /\ Whole(ms, SubSeq(ns, 1, j)) \in Seq(T) /\ ns[j + 1] \in T
           /\ Whole(ms, SubSeq(ns, 1, j + 1)) = Append(Whole(ms, SubSeq(ns, 1, j)), ns[j + 1])
<1> DEFINE X == SubSeq(ns, 1, j)
           x == ns[j + 1]
<1>1. Len(ns) \in Nat /\ j + 1 \in 1..Len(ns) /\ 1 \in 1..Len(ns) /\ (j + 1) - 1 = j
  BY LenProperties
<1>2. x \in T
  BY <1>1, ElementOfSeq
<1>3. X \in Seq(T)
  <2>1. 1 \in Int /\ j \in Int /\ \A i \in 1..j : ns[i] \in T
    BY <1>1, ElementOfSeq
  <2> QED BY <2>1, SubSeqProperties
<1>4. SubSeq(ns, 1, j + 1) = X \o <<x>>
  <2>1. j + 1 \in 1..Len(ns)
    BY <1>1
  <2>2. SubSeq(ns, 1, j + 1) = SubSeq(ns, 1, (j + 1) - 1) \o <<ns[j + 1]>>
    BY <1>1, <2>1, SubSeqRecursiveSecond
  <2> QED BY <1>1, <2>2
<1> HIDE DEF X, x
<1>5. X \o <<x>> = Append(X, x)
  BY <1>2, <1>3, AppendIsConcat
<1>6. Whole(ms, Append(X, x)) = Append(Whole(ms, X), x) /\ Whole(ms, X) \in Seq(T)
  BY <1>2, <1>3, BufferAppend
<1>7. Whole(ms, SubSeq(ns, 1, j + 1)) = Append(Whole(ms, X), x)
  BY <1>4, <1>5, <1>6
<1> QED BY <1>2, <1>6, <1>7 DEF X, x

(* A batch of matches, one addResult after the other: the writer holds them *)
(* after those it held, or is flagged.                                      *)
THEOREM AddResultsHolds ==
    ASSUME NEW B, NEW size \in Nat \ {0}, NEW r, NEW ms, NEW ns \in Seq(Record3(B, size)), NEW full,
           Holds(r, ms, B, size)
    PROVE  /\ Holds(AddResults(r, ns, full), ms \o ns, B, size)
           /\ AddResults(r, ns, full).storeFirst = r.storeFirst
<1> DEFINE n == Len(ns)
           R == Record3(B, size)
           V == {w \in Writer(B) : \E xs \in Seq(R) : Holds(w, xs, B, size)}
           G == [p \in Nat \X V |-> IF p[1] \in 1..n THEN AddResult(p[2], ns[p[1]], full) ELSE p[2]]
           After(f) == [k \in 0..n |-> IF k = 0 THEN r ELSE AddResult(f[k - 1], ns[k], full)]
<1>1. n \in Nat /\ ms \in Seq(R) /\ \A k \in 1..n : ns[k] \in R
  BY LenProperties, ElementOfSeq DEF Holds
<1>2. ASSUME NEW w \in V, NEW k \in 1..n PROVE AddResult(w, ns[k], full) \in V
  <2>1. PICK xs \in Seq(R) : Holds(w, xs, B, size)
    OBVIOUS
  <2>2. ns[k] \in Record3(B, size)
    BY <1>1
  <2>3. Holds(AddResult(w, ns[k], full), Append(xs, ns[k]), B, size)
    BY <2>1, <2>2, AddResultHolds
  <2>4. Append(xs, ns[k]) \in Seq(R) /\ AddResult(w, ns[k], full) \in Writer(B)
    BY <2>3 DEF Holds, Sound
  <2> QED BY <2>3, <2>4
<1>3. r \in V
  <2>1. r \in Writer(B)
    BY DEF Holds, Sound
  <2> QED BY <1>1, <2>1
<1> HIDE DEF V, R, n
<1>4. G \in [Nat \X V -> V]
  <2>1. ASSUME NEW p \in Nat \X V
        PROVE  (IF p[1] \in 1..n THEN AddResult(p[2], ns[p[1]], full) ELSE p[2]) \in V
    <3>1. p[2] \in V
      OBVIOUS
    <3> QED BY <1>2, <3>1
  <2> QED BY <2>1
<1>5. \E f : f = After(f)
  <2>1. PICK f : Stepwise(f, V, r, G, 0, n)
    <3>1. 0 \in Nat
      OBVIOUS
    <3> HIDE DEF G
    <3> QED BY <1>1, <1>3, <1>4, <3>1, Recursion
  <2>2. ASSUME NEW k \in 0..n, k # 0 PROVE G[<<k, f[k - 1]>>] = AddResult(f[k - 1], ns[k], full)
    <3>1. k - 1 \in 0..0 + n /\ k \in Nat /\ k \in 1..n
      BY <1>1, <2>2
    <3>2. f[k - 1] \in V
      BY <2>1, <3>1 DEF Stepwise
    <3> QED BY <3>1, <3>2
  <2>3. ASSUME NEW k \in 0..n PROVE f[k] = IF k = 0 THEN r ELSE AddResult(f[k - 1], ns[k], full)
    <3> HIDE DEF G
    <3>1. k \in 0..0 + n
      BY <1>1
    <3>2. f[k] = IF k = 0 THEN r ELSE G[<<k, f[k - 1]>>]
      BY <2>1, <3>1 DEF Stepwise
    <3> QED BY <2>2, <3>2
  <2>4. f = [k \in 0..n |-> f[k]]
    <3>1. f \in [0..0 + n -> V] /\ 0 + n = n
      BY <1>1, <2>1 DEF Stepwise
    <3> QED BY <3>1
  <2>5. f = After(f)
    BY <2>3, <2>4
  <2> QED BY <2>5
<1> DEFINE f == CHOOSE f : f = After(f)
<1>6. f = After(f)
  <2> HIDE DEF After
  <2> QED BY <1>5
<1>7. AddResults(r, ns, full) = f[n]
  BY DEF AddResults, n
<1> HIDE DEF f
<1>8. f[0] = r /\ \A k \in 1..n : f[k] = AddResult(f[k - 1], ns[k], full)
  <2>1. \A k \in 0..n : f[k] = IF k = 0 THEN r ELSE AddResult(f[k - 1], ns[k], full)
    BY <1>6
  <2> HIDE DEF After
  <2>2. 0 \in 0..n /\ \A k \in 1..n : k \in 0..n /\ k # 0
    BY <1>1
  <2> QED BY <2>1, <2>2
<1> HIDE DEF After, G
<1> DEFINE S == {j \in Nat : j <= n => /\ Holds(f[j], Whole(ms, SubSeq(ns, 1, j)), B, size)
                                       /\ f[j].storeFirst = r.storeFirst}
<1>9. 0 \in S
  <2>1. SubSeq(ns, 1, 0) = <<>>
    BY SubSeqEmpty
  <2>2. Whole(ms, <<>>) = ms
    BY <1>1, ConcatEmptySeq DEF Whole
  <2> QED BY <1>8, <2>1, <2>2
<1>10. ASSUME NEW j \in Nat, j \in S PROVE j + 1 \in S
  <2>1. SUFFICES ASSUME j + 1 <= n
                 PROVE  /\ Holds(f[j + 1], Whole(ms, SubSeq(ns, 1, j + 1)), B, size)
                        /\ f[j + 1].storeFirst = r.storeFirst
    OBVIOUS
  <2> DEFINE xs == Whole(ms, SubSeq(ns, 1, j))
             x == ns[j + 1]
  <2>2. j < n /\ j <= n /\ j + 1 \in 1..n /\ (j + 1) - 1 = j
    BY <1>1, <2>1
  <2>3. x \in R /\ Whole(ms, SubSeq(ns, 1, j + 1)) = Append(xs, x)
    <3>1. ns \in Seq(R) /\ j < Len(ns)
      BY <2>2 DEF R, n
    <3> QED BY <1>1, <3>1, OneMore
  <2>4. Holds(f[j], xs, B, size) /\ f[j].storeFirst = r.storeFirst
    BY <1>10, <2>2
  <2>5. f[j + 1] = AddResult(f[j], x, full)
    BY <1>8, <2>2
  <2> HIDE DEF xs, x, S
  <2>6. x \in Record3(B, size)
    BY <2>3 DEF R
  <2>7. /\ Holds(AddResult(f[j], x, full), Append(xs, x), B, size)
        /\ AddResult(f[j], x, full).storeFirst = f[j].storeFirst
    BY <2>4, <2>6, AddResultHolds
  <2> QED BY <2>3, <2>4, <2>5, <2>7
<1> HIDE DEF S
<1>11. n \in S
  BY <1>1, <1>9, <1>10, EveryNatural
<1>12. SubSeq(ns, 1, n) = ns
  <2>1. ns \in Seq(R)
    BY DEF R
  <2> QED BY <2>1, SubSeqFull DEF n
<1>13. Holds(f[n], Whole(ms, SubSeq(ns, 1, n)), B, size) /\ f[n].storeFirst = r.storeFirst
  <2>1. n <= n
    BY <1>1
  <2> QED BY <1>11, <2>1 DEF S
<1>14. Whole(ms, SubSeq(ns, 1, n)) = ms \o ns
  BY <1>12 DEF Whole
<1> QED BY <1>7, <1>13, <1>14
-----------------------------------------------------------------------------
(* Finalizing a writer, and what a reader finds in its files. *)

\* The files of a shard hold the matches ms.
Stored(s, ms, B, size) ==
    /\ ms \in Seq(Record3(B, size))
    /\ s.count = Len(ms) /\ s.offs \in Seq(Nat) /\ Len(s.offs) = Len(ms)
    /\ s.vals \in Seq(B) /\ Laid(s.vals, ValuesOf(ms), size)
    /\ s.hasFirst \in BOOLEAN
    /\ s.hasFirst => s.firsts \in Seq(B) /\ Laid(s.firsts, FirstsOf(ms), size)
    /\ Closes(s.frames, s.offs, ms)

\* A match as it is read: without a stream of first values, the value stands for it.
Seen(m, hasFirst) == Match(m.addr, m.val, IF hasFirst THEN m.first ELSE m.val)
AllSeen(ms, hasFirst) == [i \in 1..Len(ms) |-> Seen(ms[i], hasFirst)]

LEMMA FinalizeStored ==
    ASSUME NEW B, NEW size \in Nat \ {0}, NEW r, NEW ms, NEW full, Holds(r, ms, B, size),
           NEW f, f = Finalize(r, full), ~f.err
    PROVE  /\ Stored(ShardOf(f), ms, B, size) /\ ShardOf(f).hasFirst = r.storeFirst
           /\ f.framesFile = f.frames
<1> DEFINE w == Flush(r, full)
           all == ClosedFrames(w)
           save == "offsets" \in w.fds /\ all # <<>>
<1>1. /\ Holds(w, ms, B, size) /\ w.obuf = <<>> /\ w.vbuf = <<>> /\ w.fbuf = <<>>
      /\ w.storeFirst = r.storeFirst
  BY FlushHolds
<1>2. f = [w EXCEPT !.frames = all, !.open = [base |-> 0, count |-> 0],
                    !.framesFile = IF save /\ "frames" \notin full THEN all ELSE <<>>,
                    !.err = w.err \/ (save /\ "frames" \in full)]
  BY DEF Finalize
<1> HIDE DEF w
<1>3. w \in Writer(B) /\ Sound(w, B) /\ ms \in Seq(Record3(B, size))
  BY <1>1 DEF Holds, Sound
<1>4. /\ w.offs \in Seq(Nat) /\ w.vals \in Seq(B) /\ w.firsts \in Seq(B)
      /\ w.frames \in Seq(Frame) /\ w.open \in Frame /\ w.open.base \in Nat /\ w.open.count \in Nat
      /\ w.storeFirst \in BOOLEAN /\ w.err \in BOOLEAN
  BY <1>3 DEF Writer, Frame
<1>5. "offsets" \in w.fds /\ ("firsts" \in w.fds <=> w.storeFirst)
  BY <1>3, <1>4 DEF Sound
<1> HIDE DEF all, save
<1>6. /\ f.offs = w.offs /\ f.vals = w.vals /\ f.firsts = w.firsts /\ f.fds = w.fds /\ f.count = w.count
      /\ f.frames = all
      /\ f.framesFile = (IF save /\ "frames" \notin full THEN all ELSE <<>>)
      /\ f.err = (w.err \/ (save /\ "frames" \in full))
  BY <1>2, <1>3 DEF Writer
<1>7. ~w.err /\ ~(save /\ "frames" \in full)
  BY <1>6
<1>8. f.framesFile = f.frames
  <2>1. CASE all = <<>>
    BY <1>6, <2>1
  <2>2. CASE all # <<>>
    BY <1>5, <1>6, <1>7, <2>2 DEF save
  <2> QED BY <2>1, <2>2
<1>9. /\ w.count = Len(ms) /\ Len(w.offs) = Len(ms)
      /\ Laid(w.vals, ValuesOf(ms), size)
      /\ w.storeFirst => Laid(w.firsts, FirstsOf(ms), size)
      /\ Framed(w.frames, w.open.base, w.open.count, w.offs, ms)
  <2>1. Exact(w, ms, size)
    BY <1>1, <1>7 DEF Holds
  <2>2. w.offs \o <<>> = w.offs /\ w.vals \o <<>> = w.vals /\ w.firsts \o <<>> = w.firsts
    BY <1>4, ConcatEmptySeq
  <2>3. w.offs \o w.obuf = w.offs /\ w.vals \o w.vbuf = w.vals /\ w.firsts \o w.fbuf = w.firsts
    BY <1>1, <2>2
  <2> QED BY <2>1, <2>3, Zenon DEF Exact
<1>10. Closes(all, w.offs, ms)
  <2>1. w.open = [base |-> w.open.base, count |-> w.open.count]
    BY <1>4 DEF Frame
  <2>2. all = IF w.open.count = 0 THEN w.frames
              ELSE Append(w.frames, [base |-> w.open.base, count |-> w.open.count])
    BY <2>1 DEF all, ClosedFrames
  <2> DEFINE R == Record3(B, size)
  <2>3. ms \in Seq(R)
    BY <1>3
  <2> HIDE DEF R
  <2> QED BY <1>4, <1>9, <2>2, <2>3, ClosedFramed
<1> DEFINE s == ShardOf(f)
<1>11. /\ s.offs = w.offs /\ s.vals = w.vals /\ s.firsts = w.firsts /\ s.frames = all
       /\ s.count = w.count /\ s.hasFirst = ("firsts" \in w.fds)
  BY <1>6 DEF ShardOf
<1> HIDE DEF s
<1>12. s.hasFirst \in BOOLEAN /\ s.hasFirst = w.storeFirst
  BY <1>4, <1>5, <1>11
<1>13. s.count = Len(ms) /\ s.offs \in Seq(Nat) /\ Len(s.offs) = Len(ms) /\ s.vals \in Seq(B)
  BY <1>4, <1>9, <1>11, Zenon
<1>14. Laid(s.vals, ValuesOf(ms), size) /\ Closes(s.frames, s.offs, ms)
  BY <1>9, <1>10, <1>11, Zenon
<1>15. s.hasFirst => s.firsts \in Seq(B) /\ Laid(s.firsts, FirstsOf(ms), size)
  BY <1>4, <1>9, <1>11, <1>12, Zenon
<1>16. Stored(s, ms, B, size)
  BY <1>3, <1>12, <1>13, <1>14, <1>15, Zenon DEF Stored
<1> QED BY <1>1, <1>8, <1>12, <1>16 DEF s

LEMMA ReadStored ==
    ASSUME NEW B, NEW size \in Nat \ {0}, NEW s, NEW ms, Stored(s, ms, B, size), NEW l \in Nat, l < Len(ms)
    PROVE  /\ l < Len(s.offs) /\ FrameBase(s.frames, l) + s.offs[l + 1] = ms[l + 1].addr
           /\ Record(s.vals, l, size) = ms[l + 1].val /\ RecordOrZero(s.vals, l, size) = ms[l + 1].val
           /\ Len(Record(s.vals, l, size)) = size
           /\ s.hasFirst => /\ Record(s.firsts, l, size) = ms[l + 1].first
                            /\ RecordOrZero(s.firsts, l, size) = ms[l + 1].first
                            /\ Len(Record(s.firsts, l, size)) = size
<1>1. ms \in Seq(Record3(B, size)) /\ Len(ms) \in Nat /\ l + 1 \in 1..Len(ms)
  BY LenProperties DEF Stored
<1>2. /\ ValuesOf(ms) \in Seq(Sized(B, size)) /\ Len(ValuesOf(ms)) = Len(ms) /\ ValuesOf(ms)[l + 1] = ms[l + 1].val
      /\ FirstsOf(ms) \in Seq(Sized(B, size)) /\ Len(FirstsOf(ms)) = Len(ms) /\ FirstsOf(ms)[l + 1] = ms[l + 1].first
  <2>1. \A i \in 1..Len(ms) : ms[i] \in Record3(B, size)
    BY <1>1, ElementOfSeq
  <2>2. \A i \in 1..Len(ms) : ms[i].val \in Sized(B, size) /\ ms[i].first \in Sized(B, size)
    BY <2>1 DEF Record3
  <2> DEFINE n == Len(ms)
             T == Sized(B, size)
  <2> HIDE DEF n, T
  <2>3. n \in Nat /\ l + 1 \in 1..n /\ \A i \in 1..n : ms[i].val \in T /\ ms[i].first \in T
    BY <1>1, <2>2 DEF n, T
  <2>4. ValuesOf(ms) = [i \in 1..n |-> ms[i].val] /\ FirstsOf(ms) = [i \in 1..n |-> ms[i].first]
    BY DEF ValuesOf, FirstsOf, n
  <2>5. ValuesOf(ms) \in Seq(T) /\ Len(ValuesOf(ms)) = n /\ ValuesOf(ms)[l + 1] = ms[l + 1].val
    BY <2>3, <2>4
  <2>6. FirstsOf(ms) \in Seq(T) /\ Len(FirstsOf(ms)) = n /\ FirstsOf(ms)[l + 1] = ms[l + 1].first
    BY <2>3, <2>4
  <2> QED BY <2>5, <2>6 DEF n, T
<1>3. /\ Record(s.vals, l, size) = ms[l + 1].val /\ RecordOrZero(s.vals, l, size) = ms[l + 1].val
      /\ Len(Record(s.vals, l, size)) = size
  <2>1. s.vals \in Seq(B) /\ Laid(s.vals, ValuesOf(ms), size) /\ l < Len(ValuesOf(ms))
    BY <1>2 DEF Stored
  <2> QED BY <1>2, <2>1, LaidRecord
<1>4. ASSUME s.hasFirst
      PROVE  /\ Record(s.firsts, l, size) = ms[l + 1].first /\ RecordOrZero(s.firsts, l, size) = ms[l + 1].first
             /\ Len(Record(s.firsts, l, size)) = size
  <2>1. s.firsts \in Seq(B) /\ Laid(s.firsts, FirstsOf(ms), size) /\ l < Len(FirstsOf(ms))
    BY <1>2, <1>4 DEF Stored
  <2> QED BY <1>2, <2>1, LaidRecord
<1>5. l < Len(s.offs) /\ FrameBase(s.frames, l) + s.offs[l + 1] = ms[l + 1].addr
  <2>1. Closes(s.frames, s.offs, ms) /\ Len(s.offs) = Len(ms)
    BY DEF Stored
  <2>2. Counted(s.frames) /\ Starts(s.frames)[Len(s.frames) + 1] = Len(ms)
    BY <2>1 DEF Closes
  <2>3. PartAt(s.frames, l) # {}
    BY <2>2, PartFound
  <2> DEFINE k == CHOOSE k \in PartAt(s.frames, l) : TRUE
  <2>4. k \in PartAt(s.frames, l)
    BY <2>3
  <2>5. FrameBase(s.frames, l) = s.frames[k].base
    BY <2>3 DEF FrameBase
  <2> HIDE DEF k
  <2>6. k \in 1..Len(s.frames) /\ Starts(s.frames)[k] <= l /\ l < Starts(s.frames)[k] + s.frames[k].count
    BY <2>4 DEF PartAt
  <2>7. s.frames[k].base + s.offs[l + 1] = ms[l + 1].addr
    BY <2>1, <2>6 DEF Closes
  <2> QED BY <2>1, <2>5, <2>7
<1> QED BY <1>3, <1>4, <1>5

\* Every shard of the result holds its matches.
Shards(res, mss, B, size) ==
    /\ Len(res.shards) \in Nat
    /\ \A k \in 1..Len(res.shards) : Stored(res.shards[k], mss[k], B, size)

LEMMA ShardsCounted ==
    ASSUME NEW B, NEW size \in Nat \ {0}, NEW res, NEW mss, Shards(res, mss, B, size)
    PROVE  /\ Counted(res.shards) /\ Count(res) \in Nat
           /\ Starts(res.shards) \in [1..Len(res.shards) + 1 -> Nat]
           /\ \A k \in 1..Len(res.shards) : res.shards[k].count = Len(mss[k]) /\ Len(mss[k]) \in Nat
<1>1. \A k \in 1..Len(res.shards) : res.shards[k].count = Len(mss[k]) /\ Len(mss[k]) \in Nat
  BY LenProperties DEF Shards, Stored
<1>2. Counted(res.shards) /\ Len(res.shards) \in Nat
  BY <1>1 DEF Shards, Counted
<1>3. Starts(res.shards) \in [1..Len(res.shards) + 1 -> Nat]
  BY <1>2, StartsDef
<1>4. Len(res.shards) + 1 \in 1..Len(res.shards) + 1
  BY <1>2
<1>5. Starts(res.shards)[Len(res.shards) + 1] \in Nat
  BY <1>3, <1>4
<1> QED BY <1>1, <1>2, <1>3, <1>5 DEF Count

\* The shard that is searched for index i.
AnyOf(parts) == CHOOSE k \in parts : TRUE
At(res, i) == AnyOf(PartAt(res.shards, i))

\* What is read at index i is a match of the shard i falls into.
ReadsAs(res, mss, i, B, size) ==
    LET k == At(res, i)
        l == i - Starts(res.shards)[k]
        m == mss[k][l + 1]
    IN  /\ k \in 1..Len(res.shards) /\ k \in PartAt(res.shards, i)
        /\ l \in Nat /\ l < Len(mss[k]) /\ m \in Record3(B, size)
        /\ Match(Address(res, i), Value(res, i, size), FirstValue(res, i, size))
             = Seen(m, res.shards[k].hasFirst)
        /\ CanRead(res, i, size)
        /\ Address(res, i) = m.addr
        /\ Record(Shard(res, i).vals, Local(res, i), size) = m.val
        /\ Shard(res, i) = res.shards[k]
        /\ Shard(res, i).hasFirst => /\ Record(Shard(res, i).firsts, Local(res, i), size) = m.first
                                     /\ Len(Record(Shard(res, i).firsts, Local(res, i), size)) = size

LEMMA ReadAt ==
    ASSUME NEW B, NEW size \in Nat \ {0}, NEW res, NEW mss, Shards(res, mss, B, size),
           NEW i \in Nat, i < Count(res)
    PROVE  ReadsAs(res, mss, i, B, size)
<1> DEFINE k == At(res, i)
           l == i - Starts(res.shards)[k]
           s == res.shards[k]
           m == mss[k][l + 1]
<1>1. Counted(res.shards) /\ i < Starts(res.shards)[Len(res.shards) + 1]
  BY ShardsCounted DEF Count
<1>2. PartAt(res.shards, i) # {}
  BY <1>1, PartFound
<1>3. k \in PartAt(res.shards, i)
  BY <1>2 DEF At, AnyOf
<1>4. Shard(res, i) = s /\ Local(res, i) = l
  BY DEF Shard, Local, At, AnyOf
<1> HIDE DEF k
<1>5. k \in 1..Len(res.shards) /\ Starts(res.shards)[k] <= i /\ i < Starts(res.shards)[k] + s.count
  BY <1>3 DEF PartAt
<1>6. s.count = Len(mss[k]) /\ Len(mss[k]) \in Nat /\ Starts(res.shards)[k] \in Nat
  <2>1. s.count = Len(mss[k]) /\ Len(mss[k]) \in Nat
    BY <1>5, ShardsCounted
  <2>2. Starts(res.shards) \in [1..Len(res.shards) + 1 -> Nat] /\ Len(res.shards) \in Nat
    BY ShardsCounted DEF Shards
  <2>3. k \in 1..Len(res.shards) + 1
    BY <1>5, <2>2
  <2> QED BY <2>1, <2>2, <2>3
<1>7. l \in Nat /\ l < Len(mss[k])
  <2> DEFINE st == Starts(res.shards)[k]
             n == Len(mss[k])
  <2>1. st \in Nat /\ n \in Nat /\ st <= i /\ i < st + n
    BY <1>5, <1>6
  <2> HIDE DEF st, n
  <2>2. i - st \in Nat /\ i - st < n
    BY <2>1
  <2> QED BY <2>2 DEF st, n
<1>8. Stored(s, mss[k], B, size)
  BY <1>5 DEF Shards
<1>9. m \in Record3(B, size)
  <2>1. mss[k] \in Seq(Record3(B, size))
    BY <1>8 DEF Stored
  <2> HIDE DEF l
  <2>2. l + 1 \in 1..Len(mss[k])
    BY <1>6, <1>7
  <2> QED BY <2>1, <2>2, ElementOfSeq
<1> HIDE DEF l, s
<1>10. /\ l < Len(s.offs) /\ FrameBase(s.frames, l) + s.offs[l + 1] = m.addr
       /\ Record(s.vals, l, size) = m.val /\ RecordOrZero(s.vals, l, size) = m.val
       /\ Len(Record(s.vals, l, size)) = size
       /\ s.hasFirst => /\ Record(s.firsts, l, size) = m.first /\ RecordOrZero(s.firsts, l, size) = m.first
                        /\ Len(Record(s.firsts, l, size)) = size
  BY <1>7, <1>8, ReadStored
<1> HIDE DEF m
<1>11. Address(res, i) = m.addr
  BY <1>4, <1>10 DEF Address
<1>12. Value(res, i, size) = m.val
  BY <1>4, <1>10 DEF Value
<1>13. FirstValue(res, i, size) = IF s.hasFirst THEN m.first ELSE m.val
  BY <1>4, <1>10, <1>12 DEF FirstValue
<1>14. Match(Address(res, i), Value(res, i, size), FirstValue(res, i, size)) = Seen(m, s.hasFirst)
  BY <1>11, <1>12, <1>13 DEF Seen
<1>15. CanRead(res, i, size)
  BY <1>2, <1>4, <1>10 DEF CanRead
<1> QED BY <1>3, <1>4, <1>5, <1>7, <1>9, <1>10, <1>11, <1>14, <1>15 DEF k, l, s, m, ReadsAs

(* What a scan keeps with one writer is what is read back: as many matches as *)
(* were given, in order, each at its address and with its values; unless the  *)
(* result is flagged.                                                         *)
THEOREM SingleReadsBack ==
    ASSUME NEW B, NEW size \in Nat \ {0}, NEW r, NEW ms, NEW full, Holds(r, ms, B, size),
           ~SingleResult(Finalize(r, full)).err
    PROVE  Matches(SingleResult(Finalize(r, full)), size) = AllSeen(ms, r.storeFirst)
<1> DEFINE f == Finalize(r, full)
           res == SingleResult(f)
           mss == <<ms>>
<1>1. res.shards = <<ShardOf(f)>> /\ res.err = f.err
  BY DEF SingleResult
<1>2. Stored(ShardOf(f), ms, B, size) /\ ShardOf(f).hasFirst = r.storeFirst
  <2>1. ~Finalize(r, full).err
    BY <1>1
  <2> QED BY <2>1, FinalizeStored
<1> HIDE DEF f, res
<1>3. Len(res.shards) = 1 /\ res.shards[1] = ShardOf(f)
  BY <1>1
<1>4. Shards(res, mss, B, size)
  BY <1>2, <1>3 DEF Shards
<1>5. mss[1] = ms
  OBVIOUS
<1> HIDE DEF mss
<1>6. Starts(res.shards)[1] = 0 /\ Count(res) = Len(ms) /\ Len(ms) \in Nat
  <2>1. Counted(res.shards) /\ res.shards[1].count = Len(ms) /\ Len(ms) \in Nat
    <3>1. 1 \in 1..Len(res.shards)
      BY <1>3
    <3>2. /\ Counted(res.shards)
          /\ \A k \in 1..Len(res.shards) : res.shards[k].count = Len(mss[k]) /\ Len(mss[k]) \in Nat
      BY <1>4, ShardsCounted
    <3> QED BY <1>5, <3>1, <3>2
  <2>2. Starts(res.shards)[1] = 0 /\ Starts(res.shards)[1 + 1] = Starts(res.shards)[1] + res.shards[1].count
    BY <1>3, <2>1, StartsDef
  <2> QED BY <1>3, <2>1, <2>2 DEF Count
<1>7. ASSUME NEW j \in 1..Len(ms)
      PROVE  Match(Address(res, j - 1), Value(res, j - 1, size), FirstValue(res, j - 1, size))
               = Seen(ms[j], r.storeFirst)
  <2> DEFINE i == j - 1
             k == At(res, i)
  <2>1. i \in Nat /\ i < Count(res) /\ i + 1 = j /\ i - 0 = i
    BY <1>6
  <2> HIDE DEF i
  <2>2. /\ k \in 1..Len(res.shards)
        /\ Match(Address(res, i), Value(res, i, size), FirstValue(res, i, size))
             = Seen(mss[k][i - Starts(res.shards)[k] + 1], res.shards[k].hasFirst)
    <3>1. ReadsAs(res, mss, i, B, size)
      BY <1>4, <2>1, ReadAt
    <3> QED BY <3>1 DEF ReadsAs
  <2>3. k = 1
    BY <1>3, <2>2
  <2> HIDE DEF k
  <2>4. mss[k][i - Starts(res.shards)[k] + 1] = ms[j] /\ res.shards[k].hasFirst = r.storeFirst
    BY <1>2, <1>3, <1>6, <1>5, <2>1, <2>3
  <2> QED BY <2>2, <2>4 DEF i
<1>8. Matches(res, size) = AllSeen(ms, r.storeFirst)
  BY <1>6, <1>7 DEF Matches, AllSeen
<1> QED BY <1>8 DEF f, res

(* The whole life of a result with one writer: a fresh directory, any number *)
(* of matches, the finalization, and whatever the disk refuses on the way.   *)
(* Not flagged, it reads back the matches; with a stream of first values,    *)
(* exactly as they were given.                                               *)
THEOREM WrittenReadsBack ==
    ASSUME NEW B, NEW size \in Nat \ {0}, NEW storeFirst \in BOOLEAN, NEW ms \in Seq(Record3(B, size)),
           NEW full, NEW fullAtEnd,
           ~SingleResult(Finalize(AddResults(NewResult(storeFirst, {}), ms, full), fullAtEnd)).err
    PROVE  LET res == SingleResult(Finalize(AddResults(NewResult(storeFirst, {}), ms, full), fullAtEnd))
           IN  /\ Matches(res, size) = AllSeen(ms, storeFirst)
               /\ storeFirst => Matches(res, size) = ms
<1> DEFINE r == NewResult(storeFirst, {})
           w == AddResults(r, ms, full)
           res == SingleResult(Finalize(w, fullAtEnd))
<1>1. Holds(r, <<>>, B, size) /\ r.storeFirst = storeFirst
  BY FreshHolds DEF NewResult
<1> HIDE DEF r
<1>2. Holds(w, ms, B, size) /\ w.storeFirst = storeFirst
  <2>1. Holds(w, <<>> \o ms, B, size) /\ w.storeFirst = r.storeFirst
    <3> DEFINE e == <<>>
    <3>1. Holds(r, e, B, size)
      BY <1>1
    <3> HIDE DEF e
    <3>2. Holds(w, e \o ms, B, size) /\ w.storeFirst = r.storeFirst
      BY <3>1, AddResultsHolds
    <3> QED BY <3>2 DEF e
  <2>2. <<>> \o ms = ms
    BY ConcatEmptySeq
  <2> HIDE DEF w
  <2> QED BY <1>1, <2>1, <2>2
<1> HIDE DEF w
<1>3. ~SingleResult(Finalize(w, fullAtEnd)).err
  BY DEF w, r
<1>4. Matches(res, size) = AllSeen(ms, w.storeFirst)
  BY <1>2, <1>3, SingleReadsBack
<1> HIDE DEF res
<1>5. ASSUME storeFirst PROVE AllSeen(ms, storeFirst) = ms
  <2>1. ASSUME NEW i \in 1..Len(ms) PROVE Seen(ms[i], TRUE) = ms[i]
    <3>1. ms[i] \in Record3(B, size)
      BY ElementOfSeq
    <3> QED BY <3>1 DEF Seen, Match, Record3
  <2>2. ms = [i \in 1..Len(ms) |-> ms[i]]
    BY LenProperties
  <2>3. AllSeen(ms, storeFirst) = [i \in 1..Len(ms) |-> Seen(ms[i], TRUE)]
    BY <1>5 DEF AllSeen, Seen
  <2> QED BY <2>1, <2>2, <2>3
<1>6. Matches(res, size) = AllSeen(ms, storeFirst)
  BY <1>2, <1>4
<1>7. storeFirst => Matches(res, size) = ms
  BY <1>5, <1>6
<1> QED BY <1>6, <1>7 DEF res, w, r

(* ShardReader::read: a batch of matches, old values and first values, is what *)
(* the same matches give one by one.                                           *)
THEOREM BatchReadsTheSame ==
    ASSUME NEW B, NEW size \in Nat \ {0}, NEW res, NEW mss, Shards(res, mss, B, size),
           NEW begin \in Nat, NEW n \in Nat, begin + n <= Count(res)
    PROVE  /\ \A i \in begin..begin + n - 1 : CanRead(res, i, size)
           /\ \A k \in 1..n : ReadBatch(res, begin, n, size)[k] = Matches(res, size)[begin + k]
<1> DEFINE batch == begin..begin + n - 1
           fst(i) == Record(Shard(res, i).firsts, Local(res, i), size)
           old(i) == Record(Shard(res, i).vals, Local(res, i), size)
           mates(i) == {j \in batch : PartAt(res.shards, j) = PartAt(res.shards, i)}
           kept(i) == Shard(res, i).hasFirst /\ \A j \in mates(i) : Len(fst(j)) = size
           seen(i) == Match(Address(res, i), Value(res, i, size), FirstValue(res, i, size))
           m(i) == mss[At(res, i)][i - Starts(res.shards)[At(res, i)] + 1]
<1>1. Count(res) \in Nat
  BY ShardsCounted
<1>2. \A i \in batch : i \in Nat /\ i < Count(res)
  BY <1>1
<1>3. ASSUME NEW i \in batch PROVE ReadsAs(res, mss, i, B, size)
  BY <1>2, ReadAt
<1>4. ASSUME NEW i \in batch
      PROVE  /\ CanRead(res, i, size) /\ Address(res, i) = m(i).addr /\ old(i) = m(i).val
             /\ seen(i) = Seen(m(i), Shard(res, i).hasFirst)
             /\ Shard(res, i) = res.shards[At(res, i)]
             /\ Shard(res, i).hasFirst => fst(i) = m(i).first /\ Len(fst(i)) = size
  BY <1>3 DEF ReadsAs
<1> HIDE DEF batch, fst, old, seen, m
<1>5. ASSUME NEW i \in batch PROVE kept(i) <=> Shard(res, i).hasFirst
  <2>1. SUFFICES ASSUME Shard(res, i).hasFirst, NEW j \in mates(i) PROVE Len(fst(j)) = size
    OBVIOUS
  <2>2. j \in batch /\ At(res, j) = At(res, i)
    BY DEF At
  <2>3. Shard(res, j) = Shard(res, i)
    BY <1>4, <2>2
  <2> QED BY <1>4, <2>1, <2>2, <2>3
<1>6. ASSUME NEW k \in 1..n
      PROVE  ReadBatch(res, begin, n, size)[k] = Matches(res, size)[begin + k]
  <2> DEFINE i == begin + k - 1
  <2>1. i \in batch
    BY DEF batch
  <2>2. ReadBatch(res, begin, n, size)[k] = Match(Address(res, i), old(i), IF kept(i) THEN fst(i) ELSE old(i))
    BY DEF ReadBatch, batch, fst, old
  <2>3. begin + k \in 1..Count(res) /\ (begin + k) - 1 = i
    BY <1>1
  <2>4. Matches(res, size)[begin + k] = seen(i)
    BY <2>3 DEF Matches, seen
  <2> HIDE DEF i, kept
  <2>5. Match(Address(res, i), old(i), IF kept(i) THEN fst(i) ELSE old(i)) = Seen(m(i), Shard(res, i).hasFirst)
    <3>1. (IF kept(i) THEN fst(i) ELSE old(i)) = IF Shard(res, i).hasFirst THEN m(i).first ELSE m(i).val
      BY <1>4, <1>5, <2>1
    <3> QED BY <1>4, <2>1, <3>1 DEF Seen
  <2> QED BY <1>4, <2>1, <2>2, <2>4, <2>5
<1> QED BY <1>4, <1>6 DEF batch
-----------------------------------------------------------------------------
(* Several writers, read as one list. *)

\* Flat is the sequences of seqs end to end: the k-th begins where the counts of s say.
Flat(flat, seqs, s) ==
    /\ Len(flat) = Starts(s)[Len(s) + 1]
    /\ \A k \in 1..Len(s) : \A i \in Nat :
          Starts(s)[k] <= i /\ i < Starts(s)[k] + s[k].count
             => flat[i + 1] = seqs[k][i - Starts(s)[k] + 1]

LEMMA Flattened ==
    ASSUME NEW T, NEW seqs \in Seq(Seq(T)), NEW s, Counted(s), Len(s) = Len(seqs),
           \A k \in 1..Len(s) : s[k].count = Len(seqs[k])
    PROVE  FlattenSeq(seqs) \in Seq(T) /\ Flat(FlattenSeq(seqs), seqs, s)
<1> DEFINE N == Len(seqs)
           A == Starts(s)
           G == [p \in Nat \X Seq(T) |-> IF p[1] \in 1..N THEN p[2] \o seqs[p[1]] ELSE p[2]]
           Next(f) == [k \in 1..N |-> IF k = 1 THEN seqs[k] ELSE f[k - 1] \o seqs[k]]
<1>1. N \in Nat /\ \A k \in 1..N : seqs[k] \in Seq(T)
  BY LenProperties, ElementOfSeq
<1>2. /\ A \in [1..N + 1 -> Nat] /\ A[1] = 0
      /\ \A k \in 1..N : A[k + 1] = A[k] + s[k].count /\ s[k].count \in Nat /\ A[k] \in Nat
  <2>1. /\ A \in [1..N + 1 -> Nat] /\ A[1] = 0 /\ \A k \in 1..N : A[k + 1] = A[k] + s[k].count
    BY StartsDef
  <2>2. \A k \in 1..N : s[k].count \in Nat /\ k \in 1..N + 1
    BY <1>1 DEF Counted
  <2> HIDE DEF A
  <2> QED BY <2>1, <2>2
<1>3. CASE N = 0
  <2>1. FlattenSeq(seqs) = seqs
    BY <1>3 DEF FlattenSeq
  <2>2. seqs = <<>> /\ seqs \in Seq(T) /\ Len(seqs) = 0
    BY <1>3, EmptySeq
  <2>3. Len(s) = 0 /\ A[Len(s) + 1] = 0
    BY <1>2, <1>3
  <2> QED BY <2>1, <2>2, <2>3 DEF Flat
<1>4. CASE N # 0
  <2>1. G \in [Nat \X Seq(T) -> Seq(T)]
    <3>1. ASSUME NEW p \in Nat \X Seq(T)
          PROVE  (IF p[1] \in 1..N THEN p[2] \o seqs[p[1]] ELSE p[2]) \in Seq(T)
      <4>1. p[2] \in Seq(T)
        OBVIOUS
      <4> HIDE DEF N
      <4>2. p[1] \in 1..N => seqs[p[1]] \in Seq(T)
        BY <1>1
      <4> QED BY <4>1, <4>2, ConcatProperties
    <3> QED BY <3>1
  <2>2. N - 1 \in Nat /\ 1 \in Nat /\ 1 + (N - 1) = N /\ 1 \in 1..N /\ seqs[1] \in Seq(T)
    BY <1>1, <1>4
  <2> HIDE DEF N, A
  <2>3. PICK f : Stepwise(f, Seq(T), seqs[1], G, 1, N - 1)
    <3> DEFINE V == Seq(T)
               v0 == seqs[1]
    <3>1. G \in [Nat \X V -> V] /\ v0 \in V
      BY <2>1, <2>2
    <3> HIDE DEF G, V, v0
    <3>2. \E f : Stepwise(f, V, v0, G, 1, N - 1)
      BY <2>2, <3>1, Recursion
    <3> QED BY <3>2 DEF V, v0
  <2>4. f \in [1..N -> Seq(T)] /\ \A k \in 1..N : f[k] = IF k = 1 THEN seqs[1] ELSE G[<<k, f[k - 1]>>]
    BY <2>2, <2>3 DEF Stepwise
  <2>5. ASSUME NEW k \in 1..N, k # 1 PROVE G[<<k, f[k - 1]>>] = f[k - 1] \o seqs[k]
    <3>1. k - 1 \in 1..N /\ k \in Nat
      BY <1>1, <2>5
    <3>2. f[k - 1] \in Seq(T)
      BY <2>4, <3>1
    <3> QED BY <3>1, <3>2
  <2>6. f = Next(f)
    <3> HIDE DEF G
    <3>1. \A k \in 1..N : f[k] = IF k = 1 THEN seqs[k] ELSE f[k - 1] \o seqs[k]
      BY <2>4, <2>5
    <3>2. f = [k \in 1..N |-> f[k]]
      BY <2>4
    <3> QED BY <3>1, <3>2
  <2>7. \E g : g = Next(g)
    BY <2>6
  <2> DEFINE h == CHOOSE g : g = Next(g)
  <2>8. h = Next(h)
    <3> HIDE DEF Next
    <3> QED BY <2>7
  <2>9. FlattenSeq(seqs) = h[N]
    BY <1>4 DEF FlattenSeq, N
  <2> HIDE DEF h
  <2>10. h[1] = seqs[1] /\ \A k \in 1..N : k # 1 => h[k] = h[k - 1] \o seqs[k]
    <3>1. \A k \in 1..N : h[k] = IF k = 1 THEN seqs[k] ELSE h[k - 1] \o seqs[k]
      BY <2>8
    <3> HIDE DEF Next
    <3> QED BY <2>2, <3>1
  <2> HIDE DEF Next, G
  <2> DEFINE Upto(j) ==
                 /\ h[j] \in Seq(T) /\ Len(h[j]) = A[j + 1]
                 /\ \A k \in 1..j : A[k] + s[k].count <= A[j + 1]
                 /\ \A k \in 1..j : \A i \in Nat :
                       A[k] <= i /\ i < A[k] + s[k].count => h[j][i + 1] = seqs[k][i - A[k] + 1]
             S == {j \in Nat : j + 1 <= N => Upto(j + 1)}
  <2>11. 0 \in S
    <3>1. A[1 + 1] = s[1].count /\ A[1] = 0 /\ s[1].count \in Nat /\ s[1].count = Len(seqs[1])
      BY <1>2, <2>2 DEF N
    <3>2. h[1] \in Seq(T) /\ Len(h[1]) = A[1 + 1]
      BY <2>2, <2>10, <3>1
    <3>3. A[1] + s[1].count <= A[1 + 1]
      BY <3>1
    <3>4. ASSUME NEW i \in Nat, A[1] <= i, i < A[1] + s[1].count
          PROVE  h[1][i + 1] = seqs[1][i - A[1] + 1]
      BY <2>10, <3>1
    <3>5. \A k \in 1..1 : k = 1
      OBVIOUS
    <3>6. Upto(1)
      BY <3>2, <3>3, <3>4, <3>5
    <3> HIDE DEF Upto
    <3>7. 0 + 1 = 1
      OBVIOUS
    <3> QED BY <3>6, <3>7
  <2>12. ASSUME NEW j \in Nat, j \in S PROVE j + 1 \in S
    <3>1. SUFFICES ASSUME (j + 1) + 1 <= N PROVE Upto((j + 1) + 1)
      OBVIOUS
    <3> DEFINE b == j + 1
               c == b + 1
    <3>2. b \in 1..N /\ c \in 1..N /\ c # 1 /\ c - 1 = b /\ b + 1 = c /\ c + 1 \in 1..N + 1
      BY <1>1, <3>1
    <3>3. Upto(b)
      <4>1. j + 1 <= N
        BY <1>1, <3>1
      <4> HIDE DEF Upto
      <4> QED BY <2>12, <4>1
    <3> HIDE DEF S, b
    <3>4. h[b] \in Seq(T) /\ Len(h[b]) = A[c]
      BY <3>2, <3>3
    <3>5. seqs[c] \in Seq(T) /\ s[c].count = Len(seqs[c]) /\ A[c + 1] = A[c] + s[c].count
          /\ s[c].count \in Nat /\ A[c] \in Nat
      BY <1>1, <1>2, <3>2 DEF N
    <3>6. h[c] = h[b] \o seqs[c]
      BY <2>10, <3>2
    <3> HIDE DEF c
    <3>7. /\ h[c] \in Seq(T) /\ Len(h[c]) = A[c + 1]
          /\ \A x \in 1..A[c] + s[c].count :
                h[c][x] = IF x <= A[c] THEN h[b][x] ELSE seqs[c][x - A[c]]
      <4> DEFINE u == h[b]
                 v == seqs[c]
      <4>1. u \in Seq(T) /\ v \in Seq(T)
        BY <3>4, <3>5
      <4> HIDE DEF u, v
      <4>2. /\ u \o v \in Seq(T) /\ Len(u \o v) = Len(u) + Len(v)
            /\ \A i \in 1..Len(u) + Len(v) : (u \o v)[i] = IF i <= Len(u) THEN u[i] ELSE v[i - Len(u)]
        BY <4>1, ConcatProperties
      <4>3. h[c] = u \o v /\ Len(u) = A[c] /\ Len(v) = s[c].count
        BY <3>4, <3>5, <3>6 DEF u, v
      <4> QED BY <3>5, <4>2, <4>3 DEF u, v
    <3>8. ASSUME NEW k \in 1..b
          PROVE  /\ A[k] + s[k].count <= A[c] /\ A[k] \in Nat /\ s[k].count \in Nat
                 /\ \A i \in Nat : A[k] <= i /\ i < A[k] + s[k].count => h[b][i + 1] = seqs[k][i - A[k] + 1]
      <4>1. k \in 1..N
        BY <1>1, <3>2
      <4> QED BY <1>2, <3>2, <3>3, <4>1
    <3> HIDE DEF Upto
    <3>9. ASSUME NEW k \in 1..c PROVE A[k] + s[k].count <= A[c + 1]
      <4>1. CASE k \in 1..b
        <5>1. A[k] + s[k].count <= A[c] /\ A[k] \in Nat /\ s[k].count \in Nat
          BY <3>8, <4>1
        <5> QED BY <3>5, <5>1
      <4>2. CASE k = c
        BY <3>5, <4>2
      <4>3. k \in 1..b \/ k = c
        BY <3>2
      <4> QED BY <4>1, <4>2, <4>3
    <3>10. ASSUME NEW k \in 1..c, NEW i \in Nat, A[k] <= i, i < A[k] + s[k].count
           PROVE  h[c][i + 1] = seqs[k][i - A[k] + 1]
      <4>1. CASE k \in 1..b
        <5>1. /\ A[k] + s[k].count <= A[c] /\ A[k] \in Nat /\ s[k].count \in Nat
              /\ h[b][i + 1] = seqs[k][i - A[k] + 1]
          BY <3>8, <3>10, <4>1
        <5>2. i + 1 \in 1..A[c] + s[c].count /\ i + 1 <= A[c]
          <6> DEFINE ak == A[k]
                     nk == s[k].count
                     ac == A[c]
                     nc == s[c].count
          <6>1. ak \in Nat /\ nk \in Nat /\ ac \in Nat /\ nc \in Nat /\ i < ak + nk /\ ak + nk <= ac
            BY <3>5, <3>10, <5>1
          <6> HIDE DEF ak, nk, ac, nc
          <6>2. i + 1 \in 1..ac + nc /\ i + 1 <= ac
            BY <6>1
          <6> QED BY <6>2 DEF ac, nc
        <5> QED BY <3>7, <5>1, <5>2
      <4>2. CASE k = c
        <5>1. A[c] <= i /\ i < A[c] + s[c].count
          BY <3>10, <4>2
        <5>2. i + 1 \in 1..A[c] + s[c].count /\ ~(i + 1 <= A[c]) /\ (i + 1) - A[c] = i - A[c] + 1
          BY <3>5, <5>1
        <5>3. h[c][i + 1] = seqs[c][(i + 1) - A[c]]
          BY <3>7, <5>2
        <5> QED BY <4>2, <5>2, <5>3
      <4>3. k \in 1..b \/ k = c
        BY <3>2
      <4> QED BY <4>1, <4>2, <4>3
    <3>11. Upto(c)
      BY <3>7, <3>9, <3>10 DEF Upto
    <3> QED BY <3>11 DEF b, c
  <2> HIDE DEF S, Upto
  <2>13. N - 1 \in S
    BY <2>2, <2>11, <2>12, EveryNatural
  <2>14. (N - 1) + 1 = N /\ (N - 1) + 1 <= N
    BY <1>1
  <2>15. Upto(N)
    BY <2>13, <2>14 DEF S
  <2> QED BY <2>9, <2>15 DEF Upto, Flat, N, A
<1> QED BY <1>3, <1>4

LEMMA AllSeenSeq ==
    ASSUME NEW B, NEW size \in Nat, NEW ms \in Seq(Record3(B, size)), NEW hasFirst \in BOOLEAN
    PROVE  AllSeen(ms, hasFirst) \in Seq(Record3(B, size)) /\ Len(AllSeen(ms, hasFirst)) = Len(ms)
<1> DEFINE R == Record3(B, size)
           n == Len(ms)
           e == AllSeen(ms, hasFirst)
<1>1. ASSUME NEW i \in 1..n PROVE Seen(ms[i], hasFirst) \in R
  <2>1. ms[i] \in Record3(B, size)
    BY ElementOfSeq
  <2> QED BY <2>1 DEF Seen, Match, Record3
<1>2. n \in Nat
  BY LenProperties
<1>3. e = [i \in 1..n |-> Seen(ms[i], hasFirst)]
  BY DEF AllSeen
<1> HIDE DEF R, n, e
<1>4. e \in Seq(R) /\ Len(e) = n
  BY <1>1, <1>2, <1>3
<1> QED BY <1>4 DEF R, n, e

\* Shards with the same kind of streams are read as one list.
LEMMA ReadShards ==
    ASSUME NEW B, NEW size \in Nat \ {0}, NEW res, NEW mss \in Seq(Seq(Record3(B, size))),
           NEW hasFirst \in BOOLEAN, Shards(res, mss, B, size), Len(res.shards) = Len(mss),
           \A k \in 1..Len(res.shards) : res.shards[k].hasFirst = hasFirst
    PROVE  Matches(res, size) = FlattenSeq([k \in 1..Len(mss) |-> AllSeen(mss[k], hasFirst)])
<1> DEFINE R == Record3(B, size)
           N == Len(mss)
           s == res.shards
           seqs == [k \in 1..N |-> AllSeen(mss[k], hasFirst)]
           flat == FlattenSeq(seqs)
           all == Matches(res, size)
<1>1. N \in Nat /\ \A k \in 1..N : mss[k] \in Seq(R)
  BY LenProperties, ElementOfSeq
<1>2. \A k \in 1..N : AllSeen(mss[k], hasFirst) \in Seq(R) /\ Len(AllSeen(mss[k], hasFirst)) = Len(mss[k])
  BY <1>1, AllSeenSeq
<1>3. seqs \in Seq(Seq(R)) /\ Len(seqs) = N /\ \A k \in 1..N : Len(seqs[k]) = Len(mss[k])
  <2> DEFINE T == Seq(R)
             e(k) == AllSeen(mss[k], hasFirst)
  <2>1. \A k \in 1..N : e(k) \in T /\ Len(e(k)) = Len(mss[k])
    BY <1>2
  <2> HIDE DEF T, e, N
  <2>2. [k \in 1..N |-> e(k)] \in Seq(T) /\ Len([k \in 1..N |-> e(k)]) = N
    BY <1>1, <2>1
  <2> QED BY <2>1, <2>2 DEF T, e
<1>4. /\ Counted(s) /\ Count(res) \in Nat /\ Starts(s) \in [1..Len(s) + 1 -> Nat]
      /\ \A k \in 1..Len(s) : s[k].count = Len(mss[k]) /\ Len(mss[k]) \in Nat
  BY ShardsCounted, Zenon
<1>5. flat \in Seq(R) /\ Flat(flat, seqs, s)
  <2>1. Len(s) = Len(seqs) /\ \A k \in 1..Len(s) : s[k].count = Len(seqs[k])
    BY <1>3, <1>4
  <2> HIDE DEF seqs, R, s
  <2> QED BY <1>3, <1>4, <2>1, Flattened
<1>6. Len(flat) = Count(res)
  BY <1>5 DEF Flat, Count
<1> HIDE DEF flat
<1>7. ASSUME NEW j \in 1..Count(res)
      PROVE  Match(Address(res, j - 1), Value(res, j - 1, size), FirstValue(res, j - 1, size)) = flat[j]
  <2> DEFINE i == j - 1
             k == At(res, i)
             l == i - Starts(s)[k]
  <2>1. i \in Nat /\ i < Count(res) /\ i + 1 = j
    BY <1>4
  <2> HIDE DEF i
  <2>2. ReadsAs(res, mss, i, B, size)
    BY <2>1, ReadAt
  <2>3. /\ k \in 1..Len(s) /\ k \in PartAt(s, i) /\ l \in Nat /\ l < Len(mss[k])
        /\ Match(Address(res, i), Value(res, i, size), FirstValue(res, i, size))
             = Seen(mss[k][l + 1], s[k].hasFirst)
    BY <2>2 DEF ReadsAs
  <2>4. Starts(s)[k] <= i /\ i < Starts(s)[k] + s[k].count
    BY <2>3 DEF PartAt
  <2>5. flat[i + 1] = seqs[k][l + 1]
    <3> HIDE DEF k, seqs
    <3> QED BY <1>5, <2>1, <2>3, <2>4 DEF Flat
  <2>6. seqs[k][l + 1] = Seen(mss[k][l + 1], hasFirst)
    <3> HIDE DEF k, l
    <3>1. l + 1 \in 1..Len(mss[k]) /\ k \in 1..N
      <4>1. k \in 1..N
        BY <2>3
      <4>2. Len(mss[k]) \in Nat
        BY <1>1, <4>1, LenProperties
      <4> QED BY <2>3, <4>1, <4>2
    <3>2. seqs[k] = AllSeen(mss[k], hasFirst)
      BY <3>1
    <3> HIDE DEF seqs
    <3> QED BY <3>1, <3>2 DEF AllSeen
  <2>7. s[k].hasFirst = hasFirst
    BY <2>3
  <2> HIDE DEF k, l, seqs
  <2>8. Match(Address(res, i), Value(res, i, size), FirstValue(res, i, size)) = flat[i + 1]
    BY <2>3, <2>5, <2>6, <2>7
  <2> QED BY <2>1, <2>8 DEF i
<1>8. all = flat
  <2>1. all = [j \in 1..Count(res) |-> flat[j]]
    BY <1>7 DEF Matches
  <2>2. flat = [j \in 1..Len(flat) |-> flat[j]]
    BY <1>5, LenProperties
  <2> HIDE DEF all
  <2> QED BY <1>6, <2>1, <2>2
<1> QED BY <1>8 DEF all, flat

\* A worker's shard, with the frame table of its file in place of the writer's.
WorkerShard(f) == [ShardOf(f) EXCEPT !.frames = f.framesFile]

LEMMA ShardStored ==
    ASSUME NEW B, NEW size \in Nat \ {0}, NEW r, NEW ms, NEW full, Holds(r, ms, B, size),
           NEW f, f = Finalize(r, full), ~f.err
    PROVE  Stored(WorkerShard(f), ms, B, size) /\ WorkerShard(f).hasFirst = r.storeFirst
<1>1. Stored(ShardOf(f), ms, B, size) /\ ShardOf(f).hasFirst = r.storeFirst /\ f.framesFile = f.frames
  BY FinalizeStored
<1>2. WorkerShard(f) = ShardOf(f)
  BY <1>1 DEF WorkerShard, ShardOf
<1> QED BY <1>1, <1>2

\* Worker k was given the matches mss[k], and its writer was finalized.
Finished(parts, mss, storeFirst, B, size) ==
    /\ parts = [k \in 1..Len(mss) |-> parts[k]]
    /\ \A k \in 1..Len(mss) : \E r, full :
          Holds(r, mss[k], B, size) /\ r.storeFirst = storeFirst /\ parts[k] = Finalize(r, full)

(* A parallel scan's result, one writer per worker, whatever the disks refused  *)
(* while they wrote or finished and however much of the manifest was written:   *)
(* not flagged, it reads back every worker's matches, worker by worker.         *)
THEOREM ShardedReadsBack ==
    ASSUME NEW B, NEW size \in Nat \ {0}, NEW storeFirst \in BOOLEAN,
           NEW mss \in Seq(Seq(Record3(B, size))), NEW parts, NEW lines \in 0..Len(mss),
           Finished(parts, mss, storeFirst, B, size), ~ShardedResult(parts, lines).err
    PROVE  Matches(ShardedResult(parts, lines), size)
             = FlattenSeq([k \in 1..Len(mss) |-> AllSeen(mss[k], storeFirst)])
<1> DEFINE N == Len(mss)
           res == ShardedResult(parts, lines)
           s == res.shards
           shard(k) == WorkerShard(parts[k])
<1>1. N \in Nat
  BY LenProperties
<1>2. Len(parts) = N /\ DOMAIN parts = 1..N
  <2> HIDE DEF N
  <2>1. parts = [k \in 1..N |-> parts[k]]
    BY DEF Finished, N
  <2> QED BY <1>1, <2>1
<1>3. ~(lines < N \/ \E k \in 1..N : parts[k].err)
  <2>1. res.err = (lines < Len(parts) \/ \E k \in DOMAIN parts : parts[k].err)
    BY DEF ShardedResult
  <2>2. ~res.err
    OBVIOUS
  <2> HIDE DEF res, N
  <2> QED BY <1>2, <2>1, <2>2
<1>4. lines = N
  BY <1>1, <1>3
<1>5. ASSUME NEW k \in 1..N
      PROVE  Stored(shard(k), mss[k], B, size) /\ shard(k).hasFirst = storeFirst
  <2> DEFINE ms == mss[k]
             f == parts[k]
  <2>1. PICK r, full : Holds(r, ms, B, size) /\ r.storeFirst = storeFirst /\ f = Finalize(r, full)
    BY DEF Finished
  <2>2. ~f.err
    BY <1>3
  <2> HIDE DEF ms, f
  <2>3. Stored(WorkerShard(f), ms, B, size) /\ WorkerShard(f).hasFirst = r.storeFirst
    BY <2>1, <2>2, ShardStored
  <2> QED BY <2>1, <2>3 DEF ms, f
<1>6. Len(s) = N /\ \A k \in 1..N : s[k] = shard(k)
  <2> HIDE DEF N
  <2>1. s = [k \in 1..N |-> shard(k)]
    BY <1>4 DEF ShardedResult, WorkerShard
  <2> HIDE DEF res, shard
  <2>2. Len([k \in 1..N |-> shard(k)]) = N
    BY <1>1
  <2> QED BY <2>1, <2>2
<1> HIDE DEF res, shard
<1>7. Shards(res, mss, B, size)
  <2> HIDE DEF N
  <2> QED BY <1>1, <1>5, <1>6 DEF Shards
<1>8. \A k \in 1..Len(s) : s[k].hasFirst = storeFirst
  <2> HIDE DEF N
  <2> QED BY <1>5, <1>6
<1>9. Matches(res, size) = FlattenSeq([k \in 1..Len(mss) |-> AllSeen(mss[k], storeFirst)])
  <2>1. Len(res.shards) = Len(mss)
    BY <1>6
  <2> QED BY <1>7, <1>8, <2>1, ReadShards
<1> QED BY <1>9 DEF res
=============================================================================
