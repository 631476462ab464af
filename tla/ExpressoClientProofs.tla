------------------------ MODULE ExpressoClientProofs ------------------------
(***************************************************************************)
(* Proofs about send_req and decode_chunked for every request, response    *)
(* and size of buffer.  What recursive definitions compute is proved by    *)
(* induction over sets of numbers.                                         *)
(***************************************************************************)
EXTENDS ExpressoClient, DecoderInputs, SequenceTheorems, WellFoundedInduction, TLAPS

-----------------------------------------------------------------------------
(***************************************************************************)
(* Induction, as a fact about a set of numbers: what the library states    *)
(* with a predicate as its parameter.                                      *)
(***************************************************************************)
LEMMA Least ==
  ASSUME NEW S, S \subseteq Nat, S # {}
  PROVE  \E m \in S : \A k \in S : m <= k
<1> DEFINE R == {ss \in Nat \X Nat : ss[1] < ss[2]}
<1>1. IsWellFoundedOn(R, Nat)
  BY NatLessThanWellFounded DEF OpToRel
<1> HIDE DEF R
<1>2. PICK m \in S : \A k \in S : ~ (<<k, m>> \in R)
  BY <1>1, WFMin
<1>3. \A k \in S : m <= k
  <2> TAKE k \in S
  <2>1. ~ (k < m)
    BY <1>2 DEF R
  <2> QED
    BY <2>1
<1> QED
  BY <1>3

LEMMA Induction ==
  ASSUME NEW S, 0 \in S, \A n \in Nat : n \in S => n + 1 \in S
  PROVE  \A n \in Nat : n \in S
<1> SUFFICES ASSUME Nat \ S # {} PROVE FALSE
  OBVIOUS
<1>1. PICK m \in Nat \ S : \A k \in Nat \ S : m <= k
  BY Least
<1>2. m # 0 /\ m - 1 \in Nat
  BY <1>1
<1>3. m - 1 \in S
  BY <1>1, <1>2
<1>4. (m - 1) + 1 \in S
  BY <1>2, <1>3
<1> QED
  BY <1>4

-----------------------------------------------------------------------------
(***************************************************************************)
(* A function that is defined by recursion over 0..n, where step[i] makes  *)
(* its value at i of the one before, exists and has the type of the steps. *)
(***************************************************************************)
Iterates(f, n, first, step) ==
  f = [i \in 0..n |-> IF i = 0 THEN first ELSE step[i][f[i - 1]]]

LEMMA IterationExists ==
  ASSUME NEW n \in Nat, NEW T, NEW first \in T, NEW step \in [1..n -> [T -> T]]
  PROVE  \E f \in [0..n -> T] : Iterates(f, n, first, step)
<1> DEFINE Upto(f, k) == /\ f \in [0..k -> T] /\ f[0] = first
                         /\ \A i \in 1..k : f[i] = step[i][f[i - 1]]
           K == {k \in Nat : k <= n => \E f : Upto(f, k)}
<1>1. 0 \in K
  <2>1. Upto([i \in 0..0 |-> first], 0)
    OBVIOUS
  <2> HIDE DEF Upto
  <2> QED
    BY <2>1
<1>2. ASSUME NEW k \in Nat, k \in K PROVE k + 1 \in K
  <2> SUFFICES ASSUME k + 1 <= n PROVE \E f : Upto(f, k + 1)
    OBVIOUS
  <2>1. PICK f : Upto(f, k)
    BY <1>2
  <2> DEFINE h == [i \in 0..(k + 1) |-> IF i = k + 1 THEN step[k + 1][f[k]] ELSE f[i]]
  <2>2. f[k] \in T /\ step[k + 1][f[k]] \in T
    BY <2>1
  <2>3. h \in [0..(k + 1) -> T] /\ h[0] = first
    BY <2>1, <2>2
  <2>4. ASSUME NEW i \in 1..(k + 1) PROVE h[i] = step[i][h[i - 1]]
    <3>1. h[i - 1] = f[i - 1] /\ i - 1 \in 0..k
      OBVIOUS
    <3>2. CASE i = k + 1
      BY <3>1, <3>2
    <3>3. CASE i # k + 1
      <4>1. i \in 1..k /\ h[i] = f[i]
        BY <3>3
      <4> QED
        BY <2>1, <3>1, <4>1
    <3> QED
      BY <3>2, <3>3
  <2>5. Upto(h, k + 1)
    BY <2>3, <2>4
  <2> QED
    BY <2>5
<1>3. n \in K
  <2> HIDE DEF K
  <2> QED
    BY <1>1, <1>2, Induction
<1>4. PICK f : Upto(f, n)
  BY <1>3
<1>5. Iterates(f, n, first, step)
  BY <1>4 DEF Iterates
<1> QED
  BY <1>4, <1>5

LEMMA IterationType ==
  ASSUME NEW n \in Nat, NEW T, NEW first \in T, NEW step \in [1..n -> [T -> T]],
         NEW f, Iterates(f, n, first, step)
  PROVE  /\ f \in [0..n -> T] /\ f[0] = first
         /\ \A i \in 1..n : f[i] = step[i][f[i - 1]]
<1> DEFINE K == {k \in Nat : k <= n => f[k] \in T}
<1>0. /\ f[0] = first
      /\ \A i \in 1..n : f[i] = step[i][f[i - 1]]
  BY DEF Iterates
<1>1. 0 \in K
  BY <1>0
<1>2. ASSUME NEW k \in Nat, k \in K PROVE k + 1 \in K
  <2> SUFFICES ASSUME k + 1 <= n PROVE f[k + 1] \in T
    OBVIOUS
  <2>1. f[k] \in T /\ k + 1 \in 1..n /\ (k + 1) - 1 = k
    BY <1>2
  <2>2. f[k + 1] = step[k + 1][f[k]]
    BY <1>0, <2>1
  <2> QED
    BY <2>1, <2>2
<1>3. \A k \in Nat : k \in K
  <2> HIDE DEF K
  <2> QED
    BY <1>1, <1>2, Induction
<1>4. f = [i \in 0..n |-> f[i]]
  BY DEF Iterates
<1>5. \A i \in 0..n : f[i] \in T
  BY <1>3
<1>6. f \in [0..n -> T]
  BY <1>4, <1>5
<1> QED
  BY <1>0, <1>6

-----------------------------------------------------------------------------
(***************************************************************************)
(* FlattenSeq appends its sequences one by one.                            *)
(***************************************************************************)
IsFlattening(f, S, ss) ==
  /\ f \in [0..Len(ss) -> Seq(S)] /\ f[0] = <<>>
  /\ \A i \in 1..Len(ss) : f[i] = f[i - 1] \o ss[i]

LEMMA FlatteningExists ==
  ASSUME NEW S, NEW ss \in Seq(Seq(S)) PROVE \E f : IsFlattening(f, S, ss)
<1> DEFINE step == [i \in 1..Len(ss) |-> [t \in Seq(S) |-> t \o ss[i]]]
<1>1. Len(ss) \in Nat /\ \A i \in 1..Len(ss) : ss[i] \in Seq(S)
  BY LenProperties, ElementOfSeq
<1>2. \A i \in 1..Len(ss), t \in Seq(S) : t \o ss[i] \in Seq(S)
  BY <1>1, ConcatProperties
<1>3. step \in [1..Len(ss) -> [Seq(S) -> Seq(S)]]
  BY <1>2, Zenon
<1>4. \A i \in 1..Len(ss), t \in Seq(S) : step[i][t] = t \o ss[i]
  BY Zenon
<1> HIDE DEF step
<1>5. <<>> \in Seq(S)
  BY EmptySeq
<1>6. PICK f : Iterates(f, Len(ss), <<>>, step)
  BY <1>1, <1>3, <1>5, IterationExists
<1>7. /\ f \in [0..Len(ss) -> Seq(S)] /\ f[0] = <<>>
      /\ \A i \in 1..Len(ss) : f[i] = step[i][f[i - 1]]
  <2>1. f \in [0..Len(ss) -> Seq(S)]
    BY <1>1, <1>3, <1>5, <1>6, IterationType
  <2>2. f = [i \in 0..Len(ss) |-> IF i = 0 THEN <<>> ELSE step[i][f[i - 1]]]
    BY <1>6, Zenon DEF Iterates
  <2>3. f[0] = <<>>
    <3>1. 0 \in 0..Len(ss)
      BY <1>1
    <3> QED
      BY <2>2, <3>1, Zenon
  <2>4. \A i \in 1..Len(ss) : f[i] = step[i][f[i - 1]]
    <3>1. \A i \in 1..Len(ss) : i \in 0..Len(ss) /\ i # 0
      BY <1>1
    <3> QED
      BY <2>2, <3>1, Zenon
  <2> QED
    BY <2>1, <2>3, <2>4
<1>8. \A i \in 1..Len(ss) : f[i - 1] \in Seq(S)
  BY <1>1, <1>7
<1>9. \A i \in 1..Len(ss) : f[i] = f[i - 1] \o ss[i]
  BY <1>4, <1>7, <1>8, Zenon
<1> QED
  BY <1>7, <1>9 DEF IsFlattening

LEMMA FlattenSeqFlattens ==
  ASSUME NEW S, NEW ss \in Seq(Seq(S)), NEW f, IsFlattening(f, S, ss)
  PROVE  FlattenSeq(ss) = f[Len(ss)] /\ FlattenSeq(ss) \in Seq(S)
<1> DEFINE N == Len(ss)
<1>1. N \in Nat /\ \A i \in 1..N : ss[i] \in Seq(S)
  BY LenProperties, ElementOfSeq
<1>2. /\ f \in [0..N -> Seq(S)] /\ f[0] = <<>>
      /\ \A i \in 1..N : f[i] = f[i - 1] \o ss[i]
  BY DEF IsFlattening
<1>3. f[N] \in Seq(S)
  BY <1>1, <1>2
<1>4. CASE N = 0
  <2>1. ss = <<>>
    BY <1>4, EmptySeq
  <2>2. FlattenSeq(ss) = <<>>
    BY <1>4, <2>1 DEF FlattenSeq
  <2> QED
    BY <1>2, <1>3, <1>4, <2>2
<1>5. CASE N # 0
  <2> DEFINE Rec(h) == h = [i \in 1..N |-> IF i = 1 THEN ss[i] ELSE h[i - 1] \o ss[i]]
             h == CHOOSE x : Rec(x)
             h0 == [i \in 1..N |-> f[i]]
  <2>1. FlattenSeq(ss) = h[N]
    BY <1>5 DEF FlattenSeq
  <2>2. \A i \in 1..N : f[i] = IF i = 1 THEN ss[i] ELSE h0[i - 1] \o ss[i]
    <3> TAKE i \in 1..N
    <3>1. CASE i = 1
      <4>0. i - 1 = 0
        BY <3>1
      <4>1. f[i] = f[i - 1] \o ss[i]
        BY <1>2, Zenon
      <4>2. f[0] = <<>> /\ ss[i] \in Seq(S)
        BY <1>1, <1>2, Zenon
      <4>3. f[i] = <<>> \o ss[i]
        BY <4>0, <4>1, <4>2, Zenon
      <4> QED
        BY <3>1, <4>2, <4>3, ConcatEmptySeq, Zenon
    <3>2. CASE i # 1
      <4>1. i - 1 \in 1..N
        BY <1>1, <3>2
      <4>2. h0[i - 1] = f[i - 1]
        BY <4>1
      <4> QED
        BY <1>2, <3>2, <4>2
    <3> QED
      BY <3>1, <3>2
  <2>3. Rec(h0)
    BY <2>2, Zenon
  <2>4. Rec(h)
    BY <2>3, Zenon
  <2>5. \A i \in 1..N : h[i] = IF i = 1 THEN ss[i] ELSE h[i - 1] \o ss[i]
    BY <2>4, Zenon
  <2> HIDE DEF h
  <2> DEFINE E == {k \in Nat : k \in 1..N => h[k] = f[k]}
  <2>6. 0 \in E
    OBVIOUS
  <2>7. ASSUME NEW k \in Nat, k \in E PROVE k + 1 \in E
    <3> SUFFICES ASSUME k + 1 \in 1..N PROVE h[k + 1] = f[k + 1]
      OBVIOUS
    <3>0. (k + 1) - 1 = k
      OBVIOUS
    <3>1. h[k + 1] = IF k + 1 = 1 THEN ss[k + 1] ELSE h[k] \o ss[k + 1]
      BY <2>5, <3>0
    <3>2. f[k + 1] = IF k + 1 = 1 THEN ss[k + 1] ELSE h0[k] \o ss[k + 1]
      BY <2>2, <3>0
    <3>3. CASE k = 0
      <4>1. k + 1 = 1
        BY <3>3
      <4> QED
        BY <3>1, <3>2, <4>1
    <3>4. CASE k # 0
      <4>1. k \in 1..N /\ k + 1 # 1
        BY <1>1, <3>4
      <4>2. h[k] = f[k] /\ h0[k] = f[k]
        BY <2>7, <4>1
      <4> QED
        BY <3>1, <3>2, <4>1, <4>2
    <3> QED
      BY <3>3, <3>4
  <2>8. \A k \in Nat : k \in E
    <3> HIDE DEF E
    <3> QED
      BY <2>6, <2>7, Induction
  <2>9. h[N] = f[N]
    BY <1>1, <1>5, <2>8
  <2> QED
    BY <1>3, <2>1, <2>9
<1> QED
  BY <1>4, <1>5

-----------------------------------------------------------------------------
(***************************************************************************)
(* The size and the end of a line.                                         *)
(***************************************************************************)
LEMMA MinProperties ==
  ASSUME NEW S, S \subseteq Nat, S # {}
  PROVE  Min(S) \in S /\ \A k \in S : Min(S) <= k
BY Least DEF Min

LEMMA ValueIsNat == ASSUME NEW line \in Seq(Byte) PROVE Value(line) \in Nat
<1> DEFINE I == {i \in 1..Len(line) : line[i] \notin Digit}
           digits == IF I # {} THEN Min(I) ELSE 0
           n == IF digits = 0 THEN Len(line) ELSE digits - 1
           Rec(v) == v = [k \in 0..n |-> IF k = 0 THEN 0 ELSE 16 * v[k - 1] + line[k]]
           v == CHOOSE x : Rec(x)
           step == [k \in 1..n |-> [t \in Nat |-> 16 * t + line[k]]]
<1>1. Value(line) = v[n]
  BY DEF Value, SelectInSeq
<1>2. Len(line) \in Nat
  BY LenProperties
<1>3. n \in Nat /\ \A k \in 1..n : k \in 1..Len(line) /\ line[k] \in Digit
  <2>1. CASE I = {}
    <3>1. n = Len(line)
      BY <2>1
    <3>2. \A k \in 1..Len(line) : line[k] \in Digit
      BY <2>1
    <3> QED
      BY <1>2, <3>1, <3>2
  <2>2. CASE I # {}
    <3>1. Min(I) \in I /\ \A k \in I : Min(I) <= k
      <4>1. I \subseteq Nat
        BY <1>2
      <4> HIDE DEF I
      <4> QED
        BY <2>2, <4>1, MinProperties
    <3>2. Min(I) \in 1..Len(line)
      BY <3>1
    <3>3. n = Min(I) - 1
      BY <2>2, <1>2, <3>2
    <3>4. \A k \in 1..n : k \in 1..Len(line) /\ k \notin I
      BY <1>2, <3>1, <3>2, <3>3
    <3> QED
      BY <1>2, <3>2, <3>3, <3>4
  <2> QED
    BY <2>1, <2>2
<1> HIDE DEF n
<1>4. \A k \in 1..n : line[k] \in Nat
  BY <1>3 DEF Digit
<1>5. step \in [1..n -> [Nat -> Nat]]
  BY <1>4
<1>6. PICK f \in [0..n -> Nat] : Iterates(f, n, 0, step)
  BY <1>3, <1>5, IterationExists
<1>7. Rec(f)
  <2>1. \A k \in 0..n : f[k] = IF k = 0 THEN 0 ELSE 16 * f[k - 1] + line[k]
    <3> TAKE k \in 0..n
    <3>1. CASE k = 0
      BY <1>6, <3>1 DEF Iterates
    <3>2. CASE k # 0
      <4>1. k \in 1..n /\ k - 1 \in 0..n
        BY <1>3, <3>2
      <4>2. f[k] = step[k][f[k - 1]]
        BY <1>6, <3>2 DEF Iterates
      <4> QED
        BY <1>6, <3>2, <4>1, <4>2
    <3> QED
      BY <3>1, <3>2
  <2> QED
    BY <2>1
<1>8. Rec(v)
  BY <1>7, Zenon
<1> HIDE DEF v
<1>9. v[n] = f[n]
  <2> DEFINE E == {k \in Nat : k \in 0..n => v[k] = f[k]}
  <2>0. \A k \in 0..n : v[k] = IF k = 0 THEN 0 ELSE 16 * v[k - 1] + line[k]
    BY <1>8
  <2>1. \A k \in 0..n : f[k] = IF k = 0 THEN 0 ELSE 16 * f[k - 1] + line[k]
    BY <1>7
  <2>2. 0 \in E
    BY <1>3, <2>0, <2>1
  <2>3. ASSUME NEW k \in Nat, k \in E PROVE k + 1 \in E
    <3> SUFFICES ASSUME k + 1 \in 0..n PROVE v[k + 1] = f[k + 1]
      OBVIOUS
    <3>1. k \in 0..n /\ k + 1 # 0 /\ (k + 1) - 1 = k
      BY <1>3
    <3>2. v[k] = f[k]
      BY <2>3, <3>1
    <3> QED
      BY <2>0, <2>1, <3>1, <3>2
  <2>4. \A k \in Nat : k \in E
    <3> HIDE DEF E
    <3> QED
      BY <2>2, <2>3, Induction
  <2> QED
    BY <1>3, <2>4
<1> QED
  BY <1>1, <1>3, <1>6, <1>9

\* What strtoul leaves of a line are bytes.
LEMMA AfterSpaceType ==
  ASSUME NEW line \in Seq(Byte)
  PROVE  AfterSpace(line) \in Seq(Byte)
<1> DEFINE I == {i \in 1..Len(line) : line[i] \notin Space}
<1>1. Len(line) \in Nat /\ <<>> \in Seq(Byte)
  BY LenProperties, EmptySeq
<1>2. CASE I = {}
  BY <1>1, <1>2 DEF AfterSpace, SelectInSeq
<1>3. CASE I # {}
  <2>1. I \subseteq Nat /\ I \subseteq 1..Len(line)
    BY <1>1
  <2>2. AfterSpace(line) = IF Min(I) = 0 THEN <<>> ELSE SubSeq(line, Min(I), Len(line))
    BY <1>3 DEF AfterSpace, SelectInSeq
  <2> HIDE DEF I
  <2>3. Min(I) \in 1..Len(line)
    BY <1>3, <2>1, MinProperties
  <2>4. \A k \in Min(I)..Len(line) : line[k] \in Byte
    BY <1>1, <2>3, ElementOfSeq
  <2>5. SubSeq(line, Min(I), Len(line)) \in Seq(Byte)
    BY <1>1, <2>3, <2>4, SubSeqProperties
  <2> QED
    BY <1>1, <2>2, <2>5
<1> QED
  BY <1>2, <1>3

LEMMA AfterPrefixType ==
  ASSUME NEW line \in Seq(Byte)
  PROVE  AfterPrefix(AfterSign(line)) \in Seq(Byte)
<1>1. \A t \in Seq(Byte) : t # <<>> => Tail(t) \in Seq(Byte) /\ Len(Tail(t)) = Len(t) - 1
  BY HeadTailProperties
<1>2. AfterSign(line) \in Seq(Byte)
  BY <1>1 DEF AfterSign, Signed
<1>3. ASSUME NEW t \in Seq(Byte) PROVE AfterPrefix(t) \in Seq(Byte)
  <2>1. CASE Len(t) > 1
    <3>1. t # <<>> /\ Tail(t) \in Seq(Byte) /\ Len(Tail(t)) = Len(t) - 1 /\ Len(t) \in Nat
      BY <1>1, <2>1, LenProperties, EmptySeq
    <3>2. Tail(t) # <<>>
      <4> DEFINE u == Tail(t)
      <4>1. Len(u) # 0
        BY <2>1, <3>1
      <4> HIDE DEF u
      <4>2. u # <<>>
        BY <4>1, EmptySeq
      <4> QED
        BY <4>2 DEF u
    <3> QED
      BY <1>1, <3>1, <3>2 DEF AfterPrefix
  <2>2. CASE ~(Len(t) > 1)
    BY <2>2 DEF AfterPrefix
  <2> QED
    BY <2>1, <2>2
<1> QED
  BY <1>2, <1>3

LEMMA Modulo ==
  /\ \A x \in Int : x % Word \in Nat
  /\ \A x \in Nat : x < Word => x % Word = x
BY ChunkedAssumption

LEMMA SizeIsNat == ASSUME NEW line \in Seq(Byte) PROVE SizeOf(line) \in Nat
<1>1. Magnitude(line) \in Nat
  BY AfterSpaceType, AfterPrefixType, ValueIsNat DEF Magnitude
<1>2. Word - Magnitude(line) \in Int
  BY <1>1, ChunkedAssumption
<1> QED
  BY <1>1, <1>2, Modulo DEF SizeOf

LEMMA ValueOfDigit == ASSUME NEW d \in Digit PROVE Value(<<d>>) = d
<1> DEFINE Rec(v) == v = [k \in 0..1 |-> IF k = 0 THEN 0 ELSE 16 * v[k - 1] + <<d>>[k]]
           v == CHOOSE x : Rec(x)
           v0 == [k \in 0..1 |-> IF k = 0 THEN 0 ELSE d]
<1>0. d \in Nat
  BY DEF Digit
<1>1. {i \in 1..Len(<<d>>) : <<d>>[i] \notin Digit} = {}
  OBVIOUS
<1>2. Value(<<d>>) = v[1]
  <2>1. Len(<<d>>) = 1
    OBVIOUS
  <2> QED
    BY <1>1, <2>1 DEF Value, SelectInSeq
<1>3. Rec(v0)
  BY <1>0
<1>4. Rec(v)
  BY <1>3, Zenon
<1> HIDE DEF v
<1>5. v[0] = 0 /\ v[1] = 16 * v[0] + d
  BY <1>4
<1> QED
  BY <1>0, <1>2, <1>5

LEMMA SizeOfDigit ==
  ASSUME NEW d \in Digit
  PROVE  SizeOf(<<d>>) = d /\ InRange(<<d>>)
<1> DEFINE I == {i \in 1..Len(<<d>>) : <<d>>[i] \notin Space}
<1>1. d \in Nat /\ d < Word /\ d \notin Space /\ d \notin {Plus, Minus}
  BY ChunkedAssumption DEF Digit, Space, CR, LF, Blank, Plus, Minus
<1>2. AfterSpace(<<d>>) = <<d>>
  <2>1. I = {1}
    BY <1>1
  <2>2. Min({1}) = 1
    BY MinProperties
  <2> DEFINE first == IF I # {} THEN Min(I) ELSE 0
  <2>3. AfterSpace(<<d>>) = IF first = 0 THEN <<>> ELSE SubSeq(<<d>>, first, Len(<<d>>))
    BY DEF AfterSpace, SelectInSeq
  <2> HIDE DEF I
  <2>4. first = 1
    BY <2>1, <2>2
  <2> HIDE DEF first
  <2>5. AfterSpace(<<d>>) = SubSeq(<<d>>, 1, Len(<<d>>))
    BY <2>3, <2>4
  <2> QED
    BY <2>5
<1>3. AfterPrefix(AfterSign(<<d>>)) = <<d>> /\ ~Negative(<<d>>)
  BY <1>1 DEF AfterPrefix, AfterSign, Signed, Negative
<1>4. Magnitude(<<d>>) = d
  BY <1>2, <1>3, ValueOfDigit DEF Magnitude
<1> QED
  BY <1>1, <1>2, <1>3, <1>4 DEF SizeOf, InRange

\* Data that fits without a wrap is there, and data that is there fits.
LEMMA FitsFacts ==
  ASSUME NEW in, NEW at \in Nat, NEW size \in Nat, Len(in) \in Nat
  PROVE  /\ Fits(in, at, size) /\ ~Wraps(at, size) => at + size + 1 <= Len(in)
         /\ at + size + 1 <= Len(in) /\ Len(in) < Word => Fits(in, at, size) /\ ~Wraps(at, size)
         /\ at + size + 1 < Word => ~Wraps(at, size) /\ (Fits(in, at, size) <=> at + size + 1 <= Len(in))
<1> DEFINE x == at + size + 1
<1>1. x \in Nat
  OBVIOUS
<1> HIDE DEF x
<1>2. x < Word => x % Word = x
  BY <1>1, Modulo
<1>3. /\ Fits(in, at, size) <=> x % Word <= Len(in)
      /\ Wraps(at, size) <=> x >= Word
  BY DEF Fits, Wraps, x
<1>4. Word \in Nat
  BY ChunkedAssumption
<1> QED
  BY <1>1, <1>2, <1>3, <1>4 DEF x

LEMMA LineEndRange ==
  ASSUME NEW in \in Seq(Byte), NEW i \in 1..Len(in)
  PROVE  LineEnd(in, i) \in i..Len(in)
<1> DEFINE S == {j \in i..Len(in) : IsLineEnd(in, j)} \cup {Len(in)}
<1>1. Len(in) \in Nat
  BY LenProperties
<1>2. S \subseteq i..Len(in) /\ S # {} /\ i..Len(in) \subseteq Nat
  BY <1>1
<1> HIDE DEF S
<1>3. Min(S) \in S
  BY <1>2, MinProperties
<1>4. LineEnd(in, i) = Min(S)
  BY DEF LineEnd, S
<1> QED
  BY <1>2, <1>3, <1>4

LEMMA LineEndFound ==
  ASSUME NEW in \in Seq(Byte), NEW i \in 1..Len(in), NEW e \in i..Len(in),
         IsLineEnd(in, e), \A j \in i..(e - 1) : ~IsLineEnd(in, j)
  PROVE  LineEnd(in, i) = e
<1> DEFINE S == {j \in i..Len(in) : IsLineEnd(in, j)} \cup {Len(in)}
<1>1. Len(in) \in Nat
  BY LenProperties
<1>2. S \subseteq Nat /\ S # {} /\ e \in S
  BY <1>1
<1>3. \A j \in S : e <= j
  BY <1>1
<1> HIDE DEF S
<1>4. Min(S) \in S /\ \A k \in S : Min(S) <= k
  BY <1>2, MinProperties
<1>5. Min(S) \in Nat
  BY <1>2, <1>4
<1>6. LineEnd(in, i) = Min(S)
  BY DEF LineEnd, S
<1> QED
  BY <1>1, <1>2, <1>3, <1>4, <1>5, <1>6

-----------------------------------------------------------------------------
(***************************************************************************)
(* decode_chunked goes forward only: what it makes of the input from i on  *)
(* depends on later places alone, so that its recursion is well-founded.   *)
(***************************************************************************)
Decoded == [ok : BOOLEAN, returned : BOOLEAN, body : Seq(Byte)]

LEMMA RejectedDecoded ==
  /\ Rejected \in Decoded /\ Rejected.ok = FALSE /\ Rejected.returned
  /\ Never \in Decoded /\ Never.ok = FALSE /\ ~Never.returned
<1>1. <<>> \in Seq(Byte)
  BY EmptySeq
<1> QED
  BY <1>1 DEF Rejected, Never, Decoded

LEMMA AcceptedDecoded ==
  ASSUME NEW b \in Seq(Byte)
  PROVE  /\ Accepted(b) \in Decoded /\ Accepted(b).ok = TRUE /\ Accepted(b).returned
         /\ Accepted(b).body = b
BY DEF Accepted, Decoded

LEMMA DecodeAtLater ==
  ASSUME NEW in \in Seq(Byte), NEW i \in 1..(Len(in) + 1), NEW f, NEW g,
         \A j \in (i + 1)..(Len(in) + 1) : f[j] = g[j]
  PROVE  DecodeAt(in, f, i) = DecodeAt(in, g, i)
<1> DEFINE end == LineEnd(in, i)
           size == SizeOf(SubSeq(in, i, end - 1))
<1>1. Len(in) \in Nat
  BY LenProperties
<1>2. CASE i > Len(in)
  BY <1>2 DEF DecodeAt
<1>3. CASE i <= Len(in)
  <2>1. end \in i..Len(in)
    BY <1>1, <1>3, LineEndRange
  <2>2. SubSeq(in, i, end - 1) \in Seq(Byte)
    <3>1. \A j \in i..(end - 1) : in[j] \in Byte
      BY <1>1, <2>1, ElementOfSeq
    <3>2. i \in Int /\ end - 1 \in Int
      BY <1>1, <2>1
    <3> HIDE DEF end
    <3> QED
      BY <3>1, <3>2, SubSeqProperties
  <2>3. size \in Nat
    BY <2>2, SizeIsNat
  <2> HIDE DEF end, size
  <2> DEFINE IsTaken == Fits(in, end + 2, size) /\ ~Wraps(end + 2, size)
  <2>4. IsTaken => end + 2 + size + 2 \in (i + 1)..(Len(in) + 1)
    <3>1. IsTaken => end + 2 + size + 1 <= Len(in)
      <4>1. end + 2 \in Nat
        BY <1>1, <2>1
      <4> QED
        BY <1>1, <2>3, <4>1, FitsFacts
    <3> HIDE DEF IsTaken
    <3> QED
      BY <1>1, <2>1, <2>3, <3>1
  <2>5. IsTaken => f[end + 2 + size + 2] = g[end + 2 + size + 2]
    <3> HIDE DEF IsTaken
    <3> QED
      BY <2>4
  <2> QED
    BY <2>5 DEF DecodeAt, end, size
<1> QED
  BY <1>1, <1>2, <1>3

LEMMA DecodeAtType ==
  ASSUME NEW in \in Seq(Byte), NEW i \in 1..(Len(in) + 1), NEW f,
         \A j \in (i + 1)..(Len(in) + 1) : f[j] \in Decoded
  PROVE  DecodeAt(in, f, i) \in Decoded
<1> DEFINE end == LineEnd(in, i)
           size == SizeOf(SubSeq(in, i, end - 1))
           data == SubSeq(in, end + 2, end + 2 + size - 1)
           rest == f[end + 2 + size + 2]
<1>1. Len(in) \in Nat
  BY LenProperties
<1>2. CASE i > Len(in)
  BY <1>2, RejectedDecoded DEF DecodeAt
<1>3. CASE i <= Len(in)
  <2>1. end \in i..Len(in)
    BY <1>1, <1>3, LineEndRange
  <2>2. SubSeq(in, i, end - 1) \in Seq(Byte)
    <3>1. \A j \in i..(end - 1) : in[j] \in Byte
      BY <1>1, <2>1, ElementOfSeq
    <3>2. i \in Int /\ end - 1 \in Int
      BY <1>1, <2>1
    <3> HIDE DEF end
    <3> QED
      BY <3>1, <3>2, SubSeqProperties
  <2>3. size \in Nat
    BY <2>2, SizeIsNat
  <2>4. ASSUME Fits(in, end + 2, size), ~Wraps(end + 2, size)
        PROVE  rest \in Decoded /\ Accepted(data \o rest.body) \in Decoded
    <3> HIDE DEF end, size
    <3>0. end + 2 + size + 1 <= Len(in)
      <4>1. end + 2 \in Nat
        BY <1>1, <2>1
      <4> QED
        BY <1>1, <2>3, <2>4, <4>1, FitsFacts
    <3>1. end + 2 + size + 2 \in (i + 1)..(Len(in) + 1)
      BY <1>1, <2>1, <2>3, <3>0
    <3>2. rest \in Decoded
      BY <3>1
    <3>3. data \in Seq(Byte)
      <4>1. \A j \in (end + 2)..(end + 2 + size - 1) : in[j] \in Byte
        BY <1>1, <2>1, <2>3, <3>0, ElementOfSeq
      <4>2. end + 2 \in Int /\ end + 2 + size - 1 \in Int
        BY <1>1, <2>1, <2>3
      <4> QED
        BY <4>1, <4>2, SubSeqProperties
    <3> HIDE DEF data, rest
    <3>4. rest.body \in Seq(Byte)
      BY <3>2 DEF Decoded
    <3>5. data \o rest.body \in Seq(Byte)
      BY <3>3, <3>4, ConcatProperties
    <3> QED
      BY <3>2, <3>5, AcceptedDecoded DEF rest
  <2>5. Accepted(<<>>) \in Decoded
    BY EmptySeq, AcceptedDecoded
  <2> HIDE DEF Decoded
  <2> QED
    BY <2>4, <2>5, RejectedDecoded DEF DecodeAt
<1> QED
  BY <1>1, <1>2, <1>3

IsDecoding(f, in) ==
  /\ f \in [1..(Len(in) + 1) -> Decoded]
  /\ \A i \in 1..(Len(in) + 1) : f[i] = DecodeAt(in, f, i)

LEMMA DecodeDecodes ==
  ASSUME NEW in \in Seq(Byte)
  PROVE  \E f : IsDecoding(f, in) /\ Decode(in) = f[1]
<1> DEFINE M == Len(in) + 1
           Upto(f, k) == /\ DOMAIN f = (M - k)..M /\ f = [i \in (M - k)..M |-> f[i]]
                         /\ \A i \in (M - k)..M : f[i] = DecodeAt(in, f, i)
           K == {k \in Nat : k < M => \E f : Upto(f, k)}
           Rec(h) == h = [i \in 1..M |-> DecodeAt(in, h, i)]
           h == CHOOSE x : Rec(x)
<1>0. M \in Nat \ {0}
  BY LenProperties
<1>1. 0 \in K
  <2> DEFINE f == [i \in M..M |-> Rejected]
  <2>1. DecodeAt(in, f, M) = Rejected
    <3>1. M > Len(in)
      BY <1>0, LenProperties
    <3> QED
      BY <3>1 DEF DecodeAt
  <2>2. M..M = {M} /\ M - 0 = M
    BY <1>0
  <2> HIDE DEF M
  <2>3. f[M] = Rejected /\ DOMAIN f = {M} /\ f = [i \in {M} |-> f[i]]
    BY <2>2
  <2> HIDE DEF f
  <2>4. Upto(f, 0)
    BY <2>1, <2>2, <2>3
  <2> HIDE DEF Upto
  <2> QED
    BY <2>4
<1>2. ASSUME NEW k \in Nat, k \in K PROVE k + 1 \in K
  <2> SUFFICES ASSUME k + 1 < M PROVE \E f : Upto(f, k + 1)
    OBVIOUS
  <2>1. PICK f : Upto(f, k)
    BY <1>0, <1>2
  <2> DEFINE m == M - (k + 1)
             g == [i \in m..M |-> IF i = m THEN DecodeAt(in, f, m) ELSE f[i]]
  <2>2. m \in 1..M /\ M - k = m + 1 /\ m \in Nat
    BY <1>0
  <2> HIDE DEF m
  <2>3. \A i \in (m + 1)..M : g[i] = f[i]
    BY <1>0, <2>2
  <2>4. g[m] = DecodeAt(in, f, m)
    BY <1>0, <2>2
  <2>5. DOMAIN g = m..M /\ g = [i \in m..M |-> g[i]]
    BY Zenon
  <2> HIDE DEF g
  <2>6. ASSUME NEW i \in m..M PROVE g[i] = DecodeAt(in, g, i)
    <3>1. i \in 1..M /\ \A j \in (i + 1)..M : j \in (m + 1)..M
      BY <1>0, <2>2
    <3>2. DecodeAt(in, g, i) = DecodeAt(in, f, i)
      BY <2>3, <3>1, DecodeAtLater
    <3>3. CASE i = m
      BY <2>4, <3>2, <3>3
    <3>4. CASE i # m
      <4>1. i \in (m + 1)..M
        BY <1>0, <2>2, <3>4
      <4>2. f[i] = DecodeAt(in, f, i)
        BY <2>1, <2>2, <4>1
      <4> QED
        BY <2>3, <3>2, <4>1, <4>2
    <3> QED
      BY <3>3, <3>4
  <2>7. Upto(g, k + 1)
    BY <2>5, <2>6 DEF m
  <2> HIDE DEF Upto
  <2> QED
    BY <2>7
<1>3. M - 1 \in K
  <2>1. \A k \in Nat : k \in K
    <3> HIDE DEF K
    <3> QED
      BY <1>1, <1>2, Induction
  <2> HIDE DEF K
  <2> QED
    BY <1>0, <2>1
<1>4. PICK f : Upto(f, M - 1)
  <2> HIDE DEF Upto
  <2> QED
    BY <1>0, <1>3
<1>5. Rec(f)
  <2>1. M - (M - 1) = 1
    BY <1>0
  <2>2. f = [i \in 1..M |-> f[i]] /\ \A i \in 1..M : f[i] = DecodeAt(in, f, i)
    BY <1>4, <2>1
  <2> QED
    BY <2>2
<1>6. Rec(h)
  BY <1>5, Zenon
<1>7. Decode(in) = h[1]
  BY DEF Decode
<1> HIDE DEF h
<1>8. \A i \in 1..M : h[i] = DecodeAt(in, h, i)
  BY <1>6, Zenon
<1> DEFINE T == {k \in Nat : k < M => \A i \in (M - k)..M : h[i] \in Decoded}
<1>9. 0 \in T
  <2>1. DecodeAt(in, h, M) = Rejected
    <3>1. M > Len(in)
      BY <1>0, LenProperties
    <3> QED
      BY <3>1 DEF DecodeAt
  <2>2. M \in 1..M /\ M - 0 = M /\ \A i \in M..M : i = M
    BY <1>0
  <2> HIDE DEF M
  <2>3. h[M] \in Decoded
    BY <1>8, <2>1, <2>2, RejectedDecoded
  <2> QED
    BY <2>2, <2>3
<1>10. ASSUME NEW k \in Nat, k \in T PROVE k + 1 \in T
  <2> SUFFICES ASSUME k + 1 < M, NEW i \in (M - (k + 1))..M PROVE h[i] \in Decoded
    OBVIOUS
  <2>1. \A j \in (M - k)..M : h[j] \in Decoded
    BY <1>0, <1>10
  <2>2. i \in 1..M /\ \A j \in (i + 1)..M : j \in (M - k)..M
    BY <1>0
  <2>3. DecodeAt(in, h, i) \in Decoded
    BY <2>1, <2>2, DecodeAtType
  <2> QED
    BY <1>8, <2>2, <2>3
<1>11. \A i \in 1..M : h[i] \in Decoded
  <2>1. \A k \in Nat : k \in T
    <3> HIDE DEF T
    <3> QED
      BY <1>9, <1>10, Induction
  <2>2. M - (M - 1) = 1 /\ M - 1 \in Nat /\ M - 1 < M
    BY <1>0
  <2> QED
    BY <2>1, <2>2
<1>12. h \in [1..M -> Decoded]
  <2>1. h = [i \in 1..M |-> h[i]]
    BY <1>6, <1>8
  <2> QED
    BY <1>11, <2>1
<1>13. IsDecoding(h, in)
  BY <1>8, <1>12 DEF IsDecoding
<1> QED
  BY <1>7, <1>13

-----------------------------------------------------------------------------
(***************************************************************************)
(* One round of decode_chunked, at a size line and at the last line.       *)
(***************************************************************************)
LEMMA SizeLine ==
  ASSUME NEW in \in Seq(Byte), NEW i \in 1..Len(in), in[i] \in Digit,
         i + 1 <= Len(in) => in[i + 1] = CR,
         i + 2 <= Len(in) => in[i + 2] = LF
  PROVE  IF i + 2 <= Len(in)
         THEN /\ LineEnd(in, i) = i + 1 /\ SizeOf(SubSeq(in, i, LineEnd(in, i) - 1)) = in[i]
              /\ InRange(SubSeq(in, i, LineEnd(in, i) - 1))
         ELSE LineEnd(in, i) = Len(in)
<1>1. Len(in) \in Nat
  BY LenProperties
<1>2. ~IsLineEnd(in, i)
  <2>1. in[i] # CR
    <3>1. \A d \in Digit : d # CR
      BY DEF Digit, CR
    <3> QED
      BY <3>1, Zenon
  <2> QED
    BY <2>1 DEF IsLineEnd
<1>3. CASE i + 2 <= Len(in)
  <2>1. IsLineEnd(in, i + 1) /\ i + 1 \in i..Len(in) /\ \A j \in i..((i + 1) - 1) : j = i
    BY <1>1, <1>3 DEF IsLineEnd
  <2>2. LineEnd(in, i) = i + 1
    BY <1>2, <2>1, LineEndFound
  <2>3. SubSeq(in, i, i) = <<in[i]>>
    <3>1. i \in Int /\ \A j \in i..i : in[j] \in Byte
      BY <1>1, ElementOfSeq
    <3>2. /\ SubSeq(in, i, i) \in Seq(Byte)
          /\ Len(SubSeq(in, i, i)) = IF i <= i THEN i - i + 1 ELSE 0
          /\ \A j \in 1..(i - i + 1) : SubSeq(in, i, i)[j] = in[i + j - 1]
      BY <3>1, SubSeqProperties
    <3>3. Len(SubSeq(in, i, i)) = 1 /\ SubSeq(in, i, i)[1] = in[i]
      BY <1>1, <3>2
    <3>4. <<in[i]>> \in Seq(Byte) /\ Len(<<in[i]>>) = 1 /\ <<in[i]>>[1] = in[i]
      BY <3>1
    <3> DEFINE s == SubSeq(in, i, i)
               t == <<in[i]>>
    <3>5. \A j \in 1..Len(s) : s[j] = t[j]
      BY <3>3, <3>4
    <3>6. s \in Seq(Byte) /\ t \in Seq(Byte) /\ Len(s) = Len(t)
      BY <3>2, <3>3, <3>4
    <3> HIDE DEF s, t
    <3>7. s = t
      BY <3>5, <3>6, SeqEqual
    <3> QED
      BY <3>7 DEF s, t
  <2>4. (i + 1) - 1 = i
    BY <1>1
  <2> QED
    BY <1>3, <2>2, <2>3, <2>4, SizeOfDigit
<1>4. CASE ~(i + 2 <= Len(in))
  <2> DEFINE S == {j \in i..Len(in) : IsLineEnd(in, j)} \cup {Len(in)}
  <2>1. \A j \in i..Len(in) : ~IsLineEnd(in, j)
    BY <1>1, <1>2, <1>4 DEF IsLineEnd
  <2>2. S = {Len(in)}
    BY <2>1
  <2>3. Min({Len(in)}) \in {Len(in)}
    BY <1>1, MinProperties
  <2> QED
    BY <1>4, <2>2, <2>3 DEF LineEnd
<1> QED
  BY <1>3, <1>4

\* What stands at i of a text, as far as the text goes.
StandsAt(s, in, i) == \A j \in 1..Len(s) : i + j - 1 <= Len(in) => in[i + j - 1] = s[j]

LEMMA ChunkLayout ==
  ASSUME NEW c \in Chunk
  PROVE  /\ c \in Seq(Byte) /\ Len(c) \in 1..15
         /\ EncodeChunk(c) \in Seq(Byte) /\ Len(EncodeChunk(c)) = Len(c) + 5
         /\ EncodeChunk(c)[1] = Len(c) /\ EncodeChunk(c)[2] = CR /\ EncodeChunk(c)[3] = LF
         /\ \A j \in 1..Len(c) : EncodeChunk(c)[j + 3] = c[j]
         /\ EncodeChunk(c)[Len(c) + 4] = CR /\ EncodeChunk(c)[Len(c) + 5] = LF
<1> DEFINE a == <<Len(c), CR, LF>>
           b == <<CR, LF>>
<1>1. c \in Seq(Byte) /\ Len(c) \in 1..15
  BY DEF Chunk
<1>2. a \in Seq(Byte) /\ Len(a) = 3 /\ a[1] = Len(c) /\ a[2] = CR /\ a[3] = LF
  BY <1>1 DEF Byte, Digit, Space
<1>3. b \in Seq(Byte) /\ Len(b) = 2 /\ b[1] = CR /\ b[2] = LF
  BY DEF Byte, Space
<1> HIDE DEF a, b
<1>4. /\ a \o c \in Seq(Byte) /\ Len(a \o c) = Len(c) + 3
      /\ \A i \in 1..(Len(c) + 3) : (a \o c)[i] = IF i <= 3 THEN a[i] ELSE c[i - 3]
  <2>1. /\ a \o c \in Seq(Byte) /\ Len(a \o c) = Len(a) + Len(c)
        /\ \A i \in 1..(Len(a) + Len(c)) : (a \o c)[i] = IF i <= Len(a) THEN a[i] ELSE c[i - Len(a)]
    BY <1>1, <1>2, ConcatProperties
  <2> QED
    BY <1>1, <1>2, <2>1
<1> DEFINE d == a \o c
<1> HIDE DEF d
<1>5. /\ d \o b \in Seq(Byte) /\ Len(d \o b) = Len(c) + 5
      /\ \A i \in 1..(Len(c) + 5) : (d \o b)[i] = IF i <= Len(c) + 3 THEN d[i] ELSE b[i - (Len(c) + 3)]
  <2>0. d \in Seq(Byte) /\ Len(d) = Len(c) + 3
    BY <1>4 DEF d
  <2>1. /\ d \o b \in Seq(Byte) /\ Len(d \o b) = Len(d) + Len(b)
        /\ \A i \in 1..(Len(d) + Len(b)) : (d \o b)[i] = IF i <= Len(d) THEN d[i] ELSE b[i - Len(d)]
    BY <2>0, <1>3, ConcatProperties
  <2> QED
    BY <1>1, <1>3, <2>0, <2>1
<1> DEFINE e == EncodeChunk(c)
<1>6. e = d \o b
  BY DEF EncodeChunk, d, a, b
<1> HIDE DEF e
<1>7. \A i \in 1..(Len(c) + 3) : d[i] = IF i <= 3 THEN a[i] ELSE c[i - 3]
  BY <1>4 DEF d
<1>8. /\ e \in Seq(Byte) /\ Len(e) = Len(c) + 5
      /\ \A i \in 1..(Len(c) + 3) : e[i] = d[i]
      /\ e[Len(c) + 4] = b[1] /\ e[Len(c) + 5] = b[2]
  <2> DEFINE l == Len(c)
  <2> HIDE DEF l
  <2>1. l \in 1..15
    BY <1>1 DEF l
  <2>2. /\ e \in Seq(Byte) /\ Len(e) = l + 5
        /\ \A i \in 1..(l + 5) : e[i] = IF i <= l + 3 THEN d[i] ELSE b[i - (l + 3)]
    BY <1>5, <1>6 DEF l
  <2>3. e[l + 4] = b[1]
    <3>1. l + 4 \in 1..(l + 5) /\ ~(l + 4 <= l + 3) /\ (l + 4) - (l + 3) = 1
      BY <2>1
    <3> QED
      BY <2>2, <3>1
  <2>4. e[l + 5] = b[2]
    <3>1. l + 5 \in 1..(l + 5) /\ ~(l + 5 <= l + 3) /\ (l + 5) - (l + 3) = 2
      BY <2>1
    <3> QED
      BY <2>2, <3>1
  <2>5. \A i \in 1..(l + 3) : e[i] = d[i]
    <3>1. \A i \in 1..(l + 3) : i \in 1..(l + 5) /\ i <= l + 3
      BY <2>1
    <3> QED
      BY <2>2, <3>1, Zenon
  <2> QED
    BY <2>2, <2>3, <2>4, <2>5 DEF l
<1>9. e[1] = Len(c) /\ e[2] = CR /\ e[3] = LF
  <2>1. {1, 2, 3} \subseteq 1..(Len(c) + 3)
    BY <1>1
  <2>2. e[1] = a[1] /\ e[2] = a[2] /\ e[3] = a[3]
    BY <1>7, <1>8, <2>1
  <2> QED
    BY <1>2, <2>2
<1>10. \A j \in 1..Len(c) : e[j + 3] = c[j]
  <2> TAKE j \in 1..Len(c)
  <2>1. j + 3 \in 1..(Len(c) + 3) /\ ~(j + 3 <= 3) /\ (j + 3) - 3 = j
    BY <1>1
  <2>2. e[j + 3] = d[j + 3] /\ d[j + 3] = c[(j + 3) - 3]
    BY <1>7, <1>8, <2>1
  <2> QED
    BY <2>1, <2>2
<1> QED
  BY <1>1, <1>3, <1>8, <1>9, <1>10 DEF e

LEMMA DecodeChunk ==
  ASSUME NEW in \in Seq(Byte), NEW f, IsDecoding(f, in), NEW i \in 1..(Len(in) + 1),
         NEW c \in Chunk, StandsAt(EncodeChunk(c), in, i), i + Len(c) + 4 < Word
  PROVE  IF i + Len(c) + 5 <= Len(in) + 1
         THEN f[i] = IF f[i + Len(c) + 5].ok THEN Accepted(c \o f[i + Len(c) + 5].body)
                     ELSE f[i + Len(c) + 5]
         ELSE f[i] = Rejected
<1> DEFINE n == Len(in)
           l == Len(c)
           e == EncodeChunk(c)
<1>1. n \in Nat /\ l \in 1..15 /\ c \in Seq(Byte) /\ Len(e) = l + 5 /\ i \in 1..(n + 1)
  BY LenProperties, ChunkLayout
<1>2. f[i] = DecodeAt(in, f, i)
  BY DEF IsDecoding
<1>3. \A j \in 1..(l + 5) : i + j - 1 <= n => in[i + j - 1] = e[j]
  BY <1>1 DEF StandsAt
<1> HIDE DEF n, l, e
<1>4. CASE i = n + 1
  BY <1>1, <1>2, <1>4 DEF DecodeAt, n, l
<1>5. CASE i <= n
  <2>1. /\ in[i] = l
        /\ i + 1 <= n => in[i + 1] = CR
        /\ i + 2 <= n => in[i + 2] = LF
        /\ i + l + 3 <= n => in[i + l + 3] = CR
        /\ i + l + 4 <= n => in[i + l + 4] = LF
    <3>1. e[1] = l /\ e[2] = CR /\ e[3] = LF /\ e[l + 4] = CR /\ e[l + 5] = LF
      BY ChunkLayout DEF l, e
    <3>2. /\ i + 1 - 1 = i /\ i + 2 - 1 = i + 1 /\ i + 3 - 1 = i + 2
          /\ i + (l + 4) - 1 = i + l + 3 /\ i + (l + 5) - 1 = i + l + 4
          /\ {1, 2, 3, l + 4, l + 5} \subseteq 1..(l + 5)
      BY <1>1
    <3>3. i <= n => in[i] = e[1]
      BY <1>3, <3>2
    <3>4. i + 1 <= n => in[i + 1] = e[2]
      BY <1>3, <3>2
    <3>5. i + 2 <= n => in[i + 2] = e[3]
      BY <1>3, <3>2
    <3>6. i + l + 3 <= n => in[i + l + 3] = e[l + 4]
      BY <1>3, <3>2
    <3>7. i + l + 4 <= n => in[i + l + 4] = e[l + 5]
      BY <1>3, <3>2
    <3> QED
      BY <1>5, <3>1, <3>3, <3>4, <3>5, <3>6, <3>7
  <2>2. in[i] \in Digit /\ in[i] # 0 /\ i \in 1..n
    BY <1>1, <1>5, <2>1 DEF Digit
  <2>3. IF i + 2 <= n
        THEN /\ LineEnd(in, i) = i + 1 /\ SizeOf(SubSeq(in, i, LineEnd(in, i) - 1)) = in[i]
             /\ InRange(SubSeq(in, i, LineEnd(in, i) - 1))
        ELSE LineEnd(in, i) = n
    BY <2>1, <2>2, SizeLine DEF n
  <2>4. CASE ~(i + 2 <= n)
    <3>1. f[i] = Rejected
      BY <1>2, <2>3, <2>4 DEF DecodeAt, n
    <3> QED
      BY <1>1, <2>4, <3>1 DEF n, l
  <2>5. CASE i + 2 <= n
    <3>1. /\ LineEnd(in, i) = i + 1 /\ i + 1 # n /\ ~(i > n)
          /\ SizeOf(SubSeq(in, i, LineEnd(in, i) - 1)) = l
          /\ InRange(SubSeq(in, i, LineEnd(in, i) - 1))
          /\ (i + 1) + 2 = i + 3 /\ ~((i + 1) - i >= LineMax)
      BY <1>1, <2>1, <2>3, <2>5, ChunkedAssumption
    <3>2. ~Wraps(i + 3, l) /\ (Fits(in, i + 3, l) <=> i + l + 5 <= n + 1)
      <4>1. i + 3 \in Nat /\ l \in Nat /\ i + 3 + l + 1 < Word
        BY <1>1, ChunkedAssumption DEF l
      <4>2. ~Wraps(i + 3, l) /\ (Fits(in, i + 3, l) <=> i + 3 + l + 1 <= n)
        BY <1>1, <4>1, FitsFacts DEF n
      <4> QED
        BY <1>1, <4>2
    <3>3. Fits(in, i + 3, l) => Ended(in, i + 3 + l)
      <4> SUFFICES ASSUME Fits(in, i + 3, l) PROVE IsLineEnd(in, i + 3 + l)
        BY DEF Ended
      <4>1. i + l + 3 = i + 3 + l /\ i + l + 4 = (i + 3 + l) + 1 /\ i + l + 4 <= n
        BY <1>1, <3>2
      <4>2. i + l + 3 <= n /\ i + l + 3 < n
        BY <1>1, <4>1
      <4> QED
        BY <2>1, <4>1, <4>2 DEF IsLineEnd, n
    <3>4. Fits(in, i + 3, l) => SubSeq(in, i + 3, i + 3 + l - 1) = c
      <4> SUFFICES ASSUME Fits(in, i + 3, l) PROVE SubSeq(in, i + 3, i + 3 + l - 1) = c
        OBVIOUS
      <4> DEFINE p == i + 3
                 q == i + 3 + l - 1
                 s == SubSeq(in, p, q)
      <4>1. p \in Int /\ q \in Int /\ p <= q /\ q - p + 1 = l /\ q <= n /\ 1 <= p
        BY <1>1, <3>2
      <4>2. \A j \in p..q : in[j] \in Byte
        BY <1>1, <4>1, ElementOfSeq DEF n
      <4>3. \A j \in 1..l : in[p + j - 1] = c[j]
        <5> TAKE j \in 1..l
        <5>1. j + 3 \in 1..(l + 5) /\ i + (j + 3) - 1 = p + j - 1 /\ p + j - 1 <= n
          BY <1>1, <4>1
        <5>2. e[j + 3] = c[j]
          BY ChunkLayout DEF l, e
        <5> HIDE DEF p
        <5> QED
          BY <1>3, <5>1, <5>2
      <4> HIDE DEF p, q
      <4>4. s \in Seq(Byte) /\ Len(s) = l /\ \A j \in 1..l : s[j] = in[p + j - 1]
        <5>1. /\ s \in Seq(Byte) /\ Len(s) = IF p <= q THEN q - p + 1 ELSE 0
              /\ \A j \in 1..(q - p + 1) : s[j] = in[p + j - 1]
          BY <4>1, <4>2, SubSeqProperties
        <5> HIDE DEF s
        <5> QED
          BY <4>1, <5>1
      <4>5. \A j \in 1..Len(s) : s[j] = c[j]
        BY <4>3, <4>4
      <4>6. s = c
        <5> HIDE DEF s
        <5> QED
          BY <1>1, <4>4, <4>5, SeqEqual DEF l
      <4> QED
        BY <4>6 DEF p, q
    <3>5. i + 3 + l + 2 = i + l + 5
      BY <1>1
    <3>6. f[i] = IF ~Fits(in, i + 3, l) THEN Rejected
                 ELSE IF f[i + l + 5].ok THEN Accepted(c \o f[i + l + 5].body) ELSE f[i + l + 5]
      <4>1. l # 0
        BY <1>1
      <4>2. DecodeAt(in, f, i) =
              IF ~Fits(in, i + 3, l) THEN Rejected
              ELSE IF Wraps(i + 3, l) THEN Never
              ELSE IF ~Ended(in, i + 3 + l) THEN Rejected
              ELSE IF f[i + 3 + l + 2].ok
                   THEN Accepted(SubSeq(in, i + 3, i + 3 + l - 1) \o f[i + 3 + l + 2].body)
                   ELSE f[i + 3 + l + 2]
        BY <3>1, <4>1, Zenon DEF DecodeAt, n
      <4> QED
        BY <1>2, <3>2, <3>3, <3>4, <3>5, <4>2
    <3> QED
      BY <3>2, <3>6 DEF n, l
  <2> QED
    BY <2>4, <2>5
<1> QED
  BY <1>1, <1>4, <1>5 DEF n, l

LEMMA DecodeLastLine ==
  ASSUME NEW in \in Seq(Byte), NEW f, IsDecoding(f, in), NEW i \in 1..(Len(in) + 1),
         StandsAt(LastLine, in, i)
  PROVE  f[i] = IF i + 2 <= Len(in) THEN Accepted(<<>>) ELSE Rejected
<1> DEFINE n == Len(in)
<1>1. n \in Nat
  BY LenProperties
<1>2. f[i] = DecodeAt(in, f, i)
  BY DEF IsDecoding
<1>3. Len(LastLine) = 3 /\ LastLine[1] = 0 /\ LastLine[2] = CR /\ LastLine[3] = LF
  BY DEF LastLine
<1>4. \A j \in 1..3 : i + j - 1 <= n => in[i + j - 1] = LastLine[j]
  BY <1>3 DEF StandsAt
<1>5. CASE i = n + 1
  BY <1>1, <1>2, <1>5 DEF DecodeAt
<1>6. CASE i <= n
  <2>1. in[i] = 0 /\ (i + 1 <= n => in[i + 1] = CR) /\ (i + 2 <= n => in[i + 2] = LF)
    <3>1. i + 1 - 1 = i /\ i + 2 - 1 = i + 1 /\ i + 3 - 1 = i + 2 /\ {1, 2, 3} \subseteq 1..3
      OBVIOUS
    <3> HIDE DEF n
    <3> QED
      BY <1>3, <1>4, <1>6, <3>1
  <2>2. in[i] \in Digit /\ i \in 1..n
    BY <1>1, <1>6, <2>1 DEF Digit
  <2>3. IF i + 2 <= n
        THEN /\ LineEnd(in, i) = i + 1 /\ SizeOf(SubSeq(in, i, LineEnd(in, i) - 1)) = in[i]
             /\ InRange(SubSeq(in, i, LineEnd(in, i) - 1))
        ELSE LineEnd(in, i) = n
    BY <2>1, <2>2, SizeLine
  <2>4. CASE ~(i + 2 <= n)
    BY <1>2, <2>3, <2>4 DEF DecodeAt
  <2>5. CASE i + 2 <= n
    <3>1. /\ LineEnd(in, i) = i + 1 /\ i + 1 # n /\ ~(i > n)
          /\ SizeOf(SubSeq(in, i, LineEnd(in, i) - 1)) = 0
          /\ InRange(SubSeq(in, i, LineEnd(in, i) - 1))
          /\ ~((i + 1) - i >= LineMax)
      BY <1>1, <2>1, <2>3, <2>5, ChunkedAssumption
    <3>2. DecodeAt(in, f, i) = Accepted(<<>>)
      <4> HIDE DEF n
      <4> QED
        BY <3>1, Zenon DEF DecodeAt, n
    <3> QED
      BY <1>2, <2>5, <3>2
  <2> QED
    BY <2>4, <2>5
<1> QED
  BY <1>1, <1>5, <1>6

-----------------------------------------------------------------------------
(***************************************************************************)
(* Where the chunks stand in an encoded body.                              *)
(***************************************************************************)
Begins(s, t) == Len(s) <= Len(t) /\ \A j \in 1..Len(s) : t[j] = s[j]

LEMMA ConcatPlaces ==
  ASSUME NEW S, NEW s \in Seq(S), NEW t \in Seq(S)
  PROVE  Begins(s, s \o t) /\ StandsAt(t, s \o t, Len(s) + 1)
<1>1. Len(s) \in Nat /\ Len(t) \in Nat
  BY LenProperties
<1>2. /\ Len(s \o t) = Len(s) + Len(t)
      /\ \A i \in 1..(Len(s) + Len(t)) :
           (s \o t)[i] = IF i <= Len(s) THEN s[i] ELSE t[i - Len(s)]
  BY ConcatProperties
<1> DEFINE c == s \o t
<1> HIDE DEF c
<1>3. /\ Len(c) = Len(s) + Len(t)
      /\ \A i \in 1..(Len(s) + Len(t)) : c[i] = IF i <= Len(s) THEN s[i] ELSE t[i - Len(s)]
  BY <1>2 DEF c
<1>4. Begins(s, c)
  BY <1>1, <1>3 DEF Begins
<1>5. StandsAt(t, c, Len(s) + 1)
  <2> SUFFICES ASSUME NEW j \in 1..Len(t) PROVE c[Len(s) + 1 + j - 1] = t[j]
    BY DEF StandsAt
  <2>1. /\ Len(s) + 1 + j - 1 \in 1..(Len(s) + Len(t)) /\ ~(Len(s) + 1 + j - 1 <= Len(s))
        /\ (Len(s) + 1 + j - 1) - Len(s) = j
    BY <1>1
  <2>2. c[Len(s) + 1 + j - 1] = t[(Len(s) + 1 + j - 1) - Len(s)]
    BY <1>3, <2>1
  <2> QED
    BY <2>1, <2>2
<1> QED
  BY <1>4, <1>5 DEF c

LEMMA BeginsTransitive ==
  ASSUME NEW S, NEW s \in Seq(S), NEW t \in Seq(S), NEW u \in Seq(S), Begins(s, t), Begins(t, u)
  PROVE  Begins(s, u)
<1>1. Len(s) \in Nat /\ Len(t) \in Nat /\ Len(u) \in Nat
  BY LenProperties
<1> QED
  BY <1>1 DEF Begins

LEMMA StandsInLonger ==
  ASSUME NEW S, NEW c \in Seq(S), NEW t \in Seq(S), NEW u \in Seq(S), NEW i \in Nat \ {0},
         Begins(t, u), StandsAt(c, t, i), i + Len(c) - 1 <= Len(t)
  PROVE  StandsAt(c, u, i)
<1>1. Len(c) \in Nat /\ Len(t) \in Nat /\ Len(u) \in Nat
  BY LenProperties
<1>2. \A j \in 1..Len(c) : i + j - 1 \in 1..Len(t) /\ i + j - 1 <= Len(t)
  BY <1>1
<1> QED
  BY <1>1, <1>2 DEF Begins, StandsAt

LEMMA FlatteningGrows ==
  ASSUME NEW S, NEW ss \in Seq(Seq(S)), NEW f, IsFlattening(f, S, ss)
  PROVE  \A m \in 0..Len(ss) : \A k \in 0..m : Begins(f[k], f[m])
<1> DEFINE N == Len(ss)
           K == {m \in Nat : m <= N => \A k \in 0..m : Begins(f[k], f[m])}
<1>1. N \in Nat /\ \A i \in 1..N : ss[i] \in Seq(S)
  BY LenProperties, ElementOfSeq
<1>2. f \in [0..N -> Seq(S)] /\ \A i \in 1..N : f[i] = f[i - 1] \o ss[i]
  BY DEF IsFlattening
<1> HIDE DEF N
<1>3. \A k \in 0..N : f[k] \in Seq(S)
  BY <1>1, <1>2
<1>4. \A k \in 0..N : Begins(f[k], f[k])
  <2> TAKE k \in 0..N
  <2>1. Len(f[k]) \in Nat
    BY <1>3, LenProperties
  <2> QED
    BY <2>1 DEF Begins
<1>5. 0 \in K
  BY <1>1, <1>4
<1>6. ASSUME NEW m \in Nat, m \in K PROVE m + 1 \in K
  <2> SUFFICES ASSUME m + 1 <= N, NEW k \in 0..(m + 1) PROVE Begins(f[k], f[m + 1])
    OBVIOUS
  <2>1. CASE k = m + 1
    BY <1>1, <1>4, <2>1
  <2>2. CASE k # m + 1
    <3>1. k \in 0..m /\ m \in 0..N /\ m + 1 \in 1..N /\ m + 1 \in 0..N /\ k \in 0..N /\ (m + 1) - 1 = m
      BY <1>1, <2>2
    <3>2. Begins(f[k], f[m])
      BY <1>6, <3>1
    <3>3. f[m + 1] = f[m] \o ss[m + 1]
      BY <1>2, <3>1
    <3>4. Begins(f[m], f[m + 1])
      BY <1>1, <1>3, <3>1, <3>3, ConcatPlaces
    <3> QED
      BY <1>3, <3>1, <3>2, <3>4, BeginsTransitive
  <2> QED
    BY <2>1, <2>2
<1>7. \A m \in Nat : m \in K
  <2> HIDE DEF K
  <2> QED
    BY <1>5, <1>6, Induction
<1> QED
  BY <1>1, <1>7 DEF N

Chunks(cs) == [i \in 1..Len(cs) |-> EncodeChunk(cs[i])]

LEMMA ChunksType ==
  ASSUME NEW cs \in Seq(Chunk)
  PROVE  /\ Len(cs) \in Nat
         /\ \A i \in 1..Len(cs) : cs[i] \in Chunk /\ Chunks(cs)[i] = EncodeChunk(cs[i])
         /\ cs \in Seq(Seq(Byte))
         /\ Chunks(cs) \in Seq(Seq(Byte)) /\ Len(Chunks(cs)) = Len(cs)
<1>1. Len(cs) \in Nat /\ \A i \in 1..Len(cs) : cs[i] \in Chunk
  BY LenProperties, ElementOfSeq
<1>2. \A i \in 1..Len(cs) : EncodeChunk(cs[i]) \in Seq(Byte) /\ cs[i] \in Seq(Byte)
  BY <1>1, ChunkLayout
<1>3. Chunk \subseteq Seq(Byte)
  BY DEF Chunk
<1>4. cs \in Seq(Seq(Byte))
  BY <1>3, SeqMonotonic
<1>5. \A i \in 1..Len(cs) : Chunks(cs)[i] = EncodeChunk(cs[i])
  BY DEF Chunks
<1>6. Chunks(cs) \in [1..Len(cs) -> Seq(Byte)]
  BY <1>2 DEF Chunks
<1>7. Chunks(cs) \in Seq(Seq(Byte)) /\ Len(Chunks(cs)) = Len(cs)
  BY <1>1, <1>6
<1> QED
  BY <1>1, <1>4, <1>5, <1>7

LEMMA EncodeLayout ==
  ASSUME NEW cs \in Seq(Chunk), NEW f, IsFlattening(f, Byte, Chunks(cs))
  PROVE  /\ f \in [0..Len(cs) -> Seq(Byte)] /\ f[0] = <<>>
         /\ Encode(cs) \in Seq(Byte)
         /\ Len(Encode(cs)) = Len(f[Len(cs)]) + 5
         /\ StandsAt(LastLine, Encode(cs), Len(f[Len(cs)]) + 1)
         /\ \A k \in 1..Len(cs) :
              /\ Len(f[k]) = Len(f[k - 1]) + Len(cs[k]) + 5
              /\ StandsAt(EncodeChunk(cs[k]), Encode(cs), Len(f[k - 1]) + 1)
<1> DEFINE N == Len(cs)
           ss == Chunks(cs)
           a == f[N] \o LastLine
           e == Encode(cs)
<1>1. /\ N \in Nat /\ ss \in Seq(Seq(Byte)) /\ Len(ss) = N
      /\ \A i \in 1..N : cs[i] \in Chunk /\ ss[i] = EncodeChunk(cs[i])
  BY ChunksType
<1>2. /\ f \in [0..N -> Seq(Byte)] /\ f[0] = <<>>
      /\ \A i \in 1..N : f[i] = f[i - 1] \o EncodeChunk(cs[i])
  BY <1>1 DEF IsFlattening
<1>3. e = a \o <<CR, LF>>
  <2>1. FlattenSeq(ss) = f[N]
    BY <1>1, FlattenSeqFlattens
  <2> QED
    BY <2>1 DEF Encode, Chunks
<1>4. LastLine \in Seq(Byte) /\ Len(LastLine) = 3 /\ <<CR, LF>> \in Seq(Byte) /\ Len(<<CR, LF>>) = 2
  BY DEF LastLine, Byte, Digit, Space
<1>5. \A k \in 1..N : cs[k] \in Chunk
  BY <1>1
<1>6. \A m \in 0..N : \A k \in 0..m : Begins(f[k], f[m])
  BY <1>1, FlatteningGrows
<1> HIDE DEF N, ss, e
<1>7. \A k \in 0..N : f[k] \in Seq(Byte) /\ Len(f[k]) \in Nat
  BY <1>1, <1>2, LenProperties
<1>8. f[N] \in Seq(Byte) /\ Len(f[N]) \in Nat
  BY <1>1, <1>7
<1>9. a \in Seq(Byte) /\ Len(a) = Len(f[N]) + 3
  <2>1. a \in Seq(Byte) /\ Len(a) = Len(f[N]) + Len(LastLine)
    BY <1>4, <1>8, ConcatProperties
  <2> HIDE DEF a
  <2> QED
    BY <1>4, <2>1
<1>10. Begins(f[N], a) /\ StandsAt(LastLine, a, Len(f[N]) + 1)
  BY <1>4, <1>8, ConcatPlaces
<1> HIDE DEF a
<1>11. e \in Seq(Byte) /\ Len(e) = Len(f[N]) + 5 /\ Begins(a, e)
  <2> DEFINE end == <<CR, LF>>
  <2>0. e = a \o end /\ a \in Seq(Byte) /\ end \in Seq(Byte) /\ Len(end) = 2
    BY <1>3, <1>4, <1>9
  <2> HIDE DEF end
  <2>1. e \in Seq(Byte) /\ Len(e) = Len(a) + 2
    <3>1. a \o end \in Seq(Byte) /\ Len(a \o end) = Len(a) + Len(end)
      BY <2>0, ConcatProperties, Zenon
    <3> QED
      BY <2>0, <3>1, Zenon
  <2>2. Begins(a, e)
    BY <2>0, ConcatPlaces
  <2> QED
    BY <1>8, <1>9, <2>1, <2>2
<1>12. StandsAt(LastLine, e, Len(f[N]) + 1)
  <2>1. Len(f[N]) + 1 \in Nat \ {0} /\ Len(f[N]) + 1 + Len(LastLine) - 1 <= Len(a)
    BY <1>4, <1>8, <1>9
  <2> QED
    BY <1>4, <1>9, <1>10, <1>11, <2>1, StandsInLonger
<1>13. Begins(f[N], e)
  BY <1>8, <1>9, <1>10, <1>11, BeginsTransitive
<1>14. ASSUME NEW k \in 1..N
       PROVE  /\ Len(f[k]) = Len(f[k - 1]) + Len(cs[k]) + 5
              /\ StandsAt(EncodeChunk(cs[k]), e, Len(f[k - 1]) + 1)
  <2> DEFINE x == EncodeChunk(cs[k])
  <2>1. k - 1 \in 0..N /\ k \in 0..N /\ N \in 0..N /\ k \in 0..N
    BY <1>1
  <2>2. x \in Seq(Byte) /\ Len(x) = Len(cs[k]) + 5 /\ Len(cs[k]) \in Nat
    <3> DEFINE c == cs[k]
    <3>1. c \in Chunk
      BY <1>5
    <3> HIDE DEF c
    <3>2. EncodeChunk(c) \in Seq(Byte) /\ Len(EncodeChunk(c)) = Len(c) + 5 /\ Len(c) \in 1..15
      BY <3>1, ChunkLayout
    <3> QED
      BY <3>2 DEF c
  <2>3. f[k] = f[k - 1] \o x
    BY <1>2
  <2> HIDE DEF x
  <2>4. f[k - 1] \in Seq(Byte) /\ Len(f[k - 1]) \in Nat /\ f[k] \in Seq(Byte) /\ Len(f[k]) \in Nat
    BY <1>7, <2>1
  <2>5. Len(f[k]) = Len(f[k - 1]) + Len(x)
    <3>1. Len(f[k - 1] \o x) = Len(f[k - 1]) + Len(x)
      BY <2>2, <2>4, ConcatProperties, Zenon
    <3> QED
      BY <2>3, <3>1, Zenon
  <2>6. StandsAt(x, f[k], Len(f[k - 1]) + 1)
    BY <2>2, <2>3, <2>4, ConcatPlaces
  <2>7. Begins(f[k], f[N])
    BY <1>6, <2>1
  <2>8. Begins(f[k], e)
    BY <1>8, <1>11, <1>13, <2>4, <2>7, BeginsTransitive
  <2>9. Len(f[k - 1]) + 1 \in Nat \ {0} /\ Len(f[k - 1]) + 1 + Len(x) - 1 <= Len(f[k])
    <3> DEFINE p == Len(f[k - 1])
               q == Len(f[k])
               l == Len(x)
    <3>1. p \in Nat /\ q = p + l /\ l \in Nat
      BY <2>2, <2>4, <2>5
    <3> HIDE DEF p, q, l
    <3>2. p + 1 \in Nat \ {0} /\ p + 1 + l - 1 <= q
      BY <3>1
    <3> QED
      BY <3>2 DEF p, q, l
  <2>10. StandsAt(x, e, Len(f[k - 1]) + 1)
    BY <1>11, <2>2, <2>4, <2>6, <2>8, <2>9, StandsInLonger
  <2>11. Len(f[k]) = Len(f[k - 1]) + Len(cs[k]) + 5
    <3> DEFINE p == Len(f[k - 1])
               q == Len(f[k])
               l == Len(x)
               m == Len(cs[k])
    <3>1. p \in Nat /\ q = p + l /\ l = m + 5 /\ m \in Nat
      BY <2>2, <2>4, <2>5
    <3> HIDE DEF p, q, l, m
    <3>2. q = p + m + 5
      BY <3>1
    <3> QED
      BY <3>2 DEF p, q, m
  <2> QED
    BY <2>10, <2>11 DEF x
<1> QED
  BY <1>2, <1>11, <1>12, <1>14 DEF N, e

-----------------------------------------------------------------------------
(***************************************************************************)
(* The beginning of a text, which is what a broken connection leaves.      *)
(***************************************************************************)
LEMMA CutText ==
  ASSUME NEW e \in Seq(Byte), NEW n \in 0..Len(e)
  PROVE  /\ SubSeq(e, 1, n) \in Seq(Byte) /\ Len(SubSeq(e, 1, n)) = n
         /\ \A j \in 1..n : SubSeq(e, 1, n)[j] = e[j]
         /\ \A c, i : i \in Nat \ {0} /\ c \in Seq(Byte) /\ StandsAt(c, e, i)
              => StandsAt(c, SubSeq(e, 1, n), i)
<1> DEFINE s == SubSeq(e, 1, n)
<1>1. Len(e) \in Nat /\ n \in Nat /\ n <= Len(e)
  BY LenProperties
<1>2. \A j \in 1..n : e[j] \in Byte
  BY <1>1, ElementOfSeq
<1>3. /\ s \in Seq(Byte) /\ Len(s) = IF 1 <= n THEN n - 1 + 1 ELSE 0
      /\ \A j \in 1..(n - 1 + 1) : s[j] = e[1 + j - 1]
  BY <1>1, <1>2, SubSeqProperties
<1> HIDE DEF s
<1>4. s \in Seq(Byte) /\ Len(s) = n
  BY <1>1, <1>3
<1>5. ASSUME NEW j \in 1..n PROVE s[j] = e[j]
  <2>1. j \in 1..(n - 1 + 1) /\ 1 + j - 1 = j
    BY <1>1
  <2>2. s[j] = e[1 + j - 1]
    BY <1>3, <2>1
  <2> QED
    BY <2>1, <2>2
<1>6. ASSUME NEW c \in Seq(Byte), NEW i \in Nat \ {0}, StandsAt(c, e, i) PROVE StandsAt(c, s, i)
  <2> SUFFICES ASSUME NEW j \in 1..Len(c), i + j - 1 <= Len(s) PROVE s[i + j - 1] = c[j]
    BY DEF StandsAt
  <2>1. Len(c) \in Nat
    BY LenProperties
  <2>2. i + j - 1 \in 1..n /\ i + j - 1 <= Len(e)
    BY <1>1, <1>4, <2>1
  <2>3. e[i + j - 1] = c[j]
    BY <1>6, <2>2 DEF StandsAt
  <2> QED
    BY <1>5, <2>2, <2>3
<1> QED
  BY <1>4, <1>5, <1>6 DEF s

LEMMA Regrouping == \A s, t, u \in Seq(Byte) : (s \o t) \o u = s \o (t \o u)
BY ConcatAssociative

(***************************************************************************)
(* decode_chunked undoes the encoding of every body, and makes of an       *)
(* encoded body that was cut anywhere either the whole body or an error.   *)
(* With only the last CR LF missing it is the body: the loop stops at the  *)
(* line of size 0.                                                         *)
(***************************************************************************)
THEOREM DecodeUndoesEncode ==
  ASSUME NEW cs \in Seq(Chunk), Len(Encode(cs)) < Word, NEW n \in 0..Len(Encode(cs))
  PROVE  /\ Decode(SubSeq(Encode(cs), 1, n)) \in Decoded
         /\ Decode(SubSeq(Encode(cs), 1, n)).returned
         /\ Decode(SubSeq(Encode(cs), 1, n)).ok
              => Decode(SubSeq(Encode(cs), 1, n)).body = FlattenSeq(cs)
         /\ n = Len(Encode(cs)) => Decode(SubSeq(Encode(cs), 1, n)).ok
<1> DEFINE N == Len(cs)
           e == Encode(cs)
           in == SubSeq(e, 1, n)
<1>1. /\ N \in Nat /\ cs \in Seq(Seq(Byte)) /\ Chunks(cs) \in Seq(Seq(Byte))
      /\ Len(Chunks(cs)) = N /\ \A k \in 1..N : cs[k] \in Chunk
  BY ChunksType
<1>2. PICK g : IsFlattening(g, Byte, Chunks(cs))
  BY <1>1, FlatteningExists
<1>3. PICK b : IsFlattening(b, Byte, cs)
  BY <1>1, FlatteningExists
<1>4. /\ g \in [0..N -> Seq(Byte)] /\ g[0] = <<>> /\ e \in Seq(Byte)
      /\ Len(e) = Len(g[N]) + 5
      /\ StandsAt(LastLine, e, Len(g[N]) + 1)
      /\ \A k \in 1..N : /\ Len(g[k]) = Len(g[k - 1]) + Len(cs[k]) + 5
                         /\ StandsAt(EncodeChunk(cs[k]), e, Len(g[k - 1]) + 1)
  BY <1>2, EncodeLayout
<1>0. Len(e) < Word
  OBVIOUS
<1>5. b[N] = FlattenSeq(cs)
  BY <1>1, <1>3, FlattenSeqFlattens
<1>6. b \in [0..N -> Seq(Byte)] /\ b[0] = <<>> /\ \A k \in 1..N : b[k] = b[k - 1] \o cs[k]
  BY <1>3 DEF IsFlattening
<1>7. \A k \in 0..N : Begins(g[k], g[N])
  <2>1. N \in 0..N
    BY <1>1
  <2> QED
    BY <1>1, <1>2, <2>1, FlatteningGrows
<1> HIDE DEF N, e
<1>8. /\ in \in Seq(Byte) /\ Len(in) = n /\ n \in 0..Len(e)
      /\ \A c, i : i \in Nat \ {0} /\ c \in Seq(Byte) /\ StandsAt(c, e, i) => StandsAt(c, in, i)
  BY <1>4, CutText DEF e
<1> HIDE DEF in
<1>9. PICK f : IsDecoding(f, in) /\ Decode(in) = f[1]
  BY <1>8, DecodeDecodes
<1>10. \A i \in 1..(n + 1) : f[i] \in Decoded
  BY <1>8, <1>9 DEF IsDecoding
<1> DEFINE p(k) == Len(g[k]) + 1
           Q(k) == p(k) <= n + 1 =>
                     /\ f[p(k)].returned
                     /\ f[p(k)].ok => b[k] \o f[p(k)].body = b[N]
                     /\ n = Len(e) => f[p(k)].ok
<1>11. /\ n \in Nat /\ Len(e) = p(N) + 4 /\ n <= Len(e)
       /\ \A k \in 0..N : p(k) \in Nat \ {0} /\ p(k) <= p(N)
       /\ \A k \in 1..N : p(k) = p(k - 1) + Len(cs[k]) + 5 /\ Len(cs[k]) \in Nat
  <2>1. \A k \in 0..N : Len(g[k]) \in Nat
    BY <1>4, LenProperties
  <2>2. N \in 0..N
    BY <1>1
  <2>3. Len(g[N]) \in Nat /\ Len(e) = Len(g[N]) + 5 /\ Len(e) \in Nat
    BY <1>4, <2>1, <2>2
  <2>4. Len(e) = p(N) + 4 /\ n \in Nat /\ n <= Len(e)
    BY <1>8, <2>3
  <2>5. \A k \in 0..N : p(k) \in Nat \ {0} /\ p(k) <= p(N)
    <3> TAKE k \in 0..N
    <3>1. Len(g[k]) \in Nat /\ Len(g[k]) <= Len(g[N])
      BY <1>7, <2>1 DEF Begins
    <3> QED
      BY <2>3, <3>1
  <2>6. \A k \in 1..N : p(k) = p(k - 1) + Len(cs[k]) + 5 /\ Len(cs[k]) \in Nat
    <3> TAKE k \in 1..N
    <3>1. k - 1 \in 0..N
      BY <1>1
    <3>2. Len(g[k - 1]) \in Nat /\ Len(cs[k]) \in Nat
      BY <1>1, <2>1, <3>1, ChunkLayout
    <3>3. Len(g[k]) = Len(g[k - 1]) + Len(cs[k]) + 5
      BY <1>4
    <3> DEFINE u == Len(g[k - 1])
               v == Len(g[k])
               w == Len(cs[k])
    <3>4. u \in Nat /\ w \in Nat /\ v = u + w + 5
      BY <3>2, <3>3
    <3> HIDE DEF u, v, w
    <3>5. v + 1 = u + 1 + w + 5
      BY <3>4
    <3> QED
      BY <3>2, <3>5 DEF u, v, w
  <2> QED
    BY <2>4, <2>5, <2>6
<1>12. StandsAt(LastLine, in, p(N)) /\ \A k \in 1..N : StandsAt(EncodeChunk(cs[k]), in, p(k - 1))
  <2>1. LastLine \in Seq(Byte)
    BY DEF LastLine, Byte, Digit, Space
  <2>2. N \in 0..N /\ \A k \in 1..N : k - 1 \in 0..N
    BY <1>1
  <2>3. \A k \in 1..N : EncodeChunk(cs[k]) \in Seq(Byte)
    BY <1>1, ChunkLayout
  <2>4. p(N) \in Nat \ {0} /\ \A k \in 1..N : p(k - 1) \in Nat \ {0}
    BY <1>11, <2>2
  <2>5. StandsAt(LastLine, in, p(N))
    BY <1>4, <1>8, <2>1, <2>4
  <2>6. ASSUME NEW k \in 1..N PROVE StandsAt(EncodeChunk(cs[k]), in, p(k - 1))
    <3>1. StandsAt(EncodeChunk(cs[k]), e, p(k - 1))
      BY <1>4
    <3> HIDE DEF p
    <3> QED
      BY <1>8, <2>3, <2>4, <3>1
  <2> QED
    BY <2>5, <2>6
<1>13. \A k \in 0..N : b[k] \in Seq(Byte)
  BY <1>6
<1>14. p(0) = 1
  BY <1>4
<1> HIDE DEF p
<1>15. Q(N)
  <2> SUFFICES ASSUME p(N) <= n + 1
               PROVE  /\ f[p(N)].returned
                      /\ f[p(N)].ok => b[N] \o f[p(N)].body = b[N]
                      /\ n = Len(e) => f[p(N)].ok
    OBVIOUS
  <2>1. N \in 0..N
    BY <1>1
  <2>2. p(N) \in 1..(n + 1) /\ b[N] \in Seq(Byte)
    BY <1>11, <1>13, <2>1
  <2>3. f[p(N)] = IF p(N) + 2 <= n THEN Accepted(<<>>) ELSE Rejected
    BY <1>8, <1>9, <1>12, <2>2, DecodeLastLine
  <2>4. n = Len(e) => p(N) + 2 <= n
    BY <1>11, <2>1
  <2>5. f[p(N)].returned /\ (f[p(N)].ok => f[p(N)].body = <<>>)
    BY <2>3, RejectedDecoded, EmptySeq, AcceptedDecoded
  <2>6. n = Len(e) => f[p(N)].ok
    BY <2>3, <2>4, EmptySeq, AcceptedDecoded
  <2>7. b[N] \o <<>> = b[N]
    BY <2>2, ConcatEmptySeq
  <2> QED
    BY <2>5, <2>6, <2>7
<1>16. ASSUME NEW k \in 1..N, Q(k) PROVE Q(k - 1)
  <2> DEFINE i == p(k - 1)
             c == cs[k]
  <2> SUFFICES ASSUME i <= n + 1
               PROVE  /\ f[i].returned
                      /\ f[i].ok => b[k - 1] \o f[i].body = b[N]
                      /\ n = Len(e) => f[i].ok
    OBVIOUS
  <2>1. /\ k - 1 \in 0..N /\ k \in 0..N /\ i \in 1..(n + 1) /\ i + Len(c) + 5 = p(k)
        /\ Len(c) \in Nat /\ i + Len(c) + 4 < Word
    <3>1. k - 1 \in 0..N /\ k \in 0..N
      BY <1>1
    <3>2. i \in Nat \ {0} /\ p(k) = i + Len(c) + 5 /\ Len(c) \in Nat
      BY <1>11, <3>1
    <3>3. p(k) <= p(N) /\ p(N) \in Nat /\ Len(e) = p(N) + 4 /\ Word \in Nat
      BY <1>1, <1>11, <3>1, ChunkedAssumption
    <3> HIDE DEF i, c
    <3>4. i + Len(c) + 4 < Word
      BY <1>0, <3>2, <3>3
    <3> QED
      BY <1>11, <3>1, <3>2, <3>4
  <2>2. c \in Chunk /\ c \in Seq(Byte) /\ StandsAt(EncodeChunk(c), in, i)
    BY <1>1, <1>12 DEF Chunk
  <2> HIDE DEF c, i
  <2>3. IF p(k) <= n + 1
        THEN f[i] = IF f[p(k)].ok THEN Accepted(c \o f[p(k)].body) ELSE f[p(k)]
        ELSE f[i] = Rejected
    BY <1>8, <1>9, <2>1, <2>2, DecodeChunk
  <2>4. CASE ~(p(k) <= n + 1)
    <3>1. n # Len(e)
      <4>1. p(k) \in Nat /\ p(k) <= p(N) /\ p(N) \in Nat
        <5>1. k \in 0..N /\ N \in 0..N
          BY <1>1
        <5> QED
          BY <1>11, <5>1
      <4> QED
        BY <1>11, <2>4, <4>1
    <3> QED
      BY <2>3, <2>4, <3>1, RejectedDecoded
  <2>5. CASE p(k) <= n + 1
    <3>1. p(k) \in 1..(n + 1)
      BY <1>11, <2>1, <2>5
    <3>2. f[p(k)] \in Decoded
      BY <1>10, <3>1
    <3> DEFINE r == f[p(k)].body
    <3>3. r \in Seq(Byte)
      BY <3>2 DEF Decoded
    <3>4. f[p(k)].ok => b[k] \o r = b[N]
      BY <1>16, <2>5
    <3>5. f[p(k)].returned /\ (n = Len(e) => f[p(k)].ok)
      BY <1>16, <2>5
    <3> HIDE DEF r
    <3>6. b[k - 1] \in Seq(Byte) /\ b[k] = b[k - 1] \o c
      BY <1>6, <1>13, <2>1 DEF c
    <3>7. (b[k - 1] \o c) \o r = b[k - 1] \o (c \o r)
      <4> DEFINE x == b[k - 1]
      <4>1. x \in Seq(Byte) /\ c \in Seq(Byte) /\ r \in Seq(Byte)
        BY <2>2, <3>3, <3>6
      <4> HIDE DEF x
      <4>2. (x \o c) \o r = x \o (c \o r)
        BY <4>1, Regrouping, Zenon
      <4> QED
        BY <4>2 DEF x
    <3>8. c \o r \in Seq(Byte)
      BY <2>2, <3>3, ConcatProperties
    <3>9. f[i] = IF f[p(k)].ok THEN Accepted(c \o r) ELSE f[p(k)]
      BY <2>3, <2>5 DEF r
    <3>10. CASE f[p(k)].ok
      <4>1. f[i].ok /\ f[i].returned /\ f[i].body = c \o r
        BY <3>8, <3>9, <3>10, AcceptedDecoded
      <4>2. b[k - 1] \o (c \o r) = b[N]
        BY <3>4, <3>6, <3>7, <3>10
      <4> QED
        BY <4>1, <4>2
    <3>11. CASE ~f[p(k)].ok
      BY <3>5, <3>9, <3>11, RejectedDecoded
    <3> QED
      BY <3>10, <3>11
  <2> QED
    BY <2>4, <2>5
<1> DEFINE K == {m \in Nat : m <= N => Q(N - m)}
<1>17. 0 \in K
  <2>1. N - 0 = N
    BY <1>1
  <2> HIDE DEF Q
  <2> QED
    BY <1>15, <2>1
<1>18. ASSUME NEW m \in Nat, m \in K PROVE m + 1 \in K
  <2> HIDE DEF Q
  <2> SUFFICES ASSUME m + 1 <= N PROVE Q(N - (m + 1))
    OBVIOUS
  <2>1. N - m \in 1..N /\ (N - m) - 1 = N - (m + 1) /\ m <= N
    BY <1>1
  <2>2. Q(N - m)
    BY <1>18, <2>1
  <2>3. Q((N - m) - 1)
    BY <1>16, <2>1, <2>2
  <2> QED
    BY <2>1, <2>3
<1>19. Q(0)
  <2>1. \A m \in Nat : m \in K
    <3> HIDE DEF K
    <3> QED
      BY <1>17, <1>18, Induction
  <2> HIDE DEF Q
  <2>2. N - N = 0 /\ N <= N
    BY <1>1
  <2>3. Q(N - N)
    BY <1>1, <2>1, <2>2
  <2> QED
    BY <2>2, <2>3
<1>20. f[1] \in Decoded
  BY <1>10, <1>11
<1>21. /\ f[1].returned
       /\ f[1].ok => <<>> \o f[1].body = b[N]
       /\ n = Len(e) => f[1].ok
  <2>1. p(0) <= n + 1
    BY <1>11, <1>14
  <2>2. /\ f[p(0)].returned
        /\ f[p(0)].ok => b[0] \o f[p(0)].body = b[N]
        /\ n = Len(e) => f[p(0)].ok
    BY <1>19, <2>1
  <2> QED
    BY <1>6, <1>14, <2>2
<1>22. f[1].body \in Seq(Byte)
  BY <1>20 DEF Decoded
<1>23. <<>> \o f[1].body = f[1].body
  BY <1>22, ConcatEmptySeq
<1>24. f[1].ok => f[1].body = FlattenSeq(cs)
  BY <1>5, <1>21, <1>23
<1> QED
  BY <1>9, <1>20, <1>21, <1>24 DEF e, in

-----------------------------------------------------------------------------
(***************************************************************************)
(* The greatest of the places, as Max of the community modules finds it.   *)
(***************************************************************************)
LEMMA MaxProperties ==
  ASSUME NEW S, NEW b \in Nat, S \subseteq 0..b, S # {}
  PROVE  Max(S) \in S /\ \A k \in S : k <= Max(S)
<1> DEFINE U == {n \in Nat : \A k \in S : k <= n}
<1>1. b \in U
  OBVIOUS
<1>2. PICK m \in U : \A n \in U : m <= n
  <2> HIDE DEF U
  <2>1. U \subseteq Nat
    BY DEF U
  <2> QED
    BY <1>1, <2>1, Least
<1>3. m \in S
  <2> SUFFICES ASSUME m \notin S PROVE FALSE
    OBVIOUS
  <2>1. \A k \in S : k \in Nat /\ k < m
    BY <1>2
  <2>2. m # 0
    <3>1. PICK k \in S : TRUE
      OBVIOUS
    <3>2. k \in Nat /\ k < m
      BY <2>1
    <3> QED
      BY <3>2
  <2>3. m - 1 \in Nat /\ \A k \in S : k <= m - 1
    BY <2>1, <2>2
  <2> QED
    BY <1>2, <2>3
<1>4. \A k \in S : m >= k
  BY <1>2
<1>5. Max(S) \in S /\ \A k \in S : Max(S) >= k
  BY <1>3, <1>4, Zenon DEF Max
<1> QED
  BY <1>5

(***************************************************************************)
(* A size line at i: where it ends, and its size.                          *)
(***************************************************************************)
LEMMA SizeLineType ==
  ASSUME NEW in \in Seq(Byte), NEW i \in 1..Len(in)
  PROVE  /\ LineEnd(in, i) \in i..Len(in)
         /\ SizeOf(LineAt(in, i)) \in Nat
<1> DEFINE end == LineEnd(in, i)
<1>1. Len(in) \in Nat
  BY LenProperties
<1>2. end \in i..Len(in)
  BY LineEndRange
<1>3. \A j \in i..(end - 1) : in[j] \in Byte
  BY <1>1, <1>2, ElementOfSeq
<1>4. i \in Int /\ end - 1 \in Int
  BY <1>1, <1>2
<1> HIDE DEF end
<1>5. SubSeq(in, i, end - 1) \in Seq(Byte)
  BY <1>3, <1>4, SubSeqProperties
<1>6. SizeOf(SubSeq(in, i, end - 1)) \in Nat
  BY <1>5, SizeIsNat
<1> QED
  BY <1>2, <1>6 DEF LineAt, end

\* What LineEnd finds in the input is the end of a line.
LEMMA LineEndIsOne ==
  ASSUME NEW in \in Seq(Byte), NEW i \in 1..Len(in), LineEnd(in, i) # Len(in)
  PROVE  IsLineEnd(in, LineEnd(in, i))
<1> DEFINE S == {j \in i..Len(in) : IsLineEnd(in, j)} \cup {Len(in)}
<1>1. Len(in) \in Nat
  BY LenProperties
<1>2. S \subseteq Nat /\ S # {}
  BY <1>1
<1>3. LineEnd(in, i) = Min(S)
  BY DEF LineEnd
<1>4. Min(S) \in S
  <2> HIDE DEF S
  <2> QED
    BY <1>2, MinProperties
<1> QED
  BY <1>3, <1>4

(***************************************************************************)
(* One round of decode_chunked, in the words of the reference.             *)
(***************************************************************************)
IsPlace(in, i) == i = 1 \/ (i > 2 /\ IsLineEnd(in, i - 2))

LEMMA DecodeRound ==
  ASSUME NEW in \in Seq(Byte), NEW f, IsDecoding(f, in), NEW i \in 1..(Len(in) + 1)
  PROVE  /\ f[i].ok =>
              /\ i \in 1..Len(in)
              /\ IsLineEnd(in, LineEnd(in, i)) /\ LineEnd(in, i) - i < LineMax
              /\ InRange(LineAt(in, i))
              /\ SizeOf(LineAt(in, i)) > 0 =>
                   /\ After(in, i) \in (i + 1)..(Len(in) + 1)
                   /\ IsLineEnd(in, After(in, i) - 2)
                   /\ f[After(in, i)].ok
         /\ ~f[i].returned =>
              /\ i \in 1..Len(in)
              /\ IsLineEnd(in, LineEnd(in, i)) /\ LineEnd(in, i) - i < LineMax
              /\ InRange(LineAt(in, i))
              /\ \/ Wraps(DataOf(in, i), SizeOf(LineAt(in, i)))
                 \/ /\ After(in, i) \in (i + 1)..(Len(in) + 1)
                    /\ IsLineEnd(in, After(in, i) - 2)
                    /\ ~f[After(in, i)].returned
         /\ i \in SizeLines(in) /\ SizeOf(LineAt(in, i)) = 0 => f[i] = Accepted(<<>>)
         /\ i \in SizeLines(in) /\ SizeOf(LineAt(in, i)) > 0 /\ Len(in) < Word
              /\ After(in, i) \in 1..Len(in) /\ IsLineEnd(in, After(in, i) - 2) =>
              f[i] = IF f[After(in, i)].ok
                     THEN Accepted(SubSeq(in, DataOf(in, i), After(in, i) - 3) \o f[After(in, i)].body)
                     ELSE f[After(in, i)]
<1> DEFINE end == LineEnd(in, i)
           size == SizeOf(LineAt(in, i))
           at == end + 2
           rest == f[at + size + 2]
<1>1. Len(in) \in Nat /\ LineMax \in Nat
  BY LenProperties, ChunkedAssumption
<1>2. f[i] = DecodeAt(in, f, i)
  BY DEF IsDecoding
<1> DEFINE out == i > Len(in) \/ end = Len(in) \/ end - i >= LineMax \/ ~InRange(LineAt(in, i))
<1>3. f[i] = IF out THEN Rejected
             ELSE IF size = 0 THEN Accepted(<<>>)
             ELSE IF ~Fits(in, at, size) THEN Rejected
             ELSE IF Wraps(at, size) THEN Never
             ELSE IF ~Ended(in, at + size) THEN Rejected
             ELSE IF rest.ok THEN Accepted(SubSeq(in, at, at + size - 1) \o rest.body) ELSE rest
  BY <1>2, Zenon DEF DecodeAt, LineAt
<1>4. /\ Rejected.ok = FALSE /\ Rejected.returned /\ Never.ok = FALSE
      /\ \A x : Accepted(x).returned
  BY DEF Rejected, Never, Accepted
<1>5. i \in 1..Len(in) => end \in i..Len(in) /\ size \in Nat
  BY SizeLineType
<1>6. i \in 1..Len(in) /\ end # Len(in) => IsLineEnd(in, end)
  BY LineEndIsOne
<1>7. DataOf(in, i) = at /\ After(in, i) = at + size + 2
  BY DEF DataOf, After
<1>8. i \in 1..Len(in) => /\ After(in, i) - 3 = at + size - 1
                          /\ After(in, i) - 2 = at + size
                          /\ After(in, i) > i
  BY <1>1, <1>5, <1>7
<1>9. i \in SizeLines(in) => /\ i \in 1..Len(in) /\ end - i < LineMax
                             /\ IsLineEnd(in, end) /\ InRange(LineAt(in, i))
  BY DEF SizeLines
<1>10. i \in SizeLines(in) => ~out
  <2> HIDE DEF end
  <2> QED
    BY <1>1, <1>5, <1>9 DEF IsLineEnd
<1>11. i \in 1..Len(in) => at \in Nat /\ at > i
  BY <1>1, <1>5
<1> HIDE DEF end, size
<1>12. ~out => /\ i \in 1..Len(in) /\ IsLineEnd(in, end) /\ end - i < LineMax
               /\ InRange(LineAt(in, i)) /\ end \in i..Len(in) /\ size \in Nat
  <2> SUFFICES ASSUME ~out
               PROVE  /\ i \in 1..Len(in) /\ IsLineEnd(in, end) /\ end - i < LineMax
                      /\ InRange(LineAt(in, i)) /\ end \in i..Len(in) /\ size \in Nat
    OBVIOUS
  <2>1. i \in 1..Len(in) /\ InRange(LineAt(in, i)) /\ end # Len(in) /\ ~(end - i >= LineMax)
    BY <1>1
  <2>2. IsLineEnd(in, end) /\ end \in i..Len(in) /\ size \in Nat
    BY <1>5, <1>6, <2>1
  <2> QED
    BY <1>1, <2>1, <2>2
<1>13. ASSUME ~out, Fits(in, at, size), ~Wraps(at, size), Ended(in, at + size)
       PROVE  After(in, i) \in (i + 1)..(Len(in) + 1) /\ IsLineEnd(in, After(in, i) - 2)
  <2>1. i \in 1..Len(in) /\ size \in Nat /\ at \in Nat /\ at > i
    BY <1>11, <1>12, <1>13
  <2>2. at + size + 1 <= Len(in)
    BY <1>1, <1>13, <2>1, FitsFacts
  <2>3. at + size + 2 \in (i + 1)..(Len(in) + 1)
    BY <1>1, <2>1, <2>2
  <2> QED
    BY <1>7, <1>8, <1>13, <2>1, <2>3 DEF Ended
<1>14. ASSUME f[i].ok
       PROVE  /\ ~out
              /\ size > 0 => /\ After(in, i) \in (i + 1)..(Len(in) + 1)
                             /\ IsLineEnd(in, After(in, i) - 2)
                             /\ f[After(in, i)].ok
  <2>1. ~out
    BY <1>3, <1>4, <1>14, Zenon
  <2>2. ASSUME size > 0
        PROVE  Fits(in, at, size) /\ ~Wraps(at, size) /\ Ended(in, at + size) /\ rest.ok
    <3>1. size # 0
      BY <2>2
    <3> HIDE DEF out
    <3> QED
      BY <1>3, <1>4, <1>14, <2>1, <3>1, Zenon
  <2>3. rest = f[After(in, i)]
    BY <1>7
  <2> QED
    BY <1>13, <2>1, <2>2, <2>3, Zenon
<1>15. ASSUME ~f[i].returned
       PROVE  /\ ~out
              /\ \/ Wraps(at, size)
                 \/ /\ After(in, i) \in (i + 1)..(Len(in) + 1)
                    /\ IsLineEnd(in, After(in, i) - 2)
                    /\ ~f[After(in, i)].returned
  <2>1. ~out
    BY <1>3, <1>4, <1>15, Zenon
  <2>2. ASSUME ~Wraps(at, size)
        PROVE  Fits(in, at, size) /\ Ended(in, at + size) /\ ~rest.returned
    <3> HIDE DEF out
    <3> QED
      BY <1>3, <1>4, <1>15, <2>1, <2>2, Zenon
  <2>3. rest = f[After(in, i)]
    BY <1>7
  <2> QED
    BY <1>13, <2>1, <2>2, <2>3, Zenon
<1>16. ASSUME i \in SizeLines(in), size = 0 PROVE f[i] = Accepted(<<>>)
  BY <1>3, <1>10, <1>16, Zenon
<1>17. ASSUME i \in SizeLines(in), size > 0, Len(in) < Word,
              After(in, i) \in 1..Len(in), IsLineEnd(in, After(in, i) - 2)
       PROVE  f[i] = IF f[After(in, i)].ok
                     THEN Accepted(SubSeq(in, DataOf(in, i), After(in, i) - 3) \o f[After(in, i)].body)
                     ELSE f[After(in, i)]
  <2>1. size # 0 /\ size \in Nat /\ at \in Nat /\ i \in 1..Len(in)
    BY <1>5, <1>9, <1>11, <1>17
  <2>2. at + size + 1 <= Len(in)
    BY <1>1, <1>7, <1>17, <2>1
  <2>3. Fits(in, at, size) /\ ~Wraps(at, size)
    BY <1>1, <1>17, <2>1, <2>2, FitsFacts
  <2>4. Ended(in, at + size)
    BY <1>8, <1>17, <2>1 DEF Ended
  <2>5. f[i] = IF rest.ok THEN Accepted(SubSeq(in, at, at + size - 1) \o rest.body) ELSE rest
    <3>1. ~out
      BY <1>10, <1>17
    <3> HIDE DEF out
    <3> QED
      BY <1>3, <2>1, <2>3, <2>4, <3>1, Zenon
  <2> QED
    BY <1>7, <1>8, <2>1, <2>5, Zenon
<1> QED
  BY <1>7, <1>12, <1>14, <1>15, <1>16, <1>17, Zenon DEF end, size

(***************************************************************************)
(* The size lines from i on, each one that is not the last followed by the *)
(* next one: what is left of a body in chunks at i.                        *)
(***************************************************************************)
Follows(in, places, j) ==
  IF j = Max(places) THEN SizeOf(LineAt(in, j)) = 0
  ELSE /\ SizeOf(LineAt(in, j)) > 0
       /\ After(in, j) = Min({k \in places : k > j})

IsTail(in, places, i) ==
  /\ places \subseteq SizeLines(in)
  /\ i \in places
  /\ \A j \in places : i <= j
  /\ \A j \in places : Follows(in, places, j)

\* From the first byte on they are the whole body.
LEMMA ChunkingIsTail ==
  ASSUME NEW in \in Seq(Byte), NEW places
  PROVE  places \in Chunkings(in) <=> IsTail(in, places, 1)
<1>1. Len(in) \in Nat
  BY LenProperties
<1>2. places \subseteq SizeLines(in) => \A j \in places : 1 <= j
  BY <1>1 DEF SizeLines
<1>3. IsChunking(in, places) <=> 1 \in places /\ \A j \in places : Follows(in, places, j)
  BY Zenon DEF IsChunking, Follows
<1> QED
  BY <1>2, <1>3 DEF Chunkings, IsTail

\* A number before all others is not the greatest.
LEMMA MaxMore ==
  ASSUME NEW b \in Nat, NEW i \in 0..b, NEW rest, rest \subseteq 0..b,
         rest # {}, \A j \in rest : i < j
  PROVE  Max({i} \cup rest) = Max(rest) /\ Max(rest) # i
<1> DEFINE P == {i} \cup rest
<1>1. P \subseteq 0..b /\ P # {}
  OBVIOUS
<1>2. Max(rest) \in rest /\ \A k \in rest : k <= Max(rest)
  BY MaxProperties
<1>3. Max(P) \in P /\ \A k \in P : k <= Max(P)
  <2> HIDE DEF P
  <2> QED
    BY <1>1, MaxProperties
<1> HIDE DEF P
<1>4. Max(rest) \in Nat /\ Max(P) \in Nat
  <2>1. \A k \in 0..b : k \in Nat
    OBVIOUS
  <2>2. Max(rest) \in 0..b /\ Max(P) \in 0..b
    BY <1>1, <1>2, <1>3
  <2> QED
    BY <2>1, <2>2
<1>5. i < Max(rest) /\ Max(rest) <= Max(P)
  <2>1. Max(rest) \in P
    BY <1>2 DEF P
  <2> QED
    BY <1>2, <1>3, <2>1
<1>6. Max(P) # i /\ Max(rest) # i
  BY <1>4, <1>5
<1>7. Max(P) \in rest
  BY <1>3, <1>6 DEF P
<1>8. Max(P) <= Max(rest)
  BY <1>2, <1>7
<1> QED
  BY <1>4, <1>5, <1>6, <1>8 DEF P

\* Such places without the first of them, or with one before them.
LEMMA TailStep ==
  ASSUME NEW in \in Seq(Byte), NEW i \in SizeLines(in), NEW rest, rest \subseteq SizeLines(in),
         rest # {}, \A j \in rest : i < j
  PROVE  IsTail(in, {i} \cup rest, i) <=>
           /\ SizeOf(LineAt(in, i)) > 0
           /\ After(in, i) \in rest
           /\ IsTail(in, rest, After(in, i))
<1> DEFINE P == {i} \cup rest
<1>1. Len(in) \in Nat
  BY LenProperties
<1>2. SizeLines(in) \subseteq 1..Len(in)
  BY DEF SizeLines
<1>3. i \in 1..Len(in) /\ rest \subseteq 0..Len(in) /\ P \subseteq 0..Len(in) /\ P # {}
  BY <1>1, <1>2
<1>4. i \in Nat /\ rest \subseteq Nat /\ P \subseteq Nat
  BY <1>1, <1>3
<1>5. Max(P) = Max(rest) /\ Max(P) # i
  <2> HIDE DEF P
  <2>1. i \in 0..Len(in)
    BY <1>1, <1>3
  <2>2. Max({i} \cup rest) = Max(rest) /\ Max(rest) # i
    BY <1>1, <1>3, <2>1, MaxMore, Zenon
  <2> QED
    BY <2>2 DEF P
<1>6. ASSUME NEW j \in rest PROVE Follows(in, P, j) <=> Follows(in, rest, j)
  <2>1. {k \in P : k > j} = {k \in rest : k > j}
    <3>1. j \in Nat /\ i < j
      BY <1>4
    <3> QED
      BY <1>4, <3>1
  <2> HIDE DEF P
  <2> QED
    BY <1>5, <2>1, Zenon DEF Follows
<1>7. {k \in P : k > i} = rest
  <2>1. \A k \in rest : k > i
    BY <1>4
  <2>2. ~ (i > i)
    BY <1>4
  <2> QED
    BY <2>1, <2>2
<1>8. Follows(in, P, i) <=> SizeOf(LineAt(in, i)) > 0 /\ After(in, i) = Min(rest)
  <2> HIDE DEF P
  <2> QED
    BY <1>5, <1>7, Zenon DEF Follows
<1>9. Min(rest) \in rest /\ \A k \in rest : Min(rest) <= k
  BY <1>4, MinProperties
<1>10. ASSUME NEW m \in rest, \A k \in rest : m <= k PROVE m = Min(rest)
  <2>1. m \in Nat /\ Min(rest) \in Nat /\ m <= Min(rest) /\ Min(rest) <= m
    BY <1>4, <1>9, <1>10
  <2> QED
    BY <2>1
<1>11. i \in P /\ P \subseteq SizeLines(in) /\ rest \subseteq P /\ \A j \in P : i <= j
  <2>1. i <= i /\ \A j \in rest : i <= j
    BY <1>4
  <2> QED
    BY <2>1
<1>12. \A j \in P : j = i \/ j \in rest
  OBVIOUS
<1> HIDE DEF P
<1>13. IsTail(in, P, i) <=> Follows(in, P, i) /\ \A j \in rest : Follows(in, rest, j)
  BY <1>6, <1>11, <1>12, Zenon DEF IsTail
<1>14. IsTail(in, P, i) <=>
         /\ SizeOf(LineAt(in, i)) > 0 /\ After(in, i) = Min(rest)
         /\ \A j \in rest : Follows(in, rest, j)
  BY <1>8, <1>13, Zenon
<1>15. After(in, i) = Min(rest) <=>
         After(in, i) \in rest /\ \A k \in rest : After(in, i) <= k
  BY <1>9, <1>10, Zenon
<1>16. IsTail(in, P, i) <=>
         /\ SizeOf(LineAt(in, i)) > 0
         /\ After(in, i) \in rest
         /\ IsTail(in, rest, After(in, i))
  BY <1>14, <1>15, Zenon DEF IsTail
<1> QED
  BY <1>16 DEF P

\* The last line alone.
LEMMA TailAlone ==
  ASSUME NEW in \in Seq(Byte), NEW i \in SizeLines(in)
  PROVE  /\ IsTail(in, {i}, i) <=> SizeOf(LineAt(in, i)) = 0
         /\ Max({i}) = i
<1>1. Len(in) \in Nat
  BY LenProperties
<1>2. i \in 1..Len(in) /\ {i} \subseteq 0..Len(in) /\ {i} # {}
  BY <1>1 DEF SizeLines
<1>3. Max({i}) \in {i}
  BY <1>1, <1>2, MaxProperties
<1>4. i <= i
  BY <1>1, <1>2
<1>5. Max({i}) = i
  BY <1>3
<1> QED
  BY <1>4, <1>5 DEF IsTail, Follows

-----------------------------------------------------------------------------
(***************************************************************************)
(* What is read at some places, behind what stands between two others.     *)
(***************************************************************************)
LEMMA ReadsMore ==
  ASSUME NEW in \in Seq(Byte), NEW at \in Nat \ {0}, NEW upto \in Nat,
         at <= upto + 1, upto <= Len(in),
         NEW data, data \subseteq 1..Len(in), \A k \in data : upto < k,
         NEW b \in Seq(Byte), Reads(b, in, data)
  PROVE  Reads(SubSeq(in, at, upto) \o b, in, (at..upto) \cup data)
<1> DEFINE s == SubSeq(in, at, upto)
           l == upto - at + 1
           t == s \o b
           all == (at..upto) \cup data
<1>1. Len(in) \in Nat /\ Len(b) \in Nat
  BY LenProperties
<1>2. s \in Seq(Byte) /\ Len(s) = l /\ \A n \in 1..l : s[n] = in[at + n - 1]
  <2>1. \A j \in at..upto : in[j] \in Byte
    BY <1>1, ElementOfSeq
  <2>2. /\ SubSeq(in, at, upto) \in Seq(Byte)
        /\ Len(SubSeq(in, at, upto)) = IF at <= upto THEN upto - at + 1 ELSE 0
        /\ \A n \in 1..(upto - at + 1) : SubSeq(in, at, upto)[n] = in[at + n - 1]
    <3> DEFINE c == SubSeq(in, at, upto)
    <3>1. at \in Int /\ upto \in Int
      OBVIOUS
    <3>2. /\ c \in Seq(Byte) /\ Len(c) = IF at <= upto THEN upto - at + 1 ELSE 0
          /\ \A n \in 1..(upto - at + 1) : c[n] = in[at + n - 1]
      BY <2>1, <3>1, SubSeqProperties
    <3> QED
      BY <3>2, Zenon
  <2> QED
    BY <2>2
<1>3. l \in Nat
  OBVIOUS
<1> HIDE DEF s
<1>4. /\ Len(t) = l + Len(b)
      /\ \A n \in 1..(l + Len(b)) : t[n] = IF n <= l THEN s[n] ELSE b[n - l]
  <2> HIDE DEF l
  <2>1. /\ Len(s \o b) = Len(s) + Len(b)
        /\ \A n \in 1..(Len(s) + Len(b)) :
             (s \o b)[n] = IF n <= Len(s) THEN s[n] ELSE b[n - Len(s)]
    BY <1>2, ConcatProperties
  <2> QED
    BY <1>2, <2>1, Zenon
<1>5. PICK order \in [1..Len(b) -> data] :
        /\ \A n \in 1..(Len(b) - 1) : order[n] < order[n + 1]
        /\ \A k \in data : \E n \in 1..Len(b) : order[n] = k
        /\ \A n \in 1..Len(b) : b[n] = in[order[n]]
  BY DEF Reads
<1> DEFINE longer == [n \in 1..(l + Len(b)) |-> IF n <= l THEN at + n - 1 ELSE order[n - l]]
<1>6. \A n \in 1..l : n \in 1..(l + Len(b)) /\ longer[n] = at + n - 1 /\ longer[n] \in at..upto
  BY <1>1, <1>3
<1>7. \A n \in 1..Len(b) : /\ l + n \in 1..(l + Len(b)) /\ longer[l + n] = order[n]
                           /\ order[n] \in data
  <2> HIDE DEF l
  <2> SUFFICES ASSUME NEW n \in 1..Len(b)
               PROVE  l + n \in 1..(l + Len(b)) /\ longer[l + n] = order[n] /\ order[n] \in data
    OBVIOUS
  <2>1. l + n \in 1..(l + Len(b)) /\ ~(l + n <= l) /\ (l + n) - l = n
    BY <1>1, <1>3
  <2>2. longer[l + n] = order[n]
    BY <2>1
  <2> HIDE DEF longer
  <2>3. order[n] \in data
    BY <1>5
  <2> QED
    BY <2>1, <2>2, <2>3
<1>8. \A n \in 1..(l + Len(b)) : n \in 1..l \/ (n - l \in 1..Len(b) /\ n = l + (n - l))
  BY <1>1, <1>3
<1>9. DOMAIN longer = 1..(l + Len(b)) /\ longer = [n \in 1..(l + Len(b)) |-> longer[n]]
  BY Zenon
<1> HIDE DEF longer, t, l
<1>10. longer \in [1..(l + Len(b)) -> all]
  <2>1. ASSUME NEW n \in 1..(l + Len(b)) PROVE longer[n] \in all
    BY <1>6, <1>7, <1>8
  <2> QED
    BY <1>9, <2>1
<1>11. ASSUME NEW n \in 1..(l + Len(b) - 1) PROVE longer[n] < longer[n + 1]
  <2>1. CASE n \in 1..l /\ n + 1 \in 1..l
    BY <1>3, <1>6, <2>1
  <2>2. CASE n = l /\ n \in 1..l
    <3>1. 1 \in 1..Len(b)
      BY <1>1, <1>3, <2>2
    <3>2. longer[n + 1] \in data /\ longer[n] \in at..upto
      BY <1>6, <1>7, <2>2, <3>1
    <3>3. upto < longer[n + 1] /\ longer[n + 1] \in 1..Len(in)
      BY <3>2
    <3> QED
      BY <1>1, <3>2, <3>3
  <2>3. CASE n > l
    <3>1. n - l \in 1..(Len(b) - 1) /\ n - l \in 1..Len(b) /\ (n - l) + 1 \in 1..Len(b)
      BY <1>1, <1>3, <2>3
    <3>2. l + (n - l) = n /\ l + ((n - l) + 1) = n + 1
      BY <1>3
    <3>3. longer[n] = order[n - l] /\ longer[n + 1] = order[(n - l) + 1]
      BY <1>7, <3>1, <3>2
    <3> QED
      BY <1>5, <3>1, <3>3
  <2> QED
    BY <1>1, <1>3, <2>1, <2>2, <2>3
<1>12. ASSUME NEW k \in all PROVE \E n \in 1..(l + Len(b)) : longer[n] = k
  <2>1. CASE k \in at..upto
    <3>1. k - at + 1 \in 1..l /\ at + (k - at + 1) - 1 = k
      BY <2>1 DEF l
    <3> QED
      BY <1>6, <3>1
  <2>2. CASE k \in data
    <3>1. PICK n \in 1..Len(b) : order[n] = k
      BY <1>5, <2>2
    <3> QED
      BY <1>7, <3>1
  <2> QED
    BY <2>1, <2>2
<1>13. ASSUME NEW n \in 1..(l + Len(b)) PROVE t[n] = in[longer[n]]
  <2>1. CASE n \in 1..l
    <3>1. n <= l
      BY <1>3, <2>1
    <3> QED
      BY <1>2, <1>4, <1>6, <2>1, <3>1
  <2>2. CASE n - l \in 1..Len(b) /\ n = l + (n - l)
    <3>1. ~(n <= l)
      BY <1>3, <2>2
    <3> QED
      BY <1>4, <1>5, <1>7, <2>2, <3>1
  <2> QED
    BY <1>8, <2>1, <2>2
<1> HIDE DEF all
<1>14. Reads(t, in, all)
  <2>1. longer \in [1..Len(t) -> all]
    BY <1>4, <1>10
  <2>2. \A n \in 1..(Len(t) - 1) : longer[n] < longer[n + 1]
    <3>1. Len(t) - 1 = l + Len(b) - 1
      BY <1>1, <1>3, <1>4
    <3> QED
      BY <1>11, <3>1
  <2>3. \A k \in all : \E n \in 1..Len(t) : longer[n] = k
    BY <1>4, <1>12
  <2>4. \A n \in 1..Len(t) : t[n] = in[longer[n]]
    BY <1>4, <1>13
  <2> QED
    BY <2>1, <2>2, <2>3, <2>4, Zenon DEF Reads
<1> QED
  BY <1>14 DEF t, s, all

LEMMA ReadsNothing == ASSUME NEW in PROVE Reads(<<>>, in, {})
<1> DEFINE order == [n \in 1..0 |-> 0]
<1>1. Len(<<>>) = 0 /\ 1..0 = {} /\ 1..(0 - 1) = {}
  OBVIOUS
<1>2. order \in [1..0 -> {}]
  OBVIOUS
<1> QED
  BY <1>1, <1>2 DEF Reads

\* The data of a first chunk are those behind its size line.
IsFirst(in, i, rest) ==
  /\ i \in SizeLines(in) /\ rest \subseteq SizeLines(in)
  /\ rest # {} /\ \A j \in rest : i < j
  /\ DataOf(in, i)..(After(in, i) - 3) \subseteq 1..Len(in)

LEMMA DataPlacesMore ==
  ASSUME NEW in \in Seq(Byte), NEW i, NEW rest, IsFirst(in, i, rest)
  PROVE  DataPlaces(in, {i} \cup rest)
           = (DataOf(in, i)..(After(in, i) - 3)) \cup DataPlaces(in, rest)
<1> DEFINE D(j) == DataOf(in, j)..(After(in, j) - 3)
           L == 1..Len(in)
<1>0. Max({i} \cup rest) = Max(rest) /\ Max(rest) # i
  <2>1. Len(in) \in Nat
    BY LenProperties
  <2>2. i \in 0..Len(in) /\ rest \subseteq 0..Len(in)
    BY <2>1 DEF IsFirst, SizeLines
  <2>3. rest # {} /\ \A j \in rest : i < j
    BY DEF IsFirst
  <2> QED
    BY <2>1, <2>2, <2>3, MaxMore, Zenon
<1>1. ({i} \cup rest) \ {Max(rest)} = {i} \cup (rest \ {Max(rest)})
  BY <1>0
<1>2. DataPlaces(in, {i} \cup rest) = {k \in L : \E j \in {i} \cup (rest \ {Max(rest)}) : k \in D(j)}
  BY <1>0, <1>1, Zenon DEF DataPlaces
<1>3. DataPlaces(in, rest) = {k \in L : \E j \in rest \ {Max(rest)} : k \in D(j)}
  BY Zenon DEF DataPlaces
<1>4. D(i) \subseteq L
  BY DEF IsFirst
<1> HIDE DEF D, L
<1> DEFINE R == rest \ {Max(rest)}
<1> HIDE DEF R
<1>5. {k \in L : \E j \in {i} \cup R : k \in D(j)} = D(i) \cup {k \in L : \E j \in R : k \in D(j)}
  BY <1>4
<1> QED
  BY <1>2, <1>3, <1>5 DEF R, D

(***************************************************************************)
(* What decode_chunked makes of the input from i on, if it is so from all  *)
(* later places.  By descent from the end of the input it is so from every *)
(* place.                                                                  *)
(***************************************************************************)
DecodesFrom(in, f, i) ==
  /\ IsPlace(in, i) /\ f[i].ok => \E places : IsTail(in, places, i)
  /\ \A places : IsTail(in, places, i) =>
       f[i].ok /\ Reads(f[i].body, in, DataPlaces(in, places))
  /\ IsPlace(in, i) /\ ~f[i].returned =>
       \E j \in SizeLines(in) : Wraps(DataOf(in, j), SizeOf(LineAt(in, j)))

LEMMA AcceptedHasTail ==
  ASSUME NEW in \in Seq(Byte), NEW f, IsDecoding(f, in), NEW i \in 1..(Len(in) + 1),
         \A j \in (i + 1)..(Len(in) + 1) : DecodesFrom(in, f, j),
         IsPlace(in, i), f[i].ok
  PROVE  \E places : IsTail(in, places, i)
<1> DEFINE a == After(in, i)
           size == SizeOf(LineAt(in, i))
<1>1. Len(in) \in Nat
  BY LenProperties
<1>2. /\ i \in 1..Len(in) /\ IsLineEnd(in, LineEnd(in, i)) /\ LineEnd(in, i) - i < LineMax
      /\ InRange(LineAt(in, i))
      /\ size > 0 => a \in (i + 1)..(Len(in) + 1) /\ IsLineEnd(in, a - 2) /\ f[a].ok
  BY DecodeRound
<1>3. i \in SizeLines(in)
  BY <1>2 DEF SizeLines, IsPlace
<1>4. size \in Nat /\ LineEnd(in, i) \in i..Len(in)
  BY <1>2, SizeLineType
<1>5. a = LineEnd(in, i) + 2 + size + 2
  BY DEF After, DataOf
<1>6. a > i + 3
  BY <1>1, <1>2, <1>4, <1>5
<1> HIDE DEF size, a
<1>7. CASE size = 0
  BY <1>3, <1>7, TailAlone DEF size
<1>8. CASE size > 0
  <2>1. a \in (i + 1)..(Len(in) + 1) /\ IsLineEnd(in, a - 2) /\ f[a].ok
    BY <1>2, <1>8
  <2>2. a > 2
    BY <1>1, <1>2, <1>6, <2>1
  <2>3. PICK rest : IsTail(in, rest, a)
    BY <2>1, <2>2 DEF DecodesFrom, IsPlace
  <2>4. /\ rest \subseteq SizeLines(in) /\ a \in rest /\ rest # {}
        /\ \A j \in rest : a <= j
    BY <2>3 DEF IsTail
  <2>5. \A j \in rest : i < j
    <3>1. SizeLines(in) \subseteq Nat
      BY <1>1 DEF SizeLines
    <3> QED
      BY <1>1, <1>2, <1>6, <2>1, <2>4, <3>1
  <2>6. IsTail(in, {i} \cup rest, i)
    BY <1>3, <1>8, <2>3, <2>4, <2>5, TailStep DEF size, a
  <2> QED
    BY <2>6
<1> QED
  BY <1>4, <1>7, <1>8 DEF size

\* An input that is never decoded has a size that wraps.
LEMMA NeverHasWrap ==
  ASSUME NEW in \in Seq(Byte), NEW f, IsDecoding(f, in), NEW i \in 1..(Len(in) + 1),
         \A j \in (i + 1)..(Len(in) + 1) : DecodesFrom(in, f, j),
         IsPlace(in, i), ~f[i].returned
  PROVE  \E j \in SizeLines(in) : Wraps(DataOf(in, j), SizeOf(LineAt(in, j)))
<1> DEFINE a == After(in, i)
<1>1. /\ i \in 1..Len(in) /\ IsLineEnd(in, LineEnd(in, i)) /\ LineEnd(in, i) - i < LineMax
      /\ InRange(LineAt(in, i))
      /\ \/ Wraps(DataOf(in, i), SizeOf(LineAt(in, i)))
         \/ a \in (i + 1)..(Len(in) + 1) /\ IsLineEnd(in, a - 2) /\ ~f[a].returned
  BY DecodeRound
<1>2. i \in SizeLines(in)
  BY <1>1 DEF SizeLines, IsPlace
<1>3. SizeOf(LineAt(in, i)) \in Nat /\ LineEnd(in, i) \in i..Len(in) /\ Len(in) \in Nat
  BY <1>1, SizeLineType, LenProperties
<1>4. a = LineEnd(in, i) + 2 + SizeOf(LineAt(in, i)) + 2
  BY DEF After, DataOf
<1>5. a > 2
  BY <1>1, <1>3, <1>4
<1> HIDE DEF a
<1>6. CASE Wraps(DataOf(in, i), SizeOf(LineAt(in, i)))
  BY <1>2, <1>6
<1>7. CASE a \in (i + 1)..(Len(in) + 1) /\ IsLineEnd(in, a - 2) /\ ~f[a].returned
  BY <1>5, <1>7 DEF DecodesFrom, IsPlace
<1> QED
  BY <1>1, <1>6, <1>7

LEMMA TailIsDecoded ==
  ASSUME NEW in \in Seq(Byte), Len(in) < Word, NEW f, IsDecoding(f, in), NEW i \in 1..(Len(in) + 1),
         \A j \in (i + 1)..(Len(in) + 1) : DecodesFrom(in, f, j),
         NEW places, IsTail(in, places, i)
  PROVE  f[i].ok /\ Reads(f[i].body, in, DataPlaces(in, places))
<1> DEFINE a == After(in, i)
           d == DataOf(in, i)
           rest == places \ {i}
<1>1. Len(in) \in Nat
  BY LenProperties
<1>2. /\ places \subseteq SizeLines(in) /\ i \in SizeLines(in) /\ i \in 1..Len(in)
      /\ SizeLines(in) \subseteq 1..Len(in)
  BY DEF IsTail, SizeLines
<1>3. /\ places = {i} \cup rest /\ rest \subseteq SizeLines(in) /\ i \notin rest
      /\ \A j \in rest : i < j
  <2>1. \A j \in places : i <= j /\ j \in Nat
    BY <1>1, <1>2 DEF IsTail
  <2>2. i \in places /\ i \in Nat
    BY <1>1, <1>2 DEF IsTail
  <2> QED
    BY <1>2, <2>1, <2>2
<1>4. SizeOf(LineAt(in, i)) \in Nat /\ LineEnd(in, i) \in i..Len(in)
  BY <1>2, SizeLineType
<1>5. d = LineEnd(in, i) + 2 /\ a = d + SizeOf(LineAt(in, i)) + 2
  BY DEF After, DataOf
<1> HIDE DEF a, d
<1>6. CASE rest = {}
  <2>1. places = {i}
    BY <1>3, <1>6
  <2>2. SizeOf(LineAt(in, i)) = 0 /\ Max(places) = i
    BY <1>2, <2>1, TailAlone
  <2>3. f[i] = Accepted(<<>>)
    BY <1>2, <2>2, DecodeRound
  <2>4. f[i].ok /\ f[i].body = <<>>
    BY <2>3 DEF Accepted
  <2>5. DataPlaces(in, places) = {}
    BY <2>1, <2>2 DEF DataPlaces
  <2> QED
    BY <2>4, <2>5, ReadsNothing
<1>7. CASE rest # {}
  <2> HIDE DEF rest
  <2>1. IsTail(in, {i} \cup rest, i)
    BY <1>3
  <2>2. SizeOf(LineAt(in, i)) > 0 /\ a \in rest /\ IsTail(in, rest, a)
    BY <1>2, <1>3, <1>7, <2>1, TailStep DEF a
  <2>3. a \in 1..Len(in) /\ a > i /\ a \in (i + 1)..(Len(in) + 1)
    BY <1>1, <1>2, <1>3, <2>2
  <2>4. IsLineEnd(in, a - 2)
    <3>1. a \in SizeLines(in) /\ a # 1
      BY <1>1, <1>2, <1>3, <2>2, <2>3
    <3> QED
      BY <3>1 DEF SizeLines
  <2>5. f[a].ok /\ Reads(f[a].body, in, DataPlaces(in, rest))
    BY <2>2, <2>3 DEF DecodesFrom
  <2>6. f[i] = Accepted(SubSeq(in, d, a - 3) \o f[a].body)
    BY <1>2, <2>2, <2>3, <2>4, <2>5, DecodeRound DEF a, d
  <2>7. f[i].ok /\ f[i].body = SubSeq(in, d, a - 3) \o f[a].body
    <3> DEFINE b == SubSeq(in, d, a - 3) \o f[a].body
    <3>1. f[i] = Accepted(b)
      BY <2>6
    <3> HIDE DEF b
    <3>2. f[i].ok /\ f[i].body = b
      BY <3>1 DEF Accepted
    <3> QED
      BY <3>2 DEF b
  <2>8. f[a].body \in Seq(Byte)
    BY <2>3 DEF IsDecoding, Decoded
  <2>9. /\ d \in Nat \ {0} /\ a - 3 \in Nat /\ d <= (a - 3) + 1 /\ a - 3 <= Len(in)
         /\ d..(a - 3) \subseteq 1..Len(in)
    <3>1. i \in Nat /\ LineEnd(in, i) \in Nat /\ LineEnd(in, i) >= i /\ i >= 1
      BY <1>1, <1>2, <1>4
    <3>2. d \in Nat /\ d >= 1 /\ a - 3 = d + SizeOf(LineAt(in, i)) - 1
      <4>1. d \in Nat /\ d >= 1
        BY <1>5, <3>1
      <4>2. \A x, y \in Nat : (x + y + 2) - 3 = x + y - 1
        OBVIOUS
      <4> QED
        BY <1>4, <1>5, <4>1, <4>2, Zenon
    <3>3. a - 3 \in Nat /\ d <= (a - 3) + 1 /\ a - 3 <= Len(in)
      BY <1>1, <1>4, <2>2, <2>3, <3>2
    <3> QED
      BY <1>1, <3>2, <3>3
  <2>10. DataPlaces(in, rest) \subseteq 1..Len(in)
    BY DEF DataPlaces
  <2>11. ASSUME NEW k \in DataPlaces(in, rest) PROVE a - 3 < k
    <3>1. PICK j \in rest : k \in DataOf(in, j)..(After(in, j) - 3)
      BY DEF DataPlaces
    <3>2. j \in 1..Len(in) /\ a <= j
      BY <1>2, <1>3, <2>2 DEF IsTail
    <3>3. LineEnd(in, j) \in j..Len(in) /\ DataOf(in, j) = LineEnd(in, j) + 2
      BY <3>2, SizeLineType DEF DataOf
    <3>4. k \in 1..Len(in) /\ DataOf(in, j) <= k
      BY <2>10, <3>1
    <3> QED
      BY <1>1, <2>3, <3>2, <3>3, <3>4
  <2>12. Reads(SubSeq(in, d, a - 3) \o f[a].body, in, (d..(a - 3)) \cup DataPlaces(in, rest))
    <3> DEFINE data == DataPlaces(in, rest)
               b == f[a].body
               u == a - 3
    <3>1. /\ data \subseteq 1..Len(in) /\ (\A k \in data : u < k) /\ b \in Seq(Byte)
          /\ Reads(b, in, data) /\ d \in Nat \ {0} /\ u \in Nat /\ d <= u + 1 /\ u <= Len(in)
      BY <2>5, <2>8, <2>9, <2>10, <2>11
    <3> HIDE DEF data, b, u
    <3>2. Reads(SubSeq(in, d, u) \o b, in, (d..u) \cup data)
      BY <3>1, ReadsMore
    <3> QED
      BY <3>2 DEF data, b, u
  <2>13. DataPlaces(in, places) = (d..(a - 3)) \cup DataPlaces(in, rest)
    <3>1. IsFirst(in, i, rest)
      BY <1>2, <1>3, <1>7, <2>9 DEF a, d, IsFirst
    <3>2. DataPlaces(in, {i} \cup rest)
            = (DataOf(in, i)..(After(in, i) - 3)) \cup DataPlaces(in, rest)
      BY <3>1, DataPlacesMore
    <3> QED
      BY <1>3, <3>2, Zenon DEF a, d
  <2> QED
    BY <2>7, <2>12, <2>13
<1> QED
  BY <1>6, <1>7

LEMMA DecodesFromEverywhere ==
  ASSUME NEW in \in Seq(Byte), Len(in) < Word, NEW f, IsDecoding(f, in), NEW i \in 1..(Len(in) + 1)
  PROVE  DecodesFrom(in, f, i)
<1> DEFINE M == Len(in) + 1
           S == {j \in 1..M : ~DecodesFrom(in, f, j)}
<1>1. Len(in) \in Nat
  BY LenProperties
<1> SUFFICES ASSUME S # {} PROVE FALSE
  OBVIOUS
<1>2. S \subseteq 0..M /\ M \in Nat
  BY <1>1
<1>3. Max(S) \in S /\ \A k \in S : k <= Max(S)
  <2> HIDE DEF S, M
  <2> QED
    BY <1>2, MaxProperties
<1> DEFINE m == Max(S)
<1>4. m \in 1..M /\ ~DecodesFrom(in, f, m)
  BY <1>3
<1>5. ASSUME NEW j \in (m + 1)..M PROVE DecodesFrom(in, f, j)
  <2>1. j \in 1..M /\ ~(j <= m)
    <3> HIDE DEF S
    <3> QED
      BY <1>2, <1>4
  <2> QED
    BY <1>3, <2>1
<1> HIDE DEF m, S
<1>6. IsPlace(in, m) /\ f[m].ok => \E places : IsTail(in, places, m)
  BY <1>4, <1>5, AcceptedHasTail
<1>7. \A places : IsTail(in, places, m) =>
        f[m].ok /\ Reads(f[m].body, in, DataPlaces(in, places))
  BY <1>4, <1>5, TailIsDecoded
<1>8. IsPlace(in, m) /\ ~f[m].returned =>
        \E j \in SizeLines(in) : Wraps(DataOf(in, j), SizeOf(LineAt(in, j)))
  BY <1>4, <1>5, NeverHasWrap
<1> QED
  BY <1>4, <1>6, <1>7, <1>8 DEF DecodesFrom

-----------------------------------------------------------------------------
(***************************************************************************)
(* decode_chunked accepts exactly the bodies in chunks, with the data of   *)
(* their chunks, and returns unless a size wraps: for every input, over    *)
(* every alphabet and of any length below Word.                            *)
(***************************************************************************)
LEMMA DecodesInput ==
  ASSUME NEW in \in Seq(Byte), Len(in) < Word
  PROVE  /\ Decode(in).ok <=> Chunkings(in) # {}
         /\ \A places \in Chunkings(in) : Reads(Decode(in).body, in, DataPlaces(in, places))
         /\ ~Decode(in).returned =>
              \E i \in SizeLines(in) : Wraps(DataOf(in, i), SizeOf(LineAt(in, i)))
<1>1. PICK f : IsDecoding(f, in) /\ Decode(in) = f[1]
  BY DecodeDecodes
<1>2. 1 \in 1..(Len(in) + 1) /\ IsPlace(in, 1)
  BY LenProperties DEF IsPlace
<1>3. DecodesFrom(in, f, 1)
  BY <1>1, <1>2, DecodesFromEverywhere
<1>4. \A places : places \in Chunkings(in) <=> IsTail(in, places, 1)
  BY ChunkingIsTail
<1> QED
  BY <1>1, <1>2, <1>3, <1>4, Zenon DEF DecodesFrom

THEOREM DecodesExactlyHolds == InputSpec => []DecodesExactly
<1> DEFINE Bytes == input \in Seq(Byte) /\ Len(input) < Word
<1>1. InputInit => Bytes
  BY DecoderInputsAssumption DEF InputInit
<1>2. Bytes /\ [InputNext]_input => Bytes'
  <2> SUFFICES ASSUME Bytes, [InputNext]_input PROVE Bytes'
    OBVIOUS
  <2>1. CASE InputNext
    <3>1. PICK c \in Alphabet : Extend(c)
      BY <2>1 DEF InputNext
    <3>2. c \in Byte /\ Len(input) \in Nat /\ Word \in Nat
      BY DecoderInputsAssumption, ChunkedAssumption, LenProperties
    <3>3. input' \in Seq(Byte) /\ Len(input') = Len(input) + 1
      BY <3>1, <3>2, AppendProperties DEF Extend
    <3> QED
      BY <3>1, <3>2, <3>3, DecoderInputsAssumption DEF Extend
  <2> QED
    BY <2>1
<1>3. Bytes => DecodesExactly
  BY DecodesInput, Zenon DEF DecodesExactly
<1> QED
  BY <1>1, <1>2, <1>3, PTL DEF InputSpec

-----------------------------------------------------------------------------
(***************************************************************************)
(* Each place of send_req determines what the call holds.                  *)
(***************************************************************************)
LEMMA InitHeld == Init => HeldInv
  BY DEF Init, HeldInv, NothingHeld, PCs

LEMMA StepHeld == HeldInv /\ [Next]_vars => HeldInv'
<1> SUFFICES ASSUME HeldInv, [Next]_vars PROVE HeldInv'
  OBVIOUS
<1> USE DEF HeldInv, NothingHeld, PCs, Fields, Names, Goto, Return, Refuse, Fail
<1>1. CASE SplitUrl
  BY <1>1 DEF SplitUrl
<1>2. CASE PrintLine \/ CopyBody
  BY <1>2 DEF PrintLine, CopyBody
<1>3. CASE Resolve \/ Connect
  BY <1>3 DEF Resolve, Connect
<1>4. CASE \E n \in 1..Limit : Send(n)
  BY <1>4 DEF Send
<1>5. CASE SendFails
  BY <1>5 DEF SendFails
<1>6. CASE Alloc
  BY <1>6 DEF Alloc
<1>7. CASE GrowFails \/ RecvFails
  BY <1>7 DEF GrowFails, RecvFails
<1>8. CASE \E n \in 1..Total(resp) : Recv(n)
  BY <1>8 DEF Recv, outcome
<1>9. CASE EndOfStream
  BY <1>9 DEF EndOfStream
<1>10. CASE FindHead
  BY <1>10 DEF FindHead
<1>11. CASE ReadHead
  BY <1>11 DEF ReadHead
<1>12. CASE ReadChunks
  BY <1>12 DEF ReadChunks
<1>13. CASE ReadLength \/ ReadRest
  BY <1>13 DEF ReadLength, ReadRest
<1>14. CASE Store
  BY <1>14 DEF Store
<1>15. CASE HangUp
  BY <1>15 DEF HangUp, outcome
<1>16. CASE \E n \in 1..Total(resp) : Serve(n)
  BY <1>16 DEF Serve, outcome
<1>17. CASE UNCHANGED vars
  BY <1>17 DEF vars, outcome
<1> QED
  BY <1>1, <1>2, <1>3, <1>4, <1>5, <1>6, <1>7, <1>8, <1>9, <1>10, <1>11, <1>12, <1>13,
     <1>14, <1>15, <1>16, <1>17 DEF Next, Client

(***************************************************************************)
(* Every way out of send_req frees what the call holds.                    *)
(***************************************************************************)
THEOREM NothingHeldHolds == Spec => []NothingHeld
<1>1. HeldInv => NothingHeld
  BY DEF HeldInv
<1> QED
  BY <1>1, InitHeld, StepHeld, PTL DEF Spec

-----------------------------------------------------------------------------
(***************************************************************************)
(* A line is printed only where it fits, a body copied only where it fits, *)
(* and recv is given the room that is left: the buffers keep their bounds. *)
(***************************************************************************)
LEMMA InitBuffer == Init => BufferInv
  BY ClientAssumption DEF Init, BufferInv

LEMMA LineLength ==
  ASSUME NEW r \in Requests, NEW i \in 1..Len(r.lines) PROVE r.lines[i] \in Nat
<1>1. r \in Request
  BY ClientAssumption
<1>2. r.lines \in Seq(Nat \ {0})
  BY <1>1 DEF Request
<1> QED
  BY <1>2

LEMMA BodyLength == ASSUME NEW r \in Requests PROVE r.body \in Nat
  BY ClientAssumption DEF Request

LEMMA StepBuffer == BufferInv /\ [Next]_vars => BufferInv'
<1> SUFFICES ASSUME BufferInv, [Next]_vars PROVE BufferInv'
  OBVIOUS
<1> USE ClientAssumption DEF BufferInv, Goto, Return, Refuse, Fail
<1>1. CASE SplitUrl
  BY <1>1 DEF SplitUrl, request, response
<1>2. CASE PrintLine
  <2>1. req.lines[next] \in Nat
    BY <1>2, LineLength DEF PrintLine
  <2> QED
    BY <1>2, <2>1 DEF PrintLine, response
<1>3. CASE CopyBody
  BY <1>3, BodyLength DEF CopyBody, response
<1>4. CASE Resolve \/ Connect \/ SendFails
  BY <1>4 DEF Resolve, Connect, SendFails, request, response
<1>5. CASE \E n \in 1..Limit : Send(n)
  BY <1>5 DEF Send, response
<1>6. CASE Alloc
  BY <1>6 DEF Alloc, request
<1>7. CASE GrowFails \/ RecvFails \/ EndOfStream
  BY <1>7 DEF GrowFails, RecvFails, EndOfStream, request, response
<1>8. CASE \E n \in 1..Total(resp) : Recv(n)
  <2>1. PICK n \in 1..Total(resp) : Recv(n)
    BY <1>8
  <2>2. Capacity \in Nat
    BY DEF Capacity
  <2> QED
    BY <2>1, <2>2 DEF Recv, request
<1>9. CASE FindHead \/ ReadHead
  BY <1>9 DEF FindHead, ReadHead, request, response
<1>10. CASE ReadChunks \/ ReadLength \/ ReadRest \/ Store
  BY <1>10 DEF ReadChunks, ReadLength, ReadRest, Store, request
<1>11. CASE HangUp
  BY <1>11 DEF HangUp, request
<1>12. CASE \E n \in 1..Total(resp) : Serve(n)
  BY <1>12 DEF Serve, request
<1>13. CASE UNCHANGED vars
  BY <1>13 DEF vars, request, response
<1> QED
  BY <1>1, <1>2, <1>3, <1>4, <1>5, <1>6, <1>7, <1>8, <1>9, <1>10, <1>11, <1>12, <1>13
  DEF Next, Client

-----------------------------------------------------------------------------
(***************************************************************************)
(* The lengths of requests and responses.                                  *)
(***************************************************************************)
LEMMA PrintedStep ==
  ASSUME NEW r \in Requests
  PROVE  /\ Len(r.lines) \in Nat
         /\ PrintedBy(r)[0] = 0
         /\ \A n \in 1..Len(r.lines) : PrintedBy(r)[n] = PrintedBy(r)[n - 1] + r.lines[n]
<1> DEFINE N == Len(r.lines)
           step == [i \in 1..N |-> [t \in Nat |-> t + r.lines[i]]]
           Rec(v) == v = [n \in 0..N |-> IF n = 0 THEN 0 ELSE v[n - 1] + r.lines[n]]
           v == CHOOSE x : Rec(x)
<1>1. r \in Request
  BY ClientAssumption
<1>2. r.lines \in Seq(Nat \ {0})
  BY <1>1 DEF Request
<1>3. N \in Nat /\ \A i \in 1..N : r.lines[i] \in Nat
  BY <1>2, LenProperties, ElementOfSeq
<1>4. PrintedBy(r) = v
  BY DEF PrintedBy
<1> HIDE DEF N
<1>5. step \in [1..N -> [Nat -> Nat]]
  BY <1>3
<1>6. PICK f \in [0..N -> Nat] : Iterates(f, N, 0, step)
  BY <1>3, <1>5, IterationExists
<1>7. Rec(f)
  <2>1. \A k \in 0..N : f[k] = IF k = 0 THEN 0 ELSE f[k - 1] + r.lines[k]
    <3> TAKE k \in 0..N
    <3>1. CASE k = 0
      BY <1>6, <3>1 DEF Iterates
    <3>2. CASE k # 0
      <4>1. k \in 1..N /\ k - 1 \in 0..N
        BY <1>3, <3>2
      <4>2. f[k] = step[k][f[k - 1]]
        BY <1>6, <3>2 DEF Iterates
      <4> QED
        BY <1>6, <3>2, <4>1, <4>2
    <3> QED
      BY <3>1, <3>2
  <2> QED
    BY <2>1
<1>8. Rec(v)
  BY <1>7, Zenon
<1> HIDE DEF v
<1>9. \A n \in 0..N : v[n] = IF n = 0 THEN 0 ELSE v[n - 1] + r.lines[n]
  BY <1>8, Zenon
<1>10. 0 \in 0..N /\ \A n \in 1..N : n \in 0..N /\ n # 0
  BY <1>3
<1>11. v[0] = 0 /\ \A n \in 1..N : v[n] = v[n - 1] + r.lines[n]
  BY <1>9, <1>10, Zenon
<1> QED
  BY <1>3, <1>4, <1>11 DEF N

LEMMA ResponseFacts ==
  ASSUME NEW r \in Responses
  PROVE  /\ r.head \in Nat \ {0} /\ r.valid \in BOOLEAN
         /\ r.framing \in {"chunked", "length", "empty", "bad", "rest"}
         /\ r.chunks \in Seq(Chunk)
         /\ Whole(r) \in Seq(Byte) /\ Payload(r) \in Seq(Byte)
         /\ Len(Whole(r)) \in Nat /\ Len(Payload(r)) \in Nat /\ Total(r) \in Nat
         /\ Total(r) = r.head + Len(Payload(r))
         /\ r.framing # "chunked" => Payload(r) = Whole(r)
         /\ Told(r) = IF r.framing = "empty" THEN <<>> ELSE Whole(r)
<1>1. r \in Response
  BY ClientAssumption
<1>2. /\ r.head \in Nat \ {0} /\ r.valid \in BOOLEAN
      /\ r.framing \in {"chunked", "length", "empty", "bad", "rest"}
      /\ r.chunks \in Seq(Chunk)
  BY <1>1 DEF Response
<1>3. /\ r.chunks \in Seq(Seq(Byte)) /\ Chunks(r.chunks) \in Seq(Seq(Byte))
  BY <1>2, ChunksType
<1>4. Whole(r) \in Seq(Byte)
  <2>1. PICK b : IsFlattening(b, Byte, r.chunks)
    BY <1>3, FlatteningExists
  <2> QED
    BY <1>3, <2>1, FlattenSeqFlattens DEF Whole
<1>5. Encode(r.chunks) \in Seq(Byte)
  <2>1. PICK g : IsFlattening(g, Byte, Chunks(r.chunks))
    BY <1>3, FlatteningExists
  <2> QED
    BY <1>2, <2>1, EncodeLayout
<1>6. Payload(r) \in Seq(Byte) /\ (r.framing # "chunked" => Payload(r) = Whole(r))
  BY <1>4, <1>5 DEF Payload
<1>7. Len(Whole(r)) \in Nat /\ Len(Payload(r)) \in Nat
  BY <1>4, <1>6, LenProperties
<1>8. Total(r) = r.head + Len(Payload(r))
  BY DEF Total
<1>9. Total(r) \in Nat
  BY <1>2, <1>7, <1>8
<1> QED
  BY <1>2, <1>4, <1>6, <1>7, <1>8, <1>9 DEF Told

LEMMA AvailableFacts ==
  ASSUME resp \in Responses, rlen \in resp.head..Total(resp)
  PROVE  /\ Available \in Seq(Byte) /\ Len(Available) = rlen - resp.head
         /\ rlen - resp.head \in 0..Len(Payload(resp))
         /\ rlen = Total(resp) => Available = Payload(resp)
<1>1. /\ resp.head \in Nat \ {0} /\ Payload(resp) \in Seq(Byte) /\ Len(Payload(resp)) \in Nat
      /\ Total(resp) = resp.head + Len(Payload(resp))
  BY ResponseFacts
<1>2. rlen - resp.head \in 0..Len(Payload(resp))
  BY <1>1
<1>3. Available \in Seq(Byte) /\ Len(Available) = rlen - resp.head
  BY <1>1, <1>2, CutText DEF Available
<1>4. ASSUME rlen = Total(resp) PROVE Available = Payload(resp)
  <2>1. rlen - resp.head = Len(Payload(resp))
    BY <1>1, <1>4
  <2> QED
    BY <1>1, <2>1, SubSeqFull DEF Available
<1> QED
  BY <1>2, <1>3, <1>4

LEMMA DecodeAvailable ==
  ASSUME resp \in Responses, rlen \in resp.head..Total(resp), resp.framing = "chunked"
  PROVE  /\ Decoding[resp][rlen - resp.head] \in Decoded
         /\ Decoding[resp][rlen - resp.head].returned
         /\ Decoding[resp][rlen - resp.head].ok =>
              Decoding[resp][rlen - resp.head].body = Whole(resp)
         /\ rlen = Total(resp) => Decoding[resp][rlen - resp.head].ok
<1>1. resp.chunks \in Seq(Chunk)
  BY ResponseFacts
<1>2. Payload(resp) = Encode(resp.chunks)
  BY DEF Payload
<1>3. rlen - resp.head \in 0..Len(Encode(resp.chunks))
  BY <1>2, AvailableFacts
<1>4. rlen = Total(resp) => rlen - resp.head = Len(Encode(resp.chunks))
  <2>1. resp.head \in Nat /\ Len(Payload(resp)) \in Nat /\ Total(resp) = resp.head + Len(Payload(resp))
    BY ResponseFacts
  <2> QED
    BY <1>2, <2>1
<1>5. Decoding[resp][rlen - resp.head] = Decode(SubSeq(Encode(resp.chunks), 1, rlen - resp.head))
  BY <1>2, <1>3 DEF Decoding
<1>6. Len(Encode(resp.chunks)) < Word
  BY ClientAssumption
<1> QED
  BY <1>1, <1>3, <1>4, <1>5, <1>6, DecodeUndoesEncode DEF Whole

-----------------------------------------------------------------------------
(***************************************************************************)
(* What is printed, sent and received by a call, up to its result.         *)
(***************************************************************************)
LEMMA InitClient == Init => ClientInv
<1> SUFFICES ASSUME Init PROVE ClientInv
  OBVIOUS
<1>1. req \in Requests /\ resp \in Responses /\ Len(req.lines) \in Nat
  BY PrintedStep DEF Init
<1>2. resp.head \in Nat \ {0} /\ Total(resp) \in Nat
  BY <1>1, ResponseFacts
<1>3. TypeOK
  <2>1. body \in Seq(Byte)
    BY EmptySeq DEF Init
  <2>2. /\ next \in 1..(Len(req.lines) + 1) /\ off \in 0..Limit /\ sent \in 0..off
        /\ wrote \in 0..Total(resp) /\ rlen \in 0..wrote /\ rcap \in Nat /\ rlen <= rcap
    BY <1>1, <1>2, ClientAssumption DEF Init
  <2>3. /\ pc \in PCs /\ server \in {"open", "closed", "reset"} /\ owned \subseteq Resource
        /\ status \in {"none", "ok", "error", "memory", "url"} /\ fault \in BOOLEAN
    BY DEF Init, PCs
  <2> QED
    BY <1>1, <2>1, <2>2, <2>3 DEF TypeOK
<1>4. BufferInv /\ PrintInv
  BY InitBuffer DEF Init, PrintInv, WholeRequestSent
<1>5. BodyInv
  BY DEF Init, BodyInv, OnlyWholeBodies, CleanExchangeSucceeds
<1> QED
  BY <1>3, <1>4, <1>5 DEF ClientInv

LEMMA StepTypes == ClientInv /\ [Next]_vars => TypeOK'
<1> SUFFICES ASSUME TypeOK, BodyInv, BufferInv', [Next]_vars PROVE TypeOK'
  BY StepBuffer DEF ClientInv
<1>0. /\ Limit \in Nat /\ FirstCap \in Nat \ {0} /\ Len(req.lines) \in Nat
      /\ Total(resp) \in Nat /\ resp.head \in Nat \ {0}
      /\ off' \in 0..Limit /\ sent' \in 0..off'
      /\ rlen' \in Nat /\ rcap' \in Nat /\ rlen' <= rcap'
  BY ClientAssumption, PrintedStep, ResponseFacts DEF TypeOK, BufferInv
<1> USE DEF TypeOK, PCs, Resource, Fields, Names, Goto, Return, Refuse, Fail
<1>1. CASE SplitUrl
  BY <1>0, <1>1 DEF SplitUrl, request, response
<1>2. CASE PrintLine
  <2>1. next \in 1..Len(req.lines)
    BY <1>0, <1>2 DEF PrintLine
  <2> QED
    <3>1. /\ pc' \in PCs /\ owned' \subseteq Resource /\ fault' \in BOOLEAN
          /\ status' \in {"none", "ok", "error", "memory", "url"}
          /\ UNCHANGED <<req, sent, resp, server, wrote, rlen, rcap, body>>
      BY <1>2 DEF PrintLine, response
    <3>2. next' \in 1..(Len(req.lines) + 1)
      <4>1. next' = next \/ next' = next + 1
        BY <1>2 DEF PrintLine
      <4>2. \A k \in Nat : \A n \in 1..k : n \in 1..(k + 1) /\ n + 1 \in 1..(k + 1)
        OBVIOUS
      <4>3. Len(req.lines) \in Nat
        BY <1>0
      <4> QED
        BY <2>1, <4>1, <4>2, <4>3, Zenon
    <3> QED
      BY <1>0, <3>1, <3>2
<1>3. CASE CopyBody
  <2> QED
    <3>1. /\ pc' \in PCs /\ owned' \subseteq Resource /\ fault' \in BOOLEAN
          /\ status' \in {"none", "ok", "error", "memory", "url"}
          /\ UNCHANGED <<req, next, sent, resp, server, wrote, rlen, rcap, body>>
      BY <1>3 DEF CopyBody, response
    <3> QED
      BY <1>0, <3>1
<1>4. CASE Resolve \/ Connect \/ SendFails
  BY <1>0, <1>4 DEF Resolve, Connect, SendFails, request, response
<1>5. CASE \E n \in 1..Limit : Send(n)
  BY <1>0, <1>5 DEF Send, response
<1>6. CASE Alloc
  <2>1. /\ pc' \in PCs /\ owned' \subseteq Resource /\ fault' \in BOOLEAN
        /\ status' \in {"none", "ok", "error", "memory", "url"}
        /\ UNCHANGED <<request, resp, server, wrote, rlen, body>>
    BY <1>6 DEF Alloc
  <2> QED
    BY <1>0, <2>1 DEF request
<1>7. CASE GrowFails \/ RecvFails \/ EndOfStream
  BY <1>0, <1>7 DEF GrowFails, RecvFails, EndOfStream, request, response
<1>8. CASE \E n \in 1..Total(resp) : Recv(n)
  <2>1. PICK n \in 1..Total(resp) : Recv(n)
    BY <1>8
  <2> QED
    BY <1>0, <2>1 DEF Recv, request, outcome
<1>9. CASE FindHead \/ ReadHead
  BY <1>0, <1>9 DEF FindHead, ReadHead, request, response
<1>10. CASE pc = "body" /\ (ReadChunks \/ ReadLength \/ ReadRest)
  <2>1. rlen \in resp.head..Total(resp)
    BY <1>0, <1>10 DEF BodyInv
  <2>2. Available \in Seq(Byte) /\ Len(Available) \in Nat
    BY <2>1, AvailableFacts, LenProperties
  <2>3. CASE ReadChunks
    <3> DEFINE d == Decoding[resp][rlen - resp.head]
    <3>1. d \in Decoded
      BY <1>0, <2>1, <2>3, DecodeAvailable DEF ReadChunks
    <3>2. d.body \in Seq(Byte)
      BY <3>1 DEF Decoded
    <3>3. body' \in Seq(Byte)
      BY <1>0, <2>3, <3>2 DEF ReadChunks
    <3>4. /\ pc' \in PCs /\ owned' \subseteq Resource /\ fault' \in BOOLEAN
          /\ status' \in {"none", "ok", "error", "memory", "url"}
      BY <2>3 DEF ReadChunks
    <3>5. UNCHANGED <<request, resp, server, wrote, rlen, rcap>>
      BY <2>3 DEF ReadChunks
    <3> QED
      BY <1>0, <3>3, <3>4, <3>5 DEF request
  <2>4. CASE ReadLength
    <3> DEFINE want == Len(Told(resp))
    <3>1. want \in Nat
      BY <1>0, ResponseFacts, LenProperties, EmptySeq
    <3>2. want <= Len(Available) => SubSeq(Available, 1, want) \in Seq(Byte)
      BY <2>2, <3>1, CutText
    <3>3. body' \in Seq(Byte)
      <4>1. body' = body \/ (Len(Available) >= want /\ body' = SubSeq(Available, 1, want))
        BY <2>4 DEF ReadLength
      <4> HIDE DEF want
      <4>2. Len(Available) >= want => want <= Len(Available)
        BY <2>2, <3>1
      <4> QED
        BY <1>0, <3>2, <4>1, <4>2, Zenon
    <3>4. /\ pc' \in PCs /\ owned' \subseteq Resource /\ fault' \in BOOLEAN
          /\ status' \in {"none", "ok", "error", "memory", "url"}
      BY <2>4 DEF ReadLength
    <3>5. UNCHANGED <<request, resp, server, wrote, rlen, rcap>>
      BY <2>4 DEF ReadLength
    <3> QED
      BY <1>0, <3>3, <3>4, <3>5 DEF request
  <2>5. CASE ReadRest
    BY <1>0, <2>2, <2>5 DEF ReadRest, request
  <2> QED
    BY <1>10, <2>3, <2>4, <2>5
<1>11. CASE Store
  BY <1>0, <1>11, EmptySeq DEF Store, request
<1>12. CASE HangUp
  BY <1>0, <1>12 DEF HangUp, request, outcome
<1>13. CASE \E n \in 1..Total(resp) : Serve(n)
  BY <1>0, <1>13 DEF Serve, request, outcome
<1>14. CASE UNCHANGED vars
  BY <1>0, <1>14 DEF vars, request, response, outcome
<1> QED
  BY <1>1, <1>2, <1>3, <1>4, <1>5, <1>6, <1>7, <1>8, <1>9, <1>10, <1>11, <1>12, <1>13, <1>14
  DEF Next, Client, ReadChunks, ReadLength, ReadRest

LEMMA StepPrint == ClientInv /\ [Next]_vars => PrintInv'
<1> SUFFICES ASSUME TypeOK, PrintInv, [Next]_vars PROVE PrintInv'
  BY DEF ClientInv
<1>0. /\ off \in Nat /\ sent \in 0..off /\ wrote \in Nat /\ Total(resp) \in Nat
      /\ Len(req.lines) \in Nat /\ PrintedBy(req)[0] = 0
      /\ \A n \in 1..Len(req.lines) : PrintedBy(req)[n] = PrintedBy(req)[n - 1] + req.lines[n]
  <2>1. resp \in Responses /\ off \in Nat /\ sent \in 0..off /\ wrote \in Nat /\ req \in Requests
    BY DEF TypeOK
  <2>2. Total(resp) \in Nat
    BY <2>1, ResponseFacts, Zenon
  <2> QED
    BY <2>1, <2>2, ClientAssumption, PrintedStep
<1> USE DEF PrintInv, WholeRequestSent, Goto, Return, Refuse, Fail
<1>1. CASE SplitUrl
  BY <1>0, <1>1 DEF SplitUrl, request, response
<1>2. CASE PrintLine
  <2>1. next \in 1..Len(req.lines) /\ (next + 1) - 1 = next
    BY <1>0, <1>2 DEF PrintLine, TypeOK
  <2>2. PrintedBy(req)[next] = PrintedBy(req)[next - 1] + req.lines[next]
    BY <1>0, <2>1
  <2>3. CASE req.lines[next] < Limit - off
    <3>1. /\ off' = off + req.lines[next] /\ next' = next + 1 /\ pc' = "print" /\ pc = "print"
          /\ UNCHANGED <<req, sent, wrote>>
      BY <1>2, <2>3 DEF PrintLine, response
    <3>2. off' = PrintedBy(req)[next]
      BY <2>2, <3>1
    <3> QED
      BY <2>1, <3>1, <3>2
  <2>4. CASE ~(req.lines[next] < Limit - off)
    BY <1>2, <2>4 DEF PrintLine, response
  <2> QED
    BY <2>3, <2>4
<1>3. CASE CopyBody
  <2>1. next - 1 = Len(req.lines) /\ pc = "print"
    BY <1>0, <1>3 DEF CopyBody, TypeOK
  <2>2. off = Printed(req)
    BY <2>1 DEF Printed
  <2>3. UNCHANGED <<req, next, sent, wrote>> /\ sent = 0 /\ wrote = 0
    BY <1>3, <2>1 DEF CopyBody, response
  <2>4. (pc' = "resolve" /\ off' = off + req.body) \/ pc' = "returned"
    BY <1>3 DEF CopyBody
  <2>5. UNCHANGED Printed(req)
    BY <2>3 DEF Printed, PrintedBy
  <2> QED
    BY <2>2, <2>3, <2>4, <2>5
<1>4. CASE ~(SplitUrl \/ PrintLine \/ CopyBody)
  <2>1. UNCHANGED <<req, next, off>>
    BY <1>4 DEF Next, Client, vars, request, response, outcome, Resolve, Connect, Send, SendFails, Alloc,
       GrowFails, Recv, EndOfStream, RecvFails, FindHead, ReadHead, ReadChunks, ReadLength,
       ReadRest, Store, HangUp, Serve
  <2>2. UNCHANGED Printed(req)
    BY <2>1 DEF Printed, PrintedBy
  <2> DEFINE Later == {"send", "alloc", "recv", "head", "headers", "body", "store"}
  <2>3. \/ pc' = pc
        \/ pc' \in {"returned", "killed"}
        \/ pc = "resolve" /\ pc' = "connect"
        \/ pc \in {"connect"} \cup Later /\ pc' \in Later
    <3>1. CASE Resolve \/ Connect \/ SendFails \/ (\E n \in 1..Limit : Send(n)) \/ Alloc
      BY <3>1 DEF Resolve, Connect, Send, SendFails, Alloc
    <3>2. CASE GrowFails \/ (\E n \in 1..Total(resp) : Recv(n)) \/ EndOfStream \/ RecvFails
      BY <3>2 DEF GrowFails, Recv, EndOfStream, RecvFails
    <3>3. CASE FindHead \/ ReadHead
      BY <3>3 DEF FindHead, ReadHead
    <3>4. CASE ReadChunks \/ ReadLength \/ ReadRest \/ Store
      BY <3>4 DEF ReadChunks, ReadLength, ReadRest, Store
    <3>5. CASE HangUp \/ (\E n \in 1..Total(resp) : Serve(n)) \/ UNCHANGED vars
      BY <3>5 DEF HangUp, Serve, vars
    <3> QED
      BY <1>4, <3>1, <3>2, <3>3, <3>4, <3>5 DEF Next, Client
  <2>4. /\ pc \in {"url", "print", "resolve", "connect"} => sent' = sent
        /\ sent' = sent \/ (sent' # 0 /\ wrote' = wrote)
        /\ wrote' = wrote \/ sent # 0
    <3>1. CASE \E n \in 1..Limit : Send(n)
      <4>1. PICK n \in 1..Limit : Send(n)
        BY <3>1
      <4> QED
        BY <1>0, <4>1, ClientAssumption DEF Send, response
    <3>2. CASE ~\E n \in 1..Limit : Send(n)
      BY <1>0, <1>4, <3>2 DEF Next, Client, vars, request, response, outcome, Resolve, Connect, SendFails,
         Alloc, GrowFails, Recv, EndOfStream, RecvFails, FindHead, ReadHead, ReadChunks, ReadLength,
         ReadRest, Store, HangUp, Serve
    <3> QED
      BY <3>1, <3>2
  <2> QED
    BY <2>1, <2>2, <2>3, <2>4
<1> QED
  BY <1>1, <1>2, <1>3, <1>4

LEMMA StepBody == ClientInv /\ [Next]_vars => BodyInv'
<1> SUFFICES ASSUME TypeOK, BufferInv, PrintInv, BodyInv, [Next]_vars PROVE BodyInv'
  BY DEF ClientInv
<1>0. /\ FirstCap \in Nat \ {0} /\ resp \in Responses
      /\ Total(resp) \in Nat /\ resp.head \in Nat \ {0} /\ Total(resp) >= resp.head
      /\ wrote \in 0..Total(resp) /\ rlen \in 0..wrote /\ rcap \in Nat
  BY ClientAssumption, ResponseFacts DEF TypeOK
<1> DEFINE Early == {"url", "print", "resolve", "connect", "send", "alloc"}
\* A call that returns before the end of the response, or for a failure.
<1>1. ASSUME UNCHANGED response,
             \/ pc' \in Early
             \/ pc' = "killed"
             \/ pc' = "returned" /\ status' # "ok" /\ (fault' \/ sent = 0)
      PROVE  BodyInv'
  <2>1. sent = 0 => wrote # Total(resp)
    BY <1>0 DEF PrintInv
  <2>2. UNCHANGED <<resp, server, wrote>>
    BY <1>1 DEF response
  <2>3. UNCHANGED <<Total(resp), Told(resp)>>
    BY <2>2 DEF Total, Told, Whole, Payload
  <2>4. OnlyWholeBodies' /\ CleanExchangeSucceeds'
    BY <1>1, <2>1, <2>2, <2>3 DEF OnlyWholeBodies, CleanExchangeSucceeds
  <2> QED
    BY <1>1, <2>4 DEF BodyInv
<1>2. CASE SplitUrl \/ PrintLine \/ CopyBody \/ Resolve \/ Connect
  <2>1. UNCHANGED response /\ (pc \in {"print"} => sent = 0)
    BY <1>2 DEF SplitUrl, PrintLine, CopyBody, Resolve, Connect, PrintInv
  <2>2. \/ pc' \in Early
        \/ pc' = "returned" /\ status' # "ok" /\ (fault' \/ sent = 0)
    BY <1>2, <2>1 DEF SplitUrl, PrintLine, CopyBody, Resolve, Connect, Goto, Return, Refuse, Fail
  <2> QED
    BY <1>1, <2>1, <2>2
<1>3. CASE SendFails \/ (\E n \in 1..Limit : Send(n)) \/ GrowFails \/ RecvFails
  <2>1. UNCHANGED response
    BY <1>3 DEF SendFails, Send, GrowFails, RecvFails
  <2>2. \/ pc' \in Early
        \/ pc' = "killed"
        \/ pc' = "returned" /\ status' # "ok" /\ fault'
    BY <1>3 DEF SendFails, Send, GrowFails, RecvFails, Goto, Return, Fail
  <2> QED
    BY <1>1, <2>1, <2>2
<1>4. CASE Alloc
  <2>1. CASE pc' = "recv" /\ rcap' = FirstCap
    BY <1>0, <2>1 DEF BodyInv, OnlyWholeBodies, CleanExchangeSucceeds
  <2>2. CASE UNCHANGED response /\ pc' = "returned" /\ status' # "ok" /\ fault'
    BY <1>1, <2>2
  <2> QED
    BY <1>4, <2>1, <2>2 DEF Alloc, Fail, Return, response
<1>5. CASE \E n \in 1..Total(resp) : Recv(n)
  <2>1. pc = "recv" /\ pc' = "recv" /\ rcap' = Capacity
    BY <1>5 DEF Recv
  <2>2. Capacity # 0
    BY <1>0, <2>1 DEF Capacity, BodyInv
  <2> QED
    BY <2>1, <2>2 DEF BodyInv, OnlyWholeBodies, CleanExchangeSucceeds
<1>6. CASE EndOfStream
  <2>1. rlen # Capacity
    BY <1>0, <1>6 DEF EndOfStream, Capacity, BodyInv
  <2>2. /\ server = "closed" /\ rlen = wrote /\ pc' = "head"
        /\ UNCHANGED <<server, rlen, wrote>>
    BY <1>6, <2>1 DEF EndOfStream, response
  <2> QED
    BY <2>2 DEF BodyInv, OnlyWholeBodies, CleanExchangeSucceeds
\* Behind the end of the stream nothing is written any more.
<1>7. ASSUME pc \in {"head", "headers", "body", "store"},
             UNCHANGED <<resp, server, wrote, rlen>>
      PROVE  /\ server' = "closed" /\ rlen' = wrote'
             /\ UNCHANGED <<Total(resp), Told(resp)>>
  BY <1>7 DEF BodyInv, Total, Told, Whole, Payload
<1>8. CASE FindHead
  <2>1. UNCHANGED <<resp, server, wrote, rlen>> /\ pc = "head"
    BY <1>8 DEF FindHead, response
  <2>2. CASE rlen < resp.head /\ pc' = "returned" /\ status' = "error"
    <3>1. wrote # Total(resp)
      BY <1>0, <1>7, <2>1, <2>2
    <3> QED
      BY <1>7, <2>1, <2>2, <3>1 DEF BodyInv, OnlyWholeBodies, CleanExchangeSucceeds
  <2>3. CASE rlen >= resp.head /\ pc' = "headers"
    BY <1>7, <2>1, <2>3 DEF BodyInv, OnlyWholeBodies, CleanExchangeSucceeds
  <2>4. CASE pc' = "returned" /\ status' = "memory" /\ fault'
    BY <2>4 DEF BodyInv, OnlyWholeBodies, CleanExchangeSucceeds
  <2> QED
    BY <1>8, <2>2, <2>3, <2>4 DEF FindHead, Refuse, Fail, Return
<1>9. CASE ReadHead
  <2>1. UNCHANGED <<resp, server, wrote, rlen>> /\ pc = "headers"
    BY <1>9 DEF ReadHead, response
  <2>2. CASE ~resp.valid /\ pc' = "returned" /\ status' = "error"
    BY <2>1, <2>2 DEF BodyInv, OnlyWholeBodies, CleanExchangeSucceeds
  <2>3. CASE resp.valid /\ pc' = "body"
    BY <1>7, <2>1, <2>3 DEF BodyInv, OnlyWholeBodies, CleanExchangeSucceeds
  <2>4. CASE pc' = "returned" /\ status' = "memory" /\ fault'
    BY <2>4 DEF BodyInv, OnlyWholeBodies, CleanExchangeSucceeds
  <2> QED
    BY <1>9, <2>2, <2>3, <2>4 DEF ReadHead, Refuse, Fail, Return
\* A body is taken for whole only where it is, and refused only where it is not.
<1>10. ASSUME pc = "body", UNCHANGED <<resp, server, wrote, rlen>>,
              \/ /\ pc' = "store" /\ resp.framing # "bad"
                 /\ resp.framing # "rest" \/ wrote = Total(resp) => body' = Told(resp)
              \/ pc' = "returned" /\ status' = "error" /\ fault'
              \/ pc' = "returned" /\ status' = "error"
                 /\ (resp.framing = "bad" \/ wrote # Total(resp))
       PROVE  BodyInv'
  <2>1. rlen >= resp.head /\ resp.valid
    BY <1>10 DEF BodyInv
  <2> QED
    BY <1>7, <1>10, <2>1 DEF BodyInv, OnlyWholeBodies, CleanExchangeSucceeds
<1>11. pc = "body" => rlen \in resp.head..Total(resp) /\ rlen = wrote
  BY <1>0 DEF BodyInv
<1>12. CASE ReadChunks
  <2>1. pc = "body" /\ resp.framing = "chunked" /\ UNCHANGED <<resp, server, wrote, rlen>>
    BY <1>12 DEF ReadChunks
  <2> DEFINE d == Decoding[resp][rlen - resp.head]
  <2>2. (d.ok => d.body = Told(resp)) /\ (wrote = Total(resp) => d.ok)
    <3>1. Told(resp) = Whole(resp)
      BY <1>0, <2>1, ResponseFacts
    <3> QED
      BY <1>0, <1>11, <2>1, <3>1, DecodeAvailable
  <2>3. \/ ~d.ok /\ pc' = "returned" /\ status' = "error"
        \/ d.ok /\ pc' = "store" /\ body' = d.body
        \/ pc' = "returned" /\ status' = "error" /\ fault'
    BY <1>12 DEF ReadChunks, Refuse, Fail, Return
  <2> HIDE DEF d
  <2> QED
    BY <1>10, <2>1, <2>2, <2>3
<1>13. CASE ReadLength
  <2>1. /\ pc = "body" /\ resp.framing \in {"length", "empty", "bad"}
        /\ UNCHANGED <<resp, server, wrote, rlen>>
    BY <1>13 DEF ReadLength
  <2> DEFINE want == Len(Told(resp))
             all == Len(Whole(resp))
  <2>2. /\ all \in Nat /\ Whole(resp) \in Seq(Byte) /\ Payload(resp) = Whole(resp)
        /\ Told(resp) = IF resp.framing = "empty" THEN <<>> ELSE Whole(resp)
    BY <1>0, <2>1, ResponseFacts
  <2>3. /\ Available \in Seq(Byte) /\ Len(Available) = rlen - resp.head
        /\ rlen - resp.head \in 0..all
    BY <1>0, <1>11, <2>1, <2>2, AvailableFacts
  <2>4. want \in Nat /\ want <= all /\ (wrote = Total(resp) => Len(Available) = all)
    <3>1. wrote = Total(resp) => Len(Available) = all
      BY <1>0, <1>11, <2>1, <2>2, AvailableFacts
    <3>2. Len(<<>>) = 0
      OBVIOUS
    <3> QED
      BY <2>2, <3>1, <3>2
  <2>5. want <= Len(Available) => SubSeq(Available, 1, want) = Told(resp)
    <3>1. CASE resp.framing = "empty"
      <4>1. want = 0 /\ Told(resp) = <<>>
        BY <2>2, <3>1
      <4> QED
        BY <2>3, <4>1
    <3>2. CASE resp.framing # "empty"
      <4> SUFFICES ASSUME want <= Len(Available) PROVE SubSeq(Available, 1, want) = Told(resp)
        OBVIOUS
      <4>1. rlen - resp.head = want /\ Len(Available) = want /\ Told(resp) = Whole(resp)
        BY <1>0, <2>2, <2>3, <3>2
      <4>2. Available = Whole(resp)
        BY <2>2, <4>1, SubSeqFull DEF Available
      <4> QED
        BY <2>2, <4>1, <4>2, SubSeqFull
    <3> QED
      BY <3>1, <3>2
  <2>6. CASE resp.framing = "bad" \/ want > Len(Available)
    <3>1. pc' = "returned" /\ status' = "error"
      BY <1>13, <2>6 DEF ReadLength, Refuse, Return
    <3>2. resp.framing = "bad" \/ wrote # Total(resp)
      BY <2>2, <2>4, <2>6
    <3> QED
      BY <1>10, <2>1, <3>1, <3>2
  <2>7. CASE ~(resp.framing = "bad" \/ want > Len(Available))
    <3>1. pc' = "store" /\ body' = SubSeq(Available, 1, want)
      BY <1>13, <2>7 DEF ReadLength, Goto
    <3>2. want <= Len(Available)
      BY <1>0, <2>2, <2>3, <2>4, <2>7
    <3> QED
      BY <1>10, <2>1, <2>5, <2>7, <3>1, <3>2
  <2> QED
    BY <2>6, <2>7
<1>14. CASE ReadRest
  <2>1. /\ pc = "body" /\ resp.framing = "rest" /\ UNCHANGED <<resp, server, wrote, rlen>>
        /\ pc' = "store" /\ body' = Available
    BY <1>14 DEF ReadRest, Goto
  <2>2. wrote = Total(resp) => Available = Told(resp)
    BY <1>0, <1>11, <2>1, AvailableFacts, ResponseFacts
  <2> QED
    BY <1>10, <2>1, <2>2
<1>15. CASE Store
  <2>1. pc = "store" /\ UNCHANGED <<resp, server, wrote, rlen>>
    BY <1>15 DEF Store
  <2>2. \/ pc' = "returned" /\ status' = "ok" /\ body' = body
        \/ pc' = "returned" /\ status' = "memory" /\ fault'
    BY <1>15 DEF Store, Return, Fail
  <2> QED
    BY <1>7, <2>1, <2>2 DEF BodyInv, OnlyWholeBodies, CleanExchangeSucceeds
<1>16. CASE HangUp
  BY <1>16 DEF HangUp, outcome, BodyInv, OnlyWholeBodies, CleanExchangeSucceeds
<1>17. CASE \E n \in 1..Total(resp) : Serve(n)
  <2>1. /\ server = "open" /\ UNCHANGED <<resp, server, rlen, rcap, body, pc, status, fault>>
    BY <1>17 DEF Serve, outcome
  <2>2. UNCHANGED <<Total(resp), Told(resp)>>
    BY <2>1 DEF Total, Told, Whole, Payload
  <2> QED
    BY <2>1, <2>2 DEF BodyInv, OnlyWholeBodies, CleanExchangeSucceeds
<1>18. CASE UNCHANGED vars
  <2>1. UNCHANGED <<resp, server, wrote, rlen, rcap, body, pc, status, fault>>
    BY <1>18 DEF vars, response, outcome
  <2>2. UNCHANGED <<Total(resp), Told(resp)>>
    BY <2>1 DEF Total, Told, Whole, Payload
  <2> QED
    BY <2>1, <2>2 DEF BodyInv, OnlyWholeBodies, CleanExchangeSucceeds
<1> QED
  BY <1>2, <1>3, <1>4, <1>5, <1>6, <1>8, <1>9, <1>12, <1>13, <1>14, <1>15, <1>16, <1>17, <1>18
  DEF Next, Client

\* ClientInv is an invariant of send_req and of its server.
LEMMA SpecClientInv == Spec => []ClientInv
<1>1. ClientInv /\ [Next]_vars => ClientInv'
  BY StepBuffer, StepTypes, StepPrint, StepBody DEF ClientInv
<1> QED
  BY <1>1, InitClient, PTL DEF Spec

(***************************************************************************)
(* The types of send_req's state, and that it never counts more bytes than *)
(* there are.                                                              *)
(***************************************************************************)
THEOREM ClientTypeCorrect == Spec => []TypeOK
<1>1. ClientInv => TypeOK
  BY DEF ClientInv
<1> QED
  BY <1>1, SpecClientInv, PTL

(***************************************************************************)
(* Nothing is sent of a request that does not fit the buffer, and all of   *)
(* one that does, for any number and length of lines.                      *)
(***************************************************************************)
THEOREM WholeRequestSentHolds == Spec => []WholeRequestSent
<1>1. ClientInv => WholeRequestSent
  BY DEF ClientInv, PrintInv
<1> QED
  BY <1>1, SpecClientInv, PTL

(***************************************************************************)
(* A response that tells its length is taken only with its whole body,     *)
(* for every body, way of cutting it into chunks, and place where the      *)
(* connection broke.                                                       *)
(***************************************************************************)
THEOREM OnlyWholeBodiesHolds == Spec => []OnlyWholeBodies
<1>1. ClientInv => OnlyWholeBodies
  BY DEF ClientInv, BodyInv
<1> QED
  BY <1>1, SpecClientInv, PTL

(***************************************************************************)
(* When nothing fails, send_req returns the whole body, for every response *)
(* and however often the receive buffer had to grow.                       *)
(***************************************************************************)
THEOREM CleanExchangeSucceedsHolds == Spec => []CleanExchangeSucceeds
<1>1. ClientInv => CleanExchangeSucceeds
  BY DEF ClientInv, BodyInv
<1> QED
  BY <1>1, SpecClientInv, PTL
=============================================================================
