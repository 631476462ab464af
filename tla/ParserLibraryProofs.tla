------------------------ MODULE ParserLibraryProofs -------------------------
(***************************************************************************)
(* Proofs about the C library: its types and its blocks for every request  *)
(* that can be built and every text to parse, what serialize_request       *)
(* refuses, for every size of buffer, and that what it prints is parsed    *)
(* as it was.  What recursive definitions compute is proved by induction   *)
(* over sets of numbers.                                                   *)
(***************************************************************************)
EXTENDS ParserLibrary, SequenceTheorems, FiniteSetTheorems, WellFoundedInduction, TLAPS

-----------------------------------------------------------------------------
(***************************************************************************)
(* Induction, as a fact about a set of numbers: what the library states    *)
(* with a predicate as its parameter.                                      *)
(***************************************************************************)
LEMMA Least ==
  ASSUME NEW S, S \subseteq Nat, S # {}
  PROVE  \E m \in S : \A k \in S : m <= k
<1> DEFINE R == {ss \in Nat \X Nat : ss[1] < ss[2]}
<1>1. IsWellFoundedOn(R, Nat)
  BY NatLessThanWellFounded DEF OpToRel
<1> HIDE DEF R
<1>2. PICK m \in S : \A k \in S : ~ (<<k, m>> \in R)
  BY <1>1, WFMin
<1>3. \A k \in S : m <= k
  <2> TAKE k \in S
  <2>1. ~ (k < m)
    BY <1>2 DEF R
  <2> QED
    BY <2>1
<1> QED
  BY <1>3

LEMMA Induction ==
  ASSUME NEW S, 0 \in S, \A n \in Nat : n \in S => n + 1 \in S
  PROVE  \A n \in Nat : n \in S
<1> SUFFICES ASSUME Nat \ S # {} PROVE FALSE
  OBVIOUS
<1>1. PICK m \in Nat \ S : \A k \in Nat \ S : m <= k
  BY Least
<1>2. m # 0 /\ m - 1 \in Nat
  BY <1>1
<1>3. m - 1 \in S
  BY <1>1, <1>2
<1>4. (m - 1) + 1 \in S
  BY <1>2, <1>3
<1> QED
  BY <1>4

\* The same over 0..n.
LEMMA Along ==
  ASSUME NEW n \in Nat, NEW S, 0 \in S, \A k \in 1..n : k - 1 \in S => k \in S
  PROVE  \A k \in 0..n : k \in S
<1> DEFINE E == {k \in Nat : k <= n => k \in S}
<1>1. 0 \in E
  OBVIOUS
<1>2. ASSUME NEW k \in Nat, k \in E PROVE k + 1 \in E
  <2> SUFFICES ASSUME k + 1 <= n PROVE k + 1 \in S
    OBVIOUS
  <2>1. k \in S /\ k + 1 \in 1..n /\ (k + 1) - 1 = k
    BY <1>2
  <2> QED
    BY <2>1
<1>3. \A k \in Nat : k \in E
  <2> HIDE DEF E
  <2> QED
    BY <1>1, <1>2, Induction
<1> QED
  BY <1>3

LEMMA MinProperties ==
  ASSUME NEW S, S \subseteq Nat, S # {}
  PROVE  Min(S) \in S /\ \A k \in S : Min(S) <= k
BY Least DEF Min

-----------------------------------------------------------------------------
(***************************************************************************)
(* A function that is defined by recursion over 0..n, where step[i] makes  *)
(* its value at i of the one before, exists.                               *)
(***************************************************************************)
Iterates(f, n, T, first, step) ==
  /\ f \in [0..n -> T] /\ f[0] = first
  /\ \A i \in 1..n : f[i] = step[i][f[i - 1]]

LEMMA IterationExists ==
  ASSUME NEW n \in Nat, NEW T, NEW first \in T, NEW step \in [1..n -> [T -> T]]
  PROVE  \E f : Iterates(f, n, T, first, step)
<1> DEFINE Upto(f, k) == Iterates(f, k, T, first, step)
           K == {k \in Nat : k <= n => \E f : Upto(f, k)}
<1>1. 0 \in K
  <2>1. Upto([i \in 0..0 |-> first], 0)
    BY DEF Iterates
  <2> HIDE DEF Upto
  <2> QED
    BY <2>1
<1>2. ASSUME NEW k \in Nat, k \in K PROVE k + 1 \in K
  <2> SUFFICES ASSUME k + 1 <= n PROVE \E f : Upto(f, k + 1)
    OBVIOUS
  <2>1. PICK f : Upto(f, k)
    BY <1>2
  <2> DEFINE h == [i \in 0..(k + 1) |-> IF i = k + 1 THEN step[k + 1][f[k]] ELSE f[i]]
  <2>2. f[k] \in T /\ step[k + 1][f[k]] \in T
    BY <2>1 DEF Iterates
  <2>3. h \in [0..(k + 1) -> T] /\ h[0] = first
    BY <2>1, <2>2 DEF Iterates
  <2>4. ASSUME NEW i \in 1..(k + 1) PROVE h[i] = step[i][h[i - 1]]
    <3>1. h[i - 1] = f[i - 1] /\ i - 1 \in 0..k
      OBVIOUS
    <3>2. CASE i = k + 1
      BY <3>1, <3>2
    <3>3. CASE i # k + 1
      <4>1. i \in 1..k /\ h[i] = f[i]
        BY <3>3
      <4> QED
        BY <2>1, <3>1, <4>1 DEF Iterates
    <3> QED
      BY <3>2, <3>3
  <2>5. Upto(h, k + 1)
    BY <2>3, <2>4 DEF Iterates
  <2> QED
    BY <2>5
<1>3. n \in K
  <2> HIDE DEF K
  <2> QED
    BY <1>1, <1>2, Induction
<1>4. PICK f : Upto(f, n)
  BY <1>3
<1> QED
  BY <1>4

-----------------------------------------------------------------------------
(***************************************************************************)
(* FlattenSeq appends its sequences one by one.                            *)
(***************************************************************************)
IsFlattening(f, S, ss) ==
  /\ f \in [0..Len(ss) -> Seq(S)] /\ f[0] = <<>>
  /\ \A i \in 1..Len(ss) : f[i] = f[i - 1] \o ss[i]

LEMMA FlatteningExists ==
  ASSUME NEW S, NEW ss \in Seq(Seq(S)) PROVE \E f : IsFlattening(f, S, ss)
<1> DEFINE step == [i \in 1..Len(ss) |-> [t \in Seq(S) |-> t \o ss[i]]]
<1>1. Len(ss) \in Nat /\ \A i \in 1..Len(ss) : ss[i] \in Seq(S)
  BY LenProperties, ElementOfSeq
<1>2. \A i \in 1..Len(ss), t \in Seq(S) : t \o ss[i] \in Seq(S)
  BY <1>1, ConcatProperties
<1>3. step \in [1..Len(ss) -> [Seq(S) -> Seq(S)]]
  BY <1>2, Zenon
<1>4. \A i \in 1..Len(ss), t \in Seq(S) : step[i][t] = t \o ss[i]
  BY Zenon
<1> HIDE DEF step
<1>5. <<>> \in Seq(S)
  BY EmptySeq
<1>6. PICK f : Iterates(f, Len(ss), Seq(S), <<>>, step)
  BY <1>1, <1>3, <1>5, IterationExists
<1>7. /\ f \in [0..Len(ss) -> Seq(S)] /\ f[0] = <<>>
      /\ \A i \in 1..Len(ss) : f[i] = step[i][f[i - 1]] /\ f[i - 1] \in Seq(S)
  <2> HIDE DEF step
  <2>1. \A i \in 1..Len(ss) : i - 1 \in 0..Len(ss)
    BY <1>1
  <2> QED
    BY <1>6, <2>1, Zenon DEF Iterates
<1>8. \A i \in 1..Len(ss) : f[i] = f[i - 1] \o ss[i]
  BY <1>4, <1>7, Zenon
<1> QED
  BY <1>7, <1>8 DEF IsFlattening

LEMMA FlattenSeqFlattens ==
  ASSUME NEW S, NEW ss \in Seq(Seq(S)), NEW f, IsFlattening(f, S, ss)
  PROVE  FlattenSeq(ss) = f[Len(ss)] /\ FlattenSeq(ss) \in Seq(S)
<1> DEFINE N == Len(ss)
<1>1. N \in Nat /\ \A i \in 1..N : ss[i] \in Seq(S)
  BY LenProperties, ElementOfSeq
<1>2. /\ f \in [0..N -> Seq(S)] /\ f[0] = <<>>
      /\ \A i \in 1..N : f[i] = f[i - 1] \o ss[i]
  BY DEF IsFlattening
<1>3. f[N] \in Seq(S)
  BY <1>1, <1>2
<1>4. CASE N = 0
  <2>1. ss = <<>>
    BY <1>4, EmptySeq
  <2>2. FlattenSeq(ss) = <<>>
    BY <1>4, <2>1 DEF FlattenSeq
  <2> QED
    BY <1>2, <1>3, <1>4, <2>2
<1>5. CASE N # 0
  <2> DEFINE Rec(h) == h = [i \in 1..N |-> IF i = 1 THEN ss[i] ELSE h[i - 1] \o ss[i]]
             h == CHOOSE x : Rec(x)
             h0 == [i \in 1..N |-> f[i]]
  <2>1. FlattenSeq(ss) = h[N]
    BY <1>5 DEF FlattenSeq
  <2>2. \A i \in 1..N : f[i] = IF i = 1 THEN ss[i] ELSE h0[i - 1] \o ss[i]
    <3> TAKE i \in 1..N
    <3>1. CASE i = 1
      <4>0. i - 1 = 0
        BY <3>1
      <4>1. f[i] = f[i - 1] \o ss[i]
        BY <1>2, Zenon
      <4>2. f[0] = <<>> /\ ss[i] \in Seq(S)
        BY <1>1, <1>2, Zenon
      <4>3. f[i] = <<>> \o ss[i]
        BY <4>0, <4>1, <4>2, Zenon
      <4> QED
        BY <3>1, <4>2, <4>3, ConcatEmptySeq, Zenon
    <3>2. CASE i # 1
      <4>1. i - 1 \in 1..N
        BY <1>1, <3>2
      <4>2. h0[i - 1] = f[i - 1]
        BY <4>1
      <4> QED
        BY <1>2, <3>2, <4>2
    <3> QED
      BY <3>1, <3>2
  <2>3. Rec(h0)
    BY <2>2, Zenon
  <2>4. Rec(h)
    BY <2>3, Zenon
  <2>5. \A i \in 1..N : h[i] = IF i = 1 THEN ss[i] ELSE h[i - 1] \o ss[i]
    BY <2>4, Zenon
  <2> HIDE DEF h
  <2> DEFINE E == {k \in Nat : k \in 1..N => h[k] = f[k]}
  <2>6. 0 \in E
    OBVIOUS
  <2>7. ASSUME NEW k \in Nat, k \in E PROVE k + 1 \in E
    <3> SUFFICES ASSUME k + 1 \in 1..N PROVE h[k + 1] = f[k + 1]
      OBVIOUS
    <3>0. (k + 1) - 1 = k
      OBVIOUS
    <3>1. h[k + 1] = IF k + 1 = 1 THEN ss[k + 1] ELSE h[k] \o ss[k + 1]
      BY <2>5, <3>0
    <3>2. f[k + 1] = IF k + 1 = 1 THEN ss[k + 1] ELSE h0[k] \o ss[k + 1]
      BY <2>2, <3>0
    <3>3. CASE k = 0
      <4>1. k + 1 = 1
        BY <3>3
      <4> QED
        BY <3>1, <3>2, <4>1
    <3>4. CASE k # 0
      <4>1. k \in 1..N /\ k + 1 # 1
        BY <1>1, <3>4
      <4>2. h[k] = f[k] /\ h0[k] = f[k]
        BY <2>7, <4>1
      <4> QED
        BY <3>1, <3>2, <4>1, <4>2
    <3> QED
      BY <3>3, <3>4
  <2>8. \A k \in Nat : k \in E
    <3> HIDE DEF E
    <3> QED
      BY <2>6, <2>7, Induction
  <2>9. h[N] = f[N]
    BY <1>1, <1>5, <2>8
  <2> QED
    BY <1>3, <2>1, <2>9
<1> QED
  BY <1>4, <1>5

-----------------------------------------------------------------------------
(***************************************************************************)
(* Places and cuts.                                                        *)
(***************************************************************************)
LEMMA PlaceRange ==
  ASSUME NEW S, NEW s \in Seq(S), NEW w
  PROVE  /\ Place(s, w) \in 0..Len(s)
         /\ Place(s, w) = 0 <=> ~Contains(s, w)
         /\ Contains(s, w) => s[Place(s, w)] = w
<1> DEFINE I == {i \in 1..Len(s) : s[i] = w}
<1>1. Len(s) \in Nat
  BY LenProperties
<1>2. Place(s, w) = IF I # {} THEN Min(I) ELSE 0
  BY DEF Place, SelectInSeq
<1>3. I # {} => Min(I) \in I
  <2>1. I \subseteq Nat
    OBVIOUS
  <2> QED
    BY <2>1, MinProperties
<1>4. I # {} <=> Contains(s, w)
  BY DEF Contains
<1> QED
  BY <1>1, <1>2, <1>3, <1>4

LEMMA OneWord == ASSUME NEW w \in DOMAIN Words PROVE <<w>> \in Text
BY DEF Text

LEMMA OnePiece == ASSUME NEW t \in Text PROVE <<t>> \in Seq(Text) /\ Len(<<t>>) = 1
OBVIOUS

LEMMA WordIsText ==
  ASSUME NEW w, w \in {" ", "?", "=", "&", "/", ":", "n", EOL, NewLine, "GET", "HTTP/1.1", "Content-Length"}
  PROVE  <<w>> \in Text
<1>1. w \in DOMAIN Words
  BY ParserLibraryAssumption
<1> QED
  BY <1>1, OneWord

LEMMA PartIsText ==
  ASSUME NEW s \in Text, NEW m \in Nat, NEW n \in 0..Len(s), m >= 1
  PROVE  SubSeq(s, m, n) \in Text
<1>1. Len(s) \in Nat /\ n \in Int /\ m \in Int
  BY LenProperties DEF Text
<1>2. \A i \in m..n : s[i] \in DOMAIN Words
  BY <1>1, ElementOfSeq DEF Text
<1> QED
  BY <1>1, <1>2, SubSeqProperties DEF Text

LEMMA CutType ==
  ASSUME NEW f \in Text, NEW sep, Contains(f, sep)
  PROVE  Cut(f, sep) \in Text \X Text
<1> DEFINE i == Place(f, sep)
<1>1. Len(f) \in Nat /\ i \in 1..Len(f)
  <2>1. Len(f) \in Nat
    BY LenProperties DEF Text
  <2>2. i \in 0..Len(f) /\ i # 0
    BY PlaceRange DEF Text
  <2> QED
    BY <2>1, <2>2
<1> HIDE DEF i
<1>2. i - 1 \in 0..Len(f) /\ 1 \in Nat /\ i + 1 \in Nat /\ i + 1 >= 1 /\ Len(f) \in 0..Len(f)
  BY <1>1
<1>3. SubSeq(f, 1, i - 1) \in Text
  BY <1>2, PartIsText
<1>4. SubSeq(f, i + 1, Len(f)) \in Text
  BY <1>2, PartIsText
<1> QED
  BY <1>3, <1>4 DEF Cut, i

LEMMA BlankLineRange ==
  ASSUME NEW text \in Text
  PROVE  /\ BlankLine(text) \in Nat
         /\ BlankLine(text) # 0 => BlankLine(text) <= Len(text) - 1
<1> DEFINE n == IF Len(text) = 0 THEN 0 ELSE Len(text) - 1
           pairs == [i \in 1..n |-> <<text[i], text[i + 1]>>]
<1>1. Len(text) \in Nat /\ n \in Nat
  BY LenProperties DEF Text
<1>2. 1..(Len(text) - 1) = 1..n /\ \A i \in 1..n : i \in 1..Len(text) /\ i + 1 \in 1..Len(text)
  BY <1>1
<1>0. n <= Len(text) - 1 \/ n = 0
  BY <1>1
<1> HIDE DEF n
<1>3. \A i \in 1..n : <<text[i], text[i + 1]>> \in (DOMAIN Words) \X (DOMAIN Words)
  <2> TAKE i \in 1..n
  <2>1. i \in 1..Len(text) /\ i + 1 \in 1..Len(text)
    BY <1>2
  <2>2. text \in Seq(DOMAIN Words)
    BY DEF Text
  <2>3. text[i] \in DOMAIN Words /\ text[i + 1] \in DOMAIN Words
    BY <2>1, <2>2, ElementOfSeq, Zenon
  <2> QED
    BY <2>3, Zenon
<1>4. pairs \in Seq((DOMAIN Words) \X (DOMAIN Words)) /\ Len(pairs) = n
  <2>1. pairs \in [1..n -> (DOMAIN Words) \X (DOMAIN Words)]
    BY <1>3
  <2>2. pairs \in Seq((DOMAIN Words) \X (DOMAIN Words))
    BY <1>1, <2>1
  <2>3. DOMAIN pairs = 1..n
    OBVIOUS
  <2> HIDE DEF pairs
  <2>4. DOMAIN pairs = 1..Len(pairs) /\ Len(pairs) \in Nat
    BY <2>2, LenProperties
  <2> QED
    BY <1>1, <2>2, <2>3, <2>4
<1>5. BlankLine(text) = Place(pairs, <<EOL, EOL>>)
  BY <1>2 DEF BlankLine
<1> HIDE DEF pairs
<1>6. BlankLine(text) \in 0..n
  BY <1>4, <1>5, PlaceRange
<1> QED
  BY <1>0, <1>1, <1>6

-----------------------------------------------------------------------------
(***************************************************************************)
(* What the recursive definitions compute.  Fields, ParseHeaders and       *)
(* ParseParams return sequences of what they are to return.                *)
(***************************************************************************)
MoreFields(text, sep, n, before) ==
  IF text[n] = sep THEN before
  ELSE IF n = 1 \/ text[n - 1] = sep THEN Append(before, <<text[n]>>)
  ELSE [before EXCEPT ![Len(before)] = Append(@, text[n])]

IsFields(f, text, sep) ==
  /\ f \in [0..Len(text) -> Seq(Text)] /\ f[0] = <<>>
  /\ \A n \in 1..Len(text) : f[n] = MoreFields(text, sep, n, f[n - 1])

LEMMA FieldsExist ==
  ASSUME NEW text \in Text, NEW sep
  PROVE  \E f : IsFields(f, text, sep) /\ Fields(text, sep) = f[Len(text)]
<1> DEFINE N == Len(text)
           T == Seq(Text)
           More(i, before) == MoreFields(text, sep, i, before)
           step == [i \in 1..N |-> [before \in T |-> More(i, before)]]
           Rec(g) == g = [i \in 0..N |-> IF i = 0 THEN <<>> ELSE More(i, g[i - 1])]
           h == CHOOSE g : Rec(g)
<1>1. N \in Nat
  BY LenProperties DEF Text
<1>2. ASSUME NEW i \in 1..N, NEW before \in T PROVE More(i, before) \in T
  <2>1. text[i] \in DOMAIN Words
    BY ElementOfSeq DEF Text
  <2>2. <<text[i]>> \in Text
    BY <2>1 DEF Text
  <2>3. Append(before, <<text[i]>>) \in T
    BY <2>2
  <2>4. [before EXCEPT ![Len(before)] = Append(@, text[i])] \in T
    <3>1. CASE before = <<>>
      <4>1. [before EXCEPT ![Len(before)] = Append(@, text[i])] = before
        BY <3>1
      <4> QED
        BY <4>1
    <3>2. CASE before # <<>>
      <4>1. Len(before) \in 1..Len(before)
        BY <3>2, EmptySeq
      <4>2. before[Len(before)] \in Seq(DOMAIN Words)
        BY <4>1, ElementOfSeq DEF Text
      <4>3. Append(before[Len(before)], text[i]) \in Text
        BY <4>2, <2>1 DEF Text
      <4>4. [before EXCEPT ![Len(before)] = Append(before[Len(before)], text[i])] \in Seq(Text)
        BY <4>1, <4>3, ExceptSeq
      <4> QED
        BY <4>4
    <3> QED
      BY <3>1, <3>2
  <2> QED
    BY <2>3, <2>4 DEF MoreFields
<1>2a. Fields(text, sep) = h[N]
  BY DEF Fields, MoreFields
<1> HIDE DEF More
<1>3. step \in [1..N -> [T -> T]]
  BY <1>2, Zenon
<1>4. \A i \in 1..N, before \in T : step[i][before] = More(i, before)
  BY Zenon
<1> HIDE DEF step
<1>5. <<>> \in T
  BY EmptySeq
<1> HIDE DEF N, T
<1>6. PICK f : Iterates(f, N, T, <<>>, step)
  BY <1>1, <1>3, <1>5, IterationExists
<1>7. f \in [0..N -> T] /\ f[0] = <<>> /\ \A i \in 1..N : f[i] = step[i][f[i - 1]]
  BY <1>6 DEF Iterates
<1>8. ASSUME NEW i \in 0..N PROVE f[i] = IF i = 0 THEN <<>> ELSE More(i, f[i - 1])
  <2>1. CASE i = 0
    BY <1>7, <2>1
  <2>2. CASE i # 0
    <3>1. i \in 1..N /\ i - 1 \in 0..N
      BY <1>1, <2>2
    <3>2. f[i - 1] \in T /\ f[i] = step[i][f[i - 1]]
      BY <1>7, <3>1
    <3> QED
      BY <1>4, <2>2, <3>1, <3>2
  <2> QED
    BY <2>1, <2>2
<1>9. Rec(f)
  BY <1>7, <1>8
<1>10. Rec(h)
  BY <1>9, Zenon
<1> HIDE DEF h
<1>11. h[0] = <<>> /\ \A i \in 1..N : h[i] = More(i, h[i - 1])
  BY <1>1, <1>10
<1> DEFINE S == {k \in Nat : h[k] \in T}
<1>12. 0 \in S
  BY <1>5, <1>11
<1>13. \A k \in 1..N : k - 1 \in S => k \in S
  BY <1>1, <1>2, <1>11
<1> HIDE DEF S
<1>14. \A k \in 0..N : k \in S
  BY <1>1, <1>12, <1>13, Along
<1>15. h \in [0..N -> T]
  <2>1. \A k \in 0..N : h[k] \in T
    BY <1>14 DEF S
  <2>2. h = [k \in 0..N |-> h[k]]
    BY <1>10
  <2> QED
    BY <2>1, <2>2
<1>16. IsFields(h, text, sep)
  BY <1>11, <1>15 DEF IsFields, N, T, More
<1> QED
  BY <1>2a, <1>16 DEF N

LEMMA FieldsAre ==
  ASSUME NEW text \in Text, NEW sep, NEW f, IsFields(f, text, sep)
  PROVE  Fields(text, sep) = f[Len(text)]
<1> DEFINE N == Len(text)
<1>1. PICK h : IsFields(h, text, sep) /\ Fields(text, sep) = h[N]
  BY FieldsExist
<1>2. N \in Nat
  BY LenProperties DEF Text
<1>3. /\ h[0] = f[0]
      /\ \A n \in 1..N : /\ f[n] = MoreFields(text, sep, n, f[n - 1])
                         /\ h[n] = MoreFields(text, sep, n, h[n - 1])
  BY <1>1 DEF IsFields
<1> HIDE DEF N
<1> DEFINE S == {k \in Nat : h[k] = f[k]}
<1>4. 0 \in S
  BY <1>3
<1>5. \A k \in 1..N : k - 1 \in S => k \in S
  BY <1>2, <1>3
<1> HIDE DEF S
<1>6. \A k \in 0..N : k \in S
  BY <1>2, <1>4, <1>5, Along
<1>7. N \in S
  BY <1>2, <1>6
<1> QED
  BY <1>1, <1>7 DEF S, N

LEMMA FieldsType ==
  ASSUME NEW text \in Text, NEW sep PROVE Fields(text, sep) \in Seq(Text)
<1>1. PICK f : IsFields(f, text, sep) /\ Fields(text, sep) = f[Len(text)]
  BY FieldsExist
<1>2. Len(text) \in Nat
  BY LenProperties DEF Text
<1>3. Len(text) \in 0..Len(text)
  BY <1>2
<1> QED
  BY <1>1, <1>3 DEF IsFields

\* The text whose fields are the lines.
Ended(text) == [i \in 1..Len(text) |-> IF text[i] = NewLine THEN EOL ELSE text[i]]

LEMMA EndedType == ASSUME NEW text \in Text PROVE Ended(text) \in Text /\ Len(Ended(text)) = Len(text)
<1>1. Len(text) \in Nat /\ \A i \in 1..Len(text) : text[i] \in DOMAIN Words
  BY LenProperties, ElementOfSeq DEF Text
<1>2. EOL \in DOMAIN Words
  BY ParserLibraryAssumption
<1> DEFINE n == Len(text)
<1> HIDE DEF n
<1>3. Ended(text) = [i \in 1..n |-> IF text[i] = NewLine THEN EOL ELSE text[i]]
  BY DEF Ended, n
<1>4. \A i \in 1..n : (IF text[i] = NewLine THEN EOL ELSE text[i]) \in DOMAIN Words
  BY <1>1, <1>2 DEF n
<1>5. n \in Nat
  BY <1>1 DEF n
<1> QED
  BY <1>3, <1>4, <1>5 DEF Text, n

LEMMA LinesType == ASSUME NEW text \in Text PROVE Lines(text) \in Seq(Text)
<1>1. Lines(text) = Fields(Ended(text), EOL)
  BY DEF Lines, Ended
<1> QED
  BY <1>1, EndedType, FieldsType

\* What stands behind a place is a text.
LEMMA RestIsText ==
  ASSUME NEW text \in Text, NEW i \in Nat, i >= 1 PROVE SubSeq(text, i, Len(text)) \in Text
<1>1. Len(text) \in Nat
  BY LenProperties DEF Text
<1>2. Len(text) \in 0..Len(text)
  BY <1>1
<1> QED
  BY <1>2, PartIsText

LEMMA RunOnType ==
  ASSUME NEW text \in Text, NEW n \in 1..Len(Lines(text)) PROVE RunOn(text, n) \in Text
<1> DEFINE L == Lines(text)
           starts == [k \in 1..Len(text) |-> Len(Lines(SubSeq(text, 1, k)))]
           nul == Begins(text, n) + Len(L[n])
<1>1. Begins(text, n) \in Nat
  <2>1. Len(text) \in Nat
    BY LenProperties DEF Text
  <2>2. starts \in Seq({starts[k] : k \in 1..Len(text)})
    BY <2>1
  <2> HIDE DEF starts
  <2>3. Place(starts, n) \in 0..Len(starts) /\ Len(starts) \in Nat
    BY <2>2, PlaceRange, LenProperties
  <2> QED
    BY <2>3 DEF Begins, starts
<1>2. Len(L[n]) \in Nat
  <2>1. L \in Seq(Text) /\ n \in 1..Len(L)
    BY LinesType
  <2> HIDE DEF L
  <2>2. L[n] \in Text
    BY <2>1, ElementOfSeq
  <2> QED
    BY <2>2, LenProperties DEF Text
<1>3. nul \in Nat
  BY <1>1, <1>2
<1>4. RunOn(text, n) = (IF text[nul] = EOL THEN <<NewLine>> ELSE <<>>) \o SubSeq(text, nul + 1, Len(text))
  BY DEF RunOn
<1> HIDE DEF nul
<1>5. nul + 1 \in Nat /\ nul + 1 >= 1
  BY <1>3
<1>6. SubSeq(text, nul + 1, Len(text)) \in Text
  BY <1>5, RestIsText
<1>7. <<NewLine>> \in Text /\ <<>> \in Text
  BY WordIsText, EmptySeq DEF Text
<1> DEFINE a == IF text[nul] = EOL THEN <<NewLine>> ELSE <<>>
           z == SubSeq(text, nul + 1, Len(text))
<1>8. a \in Text
  BY <1>7
<1> HIDE DEF a, z
<1>9. a \o z \in Text
  BY <1>6, <1>8 DEF Text, z
<1> QED
  BY <1>4, <1>9 DEF a, z

LEMMA HeaderValueType ==
  ASSUME NEW text \in Text, NEW n \in 1..Len(Lines(text)), Contains(Lines(text)[n], ":")
  PROVE  HeaderValue(text, n) \in Text
<1> DEFINE behind == Cut(Lines(text)[n], ":")[2]
<1>1. behind \in Text
  <2> DEFINE L == Lines(text)
  <2>1. L \in Seq(Text) /\ n \in 1..Len(L) /\ Contains(L[n], ":")
    BY LinesType
  <2>2. behind = Cut(L[n], ":")[2]
    OBVIOUS
  <2> HIDE DEF L, behind
  <2>3. L[n] \in Text
    BY <2>1, ElementOfSeq
  <2> QED
    BY <2>1, <2>2, <2>3, CutType
<1>2. HeaderValue(text, n) = IF behind = <<>> THEN RunOn(text, n) ELSE Behind[behind[1]] \o Tail(behind)
  BY DEF HeaderValue
<1>3. RunOn(text, n) \in Text
  BY RunOnType
<1> HIDE DEF behind
<1>4. ASSUME behind # <<>> PROVE Behind[behind[1]] \o Tail(behind) \in Text
  <2>1. behind[1] \in DOMAIN Words /\ Tail(behind) \in Text
    BY <1>1, <1>4, LenProperties, EmptySeq, HeadTailProperties DEF Text
  <2>2. Behind[behind[1]] \in Text
    BY <2>1, ParserLibraryAssumption
  <2> QED
    BY <2>1, <2>2 DEF Text
<1> QED
  BY <1>2, <1>3, <1>4

\* The header that a line of a text makes.
LineHeader(text, i) == <<Cut(Lines(text)[i], ":")[1], HeaderValue(text, i)>>

IsHeaders(f, text) ==
  /\ f \in [0..Len(Lines(text)) -> Seq(Text \X Text)] /\ f[0] = <<>>
  /\ \A i \in 1..Len(Lines(text)) :
       f[i] = IF Contains(Lines(text)[i], ":") THEN Append(f[i - 1], LineHeader(text, i)) ELSE f[i - 1]

LEMMA HeadersExist ==
  ASSUME NEW text \in Text
  PROVE  \E f : IsHeaders(f, text) /\ ParseHeaders(text) = f[Len(Lines(text))]
<1> DEFINE F == Lines(text)
           N == Len(F)
           T == Seq(Text \X Text)
           More(i, before) ==
             IF Contains(F[i], ":") THEN Append(before, LineHeader(text, i)) ELSE before
           step == [i \in 1..N |-> [before \in T |-> More(i, before)]]
           Rec(g) == g = [i \in 0..N |-> IF i = 0 THEN <<>> ELSE More(i, g[i - 1])]
           h == CHOOSE g : Rec(g)
<1>1. F \in Seq(Text) /\ N \in Nat
  <2>1. F \in Seq(Text)
    BY LinesType
  <2> HIDE DEF F
  <2> QED
    BY <2>1, LenProperties
<1>0. ParseHeaders(text) = h[N]
  BY DEF ParseHeaders, LineHeader
<1>2. ASSUME NEW i \in 1..N, NEW before \in T PROVE More(i, before) \in T
  <2>1. F[i] \in Text
    <3> HIDE DEF F
    <3> QED
      BY <1>1, ElementOfSeq
  <2>2. ASSUME Contains(F[i], ":") PROVE LineHeader(text, i) \in Text \X Text
    <3>1. Cut(F[i], ":")[1] \in Text
      BY <2>1, <2>2, CutType
    <3>2. HeaderValue(text, i) \in Text
      BY <2>2, HeaderValueType
    <3> QED
      BY <3>1, <3>2 DEF LineHeader
  <2> DEFINE c == Contains(F[i], ":")
             x == LineHeader(text, i)
  <2>3. c => x \in Text \X Text
    BY <2>2
  <2> HIDE DEF c, x
  <2>4. c => Append(before, x) \in T
    BY <2>3
  <2> QED
    BY <2>4 DEF c, x
<1> HIDE DEF F
<1> HIDE DEF More
<1>3. step \in [1..N -> [T -> T]]
  BY <1>2, Zenon
<1>4. \A i \in 1..N, before \in T : step[i][before] = More(i, before)
  BY Zenon
<1> HIDE DEF step
<1>5. <<>> \in T
  BY EmptySeq
<1> HIDE DEF N, T
<1>6. PICK f : Iterates(f, N, T, <<>>, step)
  BY <1>1, <1>3, <1>5, IterationExists
<1>7. f \in [0..N -> T] /\ f[0] = <<>> /\ \A i \in 1..N : f[i] = step[i][f[i - 1]]
  BY <1>6 DEF Iterates
<1>8. ASSUME NEW i \in 0..N PROVE f[i] = IF i = 0 THEN <<>> ELSE More(i, f[i - 1])
  <2>1. CASE i = 0
    BY <1>7, <2>1
  <2>2. CASE i # 0
    <3>1. i \in 1..N /\ i - 1 \in 0..N
      BY <1>1, <2>2
    <3>2. f[i - 1] \in T /\ f[i] = step[i][f[i - 1]]
      BY <1>7, <3>1
    <3> QED
      BY <1>4, <2>2, <3>1, <3>2
  <2> QED
    BY <2>1, <2>2
<1>9. Rec(f)
  BY <1>7, <1>8
<1>10. Rec(h)
  BY <1>9, Zenon
<1> HIDE DEF h
<1>11. h[0] = <<>> /\ \A i \in 1..N : h[i] = More(i, h[i - 1])
  BY <1>1, <1>10
<1> DEFINE S == {k \in Nat : h[k] \in T}
<1>12. 0 \in S
  BY <1>5, <1>11
<1>13. \A k \in 1..N : k - 1 \in S => k \in S
  BY <1>1, <1>2, <1>11
<1> HIDE DEF S
<1>14. \A k \in 0..N : k \in S
  BY <1>1, <1>12, <1>13, Along
<1>15. h \in [0..N -> T]
  <2>1. \A k \in 0..N : h[k] \in T
    BY <1>14 DEF S
  <2>2. h = [k \in 0..N |-> h[k]]
    BY <1>10
  <2> QED
    BY <2>1, <2>2
<1>16. IsHeaders(h, text)
  BY <1>11, <1>15 DEF IsHeaders, N, T, More, F
<1> QED
  BY <1>0, <1>16 DEF N, F

LEMMA ParseHeadersType ==
  ASSUME NEW text \in Text PROVE ParseHeaders(text) \in Seq(Text \X Text)
<1> DEFINE n == Len(Lines(text))
<1>1. PICK f : IsHeaders(f, text) /\ ParseHeaders(text) = f[n]
  BY HeadersExist
<1>2. n \in Nat
  BY LinesType, LenProperties
<1>3. f \in [0..n -> Seq(Text \X Text)]
  BY <1>1 DEF IsHeaders
<1> HIDE DEF n
<1> QED
  BY <1>1, <1>2, <1>3

LEMMA ParamFieldsType == ASSUME NEW url \in Text PROVE ParamFields(url) \in Seq(Text)
<1>1. CASE Contains(url, "?")
  <2>1. Cut(url, "?")[2] \in Text
    BY <1>1, CutType
  <2>2. Fields(Cut(url, "?")[2], "&") \in Seq(Text)
    BY <2>1, FieldsType
  <2> QED
    BY <1>1, <2>2 DEF ParamFields
<1>2. CASE ~Contains(url, "?")
  BY <1>2, EmptySeq DEF ParamFields
<1> QED
  BY <1>1, <1>2

LEMMA ParseParamsType ==
  ASSUME NEW url \in Text,
         \A i \in 1..Len(ParamFields(url)) : Contains(ParamFields(url)[i], "=")
  PROVE  ParseParams(url) \in Seq(Text \X Text)
<1> DEFINE F == ParamFields(url)
           n == Len(F)
<1>1. F \in Seq(Text)
  BY ParamFieldsType
<1>2. ParseParams(url) = [i \in 1..n |-> Cut(F[i], "=")] /\ \A i \in 1..n : Contains(F[i], "=")
  BY DEF ParseParams
<1> HIDE DEF F
<1>3. n \in Nat
  BY <1>1, LenProperties
<1>4. ASSUME NEW i \in 1..n PROVE Cut(F[i], "=") \in Text \X Text
  <2>1. F[i] \in Text
    BY <1>1, ElementOfSeq
  <2> QED
    BY <1>2, <2>1, CutType
<1> HIDE DEF n
<1> QED
  BY <1>2, <1>3, <1>4

-----------------------------------------------------------------------------
(***************************************************************************)
(* A parse that breaks loses no block, one that succeeds makes a request.  *)
(***************************************************************************)
FromLine(method, url, version) ==
  [status |-> "ok", lost |-> 0,
   req |-> [Fresh EXCEPT !.method = method, !.url = url, !.version = version]]

ParsedLine(p) ==
  /\ p.lost \in Nat /\ p.status \in {"ok", "error", "broken"}
  /\ p.status = "broken" => p.lost = 0
  /\ p.status = "ok" => \E method, url, version \in Text : p = FromLine(method, url, version)

ParsedText(p) ==
  /\ p.lost \in Nat /\ p.status \in {"ok", "error", "broken"}
  /\ p.status = "broken" => p.lost = 0
  /\ p.status = "ok" => p.lost = 0 /\ p.req \in Request

\* What the rest of the text adds to the line.
Completed(l, headers, body, params) ==
  [l EXCEPT !.req.headers = headers, !.req.body = body, !.req.params = params]

LEMMA NotParsed ==
  ASSUME NEW n \in Nat
  PROVE  ParsedLine(Broken) /\ ParsedLine(Refused(n)) /\ ParsedText(Broken) /\ ParsedText(Refused(n))
<1>1. Broken.status = "broken" /\ Broken.lost = 0
  BY DEF Broken
<1>2. Refused(n).status = "error" /\ Refused(n).lost = n
  BY DEF Refused
<1> QED
  BY <1>1, <1>2 DEF ParsedLine, ParsedText

LEMMA ParseLineType ==
  ASSUME NEW line \in Text PROVE ParsedLine(ParseLine(line))
<1> DEFINE f == Fields(line, " ")
<1>1. f \in Seq(Text)
  BY FieldsType
<1>2. ParseLine(line) =
        IF f = <<>> THEN Broken
        ELSE IF line[1] = " " THEN Refused(1)
        ELSE IF Len(f) < 3 THEN Refused(1 + Len(f))
        ELSE [status |-> "ok", lost |-> 0,
              req |-> [Fresh EXCEPT !.method = f[1], !.url = f[2], !.version = f[3]]]
  BY DEF ParseLine
<1> HIDE DEF f
<1>3. Len(f) \in Nat
  BY <1>1, LenProperties
<1>4. Len(f) >= 3 => f[1] \in Text /\ f[2] \in Text /\ f[3] \in Text
  BY <1>1, <1>3, ElementOfSeq
<1>5. CASE f = <<>>
  BY <1>2, <1>5, NotParsed
<1>6. CASE f # <<>> /\ (line[1] = " " \/ Len(f) < 3)
  <2>1. ParseLine(line) = Refused(1) \/ ParseLine(line) = Refused(1 + Len(f))
    BY <1>2, <1>6, Zenon
  <2>2. 1 \in Nat /\ 1 + Len(f) \in Nat
    BY <1>3
  <2> QED
    BY <2>1, <2>2, NotParsed, Zenon
<1>7. CASE f # <<>> /\ line[1] # " " /\ ~(Len(f) < 3)
  <2> DEFINE p == FromLine(f[1], f[2], f[3])
  <2>1. ParseLine(line) = p
    BY <1>2, <1>7, Zenon DEF FromLine
  <2>2. p.status \in {"ok", "error", "broken"} /\ p.status # "broken" /\ p.lost \in Nat
    BY DEF FromLine
  <2>3. ~(Len(f) < 3)
    BY <1>7, Zenon
  <2>4. Len(f) >= 3
    BY <1>3, <2>3
  <2>5. \E method, url, version \in Text : p = FromLine(method, url, version)
    BY <1>4, <2>4, Zenon
  <2> HIDE DEF p
  <2>6. ParsedLine(p)
    BY <2>2, <2>5, Zenon DEF ParsedLine
  <2> QED
    BY <2>1, <2>6
<1> QED
  BY <1>5, <1>6, <1>7, Zenon

LEMMA MembersSet ==
  ASSUME NEW m, NEW u, NEW v, NEW h, NEW q, NEW b
  PROVE  Completed(FromLine(m, u, v), h, b, q)
         = [status |-> "ok", lost |-> 0,
            req |-> [method |-> m, url |-> u, version |-> v, headers |-> h, params |-> q, body |-> b]]
<1> DEFINE f1 == [method |-> m, url |-> None, version |-> None, headers |-> <<>>, params |-> <<>>, body |-> None]
           f2 == [method |-> m, url |-> u, version |-> None, headers |-> <<>>, params |-> <<>>, body |-> None]
           r0 == [method |-> m, url |-> u, version |-> v, headers |-> <<>>, params |-> <<>>, body |-> None]
           r1 == [method |-> m, url |-> u, version |-> v, headers |-> h, params |-> <<>>, body |-> None]
           r2 == [method |-> m, url |-> u, version |-> v, headers |-> h, params |-> <<>>, body |-> b]
           r3 == [method |-> m, url |-> u, version |-> v, headers |-> h, params |-> q, body |-> b]
           Of(r) == [status |-> "ok", lost |-> 0, req |-> r]
<1>1. [Fresh EXCEPT !.method = m, !.url = u, !.version = v] = r0
  <2>1. [Fresh EXCEPT !.method = m] = f1
    BY DEF Fresh
  <2>2. [f1 EXCEPT !.url = u] = f2
    OBVIOUS
  <2>3. [f2 EXCEPT !.version = v] = r0
    OBVIOUS
  <2> HIDE DEF f1, f2, r0
  <2> QED
    BY <2>1, <2>2, <2>3
<1>2. [r0 EXCEPT !.headers = h] = r1
  OBVIOUS
<1>3. [r1 EXCEPT !.body = b] = r2
  OBVIOUS
<1>4. [r2 EXCEPT !.params = q] = r3
  OBVIOUS
<1> HIDE DEF r0, r1, r2, r3
<1>5. FromLine(m, u, v) = Of(r0)
  BY <1>1 DEF FromLine
<1>6. [Of(r0) EXCEPT !.req.headers = h] = Of(r1)
  BY <1>2
<1>7. [Of(r1) EXCEPT !.req.body = b] = Of(r2)
  BY <1>3
<1>8. [Of(r2) EXCEPT !.req.params = q] = Of(r3)
  BY <1>4
<1> HIDE DEF Of
<1>9. Completed(FromLine(m, u, v), h, b, q) = Of(r3)
  BY <1>5, <1>6, <1>7, <1>8 DEF Completed
<1> QED
  BY <1>9 DEF Of, r3

LEMMA MembersParsed ==
  ASSUME NEW l, ParsedLine(l), l.status = "ok", l.req.method \in Methods,
         NEW h \in Seq(Text \X Text), NEW q \in Seq(Text \X Text), NEW b \in Text
  PROVE  ParsedText(Completed(l, h, b, q))
<1> DEFINE p == Completed(l, h, b, q)
<1>1. PICK m \in Text, u \in Text, v \in Text : l = FromLine(m, u, v)
  BY DEF ParsedLine
<1> DEFINE r == [method |-> m, url |-> u, version |-> v, headers |-> h, params |-> q, body |-> b]
<1>2. p = [status |-> "ok", lost |-> 0, req |-> r]
  BY <1>1, MembersSet
<1>3. m \in Methods
  BY <1>1 DEF Fresh, FromLine
<1>4. r \in Request
  BY <1>3 DEF Request
<1> HIDE DEF p, r
<1>5. p.status = "ok" /\ p.lost = 0 /\ p.req = r
  BY <1>2
<1>6. ParsedText(p)
  BY <1>4, <1>5 DEF ParsedText
<1> QED
  BY <1>6 DEF p

\* The first line of a text, and what it says of it.
FirstLine(text) == IF Place(text, EOL) = 0 THEN text ELSE SubSeq(text, 1, Place(text, EOL) - 1)

LEMMA FirstLineType == ASSUME NEW text \in Text PROVE FirstLine(text) \in Text
<1> DEFINE eol == Place(text, EOL)
<1>1. Len(text) \in Nat /\ eol \in 0..Len(text)
  BY LenProperties, PlaceRange DEF Text
<1>2. FirstLine(text) = IF eol = 0 THEN text ELSE SubSeq(text, 1, eol - 1)
  BY DEF FirstLine
<1> HIDE DEF eol
<1>3. CASE eol # 0
  <2>1. eol - 1 \in 0..Len(text) /\ 1 \in Nat /\ 1 >= 1
    BY <1>1, <1>3
  <2> QED
    BY <1>2, <1>3, <2>1, PartIsText
<1> QED
  BY <1>2, <1>3

LEMMA ParseTextType ==
  ASSUME NEW text \in Text
  PROVE  ParsedText(ParseText(text)) /\ (ParseText(text).lost # 0 => MalformedLine(text))
<1> DEFINE eol == Place(text, EOL)
           line == ParseLine(FirstLine(text))
           rest == SubSeq(text, eol + 1, Len(text))
           blank == BlankLine(rest)
           url == line.req.url
           lines == SubSeq(rest, 1, blank - 1)
           headers == ParseHeaders(lines)
           body == SubSeq(rest, blank + 2, Len(rest))
           params == ParseParams(url)
           beyond == eol = 0 \/ blank = 0 \/ ReadsBeyond(lines)
<1>1. ParseText(text) =
        IF line.status # "ok" THEN line
        ELSE IF beyond THEN Broken
        ELSE IF line.req.method \notin Methods THEN Refused(0)
        ELSE IF \E i \in 1..Len(ParamFields(url)) : ~Contains(ParamFields(url)[i], "=") THEN Broken
        ELSE Completed(line, headers, body, params)
  BY DEF ParseText, Completed, FirstLine
<1>2. Len(text) \in Nat /\ eol \in 0..Len(text)
  BY LenProperties, PlaceRange DEF Text
<1>3. rest \in Text
  <2> HIDE DEF eol
  <2>1. eol + 1 \in Nat /\ eol + 1 >= 1
    BY <1>2
  <2> QED
    BY <2>1, RestIsText
<1>4. ParsedLine(line)
  BY FirstLineType, ParseLineType
<1>5. line.lost # 0 => MalformedLine(text)
  <2> DEFINE l == FirstLine(text)
             f == Fields(l, " ")
  <2>1. line = IF f = <<>> THEN Broken
               ELSE IF l[1] = " " THEN Refused(1)
               ELSE IF Len(f) < 3 THEN Refused(1 + Len(f))
               ELSE FromLine(f[1], f[2], f[3])
    BY DEF ParseLine, FromLine
  <2>2. MalformedLine(text) <=> l = <<>> \/ l[1] = " " \/ Len(f) < 3
    BY DEF MalformedLine, FirstLine
  <2> HIDE DEF l, f, line
  <2>3. Broken.lost = 0 /\ FromLine(f[1], f[2], f[3]).lost = 0
    BY DEF Broken, FromLine
  <2> QED
    BY <2>1, <2>2, <2>3, Zenon
<1> HIDE DEF line
<1>6. line.status = "ok" =>
         \E method, uri, version \in Text : line = FromLine(method, uri, version)
  BY <1>4 DEF ParsedLine
<1>7. ~beyond => headers \in Seq(Text \X Text) /\ body \in Text
  <2> SUFFICES ASSUME blank # 0 PROVE headers \in Seq(Text \X Text) /\ body \in Text
    OBVIOUS
  <2>1. blank \in Nat /\ blank <= Len(rest) - 1
    BY <1>3, BlankLineRange
  <2>2. Len(rest) \in Nat
    <3> HIDE DEF rest
    <3> QED
      BY <1>3, LenProperties DEF Text
  <2> HIDE DEF blank, rest
  <2>3. blank - 1 \in 0..Len(rest) /\ 1 \in Nat /\ 1 >= 1 /\ blank + 2 \in Nat /\ blank + 2 >= 1
        /\ Len(rest) \in 0..Len(rest)
    BY <2>1, <2>2
  <2>4. lines \in Text /\ body \in Text
    BY <1>3, <2>3, PartIsText
  <2> QED
    BY <2>4, ParseHeadersType
<1> HIDE DEF beyond, headers, body
<1>8. line.status = "ok" /\ (\A i \in 1..Len(ParamFields(url)) : Contains(ParamFields(url)[i], "="))
      => params \in Seq(Text \X Text)
  <2> SUFFICES ASSUME line.status = "ok",
                      \A i \in 1..Len(ParamFields(url)) : Contains(ParamFields(url)[i], "=")
               PROVE  params \in Seq(Text \X Text)
    OBVIOUS
  <2>1. url \in Text
    <3>1. PICK method \in Text, uri \in Text, version \in Text : line = FromLine(method, uri, version)
      BY <1>6
    <3>2. url = uri
      BY <3>1 DEF Fresh, FromLine
    <3> QED
      BY <3>2
  <2> QED
    BY <2>1, ParseParamsType
<1> HIDE DEF params
<1>9. ASSUME line.status = "ok", line.req.method \in Methods, headers \in Seq(Text \X Text),
             body \in Text, params \in Seq(Text \X Text)
      PROVE  ParsedText(Completed(line, headers, body, params))
  BY <1>4, <1>9, MembersParsed
<1>10. CASE line.status # "ok"
  <2>1. ParseText(text) = line
    BY <1>1, <1>10, Zenon
  <2>2. ParsedText(line)
    BY <1>4, <1>10 DEF ParsedLine, ParsedText
  <2> QED
    BY <1>5, <2>1, <2>2
<1> DEFINE formed == ~beyond /\ line.req.method \in Methods
                     /\ \A i \in 1..Len(ParamFields(url)) : Contains(ParamFields(url)[i], "=")
<1>11. CASE line.status = "ok" /\ ~formed
  <2>1. ParseText(text) = Broken \/ ParseText(text) = Refused(0)
    BY <1>1, <1>11, Zenon
  <2>2. 0 \in Nat /\ Broken.lost = 0 /\ Refused(0).lost = 0
    BY DEF Broken, Refused
  <2> QED
    BY <2>1, <2>2, NotParsed, Zenon
<1>12. CASE line.status = "ok" /\ formed
  <2> DEFINE c == Completed(line, headers, body, params)
  <2>1. ParseText(text) = c
    BY <1>1, <1>12, Zenon
  <2>2. ParsedText(c)
    BY <1>7, <1>8, <1>9, <1>12, Zenon
  <2>3. c.lost = 0
    <3>1. c.status = "ok"
      BY <1>6, <1>12, MembersSet
    <3> HIDE DEF c
    <3> QED
      BY <2>2, <3>1 DEF ParsedText
  <2> QED
    BY <2>1, <2>2, <2>3, Zenon
<1> QED
  BY <1>10, <1>11, <1>12, Zenon

-----------------------------------------------------------------------------
(***************************************************************************)
(* The strings of a request are counted.                                   *)
(***************************************************************************)
StringMembers == {"method", "url", "version", "body"}

LEMMA StringsFinite ==
  ASSUME NEW r PROVE IsFiniteSet({f \in StringMembers : r[f] # None})
<1> DEFINE T == {f \in StringMembers : r[f] # None}
<1>1. IsFiniteSet(StringMembers)
  <2>1. IsFiniteSet({"method"})
    BY FS_Singleton
  <2>2. IsFiniteSet({"method"} \cup {"url"})
    BY <2>1, FS_AddElement
  <2>3. IsFiniteSet(({"method"} \cup {"url"}) \cup {"version"})
    BY <2>2, FS_AddElement
  <2>4. IsFiniteSet((({"method"} \cup {"url"}) \cup {"version"}) \cup {"body"})
    BY <2>3, FS_AddElement
  <2>5. StringMembers = (({"method"} \cup {"url"}) \cup {"version"}) \cup {"body"}
    BY DEF StringMembers
  <2> QED
    BY <2>4, <2>5
<1>2. T \in SUBSET StringMembers
  OBVIOUS
<1> QED
  BY <1>1, <1>2, FS_Subset

LEMMA StringsCount ==
  ASSUME NEW r
  PROVE  Strings(r) = Cardinality({f \in StringMembers : r[f] # None}) /\ Strings(r) \in Nat
<1>1. Strings(r) = Cardinality({f \in StringMembers : r[f] # None})
  BY DEF Strings, StringMembers
<1>2. Cardinality({f \in StringMembers : r[f] # None}) \in Nat
  BY StringsFinite, FS_CardinalityType
<1> QED
  BY <1>1, <1>2

LEMMA StringsFresh == Strings(Fresh) = 0
<1>1. {f \in StringMembers : Fresh[f] # None} = {}
  BY DEF Fresh, StringMembers
<1> QED
  BY <1>1, FS_EmptySet, StringsCount

LEMMA StringsStored ==
  ASSUME NEW r \in Request, NEW field \in StringMembers, NEW v \in Text
  PROVE  Strings([r EXCEPT ![field] = v]) = IF r[field] = None THEN Strings(r) + 1 ELSE Strings(r)
<1> DEFINE s == [r EXCEPT ![field] = v]
           R == {f \in StringMembers : r[f] # None}
           S == {f \in StringMembers : s[f] # None}
<1>1. StringMembers \subseteq DOMAIN r
  BY DEF Request, StringMembers
<1>2. s[field] = v /\ v # None /\ \A f \in StringMembers \ {field} : s[f] = r[f]
  BY <1>1, ParserLibraryAssumption
<1> HIDE DEF s
<1>3. S = R \cup {field}
  BY <1>2
<1>4. field \in R <=> r[field] # None
  OBVIOUS
<1>5. IsFiniteSet(R)
  BY StringsFinite
<1>6. Strings(r) = Cardinality(R) /\ Strings(s) = Cardinality(S) /\ Strings(r) \in Nat
  BY StringsCount
<1> HIDE DEF R, S
<1>7. Cardinality(S) = IF field \in R THEN Cardinality(R) ELSE Cardinality(R) + 1
  BY <1>3, <1>5, FS_AddElement
<1>8. Strings(s) = IF r[field] = None THEN Strings(r) + 1 ELSE Strings(r)
  BY <1>4, <1>6, <1>7
<1> QED
  BY <1>8 DEF s

LEMMA StringsOfLists ==
  ASSUME NEW r \in Request, NEW field \in {"headers", "params"}, NEW l
  PROVE  Strings([r EXCEPT ![field] = l]) = Strings(r)
<1> DEFINE s == [r EXCEPT ![field] = l]
<1>1. \A f \in StringMembers : f \in DOMAIN r /\ f # field
  BY DEF Request, StringMembers
<1>2. \A f \in StringMembers : s[f] = r[f]
  BY <1>1
<1> HIDE DEF s
<1>3. {f \in StringMembers : s[f] # None} = {f \in StringMembers : r[f] # None}
  BY <1>2
<1>4. Strings(s) = Strings(r)
  BY <1>3, StringsCount
<1> QED
  BY <1>4 DEF s

-----------------------------------------------------------------------------
(***************************************************************************)
(* The blocks that are allocated: those of the request, and those that are *)
(* lost, of which none is ever freed.                                      *)
(***************************************************************************)
LInv == TypeOK /\ Lost \in Nat

LEMMA ListBlocksType ==
  ASSUME NEW S, NEW l \in Seq(S)
  PROVE  ListBlocks(l) \in Nat /\ \A x \in S : ListBlocks(Append(l, x)) = ListBlocks(l) + 3
<1>1. Len(l) \in Nat /\ \A x \in S : Len(Append(l, x)) = Len(l) + 1
  OBVIOUS
<1> QED
  BY <1>1 DEF ListBlocks

LEMMA Counts ==
  ASSUME NEW r \in Request
  PROVE  /\ ListBlocks(r.headers) \in Nat /\ ListBlocks(r.params) \in Nat
         /\ Strings(r) \in Nat /\ Blocks(r) \in Nat
<1>1. r.headers \in Seq(Text \X Text) /\ r.params \in Seq(Text \X Text)
  BY DEF Request
<1>2. ListBlocks(r.headers) \in Nat /\ ListBlocks(r.params) \in Nat
  BY <1>1, ListBlocksType
<1>3. Strings(r) \in Nat
  BY StringsCount
<1> QED
  BY <1>2, <1>3 DEF Blocks

LEMMA FreshRequest == Fresh \in Request /\ Blocks(Fresh) = 1
<1>1. Fresh \in Request
  BY EmptySeq DEF Fresh, Request
<1>2. Len(Fresh.headers) = 0 /\ Len(Fresh.params) = 0
  BY DEF Fresh
<1>3. Blocks(Fresh) = 1
  BY <1>2, StringsFresh DEF Blocks, ListBlocks
<1> QED
  BY <1>1, <1>3

LEMMA RunningRequest ==
  ASSUME LInv, Exists
  PROVE  req \in Request /\ live \in Nat /\ Lost \in Nat /\ Lost = live - Blocks(req) /\ Blocks(req) \in Nat
<1>1. req \in Request /\ live \in Nat /\ Lost \in Nat
  BY DEF LInv, TypeOK, Exists
<1>2. req # None
  BY DEF Exists
<1> QED
  BY <1>1, <1>2, Counts DEF Lost

\* A step after which the request and what is allocated have grown by as much.
LEMMA NoneLost ==
  ASSUME LInv, Exists, req' \in Request, NEW n \in Nat, live' = live + n, Blocks(req') = Blocks(req) + n,
         state' \in {"running", "broken"}
  PROVE  LInv' /\ Lost' = Lost
<1>1. /\ live \in Nat /\ Lost \in Nat /\ Lost = live - Blocks(req) /\ Blocks(req) \in Nat
  BY RunningRequest
<1>2. req' # None
  BY ParserLibraryAssumption
<1>3. Lost' = live' - Blocks(req')
  BY <1>2 DEF Lost
<1>4. live' \in Nat /\ Lost' = Lost
  BY <1>1, <1>3
<1> QED
  BY <1>1, <1>4 DEF LInv, TypeOK

LEMMA StoreInv ==
  ASSUME LInv, Exists, NEW field \in StringMembers, NEW v \in Text,
         field = "method" => v \in Methods, Store(field, v)
  PROVE  LInv' /\ Lost' = Lost
<1>1. req \in Request
  BY RunningRequest
<1>2. req' = [req EXCEPT ![field] = v] /\ live' = (IF req[field] = None THEN live + 1 ELSE live)
      /\ state' = state /\ state = "running"
  BY DEF Store, Exists
<1>3. req' \in Request
  <2>1. CASE field = "method"
    BY <1>1, <1>2, <2>1 DEF Request
  <2>2. CASE field = "url"
    BY <1>1, <1>2, <2>2 DEF Request
  <2>3. CASE field = "version"
    BY <1>1, <1>2, <2>3 DEF Request
  <2>4. CASE field = "body"
    BY <1>1, <1>2, <2>4 DEF Request
  <2> QED
    BY <2>1, <2>2, <2>3, <2>4 DEF StringMembers
<1>4. (req').headers = req.headers /\ (req').params = req.params
  <2>1. field # "headers" /\ field # "params" /\ "headers" \in DOMAIN req /\ "params" \in DOMAIN req
    BY <1>1 DEF StringMembers, Request
  <2> QED
    BY <1>2, <2>1
<1>5. Strings(req') = IF req[field] = None THEN Strings(req) + 1 ELSE Strings(req)
  BY <1>1, <1>2, StringsStored
<1>6. ListBlocks(req.headers) \in Nat /\ ListBlocks(req.params) \in Nat /\ Strings(req) \in Nat
  BY <1>1, Counts
<1> DEFINE n == IF req[field] = None THEN 1 ELSE 0
<1>7. Blocks(req') = Blocks(req) + n
  BY <1>4, <1>5, <1>6 DEF Blocks
<1>8. n \in Nat /\ live' = live + n
  BY <1>2, RunningRequest
<1> HIDE DEF n
<1> QED
  BY <1>2, <1>3, <1>7, <1>8, NoneLost

LEMMA AddInv ==
  ASSUME LInv, NEW field \in {"headers", "params"}, NEW pair \in Text \X Text, Add(field, pair)
  PROVE  LInv' /\ Lost' = Lost
<1>0. Exists
  BY DEF Add
<1>1. req \in Request
  BY <1>0, RunningRequest
<1>2. req' = [req EXCEPT ![field] = Append(req[field], pair)] /\ live' = live + 3
      /\ state' = state /\ state = "running"
  BY DEF Add, Exists
<1> DEFINE h == req.headers
           q == req.params
<1>3. h \in Seq(Text \X Text) /\ q \in Seq(Text \X Text) /\ "headers" \in DOMAIN req /\ "params" \in DOMAIN req
  BY <1>1 DEF Request
<1>4. /\ Append(h, pair) \in Seq(Text \X Text) /\ Append(q, pair) \in Seq(Text \X Text)
      /\ ListBlocks(Append(h, pair)) = ListBlocks(h) + 3 /\ ListBlocks(Append(q, pair)) = ListBlocks(q) + 3
      /\ ListBlocks(h) \in Nat /\ ListBlocks(q) \in Nat
  <2> HIDE DEF h, q
  <2> QED
    BY <1>3, ListBlocksType
<1>5. Strings(req') = Strings(req) /\ Strings(req) \in Nat
  BY <1>1, <1>2, StringsOfLists, StringsCount
<1>6. /\ req' \in Request
      /\ ListBlocks((req').headers) + ListBlocks((req').params) = ListBlocks(h) + ListBlocks(q) + 3
  <2>1. CASE field = "headers"
    <3>1. req' = [req EXCEPT !.headers = Append(h, pair)]
      BY <1>2, <2>1
    <3>2. (req').headers = Append(h, pair) /\ (req').params = q
      BY <1>3, <3>1
    <3>3. req' \in Request
      BY <1>1, <1>4, <3>1 DEF Request
    <3> HIDE DEF h, q
    <3> QED
      BY <1>4, <3>2, <3>3
  <2>2. CASE field = "params"
    <3>1. req' = [req EXCEPT !.params = Append(q, pair)]
      BY <1>2, <2>2
    <3>2. (req').params = Append(q, pair) /\ (req').headers = h
      BY <1>3, <3>1
    <3>3. req' \in Request
      BY <1>1, <1>4, <3>1 DEF Request
    <3> HIDE DEF h, q
    <3> QED
      BY <1>4, <3>2, <3>3
  <2> QED
    BY <2>1, <2>2
<1>7. Blocks(req') = Blocks(req) + 3
  <2>1. ListBlocks((req').headers) \in Nat /\ ListBlocks((req').params) \in Nat
    BY <1>6, Counts
  <2>2. ListBlocks(req.headers) \in Nat /\ ListBlocks(req.params) \in Nat
    BY <1>1, Counts
  <2>3. ListBlocks((req').headers) + ListBlocks((req').params)
          = ListBlocks(req.headers) + ListBlocks(req.params) + 3
    BY <1>6
  <2> QED
    BY <1>5, <2>1, <2>2, <2>3 DEF Blocks
<1>8. 3 \in Nat
  OBVIOUS
<1> QED
  BY <1>0, <1>2, <1>6, <1>7, <1>8, NoneLost

LEMMA FreeInv == ASSUME LInv, FreeRequest PROVE LInv' /\ Lost' = Lost
<1>1. Lost \in Nat /\ Lost = live - Blocks(req) /\ live \in Nat /\ Blocks(req) \in Nat
  BY RunningRequest DEF FreeRequest
<1>2. req' = None /\ state' = state /\ live' = live - Blocks(req)
  BY DEF FreeRequest
<1>3. live' = Lost /\ Lost' = Lost
  BY <1>1, <1>2 DEF Lost
<1> QED
  BY <1>1, <1>2, <1>3 DEF LInv, TypeOK

\* Parsing loses blocks with a malformed line or into a used request.
LEMMA ParseInv ==
  ASSUME LInv, NEW text \in Text, ParseHttpRequest(text)
  PROVE  LInv' /\ (Lost' # Lost => MalformedLine(text) \/ req # Fresh)
<1> DEFINE p == ParseText(text)
<1>1. /\ req \in Request /\ live \in Nat /\ Lost \in Nat /\ Lost = live - Blocks(req)
      /\ Blocks(req) \in Nat /\ Exists
  BY RunningRequest DEF ParseHttpRequest
<1>2. /\ p.lost \in Nat /\ p.status \in {"ok", "error", "broken"}
      /\ p.status = "broken" => p.lost = 0
      /\ p.status = "ok" => p.lost = 0 /\ p.req \in Request
      /\ p.lost # 0 => MalformedLine(text)
  BY ParseTextType DEF ParsedText
<1>3. /\ state' = IF p.status = "broken" THEN "broken" ELSE "running"
      /\ req' = IF p.status = "ok" THEN p.req ELSE req
      /\ live' = IF p.status # "ok" THEN live + p.lost
                 ELSE live + Strings(p.req) + ListBlocks(p.req.headers) + ListBlocks(p.req.params)
  BY DEF ParseHttpRequest
<1> HIDE DEF p
<1>4. req # None
  BY <1>1, ParserLibraryAssumption
<1>5. state' \in {"running", "broken"}
  BY <1>3
<1>6. CASE p.status # "ok"
  <2>1. req' = req /\ live' = live + p.lost /\ live' \in Nat
    BY <1>1, <1>2, <1>3, <1>6
  <2>2. Lost' = live' - Blocks(req)
    BY <1>4, <2>1 DEF Lost
  <2>3. Lost' = Lost + p.lost
    BY <1>1, <1>2, <2>1, <2>2
  <2>4. Lost' \in Nat /\ (Lost' # Lost => p.lost # 0)
    BY <1>1, <1>2, <2>3
  <2> QED
    BY <1>1, <1>2, <1>5, <2>1, <2>4 DEF LInv, TypeOK
<1>7. CASE p.status = "ok"
  <2>1. p.req \in Request /\ req' = p.req
    BY <1>2, <1>3, <1>7
  <2>2. live' = live + Strings(p.req) + ListBlocks(p.req.headers) + ListBlocks(p.req.params)
    BY <1>3, <1>7
  <2>3. /\ ListBlocks(p.req.headers) \in Nat /\ ListBlocks(p.req.params) \in Nat /\ Strings(p.req) \in Nat
        /\ Blocks(p.req) = 1 + Strings(p.req) + ListBlocks(p.req.headers) + ListBlocks(p.req.params)
    BY <2>1, Counts DEF Blocks
  <2>4. live' \in Nat /\ live' = live + (Blocks(p.req) - 1)
    BY <1>1, <2>2, <2>3
  <2>5. req' # None
    BY <2>1, ParserLibraryAssumption
  <2>6. Lost' = live' - Blocks(p.req)
    BY <2>1, <2>5 DEF Lost
  <2>7. Lost' = live - 1
    BY <1>1, <2>3, <2>4, <2>6
  <2>8. Blocks(req) >= 1
    <3>1. ListBlocks(req.headers) \in Nat /\ ListBlocks(req.params) \in Nat /\ Strings(req) \in Nat
      BY <1>1, Counts
    <3> QED
      BY <3>1 DEF Blocks
  <2>9. Lost' \in Nat
    BY <1>1, <2>7, <2>8
  <2>10. req = Fresh => Lost' = Lost
    BY <1>1, <2>7, FreshRequest
  <2> QED
    BY <1>5, <2>1, <2>4, <2>9, <2>10 DEF LInv, TypeOK
<1> QED
  BY <1>6, <1>7

LEMMA LInvInit == Init => LInv
BY DEF Init, LInv, TypeOK, Lost

\* What a step may lose.
Loses == Lost' # Lost => \E t \in RawTexts : ParseHttpRequest(t) /\ (MalformedLine(t) \/ req # Fresh)

LEMMA LInvStep == LInv /\ [Next]_vars => LInv' /\ Loses
<1> SUFFICES ASSUME LInv, [Next]_vars PROVE LInv' /\ Loses
  OBVIOUS
<1>0. LInv' /\ Lost' = Lost => LInv' /\ Loses
  BY DEF Loses
<1>1. CASE InitRequest
  <2>1. req = None /\ state = "running" /\ req' = Fresh /\ live' = live + 1 /\ state' = state
    BY <1>1 DEF InitRequest
  <2>2. Lost = live /\ live \in Nat
    BY <2>1 DEF LInv, TypeOK, Lost
  <2>3. Fresh # None /\ Fresh \in Request
    BY FreshRequest, ParserLibraryAssumption
  <2>4. Lost' = live' - Blocks(Fresh)
    BY <2>1, <2>3 DEF Lost
  <2>5. Lost' = Lost /\ live' \in Nat
    BY <2>1, <2>2, <2>4, FreshRequest
  <2>6. LInv'
    BY <2>1, <2>2, <2>3, <2>5 DEF LInv, TypeOK
  <2> QED
    BY <1>0, <2>5, <2>6
<1>2. CASE FreeRequest
  BY <1>0, <1>2, FreeInv
<1>3. CASE SetHttpVersion
  <2>1. <<"HTTP/1.1">> \in Text
    <3>1. "HTTP/1.1" \in DOMAIN Words
      BY ParserLibraryAssumption
    <3> QED
      BY <3>1 DEF Text
  <2> QED
    BY <1>3, <2>1, StoreInv, <1>0 DEF SetHttpVersion, StringMembers
<1>4. ASSUME NEW m \in SomeMethods, SetMethod(m) PROVE LInv' /\ Loses
  <2>1. m \in Text
    BY ParserLibraryAssumption
  <2> QED
    BY <1>4, <2>1, StoreInv, <1>0 DEF SetMethod, StringMembers
<1>5. ASSUME NEW u \in Urls, SetUrl(u) PROVE LInv' /\ Loses
  <2>1. u \in Text
    BY ParserLibraryAssumption
  <2> QED
    BY <1>5, <2>1, StoreInv, <1>0 DEF SetUrl, StringMembers
<1>6. ASSUME NEW b \in RequestBodies, SetBody(b) PROVE LInv' /\ Loses
  <2>1. b \in Text
    BY ParserLibraryAssumption
  <2> QED
    BY <1>6, <2>1, StoreInv, <1>0 DEF SetBody, StringMembers
<1>7. ASSUME NEW h \in Headers, Add("headers", h) PROVE LInv' /\ Loses
  <2>1. h \in Text \X Text
    BY ParserLibraryAssumption
  <2> QED
    BY <1>7, <2>1, AddInv, <1>0
<1>8. ASSUME NEW q \in Params, Add("params", q) PROVE LInv' /\ Loses
  <2>1. q \in Text \X Text
    BY ParserLibraryAssumption
  <2> QED
    BY <1>8, <2>1, AddInv, <1>0
<1>9. ASSUME NEW t \in RawTexts, ParseHttpRequest(t) PROVE LInv' /\ Loses
  <2>1. t \in Text
    BY ParserLibraryAssumption
  <2> QED
    BY <1>9, <2>1, ParseInv DEF Loses
<1>10. CASE UNCHANGED vars
  <2>1. Lost' = Lost
    BY <1>10 DEF vars, Lost, Blocks, Strings
  <2>2. TypeOK'
    BY <1>10 DEF vars, LInv, TypeOK
  <2> QED
    BY <1>0, <2>1, <2>2 DEF LInv
<1> QED
  BY <1>1, <1>2, <1>3, <1>4, <1>5, <1>6, <1>7, <1>8, <1>9, <1>10 DEF Next

LEMMA LInvAlways == Spec => []LInv
<1>1. LInv /\ [Next]_vars => LInv'
  BY LInvStep
<1> QED
  BY LInvInit, <1>1, PTL DEF Spec

(***************************************************************************)
(* The request is made of texts and its method, if it has one, is one of   *)
(* the valid ones, however it was set or parsed.                           *)
(***************************************************************************)
THEOREM ParserTypeCorrect == Spec => []TypeOK
<1>1. LInv => TypeOK
  BY DEF LInv
<1> QED
  BY LInvAlways, <1>1, PTL

(***************************************************************************)
(* Blocks are lost only by parsing, and only a text with a malformed first *)
(* line or into a used request: every other way out of each function keeps *)
(* or frees what it took, for every number of headers and parameters and   *)
(* every text.                                                             *)
(***************************************************************************)
THEOREM ParserNothingLeaked == Spec => NothingLeaked
<1>1. Init => Lost = 0
  BY DEF Init, Lost
<1>2. LInv /\ [Next]_vars => [Loses]_vars
  BY LInvStep
<1>3. Spec => [][Loses]_vars
  BY <1>2, LInvAlways, PTL DEF Spec
<1>4. [][Loses]_vars <=> [][Lost' # Lost => \E t \in RawTexts :
                                 ParseHttpRequest(t) /\ (MalformedLine(t) \/ req # Fresh)]_vars
  BY PTL DEF Loses
<1> QED
  BY <1>1, <1>3, <1>4, PTL DEF Spec, NothingLeaked

-----------------------------------------------------------------------------
(***************************************************************************)
(* The width of a text is the sum of the widths of its words.              *)
(***************************************************************************)
IsWidths(f, text) ==
  /\ f \in [0..Len(text) -> Nat] /\ f[0] = 0
  /\ \A i \in 1..Len(text) : f[i] = f[i - 1] + Words[text[i]]

LEMMA WidthsExist == ASSUME NEW text \in Text PROVE \E f : IsWidths(f, text)
<1> DEFINE N == Len(text)
           w == [i \in 1..N |-> Words[text[i]]]
           step == [i \in 1..N |-> [t \in Nat |-> t + w[i]]]
<1>1. N \in Nat
  BY LenProperties DEF Text
<1>2. \A i \in 1..N : w[i] \in Nat /\ w[i] = Words[text[i]]
  <2> TAKE i \in 1..N
  <2>1. text[i] \in DOMAIN Words
    BY ElementOfSeq DEF Text
  <2> QED
    BY <2>1, ParserLibraryAssumption
<1> HIDE DEF w, N
<1>3. \A i \in 1..N, t \in Nat : t + w[i] \in Nat
  BY <1>2
<1>4. step \in [1..N -> [Nat -> Nat]]
  BY <1>3, Zenon
<1>5. \A i \in 1..N, t \in Nat : step[i][t] = t + w[i]
  BY Zenon
<1> HIDE DEF step
<1>6. PICK f : Iterates(f, N, Nat, 0, step)
  BY <1>1, <1>4, IterationExists
<1>7. f \in [0..N -> Nat] /\ f[0] = 0 /\ \A i \in 1..N : f[i] = step[i][f[i - 1]]
  BY <1>6 DEF Iterates
<1>8. \A i \in 1..N : f[i] = f[i - 1] + Words[text[i]]
  <2> TAKE i \in 1..N
  <2>1. i - 1 \in 0..N
    BY <1>1
  <2>2. f[i - 1] \in Nat
    BY <1>7, <2>1
  <2>3. f[i] = f[i - 1] + w[i]
    BY <1>5, <1>7, <2>2
  <2> QED
    BY <1>2, <2>3
<1> QED
  BY <1>7, <1>8 DEF IsWidths, N

LEMMA WidthIs ==
  ASSUME NEW text \in Text, NEW f, IsWidths(f, text)
  PROVE  Width(text) = f[Len(text)] /\ Width(text) \in Nat
<1> DEFINE N == Len(text)
           Rec(g) == g = [n \in 0..N |-> IF n = 0 THEN 0 ELSE g[n - 1] + Words[text[n]]]
           h == CHOOSE g : Rec(g)
<1>1. N \in Nat
  BY LenProperties DEF Text
<1>2. f \in [0..N -> Nat] /\ f[0] = 0 /\ \A i \in 1..N : f[i] = f[i - 1] + Words[text[i]]
  BY DEF IsWidths
<1>3. Width(text) = h[N]
  BY DEF Width
<1> HIDE DEF N
<1>4. \A n \in 0..N : f[n] = IF n = 0 THEN 0 ELSE f[n - 1] + Words[text[n]]
  BY <1>1, <1>2
<1>5. Rec(f)
  BY <1>2, <1>4
<1>6. Rec(h)
  BY <1>5, Zenon
<1> HIDE DEF h
<1>7. h[0] = 0 /\ \A n \in 1..N : h[n] = h[n - 1] + Words[text[n]]
  BY <1>1, <1>6
<1> DEFINE S == {k \in Nat : h[k] = f[k]}
<1>8. 0 \in S
  BY <1>2, <1>7
<1>9. \A k \in 1..N : k - 1 \in S => k \in S
  BY <1>1, <1>2, <1>7
<1> HIDE DEF S
<1>10. \A k \in 0..N : k \in S
  BY <1>1, <1>8, <1>9, Along
<1>11. N \in 0..N /\ f[N] \in Nat
  BY <1>1, <1>2
<1>12. N \in S
  BY <1>10, <1>11
<1> QED
  BY <1>3, <1>11, <1>12 DEF S, N

LEMMA TextConcat ==
  ASSUME NEW s \in Text, NEW t \in Text PROVE s \o t \in Text
BY ConcatProperties DEF Text

LEMMA WidthConcat ==
  ASSUME NEW s \in Text, NEW t \in Text PROVE Width(s \o t) = Width(s) + Width(t)
<1> DEFINE M == Len(s)
           N == Len(t)
           c == s \o t
<1>1. /\ M \in Nat /\ N \in Nat /\ c \in Text /\ Len(c) = M + N
      /\ \A i \in 1..(M + N) : c[i] = IF i <= M THEN s[i] ELSE t[i - M]
  BY LenProperties, ConcatProperties DEF Text
<1>2. PICK f : IsWidths(f, s)
  BY WidthsExist
<1>3. PICK g : IsWidths(g, t)
  BY WidthsExist
<1>4. Width(s) = f[M] /\ Width(t) = g[N]
  BY <1>2, <1>3, WidthIs
<1>5. /\ f \in [0..M -> Nat] /\ f[0] = 0 /\ \A i \in 1..M : f[i] = f[i - 1] + Words[s[i]]
      /\ g \in [0..N -> Nat] /\ g[0] = 0 /\ \A i \in 1..N : g[i] = g[i - 1] + Words[t[i]]
  BY <1>2, <1>3 DEF IsWidths
<1> HIDE DEF M, N, c
<1> DEFINE h == [k \in 0..(M + N) |-> IF k <= M THEN f[k] ELSE f[M] + g[k - M]]
<1>6. f[M] \in Nat /\ \A k \in 0..(M + N) : h[k] = IF k <= M THEN f[k] ELSE f[M] + g[k - M]
  BY <1>1, <1>5
<1>7. h \in [0..(M + N) -> Nat] /\ h[0] = 0
  <2>1. ASSUME NEW k \in 0..(M + N) PROVE (IF k <= M THEN f[k] ELSE f[M] + g[k - M]) \in Nat
    <3>1. CASE k <= M
      BY <1>1, <1>5, <3>1
    <3>2. CASE ~(k <= M)
      <4>1. k - M \in 0..N
        BY <1>1, <3>2
      <4> QED
        BY <1>5, <1>6, <3>2, <4>1
    <3> QED
      BY <3>1, <3>2
  <2>2. h[0] = f[0]
    BY <1>1
  <2> QED
    BY <1>5, <2>1, <2>2
<1> HIDE DEF h
<1>8. ASSUME NEW i \in 1..(M + N) PROVE h[i] = h[i - 1] + Words[c[i]]
  <2>0. i \in 0..(M + N) /\ i - 1 \in 0..(M + N) /\ i \in Nat
    BY <1>1
  <2>1. CASE i <= M
    <3>1. i \in 1..M /\ i - 1 <= M
      BY <1>1, <2>0, <2>1
    <3>2. h[i] = f[i] /\ h[i - 1] = f[i - 1] /\ c[i] = s[i]
      BY <1>1, <1>6, <2>0, <2>1, <3>1
    <3> QED
      BY <1>5, <3>1, <3>2
  <2>2. CASE i = M + 1
    <3>1. ~(i <= M) /\ i - 1 <= M /\ i - 1 = M /\ i - M = 1 /\ 1 \in 1..N
      BY <1>1, <2>0, <2>2
    <3>2. h[i] = f[M] + g[1] /\ h[i - 1] = f[M] /\ c[i] = t[1]
      BY <1>1, <1>6, <2>0, <3>1
    <3>3. g[1] = g[0] + Words[t[1]] /\ g[1] \in Nat
      BY <1>5, <3>1
    <3>4. Words[t[1]] \in Nat
      <4>1. t[1] \in DOMAIN Words
        BY <3>1, ElementOfSeq DEF Text, N
      <4> QED
        BY <4>1, ParserLibraryAssumption
    <3>5. g[1] = Words[t[1]]
      BY <1>5, <3>3, <3>4
    <3> QED
      BY <3>2, <3>5
  <2>3. CASE i > M + 1
    <3>1. /\ ~(i <= M) /\ ~(i - 1 <= M) /\ (i - 1) - M = (i - M) - 1
          /\ i - M \in 1..N /\ (i - M) - 1 \in 0..N
      BY <1>1, <2>0, <2>3
    <3> DEFINE j == i - M
    <3>2. h[i] = f[M] + g[j] /\ h[i - 1] = f[M] + g[j - 1] /\ c[i] = t[j]
      BY <1>1, <1>6, <2>0, <3>1
    <3>3. j \in 1..N /\ j - 1 \in 0..N
      BY <3>1
    <3> HIDE DEF j
    <3>4. g[j] = g[j - 1] + Words[t[j]] /\ g[j - 1] \in Nat
      BY <1>5, <3>3
    <3>5. Words[t[j]] \in Nat
      <4>1. t[j] \in DOMAIN Words
        BY <3>3, ElementOfSeq DEF Text, N
      <4> QED
        BY <4>1, ParserLibraryAssumption
    <3>6. f[M] + (g[j - 1] + Words[t[j]]) = (f[M] + g[j - 1]) + Words[t[j]]
      BY <1>6, <3>4, <3>5
    <3> QED
      BY <3>2, <3>4, <3>6
  <2> QED
    BY <1>1, <2>0, <2>1, <2>2, <2>3
<1>9. IsWidths(h, c)
  BY <1>1, <1>7, <1>8 DEF IsWidths
<1>10. Width(c) = h[M + N]
  BY <1>1, <1>9, WidthIs
<1>11. h[M + N] = f[M] + g[N]
  <2>1. M + N \in 0..(M + N) /\ (M + N <= M => N = 0) /\ (M + N) - M = N
    BY <1>1
  <2>2. CASE N = 0
    <3>1. M + N = M /\ M + N <= M
      BY <1>1, <2>2
    <3>2. h[M + N] = f[M] /\ g[N] = 0
      BY <1>5, <1>6, <2>1, <2>2, <3>1
    <3> QED
      BY <1>6, <3>2
  <2>3. CASE N # 0
    BY <1>6, <2>1, <2>3
  <2> QED
    BY <2>2, <2>3
<1> QED
  BY <1>4, <1>10, <1>11 DEF c

LEMMA WidthType == ASSUME NEW text \in Text PROVE Width(text) \in Nat
<1>1. PICK f : IsWidths(f, text)
  BY WidthsExist
<1> QED
  BY <1>1, WidthIs

LEMMA WidthEmpty == <<>> \in Text /\ Width(<<>>) = 0
<1>1. <<>> \in Text /\ Len(<<>>) = 0
  BY EmptySeq DEF Text
<1>2. PICK f : IsWidths(f, <<>>)
  BY <1>1, WidthsExist
<1>3. f[0] = 0 /\ Width(<<>>) = f[Len(<<>>)]
  BY <1>1, <1>2, WidthIs DEF IsWidths
<1> QED
  BY <1>1, <1>3

-----------------------------------------------------------------------------
(***************************************************************************)
(* What is printed: the pieces are texts, and the parts of the buffer that *)
(* they take add up to the width of the whole.                             *)
(***************************************************************************)
Printed == [ok : BOOLEAN, off : Nat, text : Text]

PrintPiece(p, before) ==
  IF before.ok /\ HasRoom(Width(p), before.off)
  THEN [ok |-> TRUE, off |-> before.off + Width(p), text |-> before.text \o p]
  ELSE [before EXCEPT !.ok = FALSE]

LEMMA PrintType ==
  ASSUME NEW p \in Text, NEW before \in Printed
  PROVE  /\ PrintPiece(p, before) \in Printed
         /\ PrintPiece(p, before).ok <=> (before.ok /\ Width(p) < MaxBuffer - before.off)
         /\ PrintPiece(p, before).ok => PrintPiece(p, before).off = before.off + Width(p)
<1>1. Width(p) \in Nat
  BY WidthType
<1>2. before.ok \in BOOLEAN /\ before.off \in Nat /\ before.text \in Text
  BY DEF Printed
<1> DEFINE full == [before EXCEPT !.ok = FALSE]
           more == [ok |-> TRUE, off |-> before.off + Width(p), text |-> before.text \o p]
<1>3. full \in Printed /\ full.ok = FALSE
  BY DEF Printed
<1>4. more \in Printed /\ more.ok = TRUE /\ more.off = before.off + Width(p)
  <2>1. before.text \o p \in Text
    BY <1>2, TextConcat
  <2>2. before.off + Width(p) \in Nat
    BY <1>1, <1>2
  <2> QED
    BY <2>1, <2>2 DEF Printed
<1> HIDE DEF full, more
<1>5. CASE before.ok /\ HasRoom(Width(p), before.off)
  <2>1. PrintPiece(p, before) = more
    BY <1>5 DEF PrintPiece, more
  <2>2. before.ok /\ Width(p) < MaxBuffer - before.off
    BY <1>5 DEF HasRoom
  <2> QED
    BY <1>4, <2>1, <2>2
<1>6. CASE ~(before.ok /\ HasRoom(Width(p), before.off))
  <2>1. PrintPiece(p, before) = full
    BY <1>6, Zenon DEF PrintPiece, full
  <2>2. ~(before.ok /\ Width(p) < MaxBuffer - before.off)
    BY <1>6 DEF HasRoom
  <2> QED
    BY <1>3, <2>1, <2>2
<1> QED
  BY <1>5, <1>6

LEMMA PrintedPieces ==
  ASSUME NEW r, Pieces(r) \in Seq(Text)
  PROVE  \E f : /\ f \in [0..Len(Pieces(r)) -> Printed]
                /\ f[0] = [ok |-> TRUE, off |-> 0, text |-> <<>>]
                /\ \A i \in 1..Len(Pieces(r)) : f[i] = PrintPiece(Pieces(r)[i], f[i - 1])
                /\ Serialize(r) = f[Len(Pieces(r))]
<1> DEFINE P == Pieces(r)
           N == Len(P)
           first == [ok |-> TRUE, off |-> 0, text |-> <<>>]
           step == [i \in 1..N |-> [before \in Printed |-> PrintPiece(P[i], before)]]
           Rec(g) == g = [n \in 0..N |-> IF n = 0 THEN first ELSE PrintPiece(P[n], g[n - 1])]
           h == CHOOSE g : Rec(g)
<1>0. Serialize(r) = h[N]
  BY DEF Serialize, PrintPiece
<1> HIDE DEF P
<1>1. N \in Nat
  BY LenProperties DEF P
<1> HIDE DEF N
<1>2. ASSUME NEW i \in 1..N, NEW before \in Printed PROVE PrintPiece(P[i], before) \in Printed
  <2>1. P[i] \in Text
    BY ElementOfSeq DEF P, N
  <2> QED
    BY <2>1, PrintType
<1>3. step \in [1..N -> [Printed -> Printed]]
  BY <1>2, Zenon
<1>4. \A i \in 1..N, before \in Printed : step[i][before] = PrintPiece(P[i], before)
  BY Zenon
<1> HIDE DEF step
<1>5. first \in Printed
  BY WidthEmpty DEF Printed
<1> HIDE DEF first
<1>6. PICK f : Iterates(f, N, Printed, first, step)
  BY <1>1, <1>3, <1>5, IterationExists
<1>7. f \in [0..N -> Printed] /\ f[0] = first /\ \A i \in 1..N : f[i] = step[i][f[i - 1]]
  BY <1>6 DEF Iterates
<1>8. ASSUME NEW i \in 1..N PROVE f[i] = PrintPiece(P[i], f[i - 1])
  <2>1. i - 1 \in 0..N
    BY <1>1
  <2>2. f[i - 1] \in Printed
    BY <1>7, <2>1
  <2> QED
    BY <1>4, <1>7, <2>2
<1>9. \A n \in 0..N : f[n] = IF n = 0 THEN first ELSE PrintPiece(P[n], f[n - 1])
  BY <1>1, <1>7, <1>8
<1>10. Rec(f)
  BY <1>7, <1>9
<1>11. Rec(h)
  BY <1>10, Zenon
<1> HIDE DEF h
<1>12. h[0] = first /\ \A n \in 1..N : h[n] = PrintPiece(P[n], h[n - 1])
  BY <1>1, <1>11
<1> DEFINE S == {k \in Nat : h[k] = f[k]}
<1>13. 0 \in S
  BY <1>7, <1>12
<1>14. \A k \in 1..N : k - 1 \in S => k \in S
  BY <1>1, <1>8, <1>12
<1> HIDE DEF S
<1>15. \A k \in 0..N : k \in S
  BY <1>1, <1>13, <1>14, Along
<1>16. N \in S
  BY <1>1, <1>15
<1>17. Serialize(r) = f[N]
  BY <1>0, <1>16 DEF S
<1> QED
  BY <1>7, <1>8, <1>17 DEF N, P, first

LEMMA RefusesTooLong ==
  ASSUME NEW r, Pieces(r) \in Seq(Text), Len(Pieces(r)) # 0
  PROVE  Serialize(r).ok <=> Width(FlattenSeq(Pieces(r))) < MaxBuffer
<1> DEFINE P == Pieces(r)
           N == Len(P)
<1>1. N \in Nat \ {0}
  BY LenProperties
<1>2. PICK f : /\ f \in [0..N -> Printed]
               /\ f[0] = [ok |-> TRUE, off |-> 0, text |-> <<>>]
               /\ \A i \in 1..N : f[i] = PrintPiece(P[i], f[i - 1])
               /\ Serialize(r) = f[N]
  BY PrintedPieces
<1>3. PICK g : IsFlattening(g, DOMAIN Words, P)
  BY FlatteningExists DEF Text
<1>4. FlattenSeq(P) = g[N]
  BY <1>3, FlattenSeqFlattens DEF Text
<1>5. g \in [0..N -> Text] /\ g[0] = <<>> /\ \A i \in 1..N : g[i] = g[i - 1] \o P[i]
  BY <1>3 DEF IsFlattening, Text
<1>6. \A i \in 1..N : P[i] \in Text
  BY ElementOfSeq
<1> HIDE DEF P, N
<1> DEFINE w == [k \in 0..N |-> Width(g[k])]
<1>7. \A k \in 0..N : w[k] = Width(g[k])
  OBVIOUS
<1> HIDE DEF w
<1>8. \A k \in 0..N : w[k] \in Nat
  BY <1>5, <1>7, WidthType
<1>9. w[0] = 0
  <2>1. 0 \in 0..N
    BY <1>1
  <2> QED
    BY <1>5, <1>7, <2>1, WidthEmpty
<1>10. \A i \in 1..N : w[i] = w[i - 1] + Width(P[i])
  <2> TAKE i \in 1..N
  <2>1. i \in 0..N /\ i - 1 \in 0..N
    BY <1>1
  <2>2. g[i - 1] \in Text /\ g[i] = g[i - 1] \o P[i] /\ P[i] \in Text
    BY <1>5, <1>6, <2>1
  <2>3. Width(g[i]) = Width(g[i - 1]) + Width(P[i])
    BY <2>2, WidthConcat
  <2> QED
    BY <1>7, <2>1, <2>3
<1> DEFINE Sound(k) == /\ f[k].ok => f[k].off = w[k]
                       /\ f[k].ok <=> (k = 0 \/ w[k] < MaxBuffer)
           S == {k \in 0..N : Sound(k)}
<1>11. 0 \in S
  BY <1>1, <1>2, <1>9
<1>12. ASSUME NEW k \in 1..N, k - 1 \in S PROVE k \in S
  <2>1. k \in 0..N /\ k - 1 \in 0..N /\ k # 0
    BY <1>1
  <2>2. f[k - 1] \in Printed /\ P[k] \in Text /\ f[k] = PrintPiece(P[k], f[k - 1])
    BY <1>2, <1>6, <2>1
  <2> DEFINE before == f[k - 1]
             v == Width(P[k])
  <2>3. /\ f[k].ok <=> (before.ok /\ v < MaxBuffer - before.off)
        /\ f[k].ok => f[k].off = before.off + v
    BY <2>2, PrintType
  <2>4. before.off \in Nat /\ v \in Nat
    BY <2>2, WidthType DEF Printed
  <2>5. w[k] = w[k - 1] + v /\ w[k - 1] \in Nat
    BY <1>8, <1>10, <2>1
  <2>6. MaxBuffer \in Nat
    BY ParserLibraryAssumption
  <2>7. Sound(k - 1)
    BY <1>12
  <2> HIDE DEF v
  <2>8. CASE before.ok
    <3>1. before.off = w[k - 1]
      BY <2>7, <2>8
    <3>2. f[k].ok <=> v < MaxBuffer - w[k - 1]
      BY <2>3, <2>8, <3>1
    <3>3. v < MaxBuffer - w[k - 1] <=> w[k] < MaxBuffer
      BY <2>4, <2>5, <2>6
    <3>4. Sound(k)
      BY <2>1, <2>3, <2>5, <3>1, <3>2, <3>3
    <3> QED
      BY <2>1, <3>4
  <2>9. CASE ~before.ok
    <3>1. ~f[k].ok
      BY <2>3, <2>9
    <3>2. ~(w[k - 1] < MaxBuffer)
      BY <2>7, <2>9
    <3>3. ~(w[k] < MaxBuffer)
      BY <2>4, <2>5, <2>6, <3>2
    <3>4. Sound(k)
      BY <2>1, <3>1, <3>3
    <3> QED
      BY <2>1, <3>4
  <2> QED
    BY <2>8, <2>9
<1> HIDE DEF S
<1>13. \A k \in 0..N : k \in S
  BY <1>1, <1>11, <1>12, Along
<1>14. N \in S /\ N # 0 /\ N \in 0..N
  BY <1>1, <1>13
<1>15. f[N].ok <=> w[N] < MaxBuffer
  BY <1>14 DEF S
<1> QED
  BY <1>2, <1>4, <1>7, <1>14, <1>15 DEF P

-----------------------------------------------------------------------------
(***************************************************************************)
(* A request of the right type has pieces that are texts.                  *)
(***************************************************************************)
LEMMA ListConcat ==
  ASSUME NEW s \in Seq(Text), NEW t \in Seq(Text)
  PROVE  s \o t \in Seq(Text) /\ Len(s \o t) = Len(s) + Len(t) /\ Len(s) \in Nat /\ Len(t) \in Nat
BY ConcatProperties, LenProperties

LEMMA PairsOf ==
  ASSUME NEW l \in Seq(Text \X Text), NEW i \in 1..Len(l) PROVE l[i][1] \in Text /\ l[i][2] \in Text
<1>1. l[i] \in Text \X Text
  BY ElementOfSeq
<1> QED
  BY <1>1

LEMMA ParamPieceType ==
  ASSUME NEW r \in Request, NEW i \in 1..Len(r.params) PROVE ParamPiece(r, i) \in Text
<1>1. r.params \in Seq(Text \X Text)
  BY DEF Request
<1> DEFINE key == r.params[i][1]
           value == r.params[i][2]
           end == IF i < Len(r.params) THEN <<"&">> ELSE <<>>
<1>2. key \in Text /\ value \in Text
  BY <1>1, PairsOf
<1>3. <<"=">> \in Text /\ <<"&">> \in Text /\ <<>> \in Text
  BY WordIsText, WidthEmpty
<1>4. end \in Text
  BY <1>3
<1>5. ParamPiece(r, i) = key \o <<"=">> \o value \o end
  BY DEF ParamPiece
<1> HIDE DEF key, value, end
<1>6. key \o <<"=">> \in Text
  BY <1>2, <1>3, TextConcat
<1>7. (key \o <<"=">>) \o value \in Text
  BY <1>2, <1>6, TextConcat
<1>8. ((key \o <<"=">>) \o value) \o end \in Text
  BY <1>4, <1>7, TextConcat
<1> QED
  BY <1>5, <1>8

LEMMA DefaultType ==
  ASSUME NEW x \in Text \cup {None}, NEW w \in {"GET", "/", "HTTP/1.1"}
  PROVE  Default(x, <<w>>) \in Text
BY WordIsText DEF Default

LEMMA LinePiecesType ==
  ASSUME NEW r \in Request PROVE LinePieces(r) \in Seq(Text) /\ Len(LinePieces(r)) # 0
<1> DEFINE method == Default(r.method, <<"GET">>)
           url == Default(r.url, <<"/">>)
           version == Default(r.version, <<"HTTP/1.1">>)
           n == Len(r.params)
           start == method \o <<" ">> \o url
           params == [i \in 1..n |-> ParamPiece(r, i)]
           end == <<" ">> \o version \o <<EOL>>
           whole == method \o <<" ">> \o url \o <<" ">> \o version \o <<EOL>>
<1>1. method \in Text /\ url \in Text /\ version \in Text
  <2>1. r.method \in Text \cup {None} /\ r.url \in Text \cup {None} /\ r.version \in Text \cup {None}
    BY ParserLibraryAssumption DEF Request
  <2> QED
    BY <2>1, DefaultType
<1>2. <<" ">> \in Text /\ <<"?">> \in Text /\ <<EOL>> \in Text
  BY WordIsText
<1>3. LinePieces(r) = IF r.params = <<>> \/ Contains(url, "?") THEN <<whole>>
                      ELSE <<start \o <<"?">>>> \o params \o <<end>>
  BY DEF LinePieces
<1> HIDE DEF method, url, version
<1>4. start \in Text /\ end \in Text
  <2>1. method \o <<" ">> \in Text /\ <<" ">> \o version \in Text
    BY <1>1, <1>2, TextConcat
  <2> QED
    BY <1>1, <1>2, <2>1, TextConcat
<1>5. whole \in Text
  <2> DEFINE a == (method \o <<" ">>) \o url
  <2>1. a \in Text
    BY <1>4
  <2> HIDE DEF a
  <2>2. a \o <<" ">> \in Text
    BY <1>2, <2>1, TextConcat
  <2>3. (a \o <<" ">>) \o version \in Text
    BY <1>1, <2>2, TextConcat
  <2>4. ((a \o <<" ">>) \o version) \o <<EOL>> \in Text
    BY <1>2, <2>3, TextConcat
  <2> QED
    BY <2>4 DEF a
<1>6. start \o <<"?">> \in Text
  BY <1>2, <1>4, TextConcat
<1>7. params \in Seq(Text)
  <2>1. n \in Nat
    <3>1. r.params \in Seq(Text \X Text)
      BY DEF Request
    <3> QED
      BY <3>1, LenProperties
  <2>2. \A i \in 1..n : ParamPiece(r, i) \in Text
    BY ParamPieceType
  <2> HIDE DEF n
  <2> QED
    BY <2>1, <2>2
<1> DEFINE piece == start \o <<"?">>
<1> HIDE DEF params, end, whole, piece
<1>8. <<piece>> \in Seq(Text) /\ Len(<<piece>>) = 1 /\ <<end>> \in Seq(Text) /\ Len(<<end>>) = 1
      /\ <<whole>> \in Seq(Text) /\ Len(<<whole>>) = 1
  BY <1>4, <1>5, <1>6, OnePiece DEF piece
<1>9. <<piece>> \o params \in Seq(Text) /\ Len(<<piece>> \o params) \in Nat
  BY <1>7, <1>8, ListConcat
<1>10. (<<piece>> \o params) \o <<end>> \in Seq(Text)
       /\ Len((<<piece>> \o params) \o <<end>>) = Len(<<piece>> \o params) + 1
  BY <1>8, <1>9, ListConcat
<1>11. LinePieces(r) = <<whole>> \/ LinePieces(r) = (<<piece>> \o params) \o <<end>>
  BY <1>3 DEF piece
<1>12. Len((<<piece>> \o params) \o <<end>>) # 0 /\ Len(<<whole>>) # 0
  BY <1>8, <1>9, <1>10
<1> QED
  BY <1>8, <1>10, <1>11, <1>12, Zenon

LEMMA SomeWordsText ==
  ASSUME NEW a \in DOMAIN Words, NEW b \in DOMAIN Words
  PROVE  /\ <<a, b>> \in Text
         /\ \A c, d, e \in DOMAIN Words : <<a, b, c, d, e>> \in Text
<1>1. <<a, b>> \in Text
  BY DEF Text
<1>2. ASSUME NEW c \in DOMAIN Words, NEW d \in DOMAIN Words, NEW e \in DOMAIN Words
      PROVE  <<a, b, c, d, e>> \in Text
  BY DEF Text
<1> QED
  BY <1>1, <1>2, Zenon

LEMMA ColonAndSpace == <<":", " ">> \in Text
<1>1. ":" \in DOMAIN Words /\ " " \in DOMAIN Words
  BY ParserLibraryAssumption, Zenon
<1> QED
  BY <1>1, SomeWordsText, Zenon

LEMMA LengthPiecesType == ASSUME NEW r PROVE LengthPieces(r) \in Seq(Text)
<1> DEFINE text == <<"Content-Length", ":", " ", "n", EOL>>
<1>1. /\ "Content-Length" \in DOMAIN Words /\ ":" \in DOMAIN Words /\ " " \in DOMAIN Words
      /\ "n" \in DOMAIN Words /\ EOL \in DOMAIN Words
  BY ParserLibraryAssumption
<1>2. text \in Text
  BY <1>1, SomeWordsText, Zenon
<1>3. LengthPieces(r) = <<>> \/ LengthPieces(r) = <<text>>
  BY DEF LengthPieces
<1> HIDE DEF text
<1> QED
  BY <1>2, <1>3, OnePiece, EmptySeq, Zenon

LEMMA PiecesType ==
  ASSUME NEW r \in Request PROVE Pieces(r) \in Seq(Text) /\ Len(Pieces(r)) # 0
<1> DEFINE line == LinePieces(r)
           n == Len(r.headers)
           colon == <<":", " ">>
           Piece(i) == r.headers[i][1] \o <<":", " ">> \o r.headers[i][2] \o <<EOL>>
           headers == [i \in 1..n |-> Piece(i)]
           length == LengthPieces(r)
           body == IF r.body \in {None, <<>>} THEN <<>> ELSE <<r.body>>
<1>1. Pieces(r) = line \o headers \o length \o <<<<EOL>>>> \o body
  BY DEF Pieces
<1>2. line \in Seq(Text) /\ Len(line) # 0
  BY LinePiecesType
<1>3. colon \in Text /\ <<EOL>> \in Text /\ <<"n">> \in Text
  <2>1. <<EOL>> \in Text /\ <<"n">> \in Text
    BY WordIsText
  <2> QED
    BY <2>1, ColonAndSpace, Zenon
<1>4. headers \in Seq(Text)
  <2>1. r.headers \in Seq(Text \X Text)
    BY DEF Request
  <2>2. n \in Nat
    BY <2>1, LenProperties
  <2>3. ASSUME NEW i \in 1..n
        PROVE  Piece(i) \in Text
    <3> DEFINE key == r.headers[i][1]
               value == r.headers[i][2]
    <3>1. key \in Text /\ value \in Text
      BY <2>1, PairsOf
    <3>0. Piece(i) = ((key \o colon) \o value) \o <<EOL>>
      OBVIOUS
    <3> HIDE DEF key, value, colon, Piece
    <3>2. key \o colon \in Text
      BY <1>3, <3>1, TextConcat
    <3>3. (key \o colon) \o value \in Text
      BY <3>1, <3>2, TextConcat
    <3>4. ((key \o colon) \o value) \o <<EOL>> \in Text
      BY <1>3, <3>3, TextConcat
    <3> QED
      BY <3>0, <3>4
  <2> HIDE DEF n, Piece
  <2> QED
    BY <2>2, <2>3
<1>5. length \in Seq(Text)
  BY LengthPiecesType
<1>6. body \in Seq(Text)
  <2>1. r.body \in Text \cup {None}
    BY DEF Request
  <2> QED
    BY <2>1, EmptySeq
<1> HIDE DEF line, headers, length, body
<1>7. <<<<EOL>>>> \in Seq(Text)
  BY WordIsText, OnePiece
<1>8. line \o headers \in Seq(Text) /\ Len(line \o headers) # 0
  <2>1. Len(line) \in Nat /\ Len(headers) \in Nat /\ Len(line \o headers) = Len(line) + Len(headers)
    BY <1>2, <1>4, ListConcat
  <2> QED
    BY <1>2, <1>4, <2>1, ListConcat
<1> DEFINE a == line \o headers
           b == a \o length
           c == b \o <<<<EOL>>>>
<1>9. b \in Seq(Text) /\ Len(b) # 0
  <2> HIDE DEF a
  <2>1. Len(a) \in Nat /\ Len(length) \in Nat /\ Len(b) = Len(a) + Len(length) /\ b \in Seq(Text)
    BY <1>5, <1>8, ListConcat DEF a
  <2>2. Len(a) # 0
    BY <1>8 DEF a
  <2> HIDE DEF b
  <2> QED
    BY <2>1, <2>2
<1> HIDE DEF b
<1>10. c \in Seq(Text) /\ Len(c) # 0
  <2>1. Len(b) \in Nat /\ Len(<<<<EOL>>>>) \in Nat /\ Len(c) = Len(b) + Len(<<<<EOL>>>>) /\ c \in Seq(Text)
    BY <1>7, <1>9, ListConcat
  <2> HIDE DEF c
  <2> QED
    BY <1>9, <2>1
<1> HIDE DEF c
<1>11. c \o body \in Seq(Text) /\ Len(c \o body) # 0
  <2>1. Len(c) \in Nat /\ Len(body) \in Nat /\ Len(c \o body) = Len(c) + Len(body) /\ c \o body \in Seq(Text)
    BY <1>6, <1>10, ListConcat
  <2> QED
    BY <1>10, <2>1
<1> QED
  BY <1>1, <1>11 DEF a, b, c

(***************************************************************************)
(* serialize_request refuses a request exactly if its text and the NUL do  *)
(* not fit: for every buffer, every width of the words and every request.  *)
(***************************************************************************)
THEOREM ParserRefusesOnlyTooLong == Spec => []RefusesOnlyTooLong
<1>1. TypeOK => RefusesOnlyTooLong
  <2> SUFFICES ASSUME TypeOK, req # None
               PROVE  Serialize(req).ok <=> Width(FlattenSeq(Pieces(req))) < MaxBuffer
    BY DEF RefusesOnlyTooLong
  <2>1. req \in Request
    BY DEF TypeOK
  <2>2. Pieces(req) \in Seq(Text) /\ Len(Pieces(req)) # 0
    BY <2>1, PiecesType
  <2> QED
    BY <2>2, RefusesTooLong
<1> QED
  BY ParserTypeCorrect, <1>1, PTL

-----------------------------------------------------------------------------
(***************************************************************************)
(* Texts put together and taken apart again.                               *)
(***************************************************************************)
LEMMA TextProperties ==
  ASSUME NEW s \in Text
  PROVE  /\ Len(s) \in Nat /\ s \in [1..Len(s) -> DOMAIN Words]
         /\ s # <<>> => Len(s) # 0
BY LenProperties, EmptySeq DEF Text

LEMMA Regrouping == \A s, t, u \in Text : (s \o t) \o u = s \o (t \o u)
BY ConcatAssociative, SMTT(60) DEF Text

\* Concatenation without what it is made of.
Joined(s, t) == s \o t

LEMMA JoinedAssociates ==
  \A s, t, u \in Text : Joined(s, t) \in Text /\ Joined(Joined(s, t), u) = Joined(s, Joined(t, u))
<1>1. \A s, t \in Text : s \o t \in Text
  BY TextConcat
<1> QED
  BY <1>1, Regrouping DEF Joined

LEMMA ConcatText ==
  ASSUME NEW s \in Text, NEW t \in Text
  PROVE  /\ s \o t \in Text /\ Len(s \o t) = Len(s) + Len(t)
         /\ Len(s) \in Nat /\ Len(t) \in Nat
         /\ \A i \in 1..Len(s) : (s \o t)[i] = s[i]
         /\ \A i \in 1..Len(t) : (s \o t)[Len(s) + i] = t[i]
<1> DEFINE M == Len(s)
           N == Len(t)
           c == s \o t
<1>1. /\ c \in Text /\ Len(c) = M + N /\ M \in Nat /\ N \in Nat
      /\ \A i \in 1..(M + N) : c[i] = IF i <= M THEN s[i] ELSE t[i - M]
  BY ConcatProperties, LenProperties DEF Text
<1> HIDE DEF M, N, c
<1>2. ASSUME NEW i \in 1..M PROVE c[i] = s[i]
  <2>1. i \in 1..(M + N) /\ i <= M
    BY <1>1
  <2> QED
    BY <1>1, <2>1
<1>3. ASSUME NEW i \in 1..N PROVE c[M + i] = t[i]
  <2>1. M + i \in 1..(M + N) /\ ~(M + i <= M) /\ (M + i) - M = i
    BY <1>1
  <2> QED
    BY <1>1, <2>1
<1> QED
  BY <1>1, <1>2, <1>3 DEF M, N, c

LEMMA ContainsConcat ==
  ASSUME NEW s \in Text, NEW t \in Text, NEW w
  PROVE  Contains(s \o t, w) <=> Contains(s, w) \/ Contains(t, w)
<1> DEFINE M == Len(s)
           N == Len(t)
           c == s \o t
<1>1. /\ Len(c) = M + N /\ M \in Nat /\ N \in Nat
      /\ \A i \in 1..M : c[i] = s[i]
      /\ \A i \in 1..N : c[M + i] = t[i]
  BY ConcatText
<1>2. /\ Contains(s, w) <=> \E i \in 1..M : s[i] = w
      /\ Contains(t, w) <=> \E i \in 1..N : t[i] = w
      /\ Contains(c, w) <=> \E i \in 1..Len(c) : c[i] = w
  BY DEF Contains
<1> HIDE DEF M, N, c
<1>3. ASSUME NEW i \in 1..(M + N), c[i] = w PROVE (\E j \in 1..M : s[j] = w) \/ (\E j \in 1..N : t[j] = w)
  <2>1. CASE i <= M
    <3>1. i \in 1..M
      BY <1>1, <2>1
    <3> QED
      BY <1>1, <1>3, <3>1
  <2>2. CASE ~(i <= M)
    <3>1. i - M \in 1..N /\ M + (i - M) = i
      BY <1>1, <2>2
    <3> QED
      BY <1>1, <1>3, <3>1
  <2> QED
    BY <2>1, <2>2
<1>4. ASSUME NEW i \in 1..M, s[i] = w PROVE \E j \in 1..(M + N) : c[j] = w
  <2>1. i \in 1..(M + N)
    BY <1>1
  <2> QED
    BY <1>1, <1>4, <2>1
<1>5. ASSUME NEW i \in 1..N, t[i] = w PROVE \E j \in 1..(M + N) : c[j] = w
  <2>1. M + i \in 1..(M + N)
    BY <1>1
  <2> QED
    BY <1>1, <1>5, <2>1
<1> QED
  BY <1>1, <1>2, <1>3, <1>4, <1>5 DEF c

LEMMA ContainsOne ==
  ASSUME NEW x, NEW w PROVE Contains(<<x>>, w) <=> x = w
BY DEF Contains

LEMMA ContainsNone == ASSUME NEW w PROVE ~Contains(<<>>, w)
BY DEF Contains

LEMMA BackAndFront ==
  ASSUME NEW s \in Text, NEW t \in Text
  PROVE  SubSeq(s \o t, 1, Len(s)) = s /\ SubSeq(s \o t, Len(s) + 1, Len(s \o t)) = t
<1> DEFINE M == Len(s)
           N == Len(t)
           c == s \o t
<1>1. /\ c \in Text /\ Len(c) = M + N /\ M \in Nat /\ N \in Nat
      /\ \A i \in 1..M : c[i] = s[i]
      /\ \A i \in 1..N : c[M + i] = t[i]
  BY ConcatText
<1>2. s \in Seq(DOMAIN Words) /\ t \in Seq(DOMAIN Words) /\ c \in Seq(DOMAIN Words)
  BY <1>1 DEF Text
<1>3. Len(s) = M /\ Len(t) = N
  OBVIOUS
<1> HIDE DEF M, N, c
<1>4. \A i \in 1..(M + N) : c[i] \in DOMAIN Words
  BY <1>1, <1>2, ElementOfSeq
<1>5. SubSeq(c, 1, M) = s
  <2>1. \A i \in 1..M : c[i] \in DOMAIN Words
    BY <1>1, <1>4
  <2>2. 1 \in Int /\ M \in Int /\ M - 1 + 1 = M /\ (IF 1 <= M THEN M - 1 + 1 ELSE 0) = M
        /\ \A i \in 1..M : 1 + i - 1 = i
    BY <1>1
  <2> DEFINE a == SubSeq(c, 1, M)
  <2>3. a \in Seq(DOMAIN Words) /\ Len(a) = M /\ \A i \in 1..M : a[i] = c[i]
    BY <2>1, <2>2, SubSeqProperties
  <2> HIDE DEF a
  <2>4. a = s
    BY <1>1, <1>2, <1>3, <2>3, SeqEqual
  <2> QED
    BY <2>4 DEF a
<1>6. SubSeq(c, M + 1, M + N) = t
  <2>1. \A i \in (M + 1)..(M + N) : c[i] \in DOMAIN Words
    BY <1>1, <1>4
  <2>2. /\ M + 1 \in Int /\ M + N \in Int /\ (M + N) - (M + 1) + 1 = N
        /\ (IF M + 1 <= M + N THEN (M + N) - (M + 1) + 1 ELSE 0) = N
        /\ \A i \in 1..N : (M + 1) + i - 1 = M + i
    BY <1>1
  <2> DEFINE a == SubSeq(c, M + 1, M + N)
  <2>3. a \in Seq(DOMAIN Words) /\ Len(a) = N /\ \A i \in 1..N : a[i] = c[M + i]
    BY <2>1, <2>2, SubSeqProperties
  <2> HIDE DEF a
  <2>4. a = t
    BY <1>1, <1>2, <1>3, <2>3, SeqEqual
  <2> QED
    BY <2>4 DEF a
<1> QED
  BY <1>1, <1>5, <1>6 DEF M, N, c

\* The first separator is the one behind a text without it.
LEMMA PlaceBehind ==
  ASSUME NEW s \in Text, NEW t \in Text, NEW w \in DOMAIN Words, ~Contains(s, w)
  PROVE  /\ (s \o <<w>>) \o t \in Text /\ Place((s \o <<w>>) \o t, w) = Len(s) + 1
         /\ Cut((s \o <<w>>) \o t, w) = <<s, t>>
         /\ SubSeq((s \o <<w>>) \o t, 1, Len(s)) = s
         /\ SubSeq((s \o <<w>>) \o t, Len(s) + 2, Len((s \o <<w>>) \o t)) = t
<1> DEFINE b == s \o <<w>>
           c == b \o t
           u == <<w>> \o t
           M == Len(s)
<1>0. <<w>> \in Text /\ Len(<<w>>) = 1
  BY OneWord
<1>1. b \in Text /\ Len(b) = M + 1 /\ M \in Nat /\ b[M + 1] = w /\ \A i \in 1..M : b[i] = s[i]
  BY <1>0, ConcatText
<1>2. c \in Text /\ \A i \in 1..(M + 1) : c[i] = b[i]
  <2> HIDE DEF b
  <2>1. b \in Text /\ t \in Text
    BY <1>1
  <2>2. c \in Text /\ \A i \in 1..Len(b) : c[i] = b[i]
    BY <2>1, ConcatText
  <2> QED
    BY <1>1, <2>2
<1>2a. Len(c) \in Nat /\ M + 1 <= Len(c)
  <2> HIDE DEF b, M
  <2>1. Len(c) = Len(b) + Len(t) /\ Len(t) \in Nat
    BY <1>1, ConcatText
  <2> QED
    BY <1>1, <2>1
<1>3. c = s \o u /\ u \in Text
  BY <1>0, ConcatAssociative, ConcatText DEF Text
<1>4. SubSeq(c, 1, M) = s
  <2> HIDE DEF c, u
  <2> QED
    BY <1>3, BackAndFront
<1>5. SubSeq(c, M + 2, Len(c)) = t
  <2>1. SubSeq(b \o t, Len(b) + 1, Len(b \o t)) = t
    <3> HIDE DEF b
    <3> QED
      BY <1>1, BackAndFront
  <2>2. Len(b) + 1 = M + 2
    BY <1>1
  <2> QED
    BY <2>1, <2>2
<1> HIDE DEF b, c, M
<1> DEFINE I == {i \in 1..Len(c) : c[i] = w}
<1>6. M + 1 \in I
  BY <1>1, <1>2, <1>2a
<1>7. ASSUME NEW i \in I PROVE M + 1 <= i
  <2> SUFFICES ASSUME ~(M + 1 <= i) PROVE FALSE
    OBVIOUS
  <2>1. i \in 1..M
    BY <1>1
  <2>2. s[i] = w
    BY <1>1, <1>2, <2>1
  <2> QED
    BY <2>1, <2>2 DEF Contains, M
<1>8. Min(I) = M + 1
  <2>1. Min(I) \in I /\ \A k \in I : Min(I) <= k
    <3>1. I # {} /\ I \subseteq Nat
      BY <1>6
    <3> HIDE DEF I
    <3> QED
      BY <3>1, MinProperties
  <2>2. Min(I) <= M + 1 /\ M + 1 <= Min(I) /\ Min(I) \in Nat
    BY <1>6, <1>7, <2>1
  <2> HIDE DEF I
  <2> QED
    BY <1>1, <2>2
<1>9. Place(c, w) = M + 1
  <2>1. Place(c, w) = IF I # {} THEN Min(I) ELSE 0
    BY DEF Place, SelectInSeq
  <2>2. I # {}
    BY <1>6
  <2> HIDE DEF I
  <2> QED
    BY <1>8, <2>1, <2>2
<1>10. Cut(c, w) = <<s, t>>
  <2>1. (M + 1) - 1 = M /\ (M + 1) + 1 = M + 2
    BY <1>1
  <2>2. Cut(c, w) = <<SubSeq(c, 1, (M + 1) - 1), SubSeq(c, (M + 1) + 1, Len(c))>>
    BY <1>9, Zenon DEF Cut
  <2> QED
    BY <1>4, <1>5, <2>1, <2>2
<1> QED
  BY <1>2, <1>4, <1>5, <1>9, <1>10 DEF b, c, M

-----------------------------------------------------------------------------
(***************************************************************************)
(* The fields of a text that is put together.                              *)
(***************************************************************************)
LEMMA FieldsPrefix ==
  ASSUME NEW s \in Text, NEW t \in Text, NEW sep, NEW f, IsFields(f, s \o t, sep)
  PROVE  f[Len(s)] = Fields(s, sep)
<1> DEFINE M == Len(s)
           N == Len(t)
           c == s \o t
           h == [k \in 0..M |-> f[k]]
<1>1. /\ Len(c) = M + N /\ M \in Nat /\ N \in Nat
      /\ \A i \in 1..M : c[i] = s[i]
  BY ConcatText
<1>2. /\ f \in [0..Len(c) -> Seq(Text)] /\ f[0] = <<>>
      /\ \A n \in 1..Len(c) : f[n] = MoreFields(c, sep, n, f[n - 1])
  BY DEF IsFields
<1> HIDE DEF M, N, c
<1>3. \A k \in 0..M : h[k] = f[k] /\ f[k] \in Seq(Text)
  BY <1>1, <1>2
<1>4. h \in [0..M -> Seq(Text)] /\ h[0] = <<>>
  BY <1>1, <1>2, <1>3
<1> HIDE DEF h
<1>5. ASSUME NEW n \in 1..M PROVE h[n] = MoreFields(s, sep, n, h[n - 1])
  <2>1. n \in 1..Len(c) /\ n \in 0..M /\ n - 1 \in 0..M /\ c[n] = s[n]
    BY <1>1
  <2>2. n # 1 => c[n - 1] = s[n - 1]
    <3>1. n # 1 => n - 1 \in 1..M
      BY <1>1
    <3> QED
      BY <1>1, <3>1
  <2>3. f[n] = MoreFields(c, sep, n, f[n - 1])
    BY <1>2, <2>1
  <2>4. MoreFields(c, sep, n, f[n - 1]) = MoreFields(s, sep, n, f[n - 1])
    BY <2>1, <2>2, Zenon DEF MoreFields
  <2> QED
    BY <1>3, <2>1, <2>3, <2>4
<1>6. IsFields(h, s, sep)
  BY <1>4, <1>5 DEF IsFields, M
<1>7. Fields(s, sep) = h[M]
  BY <1>6, FieldsAre DEF M
<1>8. M \in 0..M
  BY <1>1
<1> QED
  BY <1>3, <1>7, <1>8 DEF M

LEMMA FieldsEnd ==
  ASSUME NEW s \in Text, NEW sep \in DOMAIN Words
  PROVE  Fields(s \o <<sep>>, sep) = Fields(s, sep)
<1> DEFINE c == s \o <<sep>>
<1>1. <<sep>> \in Text /\ Len(<<sep>>) = 1 /\ <<sep>>[1] = sep
  BY OneWord
<1>2. c \in Text /\ Len(c) = Len(s) + 1 /\ c[Len(s) + 1] = sep /\ Len(s) \in Nat
  BY <1>1, ConcatText
<1>3. PICK f : IsFields(f, c, sep) /\ Fields(c, sep) = f[Len(c)]
  BY <1>2, FieldsExist
<1>4. f[Len(s)] = Fields(s, sep)
  BY <1>1, <1>3, FieldsPrefix
<1> HIDE DEF c
<1>5. Len(s) + 1 \in 1..Len(c) /\ (Len(s) + 1) - 1 = Len(s)
  BY <1>2
<1>6. f[Len(s) + 1] = MoreFields(c, sep, Len(s) + 1, f[Len(s)])
  BY <1>3, <1>5 DEF IsFields
<1>7. f[Len(s) + 1] = f[Len(s)]
  BY <1>2, <1>6 DEF MoreFields
<1> QED
  BY <1>2, <1>3, <1>4, <1>7 DEF c

LEMMA LastReplaced ==
  ASSUME NEW S, NEW b \in Seq(Seq(S)), NEW x \in Seq(S), NEW y \in S
  PROVE  LET l == Append(b, x) IN [l EXCEPT ![Len(l)] = Append(@, y)] = Append(b, Append(x, y))
<1> DEFINE l == Append(b, x)
           r == [l EXCEPT ![Len(l)] = Append(l[Len(l)], y)]
           e == Append(b, Append(x, y))
           T == Seq(S)
<1>1. Append(x, y) \in T /\ b \in Seq(T) /\ x \in T
  OBVIOUS
<1> DEFINE z == Append(x, y)
<1> HIDE DEF T, z
<1>2. l \in Seq(T) /\ Len(l) = Len(b) + 1 /\ Len(b) \in Nat /\ l[Len(b) + 1] = x
      /\ \A i \in 1..Len(b) : l[i] = b[i]
  BY <1>1
<1>3. e \in Seq(T) /\ Len(e) = Len(b) + 1 /\ e[Len(b) + 1] = z
      /\ \A i \in 1..Len(b) : e[i] = b[i]
  BY <1>1 DEF z
<1> HIDE DEF l, e
<1>4. r = [l EXCEPT ![Len(l)] = z] /\ Len(l) \in 1..Len(l)
  BY <1>2 DEF z
<1> HIDE DEF r
<1>5. r \in Seq(T) /\ Len(r) = Len(l) /\ \A i \in 1..Len(l) : r[i] = IF i = Len(l) THEN z ELSE l[i]
  BY <1>1, <1>2, <1>4, ExceptSeq DEF z
<1>6. \A i \in 1..Len(r) : r[i] = e[i]
  <2> TAKE i \in 1..Len(r)
  <2>1. CASE i = Len(b) + 1
    BY <1>2, <1>3, <1>5, <2>1
  <2>2. CASE i # Len(b) + 1
    <3>1. i \in 1..Len(b) /\ i \in 1..Len(l) /\ i # Len(l)
      BY <1>2, <1>5, <2>2
    <3> QED
      BY <1>2, <1>3, <1>5, <3>1
  <2> QED
    BY <2>1, <2>2
<1>7. r = e
  BY <1>2, <1>3, <1>5, <1>6, SeqEqual
<1> QED
  BY <1>7 DEF l, e, r

LEMMA FieldsAppend ==
  ASSUME NEW s \in Text, NEW t \in Text, NEW sep, s = <<>> \/ s[Len(s)] = sep,
         t # <<>>, ~Contains(t, sep)
  PROVE  Fields(s \o t, sep) = Append(Fields(s, sep), t)
<1> DEFINE M == Len(s)
           N == Len(t)
           c == s \o t
           B == Fields(s, sep)
           Part(k) == SubSeq(t, 1, k)
<1>1. /\ Len(c) = M + N /\ M \in Nat /\ N \in Nat \ {0} /\ c \in Text
      /\ \A i \in 1..M : c[i] = s[i]
      /\ \A i \in 1..N : c[M + i] = t[i]
  BY ConcatText, TextProperties
<1>2. PICK f : IsFields(f, c, sep) /\ Fields(c, sep) = f[Len(c)]
  BY <1>1, FieldsExist
<1>3. f[M] = B
  BY <1>2, FieldsPrefix
<1>4. B \in Seq(Text)
  BY FieldsType
<1>5. \A i \in 1..N : t[i] # sep /\ t[i] \in DOMAIN Words
  BY ElementOfSeq DEF Contains, Text
<1>6. M = 0 \/ (M \in 1..M /\ s[M] = sep)
  BY <1>1, EmptySeq
<1>7. \A n \in 1..(M + N) : f[n] = MoreFields(c, sep, n, f[n - 1])
  BY <1>1, <1>2 DEF IsFields
<1>8. ASSUME NEW k \in 1..N
      PROVE  /\ Part(k) \in Seq(DOMAIN Words)
             /\ k = 1 => Part(k) = <<t[1]>>
             /\ k # 1 => Part(k) = Append(Part(k - 1), t[k]) /\ Part(k - 1) \in Seq(DOMAIN Words)
  <2>0. t \in Seq(DOMAIN Words) /\ 1 \in 1..Len(t) /\ k \in 1..Len(t) /\ k - 1 \in Int /\ 1 \in Int /\ k \in Int
    BY <1>1 DEF Text
  <2>1. \A j \in Int : j <= N => \A i \in 1..j : t[i] \in DOMAIN Words
    BY <1>1, <1>5
  <2>2. Part(k) \in Seq(DOMAIN Words) /\ Part(k - 1) \in Seq(DOMAIN Words)
    <3>1. k <= N /\ k - 1 <= N
      BY <1>1
    <3>2. (\A i \in 1..k : t[i] \in DOMAIN Words) /\ (\A i \in 1..(k - 1) : t[i] \in DOMAIN Words)
      BY <2>0, <2>1, <3>1
    <3> QED
      BY <2>0, <3>2, SubSeqProperties
  <2>3. Part(k) = Part(k - 1) \o <<t[k]>>
    BY <2>0, SubSeqRecursiveSecond
  <2> HIDE DEF Part
  <2>4. Part(k - 1) \o <<t[k]>> = Append(Part(k - 1), t[k])
    BY <1>5, <2>2
  <2>5. k = 1 => Part(k) = <<t[1]>>
    <3> SUFFICES ASSUME k = 1 PROVE Part(k) = <<t[1]>>
      OBVIOUS
    <3>1. Part(0) = <<>>
      BY SubSeqEmpty DEF Part
    <3>2. k - 1 = 0
      OBVIOUS
    <3>3. <<t[1]>> \in Seq(DOMAIN Words)
      BY <1>1, <1>5
    <3>4. <<>> \o <<t[1]>> = <<t[1]>>
      BY <3>3, ConcatEmptySeq
    <3> QED
      BY <2>3, <3>1, <3>2, <3>4
  <2> QED
    BY <2>2, <2>3, <2>4, <2>5
<1> HIDE DEF M, N, c, B, Part
<1> DEFINE S == {k \in 0..N : k # 0 => f[M + k] = Append(B, Part(k))}
<1>9. 0 \in S
  BY <1>1
<1>10. ASSUME NEW k \in 1..N, k - 1 \in S PROVE k \in S
  <2>1. /\ M + k \in 1..(M + N) /\ (M + k) - 1 = M + (k - 1) /\ k \in 0..N
        /\ c[M + k] = t[k] /\ t[k] # sep
    BY <1>1, <1>5
  <2>2. f[M + k] = MoreFields(c, sep, M + k, f[M + (k - 1)])
    BY <1>7, <2>1
  <2>3. CASE k = 1
    <3>1. M + (k - 1) = M
      BY <1>1, <2>3
    <3>2. M + k = 1 \/ c[(M + k) - 1] = sep
      BY <1>1, <1>6, <2>3
    <3>3. f[M + k] = Append(f[M], <<c[M + k]>>)
      BY <2>1, <2>2, <3>1, <3>2 DEF MoreFields
    <3>4. f[M + k] = Append(B, Part(k))
      BY <1>3, <1>8, <2>1, <2>3, <3>3
    <3> QED
      BY <2>1, <3>4
  <2>4. CASE k # 1
    <3>1. k - 1 \in 1..N /\ k - 1 # 0 /\ M + k # 1
      BY <1>1, <2>4
    <3>2. c[(M + k) - 1] # sep
      <4>1. c[M + (k - 1)] = t[k - 1] /\ t[k - 1] # sep
        BY <1>1, <1>5, <3>1, Zenon
      <4> QED
        BY <2>1, <4>1, Zenon
    <3> DEFINE before == Append(B, Part(k - 1))
    <3>3. f[M + (k - 1)] = before
      BY <1>10, <3>1
    <3>4. f[M + k] = [before EXCEPT ![Len(before)] = Append(before[Len(before)], t[k])]
      <4> HIDE DEF before
      <4> QED
        BY <2>1, <2>2, <3>1, <3>2, <3>3 DEF MoreFields
    <3>5. Part(k - 1) \in Seq(DOMAIN Words) /\ Part(k) = Append(Part(k - 1), t[k]) /\ t[k] \in DOMAIN Words
      BY <1>5, <1>8, <2>4
    <3>6. [before EXCEPT ![Len(before)] = Append(before[Len(before)], t[k])] = Append(B, Append(Part(k - 1), t[k]))
      <4> DEFINE x == Part(k - 1)
                 y == t[k]
      <4>1. B \in Seq(Seq(DOMAIN Words)) /\ x \in Seq(DOMAIN Words) /\ y \in DOMAIN Words
        BY <1>4, <3>5 DEF Text
      <4> HIDE DEF x, y
      <4>2. [Append(B, x) EXCEPT ![Len(Append(B, x))] = Append(Append(B, x)[Len(Append(B, x))], y)]
              = Append(B, Append(x, y))
        BY <4>1, LastReplaced
      <4> QED
        BY <4>2 DEF x, y
    <3>7. f[M + k] = Append(B, Part(k))
      BY <3>4, <3>5, <3>6
    <3> QED
      BY <2>1, <3>7
  <2> QED
    BY <2>3, <2>4
<1> HIDE DEF S
<1>11. \A k \in 0..N : k \in S
  BY <1>1, <1>9, <1>10, Along
<1>12. N \in S /\ N # 0
  BY <1>1, <1>11
<1>13. f[M + N] = Append(B, Part(N))
  BY <1>12 DEF S
<1>14. Part(N) = t
  BY SubSeqFull DEF Part, N, Text
<1> QED
  BY <1>1, <1>2, <1>13, <1>14 DEF B, c

LEMMA FieldsNone == ASSUME NEW sep PROVE Fields(<<>>, sep) = <<>>
<1>1. <<>> \in Text /\ Len(<<>>) = 0
  BY EmptySeq DEF Text
<1>2. PICK f : IsFields(f, <<>>, sep) /\ Fields(<<>>, sep) = f[Len(<<>>)]
  BY <1>1, FieldsExist
<1> QED
  BY <1>1, <1>2 DEF IsFields

-----------------------------------------------------------------------------
(***************************************************************************)
(* Lines, each with a separator behind it.                                 *)
(***************************************************************************)
LEMMA PartOfList ==
  ASSUME NEW S, NEW l \in Seq(S), NEW k \in 1..Len(l)
  PROVE  SubSeq(l, 1, k) = Append(SubSeq(l, 1, k - 1), l[k]) /\ SubSeq(l, 1, 0) = <<>>
<1>1. Len(l) \in Nat /\ l[k] \in S /\ k \in 1..Len(l) /\ 1 \in 1..Len(l) /\ k - 1 \in Int /\ 1 \in Int
  BY LenProperties, ElementOfSeq
<1>2. SubSeq(l, 1, k) = SubSeq(l, 1, k - 1) \o <<l[k]>>
  BY <1>1, SubSeqRecursiveSecond
<1>3. \A i \in 1..(k - 1) : l[i] \in S
  <2> TAKE i \in 1..(k - 1)
  <2>1. i \in 1..Len(l)
    BY <1>1
  <2> QED
    BY <2>1, ElementOfSeq
<1>4. SubSeq(l, 1, k - 1) \in Seq(S)
  BY <1>1, <1>3, SubSeqProperties
<1> DEFINE a == SubSeq(l, 1, k - 1)
<1> HIDE DEF a
<1>5. a \o <<l[k]>> = Append(a, l[k])
  BY <1>1, <1>4 DEF a
<1>6. SubSeq(l, 1, 0) = <<>>
  BY SubSeqEmpty
<1> QED
  BY <1>2, <1>5, <1>6 DEF a

\* A field: not empty, and without the separator.
Field(t, sep) == t # <<>> /\ ~Contains(t, sep)

IsLines(g, l, sep) ==
  /\ g \in [0..Len(l) -> Text] /\ g[0] = <<>>
  /\ \A i \in 1..Len(l) : g[i] = g[i - 1] \o (l[i] \o <<sep>>)

LineStands(before, line, after, sep) ==
  /\ before \in Text /\ line \in Text /\ before \o line \in Text /\ after \in Text
  /\ after = (before \o line) \o <<sep>>
  /\ Len(after) = Len(before \o line) + 1 /\ after[Len(after)] = sep

LEMMA LinesStep ==
  ASSUME NEW l \in Seq(Text), NEW sep \in DOMAIN Words, NEW g, IsLines(g, l, sep), NEW k \in 1..Len(l)
  PROVE  LineStands(g[k - 1], l[k], g[k], sep)
<1>1. Len(l) \in Nat /\ l[k] \in Text /\ k - 1 \in 0..Len(l) /\ k \in 0..Len(l)
  <2>1. Len(l) \in Nat /\ l[k] \in Text
    BY LenProperties, ElementOfSeq
  <2> QED
    BY <2>1
<1>2. g[k - 1] \in Text /\ g[k] \in Text /\ g[k] = g[k - 1] \o (l[k] \o <<sep>>)
  BY <1>1 DEF IsLines
<1>3. <<sep>> \in Text /\ Len(<<sep>>) = 1 /\ <<sep>>[1] = sep
  BY OneWord
<1> DEFINE a == g[k - 1]
           b == l[k]
           ab == a \o b
<1>4. ab \in Text
  BY <1>1, <1>2, ConcatText
<1>5. ab \o <<sep>> = a \o (b \o <<sep>>)
  <2> HIDE DEF a, b
  <2>1. a \in Text /\ b \in Text
    BY <1>1, <1>2 DEF a, b
  <2> QED
    BY <1>3, <2>1, Regrouping
<1> HIDE DEF ab
<1>6. Len(ab \o <<sep>>) = Len(ab) + 1 /\ (ab \o <<sep>>)[Len(ab) + 1] = sep
  BY <1>3, <1>4, ConcatText
<1> QED
  BY <1>1, <1>2, <1>4, <1>5, <1>6 DEF ab, LineStands

LEMMA FieldsOfLines ==
  ASSUME NEW l \in Seq(Text), NEW sep \in DOMAIN Words, NEW g, IsLines(g, l, sep),
         \A i \in 1..Len(l) : Field(l[i], sep)
  PROVE  /\ Fields(g[Len(l)], sep) = l
         /\ Len(l) # 0 => Fields(g[Len(l) - 1] \o l[Len(l)], sep) = l
<1> DEFINE N == Len(l)
           Good(k) == Fields(g[k], sep) = SubSeq(l, 1, k) /\ (g[k] = <<>> \/ g[k][Len(g[k])] = sep)
           S == {k \in 0..N : Good(k)}
<1>1. N \in Nat
  BY LenProperties
<1>2. 0 \in S
  <2>1. g[0] = <<>>
    BY DEF IsLines
  <2>2. Fields(<<>>, sep) = <<>>
    <3>1. <<>> \in Text /\ Len(<<>>) = 0
      BY EmptySeq DEF Text
    <3>2. PICK f : IsFields(f, <<>>, sep) /\ Fields(<<>>, sep) = f[Len(<<>>)]
      BY <3>1, FieldsExist
    <3> QED
      BY <3>1, <3>2 DEF IsFields
  <2>3. SubSeq(l, 1, 0) = <<>>
    BY SubSeqEmpty
  <2>4. Good(0)
    BY <2>1, <2>2, <2>3, Zenon
  <2>5. 0 \in 0..N
    BY <1>1
  <2> HIDE DEF Good
  <2> QED
    BY <2>4, <2>5
<1> HIDE DEF N
<1>3. ASSUME NEW k \in 1..N, Good(k - 1)
      PROVE  Fields(g[k - 1] \o l[k], sep) = SubSeq(l, 1, k) /\ Good(k)
  <2>0. k \in 1..Len(l) /\ k - 1 \in 0..N
    BY <1>1 DEF N
  <2>1. /\ g[k - 1] \in Text /\ l[k] \in Text /\ g[k] \in Text
        /\ g[k - 1] \o l[k] \in Text
        /\ g[k] = (g[k - 1] \o l[k]) \o <<sep>>
        /\ g[k][Len(g[k])] = sep
    <3>1. LineStands(g[k - 1], l[k], g[k], sep)
      BY <2>0, LinesStep
    <3> QED
      BY <3>1 DEF LineStands
  <2>2. l[k] # <<>> /\ ~Contains(l[k], sep)
    BY DEF Field, N
  <2>3. Fields(g[k - 1] \o l[k], sep) = Append(Fields(g[k - 1], sep), l[k])
    BY <1>3, <2>1, <2>2, FieldsAppend
  <2>4. SubSeq(l, 1, k) = Append(SubSeq(l, 1, k - 1), l[k])
    BY PartOfList DEF N
  <2>5. Fields(g[k - 1] \o l[k], sep) = SubSeq(l, 1, k)
    BY <1>3, <2>3, <2>4
  <2>6. Fields(g[k], sep) = Fields(g[k - 1] \o l[k], sep)
    BY <2>1, FieldsEnd
  <2> QED
    BY <2>1, <2>5, <2>6
<1> HIDE DEF Good
<1>4. \A k \in 1..N : k - 1 \in S => k \in S
  <2> TAKE k \in 1..N
  <2>1. k \in 0..N
    BY <1>1
  <2> QED
    BY <1>3, <2>1
<1>5. \A k \in 0..N : k \in S
  <2> HIDE DEF S
  <2> QED
    BY <1>1, <1>2, <1>4, Along
<1>6. SubSeq(l, 1, N) = l
  BY SubSeqFull DEF N
<1>7. Fields(g[N], sep) = l
  <2>1. N \in 0..N
    BY <1>1
  <2>2. Good(N)
    BY <1>5, <2>1
  <2> QED
    BY <1>6, <2>2 DEF Good
<1>8. N # 0 => Fields(g[N - 1] \o l[N], sep) = l
  <2> SUFFICES ASSUME N # 0 PROVE Fields(g[N - 1] \o l[N], sep) = l
    OBVIOUS
  <2>1. N \in 1..N /\ N - 1 \in 0..N
    BY <1>1
  <2>2. Good(N - 1)
    BY <1>5, <2>1
  <2> QED
    BY <1>3, <1>6, <2>1, <2>2
<1> QED
  BY <1>7, <1>8 DEF N

-----------------------------------------------------------------------------
(***************************************************************************)
(* Among lines that are not empty there is no blank one.                   *)
(***************************************************************************)
NoBlank(x) == \A i, j \in 1..Len(x) : j = i + 1 => ~(x[i] = EOL /\ x[j] = EOL)

LEMMA NoBlankAppend ==
  ASSUME NEW x \in Text, NEW t \in Text, NoBlank(x), Field(t, EOL)
  PROVE  NoBlank((x \o t) \o <<EOL>>)
<1> DEFINE M == Len(x)
           N == Len(t)
           c == x \o t
           d == c \o <<EOL>>
<1>1. /\ Len(c) = M + N /\ M \in Nat /\ N \in Nat \ {0} /\ c \in Text
      /\ \A i \in 1..M : c[i] = x[i]
      /\ \A i \in 1..N : c[M + i] = t[i]
  BY ConcatText, TextProperties DEF Field
<1>2. \A i \in 1..N : t[i] # EOL
  BY DEF Field, Contains
<1>3. \A i, j \in 1..M : j = i + 1 => ~(x[i] = EOL /\ x[j] = EOL)
  BY DEF NoBlank
<1> HIDE DEF c
<1>4. <<EOL>> \in Text /\ Len(<<EOL>>) = 1
  BY WordIsText
<1>5. Len(d) = (M + N) + 1 /\ \A i \in 1..(M + N) : d[i] = c[i]
  <2> HIDE DEF M, N
  <2>1. Len(d) = Len(c) + 1 /\ \A i \in 1..Len(c) : d[i] = c[i]
    BY <1>1, <1>4, ConcatText
  <2> QED
    BY <1>1, <2>1
<1> HIDE DEF M, N, d
<1> SUFFICES ASSUME NEW i \in 1..Len(d), NEW j \in 1..Len(d), j = i + 1, d[i] = EOL, d[j] = EOL
             PROVE  FALSE
  BY DEF NoBlank, M, N, d, c
<1>6. i \in 1..(M + N) /\ c[i] = EOL
  BY <1>1, <1>5
<1>7. i <= M
  <2> SUFFICES ASSUME ~(i <= M) PROVE FALSE
    OBVIOUS
  <2>1. i - M \in 1..N /\ M + (i - M) = i
    BY <1>1, <1>6
  <2>2. c[M + (i - M)] = t[i - M] /\ t[i - M] # EOL
    BY <1>1, <1>2, <2>1, Zenon
  <2> QED
    BY <1>6, <2>1, <2>2, Zenon
<1>8. j \in 1..(M + N) /\ c[j] = EOL
  BY <1>1, <1>5, <1>7
<1>9. j <= M
  <2> SUFFICES ASSUME ~(j <= M) PROVE FALSE
    OBVIOUS
  <2>1. j - M \in 1..N /\ M + (j - M) = j
    BY <1>1, <1>8
  <2>2. c[M + (j - M)] = t[j - M] /\ t[j - M] # EOL
    BY <1>1, <1>2, <2>1, Zenon
  <2> QED
    BY <1>8, <2>1, <2>2, Zenon
<1>10. i \in 1..M /\ j \in 1..M /\ x[i] = EOL /\ x[j] = EOL
  BY <1>1, <1>6, <1>7, <1>8, <1>9
<1> QED
  BY <1>3, <1>10

LEMMA NoBlankLines ==
  ASSUME NEW l \in Seq(Text), NEW g, IsLines(g, l, EOL), \A i \in 1..Len(l) : Field(l[i], EOL)
  PROVE  NoBlank(g[Len(l)])
<1> DEFINE N == Len(l)
           S == {k \in 0..N : NoBlank(g[k])}
<1>1. N \in Nat /\ EOL \in DOMAIN Words
  BY LenProperties, ParserLibraryAssumption
<1>2. 0 \in S
  <2>1. g[0] = <<>> /\ Len(<<>>) = 0
    BY EmptySeq DEF IsLines
  <2> QED
    BY <1>1, <2>1 DEF NoBlank
<1> HIDE DEF N
<1>3. ASSUME NEW k \in 1..N, k - 1 \in S PROVE k \in S
  <2>0. k \in 1..Len(l)
    BY DEF N
  <2>1. g[k - 1] \in Text /\ l[k] \in Text /\ g[k] = (g[k - 1] \o l[k]) \o <<EOL>>
    <3>1. LineStands(g[k - 1], l[k], g[k], EOL)
      BY <1>1, <2>0, LinesStep
    <3> QED
      BY <3>1 DEF LineStands
  <2>2. NoBlank(g[k])
    BY <1>3, <2>1, NoBlankAppend DEF N
  <2>3. k \in 0..N
    BY <1>1
  <2> QED
    BY <2>2, <2>3
<1> HIDE DEF S
<1>4. \A k \in 0..N : k \in S
  BY <1>1, <1>2, <1>3, Along
<1>5. N \in S
  BY <1>1, <1>4
<1> QED
  BY <1>5 DEF S, N

-----------------------------------------------------------------------------
(***************************************************************************)
(* The blank line behind the headers, and the headers in front of it.      *)
(***************************************************************************)
LEMMA BlankLineFound ==
  ASSUME NEW y \in Text, NEW t \in Text, NoBlank(y \o <<EOL>>)
  PROVE  LET rest == ((y \o <<EOL>>) \o <<EOL>>) \o t IN
         /\ rest \in Text /\ BlankLine(rest) = Len(y) + 1
         /\ SubSeq(rest, 1, (Len(y) + 1) - 1) = y
         /\ SubSeq(rest, (Len(y) + 1) + 2, Len(rest)) = t
<1> DEFINE e == <<EOL>>
           x == y \o e
           xe == x \o e
           rest == xe \o t
           L == Len(y)
<1>0. e \in Text /\ Len(e) = 1 /\ e[1] = EOL
  BY WordIsText
<1> HIDE DEF e
<1>1. x \in Text /\ Len(x) = L + 1 /\ L \in Nat /\ x[L + 1] = EOL
  <2>1. /\ x \in Text /\ Len(x) = L + Len(e) /\ L \in Nat
        /\ \A i \in 1..Len(e) : x[L + i] = e[i]
    BY <1>0, ConcatText
  <2>2. 1 \in 1..Len(e)
    BY <1>0
  <2> HIDE DEF x, L
  <2> QED
    BY <1>0, <2>1, <2>2
<1>1a. NoBlank(x)
  BY DEF e
<1> HIDE DEF x, L
<1>2. xe \in Text /\ Len(xe) = L + 2 /\ xe[L + 2] = EOL /\ \A i \in 1..(L + 1) : xe[i] = x[i]
  <2>1. /\ xe \in Text /\ Len(xe) = Len(x) + Len(e)
        /\ \A i \in 1..Len(x) : xe[i] = x[i]
        /\ \A i \in 1..Len(e) : xe[Len(x) + i] = e[i]
    BY <1>0, <1>1, ConcatText
  <2>2. 1 \in 1..Len(e) /\ Len(x) + 1 = L + 2
    BY <1>0, <1>1
  <2> HIDE DEF xe
  <2> QED
    BY <1>0, <1>1, <2>1, <2>2
<1> HIDE DEF xe
<1>3. rest \in Text /\ Len(rest) = (L + 2) + Len(t) /\ Len(t) \in Nat
      /\ \A i \in 1..(L + 2) : rest[i] = xe[i]
  <2>1. /\ rest \in Text /\ Len(rest) = Len(xe) + Len(t) /\ Len(t) \in Nat
        /\ \A i \in 1..Len(xe) : rest[i] = xe[i]
    BY <1>2, ConcatText
  <2> HIDE DEF rest
  <2> QED
    BY <1>2, <2>1
<1>4. SubSeq(rest, L + 3, Len(rest)) = t
  <2>1. SubSeq(rest, Len(xe) + 1, Len(rest)) = t
    BY <1>2, BackAndFront
  <2>2. Len(xe) + 1 = L + 3
    BY <1>1, <1>2
  <2> HIDE DEF rest
  <2> QED
    BY <2>1, <2>2
<1>5. SubSeq(rest, 1, L) = y
  <2> DEFINE u == e \o t
             v == e \o u
  <2>1. u \in Text
    BY <1>0, ConcatText
  <2> HIDE DEF u
  <2>2. v \in Text
    BY <1>0, <2>1, ConcatText
  <2>3. rest = x \o u
    <3>1. Joined(Joined(x, e), t) = Joined(x, Joined(e, t))
      BY <1>0, <1>1, JoinedAssociates
    <3> QED
      BY <3>1 DEF Joined, u, xe
  <2>4. x \o u = y \o v
    <3>1. y \in Text
      OBVIOUS
    <3>2. Joined(Joined(y, e), u) = Joined(y, Joined(e, u))
      BY <1>0, <2>1, <3>1, JoinedAssociates
    <3> QED
      BY <3>2 DEF Joined, x
  <2> HIDE DEF v
  <2>5. SubSeq(y \o v, 1, Len(y)) = y
    BY <2>2, BackAndFront
  <2> QED
    BY <2>3, <2>4, <2>5 DEF L
<1> HIDE DEF rest
<1> DEFINE n == (L + 1) + Len(t)
           pairs == [i \in 1..n |-> <<rest[i], rest[i + 1]>>]
           I == {i \in 1..n : pairs[i] = <<EOL, EOL>>}
<1>6. n \in Nat /\ Len(rest) - 1 = n /\ L + 1 \in 1..n /\ (L + 1) + 1 = L + 2
  BY <1>1, <1>3
<1>7. BlankLine(rest) = Place(pairs, <<EOL, EOL>>)
  BY <1>6 DEF BlankLine
<1>8. Len(pairs) = n
  <2> HIDE DEF n
  <2> QED
    BY <1>6
<1>9. \A i \in 1..n : pairs[i] = <<rest[i], rest[i + 1]>>
  OBVIOUS
<1> HIDE DEF n, pairs
<1>10. Place(pairs, <<EOL, EOL>>) = IF I # {} THEN Min(I) ELSE 0
  BY <1>8 DEF Place, SelectInSeq
<1>11. L + 1 \in I
  <2>1. rest[L + 1] = EOL /\ rest[L + 2] = EOL
    <3>1. L + 1 \in 1..(L + 2) /\ L + 2 \in 1..(L + 2) /\ L + 1 \in 1..(L + 1)
      BY <1>1
    <3> QED
      BY <1>1, <1>2, <1>3, <3>1
  <2> QED
    BY <1>6, <1>9, <2>1
<1>12. ASSUME NEW i \in I PROVE L + 1 <= i
  <2> SUFFICES ASSUME ~(L + 1 <= i) PROVE FALSE
    OBVIOUS
  <2>0. i \in 1..n /\ pairs[i] = <<EOL, EOL>>
    OBVIOUS
  <2>1. i \in Nat /\ i \in 1..(L + 1) /\ i + 1 \in 1..(L + 1) /\ i \in 1..(L + 2) /\ i + 1 \in 1..(L + 2)
    BY <1>1, <1>6, <2>0
  <2>2. rest[i] = EOL /\ rest[i + 1] = EOL
    BY <1>9, <2>0
  <2>3. x[i] = EOL /\ x[i + 1] = EOL
    BY <1>2, <1>3, <2>1, <2>2
  <2> QED
    BY <1>1, <1>1a, <2>1, <2>3 DEF NoBlank
<1>13. Min(I) = L + 1
  <2>1. I # {} /\ I \subseteq Nat
    BY <1>6, <1>11
  <2> HIDE DEF I
  <2>2. Min(I) \in I /\ \A k \in I : Min(I) <= k
    BY <2>1, MinProperties
  <2>3. Min(I) <= L + 1 /\ L + 1 <= Min(I) /\ Min(I) \in Nat
    BY <1>11, <1>12, <2>1, <2>2
  <2> QED
    BY <1>1, <2>3
<1>14. BlankLine(rest) = L + 1
  <2>1. I # {}
    BY <1>11
  <2> HIDE DEF I
  <2> QED
    BY <1>7, <1>10, <1>13, <2>1
<1>15. (L + 1) - 1 = L /\ (L + 1) + 2 = L + 3
  BY <1>1
<1> QED
  BY <1>3, <1>4, <1>5, <1>14, <1>15 DEF rest, xe, x, e, L

LEMMA ParseHeadersAre ==
  ASSUME NEW text \in Text, \A i \in 1..Len(Lines(text)) : Contains(Lines(text)[i], ":"),
         NEW d \in Seq(Text \X Text), Len(d) = Len(Lines(text)),
         \A i \in 1..Len(d) : LineHeader(text, i) = d[i]
  PROVE  ParseHeaders(text) = d
<1> DEFINE F == Lines(text)
           N == Len(F)
           Upto(k) == SubSeq(d, 1, k)
<1>1. N \in Nat /\ N = Len(d)
  BY LenProperties
<1>2. PICK f : IsHeaders(f, text) /\ ParseHeaders(text) = f[N]
  BY HeadersExist
<1>3. \A i \in 1..N : Contains(F[i], ":") /\ LineHeader(text, i) = d[i]
  BY <1>1
<1>4. f[0] = <<>> /\ \A i \in 1..N : f[i] = Append(f[i - 1], d[i])
  BY <1>2, <1>3 DEF IsHeaders
<1>5. \A k \in 1..N : Upto(k) = Append(Upto(k - 1), d[k])
  BY <1>1, PartOfList
<1>6. Upto(0) = <<>> /\ Upto(N) = d
  BY <1>1, SubSeqEmpty, SubSeqFull
<1> HIDE DEF F, N, Upto
<1> DEFINE S == {k \in Nat : f[k] = Upto(k)}
<1>7. 0 \in S
  BY <1>4, <1>6
<1>8. \A k \in 1..N : k - 1 \in S => k \in S
  <2> TAKE k \in 1..N
  <2> HAVE k - 1 \in S
  <2>1. f[k] = Append(Upto(k - 1), d[k])
    BY <1>4
  <2>2. Upto(k) = Append(Upto(k - 1), d[k])
    BY <1>5, Zenon
  <2>3. k \in Nat
    BY <1>1
  <2> QED
    BY <2>1, <2>2, <2>3
<1> HIDE DEF S
<1>9. \A k \in 0..N : k \in S
  BY <1>1, <1>7, <1>8, Along
<1>10. N \in S
  BY <1>1, <1>9
<1> QED
  BY <1>2, <1>6, <1>10 DEF S

-----------------------------------------------------------------------------
(***************************************************************************)
(* Pieces put together.                                                    *)
(***************************************************************************)
LEMMA FlattenType ==
  ASSUME NEW s \in Seq(Text)
  PROVE  \E f : /\ f \in [0..Len(s) -> Text] /\ f[0] = <<>>
                /\ \A i \in 1..Len(s) : f[i] = f[i - 1] \o s[i]
                /\ FlattenSeq(s) = f[Len(s)] /\ FlattenSeq(s) \in Text
<1>1. PICK f : IsFlattening(f, DOMAIN Words, s)
  BY FlatteningExists DEF Text
<1>2. FlattenSeq(s) = f[Len(s)] /\ FlattenSeq(s) \in Text
  BY <1>1, FlattenSeqFlattens DEF Text
<1>3. /\ f \in [0..Len(s) -> Text] /\ f[0] = <<>>
      /\ \A i \in 1..Len(s) : f[i] = f[i - 1] \o s[i]
  BY <1>1 DEF IsFlattening, Text
<1> QED
  BY <1>2, <1>3

LEMMA FlattenIs ==
  ASSUME NEW s \in Seq(Text), NEW f \in [0..Len(s) -> Text], f[0] = <<>>,
         \A i \in 1..Len(s) : f[i] = f[i - 1] \o s[i]
  PROVE  FlattenSeq(s) = f[Len(s)]
<1>1. IsFlattening(f, DOMAIN Words, s)
  BY DEF IsFlattening, Text
<1> QED
  BY <1>1, FlattenSeqFlattens DEF Text

LEMMA FlattenConcat ==
  ASSUME NEW s \in Seq(Text), NEW t \in Seq(Text)
  PROVE  FlattenSeq(s \o t) = FlattenSeq(s) \o FlattenSeq(t)
<1> DEFINE M == Len(s)
           N == Len(t)
           c == s \o t
<1>1. /\ M \in Nat /\ N \in Nat /\ c \in Seq(Text) /\ Len(c) = M + N
      /\ \A i \in 1..(M + N) : c[i] = IF i <= M THEN s[i] ELSE t[i - M]
  BY LenProperties, ConcatProperties
<1>2. PICK f : /\ f \in [0..M -> Text] /\ f[0] = <<>>
               /\ \A i \in 1..M : f[i] = f[i - 1] \o s[i]
               /\ FlattenSeq(s) = f[M]
  BY FlattenType
<1>3. PICK g : /\ g \in [0..N -> Text] /\ g[0] = <<>>
               /\ \A i \in 1..N : g[i] = g[i - 1] \o t[i]
               /\ FlattenSeq(t) = g[N]
  BY FlattenType
<1>4. \A i \in 1..N : t[i] \in Text
  BY ElementOfSeq
<1> HIDE DEF M, N, c
<1> DEFINE h == [k \in 0..(M + N) |-> IF k <= M THEN f[k] ELSE f[M] \o g[k - M]]
<1>5. f[M] \in Text /\ \A k \in 0..(M + N) : h[k] = IF k <= M THEN f[k] ELSE f[M] \o g[k - M]
  BY <1>1, <1>2
<1>6. ASSUME NEW k \in 0..(M + N) PROVE (IF k <= M THEN f[k] ELSE f[M] \o g[k - M]) \in Text
  <2>1. CASE k <= M
    BY <1>1, <1>2, <2>1
  <2>2. CASE ~(k <= M)
    <3>1. k - M \in 0..N
      BY <1>1, <2>2
    <3>2. g[k - M] \in Text
      BY <1>3, <3>1
    <3>3. f[M] \o g[k - M] \in Text
      BY <1>5, <3>2, TextConcat
    <3> QED
      BY <2>2, <3>3
  <2> QED
    BY <2>1, <2>2
<1>7. h \in [0..(M + N) -> Text] /\ h[0] = <<>>
  <2>1. h[0] = f[0]
    BY <1>1
  <2> QED
    BY <1>2, <1>6, <2>1
<1> HIDE DEF h
<1>8. ASSUME NEW i \in 1..(M + N) PROVE h[i] = h[i - 1] \o c[i]
  <2>0. i \in 0..(M + N) /\ i - 1 \in 0..(M + N) /\ i \in Nat
    BY <1>1
  <2>1. CASE i <= M
    <3>1. i \in 1..M /\ i - 1 <= M
      BY <1>1, <2>0, <2>1
    <3>2. h[i] = f[i] /\ h[i - 1] = f[i - 1] /\ c[i] = s[i]
      BY <1>1, <1>5, <2>0, <2>1, <3>1
    <3> QED
      BY <1>2, <3>1, <3>2
  <2>2. CASE i = M + 1
    <3>1. ~(i <= M) /\ i - 1 <= M /\ i - 1 = M /\ i - M = 1 /\ 1 \in 1..N
      BY <1>1, <2>0, <2>2
    <3>2a. h[i] = f[M] \o g[i - M] /\ h[i - 1] = f[i - 1] /\ c[i] = t[i - M]
      BY <1>1, <1>5, <2>0, <3>1, Zenon
    <3>2. h[i] = f[M] \o g[1] /\ h[i - 1] = f[M] /\ c[i] = t[1]
      BY <3>1, <3>2a, Zenon
    <3>3. g[1] = g[1 - 1] \o t[1] /\ t[1] \in Text
      BY <1>3, <1>4, <3>1
    <3>3a. 1 - 1 = 0 /\ g[0] = <<>>
      BY <1>3
    <3>4. g[1] = <<>> \o t[1]
      BY <3>3, <3>3a
    <3>5. g[1] = t[1]
      BY <3>3, <3>4, ConcatEmptySeq DEF Text
    <3> QED
      BY <3>2, <3>5
  <2>3. CASE i > M + 1
    <3>1. /\ ~(i <= M) /\ ~(i - 1 <= M) /\ (i - 1) - M = (i - M) - 1
          /\ i - M \in 1..N /\ (i - M) - 1 \in 0..N
      BY <1>1, <2>0, <2>3
    <3> DEFINE j == i - M
    <3>2. h[i] = f[M] \o g[j] /\ h[i - 1] = f[M] \o g[j - 1] /\ c[i] = t[j]
      BY <1>1, <1>5, <2>0, <3>1
    <3>3. j \in 1..N /\ j - 1 \in 0..N
      BY <3>1
    <3> HIDE DEF j
    <3>4. g[j] = g[j - 1] \o t[j] /\ g[j - 1] \in Text /\ t[j] \in Text
      BY <1>3, <1>4, <3>3
    <3>5. f[M] \o (g[j - 1] \o t[j]) = (f[M] \o g[j - 1]) \o t[j]
      BY <1>5, <3>4, Regrouping
    <3> QED
      BY <3>2, <3>4, <3>5
  <2> QED
    BY <1>1, <2>0, <2>1, <2>2, <2>3
<1>9. FlattenSeq(c) = h[M + N]
  BY <1>1, <1>7, <1>8, FlattenIs
<1>10. h[M + N] = f[M] \o g[N]
  <2>1. M + N \in 0..(M + N) /\ (M + N <= M => N = 0) /\ (M + N) - M = N
    BY <1>1
  <2>2. CASE N = 0
    <3>1. M + N = M /\ M + N <= M
      BY <1>1, <2>2
    <3>2. h[M + N] = f[M] /\ g[N] = <<>>
      BY <1>3, <1>5, <2>1, <2>2, <3>1
    <3>3. f[M] \o <<>> = f[M]
      BY <1>5, ConcatEmptySeq DEF Text
    <3> QED
      BY <3>2, <3>3
  <2>3. CASE N # 0
    BY <1>5, <2>1, <2>3
  <2> QED
    BY <2>2, <2>3
<1> QED
  BY <1>2, <1>3, <1>9, <1>10 DEF c

LEMMA FlattenOne == ASSUME NEW t \in Text PROVE FlattenSeq(<<t>>) = t
<1>1. <<t>> \in Seq(Text) /\ Len(<<t>>) = 1
  BY OnePiece
<1>2. PICK f : /\ f[0] = <<>> /\ \A i \in 1..Len(<<t>>) : f[i] = f[i - 1] \o <<t>>[i]
               /\ FlattenSeq(<<t>>) = f[Len(<<t>>)]
  BY <1>1, FlattenType
<1>3. f[1] = f[0] \o t
  <2>1. 1 \in 1..Len(<<t>>)
    BY <1>1
  <2>2. f[1] = f[1 - 1] \o <<t>>[1]
    BY <1>2, <2>1, Zenon
  <2>3. 1 - 1 = 0 /\ <<t>>[1] = t
    OBVIOUS
  <2> QED
    BY <2>2, <2>3
<1>4. <<>> \o t = t
  BY ConcatEmptySeq DEF Text
<1>5. f[0] = <<>> /\ FlattenSeq(<<t>>) = f[1]
  BY <1>1, <1>2
<1> QED
  BY <1>3, <1>4, <1>5

LEMMA FlattenNone == FlattenSeq(<<>>) = <<>>
<1>1. <<>> \in Seq(Text) /\ Len(<<>>) = 0
  BY EmptySeq
<1>2. PICK f : f[0] = <<>> /\ FlattenSeq(<<>>) = f[Len(<<>>)]
  BY <1>1, FlattenType
<1> QED
  BY <1>1, <1>2

LEMMA FlattenLines ==
  ASSUME NEW l \in Seq(Text), NEW sep \in DOMAIN Words
  PROVE  /\ [i \in 1..Len(l) |-> l[i] \o <<sep>>] \in Seq(Text)
         /\ \E g : IsLines(g, l, sep) /\ FlattenSeq([i \in 1..Len(l) |-> l[i] \o <<sep>>]) = g[Len(l)]
<1> DEFINE n == Len(l)
           Line(i) == l[i] \o <<sep>>
           p == [i \in 1..n |-> Line(i)]
<1>1. n \in Nat
  BY LenProperties
<1>2. ASSUME NEW i \in 1..n PROVE Line(i) \in Text
  <2>1. l[i] \in Text /\ <<sep>> \in Text
    BY ElementOfSeq, OneWord
  <2> QED
    BY <2>1, TextConcat
<1> HIDE DEF n, Line
<1>3. p \in Seq(Text) /\ Len(p) = n /\ \A i \in 1..n : p[i] = Line(i)
  BY <1>1, <1>2
<1>4. PICK g : /\ g \in [0..n -> Text] /\ g[0] = <<>>
               /\ \A i \in 1..n : g[i] = g[i - 1] \o p[i]
               /\ FlattenSeq(p) = g[n]
  BY <1>3, FlattenType
<1>5. IsLines(g, l, sep)
  BY <1>3, <1>4 DEF IsLines, n, Line
<1> QED
  BY <1>3, <1>4, <1>5 DEF n, Line

\* What is printed is what the pieces are together.
LEMMA SerializedText ==
  ASSUME NEW r, Pieces(r) \in Seq(Text), Serialize(r).ok
  PROVE  Serialize(r).text = FlattenSeq(Pieces(r))
<1> DEFINE P == Pieces(r)
           N == Len(P)
<1>1. N \in Nat
  BY LenProperties
<1>2. PICK f : /\ f \in [0..N -> Printed]
               /\ f[0] = [ok |-> TRUE, off |-> 0, text |-> <<>>]
               /\ \A i \in 1..N : f[i] = PrintPiece(P[i], f[i - 1])
               /\ Serialize(r) = f[N]
  BY PrintedPieces
<1>3. PICK g : /\ g \in [0..N -> Text] /\ g[0] = <<>>
               /\ \A i \in 1..N : g[i] = g[i - 1] \o P[i]
               /\ FlattenSeq(P) = g[N] /\ FlattenSeq(P) \in Text
  BY FlattenType
<1>4. \A i \in 1..N : P[i] \in Text
  BY ElementOfSeq
<1> HIDE DEF P, N
<1> DEFINE S == {k \in 0..N : f[k].ok => f[k].text = g[k]}
<1>5. 0 \in S
  BY <1>1, <1>2, <1>3
<1>6. ASSUME NEW k \in 1..N, k - 1 \in S PROVE k \in S
  <2>1. k \in 0..N /\ k - 1 \in 0..N
    BY <1>1
  <2> DEFINE before == f[k - 1]
             p == P[k]
  <2>2. before \in Printed /\ p \in Text /\ f[k] = PrintPiece(p, before) /\ g[k] = g[k - 1] \o p
    BY <1>2, <1>3, <1>4, <2>1
  <2>3. before.ok => before.text = g[k - 1]
    BY <1>6
  <2> HIDE DEF before, p
  <2>4. PrintPiece(p, before).ok => before.ok /\ PrintPiece(p, before).text = before.text \o p
    <3> SUFFICES ASSUME PrintPiece(p, before).ok
                 PROVE  before.ok /\ PrintPiece(p, before).text = before.text \o p
      OBVIOUS
    <3>1. before.ok /\ HasRoom(Width(p), before.off)
      BY <2>2, PrintType DEF HasRoom
    <3>2. PrintPiece(p, before) = [ok |-> TRUE, off |-> before.off + Width(p), text |-> before.text \o p]
      BY <3>1, Zenon DEF PrintPiece
    <3> QED
      BY <3>1, <3>2
  <2>5. f[k].ok => f[k].text = g[k]
    BY <2>2, <2>3, <2>4
  <2> QED
    BY <2>1, <2>5
<1> HIDE DEF S
<1>7. \A k \in 0..N : k \in S
  BY <1>1, <1>5, <1>6, Along
<1>8. N \in S
  BY <1>1, <1>7
<1> QED
  BY <1>2, <1>3, <1>8 DEF S, P

-----------------------------------------------------------------------------
(***************************************************************************)
(* The first line.                                                         *)
(***************************************************************************)
LineText(m, u, v) == (((m \o <<" ">>) \o u) \o <<" ">>) \o v

LEMMA CleanConcat ==
  ASSUME NEW s \in Text, NEW t \in Text, NEW words, Without(s, words), Without(t, words)
  PROVE  Without(s \o t, words)
BY ContainsConcat DEF Without

LEMMA CleanOne == ASSUME NEW x, NEW words, x \notin words PROVE Without(<<x>>, words)
BY ContainsOne DEF Without

LEMMA FlattenClean ==
  ASSUME NEW s \in Seq(Text), NEW words, \A i \in 1..Len(s) : Without(s[i], words)
  PROVE  Without(FlattenSeq(s), words)
<1> DEFINE N == Len(s)
<1>1. N \in Nat /\ \A i \in 1..N : s[i] \in Text /\ Without(s[i], words)
  BY LenProperties, ElementOfSeq
<1>2. PICK f : /\ f \in [0..N -> Text] /\ f[0] = <<>>
               /\ \A i \in 1..N : f[i] = f[i - 1] \o s[i]
               /\ FlattenSeq(s) = f[N]
  BY FlattenType
<1> HIDE DEF N
<1> DEFINE S == {k \in 0..N : Without(f[k], words)}
<1>3. 0 \in S
  <2>1. Without(<<>>, words)
    BY ContainsNone DEF Without
  <2> QED
    BY <1>1, <1>2, <2>1
<1>4. ASSUME NEW k \in 1..N, k - 1 \in S PROVE k \in S
  <2>1. k \in 0..N /\ k - 1 \in 0..N
    BY <1>1
  <2>2. f[k - 1] \in Text /\ s[k] \in Text /\ f[k] = f[k - 1] \o s[k] /\ Without(s[k], words)
    BY <1>1, <1>2, <2>1
  <2>3. Without(f[k - 1], words)
    BY <1>4
  <2>4. Without(f[k - 1] \o s[k], words)
    BY <2>2, <2>3, CleanConcat
  <2> QED
    BY <2>1, <2>2, <2>4
<1> HIDE DEF S
<1>5. \A k \in 0..N : k \in S
  BY <1>1, <1>3, <1>4, Along
<1>6. N \in S
  BY <1>1, <1>5
<1> QED
  BY <1>2, <1>6 DEF S

LEMMA ThreeFields ==
  ASSUME NEW m \in Text, NEW u \in Text, NEW v \in Text
  PROVE  Append(<<>>, m) = <<m>> /\ Append(<<m>>, u) = <<m, u>> /\ Append(<<m, u>>, v) = <<m, u, v>>
<1>1. Append(<<>>, m) = <<m>>
  OBVIOUS
<1>2. Append(<<m>>, u) = <<m, u>>
  <2> DEFINE b == <<m>>
             c == Append(b, u)
             d == <<m, u>>
  <2>1. b \in Seq(Text) /\ Len(b) = 1 /\ b[1] = m
    OBVIOUS
  <2>2. d \in Seq(Text) /\ Len(d) = 2 /\ d[1] = m /\ d[2] = u
    OBVIOUS
  <2> HIDE DEF b
  <2>3. c \in Seq(Text) /\ Len(c) = 2 /\ c[1] = m /\ c[2] = u
    <3>0. b \in Seq(Text)
      BY <2>1
    <3>1. c \in Seq(Text) /\ Len(c) = Len(b) + 1 /\ c[Len(b) + 1] = u /\ \A i \in 1..Len(b) : c[i] = b[i]
      BY <3>0
    <3> HIDE DEF c
    <3> QED
      BY <2>1, <3>1
  <2> HIDE DEF c, d
  <2>4. c = d
    BY <2>2, <2>3, SeqEqual
  <2> QED
    BY <2>4 DEF b, c, d
<1>3. Append(<<m, u>>, v) = <<m, u, v>>
  <2> DEFINE b == <<m, u>>
             c == Append(b, v)
             d == <<m, u, v>>
  <2>1. b \in Seq(Text) /\ Len(b) = 2 /\ b[1] = m /\ b[2] = u
    OBVIOUS
  <2>2. d \in Seq(Text) /\ Len(d) = 3 /\ d[1] = m /\ d[2] = u /\ d[3] = v
    OBVIOUS
  <2> HIDE DEF b
  <2>3. c \in Seq(Text) /\ Len(c) = 3 /\ c[1] = m /\ c[2] = u /\ c[3] = v
    <3>0. b \in Seq(Text)
      BY <2>1
    <3>1. c \in Seq(Text) /\ Len(c) = Len(b) + 1 /\ c[Len(b) + 1] = v /\ \A i \in 1..Len(b) : c[i] = b[i]
      BY <3>0
    <3> HIDE DEF c
    <3> QED
      BY <2>1, <3>1
  <2> HIDE DEF c, d
  <2>4. c = d
    BY <2>2, <2>3, SeqEqual
  <2> QED
    BY <2>4 DEF b, c, d
<1> QED
  BY <1>1, <1>2, <1>3

LEMMA WordAdded ==
  ASSUME NEW s \in Text, NEW w \in DOMAIN Words
  PROVE  /\ s \o <<w>> \in Text /\ Len(s \o <<w>>) = Len(s) + 1 /\ Len(s) \in Nat
         /\ (s \o <<w>>)[Len(s \o <<w>>)] = w
<1> DEFINE e == <<w>>
           c == s \o e
<1>1. e \in Text /\ Len(e) = 1 /\ e[1] = w
  BY OneWord
<1>2. c \in Text /\ Len(c) = Len(s) + Len(e) /\ Len(s) \in Nat /\ \A i \in 1..Len(e) : c[Len(s) + i] = e[i]
  BY <1>1, ConcatText
<1> HIDE DEF e, c
<1>3. Len(c) = Len(s) + 1 /\ 1 \in 1..Len(e)
  BY <1>1, <1>2
<1>4. c[Len(s) + 1] = w
  BY <1>1, <1>2, <1>3
<1> QED
  BY <1>2, <1>3, <1>4 DEF c, e

LEMMA FirstStays ==
  ASSUME NEW s \in Text, NEW t \in Text, s # <<>>
  PROVE  (s \o t)[1] = s[1] /\ s \o t # <<>>
<1>1. Len(s) \in Nat /\ Len(s) # 0
  BY TextProperties
<1>2. 1 \in 1..Len(s)
  BY <1>1
<1>3. (s \o t)[1] = s[1]
  BY <1>2, ConcatText
<1>4. Len(s \o t) = Len(s) + Len(t) /\ Len(t) \in Nat
  BY ConcatText
<1>5. s \o t # <<>>
  BY <1>1, <1>4, EmptySeq
<1> QED
  BY <1>3, <1>5

LEMMA LineWords ==
  ASSUME NEW m \in Text, NEW u \in Text, NEW v \in Text, CleanWord(m), CleanWord(u), CleanWord(v)
  PROVE  /\ LineText(m, u, v) \in Text /\ Without(LineText(m, u, v), {EOL})
         /\ Fields(LineText(m, u, v), " ") = <<m, u, v>>
         /\ LineText(m, u, v)[1] # " "
<1> DEFINE e == <<" ">>
           a == m \o e
           b == a \o u
           c == b \o e
           d == c \o v
<1>0. e \in Text /\ " " \in DOMAIN Words
  BY WordIsText, ParserLibraryAssumption
<1>1. Without(e, {EOL}) /\ Without(m, {EOL}) /\ Without(u, {EOL}) /\ Without(v, {EOL})
  BY CleanOne DEF EOL, CleanWord, Without
<1>2. /\ m # <<>> /\ ~Contains(m, " ")
      /\ u # <<>> /\ ~Contains(u, " ")
      /\ v # <<>> /\ ~Contains(v, " ")
  BY DEF CleanWord, Without
<1>3. a \in Text /\ Without(a, {EOL}) /\ a[Len(a)] = " "
  BY <1>0, <1>1, WordAdded, CleanConcat
<1> HIDE DEF e
<1>4. m[1] # " " /\ a[1] = m[1] /\ a # <<>>
  <2>1. Len(m) \in Nat /\ Len(m) # 0
    BY <1>2, TextProperties
  <2>2. 1 \in 1..Len(m)
    BY <2>1
  <2>3. m[1] # " "
    BY <1>2, <2>2 DEF Contains
  <2> QED
    BY <1>0, <1>2, <2>3, FirstStays
<1>5. b \in Text /\ Without(b, {EOL}) /\ b[1] = a[1] /\ b # <<>>
  <2> HIDE DEF a
  <2> QED
    BY <1>1, <1>3, <1>4, FirstStays, ConcatText, CleanConcat
<1>6. c \in Text /\ Without(c, {EOL}) /\ c[1] = b[1] /\ c # <<>> /\ c[Len(c)] = " "
  <2> HIDE DEF b
  <2>1. c \in Text /\ Without(c, {EOL})
    BY <1>0, <1>1, <1>5, ConcatText, CleanConcat
  <2>2. c[1] = b[1] /\ c # <<>>
    BY <1>0, <1>5, FirstStays
  <2>3. c[Len(c)] = " "
    BY <1>0, <1>5, WordAdded DEF e
  <2> QED
    BY <2>1, <2>2, <2>3
<1>7. d \in Text /\ Without(d, {EOL}) /\ d[1] = c[1]
  <2> HIDE DEF c
  <2> QED
    BY <1>1, <1>6, FirstStays, ConcatText, CleanConcat
<1>8. Fields(m, " ") = <<m>>
  <2> DEFINE s == <<>>
  <2>1. s \in Text /\ s = <<>> /\ Fields(s, " ") = <<>>
    BY FieldsNone, WidthEmpty
  <2> HIDE DEF s
  <2>2. Fields(s \o m, " ") = Append(<<>>, m)
    <3>1. Fields(s \o m, " ") = Append(Fields(s, " "), m)
      BY <1>2, <2>1, FieldsAppend
    <3> QED
      BY <2>1, <3>1
  <2>3. <<>> \o m = m
    BY ConcatEmptySeq DEF Text
  <2> QED
    BY <2>1, <2>2, <2>3, ThreeFields, Zenon
<1>9. Fields(a, " ") = <<m>>
  BY <1>0, <1>8, FieldsEnd DEF e
<1>10. Fields(b, " ") = <<m, u>>
  <2> HIDE DEF a
  <2>1. Fields(b, " ") = Append(Fields(a, " "), u)
    BY <1>2, <1>3, FieldsAppend
  <2> QED
    BY <1>9, <2>1, ThreeFields, Zenon
<1>11. Fields(c, " ") = <<m, u>>
  <2> HIDE DEF b
  <2> QED
    BY <1>0, <1>5, <1>10, FieldsEnd DEF e
<1>12. Fields(d, " ") = <<m, u, v>>
  <2> HIDE DEF c
  <2>1. Fields(d, " ") = Append(Fields(c, " "), v)
    BY <1>2, <1>6, FieldsAppend
  <2> QED
    <3>1. Append(<<m, u>>, v) = <<m, u, v>>
      BY ThreeFields
    <3> QED
      BY <1>11, <2>1, <3>1, Zenon
<1>13. d = LineText(m, u, v)
  BY DEF LineText, e
<1> HIDE DEF d, c, b, a
<1> QED
  BY <1>4, <1>5, <1>6, <1>7, <1>12, <1>13, Zenon

LEMMA ParseLineOfWords ==
  ASSUME NEW m \in Text, NEW u \in Text, NEW v \in Text, CleanWord(m), CleanWord(u), CleanWord(v)
  PROVE  ParseLine(LineText(m, u, v)) = FromLine(m, u, v)
<1> DEFINE line == LineText(m, u, v)
           f == <<m, u, v>>
<1>1. Fields(line, " ") = f /\ line[1] # " "
  BY LineWords
<1>2. f # <<>> /\ ~(Len(f) < 3) /\ f[1] = m /\ f[2] = u /\ f[3] = v
  OBVIOUS
<1> HIDE DEF line, f
<1>3. ParseLine(line) = [status |-> "ok", lost |-> 0,
                         req |-> [Fresh EXCEPT !.method = f[1], !.url = f[2], !.version = f[3]]]
  BY <1>1, <1>2, Zenon DEF ParseLine
<1> QED
  BY <1>2, <1>3 DEF line, FromLine

-----------------------------------------------------------------------------
(***************************************************************************)
(* The parameters, behind the url.                                         *)
(***************************************************************************)
ParamText(p) == (p[1] \o <<"=">>) \o p[2]

ParamPieces(r) == [i \in 1..Len(r.params) |-> ParamPiece(r, i)]
ParamTexts(r) == [i \in 1..Len(r.params) |-> ParamText(r.params[i])]

LEMMA ParamTextIs ==
  ASSUME NEW p \in Text \X Text, CleanParam(p)
  PROVE  /\ ParamText(p) \in Text /\ Field(ParamText(p), "&") /\ Without(ParamText(p), {" ", EOL})
         /\ Contains(ParamText(p), "=") /\ Cut(ParamText(p), "=") = p
<1> DEFINE k == p[1]
           v == p[2]
           e == <<"=">>
           ke == k \o e
           words == {"&", " ", EOL}
<1>1. k \in Text /\ v \in Text /\ p = <<k, v>>
  OBVIOUS
<1>2. Without(k, words) /\ Without(v, words) /\ ~Contains(k, "=")
  BY DEF CleanParam, Without
<1>3. e \in Text /\ "=" \in DOMAIN Words
  BY WordIsText, ParserLibraryAssumption
<1>4. Without(e, words)
  <2>1. "=" \notin words
    BY DEF EOL
  <2> QED
    BY <2>1, CleanOne
<1> HIDE DEF words
<1>5. ke \in Text /\ Without(ke, words) /\ Contains(ke, "=")
  <2>1. Contains(e, "=")
    BY ContainsOne
  <2> HIDE DEF e, k
  <2> QED
    BY <1>1, <1>2, <1>3, <1>4, <2>1, ConcatText, CleanConcat, ContainsConcat
<1>6. ke \o v \in Text /\ Without(ke \o v, words) /\ Contains(ke \o v, "=")
  <2> HIDE DEF ke, k, v
  <2> QED
    BY <1>1, <1>2, <1>5, ConcatText, CleanConcat, ContainsConcat
<1>7. Cut(ke \o v, "=") = <<k, v>>
  <2> HIDE DEF k, v
  <2> QED
    BY <1>1, <1>2, <1>3, PlaceBehind
<1>8. ke \o v # <<>>
  BY <1>6, ContainsNone
<1>9. ParamText(p) = ke \o v
  BY DEF ParamText
<1> HIDE DEF ke, k, v
<1> QED
  BY <1>1, <1>6, <1>7, <1>8, <1>9 DEF Field, Without, words

LEMMA ParamLists ==
  ASSUME NEW r \in Request, \A i \in 1..Len(r.params) : CleanParam(r.params[i])
  PROVE  /\ Len(r.params) \in Nat
         /\ ParamPieces(r) \in Seq(Text) /\ Len(ParamPieces(r)) = Len(r.params)
         /\ ParamTexts(r) \in Seq(Text) /\ Len(ParamTexts(r)) = Len(r.params)
         /\ \A i \in 1..Len(r.params) : /\ r.params[i] \in Text \X Text
                                        /\ ParamTexts(r)[i] = ParamText(r.params[i])
                                        /\ ParamPieces(r)[i] = ParamPiece(r, i)
<1> DEFINE n == Len(r.params)
<1>1. r.params \in Seq(Text \X Text)
  BY DEF Request
<1>2. n \in Nat /\ \A i \in 1..n : r.params[i] \in Text \X Text
  BY <1>1, LenProperties, ElementOfSeq
<1>3. \A i \in 1..n : ParamText(r.params[i]) \in Text
  BY <1>2, ParamTextIs
<1>4. \A i \in 1..n : ParamPiece(r, i) \in Text
  BY ParamPieceType
<1>5. /\ ParamPieces(r) = [i \in 1..n |-> ParamPiece(r, i)]
      /\ ParamTexts(r) = [i \in 1..n |-> ParamText(r.params[i])]
  BY DEF ParamPieces, ParamTexts
<1> HIDE DEF n
<1>6. ParamPieces(r) \in Seq(Text) /\ Len(ParamPieces(r)) = n
  BY <1>2, <1>4, <1>5
<1>7. ParamTexts(r) \in Seq(Text) /\ Len(ParamTexts(r)) = n
  BY <1>2, <1>3, <1>5
<1>8. \A i \in 1..n : ParamTexts(r)[i] = ParamText(r.params[i]) /\ ParamPieces(r)[i] = ParamPiece(r, i)
  BY <1>5
<1> QED
  BY <1>2, <1>6, <1>7, <1>8 DEF n

LEMMA ParamPieceIs ==
  ASSUME NEW r \in Request, NEW i \in 1..Len(r.params)
  PROVE  /\ i < Len(r.params) => ParamPiece(r, i) = ParamText(r.params[i]) \o <<"&">>
         /\ ~(i < Len(r.params)) => ParamPiece(r, i) = ParamText(r.params[i])
<1> DEFINE end == IF i < Len(r.params) THEN <<"&">> ELSE <<>>
           t == ParamText(r.params[i])
<1>1. ParamPiece(r, i) = t \o end
  BY DEF ParamPiece, ParamText
<1>2. t \in Text
  <2>1. r.params \in Seq(Text \X Text)
    BY DEF Request
  <2>2. r.params[i][1] \in Text /\ r.params[i][2] \in Text
    BY <2>1, PairsOf
  <2>3. <<"=">> \in Text
    BY WordIsText
  <2> DEFINE k == r.params[i][1]
             v == r.params[i][2]
             ke == k \o <<"=">>
  <2>4. ke \in Text
    BY <2>2, <2>3, TextConcat
  <2>5. t = ke \o v
    BY DEF ParamText
  <2> HIDE DEF ke, k, v, t
  <2> QED
    BY <2>2, <2>4, <2>5, TextConcat DEF v
<1>3. t \o <<>> = t
  <2> HIDE DEF t
  <2> QED
    BY <1>2, ConcatEmptySeq DEF Text
<1> HIDE DEF t
<1>4. i < Len(r.params) => end = <<"&">>
  OBVIOUS
<1>5. ~(i < Len(r.params)) => end = <<>>
  OBVIOUS
<1> HIDE DEF end
<1> QED
  BY <1>1, <1>3, <1>4, <1>5 DEF t

LEMMA QueryFields ==
  ASSUME NEW r \in Request, r.params # <<>>, \A i \in 1..Len(r.params) : CleanParam(r.params[i])
  PROVE  /\ FlattenSeq(ParamPieces(r)) \in Text
         /\ Without(FlattenSeq(ParamPieces(r)), {" ", EOL})
         /\ Fields(FlattenSeq(ParamPieces(r)), "&") = ParamTexts(r)
<1> DEFINE l == ParamTexts(r)
           p == ParamPieces(r)
           n == Len(r.params)
<1>1. /\ n \in Nat /\ p \in Seq(Text) /\ Len(p) = n /\ l \in Seq(Text) /\ Len(l) = n
      /\ \A i \in 1..n : /\ r.params[i] \in Text \X Text
                         /\ l[i] = ParamText(r.params[i])
                         /\ p[i] = ParamPiece(r, i)
  BY ParamLists
<1>2. n # 0
  <2>1. r.params \in Seq(Text \X Text)
    BY DEF Request
  <2> QED
    BY <2>1, EmptySeq
<1>3. \A i \in 1..n : l[i] \in Text /\ Field(l[i], "&") /\ Without(l[i], {" ", EOL})
  <2> HIDE DEF l, p
  <2> QED
    BY <1>1, ParamTextIs
<1>4. \A i \in 1..n : (i < n => p[i] = l[i] \o <<"&">>) /\ (~(i < n) => p[i] = l[i])
  <2> HIDE DEF l, p
  <2> QED
    BY <1>1, ParamPieceIs
<1> HIDE DEF l, p, n
<1>5. "&" \in DOMAIN Words /\ <<"&">> \in Text
  BY ParserLibraryAssumption, WordIsText
<1>6. PICK g : IsLines(g, l, "&")
  BY <1>1, <1>5, FlattenLines
<1>7. Fields(g[n - 1] \o l[n], "&") = l
  BY <1>1, <1>2, <1>3, <1>5, <1>6, FieldsOfLines
<1>8. /\ g \in [0..n -> Text] /\ g[0] = <<>>
      /\ \A i \in 1..n : g[i] = g[i - 1] \o (l[i] \o <<"&">>)
  BY <1>1, <1>6 DEF IsLines
<1> DEFINE f == [k \in 0..n |-> IF k < n THEN g[k] ELSE g[n - 1] \o l[n]]
<1>9. g[n - 1] \o l[n] \in Text
  <2>1. n - 1 \in 0..n /\ n \in 1..n
    BY <1>1, <1>2
  <2>2. g[n - 1] \in Text /\ l[n] \in Text
    BY <1>3, <1>8, <2>1
  <2> QED
    BY <2>2, TextConcat
<1>10. \A k \in 0..n : f[k] = IF k < n THEN g[k] ELSE g[n - 1] \o l[n]
  OBVIOUS
<1>11. f \in [0..n -> Text]
  BY <1>8, <1>9
<1> HIDE DEF f
<1>12. f[0] = <<>> /\ f[n] = g[n - 1] \o l[n]
  <2>1. 0 \in 0..n /\ 0 < n /\ n \in 0..n /\ ~(n < n)
    BY <1>1, <1>2
  <2> QED
    BY <1>8, <1>10, <2>1
<1>13. ASSUME NEW i \in 1..n PROVE f[i] = f[i - 1] \o p[i]
  <2>1. i \in 0..n /\ i - 1 \in 0..n /\ i - 1 < n
    BY <1>1
  <2>2. f[i - 1] = g[i - 1]
    BY <1>10, <2>1
  <2>3. CASE i < n
    <3>1. f[i] = g[i] /\ p[i] = l[i] \o <<"&">>
      BY <1>4, <1>10, <2>1, <2>3
    <3> QED
      BY <1>8, <2>2, <3>1
  <2>4. CASE ~(i < n)
    <3>1. i = n
      BY <1>1, <2>4
    <3>2. p[i] = l[n]
      BY <1>4, <2>4, <3>1
    <3> QED
      BY <1>12, <2>2, <3>1, <3>2
  <2> QED
    BY <2>3, <2>4
<1>14. FlattenSeq(p) = f[n]
  <2>1. p \in Seq(Text) /\ f \in [0..Len(p) -> Text] /\ f[0] = <<>> /\ Len(p) = n
    BY <1>1, <1>11, <1>12
  <2>2. \A i \in 1..Len(p) : f[i] = f[i - 1] \o p[i]
    BY <1>13, <2>1, Zenon
  <2>3. FlattenSeq(p) = f[Len(p)]
    BY <2>1, <2>2, FlattenIs, Zenon
  <2> QED
    BY <2>1, <2>3, Zenon
<1>15. \A i \in 1..Len(p) : Without(p[i], {" ", EOL})
  <2> SUFFICES ASSUME NEW i \in 1..n PROVE Without(p[i], {" ", EOL})
    BY <1>1
  <2>1. Without(<<"&">>, {" ", EOL})
    <3>1. "&" \notin {" ", EOL}
      BY DEF EOL
    <3> QED
      BY <3>1, CleanOne
  <2>2. Without(l[i] \o <<"&">>, {" ", EOL})
    BY <1>3, <1>5, <2>1, CleanConcat
  <2> QED
    BY <1>3, <1>4, <2>2
<1>16. Without(FlattenSeq(p), {" ", EOL})
  BY <1>1, <1>15, FlattenClean
<1> QED
  BY <1>7, <1>9, <1>12, <1>14, <1>16 DEF p, l

LEMMA MergedUrl ==
  ASSUME NEW r \in Request, r.params # <<>>, \A i \in 1..Len(r.params) : CleanParam(r.params[i]),
         NEW url \in Text, CleanWord(url), ~Contains(url, "?")
  PROVE  LET merged == (url \o <<"?">>) \o FlattenSeq(ParamPieces(r)) IN
         merged \in Text /\ CleanUrl(merged) /\ ParseParams(merged) = r.params
<1> DEFINE q == FlattenSeq(ParamPieces(r))
           a == url \o <<"?">>
           merged == a \o q
           l == ParamTexts(r)
           n == Len(r.params)
<1>1. q \in Text /\ Without(q, {" ", EOL}) /\ Fields(q, "&") = l
  BY QueryFields
<1> HIDE DEF q
<1>2. <<"?">> \in Text /\ "?" \in DOMAIN Words /\ Without(<<"?">>, {" ", EOL}) /\ Contains(<<"?">>, "?")
  <2>1. "?" \notin {" ", EOL}
    BY DEF EOL
  <2>2. Without(<<"?">>, {" ", EOL})
    BY <2>1, CleanOne
  <2> QED
    BY <2>2, WordIsText, ParserLibraryAssumption, ContainsOne
<1>3. a \in Text /\ Without(a, {" ", EOL}) /\ Contains(a, "?") /\ a # <<>>
  BY <1>2, ConcatText, CleanConcat, ContainsConcat, FirstStays DEF CleanWord
<1>4. Cut(merged, "?") = <<url, q>>
  BY <1>1, <1>2, PlaceBehind
<1> HIDE DEF a
<1>5. merged \in Text /\ CleanWord(merged) /\ Contains(merged, "?")
  BY <1>1, <1>3, ConcatText, CleanConcat, ContainsConcat, FirstStays DEF CleanWord
<1> HIDE DEF merged
<1>6. ParamFields(merged) = l
  <2>1. ParamFields(merged) = Fields(Cut(merged, "?")[2], "&")
    BY <1>5 DEF ParamFields
  <2>2. Cut(merged, "?")[2] = q
    BY <1>4
  <2> QED
    BY <1>1, <2>1, <2>2
<1>7. /\ n \in Nat /\ l \in Seq(Text) /\ Len(l) = n
      /\ \A i \in 1..n : /\ r.params[i] \in Text \X Text
                         /\ l[i] = ParamText(r.params[i])
  BY ParamLists
<1> HIDE DEF l, n
<1>8. \A i \in 1..n : Contains(l[i], "=") /\ Cut(l[i], "=") = r.params[i]
  BY <1>7, ParamTextIs DEF n
<1>9. CleanUrl(merged)
  BY <1>5, <1>6, <1>7, <1>8 DEF CleanUrl
<1>10. ParseParams(merged) = [i \in 1..n |-> Cut(l[i], "=")]
  BY <1>6, <1>7 DEF ParseParams
<1>11. [i \in 1..n |-> Cut(l[i], "=")] = [i \in 1..n |-> r.params[i]]
  BY <1>8
<1>12. r.params = [i \in 1..n |-> r.params[i]]
  BY DEF Request, n
<1> QED
  BY <1>5, <1>9, <1>10, <1>11, <1>12 DEF merged, a, q

-----------------------------------------------------------------------------
(***************************************************************************)
(* The line of a request is the one that describes it.                     *)
(***************************************************************************)
DescribesLine(r, d) ==
  /\ d.method \in Methods \cap Text /\ CleanWord(d.method)
  /\ d.url \in Text /\ CleanUrl(d.url)
  /\ d.version \in Text /\ CleanWord(d.version)
  /\ ParseParams(d.url) = d.params
  /\ FlattenSeq(LinePieces(r)) = LineText(d.method, d.url, d.version) \o <<EOL>>

LEMMA DefaultsClean ==
  /\ CleanUrl(<<"/">>) /\ CleanWord(<<"HTTP/1.1">>) /\ CleanWord(<<"GET">>)
<1>1. "/" \notin {" ", EOL} /\ "HTTP/1.1" \notin {" ", EOL} /\ "GET" \notin {" ", EOL}
  BY DEF EOL
<1>2. /\ Without(<<"/">>, {" ", EOL}) /\ Without(<<"HTTP/1.1">>, {" ", EOL})
      /\ Without(<<"GET">>, {" ", EOL})
  BY <1>1, CleanOne
<1>3. \A w : <<w>> # <<>>
  OBVIOUS
<1>4. ~Contains(<<"/">>, "?")
  BY ContainsOne
<1>5. ParamFields(<<"/">>) = <<>>
  BY <1>4 DEF ParamFields
<1>6. Len(<<>>) = 0
  OBVIOUS
<1>7. \A i \in 1..Len(ParamFields(<<"/">>)) : Contains(ParamFields(<<"/">>)[i], "=")
  BY <1>5, <1>6
<1> QED
  BY <1>2, <1>3, <1>7 DEF CleanUrl, CleanWord

LEMMA PlainLine ==
  ASSUME NEW m \in Text, NEW u \in Text, NEW v \in Text
  PROVE  /\ LineText(m, u, v) \in Text
         /\ FlattenSeq(<< LineText(m, u, v) \o <<EOL>> >>) = LineText(m, u, v) \o <<EOL>>
<1> DEFINE e == <<" ">>
           a == m \o e
           b == a \o u
           c == b \o e
           d == c \o v
           w == d \o <<EOL>>
<1>0. e \in Text /\ <<EOL>> \in Text
  BY WordIsText
<1> HIDE DEF e
<1>1. a \in Text
  BY <1>0, TextConcat
<1> HIDE DEF a
<1>2. b \in Text
  BY <1>1, TextConcat
<1> HIDE DEF b
<1>3. c \in Text
  BY <1>0, <1>2, TextConcat
<1> HIDE DEF c
<1>4. d \in Text
  BY <1>3, TextConcat
<1> HIDE DEF d
<1>5. w \in Text
  BY <1>0, <1>4, TextConcat
<1> HIDE DEF w
<1>6. FlattenSeq(<<w>>) = w
  BY <1>5, FlattenOne
<1>7. d = LineText(m, u, v)
  BY DEF d, c, b, a, e, LineText
<1> QED
  BY <1>4, <1>6, <1>7 DEF w

LEMMA FourTexts ==
  ASSUME NEW a \in Text, NEW b \in Text, NEW c \in Text, NEW d \in Text
  PROVE  ((a \o b) \o c) \o d = a \o ((b \o c) \o d) /\ a \o ((b \o c) \o d) \in Text
<1>1. /\ Joined(Joined(Joined(a, b), c), d) = Joined(a, Joined(Joined(b, c), d))
      /\ Joined(a, Joined(Joined(b, c), d)) \in Text
  BY JoinedAssociates
<1> QED
  BY <1>1 DEF Joined

LEMMA LineEnd ==
  ASSUME NEW l \in Text, NEW v \in Text
  PROVE  l \o ((<<" ">> \o v) \o <<EOL>>) = ((l \o <<" ">>) \o v) \o <<EOL>>
<1> DEFINE e == <<" ">>
           n == <<EOL>>
<1>1. e \in Text /\ n \in Text
  BY WordIsText
<1> HIDE DEF e, n
<1>2. Joined(l, Joined(Joined(e, v), n)) = Joined(Joined(Joined(l, e), v), n)
  BY <1>1, JoinedAssociates
<1> QED
  BY <1>2 DEF Joined, e, n

\* The line with its parameters, put together differently.
LEMMA MergedLine ==
  ASSUME NEW m \in Text, NEW u \in Text, NEW v \in Text, NEW p \in Seq(Text)
  PROVE  FlattenSeq((<< ((m \o <<" ">>) \o u) \o <<"?">> >> \o p) \o << (<<" ">> \o v) \o <<EOL>> >>)
           = LineText(m, (u \o <<"?">>) \o FlattenSeq(p), v) \o <<EOL>>
<1> DEFINE e == <<" ">>
           i == <<"?">>
           n == <<EOL>>
           a == m \o e
           q == FlattenSeq(p)
           c == (a \o u) \o i
           z == (e \o v) \o n
           l == a \o ((u \o i) \o q)
<1>0. e \in Text /\ i \in Text /\ n \in Text
  BY WordIsText
<1> HIDE DEF e, i, n
<1>1. q \in Text
  BY FlattenType
<1> HIDE DEF q
<1>2. a \in Text
  BY <1>0, TextConcat
<1> HIDE DEF a
<1>3. c \in Text
  <2> DEFINE b == a \o u
  <2>1. b \in Text
    BY <1>2, TextConcat
  <2> HIDE DEF b
  <2>2. b \o i \in Text
    BY <1>0, <2>1, TextConcat
  <2> QED
    BY <2>2 DEF b
<1>4. z \in Text
  <2> DEFINE x == e \o v
  <2>1. x \in Text
    BY <1>0, TextConcat
  <2> HIDE DEF x
  <2>2. x \o n \in Text
    BY <1>0, <2>1, TextConcat
  <2> QED
    BY <2>2 DEF x
<1>5. c \o q = l /\ l \in Text
  BY <1>0, <1>1, <1>2, FourTexts
<1> HIDE DEF l
<1>6. l \o z = ((l \o e) \o v) \o n
  BY <1>5, LineEnd DEF e, n
<1> HIDE DEF c, z
<1>7. FlattenSeq((<<c>> \o p) \o <<z>>) = (c \o q) \o z
  <2>1. <<c>> \in Seq(Text) /\ <<z>> \in Seq(Text)
    BY <1>3, <1>4, OnePiece
  <2>2. <<c>> \o p \in Seq(Text)
    BY <2>1, ListConcat
  <2>3. FlattenSeq((<<c>> \o p) \o <<z>>) = FlattenSeq(<<c>> \o p) \o FlattenSeq(<<z>>)
    BY <2>1, <2>2, FlattenConcat
  <2>4. FlattenSeq(<<c>> \o p) = FlattenSeq(<<c>>) \o FlattenSeq(p)
    BY <2>1, FlattenConcat
  <2>5. FlattenSeq(<<c>>) = c /\ FlattenSeq(<<z>>) = z
    BY <1>3, <1>4, FlattenOne
  <2> QED
    BY <2>3, <2>4, <2>5 DEF q
<1>8. FlattenSeq((<<c>> \o p) \o <<z>>) = ((l \o e) \o v) \o n
  BY <1>5, <1>6, <1>7, Zenon
<1>9. LineText(m, (u \o i) \o q, v) = (l \o e) \o v
  BY DEF LineText, l, a, e
<1> QED
  BY <1>8, <1>9 DEF z, c, a, e, i, n, q

LEMMA LineDescribed ==
  ASSUME NoSeparators, NEW r \in Request, CleanRequest(r)
  PROVE  DescribesLine(r, Described(r))
<1> DEFINE d == Described(r)
           m == Default(r.method, <<"GET">>)
           u == Default(r.url, <<"/">>)
           v == Default(r.version, <<"HTTP/1.1">>)
           merged == r.params # <<>> /\ ~Contains(u, "?")
           w == (u \o <<"?">>) \o FlattenSeq(ParamPieces(r))
           whole == LineText(m, u, v) \o <<EOL>>
           first == ((m \o <<" ">>) \o u) \o <<"?">>
           last == (<<" ">> \o v) \o <<EOL>>
<1>1. /\ d.method = m /\ d.version = v
      /\ d.url = (IF merged THEN w ELSE u)
      /\ d.params = (IF merged THEN r.params ELSE ParseParams(u))
  BY DEF Described, ParamPieces
<1>2. /\ ~merged => LinePieces(r) = <<whole>>
      /\ merged => LinePieces(r) = (<<first>> \o ParamPieces(r)) \o <<last>>
  BY DEF LinePieces, LineText, ParamPieces
<1>3. /\ r.method \in Methods \cup {None} /\ r.url \in Text \cup {None} /\ r.version \in Text \cup {None}
      /\ r.url # None => CleanUrl(r.url)
      /\ r.version # None => CleanWord(r.version)
      /\ \A i \in 1..Len(r.params) : CleanParam(r.params[i])
  BY DEF Request, CleanRequest
<1>4. <<"GET">> \in Methods /\ Methods \subseteq Text /\ \A x \in Methods : CleanWord(x)
  BY ParserLibraryAssumption DEF NoSeparators
<1>5. m \in Methods \cap Text /\ CleanWord(m)
  BY <1>3, <1>4 DEF Default
<1>6. u \in Text /\ CleanUrl(u) /\ v \in Text /\ CleanWord(v)
  BY <1>3, DefaultsClean, WordIsText DEF Default
<1> HIDE DEF d, m, u, v
<1>7. CASE ~merged
  <2>1. FlattenSeq(<<whole>>) = whole
    BY <1>5, <1>6, PlainLine
  <2>2. FlattenSeq(LinePieces(r)) = whole
    BY <1>2, <1>7, <2>1
  <2>3. d.url = u /\ d.params = ParseParams(u)
    BY <1>1, <1>7
  <2> QED
    BY <1>1, <1>5, <1>6, <2>2, <2>3 DEF DescribesLine, d
<1>8. CASE merged
  <2>1. CleanWord(u)
    BY <1>6 DEF CleanUrl
  <2>2. w \in Text /\ CleanUrl(w) /\ ParseParams(w) = r.params
    BY <1>3, <1>6, <1>8, <2>1, MergedUrl
  <2>3. ParamPieces(r) \in Seq(Text)
    BY <1>3, ParamLists
  <2>4. FlattenSeq((<<first>> \o ParamPieces(r)) \o <<last>>) = LineText(m, w, v) \o <<EOL>>
    BY <1>5, <1>6, <2>3, MergedLine
  <2> HIDE DEF w, first, last
  <2>5. d.url = w /\ d.params = r.params
    BY <1>1, <1>8
  <2>6. FlattenSeq(LinePieces(r)) = LineText(m, w, v) \o <<EOL>>
    BY <1>2, <1>8, <2>4
  <2> QED
    BY <1>1, <1>5, <1>6, <2>2, <2>5, <2>6 DEF DescribesLine, d
<1> QED
  BY <1>7, <1>8

-----------------------------------------------------------------------------
(***************************************************************************)
(* The headers, each on a line of its own.                                 *)
(***************************************************************************)
HeaderText(h) == (h[1] \o <<":", " ">>) \o h[2]
HeaderTexts(d) == [i \in 1..Len(d) |-> HeaderText(d[i])]
HeaderLines(d) == [i \in 1..Len(d) |-> HeaderText(d[i]) \o <<EOL>>]

CleanHeader(h) == CleanKey(h[1]) /\ CleanValue(h[2])
CleanValues(r) == \A i \in 1..Len(r.headers) : CleanValue(r.headers[i][2])

LEMMA TwoWords ==
  ASSUME NEW a \in DOMAIN Words, NEW b \in DOMAIN Words PROVE <<a, b>> = <<a>> \o <<b>>
<1> DEFINE x == <<a>>
           y == <<b>>
           xy == x \o y
           l == <<a, b>>
<1>1. x \in Text /\ Len(x) = 1 /\ x[1] = a /\ y \in Text /\ Len(y) = 1 /\ y[1] = b
  BY OneWord
<1> HIDE DEF x, y
<1>2. /\ xy \in Text /\ Len(xy) = Len(x) + Len(y)
      /\ \A i \in 1..Len(x) : xy[i] = x[i]
      /\ \A j \in 1..Len(y) : xy[Len(x) + j] = y[j]
  BY <1>1, ConcatText
<1> HIDE DEF xy
<1>3. xy \in Text /\ Len(xy) = 2 /\ xy[1] = a /\ xy[2] = b
  BY <1>1, <1>2
<1>4. l \in Text /\ Len(l) = 2 /\ l[1] = a /\ l[2] = b
  BY DEF Text
<1> HIDE DEF l
<1>5. xy = l
  BY <1>3, <1>4, SeqEqual DEF Text
<1> QED
  BY <1>5 DEF xy, x, y, l

LEMMA ColonAndBlank ==
  /\ <<":", " ">> \in Text /\ <<":">> \in Text /\ <<" ">> \in Text /\ <<":", " ">> = <<":">> \o <<" ">>
  /\ Contains(<<":", " ">>, ":") /\ Without(<<":", " ">>, {EOL, NewLine})
<1>1. ":" \in DOMAIN Words /\ " " \in DOMAIN Words
  BY ParserLibraryAssumption
<1>2. <<":", " ">> \in Text /\ <<":">> \in Text /\ <<" ">> \in Text
  BY <1>1, OneWord, ColonAndSpace, Zenon
<1>3. <<":", " ">> = <<":">> \o <<" ">>
  BY <1>1, TwoWords, Zenon
<1>4. Contains(<<":">>, ":") /\ Without(<<":">>, {EOL, NewLine}) /\ Without(<<" ">>, {EOL, NewLine})
  <2>1. ":" \notin {EOL, NewLine} /\ " " \notin {EOL, NewLine}
    BY DEF EOL, NewLine
  <2> QED
    BY <2>1, ContainsOne, CleanOne
<1> DEFINE c == <<":">>
           b == <<" ">>
<1> HIDE DEF c, b
<1>5. Contains(c \o b, ":") /\ Without(c \o b, {EOL, NewLine})
  <2>1. c \in Text /\ b \in Text /\ Contains(c, ":") /\ Without(c, {EOL, NewLine}) /\ Without(b, {EOL, NewLine})
    BY <1>2, <1>4 DEF c, b
  <2> QED
    BY <2>1, ContainsConcat, CleanConcat
<1> QED
  BY <1>2, <1>3, <1>5, Zenon DEF c, b

LEMMA HeaderTextIs ==
  ASSUME NEW h \in Text \X Text
  PROVE  /\ HeaderText(h) \in Text /\ HeaderText(h) \o <<EOL>> \in Text
         /\ CleanHeader(h) => /\ Field(HeaderText(h), EOL) /\ ~Contains(HeaderText(h), NewLine)
                              /\ Contains(HeaderText(h), ":")
                              /\ Cut(HeaderText(h), ":") = <<h[1], <<" ">> \o h[2]>>
<1> DEFINE k == h[1]
           v == h[2]
           e == <<":", " ">>
           c == <<":">>
           b == <<" ">>
           ke == k \o e
           t == ke \o v
<1>1. k \in Text /\ v \in Text /\ h = <<k, v>>
  OBVIOUS
<1>2. /\ e \in Text /\ c \in Text /\ b \in Text /\ e = c \o b /\ <<EOL>> \in Text /\ ":" \in DOMAIN Words
      /\ Contains(e, ":") /\ Without(e, {EOL, NewLine})
  BY WordIsText, ParserLibraryAssumption, ColonAndBlank
<1>3. HeaderText(h) = t
  BY DEF HeaderText
<1> HIDE DEF k, v, e
<1>4. ke \in Text /\ Contains(ke, ":")
  BY <1>1, <1>2, ConcatText, ContainsConcat
<1>5. t \in Text /\ Contains(t, ":") /\ t # <<>>
  <2> HIDE DEF ke
  <2>1. t \in Text /\ Contains(t, ":")
    BY <1>1, <1>4, ConcatText, ContainsConcat
  <2> HIDE DEF t
  <2> QED
    BY <2>1, ContainsNone
<1>6. t \o <<EOL>> \in Text
  <2> HIDE DEF t
  <2> QED
    BY <1>2, <1>5, TextConcat
<1>7. CleanHeader(h) => ~Contains(k, ":") /\ Without(k, {EOL, NewLine}) /\ Without(v, {EOL, NewLine})
  BY DEF CleanHeader, CleanKey, CleanValue, Without, k, v
<1>8. CleanHeader(h) => Without(t, {EOL, NewLine})
  <2> SUFFICES ASSUME CleanHeader(h) PROVE Without(t, {EOL, NewLine})
    OBVIOUS
  <2>1. Without(ke, {EOL, NewLine})
    BY <1>1, <1>2, <1>7, CleanConcat
  <2> HIDE DEF ke
  <2> QED
    BY <1>1, <1>4, <1>7, <2>1, CleanConcat
<1>9. t = (k \o c) \o (b \o v)
  <2> DEFINE kc == k \o c
  <2>0. k \in Text /\ c \in Text /\ b \in Text /\ v \in Text
    BY <1>1, <1>2, Zenon
  <2> HIDE DEF c, b
  <2>1. k \o (c \o b) = kc \o b
    BY <2>0, Regrouping
  <2>2. kc \in Text
    BY <1>1, <1>2, TextConcat
  <2> HIDE DEF kc
  <2>3. (kc \o b) \o v = kc \o (b \o v)
    BY <2>0, <2>2, Regrouping
  <2>4. t = (kc \o b) \o v
    BY <1>2, <2>1, Zenon
  <2> QED
    BY <2>3, <2>4, Zenon DEF kc
<1>10. b \o v \in Text
  <2> HIDE DEF b
  <2> QED
    BY <1>1, <1>2, TextConcat
<1>11. CleanHeader(h) => Cut(t, ":") = <<k, b \o v>>
  <2> DEFINE bv == b \o v
  <2> HIDE DEF bv, t
  <2>1. CleanHeader(h) => Cut((k \o <<":">>) \o bv, ":") = <<k, bv>>
    BY <1>1, <1>2, <1>7, <1>10, PlaceBehind DEF bv
  <2> QED
    BY <1>9, <2>1, Zenon DEF bv, c
<1> HIDE DEF t, b
<1>12. CleanHeader(h) => Field(t, EOL) /\ ~Contains(t, NewLine)
  BY <1>5, <1>8 DEF Field, Without
<1>13. k = h[1] /\ b \o v = <<" ">> \o h[2]
  BY DEF k, v, b
<1> QED
  BY <1>3, <1>5, <1>6, <1>11, <1>12, <1>13, Zenon

LEMMA HeaderLists ==
  ASSUME NEW d \in Seq(Text \X Text)
  PROVE  /\ Len(d) \in Nat /\ \A i \in 1..Len(d) : d[i] \in Text \X Text
         /\ HeaderTexts(d) \in Seq(Text) /\ Len(HeaderTexts(d)) = Len(d)
         /\ HeaderLines(d) \in Seq(Text) /\ Len(HeaderLines(d)) = Len(d)
         /\ \A i \in 1..Len(d) : /\ HeaderTexts(d)[i] = HeaderText(d[i])
                                 /\ HeaderLines(d)[i] = HeaderText(d[i]) \o <<EOL>>
<1> DEFINE n == Len(d)
           Line(i) == HeaderText(d[i]) \o <<EOL>>
<1>1. n \in Nat /\ \A i \in 1..n : d[i] \in Text \X Text
  BY LenProperties, ElementOfSeq
<1>2. \A i \in 1..n : HeaderText(d[i]) \in Text
  BY <1>1, HeaderTextIs
<1>2a. \A i \in 1..n : Line(i) \in Text
  BY <1>1, HeaderTextIs
<1>3. /\ HeaderTexts(d) = [i \in 1..n |-> HeaderText(d[i])]
      /\ HeaderLines(d) = [i \in 1..n |-> Line(i)]
  BY DEF HeaderTexts, HeaderLines
<1>4. \A i \in 1..n : HeaderTexts(d)[i] = HeaderText(d[i]) /\ HeaderLines(d)[i] = Line(i)
  BY <1>3
<1> HIDE DEF n, Line
<1>5. HeaderTexts(d) \in Seq(Text) /\ Len(HeaderTexts(d)) = n
  BY <1>1, <1>2, <1>3
<1>6. HeaderLines(d) \in Seq(Text) /\ Len(HeaderLines(d)) = n
  BY <1>1, <1>2a, <1>3
<1> QED
  BY <1>1, <1>4, <1>5, <1>6 DEF n, Line

\* The text of headers has no blank line in it and is parsed as the headers.
HeaderBlock(text, d) ==
  \E y \in Text : text = y \o <<EOL>> /\ NoBlank(y \o <<EOL>>) /\ ParseHeaders(y) = d /\ ~ReadsBeyond(y)

LEMMA FirstDropped ==
  ASSUME NEW w \in DOMAIN Words, NEW v \in Text
  PROVE  LET t == <<w>> \o v IN t # <<>> /\ t[1] = w /\ Tail(t) = v
<1> DEFINE b == <<w>>
           t == b \o v
<1>1. b \in Text /\ Len(b) = 1 /\ b[1] = w
  BY OneWord
<1> HIDE DEF b
<1>2. /\ t \in Text /\ Len(t) = 1 + Len(v) /\ t[1] = w /\ \A i \in 1..Len(v) : t[1 + i] = v[i]
  <2>1. /\ t \in Text /\ Len(t) = Len(b) + Len(v)
        /\ \A i \in 1..Len(b) : t[i] = b[i]
        /\ \A i \in 1..Len(v) : t[Len(b) + i] = v[i]
    BY <1>1, ConcatText
  <2> HIDE DEF t
  <2> QED
    BY <1>1, <2>1
<1>3. Len(v) \in Nat
  BY TextProperties
<1> HIDE DEF t
<1>4. t # <<>>
  BY <1>2, <1>3, EmptySeq
<1>5. Tail(t) = v
  <2>1. t \in Seq(DOMAIN Words) /\ v \in Seq(DOMAIN Words)
    BY <1>2 DEF Text
  <2>2. /\ Tail(t) \in Seq(DOMAIN Words) /\ Len(Tail(t)) = Len(t) - 1
        /\ \A i \in 1..Len(Tail(t)) : Tail(t)[i] = t[i + 1]
    BY <1>4, <2>1, HeadTailProperties
  <2>3. Len(Tail(t)) = Len(v)
    BY <1>2, <1>3, <2>2
  <2>4. \A i \in 1..Len(v) : t[i + 1] = v[i]
    BY <1>2, <1>3
  <2> QED
    BY <2>1, <2>2, <2>3, <2>4, SeqEqual
<1> QED
  BY <1>2, <1>4, <1>5 DEF t, b

\* What follows the blank behind a colon is the value.
LEMMA BlankDropped ==
  ASSUME NEW v \in Text
  PROVE  LET t == <<" ">> \o v IN t # <<>> /\ Behind[t[1]] \o Tail(t) = v
<1> DEFINE t == <<" ">> \o v
<1>1. t # <<>> /\ t[1] = " " /\ Tail(t) = v
  <2>1. " " \in DOMAIN Words
    BY ParserLibraryAssumption, Zenon
  <2> QED
    BY <2>1, FirstDropped, Zenon
<1>2. Behind[" "] = <<>>
  BY ParserLibraryAssumption, Zenon
<1>3. <<>> \o v = v
  BY ConcatEmptySeq DEF Text
<1> HIDE DEF t
<1>4. Behind[t[1]] \o Tail(t) = v
  BY <1>1, <1>2, <1>3, Zenon
<1> QED
  BY <1>1, <1>4 DEF t

\* A text without a bare LF is split at the ends of its lines alone.
LEMMA LinesAre ==
  ASSUME NEW text \in Text, ~Contains(text, NewLine) PROVE Lines(text) = Fields(text, EOL)
<1>1. Lines(text) = Fields(Ended(text), EOL)
  BY DEF Lines, Ended
<1>2. text = [i \in 1..Len(text) |-> text[i]]
  BY DEF Text
<1>3. \A i \in 1..Len(text) : text[i] # NewLine
  BY DEF Contains
<1>4. Ended(text) = text
  BY <1>2, <1>3 DEF Ended
<1> QED
  BY <1>1, <1>4

LEMMA HeadersParsed ==
  ASSUME NEW d \in Seq(Text \X Text), d # <<>>, \A i \in 1..Len(d) : CleanHeader(d[i])
  PROVE  HeaderBlock(FlattenSeq(HeaderLines(d)), d)
<1> DEFINE l == HeaderTexts(d)
           p == HeaderLines(d)
           n == Len(d)
<1>1. /\ n \in Nat /\ l \in Seq(Text) /\ Len(l) = n /\ p \in Seq(Text) /\ Len(p) = n
      /\ \A i \in 1..n : /\ d[i] \in Text \X Text
                         /\ l[i] = HeaderText(d[i])
                         /\ p[i] = HeaderText(d[i]) \o <<EOL>>
  BY HeaderLists
<1>2. n # 0
  BY EmptySeq
<1>3. \A i \in 1..n : /\ l[i] \in Text /\ Field(l[i], EOL) /\ Contains(l[i], ":")
                      /\ ~Contains(l[i], NewLine) /\ Cut(l[i], ":") = <<d[i][1], <<" ">> \o d[i][2]>>
                      /\ p[i] = l[i] \o <<EOL>>
  <2> HIDE DEF l, p
  <2> QED
    BY <1>1, HeaderTextIs
<1> HIDE DEF l, p, n
<1>4. EOL \in DOMAIN Words
  BY ParserLibraryAssumption
<1>5. p = [i \in 1..Len(l) |-> l[i] \o <<EOL>>]
  <2>1. p = [i \in 1..n |-> HeaderText(d[i]) \o <<EOL>>]
    BY DEF p, HeaderLines, n
  <2>2. p = [i \in 1..n |-> p[i]]
    BY <2>1
  <2> QED
    BY <1>1, <1>3, <2>2
<1>6. PICK g : IsLines(g, l, EOL) /\ FlattenSeq(p) = g[n]
  <2>1. \E g : IsLines(g, l, EOL) /\ FlattenSeq([i \in 1..Len(l) |-> l[i] \o <<EOL>>]) = g[Len(l)]
    BY <1>1, <1>4, FlattenLines
  <2>2. PICK g : IsLines(g, l, EOL) /\ FlattenSeq([i \in 1..Len(l) |-> l[i] \o <<EOL>>]) = g[Len(l)]
    BY <2>1
  <2>3. FlattenSeq(p) = g[Len(l)]
    BY <2>2, <1>5, Zenon
  <2>4. Len(l) = n
    BY <1>1
  <2>5. FlattenSeq(p) = g[n]
    BY <2>3, <2>4, Zenon
  <2> QED
    BY <2>2, <2>5, Zenon
<1>7. LineStands(g[n - 1], l[n], g[n], EOL)
  <2>1. n \in 1..Len(l)
    BY <1>1, <1>2
  <2> QED
    BY <1>1, <1>4, <1>6, <2>1, LinesStep
<1> DEFINE y == g[n - 1] \o l[n]
<1>8. y \in Text /\ g[n] = y \o <<EOL>>
  BY <1>7 DEF LineStands
<1>9. NoBlank(g[n])
  BY <1>1, <1>3, <1>6, NoBlankLines
<1>10. Fields(y, EOL) = l
  BY <1>1, <1>2, <1>3, <1>4, <1>6, FieldsOfLines
<1> HIDE DEF y
<1>11. ~Contains(y, NewLine)
  <2>1. <<EOL>> \in Text /\ Without(<<EOL>>, {NewLine})
    <3>1. EOL \notin {NewLine}
      BY DEF EOL, NewLine
    <3> QED
      BY <3>1, CleanOne, WordIsText
  <2> DEFINE e == <<EOL>>
  <2> HIDE DEF e
  <2>2. \A i \in 1..n : Without(l[i] \o e, {NewLine})
    <3> TAKE i \in 1..n
    <3>1. l[i] \in Text /\ Without(l[i], {NewLine})
      BY <1>3 DEF Without
    <3> QED
      BY <2>1, <3>1, CleanConcat DEF e
  <2>3. \A i \in 1..Len(p) : Without(p[i], {NewLine})
    BY <1>1, <1>3, <2>2, Zenon DEF e
  <2>4. Without(FlattenSeq(p), {NewLine})
    BY <1>1, <2>3, FlattenClean
  <2>5. ~Contains(y \o e, NewLine)
    BY <1>6, <1>8, <2>4 DEF Without, e
  <2> QED
    BY <1>8, <2>1, <2>5, ContainsConcat DEF e
<1>12. Lines(y) = l
  BY <1>8, <1>10, <1>11, LinesAre
<1>13. ASSUME NEW i \in 1..n
       PROVE  /\ Contains(Lines(y)[i], ":") /\ LineHeader(y, i) = d[i]
              /\ Cut(Lines(y)[i], ":")[2] # <<>>
  <2> DEFINE v == d[i][2]
             t == <<" ">> \o v
  <2>1. v \in Text /\ d[i] = <<d[i][1], v>>
    BY <1>1
  <2>2. Contains(Lines(y)[i], ":") /\ Cut(Lines(y)[i], ":") = <<d[i][1], t>>
    BY <1>3, <1>12
  <2>3. t # <<>> /\ Behind[t[1]] \o Tail(t) = v
    BY <2>1, BlankDropped
  <2> HIDE DEF t, v
  <2>4. Cut(Lines(y)[i], ":")[1] = d[i][1] /\ Cut(Lines(y)[i], ":")[2] = t
    BY <2>2
  <2>5. HeaderValue(y, i) = v
    BY <2>3, <2>4, Zenon DEF HeaderValue
  <2>6. LineHeader(y, i) = <<d[i][1], v>>
    BY <2>4, <2>5, Zenon DEF LineHeader
  <2> QED
    BY <2>1, <2>2, <2>3, <2>4, <2>6, Zenon
<1>14. ParseHeaders(y) = d
  BY <1>1, <1>8, <1>12, <1>13, ParseHeadersAre DEF n
<1>15. ~ReadsBeyond(y)
  <2>1. n \in 1..n /\ Len(Lines(y)) = n
    BY <1>1, <1>2, <1>12
  <2>2. Cut(Lines(y)[Len(Lines(y))], ":")[2] # <<>>
    BY <1>13, <2>1, Zenon
  <2> QED
    BY <2>2, Zenon DEF ReadsBeyond
<1> QED
  BY <1>6, <1>8, <1>9, <1>14, <1>15 DEF HeaderBlock, p

LEMMA FiveWords ==
  ASSUME NEW a \in DOMAIN Words, NEW b \in DOMAIN Words, NEW c \in DOMAIN Words, NEW d \in DOMAIN Words,
         NEW e \in DOMAIN Words
  PROVE  ((<<a>> \o <<b, c>>) \o <<d>>) \o <<e>> = <<a, b, c, d, e>>
<1> DEFINE l == <<a, b, c, d, e>>
           x == <<a>>
           y == <<b, c>>
           z == <<d>>
           w == <<e>>
           xy == x \o y
           xyz == xy \o z
           xyzw == xyz \o w
<1>1. x \in Text /\ Len(x) = 1 /\ x[1] = a
  BY OneWord
<1>2. y \in Text /\ Len(y) = 2 /\ y[1] = b /\ y[2] = c
  BY DEF Text
<1>3. z \in Text /\ Len(z) = 1 /\ z[1] = d
  BY OneWord
<1>4. w \in Text /\ Len(w) = 1 /\ w[1] = e
  BY OneWord
<1> HIDE DEF x, y, z, w
<1>5. xy \in Text /\ Len(xy) = 3 /\ xy[1] = a /\ xy[2] = b /\ xy[3] = c
  <2>1. /\ xy \in Text /\ Len(xy) = Len(x) + Len(y)
        /\ \A i \in 1..Len(x) : xy[i] = x[i]
        /\ \A j \in 1..Len(y) : xy[Len(x) + j] = y[j]
    BY <1>1, <1>2, ConcatText
  <2> HIDE DEF xy
  <2> QED
    BY <1>1, <1>2, <2>1
<1> HIDE DEF xy
<1>6. xyz \in Text /\ Len(xyz) = 4 /\ xyz[1] = a /\ xyz[2] = b /\ xyz[3] = c /\ xyz[4] = d
  <2>1. /\ xyz \in Text /\ Len(xyz) = Len(xy) + Len(z)
        /\ \A i \in 1..Len(xy) : xyz[i] = xy[i]
        /\ \A j \in 1..Len(z) : xyz[Len(xy) + j] = z[j]
    BY <1>3, <1>5, ConcatText
  <2> HIDE DEF xyz
  <2> QED
    BY <1>3, <1>5, <2>1
<1> HIDE DEF xyz
<1>7. xyzw \in Text /\ Len(xyzw) = 5 /\ xyzw[1] = a /\ xyzw[2] = b /\ xyzw[3] = c /\ xyzw[4] = d /\ xyzw[5] = e
  <2>1. /\ xyzw \in Text /\ Len(xyzw) = Len(xyz) + Len(w)
        /\ \A i \in 1..Len(xyz) : xyzw[i] = xyz[i]
        /\ \A j \in 1..Len(w) : xyzw[Len(xyz) + j] = w[j]
    BY <1>4, <1>6, ConcatText
  <2> HIDE DEF xyzw
  <2> QED
    BY <1>4, <1>6, <2>1
<1>8. l \in Text /\ Len(l) = 5 /\ l[1] = a /\ l[2] = b /\ l[3] = c /\ l[4] = d /\ l[5] = e
  BY DEF Text
<1> HIDE DEF xyzw, l
<1>9. xyzw = l
  BY <1>7, <1>8, SeqEqual DEF Text
<1> QED
  BY <1>9 DEF xyzw, xyz, xy, x, y, z, w, l

LEMMA LengthHeader ==
  /\ << <<"Content-Length">>, <<"n">> >> \in Text \X Text
  /\ CleanHeader(<< <<"Content-Length">>, <<"n">> >>)
  /\ HeaderText(<< <<"Content-Length">>, <<"n">> >>) \o <<EOL>> = <<"Content-Length", ":", " ", "n", EOL>>
<1> DEFINE a == <<"Content-Length">>
           b == <<"n">>
           h == <<a, b>>
<1>1. a \in Text /\ b \in Text
  BY WordIsText
<1>2. CleanKey(a) /\ CleanValue(b)
  <2>1. "Content-Length" \notin {":", EOL, NewLine} /\ "n" \notin {EOL, NewLine}
    BY DEF EOL, NewLine
  <2> QED
    BY <2>1, CleanOne DEF CleanKey, CleanValue
<1>3. HeaderText(h) \o <<EOL>> = <<"Content-Length", ":", " ", "n", EOL>>
  <2>1. HeaderText(h) = (a \o <<":", " ">>) \o b
    BY DEF HeaderText
  <2>2. /\ "Content-Length" \in DOMAIN Words /\ ":" \in DOMAIN Words /\ " " \in DOMAIN Words
        /\ "n" \in DOMAIN Words /\ EOL \in DOMAIN Words
    BY ParserLibraryAssumption
  <2>3. ((<<"Content-Length">> \o <<":", " ">>) \o <<"n">>) \o <<EOL>> = <<"Content-Length", ":", " ", "n", EOL>>
    <3> DEFINE sp == " "
    <3>1. /\ "Content-Length" \in DOMAIN Words /\ ":" \in DOMAIN Words /\ sp \in DOMAIN Words
          /\ "n" \in DOMAIN Words /\ EOL \in DOMAIN Words
      BY <2>2, Zenon
    <3> HIDE DEF sp
    <3>2. ((<<"Content-Length">> \o <<":", sp>>) \o <<"n">>) \o <<EOL>> = <<"Content-Length", ":", sp, "n", EOL>>
      BY <3>1, FiveWords
    <3> QED
      BY <3>2, Zenon DEF sp
  <2> QED
    BY <2>1, <2>3, Zenon
<1>4. CleanHeader(h)
  <2>1. h[1] = a /\ h[2] = b
    OBVIOUS
  <2> QED
    BY <1>2, <2>1, Zenon DEF CleanHeader
<1> QED
  BY <1>1, <1>3, <1>4

LEMMA LinesAppended ==
  ASSUME NEW d \in Seq(Text \X Text), NEW h \in Text \X Text
  PROVE  HeaderLines(Append(d, h)) = HeaderLines(d) \o << HeaderText(h) \o <<EOL>> >>
<1> DEFINE dh == Append(d, h)
           n == Len(d)
           line == HeaderText(h) \o <<EOL>>
           p == HeaderLines(d)
           r == HeaderLines(dh)
           s == p \o <<line>>
<1>1. /\ n \in Nat /\ dh \in Seq(Text \X Text) /\ Len(dh) = n + 1 /\ dh[n + 1] = h
      /\ \A i \in 1..n : dh[i] = d[i]
  BY AppendProperties, LenProperties
<1>2. p \in Seq(Text) /\ Len(p) = n /\ \A i \in 1..n : p[i] = HeaderText(d[i]) \o <<EOL>>
  BY HeaderLists
<1> HIDE DEF dh, n, p
<1>3. r \in Seq(Text) /\ Len(r) = n + 1 /\ \A i \in 1..(n + 1) : r[i] = HeaderText(dh[i]) \o <<EOL>>
  BY <1>1, HeaderLists
<1>4. line \in Text
  BY HeaderTextIs
<1> HIDE DEF line, r
<1>5. s \in Seq(Text) /\ Len(s) = n + 1 /\ s[n + 1] = line /\ \A i \in 1..n : s[i] = p[i]
  <2>1. <<line>> \in Seq(Text) /\ Len(<<line>>) = 1 /\ <<line>>[1] = line
    BY <1>4
  <2> DEFINE o == <<line>>
  <2> HIDE DEF o
  <2>2. /\ p \o o \in Seq(Text) /\ Len(p \o o) = Len(p) + Len(o)
        /\ \A i \in 1..(Len(p) + Len(o)) : (p \o o)[i] = IF i <= Len(p) THEN p[i] ELSE o[i - Len(p)]
    BY <1>2, <2>1, ConcatProperties DEF o
  <2> DEFINE po == p \o o
  <2> HIDE DEF po
  <2>3. Len(o) = 1 /\ o[1] = line
    BY <2>1 DEF o
  <2>4. po \in Seq(Text) /\ Len(po) = n + 1
        /\ \A i \in 1..(n + 1) : po[i] = IF i <= n THEN p[i] ELSE o[i - n]
    BY <1>2, <2>2, <2>3 DEF po
  <2>5. n + 1 \in 1..(n + 1) /\ ~(n + 1 <= n) /\ (n + 1) - n = 1
    BY <1>1
  <2>6. po[n + 1] = line
    BY <2>3, <2>4, <2>5
  <2>7. \A i \in 1..n : po[i] = p[i]
    BY <1>1, <2>4
  <2> QED
    BY <2>4, <2>6, <2>7 DEF po, o
<1> HIDE DEF s
<1>6. \A i \in 1..Len(r) : r[i] = s[i]
  <2> TAKE i \in 1..Len(r)
  <2>1. CASE i = n + 1
    BY <1>1, <1>3, <1>5, <2>1 DEF line
  <2>2. CASE i # n + 1
    <3>1. i \in 1..n /\ i \in 1..(n + 1)
      BY <1>1, <1>3, <2>2
    <3>2. r[i] = HeaderText(dh[i]) \o <<EOL>> /\ dh[i] = d[i]
      BY <1>1, <1>3, <3>1, Zenon
    <3>3. s[i] = p[i] /\ p[i] = HeaderText(d[i]) \o <<EOL>>
      BY <1>2, <1>5, <3>1, Zenon
    <3> QED
      BY <3>2, <3>3, Zenon
  <2> QED
    BY <2>1, <2>2
<1>7. r = s
  BY <1>3, <1>5, <1>6, SeqEqual
<1> QED
  BY <1>7 DEF r, s, p, line, dh

-----------------------------------------------------------------------------
(***************************************************************************)
(* The headers of a request, and the whole of its text.                    *)
(***************************************************************************)
LEMMA HeadersDescribed ==
  ASSUME NEW r \in Request, CleanRequest(r), CleanValues(r)
  PROVE  LET d == Described(r).headers IN
         /\ d \in Seq(Text \X Text) /\ \A i \in 1..Len(d) : CleanHeader(d[i])
         /\ HeaderLines(r.headers) \o LengthPieces(r) = HeaderLines(d)
         /\ d = <<>> <=> r.headers = <<>> /\ r.body = None
<1> DEFINE d == Described(r).headers
           l == r.headers
           h == << <<"Content-Length">>, <<"n">> >>
           n == Len(l)
<1>1. l \in Seq(Text \X Text) /\ \A i \in 1..n : CleanHeader(l[i])
  BY DEF Request, CleanRequest, CleanValues, CleanHeader
<1>2. d = IF r.body # None /\ ~HasHeader(r) THEN Append(l, h) ELSE l
  BY DEF Described
<1>3. HeaderLines(l) \in Seq(Text)
  BY <1>1, HeaderLists
<1>4. CASE r.body = None \/ HasHeader(r)
  <2>1. d = l /\ LengthPieces(r) = <<>>
    BY <1>2, <1>4 DEF LengthPieces
  <2>2. HeaderLines(l) \o <<>> = HeaderLines(l)
    BY <1>3, ConcatEmptySeq
  <2>3. l = <<>> => ~HasHeader(r)
    <3> SUFFICES ASSUME l = <<>> PROVE ~HasHeader(r)
      OBVIOUS
    <3>1. Len(r.headers) = 0
      BY EmptySeq
    <3> QED
      BY <3>1 DEF HasHeader
  <2>4. l = <<>> => r.body = None
    BY <1>4, <2>3
  <2> QED
    BY <1>1, <2>1, <2>2, <2>4, Zenon
<1>5. CASE r.body # None /\ ~HasHeader(r)
  <2>1. d = Append(l, h)
    BY <1>2, <1>5
  <2> DEFINE w == <<"Content-Length", ":", " ", "n", EOL>>
  <2>2. LengthPieces(r) = <<w>>
    BY <1>5 DEF LengthPieces
  <2>3. h \in Text \X Text /\ CleanHeader(h) /\ HeaderText(h) \o <<EOL>> = w
    BY LengthHeader
  <2> HIDE DEF d, h, w
  <2>4. HeaderLines(d) = HeaderLines(l) \o << HeaderText(h) \o <<EOL>> >>
    BY <1>1, <2>1, <2>3, LinesAppended
  <2>5. HeaderLines(d) = HeaderLines(l) \o LengthPieces(r)
    BY <2>2, <2>3, <2>4, Zenon
  <2> HIDE DEF l
  <2>6. /\ n \in Nat /\ Append(l, h) \in Seq(Text \X Text) /\ Len(Append(l, h)) = n + 1
        /\ Append(l, h)[n + 1] = h /\ \A i \in 1..n : Append(l, h)[i] = l[i]
    BY <1>1, <2>3, AppendProperties, LenProperties
  <2> HIDE DEF n
  <2>7. d \in Seq(Text \X Text) /\ Len(d) = n + 1 /\ d[n + 1] = h /\ \A i \in 1..n : d[i] = l[i]
    BY <2>1, <2>6, Zenon
  <2>8. \A i \in 1..Len(d) : i = n + 1 \/ i \in 1..n
    BY <2>6, <2>7
  <2>9. \A i \in 1..Len(d) : CleanHeader(d[i])
    BY <1>1, <2>3, <2>7, <2>8, Zenon DEF n
  <2>10. d # <<>>
    <3>1. Len(d) # 0
      BY <2>6, <2>7
    <3> QED
      BY <3>1, EmptySeq
  <2> QED
    BY <1>5, <2>5, <2>7, <2>9, <2>10, Zenon DEF d, l
<1> QED
  BY <1>4, <1>5

\* The text of a request: line, headers, a blank line and the body.
WholeText(l, h, b) == (l \o <<EOL>>) \o ((h \o <<EOL>>) \o b)

Together(p, h, n, b) == (((p \o h) \o n) \o << <<EOL>> >>) \o b
Prints(p, l) == FlattenSeq(p) = l \o <<EOL>>

LEMMA PiecesTogether ==
  ASSUME NEW p \in Seq(Text), NEW h \in Seq(Text), NEW n \in Seq(Text), NEW b \in Seq(Text),
         NEW l \in Text, Prints(p, l)
  PROVE  FlattenSeq(Together(p, h, n, b)) = WholeText(l, FlattenSeq(h \o n), FlattenSeq(b))
<1> DEFINE e == <<EOL>>
           x == l \o e
           ph == p \o h
           phn == ph \o n
           phne == phn \o <<e>>
           fh == FlattenSeq(h)
           fn == FlattenSeq(n)
           fb == FlattenSeq(b)
<1>1. e \in Text /\ <<e>> \in Seq(Text) /\ FlattenSeq(<<e>>) = e
  BY WordIsText, OnePiece, FlattenOne
<1>2. fh \in Text /\ fn \in Text /\ fb \in Text
  BY FlattenType
<1> HIDE DEF fh, fn, fb, e
<1>3. x \in Text
  BY <1>1, TextConcat
<1>4. ph \in Seq(Text) /\ FlattenSeq(ph) = x \o fh
  <2>1. ph \in Seq(Text)
    BY ListConcat
  <2>2. FlattenSeq(p \o h) = FlattenSeq(p) \o FlattenSeq(h)
    BY FlattenConcat
  <2>3. FlattenSeq(p) = x
    BY DEF Prints, x, e
  <2> QED
    BY <2>1, <2>2, <2>3, Zenon DEF fh
<1>5. FlattenSeq(h \o n) = fh \o fn
  BY FlattenConcat DEF fh, fn
<1> HIDE DEF ph, x
<1>6. phn \in Seq(Text) /\ FlattenSeq(phn) = (x \o fh) \o fn
  <2>1. phn \in Seq(Text) /\ FlattenSeq(phn) = FlattenSeq(ph) \o FlattenSeq(n)
    BY <1>4, ListConcat, FlattenConcat
  <2> QED
    BY <1>4, <2>1, Zenon DEF fn
<1> HIDE DEF phn
<1>7. phne \in Seq(Text) /\ FlattenSeq(phne) = ((x \o fh) \o fn) \o e
  <2> DEFINE w == <<e>>
  <2> HIDE DEF w
  <2>1. w \in Seq(Text) /\ FlattenSeq(w) = e
    BY <1>1 DEF w
  <2>2. phn \o w \in Seq(Text) /\ FlattenSeq(phn \o w) = FlattenSeq(phn) \o FlattenSeq(w)
    BY <1>6, <2>1, ListConcat, FlattenConcat
  <2> QED
    BY <1>6, <2>1, <2>2, Zenon DEF w
<1> HIDE DEF phne
<1>8. FlattenSeq(phne \o b) = (((x \o fh) \o fn) \o e) \o fb
  <2>1. FlattenSeq(phne \o b) = FlattenSeq(phne) \o FlattenSeq(b)
    BY <1>7, FlattenConcat
  <2> QED
    BY <1>7, <2>1, Zenon DEF fb
<1>9. Joined(Joined(Joined(Joined(x, fh), fn), e), fb) = Joined(x, Joined(Joined(Joined(fh, fn), e), fb))
  <2>1. Joined(fh, fn) \in Text /\ Joined(Joined(x, fh), fn) = Joined(x, Joined(fh, fn))
    BY <1>2, <1>3, JoinedAssociates
  <2> DEFINE z == Joined(fh, fn)
  <2> HIDE DEF z
  <2>2. z \in Text
    BY <2>1 DEF z
  <2>3. Joined(Joined(Joined(x, z), e), fb) = Joined(x, Joined(Joined(z, e), fb))
    BY <1>1, <1>2, <1>3, <2>2, JoinedAssociates
  <2> QED
    BY <2>1, <2>3 DEF z
<1>10. (((x \o fh) \o fn) \o e) \o fb = x \o (((fh \o fn) \o e) \o fb)
  BY <1>9 DEF Joined
<1>11. FlattenSeq(phne \o b) = WholeText(l, FlattenSeq(h \o n), fb)
  BY <1>5, <1>8, <1>10, Zenon DEF WholeText, x, e
<1> QED
  BY <1>11 DEF Together, phne, phn, ph, e, fb

LEMMA TextDescribed ==
  ASSUME NoSeparators, NEW r \in Request, CleanRequest(r), CleanValues(r)
  PROVE  LET d == Described(r) IN
         FlattenSeq(Pieces(r)) = WholeText(LineText(d.method, d.url, d.version),
                                           FlattenSeq(HeaderLines(d.headers)), d.body)
<1> DEFINE d == Described(r)
           p == LinePieces(r)
           h == HeaderLines(r.headers)
           n == LengthPieces(r)
           b == IF r.body \in {None, <<>>} THEN <<>> ELSE <<r.body>>
           l == LineText(d.method, d.url, d.version)
<1>1. Pieces(r) = Together(p, h, n, b)
  BY DEF Pieces, HeaderLines, HeaderText, Together
<1>2. p \in Seq(Text)
  BY LinePiecesType
<1>3. h \in Seq(Text)
  <2>1. r.headers \in Seq(Text \X Text)
    BY DEF Request
  <2> QED
    BY <2>1, HeaderLists
<1>4. n \in Seq(Text)
  BY LengthPiecesType
<1>5. b \in Seq(Text) /\ FlattenSeq(b) = d.body
  <2>1. r.body \in Text \cup {None}
    BY DEF Request
  <2>2. d.body = IF r.body = None THEN <<>> ELSE r.body
    BY DEF Described, Default
  <2>3. CASE r.body \in {None, <<>>}
    <3>1. b = <<>> /\ d.body = <<>>
      BY <2>2, <2>3
    <3> QED
      BY <3>1, FlattenNone, EmptySeq
  <2>4. CASE r.body \notin {None, <<>>}
    <3>1. b = <<r.body>> /\ d.body = r.body /\ r.body \in Text
      BY <2>1, <2>2, <2>4
    <3> QED
      BY <3>1, FlattenOne, OnePiece
  <2> QED
    BY <2>3, <2>4
<1>6. l \in Text /\ Prints(p, l)
  <2>1. DescribesLine(r, d)
    BY LineDescribed
  <2> HIDE DEF d
  <2> QED
    BY <2>1, PlainLine DEF DescribesLine, Prints
<1>7. FlattenSeq(h \o n) = FlattenSeq(HeaderLines(d.headers))
  <2>1. h \o n = HeaderLines(d.headers)
    BY HeadersDescribed
  <2> QED
    BY <2>1, Zenon
<1> HIDE DEF d, p, h, n, b, l
<1>8. FlattenSeq(Together(p, h, n, b)) = WholeText(l, FlattenSeq(h \o n), FlattenSeq(b))
  <2>1. b \in Seq(Text)
    BY <1>5
  <2> QED
    BY <1>2, <1>3, <1>4, <1>6, <2>1, PiecesTogether
<1>9. FlattenSeq(Pieces(r)) = WholeText(l, FlattenSeq(HeaderLines(d.headers)), d.body)
  BY <1>1, <1>5, <1>7, <1>8, Zenon
<1> QED
  BY <1>9 DEF l, d

-----------------------------------------------------------------------------
(***************************************************************************)
(* A text with a well-formed line is parsed as far as its blank line.      *)
(***************************************************************************)
LEMMA ParseTextOfLine ==
  ASSUME NEW l \in Text, NEW rest \in Text, ~Contains(l, EOL),
         NEW m \in Methods, NEW u, NEW v, ParseLine(l) = FromLine(m, u, v),
         \A i \in 1..Len(ParamFields(u)) : Contains(ParamFields(u)[i], "=")
  PROVE  ParseText((l \o <<EOL>>) \o rest)
           = IF BlankLine(rest) = 0 \/ ReadsBeyond(SubSeq(rest, 1, BlankLine(rest) - 1)) THEN Broken
             ELSE Completed(FromLine(m, u, v),
                            ParseHeaders(SubSeq(rest, 1, BlankLine(rest) - 1)),
                            SubSeq(rest, BlankLine(rest) + 2, Len(rest)), ParseParams(u))
<1> DEFINE text == (l \o <<EOL>>) \o rest
           eol == Place(text, EOL)
           line == ParseLine(FirstLine(text))
           behind == SubSeq(text, eol + 1, Len(text))
           blank == BlankLine(behind)
           url == line.req.url
           beyond == ReadsBeyond(SubSeq(behind, 1, blank - 1))
           headers == ParseHeaders(SubSeq(behind, 1, blank - 1))
           body == SubSeq(behind, blank + 2, Len(behind))
           params == ParseParams(url)
<1>1. ParseText(text) =
        IF line.status # "ok" THEN line
        ELSE IF eol = 0 \/ blank = 0 \/ beyond THEN Broken
        ELSE IF line.req.method \notin Methods THEN Refused(0)
        ELSE IF \E i \in 1..Len(ParamFields(url)) : ~Contains(ParamFields(url)[i], "=") THEN Broken
        ELSE Completed(line, headers, body, params)
  BY DEF ParseText, Completed, FirstLine
<1>2. /\ eol = Len(l) + 1
      /\ SubSeq(text, 1, Len(l)) = l
      /\ SubSeq(text, Len(l) + 2, Len(text)) = rest
  <2>1. EOL \in DOMAIN Words
    BY ParserLibraryAssumption
  <2> QED
    BY <2>1, PlaceBehind
<1>3. Len(l) \in Nat
  BY TextProperties
<1> HIDE DEF text
<1>4. eol # 0 /\ eol - 1 = Len(l) /\ eol + 1 = Len(l) + 2
  BY <1>2, <1>3
<1>5. line = FromLine(m, u, v) /\ behind = rest
  <2>1. FirstLine(text) = SubSeq(text, 1, eol - 1)
    BY <1>4 DEF FirstLine
  <2>2. FirstLine(text) = l
    BY <1>2, <1>4, <2>1, Zenon
  <2> QED
    BY <1>2, <1>4, <2>2, Zenon
<1> HIDE DEF eol
<1> HIDE DEF line, behind
<1>6. line.status = "ok" /\ line.req.method = m /\ url = u
  BY <1>5 DEF FromLine, Fresh
<1>7. ParseText(text) = IF blank = 0 \/ beyond THEN Broken ELSE Completed(line, headers, body, params)
  BY <1>1, <1>4, <1>6
<1>8. params = ParseParams(u)
  BY <1>6
<1>9. ParseText(text) = IF BlankLine(rest) = 0 \/ ReadsBeyond(SubSeq(rest, 1, BlankLine(rest) - 1)) THEN Broken
             ELSE Completed(FromLine(m, u, v),
                            ParseHeaders(SubSeq(rest, 1, BlankLine(rest) - 1)),
                            SubSeq(rest, BlankLine(rest) + 2, Len(rest)), ParseParams(u))
  BY <1>5, <1>7, <1>8, Zenon
<1> QED
  BY <1>9 DEF text

\* One end of a line is no blank line.
LEMMA NoBlankLine ==
  /\ (<<>> \o <<EOL>>) \o <<>> = <<EOL>>
  /\ <<EOL>> \in Text /\ BlankLine(<<EOL>>) = 0
<1> DEFINE e == <<EOL>>
<1>1. e \in Text /\ Len(e) = 1
  BY WordIsText
<1> HIDE DEF e
<1>2. BlankLine(e) \in Nat /\ (BlankLine(e) # 0 => BlankLine(e) <= Len(e) - 1)
  BY <1>1, BlankLineRange
<1>3. BlankLine(e) = 0
  BY <1>1, <1>2
<1>4. <<>> \o e = e /\ e \o <<>> = e
  BY <1>1, ConcatEmptySeq DEF Text
<1> QED
  BY <1>1, <1>3, <1>4 DEF e

LEMMA WholeTextParsed ==
  ASSUME NEW m \in Methods \cap Text, NEW u \in Text, NEW v \in Text, NEW b \in Text,
         CleanWord(m), CleanUrl(u), CleanWord(v),
         NEW d \in Seq(Text \X Text), \A i \in 1..Len(d) : CleanHeader(d[i])
  PROVE  LET text == WholeText(LineText(m, u, v), FlattenSeq(HeaderLines(d)), b) IN
         /\ d # <<>> => ParseText(text) = Completed(FromLine(m, u, v), d, b, ParseParams(u))
         /\ d = <<>> /\ b = <<>> => ParseText(text) = Broken
<1> DEFINE l == LineText(m, u, v)
           h == FlattenSeq(HeaderLines(d))
           e == <<EOL>>
           rest == (h \o e) \o b
           text == (l \o e) \o rest
<1>1. CleanWord(u) /\ \A i \in 1..Len(ParamFields(u)) : Contains(ParamFields(u)[i], "=")
  BY DEF CleanUrl
<1>2. l \in Text /\ ~Contains(l, EOL) /\ ParseLine(l) = FromLine(m, u, v)
  <2>1. l \in Text /\ Without(l, {EOL})
    BY <1>1, LineWords
  <2>2. ParseLine(l) = FromLine(m, u, v)
    BY <1>1, ParseLineOfWords
  <2> QED
    BY <2>1, <2>2 DEF Without
<1>3. text = WholeText(l, h, b)
  BY DEF WholeText
<1> HIDE DEF l
<1>4. ASSUME d # <<>> PROVE ParseText(text) = Completed(FromLine(m, u, v), d, b, ParseParams(u))
  <2>1. PICK y \in Text : h = y \o e /\ NoBlank(y \o e) /\ ParseHeaders(y) = d /\ ~ReadsBeyond(y)
    BY <1>4, HeadersParsed DEF HeaderBlock
  <2>2. rest = ((y \o e) \o e) \o b
    BY <2>1
  <2>3. /\ rest \in Text /\ BlankLine(rest) = Len(y) + 1
        /\ SubSeq(rest, 1, (Len(y) + 1) - 1) = y
        /\ SubSeq(rest, (Len(y) + 1) + 2, Len(rest)) = b
    BY <2>1, <2>2, BlankLineFound
  <2>4. Len(y) + 1 # 0
    <3>1. Len(y) \in Nat
      BY TextProperties
    <3> QED
      BY <3>1
  <2>4a. rest \in Text /\ ~Contains(l, EOL) /\ l \in Text
    BY <1>2, <2>3
  <2> HIDE DEF rest, h
  <2>5. ParseText((l \o e) \o rest) =
          IF BlankLine(rest) = 0 \/ ReadsBeyond(SubSeq(rest, 1, BlankLine(rest) - 1)) THEN Broken
          ELSE Completed(FromLine(m, u, v), ParseHeaders(SubSeq(rest, 1, BlankLine(rest) - 1)),
                         SubSeq(rest, BlankLine(rest) + 2, Len(rest)), ParseParams(u))
    BY <1>1, <1>2, <2>4a, ParseTextOfLine
  <2> QED
    BY <2>1, <2>3, <2>4, <2>5, Zenon DEF text
<1>5. ASSUME d = <<>>, b = <<>> PROVE ParseText(text) = Broken
  <2>1. h = <<>>
    <3>1. Len(d) = 0
      BY <1>5, EmptySeq
    <3>2. HeaderLines(d) = <<>>
      <4>1. HeaderLines(d) \in Seq(Text) /\ Len(HeaderLines(d)) = 0
        BY <3>1, HeaderLists
      <4> QED
        BY <4>1, EmptySeq
    <3> QED
      BY <3>2, FlattenNone, Zenon
  <2>2. rest = e
    BY <1>5, <2>1, NoBlankLine
  <2>3. rest \in Text /\ BlankLine(rest) = 0
    BY <2>2, NoBlankLine
  <2>3a. BlankLine(rest) = 0 /\ rest \in Text /\ ~Contains(l, EOL) /\ l \in Text
    BY <1>2, <2>3
  <2> HIDE DEF rest, h
  <2>4. ParseText((l \o e) \o rest) =
          IF BlankLine(rest) = 0 \/ ReadsBeyond(SubSeq(rest, 1, BlankLine(rest) - 1)) THEN Broken
          ELSE Completed(FromLine(m, u, v), ParseHeaders(SubSeq(rest, 1, BlankLine(rest) - 1)),
                         SubSeq(rest, BlankLine(rest) + 2, Len(rest)), ParseParams(u))
    BY <1>1, <1>2, <2>3a, ParseTextOfLine
  <2> QED
    BY <2>3, <2>4, Zenon DEF text
<1> HIDE DEF text, h
<1>6. /\ d # <<>> => ParseText(WholeText(l, h, b)) = Completed(FromLine(m, u, v), d, b, ParseParams(u))
      /\ d = <<>> /\ b = <<>> => ParseText(WholeText(l, h, b)) = Broken
  BY <1>3, <1>4, <1>5, Zenon
<1> QED
  BY <1>6 DEF l, h

\* A clean request that is serialized is parsed as what describes it.
LEMMA ParsedAsDescribed ==
  ASSUME NoSeparators, NEW r \in Request, CleanRequest(r), CleanValues(r)
  PROVE  LET p == ParseText(FlattenSeq(Pieces(r))) IN
         IF r.headers = <<>> /\ r.body = None THEN p = Broken
         ELSE p.status = "ok" /\ p.req = Described(r)
<1> DEFINE d == Described(r)
           m == d.method
           u == d.url
           v == d.version
           h == d.headers
           b == d.body
           text == WholeText(LineText(m, u, v), FlattenSeq(HeaderLines(h)), b)
<1>1. /\ m \in Methods \cap Text /\ CleanWord(m) /\ u \in Text /\ CleanUrl(u) /\ v \in Text /\ CleanWord(v)
      /\ ParseParams(u) = d.params
  <2> HIDE DEF d
  <2>1. DescribesLine(r, d)
    BY LineDescribed DEF d
  <2> QED
    BY <2>1 DEF DescribesLine
<1>2. /\ h \in Seq(Text \X Text) /\ \A i \in 1..Len(h) : CleanHeader(h[i])
      /\ h = <<>> <=> r.headers = <<>> /\ r.body = None
  BY HeadersDescribed
<1>3. b \in Text /\ (r.body = None => b = <<>>)
  <2>1. r.body \in Text \cup {None}
    BY DEF Request
  <2>2. d.body = IF r.body = None THEN <<>> ELSE r.body
    BY DEF Described, Default
  <2> QED
    BY <2>1, <2>2, WidthEmpty
<1>4. FlattenSeq(Pieces(r)) = text
  BY TextDescribed
<1>5. d = [method |-> m, url |-> u, version |-> v, headers |-> h, params |-> d.params, body |-> b]
  BY DEF Described
<1> HIDE DEF d
<1>6. /\ h # <<>> => ParseText(text) = Completed(FromLine(m, u, v), h, b, ParseParams(u))
      /\ h = <<>> /\ b = <<>> => ParseText(text) = Broken
  <2> HIDE DEF m, u, v, h, b
  <2> QED
    BY <1>1, <1>2, <1>3, WholeTextParsed
<1> HIDE DEF m, u, v, h, b, text
<1>7. CASE r.headers = <<>> /\ r.body = None
  <2>1. ParseText(text) = Broken
    BY <1>2, <1>3, <1>6, <1>7
  <2> QED
    BY <1>4, <1>7, <2>1
<1>8. CASE ~(r.headers = <<>> /\ r.body = None)
  <2>1. ParseText(text) = Completed(FromLine(m, u, v), h, b, ParseParams(u))
    BY <1>2, <1>6, <1>8
  <2>2. Completed(FromLine(m, u, v), h, b, d.params)
          = [status |-> "ok", lost |-> 0,
             req |-> [method |-> m, url |-> u, version |-> v, headers |-> h, params |-> d.params, body |-> b]]
    BY MembersSet
  <2>3. ParseText(text) = [status |-> "ok", lost |-> 0, req |-> d]
    BY <1>1, <1>5, <2>1, <2>2, Zenon
  <2>4. ParseText(text).status = "ok" /\ ParseText(text).req = d
    BY <2>3
  <2> QED
    BY <1>4, <1>8, <2>4 DEF d
<1> QED
  BY <1>7, <1>8

-----------------------------------------------------------------------------
(***************************************************************************)
(* What is parsed holds no separators: fields are made of the other words  *)
(* of a text, and what is cut from them as well.                           *)
(***************************************************************************)
LEMMA OtherWords ==
  ASSUME NEW A, NEW t \in Seq(A), NEW w, w \notin A PROVE ~Contains(t, w)
<1>1. \A i \in 1..Len(t) : t[i] \in A
  BY ElementOfSeq
<1> QED
  BY <1>1 DEF Contains

LEMMA MoreFieldsOver ==
  ASSUME NEW text, NEW sep, NEW A, NEW i, text[i] = sep \/ text[i] \in A,
         NEW before \in Seq(Seq(A) \ {<<>>})
  PROVE  MoreFields(text, sep, i, before) \in Seq(Seq(A) \ {<<>>})
<1> DEFINE F == Seq(A) \ {<<>>}
           x == text[i]
<1>1. MoreFields(text, sep, i, before) \in
        {before, Append(before, <<x>>), [before EXCEPT ![Len(before)] = Append(before[Len(before)], x)]}
  BY DEF MoreFields
<1>2. x = sep => MoreFields(text, sep, i, before) = before
  BY DEF MoreFields
<1> HIDE DEF x
<1>3. CASE x \in A
  <2>1. <<x>> \in F
    BY <1>3
  <2>2. Append(before, <<x>>) \in Seq(F)
    <3> HIDE DEF F
    <3> QED
      BY <2>1, AppendProperties DEF F
  <2>3. [before EXCEPT ![Len(before)] = Append(before[Len(before)], x)] \in Seq(F)
    <3>1. CASE before = <<>>
      <4>1. [before EXCEPT ![Len(before)] = Append(before[Len(before)], x)] = before
        BY <3>1
      <4> QED
        BY <4>1
    <3>2. CASE before # <<>>
      <4>1. Len(before) \in 1..Len(before)
        BY <3>2, EmptySeq
      <4>2. before[Len(before)] \in Seq(A)
        BY <4>1, ElementOfSeq
      <4>3. Append(before[Len(before)], x) \in F
        BY <4>2, <1>3, AppendProperties
      <4> HIDE DEF F
      <4> QED
        BY <4>1, <4>3, ExceptSeq DEF F
    <3> QED
      BY <3>1, <3>2
  <2> HIDE DEF F
  <2> QED
    BY <1>1, <2>2, <2>3 DEF F
<1> QED
  BY <1>2, <1>3 DEF x

LEMMA FieldsOver ==
  ASSUME NEW text \in Text, NEW sep, NEW A, \A i \in 1..Len(text) : text[i] = sep \/ text[i] \in A
  PROVE  Fields(text, sep) \in Seq(Seq(A) \ {<<>>})
<1> DEFINE N == Len(text)
           T == Seq(Seq(A) \ {<<>>})
<1>1. N \in Nat
  BY TextProperties
<1>2. PICK f : IsFields(f, text, sep) /\ Fields(text, sep) = f[N]
  BY FieldsExist
<1>3. f[0] = <<>> /\ \A i \in 1..N : f[i] = MoreFields(text, sep, i, f[i - 1])
  BY <1>2 DEF IsFields
<1> HIDE DEF N
<1> DEFINE S == {k \in 0..N : f[k] \in T}
<1>4. 0 \in S
  <2>1. <<>> \in T /\ 0 \in 0..N
    BY <1>1, EmptySeq
  <2> HIDE DEF T
  <2> QED
    BY <1>3, <2>1
<1>5. ASSUME NEW k \in 1..N, k - 1 \in S PROVE k \in S
  <2>1. f[k - 1] \in T
    BY <1>5
  <2>2. text[k] = sep \/ text[k] \in A
    BY DEF N
  <2>3. MoreFields(text, sep, k, f[k - 1]) \in T
    BY <2>1, <2>2, MoreFieldsOver
  <2> HIDE DEF T
  <2>4. f[k] \in T
    BY <1>3, <2>3
  <2>5. k \in 0..N
    BY <1>1
  <2> QED
    BY <2>4, <2>5
<1> HIDE DEF S
<1>6. \A k \in 0..N : k \in S
  BY <1>1, <1>4, <1>5, Along
<1>7. N \in S
  BY <1>1, <1>6
<1> QED
  BY <1>2, <1>7 DEF S

LEMMA FieldsClean ==
  ASSUME NEW text \in Text, NEW sep, NEW i \in 1..Len(Fields(text, sep))
  PROVE  /\ Fields(text, sep)[i] \in Text /\ Field(Fields(text, sep)[i], sep)
         /\ \A words : Without(text, words) => Without(Fields(text, sep)[i], words)
<1> DEFINE A == {text[n] : n \in 1..Len(text)} \ {sep}
           F == Fields(text, sep)
           t == F[i]
<1>1. \A n \in 1..Len(text) : text[n] = sep \/ text[n] \in A
  OBVIOUS
<1>2. sep \notin A /\ \A w : ~Contains(text, w) => w \notin A
  BY DEF Contains
<1> HIDE DEF A
<1>3. F \in Seq(Seq(A) \ {<<>>}) /\ F \in Seq(Text)
  BY <1>1, FieldsOver, FieldsType
<1> HIDE DEF F
<1>4. t \in Seq(A) \ {<<>>} /\ t \in Text
  BY <1>3, ElementOfSeq DEF F
<1> HIDE DEF t
<1>5. \A w : w \notin A => ~Contains(t, w)
  BY <1>4, OtherWords
<1>6. ~Contains(t, sep)
  BY <1>2, <1>5
<1>7. \A words : Without(text, words) => Without(t, words)
  BY <1>2, <1>5 DEF Without
<1> QED
  BY <1>4, <1>6, <1>7 DEF Field, t, F

LEMMA PartWithout ==
  ASSUME NEW s \in Text, NEW m \in Nat, NEW n \in 0..Len(s), m >= 1, NEW w,
         \A i \in m..n : s[i] # w
  PROVE  ~Contains(SubSeq(s, m, n), w)
<1> DEFINE A == DOMAIN Words \ {w}
<1>1. Len(s) \in Nat /\ n \in Int /\ m \in Int
  BY TextProperties
<1>2. \A i \in m..n : s[i] \in A
  BY <1>1, ElementOfSeq DEF Text
<1>3. w \notin A
  OBVIOUS
<1> HIDE DEF A
<1>4. SubSeq(s, m, n) \in Seq(A)
  BY <1>1, <1>2, SubSeqProperties
<1> QED
  BY <1>3, <1>4, OtherWords

LEMMA PartClean ==
  ASSUME NEW s \in Text, NEW m \in Nat, NEW n \in 0..Len(s), m >= 1, NEW words, Without(s, words)
  PROVE  Without(SubSeq(s, m, n), words)
<1> SUFFICES ASSUME NEW w \in words PROVE ~Contains(SubSeq(s, m, n), w)
  BY DEF Without
<1>1. Len(s) \in Nat
  BY TextProperties
<1>2. ~Contains(s, w)
  BY DEF Without
<1>3. \A i \in m..n : s[i] # w
  <2>1. \A i \in m..n : i \in 1..Len(s)
    BY <1>1
  <2> QED
    BY <1>2, <2>1 DEF Contains
<1> QED
  BY <1>3, PartWithout

LEMMA PlaceFirst ==
  ASSUME NEW S, NEW s \in Seq(S), NEW w, NEW i \in 1..Len(s), i < Place(s, w)
  PROVE  s[i] # w
<1> DEFINE I == {k \in 1..Len(s) : s[k] = w}
<1>1. Len(s) \in Nat
  BY LenProperties
<1>2. Place(s, w) = IF I # {} THEN Min(I) ELSE 0
  BY DEF Place, SelectInSeq
<1>3. I # {} => \A k \in I : Min(I) <= k /\ Min(I) \in Nat
  <2>1. I \subseteq Nat
    OBVIOUS
  <2> QED
    BY <2>1, MinProperties
<1>4. SUFFICES ASSUME s[i] = w PROVE FALSE
  OBVIOUS
<1>5. i \in I /\ i \in Nat
  BY <1>1, <1>4
<1> HIDE DEF I
<1> QED
  BY <1>2, <1>3, <1>5

LEMMA CutClean ==
  ASSUME NEW f \in Text, NEW sep, Contains(f, sep), NEW words, Without(f, words)
  PROVE  /\ ~Contains(Cut(f, sep)[1], sep)
         /\ Without(Cut(f, sep)[1], words) /\ Without(Cut(f, sep)[2], words)
<1> DEFINE p == Place(f, sep)
<1>1. Len(f) \in Nat /\ p \in 1..Len(f)
  <2>1. Len(f) \in Nat /\ p \in 0..Len(f) /\ p # 0
    BY TextProperties, PlaceRange DEF Text
  <2> QED
    BY <2>1
<1>2. \A i \in 1..Len(f) : i < p => f[i] # sep
  BY PlaceFirst DEF Text
<1>3. Cut(f, sep)[1] = SubSeq(f, 1, p - 1) /\ Cut(f, sep)[2] = SubSeq(f, p + 1, Len(f))
  BY DEF Cut
<1> HIDE DEF p
<1>4. /\ 1 \in Nat /\ 1 >= 1 /\ p - 1 \in 0..Len(f) /\ p + 1 \in Nat /\ p + 1 >= 1
      /\ Len(f) \in 0..Len(f)
  BY <1>1
<1>5. \A i \in 1..(p - 1) : f[i] # sep
  BY <1>1, <1>2
<1>6. ~Contains(SubSeq(f, 1, p - 1), sep)
  BY <1>4, <1>5, PartWithout
<1>7. Without(SubSeq(f, 1, p - 1), words)
  BY <1>4, PartClean
<1>8. Without(SubSeq(f, p + 1, Len(f)), words)
  BY <1>4, PartClean
<1> QED
  BY <1>3, <1>6, <1>7, <1>8

-----------------------------------------------------------------------------
(***************************************************************************)
(* What parse_http_request finds is clean, whatever it is given.           *)
(***************************************************************************)
LEMMA HeadersClean ==
  ASSUME NEW text \in Text, NEW i \in 1..Len(ParseHeaders(text))
  PROVE  CleanKey(ParseHeaders(text)[i][1])
<1> DEFINE F == Lines(text)
           N == Len(F)
           C == {h \in Text \X Text : CleanKey(h[1])}
<1>1. PICK f : IsHeaders(f, text) /\ ParseHeaders(text) = f[N]
  BY HeadersExist
<1>2. /\ f[0] = <<>>
      /\ \A k \in 1..N : f[k] = IF Contains(F[k], ":") THEN Append(f[k - 1], LineHeader(text, k)) ELSE f[k - 1]
  BY <1>1 DEF IsHeaders
<1>3. N \in Nat
  BY LinesType, LenProperties
<1>4. ASSUME NEW k \in 1..N, Contains(F[k], ":") PROVE LineHeader(text, k) \in C
  <2> DEFINE E == Ended(text)
             t == F[k]
             c == Cut(t, ":")
  <2>1. E \in Text /\ F = Fields(E, EOL) /\ Without(E, {NewLine})
    <3>1. E \in Text
      BY EndedType
    <3>2. \A i_1 \in 1..Len(E) : E[i_1] # NewLine
      <4>1. Len(E) = Len(text)
        BY EndedType
      <4>2. \A i_1 \in 1..Len(text) : Ended(text)[i_1] = IF text[i_1] = NewLine THEN EOL ELSE text[i_1]
        BY DEF Ended
      <4> QED
        BY <4>1, <4>2 DEF EOL, NewLine
    <3>3. ~Contains(E, NewLine)
      BY <3>2 DEF Contains
    <3> QED
      BY <3>1, <3>3 DEF Lines, Ended, Without
  <2> HIDE DEF E
  <2>2. t \in Text /\ Field(t, EOL) /\ Without(t, {NewLine})
    BY <2>1, FieldsClean
  <2>3. Contains(t, ":")
    BY <1>4
  <2>4. HeaderValue(text, k) \in Text
    BY <1>4, HeaderValueType
  <2> HIDE DEF t
  <2>5. Without(t, {EOL, NewLine})
    BY <2>2 DEF Field, Without
  <2>6. ~Contains(c[1], ":") /\ Without(c[1], {EOL, NewLine})
    BY <2>2, <2>3, <2>5, CutClean
  <2>7. c[1] \in Text
    BY <2>2, <2>3, CutType
  <2> HIDE DEF c
  <2>8. CleanKey(c[1])
    BY <2>6 DEF CleanKey, Without
  <2> DEFINE x == LineHeader(text, k)
  <2>9. x = <<c[1], HeaderValue(text, k)>>
    BY DEF LineHeader, c, t
  <2> HIDE DEF x
  <2>10. x \in Text \X Text /\ x[1] = c[1]
    BY <2>4, <2>7, <2>9
  <2> QED
    BY <2>8, <2>10 DEF x
<1> HIDE DEF F, N, C
<1> DEFINE S == {k \in 0..N : f[k] \in Seq(C)}
<1>5. 0 \in S
  <2>1. <<>> \in Seq(C) /\ 0 \in 0..N
    BY <1>3, EmptySeq
  <2> QED
    BY <1>2, <2>1
<1>6. ASSUME NEW k \in 1..N, k - 1 \in S PROVE k \in S
  <2>1. f[k - 1] \in Seq(C) /\ k \in 0..N
    BY <1>3, <1>6
  <2>2. CASE Contains(F[k], ":")
    <3>1. Append(f[k - 1], LineHeader(text, k)) \in Seq(C)
      BY <1>4, <2>1, <2>2, AppendProperties
    <3> QED
      BY <1>2, <2>1, <2>2, <3>1
  <2>3. CASE ~Contains(F[k], ":")
    BY <1>2, <2>1, <2>3
  <2> QED
    BY <2>2, <2>3
<1> HIDE DEF S
<1>7. \A k \in 0..N : k \in S
  BY <1>3, <1>5, <1>6, Along
<1>8. N \in S
  BY <1>3, <1>7
<1>9. ParseHeaders(text) \in Seq(C)
  BY <1>1, <1>8 DEF S
<1>10. ParseHeaders(text)[i] \in C
  BY <1>9, ElementOfSeq
<1> QED
  BY <1>10 DEF C

LEMMA SameLength == \A m, n \in Nat : 1..m = 1..n => m = n
<1>1. ASSUME NEW m \in Nat, NEW n \in Nat, 1..m = 1..n PROVE ~(m < n)
  <2>1. n \notin 1..m \/ ~(m < n)
    OBVIOUS
  <2>2. n \in 1..n \/ n = 0
    OBVIOUS
  <2> QED
    BY <1>1, <2>1, <2>2
<1>2. \A m, n \in Nat : ~(m < n) /\ ~(n < m) => m = n
  OBVIOUS
<1> QED
  BY <1>1, <1>2

LEMMA NoPlace == \A i : i \notin 1..0
OBVIOUS

LEMMA ParamsClean ==
  ASSUME NEW url \in Text, Without(url, {" ", EOL}),
         \A i \in 1..Len(ParamFields(url)) : Contains(ParamFields(url)[i], "="),
         NEW i \in 1..Len(ParseParams(url))
  PROVE  CleanParam(ParseParams(url)[i])
<1> DEFINE F == ParamFields(url)
           t == F[i]
           c == Cut(t, "=")
<1>1. F \in Seq(Text)
  BY ParamFieldsType
<1>2. i \in 1..Len(F) /\ ParseParams(url)[i] = c
  <2>1. ParseParams(url) = [k \in 1..Len(F) |-> Cut(F[k], "=")]
    BY DEF ParseParams
  <2>2. Len(F) \in Nat
    BY <1>1, LenProperties
  <2>3. ParseParams(url) \in Seq(Text \X Text)
    BY ParseParamsType
  <2> DEFINE p == ParseParams(url)
  <2>4. Len(p) \in Nat /\ DOMAIN p = 1..Len(p)
    BY <2>3, LenProperties
  <2> HIDE DEF p
  <2>5. p = [k \in 1..Len(F) |-> Cut(F[k], "=")]
    BY <2>1 DEF p
  <2> HIDE DEF F
  <2>6. Len(p) = Len(F)
    <3>1. DOMAIN p = 1..Len(F)
      BY <2>5
    <3>2. Len(p) \in Nat /\ 1..Len(p) = 1..Len(F)
      BY <2>4, <3>1
    <3> QED
      BY <2>2, <3>2, SameLength, Zenon
  <2>7. i \in 1..Len(p)
    BY DEF p
  <2>8. i \in 1..Len(F)
    BY <2>6, <2>7
  <2>9. p[i] = Cut(F[i], "=")
    BY <2>5, <2>8
  <2> QED
    BY <2>8, <2>9 DEF p
<1>3. Contains(url, "?")
  <2>1. ASSUME ~Contains(url, "?") PROVE FALSE
    <3>1. F = <<>>
      BY <2>1 DEF ParamFields
    <3>2. Len(F) = 0
      BY <3>1, EmptySeq
    <3>3. i \in 1..Len(F)
      BY <1>2
    <3> HIDE DEF F
    <3>4. i \in 1..0
      BY <3>2, <3>3, Zenon
    <3> QED
      BY <3>4, NoPlace, Zenon
  <2> QED
    BY <2>1
<1> DEFINE query == Cut(url, "?")[2]
<1>4. query \in Text /\ Without(query, {" ", EOL})
  BY <1>3, CutType, CutClean
<1>5. F = Fields(query, "&")
  BY <1>3 DEF ParamFields
<1> HIDE DEF query
<1>6. t \in Text /\ Field(t, "&") /\ Without(t, {" ", EOL})
  BY <1>2, <1>4, <1>5, FieldsClean
<1>7. Contains(t, "=")
  BY <1>2
<1> HIDE DEF t
<1>8. Without(t, {"&", " ", EOL})
  BY <1>6 DEF Field, Without
<1>9. ~Contains(c[1], "=") /\ Without(c[1], {"&", " ", EOL}) /\ Without(c[2], {"&", " ", EOL})
  BY <1>6, <1>7, <1>8, CutClean
<1> HIDE DEF c
<1>10. CleanParam(c)
  BY <1>9 DEF CleanParam, Without
<1> QED
  BY <1>2, <1>10

LEMMA LineClean ==
  ASSUME NEW line \in Text, ~Contains(line, EOL), ParseLine(line).status = "ok"
  PROVE  \E m, u, v \in Text : /\ ParseLine(line) = FromLine(m, u, v)
                               /\ CleanWord(m) /\ CleanWord(u) /\ CleanWord(v)
<1> DEFINE f == Fields(line, " ")
<1>1. ParseLine(line) =
        IF f = <<>> THEN Broken
        ELSE IF line[1] = " " THEN Refused(1)
        ELSE IF Len(f) < 3 THEN Refused(1 + Len(f))
        ELSE FromLine(f[1], f[2], f[3])
  BY DEF ParseLine, FromLine
<1>2. f \in Seq(Text) /\ Len(f) \in Nat
  BY FieldsType, LenProperties
<1>3. \A n : Broken.status # "ok" /\ Refused(n).status # "ok"
  BY DEF Broken, Refused
<1>4. ASSUME NEW i \in 1..Len(f) PROVE f[i] \in Text /\ CleanWord(f[i])
  <2>1. f[i] \in Text /\ Field(f[i], " ") /\ Without(f[i], {EOL})
    <3>1. Without(line, {EOL})
      BY DEF Without
    <3> QED
      BY <3>1, FieldsClean
  <2> HIDE DEF f
  <2> QED
    BY <2>1 DEF CleanWord, Without, Field
<1> HIDE DEF f
<1>5. ~(Len(f) < 3) /\ ParseLine(line) = FromLine(f[1], f[2], f[3])
  BY <1>1, <1>3
<1>6. 1 \in 1..Len(f) /\ 2 \in 1..Len(f) /\ 3 \in 1..Len(f)
  BY <1>2, <1>5
<1> QED
  BY <1>4, <1>5, <1>6

LEMMA ParseTextClean ==
  ASSUME NEW text \in Text, ParseText(text).status = "ok"
  PROVE  CleanRequest(ParseText(text).req)
<1> DEFINE eol == Place(text, EOL)
           first == FirstLine(text)
           line == ParseLine(first)
           rest == SubSeq(text, eol + 1, Len(text))
           blank == BlankLine(rest)
           url == line.req.url
           head == SubSeq(rest, 1, blank - 1)
           headers == ParseHeaders(head)
           body == SubSeq(rest, blank + 2, Len(rest))
           params == ParseParams(url)
           beyond == eol = 0 \/ blank = 0 \/ ReadsBeyond(head)
           badParam == \E i \in 1..Len(ParamFields(url)) : ~Contains(ParamFields(url)[i], "=")
<1>1. ParseText(text) =
        IF line.status # "ok" THEN line
        ELSE IF beyond THEN Broken
        ELSE IF line.req.method \notin Methods THEN Refused(0)
        ELSE IF badParam THEN Broken
        ELSE Completed(line, headers, body, params)
  BY DEF ParseText, Completed, FirstLine
<1>2. \A n : Broken.status # "ok" /\ Refused(n).status # "ok"
  BY DEF Broken, Refused
<1>3. Len(text) \in Nat /\ eol \in 0..Len(text)
  BY TextProperties, PlaceRange DEF Text
<1>4. \A i \in 1..Len(text) : i < eol => text[i] # EOL
  BY PlaceFirst DEF Text
<1>5. eol # 0 => rest \in Text /\ first \in Text /\ ~Contains(first, EOL)
  <2>0. eol # 0 => first = SubSeq(text, 1, eol - 1)
    BY DEF FirstLine
  <2> HIDE DEF eol, first
  <2> SUFFICES ASSUME eol # 0 PROVE rest \in Text /\ first \in Text /\ ~Contains(first, EOL)
    OBVIOUS
  <2>1. /\ eol - 1 \in 0..Len(text) /\ 1 \in Nat /\ 1 >= 1 /\ eol + 1 \in Nat /\ eol + 1 >= 1
        /\ Len(text) \in 0..Len(text)
    BY <1>3
  <2>2. \A i \in 1..(eol - 1) : text[i] # EOL
    BY <1>3, <1>4
  <2> QED
    BY <2>0, <2>1, <2>2, PartIsText, PartWithout
<1> HIDE DEF eol, first, rest
<1>6. rest \in Text /\ blank # 0 => head \in Text
  <2> SUFFICES ASSUME rest \in Text, blank # 0 PROVE head \in Text
    OBVIOUS
  <2>1. blank \in Nat /\ blank <= Len(rest) - 1 /\ Len(rest) \in Nat
    BY BlankLineRange, TextProperties
  <2> HIDE DEF blank
  <2>2. blank - 1 \in 0..Len(rest) /\ 1 \in Nat /\ 1 >= 1
    BY <2>1
  <2> QED
    BY <2>2, PartIsText
<1> HIDE DEF line, blank, head, headers, body, params, badParam, beyond
<1>7. /\ eol # 0 /\ line.status = "ok" /\ blank # 0 /\ ~badParam
      /\ ParseText(text) = Completed(line, headers, body, params)
  <2>1. line.status = "ok" /\ ~beyond /\ ~badParam /\ ParseText(text) = Completed(line, headers, body, params)
    BY <1>1, <1>2
  <2> QED
    BY <2>1 DEF beyond
<1>8. PICK m \in Text, u \in Text, v \in Text :
        line = FromLine(m, u, v) /\ CleanWord(m) /\ CleanWord(u) /\ CleanWord(v)
  BY <1>5, <1>7, LineClean DEF line
<1>9. url = u
  BY <1>8 DEF FromLine, Fresh
<1>10. \A i \in 1..Len(ParamFields(u)) : Contains(ParamFields(u)[i], "=")
  BY <1>7, <1>9 DEF badParam
<1>11. \A i \in 1..Len(headers) : CleanKey(headers[i][1])
  BY <1>5, <1>6, <1>7, HeadersClean DEF headers
<1>12. \A i \in 1..Len(params) : CleanParam(params[i])
  <2>1. Without(u, {" ", EOL})
    BY <1>8 DEF CleanWord
  <2>2. params = ParseParams(u)
    BY <1>9 DEF params
  <2> QED
    BY <1>10, <2>1, <2>2, ParamsClean
<1>13. ParseText(text).req =
         [method |-> m, url |-> u, version |-> v, headers |-> headers, params |-> params, body |-> body]
  <2>1. Completed(FromLine(m, u, v), headers, body, params)
          = [status |-> "ok", lost |-> 0,
             req |-> [method |-> m, url |-> u, version |-> v, headers |-> headers, params |-> params, body |-> body]]
    BY MembersSet
  <2>2. ParseText(text) = Completed(FromLine(m, u, v), headers, body, params)
    BY <1>7, <1>8
  <2> QED
    BY <2>1, <2>2
<1> DEFINE r == [method |-> m, url |-> u, version |-> v, headers |-> headers, params |-> params, body |-> body]
<1>14. r.url = u /\ r.version = v /\ r.headers = headers /\ r.params = params
  OBVIOUS
<1> HIDE DEF r
<1>15. CleanRequest(r)
  BY <1>8, <1>10, <1>11, <1>12, <1>14 DEF CleanRequest, CleanUrl
<1> QED
  BY <1>13, <1>15 DEF r

-----------------------------------------------------------------------------
(***************************************************************************)
(* The request is clean at any time, whatever was added or parsed.         *)
(***************************************************************************)
CleanInv == req # None => CleanRequest(req)

LEMMA ListLonger ==
  ASSUME NEW l \in Seq(Text \X Text), NEW x \in Text \X Text, NEW C,
         \A i \in 1..Len(l) : l[i] \in C, x \in C
  PROVE  \A i \in 1..Len(Append(l, x)) : Append(l, x)[i] \in C
<1> DEFINE a == Append(l, x)
           n == Len(l)
<1>1. n \in Nat /\ Len(a) = n + 1 /\ a[n + 1] = x /\ \A i \in 1..n : a[i] = l[i]
  BY AppendProperties, LenProperties
<1>2. \A i \in 1..n : l[i] \in C
  OBVIOUS
<1> HIDE DEF a, n
<1>3. \A i \in 1..Len(a) : i = n + 1 \/ i \in 1..n
  BY <1>1
<1>4. \A i \in 1..Len(a) : a[i] \in C
  BY <1>1, <1>2, <1>3, Zenon
<1> QED
  BY <1>4 DEF a

LEMMA CleanMember ==
  ASSUME NEW r \in Request, CleanRequest(r), NEW v,
         NEW field \in {"method", "url", "version", "body"},
         field = "url" => CleanUrl(v), field = "version" => CleanWord(v)
  PROVE  CleanRequest([r EXCEPT ![field] = v])
<1> DEFINE s == [r EXCEPT ![field] = v]
<1>1. /\ s.headers = r.headers /\ s.params = r.params
      /\ s.url = (IF field = "url" THEN v ELSE r.url)
      /\ s.version = (IF field = "version" THEN v ELSE r.version)
  BY DEF Request
<1> HIDE DEF s
<1>2. CleanRequest(s)
  BY <1>1 DEF CleanRequest
<1> QED
  BY <1>2 DEF s

LEMMA CleanPair ==
  ASSUME NEW r \in Request, CleanRequest(r), NEW field \in {"headers", "params"},
         NEW pair \in Text \X Text,
         field = "headers" => CleanKey(pair[1]), field = "params" => CleanParam(pair)
  PROVE  CleanRequest([r EXCEPT ![field] = Append(r[field], pair)])
<1> DEFINE s == [r EXCEPT ![field] = Append(r[field], pair)]
           H == {h \in Text \X Text : CleanKey(h[1])}
           P == {p \in Text \X Text : CleanParam(p)}
<1>1. /\ s.url = r.url /\ s.version = r.version
      /\ s.headers = (IF field = "headers" THEN Append(r.headers, pair) ELSE r.headers)
      /\ s.params = (IF field = "params" THEN Append(r.params, pair) ELSE r.params)
  BY DEF Request
<1>2. r.headers \in Seq(Text \X Text) /\ r.params \in Seq(Text \X Text)
  BY DEF Request
<1>3. (\A i \in 1..Len(r.headers) : r.headers[i] \in H) /\ \A i \in 1..Len(r.params) : r.params[i] \in P
  BY <1>2, ElementOfSeq DEF CleanRequest
<1>4. (field = "headers" => pair \in H) /\ (field = "params" => pair \in P)
  OBVIOUS
<1>5. (\A h \in H : CleanKey(h[1])) /\ \A p \in P : CleanParam(p)
  OBVIOUS
<1> HIDE DEF H, P, s
<1>6. \A i \in 1..Len(s.headers) : s.headers[i] \in H
  <2>1. CASE field = "headers"
    <3>1. \A i \in 1..Len(Append(r.headers, pair)) : Append(r.headers, pair)[i] \in H
      BY <1>2, <1>3, <1>4, <2>1, ListLonger
    <3> QED
      BY <1>1, <2>1, <3>1, Zenon
  <2>2. CASE field # "headers"
    BY <1>1, <1>3, <2>2, Zenon
  <2> QED
    BY <2>1, <2>2
<1>7. \A i \in 1..Len(s.params) : s.params[i] \in P
  <2>1. CASE field = "params"
    <3>1. \A i \in 1..Len(Append(r.params, pair)) : Append(r.params, pair)[i] \in P
      BY <1>2, <1>3, <1>4, <2>1, ListLonger
    <3> QED
      BY <1>1, <2>1, <3>1, Zenon
  <2>2. CASE field # "params"
    BY <1>1, <1>3, <2>2, Zenon
  <2> QED
    BY <2>1, <2>2
<1>8. CleanRequest(s)
  BY <1>1, <1>5, <1>6, <1>7 DEF CleanRequest
<1> QED
  BY <1>8 DEF s

LEMMA StaysClean ==
  ASSUME NoSeparators, TypeOK, CleanInv, Next
  PROVE  CleanInv'
<1>1. req # None => req \in Request /\ CleanRequest(req)
  BY DEF TypeOK, CleanInv
<1>2. ASSUME Exists, NEW field \in {"method", "url", "version", "body"}, NEW v, Store(field, v),
             field = "url" => CleanUrl(v), field = "version" => CleanWord(v)
      PROVE  CleanInv'
  <2>1. req' = [req EXCEPT ![field] = v] /\ req \in Request /\ CleanRequest(req)
    BY <1>1, <1>2 DEF Exists, Store
  <2>2. CleanRequest([req EXCEPT ![field] = v])
    BY <1>2, <2>1, CleanMember
  <2> QED
    BY <2>1, <2>2 DEF CleanInv
<1>3. ASSUME NEW field \in {"headers", "params"}, NEW pair \in Text \X Text, Add(field, pair),
             field = "headers" => CleanKey(pair[1]), field = "params" => CleanParam(pair)
      PROVE  CleanInv'
  <2>1. req' = [req EXCEPT ![field] = Append(req[field], pair)] /\ req \in Request /\ CleanRequest(req)
    BY <1>1, <1>3 DEF Exists, Add
  <2>2. CleanRequest([req EXCEPT ![field] = Append(req[field], pair)])
    BY <1>3, <2>1, CleanPair
  <2> QED
    BY <2>1, <2>2 DEF CleanInv
<1>4. CASE InitRequest
  <2>1. req' = Fresh
    BY <1>4 DEF InitRequest
  <2>2. Fresh.url = None /\ Fresh.version = None /\ Fresh.headers = <<>> /\ Fresh.params = <<>>
    BY DEF Fresh
  <2>3. \A i \in 1..Len(<<>>) : FALSE
    BY EmptySeq
  <2>4. CleanRequest(Fresh)
    BY <2>2, <2>3 DEF CleanRequest
  <2> QED
    BY <2>1, <2>4 DEF CleanInv
<1>5. CASE FreeRequest
  BY <1>5 DEF FreeRequest, CleanInv
<1>6. CASE SetHttpVersion
  <2>1. Exists /\ Store("version", <<"HTTP/1.1">>)
    BY <1>6 DEF SetHttpVersion
  <2> QED
    BY <1>2, <2>1, DefaultsClean
<1>7. CASE \E m \in SomeMethods : SetMethod(m)
  BY <1>2, <1>7 DEF SetMethod
<1>8. CASE \E u \in Urls : SetUrl(u)
  BY <1>2, <1>8 DEF SetUrl, NoSeparators
<1>9. CASE \E b \in RequestBodies : SetBody(b)
  BY <1>2, <1>9 DEF SetBody
<1>10. CASE \E h \in Headers : Add("headers", h)
  BY <1>3, <1>10, ParserLibraryAssumption DEF NoSeparators
<1>11. CASE \E p \in Params : Add("params", p)
  BY <1>3, <1>11, ParserLibraryAssumption DEF NoSeparators
<1>12. ASSUME NEW t \in RawTexts, ParseHttpRequest(t) PROVE CleanInv'
  <2>1. t \in Text
    BY ParserLibraryAssumption
  <2>2. req' = IF ParseText(t).status = "ok" THEN ParseText(t).req ELSE req
    BY <1>12 DEF ParseHttpRequest
  <2>3. ParseText(t).status = "ok" => CleanRequest(ParseText(t).req)
    BY <2>1, ParseTextClean
  <2> QED
    BY <1>1, <2>2, <2>3 DEF CleanInv
<1> QED
  BY <1>4, <1>5, <1>6, <1>7, <1>8, <1>9, <1>10, <1>11, <1>12 DEF Next

(***************************************************************************)
(* A request that serialize_request has printed is parsed by               *)
(* parse_http_request as itself: every request that can be built from      *)
(* values without separators or comes from parsing any text, with any      *)
(* number of headers and parameters, for every buffer, unless the value of *)
(* a header holds the end of a line.                                       *)
(***************************************************************************)
THEOREM ParserRoundTrip == NoSeparators => (Spec => []RoundTrip)
<1> SUFFICES ASSUME NoSeparators PROVE Spec => []RoundTrip
  OBVIOUS
<1>1. Init => CleanInv
  BY DEF Init, CleanInv
<1>2. TypeOK /\ CleanInv /\ [Next]_vars => CleanInv'
  <2>1. TypeOK /\ CleanInv /\ Next => CleanInv'
    BY StaysClean
  <2>2. CleanInv /\ UNCHANGED vars => CleanInv'
    BY DEF vars, CleanInv
  <2> QED
    BY <2>1, <2>2
<1>3. TypeOK /\ CleanInv => RoundTrip
  <2> SUFFICES ASSUME TypeOK, CleanInv, req # None, Serialize(req).ok, CleanValues(req)
               PROVE  LET p == ParseText(Serialize(req).text) IN
                      IF req.headers = <<>> /\ req.body = None THEN p = Broken
                      ELSE p.status = "ok" /\ p.req = Described(req)
    BY DEF RoundTrip, CleanValues
  <2>1. req \in Request /\ CleanRequest(req)
    BY DEF TypeOK, CleanInv
  <2>2. Serialize(req).text = FlattenSeq(Pieces(req))
    BY <2>1, PiecesType, SerializedText
  <2>3. LET p == ParseText(FlattenSeq(Pieces(req))) IN
        IF req.headers = <<>> /\ req.body = None THEN p = Broken
        ELSE p.status = "ok" /\ p.req = Described(req)
    BY <2>1, ParsedAsDescribed
  <2> QED
    BY <2>2, <2>3
<1> QED
  BY ParserTypeCorrect, <1>1, <1>2, <1>3, PTL DEF Spec
=============================================================================
