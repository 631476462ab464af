------------------------------ MODULE Chunked ------------------------------
(***************************************************************************)
(* The chunked encoding of a body: decode_chunked of the C client, and the *)
(* encoder a server would use.  A byte is a number: a hexadecimal digit is *)
(* its value, Blank is a white space that is neither CR nor LF, X the x of *)
(* 0x, and all bytes strtoul makes nothing of (NUL and ; with them) are    *)
(* Other.  Indices are those of the code plus one.                         *)
(***************************************************************************)
EXTENDS Naturals, Sequences, SequencesExt, FiniteSetsExt

CONSTANTS
  LineMax,  \* the bytes of the buffer a size line is copied to
  Word      \* how many values a size has: sums are taken modulo Word

ASSUME ChunkedAssumption ==
  /\ LineMax \in Nat \ {0, 1}
  /\ Word \in Nat /\ Word > 15

Digit == 0..15
CR == 16
LF == 17
Other == 18
Blank == 19
Plus == 20
Minus == 21
X == 22
Space == {CR, LF, Blank}
Byte == Digit \cup Space \cup {Other, Plus, Minus, X}

\* Never: the call does not return.
Rejected == [ok |-> FALSE, returned |-> TRUE, body |-> <<>>]
Accepted(b) == [ok |-> TRUE, returned |-> TRUE, body |-> b]
Never == [ok |-> FALSE, returned |-> FALSE, body |-> <<>>]

-----------------------------------------------------------------------------
IsLineEnd(in, i) == i < Len(in) /\ in[i] = CR /\ in[i + 1] = LF

\* The first end of a line at i or behind it, and Len(in) if there is none.
LineEnd(in, i) == Min({j \in i..Len(in) : IsLineEnd(in, j)} \cup {Len(in)})

(***************************************************************************)
(* strtoul(line, NULL, 16): white space (CR and LF with it), a sign and 0x *)
(* are skipped; the number ends with the digits and is 0 without them.  A  *)
(* number with a minus is taken from 0 modulo Word.                        *)
(***************************************************************************)
AfterSpace(line) ==
  LET first == SelectInSeq(line, LAMBDA c : c \notin Space)
  IN  IF first = 0 THEN <<>> ELSE SubSeq(line, first, Len(line))

Signed(s) == s # <<>> /\ s[1] \in {Plus, Minus}
Negative(s) == s # <<>> /\ s[1] = Minus
AfterSign(s) == IF Signed(s) THEN Tail(s) ELSE s
AfterPrefix(s) == IF Len(s) > 1 /\ s[1] = 0 /\ s[2] = X THEN Tail(Tail(s)) ELSE s

\* The value of the leading digits.
Value(s) ==
  LET end == SelectInSeq(s, LAMBDA c : c \notin Digit)
      n == IF end = 0 THEN Len(s) ELSE end - 1
      value[k \in 0..n] == IF k = 0 THEN 0 ELSE 16 * value[k - 1] + s[k]
  IN  value[n]

Magnitude(line) == Value(AfterPrefix(AfterSign(AfterSpace(line))))

SizeOf(line) ==
  IF Negative(AfterSpace(line)) THEN (Word - Magnitude(line)) % Word ELSE Magnitude(line)

\* Mutant: the end of the number is looked at, its range is not.
InRangeUnseen(line) == TRUE

\* errno is still 0.
InRange(line) == Magnitude(line) < Word

\* The data and the CR LF behind it seem to be there: the sum may have wrapped.
Fits(in, at, size) == (at + size + 1) % Word <= Len(in)
Wraps(at, size) == at + size + 1 >= Word

\* Mutant: the two bytes behind the data are skipped unseen.
EndedUnseen(in, i) == TRUE

Ended(in, i) == IsLineEnd(in, i)

(***************************************************************************)
(* decode_chunked: from[i] is what the loop makes of the input from i on.  *)
(* It accepts at a size line of value 0, and nowhere else.  A size whose   *)
(* sum wrapped is copied, or room for it is looked for, without end.       *)
(***************************************************************************)
DecodeAt(in, from, i) ==
  LET end == LineEnd(in, i)
      line == SubSeq(in, i, end - 1)
      size == SizeOf(line)
      at == end + 2
  IN  IF i > Len(in) \/ end = Len(in) \/ end - i >= LineMax \/ ~InRange(line) THEN Rejected
      ELSE IF size = 0 THEN Accepted(<<>>)
      ELSE IF ~Fits(in, at, size) THEN Rejected
      ELSE IF Wraps(at, size) THEN Never
      ELSE IF ~Ended(in, at + size) THEN Rejected
      ELSE LET rest == from[at + size + 2] IN
           IF rest.ok THEN Accepted(SubSeq(in, at, at + size - 1) \o rest.body) ELSE rest

Decode(in) == LET from[i \in 1..(Len(in) + 1)] == DecodeAt(in, from, i) IN from[1]

-----------------------------------------------------------------------------
(***************************************************************************)
(* What a server sends: chunks that are not empty, shorter than 16 bytes.  *)
(***************************************************************************)
Chunk == {c \in Seq(Byte) : Len(c) \in 1..15}

EncodeChunk(c) == <<Len(c), CR, LF>> \o c \o <<CR, LF>>
LastLine == <<0, CR, LF>>
Encode(chunks) ==
  FlattenSeq([i \in 1..Len(chunks) |-> EncodeChunk(chunks[i])]) \o LastLine \o <<CR, LF>>

(***************************************************************************)
(* The reference: an input is a body in chunks if it has places of size    *)
(* lines, the first at its beginning, every other one right behind the     *)
(* data and the CR LF of the one before, the last of value 0.              *)
(***************************************************************************)
LineAt(in, i) == SubSeq(in, i, LineEnd(in, i) - 1)
DataOf(in, i) == LineEnd(in, i) + 2
After(in, i) == DataOf(in, i) + SizeOf(LineAt(in, i)) + 2

\* Where a size line may be: at the beginning or behind some CR LF.
SizeLines(in) ==
  {i \in 1..Len(in) : /\ i = 1 \/ (i > 2 /\ IsLineEnd(in, i - 2))
                      /\ IsLineEnd(in, LineEnd(in, i))
                      /\ LineEnd(in, i) - i < LineMax
                      /\ InRange(LineAt(in, i))}

IsChunking(in, places) ==
  /\ 1 \in places
  /\ \A i \in places :
       IF i = Max(places) THEN SizeOf(LineAt(in, i)) = 0
       ELSE /\ SizeOf(LineAt(in, i)) > 0
            /\ After(in, i) = Min({j \in places : j > i})

\* The places of the bytes of the chunks.
DataPlaces(in, places) ==
  {k \in 1..Len(in) : \E i \in places \ {Max(places)} : k \in DataOf(in, i)..(After(in, i) - 3)}

\* b is what stands at these places, in their order.
Reads(b, in, data) ==
  \E order \in [1..Len(b) -> data] :
     /\ \A n \in 1..(Len(b) - 1) : order[n] < order[n + 1]
     /\ \A k \in data : \E n \in 1..Len(b) : order[n] = k
     /\ \A n \in 1..Len(b) : b[n] = in[order[n]]

Chunkings(in) == {places \in SUBSET SizeLines(in) : IsChunking(in, places)}
=============================================================================
