--------------------------- MODULE DecoderInputs ---------------------------
(***************************************************************************)
(* decode_chunked on every input over some bytes, behind one of some       *)
(* beginnings, up to a length: an input grows by a byte at a time.         *)
(***************************************************************************)
EXTENDS Chunked

CONSTANTS Starts, Alphabet, MaxLen

\* An input is shorter than memory.
ASSUME DecoderInputsAssumption ==
  /\ MaxLen \in Nat /\ MaxLen < Word
  /\ Alphabet \subseteq Byte
  /\ Starts \subseteq {s \in Seq(Byte) : Len(s) < Word}

VARIABLE input

InputInit == input \in Starts

Extend(c) == Len(input) < MaxLen /\ input' = Append(input, c)

InputNext == \E c \in Alphabet : Extend(c)

InputSpec == InputInit /\ [][InputNext]_input

-----------------------------------------------------------------------------
(***************************************************************************)
(* decode_chunked accepts the inputs that are bodies in chunks, with the   *)
(* data of their chunks, and no other one: no input that is cut, whatever  *)
(* the data looks like, and none whose data is not followed by CR LF.  It  *)
(* returns, unless the size in a line is so great that its sum with the    *)
(* place of the data wraps: such an input is not refused.                  *)
(***************************************************************************)
DecodesExactly ==
  LET c == Chunkings(input) IN
  /\ Decode(input).ok <=> c # {}
  /\ \A places \in c : Reads(Decode(input).body, input, DataPlaces(input, places))
  /\ ~Decode(input).returned =>
       \E i \in SizeLines(input) : Wraps(DataOf(input, i), SizeOf(LineAt(input, i)))
=============================================================================
