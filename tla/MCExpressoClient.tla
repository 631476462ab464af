-------------------------- MODULE MCExpressoClient --------------------------
(***************************************************************************)
(* The instances of ExpressoClient that TLC checks.                        *)
(***************************************************************************)
EXTENDS ExpressoClient

Q(lines, length) == [lines |-> lines, body |-> length]
A(head, valid, framing, chunks) ==
  [head |-> head, valid |-> valid, framing |-> framing, chunks |-> chunks]

\* Requests that just fit the buffer, and that are one too long in their head,
\* in their body.
Calls == {Q(<<2, 1, 1>>, 2), Q(<<3, 2>>, 1), Q(<<2, 2, 2>>, 0), Q(<<2, 2>>, 3), Q(<<3, 4>>, 0)}

\* Data that looks like the end of a line, of a head, of a body.
Pieces == <<<<CR, LF>>, <<0>>>>

Answers == {A(3, TRUE, "chunked", Pieces), A(3, TRUE, "length", Pieces),
            A(4, TRUE, "rest", Pieces), A(2, TRUE, "chunked", <<>>),
            A(2, TRUE, "bad", <<>>), A(2, TRUE, "empty", <<<<0>>>>), A(2, FALSE, "length", <<>>)}
=============================================================================
