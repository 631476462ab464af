----------------------------- MODULE MCCLibrary -----------------------------
(***************************************************************************)
(* The C library that TLC checks: the operations on a request, and, while  *)
(* there is none, the decoder of Chunked on every input over some bytes up *)
(* to a length.                                                            *)
(***************************************************************************)
EXTENDS DecoderInputs, ParserLibrary

ASSUME CallersValues == NoSeparators

CInit == Init /\ InputInit

CNext ==
  \/ input = <<>> /\ Next /\ UNCHANGED input
  \/ Init /\ UNCHANGED vars /\ InputNext

CSpec == CInit /\ [][CNext]_<<vars, input>>

-----------------------------------------------------------------------------
SomeWords == [w \in {" ", "?", "=", "&", ":", NewLine, "n", "k", "v"} |-> 1]
             @@ (EOL :> 2)
             @@ [w \in {"GET", "HTTP/1.1", "BREW", "/"} |-> 3]
             @@ [w \in ContentLength |-> 4]

MCBehind == [w \in DOMAIN SomeWords |-> [i \in 1..(SomeWords[w] - 1) |-> "n"]]

\* White space, a sign and 0x in front of the digits of the first size line, and
\* a second one below zero.
MCStarts == {<<>>, <<Blank>>, <<Minus>>, <<Plus>>, <<0, X>>,
             <<1, CR, LF, LF, CR, LF, Blank, Minus, 1, CR, LF, 1>>}

Query(f) == <<"GET", " ", "/", "?">> \o f \o <<" ", "HTTP/1.1", EOL>>
Line == <<"GET", " ", "/", " ", "HTTP/1.1">>
Rest == <<"k", ":", " ", EOL, EOL>>

MCUrls == {<<"/", "?", "k", "=", "v">>}
MCMethods == {<<"GET">>}
MCSomeMethods == {<<"GET">>, <<"BREW">>}
MCHeaders == {<< <<"k">>, <<"v", ":">> >>, << <<"k">>, <<>> >>, << <<"content-length">>, <<"n">> >>}
MCParams == {<< <<"k">>, <<"v", "=", "v">> >>, << <<"k">>, <<>> >>}
MCBodies == {<<>>, <<EOL, EOL, "v">>}
MCTexts == {
  Line \o <<EOL>> \o Rest \o <<"v">>,
  Line \o <<EOL, "k", ":", EOL, "n", ":", "/">> \o <<EOL, EOL>>,
  Line \o <<EOL, "k", ":", EOL, EOL>>,
  <<"BREW", " ", "/", " ", "HTTP/1.1", EOL>> \o Rest,
  <<"GET", " ", "/", EOL>> \o Rest, <<"GET", EOL>> \o Rest, <<" ", "GET", EOL>>, <<EOL>>,
  <<"GET">>, <<"GET", " ", "/">>, Line,
  Query(<<"k", "=", "v", "&", "&", "v", "=", "=">>) \o Rest,
  Query(<<"k", "=", "v", "&", "v">>) \o Rest}
=============================================================================
