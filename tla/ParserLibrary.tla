---------------------------- MODULE ParserLibrary ----------------------------
(***************************************************************************)
(* The C library for requests: building, serializing, parsing and freeing  *)
(* one, with the blocks of memory it holds.  A text is a sequence of words *)
(* and separators, each of some width; None is a member that is NULL.  A   *)
(* CR is followed by its LF, in what is printed and in what is parsed.     *)
(***************************************************************************)
EXTENDS Naturals, FiniteSets, Sequences, SequencesExt

CONSTANTS
  Words,       \* the words texts are made of, with their widths
  Behind,      \* what is left of each without its first character
  Methods,     \* the valid ones
  MaxBuffer,   \* MAX_BUFFER_SIZE
  SomeMethods, Urls, Headers, Params, RequestBodies, \* what callers pass
  RawTexts,    \* what they parse
  MaxList,     \* bound on the headers and on the parameters that are added
  MaxLost,     \* bound on the blocks that are lost when another text is parsed
  None

EOL == "CRLF"
NewLine == "LF"
ContentLength == {"Content-Length", "content-length"}

Text == Seq(DOMAIN Words)
Request == [method : Methods \cup {None}, url : Text \cup {None}, version : Text \cup {None},
            headers : Seq(Text \X Text), params : Seq(Text \X Text), body : Text \cup {None}]

ASSUME ParserLibraryAssumption ==
  /\ \A w \in DOMAIN Words : Words[w] \in Nat \ {0}
  /\ {" ", "?", "=", "&", "/", ":", "n", EOL, NewLine, "GET", "HTTP/1.1", "Content-Length"} \subseteq DOMAIN Words
  /\ Behind \in [DOMAIN Words -> Text] /\ Behind[" "] = <<>>
  /\ Methods \cup SomeMethods \cup Urls \cup RequestBodies \cup RawTexts \subseteq Text
  /\ Headers \cup Params \subseteq Text \X Text
  /\ MaxBuffer \in Nat /\ MaxList \in Nat /\ MaxLost \in Nat
  /\ None \notin Text /\ None \notin Request

VARIABLES
  req,    \* the request, if there is one
  live,   \* the number of blocks that are allocated and not freed
  state   \* running, or broken: memory was used that is not allocated, which
          \* is not followed further

vars == <<req, live, state>>

Fresh == [method |-> None, url |-> None, version |-> None,
          headers |-> <<>>, params |-> <<>>, body |-> None]

TypeOK ==
  /\ req \in Request \cup {None}
  /\ live \in Nat
  /\ state \in {"running", "broken"}

Init == req = None /\ live = 0 /\ state = "running"

-----------------------------------------------------------------------------
(***************************************************************************)
(* serialize_request: pieces that are printed one behind the other, each   *)
(* into what the ones before it have left.                                 *)
(***************************************************************************)
Width(text) ==
  LET sum[n \in 0..Len(text)] == IF n = 0 THEN 0 ELSE sum[n - 1] + Words[text[n]]
  IN  sum[Len(text)]

Default(x, otherwise) == IF x = None THEN otherwise ELSE x

ParamPiece(r, i) ==
  r.params[i][1] \o <<"=">> \o r.params[i][2] \o IF i < Len(r.params) THEN <<"&">> ELSE <<>>

LinePieces(r) ==
  LET method == Default(r.method, <<"GET">>)
      url == Default(r.url, <<"/">>)
      version == Default(r.version, <<"HTTP/1.1">>)
  IN  IF r.params = <<>> \/ Contains(url, "?")
      THEN << method \o <<" ">> \o url \o <<" ">> \o version \o <<EOL>> >>
      ELSE << method \o <<" ">> \o url \o <<"?">> >>
             \o [i \in 1..Len(r.params) |-> ParamPiece(r, i)]
             \o << <<" ">> \o version \o <<EOL>> >>

HasHeader(r) == \E i \in 1..Len(r.headers), w \in ContentLength : r.headers[i][1] = <<w>>

LengthPieces(r) ==
  IF r.body = None \/ HasHeader(r) THEN <<>>
  ELSE << <<"Content-Length", ":", " ", "n", EOL>> >>

Pieces(r) ==
  LinePieces(r)
    \o [i \in 1..Len(r.headers) |-> r.headers[i][1] \o <<":", " ">> \o r.headers[i][2] \o <<EOL>>]
    \o LengthPieces(r) \o << <<EOL>> >>
    \o IF r.body \in {None, <<>>} THEN <<>> ELSE <<r.body>>

\* Mutant: the terminating NUL is forgotten.
HasRoomExact(n, off) == n <= MaxBuffer - off

HasRoom(n, off) == n < MaxBuffer - off

Serialize(r) ==
  LET pieces == Pieces(r)
      print[n \in 0..Len(pieces)] ==
        IF n = 0 THEN [ok |-> TRUE, off |-> 0, text |-> <<>>]
        ELSE LET before == print[n - 1]
                 p == pieces[n]
             IN  IF before.ok /\ HasRoom(Width(p), before.off)
                 THEN [ok |-> TRUE, off |-> before.off + Width(p), text |-> before.text \o p]
                 ELSE [before EXCEPT !.ok = FALSE]
  IN  print[Len(pieces)]

-----------------------------------------------------------------------------
(***************************************************************************)
(* parse_http_request.                                                     *)
(***************************************************************************)
\* strtok_r: the fields between separators, none of them empty.
Fields(text, sep) ==
  LET fields[n \in 0..Len(text)] ==
        IF n = 0 THEN <<>>
        ELSE LET before == fields[n - 1]
             IN  IF text[n] = sep THEN before
                 ELSE IF n = 1 \/ text[n - 1] = sep THEN Append(before, <<text[n]>>)
                 ELSE [before EXCEPT ![Len(before)] = Append(@, text[n])]
  IN  fields[Len(text)]

\* The first place of a word in a sequence, 0 if it is not there.
Place(s, w) == SelectInSeq(s, LAMBDA x : x = w)

\* What stands before and behind the first separator of a field that has one.
Cut(f, sep) ==
  LET i == Place(f, sep)
  IN  <<SubSeq(f, 1, i - 1), SubSeq(f, i + 1, Len(f))>>

BlankLine(text) == Place([i \in 1..(Len(text) - 1) |-> <<text[i], text[i + 1]>>], <<EOL, EOL>>)

Broken == [status |-> "broken", lost |-> 0, req |-> None]
Refused(lost) == [status |-> "error", lost |-> lost, req |-> None]

\* The copy of the line and the members set before the error are not freed.
ParseLine(line) ==
  LET f == Fields(line, " ") IN
  IF f = <<>> THEN Broken
  ELSE IF line[1] = " " THEN Refused(1)
  ELSE IF Len(f) < 3 THEN Refused(1 + Len(f))
  ELSE [status |-> "ok", lost |-> 0,
        req |-> [Fresh EXCEPT !.method = f[1], !.url = f[2], !.version = f[3]]]

\* A line ends at a CR and at an LF: the first of them becomes a NUL.
Lines(text) == Fields([i \in 1..Len(text) |-> IF text[i] = NewLine THEN EOL ELSE text[i]], EOL)

\* The first place up to which the text has n lines.
Begins(text, n) == Place([k \in 1..Len(text) |-> Len(Lines(SubSeq(text, 1, k)))], n)

\* What stands behind the NUL of the n-th line, up to the end of the copy.
RunOn(text, n) ==
  LET nul == Begins(text, n) + Len(Lines(text)[n])
  IN  (IF text[nul] = EOL THEN <<NewLine>> ELSE <<>>) \o SubSeq(text, nul + 1, Len(text))

\* The value begins at the second character behind the first colon, without a
\* look at the first.
HeaderValue(text, n) ==
  LET behind == Cut(Lines(text)[n], ":")[2]
  IN  IF behind = <<>> THEN RunOn(text, n) ELSE Behind[behind[1]] \o Tail(behind)

\* A line without a colon is no header.
ParseHeaders(text) ==
  LET f == Lines(text)
      found[n \in 0..Len(f)] ==
        IF n = 0 THEN <<>>
        ELSE IF Contains(f[n], ":")
        THEN Append(found[n - 1], <<Cut(f[n], ":")[1], HeaderValue(text, n)>>)
        ELSE found[n - 1]
  IN  found[Len(f)]

\* Behind the NUL of a last line that ends at its colon the copy has ended.
ReadsBeyond(text) ==
  LET f == Lines(text)
  IN  f # <<>> /\ text[Len(text)] = ":" /\ Cut(f[Len(f)], ":")[2] = <<>>

\* The parameters of a url with a "?"; one without "=" frees the text it is in.
ParamFields(url) == IF Contains(url, "?") THEN Fields(Cut(url, "?")[2], "&") ELSE <<>>

\* Mutant: the first separator is looked for from the end.
ParseParamsLast(url) ==
  LET CutLast(f) == LET i == SelectLastInSeq(f, LAMBDA w : w = "=")
                    IN  <<SubSeq(f, 1, i - 1), SubSeq(f, i + 1, Len(f))>>
  IN  [i \in 1..Len(ParamFields(url)) |-> CutLast(ParamFields(url)[i])]

ParseParams(url) == [i \in 1..Len(ParamFields(url)) |-> Cut(ParamFields(url)[i], "=")]

\* strstr is believed: without its end the line is the whole text, and unless
\* that is refused, and without a blank line behind it, the text is read on at an
\* address that is none of its own.
ParseText(text) ==
  LET eol == Place(text, EOL)
      line == ParseLine(IF eol = 0 THEN text ELSE SubSeq(text, 1, eol - 1))
      rest == SubSeq(text, eol + 1, Len(text))
      blank == BlankLine(rest)
      headers == SubSeq(rest, 1, blank - 1)
  IN  IF line.status # "ok" THEN line
      ELSE IF eol = 0 \/ blank = 0 \/ ReadsBeyond(headers) THEN Broken
      ELSE IF line.req.method \notin Methods THEN Refused(0)
      ELSE IF \E i \in 1..Len(ParamFields(line.req.url)) : ~Contains(ParamFields(line.req.url)[i], "=")
      THEN Broken
      ELSE [line EXCEPT !.req.headers = ParseHeaders(headers),
                        !.req.body = SubSeq(rest, blank + 2, Len(rest)),
                        !.req.params = ParseParams(line.req.url)]

-----------------------------------------------------------------------------
(***************************************************************************)
(* The operations of the library on one request.  live counts what each    *)
(* allocates and frees.                                                    *)
(***************************************************************************)
Exists == req # None /\ state = "running"

InitRequest ==
  /\ req = None /\ state = "running"
  /\ req' = Fresh
  /\ live' = live + 1
  /\ UNCHANGED state

\* Mutant: the value set before is not freed.
StoreKeeping(field, v) ==
  /\ req' = [req EXCEPT ![field] = v]
  /\ live' = live + 1
  /\ UNCHANGED state

Store(field, v) ==
  /\ req' = [req EXCEPT ![field] = v]
  /\ live' = IF req[field] = None THEN live + 1 ELSE live
  /\ UNCHANGED state

\* Mutant: the method is not checked.
SetMethodAny(m) == Exists /\ Store("method", m)

SetMethod(m) == Exists /\ m \in Methods /\ Store("method", m)
SetUrl(u) == Exists /\ Store("url", u)
SetHttpVersion == Exists /\ Store("version", <<"HTTP/1.1">>)
SetBody(b) == Exists /\ Store("body", b)

Add(field, pair) ==
  /\ Exists /\ Len(req[field]) < MaxList
  /\ req' = [req EXCEPT ![field] = Append(@, pair)]
  /\ live' = live + 3
  /\ UNCHANGED state

ListBlocks(l) == 3 * Len(l)
Strings(r) == Cardinality({f \in {"method", "url", "version", "body"} : r[f] # None})

Blocks(r) == 1 + Strings(r) + ListBlocks(r.headers) + ListBlocks(r.params)

\* The blocks that no pointer leads to any more.
Lost == live - IF req = None THEN 0 ELSE Blocks(req)

FreeRequest ==
  /\ Exists
  /\ live' = live - Blocks(req)
  /\ req' = None
  /\ UNCHANGED state

\* The members of req are overwritten, whatever they held, and nothing of it is
\* freed.
ParseHttpRequest(text) ==
  LET p == ParseText(text) IN
  /\ Exists /\ Lost <= MaxLost
  /\ state' = IF p.status = "broken" THEN "broken" ELSE "running"
  /\ req' = IF p.status = "ok" THEN p.req ELSE req
  /\ live' = IF p.status # "ok" THEN live + p.lost
             ELSE live + Strings(p.req) + ListBlocks(p.req.headers) + ListBlocks(p.req.params)

Next ==
  \/ InitRequest \/ FreeRequest \/ SetHttpVersion
  \/ \E m \in SomeMethods : SetMethod(m)
  \/ \E u \in Urls : SetUrl(u)
  \/ \E b \in RequestBodies : SetBody(b)
  \/ \E h \in Headers : Add("headers", h)
  \/ \E p \in Params : Add("params", p)
  \/ \E t \in RawTexts : ParseHttpRequest(t)

Spec == Init /\ [][Next]_vars

-----------------------------------------------------------------------------
(***************************************************************************)
(* serialize_request refuses a request exactly if its text and the NUL do  *)
(* not fit the buffer, however the text is cut into pieces.                *)
(***************************************************************************)
RefusesOnlyTooLong ==
  req # None => (Serialize(req).ok <=> Width(FlattenSeq(Pieces(req))) < MaxBuffer)

(***************************************************************************)
(* What a parser is to find: the defaults for what was not set, the        *)
(* parameters of the url if it has any and those that were added           *)
(* otherwise, a length for a body without one.                             *)
(***************************************************************************)
Described(r) ==
  LET url == Default(r.url, <<"/">>)
      merged == r.params # <<>> /\ ~Contains(url, "?")
      query == FlattenSeq([i \in 1..Len(r.params) |-> ParamPiece(r, i)])
  IN  [method |-> Default(r.method, <<"GET">>),
       url |-> IF merged THEN url \o <<"?">> \o query ELSE url,
       version |-> Default(r.version, <<"HTTP/1.1">>),
       headers |-> IF r.body # None /\ ~HasHeader(r)
                   THEN Append(r.headers, << <<"Content-Length">>, <<"n">> >>) ELSE r.headers,
       params |-> IF merged THEN r.params ELSE ParseParams(url),
       body |-> Default(r.body, <<>>)]

(***************************************************************************)
(* Values that hold no separator of the line they are printed in.  What    *)
(* parse_http_request finds is of this kind by itself.                     *)
(***************************************************************************)
Without(text, words) == \A w \in words : ~Contains(text, w)

CleanWord(t) == t # <<>> /\ Without(t, {" ", EOL})
CleanUrl(u) == CleanWord(u) /\ \A i \in 1..Len(ParamFields(u)) : Contains(ParamFields(u)[i], "=")
CleanKey(k) == Without(k, {":", EOL, NewLine})
CleanValue(v) == Without(v, {EOL, NewLine})
CleanParam(p) == Without(p[1], {"=", "&", " ", EOL}) /\ Without(p[2], {"&", " ", EOL})

CleanRequest(r) ==
  /\ r.url # None => CleanUrl(r.url)
  /\ r.version # None => CleanWord(r.version)
  /\ \A i \in 1..Len(r.headers) : CleanKey(r.headers[i][1])
  /\ \A i \in 1..Len(r.params) : CleanParam(r.params[i])

NoSeparators ==
  /\ <<"GET">> \in Methods /\ \A m \in Methods : CleanWord(m)
  /\ \A u \in Urls : CleanUrl(u)
  /\ \A h \in Headers : CleanKey(h[1])
  /\ \A p \in Params : CleanParam(p)

(***************************************************************************)
(* A request that was serialized is parsed as itself, a parsed one too:    *)
(* values may be empty or hold the separator between a key and its value,  *)
(* though not the one between parameters, which nothing escapes.  There    *)
(* are two exceptions.  One is a request with a header whose value holds   *)
(* the end of a line: parsing makes such a value itself of a line that     *)
(* ends at its colon, and serialized it becomes headers of its own.  The   *)
(* other is a request with no header at all and no body: the blank line is *)
(* looked for behind the end of the first one, and parsing it breaks.      *)
(***************************************************************************)
RoundTrip ==
  req # None /\ Serialize(req).ok /\ (\A i \in 1..Len(req.headers) : CleanValue(req.headers[i][2])) =>
    LET p == ParseText(Serialize(req).text) IN
    IF req.headers = <<>> /\ req.body = None THEN p = Broken
    ELSE p.status = "ok" /\ p.req = Described(req)

(***************************************************************************)
(* A block that is allocated belongs to the request, on each way out of    *)
(* each function, so that freeing it frees all: one is lost only by        *)
(* parsing, and only a text whose first line has fewer than three fields   *)
(* or begins with a space, or into a request that holds something already. *)
(***************************************************************************)
MalformedLine(text) ==
  LET eol == Place(text, EOL)
      line == IF eol = 0 THEN text ELSE SubSeq(text, 1, eol - 1)
  IN  line = <<>> \/ line[1] = " " \/ Len(Fields(line, " ")) < 3

NothingLeaked ==
  /\ Lost = 0
  /\ [][Lost' # Lost => \E t \in RawTexts : ParseHttpRequest(t) /\ (MalformedLine(t) \/ req # Fresh)]_vars
=============================================================================
