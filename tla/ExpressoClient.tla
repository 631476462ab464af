--------------------------- MODULE ExpressoClient ---------------------------
(***************************************************************************)
(* One call of send_req, the C client: the request is printed into a fixed *)
(* buffer and sent, the response is read until the end of the stream and   *)
(* then taken apart.  The other end is any server: it writes its response, *)
(* and may close or reset the connection at any time.  A request is known  *)
(* by the lengths of what is printed, the head of a response by its length *)
(* and what it says; malloc may fail wherever its result is looked at.     *)
(***************************************************************************)
EXTENDS Chunked

CONSTANTS
  Requests,   \* the requests of callers
  Responses,  \* the responses of servers
  Limit,      \* MAX_BUFFER_SIZE
  FirstCap    \* the first capacity of the receive buffer

\* lines: the lengths of the request line, the headers and the blank line.
Request == [lines : Seq(Nat \ {0}), body : Nat]

\* head: the length of the head, with its blank line; valid: its status line has
\* three parts; framing: how it tells the length ("bad" is no number, "empty" no
\* value at all); chunks: the pieces of the body.
Response == [head : Nat \ {0}, valid : BOOLEAN,
             framing : {"chunked", "length", "empty", "bad", "rest"}, chunks : Seq(Chunk)]

ASSUME ClientAssumption ==
  /\ Requests \subseteq Request
  /\ Responses \subseteq Response
  /\ Limit \in Nat /\ FirstCap \in Nat \ {0}
  /\ \A r \in Responses : Len(Encode(r.chunks)) < Word  \* a response is shorter than memory

VARIABLES
  req, resp,
  pc,      \* what send_req does next
  next,    \* the line to print next
  off,     \* the length of what has been printed
  sent,    \* how much of it has been sent
  server,  \* the server's end: open, closed or reset
  wrote,   \* how much of its response the server has written
  rlen,    \* the length of the receive buffer
  rcap,    \* its capacity
  body,    \* the body of the result
  owned,   \* the memory and the socket the call holds
  status,  \* what send_req returns
  fault    \* whether something failed on the way: memory, names, network

request == <<req, next, off, sent>>
response == <<resp, server, wrote, rlen, rcap, body>>
outcome == <<owned, status, fault>>
vars == <<request, response, pc, outcome>>

PCs == {"url", "print", "resolve", "connect", "send", "alloc", "recv", "head", "headers",
        "body", "store", "returned", "killed"}
Fields == {"fields"}  \* the strings of *res
Names == {"host", "port", "path"}
Resource == Fields \cup Names \cup {"sock", "rbuf", "hdr", "decoded"}

Whole(r) == FlattenSeq(r.chunks)
Payload(r) == IF r.framing = "chunked" THEN Encode(r.chunks) ELSE Whole(r)
Total(r) == r.head + Len(Payload(r))

\* The body a response tells of: strtol makes 0 of an empty length.
Told(r) == IF r.framing = "empty" THEN <<>> ELSE Whole(r)

\* What the first lines of a request come to, for each number of lines.
PrintedBy(r) ==
  LET sum[n \in 0..Len(r.lines)] == IF n = 0 THEN 0 ELSE sum[n - 1] + r.lines[n] IN sum
Printed(r) == PrintedBy(r)[Len(r.lines)]

TypeOK ==
  /\ req \in Requests /\ resp \in Responses
  /\ pc \in PCs
  /\ next \in 1..(Len(req.lines) + 1)
  /\ off \in 0..Limit /\ sent \in 0..off
  /\ server \in {"open", "closed", "reset"}
  /\ wrote \in 0..Total(resp)
  /\ rlen \in 0..wrote /\ rcap \in Nat /\ rlen <= rcap
  /\ body \in Seq(Byte)
  /\ owned \subseteq Resource
  /\ status \in {"none", "ok", "error", "memory", "url"}
  /\ fault \in BOOLEAN

Init ==
  /\ req \in Requests /\ resp \in Responses
  /\ pc = "url" /\ next = 1 /\ off = 0 /\ sent = 0
  /\ server = "open" /\ wrote = 0
  /\ rlen = 0 /\ rcap = 0 /\ body = <<>>
  /\ owned = {} /\ status = "none" /\ fault = FALSE

-----------------------------------------------------------------------------
Goto(p) == pc' = p /\ UNCHANGED <<owned, status, fault>>

Return(s, freed) ==
  /\ pc' = "returned"
  /\ status' = s
  /\ owned' = owned \ freed

\* A return for a reason that lies in the request or the response.
Refuse(freed) == Return("error", freed) /\ UNCHANGED fault

\* A return because something failed.
Fail(s, freed) == Return(s, freed) /\ fault' = TRUE

(***************************************************************************)
(* parse_url_host_port_path.  When it cannot copy a part, the parts it has *)
(* copied are not freed, nor by its caller: "url" stands for that error.   *)
(***************************************************************************)
SplitUrl ==
  /\ pc = "url"
  /\ \/ pc' = "print" /\ owned' = Fields \cup Names /\ UNCHANGED <<status, fault>>
     \/ Fail("error", {})
     \/ /\ pc' = "returned" /\ status' = "url" /\ fault' = TRUE
        /\ owned' \in SUBSET {"host", "port"}
  /\ UNCHANGED <<request, response>>

\* Mutant: the result of snprintf is not compared with the room that is left.
PrintUnchecked ==
  /\ pc = "print" /\ next <= Len(req.lines)
  /\ off' = off + req.lines[next] /\ next' = next + 1 /\ Goto("print")
  /\ UNCHANGED <<req, sent, response>>

PrintLine ==
  /\ pc = "print" /\ next <= Len(req.lines)
  /\ IF req.lines[next] < Limit - off
     THEN off' = off + req.lines[next] /\ next' = next + 1 /\ Goto("print")
     ELSE Refuse(Fields \cup Names) /\ UNCHANGED <<off, next>>
  /\ UNCHANGED <<req, sent, response>>

\* Mutant: as much of the body as there is room for.
CopyBodyCut ==
  /\ pc = "print" /\ next > Len(req.lines)
  /\ off' = off + (IF req.body <= Limit - off THEN req.body ELSE Limit - off)
  /\ Goto("resolve")
  /\ UNCHANGED <<req, next, sent, response>>

CopyBody ==
  /\ pc = "print" /\ next > Len(req.lines)
  /\ IF req.body <= Limit - off
     THEN off' = off + req.body /\ Goto("resolve")
     ELSE Refuse(Fields \cup Names) /\ UNCHANGED off
  /\ UNCHANGED <<req, next, sent, response>>

Resolve ==
  /\ pc = "resolve"
  /\ Goto("connect") \/ Fail("error", Fields \cup Names)
  /\ UNCHANGED <<request, response>>

\* The addresses are tried in order; a socket that does not connect is closed.
Connect ==
  /\ pc = "connect"
  /\ \/ pc' = "send" /\ owned' = owned \cup {"sock"} /\ UNCHANGED <<status, fault>>
     \/ Fail("error", Fields \cup Names)
  /\ UNCHANGED <<request, response>>

Send(n) ==
  /\ pc = "send" /\ sent + n <= off
  /\ sent' = sent + n
  /\ Goto(IF sent + n = off THEN "alloc" ELSE "send")
  /\ UNCHANGED <<req, next, off, response>>

\* The server has gone: an error, or SIGPIPE, which nothing handles.
SendFails ==
  /\ pc = "send" /\ server # "open"
  /\ \/ Fail("error", Fields \cup Names \cup {"sock"})
     \/ pc' = "killed" /\ fault' = TRUE /\ UNCHANGED <<owned, status>>
  /\ UNCHANGED <<request, response>>

-----------------------------------------------------------------------------
(***************************************************************************)
(* The response is read until recv returns 0.                              *)
(***************************************************************************)
Alloc ==
  /\ pc = "alloc"
  /\ \/ pc' = "recv" /\ owned' = owned \cup {"rbuf"} /\ rcap' = FirstCap
        /\ UNCHANGED <<status, fault>>
     \/ Fail("memory", Fields \cup Names \cup {"sock"}) /\ UNCHANGED rcap
  /\ UNCHANGED <<request, resp, server, wrote, rlen, body>>

\* Mutant: the full buffer is not made larger.
CapacityKept == rcap

Capacity == IF rlen = rcap THEN 2 * rcap ELSE rcap

GrowFails ==
  /\ pc = "recv" /\ Capacity # rcap
  /\ Fail("memory", Fields \cup Names \cup {"sock", "rbuf"})
  /\ UNCHANGED <<request, response>>

Recv(n) ==
  /\ pc = "recv"
  /\ rlen + n <= Capacity /\ rlen + n <= wrote
  /\ rlen' = rlen + n /\ rcap' = Capacity
  /\ UNCHANGED <<request, resp, server, wrote, body, pc, outcome>>

\* Mutant: the loop tries again when recv returns 0 behind the last byte.
EndIgnored ==
  /\ pc = "recv"
  /\ rlen = Capacity
  /\ pc' = "head" /\ owned' = owned \ (Names \cup {"sock"})
  /\ UNCHANGED <<request, response, status, fault>>

\* recv returns 0 at the end of the stream, and when it is given no room.
EndOfStream ==
  /\ pc = "recv"
  /\ (server = "closed" /\ rlen = wrote) \/ rlen = Capacity
  /\ pc' = "head" /\ owned' = owned \ (Names \cup {"sock"})
  /\ UNCHANGED <<request, response, status, fault>>

\* Mutant: the socket is left open.
RecvFailsOpen ==
  /\ pc = "recv" /\ server = "reset"
  /\ Fail("error", Fields \cup Names \cup {"rbuf"})
  /\ UNCHANGED <<request, response>>

RecvFails ==
  /\ pc = "recv" /\ server = "reset"
  /\ Fail("error", Fields \cup Names \cup {"sock", "rbuf"})
  /\ UNCHANGED <<request, response>>

-----------------------------------------------------------------------------
(***************************************************************************)
(* What has been received is taken apart.                                  *)
(***************************************************************************)
FindHead ==
  /\ pc = "head"
  /\ \/ rlen < resp.head /\ Refuse(Fields \cup {"rbuf"})
     \/ /\ rlen >= resp.head
        /\ \/ pc' = "headers" /\ owned' = owned \cup {"hdr"} /\ UNCHANGED <<status, fault>>
           \/ Fail("memory", Fields \cup {"rbuf"})
  /\ UNCHANGED <<request, response>>

ReadHead ==
  /\ pc = "headers"
  /\ \/ ~resp.valid /\ Refuse(Fields \cup {"rbuf", "hdr"})
     \/ resp.valid /\ pc' = "body" /\ owned' = owned \ {"hdr"} /\ UNCHANGED <<status, fault>>
     \/ resp.valid /\ Fail("memory", Fields \cup {"rbuf", "hdr"})
  /\ UNCHANGED <<request, response>>

\* What decode_chunked makes of the first bytes of a body, however many they are.
Decoding ==
  [r \in Responses |-> [n \in 0..Len(Payload(r)) |-> Decode(SubSeq(Payload(r), 1, n))]]

Available == SubSeq(Payload(resp), 1, rlen - resp.head)

ReadChunks ==
  /\ pc = "body" /\ resp.framing = "chunked"
  /\ LET d == Decoding[resp][rlen - resp.head] IN
     /\ d.returned
     /\ \/ ~d.ok /\ Refuse(Fields \cup {"rbuf"}) /\ UNCHANGED body
        \/ /\ d.ok /\ body' = d.body
           /\ pc' = "store" /\ owned' = owned \cup {"decoded"} /\ UNCHANGED <<status, fault>>
        \/ Fail("error", Fields \cup {"rbuf"}) /\ UNCHANGED body  \* no memory for the data
  /\ UNCHANGED <<request, resp, server, wrote, rlen, rcap>>

\* Mutant: what is available is taken for what was announced.
ReadLengthAvailable ==
  /\ pc = "body" /\ resp.framing \in {"length", "empty", "bad"}
  /\ IF resp.framing = "bad"
     THEN Refuse(Fields \cup {"rbuf"}) /\ UNCHANGED body
     ELSE body' = Available /\ Goto("store")
  /\ UNCHANGED <<request, resp, server, wrote, rlen, rcap>>

ReadLength ==
  /\ pc = "body" /\ resp.framing \in {"length", "empty", "bad"}
  /\ LET want == Len(Told(resp)) IN
     IF resp.framing = "bad" \/ want > Len(Available)
     THEN Refuse(Fields \cup {"rbuf"}) /\ UNCHANGED body
     ELSE body' = SubSeq(Available, 1, want) /\ Goto("store")
  /\ UNCHANGED <<request, resp, server, wrote, rlen, rcap>>

ReadRest ==
  /\ pc = "body" /\ resp.framing = "rest"
  /\ body' = Available /\ Goto("store")
  /\ UNCHANGED <<request, resp, server, wrote, rlen, rcap>>

Store ==
  /\ pc = "store"
  /\ \/ Return("ok", {"rbuf", "decoded"}) /\ UNCHANGED <<fault, body>>
     \/ Fail("memory", Fields \cup {"rbuf", "decoded"}) /\ body' = <<>>
  /\ UNCHANGED <<request, resp, server, wrote, rlen, rcap>>

-----------------------------------------------------------------------------
(***************************************************************************)
(* The server.                                                             *)
(***************************************************************************)
Serve(n) ==
  /\ server = "open" /\ sent > 0
  /\ wrote + n <= Total(resp)
  /\ wrote' = wrote + n
  /\ UNCHANGED <<request, resp, server, rlen, rcap, body, pc, outcome>>

HangUp ==
  /\ server = "open" /\ pc \in {"send", "alloc", "recv"}
  /\ server' \in {"closed", "reset"}
  /\ UNCHANGED <<request, resp, wrote, rlen, rcap, body, pc, outcome>>

Client ==
  \/ SplitUrl \/ PrintLine \/ CopyBody \/ Resolve \/ Connect
  \/ (\E n \in 1..Limit : Send(n)) \/ SendFails
  \/ Alloc \/ GrowFails \/ (\E n \in 1..Total(resp) : Recv(n)) \/ EndOfStream \/ RecvFails
  \/ FindHead \/ ReadHead \/ ReadChunks \/ ReadLength \/ ReadRest \/ Store

Next == Client \/ HangUp \/ \E n \in 1..Total(resp) : Serve(n)

(***************************************************************************)
(* The caller's thread runs; the server ends every connection some time,   *)
(* as the kernel does behind each answer and the C++ server when asked to. *)
(***************************************************************************)
Fairness == WF_vars(Client) /\ WF_vars(HangUp)

Spec == Init /\ [][Next]_vars
FairSpec == Spec /\ Fairness

-----------------------------------------------------------------------------
(***************************************************************************)
(* Nothing is sent of a request that does not fit the buffer, and all of   *)
(* one that does: never a head or a body that was cut by snprintf.         *)
(***************************************************************************)
WholeRequestSent ==
  pc \in {"resolve", "connect", "send", "alloc", "recv", "head", "headers", "body", "store"}
    => off = Printed(req) + req.body

(***************************************************************************)
(* Every way out of send_req frees what the call holds and closes the      *)
(* socket; a successful call leaves the strings of the response to its     *)
(* caller.  Only a URL that could not be copied keeps its parts.           *)
(***************************************************************************)
NothingHeld ==
  pc = "returned" =>
    /\ status = "ok" => owned = Fields
    /\ status = "url" => owned \subseteq {"host", "port"}
    /\ status \notin {"ok", "url"} => owned = {}

\* What the call holds at each place, which makes NothingHeld inductive.
HeldInv ==
  /\ pc \in PCs
  /\ pc = "url" => owned = {}
  /\ pc \in {"print", "resolve", "connect"} => owned = Fields \cup Names
  /\ pc \in {"send", "alloc"} => owned = Fields \cup Names \cup {"sock"}
  /\ pc = "recv" => owned = Fields \cup Names \cup {"sock", "rbuf"}
  /\ pc \in {"head", "body"} => owned = Fields \cup {"rbuf"}
  /\ pc = "headers" => owned = Fields \cup {"rbuf", "hdr"}
  /\ pc = "store" => Fields \cup {"rbuf"} \subseteq owned
                     /\ owned \subseteq Fields \cup {"rbuf", "decoded"}
  /\ NothingHeld

(***************************************************************************)
(* What makes the bounds of TypeOK inductive: what is printed fits the     *)
(* buffer of the request, what is received the capacity of the other one.  *)
(***************************************************************************)
BufferInv ==
  /\ off \in 0..Limit /\ sent \in 0..off
  /\ rlen \in Nat /\ rcap \in Nat /\ rlen <= rcap
  /\ req \in Requests /\ next \in Nat \ {0}
  /\ pc \in {"url", "print", "resolve", "connect", "send", "alloc"} => rlen = 0

(***************************************************************************)
(* A response that tells its length is taken only with its whole body,     *)
(* wherever the connection broke and whatever the body looks like.  An     *)
(* empty length tells of no body, even when one was sent.                  *)
(***************************************************************************)
OnlyWholeBodies ==
  pc = "returned" /\ status = "ok" /\ resp.framing # "rest" => body = Told(resp)

(***************************************************************************)
(* When nothing fails, the server sends a valid response and closes, the   *)
(* call returns the body it tells of, however the response was cut into    *)
(* pieces and however often the buffer had to grow.                        *)
(***************************************************************************)
CleanExchangeSucceeds ==
  /\ pc = "returned" /\ ~fault
  /\ server = "closed" /\ wrote = Total(resp) /\ resp.valid /\ resp.framing # "bad"
  => status = "ok" /\ body = Told(resp)

\* What is printed comes from the lines that were printed, and nothing is
\* answered before something was sent.
PrintInv ==
  /\ pc = "url" => next = 1 /\ off = 0
  /\ pc = "print" => off = PrintedBy(req)[next - 1]
  /\ pc \in {"url", "print", "resolve", "connect"} => sent = 0
  /\ sent = 0 => wrote = 0
  /\ WholeRequestSent

\* A body that is taken apart has been received up to the end of the stream: of
\* one that is cut, nothing is stored that looks whole.
BodyInv ==
  /\ pc = "recv" => rcap # 0
  /\ pc \in {"head", "headers", "body", "store"} => server = "closed" /\ rlen = wrote
  /\ pc \in {"headers", "body", "store"} => rlen >= resp.head
  /\ pc \in {"body", "store"} => resp.valid
  /\ pc = "store" => resp.framing # "bad"
  /\ pc = "store" /\ (resp.framing # "rest" \/ wrote = Total(resp)) => body = Told(resp)
  /\ OnlyWholeBodies /\ CleanExchangeSucceeds

ClientInv == TypeOK /\ BufferInv /\ PrintInv /\ BodyInv

(***************************************************************************)
(* send_req returns, or dies on SIGPIPE: once it has begun, no loop of it  *)
(* goes on behind the end of the connection.  Nothing bounds its waiting   *)
(* for a server that does not end the connection (timeout_ms is unused).   *)
(***************************************************************************)
Returns == pc = "url" ~> pc \in {"returned", "killed"}
=============================================================================
