--------------------------- MODULE RequestReader ---------------------------
(***************************************************************************)
(* One connection of the C++ server: handle_client's loop of read_request, *)
(* handler and response, and a client that sends one request at a time in  *)
(* pieces of any size.  A request is known by the length of its head, with *)
(* the blank line that ends it, and the length it announces for its body;  *)
(* neither of them holds another blank line.                               *)
(***************************************************************************)
EXTENDS Naturals

CONSTANTS
  Requests,   \* the requests the client may send
  Chunk,      \* the most recv returns at once
  Max,        \* the length at which read_request gives up
  MaxRounds   \* bound on the requests of one connection

\* framed: the response tells its length; close: the request asks to close.
Request == [head : Nat, body : Nat, framed : BOOLEAN, close : BOOLEAN]

ASSUME RequestReaderAssumption ==
  /\ Requests \subseteq Request /\ Requests # {}
  /\ \A r \in Requests : r.head >= 4
  /\ Chunk \in Nat \ {0} /\ Max \in Nat /\ MaxRounds \in Nat

VARIABLES
  req,         \* the request being exchanged
  sent,        \* how much of it the client has sent
  client,      \* sending, reading (the response), done or gone
  len,         \* the length of the buffer of read_request
  searchFrom,  \* where the search for the blank line goes on
  outLen,      \* the length of the request handed to the handler
  server,      \* reading, handling or closed
  rounds

vars == <<req, sent, client, len, searchFrom, outLen, server, rounds>>

Total(r) == r.head + r.body

TypeOK ==
  /\ req \in Requests
  /\ sent \in 0..Total(req)
  /\ client \in {"sending", "reading", "done", "gone"}
  /\ len \in 0..sent
  /\ searchFrom \in 0..len
  /\ outLen \in 0..Total(req)
  /\ server \in {"reading", "handling", "closed"}
  /\ rounds \in 0..MaxRounds

Init ==
  /\ req \in Requests
  /\ sent = 0 /\ client = "sending"
  /\ len = 0 /\ searchFrom = 0 /\ outLen = 0
  /\ server = "reading"
  /\ rounds = 0

-----------------------------------------------------------------------------
(***************************************************************************)
(* The client.                                                             *)
(***************************************************************************)
Send(n) ==
  /\ client = "sending"
  /\ sent + n <= Total(req)
  /\ sent' = sent + n
  /\ client' = IF sent + n = Total(req) THEN "reading" ELSE "sending"
  /\ UNCHANGED <<req, len, searchFrom, outLen, server, rounds>>

HangUp ==
  /\ client # "gone"
  /\ client' = "gone"
  /\ UNCHANGED <<req, sent, len, searchFrom, outLen, server, rounds>>

NextRequest(r) ==
  /\ client = "done" /\ server = "reading" /\ rounds < MaxRounds
  /\ rounds' = rounds + 1
  /\ req' = r /\ sent' = 0 /\ client' = "sending"
  /\ UNCHANGED <<len, searchFrom, outLen, server>>

\* The end of the stream ends a response whose length is not told.
SeeClose ==
  /\ server = "closed" /\ client \in {"sending", "reading"}
  /\ client' = "done"
  /\ UNCHANGED <<req, sent, len, searchFrom, outLen, server, rounds>>

-----------------------------------------------------------------------------
(***************************************************************************)
(* read_request.                                                           *)
(***************************************************************************)
\* Mutant: the search goes on behind everything received.
ResumeAtEnd(l) == l

\* Mutant: the subtraction is not guarded.
ResumeUnguarded(l) == l - 3

Resume(l) == IF l >= 3 THEN l - 3 ELSE 0

\* The blank line is looked for from index searchFrom of a buffer of length l;
\* it begins at index head - 4.
Found(l) == searchFrom <= req.head - 4 /\ req.head <= l

\* Mutant: the body is not waited for.
CompleteHead(l) == Found(l)

Complete(l) == Found(l) /\ l >= Total(req)

Recv(n) ==
  /\ server = "reading" /\ len < Max
  /\ n <= sent - len
  /\ len' = len + n
  /\ IF Complete(len + n)
     THEN /\ server' = "handling" /\ outLen' = Total(req)
          /\ UNCHANGED searchFrom
     ELSE /\ searchFrom' = Resume(len + n)
          /\ UNCHANGED <<server, outLen>>
  /\ UNCHANGED <<req, sent, client, rounds>>

\* recv returns 0 or an error, or the buffer has reached its limit.
GiveUp ==
  /\ server = "reading"
  /\ (client = "gone" /\ len = sent) \/ len >= Max
  /\ server' = "closed"
  /\ UNCHANGED <<req, sent, client, len, searchFrom, outLen, rounds>>

-----------------------------------------------------------------------------
(***************************************************************************)
(* handle_client: the response, and the loop.                              *)
(***************************************************************************)
\* Mutant: the wish to close is not looked at.
ClosesNever(r) == FALSE

Closes(r) == r.close

Respond ==
  /\ server = "handling"
  /\ server' = IF Closes(req) THEN "closed" ELSE "reading"
  /\ client' = IF client = "reading" /\ req.framed THEN "done" ELSE client
  /\ sent' = 0 /\ len' = 0 /\ searchFrom' = 0 /\ outLen' = 0
  /\ UNCHANGED <<req, rounds>>

\* A response to a client that is gone raises SIGPIPE, which nothing handles.
Killed ==
  /\ server = "handling" /\ client = "gone"
  /\ server' = "closed"
  /\ UNCHANGED <<req, sent, client, len, searchFrom, outLen, rounds>>

Next ==
  \/ \E n \in 1..Total(req) : Send(n)
  \/ HangUp
  \/ \E r \in Requests : NextRequest(r)
  \/ SeeClose
  \/ \E n \in 1..Chunk : Recv(n)
  \/ GiveUp
  \/ Respond
  \/ Killed

(***************************************************************************)
(* The connection's thread runs whenever it can, and what has been sent or *)
(* closed reaches the other end; nothing makes a client send or hang up.   *)
(***************************************************************************)
Fairness ==
  /\ WF_vars(\E n \in 1..Chunk : Recv(n))
  /\ WF_vars(GiveUp \/ Respond \/ Killed)
  /\ WF_vars(SeeClose)

Spec == Init /\ [][Next]_vars
FairSpec == Spec /\ Fairness

-----------------------------------------------------------------------------
(***************************************************************************)
(* A handler is given the whole request and nothing else: all the client   *)
(* sent, once it has sent all, however recv cut it into pieces.            *)
(***************************************************************************)
DeliveredExactly ==
  server = "handling" => /\ outLen = Total(req)
                         /\ len = outLen /\ sent = outLen

(***************************************************************************)
(* The blank line is never overlooked, even when it arrives in pieces: a   *)
(* request without a body is not in the buffer while recv is waited for.   *)
(***************************************************************************)
NothingOverlooked ==
  server = "reading" /\ req.body = 0 => len < req.head

\* What makes the two hold: the search always goes on three bytes back, and a
\* client that begins a request meets an empty buffer.
ReaderInv ==
  /\ TypeOK
  /\ DeliveredExactly
  /\ NothingOverlooked
  /\ server = "reading" => searchFrom = Resume(len)
  /\ server = "reading" => outLen = 0
  /\ client = "done" /\ server = "reading" => sent = 0

(***************************************************************************)
(* "/files/{name} | POST" (QUICK_REFERENCE.md:54): a request that has      *)
(* arrived with its body is handled.                                       *)
(***************************************************************************)
CompleteRequestHandled == server = "reading" => len < Total(req)

(***************************************************************************)
(* A client that has sent a request without a body sees the end of the     *)
(* response, if the response tells its length or the request asked to      *)
(* close, however many requests the connection has carried before.  The    *)
(* answers RESP_200, RESP_201 and RESP_404 do not tell it.                 *)
(***************************************************************************)
ToldExchangeEnds ==
  client = "reading" /\ req.body = 0 /\ (req.framed \/ req.close) ~> client # "reading"
=============================================================================
