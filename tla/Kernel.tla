------------------------------- MODULE Kernel -------------------------------
(***************************************************************************)
(* The Rust kernel of Expresso (expresso-rs): the accept loop of main, the *)
(* fixed thread pool it hands every accepted stream to, and the life of    *)
(* one connection inside handle_connection, from the first read of         *)
(* HttpRequest::parse to the drop of the stream.  A connection carries one *)
(* request.  What a handler does to the files is in FileStore, what the    *)
(* C++ engine does with the command is in CppEngine.                       *)
(***************************************************************************)
EXTENDS Naturals, Sequences

CONSTANTS
  Conns,       \* the connections clients may open
  Workers,     \* the threads of the pool
  Requests,    \* the requests clients send
  Silent,      \* the connections whose client may stop sending for ever
  MaxCrashes,  \* bound on the failures of accept
  NoConn       \* what an idle worker serves

(***************************************************************************)
(* length tells how a body is announced: not at all, with a header spelled *)
(* Content-Length that holds a number, or in a variant the parser does not *)
(* recognise (another capitalisation, a value that is no usize).  nulPath  *)
(* tells that the path is no C string.  A request line whose method, path  *)
(* and a first sign of a version have arrived is wellFormed, cut or not.   *)
(* utf8 tells that every header line is UTF-8; of headers with a line that *)
(* is not, the part named Headers ends with the first such line.           *)
(***************************************************************************)
Request == [wellFormed: BOOLEAN, method: {"GET", "POST", "DELETE", "OTHER"},
            length: {"none", "exact", "variant"}, nulPath: BOOLEAN, utf8: BOOLEAN]

ASSUME KernelAssumption ==
  /\ NoConn \notin Conns
  /\ Silent \subseteq Conns
  /\ Requests \subseteq Request
  /\ MaxCrashes \in Nat

VARIABLES
  phase,    \* of a connection: new, backlog, accepted, closed or reset
  req,      \* the request a connection carries
  sent,     \* how many of its parts the client has sent
  peer,     \* the client's end: open, fin (end of stream) or rst (error)
  jobs,     \* the pool's queue of accepted streams
  pc,       \* what a worker does next
  conn,     \* the connection a worker serves
  got,      \* how many parts of the request the worker has parsed
  effect,   \* what a handler has run on: nothing, a whole or a partial request
  reply,    \* the response written to the connection
  main,     \* the process: up or down
  crashes   \* how often it has died

clientVars == <<phase, req, sent, peer>>
workerVars == <<pc, conn, got>>
vars == <<clientVars, jobs, workerVars, effect, reply, main, crashes>>

Line == 1
Headers == 2
Body == 3

Parts(r) == IF r.length = "none" THEN Headers ELSE Body

PCs == {"idle", "line", "headers", "body", "command", "handle", "respond"}

TypeOK ==
  /\ phase \in [Conns -> {"new", "backlog", "accepted", "closed", "reset"}]
  /\ req \in [Conns -> Requests]
  /\ sent \in [Conns -> 0..Body]
  /\ peer \in [Conns -> {"open", "fin", "rst"}]
  /\ jobs \in Seq(Conns)
  /\ pc \in [Workers -> PCs]
  /\ conn \in [Workers -> Conns \cup {NoConn}]
  /\ got \in [Workers -> 0..Body]
  /\ effect \in [Conns -> {"none", "whole", "partial"}]
  /\ reply \in [Conns -> {"none", "handled", "405"}]
  /\ main \in {"up", "down"}
  /\ crashes \in 0..MaxCrashes

Init ==
  /\ phase = [c \in Conns |-> "new"]
  /\ req \in [Conns -> Requests]
  /\ sent = [c \in Conns |-> 0]
  /\ peer = [c \in Conns |-> "open"]
  /\ jobs = <<>>
  /\ pc = [w \in Workers |-> "idle"]
  /\ conn = [w \in Workers |-> NoConn]
  /\ got = [w \in Workers |-> 0]
  /\ effect = [c \in Conns |-> "none"]
  /\ reply = [c \in Conns |-> "none"]
  /\ main = "up"
  /\ crashes = 0

-----------------------------------------------------------------------------
(***************************************************************************)
(* The clients.                                                            *)
(***************************************************************************)
Connect(c) ==
  /\ main = "up" /\ phase[c] = "new"
  /\ phase' = [phase EXCEPT ![c] = "backlog"]
  /\ UNCHANGED <<req, sent, peer, jobs, workerVars, effect, reply, main, crashes>>

Send(c) ==
  /\ phase[c] \in {"backlog", "accepted"}
  /\ peer[c] = "open"
  /\ sent[c] < Parts(req[c])
  /\ sent' = [sent EXCEPT ![c] = @ + 1]
  /\ UNCHANGED <<phase, req, peer, jobs, workerVars, effect, reply, main, crashes>>

HangUp(c) ==
  /\ phase[c] \in {"backlog", "accepted"}
  /\ peer[c] = "open"
  /\ peer' \in {[peer EXCEPT ![c] = e] : e \in {"fin", "rst"}}
  /\ UNCHANGED <<phase, req, sent, jobs, workerVars, effect, reply, main, crashes>>

-----------------------------------------------------------------------------
(***************************************************************************)
(* The accept loop.  An error of accept reaches stream.unwrap(): the main  *)
(* thread panics, the process ends, and with it every connection.          *)
(***************************************************************************)
Accept(c) ==
  /\ main = "up" /\ phase[c] = "backlog"
  /\ phase' = [phase EXCEPT ![c] = "accepted"]
  /\ jobs' = Append(jobs, c)
  /\ UNCHANGED <<req, sent, peer, workerVars, effect, reply, main, crashes>>

AcceptFails ==
  /\ main = "up" /\ crashes < MaxCrashes
  /\ main' = "down"
  /\ crashes' = crashes + 1
  /\ phase' = [c \in Conns |->
                 IF phase[c] \in {"backlog", "accepted"} THEN "reset" ELSE phase[c]]
  /\ jobs' = <<>>
  /\ pc' = [w \in Workers |-> "idle"]
  /\ conn' = [w \in Workers |-> NoConn]
  /\ got' = [w \in Workers |-> 0]
  /\ UNCHANGED <<req, sent, peer, effect, reply>>

\* The container is declared restart: unless-stopped.
Restart ==
  /\ main = "down"
  /\ main' = "up"
  /\ UNCHANGED <<clientVars, jobs, workerVars, effect, reply, crashes>>

-----------------------------------------------------------------------------
(***************************************************************************)
(* A worker of the pool.                                                   *)
(***************************************************************************)
\* Mutant: a pool whose worker keeps the queue locked while it runs a job.
TakeLocked(w) ==
  /\ main = "up" /\ jobs # <<>> /\ \A v \in Workers : pc[v] = "idle"
  /\ jobs' = Tail(jobs)
  /\ conn' = [conn EXCEPT ![w] = Head(jobs)]
  /\ pc' = [pc EXCEPT ![w] = "line"]
  /\ UNCHANGED <<clientVars, got, effect, reply, main, crashes>>

Take(w) ==
  /\ main = "up" /\ pc[w] = "idle" /\ jobs # <<>>
  /\ jobs' = Tail(jobs)
  /\ conn' = [conn EXCEPT ![w] = Head(jobs)]
  /\ pc' = [pc EXCEPT ![w] = "line"]
  /\ UNCHANGED <<clientVars, got, effect, reply, main, crashes>>

Arrived(w, part) == sent[conn[w]] >= part
Ended(w, part, how) == ~Arrived(w, part) /\ peer[conn[w]] \in how

Parsed(w, part, next) ==
  /\ got' = [got EXCEPT ![w] = part]
  /\ pc' = [pc EXCEPT ![w] = next]
  /\ UNCHANGED <<clientVars, jobs, conn, effect, reply, main, crashes>>

\* The stream is dropped and the worker waits for its next job.
LeaveIdle(w) ==
  /\ phase' = [phase EXCEPT ![conn[w]] = "closed"]
  /\ pc' = [pc EXCEPT ![w] = "idle"]
  /\ conn' = [conn EXCEPT ![w] = NoConn]
  /\ got' = [got EXCEPT ![w] = 0]

ReadLine(w) ==
  /\ pc[w] = "line"
  /\ Arrived(w, Line) /\ req[conn[w]].wellFormed
  /\ Parsed(w, Line, "headers")

\* Only the exact spelling is found in the map of headers.
AfterHeaders(r) == IF r.length = "exact" THEN "body" ELSE "command"

ReadHeaders(w) ==
  /\ pc[w] = "headers"
  /\ Arrived(w, Headers) /\ req[conn[w]].utf8
  /\ Parsed(w, Headers, AfterHeaders(req[conn[w]]))

\* The end of the stream ends the headers as a blank line does.  So does a
\* reset, if it was met (and ignored) while the request line was read.  The line
\* that announces a body may have come before the end, whole or cut to a number.
CutHeaders(w) ==
  /\ pc[w] = "headers"
  /\ Ended(w, Headers, {"fin", "rst"})
  /\ \/ Parsed(w, Line, "command")
     \/ req[conn[w]].length # "none" /\ Parsed(w, Line, "body")

\* Mutant: read instead of read_exact, which returns at the end of the stream.
BodyReadyOrEnded(w) == Arrived(w, Body) \/ peer[conn[w]] = "fin"

BodyReady(w) == Arrived(w, Body)

ReadBody(w) ==
  /\ pc[w] = "body"
  /\ BodyReady(w)
  /\ Parsed(w, Body, "command")

\* read_line fails on a header line that is not UTF-8, as the end of the stream
\* inside a character leaves one.
ParseFails(w) ==
  /\ \/ pc[w] = "line" /\ Ended(w, Line, {"fin", "rst"})
     \/ pc[w] = "line" /\ Arrived(w, Line) /\ ~req[conn[w]].wellFormed
     \/ pc[w] = "headers" /\ Ended(w, Headers, {"fin", "rst"})
     \/ pc[w] = "headers" /\ Arrived(w, Headers) /\ ~req[conn[w]].utf8
     \/ pc[w] = "body" /\ Ended(w, Body, {"fin", "rst"})
  /\ LeaveIdle(w)
  /\ UNCHANGED <<req, sent, peer, jobs, effect, reply, main, crashes>>

Command(w) ==
  /\ pc[w] = "command" /\ ~req[conn[w]].nulPath
  /\ pc' = [pc EXCEPT ![w] = "handle"]
  /\ UNCHANGED <<clientVars, jobs, conn, got, effect, reply, main, crashes>>

\* Mutant: a pool that does not replace the thread a panic ended.
ReplacedNever(w) ==
  /\ phase' = [phase EXCEPT ![conn[w]] = "closed"]
  /\ pc' = [pc EXCEPT ![w] = "ended"]
  /\ conn' = [conn EXCEPT ![w] = NoConn]
  /\ got' = [got EXCEPT ![w] = 0]

\* Mutant: the stream outlives the panic that ended its thread.
ReplacedLeaking(w) ==
  /\ phase' = phase
  /\ pc' = [pc EXCEPT ![w] = "idle"]
  /\ conn' = [conn EXCEPT ![w] = NoConn]
  /\ got' = [got EXCEPT ![w] = 0]

\* A path that is no C string panics the job; the pool replaces its thread.
Replaced(w) == LeaveIdle(w)

Panic(w) ==
  /\ pc[w] = "command" /\ req[conn[w]].nulPath
  /\ Replaced(w)
  /\ UNCHANGED <<req, sent, peer, jobs, effect, reply, main, crashes>>

Effect(w) ==
  IF req[conn[w]].method = "OTHER" THEN "none"
  ELSE IF got[w] = Parts(req[conn[w]]) THEN "whole" ELSE "partial"

\* Mutant: a branch of a handler that returns without a response.
HandleUnanswered(w) ==
  /\ pc[w] = "handle"
  /\ effect' = [effect EXCEPT ![conn[w]] = Effect(w)]
  /\ IF req[conn[w]].method = "DELETE"
       THEN LeaveIdle(w)
       ELSE pc' = [pc EXCEPT ![w] = "respond"] /\ UNCHANGED <<phase, conn, got>>
  /\ UNCHANGED <<req, sent, peer, jobs, reply, main, crashes>>

Handle(w) ==
  /\ pc[w] = "handle"
  /\ effect' = [effect EXCEPT ![conn[w]] = Effect(w)]
  /\ pc' = [pc EXCEPT ![w] = "respond"]
  /\ UNCHANGED <<clientVars, jobs, conn, got, reply, main, crashes>>

\* The result of write_all is ignored.
Respond(w) ==
  /\ pc[w] = "respond"
  /\ reply' = [reply EXCEPT ![conn[w]] =
                 IF req[conn[w]].method = "OTHER" THEN "405" ELSE "handled"]
  /\ LeaveIdle(w)
  /\ UNCHANGED <<req, sent, peer, jobs, effect, main, crashes>>

Worker(w) ==
  \/ Take(w) \/ ReadLine(w) \/ ReadHeaders(w) \/ CutHeaders(w) \/ ReadBody(w)
  \/ ParseFails(w) \/ Command(w) \/ Panic(w) \/ Handle(w) \/ Respond(w)

Next ==
  \/ \E c \in Conns : Connect(c) \/ Send(c) \/ HangUp(c) \/ Accept(c)
  \/ \E w \in Workers : Worker(w)
  \/ AcceptFails
  \/ Restart

(***************************************************************************)
(* The main thread and the workers are ordinary running threads; a client  *)
(* that is not silent finishes what it began to send.  Nobody is obliged   *)
(* to connect or to hang up.                                               *)
(***************************************************************************)
Fairness ==
  /\ \A w \in Workers : WF_vars(Worker(w))
  /\ \A c \in Conns : WF_vars(Accept(c))
  /\ \A c \in Conns \ Silent : WF_vars(Send(c))
  /\ WF_vars(Restart)

Spec == Init /\ [][Next]_vars
FairSpec == Spec /\ Fairness

-----------------------------------------------------------------------------
InQueue(c) == {i \in DOMAIN jobs : jobs[i] = c}
ServedBy(c) == {w \in Workers : conn[w] = c}

(***************************************************************************)
(* No connection is served twice or lost between main and the pool: one    *)
(* that was accepted and not yet dropped is either in the queue, once, or  *)
(* with one worker, and every other connection is with nobody, whatever    *)
(* panics, parse errors and restarts happened on the way.                  *)
(***************************************************************************)
ExclusiveService ==
  \A c \in Conns :
    IF phase[c] = "accepted"
    THEN \/ /\ \E i \in DOMAIN jobs : InQueue(c) = {i}
            /\ ServedBy(c) = {}
         \/ /\ InQueue(c) = {}
            /\ \E w \in Workers : ServedBy(c) = {w}
    ELSE InQueue(c) = {} /\ ServedBy(c) = {}

\* The same in the terms of the steps: who holds what, one conjunct for each
\* way a step could go wrong.
Coherent == \A w \in Workers : pc[w] = "idle" <=> conn[w] = NoConn
HeldIsAccepted ==
  /\ \A w \in Workers : conn[w] # NoConn => phase[conn[w]] = "accepted"
  /\ \A i \in DOMAIN jobs : phase[jobs[i]] = "accepted"
AcceptedIsHeld ==
  \A c \in Conns : phase[c] = "accepted" =>
    (\E i \in DOMAIN jobs : jobs[i] = c) \/ (\E w \in Workers : conn[w] = c)
HeldOnce ==
  /\ \A w, v \in Workers : conn[w] # NoConn /\ conn[w] = conn[v] => w = v
  /\ \A i, j \in DOMAIN jobs : jobs[i] = jobs[j] => i = j
  /\ \A w \in Workers : \A i \in DOMAIN jobs : jobs[i] # conn[w]

PoolInv == TypeOK /\ Coherent /\ HeldIsAccepted /\ AcceptedIsHeld /\ HeldOnce

(***************************************************************************)
(* A connection that handle_connection drops without a response has had no *)
(* effect: every handler that ran has answered, and the ways out without   *)
(* an answer (a parse error, a panic of the engine call) lie before it.    *)
(* A client may therefore repeat such a request; after a reset it may not. *)
(***************************************************************************)
SilentCloseIsHarmless ==
  \A c \in Conns : phase[c] = "closed" /\ reply[c] = "none" => effect[c] = "none"

(***************************************************************************)
(* read_exact never hands a short body to a handler: a handler that ran on *)
(* a whole request had every part of it sent, and one that ran on less had *)
(* its body announced in a form the parser does not know, or its headers   *)
(* cut by the end of the stream.                                           *)
(***************************************************************************)
NoShortBody ==
  \A c \in Conns :
    /\ effect[c] = "whole" => sent[c] = Parts(req[c])
    /\ effect[c] = "partial" =>
         \/ req[c].length = "variant"
         \/ sent[c] < Headers /\ peer[c] # "open"

\* What makes the two hold: the worker whose handler ran is about to answer, and
\* what it has parsed was sent.
AnswerFollows ==
  \A c \in Conns : effect[c] # "none" =>
    \/ phase[c] = "reset"
    \/ phase[c] = "closed" /\ reply[c] # "none"
    \/ \E w \in Workers : conn[w] = c /\ pc[w] = "respond"
SentWithin == \A c \in Conns : sent[c] <= Parts(req[c])
ParsedWasSent ==
  \A w \in Workers :
    /\ pc[w] = "body" =>
         \/ got[w] = Line /\ sent[conn[w]] < Headers /\ peer[conn[w]] # "open"
         \/ got[w] = Headers /\ req[conn[w]].length = "exact"
    /\ pc[w] \in {"command", "handle"} =>
         \/ got[w] = Line /\ sent[conn[w]] < Headers /\ peer[conn[w]] # "open"
         \/ got[w] = Headers /\ sent[conn[w]] >= Headers /\ req[conn[w]].length # "exact"
         \/ got[w] = Body /\ sent[conn[w]] >= Body

HandlerInv == AnswerFollows /\ SentWithin /\ ParsedWasSent /\ NoShortBody

(***************************************************************************)
(* A client that sends what it announced is answered, even while others    *)
(* stop in the middle of a request and keep their connection open for      *)
(* ever, as long as the silent ones are fewer than the pool's workers.     *)
(* The exceptions: a restart, a request line or path that is no request, a *)
(* header line that is not UTF-8, and a client that hangs up itself.       *)
(***************************************************************************)
Answered(c) ==
  \/ reply[c] # "none"
  \/ phase[c] = "reset"
  \/ /\ phase[c] = "closed"
     /\ ~req[c].wellFormed \/ ~req[c].utf8 \/ req[c].nulPath \/ peer[c] # "open"

CooperativeClientsServed ==
  \A c \in Conns \ Silent : phase[c] = "backlog" ~> Answered(c)
=============================================================================
