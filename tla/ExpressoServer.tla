--------------------------- MODULE ExpressoServer ---------------------------
(***************************************************************************)
(* The process of the C++ server: the accept loop, a thread for every      *)
(* connection, the descriptors they share and one file that requests of    *)
(* all connections read and write.  How one request is cut out of its      *)
(* stream is RequestReader's subject; here a request is received in one    *)
(* piece, unless it is split, and bodies fit one buffer of a file stream.  *)
(***************************************************************************)
EXTENDS Naturals, Sequences, FiniteSets

CONSTANTS
  Clients,  \* those who may have a connection
  Plans,    \* how many descriptors connections and files may have, what the
            \* file holds at first and what the clients want to send
  Small,    \* bodies that stay in the stream's buffer until it is closed
  Large,    \* bodies that are written at once (1024 bytes and more)
  Absent, Empty, Torn, None

Bodies == Small \cup Large
Contents == Bodies \cup {Absent, Empty, Torn}

\* bad: its Content-Length is no number; split: its body arrives after its
\* head; eager: sent without waiting for the answer before; close: asks to.
Request == [verb : {"get", "post", "other", "bad"}, body : Bodies \cup {None},
            split : BOOLEAN, eager : BOOLEAN, close : BOOLEAN]

\* Its client waits for an answer that cannot be told from one to come, or sends
\* nothing at all: it keeps its connection for ever.
Lingers(s) == s = <<>> \/ \E i \in DOMAIN s : s[i].split \/ s[i].eager \/ ~s[i].close

ASSUME ExpressoServerAssumption ==
  /\ \A p \in Plans : /\ \A c \in DOMAIN p.script : p.script[c] \in Seq(Request)
                      /\ p.limit \in Nat /\ p.file \in Contents
                      /\ Cardinality({c \in DOMAIN p.script : Lingers(p.script[c])}) < p.limit
  /\ Clients \cap {"free", "file"} = {} /\ None \notin Nat
  /\ Small \cap Large = {} /\ Bodies \cap {Absent, Empty, Torn} = {}
  /\ Absent # Empty /\ Absent # Torn

VARIABLES
  alive,   \* the process runs
  desc,    \* the table of descriptors: free, a connection or an open file
  file,    \* what the file holds
  script,  \* what a client has still to send
  inbox,   \* what was sent to its connection and not received
  owed,    \* the answers it waits for
  link,    \* open, gone (it has hung up) or over (the server has)
  stage,   \* what the thread of its connection does
  fd,      \* client_fd of that thread
  hold,    \* the descriptor of the file it has open
  req,     \* the request it handles
  result,  \* the answer: its code, and a body
  plain,   \* the client waits as the answers allow and lingers nowhere
  seen,    \* what the file held since a get was received
  alone,   \* no other upload since the own one began
  failed   \* what went wrong unseen: no descriptor, or a flush that failed

client == <<script, inbox, owed, link, plain>>
thread == <<stage, fd, hold, req, result, alone, failed>>
vars == <<alive, desc, file, client, thread, seen>>

Handling == {"open", "read", "rest", "check", "found", "create", "write", "flush", "other", "answer"}

Fds == DOMAIN desc

Stages == Handling \cup {"queued", "reading", "stuck", "closing", "ended"}

TypeOK ==
  /\ alive \in BOOLEAN /\ file \in Contents
  /\ Fds \subseteq Nat /\ desc \in [Fds -> Clients \cup {"free", "file"}]
  /\ script \in [Clients -> Seq(Request)] /\ inbox \in [Clients -> Seq(Request)]
  /\ owed \in [Clients -> Nat] /\ link \in [Clients -> {"open", "gone", "over"}]
  /\ stage \in [Clients -> Stages]
  /\ fd \in [Clients -> Fds \cup {None}] /\ hold \in [Clients -> Fds \cup {None}]
  /\ req \in [Clients -> Request \cup {None}]
  /\ result \in [Clients -> [code : {"none", "200", "201", "404"}, body : Contents \cup {None}]]
  /\ seen \in [Clients -> SUBSET Contents]
  /\ alone \in [Clients -> BOOLEAN] /\ failed \in [Clients -> BOOLEAN] /\ plain \in [Clients -> BOOLEAN]
  /\ \A c \in Clients :
       /\ fd[c] # None <=> stage[c] \in Handling \cup {"reading", "stuck", "closing"}
       /\ hold[c] # None <=> stage[c] \in {"read", "rest", "found", "write", "flush"}
       /\ result[c].code # "none" <=> stage[c] \in {"flush", "answer"}
       /\ stage[c] \in Handling => req[c] \in Request

NoResult == [code |-> "none", body |-> None]

Init ==
  /\ \E p \in Plans : /\ desc = [d \in 0 .. (p.limit - 1) |-> "free"]
                      /\ file = p.file
                      /\ script = [c \in Clients |-> IF c \in DOMAIN p.script THEN p.script[c] ELSE <<>>]
                      /\ link = [c \in Clients |-> IF c \in DOMAIN p.script THEN "open" ELSE "over"]
  /\ alive = TRUE
  /\ inbox = [c \in Clients |-> <<>>]
  /\ owed = [c \in Clients |-> 0]
  /\ stage = [c \in Clients |-> IF link[c] = "open" THEN "queued" ELSE "ended"]
  /\ fd = [c \in Clients |-> None] /\ hold = [c \in Clients |-> None]
  /\ req = [c \in Clients |-> None]
  /\ result = [c \in Clients |-> NoResult]
  /\ plain = [c \in Clients |-> ~Lingers(script[c])]
  /\ seen = [c \in Clients |-> {}]
  /\ alone = [c \in Clients |-> TRUE] /\ failed = [c \in Clients |-> FALSE]

-----------------------------------------------------------------------------
(***************************************************************************)
(* The clients.  Their connections wait to be accepted from the start,     *)
(* since accept may take its time.                                         *)
(***************************************************************************)
Send(c) ==
  /\ link[c] = "open" /\ script[c] # <<>>
  /\ owed[c] = 0 \/ Head(script[c]).eager
  /\ inbox' = [inbox EXCEPT ![c] = Append(@, Head(script[c]))]
  /\ script' = [script EXCEPT ![c] = Tail(@)]
  /\ owed' = [owed EXCEPT ![c] = @ + 1]
  /\ UNCHANGED <<alive, desc, file, link, plain, thread, seen>>

HangUp(c) ==
  /\ link[c] = "open"
  /\ link' = [link EXCEPT ![c] = "gone"]
  /\ script' = [script EXCEPT ![c] = <<>>]
  /\ owed' = [owed EXCEPT ![c] = 0]
  /\ UNCHANGED <<alive, desc, file, inbox, plain, thread, seen>>

-----------------------------------------------------------------------------
(***************************************************************************)
(* The process: its end, and the accept loop.                              *)
(***************************************************************************)
Die ==
  /\ alive' = FALSE
  /\ desc' = [d \in Fds |-> "free"]
  /\ link' = [c \in Clients |-> IF link[c] = "open" THEN "over" ELSE link[c]]
  /\ stage' = [c \in Clients |-> "ended"]
  /\ fd' = [c \in Clients |-> None] /\ hold' = [c \in Clients |-> None]
  /\ req' = [c \in Clients |-> None]
  /\ result' = [c \in Clients |-> NoResult]
  /\ alone' = [c \in Clients |-> TRUE]
  /\ failed' = [c \in Clients |-> FALSE]
  /\ seen' = [c \in Clients |-> {}]
  /\ script' = [c \in Clients |-> <<>>] /\ inbox' = [c \in Clients |-> <<>>]
  /\ owed' = [c \in Clients |-> 0]
  /\ UNCHANGED <<file, plain>>

Free == {d \in Fds : desc[d] = "free"}
Lowest == CHOOSE d \in Free : \A e \in Free : d <= e

\* With no descriptor left accept fails, and is called again.
Accept(c) ==
  /\ stage[c] = "queued" /\ Free # {}
  /\ desc' = [desc EXCEPT ![Lowest] = c]
  /\ fd' = [fd EXCEPT ![c] = Lowest]
  /\ stage' = [stage EXCEPT ![c] = "reading"]
  /\ UNCHANGED <<alive, file, client, hold, req, result, alone, failed, seen>>

\* The constructor of std::thread throws, and nothing catches it.
ThreadFails(c) == stage[c] = "queued" /\ Free # {} /\ Die

-----------------------------------------------------------------------------
(***************************************************************************)
(* handle_client: receiving a request, and the ways out of the loop.       *)
(***************************************************************************)
FirstStage(r) ==
  IF r.split THEN "stuck"
  ELSE CASE r.verb = "get" -> "open" [] r.verb = "post" -> "create" [] OTHER -> "other"

\* What is received behind the request is freed with it.
Recv(c, k) ==
  /\ stage[c] = "reading" /\ k \in 1..Len(inbox[c])
  /\ IF Head(inbox[c]).verb = "bad" THEN Die
     ELSE /\ req' = [req EXCEPT ![c] = IF Head(inbox[c]).split THEN None ELSE Head(inbox[c])]
          /\ inbox' = [inbox EXCEPT ![c] = SubSeq(@, k + 1, Len(@))]
          /\ stage' = [stage EXCEPT ![c] = FirstStage(Head(inbox[c]))]
          /\ seen' = [seen EXCEPT ![c] = IF Head(inbox[c]).verb = "get" THEN {file} ELSE {}]
          /\ UNCHANGED <<alive, desc, file, script, owed, link, plain, fd, hold, result, alone, failed>>

\* Mutant: read_request closes the connection whose client has gone.
GiveUpClosing(c) ==
  /\ stage[c] \in {"reading", "stuck"} /\ link[c] = "gone"
  /\ stage[c] = "reading" => inbox[c] = <<>>
  /\ stage' = [stage EXCEPT ![c] = "closing"]
  /\ desc' = [desc EXCEPT ![fd[c]] = "free"]
  /\ UNCHANGED <<alive, file, client, fd, hold, req, result, alone, failed, seen>>

GiveUp(c) ==
  /\ stage[c] \in {"reading", "stuck"} /\ link[c] = "gone"
  /\ stage[c] = "reading" => inbox[c] = <<>>
  /\ stage' = [stage EXCEPT ![c] = "closing"]
  /\ UNCHANGED <<alive, desc, file, client, fd, hold, req, result, alone, failed, seen>>

\* Mutant: the descriptor is not closed.
CloseKeeping(c) ==
  /\ stage[c] = "closing"
  /\ fd' = [fd EXCEPT ![c] = None]
  /\ link' = [link EXCEPT ![c] = IF @ = "open" THEN "over" ELSE @]
  /\ stage' = [stage EXCEPT ![c] = "ended"]
  /\ UNCHANGED <<alive, desc, file, script, inbox, owed, plain, hold, req, result, alone, failed, seen>>

Close(c) ==
  /\ stage[c] = "closing"
  /\ desc' = [desc EXCEPT ![fd[c]] = "free"]
  /\ fd' = [fd EXCEPT ![c] = None]
  /\ link' = [link EXCEPT ![c] = IF @ = "open" THEN "over" ELSE @]
  /\ stage' = [stage EXCEPT ![c] = "ended"]
  /\ UNCHANGED <<alive, file, script, inbox, owed, plain, hold, req, result, alone, failed, seen>>

\* Only the answer to a get that found the file tells its length.
Answer(c) ==
  /\ stage[c] = "answer"
  /\ stage' = [stage EXCEPT ![c] = IF req[c].close THEN "closing" ELSE "reading"]
  /\ owed' = [owed EXCEPT ![c] = IF link[c] = "open" /\ (req[c].close \/ result[c].code = "200") THEN @ - 1 ELSE @]
  /\ req' = [req EXCEPT ![c] = None]
  /\ result' = [result EXCEPT ![c] = NoResult]
  /\ alone' = [alone EXCEPT ![c] = TRUE]
  /\ failed' = [failed EXCEPT ![c] = FALSE]
  /\ seen' = [seen EXCEPT ![c] = {}]
  /\ UNCHANGED <<alive, desc, file, script, inbox, link, plain, fd, hold>>

\* To send to a client that has gone raises SIGPIPE.
Killed(c) == stage[c] = "answer" /\ link[c] = "gone" /\ Die

-----------------------------------------------------------------------------
(***************************************************************************)
(* handle_get on /files: read_file, and the second look at an empty one.   *)
(***************************************************************************)
Size(x) == CASE x \in {Absent, Empty} -> 0 [] x \in Small -> 1 [] OTHER -> 2

Reply(c, code, b) ==
  /\ result' = [result EXCEPT ![c] = [code |-> code, body |-> b]]
  /\ stage' = [stage EXCEPT ![c] = "answer"]

Other(c) ==
  /\ stage[c] = "other" /\ Reply(c, "404", None)
  /\ UNCHANGED <<alive, desc, file, client, fd, hold, req, alone, failed, seen>>

Take(c) ==
  /\ desc' = [desc EXCEPT ![Lowest] = "file"]
  /\ hold' = [hold EXCEPT ![c] = Lowest]

Drop(c) ==
  /\ desc' = [desc EXCEPT ![hold[c]] = "free"]
  /\ hold' = [hold EXCEPT ![c] = None]

OpenRead(c) ==
  /\ stage[c] = "open"
  /\ IF Free = {} \/ file = Absent
     THEN /\ stage' = [stage EXCEPT ![c] = "check"]
          /\ failed' = [failed EXCEPT ![c] = Free = {}]
          /\ UNCHANGED <<desc, hold>>
     ELSE /\ Take(c)
          /\ stage' = [stage EXCEPT ![c] = "read"]
          /\ UNCHANGED failed
  /\ UNCHANGED <<alive, file, client, fd, req, result, alone, seen>>

\* Reading goes on until nothing more comes.
Read(c) ==
  /\ stage[c] = "read"
  /\ IF file = Empty
     THEN stage' = [stage EXCEPT ![c] = "check"] /\ Drop(c) /\ UNCHANGED result
     ELSE /\ stage' = [stage EXCEPT ![c] = "rest"]
          /\ result' = [result EXCEPT ![c].body = file]
          /\ UNCHANGED <<desc, hold>>
  /\ UNCHANGED <<alive, file, client, fd, req, alone, failed, seen>>

ReadRest(c) ==
  /\ stage[c] = "rest"
  /\ Reply(c, "200", IF Size(file) > Size(result[c].body) THEN Torn ELSE result[c].body)
  /\ Drop(c)
  /\ UNCHANGED <<alive, file, client, fd, req, alone, failed, seen>>

\* Mutant: an empty file is taken for none.
CheckEmpty(c) ==
  /\ stage[c] = "check"
  /\ Reply(c, "404", None)
  /\ UNCHANGED <<alive, desc, file, client, fd, hold, req, alone, failed, seen>>

Check(c) ==
  /\ stage[c] = "check"
  /\ IF Free = {} \/ file = Absent
     THEN /\ Reply(c, "404", None)
          /\ failed' = [failed EXCEPT ![c] = @ \/ Free = {}]
          /\ UNCHANGED <<desc, hold>>
     ELSE /\ Take(c)
          /\ stage' = [stage EXCEPT ![c] = "found"]
          /\ UNCHANGED <<result, failed>>
  /\ UNCHANGED <<alive, file, client, fd, req, alone, seen>>

\* The stream of the second look is closed before the answer is made.
CheckEnds(c) ==
  /\ stage[c] = "found"
  /\ Drop(c) /\ Reply(c, "200", Empty)
  /\ UNCHANGED <<alive, file, client, fd, req, alone, failed, seen>>

-----------------------------------------------------------------------------
(***************************************************************************)
(* handle_post: write_file, whose stream is flushed only when it is        *)
(* destroyed, behind good().                                               *)
(***************************************************************************)
\* What b written over x leaves; equal letters of a size have equal lengths.
Over(b, x) == IF b \in Large \/ x \in {Empty} \cup Small THEN b ELSE Torn

Uploading(c) == stage[c] \in {"write", "flush", "answer"} /\ req[c].verb = "post"

Writes(x) ==
  /\ file' = x
  /\ seen' = [d \in Clients |-> IF seen[d] = {} THEN {} ELSE seen[d] \cup {x}]

Create(c) ==
  /\ stage[c] = "create"
  /\ IF Free = {}
     THEN Reply(c, "404", None) /\ UNCHANGED <<desc, file, hold, alone, seen>>
     ELSE /\ Take(c) /\ Writes(Empty)
          /\ stage' = [stage EXCEPT ![c] = "write"]
          /\ alone' = [d \in Clients |->
               IF d = c THEN \A e \in Clients \ {c} : ~Uploading(e) ELSE ~Uploading(d)]
          /\ UNCHANGED result
  /\ UNCHANGED <<alive, client, fd, req, failed>>

\* Mutant: good() is not asked.
WriteUnchecked(c) ==
  /\ stage[c] = "write"
  /\ stage' = [stage EXCEPT ![c] = "flush"]
  /\ result' = [result EXCEPT ![c] = [code |-> "201", body |-> None]]
  /\ IF req[c].body \in Small THEN UNCHANGED <<file, seen>>
     ELSE Writes(Over(req[c].body, file)) \/ Writes(file) \/ Writes(Torn)
  /\ UNCHANGED <<alive, desc, client, fd, hold, req, alone, failed>>

Write(c) ==
  /\ stage[c] = "write"
  /\ stage' = [stage EXCEPT ![c] = "flush"]
  /\ \E code \in {"201", "404"} :
       /\ result' = [result EXCEPT ![c] = [code |-> code, body |-> None]]
       /\ \/ req[c].body \in Small /\ code = "201" /\ UNCHANGED <<file, seen>>
          \/ req[c].body \in Large /\ code = "201" /\ Writes(Over(req[c].body, file))
          \/ req[c].body \in Large /\ code = "404" /\ (Writes(file) \/ Writes(Torn))
  /\ UNCHANGED <<alive, desc, client, fd, hold, req, alone, failed>>

\* Mutant: the stream is not destroyed.
FlushOpen(c) ==
  /\ stage[c] = "flush"
  /\ stage' = [stage EXCEPT ![c] = "answer"]
  /\ UNCHANGED <<alive, desc, file, client, fd, hold, req, result, alone, failed, seen>>

Flush(c) ==
  /\ stage[c] = "flush"
  /\ Drop(c)
  /\ stage' = [stage EXCEPT ![c] = "answer"]
  /\ \/ req[c].body \in Large /\ UNCHANGED <<file, seen, failed>>
     \/ req[c].body \in Small /\ Writes(Over(req[c].body, file)) /\ UNCHANGED failed
     \/ /\ req[c].body \in Small /\ (Writes(file) \/ Writes(Torn))
        /\ failed' = [failed EXCEPT ![c] = TRUE]
  /\ UNCHANGED <<alive, client, fd, req, result, alone>>

-----------------------------------------------------------------------------
Serve(c) ==
  \/ \E k \in 1..Len(inbox[c]) : Recv(c, k)
  \/ GiveUp(c) \/ Close(c) \/ Answer(c) \/ Killed(c)
  \/ Other(c) \/ OpenRead(c) \/ Read(c) \/ ReadRest(c) \/ Check(c) \/ CheckEnds(c)
  \/ Create(c) \/ Write(c) \/ Flush(c)

Next == \E c \in Clients :
  \/ Send(c) \/ HangUp(c)
  \/ Accept(c) \/ ThreadFails(c) \/ Serve(c)

Answered(c) == owed[c] = 0 /\ script[c] = <<>>

\* A client with all its answers and nothing more to send leaves, save one that
\* lingers.
Leave(c) == HangUp(c) /\ Answered(c) /\ plain[c]

(***************************************************************************)
(* The accept loop and the threads run whenever they can; clients that     *)
(* connected send their requests and leave, save those that linger.        *)
(***************************************************************************)
Fairness == \A c \in Clients :
  WF_vars(Accept(c)) /\ WF_vars(Serve(c)) /\ WF_vars(Send(c)) /\ WF_vars(Leave(c))

Spec == Init /\ [][Next]_vars
FairSpec == Spec /\ Fairness

-----------------------------------------------------------------------------
(***************************************************************************)
(* A thread answers on its own connection: its descriptor is its client's  *)
(* from accept to the one close, although the numbers of closed ones are   *)
(* given out again at once to other connections and files.                 *)
(***************************************************************************)
OwnConnection ==
  \A c \in Clients :
    /\ fd[c] # None => desc[fd[c]] = c
    /\ hold[c] # None => /\ desc[hold[c]] = "file"
                         /\ \A d \in Clients \ {c} : hold[d] # hold[c]

(***************************************************************************)
(* What a get answers was so at some moment since the request came, though *)
(* it looks twice: the body was in the file, or grew there while an upload *)
(* went on, and for a 404 there was no file.  A get that found no          *)
(* descriptor for the file may say 404, or 200 with nothing.               *)
(***************************************************************************)
GetSawFile ==
  \A c \in Clients : stage[c] = "answer" /\ req[c].verb = "get" /\ ~failed[c] =>
    IF result[c].code = "404" THEN Absent \in seen[c]
    ELSE \/ result[c].body \in seen[c]
         \/ result[c].body = Torn /\ \E x, y \in seen[c] : x # y

(***************************************************************************)
(* When 201 is sent the body is in the file, unless another upload came    *)
(* between.  A body that stayed in the buffer is the exception, since      *)
(* good() is asked before it is written: if that fails, 201 is sent all    *)
(* the same.                                                               *)
(***************************************************************************)
CreatedIsStored ==
  \A c \in Clients : stage[c] = "answer" /\ result[c].code = "201" /\ alone[c] =>
    \/ file = req[c].body
    \/ req[c].body \in Small /\ failed[c]

\* What makes the four inductive.  A client in whose name a request is handled
\* still waits for its answer.
StillOwed == \A c \in Clients :
  link[c] = "open" => owed[c] >= Len(inbox[c]) + IF stage[c] \in Handling THEN 1 ELSE 0

StageFitsRequest == \A c \in Clients :
  /\ stage[c] \in {"open", "read", "rest", "check", "found"} => req[c].verb = "get"
  /\ stage[c] \in {"create", "write", "flush"} => req[c].verb = "post"
  /\ stage[c] = "other" => req[c].verb \notin {"get", "post"}
  /\ result[c].code = "201" => req[c].verb = "post"

\* No request deletes the file; one that was missing is empty before it is more.
SeenInv == \A c \in Clients :
  /\ stage[c] \in {"read", "rest", "found", "write", "flush"} => file # Absent
  /\ stage[c] \in Handling /\ req[c].verb = "get" =>
       /\ file \in seen[c]
       /\ stage[c] = "rest" => result[c].body \in seen[c]
       /\ stage[c] = "check" /\ ~failed[c] => file = Absent \/ Empty \in seen[c]
       /\ stage[c] = "found" /\ ~failed[c] => Empty \in seen[c]

AloneInv == \A c \in Clients :
  alone[c] /\ (stage[c] \in {"write", "flush"} \/ result[c].code = "201") =>
    /\ \A d \in Clients \ {c} : stage[d] \notin {"write", "flush"}
    /\ stage[c] = "write" => file = Empty
    /\ stage[c] = "flush" /\ result[c].code = "201" =>
         file = IF req[c].body \in Small THEN Empty ELSE req[c].body

ServerInv == /\ TypeOK /\ OwnConnection /\ StillOwed /\ StageFitsRequest
             /\ SeenInv /\ GetSawFile /\ AloneInv /\ CreatedIsStored

(***************************************************************************)
(* As long as fewer clients linger than there are descriptors, every       *)
(* request that asks to close is answered on a connection that was made,   *)
(* also one that waited while accept failed; the end of the process, which *)
(* any client can cause, takes all requests with it.                       *)
(***************************************************************************)
PlainServed ==
  \A c \in Clients :
    plain[c] /\ link[c] = "open" ~> Answered(c) \/ link[c] = "gone" \/ ~alive
=============================================================================
