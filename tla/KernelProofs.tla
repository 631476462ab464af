---------------------------- MODULE KernelProofs ----------------------------
(***************************************************************************)
(* Proofs about Kernel, for any number of clients, workers and restarts:   *)
(* the types, that the pool serves every accepted connection exactly once  *)
(* (the inductive invariant is PoolInv of Kernel), and, relative to it,    *)
(* what handlers run on and that they answer (HandlerInv).                 *)
(***************************************************************************)
EXTENDS Kernel, TLAPS

\* The initial state holds nothing.
LEMMA InitPoolInv == Init => PoolInv
BY KernelAssumption
   DEF KernelAssumption, Init, PoolInv, TypeOK, Coherent, HeldIsAccepted,
       AcceptedIsHeld, HeldOnce, PCs, Body

\* What Head and Tail do to a queue without a repetition.
LEMMA HeadTail ==
  ASSUME NEW S, NEW q \in Seq(S), q # <<>>
  PROVE  /\ Head(q) \in S
         /\ Tail(q) \in Seq(S)
         /\ Head(q) = q[1]
         /\ 1 \in DOMAIN q
         /\ \A i \in DOMAIN Tail(q) : i + 1 \in DOMAIN q /\ Tail(q)[i] = q[i + 1]
         /\ \A i \in DOMAIN q : i = 1 \/ (i - 1 \in DOMAIN Tail(q) /\ Tail(q)[i - 1] = q[i])
OBVIOUS

\* What Append does to a queue.
LEMMA AppendElements ==
  ASSUME NEW S, NEW q \in Seq(S), NEW e \in S
  PROVE  /\ Append(q, e) \in Seq(S)
         /\ \A i \in DOMAIN q : i \in DOMAIN Append(q, e) /\ Append(q, e)[i] = q[i]
         /\ \A i \in DOMAIN Append(q, e) : i \in DOMAIN q \/ i = Len(q) + 1
         /\ Len(q) + 1 \in DOMAIN Append(q, e)
         /\ Len(q) + 1 \notin DOMAIN q
         /\ Append(q, e)[Len(q) + 1] = e
OBVIOUS

\* The drop of the stream takes the connection out of every hand.
LEMMA LeavePoolInv ==
  ASSUME PoolInv, NEW w \in Workers, pc[w] # "idle", LeaveIdle(w), jobs' = jobs,
         UNCHANGED <<req, sent, peer, main, crashes>>,
         effect' \in [Conns -> {"none", "whole", "partial"}],
         reply' \in [Conns -> {"none", "handled", "405"}]
  PROVE  PoolInv'
<1> DEFINE c == conn[w]
<1>1. c \in Conns /\ c # NoConn
  BY KernelAssumption DEF PoolInv, TypeOK, Coherent
<1>2. TypeOK'
  <2>1. phase' \in [Conns -> {"new", "backlog", "accepted", "closed", "reset"}]
    BY DEF PoolInv, TypeOK, LeaveIdle
  <2>3. pc' \in [Workers -> PCs]
    BY DEF PoolInv, TypeOK, LeaveIdle, PCs
  <2>4. conn' \in [Workers -> Conns \cup {NoConn}]
    BY DEF PoolInv, TypeOK, LeaveIdle
  <2>5. got' \in [Workers -> 0..Body]
    BY DEF PoolInv, TypeOK, LeaveIdle, Body
  <2>2. /\ req' \in [Conns -> Requests]
        /\ sent' \in [Conns -> 0..Body]
        /\ peer' \in [Conns -> {"open", "fin", "rst"}]
        /\ jobs' \in Seq(Conns)
        /\ main' \in {"up", "down"}
        /\ crashes' \in 0..MaxCrashes
    BY DEF PoolInv, TypeOK
  <2> QED BY <2>1, <2>2, <2>3, <2>4, <2>5 DEF TypeOK
<1>3. /\ conn' = [conn EXCEPT ![w] = NoConn]
      /\ phase' = [phase EXCEPT ![c] = "closed"]
      /\ pc' = [pc EXCEPT ![w] = "idle"]
      /\ conn \in [Workers -> Conns \cup {NoConn}]
      /\ pc \in [Workers -> PCs]
      /\ phase \in [Conns -> {"new", "backlog", "accepted", "closed", "reset"}]
  BY DEF LeaveIdle, PoolInv, TypeOK
<1>4. Coherent'
  BY <1>3 DEF PoolInv, Coherent
<1>5. \A v \in Workers : conn'[v] # NoConn => conn'[v] = conn[v] /\ conn[v] # c
  BY <1>1, <1>3 DEF PoolInv, HeldOnce
<1>6. \A i \in DOMAIN jobs : jobs[i] # c /\ jobs[i] \in Conns
  BY DEF PoolInv, HeldOnce, TypeOK
<1>7. HeldIsAccepted'
  BY <1>1, <1>3, <1>5, <1>6 DEF PoolInv, HeldIsAccepted
<1>8. AcceptedIsHeld'
  BY <1>1, <1>3, <1>5 DEF PoolInv, AcceptedIsHeld
<1>9. HeldOnce'
  BY <1>1, <1>3, <1>5, <1>6, KernelAssumption DEF PoolInv, HeldOnce, KernelAssumption
<1> QED BY <1>2, <1>4, <1>7, <1>8, <1>9 DEF PoolInv

\* A step that moves no connection and makes nobody idle or busy.
LEMMA FramePoolInv ==
  ASSUME PoolInv, TypeOK', UNCHANGED <<phase, jobs, conn>>,
         \A w \in Workers : pc'[w] = "idle" <=> pc[w] = "idle"
  PROVE  PoolInv'
BY DEF PoolInv, Coherent, HeldIsAccepted, AcceptedIsHeld, HeldOnce

\* A worker's progress within one request.
LEMMA ProgressPoolInv ==
  ASSUME PoolInv, NEW w \in Workers, pc[w] # "idle",
         NEW next \in PCs \ {"idle"}, pc' = [pc EXCEPT ![w] = next],
         got' \in [Workers -> 0..Body],
         effect' \in [Conns -> {"none", "whole", "partial"}],
         UNCHANGED <<phase, req, sent, peer, jobs, conn, reply, main, crashes>>
  PROVE  PoolInv'
<1>1. pc' \in [Workers -> PCs]
  BY DEF PoolInv, TypeOK
<1>2. TypeOK'
  BY <1>1 DEF PoolInv, TypeOK
<1>3. \A v \in Workers : pc'[v] = "idle" <=> pc[v] = "idle"
  BY DEF PoolInv, TypeOK
<1> QED BY <1>2, <1>3, FramePoolInv

\* main accepts a connection and queues it.
LEMMA AcceptPoolInv ==
  ASSUME PoolInv, NEW c \in Conns, Accept(c)
  PROVE  PoolInv'
<1>1. /\ phase[c] = "backlog"
      /\ phase' = [phase EXCEPT ![c] = "accepted"]
      /\ jobs' = Append(jobs, c)
      /\ UNCHANGED <<pc, conn>>
      /\ jobs \in Seq(Conns)
      /\ phase \in [Conns -> {"new", "backlog", "accepted", "closed", "reset"}]
  BY DEF Accept, workerVars, PoolInv, TypeOK
<1>2. TypeOK'
  <2>1. phase' \in [Conns -> {"new", "backlog", "accepted", "closed", "reset"}]
    BY <1>1
  <2>2. jobs' \in Seq(Conns)
    BY <1>1, AppendElements
  <2> QED BY <2>1, <2>2 DEF Accept, PoolInv, TypeOK, workerVars
<1>3. /\ \A i \in DOMAIN jobs : i \in DOMAIN jobs' /\ jobs'[i] = jobs[i] /\ jobs[i] \in Conns
      /\ \A i \in DOMAIN jobs' : i \in DOMAIN jobs \/ i = Len(jobs) + 1
      /\ Len(jobs) + 1 \in DOMAIN jobs'
      /\ jobs'[Len(jobs) + 1] = c
  BY <1>1, AppendElements
<1>4. /\ \A i \in DOMAIN jobs : jobs[i] # c
      /\ \A w \in Workers : conn[w] # c
  BY <1>1, KernelAssumption DEF PoolInv, HeldIsAccepted, KernelAssumption
<1>5. HeldIsAccepted'
  BY <1>1, <1>3, <1>4 DEF PoolInv, HeldIsAccepted, TypeOK
<1>6. AcceptedIsHeld'
  BY <1>1, <1>3 DEF PoolInv, AcceptedIsHeld
<1>7. HeldOnce'
  <2>1. \A w, v \in Workers : conn'[w] # NoConn /\ conn'[w] = conn'[v] => w = v
    BY <1>1 DEF PoolInv, HeldOnce
  <2>2. \A i, j \in DOMAIN jobs' : jobs'[i] = jobs'[j] => i = j
    BY <1>3, <1>4 DEF PoolInv, HeldOnce
  <2>3. \A w \in Workers : \A i \in DOMAIN jobs' : jobs'[i] # conn'[w]
    BY <1>1, <1>3, <1>4 DEF PoolInv, HeldOnce
  <2> QED BY <2>1, <2>2, <2>3 DEF HeldOnce
<1>8. Coherent'
  BY <1>1 DEF PoolInv, Coherent
<1> QED BY <1>2, <1>5, <1>6, <1>7, <1>8 DEF PoolInv

\* A worker takes the oldest job.
LEMMA TakePoolInv ==
  ASSUME PoolInv, NEW w \in Workers, Take(w)
  PROVE  PoolInv'
<1> DEFINE c == Head(jobs)
<1>1. /\ pc[w] = "idle" /\ jobs # <<>>
      /\ jobs' = Tail(jobs)
      /\ conn' = [conn EXCEPT ![w] = c]
      /\ pc' = [pc EXCEPT ![w] = "line"]
      /\ phase' = phase
      /\ jobs \in Seq(Conns)
      /\ conn \in [Workers -> Conns \cup {NoConn}]
      /\ pc \in [Workers -> PCs]
  BY DEF Take, clientVars, PoolInv, TypeOK
<1>2. /\ c \in Conns
      /\ Tail(jobs) \in Seq(Conns)
      /\ c = jobs[1] /\ 1 \in DOMAIN jobs
      /\ \A i \in DOMAIN jobs' : i + 1 \in DOMAIN jobs /\ jobs'[i] = jobs[i + 1]
      /\ \A i \in DOMAIN jobs : i = 1 \/ (i - 1 \in DOMAIN jobs' /\ jobs'[i - 1] = jobs[i])
      /\ \A i \in DOMAIN jobs' : i \in Nat \ {0}
  BY <1>1, HeadTail
<1>3. TypeOK'
  <2>1. pc' \in [Workers -> PCs]
    BY <1>1 DEF PCs
  <2>2. conn' \in [Workers -> Conns \cup {NoConn}]
    BY <1>1, <1>2
  <2>3. jobs' \in Seq(Conns)
    BY <1>1, <1>2
  <2> QED BY <2>1, <2>2, <2>3 DEF Take, PoolInv, TypeOK, clientVars
<1>4. conn[w] = NoConn
  BY <1>1 DEF PoolInv, Coherent
<1>5. c # NoConn /\ phase[c] = "accepted"
  BY <1>2, KernelAssumption DEF PoolInv, HeldIsAccepted, KernelAssumption
<1>6. Coherent'
  BY <1>1, <1>5 DEF PoolInv, Coherent
<1>7. HeldIsAccepted'
  <2>1. \A v \in Workers : conn'[v] # NoConn => phase'[conn'[v]] = "accepted"
    BY <1>1, <1>5 DEF PoolInv, HeldIsAccepted
  <2>2. \A i \in DOMAIN jobs' : phase'[jobs'[i]] = "accepted"
    BY <1>1, <1>2 DEF PoolInv, HeldIsAccepted
  <2> QED BY <2>1, <2>2 DEF HeldIsAccepted
<1>8. AcceptedIsHeld'
  <2> SUFFICES ASSUME NEW d \in Conns, phase'[d] = "accepted"
               PROVE  (\E i \in DOMAIN jobs' : jobs'[i] = d) \/ (\E v \in Workers : conn'[v] = d)
    BY DEF AcceptedIsHeld
  <2>1. CASE \E v \in Workers : conn[v] = d
    BY <2>1, <1>1, <1>4, KernelAssumption DEF KernelAssumption
  <2>2. CASE \E i \in DOMAIN jobs : jobs[i] = d
    <3>1. PICK i \in DOMAIN jobs : jobs[i] = d
      BY <2>2
    <3>2. CASE i = 1
      <4>1. c = d
        BY <3>1, <3>2, <1>2
      <4>2. conn'[w] = c
        BY <1>1
      <4> QED BY <4>1, <4>2
    <3>3. CASE i # 1
      BY <3>1, <3>3, <1>2
    <3> QED BY <3>2, <3>3
  <2> QED BY <1>1, <2>1, <2>2 DEF PoolInv, AcceptedIsHeld
<1>9. HeldOnce'
  <2>1. \A i \in DOMAIN jobs' : jobs'[i] # c
    BY <1>2 DEF PoolInv, HeldOnce
  <2>2. \A v \in Workers : conn[v] # c
    BY <1>2 DEF PoolInv, HeldOnce
  <2>3. \A u, v \in Workers : conn'[u] # NoConn /\ conn'[u] = conn'[v] => u = v
    BY <1>1, <2>2 DEF PoolInv, HeldOnce
  <2>4. \A i, j \in DOMAIN jobs' : jobs'[i] = jobs'[j] => i = j
    BY <1>2 DEF PoolInv, HeldOnce
  <2>5. \A v \in Workers : \A i \in DOMAIN jobs' : jobs'[i] # conn'[v]
    BY <1>1, <1>2, <2>1 DEF PoolInv, HeldOnce
  <2> QED BY <2>3, <2>4, <2>5 DEF HeldOnce
<1> QED BY <1>3, <1>6, <1>7, <1>8, <1>9 DEF PoolInv

\* The death of the process empties every hand.
LEMMA AcceptFailsPoolInv ==
  ASSUME PoolInv, AcceptFails
  PROVE  PoolInv'
<1>1. TypeOK'
  <2>1. phase' \in [Conns -> {"new", "backlog", "accepted", "closed", "reset"}]
    <3>1. phase \in [Conns -> {"new", "backlog", "accepted", "closed", "reset"}]
      BY DEF PoolInv, TypeOK
    <3>2. \A c \in Conns : (IF phase[c] \in {"backlog", "accepted"} THEN "reset" ELSE phase[c])
                            \in {"new", "backlog", "accepted", "closed", "reset"}
      BY <3>1
    <3> QED BY <3>2 DEF AcceptFails
  <2>2. jobs' \in Seq(Conns) /\ pc' \in [Workers -> PCs] /\ conn' \in [Workers -> Conns \cup {NoConn}]
    BY DEF AcceptFails, PCs
  <2>3. got' \in [Workers -> 0..Body]
    BY DEF AcceptFails, Body
  <2>4. main' \in {"up", "down"} /\ crashes' \in 0..MaxCrashes
    BY KernelAssumption DEF AcceptFails, PoolInv, TypeOK, KernelAssumption
  <2> QED BY <2>1, <2>2, <2>3, <2>4 DEF AcceptFails, PoolInv, TypeOK
<1>2. \A c \in Conns : phase'[c] # "accepted"
  BY DEF AcceptFails, PoolInv, TypeOK
<1>3. jobs' = <<>> /\ \A w \in Workers : pc'[w] = "idle" /\ conn'[w] = NoConn
  BY DEF AcceptFails
<1> QED BY <1>1, <1>2, <1>3
        DEF PoolInv, Coherent, HeldIsAccepted, AcceptedIsHeld, HeldOnce

\* Every step of the kernel keeps the invariant.
LEMMA NextPoolInv == PoolInv /\ [Next]_vars => PoolInv'
<1> SUFFICES ASSUME PoolInv, [Next]_vars
             PROVE  PoolInv'
  OBVIOUS
<1>1. ASSUME NEW c \in Conns, Connect(c)
      PROVE  PoolInv'
  <2>1. phase \in [Conns -> {"new", "backlog", "accepted", "closed", "reset"}]
    BY DEF PoolInv, TypeOK
  <2>2. phase' = [phase EXCEPT ![c] = "backlog"] /\ phase[c] = "new"
    BY <1>1 DEF Connect
  <2>3. TypeOK'
    BY <1>1, <2>1, <2>2 DEF Connect, PoolInv, TypeOK, workerVars
  <2>4. \A d \in Conns : phase'[d] = "accepted" <=> phase[d] = "accepted"
    BY <2>1, <2>2
  <2>5. UNCHANGED <<jobs, pc, conn>>
    BY <1>1 DEF Connect, workerVars
  <2>6. jobs \in Seq(Conns) /\ conn \in [Workers -> Conns \cup {NoConn}]
    BY DEF PoolInv, TypeOK
  <2>7. HeldIsAccepted'
    BY <2>4, <2>5, <2>6 DEF PoolInv, HeldIsAccepted
  <2> QED BY <2>3, <2>4, <2>5, <2>7 DEF PoolInv, Coherent, AcceptedIsHeld, HeldOnce
<1>2. ASSUME NEW c \in Conns, Send(c)
      PROVE  PoolInv'
  <2>1. Parts(req[c]) \in 0..Body
    BY DEF Parts, Body, Headers
  <2>2. sent' \in [Conns -> 0..Body]
    BY <1>2, <2>1 DEF Send, PoolInv, TypeOK, Body
  <2>3. TypeOK'
    BY <1>2, <2>2 DEF Send, PoolInv, TypeOK, workerVars
  <2> QED BY <1>2, <2>3, FramePoolInv DEF Send, workerVars
<1>3. ASSUME NEW c \in Conns, HangUp(c)
      PROVE  PoolInv'
  <2>1. peer' \in [Conns -> {"open", "fin", "rst"}]
    <3>1. PICK e \in {"fin", "rst"} : peer' = [peer EXCEPT ![c] = e]
      BY <1>3 DEF HangUp
    <3> QED BY <3>1 DEF PoolInv, TypeOK
  <2>2. TypeOK'
    BY <1>3, <2>1 DEF HangUp, PoolInv, TypeOK, workerVars
  <2> QED BY <1>3, <2>2, FramePoolInv DEF HangUp, workerVars
<1>4. ASSUME NEW c \in Conns, Accept(c)
      PROVE  PoolInv'
  BY <1>4, AcceptPoolInv
<1>5. ASSUME NEW w \in Workers, Worker(w)
      PROVE  PoolInv'
  <2>1. CASE Take(w)
    BY <2>1, TakePoolInv
  <2>2. ASSUME NEW part \in 0..Body, NEW next \in PCs \ {"idle"}, Parsed(w, part, next), pc[w] # "idle"
        PROVE  PoolInv'
    <3>1. got' \in [Workers -> 0..Body] /\ effect' \in [Conns -> {"none", "whole", "partial"}]
      BY <2>2 DEF Parsed, PoolInv, TypeOK
    <3> QED BY <2>2, <3>1, ProgressPoolInv DEF Parsed, clientVars
  <2>3. CASE ReadLine(w)
    BY <2>2, <2>3 DEF ReadLine, PCs, Line, Body
  <2>4. CASE ReadHeaders(w)
    BY <2>2, <2>4 DEF ReadHeaders, AfterHeaders, PCs, Headers, Body
  <2>5. CASE CutHeaders(w)
    BY <2>2, <2>5 DEF CutHeaders, PCs, Line, Body
  <2>6. CASE ReadBody(w)
    BY <2>2, <2>6 DEF ReadBody, PCs, Body
  <2>7. CASE ParseFails(w)
    <3>1. pc[w] # "idle"
      BY <2>7 DEF ParseFails
    <3>2. /\ effect' \in [Conns -> {"none", "whole", "partial"}]
          /\ reply' \in [Conns -> {"none", "handled", "405"}]
      BY <2>7 DEF ParseFails, PoolInv, TypeOK
    <3> QED BY <2>7, <3>1, <3>2, LeavePoolInv DEF ParseFails
  <2>8. CASE Command(w)
    <3>1. got' \in [Workers -> 0..Body] /\ effect' \in [Conns -> {"none", "whole", "partial"}]
      BY <2>8 DEF Command, PoolInv, TypeOK
    <3> QED BY <2>8, <3>1, ProgressPoolInv DEF Command, clientVars, PCs
  <2>9. CASE Panic(w)
    BY <2>9, LeavePoolInv DEF Panic, Replaced, PoolInv, TypeOK
  <2>10. CASE Handle(w)
    <3>1. Effect(w) \in {"none", "whole", "partial"}
      BY DEF Effect
    <3>2. effect' \in [Conns -> {"none", "whole", "partial"}] /\ got' \in [Workers -> 0..Body]
      BY <2>10, <3>1 DEF Handle, PoolInv, TypeOK
    <3> QED BY <2>10, <3>2, ProgressPoolInv DEF Handle, clientVars, PCs
  <2>11. CASE Respond(w)
    <3>1. reply' \in [Conns -> {"none", "handled", "405"}]
      BY <2>11 DEF Respond, PoolInv, TypeOK
    <3>2. effect' \in [Conns -> {"none", "whole", "partial"}]
      BY <2>11 DEF Respond, PoolInv, TypeOK
    <3> QED BY <2>11, <3>1, <3>2, LeavePoolInv DEF Respond
  <2> QED BY <1>5, <2>1, <2>3, <2>4, <2>5, <2>6, <2>7, <2>8, <2>9, <2>10, <2>11 DEF Worker
<1>6. CASE AcceptFails
  BY <1>6, AcceptFailsPoolInv
<1>7. CASE Restart
  <2>1. TypeOK'
    BY <1>7 DEF Restart, PoolInv, TypeOK, clientVars, workerVars
  <2> QED BY <1>7, <2>1, FramePoolInv DEF Restart, clientVars, workerVars
<1>8. CASE UNCHANGED vars
  <2>1. TypeOK'
    BY <1>8 DEF vars, PoolInv, TypeOK, clientVars, workerVars
  <2> QED BY <1>8, <2>1, FramePoolInv DEF vars, clientVars, workerVars
<1> QED BY <1>1, <1>2, <1>3, <1>4, <1>5, <1>6, <1>7, <1>8 DEF Next

\* PoolInv is an invariant of the kernel.
LEMMA SpecPoolInv == Spec => []PoolInv
BY InitPoolInv, NextPoolInv, PTL DEF Spec

\* The types of the kernel's variables (accept loop, pool, connection state).
THEOREM TypeCorrect == Spec => []TypeOK
<1>1. PoolInv => TypeOK
  BY DEF PoolInv
<1> QED BY <1>1, SpecPoolInv, PTL

\* main and the pool neither lose a connection nor serve it twice.
THEOREM ExclusiveServiceHolds == Spec => []ExclusiveService
<1>1. PoolInv => ExclusiveService
  <2> SUFFICES ASSUME PoolInv, NEW c \in Conns
               PROVE  IF phase[c] = "accepted"
                      THEN \/ /\ \E i \in DOMAIN jobs : InQueue(c) = {i}
                              /\ ServedBy(c) = {}
                           \/ /\ InQueue(c) = {}
                              /\ \E w \in Workers : ServedBy(c) = {w}
                      ELSE InQueue(c) = {} /\ ServedBy(c) = {}
    BY DEF ExclusiveService
  <2>1. c # NoConn
    BY KernelAssumption DEF KernelAssumption
  <2>2. CASE phase[c] # "accepted"
    BY <2>1, <2>2 DEF PoolInv, HeldIsAccepted, InQueue, ServedBy
  <2>3. ASSUME phase[c] = "accepted", NEW i \in DOMAIN jobs, jobs[i] = c
        PROVE  InQueue(c) = {i} /\ ServedBy(c) = {}
    BY <2>3 DEF PoolInv, HeldOnce, InQueue, ServedBy
  <2>4. ASSUME phase[c] = "accepted", NEW w \in Workers, conn[w] = c
        PROVE  InQueue(c) = {} /\ ServedBy(c) = {w}
    BY <2>1, <2>4 DEF PoolInv, HeldOnce, InQueue, ServedBy
  <2>5. CASE phase[c] = "accepted"
    BY <2>3, <2>4, <2>5 DEF PoolInv, AcceptedIsHeld
  <2> QED BY <2>2, <2>5
<1> QED BY <1>1, SpecPoolInv, PTL

-----------------------------------------------------------------------------
\* Nothing is sent and no handler has run at the start.
LEMMA InitHandlerInv == Init => HandlerInv
BY DEF Init, HandlerInv, AnswerFollows, SentWithin, ParsedWasSent, NoShortBody,
       Parts, Headers, Body

\* A step that no handler and no client takes: what is left to show is where a
\* connection with an effect is now, and what the workers have parsed.
LEMMA FrameHandlerInv ==
  ASSUME HandlerInv, UNCHANGED <<req, sent, peer, effect>>,
         AnswerFollows', ParsedWasSent'
  PROVE  HandlerInv'
BY DEF HandlerInv, SentWithin, NoShortBody

\* A step of one worker leaves what the others have parsed as it was.
LEMMA OthersParsed ==
  ASSUME PoolInv, HandlerInv, NEW w \in Workers, UNCHANGED <<req, sent, peer>>,
         \A v \in Workers \ {w} : pc'[v] = pc[v] /\ conn'[v] = conn[v] /\ got'[v] = got[v],
         pc'[w] = "body" =>
           \/ got'[w] = Line /\ sent[conn'[w]] < Headers /\ peer[conn'[w]] # "open"
           \/ got'[w] = Headers /\ req[conn'[w]].length = "exact",
         pc'[w] \in {"command", "handle"} =>
           \/ got'[w] = Line /\ sent[conn'[w]] < Headers /\ peer[conn'[w]] # "open"
           \/ got'[w] = Headers /\ sent[conn'[w]] >= Headers /\ req[conn'[w]].length # "exact"
           \/ got'[w] = Body /\ sent[conn'[w]] >= Body
  PROVE  ParsedWasSent'
BY DEF HandlerInv, ParsedWasSent

\* A worker's step from one part of the request to the next.
LEMMA ParsedHandlerInv ==
  ASSUME PoolInv, HandlerInv, NEW w \in Workers, pc[w] \notin {"idle", "respond"},
         NEW part \in 0..Body, NEW next \in PCs, Parsed(w, part, next),
         next = "body" =>
           \/ part = Line /\ sent[conn[w]] < Headers /\ peer[conn[w]] # "open"
           \/ part = Headers /\ req[conn[w]].length = "exact",
         next \in {"command", "handle"} =>
           \/ part = Line /\ sent[conn[w]] < Headers /\ peer[conn[w]] # "open"
           \/ part = Headers /\ sent[conn[w]] >= Headers /\ req[conn[w]].length # "exact"
           \/ part = Body /\ sent[conn[w]] >= Body
  PROVE  HandlerInv'
<1>1. /\ UNCHANGED <<phase, req, sent, peer, conn, effect, reply>>
      /\ pc'[w] = next /\ got'[w] = part
      /\ \A v \in Workers \ {w} : pc'[v] = pc[v] /\ conn'[v] = conn[v] /\ got'[v] = got[v]
  BY DEF Parsed, clientVars, PoolInv, TypeOK
<1>2. AnswerFollows'
  BY <1>1 DEF HandlerInv, AnswerFollows
<1>3. ParsedWasSent'
  BY <1>1, OthersParsed
<1> QED BY <1>1, <1>2, <1>3, FrameHandlerInv

\* A worker drops its stream: the connection it held has an answer, or no
\* handler ran on it.
LEMMA LeaveHandlerInv ==
  ASSUME PoolInv, HandlerInv, NEW w \in Workers, pc[w] # "idle", LeaveIdle(w),
         UNCHANGED <<req, sent, peer, effect>>,
         pc[w] = "respond" => reply'[conn[w]] # "none",
         \A c \in Conns : reply[c] # "none" => reply'[c] # "none"
  PROVE  HandlerInv'
<1> DEFINE d == conn[w]
<1>1. d \in Conns /\ phase[d] = "accepted"
  BY DEF PoolInv, TypeOK, Coherent, HeldIsAccepted
<1>2. /\ phase'[d] = "closed" /\ \A c \in Conns \ {d} : phase'[c] = phase[c]
      /\ pc'[w] = "idle"
      /\ \A v \in Workers \ {w} : pc'[v] = pc[v] /\ conn'[v] = conn[v] /\ got'[v] = got[v]
  BY <1>1 DEF LeaveIdle, PoolInv, TypeOK
<1>3. AnswerFollows'
  <2> SUFFICES ASSUME NEW c \in Conns, effect[c] # "none"
               PROVE  \/ phase'[c] = "reset"
                      \/ phase'[c] = "closed" /\ reply'[c] # "none"
                      \/ \E v \in Workers : conn'[v] = c /\ pc'[v] = "respond"
    BY DEF AnswerFollows
  <2>1. CASE phase[c] = "reset" \/ (phase[c] = "closed" /\ reply[c] # "none")
    BY <1>1, <1>2, <2>1
  <2>2. ASSUME NEW v \in Workers, conn[v] = c, pc[v] = "respond"
        PROVE  \/ phase'[c] = "closed" /\ reply'[c] # "none"
               \/ conn'[v] = c /\ pc'[v] = "respond"
    BY <1>2, <2>2
  <2> QED BY <2>1, <2>2 DEF HandlerInv, AnswerFollows
<1>4. ParsedWasSent'
  BY <1>2, OthersParsed
<1> QED BY <1>3, <1>4, FrameHandlerInv

\* A way out without an answer: no handler has run on the connection.
LEMMA SilentLeaveHandlerInv ==
  ASSUME PoolInv, HandlerInv, NEW w \in Workers, pc[w] \notin {"idle", "respond"},
         LeaveIdle(w), UNCHANGED <<req, sent, peer, effect, reply>>
  PROVE  HandlerInv'
BY LeaveHandlerInv

\* The handler runs on what was parsed.
LEMMA HandleHandlerInv ==
  ASSUME PoolInv, HandlerInv, NEW w \in Workers, Handle(w)
  PROVE  HandlerInv'
<1> DEFINE d == conn[w]
<1>1. d \in Conns /\ req[d] \in Request
  BY KernelAssumption DEF Handle, PoolInv, TypeOK, Coherent, KernelAssumption
<1>2. /\ pc[w] = "handle"
      /\ UNCHANGED <<phase, req, sent, peer, conn, got, reply>>
      /\ pc'[w] = "respond" /\ \A v \in Workers \ {w} : pc'[v] = pc[v]
      /\ effect'[d] = Effect(w) /\ \A c \in Conns \ {d} : effect'[c] = effect[c]
  BY <1>1 DEF Handle, clientVars, PoolInv, TypeOK
<1>3. AnswerFollows'
  BY <1>2 DEF HandlerInv, AnswerFollows
<1>4. ParsedWasSent'
  BY <1>2, OthersParsed
<1>5. SentWithin'
  BY <1>2 DEF HandlerInv, SentWithin
<1>6. NoShortBody'
  <2>1. /\ effect'[d] = "whole" => sent[d] = Parts(req[d])
        /\ effect'[d] = "partial" =>
             req[d].length = "variant" \/ (sent[d] < Headers /\ peer[d] # "open")
    <3>1. sent[d] \in 0..Body /\ sent[d] <= Parts(req[d])
      BY <1>1 DEF HandlerInv, SentWithin, PoolInv, TypeOK
    <3>2. \/ got[w] = Line /\ sent[d] < Headers /\ peer[d] # "open"
          \/ got[w] = Headers /\ sent[d] >= Headers /\ req[d].length # "exact"
          \/ got[w] = Body /\ sent[d] >= Body
      BY <1>2 DEF HandlerInv, ParsedWasSent
    <3>3. req[d].length \in {"none", "exact", "variant"}
      BY <1>1 DEF Request
    <3> QED BY <1>2, <3>1, <3>2, <3>3 DEF Effect, Parts, Line, Headers, Body
  <2> QED BY <1>2, <2>1 DEF HandlerInv, NoShortBody
<1> QED BY <1>3, <1>4, <1>5, <1>6 DEF HandlerInv

\* A client sends on: what a worker has parsed stays sent, and a request that
\* was whole or cut stays so.
LEMMA SendHandlerInv ==
  ASSUME PoolInv, HandlerInv, NEW c \in Conns, Send(c)
  PROVE  HandlerInv'
<1>1. /\ peer[c] = "open" /\ sent[c] < Parts(req[c])
      /\ sent'[c] = sent[c] + 1 /\ \A d \in Conns \ {c} : sent'[d] = sent[d]
      /\ UNCHANGED <<phase, req, peer, pc, conn, got, effect, reply>>
  BY DEF Send, workerVars, PoolInv, TypeOK
<1>2. sent[c] \in 0..Body /\ Parts(req[c]) \in Nat
  BY DEF PoolInv, TypeOK, Parts, Headers, Body
<1>3. AnswerFollows'
  BY <1>1 DEF HandlerInv, AnswerFollows
<1>4. SentWithin'
  BY <1>1, <1>2 DEF HandlerInv, SentWithin
<1>5. ParsedWasSent'
  <2> SUFFICES ASSUME NEW w \in Workers
               PROVE  /\ pc[w] = "body" =>
                           \/ got[w] = Line /\ sent'[conn[w]] < Headers /\ peer[conn[w]] # "open"
                           \/ got[w] = Headers /\ req[conn[w]].length = "exact"
                      /\ pc[w] \in {"command", "handle"} =>
                           \/ got[w] = Line /\ sent'[conn[w]] < Headers /\ peer[conn[w]] # "open"
                           \/ got[w] = Headers /\ sent'[conn[w]] >= Headers /\ req[conn[w]].length # "exact"
                           \/ got[w] = Body /\ sent'[conn[w]] >= Body
    BY <1>1 DEF ParsedWasSent
  <2>1. pc[w] \in {"body", "command", "handle"} => conn[w] \in Conns
    BY DEF PoolInv, TypeOK, Coherent
  <2> QED BY <1>1, <1>2, <2>1 DEF HandlerInv, ParsedWasSent, Headers, Body
<1>6. NoShortBody'
  BY <1>1, <1>2 DEF HandlerInv, NoShortBody
<1> QED BY <1>3, <1>4, <1>5, <1>6 DEF HandlerInv

\* A client hangs up: what was cut stays cut.
LEMMA HangUpHandlerInv ==
  ASSUME PoolInv, HandlerInv, NEW c \in Conns, HangUp(c)
  PROVE  HandlerInv'
<1>1. PICK e \in {"fin", "rst"} : peer' = [peer EXCEPT ![c] = e]
  BY DEF HangUp
<1>2. /\ \A d \in Conns : peer[d] # "open" => peer'[d] # "open"
      /\ UNCHANGED <<phase, req, sent, pc, conn, got, effect, reply>>
  BY <1>1 DEF HangUp, workerVars, PoolInv, TypeOK
<1>3. ParsedWasSent'
  <2>1. \A w \in Workers : pc[w] \in {"body", "command", "handle"} => conn[w] \in Conns
    BY DEF PoolInv, TypeOK, Coherent
  <2> QED BY <1>2, <2>1 DEF HandlerInv, ParsedWasSent
<1>4. AnswerFollows' /\ SentWithin' /\ NoShortBody'
  BY <1>2 DEF HandlerInv, AnswerFollows, SentWithin, NoShortBody
<1> QED BY <1>3, <1>4 DEF HandlerInv

\* The death of the process resets what was accepted, answered or not.
LEMMA AcceptFailsHandlerInv ==
  ASSUME PoolInv, HandlerInv, AcceptFails
  PROVE  HandlerInv'
<1>1. /\ \A c \in Conns : phase'[c] = IF phase[c] \in {"backlog", "accepted"} THEN "reset" ELSE phase[c]
      /\ \A w \in Workers : pc'[w] = "idle"
      /\ UNCHANGED <<req, sent, peer, effect, reply>>
  BY DEF AcceptFails
<1>2. \A w \in Workers : pc[w] = "respond" => conn[w] \in Conns /\ phase[conn[w]] = "accepted"
  BY DEF PoolInv, TypeOK, Coherent, HeldIsAccepted
<1>3. AnswerFollows'
  BY <1>1, <1>2 DEF HandlerInv, AnswerFollows
<1>4. ParsedWasSent'
  BY <1>1 DEF ParsedWasSent
<1> QED BY <1>1, <1>3, <1>4, FrameHandlerInv

\* Every step of the kernel keeps HandlerInv.
LEMMA NextHandlerInv == PoolInv /\ HandlerInv /\ [Next]_vars => HandlerInv'
<1> SUFFICES ASSUME PoolInv, HandlerInv, [Next]_vars
             PROVE  HandlerInv'
  OBVIOUS
<1>1. ASSUME NEW c \in Conns, Connect(c) \/ Accept(c)
      PROVE  HandlerInv'
  <2>1. /\ phase[c] \in {"new", "backlog"} /\ \A d \in Conns \ {c} : phase'[d] = phase[d]
        /\ UNCHANGED <<req, sent, peer, pc, conn, got, effect, reply>>
    BY <1>1 DEF Connect, Accept, workerVars, PoolInv, TypeOK
  <2>2. AnswerFollows'
    BY <2>1 DEF HandlerInv, AnswerFollows
  <2>3. ParsedWasSent'
    BY <2>1 DEF HandlerInv, ParsedWasSent
  <2> QED BY <2>1, <2>2, <2>3, FrameHandlerInv
<1>2. ASSUME NEW w \in Workers, Worker(w)
      PROVE  HandlerInv'
  <2>1. CASE Take(w)
    <3>1. /\ UNCHANGED <<phase, req, sent, peer, got, effect, reply>>
          /\ pc[w] = "idle" /\ pc'[w] = "line"
          /\ \A v \in Workers \ {w} : pc'[v] = pc[v] /\ conn'[v] = conn[v]
      BY <2>1 DEF Take, clientVars, PoolInv, TypeOK
    <3>2. AnswerFollows'
      BY <3>1 DEF HandlerInv, AnswerFollows
    <3>3. ParsedWasSent'
      BY <3>1, OthersParsed
    <3> QED BY <3>1, <3>2, <3>3, FrameHandlerInv
  <2>2. CASE ReadLine(w)
    BY <2>2, ParsedHandlerInv DEF ReadLine, PCs, Line, Body
  <2>3. CASE ReadHeaders(w)
    BY <2>3, ParsedHandlerInv DEF ReadHeaders, AfterHeaders, Arrived, PCs, Headers, Body
  <2>4. CASE CutHeaders(w)
    <3>1. conn[w] \in Conns /\ sent[conn[w]] \in 0..Body
      BY <2>4 DEF CutHeaders, PoolInv, TypeOK, Coherent
    <3>2. pc[w] = "headers" /\ sent[conn[w]] < Headers /\ peer[conn[w]] # "open"
      BY <2>4, <3>1 DEF CutHeaders, Ended, Arrived, Headers, Body
    <3>3. PICK next \in {"command", "body"} : Parsed(w, Line, next)
      BY <2>4 DEF CutHeaders
    <3> QED BY <3>2, <3>3, ParsedHandlerInv DEF PCs, Line, Headers, Body
  <2>5. CASE ReadBody(w)
    BY <2>5, ParsedHandlerInv DEF ReadBody, BodyReady, Arrived, PCs, Body
  <2>6. CASE ParseFails(w)
    BY <2>6, SilentLeaveHandlerInv DEF ParseFails
  <2>7. CASE Command(w)
    <3>1. /\ UNCHANGED <<phase, req, sent, peer, conn, got, effect, reply>>
          /\ pc[w] = "command" /\ pc'[w] = "handle"
          /\ \A v \in Workers \ {w} : pc'[v] = pc[v]
      BY <2>7 DEF Command, clientVars, PoolInv, TypeOK
    <3>2. AnswerFollows'
      BY <3>1 DEF HandlerInv, AnswerFollows
    <3>3. ParsedWasSent'
      BY <3>1 DEF HandlerInv, ParsedWasSent
    <3> QED BY <3>1, <3>2, <3>3, FrameHandlerInv
  <2>8. CASE Panic(w)
    BY <2>8, SilentLeaveHandlerInv DEF Panic, Replaced
  <2>9. CASE Handle(w)
    BY <2>9, HandleHandlerInv
  <2>10. CASE Respond(w)
    <3>1. conn[w] \in Conns
      BY <2>10 DEF Respond, PoolInv, TypeOK, Coherent
    <3>2. \A c \in Conns : reply'[c] = reply[c] \/ reply'[c] # "none"
      BY <2>10, <3>1 DEF Respond, PoolInv, TypeOK
    <3>3. reply'[conn[w]] # "none"
      BY <2>10, <3>1 DEF Respond, PoolInv, TypeOK
    <3> QED BY <2>10, <3>2, <3>3, LeaveHandlerInv DEF Respond
  <2> QED BY <1>2, <2>1, <2>2, <2>3, <2>4, <2>5, <2>6, <2>7, <2>8, <2>9, <2>10 DEF Worker
<1>3. CASE AcceptFails
  BY <1>3, AcceptFailsHandlerInv
<1>4. CASE Restart \/ UNCHANGED vars
  BY <1>4 DEF Restart, vars, clientVars, workerVars, HandlerInv, AnswerFollows,
              SentWithin, ParsedWasSent, NoShortBody
<1> QED BY <1>1, <1>2, <1>3, <1>4, SendHandlerInv, HangUpHandlerInv DEF Next

\* HandlerInv is an invariant of the kernel.
LEMMA SpecHandlerInv == Spec => []HandlerInv
BY InitHandlerInv, NextHandlerInv, SpecPoolInv, PTL DEF Spec

\* A connection that handle_connection drops without a response had no effect.
THEOREM SilentCloseIsHarmlessHolds == Spec => []SilentCloseIsHarmless
<1>1. PoolInv /\ HandlerInv => SilentCloseIsHarmless
  <2> SUFFICES ASSUME PoolInv, HandlerInv,
                      NEW c \in Conns, phase[c] = "closed", reply[c] = "none", effect[c] # "none"
               PROVE  FALSE
    BY DEF SilentCloseIsHarmless
  <2>1. PICK w \in Workers : conn[w] = c /\ pc[w] = "respond"
    BY DEF HandlerInv, AnswerFollows
  <2>2. phase[c] = "accepted"
    BY <2>1 DEF PoolInv, Coherent, HeldIsAccepted
  <2> QED BY <2>2
<1> QED BY <1>1, SpecPoolInv, SpecHandlerInv, PTL

\* No handler runs on a body that read_exact cut short.
THEOREM NoShortBodyHolds == Spec => []NoShortBody
<1>1. HandlerInv => NoShortBody
  BY DEF HandlerInv
<1> QED BY <1>1, SpecHandlerInv, PTL
=============================================================================
