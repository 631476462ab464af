------------------------ MODULE ExpressoServerProofs ------------------------
(***************************************************************************)
(* Proofs about ExpressoServer, for any clients, descriptors, scripts and  *)
(* bodies: the types, that no thread touches another one's connection or   *)
(* file, what a get may answer, and what 201 says.  The inductive          *)
(* invariant is ServerInv of ExpressoServer.                               *)
(***************************************************************************)
EXTENDS ExpressoServer, WellFoundedInduction, TLAPS

\* A set of numbers that is not empty has a least element.
LEMMA LeastNumber ==
  ASSUME NEW S, S \subseteq Nat, S # {}
  PROVE  \E m \in S : \A n \in S : m <= n
<1>1. PICK m \in S : \A n \in S : <<n, m>> \notin OpToRel(<, Nat)
  BY NatLessThanWellFounded, WFMin
<1> SUFFICES ASSUME NEW n \in S
             PROVE  m <= n
  OBVIOUS
<1>2. m \in Nat /\ n \in Nat /\ <<n, m>> \notin {x \in Nat \X Nat : x[1] < x[2]}
  BY <1>1 DEF OpToRel
<1>3. ~(n < m)
  BY <1>2
<1> QED BY <1>2, <1>3

\* The number given out is a free one.
LEMMA LowestFree ==
  ASSUME TypeOK, Free # {}
  PROVE  Lowest \in Fds /\ desc[Lowest] = "free"
<1>1. Free \subseteq Nat
  BY DEF Free, TypeOK
<1>2. \E d \in Free : \A e \in Free : d <= e
  BY <1>1, LeastNumber
<1>3. Lowest \in Free
  BY <1>2 DEF Lowest
<1> QED BY <1>3 DEF Free

\* The two halves of TypeOK: the process, and what a client's stage says.
ProcessType ==
  /\ alive \in BOOLEAN /\ file \in Contents
  /\ Fds \subseteq Nat /\ desc \in [Fds -> Clients \cup {"free", "file"}]
  /\ script \in [Clients -> Seq(Request)] /\ inbox \in [Clients -> Seq(Request)]
  /\ owed \in [Clients -> Nat] /\ link \in [Clients -> {"open", "gone", "over"}]
  /\ stage \in [Clients -> Stages]
  /\ fd \in [Clients -> Fds \cup {None}] /\ hold \in [Clients -> Fds \cup {None}]
  /\ req \in [Clients -> Request \cup {None}]
  /\ result \in [Clients -> [code : {"none", "200", "201", "404"}, body : Contents \cup {None}]]
  /\ seen \in [Clients -> SUBSET Contents]
  /\ alone \in [Clients -> BOOLEAN] /\ failed \in [Clients -> BOOLEAN] /\ plain \in [Clients -> BOOLEAN]

ClientType(c) ==
  /\ fd[c] # None <=> stage[c] \in Handling \cup {"reading", "stuck", "closing"}
  /\ hold[c] # None <=> stage[c] \in {"read", "rest", "found", "write", "flush"}
  /\ result[c].code # "none" <=> stage[c] \in {"flush", "answer"}
  /\ stage[c] \in Handling => req[c] \in Request

LEMMA TypeParts == TypeOK <=> ProcessType /\ \A c \in Clients : ClientType(c)
BY DEF TypeOK, ProcessType, ClientType

LEMMA TypePartsPrimed == TypeOK' <=> ProcessType' /\ \A c \in Clients : ClientType(c)'
BY DEF TypeOK, ProcessType, ClientType

\* The initial states.
LEMMA InitServerInv == Init => ServerInv
<1> SUFFICES ASSUME Init
             PROVE  ServerInv
  OBVIOUS
<1>1. PICK p \in Plans :
        /\ desc = [d \in 0 .. (p.limit - 1) |-> "free"]
        /\ file = p.file
        /\ script = [c \in Clients |-> IF c \in DOMAIN p.script THEN p.script[c] ELSE <<>>]
        /\ link = [c \in Clients |-> IF c \in DOMAIN p.script THEN "open" ELSE "over"]
  BY DEF Init
<1>2. p.limit \in Nat /\ file \in Contents /\ script \in [Clients -> Seq(Request)]
  <2>1. p.limit \in Nat /\ p.file \in Contents /\ \A c \in DOMAIN p.script : p.script[c] \in Seq(Request)
    BY ExpressoServerAssumption
  <2> DEFINE s(c) == IF c \in DOMAIN p.script THEN p.script[c] ELSE <<>>
  <2>2. \A c \in Clients : s(c) \in Seq(Request)
    BY <2>1
  <2>3. script = [c \in Clients |-> s(c)]
    BY <1>1
  <2> HIDE DEF s
  <2> QED BY <1>1, <2>1, <2>2, <2>3
<1>3. Fds \subseteq Nat /\ desc \in [Fds -> Clients \cup {"free", "file"}]
  BY <1>1, <1>2 DEF Fds
<1>4. \A c \in Clients : stage[c] \in {"queued", "ended"} /\ fd[c] = None /\ hold[c] = None
  BY DEF Init
<1>5. stage \in [Clients -> Stages]
  BY DEF Init, Stages
<1>6. plain \in [Clients -> BOOLEAN]
  <2> DEFINE L(c) == ~Lingers(script[c])
  <2>1. \A c \in Clients : L(c) \in BOOLEAN
    BY DEF Lingers
  <2>2. plain = [c \in Clients |-> L(c)]
    BY DEF Init
  <2> HIDE DEF L
  <2> QED BY <2>1, <2>2
<1>7. TypeOK
  BY <1>1, <1>2, <1>3, <1>4, <1>5, <1>6 DEF Init, TypeOK, NoResult, Handling
<1>8. OwnConnection /\ SeenInv /\ GetSawFile /\ AloneInv /\ CreatedIsStored /\ StageFitsRequest
  BY <1>4 DEF Init, NoResult, OwnConnection, SeenInv, GetSawFile, AloneInv, CreatedIsStored,
              StageFitsRequest, Handling
<1>9. StillOwed
  BY <1>4 DEF Init, StillOwed, Handling
<1> QED BY <1>7, <1>8, <1>9 DEF ServerInv

-----------------------------------------------------------------------------
(***************************************************************************)
(* The clients, and the end of the process.                                *)
(***************************************************************************)
LEMMA SendInv ==
  ASSUME ServerInv, NEW c \in Clients, Send(c)
  PROVE  ServerInv'
<1> USE DEF ServerInv
<1>1. /\ UNCHANGED <<alive, desc, file, link, plain, stage, fd, hold, req, result, alone, failed, seen>>
      /\ inbox' = [inbox EXCEPT ![c] = Append(@, Head(script[c]))]
      /\ script' = [script EXCEPT ![c] = Tail(@)]
      /\ owed' = [owed EXCEPT ![c] = @ + 1]
      /\ script[c] # <<>> /\ script[c] \in Seq(Request) /\ inbox[c] \in Seq(Request)
  BY DEF Send, thread, TypeOK
<1>2. Head(script[c]) \in Request /\ Tail(script[c]) \in Seq(Request)
  BY <1>1
<1>3. /\ Append(inbox[c], Head(script[c])) \in Seq(Request)
      /\ Len(Append(inbox[c], Head(script[c]))) = Len(inbox[c]) + 1
      /\ Len(inbox[c]) \in Nat
  BY <1>1, <1>2
<1>4. TypeOK'
  BY <1>1, <1>2, <1>3 DEF TypeOK, Fds
<1>5. StillOwed'
  <2>1. \A d \in Clients \ {c} : inbox'[d] = inbox[d] /\ owed'[d] = owed[d]
    BY <1>1 DEF TypeOK
  <2>2. Len(inbox'[c]) = Len(inbox[c]) + 1 /\ owed'[c] = owed[c] + 1 /\ owed[c] \in Nat
    BY <1>1, <1>3 DEF TypeOK
  <2> SUFFICES ASSUME NEW d \in Clients, link[d] = "open"
               PROVE  owed'[d] >= Len(inbox'[d]) + IF stage[d] \in Handling THEN 1 ELSE 0
    BY <1>1 DEF StillOwed
  <2>3. owed[d] >= Len(inbox[d]) + IF stage[d] \in Handling THEN 1 ELSE 0
    BY DEF StillOwed
  <2>4. CASE d = c
    <3> DEFINE one == IF stage[d] \in Handling THEN 1 ELSE 0
    <3>1. one \in Nat /\ owed[c] >= Len(inbox[c]) + one
      BY <2>3, <2>4
    <3> HIDE DEF one
    <3>2. owed[c] + 1 >= (Len(inbox[c]) + 1) + one
      BY <1>3, <2>2, <3>1
    <3> QED BY <2>2, <2>4, <3>2 DEF one
  <2>5. CASE d # c
    BY <2>1, <2>3, <2>5
  <2> QED BY <2>4, <2>5
<1> QED
  BY <1>1, <1>4, <1>5
  DEF OwnConnection, StageFitsRequest, SeenInv, GetSawFile, AloneInv, CreatedIsStored

LEMMA HangUpInv ==
  ASSUME ServerInv, NEW c \in Clients, HangUp(c)
  PROVE  ServerInv'
<1> USE DEF ServerInv
<1>1. /\ UNCHANGED <<alive, desc, file, inbox, plain, stage, fd, hold, req, result, alone, failed, seen>>
      /\ link' = [link EXCEPT ![c] = "gone"]
      /\ script' = [script EXCEPT ![c] = <<>>]
      /\ owed' = [owed EXCEPT ![c] = 0]
  BY DEF HangUp, thread
<1>2. TypeOK' /\ StillOwed'
  BY <1>1 DEF TypeOK, StillOwed, Fds
<1> QED
  BY <1>1, <1>2
  DEF OwnConnection, StageFitsRequest, SeenInv, GetSawFile, AloneInv, CreatedIsStored

\* The end of the process leaves no thread, no descriptor and no connection.
LEMMA DieInv ==
  ASSUME ServerInv, Die
  PROVE  ServerInv'
<1>1. /\ \A c \in Clients : /\ stage'[c] = "ended" /\ fd'[c] = None /\ hold'[c] = None
                            /\ result'[c].code = "none" /\ link'[c] # "open"
      /\ Fds' = Fds
  BY DEF ServerInv, Die, TypeOK, NoResult, Fds
<1>2. TypeOK'
  <2>1. link' \in [Clients -> {"open", "gone", "over"}]
    BY DEF Die, ServerInv, TypeOK
  <2>2. desc' \in [Fds -> Clients \cup {"free", "file"}]
    BY DEF Die
  <2>3. script' \in [Clients -> Seq(Request)] /\ inbox' \in [Clients -> Seq(Request)]
    BY DEF Die
  <2>4. /\ stage' \in [Clients -> Stages] /\ fd' \in [Clients -> Fds \cup {None}]
        /\ hold' \in [Clients -> Fds \cup {None}] /\ req' \in [Clients -> Request \cup {None}]
        /\ seen' \in [Clients -> SUBSET Contents] /\ owed' \in [Clients -> Nat]
        /\ alone' \in [Clients -> BOOLEAN] /\ failed' \in [Clients -> BOOLEAN]
        /\ result' \in [Clients -> [code : {"none", "200", "201", "404"}, body : Contents \cup {None}]]
    BY DEF Die, Stages, NoResult
  <2> QED BY <1>1, <2>1, <2>2, <2>3, <2>4 DEF Die, ServerInv, TypeOK, Handling
<1> QED
  BY <1>1, <1>2 DEF ServerInv, OwnConnection, StillOwed, StageFitsRequest, SeenInv, GetSawFile,
                    AloneInv, CreatedIsStored, Handling

-----------------------------------------------------------------------------
(***************************************************************************)
(* Accepting, receiving and closing.                                       *)
(***************************************************************************)
\* The descriptor of a new connection is nobody's.
LEMMA AcceptInv ==
  ASSUME ServerInv, NEW c \in Clients, Accept(c)
  PROVE  ServerInv'
<1> USE ExpressoServerAssumption DEF ServerInv, Accept, client
<1>0. Lowest \in Fds /\ desc[Lowest] = "free"
  BY LowestFree
<1>1. TypeOK'
  BY <1>0 DEF TypeOK, Fds, Handling, Stages
<1>2. OwnConnection'
  BY <1>0 DEF OwnConnection, TypeOK, Fds
<1>3. StillOwed'
  BY DEF StillOwed, TypeOK, Handling
<1>4. StageFitsRequest'
  BY DEF StageFitsRequest, TypeOK
<1>5. SeenInv' /\ GetSawFile'
  BY DEF SeenInv, GetSawFile, TypeOK, Handling
<1>6. AloneInv' /\ CreatedIsStored'
  BY DEF AloneInv, CreatedIsStored, TypeOK
<1> QED BY <1>1, <1>2, <1>3, <1>4, <1>5, <1>6

LEMMA RecvInv ==
  ASSUME ServerInv, NEW c \in Clients, NEW k \in 1..Len(inbox[c]), Recv(c, k)
  PROVE  ServerInv'
<1> DEFINE r == Head(inbox[c])
<1> USE DEF ServerInv
<1>1. CASE r.verb = "bad"
  BY <1>1, DieInv DEF Recv
<1>2. CASE r.verb # "bad"
  <2>1. /\ UNCHANGED <<alive, desc, file, script, owed, link, plain, fd, hold, result, alone, failed>>
        /\ stage[c] = "reading" /\ inbox[c] \in Seq(Request) /\ k \in 1..Len(inbox[c])
        /\ req' = [req EXCEPT ![c] = IF r.split THEN None ELSE r]
        /\ inbox' = [inbox EXCEPT ![c] = SubSeq(@, k + 1, Len(@))]
        /\ stage' = [stage EXCEPT ![c] = FirstStage(r)]
        /\ seen' = [seen EXCEPT ![c] = IF r.verb = "get" THEN {file} ELSE {}]
    BY <1>2 DEF Recv, TypeOK
  <2>2. r \in Request /\ Len(inbox[c]) \in Nat
    BY <2>1
  <2>3. /\ SubSeq(inbox[c], k + 1, Len(inbox[c])) \in Seq(Request)
        /\ Len(SubSeq(inbox[c], k + 1, Len(inbox[c]))) = Len(inbox[c]) - k
    BY <2>1
  <2>4. /\ FirstStage(r) \in {"stuck", "open", "create", "other"}
        /\ FirstStage(r) # "stuck" => ~r.split
        /\ FirstStage(r) = "open" <=> (~r.split /\ r.verb = "get")
        /\ FirstStage(r) = "create" <=> (~r.split /\ r.verb = "post")
    <3>1. r.split \in BOOLEAN
      BY <2>2 DEF Request
    <3>2. CASE r.split
      BY <3>2 DEF FirstStage
    <3>3. CASE ~r.split /\ r.verb = "get"
      BY <3>3 DEF FirstStage
    <3>4. CASE ~r.split /\ r.verb = "post"
      BY <3>4 DEF FirstStage
    <3>5. CASE ~r.split /\ r.verb # "get" /\ r.verb # "post"
      BY <3>5 DEF FirstStage
    <3> QED BY <3>1, <3>2, <3>3, <3>4, <3>5
  <2>5. TypeOK'
    <3>1. stage' \in [Clients -> Stages]
      BY <2>1, <2>4 DEF TypeOK, Stages, Handling
    <3>2. req' \in [Clients -> Request \cup {None}] /\ seen' \in [Clients -> SUBSET Contents]
      BY <2>1, <2>2 DEF TypeOK
    <3>3. inbox' \in [Clients -> Seq(Request)]
      BY <2>1, <2>3 DEF TypeOK
    <3>4. \A d \in Clients :
            /\ fd'[d] # None <=> stage'[d] \in Handling \cup {"reading", "stuck", "closing"}
            /\ hold'[d] # None <=> stage'[d] \in {"read", "rest", "found", "write", "flush"}
            /\ result'[d].code # "none" <=> stage'[d] \in {"flush", "answer"}
            /\ stage'[d] \in Handling => req'[d] \in Request
      BY <2>1, <2>2, <2>4 DEF TypeOK, Handling
    <3> QED BY <2>1, <3>1, <3>2, <3>3, <3>4 DEF TypeOK, Fds
  <2>6. OwnConnection'
    BY <2>1 DEF OwnConnection
  <2>7. StillOwed'
    <3>1. Len(inbox'[c]) = Len(inbox[c]) - k /\ \A d \in Clients \ {c} : inbox'[d] = inbox[d] /\ stage'[d] = stage[d]
      BY <2>1, <2>3 DEF TypeOK
    <3>2. owed[c] \in Nat /\ stage[c] \notin Handling /\ k \in Nat /\ k >= 1
      BY <2>1 DEF TypeOK, Handling
    <3> SUFFICES ASSUME NEW d \in Clients, link[d] = "open"
                 PROVE  owed[d] >= Len(inbox'[d]) + IF stage'[d] \in Handling THEN 1 ELSE 0
      BY <2>1 DEF StillOwed
    <3>3. owed[d] >= Len(inbox[d]) + IF stage[d] \in Handling THEN 1 ELSE 0
      BY DEF StillOwed
    <3>4. CASE d = c
      <4>1. owed[c] >= Len(inbox[c])
        BY <2>2, <3>2, <3>3, <3>4
      <4>2. owed[c] >= (Len(inbox[c]) - k) + 1
        BY <2>2, <3>2, <4>1
      <4>3. owed[c] >= (Len(inbox[c]) - k)
        BY <2>2, <3>2, <4>1
      <4>4. CASE stage'[c] \in Handling
        <5>1. owed[c] >= Len(inbox'[c]) + 1
          BY <3>1, <4>2
        <5> QED BY <3>4, <4>4, <5>1
      <4>5. CASE stage'[c] \notin Handling
        <5>1. owed[c] >= Len(inbox'[c]) + 0
          BY <2>2, <3>1, <3>2, <4>3
        <5> QED BY <3>4, <4>5, <5>1
      <4> QED BY <4>4, <4>5
    <3>5. CASE d # c
      BY <3>1, <3>3, <3>5
    <3> QED BY <3>4, <3>5
  <2>8. StageFitsRequest'
    <3>1. \A d \in Clients \ {c} : stage'[d] = stage[d] /\ req'[d] = req[d]
      BY <2>1 DEF TypeOK
    <3>2. stage'[c] = FirstStage(r) /\ (~r.split => req'[c] = r) /\ result[c].code = "none"
      BY <2>1 DEF TypeOK
    <3>3. /\ stage'[c] \in {"stuck", "open", "create", "other"}
          /\ stage'[c] = "open" => req'[c].verb = "get"
          /\ stage'[c] = "create" => req'[c].verb = "post"
          /\ stage'[c] = "other" => req'[c].verb \notin {"get", "post"}
      BY <2>4, <3>2
    <3> QED BY <2>1, <3>1, <3>2, <3>3 DEF StageFitsRequest
  <2>9. SeenInv' /\ GetSawFile'
    BY <2>1, <2>4 DEF SeenInv, GetSawFile, TypeOK, Handling
  <2>10. AloneInv' /\ CreatedIsStored'
    <3>1. \A d \in Clients \ {c} : stage'[d] = stage[d] /\ req'[d] = req[d]
      BY <2>1 DEF TypeOK
    <3>2. stage'[c] \notin {"write", "flush", "answer"} /\ result[c].code = "none"
      BY <2>1, <2>4 DEF TypeOK
    <3>3. UNCHANGED <<alone, file, result, failed>>
      BY <2>1
    <3>4. AloneInv'
      BY <3>1, <3>2, <3>3 DEF AloneInv
    <3> QED BY <3>1, <3>2, <3>3, <3>4 DEF CreatedIsStored
  <2> QED BY <2>5, <2>6, <2>7, <2>8, <2>9, <2>10
<1> QED BY <1>1, <1>2

LEMMA GiveUpInv ==
  ASSUME ServerInv, NEW c \in Clients, GiveUp(c)
  PROVE  ServerInv'
<1> USE DEF ServerInv, GiveUp, client
<1>1. TypeOK'
  BY DEF TypeOK, Fds, Handling, Stages
<1>2. OwnConnection'
  BY DEF OwnConnection
<1>3. StillOwed'
  BY DEF StillOwed, TypeOK, Handling
<1>4. StageFitsRequest'
  BY DEF StageFitsRequest, TypeOK
<1>5. SeenInv' /\ GetSawFile'
  BY DEF SeenInv, GetSawFile, TypeOK, Handling
<1>6. AloneInv' /\ CreatedIsStored'
  BY DEF AloneInv, CreatedIsStored, TypeOK
<1> QED BY <1>1, <1>2, <1>3, <1>4, <1>5, <1>6

\* The one close frees a descriptor that is the client's own.
LEMMA CloseInv ==
  ASSUME ServerInv, NEW c \in Clients, Close(c)
  PROVE  ServerInv'
<1> USE ExpressoServerAssumption DEF ServerInv, Close
<1>1. TypeOK'
  BY DEF TypeOK, Fds, Handling, Stages
<1>2. OwnConnection'
  BY DEF OwnConnection, TypeOK, Fds, Handling
<1>3. StillOwed'
  BY DEF StillOwed, TypeOK, Handling
<1>4. StageFitsRequest'
  BY DEF StageFitsRequest, TypeOK
<1>5. SeenInv' /\ GetSawFile'
  BY DEF SeenInv, GetSawFile, TypeOK, Handling
<1>6. AloneInv' /\ CreatedIsStored'
  BY DEF AloneInv, CreatedIsStored, TypeOK
<1> QED BY <1>1, <1>2, <1>3, <1>4, <1>5, <1>6

\* There is an answer to be counted off, if the client is still there.
LEMMA AnswerInv ==
  ASSUME ServerInv, NEW c \in Clients, Answer(c)
  PROVE  ServerInv'
<1> USE DEF ServerInv, Answer
<1>1. TypeOK'
  <2>1. link[c] = "open" => owed[c] >= 1 /\ owed[c] \in Nat
    BY DEF StillOwed, TypeOK, Handling
  <2>2. owed' \in [Clients -> Nat]
    BY <2>1 DEF TypeOK
  <2>3. stage' \in [Clients -> Stages] /\ req' \in [Clients -> Request \cup {None}]
    BY DEF TypeOK, Stages
  <2>4. /\ alone' \in [Clients -> BOOLEAN] /\ failed' \in [Clients -> BOOLEAN]
        /\ seen' \in [Clients -> SUBSET Contents]
        /\ result' \in [Clients -> [code : {"none", "200", "201", "404"}, body : Contents \cup {None}]]
    BY DEF TypeOK, NoResult
  <2>5. \A d \in Clients :
          /\ fd'[d] # None <=> stage'[d] \in Handling \cup {"reading", "stuck", "closing"}
          /\ hold'[d] # None <=> stage'[d] \in {"read", "rest", "found", "write", "flush"}
          /\ result'[d].code # "none" <=> stage'[d] \in {"flush", "answer"}
          /\ stage'[d] \in Handling => req'[d] \in Request
    BY DEF TypeOK, Handling, NoResult
  <2> QED BY <2>2, <2>3, <2>4, <2>5 DEF TypeOK, Fds
<1>2. OwnConnection'
  BY DEF OwnConnection
<1>3. StillOwed'
  BY DEF StillOwed, TypeOK, Handling
<1>4. StageFitsRequest'
  BY DEF StageFitsRequest, TypeOK, NoResult
<1>5. SeenInv' /\ GetSawFile'
  BY DEF SeenInv, GetSawFile, TypeOK, Handling
<1>6. AloneInv' /\ CreatedIsStored'
  BY DEF AloneInv, CreatedIsStored, TypeOK, NoResult
<1> QED BY <1>1, <1>2, <1>3, <1>4, <1>5, <1>6

-----------------------------------------------------------------------------
(***************************************************************************)
(* A get: opening the file, reading it, and the second look.               *)
(***************************************************************************)
LEMMA OtherInv ==
  ASSUME ServerInv, NEW c \in Clients, Other(c)
  PROVE  ServerInv'
<1> USE DEF ServerInv, Other, Reply, client
<1>0. OwnConnection'
  BY DEF OwnConnection
<1>1. TypeOK'
  BY DEF TypeOK, Fds, Handling, Stages
<1>2. StillOwed' /\ StageFitsRequest'
  BY DEF StillOwed, StageFitsRequest, TypeOK, Handling
<1>3. SeenInv'
  BY DEF SeenInv, TypeOK, Handling
<1>4. GetSawFile'
  BY DEF GetSawFile, StageFitsRequest, TypeOK
<1>5. AloneInv' /\ CreatedIsStored'
  BY DEF AloneInv, CreatedIsStored, TypeOK
<1> QED BY <1>0, <1>1, <1>2, <1>3, <1>4, <1>5

\* A file is opened under a free number, which is nobody's.
LEMMA TakeOwn ==
  ASSUME TypeOK, OwnConnection, NEW c \in Clients, hold[c] = None, Free # {}, Take(c), fd' = fd
  PROVE  /\ Fds' = Fds /\ desc' \in [Fds -> Clients \cup {"free", "file"}]
         /\ hold' \in [Clients -> Fds \cup {None}] /\ hold'[c] # None
         /\ \A d \in Clients \ {c} : hold'[d] = hold[d]
         /\ OwnConnection'
<1>1. Lowest \in Fds /\ desc[Lowest] = "free"
  BY LowestFree
<1> QED BY <1>1, ExpressoServerAssumption DEF Take, TypeOK, OwnConnection, Fds

\* The file that is closed is the thread's own.
LEMMA DropOwn ==
  ASSUME TypeOK, OwnConnection, NEW c \in Clients, hold[c] # None, Drop(c), fd' = fd
  PROVE  /\ Fds' = Fds /\ desc' \in [Fds -> Clients \cup {"free", "file"}]
         /\ hold' \in [Clients -> Fds \cup {None}] /\ hold'[c] = None
         /\ \A d \in Clients \ {c} : hold'[d] = hold[d]
         /\ OwnConnection'
<1>1. hold[c] \in Fds /\ desc[hold[c]] = "file"
  BY DEF TypeOK, OwnConnection
<1> QED BY <1>1, ExpressoServerAssumption DEF Drop, TypeOK, OwnConnection, Fds

LEMMA OpenReadInv ==
  ASSUME ServerInv, NEW c \in Clients, OpenRead(c)
  PROVE  ServerInv'
<1> USE DEF ServerInv
<1>1. /\ UNCHANGED <<alive, file, script, inbox, owed, link, plain, fd, req, result, alone, seen>>
      /\ stage[c] = "open"
  BY DEF OpenRead, client
<1>2. CASE Free = {} \/ file = Absent
  <2>1. /\ stage' = [stage EXCEPT ![c] = "check"] /\ UNCHANGED <<desc, hold>>
        /\ failed' \in [Clients -> BOOLEAN]
        /\ \A d \in Clients \ {c} : failed'[d] = failed[d]
        /\ ~failed'[c] => file = Absent
    <3>1. failed' = [failed EXCEPT ![c] = (Free = {})]
      BY <1>2 DEF OpenRead
    <3>2. failed \in [Clients -> BOOLEAN] /\ (Free = {}) \in BOOLEAN
      BY DEF TypeOK
    <3>3. failed'[c] <=> Free = {}
      BY <3>1, <3>2
    <3>4. failed' \in [Clients -> BOOLEAN] /\ \A d \in Clients \ {c} : failed'[d] = failed[d]
      BY <3>1, <3>2
    <3>5. stage' = [stage EXCEPT ![c] = "check"] /\ UNCHANGED <<desc, hold>>
      BY <1>2 DEF OpenRead
    <3> QED BY <1>2, <3>3, <3>4, <3>5
  <2>2. TypeOK'
    BY <1>1, <2>1 DEF TypeOK, Fds, Handling, Stages
  <2>3. OwnConnection' /\ StillOwed' /\ StageFitsRequest'
    BY <1>1, <2>1 DEF OwnConnection, StillOwed, StageFitsRequest, TypeOK, Handling
  <2>4. SeenInv'
    BY <1>1, <2>1 DEF SeenInv, TypeOK, Handling
  <2>5. GetSawFile' /\ AloneInv'
    BY <1>1, <2>1 DEF GetSawFile, AloneInv, TypeOK
  <2>6. CreatedIsStored'
    BY <1>1, <2>1 DEF CreatedIsStored, TypeOK
  <2> QED BY <2>2, <2>3, <2>4, <2>5, <2>6
<1>3. CASE Free # {} /\ file # Absent
  <2>1. stage' = [stage EXCEPT ![c] = "read"] /\ UNCHANGED failed /\ Take(c)
    BY <1>3 DEF OpenRead
  <2>2. hold[c] = None
    BY <1>1 DEF TypeOK
  <2>3. /\ Fds' = Fds /\ desc' \in [Fds -> Clients \cup {"free", "file"}]
        /\ hold' \in [Clients -> Fds \cup {None}] /\ hold'[c] # None
        /\ \A d \in Clients \ {c} : hold'[d] = hold[d]
        /\ OwnConnection'
    BY <1>1, <1>3, <2>1, <2>2, TakeOwn
  <2>4. TypeOK'
    <3>1. /\ stage' \in [Clients -> Stages] /\ stage'[c] = "read"
          /\ \A d \in Clients \ {c} : stage'[d] = stage[d]
      BY <2>1 DEF TypeOK, Stages, Handling
    <3>2. /\ fd[c] # None /\ req[c] \in Request /\ ~(result[c].code # "none")
      BY <1>1 DEF TypeOK, Handling
    <3>3. \A d \in Clients : ClientType(d)'
      BY <1>1, <2>3, <3>1, <3>2, TypeParts DEF ClientType, Handling
    <3> QED BY <1>1, <2>1, <2>3, <3>1, <3>3, TypeParts, TypePartsPrimed DEF ProcessType
  <2>5. StillOwed' /\ StageFitsRequest'
    BY <1>1, <2>1 DEF StillOwed, StageFitsRequest, TypeOK, Handling
  <2>6. SeenInv'
    BY <1>1, <1>3, <2>1 DEF SeenInv, TypeOK, Handling
  <2>7. GetSawFile' /\ AloneInv' /\ CreatedIsStored'
    BY <1>1, <2>1 DEF GetSawFile, AloneInv, CreatedIsStored, StageFitsRequest, TypeOK
  <2> QED BY <2>3, <2>4, <2>5, <2>6, <2>7
<1> QED BY <1>2, <1>3

LEMMA ReadInv ==
  ASSUME ServerInv, NEW c \in Clients, Read(c)
  PROVE  ServerInv'
<1> USE DEF ServerInv
<1>1. /\ UNCHANGED <<alive, file, script, inbox, owed, link, plain, fd, req, alone, failed, seen>>
      /\ stage[c] = "read" /\ hold[c] # None
  BY DEF Read, client, TypeOK
<1>2. CASE file = Empty
  <2>1. stage' = [stage EXCEPT ![c] = "check"] /\ UNCHANGED result /\ Drop(c)
    BY <1>2 DEF Read
  <2>2. /\ Fds' = Fds /\ desc' \in [Fds -> Clients \cup {"free", "file"}]
        /\ hold' \in [Clients -> Fds \cup {None}] /\ hold'[c] = None
        /\ \A d \in Clients \ {c} : hold'[d] = hold[d]
        /\ OwnConnection'
    BY <1>1, <2>1, DropOwn
  <2>3. TypeOK'
    <3>1. /\ stage' \in [Clients -> Stages] /\ stage'[c] = "check"
          /\ \A d \in Clients \ {c} : stage'[d] = stage[d]
      BY <2>1 DEF TypeOK, Stages, Handling
    <3>2. /\ fd[c] # None /\ req[c] \in Request /\ ~(result[c].code # "none")
      BY <1>1 DEF TypeOK, Handling
    <3>3. \A d \in Clients : ClientType(d)'
      BY <1>1, <2>1, <2>2, <3>1, <3>2, TypeParts DEF ClientType, Handling
    <3> QED BY <1>1, <2>1, <2>2, <3>1, <3>3, TypeParts, TypePartsPrimed DEF ProcessType
  <2>4. StillOwed' /\ StageFitsRequest'
    BY <1>1, <2>1 DEF StillOwed, StageFitsRequest, TypeOK, Handling
  <2>5. SeenInv'
    BY <1>1, <1>2, <2>1 DEF SeenInv, StageFitsRequest, TypeOK, Handling
  <2>6. GetSawFile' /\ AloneInv' /\ CreatedIsStored'
    BY <1>1, <2>1 DEF GetSawFile, AloneInv, CreatedIsStored, StageFitsRequest, TypeOK
  <2> QED BY <2>2, <2>3, <2>4, <2>5, <2>6
<1>3. CASE file # Empty
  <2>1. /\ stage' = [stage EXCEPT ![c] = "rest"] /\ UNCHANGED <<desc, hold>>
        /\ result' = [result EXCEPT ![c].body = file]
    BY <1>3 DEF Read
  <2>2. /\ result' \in [Clients -> [code : {"none", "200", "201", "404"}, body : Contents \cup {None}]]
        /\ \A d \in Clients : result'[d].code = result[d].code
        /\ \A d \in Clients \ {c} : result'[d] = result[d]
        /\ result'[c].body = file
    <3>1. /\ result \in [Clients -> [code : {"none", "200", "201", "404"}, body : Contents \cup {None}]]
          /\ file \in Contents
      BY DEF TypeOK
    <3>2. /\ result'[c] = [result[c] EXCEPT !.body = file]
          /\ \A d \in Clients \ {c} : result'[d] = result[d]
      BY <2>1, <3>1
    <3>3. /\ result'[c] \in [code : {"none", "200", "201", "404"}, body : Contents \cup {None}]
          /\ result'[c].code = result[c].code /\ result'[c].body = file
      BY <3>1, <3>2
    <3> QED BY <2>1, <3>1, <3>2, <3>3
  <2>3. TypeOK'
    BY <1>1, <2>1, <2>2 DEF TypeOK, Handling, Stages, Fds
  <2>4. OwnConnection' /\ StillOwed' /\ StageFitsRequest'
    BY <1>1, <2>1, <2>2 DEF OwnConnection, StillOwed, StageFitsRequest, TypeOK, Handling
  <2>5. SeenInv'
    BY <1>1, <2>1, <2>2 DEF SeenInv, StageFitsRequest, TypeOK, Handling
  <2>6. GetSawFile' /\ AloneInv' /\ CreatedIsStored'
    BY <1>1, <2>1, <2>2 DEF GetSawFile, AloneInv, CreatedIsStored, StageFitsRequest, TypeOK
  <2> QED BY <2>3, <2>4, <2>5, <2>6
<1> QED BY <1>2, <1>3

\* What came in pieces is Torn only if the file grew in between.
LEMMA ReadRestInv ==
  ASSUME ServerInv, NEW c \in Clients, ReadRest(c)
  PROVE  ServerInv'
<1> USE DEF ServerInv
<1>1. /\ UNCHANGED <<alive, file, script, inbox, owed, link, plain, fd, req, alone, failed, seen>>
      /\ stage[c] = "rest" /\ hold[c] # None /\ Drop(c)
      /\ stage' = [stage EXCEPT ![c] = "answer"]
  BY DEF ReadRest, Reply, client, TypeOK
<1>2. PICK b : /\ result' = [result EXCEPT ![c] = [code |-> "200", body |-> b]]
               /\ b = IF Size(file) > Size(result[c].body) THEN Torn ELSE result[c].body
  BY DEF ReadRest, Reply
<1>3. b \in Contents \cup {None} /\ (b = result[c].body \/ (b = Torn /\ file # result[c].body))
  <2>1. CASE Size(file) > Size(result[c].body)
    <3>1. file # result[c].body
      <4> SUFFICES ASSUME file = result[c].body
                   PROVE  FALSE
        OBVIOUS
      <4>1. Size(file) \in Nat
        BY DEF Size
      <4> QED BY <2>1, <4>1
    <3> QED BY <1>2, <2>1, <3>1 DEF Contents
  <2>2. CASE ~(Size(file) > Size(result[c].body))
    BY <1>2, <2>2 DEF TypeOK
  <2> QED BY <2>1, <2>2
<1>4. /\ Fds' = Fds /\ desc' \in [Fds -> Clients \cup {"free", "file"}]
      /\ hold' \in [Clients -> Fds \cup {None}] /\ hold'[c] = None
      /\ \A d \in Clients \ {c} : hold'[d] = hold[d]
      /\ OwnConnection'
  BY <1>1, DropOwn
<1>5. TypeOK'
  <2>1. result' \in [Clients -> [code : {"none", "200", "201", "404"}, body : Contents \cup {None}]]
    BY <1>2, <1>3 DEF TypeOK
  <2> QED BY <1>1, <1>2, <1>4, <2>1 DEF TypeOK, Handling, Stages
<1>6. StillOwed' /\ StageFitsRequest'
  BY <1>1, <1>2 DEF StillOwed, StageFitsRequest, TypeOK, Handling
<1>7. SeenInv'
  BY <1>1, <1>2 DEF SeenInv, StageFitsRequest, TypeOK, Handling
<1>8. GetSawFile'
  <2>1. result[c].body \in seen[c] /\ file \in seen[c]
    BY <1>1 DEF SeenInv, StageFitsRequest, Handling
  <2> QED BY <1>1, <1>2, <1>3, <2>1 DEF GetSawFile, TypeOK
<1>9. AloneInv' /\ CreatedIsStored'
  BY <1>1, <1>2 DEF AloneInv, CreatedIsStored, StageFitsRequest, TypeOK
<1> QED BY <1>4, <1>5, <1>6, <1>7, <1>8, <1>9

LEMMA CheckInv ==
  ASSUME ServerInv, NEW c \in Clients, Check(c)
  PROVE  ServerInv'
<1> USE DEF ServerInv
<1>1. /\ UNCHANGED <<alive, file, script, inbox, owed, link, plain, fd, req, alone, seen>>
      /\ stage[c] = "check" /\ hold[c] = None
  BY DEF Check, client, TypeOK
<1>2. CASE Free = {} \/ file = Absent
  <2>1. /\ UNCHANGED <<desc, hold>> /\ stage' = [stage EXCEPT ![c] = "answer"]
        /\ result' = [result EXCEPT ![c] = [code |-> "404", body |-> None]]
        /\ failed' = [failed EXCEPT ![c] = @ \/ Free = {}]
    BY <1>2 DEF Check, Reply
  <2>2. /\ failed' \in [Clients -> BOOLEAN]
        /\ \A d \in Clients \ {c} : failed'[d] = failed[d]
        /\ ~failed'[c] => file = Absent
    BY <1>2, <2>1 DEF TypeOK
  <2>3. TypeOK'
    BY <1>1, <2>1, <2>2 DEF TypeOK, Fds, Handling, Stages
  <2>4. OwnConnection' /\ StillOwed' /\ StageFitsRequest'
    BY <1>1, <2>1 DEF OwnConnection, StillOwed, StageFitsRequest, TypeOK, Handling
  <2>5. SeenInv'
    BY <1>1, <2>1, <2>2 DEF SeenInv, TypeOK, Handling
  <2>6. GetSawFile'
    BY <1>1, <2>1, <2>2 DEF GetSawFile, SeenInv, StageFitsRequest, TypeOK, Handling
  <2>7. AloneInv'
    BY <1>1, <2>1 DEF AloneInv, TypeOK
  <2>8. CreatedIsStored'
    BY <1>1, <2>1, <2>2 DEF CreatedIsStored, TypeOK
  <2> QED BY <2>3, <2>4, <2>5, <2>6, <2>7, <2>8
<1>3. CASE Free # {} /\ file # Absent
  <2>1. stage' = [stage EXCEPT ![c] = "found"] /\ UNCHANGED <<result, failed>> /\ Take(c)
    BY <1>3 DEF Check
  <2>2. /\ Fds' = Fds /\ desc' \in [Fds -> Clients \cup {"free", "file"}]
        /\ hold' \in [Clients -> Fds \cup {None}] /\ hold'[c] # None
        /\ \A d \in Clients \ {c} : hold'[d] = hold[d]
        /\ OwnConnection'
    BY <1>1, <1>3, <2>1, TakeOwn
  <2>3. TypeOK'
    <3>1. /\ stage' \in [Clients -> Stages] /\ stage'[c] = "found"
          /\ \A d \in Clients \ {c} : stage'[d] = stage[d]
      BY <2>1 DEF TypeOK, Stages, Handling
    <3>2. fd[c] # None /\ req[c] \in Request /\ ~(result[c].code # "none")
      BY <1>1 DEF TypeOK, Handling
    <3>3. \A d \in Clients : ClientType(d)'
      BY <1>1, <2>1, <2>2, <3>1, <3>2, TypeParts DEF ClientType, Handling
    <3> QED BY <1>1, <2>1, <2>2, <3>1, <3>3, TypeParts, TypePartsPrimed DEF ProcessType
  <2>4. StillOwed' /\ StageFitsRequest'
    BY <1>1, <2>1 DEF StillOwed, StageFitsRequest, TypeOK, Handling
  <2>5. SeenInv'
    BY <1>1, <1>3, <2>1 DEF SeenInv, StageFitsRequest, TypeOK, Handling
  <2>6. GetSawFile' /\ AloneInv' /\ CreatedIsStored'
    BY <1>1, <2>1 DEF GetSawFile, AloneInv, CreatedIsStored, StageFitsRequest, TypeOK
  <2> QED BY <2>2, <2>3, <2>4, <2>5, <2>6
<1> QED BY <1>2, <1>3

LEMMA CheckEndsInv ==
  ASSUME ServerInv, NEW c \in Clients, CheckEnds(c)
  PROVE  ServerInv'
<1> USE DEF ServerInv
<1>1. /\ UNCHANGED <<alive, file, script, inbox, owed, link, plain, fd, req, alone, failed, seen>>
      /\ stage[c] = "found" /\ hold[c] # None /\ Drop(c)
      /\ stage' = [stage EXCEPT ![c] = "answer"]
      /\ result' = [result EXCEPT ![c] = [code |-> "200", body |-> Empty]]
  BY DEF CheckEnds, Reply, client, TypeOK
<1>2. /\ Fds' = Fds /\ desc' \in [Fds -> Clients \cup {"free", "file"}]
      /\ hold' \in [Clients -> Fds \cup {None}] /\ hold'[c] = None
      /\ \A d \in Clients \ {c} : hold'[d] = hold[d]
      /\ OwnConnection'
  BY <1>1, DropOwn
<1>3. TypeOK'
  <2>1. result' \in [Clients -> [code : {"none", "200", "201", "404"}, body : Contents \cup {None}]]
    BY <1>1 DEF TypeOK, Contents
  <2> QED BY <1>1, <1>2, <2>1 DEF TypeOK, Handling, Stages
<1>4. StillOwed' /\ StageFitsRequest'
  BY <1>1 DEF StillOwed, StageFitsRequest, TypeOK, Handling
<1>5. SeenInv'
  BY <1>1 DEF SeenInv, StageFitsRequest, TypeOK, Handling
<1>6. GetSawFile'
  <2>1. ~failed[c] => Empty \in seen[c]
    BY <1>1 DEF SeenInv, StageFitsRequest, Handling
  <2> QED BY <1>1, <2>1 DEF GetSawFile, TypeOK
<1>7. AloneInv' /\ CreatedIsStored'
  BY <1>1 DEF AloneInv, CreatedIsStored, StageFitsRequest, TypeOK
<1> QED BY <1>2, <1>3, <1>4, <1>5, <1>6, <1>7

-----------------------------------------------------------------------------
(***************************************************************************)
(* A post: truncating the file, writing to it, and flushing it.            *)
(***************************************************************************)
\* Who waits for what was in the file learns what is in it now.
LEMMA WritesSeen ==
  ASSUME ServerInv, NEW x \in Contents, x # Absent, Writes(x)
  PROVE  /\ file' = x /\ seen' \in [Clients -> SUBSET Contents]
         /\ \A d \in Clients : seen[d] \subseteq seen'[d]
         /\ \A d \in Clients : file \in seen[d] => x \in seen'[d]
  BY DEF ServerInv, TypeOK, Writes

\* What a body over the file's contents gives is not nothing.
LEMMA OverStays ==
  ASSUME TypeOK, NEW c \in Clients, req[c] \in Request, req[c].body \in Bodies
  PROVE  Over(req[c].body, file) \in Contents /\ Over(req[c].body, file) # Absent
  BY ExpressoServerAssumption DEF Over, Contents, Bodies

\* A write keeps what gets in other threads may answer.
LEMMA WriteSeen ==
  ASSUME ServerInv, NEW c \in Clients, stage[c] \in {"create", "write", "flush"},
         stage'[c] \in {"write", "flush", "answer"},
         file' \in Contents, file' # Absent, file' = Empty \/ file # Absent,
         \A d \in Clients : seen[d] \subseteq seen'[d],
         \A d \in Clients : file \in seen[d] => file' \in seen'[d],
         \A d \in Clients \ {c} : stage'[d] = stage[d] /\ result'[d] = result[d] /\ failed'[d] = failed[d],
         req' = req
  PROVE  SeenInv' /\ GetSawFile'
<1> USE DEF ServerInv
<1>1. req[c].verb = "post"
  BY DEF StageFitsRequest
<1>2. SeenInv'
  <2> SUFFICES ASSUME NEW d \in Clients
               PROVE  /\ stage'[d] \in {"read", "rest", "found", "write", "flush"} => file' # Absent
                      /\ stage'[d] \in Handling /\ req'[d].verb = "get" =>
                           /\ file' \in seen'[d]
                           /\ stage'[d] = "rest" => result'[d].body \in seen'[d]
                           /\ stage'[d] = "check" /\ ~failed'[d] => file' = Absent \/ Empty \in seen'[d]
                           /\ stage'[d] = "found" /\ ~failed'[d] => Empty \in seen'[d]
    BY DEF SeenInv
  <2>1. CASE d = c
    BY <1>1, <2>1
  <2>2. CASE d # c
    BY <2>2 DEF SeenInv
  <2> QED BY <2>1, <2>2
<1>3. GetSawFile'
  <2> SUFFICES ASSUME NEW d \in Clients, stage'[d] = "answer", req'[d].verb = "get", ~failed'[d]
               PROVE  IF result'[d].code = "404" THEN Absent \in seen'[d]
                      ELSE \/ result'[d].body \in seen'[d]
                           \/ result'[d].body = Torn /\ \E x, y \in seen'[d] : x # y
    BY DEF GetSawFile
  <2>1. d # c
    BY <1>1
  <2>2. IF result[d].code = "404" THEN Absent \in seen[d]
        ELSE \/ result[d].body \in seen[d]
             \/ result[d].body = Torn /\ \E x, y \in seen[d] : x # y
    BY <2>1 DEF GetSawFile
  <2> QED BY <2>1, <2>2
<1> QED BY <1>2, <1>3

LEMMA CreateInv ==
  ASSUME ServerInv, NEW c \in Clients, Create(c)
  PROVE  ServerInv'
<1> USE DEF ServerInv
<1>1. /\ UNCHANGED <<alive, script, inbox, owed, link, plain, fd, req, failed>>
      /\ stage[c] = "create" /\ hold[c] = None /\ req[c].verb = "post"
  BY DEF Create, client, TypeOK, StageFitsRequest
<1>2. CASE Free = {}
  <2>1. /\ UNCHANGED <<desc, file, hold, alone, seen>>
        /\ stage' = [stage EXCEPT ![c] = "answer"]
        /\ result' = [result EXCEPT ![c] = [code |-> "404", body |-> None]]
    BY <1>2 DEF Create, Reply
  <2>2. TypeOK'
    BY <1>1, <2>1 DEF TypeOK, Fds, Handling, Stages
  <2>3. OwnConnection' /\ StillOwed' /\ StageFitsRequest'
    BY <1>1, <2>1 DEF OwnConnection, StillOwed, StageFitsRequest, TypeOK, Handling
  <2>4. SeenInv' /\ GetSawFile'
    BY <1>1, <2>1 DEF SeenInv, GetSawFile, TypeOK, Handling
  <2>5. AloneInv' /\ CreatedIsStored'
    BY <1>1, <2>1 DEF AloneInv, CreatedIsStored, TypeOK
  <2> QED BY <2>2, <2>3, <2>4, <2>5
<1>3. CASE Free # {}
  <2>1. /\ UNCHANGED result /\ Take(c) /\ Writes(Empty)
        /\ stage' = [stage EXCEPT ![c] = "write"]
        /\ alone' = [d \in Clients |->
             IF d = c THEN \A e \in Clients \ {c} : ~Uploading(e) ELSE ~Uploading(d)]
    BY <1>3 DEF Create
  <2>2. /\ Fds' = Fds /\ desc' \in [Fds -> Clients \cup {"free", "file"}]
        /\ hold' \in [Clients -> Fds \cup {None}] /\ hold'[c] # None
        /\ \A d \in Clients \ {c} : hold'[d] = hold[d]
        /\ OwnConnection'
    BY <1>1, <1>3, <2>1, TakeOwn
  <2>3. /\ file' = Empty /\ seen' \in [Clients -> SUBSET Contents] /\ Empty \in Contents /\ Empty # Absent
        /\ \A d \in Clients : seen[d] \subseteq seen'[d]
        /\ \A d \in Clients : file \in seen[d] => file' \in seen'[d]
    <3>1. Empty \in Contents /\ Empty # Absent
      BY ExpressoServerAssumption DEF Contents
    <3> QED BY <2>1, <3>1, WritesSeen
  <2>4. /\ alone' \in [Clients -> BOOLEAN]
        /\ alone'[c] => \A e \in Clients \ {c} : ~Uploading(e)
        /\ \A d \in Clients \ {c} : alone'[d] => ~Uploading(d)
    <3> DEFINE A(d) == IF d = c THEN \A e \in Clients \ {c} : ~Uploading(e) ELSE ~Uploading(d)
    <3>1. \A d \in Clients : A(d) \in BOOLEAN
      BY DEF Uploading
    <3>2. alone' = [d \in Clients |-> A(d)]
      BY <2>1
    <3>3. alone' \in [Clients -> BOOLEAN] /\ \A d \in Clients : alone'[d] = A(d)
      <4> HIDE DEF A
      <4> QED BY <3>1, <3>2
    <3>4. \A d \in Clients : alone'[d] => A(d)
      BY <3>3
    <3> QED BY <3>3, <3>4
  <2>5. TypeOK'
    <3>1. stage' \in [Clients -> Stages]
      BY <2>1 DEF TypeOK, Stages, Handling
    <3>2. \A d \in Clients :
              /\ fd'[d] # None <=> stage'[d] \in Handling \cup {"reading", "stuck", "closing"}
              /\ hold'[d] # None <=> stage'[d] \in {"read", "rest", "found", "write", "flush"}
              /\ result'[d].code # "none" <=> stage'[d] \in {"flush", "answer"}
              /\ stage'[d] \in Handling => req'[d] \in Request
      BY <1>1, <2>1, <2>2 DEF TypeOK, Handling
    <3> QED BY <1>1, <2>1, <2>2, <2>3, <2>4, <3>1, <3>2 DEF TypeOK
  <2>6. StillOwed' /\ StageFitsRequest'
    BY <1>1, <2>1 DEF StillOwed, StageFitsRequest, TypeOK, Handling
  <2>7. SeenInv' /\ GetSawFile'
    <3>1. \A d \in Clients \ {c} : stage'[d] = stage[d] /\ result'[d] = result[d] /\ failed'[d] = failed[d]
      BY <1>1, <2>1 DEF TypeOK
    <3>2. stage'[c] = "write"
      BY <2>1 DEF TypeOK
    <3> QED BY <1>1, <2>3, <3>1, <3>2, WriteSeen
  <2>8. \A d \in Clients : stage[d] \in {"write", "flush"} \/ result[d].code = "201" => Uploading(d)
    BY DEF Uploading, StageFitsRequest, TypeOK
  <2>9. AloneInv'
    <3> SUFFICES ASSUME NEW d \in Clients, alone'[d],
                        stage'[d] \in {"write", "flush"} \/ result'[d].code = "201"
                 PROVE  /\ \A e \in Clients \ {d} : stage'[e] \notin {"write", "flush"}
                        /\ stage'[d] = "write" => file' = Empty
                        /\ stage'[d] = "flush" /\ result'[d].code = "201" =>
                             file' = IF req'[d].body \in Small THEN Empty ELSE req'[d].body
      BY DEF AloneInv
    <3>1. d = c
      BY <2>1, <2>4, <2>8 DEF TypeOK
    <3> QED BY <2>1, <2>3, <2>4, <2>8, <3>1 DEF TypeOK
  <2>10. CreatedIsStored'
    BY <1>1, <2>1, <2>4, <2>8 DEF CreatedIsStored, TypeOK
  <2> QED BY <2>2, <2>5, <2>6, <2>7, <2>9, <2>10
<1> QED BY <1>2, <1>3

\* Another one's write changes the file only for those who are not alone.
LEMMA WriteInv ==
  ASSUME ServerInv, NEW c \in Clients, Write(c)
  PROVE  ServerInv'
<1> USE DEF ServerInv
<1>1. /\ UNCHANGED <<alive, desc, script, inbox, owed, link, plain, fd, hold, req, alone, failed>>
      /\ stage[c] = "write" /\ stage' = [stage EXCEPT ![c] = "flush"]
      /\ req[c].verb = "post" /\ req[c] \in Request /\ file # Absent
  BY DEF Write, client, TypeOK, StageFitsRequest, SeenInv, Handling
<1>2. PICK code \in {"201", "404"} :
        /\ result' = [result EXCEPT ![c] = [code |-> code, body |-> None]]
        /\ \/ req[c].body \in Small /\ code = "201" /\ UNCHANGED <<file, seen>>
           \/ req[c].body \in Large /\ code = "201" /\ Writes(Over(req[c].body, file))
           \/ req[c].body \in Large /\ code = "404" /\ (Writes(file) \/ Writes(Torn))
  BY DEF Write
<1>3. /\ file' \in Contents /\ file' # Absent /\ seen' \in [Clients -> SUBSET Contents]
      /\ \A d \in Clients : seen[d] \subseteq seen'[d]
      /\ \A d \in Clients : file \in seen[d] => file' \in seen'[d]
  <2>1. file \in Contents /\ Torn \in Contents /\ Torn # Absent /\ seen \in [Clients -> SUBSET Contents]
    BY ExpressoServerAssumption DEF Contents, TypeOK
  <2>2. CASE UNCHANGED <<file, seen>>
    BY <1>1, <2>1, <2>2
  <2>3. CASE req[c].body \in Large /\ Writes(Over(req[c].body, file))
    BY <1>1, <2>3, WritesSeen, OverStays DEF Bodies
  <2>4. CASE Writes(file)
    BY <1>1, <2>1, <2>4, WritesSeen
  <2>5. CASE Writes(Torn)
    BY <2>1, <2>5, WritesSeen
  <2> QED BY <1>2, <2>2, <2>3, <2>4, <2>5
<1>4. /\ stage'[c] = "flush" /\ result'[c] = [code |-> code, body |-> None]
      /\ \A d \in Clients \ {c} : stage'[d] = stage[d] /\ result'[d] = result[d] /\ failed'[d] = failed[d]
  BY <1>1, <1>2 DEF TypeOK
<1>5. TypeOK'
  <2>1. result' \in [Clients -> [code : {"none", "200", "201", "404"}, body : Contents \cup {None}]]
    BY <1>2 DEF TypeOK
  <2> QED BY <1>1, <1>2, <1>3, <2>1 DEF TypeOK, Fds, Handling, Stages
<1>6. OwnConnection' /\ StillOwed' /\ StageFitsRequest'
  BY <1>1, <1>4 DEF OwnConnection, StillOwed, StageFitsRequest, TypeOK, Handling
<1>7. SeenInv' /\ GetSawFile'
  BY <1>1, <1>3, <1>4, WriteSeen
<1>8. \A d \in Clients \ {c} : alone[d] => stage[d] \notin {"write", "flush"} /\ result[d].code # "201"
  BY <1>1 DEF AloneInv
<1>9. AloneInv'
  <2>1. alone[c] /\ code = "201" => file' = IF req[c].body \in Small THEN Empty ELSE req[c].body
    <3> SUFFICES ASSUME alone[c], code = "201"
                 PROVE  file' = IF req[c].body \in Small THEN Empty ELSE req[c].body
      OBVIOUS
    <3>1. file = Empty
      BY <1>1 DEF AloneInv
    <3>2. Large \cap Small = {}
      BY ExpressoServerAssumption
    <3> QED BY <1>2, <3>1, <3>2 DEF Writes, Over
  <2> QED BY <1>1, <1>4, <1>8, <2>1 DEF AloneInv
<1>10. CreatedIsStored'
  BY <1>1, <1>4, <1>8 DEF CreatedIsStored
<1> QED BY <1>5, <1>6, <1>7, <1>9, <1>10

\* The destructor writes what a small body left in the buffer.
LEMMA FlushInv ==
  ASSUME ServerInv, NEW c \in Clients, Flush(c)
  PROVE  ServerInv'
<1> USE DEF ServerInv
<1>1. /\ UNCHANGED <<alive, script, inbox, owed, link, plain, fd, req, result, alone>>
      /\ stage[c] = "flush" /\ stage' = [stage EXCEPT ![c] = "answer"] /\ Drop(c)
      /\ req[c].verb = "post" /\ req[c] \in Request /\ file # Absent /\ hold[c] # None
  BY DEF Flush, client, TypeOK, StageFitsRequest, SeenInv, Handling
<1>2. \/ req[c].body \in Large /\ UNCHANGED <<file, seen, failed>>
      \/ req[c].body \in Small /\ Writes(Over(req[c].body, file)) /\ UNCHANGED failed
      \/ /\ req[c].body \in Small /\ (Writes(file) \/ Writes(Torn))
         /\ failed' = [failed EXCEPT ![c] = TRUE]
  BY DEF Flush
<1>3. /\ file' \in Contents /\ file' # Absent /\ seen' \in [Clients -> SUBSET Contents]
      /\ \A d \in Clients : seen[d] \subseteq seen'[d]
      /\ \A d \in Clients : file \in seen[d] => file' \in seen'[d]
  <2>1. file \in Contents /\ Torn \in Contents /\ Torn # Absent /\ seen \in [Clients -> SUBSET Contents]
    BY ExpressoServerAssumption DEF Contents, TypeOK
  <2>2. CASE UNCHANGED <<file, seen>>
    BY <1>1, <2>1, <2>2
  <2>3. CASE req[c].body \in Small /\ Writes(Over(req[c].body, file))
    BY <1>1, <2>3, WritesSeen, OverStays DEF Bodies
  <2>4. CASE Writes(file)
    BY <1>1, <2>1, <2>4, WritesSeen
  <2>5. CASE Writes(Torn)
    BY <2>1, <2>5, WritesSeen
  <2> QED BY <1>2, <2>2, <2>3, <2>4, <2>5
<1>4. /\ stage'[c] = "answer" /\ failed' \in [Clients -> BOOLEAN]
      /\ \A d \in Clients \ {c} : stage'[d] = stage[d] /\ failed'[d] = failed[d]
  <2>1. stage'[c] = "answer" /\ \A d \in Clients \ {c} : stage'[d] = stage[d]
    BY <1>1 DEF TypeOK
  <2>2. failed \in [Clients -> BOOLEAN]
    BY DEF TypeOK
  <2>3. failed' = failed \/ failed' = [failed EXCEPT ![c] = TRUE]
    BY <1>2
  <2> QED BY <2>1, <2>2, <2>3
<1>5. /\ Fds' = Fds /\ desc' \in [Fds -> Clients \cup {"free", "file"}]
      /\ hold' \in [Clients -> Fds \cup {None}] /\ hold'[c] = None
      /\ \A d \in Clients \ {c} : hold'[d] = hold[d]
      /\ OwnConnection'
  BY <1>1, DropOwn
<1>6. TypeOK'
  <2>1. stage' \in [Clients -> Stages]
    BY <1>1 DEF TypeOK, Stages, Handling
  <2>2. \A d \in Clients :
            /\ fd'[d] # None <=> stage'[d] \in Handling \cup {"reading", "stuck", "closing"}
            /\ hold'[d] # None <=> stage'[d] \in {"read", "rest", "found", "write", "flush"}
            /\ result'[d].code # "none" <=> stage'[d] \in {"flush", "answer"}
            /\ stage'[d] \in Handling => req'[d] \in Request
    BY <1>1, <1>5 DEF TypeOK, Handling
  <2> QED BY <1>1, <1>3, <1>4, <1>5, <2>1, <2>2 DEF TypeOK
<1>7. StillOwed' /\ StageFitsRequest'
  BY <1>1, <1>4 DEF StillOwed, StageFitsRequest, TypeOK, Handling
<1>8. SeenInv' /\ GetSawFile'
  BY <1>1, <1>3, <1>4, WriteSeen
<1>9. \A d \in Clients \ {c} : alone[d] => stage[d] \notin {"write", "flush"} /\ result[d].code # "201"
  BY <1>1 DEF AloneInv
<1>10. AloneInv'
  BY <1>1, <1>4, <1>9 DEF AloneInv
<1>11. CreatedIsStored'
  <2>1. alone[c] /\ result[c].code = "201" =>
          file' = req[c].body \/ (req[c].body \in Small /\ failed'[c])
    <3> SUFFICES ASSUME alone[c], result[c].code = "201"
                 PROVE  file' = req[c].body \/ (req[c].body \in Small /\ failed'[c])
      OBVIOUS
    <3>1. file = IF req[c].body \in Small THEN Empty ELSE req[c].body
      BY <1>1 DEF AloneInv
    <3>2. Large \cap Small = {}
      BY ExpressoServerAssumption
    <3>3. failed \in [Clients -> BOOLEAN]
      BY DEF TypeOK
    <3> QED BY <1>2, <3>1, <3>2, <3>3 DEF Writes, Over
  <2> QED BY <1>1, <1>4, <1>9, <2>1 DEF CreatedIsStored
<1> QED BY <1>5, <1>6, <1>7, <1>8, <1>10, <1>11

-----------------------------------------------------------------------------
LEMMA NextServerInv ==
  ASSUME ServerInv, [Next]_vars
  PROVE  ServerInv'
<1>1. CASE UNCHANGED vars
  BY <1>1 DEF ServerInv, TypeOK, OwnConnection, StillOwed, StageFitsRequest, SeenInv, GetSawFile,
              AloneInv, CreatedIsStored, Fds, vars, client, thread
<1>2. CASE Next
  <2>1. PICK c \in Clients : \/ Send(c) \/ HangUp(c) \/ Accept(c) \/ ThreadFails(c) \/ Serve(c)
    BY <1>2 DEF Next
  <2>2. CASE Send(c) \/ HangUp(c) \/ Accept(c)
    BY <2>2, SendInv, HangUpInv, AcceptInv
  <2>3. CASE ThreadFails(c) \/ Killed(c)
    BY <2>3, DieInv DEF ThreadFails, Killed
  <2>4. CASE \E k \in 1..Len(inbox[c]) : Recv(c, k)
    BY <2>4, RecvInv
  <2>5. CASE GiveUp(c) \/ Close(c) \/ Answer(c) \/ Other(c)
    BY <2>5, GiveUpInv, CloseInv, AnswerInv, OtherInv
  <2>6. CASE OpenRead(c) \/ Read(c) \/ ReadRest(c) \/ Check(c) \/ CheckEnds(c)
    BY <2>6, OpenReadInv, ReadInv, ReadRestInv, CheckInv, CheckEndsInv
  <2>7. CASE Create(c) \/ Write(c) \/ Flush(c)
    BY <2>7, CreateInv, WriteInv, FlushInv
  <2> QED BY <2>1, <2>2, <2>3, <2>4, <2>5, <2>6, <2>7 DEF Serve
<1> QED BY <1>1, <1>2

LEMMA SpecServerInv == Spec => []ServerInv
<1>1. Init => ServerInv
  BY InitServerInv
<1>2. ServerInv /\ [Next]_vars => ServerInv'
  BY NextServerInv
<1> QED BY <1>1, <1>2, PTL DEF Spec

-----------------------------------------------------------------------------
\* The variables of the process and of its threads keep their types, and a
\* thread has a connection, a file and an answer exactly where it needs them.
THEOREM ServerTypeCorrect == Spec => []TypeOK
<1>1. ServerInv => TypeOK
  BY DEF ServerInv
<1> QED BY <1>1, SpecServerInv, PTL

\* handle_client, read_file and write_file use descriptors that are their own,
\* however often the numbers of closed ones are given out again.
THEOREM ServerOwnConnection == Spec => []OwnConnection
<1>1. ServerInv => OwnConnection
  BY DEF ServerInv
<1> QED BY <1>1, SpecServerInv, PTL

\* handle_get answers with what the file held since the request was received.
THEOREM ServerGetSawFile == Spec => []GetSawFile
<1>1. ServerInv => GetSawFile
  BY DEF ServerInv
<1> QED BY <1>1, SpecServerInv, PTL

\* handle_post says 201 only with the body in the file, save where another
\* upload came between or the flush behind good() failed.
THEOREM ServerCreatedIsStored == Spec => []CreatedIsStored
<1>1. ServerInv => CreatedIsStored
  BY DEF ServerInv
<1> QED BY <1>1, SpecServerInv, PTL
=============================================================================
