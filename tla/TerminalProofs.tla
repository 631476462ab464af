--------------------------- MODULE TerminalProofs ---------------------------
(***************************************************************************)
(* Proofs about Terminal, for any commands, files, texts and number of     *)
(* late requests: the types, that cp and mv lose nothing, and that what is *)
(* printed as a success has happened.  FetchInv is inductive by itself and *)
(* says what a run has under way; RunInv builds on it.                     *)
(***************************************************************************)
EXTENDS Terminal, FiniteSetTheorems, TLAPS

\* TypeOK without what it says of the requests nobody waits for.
PageType ==
  /\ files \in [Names -> Held \cup {Absent, Dir}]
  /\ editor \in [file : Names \cup {None}, text : Held]
  /\ cmd \in [Runs -> Task \cup {None}]
  /\ stage \in [Runs -> {"idle", "get", "body", "put", "mkdir", "del", "done"}]
  /\ try \in [Runs -> {1, 2}]
  /\ wire \in [Runs -> {"none", "sent", "writing", "served"}]
  /\ answer \in [Runs -> [code : {"none", "200", "201", "404", "500"},
                          body : Held \cup {Absent, Dir, None}]]
  /\ body \in [Runs -> Held \cup {None}]
  /\ says \in [Runs -> {"nothing", "success", "error", "exception"}]
  /\ clean \in [Runs -> BOOLEAN]
  /\ uploads \subseteq Upload

RunType(p) ==
  /\ wire[p] # "none" <=> stage[p] \in {"get", "put", "mkdir", "del"}
  /\ stage[p] = "put" => body[p] # None
  /\ wire[p] = "writing" => \E u \in uploads : u.from = p /\ u.try = try[p]
  /\ says[p] # "nothing" => stage[p] = "done"

LateType == late \subseteq Stray /\ IsFiniteSet(late) /\ Cardinality(late) <= MaxLate

\* FetchInv by runs and requests.
LEMMA Parts ==
  /\ FetchInv <=> /\ PageType /\ LateType
                  /\ \A p \in Runs : RunType(p) /\ RunFits(p)
                  /\ \A m \in late : StrayFits(m)
                  /\ \A u \in uploads : UploadFits(u)
  /\ FetchInv' <=> /\ PageType' /\ LateType'
                   /\ \A p \in Runs : RunType(p)' /\ RunFits(p)'
                   /\ \A m \in late' : StrayFits(m)'
                   /\ \A u \in uploads' : UploadFits(u)'
<1>1. TypeOK <=> PageType /\ LateType /\ \A p \in Runs : RunType(p)
  BY DEF TypeOK, PageType, LateType, RunType
<1>2. TypeOK' <=> PageType' /\ LateType' /\ \A p \in Runs : RunType(p)'
  BY DEF TypeOK, PageType, LateType, RunType
<1> QED BY <1>1, <1>2 DEF FetchInv

\* Of the other runs a step says nothing.
OthersSame(p) == \A q \in Runs \ {p} :
  /\ cmd'[q] = cmd[q] /\ stage'[q] = stage[q] /\ wire'[q] = wire[q]
  /\ answer'[q] = answer[q] /\ body'[q] = body[q] /\ says'[q] = says[q] /\ try'[q] = try[q]

\* Nor of their uploads, but that a file may be removed.
UploadsKept(p) ==
  /\ \A u \in uploads' : u.from # p =>
       \E v \in uploads : /\ u.from = v.from /\ u.try = v.try /\ u.body = v.body
                         /\ u.name \in {v.name, None}
  /\ \A v \in uploads : v.from # p => \E u \in uploads' : u.from = v.from /\ u.try = v.try

LEMMA OneRun ==
  ASSUME FetchInv, NEW p \in Runs, PageType', OthersSame(p), RunType(p)', RunFits(p)', LateType',
         UploadsKept(p), \A u \in uploads' : u.from = p => UploadFits(u)',
         \A m \in late' : IF m.from = p THEN StrayFits(m)' ELSE m \in late
  PROVE  FetchInv'
<1>1. ASSUME NEW q \in Runs
      PROVE  RunType(q)' /\ RunFits(q)'
  <2>1. CASE q = p
    BY <2>1
  <2>2. CASE q # p
    <3>1. RunType(q) /\ RunFits(q)
      BY Parts
    <3>2. /\ cmd'[q] = cmd[q] /\ stage'[q] = stage[q] /\ wire'[q] = wire[q]
          /\ answer'[q] = answer[q] /\ body'[q] = body[q] /\ says'[q] = says[q] /\ try'[q] = try[q]
      BY <2>2 DEF OthersSame
    <3>3. ASSUME wire'[q] = "writing" PROVE \E u \in uploads' : u.from = q /\ u.try = try'[q]
      <4>1. PICK v \in uploads : v.from = q /\ v.try = try[q]
        BY <3>1, <3>2, <3>3 DEF RunType
      <4> QED BY <2>2, <3>2, <4>1 DEF UploadsKept
    <3> QED BY <3>1, <3>2, <3>3 DEF RunType, RunFits, Ok
  <2> QED BY <2>1, <2>2
<1>2. ASSUME NEW m \in late'
      PROVE  StrayFits(m)'
  <2>1. CASE m.from = p
    BY <2>1
  <2>2. CASE m.from # p
    <3>1. m.from \in Runs /\ StrayFits(m)
      BY <2>2, Parts DEF LateType, Stray
    <3>2. /\ cmd'[m.from] = cmd[m.from] /\ stage'[m.from] = stage[m.from] /\ body'[m.from] = body[m.from]
      BY <2>2, <3>1 DEF OthersSame
    <3> QED BY <3>1, <3>2 DEF StrayFits
  <2> QED BY <2>1, <2>2
<1>3. ASSUME NEW u \in uploads'
      PROVE  UploadFits(u)'
  <2>1. CASE u.from = p
    BY <2>1
  <2>2. CASE u.from # p
    <3>1. PICK v \in uploads : /\ u.from = v.from /\ u.try = v.try /\ u.body = v.body
                               /\ u.name \in {v.name, None}
      BY <2>2 DEF UploadsKept
    <3>2. v.from \in Runs /\ UploadFits(v)
      BY Parts DEF PageType, Upload
    <3>3. /\ cmd'[u.from] = cmd[v.from] /\ stage'[u.from] = stage[v.from] /\ body'[u.from] = body[v.from]
      BY <2>2, <3>1, <3>2 DEF OthersSame
    <3> QED BY <3>1, <3>2, <3>3 DEF UploadFits
  <2> QED BY <2>1, <2>2
<1> QED BY <1>1, <1>2, <1>3, Parts

\* A run takes its late requests along, from stage to stage.
LEMMA StraysStay ==
  ASSUME FetchInv, NEW p \in Runs, UNCHANGED late,
         \/ stage[p] \in {"idle", "get", "body"}
         \/ /\ cmd'[p] = cmd[p] /\ body'[p] = body[p]
            /\ stage'[p] \notin {"idle", "get", "body"}
            /\ stage[p] \in {"del", "done"} => stage'[p] \in {"del", "done"}
  PROVE  LateType' /\ \A m \in late' : IF m.from = p THEN StrayFits(m)' ELSE m \in late
<1>1. LateType'
  BY Parts DEF LateType
<1>2. ASSUME NEW m \in late, m.from = p
      PROVE  StrayFits(m)'
  <2>1. StrayFits(m)
    BY Parts
  <2> QED BY <1>2, <2>1 DEF StrayFits
<1> QED BY <1>1, <1>2

LEMMA UploadsStay ==
  ASSUME FetchInv, NEW p \in Runs, UNCHANGED uploads,
         \/ stage[p] \in {"idle", "get", "body"}
         \/ /\ cmd'[p] = cmd[p] /\ body'[p] = body[p]
            /\ stage'[p] \notin {"idle", "get", "body"}
  PROVE  UploadsKept(p) /\ \A u \in uploads' : u.from = p => UploadFits(u)'
<1>1. UploadsKept(p)
  BY DEF UploadsKept
<1>2. ASSUME NEW u \in uploads, u.from = p
      PROVE  UploadFits(u)'
  <2>1. UploadFits(u)
    BY Parts
  <2> QED BY <1>2, <2>1 DEF UploadFits
<1> QED BY <1>1, <1>2

\* The task of a run that is under way.
LEMMA TaskType ==
  ASSUME FetchInv, NEW p \in Runs, stage[p] # "idle"
  PROVE  /\ cmd[p] \in Task /\ cmd[p] # None /\ Target(p) \in Names
         /\ cmd[p].src \in Names /\ cmd[p].dst \in Names
         /\ cmd[p].op \in {"cat", "nano", "touch", "rm", "mkdir", "cp", "mv", "save"}
<1>1. cmd[p] \in Task
  BY Parts DEF PageType, RunFits
<1> QED BY <1>1, TerminalAssumption DEF Task, Target

\* What End, Thrown and Fetch do to the stage of a run, its wire and its answer.
StageType ==
  /\ stage' \in [Runs -> {"idle", "get", "body", "put", "mkdir", "del", "done"}]
  /\ wire' \in [Runs -> {"none", "sent", "writing", "served"}]
  /\ answer' \in [Runs -> [code : {"none", "200", "201", "404", "500"},
                           body : Held \cup {Absent, Dir, None}]]
OthersStay(p) == \A q \in Runs \ {p} :
  stage'[q] = stage[q] /\ wire'[q] = wire[q] /\ answer'[q] = answer[q] /\ says'[q] = says[q]
OthersTry(p) == \A q \in Runs \ {p} : try'[q] = try[q]

LEMMA EndFacts ==
  ASSUME FetchInv, NEW p \in Runs, NEW msg \in {"success", "error", "exception"}, End(p, msg)
  PROVE  /\ stage'[p] = "done" /\ wire'[p] = "none" /\ answer'[p].code = "none" /\ says'[p] = msg
         /\ StageType /\ says' \in [Runs -> {"nothing", "success", "error", "exception"}]
         /\ OthersStay(p)
<1>1. PageType /\ NoAnswer \in [code : {"none", "200", "201", "404", "500"},
                                body : Held \cup {Absent, Dir, None}]
  BY Parts DEF NoAnswer
<1>2. NoAnswer.code = "none"
  BY DEF NoAnswer
<1> QED BY <1>1, <1>2 DEF End, PageType, StageType, OthersStay

LEMMA FetchFacts ==
  ASSUME FetchInv, NEW p \in Runs, NEW s \in {"get", "put", "mkdir", "del"}, Fetch(p, s), UNCHANGED says
  PROVE  /\ stage'[p] = s /\ wire'[p] = "sent" /\ answer'[p].code = "none"
         /\ StageType /\ try' \in [Runs -> {1, 2}]
         /\ OthersStay(p) /\ OthersTry(p)
<1>1. PageType /\ NoAnswer \in [code : {"none", "200", "201", "404", "500"},
                                body : Held \cup {Absent, Dir, None}]
  BY Parts DEF NoAnswer
<1>2. NoAnswer.code = "none"
  BY DEF NoAnswer
<1> QED BY <1>1, <1>2 DEF Fetch, PageType, StageType, OthersStay, OthersTry

LEMMA ThrownFacts ==
  ASSUME FetchInv, NEW p \in Runs, stage[p] # "idle", Thrown(p)
  PROVE  /\ stage'[p] = "done" /\ wire'[p] = "none" /\ answer'[p].code = "none"
         /\ says'[p] \in {"success", "error", "exception"}
         /\ says'[p] = "success" => cmd[p].op = "nano"
         /\ StageType /\ says' \in [Runs -> {"nothing", "success", "error", "exception"}]
         /\ editor' \in [file : Names \cup {None}, text : Held]
         /\ OthersStay(p)
<1>1. editor \in [file : Names \cup {None}, text : Held] /\ cmd[p].src \in Names /\ Empty \in Held
  BY Parts, TaskType DEF PageType, Held
<1>2. PICK msg \in {"success", "error", "exception"} :
        /\ End(p, msg) /\ (msg = "success" => cmd[p].op = "nano")
        /\ editor' = editor \/ editor' = [file |-> cmd[p].src, text |-> Empty]
  BY DEF Thrown, OpenNano
<1> QED BY <1>1, <1>2, EndFacts

-----------------------------------------------------------------------------
(***************************************************************************)
(* FetchInv, action by action.                                             *)
(***************************************************************************)
LEMMA StartInv ==
  ASSUME FetchInv, NEW p \in Runs, NEW c \in Task, NEW b \in Held \cup {None}, Start(p, c, b),
         c.op \in {"touch", "save"} => b # None,
         c.op \in {"cat", "nano", "cp", "mv"} => b = None
  PROVE  FetchInv'
<1>1. PageType /\ RunType(p) /\ RunFits(p) /\ stage[p] = "idle"
  BY Parts DEF Start
<1>2. FirstFetch(c.op) \in {"get", "put", "mkdir", "del"}
  BY DEF FirstFetch, Task
<1>3. /\ cmd' = [cmd EXCEPT ![p] = c] /\ body' = [body EXCEPT ![p] = b]
      /\ UNCHANGED <<files, editor, says, late, uploads>> /\ Fetch(p, FirstFetch(c.op))
  BY DEF Start
<1>4. clean' \in [Runs -> BOOLEAN]
  <2> DEFINE C(q) == IF q = p THEN /\ \A r \in Runs \ {p} : Running(r) => ~Meet(cmd[r], c)
                                   /\ \A m \in late \cup uploads : m.name \notin NamesOf(c)
                     ELSE clean[q] /\ ~Meet(c, cmd[q])
  <2>1. clean' = [q \in Runs |-> C(q)]
    BY DEF Start
  <2>2. \A q \in Runs : C(q) \in BOOLEAN
    OBVIOUS
  <2> HIDE DEF C
  <2> QED BY <2>1, <2>2
<1>5. /\ stage'[p] = FirstFetch(c.op) /\ wire'[p] = "sent" /\ answer'[p].code = "none"
      /\ StageType /\ try' \in [Runs -> {1, 2}] /\ OthersStay(p) /\ OthersTry(p)
  BY <1>2, <1>3, FetchFacts
<1>6. PageType'
  BY <1>1, <1>3, <1>4, <1>5 DEF PageType, StageType
<1>7. OthersSame(p) /\ cmd'[p] = c /\ body'[p] = b /\ says'[p] = says[p]
  BY <1>1, <1>3, <1>5 DEF PageType, OthersSame, OthersStay, OthersTry
<1>8. RunType(p)'
  BY <1>1, <1>2, <1>5, <1>7 DEF RunType, FirstFetch, Task
<1>9. RunFits(p)'
  BY <1>2, <1>5, <1>7, TerminalAssumption DEF RunFits, FirstFetch, Task, Ok
<1> QED BY <1>1, <1>3, <1>6, <1>7, <1>8, <1>9, StraysStay, UploadsStay, OneRun

LEMMA EnterInv ==
  ASSUME FetchInv, NEW p \in Runs,
         SaveNano(p) \/ \E c \in Commands : Enter(p, c)
  PROVE  FetchInv'
<1>1. None \notin Held /\ Empty \in Held
  BY TerminalAssumption DEF Held
<1>2. CASE SaveNano(p)
  <2>1. /\ editor.file \in Names /\ editor.text \in Held
        /\ Start(p, [op |-> "save", src |-> editor.file, dst |-> editor.file], editor.text)
    BY <1>2, Parts DEF SaveNano, PageType
  <2>2. [op |-> "save", src |-> editor.file, dst |-> editor.file] \in Task
    BY <2>1 DEF Task
  <2> QED BY <1>1, <2>1, <2>2, StartInv
<1>3. ASSUME NEW c \in Commands, Enter(p, c)
      PROVE  FetchInv'
  <2>1. c \in Task /\ c.op # "save"
    BY TerminalAssumption DEF Command, Task
  <2>2. Start(p, c, IF c.op = "touch" THEN Empty ELSE None)
    BY <1>3 DEF Enter
  <2> QED BY <1>1, <2>1, <2>2, StartInv
<1> QED BY <1>2, <1>3

LEMMA EditorInv ==
  ASSUME FetchInv, CloseNano \/ \E t \in Texts : Type(t)
  PROVE  FetchInv'
<1>1. UNCHANGED <<files, cmd, stage, try, wire, answer, body, says, late, uploads, clean>>
  BY DEF CloseNano, Type, local
<1>2. PageType'
  <2>1. editor' \in [file : Names \cup {None}, text : Held]
    BY Parts DEF PageType, CloseNano, Type, Held
  <2> QED BY <1>1, <2>1, Parts DEF PageType
<1> QED BY <1>1, <1>2, Parts DEF LateType, RunType, RunFits, StrayFits, UploadFits, Ok

\* What the kernel may answer and leave.
LEMMA OutcomeFacts ==
  ASSUME NEW n \in Names, files[n] \in Held \cup {Absent, Dir},
         NEW verb \in {"get", "put", "mkdir", "del"}, NEW o \in Outcome(verb, n)
  PROVE  /\ o[1] \in Held \cup {Absent, Dir} /\ o[2] \in {"none", "200", "201", "404", "500"}
         /\ verb = "get" => o[1] = files[n] /\ (o[2] \in {"200", "201"} => o[1] \in Held)
         /\ verb = "put" => \/ o[2] = "none" /\ o[1] = Empty
                            \/ o[2] = "500" /\ o[1] = files[n]
         /\ verb # "put" => o[2] # "none"
         /\ verb = "mkdir" => /\ o[2] \in {"200", "201"} => o[1] = Dir
                              /\ files[n] \in {Absent, Dir} => o[1] \in {files[n], Dir}
         /\ verb = "del" => o[1] \in {Absent, files[n]} /\ (o[2] \in {"200", "201"} => o[1] = Absent)
<1>0. Empty \in Held
  BY DEF Held
<1>1. CASE o = <<files[n], "500">>
  <2>1. o[1] = files[n] /\ o[2] = "500"
    BY <1>1
  <2> QED BY <2>1
<1>2. CASE verb = "get" /\ o # <<files[n], "500">>
  <2>1. files[n] # Dir /\ o = <<files[n], IF files[n] = Absent THEN "404" ELSE "200">>
    BY <1>2 DEF Outcome
  <2>2. o[1] = files[n] /\ o[2] = IF files[n] = Absent THEN "404" ELSE "200"
    BY <2>1
  <2> QED BY <1>2, <2>1, <2>2
<1>3. CASE verb = "put" /\ o # <<files[n], "500">>
  <2>1. o = <<Empty, "none">>
    BY <1>3 DEF Outcome
  <2>2. o[1] = Empty /\ o[2] = "none"
    BY <2>1
  <2> QED BY <1>0, <1>3, <2>2
<1>4. CASE verb = "mkdir" /\ o # <<files[n], "500">>
  <2>1. o = <<Dir, "201">>
    BY <1>4 DEF Outcome
  <2>2. o[1] = Dir /\ o[2] = "201"
    BY <2>1
  <2> QED BY <1>4, <2>2
<1>5. CASE verb = "del" /\ o # <<files[n], "500">>
  <2>1. o = <<Absent, IF files[n] = Absent THEN "404" ELSE "200">>
    BY <1>5 DEF Outcome
  <2>2. o[1] = Absent /\ o[2] = IF files[n] = Absent THEN "404" ELSE "200"
    BY <2>1
  <2> QED BY <1>5, <2>2
<1> QED BY <1>1, <1>2, <1>3, <1>4, <1>5

\* What the end of an upload leaves.
LEMMA WrittenFacts ==
  ASSUME NEW c, NEW b, NEW o \in Written(c, b)
  PROVE  /\ o[1] \in {c, b, Part} /\ o[2] \in {"201", "500"}
         /\ c \in {b, Empty} /\ o[2] = "201" => o[1] = b
<1>1. PICK x, y : o = <<x, y>> /\ x \in {c, b, Part} /\ y \in {"201", "500"}
                  /\ (c \in {b, Empty} /\ y = "201" => x = b)
  BY DEF Written
<1>2. o[1] = x /\ o[2] = y
  BY <1>1
<1> QED BY <1>1, <1>2

\* A request as the page sends it.
Sent(m) == /\ m.from \in Runs /\ m.try \in {1, 2} /\ m.name \in Names
           /\ m.verb \in {"get", "put", "mkdir", "del"}
           /\ m.verb = "put" => m \in Upload

LEMMA HandleFacts ==
  ASSUME FetchInv, NEW m, Sent(m), NEW o \in Outcome(m.verb, m.name), Handle(m, o)
  PROVE  /\ files' \in [Names -> Held \cup {Absent, Dir}] /\ uploads' \subseteq Upload
         /\ files'[m.name] = o[1] /\ \A n \in Names \ {m.name} : files'[n] = files[n]
         /\ o[2] = "none" => m \in uploads'
         /\ \A u \in uploads' :
              \/ u = m /\ m.verb = "put"
              \/ u \in uploads
              \/ /\ m.verb = "del" /\ u.name = None
                 /\ \E v \in uploads : /\ u.from = v.from /\ u.try = v.try /\ u.body = v.body
                                       /\ v.name = m.name
         /\ \A v \in uploads : \E u \in uploads' : u.from = v.from /\ u.try = v.try
         /\ \A v \in uploads : m.verb # "del" \/ v.name # m.name => v \in uploads'
<1>1. files \in [Names -> Held \cup {Absent, Dir}] /\ uploads \subseteq Upload
  BY Parts DEF PageType
<1>2. /\ o[1] \in Held \cup {Absent, Dir} /\ (m.verb # "put" => o[2] # "none")
      /\ m.name \in Names /\ (m.verb = "put" => m \in Upload)
  BY <1>1, OutcomeFacts DEF Sent
<1>3. /\ files' \in [Names -> Held \cup {Absent, Dir}]
      /\ files'[m.name] = o[1] /\ \A n \in Names \ {m.name} : files'[n] = files[n]
  BY <1>1, <1>2 DEF Handle
<1>4. CASE o[2] = "none"
  <2>1. uploads' = uploads \cup {m} /\ m.verb = "put"
    BY <1>2, <1>4 DEF Handle
  <2> QED BY <1>1, <1>2, <1>3, <2>1
<1>5. CASE o[2] # "none" /\ ~(m.verb = "del" /\ o[1] = Absent)
  <2>1. uploads' = uploads
    BY <1>5 DEF Handle
  <2> QED BY <1>1, <1>3, <1>5, <2>1
<1>6. CASE o[2] # "none" /\ m.verb = "del" /\ o[1] = Absent
  <2> DEFINE cut(v) == [v EXCEPT !.name = IF @ = m.name THEN None ELSE @]
  <2>1. uploads' = {cut(v) : v \in uploads}
    BY <1>6 DEF Handle
  <2>2. ASSUME NEW v \in uploads
        PROVE  /\ cut(v) \in Upload /\ cut(v).from = v.from /\ cut(v).try = v.try /\ cut(v).body = v.body
               /\ cut(v).name = IF v.name = m.name THEN None ELSE v.name
               /\ v.name # m.name => cut(v) = v
    BY <1>1 DEF Upload
  <2> HIDE DEF cut
  <2>3. uploads' \subseteq Upload
    BY <2>1, <2>2
  <2>4. ASSUME NEW u \in uploads'
        PROVE  \/ u \in uploads
               \/ /\ u.name = None
                  /\ \E v \in uploads : /\ u.from = v.from /\ u.try = v.try /\ u.body = v.body
                                        /\ v.name = m.name
    <3>1. PICK v \in uploads : u = cut(v)
      BY <2>1
    <3>2. CASE v.name = m.name
      BY <2>2, <3>1, <3>2
    <3>3. CASE v.name # m.name
      BY <2>2, <3>1, <3>3
    <3> QED BY <3>2, <3>3
  <2>5. ASSUME NEW v \in uploads
        PROVE  /\ \E u \in uploads' : u.from = v.from /\ u.try = v.try
               /\ v.name # m.name => v \in uploads'
    BY <2>1, <2>2
  <2> QED BY <1>3, <1>6, <2>3, <2>4, <2>5
<1> QED BY <1>4, <1>5, <1>6

\* The uploads of others stay, and all are what their runs have sent.
LEMMA HandleKeeps ==
  ASSUME FetchInv, NEW m, Sent(m), NEW o \in Outcome(m.verb, m.name), Handle(m, o),
         UNCHANGED <<cmd, stage, body>>, m.verb = "put" => UploadFits(m)
  PROVE  UploadsKept(m.from) /\ \A u \in uploads' : UploadFits(u)'
<1>1. /\ \A u \in uploads' :
           \/ u = m /\ m.verb = "put"
           \/ \E v \in uploads : /\ u.from = v.from /\ u.try = v.try /\ u.body = v.body
                                 /\ u.name \in {v.name, None}
      /\ \A v \in uploads : \E u \in uploads' : u.from = v.from /\ u.try = v.try
  BY HandleFacts
<1>2. \A v \in uploads : UploadFits(v)
  BY Parts
<1>3. ASSUME NEW u \in uploads'
      PROVE  UploadFits(u)'
  BY <1>1, <1>2, <1>3 DEF UploadFits
<1> QED BY <1>1, <1>3 DEF UploadsKept

LEMMA FinishKeeps ==
  ASSUME FetchInv, NEW u \in uploads, NEW o, Finish(u, o), UNCHANGED <<cmd, stage, body>>
  PROVE  UploadsKept(u.from) /\ \A v \in uploads' : UploadFits(v)'
<1>1. uploads' = uploads \ {u}
  BY DEF Finish
<1>2. \A v \in uploads : UploadFits(v)
  BY Parts
<1>3. ASSUME NEW v \in uploads'
      PROVE  UploadFits(v)'
  BY <1>1, <1>2 DEF UploadFits
<1>4. UploadsKept(u.from)
  BY <1>1 DEF UploadsKept
<1> QED BY <1>3, <1>4

\* The upload that is over is gone, and no other.
LEMMA FinishFacts ==
  ASSUME FetchInv, NEW u \in uploads, NEW o \in Written(Content(u), u.body), Finish(u, o)
  PROVE  /\ files' \in [Names -> Held \cup {Absent, Dir}] /\ uploads' \subseteq Upload
         /\ \A n \in Names : files'[n] = IF n = u.name THEN o[1] ELSE files[n]
         /\ o[2] \in {"201", "500"} /\ o[1] \in Held \cup {Absent, Dir}
<1>1. files \in [Names -> Held \cup {Absent, Dir}] /\ u \in Upload /\ Empty \in Held /\ Part \in Held
  BY Parts DEF PageType, Held
<1>2. u.body \in Held /\ Content(u) \in Held \cup {Absent, Dir}
  BY <1>1 DEF Upload, Content
<1>3. o[1] \in Held \cup {Absent, Dir} /\ o[2] \in {"201", "500"}
  BY <1>1, <1>2, WrittenFacts
<1>4. files' = [n \in Names |-> IF n = u.name THEN o[1] ELSE files[n]]
  BY DEF Finish
<1>5. uploads' \subseteq Upload
  BY Parts DEF Finish, PageType
<1> QED BY <1>1, <1>3, <1>4, <1>5

LEMMA ServeInv ==
  ASSUME FetchInv, NEW p \in Runs, Serve(p)
  PROVE  FetchInv'
<1>1. /\ PageType /\ RunType(p) /\ RunFits(p) /\ wire[p] = "sent"
      /\ UNCHANGED <<editor, cmd, stage, try, body, says, late, clean>>
  BY Parts DEF Serve
<1>2. stage[p] \in {"get", "put", "mkdir", "del"} /\ Target(p) \in Names
  BY <1>1, TaskType DEF RunType
<1> DEFINE m == Request(p)
<1>3. /\ m.from = p /\ m.try = try[p] /\ m.verb = stage[p] /\ m.name = Target(p) /\ m.body = body[p]
      /\ Sent(m)
  <2>1. /\ m.from = p /\ m.try = try[p] /\ m.verb = stage[p] /\ m.name = Target(p) /\ m.body = body[p]
    BY DEF Request
  <2>2. m.verb = "put" => m \in Upload
    BY <1>1, <1>2 DEF Request, Upload, PageType, RunType
  <2> QED BY <1>1, <1>2, <2>1, <2>2 DEF Sent, PageType
<1> HIDE DEF m
<1>4. PICK o \in Outcome(m.verb, m.name) :
        /\ Handle(m, o)
        /\ answer' = [answer EXCEPT ![p] =
             [code |-> o[2], body |-> IF stage[p] = "get" THEN o[1] ELSE None]]
        /\ wire' = [wire EXCEPT ![p] = IF o[2] = "none" THEN "writing" ELSE "served"]
  BY <1>3 DEF Serve, m
<1>5. /\ o[1] \in Held \cup {Absent, Dir} /\ o[2] \in {"none", "200", "201", "404", "500"}
      /\ stage[p] = "get" /\ o[2] \in {"200", "201"} => o[1] \in Held
      /\ o[2] = "none" => stage[p] = "put"
  BY <1>1, <1>2, <1>3, OutcomeFacts DEF PageType
<1>6. PageType'
  BY <1>1, <1>3, <1>4, <1>5, HandleFacts DEF PageType
<1>7. /\ wire'[p] = (IF o[2] = "none" THEN "writing" ELSE "served")
      /\ answer'[p].code = o[2] /\ (stage[p] = "get" => answer'[p].body = o[1])
      /\ OthersSame(p)
  BY <1>1, <1>4 DEF PageType, OthersSame
<1>8. RunType(p)' /\ RunFits(p)'
  <2>1. o[2] = "none" => m \in uploads'
    BY <1>3, <1>4, HandleFacts
  <2> QED BY <1>1, <1>2, <1>3, <1>5, <1>7, <2>1 DEF RunType, RunFits, Ok
<1>9. stage[p] \in {"idle", "get", "body"} \/ (/\ cmd'[p] = cmd[p] /\ body'[p] = body[p]
        /\ stage'[p] \notin {"idle", "get", "body"}
        /\ stage[p] \in {"del", "done"} => stage'[p] \in {"del", "done"})
  BY <1>1
<1>10. UploadsKept(p) /\ \A u \in uploads' : u.from = p => UploadFits(u)'
  <2>1. UploadFits(m) \/ m.verb # "put"
    BY <1>1, <1>2, <1>3 DEF UploadFits, RunFits, Target, StoreName
  <2> QED BY <1>1, <1>3, <1>4, <2>1, HandleKeeps
<1> QED BY <1>1, <1>6, <1>7, <1>8, <1>9, <1>10, StraysStay, OneRun

LEMMA WriteInv ==
  ASSUME FetchInv, NEW p \in Runs, Write(p)
  PROVE  FetchInv'
<1>1. /\ PageType /\ RunType(p) /\ RunFits(p) /\ wire[p] = "writing" /\ stage[p] = "put"
      /\ wire' = [wire EXCEPT ![p] = "served"]
      /\ UNCHANGED <<editor, cmd, stage, try, body, says, late, clean>>
  BY Parts DEF Write, RunFits
<1>20. PICK u \in uploads : \E o \in Written(Content(u), u.body) :
        /\ u.from = p /\ Finish(u, o)
        /\ answer' = [answer EXCEPT ![p] =
             [code |-> o[2], body |-> IF stage[p] = "get" THEN o[1] ELSE None]]
  BY DEF Write
<1>2. PICK o \in Written(Content(u), u.body) :
        /\ u.from = p /\ Finish(u, o)
        /\ answer' = [answer EXCEPT ![p] =
             [code |-> o[2], body |-> IF stage[p] = "get" THEN o[1] ELSE None]]
  BY <1>20
<1>3. o[2] \in {"201", "500"}
  BY <1>2, FinishFacts
<1>4. PageType'
  <2>1. files' \in [Names -> Held \cup {Absent, Dir}] /\ uploads' \subseteq Upload
    BY <1>2, FinishFacts
  <2> QED BY <1>1, <1>2, <1>3, <2>1 DEF PageType
<1>5. wire'[p] = "served" /\ OthersSame(p)
  BY <1>1, <1>2 DEF PageType, OthersSame
<1>6. RunType(p)' /\ RunFits(p)'
  BY <1>1, <1>5 DEF RunType, RunFits
<1>7. UploadsKept(p) /\ \A v \in uploads' : UploadFits(v)'
  BY <1>1, <1>2, FinishKeeps
<1> QED BY <1>1, <1>4, <1>5, <1>6, <1>7, StraysStay, OneRun

\* A request that nobody waits for, as its run has sent it.
LEMMA StraySent ==
  ASSUME FetchInv, NEW m \in late
  PROVE  Sent(m) /\ (m.verb = "put" => UploadFits(m))
<1>1. m \in Stray /\ StrayFits(m)
  BY Parts DEF LateType
<1>2. m.verb = "put" => m \in Upload
  BY <1>1 DEF Stray, Upload, StrayFits
<1>3. m.verb = "put" => UploadFits(m)
  BY <1>1 DEF StrayFits, UploadFits
<1> QED BY <1>1, <1>2, <1>3 DEF Sent, Stray

LEMMA CleanType ==
  ASSUME NEW m, NEW harmless \in BOOLEAN, clean \in [Runs -> BOOLEAN]
  PROVE  CleanBut(m, harmless) \in [Runs -> BOOLEAN]
BY DEF CleanBut

LEMMA LatesInv ==
  ASSUME FetchInv, ServeLate \/ WriteLate
  PROVE  FetchInv'
<1>1. UNCHANGED <<editor, cmd, stage, try, wire, answer, body, says>> /\ PageType /\ LateType
  BY Parts DEF ServeLate, WriteLate, local
<1>2. ASSUME NEW q \in Runs, PageType', LateType', late' \subseteq late, UploadsKept(q),
             \A u \in uploads' : UploadFits(u)',
             wire[q] = "writing" => \E u \in uploads' : u.from = q /\ u.try = try[q]
      PROVE  FetchInv'
  <2>1. OthersSame(q)
    BY <1>1 DEF OthersSame
  <2>2. RunType(q) /\ RunFits(q) /\ \A m \in late : StrayFits(m)
    BY Parts
  <2>3. RunType(q)' /\ RunFits(q)'
    BY <1>1, <1>2, <2>2 DEF RunType, RunFits, Ok
  <2>4. \A m \in late' : StrayFits(m)' /\ m \in late
    BY <1>1, <1>2, <2>2 DEF StrayFits
  <2> QED BY <1>2, <2>1, <2>3, <2>4, OneRun
<1>3. CASE ServeLate
  <2>10. PICK m \in late : \E o \in Outcome(m.verb, m.name) :
          Handle(m, o) /\ late' = late \ {m} /\ clean' = CleanBut(m, TRUE)
    BY <1>3 DEF ServeLate
  <2>1. PICK o \in Outcome(m.verb, m.name) :
          Handle(m, o) /\ late' = late \ {m} /\ clean' = CleanBut(m, TRUE)
    BY <2>10
  <2>2. Sent(m) /\ (m.verb = "put" => UploadFits(m)) /\ m.from \in Runs
    BY StraySent DEF Sent
  <2>3. PageType'
    <3>1. clean' \in [Runs -> BOOLEAN]
      BY <1>1, <2>1, CleanType DEF PageType
    <3>2. files' \in [Names -> Held \cup {Absent, Dir}] /\ uploads' \subseteq Upload
      BY <2>1, <2>2, HandleFacts
    <3> QED BY <1>1, <3>1, <3>2 DEF PageType
  <2>4. LateType'
    <3>1. IsFiniteSet(late') /\ Cardinality(late') <= Cardinality(late)
      BY <1>1, <2>1, FS_Subset DEF LateType
    <3>2. Cardinality(late) \in Nat /\ Cardinality(late') \in Nat
      BY <1>1, <3>1, FS_CardinalityType DEF LateType
    <3> QED BY <1>1, <2>1, <3>1, <3>2, TerminalAssumption DEF LateType
  <2>5. UploadsKept(m.from) /\ \A u \in uploads' : UploadFits(u)'
    BY <1>1, <2>1, <2>2, HandleKeeps
  <2>6. wire[m.from] = "writing" => \E u \in uploads' : u.from = m.from /\ u.try = try[m.from]
    <3>1. wire[m.from] = "writing" => \E u \in uploads : u.from = m.from /\ u.try = try[m.from]
      BY <2>2, Parts DEF RunType
    <3>2. \A v \in uploads : \E u \in uploads' : u.from = v.from /\ u.try = v.try
      BY <2>1, <2>2, HandleFacts
    <3> QED BY <3>1, <3>2
  <2>7. late' \subseteq late
    BY <2>1
  <2> QED BY <1>2, <2>2, <2>3, <2>4, <2>5, <2>6, <2>7
<1>4. CASE WriteLate
  <2>10. PICK u \in uploads : \E o \in Written(Content(u), u.body) :
          ~WaitedFor(u) /\ Finish(u, o) /\ late' = late /\ clean' = CleanBut(u, o[1] = u.body)
    BY <1>4 DEF WriteLate
  <2>1. PICK o \in Written(Content(u), u.body) :
          ~WaitedFor(u) /\ Finish(u, o) /\ late' = late /\ clean' = CleanBut(u, o[1] = u.body)
    BY <2>10
  <2>2. u.from \in Runs
    BY <1>1 DEF PageType, Upload
  <2>3. PageType'
    <3>1. clean' \in [Runs -> BOOLEAN]
      BY <1>1, <2>1, CleanType DEF PageType
    <3>2. files' \in [Names -> Held \cup {Absent, Dir}] /\ uploads' \subseteq Upload
      BY <2>1, FinishFacts
    <3> QED BY <1>1, <3>1, <3>2 DEF PageType
  <2>4. LateType' /\ late' \subseteq late
    BY <1>1, <2>1 DEF LateType
  <2>5. UploadsKept(u.from) /\ \A v \in uploads' : UploadFits(v)'
    BY <1>1, <2>1, FinishKeeps
  <2>6. wire[u.from] = "writing" => \E v \in uploads' : v.from = u.from /\ v.try = try[u.from]
    <3>1. wire[u.from] = "writing" => \E v \in uploads : v.from = u.from /\ v.try = try[u.from]
      BY <2>2, Parts DEF RunType
    <3> QED BY <2>1, <3>1 DEF Finish, WaitedFor
  <2> QED BY <1>2, <2>2, <2>3, <2>4, <2>5, <2>6
<1> QED BY <1>3, <1>4

LEMMA RejectedInv ==
  ASSUME FetchInv, NEW p \in Runs, Rejected(p)
  PROVE  FetchInv'
<1>1. /\ PageType /\ RunType(p) /\ RunFits(p) /\ LateType /\ wire[p] # "none"
      /\ UNCHANGED <<files, cmd, body, uploads, clean>>
  BY Parts DEF Rejected
<1>2. stage[p] \in {"get", "put", "mkdir", "del"} /\ Target(p) \in Names
  BY <1>1, TaskType DEF RunType
<1>3. /\ OthersTry(p)
      /\ stage'[p] \in {stage[p], "done"}
      /\ says'[p] # "nothing" => stage'[p] = "done"
      /\ wire'[p] = (IF stage'[p] = "done" THEN "none" ELSE "sent") /\ answer'[p].code = "none"
      /\ StageType /\ OthersStay(p) /\ try' \in [Runs -> {1, 2}]
      /\ says' \in [Runs -> {"nothing", "success", "error", "exception"}]
      /\ editor' \in [file : Names \cup {None}, text : Held]
  <2>1. CASE try[p] = 1
    <3>1. /\ try' = [try EXCEPT ![p] = 2] /\ wire' = [wire EXCEPT ![p] = "sent"]
          /\ answer' = [answer EXCEPT ![p] = NoAnswer] /\ UNCHANGED <<editor, stage, says>>
      BY <2>1 DEF Rejected, Retry
    <3>2. NoAnswer \in [code : {"none", "200", "201", "404", "500"},
                        body : Held \cup {Absent, Dir, None}] /\ NoAnswer.code = "none"
      BY DEF NoAnswer
    <3> QED BY <1>1, <1>2, <3>1, <3>2 DEF PageType, RunType, StageType, OthersStay, OthersTry
  <2>2. CASE try[p] # 1
    <3>1. Thrown(p) /\ UNCHANGED try
      BY <2>2 DEF Rejected, Retry
    <3> QED BY <1>1, <1>2, <3>1, ThrownFacts DEF PageType, OthersTry
  <2> QED BY <2>1, <2>2
<1>4. PageType' /\ OthersSame(p)
  BY <1>1, <1>3 DEF PageType, StageType, OthersSame, OthersStay, OthersTry
<1>5. RunType(p)' /\ RunFits(p)'
  BY <1>1, <1>2, <1>3 DEF RunType, RunFits, Ok
<1>8. UploadsKept(p) /\ \A u \in uploads' : u.from = p => UploadFits(u)'
  <2>1. stage[p] = "get" \/ stage'[p] \notin {"idle", "get", "body"}
    BY <1>2, <1>3
  <2> QED BY <1>1, <2>1, UploadsStay
<1>6. CASE UNCHANGED late
  <2>1. \/ stage[p] \in {"idle", "get", "body"}
        \/ /\ cmd'[p] = cmd[p] /\ body'[p] = body[p]
           /\ stage'[p] \notin {"idle", "get", "body"}
           /\ stage[p] \in {"del", "done"} => stage'[p] \in {"del", "done"}
    BY <1>1, <1>2, <1>3
  <2> QED BY <1>4, <1>5, <1>6, <1>8, <2>1, StraysStay, OneRun
<1>7. CASE ~UNCHANGED late
  <2> PICK m : m = Request(p)
    OBVIOUS
  <2>0. /\ m.from = p /\ m.try = try[p] /\ m.verb = stage[p] /\ m.name = Target(p) /\ m.body = body[p]
        /\ m = [from |-> p, try |-> try[p], verb |-> stage[p], name |-> Target(p), body |-> body[p]]
    BY DEF Request
  <2>1. stage[p] # "get" /\ Cardinality(late) < MaxLate /\ late' = late \cup {m}
    BY <1>7 DEF Rejected
  <2>2. m \in Stray
    BY <1>1, <1>2, <2>0, <2>1 DEF Stray, PageType
  <2>3. LateType'
    <3>1. IsFiniteSet(late') /\ Cardinality(late') \in {Cardinality(late), Cardinality(late) + 1}
      BY <1>1, <2>1, FS_AddElement DEF LateType
    <3>2. Cardinality(late) \in Nat
      BY <1>1, FS_CardinalityType DEF LateType
    <3> QED BY <1>1, <2>1, <2>2, <3>1, <3>2, TerminalAssumption DEF LateType
  <2>4. StrayFits(m)'
    <3>1. stage'[p] \notin {"idle", "get", "body"} /\ (stage[p] = "del" => stage'[p] \in {"del", "done"})
      BY <1>2, <1>3, <2>1
    <3> QED BY <1>1, <1>2, <2>0, <2>1, <3>1 DEF StrayFits, RunFits, RunType, Target, StoreName
  <2>5. ASSUME NEW n \in late', n.from = p
        PROVE  StrayFits(n)'
    <3>1. CASE n = m
      BY <2>4, <3>1
    <3>2. CASE n # m
      <4>1. StrayFits(n)
        BY <2>1, <3>2, Parts
      <4> QED BY <1>1, <1>2, <1>3, <2>1, <2>5, <4>1 DEF StrayFits
    <3> QED BY <3>1, <3>2
  <2>6. \A n \in late' : n.from # p => n \in late
    BY <2>0, <2>1
  <2> QED BY <1>4, <1>5, <1>8, <2>3, <2>5, <2>6, OneRun
<1> QED BY <1>6, <1>7

\* A run that goes on by itself, without a request that is left behind.
LEMMA GoesOn ==
  ASSUME FetchInv, NEW p \in Runs, PageType', OthersStay(p), OthersTry(p),
         UNCHANGED <<cmd, late, uploads>>,
         \A q \in Runs \ {p} : body'[q] = body[q],
         RunType(p)', RunFits(p)', stage[p] # "idle",
         stage'[p] \notin {"idle", "get", "body"} \/ stage[p] = "get",
         stage[p] \in {"get", "body"} \/ body'[p] = body[p],
         stage[p] \in {"del", "done"} => stage'[p] \in {"del", "done"}
  PROVE  FetchInv'
<1>1. OthersSame(p)
  BY DEF OthersSame, OthersStay, OthersTry
<1>2. \/ stage[p] \in {"idle", "get", "body"}
      \/ /\ cmd'[p] = cmd[p] /\ body'[p] = body[p]
         /\ stage'[p] \notin {"idle", "get", "body"}
         /\ stage[p] \in {"del", "done"} => stage'[p] \in {"del", "done"}
  OBVIOUS
<1> QED BY <1>1, <1>2, StraysStay, UploadsStay, OneRun

LEMMA AfterGetInv ==
  ASSUME FetchInv, NEW p \in Runs, AfterGet(p)
  PROVE  FetchInv'
<1>1. /\ PageType /\ RunType(p) /\ RunFits(p) /\ stage[p] = "get"
      /\ UNCHANGED <<files, cmd, try, body, late, uploads, clean>>
  BY Parts DEF AfterGet
<1>2. CASE Ok(p)
  <2>1. /\ stage' = [stage EXCEPT ![p] = "body"] /\ wire' = [wire EXCEPT ![p] = "none"]
        /\ UNCHANGED <<editor, answer, says>>
    BY <1>2 DEF AfterGet
  <2>2. PageType' /\ OthersStay(p) /\ OthersTry(p) /\ stage'[p] = "body" /\ wire'[p] = "none"
    BY <1>1, <2>1 DEF PageType, OthersStay, OthersTry
  <2>3. RunType(p)' /\ RunFits(p)'
    BY <1>1, <1>2, <2>1, <2>2 DEF RunType, RunFits, Ok
  <2> QED BY <1>1, <2>2, <2>3, GoesOn
<1>3. CASE ~Ok(p)
  <2>1. Thrown(p)
    BY <1>3 DEF AfterGet
  <2>2. /\ PageType' /\ OthersStay(p) /\ OthersTry(p) /\ stage'[p] = "done" /\ wire'[p] = "none"
    BY <1>1, <2>1, ThrownFacts DEF PageType, StageType, OthersTry
  <2>3. RunType(p)' /\ RunFits(p)'
    BY <1>1, <2>2 DEF RunType, RunFits, Ok
  <2> QED BY <1>1, <2>2, <2>3, GoesOn
<1> QED BY <1>2, <1>3

LEMMA ReadBodyInv ==
  ASSUME FetchInv, NEW p \in Runs, ReadBody(p)
  PROVE  FetchInv'
<1>1. /\ PageType /\ RunType(p) /\ RunFits(p) /\ stage[p] = "body" /\ answer[p].body \in Held
      /\ UNCHANGED <<files, cmd, late, uploads, clean>>
      /\ body' = [body EXCEPT ![p] = answer[p].body]
      /\ cmd[p].op \in {"cat", "nano", "cp", "mv"} /\ cmd[p].src \in Names /\ cmd[p] # None
  <2>1. RunFits(p) /\ stage[p] = "body"
    BY Parts DEF ReadBody
  <2> QED BY <2>1, Parts, TaskType DEF ReadBody, RunFits
<1>2. /\ body' \in [Runs -> Held \cup {None}] /\ body'[p] \in Held /\ body'[p] # None
      /\ \A q \in Runs \ {p} : body'[q] = body[q]
  BY <1>1, TerminalAssumption DEF PageType
<1>3. CASE cmd[p].op \in {"cat", "nano"}
  <2>1. /\ End(p, "success") /\ UNCHANGED try
        /\ editor' = editor \/ editor' = [file |-> cmd[p].src, text |-> answer[p].body]
    BY <1>3 DEF ReadBody, OpenNano
  <2>2. editor' \in [file : Names \cup {None}, text : Held]
    BY <1>1, <2>1 DEF PageType
  <2>3. PageType' /\ OthersStay(p) /\ OthersTry(p) /\ stage'[p] = "done" /\ wire'[p] = "none"
    <3>1. /\ OthersStay(p) /\ stage'[p] = "done" /\ wire'[p] = "none"
          /\ StageType /\ says' \in [Runs -> {"nothing", "success", "error", "exception"}]
      BY <2>1, EndFacts
    <3> QED BY <1>1, <1>2, <2>1, <2>2, <3>1 DEF PageType, StageType, OthersTry
  <2>4. RunType(p)' /\ RunFits(p)'
    BY <1>1, <1>2, <2>3 DEF RunType, RunFits, Ok
  <2> QED BY <1>1, <1>2, <2>3, <2>4, GoesOn
<1>4. CASE cmd[p].op \in {"cp", "mv"}
  <2>1. Fetch(p, "put") /\ UNCHANGED <<editor, says>>
    BY <1>4 DEF ReadBody
  <2>2. PageType' /\ OthersStay(p) /\ OthersTry(p) /\ stage'[p] = "put" /\ wire'[p] = "sent"
    BY <1>1, <1>2, <2>1, FetchFacts DEF PageType, StageType, OthersTry
  <2>3. RunType(p)' /\ RunFits(p)'
    BY <1>1, <1>2, <1>4, <2>1, <2>2 DEF RunType, RunFits, Ok
  <2> QED BY <1>1, <1>2, <2>2, <2>3, GoesOn
<1> QED BY <1>1, <1>3, <1>4

LEMMA BodyBreaksInv ==
  ASSUME FetchInv, NEW p \in Runs, BodyBreaks(p)
  PROVE  FetchInv'
<1>1. /\ PageType /\ RunType(p) /\ RunFits(p) /\ stage[p] = "body"
      /\ UNCHANGED <<files, cmd, try, body, late, uploads, clean>> /\ Thrown(p)
  BY Parts DEF BodyBreaks
<1>2. PageType' /\ OthersStay(p) /\ OthersTry(p) /\ stage'[p] = "done" /\ wire'[p] = "none"
  BY <1>1, ThrownFacts DEF PageType, StageType, OthersTry
<1>3. RunType(p)' /\ RunFits(p)'
  BY <1>1, <1>2 DEF RunType, RunFits, Ok
<1> QED BY <1>1, <1>2, <1>3, GoesOn

LEMMA AfterPutInv ==
  ASSUME FetchInv, NEW p \in Runs, AfterPut(p) \/ AfterChange(p)
  PROVE  FetchInv'
<1>1. /\ PageType /\ RunType(p) /\ RunFits(p) /\ stage[p] \in {"put", "mkdir", "del"}
      /\ UNCHANGED <<files, editor, cmd, body, late, uploads, clean>>
  BY Parts DEF AfterPut, AfterChange
<1>2. ASSUME NEW msg \in {"success", "error"}, End(p, msg), UNCHANGED try
      PROVE  FetchInv'
  <2>1. PageType' /\ OthersStay(p) /\ OthersTry(p) /\ stage'[p] = "done" /\ wire'[p] = "none"
    BY <1>1, <1>2, EndFacts DEF PageType, StageType, OthersTry
  <2>2. RunType(p)' /\ RunFits(p)'
    BY <1>1, <2>1 DEF RunType, RunFits, Ok
  <2> QED BY <1>1, <2>1, <2>2, GoesOn
<1>3. CASE stage[p] = "put" /\ cmd[p].op = "mv" /\ Ok(p)
  <2>1. Fetch(p, "del") /\ UNCHANGED says
    BY <1>3 DEF AfterPut, AfterChange
  <2>2. PageType' /\ OthersStay(p) /\ OthersTry(p) /\ stage'[p] = "del" /\ wire'[p] = "sent"
    BY <1>1, <2>1, FetchFacts DEF PageType, StageType, OthersTry
  <2>3. RunType(p)' /\ RunFits(p)'
    BY <1>1, <1>3, <2>1, <2>2 DEF RunType, RunFits, Ok
  <2> QED BY <1>1, <1>3, <2>2, <2>3, GoesOn
<1>4. CASE ~(stage[p] = "put" /\ cmd[p].op = "mv" /\ Ok(p))
  BY <1>2, <1>4 DEF AfterPut, AfterChange
<1> QED BY <1>3, <1>4

LEMMA InitFetchInv == Init => FetchInv
<1> SUFFICES ASSUME Init
             PROVE  FetchInv
  OBVIOUS
<1>1. PageType
  BY DEF Init, PageType, Held, NoAnswer
<1>2. LateType
  <2>1. IsFiniteSet({}) /\ Cardinality({}) = 0
    BY FS_EmptySet
  <2> QED BY <2>1, TerminalAssumption DEF Init, LateType
<1>3. \A p \in Runs : RunType(p) /\ RunFits(p)
  BY DEF Init, RunType, RunFits
<1> QED BY <1>1, <1>2, <1>3, Parts DEF Init

LEMMA NextFetchInv ==
  ASSUME FetchInv, [Next]_vars
  PROVE  FetchInv'
<1>1. CASE UNCHANGED vars
  <2>1. UNCHANGED <<files, editor, cmd, stage, try, wire, answer, body, says, late, uploads, clean>>
    BY <1>1 DEF vars, local
  <2> QED BY <2>1, Parts DEF PageType, LateType, RunType, RunFits, StrayFits, UploadFits, Ok
<1>2. CASE Next
  BY <1>2, ServeInv, WriteInv, RejectedInv, AfterGetInv, ReadBodyInv, BodyBreaksInv, AfterPutInv,
     EnterInv, EditorInv, LatesInv DEF Next, Step
<1> QED BY <1>1, <1>2

\* A run waits for a fetch exactly while its request is out, uploads only what
\* it has, and there are no more late requests than the bound.
THEOREM TerminalTypeCorrect == Spec => []TypeOK
<1>1. Init => FetchInv
  BY InitFetchInv
<1>2. FetchInv /\ [Next]_vars => FetchInv'
  BY NextFetchInv
<1>3. FetchInv => TypeOK
  BY DEF FetchInv
<1> QED BY <1>1, <1>2, <1>3, PTL DEF Spec

-----------------------------------------------------------------------------
(***************************************************************************)
(* Undisturbed runs.  First the steps that are not a run's own.            *)
(***************************************************************************)
LEMMA SoFarKept ==
  ASSUME NEW p \in Runs, RunSoFar(p), cmd[p] # None,
         /\ cmd'[p] = cmd[p] /\ stage'[p] = stage[p] /\ wire'[p] = wire[p]
         /\ answer'[p] = answer[p] /\ body'[p] = body[p] /\ says'[p] = says[p],
         \A n \in NamesOf(cmd[p]) : files'[n] = files[n],
         \A u : u.from = p => (u \in uploads' <=> u \in uploads),
         \A m \in late' : m.from = p => m \in late
  PROVE  RunSoFar(p)'
<1>1. /\ files'[cmd[p].src] = files[cmd[p].src]
      /\ cmd[p].op \in {"cp", "mv"} => files'[cmd[p].dst] = files[cmd[p].dst]
      /\ files'[StoreName(cmd[p])] = files[StoreName(cmd[p])]
  BY DEF NamesOf, StoreName
<1>2. Stored(p)' <=> Stored(p)
  BY <1>1 DEF Stored
<1> QED BY <1>1, <1>2 DEF RunSoFar, Ok

\* A run that changes something and meets no other has its names for itself.
LEMMA NamesApart ==
  ASSUME FetchInv, NEW p \in Runs, NEW q \in Runs, ~ReadsOnly(cmd[p]), stage[q] # "idle",
         ~Meet(cmd[q], cmd[p])
  PROVE  cmd[p] # None /\ Target(q) \notin NamesOf(cmd[p])
<1>1. cmd[p] # None /\ NamesOf(cmd[q]) \cap NamesOf(cmd[p]) = {}
  BY DEF Meet, ReadsOnly
<1>2. Target(q) \in NamesOf(cmd[q])
  BY TaskType DEF Target, NamesOf
<1> QED BY <1>1, <1>2

\* A request for another file leaves its uploads alone.
LEMMA HandleOthers ==
  ASSUME FetchInv, NEW m, Sent(m), NEW o \in Outcome(m.verb, m.name), Handle(m, o),
         NEW p \in Runs, m.from # p, m.name \notin NamesOf(cmd[p])
  PROVE  \A u : u.from = p => (u \in uploads' <=> u \in uploads)
<1>1. ASSUME NEW v \in uploads, v.from = p
      PROVE  v.name # m.name
  <2>1. UploadFits(v) /\ RunFits(p)
    BY Parts
  <2>2. cmd[p] # None
    BY <1>1, <2>1 DEF UploadFits, RunFits
  <2>3. v.name = None \/ v.name \in NamesOf(cmd[p])
    BY <1>1, <2>1, <2>2 DEF UploadFits, StoreName, NamesOf
  <2> QED BY <2>3, TerminalAssumption DEF Sent
<1>2. /\ \A u \in uploads' :
           \/ u = m
           \/ u \in uploads
           \/ \E v \in uploads : u.from = v.from /\ v.name = m.name
      /\ \A v \in uploads : v.name # m.name => v \in uploads'
  BY HandleFacts
<1> QED BY <1>1, <1>2

\* What a step of a run leaves alone.
LEMMA StepFacts ==
  ASSUME FetchInv, NEW q \in Runs, Step(q)
  PROVE  /\ Running(q) /\ UNCHANGED <<cmd, clean>> /\ OthersSame(q)
         /\ \A n \in Names \ {Target(q)} : files'[n] = files[n]
         /\ \A m \in late' : m.from # q => m \in late
         /\ late \subseteq late'
<1>1. PageType /\ RunType(q) /\ RunFits(q)
  BY Parts
<1>2. CASE Serve(q)
  <2>1. /\ Request(q).verb = stage[q] /\ Request(q).name = Target(q) /\ wire[q] = "sent"
    BY <1>2 DEF Serve, Request
  <2>2. \A n \in Names \ {Target(q)} : files'[n] = files[n]
    BY <1>1, <1>2, <2>1 DEF Serve, Handle, PageType
  <2> QED BY <1>1, <1>2, <2>2 DEF Serve, PageType, RunType, Running, OthersSame
<1>8. CASE Write(q)
  <2>1. /\ stage[q] = "put" /\ \E u \in uploads : u.from = q /\ \E o : Finish(u, o)
    BY <1>1, <1>8 DEF Write, RunFits
  <2>2. \A u \in uploads : u.from = q => u.name \in {Target(q), None}
    BY <2>1, Parts DEF UploadFits, StoreName, Target
  <2>3. \A n \in Names \ {Target(q)} : files'[n] = files[n]
    BY <2>1, <2>2, TerminalAssumption DEF Finish
  <2> QED BY <1>1, <1>8, <2>1, <2>3 DEF Write, PageType, Running, OthersSame
<1>3. CASE Rejected(q)
  <2>1. /\ wire[q] # "none" /\ UNCHANGED <<files, cmd, body, clean>>
        /\ late' = late \/ late' = late \cup {Request(q)}
    BY <1>3 DEF Rejected
  <2>2. \A m \in late' : m.from # q => m \in late
    BY <2>1 DEF Request
  <2>3. /\ stage[q] # "idle" /\ Running(q) /\ late \subseteq late'
    BY <1>1, <2>1 DEF RunType, Running
  <2>4. OthersStay(q) /\ OthersTry(q)
    <3>1. CASE try[q] = 1
      BY <1>1, <1>3, <3>1 DEF Rejected, Retry, PageType, OthersStay, OthersTry
    <3>2. CASE try[q] # 1
      BY <1>3, <2>3, <3>2, ThrownFacts DEF Rejected, Retry, OthersTry
    <3> QED BY <3>1, <3>2
  <2> QED BY <2>1, <2>2, <2>3, <2>4 DEF OthersSame, OthersStay, OthersTry
<1>4. CASE AfterGet(q)
  <2>1. stage[q] = "get" /\ UNCHANGED <<files, cmd, try, body, clean, late>>
    BY <1>4 DEF AfterGet
  <2>2. OthersStay(q) /\ OthersTry(q)
    <3>1. CASE Ok(q)
      BY <1>1, <1>4, <3>1 DEF AfterGet, PageType, OthersStay, OthersTry
    <3>2. CASE ~Ok(q)
      BY <1>4, <2>1, <3>2, ThrownFacts DEF AfterGet, OthersTry
    <3> QED BY <3>1, <3>2
  <2> QED BY <2>1, <2>2 DEF OthersSame, OthersStay, OthersTry, Running
<1>5. CASE BodyBreaks(q)
  <2>1. stage[q] = "body" /\ UNCHANGED <<files, cmd, try, body, clean, late>> /\ Thrown(q)
    BY <1>5 DEF BodyBreaks
  <2>2. OthersStay(q) /\ OthersTry(q)
    BY <2>1, ThrownFacts DEF OthersTry
  <2> QED BY <2>1, <2>2 DEF OthersSame, OthersStay, OthersTry, Running
<1>6. CASE ReadBody(q)
  <2>1. /\ stage[q] = "body" /\ UNCHANGED <<files, cmd, clean, late>>
        /\ body' = [body EXCEPT ![q] = answer[q].body]
        /\ (End(q, "success") /\ UNCHANGED try) \/ (Fetch(q, "put") /\ UNCHANGED says)
    BY <1>6 DEF ReadBody, OpenNano
  <2>2. OthersStay(q) /\ OthersTry(q)
    BY <2>1, EndFacts, FetchFacts DEF OthersTry
  <2> QED BY <1>1, <2>1, <2>2 DEF OthersSame, OthersStay, OthersTry, Running, PageType
<1>7. CASE AfterPut(q) \/ AfterChange(q)
  <2>1. /\ stage[q] \in {"put", "mkdir", "del"} /\ UNCHANGED <<files, cmd, body, clean, late>>
        /\ \/ Fetch(q, "del") /\ UNCHANGED says
           \/ End(q, "success") /\ UNCHANGED try
           \/ End(q, "error") /\ UNCHANGED try
    BY <1>7 DEF AfterPut, AfterChange
  <2>2. OthersStay(q) /\ OthersTry(q)
    BY <2>1, EndFacts, FetchFacts DEF OthersTry
  <2> QED BY <2>1, <2>2 DEF OthersSame, OthersStay, OthersTry, Running
<1> QED BY <1>2, <1>3, <1>4, <1>5, <1>6, <1>7, <1>8 DEF Step

\* The uploads of the others stay, unless their files are touched.
LEMMA StepUploads ==
  ASSUME FetchInv, NEW q \in Runs, Step(q), NEW p \in Runs \ {q}, Target(q) \notin NamesOf(cmd[p])
  PROVE  \A u : u.from = p => (u \in uploads' <=> u \in uploads)
<1>1. CASE Serve(q)
  <2>1. /\ wire[q] = "sent" /\ PageType /\ RunType(q)
    BY <1>1, Parts DEF Serve
  <2> DEFINE m == Request(q)
  <2>2. /\ m.from = q /\ m.verb = stage[q] /\ m.name = Target(q) /\ Sent(m)
    <3>1. stage[q] \in {"get", "put", "mkdir", "del"} /\ Target(q) \in Names
      BY <2>1, TaskType DEF RunType
    <3> QED BY <2>1, <3>1 DEF Request, Sent, Upload, PageType, RunType
  <2>3. PICK o \in Outcome(m.verb, m.name) : Handle(m, o)
    BY <1>1, <2>2 DEF Serve
  <2> HIDE DEF m
  <2> QED BY <2>2, <2>3, HandleOthers
<1>2. CASE Write(q)
  BY <1>2 DEF Write, Finish
<1>3. CASE ~Serve(q) /\ ~Write(q)
  <2>1. uploads' = uploads
    BY <1>3 DEF Step, Rejected, AfterGet, ReadBody, BodyBreaks, AfterPut, AfterChange
  <2> QED BY <2>1
<1> QED BY <1>1, <1>2, <1>3

-----------------------------------------------------------------------------
(***************************************************************************)
(* Then its own steps.                                                     *)
(***************************************************************************)
Undisturbed(p) == FetchInv /\ ~ReadsOnly(cmd[p]) /\ RunSoFar(p)

\* The name a run stores its body under, and whether it does not remove it itself.
Store(p) == StoreName(cmd[p])
Lasts(p) == cmd[p].op # "mv" \/ cmd[p].src # cmd[p].dst

\* What a run stores stays stored if its file and its uploads stay.
LEMMA StoredSame ==
  ASSUME NEW p \in Runs, cmd'[p] = cmd[p], body'[p] = body[p],
         files'[Store(p)] = files[Store(p)],
         \A u : u.from = p => (u \in uploads' <=> u \in uploads)
  PROVE  Stored(p)' <=> Stored(p)
BY DEF Stored, Store

\* A request that is no upload and removes nothing that the run stores.
LEMMA OwnUploads ==
  ASSUME FetchInv, NEW m, Sent(m), NEW o \in Outcome(m.verb, m.name), Handle(m, o),
         NEW p \in Runs, RunSoFar(p), Lasts(p), m.verb # "put",
         m.verb = "del" => cmd[p].op \in {"rm", "mv"} /\ m.name = cmd[p].src
  PROVE  \A u : u.from = p => (u \in uploads' <=> u \in uploads)
<1>1. ASSUME NEW v \in uploads, v.from = p
      PROVE  m.verb # "del" \/ v.name # m.name
  <2>1. UploadFits(v) /\ v.name = StoreName(cmd[p])
    BY <1>1, Parts DEF RunSoFar, Lasts
  <2>2. m.verb = "del" => cmd[p].op = "mv" /\ cmd[p].src # cmd[p].dst
    BY <1>1, <2>1 DEF UploadFits, Lasts
  <2> QED BY <2>1, <2>2 DEF StoreName
<1>2. /\ \A u \in uploads' :
           \/ u \in uploads
           \/ m.verb = "del" /\ \E v \in uploads : u.from = v.from /\ v.name = m.name
      /\ \A v \in uploads : m.verb # "del" \/ v.name # m.name => v \in uploads'
  BY HandleFacts
<1> QED BY <1>1, <1>2

LEMMA OwnServe ==
  ASSUME NEW p \in Runs, Undisturbed(p), Serve(p)
  PROVE  RunSoFar(p)'
<1>1. /\ PageType /\ RunType(p) /\ RunFits(p) /\ wire[p] = "sent" /\ RunSoFar(p) /\ FetchInv
      /\ UNCHANGED <<editor, cmd, stage, try, body, says, late, clean>>
  BY Parts DEF Serve, Undisturbed
<1>2. /\ stage[p] \in {"get", "put", "mkdir", "del"} /\ Target(p) \in Names
      /\ cmd[p].src \in Names /\ cmd[p].dst \in Names
  BY <1>1, TaskType DEF RunType
<1> DEFINE m == Request(p)
<1>3. /\ m.from = p /\ m.verb = stage[p] /\ m.name = Target(p) /\ Sent(m)
  BY <1>1, <1>2 DEF Request, Sent, Upload, PageType, RunType
<1>4. PICK o \in Outcome(m.verb, m.name) :
        /\ Handle(m, o)
        /\ answer' = [answer EXCEPT ![p] =
             [code |-> o[2], body |-> IF stage[p] = "get" THEN o[1] ELSE None]]
        /\ wire' = [wire EXCEPT ![p] = IF o[2] = "none" THEN "writing" ELSE "served"]
  BY <1>3 DEF Serve
<1> HIDE DEF m
<1>5. /\ stage[p] = "get" => o[1] = files[Target(p)]
      /\ stage[p] = "put" => (o[2] = "none" /\ o[1] = Empty) \/ (o[2] = "500" /\ o[1] = files[Target(p)])
      /\ stage[p] = "mkdir" /\ o[2] \in {"200", "201"} => o[1] = Dir
      /\ stage[p] = "del" /\ o[2] \in {"200", "201"} => o[1] = Absent
      /\ stage[p] # "put" => o[2] # "none"
  BY <1>1, <1>2, <1>3, OutcomeFacts DEF PageType
<1>6. /\ says[p] = "nothing"
      /\ wire'[p] = (IF o[2] = "none" THEN "writing" ELSE "served")
      /\ answer'[p].code = o[2] /\ (stage[p] = "get" => answer'[p].body = o[1])
  BY <1>1, <1>2, <1>4 DEF RunType, PageType
<1>7. \A n \in late' : n.from = p /\ n.verb = "del" => stage[p] \in {"del", "done"}
  BY <1>1, Parts DEF StrayFits
<1>8. files'[Target(p)] = o[1] /\ \A n \in Names \ {Target(p)} : files'[n] = files[n]
  BY <1>1, <1>3, <1>4, HandleFacts
<1>9. CASE stage[p] = "put"
  <2>1. Target(p) = StoreName(cmd[p])
    BY <1>9 DEF Target, StoreName
  <2>2. cmd[p].op \in {"cp", "mv"} /\ cmd[p].src # cmd[p].dst => files'[cmd[p].src] = body[p]
    BY <1>1, <1>2, <1>8, <1>9, <2>1 DEF RunSoFar, StoreName
  <2>3. Lasts(p) => \A u \in uploads' : u.from = p => u.name = StoreName(cmd[p])
    <3>1. \A u \in uploads' : u = m \/ u \in uploads
      BY <1>1, <1>3, <1>4, <1>9, HandleFacts
    <3>2. Lasts(p) => \A u \in uploads : u.from = p => u.name = StoreName(cmd[p])
      BY <1>1 DEF RunSoFar, Lasts
    <3> QED BY <1>3, <2>1, <3>1, <3>2
  <2>4. CASE o[2] = "none"
    <3>1. m \in uploads' /\ files'[StoreName(cmd[p])] = Empty
      BY <1>1, <1>3, <1>4, <1>5, <1>8, <1>9, <2>1, <2>4, HandleFacts
    <3>2. Stored(p)'
      BY <1>1, <1>3, <2>1, <3>1 DEF Stored
    <3> QED BY <1>1, <1>6, <1>7, <1>9, <2>2, <2>3, <3>2 DEF RunSoFar, Lasts
  <2>5. CASE o[2] # "none"
    <3>1. wire'[p] = "served" /\ ~Ok(p)'
      BY <1>5, <1>6, <1>9, <2>5 DEF Ok
    <3> QED BY <1>1, <1>6, <1>7, <1>9, <2>2, <2>3, <3>1 DEF RunSoFar, Lasts
  <2> QED BY <2>4, <2>5
<1>10. CASE stage[p] # "put"
  <2>1. /\ Target(p) = cmd[p].src /\ wire'[p] = "served"
        /\ stage[p] = "del" => cmd[p].op \in {"rm", "mv"}
    BY <1>1, <1>5, <1>6, <1>10 DEF Target, RunFits
  <2>2. Lasts(p) => \A u : u.from = p => (u \in uploads' <=> u \in uploads)
    BY <1>1, <1>3, <1>4, <1>10, <2>1, OwnUploads
  <2>3. Lasts(p) => \A u \in uploads' : u.from = p => u.name = StoreName(cmd[p])
    BY <1>1, <2>2 DEF RunSoFar, Lasts
  <2>4. CASE stage[p] = "get"
    BY <1>1, <1>2, <1>5, <1>6, <1>7, <1>8, <2>1, <2>3, <2>4 DEF RunSoFar, Lasts
  <2>5. CASE stage[p] = "mkdir"
    BY <1>1, <1>5, <1>6, <1>7, <1>8, <2>1, <2>3, <2>5 DEF RunSoFar, Ok, Lasts
  <2>6. CASE stage[p] = "del"
    <3>1. cmd[p].op \in {"cp", "mv"} /\ cmd[p].src # cmd[p].dst => (Stored(p)' <=> Stored(p))
      <4>1. cmd[p].op \in {"cp", "mv"} /\ cmd[p].src # cmd[p].dst
            => files'[Store(p)] = files[Store(p)] /\ Lasts(p)
        BY <1>2, <1>8, <2>1 DEF Store, StoreName, Lasts
      <4> QED BY <1>1, <2>2, <4>1, StoredSame
    <3> QED BY <1>1, <1>5, <1>6, <1>8, <2>1, <2>3, <2>6, <3>1 DEF RunSoFar, Ok, Lasts
  <2> QED BY <1>2, <1>10, <2>4, <2>5, <2>6
<1> QED BY <1>9, <1>10

LEMMA OwnWrite ==
  ASSUME NEW p \in Runs, Undisturbed(p), Write(p)
  PROVE  RunSoFar(p)'
<1>1. /\ PageType /\ RunType(p) /\ RunFits(p) /\ wire[p] = "writing" /\ stage[p] = "put"
      /\ RunSoFar(p) /\ FetchInv /\ wire' = [wire EXCEPT ![p] = "served"]
      /\ UNCHANGED <<editor, cmd, stage, try, body, says, late, clean>>
  BY Parts DEF Write, RunFits, Undisturbed
<1>20. PICK u \in uploads : \E o \in Written(Content(u), u.body) :
        /\ u.from = p /\ Finish(u, o)
        /\ answer' = [answer EXCEPT ![p] =
             [code |-> o[2], body |-> IF stage[p] = "get" THEN o[1] ELSE None]]
  BY DEF Write
<1>2. PICK o \in Written(Content(u), u.body) :
        /\ u.from = p /\ Finish(u, o)
        /\ answer' = [answer EXCEPT ![p] =
             [code |-> o[2], body |-> IF stage[p] = "get" THEN o[1] ELSE None]]
  BY <1>20
<1>3. /\ u.body = body[p] /\ u.name \in {StoreName(cmd[p]), None} /\ cmd[p].src \in Names
      /\ StoreName(cmd[p]) \in Names
  BY <1>1, <1>2, Parts, TaskType DEF UploadFits, StoreName
<1>4. /\ \A n \in Names : files'[n] = IF n = u.name THEN o[1] ELSE files[n]
      /\ uploads' = uploads \ {u}
  BY <1>1, <1>2, FinishFacts DEF Finish
<1>5. says[p] = "nothing" /\ wire'[p] = "served" /\ answer'[p].code = o[2]
  BY <1>1, <1>2 DEF RunType, PageType
<1>6. \A n \in late' : n.from = p => n.verb # "del"
  BY <1>1, Parts DEF StrayFits
<1>7. cmd[p].op \in {"cp", "mv"} /\ cmd[p].src # cmd[p].dst => files'[cmd[p].src] = body[p]
  BY <1>1, <1>3, <1>4, TerminalAssumption DEF RunSoFar, StoreName
<1>8. Lasts(p) => \A v \in uploads' : v.from = p => v.name = StoreName(cmd[p])
  BY <1>1, <1>4 DEF RunSoFar, Lasts
<1>9. Lasts(p) /\ Ok(p)' => Stored(p)'
  <2> SUFFICES ASSUME Lasts(p), Ok(p)' PROVE Stored(p)'
    OBVIOUS
  <2>1. u.name = StoreName(cmd[p]) /\ Stored(p) /\ u.name # None
    BY <1>1, <1>2, <1>3, TerminalAssumption DEF RunSoFar, Lasts
  <2>2. Content(u) \in {body[p], Empty}
    BY <2>1 DEF Stored, Content
  <2>3. o[2] = "201"
    BY <1>1, <1>2, <1>5, FinishFacts DEF Ok
  <2>4. o[1] = body[p]
    BY <1>3, <2>2, <2>3, WrittenFacts
  <2>5. files'[StoreName(cmd[p])] = body[p]
    BY <1>3, <1>4, <2>1, <2>4
  <2> QED BY <1>1, <2>5 DEF Stored
<1> QED BY <1>1, <1>5, <1>6, <1>7, <1>8, <1>9 DEF RunSoFar, Lasts

\* The steps below leave the files alone; those that end a run close with this.
LEMMA OwnEnd ==
  ASSUME NEW p \in Runs, Undisturbed(p), stage[p] \in {"get", "body", "put", "mkdir", "del"},
         UNCHANGED <<files, cmd, body, uploads>>, stage'[p] = "done",
         says'[p] = "success" =>
           /\ Ok(p) \/ cmd[p].op = "touch"
           /\ stage[p] \in {"put", "mkdir", "del"} /\ wire[p] = "served"
           /\ cmd[p].op = "mv" => stage[p] = "del",
         \A m \in late' : m \in late \/ (m.verb = "del" => stage[p] = "del")
  PROVE  RunSoFar(p)'
<1>1. RunType(p) /\ RunFits(p) /\ RunSoFar(p) /\ cmd[p].op \notin {"cat", "nano"}
  BY Parts DEF Undisturbed, ReadsOnly
<1>2. \A m \in late : m.from = p /\ m.verb = "del" => stage[p] = "del"
  BY Parts DEF StrayFits, Undisturbed
<1>3. /\ stage[p] \in {"get", "body"} => body[p] = None /\ cmd[p].op \in {"cp", "mv"}
      /\ stage[p] = "put" => cmd[p].op \in {"touch", "save", "cp", "mv"} /\ body[p] # None
      /\ stage[p] = "mkdir" => cmd[p].op = "mkdir"
      /\ stage[p] = "del" => cmd[p].op \in {"rm", "mv"} /\ (cmd[p].op = "mv" => body[p] # None)
  BY <1>1 DEF RunType, RunFits
<1>8. Stored(p)' <=> Stored(p)
  BY DEF Stored
<1>4. CASE stage[p] \in {"get", "body"}
  BY <1>1, <1>2, <1>3, <1>4, <1>8 DEF RunSoFar
<1>5. CASE stage[p] = "put"
  BY <1>1, <1>2, <1>3, <1>5, <1>8 DEF RunSoFar
<1>6. CASE stage[p] = "mkdir"
  BY <1>1, <1>2, <1>3, <1>6, <1>8 DEF RunSoFar
<1>7. CASE stage[p] = "del"
  BY <1>1, <1>2, <1>3, <1>7, <1>8 DEF RunSoFar
<1> QED BY <1>4, <1>5, <1>6, <1>7

LEMMA OwnRejected ==
  ASSUME NEW p \in Runs, Undisturbed(p), Rejected(p)
  PROVE  RunSoFar(p)'
<1>1. /\ FetchInv /\ RunType(p) /\ RunFits(p) /\ RunSoFar(p) /\ wire[p] # "none" /\ PageType
      /\ UNCHANGED <<files, cmd, body, uploads>>
      /\ late' = late \/ late' = late \cup {Request(p)}
  BY Parts DEF Rejected, Undisturbed
<1>2. stage[p] \in {"get", "put", "mkdir", "del"} /\ \A m \in late' : m \in late \/ m.verb = stage[p]
  BY <1>1 DEF RunType, Request
<1>5. Stored(p)' <=> Stored(p)
  BY <1>1 DEF Stored
<1>3. CASE try[p] = 1
  <2>1. stage'[p] = stage[p] /\ wire'[p] = "sent" /\ says'[p] = "nothing"
    BY <1>1, <1>2, <1>3 DEF Rejected, Retry, PageType, RunType
  <2>2. stage[p] # "del" => \A m \in late' : m.from = p => m.verb # "del"
    BY <1>1, <1>2, Parts DEF StrayFits
  <2> QED BY <1>1, <1>2, <1>5, <2>1, <2>2 DEF RunSoFar
<1>4. CASE try[p] # 1
  <2>1. Thrown(p)
    BY <1>4 DEF Rejected, Retry
  <2>2. stage'[p] = "done" /\ says'[p] # "success"
    BY <1>1, <1>2, <2>1, ThrownFacts DEF Undisturbed, ReadsOnly
  <2> QED BY <1>1, <1>2, <2>2, OwnEnd
<1> QED BY <1>3, <1>4

LEMMA OwnGet ==
  ASSUME NEW p \in Runs, Undisturbed(p), AfterGet(p) \/ ReadBody(p) \/ BodyBreaks(p)
  PROVE  RunSoFar(p)'
<1>1. /\ FetchInv /\ RunType(p) /\ RunFits(p) /\ RunSoFar(p) /\ PageType
      /\ stage[p] \in {"get", "body"} /\ cmd[p].op \in {"cp", "mv"} /\ UNCHANGED <<files, cmd, late, uploads>>
  <2>1. /\ FetchInv /\ RunType(p) /\ RunFits(p) /\ RunSoFar(p) /\ PageType
        /\ stage[p] \in {"get", "body"} /\ UNCHANGED <<files, cmd, late, uploads>>
    BY Parts DEF AfterGet, ReadBody, BodyBreaks, Undisturbed
  <2> QED BY <2>1 DEF RunFits, Undisturbed, ReadsOnly
<1>2. says[p] = "nothing" /\ (\A m \in late' : m.from # p) /\ \A u \in uploads' : u.from # p
  BY <1>1, Parts DEF RunType, PageType, StrayFits, UploadFits
<1>3. CASE Thrown(p) /\ UNCHANGED body
  <2>1. stage'[p] = "done" /\ says'[p] # "success"
    BY <1>1, <1>3, ThrownFacts
  <2> QED BY <1>1, <1>3, <2>1, OwnEnd
<1>4. CASE AfterGet(p) /\ Ok(p)
  <2>1. /\ stage[p] = "get" /\ wire[p] = "served" /\ UNCHANGED <<answer, says, body>>
        /\ stage'[p] = "body"
    BY <1>1, <1>4 DEF AfterGet, PageType
  <2> QED BY <1>1, <1>2, <1>4, <2>1 DEF RunSoFar
<1>5. CASE ReadBody(p)
  <2>1. stage[p] = "body" /\ Fetch(p, "put") /\ UNCHANGED says /\ body'[p] = answer[p].body
    BY <1>1, <1>5 DEF ReadBody, PageType
  <2>2. stage'[p] = "put" /\ wire'[p] = "sent"
    BY <1>1, <2>1, FetchFacts
  <2> QED BY <1>1, <1>2, <2>1, <2>2 DEF RunSoFar
<1> QED BY <1>3, <1>4, <1>5 DEF AfterGet, BodyBreaks

LEMMA OwnPut ==
  ASSUME NEW p \in Runs, Undisturbed(p), AfterPut(p) \/ AfterChange(p)
  PROVE  RunSoFar(p)'
<1>1. /\ FetchInv /\ RunType(p) /\ RunFits(p) /\ RunSoFar(p) /\ wire[p] = "served" /\ PageType
      /\ stage[p] \in {"put", "mkdir", "del"} /\ UNCHANGED <<files, cmd, body, late, uploads>>
  BY Parts DEF AfterPut, AfterChange, Undisturbed
<1>4. Stored(p)' <=> Stored(p)
  BY <1>1 DEF Stored
<1>2. CASE stage[p] = "put" /\ cmd[p].op = "mv" /\ Ok(p)
  <2>1. Fetch(p, "del") /\ UNCHANGED says
    BY <1>2 DEF AfterPut, AfterChange
  <2>2. stage'[p] = "del" /\ wire'[p] = "sent" /\ says'[p] = "nothing"
    BY <1>1, <2>1, FetchFacts DEF RunType, PageType
  <2>3. cmd[p].src # cmd[p].dst => Stored(p)
    BY <1>1, <1>2 DEF RunSoFar
  <2> QED BY <1>1, <1>2, <1>4, <2>2, <2>3 DEF RunSoFar
<1>3. CASE ~(stage[p] = "put" /\ cmd[p].op = "mv" /\ Ok(p))
  <2>1. PICK msg \in {"success", "error"} :
          /\ End(p, msg)
          /\ msg = "success" => \/ Ok(p)
                                \/ cmd[p].op = "touch"
                                \/ cmd[p].op = "mv" /\ stage[p] = "del"
    <3>1. cmd[p].op = "mv" => stage[p] # "mkdir"
      BY <1>1 DEF RunFits
    <3>2. CASE AfterPut(p)
      BY <1>3, <3>2 DEF AfterPut
    <3>3. CASE AfterChange(p)
      BY <3>1, <3>3 DEF AfterChange
    <3> QED BY <3>2, <3>3
  <2>2. stage'[p] = "done" /\ says'[p] = msg
    BY <1>1, <2>1, EndFacts
  <2>3. CASE cmd[p].op = "mv" /\ stage[p] = "del"
    <3>1. body[p] # None /\ (cmd[p].src # cmd[p].dst => Stored(p))
      BY <1>1, <2>3 DEF RunSoFar, RunFits
    <3> QED BY <1>1, <1>4, <2>2, <2>3, <3>1 DEF RunSoFar
  <2>4. CASE ~(cmd[p].op = "mv" /\ stage[p] = "del")
    <3>1. msg = "success" => (Ok(p) \/ cmd[p].op = "touch") /\ (cmd[p].op = "mv" => stage[p] = "del")
      <4>1. cmd[p].op = "mv" => stage[p] = "put"
        BY <1>1, <2>4 DEF RunFits
      <4> QED BY <1>3, <2>1, <2>4, <4>1
    <3> QED BY <1>1, <2>2, <3>1, OwnEnd
  <2> QED BY <2>3, <2>4
<1> QED BY <1>2, <1>3

LEMMA OwnStep ==
  ASSUME NEW p \in Runs, Undisturbed(p), Step(p)
  PROVE  RunSoFar(p)'
  BY OwnServe, OwnWrite, OwnRejected, OwnGet, OwnPut DEF Step

-----------------------------------------------------------------------------
LEMMA StepRuns ==
  ASSUME FetchInv, RunInv, NEW q \in Runs, Step(q)
  PROVE  RunInv'
<1> SUFFICES ASSUME NEW p \in Runs, clean'[p], ~ReadsOnly(cmd'[p])
             PROVE  /\ \A r \in Runs \ {p} : Running(r)' => ~Meet(cmd'[r], cmd'[p])
                    /\ RunSoFar(p)'
  BY DEF RunInv, Meet, ReadsOnly, NamesOf
<1>1. /\ Running(q) /\ UNCHANGED <<cmd, clean>> /\ OthersSame(q)
      /\ \A n \in Names \ {Target(q)} : files'[n] = files[n]
      /\ \A m \in late' : m.from # q => m \in late
  BY StepFacts
<1>2. /\ \A r \in Runs \ {p} : Running(r) => ~Meet(cmd[r], cmd[p])
      /\ RunSoFar(p) /\ ~ReadsOnly(cmd[p])
  BY <1>1 DEF RunInv
<1>3. \A r \in Runs : Running(r)' => Running(r)
  BY <1>1 DEF OthersSame, Running
<1>4. CASE p = q
  BY <1>1, <1>2, <1>3, <1>4, OwnStep DEF Undisturbed
<1>5. CASE p # q
  <2>1. cmd[p] # None /\ Target(q) \notin NamesOf(cmd[p])
    BY <1>1, <1>2, <1>5, NamesApart DEF Running
  <2>2. NamesOf(cmd[p]) \subseteq Names
    BY <2>1, Parts DEF PageType, Task, NamesOf
  <2>3. RunSoFar(p)'
    <3>1. \A u : u.from = p => (u \in uploads' <=> u \in uploads)
      BY <1>5, <2>1, StepUploads
    <3> QED BY <1>1, <1>2, <1>5, <2>1, <2>2, <3>1, SoFarKept DEF OthersSame
  <2> QED BY <1>1, <1>2, <1>3, <2>3
<1> QED BY <1>4, <1>5

LEMMA StartRuns ==
  ASSUME FetchInv, RunInv, NEW q \in Runs, NEW c \in Task, NEW b, Start(q, c, b)
  PROVE  RunInv'
<1> SUFFICES ASSUME NEW p \in Runs, clean'[p], ~ReadsOnly(cmd'[p])
             PROVE  /\ \A r \in Runs \ {p} : Running(r)' => ~Meet(cmd'[r], cmd'[p])
                    /\ RunSoFar(p)'
  BY DEF RunInv, Meet, ReadsOnly, NamesOf
<1>1. /\ PageType /\ RunType(q) /\ RunFits(q) /\ stage[q] = "idle"
      /\ UNCHANGED <<files, editor, says, late, uploads>> /\ Fetch(q, FirstFetch(c.op))
      /\ cmd' = [cmd EXCEPT ![q] = c] /\ body' = [body EXCEPT ![q] = b]
  BY Parts DEF Start
<1>2. FirstFetch(c.op) \in {"get", "put", "mkdir", "del"}
  BY DEF FirstFetch, Task
<1>3. /\ stage'[q] = FirstFetch(c.op) /\ wire'[q] = "sent" /\ OthersStay(q) /\ cmd'[q] = c
      /\ \A r \in Runs \ {q} : cmd'[r] = cmd[r] /\ body'[r] = body[r] /\ Running(r)' = Running(r)
  BY <1>1, <1>2, FetchFacts DEF OthersStay, PageType, Running
<1>4. CASE p = q
  <2>1. \A r \in Runs \ {q} : Running(r) => ~Meet(cmd[r], c)
    BY <1>4 DEF Start
  <2>2. says'[q] = "nothing" /\ (\A m \in late' : m.from # q) /\ \A u \in uploads' : u.from # q
    BY <1>1, Parts DEF RunType, PageType, StrayFits, UploadFits
  <2>3. /\ stage'[q] = "put" => c.op \in {"touch", "save"}
        /\ stage'[q] = "del" => c.op = "rm"
        /\ stage'[q] \notin {"done", "body"}
    BY <1>2, <1>3 DEF FirstFetch, Task
  <2>4. RunSoFar(q)'
    BY <1>3, <2>2, <2>3 DEF RunSoFar
  <2> QED BY <1>3, <1>4, <2>1, <2>4
<1>5. CASE p # q
  <2>1. clean[p] /\ ~Meet(c, cmd[p])
    BY <1>5 DEF Start
  <2>2. /\ \A r \in Runs \ {p} : Running(r) => ~Meet(cmd[r], cmd[p])
        /\ RunSoFar(p) /\ ~ReadsOnly(cmd[p]) /\ cmd'[p] = cmd[p] /\ cmd[p] # None
    BY <1>3, <1>5, <2>1 DEF RunInv, ReadsOnly
  <2>3. RunSoFar(p)'
    BY <1>1, <1>3, <1>5, <2>2, SoFarKept DEF OthersStay
  <2>4. ASSUME NEW r \in Runs \ {p}, Running(r)'
        PROVE  ~Meet(cmd'[r], cmd'[p])
    <3>1. CASE r = q
      BY <1>3, <2>1, <2>2, <3>1
    <3>2. CASE r # q
      BY <1>3, <2>2, <2>4, <3>2
    <3> QED BY <3>1, <3>2
  <2> QED BY <2>3, <2>4
<1> QED BY <1>4, <1>5

\* A late request of a run repeats what the run has done.
LEMMA LateServed ==
  ASSUME FetchInv, NEW p \in Runs, RunSoFar(p), NEW m \in late, m.from = p, ~ReadsOnly(cmd[p]),
         NEW o \in Outcome(m.verb, m.name), Handle(m, o), late' \subseteq late,
         UNCHANGED <<cmd, stage, wire, answer, body, says>>
  PROVE  RunSoFar(p)'
<1>1. /\ PageType /\ StrayFits(m) /\ Sent(m) /\ m.name \in Names /\ m.verb \in {"put", "mkdir", "del"}
      /\ files[m.name] \in Held \cup {Absent, Dir} /\ RunType(p) /\ RunFits(p)
  BY Parts, StraySent DEF LateType, Stray, PageType
<1>2. /\ files'[m.name] = o[1] /\ \A n \in Names \ {m.name} : files'[n] = files[n]
      /\ stage[p] \notin {"idle", "get", "body"} /\ cmd[p].src \in Names /\ cmd[p].dst \in Names
  BY <1>1, HandleFacts, TaskType DEF StrayFits
<1>3. CASE m.verb = "put"
  <2>1. m.name = StoreName(cmd[p]) /\ cmd[p].op \in {"touch", "save", "cp", "mv"}
    BY <1>1, <1>3 DEF StrayFits
  <2>2. cmd[p].op \in {"cp", "mv"} /\ cmd[p].src # cmd[p].dst => files'[cmd[p].src] = files[cmd[p].src]
    BY <1>2, <2>1 DEF StoreName
  <2>3. \A u \in uploads' : u = m \/ u \in uploads
    BY <1>1, <1>3, HandleFacts
  <2>4. Lasts(p) => \A u \in uploads' : u.from = p => u.name = StoreName(cmd[p])
    BY <2>1, <2>3 DEF RunSoFar, Lasts
  <2>5. Stored(p) => Stored(p)'
    <3>1. CASE o[2] = "none" /\ o[1] = Empty
      <4>1. m \in uploads' /\ files'[StoreName(cmd[p])] = Empty
        BY <1>1, <1>2, <2>1, <3>1, HandleFacts
      <4> QED BY <2>1, <4>1 DEF Stored
    <3>2. CASE o[2] = "500" /\ o[1] = files[m.name]
      <4>1. \A u : u.from = p => (u \in uploads' <=> u \in uploads)
        BY <1>3, <3>2 DEF Handle
      <4> QED BY <1>2, <2>1, <3>2, <4>1, StoredSame DEF Store
    <3> QED BY <1>1, <1>3, <3>1, <3>2, OutcomeFacts
  <2> QED BY <1>1, <1>2, <2>1, <2>2, <2>4, <2>5 DEF RunSoFar, RunType, RunFits, Ok, Lasts
<1>4. CASE m.verb = "mkdir"
  <2>1. m.name = cmd[p].src /\ cmd[p].op = "mkdir"
    BY <1>1, <1>4 DEF StrayFits
  <2>2. files[cmd[p].src] = Dir => files'[cmd[p].src] = Dir
    BY <1>1, <1>2, <1>4, <2>1, OutcomeFacts
  <2>3. \A u \in uploads' : u \in uploads
    BY <1>1, <1>4, HandleFacts
  <2> QED BY <1>1, <1>2, <2>1, <2>2, <2>3 DEF RunSoFar, RunType, RunFits, Ok
<1>5. CASE m.verb = "del"
  <2>1. m.name = cmd[p].src /\ cmd[p].op \in {"rm", "mv"} /\ stage[p] \in {"del", "done"}
    BY <1>1, <1>5 DEF StrayFits
  <2>2. o[1] \in {Absent, files[cmd[p].src]}
    BY <1>1, <1>5, <2>1, OutcomeFacts
  <2>3. Lasts(p) => \A u : u.from = p => (u \in uploads' <=> u \in uploads)
    BY <1>1, <1>5, <2>1, OwnUploads
  <2>4. Lasts(p) => \A u \in uploads' : u.from = p => u.name = StoreName(cmd[p])
    BY <2>3 DEF RunSoFar, Lasts
  <2>5. cmd[p].op = "mv" /\ cmd[p].src # cmd[p].dst => Stored(p) /\ Stored(p)'
    <3> SUFFICES ASSUME cmd[p].op = "mv", cmd[p].src # cmd[p].dst PROVE Stored(p) /\ Stored(p)'
      OBVIOUS
    <3>1. Stored(p) /\ Lasts(p)
      BY <1>5 DEF RunSoFar, Lasts
    <3>2. files'[Store(p)] = files[Store(p)]
      BY <1>2, <2>1 DEF Store, StoreName
    <3> QED BY <2>3, <3>1, <3>2, StoredSame
  <2> QED BY <1>1, <1>2, <2>1, <2>2, <2>4, <2>5 DEF RunSoFar, RunType, RunFits, Ok, Lasts
<1> QED BY <1>1, <1>3, <1>4, <1>5

\* A late upload that does not break off completes what it has begun.
LEMMA LateWritten ==
  ASSUME FetchInv, NEW p \in Runs, RunSoFar(p), NEW u \in uploads, u.from = p,
         NEW o \in Written(Content(u), u.body), Finish(u, o), o[1] = u.body, UNCHANGED late,
         UNCHANGED <<cmd, stage, wire, answer, body, says>>
  PROVE  RunSoFar(p)'
<1>1. /\ UploadFits(u) /\ u.body = body[p] /\ u.name \in {StoreName(cmd[p]), None}
      /\ cmd[p].op \in {"touch", "save", "cp", "mv"} /\ stage[p] \notin {"idle", "get", "body"}
      /\ RunType(p) /\ RunFits(p)
  BY Parts DEF UploadFits
<1>2. /\ \A n \in Names : files'[n] = IF n = u.name THEN o[1] ELSE files[n]
      /\ uploads' = uploads \ {u}
      /\ cmd[p].src \in Names /\ cmd[p].dst \in Names /\ StoreName(cmd[p]) \in Names
  BY <1>1, FinishFacts, TaskType DEF Finish, StoreName
<1>3. cmd[p].op \in {"cp", "mv"} /\ cmd[p].src # cmd[p].dst => files'[cmd[p].src] = files[cmd[p].src]
  BY <1>1, <1>2, TerminalAssumption DEF StoreName
<1>4. Lasts(p) => u.name = StoreName(cmd[p]) /\ \A v \in uploads' : v.from = p => v.name = StoreName(cmd[p])
  BY <1>2 DEF RunSoFar, Lasts
<1>5. Lasts(p) => Stored(p)'
  BY <1>1, <1>2, <1>4 DEF Stored
<1> QED BY <1>1, <1>2, <1>3, <1>4, <1>5 DEF RunSoFar, RunType, RunFits, Ok, Lasts

LEMMA LateRuns ==
  ASSUME FetchInv, RunInv, ServeLate \/ WriteLate
  PROVE  RunInv'
<1> SUFFICES ASSUME NEW p \in Runs, clean'[p], ~ReadsOnly(cmd'[p])
             PROVE  /\ \A r \in Runs \ {p} : Running(r)' => ~Meet(cmd'[r], cmd'[p])
                    /\ RunSoFar(p)'
  BY DEF RunInv, Meet, ReadsOnly, NamesOf
<1>1. UNCHANGED <<editor, cmd, stage, try, wire, answer, body, says>> /\ PageType
  BY Parts DEF ServeLate, WriteLate, local
<1>2. clean[p] /\ ~ReadsOnly(cmd[p]) /\ cmd[p] # None
  BY <1>1 DEF ServeLate, WriteLate, CleanBut, ReadsOnly
<1>3. /\ \A r \in Runs \ {p} : Running(r) => ~Meet(cmd[r], cmd[p])
      /\ RunSoFar(p)
  BY <1>2 DEF RunInv
<1>4. \A r \in Runs \ {p} : Running(r)' => ~Meet(cmd'[r], cmd'[p])
  BY <1>1, <1>3 DEF Running
<1>5. NamesOf(cmd[p]) \subseteq Names
  BY <1>1, <1>2 DEF PageType, NamesOf, Task
<1>6. CASE ServeLate
  <2>10. PICK m \in late : \E o \in Outcome(m.verb, m.name) :
          Handle(m, o) /\ late' = late \ {m} /\ clean' = CleanBut(m, TRUE)
    BY <1>6 DEF ServeLate
  <2>1. PICK o \in Outcome(m.verb, m.name) :
          Handle(m, o) /\ late' = late \ {m} /\ clean' = CleanBut(m, TRUE)
    BY <2>10
  <2>2. Sent(m)
    BY StraySent
  <2>3. CASE m.from = p
    BY <1>1, <1>2, <1>3, <1>4, <2>1, <2>3, LateServed
  <2>4. CASE m.from # p
    <3>1. m.name \notin NamesOf(cmd[p])
      BY <2>1, <2>4 DEF CleanBut
    <3>2. \A u : u.from = p => (u \in uploads' <=> u \in uploads)
      BY <2>1, <2>2, <2>4, <3>1, HandleOthers
    <3>3. \A n \in NamesOf(cmd[p]) : files'[n] = files[n]
      BY <1>5, <2>1, <2>2, <3>1, HandleFacts
    <3> QED BY <1>1, <1>2, <1>3, <1>4, <2>1, <3>2, <3>3, SoFarKept
  <2> QED BY <2>3, <2>4
<1>7. CASE WriteLate
  <2>10. PICK u \in uploads : \E o \in Written(Content(u), u.body) :
          Finish(u, o) /\ late' = late /\ clean' = CleanBut(u, o[1] = u.body)
    BY <1>7 DEF WriteLate
  <2>1. PICK o \in Written(Content(u), u.body) :
          Finish(u, o) /\ late' = late /\ clean' = CleanBut(u, o[1] = u.body)
    BY <2>10
  <2>2. CASE u.name \notin NamesOf(cmd[p]) /\ u.from # p
    <3>1. \A v : v.from = p => (v \in uploads' <=> v \in uploads)
      BY <2>1, <2>2 DEF Finish
    <3>2. \A n \in NamesOf(cmd[p]) : files'[n] = files[n]
      BY <1>5, <2>1, <2>2, FinishFacts
    <3> QED BY <1>1, <1>2, <1>3, <1>4, <2>1, <3>1, <3>2, SoFarKept
  <2>3. CASE u.from = p /\ u.name \in NamesOf(cmd[p])
    <3>1. o[1] = u.body
      BY <2>1, <2>3 DEF CleanBut
    <3> QED BY <1>1, <1>3, <1>4, <2>1, <2>3, <3>1, LateWritten
  <2>4. CASE u.from = p /\ u.name \notin NamesOf(cmd[p])
    <3>1. u.name = None /\ ~Lasts(p)
      BY <1>2, <1>3, <2>4, Parts DEF UploadFits, StoreName, NamesOf, RunSoFar, Lasts
    <3>2. \A n \in NamesOf(cmd[p]) : files'[n] = files[n]
      BY <1>5, <2>1, <2>4, FinishFacts
    <3>3. cmd[p].op = "mv" /\ cmd[p].src = cmd[p].dst
      BY <3>1 DEF Lasts
    <3> QED BY <1>1, <1>3, <1>4, <2>1, <3>2, <3>3, Parts DEF RunSoFar, RunFits, Ok
  <2>5. u.from = p \/ u.name \notin NamesOf(cmd[p])
    BY <2>1 DEF CleanBut
  <2> QED BY <2>2, <2>3, <2>4, <2>5
<1> QED BY <1>6, <1>7

LEMMA NextRunInv ==
  ASSUME FetchInv, RunInv, [Next]_vars
  PROVE  RunInv'
<1>1. CASE UNCHANGED vars \/ CloseNano \/ \E t \in Texts : Type(t)
  <2>1. /\ files' = files /\ cmd' = cmd /\ stage' = stage /\ wire' = wire /\ answer' = answer
        /\ body' = body /\ says' = says /\ late' = late /\ uploads' = uploads /\ clean' = clean
    BY <1>1 DEF vars, CloseNano, Type, local
  <2>2. \A p \in Runs : RunSoFar(p) => RunSoFar(p)'
    <3>1. \A p \in Runs : Stored(p)' <=> Stored(p)
      BY <2>1 DEF Stored
    <3> QED BY <2>1, <3>1 DEF RunSoFar, Ok
  <2> QED BY <2>1, <2>2 DEF RunInv, Running, Meet, ReadsOnly, NamesOf
<1>2. ASSUME NEW q \in Runs, Step(q)
      PROVE  RunInv'
  BY <1>2, StepRuns
<1>3. ASSUME NEW q \in Runs, SaveNano(q)
      PROVE  RunInv'
  <2>1. editor.file \in Names
    BY <1>3, Parts DEF SaveNano, PageType
  <2>2. [op |-> "save", src |-> editor.file, dst |-> editor.file] \in Task
    BY <2>1 DEF Task
  <2> QED BY <1>3, <2>2, StartRuns DEF SaveNano
<1>4. ASSUME NEW q \in Runs, NEW c \in Commands, Enter(q, c)
      PROVE  RunInv'
  <2>1. c \in Task
    BY TerminalAssumption DEF Command, Task
  <2> QED BY <1>4, <2>1, StartRuns DEF Enter
<1>5. CASE ServeLate \/ WriteLate
  BY <1>5, LateRuns
<1> QED BY <1>1, <1>2, <1>3, <1>4, <1>5 DEF Next

LEMMA SpecTerminalInv == Spec => []TerminalInv
<1>1. Init => TerminalInv
  <2>1. Init => RunInv
    BY DEF Init, RunInv, ReadsOnly
  <2> QED BY <2>1, InitFetchInv DEF TerminalInv
<1>2. TerminalInv /\ [Next]_vars => TerminalInv'
  BY NextFetchInv, NextRunInv DEF TerminalInv
<1> QED BY <1>1, <1>2, PTL DEF Spec

\* However requests and answers are lost, sent again or overtaken, cp and mv
\* keep the body they have read under its old name or, mv, stored under the
\* new one; NothingLost says which runs are left out.
THEOREM TerminalNothingLost == Spec => []NothingLost
<1>1. TerminalInv => NothingLost
  <2> SUFFICES ASSUME TerminalInv, NEW p \in Runs, cmd[p] # None, clean[p],
                      body[p] \notin {None, Part}, cmd[p].op \in {"cp", "mv"}, cmd[p].src # cmd[p].dst
               PROVE  files[cmd[p].src] = body[p] \/ (cmd[p].op = "mv" /\ Stored(p))
    BY DEF NothingLost
  <2>1. RunSoFar(p)
    BY DEF TerminalInv, RunInv, ReadsOnly
  <2>2. stage[p] \in {"put", "done"} \/ (stage[p] = "del" /\ cmd[p].op = "mv")
    BY Parts DEF TerminalInv, RunFits, PageType
  <2> QED BY <2>1, <2>2 DEF RunSoFar
<1> QED BY <1>1, SpecTerminalInv, PTL

\* What an undisturbed command has printed as done is so, and stays so.
THEOREM TerminalSuccessIsTrue == Spec => []SuccessIsTrue
<1>1. TerminalInv => SuccessIsTrue
  <2> SUFFICES ASSUME TerminalInv, NEW p \in Runs, says[p] = "success", clean[p]
               PROVE  CASE cmd[p].op = "rm" -> files[cmd[p].src] = Absent
                        [] cmd[p].op = "mkdir" -> files[cmd[p].src] = Dir
                        [] cmd[p].op \in {"save", "cp"} -> Stored(p)
                        [] cmd[p].op = "mv" /\ cmd[p].src # cmd[p].dst -> Stored(p)
                        [] OTHER -> TRUE
    BY DEF SuccessIsTrue
  <2>1. cmd[p] # None
    <3>1. stage[p] = "done"
      BY Parts DEF TerminalInv, RunType
    <3> QED BY <3>1, Parts DEF TerminalInv, RunFits
  <2>2. cmd[p].op \in {"cat", "nano"} \/ RunSoFar(p)
    BY <2>1 DEF TerminalInv, RunInv, ReadsOnly
  <2> QED BY <2>2 DEF RunSoFar
<1> QED BY <1>1, SpecTerminalInv, PTL
=============================================================================
