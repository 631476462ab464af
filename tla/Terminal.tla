------------------------------ MODULE Terminal ------------------------------
(***************************************************************************)
(* The browser terminal of docs/app.js: its file commands, the editor, and *)
(* the fetch they share, which sends a request that failed once more.  The *)
(* commands are asynchronous: a second one may be entered before the first *)
(* has ended.  The files are those of the kernel, whose workers handle     *)
(* several requests at a time: an upload empties its file, then writes it. *)
(***************************************************************************)
EXTENDS Naturals, FiniteSets

CONSTANTS
  Runs,      \* the commands that are entered, each once, at any moment
  Names,     \* the names of files
  Texts,     \* what is typed in the editor: UTF-8, which parser.rs:55 leaves as it is
  Commands,  \* the commands that are entered
  MaxLate,   \* bound on the requests that are under way and waited for by nobody
  Absent, Dir, Part, Empty, None

Command == [op : {"cat", "nano", "touch", "rm", "mkdir", "cp", "mv"},
            src : Names, dst : Names]

\* What a run can be: "save" is what ^O in the editor does.
Task == [op : {"cat", "nano", "touch", "rm", "mkdir", "cp", "mv", "save"},
         src : Names, dst : Names]

Held == Texts \cup {Empty, Part}

ASSUME TerminalAssumption ==
  /\ Commands \subseteq Command /\ MaxLate \in Nat
  /\ {Absent, Dir, None} \cap Held = {} /\ Absent # Dir
  /\ None \notin Names /\ None \notin Task

VARIABLES
  files,   \* what the kernel's directory holds
  editor,  \* the file in the editor, if it is open, and its text
  cmd,     \* the command of a run
  stage,   \* the fetch or the reading of a body it waits for
  try,     \* the first or the second attempt of the fetch
  wire,    \* where its request is: sent, in the middle of writing, or answered
  answer,  \* the answer of the kernel
  body,    \* the body a run has read or is to upload
  says,    \* what it has printed at its end
  late,    \* requests under way that no fetch waits for any more
  uploads, \* the uploads in the middle of writing, waited for or not
  clean    \* no other command and no older request could touch its files

local == <<cmd, stage, try, wire, answer, body, says>>
vars == <<files, editor, local, late, uploads, clean>>

NoAnswer == [code |-> "none", body |-> None]

\* What is under way and waited for by nobody.
Stray == [from : Runs, try : {1, 2}, verb : {"put", "mkdir", "del"},
          name : Names, body : Held \cup {None}]

\* An upload whose file has been removed meanwhile writes to no name.
Upload == [from : Runs, try : {1, 2}, verb : {"put"}, name : Names \cup {None}, body : Held]

TypeOK ==
  /\ files \in [Names -> Held \cup {Absent, Dir}]
  /\ editor \in [file : Names \cup {None}, text : Held]
  /\ cmd \in [Runs -> Task \cup {None}]
  /\ stage \in [Runs -> {"idle", "get", "body", "put", "mkdir", "del", "done"}]
  /\ try \in [Runs -> {1, 2}]
  /\ wire \in [Runs -> {"none", "sent", "writing", "served"}]
  /\ answer \in [Runs -> [code : {"none", "200", "201", "404", "500"},
                          body : Held \cup {Absent, Dir, None}]]
  /\ body \in [Runs -> Held \cup {None}]
  /\ says \in [Runs -> {"nothing", "success", "error", "exception"}]
  /\ \A p \in Runs :
       /\ wire[p] # "none" <=> stage[p] \in {"get", "put", "mkdir", "del"}
       /\ stage[p] = "put" => body[p] # None
       /\ wire[p] = "writing" => \E u \in uploads : u.from = p /\ u.try = try[p]
       /\ says[p] # "nothing" => stage[p] = "done"
  /\ late \subseteq Stray /\ IsFiniteSet(late) /\ Cardinality(late) <= MaxLate
  /\ uploads \subseteq Upload
  /\ clean \in [Runs -> BOOLEAN]

Init ==
  /\ files \in [Names -> Texts \cup {Absent}]
  /\ editor = [file |-> None, text |-> Empty]
  /\ cmd = [p \in Runs |-> None]
  /\ stage = [p \in Runs |-> "idle"]
  /\ try = [p \in Runs |-> 1]
  /\ wire = [p \in Runs |-> "none"]
  /\ answer = [p \in Runs |-> NoAnswer]
  /\ body = [p \in Runs |-> None]
  /\ says = [p \in Runs |-> "nothing"]
  /\ late = {} /\ uploads = {}
  /\ clean = [p \in Runs |-> TRUE]

-----------------------------------------------------------------------------
(***************************************************************************)
(* What the kernel's handler of a request leaves under its name, and its   *)
(* code: 500 if a call fails.  An upload that has opened its file has none *)
(* yet; the file is empty then.                                            *)
(***************************************************************************)
Outcome(verb, n) ==
  LET old == files[n] IN
  {<<old, "500">>} \cup
  CASE verb = "get" -> IF old = Dir THEN {} ELSE {<<old, IF old = Absent THEN "404" ELSE "200">>}
    [] verb = "put" -> IF old = Dir THEN {} ELSE {<<Empty, "none">>}
    [] verb = "mkdir" -> IF old \in {Absent, Dir} THEN {<<Dir, "201">>} ELSE {}
    [] verb = "del" -> {<<Absent, IF old = Absent THEN "404" ELSE "200">>}

Handle(m, o) ==
  /\ files' = [files EXCEPT ![m.name] = o[1]]
  /\ uploads' = IF o[2] = "none" THEN uploads \cup {m}
                ELSE IF m.verb = "del" /\ o[1] = Absent
                THEN {[u EXCEPT !.name = IF @ = m.name THEN None ELSE @] : u \in uploads}
                ELSE uploads

(***************************************************************************)
(* Writing b to a file that holds c by now, from its beginning: all of it, *)
(* which leaves a mixture if c goes further, or not all of it.             *)
(***************************************************************************)
Written(c, b) ==
  IF b = Empty THEN {<<c, "201">>}
  ELSE {<<b, "201">>} \cup
       IF c = b THEN {<<b, "500">>}
       ELSE {<<c, "500">>, <<Part, "500">>} \cup IF c = Empty THEN {} ELSE {<<Part, "201">>}

Content(u) == IF u.name = None THEN Empty ELSE files[u.name]

Finish(u, o) ==
  /\ files' = [n \in Names |-> IF n = u.name THEN o[1] ELSE files[n]]
  /\ uploads' = uploads \ {u}

Running(p) == stage[p] \notin {"idle", "done"}
Target(p) == IF stage[p] = "put" /\ cmd[p].op \in {"cp", "mv"} THEN cmd[p].dst ELSE cmd[p].src
NamesOf(c) == IF c = None THEN {} ELSE {c.src} \cup (IF c.op \in {"cp", "mv"} THEN {c.dst} ELSE {})
ReadsOnly(c) == c = None \/ c.op \in {"cat", "nano"}

\* Commands c and d have a file in common that one of them changes.
Meet(c, d) == NamesOf(c) \cap NamesOf(d) # {} /\ ~(ReadsOnly(c) /\ ReadsOnly(d))

Ok(p) == answer[p].code \in {"200", "201"}

-----------------------------------------------------------------------------
(***************************************************************************)
(* Entering a command, and the editor's keys.                              *)
(***************************************************************************)
Fetch(p, s) ==
  /\ stage' = [stage EXCEPT ![p] = s]
  /\ try' = [try EXCEPT ![p] = 1]
  /\ wire' = [wire EXCEPT ![p] = "sent"]
  /\ answer' = [answer EXCEPT ![p] = NoAnswer]

FirstFetch(op) ==
  CASE op \in {"cat", "nano", "cp", "mv"} -> "get"
    [] op \in {"touch", "save"} -> "put"
    [] op = "mkdir" -> "mkdir"
    [] op = "rm" -> "del"

Start(p, c, b) ==
  /\ stage[p] = "idle"
  /\ cmd' = [cmd EXCEPT ![p] = c]
  /\ body' = [body EXCEPT ![p] = b]
  /\ UNCHANGED says
  /\ Fetch(p, FirstFetch(c.op))
  /\ clean' = [q \in Runs |->
       IF q = p THEN /\ \A r \in Runs \ {p} : Running(r) => ~Meet(cmd[r], c)
                     /\ \A m \in late \cup uploads : m.name \notin NamesOf(c)
       ELSE clean[q] /\ ~Meet(c, cmd[q])]
  /\ UNCHANGED <<files, editor, late, uploads>>

Enter(p, c) ==
  /\ editor.file = None
  /\ Start(p, c, IF c.op = "touch" THEN Empty ELSE None)

Type(t) ==
  /\ editor.file # None
  /\ editor' = [editor EXCEPT !.text = t]
  /\ UNCHANGED <<files, local, late, uploads, clean>>

SaveNano(p) ==
  /\ editor.file # None
  /\ Start(p, [op |-> "save", src |-> editor.file, dst |-> editor.file], editor.text)

CloseNano ==
  /\ editor.file # None
  /\ editor' = [file |-> None, text |-> Empty]
  /\ UNCHANGED <<files, local, late, uploads, clean>>

-----------------------------------------------------------------------------
(***************************************************************************)
(* fetch: a request is served, answered, or fails at any moment; what has  *)
(* failed may still be under way, and be served whenever it arrives.  An   *)
(* upload that is being written goes on without a page that waits for it.  *)
(***************************************************************************)
Request(p) ==
  [from |-> p, try |-> try[p], verb |-> stage[p], name |-> Target(p), body |-> body[p]]

Serve(p) ==
  /\ wire[p] = "sent"
  /\ \E o \in Outcome(stage[p], Target(p)) :
       /\ Handle(Request(p), o)
       /\ answer' = [answer EXCEPT ![p] = [code |-> o[2], body |-> IF stage[p] = "get" THEN o[1] ELSE None]]
       /\ wire' = [wire EXCEPT ![p] = IF o[2] = "none" THEN "writing" ELSE "served"]
  /\ UNCHANGED <<editor, cmd, stage, try, body, says, late, clean>>

WaitedFor(u) == wire[u.from] = "writing" /\ try[u.from] = u.try

Write(p) ==
  /\ wire[p] = "writing"
  /\ \E u \in {v \in uploads : v.from = p /\ WaitedFor(v)} : \E o \in Written(Content(u), u.body) :
       /\ Finish(u, o)
       /\ answer' = [answer EXCEPT ![p] = [code |-> o[2], body |-> IF stage[p] = "get" THEN o[1] ELSE None]]
  /\ wire' = [wire EXCEPT ![p] = "served"]
  /\ UNCHANGED <<editor, cmd, stage, try, body, says, late, clean>>

\* What a request from nowhere leaves of the claim of each run to its files.
CleanBut(m, harmless) ==
  [p \in Runs |-> clean[p] /\ (m.name \notin NamesOf(cmd[p]) \/ (m.from = p /\ harmless))]

ServeLate ==
  \E m \in late : \E o \in Outcome(m.verb, m.name) :
    /\ Handle(m, o)
    /\ late' = late \ {m}
    /\ clean' = CleanBut(m, TRUE)
    /\ UNCHANGED <<editor, local>>

\* A late upload that breaks off does harm to its own run.
WriteLate ==
  \E u \in {v \in uploads : ~WaitedFor(v)} : \E o \in Written(Content(u), u.body) :
    /\ Finish(u, o)
    /\ clean' = CleanBut(u, o[1] = u.body)
    /\ UNCHANGED <<editor, local, late>>

End(p, message) ==
  /\ stage' = [stage EXCEPT ![p] = "done"]
  /\ wire' = [wire EXCEPT ![p] = "none"]
  /\ answer' = [answer EXCEPT ![p] = NoAnswer]
  /\ says' = [says EXCEPT ![p] = message]

\* The file of a failed nano is taken for a new one.
OpenNano(p, text) ==
  /\ editor' = [file |-> cmd[p].src, text |-> text]
  /\ End(p, "success")

\* Where an exception of fetch or of the reading of a body goes.
Thrown(p) ==
  IF cmd[p].op = "nano" THEN OpenNano(p, Empty)
  ELSE /\ End(p, IF cmd[p].op \in {"touch", "rm", "mkdir"} THEN "exception" ELSE "error")
       /\ UNCHANGED editor

\* Mutant: the handler of a failed fetch calls itself, not the original one.
RetryAlways(p) ==
  /\ wire' = [wire EXCEPT ![p] = "sent"]
  /\ answer' = [answer EXCEPT ![p] = NoAnswer]
  /\ UNCHANGED <<editor, stage, try, says>>

Retry(p) ==
  IF try[p] = 1
  THEN /\ try' = [try EXCEPT ![p] = 2]
       /\ wire' = [wire EXCEPT ![p] = "sent"]
       /\ answer' = [answer EXCEPT ![p] = NoAnswer]
       /\ UNCHANGED <<editor, stage, says>>
  ELSE Thrown(p) /\ UNCHANGED try

Rejected(p) ==
  /\ wire[p] # "none"
  /\ Retry(p)
  /\ \/ UNCHANGED late
     \/ /\ wire[p] = "sent" /\ stage[p] # "get" /\ Cardinality(late) < MaxLate
        /\ late' = late \cup {Request(p)}
  /\ UNCHANGED <<files, cmd, body, uploads, clean>>

-----------------------------------------------------------------------------
(***************************************************************************)
(* processCommand behind each await.                                       *)
(***************************************************************************)
AfterGet(p) ==
  /\ wire[p] = "served" /\ stage[p] = "get"
  /\ IF Ok(p) THEN /\ stage' = [stage EXCEPT ![p] = "body"]
                   /\ wire' = [wire EXCEPT ![p] = "none"]
                   /\ UNCHANGED <<editor, answer, says>>
     ELSE Thrown(p)
  /\ UNCHANGED <<files, cmd, try, body, late, uploads, clean>>

\* Mutant: the copy is uploaded before its body has been read.
ReadBodyUnread(p) ==
  /\ stage[p] = "body"
  /\ CASE cmd[p].op = "cat" -> End(p, "success") /\ UNCHANGED <<editor, try>>
       [] cmd[p].op = "nano" -> OpenNano(p, answer[p].body) /\ UNCHANGED try
       [] OTHER -> Fetch(p, "put") /\ UNCHANGED <<editor, says>>
  /\ UNCHANGED <<files, cmd, body, late, uploads, clean>>

ReadBody(p) ==
  /\ stage[p] = "body"
  /\ body' = [body EXCEPT ![p] = answer[p].body]
  /\ CASE cmd[p].op = "cat" -> End(p, "success") /\ UNCHANGED <<editor, try>>
       [] cmd[p].op = "nano" -> OpenNano(p, answer[p].body) /\ UNCHANGED try
       [] OTHER -> Fetch(p, "put") /\ UNCHANGED <<editor, says>>
  /\ UNCHANGED <<files, cmd, late, uploads, clean>>

\* The connection breaks inside the body, where nothing is sent again.
BodyBreaks(p) ==
  /\ stage[p] = "body"
  /\ Thrown(p)
  /\ UNCHANGED <<files, cmd, try, body, late, uploads, clean>>

\* Mutant: the answer of the upload is not looked at.
AfterPutUnchecked(p) ==
  /\ wire[p] = "served" /\ stage[p] = "put"
  /\ IF cmd[p].op = "mv" THEN Fetch(p, "del") /\ UNCHANGED says
     ELSE End(p, "success") /\ UNCHANGED try
  /\ UNCHANGED <<files, editor, cmd, body, late, uploads, clean>>

AfterPut(p) ==
  /\ wire[p] = "served" /\ stage[p] = "put"
  /\ IF cmd[p].op = "mv" /\ Ok(p) THEN Fetch(p, "del") /\ UNCHANGED says
     ELSE /\ End(p, IF Ok(p) \/ cmd[p].op = "touch" THEN "success" ELSE "error")
          /\ UNCHANGED try
  /\ UNCHANGED <<files, editor, cmd, body, late, uploads, clean>>

\* mv does not look at the answer.
AfterChange(p) ==
  /\ wire[p] = "served" /\ stage[p] \in {"mkdir", "del"}
  /\ End(p, IF Ok(p) \/ cmd[p].op = "mv" THEN "success" ELSE "error")
  /\ UNCHANGED <<files, editor, cmd, try, body, late, uploads, clean>>

Step(p) ==
  \/ Serve(p) \/ Write(p) \/ Rejected(p)
  \/ AfterGet(p) \/ ReadBody(p) \/ BodyBreaks(p) \/ AfterPut(p) \/ AfterChange(p)

Next ==
  \/ \E p \in Runs : Step(p) \/ SaveNano(p) \/ \E c \in Commands : Enter(p, c)
  \/ \E t \in Texts : Type(t)
  \/ CloseNano
  \/ ServeLate \/ WriteLate

\* A fetch ends, one way or the other; nobody is obliged to enter anything, and
\* a late request need not arrive, or come to its end.
Fairness == \A p \in Runs : WF_vars(Step(p))

Spec == Init /\ [][Next]_vars
FairSpec == Spec /\ Fairness

-----------------------------------------------------------------------------
(***************************************************************************)
(* The upload of a run has been stored: its file holds the body, or an     *)
(* attempt of the same upload has just emptied it and is about to write it *)
(* (handlers.rs:131-132).                                                  *)
(***************************************************************************)
StoreName(c) == IF c.op \in {"cp", "mv"} THEN c.dst ELSE c.src

Stored(p) ==
  LET n == StoreName(cmd[p]) IN
  \/ files[n] = body[p]
  \/ files[n] = Empty /\ \E u \in uploads : u.from = p /\ u.name = n

(***************************************************************************)
(* The only copy of a file survives cp and mv (app.js:228-240): its body   *)
(* is under its old name at every moment of a cp, and of a mv under the    *)
(* old name or stored under the new one, whichever request or answer is    *)
(* lost, sent again or overtaken by its own repetition.  A first attempt   *)
(* of the upload that comes after the DELETE of mv may find the only copy, *)
(* empty it and write it again; if it breaks off there, the file is lost,  *)
(* and nothing is said of the run any more.  Nor is anything said if other *)
(* commands or older requests use the files, or if a file is moved onto    *)
(* itself: it is deleted.                                                  *)
(***************************************************************************)
NothingLost ==
  \A p \in Runs :
    LET c == cmd[p] IN
    (/\ c # None /\ clean[p] /\ body[p] \notin {None, Part}
     /\ c.op \in {"cp", "mv"} /\ c.src # c.dst)
    => files[c.src] = body[p] \/ (c.op = "mv" /\ Stored(p))

(***************************************************************************)
(* What the terminal prints as a success has happened: "Removed" names no  *)
(* file, "Successfully wrote", "Copied" and "Moved" a file whose body is   *)
(* stored, "Created directory" a directory, also when an attempt was sent  *)
(* again and the first one comes late.  "Moved" does not say that the      *)
(* source is gone, and touch prints its success whatever the answer; what  *)
(* NothingLost says nothing of is excepted here too.                       *)
(***************************************************************************)
SuccessIsTrue ==
  \A p \in Runs : says[p] = "success" /\ clean[p] =>
    LET c == cmd[p] IN
    CASE c.op = "rm" -> files[c.src] = Absent
      [] c.op = "mkdir" -> files[c.src] = Dir
      [] c.op \in {"save", "cp"} -> Stored(p)
      [] c.op = "mv" /\ c.src # c.dst -> Stored(p)
      [] OTHER -> TRUE

\* What makes TypeOK, NothingLost and SuccessIsTrue inductive.  A run is at a
\* stage of its command, and uploads nothing before it has read what it copies.
RunFits(p) ==
  LET at(stages) == stage[p] \in stages
      for(ops) == cmd[p].op \in ops
  IN  /\ at({"idle"}) <=> cmd[p] = None
      /\ wire[p] = "writing" => at({"put"})
      /\ at({"get", "body"}) => for({"cat", "nano", "cp", "mv"}) /\ body[p] = None
      /\ at({"put"}) => for({"touch", "save", "cp", "mv"})
      /\ at({"mkdir"}) => for({"mkdir"})
      /\ at({"del"}) => for({"rm", "mv"}) /\ (for({"mv"}) => body[p] # None)
      /\ at({"get", "body"}) /\ Ok(p) => answer[p].body \in Held
      /\ at({"body"}) => Ok(p)

\* A request nobody waits for is one its run has sent, and may have sent again.
StrayFits(m) ==
  LET c == cmd[m.from] IN
  /\ stage[m.from] \notin {"idle", "get", "body"}
  /\ m.verb = "put" => /\ c.op \in {"touch", "save", "cp", "mv"}
                       /\ m.body = body[m.from] /\ m.body # None
                       /\ m.name = StoreName(c)
  /\ m.verb = "mkdir" => c.op = "mkdir" /\ m.name = c.src
  /\ m.verb = "del" => c.op \in {"rm", "mv"} /\ m.name = c.src /\ stage[m.from] \in {"del", "done"}

\* An upload that is written is one its run has sent.
UploadFits(u) ==
  LET c == cmd[u.from] IN
  /\ stage[u.from] \notin {"idle", "get", "body"}
  /\ c.op \in {"touch", "save", "cp", "mv"} /\ u.body = body[u.from]
  /\ u.name \in {StoreName(c), None}

FetchInv ==
  /\ TypeOK
  /\ \A p \in Runs : RunFits(p)
  /\ \A m \in late : StrayFits(m)
  /\ \A u \in uploads : UploadFits(u)

\* Where an undisturbed run that changes something has got to.
RunSoFar(p) ==
  LET c == cmd[p]
      at(stages) == stage[p] \in stages
      served == wire[p] = "served" /\ Ok(p)
      twoNames == c.op \in {"cp", "mv"} /\ c.src # c.dst
      lasts == c.op # "mv" \/ c.src # c.dst  \* the run does not remove what it stores
      stored == Stored(p)
  IN  /\ at({"get"}) /\ served /\ twoNames => answer[p].body = files[c.src]
      /\ at({"body"}) /\ twoNames => answer[p].body = files[c.src]
      /\ at({"put"}) /\ twoNames => files[c.src] = body[p]
      /\ at({"put"}) /\ lasts /\ (served \/ wire[p] = "writing") => stored
      /\ lasts => \A u \in uploads : u.from = p => u.name = StoreName(c)
      /\ at({"mkdir"}) /\ served => files[c.src] = Dir
      /\ at({"del"}) /\ twoNames => stored
      /\ at({"del"}) /\ served /\ c.op = "rm" => files[c.src] = Absent
      /\ at({"done"}) /\ c.op = "cp" /\ twoNames /\ body[p] # None => files[c.src] = body[p]
      /\ at({"done"}) /\ c.op = "mv" /\ twoNames /\ body[p] # None => files[c.src] = body[p] \/ stored
      /\ says[p] = "success" /\ (c.op \in {"save", "cp"} \/ twoNames) => stored /\ body[p] # None
      /\ says[p] = "success" /\ c.op = "mkdir" => files[c.src] = Dir
      /\ says[p] = "success" /\ c.op = "rm" => files[c.src] = Absent
      /\ \A m \in late : m.from = p /\ m.verb = "del" /\ twoNames => stored

RunInv == \A p \in Runs : clean[p] /\ ~ReadsOnly(cmd[p]) =>
  /\ \A q \in Runs \ {p} : Running(q) => ~Meet(cmd[q], cmd[p])
  /\ RunSoFar(p)

TerminalInv == FetchInv /\ RunInv

(***************************************************************************)
(* Every command ends, whatever fails: a fetch is tried twice, not for     *)
(* ever.                                                                   *)
(***************************************************************************)
CommandEnds == \A p \in Runs : Running(p) ~> ~Running(p)
=============================================================================
