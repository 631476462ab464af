----------------------------- MODULE CppEngine -----------------------------
(***************************************************************************)
(* The C++ engine (bridge.cpp) as the kernel's threads call it through     *)
(* server_cpp.rs: cpp_process_command answers some commands with a literal *)
(* and all others from one static buffer, which the caller then scans for  *)
(* its end and copies.  Nothing orders the threads: the buffer's cells are *)
(* read and written in any interleaving (the data race of the code).  A    *)
(* cell stands for the bytes one store of snprintf writes.                 *)
(***************************************************************************)
EXTENDS Naturals, Sequences

CONSTANTS
  Threads,   \* the threads of the pool
  Commands,  \* the paths handed to the engine
  Root,      \* the path "/" every connection begins with
  Features,  \* what strcmp and strstr find in a command
  TextLen,   \* the cells of the formatted answer to a command
  Size,      \* the cells of the static buffer
  NUL        \* the end of a string

Feature == {"/files", "hack", "/mkdir/", "/echo/", "/user-agent", "DELETE"}

ASSUME CppEngineAssumption ==
  /\ Root \in Commands /\ NUL \notin Commands
  /\ Features \in [Commands -> SUBSET Feature] /\ Features[Root] = {}
  /\ TextLen \in [Commands -> Nat \ {0}]
  /\ Size \in Nat \ {0}

VARIABLES
  buf,    \* static char response[256]
  pc,     \* what a thread does next
  cmd,    \* the command of the request it serves
  nth,    \* which call to the engine it is in: 1 with Root, 2 with cmd
  pos,    \* the cell it writes or scans next
  len,    \* the length its scan found
  out,    \* what it has copied
  audit,  \* what the response header X-Expresso-Cpp carries
  alone   \* the threads in whose call no other one wrote to the buffer

vars == <<buf, pc, cmd, nth, pos, len, out, audit, alone>>

PCs == {"idle", "route", "fill", "scan", "copy", "done"}

TypeOK ==
  /\ buf \in [1..Size -> Commands \cup {NUL}]
  /\ pc \in [Threads -> PCs]
  /\ cmd \in [Threads -> Commands]
  /\ nth \in [Threads -> {1, 2}]
  /\ pos \in [Threads -> 1..Size]
  /\ len \in [Threads -> 0..(Size - 1)]
  /\ out \in [Threads -> Seq(Commands \cup {NUL})]
  /\ audit \in [Threads -> Seq(Commands \cup {NUL}) \cup Feature]
  /\ alone \subseteq Threads

Init ==
  /\ buf = [i \in 1..Size |-> NUL]
  /\ pc = [t \in Threads |-> "idle"]
  /\ cmd = [t \in Threads |-> Root]
  /\ nth = [t \in Threads |-> 1]
  /\ pos = [t \in Threads |-> 1]
  /\ len = [t \in Threads |-> 0]
  /\ out = [t \in Threads |-> <<>>]
  /\ audit = [t \in Threads |-> <<>>]
  /\ alone = {}

-----------------------------------------------------------------------------
(***************************************************************************)
(* The router: the first test that holds decides.                          *)
(***************************************************************************)
Route(c) ==
  LET has(f) == f \in Features[c] IN
  IF has("/files") THEN "/files"
  ELSE IF has("hack") THEN "hack"
  ELSE IF has("/mkdir/") THEN "/mkdir/"
  ELSE IF has("/echo/") THEN "/echo/"
  ELSE IF has("/user-agent") THEN "/user-agent"
  ELSE IF has("DELETE") THEN "DELETE"
  ELSE "formatted"

Called(t) == IF nth[t] = 1 THEN Root ELSE cmd[t]

\* Mutant: the size passed to snprintf leaves no room for the final NUL.
StoredUnbounded(c) == IF TextLen[c] < Size + 1 THEN TextLen[c] ELSE Size

\* snprintf keeps what fits before the last cell, which only ever holds NUL.
Stored(c) == IF TextLen[c] < Size THEN TextLen[c] ELSE Size - 1

\* handle_connection begins, and calls the engine with "/".
Begin(t, c) ==
  /\ pc[t] \in {"idle", "done"}
  /\ cmd' = [cmd EXCEPT ![t] = c]
  /\ nth' = [nth EXCEPT ![t] = 1]
  /\ pc' = [pc EXCEPT ![t] = "route"]
  /\ audit' = [audit EXCEPT ![t] = <<>>]
  /\ UNCHANGED <<buf, pos, len, out, alone>>

\* A literal is an immutable string of the program; only the second call can
\* meet one, since "/" has no feature.
Literal(t) ==
  /\ pc[t] = "route"
  /\ Route(Called(t)) # "formatted"
  /\ audit' = [audit EXCEPT ![t] = Route(Called(t))]
  /\ pc' = [pc EXCEPT ![t] = "done"]
  /\ UNCHANGED <<buf, cmd, nth, pos, len, out, alone>>

InCall(t) == pc[t] \in {"fill", "scan", "copy"}

\* snprintf begins by ending the string at its first cell.
Format(t) ==
  /\ pc[t] = "route"
  /\ Route(Called(t)) = "formatted"
  /\ buf' = [buf EXCEPT ![1] = NUL]
  /\ pos' = [pos EXCEPT ![t] = 1]
  /\ pc' = [pc EXCEPT ![t] = "fill"]
  /\ alone' = {u \in Threads : IF u = t THEN \A v \in Threads \ {t} : pc[v] # "fill"
                                ELSE u \in alone /\ ~InCall(u)}
  /\ UNCHANGED <<cmd, nth, len, out, audit>>

Fill(t) ==
  /\ pc[t] = "fill"
  /\ pos[t] <= Stored(Called(t))
  /\ buf' = [buf EXCEPT ![pos[t]] = Called(t)]
  /\ pos' = [pos EXCEPT ![t] = @ + 1]
  /\ UNCHANGED <<pc, cmd, nth, len, out, audit, alone>>

\* Mutant: a formatting that does not end its text, as strncpy.
TerminateNot(t) ==
  /\ pc[t] = "fill"
  /\ pos[t] > Stored(Called(t))
  /\ pos' = [pos EXCEPT ![t] = 1]
  /\ pc' = [pc EXCEPT ![t] = "scan"]
  /\ UNCHANGED <<buf, cmd, nth, len, out, audit, alone>>

Terminate(t) ==
  /\ pc[t] = "fill"
  /\ pos[t] > Stored(Called(t))
  /\ buf' = [buf EXCEPT ![pos[t]] = NUL]
  /\ pos' = [pos EXCEPT ![t] = 1]
  /\ pc' = [pc EXCEPT ![t] = "scan"]
  /\ UNCHANGED <<cmd, nth, len, out, audit, alone>>

\* CStr::from_ptr looks for the end of the string ...
Scan(t) ==
  /\ pc[t] = "scan"
  /\ IF buf[pos[t]] # NUL
     THEN pos' = [pos EXCEPT ![t] = @ + 1] /\ UNCHANGED <<pc, len, out>>
     ELSE /\ len' = [len EXCEPT ![t] = pos[t] - 1]
          /\ out' = [out EXCEPT ![t] = <<>>]
          /\ pc' = [pc EXCEPT ![t] = "copy"]
          /\ UNCHANGED pos
  /\ UNCHANGED <<buf, cmd, nth, audit, alone>>

\* ... and into_owned copies as many cells as it found.
Copy(t) ==
  /\ pc[t] = "copy"
  /\ Len(out[t]) < len[t]
  /\ out' = [out EXCEPT ![t] = Append(@, buf[Len(@) + 1])]
  /\ UNCHANGED <<buf, pc, cmd, nth, pos, len, audit, alone>>

\* The first answer is dropped (log_request_via_cpp), and the request is parsed,
\* which may end it; the second answer goes into the response.
Return(t) ==
  /\ pc[t] = "copy"
  /\ Len(out[t]) = len[t]
  /\ \/ /\ nth[t] = 1
        /\ nth' = [nth EXCEPT ![t] = 2]
        /\ pc' = [pc EXCEPT ![t] = "route"]
        /\ UNCHANGED audit
     \/ /\ nth[t] = 1
        /\ pc' = [pc EXCEPT ![t] = "idle"]
        /\ UNCHANGED <<nth, audit>>
     \/ /\ nth[t] = 2
        /\ audit' = [audit EXCEPT ![t] = out[t]]
        /\ pc' = [pc EXCEPT ![t] = "done"]
        /\ UNCHANGED nth
  /\ UNCHANGED <<buf, cmd, pos, len, out, alone>>

Step(t) ==
  \/ Literal(t) \/ Format(t) \/ Fill(t) \/ Terminate(t)
  \/ Scan(t) \/ Copy(t) \/ Return(t)

Next == \E t \in Threads : Step(t) \/ \E c \in Commands : Begin(t, c)

Spec == Init /\ [][Next]_vars

-----------------------------------------------------------------------------
Text(c) == [i \in 1..Stored(c) |-> c]

(***************************************************************************)
(* Whatever the threads overwrite under each other's eyes, the last cell   *)
(* of the buffer ends every string, so no scan and no copy leaves the      *)
(* buffer, and no text is longer than the buffer less its end.             *)
(***************************************************************************)
InBounds ==
  /\ buf[Size] = NUL
  /\ \A t \in Threads :
       /\ pos[t] \in 1..Size
       /\ pc[t] = "copy" => len[t] < Size /\ Len(out[t]) <= len[t]

(***************************************************************************)
(* A call during which no other thread wrote to the buffer copies exactly  *)
(* its own text, cut to the buffer's size: nothing is left in it of what   *)
(* longer texts stored before.                                             *)
(***************************************************************************)
AloneExact ==
  \A t \in alone :
    pc[t] = "copy" /\ Len(out[t]) = len[t] => out[t] = Text(Called(t))

\* The two above in a form that each step keeps.
BufferInv ==
  /\ TypeOK
  /\ buf[Size] = NUL
  /\ \A t \in Threads :
       /\ pc[t] = "fill" => pos[t] <= Stored(Called(t)) + 1
       /\ pc[t] = "copy" => Len(out[t]) <= len[t]

Alone(t) ==
  /\ \A u \in Threads \ {t} : pc[u] # "fill"
  /\ \A i \in 1..Stored(Called(t)) : (pc[t] = "fill" => i < pos[t]) => buf[i] = Called(t)
  /\ pc[t] # "fill" => buf[Stored(Called(t)) + 1] = NUL
  /\ pc[t] = "scan" => pos[t] <= Stored(Called(t)) + 1
  /\ pc[t] = "copy" => /\ len[t] = Stored(Called(t))
                       /\ \A i \in 1..Len(out[t]) : out[t][i] = Called(t)

AloneInv == \A t \in alone : InCall(t) => Alone(t)

(***************************************************************************)
(* "Every command execution triggers a blue [SYSTEM] audit log"            *)
(* (README.md:63): the log of a command is the one of that command.        *)
(***************************************************************************)
AuditNamesCommand ==
  \A t \in Threads :
    pc[t] = "done" => audit[t] = IF Route(cmd[t]) = "formatted"
                                THEN Text(cmd[t]) ELSE Route(cmd[t])
=============================================================================
