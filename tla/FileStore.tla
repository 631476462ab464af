----------------------------- MODULE FileStore -----------------------------
(***************************************************************************)
(* The file handlers of the Rust kernel (handle_get, handle_post,          *)
(* handle_delete), run by the pool's workers on one directory that they    *)
(* share without a lock.  One step is one system call.  A file is an inode *)
(* with a sequence of blocks, so that a handle keeps what an unlink takes  *)
(* from the directory.  Directories below the root hold nothing.           *)
(***************************************************************************)
EXTENDS Naturals, Sequences, FiniteSets

CONSTANTS
  Workers,    \* the threads of the pool
  Names,      \* the file names of requests
  Bodies,     \* the bodies of uploads
  Size,       \* the number of blocks of a body
  Inodes,     \* enough inodes for every name and every open handle
  Jobs,       \* the requests the workers run
  Removable,  \* whether the root directory itself can be removed
  Absent, Dir, Hole, None

Job == [op : {"get", "list", "post", "mkdir", "delete", "clear"},
        name : Names, body : Bodies]

Blocks == Seq(Bodies \cup {Hole})
Whole(b) == [i \in 1..Size[b] |-> b]

ASSUME FileStoreAssumption ==
  /\ Size \in [Bodies -> Nat]
  /\ Jobs \subseteq Job /\ None \notin Jobs
  /\ Removable \in BOOLEAN
  /\ IsFiniteSet(Inodes) /\ IsFiniteSet(Names) /\ IsFiniteSet(Workers)
  /\ Cardinality(Inodes) >= Cardinality(Names) + Cardinality(Workers)
  /\ {Absent, Dir, None} \cap Inodes = {} /\ Absent # Dir
  /\ Absent \notin Blocks /\ Dir \notin Blocks
  /\ Absent # "file" /\ Dir # "file"

VARIABLES
  root,    \* the directory of the files: Dir or Absent
  entry,   \* what a name is: an inode, Dir or Absent
  data,    \* the blocks of an inode
  pc,      \* the next system call of a worker
  job,     \* the request a worker runs
  node,    \* the inode a worker has open
  buf,     \* what it has read or written so far
  todo,    \* the names that are left of a walk through the root, with their kinds
  reply,   \* the answer of a finished request, and the list that a listing fills
  clean,   \* no other worker could disturb the request
  before   \* what the request found in the directory when it began

ghosts == <<clean, before>>
vars == <<root, entry, data, pc, job, node, buf, todo, reply, clean, before>>

PCs == {"idle", "exists", "open", "read", "list", "entries", "root", "create", "write", "mkdir",
        "isdir", "mkroot", "rootdir", "again", "kind", "unlink", "opentree", "rmdir",
        "child", "done"}

Codes == {"none", "200", "201", "404", "500", "500 write"}
Kinds == {"unread", "file", "dir", "lost"}

TypeOK ==
  /\ root \in {Dir, Absent}
  /\ entry \in [Names -> Inodes \cup {Absent, Dir}]
  /\ root = Absent => entry = [n \in Names |-> Absent]
  /\ data \in [Inodes -> Blocks]
  /\ pc \in [Workers -> PCs]
  /\ job \in [Workers -> Jobs \cup {None}]
  /\ node \in [Workers -> Inodes \cup {None}]
  /\ buf \in [Workers -> Blocks]
  /\ todo \in [Workers -> SUBSET (Names \X Kinds)]
  /\ reply \in [Workers -> [code : Codes, names : SUBSET Names, blocks : Blocks]]
  /\ clean \in [Workers -> BOOLEAN]
  /\ before \in [Workers -> Blocks \cup {Absent, Dir, None}]
  /\ \A n, m \in Names : entry[n] \in Inodes /\ entry[n] = entry[m] => n = m

Plain(code) == [code |-> code, names |-> {}, blocks |-> <<>>]
NoReply == Plain("none")

Init ==
  /\ root = Dir
  /\ entry = [n \in Names |-> Absent]
  /\ data = [i \in Inodes |-> <<>>]
  /\ pc = [w \in Workers |-> "idle"]
  /\ job = [w \in Workers |-> None]
  /\ node = [w \in Workers |-> None]
  /\ buf = [w \in Workers |-> <<>>]
  /\ todo = [w \in Workers |-> {}]
  /\ reply = [w \in Workers |-> NoReply]
  /\ clean = [w \in Workers |-> TRUE]
  /\ before = [w \in Workers |-> None]

-----------------------------------------------------------------------------
Busy(w) == pc[w] \notin {"idle", "done"}
IsFile(n) == entry[n] \in Inodes
Content(n) == IF IsFile(n) THEN data[entry[n]] ELSE entry[n]

\* Could request k change what request j sees or leaves behind?
Disturbs(k, j) ==
  /\ k.op \notin {"get", "list"}
  /\ k.op = "clear" \/ j.op \in {"list", "clear"} \/ k.name = j.name

FirstCall(op) ==
  CASE op \in {"get", "delete", "clear"} -> "exists"
    [] op = "list" -> "list"
    [] op = "post" -> "root"
    [] op = "mkdir" -> "mkdir"

Begin(w, j) ==
  /\ ~Busy(w)
  /\ job' = [job EXCEPT ![w] = j]
  /\ pc' = [pc EXCEPT ![w] = FirstCall(j.op)]
  /\ buf' = [buf EXCEPT ![w] = <<>>]
  /\ reply' = [reply EXCEPT ![w] = NoReply]
  /\ clean' = [v \in Workers |->
       IF v = w THEN \A u \in Workers \ {w} : Busy(u) => ~Disturbs(job[u], j)
       ELSE clean[v] /\ (job[v] # None => ~Disturbs(j, job[v]))]
  /\ before' = [before EXCEPT ![w] =
                  IF j.op \in {"list", "clear"} THEN root ELSE Content(j.name)]
  /\ UNCHANGED <<root, entry, data, node, todo>>

Goto(w, call) ==
  /\ pc' = [pc EXCEPT ![w] = call]
  /\ UNCHANGED <<job, reply, clean, before>>

\* The response is sent and the handles of the request are closed.
Answer(w, code, names, blocks) ==
  /\ pc' = [pc EXCEPT ![w] = "done"]
  /\ reply' = [reply EXCEPT ![w] = [code |-> code, names |-> names, blocks |-> blocks]]
  /\ node' = [node EXCEPT ![w] = None]
  /\ buf' = [buf EXCEPT ![w] = <<>>]
  /\ todo' = [todo EXCEPT ![w] = {}]
  /\ UNCHANGED <<job, clean, before>>

Status(w, code) == Answer(w, code, {}, <<>>)

local == <<node, buf, todo>>
files == <<root, entry, data>>

Name(w) == job[w].name

-----------------------------------------------------------------------------
(***************************************************************************)
(* exists() and is_dir(), of a name or, for a request without one, of the  *)
(* root.                                                                   *)
(***************************************************************************)
Exists(w) ==
  /\ pc[w] = "exists"
  /\ LET found == IF job[w].op = "clear" THEN root = Dir ELSE entry[Name(w)] # Absent
     IN  IF found
         THEN /\ Goto(w, IF job[w].op = "get" THEN "open" ELSE "kind")
              /\ UNCHANGED local
         ELSE Status(w, "404")
  /\ UNCHANGED files

Kind(w) ==
  /\ pc[w] = "kind"
  /\ LET dir == IF job[w].op = "clear" THEN root = Dir ELSE entry[Name(w)] = Dir
     IN  Goto(w, IF dir THEN "opentree" ELSE "unlink")
  /\ UNCHANGED <<files, local>>

-----------------------------------------------------------------------------
(***************************************************************************)
(* GET: fs::read opens the file and reads until it meets the end.          *)
(***************************************************************************)
OpenFile(w) ==
  /\ pc[w] = "open"
  /\ IF IsFile(Name(w))
     THEN /\ node' = [node EXCEPT ![w] = entry[Name(w)]]
          /\ Goto(w, "read")
          /\ UNCHANGED <<buf, todo>>
     ELSE Status(w, "500")
  /\ UNCHANGED files

Rest(w) == SubSeq(data[node[w]], Len(buf[w]) + 1, Len(data[node[w]]))

Read(w) ==
  /\ pc[w] = "read"
  /\ IF Rest(w) = <<>>
     THEN Answer(w, "200", {}, buf[w])
     ELSE /\ \E k \in 1..Len(Rest(w)) :
               buf' = [buf EXCEPT ![w] = @ \o SubSeq(Rest(w), 1, k)]
          /\ UNCHANGED <<pc, job, node, todo, reply, ghosts>>
  /\ UNCHANGED files

(***************************************************************************)
(* A directory is opened, then read with one getdents after the other.     *)
(* Each comes to some of the names that are unread, in an order that is    *)
(* the file system's, and finds what they are by then.  A name that no     *)
(* read has come to when the directory is removed is never found.          *)
(***************************************************************************)
Unread == Names \X {"unread"}
Coming(w) == SUBSET {c \in todo[w] : c[2] = "unread"} \ {{}}
Found(S) == {n \in Names : entry[n] # Absent /\ \E c \in S : c[1] = n}

List(w) ==
  /\ pc[w] = "list"
  /\ IF root = Dir
     THEN /\ todo' = [todo EXCEPT ![w] = Unread]
          /\ Goto(w, "entries")
          /\ UNCHANGED <<node, buf>>
     ELSE Status(w, "500")
  /\ UNCHANGED files

Entries(w) ==
  /\ pc[w] = "entries"
  /\ \E S \in Coming(w) :
       /\ reply' = [reply EXCEPT ![w].names = @ \cup Found(S)]
       /\ todo' = [todo EXCEPT ![w] = @ \ S]
  /\ UNCHANGED <<files, pc, job, node, buf, ghosts>>

Listed(w) ==
  /\ pc[w] = "entries" /\ todo[w] = {}
  /\ Answer(w, "200", reply[w].names, <<>>)
  /\ UNCHANGED files

-----------------------------------------------------------------------------
(***************************************************************************)
(* POST /files/: create_dir_all of the root, whose result is ignored, then *)
(* File::create, which truncates what is there, then write_all, whose      *)
(* calls may each write less than what is left.                            *)
(***************************************************************************)
PostRoot(w) ==
  /\ pc[w] = "root"
  /\ root' = Dir
  /\ Goto(w, "create")
  /\ UNCHANGED <<entry, data, local>>

Fresh == CHOOSE i \in Inodes :
           /\ \A n \in Names : entry[n] # i
           /\ \A w \in Workers : node[w] # i

\* Mutant: a missing root is no obstacle to File::create.
CreateRootless(w) ==
  /\ pc[w] = "create"
  /\ IF entry[Name(w)] = Dir
     THEN Status(w, "500") /\ UNCHANGED files
     ELSE LET i == IF IsFile(Name(w)) THEN entry[Name(w)] ELSE Fresh
          IN  /\ entry' = [entry EXCEPT ![Name(w)] = i]
              /\ data' = [data EXCEPT ![i] = <<>>]
              /\ node' = [node EXCEPT ![w] = i]
              /\ Goto(w, "write")
              /\ UNCHANGED <<root, buf, todo>>

\* Mutant: the file is opened for writing without being truncated.
CreateKeeping(w) ==
  /\ pc[w] = "create"
  /\ IF root = Absent \/ entry[Name(w)] = Dir
     THEN Status(w, "500") /\ UNCHANGED files
     ELSE LET i == IF IsFile(Name(w)) THEN entry[Name(w)] ELSE Fresh
          IN  /\ entry' = [entry EXCEPT ![Name(w)] = i]
              /\ data' = IF IsFile(Name(w)) THEN data ELSE [data EXCEPT ![i] = <<>>]
              /\ node' = [node EXCEPT ![w] = i]
              /\ Goto(w, "write")
              /\ UNCHANGED <<root, buf, todo>>

Create(w) ==
  /\ pc[w] = "create"
  /\ IF root = Absent \/ entry[Name(w)] = Dir
     THEN Status(w, "500") /\ UNCHANGED files
     ELSE LET i == IF IsFile(Name(w)) THEN entry[Name(w)] ELSE Fresh
          IN  /\ entry' = [entry EXCEPT ![Name(w)] = i]
              /\ data' = [data EXCEPT ![i] = <<>>]
              /\ node' = [node EXCEPT ![w] = i]
              /\ Goto(w, "write")
              /\ UNCHANGED <<root, buf, todo>>

\* Blocks from..to of a file become b; a gap before them becomes a hole.
Overlay(s, from, to, b) ==
  [i \in 1..(IF to > Len(s) THEN to ELSE Len(s)) |->
     IF i \in from..to THEN b ELSE IF i <= Len(s) THEN s[i] ELSE Hole]

\* Mutant: after a short write the body is written again from its start.
WriteRestarts(w) ==
  LET b == job[w].body
      at == Len(buf[w])
  IN  /\ pc[w] = "write"
      /\ at < Size[b]
      /\ \E k \in 1..(Size[b] - at) :
           /\ data' = [data EXCEPT ![node[w]] = Overlay(@, at + 1, at + k, b)]
           /\ buf' = [buf EXCEPT ![w] = IF at + k < Size[b] THEN <<>> ELSE Whole(b)]
      /\ UNCHANGED <<root, entry, pc, job, node, todo, reply, ghosts>>

Write(w) ==
  LET b == job[w].body
      at == Len(buf[w])
  IN  /\ pc[w] = "write"
      /\ at < Size[b]
      /\ \E k \in 1..(Size[b] - at) :
           /\ data' = [data EXCEPT ![node[w]] = Overlay(@, at + 1, at + k, b)]
           /\ buf' = [buf EXCEPT ![w] = @ \o [i \in 1..k |-> b]]
      /\ UNCHANGED <<root, entry, pc, job, node, todo, reply, ghosts>>

Written(w) ==
  /\ pc[w] = "write"
  /\ Len(buf[w]) = Size[job[w].body]
  /\ Status(w, "201")
  /\ UNCHANGED files

\* No space is left.
WriteFails(w) ==
  /\ pc[w] = "write"
  /\ Len(buf[w]) < Size[job[w].body]
  /\ Status(w, "500 write")
  /\ UNCHANGED files

-----------------------------------------------------------------------------
(***************************************************************************)
(* POST /mkdir/: create_dir_all tries the directory, then its parent, then *)
(* the directory again, and forgives a failure if a directory is there.    *)
(***************************************************************************)
Mkdir(w) ==
  /\ pc[w] \in {"mkdir", "again"}
  /\ IF root = Dir /\ entry[Name(w)] = Absent
     THEN /\ entry' = [entry EXCEPT ![Name(w)] = Dir]
          /\ Status(w, "201")
     ELSE /\ Goto(w, IF root = Absent /\ pc[w] = "mkdir" THEN "mkroot" ELSE "isdir")
          /\ UNCHANGED <<entry, local>>
  /\ UNCHANGED <<root, data>>

\* Mutant: an existing entry is taken for the directory.
IsDirForgiving(w) ==
  /\ pc[w] = "isdir"
  /\ Status(w, IF entry[Name(w)] # Absent THEN "201" ELSE "500")
  /\ UNCHANGED files

IsDir(w) ==
  /\ pc[w] = "isdir"
  /\ Status(w, IF entry[Name(w)] = Dir THEN "201" ELSE "500")
  /\ UNCHANGED files

MkRoot(w) ==
  /\ pc[w] = "mkroot"
  /\ root' = Dir
  /\ Goto(w, IF root = Absent THEN "again" ELSE "rootdir")
  /\ UNCHANGED <<entry, data, local>>

RootDir(w) ==
  /\ pc[w] = "rootdir"
  /\ IF root = Dir
     THEN Goto(w, "again") /\ UNCHANGED local
     ELSE Status(w, "500")
  /\ UNCHANGED files

-----------------------------------------------------------------------------
(***************************************************************************)
(* DELETE /files/<name>: remove_file, or remove_dir_all of a directory.    *)
(* A request without a name is one for the root: remove_dir_all reads it,  *)
(* removing what a getdents has found before the next one, then removes    *)
(* the root, and stops at the first error.                                 *)
(***************************************************************************)
Unlink(w) ==
  /\ pc[w] = "unlink"
  /\ IF job[w].op = "delete" /\ IsFile(Name(w))
     THEN entry' = [entry EXCEPT ![Name(w)] = Absent] /\ Status(w, "200")
     ELSE Status(w, "500") /\ UNCHANGED entry
  /\ UNCHANGED <<root, data>>

KindOf(n) == IF entry[n] = Dir THEN "dir" ELSE "file"

OpenTree(w) ==
  /\ pc[w] = "opentree"
  /\ \/ /\ job[w].op = "clear" /\ root = Dir
        /\ todo' = [todo EXCEPT ![w] = Unread]
        /\ Goto(w, "child")
        /\ UNCHANGED <<node, buf>>
     \/ /\ job[w].op = "delete" /\ entry[Name(w)] = Dir
        /\ Goto(w, "rmdir")
        /\ UNCHANGED local
     \/ /\ IF job[w].op = "clear" THEN root = Absent ELSE entry[Name(w)] # Dir
        /\ Status(w, "500")
  /\ UNCHANGED files

Rmdir(w) ==
  /\ pc[w] = "rmdir"
  /\ IF entry[Name(w)] = Dir
     THEN entry' = [entry EXCEPT ![Name(w)] = Absent] /\ Status(w, "200")
     ELSE Status(w, "500") /\ UNCHANGED entry
  /\ UNCHANGED <<root, data>>

Children(w) ==
  /\ pc[w] = "child" /\ \A c \in todo[w] : c[2] = "unread"
  /\ \E S \in Coming(w) :
       todo' = [todo EXCEPT ![w] = (@ \ S) \cup {<<n, KindOf(n)>> : n \in Found(S)}]
  /\ UNCHANGED <<files, pc, job, node, buf, reply, ghosts>>

\* unlinkat takes what was read as a file only if it is one still; what was read
\* as a directory is removed whatever it is now.  A name is lost when another
\* worker has removed the root it was read in.
Removed(c) == \/ c[2] = "file" /\ IsFile(c[1])
              \/ c[2] = "dir" /\ entry[c[1]] # Absent

Child(w) ==
  /\ pc[w] = "child"
  /\ \E c \in {d \in todo[w] : d[2] # "unread"} :
       IF Removed(c)
       THEN /\ entry' = [entry EXCEPT ![c[1]] = Absent]
            /\ todo' = [todo EXCEPT ![w] = @ \ {c}]
            /\ UNCHANGED <<pc, job, node, buf, reply, ghosts>>
       ELSE Status(w, "500") /\ UNCHANGED entry
  /\ UNCHANGED <<root, data>>

RmRoot(w) ==
  /\ pc[w] = "child" /\ todo[w] = {}
  /\ Removable /\ root = Dir /\ \A n \in Names : entry[n] = Absent
  /\ root' = Absent
  /\ todo' = [v \in Workers |-> {<<c[1], "lost">> : c \in {d \in todo[v] : d[2] # "unread"}}]
  /\ pc' = [pc EXCEPT ![w] = "done"]
  /\ reply' = [reply EXCEPT ![w] = Plain("200")]
  /\ UNCHANGED <<entry, data, job, node, buf, ghosts>>

\* The root is missing, holds a new name, or is a mount point.
RmRootFails(w) ==
  /\ pc[w] = "child" /\ todo[w] = {}
  /\ ~Removable \/ root = Absent \/ \E n \in Names : entry[n] # Absent
  /\ Status(w, "500")
  /\ UNCHANGED files

-----------------------------------------------------------------------------
\* The process dies and is restarted: the files stay as they are.
Crash ==
  /\ \E w \in Workers : Busy(w)
  /\ pc' = [w \in Workers |-> "idle"]
  /\ job' = [w \in Workers |-> None]
  /\ node' = [w \in Workers |-> None]
  /\ buf' = [w \in Workers |-> <<>>]
  /\ todo' = [w \in Workers |-> {}]
  /\ reply' = [w \in Workers |-> NoReply]
  /\ clean' = [w \in Workers |-> TRUE]
  /\ before' = [w \in Workers |-> None]
  /\ UNCHANGED files

Call(w) ==
  \/ Exists(w) \/ Kind(w) \/ OpenFile(w) \/ Read(w)
  \/ List(w) \/ Entries(w) \/ Listed(w)
  \/ PostRoot(w) \/ Create(w) \/ Write(w) \/ Written(w) \/ WriteFails(w)
  \/ Mkdir(w) \/ IsDir(w) \/ MkRoot(w) \/ RootDir(w)
  \/ Unlink(w) \/ Rmdir(w)
  \/ OpenTree(w) \/ Children(w) \/ Child(w) \/ RmRoot(w) \/ RmRootFails(w)

Next == Crash \/ \E w \in Workers : Call(w) \/ \E j \in Jobs : Begin(w, j)

\* Every worker is a running thread; nobody is obliged to send a request.
Fairness == \A w \in Workers : WF_vars(Call(w))

Spec == Init /\ [][Next]_vars
FairSpec == Spec /\ Fairness

-----------------------------------------------------------------------------
(***************************************************************************)
(* What an atomic store would answer to j, when it finds `before` and      *)
(* leaves the directory as it is now.                                      *)
(***************************************************************************)
AtomicGet(r, old, n) ==
  /\ Content(n) = old
  /\ r = IF old = Absent THEN Plain("404")
         ELSE IF old = Dir THEN Plain("500")
         ELSE [code |-> "200", names |-> {}, blocks |-> old]

AtomicPost(r, old, n, b) ==
  IF old = Dir THEN r.code = "500" /\ Content(n) = Dir
  ELSE \/ r.code = "201" /\ Content(n) = Whole(b)
       \/ r.code = "500 write" /\ IsFile(n) /\ Len(Content(n)) < Size[b]

AtomicMkdir(r, old, n) ==
  IF old \in {Absent, Dir} THEN r.code = "201" /\ Content(n) = Dir
  ELSE r.code = "500" /\ Content(n) = old

AtomicDelete(r, old, n) ==
  /\ r.code = IF old = Absent THEN "404" ELSE "200"
  /\ Content(n) = Absent

AtomicList(r, old) ==
  /\ root = old
  /\ r.code = IF old = Absent THEN "500" ELSE "200"
  /\ r.code = "200" => r.names = {n \in Names : Content(n) # Absent}

AtomicClear(r, old) ==
  /\ \A n \in Names : Content(n) = Absent
  /\ r.code = IF old = Absent THEN "404" ELSE IF Removable THEN "200" ELSE "500"

ActedAtomically(w) ==
  LET j == job[w] IN
  CASE j.op = "get" -> AtomicGet(reply[w], before[w], j.name)
    [] j.op = "post" -> AtomicPost(reply[w], before[w], j.name, j.body)
    [] j.op = "mkdir" -> AtomicMkdir(reply[w], before[w], j.name)
    [] j.op = "delete" -> AtomicDelete(reply[w], before[w], j.name)
    [] j.op = "list" -> AtomicList(reply[w], before[w])
    [] j.op = "clear" -> AtomicClear(reply[w], before[w])

(***************************************************************************)
(* A request that no overlapping one can disturb (no other upload, mkdir   *)
(* or removal of the same name, no removal of the root; for a listing and  *)
(* a removal of the root: no change at all) answers and acts as an atomic  *)
(* store would, whatever the other workers do to other names, including    *)
(* the creation of the missing root by several of them at once.            *)
(***************************************************************************)
UndisturbedIsAtomic ==
  \A w \in Workers : pc[w] = "done" /\ clean[w] => ActedAtomically(w)

\* What makes UndisturbedIsAtomic and TypeOK inductive.  A worker runs the calls
\* of its request's handler, and has a file open while it reads or writes one.
CallFits == \A w \in Workers :
  LET at(calls) == pc[w] \in calls
      for(ops) == job[w].op \in ops
  IN  /\ at({"idle"}) <=> job[w] = None
      /\ at({"exists"}) => for({"get", "delete", "clear"})
      /\ at({"open", "read"}) => for({"get"})
      /\ at({"list", "entries"}) => for({"list"})
      /\ at({"root", "create", "write"}) => for({"post"})
      /\ at({"mkdir", "isdir", "mkroot", "rootdir", "again"}) => for({"mkdir"})
      /\ at({"kind", "unlink", "opentree"}) => for({"delete", "clear"})
      /\ at({"rmdir"}) => for({"delete"})
      /\ at({"child"}) => for({"clear"})
      /\ at({"read", "write"}) <=> node[w] # None
      /\ ~at({"read", "write"}) => buf[w] = <<>>
      /\ at({"list"}) => reply[w] = NoReply
      /\ at({"entries"}) => todo[w] \subseteq Unread
      /\ at({"write"}) => Len(buf[w]) <= Size[job[w].body]

\* An open file that is in the directory is there under the request's name: the
\* inode of an open file is given to no other name.
OpenUnderItsName == \A w \in Workers, n \in Names :
  node[w] # None /\ entry[n] = node[w] => n = Name(w)

FileInv == TypeOK /\ CallFits /\ OpenUnderItsName

\* What an undisturbed request that is not answered yet has seen and done.
UndisturbedSoFar(w) ==
  LET j == job[w]
      n == j.name
      at(calls) == pc[w] \in calls
  IN  /\ at({"exists", "kind", "opentree", "child", "list", "entries"}) /\ j.op \in {"list", "clear"} => before[w] = root
      /\ at({"exists", "open", "root", "create", "mkdir", "isdir", "mkroot", "rootdir", "again",
             "kind", "unlink", "opentree", "rmdir"}) /\ j.op # "clear" => before[w] = Content(n)
      /\ at({"open", "isdir", "kind", "unlink", "opentree", "child"}) => before[w] # Absent
      /\ at({"unlink"}) => j.op = "delete" /\ before[w] # Dir
      /\ at({"opentree"}) \/ at({"rmdir"}) => before[w] = Dir
      /\ at({"create", "rootdir", "again"}) => root = Dir
      /\ at({"read"}) => /\ entry[n] = node[w] /\ before[w] = data[node[w]]
                         /\ Len(buf[w]) <= Len(before[w]) /\ buf[w] = SubSeq(before[w], 1, Len(buf[w]))
      /\ at({"write"}) => /\ entry[n] = node[w] /\ data[node[w]] = buf[w] /\ before[w] # Dir
                          /\ \A i \in 1..Len(buf[w]) : buf[w][i] = j.body
      /\ at({"entries"}) => /\ root = Dir
                            /\ reply[w].names = {m \in Names : entry[m] # Absent /\ <<m, "unread">> \notin todo[w]}
      /\ at({"child"}) =>
           /\ \A m \in Names : entry[m] # Absent => <<m, "unread">> \in todo[w] \/ <<m, KindOf(m)>> \in todo[w]
           /\ \A c \in todo[w] : c[2] # "unread" => entry[c[1]] # Absent /\ c[2] = KindOf(c[1])

\* Nobody who could disturb an undisturbed request, also one that is answered,
\* is at work.
UndisturbedInv == \A w \in Workers : clean[w] /\ job[w] # None =>
  /\ \A v \in Workers \ {w} : Busy(v) => ~Disturbs(job[v], job[w])
  /\ UndisturbedSoFar(w)

StoreInv == FileInv /\ UndisturbedInv /\ UndisturbedIsAtomic

(***************************************************************************)
(* "Successfully wrote to" (docs/app.js:120): when every worker has just   *)
(* acknowledged an upload to the same name, the file holds one of the      *)
(* uploaded bodies.                                                        *)
(***************************************************************************)
AckedUploadIsStored ==
  \A n \in Names :
    (\A w \in Workers : /\ pc[w] = "done"
                        /\ job[w].op = "post" /\ job[w].name = n
                        /\ reply[w].code = "201")
    => \E w \in Workers : Content(n) = Whole(job[w].body)

(***************************************************************************)
(* Every request is answered, whatever the others do to the same files,    *)
(* unless the process dies first: no loop of a handler (write_all, the     *)
(* reading to the end, the removal of a tree) runs for ever.               *)
(***************************************************************************)
EveryRequestAnswered == \A w \in Workers : Busy(w) ~> ~Busy(w)

(***************************************************************************)
(* The handlers implement DirectoryStore: no request is answered as if it  *)
(* had met the names as they never were together, in spite of its looking  *)
(* at a name several times and of the other workers in between.  A get has *)
(* its effect when it opens the file, an upload when it creates it, a      *)
(* listing when it comes to a name, every other request in the call that   *)
(* decides its answer.                                                     *)
(***************************************************************************)
KindNow == [n \in Names |-> IF IsFile(n) THEN "file" ELSE entry[n]]
Out(code, names, unread) == [code |-> code, names |-> names, unread |-> unread]
OutNow == [w \in Workers |->
             IF pc[w] = "done" THEN Out(reply[w].code, reply[w].names, {})
             ELSE IF pc[w] = "entries"
             THEN Out("listing", reply[w].names, {n \in Names : <<n, "unread">> \in todo[w]})
             ELSE Out(IF pc[w] = "idle" THEN "none" ELSE IF pc[w] = "read" THEN "found"
                      ELSE IF pc[w] = "write" THEN "stored" ELSE "pending", {}, {})]

Directory == INSTANCE DirectoryStore WITH kind <- KindNow, out <- OutNow

ImplementsDirectory == Directory!DSpec
=============================================================================
