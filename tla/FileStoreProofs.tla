-------------------------- MODULE FileStoreProofs --------------------------
(***************************************************************************)
(* Proofs about FileStore, for any workers, names, bodies and requests:    *)
(* the types, that undisturbed requests act atomically, and that the       *)
(* handlers implement DirectoryStore.  The inductive invariant is StoreInv *)
(* of FileStore; its first part FileInv is inductive by itself.            *)
(***************************************************************************)
EXTENDS FileStore, FiniteSetTheorems, TLAPS

\* The two halves of TypeOK: the directory, and the workers.
DirectoryType ==
  /\ root \in {Dir, Absent}
  /\ entry \in [Names -> Inodes \cup {Absent, Dir}]
  /\ root = Absent => \A n \in Names : entry[n] = Absent
  /\ data \in [Inodes -> Blocks]
  /\ \A n, m \in Names : entry[n] \in Inodes /\ entry[n] = entry[m] => n = m

WorkerType ==
  /\ pc \in [Workers -> PCs]
  /\ job \in [Workers -> Jobs \cup {None}]
  /\ node \in [Workers -> Inodes \cup {None}]
  /\ buf \in [Workers -> Blocks]
  /\ todo \in [Workers -> SUBSET (Names \X Kinds)]
  /\ reply \in [Workers -> [code : Codes, names : SUBSET Names, blocks : Blocks]]
  /\ clean \in [Workers -> BOOLEAN]
  /\ before \in [Workers -> Blocks \cup {Absent, Dir, None}]

LEMMA TypeParts == TypeOK <=> DirectoryType /\ WorkerType
  BY DEF TypeOK, DirectoryType, WorkerType

LEMMA TypePartsPrimed == TypeOK' <=> DirectoryType' /\ WorkerType'
  BY DEF TypeOK, DirectoryType, WorkerType

\* A worker that is not idle has a request.
LEMMA JobType ==
  ASSUME FileInv, NEW w \in Workers, pc[w] # "idle"
  PROVE  /\ job[w] \in Jobs /\ job[w].name \in Names /\ job[w].body \in Bodies
         /\ job[w].op \in {"get", "list", "post", "mkdir", "delete", "clear"}
         /\ Size[job[w].body] \in Nat
  BY FileStoreAssumption DEF FileInv, TypeOK, CallFits, Job

\* The values of a function are no more than its arguments.
LEMMA ValuesCounted ==
  ASSUME NEW S, IsFiniteSet(S), NEW f
  PROVE  LET V == {f[x] : x \in S} IN IsFiniteSet(V) /\ Cardinality(V) <= Cardinality(S)
<1> DEFINE V == {f[x] : x \in S}
           g == [x \in S |-> f[x]]
<1>1. g \in Surjection(S, V)
  BY DEF Surjection
<1> QED BY <1>1, FS_Surjection

\* There are enough inodes: one is free for a name that has none.
LEMMA FreshIs ==
  ASSUME TypeOK, NEW m \in Names, ~IsFile(m)
  PROVE  /\ Fresh \in Inodes
         /\ \A n \in Names : entry[n] # Fresh
         /\ \A v \in Workers : node[v] # Fresh
<1> DEFINE named == {entry[n] : n \in Names \ {m}}
           open == {node[v] : v \in Workers}
<1>1. /\ IsFiniteSet(Names \ {m}) /\ Cardinality(Names \ {m}) = Cardinality(Names) - 1
      /\ Cardinality(Names) \in Nat /\ Cardinality(Workers) \in Nat /\ Cardinality(Inodes) \in Nat
  BY FileStoreAssumption, FS_RemoveElement, FS_CardinalityType
<1>2. IsFiniteSet(named) /\ Cardinality(named) <= Cardinality(Names) - 1
  BY <1>1, ValuesCounted
<1>3. IsFiniteSet(open) /\ Cardinality(open) <= Cardinality(Workers)
  BY FileStoreAssumption, ValuesCounted
<1>4. /\ IsFiniteSet(named \cup open)
      /\ Cardinality(named \cup open) < Cardinality(Inodes)
  <2>1. /\ IsFiniteSet(named \cup open)
        /\ Cardinality(named \cup open) = Cardinality(named) + Cardinality(open) - Cardinality(named \cap open)
    BY <1>2, <1>3, FS_Union
  <2>2. Cardinality(named \cap open) \in Nat
    BY <1>2, FS_Subset, FS_CardinalityType
  <2>3. Cardinality(named) \in Nat /\ Cardinality(open) \in Nat
    BY <1>2, <1>3, FS_CardinalityType
  <2>4. Cardinality(Inodes) >= Cardinality(Names) + Cardinality(Workers)
    BY FileStoreAssumption
  <2> HIDE DEF named, open
  <2> QED BY <1>1, <1>2, <1>3, <2>1, <2>2, <2>3, <2>4
<1>5. PICK i \in Inodes : i \notin named \cup open
  <2> SUFFICES ASSUME Inodes \subseteq named \cup open
               PROVE  FALSE
    OBVIOUS
  <2>1. Cardinality(Inodes) <= Cardinality(named \cup open)
    BY <1>4, FS_Subset
  <2>2. Cardinality(named \cup open) \in Nat
    BY <1>4, FS_CardinalityType
  <2> HIDE DEF named, open
  <2> QED BY <1>1, <1>4, <2>1, <2>2
<1>6. \A n \in Names : entry[n] # i
  BY <1>5 DEF IsFile
<1>7. \A v \in Workers : node[v] # i
  BY <1>5
<1> QED BY <1>6, <1>7 DEF Fresh

-----------------------------------------------------------------------------
(***************************************************************************)
(* What every call has in common: an answer, a next call, a changed name.  *)
(***************************************************************************)
LEMMA AnswerInv ==
  ASSUME FileInv, NEW w \in Workers, pc[w] # "idle",
         NEW code \in Codes, NEW names \in SUBSET Names, NEW blocks \in Blocks,
         Answer(w, code, names, blocks), DirectoryType',
         \A n \in Names : entry'[n] \in Inodes => entry'[n] = entry[n]
  PROVE  FileInv'
<1>1. /\ pc' = [pc EXCEPT ![w] = "done"] /\ node' = [node EXCEPT ![w] = None]
      /\ buf' = [buf EXCEPT ![w] = <<>>] /\ todo' = [todo EXCEPT ![w] = {}]
      /\ reply' = [reply EXCEPT ![w] = [code |-> code, names |-> names, blocks |-> blocks]]
      /\ UNCHANGED <<job, clean, before>>
  BY DEF Answer
<1>2. WorkerType /\ CallFits /\ OpenUnderItsName
  BY TypeParts DEF FileInv
<1>3. WorkerType'
  <2>1. <<>> \in Blocks
    BY DEF Blocks
  <2> QED BY <1>1, <1>2, <2>1 DEF WorkerType, PCs
<1>4. CallFits'
  BY <1>1, <1>2 DEF CallFits, WorkerType
<1>5. OpenUnderItsName'
  <2> SUFFICES ASSUME NEW v \in Workers, NEW n \in Names, node'[v] # None, entry'[n] = node'[v]
               PROVE  n = job'[v].name
    BY DEF OpenUnderItsName, Name
  <2>1. v # w /\ node'[v] = node[v] /\ node[v] \in Inodes
    BY <1>1, <1>2 DEF WorkerType
  <2> QED BY <1>1, <1>2, <2>1 DEF OpenUnderItsName, Name
<1> QED BY <1>3, <1>4, <1>5, TypePartsPrimed DEF FileInv

\* The calls a request of a kind consists of, those that have a file open aside.
CallsOf(op) ==
  IF op = "get" THEN {"exists", "open"}
  ELSE IF op = "list" THEN {}  \* List and Entries are treated by themselves
  ELSE IF op = "post" THEN {"root", "create"}
  ELSE IF op = "mkdir" THEN {"mkdir", "isdir", "mkroot", "rootdir", "again"}
  ELSE IF op = "delete" THEN {"exists", "kind", "unlink", "opentree", "rmdir"}
  ELSE {"exists", "kind", "unlink", "opentree", "child"}

LEMMA GotoInv ==
  ASSUME FileInv, NEW w \in Workers, pc[w] \notin {"idle", "read", "write"},
         NEW call \in CallsOf(job[w].op), Goto(w, call), UNCHANGED <<node, buf>>,
         todo' \in [Workers -> SUBSET (Names \X Kinds)],
         \A v \in Workers \ {w} : todo'[v] = todo[v],
         DirectoryType', UNCHANGED entry
  PROVE  FileInv'
<1>1. /\ pc' = [pc EXCEPT ![w] = call] /\ UNCHANGED <<job, reply, clean, before, node, buf>>
  BY DEF Goto
<1>2. WorkerType /\ CallFits /\ OpenUnderItsName
  BY TypeParts DEF FileInv
<1>3. job[w].op \in {"get", "list", "post", "mkdir", "delete", "clear"}
  BY JobType
<1>4. WorkerType'
  <2>1. call \in PCs
    BY <1>3 DEF CallsOf, PCs
  <2> QED BY <1>1, <1>2, <2>1 DEF WorkerType
<1>5. CallFits'
  <2>1. /\ \A v \in Workers \ {w} : pc'[v] = pc[v]
        /\ pc'[w] = call /\ job[w] # None /\ node[w] = None /\ buf[w] = <<>>
    BY <1>1, <1>2 DEF WorkerType, CallFits
  <2>2. CASE job[w].op = "get"
    BY <1>1, <1>2, <2>1, <2>2 DEF CallFits, CallsOf
  <2>3. CASE job[w].op = "list"
    BY <1>1, <1>2, <2>1, <2>3 DEF CallFits, CallsOf
  <2>4. CASE job[w].op = "post"
    BY <1>1, <1>2, <2>1, <2>4 DEF CallFits, CallsOf
  <2>5. CASE job[w].op = "mkdir"
    BY <1>1, <1>2, <2>1, <2>5 DEF CallFits, CallsOf
  <2>6. CASE job[w].op = "delete"
    BY <1>1, <1>2, <2>1, <2>6 DEF CallFits, CallsOf
  <2>7. CASE job[w].op = "clear"
    BY <1>1, <1>2, <2>1, <2>7 DEF CallFits, CallsOf
  <2> QED BY <1>3, <2>2, <2>3, <2>4, <2>5, <2>6, <2>7
<1>6. OpenUnderItsName'
  BY <1>1, <1>2 DEF OpenUnderItsName, Name
<1> QED BY <1>4, <1>5, <1>6, TypePartsPrimed DEF FileInv

\* Whatever happens to a name but that it is given an inode.
LEMMA EntryType ==
  ASSUME DirectoryType, NEW n \in Names, NEW x \in {Absent, Dir}, x = Dir => root = Dir,
         entry' = [entry EXCEPT ![n] = x], UNCHANGED <<root, data>>
  PROVE  DirectoryType' /\ \A m \in Names : entry'[m] \in Inodes => entry'[m] = entry[m]
BY FileStoreAssumption DEF DirectoryType

LEMMA SameDirectoryType ==
  ASSUME DirectoryType, UNCHANGED <<entry, data>>, root' = root \/ root' = Dir
  PROVE  DirectoryType' /\ \A m \in Names : entry'[m] \in Inodes => entry'[m] = entry[m]
BY FileStoreAssumption DEF DirectoryType

\* The two together, for the answers without a body and the names that stay.
LEMMA StatusInv ==
  ASSUME FileInv, NEW w \in Workers, pc[w] # "idle", NEW code \in Codes, Status(w, code),
         UNCHANGED <<root, entry, data>>
  PROVE  FileInv'
<1>1. <<>> \in Blocks /\ {} \in SUBSET Names /\ Answer(w, code, {}, <<>>)
  BY DEF Blocks, Status
<1>2. DirectoryType' /\ \A n \in Names : entry'[n] \in Inodes => entry'[n] = entry[n]
  BY TypeParts, SameDirectoryType DEF FileInv
<1> QED BY <1>1, <1>2, AnswerInv

LEMMA StepInv ==
  ASSUME FileInv, NEW w \in Workers, pc[w] \notin {"idle", "read", "write"},
         NEW call \in CallsOf(job[w].op), Goto(w, call), UNCHANGED <<node, buf, todo>>,
         UNCHANGED <<entry, data>>, root' = root \/ root' = Dir
  PROVE  FileInv'
<1>1. DirectoryType' /\ todo' \in [Workers -> SUBSET (Names \X Kinds)]
  BY TypeParts, SameDirectoryType DEF FileInv, TypeOK
<1> QED BY <1>1, GotoInv

-----------------------------------------------------------------------------
(***************************************************************************)
(* FileInv: the calls one by one.                                          *)
(***************************************************************************)
LEMMA ExistsInv ==
  ASSUME FileInv, NEW w \in Workers, Exists(w)
  PROVE  FileInv'
<1>1. /\ pc[w] = "exists" /\ job[w].op \in {"get", "delete", "clear"}
      /\ UNCHANGED <<root, entry, data>>
  BY DEF Exists, FileInv, CallFits, files
<1>2. CASE Status(w, "404")
  BY <1>1, <1>2, StatusInv DEF Codes
<1>3. CASE Goto(w, IF job[w].op = "get" THEN "open" ELSE "kind") /\ UNCHANGED local
  <2> DEFINE call == IF job[w].op = "get" THEN "open" ELSE "kind"
  <2>1. call \in CallsOf(job[w].op)
    BY <1>1 DEF CallsOf
  <2>2. Goto(w, call) /\ UNCHANGED <<node, buf, todo>>
    BY <1>3 DEF local
  <2> HIDE DEF call
  <2> QED BY <1>1, <2>1, <2>2, StepInv
<1> QED BY <1>2, <1>3 DEF Exists

LEMMA KindInv ==
  ASSUME FileInv, NEW w \in Workers, Kind(w)
  PROVE  FileInv'
<1>1. /\ pc[w] = "kind" /\ job[w].op \in {"delete", "clear"}
      /\ UNCHANGED <<root, entry, data, node, buf, todo>>
  BY DEF Kind, FileInv, CallFits, files, local
<1>2. PICK call \in {"opentree", "unlink"} : Goto(w, call)
  BY DEF Kind
<1>3. call \in CallsOf(job[w].op)
  BY <1>1 DEF CallsOf
<1> QED BY <1>1, <1>2, <1>3, StepInv

\* Whoever opens a file has it open under its name.
LEMMA OpenFileInv ==
  ASSUME FileInv, NEW w \in Workers, OpenFile(w)
  PROVE  FileInv'
<1>1. pc[w] = "open" /\ job[w].op = "get" /\ UNCHANGED <<root, entry, data>>
  BY DEF OpenFile, FileInv, CallFits, files
<1>2. CASE Status(w, "500")
  BY <1>1, <1>2, StatusInv DEF Codes
<1>3. CASE /\ IsFile(Name(w)) /\ node' = [node EXCEPT ![w] = entry[Name(w)]]
           /\ Goto(w, "read") /\ UNCHANGED <<buf, todo>>
  <2>1. /\ pc' = [pc EXCEPT ![w] = "read"] /\ node' = [node EXCEPT ![w] = entry[Name(w)]]
        /\ UNCHANGED <<root, entry, data, job, reply, clean, before, buf, todo>>
        /\ entry[Name(w)] \in Inodes /\ Name(w) \in Names
    BY <1>1, <1>3, JobType DEF Goto, IsFile, Name
  <2>2. TypeOK'
    BY <2>1 DEF FileInv, TypeOK, PCs
  <2>3. CallFits'
    BY <1>1, <2>1, FileStoreAssumption DEF FileInv, TypeOK, CallFits
  <2>4. OpenUnderItsName'
    BY <2>1 DEF FileInv, TypeOK, OpenUnderItsName, Name
  <2> QED BY <2>2, <2>3, <2>4 DEF FileInv
<1> QED BY <1>2, <1>3 DEF OpenFile

LEMMA RestType ==
  ASSUME FileInv, NEW w \in Workers, pc[w] = "read"
  PROVE  /\ node[w] \in Inodes /\ data[node[w]] \in Blocks /\ buf[w] \in Blocks
         /\ Rest(w) \in Blocks
<1>1. node[w] \in Inodes /\ data[node[w]] \in Blocks /\ buf[w] \in Blocks
  BY DEF FileInv, TypeOK, CallFits
<1> QED BY <1>1 DEF Rest, Blocks

LEMMA ReadInv ==
  ASSUME FileInv, NEW w \in Workers, Read(w)
  PROVE  FileInv'
<1>1. pc[w] = "read" /\ UNCHANGED <<root, entry, data>>
  BY DEF Read, files
<1>2. buf[w] \in Blocks /\ Rest(w) \in Blocks
  BY <1>1, RestType
<1>3. CASE Answer(w, "200", {}, buf[w])
  <2>1. DirectoryType' /\ \A n \in Names : entry'[n] \in Inodes => entry'[n] = entry[n]
    BY <1>1, TypeParts, SameDirectoryType DEF FileInv
  <2> QED BY <1>1, <1>2, <1>3, <2>1, AnswerInv DEF Codes
<1>4. CASE /\ Rest(w) # <<>>
           /\ \E k \in 1..Len(Rest(w)) : buf' = [buf EXCEPT ![w] = @ \o SubSeq(Rest(w), 1, k)]
           /\ UNCHANGED <<pc, job, node, todo, reply, ghosts>>
  <2>1. PICK k \in 1..Len(Rest(w)) : buf' = [buf EXCEPT ![w] = @ \o SubSeq(Rest(w), 1, k)]
    BY <1>4
  <2>2. SubSeq(Rest(w), 1, k) \in Blocks
    BY <1>2 DEF Blocks
  <2>3. buf[w] \o SubSeq(Rest(w), 1, k) \in Blocks
    BY <1>2, <2>2 DEF Blocks
  <2>4. TypeOK'
    BY <1>1, <1>4, <2>1, <2>3 DEF FileInv, TypeOK, ghosts
  <2>5. CallFits' /\ OpenUnderItsName'
    BY <1>1, <1>4, <2>1 DEF FileInv, TypeOK, CallFits, OpenUnderItsName, Name, ghosts
  <2> QED BY <2>4, <2>5 DEF FileInv
<1> QED BY <1>3, <1>4 DEF Read

LEMMA ListInv ==
  ASSUME FileInv, NEW w \in Workers, List(w)
  PROVE  FileInv'
<1>1. pc[w] = "list" /\ UNCHANGED <<root, entry, data>>
  BY DEF List, files
<1>2. CASE Status(w, "500")
  BY <1>1, <1>2, StatusInv DEF Codes
<1>3. CASE /\ todo' = [todo EXCEPT ![w] = Unread] /\ Goto(w, "entries")
           /\ UNCHANGED <<node, buf>>
  <2>1. /\ pc' = [pc EXCEPT ![w] = "entries"] /\ todo' = [todo EXCEPT ![w] = Unread]
        /\ UNCHANGED <<root, entry, data, job, reply, clean, before, node, buf>>
    BY <1>1, <1>3 DEF Goto
  <2>2. Unread \in SUBSET (Names \X Kinds)
    BY DEF Unread, Kinds
  <2>3. TypeOK'
    BY <2>1, <2>2 DEF FileInv, TypeOK, PCs
  <2>4. CallFits'
    <3>1. job[w].op = "list" /\ job[w] # None /\ node[w] = None /\ buf[w] = <<>>
      BY <1>1 DEF FileInv, CallFits
    <3>2. /\ pc'[w] = "entries" /\ todo'[w] = Unread
          /\ \A v \in Workers \ {w} : pc'[v] = pc[v] /\ todo'[v] = todo[v]
      BY <2>1 DEF FileInv, TypeOK
    <3> QED BY <2>1, <3>1, <3>2 DEF FileInv, CallFits
  <2>5. OpenUnderItsName'
    BY <2>1 DEF FileInv, OpenUnderItsName, Name
  <2> QED BY <2>3, <2>4, <2>5 DEF FileInv
<1> QED BY <1>2, <1>3 DEF List

LEMMA EntriesInv ==
  ASSUME FileInv, NEW w \in Workers, Entries(w)
  PROVE  FileInv'
<1>1. /\ pc[w] = "entries"
      /\ UNCHANGED <<root, entry, data, pc, job, node, buf, clean, before>>
  BY DEF Entries, files, ghosts
<1>2. PICK S \in Coming(w) : /\ reply' = [reply EXCEPT ![w].names = @ \cup Found(S)]
                            /\ todo' = [todo EXCEPT ![w] = @ \ S]
  BY DEF Entries
<1>3. Found(S) \subseteq Names
  BY DEF Found
<1>4. TypeOK'
  <2>1. reply' \in [Workers -> [code : Codes, names : SUBSET Names, blocks : Blocks]]
    BY <1>2, <1>3 DEF FileInv, TypeOK
  <2>2. todo' \in [Workers -> SUBSET (Names \X Kinds)]
    BY <1>2 DEF FileInv, TypeOK
  <2> QED BY <1>1, <2>1, <2>2 DEF FileInv, TypeOK
<1>5. CallFits'
  <2>1. \A v \in Workers : todo'[v] \subseteq todo[v] /\ (v # w => reply'[v] = reply[v])
    BY <1>2 DEF FileInv, TypeOK
  <2>2. \A v \in Workers : /\ pc[v] = "list" => reply'[v] = NoReply
                           /\ pc[v] = "entries" => todo'[v] \subseteq Unread
    BY <1>1, <2>1 DEF FileInv, CallFits
  <2> HIDE DEF NoReply, Unread
  <2> QED BY <1>1, <2>2 DEF FileInv, CallFits
<1>6. OpenUnderItsName'
  BY <1>1 DEF FileInv, OpenUnderItsName, Name
<1> QED BY <1>4, <1>5, <1>6 DEF FileInv

LEMMA ListedInv ==
  ASSUME FileInv, NEW w \in Workers, Listed(w)
  PROVE  FileInv'
<1>1. /\ pc[w] = "entries" /\ UNCHANGED <<root, entry, data>>
      /\ Answer(w, "200", reply[w].names, <<>>)
  BY DEF Listed, files
<1>2. DirectoryType' /\ \A n \in Names : entry'[n] \in Inodes => entry'[n] = entry[n]
  BY <1>1, TypeParts, SameDirectoryType DEF FileInv
<1>3. <<>> \in Blocks /\ reply[w].names \in SUBSET Names
  BY DEF Blocks, FileInv, TypeOK
<1> QED BY <1>1, <1>2, <1>3, AnswerInv DEF Codes

LEMMA PostRootInv ==
  ASSUME FileInv, NEW w \in Workers, PostRoot(w)
  PROVE  FileInv'
<1>1. /\ pc[w] = "root" /\ job[w].op = "post" /\ Goto(w, "create")
      /\ root' = Dir /\ UNCHANGED <<entry, data, node, buf, todo>>
  BY DEF PostRoot, FileInv, CallFits, local
<1>2. "create" \in CallsOf(job[w].op)
  BY <1>1 DEF CallsOf
<1> QED BY <1>1, <1>2, StepInv

\* What the creating open does when it succeeds.
LEMMA Created ==
  ASSUME FileInv, NEW w \in Workers, Create(w), ~Status(w, "500")
  PROVE  /\ pc[w] = "create" /\ job[w].op = "post" /\ root = Dir /\ root' = root
         /\ Name(w) \in Names /\ entry[Name(w)] # Dir
         /\ \E i \in Inodes :
              /\ \A n \in Names \ {Name(w)} : entry[n] # i
              /\ \A v \in Workers : node[v] = i => entry[Name(w)] = i
              /\ entry' = [entry EXCEPT ![Name(w)] = i]
              /\ data' = [data EXCEPT ![i] = <<>>]
              /\ node' = [node EXCEPT ![w] = i]
         /\ pc' = [pc EXCEPT ![w] = "write"]
         /\ UNCHANGED <<job, reply, clean, before, buf, todo>>
<1> DEFINE i == IF IsFile(Name(w)) THEN entry[Name(w)] ELSE Fresh
<1>1. /\ pc[w] = "create" /\ root # Absent /\ entry[Name(w)] # Dir
      /\ entry' = [entry EXCEPT ![Name(w)] = i]
      /\ data' = [data EXCEPT ![i] = <<>>]
      /\ node' = [node EXCEPT ![w] = i]
      /\ Goto(w, "write") /\ UNCHANGED <<root, buf, todo>>
  BY DEF Create
<1>2. job[w].op = "post" /\ Name(w) \in Names /\ root = Dir /\ TypeOK
  BY <1>1, JobType DEF FileInv, TypeOK, CallFits, Name
<1>3. /\ i \in Inodes
      /\ \A n \in Names \ {Name(w)} : entry[n] # i
      /\ \A v \in Workers : node[v] = i => entry[Name(w)] = i
  <2>1. CASE IsFile(Name(w))
    BY <1>2, <2>1 DEF IsFile, TypeOK
  <2>2. CASE ~IsFile(Name(w))
    BY <1>2, <2>2, FreshIs
  <2> QED BY <2>1, <2>2
<1> HIDE DEF i
<1> QED BY <1>1, <1>2, <1>3 DEF Goto

LEMMA CreateInv ==
  ASSUME FileInv, NEW w \in Workers, Create(w)
  PROVE  FileInv'
<1>1. CASE Status(w, "500")
  <2>1. pc[w] = "create" /\ UNCHANGED <<root, entry, data>>
    <3>1. pc[w] = "create"
      BY DEF Create
    <3>2. CASE root = Absent \/ entry[Name(w)] = Dir
      BY <3>1, <3>2 DEF Create, files
    <3>3. CASE ~(root = Absent \/ entry[Name(w)] = Dir)
      <4>1. pc'[w] = "write" /\ pc'[w] = "done"
        BY <1>1, <3>3 DEF Create, Goto, Status, Answer, FileInv, TypeOK
      <4> QED BY <4>1
    <3> QED BY <3>2, <3>3
  <2> QED BY <1>1, <2>1, StatusInv DEF Codes
<1>2. CASE ~Status(w, "500")
  <2>1. /\ pc[w] = "create" /\ job[w].op = "post" /\ root = Dir /\ root' = root
        /\ Name(w) \in Names /\ pc' = [pc EXCEPT ![w] = "write"]
        /\ UNCHANGED <<job, reply, clean, before, buf, todo>>
    BY <1>2, Created
  <2>2. PICK i \in Inodes :
          /\ \A n \in Names \ {Name(w)} : entry[n] # i
          /\ \A v \in Workers : node[v] = i => entry[Name(w)] = i
          /\ entry' = [entry EXCEPT ![Name(w)] = i]
          /\ data' = [data EXCEPT ![i] = <<>>]
          /\ node' = [node EXCEPT ![w] = i]
    BY <1>2, Created
  <2>3. DirectoryType'
    <3>1. DirectoryType /\ <<>> \in Blocks
      BY TypeParts DEF FileInv, Blocks
    <3> QED BY <2>1, <2>2, <3>1, FileStoreAssumption DEF DirectoryType
  <2>4. WorkerType'
    <3>1. WorkerType
      BY TypeParts DEF FileInv
    <3> QED BY <2>1, <2>2, <3>1 DEF WorkerType, PCs
  <2>5. CallFits'
    <3>1. buf[w] = <<>> /\ Len(buf[w]) = 0 /\ Size[job[w].body] \in Nat /\ job[w] # None
      BY <2>1, JobType DEF FileInv, CallFits
    <3>2. /\ pc'[w] = "write" /\ node'[w] = i /\ i # None
          /\ \A v \in Workers \ {w} : pc'[v] = pc[v] /\ node'[v] = node[v]
      BY <2>1, <2>2, FileStoreAssumption DEF FileInv, TypeOK
    <3> QED BY <2>1, <3>1, <3>2 DEF FileInv, CallFits
  <2>6. OpenUnderItsName'
    <3> SUFFICES ASSUME NEW v \in Workers, NEW n \in Names, node'[v] # None, entry'[n] = node'[v]
                 PROVE  n = job[v].name
      BY <2>1 DEF OpenUnderItsName, Name
    <3>1. CASE v = w
      BY <2>1, <2>2, <3>1 DEF FileInv, TypeOK, Name
    <3>2. CASE v # w /\ n # Name(w)
      BY <2>1, <2>2, <3>2 DEF FileInv, TypeOK, OpenUnderItsName, Name
    <3>3. CASE v # w /\ n = Name(w)
      BY <2>1, <2>2, <3>3 DEF FileInv, TypeOK, OpenUnderItsName, Name
    <3> QED BY <3>1, <3>2, <3>3
  <2> QED BY <2>3, <2>4, <2>5, <2>6, TypePartsPrimed DEF FileInv
<1> QED BY <1>1, <1>2

\* One call of write_all.
LEMMA OverlayType ==
  ASSUME NEW s \in Blocks, NEW from \in Nat, NEW to \in Nat, NEW b \in Bodies, from >= 1
  PROVE  Overlay(s, from, to, b) \in Blocks
<1> DEFINE n == IF to > Len(s) THEN to ELSE Len(s)
           e(i) == IF i \in from..to THEN b ELSE IF i <= Len(s) THEN s[i] ELSE Hole
<1>1. n \in Nat /\ \A i \in 1..n : e(i) \in Bodies \cup {Hole}
  BY DEF Blocks
<1> HIDE DEF n, e
<1>2. [i \in 1..n |-> e(i)] \in Seq(Bodies \cup {Hole})
  BY <1>1
<1> QED BY <1>2 DEF n, e, Overlay, Blocks

LEMMA WriteInv ==
  ASSUME FileInv, NEW w \in Workers, Write(w)
  PROVE  FileInv'
<1> DEFINE b == job[w].body
           at == Len(buf[w])
<1>1. /\ pc[w] = "write" /\ at < Size[b]
      /\ UNCHANGED <<root, entry, pc, job, node, todo, reply, clean, before>>
  BY DEF Write, ghosts
<1>2. PICK k \in 1..(Size[b] - at) :
        /\ data' = [data EXCEPT ![node[w]] = Overlay(@, at + 1, at + k, b)]
        /\ buf' = [buf EXCEPT ![w] = @ \o [i \in 1..k |-> b]]
  BY DEF Write
<1>3. /\ node[w] \in Inodes /\ data[node[w]] \in Blocks /\ buf[w] \in Blocks /\ b \in Bodies
      /\ at \in Nat /\ Size[b] \in Nat
  BY <1>1, JobType DEF FileInv, TypeOK, CallFits, Blocks
<1>4. k \in Nat /\ k <= Size[b] - at
  BY <1>1, <1>3
<1>5. [i \in 1..k |-> b] \in Blocks /\ Len([i \in 1..k |-> b]) = k
  BY <1>3, <1>4 DEF Blocks
<1>6. /\ buf[w] \o [i \in 1..k |-> b] \in Blocks
      /\ Len(buf[w] \o [i \in 1..k |-> b]) = at + k
  BY <1>3, <1>5 DEF Blocks
<1>7. Overlay(data[node[w]], at + 1, at + k, b) \in Blocks
  <2> DEFINE s == data[node[w]]
  <2>1. s \in Blocks /\ at + 1 \in Nat /\ at + k \in Nat /\ b \in Bodies
    BY <1>3, <1>4
  <2> HIDE DEF s, b, at
  <2>2. Overlay(s, at + 1, at + k, b) \in Blocks
    BY <1>3, <1>4, <2>1, OverlayType
  <2> QED BY <2>2 DEF s
<1>8. TypeOK'
  <2>1. buf' \in [Workers -> Blocks] /\ data' \in [Inodes -> Blocks]
    BY <1>2, <1>3, <1>6, <1>7 DEF FileInv, TypeOK
  <2> QED BY <1>1, <2>1 DEF FileInv, TypeOK
<1>9. CallFits' /\ OpenUnderItsName'
  <2>1. /\ Len(buf'[w]) <= Size[b]
        /\ \A v \in Workers \ {w} : buf'[v] = buf[v]
    BY <1>2, <1>3, <1>4, <1>6 DEF FileInv, TypeOK
  <2> QED BY <1>1, <2>1 DEF FileInv, CallFits, OpenUnderItsName, Name
<1> QED BY <1>8, <1>9 DEF FileInv

LEMMA PostEndsInv ==
  ASSUME FileInv, NEW w \in Workers, Written(w) \/ WriteFails(w)
  PROVE  FileInv'
  BY StatusInv DEF Written, WriteFails, files, Codes

LEMMA MkdirInv ==
  ASSUME FileInv, NEW w \in Workers, Mkdir(w)
  PROVE  FileInv'
<1>1. pc[w] \in {"mkdir", "again"} /\ job[w].op = "mkdir" /\ Name(w) \in Names /\ UNCHANGED <<root, data>>
  BY JobType DEF Mkdir, FileInv, CallFits, Name
<1>2. CASE root = Dir /\ entry[Name(w)] = Absent
  <2>1. entry' = [entry EXCEPT ![Name(w)] = Dir] /\ Answer(w, "201", {}, <<>>)
    BY <1>2 DEF Mkdir, Status
  <2>2. DirectoryType' /\ \A n \in Names : entry'[n] \in Inodes => entry'[n] = entry[n]
    BY <1>1, <1>2, <2>1, TypeParts, EntryType DEF FileInv
  <2>3. <<>> \in Blocks /\ "201" \in Codes
    BY DEF Blocks, Codes
  <2> QED BY <1>1, <2>1, <2>2, <2>3, AnswerInv
<1>3. CASE ~(root = Dir /\ entry[Name(w)] = Absent)
  <2>1. PICK call \in {"mkroot", "isdir"} : Goto(w, call)
    BY <1>3 DEF Mkdir
  <2>2. UNCHANGED <<entry, node, buf, todo>>
    BY <1>3 DEF Mkdir, local
  <2>3. call \in CallsOf(job[w].op)
    BY <1>1, <2>1 DEF CallsOf
  <2> QED BY <1>1, <2>1, <2>2, <2>3, StepInv
<1> QED BY <1>2, <1>3

LEMMA IsDirInv ==
  ASSUME FileInv, NEW w \in Workers, IsDir(w)
  PROVE  FileInv'
<1>1. pc[w] = "isdir" /\ UNCHANGED <<root, entry, data>>
  BY DEF IsDir, files
<1>2. PICK code \in {"201", "500"} : Status(w, code)
  BY DEF IsDir
<1> QED BY <1>1, <1>2, StatusInv DEF Codes

LEMMA MkRootInv ==
  ASSUME FileInv, NEW w \in Workers, MkRoot(w)
  PROVE  FileInv'
<1>1. /\ pc[w] = "mkroot" /\ job[w].op = "mkdir" /\ root' = Dir
      /\ UNCHANGED <<entry, data, node, buf, todo>>
  BY DEF MkRoot, FileInv, CallFits, local
<1>2. PICK call \in {"again", "rootdir"} : Goto(w, call)
  BY DEF MkRoot
<1>3. call \in CallsOf(job[w].op)
  BY <1>1, <1>2 DEF CallsOf
<1> QED BY <1>1, <1>2, <1>3, StepInv

LEMMA RootDirInv ==
  ASSUME FileInv, NEW w \in Workers, RootDir(w)
  PROVE  FileInv'
<1>1. pc[w] = "rootdir" /\ job[w].op = "mkdir" /\ UNCHANGED <<root, entry, data>>
  BY DEF RootDir, FileInv, CallFits, files
<1>2. CASE Status(w, "500")
  BY <1>1, <1>2, StatusInv DEF Codes
<1>3. CASE Goto(w, "again") /\ UNCHANGED local
  <2>1. "again" \in CallsOf(job[w].op)
    BY <1>1 DEF CallsOf
  <2> QED BY <1>1, <1>3, <2>1, StepInv DEF local
<1> QED BY <1>2, <1>3 DEF RootDir

\* unlink and rmdir, each of which answers.
LEMMA RemoveInv ==
  ASSUME FileInv, NEW w \in Workers, Unlink(w) \/ Rmdir(w)
  PROVE  FileInv'
<1>1. pc[w] \in {"unlink", "rmdir"} /\ Name(w) \in Names /\ UNCHANGED <<root, data>>
  BY JobType DEF Unlink, Rmdir, Name
<1>2. CASE Status(w, "500") /\ UNCHANGED entry
  BY <1>1, <1>2, StatusInv DEF Codes
<1>3. CASE entry' = [entry EXCEPT ![Name(w)] = Absent] /\ Status(w, "200")
  <2>1. DirectoryType' /\ \A n \in Names : entry'[n] \in Inodes => entry'[n] = entry[n]
    BY <1>1, <1>3, FileStoreAssumption, TypeParts, EntryType DEF FileInv
  <2>2. <<>> \in Blocks /\ "200" \in Codes /\ Answer(w, "200", {}, <<>>)
    BY <1>3 DEF Blocks, Codes, Status
  <2> QED BY <1>1, <2>1, <2>2, AnswerInv
<1> QED BY <1>2, <1>3 DEF Unlink, Rmdir

LEMMA OpenTreeInv ==
  ASSUME FileInv, NEW w \in Workers, OpenTree(w)
  PROVE  FileInv'
<1>1. pc[w] = "opentree" /\ job[w].op \in {"delete", "clear"} /\ UNCHANGED <<root, entry, data>>
  BY DEF OpenTree, FileInv, CallFits, files
<1>2. CASE Status(w, "500")
  BY <1>1, <1>2, StatusInv DEF Codes
<1>3. CASE /\ job[w].op = "clear" /\ Goto(w, "child") /\ UNCHANGED <<node, buf>>
           /\ todo' = [todo EXCEPT ![w] = Unread]
  <2>1. Unread \in SUBSET (Names \X Kinds)
    BY DEF Unread, Kinds
  <2>2. /\ todo' \in [Workers -> SUBSET (Names \X Kinds)] /\ DirectoryType'
        /\ \A v \in Workers \ {w} : todo'[v] = todo[v]
    BY <1>1, <1>3, <2>1, TypeParts, SameDirectoryType DEF FileInv, TypeOK
  <2>3. "child" \in CallsOf(job[w].op)
    BY <1>3 DEF CallsOf
  <2> QED BY <1>1, <1>3, <2>2, <2>3, GotoInv
<1>4. CASE job[w].op = "delete" /\ Goto(w, "rmdir") /\ UNCHANGED local
  <2>1. "rmdir" \in CallsOf(job[w].op)
    BY <1>4 DEF CallsOf
  <2> QED BY <1>1, <1>4, <2>1, StepInv DEF local
<1> QED BY <1>2, <1>3, <1>4 DEF OpenTree

LEMMA ChildrenInv ==
  ASSUME FileInv, NEW w \in Workers, Children(w)
  PROVE  FileInv'
<1>1. /\ pc[w] = "child"
      /\ UNCHANGED <<root, entry, data, pc, job, node, buf, reply, clean, before>>
  BY DEF Children, files, ghosts
<1>2. PICK S \in Coming(w) :
        todo' = [todo EXCEPT ![w] = (@ \ S) \cup {<<n, KindOf(n)>> : n \in Found(S)}]
  BY DEF Children
<1>3. {<<n, KindOf(n)>> : n \in Found(S)} \in SUBSET (Names \X Kinds)
  BY DEF Found, KindOf, Kinds
<1>4. TypeOK'
  <2>1. todo' \in [Workers -> SUBSET (Names \X Kinds)]
    BY <1>2, <1>3 DEF FileInv, TypeOK
  <2> QED BY <1>1, <2>1 DEF FileInv, TypeOK
<1>5. CallFits'
  <2>1. \A v \in Workers \ {w} : todo'[v] = todo[v]
    BY <1>2 DEF FileInv, TypeOK
  <2> QED BY <1>1, <2>1 DEF FileInv, CallFits
<1>6. OpenUnderItsName'
  BY <1>1 DEF FileInv, OpenUnderItsName, Name
<1> QED BY <1>4, <1>5, <1>6 DEF FileInv

LEMMA ChildInv ==
  ASSUME FileInv, NEW w \in Workers, Child(w)
  PROVE  FileInv'
<1>1. pc[w] = "child" /\ UNCHANGED <<root, data>>
  BY DEF Child
<1>2. CASE Status(w, "500") /\ UNCHANGED entry
  BY <1>1, <1>2, StatusInv DEF Codes
<1>3. CASE \E c \in todo[w] : /\ entry' = [entry EXCEPT ![c[1]] = Absent]
                              /\ todo' = [todo EXCEPT ![w] = @ \ {c}]
                              /\ UNCHANGED <<pc, job, node, buf, reply, ghosts>>
  <2>1. PICK c \in todo[w] : /\ entry' = [entry EXCEPT ![c[1]] = Absent]
                             /\ todo' = [todo EXCEPT ![w] = @ \ {c}]
    BY <1>3
  <2>2. c[1] \in Names /\ todo' \in [Workers -> SUBSET (Names \X Kinds)]
    BY <2>1 DEF FileInv, TypeOK
  <2>3. DirectoryType' /\ \A n \in Names : entry'[n] \in Inodes => entry'[n] = entry[n]
    BY <1>1, <2>1, <2>2, FileStoreAssumption, TypeParts, EntryType DEF FileInv
  <2>4. WorkerType' /\ CallFits'
    <3>1. \A v \in Workers \ {w} : todo'[v] = todo[v]
      BY <1>3 DEF FileInv, TypeOK
    <3> QED BY <1>1, <1>3, <2>2, <3>1, TypeParts DEF FileInv, WorkerType, CallFits, ghosts
  <2>5. OpenUnderItsName'
    <3>1. node \in [Workers -> Inodes \cup {None}]
      BY DEF FileInv, TypeOK
    <3> QED BY <1>3, <2>3, <3>1 DEF FileInv, OpenUnderItsName, Name
  <2> QED BY <2>3, <2>4, <2>5, TypePartsPrimed DEF FileInv
<1> QED BY <1>2, <1>3 DEF Child

LEMMA RmRootInv ==
  ASSUME FileInv, NEW w \in Workers, RmRoot(w)
  PROVE  FileInv'
<1>1. /\ pc[w] = "child" /\ \A n \in Names : entry[n] = Absent
      /\ root' = Absent /\ UNCHANGED <<entry, data, job, node, buf, clean, before>>
      /\ todo' = [v \in Workers |-> {<<c[1], "lost">> : c \in {d \in todo[v] : d[2] # "unread"}}]
      /\ pc' = [pc EXCEPT ![w] = "done"]
      /\ reply' = [reply EXCEPT ![w] = Plain("200")]
  BY DEF RmRoot, ghosts
<1>2. WorkerType /\ DirectoryType /\ CallFits /\ OpenUnderItsName
  BY TypeParts DEF FileInv
<1>3. DirectoryType'
  BY <1>1, <1>2, FileStoreAssumption DEF DirectoryType
<1>4. WorkerType'
  <2>1. \A v \in Workers : {<<c[1], "lost">> : c \in {d \in todo[v] : d[2] # "unread"}} \in SUBSET (Names \X Kinds)
    BY <1>2 DEF WorkerType, Kinds
  <2>2. todo' \in [Workers -> SUBSET (Names \X Kinds)]
    BY <1>1, <2>1
  <2>3. Plain("200") \in [code : Codes, names : SUBSET Names, blocks : Blocks]
    BY DEF Plain, Codes, Blocks
  <2> QED BY <1>1, <1>2, <2>2, <2>3 DEF WorkerType, PCs
<1>5. CallFits'
  <2>1. \A v \in Workers : todo[v] \subseteq Unread => todo'[v] \subseteq Unread
    BY <1>1 DEF Unread
  <2> QED BY <1>1, <1>2, <2>1 DEF CallFits, WorkerType
<1>6. OpenUnderItsName'
  BY <1>1, <1>2 DEF OpenUnderItsName, WorkerType, Name
<1> QED BY <1>3, <1>4, <1>5, <1>6, TypePartsPrimed DEF FileInv

LEMMA RmRootFailsInv ==
  ASSUME FileInv, NEW w \in Workers, RmRootFails(w)
  PROVE  FileInv'
  BY StatusInv DEF RmRootFails, files, Codes

LEMMA CallInv ==
  ASSUME FileInv, NEW w \in Workers, Call(w)
  PROVE  FileInv'
<1>1. CASE Exists(w) \/ Kind(w) \/ OpenFile(w) \/ Read(w)
  BY <1>1, ExistsInv, KindInv, OpenFileInv, ReadInv
<1>5. CASE List(w) \/ Entries(w) \/ Listed(w)
  BY <1>5, ListInv, EntriesInv, ListedInv
<1>2. CASE PostRoot(w) \/ Create(w) \/ Write(w) \/ Written(w) \/ WriteFails(w)
  BY <1>2, PostRootInv, CreateInv, WriteInv, PostEndsInv
<1>3. CASE Mkdir(w) \/ IsDir(w) \/ MkRoot(w) \/ RootDir(w)
  BY <1>3, MkdirInv, IsDirInv, MkRootInv, RootDirInv
<1>4. CASE Unlink(w) \/ Rmdir(w)
  BY <1>4, RemoveInv
<1>6. CASE OpenTree(w) \/ Children(w) \/ Child(w) \/ RmRoot(w) \/ RmRootFails(w)
  BY <1>6, OpenTreeInv, ChildrenInv, ChildInv, RmRootInv, RmRootFailsInv
<1> QED BY <1>1, <1>2, <1>3, <1>4, <1>5, <1>6 DEF Call

LEMMA BeginInv ==
  ASSUME FileInv, NEW w \in Workers, NEW j \in Jobs, Begin(w, j)
  PROVE  FileInv'
<1>1. /\ ~Busy(w) /\ UNCHANGED <<root, entry, data, node, todo>>
      /\ job' = [job EXCEPT ![w] = j]
      /\ pc' = [pc EXCEPT ![w] = FirstCall(j.op)]
      /\ buf' = [buf EXCEPT ![w] = <<>>]
      /\ reply' = [reply EXCEPT ![w] = NoReply]
      /\ before' = [before EXCEPT ![w] = IF j.op \in {"list", "clear"} THEN root ELSE Content(j.name)]
  BY DEF Begin
<1>2. WorkerType /\ DirectoryType /\ CallFits /\ OpenUnderItsName
  BY TypeParts DEF FileInv
<1>3. /\ j.op \in {"get", "list", "post", "mkdir", "delete", "clear"} /\ j.name \in Names
      /\ j # None
  BY FileStoreAssumption DEF Job
<1>4. /\ FirstCall(j.op) \in {"exists", "list", "root", "mkdir"}
      /\ FirstCall(j.op) = "exists" => j.op \in {"get", "delete", "clear"}
      /\ FirstCall(j.op) = "list" => j.op = "list"
      /\ FirstCall(j.op) = "root" => j.op = "post"
      /\ FirstCall(j.op) = "mkdir" => j.op = "mkdir"
  BY <1>3 DEF FirstCall
<1>5. WorkerType'
  <2>1. clean' \in [Workers -> BOOLEAN]
    <3> DEFINE C(v) == IF v = w THEN \A u \in Workers \ {w} : Busy(u) => ~Disturbs(job[u], j)
                       ELSE clean[v] /\ (job[v] # None => ~Disturbs(j, job[v]))
    <3>1. clean' = [v \in Workers |-> C(v)]
      BY DEF Begin
    <3>2. \A v \in Workers : C(v) \in BOOLEAN
      OBVIOUS
    <3> HIDE DEF C
    <3> QED BY <3>1, <3>2
  <2>2. before' \in [Workers -> Blocks \cup {Absent, Dir, None}]
    BY <1>1, <1>2, <1>3 DEF WorkerType, DirectoryType, Content, IsFile
  <2>3. NoReply \in [code : Codes, names : SUBSET Names, blocks : Blocks] /\ <<>> \in Blocks
    BY DEF NoReply, Plain, Codes, Blocks
  <2> QED BY <1>1, <1>2, <1>4, <2>1, <2>2, <2>3 DEF WorkerType, PCs
<1>6. DirectoryType'
  BY <1>1, <1>2 DEF DirectoryType
<1>7. CallFits'
  <2>1. node[w] = None
    BY <1>1, <1>2 DEF CallFits, Busy
  <2> QED BY <1>1, <1>2, <1>3, <1>4, <2>1 DEF CallFits, WorkerType
<1>8. OpenUnderItsName'
  <2>1. node[w] = None
    BY <1>1, <1>2 DEF CallFits, Busy
  <2> QED BY <1>1, <1>2, <2>1 DEF OpenUnderItsName, WorkerType, Name
<1> QED BY <1>5, <1>6, <1>7, <1>8, TypePartsPrimed DEF FileInv

LEMMA CrashInv ==
  ASSUME FileInv, Crash
  PROVE  FileInv'
<1>1. DirectoryType'
  BY TypeParts DEF FileInv, Crash, files, DirectoryType
<1>2. WorkerType'
  BY DEF Crash, WorkerType, PCs, Blocks, NoReply, Plain, Codes
<1>3. CallFits' /\ OpenUnderItsName'
  BY DEF Crash, CallFits, OpenUnderItsName
<1> QED BY <1>1, <1>2, <1>3, TypePartsPrimed DEF FileInv

LEMMA InitFileInv == Init => FileInv
<1> SUFFICES ASSUME Init
             PROVE  FileInv
  OBVIOUS
<1>1. DirectoryType
  BY FileStoreAssumption DEF Init, DirectoryType, Blocks
<1>2. WorkerType
  BY DEF Init, WorkerType, PCs, Blocks, NoReply, Plain, Codes
<1>3. CallFits /\ OpenUnderItsName
  BY DEF Init, CallFits, OpenUnderItsName
<1> QED BY <1>1, <1>2, <1>3, TypeParts DEF FileInv

LEMMA NextFileInv ==
  ASSUME FileInv, [Next]_vars
  PROVE  FileInv'
<1>1. CASE UNCHANGED vars
  BY <1>1 DEF FileInv, TypeOK, CallFits, OpenUnderItsName, Name, vars
<1>2. CASE Next
  BY <1>2, CrashInv, CallInv, BeginInv DEF Next
<1> QED BY <1>1, <1>2

LEMMA SpecFileInv == Spec => []FileInv
<1>1. Init => FileInv
  BY InitFileInv
<1>2. FileInv /\ [Next]_vars => FileInv'
  BY NextFileInv
<1> QED BY <1>1, <1>2, PTL DEF Spec

\* The directory is one of names and inodes, no two names share an inode, and
\* each worker holds what its next call needs.
THEOREM StoreTypeCorrect == Spec => []TypeOK
<1>1. FileInv => TypeOK
  BY DEF FileInv
<1> QED BY <1>1, SpecFileInv, PTL

-----------------------------------------------------------------------------
(***************************************************************************)
(* The handlers implement DirectoryStore: the refinement, call by call.    *)
(***************************************************************************)
LEMMA InitImplements == Init => Directory!DInit
<1> SUFFICES ASSUME Init
             PROVE  Directory!DInit
  OBVIOUS
<1>1. KindNow = [n \in Names |-> Absent]
  BY FileStoreAssumption DEF Init, KindNow, IsFile
<1>2. OutNow = [w \in Workers |-> Directory!State("none")]
  BY DEF Init, OutNow, Out, Directory!State
<1> QED BY <1>1, <1>2 DEF Init, Directory!DInit

\* What the store sees of a worker.
Seen(w) ==
  IF pc[w] = "done" THEN Out(reply[w].code, reply[w].names, {})
  ELSE IF pc[w] = "entries"
  THEN Out("listing", reply[w].names, {n \in Names : <<n, "unread">> \in todo[w]})
  ELSE Out(IF pc[w] = "idle" THEN "none" ELSE IF pc[w] = "read" THEN "found"
           ELSE IF pc[w] = "write" THEN "stored" ELSE "pending", {}, {})

\* What a worker has yet to walk through is its own, but for the removal of the root.
OthersWalk(w) == \A v \in Workers \ {w} : todo'[v] = todo[v]

LEMMA OutSeen == OutNow = [w \in Workers |-> Seen(w)]
  BY DEF OutNow, Seen

LEMMA OutSeenPrimed == OutNow' = [w \in Workers |-> Seen(w)']
  BY DEF OutNow, Seen

\* A worker's call changes what the store sees of that worker at most.
LEMMA OutChanges ==
  ASSUME NEW w \in Workers,
         \A v \in Workers \ {w} : pc'[v] = pc[v] /\ reply'[v] = reply[v], OthersWalk(w)
  PROVE  OutNow' = [OutNow EXCEPT ![w] = Seen(w)']
<1>1. \A v \in Workers \ {w} : Seen(v)' = Seen(v)
  BY DEF Seen, OthersWalk
<1> QED BY <1>1, OutSeen, OutSeenPrimed

LEMMA AnswerSeen ==
  ASSUME FileInv, NEW w \in Workers, NEW code, NEW names, NEW blocks,
         Answer(w, code, names, blocks)
  PROVE  OutNow' = [OutNow EXCEPT ![w] = Out(code, names, {})]
<1>1. /\ pc'[w] = "done" /\ reply'[w] = [code |-> code, names |-> names, blocks |-> blocks]
      /\ \A v \in Workers \ {w} : pc'[v] = pc[v] /\ reply'[v] = reply[v]
      /\ OthersWalk(w)
  BY DEF Answer, FileInv, TypeOK, OthersWalk
<1>2. Seen(w)' = Out(code, names, {})
  BY <1>1 DEF Seen
<1> QED BY <1>1, <1>2, OutChanges

LEMMA GotoSeen ==
  ASSUME FileInv, NEW w \in Workers, NEW call, call \notin {"idle", "done", "entries"}, Goto(w, call),
         OthersWalk(w)
  PROVE  OutNow' = [OutNow EXCEPT ![w] = Directory!State(
                      IF call = "read" THEN "found" ELSE IF call = "write" THEN "stored" ELSE "pending")]
<1>1. /\ pc'[w] = call /\ reply' = reply
      /\ \A v \in Workers \ {w} : pc'[v] = pc[v]
  BY DEF Goto, FileInv, TypeOK
<1>2. Seen(w)' = Directory!State(
                   IF call = "read" THEN "found" ELSE IF call = "write" THEN "stored" ELSE "pending")
  BY <1>1 DEF Seen, Out, Directory!State
<1> QED BY <1>1, <1>2, OutChanges

\* A worker at a call, with no file open and no listing, has a request that is pending.
LEMMA PendingSeen ==
  ASSUME FileInv, NEW w \in Workers, pc[w] \notin {"idle", "done", "read", "write", "entries"}
  PROVE  /\ OutNow[w] = Directory!State("pending")
         /\ \A ops : job[w].op \in ops => Directory!Pending(w, ops)
  BY OutSeen DEF Seen, Out, Directory!State, Directory!Pending

LEMMA GotoStutters ==
  ASSUME FileInv, NEW w \in Workers, pc[w] \notin {"idle", "done", "read", "write", "entries"},
         NEW call, call \notin {"idle", "done", "read", "write", "entries"}, Goto(w, call), OthersWalk(w)
  PROVE  OutNow' = OutNow /\ job' = job
<1>1. OutNow' = [OutNow EXCEPT ![w] = Directory!State("pending")]
  BY GotoSeen
<1>2. OutNow[w] = Directory!State("pending") /\ job' = job
  BY PendingSeen DEF Goto
<1> QED BY <1>1, <1>2, OutSeen

LEMMA StatusBecomes ==
  ASSUME FileInv, NEW w \in Workers, NEW code, Status(w, code)
  PROVE  Directory!Become(w, code)
<1>1. Answer(w, code, {}, <<>>)
  BY DEF Status
<1>2. OutNow' = [OutNow EXCEPT ![w] = Out(code, {}, {})]
  BY <1>1, AnswerSeen
<1>3. job' = job
  BY <1>1 DEF Answer
<1> QED BY <1>2, <1>3 DEF Directory!Become, Directory!State, Out

\* Of a name the store sees whether it is a file or a directory.
LEMMA KindSeen ==
  ASSUME FileInv, NEW n \in Names
  PROVE  /\ KindNow[n] = Absent <=> entry[n] = Absent
         /\ KindNow[n] = Dir <=> entry[n] = Dir
         /\ KindNow[n] = "file" <=> IsFile(n)
  BY FileStoreAssumption DEF KindNow, IsFile, FileInv, TypeOK

LEMMA KindStays ==
  ASSUME entry' = entry
  PROVE  KindNow' = KindNow
  BY DEF KindNow, IsFile

LEMMA KindChanges ==
  ASSUME FileInv, NEW n \in Names, NEW x, entry' = [entry EXCEPT ![n] = x]
  PROVE  KindNow' = [KindNow EXCEPT ![n] = IF x \in Inodes THEN "file" ELSE x]
  BY DEF KindNow, IsFile, FileInv, TypeOK

LEMMA RefusedStep ==
  ASSUME FileInv, NEW w \in Workers, pc[w] \notin {"idle", "done", "read", "write", "entries"},
         Status(w, "500"), UNCHANGED <<root, entry>>
  PROVE  Directory!Refused(w)
<1>1. Directory!Become(w, "500") /\ OutNow[w].code = "pending"
  BY StatusBecomes, PendingSeen DEF Directory!State
<1> QED BY <1>1, KindStays DEF Directory!Refused

LEMMA StutterStep ==
  ASSUME FileInv, NEW w \in Workers, pc[w] \notin {"idle", "done", "read", "write", "entries"},
         NEW call, call \notin {"idle", "done", "read", "write", "entries"}, Goto(w, call), OthersWalk(w),
         UNCHANGED <<root, entry>>
  PROVE  UNCHANGED Directory!dvars
  BY GotoStutters, KindStays DEF Directory!dvars

LEMMA RootedStep ==
  ASSUME FileInv, NEW w \in Workers, pc[w] \notin {"idle", "done", "read", "write", "entries"},
         job[w].op \in {"post", "mkdir"},
         NEW call, call \notin {"idle", "done", "read", "write", "entries"}, Goto(w, call), OthersWalk(w),
         root' = Dir, UNCHANGED entry
  PROVE  Directory!Rooted(w)
  BY GotoStutters, KindStays, PendingSeen DEF Directory!Rooted

LEMMA GetSteps ==
  ASSUME FileInv, NEW w \in Workers, Exists(w) \/ Kind(w) \/ OpenFile(w) \/ Read(w)
  PROVE  \/ Directory!Missing(w) \/ Directory!Refused(w) \/ Directory!Got(w)
         \/ Directory!Answered(w) \/ UNCHANGED Directory!dvars
<1>1. CASE Exists(w)
  <2>1. /\ pc[w] = "exists" /\ job[w].op \in {"get", "delete", "clear"} /\ Name(w) \in Names
        /\ UNCHANGED <<root, entry>> /\ root \in {Dir, Absent}
    BY <1>1, JobType DEF Exists, FileInv, TypeOK, CallFits, files, Name
  <2>2. CASE Status(w, "404") /\ ~(IF job[w].op = "clear" THEN root = Dir ELSE entry[Name(w)] # Absent)
    <3>1. Directory!Become(w, "404")
      BY <2>2, StatusBecomes
    <3>2. \/ Directory!Pending(w, {"get", "delete"}) /\ Directory!Is(w, Absent)
          \/ Directory!Pending(w, {"clear"}) /\ root = Absent
      <4>1. CASE job[w].op = "clear"
        BY <2>1, <2>2, <4>1, PendingSeen
      <4>2. CASE job[w].op # "clear"
        BY <2>1, <2>2, <4>2, PendingSeen, KindSeen DEF Directory!Is, Name
      <4> QED BY <4>1, <4>2
    <3> QED BY <2>1, <3>1, <3>2, KindStays DEF Directory!Missing
  <2>3. CASE UNCHANGED todo /\ \E call \in {"open", "kind"} : Goto(w, call)
    BY <2>1, <2>3, StutterStep DEF OthersWalk
  <2> QED BY <1>1, <2>2, <2>3 DEF Exists, local
<1>2. CASE Kind(w)
  <2>1. PICK call \in {"opentree", "unlink"} : Goto(w, call)
    BY <1>2 DEF Kind
  <2> QED BY <1>2, <2>1, StutterStep DEF Kind, files, local, OthersWalk
<1>3. CASE OpenFile(w)
  <2>1. /\ pc[w] = "open" /\ job[w].op = "get" /\ Name(w) \in Names
        /\ UNCHANGED <<root, entry>>
    BY <1>3, JobType DEF OpenFile, FileInv, CallFits, files, Name
  <2>2. CASE Status(w, "500")
    BY <2>1, <2>2, RefusedStep
  <2>3. CASE IsFile(Name(w)) /\ Goto(w, "read") /\ UNCHANGED todo
    <3>1. OutNow' = [OutNow EXCEPT ![w] = Directory!State("found")] /\ job' = job
      BY <2>3, GotoSeen DEF Goto, OthersWalk
    <3>2. Directory!Pending(w, {"get"}) /\ Directory!Is(w, "file")
      BY <2>1, <2>3, PendingSeen, KindSeen DEF Directory!Is, Name
    <3> QED BY <2>1, <3>1, <3>2, KindStays DEF Directory!Got, Directory!Become, Directory!File
  <2> QED BY <1>3, <2>2, <2>3 DEF OpenFile
<1>4. CASE Read(w)
  <2>1. pc[w] = "read" /\ UNCHANGED <<root, entry>>
    BY <1>4 DEF Read, files
  <2>2. CASE Answer(w, "200", {}, buf[w])
    <3>1. OutNow' = [OutNow EXCEPT ![w] = Directory!State("200")] /\ job' = job
      BY <2>2, AnswerSeen DEF Answer, Directory!State, Out
    <3>2. OutNow[w].code = "found"
      BY <2>1, OutSeen DEF Seen, Out
    <3> QED BY <2>1, <3>1, <3>2, KindStays DEF Directory!Answered, Directory!Become
  <2>3. CASE UNCHANGED <<pc, job, node, todo, reply, ghosts>>
    BY <2>1, <2>3, KindStays DEF Directory!dvars, OutNow
  <2> QED BY <1>4, <2>2, <2>3 DEF Read
<1> QED BY <1>1, <1>2, <1>3, <1>4

\* A listing comes to a name in the store when it does so in the handler.
LEMMA ListSteps ==
  ASSUME FileInv, NEW w \in Workers, List(w) \/ Entries(w) \/ Listed(w)
  PROVE  \/ Directory!Opened(w) \/ Directory!Refused(w) \/ Directory!Listed(w)
         \/ \E S \in SUBSET OutNow[w].unread : Directory!ComesTo(w, S)
<1>1. CASE List(w)
  <2>1. pc[w] = "list" /\ job[w].op = "list" /\ UNCHANGED <<root, entry>>
    BY <1>1 DEF List, FileInv, CallFits, files
  <2>2. CASE Status(w, "500")
    BY <2>1, <2>2, RefusedStep
  <2>3. CASE root = Dir /\ todo' = [todo EXCEPT ![w] = Unread] /\ Goto(w, "entries")
    <3>1. /\ pc'[w] = "entries" /\ todo'[w] = Unread /\ reply' = reply /\ job' = job
          /\ \A v \in Workers \ {w} : pc'[v] = pc[v] /\ reply'[v] = reply[v]
          /\ OthersWalk(w)
      BY <2>3 DEF Goto, OthersWalk, FileInv, TypeOK
    <3>2. reply[w].names = {}
      BY <2>1 DEF FileInv, CallFits, NoReply, Plain
    <3>3. {n \in Names : <<n, "unread">> \in Unread} = Names
      BY DEF Unread
    <3>4. Seen(w)' = Out("listing", {}, Names)
      BY <3>1, <3>2, <3>3 DEF Seen
    <3>5. OutNow' = [OutNow EXCEPT ![w] = Out("listing", {}, Names)]
      BY <3>1, <3>4, OutChanges
    <3> QED BY <2>1, <2>3, <3>1, <3>5, PendingSeen, KindStays DEF Directory!Opened, Out
  <2> QED BY <1>1, <2>2, <2>3 DEF List
<1>2. CASE Entries(w)
  <2>1. /\ pc[w] = "entries" /\ UNCHANGED <<root, entry, pc, job>>
    BY <1>2 DEF Entries, files
  <2>2. PICK S \in Coming(w) : /\ reply' = [reply EXCEPT ![w].names = @ \cup Found(S)]
                              /\ todo' = [todo EXCEPT ![w] = @ \ S]
    BY <1>2 DEF Entries
  <2> DEFINE N == {n \in Names : <<n, "unread">> \in S}
             U == {n \in Names : <<n, "unread">> \in todo[w]}
  <2>3. OutNow[w] = Out("listing", reply[w].names, U)
    BY <2>1, OutSeen DEF Seen
  <2>4. /\ \A v \in Workers \ {w} : pc'[v] = pc[v] /\ reply'[v] = reply[v]
        /\ OthersWalk(w)
        /\ reply'[w].names = reply[w].names \cup Found(S) /\ todo'[w] = todo[w] \ S
    BY <2>1, <2>2 DEF OthersWalk, FileInv, TypeOK
  <2>5. S \subseteq todo[w] /\ \A c \in S : c[2] = "unread" /\ c \in Names \X Kinds
    BY <2>2 DEF Coming, FileInv, TypeOK
  <2>6. Found(S) = {n \in N : KindNow[n] # Absent}
    <3>1. \A n \in Names : (\E c \in S : c[1] = n) <=> <<n, "unread">> \in S
      BY <2>5
    <3> QED BY <3>1, KindSeen DEF Found
  <2>7. {n \in Names : <<n, "unread">> \in todo[w] \ S} = U \ N
    OBVIOUS
  <2>8. Seen(w)' = Out("listing", reply[w].names \cup {n \in N : KindNow[n] # Absent}, U \ N)
    BY <2>1, <2>4, <2>6, <2>7 DEF Seen
  <2>9. OutNow' = [OutNow EXCEPT ![w] = Out("listing", reply[w].names \cup {n \in N : KindNow[n] # Absent}, U \ N)]
    BY <2>4, <2>8, OutChanges
  <2>10. N \subseteq U
    BY <2>5
  <2> HIDE DEF N, U
  <2>11. Directory!ComesTo(w, N)
    BY <2>1, <2>3, <2>9, KindStays DEF Directory!ComesTo, Out
  <2>12. N \in SUBSET OutNow[w].unread
    BY <2>3, <2>10 DEF Out
  <2> QED BY <2>11, <2>12
<1>3. CASE Listed(w)
  <2>1. /\ pc[w] = "entries" /\ todo[w] = {} /\ UNCHANGED <<root, entry>>
        /\ Answer(w, "200", reply[w].names, <<>>)
    BY <1>3 DEF Listed, files
  <2>2. OutNow' = [OutNow EXCEPT ![w] = Out("200", reply[w].names, {})] /\ job' = job
    BY <2>1, AnswerSeen DEF Answer
  <2>3. OutNow[w] = Out("listing", reply[w].names, {})
    BY <2>1, OutSeen DEF Seen
  <2>4. OutNow[w].code = "listing" /\ OutNow[w].unread = {}
    BY <2>3 DEF Out
  <2>5. Out("200", reply[w].names, {}) = [OutNow[w] EXCEPT !.code = "200"]
    BY <2>3 DEF Out
  <2>6. OutNow' = [OutNow EXCEPT ![w].code = "200"]
    BY <2>2, <2>5
  <2> QED BY <2>1, <2>2, <2>4, <2>6, KindStays DEF Directory!Listed
<1> QED BY <1>1, <1>2, <1>3

LEMMA PostSteps ==
  ASSUME FileInv, NEW w \in Workers,
         PostRoot(w) \/ Create(w) \/ Write(w) \/ Written(w) \/ WriteFails(w)
  PROVE  \/ Directory!Rooted(w) \/ Directory!Refused(w) \/ Directory!Stored(w)
         \/ Directory!Answered(w) \/ UNCHANGED Directory!dvars
<1>1. CASE PostRoot(w)
  <2>1. pc[w] = "root" /\ job[w].op = "post"
    BY <1>1 DEF PostRoot, FileInv, CallFits
  <2> QED BY <1>1, <2>1, RootedStep DEF PostRoot, local, OthersWalk
<1>2. CASE Create(w) /\ Status(w, "500") /\ UNCHANGED files
  <2>1. pc[w] = "create"
    BY <1>2 DEF Create
  <2> QED BY <1>2, <2>1, RefusedStep DEF files
<1>3. CASE Create(w) /\ ~Status(w, "500")
  <2>1. /\ pc[w] = "create" /\ job[w].op = "post" /\ root = Dir /\ root' = root
        /\ Name(w) \in Names /\ entry[Name(w)] # Dir
        /\ pc' = [pc EXCEPT ![w] = "write"]
        /\ UNCHANGED <<job, reply, clean, before, todo>>
    BY <1>3, Created
  <2>2. PICK i \in Inodes : entry' = [entry EXCEPT ![Name(w)] = i]
    BY <1>3, Created
  <2>3. OutNow' = [OutNow EXCEPT ![w] = Directory!State("stored")]
    BY <2>1, GotoSeen DEF Goto, OthersWalk
  <2>4. KindNow' = [KindNow EXCEPT ![Name(w)] = "file"]
    BY <2>1, <2>2, KindChanges
  <2>5. Directory!Pending(w, {"post"}) /\ ~Directory!Is(w, Dir)
    BY <2>1, PendingSeen, KindSeen DEF Directory!Is, Name
  <2> QED BY <2>1, <2>3, <2>4, <2>5
          DEF Directory!Stored, Directory!Turn, Directory!Become, Directory!File, Name
<1>4. CASE Write(w)
  <2>1. UNCHANGED <<root, entry, pc, job, reply, todo>>
    BY <1>4 DEF Write
  <2> QED BY <2>1, KindStays DEF Directory!dvars, OutNow
<1>5. CASE Written(w) \/ WriteFails(w)
  <2>1. pc[w] = "write" /\ UNCHANGED <<root, entry>>
    BY <1>5 DEF Written, WriteFails, files
  <2>2. Directory!Become(w, "201") \/ Directory!Become(w, "500 write")
    BY <1>5, StatusBecomes DEF Written, WriteFails
  <2>3. OutNow[w].code = "stored"
    BY <2>1, OutSeen DEF Seen, Out
  <2> QED BY <2>1, <2>2, <2>3, KindStays DEF Directory!Answered
<1>6. Create(w) /\ Status(w, "500") => UNCHANGED files
  <2> SUFFICES ASSUME Create(w), Status(w, "500"), ~(root = Absent \/ entry[Name(w)] = Dir)
               PROVE  FALSE
    BY DEF Create
  <2>1. pc'[w] = "write" /\ pc'[w] = "done"
    BY DEF Create, Goto, Status, Answer, FileInv, TypeOK
  <2> QED BY <2>1
<1> QED BY <1>1, <1>2, <1>3, <1>4, <1>5, <1>6

LEMMA MkdirSteps ==
  ASSUME FileInv, NEW w \in Workers, Mkdir(w) \/ IsDir(w) \/ MkRoot(w) \/ RootDir(w)
  PROVE  \/ Directory!Made(w) \/ Directory!Refused(w) \/ Directory!Rooted(w)
         \/ UNCHANGED Directory!dvars
<1>0. /\ pc[w] \in {"mkdir", "again", "isdir", "mkroot", "rootdir"} /\ job[w].op = "mkdir"
      /\ Name(w) \in Names /\ Directory!Pending(w, {"mkdir"})
  <2>1. pc[w] \in {"mkdir", "again", "isdir", "mkroot", "rootdir"}
    BY DEF Mkdir, IsDir, MkRoot, RootDir
  <2>2. job[w].op = "mkdir"
    BY <2>1 DEF FileInv, CallFits
  <2> QED BY <2>1, <2>2, JobType, PendingSeen DEF Name
<1>1. CASE Mkdir(w) /\ root = Dir /\ entry[Name(w)] = Absent
  <2>1. /\ entry' = [entry EXCEPT ![Name(w)] = Dir] /\ Status(w, "201") /\ root' = root
    BY <1>1 DEF Mkdir
  <2>2. KindNow' = [KindNow EXCEPT ![Name(w)] = Dir]
    BY <1>0, <2>1, KindChanges, FileStoreAssumption
  <2>3. Directory!Is(w, Absent)
    BY <1>0, <1>1, KindSeen DEF Directory!Is, Name
  <2> QED BY <1>0, <1>1, <2>1, <2>2, <2>3, StatusBecomes DEF Directory!Made, Directory!Turn, Name
<1>2. CASE Mkdir(w) /\ ~(root = Dir /\ entry[Name(w)] = Absent)
  <2>1. PICK call \in {"mkroot", "isdir"} : Goto(w, call)
    BY <1>2 DEF Mkdir
  <2> QED BY <1>0, <1>2, <2>1, StutterStep DEF Mkdir, local, OthersWalk
<1>3. CASE IsDir(w)
  <2>1. CASE entry[Name(w)] = Dir
    <3>1. Directory!Is(w, Dir)
      BY <1>0, <2>1, KindSeen DEF Directory!Is, Name
    <3>2. Status(w, "201") /\ UNCHANGED <<root, entry>>
      BY <1>3, <2>1 DEF IsDir, files
    <3> QED BY <1>0, <3>1, <3>2, StatusBecomes, KindStays DEF Directory!Made
  <2>2. CASE entry[Name(w)] # Dir
    <3>1. Status(w, "500") /\ UNCHANGED <<root, entry>>
      BY <1>3, <2>2 DEF IsDir, files
    <3> QED BY <1>0, <3>1, RefusedStep
  <2> QED BY <2>1, <2>2
<1>4. CASE MkRoot(w)
  <2>1. PICK call \in {"again", "rootdir"} : Goto(w, call)
    BY <1>4 DEF MkRoot
  <2> QED BY <1>0, <1>4, <2>1, RootedStep DEF MkRoot, local, OthersWalk
<1>5. CASE RootDir(w)
  <2>1. UNCHANGED <<root, entry>> /\ ((Goto(w, "again") /\ UNCHANGED todo) \/ Status(w, "500"))
    BY <1>5 DEF RootDir, files, local
  <2> QED BY <1>0, <2>1, StutterStep, RefusedStep DEF OthersWalk
<1> QED BY <1>1, <1>2, <1>3, <1>4, <1>5

LEMMA DeleteSteps ==
  ASSUME FileInv, NEW w \in Workers,
         Unlink(w) \/ OpenTree(w) \/ Rmdir(w) \/ Children(w) \/ Child(w) \/ RmRoot(w) \/ RmRootFails(w)
  PROVE  \/ Directory!Deleted(w) \/ Directory!Refused(w) \/ Directory!Emptied(w)
         \/ Directory!Cleared(w) \/ UNCHANGED Directory!dvars
<1>0. /\ pc[w] \in {"unlink", "opentree", "rmdir", "child"}
      /\ job[w].op \in {"delete", "clear"} /\ Name(w) \in Names
      /\ pc[w] = "rmdir" => job[w].op = "delete"
      /\ pc[w] = "child" => job[w].op = "clear"
  <2>1. pc[w] \in {"unlink", "opentree", "rmdir", "child"}
    BY DEF Unlink, OpenTree, Rmdir, Children, Child, RmRoot, RmRootFails
  <2> QED BY <2>1, JobType DEF FileInv, CallFits, Name
<1>1. CASE Status(w, "500") /\ UNCHANGED <<root, entry>>
  BY <1>0, <1>1, RefusedStep
<1>2. CASE /\ job[w].op = "delete" /\ entry[Name(w)] # Absent /\ UNCHANGED root
           /\ entry' = [entry EXCEPT ![Name(w)] = Absent] /\ Status(w, "200")
  <2>1. KindNow' = [KindNow EXCEPT ![Name(w)] = Absent]
    BY <1>0, <1>2, KindChanges, FileStoreAssumption
  <2>2. Directory!Pending(w, {"delete"}) /\ ~Directory!Is(w, Absent)
    BY <1>0, <1>2, PendingSeen, KindSeen DEF Directory!Is, Name
  <2> QED BY <1>2, <2>1, <2>2, StatusBecomes DEF Directory!Deleted, Directory!Turn, Name
<1>3. CASE OpenTree(w)
  <2>1. /\ UNCHANGED <<root, entry>>
        /\ ((Goto(w, "child") \/ Goto(w, "rmdir")) /\ OthersWalk(w)) \/ Status(w, "500")
    BY <1>3 DEF OpenTree, files, local, OthersWalk, FileInv, TypeOK
  <2> QED BY <1>0, <2>1, StutterStep, RefusedStep
<1>9. CASE Children(w)
  <2>1. /\ UNCHANGED <<root, entry, pc, job, reply>> /\ OthersWalk(w) /\ pc[w] = "child"
    BY <1>9 DEF Children, files, OthersWalk, FileInv, TypeOK
  <2>2. Seen(w)' = Seen(w)
    BY <2>1 DEF Seen
  <2>3. OutNow' = [OutNow EXCEPT ![w] = Seen(w)]
    BY <2>1, <2>2, OutChanges
  <2>4. OutNow' = OutNow
    BY <2>3, OutSeen
  <2> QED BY <2>1, <2>4, KindStays DEF Directory!dvars
<1>4. CASE Child(w) /\ ~Status(w, "500")
  <2>1. PICK c \in {d \in todo[w] : d[2] # "unread"} :
          /\ entry' = [entry EXCEPT ![c[1]] = Absent]
          /\ todo' = [todo EXCEPT ![w] = @ \ {c}]
          /\ UNCHANGED <<pc, job, reply>>
    BY <1>4 DEF Child
  <2>2. c[1] \in Names /\ root' = root /\ pc[w] = "child"
    BY <1>4, <2>1 DEF Child, FileInv, TypeOK
  <2>3. KindNow' = [KindNow EXCEPT ![c[1]] = Absent]
    BY <2>1, <2>2, KindChanges, FileStoreAssumption
  <2>4. OutNow' = OutNow /\ job' = job
    <3>1. OthersWalk(w) /\ Seen(w)' = Seen(w)
      BY <2>1, <2>2 DEF OthersWalk, Seen, FileInv, TypeOK
    <3>2. OutNow' = [OutNow EXCEPT ![w] = Seen(w)]
      BY <2>1, <3>1, OutChanges
    <3> QED BY <2>1, <3>2, OutSeen
  <2> QED BY <1>0, <2>2, <2>3, <2>4, PendingSeen DEF Directory!Emptied
<1>5. CASE Child(w) /\ Status(w, "500")
  <2>1. UNCHANGED <<root, entry>>
    <3> SUFFICES ASSUME UNCHANGED pc
                 PROVE  FALSE
      BY <1>5 DEF Child
    <3>1. pc'[w] = "done" /\ pc[w] = "child"
      BY <1>5 DEF Child, Status, Answer, FileInv, TypeOK
    <3> QED BY <3>1
  <2> QED BY <1>1, <1>5, <2>1
<1>6. CASE RmRoot(w)
  <2>1. /\ pc[w] = "child" /\ root = Dir /\ \A n \in Names : entry[n] = Absent
        /\ root' = Absent /\ pc' = [pc EXCEPT ![w] = "done"]
        /\ reply' = [reply EXCEPT ![w] = Plain("200")]
        /\ todo' = [v \in Workers |-> {<<c[1], "lost">> : c \in {d \in todo[v] : d[2] # "unread"}}]
        /\ UNCHANGED <<entry, job>>
    BY <1>6 DEF RmRoot
  <2>2. Seen(w)' = Directory!State("200") /\ \A v \in Workers \ {w} : pc'[v] = pc[v] /\ reply'[v] = reply[v]
    BY <2>1 DEF Seen, Out, Directory!State, FileInv, TypeOK, NoReply, Plain
  <2>3. \A v \in Workers \ {w} : Seen(v)' = [Seen(v) EXCEPT !.unread = {}]
    <3>1. ASSUME NEW v \in Workers
          PROVE  {n \in Names : <<n, "unread">> \in todo'[v]} = {}
      BY <2>1
    <3>2. ASSUME NEW v \in Workers \ {w}
          PROVE  Seen(v)' = [Seen(v) EXCEPT !.unread = {}]
      <4>4. \A code, names, unread : [Out(code, names, unread) EXCEPT !.unread = {}] = Out(code, names, {})
        BY DEF Out
      <4>1. CASE pc[v] = "done"
        <5>1. Seen(v)' = Seen(v) /\ Seen(v) = Out(reply[v].code, reply[v].names, {})
          BY <2>2, <4>1 DEF Seen
        <5> QED BY <4>4, <5>1
      <4>2. CASE pc[v] = "entries"
        <5>1. Seen(v)' = Out("listing", reply[v].names, {})
          BY <2>2, <3>1, <4>2 DEF Seen
        <5>2. Seen(v) = Out("listing", reply[v].names, {n \in Names : <<n, "unread">> \in todo[v]})
          BY <4>2 DEF Seen
        <5> DEFINE U == {n \in Names : <<n, "unread">> \in todo[v]}
        <5> HIDE DEF U
        <5>3. Seen(v) = Out("listing", reply[v].names, U)
          BY <5>2 DEF U
        <5> QED BY <4>4, <5>1, <5>3
      <4>3. CASE pc[v] \notin {"done", "entries"}
        <5>1. Seen(v)' = Seen(v) /\ \E code : Seen(v) = Out(code, {}, {})
          BY <2>2, <4>3 DEF Seen
        <5> QED BY <4>4, <5>1
      <4> QED BY <4>1, <4>2, <4>3
    <3> QED BY <3>2
  <2>4. OutNow' = [v \in Workers |-> IF v = w THEN Directory!State("200")
                                     ELSE [OutNow[v] EXCEPT !.unread = {}]]
    BY <2>2, <2>3, OutSeen, OutSeenPrimed
  <2>5. \A n \in Names : KindNow[n] = Absent
    BY <2>1, KindSeen
  <2> QED BY <1>0, <2>1, <2>4, <2>5, PendingSeen, KindStays DEF Directory!Cleared
<1>7. CASE Unlink(w) \/ Rmdir(w)
  <2>1. IsFile(Name(w)) \/ entry[Name(w)] = Dir => entry[Name(w)] # Absent
    BY FileStoreAssumption DEF IsFile
  <2> QED BY <1>0, <1>1, <1>2, <1>7, <2>1 DEF Unlink, Rmdir
<1>8. CASE RmRootFails(w)
  BY <1>1, <1>8 DEF RmRootFails, files
<1> QED BY <1>3, <1>4, <1>5, <1>6, <1>7, <1>8, <1>9

LEMMA BeginStep ==
  ASSUME FileInv, NEW w \in Workers, NEW j \in Jobs, Begin(w, j)
  PROVE  Directory!Arrive(w, j)
<1>1. /\ pc[w] \in {"idle", "done"} /\ UNCHANGED <<root, entry>>
      /\ job' = [job EXCEPT ![w] = j] /\ pc' = [pc EXCEPT ![w] = FirstCall(j.op)]
      /\ reply' = [reply EXCEPT ![w] = NoReply] /\ OthersWalk(w)
  BY DEF Begin, Busy, OthersWalk
<1>2. FirstCall(j.op) \in {"exists", "list", "root", "mkdir"}
  BY FileStoreAssumption DEF FirstCall, Job
<1>3. Seen(w)' = Directory!State("pending") /\ \A v \in Workers \ {w} : pc'[v] = pc[v] /\ reply'[v] = reply[v]
  BY <1>1, <1>2 DEF Seen, Out, Directory!State, FileInv, TypeOK
<1>4. OutNow' = [OutNow EXCEPT ![w] = Directory!State("pending")]
  BY <1>1, <1>3, OutChanges
<1>5. OutNow[w].code \notin {"pending", "found", "stored", "listing"}
  <2>1. OutNow[w] = Seen(w) /\ reply[w].code \in Codes
    BY OutSeen DEF FileInv, TypeOK
  <2>2. reply[w].code \notin {"pending", "found", "stored", "listing"}
    BY <2>1 DEF Codes
  <2>3. CASE pc[w] = "idle"
    BY <2>1, <2>3 DEF Seen, Out
  <2>4. CASE pc[w] = "done"
    BY <2>1, <2>2, <2>4 DEF Seen, Out
  <2> QED BY <1>1, <2>3, <2>4
<1> QED BY <1>1, <1>4, <1>5, KindStays DEF Directory!Arrive

LEMMA CrashStep ==
  ASSUME Crash
  PROVE  Directory!Forgotten
<1>1. OutNow' = [w \in Workers |-> Directory!State("none")]
  BY DEF Crash, OutNow, Out, Directory!State
<1> QED BY <1>1, KindStays DEF Crash, files, Directory!Forgotten

LEMMA StepImplements ==
  ASSUME FileInv, [Next]_vars
  PROVE  [Directory!DNext]_(Directory!dvars)
<1>1. CASE UNCHANGED vars
  BY <1>1, KindStays DEF vars, Directory!dvars, OutNow
<1>2. CASE Crash
  BY <1>2, CrashStep DEF Directory!DNext
<1>3. ASSUME NEW w \in Workers, Call(w)
      PROVE  [Directory!DNext]_(Directory!dvars)
  BY <1>3, GetSteps, ListSteps, PostSteps, MkdirSteps, DeleteSteps DEF Call, Directory!DNext
<1>4. ASSUME NEW w \in Workers, NEW j \in Jobs, Begin(w, j)
      PROVE  [Directory!DNext]_(Directory!dvars)
  BY <1>4, BeginStep DEF Directory!DNext
<1> QED BY <1>1, <1>2, <1>3, <1>4 DEF Next

\* However the calls of the handlers interleave, each request takes effect at
\* one moment and its answer is the one of that moment, or 500.
THEOREM StoreImplementsDirectory == Spec => ImplementsDirectory
<1>1. Init => Directory!DInit
  BY InitImplements
<1>2. FileInv /\ [Next]_vars => [Directory!DNext]_(Directory!dvars)
  BY StepImplements
<1> QED BY <1>1, <1>2, SpecFileInv, PTL DEF Spec, ImplementsDirectory, Directory!DSpec

-----------------------------------------------------------------------------
(***************************************************************************)
(* Undisturbed requests.  First what a call of one worker leaves to the    *)
(* others: what is theirs, and the names it has no business with.          *)
(***************************************************************************)
LEMMA OthersKept ==
  ASSUME FileInv, NEW w \in Workers, Call(w)
  PROVE  /\ UNCHANGED <<job, clean, before>>
         /\ \A v \in Workers \ {w} : /\ pc'[v] = pc[v] /\ node'[v] = node[v]
                                     /\ buf'[v] = buf[v] /\ reply'[v] = reply[v]
         /\ job[w].op # "clear" => \A v \in Workers \ {w} : todo'[v] = todo[v]
         /\ Busy(w)
<1> USE DEF FileInv, TypeOK, local, ghosts, Goto, Status, Answer, Busy
<1>1. CASE Exists(w) \/ Kind(w)
  BY <1>1 DEF Exists, Kind
<1>2. CASE OpenFile(w) \/ Read(w)
  BY <1>2 DEF OpenFile, Read
<1>12. CASE List(w) \/ Entries(w) \/ Listed(w)
  BY <1>12 DEF List, Entries, Listed
<1>3. CASE PostRoot(w) \/ Create(w)
  BY <1>3 DEF PostRoot, Create
<1>4. CASE Write(w)
  BY <1>4 DEF Write
<1>5. CASE Written(w) \/ WriteFails(w)
  <2>1. /\ pc[w] = "write" /\ UNCHANGED files
        /\ Status(w, "201") \/ Status(w, "500 write")
    BY <1>5 DEF Written, WriteFails
  <2>2. CASE Status(w, "201")
    BY <2>1, <2>2
  <2>3. CASE Status(w, "500 write")
    BY <2>1, <2>3
  <2> QED BY <2>1, <2>2, <2>3
<1>6. CASE Mkdir(w) \/ IsDir(w) \/ MkRoot(w) \/ RootDir(w)
  BY <1>6 DEF Mkdir, IsDir, MkRoot, RootDir
<1>7. CASE Unlink(w) \/ Rmdir(w)
  BY <1>7 DEF Unlink, Rmdir
<1>8. CASE OpenTree(w)
  BY <1>8 DEF OpenTree
<1>9. CASE Children(w) \/ Child(w)
  BY <1>9 DEF Children, Child
<1>10. CASE RmRoot(w)
  BY <1>10 DEF RmRoot, CallFits
<1>11. CASE RmRootFails(w)
  BY <1>11 DEF RmRootFails
<1> QED BY <1>1, <1>2, <1>3, <1>4, <1>5, <1>6, <1>7, <1>8, <1>9, <1>10, <1>11, <1>12 DEF Call

\* The call of a request for one name leaves the other names as they are.
OnlyItsName(w) ==
  /\ job[w].op \in {"get", "list"} => UNCHANGED files
  /\ job[w].op # "clear" =>
       /\ root = Dir => root' = Dir
       /\ \A m \in Names \ {Name(w)} :
            entry'[m] = entry[m] /\ (IsFile(m) => data'[entry[m]] = data[entry[m]])

LEMMA DirectoryKept ==
  ASSUME FileInv, NEW w \in Workers, Call(w)
  PROVE  OnlyItsName(w)
<1>1. CASE UNCHANGED files
  BY <1>1 DEF files, OnlyItsName
<1>2. CASE PostRoot(w) \/ MkRoot(w)
  BY <1>2 DEF PostRoot, MkRoot, OnlyItsName, FileInv, CallFits
<1>3. CASE Create(w) /\ ~UNCHANGED files
  <2>1. ~Status(w, "500")
    <3> SUFFICES ASSUME Status(w, "500"), ~(root = Absent \/ entry[Name(w)] = Dir)
                 PROVE  FALSE
      BY <1>3 DEF Create
    <3>1. pc'[w] = "write" /\ pc'[w] = "done"
      BY <1>3 DEF Create, Goto, Status, Answer, FileInv, TypeOK
    <3> QED BY <3>1
  <2>2. job[w].op = "post" /\ root' = root /\ Name(w) \in Names
    BY <1>3, <2>1, Created
  <2>3. PICK i \in Inodes :
          /\ \A n \in Names \ {Name(w)} : entry[n] # i
          /\ entry' = [entry EXCEPT ![Name(w)] = i]
          /\ data' = [data EXCEPT ![i] = <<>>]
    BY <1>3, <2>1, Created
  <2> QED BY <2>2, <2>3 DEF OnlyItsName, FileInv, TypeOK, IsFile
<1>4. CASE Write(w)
  <2>1. /\ pc[w] = "write" /\ UNCHANGED <<root, entry>>
        /\ \A i \in Inodes \ {node[w]} : data'[i] = data[i]
    BY <1>4 DEF Write, FileInv, TypeOK
  <2>2. job[w].op = "post" /\ \A m \in Names \ {Name(w)} : entry[m] # node[w]
    BY <2>1 DEF FileInv, CallFits, OpenUnderItsName
  <2> QED BY <2>1, <2>2 DEF OnlyItsName, IsFile
<1>5. CASE Mkdir(w) \/ Unlink(w) \/ Rmdir(w)
  <2>1. /\ UNCHANGED <<root, data>> /\ job[w].op \notin {"get", "list"}
        /\ entry' = entry \/ \E x : entry' = [entry EXCEPT ![Name(w)] = x]
    BY <1>5 DEF Mkdir, Unlink, Rmdir, FileInv, CallFits
  <2> QED BY <2>1 DEF OnlyItsName, FileInv, TypeOK
<1>6. CASE Child(w) \/ RmRoot(w)
  <2>1. job[w].op = "clear"
    BY <1>6 DEF Child, RmRoot, FileInv, CallFits
  <2> QED BY <2>1 DEF OnlyItsName
<1> QED
  BY <1>1, <1>2, <1>3, <1>4, <1>5, <1>6
  DEF Call, Exists, Kind, OpenFile, Read, List, Entries, Listed, Written, WriteFails, IsDir, RootDir,
      OpenTree, Children, RmRootFails

\* An undisturbed request is where it was after a call of another worker.
LEMMA UndisturbedKept ==
  ASSUME FileInv, NEW w \in Workers, NEW v \in Workers \ {w}, Call(w),
         job[v] # None, ~Disturbs(job[w], job[v])
  PROVE  /\ UndisturbedSoFar(v) => UndisturbedSoFar(v)'
         /\ pc[v] = "done" /\ ActedAtomically(v) => ActedAtomically(v)'
<1>1. /\ UNCHANGED <<job, clean, before>> /\ pc'[v] = pc[v] /\ node'[v] = node[v]
      /\ buf'[v] = buf[v] /\ reply'[v] = reply[v]
      /\ job[w].op # "clear" => todo'[v] = todo[v]
  BY OthersKept
<1>2. OnlyItsName(w)
  BY DirectoryKept
<1>3. /\ job[w].op \in {"get", "list", "post", "mkdir", "delete", "clear"}
      /\ pc[v] # "idle" /\ job[v].name \in Names
      /\ job[v].op \in {"get", "list", "post", "mkdir", "delete", "clear"}
  <2>1. pc[w] # "idle" /\ pc[v] # "idle"
    BY OthersKept DEF FileInv, CallFits, Busy
  <2> QED BY <2>1, JobType
<1>4. CASE job[w].op \in {"get", "list"}
  <2>1. UNCHANGED <<root, entry, data>> /\ todo'[v] = todo[v]
    BY <1>1, <1>2, <1>4 DEF OnlyItsName, files
  <2>2. UndisturbedSoFar(v) => UndisturbedSoFar(v)'
    BY <1>1, <2>1 DEF UndisturbedSoFar, Content, IsFile, KindOf
  <2>3. ActedAtomically(v)' <=> ActedAtomically(v)
    BY <1>1, <2>1 DEF ActedAtomically, AtomicGet, AtomicPost, AtomicMkdir, AtomicDelete, AtomicList,
                      AtomicClear, Content, IsFile
  <2> QED BY <2>2, <2>3
<1>5. CASE job[w].op \notin {"get", "list"}
  <2>1. /\ job[w].op # "clear" /\ job[v].op \notin {"list", "clear"}
        /\ job[v].name \in Names \ {Name(w)} /\ todo'[v] = todo[v]
    BY <1>1, <1>3, <1>5 DEF Disturbs, Name
  <2>2. /\ root = Dir => root' = Dir
        /\ entry'[job[v].name] = entry[job[v].name]
        /\ IsFile(job[v].name) => data'[entry[job[v].name]] = data[entry[job[v].name]]
    BY <1>2, <2>1 DEF OnlyItsName
  <2>3. /\ Content(job[v].name)' = Content(job[v].name)
        /\ IsFile(job[v].name)' <=> IsFile(job[v].name)
    BY <1>1, <2>2 DEF Content, IsFile
  <2>4. ASSUME UndisturbedSoFar(v)
        PROVE  UndisturbedSoFar(v)'
    <3>1. pc[v] \in {"read", "write"} /\ entry[job[v].name] = node[v] => data'[node[v]] = data[node[v]]
      <4>1. pc[v] \in {"read", "write"} => node[v] \in Inodes
        BY DEF FileInv, TypeOK, CallFits
      <4> QED BY <2>2, <4>1 DEF IsFile
    <3>2. pc[v] # "child" /\ pc[v] # "list" /\ pc[v] # "entries"
      BY <2>1 DEF FileInv, CallFits
    <3> QED BY <1>1, <2>1, <2>2, <2>3, <2>4, <3>1, <3>2 DEF UndisturbedSoFar
  <2>5. ASSUME ActedAtomically(v)
        PROVE  ActedAtomically(v)'
    BY <1>1, <1>3, <2>1, <2>2, <2>3, <2>5
       DEF ActedAtomically, AtomicGet, AtomicPost, AtomicMkdir, AtomicDelete
  <2> QED BY <2>4, <2>5
<1> QED BY <1>4, <1>5

-----------------------------------------------------------------------------
(***************************************************************************)
(* Then the worker's own calls.                                            *)
(***************************************************************************)
\* What the steps below begin with.
Undisturbed(w) == FileInv /\ clean[w] /\ UndisturbedSoFar(w)

\* How it goes on: towards an answer, or with one an atomic store would give.
StillAtomic(w) == /\ pc'[w] # "done" => UndisturbedSoFar(w)'
                  /\ pc'[w] = "done" => ActedAtomically(w)'

\* The answer to a request and nothing else.
LEMMA StatusFacts ==
  ASSUME FileInv, NEW w \in Workers, NEW code, Status(w, code)
  PROVE  /\ pc'[w] = "done" /\ UNCHANGED <<job, clean, before>>
         /\ reply'[w] = [code |-> code, names |-> {}, blocks |-> <<>>]
         /\ reply'[w].code = code
<1>1. /\ pc'[w] = "done" /\ UNCHANGED <<job, clean, before>>
      /\ reply'[w] = [code |-> code, names |-> {}, blocks |-> <<>>]
  BY DEF Status, Answer, FileInv, TypeOK
<1> QED BY <1>1

LEMMA GotoFacts ==
  ASSUME FileInv, NEW w \in Workers, NEW call, Goto(w, call)
  PROVE  pc'[w] = call /\ UNCHANGED <<job, reply, clean, before>>
  BY DEF Goto, FileInv, TypeOK

\* What is seen of a name, before a call and after one that leaves the names.
LEMMA ContentFacts ==
  ASSUME FileInv, NEW n \in Names
  PROVE  /\ Content(n) = Absent <=> entry[n] = Absent
         /\ Content(n) = Dir <=> entry[n] = Dir
         /\ IsFile(n) => Content(n) = data[entry[n]] /\ Content(n) \in Blocks
         /\ ~IsFile(n) => Content(n) \in {Absent, Dir}
<1>1. CASE IsFile(n)
  <2>1. Content(n) = data[entry[n]] /\ entry[n] \in Inodes /\ data[entry[n]] \in Blocks
    BY <1>1 DEF Content, IsFile, FileInv, TypeOK
  <2>2. Content(n) # Absent /\ Content(n) # Dir /\ entry[n] # Absent /\ entry[n] # Dir
    BY <2>1, FileStoreAssumption
  <2> QED BY <1>1, <2>1, <2>2
<1>2. CASE ~IsFile(n)
  BY <1>2 DEF Content, IsFile, FileInv, TypeOK
<1> QED BY <1>1, <1>2

LEMMA ContentStays ==
  ASSUME NEW w \in Workers, UNCHANGED <<entry, data, job>>
  PROVE  /\ Content(Name(w))' = Content(Name(w)) /\ (IsFile(Name(w))' <=> IsFile(Name(w)))
         /\ \A n \in Names : Content(n)' = Content(n)
  BY DEF Content, IsFile, Name

\* The answers that make a request an atomic one, kind by kind.
LEMMA ActedGet ==
  ASSUME NEW w \in Workers, UNCHANGED <<job, before>>, job[w].op = "get",
         Content(Name(w))' = before[w],
         \/ before[w] = Absent /\ reply'[w] = Plain("404")
         \/ before[w] = Dir /\ Dir # Absent /\ reply'[w] = Plain("500")
         \/ before[w] \notin {Absent, Dir} /\ reply'[w] = [code |-> "200", names |-> {}, blocks |-> before[w]]
  PROVE  ActedAtomically(w)'
<1>1. AtomicGet(reply[w], before[w], job[w].name)'
  BY DEF AtomicGet, Name, Plain
<1> QED BY <1>1 DEF ActedAtomically

LEMMA ActedPost ==
  ASSUME NEW w \in Workers, UNCHANGED <<job, before>>, job[w].op = "post",
         \/ before[w] = Dir /\ reply'[w].code = "500" /\ Content(Name(w))' = Dir
         \/ before[w] # Dir /\ reply'[w].code = "201" /\ Content(Name(w))' = Whole(job[w].body)
         \/ /\ before[w] # Dir /\ reply'[w].code = "500 write"
            /\ IsFile(Name(w))' /\ Len(Content(Name(w))') < Size[job[w].body]
  PROVE  ActedAtomically(w)'
<1>1. AtomicPost(reply[w], before[w], job[w].name, job[w].body)'
  BY DEF AtomicPost, Name
<1> QED BY <1>1 DEF ActedAtomically

LEMMA ActedMkdir ==
  ASSUME NEW w \in Workers, UNCHANGED <<job, before>>, job[w].op = "mkdir",
         \/ before[w] \in {Absent, Dir} /\ reply'[w].code = "201" /\ Content(Name(w))' = Dir
         \/ before[w] \notin {Absent, Dir} /\ reply'[w].code = "500" /\ Content(Name(w))' = before[w]
  PROVE  ActedAtomically(w)'
<1>1. AtomicMkdir(reply[w], before[w], job[w].name)'
  BY DEF AtomicMkdir, Name
<1> QED BY <1>1 DEF ActedAtomically

LEMMA ActedDelete ==
  ASSUME NEW w \in Workers, UNCHANGED <<job, before>>, job[w].op = "delete",
         Content(Name(w))' = Absent,
         reply'[w].code = IF before[w] = Absent THEN "404" ELSE "200"
  PROVE  ActedAtomically(w)'
<1>1. AtomicDelete(reply[w], before[w], job[w].name)'
  BY DEF AtomicDelete, Name
<1> QED BY <1>1 DEF ActedAtomically

LEMMA ActedList ==
  ASSUME NEW w \in Workers, UNCHANGED <<job, before>>, job[w].op = "list",
         root' = before[w],
         \/ before[w] = Absent /\ reply'[w].code = "500"
         \/ /\ before[w] # Absent /\ reply'[w].code = "200"
            /\ reply'[w].names = {n \in Names : Content(n)' # Absent}
  PROVE  ActedAtomically(w)'
<1>1. AtomicList(reply[w], before[w])'
  BY DEF AtomicList
<1> QED BY <1>1 DEF ActedAtomically

LEMMA ActedClear ==
  ASSUME NEW w \in Workers, UNCHANGED <<job, before>>, job[w].op = "clear",
         \A n \in Names : Content(n)' = Absent,
         reply'[w].code = IF before[w] = Absent THEN "404" ELSE IF Removable THEN "200" ELSE "500"
  PROVE  ActedAtomically(w)'
<1>1. AtomicClear(reply[w], before[w])'
  BY DEF AtomicClear
<1> QED BY <1>1 DEF ActedAtomically

LEMMA OwnGet ==
  ASSUME NEW w \in Workers, Undisturbed(w), Exists(w) \/ Kind(w) \/ OpenFile(w)
  PROVE  StillAtomic(w)
<1> USE DEF Undisturbed
<1>10. /\ UNCHANGED <<root, entry, data, job, before>> /\ pc[w] # "idle" /\ Name(w) \in Names
       /\ job[w].op \in {"get", "list", "post", "mkdir", "delete", "clear"}
  <2>1. UNCHANGED <<root, entry, data, job, before>> /\ pc[w] # "idle"
    BY DEF Exists, Kind, OpenFile, files, Status, Answer, Goto
  <2> QED BY <2>1, JobType DEF Name
<1>11. /\ Content(Name(w))' = Content(Name(w))
       /\ \A n \in Names : Content(n)' = Content(n)
  BY <1>10, ContentStays
<1>12. /\ Content(Name(w)) = Absent <=> entry[Name(w)] = Absent
       /\ Content(Name(w)) = Dir <=> entry[Name(w)] = Dir
       /\ ~IsFile(Name(w)) => Content(Name(w)) \in {Absent, Dir}
       /\ root \in {Dir, Absent} /\ Absent # Dir
  BY <1>10, ContentFacts, FileStoreAssumption DEF FileInv, TypeOK
<1>1. CASE Exists(w)
  <2>1. pc[w] = "exists" /\ job[w].op \in {"get", "delete", "clear"}
    BY <1>1 DEF Exists, FileInv, CallFits
  <2>2. /\ job[w].op = "clear" => before[w] = root
        /\ job[w].op # "clear" => before[w] = Content(Name(w))
    BY <2>1 DEF UndisturbedSoFar, Name
  <2>4. CASE IF job[w].op = "clear" THEN root = Dir ELSE entry[Name(w)] # Absent
    <3>1. pc'[w] = (IF job[w].op = "get" THEN "open" ELSE "kind")
      BY <1>1, <2>4, GotoFacts DEF Exists
    <3>2. before[w] # Absent
      BY <1>12, <2>2, <2>4
    <3>3. pc'[w] \in {"open", "kind"} /\ (pc'[w] = "open" => job[w].op = "get")
      BY <3>1
    <3>4. CASE pc'[w] = "open"
      BY <1>10, <1>11, <2>2, <3>2, <3>3, <3>4 DEF StillAtomic, UndisturbedSoFar, Name
    <3>5. CASE pc'[w] = "kind"
      BY <1>10, <1>11, <2>1, <2>2, <3>2, <3>5 DEF StillAtomic, UndisturbedSoFar, Name
    <3> QED BY <3>3, <3>4, <3>5
  <2>5. CASE ~(IF job[w].op = "clear" THEN root = Dir ELSE entry[Name(w)] # Absent)
    <3>1. pc'[w] = "done" /\ reply'[w] = Plain("404")
      BY <1>1, <2>5, StatusFacts DEF Exists, Plain
    <3>2. CASE job[w].op = "clear"
      <4>1. root = Absent /\ \A n \in Names : entry[n] = Absent
        BY <2>5, <3>2 DEF FileInv, TypeOK
      <4>2. \A n \in Names : Content(n)' = Absent
        BY <1>11, <4>1, ContentFacts
      <4> QED BY <1>10, <2>2, <3>1, <3>2, <4>1, <4>2, ActedClear DEF StillAtomic, Plain
    <3>3. CASE job[w].op = "get"
      BY <1>10, <1>11, <1>12, <2>2, <2>5, <3>1, <3>3, ActedGet DEF StillAtomic
    <3>4. CASE job[w].op = "delete"
      BY <1>10, <1>11, <1>12, <2>2, <2>5, <3>1, <3>4, ActedDelete DEF StillAtomic, Plain
    <3> QED BY <2>1, <3>2, <3>3, <3>4
  <2> QED BY <2>4, <2>5
<1>2. CASE Kind(w)
  <2>1. pc[w] = "kind" /\ job[w].op \in {"delete", "clear"}
    BY <1>2 DEF Kind, FileInv, CallFits
  <2>2. /\ before[w] # Absent /\ (job[w].op = "clear" => before[w] = root)
        /\ job[w].op # "clear" => before[w] = Content(Name(w))
    BY <2>1 DEF UndisturbedSoFar, Name
  <2>3. PICK call \in {"opentree", "unlink"} :
          /\ Goto(w, call)
          /\ call = "opentree" <=> IF job[w].op = "clear" THEN root = Dir ELSE entry[Name(w)] = Dir
    BY <1>2 DEF Kind
  <2>4. pc'[w] = call
    BY <2>3, GotoFacts
  <2> QED BY <1>10, <1>11, <1>12, <2>1, <2>2, <2>3, <2>4 DEF StillAtomic, UndisturbedSoFar, Name
<1>3. CASE OpenFile(w)
  <2>1. pc[w] = "open" /\ job[w].op = "get"
    BY <1>3 DEF OpenFile, FileInv, CallFits
  <2>2. before[w] # Absent /\ before[w] = Content(Name(w)) /\ buf[w] = <<>>
    BY <2>1 DEF UndisturbedSoFar, Name, FileInv, CallFits
  <2>3. CASE IsFile(Name(w))
    <3>1. pc'[w] = "read" /\ node'[w] = entry[Name(w)] /\ buf'[w] = <<>>
      BY <1>3, <2>2, <2>3, GotoFacts DEF OpenFile, FileInv, TypeOK
    <3>2. before[w] = data[entry[Name(w)]] /\ before[w] \in Blocks
      BY <1>10, <2>2, <2>3, ContentFacts
    <3>3. Len(<<>>) = 0 /\ Len(before[w]) \in Nat /\ SubSeq(before[w], 1, Len(<<>>)) = <<>>
      BY <3>2 DEF Blocks
    <3> QED BY <1>10, <2>1, <3>1, <3>2, <3>3 DEF StillAtomic, UndisturbedSoFar, Name
  <2>4. CASE ~IsFile(Name(w))
    <3>1. pc'[w] = "done" /\ reply'[w] = Plain("500")
      BY <1>3, <2>4, StatusFacts DEF OpenFile, Plain
    <3> QED BY <1>10, <1>11, <1>12, <2>1, <2>2, <2>4, <3>1, ActedGet DEF StillAtomic
  <2> QED BY <2>3, <2>4
<1> QED BY <1>1, <1>2, <1>3

LEMMA OwnList ==
  ASSUME NEW w \in Workers, Undisturbed(w), List(w) \/ Entries(w) \/ Listed(w)
  PROVE  StillAtomic(w)
<1> USE DEF Undisturbed
<1>1. /\ pc[w] \in {"list", "entries"} /\ job[w].op = "list" /\ before[w] = root
      /\ UNCHANGED <<root, entry, data, job, before>> /\ root \in {Dir, Absent} /\ Absent # Dir
      /\ pc[w] = "entries" => root = Dir
  <2>1. pc[w] \in {"list", "entries"} /\ UNCHANGED <<root, entry, data, job, before>>
    BY DEF List, Entries, Listed, files, ghosts, Status, Answer, Goto
  <2>2. job[w].op = "list" /\ root \in {Dir, Absent}
    BY <2>1 DEF FileInv, CallFits, TypeOK
  <2> QED BY <2>1, <2>2, FileStoreAssumption DEF UndisturbedSoFar
<1>2. CASE List(w) /\ root = Dir
  <2>1. /\ pc[w] = "list" /\ pc'[w] = "entries" /\ todo'[w] = Unread /\ reply' = reply
    BY <1>2 DEF List, Goto, FileInv, TypeOK
  <2>2. reply[w].names = {}
    BY <2>1 DEF FileInv, CallFits, NoReply, Plain
  <2>3. \A m \in Names : <<m, "unread">> \in todo'[w]
    BY <2>1 DEF Unread
  <2> QED BY <1>1, <1>2, <2>1, <2>2, <2>3 DEF StillAtomic, UndisturbedSoFar
<1>3. CASE List(w) /\ root # Dir
  <2>1. pc'[w] = "done" /\ reply'[w] = Plain("500")
    BY <1>3, StatusFacts DEF List, Plain
  <2> QED BY <1>1, <1>3, <2>1, ActedList DEF StillAtomic, Plain
<1>4. CASE Entries(w)
  <2>1. pc[w] = "entries" /\ UNCHANGED pc
    BY <1>4 DEF Entries
  <2>2. PICK S \in Coming(w) : /\ reply' = [reply EXCEPT ![w].names = @ \cup Found(S)]
                              /\ todo' = [todo EXCEPT ![w] = @ \ S]
    BY <1>4 DEF Entries
  <2>3. reply'[w].names = reply[w].names \cup Found(S) /\ todo'[w] = todo[w] \ S
    BY <2>2 DEF FileInv, TypeOK
  <2>4. reply[w].names = {m \in Names : entry[m] # Absent /\ <<m, "unread">> \notin todo[w]}
    BY <1>1, <2>1 DEF UndisturbedSoFar
  <2>5. \A m \in Names : (\E c \in S : c[1] = m) <=> <<m, "unread">> \in S
    <3>1. \A c \in S : c \in Names \X Kinds /\ c[2] = "unread"
      BY <2>2 DEF Coming, FileInv, TypeOK
    <3>2. \A c \in S : c = <<c[1], "unread">>
      BY <3>1
    <3>3. \A m \in Names : <<m, "unread">>[1] = m
      OBVIOUS
    <3> QED BY <3>2, <3>3
  <2>6. S \subseteq todo[w]
    BY <2>2 DEF Coming
  <2>7. reply'[w].names = {m \in Names : entry[m] # Absent /\ <<m, "unread">> \notin todo'[w]}
    BY <2>3, <2>4, <2>5, <2>6 DEF Found
  <2> QED BY <1>1, <2>1, <2>7 DEF StillAtomic, UndisturbedSoFar
<1>5. CASE Listed(w)
  <2>1. pc[w] = "entries" /\ todo[w] = {}
    BY <1>5 DEF Listed
  <2>2. pc'[w] = "done" /\ reply'[w] = [code |-> "200", names |-> reply[w].names, blocks |-> <<>>]
    BY <1>5 DEF Listed, Answer, FileInv, TypeOK
  <2>3. reply[w].names = {m \in Names : entry[m] # Absent}
    BY <1>1, <2>1 DEF UndisturbedSoFar
  <2>4. \A n \in Names : Content(n)' = Content(n)
    BY <1>1, ContentStays
  <2>5. reply'[w].names = {n \in Names : Content(n)' # Absent}
    BY <2>2, <2>3, <2>4, ContentFacts
  <2> QED BY <1>1, <2>1, <2>2, <2>5, ActedList DEF StillAtomic
<1> QED BY <1>1, <1>2, <1>3, <1>4, <1>5

\* What is read piece by piece is the file from its beginning.
LEMMA PrefixGrows ==
  ASSUME NEW S, NEW s \in Seq(S), NEW n \in Nat, n <= Len(s), NEW k \in 1..(Len(s) - n)
  PROVE  /\ SubSeq(s, 1, n) \o SubSeq(SubSeq(s, n + 1, Len(s)), 1, k) = SubSeq(s, 1, n + k)
         /\ Len(SubSeq(s, 1, n) \o SubSeq(SubSeq(s, n + 1, Len(s)), 1, k)) = n + k
<1>1. /\ SubSeq(s, 1, n) \in Seq(S) /\ Len(SubSeq(s, 1, n)) = n
      /\ SubSeq(s, n + 1, Len(s)) \in Seq(S) /\ Len(SubSeq(s, n + 1, Len(s))) = Len(s) - n
  OBVIOUS
<1> DEFINE t == SubSeq(s, n + 1, Len(s))
<1>2. SubSeq(t, 1, k) \in Seq(S) /\ Len(SubSeq(t, 1, k)) = k
  BY <1>1
<1>3. \A i \in 1..k : SubSeq(t, 1, k)[i] = s[n + i]
  BY <1>1
<1>4. /\ SubSeq(s, 1, n) \o SubSeq(t, 1, k) \in Seq(S)
      /\ Len(SubSeq(s, 1, n) \o SubSeq(t, 1, k)) = n + k
  BY <1>1, <1>2
<1>5. SubSeq(s, 1, n + k) \in Seq(S) /\ Len(SubSeq(s, 1, n + k)) = n + k
  OBVIOUS
<1>6. ASSUME NEW i \in 1..(n + k)
      PROVE  (SubSeq(s, 1, n) \o SubSeq(t, 1, k))[i] = SubSeq(s, 1, n + k)[i]
  <2>1. SubSeq(s, 1, n + k)[i] = s[i]
    OBVIOUS
  <2>2. CASE i <= n
    <3>1. (SubSeq(s, 1, n) \o SubSeq(t, 1, k))[i] = SubSeq(s, 1, n)[i]
      BY <1>1, <1>2, <2>2
    <3>2. SubSeq(s, 1, n)[i] = s[i]
      BY <2>2
    <3> QED BY <2>1, <3>1, <3>2
  <2>3. CASE i > n
    <3>1. (SubSeq(s, 1, n) \o SubSeq(t, 1, k))[i] = SubSeq(t, 1, k)[i - n]
      BY <1>1, <1>2, <2>3
    <3>2. SubSeq(t, 1, k)[i - n] = s[n + (i - n)]
      BY <1>3, <2>3
    <3> QED BY <2>1, <2>3, <3>1, <3>2
  <2> QED BY <2>2, <2>3
<1> QED BY <1>4, <1>5, <1>6

LEMMA WholeRead ==
  ASSUME NEW S, NEW s \in Seq(S), NEW n \in Nat, n <= Len(s), SubSeq(s, n + 1, Len(s)) = <<>>
  PROVE  SubSeq(s, 1, n) = s
<1>1. Len(SubSeq(s, n + 1, Len(s))) = Len(s) - n
  OBVIOUS
<1>2. n = Len(s)
  BY <1>1
<1>3. /\ SubSeq(s, 1, n) \in Seq(S) /\ Len(SubSeq(s, 1, n)) = Len(s)
      /\ \A i \in 1..Len(s) : SubSeq(s, 1, n)[i] = s[i]
  BY <1>2
<1> QED BY <1>3

LEMMA OwnRead ==
  ASSUME NEW w \in Workers, Undisturbed(w), Read(w)
  PROVE  StillAtomic(w)
<1> DEFINE d == data[node[w]]
           n == Len(buf[w])
<1> USE DEF Undisturbed
<1>1. /\ pc[w] = "read" /\ job[w].op = "get" /\ UNCHANGED <<root, entry, data>>
      /\ Name(w) \in Names
  BY JobType DEF Read, files, FileInv, CallFits, Name
<1>2. /\ entry[Name(w)] = node[w] /\ before[w] = d /\ n <= Len(d) /\ buf[w] = SubSeq(d, 1, n)
      /\ node[w] \in Inodes /\ d \in Seq(Bodies \cup {Hole}) /\ n \in Nat /\ Len(d) \in Nat
  BY <1>1, RestType DEF UndisturbedSoFar, Name, Blocks
<1>3. CASE Rest(w) = <<>>
  <2>1. /\ pc'[w] = "done" /\ UNCHANGED <<job, before>>
        /\ reply'[w] = [code |-> "200", names |-> {}, blocks |-> buf[w]]
    BY <1>1, <1>3 DEF Read, Answer, FileInv, TypeOK
  <2>2. buf[w] = d
    BY <1>2, <1>3, WholeRead DEF Rest
  <2>3. Content(Name(w))' = d /\ d \notin {Absent, Dir}
    <3>1. IsFile(Name(w)) /\ entry[Name(w)] # Absent /\ entry[Name(w)] # Dir
      BY <1>2, FileStoreAssumption DEF IsFile
    <3>2. Content(Name(w))' = Content(Name(w))
      BY <1>1, <2>1, ContentStays
    <3> QED BY <1>1, <1>2, <3>1, <3>2, ContentFacts
  <2> QED BY <1>1, <1>2, <2>1, <2>2, <2>3, ActedGet DEF StillAtomic
<1>4. CASE Rest(w) # <<>>
  <2>1. PICK k \in 1..Len(Rest(w)) :
          /\ buf' = [buf EXCEPT ![w] = @ \o SubSeq(Rest(w), 1, k)]
          /\ UNCHANGED <<pc, job, node, before>>
    BY <1>1, <1>4 DEF Read, ghosts
  <2>2. Len(Rest(w)) = Len(d) - n
    <3>1. Rest(w) = SubSeq(d, n + 1, Len(d))
      BY DEF Rest
    <3> HIDE DEF d, n
    <3> QED BY <1>2, <3>1
  <2>3. buf'[w] = SubSeq(d, 1, n) \o SubSeq(SubSeq(d, n + 1, Len(d)), 1, k)
    BY <1>2, <2>1 DEF Rest, FileInv, TypeOK
  <2>4. buf'[w] = SubSeq(d, 1, n + k) /\ Len(buf'[w]) = n + k /\ n + k <= Len(d)
    <3>1. k \in 1..(Len(d) - n)
      BY <2>1, <2>2
    <3>2. d \in Seq(Bodies \cup {Hole}) /\ n \in Nat /\ n <= Len(d) /\ Len(d) \in Nat
      BY <1>2
    <3>3. buf'[w] = SubSeq(d, 1, n) \o SubSeq(SubSeq(d, n + 1, Len(d)), 1, k)
      BY <2>3
    <3> HIDE DEF d, n
    <3>4. /\ SubSeq(d, 1, n) \o SubSeq(SubSeq(d, n + 1, Len(d)), 1, k) = SubSeq(d, 1, n + k)
          /\ Len(SubSeq(d, 1, n) \o SubSeq(SubSeq(d, n + 1, Len(d)), 1, k)) = n + k
      BY <3>1, <3>2, PrefixGrows, Zenon
    <3>5. buf'[w] = SubSeq(d, 1, n + k) /\ Len(buf'[w]) = n + k
      BY <3>3, <3>4, Zenon
    <3> QED BY <3>1, <3>2, <3>5
  <2> QED BY <1>1, <1>2, <2>1, <2>4 DEF StillAtomic, UndisturbedSoFar, Name
<1> QED BY <1>3, <1>4

-----------------------------------------------------------------------------
\* Blocks that are all b make up the body b.
LEMMA AllOfIt ==
  ASSUME NEW b \in Bodies, Size[b] \in Nat, NEW s \in Blocks, Len(s) = Size[b],
         \A i \in 1..Len(s) : s[i] = b
  PROVE  s = Whole(b)
<1>1. /\ Whole(b) \in Blocks /\ Len(Whole(b)) = Size[b]
      /\ \A i \in 1..Size[b] : Whole(b)[i] = b
  BY DEF Whole, Blocks
<1> QED BY <1>1 DEF Blocks

LEMMA SameBlocks ==
  ASSUME NEW S, NEW s \in Seq(S), NEW t \in Seq(S), Len(s) = Len(t),
         \A i \in 1..Len(s) : s[i] = t[i]
  PROVE  s = t
  OBVIOUS

\* To write behind the last block is to append.
LEMMA OverlayAppends ==
  ASSUME NEW b \in Bodies, NEW s \in Blocks, NEW k \in Nat \ {0},
         NEW t, t = Overlay(s, Len(s) + 1, Len(s) + k, b)
  PROVE  t = s \o [i \in 1..k |-> b]
<1> DEFINE r == [i \in 1..k |-> b]
<1>1. Len(s) \in Nat /\ s \in Seq(Bodies \cup {Hole})
  BY DEF Blocks
<1>2. r \in Seq(Bodies \cup {Hole}) /\ Len(r) = k /\ \A i \in 1..k : r[i] = b
  OBVIOUS
<1>3. /\ t = [i \in 1..(Len(s) + k) |-> IF i \in (Len(s) + 1)..(Len(s) + k) THEN b
                                        ELSE IF i <= Len(s) THEN s[i] ELSE Hole]
  BY <1>1 DEF Overlay
<1> HIDE DEF r
<1>4. /\ t \in Seq(Bodies \cup {Hole}) /\ Len(t) = Len(s) + k
      /\ \A i \in 1..(Len(s) + k) : t[i] = IF i <= Len(s) THEN s[i] ELSE b
  <2>1. \A i \in 1..(Len(s) + k) : t[i] = IF i <= Len(s) THEN s[i] ELSE b
    BY <1>1, <1>3
  <2>2. \A i \in 1..(Len(s) + k) : t[i] \in Bodies \cup {Hole}
    BY <1>1, <2>1
  <2>3. t \in [1..(Len(s) + k) -> Bodies \cup {Hole}] /\ Len(s) + k \in Nat
    BY <1>1, <1>3, <2>2
  <2> QED BY <2>1, <2>3
<1>5. /\ s \o r \in Seq(Bodies \cup {Hole}) /\ Len(s \o r) = Len(s) + k
      /\ \A i \in 1..(Len(s) + k) : (s \o r)[i] = IF i <= Len(s) THEN s[i] ELSE b
  BY <1>1, <1>2
<1>6. t = s \o r
  <2>1. \A i \in 1..(Len(s) + k) : t[i] = (s \o r)[i]
    BY <1>4, <1>5
  <2>2. Len(t) = Len(s \o r)
    BY <1>4, <1>5
  <2> QED BY <1>4, <1>5, <2>1, <2>2, SameBlocks
<1> QED BY <1>6 DEF r

LEMMA StillAllOfIt ==
  ASSUME NEW b \in Bodies, NEW s \in Blocks, NEW k \in Nat \ {0}, \A i \in 1..Len(s) : s[i] = b,
         NEW t, t = s \o [i \in 1..k |-> b], NEW i \in 1..Len(t)
  PROVE  t[i] = b
<1> DEFINE r == [j \in 1..k |-> b]
<1>1. Len(s) \in Nat /\ s \in Seq(Bodies \cup {Hole})
  BY DEF Blocks
<1>2. r \in Seq(Bodies \cup {Hole}) /\ Len(r) = k /\ \A j \in 1..k : r[j] = b
  OBVIOUS
<1>3. t = s \o r
  OBVIOUS
<1> HIDE DEF r
<1> QED BY <1>1, <1>2, <1>3

LEMMA OwnPost ==
  ASSUME NEW w \in Workers, Undisturbed(w),
         PostRoot(w) \/ Create(w) \/ Write(w) \/ Written(w) \/ WriteFails(w)
  PROVE  StillAtomic(w)
<1> USE DEF Undisturbed
<1>10. /\ pc[w] \in {"root", "create", "write"} /\ job[w].op = "post" /\ UNCHANGED <<job, before>>
       /\ Name(w) \in Names /\ job[w].body \in Bodies /\ Size[job[w].body] \in Nat
       /\ Absent # Dir
  <2>1. pc[w] \in {"root", "create", "write"} /\ UNCHANGED <<job, before>>
    BY DEF PostRoot, Create, Write, Written, WriteFails, Status, Answer, Goto, ghosts
  <2>2. pc[w] # "idle"
    BY <2>1
  <2> QED BY <2>1, <2>2, JobType, FileStoreAssumption DEF Name, FileInv, CallFits
<1>1. CASE PostRoot(w)
  <2>1. pc[w] = "root" /\ root' = Dir /\ pc'[w] = "create" /\ UNCHANGED <<entry, data>>
    BY <1>1, GotoFacts DEF PostRoot
  <2>2. before[w] = Content(Name(w))
    BY <1>10, <2>1 DEF UndisturbedSoFar, Name
  <2>3. Content(Name(w))' = Content(Name(w))
    BY <1>10, <2>1, ContentStays
  <2> QED BY <1>10, <2>1, <2>2, <2>3 DEF StillAtomic, UndisturbedSoFar, Name
<1>2. CASE Create(w)
  <2>1. pc[w] = "create"
    BY <1>2 DEF Create
  <2>2. before[w] = Content(Name(w)) /\ root = Dir /\ buf[w] = <<>>
    BY <1>10, <2>1 DEF UndisturbedSoFar, Name, FileInv, CallFits
  <2>3. CASE Status(w, "500")
    <3>1. pc'[w] = "done" /\ reply'[w].code = "500"
      BY <2>3, StatusFacts
    <3>2. entry[Name(w)] = Dir /\ UNCHANGED <<entry, data>>
      BY <1>2, <1>10, <2>2, <3>1 DEF Create, Goto, files, FileInv, TypeOK
    <3>3. before[w] = Dir /\ Content(Name(w))' = Dir
      BY <1>10, <2>2, <3>2, ContentFacts, ContentStays
    <3> QED BY <1>10, <3>1, <3>3, ActedPost DEF StillAtomic
  <2>4. CASE ~Status(w, "500")
    <3>1. PICK f \in Inodes : /\ entry' = [entry EXCEPT ![Name(w)] = f]
                              /\ data' = [data EXCEPT ![f] = <<>>]
                              /\ node' = [node EXCEPT ![w] = f]
      BY <1>2, <2>4, Created
    <3>2. entry[Name(w)] # Dir /\ pc' = [pc EXCEPT ![w] = "write"] /\ UNCHANGED buf
      BY <1>2, <2>4, Created
    <3>3. /\ entry'[Name(w)] = node'[w] /\ data'[node'[w]] = <<>>
          /\ buf'[w] = <<>> /\ pc'[w] = "write"
      BY <1>10, <2>2, <3>1, <3>2 DEF FileInv, TypeOK
    <3>4. before[w] # Dir
      BY <1>10, <2>2, <3>2, ContentFacts
    <3>5. \A i \in 1..Len(<<>>) : FALSE
      OBVIOUS
    <3> QED BY <1>10, <3>3, <3>4, <3>5 DEF StillAtomic, UndisturbedSoFar, Name
  <2> QED BY <2>3, <2>4
<1>3. CASE pc[w] = "write"
  <2>1. /\ node[w] \in Inodes /\ buf[w] \in Blocks /\ entry[Name(w)] = node[w]
        /\ data[node[w]] = buf[w] /\ before[w] # Dir
        /\ \A i \in 1..Len(buf[w]) : buf[w][i] = job[w].body
    <3>1. node[w] \in Inodes /\ buf[w] \in Blocks
      BY <1>3 DEF FileInv, TypeOK, CallFits
    <3> QED BY <1>3, <3>1 DEF UndisturbedSoFar, Name
  <2>2. IsFile(Name(w)) /\ Content(Name(w)) = buf[w]
    BY <2>1 DEF IsFile, Content
  <2>3. CASE Write(w)
    <3> DEFINE b == job[w].body
               at == Len(buf[w])
    <3>1. at \in Nat
      BY <2>1 DEF Blocks
    <3>2. PICK k \in 1..(Size[b] - at) :
            /\ data' = [data EXCEPT ![node[w]] = Overlay(@, at + 1, at + k, b)]
            /\ buf' = [buf EXCEPT ![w] = @ \o [i \in 1..k |-> b]]
      BY <2>3 DEF Write
    <3>3. k \in Nat \ {0} /\ UNCHANGED <<entry, pc, node>>
      BY <1>10, <2>3, <3>1 DEF Write
    <3>4. /\ data'[node[w]] = Overlay(buf[w], at + 1, at + k, b)
          /\ buf'[w] = buf[w] \o [i \in 1..k |-> b]
      BY <2>1, <3>2 DEF FileInv, TypeOK
    <3>5. data'[node[w]] = buf'[w] /\ \A i \in 1..Len(buf'[w]) : buf'[w][i] = b
      <4> DEFINE s == buf[w]
                 t == data'[node[w]]
      <4>1. /\ b \in Bodies /\ s \in Blocks /\ k \in Nat \ {0}
        BY <1>10, <2>1, <3>3
      <4>5. \A i \in 1..Len(s) : s[i] = b
        BY <2>1
      <4>2. t = Overlay(s, Len(s) + 1, Len(s) + k, b)
        BY <3>4
      <4> HIDE DEF b, s, t
      <4>3. t = s \o [i \in 1..k |-> b]
        BY <4>1, <4>2, OverlayAppends
      <4>4. \A i \in 1..Len(t) : t[i] = b
        BY <4>1, <4>3, <4>5, StillAllOfIt
      <4> QED BY <3>4, <4>3, <4>4 DEF b, s, t
    <3> QED BY <1>3, <1>10, <2>1, <3>3, <3>5 DEF StillAtomic, UndisturbedSoFar, Name
  <2>4. CASE Written(w)
    <3>1. /\ pc'[w] = "done" /\ reply'[w].code = "201" /\ UNCHANGED <<entry, data>>
          /\ Len(buf[w]) = Size[job[w].body]
      BY <2>4, StatusFacts DEF Written, files
    <3>2. Content(Name(w))' = Whole(job[w].body)
      BY <1>10, <2>1, <2>2, <3>1, AllOfIt, ContentStays
    <3> QED BY <1>10, <2>1, <3>1, <3>2, ActedPost DEF StillAtomic
  <2>5. CASE WriteFails(w)
    <3>1. /\ pc'[w] = "done" /\ reply'[w].code = "500 write" /\ UNCHANGED <<entry, data>>
          /\ Len(buf[w]) < Size[job[w].body]
      BY <2>5, StatusFacts DEF WriteFails, files
    <3>2. Content(Name(w))' = buf[w] /\ IsFile(Name(w))'
      BY <1>10, <2>2, <3>1, ContentStays
    <3> QED BY <1>10, <2>1, <3>1, <3>2, ActedPost DEF StillAtomic
  <2> QED BY <1>3, <2>3, <2>4, <2>5 DEF PostRoot, Create
<1> QED BY <1>1, <1>2, <1>3 DEF Write, Written, WriteFails

LEMMA OwnMkdir ==
  ASSUME NEW w \in Workers, Undisturbed(w),
         Mkdir(w) \/ IsDir(w) \/ MkRoot(w) \/ RootDir(w)
  PROVE  StillAtomic(w)
<1> USE DEF Undisturbed
<1>10. /\ pc[w] \in {"mkdir", "again", "isdir", "mkroot", "rootdir"} /\ job[w].op = "mkdir"
       /\ UNCHANGED <<data, job, before>> /\ Name(w) \in Names /\ before[w] = Content(Name(w))
       /\ Absent # Dir /\ root \in {Dir, Absent}
  <2>1. /\ pc[w] \in {"mkdir", "again", "isdir", "mkroot", "rootdir"}
        /\ UNCHANGED <<data, job, before>>
    BY DEF Mkdir, IsDir, MkRoot, RootDir, files, Status, Answer, Goto
  <2>2. pc[w] # "idle"
    BY <2>1
  <2>3. job[w].op = "mkdir" /\ root \in {Dir, Absent}
    BY <2>1 DEF FileInv, CallFits, TypeOK
  <2> QED BY <2>1, <2>2, <2>3, JobType, FileStoreAssumption DEF Name, UndisturbedSoFar
<1>11. /\ before[w] = Absent <=> entry[Name(w)] = Absent
       /\ before[w] = Dir <=> entry[Name(w)] = Dir
  BY <1>10, ContentFacts
<1>12. UNCHANGED entry => Content(Name(w))' = Content(Name(w))
  BY <1>10, ContentStays
<1>1. CASE Mkdir(w)
  <2>1. pc[w] \in {"mkdir", "again"} /\ UNCHANGED root /\ (pc[w] = "again" => root = Dir)
    BY <1>1 DEF Mkdir, UndisturbedSoFar
  <2>2. CASE root = Dir /\ entry[Name(w)] = Absent
    <3>1. /\ entry' = [entry EXCEPT ![Name(w)] = Dir]
          /\ pc'[w] = "done" /\ reply'[w].code = "201"
      BY <1>1, <2>2, StatusFacts DEF Mkdir
    <3>2. entry'[Name(w)] = Dir
      BY <1>10, <3>1 DEF FileInv, TypeOK
    <3>3. Content(Name(w))' = Dir
      BY <1>10, <3>2, FileStoreAssumption DEF Content, IsFile, Name
    <3> QED BY <1>10, <1>11, <2>2, <3>1, <3>3, ActedMkdir DEF StillAtomic
  <2>3. CASE ~(root = Dir /\ entry[Name(w)] = Absent)
    <3>1. /\ Goto(w, IF root = Absent /\ pc[w] = "mkdir" THEN "mkroot" ELSE "isdir")
          /\ UNCHANGED entry
      BY <1>1, <2>3 DEF Mkdir
    <3>2. pc'[w] = IF root = Absent /\ pc[w] = "mkdir" THEN "mkroot" ELSE "isdir"
      BY <3>1, GotoFacts
    <3>3. CASE root = Absent /\ pc[w] = "mkdir"
      BY <1>10, <1>12, <3>1, <3>2, <3>3 DEF StillAtomic, UndisturbedSoFar, Name
    <3>4. CASE ~(root = Absent /\ pc[w] = "mkdir")
      <4>1. pc'[w] = "isdir" /\ before[w] # Absent
        BY <1>10, <1>11, <2>1, <2>3, <3>2, <3>4
      <4> QED BY <1>10, <1>12, <3>1, <4>1 DEF StillAtomic, UndisturbedSoFar, Name
    <3> QED BY <3>3, <3>4
  <2> QED BY <2>2, <2>3
<1>2. CASE IsDir(w)
  <2>1. before[w] # Absent
    BY <1>2 DEF IsDir, UndisturbedSoFar
  <2>2. /\ pc'[w] = "done" /\ UNCHANGED entry
        /\ reply'[w].code = IF entry[Name(w)] = Dir THEN "201" ELSE "500"
    BY <1>2, StatusFacts DEF IsDir, files
  <2>3. Content(Name(w))' = before[w]
    BY <1>10, <1>12, <2>2
  <2> QED BY <1>10, <1>11, <2>1, <2>2, <2>3, ActedMkdir DEF StillAtomic
<1>3. CASE MkRoot(w)
  <2>1. /\ pc'[w] \in {"again", "rootdir"} /\ root' = Dir /\ UNCHANGED entry
    BY <1>3, GotoFacts DEF MkRoot
  <2> QED BY <1>10, <1>12, <2>1 DEF StillAtomic, UndisturbedSoFar, Name
<1>4. CASE RootDir(w)
  <2>1. root = Dir
    BY <1>4 DEF RootDir, UndisturbedSoFar
  <2>2. pc'[w] = "again" /\ UNCHANGED <<root, entry>>
    BY <1>4, <2>1, GotoFacts DEF RootDir, files
  <2> QED BY <1>10, <1>12, <2>1, <2>2 DEF StillAtomic, UndisturbedSoFar, Name
<1> QED BY <1>1, <1>2, <1>3, <1>4

LEMMA OwnDelete ==
  ASSUME NEW w \in Workers, Undisturbed(w), Unlink(w) \/ OpenTree(w) \/ Rmdir(w)
  PROVE  StillAtomic(w)
<1> USE DEF Undisturbed
<1>10. /\ pc[w] \in {"unlink", "opentree", "rmdir"} /\ UNCHANGED <<root, data, job, before>>
       /\ Name(w) \in Names /\ job[w].op \in {"delete", "clear"} /\ Absent # Dir
       /\ job[w].op = "delete" => before[w] = Content(Name(w))
  <2>1. /\ pc[w] \in {"unlink", "opentree", "rmdir"}
        /\ UNCHANGED <<root, data, job, before>>
    BY DEF Unlink, OpenTree, Rmdir, files, Status, Answer, Goto
  <2>2. pc[w] # "idle" /\ job[w].op \in {"delete", "clear"}
    BY <2>1 DEF FileInv, CallFits
  <2> QED BY <2>1, <2>2, JobType, FileStoreAssumption DEF Name, UndisturbedSoFar
<1>11. job[w].op = "delete" =>
         /\ before[w] = Dir <=> entry[Name(w)] = Dir
         /\ before[w] \notin {Absent, Dir} => IsFile(Name(w))
  BY <1>10, ContentFacts
<1>12. ASSUME job[w].op = "delete", before[w] # Absent,
              entry' = [entry EXCEPT ![Name(w)] = Absent], Status(w, "200")
       PROVE  StillAtomic(w)
  <2>1. pc'[w] = "done" /\ reply'[w].code = "200"
    BY <1>12, StatusFacts
  <2>2. entry'[Name(w)] = Absent
    BY <1>10, <1>12 DEF FileInv, TypeOK
  <2>3. Content(Name(w))' = Absent
    BY <1>10, <2>2, FileStoreAssumption DEF Content, IsFile, Name
  <2> QED BY <1>10, <1>12, <2>1, <2>3, ActedDelete DEF StillAtomic
<1>1. CASE Unlink(w)
  <2>1. job[w].op = "delete" /\ before[w] \notin {Absent, Dir}
    BY <1>1 DEF Unlink, UndisturbedSoFar
  <2> QED BY <1>1, <1>11, <1>12, <2>1 DEF Unlink
<1>2. CASE OpenTree(w)
  <2>1. pc[w] = "opentree" /\ before[w] = Dir /\ UNCHANGED entry
    BY <1>2 DEF OpenTree, UndisturbedSoFar, files
  <2>2. CASE job[w].op = "clear"
    <3>1. root = Dir
      BY <2>1, <2>2 DEF UndisturbedSoFar
    <3>2. todo' = [todo EXCEPT ![w] = Unread] /\ Goto(w, "child")
      BY <1>2, <1>10, <2>2, <3>1 DEF OpenTree
    <3>3. todo'[w] = Unread /\ pc'[w] = "child"
      BY <3>2, GotoFacts DEF FileInv, TypeOK
    <3>4. /\ \A m \in Names : <<m, "unread">> \in todo'[w]
          /\ \A c \in todo'[w] : c[2] = "unread"
      BY <3>3 DEF Unread
    <3> QED BY <1>10, <2>1, <2>2, <3>1, <3>3, <3>4 DEF StillAtomic, UndisturbedSoFar
  <2>3. CASE job[w].op = "delete"
    <3>1. entry[Name(w)] = Dir
      BY <1>11, <2>1, <2>3
    <3>2. pc'[w] = "rmdir"
      BY <1>2, <2>3, <3>1, GotoFacts DEF OpenTree
    <3>3. Content(Name(w))' = Content(Name(w))
      BY <1>10, <2>1, ContentStays
    <3> QED BY <1>10, <2>1, <2>3, <3>2, <3>3 DEF StillAtomic, UndisturbedSoFar, Name
  <2> QED BY <1>10, <2>2, <2>3
<1>3. CASE Rmdir(w)
  <2>1. job[w].op = "delete" /\ before[w] = Dir
    BY <1>3 DEF Rmdir, UndisturbedSoFar, FileInv, CallFits
  <2> QED BY <1>3, <1>10, <1>11, <1>12, <2>1 DEF Rmdir
<1> QED BY <1>1, <1>2, <1>3

LEMMA OwnClear ==
  ASSUME NEW w \in Workers, Undisturbed(w), Children(w) \/ Child(w) \/ RmRoot(w) \/ RmRootFails(w)
  PROVE  StillAtomic(w)
<1> USE DEF Undisturbed
<1>10. /\ pc[w] = "child" /\ job[w].op = "clear" /\ UNCHANGED <<data, job, before>>
       /\ before[w] = root /\ before[w] # Absent /\ Absent # Dir
       /\ \A m \in Names : entry[m] # Absent => <<m, "unread">> \in todo[w] \/ <<m, KindOf(m)>> \in todo[w]
       /\ \A c \in todo[w] : c[2] # "unread" => entry[c[1]] # Absent /\ c[2] = KindOf(c[1])
       /\ root \in {Dir, Absent}
  <2>1. pc[w] = "child" /\ UNCHANGED <<data, job, before>>
    BY DEF Children, Child, RmRoot, RmRootFails, files, ghosts, Status, Answer
  <2>2. job[w].op = "clear" /\ root \in {Dir, Absent}
    BY <2>1 DEF FileInv, CallFits, TypeOK
  <2> QED BY <2>1, <2>2, FileStoreAssumption DEF UndisturbedSoFar
<1>11. ASSUME todo[w] = {}
       PROVE  \A n \in Names : entry[n] = Absent
  BY <1>10, <1>11
<1>1. CASE Child(w)
  <2>1. PICK c \in {d \in todo[w] : d[2] # "unread"} :
          IF Removed(c)
          THEN /\ entry' = [entry EXCEPT ![c[1]] = Absent]
               /\ todo' = [todo EXCEPT ![w] = @ \ {c}]
               /\ UNCHANGED pc
          ELSE Status(w, "500") /\ UNCHANGED entry
    BY <1>1 DEF Child
  <2>2. PICK m \in Names : entry[m] # Absent /\ c[1] = m /\ c[2] = (IF entry[m] = Dir THEN "dir" ELSE "file")
    BY <1>10, <2>1 DEF KindOf, FileInv, TypeOK
  <2>3. Removed(c)
    BY <2>2 DEF Removed, IsFile, FileInv, TypeOK
  <2>4. /\ entry' = [entry EXCEPT ![m] = Absent] /\ todo'[w] = todo[w] \ {c}
        /\ pc'[w] = "child" /\ UNCHANGED root
    BY <1>1, <1>10, <2>1, <2>2, <2>3 DEF FileInv, TypeOK, Child
  <2>5. \A n \in Names : /\ entry'[n] = IF n = m THEN Absent ELSE entry[n]
                         /\ n # m => KindOf(n)' = KindOf(n)
    BY <2>4 DEF FileInv, TypeOK, KindOf
  <2>6. ASSUME NEW n \in Names, entry'[n] # Absent
        PROVE  <<n, "unread">> \in todo'[w] \/ <<n, KindOf(n)'>> \in todo'[w]
    BY <1>10, <2>2, <2>4, <2>5, <2>6
  <2>7. ASSUME NEW d \in todo'[w], d[2] # "unread"
        PROVE  entry'[d[1]] # Absent /\ d[2] = KindOf(d[1])'
    <3>1. /\ d \in todo[w] /\ d # c /\ d \in Names \X Kinds /\ c \in Names \X Kinds
          /\ entry[d[1]] # Absent /\ d[2] = KindOf(d[1])
      BY <1>10, <2>1, <2>4, <2>7 DEF FileInv, TypeOK
    <3>2. d[1] # m
      BY <2>2, <3>1 DEF KindOf
    <3> QED BY <2>5, <3>1, <3>2
  <2> QED BY <1>10, <2>4, <2>6, <2>7 DEF StillAtomic, UndisturbedSoFar
<1>4. CASE Children(w)
  <2>1. UNCHANGED <<root, entry, pc>>
    BY <1>4 DEF Children, files
  <2>2. PICK S \in Coming(w) :
          todo' = [todo EXCEPT ![w] = (@ \ S) \cup {<<n, KindOf(n)>> : n \in Found(S)}]
    BY <1>4 DEF Children
  <2>3. todo'[w] = (todo[w] \ S) \cup {<<n, KindOf(n)>> : n \in Found(S)}
    BY <2>2 DEF FileInv, TypeOK
  <2>4. \A n : KindOf(n)' = KindOf(n)
    BY <2>1 DEF KindOf
  <2>5. \A n \in Found(S) : n \in Names /\ entry[n] # Absent
    BY DEF Found
  <2>6. \A c \in S : c[2] = "unread" /\ KindOf(c[1]) # "unread"
    BY <2>2 DEF Coming, KindOf
  <2>7. ASSUME NEW n \in Names, entry[n] # Absent
        PROVE  <<n, "unread">> \in todo'[w] \/ <<n, KindOf(n)>> \in todo'[w]
    <3>1. CASE <<n, "unread">> \in S
      BY <2>3, <2>7, <3>1 DEF Found
    <3>2. CASE <<n, "unread">> \notin S
      <4>1. <<n, KindOf(n)>> \notin S
        BY <2>6
      <4> QED BY <1>10, <2>3, <2>7, <3>2, <4>1
    <3> QED BY <3>1, <3>2
  <2>8. ASSUME NEW d \in todo'[w], d[2] # "unread"
        PROVE  entry[d[1]] # Absent /\ d[2] = KindOf(d[1])
    BY <1>10, <2>3, <2>5, <2>8
  <2> QED BY <1>10, <2>1, <2>4, <2>7, <2>8 DEF StillAtomic, UndisturbedSoFar
<1>12. ASSUME todo[w] = {}, UNCHANGED entry, pc'[w] = "done",
              reply'[w].code = IF Removable THEN "200" ELSE "500"
       PROVE  StillAtomic(w)
  <2>1. \A n \in Names : Content(n)' = Absent
    BY <1>10, <1>11, <1>12, ContentFacts, ContentStays
  <2> QED BY <1>10, <1>12, <2>1, ActedClear DEF StillAtomic
<1>2. CASE RmRoot(w)
  <2>1. /\ Removable /\ todo[w] = {} /\ UNCHANGED entry
        /\ pc'[w] = "done" /\ reply'[w] = Plain("200")
    BY <1>2 DEF RmRoot, FileInv, TypeOK
  <2>2. reply'[w].code = "200"
    BY <2>1 DEF Plain
  <2> QED BY <1>12, <2>1, <2>2
<1>3. CASE RmRootFails(w)
  <2>1. /\ todo[w] = {} /\ UNCHANGED entry /\ pc'[w] = "done" /\ reply'[w].code = "500"
        /\ ~Removable \/ root = Absent \/ \E n \in Names : entry[n] # Absent
    BY <1>3, StatusFacts DEF RmRootFails, files
  <2> QED BY <1>10, <1>11, <1>12, <2>1
<1> QED BY <1>1, <1>2, <1>3, <1>4

LEMMA OwnCall ==
  ASSUME NEW w \in Workers, FileInv, clean[w], UndisturbedSoFar(w), Call(w)
  PROVE  StillAtomic(w)
<1>1. Undisturbed(w)
  BY DEF Undisturbed
<1> QED BY <1>1, OwnGet, OwnList, OwnRead, OwnPost, OwnMkdir, OwnDelete, OwnClear DEF Call

-----------------------------------------------------------------------------
(***************************************************************************)
(* The steps of the whole system.                                          *)
(***************************************************************************)
LEMMA CallUndisturbed ==
  ASSUME StoreInv, NEW w \in Workers, Call(w)
  PROVE  UndisturbedInv' /\ UndisturbedIsAtomic'
<1>1. FileInv /\ UndisturbedInv /\ UndisturbedIsAtomic
  BY DEF StoreInv
<1>2. /\ UNCHANGED <<job, clean>> /\ Busy(w)
      /\ \A v \in Workers \ {w} : pc'[v] = pc[v]
  BY <1>1, OthersKept
<1>3. \A u \in Workers : Busy(u)' => Busy(u)
  BY <1>2 DEF Busy
<1>4. ASSUME NEW v \in Workers, clean[v], job[v] # None
      PROVE  /\ UndisturbedSoFar(v)'
             /\ pc'[v] = "done" => ActedAtomically(v)'
  <2>1. /\ \A u \in Workers \ {v} : Busy(u) => ~Disturbs(job[u], job[v])
        /\ UndisturbedSoFar(v)
    BY <1>1, <1>4 DEF UndisturbedInv
  <2>2. CASE v = w
    <3>1. StillAtomic(v)
      BY <1>1, <1>4, <2>1, <2>2, OwnCall
    <3>2. pc'[v] = "done" => UndisturbedSoFar(v)'
      BY DEF UndisturbedSoFar
    <3> QED BY <3>1, <3>2 DEF StillAtomic
  <2>3. CASE v # w
    <3>1. ~Disturbs(job[w], job[v]) /\ pc'[v] = pc[v]
      BY <1>2, <2>1, <2>3
    <3>2. pc[v] = "done" => ActedAtomically(v)
      BY <1>1, <1>4 DEF UndisturbedIsAtomic
    <3> QED BY <1>1, <1>4, <2>1, <2>3, <3>1, <3>2, UndisturbedKept
  <2> QED BY <2>2, <2>3
<1>5. UndisturbedInv'
  <2> SUFFICES ASSUME NEW v \in Workers, clean'[v], job'[v] # None
               PROVE  /\ \A u \in Workers \ {v} : Busy(u)' => ~Disturbs(job'[u], job'[v])
                      /\ UndisturbedSoFar(v)'
    BY DEF UndisturbedInv, Disturbs
  <2>1. clean[v] /\ job[v] # None
    BY <1>2
  <2>2. \A u \in Workers \ {v} : Busy(u) => ~Disturbs(job[u], job[v])
    BY <1>1, <2>1 DEF UndisturbedInv
  <2>3. \A u \in Workers \ {v} : Busy(u)' => ~Disturbs(job'[u], job'[v])
    BY <1>2, <1>3, <2>2
  <2> QED BY <1>4, <2>1, <2>3
<1>6. UndisturbedIsAtomic'
  <2> SUFFICES ASSUME NEW v \in Workers, pc'[v] = "done", clean'[v]
               PROVE  ActedAtomically(v)'
    BY DEF UndisturbedIsAtomic
  <2>1. job[v] # None
    <3>1. pc[v] # "idle"
      BY <1>2 DEF Busy
    <3> QED BY <1>1, <3>1 DEF FileInv, CallFits
  <2> QED BY <1>2, <1>4, <2>1
<1> QED BY <1>5, <1>6

LEMMA BeginUndisturbed ==
  ASSUME StoreInv, NEW w \in Workers, NEW j \in Jobs, Begin(w, j)
  PROVE  UndisturbedInv' /\ UndisturbedIsAtomic'
<1>1. FileInv /\ UndisturbedInv /\ UndisturbedIsAtomic
  BY DEF StoreInv
<1>2. /\ job' = [job EXCEPT ![w] = j] /\ pc' = [pc EXCEPT ![w] = FirstCall(j.op)]
      /\ buf' = [buf EXCEPT ![w] = <<>>] /\ reply' = [reply EXCEPT ![w] = NoReply]
      /\ before' = [before EXCEPT ![w] = IF j.op \in {"list", "clear"} THEN root ELSE Content(j.name)]
      /\ UNCHANGED <<root, entry, data, node, todo>>
  BY DEF Begin
<1>3. /\ clean'[w] => \A u \in Workers \ {w} : Busy(u) => ~Disturbs(job[u], j)
      /\ \A v \in Workers \ {w} : clean'[v] => clean[v] /\ (job[v] # None => ~Disturbs(j, job[v]))
  BY DEF Begin
<1>4. /\ job'[w] = j /\ pc'[w] = FirstCall(j.op)
      /\ before'[w] = IF j.op \in {"list", "clear"} THEN root ELSE Content(j.name)
  BY <1>1, <1>2 DEF FileInv, TypeOK
<1>5. \A v \in Workers \ {w} : /\ job'[v] = job[v] /\ pc'[v] = pc[v] /\ before'[v] = before[v]
                               /\ buf'[v] = buf[v] /\ reply'[v] = reply[v]
                               /\ Busy(v)' = Busy(v)
  BY <1>1, <1>2 DEF FileInv, TypeOK, Busy
<1>6. UndisturbedSoFar(w)' /\ pc'[w] # "done"
  <2>1. /\ pc'[w] \in {"exists", "list", "root", "mkdir"}
        /\ pc'[w] = "list" <=> j.op = "list"
        /\ pc'[w] = "exists" <=> j.op \in {"get", "delete", "clear"}
    BY <1>4, FileStoreAssumption DEF FirstCall, Job
  <2>2. Content(j.name)' = Content(j.name) /\ UNCHANGED root
    BY <1>2 DEF Content, IsFile
  <2> QED BY <1>4, <2>1, <2>2 DEF UndisturbedSoFar
<1>7. ASSUME NEW v \in Workers \ {w}
      PROVE  /\ UndisturbedSoFar(v) => UndisturbedSoFar(v)'
             /\ ActedAtomically(v) => ActedAtomically(v)'
  <2>1. /\ job'[v] = job[v] /\ pc'[v] = pc[v] /\ before'[v] = before[v]
        /\ buf'[v] = buf[v] /\ reply'[v] = reply[v]
        /\ root' = root /\ entry' = entry /\ data' = data /\ node' = node /\ todo' = todo
    BY <1>2, <1>5
  <2>2. UndisturbedSoFar(v) => UndisturbedSoFar(v)'
    BY <2>1 DEF UndisturbedSoFar, Content, IsFile, KindOf
  <2>3. ActedAtomically(v) => ActedAtomically(v)'
    BY <2>1 DEF ActedAtomically, AtomicGet, AtomicPost, AtomicMkdir, AtomicDelete, AtomicList,
                AtomicClear, Content, IsFile
  <2> QED BY <2>2, <2>3
<1>8. UndisturbedInv'
  <2> SUFFICES ASSUME NEW v \in Workers, clean'[v], job'[v] # None
               PROVE  /\ \A u \in Workers \ {v} : Busy(u)' => ~Disturbs(job'[u], job'[v])
                      /\ UndisturbedSoFar(v)'
    BY DEF UndisturbedInv, Disturbs
  <2>1. CASE v = w
    BY <1>3, <1>4, <1>5, <1>6, <2>1
  <2>2. CASE v # w
    <3>1. /\ clean[v] /\ job[v] # None /\ job'[v] = job[v] /\ ~Disturbs(j, job[v])
      BY <1>3, <1>5, <2>2
    <3>2. /\ \A u \in Workers \ {v} : Busy(u) => ~Disturbs(job[u], job[v])
          /\ UndisturbedSoFar(v)
      BY <1>1, <3>1 DEF UndisturbedInv
    <3>3. ASSUME NEW u \in Workers \ {v}, Busy(u)'
          PROVE  ~Disturbs(job'[u], job'[v])
      <4>1. CASE u = w
        BY <1>4, <3>1, <4>1
      <4>2. CASE u # w
        BY <1>5, <3>1, <3>2, <3>3, <4>2
      <4> QED BY <4>1, <4>2
    <3> QED BY <1>7, <2>2, <3>2, <3>3
  <2> QED BY <2>1, <2>2
<1>9. UndisturbedIsAtomic'
  <2> SUFFICES ASSUME NEW v \in Workers, pc'[v] = "done", clean'[v]
               PROVE  ActedAtomically(v)'
    BY DEF UndisturbedIsAtomic
  <2>1. v # w
    BY <1>6
  <2>2. pc[v] = "done" /\ clean[v]
    BY <1>3, <1>5, <2>1
  <2> QED BY <1>1, <1>7, <2>1, <2>2 DEF UndisturbedIsAtomic
<1> QED BY <1>8, <1>9

LEMMA StoreInvKept ==
  ASSUME StoreInv, [Next]_vars
  PROVE  StoreInv'
<1>1. FileInv'
  BY NextFileInv DEF StoreInv
<1>2. CASE Crash
  <2>1. \A w \in Workers : pc'[w] = "idle" /\ job'[w] = None
    BY <1>2 DEF Crash
  <2> QED BY <1>1, <2>1 DEF StoreInv, UndisturbedInv, UndisturbedIsAtomic
<1>3. ASSUME NEW w \in Workers, Call(w)
      PROVE  StoreInv'
  BY <1>1, <1>3, CallUndisturbed DEF StoreInv
<1>4. ASSUME NEW w \in Workers, NEW j \in Jobs, Begin(w, j)
      PROVE  StoreInv'
  BY <1>1, <1>4, BeginUndisturbed DEF StoreInv
<1>5. CASE UNCHANGED vars
  <2>1. /\ root' = root /\ entry' = entry /\ data' = data /\ pc' = pc /\ job' = job /\ node' = node
        /\ buf' = buf /\ todo' = todo /\ reply' = reply /\ clean' = clean /\ before' = before
    BY <1>5 DEF vars
  <2>2. UndisturbedInv'
    BY <2>1 DEF StoreInv, UndisturbedInv, UndisturbedSoFar, Busy, Disturbs, Content, IsFile, KindOf
  <2>3. UndisturbedIsAtomic'
    <3>1. ASSUME NEW w \in Workers, ActedAtomically(w)
          PROVE  ActedAtomically(w)'
      BY <2>1, <3>1 DEF ActedAtomically, AtomicGet, AtomicPost, AtomicMkdir, AtomicDelete, AtomicList,
                        AtomicClear, Content, IsFile
    <3> QED BY <2>1, <3>1 DEF StoreInv, UndisturbedIsAtomic
  <2> QED BY <1>1, <2>2, <2>3 DEF StoreInv
<1> QED BY <1>2, <1>3, <1>4, <1>5 DEF Next

(***************************************************************************)
(* A request that no overlapping one can disturb answers and acts as an    *)
(* atomic store would, though it looks at the directory several times and  *)
(* reads and writes piece by piece, for any number of workers, requests    *)
(* and blocks, and across crashes.                                         *)
(***************************************************************************)
THEOREM StoreUndisturbedIsAtomic == Spec => []UndisturbedIsAtomic
<1>1. Init => StoreInv
  <2>1. Init => \A w \in Workers : pc[w] = "idle" /\ job[w] = None
    BY DEF Init
  <2> QED BY <2>1, InitFileInv DEF StoreInv, UndisturbedInv, UndisturbedIsAtomic
<1>2. StoreInv /\ [Next]_vars => StoreInv'
  BY StoreInvKept
<1>3. StoreInv => UndisturbedIsAtomic
  BY DEF StoreInv
<1> QED BY <1>1, <1>2, <1>3, PTL DEF Spec
=============================================================================
