---------------------------- MODULE MCFileStore ----------------------------
(***************************************************************************)
(* The instances of FileStore that TLC checks.                             *)
(***************************************************************************)
EXTENDS FileStore, TLC

CONSTANTS short, long, f1, f2

BodySize == (short :> 1) @@ (long :> 2)

J(op, n, body) == [op |-> op, name |-> n, body |-> body]
Named(op, ns) == {J(op, n, short) : n \in ns}

\* Both bodies on one name; on the other one what can meet a missing root.
AllJobs == Named("get", {f1}) \cup Named("mkdir", Names) \cup {J("delete", f1, short)}
           \cup {J("post", f1, v) : v \in Bodies} \cup {J("post", f2, short)}
           \cup {J("list", f1, short), J("clear", f1, short)}

Uploads == {J("post", f1, v) : v \in Bodies}

\* The requests whose handlers loop, on one name.
Loops == {J("get", f1, short), J("post", f1, long), J("clear", f1, short), J("list", f1, short)}

Threads == Permutations(Workers)

(***************************************************************************)
(* What the future and the invariants depend on: not the blocks of a free  *)
(* inode (Create truncates), nor what a disturbed request found, nor what  *)
(* it answered.                                                            *)
(***************************************************************************)
Live == [i \in Inodes |->
           IF (\E n \in Names : entry[n] = i) \/ (\E w \in Workers : node[w] = i)
           THEN data[i] ELSE <<>>]
Request == [w \in Workers |->
              IF clean[w] THEN <<job[w], reply[w], before[w]>>
              ELSE IF Busy(w) THEN <<job[w], reply[w]>> ELSE None]
Seen == <<root, entry, Live, pc, node, buf, todo, clean, Request>>
=============================================================================
