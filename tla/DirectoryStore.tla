--------------------------- MODULE DirectoryStore ---------------------------
(***************************************************************************)
(* What the file handlers of the kernel promise about names, whatever they *)
(* do to each other: every request takes effect at one moment between its  *)
(* arrival and its answer, and its answer is the one of that moment; or it *)
(* is answered 500 and has changed nothing.  Only a listing comes to the   *)
(* names one after the other, to each at one moment, and the removal of    *)
(* the root may take several names away before it is answered.             *)
(* FileStore implements this one system call at a time.                    *)
(***************************************************************************)
CONSTANTS Workers, Names, Jobs, Absent, Dir, None

File == "file"

VARIABLES
  root,  \* Dir or Absent
  kind,  \* what a name is: File, Dir or Absent
  job,   \* the request a worker runs
  out    \* how far it is: a code, the names a listing found, and the unread ones

dvars == <<root, kind, job, out>>

State(code) == [code |-> code, names |-> {}, unread |-> {}]

DInit ==
  /\ root = Dir
  /\ kind = [n \in Names |-> Absent]
  /\ job = [w \in Workers |-> None]
  /\ out = [w \in Workers |-> State("none")]

Pending(w, ops) == out[w].code = "pending" /\ job[w].op \in ops
Become(w, code) == out' = [out EXCEPT ![w] = State(code)] /\ UNCHANGED job
Is(w, k) == kind[job[w].name] = k
Turn(w, k) == kind' = [kind EXCEPT ![job[w].name] = k]

Arrive(w, j) ==
  /\ out[w].code \notin {"pending", "found", "stored", "listing"}
  /\ job' = [job EXCEPT ![w] = j]
  /\ out' = [out EXCEPT ![w] = State("pending")]
  /\ UNCHANGED <<root, kind>>

Missing(w) ==
  /\ \/ Pending(w, {"get", "delete"}) /\ Is(w, Absent)
     \/ Pending(w, {"clear"}) /\ root = Absent
  /\ Become(w, "404")
  /\ UNCHANGED <<root, kind>>

Refused(w) ==
  /\ out[w].code = "pending"
  /\ Become(w, "500")
  /\ UNCHANGED <<root, kind>>

Got(w) ==
  /\ Pending(w, {"get"}) /\ Is(w, File)
  /\ Become(w, "found")
  /\ UNCHANGED <<root, kind>>

Opened(w) ==
  /\ Pending(w, {"list"}) /\ root = Dir
  /\ out' = [out EXCEPT ![w] = [code |-> "listing", names |-> {}, unread |-> Names]]
  /\ UNCHANGED <<root, kind, job>>

ComesTo(w, S) ==
  /\ out[w].code = "listing"
  /\ out' = [out EXCEPT ![w] = [code |-> "listing", unread |-> out[w].unread \ S,
                                names |-> out[w].names \cup {n \in S : kind[n] # Absent}]]
  /\ UNCHANGED <<root, kind, job>>

Listed(w) ==
  /\ out[w].code = "listing" /\ out[w].unread = {}
  /\ out' = [out EXCEPT ![w].code = "200"]
  /\ UNCHANGED <<root, kind, job>>

Rooted(w) ==
  /\ Pending(w, {"post", "mkdir"})
  /\ root' = Dir
  /\ UNCHANGED <<kind, job, out>>

Stored(w) ==
  /\ Pending(w, {"post"}) /\ root = Dir /\ ~Is(w, Dir)
  /\ Turn(w, File) /\ Become(w, "stored")
  /\ UNCHANGED root

Answered(w) ==
  /\ \/ out[w].code = "found" /\ Become(w, "200")
     \/ out[w].code = "stored" /\ (Become(w, "201") \/ Become(w, "500 write"))
  /\ UNCHANGED <<root, kind>>

Made(w) ==
  /\ Pending(w, {"mkdir"})
  /\ \/ Is(w, Absent) /\ root = Dir /\ Turn(w, Dir)
     \/ Is(w, Dir) /\ UNCHANGED kind
  /\ Become(w, "201")
  /\ UNCHANGED root

Deleted(w) ==
  /\ Pending(w, {"delete"}) /\ ~Is(w, Absent)
  /\ Turn(w, Absent) /\ Become(w, "200")
  /\ UNCHANGED root

Emptied(w) ==
  /\ Pending(w, {"clear"})
  /\ \E n \in Names : kind' = [kind EXCEPT ![n] = Absent]
  /\ UNCHANGED <<root, job, out>>

\* A listing that is under way finds nothing more.
Cleared(w) ==
  /\ Pending(w, {"clear"}) /\ root = Dir /\ \A n \in Names : kind[n] = Absent
  /\ root' = Absent
  /\ out' = [v \in Workers |-> IF v = w THEN State("200") ELSE [out[v] EXCEPT !.unread = {}]]
  /\ UNCHANGED <<kind, job>>

\* The process dies: what it was doing is answered by nobody.
Forgotten ==
  /\ job' = [w \in Workers |-> None]
  /\ out' = [w \in Workers |-> State("none")]
  /\ UNCHANGED <<root, kind>>

DNext ==
  \/ Forgotten
  \/ \E w \in Workers :
       \/ \E j \in Jobs : Arrive(w, j)
       \/ Missing(w) \/ Refused(w) \/ Got(w) \/ Rooted(w)
       \/ Opened(w) \/ (\E S \in SUBSET out[w].unread : ComesTo(w, S)) \/ Listed(w)
       \/ Stored(w) \/ Answered(w) \/ Made(w) \/ Deleted(w) \/ Emptied(w) \/ Cleared(w)

DSpec == DInit /\ [][DNext]_dvars
=============================================================================
