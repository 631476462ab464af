-------------------------- MODULE MCExpressoServer --------------------------
(***************************************************************************)
(* The instance of ExpressoServer that TLC checks: three connections, two  *)
(* to four descriptors, and plans in which at most one client lingers.     *)
(***************************************************************************)
EXTENDS ExpressoServer, TLC

CONSTANTS c1, c2, c3, s, l

R(verb, body, close) == [verb |-> verb, body |-> body, split |-> FALSE, eager |-> FALSE, close |-> close]
Get == R("get", None, TRUE)
Put(b) == R("post", b, TRUE)
Plan(limit, wishes) == [limit : {limit}, file : {Absent, s}, script : {wishes}]

Tried ==
  Plan(4, c1 :> <<Put(s)>> @@ c2 :> <<Put(l)>>) \cup
  Plan(4, c1 :> <<Get>> @@ c2 :> <<Put(s)>>) \cup
  Plan(3, c1 :> <<Get>> @@ c2 :> <<Put(l)>> @@ c3 :> <<>>) \cup
  Plan(2, c1 :> <<Get>> @@ c2 :> <<R("other", None, TRUE)>> @@ c3 :> <<>>) \cup
  Plan(4, c1 :> <<Put(l)>> @@ c2 :> <<R("get", None, FALSE), [Get EXCEPT !.eager = TRUE]>>) \cup
  Plan(3, c1 :> <<R("bad", None, TRUE)>> @@ c2 :> <<[Put(s) EXCEPT !.split = TRUE]>>)
=============================================================================
