------------------------------ MODULE MCKernel ------------------------------
(***************************************************************************)
(* The instances of Kernel that TLC checks: the requests, one for each way *)
(* through the parser.                                                     *)
(***************************************************************************)
EXTENDS Kernel

Req(wf, m, l, nul, utf8) ==
  [wellFormed |-> wf, method |-> m, length |-> l, nulPath |-> nul, utf8 |-> utf8]

AllRequests ==
  {Req(TRUE, "POST", "exact", FALSE, TRUE), Req(TRUE, "DELETE", "variant", FALSE, TRUE),
   Req(TRUE, "OTHER", "none", FALSE, TRUE),
   Req(TRUE, "GET", "none", TRUE, TRUE), Req(FALSE, "GET", "none", FALSE, TRUE),
   Req(TRUE, "POST", "exact", FALSE, FALSE)}
=============================================================================
