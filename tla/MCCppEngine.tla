---------------------------- MODULE MCCppEngine ----------------------------
(***************************************************************************)
(* The instances of CppEngine that TLC checks: the root, a text that fits  *)
(* the buffer, one that is cut, and a command answered with a literal.     *)
(***************************************************************************)
EXTENDS CppEngine, TLC

CONSTANTS slash, short, long, listing

Found == (slash :> {}) @@ (short :> {}) @@ (long :> {}) @@ (listing :> {"/files", "DELETE"})
Lengths == (slash :> 2) @@ (short :> 1) @@ (long :> 5) @@ (listing :> 1)

Symmetric == Permutations(Threads)
=============================================================================
