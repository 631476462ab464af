----------------------------- MODULE MCTerminal -----------------------------
(***************************************************************************)
(* The instance of Terminal that TLC checks: a file that is moved onto,    *)
(* copied from, removed, edited, touched, and made a directory.            *)
(***************************************************************************)
EXTENDS Terminal

CONSTANTS f, g

C(op, src, dst) == [op |-> op, src |-> src, dst |-> dst]

Entered == {C("mv", f, g), C("cp", g, f), C("rm", f, f), C("nano", f, f),
            C("touch", f, f), C("mkdir", g, g)}
=============================================================================
