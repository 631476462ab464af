-------------------------- MODULE MCRequestReader --------------------------
(***************************************************************************)
(* The instances of RequestReader that TLC checks.                         *)
(***************************************************************************)
EXTENDS RequestReader

R(head, body, framed, close) ==
  [head |-> head, body |-> body, framed |-> framed, close |-> close]

\* GET /echo/x and GET /, as such and with "Connection: close"; a head longer
\* than the buffer may grow; two uploads.
Gets == {R(4, 0, TRUE, FALSE), R(6, 0, TRUE, TRUE), R(7, 0, FALSE, TRUE), R(12, 0, TRUE, FALSE)}
Root == {R(6, 0, FALSE, FALSE)}
Posts == {R(5, 1, FALSE, TRUE), R(6, 4, FALSE, FALSE)}
All == Gets \cup Root \cup Posts
=============================================================================
