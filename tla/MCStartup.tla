----------------------------- MODULE MCStartup -----------------------------
(***************************************************************************)
(* An instance of Startup: two processes and three plugin files, two of    *)
(* them with the same port.                                                *)
(***************************************************************************)
EXTENDS Startup

CONSTANTS p1, p2, a, b, c, x, y

MCPortOf == [f \in File |-> IF f = c THEN y ELSE x]
=============================================================================
