----------------------------- MODULE MCSession -----------------------------
(***************************************************************************)
(* A small instance of Session: a stream of two short frames, the second   *)
(* one with white space before it as between two lines.                    *)
(***************************************************************************)
EXTENDS Session

CONSTANT s1

MCCell == {"(", "x", " ", ")"}

MCFrames == <<"(", "x", ")", " ", "(", "x", ")">>

MCOneStream == [s \in Session |-> MCFrames]
=============================================================================
