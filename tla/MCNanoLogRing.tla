--------------------------- MODULE MCNanoLogRing ---------------------------
(***************************************************************************)
(* An instance of NanoLogRing: a ring of two slots whose indices wrap at   *)
(* four, and two threads.  The NUL of the first string of p1 does not fit  *)
(* into the buffer inside the object and takes the line to the heap, the   *)
(* second string to a larger buffer; files roll after two short lines or   *)
(* after this one.                                                         *)
(***************************************************************************)
EXTENDS NanoLogRing

CONSTANTS p1, p2

Str(n) == [type |-> "string", bytes |-> n, shown |-> n]
Char == [type |-> "char", bytes |-> 1, shown |-> 1]
Literal == [type |-> "literal", bytes |-> 8, shown |-> 20]
Int32 == [type |-> "int32", bytes |-> 4, shown |-> 4]

MCContent ==
  [p \in Producer |->
     IF p = p1
       THEN <<[level |-> CRIT, args |-> <<Char, Str(176), Str(300)>>],
              [level |-> INFO, args |-> <<Literal>>],
              [level |-> WARN, args |-> <<Str(0), Int32>>]>>
       ELSE <<[level |-> WARN, args |-> <<Literal>>],
              [level |-> WARN, args |-> <<Int32>>]>>]
=============================================================================
