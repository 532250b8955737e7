--------------------------- MODULE SequenceFolds ---------------------------
(***************************************************************************)
(* What the other modules compute along a sequence, by recursive functions *)
(* that the proofs can be about.                                           *)
(***************************************************************************)
EXTENDS Integers, Sequences

(* base and all the numbers of q.                                          *)
Total(base, q) ==
  LET total[n \in 0..Len(q)] == IF n = 0 THEN base ELSE total[n - 1] + q[n]
  IN  total[Len(q)]

(* q without the elements of S.                                            *)
Without(q, S) ==
  LET kept[n \in 0..Len(q)] ==
        IF n = 0 THEN <<>>
        ELSE IF q[n] \in S THEN kept[n - 1] ELSE Append(kept[n - 1], q[n])
  IN  kept[Len(q)]

(* The sequences of qs one after the other.                                *)
Concatenated(qs) ==
  LET joined[n \in 0..Len(qs)] == IF n = 0 THEN <<>> ELSE joined[n - 1] \o qs[n]
  IN  joined[Len(qs)]
=============================================================================
