------------------------------ MODULE Framing ------------------------------
(***************************************************************************)
(* What reassembly should achieve, stated without buffers: the plugin sees *)
(* the frames of each device, whole, once each and in the order sent, and  *)
(* every frame that has arrived is seen in the end.                        *)
(***************************************************************************)
EXTENDS Naturals, Sequences

CONSTANTS Session, Frames   \* Frames[s]: <<last position, frame>>, in order

VARIABLES arrived, seen
framingVars == <<arrived, seen>>

FramingInit ==
  /\ arrived = [s \in Session |-> 0]
  /\ seen = [s \in Session |-> <<>>]

Arrive(s) ==
  /\ arrived'[s] > arrived[s]
  /\ arrived' = [arrived EXCEPT ![s] = arrived'[s]]
  /\ UNCHANGED seen

See(s) ==
  LET next == Len(seen[s]) + 1
  IN  /\ next <= Len(Frames[s])
      /\ Frames[s][next][1] <= arrived[s]
      /\ seen' = [seen EXCEPT ![s] = Append(@, Frames[s][next][2])]
      /\ UNCHANGED arrived

FramingNext == \E s \in Session : Arrive(s) \/ See(s)

FramingSpec ==
  /\ FramingInit
  /\ [][FramingNext]_framingVars
  /\ \A s \in Session : WF_framingVars(See(s))
=============================================================================
