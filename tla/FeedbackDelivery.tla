-------------------------- MODULE FeedbackDelivery --------------------------
(***************************************************************************)
(* What the service promises for the feedbacks of its devices: one that is *)
(* handed to the feedback log is pending until it is stored, exactly one   *)
(* document each, or lost; both are final.  While the process lives, a     *)
(* pending feedback that the database can store does not stay pending for  *)
(* ever.  When the process ends nothing moves any more, but the one whose  *)
(* request was cut off may have been stored.                               *)
(***************************************************************************)
CONSTANTS Feedback, Hopeless
VARIABLES status, up

deliveryVars == <<status, up>>

DeliveryInit ==
  /\ status = [f \in Feedback |-> "new"]
  /\ up = TRUE

Moves == {<<"new", "pending">>, <<"pending", "stored">>, <<"pending", "lost">>}

Move(f) ==
  /\ up
  /\ \E m \in Moves :
       /\ status[f] = m[1]
       /\ status' = [status EXCEPT ![f] = m[2]]
  /\ UNCHANGED up

End ==
  /\ up
  /\ up' = FALSE
  /\ \/ UNCHANGED status
     \/ \E f \in Feedback : /\ status[f] = "pending"
                            /\ status' = [status EXCEPT ![f] = "stored"]

Settle(f) == Move(f) /\ status'[f] \in {"stored", "lost"}

DeliveryNext == End \/ \E f \in Feedback : Move(f)

DeliverySafety == DeliveryInit /\ [][DeliveryNext]_deliveryVars

DeliverySpec ==
  /\ DeliverySafety
  /\ \A f \in Feedback \ Hopeless : WF_deliveryVars(Settle(f))
=============================================================================
