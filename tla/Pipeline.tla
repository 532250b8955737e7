------------------------------ MODULE Pipeline ------------------------------
(***************************************************************************)
(* The way of a fix through the whole service: GeoService, whose plugin    *)
(* calls log_feedback inside the read handler of a connection, and         *)
(* FeedbackLog, whose job thread and request continuations run next to it. *)
(* They share the PUB socket and the process: as long as the io thread is  *)
(* inside `send' no handler of any connection goes on, and an exception on *)
(* either side ends both.                                                  *)
(***************************************************************************)
EXTENDS GeoService, FeedbackLog

ASSUME PipelineAssumption ==
  /\ Feedback \subseteq MessageId
  /\ \A s \in Session : \A n \in Fixes(s) : IdOf(SentText(s, n)) \in Feedback

pipelineVars == <<vars, logVars>>

Alive == fault = "none" /\ crash = "none"

-----------------------------------------------------------------------------
PipelineInit == Init /\ LogInit

(* What the io thread and the devices do when it is not inside `send'.     *)
Quietly(A) == A /\ UNCHANGED logVars

(* process has logged a feedback, or has not.                              *)
HandOver ==
  IF published' = published
    THEN UNCHANGED logVars
    ELSE StartSend(published'[Len(published')].msg)

IoStep(s) ==
  /\ sending = None
  /\ \/ HandleFrame(s) /\ HandOver
     \/ Quietly(Read(s))
     \/ Quietly(Ask(s))
     \/ Quietly(Terminate(s))
     \/ Quietly(SessionStep(s))

(* A device may hang up while the thread is inside `send'.                 *)
HangUpMeanwhile(s) ==
  /\ sending # None
  /\ HangUp(s)
  /\ UNCHANGED <<pluginVars, asking, logVars>>

PipelineNext ==
  /\ Alive
  /\ \/ \E s \in Session : IoStep(s) \/ HangUpMeanwhile(s)
     \/ LogStep /\ UNCHANGED vars

PipelineSpec == PipelineInit /\ [][PipelineNext]_pipelineVars

(* The io thread, the job thread, the sockets and the pool go on; the      *)
(* database answers every request and does not refuse a document it can    *)
(* store for ever.                                                         *)
LogGoesOn(A) == Alive /\ A /\ UNCHANGED vars

PipelineFairness ==
  /\ WF_pipelineVars(/\ Alive
                     /\ sending = None
                     /\ \E s \in Session :
                          \/ HandleFrame(s) /\ HandOver
                          \/ Quietly(Ask(s))
                          \/ Quietly(Terminate(s))
                          \/ Quietly(FinishRead(s) /\ UNCHANGED <<pluginVars, asking>>))
  /\ \A s \in Session :
       /\ WF_pipelineVars(Alive /\ sending = None /\ Quietly(Read(s)))
       /\ WF_pipelineVars(Alive /\ sending = None /\ Quietly(SessionStep(s) /\ Accept(s)))
  /\ WF_pipelineVars(LogGoesOn(Subscribe))
  /\ WF_pipelineVars(LogGoesOn(SendFirst))
  /\ WF_pipelineVars(LogGoesOn(Receive))
  /\ WF_pipelineVars(LogGoesOn(Post))
  /\ \A f \in Feedback :
       /\ WF_pipelineVars(LogGoesOn(SendAgain(f)))
       /\ WF_pipelineVars(LogGoesOn(Created(f) \/ Refused(f)))
       /\ SF_pipelineVars(LogGoesOn(Created(f)))

FairPipelineSpec == PipelineSpec /\ PipelineFairness

-----------------------------------------------------------------------------
(* The plugin and its connections keep what FeedbackLog expects of those   *)
(* who call log_feedback: one call at a time, and each fix once, however   *)
(* connections, lookups and faults interleave.                             *)
CallsOnce == LogSpec

Delivery ==
  INSTANCE FeedbackDelivery WITH Hopeless <- Poison, status <- Status, up <- Alive

(* What becomes of each feedback is what FeedbackDelivery says, and next   *)
(* to others that are refused for ever too.                                *)
Delivered == Delivery!DeliverySpec

(* What is stored or lost or on its way is a fix whose frame was handled,  *)
(* and no fix whose frame was handled is anywhere else.                    *)
FixesAccounted ==
  \A s \in Session : \A n \in Fixes(s) :
    IsHandled(s, n) <=> IdOf(SentText(s, n)) \notin fresh

(* From the device to the database: a fix that has reached the service is  *)
(* stored or dropped in the end, or the process ends.                      *)
FixesStored ==
  \A s \in Session : \A n \in Fixes(s) :
    IdOf(SentText(s, n)) \notin Poison =>
      (pos[s] >= n ~> \/ IdOf(SentText(s, n)) \in Stored \cup lost
                      \/ ~Alive)
=============================================================================
