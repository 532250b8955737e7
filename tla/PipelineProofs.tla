--------------------------- MODULE PipelineProofs ---------------------------
(***************************************************************************)
(* Theorems about Pipeline: it implements the service on one side and, as  *)
(* every fix is handed over once, the feedback log on the other, so that   *)
(* what GeoServiceProofs and FeedbackLogProofs prove holds of the whole.   *)
(***************************************************************************)
EXTENDS Pipeline, GeoServiceProofs, FeedbackLogProofs

(* Every step is one of the service, or leaves it alone.                   *)
LEMMA PipelineServiceStep ==
  ASSUME [PipelineNext]_pipelineVars
  PROVE  [Next]_vars
<1>1. CASE UNCHANGED pipelineVars
  BY <1>1 DEF pipelineVars
<1>2. ASSUME Alive, NEW s \in Session, IoStep(s)
      PROVE  Next
  BY <1>2 DEF Alive, IoStep, Quietly, Next
<1>3. ASSUME Alive, NEW s \in Session, HangUpMeanwhile(s)
      PROVE  Next
  BY <1>3 DEF Alive, HangUpMeanwhile, SessionStep, Next
<1> QED  BY <1>1, <1>2, <1>3 DEF PipelineNext

(* Waiting inside `send' and the faults of the feedback log only hold the  *)
(* service up: what it does is what it does without them.                  *)
THEOREM PipelineImplementsService == PipelineSpec => Spec
<1>1. PipelineInit => Init
  BY DEF PipelineInit
<1>2. [PipelineNext]_pipelineVars => [Next]_vars
  BY PipelineServiceStep
<1> QED  BY <1>1, <1>2, PTL DEF PipelineSpec, Spec

-----------------------------------------------------------------------------
(* A fix is handed over only when its frame is handled.                    *)
FixesHanded ==
  \A s \in Session : \A n \in Fixes(s) :
    IdOf(SentText(s, n)) \notin fresh => IsHandled(s, n)

(* What the service has proved of itself, and FixesHanded.                 *)
Grounds == SessionFacts /\ PluginTypeOK /\ FixesHanded

(* A frame that is handled hands nothing over, or a fix that is fresh.     *)
LEMMA HandOverStep ==
  ASSUME FramesWellFormed, Grounds, NEW s \in Session, HandleFrame(s), HandOver
  PROVE  LET n == LastCell(NextFrame(s))
             f == IdOf(SentText(s, n))
         IN  \/ published' = published /\ UNCHANGED logVars
             \/ /\ n \in Fixes(s) /\ f \in Feedback /\ f \in fresh
                /\ StartSend(f)
<1> DEFINE n == LastCell(NextFrame(s))
           f == IdOf(SentText(s, n))
<1> HIDE DEF n, f
<1>1. CASE published' = published
  BY <1>1 DEF HandOver
<1>2. CASE published' # published
  <2>1. PICK e : n \in Fixes(s) /\ published' = Append(published, e) /\ e.msg = f
    <3>1. /\ n \in Fixes(s)
          /\ \E c : published' = Append(published,
                                        [device |-> deviceId, msg |-> f, numbers |-> c])
      BY <1>2, PublishStep DEF Grounds, n, f
    <3>2. \A c : [device |-> deviceId, msg |-> f, numbers |-> c].msg = f
      OBVIOUS
    <3> QED  BY <3>1, <3>2
  <2>2. published'[Len(published')] = e
    <3>1. published \in Seq(Feedbacks)
      BY DEF Grounds, PluginTypeOK
    <3> QED  BY <2>1, <3>1
  <2>3. StartSend(f)
    BY <1>2, <2>1, <2>2 DEF HandOver
  <2>4. f \in Feedback
    BY <2>1, PipelineAssumption DEF f
  <2>5. ~IsHandled(s, n)
    <3>1. FrameAhead(s)
      BY DEF HandleFrame
    <3>2. n \in Nat
      BY <2>1, ServiceAssumption DEF Fixes, Ends, SentTexts
    <3>3. \A m : IsHandled(s, m) => m < n
      BY <3>1, NextText DEF Grounds, n
    <3> QED  BY <3>2, <3>3
  <2>6. f \in fresh
    BY <2>1, <2>5 DEF Grounds, FixesHanded, f
  <2> QED  BY <2>1, <2>3, <2>4, <2>6 DEF n, f
<1> QED  BY <1>1, <1>2 DEF n, f

(* Every step is one of the feedback log, or leaves it alone.              *)
LEMMA PipelineLogStep ==
  ASSUME FramesWellFormed, Grounds, [PipelineNext]_pipelineVars
  PROVE  [LogNext]_logVars
<1>1. CASE UNCHANGED pipelineVars
  BY <1>1 DEF pipelineVars
<1>2. ASSUME Alive, NEW s \in Session, HandleFrame(s), HandOver
      PROVE  [LogNext]_logVars
  BY <1>2, HandOverStep DEF Alive, LogNext, LogFeedback
<1>3. ASSUME Alive, NEW s \in Session, IoStep(s) \/ HangUpMeanwhile(s)
      PROVE  [LogNext]_logVars
  BY <1>2, <1>3 DEF IoStep, Quietly, HangUpMeanwhile
<1>4. ASSUME Alive, LogStep
      PROVE  LogNext
  BY <1>4 DEF Alive, LogNext
<1> QED  BY <1>1, <1>3, <1>4 DEF PipelineNext

(* What is still fresh after a step.                                       *)
LEMMA FreshStep ==
  ASSUME FramesWellFormed, Grounds, [PipelineNext]_pipelineVars
  PROVE  \/ fresh' = fresh /\ (handled' = handled \/ \E s \in Session : HandleFrame(s) /\ HandOver)
         \/ \E s \in Session :
              /\ HandleFrame(s) /\ HandOver
              /\ LastCell(NextFrame(s)) \in Fixes(s)
              /\ fresh' = fresh \ {IdOf(SentText(s, LastCell(NextFrame(s))))}
<1>1. CASE UNCHANGED pipelineVars
  BY <1>1 DEF pipelineVars, vars, serverVars, logVars
<1>2. ASSUME NEW s \in Session, HandleFrame(s), HandOver
      PROVE  \/ fresh' = fresh
             \/ /\ LastCell(NextFrame(s)) \in Fixes(s)
                /\ fresh' = fresh \ {IdOf(SentText(s, LastCell(NextFrame(s))))}
  BY <1>2, HandOverStep DEF StartSend, logVars
<1>3. ASSUME NEW s \in Session, UNCHANGED logVars,
             Read(s) \/ Ask(s) \/ Terminate(s) \/ SessionStep(s)
      PROVE  fresh' = fresh /\ handled' = handled
  BY <1>3, OtherSteps DEF Grounds, logVars
<1>4. ASSUME NEW s \in Session, HangUpMeanwhile(s)
      PROVE  fresh' = fresh /\ handled' = handled
  BY <1>4 DEF HangUpMeanwhile, HangUp, logVars
<1>5. ASSUME LogStep, UNCHANGED vars
      PROVE  fresh' = fresh /\ handled' = handled
  BY <1>5 DEF LogStep, Subscribe, SendFirst, SendersCollide, Receive, Post, SendAgain,
              Created, Refused, RequestFails, vars, serverVars
<1> QED  BY <1>1, <1>2, <1>3, <1>4, <1>5 DEF PipelineNext, IoStep, Quietly

(* A fix that a step hands over is handled in that step.                   *)
LEMMA FixesHandedStep ==
  ASSUME FramesWellFormed, UniqueFixIds, Grounds, [PipelineNext]_pipelineVars
  PROVE  FixesHanded'
<1>1. GoesOn
  BY PipelineServiceStep, StepGoesOn DEF Grounds
<1>2. CASE fresh' = fresh
  BY <1>1, <1>2 DEF Grounds, FixesHanded, GoesOn
<1>3. ASSUME NEW s \in Session, HandleFrame(s), LastCell(NextFrame(s)) \in Fixes(s),
             fresh' = fresh \ {IdOf(SentText(s, LastCell(NextFrame(s))))}
      PROVE  FixesHanded'
  <2>1. PICK n : n = LastCell(NextFrame(s))
    OBVIOUS
  <2>2. IsHandled(s, n)'
    BY <1>3, <2>1, HandleFrameStep DEF Grounds
  <2>3. ASSUME NEW t \in Session, NEW m \in Fixes(t), IdOf(SentText(t, m)) \notin fresh'
        PROVE  IsHandled(t, m)'
    <3>1. CASE IdOf(SentText(t, m)) = IdOf(SentText(s, n))
      <4>1. t = s /\ m = n
        BY <1>3, <2>1, <3>1, SameFix
      <4> QED  BY <2>2, <4>1
    <3>2. CASE IdOf(SentText(t, m)) \notin fresh
      BY <1>1, <3>2 DEF Grounds, FixesHanded, GoesOn
    <3> QED  BY <1>3, <2>1, <2>3, <3>1, <3>2
  <2> QED  BY <2>3 DEF FixesHanded
<1> QED  BY <1>2, <1>3, FreshStep

(* The grounds hold.                                                       *)
LEMMA GroundsHold == FramesWellFormed /\ UniqueFixIds => (PipelineSpec => []Grounds)
<1> SUFFICES ASSUME FramesWellFormed, UniqueFixIds PROVE PipelineSpec => []Grounds
  OBVIOUS
<1>1. PipelineInit => PluginTypeOK /\ FixesHanded
  BY PipelineAssumption, PluginInitOK DEF PipelineInit, Init, LogInit, FixesHanded
<1>2. SessionFacts /\ PluginTypeOK /\ FixesHanded /\ [PipelineNext]_pipelineVars
        => PluginTypeOK' /\ FixesHanded'
  BY PipelineServiceStep, PluginTypeStep, FixesHandedStep DEF Grounds
<1> QED  BY <1>1, <1>2, PipelineImplementsService, SessionFactsHold, PTL
         DEF PipelineSpec, Grounds

(* Each fix is given to log_feedback once, one call at a time, however the *)
(* stream is split, as long as no two fixes have the same id: connections  *)
(* and plugin are such callers as FeedbackLog supposes.                    *)
THEOREM CallsOnceCorrect ==
  FramesWellFormed /\ UniqueFixIds => (PipelineSpec => CallsOnce)
<1> SUFFICES ASSUME FramesWellFormed, UniqueFixIds PROVE PipelineSpec => CallsOnce
  OBVIOUS
<1>1. PipelineInit => LogInit
  BY DEF PipelineInit
<1>2. Grounds /\ [PipelineNext]_pipelineVars => [LogNext]_logVars
  BY PipelineLogStep
<1> QED  BY <1>1, <1>2, GroundsHold, PTL DEF PipelineSpec, CallsOnce, LogSpec

(* So the whole service keeps what the feedback log keeps: no feedback is  *)
(* in two places or stored twice, and once the subscription is there none  *)
(* is dropped before more are under way than the queue has room for.       *)
THEOREM PipelineKeepsFeedbacks ==
  FramesWellFormed /\ UniqueFixIds =>
    (PipelineSpec => [](LogTypeOK /\ OnePlaceEach) /\ NoLateLoss)
BY CallsOnceCorrect, LogTypeCorrect, OnePlaceEachCorrect, NoLateLossCorrect, PTL
   DEF CallsOnce

-----------------------------------------------------------------------------
(* With whole frames a fix whose frame is handled is handed over.          *)
FixesGone ==
  \A s \in Session : \A n \in Fixes(s) :
    IsHandled(s, n) => IdOf(SentText(s, n)) \notin fresh

(* Every step keeps that.                                                  *)
LEMMA FixesGoneStep ==
  ASSUME FramesWellFormed, Grounds, NextIsSent, FixesGone, [PipelineNext]_pipelineVars
  PROVE  FixesGone'
<1>1. fresh' \subseteq fresh
  BY FreshStep
<1>2. CASE handled' = handled
  BY <1>1, <1>2 DEF FixesGone, IsHandled, EndOf
<1>3. ASSUME NEW s \in Session, HandleFrame(s), HandOver
      PROVE  FixesGone'
  <2>1. PICK n : n = LastCell(NextFrame(s))
    OBVIOUS
  <2>2. \A t \in Session : \A m : IsHandled(t, m)' => IsHandled(t, m) \/ (t = s /\ m = n)
    BY <1>3, <2>1, HandleFrameStep DEF Grounds
  <2>3. ASSUME n \in Fixes(s)
        PROVE  IdOf(SentText(s, n)) \notin fresh'
    <3>1. published' = Append(published, [device |-> deviceId,
                                          msg |-> IdOf(SentText(s, n)),
                                          numbers |-> NumbersOf(s, n)])
      BY <1>3, <2>1, <2>3, FixIsPublished DEF Grounds
    <3>2. published' # published
      <4>1. published \in Seq(Feedbacks)
        BY DEF Grounds, PluginTypeOK
      <4>2. Len(published) \in Nat /\ Len(published') = Len(published) + 1
        BY <3>1, <4>1
      <4> QED  BY <4>2
    <3>3. StartSend(IdOf(SentText(s, n)))
      BY <1>3, <2>1, <3>2, HandOverStep
    <3> QED  BY <3>3 DEF StartSend
  <2>4. ASSUME NEW t \in Session, NEW m \in Fixes(t), IsHandled(t, m)'
        PROVE  IdOf(SentText(t, m)) \notin fresh'
    <3>1. CASE IsHandled(t, m)
      BY <1>1, <3>1 DEF FixesGone
    <3>2. CASE t = s /\ m = n
      BY <2>3, <2>4, <3>2
    <3> QED  BY <2>2, <2>4, <3>1, <3>2
  <2> QED  BY <2>4 DEF FixesGone
<1> QED  BY <1>2, <1>3, FreshStep

(* When reads end with whole frames the frames handled account for the     *)
(* fixes under way, stored or lost: those and no others are handed over.   *)
THEOREM FixesAccountedCorrect ==
  FramesWellFormed /\ UniqueFixIds /\ SplitReads = FALSE
    => (PipelineSpec => []FixesAccounted)
<1> SUFFICES ASSUME FramesWellFormed, UniqueFixIds, SplitReads = FALSE
             PROVE  PipelineSpec => []FixesAccounted
  OBVIOUS
<1>1. PipelineInit => FixesGone
  BY DEF PipelineInit, Init, SessionInit, FixesGone, IsHandled
<1>2. Grounds /\ NextIsSent /\ FixesGone /\ [PipelineNext]_pipelineVars => FixesGone'
  BY FixesGoneStep
<1>3. Grounds /\ FixesGone => FixesAccounted
  BY DEF Grounds, FixesHanded, FixesGone, FixesAccounted
<1> QED  BY <1>1, <1>2, <1>3, GroundsHold, PipelineImplementsService, NextIsSentHolds, PTL
         DEF PipelineSpec

-----------------------------------------------------------------------------
(* A step that the feedback log takes moves feedbacks as FeedbackDelivery  *)
(* does, and one that ends the service leaves them where they are.         *)
LEMMA PipelineDeliveryStep ==
  ASSUME FramesWellFormed, Grounds, LogInv, Statuses, Statuses',
         [PipelineNext]_pipelineVars
  PROVE  [Delivery!DeliveryNext]_(Delivery!deliveryVars)
<1>1. [Delivers!DeliveryNext]_(Delivers!deliveryVars)
  BY FeedbackLogAssumption, PipelineLogStep, StepDelivers
<1>2. ASSUME Alive, fault' = fault
      PROVE  [Delivery!DeliveryNext]_(Delivery!deliveryVars)
  <2>1. Alive <=> crash = "none"
    BY <1>2 DEF Alive
  <2>2. Alive' <=> crash' = "none"
    BY <1>2 DEF Alive
  <2>3. CASE UNCHANGED Delivers!deliveryVars
    BY <2>1, <2>2, <2>3 DEF Delivers!deliveryVars, Delivery!deliveryVars
  <2>4. ASSUME NEW f \in Feedback, Delivers!Move(f)
        PROVE  Delivery!Move(f)
    BY <1>2, <2>1, <2>2, <2>4 DEF Delivers!Move, Delivers!Moves, Delivery!Move, Delivery!Moves
  <2>5. CASE Delivers!End
    <3>1. Alive /\ ~Alive'
      BY <1>2, <2>2, <2>5 DEF Delivers!End
    <3>2. \/ UNCHANGED Status
          \/ \E f \in Feedback : Status[f] = "pending" /\ Status' = [Status EXCEPT ![f] = "stored"]
      BY <2>5 DEF Delivers!End
    <3>3. Alive' = FALSE
      BY <3>1 DEF Alive
    <3> QED  BY <3>1, <3>2, <3>3 DEF Delivery!End, Delivery!DeliveryNext
  <2> QED  BY <1>1, <2>3, <2>4, <2>5 DEF Delivers!DeliveryNext, Delivery!DeliveryNext
<1>3. ASSUME Alive, fault' # fault
      PROVE  Delivery!End
  <2>1. PICK s \in Session : Terminate(s) /\ UNCHANGED logVars
    BY <1>3 DEF PipelineNext, IoStep, HangUpMeanwhile, Quietly, Read, Ask, HandleFrame,
                Process, SessionStep, pipelineVars, vars, pluginVars
  <2>2. ~Alive'
    BY <1>3 DEF Alive
  <2>3. Status' = Status
    BY <2>1, StatusKept DEF logVars
  <2> QED  BY <1>3, <2>2, <2>3 DEF Delivery!End
<1>4. CASE UNCHANGED pipelineVars
  <2>1. fault' = fault /\ UNCHANGED logVars
    BY <1>4 DEF pipelineVars, vars, pluginVars
  <2>2. Status' = Status
    BY <2>1, StatusKept DEF logVars
  <2>3. Alive' <=> Alive
    BY <2>1 DEF Alive, logVars
  <2> QED  BY <2>2, <2>3 DEF Delivery!deliveryVars
<1> QED  BY <1>2, <1>3, <1>4 DEF PipelineNext, Delivery!DeliveryNext

(* The whole service delivers feedbacks as FeedbackDelivery says, but for  *)
(* its fairness: what ends the process, on either side, ends all moves.    *)
THEOREM PipelineDelivers ==
  FramesWellFormed /\ UniqueFixIds => (PipelineSpec => Delivery!DeliverySafety)
<1> SUFFICES ASSUME FramesWellFormed, UniqueFixIds
             PROVE  PipelineSpec => Delivery!DeliverySafety
  OBVIOUS
<1>1. PipelineInit => Delivery!DeliveryInit
  <2> SUFFICES ASSUME PipelineInit PROVE Delivery!DeliveryInit
    OBVIOUS
  <2>1. \A f \in Feedback : Status[f] = "new"
    <3>1. LogInv /\ fresh = Feedback
      BY FeedbackLogAssumption, LogInvHolds DEF PipelineInit, LogInit
    <3> QED  BY <3>1, StatusesHold DEF Statuses, StatusIs
  <2>2. Status = [f \in Feedback |-> Status[f]]
    BY DEF Status
  <2>3. Status = [f \in Feedback |-> "new"]
    BY <2>1, <2>2
  <2>4. Alive
    BY DEF PipelineInit, Init, PluginInit, LogInit, Alive
  <2> QED  BY <2>3, <2>4 DEF Delivery!DeliveryInit
<1>2. Grounds /\ LogInv /\ Statuses /\ Statuses' /\ [PipelineNext]_pipelineVars
        => [Delivery!DeliveryNext]_(Delivery!deliveryVars)
  BY PipelineDeliveryStep
<1>3. PipelineSpec => []LogInv
  BY CallsOnceCorrect, LogInvariant, PTL DEF CallsOnce
<1> QED  BY <1>1, <1>2, <1>3, GroundsHold, StatusesHold, PTL
         DEF PipelineSpec, Delivery!DeliverySafety
=============================================================================
