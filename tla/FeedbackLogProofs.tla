------------------------- MODULE FeedbackLogProofs -------------------------
(***************************************************************************)
(* OnePlaceEach of FeedbackLog, for any set of feedbacks, any queue limit  *)
(* and all faults: publishing again never duplicates a feedback.           *)
(***************************************************************************)
EXTENDS FeedbackLog, FiniteSetTheorems, FunctionTheorems, TLAPS

(* No feedback is twice in the queue.                                      *)
Distinct == \A i, j \in 1..Len(queue) : queue[i] = queue[j] => i = j

(* The places of OnePlaceEach are exclusive.                               *)
Exclusive(f) ==
  /\ f \in fresh => f # sending /\ f \notin resending /\ f \notin Queued /\ f # job
                      /\ f \notin posts /\ docs[f] = 0 /\ f \notin lost
  /\ f = sending => f \notin resending /\ f \notin Queued /\ f # job /\ f \notin posts
                      /\ docs[f] = 0 /\ f \notin lost
  /\ f \in resending => f \notin Queued /\ f # job /\ f \notin posts /\ docs[f] = 0
                      /\ f \notin lost
  /\ f \in Queued => f # job /\ f \notin posts /\ docs[f] = 0 /\ f \notin lost
  /\ f = job => f \notin posts /\ docs[f] = 0 /\ f \notin lost
  /\ f \in posts => docs[f] = 0 /\ f \notin lost
  /\ f \in lost => docs[f] = 0

(* f has a place: one of those of OnePlaceEach.                            *)
Somewhere(f) ==
  \/ f \in fresh
  \/ f = sending
  \/ f \in resending
  \/ f \in Queued
  \/ f = job
  \/ f \in posts
  \/ docs[f] = 1
  \/ f \in lost

(* The inductive invariant. A request without an answer takes its feedback *)
(* out of its place, so that Somewhere holds until then.                   *)
LogInv ==
  /\ LogTypeOK
  /\ Distinct
  /\ \A f \in Feedback : docs[f] <= 1 /\ Exclusive(f)
  /\ crash # "request" => \A f \in Feedback : Somewhere(f)

-----------------------------------------------------------------------------
(* What a PUB socket queues is new in the queue.                           *)
LEMMA QueueGrows ==
  ASSUME LogTypeOK, Distinct, NEW f \in Feedback, f \notin Queued,
         queue' = Append(queue, f)
  PROVE  /\ queue' \in Seq(Feedback)
         /\ Distinct'
         /\ Queued' = Queued \cup {f}
<1>1. queue \in Seq(Feedback)
  BY DEF LogTypeOK
<1>2. /\ queue' \in Seq(Feedback)
      /\ Len(queue') = Len(queue) + 1
      /\ \A i \in 1..Len(queue) : queue'[i] = queue[i]
      /\ queue'[Len(queue) + 1] = f
      /\ Len(queue) \in Nat
  BY <1>1
<1>3. \A i \in 1..Len(queue) : queue[i] # f
  BY DEF Queued
<1>4. 1..Len(queue') = (1..Len(queue)) \cup {Len(queue) + 1}
  BY <1>2
<1>5. Distinct'
  BY <1>2, <1>3, <1>4 DEF Distinct
<1>6. Queued' = Queued \cup {f}
  BY <1>2, <1>4 DEF Queued
<1> QED
  BY <1>2, <1>5, <1>6

(* What the job thread receives is gone from the queue.                    *)
LEMMA QueueShrinks ==
  ASSUME LogTypeOK, Distinct, queue # <<>>, queue' = Tail(queue)
  PROVE  /\ queue' \in Seq(Feedback)
         /\ Distinct'
         /\ Head(queue) \in Queued
         /\ Queued' = Queued \ {Head(queue)}
<1>1. queue \in Seq(Feedback) /\ Len(queue) \in Nat /\ Len(queue) > 0
  BY DEF LogTypeOK
<1>2. /\ queue' \in Seq(Feedback)
      /\ Len(queue') = Len(queue) - 1
      /\ \A i \in 1..(Len(queue) - 1) : queue'[i] = queue[i + 1]
      /\ Head(queue) = queue[1]
  BY <1>1
<1>3. Distinct'
  BY <1>1, <1>2 DEF Distinct
<1>4. Head(queue) \in Queued
  BY <1>1, <1>2 DEF Queued
<1>5. ASSUME NEW g
      PROVE  g \in Queued' <=> g \in Queued /\ g # Head(queue)
  <2>1. g \in Queued' => g \in Queued /\ g # Head(queue)
    BY <1>1, <1>2 DEF Queued, Distinct
  <2>2. ASSUME g \in Queued, g # Head(queue)
        PROVE  g \in Queued'
    <3>1. PICK i \in 1..Len(queue) : queue[i] = g
      BY <2>2 DEF Queued
    <3>2. i # 1
      BY <1>2, <2>2, <3>1
    <3>3. i - 1 \in 1..Len(queue') /\ queue'[i - 1] = g
      BY <1>1, <1>2, <3>1, <3>2
    <3> QED
      BY <3>3 DEF Queued
  <2> QED
    BY <2>1, <2>2
<1> QED
  BY <1>2, <1>3, <1>4, <1>5

-----------------------------------------------------------------------------
(* A send: the feedback leaves the sender for the queue, or is dropped.    *)
LEMMA PublishInv ==
  ASSUME LogTypeOK, Distinct, NEW f \in Feedback, f \notin Queued, Publish(f)
  PROVE  /\ queue' \in Seq(Feedback)
         /\ Distinct'
         /\ lost' \subseteq Feedback
         /\ \/ Queued' = Queued \cup {f} /\ lost' = lost
            \/ Queued' = Queued /\ lost' = lost \cup {f}
<1>1. CASE subscribed /\ Len(queue) < QueueLimit
  BY <1>1, QueueGrows DEF Publish, LogTypeOK
<1>2. CASE ~(subscribed /\ Len(queue) < QueueLimit)
  BY <1>2 DEF Publish, LogTypeOK, Distinct, Queued
<1> QED
  BY <1>1, <1>2

(* A first send ends.                                                      *)
LEMMA SendFirstInv ==
  ASSUME FeedbackLogAssumption, LogInv, SendFirst
  PROVE  LogInv'
<1>1. sending \in Feedback /\ sending \notin Queued
  BY DEF LogInv, LogTypeOK, SendFirst, Exclusive
<1>2. /\ queue' \in Seq(Feedback)
      /\ Distinct'
      /\ lost' \subseteq Feedback
      /\ \/ Queued' = Queued \cup {sending} /\ lost' = lost
         \/ Queued' = Queued /\ lost' = lost \cup {sending}
  BY <1>1, PublishInv DEF LogInv, SendFirst
<1>3. /\ sending' = None
      /\ UNCHANGED <<subscribed, fresh, resending, job, posts, docs, crash>>
  BY DEF SendFirst
<1>4. LogTypeOK'
  BY <1>2, <1>3 DEF LogInv, LogTypeOK
<1>5. ASSUME NEW g \in Feedback
      PROVE  docs'[g] <= 1 /\ Exclusive(g)' /\ (Somewhere(g) => Somewhere(g)')
  BY <1>1, <1>2, <1>3 DEF LogInv, Exclusive, Somewhere, FeedbackLogAssumption
<1> QED
  BY <1>2, <1>3, <1>4, <1>5 DEF LogInv

(* A send of the continuation ends.                                        *)
LEMMA SendAgainInv ==
  ASSUME FeedbackLogAssumption, LogInv, NEW f \in Feedback, SendAgain(f)
  PROVE  LogInv'
<1>1. f \in resending /\ f \notin Queued
  BY DEF LogInv, SendAgain, Exclusive
<1>2. /\ queue' \in Seq(Feedback)
      /\ Distinct'
      /\ lost' \subseteq Feedback
      /\ \/ Queued' = Queued \cup {f} /\ lost' = lost
         \/ Queued' = Queued /\ lost' = lost \cup {f}
  BY <1>1, PublishInv DEF LogInv, SendAgain
<1>3. /\ resending' = resending \ {f}
      /\ UNCHANGED <<subscribed, fresh, sending, job, posts, docs, crash>>
  BY DEF SendAgain
<1>4. LogTypeOK'
  BY <1>2, <1>3 DEF LogInv, LogTypeOK
<1>5. ASSUME NEW g \in Feedback
      PROVE  docs'[g] <= 1 /\ Exclusive(g)' /\ (Somewhere(g) => Somewhere(g)')
  BY <1>1, <1>2, <1>3 DEF LogInv, Exclusive, Somewhere
<1> QED
  BY <1>2, <1>3, <1>4, <1>5 DEF LogInv

(* The job thread takes a feedback out of the queue.                       *)
LEMMA ReceiveInv ==
  ASSUME FeedbackLogAssumption, LogInv, Receive
  PROVE  LogInv'
<1>1. /\ queue' \in Seq(Feedback)
      /\ Distinct'
      /\ Head(queue) \in Queued
      /\ Queued' = Queued \ {Head(queue)}
  BY QueueShrinks DEF LogInv, Receive
<1>2. /\ job = None
      /\ job' = Head(queue)
      /\ UNCHANGED <<subscribed, fresh, sending, resending, posts, docs, lost, crash>>
  BY DEF Receive
<1>3. Head(queue) \in Feedback
  BY <1>1 DEF LogInv, LogTypeOK, Queued
<1>4. LogTypeOK'
  BY <1>1, <1>2, <1>3 DEF LogInv, LogTypeOK
<1>5. ASSUME NEW g \in Feedback
      PROVE  docs'[g] <= 1 /\ Exclusive(g)' /\ (Somewhere(g) => Somewhere(g)')
  BY <1>1, <1>2 DEF LogInv, Exclusive, Somewhere, FeedbackLogAssumption
<1> QED
  BY <1>1, <1>2, <1>4, <1>5 DEF LogInv

(* The steps from here on leave the queue alone. A call of log_feedback.   *)
LEMMA LogFeedbackInv ==
  ASSUME FeedbackLogAssumption, LogInv, NEW f \in Feedback, LogFeedback(f)
  PROVE  LogInv'
<1>1. /\ f \in fresh
      /\ sending = None
      /\ fresh' = fresh \ {f}
      /\ sending' = f
      /\ UNCHANGED <<subscribed, resending, queue, job, posts, docs, lost, crash>>
  BY DEF LogFeedback, StartSend
<1>2. LogTypeOK' /\ Distinct' /\ Queued' = Queued
  BY <1>1 DEF LogInv, LogTypeOK, Distinct, Queued
<1>3. ASSUME NEW g \in Feedback
      PROVE  docs'[g] <= 1 /\ Exclusive(g)' /\ (Somewhere(g) => Somewhere(g)')
  BY <1>1, <1>2 DEF LogInv, Exclusive, Somewhere, FeedbackLogAssumption
<1> QED
  BY <1>1, <1>2, <1>3 DEF LogInv

(* The job thread sends its request.                                       *)
LEMMA PostInv ==
  ASSUME FeedbackLogAssumption, LogInv, Post
  PROVE  LogInv'
<1>1. /\ job \in Feedback
      /\ posts' = posts \cup {job}
      /\ job' = None
      /\ UNCHANGED <<subscribed, fresh, sending, resending, queue, docs, lost, crash>>
  BY DEF LogInv, LogTypeOK, Post
<1>2. LogTypeOK' /\ Distinct' /\ Queued' = Queued
  BY <1>1 DEF LogInv, LogTypeOK, Distinct, Queued
<1>3. ASSUME NEW g \in Feedback
      PROVE  docs'[g] <= 1 /\ Exclusive(g)' /\ (Somewhere(g) => Somewhere(g)')
  BY <1>1, <1>2 DEF LogInv, Exclusive, Somewhere, FeedbackLogAssumption
<1> QED
  BY <1>1, <1>2, <1>3 DEF LogInv

(* The database answers that it has stored the document.                   *)
LEMMA CreatedInv ==
  ASSUME LogInv, NEW f \in Feedback, Created(f)
  PROVE  LogInv'
<1>1. /\ f \in posts
      /\ posts' = posts \ {f}
      /\ docs' = [docs EXCEPT ![f] = @ + 1]
      /\ UNCHANGED <<subscribed, fresh, sending, resending, queue, job, lost, crash>>
  BY DEF Created
<1>2. docs[f] = 0 /\ docs \in [Feedback -> Nat]
  BY <1>1 DEF LogInv, LogTypeOK, Exclusive
<1>3. LogTypeOK' /\ Distinct' /\ Queued' = Queued
  BY <1>1, <1>2 DEF LogInv, LogTypeOK, Distinct, Queued
<1>4. ASSUME NEW g \in Feedback
      PROVE  docs'[g] <= 1 /\ Exclusive(g)' /\ (Somewhere(g) => Somewhere(g)')
  BY <1>1, <1>2, <1>3 DEF LogInv, Exclusive, Somewhere
<1> QED
  BY <1>1, <1>3, <1>4 DEF LogInv

(* The database refuses, and the continuation takes the feedback back.     *)
LEMMA RefusedInv ==
  ASSUME LogInv, NEW f \in Feedback, Refused(f)
  PROVE  LogInv'
<1>1. /\ f \in posts
      /\ posts' = posts \ {f}
      /\ resending' = resending \cup {f}
      /\ UNCHANGED <<subscribed, fresh, sending, queue, job, docs, lost, crash>>
  BY DEF Refused
<1>2. LogTypeOK' /\ Distinct' /\ Queued' = Queued
  BY <1>1 DEF LogInv, LogTypeOK, Distinct, Queued
<1>3. ASSUME NEW g \in Feedback
      PROVE  docs'[g] <= 1 /\ Exclusive(g)' /\ (Somewhere(g) => Somewhere(g)')
  BY <1>1, <1>2 DEF LogInv, Exclusive, Somewhere
<1> QED
  BY <1>1, <1>2, <1>3 DEF LogInv

(* A request ends without an answer, stored or not, and the process ends.  *)
LEMMA RequestFailsInv ==
  ASSUME LogInv, NEW f \in Feedback, RequestFails(f)
  PROVE  LogInv'
<1>1. /\ f \in posts
      /\ posts' = posts \ {f}
      /\ docs' = docs \/ docs' = [docs EXCEPT ![f] = @ + 1]
      /\ crash' = "request"
      /\ UNCHANGED <<subscribed, fresh, sending, resending, queue, job, lost>>
  BY DEF RequestFails
<1>2. docs[f] = 0 /\ docs \in [Feedback -> Nat]
  BY <1>1 DEF LogInv, LogTypeOK, Exclusive
<1>3. LogTypeOK' /\ Distinct' /\ Queued' = Queued
  BY <1>1, <1>2 DEF LogInv, LogTypeOK, Distinct, Queued
<1>4. ASSUME NEW g \in Feedback
      PROVE  docs'[g] <= 1 /\ Exclusive(g)'
  BY <1>1, <1>2, <1>3 DEF LogInv, Exclusive
<1> QED
  BY <1>1, <1>3, <1>4 DEF LogInv

(* The subscription arrives, senders collide, or nothing changes.          *)
LEMMA OtherStepsInv ==
  ASSUME LogInv,
         (crash = "none" /\ (Subscribe \/ SendersCollide)) \/ UNCHANGED logVars
  PROVE  LogInv'
<1>1. /\ subscribed' \in BOOLEAN
      /\ \/ crash' = crash
         \/ crash = "none" /\ crash' = "race"
      /\ UNCHANGED <<fresh, sending, resending, queue, job, posts, docs, lost>>
  BY DEF Subscribe, SendersCollide, logVars, LogInv, LogTypeOK
<1>2. LogTypeOK' /\ Distinct' /\ Queued' = Queued
  BY <1>1 DEF LogInv, LogTypeOK, Distinct, Queued
<1>3. ASSUME NEW g \in Feedback
      PROVE  docs'[g] <= 1 /\ Exclusive(g)' /\ (Somewhere(g) => Somewhere(g)')
  BY <1>1, <1>2 DEF LogInv, Exclusive, Somewhere
<1> QED
  BY <1>1, <1>2, <1>3 DEF LogInv

-----------------------------------------------------------------------------
(* LogInv is inductive: it holds at the start and after every step.        *)
LEMMA LogInvHolds ==
  ASSUME FeedbackLogAssumption
  PROVE  /\ LogInit => LogInv
         /\ LogInv /\ [LogNext]_logVars => LogInv'
<1>1. LogInit => LogInv
  <2> SUFFICES ASSUME LogInit
               PROVE  LogInv
    OBVIOUS
  <2>1. queue = <<>> /\ queue \in Seq(Feedback) /\ Len(queue) = 0 /\ 1..Len(queue) = {}
    BY DEF LogInit
  <2>2. Distinct /\ Queued = {}
    BY <2>1 DEF Distinct, Queued
  <2>3. LogTypeOK
    BY <2>1 DEF LogInit, LogTypeOK
  <2>4. ASSUME NEW g \in Feedback
        PROVE  docs[g] <= 1 /\ Exclusive(g) /\ Somewhere(g)
    BY <2>2 DEF LogInit, Exclusive, Somewhere, FeedbackLogAssumption
  <2> QED
    BY <2>2, <2>3, <2>4 DEF LogInv
<1>2. LogInv /\ [LogNext]_logVars => LogInv'
  BY SendFirstInv, SendAgainInv, ReceiveInv, LogFeedbackInv, PostInv, CreatedInv,
     RefusedInv, RequestFailsInv, OtherStepsInv
  DEF LogNext, LogStep
<1> QED
  BY <1>1, <1>2

(* The inductive invariant holds in every state of FeedbackLog.            *)
THEOREM LogInvariant == LogSpec => []LogInv
<1>1. FeedbackLogAssumption
  BY FeedbackLogAssumption
<1>2. LogInit => LogInv
  BY <1>1, LogInvHolds
<1>3. LogInv /\ [LogNext]_logVars => LogInv'
  BY <1>1, LogInvHolds
<1> QED
  BY <1>2, <1>3, PTL DEF LogSpec

(* What is under way is always a feedback, or nothing: no step of the job  *)
(* thread posts what it has not received.                                  *)
THEOREM LogTypeCorrect == LogSpec => []LogTypeOK
<1>1. LogInv => LogTypeOK
  BY DEF LogInv
<1> QED
  BY <1>1, LogInvariant, PTL

(* What the record of places says of f.                                    *)
LEMMA PlacesAre ==
  ASSUME NEW f
  PROVE  /\ DOMAIN Places(f) = {"fresh", "sending", "resending", "queue", "job",
                                "posts", "stored", "lost"}
         /\ Places(f)["fresh"] <=> f \in fresh
         /\ Places(f)["sending"] <=> f = sending
         /\ Places(f)["resending"] <=> f \in resending
         /\ Places(f)["queue"] <=> f \in Queued
         /\ Places(f)["job"] <=> f = job
         /\ Places(f)["posts"] <=> f \in posts
         /\ Places(f)["stored"] <=> f \in Stored
         /\ Places(f)["lost"] <=> f \in lost
  BY DEF Places

(* A feedback is in exactly one place, and has one document at most,       *)
(* however often it is refused and published again.                        *)
THEOREM OnePlaceEachCorrect == LogSpec => []OnePlaceEach
<1>1. LogInv => OnePlaceEach
  <2> SUFFICES ASSUME LogInv
               PROVE  OnePlaceEach
    OBVIOUS
  <2>1. ASSUME NEW f \in Feedback
        PROVE  \A p, q \in DOMAIN Places(f) : Places(f)[p] /\ Places(f)[q] => p = q
    <3>1. Exclusive(f) /\ (f \in Stored => docs[f] # 0)
      BY DEF LogInv, LogTypeOK, Stored
    <3> QED
      BY <3>1, PlacesAre DEF Exclusive
  <2>2. ASSUME NEW f \in Feedback, crash # "request"
        PROVE  \E p \in DOMAIN Places(f) : Places(f)[p]
    <3>1. Somewhere(f) /\ (docs[f] = 1 => f \in Stored)
      BY <2>2 DEF LogInv, Stored
    <3> QED
      BY <3>1, PlacesAre DEF Somewhere
  <2> QED
    BY <2>1, <2>2 DEF LogInv, OnePlaceEach, Distinct
<1> QED
  BY <1>1, LogInvariant, PTL

-----------------------------------------------------------------------------
(* Whatever the set of feedbacks, finitely many have been handed over.     *)
HandedOver == IsFiniteSet(Feedback \ fresh)

(* They are when the service starts, and each step adds at most one.       *)
LEMMA HandedOverHolds ==
  /\ LogInit => HandedOver
  /\ HandedOver /\ [LogNext]_logVars => HandedOver'
<1>1. LogInit => HandedOver
  <2>1. LogInit => Feedback \ fresh = {}
    BY DEF LogInit
  <2> QED
    BY <2>1, FS_EmptySet DEF HandedOver
<1>2. ASSUME HandedOver, [LogNext]_logVars
      PROVE  HandedOver'
  <2>1. fresh' = fresh \/ \E f \in Feedback : fresh' = fresh \ {f}
    BY <1>2
    DEF LogNext, LogStep, logVars, Subscribe, SendFirst, SendersCollide, Receive, Post,
        SendAgain, Created, Refused, RequestFails, LogFeedback, StartSend
  <2>2. ASSUME NEW f \in Feedback, fresh' = fresh \ {f}
        PROVE  HandedOver'
    <3>1. Feedback \ fresh' \subseteq (Feedback \ fresh) \cup {f}
      BY <2>2
    <3>2. IsFiniteSet((Feedback \ fresh) \cup {f})
      BY <1>2, FS_AddElement DEF HandedOver
    <3> QED
      BY <3>1, <3>2, FS_Subset DEF HandedOver
  <2> QED
    BY <1>2, <2>1, <2>2 DEF HandedOver
<1> QED
  BY <1>1, <1>2

(* A message that does not fit into the queue, and those in it, are more   *)
(* than the queue has room for, and all under way.                         *)
LEMMA FullQueueUnderWay ==
  ASSUME LogInv, HandedOver, FeedbackLogAssumption,
         NEW f \in Senders, Len(queue) >= QueueLimit
  PROVE  Cardinality(UnderWay) > QueueLimit
<1>0. /\ queue \in [1..Len(queue) -> Feedback]
      /\ Len(queue) \in Nat
      /\ QueueLimit \in Nat
  BY DEF LogInv, LogTypeOK, FeedbackLogAssumption
<1>1. f \in UnderWay /\ f \notin Queued
  <2>1. f \in Feedback
    BY DEF LogInv, LogTypeOK, Senders
  <2>2. Exclusive(f) /\ (f \in Stored => docs[f] # 0)
    BY <2>1 DEF LogInv, LogTypeOK, Stored
  <2> QED
    BY <2>1, <2>2 DEF Exclusive, Senders, UnderWay
<1>2. Queued \subseteq UnderWay
  <2> SUFFICES ASSUME NEW g \in Queued
               PROVE  g \in UnderWay
    OBVIOUS
  <2>1. g \in Feedback
    BY <1>0 DEF Queued
  <2>2. Exclusive(g) /\ (g \in Stored => docs[g] # 0)
    BY <2>1 DEF LogInv, LogTypeOK, Stored
  <2> QED
    BY <2>1, <2>2 DEF Exclusive, UnderWay
<1>3. IsFiniteSet(UnderWay)
  <2>1. UnderWay \subseteq Feedback \ fresh
    BY DEF UnderWay
  <2> QED
    BY <2>1, FS_Subset DEF HandedOver
<1> DEFINE Others == UnderWay \ {f}
<1>4. /\ IsFiniteSet(Others)
      /\ Cardinality(Others) = Cardinality(UnderWay) - 1
      /\ Cardinality(UnderWay) \in Nat
  BY <1>1, <1>3, FS_RemoveElement, FS_CardinalityType
<1>5. queue \in Injection(1..Len(queue), Others)
  <2>1. \A i \in 1..Len(queue) : queue[i] \in Others
    BY <1>1, <1>2 DEF Queued
  <2>2. queue \in [1..Len(queue) -> Others]
    BY <1>0, <2>1
  <2> HIDE DEF Others
  <2> QED
    BY <2>2 DEF Injection, IsInjective, LogInv, Distinct
<1>6. Cardinality(1..Len(queue)) <= Cardinality(Others)
  BY <1>4, <1>5, FS_Injection
<1>7. Cardinality(1..Len(queue)) = Len(queue)
  BY SMTT(20), <1>0, FS_Interval
<1> QED
  BY <1>0, <1>4, <1>6, <1>7

(* Publishing again takes nobody's room: once the subscription is there,   *)
(* what a PUB socket drops is more than the queue could hold.              *)
THEOREM NoLateLossCorrect == LogSpec => NoLateLoss
<1>1. FeedbackLogAssumption
  BY FeedbackLogAssumption
<1>2. ASSUME LogInv, HandedOver, [LogNext]_logVars, subscribed, lost' # lost
      PROVE  Cardinality(UnderWay) > QueueLimit
  <2>1. \E f \in Senders : Publish(f)
    BY <1>2
    DEF LogNext, LogStep, logVars, Subscribe, SendFirst, SendersCollide, Receive, Post,
        SendAgain, Created, Refused, RequestFails, LogFeedback, StartSend, Senders
  <2>2. Len(queue) >= QueueLimit
    BY <1>1, <1>2, <2>1 DEF Publish, LogInv, LogTypeOK, FeedbackLogAssumption
  <2> QED
    BY <1>1, <1>2, <2>1, <2>2, FullQueueUnderWay
<1>3. LogInv /\ HandedOver /\ [LogNext]_logVars
        => [subscribed /\ lost' # lost => Cardinality(UnderWay) > QueueLimit]_logVars
  BY <1>2
<1> QED
  BY <1>3, LogInvariant, HandedOverHolds, PTL DEF LogSpec, NoLateLoss

-----------------------------------------------------------------------------
(* The refinement: FeedbackLog does to each feedback only what             *)
(* FeedbackDelivery allows.                                                *)
Delivers ==
  INSTANCE FeedbackDelivery WITH
    Hopeless <- Poison, status <- Status, up <- (crash = "none")

(* The status of a feedback, case by case: the cases exclude each other.   *)
StatusIs(f) ==
  /\ f \in fresh => Status[f] = "new"
  /\ f \in Stored => Status[f] = "stored"
  /\ f \in lost => Status[f] = "lost"
  /\ f \notin fresh /\ f \notin Stored /\ f \notin lost => Status[f] = "pending"

(* Because places exclude each other, the CASE of Status has one branch.   *)
LEMMA StatusCases ==
  ASSUME NEW f \in Feedback, Exclusive(f), LogTypeOK
  PROVE  StatusIs(f)
<1>1. f \in Stored => docs[f] # 0
  BY DEF LogTypeOK, Stored
<1>2. Status[f] = CASE f \in fresh -> "new"
                    [] f \in Stored -> "stored"
                    [] f \in lost -> "lost"
                    [] OTHER -> "pending"
  BY DEF Status
<1>3. CASE f \in fresh
  BY <1>1, <1>2, <1>3 DEF Exclusive, StatusIs
<1>4. CASE f \in Stored
  BY <1>1, <1>2, <1>4 DEF Exclusive, StatusIs
<1>5. CASE f \in lost
  BY <1>1, <1>2, <1>5 DEF Exclusive, StatusIs
<1>6. CASE f \notin fresh /\ f \notin Stored /\ f \notin lost
  BY <1>2, <1>6 DEF StatusIs
<1> QED
  BY <1>3, <1>4, <1>5, <1>6

(* StatusIs for all, as the lemmas below use it.                           *)
Statuses == \A f \in Feedback : StatusIs(f)

(* It follows from the invariant.                                          *)
LEMMA StatusesHold == LogInv => Statuses
  BY StatusCases DEF LogInv, Statuses

(* A step in which no feedback is handed over, stored or dropped.          *)
LEMMA StatusKept ==
  ASSUME UNCHANGED <<fresh, docs, lost>>
  PROVE  Status' = Status
  BY DEF Status, Stored

(* A step that does so to one feedback leaves the status of the others.    *)
LEMMA StatusMoves ==
  ASSUME NEW f \in Feedback,
         \A g \in Feedback \ {f} : /\ g \in fresh' <=> g \in fresh
                                   /\ g \in Stored' <=> g \in Stored
                                   /\ g \in lost' <=> g \in lost
  PROVE  Status' = [Status EXCEPT ![f] = Status'[f]]
<1>1. ASSUME NEW g \in Feedback, g # f
      PROVE  Status'[g] = Status[g]
  BY <1>1 DEF Status
<1>2. /\ Status = [g \in Feedback |-> Status[g]]
      /\ Status' = [g \in Feedback |-> Status'[g]]
  BY DEF Status
<1> QED
  BY <1>1, <1>2

(* Every step of FeedbackLog is one of FeedbackDelivery, or a stutter.     *)
LEMMA StepDelivers ==
  ASSUME FeedbackLogAssumption, LogInv, Statuses, Statuses', [LogNext]_logVars
  PROVE  [Delivers!DeliveryNext]_(Delivers!deliveryVars)
<1>1. CASE UNCHANGED logVars
  <2>1. Status' = Status
    BY <1>1, StatusKept DEF logVars
  <2> QED
    BY <1>1, <2>1 DEF Delivers!deliveryVars, logVars
<1>2. ASSUME crash = "none",
             \/ Subscribe
             \/ Receive
             \/ Post
             \/ \E f \in Feedback : Refused(f)
      PROVE  UNCHANGED Delivers!deliveryVars
  <2>1. UNCHANGED <<fresh, docs, lost, crash>>
    BY <1>2 DEF Subscribe, Receive, Post, Refused
  <2> QED
    BY <2>1, StatusKept DEF Delivers!deliveryVars
<1>3. ASSUME crash = "none", SendersCollide
      PROVE  Delivers!End
  <2>1. UNCHANGED <<fresh, docs, lost>> /\ crash' = "race"
    BY <1>3 DEF SendersCollide
  <2>2. Status' = Status
    BY <2>1, StatusKept
  <2> QED
    BY <1>3, <2>1, <2>2 DEF Delivers!End
<1>4. ASSUME crash = "none", NEW f \in Feedback, LogFeedback(f)
      PROVE  Delivers!Move(f)
  <2>1. /\ f \in fresh
        /\ fresh' = fresh \ {f}
        /\ UNCHANGED <<docs, lost, crash>>
    BY <1>4 DEF LogFeedback, StartSend
  <2>2. Stored' = Stored
    BY <2>1 DEF Stored
  <2>3. Status' = [Status EXCEPT ![f] = Status'[f]]
    BY <2>1, <2>2, StatusMoves
  <2>4. f \notin Stored /\ f \notin lost
    BY <2>1 DEF LogInv, Exclusive, Stored
  <2>5. Status[f] = "new" /\ Status'[f] = "pending"
    BY <2>1, <2>2, <2>4 DEF Statuses, StatusIs
  <2> QED
    BY <1>4, <2>1, <2>3, <2>5 DEF Delivers!Move, Delivers!Moves
<1>5. ASSUME crash = "none", NEW f \in Feedback, f \in Senders,
             Publish(f), UNCHANGED <<fresh, docs, crash>>
      PROVE  Delivers!Move(f) \/ UNCHANGED Delivers!deliveryVars
  <2>1. CASE lost' = lost
    BY <1>5, <2>1, StatusKept DEF Delivers!deliveryVars
  <2>2. CASE lost' = lost \cup {f}
    <3>1. f \notin fresh /\ f \notin Stored /\ f \notin lost
      BY <1>5 DEF LogInv, Exclusive, Stored, Senders
    <3>2. Stored' = Stored
      BY <1>5 DEF Stored
    <3>3. Status' = [Status EXCEPT ![f] = Status'[f]]
      BY <1>5, <2>2, <3>2, StatusMoves
    <3>4. Status[f] = "pending" /\ Status'[f] = "lost"
      BY <2>2, <3>1 DEF Statuses, StatusIs
    <3> QED
      BY <1>5, <3>3, <3>4 DEF Delivers!Move, Delivers!Moves
  <2> QED
    BY <1>5, <2>1, <2>2 DEF Publish
<1>6. ASSUME crash = "none", SendFirst
      PROVE  \/ \E f \in Feedback : Delivers!Move(f)
             \/ UNCHANGED Delivers!deliveryVars
  <2>1. sending \in Feedback /\ sending \in Senders
    BY <1>6 DEF SendFirst, LogInv, LogTypeOK, Senders
  <2> QED
    BY <1>5, <1>6, <2>1 DEF SendFirst
<1>7. ASSUME crash = "none", NEW f \in Feedback, SendAgain(f)
      PROVE  Delivers!Move(f) \/ UNCHANGED Delivers!deliveryVars
  <2>1. f \in Senders
    BY <1>7 DEF SendAgain, Senders
  <2> QED
    BY <1>5, <1>7, <2>1 DEF SendAgain
<1>8. ASSUME NEW f \in Feedback, f \in posts, UNCHANGED <<fresh, lost>>,
             docs' = [docs EXCEPT ![f] = @ + 1]
      PROVE  /\ Status[f] = "pending"
             /\ Status' = [Status EXCEPT ![f] = "stored"]
  <2>1. docs[f] = 0 /\ docs \in [Feedback -> Nat]
    BY <1>8 DEF LogInv, LogTypeOK, Exclusive
  <2>2. f \notin fresh /\ f \notin Stored /\ f \notin lost
    BY <1>8, <2>1 DEF LogInv, Exclusive, Stored
  <2>3. Stored' = Stored \cup {f}
    BY <1>8, <2>1 DEF Stored
  <2>4. Status' = [Status EXCEPT ![f] = Status'[f]]
    BY <1>8, <2>3, StatusMoves
  <2>5. Status[f] = "pending" /\ Status'[f] = "stored"
    BY <2>2, <2>3 DEF Statuses, StatusIs
  <2> QED
    BY <2>4, <2>5
<1>9. ASSUME crash = "none", NEW f \in Feedback, Created(f)
      PROVE  Delivers!Move(f)
  <2>1. /\ Status[f] = "pending"
        /\ Status' = [Status EXCEPT ![f] = "stored"]
    BY <1>8, <1>9 DEF Created
  <2>2. crash' = crash
    BY <1>9 DEF Created
  <2> QED
    BY <1>9, <2>1, <2>2 DEF Delivers!Move, Delivers!Moves
<1>10. ASSUME crash = "none", NEW f \in Feedback, RequestFails(f)
       PROVE  Delivers!End
  <2>1. crash' = "request" /\ f \in posts /\ UNCHANGED <<fresh, lost>>
    BY <1>10 DEF RequestFails
  <2>2. CASE docs' = docs
    <3>1. Status' = Status
      BY <2>1, <2>2, StatusKept
    <3> QED
      BY <1>10, <2>1, <3>1 DEF Delivers!End
  <2>3. CASE docs' = [docs EXCEPT ![f] = @ + 1]
    <3>1. /\ Status[f] = "pending"
          /\ Status' = [Status EXCEPT ![f] = "stored"]
      BY <1>8, <2>1, <2>3
    <3> QED
      BY <1>10, <2>1, <3>1 DEF Delivers!End
  <2> QED
    BY <1>10, <2>2, <2>3 DEF RequestFails
<1> QED
  BY <1>1, <1>2, <1>3, <1>4, <1>6, <1>7, <1>9, <1>10
  DEF LogNext, LogStep, Delivers!DeliveryNext

(* FeedbackLog implements the safety of FeedbackDelivery: a feedback is    *)
(* never stored after it was dropped, nor dropped after it was stored, nor *)
(* handed over twice, and nothing moves when the process has ended.        *)
THEOREM LogDelivers == LogSpec => Delivers!DeliverySafety
<1>1. FeedbackLogAssumption
  BY FeedbackLogAssumption
<1>2. LogInit => Delivers!DeliveryInit
  <2> SUFFICES ASSUME LogInit
               PROVE  Delivers!DeliveryInit
    OBVIOUS
  <2>1. \A f \in Feedback : Status[f] = "new"
    BY <1>1, LogInvHolds, StatusesHold DEF LogInit, Statuses, StatusIs
  <2>2. Status = [f \in Feedback |-> Status[f]]
    BY DEF Status
  <2>3. Status = [f \in Feedback |-> "new"]
    BY <2>1, <2>2
  <2> QED
    BY <2>3 DEF Delivers!DeliveryInit, LogInit
<1>3. LogInv /\ Statuses /\ Statuses' /\ [LogNext]_logVars
        => [Delivers!DeliveryNext]_(Delivers!deliveryVars)
  BY <1>1, StepDelivers
<1> QED
  BY <1>2, <1>3, LogInvariant, StatusesHold, PTL DEF LogSpec, Delivers!DeliverySafety
=============================================================================
