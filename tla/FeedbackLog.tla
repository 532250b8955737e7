---------------------------- MODULE FeedbackLog ----------------------------
(***************************************************************************)
(* The way of a feedback from log_feedback to the document database        *)
(* (geo_location_svc_lib/sdk.cpp): the io thread publishes it on a ZeroMQ  *)
(* PUB socket, the job thread started by start_device_feedbacks_logs_job   *)
(* receives it on a SUB socket and posts it to the database, and the       *)
(* continuation of the request, on a thread of the pplx pool, publishes it *)
(* once more unless the answer is Created or Accepted.                     *)
(*                                                                         *)
(* The PUB socket drops what it is given while the subscription has not    *)
(* arrived or the subscriber's queue is full.  A request that ends without *)
(* any answer runs no continuation: its exception is unobserved when the   *)
(* task is destroyed and ends the process.  Two threads inside `send' of   *)
(* one socket is undefined; nothing is said about what follows.            *)
(***************************************************************************)
EXTENDS Naturals, Sequences, FiniteSets

CONSTANTS
  Feedback,         \* the feedbacks the devices send
  None,             \* no feedback
  QueueLimit,       \* the high water mark of the two sockets together
  Poison,           \* feedbacks the database always refuses
  RequestsMayFail,  \* may a request end without an answer?
  RaceIsFatal       \* may two senders at once break the process?

ASSUME FeedbackLogAssumption ==
  /\ None \notin Feedback
  /\ QueueLimit \in Nat \ {0}
  /\ Poison \subseteq Feedback
  /\ RequestsMayFail \in BOOLEAN
  /\ RaceIsFatal \in BOOLEAN

VARIABLES
  subscribed, \* has the subscription reached the PUB socket?
  fresh,      \* feedbacks the devices have not sent yet
  sending,    \* the feedback the io thread is inside `send' with, or None
  resending,  \* those that continuations are inside `send' with
  queue,      \* on the way to the job thread
  job,        \* received by the job thread and not yet posted, or None
  posts,      \* requests the database has not answered
  docs,       \* docs[f]: how many documents hold f
  lost,       \* dropped by the PUB socket
  crash       \* what ended the process here, or "none"

logVars ==
  <<subscribed, fresh, sending, resending, queue, job, posts, docs, lost, crash>>

-----------------------------------------------------------------------------
Queued == {queue[i] : i \in 1..Len(queue)}

Senders == (IF sending = None THEN {} ELSE {sending}) \cup resending

LogInit ==
  /\ subscribed = FALSE
  /\ fresh = Feedback
  /\ sending = None
  /\ resending = {}
  /\ queue = <<>>
  /\ job = None
  /\ posts = {}
  /\ docs = [f \in Feedback |-> 0]
  /\ lost = {}
  /\ crash = "none"

(* The job thread's connect and subscribe become effective on the PUB side *)
(* some time after the calls.                                              *)
Subscribe ==
  /\ ~subscribed
  /\ subscribed' = TRUE
  /\ UNCHANGED <<fresh, sending, resending, queue, job, posts, docs, lost, crash>>

(* Mutant: a data store whose branch of log_feedback is empty is selected. *)
StartSendNothing(f) ==
  /\ sending = None
  /\ fresh' = fresh \ {f}
  /\ UNCHANGED <<subscribed, sending, resending, queue, job, posts, docs, lost, crash>>

(* log_feedback of a device_feedback, called by the plugin on io's thread, *)
(* which is inside the call until SendFirst.                               *)
StartSend(f) ==
  /\ sending = None
  /\ fresh' = fresh \ {f}
  /\ sending' = f
  /\ UNCHANGED <<subscribed, resending, queue, job, posts, docs, lost, crash>>

(* A device sends each feedback once.                                      *)
LogFeedback(f) == f \in fresh /\ StartSend(f)

(* The PUB socket queues the message for the subscriber or drops it.       *)
Publish(f) ==
  IF subscribed /\ Len(queue) < QueueLimit
    THEN queue' = Append(queue, f) /\ UNCHANGED lost
    ELSE lost' = lost \cup {f} /\ UNCHANGED queue

SendFirst ==
  /\ sending # None
  /\ Publish(sending)
  /\ sending' = None
  /\ UNCHANGED <<subscribed, fresh, resending, job, posts, docs, crash>>

SendAgain(f) ==
  /\ f \in resending
  /\ Publish(f)
  /\ resending' = resending \ {f}
  /\ UNCHANGED <<subscribed, fresh, sending, job, posts, docs, crash>>

SendersCollide ==
  /\ RaceIsFatal
  /\ Cardinality(Senders) > 1
  /\ crash' = "race"
  /\ UNCHANGED <<subscribed, fresh, sending, resending, queue, job, posts, docs, lost>>

(* subscriber->recv.                                                       *)
Receive ==
  /\ job = None
  /\ queue # <<>>
  /\ job' = Head(queue)
  /\ queue' = Tail(queue)
  /\ UNCHANGED <<subscribed, fresh, sending, resending, posts, docs, lost, crash>>

(* Mutant: the job thread posts what it has, even nothing.                 *)
PostNothing ==
  /\ posts' = posts \cup {job}
  /\ job' = None
  /\ UNCHANGED <<subscribed, fresh, sending, resending, queue, docs, lost, crash>>

(* client.request; the loop goes on without waiting for the answer.        *)
Post ==
  /\ job # None
  /\ posts' = posts \cup {job}
  /\ job' = None
  /\ UNCHANGED <<subscribed, fresh, sending, resending, queue, docs, lost, crash>>

(* Mutant: "unless Created or Accepted" that is always true.               *)
CreatedRepublishes(f) ==
  /\ f \in posts \ Poison
  /\ posts' = posts \ {f}
  /\ docs' = [docs EXCEPT ![f] = @ + 1]
  /\ resending' = resending \cup {f}
  /\ UNCHANGED <<subscribed, fresh, sending, queue, job, lost, crash>>

(* The database stores the document and answers Created or Accepted.       *)
Created(f) ==
  /\ f \in posts \ Poison
  /\ posts' = posts \ {f}
  /\ docs' = [docs EXCEPT ![f] = @ + 1]
  /\ UNCHANGED <<subscribed, fresh, sending, resending, queue, job, lost, crash>>

(* Mutants: the continuation does nothing, or the request is sent again    *)
(* next to the feedback being published again.                             *)
RefusedForgets(f) ==
  /\ f \in posts
  /\ posts' = posts \ {f}
  /\ UNCHANGED <<subscribed, fresh, sending, resending, queue, job, docs, lost, crash>>

RefusedTwice(f) ==
  /\ f \in posts
  /\ resending' = resending \cup {f}
  /\ UNCHANGED <<subscribed, fresh, sending, queue, job, posts, docs, lost, crash>>

(* Any other answer: the continuation calls log_feedback(str).             *)
Refused(f) ==
  /\ f \in posts
  /\ posts' = posts \ {f}
  /\ resending' = resending \cup {f}
  /\ UNCHANGED <<subscribed, fresh, sending, queue, job, docs, lost, crash>>

(* No answer: refused connection, time out, connection lost before or      *)
(* after the database stored the document.                                 *)
RequestFails(f) ==
  /\ RequestsMayFail
  /\ f \in posts
  /\ posts' = posts \ {f}
  /\ docs' \in {docs, [docs EXCEPT ![f] = @ + 1]}
  /\ crash' = "request"
  /\ UNCHANGED <<subscribed, fresh, sending, resending, queue, job, lost>>

(* What happens to feedbacks that have been handed over.                   *)
LogStep ==
  \/ Subscribe
  \/ SendFirst
  \/ SendersCollide
  \/ Receive
  \/ Post
  \/ \E f \in Feedback : \/ SendAgain(f)
                         \/ Created(f)
                         \/ Refused(f)
                         \/ RequestFails(f)

LogNext ==
  /\ crash = "none"
  /\ LogStep \/ \E f \in Feedback : LogFeedback(f)

LogSpec == LogInit /\ [][LogNext]_logVars

-----------------------------------------------------------------------------
(* The shape of the state: what is under way is a feedback, or nothing.    *)
LogTypeOK ==
  /\ subscribed \in BOOLEAN
  /\ fresh \subseteq Feedback
  /\ sending \in Feedback \cup {None}
  /\ resending \subseteq Feedback
  /\ queue \in Seq(Feedback)
  /\ job \in Feedback \cup {None}
  /\ posts \subseteq Feedback
  /\ docs \in [Feedback -> Nat]
  /\ lost \subseteq Feedback
  /\ crash \in {"none", "race", "request"}

Stored == {f \in Feedback : docs[f] > 0}

(* The places a feedback can be in on its way.                             *)
Places(f) ==
  [fresh |-> f \in fresh, sending |-> f = sending, resending |-> f \in resending,
   queue |-> f \in Queued, job |-> f = job, posts |-> f \in posts,
   stored |-> f \in Stored, lost |-> f \in lost]

(* Publishing again never leaves a second copy behind: a feedback is in    *)
(* exactly one place, even once among the messages queued, and gets one    *)
(* document.  The process that a failing request ends may have left one.   *)
OnePlaceEach ==
  /\ \A f \in Feedback : docs[f] <= 1
  /\ \A i, j \in 1..Len(queue) : queue[i] = queue[j] => i = j
  /\ \A f \in Feedback : \A p, q \in DOMAIN Places(f) :
       Places(f)[p] /\ Places(f)[q] => p = q
  /\ crash # "request" =>
       \A f \in Feedback : \E p \in DOMAIN Places(f) : Places(f)[p]

(* Handed over, and neither stored nor dropped.                            *)
UnderWay == Feedback \ (fresh \cup Stored \cup lost)

(* Once the subscription is there, a feedback is dropped only when more    *)
(* are under way than the queue has room for: being refused and published  *)
(* again never takes the room of another.                                  *)
NoLateLoss ==
  [][subscribed /\ lost' # lost => Cardinality(UnderWay) > QueueLimit]_logVars

(* The refinement: what becomes of each feedback.                          *)
Status ==
  [f \in Feedback |->
     CASE f \in fresh -> "new"
       [] f \in Stored -> "stored"
       [] f \in lost -> "lost"
       [] OTHER -> "pending"]
=============================================================================
