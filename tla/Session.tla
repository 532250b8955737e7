------------------------------ MODULE Session ------------------------------
(***************************************************************************)
(* The TCP side of the service: `server' (geo_location/server.h) accepts   *)
(* connections and hands each one to a `session' (geo_location/session.h), *)
(* which reassembles the frames of the tracker protocol from whatever      *)
(* pieces async_read_some returns, passes every frame to gps->process and  *)
(* writes the answer back.  All handlers run on the one thread that called *)
(* io_service.run(): `running' is the session whose read handler that      *)
(* thread is inside, or Idle.                                              *)
(*                                                                         *)
(* A device's byte stream is a constant, Script[s], cut into cells: one    *)
(* cell per protocol field, so a read may split a frame at every field     *)
(* boundary.  The state refers to cells by their position in the stream    *)
(* (Script[s][n] is the content of cell n), which tells apart two copies   *)
(* of the same text and costs nothing: the code never looks at more than   *)
(* "is this byte a ')'" and "is this byte a blank" before gps->process.    *)
(* No cell holds a NUL byte.                                               *)
(***************************************************************************)
EXTENDS Naturals, Sequences, FiniteSets

CONSTANTS
  Session,      \* the connections that devices make to the plugin's port
  Cell,         \* the contents a cell of a stream can have
  Script,       \* Script[s]: the cells the device of connection s sends
  Close,        \* the cell that holds ')'
  Blank,        \* a cell of white space between two frames
  Reply,        \* the answers gps->process can return
  NoReply,      \* the empty string
  Stale,        \* what is read from a string that no longer exists
  Idle,         \* no read handler is running
  MaxLength,    \* session::max_length, in cells
  SplitReads,   \* may a read end in the middle of a frame?
  SocketMayFill \* may the kernel's send buffer be full at a write?

ASSUME SessionAssumption ==
  /\ Script \in [Session -> Seq(Cell)]
  /\ Close # Blank
  /\ Idle \notin Session
  /\ NoReply \in Reply
  /\ MaxLength \in Nat
  /\ SplitReads \in BOOLEAN
  /\ SocketMayFill \in BOOLEAN

VARIABLES
  conn,     \* conn[s]: "none", "open" once accepted, "gone" when the device
            \* has hung up, "closed" when the read handler has learnt of it
  pos,      \* pos[s]: how many cells of the stream have been read
  buff,     \* buff[s]: the C string kept in session::buff
  running,  \* the session whose read handler is running, or Idle
  rest,     \* the cells of new_bytes the handler's loop has not reached
  handled,  \* handled[s]: the frames passed to gps->process so far
  pending,  \* pending[s]: async_writes the kernel has not taken yet
  received, \* received[s]: the answers the device has got
  overrun,  \* has a byte been written beyond the end of a buff?
  growth    \* history: growth[s] is 2 ^ n after n reads that ended inside
            \* the frame in hand

sessionVars ==
  <<conn, pos, buff, running, rest, handled, pending, received, overrun, growth>>

-----------------------------------------------------------------------------
IsClose(s, n) == Script[s][n] = Close
IsBlank(s, n) == Script[s][n] = Blank

(* Mutant: the loop looks for the last ')' of what has been read.          *)
LastCloseAt(s, q, k) ==
  /\ k \in 1..Len(q)
  /\ IsClose(s, q[k])
  /\ \A j \in (k + 1)..Len(q) : ~IsClose(s, q[j])

(* k is where the loop of the read handler meets the first ')' of q.       *)
FirstCloseAt(s, q, k) ==
  /\ k \in 1..Len(q)
  /\ IsClose(s, q[k])
  /\ \A j \in 1..(k - 1) : ~IsClose(s, q[j])

(* boost::trim: a frame ends with ')', so only leading blanks can go.      *)
Trim(s, q) ==
  LET k == CHOOSE i \in 1..Len(q) : /\ ~IsBlank(s, q[i])
                                    /\ \A j \in 1..(i - 1) : IsBlank(s, q[j])
  IN  SubSeq(q, k, Len(q))

(* What buff holds when the loop has copied k cells behind it.             *)
Filled(s, k) == buff[s] \o SubSeq(rest, 1, k)

(* A C string and its terminating NUL fit the array.                       *)
Fits(q) == Len(q) < MaxLength

-----------------------------------------------------------------------------
SessionInit ==
  /\ conn = [s \in Session |-> "none"]
  /\ pos = [s \in Session |-> 0]
  /\ buff = [s \in Session |-> <<>>]
  /\ running = Idle
  /\ rest = <<>>
  /\ handled = [s \in Session |-> <<>>]
  /\ pending = [s \in Session |-> <<>>]
  /\ received = [s \in Session |-> <<>>]
  /\ overrun = FALSE
  /\ growth = [s \in Session |-> 1]

(* server::do_accept: the accept handler makes a session, which arms its   *)
(* first read with an empty buff, and arms the next accept.                *)
Accept(s) ==
  /\ running = Idle
  /\ conn[s] = "none"
  /\ conn' = [conn EXCEPT ![s] = "open"]
  /\ UNCHANGED <<pos, buff, running, rest, handled, pending, received, overrun,
                 growth>>

(* Mutants: the leftover is counted as read again, or put behind what is   *)
(* new.                                                                    *)
ReadSomeCountsLeftover(s, n) ==
  /\ running = Idle
  /\ conn[s] \in {"open", "gone"}
  /\ n \in 1..(Len(Script[s]) - pos[s])
  /\ running' = s
  /\ rest' = buff[s] \o [i \in 1..n |-> pos[s] + i]
  /\ pos' = [pos EXCEPT ![s] = @ + Len(rest')]
  /\ UNCHANGED <<conn, buff, handled, pending, received, overrun, growth>>

ReadSomeSwapped(s, n) ==
  /\ running = Idle
  /\ conn[s] \in {"open", "gone"}
  /\ n \in 1..(Len(Script[s]) - pos[s])
  /\ running' = s
  /\ rest' = [i \in 1..n |-> pos[s] + i] \o buff[s]
  /\ pos' = [pos EXCEPT ![s] = @ + n]
  /\ UNCHANGED <<conn, buff, handled, pending, received, overrun, growth>>

(* The read handler starts: n new cells have arrived.  new_bytes is the    *)
(* old content of buff followed by the new cells, and the loop appends it  *)
(* behind the old content.                                                 *)
ReadSome(s, n) ==
  /\ running = Idle
  /\ conn[s] \in {"open", "gone"}
  /\ n \in 1..(Len(Script[s]) - pos[s])
  /\ n <= MaxLength
  /\ SplitReads \/ IsClose(s, pos[s] + n)
  /\ running' = s
  /\ rest' = buff[s] \o [i \in 1..n |-> pos[s] + i]
  /\ pos' = [pos EXCEPT ![s] = @ + n]
  /\ UNCHANGED <<conn, buff, handled, pending, received, overrun, growth>>

(* The device, or the network, ends the connection; what it had sent may   *)
(* still be read.                                                          *)
HangUp(s) ==
  /\ conn[s] = "open"
  /\ conn' = [conn EXCEPT ![s] = "gone"]
  /\ UNCHANGED <<pos, buff, running, rest, handled, pending, received, overrun,
                 growth>>

(* The read handler gets the error: it arms no further read, and the       *)
(* session goes with its last handler.                                     *)
ReadError(s) ==
  /\ running = Idle
  /\ conn[s] = "gone"
  /\ conn' = [conn EXCEPT ![s] = "closed"]
  /\ UNCHANGED <<pos, buff, running, rest, handled, pending, received, overrun,
                 growth>>

(* boost::asio::async_write of `output', a local string of the loop body:  *)
(* the kernel takes the bytes at once, or the operation waits and the      *)
(* string is gone when it is carried out, or the device has hung up.       *)
AsyncWrite(s, reply) ==
  \/ /\ reply = NoReply
     /\ UNCHANGED <<pending, received>>
  \/ /\ reply # NoReply
     /\ pending[s] = <<>>
     /\ received' = [received EXCEPT ![s] = Append(@, reply)]
     /\ UNCHANGED pending
  \/ /\ reply # NoReply
     /\ SocketMayFill
     /\ pending' = [pending EXCEPT ![s] = Append(@, reply)]
     /\ UNCHANGED received
  \/ /\ reply # NoReply
     /\ conn[s] = "gone"
     /\ UNCHANGED <<pending, received>>

(* Mutant: buff is not cleared after a frame.                              *)
TakeFrameKeepsIt(s, frame, reply) ==
  /\ running = s
  /\ \E k \in 1..Len(rest) :
       /\ FirstCloseAt(s, rest, k)
       /\ Fits(Filled(s, k))
       /\ frame = Trim(s, Filled(s, k))
       /\ rest' = SubSeq(rest, k + 1, Len(rest))
       /\ buff' = [buff EXCEPT ![s] = Filled(s, k)]
  /\ handled' = [handled EXCEPT ![s] = Append(@, frame)]
  /\ AsyncWrite(s, reply)
  /\ growth' = [growth EXCEPT ![s] = 1]
  /\ UNCHANGED <<conn, pos, running, overrun>>

(* One frame of the loop: copy up to and including the first ')', process  *)
(* the trimmed string, write the answer, clear buff.                       *)
TakeFrame(s, frame, reply) ==
  /\ running = s
  /\ \E k \in 1..Len(rest) :
       /\ FirstCloseAt(s, rest, k)
       /\ Fits(Filled(s, k))
       /\ frame = Trim(s, Filled(s, k))
       /\ rest' = SubSeq(rest, k + 1, Len(rest))
  /\ handled' = [handled EXCEPT ![s] = Append(@, frame)]
  /\ AsyncWrite(s, reply)
  /\ buff' = [buff EXCEPT ![s] = <<>>]
  /\ growth' = [growth EXCEPT ![s] = 1]
  /\ UNCHANGED <<conn, pos, running, overrun>>

(* Mutant: buff is cleared after every read.                               *)
FinishReadForgets(s) ==
  /\ running = s
  /\ \A k \in 1..Len(rest) : ~IsClose(s, rest[k])
  /\ buff' = [buff EXCEPT ![s] = <<>>]
  /\ rest' = <<>>
  /\ running' = Idle
  /\ growth' = [growth EXCEPT ![s] = IF rest = <<>> THEN @ ELSE 2 * @]
  /\ UNCHANGED <<conn, pos, handled, pending, received, overrun>>

(* The loop ends without another ')': what it copied stays in buff and the *)
(* next read is armed.                                                     *)
FinishRead(s) ==
  /\ running = s
  /\ \A k \in 1..Len(rest) : ~IsClose(s, rest[k])
  /\ Fits(Filled(s, Len(rest)))
  /\ buff' = [buff EXCEPT ![s] = Filled(s, Len(rest))]
  /\ rest' = <<>>
  /\ running' = Idle
  /\ growth' = [growth EXCEPT ![s] = IF rest = <<>> THEN @ ELSE 2 * @]
  /\ UNCHANGED <<conn, pos, handled, pending, received, overrun>>

(* The loop writes _temp[write_index] without comparing it with            *)
(* max_length.  Nothing is said about the program after this step.         *)
Overrun(s) ==
  /\ running = s
  /\ ~overrun
  /\ \E k \in 0..Len(rest) :
       /\ \A j \in 1..k : IsClose(s, rest[j]) => j = k
       /\ ~Fits(Filled(s, k))
  /\ overrun' = TRUE
  /\ UNCHANGED <<conn, pos, buff, running, rest, handled, pending, received,
                 growth>>

(* The kernel takes the oldest waiting write, whose bytes come from memory *)
(* that was released when the loop body ended, or the write fails.         *)
WriteDone(s) ==
  /\ running = Idle
  /\ pending[s] # <<>>
  /\ \/ \E bytes \in {Head(pending[s]), Stale} :
          received' = [received EXCEPT ![s] = Append(@, bytes)]
     \/ /\ conn[s] \in {"gone", "closed"}
        /\ UNCHANGED received
  /\ pending' = [pending EXCEPT ![s] = Tail(@)]
  /\ UNCHANGED <<conn, pos, buff, running, rest, handled, overrun, growth>>

(* What a frame can be is decided by the buffer, what an answer can be by  *)
(* the plugin: by itself this module allows any answer to any frame.       *)
NextFrame(s) ==
  LET k == CHOOSE i \in 1..Len(rest) : FirstCloseAt(s, rest, i)
  IN  Trim(s, Filled(s, k))

SessionNext ==
  \E s \in Session :
    \/ Accept(s)
    \/ \E n \in 1..(Len(Script[s]) - pos[s]) : ReadSome(s, n)
    \/ HangUp(s)
    \/ ReadError(s)
    \/ \E reply \in Reply : TakeFrame(s, NextFrame(s), reply)
    \/ FinishRead(s)
    \/ Overrun(s)
    \/ WriteDone(s)

(* io_service.run() executes every handler that is ready, one after the    *)
(* other, and a handler runs to its end.                                   *)
ReadHandler(s) ==
  \/ \E reply \in Reply : TakeFrame(s, NextFrame(s), reply)
  \/ FinishRead(s)
  \/ Overrun(s)

SessionFairness ==
  \A s \in Session :
    /\ WF_sessionVars(ReadHandler(s))
    /\ WF_sessionVars(Accept(s))
    /\ WF_sessionVars(\E n \in 1..(Len(Script[s]) - pos[s]) : ReadSome(s, n))

SessionSpec == SessionInit /\ [][SessionNext]_sessionVars
FairSessionSpec == SessionSpec /\ SessionFairness

-----------------------------------------------------------------------------
(* The shape of the state: positions stay inside the streams, and only a   *)
(* running read handler has bytes left to look at.                         *)
SessionTypeOK ==
  /\ conn \in [Session -> {"none", "open", "gone", "closed"}]
  /\ pos \in [Session -> Nat]
  /\ buff \in [Session -> Seq(Nat)]
  /\ handled \in [Session -> Seq(Seq(Nat))]
  /\ \A s \in Session :
       /\ pos[s] <= Len(Script[s])
       /\ buff[s] \in Seq(1..pos[s])
       /\ handled[s] \in Seq(Seq(1..pos[s]))
  /\ running \in Session \cup {Idle}
  /\ running = Idle => rest = <<>>
  /\ running # Idle => rest \in Seq(1..pos[running])
  /\ pending \in [Session -> Seq(Reply)]
  /\ received \in [Session -> Seq(Reply \cup {Stale})]
  /\ overrun \in BOOLEAN
  /\ growth \in [Session -> Nat]

LastCell(q) == q[Len(q)]

(* The position of the ')' that ended the i-th frame processed for s.      *)
EndOf(s, i) == LastCell(handled[s][i])

IsHandled(s, n) == \E i \in 1..Len(handled[s]) : EndOf(s, i) = n

(* The ')' that ended the last frame processed, 0 before the first.        *)
Done(s) == IF handled[s] = <<>> THEN 0 ELSE EndOf(s, Len(handled[s]))

(* Every frame processed ends with a ')', each ')' once and in order.      *)
FramesInOrder ==
  \A s \in Session :
    /\ \A i \in 1..Len(handled[s]) :
         /\ handled[s][i] # <<>>
         /\ IsClose(s, EndOf(s, i))
    /\ \A i, j \in 1..Len(handled[s]) : i < j => EndOf(s, i) < EndOf(s, j)

(* Every frame of the stream is passed to gps->process exactly once and in *)
(* the order sent, however the stream is cut into reads: although the loop *)
(* copies the leftover of the last read twice, no ')' is met twice and     *)
(* none is skipped.  A ')' already read that has not been processed is     *)
(* still ahead of the running read handler.                                *)
FramesHandledOnce ==
  /\ FramesInOrder
  /\ \A s \in Session : \A n \in 1..pos[s] :
       IsClose(s, n) =>
         \/ IsHandled(s, n)
         \/ running = s /\ \E k \in 1..Len(rest) : rest[k] = n

(* q ends with the cells after position d up to position p, in order.      *)
EndsWith(q, d, p) ==
  \A i \in (d + 1)..p : p - i < Len(q) /\ q[Len(q) - (p - i)] = i

InHand(s) == IF running = s THEN rest ELSE buff[s]

(* The cells since the last processed ')', in stream order, end what the   *)
(* session still has in hand: nothing read is lost or reordered by the     *)
(* copying, in whatever pieces it arrived.                                 *)
NothingLost == \A s \in Session : EndsWith(InHand(s), Done(s), pos[s])

(* What makes the two properties above inductive: a ')' never stays in     *)
(* buff, those ahead of the loop are new and in stream order, and those    *)
(* behind it have been processed.                                          *)
BuffHasNoClose ==
  \A s \in Session : \A k \in 1..Len(buff[s]) : ~IsClose(s, buff[s][k])

NewCloses(s, q, d) ==
  \A k \in 1..Len(q) :
    IsClose(s, q[k]) =>
      /\ d < q[k]
      /\ \A j \in 1..(k - 1) : IsClose(s, q[j]) => q[j] < q[k]

ClosesAhead == running # Idle => NewCloses(running, rest, Done(running))

ClosesBehind ==
  \A s \in Session : \A n \in 1..Done(s) : IsClose(s, n) => IsHandled(s, n)

(* The inductive invariant.                                                *)
SessionInv ==
  /\ SessionTypeOK
  /\ FramesInOrder
  /\ NothingLost
  /\ BuffHasNoClose
  /\ ClosesAhead
  /\ ClosesBehind

(* The cells the device sent since the frame before the one that ends at   *)
(* position n, and that frame itself.                                      *)
Sent(s, n) ==
  LET start == CHOOSE p \in 0..(n - 1) :
                 /\ p = 0 \/ IsClose(s, p)
                 /\ \A q \in (p + 1)..(n - 1) : ~IsClose(s, q)
  IN  [i \in 1..(n - start) |-> start + i]

SentFrame(s, n) == Trim(s, Sent(s, n))

IsSuffix(q, r) ==
  /\ Len(q) <= Len(r)
  /\ SubSeq(r, Len(r) - Len(q) + 1, Len(r)) = q

(* Whatever the reads, the string passed to gps->process ends with the     *)
(* intact frame the device sent: a split read can only put text before it. *)
FrameEndsIntact ==
  \A s \in Session : \A i \in 1..Len(handled[s]) :
    IsSuffix(SentFrame(s, EndOf(s, i)), handled[s][i])

(* n is a position in the frame in hand: the next ')' is not before it.    *)
InHandAt(s, n) ==
  /\ n \in (Done(s) + 1)..pos[s]
  /\ \A q \in (Done(s) + 1)..(n - 1) : ~IsClose(s, q)

(* A buff is overrun by a frame that is cut too often, or too long, and by *)
(* nothing else: each read that ends inside the frame at most doubles what *)
(* the cells of the frame so far take up, and nothing of the frames before *)
(* it, or of other connections, adds to that.                              *)
OverrunExplained ==
  overrun =>
    \E s \in Session :
      /\ running = s
      /\ \E n \in DOMAIN Script[s] :
           InHandAt(s, n) /\ growth[s] * (n - Done(s)) >= MaxLength

(* Every ')' that has been read is processed in the end, and a connection  *)
(* that its device keeps open has its whole stream read: the read handler  *)
(* always finishes and re-arms the read.                                   *)
FramesAnswered ==
  \A s \in Session : \A n \in DOMAIN Script[s] :
    IsClose(s, n) =>
      /\ pos[s] >= n ~> IsHandled(s, n) \/ overrun
      /\ conn[s] = "open" ~> IsHandled(s, n) \/ overrun \/ conn[s] # "open"

(* SentFrames[s]: where each frame of the stream ends, and its cells.      *)
SentFrames ==
  [s \in Session |->
    LET ends == {n \in DOMAIN Script[s] : IsClose(s, n)}
        Nth(i) == CHOOSE n \in ends : Cardinality({m \in ends : m <= n}) = i
    IN  [i \in 1..Cardinality(ends) |-> <<Nth(i), SentFrame(s, Nth(i))>>]]

-----------------------------------------------------------------------------
(* What the repository says and the code does not do.                      *)

FramesFit ==
  \A s \in Session : \A n \in DOMAIN Script[s] :
    IsClose(s, n) => Fits(Sent(s, n))

(* "MESSAGE_LENGTH 1024": the array has room for every message that is no  *)
(* longer than that.                                                       *)
NoOverrun == FramesFit => ~overrun
=============================================================================
