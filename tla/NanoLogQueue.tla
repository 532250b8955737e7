---------------------------- MODULE NanoLogQueue ----------------------------
(***************************************************************************)
(* The guaranteed logger every component writes to                         *)
(* (geo_location_svc_lib/NanoLog.cpp): the io thread, the job thread and   *)
(* the pool's threads push lines into a QueueBuffer, a list of buffers of  *)
(* `Size' slots; one thread of NanoLogger pops them and writes the file.   *)
(* Each access to a shared atomic is a step of its own.  The two uses of   *)
(* the spin lock are single steps, and memory is sequentially consistent,  *)
(* as the accesses are on x86.                                             *)
(*                                                                         *)
(* The reader frees a buffer as soon as it has taken its last line, which  *)
(* may be before the producer of a line has counted it: `m_write_state' of *)
(* freed memory is then incremented.  The model lets the result be any.    *)
(***************************************************************************)
EXTENDS Naturals, Sequences, FiniteSets

CONSTANTS
  Producer,    \* the threads that log
  Lines,       \* how many lines each of them logs
  Size,        \* Buffer::size
  MayShutDown, \* may main return, which destroys the logger?
  FreedIsKept  \* does freed memory keep its content?

ASSUME NanoLogQueueAssumption ==
  /\ IsFiniteSet(Producer)
  /\ Lines \in Nat
  /\ Size \in Nat \ {0}
  /\ MayShutDown \in BOOLEAN
  /\ FreedIsKept \in BOOLEAN

VARIABLES
  pc,         \* pc[p]: the next step of the push of producer p
  line,       \* line[p]: the number of the line p logs now or logged last
  index,      \* index[p]: write_index of that push
  buffer,     \* buffer[p]: the buffer it was given
  slots,      \* slots[b][i]: the line in slot i of buffer b, or NoLine
  ready,      \* ready[b][i]: m_write_state[i] of buffer b
  count,      \* count[b]: m_write_state[Size] of buffer b
  current,    \* m_current_write_buffer
  writeIndex, \* m_write_index
  buffers,    \* m_buffers
  freed,      \* the buffers deleted
  reading,    \* m_current_read_buffer, 0 for nullptr
  readIndex,  \* m_read_index
  reader,     \* "pop", "retire", "drain", "drain retire" or "done"
  state,      \* NanoLogger::m_state, from READY on
  out,        \* the lines written to the file
  claimed,    \* history: the lines in the order in which slots were claimed
  due,        \* history: the lines that were pushed when shutdown began
  quiet,      \* history: was no push under way when shutdown began?
  uaf         \* history: has a freed buffer been accessed?

pushVars == <<pc, line, index, buffer, slots, ready, count, current, writeIndex, claimed, uaf>>
popVars == <<freed, reading, readIndex, reader, out>>
downVars == <<state, due, quiet>>
queueVars == <<pushVars, popVars, downVars, buffers>>

NoLine == <<>>
Buffers == 1..(Cardinality(Producer) * Lines + 1)
Slots == 0..(Size - 1)

-----------------------------------------------------------------------------
QueueInit ==
  /\ pc = [p \in Producer |-> "idle"]
  /\ line = [p \in Producer |-> 0]
  /\ index = [p \in Producer |-> 0]
  /\ buffer = [p \in Producer |-> 1]
  /\ slots = [b \in Buffers |-> [i \in Slots |-> NoLine]]
  /\ ready = [b \in Buffers |-> [i \in Slots |-> FALSE]]
  /\ count = [b \in Buffers |-> 0]
  /\ current = 1
  /\ writeIndex = 0
  /\ buffers = <<1>>
  /\ freed = {}
  /\ reading = 0
  /\ readIndex = 0
  /\ reader = "pop"
  /\ state = "READY"
  /\ out = <<>>
  /\ claimed = <<>>
  /\ due = {}
  /\ quiet = TRUE
  /\ uaf = FALSE

Go(p, label) == pc' = [pc EXCEPT ![p] = label]

(* NanoLog::operator==, NanoLogger::add, QueueBuffer::push: p logs a line. *)
Log(p) ==
  /\ pc[p] = "idle"
  /\ line[p] < Lines
  /\ line' = [line EXCEPT ![p] = @ + 1]
  /\ Go(p, "claim")
  /\ UNCHANGED <<index, buffer, slots, ready, count, current, writeIndex, claimed, uaf>>

(* m_write_index.fetch_add(1).                                             *)
Claim(p) ==
  /\ pc[p] = "claim"
  /\ index' = [index EXCEPT ![p] = writeIndex]
  /\ writeIndex' = writeIndex + 1
  /\ IF writeIndex < Size
       THEN Go(p, "load") /\ claimed' = Append(claimed, <<p, line[p]>>)
       ELSE Go(p, "spin") /\ UNCHANGED claimed
  /\ UNCHANGED <<line, buffer, slots, ready, count, current, uaf>>

(* Wait for the next buffer, then push again.                              *)
Spin(p) ==
  /\ pc[p] = "spin"
  /\ writeIndex < Size
  /\ Go(p, "claim")
  /\ UNCHANGED <<line, index, buffer, slots, ready, count, current, writeIndex,
                 claimed, uaf>>

(* m_current_write_buffer.load.                                            *)
Load(p) ==
  /\ pc[p] = "load"
  /\ buffer' = [buffer EXCEPT ![p] = current]
  /\ Go(p, "write")
  /\ UNCHANGED <<line, index, slots, ready, count, current, writeIndex, claimed, uaf>>

(* new (&m_buffer[write_index]) Item(...).                                 *)
Write(p) ==
  /\ pc[p] = "write"
  /\ slots' = [slots EXCEPT ![buffer[p]][index[p]] = <<p, line[p]>>]
  /\ uaf' = (uaf \/ buffer[p] \in freed)
  /\ Go(p, "flag")
  /\ UNCHANGED <<line, index, buffer, ready, count, current, writeIndex, claimed>>

(* m_write_state[write_index].store(1).                                    *)
Flag(p) ==
  /\ pc[p] = "flag"
  /\ ready' = [ready EXCEPT ![buffer[p]][index[p]] = TRUE]
  /\ uaf' = (uaf \/ buffer[p] \in freed)
  /\ Go(p, "count")
  /\ UNCHANGED <<line, index, buffer, slots, count, current, writeIndex, claimed>>

(* Mutants: the last line but one sets up the next buffer, or both do.     *)
CountOneEarly(p) ==
  /\ pc[p] = "count"
  /\ count' = [count EXCEPT ![buffer[p]] = @ + 1]
  /\ uaf' = (uaf \/ buffer[p] \in freed)
  /\ Go(p, IF count[buffer[p]] + 2 = Size THEN "setup" ELSE "idle")
  /\ UNCHANGED <<line, index, buffer, slots, ready, current, writeIndex, claimed>>

CountAtLeast(p) ==
  /\ pc[p] = "count"
  /\ count' = [count EXCEPT ![buffer[p]] = @ + 1]
  /\ uaf' = (uaf \/ buffer[p] \in freed)
  /\ Go(p, IF count[buffer[p]] + 2 >= Size THEN "setup" ELSE "idle")
  /\ UNCHANGED <<line, index, buffer, slots, ready, current, writeIndex, claimed>>

(* m_write_state[Size].fetch_add(1) + 1 == Size.                           *)
Count(p) ==
  /\ pc[p] = "count"
  /\ count' = [count EXCEPT ![buffer[p]] = @ + 1]
  /\ uaf' = (uaf \/ buffer[p] \in freed)
  /\ \E last \in BOOLEAN :
       /\ FreedIsKept \/ buffer[p] \notin freed => last = (count'[buffer[p]] = Size)
       /\ Go(p, IF last THEN "setup" ELSE "idle")
  /\ UNCHANGED <<line, index, buffer, slots, ready, current, writeIndex, claimed>>

(* setup_next_write_buffer: the new buffer is current ...                  *)
Setup(p) ==
  /\ pc[p] = "setup"
  /\ current + 1 \in Buffers
  /\ current' = current + 1
  /\ buffer' = [buffer EXCEPT ![p] = current + 1]
  /\ Go(p, "enqueue")
  /\ UNCHANGED <<line, index, slots, ready, count, writeIndex, claimed, uaf>>

(* Mutant: the write index is not set back to 0.                           *)
EnqueueKeepsIndex(p) ==
  /\ pc[p] = "enqueue"
  /\ buffers' = Append(buffers, buffer[p])
  /\ Go(p, "idle")
  /\ UNCHANGED <<line, index, buffer, slots, ready, count, current, writeIndex,
                 claimed, uaf>>

(* ... then, under the lock, the reader's, and open for claims.            *)
Enqueue(p) ==
  /\ pc[p] = "enqueue"
  /\ buffers' = Append(buffers, buffer[p])
  /\ writeIndex' = 0
  /\ Go(p, "idle")
  /\ UNCHANGED <<line, index, buffer, slots, ready, count, current, claimed, uaf>>

Push(p) ==
  /\ \/ Enqueue(p)
     \/ /\ Log(p) \/ Claim(p) \/ Spin(p) \/ Load(p) \/ Write(p) \/ Flag(p)
           \/ Count(p) \/ Setup(p)
        /\ UNCHANGED buffers
  /\ UNCHANGED <<popVars, downVars>>

-----------------------------------------------------------------------------
Popping == reader \in {"pop", "drain"}

(* get_next_read_buffer finds a buffer.                                    *)
NextReadBuffer ==
  /\ Popping
  /\ reading = 0
  /\ buffers # <<>>
  /\ reading' = Head(buffers)
  /\ UNCHANGED <<freed, readIndex, reader, out, buffers>>

(* Mutant: as many lines are taken to be ready as have been counted.       *)
LineCounted == reading # 0 /\ count[reading] > readIndex

(* Buffer::try_pop's test.                                                 *)
LineReady == reading # 0 /\ ready[reading][readIndex]

(* Mutant: m_read_index is not set back to 0.                              *)
PopKeepsIndex ==
  /\ Popping
  /\ LineReady
  /\ out' = Append(out, slots[reading][readIndex])
  /\ readIndex' = readIndex + 1
  /\ IF readIndex + 1 = Size
       THEN reading' = 0 /\ reader' = "retire"
       ELSE UNCHANGED <<reading, reader>>
  /\ UNCHANGED <<freed, buffers>>

(* Buffer::try_pop finds the next line, and FileWriter::write writes it.   *)
Pop ==
  /\ Popping
  /\ LineReady
  /\ out' = Append(out, slots[reading][readIndex])
  /\ IF readIndex + 1 = Size
       THEN /\ readIndex' = 0
            /\ reading' = 0
            /\ reader' = IF reader = "pop" THEN "retire" ELSE "drain retire"
       ELSE /\ readIndex' = readIndex + 1
            /\ UNCHANGED <<reading, reader>>
  /\ UNCHANGED <<freed, buffers>>

(* m_buffers.pop() deletes the buffer that has been read.                  *)
Retire ==
  /\ reader \in {"retire", "drain retire"}
  /\ freed' = freed \cup {Head(buffers)}
  /\ buffers' = Tail(buffers)
  /\ reader' = IF reader = "retire" THEN "pop" ELSE "drain"
  /\ UNCHANGED <<reading, readIndex, out>>

(* Mutant: the remaining entries are not popped.                           *)
SeeShutdownAndStop ==
  /\ reader = "pop"
  /\ state = "SHUTDOWN"
  /\ reader' = "done"
  /\ UNCHANGED <<freed, reading, readIndex, out, buffers>>

(* The loop of NanoLogger::pop sees that the logger is being destroyed.    *)
SeeShutdown ==
  /\ reader = "pop"
  /\ state = "SHUTDOWN"
  /\ reader' = "drain"
  /\ UNCHANGED <<freed, reading, readIndex, out, buffers>>

(* The first try_pop of the draining loop that finds nothing ends it.      *)
EndDrain ==
  /\ reader = "drain"
  /\ IF reading = 0 THEN buffers = <<>> ELSE ~LineReady
  /\ reader' = "done"
  /\ UNCHANGED <<freed, reading, readIndex, out, buffers>>

PopLoop ==
  /\ NextReadBuffer \/ Pop \/ Retire \/ SeeShutdown \/ EndDrain
  /\ UNCHANGED <<pushVars, downVars>>

(* ~NanoLogger, when main has returned; other threads may still be logging *)
(* but the model ends their logging with the reader's.                     *)
Shutdown ==
  /\ MayShutDown
  /\ state = "READY"
  /\ state' = "SHUTDOWN"
  /\ due' = {l \in Producer \X (1..Lines) :
               l[2] < line[l[1]] \/ (l[2] = line[l[1]] /\ pc[l[1]] = "idle")}
  /\ quiet' = \A p \in Producer : pc[p] = "idle"
  /\ UNCHANGED <<pushVars, popVars, buffers>>

QueueNext ==
  /\ reader # "done"
  /\ (\E p \in Producer : Push(p)) \/ PopLoop \/ Shutdown

QueueSpec == QueueInit /\ [][QueueNext]_queueVars

(* Every thread that can take a step does, in the end.                     *)
FairQueueSpec ==
  /\ QueueSpec
  /\ WF_queueVars(reader # "done" /\ PopLoop)
  /\ \A p \in Producer : WF_queueVars(reader # "done" /\ Push(p))

-----------------------------------------------------------------------------
(* The shape of the state: no buffer is used that was never made, and the  *)
(* read index stays inside a buffer.                                       *)
QueueTypeOK ==
  /\ pc \in [Producer -> {"idle", "claim", "spin", "load", "write", "flag", "count",
                          "setup", "enqueue"}]
  /\ line \in [Producer -> 0..Lines]
  /\ index \in [Producer -> Nat]
  /\ buffer \in [Producer -> Buffers]
  /\ slots \in [Buffers -> [Slots -> (Producer \X (1..Lines)) \cup {NoLine}]]
  /\ ready \in [Buffers -> [Slots -> BOOLEAN]]
  /\ count \in [Buffers -> Nat]
  /\ current \in Buffers
  /\ writeIndex \in Nat
  /\ buffers \in Seq(Buffers)
  /\ freed \subseteq Buffers
  /\ reading \in Buffers \cup {0}
  /\ readIndex \in Slots
  /\ reader \in {"pop", "retire", "drain", "drain retire", "done"}
  /\ state \in {"READY", "SHUTDOWN"}
  /\ out \in Seq((Producer \X (1..Lines)) \cup {NoLine})
  /\ claimed \in Seq(Producer \X (1..Lines))
  /\ due \subseteq Producer \X (1..Lines)
  /\ quiet \in BOOLEAN
  /\ uaf \in BOOLEAN

IsPrefixOf(q, r) == Len(q) <= Len(r) /\ q = SubSeq(r, 1, Len(q))

(* The file gets the lines in the order in which their slots were claimed, *)
(* each once and complete: so those of one thread in the order it logged   *)
(* them, across changes of buffer too.                                     *)
WrittenInClaimOrder == ~uaf => IsPrefixOf(out, claimed)

(* Two pushes under way never share a slot, and a line is written and      *)
(* flagged in a buffer that exists; only the count may come too late.      *)
SlotsExclusive ==
  ~uaf =>
    /\ \A p, q \in Producer :
         (/\ p # q
          /\ pc[p] \in {"write", "flag"}
          /\ pc[q] \in {"write", "flag", "count"})
         => <<buffer[p], index[p]>> # <<buffer[q], index[q]>>
    /\ \A p \in Producer : pc[p] \in {"write", "flag"} => buffer[p] \notin freed

(* Exactly one producer gives the queue its next buffer when one is full.  *)
OneSetup ==
  ~uaf => Cardinality({p \in Producer : pc[p] \in {"setup", "enqueue"}}) <= 1

(* A line of a thread that keeps running reaches the file, or a freed      *)
(* buffer has been accessed, or the logger is shut down.                   *)
LinesWritten ==
  \A p \in Producer : \A n \in 1..Lines :
    line[p] >= n ~> \/ \E i \in DOMAIN out : out[i] = <<p, n>>
                    \/ uaf
                    \/ state = "SHUTDOWN"

(* A shutdown that begins while no push is under way loses no line.        *)
QuietShutdownLosesNothing ==
  reader = "done" /\ quiet /\ ~uaf =>
    \A l \in due : \E i \in DOMAIN out : out[i] = l

-----------------------------------------------------------------------------
(* "Provides a guarantee log lines will not be dropped": a line that is    *)
(* logged is written.                                                      *)
NoLineDropped ==
  \A p \in Producer : \A n \in 1..Lines :
    line[p] >= n ~> \E i \in DOMAIN out : out[i] = <<p, n>>
=============================================================================
