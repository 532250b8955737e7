---------------------------- MODULE NanoLogRing ----------------------------
(***************************************************************************)
(* The non-guaranteed logger (geo_location_svc_lib/NanoLog.cpp), from the  *)
(* LOG macros to the files: threads encode lines (LogLine) and push them   *)
(* into a RingBuffer, the thread of NanoLogger::pop takes them and writes  *)
(* them to the files (LogFile).  The program may be destroyed in order, or *)
(* be killed at any moment and started again.                              *)
(*                                                                         *)
(* A slot is filled and emptied under its spin lock, in one step; claiming *)
(* an index is another.  The thread of the reader takes a line and writes  *)
(* it in one step, since nothing it touches after the slot is shared.      *)
(***************************************************************************)
EXTENDS LogLine, LogFile, FiniteSets

CONSTANTS
  Producer,    \* the threads that log
  Content,     \* Content[p][n]: level and arguments of the n-th line p logs
  Size,        \* m_size
  Modulus,     \* 2^32: the indices are unsigned ints
  Restarts,    \* how often the program is started again
  MayShutDown  \* may the logger be destroyed?

ASSUME NanoLogRingAssumption ==
  /\ Content \in [Producer -> Seq([level : Levels, args : Seq(Arguments)])]
  /\ Size \in Nat \ {0}
  /\ Modulus \in Nat \ {0}
  /\ Restarts \in Nat
  /\ MayShutDown \in BOOLEAN

VARIABLES
  level,      \* loglevel
  pc,         \* pc[p]: "idle", "encode", "claim" or "store"
  line,       \* line[p]: the number of the line p logs now or came to last
  logline,    \* logline[p]: the NanoLogLine p is making
  arg,        \* arg[p]: how many arguments it has encoded
  index,      \* index[p]: the index it has claimed
  ring,       \* ring[i]: written, and the line in slot i with its origin
  writeIndex, \* m_write_index
  readIndex,  \* m_read_index
  state,      \* NanoLogger::m_state, from READY on
  reader,     \* "pop", "drain" or "done"
  out,        \* history: the lines the reader has taken in this run
  claimed,    \* history: the lines of this run in the order of their claims
  lapped,     \* history: have more than Size lines been waiting at a time?
  dropped,    \* history: lines of this run overwritten in their slot
  starts      \* how often the program has been started again

pushVars == <<pc, line, logline, arg, index, ring, writeIndex, claimed, lapped, dropped>>
popVars == <<readIndex, reader, out, fileVars>>
downVars == <<state, starts>>
ringVars == <<level, pushVars, popVars, downVars>>

Slots == 0..(Size - 1)
Blank == [written |-> FALSE, id |-> <<>>, logline |-> NewLine(INFO)]
Id(p) == <<p, line[p]>>
Goes(p, label) == pc' = [pc EXCEPT ![p] = label]

-----------------------------------------------------------------------------
LoggerInit ==
  /\ pc = [p \in Producer |-> "idle"]
  /\ line = [p \in Producer |-> 0]
  /\ logline = [p \in Producer |-> NewLine(INFO)]
  /\ arg = [p \in Producer |-> 0]
  /\ index = [p \in Producer |-> 0]
  /\ ring = [i \in Slots |-> Blank]
  /\ writeIndex = 0
  /\ readIndex = 0
  /\ state = "READY"
  /\ reader = "pop"
  /\ out = <<>>
  /\ claimed = <<>>
  /\ lapped = FALSE
  /\ dropped = {}

RingInit ==
  /\ LoggerInit
  /\ FileInit
  /\ level = INFO
  /\ starts = 0

(* set_log_level, which the service calls after initialize.                *)
SetLogLevel ==
  /\ level = INFO
  /\ level' = WARN
  /\ UNCHANGED <<pushVars, popVars, downVars>>

Line(p, n) == Content[p][n]

IsLogged(lv) == lv >= level

(* LOG_INFO, LOG_WARN, LOG_CRIT: a line is made if its level is logged.    *)
Begin(p) ==
  /\ pc[p] = "idle"
  /\ line[p] < Len(Content[p])
  /\ line' = [line EXCEPT ![p] = @ + 1]
  /\ IF IsLogged(Line(p, line'[p]).level)
       THEN /\ Goes(p, "encode")
            /\ logline' = [logline EXCEPT ![p] = NewLine(Line(p, line'[p]).level)]
            /\ arg' = [arg EXCEPT ![p] = 0]
       ELSE UNCHANGED <<pc, logline, arg>>
  /\ UNCHANGED <<index, ring, writeIndex, claimed, lapped, dropped>>

(* One operator<<.                                                         *)
Put(p) ==
  /\ pc[p] = "encode"
  /\ arg[p] < Len(Line(p, line[p]).args)
  /\ arg' = [arg EXCEPT ![p] = @ + 1]
  /\ logline' = [logline EXCEPT ![p] = Encode(@, Line(p, line[p]).args[arg'[p]])]
  /\ UNCHANGED <<pc, line, index, ring, writeIndex, claimed, lapped, dropped>>

(* RingBuffer::push: m_write_index.fetch_add(1).                           *)
Claim(p) ==
  /\ pc[p] = "encode"
  /\ arg[p] = Len(Line(p, line[p]).args)
  /\ Goes(p, "store")
  /\ index' = [index EXCEPT ![p] = writeIndex]
  /\ writeIndex' = (writeIndex + 1) % Modulus
  /\ claimed' = Append(claimed, Id(p))
  /\ lapped' = (lapped \/ Len(claimed') > Len(out) + Size)
  /\ UNCHANGED <<line, logline, arg, ring, dropped>>

(* Mutant: the last slot is not used.                                      *)
SlotOneShort(i) == IF Size = 1 THEN 0 ELSE i % (Size - 1)

Slot(i) == i % Size

(* The rest of push, under the lock of the slot: what was in it is lost.   *)
Store(p) ==
  /\ pc[p] = "store"
  /\ LET i == Slot(index[p])
     IN  /\ ring' = [ring EXCEPT ![i] = [written |-> TRUE, id |-> Id(p),
                                         logline |-> logline[p]]]
         /\ dropped' = IF ring[i].written THEN dropped \cup {ring[i].id} ELSE dropped
  /\ Goes(p, "idle")
  /\ logline' = [logline EXCEPT ![p] = NewLine(INFO)]
  /\ UNCHANGED <<line, arg, index, writeIndex, claimed, lapped>>

Push(p) ==
  /\ Begin(p) \/ Put(p) \/ Claim(p) \/ Store(p)
  /\ UNCHANGED <<level, popVars, downVars>>

-----------------------------------------------------------------------------
ReadSlot == ring[Slot(readIndex)]

(* Mutant: the slot stays marked as written.                               *)
TakeKeepsWritten ==
  /\ reader \in {"pop", "drain"}
  /\ ReadSlot.written
  /\ readIndex' = (readIndex + 1) % Modulus
  /\ out' = Append(out, [id |-> ReadSlot.id, text |-> Stringify(ReadSlot.logline)])
  /\ Write(Entry(<<starts, ReadSlot.id>>, PrintedBytes(Stringify(ReadSlot.logline))))
  /\ UNCHANGED <<reader, ring>>

(* RingBuffer::try_pop under the lock of the slot, and FileWriter::write.  *)
Take ==
  /\ reader \in {"pop", "drain"}
  /\ ReadSlot.written
  /\ ring' = [ring EXCEPT ![Slot(readIndex)].written = FALSE]
  /\ readIndex' = (readIndex + 1) % Modulus
  /\ out' = Append(out, [id |-> ReadSlot.id, text |-> Stringify(ReadSlot.logline)])
  /\ Write(Entry(<<starts, ReadSlot.id>>, PrintedBytes(Stringify(ReadSlot.logline))))
  /\ UNCHANGED reader

(* Mutant: the remaining entries are not popped.                           *)
SeeShutdownAndStop ==
  /\ reader = "pop"
  /\ state = "SHUTDOWN"
  /\ reader' = "done"
  /\ UNCHANGED <<readIndex, out, ring, fileVars>>

SeeShutdown ==
  /\ reader = "pop"
  /\ state = "SHUTDOWN"
  /\ reader' = "drain"
  /\ UNCHANGED <<readIndex, out, ring, fileVars>>

EndDrain ==
  /\ reader = "drain"
  /\ ~ReadSlot.written
  /\ reader' = "done"
  /\ UNCHANGED <<readIndex, out, ring, fileVars>>

PopLoop ==
  /\ Take \/ SeeShutdown \/ EndDrain
  /\ UNCHANGED <<level, pc, line, logline, arg, index, writeIndex, claimed, lapped,
                 dropped, downVars>>

(* ~NanoLogger; threads may still be logging until the reader is done.     *)
Shutdown ==
  /\ MayShutDown
  /\ state = "READY"
  /\ state' = "SHUTDOWN"
  /\ UNCHANGED <<level, pushVars, popVars, starts>>

LoggerReset ==
  /\ pc' = [p \in Producer |-> "idle"]
  /\ logline' = [p \in Producer |-> NewLine(INFO)]
  /\ arg' = [p \in Producer |-> 0]
  /\ index' = [p \in Producer |-> 0]
  /\ ring' = [i \in Slots |-> Blank]
  /\ writeIndex' = 0
  /\ readIndex' = 0
  /\ state' = "READY"
  /\ reader' = "pop"
  /\ out' = <<>>
  /\ claimed' = <<>>
  /\ lapped' = FALSE
  /\ dropped' = {}
  /\ UNCHANGED line

(* The program has ended, or is killed, and is started again: initialize   *)
(* makes a new logger, whose FileWriter begins with file 1.                *)
Restart ==
  /\ starts < Restarts
  /\ starts' = starts + 1
  /\ level' = INFO
  /\ LoggerReset
  /\ Reopen

RingNext ==
  \/ SetLogLevel
  \/ reader # "done" /\ \E p \in Producer : Push(p)
  \/ PopLoop
  \/ Shutdown
  \/ Restart

RingSpec == RingInit /\ [][RingNext]_ringVars

-----------------------------------------------------------------------------
(* A line is never written beyond its buffer, while it is encoded with     *)
(* arguments that fill the buffers to the last byte, nor afterwards.       *)
LinesFit ==
  /\ \A p \in Producer : Fits(logline[p])
  /\ \A i \in Slots : Fits(ring[i].logline)

(* What is printed of a line are the arguments it was logged with, all of  *)
(* them and in order, wherever its buffer grew and whoever overtook it.    *)
TextIntact ==
  \A i \in DOMAIN out :
    out[i].text = Shown(Line(out[i].id[1], out[i].id[2]).args)

Taken == [i \in DOMAIN out |-> out[i].id]

(* Reader and writers are in step as long as no more lines than the ring   *)
(* holds have been waiting, and the indices have not wrapped in a ring     *)
(* whose size does not divide their range.                                 *)
InStep == ~lapped /\ (Modulus % Size = 0 \/ Len(claimed) <= Modulus)

(* No line is taken twice, even by a reader that is out of step, and as    *)
(* long as it is in step, lines are taken in the order of their claims.    *)
TakenOnceInOrder ==
  /\ \A i, j \in DOMAIN out : Taken[i] = Taken[j] => i = j
  /\ InStep => Len(out) <= Len(claimed) /\ Taken = SubSeq(claimed, 1, Len(out))

(* A line is dropped only after reader and writers have got out of step:  *)
(* never before the ring was full or its indices have wrapped.             *)
DroppedOnlyWhenFull == dropped # {} => ~InStep

(* Whenever the reader finds nothing to take, or has drained the ring at   *)
(* the end, and no push is half way, every line has been taken, as long as *)
(* reader and writers are in step: otherwise a line may wait in one slot   *)
(* while the reader looks at another.                                      *)
NothingLeftWaiting ==
  /\ reader = "done" \/ ~ReadSlot.written
  /\ \A p \in Producer : pc[p] # "store"
  /\ InStep
  => Len(out) = Len(claimed)

EntriesOf(file) == [i \in DOMAIN file |-> file[i].id]

(* The files of this run, in the order of their numbers, hold the lines    *)
(* taken, in order, up to where the stream failed: there is never a gap.   *)
FilesFollowReader ==
  LET own == IF good THEN number ELSE number - 1
      all == Concatenated([n \in 1..own |-> EntriesOf(files[n])])
      taken == [i \in DOMAIN out |-> <<starts, out[i].id>>]
  IN  /\ Len(all) <= Len(taken)
      /\ all = SubSeq(taken, 1, Len(all))
      /\ good => Len(all) = Len(taken)

(* A file is closed with the first line that brings it over the limit: no  *)
(* file is longer than that, and none is closed before.                    *)
RollsInTime ==
  \A n \in 1..number :
    LET file == files[n]
    IN  IF n < number
          THEN FileBytes(file) > RollBytes /\ FileBytes(SubSeq(file, 1, Len(file) - 1)) <= RollBytes
          ELSE good => FileBytes(file) <= RollBytes

(* No file mixes lines of two runs of the program: a run that finds files  *)
(* of an earlier one replaces them whole or leaves them whole.             *)
RunsNotMixed ==
  \A n \in DOMAIN files : \A i, j \in DOMAIN files[n] :
    files[n][i].id[1] = files[n][j].id[1]
=============================================================================
