------------------------------ MODULE LogFile ------------------------------
(***************************************************************************)
(* FileWriter (geo_location_svc_lib/NanoLog.cpp): the writer thread        *)
(* appends lines to numbered files and opens the next one when it has      *)
(* written more than the limit.  The numbers start with 1 in each run of   *)
(* the program, and a file that is opened is truncated.                    *)
(*                                                                         *)
(* An ofstream that has failed, at the opening or at a write, stays failed: *)
(* tellp is then -1 and whatever is written is ignored, without an error.  *)
(***************************************************************************)
EXTENDS SequenceFolds

CONSTANTS
  RollBytes,  \* m_log_file_roll_size_bytes
  DiskMayFail \* may a file be impossible to open or to write?

ASSUME LogFileAssumption ==
  /\ RollBytes \in Nat \ {0}
  /\ DiskMayFail \in BOOLEAN

VARIABLES
  files,   \* files[n]: what file number n holds, or <<>>
  number,  \* m_file_number
  written, \* m_bytes_written
  good     \* is the ofstream good?

fileVars == <<files, number, written, good>>

-----------------------------------------------------------------------------
Entry(id, bytes) == [id |-> id, bytes |-> bytes]

FileBytes(file) == Total(0, [i \in DOMAIN file |-> file[i].bytes])

Opens == IF DiskMayFail THEN BOOLEAN ELSE {TRUE}

PutFile(fs, n, file) ==
  IF n <= Len(fs) THEN [fs EXCEPT ![n] = file] ELSE Append(fs, file)

FileInit ==
  /\ number = 1
  /\ written = 0
  /\ good \in Opens
  /\ files = <<<<>>>>

(* Mutants: the file is opened for appending, or under the same number, or *)
(* what has been written stays counted.                                    *)
RollFileAppends(fs, n) ==
  /\ number' = n + 1
  /\ written' = 0
  /\ good' \in Opens
  /\ files' = IF good' /\ n >= Len(fs) THEN Append(fs, <<>>) ELSE fs

RollFileSameName(fs, n) ==
  /\ number' = IF n = 0 THEN 1 ELSE n
  /\ written' = 0
  /\ good' \in Opens
  /\ files' = IF good' THEN PutFile(fs, number', <<>>) ELSE fs

RollFileKeepsCount(fs, n) ==
  /\ number' = n + 1
  /\ written' = IF n = 0 THEN 0 ELSE RollBytes
  /\ good' \in Opens
  /\ files' = IF good' THEN PutFile(fs, n + 1, <<>>) ELSE fs

(* roll_file, when the files are fs and the number n: the next file is     *)
(* opened and truncated.                                                   *)
RollFile(fs, n) ==
  /\ number' = n + 1
  /\ written' = 0
  /\ good' \in Opens
  /\ files' = IF good' THEN PutFile(fs, n + 1, <<>>) ELSE fs

Appended(entry) == [files EXCEPT ![number] = Append(@, entry)]

(* write: the line is in the file when stringify returns, since it ends    *)
(* with endl, and the difference of the two tellp is its length.           *)
WriteLine(entry) ==
  /\ good
  /\ IF written + entry.bytes > RollBytes
       THEN RollFile(Appended(entry), number)
       ELSE /\ written' = written + entry.bytes
            /\ files' = Appended(entry)
            /\ UNCHANGED <<number, good>>

(* The stream fails in the course of it: the second tellp is -1.           *)
WriteFails ==
  /\ good
  /\ DiskMayFail
  /\ good' = FALSE
  /\ written' = -1
  /\ UNCHANGED <<files, number>>

(* It has failed: both are -1.                                             *)
WriteIgnored ==
  /\ ~good
  /\ UNCHANGED fileVars

Write(entry) == WriteLine(entry) \/ WriteFails \/ WriteIgnored

(* The FileWriter of the next run of the program.                          *)
Reopen == RollFile(files, 0)
=============================================================================
