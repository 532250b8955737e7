------------------------------- MODULE Tk103 -------------------------------
(***************************************************************************)
(* The TK103 plugin: Ctk103::process (tk103/tk103.cpp) reads the command   *)
(* of a frame at its fixed offset and calls the handler of gps_service     *)
(* (tk103/gps_service.cpp).  One plugin object serves every connection, so *)
(* `deviceId', the id of the last device that logged in, is shared.        *)
(*                                                                         *)
(* A frame is a sequence of cells, one per field of the structures that    *)
(* process lays over the bytes (sdk/data_payload_from_device.h):           *)
(*     ( id BP05 device_id gps_data )      login                           *)
(*     ( id BP00 device_id HSO )           handshake                       *)
(*     ( id BR00 available numbers state ) feedback, BR02 its last one     *)
(*     ( id BO01 code gps_data )           alarm                           *)
(* Fields are found by their place alone, as the casts find them; `id'     *)
(* tells the frames of an instance apart, and the numbers of a fix name    *)
(* the frame they were sent in.                                            *)
(***************************************************************************)
EXTENDS Naturals, Sequences

CONSTANTS
  Device,         \* the ids that devices report
  Registered,     \* those with a document in the database
  DefaultId,      \* "000000000", the id before the first login
  MessageId,      \* the ids (time stamps) of frames
  Msvc,           \* is this the build in which strcpy_s checks its target?
  DatabaseMayFail \* may the document database be down or answer an error?

ASSUME Tk103Assumption ==
  /\ Registered \subseteq Device
  /\ DefaultId \notin Device
  /\ Msvc \in BOOLEAN
  /\ DatabaseMayFail \in BOOLEAN

VARIABLES
  deviceId,  \* gps_service::deviceId
  table,     \* the keys of Ctk103::device_command_message
  published, \* the feedbacks given to log_feedback, oldest first
  fault      \* the exception that ended the service, or "none"

pluginVars == <<deviceId, table, published, fault>>

-----------------------------------------------------------------------------
Field(kind, val) == [kind |-> kind, val |-> val]

OpenCell == Field("mark", "(")
CloseCell == Field("mark", ")")
BlankCell == Field("mark", " ")

(* The commands that have a handler, and two that have none.               *)
LookupCommands == {"BP00", "BP05"}
FeedbackCommands == {"BR00", "BR02"}
Commands == LookupCommands \cup FeedbackCommands \cup {"BO01", "BP04"}

Cells ==
  {OpenCell, CloseCell, BlankCell}
    \cup [kind : {"id"}, val : MessageId]
    \cup [kind : {"command"}, val : Commands]
    \cup [kind : {"device"}, val : Device]
    \cup [kind : {"available"}, val : {"A", "V"}]
    \cup [kind : {"numbers"}, val : MessageId]
    \cup [kind : {"body"}, val : {""}]

(* parseDeviceRequest: a cast; the fields are where they are.              *)
IdOf(f) == f[2].val
CommandOf(f) == f[3]
DeviceOf(f) == f[4]
AvailableOf(f) == f[4] = Field("available", "A")
HasNumbers(f) == f[5].kind = "numbers"

HasCommand(f, commands) ==
  CommandOf(f).kind = "command" /\ CommandOf(f).val \in commands

(* What process returns: formDeviceResponse's frames, "*" and "".          *)
Answer(id, command) == <<id, command>>
NoAnswer == <<"", "">>
Refusal == <<"", "*">>
StaleBytes == <<"", "stale">>
Answers == {Answer(i, c) : i \in MessageId, c \in {"AP01", "AP05"}}
             \cup {NoAnswer, Refusal}

(* Mutants: every answer of the database counts as "yes", or as "no".      *)
LookupTrusting(dev) == {TRUE}
LookupRefusing(dev) == {FALSE}

(* is_device_registered: one GET of the device's document, answered by the *)
(* database while the service waits; any status but 200 counts as "no".    *)
LookupResults(dev) ==
  {dev.kind = "device" /\ dev.val \in Registered}
    \cup (IF DatabaseMayFail THEN {FALSE} ELSE {})

-----------------------------------------------------------------------------
PluginInit ==
  /\ deviceId = DefaultId
  /\ table = [kind : {"command"}, val : Commands]
  /\ published = <<>>
  /\ fault = "none"

(* operator[] of the map, evaluated by every request, adds a key it does   *)
(* not find.                                                               *)
ParseDeviceRequest(f) == table' = table \cup {CommandOf(f)}

DeviceHandshake(f, answer) ==
  /\ HasCommand(f, {"BP00"})
  /\ \E known \in LookupResults(DeviceOf(f)) :
       answer = IF known THEN Answer(IdOf(f), "AP01") ELSE NoAnswer
  /\ UNCHANGED <<deviceId, published>>

(* Mutants: the id is kept whatever the database says, or a refused device *)
(* is not told.                                                            *)
LoginKeepsAnyId(f, answer) ==
  /\ HasCommand(f, {"BP05"})
  /\ \E known \in LookupResults(DeviceOf(f)) :
       answer = IF known THEN Answer(IdOf(f), "AP05") ELSE Refusal
  /\ deviceId' = DeviceOf(f).val
  /\ UNCHANGED published

LoginRefusesSilently(f, answer) ==
  /\ HasCommand(f, {"BP05"})
  /\ \E known \in LookupResults(DeviceOf(f)) :
       /\ answer = IF known THEN Answer(IdOf(f), "AP05") ELSE NoAnswer
       /\ deviceId' = IF known THEN DeviceOf(f).val ELSE deviceId
  /\ UNCHANGED published

DeviceLogin(f, answer) ==
  /\ HasCommand(f, {"BP05"})
  /\ \E known \in LookupResults(DeviceOf(f)) :
       /\ answer = IF known THEN Answer(IdOf(f), "AP05") ELSE Refusal
       /\ deviceId' = IF known THEN DeviceOf(f).val ELSE deviceId
  /\ UNCHANGED published

(* strcpy_s of a 15 character id into char[15].                            *)
IdTooLong == Msvc /\ deviceId # DefaultId

(* What log_feedback is given: the id of the plugin, the time stamp, and   *)
(* what the text has where the numbers of a fix belong.                    *)
Fix(f) == [device |-> deviceId, msg |-> IdOf(f), numbers |-> f[5]]

(* Mutant: deviceFeedbackEnding does not log what it has filled in.        *)
FeedbackEndingNotLogged(f, answer) ==
  /\ HasCommand(f, FeedbackCommands)
  /\ answer = NoAnswer
  /\ published' = IF HasCommand(f, {"BR00"}) /\ AvailableOf(f)
                    THEN Append(published, Fix(f))
                    ELSE published
  /\ UNCHANGED deviceId

(* Mutant: the case of BR00 falls through to that of BR02.                 *)
FeedbackFallsThrough(f, answer) ==
  /\ HasCommand(f, FeedbackCommands)
  /\ answer = NoAnswer
  /\ published' = IF AvailableOf(f) THEN published \o <<Fix(f), Fix(f)>> ELSE published
  /\ UNCHANGED deviceId

(* deviceFeedback and deviceFeedbackEnding.  atof takes any text, and stod *)
(* any that begins like a number: whatever stands where the numbers belong *)
(* may be published as a position.                                         *)
DeviceFeedback(f, answer) ==
  /\ HasCommand(f, FeedbackCommands)
  /\ answer = NoAnswer
  /\ \/ /\ AvailableOf(f)
        /\ ~IdTooLong
        /\ published' = Append(published, Fix(f))
     \/ /\ ~AvailableOf(f)
        /\ UNCHANGED published
  /\ UNCHANGED deviceId

OtherCommand(f, answer) ==
  /\ ~HasCommand(f, LookupCommands \cup FeedbackCommands)
  /\ answer = NoAnswer
  /\ UNCHANGED <<deviceId, published>>

Process(f, answer) ==
  /\ ParseDeviceRequest(f)
  /\ \/ DeviceHandshake(f, answer)
     \/ DeviceLogin(f, answer)
     \/ DeviceFeedback(f, answer)
     \/ OtherCommand(f, answer)
  /\ UNCHANGED fault

(* Mutant: stod may fail on the numbers of a fix.                          *)
FaultsOfNumbers(f) ==
  {e \in {"http", "stod", "strcpy_s"} :
     \/ e = "http" /\ DatabaseMayFail /\ HasCommand(f, LookupCommands)
     \/ /\ HasCommand(f, FeedbackCommands)
        /\ AvailableOf(f)
        /\ e = "stod" \/ (e = "strcpy_s" /\ IdTooLong)}

(* No caller of process catches: an exception leaves io_service.run() and  *)
(* main, and strcpy_s calls the invalid parameter handler.  Text that is   *)
(* not the numbers of a fix may begin like a number, or not.               *)
FaultsOf(f) ==
  {e \in {"http", "stod", "strcpy_s"} :
     \/ e = "http" /\ DatabaseMayFail /\ HasCommand(f, LookupCommands)
     \/ /\ HasCommand(f, FeedbackCommands)
        /\ AvailableOf(f)
        /\ \/ e = "stod" /\ ~HasNumbers(f)
           \/ e = "strcpy_s" /\ IdTooLong}

ProcessThrows(f) ==
  /\ fault' \in FaultsOf(f)
  /\ ParseDeviceRequest(f)
  /\ UNCHANGED <<deviceId, published>>
=============================================================================
