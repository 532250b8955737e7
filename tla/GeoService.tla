----------------------------- MODULE GeoService -----------------------------
(***************************************************************************)
(* The service: the sessions of Session on one io_service, with the TK103  *)
(* plugin of Tk103 behind them.  main calls io_service.run() outside any   *)
(* try block, so an exception from the plugin ends the service.            *)
(*                                                                         *)
(* A login or a handshake is processed in two steps: the request to the    *)
(* device database is sent, and its answer comes later.  The thread waits  *)
(* in between (`running' is still the session's), devices do not.          *)
(***************************************************************************)
EXTENDS Tk103, SequenceFolds

CONSTANTS Session, Script, Idle, MaxLength, SplitReads, SocketMayFill

ASSUME ServiceAssumption ==
  /\ Script \in [Session -> Seq(Cells)]
  /\ Idle \notin Session
  /\ MaxLength \in Nat
  /\ SplitReads \in BOOLEAN
  /\ SocketMayFill \in BOOLEAN

VARIABLES
  conn, pos, buff, running, rest, handled, pending, received, overrun, growth,
  asking \* is the thread waiting for the device database?

INSTANCE Session WITH
  Cell <- Cells, Close <- CloseCell, Blank <- BlankCell,
  Reply <- Answers, NoReply <- NoAnswer, Stale <- StaleBytes

serverVars ==
  <<conn, pos, buff, running, rest, handled, pending, received, overrun, growth>>

vars == <<serverVars, pluginVars, asking>>

(* The content of the frame at positions q of the stream of s.             *)
Text(s, q) == [i \in DOMAIN q |-> Script[s][q[i]]]

FrameAhead(s) ==
  running = s /\ \E k \in 1..Len(rest) : FirstCloseAt(s, rest, k) /\ Fits(Filled(s, k))

-----------------------------------------------------------------------------
Init ==
  /\ SessionInit
  /\ PluginInit
  /\ asking = FALSE

(* The loop meets the ')' of a login or a handshake, and process sends the *)
(* request of is_device_registered.                                        *)
Ask(s) ==
  /\ FrameAhead(s)
  /\ ~asking
  /\ HasCommand(Text(s, NextFrame(s)), LookupCommands)
  /\ asking' = TRUE
  /\ UNCHANGED <<serverVars, pluginVars>>

(* A frame that needs no lookup, or whose lookup is under way.             *)
MayProcess(text) == asking = HasCommand(text, LookupCommands)

(* The loop meets a ')': process is called, or gets the answer it waits    *)
(* for, and its own answer is written.                                     *)
HandleFrame(s) ==
  /\ FrameAhead(s)
  /\ asking' = FALSE
  /\ \E frame \in {NextFrame(s)} : \E text \in {Text(s, frame)} :
       \E answer \in Answers :
         /\ MayProcess(text)
         /\ Process(text, answer)
         /\ TakeFrame(s, frame, answer)

(* process throws: nothing after the call happens, in any session.         *)
Terminate(s) ==
  /\ FrameAhead(s)
  /\ \E text \in {Text(s, NextFrame(s))} : MayProcess(text) /\ ProcessThrows(text)
  /\ UNCHANGED <<serverVars, asking>>

SessionStep(s) ==
  /\ \/ Accept(s)
     \/ HangUp(s)
     \/ ReadError(s)
     \/ FinishRead(s)
     \/ Overrun(s)
     \/ WriteDone(s)
  /\ UNCHANGED <<pluginVars, asking>>

Read(s) ==
  /\ \E n \in 1..(Len(Script[s]) - pos[s]) : ReadSome(s, n)
  /\ UNCHANGED <<pluginVars, asking>>

Next ==
  /\ fault = "none"
  /\ \E s \in Session :
       Read(s) \/ Ask(s) \/ HandleFrame(s) \/ Terminate(s) \/ SessionStep(s)

(* The handler that is running goes on to its end: the database answers,   *)
(* or the request's time-out, 30 seconds by default, ends it.              *)
HandlerStep ==
  /\ fault = "none"
  /\ \E s \in Session :
       \/ Ask(s)
       \/ HandleFrame(s)
       \/ Terminate(s)
       \/ FinishRead(s) /\ UNCHANGED <<pluginVars, asking>>

(* Handlers that are ready run; devices keep sending while they are        *)
(* connected.  Nothing obliges a device to hang up.                        *)
Fairness ==
  /\ WF_vars(HandlerStep)
  /\ \A s \in Session :
       /\ WF_vars(fault = "none" /\ Accept(s) /\ UNCHANGED <<pluginVars, asking>>)
       /\ WF_vars(fault = "none" /\ Read(s))
       /\ WF_vars(fault = "none" /\ WriteDone(s) /\ UNCHANGED <<pluginVars, asking>>)

Spec == Init /\ [][Next]_vars
FairSpec == Spec /\ Fairness

-----------------------------------------------------------------------------
(* The shape of the plugin's state; that of the sessions is SessionTypeOK. *)
GeoTypeOK ==
  /\ SessionTypeOK
  /\ deviceId \in Registered \cup {DefaultId}
  /\ \A f \in table : f \in Cells
  /\ published \in Seq([device : Registered \cup {DefaultId}, msg : MessageId,
                        numbers : Cells])
  /\ fault \in {"none", "http", "stod", "strcpy_s"}
  /\ asking \in BOOLEAN

(* The frames each device sends, by the position of their ')'.             *)
SentTexts ==
  [s \in Session |-> [n \in {m \in DOMAIN Script[s] : Script[s][m] = CloseCell} |->
                      Text(s, SentFrame(s, n))]]

Ends(s) == DOMAIN SentTexts[s]
SentText(s, n) == SentTexts[s][n]
HandledText(s, i) == Text(s, handled[s][i])

IsLogin(f) == HasCommand(f, {"BP05"})
FromRegistered(f) == DeviceOf(f).kind = "device" /\ DeviceOf(f).val \in Registered

(* What devices send in the protocol: a frame begins with "(" and an id,   *)
(* nothing but blanks lies between two of them, and the numbers of a fix   *)
(* follow the mark that announces them.                                    *)
FramesWellFormed ==
  \A s \in Session : \A n \in DOMAIN Script[s] :
    LET before == IF n = 1 THEN CloseCell ELSE Script[s][n - 1]
    IN  /\ before \in {CloseCell, BlankCell} => Script[s][n] \in {OpenCell, BlankCell}
        /\ before = OpenCell => Script[s][n].kind = "id"
        /\ before = Field("available", "A") => Script[s][n].kind = "numbers"

DeviceFrames == SentFrames

Whole ==
  INSTANCE Framing WITH Frames <- DeviceFrames, arrived <- pos, seen <- handled

(* Reads that end with whole frames hand the plugin exactly the frames of  *)
(* the device, whole, once each, in order, and in the end all of them: the *)
(* sessions implement Framing.                                             *)
WholeFrames == Whole!FramingSpec

(* What the protocol's table (tk103.h) promises as the answer to a frame.  *)
Promised(f) ==
  CASE IsLogin(f) -> IF FromRegistered(f) THEN Answer(IdOf(f), "AP05") ELSE Refusal
    [] HasCommand(f, {"BP00"}) -> IF FromRegistered(f) THEN Answer(IdOf(f), "AP01")
                                                       ELSE NoAnswer
    [] HasCommand(f, {"BO01"}) -> Answer(IdOf(f), "AS01")
    [] OTHER -> NoAnswer

(* The answers to alarms, which the service does not give.                *)
AlarmAnswers == {Answer(i, "AS01") : i \in MessageId}

Owed(q) == Without(q, {NoAnswer} \cup AlarmAnswers)

(* A device that stays connected has received what the protocol promises   *)
(* for each frame that it sent and that was handled, alarms apart, on its  *)
(* own connection, in the order of the frames, and nothing else, whatever  *)
(* the other connections do meanwhile.                                     *)
AnswersComplete ==
  \A s \in Session :
    conn[s] = "open" =>
      received[s] = Owed([i \in DOMAIN handled[s] |-> Promised(SentText(s, EndOf(s, i)))])

(* However the stream is split and whatever the database answers, a device *)
(* is told "AP05" or "AP01" only in answer to a login or a handshake that  *)
(* it did send on that connection, for an id that is registered.           *)
AcceptanceEarned ==
  \A s \in Session : \A i \in DOMAIN received[s] :
    received[s][i] \notin {Refusal, StaleBytes} =>
      \E n \in Ends(s) : /\ n <= pos[s]
                         /\ received[s][i] = Promised(SentText(s, n))

(* Every feedback is published under the default id or under an id that is *)
(* registered and that some connection has logged in with.                 *)
PublishedIdVerified ==
  \A i \in DOMAIN published :
    \/ published[i].device = DefaultId
    \/ /\ published[i].device \in Registered
       /\ \E s \in Session : \E n \in Ends(s) :
            /\ IsHandled(s, n)
            /\ IsLogin(SentText(s, n))
            /\ DeviceOf(SentText(s, n)).val = published[i].device

(* The fixes of connection s: where its feedback frames with data end.     *)
Fixes(s) ==
  {n \in Ends(s) : HasCommand(SentText(s, n), FeedbackCommands)
                     /\ AvailableOf(SentText(s, n))}

(* No two fixes carry the same id.                                         *)
UniqueFixIds ==
  \A s, t \in Session : \A m \in Fixes(s), n \in Fixes(t) :
    IdOf(SentText(s, m)) = IdOf(SentText(t, n)) => s = t /\ m = n

(* The numbers of the fix that ends at n, as the device sent them.         *)
NumbersOf(s, n) == SentText(s, n)[5]

Published(s, n) ==
  \E i \in DOMAIN published : /\ published[i].msg = IdOf(SentText(s, n))
                             /\ published[i].numbers = NumbersOf(s, n)

(* The frame that ends at n was handled as it was sent, without a leftover *)
(* in front of it or inside it.                                            *)
HandledAsSent(s, n) ==
  \E i \in DOMAIN handled[s] : EndOf(s, i) = n /\ HandledText(s, i) = SentText(s, n)

(* Nothing is published that is not a fix some device sent, no fix twice,  *)
(* and the fixes of one connection in the order they were sent; its        *)
(* numbers are the fix's own, unless a read ended inside its frame.        *)
NoFixInvented ==
  \A i \in DOMAIN published :
    \E s \in Session : \E n \in Fixes(s) :
      /\ IsHandled(s, n)
      /\ published[i].msg = IdOf(SentText(s, n))
      /\ HandledAsSent(s, n) => published[i].numbers = NumbersOf(s, n)
      /\ \A j \in 1..(i - 1) :
           \A m \in Fixes(s) : published[j].msg = IdOf(SentText(s, m)) => m < n

(* With whole frames no fix is dropped either: it is published, with its   *)
(* own numbers, in the step that handles its frame.                        *)
FixesPublished ==
  \A s \in Session : \A n \in Fixes(s) : IsHandled(s, n) => Published(s, n)

LoggedInBefore ==
  \E t \in Session : \E m \in Ends(t) :
    /\ IsHandled(t, m)
    /\ IsLogin(SentText(t, m))
    /\ FromRegistered(SentText(t, m))

(* The service ends by an exception only while it handles a login or a     *)
(* handshake with a database that fails, a fix that a read has cut, or, in *)
(* the build whose strcpy_s checks, a fix after the first login: no other  *)
(* sequence of frames of any number of devices ends it.                    *)
FaultsExplained ==
  fault # "none" =>
    \E s \in Session :
      LET n == LastCell(NextFrame(s))
      IN  /\ FrameAhead(s)
          /\ fault = "http" => /\ DatabaseMayFail
                               /\ HasCommand(SentText(s, n), LookupCommands)
          /\ fault \in {"stod", "strcpy_s"} => n \in Fixes(s)
          /\ fault = "stod" => Text(s, NextFrame(s)) # SentText(s, n)
          /\ fault = "strcpy_s" => Msvc /\ LoggedInBefore

(* A registered device that logs in and stays connected is told AP05.      *)
LoginsAnswered ==
  \A s \in Session : \A n \in Ends(s) :
    IsLogin(SentText(s, n)) /\ FromRegistered(SentText(s, n)) =>
      (pos[s] >= n ~> \/ \E i \in DOMAIN received[s] :
                           received[s][i] = Promised(SentText(s, n))
                      \/ conn[s] # "open")

-----------------------------------------------------------------------------
(* What the repository says and the code does not do.                      *)

(* "29 degrees, 34.0133 minutes north latitude": the position of a fix is  *)
(* what its device sent.                                                   *)
PositionsAsSent ==
  \A i \in DOMAIN published : \A s \in Session : \A n \in Fixes(s) :
    published[i].msg = IdOf(SentText(s, n)) => published[i].numbers = NumbersOf(s, n)

(* The test of a feedback expects the answer "", after the login test has  *)
(* used the same plugin: no feedback of a device that has logged in ends   *)
(* the service.                                                            *)
NoFault == fault = "none"

(* "Recieved data from device ... on device <gps->deviceId()>": the id of  *)
(* the plugin is that of the device the data came from, as the feedback    *)
(* published with it then names its own sender.                            *)
FeedbackNamesSender ==
  \A i \in DOMAIN published : \A s \in Session : \A n \in Fixes(s) :
    published[i].msg = IdOf(SentText(s, n)) =>
      published[i].device \in {Script[s][m].val :
        m \in {k \in DOMAIN Script[s] : Script[s][k].kind = "device"}}
=============================================================================
