-------------------------- MODULE GeoServiceProofs --------------------------
(***************************************************************************)
(* Theorems about GeoService, for every set of connections, devices and    *)
(* streams.  The service implements Session with any answers, so what      *)
(* SessionProofs proves of the frames holds here; on top of it the plugin  *)
(* keeps that ids, answers and feedbacks come from frames that were sent.  *)
(***************************************************************************)
EXTENDS GeoService, SequenceFoldsProofs, SequenceTheorems, TLAPS

Sessions ==
  INSTANCE SessionProofs WITH
    Cell <- Cells, Close <- CloseCell, Blank <- BlankCell,
    Reply <- Answers, NoReply <- NoAnswer, Stale <- StaleBytes

(* The constants of the service are as Session expects them.               *)
LEMMA SessionAssumptionHolds == Sessions!SessionAssumption
<1>1. CloseCell # BlankCell
  BY DEF CloseCell, BlankCell, Field
<1>2. NoAnswer \in Answers
  BY DEF Answers
<1> QED  BY <1>1, <1>2, ServiceAssumption DEF Sessions!SessionAssumption

-----------------------------------------------------------------------------
(* The frame that is processed next is the same in both modules.           *)
LEMMA SameNextFrame ==
  ASSUME NEW s \in Session
  PROVE  Sessions!NextFrame(s) = NextFrame(s)
BY DEF NextFrame, Sessions!NextFrame, FirstCloseAt, Sessions!FirstCloseAt,
       IsClose, Sessions!IsClose, Trim, Sessions!Trim, IsBlank, Sessions!IsBlank,
       Filled, Sessions!Filled

(* Every step of the service is one of its sessions, or leaves them alone. *)
LEMMA ServiceStep ==
  ASSUME [Next]_vars
  PROVE  [Sessions!SessionNext]_(Sessions!sessionVars)
<1>1. CASE UNCHANGED vars
  BY <1>1 DEF vars, serverVars, Sessions!sessionVars
<1>2. ASSUME NEW s \in Session, Read(s)
      PROVE  Sessions!SessionNext
  <2>1. PICK n \in 1..(Len(Script[s]) - pos[s]) : ReadSome(s, n)
    BY <1>2 DEF Read
  <2>2. Sessions!ReadSome(s, n)
    BY <2>1 DEF ReadSome, Sessions!ReadSome, IsClose, Sessions!IsClose
  <2> QED  BY <2>2 DEF Sessions!SessionNext
<1>3. ASSUME NEW s \in Session, HandleFrame(s)
      PROVE  Sessions!SessionNext
  <2>1. PICK answer \in Answers : TakeFrame(s, NextFrame(s), answer)
    BY SMTT(20), <1>3 DEF HandleFrame
  <2>2. Sessions!TakeFrame(s, NextFrame(s), answer)
    BY <2>1 DEF TakeFrame, Sessions!TakeFrame, FirstCloseAt, Sessions!FirstCloseAt,
                IsClose, Sessions!IsClose, Trim, Sessions!Trim, IsBlank,
                Sessions!IsBlank, Filled, Sessions!Filled, Fits, Sessions!Fits,
                AsyncWrite, Sessions!AsyncWrite
  <2> QED  BY <2>1, <2>2, SameNextFrame DEF Sessions!SessionNext
<1>4. ASSUME NEW s \in Session, Ask(s) \/ Terminate(s)
      PROVE  UNCHANGED Sessions!sessionVars
  BY <1>4 DEF Ask, Terminate, serverVars, Sessions!sessionVars
<1>5. ASSUME NEW s \in Session, SessionStep(s)
      PROVE  Sessions!SessionNext
  <2>1. CASE Accept(s)
    BY <2>1 DEF Accept, Sessions!Accept, Sessions!SessionNext
  <2>2. CASE HangUp(s)
    BY <2>2 DEF HangUp, Sessions!HangUp, Sessions!SessionNext
  <2>3. CASE ReadError(s)
    BY <2>3 DEF ReadError, Sessions!ReadError, Sessions!SessionNext
  <2>4. CASE FinishRead(s)
    BY <2>4 DEF FinishRead, Sessions!FinishRead, Sessions!SessionNext, IsClose,
                Sessions!IsClose, Filled, Sessions!Filled, Fits, Sessions!Fits
  <2>5. CASE Overrun(s)
    BY <2>5 DEF Overrun, Sessions!Overrun, Sessions!SessionNext, IsClose,
                Sessions!IsClose, Filled, Sessions!Filled, Fits, Sessions!Fits
  <2>6. CASE WriteDone(s)
    BY <2>6 DEF WriteDone, Sessions!WriteDone, Sessions!SessionNext
  <2> QED  BY <1>5, <2>1, <2>2, <2>3, <2>4, <2>5, <2>6 DEF SessionStep
<1> QED  BY <1>1, <1>2, <1>3, <1>4, <1>5 DEF Next

(* The service implements its sessions: whatever the plugin does and the   *)
(* database answers, connections, reads and frames behave as in Session.   *)
THEOREM ServiceImplementsSessions == Spec => Sessions!SessionSpec
<1>1. Init => Sessions!SessionInit
  BY DEF Init, SessionInit, Sessions!SessionInit
<1>2. [Next]_vars => [Sessions!SessionNext]_(Sessions!sessionVars)
  BY ServiceStep
<1> QED  BY <1>1, <1>2, PTL DEF Spec, Sessions!SessionSpec
-----------------------------------------------------------------------------
(* What the sessions guarantee of the frames that the plugin is given.     *)
SessionFacts ==
  /\ SessionTypeOK
  /\ FramesInOrder
  /\ Sessions!NextFrameBegins

(* They hold in the service.                                               *)
LEMMA SessionFactsHold == Spec => []SessionFacts
<1>1. Sessions!SessionInv => SessionTypeOK /\ FramesInOrder
  BY DEF Sessions!SessionInv, Sessions!SessionTypeOK, SessionTypeOK,
         Sessions!FramesInOrder, FramesInOrder, Sessions!EndOf, EndOf,
         Sessions!LastCell, LastCell, Sessions!IsClose, IsClose
<1>2. Sessions!SessionSpec => []Sessions!SessionInv
  BY SessionAssumptionHolds, Sessions!SessionInvariant
<1>3. Sessions!SessionSpec => []Sessions!NextFrameBegins
  BY SessionAssumptionHolds, Sessions!NextFrameBeginsCorrect
<1> QED  BY <1>1, <1>2, <1>3, ServiceImplementsSessions, PTL DEF SessionFacts

-----------------------------------------------------------------------------
(* The marks of the protocol differ from each other and from every field.  *)
LEMMA Marks ==
  /\ OpenCell.kind = "mark" /\ CloseCell.kind = "mark" /\ BlankCell.kind = "mark"
  /\ OpenCell # CloseCell /\ OpenCell # BlankCell /\ CloseCell # BlankCell
BY DEF OpenCell, CloseCell, BlankCell, Field

(* A frame that ends at n, whose first cell that is not blank is at o,     *)
(* begins there with "(" and an id.                                        *)
LEMMA FrameOpens ==
  ASSUME FramesWellFormed, NEW s \in Session, NEW n \in 1..Len(Script[s]),
         NEW d \in Nat, NEW o \in Nat, d < o, o <= n,
         d = 0 \/ Script[s][d] = CloseCell,
         Script[s][n] = CloseCell,
         \A c \in (d + 1)..(o - 1) : Script[s][c] = BlankCell,
         Script[s][o] # BlankCell
  PROVE  /\ d + 1 \in 1..Len(Script[s]) /\ Script[s][d + 1] \in {OpenCell, BlankCell}
         /\ o # n /\ o + 1 \in 2..Len(Script[s])
         /\ Script[s][o] = OpenCell /\ Script[s][o + 1].kind = "id"
<1> DEFINE S == Script[s]
           L == Len(S)
<1>0. L \in Nat /\ DOMAIN S = 1..L
  BY ServiceAssumption
<1> HIDE DEF S, L
<1>1. /\ d < o /\ o <= n /\ n \in 1..L /\ n \in Nat /\ L \in Nat
      /\ d = 0 \/ S[d] = CloseCell
      /\ S[n] = CloseCell
      /\ \A c \in (d + 1)..(o - 1) : S[c] = BlankCell
      /\ S[o] # BlankCell
  BY ServiceAssumption DEF S, L
<1>2. \A c \in 2..L : /\ S[c - 1] \in {CloseCell, BlankCell} => S[c] \in {OpenCell, BlankCell}
                      /\ S[c - 1] = OpenCell => S[c].kind = "id"
  <2>1. \A c \in 2..L : c \in DOMAIN S /\ c # 1
    BY <1>0
  <2> QED  BY <2>1 DEF FramesWellFormed, S
<1>3. S[d + 1] \in {OpenCell, BlankCell} /\ d + 1 \in 1..L
  <2>1. d + 1 \in 1..L
    BY <1>1
  <2>2. CASE d = 0
    <3>1. 1 \in DOMAIN S
      BY <1>0, <2>1, <2>2
    <3>2. S[1] \in {OpenCell, BlankCell}
      BY <3>1 DEF FramesWellFormed, S
    <3> QED  BY <2>1, <2>2, <3>2
  <2>3. CASE d # 0
    <3>1. d + 1 \in 2..L /\ (d + 1) - 1 = d
      BY <2>1, <2>3
    <3> QED  BY <1>1, <1>2, <2>1, <2>3, <3>1
  <2> QED  BY <2>2, <2>3
<1>4. S[o] = OpenCell
  <2>1. CASE o = d + 1
    BY <1>1, <1>3, <2>1
  <2>2. CASE o # d + 1
    <3>1. o - 1 \in (d + 1)..(o - 1) /\ o \in 2..L
      BY <1>1, <2>2
    <3> QED  BY <1>1, <1>2, <3>1
  <2> QED  BY <2>1, <2>2
<1>5. o # n /\ o + 1 \in 2..L /\ S[o + 1].kind = "id"
  <2>1. o # n
    BY <1>1, <1>4, Marks
  <2>2. o + 1 \in 2..L /\ (o + 1) - 1 = o
    BY <1>1, <2>1
  <2> QED  BY <1>2, <1>4, <2>1, <2>2
<1> QED  BY <1>0, <1>3, <1>4, <1>5 DEF S, L

(* A string given to process, of which the device sent the frame that ends *)
(* at n: its command is a cell and, if it is one, the one that was sent.   *)
(* If a field that is looked at follows, id, command and field are those   *)
(* the device sent, and in what it sent numbers follow their mark.         *)
LEMMA FrameText ==
  ASSUME FramesWellFormed, NEW s \in Session, NEW q \in Seq(1..Len(Script[s])),
         q # <<>>, Sessions!BeginsLikeSent(s, q)
  PROVE  LET n == LastCell(q)
             f == Text(s, q)
             g == SentText(s, n)
         IN  /\ n \in Ends(s)
             /\ f[3] \in Cells /\ g[2] \in Cells /\ g[2].kind = "id"
             /\ f[3].kind = "command" => f[4] \in Cells /\ g[3] = f[3]
             /\ f[3].kind = "command" /\ f[4].kind \in {"device", "available"} =>
                  /\ f[2] \in Cells /\ f[2].kind = "id" /\ f[5] \in Cells
                  /\ g[2] = f[2] /\ g[3] = f[3] /\ g[4] = f[4]
                  /\ f[4] = Field("available", "A") => g[5].kind = "numbers"
<1> DEFINE n == LastCell(q)
           f == Text(s, q)
           g == SentText(s, n)
           S == Script[s]
           L == Len(S)
           K == Len(q)
<1>0. /\ S \in Seq(Cells) /\ L \in Nat /\ DOMAIN S = 1..L
      /\ K \in Nat /\ K \in 1..K /\ K >= 1 /\ DOMAIN q = 1..K
  BY ServiceAssumption, EmptySeq
<1>1. /\ \A c \in 1..L : S[c] \in Cells
      /\ \A i \in 1..K : q[i] \in 1..L /\ f[i] = S[q[i]]
  BY <1>0, ElementOfSeq DEF Text
<1>2. PICK d \in Nat, o \in Nat :
        /\ d < o /\ o <= n
        /\ d = 0 \/ S[d] = CloseCell
        /\ S[n] = CloseCell
        /\ \A c \in (d + 1)..(o - 1) : S[c] = BlankCell
        /\ S[o] # BlankCell
        /\ q[1] = o
        /\ \A i \in 2..K : q[i] = d + 1 \/ q[i] = q[i - 1] + 1
        /\ Sessions!SentFrame(s, n) = Sessions!Span(o, n)
  BY DEF Sessions!BeginsLikeSent, Sessions!LastCell, LastCell, Sessions!IsClose,
         Sessions!IsBlank
<1>3. n \in 1..L /\ q[K] = n /\ n \in Nat /\ L \in Nat
  BY <1>0, <1>1 DEF LastCell
<1> HIDE DEF n, S, f, L, K
<1>4. n \in Ends(s)
  BY <1>0, <1>2, <1>3 DEF Ends, SentTexts, S
<1>5. \A i \in 1..(n - o + 1) : g[i] = S[o + i - 1]
  <2>1. Sessions!SentFrame(s, n) = SentFrame(s, n)
    BY DEF Sessions!SentFrame, SentFrame, Sessions!Sent, Sent, Sessions!Trim, Trim,
           Sessions!IsClose, IsClose, Sessions!IsBlank, IsBlank
  <2>2. g = Text(s, SentFrame(s, n))
    BY <1>4 DEF SentText, SentTexts, Ends
  <2>3. SentFrame(s, n) = [i \in 1..(n - o + 1) |-> o + i - 1]
    BY <1>2, <2>1 DEF Sessions!Span
  <2> HIDE DEF g
  <2> QED  BY <2>2, <2>3 DEF Text, S
<1> HIDE DEF g
<1>6. /\ d + 1 \in 1..L /\ S[d + 1] \in {OpenCell, BlankCell}
      /\ o # n /\ o + 1 \in 2..L /\ S[o + 1].kind = "id"
      /\ S[o] = OpenCell
  <2>1. /\ n \in 1..Len(Script[s])
        /\ d = 0 \/ Script[s][d] = CloseCell
        /\ Script[s][n] = CloseCell
        /\ \A c \in (d + 1)..(o - 1) : Script[s][c] = BlankCell
        /\ Script[s][o] # BlankCell
    BY <1>2, <1>3 DEF S, L
  <2>2. d < o /\ o <= n
    BY <1>2
  <2>3. /\ d + 1 \in 1..Len(Script[s]) /\ Script[s][d + 1] \in {OpenCell, BlankCell}
        /\ o # n /\ o + 1 \in 2..Len(Script[s])
        /\ Script[s][o] = OpenCell /\ Script[s][o + 1].kind = "id"
    BY ZenonT(30), <2>1, <2>2, FrameOpens
  <2> QED  BY <2>3 DEF S, L
<1>7. \A c \in 2..L : /\ S[c - 1] \in {CloseCell, BlankCell} => S[c] \in {OpenCell, BlankCell}
                      /\ S[c - 1] = OpenCell => S[c].kind = "id"
  <2>1. \A c \in 2..L : c \in DOMAIN S /\ c # 1
    BY <1>0
  <2> QED  BY <2>1 DEF FramesWellFormed, S
<1>8. K >= 2 /\ (q[2] = d + 1 \/ q[2] = o + 1)
  <2>1. K # 1
    BY <1>2, <1>3, <1>6
  <2>2. K >= 2 /\ 2 \in 2..K
    BY <1>0, <2>1
  <2>3. q[2] = d + 1 \/ q[2] = q[2 - 1] + 1
    BY <1>2, <2>2
  <2> QED  BY <1>2, <2>2, <2>3
<1>9. K >= 3 /\ (q[3] = d + 1 \/ q[3] = q[2] + 1)
  <2>1. S[q[2]] # CloseCell
    BY <1>6, <1>6, <1>8, Marks
  <2>2. K # 2
    BY <1>2, <1>3, <2>1
  <2>3. K >= 3 /\ 3 \in 2..K
    BY <1>0, <1>8, <2>2
  <2>4. q[3] = d + 1 \/ q[3] = q[3 - 1] + 1
    BY <1>2, <2>3
  <2> QED  BY <2>3, <2>4
<1>10. f[3] \in Cells /\ f[3] = S[q[3]] /\ f[2] \in Cells /\ f[2] = S[q[2]]
  <2>1. 2 \in 1..K /\ 3 \in 1..K
    BY <1>0, <1>9
  <2> QED  BY <1>1, <2>1
<1>11. ASSUME f[3].kind = "command"
       PROVE  q[2] = o + 1 /\ q[3] = o + 2
  <2>1. q[3] # d + 1
    BY <1>6, <1>10, <1>11, Marks
  <2>2. q[2] # d + 1
    <3>1. SUFFICES ASSUME q[2] = d + 1 PROVE FALSE
      OBVIOUS
    <3>2. q[3] = d + 2
      BY <1>9, <2>1, <3>1
    <3>3. d + 2 \in 2..L /\ (d + 2) - 1 = d + 1
      <4>1. 3 \in 1..K
        BY <1>0, <1>9
      <4>2. q[3] \in 1..L
        BY <1>1, <4>1
      <4> QED  BY <3>2, <4>2
    <3>4. S[d + 2] \in {OpenCell, BlankCell} \/ S[d + 2].kind = "id"
      BY <1>7, <1>6, <3>3
    <3> QED  BY <1>10, <1>11, <3>2, <3>4, Marks
  <2> QED  BY <1>8, <1>9, <2>1, <2>2
<1>12. ASSUME f[3].kind = "command"
       PROVE  K >= 4 /\ (q[4] = d + 1 \/ q[4] = o + 3) /\ f[4] \in Cells /\ f[4] = S[q[4]]
  <2>1. S[q[3]] # CloseCell
    BY <1>10, <1>12, Marks
  <2>2. K # 3
    BY <1>2, <1>3, <2>1
  <2>3. K >= 4 /\ 4 \in 2..K /\ 4 \in 1..K
    BY <1>0, <1>9, <2>2
  <2>4. q[4] = d + 1 \/ q[4] = q[4 - 1] + 1
    BY <1>2, <2>3
  <2> QED  BY <1>1, <1>11, <1>12, <2>3, <2>4
<1>13. ASSUME f[3].kind = "command", f[4].kind \in {"device", "available"}
       PROVE  /\ f[2].kind = "id" /\ f[5] \in Cells
              /\ g[2] = f[2] /\ g[3] = f[3] /\ g[4] = f[4]
              /\ f[4] = Field("available", "A") => g[5].kind = "numbers"
  <2>1. q[2] = o + 1 /\ q[3] = o + 2 /\ q[4] = o + 3
    BY <1>6, <1>11, <1>12, <1>13, Marks
  <2>2. n # o + 1 /\ n # o + 2 /\ n # o + 3
    BY <1>2, <1>6, <1>10, <1>12, <1>13, <2>1, Marks
  <2>3. 2 \in 1..(n - o + 1) /\ 3 \in 1..(n - o + 1) /\ 4 \in 1..(n - o + 1)
    <3>1. o <= n /\ o # n /\ n \in Nat
      BY <1>2, <1>3, <1>6
    <3> QED  BY <2>2, <3>1
  <2>4. g[2] = S[o + 2 - 1] /\ g[3] = S[o + 3 - 1] /\ g[4] = S[o + 4 - 1]
    BY <1>5, <2>3
  <2>5. o + 2 - 1 = o + 1 /\ o + 3 - 1 = o + 2 /\ o + 4 - 1 = o + 3
    OBVIOUS
  <2>6. n >= o + 4
    <3>1. n \in Nat /\ o <= n
      BY <1>2, <1>3
    <3> QED  BY ONLY <1>6, <2>2, <3>1, o \in Nat
  <2>7. f[4] = Field("available", "A") => g[5].kind = "numbers"
    <3>1. 5 \in 1..(n - o + 1) /\ o + 5 - 1 = o + 4
      BY ONLY <1>3, <2>6, o \in Nat
    <3>2. g[5] = S[o + 4]
      BY <1>5, <3>1
    <3>3. o + 4 \in 1..L /\ o + 4 # 1 /\ (o + 4) - 1 = o + 3
      BY ONLY <1>3, <2>6, o \in Nat
    <3>4. S[o + 3] = Field("available", "A") => S[o + 4].kind = "numbers"
      BY <1>0, <3>3 DEF FramesWellFormed, S
    <3> QED  BY <1>12, <1>13, <2>1, <3>2, <3>4
  <2>8. f[5] \in Cells
    <3>1. K # 4
      BY <1>3, <2>1, <2>2
    <3>2. 5 \in 1..K
      BY ONLY <1>0, <1>12, <1>13, <3>1
    <3> QED  BY <1>1, <3>2
  <2> QED  BY <1>6, <1>10, <1>12, <1>13, <2>1, <2>4, <2>5, <2>7, <2>8
<1>14. g[2] \in Cells /\ g[2].kind = "id"
  <2>1. 2 \in 1..(n - o + 1) /\ o + 2 - 1 = o + 1 /\ o + 1 \in 1..L
    BY ONLY <1>2, <1>3, <1>6, o \in Nat
  <2> QED  BY <1>1, <1>5, <1>6, <2>1
<1>15. ASSUME f[3].kind = "command"
       PROVE  g[3] = f[3]
  <2>1. q[2] = o + 1 /\ q[3] = o + 2
    BY <1>11, <1>15
  <2>2. n # o + 1 /\ n # o + 2
    BY <1>2, <1>6, <1>10, <1>15, <2>1, Marks
  <2>3. 3 \in 1..(n - o + 1) /\ o + 3 - 1 = o + 2
    <3>1. o <= n /\ o # n /\ n \in Nat
      BY <1>2, <1>3, <1>6
    <3> QED  BY ONLY <2>2, <3>1, o \in Nat
  <2>4. g[3] = S[o + 3 - 1]
    BY <1>5, <2>3
  <2> QED  BY <1>10, <2>1, <2>3, <2>4
<1> QED  BY <1>4, <1>10, <1>12, <1>13, <1>14, <1>15 DEF n, f, g
-----------------------------------------------------------------------------
(* A handler that meets a ')' has such a string in hand, and it ends       *)
(* behind every frame handled before.                                      *)
LEMMA NextText ==
  ASSUME SessionFacts, NEW s \in Session, FrameAhead(s)
  PROVE  LET q == NextFrame(s)
         IN  /\ q \in Seq(1..Len(Script[s]))
             /\ q # <<>>
             /\ LastCell(q) \in 1..pos[s]
             /\ \A m : IsHandled(s, m) => m < LastCell(q)
             /\ Sessions!BeginsLikeSent(s, q)
<1> DEFINE q == NextFrame(s)
<1>0. /\ pos[s] \in Nat /\ Len(Script[s]) \in Nat /\ pos[s] <= Len(Script[s])
      /\ handled[s] \in Seq(Seq(1..pos[s])) /\ Len(handled[s]) \in Nat
      /\ DOMAIN handled[s] = 1..Len(handled[s])
  BY ServiceAssumption DEF SessionFacts, SessionTypeOK
<1>1. Sessions!FrameComing(s)
  BY DEF FrameAhead, Sessions!FrameComing, FirstCloseAt, Sessions!FirstCloseAt,
         IsClose, Sessions!IsClose
<1>2. /\ q \in Seq(1..pos[s]) /\ q # <<>>
      /\ Sessions!Done(s) < LastCell(q)
      /\ Sessions!BeginsLikeSent(s, q)
  BY <1>1, SameNextFrame DEF SessionFacts, Sessions!NextFrameBegins, LastCell,
     Sessions!LastCell
<1> HIDE DEF q
<1>3. q \in Seq(1..Len(Script[s])) /\ LastCell(q) \in 1..pos[s]
  <2>1. 1..pos[s] \subseteq 1..Len(Script[s])
    BY <1>0
  <2>2. q \in Seq(1..Len(Script[s]))
    BY <1>2, <2>1, SeqMonotonic
  <2>3. Len(q) \in 1..Len(q)
    BY <1>2, EmptySeq
  <2>4. q[Len(q)] \in 1..pos[s]
    BY <1>2, <2>3, ElementOfSeq
  <2> QED  BY <2>2, <2>4 DEF LastCell
<1>4. ASSUME NEW m, IsHandled(s, m)
      PROVE  m < LastCell(q)
  <2>1. PICK i \in 1..Len(handled[s]) : EndOf(s, i) = m
    BY <1>4 DEF IsHandled
  <2>2. PICK l \in 1..Len(handled[s]) : l = Len(handled[s])
    BY <1>0, <2>1
  <2>3. EndOf(s, i) \in 1..pos[s] /\ EndOf(s, l) \in 1..pos[s]
    <3>1. \A j \in 1..Len(handled[s]) :
            handled[s][j] \in Seq(1..pos[s]) /\ handled[s][j] # <<>>
      BY <1>0, ElementOfSeq DEF SessionFacts, FramesInOrder
    <3>2. \A j \in 1..Len(handled[s]) : Len(handled[s][j]) \in 1..Len(handled[s][j])
      BY <3>1, EmptySeq
    <3>3. \A j \in 1..Len(handled[s]) : EndOf(s, j) \in 1..pos[s]
      BY <3>1, <3>2, ElementOfSeq DEF EndOf, LastCell
    <3> QED  BY <3>3
  <2>4. i = l \/ EndOf(s, i) < EndOf(s, l)
    BY <1>0, <2>2 DEF SessionFacts, FramesInOrder
  <2>5. Sessions!Done(s) = EndOf(s, l)
    BY <1>0, <2>2 DEF Sessions!Done, Sessions!EndOf, Sessions!LastCell, EndOf, LastCell
  <2> QED  BY <1>0, <1>2, <1>3, <2>1, <2>3, <2>4, <2>5
<1> QED  BY <1>2, <1>3, <1>4 DEF q

(* What a step that handles a frame does to the connections.               *)
LEMMA HandleFrameStep ==
  ASSUME SessionFacts, NEW s \in Session, HandleFrame(s)
  PROVE  LET q == NextFrame(s)
             f == Text(s, q)
         IN  /\ FrameAhead(s)
             /\ \E answer \in Answers : Process(f, answer) /\ AsyncWrite(s, answer)
             /\ UNCHANGED <<conn, pos>> /\ asking' = FALSE
             /\ \A n : IsHandled(s, n)' <=> (IsHandled(s, n) \/ n = LastCell(q))
             /\ \A t \in Session : t # s =>
                  \A n : IsHandled(t, n)' <=> IsHandled(t, n)
<1> DEFINE q == NextFrame(s)
<1>1. PICK answer \in Answers : /\ Process(Text(s, q), answer)
                                /\ TakeFrame(s, q, answer)
  BY DEF HandleFrame
<1>2. FrameAhead(s) /\ asking' = FALSE
  BY DEF HandleFrame
<1> HIDE DEF q
<1>3. /\ handled' = [handled EXCEPT ![s] = Append(handled[s], q)]
      /\ AsyncWrite(s, answer) /\ UNCHANGED <<conn, pos>>
  BY <1>1 DEF TakeFrame
<1>4. handled \in [Session -> Seq(Seq(Nat))]
  BY DEF SessionFacts, SessionTypeOK
<1>5. PICK l \in Nat : l = Len(handled[s])
  BY <1>4
<1>6. /\ Len(handled'[s]) = l + 1
      /\ handled'[s][l + 1] = q
      /\ \A i \in 1..l : handled'[s][i] = handled[s][i]
      /\ \A t \in Session : t # s => handled'[t] = handled[t]
  BY <1>3, <1>4, <1>5
<1>7. ASSUME NEW n
      PROVE  IsHandled(s, n)' <=> (IsHandled(s, n) \/ n = LastCell(q))
  <2>1. ASSUME NEW i \in 1..(l + 1)
        PROVE  i \in 1..l \/ i = l + 1
    BY <1>5
  <2>2. \A i \in 1..l : i \in 1..(l + 1)
    BY <1>5
  <2>3. l + 1 \in 1..(l + 1)
    BY <1>5
  <2> QED  BY <1>5, <1>6, <2>1, <2>2, <2>3 DEF IsHandled, EndOf
<1>8. ASSUME NEW t \in Session, t # s, NEW n
      PROVE  IsHandled(t, n)' <=> IsHandled(t, n)
  BY <1>6, <1>8 DEF IsHandled, EndOf
<1> QED  BY <1>1, <1>2, <1>3, <1>7, <1>8 DEF q

(* The other steps handle no frame, and what they read only adds.          *)
LEMMA OtherSteps ==
  ASSUME SessionFacts, NEW s \in Session,
         Read(s) \/ Ask(s) \/ Terminate(s) \/ SessionStep(s)
  PROVE  /\ \A t \in Session : pos[t] \in Nat /\ pos'[t] \in Nat /\ pos[t] <= pos'[t]
         /\ UNCHANGED handled
         /\ UNCHANGED <<deviceId, published>>
<1>0. pos \in [Session -> Nat]
  BY DEF SessionFacts, SessionTypeOK
<1>1. CASE Read(s)
  <2>1. PICK n \in 1..(Len(Script[s]) - pos[s]) : ReadSome(s, n)
    BY <1>1 DEF Read
  <2>2. /\ pos' = [pos EXCEPT ![s] = pos[s] + n] /\ UNCHANGED handled
        /\ n \in Nat
    BY <2>1, <1>0, ServiceAssumption DEF ReadSome
  <2> QED  BY <1>0, <1>1, <2>2 DEF Read, pluginVars
<1>2. CASE Ask(s)
  BY <1>0, <1>2 DEF Ask, serverVars, pluginVars
<1>3. CASE Terminate(s)
  BY <1>0, <1>3 DEF Terminate, serverVars, ProcessThrows
<1>4. CASE SessionStep(s)
  <2>1. UNCHANGED <<pos, handled>>
    BY <1>4 DEF SessionStep, Accept, HangUp, ReadError, FinishRead, Overrun, WriteDone
  <2> QED  BY <1>0, <1>4, <2>1 DEF SessionStep, pluginVars
<1> QED  BY <1>1, <1>2, <1>3, <1>4

-----------------------------------------------------------------------------
(* The database says "yes" only for an id that is a registered device's.   *)
LEMMA LookupSound ==
  ASSUME NEW dev, NEW known \in LookupResults(dev), known
  PROVE  dev.kind = "device" /\ dev.val \in Registered
BY DEF LookupResults

(* What process can do with a frame.                                       *)
LEMMA ProcessOutcome ==
  ASSUME NEW f, NEW answer, Process(f, answer)
  PROVE  /\ table' = table \cup {f[3]} /\ fault' = fault
         /\ \/ answer \in {NoAnswer, Refusal}
            \/ /\ f[3].kind = "command" /\ f[4].kind = "device"
               /\ FromRegistered(f)
               /\ HasCommand(f, LookupCommands)
               /\ answer = Promised(f)
         /\ \/ deviceId' = deviceId
            \/ /\ IsLogin(f) /\ f[4].kind = "device" /\ FromRegistered(f)
               /\ deviceId' = DeviceOf(f).val
         /\ \/ published' = published
            \/ /\ HasCommand(f, FeedbackCommands) /\ AvailableOf(f)
               /\ published' = Append(published, Fix(f))
<1>1. table' = table \cup {f[3]} /\ fault' = fault
  BY DEF Process, ParseDeviceRequest, CommandOf
<1>2. CASE DeviceHandshake(f, answer)
  <2>1. PICK known \in LookupResults(f[4]) :
          answer = IF known THEN Answer(IdOf(f), "AP01") ELSE NoAnswer
    BY <1>2 DEF DeviceHandshake, DeviceOf
  <2>2. /\ f[3].kind = "command" /\ f[3].val = "BP00" /\ UNCHANGED <<deviceId, published>>
    BY <1>2 DEF DeviceHandshake, HasCommand, CommandOf
  <2>3. CASE known
    <3>1. f[4].kind = "device" /\ FromRegistered(f)
      BY <2>3, LookupSound DEF FromRegistered, DeviceOf
    <3>2. Promised(f) = Answer(IdOf(f), "AP01")
      BY <2>2, <3>1 DEF Promised, IsLogin, HasCommand, CommandOf
    <3> QED  BY <1>1, <2>1, <2>2, <2>3, <3>1, <3>2
             DEF HasCommand, CommandOf, LookupCommands
  <2>4. CASE ~known
    BY <1>1, <2>1, <2>2, <2>4
  <2> QED  BY <2>3, <2>4
<1>3. CASE DeviceLogin(f, answer)
  <2>1. PICK known \in LookupResults(f[4]) :
          /\ answer = IF known THEN Answer(IdOf(f), "AP05") ELSE Refusal
          /\ deviceId' = IF known THEN DeviceOf(f).val ELSE deviceId
    BY <1>3 DEF DeviceLogin, DeviceOf
  <2>2. /\ f[3].kind = "command" /\ f[3].val = "BP05" /\ UNCHANGED published
        /\ IsLogin(f)
    BY <1>3 DEF DeviceLogin, HasCommand, CommandOf, IsLogin
  <2>3. CASE known
    <3>1. f[4].kind = "device" /\ FromRegistered(f)
      BY <2>3, LookupSound DEF FromRegistered, DeviceOf
    <3>2. Promised(f) = Answer(IdOf(f), "AP05")
      BY <2>2, <3>1 DEF Promised, HasCommand, CommandOf
    <3> QED  BY <1>1, <2>1, <2>2, <2>3, <3>1, <3>2
             DEF HasCommand, CommandOf, LookupCommands
  <2>4. CASE ~known
    BY <1>1, <2>1, <2>2, <2>4
  <2> QED  BY <2>3, <2>4
<1>4. CASE DeviceFeedback(f, answer)
  BY <1>1, <1>4 DEF DeviceFeedback
<1>5. CASE OtherCommand(f, answer)
  BY <1>1, <1>5 DEF OtherCommand
<1> QED  BY <1>2, <1>3, <1>4, <1>5 DEF Process
-----------------------------------------------------------------------------
(* More has been read, and what was handled stays handled.                 *)
GoesOn ==
  /\ \A s \in Session : pos[s] \in Nat /\ pos'[s] \in Nat /\ pos[s] <= pos'[s]
  /\ \A s \in Session : \A n : IsHandled(s, n) => IsHandled(s, n)'

(* No step takes back what was read or handled.                            *)
LEMMA StepGoesOn ==
  ASSUME SessionFacts, [Next]_vars
  PROVE  GoesOn
<1>0. \A s \in Session : pos[s] \in Nat /\ pos[s] <= pos[s]
  BY DEF SessionFacts, SessionTypeOK
<1>1. ASSUME NEW s \in Session, HandleFrame(s)
      PROVE  GoesOn
  BY <1>0, <1>1, HandleFrameStep DEF GoesOn
<1>2. ASSUME NEW s \in Session, Read(s) \/ Ask(s) \/ Terminate(s) \/ SessionStep(s)
      PROVE  GoesOn
  BY <1>2, OtherSteps DEF GoesOn, IsHandled, EndOf
<1>3. CASE UNCHANGED vars
  BY <1>0, <1>3 DEF GoesOn, IsHandled, EndOf, vars, serverVars
<1> QED  BY <1>1, <1>2, <1>3 DEF Next

(* The device d, registered, has logged in on some connection.             *)
LoggedIn(d) ==
  /\ d \in Registered
  /\ \E s \in Session : \E n \in Ends(s) :
       /\ IsHandled(s, n)
       /\ IsLogin(SentText(s, n))
       /\ DeviceOf(SentText(s, n)).val = d

IdVerified == deviceId = DefaultId \/ (LoggedIn(deviceId) /\ LoggedInBefore)

(* The frame that is handled, as the device sent it: its login, handshake  *)
(* or fix is one that ends where this frame does.                          *)
LEMMA FrameHandled ==
  ASSUME FramesWellFormed, SessionFacts, NEW s \in Session, FrameAhead(s)
  PROVE  LET n == LastCell(NextFrame(s))
             f == Text(s, NextFrame(s))
             g == SentText(s, n)
         IN  /\ n \in Ends(s) /\ n \in 1..pos[s]
             /\ f[3] \in Cells /\ g[2] \in Cells /\ g[2].kind = "id"
             /\ f[3].kind = "command" => f[4] \in Cells /\ g[3] = f[3]
             /\ f[3].kind = "command" /\ f[4].kind \in {"device", "available"} =>
                  /\ f[2] \in Cells /\ f[2].kind = "id" /\ f[5] \in Cells
                  /\ g[2] = f[2] /\ g[3] = f[3] /\ g[4] = f[4]
                  /\ f[4] = Field("available", "A") => g[5].kind = "numbers"
             /\ FromRegistered(g) <=> g[4].kind = "device" /\ g[4].val \in Registered
<1> DEFINE q == NextFrame(s)
<1>1. /\ q \in Seq(1..Len(Script[s])) /\ q # <<>> /\ LastCell(q) \in 1..pos[s]
      /\ Sessions!BeginsLikeSent(s, q)
  BY NextText
<1> HIDE DEF q
<1>2. LET n == LastCell(q)
          f == Text(s, q)
          g == SentText(s, n)
      IN  /\ n \in Ends(s)
          /\ f[3] \in Cells /\ g[2] \in Cells /\ g[2].kind = "id"
          /\ f[3].kind = "command" => f[4] \in Cells /\ g[3] = f[3]
          /\ f[3].kind = "command" /\ f[4].kind \in {"device", "available"} =>
               /\ f[2] \in Cells /\ f[2].kind = "id" /\ f[5] \in Cells
               /\ g[2] = f[2] /\ g[3] = f[3] /\ g[4] = f[4]
               /\ f[4] = Field("available", "A") => g[5].kind = "numbers"
  BY <1>1, FrameText
<1> QED  BY <1>1, <1>2 DEF q, FromRegistered, DeviceOf

(* Once a device has logged in, it stays so that one did.                  *)
LEMMA StaysLoggedInBefore ==
  ASSUME GoesOn, LoggedInBefore
  PROVE  LoggedInBefore'
<1>1. PICK s \in Session : \E n \in Ends(s) :
        /\ IsHandled(s, n)
        /\ IsLogin(SentText(s, n))
        /\ FromRegistered(SentText(s, n))
  BY DEF LoggedInBefore
<1>2. \A n : IsHandled(s, n) => IsHandled(s, n)'
  BY DEF GoesOn
<1> QED  BY <1>1, <1>2 DEF LoggedInBefore

(* A device that logged in stays so.                                       *)
LEMMA StaysLoggedIn ==
  ASSUME GoesOn, NEW d, LoggedIn(d)
  PROVE  LoggedIn(d)'
<1>1. PICK s \in Session : \E n \in Ends(s) :
        /\ d \in Registered
        /\ IsHandled(s, n)
        /\ IsLogin(SentText(s, n))
        /\ DeviceOf(SentText(s, n)).val = d
  BY DEF LoggedIn
<1>2. \A n : IsHandled(s, n) => IsHandled(s, n)'
  BY DEF GoesOn
<1> QED  BY <1>1, <1>2 DEF LoggedIn

(* deviceId is verified, and so is what is published under it.             *)
LEMMA IdVerifiedStep ==
  ASSUME FramesWellFormed, SessionFacts, IdVerified, [Next]_vars
  PROVE  IdVerified'
<1>0. GoesOn
  BY StepGoesOn
<1>1. ASSUME deviceId' = deviceId
      PROVE  IdVerified'
  BY <1>0, <1>1, StaysLoggedIn, StaysLoggedInBefore DEF IdVerified
<1>2. ASSUME NEW s \in Session, HandleFrame(s)
      PROVE  IdVerified'
  <2>0. PICK n, f : n = LastCell(NextFrame(s)) /\ f = Text(s, NextFrame(s))
    OBVIOUS
  <2> DEFINE g == SentText(s, n)
  <2>1. FrameAhead(s) /\ IsHandled(s, n)' /\ \E answer : Process(f, answer)
    BY <1>2, <2>0, HandleFrameStep
  <2>2. \/ deviceId' = deviceId
        \/ /\ IsLogin(f) /\ f[4].kind = "device" /\ FromRegistered(f)
           /\ deviceId' = DeviceOf(f).val
    BY <2>1, ProcessOutcome
  <2>3. /\ n \in Ends(s)
        /\ f[3].kind = "command" /\ f[4].kind = "device" =>
             g[3] = f[3] /\ g[4] = f[4]
    BY <2>0, <2>1, FrameHandled
  <2> HIDE DEF g
  <2>4. CASE deviceId' # deviceId
    <3>1. /\ IsLogin(g) /\ DeviceOf(g).val = deviceId' /\ deviceId' \in Registered
          /\ FromRegistered(g)
      BY <2>2, <2>3, <2>4 DEF IsLogin, HasCommand, CommandOf, DeviceOf, FromRegistered
    <3> QED  BY <2>1, <2>3, <3>1 DEF IdVerified, LoggedIn, LoggedInBefore, g
  <2> QED  BY <1>1, <2>4
<1>3. ASSUME NEW s \in Session, Read(s) \/ Ask(s) \/ Terminate(s) \/ SessionStep(s)
      PROVE  IdVerified'
  BY <1>1, <1>3, OtherSteps
<1>4. CASE UNCHANGED vars
  BY <1>1, <1>4 DEF vars, pluginVars
<1> QED  BY <1>2, <1>3, <1>4 DEF Next

-----------------------------------------------------------------------------
(* The shape of what the plugin keeps.                                     *)
Feedbacks ==
  [device : Registered \cup {DefaultId}, msg : MessageId, numbers : Cells]

PluginTypeOK ==
  /\ deviceId \in Registered \cup {DefaultId}
  /\ table \subseteq Cells
  /\ published \in Seq(Feedbacks)
  /\ fault \in {"none", "http", "stod", "strcpy_s"}
  /\ asking \in BOOLEAN

(* The id of a frame is the id of a message.                               *)
LEMMA IdCell ==
  ASSUME NEW c \in Cells, c.kind = "id"
  PROVE  c.val \in MessageId
<1>1. c \notin {OpenCell, CloseCell, BlankCell}
  BY Marks
<1> QED  BY <1>1 DEF Cells

(* A feedback is published in the step that handles its frame.             *)
LEMMA PublishStep ==
  ASSUME FramesWellFormed, SessionFacts, NEW s \in Session, HandleFrame(s)
  PROVE  LET n == LastCell(NextFrame(s))
             f == Text(s, NextFrame(s))
         IN  \/ published' = published
             \/ /\ n \in Fixes(s)
                /\ IdOf(SentText(s, n)) \in MessageId /\ f[5] \in Cells
                /\ published' = Append(published, [device |-> deviceId,
                                                   msg |-> IdOf(SentText(s, n)),
                                                   numbers |-> f[5]])
<1> DEFINE n == LastCell(NextFrame(s))
           f == Text(s, NextFrame(s))
           g == SentText(s, n)
<1>1. FrameAhead(s) /\ \E answer : Process(f, answer)
  BY HandleFrameStep
<1>2. \/ published' = published
      \/ /\ HasCommand(f, FeedbackCommands) /\ AvailableOf(f)
         /\ published' = Append(published, [device |-> deviceId, msg |-> IdOf(f),
                                            numbers |-> f[5]])
  BY <1>1, ProcessOutcome DEF Fix
<1>3. /\ n \in Ends(s)
      /\ f[3].kind = "command" /\ f[4].kind = "available" =>
           /\ f[2] \in Cells /\ f[2].kind = "id" /\ f[5] \in Cells
           /\ g[2] = f[2] /\ g[3] = f[3] /\ g[4] = f[4]
  BY <1>1, FrameHandled
<1> HIDE DEF n, f, g
<1>4. CASE published' # published
  <2>1. f[3].kind = "command" /\ f[4].kind = "available"
    BY <1>2, <1>4 DEF HasCommand, CommandOf, AvailableOf, Field
  <2>2. HasCommand(g, FeedbackCommands) /\ AvailableOf(g) /\ IdOf(g) = IdOf(f)
        /\ IdOf(g) \in MessageId
    BY <1>2, <1>3, <1>4, <2>1, IdCell DEF HasCommand, CommandOf, AvailableOf, IdOf
  <2> QED  BY <1>2, <1>3, <1>4, <2>1, <2>2 DEF Fixes, n, f, g
<1> QED  BY <1>4 DEF n, f

(* The plugin's state keeps its shape.                                     *)
LEMMA PluginTypeStep ==
  ASSUME FramesWellFormed, SessionFacts, PluginTypeOK, [Next]_vars
  PROVE  PluginTypeOK'
<1> USE DEF PluginTypeOK
<1>1. ASSUME NEW s \in Session, HandleFrame(s)
      PROVE  PluginTypeOK'
  <2> DEFINE f == Text(s, NextFrame(s))
             n == LastCell(NextFrame(s))
  <2>1. /\ FrameAhead(s) /\ asking' = FALSE
        /\ \E answer : Process(f, answer)
    BY <1>1, HandleFrameStep
  <2>2. /\ table' = table \cup {f[3]} /\ fault' = fault
        /\ deviceId' \in Registered \cup {DefaultId}
    BY <2>1, ProcessOutcome DEF FromRegistered
  <2>3. f[3] \in Cells
    BY <2>1, FrameHandled
  <2>4. published' \in Seq(Feedbacks)
    <3>1. \/ published' = published
          \/ \E e \in Feedbacks : published' = Append(published, e)
      <4>1. \A id \in MessageId : \A c \in Cells :
              [device |-> deviceId, msg |-> id, numbers |-> c] \in Feedbacks
        BY DEF Feedbacks
      <4> QED  BY <1>1, <4>1, PublishStep
    <3>2. published \in Seq(Feedbacks)
      OBVIOUS
    <3> QED  BY <3>1, <3>2
  <2> QED  BY <2>1, <2>2, <2>3, <2>4
<1>2. ASSUME NEW s \in Session, Terminate(s)
      PROVE  PluginTypeOK'
  <2> DEFINE f == Text(s, NextFrame(s))
  <2>1. FrameAhead(s) /\ ProcessThrows(f) /\ asking' = asking
    BY <1>2 DEF Terminate
  <2>2. f[3] \in Cells
    BY <2>1, FrameHandled
  <2>3. table' = table \cup {f[3]} /\ fault' \in {"http", "stod", "strcpy_s"}
        /\ deviceId' = deviceId /\ published' = published
    BY <2>1 DEF ProcessThrows, FaultsOf, ParseDeviceRequest, CommandOf
  <2> QED  BY <2>1, <2>2, <2>3
<1>3. ASSUME NEW s \in Session, Read(s) \/ Ask(s) \/ SessionStep(s)
      PROVE  PluginTypeOK'
  BY <1>3 DEF Read, Ask, SessionStep, pluginVars
<1>4. CASE UNCHANGED vars
  BY <1>4 DEF vars, pluginVars
<1> QED  BY <1>1, <1>2, <1>3, <1>4 DEF Next

(* The plugin starts with its own commands in the table.                   *)
LEMMA PluginInitOK == Init => PluginTypeOK /\ published = <<>> /\ IdVerified
<1> SUFFICES ASSUME Init PROVE PluginTypeOK /\ published = <<>> /\ IdVerified
  OBVIOUS
<1>1. /\ deviceId = DefaultId /\ published = <<>> /\ fault = "none" /\ asking = FALSE
      /\ table = [kind : {"command"}, val : Commands]
  BY DEF Init, PluginInit
<1>2. [kind : {"command"}, val : Commands] \subseteq Cells
  BY Zenon DEF Cells
<1>3. \A R : <<>> \in Seq(R)
  OBVIOUS
<1>4. published \in Seq(Feedbacks)
  BY <1>1, <1>3
<1> QED  BY <1>1, <1>2, <1>4 DEF PluginTypeOK, IdVerified

(* What devices send being well formed, the state of the service keeps its *)
(* shape.                                                                  *)
THEOREM GeoTypeCorrect == FramesWellFormed => (Spec => []GeoTypeOK)
<1> SUFFICES ASSUME FramesWellFormed PROVE Spec => []GeoTypeOK
  OBVIOUS
<1>1. Init => PluginTypeOK
  BY PluginInitOK
<1>2. SessionFacts /\ PluginTypeOK /\ [Next]_vars => PluginTypeOK'
  BY PluginTypeStep
<1>3. SessionFacts /\ PluginTypeOK => GeoTypeOK
  BY DEF SessionFacts, PluginTypeOK, GeoTypeOK, Feedbacks
<1> QED  BY <1>1, <1>2, <1>3, SessionFactsHold, PTL DEF Spec

(* Every feedback is published under the default id or under an id that is *)
(* registered and that some connection has logged in with.                 *)
THEOREM PublishedIdVerifiedCorrect == FramesWellFormed => (Spec => []PublishedIdVerified)
<1> SUFFICES ASSUME FramesWellFormed PROVE Spec => []PublishedIdVerified
  OBVIOUS
<1>1. Init => IdVerified /\ PluginTypeOK /\ PublishedIdVerified
  BY PluginInitOK DEF PublishedIdVerified
<1>2. ASSUME SessionFacts, PluginTypeOK, IdVerified, PublishedIdVerified, [Next]_vars
      PROVE  PublishedIdVerified'
  <2>0. GoesOn /\ published \in Seq(Feedbacks)
    BY <1>2, StepGoesOn DEF PluginTypeOK
  <2>1. \A i \in DOMAIN published :
          published[i].device = DefaultId \/ LoggedIn(published[i].device)
    BY <1>2 DEF PublishedIdVerified, LoggedIn
  <2>2. ASSUME NEW i \in DOMAIN published', NEW d, d = published'[i].device,
               d = DefaultId \/ LoggedIn(d)
        PROVE  \/ published'[i].device = DefaultId
               \/ /\ published'[i].device \in Registered
                  /\ \E s \in Session : \E n \in Ends(s) :
                       /\ IsHandled(s, n)'
                       /\ IsLogin(SentText(s, n))
                       /\ DeviceOf(SentText(s, n)).val = published'[i].device
    BY <2>0, <2>2, StaysLoggedIn DEF LoggedIn
  <2>3. ASSUME \/ published' = published
               \/ \E e : published' = Append(published, e) /\ e.device = deviceId
        PROVE  PublishedIdVerified'
    <3>1. ASSUME NEW i \in DOMAIN published'
          PROVE  \/ published'[i].device = DefaultId
                 \/ LoggedIn(published'[i].device)
      <4>1. CASE published' = published
        BY <2>1, <3>1, <4>1
      <4>2. ASSUME NEW e, published' = Append(published, e), e.device = deviceId
            PROVE  \/ published'[i].device = DefaultId
                   \/ LoggedIn(published'[i].device)
        <5>1. PICK l \in Nat : l = Len(published)
          BY <2>0
        <5>2. /\ DOMAIN published' = 1..(l + 1) /\ DOMAIN published = 1..l
              /\ \A j \in 1..l : published'[j] = published[j]
              /\ published'[l + 1] = e
          BY <2>0, <4>2, <5>1
        <5>3. CASE i \in 1..l
          BY <2>1, <5>2, <5>3
        <5>4. CASE i = l + 1
          BY <1>2, <4>2, <5>2, <5>4 DEF IdVerified
        <5> QED  BY <3>1, <5>2, <5>3, <5>4
      <4> QED  BY <2>3, <4>1, <4>2
    <3> QED  BY <2>2, <3>1 DEF PublishedIdVerified
  <2>4. ASSUME NEW s \in Session, HandleFrame(s)
        PROVE  PublishedIdVerified'
    <3>1. \/ published' = published
          \/ \E id, c : published' = Append(published, [device |-> deviceId, msg |-> id,
                                                        numbers |-> c])
      BY <1>2, <2>4, PublishStep
    <3>2. \A id, c : [device |-> deviceId, msg |-> id, numbers |-> c].device = deviceId
      OBVIOUS
    <3> QED  BY <2>3, <3>1, <3>2
  <2>5. ASSUME NEW s \in Session, Read(s) \/ Ask(s) \/ Terminate(s) \/ SessionStep(s)
        PROVE  PublishedIdVerified'
    BY <1>2, <2>3, <2>5, OtherSteps
  <2>6. CASE UNCHANGED vars
    BY <2>3, <2>6 DEF vars, pluginVars
  <2> QED  BY <1>2, <2>4, <2>5, <2>6 DEF Next
<1>3. SessionFacts /\ PluginTypeOK /\ IdVerified /\ PublishedIdVerified /\ [Next]_vars
        => PluginTypeOK' /\ IdVerified' /\ PublishedIdVerified'
  BY <1>2, PluginTypeStep, IdVerifiedStep
<1> QED  BY <1>1, <1>3, SessionFactsHold, PTL DEF Spec
-----------------------------------------------------------------------------
(* What a device is told, or waits in its socket, was earned.              *)
Earned(s, answer) ==
  answer \notin {Refusal, StaleBytes} =>
    \E n \in Ends(s) : n <= pos[s] /\ answer = Promised(SentText(s, n))

RepliesEarned ==
  \A s \in Session :
    /\ \A i \in 1..Len(received[s]) : Earned(s, received[s][i])
    /\ \A i \in 1..Len(pending[s]) : Earned(s, pending[s][i])

(* An answer of process to the frame being handled is earned, and stays so.*)
LEMMA AnswerEarned ==
  ASSUME FramesWellFormed, SessionFacts, NEW s \in Session, FrameAhead(s),
         NEW answer, Process(Text(s, NextFrame(s)), answer), answer # NoAnswer
  PROVE  Earned(s, answer)
<1> DEFINE n == LastCell(NextFrame(s))
           f == Text(s, NextFrame(s))
           g == SentText(s, n)
<1>1. \/ answer \in {NoAnswer, Refusal}
      \/ /\ f[3].kind = "command" /\ f[4].kind = "device"
         /\ FromRegistered(f)
         /\ HasCommand(f, LookupCommands)
         /\ answer = Promised(f)
  BY ProcessOutcome
<1>2. /\ n \in Ends(s) /\ n \in 1..pos[s]
      /\ f[3].kind = "command" /\ f[4].kind = "device" =>
           g[2] = f[2] /\ g[3] = f[3] /\ g[4] = f[4]
  BY FrameHandled
<1> HIDE DEF n, f, g
<1>3. pos[s] \in Nat
  BY DEF SessionFacts, SessionTypeOK
<1>4. CASE answer \notin {NoAnswer, Refusal}
  <2>1. g[2] = f[2] /\ g[3] = f[3] /\ g[4] = f[4] /\ answer = Promised(f)
    BY <1>1, <1>2, <1>4
  <2>2. Promised(g) = Promised(f)
    BY <2>1 DEF Promised, IsLogin, HasCommand, CommandOf, FromRegistered, DeviceOf, IdOf
  <2> QED  BY <1>2, <1>3, <2>1, <2>2 DEF Earned, g
<1> QED  BY <1>4 DEF Earned

(* What is earned stays so, as streams are only read further.              *)
LEMMA StaysEarned ==
  ASSUME GoesOn, NEW s \in Session, NEW answer, Earned(s, answer)
  PROVE  Earned(s, answer)'
<1>1. CASE answer \in {Refusal, StaleBytes}
  BY <1>1 DEF Earned
<1>2. CASE answer \notin {Refusal, StaleBytes}
  <2>1. PICK n \in Ends(s) : n <= pos[s] /\ answer = Promised(SentText(s, n))
    BY <1>2 DEF Earned
  <2>2. n \in Nat
    BY ServiceAssumption DEF Ends, SentTexts
  <2>3. n <= pos'[s]
    BY <2>1, <2>2 DEF GoesOn
  <2> QED  BY <2>1, <2>3 DEF Earned
<1> QED  BY <1>1, <1>2

(* A step that only moves, adds or drops answers that are earned.          *)
LEMMA AnswersStayEarned ==
  ASSUME GoesOn, RepliesEarned,
         \A s \in Session :
           /\ \A i \in 1..Len(received'[s]) :
                \/ i \in 1..Len(received[s]) /\ received'[s][i] = received[s][i]
                \/ Earned(s, received'[s][i])
           /\ \A i \in 1..Len(pending'[s]) :
                \/ \E j \in 1..Len(pending[s]) : pending'[s][i] = pending[s][j]
                \/ Earned(s, pending'[s][i])
  PROVE  RepliesEarned'
<1>1. ASSUME NEW s \in Session, NEW i \in 1..Len(received'[s]), NEW a, a = received'[s][i]
      PROVE  Earned(s, a)'
  <2>1. Earned(s, a)
    BY <1>1 DEF RepliesEarned
  <2> QED  BY <2>1, StaysEarned
<1>2. ASSUME NEW s \in Session, NEW i \in 1..Len(pending'[s]), NEW a, a = pending'[s][i]
      PROVE  Earned(s, a)'
  <2>1. Earned(s, a)
    BY <1>2 DEF RepliesEarned
  <2> QED  BY <2>1, StaysEarned
<1> QED  BY SMTT(20), <1>1, <1>2 DEF RepliesEarned, Earned

(* Every step keeps that replies are earned, those under way included.     *)
LEMMA RepliesEarnedStep ==
  ASSUME FramesWellFormed, SessionFacts, RepliesEarned, [Next]_vars
  PROVE  RepliesEarned'
<1>0. /\ GoesOn
      /\ received \in [Session -> Seq(Answers \cup {StaleBytes})]
      /\ pending \in [Session -> Seq(Answers)]
  BY StepGoesOn DEF SessionFacts, SessionTypeOK
<1>1. ASSUME UNCHANGED <<received, pending>>
      PROVE  RepliesEarned'
  BY <1>0, <1>1, AnswersStayEarned
<1>2. ASSUME NEW s \in Session, HandleFrame(s)
      PROVE  RepliesEarned'
  <2>1. PICK answer : /\ FrameAhead(s)
                      /\ Process(Text(s, NextFrame(s)), answer)
                      /\ AsyncWrite(s, answer)
    BY <1>2, HandleFrameStep
  <2>2. answer = NoAnswer \/ Earned(s, answer)
    BY <2>1, AnswerEarned
  <2>3. CASE UNCHANGED <<received, pending>>
    BY <1>1, <2>3
  <2>4. CASE /\ answer # NoAnswer
             /\ received' = [received EXCEPT ![s] = Append(received[s], answer)]
             /\ UNCHANGED pending
    <3>1. \A t \in Session : \A i \in 1..Len(received'[t]) :
            \/ i \in 1..Len(received[t]) /\ received'[t][i] = received[t][i]
            \/ Earned(t, received'[t][i])
      <4>1. ASSUME NEW i \in 1..Len(received'[s])
            PROVE  \/ i \in 1..Len(received[s]) /\ received'[s][i] = received[s][i]
                   \/ received'[s][i] = answer
        <5>1. PICK l \in Nat : l = Len(received[s])
          BY <1>0
        <5>2. /\ Len(received'[s]) = l + 1 /\ received'[s][l + 1] = answer
              /\ \A j \in 1..l : received'[s][j] = received[s][j]
          BY <1>0, <2>4, <5>1
        <5> QED  BY <5>1, <5>2
      <4>2. \A t \in Session : t # s => received'[t] = received[t]
        BY <1>0, <2>4
      <4> QED  BY <2>2, <2>4, <4>1, <4>2
    <3> QED  BY <1>0, <2>4, <3>1, AnswersStayEarned
  <2>5. CASE /\ answer # NoAnswer
             /\ pending' = [pending EXCEPT ![s] = Append(pending[s], answer)]
             /\ UNCHANGED received
    <3>1. \A t \in Session : \A i \in 1..Len(pending'[t]) :
            \/ \E j \in 1..Len(pending[t]) : pending'[t][i] = pending[t][j]
            \/ Earned(t, pending'[t][i])
      <4>1. ASSUME NEW i \in 1..Len(pending'[s])
            PROVE  \/ i \in 1..Len(pending[s]) /\ pending'[s][i] = pending[s][i]
                   \/ pending'[s][i] = answer
        <5>1. PICK l \in Nat : l = Len(pending[s])
          BY <1>0
        <5>2. /\ Len(pending'[s]) = l + 1 /\ pending'[s][l + 1] = answer
              /\ \A j \in 1..l : pending'[s][j] = pending[s][j]
          BY <1>0, <2>5, <5>1
        <5> QED  BY <5>1, <5>2
      <4>2. \A t \in Session : t # s => pending'[t] = pending[t]
        BY <1>0, <2>5
      <4> QED  BY <2>2, <2>5, <4>1, <4>2
    <3> QED  BY <1>0, <2>5, <3>1, AnswersStayEarned
  <2> QED  BY <2>1, <2>3, <2>4, <2>5 DEF AsyncWrite
<1>3. ASSUME NEW s \in Session, WriteDone(s)
      PROVE  RepliesEarned'
  <2>1. /\ pending[s] # <<>> /\ pending[s] \in Seq(Answers)
        /\ pending' = [pending EXCEPT ![s] = Tail(pending[s])]
    BY <1>0, <1>3 DEF WriteDone
  <2>2. PICK l \in Nat : l = Len(pending[s]) /\ l >= 1
    <3>1. Len(pending[s]) \in Nat /\ Len(pending[s]) # 0
      BY <2>1, EmptySeq
    <3> QED  BY <3>1
  <2>3. \A t \in Session : \A i \in 1..Len(pending'[t]) :
          \E j \in 1..Len(pending[t]) : pending'[t][i] = pending[t][j]
    <3>1. \A i \in 1..Len(pending'[s]) :
            i + 1 \in 1..Len(pending[s]) /\ pending'[s][i] = pending[s][i + 1]
      <4>1. /\ Len(Tail(pending[s])) = l - 1
            /\ \A i \in 1..(l - 1) : Tail(pending[s])[i] = pending[s][i + 1]
        BY <2>1, <2>2, HeadTailProperties
      <4>2. pending'[s] = Tail(pending[s])
        BY <1>0, <2>1
      <4> QED  BY <2>2, <4>1, <4>2
    <3>2. \A t \in Session : t # s => pending'[t] = pending[t]
      BY <1>0, <2>1
    <3> QED  BY <3>1, <3>2
  <2>4. Head(pending[s]) = pending[s][1] /\ 1 \in 1..Len(pending[s])
    BY <2>1, <2>2, HeadTailProperties
  <2>5. CASE UNCHANGED received
    BY <1>0, <2>3, <2>5, AnswersStayEarned
  <2>6. ASSUME NEW bytes \in {Head(pending[s]), StaleBytes},
               received' = [received EXCEPT ![s] = Append(received[s], bytes)]
        PROVE  RepliesEarned'
    <3>1. Earned(s, bytes)
      BY <2>4, <2>6 DEF RepliesEarned, Earned
    <3>2. ASSUME NEW i \in 1..Len(received'[s])
          PROVE  \/ i \in 1..Len(received[s]) /\ received'[s][i] = received[s][i]
                 \/ received'[s][i] = bytes
      <4>1. PICK m \in Nat : m = Len(received[s])
        BY <1>0
      <4>2. /\ Len(received'[s]) = m + 1 /\ received'[s][m + 1] = bytes
            /\ \A j \in 1..m : received'[s][j] = received[s][j]
        BY <1>0, <2>6, <4>1
      <4> QED  BY SMTT(20), <4>1, <4>2
    <3>3. \A t \in Session : t # s => received'[t] = received[t]
      BY <1>0, <2>6
    <3>4. \A t \in Session : \A i \in 1..Len(received'[t]) :
            \/ i \in 1..Len(received[t]) /\ received'[t][i] = received[t][i]
            \/ Earned(t, received'[t][i])
      BY <3>1, <3>2, <3>3
    <3> QED  BY <1>0, <2>3, <3>4, AnswersStayEarned
  <2> QED  BY <1>3, <2>5, <2>6 DEF WriteDone
<1>4. ASSUME NEW s \in Session,
             \/ Read(s) \/ Ask(s) \/ Terminate(s)
             \/ Accept(s) \/ HangUp(s) \/ ReadError(s) \/ FinishRead(s) \/ Overrun(s)
      PROVE  RepliesEarned'
  <2>1. UNCHANGED <<received, pending>>
    BY <1>4 DEF Read, ReadSome, Ask, Terminate, serverVars, Accept, HangUp, ReadError,
                FinishRead, Overrun
  <2> QED  BY <1>1, <2>1
<1>5. CASE UNCHANGED vars
  BY <1>1, <1>5 DEF vars, serverVars
<1> QED  BY <1>2, <1>3, <1>4, <1>5 DEF Next, SessionStep

(* However the stream is split and whatever the database answers, a device *)
(* is told "AP05" or "AP01" only for a login or a handshake it did send on *)
(* that connection, with a registered id.                                  *)
THEOREM AcceptanceEarnedCorrect == FramesWellFormed => (Spec => []AcceptanceEarned)
<1> SUFFICES ASSUME FramesWellFormed PROVE Spec => []AcceptanceEarned
  OBVIOUS
<1>1. Init => RepliesEarned
  BY DEF Init, SessionInit, RepliesEarned
<1>2. SessionFacts /\ RepliesEarned /\ [Next]_vars => RepliesEarned'
  BY RepliesEarnedStep
<1>3. SessionFacts /\ RepliesEarned => AcceptanceEarned
  <2> SUFFICES ASSUME SessionFacts, RepliesEarned PROVE AcceptanceEarned
    OBVIOUS
  <2>1. \A s \in Session : DOMAIN received[s] = 1..Len(received[s])
    BY DEF SessionFacts, SessionTypeOK
  <2> QED  BY <2>1 DEF RepliesEarned, Earned, AcceptanceEarned
<1> QED  BY <1>1, <1>2, <1>3, SessionFactsHold, PTL DEF Spec
-----------------------------------------------------------------------------
(* What is published is a fix whose frame was handled.                     *)
FixesKnown ==
  \A i \in 1..Len(published) : \E s \in Session : \E n \in Fixes(s) :
    IsHandled(s, n) /\ published[i].msg = IdOf(SentText(s, n))

(* A fix is known by its id.                                               *)
LEMMA SameFix ==
  ASSUME UniqueFixIds, NEW s \in Session, NEW t \in Session,
         NEW m \in Fixes(s), NEW n \in Fixes(t),
         IdOf(SentText(s, m)) = IdOf(SentText(t, n))
  PROVE  s = t /\ m = n
<1>1. \A a, b \in Session : \A c \in Fixes(a) : \A d \in Fixes(b) :
        IdOf(SentText(a, c)) = IdOf(SentText(b, d)) => a = b /\ c = d
  BY DEF UniqueFixIds
<1> QED  BY <1>1

(* Ids of fixes being unique, the frame of what is published next follows  *)
(* those of all that was published before from the same connection.        *)
LEMMA FixFollows ==
  ASSUME UniqueFixIds, SessionFacts, FixesKnown, NEW s \in Session, FrameAhead(s),
         NEW j \in 1..Len(published), NEW m \in Fixes(s),
         published[j].msg = IdOf(SentText(s, m))
  PROVE  m < LastCell(NextFrame(s))
<1>1. PICK t \in Session : \E k \in Fixes(t) :
        IsHandled(t, k) /\ published[j].msg = IdOf(SentText(t, k))
  BY DEF FixesKnown
<1>2. PICK k \in Fixes(t) : IsHandled(t, k) /\ published[j].msg = IdOf(SentText(t, k))
  BY <1>1
<1>3. t = s /\ k = m
  <2>1. IdOf(SentText(t, k)) = IdOf(SentText(s, m))
    BY <1>2
  <2> QED  BY <2>1, SameFix
<1> QED  BY <1>2, <1>3, NextText

(* A frame counts as handled as it was sent from the step that handles it. *)
LEMMA AsSentStep ==
  ASSUME SessionFacts, NEW s \in Session, HandleFrame(s),
         NEW t \in Session, NEW k, HandledAsSent(t, k)'
  PROVE  LET q == NextFrame(s)
         IN  IF t = s /\ k = LastCell(q)
               THEN ~IsHandled(s, k) /\ Text(s, q) = SentText(s, k)
               ELSE HandledAsSent(t, k)
<1> DEFINE q == NextFrame(s)
<1>1. handled' = [handled EXCEPT ![s] = Append(handled[s], q)] /\ FrameAhead(s)
  BY DEF HandleFrame, TakeFrame
<1>2. handled \in [Session -> Seq(Seq(Nat))]
  BY DEF SessionFacts, SessionTypeOK
<1>3. LastCell(q) \in Nat /\ \A m : IsHandled(s, m) => m < LastCell(q)
  <2>1. pos[s] \in Nat
    BY DEF SessionFacts, SessionTypeOK
  <2> QED  BY <1>1, <2>1, NextText
<1> HIDE DEF q
<1>4. PICK l \in Nat : l = Len(handled[s])
  BY <1>2
<1>5. /\ DOMAIN handled'[s] = 1..(l + 1) /\ DOMAIN handled[s] = 1..l
      /\ handled'[s][l + 1] = q
      /\ \A i \in 1..l : handled'[s][i] = handled[s][i]
      /\ \A u \in Session : u # s => handled'[u] = handled[u]
  BY <1>1, <1>2, <1>4
<1>6. CASE t # s
  BY <1>5, <1>6 DEF HandledAsSent, EndOf, HandledText
<1>7. CASE t = s
  <2>1. PICK i \in 1..(l + 1) : /\ LastCell(handled'[s][i]) = k
                               /\ Text(s, handled'[s][i]) = SentText(s, k)
    BY <1>5, <1>7 DEF HandledAsSent, EndOf, HandledText
  <2>2. CASE i \in 1..l
    <3>1. HandledAsSent(s, k) /\ IsHandled(s, k)
      BY <1>5, <2>1, <2>2, <1>4 DEF HandledAsSent, IsHandled, EndOf, HandledText
    <3>2. k # LastCell(q)
      BY <1>3, <3>1
    <3> QED  BY <1>7, <3>1, <3>2 DEF q
  <2>3. CASE i = l + 1
    <3>1. k = LastCell(q) /\ Text(s, q) = SentText(s, k)
      BY <1>5, <2>1, <2>3
    <3>2. ~IsHandled(s, k)
      BY <1>3, <3>1
    <3> QED  BY <1>7, <3>1, <3>2 DEF q
  <2> QED  BY <1>4, <2>1, <2>2, <2>3
<1> QED  BY <1>6, <1>7

(* A frame that was handled otherwise does not become one handled as sent. *)
LEMMA NotAsSentLater ==
  ASSUME SessionFacts, [Next]_vars, NEW t \in Session, NEW k,
         IsHandled(t, k), HandledAsSent(t, k)'
  PROVE  HandledAsSent(t, k)
<1>1. ASSUME NEW s \in Session, HandleFrame(s)
      PROVE  HandledAsSent(t, k)
  BY <1>1, AsSentStep
<1>2. ASSUME UNCHANGED handled
      PROVE  HandledAsSent(t, k)
  BY <1>2 DEF HandledAsSent, EndOf, HandledText
<1>3. ASSUME NEW s \in Session, Read(s) \/ Ask(s) \/ Terminate(s) \/ SessionStep(s)
      PROVE  HandledAsSent(t, k)
  BY <1>2, <1>3, OtherSteps
<1>4. CASE UNCHANGED vars
  BY <1>2, <1>4 DEF vars, serverVars
<1> QED  BY <1>1, <1>3, <1>4 DEF Next

(* Every step keeps that what is published is a fix, in order, and with    *)
(* its own numbers where its frame was handled as it was sent.             *)
LEMMA FixesStep ==
  ASSUME FramesWellFormed, UniqueFixIds, SessionFacts, PluginTypeOK, FixesKnown,
         NoFixInvented, [Next]_vars
  PROVE  FixesKnown' /\ NoFixInvented'
<1>0. GoesOn /\ published \in Seq(Feedbacks)
  BY StepGoesOn DEF PluginTypeOK
<1>1. PICK l \in Nat : l = Len(published) /\ DOMAIN published = 1..l
  BY <1>0
<1>2. ASSUME NEW i \in 1..l
      PROVE  \E t \in Session : \E k \in Fixes(t) :
               /\ IsHandled(t, k)'
               /\ published[i].msg = IdOf(SentText(t, k))
               /\ HandledAsSent(t, k)' => published[i].numbers = NumbersOf(t, k)
               /\ \A j \in 1..(i - 1) : \A m \in Fixes(t) :
                    published[j].msg = IdOf(SentText(t, m)) => m < k
  <2>1. PICK t \in Session : \E k \in Fixes(t) :
          /\ IsHandled(t, k)
          /\ published[i].msg = IdOf(SentText(t, k))
          /\ HandledAsSent(t, k) => published[i].numbers = NumbersOf(t, k)
          /\ \A j \in 1..(i - 1) : \A m \in Fixes(t) :
               published[j].msg = IdOf(SentText(t, m)) => m < k
    BY <1>1, <1>2 DEF NoFixInvented
  <2>2. PICK k \in Fixes(t) :
          /\ IsHandled(t, k)
          /\ published[i].msg = IdOf(SentText(t, k))
          /\ HandledAsSent(t, k) => published[i].numbers = NumbersOf(t, k)
          /\ \A j \in 1..(i - 1) : \A m \in Fixes(t) :
               published[j].msg = IdOf(SentText(t, m)) => m < k
    BY <2>1
  <2>3. IsHandled(t, k)'
    BY <1>0, <2>2 DEF GoesOn
  <2>4. HandledAsSent(t, k)' => HandledAsSent(t, k)
    BY <2>2, NotAsSentLater
  <2> QED  BY <2>2, <2>3, <2>4
<1>3. ASSUME published' = published
      PROVE  FixesKnown' /\ NoFixInvented'
  <2>1. FixesKnown'
    BY <1>0, <1>3 DEF FixesKnown, GoesOn
  <2>2. ASSUME NEW i \in 1..l
        PROVE  \E t \in Session : \E k \in Fixes(t) :
                 /\ IsHandled(t, k)'
                 /\ published'[i].msg = IdOf(SentText(t, k))
                 /\ HandledAsSent(t, k)' => published'[i].numbers = NumbersOf(t, k)
                 /\ \A j \in 1..(i - 1) : \A m \in Fixes(t) :
                      published'[j].msg = IdOf(SentText(t, m)) => m < k
    BY <1>2, <1>3, <2>2
  <2>3. DOMAIN published' = 1..l
    BY <1>1, <1>3
  <2> QED  BY <2>1, <2>2, <2>3 DEF NoFixInvented, NumbersOf
<1>4. ASSUME NEW s \in Session, HandleFrame(s), published' # published
      PROVE  FixesKnown' /\ NoFixInvented'
  <2>1. PICK n, f : n = LastCell(NextFrame(s)) /\ f = Text(s, NextFrame(s))
    OBVIOUS
  <2>2. /\ FrameAhead(s) /\ IsHandled(s, n)'
        /\ n \in Fixes(s)
        /\ published' = Append(published, [device |-> deviceId,
                                          msg |-> IdOf(SentText(s, n)),
                                          numbers |-> f[5]])
    BY <1>4, <2>1, HandleFrameStep, PublishStep
  <2>3. /\ Len(published') = l + 1 /\ DOMAIN published' = 1..(l + 1)
        /\ \A i \in 1..l : published'[i] = published[i]
        /\ published'[l + 1].msg = IdOf(SentText(s, n))
        /\ published'[l + 1].numbers = f[5]
    BY <1>0, <1>1, <2>2
  <2>4. ASSUME NEW i \in 1..(l + 1)
        PROVE  \E t \in Session : \E m \in Fixes(t) :
                 IsHandled(t, m)' /\ published'[i].msg = IdOf(SentText(t, m))
    <3>1. CASE i \in 1..l
      BY <1>0, <1>1, <2>3, <3>1 DEF FixesKnown, GoesOn
    <3>2. CASE i = l + 1
      BY <2>2, <2>3, <3>2
    <3> QED  BY <3>1, <3>2
  <2>5. ASSUME NEW i \in 1..(l + 1)
        PROVE  \E t \in Session : \E k \in Fixes(t) :
                 /\ IsHandled(t, k)'
                 /\ published'[i].msg = IdOf(SentText(t, k))
                 /\ HandledAsSent(t, k)' => published'[i].numbers = NumbersOf(t, k)
                 /\ \A j \in 1..(i - 1) : \A m \in Fixes(t) :
                      published'[j].msg = IdOf(SentText(t, m)) => m < k
    <3>0. \A j \in 1..(i - 1) : j \in 1..l
      BY <2>5
    <3>1. CASE i \in 1..l
      <4>1. /\ published'[i] = published[i]
            /\ \A j \in 1..(i - 1) : published'[j] = published[j]
        BY <2>3, <3>0, <3>1
      <4> QED  BY <1>2, <3>1, <4>1
    <3>2. CASE i = l + 1
      <4>1. ASSUME NEW j \in 1..l, NEW m \in Fixes(s),
                   published'[j].msg = IdOf(SentText(s, m))
            PROVE  m < n
        BY <1>1, <2>1, <2>2, <2>3, <4>1, FixFollows
      <4>2. HandledAsSent(s, n)' => published'[i].numbers = NumbersOf(s, n)
        <5>1. HandledAsSent(s, n)' => f = SentText(s, n)
          BY <1>4, <2>1, AsSentStep
        <5> QED  BY <2>3, <3>2, <5>1 DEF NumbersOf
      <4> QED  BY <2>2, <2>3, <3>0, <3>2, <4>1, <4>2
    <3> QED  BY <3>1, <3>2
  <2> QED  BY <2>3, <2>4, <2>5 DEF FixesKnown, NoFixInvented, NumbersOf
<1>5. ASSUME NEW s \in Session, Read(s) \/ Ask(s) \/ Terminate(s) \/ SessionStep(s)
      PROVE  published' = published
  BY <1>5, OtherSteps
<1>6. CASE UNCHANGED vars
  BY <1>3, <1>6 DEF vars, pluginVars
<1> QED  BY <1>3, <1>4, <1>5, <1>6 DEF Next

(* Nothing is published that is not a fix some device sent, no fix twice,  *)
(* and the fixes of one connection in the order they were sent, however    *)
(* the streams are cut, and its numbers are the fix's own unless a read    *)
(* has cut its frame, as long as no two fixes have the same id.            *)
THEOREM NoFixInventedCorrect ==
  FramesWellFormed /\ UniqueFixIds => (Spec => []NoFixInvented)
<1> SUFFICES ASSUME FramesWellFormed, UniqueFixIds PROVE Spec => []NoFixInvented
  OBVIOUS
<1>1. Init => PluginTypeOK /\ FixesKnown /\ NoFixInvented
  BY PluginInitOK DEF FixesKnown, NoFixInvented
<1>2. SessionFacts /\ PluginTypeOK /\ FixesKnown /\ NoFixInvented /\ [Next]_vars
        => PluginTypeOK' /\ FixesKnown' /\ NoFixInvented'
  BY PluginTypeStep, FixesStep
<1> QED  BY <1>1, <1>2, SessionFactsHold, PTL DEF Spec

-----------------------------------------------------------------------------
(* With reads that end with whole frames.                                  *)
NextIsSent ==
  \A s \in Session : FrameAhead(s) => NextFrame(s) = SentFrame(s, LastCell(NextFrame(s)))

(* It holds whenever no read ends inside a frame.                          *)
LEMMA NextIsSentHolds == SplitReads = FALSE => (Spec => []NextIsSent)
<1> SUFFICES ASSUME SplitReads = FALSE PROVE Spec => []NextIsSent
  OBVIOUS
<1>1. Sessions!SessionSpec => []Sessions!NextFrameWhole
  BY SessionAssumptionHolds, Sessions!NextFrameWholeCorrect
<1>2. Sessions!NextFrameWhole => NextIsSent
  <2> SUFFICES ASSUME Sessions!NextFrameWhole, NEW s \in Session, FrameAhead(s)
               PROVE  NextFrame(s) = SentFrame(s, LastCell(NextFrame(s)))
    BY DEF NextIsSent
  <2>1. Sessions!FrameComing(s)
    BY DEF FrameAhead, Sessions!FrameComing, FirstCloseAt, Sessions!FirstCloseAt,
           IsClose, Sessions!IsClose
  <2>2. NextFrame(s) = Sessions!SentFrame(s, LastCell(NextFrame(s)))
    BY <2>1, SameNextFrame DEF Sessions!NextFrameWhole, LastCell, Sessions!LastCell
  <2>3. \A n : Sessions!SentFrame(s, n) = SentFrame(s, n)
    BY DEF Sessions!SentFrame, SentFrame, Sessions!Sent, Sent, Sessions!Trim, Trim,
           Sessions!IsClose, IsClose, Sessions!IsBlank, IsBlank
  <2> QED  BY <2>2, <2>3
<1> QED  BY <1>1, <1>2, ServiceImplementsSessions, PTL

(* The text given to process is then that of the device.                   *)
LEMMA NextTextIsSent ==
  ASSUME SessionFacts, NextIsSent, NEW s \in Session, FrameAhead(s)
  PROVE  /\ LastCell(NextFrame(s)) \in Ends(s)
         /\ Text(s, NextFrame(s)) = SentText(s, LastCell(NextFrame(s)))
<1> DEFINE q == NextFrame(s)
           n == LastCell(q)
<1>1. /\ q \in Seq(1..Len(Script[s])) /\ q # <<>> /\ n \in 1..pos[s]
      /\ Sessions!BeginsLikeSent(s, q)
  BY NextText
<1>2. q = SentFrame(s, n)
  BY DEF NextIsSent
<1> HIDE DEF q
<1>3. n \in Ends(s)
  <2>1. Script[s] \in Seq(Cells) /\ DOMAIN Script[s] = 1..Len(Script[s])
    BY ServiceAssumption
  <2>2. Len(q) \in 1..Len(q)
    BY <1>1, EmptySeq
  <2>3. n \in 1..Len(Script[s])
    BY <1>1, <2>2, ElementOfSeq DEF LastCell
  <2>4. Script[s][n] = CloseCell
    BY <1>1 DEF Sessions!BeginsLikeSent, Sessions!IsClose, Sessions!LastCell, LastCell
  <2> QED  BY <2>1, <2>3, <2>4 DEF Ends, SentTexts
<1>4. SentText(s, n) = Text(s, SentFrame(s, n))
  BY <1>3 DEF SentText, SentTexts, Ends
<1> QED  BY <1>2, <1>3, <1>4 DEF q

(* With whole reads no fix is passed over.                                 *)
LEMMA FixIsPublished ==
  ASSUME SessionFacts, NextIsSent, NEW s \in Session, HandleFrame(s),
         LastCell(NextFrame(s)) \in Fixes(s)
  PROVE  LET n == LastCell(NextFrame(s))
         IN  published' = Append(published, [device |-> deviceId,
                                             msg |-> IdOf(SentText(s, n)),
                                             numbers |-> NumbersOf(s, n)])
<1> DEFINE n == LastCell(NextFrame(s))
           f == Text(s, NextFrame(s))
<1>1. FrameAhead(s) /\ \E answer : Process(f, answer)
  BY HandleFrameStep
<1>2. f = SentText(s, n)
  BY <1>1, NextTextIsSent
<1>3. HasCommand(f, FeedbackCommands) /\ AvailableOf(f)
  BY <1>2 DEF Fixes
<1>4. published' = Append(published, Fix(f))
  BY <1>1, <1>3 DEF Process, DeviceHandshake, DeviceLogin, DeviceFeedback, OtherCommand,
                    HasCommand, FeedbackCommands, LookupCommands
<1> HIDE DEF f, n
<1> QED  BY <1>2, <1>4 DEF Fix, NumbersOf, n

(* No fix is dropped: it is published, with its own numbers, in the step   *)
(* that handles its frame, when no read ends inside a frame.               *)
THEOREM FixesPublishedCorrect ==
  FramesWellFormed /\ SplitReads = FALSE => (Spec => []FixesPublished)
<1> SUFFICES ASSUME FramesWellFormed, SplitReads = FALSE PROVE Spec => []FixesPublished
  OBVIOUS
<1>1. Init => PluginTypeOK /\ FixesPublished
  BY PluginInitOK DEF Init, SessionInit, FixesPublished, IsHandled
<1>2. ASSUME SessionFacts, NextIsSent, PluginTypeOK, FixesPublished, [Next]_vars
      PROVE  FixesPublished'
  <2>0. published \in Seq(Feedbacks)
    BY <1>2 DEF PluginTypeOK
  <2>1. ASSUME NEW s \in Session, HandleFrame(s)
        PROVE  FixesPublished'
    <3>1. PICK n : n = LastCell(NextFrame(s))
      OBVIOUS
    <3>2. \A t \in Session : \A m : IsHandled(t, m)' => IsHandled(t, m) \/ (t = s /\ m = n)
      BY <1>2, <2>1, <3>1, HandleFrameStep
    <3>3. \A i \in DOMAIN published : i \in DOMAIN published' /\ published'[i] = published[i]
      <4>1. \/ published' = published
            \/ \E e : published' = Append(published, e)
        BY <1>2, <2>1, PublishStep
      <4> QED  BY <2>0, <4>1
    <3>4. ASSUME n \in Fixes(s)
          PROVE  \E i \in DOMAIN published' :
                   /\ published'[i].msg = IdOf(SentText(s, n))
                   /\ published'[i].numbers = NumbersOf(s, n)
      <4>1. published' = Append(published, [device |-> deviceId,
                                            msg |-> IdOf(SentText(s, n)),
                                            numbers |-> NumbersOf(s, n)])
        BY <1>2, <2>1, <3>1, <3>4, FixIsPublished
      <4>2. PICK l \in Nat : l = Len(published)
        BY <2>0
      <4>3. /\ l + 1 \in DOMAIN published'
            /\ published'[l + 1].msg = IdOf(SentText(s, n))
            /\ published'[l + 1].numbers = NumbersOf(s, n)
        BY <2>0, <4>1, <4>2
      <4> QED  BY <4>3
    <3>5. ASSUME NEW t \in Session, NEW m \in Fixes(t), IsHandled(t, m)'
          PROVE  \E i \in DOMAIN published' :
                   /\ published'[i].msg = IdOf(SentText(t, m))
                   /\ published'[i].numbers = NumbersOf(t, m)
      <4>1. CASE IsHandled(t, m)
        BY <1>2, <3>3, <4>1 DEF FixesPublished, Published
      <4>2. CASE t = s /\ m = n
        BY <3>4, <3>5, <4>2
      <4> QED  BY <3>2, <3>5, <4>1, <4>2
    <3> QED  BY <3>5 DEF FixesPublished, Published, NumbersOf
  <2>2. ASSUME UNCHANGED <<handled, published>>
        PROVE  FixesPublished'
    BY <1>2, <2>2 DEF FixesPublished, Published, NumbersOf, IsHandled, EndOf
  <2>3. ASSUME NEW s \in Session, Read(s) \/ Ask(s) \/ Terminate(s) \/ SessionStep(s)
        PROVE  FixesPublished'
    BY <1>2, <2>2, <2>3, OtherSteps
  <2>4. CASE UNCHANGED vars
    BY <2>2, <2>4 DEF vars, serverVars, pluginVars
  <2> QED  BY <1>2, <2>1, <2>3, <2>4 DEF Next
<1>3. SessionFacts /\ NextIsSent /\ PluginTypeOK /\ FixesPublished /\ [Next]_vars
        => PluginTypeOK' /\ FixesPublished'
  BY <1>2, PluginTypeStep
<1> QED  BY <1>1, <1>3, SessionFactsHold, NextIsSentHolds, PTL DEF Spec

-----------------------------------------------------------------------------
(* Which frame is processed next depends on the sessions alone.            *)
LEMMA SameFrameAhead ==
  ASSUME UNCHANGED serverVars
  PROVE  \A s \in Session : /\ FrameAhead(s) => FrameAhead(s)'
                            /\ NextFrame(s)' = NextFrame(s)
BY DEF serverVars, FrameAhead, NextFrame, FirstCloseAt, IsClose, Fits, Filled, Trim,
       IsBlank

(* An exception leaves the sessions and the plugin's id as they were: what *)
(* explains it then explains it for ever.                                  *)
LEMMA StaysExplained ==
  ASSUME FaultsExplained, UNCHANGED <<serverVars, fault>>
  PROVE  FaultsExplained'
<1>1. /\ fault' = fault
      /\ \A s \in Session : (FrameAhead(s) => FrameAhead(s)') /\ NextFrame(s)' = NextFrame(s)
  BY SameFrameAhead
<1>2. LoggedInBefore => LoggedInBefore'
  BY DEF LoggedInBefore, IsHandled, EndOf, serverVars
<1>3. CASE fault # "none"
  <2>1. PICK s \in Session :
          LET n == LastCell(NextFrame(s))
          IN  /\ FrameAhead(s)
              /\ fault = "http" => /\ DatabaseMayFail
                                   /\ HasCommand(SentText(s, n), LookupCommands)
              /\ fault \in {"stod", "strcpy_s"} => n \in Fixes(s)
              /\ fault = "stod" => Text(s, NextFrame(s)) # SentText(s, n)
              /\ fault = "strcpy_s" => Msvc /\ LoggedInBefore
    BY <1>3 DEF FaultsExplained
  <2> QED  BY <1>1, <1>2, <2>1 DEF FaultsExplained
<1>4. CASE fault = "none"
  BY <1>1, <1>4 DEF FaultsExplained
<1> QED  BY <1>3, <1>4

(* What process throws at.                                                 *)
LEMMA TerminateExplained ==
  ASSUME FramesWellFormed, SessionFacts, IdVerified, NEW s \in Session, Terminate(s)
  PROVE  FaultsExplained'
<1> DEFINE n == LastCell(NextFrame(s))
           f == Text(s, NextFrame(s))
           g == SentText(s, n)
<1>1. FrameAhead(s) /\ fault' \in FaultsOf(f) /\ UNCHANGED <<serverVars, deviceId>>
  BY DEF Terminate, ProcessThrows
<1>2. /\ n \in Ends(s)
      /\ f[3].kind = "command" => g[3] = f[3]
      /\ f[3].kind = "command" /\ f[4].kind = "available" =>
           /\ g[4] = f[4]
           /\ f[4] = Field("available", "A") => g[5].kind = "numbers"
  BY <1>1, FrameHandled
<1>3. FrameAhead(s)' /\ NextFrame(s)' = NextFrame(s)
  BY <1>1, SameFrameAhead
<1>4. n = n /\ f = f /\ (f = g => f[5] = g[5])
  OBVIOUS
<1> HIDE DEF n, f, g
<1>5. fault' = "http" => DatabaseMayFail /\ HasCommand(g, LookupCommands)
  BY <1>1, <1>2 DEF FaultsOf, HasCommand, CommandOf
<1>6. ASSUME fault' \in {"stod", "strcpy_s"}
      PROVE  n \in Fixes(s) /\ (fault' = "stod" => f # g)
  <2>1. /\ HasCommand(f, FeedbackCommands) /\ AvailableOf(f)
        /\ fault' = "stod" => ~HasNumbers(f)
    BY <1>1, <1>6 DEF FaultsOf
  <2>2. f[3].kind = "command" /\ f[4] = Field("available", "A") /\ f[4].kind = "available"
    BY <2>1 DEF HasCommand, CommandOf, AvailableOf, Field
  <2>3. HasCommand(g, FeedbackCommands) /\ AvailableOf(g) /\ g[5].kind = "numbers"
    BY <1>2, <2>1, <2>2 DEF HasCommand, CommandOf, AvailableOf
  <2>4. fault' = "stod" => f # g
    BY <1>4, <2>1, <2>3 DEF HasNumbers
  <2> QED  BY <1>2, <2>3, <2>4 DEF Fixes, g
<1>7. fault' = "strcpy_s" => Msvc /\ LoggedInBefore
  BY <1>1 DEF FaultsOf, IdTooLong, IdVerified
<1>8. LoggedInBefore => LoggedInBefore'
  BY <1>1 DEF LoggedInBefore, IsHandled, EndOf, serverVars
<1>9. n' = n /\ f' = f
  BY <1>3 DEF n, f, LastCell, Text
<1> QED  BY <1>3, <1>5, <1>6, <1>7, <1>8 DEF FaultsExplained, n, f, g

(* The service ends by an exception only while it handles a login or a     *)
(* handshake with a database that fails, a fix that a read has cut, or, in *)
(* the build whose strcpy_s checks, a fix after the first login: no other  *)
(* sequence of frames of any number of devices ends it.                    *)
THEOREM FaultsExplainedCorrect == FramesWellFormed => (Spec => []FaultsExplained)
<1> SUFFICES ASSUME FramesWellFormed PROVE Spec => []FaultsExplained
  OBVIOUS
<1>1. Init => IdVerified /\ FaultsExplained
  BY PluginInitOK DEF Init, PluginInit, FaultsExplained
<1>2. ASSUME SessionFacts, IdVerified, FaultsExplained, [Next]_vars
      PROVE  FaultsExplained'
  <2>1. ASSUME fault = "none", fault' = fault
        PROVE  FaultsExplained'
    BY <2>1 DEF FaultsExplained
  <2>2. ASSUME NEW s \in Session, HandleFrame(s)
        PROVE  fault' = fault
    <3>1. PICK f, answer : Process(f, answer)
      BY <2>2 DEF HandleFrame
    <3> QED  BY <3>1 DEF Process
  <2>3. ASSUME NEW s \in Session, Read(s) \/ Ask(s) \/ SessionStep(s)
        PROVE  fault' = fault
    BY <2>3 DEF Read, Ask, SessionStep, pluginVars
  <2>4. CASE UNCHANGED vars
    <3>1. UNCHANGED <<serverVars, fault>>
      BY <2>4 DEF vars, pluginVars
    <3> QED  BY <1>2, <3>1, StaysExplained
  <2> QED  BY <1>2, <2>1, <2>2, <2>3, <2>4, TerminateExplained DEF Next
<1>3. SessionFacts /\ IdVerified /\ FaultsExplained /\ [Next]_vars
        => IdVerified' /\ FaultsExplained'
  BY <1>2, IdVerifiedStep
<1> QED  BY <1>1, <1>3, SessionFactsHold, PTL DEF Spec

(* A buff is overrun only by a frame that is cut too often, or too long,   *)
(* also with the plugin behind the sessions and its answers on the way.    *)
THEOREM ServiceOverrunExplained == Spec => []OverrunExplained
<1>1. Sessions!SessionSpec => []Sessions!OverrunExplained
  BY SessionAssumptionHolds, Sessions!OverrunExplainedCorrect
<1>2. \A s, n : Sessions!InHandAt(s, n) = InHandAt(s, n)
  BY DEF Sessions!InHandAt, InHandAt, Sessions!Done, Done, Sessions!EndOf, EndOf,
         Sessions!LastCell, LastCell, Sessions!IsClose, IsClose
<1>3. \A s : Sessions!Done(s) = Done(s)
  BY DEF Sessions!Done, Done, Sessions!EndOf, EndOf, Sessions!LastCell, LastCell
<1>4. Sessions!OverrunExplained => OverrunExplained
  BY <1>2, <1>3 DEF Sessions!OverrunExplained, OverrunExplained
<1> QED  BY <1>1, <1>4, ServiceImplementsSessions, PTL
-----------------------------------------------------------------------------
(* What the service owes no device.                                        *)
Unowed == {NoAnswer} \cup AlarmAnswers

(* While the database answers, process returns what the protocol promises  *)
(* to a frame that is not an alarm, and nothing to an alarm.               *)
LEMMA AnswerPromised ==
  ASSUME DatabaseMayFail = FALSE, NEW f, IdOf(f) \in MessageId,
         NEW answer, Process(f, answer)
  PROVE  IF Promised(f) \in Unowed THEN answer = NoAnswer ELSE answer = Promised(f)
<1>0. \A dev : \A known \in LookupResults(dev) :
        known = (dev.kind = "device" /\ dev.val \in Registered)
  BY DEF LookupResults
<1>1. \A a : a[2] # "AS01" /\ a \in Unowed => a = NoAnswer
  BY DEF Unowed, AlarmAnswers, Answer
<1>2. ASSUME answer = Promised(f), answer[2] # "AS01"
      PROVE  IF Promised(f) \in Unowed THEN answer = NoAnswer ELSE answer = Promised(f)
  BY <1>1, <1>2
<1>3. /\ \A i : Answer(i, "AP01")[2] # "AS01" /\ Answer(i, "AP05")[2] # "AS01"
      /\ NoAnswer[2] # "AS01" /\ Refusal[2] # "AS01"
  BY DEF Answer, NoAnswer, Refusal
<1>4. CASE DeviceHandshake(f, answer)
  <2>1. HasCommand(f, {"BP00"}) /\ ~IsLogin(f) /\ ~HasCommand(f, {"BO01"})
    BY <1>4 DEF DeviceHandshake, HasCommand, IsLogin
  <2>2. answer = IF FromRegistered(f) THEN Answer(IdOf(f), "AP01") ELSE NoAnswer
    BY <1>0, <1>4 DEF DeviceHandshake, FromRegistered
  <2>3. answer = Promised(f)
    BY <2>1, <2>2 DEF Promised
  <2> QED  BY <1>2, <1>3, <2>2, <2>3
<1>5. CASE DeviceLogin(f, answer)
  <2>1. IsLogin(f)
    BY <1>5 DEF DeviceLogin, IsLogin
  <2>2. answer = IF FromRegistered(f) THEN Answer(IdOf(f), "AP05") ELSE Refusal
    BY <1>0, <1>5 DEF DeviceLogin, FromRegistered
  <2>3. Promised(f) = IF FromRegistered(f) THEN Answer(IdOf(f), "AP05") ELSE Refusal
    <3>1. ~HasCommand(f, {"BP00"}) /\ ~HasCommand(f, {"BO01"})
      BY <2>1 DEF IsLogin, HasCommand
    <3> QED  BY <2>1, <3>1 DEF Promised
  <2> QED  BY <1>2, <1>3, <2>2, <2>3
<1>6. CASE DeviceFeedback(f, answer) \/ OtherCommand(f, answer)
  <2>1. answer = NoAnswer /\ ~HasCommand(f, LookupCommands)
    BY <1>6 DEF DeviceFeedback, OtherCommand, HasCommand, LookupCommands, FeedbackCommands
  <2>2. ~IsLogin(f) /\ ~HasCommand(f, {"BP00"})
    BY <2>1 DEF IsLogin, HasCommand, LookupCommands
  <2>3. Promised(f) = IF HasCommand(f, {"BO01"}) THEN Answer(IdOf(f), "AS01") ELSE NoAnswer
    BY <2>2, Zenon DEF Promised
  <2>4. Answer(IdOf(f), "AS01") \in Unowed /\ NoAnswer \in Unowed
    BY DEF Unowed, AlarmAnswers
  <2> QED  BY <2>1, <2>3, <2>4
<1> QED  BY <1>4, <1>5, <1>6 DEF Process

(* What the protocol promises to the frames of s that were handled.        *)
PromisedTo(s) == [i \in DOMAIN handled[s] |-> Promised(SentText(s, EndOf(s, i)))]

Promises(s) == {Promised(SentText(s, LastCell(q))) : q \in Seq(Nat)}

(* A sequence with one element more, as a function.                        *)
LEMMA AppendIs ==
  ASSUME NEW A, NEW q \in Seq(A), NEW x \in A
  PROVE  Append(q, x) = [i \in 1..(Len(q) + 1) |-> IF i = Len(q) + 1 THEN x ELSE q[i]]
<1> DEFINE N == Len(q)
           r == Append(q, x)
<1>1. N \in Nat /\ \A i \in 1..(N + 1) : i = N + 1 \/ (i \in 1..N /\ i # N + 1)
  OBVIOUS
<1>2. /\ r \in Seq(A) /\ Len(r) = N + 1 /\ r[N + 1] = x
      /\ \A i \in 1..N : r[i] = q[i]
  BY AppendProperties
<1> HIDE DEF r, N
<1>3. r = [i \in 1..(N + 1) |-> r[i]]
  <2>1. r = [i \in 1..Len(r) |-> r[i]]
    BY <1>2
  <2> QED  BY <1>2, <2>1
<1>4. \A i \in 1..(N + 1) : r[i] = IF i = N + 1 THEN x ELSE q[i]
  BY <1>1, <1>2
<1>5. r = [i \in 1..(N + 1) |-> IF i = N + 1 THEN x ELSE q[i]]
  BY <1>3, <1>4
<1> QED  BY <1>5 DEF r, N

(* What is owed for one frame more.                                        *)
LEMMA OwedOfAppend ==
  ASSUME NEW A, NEW q \in Seq(A), NEW x \in A
  PROVE  /\ Owed(<<>>) = <<>>
         /\ Owed(Append(q, x)) =
              IF x \in Unowed THEN Owed(q) ELSE Append(Owed(q), x)
<1>1. /\ Without(<<>>, Unowed) = <<>>
      /\ Without(Append(q, x), Unowed) = KeepUnless(Unowed, x, Without(q, Unowed))
  BY WithoutOfAppend
<1>2. \A r : Owed(r) = Without(r, Unowed)
  BY DEF Owed, Unowed
<1> QED  BY <1>1, <1>2 DEF KeepUnless

(* One frame handled on s is one promise more to its device, and none to   *)
(* any other.                                                              *)
LEMMA OnePromiseMore ==
  ASSUME handled \in [Session -> Seq(Seq(Nat))], NEW s \in Session, NEW q \in Seq(Nat),
         handled' = [handled EXCEPT ![s] = Append(handled[s], q)]
  PROVE  /\ PromisedTo(s) \in Seq(Promises(s))
         /\ Promised(SentText(s, LastCell(q))) \in Promises(s)
         /\ PromisedTo(s)' = Append(PromisedTo(s), Promised(SentText(s, LastCell(q))))
         /\ \A t \in Session : t # s => PromisedTo(t)' = PromisedTo(t)
<1> DEFINE P(r) == Promised(SentText(s, LastCell(r)))
           N == Len(handled[s])
<1>1. /\ N \in Nat /\ DOMAIN handled[s] = 1..N /\ DOMAIN handled'[s] = 1..(N + 1)
      /\ handled'[s][N + 1] = q
      /\ \A i \in 1..N : handled'[s][i] = handled[s][i] /\ handled[s][i] \in Seq(Nat)
      /\ \A t \in Session : t # s => handled'[t] = handled[t]
  OBVIOUS
<1>2. \A r \in Seq(Nat) : P(r) \in Promises(s)
  BY DEF Promises
<1> HIDE DEF P, N
<1>3. PromisedTo(s) = [i \in 1..N |-> P(handled[s][i])]
  BY <1>1 DEF PromisedTo, EndOf, P
<1>4. PromisedTo(s)' = [i \in 1..(N + 1) |-> P(handled'[s][i])]
  BY <1>1 DEF PromisedTo, EndOf, P
<1>5. PromisedTo(s) \in Seq(Promises(s)) /\ Len(PromisedTo(s)) = N
  BY <1>1, <1>2, <1>3
<1>6. PromisedTo(s)' = Append(PromisedTo(s), P(q))
  <2>1. Append(PromisedTo(s), P(q)) =
          [i \in 1..(N + 1) |-> IF i = N + 1 THEN P(q) ELSE PromisedTo(s)[i]]
    BY <1>2, <1>5, AppendIs
  <2>2. \A i \in 1..(N + 1) : i = N + 1 \/ i \in 1..N
    BY <1>1
  <2>3. \A i \in 1..N : PromisedTo(s)[i] = P(handled[s][i])
    BY <1>3
  <2>4. \A i \in 1..(N + 1) :
          P(handled'[s][i]) = IF i = N + 1 THEN P(q) ELSE PromisedTo(s)[i]
    BY <1>1, <2>2, <2>3
  <2> QED  BY <1>4, <2>1, <2>4
<1>7. \A t \in Session : t # s => PromisedTo(t)' = PromisedTo(t)
  BY <1>1 DEF PromisedTo, EndOf
<1> QED  BY <1>2, <1>5, <1>6, <1>7 DEF P

(* No write waits, only a connection that was accepted is handled, and a   *)
(* device that is still there has all its answers.                         *)
AnswersInv ==
  /\ \A s \in Session : pending[s] = <<>>
  /\ \A s \in Session : conn[s] = "none" => handled[s] = <<>> /\ received[s] = <<>>
  /\ running # Idle => conn[running] \in {"open", "gone"}
  /\ \A s \in Session : conn[s] = "open" => received[s] = Owed(PromisedTo(s))

(* A frame that is handled gets its answer in the same step.               *)
LEMMA AnswersHandleStep ==
  ASSUME FramesWellFormed, SocketMayFill = FALSE, DatabaseMayFail = FALSE,
         SessionFacts, NextIsSent, AnswersInv, NEW s \in Session, HandleFrame(s)
  PROVE  AnswersInv'
<1>0. /\ handled \in [Session -> Seq(Seq(Nat))]
      /\ received \in [Session -> Seq(Answers \cup {StaleBytes})]
      /\ running \in Session \cup {Idle} /\ Idle \notin Session
  BY ServiceAssumption DEF SessionFacts, SessionTypeOK
<1>1. PICK q, answer : /\ q = NextFrame(s) /\ FrameAhead(s)
                       /\ Process(Text(s, q), answer)
                       /\ TakeFrame(s, q, answer)
  BY DEF HandleFrame
<1>2. /\ handled' = [handled EXCEPT ![s] = Append(handled[s], q)]
      /\ AsyncWrite(s, answer) /\ UNCHANGED <<conn, running>> /\ running = s
  BY <1>1 DEF TakeFrame
<1>3. q \in Seq(Nat)
  <2>1. q \in Seq(1..Len(Script[s]))
    BY <1>1, NextText
  <2>2. 1..Len(Script[s]) \subseteq Nat
    OBVIOUS
  <2> QED  BY <2>1, <2>2, SeqMonotonic
<1>4. PICK promise : /\ promise = Promised(SentText(s, LastCell(q)))
                     /\ IF promise \in Unowed THEN answer = NoAnswer
                                              ELSE answer = promise
  <2>1. Text(s, q) = SentText(s, LastCell(q))
    BY <1>1, NextTextIsSent
  <2>2. IdOf(SentText(s, LastCell(q))) \in MessageId
    <3>1. PICK c : c = SentText(s, LastCell(q))[2] /\ c \in Cells /\ c.kind = "id"
      BY <1>1, FrameHandled
    <3> QED  BY <3>1, IdCell DEF IdOf
  <2>3. PICK g : g = SentText(s, LastCell(q)) /\ IdOf(g) \in MessageId
                 /\ Process(g, answer)
    BY <1>1, <2>1, <2>2
  <2>4. IF Promised(g) \in Unowed THEN answer = NoAnswer ELSE answer = Promised(g)
    BY <2>3, AnswerPromised
  <2> QED  BY <2>3, <2>4
<1>5. /\ PromisedTo(s) \in Seq(Promises(s)) /\ promise \in Promises(s)
      /\ PromisedTo(s)' = Append(PromisedTo(s), promise)
      /\ \A t \in Session : t # s => PromisedTo(t)' = PromisedTo(t)
  BY <1>0, <1>2, <1>3, <1>4, OnePromiseMore
<1>6. Owed(PromisedTo(s)') =
        IF answer = NoAnswer THEN Owed(PromisedTo(s))
                             ELSE Append(Owed(PromisedTo(s)), answer)
  <2>1. Owed(PromisedTo(s)') =
          IF promise \in Unowed THEN Owed(PromisedTo(s))
                                ELSE Append(Owed(PromisedTo(s)), promise)
    BY <1>5, OwedOfAppend
  <2>2. NoAnswer \in Unowed
    BY DEF Unowed
  <2> QED  BY <1>4, <2>1, <2>2
<1>7. /\ pending[s] = <<>> /\ UNCHANGED pending
      /\ \A t \in Session : t # s => received'[t] = received[t] /\ handled'[t] = handled[t]
      /\ conn[s] = "open" =>
           received'[s] = IF answer = NoAnswer THEN received[s] ELSE Append(received[s], answer)
  BY <1>0, <1>2 DEF AsyncWrite, AnswersInv
<1>8. conn[s] \in {"open", "gone"}
  BY <1>0, <1>2 DEF AnswersInv
<1>9. conn'[s] = "open" => received'[s] = Owed(PromisedTo(s)')
  BY <1>2, <1>6, <1>7 DEF AnswersInv
<1>10. \A t \in Session : conn'[t] = "open" => received'[t] = Owed(PromisedTo(t)')
  BY <1>2, <1>5, <1>7, <1>9 DEF AnswersInv
<1>11. \A t \in Session : conn'[t] = "none" => handled'[t] = <<>> /\ received'[t] = <<>>
  BY <1>2, <1>7, <1>8 DEF AnswersInv
<1>12. running' # Idle => conn'[running'] \in {"open", "gone"}
  BY <1>2, <1>8
<1>13. \A t \in Session : pending'[t] = <<>>
  BY <1>7 DEF AnswersInv
<1> QED
  <2>1. \A t \in Session : conn'[t] = "open" => received'[t] = Owed(PromisedTo(t))'
    BY <1>10 DEF Owed
  <2> QED  BY <1>11, <1>12, <1>13, <2>1 DEF AnswersInv

(* No other step answers anything.                                         *)
LEMMA AnswersOtherStep ==
  ASSUME SessionFacts, AnswersInv, NEW s \in Session,
         Read(s) \/ Ask(s) \/ Terminate(s) \/ SessionStep(s)
  PROVE  AnswersInv'
<1>0. /\ conn \in [Session -> {"none", "open", "gone", "closed"}]
      /\ running \in Session \cup {Idle} /\ Idle \notin Session
  BY ServiceAssumption DEF SessionFacts, SessionTypeOK
<1>1. /\ UNCHANGED <<handled, pending, received>>
      /\ \A t \in Session : conn'[t] = "none" => conn[t] = "none"
      /\ \A t \in Session : conn'[t] = "open" => conn[t] \in {"open", "none"}
      /\ running' # Idle => conn'[running'] \in {"open", "gone"}
  <2>1. CASE Read(s)
    <3>1. PICK n : ReadSome(s, n)
      BY <2>1 DEF Read
    <3> QED  BY <3>1, <1>0 DEF ReadSome
  <2>2. CASE Ask(s) \/ Terminate(s)
    BY <1>0, <2>2 DEF Ask, Terminate, serverVars, AnswersInv
  <2>3. CASE Accept(s)
    BY <1>0, <2>3 DEF Accept
  <2>4. CASE HangUp(s)
    BY <1>0, <2>4 DEF HangUp, AnswersInv
  <2>5. CASE ReadError(s)
    BY <1>0, <2>5 DEF ReadError
  <2>6. CASE FinishRead(s) \/ Overrun(s)
    BY <1>0, <2>6 DEF FinishRead, Overrun, AnswersInv
  <2>7. CASE WriteDone(s)
    BY <2>7 DEF WriteDone, AnswersInv
  <2> QED  BY <2>1, <2>2, <2>3, <2>4, <2>5, <2>6, <2>7 DEF SessionStep
<1>2. \A t \in Session : PromisedTo(t)' = PromisedTo(t)
  BY <1>1 DEF PromisedTo, EndOf
<1>3. ASSUME NEW t \in Session, conn[t] = "none"
      PROVE  received[t] = Owed(PromisedTo(t))
  <2>1. handled[t] = <<>> /\ received[t] = <<>>
    BY <1>3 DEF AnswersInv
  <2>2. PromisedTo(t) = <<>>
    BY <2>1 DEF PromisedTo
  <2>3. <<>> \in Seq({0}) /\ 0 \in {0}
    OBVIOUS
  <2>4. Owed(<<>>) = <<>>
    BY <2>3, OwedOfAppend
  <2> QED  BY <2>1, <2>2, <2>4
<1>4. \A t \in Session : conn'[t] = "open" => received'[t] = Owed(PromisedTo(t))'
  BY <1>1, <1>2, <1>3 DEF AnswersInv, Owed
<1> QED  BY <1>1, <1>4 DEF AnswersInv

(* While the kernel takes every write, the database answers and no read    *)
(* ends inside a frame, a device that stays connected has received what    *)
(* the protocol promises for each frame it sent and that was handled,      *)
(* alarms apart, on its own connection, in the order of the frames, and    *)
(* nothing else.                                                           *)
THEOREM AnswersCompleteCorrect ==
  FramesWellFormed /\ SplitReads = FALSE /\ SocketMayFill = FALSE
    /\ DatabaseMayFail = FALSE => (Spec => []AnswersComplete)
<1> SUFFICES ASSUME FramesWellFormed, SplitReads = FALSE, SocketMayFill = FALSE,
                    DatabaseMayFail = FALSE
             PROVE  Spec => []AnswersComplete
  OBVIOUS
<1>1. Init => AnswersInv
  BY DEF Init, SessionInit, AnswersInv
<1>2. SessionFacts /\ NextIsSent /\ AnswersInv /\ [Next]_vars => AnswersInv'
  <2> SUFFICES ASSUME SessionFacts, NextIsSent, AnswersInv, [Next]_vars PROVE AnswersInv'
    OBVIOUS
  <2>1. ASSUME UNCHANGED vars PROVE AnswersInv'
    <3>1. UNCHANGED <<conn, running, handled, pending, received>>
      BY <2>1 DEF vars, serverVars
    <3>2. \A t \in Session : Owed(PromisedTo(t))' = Owed(PromisedTo(t))
      BY <3>1 DEF PromisedTo, EndOf, Owed
    <3> QED  BY <3>1, <3>2 DEF AnswersInv
  <2> QED  BY <2>1, AnswersHandleStep, AnswersOtherStep DEF Next
<1>3. AnswersInv => AnswersComplete
  BY DEF AnswersInv, AnswersComplete, PromisedTo
<1> QED  BY <1>1, <1>2, <1>3, SessionFactsHold, NextIsSentHolds, PTL DEF Spec
-----------------------------------------------------------------------------
(* The frames of a stream are the same in both modules.                    *)
LEMMA SameFrames == Sessions!SentFrames = DeviceFrames
BY DEF DeviceFrames, Sessions!SentFrames, SentFrames, Sessions!SentFrame, SentFrame,
       Sessions!Sent, Sent, Sessions!Trim, Trim, Sessions!IsClose, IsClose,
       Sessions!IsBlank, IsBlank, Sessions!Cardinality, Cardinality


(* Reads that end with whole frames hand the plugin exactly the frames of  *)
(* the device, whole, once each and in order: each step of the service is  *)
(* one of Framing, or changes nothing there.                               *)
THEOREM WholeFramesStepwise ==
  SplitReads = FALSE =>
    (Spec => Whole!FramingInit /\ [][Whole!FramingNext]_(Whole!framingVars))
<1> SUFFICES ASSUME SplitReads = FALSE
             PROVE  Spec => Whole!FramingInit /\ [][Whole!FramingNext]_(Whole!framingVars)
  OBVIOUS
<1>1. Init => Whole!FramingInit
  BY DEF Init, SessionInit, Whole!FramingInit
<1>2. Sessions!SessionSpec => []Sessions!NextFrameInTurn
  BY SessionAssumptionHolds, Sessions!NextFrameInTurnCorrect
<1>3. ASSUME SessionFacts, Sessions!NextFrameInTurn, [Next]_vars
      PROVE  [Whole!FramingNext]_(Whole!framingVars)
  <2>0. pos \in [Session -> Nat] /\ handled \in [Session -> Seq(Seq(Nat))]
    BY <1>3 DEF SessionFacts, SessionTypeOK
  <2>1. ASSUME NEW s \in Session, Read(s)
        PROVE  Whole!FramingNext
    <3>1. PICK n \in 1..(Len(Script[s]) - pos[s]) : ReadSome(s, n)
      BY <2>1 DEF Read
    <3>2. /\ pos' = [pos EXCEPT ![s] = pos[s] + n] /\ UNCHANGED handled
          /\ n \in Nat /\ n > 0
      BY <2>0, <3>1, ServiceAssumption DEF ReadSome
    <3>3. pos'[s] = pos[s] + n /\ pos'[s] > pos[s]
      BY <2>0, <3>2
    <3> QED  BY <3>2, <3>3 DEF Whole!FramingNext, Whole!Arrive
  <2>2. ASSUME NEW s \in Session, HandleFrame(s)
        PROVE  Whole!FramingNext
    <3>1. /\ FrameAhead(s)
          /\ handled' = [handled EXCEPT ![s] = Append(handled[s], NextFrame(s))]
          /\ UNCHANGED pos
      BY <2>2 DEF HandleFrame, TakeFrame
    <3>2. Sessions!FrameComing(s)
      BY <3>1 DEF FrameAhead, Sessions!FrameComing, FirstCloseAt, Sessions!FirstCloseAt,
             IsClose, Sessions!IsClose
    <3>3. Sessions!SentFrames = DeviceFrames
      BY SameFrames
    <3> DEFINE next == Len(handled[s]) + 1
               q == NextFrame(s)
    <3>4. /\ next \in 1..Len(DeviceFrames[s])
          /\ LastCell(q) <= pos[s]
          /\ DeviceFrames[s][next] = <<LastCell(q), q>>
      BY <1>3, <3>2, <3>3, SameNextFrame
         DEF Sessions!NextFrameInTurn, LastCell, Sessions!LastCell
    <3>5. next <= Len(DeviceFrames[s])
      BY <2>0, <3>4
    <3> HIDE DEF next, q
    <3>6. DeviceFrames[s][next][1] = LastCell(q) /\ DeviceFrames[s][next][2] = q
      BY <3>4
    <3>7. handled' = [handled EXCEPT ![s] = Append(handled[s], q)]
      BY <3>1 DEF q
    <3> QED  BY <3>1, <3>4, <3>5, <3>6, <3>7 DEF Whole!FramingNext, Whole!See, next
  <2>3. ASSUME NEW s \in Session, Ask(s) \/ Terminate(s) \/ SessionStep(s)
        PROVE  UNCHANGED Whole!framingVars
    BY <2>3 DEF Ask, Terminate, serverVars, SessionStep, Accept, HangUp, ReadError,
                FinishRead, Overrun, WriteDone, Whole!framingVars
  <2>4. CASE UNCHANGED vars
    BY <2>4 DEF vars, serverVars, Whole!framingVars
  <2> QED  BY <1>3, <2>1, <2>2, <2>3, <2>4 DEF Next
<1> QED  BY <1>1, <1>2, <1>3, SessionFactsHold, ServiceImplementsSessions, PTL DEF Spec
=============================================================================
