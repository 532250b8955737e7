------------------------- MODULE NanoLogQueueProofs -------------------------
(***************************************************************************)
(* What NanoLogQueue promises, for any number of threads and lines and any *)
(* size of the buffers: the shape of its state whatever happens, and, until*)
(* a freed buffer is accessed, that the file has the lines in the order of *)
(* their claims, that no two threads write to one slot and none to a freed *)
(* one, that one thread opens each buffer, and that a shutdown in a quiet  *)
(* moment loses no line.                                                   *)
(*                                                                         *)
(* Slots are numbered through the buffers: slot i of buffer b has place    *)
(* Base(b) + i + 1.  Claims are made in the order of the places; the slots *)
(* before the last claim are ready but for those that some thread has still*)
(* to flag; the reader has taken the slots up to some place, all of them   *)
(* ready, and freed the buffers before it.                                 *)
(***************************************************************************)
EXTENDS NanoLogQueue, FiniteSetTheorems, TLAPS

-----------------------------------------------------------------------------
(* The shape of the state, and what it takes to keep it.                   *)
HoldsSlot(p) == pc[p] \in {"load", "write", "flag", "count"}

Retiring == reader \in {"retire", "drain retire"}

ShapeInv ==
  /\ QueueTypeOK
  /\ \A p \in Producer : pc[p] # "idle" => line[p] >= 1
  /\ \A p \in Producer : HoldsSlot(p) => index[p] \in Slots
  /\ reading # 0 \/ Retiring => buffers # <<>>
  /\ Retiring => reading = 0
  /\ reader \in {"drain", "drain retire", "done"} => state = "SHUTDOWN"

(* Every line that is past the claim of its slot has one.                  *)
LinesClaimed ==
  \A p \in Producer : \A n \in 1..line[p] :
    n < line[p] \/ pc[p] \notin {"claim", "spin"} =>
      \E k \in 1..Len(claimed) : claimed[k] = <<p, n>>

-----------------------------------------------------------------------------
(* How many slots there are before buffer b.                               *)
Base(b) == (b - 1) * Size

Unflagged(p) == pc[p] \in {"load", "write", "flag"}

Opening(p) == pc[p] \in {"setup", "enqueue"}

(* The buffer whose slots are claimed: the current one, but for the moment *)
(* between the two steps that open the next.                               *)
Open == IF \E p \in Producer : pc[p] = "enqueue" THEN current - 1 ELSE current

(* How many of its slots have been claimed, and those that are counted.    *)
Filled == IF writeIndex < Size THEN writeIndex ELSE Size

Counted == {i \in 0..(Filled - 1) : \A p \in Producer : HoldsSlot(p) => index[p] # i}

(* Slots are claimed in the open buffer, each by one thread, and the thread *)
(* that counts the last one opens the next buffer.                          *)
ClaimInv ==
  /\ Open \in Buffers
  /\ Len(claimed) = Base(Open) + Filled
  /\ \A p \in Producer : HoldsSlot(p) =>
       /\ index[p] < Filled
       /\ claimed[Base(Open) + index[p] + 1] = <<p, line[p]>>
       /\ pc[p] # "load" => buffer[p] = Open
  /\ \A p, q \in Producer : HoldsSlot(p) /\ HoldsSlot(q) /\ index[p] = index[q] => p = q
  /\ count[Open] = Cardinality(Counted)
  /\ \A b \in Buffers : b > Open => count[b] = 0
  /\ \A p, q \in Producer : Opening(p) /\ Opening(q) => p = q
  /\ \A p \in Producer : Opening(p) => count[Open] = Size
  /\ \A p \in Producer : pc[p] = "enqueue" => buffer[p] = Open + 1 /\ current = Open + 1
  /\ (\A p \in Producer : pc[p] # "enqueue") => current = Open

(* A slot is ready when it has been claimed and no thread has yet to flag  *)
(* it, and then it has the line of the claim.                              *)
ReadyInv ==
  /\ \A b \in Buffers, i \in Slots :
       ready[b][i] <=>
         /\ Base(b) + i + 1 <= Len(claimed)
         /\ b = Open => \A p \in Producer : Unflagged(p) => index[p] # i
  /\ \A b \in Buffers, i \in Slots :
       ready[b][i] => slots[b][i] = claimed[Base(b) + i + 1]
  /\ \A p \in Producer : pc[p] = "flag" => slots[Open][index[p]] = <<p, line[p]>>

(* How many buffers the reader has freed, and the one it reads.            *)
Gone == Open - Len(buffers)

ReadBuffer == IF Retiring THEN Gone + 2 ELSE Gone + 1

(* The reader has written the first lines that were claimed, and is at the *)
(* first slot of the buffer it reads that it has not taken.                *)
ReaderInv ==
  /\ Len(buffers) <= Open
  /\ \A i \in 1..Len(buffers) : buffers[i] = Gone + i
  /\ freed = 1..Gone
  /\ reading # 0 => reading = Gone + 1
  /\ reading = 0 => readIndex = 0
  /\ Len(out) = Base(ReadBuffer) + readIndex
  /\ Len(out) <= Len(claimed)
  /\ \A k \in 1..Len(out) : out[k] = claimed[k]
  /\ \A b \in Buffers, i \in Slots : Base(b) + i + 1 <= Len(out) => ready[b][i]

(* The lines due at a quiet shutdown are ready, up to some place, and the  *)
(* reader does not stop before it.                                         *)
DueUpTo(k) ==
  /\ \A l \in due : \E j \in 1..k : claimed[j] = l
  /\ \A b \in Buffers, i \in Slots : Base(b) + i + 1 <= k => ready[b][i]
  /\ reader = "done" => k <= Len(out)

QuietInv ==
  state = "SHUTDOWN" /\ quiet => \E k \in 0..Len(claimed) : DueUpTo(k)

QueueInv ==
  /\ ShapeInv
  /\ LinesClaimed
  /\ ~uaf => ClaimInv /\ ReadyInv /\ ReaderInv /\ QuietInv

-----------------------------------------------------------------------------
(* Numbers of buffers and of slots.                                        *)
LEMMA BuffersAre ==
  /\ Buffers \subseteq Nat \ {0}
  /\ 1 \in Buffers
  /\ \A b \in Buffers, c \in Nat \ {0} : c <= b => c \in Buffers
<1>1. Cardinality(Producer) \in Nat /\ Lines \in Nat
  BY NanoLogQueueAssumption, FS_CardinalityType
<1>2. Cardinality(Producer) * Lines \in Nat
  BY <1>1
<1> QED
  BY <1>2 DEF Buffers

(* The buffers lie one after the other.                                    *)
LEMMA BaseNext ==
  ASSUME NEW b \in Int
  PROVE  Base(b) \in Int /\ Base(b + 1) = Base(b) + Size
<1>1. Size \in Nat \ {0}
  BY NanoLogQueueAssumption
<1>2. ((b + 1) - 1) * Size = (b - 1) * Size + Size
  BY <1>1
<1> QED
  BY <1>1, <1>2 DEF Base

(* The first buffer begins with the first line,                            *)
LEMMA BaseFirst == Base(1) = 0
  BY NanoLogQueueAssumption DEF Base

(* a later one behind all the slots of an earlier one,                     *)
LEMMA BaseGrows ==
  ASSUME NEW b \in Int, NEW c \in Int, b < c
  PROVE  Base(b) + Size <= Base(c)
<1>1. Size \in Nat \ {0}
  BY NanoLogQueueAssumption
<1>2. (c - b) \in Nat /\ c - b >= 1
  OBVIOUS
<1>3. (c - b) * Size >= Size
  BY <1>1, <1>2
<1>4. (c - 1) * Size = (b - 1) * Size + (c - b) * Size
  BY <1>1
<1> QED
  BY <1>1, <1>3, <1>4 DEF Base

(* and each of them with a natural number.                                 *)
LEMMA BaseNat ==
  ASSUME NEW b \in Nat \ {0}
  PROVE  Base(b) \in Nat
<1>1. Size \in Nat /\ Base(b) \in Int
  BY NanoLogQueueAssumption, BaseNext
<1>2. CASE b = 1
  BY <1>2, BaseFirst
<1>3. CASE b > 1
  <2>1. Base(1) + Size <= Base(b)
    BY <1>3, BaseGrows
  <2> QED
    BY <1>1, <2>1, BaseFirst
<1> QED
  BY <1>2, <1>3

(* A place belongs to one slot of one buffer.                              *)
LEMMA OnePlace ==
  ASSUME NEW b \in Int, NEW c \in Int, NEW i \in Slots, NEW j \in Slots,
         Base(b) + i = Base(c) + j
  PROVE  b = c /\ i = j
<1>1. Size \in Nat \ {0} /\ Base(b) \in Int /\ Base(c) \in Int
  BY NanoLogQueueAssumption, BaseNext
<1>2. i \in Nat /\ j \in Nat /\ i < Size /\ j < Size
  BY <1>1 DEF Slots
<1>3. ~(b < c)
  BY <1>1, <1>2, BaseGrows
<1>4. ~(c < b)
  BY <1>1, <1>2, BaseGrows
<1>5. b = c
  BY <1>3, <1>4
<1> QED
  BY <1>1, <1>2, <1>5

-----------------------------------------------------------------------------
(* Sequences keep their kind.                                              *)
LEMMA AppendKind ==
  ASSUME NEW S, NEW q \in Seq(S), NEW x \in S
  PROVE  Append(q, x) \in Seq(S)
  OBVIOUS

(* So do taking the first away and what is left.                           *)
LEMMA HeadTailKind ==
  ASSUME NEW S, NEW q \in Seq(S), q # <<>>
  PROVE  Head(q) \in S /\ Tail(q) \in Seq(S)
  OBVIOUS

(* The slot after one that is not the last.                                *)
LEMMA NextSlot ==
  /\ 0 \in Slots
  /\ \A i \in Slots : i + 1 # Size => i + 1 \in Slots
  BY NanoLogQueueAssumption DEF Slots

(* Every step of a push keeps the shape of the state.                      *)
PushPlaces == {"idle", "claim", "spin", "load", "write", "flag", "count", "setup", "enqueue"}

LinesOf == Producer \X (1..Lines)

(* Each action of a producer keeps the shape.                              *)
LEMMA PushShape ==
  ASSUME ShapeInv, NEW p \in Producer, Push(p)
  PROVE  ShapeInv'
<1>1. UNCHANGED <<popVars, downVars>>
  BY DEF Push
<1>2. reading # 0 \/ Retiring => buffers' # <<>>
  <2>1. CASE Enqueue(p)
    <3>1. buffers' = Append(buffers, buffer[p]) /\ buffers \in Seq(Buffers)
      BY <2>1 DEF Enqueue, ShapeInv, QueueTypeOK
    <3> QED
      BY <3>1
  <2>2. CASE UNCHANGED buffers
    BY <2>2 DEF ShapeInv
  <2> QED
    BY <2>1, <2>2 DEF Push
<1>3. ASSUME QueueTypeOK',
             \A q \in Producer : pc'[q] # "idle" => line'[q] >= 1,
             \A q \in Producer : HoldsSlot(q)' => index'[q] \in Slots
      PROVE  ShapeInv'
  BY <1>1, <1>2, <1>3 DEF ShapeInv, Retiring, popVars, downVars
<1>4. /\ pc \in [Producer -> PushPlaces] /\ line \in [Producer -> 0..Lines]
      /\ index \in [Producer -> Nat] /\ buffer \in [Producer -> Buffers]
      /\ slots \in [Buffers -> [Slots -> LinesOf \cup {NoLine}]]
      /\ ready \in [Buffers -> [Slots -> BOOLEAN]]
      /\ count \in [Buffers -> Nat] /\ current \in Buffers /\ writeIndex \in Nat
      /\ uaf \in BOOLEAN /\ buffers \in Seq(Buffers)
      /\ Size \in Nat \ {0} /\ Lines \in Nat
  BY NanoLogQueueAssumption DEF ShapeInv, QueueTypeOK, PushPlaces, LinesOf
<1>5. claimed \in Seq(LinesOf)
  BY DEF ShapeInv, QueueTypeOK, LinesOf
<1>6. pc[p] # "idle" => <<p, line[p]>> \in LinesOf
  <2>1. line[p] \in 0..Lines /\ (pc[p] # "idle" => line[p] >= 1)
    BY <1>4 DEF ShapeInv
  <2>2. pc[p] # "idle" => line[p] \in 1..Lines
    BY <2>1, <1>4
  <2> QED
    BY <2>2 DEF LinesOf
<1>7. ASSUME pc' \in [Producer -> PushPlaces], line' \in [Producer -> 0..Lines],
             index' \in [Producer -> Nat], buffer' \in [Producer -> Buffers],
             slots' \in [Buffers -> [Slots -> LinesOf \cup {NoLine}]],
             ready' \in [Buffers -> [Slots -> BOOLEAN]],
             count' \in [Buffers -> Nat], current' \in Buffers, writeIndex' \in Nat,
             claimed' \in Seq(LinesOf), uaf' \in BOOLEAN, buffers' \in Seq(Buffers)
      PROVE  QueueTypeOK'
  BY <1>1, <1>7 DEF ShapeInv, QueueTypeOK, PushPlaces, LinesOf, popVars, downVars
<1>8. \A q \in Producer : HoldsSlot(q) => index[q] \in Slots
  BY DEF ShapeInv
<1>9. \A q \in Producer : pc[q] # "idle" => line[q] >= 1
  BY DEF ShapeInv
<1>10. CASE Log(p) /\ UNCHANGED buffers
  <2>1. /\ pc[p] = "idle" /\ line[p] < Lines
        /\ line' = [line EXCEPT ![p] = line[p] + 1]
        /\ pc' = [pc EXCEPT ![p] = "claim"]
        /\ UNCHANGED <<index, buffer, slots, ready, count, current, writeIndex, claimed, uaf>>
    BY <1>10 DEF Log, Go
  <2>2. line' \in [Producer -> 0..Lines] /\ pc' \in [Producer -> PushPlaces]
    BY <1>4, <2>1 DEF PushPlaces
  <2>3. QueueTypeOK'
    BY <1>4, <1>5, <1>7, <1>10, <2>1, <2>2
  <2>4. \A q \in Producer : pc'[q] # "idle" => line'[q] >= 1
    BY <1>4, <1>9, <2>1
  <2>5. \A q \in Producer : HoldsSlot(q)' => index'[q] \in Slots
    BY <1>4, <1>8, <2>1 DEF HoldsSlot
  <2> QED
    BY <1>3, <2>3, <2>4, <2>5
<1>11. CASE Claim(p) /\ UNCHANGED buffers
  <2>1. /\ pc[p] = "claim"
        /\ index' = [index EXCEPT ![p] = writeIndex]
        /\ writeIndex' = writeIndex + 1
        /\ UNCHANGED <<line, buffer, slots, ready, count, current, uaf>>
    BY <1>11 DEF Claim
  <2>2. /\ index' \in [Producer -> Nat] /\ writeIndex' \in Nat
    BY <1>4, <2>1
  <2>3. \/ /\ writeIndex < Size /\ pc' = [pc EXCEPT ![p] = "load"]
           /\ claimed' = Append(claimed, <<p, line[p]>>)
        \/ pc' = [pc EXCEPT ![p] = "spin"] /\ claimed' = claimed
    BY <1>11 DEF Claim, Go
  <2>4. pc' \in [Producer -> PushPlaces] /\ claimed' \in Seq(LinesOf)
    <3>1. <<p, line[p]>> \in LinesOf
      BY <1>6, <2>1
    <3>2. Append(claimed, <<p, line[p]>>) \in Seq(LinesOf)
      BY <1>5, <3>1, AppendKind
    <3> QED
      BY <1>4, <1>5, <2>3, <3>2 DEF PushPlaces
  <2>5. QueueTypeOK'
    BY <1>4, <1>7, <1>11, <2>1, <2>2, <2>4
  <2>6. \A q \in Producer : pc'[q] # "idle" => line'[q] >= 1
    BY <1>4, <1>9, <2>1, <2>3
  <2>7. \A q \in Producer : HoldsSlot(q)' => index'[q] \in Slots
    BY <1>4, <1>8, <2>1, <2>3 DEF HoldsSlot, Slots
  <2> QED
    BY <1>3, <2>5, <2>6, <2>7
<1>12. CASE (Spin(p) \/ Load(p) \/ Setup(p) \/ Enqueue(p))
            /\ (UNCHANGED buffers \/ Enqueue(p))
  <2>1. /\ pc[p] \in {"spin", "load", "setup", "enqueue"}
        /\ \E label \in PushPlaces :
             /\ pc' = [pc EXCEPT ![p] = label]
             /\ label \in {"load", "write", "flag", "count"} => pc[p] = "load"
        /\ UNCHANGED <<line, index, slots, ready, count, claimed, uaf>>
    BY <1>12 DEF Spin, Load, Setup, Enqueue, Go, PushPlaces
  <2>2. \/ UNCHANGED <<buffer, current>>
        \/ buffer' = [buffer EXCEPT ![p] = current] /\ UNCHANGED current
        \/ /\ buffer' = [buffer EXCEPT ![p] = current + 1]
           /\ current' = current + 1 /\ current + 1 \in Buffers
    BY <1>12 DEF Spin, Load, Setup, Enqueue
  <2>3. writeIndex' \in Nat
    BY <1>4, <1>12 DEF Spin, Load, Setup, Enqueue
  <2>4. buffers' \in Seq(Buffers)
    <3>1. Append(buffers, buffer[p]) \in Seq(Buffers)
      BY <1>4, AppendKind
    <3>2. buffers' = buffers \/ buffers' = Append(buffers, buffer[p])
      BY <1>12 DEF Enqueue
    <3> QED
      BY <1>4, <3>1, <3>2
  <2>5. pc' \in [Producer -> PushPlaces]
    BY <1>4, <2>1
  <2>6. buffer' \in [Producer -> Buffers] /\ current' \in Buffers
    BY <1>4, <2>2
  <2>7. QueueTypeOK'
    BY <1>4, <1>5, <1>7, <2>1, <2>3, <2>4, <2>5, <2>6
  <2>8. \A q \in Producer : pc'[q] # "idle" => line'[q] >= 1
    BY <1>4, <1>9, <2>1
  <2>9. \A q \in Producer : HoldsSlot(q)' => index'[q] \in Slots
    BY <1>4, <1>8, <2>1 DEF HoldsSlot
  <2> QED
    BY <1>3, <2>7, <2>8, <2>9
<1>13. CASE (Write(p) \/ Flag(p) \/ Count(p)) /\ UNCHANGED buffers
  <2>1. /\ pc[p] \in {"write", "flag", "count"}
        /\ \E label \in PushPlaces : pc' = [pc EXCEPT ![p] = label]
        /\ UNCHANGED <<line, index, buffer, current, writeIndex, claimed>>
        /\ uaf' = (uaf \/ buffer[p] \in freed)
    BY <1>13 DEF Write, Flag, Count, Go, PushPlaces
  <2>2. index[p] \in Slots /\ buffer[p] \in Buffers
    BY <1>4, <1>8, <2>1 DEF HoldsSlot
  <2>3. slots' \in [Buffers -> [Slots -> LinesOf \cup {NoLine}]]
    <3>1. CASE UNCHANGED slots
      BY <1>4, <3>1
    <3>2. CASE slots' = [slots EXCEPT ![buffer[p]][index[p]] = <<p, line[p]>>]
      BY <1>4, <1>6, <2>1, <2>2, <3>2
    <3> QED
      BY <1>13, <3>1, <3>2 DEF Write, Flag, Count
  <2>4. ready' \in [Buffers -> [Slots -> BOOLEAN]]
    <3>1. CASE UNCHANGED ready
      BY <1>4, <3>1
    <3>2. CASE ready' = [ready EXCEPT ![buffer[p]][index[p]] = TRUE]
      BY <1>4, <2>2, <3>2
    <3> QED
      BY <1>13, <3>1, <3>2 DEF Write, Flag, Count
  <2>5. count' \in [Buffers -> Nat]
    <3>1. count' = count \/ count' = [count EXCEPT ![buffer[p]] = count[buffer[p]] + 1]
      BY <1>13 DEF Write, Flag, Count
    <3>2. count[buffer[p]] + 1 \in Nat
      BY <1>4, <2>2
    <3> QED
      BY <1>4, <3>1, <3>2
  <2>6. pc' \in [Producer -> PushPlaces] /\ uaf' \in BOOLEAN
    BY <1>4, <2>1
  <2>7. QueueTypeOK'
    BY <1>4, <1>5, <1>7, <1>13, <2>1, <2>3, <2>4, <2>5, <2>6
  <2>8. \A q \in Producer : pc'[q] # "idle" => line'[q] >= 1
    BY <1>4, <1>9, <2>1
  <2>9. \A q \in Producer : HoldsSlot(q)' => index'[q] \in Slots
    BY <1>4, <1>8, <2>1, <2>2 DEF HoldsSlot
  <2> QED
    BY <1>3, <2>7, <2>8, <2>9
<1> QED
  BY <1>10, <1>11, <1>12, <1>13 DEF Push

(* So does every step of the reader, which reads only what is there.       *)
LEMMA PopShape ==
  ASSUME ShapeInv, PopLoop
  PROVE  ShapeInv'
<1>1. /\ UNCHANGED <<pushVars, downVars>>
      /\ NextReadBuffer \/ Pop \/ Retire \/ SeeShutdown \/ EndDrain
  BY DEF PopLoop
<1>2. /\ buffers \in Seq(Buffers) /\ freed \subseteq Buffers
      /\ reading \in Buffers \cup {0} /\ readIndex \in Slots
      /\ reader \in {"pop", "retire", "drain", "drain retire", "done"}
      /\ out \in Seq(LinesOf \cup {NoLine})
      /\ slots \in [Buffers -> [Slots -> LinesOf \cup {NoLine}]]
      /\ Size \in Nat \ {0}
      /\ reading # 0 \/ Retiring => buffers # <<>>
      /\ Retiring => reading = 0
      /\ reader \in {"drain", "drain retire", "done"} => state = "SHUTDOWN"
  BY NanoLogQueueAssumption DEF ShapeInv, QueueTypeOK, LinesOf
<1>3. ASSUME buffers' \in Seq(Buffers), freed' \subseteq Buffers,
             reading' \in Buffers \cup {0}, readIndex' \in Slots,
             reader' \in {"pop", "retire", "drain", "drain retire", "done"},
             out' \in Seq(LinesOf \cup {NoLine}),
             reading' # 0 \/ Retiring' => buffers' # <<>>,
             Retiring' => reading' = 0,
             reader' \in {"drain", "drain retire", "done"} => state = "SHUTDOWN"
      PROVE  ShapeInv'
  <2>1. QueueTypeOK'
    BY <1>1, <1>3 DEF ShapeInv, QueueTypeOK, LinesOf, pushVars, downVars
  <2>2. /\ \A p \in Producer : pc'[p] # "idle" => line'[p] >= 1
        /\ \A p \in Producer : HoldsSlot(p)' => index'[p] \in Slots
    BY <1>1 DEF ShapeInv, HoldsSlot, pushVars
  <2> QED
    BY <1>1, <1>3, <2>1, <2>2 DEF ShapeInv, downVars
<1>4. CASE NextReadBuffer
  <2>1. Head(buffers) \in Buffers
    BY <1>2, <1>4, HeadTailKind DEF NextReadBuffer
  <2> QED
    BY <1>2, <1>3, <1>4, <2>1 DEF NextReadBuffer, Popping, Retiring
<1>5. CASE Pop
  <2>1. /\ reading \in Buffers /\ buffers # <<>>
        /\ out' = Append(out, slots[reading][readIndex])
        /\ UNCHANGED <<freed, buffers>>
    BY <1>2, <1>5 DEF Pop, LineReady
  <2>2. out' \in Seq(LinesOf \cup {NoLine})
    <3>1. slots[reading][readIndex] \in LinesOf \cup {NoLine}
      BY <1>2, <2>1
    <3> QED
      BY <1>2, <2>1, <3>1, AppendKind
  <2>3. CASE readIndex + 1 = Size
    <3>1. readIndex' = 0 /\ reading' = 0 /\ 0 \in Slots
      BY <1>5, <2>3, NextSlot DEF Pop
    <3>2. reader' = IF reader = "pop" THEN "retire" ELSE "drain retire"
      BY <1>5, <2>3 DEF Pop
    <3>3. reader' = "drain retire" => state = "SHUTDOWN"
      BY <1>2, <1>5, <3>2 DEF Pop, Popping
    <3> QED
      BY <1>2, <1>3, <2>1, <2>2, <3>1, <3>2, <3>3
  <2>4. CASE readIndex + 1 # Size
    <3>1. readIndex' = readIndex + 1 /\ UNCHANGED <<reading, reader>>
      BY <1>5, <2>4 DEF Pop
    <3>2. readIndex' \in Slots
      BY <1>2, <2>4, <3>1, NextSlot
    <3>3. reader # "retire" /\ reader # "drain retire"
      BY <1>5 DEF Pop, Popping
    <3> QED
      BY <1>2, <1>3, <2>1, <2>2, <3>1, <3>2, <3>3 DEF Retiring
  <2> QED
    BY <2>3, <2>4
<1>6. CASE Retire
  <2>1. buffers # <<>> /\ Retiring
    BY <1>2, <1>6 DEF Retire, Retiring
  <2>2. Head(buffers) \in Buffers /\ Tail(buffers) \in Seq(Buffers)
    BY <1>2, <2>1, HeadTailKind
  <2>3. /\ freed' = freed \cup {Head(buffers)} /\ buffers' = Tail(buffers)
        /\ reader' = IF reader = "retire" THEN "pop" ELSE "drain"
        /\ UNCHANGED <<reading, readIndex, out>>
    BY <1>6 DEF Retire
  <2>4. reading = 0
    BY <2>1 DEF ShapeInv
  <2> QED
    BY <1>2, <1>3, <2>1, <2>2, <2>3, <2>4 DEF Retiring
<1>7. CASE SeeShutdown \/ EndDrain
  BY <1>2, <1>3, <1>7 DEF SeeShutdown, EndDrain, Retiring
<1> QED
  BY <1>1, <1>4, <1>5, <1>6, <1>7

-----------------------------------------------------------------------------
(* What the shape says of the values the invariant is about.               *)
LEMMA Shapes ==
  ASSUME ShapeInv
  PROVE  /\ pc \in [Producer -> PushPlaces] /\ line \in [Producer -> 0..Lines]
         /\ index \in [Producer -> Nat] /\ buffer \in [Producer -> Buffers]
         /\ slots \in [Buffers -> [Slots -> LinesOf \cup {NoLine}]]
         /\ ready \in [Buffers -> [Slots -> BOOLEAN]]
         /\ count \in [Buffers -> Nat] /\ current \in Buffers /\ writeIndex \in Nat
         /\ Len(claimed) \in Nat /\ Len(out) \in Nat /\ Len(buffers) \in Nat
         /\ readIndex \in Nat /\ Size \in Nat \ {0}
         /\ claimed \in Seq(LinesOf)
<1>1. /\ pc \in [Producer -> PushPlaces] /\ line \in [Producer -> 0..Lines]
      /\ index \in [Producer -> Nat] /\ buffer \in [Producer -> Buffers]
      /\ slots \in [Buffers -> [Slots -> LinesOf \cup {NoLine}]]
      /\ ready \in [Buffers -> [Slots -> BOOLEAN]]
      /\ count \in [Buffers -> Nat] /\ current \in Buffers /\ writeIndex \in Nat
      /\ claimed \in Seq(LinesOf) /\ buffers \in Seq(Buffers)
      /\ out \in Seq(LinesOf \cup {NoLine})
      /\ Size \in Nat \ {0}
  BY NanoLogQueueAssumption DEF ShapeInv, QueueTypeOK, PushPlaces, LinesOf
<1>2. Len(claimed) \in Nat
  BY <1>1
<1>3. Len(buffers) \in Nat
  BY <1>1
<1>4. Len(out) \in Nat
  BY <1>1
<1>5. readIndex \in Slots
  BY DEF ShapeInv, QueueTypeOK
<1>6. Slots \subseteq Nat
  BY <1>1 DEF Slots
<1> QED
  BY <1>1, <1>2, <1>3, <1>4, <1>5, <1>6

(* The slots of a buffer are Size, and it takes all to be counted.         *)
LEMMA CountedSlots ==
  ASSUME ShapeInv, ClaimInv
  PROVE  /\ Filled \in 0..Size
         /\ Open \in Nat \ {0} /\ Base(Open) \in Int
         /\ IsFiniteSet(Counted)
         /\ Cardinality(Counted) = Size =>
              Filled = Size /\ \A q \in Producer : ~HoldsSlot(q)
<1>1. writeIndex \in Nat /\ Size \in Nat \ {0}
  BY Shapes
<1>2. Filled \in 0..Size
  BY <1>1 DEF Filled
<1>3. Open \in Nat \ {0} /\ Base(Open) \in Int
  BY BuffersAre, BaseNext DEF ClaimInv
<1>4. IsFiniteSet(0..(Size - 1)) /\ Cardinality(0..(Size - 1)) = Size
  BY <1>1, FS_Interval
<1>5. Counted \subseteq 0..(Size - 1)
  BY <1>1, <1>2 DEF Counted
<1>6. IsFiniteSet(Counted)
  BY <1>4, <1>5, FS_Subset
<1>7. ASSUME Cardinality(Counted) = Size
      PROVE  Filled = Size /\ \A q \in Producer : ~HoldsSlot(q)
  <2>1. Counted = 0..(Size - 1)
    BY <1>4, <1>5, <1>7, FS_Subset
  <2>2. Size - 1 \in Counted
    BY <1>1, <2>1
  <2>3. Filled = Size
    BY <1>1, <1>2, <2>2 DEF Counted
  <2>4. ASSUME NEW q \in Producer, HoldsSlot(q)
        PROVE  FALSE
    <3>1. index[q] \in Counted
      BY <2>1, <2>4 DEF ShapeInv, Slots
    <3> QED
      BY <2>4, <3>1 DEF Counted
  <2> QED
    BY <2>3, <2>4
<1> QED
  BY <1>2, <1>3, <1>6, <1>7

(* While the next buffer is being opened nobody has a slot, and none is    *)
(* left to claim.                                                          *)
LEMMA OpeningAlone ==
  ASSUME ShapeInv, ClaimInv, NEW p \in Producer, Opening(p)
  PROVE  writeIndex >= Size /\ Filled = Size /\ \A q \in Producer : ~HoldsSlot(q)
<1>1. Cardinality(Counted) = Size
  BY DEF ClaimInv
<1>2. Filled = Size /\ \A q \in Producer : ~HoldsSlot(q)
  BY <1>1, CountedSlots
<1> QED
  BY <1>2, Shapes DEF Filled

(* The open buffer is the current one for whoever has a slot.              *)
LEMMA HolderSeesOpen ==
  ASSUME ShapeInv, ClaimInv, NEW p \in Producer, HoldsSlot(p) \/ writeIndex < Size
  PROVE  current = Open /\ \A q \in Producer : ~Opening(q)
<1>1. \A q \in Producer : ~Opening(q)
  BY OpeningAlone, Shapes
<1> QED
  BY <1>1 DEF ClaimInv, Opening

(* A thread that neither is nor gets to the last step of opening a buffer  *)
(* leaves the same one open.                                               *)
LEMMA OpenStays ==
  ASSUME NEW p \in Producer, NEW label, DOMAIN pc = Producer,
         pc' = [pc EXCEPT ![p] = label],
         pc[p] # "enqueue", label # "enqueue", current' = current
  PROVE  Open' = Open
  BY DEF Open

(* What the reader knows stays true when claims and flags are added.       *)
LEMMA ReaderUndisturbed ==
  ASSUME ShapeInv, ClaimInv, ReaderInv, QuietInv, Len(claimed') \in Nat,
         Open' = Open, UNCHANGED <<popVars, downVars, buffers>>,
         Len(claimed) <= Len(claimed'),
         \A k \in 1..Len(claimed) : claimed'[k] = claimed[k],
         \A b \in Buffers, i \in Slots : ready[b][i] => ready'[b][i]
  PROVE  ReaderInv' /\ QuietInv'
<1>1. Len(claimed) \in Nat /\ Len(out) \in Nat
  BY Shapes
<1>2. Gone' = Gone /\ (Retiring' <=> Retiring) /\ ReadBuffer' = ReadBuffer
  BY DEF Gone, ReadBuffer, Retiring, popVars
<1>3. \A k \in 1..Len(out) : k \in 1..Len(claimed) /\ out[k] = claimed[k]
  BY <1>1 DEF ReaderInv
<1>4. Base(ReadBuffer)' = Base(ReadBuffer)
  BY <1>2 DEF Base
<1>5. ReaderInv'
  <2>1. \A k \in 1..Len(out') : out'[k] = claimed'[k]
    BY <1>3 DEF popVars
  <2>2. Len(out') <= Len(claimed')
    BY <1>1 DEF ReaderInv, popVars
  <2>3. \A b \in Buffers, i \in Slots : Base(b) + i + 1 <= Len(out') => ready'[b][i]
    BY DEF ReaderInv, popVars
  <2> QED
    BY <1>2, <1>4, <2>1, <2>2, <2>3 DEF ReaderInv, popVars
<1>6. QuietInv'
  <2>1. ASSUME NEW k \in 0..Len(claimed), DueUpTo(k)
        PROVE  DueUpTo(k)'
    <3>1. \A j \in 1..k : claimed'[j] = claimed[j]
      BY <1>1
    <3> QED
      BY <2>1, <3>1 DEF DueUpTo, popVars, downVars
  <2>2. 0..Len(claimed) \subseteq 0..Len(claimed')
    BY <1>1
  <2> QED
    BY <2>1, <2>2 DEF QuietInv, downVars
<1> QED
  BY <1>5, <1>6

(* Who logs, waits or looks for a slot and finds none disturbs nobody.     *)
LEMMA CalmStep ==
  ASSUME ShapeInv, ClaimInv, ReadyInv, NEW p \in Producer,
         NEW label \in {"idle", "claim", "spin"},
         pc[p] \in {"idle", "claim", "spin"}, pc' = [pc EXCEPT ![p] = label],
         \A q \in Producer \ {p} : index'[q] = index[q] /\ line'[q] = line[q],
         Filled' = Filled,
         UNCHANGED <<buffer, slots, ready, count, current, claimed>>
  PROVE  Open' = Open /\ ClaimInv' /\ ReadyInv'
<1>1. DOMAIN pc = Producer
  BY Shapes
<1>2. Open' = Open
  BY <1>1, OpenStays
<1>3. \A q \in Producer :
        /\ HoldsSlot(q)' <=> HoldsSlot(q)
        /\ Unflagged(q)' <=> Unflagged(q)
        /\ Opening(q)' <=> Opening(q)
        /\ pc'[q] = "enqueue" <=> pc[q] = "enqueue"
        /\ HoldsSlot(q) \/ Opening(q) =>
             pc'[q] = pc[q] /\ index'[q] = index[q] /\ line'[q] = line[q]
  BY <1>1 DEF HoldsSlot, Unflagged, Opening
<1>4. Counted' = Counted
  BY <1>3 DEF Counted
<1>5. Base(Open)' = Base(Open)
  BY <1>2 DEF Base
<1>6. ClaimInv'
  BY SMTT(20), <1>2, <1>3, <1>4, <1>5 DEF ClaimInv, Opening
<1>7. \A q \in Producer : (pc[q] = "flag" <=> pc'[q] = "flag") /\ (pc[q] = "flag" => HoldsSlot(q))
  BY <1>1 DEF HoldsSlot
<1>8. \A q \in Producer : Unflagged(q) => HoldsSlot(q)
  BY DEF HoldsSlot, Unflagged
<1>9. ReadyInv'
  BY SMTT(20), <1>2, <1>3, <1>7, <1>8 DEF ReadyInv
<1> QED
  BY <1>2, <1>6, <1>9

(* The next slot of the open buffer is claimed: its line is the last.      *)
LEMMA ClaimStep ==
  ASSUME ShapeInv, ClaimInv, ReadyInv, NEW p \in Producer, Claim(p), writeIndex < Size
  PROVE  /\ Open' = Open /\ ClaimInv' /\ ReadyInv'
         /\ Len(claimed') = Len(claimed) + 1
         /\ \A k \in 1..Len(claimed) : claimed'[k] = claimed[k]
         /\ UNCHANGED ready
<1>1. /\ pc[p] = "claim" /\ pc' = [pc EXCEPT ![p] = "load"]
      /\ index' = [index EXCEPT ![p] = writeIndex] /\ writeIndex' = writeIndex + 1
      /\ claimed' = Append(claimed, <<p, line[p]>>)
      /\ UNCHANGED <<line, buffer, slots, ready, count, current, uaf>>
  BY DEF Claim, Go
<1>2. /\ DOMAIN pc = Producer /\ writeIndex \in Nat /\ Size \in Nat /\ Len(claimed) \in Nat
      /\ claimed \in Seq(LinesOf) /\ index \in [Producer -> Nat]
      /\ pc \in [Producer -> PushPlaces]
  BY Shapes
<1>3. Open' = Open
  BY <1>1, <1>2, OpenStays
<1>4. /\ Filled = writeIndex /\ Filled' = writeIndex + 1
  BY <1>1, <1>2 DEF Filled
<1>5. /\ Len(claimed') = Len(claimed) + 1
      /\ claimed'[Len(claimed) + 1] = <<p, line[p]>>
      /\ \A k \in 1..Len(claimed) : claimed'[k] = claimed[k]
  BY <1>1, <1>2
<1>6. /\ Base(Open) \in Int /\ Base(Open)' = Base(Open) /\ Open \in Nat \ {0}
      /\ Len(claimed) = Base(Open) + writeIndex
  BY <1>3, <1>4, CountedSlots DEF Base, ClaimInv
<1>7. \A q \in Producer \ {p} :
        /\ pc'[q] = pc[q] /\ index'[q] = index[q]
        /\ HoldsSlot(q)' <=> HoldsSlot(q)
        /\ Unflagged(q)' <=> Unflagged(q)
  BY <1>1, <1>2 DEF HoldsSlot, Unflagged
<1>8. /\ pc'[p] = "load" /\ index'[p] = writeIndex /\ HoldsSlot(p)' /\ Unflagged(p)'
      /\ ~HoldsSlot(p) /\ ~Unflagged(p)
  BY <1>1, <1>2 DEF HoldsSlot, Unflagged
<1>9. \A q \in Producer : ~Opening(q)
  BY HolderSeesOpen
<1>10. current = Open
  BY HolderSeesOpen
<1>11. \A q \in Producer : HoldsSlot(q) => index[q] \in Nat /\ index[q] < writeIndex
  BY <1>2, <1>4 DEF ClaimInv
<1>12. Counted' = Counted
  <2>1. ASSUME NEW i \in 0..(writeIndex - 1)
        PROVE  (\A q \in Producer : HoldsSlot(q)' => index'[q] # i)
                 <=> (\A q \in Producer : HoldsSlot(q) => index[q] # i)
    BY <1>2, <1>7, <1>8, <2>1
  <2>2. ~(\A q \in Producer : HoldsSlot(q)' => index'[q] # writeIndex)
    BY <1>8
  <2>3. 0..(Filled' - 1) = 0..(writeIndex - 1) \cup {writeIndex}
    BY <1>2, <1>4
  <2> QED
    BY <1>4, <2>1, <2>2, <2>3 DEF Counted
<1>13. ClaimInv'
  <2>1. Len(claimed') = Base(Open)' + Filled'
    BY SMTT(20), <1>2, <1>4, <1>5, <1>6
  <2>2. ASSUME NEW q \in Producer, HoldsSlot(q)'
        PROVE  /\ index'[q] < Filled'
               /\ claimed'[Base(Open)' + index'[q] + 1] = <<q, line'[q]>>
               /\ pc'[q] # "load" => buffer'[q] = Open'
    <3>1. CASE q = p
      <4>1. Base(Open)' + index'[q] + 1 = Len(claimed) + 1
        BY <1>2, <1>6, <1>8, <3>1
      <4> QED
        BY <1>1, <1>2, <1>4, <1>5, <1>8, <3>1, <4>1
    <3>2. CASE q # p
      <4>1. /\ HoldsSlot(q) /\ index[q] \in Nat /\ index[q] < writeIndex
            /\ claimed[Base(Open) + index[q] + 1] = <<q, line[q]>>
            /\ pc[q] # "load" => buffer[q] = Open
        BY <1>7, <1>11, <2>2, <3>2 DEF ClaimInv
      <4>2. Base(Open) \in Nat
        BY <1>6, BaseNat
      <4>3. Base(Open) + index[q] + 1 \in 1..Len(claimed)
        BY <1>2, <1>6, <4>1, <4>2
      <4> QED
        BY SMTT(20), <1>1, <1>2, <1>3, <1>4, <1>5, <1>6, <1>7, <3>2, <4>1, <4>3
    <3> QED
      BY <3>1, <3>2
  <2>3. \A q, r \in Producer :
          HoldsSlot(q)' /\ HoldsSlot(r)' /\ index'[q] = index'[r] => q = r
    <3>1. \A q \in Producer \ {p} : HoldsSlot(q)' => index'[q] # index'[p]
      BY <1>2, <1>7, <1>8, <1>11
    <3>2. \A q, r \in Producer \ {p} :
            HoldsSlot(q)' /\ HoldsSlot(r)' /\ index'[q] = index'[r] => q = r
      BY <1>7 DEF ClaimInv
    <3> QED
      BY <3>1, <3>2
  <2>4. \A q \in Producer : ~Opening(q)' /\ pc'[q] # "enqueue"
    BY <1>1, <1>2, <1>7, <1>9 DEF Opening
  <2> QED
    BY <1>1, <1>3, <1>10, <1>12, <2>1, <2>2, <2>3, <2>4 DEF ClaimInv
<1>14. ReadyInv'
  <2>1. ASSUME NEW b \in Buffers, NEW i \in Slots
        PROVE  ready'[b][i] <=>
                 /\ Base(b) + i + 1 <= Len(claimed')
                 /\ b = Open' => \A q \in Producer : Unflagged(q)' => index'[q] # i
    <3>1. b \in Int /\ i \in Nat /\ i < Size /\ Base(b) \in Int
      BY BuffersAre, BaseNext, <1>2 DEF Slots
    <3>2. CASE Base(b) + i = Base(Open) + writeIndex
      <4>1. writeIndex \in Slots
        BY <1>2 DEF Slots
      <4>2. b = Open /\ i = writeIndex
        BY <1>6, <3>1, <3>2, <4>1, OnePlace
      <4>3. ~ready[b][i]
        BY SMTT(20), <1>6, <1>2, <3>1, <3>2 DEF ReadyInv
      <4> QED
        BY <1>1, <1>3, <1>8, <4>2, <4>3
    <3>3. CASE Base(b) + i # Base(Open) + writeIndex
      <4>1. Base(b) + i + 1 <= Len(claimed') <=> Base(b) + i + 1 <= Len(claimed)
        BY SMTT(20), <1>2, <1>5, <1>6, <3>1, <3>3
      <4>2. b = Open => i # writeIndex
        BY <3>3
      <4>3. b = Open => ((\A q \in Producer : Unflagged(q)' => index'[q] # i)
                           <=> (\A q \in Producer : Unflagged(q) => index[q] # i))
        BY <1>7, <1>8, <4>2
      <4> QED
        BY <1>1, <1>3, <4>1, <4>3 DEF ReadyInv
    <3> QED
      BY <3>2, <3>3
  <2>2. ASSUME NEW b \in Buffers, NEW i \in Slots, ready'[b][i]
        PROVE  slots'[b][i] = claimed'[Base(b) + i + 1]
    <3>1. Base(b) \in Nat /\ i \in Nat
      BY BuffersAre, BaseNat, <1>2 DEF Slots
    <3>2. ready[b][i] /\ Base(b) + i + 1 \in 1..Len(claimed)
      BY <1>1, <1>2, <2>2, <3>1 DEF ReadyInv
    <3> QED
      BY <1>1, <1>5, <3>2 DEF ReadyInv
  <2>3. \A q \in Producer : pc'[q] = "flag" => slots'[Open'][index'[q]] = <<q, line'[q]>>
    BY <1>1, <1>3, <1>7, <1>8 DEF ReadyInv
  <2>4. \A b \in Buffers : Base(b)' = Base(b)
    BY DEF Base
  <2> QED
    BY <2>1, <2>2, <2>3 DEF ReadyInv, Base
<1> QED
  BY <1>1, <1>3, <1>5, <1>13, <1>14

(* A thread that goes on with its slot: Load, Write and Flag.              *)
LEMMA HolderClaims ==
  ASSUME ShapeInv, ClaimInv, NEW p \in Producer, HoldsSlot(p),
         NEW label \in {"write", "flag", "count"}, pc' = [pc EXCEPT ![p] = label],
         buffer' = [buffer EXCEPT ![p] = Open],
         UNCHANGED <<line, index, count, current, writeIndex, claimed>>
  PROVE  Open' = Open /\ ClaimInv'
<1>1. DOMAIN pc = Producer /\ buffer \in [Producer -> Buffers]
  BY Shapes
<1>2. Open' = Open
  BY <1>1, OpenStays DEF HoldsSlot
<1>3. Filled' = Filled /\ Base(Open)' = Base(Open)
  BY <1>2 DEF Filled, Base
<1>4. \A q \in Producer :
        /\ HoldsSlot(q)' <=> HoldsSlot(q)
        /\ ~Opening(q)' /\ ~Opening(q) /\ pc'[q] # "enqueue"
        /\ HoldsSlot(q) /\ pc'[q] # "load" =>
             buffer'[q] = Open \/ (pc[q] # "load" /\ buffer'[q] = buffer[q])
  <2>1. \A q \in Producer : ~Opening(q)
    BY HolderSeesOpen
  <2>2. ASSUME NEW q \in Producer, q # p
        PROVE  pc'[q] = pc[q] /\ buffer'[q] = buffer[q]
    BY <1>1, <2>2
  <2>3. pc'[p] = label /\ buffer'[p] = Open
    BY <1>1
  <2> QED
    BY <2>1, <2>2, <2>3 DEF HoldsSlot, Opening
<1>5. Counted' = Counted
  BY <1>3, <1>4 DEF Counted
<1>6. current = Open
  BY HolderSeesOpen
<1> QED
  BY <1>2, <1>3, <1>4, <1>5, <1>6 DEF ClaimInv

(* m_current_write_buffer is the open buffer for whoever has a slot.       *)
LEMMA LoadStep ==
  ASSUME ShapeInv, ClaimInv, ReadyInv, NEW p \in Producer, Load(p)
  PROVE  Open' = Open /\ ClaimInv' /\ ReadyInv' /\ UNCHANGED <<claimed, ready>>
<1>1. /\ pc[p] = "load" /\ HoldsSlot(p) /\ pc' = [pc EXCEPT ![p] = "write"]
      /\ buffer' = [buffer EXCEPT ![p] = current]
      /\ UNCHANGED <<line, index, slots, ready, count, current, writeIndex, claimed>>
  BY DEF Load, Go, HoldsSlot
<1>2. Open' = Open /\ ClaimInv'
  BY <1>1, HolderSeesOpen, HolderClaims
<1>3. \A q \in Producer :
        (Unflagged(q)' <=> Unflagged(q)) /\ (pc'[q] = "flag" => pc[q] = "flag")
  BY <1>1, Shapes DEF Unflagged
<1> QED
  BY ZenonT(30), <1>1, <1>2, <1>3 DEF ReadyInv, Base

(* The line is written where it was claimed, in a slot that is not ready.  *)
LEMMA WriteStep ==
  ASSUME ShapeInv, ClaimInv, ReadyInv, NEW p \in Producer, Write(p)
  PROVE  Open' = Open /\ ClaimInv' /\ ReadyInv' /\ UNCHANGED <<claimed, ready>>
<1>1. /\ pc[p] = "write" /\ HoldsSlot(p) /\ pc' = [pc EXCEPT ![p] = "flag"]
      /\ slots' = [slots EXCEPT ![buffer[p]][index[p]] = <<p, line[p]>>]
      /\ UNCHANGED <<line, index, buffer, ready, count, current, writeIndex, claimed>>
  BY DEF Write, Go, HoldsSlot
<1>2. /\ buffer[p] = Open /\ Open \in Buffers /\ index[p] \in Slots
      /\ buffer \in [Producer -> Buffers] /\ DOMAIN pc = Producer
      /\ slots \in [Buffers -> [Slots -> LinesOf \cup {NoLine}]]
  BY <1>1, Shapes DEF ClaimInv, ShapeInv
<1>3. Open' = Open /\ ClaimInv'
  <2>1. buffer' = [buffer EXCEPT ![p] = Open]
    BY <1>1, <1>2
  <2> QED
    BY <1>1, <2>1, HolderClaims
<1>4. \A q \in Producer : (Unflagged(q)' <=> Unflagged(q))
  BY <1>1, <1>2 DEF Unflagged
<1>5. ~ready[Open][index[p]]
  BY <1>1, <1>2 DEF ReadyInv, Unflagged
<1>6. \A b \in Buffers, i \in Slots : b # Open \/ i # index[p] => slots'[b][i] = slots[b][i]
  BY <1>1, <1>2
<1>7. slots'[Open][index[p]] = <<p, line[p]>>
  BY <1>1, <1>2
<1>8. ASSUME NEW q \in Producer, pc'[q] = "flag"
      PROVE  slots'[Open'][index'[q]] = <<q, line'[q]>>
  <2>1. CASE q = p
    BY <1>1, <1>3, <1>7, <2>1
  <2>2. CASE q # p
    <3>1. pc[q] = "flag" /\ HoldsSlot(q)
      BY <1>1, <1>2, <1>8, <2>2 DEF HoldsSlot
    <3>2. index[q] \in Slots /\ index[q] # index[p]
      BY <1>1, <2>2, <3>1 DEF ClaimInv, ShapeInv
    <3> QED
      BY <1>1, <1>2, <1>3, <1>6, <3>1, <3>2 DEF ReadyInv
  <2> QED
    BY <2>1, <2>2
<1>9. \A b \in Buffers, i \in Slots :
        ready'[b][i] <=>
          /\ Base(b) + i + 1 <= Len(claimed')
          /\ b = Open' => \A q \in Producer : Unflagged(q)' => index'[q] # i
  BY <1>1, <1>3, <1>4 DEF ReadyInv
<1>10. \A b \in Buffers, i \in Slots :
         ready'[b][i] => slots'[b][i] = claimed'[Base(b) + i + 1]
  BY <1>1, <1>5, <1>6 DEF ReadyInv
<1> QED
  BY <1>1, <1>3, <1>8, <1>9, <1>10 DEF ReadyInv, Base

(* The flag makes the slot ready, with its line in it.                     *)
LEMMA FlagStep ==
  ASSUME ShapeInv, ClaimInv, ReadyInv, NEW p \in Producer, Flag(p)
  PROVE  /\ Open' = Open /\ ClaimInv' /\ ReadyInv' /\ UNCHANGED claimed
         /\ \A b \in Buffers, i \in Slots : ready[b][i] => ready'[b][i]
<1>1. /\ pc[p] = "flag" /\ HoldsSlot(p) /\ pc' = [pc EXCEPT ![p] = "count"]
      /\ ready' = [ready EXCEPT ![buffer[p]][index[p]] = TRUE]
      /\ UNCHANGED <<line, index, buffer, slots, count, current, writeIndex, claimed>>
  BY DEF Flag, Go, HoldsSlot
<1>2. /\ buffer[p] = Open /\ Open \in Buffers /\ index[p] \in Slots
      /\ buffer \in [Producer -> Buffers] /\ DOMAIN pc = Producer
      /\ ready \in [Buffers -> [Slots -> BOOLEAN]]
  BY <1>1, Shapes DEF ClaimInv, ShapeInv
<1>3. Open' = Open /\ ClaimInv'
  <2>1. buffer' = [buffer EXCEPT ![p] = Open]
    BY <1>1, <1>2
  <2> QED
    BY <1>1, <2>1, HolderClaims
<1>4. \A b \in Buffers, i \in Slots : b # Open \/ i # index[p] => (ready'[b][i] <=> ready[b][i])
  BY <1>1, <1>2
<1>5. ready'[Open][index[p]]
  BY <1>1, <1>2
<1>6. \A q \in Producer \ {p} :
        /\ Unflagged(q)' <=> Unflagged(q)
        /\ pc'[q] = "flag" => pc[q] = "flag"
        /\ Unflagged(q) => index[q] # index[p]
  BY <1>1, <1>2 DEF Unflagged, HoldsSlot, ClaimInv
<1>7. ~Unflagged(p)' /\ pc'[p] # "flag" /\ Unflagged(p)
  BY <1>1, <1>2 DEF Unflagged
<1>8. Base(Open) + index[p] + 1 <= Len(claimed)
  <2>1. Len(claimed) = Base(Open) + Filled /\ index[p] < Filled
    BY <1>1 DEF ClaimInv
  <2>2. Base(Open) \in Int /\ Filled \in 0..Size /\ Size \in Nat /\ index[p] \in 0..(Size - 1)
    BY <1>2, CountedSlots, Shapes DEF Slots
  <2> QED
    BY ONLY <2>1, <2>2
<1>9. ASSUME NEW b \in Buffers, NEW i \in Slots
      PROVE  ready'[b][i] <=>
               /\ Base(b) + i + 1 <= Len(claimed')
               /\ b = Open' => \A q \in Producer : Unflagged(q)' => index'[q] # i
  <2>1. CASE b = Open /\ i = index[p]
    BY <1>1, <1>3, <1>5, <1>6, <1>7, <1>8, <2>1
  <2>2. CASE b # Open \/ i # index[p]
    BY <1>1, <1>3, <1>4, <1>6, <1>7, <2>2 DEF ReadyInv
  <2> QED
    BY <2>1, <2>2
<1>10. ASSUME NEW b \in Buffers, NEW i \in Slots, ready'[b][i]
       PROVE  slots'[b][i] = claimed'[Base(b) + i + 1]
  <2>1. CASE b = Open /\ i = index[p]
    BY ZenonT(30), <1>1, <2>1 DEF ReadyInv, ClaimInv
  <2>2. CASE b # Open \/ i # index[p]
    BY <1>1, <1>4, <1>10, <2>2 DEF ReadyInv
  <2> QED
    BY <2>1, <2>2
<1>11. \A q \in Producer : pc'[q] = "flag" => slots'[Open'][index'[q]] = <<q, line'[q]>>
  BY <1>1, <1>3, <1>6, <1>7 DEF ReadyInv
<1> QED
  BY <1>1, <1>3, <1>4, <1>5, <1>9, <1>10, <1>11 DEF ReadyInv, Base

(* One more slot is counted, and when it was the last one nobody has a     *)
(* slot any more but the thread that goes on to open the next buffer.      *)
LEMMA CountStep ==
  ASSUME ShapeInv, ClaimInv, ReadyInv, NEW p \in Producer, Count(p), buffer[p] \notin freed
  PROVE  Open' = Open /\ ClaimInv' /\ ReadyInv' /\ UNCHANGED <<claimed, ready>>
<1>1. /\ pc[p] = "count" /\ HoldsSlot(p)
      /\ count' = [count EXCEPT ![buffer[p]] = count[buffer[p]] + 1]
      /\ pc' = [pc EXCEPT ![p] = IF count'[buffer[p]] = Size THEN "setup" ELSE "idle"]
      /\ UNCHANGED <<line, index, buffer, slots, ready, current, writeIndex, claimed>>
  BY DEF Count, Go, HoldsSlot
<1>2. /\ buffer[p] = Open /\ Open \in Buffers /\ index[p] \in Slots /\ index[p] < Filled
      /\ DOMAIN pc = Producer /\ count \in [Buffers -> Nat] /\ index[p] \in Nat
  BY <1>1, Shapes DEF ClaimInv, ShapeInv
<1>3. count'[Open] = count[Open] + 1
      /\ \A b \in Buffers \ {Open} : count'[b] = count[b]
  BY <1>1, <1>2
<1>4. Open' = Open
  BY <1>1, <1>2, OpenStays
<1>5. Filled' = Filled /\ Base(Open)' = Base(Open) /\ Filled \in Nat
  BY <1>1, <1>4, CountedSlots DEF Filled, Base
<1>6. \A q \in Producer \ {p} :
        /\ HoldsSlot(q)' <=> HoldsSlot(q)
        /\ pc'[q] = pc[q]
        /\ ~Opening(q)' /\ ~Opening(q)
        /\ HoldsSlot(q) => index[q] # index[p]
  BY <1>1, <1>2, HolderSeesOpen DEF HoldsSlot, Opening, ClaimInv
<1>7. ~HoldsSlot(p)' /\ pc'[p] # "enqueue" /\ pc'[p] # "flag"
      /\ (Opening(p)' => count'[Open] = Size)
  BY <1>1, <1>2 DEF HoldsSlot, Opening
<1>8. count'[Open] = Cardinality(Counted')
  <2>1. Counted' = Counted \cup {index[p]}
    BY <1>1, <1>2, <1>5, <1>6, <1>7 DEF Counted
  <2>2. index[p] \notin Counted
    BY <1>1 DEF Counted
  <2>3. Cardinality(Counted \cup {index[p]}) = Cardinality(Counted) + 1
    BY <2>2, CountedSlots, FS_AddElement
  <2>4. count[Open] = Cardinality(Counted)
    BY DEF ClaimInv
  <2> QED
    BY <1>3, <2>1, <2>3, <2>4
<1>9. ClaimInv'
  <2>1. \A q \in Producer : HoldsSlot(q)' =>
          /\ index'[q] < Filled'
          /\ claimed'[Base(Open)' + index'[q] + 1] = <<q, line'[q]>>
          /\ pc'[q] # "load" => buffer'[q] = Open'
    BY <1>1, <1>4, <1>5, <1>6, <1>7 DEF ClaimInv
  <2>2. \A q, r \in Producer :
          HoldsSlot(q)' /\ HoldsSlot(r)' /\ index'[q] = index'[r] => q = r
    BY <1>1, <1>6, <1>7 DEF ClaimInv
  <2>3. \A b \in Buffers : b > Open' => count'[b] = 0
    BY <1>2, <1>3, <1>4, BuffersAre DEF ClaimInv
  <2>4. \A q, r \in Producer : Opening(q)' /\ Opening(r)' => q = r
    BY <1>6
  <2>5. \A q \in Producer : Opening(q)' => count'[Open'] = Size
    BY <1>4, <1>6, <1>7
  <2>6. \A q \in Producer : pc'[q] # "enqueue"
    BY <1>6, <1>7 DEF Opening
  <2>7. current' = Open'
    BY <1>1, <1>4, HolderSeesOpen
  <2>8. Len(claimed') = Base(Open)' + Filled' /\ Open' \in Buffers
    BY <1>1, <1>4, <1>5 DEF ClaimInv
  <2> QED
    BY <1>4, <1>8, <2>1, <2>2, <2>3, <2>4, <2>5, <2>6, <2>7, <2>8 DEF ClaimInv
<1>10. \A q \in Producer : Unflagged(q)' <=> Unflagged(q)
  BY <1>1, <1>2, <1>6 DEF Unflagged
<1>11. \A q \in Producer : pc'[q] = "flag" => pc[q] = "flag"
  BY <1>6, <1>7
<1>12. ReadyInv'
  BY <1>1, <1>4, <1>10, <1>11 DEF ReadyInv, Base
<1> QED
  BY <1>1, <1>4, <1>9, <1>12

(* The next buffer is current but not yet open.                            *)
LEMMA SetupStep ==
  ASSUME ShapeInv, ClaimInv, ReadyInv, NEW p \in Producer, Setup(p)
  PROVE  Open' = Open /\ ClaimInv' /\ ReadyInv' /\ UNCHANGED <<claimed, ready>>
<1>1. /\ pc[p] = "setup" /\ Opening(p) /\ pc' = [pc EXCEPT ![p] = "enqueue"]
      /\ current' = current + 1 /\ buffer' = [buffer EXCEPT ![p] = current + 1]
      /\ UNCHANGED <<line, index, slots, ready, count, writeIndex, claimed>>
  BY DEF Setup, Go, Opening
<1>2. /\ DOMAIN pc = Producer /\ buffer \in [Producer -> Buffers] /\ current \in Nat
  BY Shapes, BuffersAre
<1>3. \A q \in Producer \ {p} : ~Opening(q) /\ ~HoldsSlot(q) /\ pc'[q] = pc[q]
  BY <1>1, <1>2, OpeningAlone DEF ClaimInv
<1>4. \A q \in Producer : pc[q] # "enqueue"
  BY <1>1, <1>3 DEF Opening
<1>5. current = Open /\ Open' = Open
  BY <1>1, <1>2, <1>4 DEF ClaimInv, Open
<1>6. Filled' = Filled /\ Base(Open)' = Base(Open)
  BY <1>1, <1>5 DEF Filled, Base
<1>7. \A q \in Producer : ~HoldsSlot(q)' /\ ~HoldsSlot(q) /\ (Opening(q)' => q = p)
  BY <1>1, <1>2, <1>3 DEF HoldsSlot, Opening
<1>8. Counted' = Counted
  BY <1>6, <1>7 DEF Counted
<1>9. pc'[p] = "enqueue" /\ buffer'[p] = Open + 1 /\ count'[Open] = Size
  BY <1>1, <1>2, <1>5 DEF ClaimInv
<1>10. ClaimInv'
  <2>1. \A q \in Producer : pc'[q] = "enqueue" => buffer'[q] = Open' + 1 /\ current' = Open' + 1
    BY <1>1, <1>5, <1>7, <1>9 DEF Opening
  <2>2. \A b \in Buffers : b > Open' => count'[b] = 0
    BY <1>1, <1>5 DEF ClaimInv
  <2> QED
    BY <1>1, <1>5, <1>6, <1>7, <1>8, <1>9, <2>1, <2>2 DEF ClaimInv
<1>11. \A q \in Producer : ~Unflagged(q)' /\ ~Unflagged(q) /\ pc'[q] # "flag"
  BY <1>7 DEF Unflagged, HoldsSlot
<1>12. ReadyInv'
  BY <1>1, <1>5, <1>11 DEF ReadyInv, Base
<1> QED
  BY <1>1, <1>5, <1>10, <1>12

(* The next buffer is open, empty, and the last in the reader's queue.     *)
LEMMA EnqueueStep ==
  ASSUME ShapeInv, ClaimInv, ReadyInv, ReaderInv, QuietInv, NEW p \in Producer, Enqueue(p),
         UNCHANGED <<popVars, downVars>>
  PROVE  ClaimInv' /\ ReadyInv' /\ ReaderInv' /\ QuietInv'
<1>1. /\ pc[p] = "enqueue" /\ Opening(p) /\ pc' = [pc EXCEPT ![p] = "idle"]
      /\ writeIndex' = 0 /\ buffers' = Append(buffers, buffer[p])
      /\ UNCHANGED <<line, index, buffer, slots, ready, count, current, claimed>>
  BY DEF Enqueue, Go, Opening
<1>2. /\ DOMAIN pc = Producer /\ current \in Buffers /\ Size \in Nat \ {0}
      /\ Len(claimed) \in Nat
  BY Shapes
<1>3. buffer[p] = Open + 1 /\ current = Open + 1 /\ Open \in Nat \ {0}
  BY <1>1, CountedSlots DEF ClaimInv
<1>4. \A q \in Producer :
        /\ ~HoldsSlot(q) /\ ~HoldsSlot(q)' /\ ~Unflagged(q) /\ ~Unflagged(q)'
        /\ ~Opening(q)' /\ pc'[q] # "enqueue" /\ pc'[q] # "flag"
  <2>1. \A q \in Producer : ~HoldsSlot(q) /\ (q # p => ~Opening(q))
    BY <1>1, OpeningAlone DEF ClaimInv
  <2> QED
    BY <1>1, <1>2, <2>1 DEF HoldsSlot, Unflagged, Opening
<1>5. Open' = Open + 1
  BY <1>1, <1>3, <1>4 DEF Open
<1>6. Filled = Size /\ Filled' = 0 /\ Counted' = {}
  <2>1. Filled' = 0
    BY <1>1, <1>2 DEF Filled
  <2> QED
    BY <1>1, <2>1, OpeningAlone DEF Counted
<1>7. Base(Open + 1) = Base(Open) + Size /\ Base(Open + 1) \in Int /\ Base(Open) \in Int
  BY <1>3, BaseNext
<1>8. Base(Open)' = Base(Open + 1)
  BY <1>5 DEF Base
<1>9. ClaimInv'
  <2>1. Len(claimed') = Base(Open)' + Filled'
    BY <1>1, <1>6, <1>7, <1>8 DEF ClaimInv
  <2>2. count'[Open'] = Cardinality(Counted')
    BY <1>1, <1>2, <1>3, <1>5, <1>6, FS_EmptySet DEF ClaimInv
  <2>3. \A b \in Buffers : b > Open' => count'[b] = 0
    BY <1>1, <1>3, <1>5, BuffersAre DEF ClaimInv
  <2>4. Open' \in Buffers /\ current' = Open'
    BY <1>1, <1>2, <1>3, <1>5
  <2> QED
    BY <1>4, <2>1, <2>2, <2>3, <2>4 DEF ClaimInv
<1>10. ReadyInv'
  BY <1>1, <1>4 DEF ReadyInv, Base
<1>11. /\ Len(buffers') = Len(buffers) + 1 /\ Len(buffers) \in Nat
       /\ buffers'[Len(buffers) + 1] = buffer[p]
       /\ \A i \in 1..Len(buffers) : buffers'[i] = buffers[i]
  <2>1. buffers \in Seq(Buffers)
    BY DEF ShapeInv, QueueTypeOK
  <2> QED
    BY <1>1, <2>1
<1>12. Gone' = Gone /\ (Retiring' <=> Retiring) /\ ReadBuffer' = ReadBuffer
  BY <1>3, <1>5, <1>11 DEF Gone, ReadBuffer, Retiring, popVars
<1>13. ReaderInv'
  <2>1. Base(ReadBuffer)' = Base(ReadBuffer)
    BY <1>12 DEF Base
  <2>2. \A i \in 1..Len(buffers') : buffers'[i] = Gone' + i
    <3>1. \A i \in 1..Len(buffers') : i \in 1..Len(buffers) \/ i = Len(buffers) + 1
      BY <1>11
    <3>2. Gone + (Len(buffers) + 1) = Open + 1
      BY <1>3, <1>11 DEF Gone
    <3> QED
      BY <1>3, <1>11, <1>12, <3>1, <3>2 DEF ReaderInv
  <2>3. Len(buffers') <= Open'
    BY <1>3, <1>5, <1>11 DEF ReaderInv
  <2> QED
    BY <1>1, <1>12, <2>1, <2>2, <2>3 DEF ReaderInv, Base, popVars
<1>14. QuietInv'
  BY <1>1 DEF QuietInv, DueUpTo, popVars, downVars, Base
<1> QED
  BY <1>9, <1>10, <1>13, <1>14

-----------------------------------------------------------------------------
(* The reader's steps leave the claims and the flags alone.                *)
LEMMA PopKeepsClaims ==
  ASSUME ShapeInv, ClaimInv, ReadyInv, UNCHANGED pushVars
  PROVE  ClaimInv' /\ ReadyInv' /\ Open' = Open
<1>1. Open' = Open /\ Filled' = Filled
  BY DEF pushVars, Open, Filled
<1>2. \A p \in Producer :
        (HoldsSlot(p)' <=> HoldsSlot(p)) /\ (Unflagged(p)' <=> Unflagged(p))
          /\ (Opening(p)' <=> Opening(p))
  BY DEF pushVars, HoldsSlot, Unflagged, Opening
<1>3. Counted' = Counted
  BY <1>1, <1>2 DEF Counted, pushVars
<1>4. ClaimInv'
  BY <1>1, <1>2, <1>3 DEF ClaimInv, pushVars, Base
<1>5. ReadyInv'
  BY <1>1, <1>2 DEF ReadyInv, pushVars, Base
<1> QED
  BY <1>1, <1>4, <1>5

(* Numbers the reader's steps compute with.                                *)
LEMMA ReaderNumbers ==
  ASSUME ShapeInv, ClaimInv, ReaderInv
  PROVE  /\ Open \in Nat \ {0} /\ Gone \in Nat /\ ReadBuffer \in Nat \ {0}
         /\ Base(ReadBuffer) \in Nat
         /\ readIndex \in Slots /\ readIndex \in Nat
<1>1. Open \in Nat \ {0} /\ Len(buffers) \in Nat /\ readIndex \in Nat
  BY CountedSlots, Shapes
<1>2. Gone \in Nat
  BY <1>1 DEF Gone, ReaderInv
<1>3. ReadBuffer \in Nat \ {0}
  BY <1>2 DEF ReadBuffer
<1> QED
  BY <1>1, <1>2, <1>3, BaseNat DEF ShapeInv, QueueTypeOK

(* The lines that are due stay where they are while the reader goes on.    *)
LEMMA DueWaits ==
  ASSUME QuietInv, UNCHANGED <<pushVars, downVars>>, reader' # "done"
  PROVE  QuietInv'
  BY DEF QuietInv, DueUpTo, pushVars, downVars, Base

(* Taking the next buffer in hand.                                         *)
LEMMA NextReadBufferStep ==
  ASSUME ShapeInv, ClaimInv, ReadyInv, ReaderInv, QuietInv, NextReadBuffer,
         UNCHANGED <<pushVars, downVars>>
  PROVE  ReaderInv' /\ QuietInv'
<1>1. /\ reading = 0 /\ buffers # <<>> /\ reading' = Head(buffers)
      /\ UNCHANGED <<freed, readIndex, reader, out, buffers>> /\ Popping
  BY DEF NextReadBuffer
<1>2. buffers \in Seq(Buffers) /\ Open' = Open
  BY PopKeepsClaims DEF ShapeInv, QueueTypeOK
<1>3. reading' = Gone + 1
  BY <1>1, <1>2 DEF ReaderInv
<1>4. Gone' = Gone /\ ReadBuffer' = ReadBuffer
  BY <1>1, <1>2 DEF Gone, ReadBuffer, Retiring
<1>5. reading' # 0
  BY <1>3, ReaderNumbers
<1>6. ReaderInv'
  BY <1>1, <1>2, <1>3, <1>4, <1>5 DEF ReaderInv, Base, pushVars
<1>7. reader' # "done"
  BY <1>1 DEF Popping
<1> QED
  BY <1>6, <1>7, DueWaits

(* The next line that is taken is the next that was claimed.               *)
LEMMA PopStep ==
  ASSUME ShapeInv, ClaimInv, ReadyInv, ReaderInv, QuietInv, Pop,
         UNCHANGED <<pushVars, downVars>>
  PROVE  ReaderInv' /\ QuietInv'
<1>1. /\ Popping /\ LineReady /\ out' = Append(out, slots[reading][readIndex])
      /\ UNCHANGED <<freed, buffers>>
  BY DEF Pop
<1>2. /\ Open' = Open /\ Gone' = Gone
  BY <1>1, PopKeepsClaims DEF Gone
<1>3. ~Retiring
  BY <1>1 DEF Popping, Retiring
<1>4. /\ reading = Gone + 1 /\ reading \in Buffers /\ ReadBuffer = Gone + 1
      /\ ready[reading][readIndex]
  BY <1>1, <1>3 DEF LineReady, ReaderInv, ReadBuffer, ShapeInv, QueueTypeOK
<1>5. /\ Gone \in Nat /\ Base(Gone + 1) \in Nat /\ readIndex \in Slots /\ readIndex \in Nat
      /\ Len(out) = Base(Gone + 1) + readIndex
      /\ Len(out) \in Nat /\ Len(claimed) \in Nat /\ Size \in Nat \ {0}
  BY <1>4, ReaderNumbers, Shapes DEF ReaderInv
<1>6. /\ slots[reading][readIndex] = claimed[Len(out) + 1]
      /\ Len(out) + 1 <= Len(claimed)
  BY <1>4, <1>5 DEF ReadyInv
<1>7. out \in Seq(LinesOf \cup {NoLine})
  BY DEF ShapeInv, QueueTypeOK, LinesOf
<1>8. /\ Len(out') = Len(out) + 1 /\ out'[Len(out) + 1] = claimed[Len(out) + 1]
      /\ \A k \in 1..Len(out) : out'[k] = out[k]
  BY <1>1, <1>6, <1>7
<1>9. \A k \in 1..Len(out') : out'[k] = claimed'[k]
  <2>1. \A k \in 1..Len(out') : k \in 1..Len(out) \/ k = Len(out) + 1
    BY <1>5, <1>8
  <2>2. \A k \in 1..Len(out) : out[k] = claimed[k]
    BY DEF ReaderInv
  <2> QED
    BY <1>8, <2>1, <2>2 DEF pushVars
<1>10. ASSUME NEW b \in Buffers, NEW i \in Slots, Base(b) + i + 1 <= Len(out')
       PROVE  ready'[b][i]
  <2>1. b \in Int /\ i \in Nat /\ Base(b) \in Int
    BY <1>5, BuffersAre, BaseNext DEF Slots
  <2>2. CASE Base(b) + i + 1 <= Len(out)
    BY <2>2 DEF ReaderInv, pushVars
  <2>3. CASE Base(b) + i + 1 = Len(out) + 1
    <3>1. Base(b) + i = Base(Gone + 1) + readIndex
      BY <1>5, <2>1, <2>3
    <3>2. b = Gone + 1 /\ i = readIndex
      BY <1>5, <2>1, <3>1, OnePlace
    <3> QED
      BY <1>4, <3>2 DEF pushVars
  <2> QED
    BY SMTT(20), <1>5, <1>8, <1>10, <2>1, <2>2, <2>3
<1>11. ReaderInv'
  <2>1. CASE readIndex + 1 = Size
    <3>1. readIndex' = 0 /\ reading' = 0 /\ Retiring'
      BY <1>1, <2>1 DEF Pop, Retiring
    <3>2. ReadBuffer' = Gone + 2
      BY <1>2, <3>1 DEF ReadBuffer
    <3>3. Base((Gone + 1) + 1) = Base(Gone + 1) + Size
      BY <1>5, BaseNext
    <3>4. (Gone + 1) + 1 = Gone + 2
      BY <1>5
    <3>5. Len(out') = Base(Gone + 2) + 0
      BY <1>5, <1>8, <2>1, <3>3, <3>4
    <3>6. Len(out') = Base(ReadBuffer)' + readIndex'
      BY <3>1, <3>2, <3>5 DEF Base
    <3> QED
      BY <1>1, <1>2, <1>6, <1>8, <1>9, <1>10, <3>1, <3>6 DEF ReaderInv, Base, pushVars
  <2>2. CASE readIndex + 1 # Size
    <3>1. readIndex' = readIndex + 1 /\ UNCHANGED <<reading, reader>>
      BY <2>2 DEF Pop
    <3>2. ReadBuffer' = Gone + 1
      BY <1>2, <1>3, <3>1 DEF ReadBuffer, Retiring
    <3>3. Len(out') = Base(Gone + 1) + readIndex'
      BY <1>5, <1>8, <3>1
    <3>4. Len(out') = Base(ReadBuffer)' + readIndex'
      BY <3>2, <3>3 DEF Base
    <3>5. reading' # 0 /\ reading' = Gone' + 1
      BY <1>2, <1>4, <1>5, <3>1
    <3> QED
      BY <1>1, <1>2, <1>6, <1>8, <1>9, <1>10, <3>1, <3>4, <3>5 DEF ReaderInv, Base, pushVars
  <2> QED
    BY <2>1, <2>2
<1>12. reader' # "done"
  BY <1>1 DEF Pop, Popping
<1> QED
  BY <1>11, <1>12, DueWaits

(* A buffer is freed when all its lines have been taken.                   *)
LEMMA RetireStep ==
  ASSUME ShapeInv, ClaimInv, ReadyInv, ReaderInv, QuietInv, Retire,
         UNCHANGED <<pushVars, downVars>>
  PROVE  ReaderInv' /\ QuietInv'
<1>1. /\ Retiring /\ freed' = freed \cup {Head(buffers)} /\ buffers' = Tail(buffers)
      /\ reader' = (IF reader = "retire" THEN "pop" ELSE "drain")
      /\ UNCHANGED <<reading, readIndex, out>>
  BY DEF Retire, Retiring
<1>2. /\ buffers \in Seq(Buffers) /\ buffers # <<>> /\ reading = 0
      /\ Open' = Open
  BY <1>1, PopKeepsClaims DEF ShapeInv, QueueTypeOK
<1>3. /\ Len(buffers') = Len(buffers) - 1 /\ Len(buffers) \in Nat \ {0}
      /\ Head(buffers) = buffers[1]
      /\ \A i \in 1..Len(buffers') : buffers'[i] = buffers[i + 1]
  BY <1>1, <1>2
<1>4. Gone \in Nat /\ Open \in Nat
  BY ReaderNumbers
<1>5. Gone' = Gone + 1
  BY <1>2, <1>3, <1>4 DEF Gone
<1>6. ~Retiring' /\ reader' # "done"
  BY <1>1 DEF Retiring
<1>7. ReadBuffer' = Gone + 2 /\ ReadBuffer = Gone + 2
  BY <1>1, <1>4, <1>5, <1>6 DEF ReadBuffer
<1>8. Head(buffers) = Gone + 1
  BY <1>3 DEF ReaderInv
<1>9. freed' = 1..Gone'
  BY <1>1, <1>4, <1>5, <1>8 DEF ReaderInv
<1>10. \A i \in 1..Len(buffers') : buffers'[i] = Gone' + i
  <2>1. \A i \in 1..Len(buffers') : i + 1 \in 1..Len(buffers) /\ i \in Nat
    BY <1>3
  <2> QED
    BY <1>3, <1>4, <1>5, <2>1 DEF ReaderInv
<1>11. ReaderInv'
  BY <1>1, <1>2, <1>3, <1>4, <1>6, <1>7, <1>9, <1>10 DEF ReaderInv, Base, pushVars
<1> QED
  BY <1>6, <1>11, DueWaits

(* The draining loop ends where no line is ready, past those that are due. *)
LEMMA EndDrainStep ==
  ASSUME ShapeInv, ClaimInv, ReadyInv, ReaderInv, QuietInv, EndDrain,
         UNCHANGED <<pushVars, downVars>>
  PROVE  ReaderInv' /\ QuietInv'
<1>1. /\ reader = "drain" /\ reader' = "done"
      /\ reading = 0 => buffers = <<>>
      /\ reading # 0 => ~ready[reading][readIndex]
      /\ UNCHANGED <<freed, reading, readIndex, out, buffers>>
  BY DEF EndDrain, LineReady
<1>2. /\ Open' = Open /\ Gone' = Gone /\ ~Retiring /\ ~Retiring'
      /\ ReadBuffer = Gone + 1 /\ ReadBuffer' = ReadBuffer
  BY <1>1, PopKeepsClaims DEF Gone, Retiring, ReadBuffer
<1>3. ReaderInv'
  BY <1>1, <1>2 DEF ReaderInv, Base, pushVars
<1>4. /\ Gone \in Nat /\ Base(Gone + 1) \in Nat /\ readIndex \in Slots /\ readIndex \in Nat
      /\ Len(out) = Base(Gone + 1) + readIndex /\ Size \in Nat \ {0}
      /\ Len(out) \in Nat /\ Len(claimed) \in Nat
  BY <1>2, ReaderNumbers, Shapes DEF ReaderInv
<1>5. ASSUME NEW k \in 0..Len(claimed), DueUpTo(k)
      PROVE  k <= Len(out)
  <2>1. CASE reading = 0
    <3>1. Len(buffers) = 0
      BY <1>1, <2>1
    <3>2. Gone = Open
      BY <1>4, <3>1, ReaderNumbers DEF Gone
    <3>3. Base(Gone + 1) = Base(Open) + Size
      BY <3>2, BaseNext, ReaderNumbers
    <3>4. Len(claimed) = Base(Open) + Filled /\ Filled \in 0..Size /\ Base(Open) \in Int
      BY CountedSlots DEF ClaimInv
    <3>5. Len(claimed) <= Len(out)
      BY <1>4, <3>3, <3>4
    <3> QED
      BY <1>4, <3>5
  <2>2. CASE reading # 0
    <3>1. reading = Gone + 1 /\ reading \in Buffers
      BY <2>2 DEF ReaderInv, ShapeInv, QueueTypeOK
    <3>2. ~(Base(Gone + 1) + readIndex + 1 <= k)
      BY <1>1, <1>4, <1>5, <2>2, <3>1 DEF DueUpTo
    <3> QED
      BY <1>4, <3>2
  <2> QED
    BY <2>1, <2>2
<1>6. QuietInv'
  <2>1. ASSUME NEW k \in 0..Len(claimed), DueUpTo(k)
        PROVE  DueUpTo(k)'
    BY <1>1, <1>5, <2>1 DEF DueUpTo, pushVars, downVars, Base
  <2> QED
    BY <2>1 DEF QuietInv, pushVars, downVars
<1> QED
  BY <1>3, <1>6

(* When no push is under way, every line that was pushed has been claimed  *)
(* and is ready.                                                           *)
LEMMA ShutdownStep ==
  ASSUME ShapeInv, LinesClaimed, ClaimInv, ReadyInv, ReaderInv, QuietInv, Shutdown
  PROVE  ReaderInv' /\ QuietInv'
<1>1. /\ due' = {l \in Producer \X (1..Lines) :
                   l[2] < line[l[1]] \/ (l[2] = line[l[1]] /\ pc[l[1]] = "idle")}
      /\ quiet' = (\A p \in Producer : pc[p] = "idle")
      /\ UNCHANGED <<pushVars, popVars, buffers>> /\ state = "READY"
  BY DEF Shutdown
<1>2. ReaderInv'
  <2>1. Open' = Open
    BY <1>1 DEF Open, pushVars
  <2>2. Gone' = Gone /\ (Retiring' <=> Retiring) /\ ReadBuffer' = ReadBuffer
    BY <1>1, <2>1 DEF Gone, Retiring, ReadBuffer, popVars
  <2> QED
    BY <1>1, <2>1, <2>2 DEF ReaderInv, Base, pushVars, popVars
<1>3. ASSUME quiet'
      PROVE  DueUpTo(Len(claimed))'
  <2>1. \A p \in Producer : pc[p] = "idle"
    BY <1>1, <1>3
  <2>2. ASSUME NEW l \in due'
        PROVE  \E j \in 1..Len(claimed') : claimed'[j] = l
    <3>1. PICK p \in Producer, n \in 1..Lines : l = <<p, n>> /\ n <= line[p]
      <4>1. l \in Producer \X (1..Lines)
        BY <1>1, <2>2
      <4>2. l[1] \in Producer /\ l[2] \in 1..Lines /\ l = <<l[1], l[2]>>
        BY <4>1
      <4>3. line[l[1]] \in 0..Lines /\ Lines \in Nat
        BY <4>2, Shapes, NanoLogQueueAssumption
      <4>4. l[2] <= line[l[1]]
        BY <1>1, <2>2, <4>2, <4>3
      <4> QED
        BY <4>2, <4>4
    <3>2. n \in 1..line[p]
      BY <3>1, Shapes, NanoLogQueueAssumption
    <3>3. \E k \in 1..Len(claimed) : claimed[k] = <<p, n>>
      BY <2>1, <3>2 DEF LinesClaimed
    <3> QED
      BY <1>1, <3>1, <3>3 DEF pushVars
  <2>3. \A b \in Buffers, i \in Slots : Base(b) + i + 1 <= Len(claimed) => ready[b][i]
    BY <2>1 DEF ReadyInv, Unflagged
  <2>4. reader # "done"
    BY <1>1 DEF ShapeInv
  <2> QED
    BY <1>1, <2>2, <2>3, <2>4 DEF DueUpTo, pushVars, popVars, Base
<1>4. Len(claimed) \in 0..Len(claimed) /\ claimed' = claimed
  BY <1>1, Shapes DEF pushVars
<1> QED
  BY <1>2, <1>3, <1>4 DEF QuietInv

-----------------------------------------------------------------------------
(* A line gets its slot in the step that takes it past the claim.          *)
LEMMA LinesClaimedStep ==
  ASSUME ShapeInv, LinesClaimed, NEW p \in Producer, Push(p)
  PROVE  LinesClaimed'
<1>1. /\ pc \in [Producer -> PushPlaces] /\ line \in [Producer -> 0..Lines] /\ Lines \in Nat
      /\ claimed \in Seq(LinesOf) /\ Len(claimed) \in Nat
  BY Shapes, NanoLogQueueAssumption
<1>2. CASE Log(p)
  <2>1. /\ pc[p] = "idle" /\ line' = [line EXCEPT ![p] = line[p] + 1]
        /\ pc' = [pc EXCEPT ![p] = "claim"] /\ claimed' = claimed
    BY <1>2 DEF Log, Go
  <2>2. ASSUME NEW q \in Producer, NEW n \in 1..line'[q],
               n < line'[q] \/ pc'[q] \notin {"claim", "spin"}
        PROVE  \E k \in 1..Len(claimed') : claimed'[k] = <<q, n>>
    <3>1. CASE q = p
      <4>1. line[p] \in Nat /\ line'[p] = line[p] + 1 /\ n < line'[p]
        BY <1>1, <2>1, <2>2, <3>1
      <4>2. n \in 1..line[p]
        BY <2>2, <3>1, <4>1
      <4> QED
        BY <2>1, <3>1, <4>2 DEF LinesClaimed
    <3>2. CASE q # p
      BY <1>1, <2>1, <2>2, <3>2 DEF LinesClaimed
    <3> QED
      BY <3>1, <3>2
  <2> QED
    BY <2>2 DEF LinesClaimed
<1>3. CASE Claim(p) /\ writeIndex < Size
  <2>1. /\ pc' = [pc EXCEPT ![p] = "load"] /\ claimed' = Append(claimed, <<p, line[p]>>)
        /\ pc[p] = "claim" /\ line' = line
    BY <1>3 DEF Claim, Go
  <2>2. /\ Len(claimed') = Len(claimed) + 1 /\ claimed'[Len(claimed) + 1] = <<p, line[p]>>
        /\ \A k \in 1..Len(claimed) : k \in 1..Len(claimed') /\ claimed'[k] = claimed[k]
    BY <1>1, <2>1
  <2>3. ASSUME NEW q \in Producer, NEW n \in 1..line'[q],
               n < line'[q] \/ pc'[q] \notin {"claim", "spin"}
        PROVE  \E k \in 1..Len(claimed') : claimed'[k] = <<q, n>>
    <3>1. CASE q = p /\ n = line[p]
      <4>1. Len(claimed) + 1 \in 1..Len(claimed')
        BY <1>1, <2>2
      <4> QED
        BY <2>2, <3>1, <4>1
    <3>2. CASE q = p /\ n # line[p]
      <4>1. n \in 1..line[p] /\ n < line[p]
        BY <1>1, <2>1, <2>3, <3>2
      <4> QED
        BY ZenonT(30), <2>2, <3>2, <4>1 DEF LinesClaimed
    <3>3. CASE q # p
      <4>1. n \in 1..line[q] /\ (n < line[q] \/ pc[q] \notin {"claim", "spin"})
        BY <1>1, <2>1, <2>3, <3>3
      <4>2. PICK k \in 1..Len(claimed) : claimed[k] = <<q, n>>
        BY <4>1 DEF LinesClaimed
      <4> QED
        BY <2>2, <4>2
    <3> QED
      BY <3>1, <3>2, <3>3
  <2> QED
    BY <2>3 DEF LinesClaimed
<1>4. CASE \/ Claim(p) /\ ~(writeIndex < Size)
           \/ Spin(p) \/ Load(p) \/ Write(p) \/ Flag(p) \/ Count(p) \/ Setup(p) \/ Enqueue(p)
  <2>1. /\ UNCHANGED <<line, claimed>>
        /\ \E label \in PushPlaces :
             /\ pc' = [pc EXCEPT ![p] = label]
             /\ pc[p] \in {"claim", "spin"} => label \in {"claim", "spin"}
    BY <1>4 DEF Claim, Spin, Load, Write, Flag, Count, Setup, Enqueue, Go, PushPlaces
  <2>2. \A q \in Producer : pc[q] \in {"claim", "spin"} => pc'[q] \in {"claim", "spin"}
    BY <1>1, <2>1
  <2> QED
    BY <2>1, <2>2 DEF LinesClaimed
<1> QED
  BY <1>2, <1>3, <1>4 DEF Push

(* Every step of a push keeps what holds as long as no freed buffer has    *)
(* been accessed.                                                          *)
LEMMA PushInv ==
  ASSUME QueueInv, NEW p \in Producer, Push(p)
  PROVE  QueueInv'
<1>1. ShapeInv' /\ LinesClaimed'
  BY PushShape, LinesClaimedStep DEF QueueInv
<1>2. /\ Len(claimed) \in Nat /\ Len(claimed') \in Nat /\ pc \in [Producer -> PushPlaces]
      /\ writeIndex \in Nat /\ Size \in Nat /\ ShapeInv
  <2>1. ShapeInv' => Len(claimed') \in Nat
    BY Shapes
  <2> QED
    BY <1>1, <2>1, Shapes DEF QueueInv
<1>3. ASSUME ~uaf'
      PROVE  ClaimInv' /\ ReadyInv' /\ ReaderInv' /\ QuietInv'
  <2>1. ~uaf /\ ClaimInv /\ ReadyInv /\ ReaderInv /\ QuietInv
    <3>1. uaf' = uaf \/ uaf' = (uaf \/ buffer[p] \in freed)
      BY DEF Push, Log, Claim, Spin, Load, Write, Flag, Count, Setup, Enqueue
    <3>2. ~uaf
      BY <1>3, <3>1
    <3> QED
      BY <3>2 DEF QueueInv
  <2>2. CASE Enqueue(p)
    BY <1>2, <2>1, <2>2, EnqueueStep DEF Push
  <2>3. ASSUME UNCHANGED buffers,
               Open' = Open, ClaimInv', ReadyInv',
               Len(claimed) <= Len(claimed'),
               \A k \in 1..Len(claimed) : claimed'[k] = claimed[k],
               \A b \in Buffers, i \in Slots : ready[b][i] => ready'[b][i]
        PROVE  ClaimInv' /\ ReadyInv' /\ ReaderInv' /\ QuietInv'
    BY <1>2, <2>1, <2>3, ReaderUndisturbed DEF Push
  <2>4. CASE Claim(p) /\ writeIndex < Size /\ UNCHANGED buffers
    <3>1. Len(claimed) <= Len(claimed')
      BY <1>2, <2>1, <2>4, ClaimStep
    <3> QED
      BY <1>2, <2>1, <2>3, <2>4, <3>1, ClaimStep
  <2>5. CASE (Log(p) \/ Spin(p) \/ (Claim(p) /\ ~(writeIndex < Size))) /\ UNCHANGED buffers
    <3>1. \E label \in {"idle", "claim", "spin"} :
            pc[p] \in {"idle", "claim", "spin"} /\ pc' = [pc EXCEPT ![p] = label]
      BY <2>5 DEF Log, Spin, Claim, Go
    <3>2. UNCHANGED <<buffer, slots, ready, count, current, claimed>>
      BY <2>5 DEF Log, Spin, Claim
    <3>3. \A q \in Producer \ {p} : index'[q] = index[q] /\ line'[q] = line[q]
      BY <1>2, <2>5, Shapes DEF Log, Spin, Claim
    <3>4. Filled' = Filled
      BY <1>2, <2>5 DEF Log, Spin, Claim, Filled
    <3>5. Open' = Open /\ ClaimInv' /\ ReadyInv'
      BY <1>2, <2>1, <3>1, <3>2, <3>3, <3>4, CalmStep
    <3> QED
      BY <1>2, <2>3, <2>5, <3>2, <3>5
  <2>6. CASE Load(p) /\ UNCHANGED buffers
    BY <1>2, <2>1, <2>3, <2>6, LoadStep
  <2>7. CASE Write(p) /\ UNCHANGED buffers
    BY <1>2, <2>1, <2>3, <2>7, WriteStep
  <2>8. CASE Flag(p) /\ UNCHANGED buffers
    BY <1>2, <2>1, <2>3, <2>8, FlagStep
  <2>9. CASE Count(p) /\ UNCHANGED buffers
    <3>1. buffer[p] \notin freed
      BY <1>3, <2>9 DEF Count
    <3> QED
      BY <1>2, <2>1, <2>3, <2>9, <3>1, CountStep
  <2>10. CASE Setup(p) /\ UNCHANGED buffers
    BY <1>2, <2>1, <2>3, <2>10, SetupStep
  <2> QED
    BY <2>2, <2>4, <2>5, <2>6, <2>7, <2>8, <2>9, <2>10 DEF Push
<1> QED
  BY <1>1, <1>3 DEF QueueInv

(* So does every step of the reader.                                       *)
LEMMA PopInv ==
  ASSUME QueueInv, PopLoop
  PROVE  QueueInv'
<1>1. ShapeInv' /\ UNCHANGED <<pushVars, downVars>>
  BY PopShape DEF QueueInv, PopLoop
<1>2. LinesClaimed'
  BY <1>1 DEF QueueInv, LinesClaimed, pushVars
<1>3. ASSUME ~uaf
      PROVE  ClaimInv' /\ ReadyInv' /\ ReaderInv' /\ QuietInv'
  <2>1. ShapeInv /\ ClaimInv /\ ReadyInv /\ ReaderInv /\ QuietInv
    BY <1>3 DEF QueueInv
  <2>2. ClaimInv' /\ ReadyInv' /\ Open' = Open
    BY <1>1, <2>1, PopKeepsClaims
  <2>3. CASE SeeShutdown
    <3>1. /\ reader = "pop" /\ reader' = "drain"
          /\ UNCHANGED <<freed, reading, readIndex, out, buffers>>
      BY <2>3 DEF SeeShutdown
    <3>2. Gone' = Gone /\ ~Retiring /\ ~Retiring' /\ ReadBuffer' = ReadBuffer
      BY <2>2, <3>1 DEF Gone, Retiring, ReadBuffer
    <3>3. ReaderInv'
      BY <1>1, <2>1, <2>2, <3>1, <3>2 DEF ReaderInv, Base, pushVars
    <3> QED
      BY <1>1, <2>1, <2>2, <3>1, <3>3, DueWaits
  <2> QED
    BY <1>1, <2>1, <2>2, <2>3, NextReadBufferStep, PopStep, RetireStep, EndDrainStep
    DEF PopLoop
<1> QED
  BY <1>1, <1>2, <1>3 DEF QueueInv, pushVars

(* And the start of a shutdown.                                            *)
LEMMA ShutdownInv ==
  ASSUME QueueInv, Shutdown
  PROVE  QueueInv'
<1>1. /\ state = "READY" /\ state' = "SHUTDOWN"
      /\ due' \subseteq LinesOf /\ quiet' \in BOOLEAN
      /\ UNCHANGED <<pushVars, popVars, buffers>>
  BY DEF Shutdown, LinesOf
<1>2. ShapeInv'
  <2>1. QueueTypeOK'
    BY <1>1 DEF QueueInv, ShapeInv, QueueTypeOK, LinesOf, pushVars, popVars
  <2> QED
    BY <1>1, <2>1 DEF QueueInv, ShapeInv, HoldsSlot, Retiring, pushVars, popVars
<1>3. LinesClaimed'
  BY <1>1 DEF QueueInv, LinesClaimed, pushVars
<1>4. ASSUME ~uaf
      PROVE  ClaimInv' /\ ReadyInv' /\ ReaderInv' /\ QuietInv'
  <2>1. ShapeInv /\ LinesClaimed /\ ClaimInv /\ ReadyInv /\ ReaderInv /\ QuietInv
    BY <1>4 DEF QueueInv
  <2> QED
    BY <1>1, <2>1, PopKeepsClaims, ShutdownStep
<1> QED
  BY <1>1, <1>2, <1>3, <1>4 DEF QueueInv, pushVars

(* At the start buffer 1 is open and empty.                                *)
LEMMA InitInv ==
  ASSUME QueueInit
  PROVE  QueueInv
<1>1. 1 \in Buffers /\ 0 \in Slots /\ Size \in Nat \ {0} /\ Lines \in Nat
  BY BuffersAre, NextSlot, NanoLogQueueAssumption
<1>2. ShapeInv
  <2>1. <<1>> \in Seq(Buffers) /\ <<>> \in Seq(LinesOf) /\ <<>> \in Seq(LinesOf \cup {NoLine})
    BY <1>1
  <2>2. QueueTypeOK
    BY <1>1, <2>1 DEF QueueInit, QueueTypeOK, LinesOf
  <2> QED
    BY <2>2 DEF QueueInit, ShapeInv, HoldsSlot, Retiring
<1>3. LinesClaimed
  BY DEF QueueInit, LinesClaimed
<1>4. \A p \in Producer : ~HoldsSlot(p) /\ ~Unflagged(p) /\ ~Opening(p) /\ pc[p] = "idle"
  BY DEF QueueInit, HoldsSlot, Unflagged, Opening
<1>5. Open = 1 /\ Filled = 0 /\ Counted = {}
  <2>1. Open = 1
    BY <1>4 DEF QueueInit, Open
  <2>2. Filled = 0
    BY <1>1 DEF QueueInit, Filled
  <2> QED
    BY <2>1, <2>2 DEF Counted
<1>6. Base(1) = 0 /\ Len(claimed) = 0 /\ Len(out) = 0 /\ Len(buffers) = 1
  BY BaseFirst DEF QueueInit
<1>7. ClaimInv
  BY <1>1, <1>4, <1>5, <1>6, FS_EmptySet DEF QueueInit, ClaimInv
<1>8. ASSUME NEW b \in Buffers, NEW i \in Slots
      PROVE  ~ready[b][i] /\ ~(Base(b) + i + 1 <= 0)
  <2>1. Base(b) \in Nat /\ i \in Nat
    BY BuffersAre, BaseNat, <1>1 DEF Slots
  <2> QED
    BY <2>1 DEF QueueInit
<1>9. ReadyInv
  BY <1>4, <1>6, <1>8 DEF ReadyInv
<1>10. Gone = 0 /\ ReadBuffer = 1
  BY <1>5, <1>6 DEF Gone, ReadBuffer, Retiring, QueueInit
<1>11. ReaderInv
  BY <1>5, <1>6, <1>8, <1>10 DEF ReaderInv, QueueInit
<1>12. QuietInv
  BY DEF QuietInv, QueueInit
<1> QED
  BY <1>2, <1>3, <1>7, <1>9, <1>11, <1>12 DEF QueueInv

-----------------------------------------------------------------------------
(* The inductive invariant, in every state.                                *)
THEOREM QueueInvariant == QueueSpec => []QueueInv
<1>1. ASSUME QueueInv, UNCHANGED queueVars
      PROVE  QueueInv'
  <2>1. UNCHANGED <<pushVars, popVars, downVars, buffers>>
    BY <1>1 DEF queueVars
  <2>2. Open' = Open /\ Gone' = Gone /\ (Retiring' <=> Retiring) /\ ReadBuffer' = ReadBuffer
    BY <2>1 DEF Open, Gone, Retiring, ReadBuffer, pushVars, popVars
  <2>3. ShapeInv'
    BY <1>1, <2>1 DEF QueueInv, ShapeInv, QueueTypeOK, HoldsSlot, Retiring, pushVars,
                      popVars, downVars
  <2>4. LinesClaimed'
    BY <1>1, <2>1 DEF QueueInv, LinesClaimed, pushVars
  <2>5. ASSUME ~uaf
        PROVE  ClaimInv' /\ ReadyInv' /\ ReaderInv' /\ QuietInv'
    <3>1. ShapeInv /\ ClaimInv /\ ReadyInv /\ ReaderInv /\ QuietInv
      BY <1>1, <2>5 DEF QueueInv
    <3>2. ReaderInv'
      BY <2>1, <2>2, <3>1 DEF ReaderInv, Base, pushVars, popVars
    <3>3. QuietInv'
      BY <2>1, <3>1 DEF QuietInv, DueUpTo, Base, pushVars, popVars, downVars
    <3> QED
      BY <2>1, <3>1, <3>2, <3>3, PopKeepsClaims
  <2> QED
    BY <2>1, <2>3, <2>4, <2>5 DEF QueueInv, pushVars
<1>2. QueueInv /\ [QueueNext]_queueVars => QueueInv'
  BY <1>1, PushInv, PopInv, ShutdownInv DEF QueueNext
<1>3. QueueInit => QueueInv
  BY InitInv
<1> QED
  BY <1>2, <1>3, PTL DEF QueueSpec

(* The shape of the state, with or without accesses to freed buffers.      *)
THEOREM QueueTypeCorrect == QueueSpec => []QueueTypeOK
<1>1. QueueInv => QueueTypeOK
  BY DEF QueueInv, ShapeInv
<1> QED
  BY <1>1, QueueInvariant, PTL

(* The file has the lines in the order of their claims.                    *)
THEOREM WrittenInClaimOrderCorrect == QueueSpec => []WrittenInClaimOrder
<1>1. QueueInv => WrittenInClaimOrder
  <2> SUFFICES ASSUME QueueInv, ~uaf
               PROVE  IsPrefixOf(out, claimed)
    BY DEF WrittenInClaimOrder
  <2>1. /\ Len(out) <= Len(claimed) /\ \A k \in 1..Len(out) : out[k] = claimed[k]
        /\ Len(out) \in Nat /\ Len(claimed) \in Nat
    BY Shapes DEF QueueInv, ReaderInv
  <2>2. out \in Seq(LinesOf \cup {NoLine}) /\ claimed \in Seq(LinesOf)
    BY DEF QueueInv, ShapeInv, QueueTypeOK, LinesOf
  <2>3. out = SubSeq(claimed, 1, Len(out))
    <3>1. \A k \in 1..Len(out) : claimed[k] \in LinesOf
      BY <2>1, <2>2
    <3>2. /\ Len(SubSeq(claimed, 1, Len(out))) = Len(out)
          /\ \A k \in 1..Len(out) : SubSeq(claimed, 1, Len(out))[k] = claimed[k]
          /\ SubSeq(claimed, 1, Len(out)) \in Seq(LinesOf)
      BY <2>1, <2>2
    <3> QED
      BY <2>1, <2>2, <3>2
  <2> QED
    BY <2>1, <2>3 DEF IsPrefixOf
<1> QED
  BY <1>1, QueueInvariant, PTL

(* Nobody writes into a slot that another has, or into a buffer that the   *)
(* reader has freed: the slots that have still to be flagged are not       *)
(* ready, and those of freed buffers are.                                  *)
THEOREM SlotsExclusiveCorrect == QueueSpec => []SlotsExclusive
<1>1. QueueInv => SlotsExclusive
  <2> SUFFICES ASSUME QueueInv, ~uaf
               PROVE  SlotsExclusive
    BY DEF SlotsExclusive
  <2>1. ShapeInv /\ ClaimInv /\ ReadyInv /\ ReaderInv
    BY DEF QueueInv
  <2>2. \A p \in Producer : pc[p] \in {"write", "flag", "count"} =>
          HoldsSlot(p) /\ buffer[p] = Open
    BY <2>1 DEF ClaimInv, HoldsSlot
  <2>3. ASSUME NEW p \in Producer, NEW q \in Producer, p # q,
               pc[p] \in {"write", "flag"}, pc[q] \in {"write", "flag", "count"}
        PROVE  <<buffer[p], index[p]>> # <<buffer[q], index[q]>>
    BY <2>1, <2>2, <2>3 DEF ClaimInv
  <2>4. ASSUME NEW p \in Producer, pc[p] \in {"write", "flag"}, buffer[p] \in freed
        PROVE  FALSE
    <3>1. /\ index[p] \in Slots /\ Open \in Buffers /\ buffer[p] = Open
          /\ ~ready[Open][index[p]]
      <4>1. HoldsSlot(p) /\ buffer[p] = Open /\ Unflagged(p)
        BY <2>2, <2>4 DEF Unflagged
      <4>2. index[p] \in Slots /\ Open \in Buffers
        BY <2>1, <4>1 DEF ShapeInv, ClaimInv
      <4> QED
        BY <2>1, <4>1, <4>2 DEF ReadyInv
    <3>2. /\ Gone \in Nat /\ Open \in Nat \ {0} /\ Len(buffers) \in Nat /\ readIndex \in Nat
          /\ Len(out) \in Nat /\ Size \in Nat \ {0} /\ ReadBuffer \in Nat \ {0}
          /\ Base(Open) \in Nat /\ Base(ReadBuffer) \in Nat
      BY <2>1, ReaderNumbers, Shapes, BaseNat
    <3>3. Open <= Gone
      BY <2>1, <2>4, <3>1, <3>2 DEF ReaderInv
    <3>4. ReadBuffer > Open
      BY <3>2, <3>3 DEF ReadBuffer
    <3>5. Base(Open) + Size <= Base(ReadBuffer)
      BY <3>2, <3>4, BaseGrows
    <3>6. Len(out) = Base(ReadBuffer) + readIndex
      BY <2>1 DEF ReaderInv
    <3>7. index[p] \in Nat /\ index[p] < Size
      BY <3>1, <3>2 DEF Slots
    <3>8. Base(Open) + index[p] + 1 <= Len(out)
      BY SMTT(20), <3>2, <3>5, <3>6, <3>7
    <3> QED
      BY <2>1, <3>1, <3>8 DEF ReaderInv
  <2> QED
    BY <2>3, <2>4 DEF SlotsExclusive
<1> QED
  BY <1>1, QueueInvariant, PTL

(* At most one thread opens the next buffer.                               *)
THEOREM OneSetupCorrect == QueueSpec => []OneSetup
<1>1. QueueInv => OneSetup
  <2> SUFFICES ASSUME QueueInv, ~uaf
               PROVE  Cardinality({p \in Producer : pc[p] \in {"setup", "enqueue"}}) <= 1
    BY DEF OneSetup
  <2> DEFINE Openers == {p \in Producer : pc[p] \in {"setup", "enqueue"}}
  <2>1. \A p, q \in Openers : p = q
    BY DEF QueueInv, ClaimInv, Opening
  <2>2. CASE Openers = {}
    BY <2>2, FS_EmptySet
  <2>3. CASE Openers # {}
    <3>1. PICK p \in Openers : Openers = {p}
      BY <2>1, <2>3
    <3> QED
      BY <3>1, FS_Singleton
  <2> QED
    BY <2>2, <2>3
<1> QED
  BY <1>1, QueueInvariant, PTL

(* A shutdown that begins while no push is under way loses no line.        *)
THEOREM QuietShutdownCorrect == QueueSpec => []QuietShutdownLosesNothing
<1>1. QueueInv => QuietShutdownLosesNothing
  <2> SUFFICES ASSUME QueueInv, reader = "done", quiet, ~uaf, NEW l \in due
               PROVE  \E i \in DOMAIN out : out[i] = l
    BY DEF QuietShutdownLosesNothing
  <2>1. PICK k \in 0..Len(claimed) : DueUpTo(k)
    BY DEF QueueInv, ShapeInv, QuietInv
  <2>2. PICK j \in 1..k : claimed[j] = l
    BY <2>1 DEF DueUpTo
  <2>3. Len(out) \in Nat /\ Len(claimed) \in Nat /\ out \in Seq(LinesOf \cup {NoLine})
    BY Shapes DEF QueueInv, ShapeInv, QueueTypeOK, LinesOf
  <2>4. j \in 1..Len(out)
    BY <2>1, <2>2, <2>3 DEF DueUpTo
  <2>5. DOMAIN out = 1..Len(out)
    BY <2>3
  <2> QED
    BY <2>2, <2>4, <2>5 DEF QueueInv, ReaderInv
<1> QED
  BY <1>1, QueueInvariant, PTL
=============================================================================
