------------------------- MODULE NanoLogRingProofs -------------------------
(***************************************************************************)
(* The safety of NanoLogRing, for any number of threads, lines of any      *)
(* arguments, any sizes of the buffers, the ring and the files, any range  *)
(* of the indices, and any number of restarts: no line outgrows its        *)
(* buffer, is printed otherwise than it was logged, or taken twice; none   *)
(* is taken out of order, dropped or left behind as long as reader and     *)
(* writers are in step; and the files hold what the reader has taken.      *)
(***************************************************************************)
EXTENDS NanoLogRing, SequenceFoldsProofs, TLAPS

(* A line that has not outgrown its buffer.                                *)
SoundLine(l) == l \in LineType /\ Fits(l)

(* The header fits into the buffer inside the object.                      *)
LEMMA NewLineSound ==
  ASSUME NEW lv \in Levels
  PROVE  SoundLine(NewLine(lv))
  BY LogLineAssumption DEF SoundLine, LineType, NewLine, Fits

(* After resize_buffer_if_needed there is room for the additional bytes,   *)
(* and what has been used is unchanged.                                    *)
LEMMA ResizeMakesRoom ==
  ASSUME NEW l \in LineType, NEW n \in Nat
  PROVE  /\ Resize(l, n) \in LineType
         /\ Resize(l, n).used = l.used
         /\ Resize(l, n).mem \in {l.mem, Copied(l, l.used)}
         /\ l.used + n <= Resize(l, n).size
<1>1. l.used \in Nat /\ l.size \in Nat /\ l.heap \in BOOLEAN
  BY DEF LineType
<1>2. PICK copy \in SUBSET Memory : copy = Copied(l, l.used)
  BY DEF Copied, LineType
<1>3. CASE l.used + n <= l.size
  <2>1. Resize(l, n) = l
    BY <1>1, <1>3 DEF Resize
  <2> QED
    BY <1>3, <2>1
<1>4. CASE l.used + n > l.size /\ ~l.heap
  <2>1. ~(l.used + n <= l.size)
    BY <1>1, <1>4
  <2>2. Resize(l, n) = [l EXCEPT !.size = Larger(512, l.used + n), !.heap = TRUE,
                                 !.mem = Copied(l, l.used)]
    BY <1>1, <1>4, <2>1 DEF Resize
  <2>3. PICK m \in Nat : m = Larger(512, l.used + n) /\ m >= l.used + n
    BY <1>1 DEF Larger
  <2>4. Resize(l, n) = [l EXCEPT !.size = m, !.heap = TRUE, !.mem = copy]
    BY <1>2, <2>2, <2>3
  <2>5. Resize(l, n) \in LineType
    BY <2>4 DEF LineType
  <2>6. Resize(l, n).size = m /\ Resize(l, n).mem = copy /\ Resize(l, n).used = l.used
    BY <2>4 DEF LineType
  <2> QED
    BY <1>2, <2>3, <2>5, <2>6
<1>5. CASE l.used + n > l.size /\ l.heap
  <2>1. ~(l.used + n <= l.size)
    BY <1>1, <1>5
  <2>2. Resize(l, n) = [l EXCEPT !.size = Larger(2 * l.size, l.used + n),
                                 !.mem = Copied(l, l.used)]
    BY <1>1, <1>5, <2>1 DEF Resize
  <2>3. PICK m \in Nat : m = Larger(2 * l.size, l.used + n) /\ m >= l.used + n
    BY <1>1 DEF Larger
  <2>4. Resize(l, n) = [l EXCEPT !.size = m, !.mem = copy]
    BY <1>2, <2>2, <2>3
  <2>5. Resize(l, n) \in LineType
    BY <2>4 DEF LineType
  <2>6. Resize(l, n).size = m /\ Resize(l, n).mem = copy /\ Resize(l, n).used = l.used
    BY <2>4 DEF LineType
  <2> QED
    BY <1>2, <2>3, <2>5, <2>6
<1> QED
  BY <1>1, <1>3, <1>4, <1>5

(* A type has its place among the supported ones, and all but the strings  *)
(* have a size.                                                            *)
LEMMA TypesSupported ==
  /\ DOMAIN SupportedTypes \subseteq Nat \ {0}
  /\ \A t \in Types : /\ TypeId(t) \in Nat
                      /\ TypeId(t) + 1 \in DOMAIN SupportedTypes
                      /\ SupportedTypes[TypeId(t) + 1] = t
                      /\ t # "string" => SizeOf[t] \in Nat \ {0}
<1>1. DOMAIN SupportedTypes = 1..8
  BY DEF SupportedTypes
<1>2. ASSUME NEW t \in Types
      PROVE  /\ TypeId(t) \in Nat
             /\ TypeId(t) + 1 \in DOMAIN SupportedTypes
             /\ SupportedTypes[TypeId(t) + 1] = t
  <2> DEFINE n == CHOOSE n \in DOMAIN SupportedTypes : SupportedTypes[n] = t
  <2>1. n \in DOMAIN SupportedTypes /\ SupportedTypes[n] = t
    BY DEF Types
  <2>2. TypeId(t) = n - 1
    BY DEF TypeId
  <2> HIDE DEF n
  <2>3. n \in 1..8
    BY <1>1, <2>1
  <2>4. TypeId(t) \in Nat /\ TypeId(t) + 1 = n
    BY <2>2, <2>3
  <2> QED
    BY <2>1, <2>4
<1>3. ASSUME NEW t \in Types, t # "string"
      PROVE  SizeOf[t] \in Nat \ {0}
  <2>1. PICK n \in 1..8 : t = SupportedTypes[n]
    BY <1>1 DEF Types
  <2>2. t \in {"char", "uint32", "uint64", "int32", "int64", "double", "literal"}
    BY <1>3, <2>1 DEF SupportedTypes
  <2> QED
    BY <2>2 DEF SizeOf
<1> QED
  BY <1>1, <1>2, <1>3

(* What is put for an argument is at offsets from the first of its bytes   *)
(* to the last.                                                            *)
LEMMA PiecesSound ==
  ASSUME NEW offset \in Nat, NEW a \in Arguments
  PROVE  /\ EncodedBytes(a) \in Nat \ {0}
         /\ Pieces(offset, a) \subseteq Memory
         /\ \A m \in Pieces(offset, a) : offset <= m.at /\ m.at < offset + EncodedBytes(a)
<1>1. /\ a.type \in Types /\ a.bytes \in Nat /\ a.shown \in Nat
      /\ a.type # "string" => a.bytes \in Nat \ {0}
  BY TypesSupported DEF Arguments
<1>2. PICK id \in Nat : id = TypeId(a.type)
  BY <1>1, TypesSupported
<1>3. EncodedBytes(a) \in Nat \ {0} /\ EncodedBytes(a) >= 2
  BY <1>1 DEF EncodedBytes
<1>4. ASSUME NEW m \in Pieces(offset, a)
      PROVE  m \in Memory /\ offset <= m.at /\ m.at < offset + EncodedBytes(a)
  <2>1. CASE m = At(offset, "type", id) \/ m = At(offset + 1, "value", a.shown)
    BY <1>1, <1>3, <2>1 DEF At, Memory
  <2>2. CASE a.type = "string" /\ m = At(offset + 1 + a.bytes, "nul", 0)
    BY <1>1, <2>2 DEF At, Memory, EncodedBytes
  <2> QED
    BY <1>2, <1>4, <2>1, <2>2 DEF Pieces
<1> QED
  BY <1>3, <1>4

(* operator<<: an argument is written into the room that was made for it,  *)
(* behind what has been used, and nothing of that is lost.                 *)
LEMMA EncodeSound ==
  ASSUME NEW l, SoundLine(l), NEW a \in Arguments
  PROVE  /\ SoundLine(Encode(l, a))
         /\ ~IsEmpty(a) =>
              /\ Encode(l, a).used = l.used + EncodedBytes(a)
              /\ (\A m \in l.mem : m.at < l.used) =>
                   Encode(l, a).mem = l.mem \cup Pieces(l.used, a)
<1>1. EncodedBytes(a) \in Nat /\ l.used \in Nat
  BY PiecesSound DEF SoundLine, LineType
<1>2. CASE IsEmpty(a)
  BY <1>2 DEF Encode
<1>3. CASE ~IsEmpty(a)
  <2> DEFINE r == Resize(l, EncodedBytes(a))
  <2>1. /\ r \in LineType
        /\ r.used = l.used
        /\ r.mem \in {l.mem, Copied(l, l.used)}
        /\ l.used + EncodedBytes(a) <= r.size
    BY <1>1, ResizeMakesRoom DEF SoundLine
  <2>2. Encode(l, a) = [r EXCEPT !.mem = @ \cup Pieces(l.used, a),
                                 !.used = @ + EncodedBytes(a)]
    BY <1>3 DEF Encode
  <2> HIDE DEF r
  <2>3. PICK used \in Nat : used = r.used + EncodedBytes(a)
    BY <1>1, <2>1 DEF LineType
  <2>4. PICK mem \in SUBSET Memory : mem = r.mem \cup Pieces(l.used, a)
    BY <1>1, <2>1, PiecesSound DEF LineType
  <2>5. Encode(l, a) = [r EXCEPT !.mem = mem, !.used = used]
    BY <2>2, <2>3, <2>4
  <2>6. /\ Encode(l, a) \in LineType
        /\ Encode(l, a).used = used /\ Encode(l, a).mem = mem /\ Encode(l, a).size = r.size
    BY <2>1, <2>5 DEF LineType
  <2>7. (\A m \in l.mem : m.at < l.used) => Copied(l, l.used) = l.mem
    BY DEF Copied
  <2> QED
    BY <1>3, <2>1, <2>3, <2>4, <2>6, <2>7 DEF SoundLine, Fits
<1> QED
  BY <1>2, <1>3

(* The lines and the slots of the ring that the invariant allows.          *)
SoundLines == {l \in LineType : Fits(l)}

Item == [written : BOOLEAN, id : {<<>>} \cup (Producer \X Nat), logline : SoundLines]

(* All lines there are, being made or in the ring, are sound, and what is  *)
(* encoded next is an argument of the line that is logged.                 *)
LinesInv ==
  /\ pc \in [Producer -> {"idle", "encode", "store"}]
  /\ line \in [Producer -> Nat]
  /\ \A p \in Producer : pc[p] # "idle" => line[p] \in 1..Len(Content[p])
  /\ arg \in [Producer -> Nat]
  /\ logline \in [Producer -> SoundLines]
  /\ ring \in [Slots -> Item]

(* What a thread logs is made of a level and arguments.                    *)
LEMMA LinesOfContent ==
  ASSUME NEW p \in Producer, NEW n \in 1..Len(Content[p])
  PROVE  /\ Line(p, n).level \in Levels
         /\ Line(p, n).args \in Seq(Arguments)
<1> DEFINE Kind == [level : Levels, args : Seq(Arguments)]
<1>1. Content[p] \in Seq(Kind)
  BY NanoLogRingAssumption
<1>2. Content[p][n] \in Kind
  <2> HIDE DEF Kind
  <2> QED
    BY <1>1
<1> QED
  BY <1>2 DEF Line

(* An empty slot holds a line, that of the constructor of Item.            *)
LEMMA BlankIsItem == NewLine(INFO) \in SoundLines /\ Blank \in Item
  BY NewLineSound DEF Levels, INFO, SoundLine, SoundLines, Blank, Item

(* The LOG macros: a line is begun with a buffer that holds its header.    *)
LEMMA BeginInv ==
  ASSUME LinesInv, NEW p \in Producer, Begin(p)
  PROVE  LinesInv'
<1>1. line[p] \in Nat /\ Len(Content[p]) \in Nat
  BY NanoLogRingAssumption DEF LinesInv
<1>2. line' = [line EXCEPT ![p] = @ + 1] /\ ring' = ring /\ pc[p] = "idle"
  BY DEF Begin
<1>3. line'[p] \in 1..Len(Content[p])
  BY <1>1, <1>2 DEF Begin, LinesInv
<1>4. CASE IsLogged(Line(p, line'[p]).level)
  <2>1. NewLine(Line(p, line'[p]).level) \in SoundLines
    BY <1>3, LinesOfContent, NewLineSound DEF SoundLine, SoundLines
  <2>2. /\ pc' = [pc EXCEPT ![p] = "encode"]
        /\ logline' = [logline EXCEPT ![p] = NewLine(Line(p, line'[p]).level)]
        /\ arg' = [arg EXCEPT ![p] = 0]
    BY <1>4 DEF Begin, Goes
  <2> QED
    BY <1>1, <1>2, <1>3, <2>1, <2>2 DEF LinesInv
<1>5. CASE ~IsLogged(Line(p, line'[p]).level)
  <2>1. pc' = pc /\ logline' = logline /\ arg' = arg
    BY <1>5 DEF Begin
  <2> QED
    BY <1>1, <1>2, <2>1 DEF LinesInv
<1> QED
  BY <1>4, <1>5

(* operator<< keeps the line sound.                                        *)
LEMMA PutInv ==
  ASSUME LinesInv, NEW p \in Producer, Put(p)
  PROVE  LinesInv'
<1> DEFINE args == Line(p, line[p]).args
<1>1. line[p] \in 1..Len(Content[p])
  BY DEF Put, LinesInv
<1>2. args \in Seq(Arguments)
  BY <1>1, LinesOfContent
<1>3. /\ arg' = [arg EXCEPT ![p] = @ + 1]
      /\ logline' = [logline EXCEPT ![p] = Encode(@, args[arg'[p]])]
      /\ arg[p] < Len(args)
      /\ UNCHANGED <<pc, line, ring>>
  BY DEF Put
<1>4. arg[p] \in Nat /\ arg'[p] = arg[p] + 1
  BY <1>3 DEF LinesInv
<1> HIDE DEF args
<1>5. args[arg'[p]] \in Arguments
  BY <1>2, <1>3, <1>4
<1>6. Encode(logline[p], args[arg'[p]]) \in SoundLines
  BY <1>5, EncodeSound DEF LinesInv, SoundLine, SoundLines
<1> QED
  BY <1>3, <1>4, <1>6 DEF LinesInv

(* RingBuffer::push moves the line into its slot, whatever that is.        *)
LEMMA StoreInv ==
  ASSUME LinesInv, NEW p \in Producer, Store(p)
  PROVE  LinesInv'
<1> DEFINE item == [written |-> TRUE, id |-> Id(p), logline |-> logline[p]]
<1>1. item \in Item
  BY DEF LinesInv, Item, Id
<1> HIDE DEF item
<1>2. /\ ring' = [ring EXCEPT ![Slot(index[p])] = item]
      /\ pc' = [pc EXCEPT ![p] = "idle"]
      /\ logline' = [logline EXCEPT ![p] = NewLine(INFO)]
      /\ UNCHANGED <<line, arg>>
  BY DEF Store, Goes, item
<1> QED
  BY <1>1, <1>2, BlankIsItem DEF LinesInv

(* Any step of a push; claiming an index touches no line.                  *)
LEMMA PushInv ==
  ASSUME LinesInv, NEW p \in Producer, Push(p)
  PROVE  LinesInv'
<1>1. CASE Claim(p)
  <2>1. pc' = [pc EXCEPT ![p] = "store"] /\ UNCHANGED <<line, arg, logline, ring>>
    BY <1>1 DEF Claim, Goes
  <2>2. pc[p] = "encode"
    BY <1>1 DEF Claim
  <2> QED
    BY <2>1, <2>2 DEF LinesInv
<1> QED
  BY <1>1, BeginInv, PutInv, StoreInv DEF Push

(* The reader empties slots and leaves lines alone; a restart makes new    *)
(* ones.                                                                   *)
LEMMA OtherStepsInv ==
  ASSUME LinesInv, PopLoop \/ Shutdown \/ Restart \/ SetLogLevel
  PROVE  LinesInv'
<1>1. CASE Take /\ UNCHANGED <<pc, line, logline, arg>>
  <2>1. ring' = [ring EXCEPT ![Slot(readIndex)].written = FALSE]
    BY <1>1 DEF Take
  <2>2. \A r \in Item : [r EXCEPT !.written = FALSE] \in Item
    BY DEF Item
  <2>3. ring' \in [Slots -> Item]
    BY <2>1, <2>2 DEF LinesInv
  <2> QED
    BY <1>1, <2>3 DEF LinesInv
<1>2. CASE (SeeShutdown \/ EndDrain) /\ UNCHANGED <<pc, line, logline, arg>>
  BY <1>2 DEF SeeShutdown, EndDrain, LinesInv
<1>3. CASE Shutdown \/ SetLogLevel
  BY <1>3 DEF Shutdown, SetLogLevel, pushVars, LinesInv
<1>4. CASE Restart
  <2>1. /\ pc' = [q \in Producer |-> "idle"]
        /\ logline' = [q \in Producer |-> NewLine(INFO)]
        /\ arg' = [q \in Producer |-> 0]
        /\ ring' = [i \in Slots |-> Blank]
        /\ line' = line
    BY <1>4 DEF Restart, LoggerReset
  <2> QED
    BY <2>1, BlankIsItem DEF LinesInv
<1> QED
  BY <1>1, <1>2, <1>3, <1>4 DEF PopLoop

(* LinesInv holds in every state, so that it is inductive.                 *)
THEOREM LinesInvariant == RingSpec => []LinesInv
<1>1. RingInit => LinesInv
  BY BlankIsItem DEF RingInit, LoggerInit, LinesInv
<1>2. LinesInv /\ [RingNext]_ringVars => LinesInv'
  <2>1. ASSUME LinesInv, UNCHANGED ringVars
        PROVE  LinesInv'
    BY <2>1 DEF ringVars, pushVars, LinesInv
  <2> QED
    BY <2>1, PushInv, OtherStepsInv DEF RingNext
<1> QED
  BY <1>1, <1>2, PTL DEF RingSpec

(* No byte of a line is written beyond its buffer, in whatever slot it is. *)
THEOREM LinesFitCorrect == RingSpec => []LinesFit
<1>1. LinesInv => LinesFit
  BY DEF LinesInv, LinesFit, SoundLines, Item
<1> QED
  BY <1>1, LinesInvariant, PTL
-----------------------------------------------------------------------------
(* A division leaves a quotient and a remainder,                           *)
LEMMA DivMod ==
  ASSUME NEW a \in Nat, NEW m \in Nat \ {0}
  PROVE  \E q \in Nat : \E r \in 0..(m - 1) : a = m * q + r /\ a % m = r
<1>1. a % m \in 0..(m - 1) /\ a = m * (a \div m) + (a % m)
  OBVIOUS
<1>2. a \div m \in Nat
  OBVIOUS
<1> QED
  BY <1>1, <1>2

(* and no others would do.                                                 *)
LEMMA DivModUnique ==
  ASSUME NEW m \in Nat \ {0}, NEW q \in Int, NEW t \in Int,
         NEW r \in 0..(m - 1), NEW u \in 0..(m - 1), m * q + r = m * t + u
  PROVE  q = t /\ r = u
<1>1. m * (q - t) = u - r
  OBVIOUS
<1>2. CASE q - t >= 1
  <2>1. m * (q - t) >= m * 1
    BY <1>2
  <2> QED
    BY <1>1, <2>1
<1>3. CASE q - t <= -1
  <2>1. m * (q - t) <= m * (-1)
    BY <1>3
  <2> QED
    BY <1>1, <2>1
<1>4. CASE q - t = 0
  BY <1>1, <1>4
<1> QED
  BY <1>2, <1>3, <1>4

(* An index, a claim's number modulo 2^32, has a slot. It is that of the   *)
(* claim as long as the indices have not wrapped, and also afterwards, if  *)
(* Size divides 2^32.                                                      *)
LEMMA SlotOfIndex ==
  ASSUME NEW c \in Nat
  PROVE  /\ c % Modulus \in Nat
         /\ Slot(c % Modulus) \in Slots
         /\ c % Size \in Slots
<1>1. c % Modulus \in Nat
  BY NanoLogRingAssumption
<1> QED
  BY <1>1, NanoLogRingAssumption DEF Slot, Slots

LEMMA SlotOfClaim ==
  ASSUME NEW c \in Nat, Modulus % Size = 0 \/ c < Modulus
  PROVE  Slot(c % Modulus) = c % Size
<1>0. Size \in Nat \ {0} /\ Modulus \in Nat \ {0}
  BY NanoLogRingAssumption
<1>1. PICK q \in Nat, r \in 0..(Modulus - 1) : c = Modulus * q + r /\ c % Modulus = r
  BY <1>0, DivMod
<1>1a. r \in Nat /\ r + 1 \in Nat
  BY <1>0
<1>2. CASE c < Modulus
  <2>1. c \in 0..(Modulus - 1) /\ c = Modulus * 0 + c
    BY <1>0, <1>2
  <2>2. Modulus * q + r = Modulus * 0 + c
    BY <1>1, <2>1
  <2>3. r = c
    BY <1>0, <2>1, <2>2, DivModUnique
  <2> QED
    BY <1>1, <2>3 DEF Slot
<1>3. CASE Modulus % Size = 0
  <2>1. PICK k \in Nat : Modulus = Size * k
    <3>1. PICK k \in Nat, z \in 0..(Size - 1) : Modulus = Size * k + z /\ Modulus % Size = z
      BY <1>0, DivMod
    <3> QED
      BY <1>0, <1>3, <3>1
  <2>2. PICK t \in Nat, u \in 0..(Size - 1) : r = Size * t + u /\ r % Size = u
    BY <1>0, <1>1a, DivMod
  <2>3. PICK v \in Nat, w \in 0..(Size - 1) : c = Size * v + w /\ c % Size = w
    BY <1>0, DivMod
  <2>4. k * q + t \in Nat /\ Size * (k * q + t) = Size * k * q + Size * t
    BY <1>0
  <2>5. Size * (k * q + t) + u = Size * v + w
    BY <1>0, <1>1, <2>1, <2>2, <2>3, <2>4
  <2>6. u = w
    BY <1>0, <2>4, <2>5, DivModUnique
  <2> QED
    BY <1>1, <2>2, <2>3, <2>6 DEF Slot
<1> QED
  BY <1>2, <1>3

(* The index after that of a claim is the index of the next claim.         *)
LEMMA NextClaimIndex ==
  ASSUME NEW c \in Nat
  PROVE  ((c % Modulus) + 1) % Modulus = (c + 1) % Modulus
<1>0. Modulus \in Nat \ {0}
  BY NanoLogRingAssumption
<1>1. PICK q \in Nat, r \in 0..(Modulus - 1) : c = Modulus * q + r /\ c % Modulus = r
  BY <1>0, DivMod
<1>1a. r \in Nat /\ r + 1 \in Nat
  BY <1>0
<1>2. PICK t \in Nat, u \in 0..(Modulus - 1) :
        r + 1 = Modulus * t + u /\ (r + 1) % Modulus = u
  BY ONLY <1>0, <1>1a, DivMod
<1>3. PICK v \in Nat, w \in 0..(Modulus - 1) :
        c + 1 = Modulus * v + w /\ (c + 1) % Modulus = w
  <2>1. c + 1 \in Nat
    OBVIOUS
  <2> QED
    BY ONLY <1>0, <2>1, DivMod
<1>4. Modulus * (q + t) + u = Modulus * v + w
  BY <1>0, <1>1, <1>2, <1>3
<1>5. u = w
  BY <1>0, <1>4, DivModUnique
<1> QED
  BY <1>1, <1>2, <1>3, <1>5

(* Claims that share a slot are at least Size apart.                       *)
LEMMA SlotsApart ==
  ASSUME NEW c \in Nat, NEW d \in Nat, c % Size = d % Size, c < d + Size, d < c + Size
  PROVE  c = d
<1>0. Size \in Nat \ {0}
  BY NanoLogRingAssumption
<1>1. PICK q \in Nat, r \in 0..(Size - 1) : c = Size * q + r /\ c % Size = r
  BY <1>0, DivMod
<1>2. PICK t \in Nat, u \in 0..(Size - 1) : d = Size * t + u /\ d % Size = u
  BY <1>0, DivMod
<1>3. r = u /\ c - d = Size * (q - t)
  BY <1>0, <1>1, <1>2
<1>4. CASE q - t >= 1
  <2>1. Size * (q - t) >= Size * 1
    BY <1>0, <1>4
  <2> QED
    BY <1>0, <1>3, <2>1
<1>5. CASE q - t <= -1
  <2>1. Size * (q - t) <= Size * (-1)
    BY <1>0, <1>5
  <2> QED
    BY <1>0, <1>3, <2>1
<1>6. CASE q = t
  BY <1>1, <1>2, <1>3, <1>6
<1> QED
  BY <1>4, <1>5, <1>6
-----------------------------------------------------------------------------
(* The shape of the rest of the state, and what the two indices count.     *)
Ids == Producer \X Nat

(* What can be printed.                                                    *)
Texts == {Stringify(l) : l \in LineType}

RingShape ==
  /\ LinesInv
  /\ \A i \in Slots : ring[i].written => ring[i].id \in Ids
  /\ index \in [Producer -> Nat]
  /\ claimed \in Seq(Ids)
  /\ out \in Seq([id : Ids, text : Texts])
  /\ lapped \in BOOLEAN
  /\ writeIndex = Len(claimed) % Modulus
  /\ readIndex = Len(out) % Modulus

(* An id that is neither in the ring nor taken.                            *)
Unseen(id) ==
  /\ \A j \in 1..Len(out) : out[j].id # id
  /\ \A i \in Slots : ring[i].written => ring[i].id # id

(* Every id is in one place: being logged, in one slot, or taken once.     *)
OnceInv ==
  /\ \A i, j \in 1..Len(out) : out[i].id = out[j].id => i = j
  /\ \A i \in 1..Len(out) : out[i].id[2] <= line[out[i].id[1]]
  /\ \A i \in Slots : ring[i].written =>
       /\ ring[i].id[2] <= line[ring[i].id[1]]
       /\ \A j \in 1..Len(out) : out[j].id # ring[i].id
       /\ \A j \in Slots : ring[j].written /\ ring[j].id = ring[i].id => i = j
  /\ \A p \in Producer : pc[p] # "idle" => Unseen(Id(p))

(* The numbers of the claims that have not been taken.                     *)
Waiting == Len(out)..(Len(claimed) - 1)

(* As long as reader and writers are in step, each line that waits is in   *)
(* the slot of its claim, or about to be stored there.                     *)
FollowInv ==
  /\ Len(out) <= Len(claimed) /\ Len(claimed) <= Len(out) + Size
  /\ \A i \in 1..Len(out) : out[i].id = claimed[i]
  /\ \A i \in Slots : ring[i].written =>
       \E c \in Waiting : c % Size = i /\ ring[i].id = claimed[c + 1]
  /\ \A p \in Producer : pc[p] = "store" =>
       \E c \in Waiting : index[p] = c % Modulus /\ Id(p) = claimed[c + 1]
  /\ \A c \in Waiting :
       \/ ring[c % Size].written
       \/ \E p \in Producer : pc[p] = "store" /\ index[p] = c % Modulus
  /\ dropped = {}

(* A reader that has drained the ring has left no line in its slot.        *)
DoneInv == reader = "done" => ~ReadSlot.written

(* The inductive invariant.                                                *)
ClaimsInv ==
  /\ RingShape
  /\ OnceInv
  /\ InStep => FollowInv
  /\ DoneInv

(* Ids are a thread and a number, wherever a line is.                      *)
LEMMA IdsAreIds ==
  ASSUME RingShape
  PROVE  /\ \A i \in 1..Len(out) : out[i].id \in Ids
         /\ \A id \in Ids : id[1] \in Producer /\ id[2] \in Nat /\ line[id[1]] \in Nat
<1> DEFINE Taking == [id : Ids, text : Texts]
<1>1. \A i \in 1..Len(out) : out[i] \in Taking
  <2>1. out \in Seq(Taking)
    BY DEF RingShape
  <2> HIDE DEF Taking
  <2> QED
    BY <2>1
<1>2. \A id \in Ids : id[1] \in Producer /\ id[2] \in Nat
  BY DEF Ids
<1>3. \A p \in Producer : line[p] \in Nat
  BY DEF RingShape, LinesInv
<1> QED
  BY <1>1, <1>2, <1>3

(* The lengths of the histories are numbers, and so is what divides them.  *)
LEMMA Lengths ==
  ASSUME RingShape
  PROVE  /\ Size \in Nat \ {0} /\ Modulus \in Nat \ {0}
         /\ Len(out) \in Nat /\ Len(claimed) \in Nat
<1> DEFINE Taking == [id : Ids, text : Texts]
<1>1. out \in Seq(Taking) /\ claimed \in Seq(Ids)
  BY DEF RingShape
<1> HIDE DEF Taking
<1>2. Len(out) \in Nat /\ Len(claimed) \in Nat
  BY <1>1
<1> QED
  BY <1>2, NanoLogRingAssumption

(* While the indices agree on the slots, they do for all that wait.        *)
LEMMA WaitingInStep ==
  ASSUME RingShape, InStep, NEW c \in Waiting
  PROVE  /\ c \in Nat
         /\ Slot(c % Modulus) = c % Size
<1>1. /\ Modulus \in Nat \ {0} /\ Len(out) \in Nat /\ Len(claimed) \in Nat
  BY Lengths
<1>2. c \in Nat /\ c < Len(claimed)
  BY <1>1 DEF Waiting
<1>3. Modulus % Size = 0 \/ c < Modulus
  BY <1>1, <1>2 DEF InStep
<1> QED
  BY <1>2, <1>3, SlotOfClaim

(* An empty ring, before the first claim.                                  *)
LEMMA ClaimsInit ==
  ASSUME LoggerInit, LinesInv
  PROVE  ClaimsInv
<1>0. Size \in Nat \ {0} /\ Modulus \in Nat \ {0} /\ 0 \in Nat
  BY NanoLogRingAssumption
<1>1. /\ pc = [p \in Producer |-> "idle"] /\ index = [p \in Producer |-> 0]
      /\ ring = [i \in Slots |-> Blank]
      /\ writeIndex = 0 /\ readIndex = 0 /\ reader = "pop"
      /\ out = <<>> /\ claimed = <<>> /\ lapped = FALSE /\ dropped = {}
  BY DEF LoggerInit
<1>2. \A i \in Slots : ~ring[i].written
  BY <1>1 DEF Blank
<1>3. Len(out) = 0 /\ Len(claimed) = 0 /\ 0 % Modulus = 0
  BY <1>0, <1>1
<1>4. RingShape
  <2>1. claimed \in Seq(Ids) /\ out \in Seq([id : Ids, text : Texts])
    BY <1>1
  <2>2. index \in [Producer -> Nat] /\ lapped \in BOOLEAN
    BY <1>1
  <2> QED
    BY <1>1, <1>2, <1>3, <2>1, <2>2 DEF RingShape
<1>5. OnceInv
  BY <1>1, <1>2, <1>3 DEF OnceInv
<1>6. FollowInv
  BY <1>0, <1>1, <1>2, <1>3 DEF FollowInv, Waiting
<1> QED
  BY <1>1, <1>4, <1>5, <1>6 DEF ClaimsInv, DoneInv

(* Begin and operator<<: a line that is begun has a number of its own.     *)
LEMMA BeginClaims ==
  ASSUME ClaimsInv, LinesInv', NEW p \in Producer, Begin(p) \/ Put(p),
         UNCHANGED <<readIndex, reader, out>>
  PROVE  ClaimsInv'
<1>1. /\ UNCHANGED <<index, ring, writeIndex, claimed, lapped, dropped, readIndex, reader, out>>
      /\ \A q \in Producer : pc'[q] = "store" <=> pc[q] = "store"
      /\ \A q \in Producer : q # p => pc'[q] = pc[q] /\ line'[q] = line[q]
      /\ pc'[p] # "store" /\ pc[p] # "store"
      /\ \/ pc[p] = "idle" /\ line'[p] = line[p] + 1
         \/ pc[p] # "idle" /\ line'[p] = line[p]
  BY SMTT(20) DEF Begin, Put, Goes, ClaimsInv, RingShape, LinesInv
<1>2. RingShape'
  BY <1>1 DEF ClaimsInv, RingShape
<1>3. \A q \in Producer : line[q] \in Nat /\ line'[q] \in Nat /\ line[q] <= line'[q]
  <2>1. \A q \in Producer : line[q] \in Nat
    BY DEF ClaimsInv, RingShape, LinesInv
  <2> QED
    BY <1>1, <2>1
<1>4. OnceInv'
  <2>1. /\ \A i \in 1..Len(out) : out[i].id \in Ids /\ out[i].id[2] <= line[out[i].id[1]]
        /\ \A i \in Slots : ring[i].written =>
             ring[i].id \in Ids /\ ring[i].id[2] <= line[ring[i].id[1]]
        /\ \A id \in Ids : id[1] \in Producer /\ id[2] \in Nat
    BY IdsAreIds DEF ClaimsInv, RingShape, OnceInv
  <2>2. /\ \A i \in 1..Len(out) : out[i].id[2] <= line'[out[i].id[1]]
        /\ \A i \in Slots : ring[i].written => ring[i].id[2] <= line'[ring[i].id[1]]
    <3>1. \A id \in Ids : id[2] <= line[id[1]] => id[2] <= line'[id[1]]
      BY <1>3, <2>1
    <3> QED
      BY <2>1, <3>1
  <2>3. ASSUME NEW q \in Producer, pc'[q] # "idle"
        PROVE  Unseen(Id(q))'
    <3>1. CASE q # p \/ pc[p] # "idle"
      BY <1>1, <2>3, <3>1 DEF ClaimsInv, OnceInv, Unseen, Id
    <3>2. CASE q = p /\ line'[p] = line[p] + 1
      <4>1. \A id \in Ids : id[2] <= line[id[1]] => id # <<p, line[p] + 1>>
        BY <1>3 DEF Ids
      <4>2. \A j \in 1..Len(out) : out[j].id # <<p, line[p] + 1>>
        BY <2>1, <4>1
      <4>3. \A i \in Slots : ring[i].written => ring[i].id # <<p, line[p] + 1>>
        BY <2>1, <4>1
      <4> QED
        BY <1>1, <3>2, <4>2, <4>3 DEF Unseen, Id
    <3> QED
      BY <1>1, <3>1, <3>2
  <2> QED
    BY <1>1, <2>2, <2>3 DEF ClaimsInv, OnceInv
<1>5. ASSUME InStep' PROVE FollowInv'
  <2>1. FollowInv
    BY <1>1, <1>5 DEF ClaimsInv, InStep
  <2>2. \A q \in Producer : pc'[q] = "store" => pc[q] = "store" /\ Id(q)' = Id(q)
    BY <1>1 DEF Id
  <2> QED
    BY <1>1, <2>1, <2>2 DEF FollowInv, Waiting
<1>6. DoneInv'
  BY <1>1 DEF ClaimsInv, DoneInv, ReadSlot
<1> QED
  BY <1>2, <1>4, <1>5, <1>6 DEF ClaimsInv

(* fetch_add: a line gets the next claim, and waits from then on.          *)
LEMMA ClaimClaims ==
  ASSUME ClaimsInv, LinesInv', NEW p \in Producer, Claim(p),
         UNCHANGED <<readIndex, reader, out>>
  PROVE  ClaimsInv'
<1>0. /\ Size \in Nat \ {0} /\ Modulus \in Nat \ {0}
      /\ Len(out) \in Nat /\ Len(claimed) \in Nat
  BY Lengths DEF ClaimsInv
<1>1. /\ UNCHANGED <<line, ring, dropped, readIndex, reader, out>>
      /\ pc[p] = "encode" /\ pc' = [pc EXCEPT ![p] = "store"]
      /\ index' = [index EXCEPT ![p] = writeIndex]
      /\ writeIndex' = (writeIndex + 1) % Modulus
      /\ claimed' = Append(claimed, Id(p))
      /\ lapped' = (lapped \/ Len(claimed') > Len(out) + Size)
  BY DEF Claim, Goes
<1>2. Id(p) \in Ids
  BY DEF ClaimsInv, RingShape, LinesInv, Ids, Id
<1>3. /\ Len(claimed') = Len(claimed) + 1
      /\ \A c \in 1..Len(claimed) : claimed'[c] = claimed[c]
      /\ claimed'[Len(claimed) + 1] = Id(p)
      /\ claimed' \in Seq(Ids)
  BY <1>1, <1>2 DEF ClaimsInv, RingShape
<1>4. RingShape'
  <2>1. writeIndex' = Len(claimed') % Modulus
    BY <1>0, <1>1, <1>3, NextClaimIndex DEF ClaimsInv, RingShape
  <2>2. index' \in [Producer -> Nat]
    BY <1>0, <1>1, SlotOfIndex DEF ClaimsInv, RingShape
  <2>3. lapped' \in BOOLEAN
    BY <1>1 DEF ClaimsInv, RingShape
  <2> QED
    BY <1>1, <1>3, <2>1, <2>2, <2>3 DEF ClaimsInv, RingShape
<1>5. OnceInv'
  <2>1. \A q \in Producer : pc'[q] # "idle" => pc[q] # "idle"
    BY <1>1 DEF ClaimsInv, RingShape, LinesInv
  <2> QED
    BY <1>1, <2>1 DEF ClaimsInv, OnceInv, Unseen, Id
<1>6. ASSUME InStep' PROVE FollowInv'
  <2>1. FollowInv /\ Len(claimed) + 1 <= Len(out) + Size
    <3>1. InStep /\ ~(Len(claimed) + 1 > Len(out) + Size)
      <4>1. ~lapped /\ ~(Len(claimed) + 1 > Len(out) + Size)
        BY <1>1, <1>3, <1>6 DEF InStep
      <4>2. Len(claimed) + 1 <= Modulus => Len(claimed) <= Modulus
        BY <1>0
      <4> QED
        BY <1>3, <1>6, <4>1, <4>2 DEF InStep
    <3> QED
      BY <1>0, <3>1 DEF ClaimsInv
  <2>2. /\ Waiting \subseteq Waiting'
        /\ Len(claimed) \in Waiting'
        /\ \A c \in Waiting' : c \in Waiting \/ c = Len(claimed)
        /\ \A c \in Waiting : c + 1 \in 1..Len(claimed)
    BY <1>0, <1>1, <1>3, <2>1 DEF Waiting, FollowInv
  <2>3. \A i \in 1..Len(out) : out[i].id = claimed'[i]
    BY SMTT(20), <1>0, <1>3, <2>1 DEF FollowInv
  <2>4. \A i \in Slots : ring[i].written =>
          \E c \in Waiting' : c % Size = i /\ ring[i].id = claimed'[c + 1]
    BY <1>3, <2>1, <2>2 DEF FollowInv
  <2>5. ASSUME NEW q \in Producer, pc'[q] = "store"
        PROVE  \E c \in Waiting' : index'[q] = c % Modulus /\ Id(q) = claimed'[c + 1]
    <3>1. CASE q = p
      <4>1. index'[p] = Len(claimed) % Modulus
        BY <1>1 DEF ClaimsInv, RingShape
      <4> QED
        BY <1>3, <2>2, <3>1, <4>1
    <3>2. CASE q # p
      <4>1. pc[q] = "store" /\ index'[q] = index[q]
        BY <1>1, <2>5, <3>2 DEF ClaimsInv, RingShape, LinesInv
      <4> QED
        BY <1>3, <2>1, <2>2, <4>1 DEF FollowInv
    <3> QED
      BY <3>1, <3>2
  <2>6. ASSUME NEW c \in Waiting'
        PROVE  \/ ring[c % Size].written
               \/ \E q \in Producer : pc'[q] = "store" /\ index'[q] = c % Modulus
    <3>1. CASE c = Len(claimed)
      <4>1. pc'[p] = "store" /\ index'[p] = Len(claimed) % Modulus
        BY <1>1 DEF ClaimsInv, RingShape, LinesInv
      <4> QED
        BY <3>1, <4>1
    <3>2. CASE c \in Waiting
      <4>1. \A q \in Producer : pc[q] = "store" => pc'[q] = "store" /\ index'[q] = index[q]
        BY <1>1 DEF ClaimsInv, RingShape, LinesInv
      <4> QED
        BY <2>1, <3>2, <4>1 DEF FollowInv
    <3> QED
      BY <2>2, <3>1, <3>2
  <2>7. Len(out) <= Len(claimed') /\ Len(claimed') <= Len(out) + Size
    BY <1>0, <1>3, <2>1 DEF FollowInv
  <2>8. \A q \in Producer : Id(q)' = Id(q)
    BY <1>1 DEF Id
  <2>9. dropped' = {}
    BY <1>1, <2>1 DEF FollowInv
  <2>10. (\A i \in 1..Len(out) : out[i].id = claimed[i])'
    BY <1>1, <2>3
  <2>11. (\A i \in Slots : ring[i].written =>
            \E c \in Waiting : c % Size = i /\ ring[i].id = claimed[c + 1])'
    BY <1>1, <2>4
  <2>12. (\A q \in Producer : pc[q] = "store" =>
            \E c \in Waiting : index[q] = c % Modulus /\ Id(q) = claimed[c + 1])'
    BY <2>5, <2>8
  <2>13. (\A c \in Waiting :
            \/ ring[c % Size].written
            \/ \E q \in Producer : pc[q] = "store" /\ index[q] = c % Modulus)'
    BY <1>1, <2>6
  <2> QED
    BY <1>1, <2>7, <2>9, <2>10, <2>11, <2>12, <2>13 DEF FollowInv
<1>7. DoneInv'
  BY <1>1 DEF ClaimsInv, DoneInv, ReadSlot
<1> QED
  BY <1>4, <1>5, <1>6, <1>7 DEF ClaimsInv

(* Storing under the lock: while the reader follows, the slot is empty.    *)
LEMMA StoreClaims ==
  ASSUME ClaimsInv, LinesInv', NEW p \in Producer, Store(p), reader # "done",
         UNCHANGED <<readIndex, reader, out>>
  PROVE  ClaimsInv'
<1> DEFINE i == Slot(index[p])
<1>0. /\ Size \in Nat \ {0} /\ Modulus \in Nat \ {0}
      /\ Len(out) \in Nat /\ Len(claimed) \in Nat
  BY Lengths DEF ClaimsInv
<1>1. /\ UNCHANGED <<line, index, writeIndex, claimed, lapped, readIndex, reader, out>>
      /\ pc[p] = "store" /\ pc' = [pc EXCEPT ![p] = "idle"]
      /\ ring' = [ring EXCEPT ![i] = [written |-> TRUE, id |-> Id(p), logline |-> logline[p]]]
      /\ dropped' = IF ring[i].written THEN dropped \cup {ring[i].id} ELSE dropped
  BY DEF Store, Goes
<1>2. i \in Slots
  BY <1>0 DEF Slot, Slots, ClaimsInv, RingShape
<1> HIDE DEF i
<1>3. /\ ring'[i].written /\ ring'[i].id = Id(p)
      /\ \A j \in Slots : j # i => ring'[j] = ring[j]
      /\ Id(p) \in Ids /\ Id(p)[1] = p /\ Id(p)[2] = line[p]
      /\ \A q \in Producer : pc'[q] # "idle" => q # p /\ pc'[q] = pc[q]
      /\ \A q \in Producer : Id(q)' = Id(q)
      /\ line[p] \in Nat
  BY <1>1, <1>2 DEF ClaimsInv, RingShape, LinesInv, Ids, Id
<1>4. RingShape'
  BY <1>1, <1>2, <1>3 DEF ClaimsInv, RingShape
<1>5. Unseen(Id(p))
  BY <1>1 DEF ClaimsInv, OnceInv
<1>6. OnceInv'
  <2>1. ASSUME NEW j \in Slots, ring'[j].written
        PROVE  /\ ring'[j].id[2] <= line[ring'[j].id[1]]
               /\ \A k \in 1..Len(out) : out[k].id # ring'[j].id
               /\ \A k \in Slots : ring'[k].written /\ ring'[k].id = ring'[j].id => j = k
    <3>1. CASE j = i
      BY <1>3, <1>5, <3>1 DEF Unseen
    <3>2. CASE j # i
      <4>1. ring'[j] = ring[j] /\ ring[j].id # Id(p)
        BY <1>3, <1>5, <2>1, <3>2 DEF Unseen
      <4> QED
        BY <1>3, <2>1, <3>2, <4>1 DEF ClaimsInv, OnceInv
    <3> QED
      BY <3>1, <3>2
  <2>2. ASSUME NEW q \in Producer, pc'[q] # "idle"
        PROVE  Unseen(Id(q))'
    <3>1. Unseen(Id(q)) /\ Id(q) # Id(p)
      BY <1>3, <2>2 DEF ClaimsInv, OnceInv, Id
    <3> QED
      BY <1>1, <1>3, <3>1 DEF Unseen
  <2> QED
    BY <1>1, <2>1, <2>2 DEF ClaimsInv, OnceInv
<1>7. ASSUME InStep' PROVE FollowInv'
  <2>1. FollowInv /\ Waiting' = Waiting /\ InStep
    BY <1>1, <1>7 DEF ClaimsInv, Waiting, InStep
  <2>2. PICK c \in Waiting : index[p] = c % Modulus /\ Id(p) = claimed[c + 1]
    BY <1>1, <2>1 DEF FollowInv
  <2>3. Waiting \subseteq Nat /\ c \in Nat
    BY <1>0 DEF Waiting
  <2>4. i = c % Size
    BY <2>1, <2>2, WaitingInStep DEF i, ClaimsInv
  <2>5. ~ring[i].written
    <3>1. SUFFICES ASSUME ring[i].written PROVE FALSE
      OBVIOUS
    <3>2. PICK d \in Waiting : d % Size = i /\ ring[i].id = claimed[d + 1]
      BY <1>2, <2>1, <3>1 DEF FollowInv
    <3>3. c < d + Size /\ d < c + Size /\ d \in Nat
      BY <1>0, <2>1, <2>3 DEF Waiting, FollowInv
    <3>4. c = d
      BY <2>3, <2>4, <3>2, <3>3, SlotsApart
    <3> QED
      BY <1>2, <1>5, <2>2, <3>1, <3>2, <3>4 DEF Unseen
  <2>6. dropped' = {}
    BY <1>1, <2>1, <2>5 DEF FollowInv
  <2>7. ASSUME NEW j \in Slots, ring'[j].written
        PROVE  \E d \in Waiting : d % Size = j /\ ring'[j].id = claimed[d + 1]
    <3>1. CASE j = i
      BY <1>3, <2>2, <2>4, <3>1
    <3>2. CASE j # i
      BY <1>3, <2>1, <2>7, <3>2 DEF FollowInv
    <3> QED
      BY <3>1, <3>2
  <2>8. ASSUME NEW d \in Waiting
        PROVE  \/ ring'[d % Size].written
               \/ \E q \in Producer : pc'[q] = "store" /\ index[q] = d % Modulus
    <3>1. d \in Nat /\ d % Size \in Slots /\ Slot(d % Modulus) = d % Size
      BY <2>1, <2>3, SlotOfIndex, WaitingInStep DEF ClaimsInv
    <3>2. CASE ring[d % Size].written
      BY <1>3, <3>1, <3>2
    <3>3. ASSUME NEW q \in Producer, pc[q] = "store", index[q] = d % Modulus
          PROVE  \/ ring'[d % Size].written
                 \/ \E r \in Producer : pc'[r] = "store" /\ index[r] = d % Modulus
      <4>1. CASE q = p
        BY <1>3, <3>1, <3>3, <4>1 DEF i
      <4>2. CASE q # p
        <5>1. pc'[q] = "store"
          BY <1>1, <3>3, <4>2 DEF ClaimsInv, RingShape, LinesInv
        <5> QED
          BY <3>3, <5>1
      <4> QED
        BY <4>1, <4>2
    <3> QED
      BY <2>1, <3>2, <3>3 DEF FollowInv
  <2>9. ASSUME NEW q \in Producer, pc'[q] = "store"
        PROVE  \E d \in Waiting : index[q] = d % Modulus /\ Id(q) = claimed[d + 1]
    <3>1. pc[q] = "store"
      BY <1>3, <2>9
    <3> QED
      BY <2>1, <3>1 DEF FollowInv
  <2>10. (\A j \in Slots : ring[j].written =>
            \E d \in Waiting : d % Size = j /\ ring[j].id = claimed[d + 1])'
    BY <1>1, <2>1, <2>7
  <2>11. (\A q \in Producer : pc[q] = "store" =>
            \E d \in Waiting : index[q] = d % Modulus /\ Id(q) = claimed[d + 1])'
    BY <1>1, <1>3, <2>1, <2>9
  <2>12. (\A d \in Waiting :
            \/ ring[d % Size].written
            \/ \E q \in Producer : pc[q] = "store" /\ index[q] = d % Modulus)'
    BY <1>1, <2>1, <2>8
  <2>13. (\A j \in 1..Len(out) : out[j].id = claimed[j])'
    BY <1>1, <2>1 DEF FollowInv
  <2>14. (Len(out) <= Len(claimed) /\ Len(claimed) <= Len(out) + Size)'
    BY <1>1, <2>1 DEF FollowInv
  <2> QED
    BY <2>6, <2>10, <2>11, <2>12, <2>13, <2>14 DEF FollowInv
<1>8. DoneInv'
  BY <1>1 DEF DoneInv
<1> QED
  BY <1>4, <1>6, <1>7, <1>8 DEF ClaimsInv

(* What is printed of a line in the ring.                                  *)
LEMMA PrintedText ==
  ASSUME NEW item \in Item
  PROVE  Stringify(item.logline) \in Texts
  BY DEF Item, SoundLines, Texts

(* try_pop: while the reader follows, it takes the line that was claimed   *)
(* first of those that wait.                                               *)
LEMMA TakeClaims ==
  ASSUME ClaimsInv, LinesInv', Take,
         UNCHANGED <<pc, line, logline, arg, index, writeIndex, claimed, lapped, dropped>>
  PROVE  ClaimsInv'
<1> DEFINE T == Len(out)
           s == Slot(readIndex)
           taken == [id |-> ring[s].id, text |-> Stringify(ring[s].logline)]
           Taking == [id : Ids, text : Texts]
<1>0. /\ Size \in Nat \ {0} /\ Modulus \in Nat \ {0} /\ T \in Nat /\ Len(claimed) \in Nat
  BY Lengths DEF ClaimsInv
<1>1. /\ ring[s].written /\ reader' = reader /\ reader # "done"
      /\ ring' = [ring EXCEPT ![s].written = FALSE]
      /\ readIndex' = (readIndex + 1) % Modulus
      /\ out' = Append(out, taken)
  BY DEF Take, ReadSlot
<1>2. s \in Slots
  BY <1>0, SlotOfIndex DEF ClaimsInv, RingShape
<1>3. ring[s].id \in Ids /\ taken \in Taking
  <2>1. ring[s] \in Item
    BY <1>2 DEF ClaimsInv, RingShape, LinesInv
  <2> QED
    BY <1>1, <1>2, <2>1, PrintedText DEF ClaimsInv, RingShape
<1>4. out \in Seq(Taking)
  BY DEF ClaimsInv, RingShape
<1>5. taken.id = ring[s].id
  OBVIOUS
<1>6. /\ ~ring'[s].written
      /\ \A j \in Slots : ring'[j].id = ring[j].id
      /\ \A j \in Slots : j # s => ring'[j] = ring[j]
  <2>1. ring \in [Slots -> Item]
    BY DEF ClaimsInv, RingShape, LinesInv
  <2>2. \A j \in Slots : ring[j] \in Item
    BY <2>1
  <2>3. \A r \in Item : [r EXCEPT !.written = FALSE].id = r.id
                        /\ [r EXCEPT !.written = FALSE].written = FALSE
    BY DEF Item
  <2> HIDE DEF s
  <2> QED
    BY <1>1, <1>2, <2>1, <2>2, <2>3
<1> HIDE DEF s, taken, Taking
<1>7. /\ Len(out') = T + 1 /\ out'[T + 1] = taken
      /\ \A j \in 1..T : out'[j] = out[j]
      /\ out' \in Seq(Taking)
  BY <1>0, <1>1, <1>3, <1>4
<1>8. RingShape'
  <2>1. readIndex' = Len(out') % Modulus
    BY <1>0, <1>1, <1>7, NextClaimIndex DEF ClaimsInv, RingShape
  <2>2. \A j \in Slots : ring'[j].written => ring'[j].id \in Ids
    BY <1>6 DEF ClaimsInv, RingShape
  <2> QED
    BY <1>7, <2>1, <2>2 DEF ClaimsInv, RingShape, Taking
<1>9. /\ \A j \in 1..T : out[j].id # taken.id
      /\ \A j \in Slots : ring'[j].written => j # s /\ ring[j].written /\ ring[j].id # taken.id
      /\ taken.id[2] <= line[taken.id[1]]
  BY <1>1, <1>2, <1>5, <1>6 DEF ClaimsInv, OnceInv
<1>10. \A j \in 1..Len(out') : out'[j].id = taken.id \/ (j \in 1..T /\ out'[j].id = out[j].id)
  BY <1>0, <1>7
<1>11. OnceInv'
  <2>1. \A i, j \in 1..Len(out') : out'[i].id = out'[j].id => i = j
    <3>1. \A i \in 1..Len(out') : i \in 1..T \/ i = T + 1
      BY <1>0, <1>7
    <3> QED
      BY <1>7, <1>9, <3>1 DEF ClaimsInv, OnceInv
  <2>2. \A i \in 1..Len(out') : out'[i].id[2] <= line[out'[i].id[1]]
    BY <1>9, <1>10 DEF ClaimsInv, OnceInv
  <2>3. ASSUME NEW i \in Slots, ring'[i].written
        PROVE  /\ ring'[i].id[2] <= line[ring'[i].id[1]]
               /\ \A j \in 1..Len(out') : out'[j].id # ring'[i].id
               /\ \A j \in Slots : ring'[j].written /\ ring'[j].id = ring'[i].id => i = j
    BY <1>6, <1>9, <1>10, <2>3 DEF ClaimsInv, OnceInv
  <2>4. ASSUME NEW q \in Producer, pc[q] # "idle"
        PROVE  Unseen(Id(q))'
    <3>1. Unseen(Id(q)) /\ Id(q)' = Id(q)
      BY <2>4 DEF ClaimsInv, OnceInv, Id
    <3>2. taken.id # Id(q)
      BY <1>1, <1>2, <1>5, <3>1 DEF Unseen
    <3>3. \A j \in 1..Len(out') : out'[j].id # Id(q)
      BY <1>10, <3>1, <3>2 DEF Unseen
    <3>4. \A j \in Slots : ring'[j].written => ring'[j].id # Id(q)
      BY <1>6, <1>9, <3>1 DEF Unseen
    <3> QED
      BY <3>1, <3>3, <3>4 DEF Unseen
  <2> QED
    BY <2>1, <2>2, <2>3, <2>4 DEF OnceInv
<1>12. ASSUME InStep' PROVE FollowInv'
  <2>0. InStep
    BY <1>12 DEF InStep
  <2>1. FollowInv
    BY <2>0 DEF ClaimsInv
  <2>2. PICK c \in Waiting : c % Size = s /\ ring[s].id = claimed[c + 1]
    BY <1>1, <1>2, <2>1 DEF FollowInv
  <2>2a. T % Size = s
    <3>1. T \in Waiting
      BY <1>0, <2>2 DEF Waiting
    <3> QED
      BY <2>0, <3>1, WaitingInStep DEF ClaimsInv, RingShape, s
  <2>3. /\ \A d \in Waiting : d \in Nat /\ d < T + Size /\ T < d + Size
        /\ \A d \in Waiting : d % Size = s => d = T
    <3>1. \A d \in Waiting : d \in Nat /\ d < T + Size /\ T < d + Size
      BY <1>0, <2>1 DEF Waiting, FollowInv
    <3>2. \A d \in Waiting : d % Size = s => d = T
      BY <1>0, <2>2a, <3>1, SlotsApart
    <3> QED
      BY <3>1, <3>2
  <2>4. c = T
    BY <2>2, <2>3
  <2>5. /\ T + 1 <= Len(claimed)
        /\ \A d \in Waiting' : d \in Waiting /\ d # T
        /\ \A d \in Waiting : d # T => d \in Waiting'
    BY <1>0, <1>7, <2>2, <2>4 DEF Waiting
  <2>6. taken.id = claimed[T + 1]
    BY <1>5, <2>2, <2>4
  <2>7. (\A i \in 1..Len(out) : out[i].id = claimed[i])'
    <3>1. \A i \in 1..Len(out') : i \in 1..T \/ i = T + 1
      BY <1>0, <1>7
    <3> QED
      BY <1>7, <2>1, <2>6, <3>1 DEF FollowInv
  <2>8. (\A i \in Slots : ring[i].written =>
           \E d \in Waiting : d % Size = i /\ ring[i].id = claimed[d + 1])'
    <3>1. ASSUME NEW i \in Slots, ring'[i].written
          PROVE  \E d \in Waiting' : d % Size = i /\ ring'[i].id = claimed[d + 1]
      <4>1. i # s /\ ring[i].written /\ ring'[i].id = ring[i].id
        BY <1>6, <1>9, <3>1
      <4>2. PICK d \in Waiting : d % Size = i /\ ring[i].id = claimed[d + 1]
        BY <2>1, <4>1 DEF FollowInv
      <4>3. d # T
        BY <2>2a, <4>1, <4>2
      <4> QED
        BY <2>5, <4>1, <4>2, <4>3
    <3> QED
      BY <3>1
  <2>9. (\A q \in Producer : pc[q] = "store" =>
           \E d \in Waiting : index[q] = d % Modulus /\ Id(q) = claimed[d + 1])'
    <3>1. ASSUME NEW q \in Producer, pc[q] = "store"
          PROVE  \E d \in Waiting' : index[q] = d % Modulus /\ Id(q) = claimed[d + 1]
      <4>1. PICK d \in Waiting : index[q] = d % Modulus /\ Id(q) = claimed[d + 1]
        BY <2>1, <3>1 DEF FollowInv
      <4>2. Id(q) # ring[s].id
        BY <1>1, <1>2, <3>1 DEF ClaimsInv, OnceInv, Unseen
      <4>3. d # T
        BY <1>5, <2>6, <4>1, <4>2
      <4> QED
        BY <2>5, <4>1, <4>3
    <3>2. \A q \in Producer : Id(q)' = Id(q)
      BY DEF Id
    <3> QED
      BY <3>1, <3>2
  <2>10. (\A d \in Waiting :
            \/ ring[d % Size].written
            \/ \E q \in Producer : pc[q] = "store" /\ index[q] = d % Modulus)'
    <3>1. ASSUME NEW d \in Waiting'
          PROVE  \/ ring'[d % Size].written
                 \/ \E q \in Producer : pc[q] = "store" /\ index[q] = d % Modulus
      <4>1. d \in Waiting /\ d % Size # s /\ d % Size \in Slots
        BY <2>3, <2>5, SlotOfIndex
      <4> QED
        BY <1>6, <2>1, <4>1 DEF FollowInv
    <3> QED
      BY <3>1
  <2>11. (Len(out) <= Len(claimed) /\ Len(claimed) <= Len(out) + Size)'
    BY <1>0, <1>7, <2>1, <2>5 DEF FollowInv
  <2>12. dropped' = {}
    BY <2>1 DEF FollowInv
  <2> QED
    BY <2>7, <2>8, <2>9, <2>10, <2>11, <2>12 DEF FollowInv
<1>13. DoneInv'
  BY <1>1 DEF DoneInv
<1> QED
  BY <1>8, <1>11, <1>12, <1>13 DEF ClaimsInv

(* The reader is told to stop, and stops at a slot that is not written.    *)
LEMMA StopClaims ==
  ASSUME ClaimsInv, LinesInv', SeeShutdown \/ EndDrain,
         UNCHANGED <<pc, line, logline, arg, index, writeIndex, claimed, lapped, dropped>>
  PROVE  ClaimsInv'
<1>1. UNCHANGED <<readIndex, out, ring>>
  BY DEF SeeShutdown, EndDrain
<1>2. DoneInv'
  BY <1>1 DEF SeeShutdown, EndDrain, DoneInv, ReadSlot
<1>3. RingShape' /\ OnceInv'
  BY <1>1 DEF ClaimsInv, RingShape, OnceInv, Unseen, Id
<1>4. ASSUME InStep' PROVE FollowInv'
  BY <1>1, <1>4 DEF ClaimsInv, FollowInv, Waiting, Id, InStep
<1> QED
  BY <1>2, <1>3, <1>4 DEF ClaimsInv

(* A new logger begins as the first one did, but with the numbers its      *)
(* threads have come to.                                                   *)
LEMMA RestartClaims ==
  ASSUME LinesInv', Restart
  PROVE  ClaimsInv'
<1>1. LoggerReset
  BY DEF Restart
<1>2. Size \in Nat \ {0} /\ Modulus \in Nat \ {0} /\ 0 \in Nat
  BY NanoLogRingAssumption
<1>3. /\ pc' = [p \in Producer |-> "idle"] /\ index' = [p \in Producer |-> 0]
      /\ ring' = [i \in Slots |-> Blank]
      /\ writeIndex' = 0 /\ readIndex' = 0 /\ reader' = "pop"
      /\ out' = <<>> /\ claimed' = <<>> /\ lapped' = FALSE /\ dropped' = {}
  BY <1>1 DEF LoggerReset
<1>4. \A i \in Slots : ~ring'[i].written
  BY <1>3 DEF Blank
<1>5. Len(out') = 0 /\ Len(claimed') = 0 /\ 0 % Modulus = 0
  BY <1>2, <1>3
<1>6. RingShape'
  <2>1. claimed' \in Seq(Ids) /\ out' \in Seq([id : Ids, text : Texts])
    BY <1>3
  <2>2. index' \in [Producer -> Nat] /\ lapped' \in BOOLEAN
    BY <1>3
  <2> QED
    BY <1>3, <1>4, <1>5, <2>1, <2>2 DEF RingShape
<1>7. OnceInv'
  BY <1>3, <1>4, <1>5 DEF OnceInv
<1>8. FollowInv'
  BY <1>2, <1>3, <1>4, <1>5 DEF FollowInv, Waiting
<1> QED
  BY <1>3, <1>6, <1>7, <1>8 DEF ClaimsInv, DoneInv

(* The claims, the ring and what has been taken agree in every state.      *)
THEOREM ClaimsInvariant == RingSpec => []ClaimsInv
<1>1. LinesInv /\ RingInit => ClaimsInv
  BY ClaimsInit DEF RingInit
<1>2. LinesInv' /\ ClaimsInv /\ [RingNext]_ringVars => ClaimsInv'
  <2> SUFFICES ASSUME LinesInv', ClaimsInv, [RingNext]_ringVars
               PROVE  ClaimsInv'
    OBVIOUS
  <2>1. CASE UNCHANGED ringVars \/ SetLogLevel \/ Shutdown
    <3>1. UNCHANGED <<pushVars, popVars>>
      BY <2>1 DEF ringVars, SetLogLevel, Shutdown
    <3>2. UNCHANGED <<pc, line, index, ring, writeIndex, claimed, lapped, dropped,
                      readIndex, reader, out>>
      BY <3>1 DEF pushVars, popVars
    <3>3. RingShape' /\ OnceInv'
      BY <3>2 DEF ClaimsInv, RingShape, OnceInv, Unseen, Id
    <3>4. ASSUME InStep' PROVE FollowInv'
      BY <3>2, <3>4 DEF ClaimsInv, FollowInv, Waiting, Id, InStep
    <3>5. DoneInv'
      BY <3>2 DEF ClaimsInv, DoneInv, ReadSlot
    <3> QED
      BY <3>3, <3>4, <3>5 DEF ClaimsInv
  <2>2. ASSUME reader # "done", NEW p \in Producer, Push(p)
        PROVE  ClaimsInv'
    <3>1. UNCHANGED <<readIndex, reader, out>>
      BY <2>2 DEF Push, popVars
    <3> QED
      BY <2>2, <3>1, BeginClaims, ClaimClaims, StoreClaims DEF Push
  <2>3. CASE PopLoop
    BY <2>3, TakeClaims, StopClaims DEF PopLoop
  <2>4. CASE Restart
    BY <2>4, RestartClaims
  <2> QED
    BY <2>1, <2>2, <2>3, <2>4 DEF RingNext
<1> QED
  BY <1>1, <1>2, LinesInvariant, PTL DEF RingSpec

(* No line is taken twice, even by a reader that is out of step; as long   *)
(* as it is in step, lines are taken in the order of their claims.         *)
THEOREM TakenOnceInOrderCorrect == RingSpec => []TakenOnceInOrder
<1>1. ASSUME ClaimsInv PROVE TakenOnceInOrder
  <2>1. Len(out) \in Nat /\ Len(claimed) \in Nat /\ claimed \in Seq(Ids)
    BY <1>1, Lengths DEF ClaimsInv, RingShape
  <2>2. DOMAIN out = 1..Len(out)
    <3> DEFINE Taking == [id : Ids, text : Texts]
    <3>1. out \in Seq(Taking)
      BY <1>1 DEF ClaimsInv, RingShape
    <3> HIDE DEF Taking
    <3> QED
      BY <3>1
  <2>3. \A i \in DOMAIN out : Taken[i] = out[i].id
    BY DEF Taken
  <2>4. \A i, j \in DOMAIN out : Taken[i] = Taken[j] => i = j
    BY <1>1, <2>2, <2>3 DEF ClaimsInv, OnceInv
  <2>5. ASSUME InStep
        PROVE  Len(out) <= Len(claimed) /\ Taken = SubSeq(claimed, 1, Len(out))
    <3>1. FollowInv
      BY <1>1, <2>5 DEF ClaimsInv
    <3>2. Len(out) <= Len(claimed)
      BY <3>1 DEF FollowInv
    <3>3. SubSeq(claimed, 1, Len(out)) = [i \in 1..Len(out) |-> claimed[i]]
      BY <2>1, <3>2
    <3>4. \A i \in 1..Len(out) : Taken[i] = claimed[i]
      BY <2>2, <2>3, <3>1 DEF FollowInv
    <3> QED
      BY <2>2, <3>2, <3>3, <3>4 DEF Taken
  <2> QED
    BY <2>4, <2>5 DEF TakenOnceInOrder
<1> QED
  BY <1>1, ClaimsInvariant, PTL

(* No line is dropped before more lines than the ring holds have waited,   *)
(* or the indices have wrapped in a ring whose size does not divide them.  *)
THEOREM DroppedOnlyWhenFullCorrect == RingSpec => []DroppedOnlyWhenFull
<1>1. ClaimsInv => DroppedOnlyWhenFull
  BY DEF ClaimsInv, FollowInv, DroppedOnlyWhenFull
<1> QED
  BY <1>1, ClaimsInvariant, PTL

(* A reader that finds its slot empty, while no push is half way, has      *)
(* taken every line, as long as it is in step with the writers.            *)
THEOREM NothingLeftWaitingCorrect == RingSpec => []NothingLeftWaiting
<1>1. ASSUME ClaimsInv PROVE NothingLeftWaiting
  <2> SUFFICES ASSUME reader = "done" \/ ~ReadSlot.written,
                      \A p \in Producer : pc[p] # "store",
                      InStep
               PROVE  Len(out) = Len(claimed)
    BY DEF NothingLeftWaiting
  <2>1. Len(out) \in Nat /\ Len(claimed) \in Nat
    BY <1>1, Lengths DEF ClaimsInv
  <2>2. ~ReadSlot.written
    BY <1>1 DEF ClaimsInv, DoneInv
  <2>3. FollowInv
    BY <1>1 DEF ClaimsInv
  <2>4. Len(out) \notin Waiting
    <3>1. ASSUME Len(out) \in Waiting PROVE FALSE
      <4>1. Slot(readIndex) = Len(out) % Size
        BY <1>1, <3>1, WaitingInStep DEF ClaimsInv, RingShape
      <4> QED
        BY <2>2, <2>3, <3>1, <4>1 DEF FollowInv, ReadSlot
    <3> QED
      BY <3>1
  <2> QED
    BY <2>1, <2>3, <2>4 DEF FollowInv, Waiting
<1> QED
  BY <1>1, ClaimsInvariant, PTL
-----------------------------------------------------------------------------
(* What is printed of an argument.                                         *)
Prints == [type : Types, shown : Nat]
Printed(a) == [type |-> a.type, shown |-> a.shown]

(* The buffer holds x from offset b up to e: the type id, and the value or *)
(* the characters with the first NUL behind them.                          *)
Holds(l, b, e, x) ==
  /\ b < e /\ e <= l.used
  /\ TypesAt(l, b) = {TypeId(x.type) + 1}
  /\ IF x.type = "string"
       THEN /\ e = b + x.shown + 2
            /\ At(e - 1, "nul", 0) \in l.mem
            /\ \A m \in l.mem : m.kind = "nul" /\ b < m.at => e - 1 <= m.at
       ELSE /\ e = b + 1 + SizeOf[x.type]
            /\ At(b + 1, "value", x.shown) \in l.mem
            /\ \A m \in l.mem : m.at = b + 1 /\ m.kind = "value" => m.val = x.shown

(* It holds all of q, one behind the other, from the end of the header up  *)
(* to what has been used, and nothing more.                                *)
Encodes(l, q) ==
  /\ \A m \in l.mem : m.at < l.used
  /\ Len(q) <= l.used
  /\ \E c \in [0..Len(q) -> Nat] :
       /\ c[0] = HeaderBytes
       /\ c[Len(q)] = l.used
       /\ \A k \in 1..Len(q) : Holds(l, c[k - 1], c[k], q[k])

(* Decoding at its offset what the buffer holds gives that, and leads to   *)
(* what comes behind it.                                                   *)
LEMMA HeldIsDecoded ==
  ASSUME NEW l \in LineType, NEW b \in Nat, NEW e \in Nat, NEW x \in Prints, Holds(l, b, e, x)
  PROVE  /\ b # l.used /\ TypesAt(l, b) # {}
         /\ After(l, b) = e
         /\ Decoded(l, b) = x
<1>1. /\ b < e /\ e <= l.used /\ l.used \in Nat
      /\ TypesAt(l, b) = {TypeId(x.type) + 1}
      /\ x.type \in Types /\ x.shown \in Nat /\ x = [type |-> x.type, shown |-> x.shown]
      /\ \A m \in l.mem : m.at \in Nat
  BY DEF Holds, LineType, Prints, Memory
<1>2. TypeAt(l, b) = x.type
  BY <1>1, TypesSupported DEF TypeAt
<1>3. CASE x.type = "string"
  <2>1. /\ e = b + x.shown + 2
        /\ At(e - 1, "nul", 0) \in l.mem
        /\ \A m \in l.mem : m.kind = "nul" /\ b < m.at => e - 1 <= m.at
    BY <1>3 DEF Holds
  <2> DEFINE First(m) == /\ m.kind = "nul"
                         /\ b + 1 <= m.at
                         /\ \A o \in l.mem : o.kind = "nul" /\ b + 1 <= o.at => m.at <= o.at
             nul == At(e - 1, "nul", 0)
  <2>2. nul.kind = "nul" /\ nul.at = e - 1
    BY DEF At
  <2>3. First(nul)
    BY <1>1, <2>1, <2>2
  <2>4. \A m \in l.mem : First(m) => m.at = e - 1
    BY <1>1, <2>1, <2>2
  <2>5. NulFrom(l, b + 1) = (CHOOSE m \in l.mem : First(m)).at
    BY DEF NulFrom
  <2> HIDE DEF First, nul
  <2>6. NulFrom(l, b + 1) = e - 1
    BY <2>1, <2>3, <2>4, <2>5 DEF nul
  <2>7. After(l, b) = (e - 1) + 1
    BY <1>2, <1>3, <2>6 DEF After
  <2>8. Decoded(l, b) = [type |-> x.type, shown |-> (e - 1) - (b + 1)]
    BY <1>2, <1>3, <2>6 DEF Decoded
  <2>9. (e - 1) - (b + 1) = x.shown
    BY <1>1, <2>1
  <2> QED
    BY <1>1, <2>7, <2>8, <2>9
<1>4. CASE x.type # "string"
  <2>1. /\ e = b + 1 + SizeOf[x.type]
        /\ At(b + 1, "value", x.shown) \in l.mem
        /\ \A m \in l.mem : m.at = b + 1 /\ m.kind = "value" => m.val = x.shown
    BY <1>4 DEF Holds
  <2>2. /\ At(b + 1, "value", x.shown).at = b + 1
        /\ At(b + 1, "value", x.shown).kind = "value"
    BY DEF At
  <2>3. ValueAt(l, b + 1) = x.shown
    BY <2>1, <2>2 DEF ValueAt
  <2>4. Decoded(l, b) = [type |-> x.type, shown |-> x.shown]
    BY <1>2, <1>4, <2>3 DEF Decoded
  <2> QED
    BY <1>1, <1>2, <1>4, <2>1, <2>4 DEF After
<1> QED
  BY <1>3, <1>4

(* It is still held when more has been put behind what was used.           *)
LEMMA StillHeld ==
  ASSUME NEW l \in LineType, NEW k \in LineType, l.used <= k.used,
         NEW more \in SUBSET Memory, k.mem = l.mem \cup more,
         \A m \in more : l.used <= m.at,
         NEW b \in Nat, NEW e \in Nat, NEW x \in Prints, Holds(l, b, e, x)
  PROVE  Holds(k, b, e, x)
<1>1. /\ b < e /\ e <= l.used /\ l.used \in Nat /\ k.used \in Nat
      /\ \A m \in more : m.at \in Nat /\ l.used <= m.at
      /\ x.type \in Types
  BY DEF Holds, LineType, Prints, Memory
<1>2. b < e /\ e <= k.used
  BY <1>1
<1>3. TypesAt(k, b) = TypesAt(l, b)
  <2>1. \A n : At(b, "type", n - 1) \notin more
    <3>1. \A n : At(b, "type", n - 1).at = b
      BY DEF At
    <3> QED
      BY <1>1, <3>1
  <2> QED
    BY <2>1 DEF TypesAt
<1>4. CASE x.type = "string"
  BY <1>1, <1>2, <1>3, <1>4 DEF Holds
<1>5. CASE x.type # "string"
  <2>1. SizeOf[x.type] \in Nat \ {0}
    BY <1>1, <1>5, TypesSupported
  <2>2. e = b + 1 + SizeOf[x.type]
    BY <1>5 DEF Holds
  <2>3. b + 1 < l.used
    BY <1>1, <2>1, <2>2
  <2>4. \A m \in more : m.at # b + 1
    BY <1>1, <2>3
  <2> QED
    BY <1>2, <1>3, <1>5, <2>4 DEF Holds
<1> QED
  BY <1>4, <1>5

(* What operator<< puts is held behind what was used.                      *)
LEMMA NewlyHeld ==
  ASSUME NEW l \in LineType, NEW k \in LineType, NEW a \in Arguments,
         \A m \in l.mem : m.at < l.used,
         k.used = l.used + EncodedBytes(a), k.mem = l.mem \cup Pieces(l.used, a)
  PROVE  Holds(k, l.used, k.used, Printed(a))
<1> DEFINE b == l.used
           id == TypeId(a.type)
<1>1. /\ a.type \in Types /\ a.bytes \in Nat /\ a.shown \in Nat
      /\ a.type = "string" => a.shown = a.bytes
      /\ a.type # "string" => a.bytes = SizeOf[a.type]
  BY DEF Arguments
<1>2. b \in Nat /\ EncodedBytes(a) \in Nat \ {0} /\ \A m \in l.mem : m.at \in Nat /\ m.at < b
  BY PiecesSound DEF LineType, Memory
<1>3. /\ id \in Nat /\ id + 1 \in DOMAIN SupportedTypes
      /\ DOMAIN SupportedTypes \subseteq Nat
  BY <1>1, TypesSupported
<1>3a. PICK x : x = Printed(a)
  OBVIOUS
<1>3b. x.type = a.type /\ x.shown = a.shown
  BY <1>3a DEF Printed
<1>3c. TypeId(x.type) = id
  BY <1>3b
<1> HIDE DEF b, id
<1>4. k.used = b + EncodedBytes(a) /\ k.mem = l.mem \cup Pieces(b, a)
  BY DEF b
<1>5. \A m \in Pieces(b, a) :
        \/ m.at = b /\ m.kind = "type" /\ m.val = id
        \/ m.at = b + 1 /\ m.kind = "value" /\ m.val = a.shown
        \/ m.at = b + 1 + a.bytes /\ m.kind = "nul" /\ a.type = "string"
  BY DEF Pieces, At, id
<1>6. /\ At(b, "type", id) \in k.mem
      /\ At(b + 1, "value", a.shown) \in k.mem
      /\ a.type = "string" => At(b + 1 + a.bytes, "nul", 0) \in k.mem
  BY <1>4 DEF Pieces, id
<1>7. TypesAt(k, b) = {id + 1}
  <2>1. ASSUME NEW n \in DOMAIN SupportedTypes, At(b, "type", n - 1) \in k.mem
        PROVE  n = id + 1
    <3>1. PICK m : m = At(b, "type", n - 1)
      OBVIOUS
    <3>2. m.at = b /\ m.kind = "type" /\ m.val = n - 1
      BY <3>1 DEF At
    <3>3. m \in Pieces(b, a)
      BY <1>2, <1>4, <2>1, <3>1, <3>2
    <3>4. m.val = id
      BY <1>5, <3>2, <3>3
    <3> QED
      BY <1>3, <3>2, <3>4
  <2>2. (id + 1) - 1 = id
    BY <1>3
  <2> QED
    BY <1>3, <1>6, <2>1, <2>2 DEF TypesAt
<1>8. b < k.used /\ k.used <= k.used
  BY <1>2, <1>4
<1>9. ASSUME a.type = "string" PROVE Holds(k, b, k.used, x)
  <2>1. k.used = b + a.bytes + 2 /\ k.used - 1 = b + 1 + a.bytes
    BY <1>1, <1>2, <1>4, <1>9 DEF EncodedBytes
  <2>2. \A m \in k.mem : m.kind = "nul" /\ b < m.at => b + 1 + a.bytes <= m.at
    BY <1>1, <1>2, <1>4, <1>5
  <2> QED
    BY <1>1, <1>3b, <1>3c, <1>6, <1>7, <1>8, <1>9, <2>1, <2>2 DEF Holds
<1>10. ASSUME a.type # "string" PROVE Holds(k, b, k.used, x)
  <2>1. k.used = b + 1 + SizeOf[a.type]
    BY <1>1, <1>2, <1>4, <1>10 DEF EncodedBytes
  <2>2. \A m \in k.mem : m.at = b + 1 /\ m.kind = "value" => m.val = a.shown
    BY <1>1, <1>2, <1>4, <1>5
  <2> QED
    BY <1>1, <1>3b, <1>3c, <1>6, <1>7, <1>8, <1>10, <2>1, <2>2 DEF Holds
<1> QED
  BY <1>3a, <1>9, <1>10 DEF b

(* A new line holds nothing.                                               *)
LEMMA EncodesNothing ==
  ASSUME NEW lv \in Levels
  PROVE  Encodes(NewLine(lv), <<>>)
<1> DEFINE c == [k \in 0..0 |-> HeaderBytes]
<1>1. HeaderBytes \in Nat
  BY LogLineAssumption
<1>2. NewLine(lv).used = HeaderBytes /\ NewLine(lv).mem = {}
  BY DEF NewLine
<1>3. c \in [0..0 -> Nat] /\ c[0] = HeaderBytes
  BY <1>1
<1> HIDE DEF c
<1>4. Len(<<>>) = 0
  OBVIOUS
<1> QED
  BY <1>1, <1>2, <1>3, <1>4 DEF Encodes

(* operator<< adds its argument, if that is no empty string.               *)
LEMMA EncodesMore ==
  ASSUME NEW l, SoundLine(l), NEW q \in Seq(Prints), Encodes(l, q), NEW a \in Arguments
  PROVE  Encodes(Encode(l, a), IF IsEmpty(a) THEN q ELSE Append(q, Printed(a)))
<1>1. CASE IsEmpty(a)
  BY <1>1 DEF Encode
<1>2. CASE ~IsEmpty(a)
  <2> DEFINE N == Len(q)
             w == Append(q, Printed(a))
  <2>1. PICK k \in LineType : k = Encode(l, a)
    BY EncodeSound DEF SoundLine
  <2>2. l \in LineType /\ l.used \in Nat /\ \A m \in l.mem : m.at \in Nat /\ m.at < l.used
    BY DEF SoundLine, LineType, Encodes, Memory
  <2>3. k.used = l.used + EncodedBytes(a) /\ k.mem = l.mem \cup Pieces(l.used, a)
    BY <1>2, <2>1, <2>2, EncodeSound
  <2>4. /\ EncodedBytes(a) \in Nat \ {0} /\ Pieces(l.used, a) \subseteq Memory
        /\ \A m \in Pieces(l.used, a) : m.at \in Nat /\ l.used <= m.at /\ m.at < k.used
    BY <2>2, <2>3, PiecesSound DEF Memory
  <2>5. /\ N \in Nat /\ Len(w) = N + 1 /\ w[N + 1] = Printed(a)
        /\ \A n \in 1..N : w[n] = q[n] /\ q[n] \in Prints
    <3>1. Printed(a) \in Prints
      BY DEF Arguments, Printed, Prints
    <3> HIDE DEF Printed, Prints
    <3> QED
      BY <3>1
  <2>6. PICK c \in [0..N -> Nat] :
          /\ c[0] = HeaderBytes
          /\ c[N] = l.used
          /\ \A n \in 1..N : Holds(l, c[n - 1], c[n], q[n])
    BY DEF Encodes
  <2> DEFINE d == [n \in 0..(N + 1) |-> IF n <= N THEN c[n] ELSE k.used]
  <2> HIDE DEF N, w
  <2>7. k.used \in Nat
    BY <2>1 DEF LineType
  <2>8. d \in [0..(N + 1) -> Nat] /\ d[N + 1] = k.used /\ \A n \in 0..N : d[n] = c[n]
    BY <2>5, <2>6, <2>7
  <2> HIDE DEF d
  <2>9. ASSUME NEW n \in 1..(N + 1) PROVE Holds(k, d[n - 1], d[n], w[n])
    <3>1. CASE n \in 1..N
      <4>1. n - 1 \in 0..N /\ n \in 0..N
        BY <2>5, <3>1
      <4>2. /\ c[n - 1] \in Nat /\ c[n] \in Nat /\ q[n] \in Prints
            /\ Holds(l, c[n - 1], c[n], q[n])
        BY <2>5, <2>6, <3>1, <4>1
      <4>3. l.used <= k.used
        BY <2>2, <2>3, <2>4
      <4>4. Holds(k, c[n - 1], c[n], q[n])
        BY ZenonT(30), <2>1, <2>2, <2>3, <2>4, <4>2, <4>3, StillHeld
      <4> QED
        BY <2>5, <2>8, <3>1, <4>1, <4>4
    <3>2. CASE n = N + 1
      <4>1. n - 1 = N /\ N \in 0..N
        BY <2>5, <3>2
      <4>2. d[n - 1] = l.used /\ d[n] = k.used /\ w[n] = Printed(a)
        BY <2>5, <2>6, <2>8, <3>2, <4>1
      <4>3. Holds(k, l.used, k.used, Printed(a))
        BY <2>1, <2>2, <2>3, NewlyHeld
      <4> QED
        BY <4>2, <4>3
    <3> QED
      BY <2>5, <3>1, <3>2
  <2>10. \A m \in k.mem : m.at < k.used
    BY <2>2, <2>3, <2>4
  <2>11. N + 1 <= k.used
    BY <2>2, <2>3, <2>4, <2>5 DEF Encodes, N
  <2>12. 0 \in 0..N
    BY <2>5
  <2>13. Encodes(k, w)
    BY <2>5, <2>6, <2>8, <2>9, <2>10, <2>11, <2>12 DEF Encodes
  <2> QED
    BY <1>2, <2>1, <2>13 DEF w
<1> QED
  BY <1>1, <1>2

(* The offsets at which stringify arrives.                                 *)
Walks(l, start) ==
  start = [k \in 0..l.used |-> IF k = 0 THEN HeaderBytes ELSE After(l, start[k - 1])]

(* There is a way through any line.                                        *)
LEMMA WalkExists ==
  ASSUME NEW l
  PROVE  \A n \in Nat : \E h :
           h = [k \in 0..n |-> IF k = 0 THEN HeaderBytes ELSE After(l, h[k - 1])]
<1> DEFINE Way(n, h) ==
             h = [k \in 0..n |-> IF k = 0 THEN HeaderBytes ELSE After(l, h[k - 1])]
           S == {n \in Nat : \E h : Way(n, h)}
<1>1. 0 \in S
  <2> DEFINE h == [k \in 0..0 |-> HeaderBytes]
  <2>1. Way(0, h)
    OBVIOUS
  <2> QED
    BY <2>1
<1>2. ASSUME NEW n \in Nat, n \in S PROVE n + 1 \in S
  <2>1. PICK h : Way(n, h)
    BY <1>2
  <2> DEFINE g == [k \in 0..(n + 1) |-> IF k <= n THEN h[k] ELSE After(l, h[n])]
  <2>2. /\ \A k \in 0..n : h[k] = IF k = 0 THEN HeaderBytes ELSE After(l, h[k - 1])
        /\ \A k \in 1..n : k - 1 \in 0..n
    BY <2>1
  <2>3. /\ g = [k \in 0..(n + 1) |-> g[k]]
        /\ g[n + 1] = After(l, h[n])
        /\ \A k \in 0..n : g[k] = h[k]
    OBVIOUS
  <2> HIDE DEF g
  <2>4. ASSUME NEW k \in 0..(n + 1)
        PROVE  g[k] = IF k = 0 THEN HeaderBytes ELSE After(l, g[k - 1])
    <3>1. CASE k = n + 1
      <4>1. k # 0 /\ k - 1 = n /\ n \in 0..n
        BY <3>1
      <4> QED
        BY <2>3, <3>1, <4>1
    <3>2. CASE k = 0
      <4>1. 0 \in 0..n
        OBVIOUS
      <4> QED
        BY <2>2, <2>3, <3>2, <4>1
    <3>3. CASE k \in 1..n
      <4>1. k # 0 /\ k \in 0..n /\ k - 1 \in 0..n
        BY <3>3
      <4> QED
        BY <2>2, <2>3, <4>1
    <3> QED
      BY <3>1, <3>2, <3>3
  <2>5. Way(n + 1, g)
    BY <2>3, <2>4
  <2> QED
    BY <2>5
<1> HIDE DEF S
<1>3. \A n \in Nat : n \in S
  BY <1>1, <1>2, SetInduction
<1> QED
  BY <1>3 DEF S

(* stringify decodes what the line encodes, and stops behind it.           *)
LEMMA Decodes ==
  ASSUME NEW l \in LineType, NEW q \in Seq(Prints), Encodes(l, q)
  PROVE  Stringify(l) = q
<1> DEFINE N == Len(q)
           start == CHOOSE h : Walks(l, h)
           Ends(k) == start[k] = l.used \/ TypesAt(l, start[k]) = {}
           Last(k) == Ends(k) /\ \A j \in 0..(k - 1) : ~Ends(j)
           n == CHOOSE k \in 0..l.used : Last(k)
<1>1. l.used \in Nat /\ N \in Nat /\ N <= l.used
  BY DEF LineType, Encodes
<1>2. Walks(l, start)
  <2>1. \E h : Walks(l, h)
    BY <1>1, WalkExists DEF Walks
  <2> QED
    BY <2>1
<1>3. Stringify(l) = [k \in 1..n |-> Decoded(l, start[k - 1])]
  BY DEF Stringify, Walks
<1>4. PICK c \in [0..N -> Nat] :
        /\ c[0] = HeaderBytes
        /\ c[N] = l.used
        /\ \A k \in 1..N : Holds(l, c[k - 1], c[k], q[k])
  BY DEF Encodes
<1>5. \A k \in 1..N : q[k] \in Prints
  <2> HIDE DEF Prints
  <2> QED
    OBVIOUS
<1>6. q = [k \in 1..N |-> q[k]]
  <2> HIDE DEF Prints
  <2> QED
    OBVIOUS
<1> HIDE DEF N, start
<1>7. \A k \in 1..N : /\ c[k - 1] # l.used /\ TypesAt(l, c[k - 1]) # {}
                     /\ After(l, c[k - 1]) = c[k]
                     /\ Decoded(l, c[k - 1]) = q[k]
  <2>1. ASSUME NEW k \in 1..N
        PROVE  c[k - 1] \in Nat /\ c[k] \in Nat /\ q[k] \in Prints
    BY <1>1, <1>4, <1>5
  <2> QED
    BY <1>4, <2>1, HeldIsDecoded
<1>8. start[0] = HeaderBytes /\ \A k \in 1..N : start[k] = After(l, start[k - 1])
  BY <1>1, <1>2 DEF Walks
<1> DEFINE S == {k \in Nat : k <= N => start[k] = c[k]}
<1>9. 0 \in S
  BY <1>4, <1>8
<1>10. ASSUME NEW k \in Nat, k \in S PROVE k + 1 \in S
  <2> SUFFICES ASSUME k + 1 <= N PROVE start[k + 1] = c[k + 1]
    OBVIOUS
  <2>1. k + 1 \in 1..N /\ (k + 1) - 1 = k /\ start[k] = c[k]
    BY <1>1, <1>10
  <2>2. start[k + 1] = After(l, start[k])
    BY <1>8, <2>1
  <2>3. After(l, c[k]) = c[k + 1]
    BY <1>7, <2>1
  <2> QED
    BY <2>1, <2>2, <2>3
<1> HIDE DEF S
<1>11. \A k \in Nat : k \in S
  BY <1>9, <1>10, SetInduction
<1>12. \A k \in 0..N : start[k] = c[k]
  BY <1>1, <1>11 DEF S
<1>13. Ends(N)
  BY <1>1, <1>4, <1>12
<1>14. \A j \in 0..(N - 1) : ~Ends(j)
  <2>1. ASSUME NEW j \in 0..(N - 1) PROVE ~Ends(j)
    <3>1. j + 1 \in 1..N /\ (j + 1) - 1 = j /\ j \in 0..N
      BY <1>1
    <3> QED
      BY <1>7, <1>12, <3>1
  <2> QED
    BY <2>1
<1> HIDE DEF Ends
<1>15. n = N
  <2>1. Last(N) /\ N \in 0..l.used
    BY <1>1, <1>13, <1>14
  <2>2. \A k \in 0..l.used : Last(k) => k = N
    BY <1>1, <1>13, <1>14
  <2> HIDE DEF Last
  <2> QED
    BY <2>1, <2>2
<1> HIDE DEF n
<1>16. \A k \in 1..N : Decoded(l, start[k - 1]) = q[k]
  BY <1>1, <1>7, <1>12
<1> QED
  BY <1>3, <1>6, <1>15, <1>16

(* What should be printed of the line with a given id.                     *)
Wanted(id) == Shown(Line(id[1], id[2]).args)

(* A line says the texts of its arguments, by all of its buffer.           *)
Says(l, q) == q \in Seq(Prints) /\ Encodes(l, q)

(* A line says the arguments it has been given, without the empty strings  *)
(* that operator<< leaves out, also in the ring, and that is printed.      *)
TextInv ==
  /\ \A p \in Producer : pc[p] = "encode" =>
       /\ arg[p] <= Len(Line(p, line[p]).args)
       /\ Says(logline[p], Shown(SubSeq(Line(p, line[p]).args, 1, arg[p])))
  /\ \A p \in Producer : pc[p] = "store" => Says(logline[p], Wanted(Id(p)))
  /\ \A i \in Slots : ring[i].written => Says(ring[i].logline, Wanted(ring[i].id))
  /\ \A i \in 1..Len(out) : out[i].text = Wanted(out[i].id)

(* The texts of arguments.                                                 *)
PrintsOf(args) == [n \in DOMAIN args |-> Printed(args[n])]

LEMMA PrintsOfAppend ==
  ASSUME NEW args \in Seq(Arguments), NEW a \in Arguments
  PROVE  /\ PrintsOf(args) \in Seq(Prints)
         /\ PrintsOf(<<>>) = <<>>
         /\ PrintsOf(Append(args, a)) = Append(PrintsOf(args), Printed(a))
<1> DEFINE N == Len(args)
           more == Append(args, a)
<1>1. /\ N \in Nat /\ DOMAIN args = 1..N
      /\ \A n \in 1..N : args[n] \in Arguments
      /\ DOMAIN more = 1..(N + 1) /\ more[N + 1] = a
      /\ \A n \in 1..N : more[n] = args[n]
  <2> HIDE DEF Arguments
  <2> QED
    OBVIOUS
<1>2. \A b \in Arguments : Printed(b) \in Prints
  BY DEF Arguments, Printed, Prints
<1> HIDE DEF N, more
<1>3. /\ PrintsOf(args) = [n \in 1..N |-> Printed(args[n])]
      /\ PrintsOf(more) = [n \in 1..(N + 1) |-> Printed(more[n])]
  BY <1>1 DEF PrintsOf
<1>4. PrintsOf(args) \in Seq(Prints) /\ Len(PrintsOf(args)) = N
  BY <1>1, <1>2, <1>3
<1>5. Printed(a) \in Prints
  BY <1>2
<1>6. PrintsOf(more) = Append(PrintsOf(args), Printed(a))
  <2>1. \A n \in 1..(N + 1) :
          Append(PrintsOf(args), Printed(a))[n] = Printed(more[n])
    <3>1. \A n \in 1..N : Append(PrintsOf(args), Printed(a))[n] = PrintsOf(args)[n]
      BY <1>1, <1>4, <1>5
    <3>2. Append(PrintsOf(args), Printed(a))[N + 1] = Printed(a)
      BY <1>1, <1>4, <1>5
    <3>3. \A n \in 1..(N + 1) : n \in 1..N \/ n = N + 1
      BY <1>1
    <3> QED
      BY <1>1, <1>3, <3>1, <3>2, <3>3
  <2>2. /\ Append(PrintsOf(args), Printed(a)) \in Seq(Prints)
        /\ Len(Append(PrintsOf(args), Printed(a))) = N + 1
    BY <1>1, <1>4, <1>5
  <2>3. Append(PrintsOf(args), Printed(a)) =
          [n \in 1..(N + 1) |-> Append(PrintsOf(args), Printed(a))[n]]
    <3>1. PICK q \in Seq(Prints) : q = Append(PrintsOf(args), Printed(a)) /\ Len(q) = N + 1
      BY <2>2
    <3> HIDE DEF Prints
    <3>2. q = [n \in 1..Len(q) |-> q[n]]
      OBVIOUS
    <3>3. q = [n \in 1..(N + 1) |-> q[n]]
      BY <3>1, <3>2
    <3> QED
      BY <3>1, <3>3
  <2> QED
    BY <1>3, <2>1, <2>3
<1>7. PrintsOf(<<>>) = <<>>
  BY DEF PrintsOf
<1> QED
  BY <1>4, <1>6, <1>7 DEF more

(* Another argument is shown unless it is an empty string.                 *)
LEMMA ShownOneMore ==
  ASSUME NEW args \in Seq(Arguments), NEW n \in 0..Len(args)
  PROVE  /\ Shown(SubSeq(args, 1, 0)) = <<>>
         /\ Shown(SubSeq(args, 1, Len(args))) = Shown(args)
         /\ n < Len(args) =>
              Shown(SubSeq(args, 1, n + 1)) =
                IF IsEmpty(args[n + 1])
                  THEN Shown(SubSeq(args, 1, n))
                  ELSE Append(Shown(SubSeq(args, 1, n)), Printed(args[n + 1]))
<1> DEFINE E == {a \in Arguments : IsEmpty(a)}
<1>1. SubSeq(args, 1, 0) = <<>> /\ SubSeq(args, 1, Len(args)) = args
  OBVIOUS
<1>2. <<>> \in Seq(Arguments) /\ \A a \in Arguments : a \in E <=> IsEmpty(a)
  OBVIOUS
<1>3. \A q : Shown(q) = PrintsOf(Without(q, E))
  BY DEF Shown, PrintsOf, Printed
<1> HIDE DEF E
<1>4. ASSUME n < Len(args)
      PROVE  /\ SubSeq(args, 1, n) \in Seq(Arguments)
             /\ args[n + 1] \in Arguments
             /\ SubSeq(args, 1, n + 1) = Append(SubSeq(args, 1, n), args[n + 1])
  BY <1>4
<1>5. Shown(<<>>) = <<>>
  <2>1. PICK a : a = [type |-> "char", bytes |-> 1, shown |-> 0]
    OBVIOUS
  <2>2. a \in Arguments
    <3>1. "char" = SupportedTypes[1] /\ 1 \in DOMAIN SupportedTypes
      BY DEF SupportedTypes
    <3>2. SizeOf["char"] = 1
      BY DEF SizeOf
    <3> QED
      BY <2>1, <3>1, <3>2 DEF Arguments, Types
  <2>3. Without(<<>>, E) = <<>>
    BY <1>2, <2>2, WithoutOfAppend
  <2> QED
    BY <1>2, <1>3, <2>2, <2>3, PrintsOfAppend
<1>6. ASSUME n < Len(args)
      PROVE  Shown(SubSeq(args, 1, n + 1)) =
               PrintsOf(KeepUnless(E, args[n + 1], Without(SubSeq(args, 1, n), E)))
  <2>1. PICK q, a : q = SubSeq(args, 1, n) /\ a = args[n + 1]
    OBVIOUS
  <2>2. q \in Seq(Arguments) /\ a \in Arguments /\ SubSeq(args, 1, n + 1) = Append(q, a)
    BY <1>4, <1>6, <2>1
  <2>3. Without(Append(q, a), E) = KeepUnless(E, a, Without(q, E))
    BY ONLY <2>2, WithoutOfAppend
  <2> QED
    BY <1>3, <2>1, <2>2, <2>3
<1>7. ASSUME n < Len(args)
      PROVE  Shown(SubSeq(args, 1, n + 1)) =
               IF IsEmpty(args[n + 1])
                 THEN Shown(SubSeq(args, 1, n))
                 ELSE Append(Shown(SubSeq(args, 1, n)), Printed(args[n + 1]))
  <2>1. PICK q, a : q = SubSeq(args, 1, n) /\ a = args[n + 1]
    OBVIOUS
  <2>2. q \in Seq(Arguments) /\ a \in Arguments
    BY <1>4, <1>7, <2>1
  <2>3. PICK r \in Seq(Arguments) : r = Without(q, E)
    BY ONLY <2>2, WithoutOfAppend
  <2>4. PrintsOf(Append(r, a)) = Append(PrintsOf(r), Printed(a))
    BY <2>2, PrintsOfAppend
  <2> QED
    BY <1>2, <1>3, <1>6, <1>7, <2>1, <2>2, <2>3, <2>4 DEF KeepUnless
<1> QED
  BY <1>1, <1>5, <1>7

(* A push encodes the arguments of its line, one after the other.          *)
LEMMA PushText ==
  ASSUME LinesInv, LinesInv', TextInv, NEW p \in Producer, Push(p)
  PROVE  TextInv'
<1> DEFINE args == Line(p, line[p]).args
<1>1. UNCHANGED out /\ \A q \in Producer : pc[q] \in {"idle", "encode", "store"}
  BY DEF Push, popVars, LinesInv
<1>2. CASE Begin(p)
  <2> DEFINE new == Line(p, line'[p]).args
  <2>1. /\ ring' = ring
        /\ \A q \in Producer : q # p => pc'[q] = pc[q] /\ line'[q] = line[q]
                                        /\ logline'[q] = logline[q] /\ arg'[q] = arg[q]
    BY <1>2 DEF Begin, Goes, LinesInv
  <2>2. CASE IsLogged(Line(p, line'[p]).level)
    <3>1. /\ pc'[p] = "encode" /\ arg'[p] = 0
          /\ logline'[p] = NewLine(Line(p, line'[p]).level)
      BY <1>2, <2>2 DEF Begin, Goes, LinesInv
    <3>2. line'[p] \in 1..Len(Content[p])
      BY <3>1 DEF LinesInv
    <3>3. new \in Seq(Arguments)
      BY <3>2, LinesOfContent
    <3>4. 0 <= Len(new) /\ 0 \in 0..Len(new)
      BY <3>3
    <3>5. Says(logline'[p], Shown(SubSeq(new, 1, 0)))
      <4>1. Shown(SubSeq(new, 1, 0)) = <<>>
        BY <3>3, <3>4, ShownOneMore
      <4>2. Line(p, line'[p]).level \in Levels /\ <<>> \in Seq(Prints)
        BY <3>2, LinesOfContent
      <4> QED
        BY <3>1, <4>1, <4>2, EncodesNothing DEF Says
    <3> QED
      BY <1>1, <2>1, <3>1, <3>4, <3>5 DEF TextInv, Id, Wanted
  <2>3. CASE ~IsLogged(Line(p, line'[p]).level)
    <3>1. pc' = pc /\ pc[p] = "idle"
      BY <1>2, <2>3 DEF Begin
    <3> QED
      BY <1>1, <2>1, <3>1 DEF TextInv, Id, Wanted
  <2> QED
    BY <2>2, <2>3
<1>3. CASE Put(p)
  <2>1. /\ UNCHANGED <<pc, line, ring>>
        /\ \A q \in Producer : q # p => logline'[q] = logline[q] /\ arg'[q] = arg[q]
        /\ pc[p] = "encode"
        /\ arg[p] < Len(args) /\ arg'[p] = arg[p] + 1
        /\ logline'[p] = Encode(logline[p], args[arg'[p]])
        /\ arg[p] \in Nat /\ logline[p] \in LineType
    BY <1>3 DEF Put, LinesInv, SoundLines
  <2>2. args \in Seq(Arguments)
    BY <2>1, LinesOfContent DEF LinesInv
  <2> HIDE DEF args
  <2>3. args[arg[p] + 1] \in Arguments /\ arg[p] \in 0..Len(args) /\ arg'[p] <= Len(args)
    BY <2>1, <2>2
  <2> DEFINE a == args[arg[p] + 1]
             q == Shown(SubSeq(args, 1, arg[p]))
  <2>4. a \in Arguments /\ logline'[p] = Encode(logline[p], a) /\ SoundLine(logline[p])
    BY <1>3, <2>1, <2>3 DEF LinesInv, SoundLines, SoundLine
  <2>5. q \in Seq(Prints) /\ Encodes(logline[p], q)
    BY <2>1 DEF TextInv, Says, args
  <2>6. Says(logline'[p], Shown(SubSeq(args, 1, arg'[p])))
    <3>1. Shown(SubSeq(args, 1, arg'[p])) = IF IsEmpty(a) THEN q ELSE Append(q, Printed(a))
      BY <2>1, <2>2, <2>3, ShownOneMore
    <3> HIDE DEF a, q
    <3>2. Encodes(logline'[p], IF IsEmpty(a) THEN q ELSE Append(q, Printed(a)))
      BY <2>4, <2>5, EncodesMore
    <3>3. Printed(a) \in Prints
      BY <2>4 DEF Arguments, Printed, Prints
    <3>4. Append(q, Printed(a)) \in Seq(Prints)
      BY <2>5, <3>3
    <3> QED
      BY <2>5, <3>1, <3>2, <3>4 DEF Says
  <2> QED
    BY <1>1, <2>1, <2>3, <2>6 DEF TextInv, Id, Wanted, args
<1>4. CASE Claim(p)
  <2>1. /\ UNCHANGED <<line, logline, arg, ring>>
        /\ pc' = [pc EXCEPT ![p] = "store"] /\ pc[p] = "encode" /\ arg[p] = Len(args)
    BY <1>4 DEF Claim, Goes
  <2>2. args \in Seq(Arguments)
    BY <2>1, LinesOfContent DEF LinesInv
  <2>3. Len(args) \in 0..Len(args)
    BY <2>2
  <2>4. Says(logline[p], Shown(args))
    BY <2>1, <2>2, <2>3, ShownOneMore DEF TextInv
  <2>5. \A q \in Producer : pc'[q] = IF q = p THEN "store" ELSE pc[q]
    BY <2>1 DEF LinesInv
  <2> QED
    BY <1>1, <2>1, <2>4, <2>5 DEF TextInv, Id, Wanted
<1>5. CASE Store(p)
  <2> DEFINE i == Slot(index[p])
  <2>1. /\ UNCHANGED <<line, arg>>
        /\ pc[p] = "store"
        /\ ring' = [ring EXCEPT ![i] = [written |-> TRUE, id |-> Id(p), logline |-> logline[p]]]
        /\ pc' = [pc EXCEPT ![p] = "idle"]
        /\ logline' = [logline EXCEPT ![p] = NewLine(INFO)]
    BY <1>5 DEF Store, Goes
  <2> HIDE DEF i
  <2>2. \A q \in Producer : pc'[q] # "idle" => q # p /\ pc'[q] = pc[q] /\ logline'[q] = logline[q]
    BY <2>1 DEF LinesInv
  <2>3. \A j \in Slots : ring'[j].written =>
          \/ ring'[j].id = Id(p) /\ ring'[j].logline = logline[p]
          \/ ring'[j] = ring[j]
    BY <2>1 DEF LinesInv
  <2>4. \A j \in Slots : ring'[j].written => Says(ring'[j].logline, Wanted(ring'[j].id))
    BY <2>1, <2>3 DEF TextInv
  <2> QED
    BY <1>1, <2>1, <2>2, <2>4 DEF TextInv, Id
<1> QED
  BY <1>2, <1>3, <1>4, <1>5 DEF Push

(* What is printed of a line in the ring is what it was logged with.       *)
LEMMA PrintedWanted ==
  ASSUME LinesInv, TextInv, NEW i \in Slots, ring[i].written
  PROVE  /\ Stringify(ring[i].logline) = Wanted(ring[i].id)
         /\ Wanted(ring[i].id) \in Seq(Prints)
<1>1. ring[i].logline \in LineType
  BY DEF LinesInv, Item, SoundLines
<1>2. Says(ring[i].logline, Wanted(ring[i].id))
  BY DEF TextInv
<1> QED
  BY <1>1, <1>2, Decodes DEF Says

(* The reader prints what is in the slot; the other steps print nothing.   *)
LEMMA OtherText ==
  ASSUME ClaimsInv, TextInv, PopLoop \/ Shutdown \/ Restart \/ SetLogLevel
  PROVE  TextInv'
<1>1. CASE Take /\ UNCHANGED <<pc, line, logline, arg>>
  <2> DEFINE s == Slot(readIndex)
             taken == [id |-> ring[s].id, text |-> Stringify(ring[s].logline)]
             Taking == [id : Ids, text : Texts]
  <2>1. /\ ring' = [ring EXCEPT ![s].written = FALSE]
        /\ out' = Append(out, taken)
        /\ ring[s].written
    BY <1>1 DEF Take, ReadSlot
  <2>2. s \in Slots
    BY Lengths, SlotOfIndex DEF ClaimsInv, RingShape
  <2>3. taken.text = Wanted(taken.id)
    BY <2>1, <2>2, PrintedWanted DEF ClaimsInv, RingShape
  <2>4. \A j \in Slots : ring'[j].written => ring'[j] = ring[j]
    <3>1. \A r \in Item : [r EXCEPT !.written = FALSE].written = FALSE
      BY DEF Item
    <3>2. ring \in [Slots -> Item]
      BY DEF ClaimsInv, RingShape, LinesInv
    <3>3. \A j \in Slots : ring[j] \in Item
      BY <3>2
    <3> HIDE DEF s
    <3> QED
      BY <2>1, <2>2, <3>1, <3>2, <3>3
  <2>5. out \in Seq(Taking)
    BY DEF ClaimsInv, RingShape
  <2>6. taken \in Taking
    <3>1. ring[s] \in Item
      BY <2>2 DEF ClaimsInv, RingShape, LinesInv
    <3> QED
      BY <2>1, <2>2, <3>1, PrintedText DEF ClaimsInv, RingShape
  <2> HIDE DEF s, taken, Taking
  <2>7. \A i \in 1..Len(out') : out'[i] = taken \/ (i \in 1..Len(out) /\ out'[i] = out[i])
    BY <2>1, <2>5, <2>6
  <2>8. \A i \in 1..Len(out') : out'[i].text = Wanted(out'[i].id)
    BY <2>3, <2>7 DEF TextInv
  <2> QED
    BY <1>1, <2>4, <2>8 DEF TextInv, Id, Wanted
<1>2. CASE (SeeShutdown \/ EndDrain) /\ UNCHANGED <<pc, line, logline, arg>>
  BY <1>2 DEF SeeShutdown, EndDrain, TextInv, Id, Wanted
<1>3. CASE Shutdown \/ SetLogLevel
  BY <1>3 DEF Shutdown, SetLogLevel, pushVars, popVars, TextInv, Id, Wanted
<1>4. CASE Restart
  <2>1. /\ pc' = [q \in Producer |-> "idle"] /\ ring' = [i \in Slots |-> Blank]
        /\ out' = <<>>
    BY <1>4 DEF Restart, LoggerReset
  <2> QED
    BY <2>1 DEF TextInv, Blank
<1> QED
  BY <1>1, <1>2, <1>3, <1>4 DEF PopLoop

(* The buffers of all lines hold what they were logged with.               *)
THEOREM TextInvariant == RingSpec => []TextInv
<1>1. RingInit => TextInv
  BY DEF RingInit, LoggerInit, TextInv, Blank
<1>2. LinesInv /\ LinesInv' /\ ClaimsInv /\ TextInv /\ [RingNext]_ringVars => TextInv'
  <2>1. ASSUME TextInv, UNCHANGED ringVars PROVE TextInv'
    BY <2>1 DEF ringVars, pushVars, popVars, TextInv, Id, Wanted
  <2> QED
    BY <2>1, PushText, OtherText DEF RingNext
<1> QED
  BY <1>1, <1>2, LinesInvariant, ClaimsInvariant, PTL DEF RingSpec

(* What is printed of a line, decoded from the buffer it was encoded in,   *)
(* are the arguments it was logged with.                                   *)
THEOREM TextIntactCorrect == RingSpec => []TextIntact
<1>1. ASSUME ClaimsInv, TextInv PROVE TextIntact
  <2> DEFINE Taking == [id : Ids, text : Texts]
  <2>1. out \in Seq(Taking)
    BY <1>1 DEF ClaimsInv, RingShape
  <2> HIDE DEF Taking
  <2>2. DOMAIN out = 1..Len(out)
    BY <2>1
  <2> QED
    BY <1>1, <2>2 DEF TextInv, TextIntact, Wanted
<1> QED
  BY <1>1, TextInvariant, ClaimsInvariant, PTL
-----------------------------------------------------------------------------
(* What the files hold: lines by run and id, with their lengths.           *)
Runs == Nat \X Ids
Entries == [id : Runs, bytes : Nat]

(* The entries of the first n files, in the order of the files.            *)
IdsOfFiles(fs, n) == Concatenated([m \in 1..n |-> EntriesOf(fs[m])])

(* The files of this run that are complete, or still written to.           *)
Own == IF good THEN number ELSE number - 1

(* The n entries of a run, up to some line, are those the reader took.     *)
Follows(ids, run, taken) ==
  /\ Len(ids) <= Len(taken)
  /\ \A i \in 1..Len(ids) : ids[i] = <<run, taken[i].id>>

(* A file that the last of its lines brought over the limit.               *)
Full(file) ==
  /\ FileBytes(file) > RollBytes
  /\ FileBytes(SubSeq(file, 1, Len(file) - 1)) <= RollBytes

OneRun(file) == \A i, j \in 1..Len(file) : file[i].id[1] = file[j].id[1]

(* The inductive invariant of the files.                                   *)
FilesInv ==
  /\ starts \in Nat
  /\ files \in Seq(Seq(Entries))
  /\ number \in Nat \ {0} /\ good \in BOOLEAN /\ Own <= Len(files)
  /\ good => written = FileBytes(files[number]) /\ written <= RollBytes
  /\ \A n \in 1..(number - 1) : Full(files[n])
  /\ \A n \in 1..Len(files) : OneRun(files[n])
  /\ good => \A i \in 1..Len(files[number]) : files[number][i].id[1] = starts
  /\ Follows(IdsOfFiles(files, Own), starts, out)
  /\ good => Len(IdsOfFiles(files, Own)) = Len(out)

(* A line adds its length to that of its file, and its id to the ids.      *)
LEMMA OneMoreEntry ==
  ASSUME NEW file \in Seq(Entries), NEW e \in Entries
  PROVE  /\ FileBytes(file) \in Nat
         /\ FileBytes(<<>>) = 0
         /\ FileBytes(Append(file, e)) = FileBytes(file) + e.bytes
         /\ EntriesOf(file) \in Seq(Runs)
         /\ EntriesOf(<<>>) = <<>>
         /\ EntriesOf(Append(file, e)) = Append(EntriesOf(file), e.id)
<1> DEFINE N == Len(file)
           sizes == [i \in DOMAIN file |-> file[i].bytes]
           ids == [i \in DOMAIN file |-> file[i].id]
           more == Append(file, e)
<1>1. /\ N \in Nat /\ DOMAIN file = 1..N /\ Len(more) = N + 1 /\ DOMAIN more = 1..(N + 1)
      /\ more[N + 1] = e /\ \A i \in 1..N : more[i] = file[i] /\ file[i] \in Entries
  OBVIOUS
<1>2. e.bytes \in Nat /\ e.id \in Runs /\ \A x \in Entries : x.bytes \in Nat /\ x.id \in Runs
  BY DEF Entries
<1>3. sizes \in Seq(Nat) /\ Len(sizes) = N /\ ids \in Seq(Runs) /\ Len(ids) = N
  BY <1>1, <1>2
<1>4. [i \in DOMAIN more |-> more[i].bytes] = Append(sizes, e.bytes)
  <2>1. Append(sizes, e.bytes) = [i \in 1..(N + 1) |-> IF i = N + 1 THEN e.bytes ELSE sizes[i]]
    BY <1>1, <1>2, <1>3
  <2>2. \A i \in 1..(N + 1) : i = N + 1 \/ i \in 1..N
    BY <1>1
  <2>3. \A i \in 1..N : sizes[i] = file[i].bytes
    BY <1>1
  <2> HIDE DEF sizes, more
  <2> QED
    BY <1>1, <2>1, <2>2, <2>3
<1>5. [i \in DOMAIN more |-> more[i].id] = Append(ids, e.id)
  <2>1. Append(ids, e.id) = [i \in 1..(N + 1) |-> IF i = N + 1 THEN e.id ELSE ids[i]]
    BY <1>1, <1>2, <1>3
  <2>2. \A i \in 1..(N + 1) : i = N + 1 \/ i \in 1..N
    BY <1>1
  <2>3. \A i \in 1..N : ids[i] = file[i].id
    BY <1>1
  <2> HIDE DEF ids, more
  <2> QED
    BY <1>1, <2>1, <2>2, <2>3
<1>6. [i \in DOMAIN <<>> |-> <<>>[i].bytes] = <<>> /\ [i \in DOMAIN <<>> |-> <<>>[i].id] = <<>>
  OBVIOUS
<1> HIDE DEF sizes, ids
<1>7. /\ Total(0, sizes) \in Nat /\ Total(0, <<>>) = 0
      /\ Total(0, Append(sizes, e.bytes)) = Total(0, sizes) + e.bytes
  BY ZenonT(30), <1>2, <1>3, TotalOfAppend
<1> QED
  BY <1>3, <1>4, <1>5, <1>6, <1>7 DEF FileBytes, EntriesOf, sizes, ids

(* A file more adds its entries at the end.                                *)
LEMMA IdsOfOneMore ==
  ASSUME NEW fs \in Seq(Seq(Entries)), NEW n \in Nat, n < Len(fs)
  PROVE  /\ IdsOfFiles(fs, n) \in Seq(Runs)
         /\ IdsOfFiles(fs, n + 1) = IdsOfFiles(fs, n) \o EntriesOf(fs[n + 1])
         /\ EntriesOf(fs[n + 1]) \in Seq(Runs)
<1> DEFINE first == [m \in 1..n |-> EntriesOf(fs[m])]
           more == [m \in 1..(n + 1) |-> EntriesOf(fs[m])]
<1>1. \A m \in 1..(n + 1) : fs[m] \in Seq(Entries)
  OBVIOUS
<1>2. \A m \in 1..(n + 1) : EntriesOf(fs[m]) \in Seq(Runs)
  <2>1. \A file \in Seq(Entries) : EntriesOf(file) \in Seq(Runs)
    <3> SUFFICES ASSUME NEW file \in Seq(Entries) PROVE EntriesOf(file) \in Seq(Runs)
      OBVIOUS
    <3>1. \A i \in 1..Len(file) : file[i] \in Entries
      OBVIOUS
    <3>2. \A i \in 1..Len(file) : file[i].id \in Runs
      BY <3>1 DEF Entries
    <3>3. DOMAIN file = 1..Len(file) /\ Len(file) \in Nat
      OBVIOUS
    <3> QED
      BY <3>2, <3>3 DEF EntriesOf
  <2> QED
    BY <1>1, <2>1
<1>3. first \in Seq(Seq(Runs)) /\ Len(first) = n
  BY <1>2
<1>4. more = Append(first, EntriesOf(fs[n + 1]))
  <2>1. Append(first, EntriesOf(fs[n + 1])) =
          [m \in 1..(n + 1) |-> IF m = n + 1 THEN EntriesOf(fs[n + 1]) ELSE first[m]]
    BY <1>2, <1>3
  <2>2. \A m \in 1..(n + 1) : m = n + 1 \/ m \in 1..n
    OBVIOUS
  <2>3. \A m \in 1..n : first[m] = EntriesOf(fs[m])
    OBVIOUS
  <2> HIDE DEF first
  <2> QED
    BY <2>1, <2>2, <2>3
<1> HIDE DEF first, more
<1>5. EntriesOf(fs[n + 1]) \in Seq(Runs)
  BY <1>2
<1> QED
  BY <1>3, <1>4, <1>5, ConcatenatedOfAppend DEF IdsOfFiles, first, more

(* Files that are the same have the same entries, and no files have none.  *)
LEMMA IdsOfSame ==
  ASSUME NEW fs, NEW gs, NEW n \in Nat, \A m \in 1..n : fs[m] = gs[m]
  PROVE  IdsOfFiles(fs, n) = IdsOfFiles(gs, n)
<1>1. [m \in 1..n |-> EntriesOf(fs[m])] = [m \in 1..n |-> EntriesOf(gs[m])]
  OBVIOUS
<1> QED
  BY <1>1 DEF IdsOfFiles

(* The first file of a run is empty, whether it could be opened or not.    *)
LEMMA IdsOfNone ==
  ASSUME NEW fs \in Seq(Seq(Entries))
  PROVE  /\ IdsOfFiles(fs, 0) = <<>>
         /\ Len(fs) >= 1 /\ fs[1] = <<>> => IdsOfFiles(fs, 1) = <<>>
<1>1. [m \in 1..0 |-> EntriesOf(fs[m])] = <<>>
  OBVIOUS
<1>2. <<>> \in Seq(Seq(Runs)) /\ <<>> \in Seq(Runs)
  OBVIOUS
<1>3. IdsOfFiles(fs, 0) = <<>>
  BY <1>1, <1>2, ConcatenatedOfAppend DEF IdsOfFiles
<1>4. EntriesOf(<<>>) = <<>>
  BY DEF EntriesOf
<1>5. ASSUME Len(fs) >= 1, fs[1] = <<>> PROVE IdsOfFiles(fs, 1) = <<>>
  <2>1. 0 \in Nat /\ 0 < Len(fs) /\ 0 + 1 = 1
    BY <1>5
  <2>2. IdsOfFiles(fs, 0 + 1) = IdsOfFiles(fs, 0) \o EntriesOf(fs[0 + 1])
    BY <2>1, IdsOfOneMore
  <2>3. <<>> \o <<>> = <<>>
    OBVIOUS
  <2> QED
    BY <1>3, <1>4, <1>5, <2>1, <2>2, <2>3
<1> QED
  BY <1>3, <1>5
(* What PutFile does to files that are not more than one short.            *)
LEMMA PutFileSound ==
  ASSUME NEW fs \in Seq(Seq(Entries)), NEW n \in Nat \ {0}, n <= Len(fs) + 1
  PROVE  /\ PutFile(fs, n, <<>>) \in Seq(Seq(Entries))
         /\ Len(PutFile(fs, n, <<>>)) >= n
         /\ PutFile(fs, n, <<>>)[n] = <<>>
         /\ \A m \in 1..Len(PutFile(fs, n, <<>>)) :
              m # n => m \in 1..Len(fs) /\ PutFile(fs, n, <<>>)[m] = fs[m]
         /\ Len(fs) <= Len(PutFile(fs, n, <<>>))
<1> DEFINE File == Seq(Entries)
           gs == PutFile(fs, n, <<>>)
<1>1. <<>> \in File /\ fs \in Seq(File) /\ Len(fs) \in Nat
  OBVIOUS
<1> HIDE DEF File, gs
<1>2. CASE n <= Len(fs)
  <2>1. gs = [fs EXCEPT ![n] = <<>>]
    BY <1>2 DEF PutFile, gs
  <2>2. n \in 1..Len(fs)
    BY <1>1, <1>2
  <2>3. gs \in Seq(File) /\ Len(gs) = Len(fs)
    BY <1>1, <2>1, <2>2
  <2>4. gs[n] = <<>> /\ \A m \in 1..Len(fs) : m # n => gs[m] = fs[m]
    BY <1>1, <2>1, <2>2
  <2>5. \A m \in 1..Len(gs) : m # n => m \in 1..Len(fs) /\ gs[m] = fs[m]
    BY <2>3, <2>4
  <2> QED
    BY <1>1, <1>2, <2>3, <2>4, <2>5 DEF File, gs
<1>3. CASE ~(n <= Len(fs))
  <2>1. gs = Append(fs, <<>>) /\ n = Len(fs) + 1
    BY <1>1, <1>3 DEF PutFile, gs
  <2>2. gs \in Seq(File) /\ Len(gs) = Len(fs) + 1
    BY <1>1, <2>1
  <2>3. gs[n] = <<>> /\ \A m \in 1..Len(fs) : gs[m] = fs[m]
    BY <1>1, <2>1, <2>2
  <2>4. n = Len(gs) /\ Len(fs) <= Len(gs)
    BY <1>1, <2>1, <2>2
  <2>5. \A m \in 1..Len(gs) : m # n => m \in 1..Len(fs) /\ gs[m] = fs[m]
    BY <1>1, <2>1, <2>2, <2>3
  <2> QED
    BY <2>2, <2>3, <2>4, <2>5 DEF File, gs
<1> QED
  BY <1>2, <1>3

(* One line more in the file that is open.                                 *)
LEMMA AppendedSound ==
  ASSUME FilesInv, good, NEW e \in Entries
  PROVE  /\ number \in 1..Len(files)
         /\ Appended(e) \in Seq(Seq(Entries))
         /\ Len(Appended(e)) = Len(files)
         /\ Appended(e)[number] = Append(files[number], e)
         /\ \A n \in 1..Len(files) : n # number => Appended(e)[n] = files[n]
         /\ IdsOfFiles(files, number) \in Seq(Runs)
         /\ IdsOfFiles(Appended(e), number) = Append(IdsOfFiles(files, number), e.id)
         /\ IdsOfFiles(Appended(e), number - 1) = IdsOfFiles(files, number - 1)
<1>1. number \in 1..Len(files) /\ files \in Seq(Seq(Entries))
  BY DEF FilesInv, Own
<1>2. files[number] \in Seq(Entries) /\ Append(files[number], e) \in Seq(Entries)
  BY <1>1
<1>3. /\ Appended(e) \in Seq(Seq(Entries)) /\ Len(Appended(e)) = Len(files)
      /\ Appended(e)[number] = Append(files[number], e)
      /\ \A n \in 1..Len(files) : n # number => Appended(e)[n] = files[n]
  BY <1>1, <1>2 DEF Appended
<1> DEFINE k == number - 1
           app == Appended(e)
<1>4. /\ k \in Nat /\ k < Len(files) /\ k + 1 = number
      /\ \A m \in 1..k : m \in 1..Len(files) /\ m # number
  BY <1>1
<1> HIDE DEF k, app
<1>5. IdsOfFiles(app, k) = IdsOfFiles(files, k)
  BY <1>3, <1>4, IdsOfSame DEF app
<1>6. /\ IdsOfFiles(files, k) \in Seq(Runs)
      /\ IdsOfFiles(files, k + 1) = IdsOfFiles(files, k) \o EntriesOf(files[k + 1])
  BY <1>1, <1>4, IdsOfOneMore
<1>7. IdsOfFiles(app, k + 1) = IdsOfFiles(app, k) \o EntriesOf(app[k + 1])
  BY <1>3, <1>4, IdsOfOneMore DEF app
<1>8. /\ EntriesOf(files[number]) \in Seq(Runs)
      /\ EntriesOf(app[number]) = Append(EntriesOf(files[number]), e.id)
  BY <1>2, <1>3, OneMoreEntry DEF app
<1>9. e.id \in Runs
  BY DEF Entries
<1>10. \A s, t \in Seq(Runs) : s \o t \in Seq(Runs) /\ s \o Append(t, e.id) = Append(s \o t, e.id)
  <2> SUFFICES ASSUME NEW s \in Seq(Runs), NEW t \in Seq(Runs)
               PROVE  s \o t \in Seq(Runs) /\ s \o Append(t, e.id) = Append(s \o t, e.id)
    OBVIOUS
  <2> QED
    BY <1>9
<1>11. /\ IdsOfFiles(files, number) \in Seq(Runs)
       /\ IdsOfFiles(app, number) = Append(IdsOfFiles(files, number), e.id)
  <2>1. PICK s, t : s = IdsOfFiles(files, k) /\ t = EntriesOf(files[number])
    OBVIOUS
  <2>2. s \in Seq(Runs) /\ t \in Seq(Runs) /\ IdsOfFiles(files, number) = s \o t
    BY <1>4, <1>6, <1>8, <2>1
  <2>3. IdsOfFiles(app, number) = s \o Append(t, e.id)
    BY <1>4, <1>5, <1>7, <1>8, <2>1
  <2>4. s \o t \in Seq(Runs) /\ s \o Append(t, e.id) = Append(s \o t, e.id)
    BY <1>10, <2>2
  <2> QED
    BY <2>2, <2>3, <2>4
<1> QED
  BY <1>1, <1>3, <1>5, <1>11 DEF k, app

(* The reader has taken one line more.                                     *)
Grows(taken, more, id) ==
  /\ Len(more) = Len(taken) + 1
  /\ more[Len(taken) + 1].id = id
  /\ \A i \in 1..Len(taken) : more[i].id = taken[i].id

(* The ids that followed the reader, and one more with the line taken.     *)
LEMMA FollowsOneMore ==
  ASSUME NEW ids \in Seq(Runs), NEW run \in Nat, NEW id \in Ids, NEW taken, NEW more,
         Follows(ids, run, taken), Len(taken) \in Nat, Grows(taken, more, id)
  PROVE  /\ Follows(ids, run, more)
         /\ Len(ids) = Len(taken) =>
              /\ Follows(Append(ids, <<run, id>>), run, more)
              /\ Len(Append(ids, <<run, id>>)) = Len(more)
<1>1. <<run, id>> \in Runs
  BY DEF Runs
<1>2. Len(ids) \in Nat /\ Len(ids) <= Len(taken)
  BY DEF Follows
<1>3. Follows(ids, run, more)
  BY <1>2 DEF Follows, Grows
<1>4. ASSUME Len(ids) = Len(taken)
      PROVE  /\ Follows(Append(ids, <<run, id>>), run, more)
             /\ Len(Append(ids, <<run, id>>)) = Len(more)
  <2> DEFINE all == Append(ids, <<run, id>>)
  <2>1. /\ Len(all) = Len(ids) + 1 /\ all[Len(ids) + 1] = <<run, id>>
        /\ \A i \in 1..Len(ids) : all[i] = ids[i]
    BY <1>1
  <2> HIDE DEF all
  <2>2. \A i \in 1..Len(all) : i = Len(ids) + 1 \/ i \in 1..Len(ids)
    BY <1>2, <2>1
  <2>3. Len(all) = Len(more)
    BY <1>4, <2>1 DEF Grows
  <2>4. \A i \in 1..Len(all) : all[i] = <<run, more[i].id>>
    BY <1>2, <1>4, <2>1, <2>2 DEF Follows, Grows
  <2>5. Len(all) <= Len(more)
    BY <1>2, <2>1, <2>3
  <2> QED
    BY <2>3, <2>4, <2>5 DEF Follows, all
<1> QED
  BY <1>3, <1>4

(* FileWriter::write: the line is in the file, or the stream has failed.   *)
LEMMA WriteFiles ==
  ASSUME FilesInv, Len(out) \in Nat, NEW id \in Ids, NEW b \in Nat,
         Write(Entry(<<starts, id>>, b)), Grows(out, out', id), starts' = starts
  PROVE  FilesInv'
<1> DEFINE e == Entry(<<starts, id>>, b)
           app == Appended(e)
           ids == IdsOfFiles(app, number)
<1>1. e \in Entries /\ e.id = <<starts, id>> /\ e.bytes = b /\ <<starts, id>> \in Runs
  BY DEF Entry, Entries, Runs, FilesInv
<1> HIDE DEF e
<1>2. /\ files \in Seq(Seq(Entries)) /\ Len(files) \in Nat
      /\ number \in Nat /\ number # 0 /\ starts \in Nat /\ RollBytes \in Nat
  BY LogFileAssumption DEF FilesInv
<1>2a. number \in Nat /\ number # 0 /\ Len(files) \in Nat
  BY <1>2
<1>3. CASE WriteLine(e)
  <2>1. good
    BY <1>3 DEF WriteLine
  <2>2. /\ number \in 1..Len(files)
        /\ app \in Seq(Seq(Entries)) /\ Len(app) = Len(files)
        /\ app[number] = Append(files[number], e)
        /\ \A n \in 1..Len(files) : n # number => app[n] = files[n]
        /\ IdsOfFiles(files, number) \in Seq(Runs)
        /\ ids = Append(IdsOfFiles(files, number), e.id)
    BY <1>1, <2>1, AppendedSound
  <2> HIDE DEF app, ids
  <2>2a. number \in 1..Len(files) /\ Len(app) = Len(files)
    BY <2>2
  <2>3. files[number] \in Seq(Entries)
    BY <1>2, <2>2
  <2>4. /\ FileBytes(files[number]) \in Nat /\ FileBytes(<<>>) = 0
        /\ FileBytes(app[number]) = FileBytes(files[number]) + b
        /\ EntriesOf(<<>>) = <<>>
    BY <1>1, <2>2, <2>3, OneMoreEntry
  <2>5. written = FileBytes(files[number]) /\ written <= RollBytes
    BY <2>1 DEF FilesInv
  <2>6. Follows(ids, starts, out') /\ Len(ids) = Len(out')
    <3>1. /\ Follows(IdsOfFiles(files, number), starts, out)
          /\ Len(IdsOfFiles(files, number)) = Len(out)
      BY <2>1 DEF FilesInv, Own
    <3>2. /\ Follows(Append(IdsOfFiles(files, number), <<starts, id>>), starts, out')
          /\ Len(Append(IdsOfFiles(files, number), <<starts, id>>)) = Len(out')
      BY SMTT(20), <1>2, <2>2, <3>1, FollowsOneMore
    <3> QED
      BY <1>1, <2>2, <3>2
  <2>7. /\ \A i \in 1..Len(app[number]) : app[number][i].id[1] = starts
        /\ \A n \in 1..Len(app) : OneRun(app[n])
    <3>1. /\ Len(app[number]) = Len(files[number]) + 1 /\ Len(files[number]) \in Nat
          /\ app[number][Len(files[number]) + 1] = e
          /\ \A i \in 1..Len(files[number]) : app[number][i] = files[number][i]
      BY SMTT(20), <1>1, <2>2, <2>3
    <3>2. \A i \in 1..Len(app[number]) : i \in 1..Len(files[number]) \/ i = Len(files[number]) + 1
      BY <3>1
    <3>3. \A i \in 1..Len(files[number]) : files[number][i].id[1] = starts
      BY <2>1 DEF FilesInv
    <3>4. e.id[1] = starts
      BY <1>1
    <3>5. \A i \in 1..Len(app[number]) : app[number][i].id[1] = starts
      BY <3>1, <3>2, <3>3, <3>4
    <3>6. OneRun(app[number])
      BY <3>5 DEF OneRun
    <3>7. \A n \in 1..Len(files) : OneRun(files[n])
      BY DEF FilesInv
    <3>8. \A n \in 1..Len(app) : n = number \/ app[n] = files[n]
      BY <2>2
    <3>9. \A n \in 1..Len(app) : OneRun(app[n])
      BY <2>2, <3>6, <3>7, <3>8
    <3> QED
      BY <3>5, <3>9
  <2>8. \A n \in 1..(number - 1) : Full(app[n])
    <3>1. \A n \in 1..(number - 1) : n \in 1..Len(files) /\ n # number
      BY <1>2a, <2>2a
    <3>2. \A n \in 1..(number - 1) : app[n] = files[n]
      BY <2>2, <3>1
    <3> QED
      BY <3>2 DEF FilesInv
  <2>9. CASE ~(written + e.bytes > RollBytes)
    <3>1. written' = written + b /\ files' = app /\ number' = number /\ good'
      BY <1>1, <1>3, <2>1, <2>9 DEF WriteLine, app
    <3>2. written' = FileBytes(app[number]) /\ written' <= RollBytes
      BY <1>1, <1>2, <2>4, <2>5, <2>9, <3>1
    <3>3. Own' = number /\ Own' <= Len(app)
      BY <2>1, <2>2, <3>1 DEF Own
    <3>4. IdsOfFiles(files, Own)' = ids
      BY <3>1, <3>3 DEF ids, IdsOfFiles
    <3>5. /\ Follows(IdsOfFiles(files, Own), starts, out)'
          /\ (Len(IdsOfFiles(files, Own)) = Len(out))'
      BY <2>6, <3>4
    <3>6. (\A n \in 1..(number - 1) : Full(files[n]))'
      BY <2>8, <3>1 DEF Full
    <3>7. (\A n \in 1..Len(files) : OneRun(files[n]))'
      BY <2>7, <3>1 DEF OneRun
    <3>8. (\A i \in 1..Len(files[number]) : files[number][i].id[1] = starts)'
      BY <2>7, <3>1
    <3> QED
      BY <1>2, <2>1, <2>2, <3>1, <3>2, <3>3, <3>5, <3>6, <3>7, <3>8 DEF FilesInv
  <2>10. CASE written + e.bytes > RollBytes
    <3>1. RollFile(app, number)
      BY <1>3, <2>10 DEF WriteLine, app
    <3>2. number' = number + 1 /\ written' = 0 /\ good' \in BOOLEAN
      BY <3>1 DEF RollFile, Opens
    <3>3. Full(app[number])
      <4>1. FileBytes(app[number]) > RollBytes
        BY <1>1, <2>4, <2>5, <2>10
      <4>2. Len(app[number]) - 1 = Len(files[number])
        BY <1>1, <2>2, <2>3
      <4>3. SubSeq(app[number], 1, Len(files[number])) = files[number]
        BY SMTT(20), <1>1, <2>2, <2>3
      <4> QED
        BY <2>5, <4>1, <4>2, <4>3 DEF Full
    <3>4. \A n \in 1..number : Full(app[n])
      <4>1. \A n \in 1..number : n = number \/ n \in 1..(number - 1)
        BY <1>2
      <4> QED
        BY <2>8, <3>3, <4>1
    <3>5. CASE ~good'
      <4>1. files' = app
        BY <3>1, <3>5 DEF RollFile
      <4>2. Own' = number
        BY <1>2, <3>2, <3>5 DEF Own
      <4>3. IdsOfFiles(files, Own)' = ids
        BY <4>1, <4>2 DEF ids, IdsOfFiles
      <4>4. Follows(IdsOfFiles(files, Own), starts, out)'
        BY <2>6, <4>3
      <4>5. (\A n \in 1..(number - 1) : Full(files[n]))'
        BY <1>2, <3>2, <3>4, <4>1 DEF Full
      <4>6. (\A n \in 1..Len(files) : OneRun(files[n]))'
        BY <2>7, <4>1 DEF OneRun
      <4>7. Own' <= Len(files')
        BY <2>2, <4>1, <4>2
      <4> QED
        BY <1>2, <2>2, <3>2, <3>5, <4>1, <4>4, <4>5, <4>6, <4>7 DEF FilesInv
    <3>6. CASE good'
      <4> DEFINE gs == PutFile(app, number + 1, <<>>)
      <4>1. files' = gs
        BY <3>1, <3>6 DEF RollFile
      <4>2. number + 1 \in Nat \ {0} /\ number + 1 <= Len(app) + 1 /\ Len(app) \in Nat
        BY <1>2a, <2>2a
      <4>3. /\ gs \in Seq(Seq(Entries))
            /\ Len(gs) >= number + 1
            /\ gs[number + 1] = <<>>
            /\ \A m \in 1..Len(gs) : m # number + 1 => m \in 1..Len(app) /\ gs[m] = app[m]
        BY <2>2, <4>2, PutFileSound
      <4> HIDE DEF gs
      <4>4. Own' = number + 1 /\ Len(gs) \in Nat
        BY <3>2, <3>6, <4>3 DEF Own
      <4>5. \A m \in 1..number : gs[m] = app[m]
        <5>1. Len(gs) >= number + 1 /\ Len(gs) \in Nat
          BY <4>3, <4>4
        <5>2. \A m \in 1..number : m \in 1..Len(gs) /\ m # number + 1
          BY <1>2a, <5>1
        <5> QED
          BY <4>3, <5>2
      <4>6. IdsOfFiles(gs, number + 1) = ids
        <5>1. number < Len(gs)
          BY <1>2, <4>3, <4>4
        <5>2. IdsOfFiles(gs, number + 1) = IdsOfFiles(gs, number) \o EntriesOf(gs[number + 1])
          BY <1>2, <4>3, <5>1, IdsOfOneMore
        <5>3. IdsOfFiles(gs, number) = ids
          BY <1>2, <4>5, IdsOfSame DEF ids
        <5>4. ids \in Seq(Runs)
          BY <1>1, <2>2
        <5>5. \A s \in Seq(Runs) : s \o <<>> = s
          OBVIOUS
        <5> QED
          BY <2>4, <4>3, <5>2, <5>3, <5>4, <5>5
      <4>7. IdsOfFiles(files, Own)' = ids
        BY <4>1, <4>4, <4>6 DEF IdsOfFiles
      <4>8. /\ Follows(IdsOfFiles(files, Own), starts, out)'
            /\ (Len(IdsOfFiles(files, Own)) = Len(out))'
        BY <2>6, <4>7
      <4>9. (\A n \in 1..(number - 1) : Full(files[n]))'
        <5>1. \A n \in 1..number : Full(gs[n])
          BY <3>4, <4>5
        <5>2. number' - 1 = number
          BY <1>2, <3>2
        <5> QED
          BY <4>1, <5>1, <5>2 DEF Full
      <4>10. (\A n \in 1..Len(files) : OneRun(files[n]))'
        <5>1. OneRun(<<>>)
          BY DEF OneRun
        <5>2. \A n \in 1..Len(gs) : OneRun(gs[n])
          BY <2>7, <4>3, <5>1
        <5> QED
          BY <4>1, <5>2 DEF OneRun
      <4>11. (\A i \in 1..Len(files[number]) : files[number][i].id[1] = starts)'
        BY <3>2, <4>1, <4>3
      <4>12. (written = FileBytes(files[number]) /\ written <= RollBytes)'
        BY <1>2, <2>4, <3>2, <4>1, <4>3
      <4> QED
        BY <1>2, <3>2, <3>6, <4>1, <4>2, <4>3, <4>4, <4>8, <4>9, <4>10, <4>11, <4>12
           DEF FilesInv
    <3> QED
      BY <3>2, <3>5, <3>6
  <2> QED
    BY <2>9, <2>10
<1>4. CASE WriteFails \/ WriteIgnored
  <2>1. UNCHANGED <<files, number>> /\ ~good' /\ good' \in BOOLEAN
    <3>1. good \in BOOLEAN
      BY DEF FilesInv
    <3>2. CASE WriteFails
      BY <3>2 DEF WriteFails
    <3>3. CASE WriteIgnored
      BY <3>1, <3>3 DEF WriteIgnored, fileVars
    <3> QED
      BY <1>4, <3>2, <3>3
  <2> DEFINE k == number - 1
  <2>2. k \in Nat /\ k <= Len(files) /\ Own' = k
    BY <1>2, <2>1 DEF FilesInv, Own
  <2> HIDE DEF k
  <2>3. Follows(IdsOfFiles(files, k), starts, out)
    <3>1. CASE ~good
      BY <3>1 DEF FilesInv, Own, k
    <3>2. CASE good
      <4>1. k < Len(files) /\ k + 1 = number /\ Own = number
        BY <1>2, <3>2 DEF FilesInv, Own, k
      <4>2. /\ IdsOfFiles(files, k) \in Seq(Runs)
            /\ IdsOfFiles(files, k + 1) = IdsOfFiles(files, k) \o EntriesOf(files[k + 1])
            /\ EntriesOf(files[k + 1]) \in Seq(Runs)
        BY <1>2, <2>2, <4>1, IdsOfOneMore
      <4>3. Follows(IdsOfFiles(files, k + 1), starts, out)
        BY <4>1 DEF FilesInv
      <4>4. ASSUME NEW s \in Seq(Runs), NEW t \in Seq(Runs), Follows(s \o t, starts, out)
            PROVE  Follows(s, starts, out)
        <5>1. /\ Len(s) \in Nat /\ Len(s \o t) \in Nat /\ Len(s) <= Len(s \o t)
              /\ \A i \in 1..Len(s) : i \in 1..Len(s \o t) /\ (s \o t)[i] = s[i]
          OBVIOUS
        <5> QED
          BY <4>4, <5>1 DEF Follows
      <4> QED
        BY <4>2, <4>3, <4>4
    <3> QED
      BY <3>1, <3>2
  <2>4. IdsOfFiles(files, k) \in Seq(Runs)
    <3>1. CASE k < Len(files)
      BY <1>2, <2>2, <3>1, IdsOfOneMore
    <3>2. CASE k = Len(files)
      <4>1. CASE k = 0
        <5>1. IdsOfFiles(files, 0) = <<>> /\ <<>> \in Seq(Runs)
          BY <1>2, IdsOfNone
        <5> QED
          BY <4>1, <5>1
      <4>2. CASE k # 0
        <5>1. k - 1 \in Nat /\ k - 1 < Len(files) /\ (k - 1) + 1 = k
          BY <1>2a, <2>2, <3>2, <4>2
        <5>2. /\ IdsOfFiles(files, k - 1) \in Seq(Runs)
              /\ IdsOfFiles(files, (k - 1) + 1) = IdsOfFiles(files, k - 1) \o EntriesOf(files[(k - 1) + 1])
              /\ EntriesOf(files[(k - 1) + 1]) \in Seq(Runs)
          BY <1>2, <5>1, IdsOfOneMore
        <5>3. \A s, t \in Seq(Runs) : s \o t \in Seq(Runs)
          OBVIOUS
        <5> QED
          BY <5>1, <5>2, <5>3
      <4> QED
        BY <4>1, <4>2
    <3> QED
      BY <1>2a, <2>2, <3>1, <3>2
  <2>5. Follows(IdsOfFiles(files, k), starts, out')
    BY <1>2, <2>3, <2>4, FollowsOneMore
  <2>6. Follows(IdsOfFiles(files, Own), starts, out)'
    BY <2>1, <2>2, <2>5
  <2>7. (\A n \in 1..(number - 1) : Full(files[n]))' /\ (\A n \in 1..Len(files) : OneRun(files[n]))'
    <3>1. \A n : Full(files[n])' <=> Full(files[n])
      BY <2>1 DEF Full
    <3>2. \A n : OneRun(files[n])' <=> OneRun(files[n])
      BY <2>1 DEF OneRun
    <3>3. (\A n \in 1..(number - 1) : Full(files[n])) /\ (\A n \in 1..Len(files) : OneRun(files[n]))
      BY DEF FilesInv
    <3> QED
      BY <2>1, <3>1, <3>2, <3>3
  <2> QED
    BY <1>2, <2>1, <2>2, <2>6, <2>7 DEF FilesInv
<1> QED
  BY <1>3, <1>4 DEF Write, e
(* A FileWriter that has opened its first file, or could not.              *)
NewWriter ==
  /\ starts \in Nat /\ out = <<>>
  /\ files \in Seq(Seq(Entries)) /\ \A n \in 1..Len(files) : OneRun(files[n])
  /\ number = 1 /\ written = 0 /\ good \in BOOLEAN
  /\ good => Len(files) >= 1 /\ files[1] = <<>>

(* It satisfies the invariant.                                             *)
LEMMA NewWriterFiles == NewWriter => FilesInv
<1> SUFFICES ASSUME NewWriter PROVE FilesInv
  OBVIOUS
<1>1. /\ files \in Seq(Seq(Entries)) /\ number = 1 /\ written = 0 /\ good \in BOOLEAN
      /\ good => Len(files) >= 1 /\ files[1] = <<>>
      /\ Len(out) = 0
  BY DEF NewWriter
<1>2. Len(files) \in Nat /\ RollBytes \in Nat
  BY <1>1, LogFileAssumption
<1>3. Own = (IF good THEN 1 ELSE 0) /\ Own <= Len(files)
  BY <1>1, <1>2 DEF Own
<1>4. IdsOfFiles(files, Own) = <<>>
  BY <1>1, <1>3, IdsOfNone
<1>5. Follows(IdsOfFiles(files, Own), starts, out) /\ Len(IdsOfFiles(files, Own)) = Len(out)
  BY <1>1, <1>4 DEF Follows
<1>6. FileBytes(<<>>) = 0
  <2>1. [i \in DOMAIN <<>> |-> <<>>[i].bytes] = <<>>
    OBVIOUS
  <2>2. <<>> \in Seq(Nat) /\ 0 \in Nat
    OBVIOUS
  <2> QED
    BY <2>1, <2>2, TotalOfAppend DEF FileBytes
<1>7. good => \A i \in 1..Len(files[number]) : files[number][i].id[1] = starts
  BY <1>1
<1> QED
  BY <1>1, <1>2, <1>3, <1>5, <1>6, <1>7 DEF NewWriter, FilesInv

(* The characters of a line are counted by a number.                       *)
LEMMA PrintedNumber ==
  ASSUME NEW text \in Seq(Prints)
  PROVE  PrintedBytes(text) \in Nat
<1>1. \A i \in 1..Len(text) : text[i] \in Prints
  <2> HIDE DEF Prints
  <2> QED
    OBVIOUS
<1>2. \A a \in Prints : a.shown \in Nat
  BY DEF Prints
<1>3. DOMAIN text = 1..Len(text) /\ Len(text) \in Nat
  <2> HIDE DEF Prints
  <2> QED
    OBVIOUS
<1>4. [i \in DOMAIN text |-> text[i].shown] \in Seq(Nat)
  BY <1>1, <1>2, <1>3
<1>5. PrefixBytes \in Nat /\ 0 \in Nat
  BY LogLineAssumption
<1> QED
  BY <1>4, <1>5, TotalOfAppend DEF PrintedBytes

(* A line is written in the step that takes it.                            *)
LEMMA TakeFiles ==
  ASSUME ClaimsInv, TextInv, FilesInv, Take, starts' = starts
  PROVE  FilesInv'
<1> DEFINE s == Slot(readIndex)
           text == Stringify(ring[s].logline)
           taken == [id |-> ring[s].id, text |-> text]
           Taking == [id : Ids, text : Texts]
<1>1. /\ ring[s].written
      /\ out' = Append(out, taken)
      /\ Write(Entry(<<starts, ring[s].id>>, PrintedBytes(text)))
  BY DEF Take, ReadSlot
<1>2. s \in Slots
  BY Lengths, SlotOfIndex DEF ClaimsInv, RingShape
<1>3. ring[s].id \in Ids /\ text \in Texts
  <2>1. ring[s] \in Item
    BY <1>2 DEF ClaimsInv, RingShape, LinesInv
  <2> QED
    BY <1>1, <1>2, <2>1, PrintedText DEF ClaimsInv, RingShape
<1>4. taken \in Taking /\ taken.id = ring[s].id
  BY <1>3
<1>5. out \in Seq(Taking)
  BY DEF ClaimsInv, RingShape
<1>6. PrintedBytes(text) \in Nat
  <2>1. text \in Seq(Prints)
    BY <1>1, <1>2, PrintedWanted DEF ClaimsInv, RingShape
  <2> HIDE DEF text
  <2> QED
    BY <2>1, PrintedNumber
<1> HIDE DEF s, text, taken, Taking
<1>7. Grows(out, out', ring[s].id) /\ Len(out) \in Nat
  BY <1>1, <1>4, <1>5 DEF Grows
<1> QED
  BY <1>1, <1>3, <1>6, <1>7, WriteFiles

(* The files and the reader agree in every state.                          *)
THEOREM FilesInvariant == RingSpec => []FilesInv
<1>1. RingInit => FilesInv
  <2> SUFFICES ASSUME RingInit PROVE NewWriter
    BY NewWriterFiles
  <2>1. starts = 0 /\ out = <<>> /\ files = <<<<>>>> /\ number = 1 /\ written = 0 /\ good \in BOOLEAN
    BY DEF RingInit, LoggerInit, FileInit, Opens
  <2>2. <<>> \in Seq(Entries)
    OBVIOUS
  <2>3. files \in Seq(Seq(Entries)) /\ Len(files) = 1 /\ files[1] = <<>>
    BY <2>1, <2>2
  <2> QED
    BY <2>1, <2>3 DEF NewWriter, OneRun
<1>2. ClaimsInv /\ TextInv /\ FilesInv /\ [RingNext]_ringVars /\ (NewWriter' => FilesInv') => FilesInv'
  <2> SUFFICES ASSUME ClaimsInv, TextInv, FilesInv, [RingNext]_ringVars, NewWriter' => FilesInv'
               PROVE  FilesInv'
    OBVIOUS
  <2>1. ASSUME UNCHANGED <<out, fileVars, starts>> PROVE FilesInv'
    BY <2>1 DEF FilesInv, fileVars, Own, Follows, IdsOfFiles
  <2>2. CASE Restart
    <3>1. starts' = starts + 1 /\ out' = <<>> /\ RollFile(files, 0)
      BY <2>2 DEF Restart, LoggerReset, Reopen
    <3>2. number' = 1 /\ written' = 0 /\ good' \in BOOLEAN
      <4>1. number' = 0 + 1 /\ written' = 0 /\ good' \in Opens
        BY <3>1 DEF RollFile
      <4>2. Opens \subseteq BOOLEAN
        BY DEF Opens
      <4> QED
        BY <4>1, <4>2
    <3>3. starts' \in Nat /\ files \in Seq(Seq(Entries)) /\ \A n \in 1..Len(files) : OneRun(files[n])
      BY <3>1 DEF FilesInv
    <3>4. CASE ~good'
      <4>1. files' = files
        BY <3>1, <3>4 DEF RollFile
      <4> QED
        BY <3>1, <3>2, <3>3, <3>4, <4>1 DEF NewWriter
    <3>5. CASE good'
      <4> DEFINE gs == PutFile(files, 1, <<>>)
      <4>1. files' = gs
        BY <3>1, <3>5 DEF RollFile
      <4>2. 1 \in Nat \ {0} /\ 1 <= Len(files) + 1
        BY <3>3
      <4>3. /\ gs \in Seq(Seq(Entries)) /\ Len(gs) >= 1 /\ gs[1] = <<>>
            /\ \A m \in 1..Len(gs) : m # 1 => m \in 1..Len(files) /\ gs[m] = files[m]
        BY <3>3, <4>2, PutFileSound
      <4> HIDE DEF gs
      <4>4. \A n \in 1..Len(gs) : OneRun(gs[n])
        <5>1. OneRun(<<>>)
          BY DEF OneRun
        <5> QED
          BY <3>3, <4>3, <5>1
      <4> QED
        BY <3>1, <3>2, <3>3, <4>1, <4>3, <4>4 DEF NewWriter
    <3> QED
      BY <3>2, <3>4, <3>5
  <2>3. CASE PopLoop
    <3>1. starts' = starts
      BY <2>3 DEF PopLoop, downVars
    <3>2. CASE Take
      BY <3>1, <3>2, TakeFiles
    <3>3. CASE SeeShutdown \/ EndDrain
      BY <2>1, <3>1, <3>3 DEF SeeShutdown, EndDrain
    <3> QED
      BY <2>3, <3>2, <3>3 DEF PopLoop
  <2>4. CASE SetLogLevel \/ Shutdown \/ UNCHANGED ringVars
    BY <2>1, <2>4 DEF SetLogLevel, Shutdown, ringVars, popVars, downVars
  <2>5. ASSUME NEW p \in Producer, Push(p) PROVE FilesInv'
    BY <2>1, <2>5 DEF Push, popVars, downVars
  <2> QED
    BY <2>2, <2>3, <2>4, <2>5 DEF RingNext
<1> QED
  BY <1>1, <1>2, NewWriterFiles, ClaimsInvariant, TextInvariant, PTL DEF RingSpec

(* No file mixes lines of two runs.                                        *)
THEOREM RunsNotMixedCorrect == RingSpec => []RunsNotMixed
<1>1. ASSUME FilesInv PROVE RunsNotMixed
  <2>1. files \in Seq(Seq(Entries))
    BY <1>1 DEF FilesInv
  <2>2. DOMAIN files = 1..Len(files) /\ \A n \in DOMAIN files : files[n] \in Seq(Entries)
    BY <2>1
  <2>3. \A file \in Seq(Entries) : DOMAIN file = 1..Len(file)
    OBVIOUS
  <2>4. \A n \in DOMAIN files : DOMAIN files[n] = 1..Len(files[n])
    BY <2>2, <2>3
  <2>5. \A n \in DOMAIN files : OneRun(files[n])
    BY <1>1, <2>2 DEF FilesInv
  <2> QED
    BY <2>4, <2>5 DEF OneRun, RunsNotMixed
<1> QED
  BY <1>1, FilesInvariant, PTL

(* A file is closed with the line that brings it over the limit.           *)
THEOREM RollsInTimeCorrect == RingSpec => []RollsInTime
<1>1. ASSUME FilesInv PROVE RollsInTime
  <2>1. number \in Nat \ {0}
    BY <1>1 DEF FilesInv
  <2>2. /\ \A n \in 1..number : n < number => n \in 1..(number - 1)
        /\ \A n \in 1..number : ~(n < number) => n = number
    <3>1. number \in Nat
      BY <2>1
    <3> QED
      BY <3>1
  <2>3. \A n \in 1..(number - 1) : Full(files[n])
    BY <1>1 DEF FilesInv
  <2>4. good => FileBytes(files[number]) <= RollBytes
    BY <1>1 DEF FilesInv
  <2> QED
    BY <2>2, <2>3, <2>4 DEF Full, RollsInTime
<1> QED
  BY <1>1, FilesInvariant, PTL

(* The files hold the lines taken, in order and without a gap, up to where *)
(* the stream failed.                                                      *)
THEOREM FilesFollowReaderCorrect == RingSpec => []FilesFollowReader
<1>1. ASSUME ClaimsInv, FilesInv PROVE FilesFollowReader
  <2> DEFINE all == IdsOfFiles(files, Own)
             taken == [i \in DOMAIN out |-> <<starts, out[i].id>>]
             Taking == [id : Ids, text : Texts]
  <2>1. out \in Seq(Taking)
    BY <1>1 DEF ClaimsInv, RingShape
  <2>2. files \in Seq(Seq(Entries)) /\ Own <= Len(files) /\ Own \in Nat
    BY <1>1 DEF FilesInv, Own
  <2>3. all \in Seq(Runs)
    <3>1. CASE Own = 0
      <4>1. IdsOfFiles(files, 0) = <<>> /\ <<>> \in Seq(Runs)
        BY <2>2, IdsOfNone
      <4> QED
        BY <3>1, <4>1
    <3>2. CASE Own # 0
      <4> DEFINE k == Own - 1
      <4>1. k \in Nat /\ k < Len(files) /\ k + 1 = Own
        BY <2>2, <3>2
      <4> HIDE DEF k
      <4>2. /\ IdsOfFiles(files, k) \in Seq(Runs)
            /\ IdsOfFiles(files, k + 1) = IdsOfFiles(files, k) \o EntriesOf(files[k + 1])
            /\ EntriesOf(files[k + 1]) \in Seq(Runs)
        BY <2>2, <4>1, IdsOfOneMore
      <4>3. \A s, t \in Seq(Runs) : s \o t \in Seq(Runs)
        OBVIOUS
      <4> QED
        BY <4>1, <4>2, <4>3
    <3> QED
      BY <3>1, <3>2
  <2>4. /\ Len(all) <= Len(out) /\ (good => Len(all) = Len(out))
        /\ \A i \in 1..Len(all) : all[i] = <<starts, out[i].id>>
    BY <1>1 DEF FilesInv, Follows
  <2> HIDE DEF all, Taking
  <2>5. DOMAIN out = 1..Len(out) /\ Len(out) \in Nat /\ Len(all) \in Nat /\ DOMAIN all = 1..Len(all)
    BY <2>1, <2>3
  <2>6. /\ taken \in Seq(Runs) /\ Len(taken) = Len(out)
        /\ \A i \in 1..Len(out) : taken[i] = <<starts, out[i].id>>
    <3>1. \A i \in 1..Len(out) : <<starts, out[i].id>> \in Runs
      <4>1. starts \in Nat
        BY <1>1 DEF FilesInv
      <4>2. \A i \in 1..Len(out) : out[i].id \in Ids
        BY <1>1, IdsAreIds DEF ClaimsInv
      <4> QED
        BY <4>1, <4>2 DEF Runs
    <3> QED
      BY <2>5, <3>1
  <2> HIDE DEF taken
  <2>7. all = SubSeq(taken, 1, Len(all))
    <3>1. Len(all) \in Nat /\ Len(out) \in Nat /\ Len(all) <= Len(out)
      BY <2>4, <2>5
    <3>2. \A q \in Seq(Runs) : \A m \in Nat :
            m <= Len(q) => SubSeq(q, 1, m) = [i \in 1..m |-> q[i]]
      OBVIOUS
    <3>3. SubSeq(taken, 1, Len(all)) = [i \in 1..Len(all) |-> taken[i]]
      BY <2>6, <3>1, <3>2
    <3>4. \A i \in 1..Len(all) : i \in 1..Len(out)
      BY <3>1
    <3>5. \A i \in 1..Len(all) : all[i] = taken[i]
      BY <2>4, <2>6, <3>4
    <3> QED
      BY SMTT(20), <2>3, <2>5, <3>3, <3>5
  <2>8. all = Concatenated([n \in 1..Own |-> EntriesOf(files[n])])
    BY DEF all, IdsOfFiles
  <2> QED
    BY <2>4, <2>6, <2>7, <2>8 DEF FilesFollowReader, Own, taken
<1> QED
  BY <1>1, ClaimsInvariant, FilesInvariant, PTL
=============================================================================
