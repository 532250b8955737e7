--------------------------- MODULE SessionProofs ---------------------------
(***************************************************************************)
(* Theorems about Session, for every set of connections, every stream and  *)
(* every size of the buffer.  SessionInv is the inductive invariant.       *)
(***************************************************************************)
EXTENDS Session, SequenceFoldsProofs, SequenceTheorems, FiniteSetTheorems, TLAPS

(* Trimming a string that is not all blank cuts leading blanks only.       *)
LEMMA TrimProperties ==
  ASSUME NEW s \in Session, NEW S, NEW q \in Seq(S),
         NEW n \in 1..Len(q), ~IsBlank(s, q[n])
  PROVE  \E k \in 1..n : /\ Trim(s, q) = SubSeq(q, k, Len(q))
                         /\ ~IsBlank(s, q[k])
                         /\ \A j \in 1..(k - 1) : IsBlank(s, q[j])
<1> DEFINE First(i) == /\ ~IsBlank(s, q[i])
                       /\ \A j \in 1..(i - 1) : IsBlank(s, q[j])
           T == {i \in 1..Len(q) : ~IsBlank(s, q[i])}
<1>0. Len(q) \in Nat
  OBVIOUS
<1>1. PICK x \in T : \A y \in T : x <= y
  <2>1. T \subseteq Nat /\ T # {}
    BY <1>0
  <2> QED  BY <2>1, LeastNumber
<1>2. x \in 1..Len(q) /\ First(x)
  BY <1>0, <1>1
<1>3. \E k \in 1..Len(q) : k = (CHOOSE i \in 1..Len(q) : First(i)) /\ First(k)
  BY <1>2
<1>4. PICK k \in 1..Len(q) : k = (CHOOSE i \in 1..Len(q) : First(i)) /\ First(k)
  BY <1>3
<1>5. k <= n
  BY SMTT(20), <1>0, <1>4
<1>6. Trim(s, q) = SubSeq(q, k, Len(q))
  BY <1>4 DEF Trim
<1>7. k \in 1..n
  BY <1>0, <1>5
<1>8. /\ ~IsBlank(s, q[k])
      /\ \A j \in 1..(k - 1) : IsBlank(s, q[j])
  BY <1>4
<1> HIDE DEF First, T
<1> QED  BY <1>6, <1>7, <1>8

-----------------------------------------------------------------------------
(* What a read handler has just been given: its leftover, then the cells   *)
(* from position p on.                                                     *)
LEMMA NewCells ==
  ASSUME NEW p \in Nat, NEW n \in Nat, NEW q \in Seq(1..p)
  PROVE  LET r == q \o [i \in 1..n |-> p + i]
         IN  /\ r \in Seq(1..(p + n))
             /\ Len(r) = Len(q) + n
             /\ \A k \in 1..Len(q) : r[k] = q[k]
             /\ \A k \in (Len(q) + 1)..(Len(q) + n) : r[k] = p + (k - Len(q))
<1> DEFINE new == [i \in 1..n |-> p + i]
<1>1. new \in [1..n -> 1..(p + n)]
  OBVIOUS
<1>2. new \in Seq(1..(p + n)) /\ Len(new) = n
  BY <1>1, SeqDef
<1>3. q \in Seq(1..(p + n))
  <2>1. 1..p \subseteq 1..(p + n)
    OBVIOUS
  <2> QED  BY <2>1, SeqMonotonic
<1>4. Len(q) \in Nat
  OBVIOUS
<1>5. /\ q \o new \in Seq(1..(p + n))
      /\ Len(q \o new) = Len(q) + n
      /\ \A i \in 1..(Len(q) + n) :
           (q \o new)[i] = IF i <= Len(q) THEN q[i] ELSE new[i - Len(q)]
  BY <1>2, <1>3, ConcatProperties
<1>6. ASSUME NEW k \in (Len(q) + 1)..(Len(q) + n)
      PROVE  (q \o new)[k] = p + (k - Len(q))
  <2>1. k \in 1..(Len(q) + n) /\ ~(k <= Len(q)) /\ k - Len(q) \in 1..n
    BY <1>4
  <2> QED  BY <1>5, <2>1
<1>7. ASSUME NEW k \in 1..Len(q)
      PROVE  (q \o new)[k] = q[k]
  BY <1>4, <1>5
<1> HIDE DEF new
<1> QED  BY <1>5, <1>6, <1>7 DEF new

(* The copied prefix ends with the k-th cell of rest.                      *)
LEMMA FilledProperties ==
  ASSUME NEW s \in Session, NEW S, buff[s] \in Seq(S), rest \in Seq(S),
         NEW k \in 0..Len(rest)
  PROVE  /\ Filled(s, k) \in Seq(S)
         /\ Len(Filled(s, k)) = Len(buff[s]) + k
         /\ \A i \in 1..Len(buff[s]) : Filled(s, k)[i] = buff[s][i]
         /\ \A i \in 1..k : Filled(s, k)[Len(buff[s]) + i] = rest[i]
<1> DEFINE head == SubSeq(rest, 1, k)
<1>0. Len(rest) \in Nat /\ Len(buff[s]) \in Nat /\ k \in Nat
  OBVIOUS
<1>1. /\ head \in Seq(S)
      /\ Len(head) = k
      /\ \A i \in 1..k : head[i] = rest[i]
  <2>1. \A i \in 1..k : rest[i] \in S
    BY <1>0, ElementOfSeq
  <2> QED  BY <1>0, <2>1, SubSeqProperties
<1> HIDE DEF head
<1>2. /\ buff[s] \o head \in Seq(S)
      /\ Len(buff[s] \o head) = Len(buff[s]) + k
      /\ \A i \in 1..(Len(buff[s]) + k) :
           (buff[s] \o head)[i]
             = IF i <= Len(buff[s]) THEN buff[s][i] ELSE head[i - Len(buff[s])]
  BY ZenonT(30), <1>1, ConcatProperties
<1>3. Filled(s, k) = buff[s] \o head
  BY DEF Filled, head
<1>4. ASSUME NEW i \in 1..k
      PROVE  Filled(s, k)[Len(buff[s]) + i] = rest[i]
  <2>1. /\ Len(buff[s]) + i \in 1..(Len(buff[s]) + k)
        /\ ~(Len(buff[s]) + i <= Len(buff[s]))
        /\ (Len(buff[s]) + i) - Len(buff[s]) = i
    BY <1>0
  <2> QED  BY <1>1, <1>2, <1>3, <2>1
<1> QED  BY <1>0, <1>2, <1>3, <1>4

-----------------------------------------------------------------------------
(* The leftover ends with the stream up to p, so leftover and new cells    *)
(* end with the stream up to p + n: what the copied prefix repeats comes   *)
(* before.                                                                 *)
LEMMA ReadKeepsStream ==
  ASSUME NEW p \in Nat, NEW n \in Nat, NEW d \in 0..p, NEW q \in Seq(1..p),
         EndsWith(q, d, p)
  PROVE  EndsWith(q \o [i \in 1..n |-> p + i], d, p + n)
<1> DEFINE r == q \o [i \in 1..n |-> p + i]
<1>0. Len(q) \in Nat
  OBVIOUS
<1>1. /\ Len(r) = Len(q) + n
      /\ \A k \in 1..Len(q) : r[k] = q[k]
      /\ \A k \in (Len(q) + 1)..(Len(q) + n) : r[k] = p + (k - Len(q))
  BY NewCells
<1> HIDE DEF r
<1>2. ASSUME NEW i \in (d + 1)..(p + n)
      PROVE  (p + n) - i < Len(r) /\ r[Len(r) - ((p + n) - i)] = i
  <2>1. CASE i <= p
    <3>1. i \in (d + 1)..p
      BY <2>1
    <3>2. p - i < Len(q) /\ q[Len(q) - (p - i)] = i
      BY <3>1 DEF EndsWith
    <3>3. /\ Len(q) - (p - i) \in 1..Len(q)
          /\ Len(r) - ((p + n) - i) = Len(q) - (p - i)
      BY <1>0, <1>1, <2>1, <3>2
    <3>4. (p + n) - i < Len(r)
      BY <1>0, <1>1, <3>2
    <3> QED  BY <1>1, <3>2, <3>3, <3>4
  <2>2. CASE ~(i <= p)
    <3>1. Len(r) - ((p + n) - i) = Len(q) + (i - p)
      BY <1>0, <1>1
    <3>2. Len(q) + (i - p) \in (Len(q) + 1)..(Len(q) + n)
      BY <1>0, <2>2
    <3>3. r[Len(q) + (i - p)] = p + ((Len(q) + (i - p)) - Len(q))
      BY <1>1, <3>2
    <3>4. p + ((Len(q) + (i - p)) - Len(q)) = i
      BY <1>0
    <3>5. (p + n) - i < Len(r)
      BY <1>0, <1>1, <2>2
    <3> QED  BY <3>1, <3>3, <3>4, <3>5
  <2> QED  BY <2>1, <2>2
<1> QED  BY <1>2 DEF EndsWith, r

(* The copying meets the next ')' of the stream first, and leaves the      *)
(* stream after it.                                                        *)
LEMMA FirstCloseIsNext ==
  ASSUME NEW s \in Session, NEW p \in Nat, NEW d \in 0..p,
         NEW r \in Seq(1..p), EndsWith(r, d, p), NewCloses(s, r, d),
         NEW k \in 1..Len(r), FirstCloseAt(s, r, k)
  PROVE  /\ r[k] \in (d + 1)..p
         /\ \A c \in (d + 1)..r[k] : IsClose(s, c) => c = r[k]
         /\ Len(r) - k = p - r[k]
<1>0. Len(r) \in Nat /\ k \in Nat
  OBVIOUS
<1>1. IsClose(s, r[k]) /\ \A j \in 1..(k - 1) : ~IsClose(s, r[j])
  BY DEF FirstCloseAt
<1>2. r[k] \in (d + 1)..p
  <2>1. r[k] \in 1..p
    OBVIOUS
  <2>2. d < r[k]
    BY <1>1 DEF NewCloses
  <2> QED  BY <2>1, <2>2
<1>3. ASSUME NEW c \in (d + 1)..r[k], IsClose(s, c)
      PROVE  c = r[k] /\ Len(r) - k = p - c
  <2> DEFINE m == Len(r) - (p - c)
  <2>1. c \in (d + 1)..p
    BY <1>2
  <2>2. p - c < Len(r) /\ r[m] = c
    BY <2>1 DEF EndsWith
  <2>3. m \in 1..Len(r)
    BY <1>0, <2>1, <2>2
  <2>4. ~(m < k)
    <3>1. SUFFICES ASSUME m < k PROVE FALSE
      OBVIOUS
    <3>2. m \in 1..(k - 1)
      BY <1>0, <2>3, <3>1
    <3> QED  BY <1>1, <1>3, <2>2, <3>2
  <2>5. ~(k < m)
    <3>1. SUFFICES ASSUME k < m PROVE FALSE
      OBVIOUS
    <3>2. k \in 1..(m - 1)
      BY <1>0, <2>3, <3>1
    <3>3. r[k] < r[m]
      BY <1>1, <1>3, <2>2, <2>3, <3>2 DEF NewCloses
    <3>4. c <= r[k] /\ c \in Int /\ r[k] \in Int
      BY <1>2
    <3> QED  BY <2>2, <3>3, <3>4
  <2>6. m = k
    <3>1. m \in Int /\ k \in Int
      BY <1>0, <2>3
    <3> HIDE DEF m
    <3> QED  BY ONLY <2>4, <2>5, <3>1
  <2> QED  BY <1>0, <2>1, <2>2, <2>6
<1>4. Len(r) - k = p - r[k]
  <2>1. r[k] \in (d + 1)..r[k]
    BY <1>2
  <2> QED  BY <1>1, <1>3, <2>1
<1> QED  BY <1>2, <1>3, <1>4

(* What the loop leaves behind a frame ends with the stream after it.      *)
LEMMA TakeKeepsStream ==
  ASSUME NEW s \in Session, NEW p \in Nat, NEW d \in 0..p,
         NEW r \in Seq(1..p), EndsWith(r, d, p), NewCloses(s, r, d),
         NEW k \in 1..Len(r), FirstCloseAt(s, r, k)
  PROVE  LET t == SubSeq(r, k + 1, Len(r))
         IN  /\ t \in Seq(1..p)
             /\ EndsWith(t, r[k], p)
             /\ NewCloses(s, t, r[k])
<1> DEFINE t == SubSeq(r, k + 1, Len(r))
<1>0. Len(r) \in Nat /\ k \in Nat
  OBVIOUS
<1>1. /\ t \in Seq(1..p)
      /\ Len(t) = Len(r) - k
      /\ \A j \in 1..(Len(r) - k) : t[j] = r[k + j]
  <2>1. \A j \in (k + 1)..Len(r) : r[j] \in 1..p
    BY <1>0, ElementOfSeq
  <2>2. /\ t \in Seq(1..p)
        /\ Len(t) = IF k + 1 <= Len(r) THEN Len(r) - (k + 1) + 1 ELSE 0
        /\ \A j \in 1..(Len(r) - (k + 1) + 1) : t[j] = r[(k + 1) + j - 1]
    BY <1>0, <2>1, SubSeqProperties
  <2> HIDE DEF t
  <2> QED  BY <1>0, <2>2
<1> HIDE DEF t
<1>2. r[k] \in (d + 1)..p /\ Len(r) - k = p - r[k] /\ IsClose(s, r[k])
  BY FirstCloseIsNext DEF FirstCloseAt
<1>3. ASSUME NEW i \in (r[k] + 1)..p
      PROVE  p - i < Len(t) /\ t[Len(t) - (p - i)] = i
  <2>1. i \in (d + 1)..p /\ p - i < Len(t)
    <3>1. PICK e : e = r[k]
      OBVIOUS
    <3>2. /\ e \in (d + 1)..p /\ i \in (e + 1)..p /\ Len(t) = p - e
          /\ d \in Int /\ p \in Int
      BY <1>1, <1>2, <3>1
    <3> QED  BY ONLY <3>2
  <2>2. r[Len(r) - (p - i)] = i
    BY <2>1 DEF EndsWith
  <2>3. /\ Len(t) - (p - i) \in 1..(Len(r) - k)
        /\ k + (Len(t) - (p - i)) = Len(r) - (p - i)
    BY <1>0, <1>1, <1>2, <2>1
  <2> QED  BY <1>1, <2>1, <2>2, <2>3
<1>4. ASSUME NEW j \in 1..Len(t), IsClose(s, t[j])
      PROVE  /\ r[k] < t[j]
             /\ \A i \in 1..(j - 1) : IsClose(s, t[i]) => t[i] < t[j]
  <2>1. t[j] = r[k + j] /\ k + j \in 1..Len(r) /\ k \in 1..((k + j) - 1)
    BY <1>0, <1>1
  <2>2. \A i \in 1..((k + j) - 1) : IsClose(s, r[i]) => r[i] < r[k + j]
    BY <1>4, <2>1 DEF NewCloses
  <2>3. r[k] < t[j]
    BY <1>2, <2>1, <2>2
  <2>4. ASSUME NEW i \in 1..(j - 1), IsClose(s, t[i])
        PROVE  t[i] < t[j]
    <3>1. Len(t) \in Int /\ j \in Int /\ j <= Len(t)
      BY <1>0, <1>1
    <3>2. i \in 1..(Len(r) - k)
      BY <1>0, <1>1, <3>1
    <3>3. k + i \in 1..((k + j) - 1)
      BY <1>0, <3>1
    <3> QED  BY <1>1, <2>1, <2>2, <2>4, <3>2, <3>3
  <2> QED  BY <2>3, <2>4
<1> QED  BY <1>1, <1>3, <1>4 DEF EndsWith, NewCloses, t

(* Putting text before a string does not change how it ends.               *)
LEMMA PrefixKeepsEnd ==
  ASSUME NEW p \in Nat, NEW d \in 0..p, NEW q \in Seq(1..p), NEW r \in Seq(1..p),
         EndsWith(r, d, p)
  PROVE  EndsWith(q \o r, d, p)
<1> DEFINE f == q \o r
<1>0. Len(r) \in Nat /\ Len(q) \in Nat
  OBVIOUS
<1>1. /\ Len(f) = Len(q) + Len(r)
      /\ \A i \in 1..Len(q) + Len(r) :
           f[i] = IF i <= Len(q) THEN q[i] ELSE r[i - Len(q)]
  BY ConcatProperties
<1> HIDE DEF f
<1>2. ASSUME NEW i \in (d + 1)..p
      PROVE  p - i < Len(f) /\ f[Len(f) - (p - i)] = i
  <2>1. p - i < Len(r) /\ r[Len(r) - (p - i)] = i
    BY DEF EndsWith
  <2>2. /\ p - i < Len(f)
        /\ Len(f) - (p - i) \in 1..(Len(q) + Len(r))
        /\ ~(Len(f) - (p - i) <= Len(q))
        /\ (Len(f) - (p - i)) - Len(q) = Len(r) - (p - i)
    BY <1>0, <1>1, <2>1
  <2> QED  BY <1>1, <2>1, <2>2
<1> QED  BY <1>2 DEF EndsWith, f

-----------------------------------------------------------------------------
(* The string passed to gps->process is made of cells already read and     *)
(* ends with the ')' the loop has met.                                     *)
LEMMA FrameProperties ==
  ASSUME SessionTypeOK, NEW s \in Session, running = s,
         NEW k \in 1..Len(rest), FirstCloseAt(s, rest, k),
         NEW frame, frame = Trim(s, Filled(s, k))
  PROVE  /\ frame \in Seq(1..pos[s])
         /\ frame # <<>>
         /\ frame[Len(frame)] = rest[k]
<1> DEFINE q == Filled(s, k)
           S == 1..pos[s]
<1>0. /\ buff[s] \in Seq(S) /\ rest \in Seq(S)
      /\ Len(buff[s]) \in Nat /\ Len(rest) \in Nat
      /\ k \in 0..Len(rest) /\ k \in 1..k
  BY SessionAssumption DEF SessionTypeOK
<1>1. /\ q \in Seq(S)
      /\ Len(q) = Len(buff[s]) + k
      /\ \A i \in 1..k : q[Len(buff[s]) + i] = rest[i]
  BY <1>0, FilledProperties
<1> HIDE DEF q, S
<1>2. Len(q) \in 1..Len(q) /\ q[Len(q)] = rest[k]
  <2>1. q[Len(buff[s]) + k] = rest[k]
    BY <1>0, <1>1, Zenon
  <2>2. Len(buff[s]) + k \in 1..(Len(buff[s]) + k)
    BY <1>0
  <2> QED  BY <1>1, <2>1, <2>2, Zenon
<1>3. ~IsBlank(s, q[Len(q)])
  BY <1>2, SessionAssumption DEF FirstCloseAt, IsClose, IsBlank
<1>4. PICK j \in 1..Len(q) : Trim(s, q) = SubSeq(q, j, Len(q))
  BY <1>1, <1>2, <1>3, TrimProperties
<1>5. Len(q) \in Int /\ j \in Int /\ j <= Len(q)
  BY <1>0, <1>1
<1>6. \A i \in j..Len(q) : q[i] \in S
  <2>1. \A i \in j..Len(q) : i \in 1..Len(q)
    BY <1>5
  <2> QED  BY <1>1, <2>1, ElementOfSeq
<1>7. /\ SubSeq(q, j, Len(q)) \in Seq(S)
      /\ Len(SubSeq(q, j, Len(q))) = Len(q) - j + 1
      /\ \A i \in 1..(Len(q) - j + 1) : SubSeq(q, j, Len(q))[i] = q[j + i - 1]
  BY <1>5, <1>6, SubSeqProperties
<1>8. frame = SubSeq(q, j, Len(q))
  BY <1>4 DEF q
<1>9. /\ Len(frame) \in 1..(Len(q) - j + 1)
      /\ j + Len(frame) - 1 = Len(q)
  BY <1>5, <1>7, <1>8
<1>10. frame # <<>>
  BY <1>9
<1>11. frame[Len(frame)] = rest[k]
  BY <1>2, <1>7, <1>8, <1>9
<1> QED  BY <1>7, <1>8, <1>10, <1>11 DEF S

(* Sequences over the cells read so far remain so when more are read.      *)
LEMMA MoreRead ==
  ASSUME NEW p \in Nat, NEW n \in Nat
  PROVE  Seq(1..p) \subseteq Seq(1..(p + n)) /\ Seq(Seq(1..p)) \subseteq Seq(Seq(1..(p + n)))
<1>1. 1..p \subseteq 1..(p + n)
  OBVIOUS
<1>2. Seq(1..p) \subseteq Seq(1..(p + n))
  BY <1>1, SeqMonotonic
<1>3. Seq(Seq(1..p)) \subseteq Seq(Seq(1..(p + n)))
  BY <1>2, SeqMonotonic
<1> QED  BY <1>2, <1>3

(* Positions are natural numbers.                                          *)
LEMMA PositionsAreNumbers ==
  ASSUME NEW p \in Nat
  PROVE  Seq(1..p) \subseteq Seq(Nat) /\ Seq(Seq(1..p)) \subseteq Seq(Seq(Nat))
<1>1. 1..p \subseteq Nat
  OBVIOUS
<1>2. Seq(1..p) \subseteq Seq(Nat)
  BY <1>1, SeqMonotonic
<1>3. Seq(Seq(1..p)) \subseteq Seq(Seq(Nat))
  BY <1>2, SeqMonotonic
<1> QED  BY <1>2, <1>3

(* The initial state has its shape.                                        *)
LEMMA SessionInitTypeOK == SessionInit => SessionTypeOK
<1> SUFFICES ASSUME SessionInit PROVE SessionTypeOK
  OBVIOUS
<1>1. \A s \in Session : Len(Script[s]) \in Nat
  BY SessionAssumption
<1>2. Idle \notin Session
  BY SessionAssumption
<1>3. \A S : <<>> \in Seq(S)
  OBVIOUS
<1>4. /\ conn \in [Session -> {"none", "open", "gone", "closed"}]
      /\ pos \in [Session -> Nat]
      /\ buff \in [Session -> Seq(Nat)]
      /\ handled \in [Session -> Seq(Seq(Nat))]
      /\ pending \in [Session -> Seq(Reply)]
      /\ received \in [Session -> Seq(Reply \cup {Stale})]
  BY <1>3 DEF SessionInit
<1>5. ASSUME NEW s \in Session
      PROVE  /\ pos[s] <= Len(Script[s])
             /\ buff[s] \in Seq(1..pos[s])
             /\ handled[s] \in Seq(Seq(1..pos[s]))
  BY <1>1, <1>3 DEF SessionInit
<1> QED  BY <1>2, <1>4, <1>5 DEF SessionInit, SessionTypeOK

(* Every step keeps the shape of the state, one step per action.           *)
LEMMA SessionNextTypeOK ==
  SessionTypeOK /\ [SessionNext]_sessionVars => SessionTypeOK'
<1> SUFFICES ASSUME SessionTypeOK, [SessionNext]_sessionVars
             PROVE  SessionTypeOK'
  OBVIOUS
<1> USE SessionAssumption
<1>1. ASSUME NEW s \in Session, Accept(s)
      PROVE  SessionTypeOK'
  BY <1>1 DEF SessionTypeOK, Accept
<1>2. ASSUME NEW s \in Session, NEW n \in 1..(Len(Script[s]) - pos[s]), ReadSome(s, n)
      PROVE  SessionTypeOK'
  <2>0. /\ pos[s] \in Nat /\ n \in Nat /\ buff[s] \in Seq(1..pos[s])
        /\ Len(Script[s]) \in Nat
    BY DEF SessionTypeOK
  <2>1. pos' \in [Session -> Nat]
    BY <1>2, <2>0 DEF SessionTypeOK, ReadSome
  <2>2. pos'[s] = pos[s] + n /\ pos'[s] <= Len(Script[s])
    BY <1>2, <2>0 DEF SessionTypeOK, ReadSome
  <2>3. \A t \in Session : pos'[t] \in {pos[t], pos[t] + n} /\ pos[t] \in Nat
    BY <1>2 DEF SessionTypeOK, ReadSome
  <2>4. ASSUME NEW t \in Session
        PROVE  /\ pos'[t] <= Len(Script[t])
               /\ buff'[t] \in Seq(1..pos'[t])
               /\ handled'[t] \in Seq(Seq(1..pos'[t]))
    <3>1. /\ Seq(1..pos[t]) \subseteq Seq(1..pos'[t])
          /\ Seq(Seq(1..pos[t])) \subseteq Seq(Seq(1..pos'[t]))
      BY <2>0, <2>3, MoreRead
    <3>2. /\ buff'[t] \in Seq(1..pos[t])
          /\ handled'[t] \in Seq(Seq(1..pos[t]))
      BY <1>2 DEF SessionTypeOK, ReadSome
    <3>3. pos'[t] <= Len(Script[t])
      BY <1>2, <2>2 DEF SessionTypeOK, ReadSome
    <3> QED  BY <3>1, <3>2, <3>3
  <2>5. running' = s /\ rest' \in Seq(1..pos'[s])
    BY <1>2, <2>0, <2>2, NewCells DEF ReadSome
  <2> QED  BY <1>2, <2>1, <2>4, <2>5 DEF SessionTypeOK, ReadSome
<1>3. ASSUME NEW s \in Session, HangUp(s)
      PROVE  SessionTypeOK'
  BY <1>3 DEF SessionTypeOK, HangUp
<1>4. ASSUME NEW s \in Session, ReadError(s)
      PROVE  SessionTypeOK'
  BY <1>4 DEF SessionTypeOK, ReadError
<1>5. ASSUME NEW s \in Session, NEW frame, NEW reply \in Reply, TakeFrame(s, frame, reply)
      PROVE  SessionTypeOK'
  <2>0. /\ running = s /\ s # Idle /\ rest \in Seq(1..pos[s]) /\ pos[s] \in Nat
        /\ UNCHANGED <<conn, pos, running, overrun>>
    BY <1>5 DEF SessionTypeOK, TakeFrame
  <2>1. PICK k \in 1..Len(rest) : /\ FirstCloseAt(s, rest, k)
                                  /\ frame = Trim(s, Filled(s, k))
                                  /\ rest' = SubSeq(rest, k + 1, Len(rest))
    BY <1>5 DEF TakeFrame
  <2>2. frame \in Seq(1..pos[s])
    BY <2>0, <2>1, FrameProperties
  <2>3. rest' \in Seq(1..pos[s])
    <3>1. Len(rest) \in Int /\ k + 1 \in Int
      BY <2>0
    <3>2. \A j \in (k + 1)..Len(rest) : j \in 1..Len(rest)
      BY <3>1
    <3>3. \A j \in (k + 1)..Len(rest) : rest[j] \in 1..pos[s]
      BY <2>0, <3>2, ElementOfSeq
    <3> QED  BY <2>1, <3>1, <3>3, SubSeqProperties
  <2>4. /\ handled[s] \in Seq(Seq(1..pos[s]))
        /\ handled' = [handled EXCEPT ![s] = Append(handled[s], frame)]
        /\ buff' = [buff EXCEPT ![s] = <<>>]
    BY <1>5 DEF SessionTypeOK, TakeFrame
  <2>5. Append(handled[s], frame) \in Seq(Seq(1..pos[s]))
    BY <2>2, <2>4
  <2>6. /\ <<>> \in Seq(Nat)
        /\ Append(handled[s], frame) \in Seq(Seq(Nat))
    <3>1. Seq(Seq(1..pos[s])) \subseteq Seq(Seq(Nat))
      BY <2>0, PositionsAreNumbers
    <3>2. <<>> \in Seq(Nat)
      OBVIOUS
    <3> QED  BY <2>5, <3>1, <3>2
  <2>7. buff' \in [Session -> Seq(Nat)] /\ handled' \in [Session -> Seq(Seq(Nat))]
    BY <2>4, <2>6 DEF SessionTypeOK
  <2>8. ASSUME NEW t \in Session
        PROVE  /\ pos'[t] <= Len(Script[t])
               /\ buff'[t] \in Seq(1..pos'[t])
               /\ handled'[t] \in Seq(Seq(1..pos'[t]))
    <3>1. CASE t = s
      <4>1. buff'[t] = <<>> /\ handled'[t] = Append(handled[s], frame)
        BY <2>4, <3>1 DEF SessionTypeOK
      <4> QED  BY <2>0, <2>5, <3>1, <4>1 DEF SessionTypeOK
    <3>2. CASE t # s
      <4>1. buff'[t] = buff[t] /\ handled'[t] = handled[t]
        BY <2>4, <3>2 DEF SessionTypeOK
      <4> QED  BY <2>0, <4>1 DEF SessionTypeOK
    <3> QED  BY <3>1, <3>2
  <2>9. /\ pending' \in [Session -> Seq(Reply)]
        /\ received' \in [Session -> Seq(Reply \cup {Stale})]
    <3>1. /\ pending \in [Session -> Seq(Reply)]
          /\ received \in [Session -> Seq(Reply \cup {Stale})]
          /\ AsyncWrite(s, reply)
      BY <1>5 DEF SessionTypeOK, TakeFrame
    <3>2. /\ Append(pending[s], reply) \in Seq(Reply)
          /\ Append(received[s], reply) \in Seq(Reply \cup {Stale})
      BY <3>1
    <3> QED  BY ZenonT(30), <3>1, <3>2 DEF AsyncWrite
  <2>10. running' # Idle /\ running' \in Session
    BY <2>0
  <2>11. growth' \in [Session -> Nat]
    BY <1>5 DEF SessionTypeOK, TakeFrame
  <2> QED  BY <2>0, <2>3, <2>7, <2>8, <2>9, <2>10, <2>11 DEF SessionTypeOK
<1>6. ASSUME NEW s \in Session, FinishRead(s)
      PROVE  SessionTypeOK'
  <2>0. /\ running = s /\ rest \in Seq(1..pos[s]) /\ buff[s] \in Seq(1..pos[s])
        /\ pos[s] \in Nat /\ Len(rest) \in 0..Len(rest)
    BY <1>6 DEF SessionTypeOK, FinishRead
  <2>1. Filled(s, Len(rest)) \in Seq(1..pos[s])
    BY <2>0, FilledProperties
  <2>2. Filled(s, Len(rest)) \in Seq(Nat)
    BY <2>0, <2>1, PositionsAreNumbers
  <2>3. /\ buff' = [buff EXCEPT ![s] = Filled(s, Len(rest))]
        /\ rest' = <<>> /\ running' = Idle
        /\ UNCHANGED <<conn, pos, handled, pending, received, overrun>>
    BY <1>6 DEF FinishRead
  <2>4. buff' \in [Session -> Seq(Nat)]
    BY <2>2, <2>3 DEF SessionTypeOK
  <2>5. \A t \in Session : buff'[t] \in Seq(1..pos[t])
    BY <2>1, <2>3 DEF SessionTypeOK
  <2>6. growth' \in [Session -> Nat]
    BY <1>6 DEF SessionTypeOK, FinishRead
  <2> QED  BY <2>3, <2>4, <2>5, <2>6 DEF SessionTypeOK
<1>7. ASSUME NEW s \in Session, Overrun(s)
      PROVE  SessionTypeOK'
  BY <1>7 DEF SessionTypeOK, Overrun
<1>8. ASSUME NEW s \in Session, WriteDone(s)
      PROVE  SessionTypeOK'
  <2>1. /\ pending \in [Session -> Seq(Reply)]
        /\ received \in [Session -> Seq(Reply \cup {Stale})]
        /\ pending[s] # <<>>
    BY <1>8 DEF SessionTypeOK, WriteDone
  <2>2. Head(pending[s]) \in Reply /\ Tail(pending[s]) \in Seq(Reply)
    BY <2>1, HeadTailProperties
  <2>3. pending' \in [Session -> Seq(Reply)]
    BY <1>8, <2>1, <2>2 DEF WriteDone
  <2>4. received' \in [Session -> Seq(Reply \cup {Stale})]
    <3>1. \A bytes \in {Head(pending[s]), Stale} :
            Append(received[s], bytes) \in Seq(Reply \cup {Stale})
      BY <2>1, <2>2
    <3> QED  BY <1>8, <2>1, <3>1 DEF WriteDone
  <2> QED  BY <1>8, <2>3, <2>4 DEF SessionTypeOK, WriteDone
<1>9. CASE UNCHANGED sessionVars
  BY <1>9 DEF SessionTypeOK, sessionVars
<1> QED
  BY <1>1, <1>2, <1>3, <1>4, <1>5, <1>6, <1>7, <1>8, <1>9 DEF SessionNext

-----------------------------------------------------------------------------
(* The state of the sessions keeps its shape.                              *)
THEOREM SessionTypeCorrect == SessionSpec => []SessionTypeOK
BY SessionInitTypeOK, SessionNextTypeOK, PTL DEF SessionSpec

-----------------------------------------------------------------------------
(* The last processed ')' is a position already read, or 0.                *)
LEMMA DoneProperties ==
  ASSUME SessionTypeOK, FramesInOrder, NEW s \in Session
  PROVE  /\ Done(s) \in 0..pos[s]
         /\ \A i \in 1..Len(handled[s]) : EndOf(s, i) \in 1..Done(s)
<1>0. handled[s] \in Seq(Seq(1..pos[s])) /\ pos[s] \in Nat /\ Len(handled[s]) \in Nat
  BY DEF SessionTypeOK
<1>1. ASSUME NEW i \in 1..Len(handled[s])
      PROVE  EndOf(s, i) \in 1..pos[s]
  <2>1. handled[s][i] \in Seq(1..pos[s]) /\ handled[s][i] # <<>>
    BY <1>0, ElementOfSeq DEF FramesInOrder
  <2>2. Len(handled[s][i]) \in 1..Len(handled[s][i])
    BY <2>1, EmptySeq
  <2> QED  BY <2>1, <2>2, ElementOfSeq DEF EndOf, LastCell
<1>2. CASE handled[s] = <<>>
  BY <1>0, <1>2 DEF Done
<1>3. CASE handled[s] # <<>>
  <2> DEFINE l == Len(handled[s])
  <2>1. l \in 1..l /\ Done(s) = EndOf(s, l)
    BY <1>0, <1>3, EmptySeq DEF Done
  <2>2. ASSUME NEW i \in 1..l
        PROVE  EndOf(s, i) \in 1..Done(s)
    <3>1. i = l \/ i < l
      BY <1>0
    <3>2. i < l => EndOf(s, i) < EndOf(s, l)
      BY <2>1 DEF FramesInOrder
    <3>3. EndOf(s, i) \in 1..pos[s] /\ EndOf(s, l) \in 1..pos[s]
      BY <1>1, <2>1
    <3> QED  BY <1>0, <2>1, <3>1, <3>2, <3>3
  <2>3. Done(s) \in 1..pos[s]
    BY <1>1, <2>1
  <2> QED  BY <1>0, <2>2, <2>3
<1> QED  BY <1>2, <1>3

(* The parts of the invariant that the buffers and the frames decide.      *)
FrameInv == /\ FramesInOrder
            /\ NothingLost
            /\ BuffHasNoClose
            /\ ClosesAhead
            /\ ClosesBehind

(* A read keeps the invariant: the ')' it brings are new.                  *)
LEMMA ReadSomeInv ==
  ASSUME SessionTypeOK, FrameInv, NEW s \in Session,
         NEW n \in 1..(Len(Script[s]) - pos[s]), ReadSome(s, n)
  PROVE  FrameInv'
<1> USE SessionAssumption DEF FrameInv
<1> DEFINE r == buff[s] \o [i \in 1..n |-> pos[s] + i]
<1>0. /\ running = Idle /\ running' = s /\ s # Idle /\ rest' = r
      /\ pos' = [pos EXCEPT ![s] = pos[s] + n]
      /\ UNCHANGED <<buff, handled>>
  BY DEF ReadSome
<1>1. /\ pos[s] \in Nat /\ n \in Nat /\ n >= 1 /\ buff[s] \in Seq(1..pos[s])
      /\ Len(Script[s]) \in Nat /\ Len(buff[s]) \in Nat
      /\ pos'[s] = pos[s] + n
      /\ \A t \in Session : t # s => pos'[t] = pos[t]
  BY <1>0 DEF SessionTypeOK
<1>2. /\ Len(r) = Len(buff[s]) + n
      /\ \A k \in 1..Len(buff[s]) : r[k] = buff[s][k]
      /\ \A k \in (Len(buff[s]) + 1)..(Len(buff[s]) + n) :
            r[k] = pos[s] + (k - Len(buff[s]))
  <2>1. /\ pos[s] \in Nat
        /\ n \in Nat
        /\ buff[s] \in Seq(1..pos[s])
    BY <1>1
  <2> QED  BY ONLY ZenonT(30), <2>1, NewCells
<1>3. Done(s) \in 0..pos[s]
  BY DoneProperties
<1>4. \A t \in Session : Done(t)' = Done(t)
  BY <1>0 DEF Done, EndOf
<1>5. FramesInOrder'
  BY <1>0 DEF FramesInOrder, EndOf
<1>6. NothingLost'
  <2>1. EndsWith(r, Done(s), pos[s] + n)
    <3>1. InHand(s) = buff[s]
      BY <1>0 DEF InHand
    <3>2. EndsWith(buff[s], Done(s), pos[s])
      BY <3>1 DEF NothingLost
    <3> QED  BY <1>1, <1>3, <3>2, ReadKeepsStream
  <2> HIDE DEF r
  <2>2. ASSUME NEW t \in Session
        PROVE  EndsWith(InHand(t)', Done(t)', pos'[t])
    <3>1. CASE t = s
      BY <1>0, <1>1, <1>4, <2>1, <3>1 DEF InHand
    <3>2. CASE t # s
      <4>1. InHand(t)' = buff[t] /\ InHand(t) = buff[t]
        BY <1>0, <3>2 DEF InHand
      <4> QED  BY <1>1, <1>4, <3>2, <4>1 DEF NothingLost
    <3> QED  BY <3>1, <3>2
  <2> QED  BY <2>2 DEF NothingLost, EndsWith
<1>7. BuffHasNoClose'
  BY <1>0 DEF BuffHasNoClose, IsClose
<1> HIDE DEF r
<1>8. ClosesAhead'
  <2>1. ASSUME NEW k \in 1..Len(r), IsClose(s, r[k])
        PROVE  k \in (Len(buff[s]) + 1)..(Len(buff[s]) + n)
    <3>1. k \in 1..Len(buff[s]) => ~IsClose(s, r[k])
      BY <1>2 DEF BuffHasNoClose
    <3> QED  BY <1>1, <1>2, <2>1, <3>1
  <2>2. ASSUME NEW k \in 1..Len(r), IsClose(s, r[k])
        PROVE  /\ Done(s) < r[k]
               /\ \A j \in 1..(k - 1) : IsClose(s, r[j]) => r[j] < r[k]
    <3>1. k \in (Len(buff[s]) + 1)..(Len(buff[s]) + n)
      BY <2>1, <2>2
    <3>2. r[k] = pos[s] + (k - Len(buff[s]))
      BY <1>2, <3>1
    <3>3. Done(s) < r[k]
      <4>1. pos[s] \in Nat /\ Len(buff[s]) \in Nat /\ n \in Nat
        BY <1>1
      <4> QED  BY ONLY <1>3, <3>1, <3>2, <4>1
    <3>4. ASSUME NEW j \in 1..(k - 1), IsClose(s, r[j])
          PROVE  r[j] < r[k]
      <4>1. j \in 1..Len(r)
        BY <1>1, <1>2
      <4>2. j \in (Len(buff[s]) + 1)..(Len(buff[s]) + n)
        BY <2>1, <3>4, <4>1
      <4>3. r[j] = pos[s] + (j - Len(buff[s]))
        BY <1>2, <4>2
      <4>4. pos[s] \in Int /\ Len(buff[s]) \in Int /\ k \in Int /\ j \in 1..(k - 1)
        BY <1>1, <3>1
      <4> QED  BY ONLY <3>2, <4>3, <4>4
    <3> QED  BY <3>3, <3>4
  <2>3. NewCloses(s, r, Done(s))
    BY <2>2 DEF NewCloses
  <2> QED  BY <1>0, <1>4, <2>3 DEF ClosesAhead, NewCloses, IsClose
<1>9. ClosesBehind'
  <2>1. \A t \in Session : \A i : IsHandled(t, i)' = IsHandled(t, i)
    BY <1>0 DEF IsHandled, EndOf
  <2> QED  BY <1>4, <2>1 DEF ClosesBehind, IsClose
<1> QED  BY <1>5, <1>6, <1>7, <1>8, <1>9

(* Taking a frame keeps the invariant: its ')' is the next of the stream.  *)
LEMMA TakeFrameInv ==
  ASSUME SessionTypeOK, FrameInv, NEW s \in Session, NEW frame, NEW reply,
         TakeFrame(s, frame, reply)
  PROVE  FrameInv'
<1> USE SessionAssumption
<1>0. /\ running = s /\ running' = s /\ s # Idle /\ pos' = pos
      /\ buff' = [buff EXCEPT ![s] = <<>>]
      /\ handled' = [handled EXCEPT ![s] = Append(handled[s], frame)]
      /\ buff \in [Session -> Seq(Nat)] /\ handled \in [Session -> Seq(Seq(Nat))]
      /\ rest \in Seq(1..pos[s]) /\ pos[s] \in Nat
  BY DEF TakeFrame, SessionTypeOK
<1>1. PICK k \in 1..Len(rest) : /\ FirstCloseAt(s, rest, k)
                                /\ frame = Trim(s, Filled(s, k))
                                /\ rest' = SubSeq(rest, k + 1, Len(rest))
  BY DEF TakeFrame
<1>2. PICK e : e = rest[k]
  OBVIOUS
<1>3. PICK l \in Nat : l = Len(handled[s])
  BY <1>0
<1>4. PICK d : d = Done(s)
  OBVIOUS
<1>5. frame # <<>> /\ LastCell(frame) = e /\ frame \in Seq(1..pos[s])
  BY <1>0, <1>1, <1>2, FrameProperties DEF LastCell
<1>6. /\ Len(handled'[s]) = l + 1
      /\ handled'[s][l + 1] = frame
      /\ \A i \in 1..l : handled'[s][i] = handled[s][i]
      /\ buff'[s] = <<>>
      /\ \A t \in Session : t # s => handled'[t] = handled[t] /\ buff'[t] = buff[t]
  BY <1>0, <1>3
<1>7. /\ d \in 0..pos[s]
      /\ \A i \in 1..l : LastCell(handled[s][i]) \in 1..d
  BY <1>3, <1>4, DoneProperties DEF EndOf, FrameInv
<1>8. /\ EndsWith(rest, d, pos[s])
      /\ NewCloses(s, rest, d)
  BY <1>0, <1>4 DEF FrameInv, NothingLost, InHand, ClosesAhead
<1>9. /\ e \in (d + 1)..pos[s]
      /\ IsClose(s, e)
      /\ \A c \in (d + 1)..e : IsClose(s, c) => c = e
      /\ EndsWith(rest', e, pos[s])
      /\ NewCloses(s, rest', e)
  BY ZenonT(30), <1>0, <1>1, <1>2, <1>7, <1>8, FirstCloseIsNext, TakeKeepsStream DEF FirstCloseAt
<1>10. Done(s)' = e
  <2>1. handled'[s] # <<>>
    <3>1. Len(handled'[s]) # 0
      BY <1>6
    <3> QED  BY <3>1
  <2> QED  BY <1>5, <1>6, <2>1 DEF Done, EndOf
<1>11. \A t \in Session : t # s => Done(t)' = Done(t)
  BY <1>6 DEF Done, EndOf
<1>12. FramesInOrder'
  <2>1. ASSUME NEW t \in Session, NEW i \in 1..Len(handled'[t])
        PROVE  handled'[t][i] # <<>> /\ IsClose(t, LastCell(handled'[t][i]))
    <3>1. CASE t # s
      BY <1>6, <3>1 DEF FrameInv, FramesInOrder, EndOf
    <3>2. CASE t = s /\ i \in 1..l
      BY <1>3, <1>6, <3>2 DEF FrameInv, FramesInOrder, EndOf
    <3>3. CASE t = s /\ i = l + 1
      BY <1>5, <1>6, <1>9, <3>3
    <3>4. t = s => i \in 1..l \/ i = l + 1
      BY <1>6
    <3> QED  BY <3>1, <3>2, <3>3, <3>4
  <2>2. ASSUME NEW t \in Session, NEW i \in 1..Len(handled'[t]),
               NEW j \in 1..Len(handled'[t]), i < j
        PROVE  LastCell(handled'[t][i]) < LastCell(handled'[t][j])
    <3>1. CASE t # s
      BY <1>6, <2>2, <3>1 DEF FrameInv, FramesInOrder, EndOf
    <3>2. CASE t = s /\ j \in 1..l
      <4>1. i \in 1..l
        BY <1>6, <2>2, <3>2
      <4> QED  BY <1>3, <1>6, <2>2, <3>2, <4>1 DEF FrameInv, FramesInOrder, EndOf
    <3>3. CASE t = s /\ j = l + 1
      <4>1. i \in 1..l
        BY <1>6, <2>2, <3>3
      <4>2. LastCell(handled[s][i]) < e
        BY <1>7, <1>9, <4>1
      <4> QED  BY <1>5, <1>6, <3>3, <4>1, <4>2
    <3>4. t = s => j \in 1..l \/ j = l + 1
      BY <1>6
    <3> QED  BY <3>1, <3>2, <3>3, <3>4
  <2> QED  BY <2>1, <2>2 DEF FramesInOrder, EndOf, IsClose
<1>13. NothingLost'
  <2>1. ASSUME NEW t \in Session
        PROVE  EndsWith(InHand(t)', Done(t)', pos'[t])
    <3>1. CASE t = s
      <4>1. InHand(s)' = rest'
        BY <1>0 DEF InHand
      <4> QED  BY <1>0, <1>9, <1>10, <3>1, <4>1
    <3>2. CASE t # s
      <4>1. InHand(t)' = buff[t] /\ InHand(t) = buff[t]
        BY <1>0, <1>6, <3>2 DEF InHand
      <4> QED  BY <1>0, <1>11, <3>2, <4>1 DEF FrameInv, NothingLost
    <3> QED  BY <3>1, <3>2
  <2> QED  BY <2>1 DEF NothingLost, EndsWith
<1>14. BuffHasNoClose'
  BY <1>6 DEF FrameInv, BuffHasNoClose, IsClose
<1>15. ClosesAhead'
  <2>1. Done(running)' = e
    BY <1>0, <1>10 DEF Done, EndOf
  <2> QED  BY <1>0, <1>9, <2>1 DEF ClosesAhead, NewCloses, IsClose
<1>16. ClosesBehind'
  <2>1. ASSUME NEW t \in Session, NEW n \in 1..Done(t)', IsClose(t, n)
        PROVE  \E i \in 1..Len(handled'[t]) : LastCell(handled'[t][i]) = n
    <3>1. CASE t # s
      BY SMTT(20), <1>6, <1>11, <2>1, <3>1 DEF FrameInv, ClosesBehind, IsHandled, EndOf
    <3>2. CASE t = s /\ n \in 1..d
      <4>1. PICK i \in 1..l : LastCell(handled[s][i]) = n
        BY <1>3, <1>4, <2>1, <3>2 DEF FrameInv, ClosesBehind, IsHandled, EndOf
      <4>2. i \in 1..(l + 1)
        OBVIOUS
      <4> QED  BY <1>6, <3>2, <4>1, <4>2
    <3>3. CASE t = s /\ n \in (d + 1)..e
      <4>1. n = e
        BY <1>9, <2>1, <3>3
      <4>2. l + 1 \in 1..(l + 1)
        OBVIOUS
      <4> QED  BY <1>5, <1>6, <3>3, <4>1, <4>2
    <3>4. t = s => n \in 1..e
      BY <1>10, <2>1
    <3>5. t = s => n \in 1..d \/ n \in (d + 1)..e
      BY <1>7, <1>9, <3>4
    <3> QED  BY <3>1, <3>2, <3>3, <3>5
  <2> QED  BY <2>1 DEF ClosesBehind, IsHandled, EndOf, IsClose
<1> QED  BY <1>12, <1>13, <1>14, <1>15, <1>16 DEF FrameInv

(* The end of the loop keeps the invariant: no ')' goes into buff.         *)
LEMMA FinishReadInv ==
  ASSUME SessionTypeOK, FrameInv, NEW s \in Session, FinishRead(s)
  PROVE  FrameInv'
<1> USE SessionAssumption DEF FrameInv
<1>0. /\ running = s /\ running' = Idle /\ s # Idle /\ pos' = pos /\ handled' = handled
      /\ buff' = [buff EXCEPT ![s] = Filled(s, Len(rest))]
      /\ buff \in [Session -> Seq(Nat)]
      /\ rest \in Seq(1..pos[s]) /\ buff[s] \in Seq(1..pos[s]) /\ pos[s] \in Nat
      /\ \A k \in 1..Len(rest) : ~IsClose(s, rest[k])
  BY DEF FinishRead, SessionTypeOK
<1>1. Filled(s, Len(rest)) = buff[s] \o rest
  BY <1>0, SubSeqFull DEF Filled
<1>2. Done(s) \in 0..pos[s]
  BY DoneProperties
<1>3. \A t \in Session : /\ Done(t)' = Done(t)
                        /\ \A i : IsHandled(t, i)' = IsHandled(t, i)
  BY <1>0 DEF Done, EndOf, IsHandled
<1>4. FramesInOrder'
  BY <1>0 DEF FramesInOrder, EndOf
<1>5. buff'[s] = buff[s] \o rest /\ \A t \in Session : t # s => buff'[t] = buff[t]
  BY <1>0, <1>1
<1>6. NothingLost'
  <2>1. EndsWith(buff[s] \o rest, Done(s), pos[s])
    BY <1>0, <1>2, PrefixKeepsEnd DEF NothingLost, InHand
  <2>2. ASSUME NEW t \in Session
        PROVE  EndsWith(InHand(t)', Done(t)', pos'[t])
    <3>1. InHand(t)' = buff'[t]
      BY <1>0 DEF InHand
    <3>2. CASE t = s
      BY <1>0, <1>3, <1>5, <2>1, <3>1, <3>2
    <3>3. CASE t # s
      <4>1. InHand(t) = buff[t]
        BY <1>0, <3>3 DEF InHand
      <4> QED  BY <1>0, <1>3, <1>5, <3>1, <3>3, <4>1 DEF NothingLost
    <3> QED  BY <3>2, <3>3
  <2> QED  BY <2>2 DEF NothingLost, EndsWith
<1>7. BuffHasNoClose'
  <2>1. ASSUME NEW k \in 1..Len(buff[s] \o rest)
        PROVE  ~IsClose(s, (buff[s] \o rest)[k])
    <3>1. Len(buff[s]) \in Nat /\ Len(rest) \in Nat
      BY <1>0
    <3>2. /\ k \in 1..(Len(buff[s]) + Len(rest))
          /\ (buff[s] \o rest)[k]
               = IF k <= Len(buff[s]) THEN buff[s][k] ELSE rest[k - Len(buff[s])]
      BY <1>0, ConcatProperties
    <3>3. CASE k <= Len(buff[s])
      BY <3>1, <3>2, <3>3 DEF BuffHasNoClose
    <3>4. CASE ~(k <= Len(buff[s]))
      <4>1. k - Len(buff[s]) \in 1..Len(rest)
        BY <3>1, <3>2, <3>4
      <4> QED  BY <1>0, <3>2, <3>4, <4>1
    <3> QED  BY <3>3, <3>4
  <2>2. ASSUME NEW t \in Session, NEW k \in 1..Len(buff'[t])
        PROVE  ~IsClose(t, buff'[t][k])
    <3>1. CASE t = s
      BY <1>5, <2>1, <3>1
    <3>2. CASE t # s
      BY <1>5, <3>2 DEF BuffHasNoClose
    <3> QED  BY <3>1, <3>2
  <2> QED  BY <2>2 DEF BuffHasNoClose, IsClose
<1>8. ClosesAhead'
  BY <1>0 DEF ClosesAhead
<1>9. ClosesBehind'
  BY <1>3 DEF ClosesBehind, IsClose
<1> QED  BY <1>4, <1>6, <1>7, <1>8, <1>9

(* The other steps leave what the invariant is about alone.                *)
LEMMA OtherStepsInv ==
  ASSUME FrameInv, UNCHANGED <<pos, buff, running, rest, handled>>
  PROVE  FrameInv'
<1>1. \A s \in Session : /\ Done(s)' = Done(s)
                        /\ InHand(s)' = InHand(s)
                        /\ \A n : /\ IsHandled(s, n)' = IsHandled(s, n)
                                 /\ EndOf(s, n)' = EndOf(s, n)
  BY DEF Done, InHand, IsHandled, EndOf
<1>2. FramesInOrder'
  BY <1>1 DEF FrameInv, FramesInOrder, IsClose
<1>3. NothingLost'
  BY <1>1 DEF FrameInv, NothingLost, EndsWith
<1>4. BuffHasNoClose'
  BY DEF FrameInv, BuffHasNoClose, IsClose
<1>5. ClosesAhead'
  BY DEF FrameInv, ClosesAhead, NewCloses, IsClose, Done, EndOf
<1>6. ClosesBehind'
  BY <1>1 DEF FrameInv, ClosesBehind, IsClose
<1> QED  BY <1>2, <1>3, <1>4, <1>5, <1>6 DEF FrameInv

-----------------------------------------------------------------------------
(* SessionInv is inductive: no ')' waits in buff, those ahead of the loop  *)
(* are new, in stream order and complete, those behind are processed.      *)
THEOREM SessionInvariant == SessionSpec => []SessionInv
<1>1. SessionInit => SessionInv
  <2> SUFFICES ASSUME SessionInit PROVE SessionInv
    OBVIOUS
  <2>1. SessionTypeOK
    BY SessionInitTypeOK
  <2>2. \A s \in Session : Done(s) = 0 /\ InHand(s) = <<>> /\ Len(handled[s]) = 0
    BY SessionAssumption DEF SessionInit, Done, InHand
  <2>3. FramesInOrder /\ BuffHasNoClose /\ ClosesAhead /\ ClosesBehind
    BY <2>2, SessionAssumption
       DEF SessionInit, FramesInOrder, BuffHasNoClose, ClosesAhead, ClosesBehind
  <2>4. NothingLost
    BY <2>2 DEF SessionInit, NothingLost, EndsWith
  <2> QED  BY <2>1, <2>3, <2>4 DEF SessionInv
<1>2. SessionInv /\ [SessionNext]_sessionVars => SessionInv'
  <2> SUFFICES ASSUME SessionInv, [SessionNext]_sessionVars
               PROVE  SessionInv'
    OBVIOUS
  <2>1. SessionTypeOK /\ FrameInv
    BY DEF SessionInv, FrameInv
  <2>2. SessionTypeOK'
    BY <2>1, SessionNextTypeOK
  <2>3. ASSUME NEW s \in Session, NEW n \in 1..(Len(Script[s]) - pos[s]), ReadSome(s, n)
        PROVE  FrameInv'
    BY <2>1, <2>3, ReadSomeInv
  <2>4. ASSUME NEW s \in Session, NEW frame, NEW reply, TakeFrame(s, frame, reply)
        PROVE  FrameInv'
    BY <2>1, <2>4, TakeFrameInv
  <2>5. ASSUME NEW s \in Session, FinishRead(s)
        PROVE  FrameInv'
    BY <2>1, <2>5, FinishReadInv
  <2>6. ASSUME NEW s \in Session,
               Accept(s) \/ HangUp(s) \/ ReadError(s) \/ Overrun(s) \/ WriteDone(s)
        PROVE  FrameInv'
    <3>1. UNCHANGED <<pos, buff, running, rest, handled>>
      BY <2>6 DEF Accept, HangUp, ReadError, Overrun, WriteDone
    <3> QED  BY <2>1, <3>1, OtherStepsInv
  <2>7. ASSUME UNCHANGED sessionVars
        PROVE  FrameInv'
    BY <2>1, <2>7, OtherStepsInv DEF sessionVars
  <2>8. FrameInv'
    BY <2>3, <2>4, <2>5, <2>6, <2>7 DEF SessionNext
  <2> QED  BY <2>2, <2>8 DEF SessionInv, FrameInv
<1> QED  BY <1>1, <1>2, PTL DEF SessionSpec

(* However a device's stream is cut into reads, every frame of it reaches  *)
(* gps->process exactly once, in order, and ends with its own ')'.         *)
THEOREM FramesHandledOnceCorrect == SessionSpec => []FramesHandledOnce
<1>1. SessionInv => FramesHandledOnce
  <2> SUFFICES ASSUME SessionInv PROVE FramesHandledOnce
    OBVIOUS
  <2>1. ASSUME NEW s \in Session, NEW n \in 1..pos[s], IsClose(s, n), ~IsHandled(s, n)
        PROVE  running = s /\ \E k \in 1..Len(rest) : rest[k] = n
    <3>1. /\ pos[s] \in Nat /\ Done(s) \in 0..pos[s]
          /\ buff[s] \in Seq(1..pos[s])
          /\ running = s => rest \in Seq(1..pos[s])
      BY DoneProperties, SessionAssumption DEF SessionInv, SessionTypeOK
    <3>2. n \in (Done(s) + 1)..pos[s]
      BY <2>1, <3>1 DEF SessionInv, ClosesBehind
    <3> DEFINE q == InHand(s)
               k == Len(q) - (pos[s] - n)
    <3>3. Len(q) \in Nat
      BY <3>1 DEF InHand
    <3>4. pos[s] - n < Len(q) /\ q[k] = n
      BY <3>2 DEF SessionInv, NothingLost, EndsWith
    <3> HIDE DEF q
    <3>5. k \in 1..Len(q)
      BY <3>1, <3>2, <3>3, <3>4
    <3>6. running = s
      <4>1. SUFFICES ASSUME running # s PROVE FALSE
        OBVIOUS
      <4>2. q = buff[s]
        BY <4>1 DEF q, InHand
      <4> QED  BY <2>1, <3>4, <3>5, <4>2 DEF SessionInv, BuffHasNoClose
    <3>7. q = rest
      BY <3>6 DEF q, InHand
    <3> QED  BY <3>4, <3>5, <3>6, <3>7
  <2> QED  BY <2>1 DEF FramesHandledOnce, SessionInv
<1> QED  BY <1>1, SessionInvariant, PTL

(* The cells read since the last frame are all in hand, in stream order.   *)
THEOREM NothingLostCorrect == SessionSpec => []NothingLost
<1>1. SessionInv => NothingLost
  BY DEF SessionInv
<1> QED  BY <1>1, SessionInvariant, PTL

-----------------------------------------------------------------------------
(* What the device sent from the last ')' before position e up to e.       *)
LEMMA SentCells ==
  ASSUME NEW s \in Session, NEW e \in Nat, NEW d \in 0..(e - 1),
         d = 0 \/ IsClose(s, d),
         \A c \in (d + 1)..(e - 1) : ~IsClose(s, c)
  PROVE  Sent(s, e) = [i \in 1..(e - d) |-> d + i]
<1> DEFINE Start(p) == /\ p = 0 \/ IsClose(s, p)
                       /\ \A q \in (p + 1)..(e - 1) : ~IsClose(s, q)
           start == CHOOSE p \in 0..(e - 1) : Start(p)
<1>1. d \in 0..(e - 1) /\ Start(d)
  OBVIOUS
<1>2. start \in 0..(e - 1) /\ Start(start)
  BY <1>1
<1>3. ~(start < d)
  <2>1. SUFFICES ASSUME start < d PROVE FALSE
    OBVIOUS
  <2>2. d \in (start + 1)..(e - 1) /\ d # 0
    BY <1>2, <2>1
  <2> QED  BY <1>2, <2>2
<1>4. ~(d < start)
  <2>1. SUFFICES ASSUME d < start PROVE FALSE
    OBVIOUS
  <2>2. start \in (d + 1)..(e - 1) /\ start # 0
    BY <1>2, <2>1
  <2> QED  BY <1>2, <2>2
<1>5. start = d
  BY <1>2, <1>3, <1>4
<1>6. Sent(s, e) = [i \in 1..(e - start) |-> start + i]
  BY DEF Sent
<1> HIDE DEF start
<1> QED  BY <1>5, <1>6

(* Two strings of which one ends like the other still do when both are     *)
(* trimmed: no blank goes that the shorter one keeps.                      *)
LEMMA TrimKeepsEnd ==
  ASSUME NEW s \in Session, NEW S, NEW f \in Seq(S), NEW q \in Seq(S),
         NEW m \in 1..Len(q), m = Len(f), ~IsBlank(s, f[m]),
         \A i \in 1..m : q[Len(q) - m + i] = f[i]
  PROVE  IsSuffix(Trim(s, f), Trim(s, q))
<1> DEFINE L == Len(q)
<1>0. L \in Nat /\ m \in 1..L /\ m \in 1..Len(f) /\ m = Len(f) /\ m \in Nat
  OBVIOUS
<1>1. PICK a \in 1..m : Trim(s, f) = SubSeq(f, a, m) /\ ~IsBlank(s, f[a])
  BY <1>0, TrimProperties
<1>2. PICK n \in 1..L : n = L - m + a
  BY <1>0
<1>3. ~IsBlank(s, q[n])
  BY <1>1, <1>2
<1>4. PICK b \in 1..n : Trim(s, q) = SubSeq(q, b, L)
  BY <1>3, TrimProperties
<1> HIDE DEF L
<1>5. a \in Int /\ b \in Int /\ 1 <= a /\ a <= m /\ 1 <= b /\ b <= L - m + a
  BY <1>0, <1>2
<1>6. /\ SubSeq(f, a, m) \in Seq(S)
      /\ Len(SubSeq(f, a, m)) = m - a + 1
      /\ \A i \in 1..(m - a + 1) : SubSeq(f, a, m)[i] = f[a + i - 1]
  <2>1. \A i \in a..m : f[i] \in S
    BY <1>0, <1>5, ElementOfSeq
  <2> QED  BY <1>0, <1>5, <2>1, SubSeqProperties
<1>7. /\ SubSeq(q, b, L) \in Seq(S)
      /\ Len(SubSeq(q, b, L)) = L - b + 1
      /\ \A i \in 1..(L - b + 1) : SubSeq(q, b, L)[i] = q[b + i - 1]
  <2>1. \A i \in b..L : i \in 1..Len(q)
    BY <1>0, <1>5 DEF L
  <2>2. \A i \in b..L : q[i] \in S
    BY <2>1, ElementOfSeq
  <2> QED  BY <1>0, <1>5, <2>2, SubSeqProperties
<1> DEFINE short == Trim(s, f)
           long == Trim(s, q)
           from == Len(long) - Len(short) + 1
<1>8. /\ short \in Seq(S) /\ Len(short) = m - a + 1
      /\ \A i \in 1..(m - a + 1) : short[i] = f[a + i - 1]
  BY <1>1, <1>6
<1>9. /\ long \in Seq(S) /\ Len(long) = L - b + 1
      /\ \A i \in 1..(L - b + 1) : long[i] = q[b + i - 1]
  BY <1>4, <1>7
<1> HIDE DEF short, long
<1>10. from = (L - b) - (m - a) + 1 /\ from \in 1..Len(long) /\ Len(short) <= Len(long)
  BY <1>0, <1>5, <1>8, <1>9
<1>11. /\ SubSeq(long, from, Len(long)) \in Seq(S)
       /\ Len(SubSeq(long, from, Len(long))) = m - a + 1
       /\ \A i \in 1..(m - a + 1) : SubSeq(long, from, Len(long))[i] = long[from + i - 1]
  <2> HIDE DEF from
  <2>1. Len(long) \in Int /\ from \in Int /\ from <= Len(long) /\ 1 <= from
        /\ Len(long) - from + 1 = m - a + 1
    BY <1>0, <1>5, <1>9, <1>10
  <2>2. \A i \in from..Len(long) : i \in 1..Len(long)
    BY <2>1
  <2>3. \A i \in from..Len(long) : long[i] \in S
    BY <1>9, <2>2, ElementOfSeq
  <2>4. /\ SubSeq(long, from, Len(long)) \in Seq(S)
        /\ Len(SubSeq(long, from, Len(long)))
             = IF from <= Len(long) THEN Len(long) - from + 1 ELSE 0
        /\ \A i \in 1..(Len(long) - from + 1) :
             SubSeq(long, from, Len(long))[i] = long[from + i - 1]
    BY <2>1, <2>3, SubSeqProperties
  <2> QED  BY <2>1, <2>4, Zenon
<1>12. ASSUME NEW i \in 1..(m - a + 1)
       PROVE  SubSeq(long, from, Len(long))[i] = short[i]
  <2>0. L \in Int /\ m \in Int /\ i \in Int /\ 1 <= i /\ i <= m - a + 1
    BY <1>0, <1>5
  <2>1. /\ from + i - 1 \in 1..(L - b + 1)
        /\ b + (from + i - 1) - 1 = L - m + (a + i - 1)
        /\ a + i - 1 \in 1..m
    <3> HIDE DEF from
    <3>1. from = (L - b) - (m - a) + 1
      BY <1>10
    <3> QED  BY <1>5, <2>0, <3>1
  <2>2. long[from + i - 1] = q[L - m + (a + i - 1)]
    BY <1>9, <2>1
  <2>3. q[L - m + (a + i - 1)] = f[a + i - 1]
    BY <2>1 DEF L
  <2> QED  BY <1>8, <1>11, <2>2, <2>3
<1>13. SubSeq(long, from, Len(long)) = short
  BY <1>8, <1>11, <1>12, SeqEqual
<1> QED  BY <1>10, <1>13 DEF IsSuffix, short, long

(* The loop is about to meet the ')' after the last one processed.         *)
LEMMA NextClose ==
  ASSUME SessionTypeOK, FrameInv, NEW s \in Session, running = s,
         NEW k \in 1..Len(rest), FirstCloseAt(s, rest, k)
  PROVE  /\ Done(s) \in 0..pos[s]
         /\ Done(s) = 0 \/ IsClose(s, Done(s))
         /\ rest[k] \in (Done(s) + 1)..pos[s]
         /\ IsClose(s, rest[k])
         /\ \A c \in (Done(s) + 1)..(rest[k] - 1) : ~IsClose(s, c)
         /\ Len(rest) - k = pos[s] - rest[k]
<1>0. /\ rest \in Seq(1..pos[s]) /\ pos[s] \in Nat
      /\ handled[s] \in Seq(Seq(1..pos[s]))
  BY SessionAssumption DEF SessionTypeOK
<1>1. PICK d : d = Done(s)
  OBVIOUS
<1>2. PICK p \in Nat : p = pos[s]
  BY <1>0
<1>3. /\ d \in 0..p /\ EndsWith(rest, d, p) /\ NewCloses(s, rest, d)
  BY <1>1, <1>2, SessionAssumption, DoneProperties
     DEF FrameInv, NothingLost, InHand, ClosesAhead
<1>4. rest \in Seq(1..p) /\ IsClose(s, rest[k])
  BY <1>0, <1>2 DEF FirstCloseAt
<1>5. /\ rest[k] \in (d + 1)..p
      /\ \A c \in (d + 1)..rest[k] : IsClose(s, c) => c = rest[k]
      /\ Len(rest) - k = p - rest[k]
  BY <1>3, <1>4, FirstCloseIsNext
<1>6. d = 0 \/ IsClose(s, d)
  <2>1. CASE handled[s] = <<>>
    BY <1>1, <2>1 DEF Done
  <2>2. CASE handled[s] # <<>>
    <3>1. Len(handled[s]) \in 1..Len(handled[s])
      BY <1>0, <2>2, EmptySeq
    <3> QED  BY <1>1, <2>2, <3>1 DEF Done, FrameInv, FramesInOrder
  <2> QED  BY <2>1, <2>2
<1>7. \A c \in (d + 1)..(rest[k] - 1) : ~IsClose(s, c)
  BY <1>3, <1>5
<1> QED  BY <1>1, <1>2, <1>3, <1>4, <1>5, <1>6, <1>7

(* The string the loop has copied when it meets the next ')' ends with the *)
(* frame the device sent, and trimming leaves that frame.                  *)
LEMMA FrameEndsWithSent ==
  ASSUME SessionTypeOK, FrameInv, NEW s \in Session, running = s,
         NEW k \in 1..Len(rest), FirstCloseAt(s, rest, k)
  PROVE  IsSuffix(SentFrame(s, rest[k]), Trim(s, Filled(s, k)))
<1> USE SessionAssumption
<1>0. /\ rest \in Seq(1..pos[s]) /\ buff[s] \in Seq(1..pos[s]) /\ pos[s] \in Nat
      /\ Len(rest) \in Nat /\ Len(buff[s]) \in Nat /\ k \in 0..Len(rest) /\ k \in Nat
      /\ handled[s] \in Seq(Seq(1..pos[s]))
  BY DEF SessionTypeOK
<1>1. PICK d : d = Done(s)
  OBVIOUS
<1>2. PICK e : e = rest[k]
  OBVIOUS
<1>3. PICK p \in Nat : p = pos[s]
  BY <1>0
<1>4. d \in 0..p /\ EndsWith(rest, d, p)
  BY <1>1, <1>3, DoneProperties DEF FrameInv, NothingLost, InHand
<1>5. /\ e \in (d + 1)..p /\ IsClose(s, e)
      /\ \A c \in (d + 1)..(e - 1) : ~IsClose(s, c)
      /\ Len(rest) - k = p - e
      /\ d = 0 \/ IsClose(s, d)
  BY <1>1, <1>2, <1>3, NextClose
<1> DEFINE m == e - d
           f == [i \in 1..m |-> d + i]
           q == Filled(s, k)
<1>7. Sent(s, e) = f
  <2>1. e \in Nat /\ d \in 0..(e - 1)
    BY <1>3, <1>4, <1>5
  <2> QED  BY <1>5, <2>1, SentCells
<1>8. m \in Nat /\ m >= 1 /\ f \in Seq(Nat) /\ Len(f) = m /\ f[m] = e
  <2>1. m \in Nat /\ m >= 1 /\ d \in Nat
    BY <1>4, <1>5
  <2>2. f \in [1..m -> Nat]
    BY <2>1
  <2>3. f \in Seq(Nat) /\ Len(f) = m
    <3> HIDE DEF f, m
    <3> QED  BY ONLY <2>1, <2>2, SeqDef
  <2> QED  BY <2>1, <2>3, <1>5
<1>9. /\ q \in Seq(1..pos[s]) /\ Len(q) = Len(buff[s]) + k
      /\ \A i \in 1..k : q[Len(buff[s]) + i] = rest[i]
  BY <1>0, FilledProperties
<1>10. q \in Seq(Nat)
  BY <1>0, <1>9, PositionsAreNumbers
<1> HIDE DEF q, f
<1>11. ASSUME NEW i \in 1..m
       PROVE  q[Len(q) - m + i] = f[i] /\ k - m + i \in 1..k
  <2>1. d + i \in (d + 1)..p
    BY <1>3, <1>4, <1>5
  <2>2. /\ p - (d + i) < Len(rest)
        /\ rest[Len(rest) - (p - (d + i))] = d + i
    BY <1>4, <2>1 DEF EndsWith
  <2>3. Len(rest) - (p - (d + i)) = k - m + i
    <3>1. /\ Len(rest) - k = p - e /\ Len(rest) \in Int /\ k \in Int /\ p \in Int
          /\ e \in Int /\ d \in Int /\ i \in Int
      BY <1>0, <1>3, <1>4, <1>5
    <3>2. Len(rest) = k + p - e
      BY <3>1
    <3>3. (k + p - e) - (p - (d + i)) = k - (e - d) + i
      BY <3>1
    <3> QED  BY <3>2, <3>3
  <2>4. k - m + i \in 1..k
    <3>1. /\ Len(rest) \in Int /\ k \in Int /\ p \in Int /\ e \in Int /\ d \in Int
          /\ i \in 1..(e - d) /\ Len(rest) - k = p - e
      BY <1>0, <1>3, <1>4, <1>5
    <3>2. p - (d + i) < Len(rest)
      BY <2>2
    <3> QED  BY ONLY <3>1, <3>2
  <2>5. Len(buff[s]) + (k - m + i) = Len(q) - m + i
    <3> HIDE DEF m
    <3>1. PICK l \in Int : l = Len(buff[s])
      BY <1>0
    <3>2. Len(q) = l + k
      BY <1>9, <3>1
    <3>3. k \in Int /\ m \in Int /\ i \in Int
      BY <1>0, <1>8
    <3>4. l + (k - m + i) = (l + k) - m + i
      BY ONLY <3>3, l \in Int
    <3> QED  BY <3>1, <3>2, <3>4
  <2>6. q[Len(q) - m + i] = d + i
    BY <1>9, <2>2, <2>3, <2>4, <2>5
  <2> QED  BY <2>4, <2>6 DEF f
<1>12. m \in 1..Len(q)
  <2>1. 1 \in 1..m
    BY <1>8
  <2>2. k - m + 1 \in 1..k
    BY <1>11, <2>1
  <2>3. /\ Len(buff[s]) \in Nat /\ k \in Nat /\ m \in Nat /\ m >= 1
        /\ Len(q) = Len(buff[s]) + k
    BY <1>0, <1>8, <1>9
  <2> HIDE DEF m
  <2> QED  BY ONLY <2>2, <2>3
<1>13. ~IsBlank(s, f[m])
  BY <1>5, <1>8 DEF IsClose, IsBlank
<1>14. IsSuffix(Trim(s, f), Trim(s, q))
  <2> HIDE DEF m
  <2>1. \A i \in 1..m : q[Len(q) - m + i] = f[i]
    BY <1>11
  <2> QED  BY <1>8, <1>10, <1>12, <1>13, <2>1, TrimKeepsEnd
<1> QED  BY <1>2, <1>7, <1>14 DEF SentFrame, q

(* Whatever the reads, every frame passed to gps->process ends with the    *)
(* intact frame the device sent.                                           *)
THEOREM FrameEndsIntactCorrect == SessionSpec => []FrameEndsIntact
<1>1. SessionInit => FrameEndsIntact
  BY DEF SessionInit, FrameEndsIntact
<1>2. ASSUME SessionInv, FrameEndsIntact, [SessionNext]_sessionVars
      PROVE  FrameEndsIntact'
  <2>1. ASSUME UNCHANGED handled
        PROVE  FrameEndsIntact'
    BY SMTT(20), <1>2, <2>1 DEF FrameEndsIntact, EndOf
  <2>2. ASSUME NEW s \in Session, NEW frame, NEW reply, TakeFrame(s, frame, reply)
        PROVE  FrameEndsIntact'
    <3>0. /\ running = s
          /\ handled' = [handled EXCEPT ![s] = Append(handled[s], frame)]
          /\ handled \in [Session -> Seq(Seq(Nat))]
      BY <1>2, <2>2 DEF TakeFrame, SessionInv, SessionTypeOK
    <3>1. PICK k \in 1..Len(rest) : /\ FirstCloseAt(s, rest, k)
                                    /\ frame = Trim(s, Filled(s, k))
      BY <2>2 DEF TakeFrame
    <3>2. SessionTypeOK /\ FrameInv
      BY <1>2 DEF SessionInv, FrameInv
    <3>3. LastCell(frame) = rest[k]
      BY <3>0, <3>1, <3>2, FrameProperties DEF LastCell
    <3>4. IsSuffix(SentFrame(s, LastCell(frame)), frame)
      BY <3>0, <3>1, <3>2, <3>3, FrameEndsWithSent
    <3>5. PICK l \in Nat : l = Len(handled[s])
      BY <3>0
    <3>6. /\ Len(handled'[s]) = l + 1
          /\ handled'[s][l + 1] = frame
          /\ \A i \in 1..l : handled'[s][i] = handled[s][i]
          /\ \A t \in Session : t # s => handled'[t] = handled[t]
      BY <3>0, <3>5
    <3>7. ASSUME NEW t \in Session, NEW i \in 1..Len(handled'[t])
          PROVE  IsSuffix(SentFrame(t, LastCell(handled'[t][i])), handled'[t][i])
      <4>1. CASE t # s
        BY <1>2, <3>6, <4>1 DEF FrameEndsIntact, EndOf
      <4>2. CASE t = s /\ i \in 1..l
        BY <1>2, <3>5, <3>6, <4>2 DEF FrameEndsIntact, EndOf
      <4>3. CASE t = s /\ i = l + 1
        BY <3>4, <3>6, <4>3
      <4>4. t = s => i \in 1..l \/ i = l + 1
        BY <3>6
      <4> QED  BY <4>1, <4>2, <4>3, <4>4
    <3> QED  BY <3>7 DEF FrameEndsIntact, EndOf, SentFrame, Sent, Trim, IsClose, IsBlank
  <2>3. ASSUME NEW s \in Session,
               \/ Accept(s) \/ HangUp(s) \/ ReadError(s) \/ Overrun(s) \/ WriteDone(s)
               \/ FinishRead(s)
               \/ \E n \in 1..(Len(Script[s]) - pos[s]) : ReadSome(s, n)
        PROVE  FrameEndsIntact'
    <3>1. UNCHANGED handled
      BY <2>3 DEF Accept, HangUp, ReadError, Overrun, WriteDone, FinishRead, ReadSome
    <3> QED  BY <2>1, <3>1
  <2>4. CASE UNCHANGED sessionVars
    BY <2>1, <2>4 DEF sessionVars
  <2> QED  BY <1>2, <2>2, <2>3, <2>4 DEF SessionNext
<1>3. SessionInv /\ FrameEndsIntact /\ [SessionNext]_sessionVars => FrameEndsIntact'
  BY <1>2
<1> QED  BY <1>1, <1>3, SessionInvariant, PTL DEF SessionSpec
-----------------------------------------------------------------------------
(* The copying goes through the stream cell by cell, and only ever starts  *)
(* again behind position d, where the last processed frame ended.          *)
Runs(q, d) ==
  \A i \in 1..Len(q) : q[i] = d + 1 \/ (i > 1 /\ q[i] = q[i - 1] + 1)

RunsInHand ==
  /\ \A s \in Session : Runs(buff[s], Done(s))
  /\ running # Idle => Runs(rest, Done(running))

(* One run behind another, each of them from position d on.                *)
LEMMA RunsConcat ==
  ASSUME NEW S, NEW q \in Seq(S), NEW r \in Seq(S), NEW d \in Nat,
         Runs(q, d), Runs(r, d)
  PROVE  Runs(q \o r, d)
<1> DEFINE f == q \o r
<1>0. Len(q) \in Nat /\ Len(r) \in Nat
  OBVIOUS
<1>1. /\ Len(f) = Len(q) + Len(r)
      /\ \A i \in 1..(Len(q) + Len(r)) :
           f[i] = IF i <= Len(q) THEN q[i] ELSE r[i - Len(q)]
  BY ConcatProperties
<1> HIDE DEF f
<1>2. ASSUME NEW i \in 1..(Len(q) + Len(r)), f[i] # d + 1
      PROVE  i > 1 /\ f[i] = f[i - 1] + 1
  <2>1. CASE i <= Len(q)
    <3>1. i \in 1..Len(q) /\ f[i] = q[i]
      BY <1>0, <1>1, <2>1
    <3>2. i > 1 /\ q[i] = q[i - 1] + 1
      BY <1>2, <3>1 DEF Runs
    <3>3. f[i - 1] = q[i - 1]
      BY <1>0, <1>1, <2>1, <3>2
    <3> QED  BY <3>1, <3>2, <3>3
  <2>2. CASE ~(i <= Len(q))
    <3>1. i - Len(q) \in 1..Len(r) /\ f[i] = r[i - Len(q)]
      BY <1>0, <1>1, <2>2
    <3>2. i - Len(q) > 1 /\ r[i - Len(q)] = r[(i - Len(q)) - 1] + 1
      BY <1>2, <3>1 DEF Runs
    <3>3. /\ i > 1 /\ i - 1 \in 1..(Len(q) + Len(r)) /\ ~(i - 1 <= Len(q))
          /\ (i - 1) - Len(q) = (i - Len(q)) - 1
      BY <1>0, <3>1, <3>2
    <3>4. f[i - 1] = r[(i - Len(q)) - 1]
      BY <1>1, <3>3
    <3> QED  BY <3>1, <3>2, <3>3, <3>4
  <2> QED  BY <2>1, <2>2
<1> QED  BY <1>1, <1>2 DEF Runs, f

(* A read adds one run to the leftover, which ends where the run begins.   *)
LEMMA RunsOfRead ==
  ASSUME NEW p \in Nat, NEW n \in Nat, NEW d \in 0..p, NEW q \in Seq(1..p),
         EndsWith(q, d, p), Runs(q, d)
  PROVE  Runs(q \o [i \in 1..n |-> p + i], d)
<1> DEFINE r == q \o [i \in 1..n |-> p + i]
<1>0. Len(q) \in Nat
  OBVIOUS
<1>1. /\ Len(r) = Len(q) + n
      /\ \A k \in 1..Len(q) : r[k] = q[k]
      /\ \A k \in (Len(q) + 1)..(Len(q) + n) : r[k] = p + (k - Len(q))
  BY NewCells
<1> HIDE DEF r
<1>2. ASSUME NEW i \in 1..(Len(q) + n), r[i] # d + 1
      PROVE  i > 1 /\ r[i] = r[i - 1] + 1
  <2>1. CASE i \in 1..Len(q)
    <3>1. i > 1 /\ q[i] = q[i - 1] + 1
      BY <1>1, <1>2, <2>1 DEF Runs
    <3>2. i - 1 \in 1..Len(q)
      BY <2>1, <3>1
    <3> QED  BY <1>1, <2>1, <3>1, <3>2
  <2>2. CASE i = Len(q) + 1
    <3>1. i \in (Len(q) + 1)..(Len(q) + n)
      BY <1>0, <2>2
    <3>2. r[i] = p + 1
      <4>1. r[i] = p + (i - Len(q))
        BY <1>1, <3>1
      <4> QED  BY <1>0, <2>2, <4>1
    <3>3. p \in (d + 1)..p
      BY <1>2, <3>2
    <3>4. p - p < Len(q) /\ q[Len(q) - (p - p)] = p
      BY <3>3 DEF EndsWith
    <3>5. Len(q) \in 1..Len(q) /\ q[Len(q)] = p
      BY <1>0, <3>4
    <3>6. r[Len(q)] = p
      BY <1>1, <3>5
    <3> QED  BY <1>0, <2>2, <3>2, <3>5, <3>6
  <2>3. CASE i \in (Len(q) + 2)..(Len(q) + n)
    <3>1. /\ i \in (Len(q) + 1)..(Len(q) + n) /\ i - 1 \in (Len(q) + 1)..(Len(q) + n)
          /\ i > 1
      BY <1>0, <2>3
    <3>2. r[i] = p + (i - Len(q)) /\ r[i - 1] = p + ((i - 1) - Len(q))
      BY <1>1, <3>1
    <3> QED  BY <1>0, <3>1, <3>2
  <2> QED  BY <1>0, <2>1, <2>2, <2>3
<1> QED  BY <1>1, <1>2 DEF Runs, r

(* What the loop leaves behind a ')' is the stream that follows it, cell   *)
(* by cell.                                                                *)
LEMMA RestAfterFrame ==
  ASSUME SessionTypeOK, FrameInv, NEW s \in Session, running = s,
         NEW k \in 1..Len(rest), FirstCloseAt(s, rest, k)
  PROVE  LET t == SubSeq(rest, k + 1, Len(rest))
         IN  /\ Len(t) = pos[s] - rest[k]
             /\ \A j \in 1..Len(t) : t[j] = rest[k] + j
<1> DEFINE t == SubSeq(rest, k + 1, Len(rest))
<1>0. /\ rest \in Seq(1..pos[s]) /\ pos[s] \in Nat /\ Len(rest) \in Nat /\ k \in Nat
  BY SessionAssumption DEF SessionTypeOK
<1>1. PICK d, e : d = Done(s) /\ e = rest[k]
  OBVIOUS
<1>2. /\ d \in 0..pos[s]
      /\ e \in (d + 1)..pos[s]
      /\ Len(rest) - k = pos[s] - e
  BY <1>1, NextClose
<1>3. /\ Len(t) = Len(rest) - k
      /\ \A j \in 1..(Len(rest) - k) : t[j] = rest[k + j]
  <2>1. \A j \in (k + 1)..Len(rest) : rest[j] \in 1..pos[s]
    BY <1>0, ElementOfSeq
  <2>2. /\ t \in Seq(1..pos[s])
        /\ Len(t) = IF k + 1 <= Len(rest) THEN Len(rest) - (k + 1) + 1 ELSE 0
        /\ \A j \in 1..(Len(rest) - (k + 1) + 1) : t[j] = rest[(k + 1) + j - 1]
    BY <1>0, <2>1, SubSeqProperties
  <2> HIDE DEF t
  <2>3. Len(t) = Len(rest) - k
    BY <1>0, <2>2
  <2>4. ASSUME NEW j \in 1..(Len(rest) - k)
        PROVE  t[j] = rest[k + j]
    <3>1. /\ j \in 1..(Len(rest) - (k + 1) + 1)
          /\ (k + 1) + j - 1 = k + j
      BY <1>0
    <3> QED  BY <2>2, <3>1
  <2> QED  BY <2>3, <2>4
<1> HIDE DEF t
<1>4. ASSUME NEW j \in 1..Len(t)
      PROVE  t[j] = e + j
  <2>1. e + j \in (d + 1)..pos[s]
    BY <1>0, <1>2, <1>3
  <2>2. rest[Len(rest) - (pos[s] - (e + j))] = e + j
    BY <1>1, <2>1, SessionAssumption DEF FrameInv, NothingLost, InHand, EndsWith
  <2>3. Len(rest) - (pos[s] - (e + j)) = k + j
    <3>1. Len(rest) = k + pos[s] - e /\ e \in Int /\ j \in Int
      <4>1. /\ Len(rest) \in Int /\ k \in Int /\ pos[s] \in Int /\ d \in Int
            /\ Len(rest) - k = pos[s] - e
        BY <1>0, <1>2
      <4>2. e \in (d + 1)..pos[s]
        BY <1>2
      <4>3. Len(t) \in Int /\ j \in 1..Len(t)
        BY <1>0, <1>3
      <4> QED  BY ONLY <4>1, <4>2, <4>3
    <3>2. (k + pos[s] - e) - (pos[s] - (e + j)) = k + j
      BY <1>0, <3>1
    <3> QED  BY <3>1, <3>2
  <2>4. j \in 1..(Len(rest) - k)
    BY <1>3
  <2> QED  BY <1>3, <2>2, <2>3, <2>4
<1> QED  BY <1>1, <1>2, <1>3, <1>4 DEF t

(* RunsInHand is kept.                                                     *)
THEOREM RunsInHandCorrect == SessionSpec => []RunsInHand
<1>1. SessionInit => RunsInHand
  BY SessionAssumption DEF SessionInit, RunsInHand, Runs
<1>2. ASSUME SessionInv, RunsInHand, [SessionNext]_sessionVars
      PROVE  RunsInHand'
  <2>0. SessionTypeOK /\ FrameInv
    BY <1>2 DEF SessionInv, FrameInv
  <2>1. ASSUME UNCHANGED <<buff, running, rest, handled>>
        PROVE  RunsInHand'
    BY <1>2, <2>1 DEF RunsInHand, Runs, Done, EndOf
  <2>2. ASSUME NEW s \in Session, NEW n \in 1..(Len(Script[s]) - pos[s]), ReadSome(s, n)
        PROVE  RunsInHand'
    <3>1. /\ UNCHANGED <<buff, handled>> /\ running' = s /\ running = Idle /\ s # Idle
          /\ rest' = buff[s] \o [i \in 1..n |-> pos[s] + i]
          /\ pos[s] \in Nat /\ n \in Nat /\ buff[s] \in Seq(1..pos[s])
      BY <2>0, <2>2, SessionAssumption DEF ReadSome, SessionTypeOK
    <3>2. PICK d \in 0..pos[s] : d = Done(s)
      BY <2>0, DoneProperties DEF FrameInv
    <3>3. EndsWith(buff[s], d, pos[s]) /\ Runs(buff[s], d)
      BY <1>2, <2>0, <3>1, <3>2 DEF FrameInv, NothingLost, InHand, RunsInHand
    <3>4. Runs(rest', d)
      BY <3>1, <3>3, RunsOfRead
    <3>5. \A t \in Session : Done(t)' = Done(t)
      BY <3>1 DEF Done, EndOf
    <3> QED  BY <1>2, <3>1, <3>2, <3>4, <3>5 DEF RunsInHand, Runs
  <2>3. ASSUME NEW s \in Session, NEW frame, NEW reply, TakeFrame(s, frame, reply)
        PROVE  RunsInHand'
    <3>0. /\ running = s /\ running' = s /\ s # Idle
          /\ handled' = [handled EXCEPT ![s] = Append(handled[s], frame)]
          /\ buff' = [buff EXCEPT ![s] = <<>>]
          /\ handled \in [Session -> Seq(Seq(Nat))] /\ buff \in [Session -> Seq(Nat)]
      BY <2>0, <2>3, SessionAssumption DEF TakeFrame, SessionTypeOK
    <3>1. PICK k \in 1..Len(rest) : /\ FirstCloseAt(s, rest, k)
                                    /\ frame = Trim(s, Filled(s, k))
                                    /\ rest' = SubSeq(rest, k + 1, Len(rest))
      BY <2>3 DEF TakeFrame
    <3>2. LastCell(frame) = rest[k]
      BY <2>0, <3>0, <3>1, FrameProperties DEF LastCell
    <3>3. PICK l \in Nat : l = Len(handled[s])
      BY <3>0
    <3>4. /\ Len(handled'[s]) = l + 1 /\ handled'[s][l + 1] = frame
          /\ handled'[s] # <<>>
          /\ \A t \in Session : t # s => handled'[t] = handled[t]
      <4>1. handled'[s] = Append(handled[s], frame) /\ handled[s] \in Seq(Seq(Nat))
        BY <3>0
      <4>2. Len(handled'[s]) = l + 1 /\ handled'[s][l + 1] = frame
        BY <3>3, <4>1
      <4>3. handled'[s] # <<>>
        BY <4>2
      <4> QED  BY <3>0, <4>2, <4>3
    <3>5. /\ Done(s)' = rest[k]
          /\ \A t \in Session : t # s => Done(t)' = Done(t)
      BY <3>2, <3>3, <3>4 DEF Done, EndOf
    <3>6. ASSUME NEW t \in Session
          PROVE  Runs(buff'[t], Done(t)')
      <4>1. CASE t = s
        BY <3>0, <4>1 DEF Runs
      <4>2. CASE t # s
        BY <1>2, <3>0, <3>5, <4>2 DEF RunsInHand
      <4> QED  BY <4>1, <4>2
    <3>7. Runs(rest', rest[k])
      <4>1. PICK r, e : r = rest' /\ e = rest[k]
        OBVIOUS
      <4>2. /\ Len(r) = pos[s] - e
            /\ \A j \in 1..Len(r) : r[j] = e + j
        BY <2>0, <3>0, <3>1, <4>1, RestAfterFrame
      <4>3. pos[s] \in Nat /\ e \in 1..pos[s]
        <5>1. pos[s] \in Nat /\ rest \in Seq(1..pos[s])
          BY <2>0, <3>0 DEF SessionTypeOK
        <5> QED  BY <3>1, <4>1, <5>1
      <4>4. ASSUME NEW j \in 1..Len(r), j > 1
            PROVE  r[j] = r[j - 1] + 1
        BY SMTT(20), <4>2, <4>3, <4>4
      <4>5. Runs(r, e)
        BY <4>2, <4>3, <4>4 DEF Runs
      <4> QED  BY <4>1, <4>5
    <3> QED  BY <3>0, <3>5, <3>6, <3>7 DEF RunsInHand, Runs
  <2>4. ASSUME NEW s \in Session, FinishRead(s)
        PROVE  RunsInHand'
    <3>0. /\ running = s /\ running' = Idle /\ s # Idle /\ handled' = handled
          /\ buff' = [buff EXCEPT ![s] = Filled(s, Len(rest))]
          /\ buff \in [Session -> Seq(Nat)]
          /\ rest \in Seq(1..pos[s]) /\ buff[s] \in Seq(1..pos[s]) /\ pos[s] \in Nat
      BY <2>0, <2>4, SessionAssumption DEF FinishRead, SessionTypeOK
    <3>1. Filled(s, Len(rest)) = buff[s] \o rest
      BY <3>0, SubSeqFull DEF Filled
    <3>2. PICK d \in 0..pos[s] : d = Done(s)
      BY <2>0, DoneProperties DEF FrameInv
    <3>3. Runs(buff[s] \o rest, d)
      <4>1. Runs(buff[s], d) /\ Runs(rest, d) /\ d \in Nat
        BY <1>2, <3>0, <3>2 DEF RunsInHand
      <4> QED  BY <3>0, <4>1, RunsConcat
    <3>4. \A t \in Session : Done(t)' = Done(t)
      BY <3>0 DEF Done, EndOf
    <3>5. buff'[s] = buff[s] \o rest /\ \A t \in Session : t # s => buff'[t] = buff[t]
      BY <3>0, <3>1
    <3> QED  BY <1>2, <3>0, <3>2, <3>3, <3>4, <3>5 DEF RunsInHand
  <2>5. ASSUME NEW s \in Session,
               Accept(s) \/ HangUp(s) \/ ReadError(s) \/ Overrun(s) \/ WriteDone(s)
        PROVE  RunsInHand'
    <3>1. UNCHANGED <<buff, running, rest, handled>>
      BY <2>5 DEF Accept, HangUp, ReadError, Overrun, WriteDone
    <3> QED  BY <2>1, <3>1
  <2>6. CASE UNCHANGED sessionVars
    BY <2>1, <2>6 DEF sessionVars
  <2> QED  BY <1>2, <2>2, <2>3, <2>4, <2>5, <2>6 DEF SessionNext
<1>3. SessionInv /\ RunsInHand /\ [SessionNext]_sessionVars => RunsInHand'
  BY <1>2
<1> QED  BY <1>1, <1>3, SessionInvariant, PTL DEF SessionSpec
-----------------------------------------------------------------------------
(* The positions from o to n.                                              *)
Span(o, n) == [i \in 1..(n - o + 1) |-> o + i - 1]

(* q begins as the frame the device sent does, with its first cell o that  *)
(* is not blank; after that the copying may start again behind d.          *)
BeginsLikeSent(s, q) ==
  \E d \in Nat, o \in Nat :
    /\ d < o /\ o <= LastCell(q)
    /\ d = 0 \/ IsClose(s, d)
    /\ \A c \in (d + 1)..(LastCell(q) - 1) : ~IsClose(s, c)
    /\ IsClose(s, LastCell(q))
    /\ \A c \in (d + 1)..(o - 1) : IsBlank(s, c)
    /\ ~IsBlank(s, o)
    /\ q[1] = o
    /\ \A i \in 2..Len(q) : q[i] = d + 1 \/ q[i] = q[i - 1] + 1
    /\ SentFrame(s, LastCell(q)) = Span(o, LastCell(q))

FramesBeginLikeSent ==
  \A s \in Session : \A i \in 1..Len(handled[s]) : BeginsLikeSent(s, handled[s][i])

(* Trimming runs leaves the first cell after d that is not blank in front. *)
LEMMA TrimRuns ==
  ASSUME NEW s \in Session, NEW q \in Seq(Nat), NEW d \in Nat, Runs(q, d),
         NEW m \in 1..Len(q), ~IsBlank(s, q[m])
  PROVE  \E k \in 1..m : /\ Trim(s, q) = SubSeq(q, k, Len(q))
                         /\ q[k] \in Nat /\ d < q[k]
                         /\ ~IsBlank(s, q[k])
                         /\ \A c \in (d + 1)..(q[k] - 1) : IsBlank(s, c)
<1>0. Len(q) \in Nat /\ m \in Nat
  OBVIOUS
<1>1. PICK k \in 1..m : /\ Trim(s, q) = SubSeq(q, k, Len(q))
                        /\ ~IsBlank(s, q[k])
                        /\ \A j \in 1..(k - 1) : IsBlank(s, q[j])
  BY TrimProperties
<1> DEFINE AllBlank(i) == d < q[i] /\ \A c \in (d + 1)..(q[i] - 1) : IsBlank(s, c)
           T == {i \in 1..k : ~AllBlank(i)}
<1>2. \A i \in 1..k : q[i] \in Nat
  BY <1>0, ElementOfSeq
<1>3. T = {}
  <2>1. SUFFICES ASSUME T # {} PROVE FALSE
    OBVIOUS
  <2>2. T \subseteq Nat
    OBVIOUS
  <2>3. PICK i \in T : \A y \in T : i <= y
    BY <2>1, <2>2, LeastNumber
  <2>4. i \in 1..k /\ i \in 1..Len(q) /\ ~AllBlank(i)
    BY <1>0, <2>3
  <2>5. q[i] # d + 1
    BY <1>2, <2>4
  <2>6. i > 1 /\ q[i] = q[i - 1] + 1
    BY <2>4, <2>5 DEF Runs
  <2>7. i - 1 \in 1..k /\ i - 1 \in 1..(k - 1) /\ i - 1 \notin T
    BY <2>3, <2>4, <2>6
  <2>8. AllBlank(i - 1) /\ IsBlank(s, q[i - 1]) /\ q[i - 1] \in Nat
    BY <1>1, <1>2, <2>7
  <2>9. \A c \in (d + 1)..(q[i] - 1) : c \in (d + 1)..(q[i - 1] - 1) \/ c = q[i - 1]
    <3>1. PICK v : v = q[i - 1]
      OBVIOUS
    <3>2. v \in Nat /\ d \in Nat /\ q[i] = v + 1
      BY <2>6, <2>8, <3>1
    <3>3. \A c \in (d + 1)..((v + 1) - 1) : c \in (d + 1)..(v - 1) \/ c = v
      BY ONLY <3>2
    <3> QED  BY <3>1, <3>2, <3>3
  <2>10. AllBlank(i)
    BY <2>6, <2>8, <2>9
  <2> QED  BY <2>4, <2>10
<1>4. q[k] \in Nat /\ d < q[k] /\ \A c \in (d + 1)..(q[k] - 1) : IsBlank(s, c)
  <2>1. k \in 1..k
    BY <1>0
  <2>2. AllBlank(k)
    BY <1>3, <2>1
  <2> QED  BY <1>2, <2>1, <2>2
<1> HIDE DEF AllBlank, T
<1> QED  BY <1>1, <1>4

(* The first cell that is not blank, as the frame the device sent has it.  *)
LEMMA SentFrameCells ==
  ASSUME NEW s \in Session, NEW d \in Nat, NEW n \in Nat, NEW o \in Nat,
         d < n, d = 0 \/ IsClose(s, d), IsClose(s, n),
         \A c \in (d + 1)..(n - 1) : ~IsClose(s, c),
         d < o, ~IsBlank(s, o), \A c \in (d + 1)..(o - 1) : IsBlank(s, c)
  PROVE  /\ o <= n
         /\ SentFrame(s, n) = Span(o, n)
<1> DEFINE m == n - d
           f == [i \in 1..m |-> d + i]
<1>1. Sent(s, n) = f
  BY SentCells
<1>2. m \in Nat /\ m >= 1 /\ f \in Seq(Nat) /\ Len(f) = m
  <2>1. m \in Nat /\ m >= 1
    OBVIOUS
  <2>2. f \in [1..m -> Nat]
    BY <2>1
  <2> QED  BY <2>1, <2>2, SeqDef
<1>3. \A i \in 1..m : f[i] = d + i
  BY <1>2
<1>4. ~IsBlank(s, n)
  BY SessionAssumption DEF IsClose, IsBlank
<1>5. o <= n
  <2>1. SUFFICES ASSUME n < o PROVE FALSE
    OBVIOUS
  <2>2. n \in (d + 1)..(o - 1)
    BY <2>1
  <2> QED  BY <1>4, <2>2
<1> HIDE DEF f
<1>6. Runs(f, d)
  BY <1>2, <1>3 DEF Runs
<1>7. m \in 1..Len(f) /\ ~IsBlank(s, f[m])
  BY <1>2, <1>3, <1>4
<1>8. PICK k \in 1..m : /\ Trim(s, f) = SubSeq(f, k, Len(f))
                        /\ f[k] \in Nat /\ d < f[k]
                        /\ ~IsBlank(s, f[k])
                        /\ \A c \in (d + 1)..(f[k] - 1) : IsBlank(s, c)
  BY <1>2, <1>6, <1>7, TrimRuns
<1>9. f[k] = o
  <2>1. ~(o < f[k])
    <3>1. SUFFICES ASSUME o < f[k] PROVE FALSE
      OBVIOUS
    <3>2. o \in (d + 1)..(f[k] - 1)
      BY <1>8, <3>1
    <3> QED  BY <1>8, <3>2
  <2>2. ~(f[k] < o)
    <3>1. SUFFICES ASSUME f[k] < o PROVE FALSE
      OBVIOUS
    <3>2. f[k] \in (d + 1)..(o - 1)
      BY <1>8, <3>1
    <3> QED  BY <1>8, <3>2
  <2> QED  BY <1>8, <2>1, <2>2
<1>10. /\ k \in Nat /\ k >= 1 /\ k <= m /\ o = d + k
       /\ m - k + 1 = n - o + 1
  BY <1>2, <1>3, <1>8, <1>9
<1> DEFINE t == SubSeq(f, k, m)
<1>11. /\ t \in Seq(Nat) /\ Len(t) = n - o + 1
       /\ \A i \in 1..(n - o + 1) : t[i] = o + i - 1
  <2>1. \A i \in k..m : f[i] \in Nat
    BY <1>2, <1>10, ElementOfSeq
  <2>2. /\ t \in Seq(Nat) /\ Len(t) = m - k + 1
        /\ \A i \in 1..(m - k + 1) : t[i] = f[k + i - 1]
    <3> HIDE DEF m
    <3>1. k \in Int /\ m \in Int /\ k <= m
      BY <1>2, <1>10
    <3> QED  BY ONLY <2>1, <3>1, SubSeqProperties
  <2> HIDE DEF t
  <2>3. ASSUME NEW i \in 1..(m - k + 1)
        PROVE  f[k + i - 1] = o + i - 1
    <3>1. k + i - 1 \in 1..m
      BY <1>2, <1>10
    <3>2. f[k + i - 1] = d + (k + i - 1)
      BY <1>3, <3>1
    <3> QED  BY <1>10, <3>2
  <2>4. \A i \in 1..(m - k + 1) : t[i] = o + i - 1
    BY <2>2, <2>3
  <2> HIDE DEF m
  <2> QED  BY <1>10, <2>2, <2>4
<1> DEFINE g == Span(o, n)
<1>12. /\ g \in Seq(Nat) /\ Len(g) = n - o + 1
       /\ \A i \in 1..(n - o + 1) : g[i] = o + i - 1
  <2>1. n - o + 1 \in Nat
    BY <1>5
  <2>2. g \in [1..(n - o + 1) -> Nat]
    BY <1>5 DEF Span
  <2> QED  BY <2>1, <2>2, SeqDef DEF Span
<1>13. t = g
  <2> HIDE DEF t, g
  <2>1. Len(t) = Len(g) /\ \A i \in 1..Len(t) : t[i] = g[i]
    BY <1>11, <1>12
  <2> QED  BY <1>11, <1>12, <2>1, SeqEqual
<1>14. SentFrame(s, n) = t
  BY <1>1, <1>2, <1>8 DEF SentFrame
<1> QED  BY <1>5, <1>13, <1>14

(* The string the loop has copied begins like the frame the device sent.   *)
LEMMA FrameBegins ==
  ASSUME SessionTypeOK, FrameInv, RunsInHand, NEW s \in Session, running = s,
         NEW k \in 1..Len(rest), FirstCloseAt(s, rest, k)
  PROVE  BeginsLikeSent(s, Trim(s, Filled(s, k)))
<1> DEFINE q == Filled(s, k)
<1>0. /\ rest \in Seq(1..pos[s]) /\ buff[s] \in Seq(1..pos[s]) /\ pos[s] \in Nat
      /\ Len(rest) \in Nat /\ Len(buff[s]) \in Nat /\ k \in 0..Len(rest) /\ k \in Nat
      /\ rest \in Seq(Nat) /\ buff[s] \in Seq(Nat)
  <2>1. /\ rest \in Seq(1..pos[s]) /\ buff[s] \in Seq(1..pos[s]) /\ pos[s] \in Nat
        /\ Len(rest) \in Nat /\ Len(buff[s]) \in Nat /\ k \in 0..Len(rest) /\ k \in Nat
    BY SessionAssumption DEF SessionTypeOK
  <2>2. Seq(1..pos[s]) \subseteq Seq(Nat)
    BY <2>1, PositionsAreNumbers
  <2> QED  BY <2>1, <2>2
<1>1. PICK d \in Nat, n \in Nat : d = Done(s) /\ n = rest[k]
  <2>1. Done(s) \in 0..pos[s] /\ rest[k] \in 1..pos[s]
    BY SMTT(20), <1>0, NextClose
  <2> QED  BY <1>0, <2>1
<1>2. /\ d \in 0..pos[s]
      /\ d = 0 \/ IsClose(s, d)
      /\ n \in (d + 1)..pos[s] /\ IsClose(s, n)
      /\ \A c \in (d + 1)..(n - 1) : ~IsClose(s, c)
  BY <1>1, NextClose
<1>3. d \in Nat /\ n \in Nat /\ d < n
  BY <1>0, <1>2
<1>4. /\ q \in Seq(Nat) /\ Len(q) = Len(buff[s]) + k
      /\ \A i \in 1..k : q[Len(buff[s]) + i] = rest[i]
  BY <1>0, FilledProperties
<1>5. Runs(q, d)
  <2>1. Runs(buff[s], d) /\ Runs(rest, d)
    BY <1>1, SessionAssumption DEF RunsInHand
  <2> DEFINE h == SubSeq(rest, 1, k)
  <2>2. h \in Seq(Nat) /\ Len(h) = k /\ \A i \in 1..k : h[i] = rest[i]
    <3>1. \A i \in 1..k : rest[i] \in Nat
      BY <1>0, ElementOfSeq
    <3> QED  BY <1>0, <3>1, SubSeqProperties
  <2> HIDE DEF h
  <2>3. Runs(h, d)
    <3>1. \A i \in 1..k : i \in 1..Len(rest) /\ (i > 1 => i - 1 \in 1..k)
      BY SMTT(20), <1>0
    <3> QED  BY <2>1, <2>2, <3>1 DEF Runs
  <2>4. Runs(buff[s] \o h, d)
    BY <1>0, <1>3, <2>1, <2>2, <2>3, RunsConcat
  <2> QED  BY <2>4 DEF h, Filled
<1> HIDE DEF q
<1> DEFINE L == Len(q)
<1>6. L \in 1..L /\ L \in Nat /\ q[L] = n /\ ~IsBlank(s, q[L])
  <2>1. L \in 1..L /\ L \in Nat
    BY <1>0, <1>4
  <2>2. k \in 1..k
    BY <1>0
  <2>3. q[L] = n
    BY <1>1, <1>4, <2>2
  <2> QED  BY <1>2, <2>1, <2>3, SessionAssumption DEF IsClose, IsBlank
<1>7. PICK j \in 1..L : /\ Trim(s, q) = SubSeq(q, j, L)
                        /\ q[j] \in Nat /\ d < q[j]
                        /\ ~IsBlank(s, q[j])
                        /\ \A c \in (d + 1)..(q[j] - 1) : IsBlank(s, c)
  BY <1>3, <1>4, <1>5, <1>6, TrimRuns
<1>8. PICK o \in Nat : o = q[j]
  BY <1>7
<1>9. /\ o <= n
      /\ SentFrame(s, n) = Span(o, n)
  <2>1. d < o /\ ~IsBlank(s, o) /\ \A c \in (d + 1)..(o - 1) : IsBlank(s, c)
    BY <1>7, <1>8
  <2>2. /\ d < n /\ IsClose(s, n)
        /\ d = 0 \/ IsClose(s, d)
        /\ \A c \in (d + 1)..(n - 1) : ~IsClose(s, c)
    BY <1>2, <1>3
  <2>3. o <= n
    BY <2>1, <2>2, SentFrameCells
  <2>4. SentFrame(s, n) = Span(o, n)
    BY <2>1, <2>2, SentFrameCells
  <2> QED  BY <2>3, <2>4
<1> DEFINE t == SubSeq(q, j, L)
<1>10. /\ t \in Seq(Nat) /\ Len(t) = L - j + 1
       /\ \A i \in 1..(L - j + 1) : t[i] = q[j + i - 1]
  <2>1. \A i \in j..L : q[i] \in Nat
    <3>1. \A i \in j..L : i \in 1..Len(q)
      BY <1>6
    <3> QED  BY <1>4, <3>1, ElementOfSeq
  <2>2. j \in Int /\ j <= L /\ j \in 1..(L + 1)
    BY <1>6
  <2> HIDE DEF L
  <2> QED  BY <1>6, <2>1, <2>2, SubSeqProperties
<1> HIDE DEF t
<1>11. t[1] = o /\ LastCell(t) = n
  <2>1. 1 \in 1..(L - j + 1) /\ (L - j + 1) \in 1..(L - j + 1)
    BY <1>6
  <2>2. j + 1 - 1 = j /\ j + (L - j + 1) - 1 = L
    BY <1>6
  <2> HIDE DEF L
  <2> QED  BY <1>6, <1>8, <1>10, <2>1, <2>2 DEF LastCell
<1>12. ASSUME NEW i \in 2..Len(t), t[i] # d + 1
       PROVE  t[i] = t[i - 1] + 1
  <2>0. j \in Int /\ L \in Int /\ i \in Int /\ 2 <= i /\ i <= L - j + 1 /\ 1 <= j
    BY <1>6, <1>10
  <2>1. /\ i \in 1..(L - j + 1) /\ i - 1 \in 1..(L - j + 1)
        /\ j + (i - 1) - 1 = (j + i - 1) - 1 /\ j + i - 1 \in 1..L
    <3> HIDE DEF L
    <3> QED  BY <2>0
  <2>2. t[i] = q[j + i - 1] /\ t[i - 1] = q[(j + i - 1) - 1]
    BY <1>10, <2>1
  <2> QED  BY <1>5, <1>12, <2>1, <2>2 DEF Runs
<1>13. BeginsLikeSent(s, t)
  <2>1. \A i \in 2..Len(t) : t[i] = d + 1 \/ t[i] = t[i - 1] + 1
    BY <1>12
  <2>2. d < o /\ ~IsBlank(s, o) /\ \A c \in (d + 1)..(o - 1) : IsBlank(s, c)
    BY <1>7, <1>8
  <2> QED  BY <1>2, <1>3, <1>9, <1>11, <2>1, <2>2 DEF BeginsLikeSent
<1> QED  BY <1>7, <1>13 DEF t, q

(* Every string passed to gps->process begins like the frame that the      *)
(* device sent, until it repeats what the buffer held.                     *)
THEOREM FramesBeginLikeSentCorrect == SessionSpec => []FramesBeginLikeSent
<1>1. SessionInit => FramesBeginLikeSent
  BY DEF SessionInit, FramesBeginLikeSent
<1>2. ASSUME SessionInv, RunsInHand, FramesBeginLikeSent, [SessionNext]_sessionVars
      PROVE  FramesBeginLikeSent'
  <2>0. SessionTypeOK /\ FrameInv
    BY <1>2 DEF SessionInv, FrameInv
  <2>1. ASSUME UNCHANGED handled
        PROVE  FramesBeginLikeSent'
    BY <1>2, <2>1 DEF FramesBeginLikeSent
  <2>2. ASSUME NEW s \in Session, NEW frame, NEW reply, TakeFrame(s, frame, reply)
        PROVE  FramesBeginLikeSent'
    <3>0. /\ running = s
          /\ handled' = [handled EXCEPT ![s] = Append(handled[s], frame)]
          /\ handled \in [Session -> Seq(Seq(Nat))]
      BY <2>0, <2>2 DEF TakeFrame, SessionTypeOK
    <3>1. PICK k \in 1..Len(rest) : /\ FirstCloseAt(s, rest, k)
                                    /\ frame = Trim(s, Filled(s, k))
      BY <2>2 DEF TakeFrame
    <3>2. BeginsLikeSent(s, frame)
      BY <1>2, <2>0, <3>0, <3>1, FrameBegins
    <3>3. PICK l \in Nat : l = Len(handled[s])
      BY <3>0
    <3>4. /\ Len(handled'[s]) = l + 1
          /\ handled'[s][l + 1] = frame
          /\ \A i \in 1..l : handled'[s][i] = handled[s][i]
          /\ \A t \in Session : t # s => handled'[t] = handled[t]
      BY <3>0, <3>3
    <3>5. ASSUME NEW t \in Session, NEW i \in 1..Len(handled'[t])
          PROVE  BeginsLikeSent(t, handled'[t][i])
      <4>1. CASE t # s
        BY <1>2, <3>4, <4>1 DEF FramesBeginLikeSent
      <4>2. CASE t = s /\ i \in 1..l
        BY <1>2, <3>3, <3>4, <4>2 DEF FramesBeginLikeSent
      <4>3. CASE t = s /\ i = l + 1
        BY <3>2, <3>4, <4>3
      <4>4. t = s => i \in 1..l \/ i = l + 1
        BY <3>4
      <4> QED  BY <4>1, <4>2, <4>3, <4>4
    <3> QED  BY <3>5 DEF FramesBeginLikeSent
  <2>3. ASSUME NEW s \in Session,
               \/ Accept(s) \/ HangUp(s) \/ ReadError(s) \/ Overrun(s) \/ WriteDone(s)
               \/ FinishRead(s)
               \/ \E n \in 1..(Len(Script[s]) - pos[s]) : ReadSome(s, n)
        PROVE  FramesBeginLikeSent'
    <3>1. UNCHANGED handled
      BY <2>3 DEF Accept, HangUp, ReadError, Overrun, WriteDone, FinishRead, ReadSome
    <3> QED  BY <2>1, <3>1
  <2>4. CASE UNCHANGED sessionVars
    BY <2>1, <2>4 DEF sessionVars
  <2> QED  BY <1>2, <2>2, <2>3, <2>4 DEF SessionNext
<1>3. SessionInv /\ RunsInHand /\ FramesBeginLikeSent /\ [SessionNext]_sessionVars
        => FramesBeginLikeSent'
  BY <1>2
<1> QED  BY <1>1, <1>3, SessionInvariant, RunsInHandCorrect, PTL DEF SessionSpec
-----------------------------------------------------------------------------
(* With reads that end with whole frames nothing stays in buff, and a read *)
(* handler has exactly the cells after the last frame ahead of it.         *)
WholeReads ==
  /\ \A s \in Session : /\ buff[s] = <<>>
                        /\ pos[s] = 0 \/ IsClose(s, pos[s])
                        /\ running # s => pos[s] = Done(s)
  /\ running # Idle =>
       /\ pos[running] > 0
       /\ MaxLength > 0
       /\ Len(rest) = pos[running] - Done(running)
       /\ \A j \in 1..Len(rest) : rest[j] = Done(running) + j

FramesWhole ==
  \A s \in Session : \A i \in 1..Len(handled[s]) :
    handled[s][i] = SentFrame(s, EndOf(s, i))

(* What the loop has copied before a ')' are the cells after the last one. *)
LEMMA WholeCopies ==
  ASSUME SessionTypeOK, FramesInOrder, WholeReads, NEW s \in Session, running = s,
         NEW k \in 0..Len(rest)
  PROVE  /\ Filled(s, k) = [i \in 1..k |-> Done(s) + i]
         /\ Len(Filled(s, k)) = k
<1>0. /\ rest \in Seq(1..pos[s]) /\ buff[s] = <<>> /\ buff[s] \in Seq(1..pos[s])
      /\ pos[s] \in Nat /\ Len(rest) \in Nat /\ k \in Nat
      /\ \A j \in 1..Len(rest) : rest[j] = Done(s) + j
  BY SessionAssumption DEF SessionTypeOK, WholeReads
<1>1. PICK d \in Nat : d = Done(s)
  <2>1. Done(s) \in 0..pos[s]
    BY DoneProperties
  <2> QED  BY <1>0, <2>1
<1> DEFINE f == [i \in 1..k |-> d + i]
<1>2. f \in Seq(Nat) /\ Len(f) = k /\ \A i \in 1..k : f[i] = d + i
  <2>1. f \in [1..k -> Nat]
    BY <1>0
  <2> QED  BY <1>0, <2>1, SeqDef
<1>3. /\ Filled(s, k) \in Seq(1..pos[s])
      /\ Len(Filled(s, k)) = k
      /\ \A i \in 1..k : Filled(s, k)[i] = rest[i]
  <2>1. Len(buff[s]) = 0
    BY <1>0
  <2>2. /\ Filled(s, k) \in Seq(1..pos[s])
        /\ Len(Filled(s, k)) = Len(buff[s]) + k
        /\ \A i \in 1..k : Filled(s, k)[Len(buff[s]) + i] = rest[i]
    BY <1>0, FilledProperties
  <2>3. \A i \in 1..k : Len(buff[s]) + i = i
    BY <2>1
  <2> QED  BY <1>0, <2>1, <2>2, <2>3
<1>4. \A i \in 1..k : Filled(s, k)[i] = d + i
  <2>1. \A i \in 1..k : i \in 1..Len(rest)
    BY <1>0
  <2> QED  BY <1>0, <1>1, <1>3, <2>1
<1> HIDE DEF f
<1>5. Filled(s, k) = f
  <2>1. Len(Filled(s, k)) = Len(f)
        /\ \A i \in 1..Len(Filled(s, k)) : Filled(s, k)[i] = f[i]
    BY <1>2, <1>3, <1>4
  <2> QED  BY <1>2, <1>3, <2>1, SeqEqual
<1> QED  BY <1>1, <1>3, <1>5 DEF f

(* The string passed to gps->process is then the frame that was sent.      *)
LEMMA WholeFrame ==
  ASSUME SessionTypeOK, FrameInv, WholeReads, NEW s \in Session, running = s,
         NEW k \in 1..Len(rest), FirstCloseAt(s, rest, k)
  PROVE  Filled(s, k) = Sent(s, rest[k])
<1>0. /\ rest \in Seq(1..pos[s]) /\ pos[s] \in Nat /\ Len(rest) \in Nat /\ k \in Nat
      /\ k \in 0..Len(rest) /\ rest[k] = Done(s) + k
  BY SessionAssumption DEF SessionTypeOK, WholeReads
<1>1. PICK d \in Nat, n \in Nat : d = Done(s) /\ n = rest[k]
  <2>1. Done(s) \in 0..pos[s] /\ rest[k] \in 1..pos[s]
    BY SMTT(20), <1>0, NextClose
  <2> QED  BY <1>0, <2>1
<1>2. /\ d = 0 \/ IsClose(s, d)
      /\ n = d + k /\ k >= 1
      /\ \A c \in (d + 1)..(n - 1) : ~IsClose(s, c)
  BY SMTT(20), <1>0, <1>1, NextClose
<1>3. Sent(s, n) = [i \in 1..(n - d) |-> d + i]
  <2>1. d \in 0..(n - 1)
    BY <1>0, <1>2
  <2> QED  BY ZenonT(30), <1>2, <2>1, SentCells
<1>4. n - d = k
  BY <1>0, <1>2
<1>5. Filled(s, k) = [i \in 1..k |-> d + i]
  BY <1>0, <1>1, WholeCopies DEF FrameInv
<1> QED  BY <1>1, <1>3, <1>4, <1>5

(* WholeReads is kept.                                                     *)
THEOREM WholeReadsCorrect == SplitReads = FALSE => (SessionSpec => []WholeReads)
<1> SUFFICES ASSUME SplitReads = FALSE PROVE SessionSpec => []WholeReads
  OBVIOUS
<1>1. SessionInit => WholeReads
  BY SessionAssumption DEF SessionInit, WholeReads, Done
<1>2. ASSUME SessionInv, WholeReads, [SessionNext]_sessionVars
      PROVE  WholeReads'
  <2>0. SessionTypeOK /\ FrameInv /\ FramesInOrder
    BY <1>2 DEF SessionInv, FrameInv
  <2>1. ASSUME UNCHANGED <<pos, buff, running, rest, handled>>
        PROVE  WholeReads'
    BY <1>2, <2>1 DEF WholeReads, IsClose, Done, EndOf
  <2>2. ASSUME NEW s \in Session, NEW n \in 1..(Len(Script[s]) - pos[s]), ReadSome(s, n)
        PROVE  WholeReads'
    <3>1. /\ UNCHANGED <<buff, handled>> /\ running' = s /\ running = Idle /\ s # Idle
          /\ rest' = buff[s] \o [i \in 1..n |-> pos[s] + i]
          /\ pos' = [pos EXCEPT ![s] = pos[s] + n] /\ pos \in [Session -> Nat]
          /\ pos[s] \in Nat /\ n \in Nat /\ n >= 1 /\ buff[s] \in Seq(1..pos[s])
          /\ IsClose(s, pos[s] + n) /\ MaxLength \in Nat /\ n <= MaxLength
      BY <2>0, <2>2, SessionAssumption DEF ReadSome, SessionTypeOK
    <3>2. buff[s] = <<>> /\ pos[s] = Done(s) /\ Len(buff[s]) = 0
      BY <1>2, <3>1 DEF WholeReads
    <3>3. /\ Len(rest') = n
          /\ \A j \in 1..n : rest'[j] = pos[s] + j
      <4>1. /\ Len(rest') = Len(buff[s]) + n
            /\ \A j \in (Len(buff[s]) + 1)..(Len(buff[s]) + n) :
                 rest'[j] = pos[s] + (j - Len(buff[s]))
        <5>1. pos[s] \in Nat /\ n \in Nat /\ buff[s] \in Seq(1..pos[s])
          BY <3>1
        <5>2. rest' = buff[s] \o [i \in 1..n |-> pos[s] + i]
          BY <3>1
        <5> QED  BY ONLY ZenonT(30), <5>1, <5>2, NewCells
      <4>2. ASSUME NEW j \in 1..n
            PROVE  rest'[j] = pos[s] + j
        <5>1. j \in (Len(buff[s]) + 1)..(Len(buff[s]) + n) /\ j - Len(buff[s]) = j
          BY <3>1, <3>2
        <5> QED  BY <4>1, <5>1
      <4> QED  BY <3>1, <3>2, <4>1, <4>2
    <3>4. \A t \in Session : Done(t)' = Done(t)
      BY <3>1 DEF Done, EndOf
    <3>5. pos'[s] = pos[s] + n /\ \A t \in Session : t # s => pos'[t] = pos[t]
      BY <3>1
    <3>6. /\ pos'[s] > 0 /\ MaxLength > 0 /\ Len(rest') = pos'[s] - Done(s)
          /\ \A j \in 1..Len(rest') : rest'[j] = Done(s) + j
      BY <3>1, <3>2, <3>3, <3>5
    <3>7. ASSUME NEW t \in Session
          PROVE  /\ buff'[t] = <<>>
                 /\ pos'[t] = 0 \/ IsClose(t, pos'[t])
                 /\ running' # t => pos'[t] = Done(t)
      <4>1. CASE t = s
        BY <3>1, <3>2, <3>5, <4>1
      <4>2. CASE t # s
        <5>1. running # t
          BY <3>1, SessionAssumption
        <5> QED  BY <1>2, <3>1, <3>5, <4>2, <5>1 DEF WholeReads
      <4> QED  BY <4>1, <4>2
    <3> QED  BY <3>1, <3>4, <3>6, <3>7 DEF WholeReads, IsClose
  <2>3. ASSUME NEW s \in Session, NEW frame, NEW reply, TakeFrame(s, frame, reply)
        PROVE  WholeReads'
    <3>0. /\ running = s /\ running' = s /\ s # Idle /\ pos' = pos
          /\ handled' = [handled EXCEPT ![s] = Append(handled[s], frame)]
          /\ buff' = [buff EXCEPT ![s] = <<>>]
          /\ handled \in [Session -> Seq(Seq(Nat))] /\ buff \in [Session -> Seq(Nat)]
      BY <2>0, <2>3, SessionAssumption DEF TakeFrame, SessionTypeOK
    <3>1. PICK k \in 1..Len(rest) : /\ FirstCloseAt(s, rest, k)
                                    /\ frame = Trim(s, Filled(s, k))
                                    /\ rest' = SubSeq(rest, k + 1, Len(rest))
      BY <2>3 DEF TakeFrame
    <3>2. LastCell(frame) = rest[k]
      BY <2>0, <3>0, <3>1, FrameProperties DEF LastCell
    <3>3. PICK l \in Nat : l = Len(handled[s])
      BY <3>0
    <3>4. /\ Len(handled'[s]) = l + 1 /\ handled'[s][l + 1] = frame
          /\ handled'[s] # <<>>
          /\ \A t \in Session : t # s => handled'[t] = handled[t]
      <4>1. handled'[s] = Append(handled[s], frame) /\ handled[s] \in Seq(Seq(Nat))
        BY <3>0
      <4>2. Len(handled'[s]) = l + 1 /\ handled'[s][l + 1] = frame
        BY <3>3, <4>1
      <4>3. handled'[s] # <<>>
        BY <4>2
      <4> QED  BY <3>0, <4>2, <4>3
    <3>5. /\ Done(s)' = rest[k]
          /\ \A t \in Session : t # s => Done(t)' = Done(t)
      BY <3>2, <3>3, <3>4 DEF Done, EndOf
    <3>6. /\ Len(rest') = pos[s] - rest[k]
          /\ \A j \in 1..Len(rest') : rest'[j] = rest[k] + j
      BY <2>0, <3>0, <3>1, RestAfterFrame
    <3>7. ASSUME NEW t \in Session
          PROVE  /\ buff'[t] = <<>>
                 /\ pos'[t] = 0 \/ IsClose(t, pos'[t])
                 /\ running' # t => pos'[t] = Done(t)'
      BY <1>2, <3>0, <3>5 DEF WholeReads
    <3>8. pos'[s] > 0 /\ MaxLength > 0
      BY <1>2, <3>0 DEF WholeReads
    <3> QED  BY <3>0, <3>5, <3>6, <3>7, <3>8 DEF WholeReads, IsClose
  <2>4. ASSUME NEW s \in Session, FinishRead(s)
        PROVE  WholeReads'
    <3>0. /\ running = s /\ running' = Idle /\ s # Idle /\ handled' = handled
          /\ pos' = pos /\ rest' = <<>>
          /\ buff' = [buff EXCEPT ![s] = Filled(s, Len(rest))]
          /\ buff \in [Session -> Seq(Nat)]
          /\ rest \in Seq(1..pos[s]) /\ buff[s] \in Seq(1..pos[s]) /\ pos[s] \in Nat
          /\ \A k \in 1..Len(rest) : ~IsClose(s, rest[k])
      BY <2>0, <2>4, SessionAssumption DEF FinishRead, SessionTypeOK
    <3>1. PICK d \in 0..pos[s] : d = Done(s)
      BY <2>0, DoneProperties
    <3>2. /\ pos[s] > 0 /\ IsClose(s, pos[s]) /\ Len(rest) = pos[s] - d
          /\ \A j \in 1..Len(rest) : rest[j] = d + j
          /\ buff[s] = <<>>
      BY <1>2, <3>0, <3>1 DEF WholeReads
    <3>3. pos[s] = d
      <4>1. SUFFICES ASSUME pos[s] # d PROVE FALSE
        OBVIOUS
      <4>2. Len(rest) \in 1..Len(rest) /\ rest[Len(rest)] = pos[s]
        <5>1. Len(rest) \in 1..Len(rest) /\ d + Len(rest) = pos[s]
          BY <3>0, <3>1, <3>2, <4>1
        <5> QED  BY <3>2, <5>1
      <4> QED  BY <3>0, <3>2, <4>2
    <3>4. rest = <<>>
      <4>1. Len(rest) = 0
        BY <3>0, <3>2, <3>3
      <4> QED  BY <3>0, <4>1, EmptySeq
    <3>5. buff'[s] = <<>> /\ \A t \in Session : t # s => buff'[t] = buff[t]
      <4>1. Filled(s, Len(rest)) = buff[s] \o rest
        BY <3>0, SubSeqFull DEF Filled
      <4>2. buff[s] \o rest = <<>>
        BY <3>2, <3>4
      <4> QED  BY <3>0, <4>1, <4>2
    <3>6. \A t \in Session : Done(t)' = Done(t)
      BY <3>0 DEF Done, EndOf
    <3>7. ASSUME NEW t \in Session
          PROVE  /\ buff'[t] = <<>>
                 /\ pos'[t] = 0 \/ IsClose(t, pos'[t])
                 /\ pos'[t] = Done(t)
      BY <1>2, <3>0, <3>1, <3>3, <3>5 DEF WholeReads
    <3> QED  BY <3>0, <3>6, <3>7 DEF WholeReads, IsClose
  <2>5. ASSUME NEW s \in Session,
               Accept(s) \/ HangUp(s) \/ ReadError(s) \/ Overrun(s) \/ WriteDone(s)
        PROVE  WholeReads'
    <3>1. UNCHANGED <<pos, buff, running, rest, handled>>
      BY <2>5 DEF Accept, HangUp, ReadError, Overrun, WriteDone
    <3> QED  BY <2>1, <3>1
  <2>6. CASE UNCHANGED sessionVars
    BY <2>1, <2>6 DEF sessionVars
  <2> QED  BY <1>2, <2>2, <2>3, <2>4, <2>5, <2>6 DEF SessionNext
<1>3. SessionInv /\ WholeReads /\ [SessionNext]_sessionVars => WholeReads'
  BY <1>2
<1> QED  BY <1>1, <1>3, SessionInvariant, PTL DEF SessionSpec

(* With such reads gps->process gets the frames exactly as they were sent. *)
THEOREM FramesWholeCorrect == SplitReads = FALSE => (SessionSpec => []FramesWhole)
<1> SUFFICES ASSUME SplitReads = FALSE PROVE SessionSpec => []FramesWhole
  OBVIOUS
<1>1. SessionInit => FramesWhole
  BY DEF SessionInit, FramesWhole
<1>2. ASSUME SessionInv, WholeReads, FramesWhole, [SessionNext]_sessionVars
      PROVE  FramesWhole'
  <2>0. SessionTypeOK /\ FrameInv
    BY <1>2 DEF SessionInv, FrameInv
  <2>1. ASSUME UNCHANGED handled
        PROVE  FramesWhole'
    BY SMTT(20), <1>2, <2>1 DEF FramesWhole, EndOf
  <2>2. ASSUME NEW s \in Session, NEW frame, NEW reply, TakeFrame(s, frame, reply)
        PROVE  FramesWhole'
    <3>0. /\ running = s
          /\ handled' = [handled EXCEPT ![s] = Append(handled[s], frame)]
          /\ handled \in [Session -> Seq(Seq(Nat))]
      BY <2>0, <2>2 DEF TakeFrame, SessionTypeOK
    <3>1. PICK k \in 1..Len(rest) : /\ FirstCloseAt(s, rest, k)
                                    /\ frame = Trim(s, Filled(s, k))
      BY <2>2 DEF TakeFrame
    <3>2. frame = SentFrame(s, LastCell(frame))
      <4>1. LastCell(frame) = rest[k]
        BY <2>0, <3>0, <3>1, FrameProperties DEF LastCell
      <4>2. Filled(s, k) = Sent(s, rest[k])
        BY <1>2, <2>0, <3>0, <3>1, WholeFrame
      <4> QED  BY <3>1, <4>1, <4>2 DEF SentFrame
    <3>3. PICK l \in Nat : l = Len(handled[s])
      BY <3>0
    <3>4. /\ Len(handled'[s]) = l + 1
          /\ handled'[s][l + 1] = frame
          /\ \A i \in 1..l : handled'[s][i] = handled[s][i]
          /\ \A t \in Session : t # s => handled'[t] = handled[t]
      BY <3>0, <3>3
    <3>5. ASSUME NEW t \in Session, NEW i \in 1..Len(handled'[t])
          PROVE  handled'[t][i] = SentFrame(t, LastCell(handled'[t][i]))
      <4>1. CASE t # s
        BY <1>2, <3>4, <4>1 DEF FramesWhole, EndOf
      <4>2. CASE t = s /\ i \in 1..l
        BY <1>2, <3>3, <3>4, <4>2 DEF FramesWhole, EndOf
      <4>3. CASE t = s /\ i = l + 1
        BY <3>2, <3>4, <4>3
      <4>4. t = s => i \in 1..l \/ i = l + 1
        BY <3>4
      <4> QED  BY <4>1, <4>2, <4>3, <4>4
    <3> QED  BY <3>5 DEF FramesWhole, EndOf, SentFrame, Sent, Trim, IsClose, IsBlank
  <2>3. ASSUME NEW s \in Session,
               \/ Accept(s) \/ HangUp(s) \/ ReadError(s) \/ Overrun(s) \/ WriteDone(s)
               \/ FinishRead(s)
               \/ \E n \in 1..(Len(Script[s]) - pos[s]) : ReadSome(s, n)
        PROVE  FramesWhole'
    <3>1. UNCHANGED handled
      BY <2>3 DEF Accept, HangUp, ReadError, Overrun, WriteDone, FinishRead, ReadSome
    <3> QED  BY <2>1, <3>1
  <2>4. CASE UNCHANGED sessionVars
    BY <2>1, <2>4 DEF sessionVars
  <2> QED  BY <1>2, <2>2, <2>3, <2>4 DEF SessionNext
<1>3. SessionInv /\ WholeReads /\ FramesWhole /\ [SessionNext]_sessionVars => FramesWhole'
  BY <1>2
<1> QED  BY <1>1, <1>3, SessionInvariant, WholeReadsCorrect, PTL DEF SessionSpec
-----------------------------------------------------------------------------
(* How many of the cells in hand the running read handler has brought; the *)
(* others, and what they left in buff, are older.                          *)
Fresh(s) == IF running = s THEN Len(rest) - Len(buff[s]) ELSE 0

(* What is left in buff takes up at most growth / 2 times the older cells  *)
(* of the frame in hand.                                                   *)
Grown(s) ==
  /\ growth[s] >= 1
  /\ Fresh(s) \in 0..(pos[s] - Done(s))
  /\ 2 * Len(buff[s]) <= growth[s] * ((pos[s] - Done(s)) - Fresh(s))

GrowthInv ==
  /\ \A s \in Session : Grown(s)
  /\ running # Idle =>
       /\ MaxLength > 0
       /\ \A j \in 1..Len(buff[running]) : ~IsClose(running, rest[j])

(* After an overrun the read handler stays where the array ended.          *)
StaysOverrun ==
  overrun =>
    \E s \in Session :
      /\ running = s
      /\ \E k \in 0..Len(rest) : /\ \A j \in 1..k : IsClose(s, rest[j]) => j = k
                               /\ ~Fits(Filled(s, k))

(* The arithmetic of growing: m new cells that are copied once, beside b   *)
(* that are doubled, keep the bound, and k of the new ones keep it so far. *)
LEMMA GrowthArithmetic ==
  ASSUME NEW g \in Nat, g >= 1, NEW old \in Nat, NEW b \in Nat, NEW m \in Nat,
         2 * b <= g * old
  PROVE  /\ 2 * b + m <= g * (old + m)
         /\ 2 * (2 * b + m) <= (2 * g) * (old + m)
<1>1. g * (old + m) = g * old + g * m
  OBVIOUS
<1>2. m <= g * m
  OBVIOUS
<1>3. (2 * g) * (old + m) = 2 * (g * (old + m))
  OBVIOUS
<1>4. g * old \in Nat /\ g * m \in Nat
  OBVIOUS
<1>5. 2 * b + m <= g * (old + m)
  BY ONLY <1>1, <1>2, <1>4, 2 * b <= g * old, b \in Nat, m \in Nat
<1>6. 2 * (2 * b + m) <= 2 * (g * (old + m))
  <2>1. g * (old + m) \in Nat
    OBVIOUS
  <2> QED  BY ONLY <1>5, <2>1, b \in Nat, m \in Nat
<1> QED  BY <1>3, <1>5, <1>6

(* What is left in buff grows as the history says.                         *)
THEOREM GrowthInvariant == SessionSpec => []GrowthInv
<1>1. SessionInit => GrowthInv
  <2> SUFFICES ASSUME SessionInit PROVE GrowthInv
    OBVIOUS
  <2>1. ASSUME NEW s \in Session PROVE Grown(s)
    <3>1. /\ Fresh(s) = 0 /\ Done(s) = 0 /\ pos[s] = 0
          /\ growth[s] = 1 /\ Len(buff[s]) = 0
      BY SessionAssumption DEF SessionInit, Fresh, Done
    <3> QED  BY <3>1 DEF Grown
  <2> QED  BY <2>1 DEF SessionInit, GrowthInv
<1>2. ASSUME SessionInv, GrowthInv, [SessionNext]_sessionVars
      PROVE  GrowthInv'
  <2>0. SessionTypeOK /\ FrameInv
    BY <1>2 DEF SessionInv, FrameInv
  <2>1. ASSUME UNCHANGED <<pos, buff, running, rest, handled, growth>>
        PROVE  GrowthInv'
    BY <1>2, <2>1 DEF GrowthInv, Grown, Fresh, Done, EndOf, IsClose
  <2>2. ASSUME NEW s \in Session, NEW n \in 1..(Len(Script[s]) - pos[s]), ReadSome(s, n)
        PROVE  GrowthInv'
    <3>1. /\ UNCHANGED <<buff, handled, growth>> /\ running' = s /\ running = Idle
          /\ s # Idle /\ rest' = buff[s] \o [i \in 1..n |-> pos[s] + i]
          /\ pos' = [pos EXCEPT ![s] = pos[s] + n] /\ pos \in [Session -> Nat]
          /\ pos[s] \in Nat /\ n \in Nat /\ buff[s] \in Seq(1..pos[s])
          /\ n <= MaxLength /\ n >= 1 /\ MaxLength \in Nat
      BY <2>0, <2>2, SessionAssumption DEF ReadSome, SessionTypeOK
    <3>2. /\ Len(rest') = Len(buff[s]) + n
          /\ \A j \in 1..Len(buff[s]) : rest'[j] = buff[s][j]
      <4>1. pos[s] \in Nat /\ n \in Nat /\ buff[s] \in Seq(1..pos[s])
        BY <3>1
      <4>2. rest' = buff[s] \o [i \in 1..n |-> pos[s] + i]
        BY <3>1
      <4> QED  BY ONLY ZenonT(30), <4>1, <4>2, NewCells
    <3>3. \A t \in Session : Done(t)' = Done(t)
      BY <3>1 DEF Done, EndOf
    <3>4. \A t \in Session : Fresh(t) = 0 /\ (t # s => Fresh(t)' = 0)
      BY <3>1, SessionAssumption DEF Fresh
    <3>5. Fresh(s)' = n
      <4>1. Len(buff[s]) \in Nat
        BY <3>1
      <4> QED  BY <3>1, <3>2, <4>1 DEF Fresh
    <3>6. ASSUME NEW t \in Session PROVE Grown(t)'
      <4>1. PICK d \in 0..pos[t] : d = Done(t)
        BY <2>0, DoneProperties DEF FrameInv
      <4>2. growth[t] >= 1 /\ 2 * Len(buff[t]) <= growth[t] * ((pos[t] - d) - 0)
        BY <1>2, <3>4, <4>1 DEF GrowthInv, Grown
      <4>3. CASE t = s
        <5>1. pos'[t] = pos[t] + n /\ (pos'[t] - d) - n = (pos[t] - d) - 0
          BY <3>1, <4>1, <4>3
        <5>2. n \in 0..(pos'[t] - d)
          <6>1. pos[t] \in Nat /\ n \in Nat /\ d \in 0..pos[t] /\ pos'[t] = pos[t] + n
            BY <3>1, <4>1, <4>3, <5>1
          <6> QED  BY ONLY <6>1
        <5> QED  BY <3>1, <3>3, <3>5, <4>1, <4>2, <4>3, <5>1, <5>2 DEF Grown
      <4>4. CASE t # s
        <5>1. pos'[t] = pos[t] /\ 0 \in 0..(pos[t] - d)
          BY <3>1, <4>1, <4>4
        <5> QED  BY <3>1, <3>3, <3>4, <4>1, <4>2, <4>4, <5>1 DEF Grown
      <4> QED  BY <4>3, <4>4
    <3>7. \A j \in 1..Len(buff[s]) : ~IsClose(s, rest'[j])
      BY <2>0, <3>2 DEF FrameInv, BuffHasNoClose
    <3>8. MaxLength > 0
      BY <3>1
    <3> QED  BY <3>1, <3>6, <3>7, <3>8 DEF GrowthInv, IsClose
  <2>3. ASSUME NEW s \in Session, NEW frame, NEW reply, TakeFrame(s, frame, reply)
        PROVE  GrowthInv'
    <3>0. /\ running = s /\ running' = s /\ s # Idle /\ pos' = pos
          /\ handled' = [handled EXCEPT ![s] = Append(handled[s], frame)]
          /\ buff' = [buff EXCEPT ![s] = <<>>]
          /\ growth' = [growth EXCEPT ![s] = 1]
          /\ handled \in [Session -> Seq(Seq(Nat))] /\ buff \in [Session -> Seq(Nat)]
          /\ growth \in [Session -> Nat]
          /\ rest \in Seq(1..pos[s]) /\ pos[s] \in Nat
      BY <2>0, <2>3, SessionAssumption DEF TakeFrame, SessionTypeOK
    <3>1. PICK k \in 1..Len(rest) : /\ FirstCloseAt(s, rest, k)
                                    /\ frame = Trim(s, Filled(s, k))
                                    /\ rest' = SubSeq(rest, k + 1, Len(rest))
      BY <2>3 DEF TakeFrame
    <3>2. LastCell(frame) = rest[k]
      BY <2>0, <3>0, <3>1, FrameProperties DEF LastCell
    <3>3. PICK l \in Nat : l = Len(handled[s])
      BY <3>0
    <3>4. /\ Len(handled'[s]) = l + 1 /\ handled'[s][l + 1] = frame
          /\ handled'[s] # <<>>
          /\ \A t \in Session : t # s => handled'[t] = handled[t]
      <4>1. handled'[s] = Append(handled[s], frame) /\ handled[s] \in Seq(Seq(Nat))
        BY <3>0
      <4>2. Len(handled'[s]) = l + 1 /\ handled'[s][l + 1] = frame
        BY <3>3, <4>1
      <4>3. handled'[s] # <<>>
        BY <4>2
      <4> QED  BY <3>0, <4>2, <4>3
    <3>5. /\ Done(s)' = rest[k]
          /\ \A t \in Session : t # s => Done(t)' = Done(t)
      BY <3>2, <3>3, <3>4 DEF Done, EndOf
    <3>6. Len(rest') = pos[s] - rest[k] /\ rest[k] \in 1..pos[s]
      <4>1. Len(rest') = pos[s] - rest[k]
        BY <2>0, <3>0, <3>1, RestAfterFrame
      <4> QED  BY <3>0, <3>1, <4>1
    <3>7. ASSUME NEW t \in Session PROVE Grown(t)'
      <4>1. CASE t = s
        <5>1. Fresh(s)' = pos[s] - rest[k] /\ Len(buff'[s]) = 0 /\ growth'[s] = 1
          BY <3>0, <3>6 DEF Fresh
        <5>2. PICK x \in Nat : x = pos[s] - rest[k]
          BY <3>0, <3>6
        <5>3. x \in 0..x /\ 2 * 0 <= 1 * (x - x)
          OBVIOUS
        <5>4. /\ pos'[s] - Done(s)' = x /\ Fresh(s)' = x
              /\ growth'[s] = 1 /\ Len(buff'[s]) = 0
          BY <3>0, <3>5, <5>1, <5>2
        <5> QED  BY <4>1, <5>3, <5>4 DEF Grown
      <4>2. CASE t # s
        <5>1. Fresh(t)' = Fresh(t) /\ buff'[t] = buff[t] /\ growth'[t] = growth[t]
          BY <3>0, <4>2 DEF Fresh
        <5> QED  BY <1>2, <3>0, <3>5, <4>2, <5>1 DEF GrowthInv, Grown
      <4> QED  BY <4>1, <4>2
    <3>8. MaxLength > 0 /\ \A j \in 1..Len(buff'[s]) : FALSE
      BY <1>2, <3>0 DEF GrowthInv
    <3> QED  BY <3>0, <3>7, <3>8 DEF GrowthInv
  <2>4. ASSUME NEW s \in Session, FinishRead(s)
        PROVE  GrowthInv'
    <3>0. /\ running = s /\ running' = Idle /\ s # Idle /\ handled' = handled
          /\ pos' = pos /\ rest' = <<>>
          /\ buff' = [buff EXCEPT ![s] = Filled(s, Len(rest))]
          /\ growth' = [growth EXCEPT ![s] = IF rest = <<>> THEN @ ELSE 2 * @]
          /\ buff \in [Session -> Seq(Nat)] /\ growth \in [Session -> Nat]
          /\ rest \in Seq(1..pos[s]) /\ buff[s] \in Seq(1..pos[s]) /\ pos[s] \in Nat
      BY <2>0, <2>4, SessionAssumption DEF FinishRead, SessionTypeOK
    <3>1. \A t \in Session : Done(t)' = Done(t)
      BY <3>0 DEF Done, EndOf
    <3>2. \A t \in Session : Fresh(t)' = 0 /\ (t # s => Fresh(t) = 0)
      BY <3>0, SessionAssumption DEF Fresh
    <3>3. PICK b, m : b = Len(buff[s]) /\ m = Len(rest) - Len(buff[s])
      OBVIOUS
    <3>4. Fresh(s) = m
      BY <3>0, <3>3 DEF Fresh
    <3>5. buff'[s] = Filled(s, Len(rest)) /\ Len(buff'[s]) = 2 * b + m
      <4>1. Len(rest) \in 0..Len(rest)
        BY <3>0
      <4>2. Len(Filled(s, Len(rest))) = Len(buff[s]) + Len(rest)
        BY <3>0, <4>1, FilledProperties
      <4>3. Len(buff[s]) + Len(rest) = 2 * b + m
        <5>1. Len(buff[s]) \in Nat /\ Len(rest) \in Nat
          BY <3>0
        <5> QED  BY ONLY <3>3, <5>1
      <4> QED  BY <3>0, <4>2, <4>3
    <3>6. ASSUME NEW t \in Session PROVE Grown(t)'
      <4>1. PICK d \in 0..pos[t] : d = Done(t)
        BY <2>0, DoneProperties DEF FrameInv
      <4>2. /\ growth[t] >= 1 /\ Fresh(t) \in 0..(pos[t] - d)
            /\ 2 * Len(buff[t]) <= growth[t] * ((pos[t] - d) - Fresh(t))
        BY <1>2, <4>1 DEF GrowthInv, Grown
      <4>3. 0 \in 0..(pos[t] - d) /\ (pos[t] - d) - 0 = pos[t] - d
        <5>1. pos[t] \in Nat
          BY <2>0 DEF SessionTypeOK
        <5> QED  BY ONLY <4>1, <5>1, d \in 0..pos[t]
      <4>4. CASE t = s
        <5>0. /\ m \in 0..(pos[s] - d) /\ d \in 0..pos[s] /\ pos[s] \in Nat
              /\ growth[s] \in Nat /\ b \in Nat
          BY <3>0, <3>3, <3>4, <4>1, <4>2, <4>4
        <5>1. PICK old \in Nat : old = (pos[s] - d) - m
          BY ONLY <5>0
        <5>2. /\ m \in Nat /\ old + m = pos[s] - d
              /\ 2 * b <= growth[s] * old /\ growth[s] \in Nat /\ b \in Nat
          <6>1. m \in Nat /\ old + m = pos[s] - d
            BY ONLY <5>0, <5>1
          <6> QED  BY <3>3, <3>4, <4>2, <4>4, <5>0, <5>1, <6>1
        <5>3. /\ 2 * b + m <= growth[s] * (old + m)
              /\ 2 * (2 * b + m) <= (2 * growth[s]) * (old + m)
          BY <4>2, <4>4, <5>2, GrowthArithmetic
        <5>4. CASE rest = <<>>
          <6>1. b = 0 /\ m = 0
            BY <3>3, <5>2, <5>4
          <6>2. growth'[s] = growth[s] /\ Len(buff'[s]) = 0
            BY <3>0, <3>5, <5>4, <6>1
          <6>3. 2 * 0 <= growth[s] * (pos[s] - d)
            BY <5>2, <6>1
          <6> QED  BY <3>0, <3>1, <3>2, <4>1, <4>2, <4>3, <4>4, <6>2, <6>3 DEF Grown
        <5>5. CASE rest # <<>>
          <6>1. growth'[s] = 2 * growth[s] /\ 2 * growth[s] >= 1
            BY <3>0, <4>2, <4>4, <5>2, <5>5
          <6>2. 2 * Len(buff'[s]) <= growth'[s] * (pos[s] - d)
            BY <3>5, <5>2, <5>3, <6>1
          <6> QED  BY <3>0, <3>1, <3>2, <4>1, <4>3, <4>4, <6>1, <6>2 DEF Grown
        <5> QED  BY <5>4, <5>5
      <4>5. CASE t # s
        <5>1. buff'[t] = buff[t] /\ growth'[t] = growth[t] /\ Fresh(t) = 0
          BY <3>0, <3>2, <4>5
        <5> QED  BY <3>0, <3>1, <3>2, <4>1, <4>2, <4>3, <5>1 DEF Grown
      <4> QED  BY <4>4, <4>5
    <3> QED  BY <3>0, <3>6 DEF GrowthInv
  <2>5. ASSUME NEW s \in Session,
               Accept(s) \/ HangUp(s) \/ ReadError(s) \/ Overrun(s) \/ WriteDone(s)
        PROVE  GrowthInv'
    <3>1. UNCHANGED <<pos, buff, running, rest, handled, growth>>
      BY <2>5 DEF Accept, HangUp, ReadError, Overrun, WriteDone
    <3> QED  BY <2>1, <3>1
  <2>6. CASE UNCHANGED sessionVars
    BY <2>1, <2>6 DEF sessionVars
  <2> QED  BY <1>2, <2>2, <2>3, <2>4, <2>5, <2>6 DEF SessionNext
<1>3. SessionInv /\ GrowthInv /\ [SessionNext]_sessionVars => GrowthInv'
  BY <1>2
<1> QED  BY <1>1, <1>3, SessionInvariant, PTL DEF SessionSpec

(* Nothing is copied beyond the end of the array twice, and no frame that  *)
(* goes beyond it is processed: the read handler stays where it was.       *)
LEMMA StaysOverrunNext ==
  ASSUME SessionInv, StaysOverrun, [SessionNext]_sessionVars
  PROVE  StaysOverrun'
<1>0. SessionTypeOK
  BY DEF SessionInv
<1>1. ASSUME UNCHANGED <<buff, running, rest, overrun>>
      PROVE  StaysOverrun'
  BY <1>1 DEF StaysOverrun, Fits, Filled, IsClose
<1>2. ASSUME NEW s \in Session, Overrun(s)
      PROVE  StaysOverrun'
  BY <1>2 DEF Overrun, StaysOverrun, Fits, Filled, IsClose
<1>3. ASSUME overrun, NEW s \in Session, running = s,
             NEW h \in 0..Len(rest), Fits(Filled(s, h)),
             h = Len(rest) \/ FirstCloseAt(s, rest, h),
             h = Len(rest) => \A j \in 1..(h - 1) : ~IsClose(s, rest[j])
      PROVE  FALSE
  <2>1. PICK k \in 0..Len(rest) : /\ \A j \in 1..k : IsClose(s, rest[j]) => j = k
                                  /\ ~Fits(Filled(s, k))
    BY <1>3 DEF StaysOverrun
  <2>2. /\ rest \in Seq(1..pos[s]) /\ buff[s] \in Seq(1..pos[s]) /\ MaxLength \in Nat
        /\ Len(rest) \in Nat /\ Len(buff[s]) \in Nat
    BY <1>0, <1>3, SessionAssumption DEF SessionTypeOK
  <2>3. /\ Len(Filled(s, h)) = Len(buff[s]) + h
        /\ Len(Filled(s, k)) = Len(buff[s]) + k
    BY <1>3, <2>2, FilledProperties
  <2>4. k <= h
    <3>1. CASE h = Len(rest)
      BY <2>2, <3>1
    <3>2. CASE FirstCloseAt(s, rest, h)
      <4>1. SUFFICES ASSUME h < k PROVE FALSE
        BY <2>2
      <4>2. h \in 1..k /\ h # k /\ IsClose(s, rest[h])
        BY <2>2, <3>2, <4>1 DEF FirstCloseAt
      <4> QED  BY <2>1, <4>2
    <3> QED  BY <1>3, <3>1, <3>2
  <2> QED  BY <1>3, <2>1, <2>2, <2>3, <2>4 DEF Fits
<1>4. ASSUME NEW s \in Session, NEW frame, NEW reply, TakeFrame(s, frame, reply)
      PROVE  StaysOverrun'
  <2>1. PICK h \in 1..Len(rest) : FirstCloseAt(s, rest, h) /\ Fits(Filled(s, h))
    BY <1>4 DEF TakeFrame
  <2>2. running = s /\ overrun' = overrun
    BY <1>4 DEF TakeFrame
  <2>3. Len(rest) \in Nat
    BY <1>0, <2>2, SessionAssumption DEF SessionTypeOK
  <2>4. h \in 0..Len(rest) /\ \A j \in 1..(h - 1) : ~IsClose(s, rest[j])
    BY <2>1, <2>3 DEF FirstCloseAt
  <2>5. ~overrun
    BY <1>3, <2>1, <2>2, <2>4
  <2> QED  BY <2>2, <2>5 DEF StaysOverrun
<1>5. ASSUME NEW s \in Session, FinishRead(s)
      PROVE  StaysOverrun'
  <2>1. running = s /\ overrun' = overrun
    BY <1>5 DEF FinishRead
  <2>2. Len(rest) \in Nat
    BY <1>0, <2>1, SessionAssumption DEF SessionTypeOK
  <2>3. /\ Len(rest) \in 0..Len(rest) /\ Fits(Filled(s, Len(rest)))
        /\ \A j \in 1..(Len(rest) - 1) : ~IsClose(s, rest[j])
    BY <1>5, <2>2 DEF FinishRead
  <2>4. ~overrun
    BY <1>3, <2>1, <2>3
  <2> QED  BY <2>1, <2>4 DEF StaysOverrun
<1>6. ASSUME NEW s \in Session, NEW n, ReadSome(s, n)
      PROVE  StaysOverrun'
  <2>1. ~overrun /\ ~overrun'
    BY <1>6, SessionAssumption DEF ReadSome, StaysOverrun
  <2> QED  BY <2>1 DEF StaysOverrun
<1>7. ASSUME NEW s \in Session,
             Accept(s) \/ HangUp(s) \/ ReadError(s) \/ WriteDone(s)
      PROVE  StaysOverrun'
  <2>1. UNCHANGED <<buff, running, rest, overrun>>
    BY <1>7 DEF Accept, HangUp, ReadError, WriteDone
  <2> QED  BY <1>1, <2>1
<1>8. CASE UNCHANGED sessionVars
  BY <1>1, <1>8 DEF sessionVars
<1> QED  BY <1>2, <1>4, <1>5, <1>6, <1>7, <1>8 DEF SessionNext

(* Where the array ended, the cells copied are within the bound.           *)
LEMMA OverrunBound ==
  ASSUME SessionInv, GrowthInv, NEW s \in Session, running = s,
         NEW k \in 0..Len(rest),
         \A j \in 1..k : IsClose(s, rest[j]) => j = k,
         ~Fits(Filled(s, k))
  PROVE  \E n \in DOMAIN Script[s] :
           InHandAt(s, n) /\ growth[s] * (n - Done(s)) >= MaxLength
<1>0. /\ rest \in Seq(1..pos[s]) /\ buff[s] \in Seq(1..pos[s]) /\ pos[s] \in Nat
      /\ pos[s] <= Len(Script[s]) /\ Len(Script[s]) \in Nat
      /\ DOMAIN Script[s] = 1..Len(Script[s])
      /\ MaxLength \in Nat /\ MaxLength > 0 /\ growth[s] \in Nat /\ k \in Nat
      /\ Len(rest) \in Nat /\ k <= Len(rest)
  BY SessionAssumption DEF SessionInv, SessionTypeOK, GrowthInv
<1>1. PICK d \in 0..pos[s] : d = Done(s)
  BY DoneProperties DEF SessionInv
<1>2. PICK b, g, l, p, z :
        b = Len(buff[s]) /\ g = growth[s] /\ l = Len(rest) /\ p = pos[s]
          /\ z = Len(Script[s])
  OBVIOUS
<1>3. /\ g >= 1 /\ l - b \in 0..(p - d)
      /\ 2 * b <= g * ((p - d) - (l - b))
  BY <1>1, <1>2 DEF GrowthInv, Grown, Fresh
<1>4. /\ b \in Nat /\ g \in Nat /\ l \in Nat /\ p \in Nat /\ k \in Nat /\ d \in Nat
      /\ z \in Nat /\ MaxLength \in Nat /\ MaxLength > 0
      /\ k <= l /\ d <= p /\ p <= z /\ b <= l /\ l - b <= p - d
  <2>1. Len(buff[s]) \in Nat
    BY <1>0
  <2>2. b \in Nat /\ l \in Nat /\ p \in Nat /\ d \in Nat /\ d <= p
    BY <1>0, <1>1, <1>2, <2>1
  <2>3. b <= l /\ l - b <= p - d
    BY ONLY <1>3, <2>2
  <2> QED  BY <1>0, <1>2, <2>2, <2>3
<1>5. PICK old \in Nat : old = (p - d) - (l - b)
  BY ONLY <1>4
<1>6. b + k >= MaxLength
  <2>1. Len(Filled(s, k)) = b + k
    BY <1>0, <1>2, FilledProperties
  <2> QED  BY <1>4, <2>1 DEF Fits
<1>7. \A i \in (d + 1)..p : p - i < l /\ rest[l - (p - i)] = i
  BY <1>1, <1>2 DEF SessionInv, NothingLost, InHand, EndsWith
<1>8. 2 * b <= g * old
  BY <1>3, <1>5
<1>9. ASSUME NEW c \in Nat, c >= 1, g * c >= MaxLength, d + c <= p,
             \A j \in 1..l : j < l - (p - (d + c)) => ~IsClose(s, rest[j])
      PROVE  \E n \in DOMAIN Script[s] :
               InHandAt(s, n) /\ growth[s] * (n - Done(s)) >= MaxLength
  <2>1. PICK n \in Nat : n = d + c
    BY <1>4
  <2>2. n \in (d + 1)..p /\ n \in 1..z /\ n - d = c
    BY ONLY <1>4, <1>9, <2>1
  <2>3. ASSUME NEW q \in (d + 1)..(n - 1)
        PROVE  ~IsClose(s, q)
    <3>1. q \in (d + 1)..p
      BY ONLY <1>4, <2>2, q \in (d + 1)..(n - 1)
    <3>2. p - q < l /\ rest[l - (p - q)] = q
      BY <1>7, <3>1
    <3>3. l - (p - q) \in 1..l /\ l - (p - q) < l - (p - (d + c))
      BY ONLY <1>4, <2>1, <2>2, <3>1, <3>2, q \in (d + 1)..(n - 1)
    <3> QED  BY <1>9, <3>2, <3>3
  <2>4. InHandAt(s, n)
    BY <1>1, <1>2, <2>2, <2>3 DEF InHandAt
  <2>5. n \in DOMAIN Script[s]
    BY <1>0, <1>2, <2>2
  <2>6. growth[s] * (n - Done(s)) >= MaxLength
    BY <1>1, <1>2, <1>9, <2>2
  <2> QED  BY <2>4, <2>5, <2>6
<1>10. CASE k <= b
  <2>1. g * old \in Nat
    BY ONLY <1>4, old \in Nat
  <2>2. g * old >= MaxLength
    BY ONLY <1>4, <1>6, <1>8, <1>10, <2>1
  <2>3. old # 0
    <3>1. g * 0 = 0
      BY ONLY <1>4
    <3> QED  BY ONLY <1>4, <2>2, <3>1
  <2>4. old >= 1 /\ d + old <= p
    BY ONLY <1>4, <1>5, <2>3, old \in Nat
  <2>5. l - (p - (d + old)) = b
    BY ONLY <1>4, <1>5, old \in Nat
  <2>6. \A j \in 1..l : j < b => ~IsClose(s, rest[j])
    <3>1. \A j \in 1..l : j < b => j \in 1..b
      BY ONLY <1>4
    <3> QED  BY <1>2, <3>1, SessionAssumption DEF GrowthInv
  <2> QED  BY <1>9, <2>2, <2>4, <2>5, <2>6
<1>11. CASE ~(k <= b)
  <2>1. PICK m \in Nat : m = k - b /\ m >= 1
    BY ONLY <1>4, <1>11
  <2>2. 2 * b + m <= g * (old + m)
    BY <1>3, <1>4, <1>8, GrowthArithmetic
  <2>3. g * (old + m) \in Nat
    BY ONLY <1>4, old \in Nat, m \in Nat
  <2>4. g * (old + m) >= MaxLength
    <3>1. 2 * b + m = b + k
      BY ONLY <1>4, <2>1, m \in Nat
    <3> QED  BY ONLY <1>4, <1>6, <2>2, <2>3, <3>1
  <2>5. old + m \in Nat /\ old + m >= 1 /\ d + (old + m) <= p
    BY ONLY <1>4, <1>5, <2>1, old \in Nat, m \in Nat
  <2>6. l - (p - (d + (old + m))) = k
    BY ONLY <1>4, <1>5, <2>1, old \in Nat, m \in Nat
  <2>7. \A j \in 1..l : j < k => ~IsClose(s, rest[j])
    <3>1. \A j \in 1..l : j < k => j \in 1..k /\ j # k
      BY ONLY <1>4
    <3> QED  BY <3>1
  <2> QED  BY <1>9, <2>4, <2>5, <2>6, <2>7
<1> QED  BY <1>10, <1>11

(* A buff is overrun only by a frame that is too long for the number of    *)
(* reads it is cut into: in whatever pieces the streams arrive.            *)
THEOREM OverrunExplainedCorrect == SessionSpec => []OverrunExplained
<1>1. SessionInit => StaysOverrun
  BY DEF SessionInit, StaysOverrun
<1>2. SessionInv /\ StaysOverrun /\ [SessionNext]_sessionVars => StaysOverrun'
  BY StaysOverrunNext
<1>3. SessionInv /\ GrowthInv /\ StaysOverrun => OverrunExplained
  BY OverrunBound DEF StaysOverrun, OverrunExplained
<1> QED  BY <1>1, <1>2, <1>3, SessionInvariant, GrowthInvariant, PTL DEF SessionSpec
-----------------------------------------------------------------------------
(* The frame a read handler is about to process, and the same frame when   *)
(* reads end with whole frames.                                            *)
FrameComing(s) == running = s /\ \E k \in 1..Len(rest) : FirstCloseAt(s, rest, k)

NextFrameBegins ==
  \A s \in Session : FrameComing(s) =>
    /\ NextFrame(s) \in Seq(1..pos[s])
    /\ NextFrame(s) # <<>>
    /\ Done(s) < LastCell(NextFrame(s))
    /\ BeginsLikeSent(s, NextFrame(s))

NextFrameWhole ==
  \A s \in Session : FrameComing(s) =>
    NextFrame(s) = SentFrame(s, LastCell(NextFrame(s)))

(* The loop meets the first ')', and no other.                             *)
LEMMA NextFrameIs ==
  ASSUME SessionTypeOK, NEW s \in Session, running = s,
         NEW k \in 1..Len(rest), FirstCloseAt(s, rest, k)
  PROVE  NextFrame(s) = Trim(s, Filled(s, k))
<1> DEFINE h == CHOOSE i \in 1..Len(rest) : FirstCloseAt(s, rest, i)
<1>0. Len(rest) \in Nat
  BY SessionAssumption DEF SessionTypeOK
<1>1. h \in 1..Len(rest) /\ FirstCloseAt(s, rest, h)
  OBVIOUS
<1>2. h = k
  <2>1. ~(h < k)
    <3>1. SUFFICES ASSUME h < k PROVE FALSE
      OBVIOUS
    <3>2. h \in 1..(k - 1)
      BY <1>0, <1>1, <3>1
    <3> QED  BY <1>1, <3>2 DEF FirstCloseAt
  <2>2. ~(k < h)
    <3>1. SUFFICES ASSUME k < h PROVE FALSE
      OBVIOUS
    <3>2. k \in 1..(h - 1)
      BY <1>0, <1>1, <3>1
    <3> QED  BY <1>1, <3>2 DEF FirstCloseAt
  <2> QED  BY <1>0, <1>1, <2>1, <2>2
<1>3. NextFrame(s) = Trim(s, Filled(s, h))
  BY DEF NextFrame
<1> QED  BY <1>2, <1>3

(* The frame to be processed next begins like one the device sent.         *)
THEOREM NextFrameBeginsCorrect == SessionSpec => []NextFrameBegins
<1>1. SessionInv /\ RunsInHand => NextFrameBegins
  <2> SUFFICES ASSUME SessionInv, RunsInHand, NEW s \in Session, running = s,
                      NEW k \in 1..Len(rest), FirstCloseAt(s, rest, k)
               PROVE  /\ NextFrame(s) \in Seq(1..pos[s])
                      /\ NextFrame(s) # <<>>
                      /\ Done(s) < LastCell(NextFrame(s))
                      /\ BeginsLikeSent(s, NextFrame(s))
    BY DEF NextFrameBegins, FrameComing
  <2>1. SessionTypeOK /\ FrameInv
    BY DEF SessionInv, FrameInv
  <2>2. PICK frame : frame = Trim(s, Filled(s, k))
    OBVIOUS
  <2>3. NextFrame(s) = frame
    BY <2>1, <2>2, NextFrameIs
  <2>4. /\ frame \in Seq(1..pos[s])
        /\ frame # <<>>
        /\ frame[Len(frame)] = rest[k]
    BY <2>1, <2>2, FrameProperties
  <2>5. Done(s) < LastCell(frame)
    <3>1. /\ Done(s) \in 0..pos[s]
          /\ rest[k] \in (Done(s) + 1)..pos[s]
      BY <2>1, NextClose
    <3>2. pos[s] \in Nat
      BY <2>1 DEF SessionTypeOK
    <3> QED  BY <2>4, <3>1, <3>2 DEF LastCell
  <2>6. BeginsLikeSent(s, frame)
    BY <2>1, <2>2, FrameBegins
  <2> QED  BY <2>3, <2>4, <2>5, <2>6
<1> QED  BY <1>1, SessionInvariant, RunsInHandCorrect, PTL

(* With reads that end with whole frames it is the one the device sent.    *)
THEOREM NextFrameWholeCorrect == SplitReads = FALSE => (SessionSpec => []NextFrameWhole)
<1> SUFFICES ASSUME SplitReads = FALSE PROVE SessionSpec => []NextFrameWhole
  OBVIOUS
<1>1. SessionInv /\ WholeReads => NextFrameWhole
  <2> SUFFICES ASSUME SessionInv, WholeReads, NEW s \in Session, running = s,
                      NEW k \in 1..Len(rest), FirstCloseAt(s, rest, k)
               PROVE  NextFrame(s) = SentFrame(s, LastCell(NextFrame(s)))
    BY DEF NextFrameWhole, FrameComing
  <2>1. SessionTypeOK /\ FrameInv
    BY DEF SessionInv, FrameInv
  <2>2. PICK frame : frame = Trim(s, Filled(s, k))
    OBVIOUS
  <2>3. NextFrame(s) = frame
    BY <2>1, <2>2, NextFrameIs
  <2>4. LastCell(frame) = rest[k]
    BY <2>1, <2>2, FrameProperties DEF LastCell
  <2>5. Filled(s, k) = Sent(s, rest[k])
    BY <2>1, WholeFrame
  <2> QED  BY <2>2, <2>3, <2>4, <2>5 DEF SentFrame
<1> QED  BY <1>1, SessionInvariant, WholeReadsCorrect, PTL
-----------------------------------------------------------------------------
(* The members of a finite set of numbers are told apart by how many of    *)
(* them are not greater.                                                   *)
LEMMA CountTellsApart ==
  ASSUME NEW T \in SUBSET Nat, IsFiniteSet(T), NEW m \in T, NEW n \in T,
         Cardinality({x \in T : x <= m}) = Cardinality({x \in T : x <= n})
  PROVE  m = n
<1> DEFINE UpTo(k) == {x \in T : x <= k}
<1>1. ASSUME NEW a \in T, NEW b \in T, a < b,
             Cardinality(UpTo(a)) = Cardinality(UpTo(b))
      PROVE  FALSE
  <2>1. IsFiniteSet(UpTo(b))
    BY FS_Subset
  <2>2. UpTo(a) \subseteq UpTo(b)
    <3>1. \A x \in T : x \in Nat
      OBVIOUS
    <3>2. \A x \in T : x <= a => x <= b
      BY <1>1, <3>1
    <3> QED  BY <3>2
  <2>3. UpTo(a) = UpTo(b)
    <3> HIDE DEF UpTo
    <3> QED  BY <1>1, <2>1, <2>2, FS_Subset
  <2>4. b \in UpTo(b) /\ b \notin UpTo(a)
    BY <1>1
  <2> QED  BY <2>3, <2>4
<1>2. m < n \/ n < m \/ m = n
  OBVIOUS
<1> QED  BY <1>1, <1>2

(* Up to the ')' that the loop meets next there are as many ')' as frames  *)
(* have been processed, and that one.                                      *)
LEMMA ClosesCounted ==
  ASSUME SessionTypeOK, FrameInv, NEW s \in Session, running = s,
         NEW k \in 1..Len(rest), FirstCloseAt(s, rest, k)
  PROVE  LET ends == {m \in DOMAIN Script[s] : IsClose(s, m)}
         IN  /\ IsFiniteSet(ends) /\ ends \subseteq Nat /\ rest[k] \in ends
             /\ Cardinality({m \in ends : m <= rest[k]}) = Len(handled[s]) + 1
             /\ Len(handled[s]) + 1 \in 1..Cardinality(ends)
<1> DEFINE ends == {m \in DOMAIN Script[s] : IsClose(s, m)}
           n == rest[k]
           l == Len(handled[s])
           d == Done(s)
           counted == {m \in ends : m <= n}
           f == [i \in 1..(l + 1) |-> IF i = l + 1 THEN n ELSE EndOf(s, i)]
<1>1. /\ DOMAIN Script[s] = 1..Len(Script[s]) /\ Len(Script[s]) \in Nat
      /\ pos[s] \in Nat /\ pos[s] <= Len(Script[s]) /\ l \in Nat
  BY SessionAssumption DEF SessionTypeOK
<1>2. /\ d \in 0..pos[s] /\ n \in (d + 1)..pos[s] /\ IsClose(s, n)
      /\ \A c \in (d + 1)..(n - 1) : ~IsClose(s, c)
  BY NextClose
<1>3. \A i \in 1..l : EndOf(s, i) \in 1..d /\ IsClose(s, EndOf(s, i))
  BY DoneProperties DEF FrameInv, FramesInOrder
<1>4. \A i, j \in 1..l : i < j => EndOf(s, i) < EndOf(s, j)
  BY DEF FrameInv, FramesInOrder
<1>5. \A c \in 1..d : IsClose(s, c) => \E i \in 1..l : EndOf(s, i) = c
  BY DEF FrameInv, ClosesBehind, IsHandled
<1>6. IsFiniteSet(ends) /\ ends \subseteq Nat /\ n \in ends
  <2>1. IsFiniteSet(1..Len(Script[s]))
    <3>1. 1 \in Int /\ Len(Script[s]) \in Int
      BY <1>1
    <3> QED  BY <3>1, FS_Interval
  <2>2. ends \in SUBSET (1..Len(Script[s])) /\ 1..Len(Script[s]) \subseteq Nat
    BY <1>1
  <2>3. IsFiniteSet(ends)
    BY <2>1, <2>2, FS_Subset
  <2>4. n \in 1..Len(Script[s])
    BY <1>1, <1>2
  <2> QED  BY <1>1, <1>2, <2>2, <2>3, <2>4
<1> HIDE DEF l, d, n
<1>7. f \in [1..(l + 1) -> counted]
  <2>1. ASSUME NEW i \in 1..(l + 1)
        PROVE  f[i] \in counted
    <3>1. CASE i = l + 1
      BY <1>6, <3>1
    <3>2. CASE i # l + 1
      <4>1. i \in 1..l
        BY <1>1, <3>2
      <4>2. EndOf(s, i) \in 1..Len(Script[s]) /\ EndOf(s, i) <= n
        BY <1>1, <1>2, <1>3, <4>1
      <4> QED  BY <1>1, <1>3, <3>2, <4>1, <4>2
    <3> QED  BY <3>1, <3>2
  <2> QED  BY <2>1
<1>8. \A i, j \in 1..(l + 1) : i < j => f[i] < f[j]
  <2> SUFFICES ASSUME NEW i \in 1..(l + 1), NEW j \in 1..(l + 1), i < j
               PROVE  f[i] < f[j]
    OBVIOUS
  <2>1. i \in 1..l /\ i # l + 1
    BY <1>1
  <2>2. f[i] = EndOf(s, i) /\ EndOf(s, i) \in 1..d
    BY <1>3, <2>1
  <2>3. CASE j = l + 1
    <3>1. f[j] = n
      BY <2>3
    <3> QED  BY <1>1, <1>2, <2>2, <3>1
  <2>4. CASE j # l + 1
    <3>1. j \in 1..l /\ f[j] = EndOf(s, j)
      BY <1>1, <2>4
    <3> QED  BY <1>4, <2>1, <2>2, <3>1
  <2> QED  BY <2>3, <2>4
<1>9. \A c \in counted : \E i \in 1..(l + 1) : f[i] = c
  <2> SUFFICES ASSUME NEW c \in counted PROVE \E i \in 1..(l + 1) : f[i] = c
    OBVIOUS
  <2>1. c \in 1..Len(Script[s]) /\ IsClose(s, c) /\ c <= n
    BY <1>1
  <2>2. CASE c = n
    <3>1. l + 1 \in 1..(l + 1)
      BY <1>1
    <3> QED  BY <2>2, <3>1
  <2>3. CASE c # n
    <3>1. c \in 1..(n - 1)
      BY <1>1, <1>2, <2>1, <2>3
    <3>2. c \in 1..d
      BY <1>1, <1>2, <2>1, <3>1
    <3>3. PICK i \in 1..l : EndOf(s, i) = c
      BY <1>5, <2>1, <3>2
    <3>4. i \in 1..(l + 1) /\ i # l + 1
      BY <1>1, <3>3
    <3> QED  BY <3>3, <3>4
  <2> QED  BY <2>2, <2>3
<1>10. Cardinality(counted) = l + 1
  <2> HIDE DEF f, counted
  <2>1. \A i, j \in 1..(l + 1) : f[i] = f[j] => i = j
    <3>1. \A c \in counted : c \in Nat
      BY <1>6 DEF counted
    <3> SUFFICES ASSUME NEW i \in 1..(l + 1), NEW j \in 1..(l + 1), i # j
                 PROVE  f[i] # f[j]
      OBVIOUS
    <3>2. i < j \/ j < i
      OBVIOUS
    <3>3. f[i] \in Nat /\ f[j] \in Nat
      BY <1>7, <3>1
    <3> QED  BY <1>8, <3>2, <3>3
  <2>2. f \in Bijection(1..(l + 1), counted)
    <3>1. f \in Surjection(1..(l + 1), counted)
      BY <1>7, <1>9 DEF Surjection
    <3>2. f \in Injection(1..(l + 1), counted)
      BY <1>7, <2>1 DEF Injection, IsInjective
    <3> QED  BY <3>1, <3>2 DEF Bijection
  <2>3. ExistsBijection(1..(l + 1), counted) /\ l + 1 \in Nat
    BY <1>1, <2>2 DEF ExistsBijection
  <2> QED  BY <2>3, FS_CountingElements
<1>11. l + 1 \in 1..Cardinality(ends)
  <2>1. counted \in SUBSET ends
    OBVIOUS
  <2> HIDE DEF ends, counted
  <2>2. l + 1 <= Cardinality(ends) /\ Cardinality(ends) \in Nat
    BY <1>6, <1>10, <2>1, FS_Subset, FS_CardinalityType
  <2> QED  BY <1>1, <2>2
<1> QED  BY <1>6, <1>10, <1>11 DEF l, n

(* With reads that end with whole frames, the frame that is processed next *)
(* is the next one of the stream.                                          *)
NextFrameInTurn ==
  \A s \in Session : FrameComing(s) =>
    /\ Len(handled[s]) + 1 \in 1..Len(SentFrames[s])
    /\ LastCell(NextFrame(s)) <= pos[s]
    /\ SentFrames[s][Len(handled[s]) + 1] = <<LastCell(NextFrame(s)), NextFrame(s)>>

(* It is, whatever the streams and the number of frames in a read.         *)
THEOREM NextFrameInTurnCorrect == SplitReads = FALSE => (SessionSpec => []NextFrameInTurn)
<1> SUFFICES ASSUME SplitReads = FALSE PROVE SessionSpec => []NextFrameInTurn
  OBVIOUS
<1>1. SessionInv /\ NextFrameWhole => NextFrameInTurn
  <2> SUFFICES ASSUME SessionInv, NextFrameWhole, NEW s \in Session, running = s,
                      NEW k \in 1..Len(rest), FirstCloseAt(s, rest, k)
               PROVE  /\ Len(handled[s]) + 1 \in 1..Len(SentFrames[s])
                      /\ LastCell(NextFrame(s)) <= pos[s]
                      /\ SentFrames[s][Len(handled[s]) + 1] =
                           <<LastCell(NextFrame(s)), NextFrame(s)>>
    BY DEF NextFrameInTurn, FrameComing
  <2> DEFINE ends == {n \in DOMAIN Script[s] : IsClose(s, n)}
             Nth(i) == CHOOSE n \in ends : Cardinality({m \in ends : m <= n}) = i
             i == Len(handled[s]) + 1
             C == Cardinality(ends)
  <2>1. SessionTypeOK /\ FrameInv
    BY DEF SessionInv, FrameInv
  <2>2. LastCell(NextFrame(s)) = rest[k]
    BY <2>1, NextFrameIs, FrameProperties DEF LastCell
  <2>3. rest[k] \in (Done(s) + 1)..pos[s] /\ Done(s) \in 0..pos[s] /\ pos[s] \in Nat
    BY <2>1, NextClose DEF SessionTypeOK
  <2>4. NextFrame(s) = SentFrame(s, rest[k])
    BY <2>2 DEF NextFrameWhole, FrameComing
  <2>5. /\ IsFiniteSet(ends) /\ ends \subseteq Nat /\ rest[k] \in ends
        /\ Cardinality({m \in ends : m <= rest[k]}) = i
        /\ i \in 1..C
    BY <2>1, ClosesCounted
  <2>6. SentFrames[s] = [j \in 1..C |-> <<Nth(j), SentFrame(s, Nth(j))>>]
    BY DEF SentFrames
  <2> HIDE DEF ends, i
  <2>7. Nth(i) = rest[k]
    <3>1. PICK p \in ends : p = Nth(i) /\ Cardinality({m \in ends : m <= p}) = i
      BY <2>5
    <3> HIDE DEF Nth
    <3>2. PICK n \in ends : n = rest[k] /\ Cardinality({m \in ends : m <= n}) = i
      BY <2>5
    <3>3. p = n
      BY <2>5, <3>1, <3>2, CountTellsApart
    <3> QED  BY <3>1, <3>2, <3>3
  <2>8. C \in Nat
    BY <2>5, FS_CardinalityType
  <2> HIDE DEF C, Nth
  <2>9. Len(SentFrames[s]) = C /\ SentFrames[s][i] = <<Nth(i), SentFrame(s, Nth(i))>>
    BY <2>5, <2>6, <2>8
  <2> QED  BY <2>2, <2>3, <2>4, <2>5, <2>7, <2>9 DEF i
<1> QED  BY <1>1, SessionInvariant, NextFrameWholeCorrect, PTL
=============================================================================
