------------------------ MODULE SequenceFoldsProofs ------------------------
(***************************************************************************)
(* Induction over the natural numbers for sets of numbers, the existence   *)
(* of functions defined by recursion, and from both what the operators of  *)
(* SequenceFolds are for a sequence that grows at its end.                 *)
(***************************************************************************)
EXTENDS SequenceFolds, WellFoundedInduction, TLAPS

(* A set of numbers that is not empty has a least element.                 *)
LEMMA LeastNumber ==
  ASSUME NEW T \in SUBSET Nat, T # {}
  PROVE  \E x \in T : \A y \in T : x <= y
<1>1. IsWellFoundedOn(OpToRel(<, Nat), Nat)
  BY NatLessThanWellFounded
<1>2. PICK x \in T : \A y \in T : ~(<<y, x>> \in OpToRel(<, Nat))
  BY <1>1, WFMin
<1>3. \A y \in T : ~(y < x)
  BY <1>2 DEF OpToRel
<1>4. \A y \in T : x \in Nat /\ y \in Nat
  OBVIOUS
<1> QED
  BY <1>3, <1>4

(* A set that holds 0, and with a number the next, holds all numbers.      *)
LEMMA SetInduction ==
  ASSUME NEW S, 0 \in S, \A n \in Nat : n \in S => n + 1 \in S
  PROVE  \A n \in Nat : n \in S
<1> DEFINE T == {n \in Nat : n \notin S}
<1> SUFFICES ASSUME T # {} PROVE FALSE
  OBVIOUS
<1>1. PICK x \in T : \A y \in T : x <= y
  BY LeastNumber
<1>2. x \in Nat /\ x # 0 /\ x \notin S
  BY <1>1
<1>3. x - 1 \in Nat /\ x - 1 \in S
  BY <1>1, <1>2
<1> QED
  BY <1>2, <1>3

(* There is a function with a given value for 0 that makes a given step    *)
(* from each number to the next.                                           *)
Recursive(A, base, N, step) ==
  \E g \in [0..N -> A] : g[0] = base /\ \A n \in 1..N : g[n] = step[n][g[n - 1]]

(* It exists for every base and every step.                                *)
LEMMA Recursion ==
  ASSUME NEW A, NEW base \in A, NEW N \in Nat, NEW step \in [1..N -> [A -> A]]
  PROVE  Recursive(A, base, N, step)
<1> DEFINE Good(n, g) == /\ g \in [0..n -> A]
                         /\ g[0] = base
                         /\ \A m \in 1..n : g[m] = step[m][g[m - 1]]
           S == {n \in Nat : n <= N => \E g \in [0..n -> A] : Good(n, g)}
<1>1. 0 \in S
  <2> DEFINE g == [n \in 0..0 |-> base]
  <2>1. Good(0, g)
    OBVIOUS
  <2> QED
    BY <2>1
<1>2. ASSUME NEW n \in Nat, n \in S PROVE n + 1 \in S
  <2> SUFFICES ASSUME n + 1 <= N PROVE \E g \in [0..(n + 1) -> A] : Good(n + 1, g)
    OBVIOUS
  <2>1. PICK g \in [0..n -> A] : Good(n, g)
    BY <1>2
  <2> DEFINE h == [m \in 0..(n + 1) |-> IF m <= n THEN g[m] ELSE step[n + 1][g[n]]]
  <2>2. step[n + 1][g[n]] \in A
    BY <2>1
  <2>3. h \in [0..(n + 1) -> A]
    BY <2>1, <2>2
  <2>4. h[0] = base /\ h[n + 1] = step[n + 1][g[n]] /\ \A m \in 0..n : h[m] = g[m]
    BY <2>1
  <2> HIDE DEF h
  <2>5. ASSUME NEW m \in 1..(n + 1) PROVE h[m] = step[m][h[m - 1]]
    <3>1. CASE m = n + 1
      BY <2>4, <3>1
    <3>2. CASE m \in 1..n
      BY <2>1, <2>4, <3>2
    <3> QED
      BY <3>1, <3>2
  <2> QED
    BY <2>3, <2>4, <2>5
<1> HIDE DEF S
<1>3. N \in S
  BY <1>1, <1>2, SetInduction
<1> QED
  BY <1>3 DEF S, Recursive
-----------------------------------------------------------------------------
(* The function in Total: its values are numbers.                          *)
TotalWalk(base, q) ==
  \E f \in [0..Len(q) -> Nat] :
    /\ f[0] = base
    /\ \A n \in 1..Len(q) : f[n] = f[n - 1] + q[n]
    /\ Total(base, q) = f[Len(q)]

(* It exists.                                                              *)
LEMMA TotalFunction ==
  ASSUME NEW base \in Nat, NEW q \in Seq(Nat)
  PROVE  TotalWalk(base, q)
<1> DEFINE N == Len(q)
           Fix(h) == h = [n \in 0..N |-> IF n = 0 THEN base ELSE h[n - 1] + q[n]]
           f == CHOOSE h : Fix(h)
           step == [n \in 1..N |-> [x \in Nat |-> x + q[n]]]
<1>0. N \in Nat /\ \A n \in 1..N : q[n] \in Nat
  OBVIOUS
<1>1. \E h : Fix(h)
  <2>1. step \in [1..N -> [Nat -> Nat]]
    BY <1>0
  <2>2. PICK g \in [0..N -> Nat] :
          g[0] = base /\ \A n \in 1..N : g[n] = step[n][g[n - 1]]
    <3>1. N \in Nat
      BY <1>0
    <3> HIDE DEF step, N
    <3>2. Recursive(Nat, base, N, step)
      BY <2>1, <3>1, Recursion
    <3> QED
      BY <3>2 DEF Recursive
  <2>3. \A n \in 1..N : n - 1 \in 0..N /\ g[n - 1] \in Nat
    <3>1. \A n \in 1..N : n - 1 \in 0..N
      BY <1>0
    <3> HIDE DEF step
    <3> QED
      BY <2>2, <3>1
  <2>4. \A n \in 1..N : g[n] = g[n - 1] + q[n]
    BY <2>2, <2>3
  <2>5. \A n \in 0..N : g[n] = IF n = 0 THEN base ELSE g[n - 1] + q[n]
    BY <1>0, <2>2, <2>4
  <2>6. Fix(g)
    BY <2>2, <2>5
  <2> QED
    BY <2>6
<1>2. Fix(f)
  BY <1>1
<1>3. Total(base, q) = f[N]
  BY DEF Total
<1> HIDE DEF f
<1>4. f[0] = base /\ \A n \in 1..N : f[n] = f[n - 1] + q[n]
  <2>1. \A n \in 0..N : f[n] = IF n = 0 THEN base ELSE f[n - 1] + q[n]
    BY <1>2
  <2>2. 0 \in 0..N /\ \A n \in 1..N : n \in 0..N /\ n # 0
    BY <1>0
  <2> QED
    BY <2>1, <2>2
<1> DEFINE S == {n \in Nat : n <= N => f[n] \in Nat}
<1>5. 0 \in S
  BY <1>4
<1>6. ASSUME NEW n \in Nat, n \in S PROVE n + 1 \in S
  <2> SUFFICES ASSUME n + 1 <= N PROVE f[n + 1] \in Nat
    OBVIOUS
  <2>1. n + 1 \in 1..N /\ (n + 1) - 1 = n /\ f[n] \in Nat
    BY <1>0, <1>6
  <2>2. f[n + 1] = f[n] + q[n + 1]
    BY <1>4, <2>1
  <2> QED
    BY <1>0, <2>1, <2>2
<1> HIDE DEF S
<1>7. \A n \in Nat : n \in S
  BY <1>5, <1>6, SetInduction
<1>8. \A n \in 0..N : f[n] \in Nat
  BY <1>0, <1>7 DEF S
<1>9. f \in [0..N -> Nat]
  BY <1>2, <1>8
<1> QED
  BY <1>3, <1>4, <1>9 DEF TotalWalk

(* A total is a number; one more number of q is added to it.               *)
LEMMA TotalOfAppend ==
  ASSUME NEW base \in Nat, NEW q \in Seq(Nat), NEW x \in Nat
  PROVE  /\ Total(base, q) \in Nat
         /\ Total(base, <<>>) = base
         /\ Total(base, Append(q, x)) = Total(base, q) + x
<1> DEFINE r == Append(q, x)
           N == Len(q)
<1>0. /\ N \in Nat /\ r \in Seq(Nat) /\ Len(r) = N + 1 /\ r[N + 1] = x
      /\ \A n \in 1..N : r[n] = q[n]
  OBVIOUS
<1>1. PICK f \in [0..N -> Nat] : /\ f[0] = base
                                 /\ \A n \in 1..N : f[n] = f[n - 1] + q[n]
                                 /\ Total(base, q) = f[N]
  BY TotalFunction DEF TotalWalk
<1> HIDE DEF r
<1>2. PICK g \in [0..(N + 1) -> Nat] : /\ g[0] = base
                                       /\ \A n \in 1..(N + 1) : g[n] = g[n - 1] + r[n]
                                       /\ Total(base, r) = g[N + 1]
  <2>1. Len(r) = N + 1 /\ r \in Seq(Nat)
    BY <1>0
  <2>2. TotalWalk(base, r)
    BY <2>1, TotalFunction
  <2> HIDE DEF N
  <2> QED
    BY ONLY <2>1, <2>2 DEF TotalWalk
<1> HIDE DEF N
<1> DEFINE S == {n \in Nat : n <= N => g[n] = f[n]}
<1>3. 0 \in S
  BY <1>1, <1>2
<1>4. ASSUME NEW n \in Nat, n \in S PROVE n + 1 \in S
  <2> SUFFICES ASSUME n + 1 <= N PROVE g[n + 1] = f[n + 1]
    OBVIOUS
  <2>1. n + 1 \in 1..N /\ (n + 1) - 1 = n /\ g[n] = f[n]
    BY <1>0, <1>4
  <2>2. g[n + 1] = g[n] + r[n + 1] /\ f[n + 1] = f[n] + q[n + 1]
    <3>1. n + 1 \in 1..(N + 1)
      BY <1>0, <2>1
    <3> QED
      BY <1>1, <1>2, <2>1, <3>1
  <2> QED
    BY <1>0, <2>1, <2>2
<1> HIDE DEF S
<1>5. N \in S
  BY <1>0, <1>3, <1>4, SetInduction
<1>6. g[N] = f[N] /\ g[N + 1] = g[N] + x
  BY <1>0, <1>2, <1>5 DEF S
<1>7. Total(base, <<>>) = base
  <2>1. <<>> \in Seq(Nat) /\ Len(<<>>) = 0
    OBVIOUS
  <2>2. TotalWalk(base, <<>>)
    BY <2>1, TotalFunction
  <2> QED
    BY <2>1, <2>2 DEF TotalWalk
<1> QED
  BY <1>0, <1>1, <1>2, <1>6, <1>7 DEF r, N

(* The function in Without: its values are sequences.                      *)
KeepUnless(S, x, w) == IF x \in S THEN w ELSE Append(w, x)

WithoutWalk(A, S, q) ==
  \E f \in [0..Len(q) -> Seq(A)] :
    /\ f[0] = <<>>
    /\ \A n \in 1..Len(q) : f[n] = KeepUnless(S, q[n], f[n - 1])
    /\ Without(q, S) = f[Len(q)]

(* It exists.                                                              *)
LEMMA WithoutFunction ==
  ASSUME NEW A, NEW S, NEW q \in Seq(A)
  PROVE  WithoutWalk(A, S, q)
<1> DEFINE N == Len(q)
           Fix(h) == h = [n \in 0..N |-> IF n = 0 THEN <<>> ELSE KeepUnless(S, q[n], h[n - 1])]
           f == CHOOSE h : Fix(h)
           step == [n \in 1..N |-> [w \in Seq(A) |-> KeepUnless(S, q[n], w)]]
<1>0. N \in Nat /\ \A n \in 1..N : q[n] \in A /\ n - 1 \in 0..N
  OBVIOUS
<1>0a. \A x \in A : \A w \in Seq(A) : KeepUnless(S, x, w) \in Seq(A)
  BY DEF KeepUnless
<1>0b. <<>> \in Seq(A)
  OBVIOUS
<1>1. \E h : Fix(h)
  <2>1. step \in [1..N -> [Seq(A) -> Seq(A)]]
    BY <1>0, <1>0a
  <2>2. PICK g \in [0..N -> Seq(A)] :
          g[0] = <<>> /\ \A n \in 1..N : g[n] = step[n][g[n - 1]]
    <3>1. N \in Nat
      BY <1>0
    <3> HIDE DEF step, N
    <3>2. Recursive(Seq(A), <<>>, N, step)
      BY <1>0b, <2>1, <3>1, Recursion
    <3> QED
      BY <3>2 DEF Recursive
  <2>3. \A n \in 1..N : n - 1 \in 0..N /\ g[n - 1] \in Seq(A)
    <3> HIDE DEF step, N
    <3> QED
      BY <1>0, <2>2
  <2>4. \A n \in 1..N : g[n] = KeepUnless(S, q[n], g[n - 1])
    <3> HIDE DEF N
    <3> QED
      BY <2>2, <2>3
  <2>5. \A n \in 0..N : g[n] = IF n = 0 THEN <<>> ELSE KeepUnless(S, q[n], g[n - 1])
    <3>1. \A n \in 0..N : n = 0 \/ n \in 1..N
      BY <1>0
    <3> HIDE DEF step
    <3> QED
      BY <2>2, <2>4, <3>1
  <2>6. Fix(g)
    <3> HIDE DEF step
    <3> QED
      BY <2>2, <2>5
  <2> QED
    BY <2>6
<1>2. Fix(f)
  BY <1>1
<1>3. Without(q, S) = f[N]
  BY DEF Without, KeepUnless
<1> HIDE DEF f
<1>4. f[0] = <<>> /\ \A n \in 1..N : f[n] = KeepUnless(S, q[n], f[n - 1])
  <2>1. \A n \in 0..N : f[n] = IF n = 0 THEN <<>> ELSE KeepUnless(S, q[n], f[n - 1])
    BY <1>2
  <2>2. 0 \in 0..N /\ \A n \in 1..N : n \in 0..N /\ n # 0
    BY <1>0
  <2> QED
    BY <2>1, <2>2
<1> DEFINE S0 == {n \in Nat : n <= N => f[n] \in Seq(A)}
<1>5. 0 \in S0
  BY <1>0b, <1>4
<1>6. ASSUME NEW n \in Nat, n \in S0 PROVE n + 1 \in S0
  <2> SUFFICES ASSUME n + 1 <= N PROVE f[n + 1] \in Seq(A)
    OBVIOUS
  <2>1. n + 1 \in 1..N /\ (n + 1) - 1 = n /\ f[n] \in Seq(A)
    BY <1>0, <1>6
  <2>2. f[n + 1] = KeepUnless(S, q[n + 1], f[n])
    BY <1>4, <2>1
  <2> QED
    BY <1>0, <1>0a, <2>1, <2>2
<1> HIDE DEF S0
<1>7. \A n \in Nat : n \in S0
  BY <1>5, <1>6, SetInduction
<1>8. \A n \in 0..N : f[n] \in Seq(A)
  BY <1>0, <1>7 DEF S0
<1>9. f \in [0..N -> Seq(A)]
  BY <1>2, <1>8
<1> QED
  BY <1>3, <1>4, <1>9 DEF WithoutWalk

(* One more element is kept if it is not in S.                             *)
LEMMA WithoutOfAppend ==
  ASSUME NEW A, NEW S, NEW q \in Seq(A), NEW x \in A
  PROVE  /\ Without(q, S) \in Seq(A)
         /\ Without(<<>>, S) = <<>>
         /\ Without(Append(q, x), S) = KeepUnless(S, x, Without(q, S))
<1> DEFINE r == Append(q, x)
           N == Len(q)
<1>0. /\ N \in Nat /\ r \in Seq(A) /\ Len(r) = N + 1 /\ r[N + 1] = x
      /\ \A n \in 1..N : r[n] = q[n]
  OBVIOUS
<1>1. PICK f \in [0..N -> Seq(A)] : /\ f[0] = <<>>
                                    /\ \A n \in 1..N : f[n] = KeepUnless(S, q[n], f[n - 1])
                                    /\ Without(q, S) = f[N]
  BY WithoutFunction DEF WithoutWalk
<1> HIDE DEF r
<1>2. PICK g \in [0..(N + 1) -> Seq(A)] :
        /\ g[0] = <<>>
        /\ \A n \in 1..(N + 1) : g[n] = KeepUnless(S, r[n], g[n - 1])
        /\ Without(r, S) = g[N + 1]
  <2>1. Len(r) = N + 1 /\ r \in Seq(A)
    BY <1>0 DEF r
  <2>2. WithoutWalk(A, S, r)
    BY <2>1, WithoutFunction
  <2> QED
    BY <2>1, <2>2 DEF WithoutWalk
<1> HIDE DEF N
<1> DEFINE T == {n \in Nat : n <= N => g[n] = f[n]}
<1>3. 0 \in T
  BY <1>1, <1>2
<1>4. ASSUME NEW n \in Nat, n \in T PROVE n + 1 \in T
  <2> SUFFICES ASSUME n + 1 <= N PROVE g[n + 1] = f[n + 1]
    OBVIOUS
  <2>1. n + 1 \in 1..N /\ n + 1 \in 1..(N + 1) /\ (n + 1) - 1 = n /\ g[n] = f[n]
    BY <1>0, <1>4
  <2>2. g[n + 1] = KeepUnless(S, r[n + 1], g[n]) /\ f[n + 1] = KeepUnless(S, q[n + 1], f[n])
    BY <1>1, <1>2, <2>1
  <2> QED
    BY <1>0, <2>1, <2>2
<1> HIDE DEF T
<1>5. N \in T
  BY <1>0, <1>3, <1>4, SetInduction
<1>6. g[N] = f[N] /\ g[N + 1] = KeepUnless(S, x, g[N])
  <2>1. N + 1 \in 1..(N + 1) /\ (N + 1) - 1 = N
    BY <1>0
  <2> QED
    BY <1>0, <1>2, <1>5, <2>1 DEF T
<1>7. Without(<<>>, S) = <<>>
  <2>1. <<>> \in Seq(A) /\ Len(<<>>) = 0
    OBVIOUS
  <2>2. WithoutWalk(A, S, <<>>)
    BY <2>1, WithoutFunction
  <2> QED
    BY <2>1, <2>2 DEF WithoutWalk
<1>8. f[N] \in Seq(A)
  BY <1>0, <1>1
<1> QED
  BY <1>0, <1>1, <1>2, <1>6, <1>7, <1>8 DEF r, KeepUnless

(* The function in Concatenated: its values are sequences.                 *)
Join(x, w) == w \o x

ConcatenatedWalk(A, q) ==
  \E f \in [0..Len(q) -> Seq(A)] :
    /\ f[0] = <<>>
    /\ \A n \in 1..Len(q) : f[n] = Join(q[n], f[n - 1])
    /\ Concatenated(q) = f[Len(q)]

(* It exists.                                                              *)
LEMMA ConcatenatedFunction ==
  ASSUME NEW A, NEW q \in Seq(Seq(A))
  PROVE  ConcatenatedWalk(A, q)
<1> DEFINE N == Len(q)
           Fix(h) == h = [n \in 0..N |-> IF n = 0 THEN <<>> ELSE Join(q[n], h[n - 1])]
           f == CHOOSE h : Fix(h)
           step == [n \in 1..N |-> [w \in Seq(A) |-> Join(q[n], w)]]
<1>0. N \in Nat /\ \A n \in 1..N : q[n] \in Seq(A) /\ n - 1 \in 0..N
  OBVIOUS
<1>0a. \A x \in Seq(A) : \A w \in Seq(A) : Join(x, w) \in Seq(A)
  BY DEF Join
<1>0b. <<>> \in Seq(A)
  OBVIOUS
<1>1. \E h : Fix(h)
  <2>1. step \in [1..N -> [Seq(A) -> Seq(A)]]
    BY <1>0, <1>0a
  <2>2. PICK g \in [0..N -> Seq(A)] :
          g[0] = <<>> /\ \A n \in 1..N : g[n] = step[n][g[n - 1]]
    <3>1. N \in Nat
      BY <1>0
    <3> HIDE DEF step, N
    <3>2. Recursive(Seq(A), <<>>, N, step)
      BY <1>0b, <2>1, <3>1, Recursion
    <3> QED
      BY <3>2 DEF Recursive
  <2>3. \A n \in 1..N : n - 1 \in 0..N /\ g[n - 1] \in Seq(A)
    <3> HIDE DEF step, N
    <3> QED
      BY <1>0, <2>2
  <2>4. \A n \in 1..N : g[n] = Join(q[n], g[n - 1])
    <3> HIDE DEF N
    <3> QED
      BY <2>2, <2>3
  <2>5. \A n \in 0..N : g[n] = IF n = 0 THEN <<>> ELSE Join(q[n], g[n - 1])
    <3>1. \A n \in 0..N : n = 0 \/ n \in 1..N
      BY <1>0
    <3> HIDE DEF step
    <3> QED
      BY <2>2, <2>4, <3>1
  <2>6. Fix(g)
    <3> HIDE DEF step
    <3> QED
      BY <2>2, <2>5
  <2> QED
    BY <2>6
<1>2. Fix(f)
  BY <1>1
<1>3. Concatenated(q) = f[N]
  BY DEF Concatenated, Join
<1> HIDE DEF f
<1>4. f[0] = <<>> /\ \A n \in 1..N : f[n] = Join(q[n], f[n - 1])
  <2>1. \A n \in 0..N : f[n] = IF n = 0 THEN <<>> ELSE Join(q[n], f[n - 1])
    BY <1>2
  <2>2. 0 \in 0..N /\ \A n \in 1..N : n \in 0..N /\ n # 0
    BY <1>0
  <2> QED
    BY <2>1, <2>2
<1> DEFINE S0 == {n \in Nat : n <= N => f[n] \in Seq(A)}
<1>5. 0 \in S0
  BY <1>0b, <1>4
<1>6. ASSUME NEW n \in Nat, n \in S0 PROVE n + 1 \in S0
  <2> SUFFICES ASSUME n + 1 <= N PROVE f[n + 1] \in Seq(A)
    OBVIOUS
  <2>1. n + 1 \in 1..N /\ (n + 1) - 1 = n /\ f[n] \in Seq(A)
    BY <1>0, <1>6
  <2>2. f[n + 1] = Join(q[n + 1], f[n])
    BY <1>4, <2>1
  <2> QED
    BY <1>0, <1>0a, <2>1, <2>2
<1> HIDE DEF S0
<1>7. \A n \in Nat : n \in S0
  BY <1>5, <1>6, SetInduction
<1>8. \A n \in 0..N : f[n] \in Seq(A)
  BY <1>0, <1>7 DEF S0
<1>9. f \in [0..N -> Seq(A)]
  BY <1>2, <1>8
<1> QED
  BY <1>3, <1>4, <1>9 DEF ConcatenatedWalk

(* One more sequence is put at the end.                                    *)
LEMMA ConcatenatedOfAppend ==
  ASSUME NEW A, NEW q \in Seq(Seq(A)), NEW x \in Seq(A)
  PROVE  /\ Concatenated(q) \in Seq(A)
         /\ Concatenated(<<>>) = <<>>
         /\ Concatenated(Append(q, x)) = Concatenated(q) \o x
<1> DEFINE r == Append(q, x)
           N == Len(q)
<1>0. /\ N \in Nat /\ r \in Seq(Seq(A)) /\ Len(r) = N + 1 /\ r[N + 1] = x
      /\ \A n \in 1..N : r[n] = q[n]
  OBVIOUS
<1>1. PICK f \in [0..N -> Seq(A)] : /\ f[0] = <<>>
                                    /\ \A n \in 1..N : f[n] = Join(q[n], f[n - 1])
                                    /\ Concatenated(q) = f[N]
  BY ConcatenatedFunction DEF ConcatenatedWalk
<1> HIDE DEF r
<1>2. PICK g \in [0..(N + 1) -> Seq(A)] :
        /\ g[0] = <<>>
        /\ \A n \in 1..(N + 1) : g[n] = Join(r[n], g[n - 1])
        /\ Concatenated(r) = g[N + 1]
  <2>1. Len(r) = N + 1 /\ r \in Seq(Seq(A))
    BY <1>0 DEF r
  <2>2. ConcatenatedWalk(A, r)
    BY <2>1, ConcatenatedFunction
  <2> QED
    BY <2>1, <2>2 DEF ConcatenatedWalk
<1> HIDE DEF N
<1> DEFINE T == {n \in Nat : n <= N => g[n] = f[n]}
<1>3. 0 \in T
  BY <1>1, <1>2
<1>4. ASSUME NEW n \in Nat, n \in T PROVE n + 1 \in T
  <2> SUFFICES ASSUME n + 1 <= N PROVE g[n + 1] = f[n + 1]
    OBVIOUS
  <2>1. n + 1 \in 1..N /\ n + 1 \in 1..(N + 1) /\ (n + 1) - 1 = n /\ g[n] = f[n]
    BY <1>0, <1>4
  <2>2. g[n + 1] = Join(r[n + 1], g[n]) /\ f[n + 1] = Join(q[n + 1], f[n])
    BY <1>1, <1>2, <2>1
  <2> QED
    BY <1>0, <2>1, <2>2
<1> HIDE DEF T
<1>5. N \in T
  BY <1>0, <1>3, <1>4, SetInduction
<1>6. g[N] = f[N] /\ g[N + 1] = Join(x, g[N])
  <2>1. N + 1 \in 1..(N + 1) /\ (N + 1) - 1 = N
    BY <1>0
  <2> QED
    BY <1>0, <1>2, <1>5, <2>1 DEF T
<1>7. Concatenated(<<>>) = <<>>
  <2>1. <<>> \in Seq(Seq(A)) /\ Len(<<>>) = 0
    OBVIOUS
  <2>2. ConcatenatedWalk(A, <<>>)
    BY <2>1, ConcatenatedFunction
  <2> QED
    BY <2>1, <2>2 DEF ConcatenatedWalk
<1>8. f[N] \in Seq(A)
  BY <1>0, <1>1
<1> QED
  BY <1>0, <1>1, <1>2, <1>6, <1>7, <1>8 DEF r, Join
=============================================================================
