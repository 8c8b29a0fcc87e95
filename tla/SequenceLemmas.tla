--------------------------- MODULE SequenceLemmas ---------------------------
(***************************************************************************)
(* What the operators on sequences do, for the proofs: stacks have their   *)
(* top last.                                                               *)
(***************************************************************************)
EXTENDS Integers, SequencesExt, SequenceTheorems, WellFoundedInduction, TLAPS

(* The first q elements of a sequence. *)
LEMMA Prefix ==
  ASSUME NEW S, NEW s \in Seq(S), NEW q \in Nat, q <= Len(s)
  PROVE  /\ SubSeq(s, 1, q) \in Seq(S)
         /\ Len(SubSeq(s, 1, q)) = q
         /\ \A i \in 1 .. q : SubSeq(s, 1, q)[i] = s[i]
<1>1. \A i \in 1 .. q : s[i] \in S
  OBVIOUS
<1>2. SubSeq(s, 1, q) \in Seq(S)
  BY <1>1
<1>3. Len(SubSeq(s, 1, q)) = q
  OBVIOUS
<1>4. \A i \in 1 .. q : SubSeq(s, 1, q)[i] = s[i]
  BY <1>1
<1> QED BY <1>2, <1>3, <1>4

(* What Front and Last do to a non-empty sequence. *)
LEMMA FrontLast ==
  ASSUME NEW S, NEW s \in Seq(S), s # <<>>
  PROVE  /\ Len(s) \in Nat \ {0}
         /\ Last(s) = s[Len(s)] /\ Last(s) \in S
         /\ Front(s) \in Seq(S) /\ Len(Front(s)) = Len(s) - 1
         /\ \A i \in 1 .. (Len(s) - 1) : Front(s)[i] = s[i]
<1>1. Len(s) \in Nat \ {0}
  OBVIOUS
<1>2. Last(s) = s[Len(s)] /\ Last(s) \in S
  BY <1>1 DEF Last
<1>3. Len(s) - 1 \in Nat /\ Len(s) - 1 <= Len(s)
  BY <1>1
<1>4. /\ SubSeq(s, 1, Len(s) - 1) \in Seq(S)
      /\ Len(SubSeq(s, 1, Len(s) - 1)) = Len(s) - 1
      /\ \A i \in 1 .. (Len(s) - 1) : SubSeq(s, 1, Len(s) - 1)[i] = s[i]
  BY <1>3, Prefix, Zenon
<1> QED BY <1>1, <1>2, <1>4, Zenon DEF Front

(* A non-empty stack is its top pushed on what is below it. *)
LEMMA FrontAppendLast ==
  ASSUME NEW S, NEW s \in Seq(S), s # <<>>
  PROVE  s = Append(Front(s), Last(s))
<1> DEFINE t == Append(Front(s), Last(s))
<1>1. /\ Len(s) \in Nat \ {0} /\ Last(s) = s[Len(s)] /\ Last(s) \in S
      /\ Front(s) \in Seq(S) /\ Len(Front(s)) = Len(s) - 1
      /\ \A i \in 1 .. (Len(s) - 1) : Front(s)[i] = s[i]
  BY FrontLast
<1>2. t \in Seq(S) /\ Len(t) = Len(s) /\ \A i \in 1 .. Len(s) : t[i] = s[i]
  BY <1>1
<1> QED BY <1>2

(* Replacing the last element is popping it and pushing another. *)
LEMMA ExceptLast ==
  ASSUME NEW S, NEW s \in Seq(S), s # <<>>, NEW e \in S
  PROVE  [s EXCEPT ![Len(s)] = e] = Append(Front(s), e)
<1> DEFINE t == Append(Front(s), e)
           u == [s EXCEPT ![Len(s)] = e]
<1>1. /\ Len(s) \in Nat \ {0}
      /\ Front(s) \in Seq(S) /\ Len(Front(s)) = Len(s) - 1
      /\ \A i \in 1 .. (Len(s) - 1) : Front(s)[i] = s[i]
  BY FrontLast
<1>2. t \in Seq(S) /\ Len(t) = Len(s) /\ t[Len(s)] = e
      /\ \A i \in 1 .. (Len(s) - 1) : t[i] = s[i]
  BY <1>1
<1>3. u \in Seq(S) /\ Len(u) = Len(s) /\ u[Len(s)] = e
      /\ \A i \in 1 .. (Len(s) - 1) : u[i] = s[i]
  BY <1>1
<1>4. \A i \in 1 .. Len(s) : t[i] = u[i]
  BY <1>1, <1>2, <1>3
<1>5. t = u
  <2> HIDE DEF t, u
  <2> QED BY <1>2, <1>3, <1>4
<1> QED BY <1>5

(* A sequence with one element changed. *)
LEMMA OneChanged ==
  ASSUME NEW S, NEW s \in Seq(S), NEW i \in 1 .. Len(s), NEW x \in S
  PROVE  LET t == [s EXCEPT ![i] = x]
         IN  /\ t \in Seq(S) /\ Len(t) = Len(s) /\ t[i] = x
             /\ \A j \in 1 .. Len(s) : j # i => t[j] = s[j]
<1> DEFINE t == [s EXCEPT ![i] = x]
<1>1. /\ DOMAIN t = 1 .. Len(s) /\ t[i] = x
      /\ \A j \in 1 .. Len(s) : j # i => t[j] = s[j]
  OBVIOUS
<1>2. \A j \in 1 .. Len(s) : t[j] \in S
  BY <1>1
<1>3. t \in [1 .. Len(s) -> S]
  BY <1>1, <1>2
<1>4. t \in Seq(S) /\ Len(t) = Len(s)
  <2>1. Len(s) \in Nat
    OBVIOUS
  <2> HIDE DEF t
  <2> QED
    BY <1>1, <1>3, <2>1, SeqDef
<1> QED
  BY <1>1, <1>4

(* Two sequences in a row: t has the elements of a and then those of b.    *)
Joining(t, a, b) ==
  /\ Len(t) = Len(a) + Len(b)
  /\ \A i \in 1 .. Len(a) : i \in 1 .. Len(t) /\ t[i] = a[i]
  /\ \A i \in 1 .. Len(b) : Len(a) + i \in 1 .. Len(t) /\ t[Len(a) + i] = b[i]
  /\ \A i \in 1 .. Len(t) :
       i \in 1 .. Len(a) \/ \E k \in 1 .. Len(b) : i = Len(a) + k

(* Concatenation does this. *)
LEMMA Joined ==
  ASSUME NEW S, NEW a \in Seq(S), NEW b \in Seq(S)
  PROVE  a \o b \in Seq(S) /\ Joining(a \o b, a, b)
<1> DEFINE t == a \o b
<1>1. /\ Len(a) \in Nat /\ Len(b) \in Nat /\ t \in Seq(S)
      /\ Len(t) = Len(a) + Len(b)
  OBVIOUS
<1>2. \A i \in 1 .. Len(a) : t[i] = a[i]
  OBVIOUS
<1>3. \A i \in 1 .. Len(b) : t[Len(a) + i] = b[i]
  OBVIOUS
<1> HIDE DEF t
<1>4. ASSUME NEW i \in 1 .. Len(t), i \notin 1 .. Len(a)
      PROVE  \E k \in 1 .. Len(b) : i = Len(a) + k
  <2>1. i - Len(a) \in 1 .. Len(b) /\ i = Len(a) + (i - Len(a))
    BY <1>1, <1>4
  <2> QED
    BY <2>1
<1>5. \A i \in 1 .. Len(a) : i \in 1 .. Len(t)
  BY <1>1
<1>6. \A i \in 1 .. Len(b) : Len(a) + i \in 1 .. Len(t)
  BY <1>1
<1> QED
  BY <1>1, <1>2, <1>3, <1>4, <1>5, <1>6 DEF t, Joining
-----------------------------------------------------------------------------
(* The order of the natural numbers. *)
Below == {ss \in Nat \X Nat : ss[1] < ss[2]}

(* Every set of natural numbers that is not empty has a least element.     *)
LEMMA Least ==
  ASSUME NEW T, T \subseteq Nat, T # {}
  PROVE  \E x \in T : \A y \in T : x <= y
<1>1. IsWellFoundedOn(Below, Nat)
  BY NatLessThanWellFounded DEF OpToRel, Below
<1>2. PICK x \in T : \A y \in T : ~ (<<y, x>> \in Below)
  BY <1>1, WFMin
<1>3. \A y \in T : x <= y
  <2> TAKE y \in T
  <2>1. <<y, x>> \notin Below /\ x \in Nat /\ y \in Nat
    BY <1>2
  <2>2. <<y, x>> \in Nat \X Nat /\ <<y, x>>[1] = y /\ <<y, x>>[2] = x
    BY <2>1
  <2>3. ~ (y < x)
    BY <2>1, <2>2 DEF Below
  <2> QED
    BY <2>1, <2>3
<1> QED
  BY <1>3

(* So a set with 0, and with n + 1 when it has n, has every number:        *)
(* induction, for the set of the numbers of which something is true.       *)
LEMMA Induction ==
  ASSUME NEW T, 0 \in T, \A n \in Nat : n \in T => n + 1 \in T
  PROVE  \A n \in Nat : n \in T
<1> DEFINE U == Nat \ T
<1> SUFFICES ASSUME U # {} PROVE FALSE
  OBVIOUS
<1>1. PICK x \in U : \A y \in U : x <= y
  BY Least
<1>2. x # 0 /\ x \in Nat /\ x - 1 \in Nat
  BY <1>1
<1>3. x - 1 \in T
  BY <1>1, <1>2
<1>4. x - 1 + 1 \in T
  BY <1>2, <1>3
<1> QED
  BY <1>1, <1>2, <1>4

(* What is defined by recursion on a number exists, when each value gives  *)
(* the next: `step' takes it, and the number, to it.                       *)
LEMMA Iteration ==
  ASSUME NEW X, NEW x0 \in X, NEW step \in [Nat -> [X -> X]]
  PROVE  \E g \in [Nat -> X] : g[0] = x0 /\ \A n \in Nat : g[n + 1] = step[n][g[n]]
<1> DEFINE Upto(n) == {f \in [0 .. n -> X] :
                         f[0] = x0 /\ \A m \in 0 .. n - 1 : f[m + 1] = step[m][f[m]]}
           T == {n \in Nat : Upto(n) # {}}
           Same(n) == \A k \in Nat : \A f \in Upto(n) : n <= k => \A g \in Upto(k) : f[n] = g[n]
           U == {n \in Nat : Same(n)}
<1>1. \A n \in Nat : n \in T
  <2>1. 0 \in T
    <3>1. [m \in 0 .. 0 |-> x0] \in Upto(0)
      OBVIOUS
    <3> QED
      BY <3>1
  <2>2. ASSUME NEW n \in Nat, n \in T PROVE n + 1 \in T
    <3>1. PICK f \in Upto(n) : TRUE
      BY <2>2
    <3>2. /\ f \in [0 .. n -> X] /\ f[0] = x0
          /\ \A m \in 0 .. n - 1 : f[m + 1] = step[m][f[m]]
      BY <3>1
    <3> DEFINE next == step[n][f[n]]
               h == [m \in 0 .. n + 1 |-> IF m = n + 1 THEN next ELSE f[m]]
    <3>3. next \in X
      <4>1. f[n] \in X
        BY <3>2
      <4>2. step[n] \in [X -> X]
        OBVIOUS
      <4> QED
        BY <4>1, <4>2
    <3> HIDE DEF next
    <3>4. h \in [0 .. n + 1 -> X] /\ h[0] = x0
      BY <3>2, <3>3
    <3>5. \A m \in 0 .. (n + 1) - 1 : h[m + 1] = step[m][h[m]]
      <4> TAKE m \in 0 .. (n + 1) - 1
      <4>1. CASE m = n
        BY <4>1 DEF next
      <4>2. CASE m \in 0 .. n - 1
        BY <3>2, <4>2
      <4> QED
        BY <4>1, <4>2
    <3> HIDE DEF h
    <3>6. h \in Upto(n + 1)
      BY <3>4, <3>5
    <3> QED
      BY <3>6
  <2> HIDE DEF T
  <2> QED
    BY <2>1, <2>2, Induction
<1>2. \A n \in Nat : n \in U
  <2>1. 0 \in U
    OBVIOUS
  <2>2. ASSUME NEW n \in Nat, n \in U PROVE n + 1 \in U
    <3>1. ASSUME NEW k \in Nat, NEW f \in Upto(n + 1), n + 1 <= k, NEW g \in Upto(k)
          PROVE  f[n + 1] = g[n + 1]
      <4> DEFINE h == [m \in 0 .. n |-> f[m]]
      <4>1. h \in Upto(n)
        OBVIOUS
      <4>2. h[n] = g[n]
        <5> HIDE DEF h, Upto
        <5>1. n <= k
          BY <3>1
        <5> QED
          BY <2>2, <4>1, <5>1
      <4>3. h[n] = f[n]
        OBVIOUS
      <4>4. n \in 0 .. k - 1 /\ n \in 0 .. (n + 1) - 1
        BY <3>1
      <4> QED
        BY <4>2, <4>3, <4>4
    <3>2. Same(n + 1)
      <4> HIDE DEF Upto
      <4> QED
        BY <3>1
    <3> HIDE DEF Same
    <3> QED
      BY <3>2
  <2> HIDE DEF U
  <2> QED
    BY <2>1, <2>2, Induction
<1> DEFINE g == [n \in Nat |-> (CHOOSE f \in Upto(n) : TRUE)[n]]
<1>3. \A n \in Nat : (CHOOSE f \in Upto(n) : TRUE) \in Upto(n)
  BY <1>1
<1> HIDE DEF Upto
<1>4. ASSUME NEW n \in Nat, NEW k \in Nat, n <= k, NEW f \in Upto(k)
      PROVE  g[n] = f[n]
  BY <1>2, <1>3, <1>4
<1>5. ASSUME NEW n \in Nat
      PROVE  g[n] \in X /\ (n = 0 => g[n] = x0) /\ g[n + 1] = step[n][g[n]]
  <2>1. PICK f : f \in Upto(n + 1)
    BY <1>3
  <2>2. g[n] = f[n] /\ g[n + 1] = f[n + 1]
    BY <1>4, <2>1
  <2> QED
    BY <2>1, <2>2 DEF Upto
<1> QED
  BY <1>5
=============================================================================
