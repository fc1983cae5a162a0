------------------------------ MODULE Folding ------------------------------
(***************************************************************************)
(* FoldLeft of a sequence, as the states of a loop: after[n] is what the   *)
(* loop holds behind its n-th turn.  A module that folds with an operator  *)
(* of its own instantiates Op with it and expands its fold down to the     *)
(* recursive function that LoopStates speaks of.  With it come the         *)
(* induction over numbers, as a lemma about sets, and what Max returns.    *)
(***************************************************************************)
EXTENDS Integers, Sequences, FiniteSetTheorems, TLAPS

CONSTANTS Op(_, _), Largest(_)

(* Every nonempty set of numbers has a least one.                            *)
LEMMA LeastNumber ==
  ASSUME NEW T, T \subseteq Nat, T # {}
  PROVE  \E x \in T : \A y \in T : x <= y
<1> DEFINE Below == {0..n : n \in T}
<1>1. Below \subseteq FiniteSubsetsOf(Nat) /\ Below # {}
  <2>1. \A n \in T : 0..n \subseteq Nat /\ IsFiniteSet(0..n)
    BY FS_Interval
  <2> QED
    BY <2>1 DEF FiniteSubsetsOf
<1>2. PICK least \in Below : \A b \in Below : <<b, least>> \notin StrictSubsetOrdering(Nat)
  <2> HIDE DEF Below
  <2> QED
    BY <1>1, WFMin, FS_StrictSubsetOrderingWellFounded
<1>3. PICK x \in T : least = 0..x
  OBVIOUS
<1>4. ASSUME NEW y \in T, y < x PROVE FALSE
  <2>1. 0..y \in Below /\ 0..y \subseteq 0..x /\ 0..y # 0..x
    <3>1. x \in 0..x /\ x \notin 0..y
      BY <1>4
    <3> QED
      BY <3>1, <1>4
  <2>2. <<0..y, 0..x>> \in StrictSubsetOrdering(Nat)
    BY <2>1 DEF StrictSubsetOrdering
  <2> QED
    BY <1>2, <1>3, <2>1, <2>2
<1> QED
  BY <1>4

(* Induction: a set that has 0, and with a number the next, has them all.    *)
LEMMA Induction ==
  ASSUME NEW S, 0 \in S, \A n \in Nat : n \in S => n + 1 \in S
  PROVE  Nat \subseteq S
<1> SUFFICES ASSUME Nat \ S # {} PROVE FALSE
  OBVIOUS
<1>1. PICK x \in Nat \ S : \A y \in Nat \ S : x <= y
  BY LeastNumber
<1>2. x # 0 /\ x - 1 \in Nat /\ x - 1 \in S
  BY <1>1
<1> QED
  BY <1>2

(* What FiniteSetsExt's Max chooses: the largest of a bounded set of numbers.*)
LEMMA LargestIn ==
  ASSUME NEW n \in Nat, NEW s \in SUBSET (1..n), s # {}
  PROVE  LET max == CHOOSE x \in s : \A y \in s : x >= y
         IN  max \in s /\ \A x \in s : x <= max
<1> DEFINE T == {m \in Nat : \A x \in s : x <= m}
<1>1. n \in T
  OBVIOUS
<1>2. PICK m \in T : \A k \in T : m <= k
  <2>1. T \subseteq Nat /\ T # {}
    BY <1>1
  <2> QED
    BY <2>1, LeastNumber
<1>3. m \in s
  <2> SUFFICES ASSUME m \notin s PROVE FALSE
    OBVIOUS
  <2>1. PICK y : y \in s /\ y \in 1..n
    OBVIOUS
  <2>2. m >= 1
    BY <2>1, <1>2
  <2>3. m - 1 \in T
    <3>1. \A x \in s : x <= m /\ x # m /\ x \in Nat
      BY <1>2
    <3> QED
      BY <2>2, <3>1
  <2> QED
    BY <1>2, <2>3
<1>4. \E x \in s : \A y \in s : x >= y
  BY <1>2, <1>3
<1>5. \A x, y \in s : x \in Int /\ y \in Int
  OBVIOUS
<1> QED
  BY <1>4, <1>5

(* The recursive function that FoldLeft(Op, p, batch) defines ...            *)
Iterates(iter, p, batch) ==
  iter = [s \in SUBSET DOMAIN batch |->
            IF s = {} THEN p ELSE Op(iter[s \ {Largest(s)}], batch[Largest(s)])]

(* ... and the states of the loop that it stands for.                        *)
Loop(after, p, batch) ==
  /\ after[0] = p
  /\ \A n \in 1..Len(batch) : after[n] = Op(after[n - 1], batch[n])

(* What LoopStates needs of the sequence, and of Largest, which is Max.      *)
IsSequence(batch) == Len(batch) \in Nat /\ DOMAIN batch = 1..Len(batch)

PicksLargest(batch) ==
  \A s \in SUBSET DOMAIN batch : s # {} =>
    Largest(s) \in s /\ \A x \in s : x <= Largest(s)

(* The function exists, and what it returns for the whole domain is the last *)
(* state of the loop.                                                        *)
LEMMA LoopStates ==
  ASSUME NEW p, NEW batch, IsSequence(batch), PicksLargest(batch)
  PROVE  /\ \E iter : Iterates(iter, p, batch)
         /\ \A iter : Iterates(iter, p, batch) =>
              \E after : Loop(after, p, batch) /\ iter[DOMAIN batch] = after[Len(batch)]
<1> USE DEF IsSequence, PicksLargest
<1> DEFINE D == 1..Len(batch)
           Next(g, s) == IF s = {} THEN p ELSE Op(g[s \ {Largest(s)}], batch[Largest(s)])
           Small(m) == {s \in SUBSET D : s \subseteq 1..m}
           Solves(g, m) == g = [s \in Small(m) |-> Next(g, s)]
           S == {m \in Nat : \E g : Solves(g, m)}
<1>1. 0 \in S
  <2>1. Small(0) = {{}}
    OBVIOUS
  <2>2. Solves([s \in Small(0) |-> p], 0)
    BY <2>1
  <2> HIDE DEF Solves
  <2> QED
    BY <2>2
<1>2. ASSUME NEW m \in Nat, m \in S PROVE m + 1 \in S
  <2>1. PICK g : Solves(g, m)
    BY <1>2
  <2> DEFINE h == [s \in Small(m + 1) |-> IF s \in Small(m) THEN g[s] ELSE Next(g, s)]
  <2>2. ASSUME NEW s \in Small(m + 1) PROVE h[s] = Next(h, s)
    <3>1. s # {} => Largest(s) \in s /\ s \ {Largest(s)} \in Small(m)
      <4> SUFFICES ASSUME s # {} PROVE Largest(s) \in s /\ s \ {Largest(s)} \in Small(m)
        OBVIOUS
      <4>1. Largest(s) \in s /\ \A x \in s : x <= Largest(s)
        OBVIOUS
      <4>2. \A x \in s \ {Largest(s)} : x \in 1..m
        <5>1. \A x \in s : x \in Nat /\ x >= 1 /\ x <= m + 1
          OBVIOUS
        <5>2. \A x \in s \ {Largest(s)} : x <= Largest(s) /\ x # Largest(s)
          BY <4>1
        <5>3. Largest(s) \in Nat /\ Largest(s) <= m + 1
          BY <4>1, <5>1
        <5>4. \A x \in s \ {Largest(s)} : x >= 1 /\ x <= m /\ x \in Nat
          BY <5>1, <5>2, <5>3
        <5> QED
          BY <5>4
      <4>3. s \ {Largest(s)} \in SUBSET D
        OBVIOUS
      <4>4. s \ {Largest(s)} \subseteq 1..m
        BY ONLY <4>2
      <4> DEFINE r == s \ {Largest(s)}
      <4>5. r \in SUBSET D /\ r \subseteq 1..m
        BY <4>3, <4>4
      <4> HIDE DEF r
      <4>6. r \in Small(m)
        BY <4>5
      <4> QED
        BY <4>1, <4>6 DEF r
    <3>2. s # {} => h[s \ {Largest(s)}] = g[s \ {Largest(s)}]
      BY <3>1
    <3>3. Next(h, s) = Next(g, s)
      BY <3>2
    <3>4. CASE s \in Small(m)
      <4>1. g[s] = Next(g, s)
        BY <2>1, <3>4
      <4> QED
        BY <3>3, <3>4, <4>1
    <3>5. CASE s \notin Small(m)
      BY <3>3, <3>5
    <3> QED
      BY <3>4, <3>5
  <2>3. Solves(h, m + 1)
    BY <2>2
  <2>4. \E f : Solves(f, m + 1)
    <3> HIDE DEF h, Solves
    <3> QED
      BY <2>3
  <2> HIDE DEF Solves
  <2> QED
    BY <2>4
<1>3. \E g : Solves(g, Len(batch))
  <2> HIDE DEF Solves
  <2>1. Nat \subseteq S
    <3> HIDE DEF S
    <3> QED
      BY <1>1, <1>2, Induction
  <2> QED
    BY <2>1
<1>4. Small(Len(batch)) = SUBSET D
  OBVIOUS
<1>5. \E iter : iter = [s \in SUBSET D |-> Next(iter, s)]
  BY <1>3, <1>4
<1>6. ASSUME NEW iter, iter = [s \in SUBSET D |-> Next(iter, s)]
      PROVE  \E after :
                /\ after[0] = p
                /\ \A n \in 1..Len(batch) : after[n] = Op(after[n - 1], batch[n])
                /\ iter[D] = after[Len(batch)]
  <2> DEFINE after == [n \in 0..Len(batch) |-> iter[1..n]]
  <2>1. after[0] = p
    <3>1. 1..0 = {}
      OBVIOUS
    <3> QED
      BY <1>6, <3>1
  <2>2. ASSUME NEW n \in 1..Len(batch) PROVE after[n] = Op(after[n - 1], batch[n])
    <3>1. n \in Nat /\ n \in 1..n /\ 1..n \in SUBSET D
      OBVIOUS
    <3>2. Largest(1..n) = n
      <4>1. Largest(1..n) \in 1..n /\ n <= Largest(1..n)
        BY <3>1
      <4> QED
        BY <4>1
    <3>3. (1..n) \ {n} = 1..(n - 1)
      OBVIOUS
    <3>4. iter[1..n] = Op(iter[1..(n - 1)], batch[n])
      BY <1>6, <3>1, <3>2, <3>3
    <3> QED
      BY <3>4
  <2>3. iter[D] = after[Len(batch)]
    OBVIOUS
  <2> HIDE DEF after
  <2> QED
    BY <2>1, <2>2, <2>3
<1> QED
  BY <1>5, <1>6 DEF Iterates, Loop
============================================================================
