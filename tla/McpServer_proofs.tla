-------------------------- MODULE McpServer_proofs --------------------------
(***************************************************************************)
(* Theorems about McpServer.tla.  Items are sorted, so first: a stable     *)
(* sort by keys returns a rearrangement.  Capsules and texts are loops     *)
(* over the items (Folding.tla), so next: what each turn of such a loop    *)
(* keeps true, and from it the theorems about texts.  Then the input:      *)
(* buffer, pushes and pipe hold, one behind the other, what was written    *)
(* from the message on before which the parser stands.  Every step keeps   *)
(* that true, and the theorems about answers, failures, pages and capsules *)
(* follow.                                                                 *)
(***************************************************************************)
EXTENDS McpServer, FiniteSetTheorems, TLAPS

(* The loops over items and over tokens.                                     *)
Summing == INSTANCE Folding WITH Op <- AddSize, Largest <- Max
Filling == INSTANCE Folding WITH Op <- Consider, Largest <- Max
Writing == INSTANCE Folding WITH Op <- AddLine, Largest <- Max
Delegating == INSTANCE Folding WITH Op <- AddShortLine, Largest <- Max
Keeping == INSTANCE Folding WITH Op <- KeepText, Largest <- Max

----------------------------------------------------------------------------
\* Numbers

(* What Max and Min choose from a set of numbers.                            *)
LEMMA MaxChosen ==
  ASSUME NEW n \in Nat, NEW s \in SUBSET (0..n), s # {}
  PROVE  Max(s) \in s /\ \A x \in s : x <= Max(s)
<1> DEFINE T == {n - x : x \in s}
<1>1. PICK k \in T : \A y \in T : k <= y
  <2>1. \A x \in s : x \in 0..n /\ n - x \in Nat
    OBVIOUS
  <2>2. T \subseteq Nat /\ T # {}
    BY <2>1
  <2> HIDE DEF T
  <2> QED
    BY <2>2, Summing!LeastNumber
<1>2. PICK x \in s : k = n - x
  OBVIOUS
<1>3. \A y \in s : y \in Int /\ y <= x
  <2> SUFFICES ASSUME NEW y \in s PROVE y \in Int /\ y <= x
    OBVIOUS
  <2>1. n - y \in T /\ k <= n - y
    BY <1>1
  <2> QED
    BY <1>2, <2>1
<1>4. \E z \in s : \A y \in s : z >= y
  BY <1>2, <1>3
<1>5. Max(s) \in s /\ \A y \in s : Max(s) >= y
  BY <1>4 DEF Max
<1> QED
  BY <1>3, <1>5

(* The same of Min.                                                          *)
LEMMA MinChosen ==
  ASSUME NEW s \in SUBSET Nat, s # {}
  PROVE  Min(s) \in s /\ \A x \in s : Min(s) <= x
<1>1. \E z \in s : \A y \in s : z <= y
  BY Summing!LeastNumber
<1> QED
  BY <1>1 DEF Min

(* The first place in a sequence where a test holds; place holds the tests.  *)
LEMMA FirstPlace ==
  ASSUME NEW n \in Nat, NEW I \in SUBSET (1..n)
  PROVE  LET first == IF I # {} THEN Min(I) ELSE 0 IN
         /\ first \in 0..n
         /\ first = 0 <=> I = {}
         /\ I # {} => first \in I /\ \A i \in I : first <= i
<1>1. CASE I = {}
  BY <1>1
<1>2. CASE I # {}
  <2>1. I \in SUBSET Nat
    OBVIOUS
  <2>2. Min(I) \in I /\ \A x \in I : Min(I) <= x
    BY <1>2, <2>1, MinChosen
  <2>3. Min(I) \in 1..n
    BY <2>2
  <2> QED
    BY <1>2, <2>2, <2>3
<1> QED
  BY <1>1, <1>2

----------------------------------------------------------------------------
\* Sorting

(* A strict order of the places 1..n in which any two are comparable.        *)
IsOrder(P, n) ==
  /\ \A i \in 1..n : <<i, i>> \notin P
  /\ \A i, j \in 1..n : i # j => <<i, j>> \in P \/ <<j, i>> \in P
  /\ \A i, j, k \in 1..n : <<i, j>> \in P /\ <<j, k>> \in P => <<i, k>> \in P

Ahead(P, n, i) == {j \in 1..n : <<j, i>> \in P}

(* In such an order each rank belongs to exactly one place.                  *)
LEMMA RanksAreDistinct ==
  ASSUME NEW n \in Nat, NEW P, IsOrder(P, n)
  PROVE  /\ \A i \in 1..n : Cardinality(Ahead(P, n, i)) \in 0..(n - 1)
         /\ \A i, j \in 1..n :
              Cardinality(Ahead(P, n, i)) = Cardinality(Ahead(P, n, j)) => i = j
<1>0. IsFiniteSet(1..n) /\ Cardinality(1..n) = n
  BY FS_Interval
<1>1. ASSUME NEW i \in 1..n
      PROVE  /\ IsFiniteSet(Ahead(P, n, i))
             /\ Cardinality(Ahead(P, n, i)) \in 0..(n - 1)
  <2>1. Ahead(P, n, i) \in SUBSET (1..n) /\ Ahead(P, n, i) # 1..n
    BY DEF Ahead, IsOrder
  <2>2. /\ IsFiniteSet(Ahead(P, n, i))
        /\ Cardinality(Ahead(P, n, i)) <= n
        /\ Cardinality(Ahead(P, n, i)) # n
    BY <1>0, <2>1, FS_Subset
  <2>3. Cardinality(Ahead(P, n, i)) \in Nat
    BY <2>2, FS_CardinalityType
  <2> QED
    BY <2>2, <2>3
<1>2. ASSUME NEW i \in 1..n, NEW j \in 1..n, <<i, j>> \in P
      PROVE  Cardinality(Ahead(P, n, i)) # Cardinality(Ahead(P, n, j))
  <2>1. Ahead(P, n, i) \in SUBSET Ahead(P, n, j)
    BY <1>2 DEF Ahead, IsOrder
  <2>2. i \in Ahead(P, n, j) /\ i \notin Ahead(P, n, i)
    BY <1>2 DEF Ahead, IsOrder
  <2>3. Ahead(P, n, i) # Ahead(P, n, j)
    BY <2>2
  <2> QED
    BY <1>1, <2>1, <2>3, FS_Subset
<1>3. ASSUME NEW i \in 1..n, NEW j \in 1..n, i # j
      PROVE  Cardinality(Ahead(P, n, i)) # Cardinality(Ahead(P, n, j))
  <2>1. <<i, j>> \in P \/ <<j, i>> \in P
    BY <1>3 DEF IsOrder
  <2> QED
    BY <1>2, <2>1
<1> QED
  BY <1>1, <1>3

(* What sorting does: t has the elements of s, each as often, in other       *)
(* places.                                                                   *)
IsPermutation(f, n) ==
  /\ f \in [1..n -> 1..n]
  /\ \A i, j \in 1..n : f[i] = f[j] => i = j
  /\ \A j \in 1..n : \E i \in 1..n : f[i] = j

Rearranges(s, t) ==
  \E f : IsPermutation(f, Len(s)) /\ t = [i \in 1..Len(s) |-> s[f[i]]]

(* The places that Sorted finds, one for each rank.                          *)
Places(n, earlier) == [k \in 1..n |-> CHOOSE i \in 1..n : earlier[i] = k - 1]

(* So each place of the sorted sequence has one item: the places are a       *)
(* permutation.                                                              *)
LEMMA PlacesOfRanks ==
  ASSUME NEW n \in Nat, NEW P, IsOrder(P, n), NEW earlier,
         \A i \in 1..n : earlier[i] = Cardinality(Ahead(P, n, i))
  PROVE  IsPermutation(Places(n, earlier), n)
<1> DEFINE rank == [i \in 1..n |-> Cardinality(Ahead(P, n, i)) + 1]
           f == [k \in 1..n |-> CHOOSE i \in 1..n : earlier[i] = k - 1]
<1>1. rank \in [1..n -> 1..n] /\ \A i, j \in 1..n : rank[i] = rank[j] => i = j
  <2>1. \A i \in 1..n : Cardinality(Ahead(P, n, i)) \in 0..(n - 1)
    BY RanksAreDistinct
  <2>2. \A i \in 1..n : rank[i] \in 1..n /\ rank[i] - 1 = Cardinality(Ahead(P, n, i))
    BY <2>1
  <2>3. \A i, j \in 1..n : rank[i] = rank[j] => i = j
    BY <2>2, RanksAreDistinct
  <2> QED
    BY <2>2, <2>3
<1>2. rank \in Injection(1..n, 1..n)
  <2> HIDE DEF rank
  <2> QED
    BY <1>1 DEF Injection, IsInjective
<1>3. rank \in Surjection(1..n, 1..n)
  <2> HIDE DEF rank
  <2> QED
    BY <1>2, FS_Injection, FS_Interval
<1>4. \A k \in 1..n : \E i \in 1..n : rank[i] = k
  <2> HIDE DEF rank
  <2> QED
    BY <1>3 DEF Surjection
<1>5. ASSUME NEW k \in 1..n
      PROVE  f[k] \in 1..n /\ rank[f[k]] = k
  <2>1. \A i \in 1..n : Cardinality(Ahead(P, n, i)) \in 0..(n - 1)
    BY RanksAreDistinct
  <2>2. \E i \in 1..n : Cardinality(Ahead(P, n, i)) = k - 1
    <3>1. PICK i \in 1..n : rank[i] = k
      BY <1>4
    <3>2. Cardinality(Ahead(P, n, i)) + 1 = k
      BY <3>1
    <3> QED
      BY <2>1, <3>2
  <2>3. f[k] \in 1..n /\ earlier[f[k]] = k - 1
    BY <2>2
  <2> HIDE DEF f
  <2> QED
    BY <2>3
<1>6. \A j \in 1..n : rank[j] \in 1..n /\ f[rank[j]] = j
  <2> HIDE DEF rank, f
  <2> QED
    BY <1>1, <1>5
<1>7. f \in [1..n -> 1..n]
  BY <1>5
<1> HIDE DEF f, rank
<1>8. IsPermutation(f, n)
  <2>1. \A i, j \in 1..n : f[i] = f[j] => i = j
    BY <1>5
  <2> QED
    BY <1>6, <1>7, <2>1 DEF IsPermutation
<1> QED
  BY <1>8 DEF f, Places

(* What a comparison says of places, completed by the places themselves, is  *)
(* such an order when the comparison is asymmetric and its ties are          *)
(* transitive.                                                               *)
IsComparison(B, n) ==
  /\ \A i, j \in 1..n : <<i, j>> \in B => <<j, i>> \notin B
  /\ \A i, j, k \in 1..n : <<i, j>> \notin B /\ <<j, k>> \notin B => <<i, k>> \notin B

Stable(B, n) ==
  {p \in (1..n) \X (1..n) : p \in B \/ (<<p[2], p[1]>> \notin B /\ p[1] < p[2])}

(* A comparison made stable by the place in the sequence is a strict total   *)
(* order of the places.                                                      *)
LEMMA StableIsOrder ==
  ASSUME NEW n \in Nat, NEW B, IsComparison(B, n)
  PROVE  IsOrder(Stable(B, n), n)
<1>1. \A i, j \in 1..n :
        <<i, j>> \in Stable(B, n) <=> <<i, j>> \in B \/ (<<j, i>> \notin B /\ i < j)
  BY DEF Stable
<1>2. \A i \in 1..n : <<i, i>> \notin Stable(B, n)
  BY <1>1 DEF IsComparison
<1>3. \A i, j \in 1..n : i # j => <<i, j>> \in Stable(B, n) \/ <<j, i>> \in Stable(B, n)
  <2> SUFFICES ASSUME NEW i \in 1..n, NEW j \in 1..n, i # j
               PROVE  <<i, j>> \in Stable(B, n) \/ <<j, i>> \in Stable(B, n)
    OBVIOUS
  <2>1. i < j \/ j < i
    OBVIOUS
  <2> QED
    BY <1>1, <2>1
<1>4. \A i, j, k \in 1..n :
        <<i, j>> \in Stable(B, n) /\ <<j, k>> \in Stable(B, n) => <<i, k>> \in Stable(B, n)
  <2> SUFFICES ASSUME NEW i \in 1..n, NEW j \in 1..n, NEW k \in 1..n,
                      <<i, j>> \in Stable(B, n), <<j, k>> \in Stable(B, n)
               PROVE  <<i, k>> \in Stable(B, n)
    OBVIOUS
  <2>1. <<j, i>> \notin B /\ <<k, j>> \notin B
    BY <1>1 DEF IsComparison
  <2>2. <<k, i>> \notin B
    BY <2>1 DEF IsComparison
  <2>3. CASE <<i, j>> \notin B /\ <<j, k>> \notin B
    <3>1. i < j /\ j < k
      BY <1>1, <2>3
    <3> QED
      BY <1>1, <2>2, <3>1
  <2>4. CASE <<i, j>> \in B
    <3>1. <<i, k>> \in B
      BY <2>1, <2>4 DEF IsComparison
    <3> QED
      BY <1>1, <3>1
  <2>5. CASE <<j, k>> \in B
    <3>1. <<i, k>> \in B
      BY <2>1, <2>5 DEF IsComparison
    <3> QED
      BY <1>1, <3>1
  <2> QED
    BY <2>3, <2>4, <2>5
<1> QED
  BY <1>2, <1>3, <1>4 DEF IsOrder

(* How many elements come before each, by a comparison and then by place.    *)
Ranks(s, B, earlier) ==
  \A i \in DOMAIN s : earlier[i] = Cardinality(
    {j \in DOMAIN s : <<j, i>> \in B \/ (<<i, j>> \notin B /\ j < i)})

(* What Sorted returns when the comparison is one.                           *)
Picked(s, earlier) == [k \in DOMAIN s |-> s[CHOOSE i \in DOMAIN s : earlier[i] = k - 1]]

(* What Sorted returns is therefore a rearrangement of its argument,         *)
(* provided the comparison is one.                                           *)
LEMMA SortedRearranges ==
  ASSUME NEW s, Len(s) \in Nat, DOMAIN s = 1..Len(s),
         NEW B, IsComparison(B, Len(s)), NEW earlier, Ranks(s, B, earlier)
  PROVE  Rearranges(s, Picked(s, earlier))
<1> DEFINE P == Stable(B, Len(s))
           f == Places(Len(s), earlier)
<1>1. IsOrder(P, Len(s))
  BY StableIsOrder
<1>2. \A i \in 1..Len(s) : Ahead(P, Len(s), i) =
        {j \in DOMAIN s : <<j, i>> \in B \/ (<<i, j>> \notin B /\ j < i)}
  BY DEF Ahead, Stable
<1>3. \A i \in 1..Len(s) : earlier[i] = Cardinality(Ahead(P, Len(s), i))
  BY <1>2 DEF Ranks
<1> HIDE DEF P
<1>4. IsPermutation(f, Len(s))
  BY <1>1, <1>3, PlacesOfRanks
<1>5. Picked(s, earlier) = [k \in 1..Len(s) |-> s[f[k]]]
  BY DEF Picked, Places
<1> HIDE DEF f
<1> QED
  BY <1>4, <1>5 DEF Rearranges

(* A rearrangement has the same elements; where identifiers differ in one    *)
(* they differ in the other.                                                 *)
Distinct(s) == \A i, j \in DOMAIN s : s[i].id = s[j].id => i = j

(* A rearrangement has the same items, and each as often.                    *)
LEMMA RearrangedElements ==
  ASSUME NEW S, NEW s \in Seq(S), NEW t, Rearranges(s, t)
  PROVE  t \in Seq(S) /\ Len(t) = Len(s) /\ ToSet(t) = ToSet(s) /\ (Distinct(s) => Distinct(t))
<1>1. PICK f : IsPermutation(f, Len(s)) /\ t = [i \in 1..Len(s) |-> s[f[i]]]
  BY DEF Rearranges
<1>2. \A i \in 1..Len(s) : f[i] \in 1..Len(s) /\ t[i] = s[f[i]] /\ s[f[i]] \in S
  <2>1. \A i \in 1..Len(s) : f[i] \in 1..Len(s) /\ t[i] = s[f[i]]
    BY <1>1 DEF IsPermutation
  <2>2. \A i \in 1..Len(s) : s[i] \in S
    OBVIOUS
  <2> QED
    BY <2>1, <2>2
<1>3. t \in Seq(S) /\ Len(t) = Len(s)
  BY <1>1, <1>2
<1>4. ToSet(t) = ToSet(s)
  <2>1. \A i \in 1..Len(s) : \E j \in 1..Len(s) : f[j] = i
    BY <1>1 DEF IsPermutation
  <2>2. DOMAIN t = 1..Len(s) /\ DOMAIN s = 1..Len(s)
    BY <1>1
  <2>3. \A i \in 1..Len(s) : s[i] \in ToSet(t)
    BY <1>2, <2>1, <2>2 DEF ToSet
  <2>4. \A i \in 1..Len(s) : t[i] \in ToSet(s)
    BY <1>2, <2>2 DEF ToSet
  <2> QED
    BY <2>2, <2>3, <2>4 DEF ToSet
<1>5. Distinct(s) => Distinct(t)
  <2> SUFFICES ASSUME Distinct(s), NEW i \in DOMAIN t, NEW j \in DOMAIN t, t[i].id = t[j].id
               PROVE  i = j
    BY DEF Distinct
  <2>1. i \in 1..Len(s) /\ j \in 1..Len(s)
    BY <1>3
  <2>2. s[f[i]].id = s[f[j]].id /\ f[i] \in DOMAIN s /\ f[j] \in DOMAIN s
    BY <1>2, <2>1
  <2>3. f[i] = f[j]
    BY <2>2 DEF Distinct
  <2> QED
    BY <1>1, <2>1, <2>3 DEF IsPermutation
<1> QED
  BY <1>3, <1>4, <1>5

----------------------------------------------------------------------------
\* The orders in which items are listed

(* Each kind has a priority of its own.                                      *)
AllKinds == ToSet(KindsByPriority)

(* The priority of a kind is its place in KindsByPriority.                   *)
LEMMA PriorityIsPlace ==
  ASSUME NEW kind \in AllKinds
  PROVE  Priority(kind) \in 1..14 /\ KindsByPriority[Priority(kind)] = kind
<1> DEFINE I == {i \in 1..Len(KindsByPriority) : KindsByPriority[i] = kind}
<1>1. Len(KindsByPriority) = 14 /\ DOMAIN KindsByPriority = 1..14
  BY DEF KindsByPriority
<1>2. I # {} /\ I \subseteq 1..14
  <2>1. PICK i \in DOMAIN KindsByPriority : KindsByPriority[i] = kind
    BY DEF AllKinds, ToSet
  <2> QED
    BY <1>1, <2>1
<1>3. Priority(kind) = Min(I)
  BY <1>2 DEF Priority, SelectInSeq
<1>4. Min(I) \in I
  <2> HIDE DEF I
  <2>1. I \in SUBSET Nat
    BY <1>2
  <2> QED
    BY <1>2, <2>1, MinChosen
<1> QED
  BY <1>2, <1>3, <1>4

(* Two kinds never share a priority.                                         *)
LEMMA PriorityDiffers ==
  ASSUME NEW kind \in AllKinds, NEW other \in AllKinds, Priority(kind) = Priority(other)
  PROVE  kind = other
BY PriorityIsPlace

(* What the items of a sequence are.                                         *)
LEMMA StatementsOf ==
  ASSUME NEW s \in Seq(Statement)
  PROVE  /\ Len(s) \in Nat /\ DOMAIN s = 1..Len(s)
         /\ \A i \in 1..Len(s) :
              /\ s[i] \in Statement /\ s[i].kind \in AllKinds
              /\ s[i].id \in Nat /\ s[i].size \in Nat /\ s[i].time \in Nat
              /\ Priority(s[i].kind) \in Int
<1>1. Len(s) \in Nat /\ DOMAIN s = 1..Len(s) /\ \A i \in 1..Len(s) : s[i] \in Statement
  OBVIOUS
<1>2. ASSUME NEW x \in Statement
      PROVE  x.kind \in AllKinds /\ x.id \in Nat /\ x.size \in Nat /\ x.time \in Nat
  BY DEF Statement, AllKinds
<1>3. \A i \in 1..Len(s) : s[i].kind \in AllKinds
  BY <1>1, <1>2
<1>4. \A i \in 1..Len(s) : Priority(s[i].kind) \in Int
  BY <1>3, PriorityIsPlace
<1> QED
  BY <1>1, <1>2, <1>4

(* Comparing by one number, then by a second, then by a third.               *)
ByKeys(n, a, b, c) ==
  {p \in (1..n) \X (1..n) :
     \/ a[p[1]] < a[p[2]]
     \/ a[p[1]] = a[p[2]] /\ b[p[1]] < b[p[2]]
     \/ a[p[1]] = a[p[2]] /\ b[p[1]] = b[p[2]] /\ c[p[1]] < c[p[2]]}

(* Comparing by a first key, then a second, then a third is a comparison.    *)
LEMMA KeysCompare ==
  ASSUME NEW n \in Nat, NEW a, NEW b, NEW c,
         \A i \in 1..n : a[i] \in Int /\ b[i] \in Int /\ c[i] \in Int
  PROVE  /\ IsComparison(ByKeys(n, a, b, c), n)
         /\ \A i, j \in 1..n : <<i, j>> \in ByKeys(n, a, b, c) <=>
              \/ a[i] < a[j]
              \/ a[i] = a[j] /\ b[i] < b[j]
              \/ a[i] = a[j] /\ b[i] = b[j] /\ c[i] < c[j]
<1> DEFINE B == ByKeys(n, a, b, c)
<1>1. \A i, j \in 1..n : <<i, j>> \in B <=>
        \/ a[i] < a[j]
        \/ a[i] = a[j] /\ b[i] < b[j]
        \/ a[i] = a[j] /\ b[i] = b[j] /\ c[i] < c[j]
  BY DEF ByKeys
<1> HIDE DEF B
<1>2. ASSUME NEW i \in 1..n, NEW j \in 1..n, <<i, j>> \in B
      PROVE  <<j, i>> \notin B
  <2>1. a[i] \in Int /\ a[j] \in Int /\ b[i] \in Int /\ b[j] \in Int /\ c[i] \in Int /\ c[j] \in Int
    OBVIOUS
  <2> QED
    BY <1>1, <1>2, <2>1
<1>3. ASSUME NEW i \in 1..n, NEW j \in 1..n, NEW k \in 1..n, <<i, j>> \notin B, <<j, k>> \notin B
      PROVE  <<i, k>> \notin B
  <2>1. /\ a[i] \in Int /\ a[j] \in Int /\ b[i] \in Int /\ b[j] \in Int /\ c[i] \in Int /\ c[j] \in Int
        /\ a[k] \in Int /\ b[k] \in Int /\ c[k] \in Int
    OBVIOUS
  <2>2. ~(\/ a[i] < a[j]
          \/ a[i] = a[j] /\ b[i] < b[j]
          \/ a[i] = a[j] /\ b[i] = b[j] /\ c[i] < c[j])
    BY <1>1, <1>3
  <2>3. ~(\/ a[j] < a[k]
          \/ a[j] = a[k] /\ b[j] < b[k]
          \/ a[j] = a[k] /\ b[j] = b[k] /\ c[j] < c[k])
    BY <1>1, <1>3
  <2>4. ~(\/ a[i] < a[k]
          \/ a[i] = a[k] /\ b[i] < b[k]
          \/ a[i] = a[k] /\ b[i] = b[k] /\ c[i] < c[k])
    BY <2>1, <2>2, <2>3
  <2> QED
    BY <1>1, <2>4
<1>4. IsComparison(B, n)
  BY <1>2, <1>3 DEF IsComparison
<1> QED
  BY <1>1, <1>4 DEF B

(* The three orders.                                                         *)
LEMMA ActiveItemsRearranged ==
  ASSUME NEW s \in Seq(Statement)
  PROVE  Rearranges(s, ActiveItems(s))
<1> DEFINE n == Len(s)
           a == [i \in 1..n |-> Priority(s[i].kind)]
           b == [i \in 1..n |-> s[i].time]
           c == [i \in 1..n |-> 0]
           B == ByKeys(n, a, b, c)
           earlier == [i \in DOMAIN s |-> Cardinality({j \in DOMAIN s :
             \/ \/ Priority(s[j].kind) < Priority(s[i].kind)
                \/ s[j].kind = s[i].kind /\ s[j].time < s[i].time
             \/ /\ ~(\/ Priority(s[i].kind) < Priority(s[j].kind)
                     \/ s[i].kind = s[j].kind /\ s[i].time < s[j].time)
                /\ j < i})]
<1>1. ActiveItems(s) = Picked(s, earlier)
  BY DEF ActiveItems, Sorted, Picked
<1>2. n \in Nat /\ DOMAIN s = 1..n
  BY StatementsOf
<1>3. \A i \in 1..n : a[i] \in Int /\ b[i] \in Int /\ c[i] \in Int
  BY StatementsOf
<1>4. \A i, j \in 1..n : s[i].kind = s[j].kind <=> a[i] = a[j]
  BY StatementsOf, PriorityDiffers
<1>5. /\ IsComparison(B, n)
      /\ \A i, j \in 1..n : <<i, j>> \in B <=>
              \/ a[i] < a[j]
              \/ a[i] = a[j] /\ b[i] < b[j]
              \/ a[i] = a[j] /\ b[i] = b[j] /\ c[i] < c[j]
  <2> HIDE DEF a, b, c, n
  <2> QED
    BY <1>2, <1>3, KeysCompare
<1>6. \A i, j \in 1..n : <<i, j>> \in B <=>
        \/ Priority(s[i].kind) < Priority(s[j].kind)
        \/ s[i].kind = s[j].kind /\ s[i].time < s[j].time
  <2> SUFFICES ASSUME NEW i \in 1..n, NEW j \in 1..n
               PROVE  <<i, j>> \in B <=>
                 \/ Priority(s[i].kind) < Priority(s[j].kind)
                 \/ s[i].kind = s[j].kind /\ s[i].time < s[j].time
    OBVIOUS
  <2>1. <<i, j>> \in B <=>
              \/ a[i] < a[j]
              \/ a[i] = a[j] /\ b[i] < b[j]
              \/ a[i] = a[j] /\ b[i] = b[j] /\ c[i] < c[j]
    BY <1>5
  <2>2. a[i] = a[j] <=> s[i].kind = s[j].kind
    BY <1>4
  <2>3. ~(c[i] < c[j])
    OBVIOUS
  <2>4. a[i] = Priority(s[i].kind) /\ a[j] = Priority(s[j].kind)
        /\ b[i] = s[i].time /\ b[j] = s[j].time
    OBVIOUS
  <2> HIDE DEF B, a, b, c
  <2> QED
    BY <2>1, <2>2, <2>3, <2>4
<1>7. \A i \in DOMAIN s : earlier[i] = Cardinality(
           {j \in DOMAIN s : <<j, i>> \in B \/ (<<i, j>> \notin B /\ j < i)})
  <2> HIDE DEF B
  <2>1. ASSUME NEW i \in DOMAIN s
        PROVE {j \in DOMAIN s : <<j, i>> \in B \/ (<<i, j>> \notin B /\ j < i)} =
           {j \in DOMAIN s :
             \/ \/ Priority(s[j].kind) < Priority(s[i].kind)
                \/ s[j].kind = s[i].kind /\ s[j].time < s[i].time
             \/ /\ ~(\/ Priority(s[i].kind) < Priority(s[j].kind)
                     \/ s[i].kind = s[j].kind /\ s[i].time < s[j].time)
                /\ j < i}
    BY <1>2, <1>6
  <2> QED
    BY <2>1
<1> HIDE DEF B, earlier
<1>8. Ranks(s, B, earlier)
  BY <1>7 DEF Ranks
<1>9. IsComparison(B, Len(s)) /\ Len(s) \in Nat /\ DOMAIN s = 1..Len(s)
  BY <1>2, <1>5
<1>10. Rearranges(s, Picked(s, earlier))
  BY <1>8, <1>9, SortedRearranges
<1> QED
  BY <1>1, <1>10

(* The order of a capsule rearranges the items.                              *)
LEMMA CapsuleOrderRearranged ==
  ASSUME NEW s \in Seq(Statement)
  PROVE  Rearranges(s, CapsuleOrder(s))
<1> DEFINE n == Len(s)
           a == [i \in 1..n |-> Priority(s[i].kind)]
           b == [i \in 1..n |-> s[i].time]
           c == [i \in 1..n |-> s[i].id]
           B == ByKeys(n, a, b, c)
           earlier == [i \in DOMAIN s |-> Cardinality({j \in DOMAIN s :
             \/ \/ Priority(s[j].kind) < Priority(s[i].kind)
                \/ /\ s[j].kind = s[i].kind
                   /\ \/ s[j].time < s[i].time
                      \/ s[j].time = s[i].time /\ s[j].id < s[i].id
             \/ /\ ~(\/ Priority(s[i].kind) < Priority(s[j].kind)
                     \/ /\ s[i].kind = s[j].kind
                        /\ \/ s[i].time < s[j].time
                           \/ s[i].time = s[j].time /\ s[i].id < s[j].id)
                /\ j < i})]
<1>1. CapsuleOrder(s) = Picked(s, earlier)
  BY DEF CapsuleOrder, Sorted, Picked
<1>2. n \in Nat /\ DOMAIN s = 1..n
  BY StatementsOf
<1>3. \A i \in 1..n : a[i] \in Int /\ b[i] \in Int /\ c[i] \in Int
  BY StatementsOf
<1>4. \A i, j \in 1..n : s[i].kind = s[j].kind <=> a[i] = a[j]
  BY StatementsOf, PriorityDiffers
<1>5. /\ IsComparison(B, n)
      /\ \A i, j \in 1..n : <<i, j>> \in B <=>
              \/ a[i] < a[j]
              \/ a[i] = a[j] /\ b[i] < b[j]
              \/ a[i] = a[j] /\ b[i] = b[j] /\ c[i] < c[j]
  <2> HIDE DEF a, b, c, n
  <2> QED
    BY <1>2, <1>3, KeysCompare
<1>6. ASSUME NEW i \in 1..n, NEW j \in 1..n
      PROVE  <<i, j>> \in B <=>
        \/ Priority(s[i].kind) < Priority(s[j].kind)
        \/ /\ s[i].kind = s[j].kind
           /\ \/ s[i].time < s[j].time
              \/ s[i].time = s[j].time /\ s[i].id < s[j].id
  <2>1. <<i, j>> \in B <=>
              \/ a[i] < a[j]
              \/ a[i] = a[j] /\ b[i] < b[j]
              \/ a[i] = a[j] /\ b[i] = b[j] /\ c[i] < c[j]
    BY <1>5
  <2>2. a[i] = a[j] <=> s[i].kind = s[j].kind
    BY <1>4
  <2>3. a[i] = Priority(s[i].kind) /\ a[j] = Priority(s[j].kind)
        /\ b[i] = s[i].time /\ b[j] = s[j].time /\ c[i] = s[i].id /\ c[j] = s[j].id
    OBVIOUS
  <2> HIDE DEF B, a, b, c
  <2> QED
    BY <2>1, <2>2, <2>3
<1>7. Ranks(s, B, earlier)
  <2> HIDE DEF B
  <2>1. ASSUME NEW i \in DOMAIN s
        PROVE {j \in DOMAIN s : <<j, i>> \in B \/ (<<i, j>> \notin B /\ j < i)} =
           {j \in DOMAIN s :
             \/ \/ Priority(s[j].kind) < Priority(s[i].kind)
                \/ /\ s[j].kind = s[i].kind
                   /\ \/ s[j].time < s[i].time
                      \/ s[j].time = s[i].time /\ s[j].id < s[i].id
             \/ /\ ~(\/ Priority(s[i].kind) < Priority(s[j].kind)
                     \/ /\ s[i].kind = s[j].kind
                        /\ \/ s[i].time < s[j].time
                           \/ s[i].time = s[j].time /\ s[i].id < s[j].id)
                /\ j < i}
    BY <1>2, <1>6
  <2> QED
    BY <2>1 DEF Ranks
<1> HIDE DEF B, earlier
<1>8. IsComparison(B, Len(s)) /\ Len(s) \in Nat /\ DOMAIN s = 1..Len(s)
  BY <1>2, <1>5
<1>9. Rearranges(s, Picked(s, earlier))
  BY <1>7, <1>8, SortedRearranges
<1> QED
  BY <1>1, <1>9

(* So does taking the kinds in turn.                                         *)
LEMMA RoundRobinRearranged ==
  ASSUME NEW s \in Seq(Statement)
  PROVE  Rearranges(s, CategoryRoundRobin(s))
<1> DEFINE n == Len(s)
           Turn(i) == Cardinality({j \in 1..(i - 1) : s[j].kind = s[i].kind})
           a == [i \in 1..n |-> Turn(i)]
           b == [i \in 1..n |-> Priority(s[i].kind)]
           c == [i \in 1..n |-> 0]
           B == ByKeys(n, a, b, c)
           earlier == [i \in DOMAIN s |-> Cardinality({j \in DOMAIN s :
             \/ \/ Turn(j) < Turn(i)
                \/ Turn(j) = Turn(i) /\ Priority(s[j].kind) < Priority(s[i].kind)
             \/ /\ ~(\/ Turn(i) < Turn(j)
                     \/ Turn(i) = Turn(j) /\ Priority(s[i].kind) < Priority(s[j].kind))
                /\ j < i})]
<1>1. CategoryRoundRobin(s) = Picked(s, earlier)
  BY DEF CategoryRoundRobin, Sorted, Picked
<1>2. n \in Nat /\ DOMAIN s = 1..n
  BY StatementsOf
<1>3. \A i \in 1..n : a[i] \in Int /\ b[i] \in Int /\ c[i] \in Int
  <2> SUFFICES ASSUME NEW i \in 1..n PROVE Turn(i) \in Nat
    BY StatementsOf
  <2>1. IsFiniteSet(1..(i - 1))
    BY FS_Interval
  <2>2. IsFiniteSet({j \in 1..(i - 1) : s[j].kind = s[i].kind})
    BY <2>1, FS_Subset
  <2> QED
    BY <2>2, FS_CardinalityType
<1>5. /\ IsComparison(B, n)
      /\ \A i, j \in 1..n : <<i, j>> \in B <=>
              \/ a[i] < a[j]
              \/ a[i] = a[j] /\ b[i] < b[j]
              \/ a[i] = a[j] /\ b[i] = b[j] /\ c[i] < c[j]
  <2> HIDE DEF a, b, c, n
  <2> QED
    BY <1>2, <1>3, KeysCompare
<1>6. ASSUME NEW i \in 1..n, NEW j \in 1..n
      PROVE  <<i, j>> \in B <=>
        \/ Turn(i) < Turn(j)
        \/ Turn(i) = Turn(j) /\ Priority(s[i].kind) < Priority(s[j].kind)
  <2>1. <<i, j>> \in B <=>
              \/ a[i] < a[j]
              \/ a[i] = a[j] /\ b[i] < b[j]
              \/ a[i] = a[j] /\ b[i] = b[j] /\ c[i] < c[j]
    BY <1>5
  <2>2. ~(c[i] < c[j])
    OBVIOUS
  <2>3. a[i] = Turn(i) /\ a[j] = Turn(j)
        /\ b[i] = Priority(s[i].kind) /\ b[j] = Priority(s[j].kind)
    OBVIOUS
  <2> HIDE DEF B, a, b, c, Turn
  <2> QED
    BY <2>1, <2>2, <2>3
<1>7. Ranks(s, B, earlier)
  <2> HIDE DEF B, Turn
  <2>1. ASSUME NEW i \in DOMAIN s
        PROVE {j \in DOMAIN s : <<j, i>> \in B \/ (<<i, j>> \notin B /\ j < i)} =
           {j \in DOMAIN s :
             \/ \/ Turn(j) < Turn(i)
                \/ Turn(j) = Turn(i) /\ Priority(s[j].kind) < Priority(s[i].kind)
             \/ /\ ~(\/ Turn(i) < Turn(j)
                     \/ Turn(i) = Turn(j) /\ Priority(s[i].kind) < Priority(s[j].kind))
                /\ j < i}
    BY <1>2, <1>6
  <2> QED
    BY <2>1 DEF Ranks
<1> HIDE DEF B, earlier
<1>8. IsComparison(B, Len(s)) /\ Len(s) \in Nat /\ DOMAIN s = 1..Len(s)
  BY <1>2, <1>5
<1>9. Rearranges(s, Picked(s, earlier))
  BY <1>7, <1>8, SortedRearranges
<1> QED
  BY <1>1, <1>9

----------------------------------------------------------------------------
\* Loops

(* What the states of a loop need of a sequence.                             *)
LEMMA CanLoop ==
  ASSUME NEW S, NEW s \in Seq(S)
  PROVE  Summing!PicksLargest(s) /\ Summing!IsSequence(s)
<1>1. Len(s) \in Nat /\ DOMAIN s = 1..Len(s)
  OBVIOUS
<1> QED
  BY <1>1, Summing!LargestIn DEF Max, Summing!PicksLargest, Summing!IsSequence

(* The loop that adds the sizes, turn by turn.                               *)
LEMMA SummingLoop ==
  ASSUME NEW S, NEW s \in Seq(S)
  PROVE  \E after : Summing!Loop(after, 0, s) /\ Total(s) = after[Len(s)]
<1> DEFINE iter == CHOOSE g : Summing!Iterates(g, 0, s)
<1>1. Total(s) = iter[DOMAIN s]
  BY DEF Total, FoldLeft, MapThenFoldSet, Summing!Iterates
<1>2. Summing!PicksLargest(s) /\ Summing!IsSequence(s)
  BY CanLoop
<1>3. /\ \E g : Summing!Iterates(g, 0, s)
      /\ \A g : Summing!Iterates(g, 0, s) =>
           \E after : Summing!Loop(after, 0, s) /\ g[DOMAIN s] = after[Len(s)]
  BY <1>2, Summing!LoopStates
<1>4. Summing!Iterates(iter, 0, s)
  BY <1>3
<1> HIDE DEF iter
<1> QED
  BY <1>1, <1>3, <1>4

(* The loop that fills a capsule.                                            *)
LEMMA FillingLoop ==
  ASSUME NEW S, NEW s \in Seq(S), NEW p
  PROVE  \E after : Filling!Loop(after, p, s) /\ FoldLeft(Consider, p, s) = after[Len(s)]
<1> DEFINE iter == CHOOSE g : Filling!Iterates(g, p, s)
<1>1. FoldLeft(Consider, p, s) = iter[DOMAIN s]
  BY DEF FoldLeft, MapThenFoldSet, Filling!Iterates
<1>2. Filling!PicksLargest(s) /\ Filling!IsSequence(s)
  BY CanLoop DEF Filling!PicksLargest, Filling!IsSequence, Summing!PicksLargest, Summing!IsSequence
<1>3. /\ \E g : Filling!Iterates(g, p, s)
      /\ \A g : Filling!Iterates(g, p, s) =>
           \E after : Filling!Loop(after, p, s) /\ g[DOMAIN s] = after[Len(s)]
  BY <1>2, Filling!LoopStates
<1>4. Filling!Iterates(iter, p, s)
  BY <1>3
<1> HIDE DEF iter
<1> QED
  BY <1>1, <1>3, <1>4

(* The loop that writes the lines of a recovery text.                        *)
LEMMA WritingLoop ==
  ASSUME NEW S, NEW s \in Seq(S), NEW p
  PROVE  \E after : Writing!Loop(after, p, s) /\ FoldLeft(AddLine, p, s) = after[Len(s)]
<1> DEFINE iter == CHOOSE g : Writing!Iterates(g, p, s)
<1>1. FoldLeft(AddLine, p, s) = iter[DOMAIN s]
  BY DEF FoldLeft, MapThenFoldSet, Writing!Iterates
<1>2. Writing!PicksLargest(s) /\ Writing!IsSequence(s)
  BY CanLoop DEF Writing!PicksLargest, Writing!IsSequence, Summing!PicksLargest, Summing!IsSequence
<1>3. /\ \E g : Writing!Iterates(g, p, s)
      /\ \A g : Writing!Iterates(g, p, s) =>
           \E after : Writing!Loop(after, p, s) /\ g[DOMAIN s] = after[Len(s)]
  BY <1>2, Writing!LoopStates
<1>4. Writing!Iterates(iter, p, s)
  BY <1>3
<1> HIDE DEF iter
<1> QED
  BY <1>1, <1>3, <1>4

(* The loop that writes the lines of a text for a subagent.                  *)
LEMMA DelegatingLoop ==
  ASSUME NEW S, NEW s \in Seq(S), NEW p
  PROVE  \E after : Delegating!Loop(after, p, s) /\ FoldLeft(AddShortLine, p, s) = after[Len(s)]
<1> DEFINE iter == CHOOSE g : Delegating!Iterates(g, p, s)
<1>1. FoldLeft(AddShortLine, p, s) = iter[DOMAIN s]
  BY DEF FoldLeft, MapThenFoldSet, Delegating!Iterates
<1>2. Delegating!PicksLargest(s) /\ Delegating!IsSequence(s)
  BY CanLoop DEF Delegating!PicksLargest, Delegating!IsSequence, Summing!PicksLargest, Summing!IsSequence
<1>3. /\ \E g : Delegating!Iterates(g, p, s)
      /\ \A g : Delegating!Iterates(g, p, s) =>
           \E after : Delegating!Loop(after, p, s) /\ g[DOMAIN s] = after[Len(s)]
  BY <1>2, Delegating!LoopStates
<1>4. Delegating!Iterates(iter, p, s)
  BY <1>3
<1> HIDE DEF iter
<1> QED
  BY <1>1, <1>3, <1>4

(* The loop that drops the newlines of the last message.                     *)
LEMMA KeepingLoop ==
  ASSUME NEW S, NEW s \in Seq(S), NEW p
  PROVE  \E after : Keeping!Loop(after, p, s) /\ FoldLeft(KeepText, p, s) = after[Len(s)]
<1> DEFINE iter == CHOOSE g : Keeping!Iterates(g, p, s)
<1>1. FoldLeft(KeepText, p, s) = iter[DOMAIN s]
  BY DEF FoldLeft, MapThenFoldSet, Keeping!Iterates
<1>2. Keeping!PicksLargest(s) /\ Keeping!IsSequence(s)
  BY CanLoop DEF Keeping!PicksLargest, Keeping!IsSequence, Summing!PicksLargest, Summing!IsSequence
<1>3. /\ \E g : Keeping!Iterates(g, p, s)
      /\ \A g : Keeping!Iterates(g, p, s) =>
           \E after : Keeping!Loop(after, p, s) /\ g[DOMAIN s] = after[Len(s)]
  BY <1>2, Keeping!LoopStates
<1>4. Keeping!Iterates(iter, p, s)
  BY <1>3
<1> HIDE DEF iter
<1> QED
  BY <1>1, <1>3, <1>4

(* The sum of sizes.                                                         *)
LEMMA TotalOfNone == Total(<<>>) = 0
<1>1. <<>> \in Seq(Statement) /\ Len(<<>>) = 0
  OBVIOUS
<1>2. PICK after : Summing!Loop(after, 0, <<>>) /\ Total(<<>>) = after[Len(<<>>)]
  BY <1>1, SummingLoop
<1> QED
  BY <1>1, <1>2 DEF Summing!Loop

(* One more item adds its size to the total.                                 *)
LEMMA TotalOfMore ==
  ASSUME NEW s \in Seq(Statement), NEW x \in Statement
  PROVE  /\ Total(s) \in Nat
         /\ Total(Append(s, x)) = Total(s) + x.size
         /\ Total(Append(s, x)) \in Nat
<1> DEFINE t == Append(s, x)
<1>1. /\ t \in Seq(Statement) /\ Len(t) = Len(s) + 1 /\ Len(s) \in Nat
      /\ \A n \in 1..Len(s) : t[n] = s[n]
      /\ t[Len(s) + 1] = x
  OBVIOUS
<1> HIDE DEF t
<1>2. PICK a : Summing!Loop(a, 0, s) /\ Total(s) = a[Len(s)]
  BY SummingLoop
<1>3. PICK b : Summing!Loop(b, 0, t) /\ Total(t) = b[Len(t)]
  BY <1>1, SummingLoop
<1> DEFINE S == {n \in Nat : n <= Len(s) => a[n] = b[n] /\ a[n] \in Nat}
<1>4. Nat \subseteq S
  <2>1. 0 \in S
    BY <1>2, <1>3 DEF Summing!Loop
  <2>2. ASSUME NEW n \in Nat, n \in S PROVE n + 1 \in S
    <3> SUFFICES ASSUME n + 1 <= Len(s) PROVE a[n + 1] = b[n + 1] /\ a[n + 1] \in Nat
      OBVIOUS
    <3>1. a[n] = b[n] /\ a[n] \in Nat
      BY <1>1, <2>2
    <3>2. n + 1 \in 1..Len(s) /\ n + 1 \in 1..Len(t) /\ (n + 1) - 1 = n
      BY <1>1
    <3>3. a[n + 1] = a[n] + s[n + 1].size
      BY <1>2, <3>2 DEF Summing!Loop, AddSize
    <3>4. b[n + 1] = b[n] + s[n + 1].size
      BY <1>1, <1>3, <3>2 DEF Summing!Loop, AddSize
    <3>5. s[n + 1].size \in Nat
      BY <3>2, StatementsOf
    <3> QED
      BY <3>1, <3>3, <3>4, <3>5
  <2> HIDE DEF S
  <2> QED
    BY <2>1, <2>2, Summing!Induction
<1>5. a[Len(s)] = b[Len(s)] /\ a[Len(s)] \in Nat
  BY <1>1, <1>4
<1>6. Len(t) \in 1..Len(t) /\ Len(t) - 1 = Len(s)
  BY <1>1
<1>7. b[Len(t)] = b[Len(s)] + x.size
  BY <1>1, <1>3, <1>6 DEF Summing!Loop, AddSize
<1>8. x.size \in Nat
  BY DEF Statement
<1> QED
  BY <1>2, <1>3, <1>5, <1>7, <1>8 DEF t

----------------------------------------------------------------------------
\* Capsules

(* Where exportCapsule stands behind its n-th item: it has taken items of    *)
(* those kinds, within the budget, and counted the others, none of which     *)
(* would still fit.                                                          *)
Taken(acc, s, n, kinds) ==
  /\ acc = [kinds |-> kinds, items |-> acc.items, omitted |-> acc.omitted]
  /\ acc.items \in Seq(Statement)
  /\ ToSet(acc.items) \subseteq {s[k] : k \in 1..n}

Counted(acc, s, n) ==
  LET left == {s[k] : k \in 1..n} \ ToSet(acc.items) IN
  /\ Total(acc.items) <= CapsuleBudget
  /\ IsFiniteSet(left) /\ acc.omitted = Cardinality(left)
  /\ \A item \in left : Total(acc.items) + item.size > CapsuleBudget

(* What Append does to the set of elements.                                  *)
LEMMA AppendedSet ==
  ASSUME NEW S, NEW s \in Seq(S), NEW x \in S
  PROVE  Append(s, x) \in Seq(S) /\ ToSet(Append(s, x)) = ToSet(s) \cup {x}
<1> DEFINE t == Append(s, x)
<1>1. /\ t \in Seq(S) /\ Len(t) = Len(s) + 1 /\ Len(s) \in Nat
      /\ DOMAIN t = 1..(Len(s) + 1) /\ DOMAIN s = 1..Len(s)
      /\ \A n \in 1..Len(s) : t[n] = s[n]
      /\ t[Len(s) + 1] = x
  OBVIOUS
<1> HIDE DEF t
<1>2. \A n \in 1..(Len(s) + 1) : n \in 1..Len(s) \/ n = Len(s) + 1
  BY <1>1
<1>3. \A n \in 1..Len(s) : n \in 1..(Len(s) + 1)
  BY <1>1
<1>4. Len(s) + 1 \in 1..(Len(s) + 1)
  BY <1>1
<1>5. ToSet(t) = ToSet(s) \cup {x}
  BY <1>1, <1>2, <1>3, <1>4 DEF ToSet
<1> QED
  BY <1>1, <1>5 DEF t

(* A turn of the loop takes the next item or none, of those seen so far.     *)
LEMMA TakenNext ==
  ASSUME NEW s \in Seq(Statement), NEW n \in Nat, n + 1 \in 1..Len(s), NEW kinds, NEW acc,
         Taken(acc, s, n, kinds)
  PROVE  Taken(Consider(acc, s[n + 1]), s, n + 1, kinds)
<1> DEFINE x == s[n + 1]
<1>1. x \in Statement /\ x \in {s[k] : k \in 1..(n + 1)}
  OBVIOUS
<1>2. {s[k] : k \in 1..n} \subseteq {s[k] : k \in 1..(n + 1)}
  OBVIOUS
<1>3. Append(acc.items, x) \in Seq(Statement) /\ ToSet(Append(acc.items, x)) = ToSet(acc.items) \cup {x}
  BY <1>1, AppendedSet DEF Taken
<1> HIDE DEF x
<1>4. CASE x.kind \notin acc.kinds
  <2>1. Consider(acc, x) = acc
    BY <1>4 DEF Consider
  <2> QED
    BY <1>2, <2>1 DEF Taken, x
<1>5. CASE x.kind \in acc.kinds /\ Takes(acc, x)
  <2> DEFINE longer == Append(acc.items, x)
  <2>1. Consider(acc, x) = [acc EXCEPT !.items = longer]
    BY <1>5 DEF Consider
  <2> HIDE DEF longer
  <2>2. Consider(acc, x) = [kinds |-> kinds, items |-> longer, omitted |-> acc.omitted]
    BY <2>1 DEF Taken
  <2> QED
    BY <1>1, <1>2, <1>3, <2>2 DEF Taken, x, longer
<1>6. CASE x.kind \in acc.kinds /\ ~Takes(acc, x)
  <2>1. Consider(acc, x) = [kinds |-> kinds, items |-> acc.items, omitted |-> acc.omitted + 1]
    BY <1>6 DEF Consider, Taken
  <2> QED
    BY <1>2, <2>1 DEF Taken, x
<1> QED
  BY <1>4, <1>5, <1>6

(* A turn of the loop keeps the budget and the count; an item left out       *)
(* before still does not fit.                                                *)
LEMMA CountedNext ==
  ASSUME NEW s \in Seq(Statement), Distinct(s), NEW n \in Nat, n + 1 \in 1..Len(s), NEW acc,
         Taken(acc, s, n, AllKinds), Counted(acc, s, n)
  PROVE  Counted(Consider(acc, s[n + 1]), s, n + 1)
<1> DEFINE x == s[n + 1]
           seen == {s[k] : k \in 1..n}
           left == seen \ ToSet(acc.items)
           T == Total(acc.items)
<1>1. x \in Statement /\ x.kind \in AllKinds /\ x.size \in Nat
  BY StatementsOf
<1>2. {s[k] : k \in 1..(n + 1)} = seen \cup {x}
  <2>1. \A k \in 1..(n + 1) : k \in 1..n \/ k = n + 1
    OBVIOUS
  <2>2. n + 1 \in 1..(n + 1) /\ \A k \in 1..n : k \in 1..(n + 1)
    OBVIOUS
  <2> QED
    BY <2>1, <2>2
<1>3. x \notin seen
  <2> SUFFICES ASSUME NEW k \in 1..n, s[k] = x PROVE FALSE
    OBVIOUS
  <2>1. k \in DOMAIN s /\ n + 1 \in DOMAIN s /\ s[k].id = s[n + 1].id
    OBVIOUS
  <2> QED
    BY <2>1 DEF Distinct
<1>4. acc.items \in Seq(Statement) /\ ToSet(acc.items) \subseteq seen /\ acc.kinds = AllKinds
  BY DEF Taken
<1>5. /\ T \in Nat /\ Total(Append(acc.items, x)) = T + x.size
      /\ ToSet(Append(acc.items, x)) = ToSet(acc.items) \cup {x}
  BY <1>1, <1>4, TotalOfMore, AppendedSet
<1>6. /\ T <= CapsuleBudget /\ IsFiniteSet(left) /\ acc.omitted = Cardinality(left)
      /\ \A item \in left : T + item.size > CapsuleBudget
  BY DEF Counted
<1>7. \A item \in left : item.size \in Nat
  <2>1. \A k \in 1..n : s[k].size \in Nat
    BY StatementsOf
  <2> QED
    BY <2>1
<1>8. CapsuleBudget \in Nat
  BY SizeAssumption
<1> HIDE DEF x, seen, left, T
<1>9. CASE Takes(acc, x)
  <2>1. LET c == Consider(acc, x) IN c.items = Append(acc.items, x) /\ c.omitted = acc.omitted
    BY <1>1, <1>4, <1>9 DEF Consider, Taken
  <2>2. T + x.size <= CapsuleBudget
    BY <1>9 DEF Takes, T
  <2>3. (seen \cup {x}) \ ToSet(Append(acc.items, x)) = left
    BY <1>3, <1>5 DEF left
  <2>4. \A item \in left : (T + x.size) + item.size > CapsuleBudget
    BY <1>1, <1>5, <1>6, <1>7, <1>8
  <2> QED
    BY <1>2, <1>5, <1>6, <2>1, <2>2, <2>3, <2>4 DEF Counted, x, seen, T
<1>10. CASE ~Takes(acc, x)
  <2>1. LET c == Consider(acc, x) IN c.items = acc.items /\ c.omitted = acc.omitted + 1
    BY <1>1, <1>4, <1>10 DEF Consider, Taken
  <2>2. T + x.size > CapsuleBudget
    BY <1>1, <1>5, <1>8, <1>10 DEF Takes, T
  <2>3. (seen \cup {x}) \ ToSet(acc.items) = left \cup {x} /\ x \notin left
    BY <1>3, <1>4 DEF left
  <2>4. IsFiniteSet(left \cup {x}) /\ Cardinality(left \cup {x}) = Cardinality(left) + 1
    BY <1>6, <2>3, FS_AddElement
  <2>5. \A item \in left \cup {x} : T + item.size > CapsuleBudget
    BY <1>6, <2>2
  <2> QED
    BY <1>2, <1>6, <2>1, <2>3, <2>4, <2>5 DEF Counted, x, seen, T
<1> QED
  BY <1>9, <1>10 DEF x

(* A capsule of a task: items of the task, of the kinds asked for ...        *)
LEMMA CapsuleItems ==
  ASSUME NEW items \in Seq(Statement), NEW kinds
  PROVE  Capsule(items, kinds).items \in Seq(Statement)
<1> DEFINE s == CapsuleOrder(items)
           p == [kinds |-> kinds, items |-> <<>>, omitted |-> 0]
<1>1. s \in Seq(Statement)
  BY CapsuleOrderRearranged, RearrangedElements
<1>2. Taken(p, s, 0, kinds)
  BY DEF Taken, ToSet
<1> HIDE DEF s
<1>3. PICK after : Filling!Loop(after, p, s) /\ FoldLeft(Consider, p, s) = after[Len(s)]
  BY <1>1, FillingLoop
<1>4. after[0] = p /\ \A n \in 1..Len(s) : after[n] = Consider(after[n - 1], s[n])
  BY <1>3 DEF Filling!Loop
<1> HIDE DEF p
<1> DEFINE S == {n \in Nat : n <= Len(s) => Taken(after[n], s, n, kinds)}
<1>5. Nat \subseteq S
  <2>1. 0 \in S
    BY <1>2, <1>4
  <2>2. ASSUME NEW n \in Nat, n \in S PROVE n + 1 \in S
    <3> SUFFICES ASSUME n + 1 <= Len(s) PROVE Taken(after[n + 1], s, n + 1, kinds)
      OBVIOUS
    <3>1. Len(s) \in Nat
      BY <1>1
    <3>2. Taken(after[n], s, n, kinds) /\ n + 1 \in 1..Len(s) /\ (n + 1) - 1 = n
      BY <2>2, <3>1
    <3>3. after[n + 1] = Consider(after[n], s[n + 1])
      BY <1>4, <3>2
    <3> QED
      BY <1>1, <3>2, <3>3, TakenNext
  <2> HIDE DEF S
  <2> QED
    BY <2>1, <2>2, Summing!Induction
<1>6. Len(s) \in Nat
  BY <1>1
<1>7. Taken(after[Len(s)], s, Len(s), kinds)
  BY <1>5, <1>6
<1> QED
  BY <1>3, <1>7 DEF Capsule, Taken, s, p

(* ... and, when all kinds are, the best that fits, and a count of the rest. *)
LEMMA CapsuleCounts ==
  ASSUME NEW items \in Seq(Statement), Distinct(items)
  PROVE  LET capsule == Capsule(items, AllKinds)
             left == ToSet(items) \ ToSet(capsule.items)
         IN  /\ Total(capsule.items) <= CapsuleBudget
             /\ capsule.omitted = Cardinality(left)
             /\ \A item \in left : Total(capsule.items) + item.size > CapsuleBudget
<1> DEFINE s == CapsuleOrder(items)
           p == [kinds |-> AllKinds, items |-> <<>>, omitted |-> 0]
<1>1. s \in Seq(Statement) /\ Distinct(s) /\ ToSet(s) = ToSet(items)
  BY CapsuleOrderRearranged, RearrangedElements
<1>2. Taken(p, s, 0, AllKinds) /\ Counted(p, s, 0)
  <2>1. {s[k] : k \in 1..0} = {} /\ p.items = <<>> /\ p.omitted = 0
    OBVIOUS
  <2>2. CapsuleBudget \in Nat
    BY SizeAssumption
  <2>3. Counted(p, s, 0)
    BY <2>1, <2>2, TotalOfNone, FS_EmptySet DEF Counted
  <2> QED
    BY <2>3 DEF Taken, ToSet
<1> HIDE DEF s
<1>3. PICK after : Filling!Loop(after, p, s) /\ FoldLeft(Consider, p, s) = after[Len(s)]
  BY <1>1, FillingLoop
<1>4. after[0] = p /\ \A n \in 1..Len(s) : after[n] = Consider(after[n - 1], s[n])
  BY <1>3 DEF Filling!Loop
<1> HIDE DEF p
<1> DEFINE S == {n \in Nat :
                   n <= Len(s) => Taken(after[n], s, n, AllKinds) /\ Counted(after[n], s, n)}
<1>5. Nat \subseteq S
  <2>1. 0 \in S
    BY <1>2, <1>4
  <2>2. ASSUME NEW n \in Nat, n \in S PROVE n + 1 \in S
    <3> SUFFICES ASSUME n + 1 <= Len(s)
                 PROVE  Taken(after[n + 1], s, n + 1, AllKinds) /\ Counted(after[n + 1], s, n + 1)
      OBVIOUS
    <3>1. Len(s) \in Nat
      BY <1>1
    <3>2. /\ Taken(after[n], s, n, AllKinds) /\ Counted(after[n], s, n)
          /\ n + 1 \in 1..Len(s) /\ (n + 1) - 1 = n
      BY <2>2, <3>1
    <3>3. after[n + 1] = Consider(after[n], s[n + 1])
      BY <1>4, <3>2
    <3> QED
      BY <1>1, <3>2, <3>3, TakenNext, CountedNext
  <2> HIDE DEF S
  <2> QED
    BY <2>1, <2>2, Summing!Induction
<1>6. Len(s) \in Nat /\ {s[k] : k \in 1..Len(s)} = ToSet(items)
  <2>1. Len(s) \in Nat /\ DOMAIN s = 1..Len(s)
    BY <1>1
  <2>2. ToSet(s) = {s[k] : k \in 1..Len(s)}
    BY <2>1 DEF ToSet
  <2> QED
    BY <1>1, <2>1, <2>2
<1>7. Counted(after[Len(s)], s, Len(s))
  BY <1>5, <1>6
<1>8. Capsule(items, AllKinds) = after[Len(s)]
  BY <1>3 DEF Capsule, s, p
<1> QED
  BY <1>6, <1>7, <1>8 DEF Counted

(* Where exportCapsule stands behind its n-th item when only some kinds are  *)
(* asked for: it has taken items of those kinds, each once, and counted the  *)
(* others of those kinds.                                                    *)
OfKinds(s, n, kinds) == {x \in {s[k] : k \in 1..n} : x.kind \in kinds}

Fills(acc, s, n, kinds) ==
  LET left == OfKinds(s, n, kinds) \ ToSet(acc.items) IN
  /\ ToSet(acc.items) \subseteq OfKinds(s, n, kinds)
  /\ Distinct(acc.items)
  /\ IsFiniteSet(left) /\ acc.omitted = Cardinality(left)

(* An item with an identifier of its own keeps the identifiers distinct.     *)
LEMMA AppendedDistinct ==
  ASSUME NEW s \in Seq(Statement), Distinct(s), NEW x \in Statement,
         \A y \in ToSet(s) : y.id # x.id
  PROVE  Distinct(Append(s, x))
<1> DEFINE t == Append(s, x)
<1>1. /\ DOMAIN t = 1..(Len(s) + 1) /\ DOMAIN s = 1..Len(s) /\ Len(s) \in Nat
      /\ \A n \in 1..Len(s) : t[n] = s[n]
      /\ t[Len(s) + 1] = x
  OBVIOUS
<1> HIDE DEF t
<1> SUFFICES ASSUME NEW i \in DOMAIN t, NEW j \in DOMAIN t, t[i].id = t[j].id
             PROVE  i = j
  BY DEF Distinct, t
<1>2. \A n \in 1..(Len(s) + 1) : n \in 1..Len(s) \/ n = Len(s) + 1
  BY <1>1
<1>3. \A n \in 1..Len(s) : t[n].id # x.id
  BY <1>1 DEF ToSet
<1>4. CASE i \in 1..Len(s) /\ j \in 1..Len(s)
  BY <1>1, <1>4 DEF Distinct
<1>5. CASE i = Len(s) + 1 \/ j = Len(s) + 1
  BY <1>1, <1>2, <1>3, <1>5
<1> QED
  BY <1>1, <1>2, <1>4, <1>5

(* A turn of the loop takes an item it has not seen before, or counts it, or *)
(* passes over one of another kind.                                          *)
LEMMA FillsNext ==
  ASSUME NEW s \in Seq(Statement), Distinct(s), NEW n \in Nat, n + 1 \in 1..Len(s), NEW kinds,
         NEW acc, Taken(acc, s, n, kinds), Fills(acc, s, n, kinds)
  PROVE  Fills(Consider(acc, s[n + 1]), s, n + 1, kinds)
<1> DEFINE x == s[n + 1]
           seen == OfKinds(s, n, kinds)
           left == seen \ ToSet(acc.items)
<1>1. x \in Statement
  OBVIOUS
<1>2. OfKinds(s, n + 1, kinds) = seen \cup (IF x.kind \in kinds THEN {x} ELSE {})
  <2>1. {s[k] : k \in 1..(n + 1)} = {s[k] : k \in 1..n} \cup {x}
    <3>1. \A k \in 1..(n + 1) : k \in 1..n \/ k = n + 1
      OBVIOUS
    <3>2. n + 1 \in 1..(n + 1) /\ \A k \in 1..n : k \in 1..(n + 1)
      OBVIOUS
    <3> QED
      BY <3>1, <3>2
  <2> HIDE DEF x
  <2> QED
    BY <2>1 DEF OfKinds
<1>3. \A y \in seen : y.id # x.id
  <2> SUFFICES ASSUME NEW k \in 1..n, s[k].id = x.id PROVE FALSE
    BY DEF OfKinds
  <2>1. k \in DOMAIN s /\ n + 1 \in DOMAIN s /\ s[k].id = s[n + 1].id
    OBVIOUS
  <2> QED
    BY <2>1 DEF Distinct
<1>4. acc.items \in Seq(Statement) /\ acc.kinds = kinds
  BY DEF Taken
<1>5. /\ ToSet(acc.items) \subseteq seen /\ Distinct(acc.items)
      /\ IsFiniteSet(left) /\ acc.omitted = Cardinality(left)
  BY DEF Fills
<1> HIDE DEF x, seen, left
<1>6. x \notin seen
  BY <1>3
<1>7. CASE x.kind \notin kinds
  <2>1. Consider(acc, x) = acc
    BY <1>4, <1>7 DEF Consider
  <2>2. OfKinds(s, n + 1, kinds) = seen
    BY <1>2, <1>7
  <2> QED
    BY <1>5, <2>1, <2>2 DEF Fills, x, left
<1>8. CASE x.kind \in kinds /\ Takes(acc, x)
  <2> DEFINE longer == Append(acc.items, x)
  <2>1. LET c == Consider(acc, x) IN c.items = longer /\ c.omitted = acc.omitted
    BY <1>4, <1>8 DEF Consider, Taken
  <2>2. ToSet(longer) = ToSet(acc.items) \cup {x}
    BY <1>1, <1>4, AppendedSet
  <2>3. Distinct(longer)
    BY <1>1, <1>3, <1>4, <1>5, AppendedDistinct
  <2> HIDE DEF longer
  <2>4. OfKinds(s, n + 1, kinds) = seen \cup {x}
    BY <1>2, <1>8
  <2>5. (seen \cup {x}) \ ToSet(longer) = left /\ ToSet(longer) \subseteq seen \cup {x}
    BY <1>5, <1>6, <2>2 DEF left
  <2> QED
    BY <1>5, <2>1, <2>3, <2>4, <2>5 DEF Fills, x
<1>9. CASE x.kind \in kinds /\ ~Takes(acc, x)
  <2>1. LET c == Consider(acc, x) IN c.items = acc.items /\ c.omitted = acc.omitted + 1
    BY <1>4, <1>9 DEF Consider, Taken
  <2>2. OfKinds(s, n + 1, kinds) = seen \cup {x}
    BY <1>2, <1>9
  <2>3. (seen \cup {x}) \ ToSet(acc.items) = left \cup {x} /\ x \notin left
    BY <1>5, <1>6 DEF left
  <2>4. IsFiniteSet(left \cup {x}) /\ Cardinality(left \cup {x}) = Cardinality(left) + 1
    BY <1>5, <2>3, FS_AddElement
  <2> QED
    BY <1>5, <2>1, <2>2, <2>3, <2>4 DEF Fills, x
<1> QED
  BY <1>7, <1>8, <1>9 DEF x

(* A capsule of some kinds: items of those kinds, each once, and a count of  *)
(* the others of those kinds.                                                *)
HoldsOf(capsule, items, kinds) ==
  LET asked == {item \in ToSet(items) : item.kind \in kinds} IN
  /\ ToSet(capsule.items) \subseteq asked
  /\ Distinct(capsule.items)
  /\ capsule.omitted = Cardinality(asked \ ToSet(capsule.items))

(* exportCapsule makes such a capsule, whichever kinds are asked for.        *)
LEMMA CapsuleOfKinds ==
  ASSUME NEW items \in Seq(Statement), Distinct(items), NEW kinds
  PROVE  HoldsOf(Capsule(items, kinds), items, kinds)
<1> DEFINE s == CapsuleOrder(items)
           p == [kinds |-> kinds, items |-> <<>>, omitted |-> 0]
<1>1. s \in Seq(Statement) /\ Distinct(s) /\ ToSet(s) = ToSet(items)
  BY CapsuleOrderRearranged, RearrangedElements
<1>2. Taken(p, s, 0, kinds) /\ Fills(p, s, 0, kinds)
  <2>1. OfKinds(s, 0, kinds) = {}
    BY DEF OfKinds
  <2>2. p.items = <<>> /\ p.omitted = 0 /\ ToSet(<<>>) = {}
    BY DEF ToSet
  <2>3. Distinct(<<>>)
    BY DEF Distinct
  <2>4. Fills(p, s, 0, kinds)
    <3> HIDE DEF p, s
    <3> QED
      BY <2>1, <2>2, <2>3, FS_EmptySet DEF Fills
  <2> QED
    BY <2>4 DEF Taken, ToSet
<1> HIDE DEF s
<1>3. PICK after : Filling!Loop(after, p, s) /\ FoldLeft(Consider, p, s) = after[Len(s)]
  BY <1>1, FillingLoop
<1>4. after[0] = p /\ \A n \in 1..Len(s) : after[n] = Consider(after[n - 1], s[n])
  BY <1>3 DEF Filling!Loop
<1> HIDE DEF p
<1> DEFINE S == {n \in Nat :
                   n <= Len(s) => Taken(after[n], s, n, kinds) /\ Fills(after[n], s, n, kinds)}
<1>5. Nat \subseteq S
  <2>1. 0 \in S
    BY <1>2, <1>4
  <2>2. ASSUME NEW n \in Nat, n \in S PROVE n + 1 \in S
    <3> SUFFICES ASSUME n + 1 <= Len(s)
                 PROVE  Taken(after[n + 1], s, n + 1, kinds) /\ Fills(after[n + 1], s, n + 1, kinds)
      OBVIOUS
    <3>1. Len(s) \in Nat
      BY <1>1
    <3>2. /\ Taken(after[n], s, n, kinds) /\ Fills(after[n], s, n, kinds)
          /\ n + 1 \in 1..Len(s) /\ (n + 1) - 1 = n
      BY <2>2, <3>1
    <3>3. after[n + 1] = Consider(after[n], s[n + 1])
      BY <1>4, <3>2
    <3> QED
      BY <1>1, <3>2, <3>3, TakenNext, FillsNext
  <2> HIDE DEF S
  <2> QED
    BY <2>1, <2>2, Summing!Induction
<1>6. Len(s) \in Nat /\ OfKinds(s, Len(s), kinds) = {item \in ToSet(items) : item.kind \in kinds}
  <2>1. Len(s) \in Nat /\ DOMAIN s = 1..Len(s)
    BY <1>1
  <2>2. ToSet(s) = {s[k] : k \in 1..Len(s)}
    BY <2>1 DEF ToSet
  <2> QED
    BY <1>1, <2>1, <2>2 DEF OfKinds
<1>7. Fills(after[Len(s)], s, Len(s), kinds)
  BY <1>5, <1>6
<1>8. Capsule(items, kinds) = after[Len(s)]
  BY <1>3 DEF Capsule, s, p
<1> QED
  BY <1>6, <1>7, <1>8 DEF Fills, HoldsOf

----------------------------------------------------------------------------
\* Texts

(* Where a text stands behind its n-th item: each item is on a line or among *)
(* the omitted ones, and with the fixed lines there was room for the line    *)
(* about omissions and for the footer.                                       *)
IdsOf(items) == {item.id : item \in items}
HasRoom(class, budget) == FixedSize + OmissionSize + FooterSize[class] <= budget

HasFields(t, class, budget) ==
  t = [shown |-> t.shown, omitted |-> t.omitted, signals |-> t.signals, size |-> t.size,
       class |-> class, budget |-> budget]

IsText(t, class, budget) ==
  /\ HasFields(t, class, budget)
  /\ t.size \in Nat /\ t.shown \in Seq(Nat)

Listed(t, s, n) ==
  /\ t.omitted \subseteq {s[k] : k \in 1..n}
  /\ ToSet(t.shown) \cup IdsOf(t.omitted) = {s[k].id : k \in 1..n}
  /\ Distinct(s) => ToSet(t.shown) \cap IdsOf(t.omitted) = {}

Reserves(t) ==
  HasRoom(t.class, t.budget) => t.size + OmissionSize + FooterSize[t.class] <= t.budget

TextAt(t, s, n, class, budget) == IsText(t, class, budget) /\ Listed(t, s, n) /\ Reserves(t)

\* The two ways in which the next item enters the text.
ShowLine(t, id, size) == [t EXCEPT !.shown = Append(@, id), !.size = @ + size]
OmitLine(t, item) == [t EXCEPT !.omitted = @ \cup {item}]

SetLine(t, shown, size) == [t EXCEPT !.shown = shown, !.size = size]

(* A text with other lines and another size keeps its other fields.          *)
LEMMA SetShown ==
  ASSUME NEW t, NEW class, NEW budget, HasFields(t, class, budget), NEW shown, NEW size
  PROVE  SetLine(t, shown, size) =
           [shown |-> shown, omitted |-> t.omitted, signals |-> t.signals, size |-> size,
            class |-> class, budget |-> budget]
<1> DEFINE u == [t EXCEPT !.shown = shown]
<1>1. [t EXCEPT !.shown = shown, !.size = size] = [u EXCEPT !.size = size]
  OBVIOUS
<1>2. u = [shown |-> shown, omitted |-> t.omitted, signals |-> t.signals, size |-> t.size,
           class |-> class, budget |-> budget]
  BY DEF HasFields
<1> HIDE DEF u
<1>3. [u EXCEPT !.size = size] =
        [shown |-> shown, omitted |-> t.omitted, signals |-> t.signals, size |-> size,
         class |-> class, budget |-> budget]
  BY <1>2
<1> QED
  BY <1>1, <1>3 DEF SetLine

(* A text with other omissions keeps its other fields.                       *)
LEMMA SetOmitted ==
  ASSUME NEW t, NEW class, NEW budget, HasFields(t, class, budget), NEW omitted
  PROVE  [t EXCEPT !.omitted = omitted] =
           [shown |-> t.shown, omitted |-> omitted, signals |-> t.signals, size |-> t.size,
            class |-> class, budget |-> budget]
BY DEF HasFields

(* The fields of a text that no turn of the loop changes, and the types of   *)
(* the others.                                                               *)
LEMMA TextFields ==
  ASSUME NEW t, NEW class, NEW budget, IsText(t, class, budget)
  PROVE  t.class = class /\ t.budget = budget /\ t.size \in Nat /\ t.shown \in Seq(Nat)
BY DEF IsText, HasFields

(* The footer of every classification has a size.                            *)
LEMMA FooterIsSize == ASSUME NEW class \in DOMAIN FooterSize PROVE FooterSize[class] \in Nat
BY SizeAssumption

(* The sizes are natural numbers (SizeAssumption).                           *)
LEMMA SizesAreNatural ==
  /\ FixedSize \in Nat /\ OmissionSize \in Nat /\ SignalSize \in Nat /\ LineSize \in Nat
  /\ CompactSizes \in Seq(Nat)
BY SizeAssumption

(* The smaller of two natural numbers is one.                                *)
LEMMA SmallerOf ==
  ASSUME NEW a \in Nat, NEW b \in Nat
  PROVE  Min({a, b}) \in Nat
<1>1. {a, b} \in SUBSET Nat /\ {a, b} # {}
  OBVIOUS
<1>2. Min({a, b}) \in {a, b}
  BY <1>1, MinChosen
<1> QED
  BY <1>2

(* Another line: its identifier is shown, its size counted ...               *)
LEMMA LineShown ==
  ASSUME NEW s \in Seq(Statement), NEW n \in Nat, n + 1 \in 1..Len(s),
         NEW class \in DOMAIN FooterSize, NEW budget \in Nat, NEW t,
         TextAt(t, s, n, class, budget), NEW size \in Nat, Fits(t, size)
  PROVE  TextAt(ShowLine(t, s[n + 1].id, size), s, n + 1, class, budget)
<1> DEFINE x == s[n + 1]
           shown == Append(t.shown, x.id)
           more == t.size + size
           u == SetLine(t, shown, more)
<1> USE DEF TextAt
<1>1. x.id \in Nat
  BY StatementsOf
<1>2. shown \in Seq(Nat) /\ ToSet(shown) = ToSet(t.shown) \cup {x.id}
  BY <1>1, AppendedSet DEF IsText
<1> HIDE DEF shown, x, more
<1>3. /\ u = [shown |-> shown, omitted |-> t.omitted, signals |-> t.signals,
              size |-> more, class |-> class, budget |-> budget]
      /\ t.class = class /\ t.budget = budget /\ t.size \in Nat
  <2>1. IsText(t, class, budget)
    OBVIOUS
  <2> HIDE DEF TextAt
  <2>2. HasFields(t, class, budget)
    BY <2>1 DEF IsText
  <2>3. u = [shown |-> shown, omitted |-> t.omitted, signals |-> t.signals,
             size |-> more, class |-> class, budget |-> budget]
    BY <2>2, SetShown
  <2>4. t.class = class /\ t.budget = budget /\ t.size \in Nat
    BY <2>1, TextFields
  <2> QED
    BY <2>3, <2>4
<1> HIDE DEF u
<1>4. IsText(u, class, budget)
  BY <1>2, <1>3 DEF IsText, HasFields, more
<1>5. Reserves(u)
  <2>1. u.class = class /\ u.budget = budget /\ u.size = more
    BY <1>3
  <2>2. t.size + size + OmissionSize + FooterSize[class] <= budget
    BY <1>3 DEF Fits
  <2>3. more + OmissionSize + FooterSize[class] <= budget
    BY <1>3, <2>2, FooterIsSize, SizesAreNatural DEF more
  <2> QED
    BY <2>1, <2>3 DEF Reserves
<1>6. Listed(u, s, n + 1)
  <2>1. {s[k].id : k \in 1..(n + 1)} = {s[k].id : k \in 1..n} \cup {x.id}
    <3>1. \A k \in 1..(n + 1) : k \in 1..n \/ k = n + 1
      OBVIOUS
    <3>2. n + 1 \in 1..(n + 1) /\ \A k \in 1..n : k \in 1..(n + 1)
      OBVIOUS
    <3> QED
      BY <3>1, <3>2 DEF x
  <2>2. u.omitted = t.omitted /\ ToSet(u.shown) = ToSet(t.shown) \cup {x.id}
    BY <1>2, <1>3
  <2>3. {s[k] : k \in 1..n} \subseteq {s[k] : k \in 1..(n + 1)}
    OBVIOUS
  <2>4. Distinct(s) => x.id \notin IdsOf(t.omitted)
    <3> SUFFICES ASSUME Distinct(s), NEW item \in t.omitted, item.id = x.id PROVE FALSE
      BY DEF IdsOf
    <3>1. PICK k \in 1..n : item = s[k]
      BY DEF Listed
    <3>2. k \in DOMAIN s /\ n + 1 \in DOMAIN s /\ s[k].id = s[n + 1].id
      BY <3>1 DEF x
    <3> QED
      BY <3>2 DEF Distinct
  <2> QED
    BY <2>1, <2>2, <2>3, <2>4 DEF Listed
<1> QED
  BY <1>4, <1>5, <1>6 DEF x, shown, more, u, ShowLine, SetLine

(* ... or another item for the line about omissions.                         *)
LEMMA LineOmitted ==
  ASSUME NEW s \in Seq(Statement), NEW n \in Nat, n + 1 \in 1..Len(s),
         NEW class \in DOMAIN FooterSize, NEW budget \in Nat, NEW t,
         TextAt(t, s, n, class, budget)
  PROVE  TextAt(OmitLine(t, s[n + 1]), s, n + 1, class, budget)
<1> DEFINE x == s[n + 1]
           omitted == t.omitted \cup {x}
           u == [t EXCEPT !.omitted = omitted]
<1> USE DEF TextAt
<1> HIDE DEF x, omitted
<1>1. /\ u = [shown |-> t.shown, omitted |-> omitted, signals |-> t.signals,
              size |-> t.size, class |-> class, budget |-> budget]
      /\ t.class = class /\ t.budget = budget /\ t.size \in Nat /\ t.shown \in Seq(Nat)
  BY SetOmitted, TextFields DEF IsText
<1> HIDE DEF u
<1>2. IsText(u, class, budget)
  BY <1>1 DEF IsText, HasFields
<1>3. Reserves(u)
  BY <1>1 DEF Reserves
<1>4. Listed(u, s, n + 1)
  <2>1. /\ {s[k].id : k \in 1..(n + 1)} = {s[k].id : k \in 1..n} \cup {x.id}
        /\ {s[k] : k \in 1..(n + 1)} = {s[k] : k \in 1..n} \cup {x}
    <3>1. \A k \in 1..(n + 1) : k \in 1..n \/ k = n + 1
      OBVIOUS
    <3>2. n + 1 \in 1..(n + 1) /\ \A k \in 1..n : k \in 1..(n + 1)
      OBVIOUS
    <3> QED
      BY <3>1, <3>2 DEF x
  <2>2. u.omitted = t.omitted \cup {x} /\ u.shown = t.shown
    BY <1>1 DEF omitted
  <2>3. IdsOf(t.omitted \cup {x}) = IdsOf(t.omitted) \cup {x.id}
    BY DEF IdsOf
  <2>4. Distinct(s) => x.id \notin ToSet(t.shown)
    <3> SUFFICES ASSUME Distinct(s), x.id \in ToSet(t.shown) PROVE FALSE
      OBVIOUS
    <3>1. x.id \in {s[k].id : k \in 1..n}
      BY DEF Listed
    <3>2. PICK k \in 1..n : s[k].id = x.id
      BY <3>1
    <3>3. k \in DOMAIN s /\ n + 1 \in DOMAIN s /\ s[k].id = s[n + 1].id
      BY <3>2 DEF x
    <3> QED
      BY <3>3 DEF Distinct
  <2>5. u.omitted \subseteq {s[k] : k \in 1..(n + 1)}
    BY <2>1, <2>2 DEF Listed
  <2>6. ToSet(u.shown) \cup IdsOf(u.omitted) = {s[k].id : k \in 1..(n + 1)}
    BY <2>1, <2>2, <2>3 DEF Listed
  <2>7. Distinct(s) => ToSet(u.shown) \cap IdsOf(u.omitted) = {}
    BY <2>2, <2>3, <2>4 DEF Listed
  <2> QED
    BY <2>5, <2>6, <2>7 DEF Listed
<1> QED
  BY <1>2, <1>3, <1>4 DEF x, omitted, u, OmitLine

(* The text before its first line.                                           *)
LEMMA OpeningIsText ==
  ASSUME NEW class \in DOMAIN FooterSize, NEW budget \in Nat, NEW s
  PROVE  TextAt(Opening(class, budget), s, 0, class, budget)
<1> DEFINE t == Opening(class, budget)
<1>1. t = [shown |-> <<>>, omitted |-> {}, signals |-> 0, size |-> FixedSize, class |-> class,
           budget |-> budget]
  BY DEF Opening
<1>2. 1..0 = {}
  OBVIOUS
<1>3. IsText(t, class, budget)
  BY <1>1, SizesAreNatural DEF IsText, HasFields
<1>4. Listed(t, s, 0)
  BY <1>1, <1>2 DEF Listed, IdsOf, ToSet
<1>5. Reserves(t)
  BY <1>1 DEF Reserves, HasRoom
<1> QED
  BY <1>3, <1>4, <1>5 DEF TextAt

(* The sizes in which a line may stand are sizes.                            *)
LEMMA FormsAreSizes ==
  ASSUME NEW item \in Statement
  PROVE  Forms(item) \in Seq(Nat)
<1>1. item.size \in Nat
  BY DEF Statement
<1>2. <<Min({item.size, LineSize})>> \in Seq(Nat)
  BY <1>1, SmallerOf, SizesAreNatural
<1>3. [n \in DOMAIN CompactSizes |-> Min({item.size, CompactSizes[n]})] \in Seq(Nat)
  <2>1. \A n \in DOMAIN CompactSizes : Min({item.size, CompactSizes[n]}) \in Nat
    <3>1. \A n \in DOMAIN CompactSizes : CompactSizes[n] \in Nat
      BY SizesAreNatural
    <3> QED
      BY <1>1, <3>1, SmallerOf
  <2>2. DOMAIN CompactSizes = 1..Len(CompactSizes) /\ Len(CompactSizes) \in Nat
    BY SizesAreNatural
  <2> DEFINE f == [n \in DOMAIN CompactSizes |-> Min({item.size, CompactSizes[n]})]
  <2>3. f \in [1..Len(CompactSizes) -> Nat]
    BY <2>1, <2>2
  <2> HIDE DEF f
  <2>4. f \in Seq(Nat)
    BY <2>2, <2>3
  <2> QED
    BY <2>4 DEF f
<1> DEFINE a == <<Min({item.size, LineSize})>>
           b == [n \in DOMAIN CompactSizes |-> Min({item.size, CompactSizes[n]})]
<1>4. Forms(item) = a \o (IF item.kind \in HighRiskKinds THEN b ELSE <<>>)
  BY DEF Forms
<1> HIDE DEF a, b
<1>5. a \in Seq(Nat) /\ b \in Seq(Nat)
  BY <1>2, <1>3 DEF a, b
<1> QED
  BY <1>4, <1>5

(* The first of some sizes that fits, if one does.                           *)
FirstForm(forms, t) == SelectInSeq(forms, LAMBDA size : Fits(t, size))

(* The form that is chosen for a line fits, if one is.                       *)
LEMMA FirstFit ==
  ASSUME NEW forms \in Seq(Nat), NEW t
  PROVE  LET n == FirstForm(forms, t) IN
         n = 0 \/ (forms[n] \in Nat /\ Fits(t, forms[n]))
<1> DEFINE I == {i \in 1..Len(forms) : Fits(t, forms[i])}
           n == FirstForm(forms, t)
<1>1. Len(forms) \in Nat /\ \A i \in 1..Len(forms) : forms[i] \in Nat
  OBVIOUS
<1>2. I \in SUBSET (1..Len(forms))
  OBVIOUS
<1>3. n = IF I # {} THEN Min(I) ELSE 0
  BY DEF FirstForm, SelectInSeq
<1> HIDE DEF n
<1>4. n = 0 \/ n \in I
  <2> HIDE DEF I
  <2> QED
    BY <1>1, <1>2, <1>3, FirstPlace
<1>5. n = 0 \/ (forms[n] \in Nat /\ Fits(t, forms[n]))
  BY <1>1, <1>4
<1> QED
  BY <1>5 DEF n

(* A turn of recovery's loop shows the next item or counts it.               *)
LEMMA AddLineListed ==
  ASSUME NEW s \in Seq(Statement), NEW n \in Nat, n + 1 \in 1..Len(s),
         NEW class \in DOMAIN FooterSize, NEW budget \in Nat, NEW t,
         TextAt(t, s, n, class, budget)
  PROVE  TextAt(AddLine(t, s[n + 1]), s, n + 1, class, budget)
<1> DEFINE x == s[n + 1]
           m == FirstForm(Forms(x), t)
<1>1. Forms(x) \in Seq(Nat)
  BY FormsAreSizes
<1>2. m = 0 \/ (Forms(x)[m] \in Nat /\ Fits(t, Forms(x)[m]))
  BY <1>1, FirstFit
<1>3. AddLine(t, x) =
        IF m = 0 THEN OmitLine(t, x) ELSE ShowLine(t, x.id, Forms(x)[m])
  BY DEF AddLine, FirstForm, OmitLine, ShowLine
<1> HIDE DEF m
<1>4. CASE m = 0
  BY <1>3, <1>4, LineOmitted
<1>5. CASE m # 0
  <2> DEFINE size == Forms(x)[m]
  <2>1. size \in Nat /\ Fits(t, size)
    BY <1>2, <1>5
  <2>2. AddLine(t, x) = ShowLine(t, s[n + 1].id, size)
    BY <1>3, <1>5
  <2> HIDE DEF size
  <2> QED
    BY <2>1, <2>2, LineShown
<1> QED
  BY <1>4, <1>5

(* So does a turn of the loop for a subagent.                                *)
LEMMA AddShortLineListed ==
  ASSUME NEW s \in Seq(Statement), NEW n \in Nat, n + 1 \in 1..Len(s),
         NEW class \in DOMAIN FooterSize, NEW budget \in Nat, NEW t,
         TextAt(t, s, n, class, budget)
  PROVE  TextAt(AddShortLine(t, s[n + 1]), s, n + 1, class, budget)
<1> DEFINE x == s[n + 1]
           size == Min({x.size, LineSize})
<1>1. size \in Nat
  BY StatementsOf, SmallerOf, SizesAreNatural
<1>2. AddShortLine(t, x) =
        IF Fits(t, size) THEN ShowLine(t, x.id, size) ELSE OmitLine(t, x)
  BY DEF AddShortLine, OmitLine, ShowLine
<1> HIDE DEF size
<1> QED
  BY <1>1, <1>2, LineOmitted, LineShown

(* The whole loop over the lines of a text for the model ...                 *)
LEMMA WrittenLines ==
  ASSUME NEW s \in Seq(Statement), NEW class \in DOMAIN FooterSize, NEW budget \in Nat
  PROVE  TextAt(FoldLeft(AddLine, Opening(class, budget), s), s, Len(s), class, budget)
<1> DEFINE p == Opening(class, budget)
<1>1. PICK after : Writing!Loop(after, p, s) /\ FoldLeft(AddLine, p, s) = after[Len(s)]
  BY WritingLoop
<1>2. after[0] = p /\ \A n \in 1..Len(s) : after[n] = AddLine(after[n - 1], s[n])
  BY <1>1 DEF Writing!Loop
<1>3. Len(s) \in Nat
  OBVIOUS
<1> HIDE DEF p
<1> DEFINE S == {n \in Nat : n <= Len(s) => TextAt(after[n], s, n, class, budget)}
<1>4. Nat \subseteq S
  <2>1. 0 \in S
    BY <1>2, OpeningIsText DEF p
  <2>2. ASSUME NEW n \in Nat, n \in S PROVE n + 1 \in S
    <3> SUFFICES ASSUME n + 1 <= Len(s) PROVE TextAt(after[n + 1], s, n + 1, class, budget)
      OBVIOUS
    <3>1. TextAt(after[n], s, n, class, budget) /\ n + 1 \in 1..Len(s) /\ (n + 1) - 1 = n
      BY <1>3, <2>2
    <3>2. after[n + 1] = AddLine(after[n], s[n + 1])
      BY <1>2, <3>1
    <3> QED
      BY <3>1, <3>2, AddLineListed
  <2> HIDE DEF S
  <2> QED
    BY <2>1, <2>2, Summing!Induction
<1>5. TextAt(after[Len(s)], s, Len(s), class, budget)
  BY <1>3, <1>4
<1> QED
  BY <1>1, <1>5 DEF p

(* ... and of a text for a subagent.                                         *)
LEMMA DelegatedLines ==
  ASSUME NEW s \in Seq(Statement), NEW class \in DOMAIN FooterSize, NEW budget \in Nat
  PROVE  TextAt(FoldLeft(AddShortLine, Opening(class, budget), s), s, Len(s), class, budget)
<1> DEFINE p == Opening(class, budget)
<1>1. PICK after : Delegating!Loop(after, p, s) /\ FoldLeft(AddShortLine, p, s) = after[Len(s)]
  BY DelegatingLoop
<1>2. after[0] = p /\ \A n \in 1..Len(s) : after[n] = AddShortLine(after[n - 1], s[n])
  BY <1>1 DEF Delegating!Loop
<1>3. Len(s) \in Nat
  OBVIOUS
<1> HIDE DEF p
<1> DEFINE S == {n \in Nat : n <= Len(s) => TextAt(after[n], s, n, class, budget)}
<1>4. Nat \subseteq S
  <2>1. 0 \in S
    BY <1>2, OpeningIsText DEF p
  <2>2. ASSUME NEW n \in Nat, n \in S PROVE n + 1 \in S
    <3> SUFFICES ASSUME n + 1 <= Len(s) PROVE TextAt(after[n + 1], s, n + 1, class, budget)
      OBVIOUS
    <3>1. TextAt(after[n], s, n, class, budget) /\ n + 1 \in 1..Len(s) /\ (n + 1) - 1 = n
      BY <1>3, <2>2
    <3>2. after[n + 1] = AddShortLine(after[n], s[n + 1])
      BY <1>2, <3>1
    <3> QED
      BY <3>1, <3>2, AddShortLineListed
  <2> HIDE DEF S
  <2> QED
    BY <2>1, <2>2, Summing!Induction
<1>5. TextAt(after[Len(s)], s, Len(s), class, budget)
  BY <1>3, <1>4
<1> QED
  BY <1>1, <1>5 DEF p

(* What closing a text does to it, with the line about omissions and the     *)
(* lines about signals: its items stay, and it stays in its budget.          *)
SameLines(t, u) ==
  u.class = t.class /\ u.budget = t.budget /\ u.shown = t.shown /\ u.omitted = t.omitted

StaysIn(t) == HasRoom(t.class, t.budget) => t.size <= t.budget

(* The line about omissions uses what was reserved for it.                   *)
LEMMA OmissionsFit ==
  ASSUME NEW class \in DOMAIN FooterSize, NEW budget \in Nat, NEW t, IsText(t, class, budget),
         Reserves(t)
  PROVE  LET u == WithOmissions(t) IN
         /\ IsText(u, class, budget) /\ SameLines(t, u)
         /\ HasRoom(class, budget) => u.size + FooterSize[class] <= budget
<1> DEFINE u == WithOmissions(t)
           more == t.size + OmissionSize
<1>1. HasFields(t, class, budget) /\ t.class = class /\ t.budget = budget /\ t.size \in Nat
      /\ t.shown \in Seq(Nat) /\ more \in Nat
  BY TextFields, SizesAreNatural DEF IsText
<1>2. HasRoom(class, budget) => t.size + OmissionSize + FooterSize[class] <= budget
  BY <1>1 DEF Reserves
<1>3. FooterSize[class] \in Nat
  BY FooterIsSize
<1>4. CASE t.omitted = {}
  <2>1. u = t
    BY <1>4 DEF WithOmissions
  <2> QED
    BY <1>1, <1>2, <1>3, <2>1, SizesAreNatural DEF SameLines
<1>5. CASE t.omitted # {}
  <2>1. u = [t EXCEPT !.size = more]
    BY <1>5 DEF WithOmissions
  <2> HIDE DEF more, u
  <2>2. u = [shown |-> t.shown, omitted |-> t.omitted, signals |-> t.signals, size |-> more,
             class |-> class, budget |-> budget]
    BY <1>1, <2>1 DEF HasFields
  <2>3. IsText(u, class, budget) /\ SameLines(t, u)
    BY <1>1, <2>2 DEF IsText, HasFields, SameLines
  <2> QED
    BY <1>1, <1>2, <1>3, <2>2, <2>3 DEF more, u
<1> QED
  BY <1>4, <1>5

(* The lines about signals leave room for the footer.                        *)
LEMMA SignalsFit ==
  ASSUME NEW class \in DOMAIN FooterSize, NEW budget \in Nat, NEW t, IsText(t, class, budget),
         HasRoom(class, budget) => t.size + FooterSize[class] <= budget,
         NEW signals \in Nat
  PROVE  LET u == WithSignals(t, signals) IN
         /\ IsText(u, class, budget) /\ SameLines(t, u)
         /\ HasRoom(class, budget) => u.size + FooterSize[class] <= budget
<1> DEFINE T == {m \in 0..signals : m = 0 \/ Fits(t, m * SignalSize)}
           n == Max(T)
           more == t.size + n * SignalSize
           u == [t EXCEPT !.signals = n, !.size = more]
           v == [t EXCEPT !.signals = n]
<1>1. HasFields(t, class, budget) /\ t.class = class /\ t.budget = budget /\ t.size \in Nat
      /\ t.shown \in Seq(Nat)
  BY TextFields DEF IsText
<1>2. n \in T
  <2>1. 0 \in T /\ T \in SUBSET (0..signals)
    OBVIOUS
  <2> HIDE DEF T
  <2> QED
    BY <2>1, MaxChosen
<1>3. n \in Nat /\ (n = 0 \/ Fits(t, n * SignalSize))
  BY <1>2
<1>4. WithSignals(t, signals) = u
  BY DEF WithSignals
<1> HIDE DEF n
<1>5. n * SignalSize \in Nat /\ (n = 0 => n * SignalSize = 0)
  BY <1>3, SizesAreNatural
<1>6. more \in Nat
  BY <1>1, <1>5
<1>7. HasRoom(class, budget) => more + FooterSize[class] <= budget
  <2>1. CASE n = 0
    BY <1>1, <1>5, <2>1
  <2>2. CASE Fits(t, n * SignalSize)
    BY <1>1, <1>5, <2>2, FooterIsSize, SizesAreNatural DEF Fits
  <2> QED
    BY <1>3, <2>1, <2>2
<1>8. u = [v EXCEPT !.size = more]
  OBVIOUS
<1> HIDE DEF more, u
<1>9. v = [shown |-> t.shown, omitted |-> t.omitted, signals |-> n, size |-> t.size,
           class |-> class, budget |-> budget]
  BY <1>1 DEF HasFields
<1> HIDE DEF v
<1>10. u = [shown |-> t.shown, omitted |-> t.omitted, signals |-> n, size |-> more,
            class |-> class, budget |-> budget]
  BY <1>8, <1>9
<1>11. IsText(u, class, budget) /\ SameLines(t, u) /\ u.size = more
  BY <1>1, <1>6, <1>10 DEF IsText, HasFields, SameLines
<1> QED
  BY <1>4, <1>7, <1>11

(* The footer uses what was reserved for it.                                 *)
LEMMA FooterFits ==
  ASSUME NEW class \in DOMAIN FooterSize, NEW budget \in Nat, NEW t, IsText(t, class, budget),
         HasRoom(class, budget) => t.size + FooterSize[class] <= budget
  PROVE  SameLines(t, Closed(t)) /\ StaysIn(Closed(t)) /\ Closed(t).class = class
<1> DEFINE more == t.size + FooterSize[class]
           u == [t EXCEPT !.size = more]
<1>1. HasFields(t, class, budget) /\ t.class = class /\ t.budget = budget
  BY TextFields DEF IsText
<1>2. Closed(t) = u
  BY <1>1 DEF Closed
<1> HIDE DEF more
<1>3. u = [shown |-> t.shown, omitted |-> t.omitted, signals |-> t.signals, size |-> more,
           class |-> class, budget |-> budget]
  BY <1>1 DEF HasFields
<1> HIDE DEF u
<1>4. SameLines(t, u) /\ u.size = more /\ u.class = class /\ u.budget = budget
  BY <1>1, <1>3 DEF SameLines
<1>5. StaysIn(u)
  BY <1>4 DEF StaysIn, more
<1> QED
  BY <1>2, <1>4, <1>5

(* What every text is: of its items each is shown or among the omitted, and  *)
(* it stays in its budget.                                                   *)
Partitions(t, items) ==
  /\ t.omitted \subseteq ToSet(items)
  /\ ToSet(t.shown) \cup IdsOf(t.omitted) = IdsOf(ToSet(items))
  /\ Distinct(items) => ToSet(t.shown) \cap IdsOf(t.omitted) = {}

(* A rendered text lists every item, stays in its budget and has the         *)
(* classification it was asked for.                                          *)
LEMMA RenderingIs ==
  ASSUME NEW items \in Seq(Statement), NEW signals \in Nat, NEW class \in DOMAIN FooterSize,
         NEW budget \in Nat
  PROVE  LET t == Rendering(items, signals, class, budget) IN
         t.class = class /\ Partitions(t, items) /\ StaysIn(t)
<1> DEFINE s == CategoryRoundRobin(items)
           a == FoldLeft(AddLine, Opening(class, budget), s)
           b == WithOmissions(a)
           c == WithSignals(b, signals)
           t == Closed(c)
<1>1. s \in Seq(Statement) /\ ToSet(s) = ToSet(items) /\ (Distinct(items) => Distinct(s))
  BY RoundRobinRearranged, RearrangedElements
<1>2. Rendering(items, signals, class, budget) = t
  BY DEF Rendering
<1> HIDE DEF s
<1>3. TextAt(a, s, Len(s), class, budget)
  BY <1>1, WrittenLines
<1> HIDE DEF a
<1>4. IsText(b, class, budget) /\ SameLines(a, b)
      /\ (HasRoom(class, budget) => b.size + FooterSize[class] <= budget)
  BY <1>3, OmissionsFit DEF TextAt
<1> HIDE DEF b
<1>5. IsText(c, class, budget) /\ SameLines(b, c)
      /\ (HasRoom(class, budget) => c.size + FooterSize[class] <= budget)
  BY <1>4, SignalsFit
<1> HIDE DEF c
<1>6. SameLines(c, t) /\ StaysIn(t) /\ t.class = class
  BY <1>5, FooterFits
<1> HIDE DEF t
<1>7. t.shown = a.shown /\ t.omitted = a.omitted
  BY <1>4, <1>5, <1>6 DEF SameLines
<1>8. Partitions(t, items)
  <2>1. {s[k] : k \in 1..Len(s)} = ToSet(items) /\ {s[k].id : k \in 1..Len(s)} = IdsOf(ToSet(items))
    <3>1. DOMAIN s = 1..Len(s)
      BY <1>1
    <3>2. ToSet(s) = {s[k] : k \in 1..Len(s)}
      BY <3>1 DEF ToSet
    <3> QED
      BY <1>1, <3>2 DEF IdsOf
  <2>2. Listed(a, s, Len(s))
    BY <1>3 DEF TextAt
  <2> QED
    BY <1>1, <1>7, <2>1, <2>2 DEF Listed, Partitions
<1> QED
  BY <1>2, <1>6, <1>8

(* The same of the text for a subagent.                                      *)
LEMMA CapsuleTextIs ==
  ASSUME NEW capsule, capsule.items \in Seq(Statement), NEW budget \in Nat
  PROVE  LET t == CapsuleText(capsule, budget) IN
         t.class = "delegated" /\ Partitions(t, capsule.items) /\ StaysIn(t)
<1> DEFINE s == capsule.items
           class == "delegated"
           a == FoldLeft(AddShortLine, Opening(class, budget), s)
           b == WithOmissions(a)
           t == Closed(b)
<1>1. s \in Seq(Statement) /\ class \in DOMAIN FooterSize
  BY SizeAssumption
<1>2. CapsuleText(capsule, budget) = t
  BY DEF CapsuleText
<1> HIDE DEF s, class
<1>3. TextAt(a, s, Len(s), class, budget)
  BY <1>1, DelegatedLines
<1> HIDE DEF a
<1>4. IsText(b, class, budget) /\ SameLines(a, b)
      /\ (HasRoom(class, budget) => b.size + FooterSize[class] <= budget)
  BY <1>1, <1>3, OmissionsFit DEF TextAt
<1> HIDE DEF b
<1>5. SameLines(b, t) /\ StaysIn(t) /\ t.class = class
  BY <1>1, <1>4, FooterFits
<1> HIDE DEF t
<1>6. t.shown = a.shown /\ t.omitted = a.omitted
  BY <1>4, <1>5 DEF SameLines
<1>7. Partitions(t, s)
  <2>1. {s[k] : k \in 1..Len(s)} = ToSet(s) /\ {s[k].id : k \in 1..Len(s)} = IdsOf(ToSet(s))
    <3>1. DOMAIN s = 1..Len(s)
      BY <1>1
    <3>2. ToSet(s) = {s[k] : k \in 1..Len(s)}
      BY <3>1 DEF ToSet
    <3> QED
      BY <3>2 DEF IdsOf
  <2>2. Listed(a, s, Len(s))
    BY <1>3 DEF TextAt
  <2> QED
    BY <1>6, <2>1, <2>2 DEF Listed, Partitions
<1> QED
  BY <1>2, <1>5, <1>7 DEF s, class

(* recover: a text that leaves out a high-risk item asks before such work.   *)
LEMMA RenderedIs ==
  ASSUME NEW items \in Seq(Statement), NEW signals \in Nat, NEW class \in DOMAIN FooterSize,
         NEW budget \in Nat
  PROVE  LET t == Rendered(items, signals, class, budget) IN
         /\ Partitions(t, items) /\ StaysIn(t)
         /\ Critical(t) # {} => t.class = "ask_before_high_risk"
<1> DEFINE first == Rendering(items, signals, class, budget)
           again == Rendering(items, signals + 1, "ask_before_high_risk", budget)
<1>1. "ask_before_high_risk" \in DOMAIN FooterSize /\ signals + 1 \in Nat
  BY SizeAssumption
<1>2. /\ Partitions(first, items) /\ StaysIn(first)
      /\ Partitions(again, items) /\ StaysIn(again) /\ again.class = "ask_before_high_risk"
  BY <1>1, RenderingIs
<1>3. Rendered(items, signals, class, budget) = IF Critical(first) = {} THEN first ELSE again
  BY DEF Rendered
<1> HIDE DEF first, again
<1> QED
  BY <1>2, <1>3

----------------------------------------------------------------------------
\* The task and the texts about it

(* Every version of the task is a sequence of its items, each with an        *)
(* identifier of its own.                                                    *)
TaskInv ==
  /\ host \in Profiles
  /\ versions \in Seq(Seq(Statement))
  /\ Len(versions) \in 1..(host.changes + 1)
  /\ \A i \in DOMAIN versions : Distinct(versions[i])

TextInv ==
  /\ text.kind = "recovery" =>
       /\ text.generation \in 0..Generation
       /\ Partitions(text.body, versions[text.generation + 1])
       /\ Critical(text.body) # {} => text.body.class = "ask_before_high_risk"
  /\ text.kind # "none" => StaysIn(text.body)

(* The steps that leave the task and the text about it alone.                *)
LEMMA OtherSteps ==
  ASSUME [Next]_vars
  PROVE  \/ UNCHANGED <<host, versions, text>>
         \/ \E content \in host.contents : Change(content)
         \/ \E budget \in TextBudgets : Delegate(budget)
         \/ \E budget \in TextBudgets, class \in DOMAIN FooterSize \ {"delegated"},
               n \in 0..host.signals : Recover(class, n, budget)
<1>1. CASE UNCHANGED vars
  BY <1>1 DEF vars
<1>2. ASSUME NEW kind, NEW framing, Write(kind, framing) PROVE UNCHANGED <<host, versions, text>>
  BY <1>2 DEF Write
<1>3. CASE Close \/ EndOfInput \/ Push \/ TakeFrame \/ Finish
  BY <1>3 DEF Close, EndOfInput, Push, TakeFrame, Finish
<1>4. ASSUME NEW size, Data(size) PROVE UNCHANGED <<host, versions, text>>
  BY <1>4 DEF Data
<1>5. CASE Serve
  BY <1>5 DEF Serve, ServePing, ServeRead, ServeExport, ServeNotification, Answer
<1> QED
  BY <1>1, <1>2, <1>3, <1>4, <1>5 DEF Next

(* A version of the task is a sequence of items with identifiers of their    *)
(* own.                                                                      *)
LEMMA ActiveItemsType ==
  ASSUME NEW P \in Profiles, NEW content \in P.contents
  PROVE  ActiveItems(content) \in Seq(Statement) /\ Distinct(ActiveItems(content))
<1>1. content \in Seq(Statement) /\ Distinct(content)
  BY ContentAssumption DEF Distinct
<1> QED
  BY <1>1, ActiveItemsRearranged, RearrangedElements

(* What a kind of behaviour is (ProfileAssumption).                          *)
LEMMA HostType ==
  ASSUME host \in Profiles
  PROVE  /\ host.kinds \subseteq Kinds /\ host.framings \subseteq Framings
         /\ host.messages \in Nat /\ host.changes \in Nat /\ host.signals \in Nat
BY ProfileAssumption

(* The first version, and no text yet.                                       *)
LEMMA TaskInit == Init => TaskInv /\ TextInv
<1> SUFFICES ASSUME Init PROVE TaskInv /\ TextInv
  OBVIOUS
<1>1. host \in Profiles /\ host.changes \in Nat
  BY HostType DEF Init
<1>2. PICK content \in host.contents : versions = <<ActiveItems(content)>>
  BY DEF Init
<1> DEFINE first == ActiveItems(content)
<1>3. first \in Seq(Statement) /\ Distinct(first)
  BY <1>1, ActiveItemsType
<1> HIDE DEF first
<1>4. versions = <<first>>
  BY <1>2 DEF first
<1>5. versions \in Seq(Seq(Statement)) /\ Len(versions) = 1 /\ DOMAIN versions = {1}
      /\ versions[1] = first
  BY <1>3, <1>4
<1>6. TaskInv
  BY <1>1, <1>3, <1>5 DEF TaskInv
<1>7. TextInv
  BY DEF Init, NoText, TextInv
<1> QED
  BY <1>6, <1>7

(* A version, once there, stays.                                             *)
LEMMA VersionsStay ==
  ASSUME TaskInv, [Next]_vars
  PROVE  /\ Len(versions') >= Len(versions) /\ host' = host
         /\ \A i \in DOMAIN versions : i \in DOMAIN versions' /\ versions'[i] = versions[i]
<1>1. CASE UNCHANGED <<host, versions, text>>
  BY <1>1 DEF TaskInv
<1>2. ASSUME NEW content, Change(content)
      PROVE  /\ Len(versions') >= Len(versions) /\ host' = host
             /\ \A i \in DOMAIN versions : i \in DOMAIN versions' /\ versions'[i] = versions[i]
  BY <1>2 DEF Change, TaskInv
<1>3. ASSUME NEW budget, Delegate(budget) PROVE UNCHANGED <<host, versions>>
  BY <1>3 DEF Delegate, Shows
<1>4. ASSUME NEW budget, NEW class, NEW n, Recover(class, n, budget) PROVE UNCHANGED <<host, versions>>
  BY <1>4 DEF Recover, Shows
<1> QED
  BY <1>1, <1>2, <1>3, <1>4, OtherSteps DEF TaskInv

(* Every step keeps the versions well formed.                                *)
LEMMA TaskNext ==
  ASSUME TaskInv, [Next]_vars
  PROVE  TaskInv'
<1>1. CASE UNCHANGED <<host, versions, text>>
  BY <1>1 DEF TaskInv
<1>2. ASSUME NEW content \in host.contents, Change(content) PROVE TaskInv'
  <2> DEFINE new == ActiveItems(content)
  <2>1. new \in Seq(Statement) /\ Distinct(new)
    BY ActiveItemsType DEF TaskInv
  <2>2. host' = host /\ versions' = Append(versions, new) /\ Len(versions) - 1 < host.changes
    BY <1>2 DEF Change, Generation
  <2> HIDE DEF new
  <2>3. versions' \in Seq(Seq(Statement)) /\ Len(versions') = Len(versions) + 1
    BY <2>1, <2>2 DEF TaskInv
  <2>4. host \in Profiles /\ host.changes \in Nat /\ Len(versions) \in Nat
    BY HostType DEF TaskInv
  <2>5. Len(versions') \in 1..(host'.changes + 1)
    BY <2>2, <2>3, <2>4
  <2>6. ASSUME NEW i \in DOMAIN versions' PROVE Distinct(versions'[i])
    <3>1. versions'[i] = new \/ (i \in DOMAIN versions /\ versions'[i] = versions[i])
      BY <2>1, <2>2 DEF TaskInv
    <3> QED
      BY <2>1, <3>1 DEF TaskInv
  <2> QED
    BY <2>2, <2>3, <2>4, <2>5, <2>6 DEF TaskInv
<1>3. ASSUME NEW budget, Delegate(budget) PROVE UNCHANGED <<host, versions>>
  BY <1>3 DEF Delegate, Shows
<1>4. ASSUME NEW budget, NEW class, NEW n, Recover(class, n, budget) PROVE UNCHANGED <<host, versions>>
  BY <1>4 DEF Recover, Shows
<1> QED
  BY <1>1, <1>2, <1>3, <1>4, OtherSteps DEF TaskInv

(* The current items are the last version.                                   *)
LEMMA ItemsType ==
  ASSUME TaskInv
  PROVE  /\ Items \in Seq(Statement) /\ Distinct(Items) /\ Items = versions[Generation + 1]
         /\ Generation \in Nat /\ Generation \in 0..host.changes
<1>1. host.changes \in Nat
  BY HostType DEF TaskInv
<1>2. Len(versions) \in DOMAIN versions
  BY DEF TaskInv
<1>3. Items \in Seq(Statement) /\ Distinct(Items)
  BY <1>2 DEF TaskInv, Items
<1>4. Generation \in Nat /\ Generation \in 0..host.changes /\ Generation + 1 = Len(versions)
  BY <1>1 DEF TaskInv, Generation
<1> QED
  BY <1>3, <1>4 DEF Items

(* A new text is right when it is written, and an old one stays so: it names *)
(* its generation.                                                           *)
LEMMA TextNext ==
  ASSUME TaskInv, TextInv, [Next]_vars
  PROVE  TextInv'
<1>1. CASE UNCHANGED <<host, versions, text>>
  BY <1>1 DEF TextInv, Generation
<1>2. ASSUME NEW content \in host.contents, Change(content) PROVE TextInv'
  <2>1. text' = text
    BY <1>2 DEF Change
  <2>2. ASSUME text.generation \in 0..Generation
        PROVE  /\ text.generation \in 0..Generation'
               /\ versions'[text.generation + 1] = versions[text.generation + 1]
    <3>1. Len(versions) \in Nat /\ Len(versions') \in Nat /\ DOMAIN versions = 1..Len(versions)
      BY TaskNext DEF TaskInv
    <3>2. Len(versions') >= Len(versions)
          /\ \A i \in DOMAIN versions : versions'[i] = versions[i]
      BY VersionsStay
    <3>3. text.generation + 1 \in DOMAIN versions
      BY <2>2, <3>1 DEF Generation
    <3> QED
      BY <2>2, <3>1, <3>2, <3>3 DEF Generation
  <2> QED
    BY <2>1, <2>2 DEF TextInv
<1>3. ASSUME NEW budget \in TextBudgets, Delegate(budget) PROVE TextInv'
  <2> DEFINE capsule == Capsule(Items, DelegatedKinds)
             body == CapsuleText(capsule, budget)
  <2>1. text' = [kind |-> "delegation", generation |-> Generation, body |-> body]
    BY <1>3 DEF Delegate, Shows
  <2>2. capsule.items \in Seq(Statement) /\ budget \in Nat
    BY ItemsType, CapsuleItems, SizeAssumption
  <2> HIDE DEF capsule
  <2>3. StaysIn(body)
    BY <2>2, CapsuleTextIs
  <2> HIDE DEF body
  <2> QED
    BY <2>1, <2>3 DEF TextInv
<1>4. ASSUME NEW budget \in TextBudgets, NEW class \in DOMAIN FooterSize \ {"delegated"},
             NEW n \in 0..host.signals, Recover(class, n, budget)
      PROVE  TextInv'
  <2> DEFINE body == Rendered(Items, n, class, budget)
  <2>1. /\ text' = [kind |-> "recovery", generation |-> Generation, body |-> body]
        /\ versions' = versions
    BY <1>4 DEF Recover, Shows
  <2>2. n \in Nat /\ budget \in Nat /\ class \in DOMAIN FooterSize
    BY HostType, SizeAssumption DEF TaskInv
  <2>3. /\ Partitions(body, Items) /\ StaysIn(body)
        /\ Critical(body) # {} => body.class = "ask_before_high_risk"
    BY <2>2, ItemsType, RenderedIs
  <2> HIDE DEF body
  <2>4. text'.kind = "recovery" /\ text'.generation = Generation /\ text'.body = body
        /\ Generation' = Generation
    BY <2>1 DEF Generation
  <2>5. Generation \in 0..Generation /\ versions'[Generation + 1] = Items
    BY <2>1, ItemsType
  <2> QED
    BY <2>3, <2>4, <2>5 DEF TextInv
<1> QED
  BY <1>1, <1>2, <1>3, <1>4, OtherSteps

(* The texts, in every behaviour.                                            *)
THEOREM TaskInvariant == Spec => [](TaskInv /\ TextInv)
<1>1. Init => TaskInv /\ TextInv
  BY TaskInit
<1>2. TaskInv /\ TextInv /\ [Next]_vars => (TaskInv /\ TextInv)'
  BY TaskNext, TextNext
<1> QED
  BY <1>1, <1>2, PTL DEF Spec

(* Every text for a model or a subagent stays in its budget, provided that   *)
(* its fixed lines do (fitsReserved, recovery.mjs:300-304).                  *)
THEOREM TextsAreBounded == Spec => []TextsStayInBudget
<1>1. TextInv => TextsStayInBudget
  BY DEF TextInv, TextsStayInBudget, StaysIn, HasRoom
<1> QED
  BY <1>1, TaskInvariant, PTL

(* Every item of the task is on a line of the recovery text or among those   *)
(* it counts as omitted, and when a high-risk one is omitted the text asks   *)
(* before such work (recover, service.mjs:983-993).                          *)
THEOREM OmissionsNamed == Spec => []OmissionsAreNamed
<1>1. TaskInv /\ TextInv => OmissionsAreNamed
  <2> SUFFICES ASSUME TaskInv, TextInv, text.kind = "recovery"
               PROVE  OmissionsAreNamed
    BY DEF OmissionsAreNamed
  <2> DEFINE items == versions[text.generation + 1]
  <2>1. text.generation + 1 \in DOMAIN versions
    BY ItemsType DEF TextInv, Generation, TaskInv
  <2>2. items \in Seq(Statement) /\ Distinct(items)
    BY <2>1 DEF TaskInv
  <2>3. Partitions(text.body, items) /\ (Critical(text.body) # {} => text.body.class = "ask_before_high_risk")
    BY DEF TextInv
  <2>4. ToSet(Ids(items)) = IdsOf(ToSet(items))
    <3> HIDE DEF items
    <3> QED
      BY <2>2 DEF ToSet, Ids, IdsOf
  <2> HIDE DEF items
  <2> QED
    BY <2>2, <2>3, <2>4 DEF OmissionsAreNamed, Partitions, IdsOf, items
<1> QED
  BY <1>1, TaskInvariant, PTL

----------------------------------------------------------------------------
\* The input as one sequence of tokens

(* Parts of a sequence.                                                      *)
LEMMA PartOf ==
  ASSUME NEW T, NEW S \in Seq(T), NEW a \in Nat, NEW b \in Nat, a <= b, b <= Len(S)
  PROVE  /\ SubSeq(S, a + 1, b) \in Seq(T) /\ Len(SubSeq(S, a + 1, b)) = b - a
         /\ \A i \in 1..(b - a) : SubSeq(S, a + 1, b)[i] = S[a + i]
OBVIOUS

(* Two sequences with the same elements are the same.                        *)
LEMMA SameSequence ==
  ASSUME NEW T, NEW s \in Seq(T), NEW t \in Seq(T), Len(s) = Len(t),
         \A i \in 1..Len(s) : s[i] = t[i]
  PROVE  s = t
OBVIOUS

(* The elements of two sequences joined.                                     *)
LEMMA Joined ==
  ASSUME NEW T, NEW s \in Seq(T), NEW t \in Seq(T)
  PROVE  /\ s \o t \in Seq(T) /\ Len(s \o t) = Len(s) + Len(t)
         /\ \A i \in 1..Len(s) : (s \o t)[i] = s[i]
         /\ \A i \in 1..Len(t) : (s \o t)[Len(s) + i] = t[i]
OBVIOUS

(* Adjacent parts of a sequence join to a part of it.                        *)
LEMMA PartsJoin ==
  ASSUME NEW T, NEW S \in Seq(T), NEW a \in Nat, NEW b \in Nat, NEW c \in Nat,
         a <= b, b <= c, c <= Len(S)
  PROVE  SubSeq(S, a + 1, b) \o SubSeq(S, b + 1, c) = SubSeq(S, a + 1, c)
<1> DEFINE p == SubSeq(S, a + 1, b)
           q == SubSeq(S, b + 1, c)
           r == SubSeq(S, a + 1, c)
<1>1. /\ p \in Seq(T) /\ Len(p) = b - a /\ \A i \in 1..(b - a) : p[i] = S[a + i]
      /\ q \in Seq(T) /\ Len(q) = c - b /\ \A i \in 1..(c - b) : q[i] = S[b + i]
      /\ r \in Seq(T) /\ Len(r) = c - a /\ \A i \in 1..(c - a) : r[i] = S[a + i]
  <2>1. a <= c /\ b <= Len(S)
    OBVIOUS
  <2>2. p \in Seq(T) /\ Len(p) = b - a /\ \A i \in 1..(b - a) : p[i] = S[a + i]
    BY <2>1, PartOf
  <2>3. q \in Seq(T) /\ Len(q) = c - b /\ \A i \in 1..(c - b) : q[i] = S[b + i]
    BY <2>1, PartOf
  <2>4. r \in Seq(T) /\ Len(r) = c - a /\ \A i \in 1..(c - a) : r[i] = S[a + i]
    BY <2>1, PartOf
  <2> HIDE DEF p, q, r
  <2> QED
    BY <2>2, <2>3, <2>4
<1> HIDE DEF p, q, r
<1> DEFINE u == p \o q
<1>2. /\ u \in Seq(T) /\ Len(u) = c - a
      /\ \A i \in 1..(b - a) : u[i] = p[i]
      /\ \A i \in 1..(c - b) : u[(b - a) + i] = q[i]
  <2>1. /\ u \in Seq(T) /\ Len(u) = Len(p) + Len(q)
        /\ \A i \in 1..Len(p) : u[i] = p[i]
        /\ \A i \in 1..Len(q) : u[Len(p) + i] = q[i]
    <3>1. p \in Seq(T) /\ q \in Seq(T)
      BY <1>1
    <3> QED
      BY ONLY <3>1, Joined
  <2> HIDE DEF u
  <2> QED
    BY <1>1, <2>1
<1> HIDE DEF u
<1>3. ASSUME NEW i \in 1..(c - a) PROVE u[i] = r[i]
  <2>1. CASE i <= b - a
    <3>1. i \in 1..(b - a)
      BY <2>1
    <3> QED
      BY <1>1, <1>2, <3>1
  <2>2. CASE i > b - a
    <3> DEFINE j == i - (b - a)
    <3>1. j \in 1..(c - b) /\ i = (b - a) + j /\ b + j = a + i
      BY <2>2
    <3> HIDE DEF j
    <3> QED
      BY <1>1, <1>2, <3>1
  <2>3. i <= b - a \/ i > b - a
    OBVIOUS
  <2> QED
    BY ONLY <2>1, <2>2, <2>3
<1>4. u = r
  BY <1>1, <1>2, <1>3, SameSequence
<1> QED
  BY <1>4 DEF p, q, r, u

(* A part of a part is a part of the whole.                                  *)
LEMMA PartOfPart ==
  ASSUME NEW T, NEW S \in Seq(T), NEW a \in Nat, NEW b \in Nat, a <= b, b <= Len(S),
         NEW c \in Nat, NEW d \in Nat, c <= d, d <= b - a
  PROVE  SubSeq(SubSeq(S, a + 1, b), c + 1, d) = SubSeq(S, (a + c) + 1, a + d)
<1> DEFINE p == SubSeq(S, a + 1, b)
           q == SubSeq(p, c + 1, d)
           r == SubSeq(S, (a + c) + 1, a + d)
<1>1. p \in Seq(T) /\ Len(p) = b - a /\ \A i \in 1..(b - a) : p[i] = S[a + i]
  BY PartOf
<1>2. r \in Seq(T) /\ Len(r) = d - c /\ \A i \in 1..(d - c) : r[i] = S[(a + c) + i]
  <2>1. a + c \in Nat /\ a + d \in Nat /\ a + c <= a + d /\ a + d <= Len(S)
        /\ (a + d) - (a + c) = d - c
    OBVIOUS
  <2> DEFINE x == a + c
             y == a + d
  <2> HIDE DEF x, y
  <2>2. /\ SubSeq(S, x + 1, y) \in Seq(T) /\ Len(SubSeq(S, x + 1, y)) = y - x
        /\ \A i \in 1..(y - x) : SubSeq(S, x + 1, y)[i] = S[x + i]
    BY <2>1, PartOf DEF x, y
  <2> QED
    BY <2>1, <2>2 DEF x, y
<1> HIDE DEF p, r
<1>3. q \in Seq(T) /\ Len(q) = d - c /\ \A i \in 1..(d - c) : q[i] = p[c + i]
  BY <1>1, PartOf
<1> HIDE DEF q
<1>4. ASSUME NEW i \in 1..(d - c) PROVE q[i] = r[i]
  <2>1. c + i \in 1..(b - a) /\ a + (c + i) = (a + c) + i
    OBVIOUS
  <2> QED
    BY <1>1, <1>2, <1>3, <2>1
<1>5. q = r
  BY <1>2, <1>3, <1>4, SameSequence
<1> QED
  BY <1>5 DEF p, q, r

(* Parts of a sequence that has grown at its end.                            *)
LEMMA PartOfLonger ==
  ASSUME NEW T, NEW S \in Seq(T), NEW R \in Seq(T), NEW a \in Nat, NEW b \in Nat,
         a <= b, b <= Len(S)
  PROVE  /\ SubSeq(S \o R, a + 1, b) = SubSeq(S, a + 1, b)
         /\ SubSeq(S \o R, a + 1, Len(S \o R)) = SubSeq(S, a + 1, Len(S)) \o R
<1> DEFINE L == S \o R
<1>0. \A i \in 1..Len(R) : L[Len(S) + i] = R[i]
  BY ONLY S \in Seq(T), R \in Seq(T), Joined
<1>1. L \in Seq(T) /\ Len(L) = Len(S) + Len(R) /\ Len(S) \in Nat /\ Len(R) \in Nat
      /\ \A i \in 1..Len(S) : L[i] = S[i]
  OBVIOUS
<1> HIDE DEF L
<1>2. SubSeq(L, a + 1, b) = SubSeq(S, a + 1, b)
  <2>1. /\ SubSeq(S, a + 1, b) \in Seq(T) /\ Len(SubSeq(S, a + 1, b)) = b - a
        /\ \A i \in 1..(b - a) : SubSeq(S, a + 1, b)[i] = S[a + i]
    BY PartOf
  <2>2. /\ SubSeq(L, a + 1, b) \in Seq(T) /\ Len(SubSeq(L, a + 1, b)) = b - a
        /\ \A i \in 1..(b - a) : SubSeq(L, a + 1, b)[i] = L[a + i]
    <3>1. b <= Len(L)
      BY <1>1
    <3> QED
      BY <1>1, <3>1, PartOf
  <2>3. \A i \in 1..(b - a) : a + i \in 1..Len(S)
    BY <1>1
  <2>4. \A i \in 1..(b - a) : SubSeq(L, a + 1, b)[i] = SubSeq(S, a + 1, b)[i]
    BY <1>1, <2>1, <2>2, <2>3
  <2> QED
    BY <2>1, <2>2, <2>4, SameSequence
<1>3. SubSeq(L, a + 1, Len(L)) = SubSeq(S, a + 1, Len(S)) \o R
  <2> DEFINE p == SubSeq(S, a + 1, Len(S))
             q == SubSeq(L, a + 1, Len(L))
  <2>1. a <= Len(S) /\ a <= Len(L)
    BY <1>1
  <2>2. p \in Seq(T) /\ Len(p) = Len(S) - a /\ \A i \in 1..(Len(S) - a) : p[i] = S[a + i]
    <3>1. Len(S) \in Nat /\ Len(S) <= Len(S)
      OBVIOUS
    <3> QED
      BY <2>1, <3>1, PartOf
  <2>3. q \in Seq(T) /\ Len(q) = Len(L) - a /\ \A i \in 1..(Len(L) - a) : q[i] = L[a + i]
    BY <1>1, <2>1, PartOf
  <2> HIDE DEF p, q
  <2> DEFINE u == p \o R
  <2>4. /\ u \in Seq(T) /\ Len(u) = Len(q)
        /\ \A i \in 1..Len(p) : u[i] = p[i]
        /\ \A i \in 1..Len(R) : u[Len(p) + i] = R[i]
    <3>1. /\ u \in Seq(T) /\ Len(u) = Len(p) + Len(R)
          /\ \A i \in 1..Len(p) : u[i] = p[i]
          /\ \A i \in 1..Len(R) : u[Len(p) + i] = R[i]
      <4>1. p \in Seq(T) /\ R \in Seq(T)
        BY <2>2
      <4> QED
        BY ONLY <4>1, Joined
    <3> HIDE DEF u
    <3> QED
      BY <1>1, <2>1, <2>2, <2>3, <3>1
  <2> HIDE DEF u
  <2>5. ASSUME NEW i \in 1..Len(q) PROVE q[i] = u[i]
    <3>1. CASE i <= Len(p)
      <4>1. i \in 1..Len(p) /\ i \in 1..(Len(S) - a) /\ a + i \in 1..Len(S)
            /\ i \in 1..(Len(L) - a)
        BY <1>1, <2>1, <2>2, <2>3, <3>1
      <4> QED
        BY <1>1, <2>2, <2>3, <2>4, <4>1
    <3>2. CASE i > Len(p)
      <4> DEFINE j == i - Len(p)
      <4>1. j \in 1..Len(R) /\ i = Len(p) + j /\ a + i = Len(S) + j /\ i \in 1..(Len(L) - a)
        BY <1>1, <2>1, <2>2, <2>3, <3>2
      <4> HIDE DEF j
      <4>2. q[i] = L[a + i]
        BY <2>3, <4>1
      <4>3. u[Len(p) + j] = R[j]
        BY <2>4, <4>1
      <4>4. L[Len(S) + j] = R[j]
        BY ONLY <1>0, <4>1
      <4> QED
        BY <4>1, <4>2, <4>3, <4>4
    <3>3. i <= Len(p) \/ i > Len(p)
      BY <2>2
    <3> QED
      BY ONLY <3>1, <3>2, <3>3
  <2>6. q = u
    BY <2>3, <2>4, <2>5, SameSequence
  <2> QED
    BY <2>6 DEF p, q, u
<1> QED
  BY <1>2, <1>3 DEF L

(* The messages of the client, and the tokens of each.                       *)
Message == [kind: Kinds, framing: Framings, cursor: Nat]
AToken == [message: Nat \ {0}, part: {"text", "newline", "head", "length", "blank"}]

Width(framing) ==
  IF framing = "ndjson" THEN 3 ELSE IF framing = "unterminated" THEN 2 ELSE 5

(* The tokens of a message: how many, and which.                             *)
LEMMA TokensAre ==
  ASSUME NEW n \in Nat \ {0}, NEW framing \in Framings
  PROVE  LET t == Tokens(n, framing)
             w == Width(framing)
         IN  /\ t \in Seq(AToken) /\ Len(t) = w /\ w \in 2..5
             /\ framing # "content-length" => t[1] = Token(n, "text") /\ t[2] = Token(n, "text")
             /\ framing = "ndjson" => t[3] = Token(n, "newline")
             /\ framing = "content-length" =>
                  /\ t[1] = Token(n, "head") /\ t[2] = Token(n, "length") /\ t[3] = Token(n, "blank")
                  /\ t[4] = Token(n, "text") /\ t[5] = Token(n, "text")
<1> DEFINE x == Token(n, "text")
           y == Token(n, "newline")
           a == Token(n, "head")
           b == Token(n, "length")
           c == Token(n, "blank")
<1>1. x \in AToken /\ y \in AToken /\ a \in AToken /\ b \in AToken /\ c \in AToken
  BY DEF Token, AToken
<1> HIDE DEF x, y, a, b, c
<1>2. CASE framing = "ndjson"
  <2>1. Tokens(n, framing) = Append(<<x, x>>, y) /\ Width(framing) = 3
    BY <1>2 DEF Tokens, Width, x, y
  <2>2. LET t == Append(<<x, x>>, y) IN
        t \in Seq(AToken) /\ Len(t) = 3 /\ t[1] = x /\ t[2] = x /\ t[3] = y
    BY <1>1
  <2>3. framing # "unterminated" /\ framing # "content-length"
    BY <1>2
  <2> QED
    BY <2>1, <2>2, <2>3 DEF x, y
<1>3. CASE framing = "unterminated"
  <2>1. Tokens(n, framing) = <<x, x>> /\ Width(framing) = 2
    BY <1>3 DEF Tokens, Width, x
  <2>2. LET t == <<x, x>> IN t \in Seq(AToken) /\ Len(t) = 2 /\ t[1] = x /\ t[2] = x
    BY <1>1
  <2>3. framing # "ndjson" /\ framing # "content-length"
    BY <1>3
  <2> QED
    BY <2>1, <2>2, <2>3 DEF x
<1>4. CASE framing = "content-length"
  <2>1. Tokens(n, framing) = <<a, b, c>> \o <<x, x>> /\ Width(framing) = 5
    BY <1>4 DEF Tokens, Width, x, a, b, c
  <2>2. LET t == <<a, b, c>> \o <<x, x>> IN
        t \in Seq(AToken) /\ Len(t) = 5 /\ t[1] = a /\ t[2] = b /\ t[3] = c /\ t[4] = x /\ t[5] = x
    BY <1>1
  <2>3. framing # "ndjson" /\ framing # "unterminated"
    BY <1>4
  <2> DEFINE t == <<a, b, c>> \o <<x, x>>
  <2> HIDE DEF t
  <2>4. Tokens(n, framing) = t /\ Width(framing) = 5 /\ t \in Seq(AToken) /\ Len(t) = 5
        /\ t[1] = a /\ t[2] = b /\ t[3] = c /\ t[4] = x /\ t[5] = x
    BY <2>1, <2>2 DEF t
  <2>5. /\ t[1] = Token(n, "head") /\ t[2] = Token(n, "length") /\ t[3] = Token(n, "blank")
        /\ t[4] = Token(n, "text") /\ t[5] = Token(n, "text")
    BY <2>4 DEF x, a, b, c
  <2> DEFINE T == Tokens(n, framing)
  <2> HIDE DEF T
  <2>6. T = t
    BY <2>4 DEF T
  <2>7. T \in Seq(AToken) /\ Len(T) = Width(framing) /\ Width(framing) \in 2..5
    BY <2>4, <2>6
  <2>8. T[1] = Token(n, "head") /\ T[2] = Token(n, "length") /\ T[3] = Token(n, "blank")
        /\ T[4] = Token(n, "text") /\ T[5] = Token(n, "text")
    BY <2>5, <2>6
  <2> QED
    BY <1>4, <2>3, <2>7, <2>8 DEF T
<1> QED
  BY <1>2, <1>3, <1>4 DEF Framings

(* S is what the client has written; message n begins behind start[n].       *)
Starts(S, start, messages) ==
  /\ S \in Seq(AToken)
  /\ start \in [1..(Len(messages) + 1) -> 0..Len(S)]
  /\ start[1] = 0 /\ start[Len(messages) + 1] = Len(S)
  /\ \A n \in 1..Len(messages) :
       /\ start[n + 1] = start[n] + Width(messages[n].framing)
       /\ \A k \in 1..Width(messages[n].framing) :
            S[start[n] + k] = Tokens(n, messages[n].framing)[k]

Longer(start, messages, size) ==
  [n \in 1..(Len(messages) + 2) |-> IF n = Len(messages) + 2 THEN size ELSE start[n]]

(* Another message lies behind those written before.                         *)
LEMMA OneMoreMessage ==
  ASSUME NEW messages \in Seq(Message), NEW message \in Message, NEW S, NEW start,
         Starts(S, start, messages)
  PROVE  LET R == S \o Tokens(Len(messages) + 1, message.framing) IN
         Starts(R, Longer(start, messages, Len(R)), Append(messages, message))
<1> DEFINE N == Len(messages)
           more == Append(messages, message)
           w == Width(message.framing)
           t == Tokens(N + 1, message.framing)
           R == S \o t
           to == Longer(start, messages, Len(R))
<1>1. N \in Nat /\ more \in Seq(Message) /\ Len(more) = N + 1 /\ more[N + 1] = message
      /\ \A n \in 1..N : more[n] = messages[n]
  OBVIOUS
<1>2. message.framing \in Framings /\ N + 1 \in Nat \ {0}
  BY DEF Message
<1>3. t \in Seq(AToken) /\ Len(t) = w /\ w \in 2..5
  BY <1>2, TokensAre
<1> HIDE DEF t, w, more
<1>4. S \in Seq(AToken) /\ Len(S) \in Nat
  BY DEF Starts
<1>50. \A i \in 1..w : R[Len(S) + i] = t[i]
  <2>1. \A i \in 1..Len(t) : R[Len(S) + i] = t[i]
    <3>1. S \in Seq(AToken) /\ t \in Seq(AToken)
      BY <1>3, <1>4
    <3> QED
      BY ONLY <3>1, Joined
  <2> QED
    BY ONLY <1>3, <2>1
<1>5. R \in Seq(AToken) /\ Len(R) = Len(S) + w
      /\ \A i \in 1..Len(S) : R[i] = S[i]
  BY <1>3, <1>4
<1> HIDE DEF R
<1>6. /\ to \in [1..(N + 2) -> 0..Len(R)] /\ to[N + 2] = Len(R)
      /\ \A n \in 1..(N + 1) : to[n] = start[n] /\ start[n] \in 0..Len(S)
  <2>1. \A n \in 1..(N + 1) : start[n] \in 0..Len(S)
    BY DEF Starts
  <2>2. \A n \in 1..(N + 2) : n = N + 2 \/ n \in 1..(N + 1)
    BY <1>1
  <2>3. Len(R) \in 0..Len(R) /\ 0..Len(S) \subseteq 0..Len(R)
    BY <1>3, <1>4, <1>5
  <2>4. \A n \in 1..(N + 1) : n # N + 2 /\ n \in 1..(N + 2)
    BY <1>1
  <2>5. N + 2 \in 1..(N + 2)
    BY <1>1
  <2> QED
    BY <2>1, <2>2, <2>3, <2>4, <2>5 DEF Longer
<1> HIDE DEF to
<1>7. to[1] = 0 /\ to[Len(more) + 1] = Len(R) /\ to \in [1..(Len(more) + 1) -> 0..Len(R)]
  <2>1. 1 \in 1..(N + 1) /\ start[1] = 0 /\ Len(more) + 1 = N + 2
    BY <1>1 DEF Starts
  <2> QED
    BY <1>6, <2>1
<1>8. ASSUME NEW n \in 1..Len(more)
      PROVE  /\ to[n + 1] = to[n] + Width(more[n].framing)
             /\ \A k \in 1..Width(more[n].framing) :
                  R[to[n] + k] = Tokens(n, more[n].framing)[k]
  <2>1. CASE n \in 1..N
    <3>1. /\ start[n + 1] = start[n] + Width(messages[n].framing)
          /\ \A k \in 1..Width(messages[n].framing) :
               S[start[n] + k] = Tokens(n, messages[n].framing)[k]
      BY <2>1 DEF Starts
    <3>2. n \in 1..(N + 1) /\ n + 1 \in 1..(N + 1)
      BY <1>1, <2>1
    <3>3. to[n] = start[n] /\ to[n + 1] = start[n + 1] /\ start[n] \in 0..Len(S) /\ start[n + 1] \in 0..Len(S)
      BY <1>6, <3>2
    <3>4. Width(messages[n].framing) \in Nat
      BY DEF Width
    <3>5. \A k \in 1..Width(messages[n].framing) : start[n] + k \in 1..Len(S)
      BY <1>4, <3>1, <3>3, <3>4
    <3> QED
      BY <1>1, <1>5, <2>1, <3>1, <3>3, <3>5
  <2>2. CASE n = N + 1
    <3>1. to[N + 1] = Len(S) /\ to[(N + 1) + 1] = Len(S) + w
      <4>1. N + 1 \in 1..(N + 1) /\ (N + 1) + 1 = N + 2 /\ start[N + 1] = Len(S)
        BY <1>1 DEF Starts
      <4> QED
        BY <1>5, <1>6, <4>1
    <3>2. more[N + 1] = message
      BY <1>1
    <3>4. \A k \in 1..w : R[to[N + 1] + k] = t[k]
      <4>1. to[N + 1] = Len(S)
        BY <3>1
      <4> QED
        BY ONLY <1>50, <4>1
    <3>3. to[(N + 1) + 1] = to[N + 1] + w
      BY <3>1
    <3> QED
      BY <2>2, <3>2, <3>3, <3>4 DEF w, t
  <2> QED
    BY <1>1, <2>1, <2>2
<1>9. Starts(R, to, more)
  BY <1>5, <1>7, <1>8 DEF Starts
<1> QED
  BY <1>9 DEF R, to, more, t

(* Before the first message the input is empty.                              *)
LEMMA NothingWritten == Starts(<<>>, [n \in 1..1 |-> 0], <<>>)
BY DEF Starts

(* The written tokens are those that FlattenSeq puts together.               *)
LEMMA StreamIsFlattened ==
  ASSUME NEW messages \in Seq(Message), NEW S, NEW start, Starts(S, start, messages)
  PROVE  S = FlattenSeq([n \in DOMAIN messages |-> Tokens(n, messages[n].framing)])
<1> DEFINE N == Len(messages)
           q == [n \in DOMAIN messages |-> Tokens(n, messages[n].framing)]
<1>1. N \in Nat /\ DOMAIN messages = 1..N /\ Len(q) = N
      /\ \A n \in 1..N : q[n] = Tokens(n, messages[n].framing)
  OBVIOUS
<1>2. S \in Seq(AToken) /\ Len(S) \in Nat /\ start \in [1..(N + 1) -> 0..Len(S)]
      /\ start[1] = 0 /\ start[N + 1] = Len(S)
  BY DEF Starts
<1>3. ASSUME NEW n \in 1..N
      PROVE  /\ start[n] \in 0..Len(S) /\ start[n + 1] \in 0..Len(S) /\ start[n] <= start[n + 1]
             /\ q[n] = SubSeq(S, start[n] + 1, start[n + 1])
  <2> DEFINE t == Tokens(n, messages[n].framing)
             w == Width(messages[n].framing)
  <2>1. n \in Nat \ {0} /\ messages[n].framing \in Framings
    <3>1. messages[n] \in Message
      BY <1>1
    <3> QED
      BY <1>1, <3>1 DEF Message
  <2>2. t \in Seq(AToken) /\ Len(t) = w /\ w \in 2..5
    BY <2>1, TokensAre
  <2>3. start[n + 1] = start[n] + w /\ \A k \in 1..w : S[start[n] + k] = t[k]
    BY DEF Starts
  <2>4. n \in 1..(N + 1) /\ n + 1 \in 1..(N + 1)
    BY <1>1
  <2>5. start[n] \in 0..Len(S) /\ start[n + 1] \in 0..Len(S)
    BY <1>2, <2>4
  <2> HIDE DEF t, w
  <2> DEFINE a == start[n]
             b == start[n + 1]
             p == SubSeq(S, a + 1, b)
  <2>6. a \in Nat /\ b \in Nat /\ a <= b /\ b <= Len(S) /\ b - a = w
    BY <2>2, <2>3, <2>5
  <2>7. \A k \in 1..w : S[a + k] = t[k]
    BY <2>3
  <2> HIDE DEF a, b
  <2>8. p \in Seq(AToken) /\ Len(p) = w /\ \A k \in 1..w : p[k] = S[a + k]
    BY <1>2, <2>6, PartOf
  <2> HIDE DEF p
  <2>9. \A k \in 1..w : p[k] = t[k]
    BY <2>7, <2>8
  <2>10. p = t
    BY <2>2, <2>8, <2>9, SameSequence
  <2> QED
    BY <1>1, <2>5, <2>6, <2>10 DEF t, p, a, b
<1> HIDE DEF q
<1>4. CASE N = 0
  <2>1. q = <<>> /\ S = <<>>
    <3>1. Len(S) = 0
      BY <1>2, <1>4
    <3>2. S = <<>>
      BY <1>2, <3>1
    <3>3. q = <<>>
      BY <1>1, <1>4 DEF q
    <3> QED
      BY <3>2, <3>3
  <2> QED
    BY <1>1, <1>4, <2>1 DEF FlattenSeq, q
<1>5. CASE N # 0
  <2> DEFINE Equation(f) == f = [i \in 1..N |-> IF i = 1 THEN q[i] ELSE f[i - 1] \o q[i]]
             g == [i \in 1..N |-> SubSeq(S, 1, start[i + 1])]
             flatten == CHOOSE f : Equation(f)
  <2>1. Equation(g)
    <3>1. ASSUME NEW i \in 1..N
          PROVE  g[i] = IF i = 1 THEN q[i] ELSE g[i - 1] \o q[i]
      <4>1. CASE i = 1
        <5>0. 1 \in 1..N
          BY <4>1
        <5>1. g[1] = SubSeq(S, 1, start[1 + 1])
          BY <5>0
        <5>2. q[1] = SubSeq(S, start[1] + 1, start[1 + 1])
          BY <1>3, <4>1
        <5>3. start[1] + 1 = 1
          BY <1>2
        <5> HIDE DEF g
        <5>4. g[1] = q[1]
          BY <5>1, <5>2, <5>3
        <5> QED
          BY <4>1, <5>4
      <4>2. CASE i # 1
        <5> DEFINE a == start[i]
                   b == start[i + 1]
        <5>1. i - 1 \in 1..N /\ (i - 1) + 1 = i
          BY <4>2
        <5>2. g[i - 1] = SubSeq(S, 1, a) /\ g[i] = SubSeq(S, 1, b) /\ q[i] = SubSeq(S, a + 1, b)
          BY <1>3, <5>1
        <5>3. a \in Nat /\ b \in Nat /\ a <= b /\ b <= Len(S)
          BY <1>3
        <5> HIDE DEF a, b, g
        <5>4. SubSeq(S, 0 + 1, a) \o SubSeq(S, a + 1, b) = SubSeq(S, 0 + 1, b)
          BY <1>2, <5>3, PartsJoin
        <5>5. 0 + 1 = 1
          OBVIOUS
        <5> QED
          BY <4>2, <5>2, <5>4, <5>5
      <4> QED
        BY <4>1, <4>2
    <3> QED
      BY <3>1
  <2>2. Equation(flatten)
    <3> HIDE DEF Equation, g
    <3> QED
      BY <2>1
  <2>3. FlattenSeq(q) = flatten[N]
    BY <1>1, <1>5 DEF FlattenSeq
  <2> HIDE DEF flatten, g
  <2> DEFINE T == {n \in Nat : n + 1 <= N => flatten[n + 1] = SubSeq(S, 1, start[(n + 1) + 1])}
  <2>4. \A i \in 1..N : /\ flatten[i] = IF i = 1 THEN q[i] ELSE flatten[i - 1] \o q[i]
                        /\ g[i] = IF i = 1 THEN q[i] ELSE g[i - 1] \o q[i]
    BY <2>1, <2>2
  <2> HIDE DEF Equation
  <2>5. \A i \in 1..N : g[i] = SubSeq(S, 1, start[i + 1])
    BY DEF g
  <2>6. Nat \subseteq T
    <3>1. 0 \in T
      <4>1. 1 \in 1..N
        BY <1>1, <1>5
      <4>2. flatten[1] = g[1]
        BY <2>4, <4>1
      <4> QED
        BY <2>5, <4>1, <4>2
    <3>2. ASSUME NEW n \in Nat, n \in T PROVE n + 1 \in T
      <4> SUFFICES ASSUME (n + 1) + 1 <= N
                   PROVE  flatten[(n + 1) + 1] = SubSeq(S, 1, start[((n + 1) + 1) + 1])
        OBVIOUS
      <4> DEFINE i == (n + 1) + 1
      <4>1. i \in 1..N /\ i # 1 /\ i - 1 = n + 1 /\ n + 1 \in 1..N
        BY <1>1
      <4>2. flatten[n + 1] = g[n + 1]
        <5>1. n + 1 <= N
          BY <4>1
        <5>2. flatten[n + 1] = SubSeq(S, 1, start[(n + 1) + 1])
          BY <3>2, <5>1
        <5> QED
          BY <2>5, <4>1, <5>2
      <4> HIDE DEF i
      <4>3. flatten[i] = g[i]
        BY <2>4, <4>1, <4>2
      <4> QED
        BY <2>5, <4>1, <4>3 DEF i
    <3> HIDE DEF T
    <3> QED
      BY <3>1, <3>2, Summing!Induction
  <2>7. flatten[N] = SubSeq(S, 1, Len(S))
    <3>1. N - 1 \in Nat /\ (N - 1) + 1 = N
      BY <1>1, <1>5
    <3>2. N - 1 \in T
      BY <2>6, <3>1
    <3>3. flatten[(N - 1) + 1] = SubSeq(S, 1, start[((N - 1) + 1) + 1])
      BY <1>1, <3>1, <3>2
    <3> QED
      BY <1>2, <3>1, <3>3
  <2>8. SubSeq(S, 1, Len(S)) = S
    BY <1>2
  <2> QED
    BY <2>3, <2>7, <2>8 DEF q
<1> QED
  BY <1>4, <1>5

----------------------------------------------------------------------------
\* The parser

Texts(n) == <<Token(n, "text"), Token(n, "text")>>
Framed(framing) == IF framing = "content-length" THEN "content-length" ELSE "ndjson"

(* Where a message lies in the input.                                        *)
LEMMA MessagePlace ==
  ASSUME NEW messages \in Seq(Message), NEW S, NEW start, Starts(S, start, messages),
         NEW n \in 1..Len(messages)
  PROVE  /\ messages[n].framing \in Framings /\ n \in Nat \ {0}
         /\ Width(messages[n].framing) \in 2..5
         /\ start[n] \in Nat /\ start[n + 1] \in Nat /\ start[n + 1] <= Len(S)
         /\ start[n + 1] = start[n] + Width(messages[n].framing)
<1>1. messages[n] \in Message /\ n \in Nat \ {0} /\ Len(messages) \in Nat
  OBVIOUS
<1>2. messages[n].framing \in Framings
  BY <1>1 DEF Message
<1>3. Width(messages[n].framing) \in 2..5
  BY <1>1, <1>2, TokensAre
<1>4. n \in 1..(Len(messages) + 1) /\ n + 1 \in 1..(Len(messages) + 1)
  BY <1>1
<1>5. start \in [1..(Len(messages) + 1) -> 0..Len(S)] /\ S \in Seq(AToken)
      /\ start[n + 1] = start[n] + Width(messages[n].framing)
  BY DEF Starts
<1>6. start[n] \in 0..Len(S) /\ start[n + 1] \in 0..Len(S)
  BY <1>4, <1>5
<1> QED
  BY <1>1, <1>2, <1>3, <1>5, <1>6

(* A part of two elements.                                                   *)
LEMMA TwoOf ==
  ASSUME NEW T, NEW S \in Seq(T), NEW a \in Nat, a + 2 <= Len(S)
  PROVE  SubSeq(S, a + 1, a + 2) = <<S[a + 1], S[a + 2]>>
<1> DEFINE p == SubSeq(S, a + 1, a + 2)
           x == S[a + 1]
           y == S[a + 2]
<1>1. x \in T /\ y \in T
  OBVIOUS
<1>2. p \in Seq(T) /\ Len(p) = 2 /\ \A i \in 1..2 : p[i] = S[a + i]
  <2> DEFINE b == a + 2
  <2>1. b \in Nat /\ a <= b /\ b <= Len(S) /\ b - a = 2
    OBVIOUS
  <2> HIDE DEF b
  <2>2. SubSeq(S, a + 1, b) \in Seq(T) /\ Len(SubSeq(S, a + 1, b)) = b - a
        /\ \A i \in 1..(b - a) : SubSeq(S, a + 1, b)[i] = S[a + i]
    BY <2>1, PartOf
  <2> QED
    BY <2>1, <2>2 DEF b
<1> HIDE DEF p
<1>3. p[1] = x /\ p[2] = y
  BY <1>2
<1> HIDE DEF x, y
<1>4. p = <<x, y>>
  BY <1>1, <1>2, <1>3
<1> QED
  BY <1>4 DEF p, x, y

(* What the buffer holds of the message at its front.                        *)
BeginsWith(held, n, framing) ==
  /\ held \in Seq(AToken)
  /\ \A k \in 1..Len(held) : k <= Width(framing) => held[k] = Tokens(n, framing)[k]

(* A buffer that starts where a message starts holds the tokens of that      *)
(* message.                                                                  *)
LEMMA HeldTokens ==
  ASSUME NEW messages \in Seq(Message), NEW S, NEW start, Starts(S, start, messages),
         NEW n \in 1..Len(messages), NEW c \in Nat, start[n] <= c, c <= Len(S)
  PROVE  LET held == SubSeq(S, start[n] + 1, c) IN
         BeginsWith(held, n, messages[n].framing) /\ Len(held) = c - start[n]
<1> DEFINE a == start[n]
           w == Width(messages[n].framing)
           t == Tokens(n, messages[n].framing)
           held == SubSeq(S, a + 1, c)
<1>1. a \in Nat /\ w \in 2..5 /\ S \in Seq(AToken)
  BY MessagePlace DEF Starts
<1>2. \A k \in 1..w : S[a + k] = t[k]
  BY DEF Starts
<1>3. a <= c
  OBVIOUS
<1> HIDE DEF a, t, w
<1>4. held \in Seq(AToken) /\ Len(held) = c - a /\ \A k \in 1..(c - a) : held[k] = S[a + k]
  BY <1>1, <1>3, PartOf
<1> HIDE DEF held
<1>5. ASSUME NEW k \in 1..Len(held), k <= w PROVE held[k] = t[k]
  <2>1. k \in 1..(c - a) /\ k \in 1..w
    BY <1>1, <1>3, <1>4, <1>5
  <2> QED
    BY <1>2, <1>4, <2>1
<1> QED
  BY <1>4, <1>5 DEF BeginsWith, held, a, t, w

(* An empty buffer holds no frame.                                           *)
LEMMA NoFrameInNothing ==
  ASSUME buffer = <<>>
  PROVE  Frame.size = 0
<1>1. ~HeaderFirst
  BY DEF HeaderFirst
<1>2. {i \in 1..Len(buffer) : buffer[i].part = "newline"} = {}
  OBVIOUS
<1> QED
  BY <1>1, <1>2 DEF Frame, SelectInSeq

(* The place of the first newline in the buffer.                             *)
Newlines == {i \in 1..Len(buffer) : buffer[i].part = "newline"}
(* Without a header in front, the frame is the first line.                   *)
LEMMA LineFrame ==
  ASSUME ~HeaderFirst, NEW size, size = IF Newlines # {} THEN Min(Newlines) ELSE 0
  PROVE  Frame = [size |-> size, body |-> SubSeq(buffer, 1, size - 1), framing |-> "ndjson"]
<1>1. SelectInSeq(buffer, LAMBDA token : token.part = "newline") = size
  BY DEF SelectInSeq, Newlines
<1> QED
  BY <1>1 DEF Frame

(* The frame at the front of the buffer is the message there, once all of it *)
(* has arrived, and nothing before that.                                     *)
LEMMA FrameOfMessage ==
  ASSUME NEW n \in Nat \ {0}, NEW framing \in Framings, BeginsWith(buffer, n, framing)
  PROVE  /\ Len(buffer) < Width(framing) => Frame.size = 0
         /\ framing = "unterminated" /\ Len(buffer) = 2 => Frame.size = 0
         /\ framing # "unterminated" /\ Len(buffer) >= Width(framing) =>
              /\ Frame.size = Width(framing)
              /\ Frame.body = Texts(n) /\ Frame.framing = Framed(framing)
<1>1. buffer \in Seq(AToken) /\ Len(buffer) \in Nat /\ DOMAIN buffer = 1..Len(buffer)
  BY DEF BeginsWith
<1>2. \A k \in 1..Len(buffer) : k <= Width(framing) => buffer[k] = Tokens(n, framing)[k]
  BY DEF BeginsWith
<1>3. /\ Token(n, "text").part = "text" /\ Token(n, "newline").part = "newline"
      /\ Token(n, "head").part = "head" /\ Token(n, "length").part = "length"
      /\ Token(n, "blank").part = "blank"
  BY DEF Token
<1>4. CASE framing # "content-length"
  <2>1. Tokens(n, framing)[1] = Token(n, "text") /\ Tokens(n, framing)[2] = Token(n, "text")
    BY <1>4, TokensAre
  <2>2. Width(framing) \in 2..5
    BY TokensAre
  <2>3. Len(buffer) >= 1 => buffer[1] = Token(n, "text")
    BY <1>1, <1>2, <2>1, <2>2
  <2>4. Len(buffer) >= 2 => buffer[2] = Token(n, "text")
    BY <1>1, <1>2, <2>1, <2>2
  <2>5. ~HeaderFirst
    BY <1>1, <1>3, <2>3 DEF HeaderFirst
  <2>6. 1 \notin Newlines /\ 2 \notin Newlines /\ Newlines \subseteq 1..Len(buffer)
    BY <1>1, <1>3, <2>3, <2>4 DEF Newlines
  <2>7. CASE Len(buffer) <= 2
    <3>1. Newlines = {}
      BY <1>1, <2>6, <2>7
    <3>2. Frame.size = 0
      BY <2>5, <3>1, LineFrame
    <3>3. framing = "ndjson" => Width(framing) = 3
      BY DEF Width
    <3>4. framing = "ndjson" \/ framing = "unterminated"
      BY <1>4 DEF Framings
    <3> QED
      BY <1>1, <2>7, <3>2, <3>3, <3>4
  <2>8. CASE Len(buffer) > 2 /\ framing = "ndjson"
    <3>1. Width(framing) = 3 /\ Tokens(n, framing)[3] = Token(n, "newline")
      BY <2>8, TokensAre DEF Width
    <3>2. 3 \in Newlines /\ Newlines \in SUBSET Nat
      BY <1>1, <1>2, <1>3, <2>8, <3>1 DEF Newlines
    <3>3. Min(Newlines) = 3
      <4>1. Min(Newlines) \in Newlines /\ Min(Newlines) <= 3
        BY <3>2, MinChosen
      <4> DEFINE m == Min(Newlines)
      <4>2. m \in 1..Len(buffer) /\ m <= 3 /\ m # 1 /\ m # 2
        BY <2>6, <4>1
      <4> HIDE DEF m
      <4>3. m = 3
        BY <1>1, <4>2
      <4> QED
        BY <4>3 DEF m
    <3>4. Frame = [size |-> 3, body |-> SubSeq(buffer, 1, 2), framing |-> "ndjson"]
      <4>1. Frame = [size |-> 3, body |-> SubSeq(buffer, 1, 3 - 1), framing |-> "ndjson"]
        BY <2>5, <3>2, <3>3, LineFrame
      <4>2. 3 - 1 = 2
        OBVIOUS
      <4> QED
        BY ONLY <4>1, <4>2
    <3>5. SubSeq(buffer, 1, 2) = Texts(n)
      <4>1. Len(buffer) >= 2 /\ buffer[1] = Token(n, "text") /\ buffer[2] = Token(n, "text")
        BY <1>1, <2>3, <2>4, <2>8
      <4>2. SubSeq(buffer, 0 + 1, 0 + 2) = <<buffer[0 + 1], buffer[0 + 2]>>
        <5>1. 0 + 2 <= Len(buffer)
          BY <1>1, <4>1
        <5> QED
          BY <1>1, <5>1, TwoOf
      <4> QED
        BY <4>1, <4>2 DEF Texts
    <3>6. Framed(framing) = "ndjson"
      BY <2>8 DEF Framed
    <3> QED
      BY <1>1, <2>8, <3>1, <3>4, <3>5, <3>6
  <2>9. CASE Len(buffer) > 2 /\ framing # "ndjson"
    <3>1. framing = "unterminated" /\ Width(framing) = 2
      BY <1>4, <2>9 DEF Framings, Width
    <3> QED
      BY <1>1, <2>9, <3>1
  <2> QED
    BY <1>1, <2>7, <2>8, <2>9
<1>5. CASE framing = "content-length"
  <2>1. /\ Tokens(n, framing)[1] = Token(n, "head") /\ Tokens(n, framing)[2] = Token(n, "length")
        /\ Tokens(n, framing)[4] = Token(n, "text") /\ Tokens(n, framing)[5] = Token(n, "text")
    BY <1>5, TokensAre
  <2>2. Width(framing) = 5 /\ framing # "unterminated" /\ Framed(framing) = "content-length"
    BY <1>5 DEF Width, Framed
  <2>3. CASE Len(buffer) <= 1
    <3>1. ~HeaderFirst
      BY <1>1, <2>3 DEF HeaderFirst
    <3>2. Newlines = {}
      <4> SUFFICES ASSUME NEW i \in 1..Len(buffer), buffer[i].part = "newline" PROVE FALSE
        BY DEF Newlines
      <4>1. i = 1 /\ 1 \in 1..Len(buffer)
        BY <1>1, <2>3
      <4>2. buffer[1] = Token(n, "head")
        BY <1>2, <2>1, <2>2, <4>1
      <4> QED
        BY <1>3, <4>1, <4>2
    <3>3. Frame.size = 0
      BY <3>1, <3>2, LineFrame
    <3> QED
      BY <1>1, <2>2, <2>3, <3>3
  <2>4. CASE Len(buffer) > 1 /\ Len(buffer) < 5
    <3>1. buffer[1] = Token(n, "head") /\ buffer[2] = Token(n, "length")
      BY <1>1, <1>2, <2>1, <2>2, <2>4
    <3>2. HeaderFirst /\ ~Arrived
      BY <1>1, <1>3, <2>4, <3>1 DEF HeaderFirst, Arrived
    <3>3. Frame.size = 0
      BY <3>2 DEF Frame, NoFrame
    <3> QED
      BY <1>1, <2>2, <2>4, <3>3
  <2>5. CASE Len(buffer) >= 5
    <3>1. buffer[1] = Token(n, "head") /\ buffer[2] = Token(n, "length")
          /\ buffer[4] = Token(n, "text") /\ buffer[5] = Token(n, "text")
      BY <1>1, <1>2, <2>1, <2>2, <2>5
    <3>2. HeaderFirst /\ Arrived
      BY <1>1, <1>3, <2>5, <3>1 DEF HeaderFirst, Arrived
    <3>3. Min({5, Len(buffer)}) = 5
      <4>1. {5, Len(buffer)} \in SUBSET Nat /\ {5, Len(buffer)} # {}
        BY <1>1
      <4>2. Min({5, Len(buffer)}) \in {5, Len(buffer)} /\ Min({5, Len(buffer)}) <= 5
        BY <4>1, MinChosen
      <4> QED
        BY <1>1, <2>5, <4>2
    <3>4. Frame = [size |-> 5, body |-> SubSeq(buffer, 4, 5), framing |-> "content-length"]
      BY <3>2, <3>3 DEF Frame
    <3>5. SubSeq(buffer, 4, 5) = Texts(n)
      <4>1. SubSeq(buffer, 3 + 1, 3 + 2) = <<buffer[3 + 1], buffer[3 + 2]>>
        <5>1. 3 + 2 <= Len(buffer)
          BY <1>1, <2>5
        <5> QED
          BY <1>1, <5>1, TwoOf
      <4> QED
        BY <3>1, <4>1 DEF Texts
    <3> QED
      BY <1>1, <2>2, <2>5, <3>4, <3>5
  <2> QED
    BY <1>1, <2>3, <2>4, <2>5
<1> QED
  BY <1>4, <1>5

(* JSON.parse accepts the body of a message, unless it is not JSON.          *)
LEMMA ParsedTexts ==
  ASSUME sent \in Seq(Message), NEW n \in DOMAIN sent
  PROVE  Parsed(Texts(n)) = IF sent[n].kind = "not JSON" THEN {} ELSE {n}
<1>1. ASSUME NEW k, Texts(n) = <<Token(k, "text"), Token(k, "text")>> PROVE k = n
  <2>1. Token(n, "text") = Token(k, "text")
    BY <1>1 DEF Texts
  <2> QED
    BY <2>1 DEF Token
<1> QED
  BY <1>1 DEF Parsed, Texts

(* What is left of the buffer at the end, without newlines.                  *)
LEMMA RemainingOfNothing == ASSUME buffer = <<>> PROVE Remaining = <<>>
<1>1. <<>> \in Seq(AToken) /\ Len(<<>>) = 0
  OBVIOUS
<1>2. PICK after : Keeping!Loop(after, <<>>, <<>>) /\ FoldLeft(KeepText, <<>>, <<>>) = after[Len(<<>>)]
  BY <1>1, KeepingLoop
<1> QED
  BY <1>1, <1>2 DEF Keeping!Loop, Remaining

(* A last message without a newline is kept as it is.                        *)
LEMMA RemainingOfTexts == ASSUME NEW n \in Nat \ {0}, buffer = Texts(n) PROVE Remaining = Texts(n)
<1> DEFINE x == Token(n, "text")
<1>1. x \in AToken /\ x.part # "newline"
  BY DEF Token, AToken
<1> HIDE DEF x
<1>2. buffer \in Seq(AToken) /\ Len(buffer) = 2 /\ buffer[1] = x /\ buffer[2] = x /\ buffer = <<x, x>>
  BY <1>1 DEF Texts, x
<1>3. PICK after : Keeping!Loop(after, <<>>, buffer) /\ FoldLeft(KeepText, <<>>, buffer) = after[Len(buffer)]
  BY <1>2, KeepingLoop
<1>4. after[0] = <<>> /\ after[1] = KeepText(after[1 - 1], buffer[1])
      /\ after[2] = KeepText(after[2 - 1], buffer[2])
  BY <1>2, <1>3 DEF Keeping!Loop
<1>5. after[1] = KeepText(<<>>, x) /\ after[2] = KeepText(after[1], x)
  BY <1>2, <1>4
<1>6. after[1] = Append(<<>>, x) /\ after[2] = Append(after[1], x)
  BY <1>1, <1>5 DEF KeepText
<1>7. after[2] = <<x, x>>
  <2>1. after[1] = <<x>>
    BY <1>6
  <2>2. after[2] = Append(<<x>>, x)
    BY ONLY <1>6, <2>1
  <2> DEFINE u == Append(<<x>>, x)
  <2>3. u \in Seq(AToken) /\ Len(u) = 2 /\ u[1] = x /\ u[2] = x
    BY <1>1
  <2> HIDE DEF u
  <2>4. u = <<x, x>>
    BY <1>1, <2>3
  <2> QED
    BY <2>2, <2>4 DEF u
<1> QED
  BY <1>2, <1>3, <1>7 DEF Remaining, Texts, x

(* What is left at the end starts with the first token of the buffer, unless *)
(* that is a newline.                                                        *)
LEMMA RemainingKeepsFirst ==
  ASSUME buffer \in Seq(AToken), Len(buffer) >= 1, buffer[1].part # "newline"
  PROVE  Remaining # <<>> /\ Remaining[1] = buffer[1]
<1>1. PICK after : Keeping!Loop(after, <<>>, buffer) /\ FoldLeft(KeepText, <<>>, buffer) = after[Len(buffer)]
  BY KeepingLoop
<1>2. after[0] = <<>> /\ \A n \in 1..Len(buffer) : after[n] = KeepText(after[n - 1], buffer[n])
  BY <1>1 DEF Keeping!Loop
<1>3. Len(buffer) \in Nat /\ \A n \in 1..Len(buffer) : buffer[n] \in AToken
  OBVIOUS
<1> DEFINE Kept(s) == s \in Seq(AToken) /\ Len(s) >= 1 /\ s[1] = buffer[1]
           S == {n \in Nat : n + 1 <= Len(buffer) => Kept(after[n + 1])}
<1>4. 0 \in S
  <2> DEFINE x == buffer[1]
  <2>1. 1 \in 1..Len(buffer) /\ 1 - 1 = 0 /\ x \in AToken
    BY <1>3
  <2>2. after[1] = KeepText(<<>>, x)
    BY <1>2, <2>1
  <2>3. after[1] = Append(<<>>, x)
    BY <2>2 DEF KeepText
  <2> HIDE DEF x
  <2>4. after[1] \in Seq(AToken) /\ Len(after[1]) >= 1 /\ after[1][1] = x
    BY <2>1, <2>3
  <2>5. Kept(after[1])
    BY <2>4 DEF x
  <2> HIDE DEF Kept
  <2> QED
    BY <2>5
<1>5. ASSUME NEW n \in Nat, n \in S PROVE n + 1 \in S
  <2> SUFFICES ASSUME (n + 1) + 1 <= Len(buffer) PROVE Kept(after[(n + 1) + 1])
    OBVIOUS
  <2> DEFINE i == (n + 1) + 1
             s == after[n + 1]
             x == buffer[i]
  <2>1. i \in 1..Len(buffer) /\ i - 1 = n + 1 /\ n + 1 <= Len(buffer) /\ x \in AToken
    BY <1>3
  <2>2. Kept(s)
    BY <2>1, <1>5
  <2>3. after[i] = KeepText(s, x)
    BY <1>2, <2>1
  <2> HIDE DEF i, s, x
  <2>4. after[i] = s \/ after[i] = Append(s, x)
    BY <2>3 DEF KeepText
  <2>5. Kept(Append(s, x))
    <3>1. s \in Seq(AToken) /\ Len(s) >= 1 /\ s[1] = buffer[1]
      BY <2>2
    <3> DEFINE more == Append(s, x)
    <3>2. more \in Seq(AToken) /\ Len(more) = Len(s) + 1 /\ Len(s) \in Nat
          /\ \A k \in 1..Len(s) : more[k] = s[k]
      BY <2>1, <3>1
    <3> HIDE DEF more
    <3>3. more \in Seq(AToken) /\ Len(more) >= 1 /\ more[1] = buffer[1]
      BY <3>1, <3>2
    <3> QED
      BY <3>3 DEF more
  <2> HIDE DEF Kept
  <2> QED
    BY <2>2, <2>4, <2>5 DEF i
<1>6. Nat \subseteq S
  <2> HIDE DEF S
  <2> QED
    BY <1>4, <1>5, Summing!Induction
<1>7. Kept(after[Len(buffer)])
  <2>1. Len(buffer) - 1 \in Nat /\ (Len(buffer) - 1) + 1 = Len(buffer)
    BY <1>3
  <2>2. Len(buffer) - 1 \in S
    BY <1>6, <2>1
  <2> HIDE DEF Kept
  <2>3. Kept(after[(Len(buffer) - 1) + 1])
    BY <1>3, <2>1, <2>2
  <2> QED
    BY <2>1, <2>3
<1>8. Kept(Remaining)
  <2> HIDE DEF Kept
  <2> QED
    BY <1>1, <1>7 DEF Remaining
<1> QED
  BY <1>8

----------------------------------------------------------------------------
\* The invariant of the input

(* A push is a piece of the input, or its end.                               *)
Pieces == Seq(AToken) \cup {End}

(* The buffer, the pushes and the pipe hold, one behind the other, what was  *)
(* written from one place on; cut says where each ends.                      *)
Finished(end) == end = "seen closed"
InTransit(S, from, cut, held, pushes, rest, end) ==
  /\ cut \in [0..Len(pushes) -> 0..Len(S)]
  /\ from <= cut[0] /\ held = SubSeq(S, from + 1, cut[0])
  /\ \A i \in 1..Len(pushes) :
       /\ cut[i - 1] <= cut[i]
       /\ IF Finished(end) /\ i = Len(pushes) THEN pushes[i] = End
          ELSE pushes[i] = SubSeq(S, cut[i - 1] + 1, cut[i])
  /\ rest = SubSeq(S, cut[Len(pushes)] + 1, Len(S))
  /\ Finished(end) => pushes # <<>> /\ cut[Len(pushes) - 1] = Len(S)

(* A message that has arrived has been taken out of the buffer, unless the   *)
(* server has failed or is about to take it.                                 *)
Waiting(start, m, got) ==
  server.phase = "idle" /\ ~failed =>
    \/ m = Len(sent) + 1 \/ got < start[m + 1]
    \/ sent[m].framing = "unterminated"

Over == closed = "seen closed" /\ chunks = <<>> /\ wire = <<>> /\ buffer = <<>>

(* The parser stands before message m: it has served those before it.        *)
Before(m) == IF server.phase = "serving" THEN m - 1 ELSE m
Served(m) ==
  /\ server.phase = "serving" =>
       /\ server.message = m - 1 /\ m - 1 \in DOMAIN sent
       /\ sent[m - 1].kind # "not JSON"
       /\ server.framing = Framed(sent[m - 1].framing)
  /\ Answered = {n \in 1..(Before(m) - 1) : IsRequest(n)}

Stream(S, start) ==
  /\ Starts(S, start, sent)
  /\ \E m \in 1..(Len(sent) + 1) :
       /\ Served(m)
       /\ \/ Over
          \/ \E cut : /\ InTransit(S, start[m], cut, buffer, chunks, wire, closed)
                      /\ Waiting(start, m, cut[0])

Misunderstood == \E n \in DOMAIN sent : sent[n].kind \in {"unknown notification", "not JSON"}

SentInv ==
  /\ sent \in Seq(Message) /\ Len(sent) <= host.messages
  /\ \A n \in DOMAIN sent : sent[n].framing = "unterminated" => n = Len(sent)
  /\ closed \in {"open", "closed", "seen closed"} /\ chunks \in Seq(Pieces)
  /\ server = [phase |-> server.phase, message |-> server.message, framing |-> server.framing]
  /\ server.phase \in {"idle", "parsing", "serving"}
  /\ server.phase # "idle" => Len(buffer) <= MaxInput
  /\ failed \in BOOLEAN

StreamInv == \E S, start : Stream(S, start) /\ (failed => Misunderstood \/ Len(S) > MaxInput)

(* How the pieces in transit change.                                         *)
LEMMA PieceIsNotEnd == ASSUME NEW s \in Seq(AToken) PROVE s # End
<1> SUFFICES ASSUME s = End PROVE FALSE
  OBVIOUS
<1>1. Len(End) = 1 /\ End[1] = Token(0, "end")
  BY DEF End
<1>2. 1 \in DOMAIN s /\ s[1] = Token(0, "end")
  BY <1>1
<1>3. s[1] \in AToken
  BY <1>2
<1> QED
  BY <1>2, <1>3 DEF AToken, Token

Placed(S, from, cut, held, pushes, rest) ==
  /\ Len(S) \in Nat /\ Len(pushes) \in Nat /\ DOMAIN pushes = 1..Len(pushes)
  /\ \A i \in 0..Len(pushes) : cut[i] \in Nat /\ cut[i] <= Len(S)
  /\ from <= cut[0] /\ from <= Len(S)
  /\ held \in Seq(AToken) /\ Len(held) = cut[0] - from
  /\ rest \in Seq(AToken) /\ Len(rest) = Len(S) - cut[Len(pushes)]

(* The cuts are places in the input, in order.                               *)
LEMMA TransitPlaces ==
  ASSUME NEW S \in Seq(AToken), NEW from \in Nat, NEW cut, NEW held, NEW pushes \in Seq(Pieces),
         NEW rest, NEW end, InTransit(S, from, cut, held, pushes, rest, end)
  PROVE  Placed(S, from, cut, held, pushes, rest)
<1>1. Len(S) \in Nat /\ Len(pushes) \in Nat /\ DOMAIN pushes = 1..Len(pushes)
  OBVIOUS
<1>2. \A i \in 0..Len(pushes) : cut[i] \in 0..Len(S)
  BY DEF InTransit
<1>3. from <= cut[0] /\ held = SubSeq(S, from + 1, cut[0])
      /\ rest = SubSeq(S, cut[Len(pushes)] + 1, Len(S))
  BY DEF InTransit
<1>4. 0 \in 0..Len(pushes) /\ Len(pushes) \in 0..Len(pushes)
  BY <1>1
<1> DEFINE a == cut[0]
           b == cut[Len(pushes)]
<1>5. a \in Nat /\ a <= Len(S) /\ b \in Nat /\ b <= Len(S)
  BY <1>1, <1>2, <1>4
<1> HIDE DEF a, b
<1>6. from <= a /\ held = SubSeq(S, from + 1, a) /\ rest = SubSeq(S, b + 1, Len(S))
  BY <1>3 DEF a, b
<1>7. held \in Seq(AToken) /\ Len(held) = a - from
  BY <1>5, <1>6, PartOf
<1>8. rest \in Seq(AToken) /\ Len(rest) = Len(S) - b
  <2>1. Len(S) <= Len(S)
    BY <1>1
  <2> QED
    BY <1>1, <1>5, <1>6, <2>1, PartOf
<1>9. \A i \in 0..Len(pushes) : cut[i] \in Nat /\ cut[i] <= Len(S)
  BY <1>1, <1>2
<1>10. from <= Len(S)
  BY <1>1, <1>5, <1>6
<1> QED
  BY <1>1, <1>3, <1>7, <1>8, <1>9, <1>10 DEF a, b, Placed

(* The client writes: the pipe holds more.                                   *)
LEMMA TransitWrite ==
  ASSUME NEW S \in Seq(AToken), NEW from \in Nat, NEW cut, NEW held, NEW pushes \in Seq(Pieces),
         NEW rest, NEW end, InTransit(S, from, cut, held, pushes, rest, end),
         ~Finished(end), NEW R \in Seq(AToken)
  PROVE  InTransit(S \o R, from, cut, held, pushes, rest \o R, end)
<1> DEFINE L == S \o R
<1>1. L \in Seq(AToken) /\ Len(L) = Len(S) + Len(R) /\ Len(S) \in Nat /\ Len(R) \in Nat
  OBVIOUS
<1>2. /\ Len(pushes) \in Nat
      /\ \A i \in 0..Len(pushes) : cut[i] \in Nat /\ cut[i] <= Len(S)
      /\ from <= cut[0]
  BY TransitPlaces DEF Placed
<1>3. /\ cut \in [0..Len(pushes) -> 0..Len(S)]
      /\ held = SubSeq(S, from + 1, cut[0])
      /\ rest = SubSeq(S, cut[Len(pushes)] + 1, Len(S))
      /\ \A i \in 1..Len(pushes) : cut[i - 1] <= cut[i] /\ pushes[i] = SubSeq(S, cut[i - 1] + 1, cut[i])
  BY DEF InTransit
<1>4. \A a, b \in Nat : a <= b /\ b <= Len(S) => SubSeq(L, a + 1, b) = SubSeq(S, a + 1, b)
  BY PartOfLonger
<1>5. \A a \in Nat : a <= Len(S) => SubSeq(L, a + 1, Len(L)) = SubSeq(S, a + 1, Len(S)) \o R
  <2> SUFFICES ASSUME NEW a \in Nat, a <= Len(S)
               PROVE  SubSeq(L, a + 1, Len(L)) = SubSeq(S, a + 1, Len(S)) \o R
    OBVIOUS
  <2>1. Len(S) <= Len(S)
    BY <1>1
  <2> QED
    BY <1>1, <2>1, PartOfLonger
<1> HIDE DEF L
<1>6. cut \in [0..Len(pushes) -> 0..Len(L)]
  <2>1. 0..Len(S) \subseteq 0..Len(L)
    BY <1>1
  <2> QED
    BY <1>3, <2>1
<1>7. held = SubSeq(L, from + 1, cut[0])
  <2>1. 0 \in 0..Len(pushes)
    BY <1>2
  <2> QED
    BY <1>2, <1>3, <1>4, <2>1
<1>8. rest \o R = SubSeq(L, cut[Len(pushes)] + 1, Len(L))
  <2>1. Len(pushes) \in 0..Len(pushes)
    BY <1>2
  <2> QED
    BY <1>2, <1>3, <1>5, <2>1
<1>9. ASSUME NEW i \in 1..Len(pushes)
      PROVE  cut[i - 1] <= cut[i] /\ pushes[i] = SubSeq(L, cut[i - 1] + 1, cut[i])
  <2>1. i \in 0..Len(pushes) /\ i - 1 \in 0..Len(pushes)
    BY <1>2
  <2> QED
    BY <1>2, <1>3, <1>4, <2>1
<1> QED
  BY <1>2, <1>6, <1>7, <1>8, <1>9 DEF InTransit, L

(* One more place.                                                           *)
Further(cut, n, place) == [i \in 0..(n + 1) |-> IF i = n + 1 THEN place ELSE cut[i]]

Extends(more, cut, n, N, place) ==
  /\ more \in [0..(n + 1) -> 0..N] /\ more[n + 1] = place
  /\ \A i \in 0..n : more[i] = cut[i]
  /\ \A i \in 1..n : more[i] = cut[i] /\ more[i - 1] = cut[i - 1]

(* The cuts after one more chunk.                                            *)
LEMMA FurtherPlaces ==
  ASSUME NEW N \in Nat, NEW n \in Nat, NEW cut \in [0..n -> 0..N], NEW place \in 0..N
  PROVE  Extends(Further(cut, n, place), cut, n, N, place)
<1> DEFINE more == Further(cut, n, place)
<1>1. \A i \in 0..(n + 1) : i = n + 1 \/ i \in 0..n
  OBVIOUS
<1>2. n + 1 \in 0..(n + 1) /\ \A i \in 0..n : i \in 0..(n + 1) /\ i # n + 1
  OBVIOUS
<1>3. more \in [0..(n + 1) -> 0..N] /\ more[n + 1] = place /\ \A i \in 0..n : more[i] = cut[i]
  BY <1>1, <1>2 DEF Further
<1> HIDE DEF more
<1>4. \A i \in 1..n : i \in 0..n /\ i - 1 \in 0..n
  OBVIOUS
<1> QED
  BY <1>3, <1>4 DEF more, Extends

Delivers(S, from, cut, held, pushes, rest, end, size) ==
  /\ SubSeq(rest, 1, size) \in Pieces
  /\ \E to : /\ InTransit(S, from, to, held, Append(pushes, SubSeq(rest, 1, size)),
                          SubSeq(rest, size + 1, Len(rest)), end)
             /\ to[0] = cut[0]

(* A chunk leaves the pipe: one more cut.                                    *)
LEMMA TransitData ==
  ASSUME NEW S \in Seq(AToken), NEW from \in Nat, NEW cut, NEW held, NEW pushes \in Seq(Pieces),
         NEW rest, NEW end, InTransit(S, from, cut, held, pushes, rest, end),
         NEW size, size \in 1..Len(rest)
  PROVE  Delivers(S, from, cut, held, pushes, rest, end, size)
<1>0. /\ Len(S) \in Nat /\ Len(pushes) \in Nat
      /\ \A i \in 0..Len(pushes) : cut[i] \in Nat /\ cut[i] <= Len(S)
      /\ from <= cut[0] /\ rest \in Seq(AToken) /\ Len(rest) = Len(S) - cut[Len(pushes)]
  <2>1. Placed(S, from, cut, held, pushes, rest)
    BY TransitPlaces
  <2> QED
    BY ONLY <2>1 DEF Placed
<1> DEFINE n == Len(pushes)
           b == cut[n]
           c == b + size
           piece == SubSeq(rest, 1, size)
           more == Append(pushes, piece)
           left == SubSeq(rest, size + 1, Len(rest))
           to == Further(cut, n, c)
<1>1. /\ Len(S) \in Nat /\ n \in Nat
      /\ \A i \in 0..n : cut[i] \in Nat /\ cut[i] <= Len(S)
      /\ from <= cut[0] /\ rest \in Seq(AToken) /\ Len(rest) = Len(S) - b
  BY <1>0
<1>2. /\ cut \in [0..n -> 0..Len(S)]
      /\ held = SubSeq(S, from + 1, cut[0])
      /\ rest = SubSeq(S, b + 1, Len(S))
      /\ Finished(end) => pushes # <<>> /\ cut[n - 1] = Len(S)
      /\ \A i \in 1..n : /\ cut[i - 1] <= cut[i]
                         /\ IF Finished(end) /\ i = n THEN pushes[i] = End
                            ELSE pushes[i] = SubSeq(S, cut[i - 1] + 1, cut[i])
  BY DEF InTransit
<1>3. b \in Nat /\ c \in Nat /\ b <= c /\ c <= Len(S) /\ size <= Len(S) - b /\ c \in 0..Len(S)
  BY <1>1
<1>4. ~Finished(end)
  <2> SUFFICES ASSUME Finished(end) PROVE FALSE
    OBVIOUS
  <2>1. n # 0 /\ n \in 1..n
    BY <1>1, <1>2
  <2>2. cut[n - 1] <= cut[n] /\ cut[n - 1] = Len(S)
    BY <1>2, <2>1
  <2> QED
    BY <1>1, <1>3, <2>2
<1>50. c = b + size /\ b = cut[n]
  OBVIOUS
<1> HIDE DEF b, c
<1>5. piece = SubSeq(S, b + 1, c) /\ left = SubSeq(S, c + 1, Len(S))
  <2>1. /\ 0 \in Nat /\ size \in Nat /\ 0 <= size /\ size <= Len(S) - b /\ b <= Len(S)
        /\ Len(S) - b \in Nat /\ size <= Len(S) - b /\ Len(S) <= Len(S)
        /\ Len(S) - b <= Len(S) - b
    BY <1>1, <1>3
  <2>2. SubSeq(SubSeq(S, b + 1, Len(S)), 0 + 1, size) = SubSeq(S, (b + 0) + 1, b + size)
    BY <1>1, <1>3, <2>1, PartOfPart
  <2>3. SubSeq(SubSeq(S, b + 1, Len(S)), size + 1, Len(S) - b) =
          SubSeq(S, (b + size) + 1, b + (Len(S) - b))
    BY <1>1, <1>3, <2>1, PartOfPart
  <2>4. 0 + 1 = 1 /\ b + 0 = b /\ b + (Len(S) - b) = Len(S)
    BY <1>1, <1>3
  <2> QED
    BY <1>1, <1>2, <1>50, <2>2, <2>3, <2>4
<1>6. piece \in Seq(AToken)
  <2>1. SubSeq(S, b + 1, c) \in Seq(AToken)
    BY <1>3, PartOf
  <2> QED
    BY ONLY <1>5, <2>1
<1>7. piece \in Pieces
  BY <1>6 DEF Pieces
<1> HIDE DEF piece, left
<1>8. Len(more) = n + 1 /\ more[n + 1] = piece /\ \A i \in 1..n : more[i] = pushes[i]
  BY <1>1, <1>7
<1>9. /\ to \in [0..(n + 1) -> 0..Len(S)] /\ to[n + 1] = c
      /\ \A i \in 0..n : to[i] = cut[i]
      /\ \A i \in 1..n : to[i] = cut[i] /\ to[i - 1] = cut[i - 1]
  <2>1. Len(S) \in Nat /\ n \in Nat /\ cut \in [0..n -> 0..Len(S)] /\ c \in 0..Len(S)
    BY <1>1, <1>2, <1>3
  <2>2. Extends(to, cut, n, Len(S), c)
    <3> HIDE DEF n
    <3> QED
      BY <2>1, FurtherPlaces DEF to
  <2> HIDE DEF n, to
  <2> QED
    BY ONLY <2>2 DEF Extends
<1> HIDE DEF to, more
<1>10. to[0] = cut[0] /\ to[n] = b
  BY <1>1, <1>9 DEF b
<1>11. ASSUME NEW i \in 1..(n + 1)
       PROVE  to[i - 1] <= to[i] /\ more[i] = SubSeq(S, to[i - 1] + 1, to[i])
  <2>1. CASE i = n + 1
    <3>1. i - 1 = n /\ to[i - 1] = b /\ to[i] = c /\ more[i] = piece
      BY <1>1, <1>8, <1>9, <1>10, <2>1
    <3> QED
      BY <1>3, <1>5, <3>1
  <2>2. CASE i # n + 1
    <3>1. i \in 1..n
      BY <1>1, <2>2
    <3> QED
      BY <1>2, <1>4, <1>8, <1>9, <3>1
  <2> QED
    BY <2>1, <2>2
<1>12. InTransit(S, from, to, held, more, left, end)
  BY <1>1, <1>2, <1>4, <1>5, <1>8, <1>9, <1>10, <1>11 DEF InTransit
<1> QED
  BY <1>7, <1>10, <1>12 DEF more, piece, left, Delivers

(* The end of the input goes behind the last chunk.                          *)
LEMMA TransitEnd ==
  ASSUME NEW S \in Seq(AToken), NEW from \in Nat, NEW cut, NEW held, NEW pushes \in Seq(Pieces),
         NEW end, InTransit(S, from, cut, held, pushes, <<>>, end), ~Finished(end),
         NEW over, Finished(over)
  PROVE  \E to : InTransit(S, from, to, held, Append(pushes, End), <<>>, over) /\ to[0] = cut[0]
<1>0. /\ Len(S) \in Nat /\ Len(pushes) \in Nat
      /\ \A i \in 0..Len(pushes) : cut[i] \in Nat /\ cut[i] <= Len(S)
      /\ from <= cut[0] /\ Len(<<>>) = Len(S) - cut[Len(pushes)]
  <2>1. Placed(S, from, cut, held, pushes, <<>>)
    BY TransitPlaces
  <2> QED
    BY ONLY <2>1 DEF Placed
<1> DEFINE n == Len(pushes)
           more == Append(pushes, End)
           to == Further(cut, n, Len(S))
<1>1. n \in Nat /\ cut[n] = Len(S)
  <2>1. n \in 0..n /\ Len(<<>>) = 0
    BY <1>0
  <2>2. cut[n] \in Nat
    BY <1>0, <2>1
  <2> QED
    BY <1>0, <2>1, <2>2
<1>2. /\ cut \in [0..n -> 0..Len(S)]
      /\ held = SubSeq(S, from + 1, cut[0])
      /\ \A i \in 1..n : cut[i - 1] <= cut[i] /\ pushes[i] = SubSeq(S, cut[i - 1] + 1, cut[i])
  BY DEF InTransit
<1>3. End \in Pieces
  BY DEF Pieces
<1>4. Len(more) = n + 1 /\ more[n + 1] = End /\ more # <<>> /\ \A i \in 1..n : more[i] = pushes[i]
  BY <1>1, <1>3
<1>5. /\ to \in [0..(n + 1) -> 0..Len(S)] /\ to[n + 1] = Len(S)
      /\ \A i \in 0..n : to[i] = cut[i]
      /\ \A i \in 1..n : to[i] = cut[i] /\ to[i - 1] = cut[i - 1]
  <2>1. Len(S) \in Nat /\ n \in Nat /\ cut \in [0..n -> 0..Len(S)] /\ Len(S) \in 0..Len(S)
    BY <1>0, <1>1, <1>2
  <2>2. Extends(to, cut, n, Len(S), Len(S))
    <3> HIDE DEF n
    <3> QED
      BY <2>1, FurtherPlaces DEF to
  <2> HIDE DEF n, to
  <2> QED
    BY ONLY <2>2 DEF Extends
<1> HIDE DEF to, more
<1>6. to[0] = cut[0] /\ to[n] = Len(S) /\ (n + 1) - 1 = n
  <2> HIDE DEF n
  <2>1. 0 \in 0..n /\ n \in 0..n /\ (n + 1) - 1 = n
    BY ONLY <1>1
  <2> QED
    BY ONLY <1>1, <1>5, <2>1
<1>7. ASSUME NEW i \in 1..(n + 1)
      PROVE  /\ to[i - 1] <= to[i]
             /\ i # n + 1 => more[i] = SubSeq(S, to[i - 1] + 1, to[i])
  <2>1. CASE i = n + 1
    <3>1. to[i - 1] = Len(S) /\ to[i] = Len(S)
      BY <1>5, <1>6, <2>1
    <3> QED
      BY <1>0, <2>1, <3>1
  <2>2. CASE i # n + 1
    <3>1. i \in 1..n
      BY <1>1, <2>2
    <3> QED
      BY <1>2, <1>4, <1>5, <3>1
  <2> QED
    BY <2>1, <2>2
<1>8. <<>> = SubSeq(S, to[n + 1] + 1, Len(S))
  BY <1>0, <1>5
<1>9. InTransit(S, from, to, held, more, <<>>, over)
  BY <1>0, <1>2, <1>4, <1>5, <1>6, <1>7, <1>8 DEF InTransit
<1> QED
  BY <1>6, <1>9 DEF more

(* The first place is reached.                                               *)
LEMMA TransitPush ==
  ASSUME NEW S \in Seq(AToken), NEW from \in Nat, NEW cut, NEW held, NEW pushes \in Seq(Pieces),
         NEW rest, NEW end, InTransit(S, from, cut, held, pushes, rest, end),
         pushes # <<>>, Head(pushes) # End
  PROVE  /\ held \o Head(pushes) \in Seq(AToken) /\ Len(held \o Head(pushes)) <= Len(S)
         /\ \E to : InTransit(S, from, to, held \o Head(pushes), Tail(pushes), rest, end)
<1>0. /\ Len(S) \in Nat /\ Len(pushes) \in Nat
      /\ \A i \in 0..Len(pushes) : cut[i] \in Nat /\ cut[i] <= Len(S)
      /\ from <= cut[0]
  <2>1. Placed(S, from, cut, held, pushes, rest)
    BY TransitPlaces
  <2> QED
    BY ONLY <2>1 DEF Placed
<1> DEFINE n == Len(pushes)
           first == Head(pushes)
           others == Tail(pushes)
           a == cut[0]
           b == cut[1]
           longer == held \o first
           to == [i \in 0..(n - 1) |-> cut[i + 1]]
<1>1. n \in Nat /\ n >= 1 /\ first = pushes[1]
      /\ Len(others) = n - 1 /\ \A i \in 1..(n - 1) : others[i] = pushes[i + 1]
  BY <1>0
<1>2. /\ cut \in [0..n -> 0..Len(S)]
      /\ held = SubSeq(S, from + 1, a)
      /\ rest = SubSeq(S, cut[n] + 1, Len(S))
      /\ Finished(end) => pushes # <<>> /\ cut[n - 1] = Len(S)
      /\ \A i \in 1..n : /\ cut[i - 1] <= cut[i]
                         /\ IF Finished(end) /\ i = n THEN pushes[i] = End
                            ELSE pushes[i] = SubSeq(S, cut[i - 1] + 1, cut[i])
  BY DEF InTransit
<1>3. Finished(end) => n >= 2
  <2> SUFFICES ASSUME Finished(end), n = 1 PROVE FALSE
    BY <1>1
  <2> QED
    BY <1>1, <1>2
<1>4. a <= b /\ first = SubSeq(S, a + 1, b)
  <2>1. 1 \in 1..n /\ 1 - 1 = 0 /\ ~(Finished(end) /\ 1 = n)
    BY <1>1, <1>3
  <2> HIDE DEF n, a, b, first
  <2>2. cut[1 - 1] <= cut[1] /\ pushes[1] = SubSeq(S, cut[1 - 1] + 1, cut[1])
    BY ONLY <1>2, <2>1
  <2> QED
    BY ONLY <1>1, <2>1, <2>2 DEF a, b
<1>5. a \in Nat /\ b \in Nat /\ a <= Len(S) /\ b <= Len(S) /\ from <= a
  BY <1>0, <1>1
<1> HIDE DEF a, b, first, others
<1>6. longer = SubSeq(S, from + 1, b)
  <2>1. SubSeq(S, from + 1, a) \o SubSeq(S, a + 1, b) = SubSeq(S, from + 1, b)
    BY <1>4, <1>5, PartsJoin
  <2> QED
    BY ONLY <1>2, <1>4, <2>1
<1>7. longer \in Seq(AToken) /\ Len(longer) <= Len(S)
  <2>1. from <= b
    BY <1>4, <1>5
  <2>2. longer \in Seq(AToken) /\ Len(longer) = b - from
    BY <1>5, <1>6, <2>1, PartOf
  <2> QED
    BY <1>0, <1>5, <2>2
<1>8. /\ to \in [0..(n - 1) -> 0..Len(S)] /\ to[0] = b /\ to[n - 1] = cut[n]
      /\ \A i \in 1..(n - 1) : to[i] = cut[i + 1] /\ to[i - 1] = cut[i]
  <2>1. \A i \in 0..(n - 1) : i + 1 \in 0..n
    BY <1>1
  <2>2. 0 \in 0..(n - 1) /\ n - 1 \in 0..(n - 1) /\ (n - 1) + 1 = n /\ 0 + 1 = 1
    BY <1>1
  <2>3. \A i \in 1..(n - 1) : i \in 0..(n - 1) /\ i - 1 \in 0..(n - 1) /\ (i - 1) + 1 = i
    BY <1>1
  <2>4. \A i \in 0..(n - 1) : cut[i + 1] \in 0..Len(S)
    BY <1>2, <2>1
  <2>5. to \in [0..(n - 1) -> 0..Len(S)] /\ to[0] = b
    BY <2>2, <2>4 DEF b
  <2>6. to[n - 1] = cut[n]
    BY <2>2
  <2>7. \A i \in 1..(n - 1) : to[i] = cut[i + 1] /\ to[i - 1] = cut[i]
    BY <2>3
  <2> QED
    BY <2>5, <2>6, <2>7
<1> HIDE DEF to, longer
<1>9. ASSUME NEW i \in 1..(n - 1)
      PROVE  /\ to[i - 1] <= to[i]
             /\ IF Finished(end) /\ i = n - 1 THEN others[i] = End
                ELSE others[i] = SubSeq(S, to[i - 1] + 1, to[i])
  <2>1. i + 1 \in 1..n /\ (i + 1) - 1 = i /\ (i + 1 = n <=> i = n - 1)
    BY <1>1
  <2>2. to[i] = cut[i + 1] /\ to[i - 1] = cut[i] /\ others[i] = pushes[i + 1]
    BY <1>1, <1>8
  <2> DEFINE j == i + 1
  <2>3. /\ cut[j - 1] <= cut[j]
        /\ IF Finished(end) /\ j = n THEN pushes[j] = End
           ELSE pushes[j] = SubSeq(S, cut[j - 1] + 1, cut[j])
    <3> HIDE DEF j
    <3>1. j \in 1..n
      BY <2>1 DEF j
    <3> QED
      BY <1>2, <3>1
  <2>4. j - 1 = i /\ (j = n <=> i = n - 1) /\ to[i] = cut[j] /\ others[i] = pushes[j]
    BY <2>1, <2>2
  <2> HIDE DEF j
  <2> QED
    BY <2>2, <2>3, <2>4
<1>10. Finished(end) => others # <<>> /\ to[(n - 1) - 1] = Len(S)
  <2> SUFFICES ASSUME Finished(end) PROVE others # <<>> /\ to[(n - 1) - 1] = Len(S)
    OBVIOUS
  <2>1. n - 1 \in 1..(n - 1) /\ Len(others) # 0
    BY <1>1, <1>3
  <2>2. to[(n - 1) - 1] = cut[n - 1]
    BY <1>8, <2>1
  <2> QED
    BY <1>2, <2>1, <2>2
<1>11. rest = SubSeq(S, to[n - 1] + 1, Len(S)) /\ from <= to[0] /\ longer = SubSeq(S, from + 1, to[0])
  BY <1>2, <1>4, <1>5, <1>6, <1>8
<1>12. InTransit(S, from, to, longer, others, rest, end)
  <2> DEFINE k == n - 1
  <2>1. Len(others) = k
    BY <1>1
  <2> HIDE DEF k
  <2> QED
    BY <2>1, <1>8, <1>9, <1>10, <1>11 DEF InTransit, k
<1> QED
  BY <1>7, <1>12 DEF longer, others, first

(* A frame leaves the buffer.                                                *)
LEMMA TransitFrame ==
  ASSUME NEW S \in Seq(AToken), NEW from \in Nat, NEW cut, NEW held, NEW pushes \in Seq(Pieces),
         NEW rest, NEW end, InTransit(S, from, cut, held, pushes, rest, end),
         NEW size \in Nat, from + size <= cut[0]
  PROVE  InTransit(S, from + size, cut, SubSeq(held, size + 1, Len(held)), pushes, rest, end)
<1>0. /\ Len(S) \in Nat /\ Len(pushes) \in Nat
      /\ \A i \in 0..Len(pushes) : cut[i] \in Nat /\ cut[i] <= Len(S)
      /\ from <= cut[0] /\ Len(held) = cut[0] - from
  <2>1. Placed(S, from, cut, held, pushes, rest)
    BY TransitPlaces
  <2> QED
    BY ONLY <2>1 DEF Placed
<1> DEFINE a == cut[0]
<1>1. a \in Nat /\ a <= Len(S) /\ from <= a /\ from + size <= a /\ Len(held) = a - from
  BY <1>0
<1>2. held = SubSeq(S, from + 1, a)
  BY DEF InTransit
<1> HIDE DEF a
<1>3. SubSeq(held, size + 1, Len(held)) = SubSeq(S, (from + size) + 1, a)
  <2> DEFINE d == a - from
  <2>1. d \in Nat /\ size <= d /\ d <= a - from /\ from + d = a
    BY <1>1
  <2> HIDE DEF d
  <2>2. SubSeq(SubSeq(S, from + 1, a), size + 1, d) = SubSeq(S, (from + size) + 1, from + d)
    BY <1>1, <2>1, PartOfPart
  <2>3. Len(held) = d
    BY <1>1 DEF d
  <2> QED
    BY <1>2, <2>1, <2>2, <2>3
<1>4. from + size <= cut[0] /\ SubSeq(held, size + 1, Len(held)) = SubSeq(S, (from + size) + 1, cut[0])
  BY <1>3 DEF a
<1> QED
  BY <1>4 DEF InTransit

(* The end of the input is the last push.                                    *)
LEMMA TransitFinish ==
  ASSUME NEW S \in Seq(AToken), NEW from \in Nat, NEW cut, NEW held, NEW pushes \in Seq(Pieces),
         NEW rest, NEW end, InTransit(S, from, cut, held, pushes, rest, end),
         pushes # <<>>, Head(pushes) = End
  PROVE  Finished(end) /\ Tail(pushes) = <<>> /\ rest = <<>> /\ cut[0] = Len(S)
<1>0. /\ Len(S) \in Nat /\ Len(pushes) \in Nat
      /\ \A i \in 0..Len(pushes) : cut[i] \in Nat /\ cut[i] <= Len(S)
  <2>1. Placed(S, from, cut, held, pushes, rest)
    BY TransitPlaces
  <2> QED
    BY ONLY <2>1 DEF Placed
<1> DEFINE n == Len(pushes)
           a == cut[0]
           b == cut[1]
<1>1. n \in Nat /\ n >= 1 /\ pushes[1] = End /\ 1 \in 1..n /\ 1 - 1 = 0
  BY <1>0
<1>2. /\ rest = SubSeq(S, cut[n] + 1, Len(S))
      /\ Finished(end) => cut[n - 1] = Len(S)
      /\ cut[1 - 1] <= cut[1]
      /\ IF Finished(end) /\ 1 = n THEN pushes[1] = End
         ELSE pushes[1] = SubSeq(S, cut[1 - 1] + 1, cut[1])
  BY <1>1 DEF InTransit
<1>3. a \in Nat /\ b \in Nat /\ a <= Len(S) /\ b <= Len(S) /\ a <= b
  BY <1>0, <1>1, <1>2
<1> HIDE DEF a, b
<1>4. SubSeq(S, a + 1, b) \in Seq(AToken)
  BY <1>3, PartOf
<1>5. pushes[1] # SubSeq(S, a + 1, b)
  BY <1>1, <1>4, PieceIsNotEnd
<1>6. Finished(end) /\ 1 = n
  BY <1>1, <1>2, <1>5 DEF a, b
<1>7. a = Len(S) /\ b = Len(S)
  <2>1. n - 1 = 0 /\ cut[n - 1] = Len(S)
    BY <1>2, <1>6
  <2>2. a = Len(S)
    BY <2>1 DEF a
  <2> QED
    BY <1>0, <1>3, <2>2
<1>8. rest = <<>>
  <2>1. cut[n] = Len(S)
    BY <1>6, <1>7 DEF b
  <2>2. rest = SubSeq(S, Len(S) + 1, Len(S))
    BY <1>2, <2>1
  <2> QED
    BY <1>0, <2>2
<1>9. Tail(pushes) = <<>>
  <2> DEFINE others == Tail(pushes)
  <2>1. Len(others) = 0 /\ others \in Seq(Pieces)
    BY <1>1, <1>6
  <2> HIDE DEF others
  <2>2. others = <<>>
    BY <2>1
  <2> QED
    BY <2>2 DEF others
<1> QED
  BY <1>6, <1>7, <1>8, <1>9 DEF a

----------------------------------------------------------------------------
\* What is true of the answers

Bodies == Nat \cup {"pong", "full", "summary", "MCP_RESPONSE_LIMIT"}
AnAnswer == [message : Nat, framing : {"ndjson", "content-length"}, body : Bodies]

OutInv ==
  /\ out \in Seq(AnAnswer)
  /\ \A i \in DOMAIN out :
       /\ out[i].message \in DOMAIN sent
       /\ sent[out[i].message].kind = "export" => out[i].body \in 0..Generation
  /\ AnswersInOrder

(* The position of the parser, taken out of Stream.                          *)
Flows(S, start, m, cut) ==
  /\ InTransit(S, start[m], cut, buffer, chunks, wire, closed)
  /\ Waiting(start, m, cut[0])

(* What the invariant of the input says, part by part.                       *)
LEMMA StreamParts ==
  ASSUME NEW S, NEW start, Stream(S, start), SentInv
  PROVE  /\ S \in Seq(AToken) /\ Starts(S, start, sent) /\ sent \in Seq(Message)
         /\ Len(S) \in Nat /\ Len(sent) \in Nat /\ DOMAIN sent = 1..Len(sent)
         /\ \A m \in 1..(Len(sent) + 1) : start[m] \in Nat /\ start[m] <= Len(S)
         /\ chunks \in Seq(Pieces)
         /\ \E m \in 1..(Len(sent) + 1) : Served(m) /\ (Over \/ \E cut : Flows(S, start, m, cut))
<1>1. Starts(S, start, sent) /\ sent \in Seq(Message) /\ chunks \in Seq(Pieces)
  BY DEF Stream, SentInv
<1>2. S \in Seq(AToken) /\ start \in [1..(Len(sent) + 1) -> 0..Len(S)]
  BY <1>1 DEF Starts
<1>3. Len(S) \in Nat /\ Len(sent) \in Nat /\ DOMAIN sent = 1..Len(sent)
  BY <1>1, <1>2
<1>4. ASSUME NEW m \in 1..(Len(sent) + 1)
      PROVE  start[m] \in Nat /\ start[m] <= Len(S)
  BY <1>2, <1>3
<1>5. \E m \in 1..(Len(sent) + 1) : Served(m) /\ (Over \/ \E cut : Flows(S, start, m, cut))
  BY DEF Stream, Flows
<1> QED
  BY <1>1, <1>2, <1>3, <1>4, <1>5

----------------------------------------------------------------------------
\* The steps of the client and of the pipe

Cause(S) == failed => Misunderstood \/ Len(S) > MaxInput

(* How the invariant of the input is shown after a step.                     *)
LEMMA StreamFrom ==
  ASSUME NEW S, NEW start, Starts(S, start, sent'), NEW m \in 1..(Len(sent') + 1), Served(m)',
         Over' \/ \E cut : Flows(S, start, m, cut)', Cause(S)'
  PROVE  StreamInv'
<1>1. Stream(S, start)'
  BY DEF Stream, Flows
<1> QED
  BY <1>1 DEF StreamInv, Cause

(* What it gives before one.                                                 *)
LEMMA StreamHas ==
  ASSUME StreamInv, SentInv
  PROVE  \E S, start : Stream(S, start) /\ Cause(S)
BY DEF StreamInv, Cause

(* A step that takes no message and writes no answer leaves the parser where *)
(* it stands.                                                                *)
LEMMA ServedSame ==
  ASSUME UNCHANGED <<sent, server, out>>, NEW m, Served(m)
  PROVE  Served(m)'
<1>1. Before(m)' = Before(m) /\ Answered' = Answered /\ \A n : IsRequest(n)' = IsRequest(n)
  BY DEF Before, Answered, IsRequest
<1> QED
  BY <1>1 DEF Served

(* A message that is not understood stays written.                           *)
LEMMA MisunderstoodStays ==
  ASSUME SentInv, sent' = sent \/ \E message \in Message : sent' = Append(sent, message), Misunderstood
  PROVE  Misunderstood'
<1>1. PICK n \in DOMAIN sent : sent[n].kind \in {"unknown notification", "not JSON"}
  BY DEF Misunderstood
<1>2. n \in DOMAIN sent' /\ sent'[n] = sent[n]
  <2>1. CASE sent' = sent
    BY <2>1
  <2>2. ASSUME NEW message \in Message, sent' = Append(sent, message)
        PROVE  n \in DOMAIN sent' /\ sent'[n] = sent[n]
    <3>1. sent \in Seq(Message)
      BY DEF SentInv
    <3>2. /\ n \in DOMAIN Append(sent, message)
          /\ Append(sent, message)[n] = sent[n]
      BY ONLY <3>1, message \in Message, n \in DOMAIN sent
    <3> QED
      BY ONLY <2>2, <3>2
  <2> QED
    BY <2>1, <2>2
<1> QED
  BY <1>1, <1>2 DEF Misunderstood

(* Steps elsewhere keep the invariant of the input.                          *)
LEMMA StreamStutters ==
  ASSUME SentInv, StreamInv, UNCHANGED <<sent, wire, closed, chunks, buffer, server, failed, out>>
  PROVE  StreamInv'
<1>1. PICK S, start : Stream(S, start) /\ Cause(S)
  BY StreamHas
<1>2. PICK m \in 1..(Len(sent) + 1) : Served(m) /\ (Over \/ \E cut : Flows(S, start, m, cut))
  BY <1>1, StreamParts
<1>3. Served(m)'
  BY <1>2, ServedSame
<1>4. Over' \/ \E cut : Flows(S, start, m, cut)'
  BY <1>2 DEF Over, Flows, Waiting
<1>5. Cause(S)'
  BY <1>1 DEF Cause, Misunderstood
<1>6. Starts(S, start, sent') /\ m \in 1..(Len(sent') + 1)
  BY <1>1, StreamParts
<1> QED
  BY <1>3, <1>4, <1>5, <1>6, StreamFrom

(* A client that writes adds to the end of the input; the message waits for  *)
(* the parser as the others do.                                              *)
LEMMA StreamWrite ==
  ASSUME SentInv, StreamInv, NEW kind \in Kinds, NEW framing \in Framings, Write(kind, framing),
         NextPage \in Nat
  PROVE  StreamInv'
<1> DEFINE N == Len(sent)
           message == [kind |-> kind, framing |-> framing,
                       cursor |-> IF kind = "read" THEN NextPage ELSE 0]
           R == Tokens(N + 1, framing)
<1>1. /\ closed = "open" /\ sent' = Append(sent, message) /\ wire' = wire \o R
      /\ UNCHANGED <<closed, chunks, buffer, server, failed, out>>
      /\ \A n \in DOMAIN sent : sent[n].framing # "unterminated"
  BY DEF Write
<1>2. message \in Message /\ message.framing = framing
  BY DEF Message
<1> HIDE DEF message
<1>3. PICK S, start : Stream(S, start) /\ Cause(S)
  BY StreamHas
<1>4. /\ S \in Seq(AToken) /\ Starts(S, start, sent) /\ sent \in Seq(Message)
      /\ Len(S) \in Nat /\ N \in Nat /\ DOMAIN sent = 1..N
      /\ \A m \in 1..(N + 1) : start[m] \in Nat /\ start[m] <= Len(S)
      /\ chunks \in Seq(Pieces)
  BY <1>3, StreamParts
<1>5. PICK m \in 1..(N + 1) : Served(m) /\ (Over \/ \E cut : Flows(S, start, m, cut))
  BY <1>3, StreamParts
<1>6. PICK cut : Flows(S, start, m, cut)
  BY <1>1, <1>5 DEF Over
<1>60. PICK L, later : L = S \o R /\ later = Longer(start, sent, Len(L))
  OBVIOUS
<1>7. Starts(L, later, sent')
  BY <1>1, <1>2, <1>4, <1>60, OneMoreMessage
<1>8. R \in Seq(AToken) /\ Len(R) \in 2..5
  <2>1. N + 1 \in Nat \ {0}
    BY <1>4
  <2> QED
    BY <2>1, TokensAre
<1>9. Len(L) = Len(S) + Len(R) /\ Len(L) > Len(S) /\ Len(L) \in Nat
  <2> HIDE DEF R
  <2>1. Len(S \o R) = Len(S) + Len(R)
    BY ONLY <1>4, <1>8, Joined
  <2>2. Len(L) = Len(S) + Len(R)
    BY ONLY <1>60, <2>1
  <2> QED
    <3>1. Len(S) \in Nat /\ Len(R) \in 2..5
      BY <1>4, <1>8
    <3>2. \A a \in Nat, b \in 2..5 : a + b > a /\ a + b \in Nat
      OBVIOUS
    <3>3. Len(S) + Len(R) > Len(S) /\ Len(S) + Len(R) \in Nat
      BY ONLY <3>1, <3>2
    <3> QED
      BY ONLY <2>2, <3>3
<1>10. /\ sent' \in Seq(Message) /\ Len(sent') = N + 1
       /\ \A n \in DOMAIN sent : n \in DOMAIN sent' /\ sent'[n] = sent[n]
  BY <1>1, <1>2, <1>4
<1>11. /\ \A n \in 1..(N + 1) : later[n] = start[n]
       /\ later[(N + 1) + 1] = Len(L)
  <2>1. \A n \in 1..(N + 1) : n \in 1..(N + 2) /\ n # N + 2
    BY <1>4
  <2>2. (N + 1) + 1 = N + 2 /\ N + 2 \in 1..(N + 2)
    BY <1>4
  <2> QED
    BY <1>60, <2>1, <2>2 DEF Longer
<1> HIDE DEF R
<1>12. m \in 1..(Len(sent') + 1)
  BY <1>4, <1>10
<1>13. Served(m)'
  <2>1. server' = server /\ out' = out /\ Before(m)' = Before(m) /\ Answered' = Answered
    BY <1>1 DEF Before, Answered
  <2>2. \A n \in 1..(Before(m) - 1) : n \in DOMAIN sent
    <3>1. Before(m) \in Int /\ Before(m) <= N + 1
      BY <1>4 DEF Before
    <3> QED
      BY <1>4, <3>1
  <2>3. \A n \in 1..(Before(m) - 1) : IsRequest(n)' = IsRequest(n)
    BY <1>10, <2>2 DEF IsRequest
  <2>4. Answered' = {n \in 1..(Before(m) - 1) : IsRequest(n)'}
    BY <1>5, <2>1, <2>3 DEF Served
  <2>5. server.phase = "serving" =>
          /\ server.message = m - 1 /\ m - 1 \in DOMAIN sent'
          /\ sent'[m - 1].kind # "not JSON"
          /\ server.framing = Framed(sent'[m - 1].framing)
    BY <1>5, <1>10 DEF Served
  <2> QED
    BY <2>1, <2>4, <2>5 DEF Served
<1>14. InTransit(L, later[m], cut, buffer', chunks', wire', closed')
  <2>1. InTransit(S, start[m], cut, buffer, chunks, wire, closed) /\ start[m] \in Nat
    BY <1>4, <1>6 DEF Flows
  <2>2. ~Finished(closed)
    BY <1>1 DEF Finished
  <2> DEFINE from == start[m]
  <2>3. from \in Nat /\ InTransit(S, from, cut, buffer, chunks, wire, closed)
    BY <2>1
  <2> HIDE DEF from
  <2>4. InTransit(S \o R, from, cut, buffer, chunks, wire \o R, closed)
    BY <1>4, <1>8, <2>2, <2>3, TransitWrite
  <2> QED
    BY <1>1, <1>11, <1>60, <2>4 DEF from
<1>15. Waiting(later, m, cut[0])'
  <2> SUFFICES ASSUME server.phase = "idle", ~failed
               PROVE  \/ m = Len(sent') + 1 \/ cut[0] < later[m + 1]
                      \/ sent'[m].framing = "unterminated"
    BY <1>1 DEF Waiting
  <2>1. CASE m = N + 1
    <3>1. cut[0] <= Len(S) /\ cut[0] \in Nat
      <4>1. cut \in [0..Len(chunks) -> 0..Len(S)]
        BY <1>6 DEF Flows, InTransit
      <4>2. 0 \in 0..Len(chunks)
        BY <1>4
      <4>3. cut[0] \in 0..Len(S)
        BY <4>1, <4>2
      <4> QED
        BY <1>4, <4>3
    <3>2. later[m + 1] = Len(L)
      BY <1>11, <2>1
    <3> QED
      BY <1>4, <1>9, <3>1, <3>2
  <2>2. CASE m # N + 1
    <3>1. m \in DOMAIN sent /\ m + 1 \in 1..(N + 1)
      BY <1>4, <2>2
    <3>2. sent[m].framing # "unterminated"
      BY <1>1, <3>1
    <3>3. cut[0] < start[m + 1]
      BY <1>6, <2>2, <3>2 DEF Flows, Waiting
    <3> QED
      BY <1>11, <3>1, <3>3
  <2> QED
    BY <2>1, <2>2
<1>16. Over' \/ \E c : Flows(L, later, m, c)'
  BY <1>14, <1>15 DEF Flows
<1>17. Cause(L)'
  <2>1. Misunderstood => Misunderstood'
    BY <1>1, <1>2, MisunderstoodStays
  <2>2. Len(S) > MaxInput => Len(L) > MaxInput
    <3> QED
      BY <1>4, <1>9, MaxInputAssumption
  <2> QED
    BY <1>1, <1>3, <2>1, <2>2 DEF Cause
<1> QED
  BY <1>7, <1>12, <1>13, <1>16, <1>17, StreamFrom

(* Closing the pipe changes nothing in it.                                   *)
LEMMA StreamClose ==
  ASSUME SentInv, StreamInv, Close
  PROVE  StreamInv'
<1>1. PICK S, start : Stream(S, start) /\ Cause(S)
  BY StreamHas
<1>2. PICK m \in 1..(Len(sent) + 1) : Served(m) /\ (Over \/ \E cut : Flows(S, start, m, cut))
  BY <1>1, StreamParts
<1>3. /\ closed = "open" /\ closed' = "closed"
      /\ UNCHANGED <<sent, wire, chunks, buffer, server, failed, out>>
  BY DEF Close
<1>4. Served(m)'
  BY <1>2, <1>3, ServedSame
<1>5. PICK cut : Flows(S, start, m, cut)
  BY <1>2, <1>3 DEF Over
<1>6. ~Finished(closed) /\ ~Finished(closed')
  BY <1>3 DEF Finished
<1>7. InTransit(S, start[m], cut, buffer', chunks', wire', closed')
  BY <1>3, <1>5, <1>6 DEF Flows, InTransit
<1>8. Flows(S, start, m, cut)'
  BY <1>3, <1>5, <1>7 DEF Flows, Waiting
<1>9. Starts(S, start, sent') /\ m \in 1..(Len(sent') + 1) /\ Cause(S)'
  BY <1>1, <1>3, StreamParts DEF Cause, Misunderstood
<1> QED
  BY <1>4, <1>8, <1>9, StreamFrom

(* A chunk that arrives, cut anywhere.                                       *)
LEMMA StreamData ==
  ASSUME SentInv, StreamInv, NEW size \in DOMAIN wire, Data(size)
  PROVE  StreamInv' /\ chunks' \in Seq(Pieces)
<1>1. PICK S, start : Stream(S, start) /\ Cause(S)
  BY StreamHas
<1>2. /\ S \in Seq(AToken) /\ Starts(S, start, sent) /\ Len(sent) \in Nat
      /\ \A m \in 1..(Len(sent) + 1) : start[m] \in Nat
      /\ chunks \in Seq(Pieces)
  BY <1>1, StreamParts
<1>3. PICK m \in 1..(Len(sent) + 1) : Served(m) /\ (Over \/ \E cut : Flows(S, start, m, cut))
  BY <1>1, StreamParts
<1>4. /\ wire # <<>>
      /\ chunks' = Append(chunks, SubSeq(wire, 1, size))
      /\ wire' = SubSeq(wire, size + 1, Len(wire))
      /\ UNCHANGED <<sent, closed, buffer, server, failed, out>>
  BY DEF Data
<1>5. Served(m)'
  BY <1>3, <1>4, ServedSame
<1>6. PICK cut : Flows(S, start, m, cut)
  BY <1>3, <1>4 DEF Over
<1> DEFINE from == start[m]
<1>7. from \in Nat /\ InTransit(S, from, cut, buffer, chunks, wire, closed)
  BY <1>2, <1>6 DEF Flows
<1> HIDE DEF from
<1>8. wire \in Seq(AToken)
  <2>1. Placed(S, from, cut, buffer, chunks, wire)
    BY <1>2, <1>7, TransitPlaces
  <2> QED
    BY ONLY <2>1 DEF Placed
<1>9. size \in 1..Len(wire)
  BY <1>8
<1>10. /\ SubSeq(wire, 1, size) \in Pieces
       /\ \E to : /\ InTransit(S, from, to, buffer, Append(chunks, SubSeq(wire, 1, size)),
                               SubSeq(wire, size + 1, Len(wire)), closed)
                  /\ to[0] = cut[0]
  <2>1. Delivers(S, from, cut, buffer, chunks, wire, closed, size)
    BY <1>2, <1>7, <1>9, TransitData
  <2> QED
    BY ONLY <2>1 DEF Delivers
<1>11. PICK to : InTransit(S, from, to, buffer', chunks', wire', closed') /\ to[0] = cut[0]
  BY <1>4, <1>10
<1>12. Flows(S, start, m, to)'
  BY <1>4, <1>6, <1>11 DEF Flows, Waiting, from
<1>13. Starts(S, start, sent') /\ m \in 1..(Len(sent') + 1) /\ Cause(S)'
  BY <1>1, <1>2, <1>4 DEF Cause, Misunderstood
<1>14. chunks' \in Seq(Pieces)
  BY <1>2, <1>4, <1>10
<1> QED
  BY <1>5, <1>12, <1>13, <1>14, StreamFrom

(* The end of the input arrives.                                             *)
LEMMA StreamEnd ==
  ASSUME SentInv, StreamInv, EndOfInput
  PROVE  StreamInv' /\ chunks' \in Seq(Pieces)
<1>1. PICK S, start : Stream(S, start) /\ Cause(S)
  BY StreamHas
<1>2. /\ S \in Seq(AToken) /\ Starts(S, start, sent) /\ Len(sent) \in Nat
      /\ \A m \in 1..(Len(sent) + 1) : start[m] \in Nat
      /\ chunks \in Seq(Pieces)
  BY <1>1, StreamParts
<1>3. PICK m \in 1..(Len(sent) + 1) : Served(m) /\ (Over \/ \E cut : Flows(S, start, m, cut))
  BY <1>1, StreamParts
<1>4. /\ closed = "closed" /\ wire = <<>> /\ closed' = "seen closed"
      /\ chunks' = Append(chunks, End)
      /\ UNCHANGED <<sent, wire, buffer, server, failed, out>>
  BY DEF EndOfInput
<1>5. Served(m)'
  BY <1>3, <1>4, ServedSame
<1>6. PICK cut : Flows(S, start, m, cut)
  BY <1>3, <1>4 DEF Over
<1> DEFINE from == start[m]
<1>7. from \in Nat /\ InTransit(S, from, cut, buffer, chunks, <<>>, closed)
  BY <1>2, <1>4, <1>6 DEF Flows
<1> HIDE DEF from
<1>8. ~Finished(closed) /\ Finished(closed')
  BY <1>4 DEF Finished
<1>9. \E to : InTransit(S, from, to, buffer, Append(chunks, End), <<>>, closed') /\ to[0] = cut[0]
  BY <1>2, <1>7, <1>8, TransitEnd
<1>10. PICK to : InTransit(S, from, to, buffer', chunks', wire', closed') /\ to[0] = cut[0]
  BY <1>4, <1>9
<1>11. Flows(S, start, m, to)'
  BY <1>4, <1>6, <1>10 DEF Flows, Waiting, from
<1>12. Starts(S, start, sent') /\ m \in 1..(Len(sent') + 1) /\ Cause(S)'
  BY <1>1, <1>2, <1>4 DEF Cause, Misunderstood
<1>13. chunks' \in Seq(Pieces)
  <2>1. End \in Pieces
    BY DEF Pieces
  <2>2. Append(chunks, End) \in Seq(Pieces)
    BY ONLY <1>2, <2>1
  <2> QED
    BY ONLY <1>4, <2>2
<1> QED
  BY <1>5, <1>11, <1>12, <1>13, StreamFrom

----------------------------------------------------------------------------
\* The steps of the parser

(* A push moves a chunk into the buffer; when the buffer is too long, so is  *)
(* the input.                                                                *)
LEMMA StreamPush ==
  ASSUME SentInv, StreamInv, Push
  PROVE  StreamInv' /\ chunks' \in Seq(Pieces)
<1>1. PICK S, start : Stream(S, start) /\ Cause(S)
  BY StreamHas
<1>2. /\ S \in Seq(AToken) /\ Starts(S, start, sent) /\ Len(sent) \in Nat /\ Len(S) \in Nat
      /\ \A m \in 1..(Len(sent) + 1) : start[m] \in Nat
      /\ chunks \in Seq(Pieces)
  BY <1>1, StreamParts
<1>3. PICK m \in 1..(Len(sent) + 1) : Served(m) /\ (Over \/ \E cut : Flows(S, start, m, cut))
  BY <1>1, StreamParts
<1>4. /\ server.phase = "idle" /\ chunks # <<>> /\ Head(chunks) # End
      /\ buffer' = buffer \o Head(chunks) /\ chunks' = Tail(chunks)
      /\ \/ Len(buffer') > MaxInput /\ failed' = TRUE /\ server' = server
         \/ server' = [server EXCEPT !.phase = "parsing"] /\ failed' = failed
      /\ UNCHANGED <<sent, wire, closed, out>>
  BY DEF Push, TooLong
<1>5. PICK cut : Flows(S, start, m, cut)
  BY <1>3, <1>4 DEF Over
<1> DEFINE from == start[m]
<1>6. from \in Nat /\ InTransit(S, from, cut, buffer, chunks, wire, closed)
  BY <1>2, <1>5 DEF Flows
<1> HIDE DEF from
<1>7. /\ buffer' \in Seq(AToken) /\ Len(buffer') <= Len(S)
      /\ \E to : InTransit(S, from, to, buffer', chunks', wire, closed)
  BY <1>2, <1>4, <1>6, TransitPush
<1>8. PICK to : InTransit(S, from, to, buffer', chunks', wire', closed')
  BY <1>4, <1>7
<1>9. server'.phase # "serving" /\ server.phase # "serving"
      /\ (server'.phase = "idle" => failed')
  BY <1>4 DEF SentInv
<1>10. Served(m)'
  <2>1. Before(m)' = Before(m) /\ Answered' = Answered /\ \A n : IsRequest(n)' = IsRequest(n)
    BY <1>4, <1>9 DEF Before, Answered, IsRequest
  <2> QED
    BY <1>3, <1>9, <2>1 DEF Served
<1>11. Flows(S, start, m, to)'
  BY <1>8, <1>9 DEF Flows, Waiting, from
<1>12. Cause(S)'
  <2>1. CASE failed' = failed
    BY <1>1, <1>4, <2>1 DEF Cause, Misunderstood
  <2>2. CASE Len(buffer') > MaxInput
    <3>1. Len(buffer') \in Nat
      BY <1>7
    <3>2. Len(S) > MaxInput
      BY <1>2, <1>7, <2>2, <3>1, MaxInputAssumption
    <3> QED
      BY <3>2 DEF Cause
  <2> QED
    BY <1>4, <2>1, <2>2
<1>13. Starts(S, start, sent') /\ m \in 1..(Len(sent') + 1)
  BY <1>2, <1>4
<1>14. chunks' \in Seq(Pieces)
  BY <1>2, <1>4
<1> QED
  BY <1>10, <1>11, <1>12, <1>13, <1>14, StreamFrom

(* What becomes of a message that the parser has cut out.                    *)
LEMMA DispatchMessage ==
  ASSUME sent \in Seq(Message), NEW n \in DOMAIN sent, NEW framing, Dispatch(Texts(n), framing)
  PROVE  \/ sent[n].kind = "not JSON" /\ server' = Idle /\ failed' = TRUE
         \/ /\ sent[n].kind # "not JSON"
            /\ server' = [phase |-> "serving", framing |-> framing, message |-> n]
            /\ failed' = failed
<1>1. Parsed(Texts(n)) = IF sent[n].kind = "not JSON" THEN {} ELSE {n}
  BY ParsedTexts
<1>2. (CHOOSE k \in {n} : TRUE) = n
  OBVIOUS
<1>3. CASE sent[n].kind = "not JSON"
  BY <1>1, <1>3 DEF Dispatch
<1>4. CASE sent[n].kind # "not JSON"
  BY <1>1, <1>2, <1>4 DEF Dispatch
<1> QED
  BY <1>3, <1>4

(* When the parser takes message m, it stands before the next one.           *)
LEMMA ServedNext ==
  ASSUME SentInv, NEW m \in DOMAIN sent, server.phase # "serving", Served(m),
         sent' = sent, out' = out,
         \/ server' = Idle /\ sent[m].kind = "not JSON"
         \/ /\ sent[m].kind # "not JSON"
            /\ server' = [phase |-> "serving", framing |-> Framed(sent[m].framing), message |-> m]
  PROVE  Served(m + 1)'
<1>0. sent \in Seq(Message)
  BY DEF SentInv
<1>1. m \in Nat /\ m \in 1..Len(sent) /\ (m + 1) - 1 = m /\ Len(sent) \in Nat
  BY ONLY <1>0, m \in DOMAIN sent
<1>2. Answered' = Answered /\ \A n : IsRequest(n)' = IsRequest(n)
  BY DEF Answered, IsRequest
<1>3. Answered = {n \in 1..(m - 1) : IsRequest(n)}
  BY DEF Served, Before
<1>4. CASE server' = Idle /\ sent[m].kind = "not JSON"
  <2>1. server'.phase # "serving" /\ Before(m + 1)' = m + 1
    BY <1>4 DEF Idle, Before
  <2>2. ~IsRequest(m)
    BY <1>4 DEF IsRequest
  <2>3. \A n \in 1..m : n \in 1..(m - 1) \/ n = m
    BY ONLY <1>1
  <2>4. \A n \in 1..(m - 1) : n \in 1..m
    BY ONLY <1>1
  <2>5. Answered' = {n \in 1..m : IsRequest(n)'}
    BY <1>2, <1>3, <2>2, <2>3, <2>4
  <2>6. Before(m + 1)' - 1 = m
    BY <1>1, <2>1
  <2> QED
    BY <2>1, <2>5, <2>6 DEF Served
<1>5. CASE /\ sent[m].kind # "not JSON"
           /\ server' = [phase |-> "serving", framing |-> Framed(sent[m].framing), message |-> m]
  <2>1. server'.phase = "serving" /\ server'.message = m /\ server'.framing = Framed(sent[m].framing)
    BY <1>5
  <2>2. Before(m + 1)' - 1 = m - 1
    BY <1>1, <2>1 DEF Before
  <2>3. Answered' = {n \in 1..(m - 1) : IsRequest(n)'}
    BY <1>2, <1>3
  <2>4. /\ server'.message = (m + 1) - 1 /\ (m + 1) - 1 \in DOMAIN sent'
        /\ sent'[(m + 1) - 1].kind # "not JSON"
        /\ server'.framing = Framed(sent'[(m + 1) - 1].framing)
    BY <1>1, <1>5, <2>1
  <2> QED
    BY <2>2, <2>3, <2>4 DEF Served
<1> QED
  BY <1>4, <1>5

(* When it takes none, it stays before m.                                    *)
LEMMA ServedIdle ==
  ASSUME NEW m, Served(m), sent' = sent, out' = out, server.phase # "serving",
         server'.phase # "serving"
  PROVE  Served(m)'
<1>1. Before(m)' = Before(m) /\ Answered' = Answered /\ \A n : IsRequest(n)' = IsRequest(n)
  BY DEF Before, Answered, IsRequest
<1> QED
  BY <1>1 DEF Served

(* A turn of the parser's loop: it takes the whole message before which it   *)
(* stands, or nothing.                                                       *)
LEMMA StreamFrame ==
  ASSUME SentInv, StreamInv, TakeFrame
  PROVE  StreamInv'
<1>1. PICK S, start : Stream(S, start) /\ Cause(S)
  BY StreamHas
<1>2. /\ S \in Seq(AToken) /\ Starts(S, start, sent) /\ Len(sent) \in Nat /\ Len(S) \in Nat
      /\ \A m \in 1..(Len(sent) + 1) : start[m] \in Nat /\ start[m] <= Len(S)
      /\ chunks \in Seq(Pieces) /\ sent \in Seq(Message) /\ DOMAIN sent = 1..Len(sent)
  BY <1>1, StreamParts
<1>3. PICK m \in 1..(Len(sent) + 1) : Served(m) /\ (Over \/ \E cut : Flows(S, start, m, cut))
  BY <1>1, StreamParts
<1>4. /\ server.phase = "parsing"
      /\ UNCHANGED <<sent, wire, closed, chunks, out>>
      /\ \/ Frame.size = 0 /\ server' = Idle /\ buffer' = buffer /\ failed' = failed
         \/ /\ Frame.size # 0 /\ buffer' = Rest(Frame.size)
            /\ Dispatch(Frame.body, Frame.framing)
  BY DEF TakeFrame, input
<1>5. Starts(S, start, sent') /\ Len(sent') = Len(sent)
  BY <1>2, <1>4
(* Nothing was cut out.                                                      *)
<1>6. ASSUME Frame.size = 0,
             Over \/ \E cut : /\ Flows(S, start, m, cut)
                              /\ \/ m = Len(sent) + 1 \/ cut[0] < start[m + 1]
                                 \/ sent[m].framing = "unterminated"
      PROVE  StreamInv'
  <2>1. server' = Idle /\ buffer' = buffer /\ failed' = failed
    BY <1>4, <1>6
  <2>2. Served(m)'
    BY <1>3, <1>4, <2>1, ServedIdle DEF Idle
  <2>3. Over' \/ \E cut : Flows(S, start, m, cut)'
    BY <1>4, <1>6, <2>1 DEF Over, Flows, Waiting
  <2>4. Cause(S)'
    BY <1>1, <1>4, <2>1 DEF Cause, Misunderstood
  <2> QED
    BY <1>5, <2>2, <2>3, <2>4, StreamFrom
<1>7. CASE Over
  BY <1>6, <1>7, NoFrameInNothing DEF Over
<1>8. ASSUME NEW cut, Flows(S, start, m, cut)
      PROVE  StreamInv'
  <2> DEFINE from == start[m]
             c == cut[0]
  <2>1. from \in Nat /\ from <= Len(S) /\ InTransit(S, from, cut, buffer, chunks, wire, closed)
    BY <1>2, <1>8 DEF Flows
  <2>2. c \in Nat /\ c <= Len(S) /\ from <= c /\ Len(buffer) = c - from
        /\ buffer = SubSeq(S, from + 1, c)
    <3>1. Placed(S, from, cut, buffer, chunks, wire)
      <4> HIDE DEF from
      <4> QED
        BY <1>2, <2>1, TransitPlaces
    <3>2. 0 \in 0..Len(chunks)
      BY <1>2
    <3>3. buffer = SubSeq(S, from + 1, c)
      BY <2>1 DEF InTransit
    <3> HIDE DEF from
    <3> QED
      BY <3>1, <3>2, <3>3 DEF Placed
  <2> HIDE DEF from, c
  <2>3. CASE m = Len(sent) + 1
    <3>1. from = Len(S)
      BY <1>2, <2>3 DEF from, Starts
    <3>2. Len(buffer) = 0 /\ c = from
      BY <1>2, <2>2, <3>1
    <3>3. buffer = <<>>
      BY <1>2, <2>1, <2>2, <3>1, <3>2
    <3> QED
      BY <1>6, <1>8, <2>3, <3>3, NoFrameInNothing
  <2>4. CASE m # Len(sent) + 1
    <3> DEFINE framing == sent[m].framing
               w == Width(framing)
    <3>1. m \in DOMAIN sent /\ m \in 1..Len(sent) /\ m + 1 \in 1..(Len(sent) + 1)
      BY <1>2, <2>4
    <3>2. /\ framing \in Framings /\ m \in Nat \ {0} /\ w \in 2..5
          /\ start[m + 1] = from + w /\ start[m + 1] <= Len(S) /\ start[m + 1] \in Nat
      BY <1>2, <3>1, MessagePlace DEF from
    <3>3. BeginsWith(buffer, m, framing)
      BY <1>2, <2>2, <3>1, HeldTokens DEF from
    <3>4. framing = "unterminated" => w = 2 /\ start[m + 1] = Len(S)
      <4> SUFFICES ASSUME framing = "unterminated" PROVE w = 2 /\ start[m + 1] = Len(S)
        OBVIOUS
      <4>1. m = Len(sent)
        BY <3>1 DEF SentInv
      <4>2. start[Len(sent) + 1] = Len(S)
        BY <1>2 DEF Starts
      <4> QED
        BY <4>1, <4>2 DEF Width
    <3> HIDE DEF w, framing
    <3>5. CASE Len(buffer) < w
      <4>1. Frame.size = 0
        BY <3>2, <3>3, <3>5, FrameOfMessage DEF w
      <4>2. c < start[m + 1]
        BY <2>1, <2>2, <3>2, <3>5
      <4> QED
        BY <1>6, <1>8, <4>1, <4>2 DEF c
    <3>6. CASE Len(buffer) >= w /\ framing = "unterminated"
      <4>1. Len(buffer) = 2
        BY <2>1, <2>2, <3>2, <3>4, <3>6
      <4>2. Frame.size = 0
        BY <3>2, <3>3, <3>6, <4>1, FrameOfMessage
      <4> QED
        BY <1>6, <1>8, <3>6, <4>2 DEF framing
    <3>7. CASE Len(buffer) >= w /\ framing # "unterminated"
      <4>1. Frame.size = w /\ Frame.body = Texts(m) /\ Frame.framing = Framed(framing)
        BY <3>2, <3>3, <3>7, FrameOfMessage DEF w
      <4>2. w # 0
        BY <3>2
      <4>3. buffer' = SubSeq(buffer, w + 1, Len(buffer)) /\ Dispatch(Texts(m), Framed(framing))
        BY <1>4, <4>1, <4>2 DEF Rest
      <4>4. \/ sent[m].kind = "not JSON" /\ server' = Idle /\ failed' = TRUE
            \/ /\ sent[m].kind # "not JSON"
               /\ server' = [phase |-> "serving", framing |-> Framed(framing), message |-> m]
               /\ failed' = failed
        BY <1>2, <3>1, <4>3, DispatchMessage
      <4>5. Served(m + 1)'
        BY <1>3, <1>4, <3>1, <4>4, ServedNext DEF framing
      <4>6. InTransit(S, from + w, cut, buffer', chunks', wire', closed')
        <5>1. w \in Nat /\ from + w <= c
          BY <2>1, <2>2, <3>2, <3>7
        <5>2. InTransit(S, from + w, cut, SubSeq(buffer, w + 1, Len(buffer)), chunks, wire, closed)
          BY <1>2, <2>1, <5>1, TransitFrame DEF c
        <5> QED
          BY <1>4, <4>3, <5>2
      <4>7. server'.phase = "idle" => failed'
        <5>1. CASE failed' = TRUE
          BY <5>1
        <5>2. CASE server' = [phase |-> "serving", framing |-> Framed(framing), message |-> m]
          BY <5>2
        <5> QED
          BY <4>4, <5>1, <5>2
      <4>8. Flows(S, start, m + 1, cut)'
        BY <3>2, <4>6, <4>7 DEF Flows, Waiting
      <4>9. Cause(S)'
        BY <1>1, <1>4, <3>1, <4>4 DEF Cause, Misunderstood
      <4>10. m + 1 \in 1..(Len(sent') + 1)
        BY <1>5, <3>1
      <4> QED
        BY <1>5, <4>5, <4>8, <4>9, <4>10, StreamFrom
    <3>8. Len(buffer) < w \/ Len(buffer) >= w
      <4>1. Len(buffer) \in Int
        BY <3>3 DEF BeginsWith
      <4> QED
        BY <3>2, <4>1
    <3> QED
      BY ONLY <3>5, <3>6, <3>7, <3>8
  <2> QED
    BY <2>3, <2>4
<1> QED
  BY <1>3, <1>7, <1>8

(* At the end of the input, what JSON.parse accepts is the message before    *)
(* which the parser stands.                                                  *)
LEMMA LastMessage ==
  ASSUME sent \in Seq(Message), NEW m \in DOMAIN sent, BeginsWith(buffer, m, sent[m].framing),
         Len(buffer) >= Width(sent[m].framing), NEW n \in Parsed(Remaining)
  PROVE  n = m /\ sent[m].kind # "not JSON" /\ Framed(sent[m].framing) = "ndjson"
<1> DEFINE framing == sent[m].framing
           w == Width(framing)
           t == Tokens(m, framing)
<1>1. framing \in Framings /\ m \in Nat \ {0}
  <2>1. sent[m] \in Message /\ m \in 1..Len(sent) /\ Len(sent) \in Nat
    OBVIOUS
  <2> QED
    BY <2>1 DEF Message
<1>2. w \in 2..5
  BY <1>1, TokensAre
<1>3. /\ framing # "content-length" => t[1] = Token(m, "text")
      /\ framing = "content-length" => t[1] = Token(m, "head")
  BY <1>1, TokensAre
<1> HIDE DEF w, t
<1>4. buffer \in Seq(AToken) /\ \A k \in 1..Len(buffer) : k <= w => buffer[k] = t[k]
  BY DEF BeginsWith, w, t
<1>5. Len(buffer) \in Nat /\ Len(buffer) >= 1 /\ 1 \in 1..Len(buffer) /\ 1 <= w
  <2>1. Len(buffer) \in Nat /\ Len(buffer) >= w
    BY <1>4 DEF w
  <2> QED
    BY <1>2, <2>1
<1>6. buffer[1] = t[1]
  BY <1>4, <1>5
<1>7. t[1].part # "newline"
  BY <1>3 DEF Token
<1>8. Remaining # <<>> /\ Remaining[1] = buffer[1]
  BY <1>4, <1>5, <1>6, <1>7, RemainingKeepsFirst
<1>9. Remaining = <<Token(n, "text"), Token(n, "text")>> /\ n \in DOMAIN sent /\ sent[n].kind # "not JSON"
  BY DEF Parsed
<1>10. t[1] = Token(n, "text")
  <2>1. Remaining[1] = Token(n, "text")
    BY <1>9
  <2> QED
    BY <1>6, <1>8, <2>1
<1>11. framing # "content-length"
  BY <1>3, <1>10 DEF Token
<1>12. n = m
  BY <1>3, <1>10, <1>11 DEF Token
<1> QED
  BY <1>9, <1>11, <1>12 DEF Framed, framing

(* At the end of the input what is left is the last message, without a       *)
(* newline, or nothing.                                                      *)
LEMMA StreamFinish ==
  ASSUME SentInv, StreamInv, Finish
  PROVE  StreamInv' /\ chunks' \in Seq(Pieces)
<1>1. PICK S, start : Stream(S, start) /\ Cause(S)
  BY StreamHas
<1>2. /\ S \in Seq(AToken) /\ Starts(S, start, sent) /\ Len(sent) \in Nat /\ Len(S) \in Nat
      /\ \A m \in 1..(Len(sent) + 1) : start[m] \in Nat /\ start[m] <= Len(S)
      /\ chunks \in Seq(Pieces) /\ sent \in Seq(Message) /\ DOMAIN sent = 1..Len(sent)
  BY <1>1, StreamParts
<1>3. PICK m \in 1..(Len(sent) + 1) : Served(m) /\ (Over \/ \E cut : Flows(S, start, m, cut))
  BY <1>1, StreamParts
<1>4. /\ server.phase = "idle" /\ chunks # <<>> /\ Head(chunks) = End
      /\ chunks' = Tail(chunks) /\ buffer' = <<>>
      /\ UNCHANGED <<sent, wire, closed, out>>
  BY DEF Finish
<1>5. \/ Remaining = <<>> /\ server' = server /\ failed' = failed
      \/ Remaining # <<>> /\ Dispatch(Remaining, "ndjson")
  BY DEF Finish
<1>6. PICK cut : Flows(S, start, m, cut)
  BY <1>3, <1>4 DEF Over
<1> DEFINE from == start[m]
<1>7. from \in Nat /\ from <= Len(S) /\ InTransit(S, from, cut, buffer, chunks, wire, closed)
      /\ Waiting(start, m, cut[0])
  BY <1>2, <1>6 DEF Flows
<1> HIDE DEF from
<1>8. Finished(closed) /\ Tail(chunks) = <<>> /\ wire = <<>> /\ cut[0] = Len(S)
  BY <1>2, <1>4, <1>7, TransitFinish
<1>9. buffer = SubSeq(S, from + 1, Len(S))
  BY <1>7, <1>8 DEF InTransit
<1>10. Over'
  BY <1>4, <1>8 DEF Over, Finished
<1>11. Starts(S, start, sent') /\ Len(sent') = Len(sent) /\ chunks' \in Seq(Pieces)
  BY <1>2, <1>4, <1>8
<1>12. server.phase # "serving"
  BY <1>4
<1>13. CASE Remaining = <<>>
  <2>1. server' = server /\ failed' = failed
    BY <1>5, <1>13
  <2>2. Served(m)'
    BY <1>3, <1>4, <2>1, ServedSame
  <2>3. Cause(S)'
    BY <1>1, <1>4, <2>1 DEF Cause, Misunderstood
  <2> QED
    BY <1>10, <1>11, <2>2, <2>3, StreamFrom
<1>14. CASE Remaining # <<>>
  <2>1. m \in DOMAIN sent /\ m \in 1..Len(sent)
    <3> SUFFICES ASSUME m = Len(sent) + 1 PROVE FALSE
      BY <1>2
    <3>1. from = Len(S)
      BY <1>2 DEF from, Starts
    <3>2. buffer = <<>>
      BY <1>2, <1>9, <3>1
    <3> QED
      BY <1>14, <3>2, RemainingOfNothing
  <2> DEFINE framing == sent[m].framing
             w == Width(framing)
  <2>2. /\ framing \in Framings /\ m \in Nat \ {0} /\ w \in 2..5
        /\ start[m + 1] = from + w /\ start[m + 1] <= Len(S) /\ start[m + 1] \in Nat
    BY <1>2, <2>1, MessagePlace DEF from
  <2>3. BeginsWith(buffer, m, framing) /\ Len(buffer) = Len(S) - from
    <3> DEFINE c == Len(S)
    <3>1. c \in Nat /\ start[m] <= c /\ c <= Len(S)
      BY <1>2, <1>7 DEF from
    <3> HIDE DEF c
    <3>2. LET held == SubSeq(S, start[m] + 1, c) IN
          BeginsWith(held, m, sent[m].framing) /\ Len(held) = c - start[m]
      BY <1>2, <2>1, <3>1, HeldTokens
    <3>3. buffer = SubSeq(S, start[m] + 1, c)
      BY <1>9 DEF from, c
    <3> QED
      BY <3>2, <3>3 DEF from, c
  <2>4. Len(buffer) >= w
    <3> HIDE DEF w
    <3> QED
      BY <1>2, <1>7, <2>2, <2>3
  <2>5. CASE Parsed(Remaining) = {}
    <3>1. server' = Idle /\ failed' = TRUE
      BY <1>5, <1>14, <2>5 DEF Dispatch
    <3>2. Served(m)'
      BY <1>3, <1>4, <1>12, <3>1, ServedIdle DEF Idle
    <3>3. Cause(S)'
      <4>1. CASE failed
        BY <1>1, <1>4, <3>1, <4>1 DEF Cause, Misunderstood
      <4>2. CASE ~failed
        <5>1. framing = "unterminated"
          <6>1. ~(cut[0] < start[m + 1]) /\ m # Len(sent) + 1
            BY <1>2, <1>8, <2>1, <2>2
          <6> QED
            BY <1>4, <1>7, <4>2, <6>1 DEF Waiting
        <5>2. w = 2 /\ m = Len(sent)
          BY <2>1, <5>1 DEF SentInv, Width
        <5>3. start[m + 1] = Len(S)
          BY <1>2, <5>2 DEF Starts
        <5>4. Len(buffer) = 2
          BY <1>2, <1>7, <2>2, <2>3, <5>2, <5>3
        <5>5. buffer = Texts(m)
          <6>1. Tokens(m, framing)[1] = Token(m, "text") /\ Tokens(m, framing)[2] = Token(m, "text")
            BY <2>2, <5>1, TokensAre
          <6>2. buffer \in Seq(AToken) /\ buffer[1] = Token(m, "text") /\ buffer[2] = Token(m, "text")
            <7>1. buffer \in Seq(AToken) /\ \A k \in 1..Len(buffer) : k <= w => buffer[k] = Tokens(m, framing)[k]
              BY <2>3 DEF BeginsWith
            <7>2. 1 \in 1..Len(buffer) /\ 2 \in 1..Len(buffer) /\ 1 <= w /\ 2 <= w
              <8> HIDE DEF w
              <8> QED
                BY <5>2, <5>4
            <7> HIDE DEF w
            <7> QED
              BY <6>1, <7>1, <7>2
          <6> DEFINE x == Token(m, "text")
          <6>3. x \in AToken
            BY <2>2 DEF Token, AToken
          <6> HIDE DEF x
          <6>4. buffer \in Seq(AToken) /\ buffer[1] = x /\ buffer[2] = x
            BY <6>2 DEF x
          <6>5. buffer = <<x, x>>
            BY <5>4, <6>3, <6>4
          <6> QED
            BY <6>5 DEF x, Texts
        <5>6. Remaining = Texts(m)
          BY <2>2, <5>5, RemainingOfTexts
        <5>7. sent[m].kind = "not JSON"
          <6>1. Parsed(Texts(m)) = IF sent[m].kind = "not JSON" THEN {} ELSE {m}
            BY <1>2, <2>1, ParsedTexts
          <6>2. Parsed(Texts(m)) = {}
            BY <2>5, <5>6
          <6> QED
            BY <6>1, <6>2
        <5> QED
          BY <1>4, <2>1, <5>7 DEF Cause, Misunderstood
      <4> QED
        BY <4>1, <4>2
    <3> QED
      BY <1>10, <1>11, <3>2, <3>3, StreamFrom
  <2>6. CASE Parsed(Remaining) # {}
    <3> DEFINE n == CHOOSE n \in Parsed(Remaining) : TRUE
    <3>1. n \in Parsed(Remaining)
      BY <2>6
    <3>2. server' = [phase |-> "serving", framing |-> "ndjson", message |-> n] /\ failed' = failed
      BY <1>5, <1>14, <2>6 DEF Dispatch
    <3> HIDE DEF n
    <3>3. n = m /\ sent[m].kind # "not JSON" /\ Framed(sent[m].framing) = "ndjson"
      BY <1>2, <2>1, <2>3, <2>4, <3>1, LastMessage
    <3>4. Served(m + 1)'
      BY <1>3, <1>4, <1>12, <2>1, <3>2, <3>3, ServedNext
    <3>5. Cause(S)'
      BY <1>1, <1>4, <3>2 DEF Cause, Misunderstood
    <3>6. m + 1 \in 1..(Len(sent') + 1)
      BY <1>2, <1>11, <2>1
    <3> QED
      BY <1>10, <1>11, <3>4, <3>5, <3>6, StreamFrom
  <2> QED
    BY <2>5, <2>6
<1> QED
  BY <1>13, <1>14

----------------------------------------------------------------------------
\* The service

(* The message that is served is the last one taken out of the input, and    *)
(* every request before it has been answered.                                *)
LEMMA WhatIsServed ==
  ASSUME SentInv, StreamInv, server.phase = "serving"
  PROVE  /\ server.message \in DOMAIN sent /\ server.message \in Nat
         /\ server.framing = Framed(sent[server.message].framing)
         /\ Answered = {n \in 1..(server.message - 1) : IsRequest(n)}
<1>1. PICK S, start : Stream(S, start) /\ Cause(S)
  BY StreamHas
<1>2. PICK m \in 1..(Len(sent) + 1) : Served(m)
  BY <1>1, StreamParts
<1>3. /\ server.message = m - 1 /\ m - 1 \in DOMAIN sent
      /\ server.framing = Framed(sent[m - 1].framing)
      /\ Answered = {n \in 1..(Before(m) - 1) : IsRequest(n)} /\ Before(m) = m - 1
  BY <1>2 DEF Served, Before
<1>4. sent \in Seq(Message)
  BY DEF SentInv
<1>5. m - 1 \in Nat
  BY ONLY <1>3, <1>4
<1> QED
  BY <1>3, <1>5

(* An answer is added to those written.                                      *)
LEMMA OneMoreAnswer ==
  ASSUME SentInv, StreamInv, OutInv, server.phase = "serving", NEW body \in Bodies,
         Answer(body)
  PROVE  /\ out' \in Seq(AnAnswer) /\ Len(out') = Len(out) + 1 /\ Len(out) \in Nat
         /\ \A i \in 1..Len(out) : out'[i] = out[i]
         /\ out'[Len(out) + 1] =
              [message |-> server.message, framing |-> server.framing, body |-> body]
         /\ sent' = sent
         /\ Answered' = Answered \cup {server.message}
<1> DEFINE answer == [message |-> server.message, framing |-> server.framing, body |-> body]
<1>1. out' = Append(out, answer) /\ sent' = sent
  BY DEF Answer, AnswerFraming
<1>2. answer \in AnAnswer
  BY WhatIsServed DEF AnAnswer, Framed
<1>3. answer.message = server.message
  OBVIOUS
<1> HIDE DEF answer
<1>4. out \in Seq(AnAnswer)
  BY DEF OutInv
<1>5. /\ out' \in Seq(AnAnswer) /\ Len(out') = Len(out) + 1 /\ Len(out) \in Nat
      /\ \A i \in 1..Len(out) : out'[i] = out[i]
      /\ out'[Len(out) + 1] = answer
  BY ONLY <1>1, <1>2, <1>4
<1>6. DOMAIN out = 1..Len(out) /\ DOMAIN out' = 1..(Len(out) + 1)
  BY <1>4, <1>5
<1>7. \A i : i \in 1..(Len(out) + 1) <=> i \in 1..Len(out) \/ i = Len(out) + 1
  BY <1>5
<1>8. Answered' = Answered \cup {server.message}
  BY <1>3, <1>5, <1>6, <1>7 DEF Answered
<1> QED
  BY <1>1, <1>5, <1>8 DEF answer

(* An answer goes to the request that is served.                             *)
LEMMA StreamAnswer ==
  ASSUME SentInv, StreamInv, OutInv, server.phase = "serving", NEW body \in Bodies,
         Answer(body), IsRequest(server.message)
  PROVE  StreamInv'
<1>1. PICK S, start : Stream(S, start) /\ Cause(S)
  BY StreamHas
<1>2. PICK m \in 1..(Len(sent) + 1) : Served(m) /\ (Over \/ \E cut : Flows(S, start, m, cut))
  BY <1>1, StreamParts
<1>3. server' = [server EXCEPT !.phase = "parsing"]
      /\ UNCHANGED <<sent, wire, closed, chunks, buffer, failed>>
  BY DEF Answer, input
<1>4. server'.phase = "parsing"
  BY <1>3 DEF SentInv
<1>5. Served(m)'
  <2>1. server.message = m - 1 /\ m \in Nat /\ m - 1 \in DOMAIN sent /\ Before(m) = m - 1
    <3>1. sent \in Seq(Message)
      BY DEF SentInv
    <3>2. Len(sent) \in Nat
      BY ONLY <3>1
    <3>3. server.message = m - 1 /\ m - 1 \in DOMAIN sent /\ Before(m) = m - 1
      BY <1>2 DEF Served, Before
    <3> QED
      BY ONLY <3>2, <3>3, m \in 1..(Len(sent) + 1)
  <2>2. Answered = {n \in 1..((m - 1) - 1) : IsRequest(n)}
    BY <1>2, <2>1 DEF Served
  <2>3. Answered' = Answered \cup {m - 1}
    BY <2>1, OneMoreAnswer
  <2>4. \A n : IsRequest(n)' = IsRequest(n)
    BY <1>3 DEF IsRequest
  <2>5. m - 1 \in 1..(m - 1)
    <3>1. sent \in Seq(Message)
      BY DEF SentInv
    <3>2. m - 1 \in 1..Len(sent)
      BY ONLY <2>1, <3>1
    <3> QED
      BY <2>1, <3>2
  <2>6. \A n : n \in 1..(m - 1) <=> n \in 1..((m - 1) - 1) \/ n = m - 1
    BY ONLY <2>1, <2>5
  <2>7. IsRequest(m - 1)
    BY <2>1
  <2>8. Answered' = {n \in 1..(m - 1) : IsRequest(n)'}
    BY <2>2, <2>3, <2>4, <2>6, <2>7
  <2>9. Before(m)' = m
    BY <1>4 DEF Before
  <2> QED
    BY <1>4, <2>8, <2>9 DEF Served
<1>6. Over' \/ \E cut : Flows(S, start, m, cut)'
  BY <1>2, <1>3, <1>4 DEF Over, Flows, Waiting
<1>7. Cause(S)'
  BY <1>1, <1>3 DEF Cause, Misunderstood
<1>8. Starts(S, start, sent') /\ m \in 1..(Len(sent') + 1)
  BY <1>1, <1>3, StreamParts
<1> QED
  BY <1>5, <1>6, <1>7, <1>8, StreamFrom

(* A notification gets none, and an unknown one is a reason to fail.         *)
LEMMA StreamNotification ==
  ASSUME SentInv, StreamInv, ServeNotification
  PROVE  StreamInv'
<1>1. PICK S, start : Stream(S, start) /\ Cause(S)
  BY StreamHas
<1>2. PICK m \in 1..(Len(sent) + 1) : Served(m) /\ (Over \/ \E cut : Flows(S, start, m, cut))
  BY <1>1, StreamParts
<1>3. /\ server.phase = "serving"
      /\ sent[server.message].kind \in {"initialized", "unknown notification"}
      /\ UNCHANGED <<sent, wire, closed, chunks, buffer, out>>
      /\ \/ server' = [server EXCEPT !.phase = "parsing"] /\ failed' = failed
         \/ /\ server' = Idle /\ failed' = TRUE
            /\ sent[server.message].kind = "unknown notification"
  BY DEF ServeNotification, Serves, input
<1>4. server'.phase \in {"parsing", "idle"} /\ (server'.phase = "idle" => failed')
  <2>1. CASE server' = [server EXCEPT !.phase = "parsing"]
    <3>1. server'.phase = "parsing"
      BY <2>1 DEF SentInv
    <3> QED
      BY <3>1
  <2>2. CASE server' = Idle /\ failed' = TRUE
    BY <2>2 DEF Idle
  <2> QED
    BY <1>3, <2>1, <2>2
<1>5. Served(m)'
  <2>1. server.message = m - 1 /\ m \in Nat /\ m - 1 \in DOMAIN sent /\ Before(m) = m - 1
    <3>1. sent \in Seq(Message)
      BY DEF SentInv
    <3>2. Len(sent) \in Nat
      BY ONLY <3>1
    <3>3. server.message = m - 1 /\ m - 1 \in DOMAIN sent /\ Before(m) = m - 1
      BY <1>2, <1>3 DEF Served, Before
    <3> QED
      BY ONLY <3>2, <3>3, m \in 1..(Len(sent) + 1)
  <2>2. Answered = {n \in 1..((m - 1) - 1) : IsRequest(n)}
    BY <1>2, <2>1 DEF Served
  <2>3. Answered' = Answered /\ \A n : IsRequest(n)' = IsRequest(n)
    BY <1>3 DEF IsRequest, Answered
  <2>4. ~IsRequest(m - 1)
    BY <1>3, <2>1 DEF IsRequest
  <2>5. m - 1 \in 1..(m - 1)
    <3>1. sent \in Seq(Message)
      BY DEF SentInv
    <3>2. m - 1 \in 1..Len(sent)
      BY ONLY <2>1, <3>1
    <3> QED
      BY <2>1, <3>2
  <2>6. \A n : n \in 1..(m - 1) <=> n \in 1..((m - 1) - 1) \/ n = m - 1
    BY ONLY <2>1, <2>5
  <2>7. Answered' = {n \in 1..(m - 1) : IsRequest(n)'}
    BY <2>2, <2>3, <2>4, <2>6
  <2>8. Before(m)' = m
    BY <1>4 DEF Before
  <2> QED
    BY <1>4, <2>7, <2>8 DEF Served
<1>6. Over' \/ \E cut : Flows(S, start, m, cut)'
  BY <1>2, <1>3, <1>4 DEF Over, Flows, Waiting
<1>7. Cause(S)'
  <2>1. CASE failed' = failed
    BY <1>1, <1>3, <2>1 DEF Cause, Misunderstood
  <2>2. CASE sent[server.message].kind = "unknown notification"
    BY <1>3, <2>2, WhatIsServed DEF Cause, Misunderstood
  <2> QED
    BY <1>3, <2>1, <2>2
<1>8. Starts(S, start, sent') /\ m \in 1..(Len(sent') + 1)
  BY <1>1, <1>3, StreamParts
<1> QED
  BY <1>5, <1>6, <1>7, <1>8, StreamFrom

(* An answer comes after those to the requests before it, and to no others.  *)
RightAnswer(n, framing, earlier) ==
  /\ IsRequest(n)
  /\ framing = Framed(sent[n].framing)
  /\ earlier = {k \in 1..(n - 1) : IsRequest(k)}

(* What AnswersInOrder asks of each answer.                                  *)
LEMMA RightAnswers ==
  AnswersInOrder <=>
    \A i \in DOMAIN out :
      RightAnswer(out[i].message, out[i].framing, {out[j].message : j \in 1..(i - 1)})
BY DEF AnswersInOrder, RightAnswer, Framed

(* An answer that is written keeps the answers in order.                     *)
LEMMA OutAnswer ==
  ASSUME SentInv, StreamInv, OutInv, server.phase = "serving", NEW body \in Bodies,
         Answer(body), IsRequest(server.message), Generation' = Generation,
         sent[server.message].kind = "export" => body \in 0..Generation
  PROVE  OutInv'
<1> DEFINE N == Len(out)
           last == N + 1
<1>0. PICK q : q = server.message
  OBVIOUS
<1>1. /\ out' \in Seq(AnAnswer) /\ Len(out') = last /\ N \in Nat /\ DOMAIN out' = 1..last
      /\ \A i \in 1..N : out'[i] = out[i]
      /\ out'[last] = [message |-> q, framing |-> server.framing, body |-> body]
      /\ sent' = sent
  BY <1>0, OneMoreAnswer
<1>2. /\ q \in DOMAIN sent /\ server.framing = Framed(sent[q].framing)
      /\ Answered = {n \in 1..(q - 1) : IsRequest(n)} /\ IsRequest(q)
  BY <1>0, WhatIsServed
<1>3. /\ DOMAIN out = 1..N
      /\ \A i \in 1..N : /\ out[i].message \in DOMAIN sent
                         /\ sent[out[i].message].kind = "export" => out[i].body \in 0..Generation
      /\ AnswersInOrder
  <2>1. out \in Seq(AnAnswer)
    BY DEF OutInv
  <2> QED
    BY <2>1 DEF OutInv
<1>4. \A n : IsRequest(n)' = IsRequest(n)
  BY <1>1 DEF IsRequest
<1>5. Answered = {out[j].message : j \in 1..N}
  BY <1>3 DEF Answered
<1>6. PICK z : z = last
  OBVIOUS
<1>7. z - 1 = N /\ z \in 1..z /\ \A i \in 1..z : i \in 1..N \/ i = z
  BY <1>1, <1>6
<1> HIDE DEF last, N
<1>8. ASSUME NEW i \in 1..z
      PROVE  /\ out'[i].message \in DOMAIN sent'
             /\ sent'[out'[i].message].kind = "export" => out'[i].body \in 0..Generation'
  BY <1>0, <1>1, <1>2, <1>3, <1>6, <1>7
<1>9. ASSUME NEW n, NEW framing, NEW earlier, RightAnswer(n, framing, earlier)
      PROVE  RightAnswer(n, framing, earlier)'
  BY <1>1, <1>4, <1>9 DEF RightAnswer
<1>10. ASSUME NEW i \in 1..z
      PROVE  RightAnswer(out[i].message, out[i].framing, {out[j].message : j \in 1..(i - 1)})'
  <2>1. CASE i \in 1..N
    <3>1. \A j \in 1..(i - 1) : j \in 1..N
      BY <1>1, <2>1
    <3>2. out'[i] = out[i] /\ \A j \in 1..(i - 1) : out'[j] = out[j]
      BY <1>1, <2>1, <3>1
    <3>3. PICK n, framing, earlier :
            /\ n = out[i].message /\ framing = out[i].framing
            /\ earlier = {out[j].message : j \in 1..(i - 1)}
      OBVIOUS
    <3>4. RightAnswer(n, framing, earlier)
      BY <1>3, <2>1, <3>3, RightAnswers
    <3>5. RightAnswer(n, framing, earlier)'
      BY <1>9, <3>4
    <3>6. /\ n = out'[i].message /\ framing = out'[i].framing
          /\ earlier = {out'[j].message : j \in 1..(i - 1)}
      BY <3>2, <3>3
    <3> QED
      BY <3>5, <3>6
  <2>2. CASE i = z
    <3>1. PICK framing, earlier : framing = server.framing /\ earlier = Answered
      OBVIOUS
    <3>2. RightAnswer(q, framing, earlier)
      BY <1>2, <3>1 DEF RightAnswer
    <3>3. RightAnswer(q, framing, earlier)'
      BY <1>9, <3>2
    <3>4. {out'[j].message : j \in 1..(i - 1)} = earlier
      BY <1>1, <1>5, <1>7, <2>2, <3>1
    <3>5. out'[i].message = q /\ out'[i].framing = framing
      BY <1>1, <1>6, <2>2, <3>1
    <3> QED
      BY <3>3, <3>4, <3>5
  <2> QED
    BY <1>7, <2>1, <2>2
<1>11. AnswersInOrder'
  <2>1. DOMAIN out' = 1..z
    BY <1>1, <1>6
  <2>2. \A i \in DOMAIN out' :
          RightAnswer(out[i].message, out[i].framing, {out[j].message : j \in 1..(i - 1)})'
    BY <1>10, <2>1
  <2> QED
    BY <2>2 DEF AnswersInOrder, RightAnswer, Framed
<1> QED
  BY <1>1, <1>6, <1>8, <1>11 DEF OutInv

(* Other steps write no answer.                                              *)
LEMMA OutStays ==
  ASSUME SentInv, OutInv, out' = out, Generation \in Int, Generation' \in Int, Generation <= Generation',
         sent' = sent \/ \E message \in Message : sent' = Append(sent, message)
  PROVE  OutInv'
<1>1. /\ DOMAIN sent \subseteq DOMAIN sent' /\ \A n \in DOMAIN sent : sent'[n] = sent[n]
      /\ \A n \in DOMAIN sent : \A k \in 1..(n - 1) : k \in DOMAIN sent
  <2>1. sent \in Seq(Message)
    BY DEF SentInv
  <2>2. \A n \in DOMAIN sent : \A k \in 1..(n - 1) : k \in DOMAIN sent
    BY ONLY <2>1
  <2>3. CASE sent' = sent
    BY <2>2, <2>3
  <2>4. ASSUME NEW message \in Message, sent' = Append(sent, message)
        PROVE  DOMAIN sent \subseteq DOMAIN sent' /\ \A n \in DOMAIN sent : sent'[n] = sent[n]
    <3>1. /\ DOMAIN sent \subseteq DOMAIN Append(sent, message)
          /\ \A n \in DOMAIN sent : Append(sent, message)[n] = sent[n]
      BY ONLY <2>1, message \in Message
    <3> QED
      BY ONLY <2>4, <3>1
  <2> QED
    BY <2>2, <2>3, <2>4
<1>2. out \in Seq(AnAnswer) /\ \A i \in DOMAIN out :
        /\ out[i].message \in DOMAIN sent
        /\ sent[out[i].message].kind = "export" => out[i].body \in 0..Generation
  BY DEF OutInv
<1>3. \A n \in DOMAIN sent : IsRequest(n)' = IsRequest(n)
  BY <1>1 DEF IsRequest
<1>4. \A body : body \in 0..Generation => body \in 0..Generation'
  OBVIOUS
<1>5. ASSUME NEW i \in DOMAIN out
      PROVE  RightAnswer(out[i].message, out[i].framing, {out[j].message : j \in 1..(i - 1)})'
  <2>1. PICK n, framing, earlier :
          /\ n = out[i].message /\ framing = out[i].framing
          /\ earlier = {out[j].message : j \in 1..(i - 1)}
    OBVIOUS
  <2>2. RightAnswer(n, framing, earlier) /\ n \in DOMAIN sent
    BY <1>2, <2>1, RightAnswers DEF OutInv
  <2>3. {k \in 1..(n - 1) : IsRequest(k)'} = {k \in 1..(n - 1) : IsRequest(k)}
    BY <1>1, <1>3, <2>2
  <2>4. IsRequest(n)' /\ sent'[n] = sent[n]
    BY <1>1, <1>3, <2>2 DEF RightAnswer
  <2>5. RightAnswer(n, framing, earlier)'
    BY <2>2, <2>3, <2>4 DEF RightAnswer
  <2>6. /\ n = out'[i].message /\ framing = out'[i].framing
        /\ earlier = {out'[j].message : j \in 1..(i - 1)}
    BY <2>1
  <2> QED
    BY <2>5, <2>6
<1>6. AnswersInOrder'
  BY <1>5 DEF AnswersInOrder, RightAnswer, Framed
<1> QED
  BY <1>1, <1>2, <1>4, <1>6 DEF OutInv

----------------------------------------------------------------------------
\* The pages

(* The identifiers of a sequence of items.                                   *)
LEMMA IdsOfSequence ==
  ASSUME NEW s \in Seq(Statement)
  PROVE  /\ Ids(s) \in Seq(Nat) /\ Len(Ids(s)) = Len(s) /\ Len(s) \in Nat
         /\ \A i \in 1..Len(s) : Ids(s)[i] = s[i].id
<1>1. Len(s) \in Nat /\ DOMAIN s = 1..Len(s) /\ \A i \in 1..Len(s) : s[i].id \in Nat
  BY StatementsOf
<1> QED
  BY <1>1 DEF Ids

(* The identifiers of a part are a part of the identifiers.                  *)
LEMMA IdsOfPart ==
  ASSUME NEW s \in Seq(Statement), NEW a \in Nat, NEW b \in Nat, a <= b, b <= Len(s)
  PROVE  Ids(SubSeq(s, a + 1, b)) = SubSeq(Ids(s), a + 1, b)
<1> DEFINE p == SubSeq(s, a + 1, b)
           ids == Ids(s)
           q == SubSeq(ids, a + 1, b)
<1>1. p \in Seq(Statement) /\ Len(p) = b - a /\ \A i \in 1..(b - a) : p[i] = s[a + i]
  BY PartOf
<1>2. ids \in Seq(Nat) /\ Len(ids) = Len(s) /\ Len(s) \in Nat /\ \A i \in 1..Len(s) : ids[i] = s[i].id
  BY IdsOfSequence
<1> HIDE DEF p, ids
<1>3. q \in Seq(Nat) /\ Len(q) = b - a /\ \A i \in 1..(b - a) : q[i] = ids[a + i]
  BY <1>2, PartOf
<1> HIDE DEF q
<1>4. Ids(p) \in Seq(Nat) /\ Len(Ids(p)) = b - a /\ \A i \in 1..(b - a) : Ids(p)[i] = p[i].id
  BY <1>1, IdsOfSequence
<1>5. \A i \in 1..(b - a) : Ids(p)[i] = q[i]
  <2>1. \A i \in 1..(b - a) : a + i \in 1..Len(s)
    BY <1>2
  <2> QED
    BY <1>1, <1>2, <1>3, <1>4, <2>1
<1> DEFINE r == Ids(p)
<1>6. r \in Seq(Nat) /\ Len(r) = Len(q) /\ \A i \in 1..Len(r) : r[i] = q[i]
  BY <1>3, <1>4, <1>5
<1> HIDE DEF r
<1>7. r = q
  BY <1>3, <1>6, SameSequence
<1> QED
  BY <1>7 DEF r, q, p, ids

(* All of a sequence, and none of it.                                        *)
LEMMA WholeSequence ==
  ASSUME NEW T, NEW s \in Seq(T)
  PROVE  SubSeq(s, 1, Len(s)) = s /\ SubSeq(s, 1, 0) = <<>>
<1>1. Len(s) \in Nat
  OBVIOUS
<1> DEFINE p == SubSeq(s, 1, Len(s))
           e == SubSeq(s, 1, 0)
<1>2. p \in Seq(T) /\ Len(p) = Len(s) /\ \A i \in 1..Len(s) : p[i] = s[i]
  BY <1>1
<1>3. e = <<>>
  OBVIOUS
<1> HIDE DEF p
<1>4. p = s
  BY <1>2, SameSequence
<1> QED
  BY <1>3, <1>4 DEF p

(* A page is a stretch of the items from its cursor on, and its next cursor  *)
(* is where the stretch ends, unless the items end there.                    *)
Stretch(page, all, cursor, end) ==
  /\ end \in Nat /\ cursor <= end /\ end <= Len(all)
  /\ page.items = SubSeq(all, cursor + 1, end) /\ page.cursor = cursor
  /\ page.next = IF end < Len(all) THEN end ELSE None

(* A page is such a stretch, whatever fits in it.                            *)
LEMMA PageIsStretch ==
  ASSUME NEW all \in Seq(Statement), NEW cursor \in Nat, cursor <= Len(all)
  PROVE  \E end : Stretch(Page(all, cursor, PageItems), all, cursor, end)
<1> DEFINE limit == Min({PageItems, PageItems})
           high == Min({cursor + limit, Len(all)})
           window == SubSeq(all, cursor + 1, high)
           fitting == {n \in 0..Len(window) : Total(SubSeq(window, 1, n)) <= PageBudget}
           returned == Max(fitting)
           end == cursor + returned
           page == Page(all, cursor, PageItems)
<1>0. PageItems \in Nat /\ PageBudget \in Nat /\ Len(all) \in Nat
  BY SizeAssumption
<1>1. limit \in Nat
  BY <1>0, SmallerOf
<1> HIDE DEF limit
<1>2. high \in Nat /\ cursor <= high /\ high <= Len(all)
  <2> DEFINE s == {cursor + limit, Len(all)}
  <2>1. s \in SUBSET Nat /\ s # {}
    BY <1>0, <1>1
  <2>2. Min(s) \in s /\ \A x \in s : Min(s) <= x
    BY <2>1, MinChosen
  <2>3. cursor <= cursor + limit /\ cursor + limit \in Nat
    BY <1>1
  <2>4. Min(s) = cursor + limit \/ Min(s) = Len(all)
    BY <2>2
  <2>5. Min(s) <= Len(all)
    BY <2>2
  <2> DEFINE m == Min(s)
  <2>6. m \in Nat /\ cursor <= m /\ m <= Len(all)
    <3> HIDE DEF s
    <3> QED
      BY <1>0, <2>3, <2>4, <2>5
  <2> QED
    BY <2>6
<1> HIDE DEF high
<1>3. window \in Seq(Statement) /\ Len(window) = high - cursor /\ Len(window) \in Nat
  <2>1. window \in Seq(Statement) /\ Len(window) = high - cursor
    BY <1>2, PartOf
  <2> QED
    BY <1>2, <2>1
<1>4. returned \in 0..Len(window)
  <2> HIDE DEF window
  <2>1. SubSeq(window, 1, 0) = <<>>
    BY <1>3, WholeSequence
  <2>2. 0 \in fitting
    <3>1. Total(SubSeq(window, 1, 0)) = 0
      BY ONLY <2>1, TotalOfNone
    <3>2. Total(SubSeq(window, 1, 0)) <= PageBudget
      BY ONLY <1>0, <3>1
    <3>3. 0 \in 0..Len(window)
      BY <1>3
    <3> QED
      BY ONLY <3>2, <3>3
  <2>3. fitting \in SUBSET (0..Len(window)) /\ fitting # {}
    BY <2>2
  <2> HIDE DEF fitting
  <2>4. Max(fitting) \in fitting
    BY <1>3, <2>3, MaxChosen
  <2> QED
    BY <2>3, <2>4
<1>5. /\ page.items = SubSeq(window, 1, returned) /\ page.cursor = cursor
      /\ page.next = IF end < Len(all) THEN end ELSE None
  <2>1. page = [items |-> SubSeq(window, 1, returned), cursor |-> cursor,
                next |-> IF end < Len(all) THEN end ELSE None,
                omitted |-> Max({0, Len(all) - end})]
    BY DEF Page, NextCursor, OnePage, limit, high
  <2> HIDE DEF page, window, returned
  <2> QED
    BY <2>1
<1> HIDE DEF page, returned
<1>6. end \in Nat /\ cursor <= end /\ end <= Len(all) /\ returned \in Nat /\ returned <= high - cursor
  <2> HIDE DEF window
  <2> QED
    BY <1>0, <1>2, <1>3, <1>4
<1>7. SubSeq(window, 1, returned) = SubSeq(all, cursor + 1, end)
  <2>1. SubSeq(window, 0 + 1, returned) = SubSeq(all, (cursor + 0) + 1, cursor + returned)
    BY <1>2, <1>6, PartOfPart
  <2>2. 0 + 1 = 1 /\ cursor + 0 = cursor
    OBVIOUS
  <2> QED
    BY ONLY <2>1, <2>2
<1> QED
  BY <1>5, <1>6, <1>7 DEF Stretch, page

(* When each item fits a page by itself, a page that starts before the end   *)
(* of the items has at least one.                                            *)
LEMMA PageTakesOne ==
  ASSUME NEW all \in Seq(Statement), NEW cursor \in Nat, cursor < Len(all),
         \A item \in ToSet(all) : item.size <= PageBudget,
         NEW end, Stretch(Page(all, cursor, PageItems), all, cursor, end)
  PROVE  end > cursor
<1> DEFINE limit == Min({PageItems, PageItems})
           high == Min({cursor + limit, Len(all)})
           window == SubSeq(all, cursor + 1, high)
           fitting == {n \in 0..Len(window) : Total(SubSeq(window, 1, n)) <= PageBudget}
           returned == Max(fitting)
           page == Page(all, cursor, PageItems)
<1>0. PageItems \in Nat /\ PageItems >= 1 /\ PageBudget \in Nat /\ Len(all) \in Nat
  BY SizeAssumption, PageItemsAssumption
<1>1. limit \in Nat /\ limit >= 1
  <2>1. {PageItems, PageItems} \in SUBSET Nat /\ {PageItems, PageItems} # {}
    BY <1>0
  <2>2. limit \in {PageItems, PageItems}
    BY <2>1, MinChosen
  <2> QED
    BY <1>0, <2>2
<1> HIDE DEF limit
<1>2. high \in Nat /\ cursor + 1 <= high /\ high <= Len(all)
  <2> DEFINE s == {cursor + limit, Len(all)}
             m == Min(s)
  <2>1. s \in SUBSET Nat /\ s # {}
    BY <1>0, <1>1
  <2>2. m \in s /\ \A x \in s : m <= x
    BY <2>1, MinChosen
  <2>3. m \in Nat /\ (m = cursor + limit \/ m = Len(all)) /\ m <= Len(all)
    BY <2>1, <2>2
  <2>4. m \in Nat /\ cursor + 1 <= m /\ m <= Len(all)
    <3> HIDE DEF m, s
    <3> QED
      BY <1>0, <1>1, <2>3
  <2> QED
    BY <2>4
<1> HIDE DEF high
<1>3. /\ window \in Seq(Statement) /\ Len(window) = high - cursor
      /\ \A i \in 1..(high - cursor) : window[i] = all[cursor + i]
  BY <1>2, PartOf
<1>4. Len(window) \in Nat /\ 1 <= Len(window)
  BY <1>2, <1>3
<1>5. window[1] \in Statement /\ window[1].size <= PageBudget
  <2>1. 1 \in 1..(high - cursor) /\ cursor + 1 \in 1..Len(all)
    BY <1>0, <1>2
  <2>2. window[1] = all[cursor + 1]
    BY <1>3, <2>1
  <2>3. all[cursor + 1] \in Statement /\ all[cursor + 1] \in ToSet(all)
    BY <2>1 DEF ToSet
  <2> HIDE DEF window
  <2> QED
    BY <2>2, <2>3
<1>6. 1 \in fitting
  <2> HIDE DEF window
  <2>1. SubSeq(window, 1, 1) = Append(<<>>, window[1])
    <3> DEFINE one == SubSeq(window, 1, 1)
               x == window[1]
    <3>1. one \in Seq(Statement) /\ Len(one) = 1 /\ one[1] = x
      BY <1>3, <1>4
    <3>2. x \in Statement
      BY <1>5
    <3> HIDE DEF one, x
    <3>3. Append(<<>>, x) \in Seq(Statement) /\ Len(Append(<<>>, x)) = 1 /\ Append(<<>>, x)[1] = x
      BY <3>2
    <3> DEFINE two == Append(<<>>, x)
    <3>4. two \in Seq(Statement) /\ Len(two) = Len(one) /\ \A i \in 1..Len(one) : one[i] = two[i]
      BY <3>1, <3>3
    <3> HIDE DEF two
    <3>5. one = two
      BY <3>1, <3>4, SameSequence
    <3> QED
      BY <3>5 DEF one, two, x
  <2>2. Total(SubSeq(window, 1, 1)) = 0 + window[1].size
    <3>1. <<>> \in Seq(Statement)
      OBVIOUS
    <3> QED
      BY ONLY <1>5, <2>1, <3>1, TotalOfMore, TotalOfNone
  <2>3. window[1].size \in Nat
    BY <1>5 DEF Statement
  <2>4. Total(SubSeq(window, 1, 1)) <= PageBudget
    BY <1>5, <2>2, <2>3
  <2>5. 1 \in 0..Len(window)
    BY <1>4
  <2> QED
    BY ONLY <2>4, <2>5
<1>7. returned \in 0..Len(window) /\ returned >= 1
  <2>1. fitting \in SUBSET (0..Len(window)) /\ fitting # {}
    BY <1>6
  <2> HIDE DEF fitting
  <2>2. Max(fitting) \in fitting /\ \A x \in fitting : x <= Max(fitting)
    BY <1>4, <2>1, MaxChosen
  <2> QED
    BY <1>4, <1>6, <2>1, <2>2
<1>8. page.items = SubSeq(window, 1, returned)
  <2>1. page.items = SubSeq(window, 1, Max({n \in 0..Len(window) : OnePage(SubSeq(window, 1, n))}))
    BY DEF Page, limit, high
  <2>2. {n \in 0..Len(window) : OnePage(SubSeq(window, 1, n))} = fitting
    <3> HIDE DEF window
    <3> QED
      BY DEF OnePage
  <2> HIDE DEF page, window
  <2> QED
    BY <2>1, <2>2
<1>9. page.items = SubSeq(all, cursor + 1, end) /\ end \in Nat /\ cursor <= end /\ end <= Len(all)
  BY DEF Stretch
<1> HIDE DEF page, returned
<1>10. Len(SubSeq(window, 1, returned)) = returned
  <2> HIDE DEF window
  <2> QED
    BY <1>3, <1>4, <1>7
<1>11. Len(SubSeq(all, cursor + 1, end)) = end - cursor
  BY <1>9, PartOf
<1>12. returned \in Nat /\ returned = end - cursor
  <2>1. returned = end - cursor
    BY ONLY <1>8, <1>9, <1>10, <1>11
  <2>2. returned \in Nat
    BY <1>4, <1>7
  <2> QED
    BY <2>1, <2>2
<1> HIDE DEF window
<1> QED
  BY <1>7, <1>9, <1>12

(* What a client has collected is the beginning of the items of one          *)
(* generation, up to the cursor it has.                                      *)
Collection(pages, all) ==
  \/ pages.next = None /\ pages.ids = Ids(all)
  \/ pages.next \in 0..Len(all) /\ pages.ids = SubSeq(Ids(all), 1, pages.next)

PagesInv ==
  /\ book = [generation |-> book.generation, ids |-> book.ids, next |-> book.next]
  /\ book.generation \in 0..Generation
  /\ Collection(book, versions[book.generation + 1])

(* One read is under way at a time, from the cursor that the client has.     *)
Unread(n) == sent[n].kind = "read" /\ n \notin Answered
ReadInv ==
  /\ \A n \in DOMAIN sent : Unread(n) => sent[n].cursor = NextPage
  /\ \A n, k \in DOMAIN sent : Unread(n) /\ Unread(k) => n = k

BookInv == PagesInv /\ ReadInv

(* The versions that a behaviour has seen so far.                            *)
LEMMA VersionType ==
  ASSUME TaskInv, NEW g \in 0..Generation
  PROVE  /\ g + 1 \in DOMAIN versions /\ versions[g + 1] \in Seq(Statement)
         /\ Distinct(versions[g + 1])
<1>1. versions \in Seq(Seq(Statement)) /\ Generation = Len(versions) - 1
  BY DEF TaskInv, Generation
<1>2. Len(versions) \in Nat
  BY <1>1
<1>3. g + 1 \in 1..Len(versions)
  BY <1>1, <1>2
<1>4. g + 1 \in DOMAIN versions
  BY ONLY <1>1, <1>3
<1> DEFINE i == g + 1
<1>5. i \in DOMAIN versions
  BY <1>4
<1> HIDE DEF i
<1>6. versions[i] \in Seq(Statement)
  BY ONLY <1>1, <1>5
<1>7. Distinct(versions[i])
  BY <1>5 DEF TaskInv
<1> QED
  BY <1>4, <1>6, <1>7 DEF i

(* The cursor a client sends is a number.                                    *)
LEMMA CursorIsNatural ==
  ASSUME TaskInv, PagesInv
  PROVE  NextPage \in Nat
<1>1. Len(versions[book.generation + 1]) \in Nat
  <2>1. versions[book.generation + 1] \in Seq(Statement)
    BY VersionType DEF PagesInv
  <2> QED
    BY <2>1
<1> QED
  BY <1>1 DEF PagesInv, Collection, NextPage, None

(* The next page makes the collection longer, or complete.                   *)
LEMMA LongerCollection ==
  ASSUME NEW all \in Seq(Statement), NEW page, NEW cursor \in Nat, NEW end,
         Stretch(page, all, cursor, end), NEW ids, ids = SubSeq(Ids(all), 1, cursor),
         NEW pages, pages.ids = ids \o Ids(page.items), pages.next = page.next
  PROVE  Collection(pages, all)
<1>1. /\ end \in Nat /\ cursor <= end /\ end <= Len(all) /\ Len(all) \in Nat
      /\ page.items = SubSeq(all, cursor + 1, end)
      /\ page.next = IF end < Len(all) THEN end ELSE None
  BY DEF Stretch
<1> DEFINE I == Ids(all)
<1>2. I \in Seq(Nat) /\ Len(I) = Len(all)
  BY IdsOfSequence
<1>3. Ids(page.items) = SubSeq(I, cursor + 1, end)
  BY <1>1, IdsOfPart
<1> HIDE DEF I
<1>4. SubSeq(I, 1, cursor) \o SubSeq(I, cursor + 1, end) = SubSeq(I, 1, end)
  <2> DEFINE a == 0
  <2>1. a \in Nat /\ a <= cursor /\ cursor <= end /\ end <= Len(I) /\ a + 1 = 1
    BY <1>1, <1>2
  <2> HIDE DEF a
  <2>2. SubSeq(I, a + 1, cursor) \o SubSeq(I, cursor + 1, end) = SubSeq(I, a + 1, end)
    BY <1>1, <1>2, <2>1, PartsJoin
  <2> QED
    BY ONLY <2>1, <2>2
<1>5. pages.ids = SubSeq(I, 1, end)
  BY <1>3, <1>4 DEF I
<1>6. CASE end < Len(all)
  <2>1. pages.next = end /\ end \in 0..Len(all)
    BY <1>1, <1>6
  <2> QED
    BY <1>5, <2>1 DEF Collection, I
<1>7. CASE ~(end < Len(all))
  <2>1. pages.next = None /\ end = Len(I)
    BY <1>1, <1>2, <1>7
  <2>2. pages.ids = I
    BY <1>2, <1>5, <2>1, WholeSequence
  <2> QED
    BY <2>1, <2>2 DEF Collection, I
<1> QED
  BY <1>6, <1>7

(* What is collected stays right when other programs write to the task.      *)
LEMMA PagesStay ==
  ASSUME TaskInv, TaskInv', [Next]_vars, PagesInv, book' = book
  PROVE  PagesInv'
<1>1. /\ Len(versions') >= Len(versions)
      /\ \A i \in DOMAIN versions : versions'[i] = versions[i]
  BY VersionsStay
<1>2. PICK g : g = book.generation
  OBVIOUS
<1>3. g \in 0..Generation /\ g + 1 \in DOMAIN versions
  BY <1>2, VersionType DEF PagesInv
<1>4. versions'[g + 1] = versions[g + 1]
  BY <1>1, <1>3
<1>5. g \in 0..Generation'
  <2>1. versions \in Seq(Seq(Statement)) /\ versions' \in Seq(Seq(Statement))
    BY DEF TaskInv
  <2>2. Len(versions) \in Nat /\ Len(versions') \in Nat
    BY ONLY <2>1
  <2> QED
    BY <1>1, <1>3, <2>2 DEF Generation
<1> QED
  BY <1>2, <1>4, <1>5 DEF PagesInv, Collection

(* Steps that change neither the client's pages nor its messages leave it    *)
(* with one read at a time.                                                  *)
LEMMA ReadsStay ==
  ASSUME ReadInv, book' = book, sent' = sent, Answered \subseteq Answered'
  PROVE  ReadInv'
<1>1. \A n : Unread(n)' => Unread(n)
  BY DEF Unread
<1>2. NextPage' = NextPage
  BY DEF NextPage
<1> QED
  BY <1>1, <1>2 DEF ReadInv

(* A client that writes a read has no other under way, and sends the cursor  *)
(* it has.                                                                   *)
LEMMA ReadsWrite ==
  ASSUME SentInv, ReadInv, NEW kind \in Kinds, NEW framing \in Framings, Write(kind, framing),
         NextPage \in Nat
  PROVE  ReadInv'
<1> DEFINE message == [kind |-> kind, framing |-> framing,
                       cursor |-> IF kind = "read" THEN NextPage ELSE 0]
           N == Len(sent)
<1>1. /\ sent' = Append(sent, message) /\ out' = out /\ book' = book
      /\ kind = "read" => ~Reading
  BY DEF Write
<1>2. message \in Message /\ message.kind = kind
      /\ (kind = "read" => message.cursor = NextPage)
  BY DEF Message
<1> HIDE DEF message
<1>3. sent \in Seq(Message)
  BY DEF SentInv
<1>4. /\ N \in Nat /\ DOMAIN sent' = 1..(N + 1) /\ DOMAIN sent = 1..N
      /\ \A n \in 1..N : sent'[n] = sent[n]
      /\ sent'[N + 1] = message
  BY ONLY <1>1, <1>2, <1>3
<1>5. \A n \in 1..(N + 1) : n \in 1..N \/ n = N + 1
  BY ONLY <1>4
<1>6. Answered' = Answered /\ NextPage' = NextPage
  BY <1>1 DEF Answered, NextPage
<1>7. \A n \in 1..N : Unread(n)' <=> Unread(n)
  BY <1>4, <1>6 DEF Unread
<1>8. PICK z : z = N + 1
  OBVIOUS
<1>9. Unread(z)' => kind = "read"
  BY <1>2, <1>4, <1>8 DEF Unread
<1>10. Unread(z)' => \A n \in 1..N : ~Unread(n)
  BY <1>1, <1>4, <1>9 DEF Reading, Unread
<1>11. sent'[z] = message /\ DOMAIN sent' = 1..z /\ \A n \in 1..z : n \in 1..N \/ n = z
  BY <1>4, <1>5, <1>8
<1> HIDE DEF N
<1>12. ASSUME NEW n \in DOMAIN sent', Unread(n)'
       PROVE  sent'[n].cursor = NextPage'
  <2>1. CASE n \in 1..N
    BY <1>4, <1>6, <1>7, <1>12, <2>1 DEF ReadInv
  <2>2. CASE n = z
    BY <1>2, <1>6, <1>9, <1>11, <1>12, <2>2
  <2> QED
    BY <1>11, <2>1, <2>2
<1>13. ASSUME NEW n \in DOMAIN sent', NEW k \in DOMAIN sent', Unread(n)', Unread(k)'
       PROVE  n = k
  <2>1. CASE n \in 1..N /\ k \in 1..N
    BY <1>4, <1>7, <1>13, <2>1 DEF ReadInv
  <2>2. CASE n = z /\ k \in 1..N
    BY <1>7, <1>10, <1>13, <2>2
  <2>3. CASE n \in 1..N /\ k = z
    BY <1>7, <1>10, <1>13, <2>3
  <2> QED
    BY <1>11, <2>1, <2>2, <2>3
<1> QED
  BY <1>12, <1>13 DEF ReadInv

(* A client with no pages has the beginning, of length zero, of the first    *)
(* generation.                                                               *)
LEMMA EmptyCollection ==
  ASSUME NEW all \in Seq(Statement), NEW pages, pages.next = 0, pages.ids = <<>>
  PROVE  Collection(pages, all)
<1>1. Ids(all) \in Seq(Nat) /\ Len(all) \in Nat
  BY IdsOfSequence
<1>2. SubSeq(Ids(all), 1, 0) = <<>>
  BY <1>1, WholeSequence
<1> QED
  BY <1>1, <1>2 DEF Collection

Extended(pages, more, after) == [pages EXCEPT !.ids = @ \o more, !.next = after]
ArePages(pages, generation, ids, next) ==
  pages = [generation |-> generation, ids |-> ids, next |-> next]
(* A collection with more pages keeps its generation.                        *)
LEMMA MorePages ==
  ASSUME NEW pages, NEW generation, NEW ids, NEW next, NEW more, NEW after,
         ArePages(pages, generation, ids, next)
  PROVE  ArePages(Extended(pages, more, after), generation, ids \o more, after)
<1> DEFINE longer == ids \o more
           first == [pages EXCEPT !.ids = longer]
<1>0. pages = [generation |-> generation, ids |-> ids, next |-> next]
  BY DEF ArePages
<1>1. pages.ids = ids
  BY <1>0
<1>2. [pages EXCEPT !.ids = @ \o more, !.next = after] = [first EXCEPT !.next = after]
  BY <1>1
<1> HIDE DEF longer
<1>3. first = [generation |-> generation, ids |-> longer, next |-> next]
  BY <1>0
<1> HIDE DEF first
<1>4. [first EXCEPT !.next = after] = [generation |-> generation, ids |-> longer, next |-> after]
  BY <1>3
<1> QED
  BY <1>2, <1>4 DEF longer, Extended, ArePages

(* What answers a read.                                                      *)
LEMMA PageAnswerIsBody == ASSUME NEW page PROVE PageAnswer(page) \in Bodies
<1> DEFINE full == 2 * Total(page.items) <= ResponseBudget
           summary == Total(page.items) + ReferenceSize * Len(page.items) <= ResponseBudget
<1>1. PageAnswer(page) = IF full THEN "full" ELSE IF summary THEN "summary" ELSE "MCP_RESPONSE_LIMIT"
  BY DEF PageAnswer
<1> HIDE DEF full, summary
<1> QED
  BY <1>1 DEF Bodies

(* The page that answers a read continues the collection, or starts a new    *)
(* one: the read has the client's cursor, and a page of another generation   *)
(* is not added.                                                             *)
LEMMA BookRead ==
  ASSUME TaskInv, SentInv, StreamInv, OutInv, PagesInv, ReadInv, ServeRead
  PROVE  PagesInv' /\ ReadInv'
<1>1. PICK q : q = server.message
  OBVIOUS
<1>2. PICK page : page = Page(Items, sent[q].cursor, PageItems)
  OBVIOUS
<1>3. /\ server.phase = "serving" /\ sent[q].kind = "read"
      /\ book' = IF PageAnswer(page) = "MCP_RESPONSE_LIMIT" THEN NoPages ELSE Collected(page)
      /\ Answer(PageAnswer(page))
  BY <1>1, <1>2 DEF ServeRead, Serves
<1>4. PageAnswer(page) \in Bodies
  BY PageAnswerIsBody
<1>5. q \in DOMAIN sent /\ q \in Nat /\ q \notin Answered
  <2>1. server.message \in DOMAIN sent /\ server.message \in Nat
        /\ Answered = {n \in 1..(server.message - 1) : IsRequest(n)}
    BY <1>3, WhatIsServed
  <2>2. ~(q \in 1..(q - 1))
    BY <1>1, <2>1
  <2> QED
    BY <1>1, <2>1, <2>2
<1>6. Unread(q)
  BY <1>3, <1>5 DEF Unread
<1>7. sent[q].cursor = NextPage /\ NextPage \in Nat
  BY <1>5, <1>6, CursorIsNatural DEF ReadInv
<1>8. Answered' = Answered \cup {q} /\ sent' = sent
  BY <1>1, <1>3, <1>4, OneMoreAnswer
<1>9. \A n \in DOMAIN sent' : ~Unread(n)'
  BY <1>5, <1>6, <1>8 DEF Unread, ReadInv
<1>10. ReadInv'
  BY <1>9 DEF ReadInv
<1>11. versions' = versions /\ Generation' = Generation
  BY <1>3 DEF Answer, Generation
<1>12. /\ Items \in Seq(Statement) /\ Items = versions[Generation + 1]
       /\ Generation \in Nat /\ Len(Items) \in Nat
  BY ItemsType
<1> DEFINE c == sent[q].cursor
<1>13. page.cursor = c
  BY <1>2 DEF Page
<1>14. PICK G, I : G = Generation /\ I = Items
  OBVIOUS
<1>15. ASSUME book' = NoPages PROVE PagesInv'
  <2>1. book' = [generation |-> 0, ids |-> <<>>, next |-> 0]
    BY <1>15 DEF NoPages
  <2>2. 0 \in 0..Generation /\ versions[0 + 1] \in Seq(Statement)
    BY <1>12, VersionType
  <2>3. versions'[book'.generation + 1] = versions[0 + 1]
    BY <1>11, <2>1
  <2>4. ASSUME NEW pages, pages = [generation |-> 0, ids |-> <<>>, next |-> 0]
        PROVE  Collection(pages, versions[0 + 1])
    BY <2>2, <2>4, EmptyCollection
  <2>5. Collection(book', versions[0 + 1])
    BY <2>1, <2>4
  <2> QED
    BY <1>11, <2>1, <2>2, <2>3, <2>5 DEF PagesInv, Collection
<1>16. ASSUME book' = [generation |-> G, ids |-> book'.ids, next |-> book'.next],
              Collection(book', I)
       PROVE  PagesInv'
  <2>1. G \in 0..Generation'
    BY <1>11, <1>12, <1>14
  <2>2. versions'[book'.generation + 1] = I
    BY <1>11, <1>12, <1>14, <1>16
  <2>3. book'.generation = G
    BY <1>16
  <2> QED
    BY <1>16, <2>1, <2>2, <2>3 DEF PagesInv, Collection
<1>17. CASE PageAnswer(page) # "MCP_RESPONSE_LIMIT" /\ c = 0
  <2>1. PICK end : Stretch(page, I, 0, end)
    <3>1. \E end : Stretch(Page(Items, 0, PageItems), Items, 0, end)
      BY <1>12, PageIsStretch
    <3> QED
      BY <1>2, <1>14, <1>17, <3>1
  <2>2. book' = [generation |-> G, ids |-> Ids(page.items), next |-> page.next]
    BY <1>3, <1>13, <1>14, <1>17 DEF Collected
  <2>3. SubSeq(Ids(I), 1, 0) = <<>>
    BY <1>12, <1>14, IdsOfSequence, WholeSequence
  <2>4. Ids(page.items) = <<>> \o Ids(page.items)
    <3>1. page.items = SubSeq(I, 0 + 1, end) /\ end \in Nat /\ 0 <= end /\ end <= Len(I)
      BY <2>1 DEF Stretch
    <3>2. page.items \in Seq(Statement)
      BY <1>12, <1>14, <3>1
    <3> DEFINE s == Ids(page.items)
    <3>3. s \in Seq(Nat)
      BY <3>2, IdsOfSequence
    <3> HIDE DEF s
    <3>4. s = <<>> \o s
      BY <3>3
    <3> QED
      BY <3>4 DEF s
  <2>5. ASSUME NEW pages, pages = [generation |-> G, ids |-> Ids(page.items), next |-> page.next]
        PROVE  Collection(pages, I)
    <3>1. pages.ids = <<>> \o Ids(page.items) /\ pages.next = page.next
      BY <2>4, <2>5
    <3> QED
      BY <1>12, <1>14, <2>1, <2>3, <3>1, LongerCollection
  <2>6. Collection(book', I)
    BY <2>2, <2>5
  <2>7. book' = [generation |-> G, ids |-> book'.ids, next |-> book'.next]
    BY ONLY <2>2
  <2> QED
    BY <1>10, <1>16, <2>6, <2>7
<1>18. CASE PageAnswer(page) # "MCP_RESPONSE_LIMIT" /\ c # 0 /\ book.generation # Generation
  <2>1. book' = NoPages
    BY <1>3, <1>13, <1>18 DEF Collected
  <2> QED
    BY <1>10, <1>15, <2>1
<1>19. CASE PageAnswer(page) # "MCP_RESPONSE_LIMIT" /\ c # 0 /\ book.generation = Generation
  <2>1. c = book.next /\ book.next # None /\ book.next \in 0..Len(I)
        /\ book.ids = SubSeq(Ids(I), 1, book.next)
    <3>1. book.next # None /\ c = book.next
      BY <1>7, <1>19 DEF NextPage
    <3> QED
      BY <1>12, <1>14, <1>19, <3>1 DEF PagesInv, Collection
  <2>2. PICK end : Stretch(page, I, c, end)
    <3>1. c \in Nat /\ c <= Len(Items)
      BY <1>12, <1>14, <2>1
    <3>2. \E end : Stretch(Page(Items, c, PageItems), Items, c, end)
      <4> HIDE DEF c
      <4> QED
        BY <1>12, <3>1, PageIsStretch
    <3> QED
      BY <1>2, <1>14, <3>2
  <2>3. PICK old : old = book.ids
    OBVIOUS
  <2>4. book' = [generation |-> G, ids |-> old \o Ids(page.items), next |-> page.next]
    <3>1. book' = Extended(book, Ids(page.items), page.next)
      BY <1>3, <1>13, <1>19 DEF Collected, Extended
    <3>2. book = [generation |-> G, ids |-> old, next |-> book.next]
      BY <1>14, <1>19, <2>3 DEF PagesInv
    <3>3. PICK pages, more, after, next :
            /\ pages = book /\ next = book.next
            /\ more = Ids(page.items) /\ after = page.next
      OBVIOUS
    <3>4. ArePages(pages, G, old, next)
      BY <3>2, <3>3 DEF ArePages
    <3>5. ArePages(Extended(pages, more, after), G, old \o more, after)
      BY <3>4, MorePages
    <3> QED
      BY <3>1, <3>3, <3>5 DEF ArePages
  <2>5. ASSUME NEW pages,
               pages = [generation |-> G, ids |-> old \o Ids(page.items), next |-> page.next]
        PROVE  Collection(pages, I)
    <3>1. pages.ids = old \o Ids(page.items) /\ pages.next = page.next
      BY <2>5
    <3>2. old = SubSeq(Ids(I), 1, c) /\ c \in Nat
      BY <1>7, <2>1, <2>3
    <3> HIDE DEF c
    <3> QED
      BY <1>12, <1>14, <2>2, <3>1, <3>2, LongerCollection
  <2>6. Collection(book', I)
    BY <2>4, <2>5
  <2>7. book' = [generation |-> G, ids |-> book'.ids, next |-> book'.next]
    BY ONLY <2>4
  <2> QED
    BY <1>10, <1>16, <2>6, <2>7
<1> QED
  BY <1>3, <1>10, <1>15, <1>17, <1>18, <1>19

----------------------------------------------------------------------------
\* The invariant of the server

AServer(s) ==
  /\ s = [phase |-> s.phase, message |-> s.message, framing |-> s.framing]
  /\ s.phase \in {"idle", "parsing", "serving"}

(* How the invariant of the messages is shown after a step of the parser.    *)
LEMMA SentFrom ==
  ASSUME SentInv, host' = host, sent' = sent, closed' \in {"open", "closed", "seen closed"},
         chunks' \in Seq(Pieces), AServer(server'), failed' \in BOOLEAN,
         server'.phase # "idle" => Len(buffer') <= MaxInput
  PROVE  SentInv'
BY DEF SentInv, AServer

(* The state of the server after a message was cut out.                      *)
LEMMA DispatchServer ==
  ASSUME failed \in BOOLEAN, NEW body, NEW framing, Dispatch(body, framing)
  PROVE  AServer(server') /\ failed' \in BOOLEAN
<1>1. CASE server' = Idle /\ failed' = TRUE
  BY <1>1 DEF AServer, Idle
<1>2. CASE /\ server' = [phase |-> "serving", framing |-> framing,
                         message |-> CHOOSE n \in Parsed(body) : TRUE]
           /\ failed' = failed
  <2> DEFINE n == CHOOSE n \in Parsed(body) : TRUE
  <2>1. server' = [phase |-> "serving", framing |-> framing, message |-> n]
    BY <1>2
  <2> HIDE DEF n
  <2> QED
    BY <1>2, <2>1 DEF AServer
<1> QED
  BY <1>1, <1>2 DEF Dispatch

(* The buffer holds tokens.                                                  *)
LEMMA BufferType ==
  ASSUME SentInv, StreamInv
  PROVE  buffer \in Seq(AToken)
<1>1. PICK S, start : Stream(S, start) /\ Cause(S)
  BY StreamHas
<1>2. /\ S \in Seq(AToken) /\ chunks \in Seq(Pieces) /\ Len(S) \in Nat
      /\ \A m \in 1..(Len(sent) + 1) : start[m] \in Nat /\ start[m] <= Len(S)
  BY <1>1, StreamParts
<1>3. PICK m \in 1..(Len(sent) + 1) : Over \/ \E cut : Flows(S, start, m, cut)
  BY <1>1, StreamParts
<1>4. CASE Over
  <2>1. <<>> \in Seq(AToken)
    OBVIOUS
  <2> QED
    BY <1>4, <2>1 DEF Over
<1>5. ASSUME NEW cut, Flows(S, start, m, cut) PROVE buffer \in Seq(AToken)
  <2> DEFINE from == start[m]
             c == cut[0]
  <2>1. InTransit(S, from, cut, buffer, chunks, wire, closed) /\ from \in Nat
    BY <1>2, <1>5 DEF Flows
  <2>2. buffer = SubSeq(S, from + 1, c) /\ c \in 0..Len(S)
    <3>1. 0 \in 0..Len(chunks)
      BY <1>2
    <3> QED
      BY <2>1, <3>1 DEF InTransit
  <2> HIDE DEF from, c
  <2>3. c \in Nat /\ c <= Len(S)
    BY <1>2, <2>2
  <2>4. SubSeq(S, from + 1, c) \in Seq(AToken)
    BY <1>2, <2>1, <2>3
  <2> QED
    BY <2>2, <2>4
<1> QED
  BY <1>3, <1>4, <1>5

(* A frame has a size.                                                       *)
LEMMA FrameSize ==
  ASSUME SentInv, StreamInv
  PROVE  Frame.size \in Nat
<1>1. CASE HeaderFirst
  BY <1>1 DEF Frame, NoFrame
<1>2. CASE ~HeaderFirst
  <2>1. Newlines \in SUBSET Nat
    BY BufferType DEF Newlines
  <2>2. Newlines # {} => Min(Newlines) \in Nat
    BY <2>1, MinChosen
  <2> DEFINE size == IF Newlines # {} THEN Min(Newlines) ELSE 0
  <2>3. size \in Nat
    BY <2>2
  <2> HIDE DEF size
  <2>4. Frame = [size |-> size, body |-> SubSeq(buffer, 1, size - 1), framing |-> "ndjson"]
    BY <1>2, LineFrame DEF size
  <2> QED
    BY <2>3, <2>4
<1> QED
  BY <1>1, <1>2

(* A frame taken out makes the buffer shorter.                               *)
LEMMA SentFrame ==
  ASSUME SentInv, StreamInv, TakeFrame
  PROVE  SentInv'
<1>1. /\ UNCHANGED <<host, sent, closed, chunks>> /\ server.phase = "parsing"
      /\ \/ Frame.size = 0 /\ server' = Idle /\ failed' = failed
         \/ /\ Frame.size # 0 /\ buffer' = Rest(Frame.size)
            /\ Dispatch(Frame.body, Frame.framing)
  BY DEF TakeFrame, input
<1>2. closed' \in {"open", "closed", "seen closed"} /\ chunks' \in Seq(Pieces)
      /\ failed \in BOOLEAN /\ Len(buffer) <= MaxInput
  BY <1>1 DEF SentInv
<1>3. CASE server' = Idle /\ failed' = failed
  BY <1>1, <1>2, <1>3, SentFrom DEF Idle, AServer
<1>4. CASE buffer' = Rest(Frame.size) /\ Dispatch(Frame.body, Frame.framing)
  <2>1. AServer(server') /\ failed' \in BOOLEAN
    BY <1>2, <1>4, DispatchServer
  <2>2. Len(buffer') <= MaxInput
    <3> DEFINE size == Frame.size
               held == buffer
               rest == SubSeq(held, size + 1, Len(held))
    <3>1. size \in Nat /\ held \in Seq(AToken)
      BY FrameSize, BufferType
    <3> HIDE DEF size, held
    <3>2. Len(rest) <= Len(held) /\ Len(rest) \in Nat /\ Len(held) \in Nat
      BY <3>1
    <3>3. Len(rest) = Len(buffer')
      BY <1>4 DEF Rest, size, held
    <3> HIDE DEF rest
    <3>4. Len(held) <= MaxInput
      BY <1>2 DEF held
    <3> QED
      BY <3>2, <3>3, <3>4, MaxInputAssumption
  <2> QED
    BY <1>1, <1>2, <2>1, <2>2, SentFrom
<1> QED
  BY <1>1, <1>3, <1>4

(* The parser starts only on a buffer within the limit.                      *)
LEMMA SentPush ==
  ASSUME SentInv, StreamInv, Push
  PROVE  SentInv'
<1>1. /\ UNCHANGED <<host, sent, closed>> /\ server.phase = "idle"
      /\ buffer' = buffer \o Head(chunks)
      /\ \/ Len(buffer') > MaxInput /\ failed' = TRUE /\ server' = server
         \/ /\ ~(Len(buffer') > MaxInput) /\ failed' = failed
            /\ server' = [server EXCEPT !.phase = "parsing"]
  BY DEF Push, TooLong
<1>2. closed' \in {"open", "closed", "seen closed"} /\ failed \in BOOLEAN
      /\ AServer(server)
  BY <1>1 DEF SentInv, AServer
<1>3. chunks' \in Seq(Pieces)
  BY StreamPush
<1>4. CASE failed' = TRUE /\ server' = server
  BY <1>1, <1>2, <1>3, <1>4, SentFrom
<1>5. CASE /\ ~(Len(buffer') > MaxInput) /\ failed' = failed
           /\ server' = [server EXCEPT !.phase = "parsing"]
  <2>1. AServer(server')
    BY <1>2, <1>5 DEF AServer
  <2>2. Len(buffer') <= MaxInput
    <3>1. chunks # <<>> /\ Head(chunks) # End /\ chunks \in Seq(Pieces)
      BY DEF Push, SentInv
    <3>2. Head(chunks) \in Pieces
      BY ONLY <3>1
    <3>3. Head(chunks) \in Seq(AToken)
      BY <3>1, <3>2 DEF Pieces
    <3>4. buffer' \in Seq(AToken)
      BY <1>1, <3>3, BufferType
    <3>5. Len(buffer') \in Nat
      BY ONLY <3>4
    <3> QED
      BY <1>5, <3>5, MaxInputAssumption
  <2> QED
    BY <1>1, <1>2, <1>3, <1>5, <2>1, <2>2, SentFrom
<1> QED
  BY <1>1, <1>4, <1>5

(* At the end the buffer is empty.                                           *)
LEMMA SentFinish ==
  ASSUME SentInv, StreamInv, Finish
  PROVE  SentInv'
<1>1. /\ UNCHANGED <<host, sent, closed>> /\ buffer' = <<>>
      /\ server.phase = "idle"
      /\ \/ server' = server /\ failed' = failed
         \/ Dispatch(Remaining, "ndjson")
  BY DEF Finish
<1>2. closed' \in {"open", "closed", "seen closed"} /\ failed \in BOOLEAN
      /\ AServer(server) /\ Len(buffer') <= MaxInput
  <2>1. Len(<<>>) = 0
    OBVIOUS
  <2>2. Len(buffer') <= MaxInput
    BY <1>1, <2>1, MaxInputAssumption
  <2> QED
    BY <1>1, <2>2 DEF SentInv, AServer
<1>3. chunks' \in Seq(Pieces)
  BY StreamFinish
<1>4. CASE server' = server /\ failed' = failed
  BY <1>1, <1>2, <1>3, <1>4, SentFrom
<1>5. CASE Dispatch(Remaining, "ndjson")
  <2>1. AServer(server') /\ failed' \in BOOLEAN
    BY <1>2, <1>5, DispatchServer
  <2> QED
    BY <1>1, <1>2, <1>3, <2>1, SentFrom
<1> QED
  BY <1>1, <1>4, <1>5

(* The service leaves the buffer alone.                                      *)
LEMMA SentServe ==
  ASSUME SentInv, server.phase = "serving", UNCHANGED <<host, sent, closed, chunks, buffer>>,
         \/ server' = [server EXCEPT !.phase = "parsing"] /\ failed' = failed
         \/ server' = Idle /\ failed' = TRUE
  PROVE  SentInv'
<1>1. closed' \in {"open", "closed", "seen closed"} /\ failed \in BOOLEAN
      /\ chunks' \in Seq(Pieces) /\ AServer(server) /\ Len(buffer') <= MaxInput
  BY DEF SentInv, AServer
<1>2. AServer(server') /\ failed' \in BOOLEAN
  <2>1. CASE server' = [server EXCEPT !.phase = "parsing"] /\ failed' = failed
    BY <1>1, <2>1 DEF AServer
  <2>2. CASE server' = Idle /\ failed' = TRUE
    BY <2>2 DEF AServer, Idle
  <2> QED
    BY <2>1, <2>2
<1> QED
  BY <1>1, <1>2, SentFrom

(* The client writes within the bounds of its behaviour, and nothing after a *)
(* line without its end.                                                     *)
LEMMA SentWrite ==
  ASSUME SentInv, host \in Profiles, NEW kind \in Kinds, NEW framing \in Framings,
         Write(kind, framing), NextPage \in Nat
  PROVE  SentInv' /\ \E message \in Message : sent' = Append(sent, message)
<1> DEFINE message == [kind |-> kind, framing |-> framing,
                       cursor |-> IF kind = "read" THEN NextPage ELSE 0]
           N == Len(sent)
<1>1. /\ sent' = Append(sent, message) /\ N < host.messages
      /\ UNCHANGED <<host, closed, chunks, buffer, server, failed>>
      /\ \A n \in DOMAIN sent : sent[n].framing # "unterminated"
  BY DEF Write
<1>2. message \in Message
  BY DEF Message
<1> HIDE DEF message
<1>3. sent \in Seq(Message)
  BY DEF SentInv
<1>4. /\ sent' \in Seq(Message) /\ Len(sent') = N + 1 /\ N \in Nat /\ DOMAIN sent' = 1..(N + 1)
      /\ \A n \in DOMAIN sent : sent'[n] = sent[n]
      /\ DOMAIN sent = 1..N
  BY ONLY <1>1, <1>2, <1>3
<1>5. N + 1 <= host.messages
  BY <1>1, <1>4, HostType
<1>6. ASSUME NEW n \in DOMAIN sent', sent'[n].framing = "unterminated"
      PROVE  n = Len(sent')
  <2>1. n \notin 1..N
    BY <1>1, <1>4, <1>6
  <2>2. n \in 1..(N + 1) => n \in 1..N \/ n = N + 1
    BY ONLY <1>4
  <2> QED
    BY <1>4, <2>1, <2>2
<1>7. Len(sent') <= host'.messages
  BY <1>1, <1>4, <1>5
<1>8. SentInv'
  BY <1>1, <1>4, <1>6, <1>7 DEF SentInv
<1> QED
  BY <1>1, <1>2, <1>8

ServerInv == SentInv /\ StreamInv /\ OutInv /\ PagesInv /\ ReadInv

(* Generations only grow.                                                    *)
LEMMA GenerationGrows ==
  ASSUME TaskInv, [Next]_vars
  PROVE  /\ host' = host /\ host \in Profiles
         /\ Generation \in Int /\ Generation' \in Int /\ Generation <= Generation'
<1>1. TaskInv'
  BY TaskNext
<1>2. versions \in Seq(Seq(Statement)) /\ versions' \in Seq(Seq(Statement))
  BY <1>1 DEF TaskInv
<1>3. Len(versions) \in Nat /\ Len(versions') \in Nat
  BY ONLY <1>2
<1>4. Len(versions') >= Len(versions) /\ host' = host
  BY VersionsStay
<1> QED
  BY <1>3, <1>4 DEF Generation, TaskInv

(* What a step that writes no answer and no message keeps.                   *)
LEMMA OthersStay ==
  ASSUME TaskInv, ServerInv, [Next]_vars, sent' = sent, out' = out, book' = book
  PROVE  OutInv' /\ PagesInv' /\ ReadInv'
<1>1. TaskInv'
  BY TaskNext
<1>2. OutInv'
  BY GenerationGrows, OutStays DEF ServerInv
<1>3. PagesInv'
  BY <1>1, PagesStay DEF ServerInv
<1>4. Answered' = Answered
  BY DEF Answered
<1>5. ReadInv'
  BY <1>4, ReadsStay DEF ServerInv
<1> QED
  BY <1>2, <1>3, <1>5

(* Steps elsewhere keep the invariant of the messages.                       *)
LEMMA SentStays ==
  ASSUME SentInv, UNCHANGED <<host, sent, closed, chunks, buffer, server, failed>>
  PROVE  SentInv'
BY DEF SentInv

(* The client writes.                                                        *)
LEMMA WriteStep ==
  ASSUME TaskInv, ServerInv, [Next]_vars,
         NEW kind \in host.kinds, NEW framing \in host.framings, Write(kind, framing)
  PROVE  ServerInv'
<1>1. kind \in Kinds /\ framing \in Framings /\ host \in Profiles /\ TaskInv'
  BY HostType, TaskNext DEF TaskInv
<1>2. NextPage \in Nat
  BY CursorIsNatural DEF ServerInv
<1>3. SentInv' /\ \E message \in Message : sent' = Append(sent, message)
  BY <1>1, <1>2, SentWrite DEF ServerInv
<1>4. StreamInv'
  BY <1>1, <1>2, StreamWrite DEF ServerInv
<1>5. out' = out /\ book' = book
  BY DEF Write
<1>6. OutInv'
  BY <1>3, <1>5, GenerationGrows, OutStays DEF ServerInv
<1>7. PagesInv'
  BY <1>1, <1>5, PagesStay DEF ServerInv
<1>8. ReadInv'
  BY <1>1, <1>2, ReadsWrite DEF ServerInv
<1> QED
  BY <1>3, <1>4, <1>6, <1>7, <1>8 DEF ServerInv

(* The pipe delivers, or is closed.                                          *)
LEMMA InputStep ==
  ASSUME TaskInv, ServerInv, [Next]_vars,
         Close \/ EndOfInput \/ \E size \in DOMAIN wire : Data(size)
  PROVE  ServerInv'
<1>1. SentInv /\ StreamInv
  BY DEF ServerInv
<1>2. UNCHANGED <<host, sent, buffer, server, failed, out, book>>
  BY DEF Close, EndOfInput, Data
<1>3. OutInv' /\ PagesInv' /\ ReadInv'
  BY <1>2, OthersStay
<1>4. AServer(server') /\ failed' \in BOOLEAN /\ (server'.phase # "idle" => Len(buffer') <= MaxInput)
  BY <1>1, <1>2 DEF SentInv, AServer
<1>5. CASE Close
  <2>1. StreamInv'
    BY <1>1, <1>5, StreamClose
  <2>2. closed' = "closed" /\ chunks' \in Seq(Pieces)
    BY <1>1, <1>5 DEF Close, SentInv
  <2> QED
    BY <1>1, <1>2, <1>3, <1>4, <2>1, <2>2, SentFrom DEF ServerInv
<1>6. CASE EndOfInput
  <2>1. StreamInv' /\ chunks' \in Seq(Pieces)
    BY <1>1, <1>6, StreamEnd
  <2>2. closed' = "seen closed"
    BY <1>6 DEF EndOfInput
  <2> QED
    BY <1>1, <1>2, <1>3, <1>4, <2>1, <2>2, SentFrom DEF ServerInv
<1>7. ASSUME NEW size \in DOMAIN wire, Data(size) PROVE ServerInv'
  <2>1. StreamInv' /\ chunks' \in Seq(Pieces)
    BY <1>1, <1>7, StreamData
  <2>2. closed' \in {"open", "closed", "seen closed"}
    BY <1>1, <1>7 DEF Data, SentInv
  <2> QED
    BY <1>1, <1>2, <1>3, <1>4, <2>1, <2>2, SentFrom DEF ServerInv
<1> QED
  BY <1>5, <1>6, <1>7

(* The parser works.                                                         *)
LEMMA ParserStep ==
  ASSUME TaskInv, ServerInv, [Next]_vars, Push \/ TakeFrame \/ Finish
  PROVE  ServerInv'
<1>1. SentInv /\ StreamInv
  BY DEF ServerInv
<1>2. UNCHANGED <<sent, out, book>>
  BY DEF Push, TakeFrame, Finish
<1>3. OutInv' /\ PagesInv' /\ ReadInv'
  BY <1>2, OthersStay
<1>4. SentInv' /\ StreamInv'
  BY <1>1, SentPush, SentFrame, SentFinish, StreamPush, StreamFrame, StreamFinish
<1> QED
  BY <1>3, <1>4 DEF ServerInv

(* The server answers a ping or an export.                                   *)
LEMMA AnswerStep ==
  ASSUME TaskInv, ServerInv, [Next]_vars, ServePing \/ ServeExport
  PROVE  ServerInv'
<1>1. SentInv /\ StreamInv /\ OutInv /\ PagesInv /\ ReadInv
  BY DEF ServerInv
<1>2. PICK body \in Bodies :
        /\ Answer(body) /\ server.phase = "serving" /\ book' = book
        /\ sent[server.message].kind \in {"ping", "export"}
        /\ sent[server.message].kind = "export" => body \in 0..Generation
  <2>1. CASE ServePing
    BY <2>1 DEF ServePing, Serves, Bodies
  <2>2. CASE ServeExport
    <3>1. Generation \in Nat /\ Generation \in 0..Generation
      BY ItemsType
    <3>2. Answer(Generation) /\ server.phase = "serving" /\ book' = book
          /\ sent[server.message].kind = "export"
      BY <2>2 DEF ServeExport, Serves
    <3>3. Generation \in Bodies
      BY <3>1 DEF Bodies
    <3> QED
      BY <3>1, <3>2, <3>3
  <2> QED
    BY <2>1, <2>2
<1>3. IsRequest(server.message)
  BY <1>2 DEF IsRequest
<1>4. /\ server' = [server EXCEPT !.phase = "parsing"]
      /\ UNCHANGED <<host, versions, sent, closed, chunks, buffer, failed>>
  BY <1>2 DEF Answer, input
<1>5. StreamInv'
  BY <1>1, <1>2, <1>3, StreamAnswer
<1>6. OutInv'
  <2>1. Generation' = Generation
    BY <1>4 DEF Generation
  <2> QED
    BY <1>1, <1>2, <1>3, <2>1, OutAnswer
<1>7. SentInv'
  BY <1>1, <1>2, <1>4, SentServe
<1>8. PagesInv'
  BY <1>1, <1>2, TaskNext, PagesStay
<1>9. ReadInv'
  <2>1. Answered \subseteq Answered' /\ sent' = sent
    BY <1>1, <1>2, OneMoreAnswer
  <2> QED
    BY <1>1, <1>2, <2>1, ReadsStay
<1> QED
  BY <1>5, <1>6, <1>7, <1>8, <1>9 DEF ServerInv

(* The server answers a read.                                                *)
LEMMA ReadStep ==
  ASSUME TaskInv, ServerInv, [Next]_vars, ServeRead
  PROVE  ServerInv'
<1>1. SentInv /\ StreamInv /\ OutInv /\ PagesInv /\ ReadInv
  BY DEF ServerInv
<1>2. PagesInv' /\ ReadInv'
  BY <1>1, BookRead
<1>3. PICK body \in Bodies :
        Answer(body) /\ server.phase = "serving" /\ sent[server.message].kind = "read"
  BY PageAnswerIsBody DEF ServeRead, Serves
<1>4. IsRequest(server.message)
  BY <1>3 DEF IsRequest
<1>5. /\ server' = [server EXCEPT !.phase = "parsing"]
      /\ UNCHANGED <<host, versions, sent, closed, chunks, buffer, failed>>
  BY <1>3 DEF Answer, input
<1>6. StreamInv'
  BY <1>1, <1>3, <1>4, StreamAnswer
<1>7. OutInv'
  <2>1. Generation' = Generation
    BY <1>5 DEF Generation
  <2> QED
    BY <1>1, <1>3, <1>4, <2>1, OutAnswer
<1>8. SentInv'
  BY <1>1, <1>3, <1>5, SentServe
<1> QED
  BY <1>2, <1>6, <1>7, <1>8 DEF ServerInv

(* The server takes a notification.                                          *)
LEMMA NotificationStep ==
  ASSUME TaskInv, ServerInv, [Next]_vars, ServeNotification
  PROVE  ServerInv'
<1>1. SentInv /\ StreamInv
  BY DEF ServerInv
<1>2. /\ server.phase = "serving"
      /\ UNCHANGED <<host, sent, closed, chunks, buffer, out, book>>
      /\ \/ server' = [server EXCEPT !.phase = "parsing"] /\ failed' = failed
         \/ server' = Idle /\ failed' = TRUE
  BY DEF ServeNotification, Serves, input
<1>3. SentInv' /\ StreamInv'
  BY <1>1, <1>2, SentServe, StreamNotification
<1>4. OutInv' /\ PagesInv' /\ ReadInv'
  BY <1>2, OthersStay
<1> QED
  BY <1>3, <1>4 DEF ServerInv

(* Other programs write to the task, and texts are put before a model.       *)
LEMMA OtherStep ==
  ASSUME TaskInv, ServerInv, [Next]_vars,
         UNCHANGED <<host, sent, input, buffer, server, failed, out, book>>
  PROVE  ServerInv'
<1>1. SentInv /\ StreamInv
  BY DEF ServerInv
<1>2. UNCHANGED <<host, sent, wire, closed, chunks, buffer, server, failed, out, book>>
  BY DEF input
<1>3. SentInv' /\ StreamInv'
  BY <1>1, <1>2, SentStays, StreamStutters
<1>4. OutInv' /\ PagesInv' /\ ReadInv'
  BY <1>2, OthersStay
<1> QED
  BY <1>3, <1>4 DEF ServerInv

(* Every step keeps the invariant.                                           *)
LEMMA ServerNext ==
  ASSUME TaskInv, ServerInv, [Next]_vars
  PROVE  ServerInv'
<1>1. \/ \E kind \in host.kinds, framing \in host.framings : Write(kind, framing)
      \/ Close \/ EndOfInput \/ \E size \in DOMAIN wire : Data(size)
      \/ Push \/ TakeFrame \/ Finish
      \/ ServePing \/ ServeExport
      \/ ServeRead
      \/ ServeNotification
      \/ UNCHANGED <<host, sent, input, buffer, server, failed, out, book>>
  <2>1. CASE UNCHANGED vars
    BY <2>1 DEF vars
  <2>2. CASE Next
    BY <2>2 DEF Next, Serve, Change, Delegate, Recover, Shows
  <2> QED
    BY <2>1, <2>2
<1> QED
  BY <1>1, WriteStep, InputStep, ParserStep, AnswerStep, ReadStep, NotificationStep, OtherStep

(* It holds before the first message.                                        *)
LEMMA ServerInit == ASSUME Init PROVE ServerInv
<1>1. /\ host \in Profiles /\ sent = <<>> /\ wire = <<>> /\ closed = "open" /\ chunks = <<>>
      /\ buffer = <<>> /\ server = Idle /\ failed = FALSE /\ out = <<>> /\ book = NoPages
  BY DEF Init
<1>2. TaskInv
  BY TaskInit
<1>3. SentInv
  <2>1. host.messages \in Nat
    BY <1>1, HostType
  <2>2. <<>> \in Seq(Message) /\ <<>> \in Seq(Pieces) /\ Len(<<>>) = 0 /\ DOMAIN <<>> = {}
    OBVIOUS
  <2> QED
    <3>1. server = [phase |-> server.phase, message |-> server.message, framing |-> server.framing]
          /\ server.phase = "idle"
      BY <1>1 DEF Idle
    <3>2. sent \in Seq(Message) /\ chunks \in Seq(Pieces) /\ Len(sent) <= host.messages
          /\ DOMAIN sent = {}
      BY <1>1, <2>1, <2>2
    <3> QED
      BY <1>1, <3>1, <3>2 DEF SentInv
<1>4. Answered = {}
  BY <1>1 DEF Answered
<1>5. StreamInv
  <2> DEFINE start == [n \in 1..1 |-> 0]
             S == <<>>
  <2>1. Starts(S, start, sent) /\ start[1] = 0 /\ Len(sent) = 0 /\ Len(S) = 0
    BY <1>1, NothingWritten
  <2>2. InTransit(S, 0, [i \in 0..0 |-> 0], buffer, chunks, wire, closed)
    <3> DEFINE cut == [i \in 0..0 |-> 0]
    <3>1. cut \in [0..0 -> 0..0] /\ cut[0] = 0
      OBVIOUS
    <3>2. Len(chunks) = 0 /\ 1..0 = {}
      BY <1>1
    <3>3. SubSeq(S, 0 + 1, 0) = <<>>
      OBVIOUS
    <3>4. ~Finished(closed)
      BY <1>1 DEF Finished
    <3> HIDE DEF cut
    <3> QED
      BY <1>1, <2>1, <3>1, <3>2, <3>3, <3>4 DEF InTransit, cut
  <2> HIDE DEF start, S
  <2>3. Waiting(start, 1, 0)
    BY <2>1 DEF Waiting
  <2>4. Served(1)
    <3>1. server.phase # "serving" /\ Before(1) = 1
      BY <1>1 DEF Idle, Before
    <3>2. {n \in 1..(1 - 1) : IsRequest(n)} = {}
      OBVIOUS
    <3> QED
      BY <1>4, <3>1, <3>2 DEF Served
  <2>5. Flows(S, start, 1, [i \in 0..0 |-> 0])
    BY <2>1, <2>2, <2>3 DEF Flows
  <2>6. 1 \in 1..(Len(sent) + 1)
    BY <2>1
  <2>7. Stream(S, start)
    BY <2>1, <2>4, <2>5, <2>6 DEF Stream, Flows
  <2> QED
    BY <1>1, <2>7 DEF StreamInv
<1>6. OutInv
  <2>1. <<>> \in Seq(AnAnswer) /\ DOMAIN <<>> = {}
    OBVIOUS
  <2> QED
    BY <1>1, <2>1 DEF OutInv, AnswersInOrder
<1>7. PagesInv
  <2>1. book = [generation |-> 0, ids |-> <<>>, next |-> 0]
    BY <1>1 DEF NoPages
  <2>2. 0 \in 0..Generation /\ versions[0 + 1] \in Seq(Statement)
    BY <1>2, ItemsType, VersionType
  <2>3. ASSUME NEW pages, pages = [generation |-> 0, ids |-> <<>>, next |-> 0]
        PROVE  Collection(pages, versions[0 + 1])
    BY <2>2, <2>3, EmptyCollection
  <2>4. Collection(book, versions[0 + 1])
    BY <2>1, <2>3
  <2> QED
    BY <2>1, <2>2, <2>4 DEF PagesInv
<1>8. ReadInv
  <2>1. DOMAIN <<>> = {}
    OBVIOUS
  <2> QED
    BY <1>1, <2>1 DEF ReadInv
<1> QED
  BY <1>3, <1>5, <1>6, <1>7, <1>8 DEF ServerInv

(* Together with what is known of the task, this is inductive.               *)
THEOREM ServerInvariant == Spec => [](TaskInv /\ ServerInv)
<1>1. Init => TaskInv /\ ServerInv
  BY TaskInit, ServerInit
<1>2. TaskInv /\ ServerInv /\ [Next]_vars => (TaskInv /\ ServerInv)'
  BY TaskNext, ServerNext
<1> QED
  BY <1>1, <1>2, PTL DEF Spec

(* Requests are answered in the order in which they were written, each once  *)
(* and in the framing it came in, wherever the pipe cuts the input.          *)
THEOREM RequestsInOrder == Spec => []AnswersInOrder
<1>1. ServerInv => AnswersInOrder
  BY DEF ServerInv, OutInv
<1> QED
  BY <1>1, ServerInvariant, PTL

(* The server fails only on a message it does not understand, or when the    *)
(* client has written more than the limit.                                   *)
THEOREM FailuresHaveCauses == Spec => []FailureHasACause
<1>1. ServerInv => FailureHasACause
  <2> SUFFICES ASSUME ServerInv, failed PROVE FailureHasACause
    BY DEF FailureHasACause
  <2>1. PICK S, start : Stream(S, start) /\ Cause(S)
    BY StreamHas DEF ServerInv
  <2>2. Starts(S, start, sent) /\ sent \in Seq(Message)
    BY <2>1 DEF Stream, ServerInv, SentInv
  <2>3. S = FlattenSeq([n \in DOMAIN sent |-> Tokens(n, sent[n].framing)])
    BY <2>2, StreamIsFlattened
  <2> QED
    BY <2>1, <2>3 DEF Cause, Misunderstood, FailureHasACause
<1> QED
  BY <1>1, ServerInvariant, PTL

(* A client that has followed the cursors to the end has every item of one   *)
(* generation, once and in order.                                            *)
THEOREM PagesComplete == Spec => []PagesAreTheState
<1>1. TaskInv /\ ServerInv => PagesAreTheState
  <2> SUFFICES ASSUME TaskInv, ServerInv, book.next = None PROVE PagesAreTheState
    BY DEF PagesAreTheState
  <2>1. Collection(book, versions[book.generation + 1])
    BY DEF ServerInv, PagesInv
  <2>2. Len(versions[book.generation + 1]) \in Nat
    <3>1. versions[book.generation + 1] \in Seq(Statement)
      BY VersionType DEF ServerInv, PagesInv
    <3> QED
      BY <3>1
  <2> QED
    BY <2>1, <2>2 DEF Collection, None, PagesAreTheState
<1> QED
  BY <1>1, ServerInvariant, PTL

(* A read that is answered takes the client further, or to the end.          *)
LEMMA ReadGoesOn ==
  ASSUME TaskInv, ServerInv, ServeRead, NEW c, c = sent[server.message].cursor,
         c = 0 \/ book.generation = Generation,
         out'[Len(out')].body # "MCP_RESPONSE_LIMIT",
         \A item \in ToSet(Items) : item.size <= PageBudget
  PROVE  book'.next = None \/ book'.next > c
<1>1. SentInv /\ StreamInv /\ OutInv /\ PagesInv /\ ReadInv
  BY DEF ServerInv
<1>2. PICK q : q = server.message
  OBVIOUS
<1>3. PICK page : page = Page(Items, sent[q].cursor, PageItems)
  OBVIOUS
<1>4. /\ server.phase = "serving" /\ sent[q].kind = "read"
      /\ book' = IF PageAnswer(page) = "MCP_RESPONSE_LIMIT" THEN NoPages ELSE Collected(page)
      /\ Answer(PageAnswer(page))
  BY <1>2, <1>3 DEF ServeRead, Serves
<1>5. PageAnswer(page) # "MCP_RESPONSE_LIMIT"
  <2>1. PICK body : body = PageAnswer(page)
    OBVIOUS
  <2>2. body \in Bodies
    BY <2>1, PageAnswerIsBody
  <2>3. /\ Len(out') = Len(out) + 1
        /\ out'[Len(out) + 1] =
             [message |-> server.message, framing |-> server.framing, body |-> body]
    BY <1>1, <1>4, <2>1, <2>2, OneMoreAnswer
  <2>4. out'[Len(out')].body = body
    BY <2>3
  <2> QED
    BY <2>1, <2>4
<1>6. q \in DOMAIN sent /\ q \in Nat /\ q \notin Answered
  <2>1. server.message \in DOMAIN sent /\ server.message \in Nat
        /\ Answered = {n \in 1..(server.message - 1) : IsRequest(n)}
    BY <1>1, <1>4, WhatIsServed
  <2>2. ~(q \in 1..(q - 1))
    BY <1>2, <2>1
  <2> QED
    BY <1>2, <2>1, <2>2
<1>7. c = NextPage /\ c \in Nat /\ c = sent[q].cursor
  <2>1. Unread(q)
    BY <1>4, <1>6 DEF Unread
  <2> QED
    BY <1>1, <1>2, <1>6, <2>1, CursorIsNatural DEF ReadInv
<1>8. PICK I : I = Items /\ I \in Seq(Statement) /\ Len(I) \in Nat
  BY ItemsType
<1>9. c <= Len(I)
  <2>1. CASE c = 0
    BY <1>8, <2>1
  <2>2. CASE c # 0
    <3>1. book.next # None /\ c = book.next /\ book.generation = Generation
      BY <1>7, <2>2 DEF NextPage
    <3>2. Collection(book, I)
      BY <1>1, <1>8, <3>1, ItemsType DEF PagesInv
    <3> QED
      BY <1>8, <3>1, <3>2 DEF Collection
  <2> QED
    BY <2>1, <2>2
<1>10. book'.next = page.next
  <2>1. page.cursor = c
    BY <1>3, <1>7 DEF Page
  <2>2. CASE c = 0
    BY <1>4, <1>5, <2>1, <2>2 DEF Collected
  <2>3. CASE c # 0
    <3>1. book.generation = Generation /\ book' = Extended(book, Ids(page.items), page.next)
      BY <1>4, <1>5, <2>1, <2>3 DEF Collected, Extended
    <3>2. PICK pages, more, after, next, ids, G :
            /\ pages = book /\ next = book.next /\ ids = book.ids /\ G = book.generation
            /\ more = Ids(page.items) /\ after = page.next
      OBVIOUS
    <3>3. ArePages(pages, G, ids, next)
      BY <1>1, <3>2 DEF ArePages, PagesInv
    <3>4. ArePages(Extended(pages, more, after), G, ids \o more, after)
      BY <3>3, MorePages
    <3> QED
      BY <3>1, <3>2, <3>4 DEF ArePages
  <2> QED
    BY <2>2, <2>3
<1>11. PICK end : Stretch(page, I, c, end)
  BY <1>3, <1>7, <1>8, <1>9, PageIsStretch
<1>12. /\ end \in Nat /\ page.next = IF end < Len(I) THEN end ELSE None
  BY <1>11 DEF Stretch
<1>13. ASSUME c < Len(I) PROVE end > c
  <2>1. Stretch(Page(I, c, PageItems), I, c, end)
    BY <1>3, <1>7, <1>8, <1>11
  <2>2. \A item \in ToSet(I) : item.size <= PageBudget
    BY <1>8
  <2> QED
    BY <1>7, <1>8, <1>13, <2>1, <2>2, PageTakesOne
<1>14. c <= end
  BY <1>11 DEF Stretch
<1> QED
  BY <1>7, <1>8, <1>10, <1>12, <1>13, <1>14

(* Only a request that is served is answered.                                *)
LEMMA WhoAnswers ==
  ASSUME [Next]_vars
  PROVE  ServePing \/ ServeExport \/ ServeRead \/ out' = out
<1>1. CASE UNCHANGED vars
  BY <1>1 DEF vars
<1>2. ASSUME NEW kind, NEW framing, Write(kind, framing) PROVE out' = out
  BY <1>2 DEF Write
<1>3. ASSUME Close \/ EndOfInput \/ Push \/ TakeFrame \/ Finish PROVE out' = out
  <2>1. CASE Close
    BY <2>1 DEF Close
  <2>2. CASE EndOfInput
    BY <2>2 DEF EndOfInput
  <2>3. CASE Push
    BY <2>3 DEF Push
  <2>4. CASE TakeFrame
    BY <2>4 DEF TakeFrame
  <2>5. CASE Finish
    BY <2>5 DEF Finish
  <2> QED
    BY <1>3, <2>1, <2>2, <2>3, <2>4, <2>5
<1>4. ASSUME NEW size, Data(size) PROVE out' = out
  BY <1>4 DEF Data
<1>5. ASSUME ServeNotification PROVE out' = out
  BY <1>5 DEF ServeNotification, Serves, input
<1>6. ASSUME NEW content, Change(content) PROVE out' = out
  BY <1>6 DEF Change
<1>7. ASSUME NEW budget, Delegate(budget) PROVE out' = out
  BY <1>7 DEF Delegate, Shows
<1>8. ASSUME NEW class, NEW n, NEW budget, Recover(class, n, budget) PROVE out' = out
  BY <1>8 DEF Recover, Shows
<1>9. ASSUME Serve PROVE ServePing \/ ServeExport \/ ServeRead \/ out' = out
  BY <1>5, <1>9 DEF Serve
<1> QED
  BY <1>1, <1>2, <1>3, <1>4, <1>6, <1>7, <1>8, <1>9 DEF Next

(* As long as each item fits a page by itself, following the cursor comes to *)
(* an end.                                                                   *)
THEOREM PagesGoOn == Spec => PagesAdvance
<1> DEFINE A ==
      LET cursor == sent[server.message].cursor IN
      /\ Serves({"read"}) /\ out' # out /\ out'[Len(out')].body # "MCP_RESPONSE_LIMIT"
      /\ cursor = 0 \/ book.generation = Generation
      /\ \A item \in ToSet(Items) : item.size <= PageBudget
      => book'.next = None \/ book'.next > cursor
<1>1. TaskInv /\ ServerInv /\ [Next]_vars => [A]_vars
  <2> SUFFICES ASSUME TaskInv, ServerInv, [Next]_vars,
                      Serves({"read"}), out' # out, out'[Len(out')].body # "MCP_RESPONSE_LIMIT",
                      sent[server.message].cursor = 0 \/ book.generation = Generation,
                      \A item \in ToSet(Items) : item.size <= PageBudget
               PROVE  book'.next = None \/ book'.next > sent[server.message].cursor
    OBVIOUS
  <2>1. ServeRead
    <3>1. ServePing \/ ServeExport => sent[server.message].kind # "read"
      BY DEF ServePing, ServeExport, Serves
    <3>2. sent[server.message].kind = "read"
      BY DEF Serves
    <3> HIDE DEF A
    <3> QED
      BY <3>1, <3>2, WhoAnswers
  <2>2. PICK c : c = sent[server.message].cursor
    OBVIOUS
  <2>3. book'.next = None \/ book'.next > c
    BY <2>1, <2>2, ReadGoesOn
  <2> QED
    BY <2>2, <2>3
<1>2. Spec => [][A]_vars
  BY <1>1, ServerInvariant, PTL DEF Spec
<1> QED
  BY <1>2 DEF PagesAdvance

(* A capsule is within its budget, counts what it leaves out, and leaves out *)
(* nothing that would still fit.                                             *)
THEOREM CapsulesAreFull == Spec => []CapsuleIsFull
<1>1. TaskInv /\ ServerInv => CapsuleIsFull
  <2> SUFFICES ASSUME TaskInv, ServerInv, NEW i \in DOMAIN out,
                      sent[out[i].message].kind = "export"
      PROVE  LET items == versions[out[i].body + 1]
                 capsule == Exported(out[i].body)
                 left == ToSet(items) \ ToSet(capsule.items)
             IN  /\ Total(capsule.items) <= CapsuleBudget
                 /\ capsule.omitted = Cardinality(left)
                 /\ \A item \in left : Total(capsule.items) + item.size > CapsuleBudget
    BY DEF CapsuleIsFull
  <2>1. PICK g : g = out[i].body
    OBVIOUS
  <2>2. g \in 0..Generation
    BY <2>1 DEF ServerInv, OutInv
  <2>3. versions[g + 1] \in Seq(Statement) /\ Distinct(versions[g + 1])
    BY <2>2, VersionType
  <2>4. LET items == versions[g + 1]
            capsule == Capsule(items, AllKinds)
            left == ToSet(items) \ ToSet(capsule.items)
        IN  /\ Total(capsule.items) <= CapsuleBudget
            /\ capsule.omitted = Cardinality(left)
            /\ \A item \in left : Total(capsule.items) + item.size > CapsuleBudget
    BY <2>3, CapsuleCounts
  <2>5. Exported(g) = Capsule(versions[g + 1], AllKinds)
    BY DEF Exported, AllKinds
  <2> QED
    BY <2>1, <2>4, <2>5
<1> QED
  BY <1>1, ServerInvariant, PTL

(* The bounds and the shape of the server's state.                           *)
THEOREM ServerTypes == Spec => []TypeOK
<1>1. TaskInv /\ ServerInv => TypeOK
  <2> SUFFICES ASSUME TaskInv, ServerInv PROVE TypeOK
    OBVIOUS
  <2>1. Generation \in 0..host.changes
    BY ItemsType
  <2>2. /\ Len(sent) <= host.messages /\ closed \in {"open", "closed", "seen closed"}
        /\ server.phase \in {"idle", "parsing", "serving"}
        /\ server.phase # "idle" => Len(buffer) <= MaxInput
        /\ failed \in BOOLEAN
    BY DEF ServerInv, SentInv
  <2>3. book.next \in {None} \cup 0..Len(book.ids)
    <3> DEFINE all == versions[book.generation + 1]
    <3>1. Collection(book, all) /\ all \in Seq(Statement)
      BY VersionType DEF ServerInv, PagesInv
    <3> HIDE DEF all
    <3>2. Len(all) \in Nat /\ Ids(all) \in Seq(Nat) /\ Len(Ids(all)) = Len(all)
      BY <3>1, IdsOfSequence
    <3>3. CASE book.next = None
      BY <3>3
    <3>4. CASE book.next \in 0..Len(all) /\ book.ids = SubSeq(Ids(all), 1, book.next)
      <4> DEFINE k == book.next
                 ids == Ids(all)
      <4>1. k \in Nat /\ k <= Len(ids) /\ ids \in Seq(Nat)
        BY <3>2, <3>4
      <4>2. book.ids = SubSeq(ids, 1, k)
        BY <3>4
      <4> HIDE DEF k, ids
      <4>3. Len(SubSeq(ids, 1, k)) = k
        BY <4>1
      <4>4. k \in 0..Len(book.ids)
        BY <4>1, <4>2, <4>3
      <4> QED
        BY <4>4 DEF k
    <3> QED
      BY <3>1, <3>3, <3>4 DEF Collection
  <2> QED
    BY <2>1, <2>2, <2>3 DEF TypeOK
<1> QED
  BY <1>1, ServerInvariant, PTL
=============================================================================
