------------------------- MODULE TaskLedger_proofs --------------------------
(***************************************************************************)
(* A ledger l and its projection p when an event e is appended: each part  *)
(* of what relates them (LedgerOk) is kept if e is Legal.  l2 is the grown *)
(* ledger, q the new projection.  Nothing here speaks of the variables, so *)
(* that transactions of several events can be put together.                *)
(***************************************************************************)
EXTENDS ContinuityTask, TaskProjection_proofs, FiniteSetTheorems

(* l2 is l and one more event, e.                                            *)
Grown(l, l2, e) ==
  /\ Len(l) \in Nat /\ DOMAIN l = 1..Len(l)
  /\ Len(l2) = Len(l) + 1 /\ DOMAIN l2 = 1..(Len(l) + 1)
  /\ l2[Len(l) + 1] = e
  /\ \A n \in 1..Len(l) : l2[n] = l[n]

(* A ledger is a sequence of some kind of events.                          *)
IsLog(l) == \E T : l \in Seq(T)

(* An appended event grows the ledger by one place and keeps the others.   *)
LEMMA AppendGrows ==
  ASSUME NEW l, NEW e, IsLog(l)
  PROVE  IsLog(Append(l, e)) /\ Grown(l, Append(l, e), e)
<1>1. PICK T : l \in Seq(T)
  BY DEF IsLog
<1> DEFINE U == T \cup {e}
<1>2. l \in Seq(U) /\ e \in U
  BY <1>1
<1>3. Append(l, e) \in Seq(U)
  BY <1>2
<1>4. Grown(l, Append(l, e), e)
  BY <1>2 DEF Grown
<1> QED
  BY <1>3, <1>4 DEF IsLog

(* Generations.                                                              *)
Bumped(l, n) == {m \in 1..(n - 1) : Bumps(l[m])}
(* The generation that an event at place n finds.                          *)
Gen(l, n) == Cardinality(Bumped(l, n))

(* An appended event leaves the generations of earlier places alone.       *)
LEMMA GenBefore ==
  ASSUME NEW l, NEW l2, NEW e, Grown(l, l2, e), NEW n \in 1..(Len(l) + 1)
  PROVE  Bumped(l2, n) = Bumped(l, n) /\ Gen(l2, n) = Gen(l, n)
<1>1. Bumped(l2, n) = Bumped(l, n)
  BY DEF Grown, Bumped
<1> QED
  BY <1>1 DEF Gen

(* A generation is a number, no larger than its place.                     *)
LEMMA GenNat ==
  ASSUME NEW l, NEW n \in Nat
  PROVE  /\ IsFiniteSet(Bumped(l, n + 1)) /\ Gen(l, n + 1) \in Nat /\ Gen(l, n + 1) <= n
<1>1. IsFiniteSet(1..n) /\ Cardinality(1..n) = n
  BY FS_Interval
<1>2. Bumped(l, n + 1) \subseteq 1..n
  BY DEF Bumped
<1>3. IsFiniteSet(Bumped(l, n + 1)) /\ Cardinality(Bumped(l, n + 1)) <= n
  BY <1>1, <1>2, FS_Subset
<1> QED
  BY <1>3, FS_CardinalityType DEF Gen

(* The generation behind an appended event.                                *)
LEMMA GenStep ==
  ASSUME NEW l, NEW l2, NEW e, Grown(l, l2, e)
  PROVE  Gen(l2, Len(l) + 2) = IF Bumps(e) THEN Gen(l, Len(l) + 1) + 1 ELSE Gen(l, Len(l) + 1)
<1> DEFINE n == Len(l)
<1>1. n \in Nat
  BY DEF Grown
<1>2. IsFiniteSet(Bumped(l, n + 1))
  BY <1>1, GenNat
<1>3. n + 1 \notin Bumped(l, n + 1)
  BY <1>1 DEF Bumped
<1>4. Bumped(l2, n + 2) = IF Bumps(e) THEN Bumped(l, n + 1) \cup {n + 1} ELSE Bumped(l, n + 1)
  <2>1. 1..((n + 2) - 1) = 1..((n + 1) - 1) \cup {n + 1}
    BY <1>1
  <2>2. \A m \in 1..((n + 1) - 1) : l2[m] = l[m]
    BY <1>1 DEF Grown
  <2>3. l2[n + 1] = e
    BY DEF Grown
  <2>4. n + 1 \notin 1..((n + 1) - 1)
    BY <1>1
  <2> HIDE DEF n
  <2> QED
    BY <2>1, <2>2, <2>3, <2>4 DEF Bumped
<1> HIDE DEF n
<1>5. Bumps(e) => Gen(l2, n + 2) = Gen(l, n + 1) + 1
  BY <1>2, <1>3, <1>4, FS_AddElement DEF Gen
<1>6. ~Bumps(e) => Gen(l2, n + 2) = Gen(l, n + 1)
  BY <1>4 DEF Gen
<1> QED
  BY <1>5, <1>6 DEF n

(* No bump between two places of equal generation.                           *)
LEMMA SameGenNoBump ==
  ASSUME NEW l, NEW s \in Nat, NEW n \in Nat, s <= n, Gen(l, n + 1) <= Gen(l, s + 1),
         NEW k \in (s + 1)..n
  PROVE  ~Bumps(l[k])
<1>1. IsFiniteSet(Bumped(l, n + 1)) /\ Bumped(l, s + 1) \subseteq Bumped(l, n + 1)
  BY GenNat DEF Bumped
<1>2. Gen(l, s + 1) <= Gen(l, n + 1) /\ (Gen(l, s + 1) = Gen(l, n + 1) => Bumped(l, s + 1) = Bumped(l, n + 1))
  BY <1>1, FS_Subset DEF Gen
<1>3. Gen(l, s + 1) \in Nat /\ Gen(l, n + 1) \in Nat
  BY GenNat
<1>4. Bumped(l, s + 1) = Bumped(l, n + 1)
  BY <1>2, <1>3
<1>5. k \notin Bumped(l, s + 1) /\ k \in 1..((n + 1) - 1)
  BY DEF Bumped
<1> QED
  BY <1>4, <1>5 DEF Bumped

(* The switch.                                                               *)
SwitchesOf(l, n) == {m \in 1..(n - 1) : l[m].type = "enabled"}
(* Is the task on at place n?                                              *)
On(l, n) == SwitchesOf(l, n) = {} \/ l[Max(SwitchesOf(l, n))].on

(* The last switch before a place.                                         *)
LEMMA LargestSwitch ==
  ASSUME NEW l, NEW n \in Nat, SwitchesOf(l, n + 1) # {}
  PROVE  /\ Max(SwitchesOf(l, n + 1)) \in SwitchesOf(l, n + 1)
         /\ \A m \in SwitchesOf(l, n + 1) : m <= Max(SwitchesOf(l, n + 1))
<1> DEFINE s == SwitchesOf(l, n + 1)
<1>1. s \in SUBSET (1..n) /\ s # {}
  BY DEF SwitchesOf
<1> HIDE DEF s
<1>2. Max(s) \in s /\ \A x \in s : x <= Max(s)
  BY <1>1, F!LargestIn DEF Max
<1> QED
  BY <1>2 DEF s

(* An appended event leaves the switch at earlier places alone.            *)
LEMMA OnBeforeSame ==
  ASSUME NEW l, NEW l2, NEW e, Grown(l, l2, e), NEW n \in 1..(Len(l) + 1)
  PROVE  On(l2, n) = On(l, n)
<1>1. SwitchesOf(l2, n) = SwitchesOf(l, n)
  BY DEF Grown, SwitchesOf
<1>2. n - 1 \in Nat /\ (n - 1) + 1 = n
  BY DEF Grown
<1>3. ASSUME SwitchesOf(l, n) # {} PROVE l2[Max(SwitchesOf(l, n))] = l[Max(SwitchesOf(l, n))]
  <2>1. Max(SwitchesOf(l, n)) \in SwitchesOf(l, n)
    BY <1>2, <1>3, LargestSwitch
  <2>2. Max(SwitchesOf(l, n)) \in 1..Len(l)
    BY <2>1 DEF SwitchesOf, Grown
  <2> QED
    BY <2>2 DEF Grown
<1> QED
  BY <1>1, <1>3 DEF On

(* The switch behind an appended event.                                    *)
LEMMA OnStep ==
  ASSUME NEW l, NEW l2, NEW e, Grown(l, l2, e), e.type = "enabled" => e.on \in BOOLEAN
  PROVE  On(l2, Len(l) + 2) = IF e.type = "enabled" THEN e.on ELSE On(l, Len(l) + 1)
<1> DEFINE n == Len(l)
<1>1. n \in Nat
  BY DEF Grown
<1>2. SwitchesOf(l2, n + 2) = IF e.type = "enabled" THEN SwitchesOf(l, n + 1) \cup {n + 1}
                              ELSE SwitchesOf(l, n + 1)
  <2>1. 1..((n + 2) - 1) = 1..((n + 1) - 1) \cup {n + 1} /\ n + 1 \notin 1..((n + 1) - 1)
    BY <1>1
  <2>2. \A m \in 1..((n + 1) - 1) : l2[m] = l[m]
    BY <1>1 DEF Grown
  <2>3. l2[n + 1] = e
    BY DEF Grown
  <2> HIDE DEF n
  <2> QED
    BY <2>1, <2>2, <2>3 DEF SwitchesOf
<1>3. CASE e.type = "enabled"
  <2> DEFINE S == SwitchesOf(l2, n + 2)
  <2>1. n + 1 \in S /\ n + 1 \in Nat /\ (n + 1) + 1 = n + 2
    BY <1>1, <1>2, <1>3
  <2>2. Max(S) \in S /\ \A m \in S : m <= Max(S)
    BY <2>1, LargestSwitch
  <2>3. \A m \in S : m \in Nat /\ m <= n + 1
    BY <1>1 DEF SwitchesOf
  <2> HIDE DEF S, n
  <2>4. Max(S) = n + 1
    BY <1>1, <2>1, <2>2, <2>3
  <2>5. l2[n + 1] = e
    BY DEF Grown, n
  <2> QED
    BY <1>3, <2>1, <2>4, <2>5 DEF On, S, n
<1>4. CASE e.type # "enabled"
  <2>1. SwitchesOf(l2, n + 2) = SwitchesOf(l2, n + 1)
    <3>1. SwitchesOf(l2, n + 1) = SwitchesOf(l, n + 1)
      BY <1>1 DEF Grown, SwitchesOf
    <3> QED
      BY <1>2, <1>4, <3>1
  <2>2. On(l2, n + 2) = On(l2, n + 1)
    BY <2>1 DEF On
  <2>3. On(l2, n + 1) = On(l, n + 1)
    BY <1>1, OnBeforeSame
  <2> QED
    BY <1>4, <2>2, <2>3
<1> QED
  BY <1>3, <1>4

----------------------------------------------------------------------------
(* Generation and switch *)

(* The projection follows the ledger's generation and switch.              *)
Counted(l, p) == p.generation = Gen(l, Len(l) + 1) /\ p.enabled = On(l, Len(l) + 1)

(* The projection goes on counting the generation and following the        *)
(* switch.                                                                 *)
LEMMA CountedKept ==
  ASSUME NEW l, NEW l2, NEW e, Grown(l, l2, e), NEW p, NEW q, Fields(p, Len(l) + 1, e, q),
         Counted(l, p), e.type = "enabled" => e.on \in BOOLEAN
  PROVE  Counted(l2, q)
<1>1. Len(l2) + 1 = Len(l) + 2
  BY DEF Grown
<1>2. Bumps(e) <=> e.type \in Bumping
  BY DEF Bumps, Bumping
<1>3. q.generation = Gen(l2, Len(l2) + 1)
  BY <1>1, <1>2, GenStep DEF Counted, Fields
<1>4. q.enabled = On(l2, Len(l2) + 1)
  BY <1>1, OnStep DEF Counted, Fields
<1> QED
  BY <1>3, <1>4 DEF Counted

----------------------------------------------------------------------------
(* Prompts: used only later, pending until used *)

(* Events use earlier prompts of the ledger.                               *)
UsesKnown(l) ==
  \A n \in DOMAIN l : \A c \in l[n].uses : c \in PromptsOf(l) /\ c < n

(* What is pending is a prompt that no event has used.                     *)
PendingOk(l, p) ==
  \A s \in p.pending :
    s.prompt \in PromptsOf(l) /\ \A n \in DOMAIN l : s.prompt \notin l[n].uses

(* A prompt with signals is pending until the generation is raised.        *)
SignalsOpen(l, p) ==
  \A k \in PromptsOf(l) : l[k].signals # {} =>
    \/ [prompt |-> k, signals |-> l[k].signals] \in p.pending
    \/ \E m \in (k + 1)..Len(l) : Bumps(l[m])

(* Only what raises the generation uses prompts; a clear uses none.        *)
LegalUses(l, e) ==
  /\ e.uses \subseteq PromptsOf(l)
  /\ e.type \notin Bumping => e.uses = {}
  /\ e.type = "cleared" => e.uses = {}

(* Prompts stay, and a prompt event is one more.                           *)
LEMMA PromptsGrow ==
  ASSUME NEW l, NEW l2, NEW e, Grown(l, l2, e)
  PROVE  /\ PromptsOf(l) = {n \in PromptsOf(l2) : n <= Len(l)}
         /\ PromptsOf(l2) = PromptsOf(l) \cup (IF e.type = "prompt" THEN {Len(l) + 1} ELSE {})
BY DEF Grown, PromptsOf

(* What is used goes on being an earlier prompt.                           *)
LEMMA UsesKept ==
  ASSUME NEW l, NEW l2, NEW e, Grown(l, l2, e), UsesKnown(l), LegalUses(l, e)
  PROVE  UsesKnown(l2)
<1>1. PromptsOf(l) \subseteq PromptsOf(l2) /\ \A c \in PromptsOf(l) : c \in Nat /\ c < Len(l) + 1
  <2>1. PromptsOf(l) \subseteq PromptsOf(l2)
    BY PromptsGrow
  <2>2. \A c \in PromptsOf(l) : c \in Nat /\ c < Len(l) + 1
    BY DEF PromptsOf, Grown
  <2> QED
    BY <2>1, <2>2
<1> SUFFICES ASSUME NEW n \in DOMAIN l2, NEW c \in l2[n].uses
             PROVE  c \in PromptsOf(l2) /\ c < n
  BY DEF UsesKnown
<1>2. CASE n = Len(l) + 1
  BY <1>1, <1>2 DEF Grown, LegalUses
<1>3. CASE n \in 1..Len(l)
  BY <1>1, <1>3 DEF Grown, UsesKnown
<1> QED
  BY <1>2, <1>3 DEF Grown

(* What is pending goes on being a prompt that nothing has used.           *)
LEMMA PendingKept ==
  ASSUME NEW l, NEW l2, NEW e, Grown(l, l2, e), NEW p, NEW q, Fields(p, Len(l) + 1, e, q),
         UsesKnown(l), PendingOk(l, p), LegalUses(l, e)
  PROVE  PendingOk(l2, q)
<1> SUFFICES ASSUME NEW s \in q.pending
             PROVE  s.prompt \in PromptsOf(l2) /\ \A n \in DOMAIN l2 : s.prompt \notin l2[n].uses
  BY DEF PendingOk
<1>1. CASE s \in p.pending
  <2>1. s.prompt \in PromptsOf(l) /\ \A n \in DOMAIN l : s.prompt \notin l[n].uses
    BY <1>1 DEF PendingOk
  <2>2. s.prompt \notin e.uses
    <3>1. CASE e.type \in Bumping \ Forgetting
      BY <3>1 DEF Fields, Open, Bumping, Forgetting
    <3>2. CASE e.type \in Forgetting
      BY <3>2 DEF Fields
    <3>3. CASE e.type \notin Bumping
      BY <3>3 DEF LegalUses
    <3> QED
      BY <3>1, <3>2, <3>3
  <2> QED
    BY <2>1, <2>2, PromptsGrow DEF Grown
<1>2. CASE s \notin p.pending
  <2>1. e.type = "prompt" /\ s = [prompt |-> Len(l) + 1, signals |-> e.signals]
    BY <1>2 DEF Fields, Open, Bumping, Forgetting
  <2>2. e.uses = {}
    BY <2>1 DEF LegalUses, Bumping
  <2>3. \A n \in DOMAIN l : \A c \in l[n].uses : c \in Nat /\ c < Len(l) + 1
    BY DEF UsesKnown, PromptsOf, Grown
  <2> QED
    BY <2>1, <2>2, <2>3, PromptsGrow DEF Grown
<1> QED
  BY <1>1, <1>2

(* A prompt with signals is pending until the next bump of the generation. *)
LEMMA SignalsKept ==
  ASSUME NEW l, NEW l2, NEW e, Grown(l, l2, e), NEW p, NEW q, Fields(p, Len(l) + 1, e, q),
         SignalsOpen(l, p)
  PROVE  SignalsOpen(l2, q)
<1> SUFFICES ASSUME NEW k \in PromptsOf(l2), l2[k].signals # {}
             PROVE  \/ [prompt |-> k, signals |-> l2[k].signals] \in q.pending
                    \/ \E m \in (k + 1)..Len(l2) : Bumps(l2[m])
  BY DEF SignalsOpen
<1>0. Len(l) \in Nat /\ Len(l2) = Len(l) + 1 /\ l2[Len(l) + 1] = e
  BY DEF Grown
<1>1. CASE k = Len(l) + 1
  <2>1. e.type = "prompt" /\ e.signals # {}
    BY <1>0, <1>1 DEF PromptsOf
  <2>2. q.pending = p.pending \cup {[prompt |-> k, signals |-> e.signals]}
    BY <1>1, <2>1 DEF Fields, Bumping, Forgetting
  <2> QED
    BY <1>0, <1>1, <2>2
<1>2. CASE k \in PromptsOf(l)
  <2>1. k \in 1..Len(l) /\ l2[k] = l[k]
    BY <1>2 DEF PromptsOf, Grown
  <2>2. CASE \E m \in (k + 1)..Len(l) : Bumps(l[m])
    <3>1. PICK m \in (k + 1)..Len(l) : Bumps(l[m])
      BY <2>2
    <3>2. m \in (k + 1)..Len(l2) /\ l2[m] = l[m]
      BY <1>0, <2>1 DEF Grown
    <3> QED
      BY <3>1, <3>2
  <2>3. CASE [prompt |-> k, signals |-> l[k].signals] \in p.pending
    <3>1. CASE e.type \in Bumping
      BY <1>0, <2>1, <3>1 DEF Bumps, Bumping
    <3>2. CASE e.type \notin Bumping
      BY <2>1, <2>3, <3>2 DEF Fields, Bumping, Forgetting
    <3> QED
      BY <3>1, <3>2
  <2> QED
    BY <1>2, <2>1, <2>2, <2>3 DEF SignalsOpen
<1> QED
  BY <1>1, <1>2, PromptsGrow

----------------------------------------------------------------------------
(* Challenges *)

(* Challenge ch is the last event about its action, and nothing has been   *)
(* forgotten since.                                                        *)
Outstanding(l, ch, a) ==
  /\ ch.issued \in DOMAIN l /\ ch = l[ch.issued]
  /\ ch.type = "challenge" /\ ch.action = a
  /\ \A k \in (ch.issued + 1)..Len(l) :
       /\ l[k].type \notin Forgetting
       /\ l[k].type \in {"enabled", "challenge"} => l[k].action # a

(* Every challenge of the projection is outstanding.                       *)
ChallengesOk(l, p) ==
  \A a \in ManagedActions : p.challenges[a] = Null \/ Outstanding(l, p.challenges[a], a)

(* A challenge carries its own place and window, and uses a request for    *)
(* its action.                                                             *)
Issued(l, n, e) ==
  /\ e.action \in ManagedActions
  /\ e.issued = n /\ e.expires = n + ChallengeWindow
  /\ e.prompt \in PromptsOf(l) /\ e.prompt < n /\ e.uses = {e.prompt}
  /\ RequiredSignal(e.action) \in l[e.prompt].signals

(* Every challenge of the ledger was issued so.                            *)
AllIssued(l) == \A n \in DOMAIN l : l[n].type = "challenge" => Issued(l, n, l[n])

(* A new challenge is issued so.                                           *)
LegalIssue(l, e) == e.type = "challenge" => Issued(l, Len(l) + 1, e)

(* Every challenge goes on being one that a request was given.             *)
LEMMA AllIssuedKept ==
  ASSUME NEW l, NEW l2, NEW e, Grown(l, l2, e), AllIssued(l), LegalIssue(l, e)
  PROVE  AllIssued(l2)
<1> SUFFICES ASSUME NEW n \in DOMAIN l2, l2[n].type = "challenge" PROVE Issued(l2, n, l2[n])
  BY DEF AllIssued
<1>1. \A c \in PromptsOf(l) : c \in PromptsOf(l2) /\ l2[c] = l[c]
  BY PromptsGrow DEF Grown, PromptsOf
<1>2. CASE n = Len(l) + 1
  <2>1. Issued(l, n, e) /\ l2[n] = e
    BY <1>2 DEF LegalIssue, Grown
  <2> QED
    BY <1>1, <2>1 DEF Issued
<1>3. CASE n \in 1..Len(l)
  <2>1. Issued(l, n, l[n]) /\ l2[n] = l[n]
    BY <1>3 DEF AllIssued, Grown
  <2> QED
    BY <1>1, <2>1 DEF Issued
<1> QED
  BY <1>2, <1>3 DEF Grown

(* The projection's challenges go on being outstanding ones.               *)
LEMMA ChallengesKept ==
  ASSUME NEW l, NEW l2, NEW e, Grown(l, l2, e), NEW p, IsProjection(p), NEW q,
         Fields(p, Len(l) + 1, e, q), ChallengesOk(l, p), LegalIssue(l, e)
  PROVE  ChallengesOk(l2, q)
<1> SUFFICES ASSUME NEW a \in ManagedActions, q.challenges[a] # Null
             PROVE  Outstanding(l2, q.challenges[a], a)
  BY DEF ChallengesOk
<1>0. /\ Len(l) \in Nat /\ Len(l2) = Len(l) + 1 /\ l2[Len(l) + 1] = e
      /\ DOMAIN l2 = 1..(Len(l) + 1) /\ DOMAIN l = 1..Len(l)
      /\ \A n \in 1..Len(l) : l2[n] = l[n]
  BY DEF Grown
<1>1. e.type \notin Forgetting
  BY DEF Fields
<1>2. CASE e.type = "challenge" /\ e.action = a
  <2>1. q.challenges = [p.challenges EXCEPT ![e.action] = e]
    BY <1>2 DEF Fields, Forgetting
  <2>2. q.challenges[a] = e
    BY <1>2, <2>1 DEF IsProjection
  <2>3. e.issued = Len(l) + 1
    BY <1>2 DEF LegalIssue, Issued
  <2> QED
    BY <1>0, <1>2, <2>2, <2>3 DEF Outstanding
<1>3. CASE ~(e.type = "challenge" /\ e.action = a)
  <2>1. q.challenges[a] = p.challenges[a] /\ ~(e.type = "enabled" /\ e.action = a)
    <3>1. CASE e.type = "challenge"
      BY <1>3, <3>1 DEF Fields, Forgetting, IsProjection
    <3>2. CASE e.type = "enabled"
      BY <1>3, <3>2 DEF Fields, Forgetting
    <3>3. CASE e.type \notin {"challenge", "enabled"}
      BY <1>1, <3>3 DEF Fields
    <3> QED
      BY <3>1, <3>2, <3>3
  <2> DEFINE ch == p.challenges[a]
             i == ch.issued
  <2>2. Outstanding(l, ch, a)
    BY <2>1 DEF ChallengesOk
  <2> HIDE DEF ch
  <2>3. i \in 1..Len(l) /\ l2[i] = ch /\ ch.type = "challenge" /\ ch.action = a
    BY <1>0, <2>2 DEF Outstanding
  <2>4. ASSUME NEW k \in (i + 1)..Len(l2)
        PROVE  l2[k].type \notin Forgetting
               /\ (l2[k].type \in {"enabled", "challenge"} => l2[k].action # a)
    <3>1. CASE k = Len(l) + 1
      BY <1>0, <1>1, <1>3, <2>1, <3>1
    <3>2. CASE k \in (i + 1)..Len(l)
      BY <1>0, <2>2, <2>3, <3>2 DEF Outstanding
    <3> QED
      BY <1>0, <2>3, <3>1, <3>2
  <2>5. Outstanding(l2, ch, a)
    BY <1>0, <2>3, <2>4 DEF Outstanding
  <2> QED
    BY <2>1, <2>5 DEF ch
<1> QED
  BY <1>2, <1>3

----------------------------------------------------------------------------
(* What a prompt authorizes *)

(* The properties of ContinuityTask, of a ledger.                            *)
Once(l) ==
  \A m, n \in DOMAIN l : m < n /\ l[m].uses \cap l[n].uses # {} =>
    /\ l[m].type = "challenge" /\ l[n].type = "challenge"
    /\ l[m].action = l[n].action
    /\ \E k \in m..(n - 1) :
         l[k].type = "challenge" /\ l[k].uses = l[n].uses /\ n - 1 <= l[k].expires

(* No event has used prompt c.                                             *)
UnusedIn(l, c) == \A n \in DOMAIN l : c \notin l[n].uses

(* A prompt is used by nothing so far, or asks for its challenge again.      *)
LegalOnce(l, p, e) ==
  \/ \A c \in e.uses : UnusedIn(l, c)
  \/ /\ e.type = "challenge" /\ e.action \in ManagedActions
     /\ p.challenges[e.action] # Null
     /\ e.uses = {p.challenges[e.action].prompt}
     /\ Len(l) <= p.challenges[e.action].expires

(* A legal use keeps every prompt used once: an outstanding challenge is   *)
(* the last of its action, so that a re-issue continues the one run of     *)
(* challenges that used the prompt.                                        *)
LEMMA OnceKept ==
  ASSUME NEW l, NEW l2, NEW e, Grown(l, l2, e), NEW p,
         Once(l), AllIssued(l), ChallengesOk(l, p), LegalOnce(l, p, e)
  PROVE  Once(l2)
<1>0. /\ Len(l) \in Nat /\ l2[Len(l) + 1] = e
      /\ DOMAIN l2 = 1..(Len(l) + 1) /\ DOMAIN l = 1..Len(l)
      /\ \A n \in 1..Len(l) : l2[n] = l[n]
  BY DEF Grown
<1> SUFFICES ASSUME NEW m \in DOMAIN l2, NEW n \in DOMAIN l2, m < n, l2[m].uses \cap l2[n].uses # {}
             PROVE  /\ l2[m].type = "challenge" /\ l2[n].type = "challenge"
                    /\ l2[m].action = l2[n].action
                    /\ \E k \in m..(n - 1) : l2[k].type = "challenge" /\ l2[k].uses = l2[n].uses
                                             /\ n - 1 <= l2[k].expires
  BY DEF Once
<1>1. CASE n \in 1..Len(l)
  <2>1. m \in 1..Len(l)
    BY <1>0, <1>1
  <2>2. /\ l[m].type = "challenge" /\ l[n].type = "challenge"
        /\ l[m].action = l[n].action
        /\ \E k \in m..(n - 1) : l[k].type = "challenge" /\ l[k].uses = l[n].uses
                                 /\ n - 1 <= l[k].expires
    BY <1>0, <1>1, <2>1 DEF Once
  <2>3. \A k \in m..(n - 1) : l2[k] = l[k]
    BY <1>0, <1>1, <2>1
  <2> QED
    BY <1>0, <1>1, <2>1, <2>2, <2>3
<1>2. CASE n = Len(l) + 1
  <2>1. m \in 1..Len(l) /\ l[m].uses \cap e.uses # {}
    BY <1>0, <1>2
  <2>2. ~ \A c \in e.uses : UnusedIn(l, c)
    BY <1>0, <2>1 DEF UnusedIn
  <2> DEFINE a == e.action
             ch == p.challenges[a]
             i == ch.issued
  <2>3. /\ e.type = "challenge" /\ a \in ManagedActions /\ ch # Null
        /\ e.uses = {ch.prompt} /\ Len(l) <= ch.expires
    BY <2>2 DEF LegalOnce
  <2> HIDE DEF ch
  <2>4. Outstanding(l, ch, a)
    BY <2>3 DEF ChallengesOk, ch
  <2>5. i \in 1..Len(l) /\ l[i] = ch /\ ch.type = "challenge" /\ ch.action = a
        /\ \A k \in (i + 1)..Len(l) : l[k].type \in {"enabled", "challenge"} => l[k].action # a
    BY <1>0, <2>4 DEF Outstanding
  <2>6. l[i].uses = e.uses
    BY <1>0, <2>3, <2>5 DEF AllIssued, Issued
  <2>7. m <= i
    <3> SUFFICES ASSUME i < m PROVE FALSE
      BY <2>1, <2>5
    <3>1. l[m].type = "challenge" /\ l[m].action = a
      BY <1>0, <2>1, <2>5, <2>6 DEF Once
    <3> QED
      BY <2>1, <2>5, <3>1
  <2>8. l[m].type = "challenge" /\ l[m].action = a
    <3>1. CASE m = i
      BY <2>5, <3>1
    <3>2. CASE m < i
      BY <1>0, <2>1, <2>5, <2>6, <3>2 DEF Once
    <3> QED
      BY <2>1, <2>5, <2>7, <3>1, <3>2
  <2>9. i \in m..(n - 1) /\ l2[i] = ch
    BY <1>0, <1>2, <2>1, <2>5, <2>7
  <2>10. n - 1 <= l2[i].expires /\ l2[i].uses = l2[n].uses /\ l2[i].type = "challenge"
    <3>1. l2[n] = e /\ n - 1 = Len(l)
      BY <1>0, <1>2
    <3>2. l2[i] = l[i]
      BY <2>5, <2>9
    <3> QED
      BY <2>3, <2>5, <2>6, <2>9, <3>1, <3>2
  <2> QED
    BY <1>0, <1>2, <2>1, <2>3, <2>8, <2>9, <2>10
<1> QED
  BY <1>0, <1>1, <1>2

(* Two messages per action.                                                  *)
TwoAt(l, n) ==
  \E i \in DOMAIN l, c \in PromptsOf(l) :
    /\ l[i].type = "challenge" /\ i < c /\ c < n /\ c <= i + ChallengeWindow
    /\ l[i].action = l[n].action
    /\ RequiredSignal(l[i].action) \in l[l[i].prompt].signals
    /\ l[c].text = ConfirmText(l[n].action, l[i].token)
    /\ l[n].uses = {c}
    /\ \A k \in (i + 1)..(n - 1) : l[k].type # "reset"
         /\ (l[k].type \in {"enabled", "challenge"} => l[k].action # l[n].action)

(* Every managed action took two messages.                                 *)
Two(l) ==
  \A n \in DOMAIN l : l[n].type \in {"reset", "enabled"} /\ l[n].action # Null => TwoAt(l, n)

(* An action answers the outstanding challenge, within its window.         *)
LegalAction(l, p, e) ==
  e.type \in {"reset", "enabled"} /\ e.action # Null =>
    /\ e.action \in ManagedActions /\ p.challenges[e.action] # Null
    /\ \E c \in PromptsOf(l) :
         /\ InWindow(c, p.challenges[e.action])
         /\ l[c].text = ConfirmText(e.action, p.challenges[e.action].token)
         /\ e.uses = {c}

(* A legal action has its two messages: the outstanding challenge that it  *)
(* answers, and the request which that was issued for.                     *)
LEMMA TwoKept ==
  ASSUME NEW l, NEW l2, NEW e, Grown(l, l2, e), NEW p,
         Two(l), AllIssued(l), ChallengesOk(l, p), LegalAction(l, p, e)
  PROVE  Two(l2)
<1>0. /\ Len(l) \in Nat /\ l2[Len(l) + 1] = e
      /\ DOMAIN l2 = 1..(Len(l) + 1) /\ DOMAIN l = 1..Len(l)
      /\ \A n \in 1..Len(l) : l2[n] = l[n]
  BY DEF Grown
<1>1. \A c \in PromptsOf(l) : c \in PromptsOf(l2) /\ c \in 1..Len(l)
  BY <1>0 DEF PromptsOf
<1> SUFFICES ASSUME NEW n \in DOMAIN l2, l2[n].type \in {"reset", "enabled"}, l2[n].action # Null
             PROVE  TwoAt(l2, n)
  BY DEF Two
<1>2. CASE n \in 1..Len(l)
  <2>1. TwoAt(l, n)
    BY <1>0, <1>2 DEF Two
  <2>2. PICK i \in DOMAIN l, c \in PromptsOf(l) :
          /\ l[i].type = "challenge" /\ i < c /\ c < n /\ c <= i + ChallengeWindow
          /\ l[i].action = l[n].action
          /\ RequiredSignal(l[i].action) \in l[l[i].prompt].signals
          /\ l[c].text = ConfirmText(l[n].action, l[i].token)
          /\ l[n].uses = {c}
          /\ \A k \in (i + 1)..(n - 1) : l[k].type # "reset"
               /\ (l[k].type \in {"enabled", "challenge"} => l[k].action # l[n].action)
    BY <2>1 DEF TwoAt
  <2>3. l[i].prompt \in 1..Len(l)
    BY <1>1, <2>2 DEF AllIssued, Issued
  <2>4. \A k \in (i + 1)..(n - 1) : l2[k] = l[k]
    BY <1>0, <1>2, <2>2
  <2>5. l2[i] = l[i] /\ l2[c] = l[c] /\ l2[n] = l[n] /\ l2[l[i].prompt] = l[l[i].prompt]
    BY <1>0, <1>1, <1>2, <2>2, <2>3
  <2>6. i \in DOMAIN l2 /\ c \in PromptsOf(l2)
    BY <1>0, <1>1, <2>2
  <2> QED
    BY <2>2, <2>4, <2>5, <2>6 DEF TwoAt
<1>3. CASE n = Len(l) + 1
  <2>1. l2[n] = e /\ e.type \in {"reset", "enabled"} /\ e.action # Null
    BY <1>0, <1>3
  <2> DEFINE a == e.action
             ch == p.challenges[a]
             i == ch.issued
  <2>2. a \in ManagedActions /\ ch # Null
    BY <2>1 DEF LegalAction
  <2> HIDE DEF ch
  <2>3. PICK c \in PromptsOf(l) :
          InWindow(c, ch) /\ l[c].text = ConfirmText(a, ch.token) /\ e.uses = {c}
    BY <2>1 DEF LegalAction, ch
  <2>4. Outstanding(l, ch, a)
    BY <2>2 DEF ChallengesOk, ch
  <2>5. i \in 1..Len(l) /\ l[i] = ch /\ l2[i] = ch /\ ch.type = "challenge" /\ ch.action = a
    BY <1>0, <2>4 DEF Outstanding
  <2>6. Issued(l, i, ch)
    BY <1>0, <2>5 DEF AllIssued
  <2>7. c <= i + ChallengeWindow /\ i < c /\ c < n
    BY <1>1, <1>3, <2>3, <2>5, <2>6 DEF Issued, InWindow
  <2>8. ch.prompt \in 1..Len(l) /\ RequiredSignal(a) \in l[ch.prompt].signals
    BY <1>1, <2>5, <2>6 DEF Issued
  <2>9. RequiredSignal(l2[i].action) \in l2[l2[i].prompt].signals
    BY <1>0, <2>5, <2>8
  <2>10. l2[c] = l[c] /\ c \in PromptsOf(l2) /\ i \in DOMAIN l2
    BY <1>0, <1>1, <2>5
  <2>11. ASSUME NEW k \in (i + 1)..(n - 1)
         PROVE  l2[k].type # "reset" /\ (l2[k].type \in {"enabled", "challenge"} => l2[k].action # l2[n].action)
    <3>1. k \in 1..Len(l) /\ k \in (i + 1)..Len(l)
      BY <1>0, <1>3, <2>5
    <3>2. l[k].type \notin Forgetting /\ (l[k].type \in {"enabled", "challenge"} => l[k].action # a)
      BY <2>4, <3>1 DEF Outstanding
    <3> QED
      BY <1>0, <2>1, <3>1, <3>2 DEF Forgetting
  <2> HIDE DEF i
  <2> QED
    BY <2>1, <2>3, <2>5, <2>7, <2>9, <2>10, <2>11 DEF TwoAt
<1> QED
  BY <1>0, <1>2, <1>3

(* What a user's item says is confirmed.                                     *)
ConfirmedItem(l, n, uses, generation, item) ==
  LET c == item.stamp IN
  /\ c \in PromptsOf(l) /\ c < n /\ c \in uses
  /\ l[c].text.form = "state"
  /\ l[c].text.generation = generation
  /\ \E claim \in ToSet(l[c].text.claims) : Normalized(claim, "standalone", c) = item

(* Every user's item of the ledger is confirmed at its generation.         *)
AllConfirmed(l) ==
  \A n \in DOMAIN l : l[n].type = "state" =>
    \A item \in ToSet(l[n].items) : item.authority = "user" =>
      ConfirmedItem(l, n, l[n].uses, Gen(l, n), item)

(* The user's items of a new batch are confirmed at the present one.       *)
LegalItems(l, p, e) ==
  e.type = "state" =>
    \A item \in ToSet(e.items) : item.authority = "user" =>
      ConfirmedItem(l, Len(l) + 1, e.uses, p.generation, item)

(* A legal batch has its user's items confirmed.                           *)
LEMMA AllConfirmedKept ==
  ASSUME NEW l, NEW l2, NEW e, Grown(l, l2, e), NEW p,
         AllConfirmed(l), Counted(l, p), LegalItems(l, p, e)
  PROVE  AllConfirmed(l2)
<1>0. /\ Len(l) \in Nat /\ l2[Len(l) + 1] = e
      /\ DOMAIN l2 = 1..(Len(l) + 1) /\ DOMAIN l = 1..Len(l)
      /\ \A n \in 1..Len(l) : l2[n] = l[n]
  BY DEF Grown
<1>1. \A c \in PromptsOf(l) : c \in PromptsOf(l2) /\ l2[c] = l[c]
  BY <1>0 DEF PromptsOf
<1> SUFFICES ASSUME NEW n \in DOMAIN l2, l2[n].type = "state",
                    NEW item \in ToSet(l2[n].items), item.authority = "user"
             PROVE  ConfirmedItem(l2, n, l2[n].uses, Gen(l2, n), item)
  BY DEF AllConfirmed
<1>2. Gen(l2, n) = Gen(l, n)
  BY <1>0, GenBefore
<1>3. ConfirmedItem(l, n, l2[n].uses, Gen(l, n), item)
  <2>1. CASE n \in 1..Len(l)
    BY <1>0, <2>1 DEF AllConfirmed
  <2>2. CASE n = Len(l) + 1
    BY <1>0, <2>2 DEF LegalItems, Counted
  <2> QED
    BY <1>0, <2>1, <2>2
<1> QED
  BY <1>1, <1>2, <1>3 DEF ConfirmedItem

----------------------------------------------------------------------------
(* While the task is off *)

(* Of the last event nobody knows what follows it.                           *)
OffOnly(l) ==
  \A n \in DOMAIN l : ~On(l, n) =>
    \/ l[n].type \in {"enabled", "reset"}
    \/ l[n].type = "prompt" /\ "continuity_on" \in l[n].signals
    \/ l[n].type = "challenge" /\ l[n].action = "on"
    \/ l[n].type = "workspace" /\ (n < Len(l) => l[n + 1].type = "prompt")

(* Between transactions it is no workspace seen while off.                   *)
Settled(l) == \A n \in DOMAIN l : n = Len(l) /\ l[n].type = "workspace" => On(l, n)

(* What may be recorded while the task is off.                             *)
LegalOff(l, p, e) ==
  /\ ~p.enabled =>
       \/ e.type \in {"enabled", "reset", "workspace"}
       \/ e.type = "prompt" /\ "continuity_on" \in e.signals
       \/ e.type = "challenge" /\ e.action = "on"
  /\ Settled(l) \/ e.type = "prompt"

(* A legal event does not disturb a task that is off.                      *)
LEMMA OffOnlyKept ==
  ASSUME NEW l, NEW l2, NEW e, Grown(l, l2, e), NEW p,
         OffOnly(l), Counted(l, p), LegalOff(l, p, e)
  PROVE  /\ OffOnly(l2)
         /\ e.type # "workspace" \/ p.enabled => Settled(l2)
<1>0. /\ Len(l) \in Nat /\ l2[Len(l) + 1] = e /\ Len(l2) = Len(l) + 1
      /\ DOMAIN l2 = 1..(Len(l) + 1) /\ DOMAIN l = 1..Len(l)
      /\ \A n \in 1..Len(l) : l2[n] = l[n]
  BY DEF Grown
<1>1. \A n \in DOMAIN l2 : On(l2, n) = On(l, n)
  BY <1>0, OnBeforeSame
<1>2. p.enabled = On(l, Len(l) + 1)
  BY DEF Counted
<1>3. ASSUME NEW n \in DOMAIN l2, ~On(l2, n)
      PROVE  \/ l2[n].type \in {"enabled", "reset"}
             \/ l2[n].type = "prompt" /\ "continuity_on" \in l2[n].signals
             \/ l2[n].type = "challenge" /\ l2[n].action = "on"
             \/ l2[n].type = "workspace" /\ (n < Len(l2) => l2[n + 1].type = "prompt")
  <2>1. CASE n = Len(l) + 1
    BY <1>0, <1>1, <1>2, <1>3, <2>1 DEF LegalOff
  <2>2. CASE n \in 1..Len(l)
    <3>1. ~On(l, n) /\ l2[n] = l[n] /\ n \in DOMAIN l
      BY <1>0, <1>1, <1>3, <2>2
    <3>2. CASE n = Len(l) /\ l[n].type = "workspace"
      BY <1>0, <3>1, <3>2 DEF LegalOff, Settled
    <3>3. CASE n < Len(l)
      BY <1>0, <2>2, <3>1, <3>3 DEF OffOnly
    <3>4. CASE l[n].type # "workspace"
      BY <3>1, <3>4 DEF OffOnly
    <3> QED
      BY <1>0, <2>2, <3>2, <3>3, <3>4
  <2> QED
    BY <1>0, <2>1, <2>2
<1>4. e.type # "workspace" \/ p.enabled => Settled(l2)
  BY <1>0, <1>1, <1>2 DEF Settled
<1> QED
  BY <1>3, <1>4 DEF OffOnly

----------------------------------------------------------------------------
(* What is in force behind an event *)

(* Does the batch write under identifier i?                                *)
Mentions(batch, i) == \E k \in 1..Len(batch) : batch[k].id = i

(* An item in force was mentioned by this event, or it was in force and    *)
(* has at most gone stale; a binding leaves no older intent in force, a    *)
(* clear leaves nothing.                                                   *)
LEMMA Carried ==
  ASSUME NEW p, IsProjection(p), ItemsOk(p), NEW n, NEW e, IsEvent(e)
  PROVE  LET q == Apply(p, n, e) IN
         /\ \A i \in Active(q) :
              \/ e.type \in Writing /\ Mentions(e.items, i)
              \/ /\ i \in Active(p)
                 /\ q.items[i] = p.items[i] \/ Staled(p.items[i], q.items[i])
                 /\ e.type = "bound" => p.items[i].kind \notin IntentKinds
         /\ e.type \notin Writing \cup Forgetting => Active(q) = Active(p)
         /\ e.type \in Forgetting => Active(q) = {}
<1> DEFINE q == Apply(p, n, e)
<1> HIDE DEF q
<1>0. Active(p) \subseteq DOMAIN p.items
  BY DEF Active, ItemsOk
<1>1. CASE e.type \notin Writing \cup Forgetting
  <2>1. PICK S : Marked(p, q, S)
    BY <1>1, UnwrittenResult DEF q
  <2>2. Active(q) = Active(p)
    BY <2>1, MarkedItems
  <2>3. \A i \in DOMAIN p.items : q.items[i] = p.items[i] \/ Staled(p.items[i], q.items[i])
    BY <2>1 DEF Marked
  <2> QED
    BY <1>0, <1>1, <2>2, <2>3 DEF q, Writing
<1>2. CASE e.type \in Forgetting
  <2>1. RetiredAll(p, q, p.active, "clear")
    BY <1>2, ClearResult DEF q
  <2>2. Active(q) = Active(p) \ p.active
    BY <2>1, RetiredItems
  <2> QED
    BY <1>2, <2>2 DEF q, Active
<1>3. CASE e.type \in Writing
  <2>1. PICK m : /\ IsItems(m.items) /\ ItemsOk(m)
                 /\ e.type = "state" => Active(m) = Active(p) /\ Marked(p, m, OvertakenActions(p, e.items))
                 /\ e.type = "bound" => RetiredAll(p, m, ActiveIntent(p), "contract")
                 /\ Written(m, e.items, q)
    BY <1>3, WrittenResult DEF q
  <2>2. e.items \in Seq(Item)
    BY <1>3 DEF IsEvent, Writing
  <2>3. \A i \in Active(q) : \/ i \in Active(m) /\ q.items[i] = m.items[i]
                             \/ Mentions(e.items, i)
    BY <2>1, <2>2, WrittenItems DEF Mentions
  <2>4. \A i \in Active(m) :
          /\ i \in Active(p)
          /\ m.items[i] = p.items[i] \/ Staled(p.items[i], m.items[i])
          /\ e.type = "bound" => p.items[i].kind \notin IntentKinds
    <3>1. CASE e.type = "state"
      <4>1. Active(m) = Active(p) /\ Marked(p, m, OvertakenActions(p, e.items))
        BY <2>1, <3>1
      <4> QED
        BY <1>0, <3>1, <4>1 DEF Marked
    <3>2. CASE e.type = "bound"
      <4>1. RetiredAll(p, m, ActiveIntent(p), "contract")
        BY <2>1, <3>2
      <4>2. Active(m) = Active(p) \ ActiveIntent(p)
        BY <4>1, RetiredItems
      <4>3. \A i \in Active(p) \ ActiveIntent(p) : m.items[i] = p.items[i] /\ p.items[i].kind \notin IntentKinds
        BY <1>0, <4>1 DEF RetiredAll, ActiveIntent, Active
      <4> QED
        BY <4>2, <4>3
    <3> QED
      BY <1>3, <3>1, <3>2 DEF Writing
  <2> QED
    BY <1>3, <2>3, <2>4 DEF q, Writing, Forgetting
<1> QED
  BY <1>1, <1>2, <1>3

(* What a batch mentions is of a kind that the batch gives it.               *)
LEMMA MentionedKind ==
  ASSUME NEW p, IsProjection(p), ItemsOk(p), NEW n, NEW e, IsEvent(e), e.type = "state",
         Admissible(p, e.items), \A k \in 1..Len(e.items) : e.items[k].kind \notin IntentKinds,
         NEW i, Mentions(e.items, i), i \in DOMAIN Apply(p, n, e).items
  PROVE  Apply(p, n, e).items[i].kind \notin IntentKinds
<1> DEFINE q == Apply(p, n, e)
           batch == e.items
<1> HIDE DEF q
<1>1. PICK m : /\ Aged(p, m) /\ DOMAIN m.items = DOMAIN p.items
               /\ Written(m, batch, q)
  BY WrittenResult DEF q, Writing
<1>2. PICK old \in Item :
        /\ Source(m, batch, Len(batch), i, old)
        /\ \/ q.items[i] = old
           \/ \E k \in 1..Len(batch) : Retired(old, q.items[i], batch[k].id)
  BY <1>1 DEF Written, Outcome, q
<1>3. old.kind \notin IntentKinds
  <2>1. CASE i \in DOMAIN p.items /\ old = m.items[i]
    <3>1. PICK k \in 1..Len(batch) : batch[k].id = i
      BY DEF Mentions
    <3>2. Older(p.items[i], batch[k]) /\ Older(p.items[i], m.items[i])
      BY <1>1, <2>1, <3>1 DEF Admissible, Aged
    <3>3. old.kind = batch[k].kind
      BY <2>1, <3>2 DEF Older, SameMeaning
    <3> QED
      BY <3>3
  <2> QED
    BY <1>1, <1>2, <2>1 DEF Source
<1> QED
  BY <1>2, <1>3 DEF Retired, SameMeaning, q

----------------------------------------------------------------------------
(* Evidence and planned actions *)

(* A batch behind place n mentions i.                                      *)
RecordedSince(l, i, n) ==
  \E k \in DOMAIN l : /\ l[k].type \in Writing /\ k > n
                      /\ \E item \in ToSet(l[k].items) : item.id = i

(* Without a workspace the ledger has seen none.                           *)
WorkspaceSeen(l, p) ==
  p.workspace = Null => \A n \in DOMAIN l : l[n].type # "workspace"

(* What counts as verified was recorded since the last change of           *)
(* workspace.                                                              *)
EvidenceOk(l, p) ==
  \A i \in WorkspaceDependent(p), n \in DOMAIN l :
    /\ l[n].type = "workspace"
    /\ \E m \in DOMAIN l : l[m].type = "workspace" /\ m < n
    => RecordedSince(l, i, n)

(* Events behind which planned actions are not current.                    *)
Boundary == {"snapshot", "restore", "session_ended"}

(* A current action was recorded behind every boundary.                    *)
ActionsOk(l, p) ==
  \A i \in CurrentActions(p), n \in DOMAIN l : l[n].type \in Boundary => RecordedSince(l, i, n)

(* A workspace is recorded only if it is a new one.                        *)
LegalWorkspace(p, e) ==
  e.type = "workspace" => e.workspace \in Workspace /\ e.workspace # p.workspace

(* At a boundary the planned actions have expired.                         *)
LegalBoundary(p, e) == e.type \in Boundary => CurrentActions(p) = {}

(* A record stays the later one, and a batch is later than anything before *)
(* it.                                                                     *)
LEMMA RecordedKept ==
  ASSUME NEW l, NEW l2, NEW e, Grown(l, l2, e), NEW i
  PROVE  /\ \A n \in DOMAIN l : RecordedSince(l, i, n) => RecordedSince(l2, i, n)
         /\ \A n \in DOMAIN l : e.type \in Writing /\ e.items \in Seq(Item) /\ Mentions(e.items, i)
                => RecordedSince(l2, i, n)
<1>0. /\ Len(l) \in Nat /\ l2[Len(l) + 1] = e
      /\ DOMAIN l2 = 1..(Len(l) + 1) /\ DOMAIN l = 1..Len(l)
      /\ \A n \in 1..Len(l) : l2[n] = l[n]
  BY DEF Grown
<1>1. \A n \in DOMAIN l : RecordedSince(l, i, n) => RecordedSince(l2, i, n)
  BY <1>0 DEF RecordedSince
<1>2. ASSUME NEW n \in DOMAIN l, e.type \in Writing, e.items \in Seq(Item), Mentions(e.items, i)
      PROVE  RecordedSince(l2, i, n)
  <2>1. \E item \in ToSet(e.items) : item.id = i
    BY <1>2 DEF Mentions, ToSet
  <2> QED
    BY <1>0, <1>2, <2>1 DEF RecordedSince
<1> QED
  BY <1>1, <1>2

(* Evidence stays current, with the workspace that it was found in.        *)
LEMMA EvidenceKept ==
  ASSUME NEW l, NEW l2, NEW e, Grown(l, l2, e), NEW p, IsProjection(p), ItemsOk(p), IsEvent(e),
         NEW q, q = Apply(p, Len(l) + 1, e),
         WorkspaceSeen(l, p), EvidenceOk(l, p), LegalWorkspace(p, e)
  PROVE  WorkspaceSeen(l2, q) /\ EvidenceOk(l2, q)
<1>0. /\ Len(l) \in Nat /\ l2[Len(l) + 1] = e
      /\ DOMAIN l2 = 1..(Len(l) + 1) /\ DOMAIN l = 1..Len(l)
      /\ \A n \in 1..Len(l) : l2[n] = l[n]
  BY DEF Grown
<1>1. q.workspace = IF e.type = "workspace" THEN e.workspace ELSE p.workspace
  <2>1. Fields(p, Len(l) + 1, e, q)
    BY ApplyResult
  <2> QED
    BY <2>1 DEF Fields
<1>2. WorkspaceSeen(l2, q)
  BY <1>0, <1>1, NullAssumption DEF WorkspaceSeen, LegalWorkspace
<1> SUFFICES ASSUME NEW i \in WorkspaceDependent(q), NEW n \in DOMAIN l2, l2[n].type = "workspace",
                    NEW m \in DOMAIN l2, l2[m].type = "workspace", m < n
             PROVE  RecordedSince(l2, i, n)
  BY <1>2 DEF EvidenceOk
<1>3. i \in Active(q) /\ q.items[i].kind \in WorkspaceKinds /\ q.items[i].verification = "verified"
  BY DEF WorkspaceDependent
<1>4. CASE n = Len(l) + 1
  <2>1. e.type = "workspace" /\ m \in DOMAIN l /\ l[m].type = "workspace"
    BY <1>0, <1>4
  <2>2. p.workspace \notin {Null, e.workspace}
    BY <2>1 DEF WorkspaceSeen, LegalWorkspace
  <2>3. Marked(p, q, WorkspaceDependent(p))
    BY <2>1, <2>2, WorkspaceResult
  <2>4. Active(q) = Active(p) /\ Active(p) \subseteq DOMAIN p.items
    <3>1. Active(q) = Active(p)
      BY <2>3, MarkedItems
    <3> QED
      BY <3>1 DEF Active, ItemsOk
  <2>5. CASE i \in WorkspaceDependent(p)
    BY <1>3, <2>3, <2>4, <2>5 DEF Marked, Staled
  <2>6. CASE i \notin WorkspaceDependent(p)
    BY <1>3, <2>3, <2>4, <2>6 DEF Marked, WorkspaceDependent
  <2> QED
    BY <2>5, <2>6
<1>5. CASE n \in 1..Len(l)
  <2>1. n \in DOMAIN l /\ m \in DOMAIN l /\ l[n].type = "workspace" /\ l[m].type = "workspace"
    BY <1>0, <1>5
  <2>2. CASE e.type \in Writing /\ Mentions(e.items, i)
    BY <2>1, <2>2, RecordedKept DEF IsEvent, Writing
  <2>3. CASE ~(e.type \in Writing /\ Mentions(e.items, i))
    <3>1. i \in Active(p) /\ (q.items[i] = p.items[i] \/ Staled(p.items[i], q.items[i]))
      BY <1>3, <2>3, Carried
    <3>2. i \in WorkspaceDependent(p)
      BY <1>3, <3>1 DEF WorkspaceDependent, Staled, SameMeaning
    <3>3. RecordedSince(l, i, n)
      BY <2>1, <3>2 DEF EvidenceOk
    <3> QED
      BY <2>1, <3>3, RecordedKept
  <2> QED
    BY <2>2, <2>3
<1> QED
  BY <1>0, <1>4, <1>5

(* Only a write makes a planned action current.                              *)
LEMMA ActionsCarried ==
  ASSUME NEW p, IsProjection(p), ItemsOk(p), NEW n, NEW e, IsEvent(e)
  PROVE  \A i \in CurrentActions(Apply(p, n, e)) :
           (e.type \in Writing /\ Mentions(e.items, i)) \/ i \in CurrentActions(p)
<1> DEFINE q == Apply(p, n, e)
<1> HIDE DEF q
<1> SUFFICES ASSUME NEW i \in CurrentActions(q), ~(e.type \in Writing /\ Mentions(e.items, i))
             PROVE  i \in CurrentActions(p)
  BY DEF q
<1>1. i \in Active(q) /\ q.items[i].kind = "next_action" /\ Current(q.items[i])
  BY DEF CurrentActions
<1>2. i \in Active(p) /\ (q.items[i] = p.items[i] \/ Staled(p.items[i], q.items[i]))
  BY <1>1, Carried DEF q
<1>3. q.items[i] = p.items[i]
  BY <1>1, <1>2 DEF Staled, Current
<1> QED
  BY <1>1, <1>2, <1>3 DEF CurrentActions

(* No planned action outlives a boundary.                                  *)
LEMMA ActionsKept ==
  ASSUME NEW l, NEW l2, NEW e, Grown(l, l2, e), NEW p, IsProjection(p), ItemsOk(p), IsEvent(e),
         NEW q, q = Apply(p, Len(l) + 1, e), ActionsOk(l, p), LegalBoundary(p, e)
  PROVE  ActionsOk(l2, q)
<1>0. /\ Len(l) \in Nat /\ l2[Len(l) + 1] = e
      /\ DOMAIN l2 = 1..(Len(l) + 1) /\ DOMAIN l = 1..Len(l)
      /\ \A n \in 1..Len(l) : l2[n] = l[n]
  BY DEF Grown
<1> SUFFICES ASSUME NEW i \in CurrentActions(q), NEW n \in DOMAIN l2, l2[n].type \in Boundary
             PROVE  RecordedSince(l2, i, n)
  BY DEF ActionsOk
<1>1. (e.type \in Writing /\ Mentions(e.items, i)) \/ i \in CurrentActions(p)
  BY ActionsCarried
<1>2. CASE n = Len(l) + 1
  <2>1. e.type \in Boundary /\ CurrentActions(p) = {}
    BY <1>0, <1>2 DEF LegalBoundary
  <2> QED
    BY <1>1, <2>1 DEF Boundary, Writing
<1>3. CASE n \in 1..Len(l)
  <2>1. n \in DOMAIN l /\ l[n].type \in Boundary
    BY <1>0, <1>3
  <2>2. CASE e.type \in Writing /\ Mentions(e.items, i)
    BY <2>1, <2>2, RecordedKept DEF IsEvent, Writing
  <2>3. CASE i \in CurrentActions(p)
    <3>1. RecordedSince(l, i, n)
      BY <2>1, <2>3 DEF ActionsOk
    <3> QED
      BY <2>1, <3>1, RecordedKept
  <2> QED
    BY <1>1, <2>2, <2>3
<1> QED
  BY <1>0, <1>2, <1>3

----------------------------------------------------------------------------
(* The external contract *)

(* The source of an external contract.                                     *)
Bound == "user-intent-plugin"

(* The intent in force is what the contract's last version lists.            *)
IntentOk(p) ==
  p.contract.source = Bound =>
    \A i \in Active(p) : p.items[i].kind \in IntentKinds =>
      \E item \in ToSet(p.contract.digest) : item.id = i /\ item.provider = "user-intent-plugin"

(* Versions of one contract only go up.                                      *)
VersionsRise(l) ==
  /\ \A n \in DOMAIN l : l[n].type = "bound" => l[n].version \in Nat
  /\ \A m, n \in DOMAIN l :
       /\ l[m].type = "bound" /\ l[n].type = "bound" /\ m < n
       /\ \A k \in m..n : l[k].type \notin Forgetting
       => l[m].ref = l[n].ref /\ l[m].version < l[n].version

(* The projection's contract is that of the last binding, unless forgotten.  *)
ContractOk(l, p) ==
  /\ p.contract.source \in {"standalone", Bound}
  /\ p.contract.source = Bound =>
       \E n \in DOMAIN l :
         /\ l[n].type = "bound"
         /\ l[n].ref = p.contract.ref /\ l[n].version = p.contract.version
         /\ \A k \in (n + 1)..Len(l) : l[k].type # "bound"
  /\ p.contract.source = "standalone" =>
       \A n \in DOMAIN l : l[n].type = "bound" => \E k \in n..Len(l) : l[k].type \in Forgetting

(* What may be written while a contract is bound, and which bindings may   *)
(* follow it.                                                              *)
LegalIntent(p, e) ==
  /\ e.type = "state" => \/ p.contract.source = "standalone"
                         \/ \A k \in 1..Len(e.items) : e.items[k].kind \notin IntentKinds
  /\ e.type = "bound" =>
       /\ e.version \in Nat
       /\ p.contract.source = Bound => e.ref = p.contract.ref /\ e.version > p.contract.version
       /\ \A k \in 1..Len(e.items) : e.items[k].provider = "user-intent-plugin"

(* The intent in force stays the contract's.                               *)
LEMMA IntentKept ==
  ASSUME NEW p, IsProjection(p), ItemsOk(p), NEW n, NEW e, IsEvent(e), NEW q, q = Apply(p, n, e),
         ItemsOk(q), IntentOk(p), LegalIntent(p, e), e.type \in Writing => Admissible(p, e.items),
         p.contract.source \in {"standalone", Bound}
  PROVE  IntentOk(q)
<1>0. Fields(p, n, e, q)
  BY ApplyResult
<1> SUFFICES ASSUME q.contract.source = Bound, NEW i \in Active(q), q.items[i].kind \in IntentKinds
             PROVE  \E item \in ToSet(q.contract.digest) : item.id = i /\ item.provider = "user-intent-plugin"
  BY DEF IntentOk
<1>1. e.type \notin Forgetting
  BY <1>0 DEF Fields, Standalone, Bound
<1>2. \/ e.type \in Writing /\ Mentions(e.items, i)
      \/ /\ i \in Active(p)
         /\ q.items[i].kind = p.items[i].kind
         /\ e.type = "bound" => p.items[i].kind \notin IntentKinds
  BY Carried DEF Staled, SameMeaning
<1>3. CASE e.type = "bound"
  <2>1. Mentions(e.items, i)
    BY <1>2, <1>3
  <2>2. PICK k \in 1..Len(e.items) : e.items[k].id = i
    BY <2>1 DEF Mentions
  <2>3. e.items[k] \in ToSet(e.items) /\ e.items[k].provider = "user-intent-plugin"
    BY <1>3, <2>2 DEF LegalIntent, ToSet, IsEvent
  <2>4. q.contract.digest = e.items
    BY <1>0, <1>3 DEF Fields, Forgetting
  <2> QED
    BY <2>2, <2>3, <2>4
<1>4. CASE e.type # "bound"
  <2>1. p.contract.source = Bound /\ q.contract.digest = p.contract.digest
    BY <1>0, <1>1, <1>4 DEF Fields
  <2>2. ~(e.type \in Writing /\ Mentions(e.items, i))
    <3> SUFFICES ASSUME e.type = "state", Mentions(e.items, i) PROVE FALSE
      BY <1>4 DEF Writing
    <3>1. \A k \in 1..Len(e.items) : e.items[k].kind \notin IntentKinds
      BY <2>1 DEF LegalIntent, Bound
    <3>2. i \in DOMAIN q.items
      BY DEF Active, ItemsOk
    <3>3. Admissible(p, e.items)
      BY DEF Writing
    <3>4. Apply(p, n, e).items[i].kind \notin IntentKinds
      BY <3>1, <3>2, <3>3, MentionedKind
    <3> QED
      BY <3>4
  <2> QED
    BY <1>2, <2>1, <2>2 DEF IntentOk
<1> QED
  BY <1>3, <1>4

(* The contract stays that of the last binding, whose version is the       *)
(* highest.                                                                *)
LEMMA ContractKept ==
  ASSUME NEW l, NEW l2, NEW e, Grown(l, l2, e), NEW p, NEW q, Fields(p, Len(l) + 1, e, q),
         VersionsRise(l), ContractOk(l, p), LegalIntent(p, e)
  PROVE  VersionsRise(l2) /\ ContractOk(l2, q)
<1>0. /\ Len(l) \in Nat /\ l2[Len(l) + 1] = e /\ Len(l2) = Len(l) + 1
      /\ DOMAIN l2 = 1..(Len(l) + 1) /\ DOMAIN l = 1..Len(l)
      /\ \A n \in 1..Len(l) : l2[n] = l[n]
  BY DEF Grown
<1>1. \A n \in DOMAIN l2 : l2[n].type = "bound" => l2[n].version \in Nat
  BY <1>0 DEF VersionsRise, LegalIntent
<1>2. ASSUME NEW m \in DOMAIN l2, NEW n \in DOMAIN l2,
             l2[m].type = "bound", l2[n].type = "bound", m < n,
             \A k \in m..n : l2[k].type \notin Forgetting
      PROVE  l2[m].ref = l2[n].ref /\ l2[m].version < l2[n].version
  <2>1. m \in DOMAIN l /\ l2[m] = l[m] /\ l[m].type = "bound"
    BY <1>0, <1>2
  <2>2. CASE n \in 1..Len(l)
    <3>1. \A k \in m..n : l[k].type \notin Forgetting
      BY <1>0, <1>2, <2>1, <2>2
    <3> QED
      BY <1>0, <1>2, <2>1, <2>2, <3>1 DEF VersionsRise
  <2>3. CASE n = Len(l) + 1
    <3>1. \A k \in m..Len(l) : l[k].type \notin Forgetting
      BY <1>0, <1>2, <2>1, <2>3
    <3>2. p.contract.source = Bound
      BY <2>1, <3>1 DEF ContractOk
    <3>3. e.type = "bound" /\ l2[n] = e
      BY <1>0, <1>2, <2>3
    <3>4. e.ref = p.contract.ref /\ e.version > p.contract.version /\ e.version \in Nat
      BY <3>2, <3>3 DEF LegalIntent
    <3>5. PICK last \in DOMAIN l :
            /\ l[last].type = "bound"
            /\ l[last].ref = p.contract.ref /\ l[last].version = p.contract.version
            /\ \A k \in (last + 1)..Len(l) : l[k].type # "bound"
      BY <3>2 DEF ContractOk
    <3>6. m <= last
      BY <1>0, <2>1, <3>5
    <3>7. l[m].version \in Nat /\ l[last].version \in Nat
      BY <2>1, <3>5 DEF VersionsRise
    <3>8. l[m].ref = l[last].ref /\ l[m].version <= l[last].version
      <4>1. CASE m = last
        BY <3>7, <4>1
      <4>2. CASE m < last
        <5>1. \A k \in m..last : l[k].type \notin Forgetting
          BY <1>0, <2>1, <3>1, <3>5
        <5>2. l[m].ref = l[last].ref /\ l[m].version < l[last].version
          BY <2>1, <3>5, <4>2, <5>1 DEF VersionsRise
        <5> QED
          BY <3>7, <5>2
      <4> QED
        BY <1>0, <2>1, <3>5, <3>6, <4>1, <4>2
    <3> QED
      BY <2>1, <3>3, <3>4, <3>5, <3>7, <3>8
  <2> QED
    BY <1>0, <2>2, <2>3
<1>3. VersionsRise(l2)
  BY <1>1, <1>2 DEF VersionsRise
<1>4. ContractOk(l2, q)
  <2>1. CASE e.type \in Forgetting
    <3>1. q.contract.source = "standalone"
      BY <2>1 DEF Fields, Standalone
    <3>2. \A n \in DOMAIN l2 : \E k \in n..Len(l2) : l2[k].type \in Forgetting
      BY <1>0, <2>1
    <3> QED
      BY <3>1, <3>2 DEF ContractOk, Bound
  <2>2. CASE e.type = "bound"
    <3>1. q.contract.source = Bound /\ q.contract.ref = e.ref /\ q.contract.version = e.version
      BY <2>2 DEF Fields, Forgetting, Bound
    <3>2. Len(l) + 1 \in DOMAIN l2 /\ \A k \in (Len(l) + 1 + 1)..Len(l2) : l2[k].type # "bound"
      BY <1>0
    <3> QED
      BY <1>0, <2>2, <3>1, <3>2 DEF ContractOk, Bound
  <2>3. CASE e.type \notin Forgetting /\ e.type # "bound"
    <3>1. q.contract.source = p.contract.source /\ q.contract.ref = p.contract.ref
          /\ (p.contract.source = Bound => q.contract.version = p.contract.version)
      BY <2>3 DEF Fields, Bound
    <3>2. CASE p.contract.source = Bound
      <4>1. PICK last \in DOMAIN l :
              /\ l[last].type = "bound"
              /\ l[last].ref = p.contract.ref /\ l[last].version = p.contract.version
              /\ \A k \in (last + 1)..Len(l) : l[k].type # "bound"
        BY <3>2 DEF ContractOk
      <4>2. \A k \in (last + 1)..Len(l2) : l2[k].type # "bound"
        BY <1>0, <2>3, <4>1
      <4>3. last \in DOMAIN l2 /\ l2[last] = l[last]
        BY <1>0, <4>1
      <4> QED
        BY <3>1, <3>2, <4>1, <4>2, <4>3 DEF ContractOk, Bound
    <3>3. CASE p.contract.source = "standalone"
      <4>1. ASSUME NEW n \in DOMAIN l2, l2[n].type = "bound"
            PROVE  \E k \in n..Len(l2) : l2[k].type \in Forgetting
        <5>1. n \in DOMAIN l /\ l[n].type = "bound"
          BY <1>0, <2>3, <4>1
        <5>2. PICK k \in n..Len(l) : l[k].type \in Forgetting
          BY <3>3, <5>1 DEF ContractOk
        <5> QED
          BY <1>0, <5>1, <5>2
      <4> QED
        BY <3>1, <3>3, <4>1 DEF ContractOk, Bound
    <3> QED
      BY <3>2, <3>3 DEF ContractOk
  <2> QED
    BY <2>1, <2>2, <2>3
<1> QED
  BY <1>3, <1>4

----------------------------------------------------------------------------
(* The snapshot *)

(* The snapshot of the projection is an event since the last clear or reset. *)
(* It holds its own generation, the prompts open before it, and unless state *)
(* was written since, no planned action is current and none has expired.     *)
SnapshotAt(l, p, s) ==
  /\ l[s] = p.snapshot /\ l[s].type = "snapshot"
  /\ \A k \in s..Len(l) : l[k].type \notin Forgetting
  /\ l[s].generation = Gen(l, s + 1)
  /\ l[s].digest.generation = l[s].generation
  /\ \A x \in l[s].digest.pending : x.prompt < s
  /\ (\A k \in (s + 1)..Len(l) : ~Bumps(l[k])) =>
       CurrentActions(p) = {} /\ \A k \in (s + 1)..Len(l) : l[k].type # "revalidate"

(* The snapshot of the projection is such an event of the ledger.          *)
SnapshotOk(l, p) == p.snapshot # Null => \E s \in DOMAIN l : SnapshotAt(l, p, s)

(* A snapshot describes the projection it follows; a revalidation has      *)
(* something to expire.                                                    *)
LegalSnapshot(p, e) ==
  /\ e.type = "snapshot" =>
       /\ e.generation = p.generation /\ e.digest.generation = p.generation
       /\ e.digest.pending = p.pending
  /\ e.type = "revalidate" => CurrentActions(p) # {}

(* The snapshot stays one that describes the state it was taken of.        *)
LEMMA SnapshotKept ==
  ASSUME NEW l, NEW l2, NEW e, Grown(l, l2, e), NEW p, IsProjection(p), ItemsOk(p), IsEvent(e),
         NEW q, q = Apply(p, Len(l) + 1, e), Counted(l, p), PendingOk(l, p), SnapshotOk(l, p),
         LegalSnapshot(p, e), LegalBoundary(p, e)
  PROVE  SnapshotOk(l2, q)
<1>0. /\ Len(l) \in Nat /\ l2[Len(l) + 1] = e /\ Len(l2) = Len(l) + 1
      /\ DOMAIN l2 = 1..(Len(l) + 1) /\ DOMAIN l = 1..Len(l)
      /\ \A n \in 1..Len(l) : l2[n] = l[n]
  BY DEF Grown
<1>f. Fields(p, Len(l) + 1, e, q)
  BY ApplyResult
<1>a. e.type \notin Writing => CurrentActions(q) \subseteq CurrentActions(p)
  BY ActionsCarried
<1> SUFFICES ASSUME q.snapshot # Null PROVE \E s \in DOMAIN l2 : SnapshotAt(l2, q, s)
  BY DEF SnapshotOk
<1>1. CASE e.type = "snapshot"
  <2> DEFINE s == Len(l) + 1
  <2>1. s \in DOMAIN l2 /\ l2[s] = e /\ q.snapshot = e
    BY <1>0, <1>1, <1>f DEF Fields
  <2>2. \A k \in s..Len(l2) : l2[k].type \notin Forgetting
    BY <1>0, <1>1 DEF Forgetting
  <2>3. e.generation = Gen(l2, s + 1)
    <3>1. Gen(l2, Len(l) + 2) = Gen(l, Len(l) + 1)
      BY <1>1, GenStep DEF Bumps
    <3>2. s + 1 = Len(l) + 2
      BY <1>0
    <3> QED
      BY <1>1, <3>1, <3>2 DEF LegalSnapshot, Counted
  <2>4. e.digest.generation = e.generation
    BY <1>1 DEF LegalSnapshot
  <2>5. \A x \in e.digest.pending : x.prompt < s
    <3>1. \A x \in p.pending : x.prompt \in 1..Len(l)
      BY <1>0 DEF PendingOk, PromptsOf
    <3> QED
      BY <1>0, <1>1, <3>1 DEF LegalSnapshot
  <2>6. CurrentActions(q) = {}
    BY <1>1, <1>a DEF LegalBoundary, Boundary, Writing
  <2>7. (s + 1)..Len(l2) = {}
    BY <1>0
  <2> HIDE DEF s
  <2>8. SnapshotAt(l2, q, s)
    BY <1>1, <2>1, <2>2, <2>3, <2>4, <2>5, <2>6, <2>7 DEF SnapshotAt
  <2> QED
    BY <2>1, <2>8
<1>2. CASE e.type # "snapshot"
  <2>1. e.type \notin Forgetting /\ q.snapshot = p.snapshot
    BY <1>2, <1>f DEF Fields
  <2>2. PICK s \in DOMAIN l : SnapshotAt(l, p, s)
    BY <2>1 DEF SnapshotOk
  <2>3. s \in 1..Len(l) /\ l2[s] = l[s]
    BY <1>0
  <2>4. Gen(l2, s + 1) = Gen(l, s + 1)
    BY <1>0, <2>3, GenBefore
  <2>5. \A k \in s..Len(l2) : l2[k].type \notin Forgetting
    BY <1>0, <2>1, <2>2, <2>3 DEF SnapshotAt
  <2>6. ASSUME \A k \in (s + 1)..Len(l2) : ~Bumps(l2[k])
        PROVE  CurrentActions(q) = {} /\ \A k \in (s + 1)..Len(l2) : l2[k].type # "revalidate"
    <3>1. \A k \in (s + 1)..Len(l) : k \in (s + 1)..Len(l2) /\ l2[k] = l[k]
      BY <1>0, <2>3
    <3>2. \A k \in (s + 1)..Len(l) : ~Bumps(l[k])
      BY <2>6, <3>1
    <3>3. CurrentActions(p) = {} /\ \A k \in (s + 1)..Len(l) : l[k].type # "revalidate"
      BY <2>2, <3>2 DEF SnapshotAt
    <3>4. Len(l2) \in (s + 1)..Len(l2) /\ l2[Len(l2)] = e
      BY <1>0, <2>3
    <3>5. ~Bumps(e)
      BY <2>6, <3>4
    <3>6. CurrentActions(q) = {}
      BY <1>a, <3>3, <3>5 DEF Bumps, Writing
    <3>7. e.type # "revalidate"
      BY <3>3 DEF LegalSnapshot
    <3>8. \A k \in (s + 1)..Len(l2) : k \in (s + 1)..Len(l) \/ k = Len(l2)
      BY <1>0, <2>3
    <3> QED
      BY <3>1, <3>3, <3>4, <3>6, <3>7, <3>8
  <2>7. SnapshotAt(l2, q, s)
    BY <2>1, <2>2, <2>3, <2>4, <2>5, <2>6 DEF SnapshotAt
  <2> QED
    BY <1>0, <2>3, <2>7
<1> QED
  BY <1>1, <1>2

----------------------------------------------------------------------------
(* What the ledger's compactions and recoveries show *)

(* What a compaction at place n relies on, if it is confirmed ...          *)
CompactionAt(l, n, e) ==
  e.matched =>
    \E s \in DOMAIN l :
      /\ l[s].type = "snapshot"
      /\ s < n /\ l[s].trigger = e.trigger /\ l[s].sequence = e.sequence
      /\ \A k \in s..(n - 1) : l[k].type \notin Forgetting

(* ... a recovery, if it continues unasked ...                             *)
QuietAt(l, n, e) ==
  e.source = "compact" /\ e.class \in {"equivalent", "continue_with_markers"} =>
    \E s \in DOMAIN l : l[s].type = "snapshot" /\ s < n /\ \A k \in (s + 1)..(n - 1) :
      /\ ~Bumps(l[k]) /\ l[k].type # "revalidate"
      /\ l[k].type = "prompt" => l[k].signals = {}

(* ... and any recovery of a task with state.                              *)
MarkedAt(l, n, e) == Gen(l, n) > 0 => e.class # "equivalent"

(* All compactions and recoveries of the ledger.                           *)
HistoryOk(l) ==
  \A n \in DOMAIN l :
    /\ l[n].type = "compaction" => CompactionAt(l, n, l[n])
    /\ l[n].type = "restore" => QuietAt(l, n, l[n]) /\ MarkedAt(l, n, l[n])

(* A new one.                                                              *)
LegalHistory(l, e) ==
  /\ e.type = "compaction" => CompactionAt(l, Len(l) + 1, e)
  /\ e.type = "restore" => QuietAt(l, Len(l) + 1, e) /\ MarkedAt(l, Len(l) + 1, e)

(* What a compaction or a recovery relied on stays in the ledger.          *)
LEMMA HistoryKept ==
  ASSUME NEW l, NEW l2, NEW e, Grown(l, l2, e), HistoryOk(l), LegalHistory(l, e)
  PROVE  HistoryOk(l2)
<1>0. /\ Len(l) \in Nat /\ l2[Len(l) + 1] = e /\ Len(l2) = Len(l) + 1
      /\ DOMAIN l2 = 1..(Len(l) + 1) /\ DOMAIN l = 1..Len(l)
      /\ \A n \in 1..Len(l) : l2[n] = l[n]
  BY DEF Grown
<1> SUFFICES ASSUME NEW n \in DOMAIN l2
             PROVE  /\ l2[n].type = "compaction" => CompactionAt(l2, n, l2[n])
                    /\ l2[n].type = "restore" => QuietAt(l2, n, l2[n]) /\ MarkedAt(l2, n, l2[n])
  BY DEF HistoryOk
<1>1. /\ l2[n].type = "compaction" => CompactionAt(l, n, l2[n])
      /\ l2[n].type = "restore" => QuietAt(l, n, l2[n]) /\ MarkedAt(l, n, l2[n])
  <2>1. CASE n \in 1..Len(l)
    BY <1>0, <2>1 DEF HistoryOk
  <2>2. CASE n = Len(l) + 1
    BY <1>0, <2>2 DEF LegalHistory
  <2> QED
    BY <1>0, <2>1, <2>2
<1>2. \A s \in DOMAIN l : s \in DOMAIN l2 /\ l2[s] = l[s] /\ \A k \in s..(n - 1) : l2[k] = l[k]
  BY <1>0
<1>3. CompactionAt(l, n, l2[n]) => CompactionAt(l2, n, l2[n])
  BY <1>2 DEF CompactionAt
<1>4. \A s \in DOMAIN l : \A k \in (s + 1)..(n - 1) : k \in s..(n - 1)
  BY <1>0
<1>5. QuietAt(l, n, l2[n]) => QuietAt(l2, n, l2[n])
  BY <1>2, <1>4 DEF QuietAt
<1>6. Gen(l2, n) = Gen(l, n)
  BY <1>0, GenBefore
<1> QED
  BY <1>1, <1>3, <1>5, <1>6 DEF MarkedAt

----------------------------------------------------------------------------
(* The invariant of a ledger and its projection *)

(* What a projection is bounded by.                                        *)
Kinds(p) ==
  /\ p.enabled \in BOOLEAN /\ p.lifecycle \in {"active", "cleared"}
  /\ p.workspace \in Workspace \cup {Null}
  /\ Cardinality(Active(p)) <= MaxActive

(* No client sends two items of one identifier in one batch.               *)
DistinctBatches == \A b \in Batches : Distinct(b)

(* All of it together: what relates a ledger to its projection.            *)
LedgerOk(l, p) ==
  /\ IsLog(l) /\ IsProjection(p) /\ ItemsOk(p) /\ Kinds(p)
  /\ Counted(l, p) /\ UsesKnown(l) /\ PendingOk(l, p) /\ SignalsOpen(l, p)
  /\ AllIssued(l) /\ ChallengesOk(l, p) /\ Once(l) /\ Two(l) /\ AllConfirmed(l)
  /\ OffOnly(l)
  /\ WorkspaceSeen(l, p) /\ EvidenceOk(l, p) /\ ActionsOk(l, p)
  /\ IntentOk(p) /\ VersionsRise(l) /\ ContractOk(l, p)
  /\ SnapshotOk(l, p) /\ HistoryOk(l)
  /\ DistinctBatches => ByOrder(p)

(* What the service makes sure of before it appends e.                       *)
LegalWrite(l, p, e) ==
  e.type \in Writing =>
    /\ Admissible(p, e.items)
    /\ DistinctBatches => Distinct(e.items)
    /\ Cardinality(Active(Apply(p, Len(l) + 1, e))) <= MaxActive

(* All that an event must meet.                                            *)
Legal(l, p, e) ==
  /\ IsEvent(e) /\ (e.type = "enabled" => e.on \in BOOLEAN)
  /\ LegalWrite(l, p, e)
  /\ LegalUses(l, e) /\ LegalIssue(l, e) /\ LegalOnce(l, p, e)
  /\ LegalAction(l, p, e) /\ LegalItems(l, p, e) /\ LegalOff(l, p, e)
  /\ LegalWorkspace(p, e) /\ LegalBoundary(p, e) /\ LegalIntent(p, e)
  /\ LegalSnapshot(p, e) /\ LegalHistory(l, e)

(* What a later projection is to an earlier one.                             *)
Later(p, q) ==
  /\ Aged(p, q)
  /\ \/ q.generation > p.generation
     \/ /\ q.generation = p.generation /\ q.enabled = p.enabled
        /\ q.contract = p.contract /\ q.challenges = p.challenges
        /\ Seen(q) = Seen(p)

(* Later is transitive,                                                    *)
LEMMA LaterTransitive ==
  ASSUME NEW p, NEW q, NEW r, Later(p, q), Later(q, r),
         p.generation \in Nat, q.generation \in Nat, r.generation \in Nat
  PROVE  Later(p, r)
<1>1. Aged(p, r)
  BY AgedTransitive DEF Later
<1> QED
  BY <1>1 DEF Later

(* and reflexive.                                                          *)
LEMMA LaterSame ==
  ASSUME NEW p
  PROVE  Later(p, p)
BY DEF Later, Aged, Older, SameMeaning

(* The generation is a number, bounded by the length of the ledger.        *)
LEMMA GenerationNat ==
  ASSUME NEW l, NEW p, LedgerOk(l, p)
  PROVE  Len(l) \in Nat /\ p.generation \in Nat /\ p.generation <= Len(l)
<1>1. Len(l) \in Nat
  BY DEF LedgerOk, IsLog
<1>2. p.generation = Gen(l, Len(l) + 1)
  BY DEF LedgerOk, Counted
<1> QED
  BY <1>1, <1>2, GenNat

(* Every event leads to a later projection.                                *)
LEMMA LaterStep ==
  ASSUME NEW p, IsProjection(p), ItemsOk(p), p.generation \in Nat, NEW n, NEW e, IsEvent(e),
         e.type \in Writing => Admissible(p, e.items)
  PROVE  Later(p, Apply(p, n, e))
<1> DEFINE q == Apply(p, n, e)
<1>1. Aged(p, q)
  BY ItemsResult
<1>2. IsProjection(q) /\ Fields(p, n, e, q)
  BY ApplyResult
<1>3. CASE e.type \in Bumping
  BY <1>1, <1>2, <1>3 DEF Later, Fields
<1>4. CASE e.type \notin Bumping
  <2>1. PICK S : Marked(p, q, S)
    BY <1>4, UnwrittenResult DEF Bumping, Writing, Forgetting
  <2> HIDE DEF q
  <2>2. Seen(q) = Seen(p)
    BY <1>2, <2>1, MarkedSeen DEF IsProjection
  <2>3. /\ q.generation = p.generation /\ q.enabled = p.enabled
        /\ q.contract = p.contract /\ q.challenges = p.challenges
    BY <1>2, <1>4 DEF Fields, Bumping, Forgetting
  <2> QED
    BY <1>1, <2>2, <2>3 DEF Later, q
<1> QED
  BY <1>3, <1>4

(* The switch, the life cycle, the workspace and the number of active      *)
(* items keep their kinds and bounds.                                      *)
LEMMA KindsKept ==
  ASSUME NEW l, NEW p, IsProjection(p), ItemsOk(p), Kinds(p), NEW e, Legal(l, p, e)
  PROVE  Kinds(Apply(p, Len(l) + 1, e))
<1> DEFINE n == Len(l) + 1
           q == Apply(p, n, e)
<1>1. IsEvent(e)
  BY DEF Legal
<1>2. Fields(p, n, e, q)
  BY <1>1, ApplyResult
<1>3. Cardinality(Active(q)) <= MaxActive
  <2>1. CASE e.type \in Writing
    BY <2>1 DEF Legal, LegalWrite
  <2>2. CASE e.type \in Forgetting
    <3>1. Active(q) = {}
      BY <1>1, <2>2, Carried
    <3>2. Cardinality({}) = 0
      BY FS_EmptySet
    <3> QED
      BY <3>1, <3>2, BoundAssumption
  <2>3. CASE e.type \notin Writing \cup Forgetting
    <3>1. Active(q) = Active(p)
      BY <1>1, <2>3, Carried
    <3> QED
      BY <3>1 DEF Kinds
  <2> QED
    BY <2>1, <2>2, <2>3
<1> HIDE DEF q, n
<1>4. q.enabled \in BOOLEAN /\ q.lifecycle \in {"active", "cleared"}
  BY <1>2 DEF Fields, Kinds, Legal
<1>5. q.workspace \in Workspace \cup {Null}
  BY <1>2 DEF Fields, Kinds, Legal, LegalWorkspace
<1> QED
  BY <1>3, <1>4, <1>5 DEF Kinds, q, n

(* Whatever is legal keeps the invariant.                                    *)
LEMMA LegalKeeps ==
  ASSUME NEW l, NEW p, LedgerOk(l, p), NEW e, Legal(l, p, e)
  PROVE  /\ LedgerOk(Append(l, e), Apply(p, Len(l) + 1, e))
         /\ Later(p, Apply(p, Len(l) + 1, e))
         /\ e.type # "workspace" \/ p.enabled => Settled(Append(l, e))
<1> DEFINE l2 == Append(l, e)
           q == Apply(p, Len(l) + 1, e)
<1>1. IsLog(l2) /\ Grown(l, l2, e)
  BY AppendGrows DEF LedgerOk
<1>2. IsProjection(p) /\ ItemsOk(p) /\ IsEvent(e) /\ (e.type \in Writing => Admissible(p, e.items))
  BY DEF LedgerOk, Legal, LegalWrite
<1>3. IsProjection(q) /\ Fields(p, Len(l) + 1, e, q)
  BY <1>2, ApplyResult
<1>4. ItemsOk(q)
  BY <1>2, ItemsResult
<1>5. Later(p, q)
  BY <1>2, GenerationNat, LaterStep
<1>6. Kinds(q)
  BY <1>2, KindsKept DEF LedgerOk
<1>o. DistinctBatches => ByOrder(q)
  BY <1>2, OrderResult DEF LedgerOk, Legal, LegalWrite
<1> HIDE DEF l2, q
<1>q. q = Apply(p, Len(l) + 1, e)
  BY DEF q
<1>7. Counted(l2, q)
  BY <1>1, <1>3, CountedKept DEF LedgerOk, Legal
<1>8. UsesKnown(l2)
  BY <1>1, UsesKept DEF LedgerOk, Legal
<1>9. PendingOk(l2, q)
  BY <1>1, <1>3, PendingKept DEF LedgerOk, Legal
<1>10. SignalsOpen(l2, q)
  BY <1>1, <1>3, SignalsKept DEF LedgerOk
<1>11. AllIssued(l2)
  BY <1>1, AllIssuedKept DEF LedgerOk, Legal
<1>12. ChallengesOk(l2, q)
  BY <1>1, <1>2, <1>3, ChallengesKept DEF LedgerOk, Legal
<1>13. Once(l2)
  BY <1>1, OnceKept DEF LedgerOk, Legal
<1>14. Two(l2)
  BY <1>1, TwoKept DEF LedgerOk, Legal
<1>15. AllConfirmed(l2)
  BY <1>1, AllConfirmedKept DEF LedgerOk, Legal
<1>16. OffOnly(l2) /\ (e.type # "workspace" \/ p.enabled => Settled(l2))
  BY <1>1, OffOnlyKept DEF LedgerOk, Legal
<1>17. WorkspaceSeen(l2, q) /\ EvidenceOk(l2, q)
  BY <1>1, <1>2, <1>q, EvidenceKept DEF LedgerOk, Legal
<1>18. ActionsOk(l2, q)
  BY <1>1, <1>2, <1>q, ActionsKept DEF LedgerOk, Legal
<1>19. IntentOk(q)
  <2>1. p.contract.source \in {"standalone", Bound} /\ IntentOk(p) /\ LegalIntent(p, e)
    BY DEF LedgerOk, Legal, ContractOk
  <2> QED
    BY <1>2, <1>4, <1>q, <2>1, IntentKept
<1>20. VersionsRise(l2) /\ ContractOk(l2, q)
  BY <1>1, <1>3, ContractKept DEF LedgerOk, Legal
<1>21. SnapshotOk(l2, q)
  BY <1>1, <1>2, <1>q, SnapshotKept DEF LedgerOk, Legal
<1>22. HistoryOk(l2)
  BY <1>1, HistoryKept DEF LedgerOk, Legal
<1>23. LedgerOk(l2, q)
  BY <1>1, <1>3, <1>4, <1>6, <1>7, <1>8, <1>9, <1>10, <1>11, <1>12, <1>13, <1>14, <1>15,
     <1>16, <1>17, <1>18, <1>19, <1>20, <1>21, <1>22, <1>o DEF LedgerOk
<1> QED
  BY <1>5, <1>16, <1>23 DEF l2, q

(* The ledger of a task begins well.                                       *)
LEMMA EmptyOk == LedgerOk(<<>>, Empty) /\ Settled(<<>>)
<1> DEFINE l == <<>>
<1>1. IsLog(l) /\ Len(l) = 0 /\ DOMAIN l = {}
  <2>1. l \in Seq({})
    OBVIOUS
  <2> QED
    BY <2>1 DEF IsLog
<1> DEFINE p == Empty
<1>2. /\ p.generation = 0 /\ p.enabled = TRUE /\ p.lifecycle = "active"
      /\ p.contract.source = "standalone" /\ DOMAIN p.items = {} /\ p.active = {}
      /\ p.pending = {} /\ p.workspace = Null /\ p.snapshot = Null
      /\ \A a \in ManagedActions : p.challenges[a] = Null
  BY DEF Empty, Standalone
<1>3. IsProjection(p) /\ ItemsOk(p)
  BY <1>2, EmptyProjection DEF ItemsOk
<1>4. Active(p) = {}
  BY <1>2 DEF Active
<1>5. Kinds(p)
  <2> HIDE DEF p
  <2>1. Cardinality(Active(p)) <= MaxActive
    BY <1>4, FS_EmptySet, BoundAssumption
  <2>2. p.enabled \in BOOLEAN /\ p.lifecycle \in {"active", "cleared"}
        /\ p.workspace \in Workspace \cup {Null}
    BY <1>2
  <2> QED
    BY <2>1, <2>2 DEF Kinds
<1> HIDE DEF l, p
<1>6. Counted(l, p)
  <2>1. Bumped(l, 0 + 1) = {} /\ SwitchesOf(l, 0 + 1) = {}
    BY DEF Bumped, SwitchesOf
  <2>2. Gen(l, 0 + 1) = 0 /\ On(l, 0 + 1) = TRUE
    BY <2>1, FS_EmptySet DEF Gen, On
  <2> QED
    BY <1>1, <1>2, <2>2 DEF Counted
<1>7. PromptsOf(l) = {}
  BY <1>1 DEF PromptsOf
<1>8. /\ UsesKnown(l) /\ PendingOk(l, p) /\ SignalsOpen(l, p)
      /\ AllIssued(l) /\ ChallengesOk(l, p) /\ Once(l) /\ Two(l) /\ AllConfirmed(l) /\ OffOnly(l)
  BY <1>1, <1>2, <1>7 DEF UsesKnown, PendingOk, SignalsOpen, AllIssued, ChallengesOk, Once, Two,
     AllConfirmed, OffOnly
<1>9. WorkspaceSeen(l, p) /\ EvidenceOk(l, p) /\ ActionsOk(l, p)
  BY <1>1 DEF WorkspaceSeen, EvidenceOk, ActionsOk
<1>10. IntentOk(p) /\ VersionsRise(l) /\ ContractOk(l, p)
  BY <1>1, <1>2 DEF IntentOk, VersionsRise, ContractOk, Bound
<1>11. SnapshotOk(l, p) /\ HistoryOk(l) /\ ByOrder(p) /\ Settled(l)
  BY <1>1, <1>2 DEF SnapshotOk, HistoryOk, ByOrder, Settled
<1> QED
  BY <1>1, <1>3, <1>5, <1>6, <1>8, <1>9, <1>10, <1>11 DEF LedgerOk, l, p
=============================================================================
