----------------------- MODULE TaskProjection_proofs ------------------------
(***************************************************************************)
(* What an event does to the projection, for all items, all batches and    *)
(* all identifiers: which fields change (Fields), how items age (Marked,   *)
(* RetiredAll, Written, Aged), and that a batch supersedes nothing of      *)
(* higher authority (ByOrder).                                             *)
(***************************************************************************)
EXTENDS TaskProjection, TLAPS

(* The loop over a batch of items.                                         *)
F == INSTANCE Folding WITH Op <- ApplyItem, Largest <- Max

(* The record that a projection is: EXCEPT keeps its fields.                 *)
IsRecord(p) ==
  p = [generation |-> p.generation, enabled |-> p.enabled, lifecycle |-> p.lifecycle,
       contract |-> p.contract, items |-> p.items, active |-> p.active,
       pending |-> p.pending, challenges |-> p.challenges,
       workspace |-> p.workspace, snapshot |-> p.snapshot, compaction |-> p.compaction]

(* The items of a projection: a function to items.                         *)
IsItems(items) == 
  /\ items = [i \in DOMAIN items |-> items[i]]
  /\ \A i \in DOMAIN items : items[i] \in Item

(* Two projections that differ at most in their items.                     *)
SameFrame(p, q) ==
  /\ q.generation = p.generation /\ q.enabled = p.enabled /\ q.lifecycle = p.lifecycle
  /\ q.contract = p.contract /\ q.pending = p.pending /\ q.challenges = p.challenges
  /\ q.workspace = p.workspace /\ q.snapshot = p.snapshot /\ q.compaction = p.compaction

(* Giving a projection other items leaves the rest alone.                  *)
LEMMA SetItems ==
  ASSUME NEW p, IsRecord(p), NEW f
  PROVE  LET q == [p EXCEPT !.items = f] IN
         IsRecord(q) /\ SameFrame(p, q) /\ q.items = f /\ q.active = p.active
BY DEF IsRecord, SameFrame

(* Giving a projection another set of active items leaves the rest alone.  *)
LEMMA SetActive ==
  ASSUME NEW p, IsRecord(p), NEW A
  PROVE  LET q == [p EXCEPT !.active = A] IN
         IsRecord(q) /\ SameFrame(p, q) /\ q.items = p.items /\ q.active = A
BY DEF IsRecord, SameFrame

(* All that an item keeps as it ages.                                        *)
SameMeaning(old, new) ==
  /\ new.id = old.id /\ new.kind = old.kind /\ new.claim = old.claim
  /\ new.authority = old.authority /\ new.provider = old.provider
  /\ new.supersedes = old.supersedes /\ new.stamp = old.stamp

(* What marking an item stale does to it ...                               *)
Staled(old, new) ==
  SameMeaning(old, new) /\ new.status = old.status /\ new.by = old.by
  /\ new.verification = "stale"

(* ... what superseding it does ...                                        *)
Retired(old, new, who) ==
  SameMeaning(old, new) /\ new.verification = old.verification
  /\ new.status = "superseded" /\ new.by = who

(* ... and both as the code writes them.                                   *)
Stale(item) == [item EXCEPT !.verification = "stale"]
Superseded(item, who) == [item EXCEPT !.status = "superseded", !.by = who]

(* An item that is marked stale or superseded is still an item, of the     *)
(* same meaning.                                                           *)
LEMMA AgedItem ==
  ASSUME NEW item \in Item, NEW who \in ItemId \cup {Null, "clear", "contract"}
  PROVE  /\ Stale(item) \in Item /\ Staled(item, Stale(item))
         /\ Superseded(item, who) \in Item /\ Retired(item, Superseded(item, who), who)
BY DEF Item, SameMeaning, Staled, Retired, Stale, Superseded

(* MarkStale changes nothing but the freshness of the items named.         *)
LEMMA MarkStaleResult ==
  ASSUME NEW p, IsRecord(p), IsItems(p.items), NEW S
  PROVE  LET q == MarkStale(p, S) IN
         /\ IsRecord(q) /\ IsItems(q.items) /\ SameFrame(p, q) /\ q.active = p.active
         /\ DOMAIN q.items = DOMAIN p.items
         /\ \A i \in DOMAIN p.items :
              IF i \in S THEN Staled(p.items[i], q.items[i]) ELSE q.items[i] = p.items[i]
<1> DEFINE f == [i \in DOMAIN p.items |-> IF i \in S THEN Stale(p.items[i]) ELSE p.items[i]]
<1>1. MarkStale(p, S) = [p EXCEPT !.items = f]
  BY DEF MarkStale, Stale
<1>2. IsItems(f)
  BY AgedItem DEF IsItems
<1>3. DOMAIN f = DOMAIN p.items /\ \A i \in DOMAIN p.items :
        IF i \in S THEN Staled(p.items[i], f[i]) ELSE f[i] = p.items[i]
  BY AgedItem DEF IsItems
<1> HIDE DEF f
<1> QED
  BY <1>1, <1>2, <1>3, SetItems

(* Supersede retires the items named and takes them out of the active      *)
(* ones.                                                                   *)
LEMMA SupersedeResult ==
  ASSUME NEW p, IsRecord(p), IsItems(p.items), NEW S,
         NEW who \in ItemId \cup {Null, "clear", "contract"}
  PROVE  LET q == Supersede(p, S, who) IN
         /\ IsRecord(q) /\ IsItems(q.items) /\ SameFrame(p, q) /\ q.active = p.active \ S
         /\ DOMAIN q.items = DOMAIN p.items
         /\ \A i \in DOMAIN p.items :
              IF i \in S THEN Retired(p.items[i], q.items[i], who) ELSE q.items[i] = p.items[i]
<1> DEFINE f == [i \in DOMAIN p.items |->
                   IF i \in S THEN Superseded(p.items[i], who) ELSE p.items[i]]
           A == p.active \ S
<1>1. Supersede(p, S, who) = [p EXCEPT !.items = f, !.active = A]
  BY DEF Supersede, Superseded
<1>2. IsItems(f)
  BY AgedItem DEF IsItems
<1>3. DOMAIN f = DOMAIN p.items /\ \A i \in DOMAIN p.items :
        IF i \in S THEN Retired(p.items[i], f[i], who) ELSE f[i] = p.items[i]
  BY AgedItem DEF IsItems
<1> HIDE DEF f
<1> DEFINE q == Supersede(p, S, who)
<1> HIDE DEF q, A
<1>4. IsRecord(q) /\ SameFrame(p, q) /\ q.items = f /\ q.active = A
  <2> DEFINE r == [p EXCEPT !.items = f]
  <2>1. q = [r EXCEPT !.active = A]
    BY <1>1 DEF q
  <2>2. IsRecord(r) /\ SameFrame(p, r) /\ r.items = f
    BY SetItems
  <2> HIDE DEF r
  <2>3. IsRecord(q) /\ SameFrame(r, q) /\ q.items = r.items /\ q.active = A
    BY <2>1, <2>2, SetActive
  <2> QED
    BY <2>2, <2>3 DEF SameFrame
<1> QED
  BY <1>2, <1>3, <1>4 DEF q, A

(* ApplyItem puts the item under its identifier and retires what it        *)
(* supersedes.                                                             *)
ItemApplied(p, item, q) ==
  /\ IsRecord(q) /\ IsItems(q.items) /\ SameFrame(p, q)
  /\ q.active = (p.active \ item.supersedes)
                \cup (IF item.status = "superseded" THEN {} ELSE {item.id})
  /\ DOMAIN q.items = DOMAIN p.items \cup {item.id}
  /\ q.items[item.id] = item
  /\ \A i \in DOMAIN p.items \ {item.id} :
       IF i \in item.supersedes THEN Retired(p.items[i], q.items[i], item.id)
       ELSE q.items[i] = p.items[i]

(* That is what it does.                                                   *)
LEMMA ApplyItemResult ==
  ASSUME NEW p, IsRecord(p), IsItems(p.items), NEW item \in Item
  PROVE  ItemApplied(p, item, ApplyItem(p, item))
<1> DEFINE r == Supersede(p, item.supersedes, item.id)
           f == [i \in DOMAIN r.items \cup {item.id} |-> IF i = item.id THEN item ELSE r.items[i]]
           A == IF item.status = "superseded" THEN r.active ELSE r.active \cup {item.id}
           q == ApplyItem(p, item)
<1>1. item.id \in ItemId \cup {Null, "clear", "contract"}
  BY DEF Item
<1>3. q = [r EXCEPT !.items = f, !.active = A]
  BY DEF ApplyItem
<1> HIDE DEF r
<1>2. /\ IsRecord(r) /\ IsItems(r.items) /\ SameFrame(p, r) /\ r.active = p.active \ item.supersedes
      /\ DOMAIN r.items = DOMAIN p.items
      /\ \A i \in DOMAIN p.items :
           IF i \in item.supersedes THEN Retired(p.items[i], r.items[i], item.id)
           ELSE r.items[i] = p.items[i]
  BY <1>1, SupersedeResult DEF r
<1>4. IsItems(f)
  BY <1>2 DEF IsItems
<1>5. /\ DOMAIN f = DOMAIN p.items \cup {item.id} /\ f[item.id] = item
      /\ \A i \in DOMAIN p.items \ {item.id} : f[i] = r.items[i]
  BY <1>2
<1>6. A = (p.active \ item.supersedes)
                       \cup (IF item.status = "superseded" THEN {} ELSE {item.id})
  BY <1>2
<1> HIDE DEF f, A, q
<1>7. IsRecord(q) /\ SameFrame(r, q) /\ q.items = f /\ q.active = A
  <2> DEFINE s == [r EXCEPT !.items = f]
  <2>1. q = [s EXCEPT !.active = A]
    BY <1>3
  <2>2. IsRecord(s) /\ SameFrame(r, s) /\ s.items = f
    BY <1>2, SetItems
  <2> HIDE DEF s
  <2>3. IsRecord(q) /\ SameFrame(s, q) /\ q.items = s.items /\ q.active = A
    BY <2>1, <2>2, SetActive
  <2> QED
    BY <2>2, <2>3 DEF SameFrame
<1>8. SameFrame(p, q)
  BY <1>2, <1>7 DEF SameFrame
<1>9. ItemApplied(p, item, q)
  BY <1>2, <1>4, <1>5, <1>6, <1>7, <1>8 DEF ItemApplied
<1> QED
  BY <1>9 DEF q

(* ApplyItems is a loop over the batch: Folding, instantiated with         *)
(* ApplyItem.                                                              *)
LEMMA ItemsLoop ==
  ASSUME NEW p, NEW batch, batch \in Seq(Item)
  PROVE  \E after : F!Loop(after, p, batch) /\ ApplyItems(p, batch) = after[Len(batch)]
<1> DEFINE iter == CHOOSE g : F!Iterates(g, p, batch)
<1>1. ApplyItems(p, batch) = iter[DOMAIN batch]
  BY DEF ApplyItems, FoldLeft, MapThenFoldSet, F!Iterates
<1>2. F!PicksLargest(batch) /\ F!IsSequence(batch)
  <2>1. Len(batch) \in Nat /\ DOMAIN batch = 1..Len(batch)
    OBVIOUS
  <2> QED
    BY <2>1, F!LargestIn DEF Max, F!PicksLargest, F!IsSequence
<1>3. /\ \E g : F!Iterates(g, p, batch)
      /\ \A g : F!Iterates(g, p, batch) =>
           \E after : F!Loop(after, p, batch) /\ g[DOMAIN batch] = after[Len(batch)]
  BY <1>2, F!LoopStates
<1>4. F!Iterates(iter, p, batch)
  BY <1>3
<1> HIDE DEF iter
<1> QED
  BY <1>1, <1>3, <1>4

(* The identifiers of the first n items of a batch.                        *)
Ids(batch, n) == {batch[m].id : m \in 1..n}

(* Where the entry of identifier i comes from ...                            *)
Source(p, batch, n, i, old) ==
  \/ i \in DOMAIN p.items /\ old = p.items[i]
  \/ \E m \in 1..n : batch[m].id = i /\ old = batch[m]

(* ... and what has become of it.                                            *)
Outcome(p, batch, n, i, new) ==
  \E old \in Item :
    /\ Source(p, batch, n, i, old)
    /\ \/ new = old
       \/ \E m \in 1..n : i \in batch[m].supersedes /\ Retired(old, new, batch[m].id)

(* An item that is not superseded is active.                               *)
InForce(p) == \A i \in DOMAIN p.items : p.items[i].status # "superseded" => i \in p.active

(* The projection behind n turns of the loop.                              *)
Folded(p, batch, n, q) ==
  /\ IsRecord(q) /\ IsItems(q.items) /\ SameFrame(p, q)
  /\ DOMAIN q.items = DOMAIN p.items \cup Ids(batch, n)
  /\ q.active \subseteq p.active \cup Ids(batch, n)
  /\ \A i \in DOMAIN q.items : Outcome(p, batch, n, i, q.items[i])
  /\ InForce(p) => InForce(q)

(* One more turn of the loop.                                              *)
LEMMA FoldStep ==
  ASSUME NEW p, IsRecord(p), IsItems(p.items), NEW batch, batch \in Seq(Item),
         NEW n \in 1..Len(batch), NEW q, Folded(p, batch, n - 1, q)
  PROVE  Folded(p, batch, n, ApplyItem(q, batch[n]))
<1> DEFINE r == ApplyItem(q, batch[n])
           item == batch[n]
<1>1. batch[n] \in Item
  OBVIOUS
<1>2. /\ IsRecord(r) /\ IsItems(r.items) /\ SameFrame(q, r)
      /\ r.active = (q.active \ item.supersedes)
                    \cup (IF item.status = "superseded" THEN {} ELSE {item.id})
      /\ DOMAIN r.items = DOMAIN q.items \cup {item.id}
      /\ r.items[item.id] = item
      /\ \A i \in DOMAIN q.items \ {item.id} :
           IF i \in item.supersedes THEN Retired(q.items[i], r.items[i], item.id)
           ELSE r.items[i] = q.items[i]
  <2>1. IsRecord(q) /\ IsItems(q.items)
    BY DEF Folded
  <2>2. ItemApplied(q, item, r)
    BY <1>1, <2>1, ApplyItemResult
  <2> HIDE DEF item, r
  <2> QED
    BY <2>2 DEF ItemApplied
<1> HIDE DEF r
<1>3. n \in 1..n /\ \A m \in 1..(n - 1) : m \in 1..n
  OBVIOUS
<1>4. \A m \in 1..n : m = n \/ m \in 1..(n - 1)
  OBVIOUS
<1>5. Ids(batch, n) = Ids(batch, n - 1) \cup {item.id}
  <2>1. \A x : x \in Ids(batch, n) <=> \E m \in 1..n : x = batch[m].id
    BY DEF Ids
  <2>2. \A x : x \in Ids(batch, n - 1) <=> \E m \in 1..(n - 1) : x = batch[m].id
    BY DEF Ids
  <2> QED
    BY <2>1, <2>2, <1>3, <1>4
<1>6. DOMAIN r.items = DOMAIN p.items \cup Ids(batch, n)
  BY <1>2, <1>5 DEF Folded
<1>7. r.active \subseteq p.active \cup Ids(batch, n)
  BY <1>2, <1>5 DEF Folded
<1>8. ASSUME NEW i \in DOMAIN r.items PROVE Outcome(p, batch, n, i, r.items[i])
  <2>1. CASE i = item.id
    BY <1>1, <1>2, <1>3, <2>1 DEF Outcome, Source
  <2>2. CASE i # item.id
    <3>1. i \in DOMAIN q.items
      BY <1>2, <2>2
    <3>2. PICK old \in Item :
            /\ Source(p, batch, n - 1, i, old)
            /\ \/ q.items[i] = old
               \/ \E m \in 1..(n - 1) : i \in batch[m].supersedes /\ Retired(old, q.items[i], batch[m].id)
      BY <3>1 DEF Folded, Outcome
    <3>3. Source(p, batch, n, i, old)
      BY <1>3, <3>2 DEF Source
    <3>4. CASE i \in item.supersedes
      <4>1. Retired(q.items[i], r.items[i], item.id)
        BY <1>2, <2>2, <3>1, <3>4
      <4>2. Retired(old, r.items[i], item.id)
        BY <3>2, <4>1 DEF Retired, SameMeaning
      <4> QED
        BY <1>3, <3>3, <3>4, <4>2 DEF Outcome
    <3>5. CASE i \notin item.supersedes
      <4>1. r.items[i] = q.items[i]
        BY <1>2, <2>2, <3>1, <3>5
      <4> QED
        BY <1>3, <3>2, <3>3, <4>1 DEF Outcome
    <3> QED
      BY <3>4, <3>5
  <2> QED
    BY <2>1, <2>2
<1>9. InForce(q) => InForce(r)
  BY <1>2 DEF InForce, Retired
<1> QED
  BY <1>2, <1>6, <1>7, <1>8, <1>9 DEF Folded, SameFrame, r

(* What the loop leaves behind, by induction over its turns.               *)
LEMMA FoldResult ==
  ASSUME NEW p, IsRecord(p), IsItems(p.items), NEW batch, batch \in Seq(Item)
  PROVE  Folded(p, batch, Len(batch), ApplyItems(p, batch))
<1>1. PICK after : F!Loop(after, p, batch) /\ ApplyItems(p, batch) = after[Len(batch)]
  BY ItemsLoop
<1> DEFINE S == {n \in Nat : n <= Len(batch) => Folded(p, batch, n, after[n])}
<1>2. 0 \in S
  <2>1. Ids(batch, 0) = {}
    BY DEF Ids
  <2>2. Folded(p, batch, 0, p)
    <3>1. \A i \in DOMAIN p.items : Outcome(p, batch, 0, i, p.items[i])
      BY DEF Outcome, Source, IsItems
    <3> QED
      BY <2>1, <3>1 DEF Folded, SameFrame
  <2>3. after[0] = p
    BY <1>1 DEF F!Loop
  <2> QED
    BY <2>2, <2>3
<1>3. ASSUME NEW n \in Nat, n \in S PROVE n + 1 \in S
  <2> SUFFICES ASSUME n + 1 <= Len(batch) PROVE Folded(p, batch, n + 1, after[n + 1])
    OBVIOUS
  <2>1. n + 1 \in 1..Len(batch) /\ (n + 1) - 1 = n /\ n <= Len(batch)
    OBVIOUS
  <2>2. Folded(p, batch, (n + 1) - 1, after[n])
    BY <1>3, <2>1
  <2>3. after[n + 1] = ApplyItem(after[n], batch[n + 1])
    BY <1>1, <2>1 DEF F!Loop
  <2> HIDE DEF S
  <2>4. Folded(p, batch, n + 1, ApplyItem(after[n], batch[n + 1]))
    BY <2>1, <2>2, FoldStep
  <2> QED
    BY <2>3, <2>4
<1>4. Len(batch) \in S
  <2>1. Nat \subseteq S
    <3> HIDE DEF S
    <3> QED
      BY <1>2, <1>3, F!Induction
  <2> QED
    BY <2>1
<1> QED
  BY <1>1, <1>4

(* A contract is a record of its four fields,                              *)
IsContract(c) == c = [source |-> c.source, ref |-> c.ref, version |-> c.version, digest |-> c.digest]

(* a projection one of its eleven.                                         *)
IsProjection(p) ==
  /\ IsRecord(p) /\ IsItems(p.items) /\ IsContract(p.contract)
  /\ p.challenges = [a \in ManagedActions |-> p.challenges[a]]

(* Events that raise the generation,                                       *)
Bumping == {"state", "bound", "cleared", "reset", "enabled", "challenge"}
(* and those that forget everything.                                       *)
Forgetting == {"cleared", "reset"}

(* What an event does to everything but the items.                           *)
Fields(p, n, e, q) ==
  /\ q.generation = IF e.type \in Bumping THEN p.generation + 1 ELSE p.generation
  /\ q.enabled = IF e.type = "enabled" THEN e.on ELSE p.enabled
  /\ q.lifecycle = IF e.type = "cleared" THEN "cleared"
                   ELSE IF e.type \in {"state", "bound", "reset"} THEN "active"
                   ELSE p.lifecycle
  /\ q.pending = IF e.type \in Forgetting THEN {}
                 ELSE IF e.type \in Bumping THEN Open(p.pending, e.uses)
                 ELSE IF e.type = "prompt" /\ e.signals # {}
                 THEN p.pending \cup {[prompt |-> n, signals |-> e.signals]}
                 ELSE p.pending
  /\ q.challenges = IF e.type \in Forgetting THEN [a \in ManagedActions |-> Null]
                    ELSE IF e.type = "challenge" THEN [p.challenges EXCEPT ![e.action] = e]
                    ELSE IF e.type = "enabled"
                    THEN [a \in ManagedActions |-> IF a = e.action THEN Null ELSE p.challenges[a]]
                    ELSE p.challenges
  /\ q.workspace = IF e.type = "workspace" THEN e.workspace ELSE p.workspace
  /\ q.snapshot = IF e.type = "snapshot" THEN e
                  ELSE IF e.type \in Forgetting THEN Null ELSE p.snapshot
  /\ q.compaction = IF e.type = "compaction" THEN e
                    ELSE IF e.type \in Forgetting THEN Null ELSE p.compaction
  /\ IF e.type \in Forgetting THEN q.contract = Standalone(n)
     ELSE IF e.type = "bound"
     THEN q.contract = [source |-> "user-intent-plugin", ref |-> e.ref,
                        version |-> e.version, digest |-> e.items]
     ELSE IF e.type = "state"
     THEN /\ q.contract.source = p.contract.source /\ q.contract.ref = p.contract.ref
          /\ q.contract.digest = p.contract.digest
          /\ \/ q.contract.version = p.contract.version
             \/ q.contract.source = "standalone" /\ q.contract.version = p.contract.version + 1
     ELSE q.contract = p.contract

(* The items of p, those of S being stale.                                   *)
Marked(p, q, S) ==
  /\ q.active = p.active /\ DOMAIN q.items = DOMAIN p.items
  /\ \A i \in DOMAIN p.items :
       IF i \in S THEN Staled(p.items[i], q.items[i]) ELSE q.items[i] = p.items[i]

(* The planned actions that a revalidation marks stale.                    *)
RevalidationDue(p, e) ==
  {i \in e.ids \cap DOMAIN p.items :
     p.items[i].kind = "next_action" /\ p.items[i].status # "superseded"}

(* A workspace event marks what depends on another workspace stale.        *)
LEMMA WorkspaceResult ==
  ASSUME NEW p, IsProjection(p), NEW n, NEW e, e.type = "workspace"
  PROVE  LET q == Apply(p, n, e) IN
         /\ IsProjection(q) /\ Fields(p, n, e, q)
         /\ Marked(p, q, IF p.workspace \in {Null, e.workspace} THEN {} ELSE WorkspaceDependent(p))
<1> DEFINE S == IF p.workspace \in {Null, e.workspace} THEN {} ELSE WorkspaceDependent(p)
           r == IF p.workspace \in {Null, e.workspace} THEN p ELSE MarkStale(p, WorkspaceDependent(p))
           q == Apply(p, n, e)
<1>1. q = [r EXCEPT !.workspace = e.workspace]
  BY DEF Apply, AfterWorkspace
<1>2. IsRecord(r) /\ IsItems(r.items) /\ SameFrame(p, r) /\ Marked(p, r, S)
  <2>1. CASE p.workspace \in {Null, e.workspace}
    BY <2>1 DEF Marked, SameFrame, IsProjection
  <2>2. CASE p.workspace \notin {Null, e.workspace}
    <3>1. r = MarkStale(p, S)
      BY <2>2
    <3> HIDE DEF r, S
    <3> QED
      BY <3>1, MarkStaleResult DEF Marked, IsProjection
  <2> QED
    BY <2>1, <2>2
<1> HIDE DEF r, q, S
<1>3. /\ IsRecord(q) /\ q.items = r.items /\ q.active = r.active /\ q.workspace = e.workspace
      /\ q.generation = r.generation /\ q.enabled = r.enabled /\ q.lifecycle = r.lifecycle
      /\ q.contract = r.contract /\ q.pending = r.pending /\ q.challenges = r.challenges
      /\ q.snapshot = r.snapshot /\ q.compaction = r.compaction
  BY <1>1, <1>2 DEF IsRecord
<1>4. IsProjection(q)
  BY <1>2, <1>3 DEF IsProjection, SameFrame
<1>5. Fields(p, n, e, q)
  BY <1>2, <1>3 DEF Fields, SameFrame, Bumping, Forgetting
<1>6. Marked(p, q, S)
  BY <1>2, <1>3 DEF Marked
<1> QED
  BY <1>4, <1>5, <1>6 DEF q, S

(* A revalidation marks the planned actions it names stale.                *)
LEMMA RevalidationResult ==
  ASSUME NEW p, IsProjection(p), NEW n, NEW e, e.type = "revalidate"
  PROVE  LET q == Apply(p, n, e) IN
         IsProjection(q) /\ Fields(p, n, e, q) /\ Marked(p, q, RevalidationDue(p, e))
<1> DEFINE q == Apply(p, n, e)
<1>1. q = MarkStale(p, RevalidationDue(p, e))
  BY DEF Apply, AfterRevalidation, RevalidationDue
<1> HIDE DEF q
<1>2. IsRecord(q) /\ IsItems(q.items) /\ SameFrame(p, q) /\ Marked(p, q, RevalidationDue(p, e))
  BY <1>1, MarkStaleResult DEF Marked, IsProjection
<1>3. IsProjection(q)
  BY <1>2 DEF IsProjection, SameFrame
<1>4. Fields(p, n, e, q)
  BY <1>2 DEF Fields, SameFrame, Bumping, Forgetting
<1> QED
  BY <1>2, <1>3, <1>4 DEF q

(* Every other event leaves the items alone, or forgets or writes them.      *)
LEMMA QuietResult ==
  ASSUME NEW p, IsProjection(p), NEW n, NEW e,
         e.type \notin {"workspace", "revalidate", "state", "bound"} \cup Forgetting,
         e.type = "challenge" => e.action \in ManagedActions
  PROVE  LET q == Apply(p, n, e) IN
         IsProjection(q) /\ Fields(p, n, e, q) /\ q.items = p.items /\ q.active = p.active
<1> DEFINE q == Apply(p, n, e)
<1> SUFFICES IsProjection(q) /\ Fields(p, n, e, q) /\ q.items = p.items /\ q.active = p.active
  OBVIOUS
<1> USE DEF IsProjection, Fields, Bumping, Forgetting, IsRecord
<1>1. CASE e.type = "prompt"
  <2>1. q = AfterPrompt(p, n, e)
    BY <1>1 DEF Apply
  <2>2. CASE e.signals = {}
    <3>1. q = p
      BY <2>1, <2>2 DEF AfterPrompt
    <3> QED
      BY <1>1, <2>2, <3>1
  <2>3. CASE e.signals # {}
    <3>1. q = [p EXCEPT !.pending = p.pending \cup {[prompt |-> n, signals |-> e.signals]}]
      BY <2>1, <2>3 DEF AfterPrompt
    <3> HIDE DEF q
    <3> QED
      BY <1>1, <2>3, <3>1
  <2> QED
    BY <2>2, <2>3
<1>2. CASE e.type = "enabled"
  <2>1. q = [p EXCEPT !.enabled = e.on, !.pending = Open(p.pending, e.uses),
                      !.generation = p.generation + 1,
                      !.challenges = [a \in ManagedActions |-> IF a = e.action THEN Null ELSE p.challenges[a]]]
    BY <1>2 DEF Apply, AfterEnabled
  <2> HIDE DEF q
  <2> QED
    BY <1>2, <2>1
<1>3. CASE e.type = "challenge"
  <2>1. q = [p EXCEPT !.challenges = [p.challenges EXCEPT ![e.action] = e],
                      !.pending = Open(p.pending, e.uses), !.generation = p.generation + 1]
    BY <1>3 DEF Apply, AfterChallenge
  <2> HIDE DEF q
  <2> QED
    BY <1>3, <2>1
<1>4. CASE e.type = "snapshot"
  <2>1. q = [p EXCEPT !.snapshot = e]
    BY <1>4 DEF Apply
  <2> HIDE DEF q
  <2> QED
    BY <1>4, <2>1
<1>5. CASE e.type = "compaction"
  <2>1. q = [p EXCEPT !.compaction = e]
    BY <1>5 DEF Apply
  <2> HIDE DEF q
  <2> QED
    BY <1>5, <2>1
<1>6. CASE e.type \notin {"prompt", "enabled", "challenge", "snapshot", "compaction"}
  <2>1. q = p
    BY <1>6 DEF Apply
  <2> QED
    BY <1>6, <2>1
<1> QED
  BY <1>1, <1>2, <1>3, <1>4, <1>5, <1>6

(* The items of p, those of S being superseded.                              *)
RetiredAll(p, q, S, who) ==
  /\ q.active = p.active \ S /\ DOMAIN q.items = DOMAIN p.items
  /\ \A i \in DOMAIN p.items :
       IF i \in S THEN Retired(p.items[i], q.items[i], who) ELSE q.items[i] = p.items[i]

(* The items of p, and then those of a batch.                                *)
Written(p, batch, q) ==
  /\ DOMAIN q.items = DOMAIN p.items \cup Ids(batch, Len(batch))
  /\ q.active \subseteq p.active \cup Ids(batch, Len(batch))
  /\ \A i \in DOMAIN q.items : Outcome(p, batch, Len(batch), i, q.items[i])
  /\ InForce(p) => InForce(q)

(* Clearing and resetting retire everything and forget the rest.           *)
LEMMA ClearResult ==
  ASSUME NEW p, IsProjection(p), NEW n, NEW e, e.type \in Forgetting
  PROVE  LET q == Apply(p, n, e) IN
         IsProjection(q) /\ Fields(p, n, e, q) /\ RetiredAll(p, q, p.active, "clear")
<1> DEFINE r == Supersede(p, p.active, "clear")
           q == Apply(p, n, e)
<1>1. q = [r EXCEPT
     !.pending = {}, !.challenges = [a \in ManagedActions |-> Null],
     !.snapshot = Null, !.compaction = Null, !.contract = Standalone(n),
     !.lifecycle = IF e.type = "cleared" THEN "cleared" ELSE "active",
     !.generation = r.generation + 1]
  BY DEF Apply, AfterClear, Forgetting
<1> HIDE DEF r, q
<1>2. IsRecord(r) /\ IsItems(r.items) /\ SameFrame(p, r) /\ RetiredAll(p, r, p.active, "clear")
  BY SupersedeResult DEF RetiredAll, IsProjection, r
<1>3. /\ IsRecord(q) /\ q.items = r.items /\ q.active = r.active
      /\ q.workspace = r.workspace /\ q.enabled = r.enabled
      /\ q.generation = r.generation + 1
      /\ q.lifecycle = IF e.type = "cleared" THEN "cleared" ELSE "active"
      /\ q.contract = Standalone(n) /\ q.pending = {}
      /\ q.challenges = [a \in ManagedActions |-> Null]
      /\ q.snapshot = Null /\ q.compaction = Null
  BY <1>1, <1>2 DEF IsRecord
<1>4. IsProjection(q)
  BY <1>2, <1>3 DEF IsProjection, IsContract, Standalone
<1>5. Fields(p, n, e, q)
  BY <1>2, <1>3 DEF Fields, SameFrame, Bumping, Forgetting
<1> QED
  BY <1>2, <1>3, <1>4, <1>5 DEF RetiredAll, q

(* Recorded state marks overtaken actions stale, then writes its batch.    *)
LEMMA StateResult ==
  ASSUME NEW p, IsProjection(p), NEW n, NEW e, e.type = "state", e.items \in Seq(Item)
  PROVE  LET q == Apply(p, n, e) IN
         /\ IsProjection(q) /\ Fields(p, n, e, q)
         /\ \E m : /\ IsItems(m.items) /\ Marked(p, m, OvertakenActions(p, e.items))
                   /\ Written(m, e.items, q)
<1> DEFINE m == MarkStale(p, OvertakenActions(p, e.items))
           r == ApplyItems(m, e.items)
           v == IF (\E item \in ToSet(e.items) : item.kind \in IntentKinds)
                   /\ r.contract.source = "standalone"
                THEN r.contract.version + 1 ELSE r.contract.version
           c == [r.contract EXCEPT !.version = v]
           q == Apply(p, n, e)
<1>1. q = [r EXCEPT !.pending = Open(r.pending, e.uses), !.generation = r.generation + 1,
                    !.lifecycle = "active", !.contract = c]
  BY DEF Apply, AfterState
<1> HIDE DEF m, q
<1>2. IsRecord(m) /\ IsItems(m.items) /\ SameFrame(p, m) /\ Marked(p, m, OvertakenActions(p, e.items))
  <2> DEFINE S == OvertakenActions(p, e.items)
  <2> HIDE DEF S
  <2>1. m = MarkStale(p, S)
    BY DEF m, S
  <2>2. IsRecord(m) /\ IsItems(m.items) /\ SameFrame(p, m) /\ Marked(p, m, S)
    BY <2>1, MarkStaleResult DEF Marked, IsProjection
  <2> QED
    BY <2>2 DEF S
<1>3. Folded(m, e.items, Len(e.items), r)
  BY <1>2, FoldResult
<1> HIDE DEF r
<1>4. IsRecord(r) /\ IsItems(r.items) /\ SameFrame(p, r) /\ Written(m, e.items, r)
  BY <1>2, <1>3 DEF Folded, Written, SameFrame
<1>5. IsContract(c) /\ c.source = p.contract.source /\ c.ref = p.contract.ref
      /\ c.digest = p.contract.digest /\ c.version = v
  BY <1>4 DEF IsProjection, IsContract, SameFrame
<1>6. v = p.contract.version \/ (p.contract.source = "standalone" /\ v = p.contract.version + 1)
  BY <1>4 DEF SameFrame
<1> HIDE DEF c, v
<1>7. /\ IsRecord(q) /\ q.items = r.items /\ q.active = r.active
      /\ q.workspace = r.workspace /\ q.enabled = r.enabled
      /\ q.generation = r.generation + 1 /\ q.lifecycle = "active"
      /\ q.contract = c /\ q.pending = Open(r.pending, e.uses)
      /\ q.challenges = r.challenges
      /\ q.snapshot = r.snapshot /\ q.compaction = r.compaction
  BY <1>1, <1>4 DEF IsRecord
<1>8. IsProjection(q)
  BY <1>4, <1>5, <1>7 DEF IsProjection, SameFrame
<1>9. Fields(p, n, e, q)
  BY <1>4, <1>5, <1>6, <1>7 DEF Fields, SameFrame, Bumping, Forgetting
<1>10. Written(m, e.items, q)
  BY <1>4, <1>7 DEF Written, InForce
<1> QED
  BY <1>2, <1>8, <1>9, <1>10 DEF q

(* A binding retires the intent in force, then writes its batch.           *)
LEMMA BindingResult ==
  ASSUME NEW p, IsProjection(p), NEW n, NEW e, e.type = "bound", e.items \in Seq(Item)
  PROVE  LET q == Apply(p, n, e) IN
         /\ IsProjection(q) /\ Fields(p, n, e, q)
         /\ \E m : /\ IsItems(m.items) /\ RetiredAll(p, m, ActiveIntent(p), "contract")
                   /\ Written(m, e.items, q)
<1> DEFINE s == Supersede(p, ActiveIntent(p), "contract")
           c == [source |-> "user-intent-plugin", ref |-> e.ref,
                 version |-> e.version, digest |-> e.items]
           m == [s EXCEPT !.contract = c]
           r == ApplyItems(m, e.items)
           q == Apply(p, n, e)
<1>1. q = [r EXCEPT !.pending = Open(r.pending, e.uses), !.generation = r.generation + 1,
                    !.lifecycle = "active"]
  BY DEF Apply, AfterBinding
<1> HIDE DEF s, q
<1>2. IsRecord(s) /\ IsItems(s.items) /\ SameFrame(p, s) /\ RetiredAll(p, s, ActiveIntent(p), "contract")
  <2> DEFINE S == ActiveIntent(p)
  <2> HIDE DEF S
  <2>1. s = Supersede(p, S, "contract")
    BY DEF s, S
  <2>2. IsRecord(s) /\ IsItems(s.items) /\ SameFrame(p, s) /\ RetiredAll(p, s, S, "contract")
    BY <2>1, SupersedeResult DEF RetiredAll, IsProjection
  <2> QED
    BY <2>2 DEF S
<1>3. m = [s EXCEPT !.contract = c]
  OBVIOUS
<1> HIDE DEF m, c
<1>4. /\ IsRecord(m) /\ m.items = s.items /\ m.active = s.active /\ m.contract = c
      /\ m.generation = s.generation /\ m.enabled = s.enabled /\ m.lifecycle = s.lifecycle
      /\ m.pending = s.pending /\ m.challenges = s.challenges
      /\ m.workspace = s.workspace /\ m.snapshot = s.snapshot /\ m.compaction = s.compaction
  BY <1>2, <1>3 DEF IsRecord
<1>5. Folded(m, e.items, Len(e.items), r)
  BY <1>2, <1>4, FoldResult
<1> HIDE DEF r
<1>6. IsRecord(r) /\ IsItems(r.items) /\ SameFrame(m, r) /\ Written(m, e.items, r)
  BY <1>5 DEF Folded, Written
<1>7. /\ IsRecord(q) /\ q.items = r.items /\ q.active = r.active
      /\ q.workspace = r.workspace /\ q.enabled = r.enabled
      /\ q.generation = r.generation + 1 /\ q.lifecycle = "active"
      /\ q.contract = r.contract /\ q.pending = Open(r.pending, e.uses)
      /\ q.challenges = r.challenges
      /\ q.snapshot = r.snapshot /\ q.compaction = r.compaction
  BY <1>1, <1>6 DEF IsRecord
<1>8. IsProjection(q)
  BY <1>2, <1>4, <1>6, <1>7 DEF IsProjection, SameFrame, IsContract, c
<1>9. Fields(p, n, e, q)
  BY <1>2, <1>4, <1>6, <1>7 DEF Fields, SameFrame, Bumping, Forgetting, c
<1>10. Written(m, e.items, q)
  BY <1>6, <1>7 DEF Written, InForce
<1>11. RetiredAll(p, m, ActiveIntent(p), "contract") /\ IsItems(m.items)
  BY <1>2, <1>4 DEF RetiredAll
<1> QED
  BY <1>8, <1>9, <1>10, <1>11 DEF q

(* The projection of an empty ledger.                                      *)
LEMMA EmptyProjection == IsProjection(Empty) /\ InForce(Empty)
BY DEF Empty, IsProjection, IsRecord, IsItems, IsContract, Standalone, InForce

(* The events that the task records, as far as the projection relies on them.*)
IsEvent(e) ==
  /\ e.type \in {"state", "bound"} => e.items \in Seq(Item)
  /\ e.type = "challenge" => e.action \in ManagedActions

(* Every event leaves a projection, with the fields that Fields gives.     *)
LEMMA ApplyResult ==
  ASSUME NEW p, IsProjection(p), NEW n, NEW e, IsEvent(e)
  PROVE  IsProjection(Apply(p, n, e)) /\ Fields(p, n, e, Apply(p, n, e))
<1>1. CASE e.type = "workspace"
  BY <1>1, WorkspaceResult
<1>2. CASE e.type = "revalidate"
  BY <1>2, RevalidationResult
<1>3. CASE e.type = "state"
  BY <1>3, StateResult DEF IsEvent
<1>4. CASE e.type = "bound"
  BY <1>4, BindingResult DEF IsEvent
<1>5. CASE e.type \in Forgetting
  BY <1>5, ClearResult
<1>6. CASE e.type \notin {"workspace", "revalidate", "state", "bound"} \cup Forgetting
  BY <1>6, QuietResult DEF IsEvent
<1> QED
  BY <1>1, <1>2, <1>3, <1>4, <1>5, <1>6

(* The items of a projection stand under their own identifiers.            *)
ItemsOk(p) ==
  /\ InForce(p) /\ p.active \subseteq DOMAIN p.items
  /\ \A i \in DOMAIN p.items : p.items[i].id = i

(* OnlyAges of ContinuityTask, field by field.                               *)
Older(old, new) ==
  /\ SameMeaning(old, new)
  /\ new.verification \in {old.verification, "stale"}
  /\ new.status \in {old.status, "superseded"}

(* All items are still there, and have at most aged.                       *)
Aged(p, q) ==
  /\ DOMAIN p.items \subseteq DOMAIN q.items
  /\ \A i \in DOMAIN p.items : Older(p.items[i], q.items[i])

(* Ageing twice is ageing.                                                 *)
LEMMA AgedTransitive ==
  ASSUME NEW p, NEW q, NEW r, Aged(p, q), Aged(q, r)
  PROVE  Aged(p, r)
BY DEF Aged, Older, SameMeaning

(* Marking items stale ages them and leaves the active ones active.        *)
LEMMA MarkedItems ==
  ASSUME NEW p, NEW q, NEW S, Marked(p, q, S), ItemsOk(p)
  PROVE  Aged(p, q) /\ Active(q) = Active(p) /\ ItemsOk(q)
<1>1. /\ q.active = p.active /\ DOMAIN q.items = DOMAIN p.items
      /\ \A i \in DOMAIN p.items : \/ Staled(p.items[i], q.items[i])
                                   \/ q.items[i] = p.items[i]
  BY DEF Marked
<1>2. Aged(p, q)
  BY <1>1 DEF Aged, Older, Staled, SameMeaning
<1>3. ItemsOk(q)
  BY <1>1 DEF ItemsOk, InForce, Staled, SameMeaning
<1>4. \A i \in p.active : q.items[i].status = p.items[i].status
  BY <1>1 DEF Staled, ItemsOk
<1> QED
  BY <1>1, <1>2, <1>3, <1>4 DEF Active

(* Retiring items ages them and takes exactly them out of force.           *)
LEMMA RetiredItems ==
  ASSUME NEW p, NEW q, NEW S, NEW who, RetiredAll(p, q, S, who), ItemsOk(p)
  PROVE  Aged(p, q) /\ Active(q) = Active(p) \ S /\ ItemsOk(q)
<1>1. /\ q.active = p.active \ S /\ DOMAIN q.items = DOMAIN p.items
      /\ \A i \in DOMAIN p.items : IF i \in S THEN Retired(p.items[i], q.items[i], who)
                                   ELSE q.items[i] = p.items[i]
  BY DEF RetiredAll
<1>2. Aged(p, q)
  BY <1>1 DEF Aged, Older, Retired, SameMeaning
<1>3. ItemsOk(q)
  BY <1>1 DEF ItemsOk, InForce, Retired, SameMeaning
<1>4. \A i \in p.active \ S : q.items[i] = p.items[i]
  BY <1>1 DEF ItemsOk
<1> QED
  BY <1>1, <1>2, <1>3, <1>4 DEF Active

(* Behind a batch the items in force are those before or items of the batch. *)
LEMMA WrittenItems ==
  ASSUME NEW m, NEW batch, batch \in Seq(Item), NEW q, Written(m, batch, q), ItemsOk(m)
  PROVE  /\ ItemsOk(q)
         /\ \A i \in Active(q) :
              \/ i \in Active(m) /\ i \notin Ids(batch, Len(batch)) /\ q.items[i] = m.items[i]
              \/ \E k \in 1..Len(batch) : batch[k].id = i
<1>1. ASSUME NEW i \in DOMAIN q.items PROVE q.items[i].id = i
  <2>1. PICK old \in Item :
          /\ Source(m, batch, Len(batch), i, old)
          /\ \/ q.items[i] = old
             \/ \E k \in 1..Len(batch) : Retired(old, q.items[i], batch[k].id)
    BY <1>1 DEF Written, Outcome
  <2>2. old.id = i
    BY <2>1 DEF Source, ItemsOk
  <2> QED
    BY <2>1, <2>2 DEF Retired, SameMeaning
<1>2. \A i \in Ids(batch, Len(batch)) : \E k \in 1..Len(batch) : batch[k].id = i
  BY DEF Ids
<1>3. ItemsOk(q)
  BY <1>1 DEF ItemsOk, Written
<1>4. ASSUME NEW i \in Active(q), i \notin Ids(batch, Len(batch))
      PROVE  i \in Active(m) /\ q.items[i] = m.items[i]
  <2>1. i \in q.active /\ q.items[i].status # "superseded" /\ i \in DOMAIN q.items
    BY <1>3 DEF Active, ItemsOk
  <2>2. i \in m.active /\ i \in DOMAIN m.items
    BY <1>4, <2>1 DEF Written
  <2>3. PICK old \in Item :
          /\ Source(m, batch, Len(batch), i, old)
          /\ \/ q.items[i] = old
             \/ \E k \in 1..Len(batch) : Retired(old, q.items[i], batch[k].id)
    BY <2>1 DEF Written, Outcome
  <2>4. old = m.items[i]
    BY <1>4, <2>3 DEF Source, Ids
  <2>5. q.items[i] = m.items[i]
    BY <2>1, <2>3, <2>4 DEF Retired
  <2> QED
    BY <2>1, <2>2, <2>5 DEF Active
<1> QED
  BY <1>2, <1>3, <1>4

(* A batch as normalizeStateItem lets it pass.                               *)
Admissible(p, batch) ==
  /\ batch \in Seq(Item)
  /\ \A k \in 1..Len(batch) :
       /\ batch[k].by = Null
       /\ batch[k].id \in DOMAIN p.items => Older(p.items[batch[k].id], batch[k])
       /\ \A i \in batch[k].supersedes :
            i \in DOMAIN p.items /\ Rank[batch[k].authority] >= Rank[p.items[i].authority]

(* Writing an admissible batch only ages what was there.                   *)
LEMMA WrittenAges ==
  ASSUME NEW p, NEW m, NEW q, NEW batch, Aged(p, m), DOMAIN m.items = DOMAIN p.items,
         Admissible(p, batch), Written(m, batch, q)
  PROVE  Aged(p, q)
<1>1. ASSUME NEW i \in DOMAIN p.items PROVE Older(p.items[i], q.items[i])
  <2>1. i \in DOMAIN q.items
    BY DEF Written
  <2>2. PICK old \in Item :
          /\ Source(m, batch, Len(batch), i, old)
          /\ \/ q.items[i] = old
             \/ \E k \in 1..Len(batch) : Retired(old, q.items[i], batch[k].id)
    BY <2>1 DEF Written, Outcome
  <2>3. Older(p.items[i], old)
    <3>1. CASE old = m.items[i]
      BY <3>1 DEF Aged
    <3>2. CASE \E k \in 1..Len(batch) : batch[k].id = i /\ old = batch[k]
      BY <3>2 DEF Admissible
    <3> QED
      BY <2>2, <3>1, <3>2 DEF Source
  <2> QED
    BY <2>2, <2>3 DEF Older, Retired, SameMeaning
<1> QED
  BY <1>1 DEF Aged, Written

(* What supersedes an item, if an item does, ranks no lower.                 *)
ByOrder(p) ==
  \A i \in DOMAIN p.items : p.items[i].by \in ItemId =>
    /\ p.items[i].by \in DOMAIN p.items
    /\ Rank[p.items[p.items[i].by].authority] >= Rank[p.items[i].authority]

(* No two items of the batch share an identifier.                          *)
Distinct(batch) == \A j, k \in 1..Len(batch) : batch[j].id = batch[k].id => j = k

(* Ageing without a new superseding item keeps the order of authority.     *)
LEMMA AgedKeepsOrder ==
  ASSUME NEW p, NEW q, Aged(p, q), DOMAIN q.items = DOMAIN p.items, ByOrder(p),
         \A i \in DOMAIN p.items : q.items[i].by \notin ItemId \/ q.items[i].by = p.items[i].by
  PROVE  ByOrder(q)
<1> SUFFICES ASSUME NEW i \in DOMAIN q.items, q.items[i].by \in ItemId
             PROVE  /\ q.items[i].by \in DOMAIN q.items
                    /\ Rank[q.items[q.items[i].by].authority] >= Rank[q.items[i].authority]
  BY DEF ByOrder
<1>1. \A j \in DOMAIN p.items : q.items[j].authority = p.items[j].authority
  BY DEF Aged, Older, SameMeaning
<1>2. q.items[i].by = p.items[i].by
  OBVIOUS
<1>3. p.items[i].by \in DOMAIN p.items
      /\ Rank[p.items[p.items[i].by].authority] >= Rank[p.items[i].authority]
  BY <1>2 DEF ByOrder
<1> QED
  BY <1>1, <1>2, <1>3

(* So does writing an admissible batch of distinct identifiers.            *)
LEMMA WrittenKeepsOrder ==
  ASSUME NEW p, NEW m, NEW q, NEW batch, Aged(p, m), DOMAIN m.items = DOMAIN p.items,
         Admissible(p, batch), Distinct(batch), Written(m, batch, q), ByOrder(m)
  PROVE  ByOrder(q)
<1>1. \A i \in DOMAIN p.items : q.items[i].authority = p.items[i].authority
                                /\ m.items[i].authority = p.items[i].authority
  BY WrittenAges DEF Aged, Older, SameMeaning
<1>2. ASSUME NEW k \in 1..Len(batch)
      PROVE  batch[k].id \in DOMAIN q.items /\ q.items[batch[k].id].authority = batch[k].authority
  <2> DEFINE i == batch[k].id
  <2>1. i \in DOMAIN q.items
    BY DEF Written, Ids
  <2>2. CASE i \in DOMAIN p.items
    BY <1>1, <2>1, <2>2 DEF Admissible, Older, SameMeaning
  <2>3. CASE i \notin DOMAIN p.items
    <3>1. PICK old \in Item :
            /\ Source(m, batch, Len(batch), i, old)
            /\ \/ q.items[i] = old
               \/ \E j \in 1..Len(batch) : Retired(old, q.items[i], batch[j].id)
      BY <2>1 DEF Written, Outcome
    <3>2. old = batch[k]
      BY <2>3, <3>1 DEF Source, Distinct
    <3> QED
      BY <2>1, <3>1, <3>2 DEF Retired, SameMeaning
  <2> QED
    BY <2>2, <2>3
<1> SUFFICES ASSUME NEW i \in DOMAIN q.items, q.items[i].by \in ItemId
             PROVE  /\ q.items[i].by \in DOMAIN q.items
                    /\ Rank[q.items[q.items[i].by].authority] >= Rank[q.items[i].authority]
  BY DEF ByOrder
<1>3. PICK old \in Item :
        /\ Source(m, batch, Len(batch), i, old)
        /\ \/ q.items[i] = old
           \/ \E k \in 1..Len(batch) : i \in batch[k].supersedes /\ Retired(old, q.items[i], batch[k].id)
  BY DEF Written, Outcome
<1>4. CASE \E k \in 1..Len(batch) : i \in batch[k].supersedes /\ Retired(old, q.items[i], batch[k].id)
  <2>1. PICK k \in 1..Len(batch) : i \in batch[k].supersedes /\ Retired(old, q.items[i], batch[k].id)
    BY <1>4
  <2>2. q.items[i].by = batch[k].id
    BY <2>1 DEF Retired
  <2>3. i \in DOMAIN p.items /\ Rank[batch[k].authority] >= Rank[p.items[i].authority]
    BY <2>1 DEF Admissible
  <2> QED
    BY <1>1, <1>2, <2>2, <2>3
<1>5. CASE q.items[i] = old
  <2>1. old = m.items[i] /\ i \in DOMAIN p.items
    <3>1. \A k \in 1..Len(batch) : batch[k].by \notin ItemId
      BY NullAssumption DEF Admissible
    <3> QED
      BY <1>3, <1>5, <3>1 DEF Source
  <2>2. /\ m.items[i].by \in DOMAIN p.items
        /\ Rank[m.items[m.items[i].by].authority] >= Rank[m.items[i].authority]
    BY <1>5, <2>1 DEF ByOrder
  <2>3. m.items[i].by \in DOMAIN q.items
    BY <2>2 DEF Written
  <2> QED
    BY <1>1, <1>5, <2>1, <2>2, <2>3
<1> QED
  BY <1>3, <1>4, <1>5

(* Events that write items.                                                *)
Writing == {"state", "bound"}

(* An event that neither writes nor forgets marks some items stale.        *)
LEMMA UnwrittenResult ==
  ASSUME NEW p, IsProjection(p), NEW n, NEW e, IsEvent(e),
         e.type \notin Writing \cup Forgetting
  PROVE  \E S : Marked(p, Apply(p, n, e), S)
<1>1. CASE e.type = "workspace"
  BY <1>1, WorkspaceResult
<1>2. CASE e.type = "revalidate"
  BY <1>2, RevalidationResult
<1>3. CASE e.type \notin {"workspace", "revalidate"}
  <2> DEFINE q == Apply(p, n, e)
  <2>1. q.items = p.items /\ q.active = p.active
    BY <1>3, QuietResult DEF IsEvent, Writing
  <2> HIDE DEF q
  <2>2. Marked(p, q, {})
    BY <2>1 DEF Marked
  <2> QED
    BY <2>2 DEF q
<1> QED
  BY <1>1, <1>2, <1>3

(* An event that writes does so over aged items.                           *)
LEMMA WrittenResult ==
  ASSUME NEW p, IsProjection(p), ItemsOk(p), NEW n, NEW e, IsEvent(e), e.type \in Writing
  PROVE  \E m : /\ IsItems(m.items) /\ ItemsOk(m) /\ Aged(p, m) /\ DOMAIN m.items = DOMAIN p.items
                /\ e.type = "state" => Active(m) = Active(p) /\ Marked(p, m, OvertakenActions(p, e.items))
                /\ e.type = "bound" => RetiredAll(p, m, ActiveIntent(p), "contract")
                /\ Written(m, e.items, Apply(p, n, e))
<1>1. CASE e.type = "state"
  <2>1. PICK m : /\ IsItems(m.items) /\ Marked(p, m, OvertakenActions(p, e.items))
                 /\ Written(m, e.items, Apply(p, n, e))
    BY <1>1, StateResult DEF IsEvent
  <2>2. Aged(p, m) /\ Active(m) = Active(p) /\ ItemsOk(m)
    BY <2>1, MarkedItems
  <2> QED
    BY <1>1, <2>1, <2>2 DEF Marked
<1>2. CASE e.type = "bound"
  <2>1. PICK m : /\ IsItems(m.items) /\ RetiredAll(p, m, ActiveIntent(p), "contract")
                 /\ Written(m, e.items, Apply(p, n, e))
    BY <1>2, BindingResult DEF IsEvent
  <2>2. Aged(p, m) /\ ItemsOk(m)
    BY <2>1, RetiredItems
  <2> QED
    BY <1>2, <2>1, <2>2 DEF RetiredAll
<1> QED
  BY <1>1, <1>2 DEF Writing

(* Whatever is applied, the items stay well formed and only age.             *)
LEMMA ItemsResult ==
  ASSUME NEW p, IsProjection(p), ItemsOk(p), NEW n, NEW e, IsEvent(e),
         e.type \in Writing => Admissible(p, e.items)
  PROVE  ItemsOk(Apply(p, n, e)) /\ Aged(p, Apply(p, n, e))
<1>1. CASE e.type \notin Writing \cup Forgetting
  BY <1>1, UnwrittenResult, MarkedItems
<1>2. CASE e.type \in Forgetting
  BY <1>2, ClearResult, RetiredItems
<1>3. CASE e.type \in Writing
  <2>1. PICK m : /\ IsItems(m.items) /\ ItemsOk(m) /\ Aged(p, m) /\ DOMAIN m.items = DOMAIN p.items
                 /\ Written(m, e.items, Apply(p, n, e))
    BY <1>3, WrittenResult
  <2> QED
    BY <1>3, <2>1, WrittenItems, WrittenAges DEF Admissible
<1> QED
  BY <1>1, <1>2, <1>3

(* Whatever is applied, the order of authority is kept.                    *)
LEMMA OrderResult ==
  ASSUME NEW p, IsProjection(p), ItemsOk(p), ByOrder(p), NEW n, NEW e, IsEvent(e),
         e.type \in Writing => Admissible(p, e.items) /\ Distinct(e.items)
  PROVE  ByOrder(Apply(p, n, e))
<1> DEFINE q == Apply(p, n, e)
<1> HIDE DEF q
<1> USE IdAssumption
<1>1. CASE e.type \notin Writing \cup Forgetting
  <2>1. PICK S : Marked(p, q, S)
    BY <1>1, UnwrittenResult DEF q
  <2>2. Aged(p, q)
    BY <2>1, MarkedItems
  <2>3. DOMAIN q.items = DOMAIN p.items /\ \A i \in DOMAIN p.items : q.items[i].by = p.items[i].by
    BY <2>1 DEF Marked, Staled
  <2> QED
    BY <2>2, <2>3, AgedKeepsOrder DEF q
<1>2. CASE e.type \in Forgetting
  <2>1. RetiredAll(p, q, p.active, "clear")
    BY <1>2, ClearResult DEF q
  <2>2. Aged(p, q)
    BY <2>1, RetiredItems
  <2>3. DOMAIN q.items = DOMAIN p.items
        /\ \A i \in DOMAIN p.items : q.items[i].by \notin ItemId \/ q.items[i].by = p.items[i].by
    BY <2>1 DEF RetiredAll, Retired
  <2> QED
    BY <2>2, <2>3, AgedKeepsOrder DEF q
<1>3. CASE e.type \in Writing
  <2>1. PICK m : /\ IsItems(m.items) /\ ItemsOk(m) /\ Aged(p, m) /\ DOMAIN m.items = DOMAIN p.items
                 /\ e.type = "state" => Marked(p, m, OvertakenActions(p, e.items))
                 /\ e.type = "bound" => RetiredAll(p, m, ActiveIntent(p), "contract")
                 /\ Written(m, e.items, q)
    BY <1>3, WrittenResult DEF q
  <2>2. \A i \in DOMAIN p.items : m.items[i].by \notin ItemId \/ m.items[i].by = p.items[i].by
    <3>1. CASE e.type = "state"
      BY <2>1, <3>1 DEF Marked, Staled
    <3>2. CASE e.type = "bound"
      BY <2>1, <3>2 DEF RetiredAll, Retired
    <3> QED
      BY <1>3, <3>1, <3>2 DEF Writing
  <2>3. ByOrder(m)
    BY <2>1, <2>2, AgedKeepsOrder
  <2> QED
    BY <1>3, <2>1, <2>3, WrittenKeepsOrder DEF q
<1> QED
  BY <1>1, <1>2, <1>3

(* What a client sees of the items.                                          *)
Seen(p) == [i \in Active(p) |-> [Identity(p.items[i]) EXCEPT !.verification = "any"]]

(* Freshness is not part of what a client sees.                            *)
LEMMA MarkedSeen ==
  ASSUME NEW p, NEW q, NEW S, Marked(p, q, S), ItemsOk(p), IsItems(p.items), IsItems(q.items)
  PROVE  Seen(q) = Seen(p)
<1>1. Active(q) = Active(p) /\ Active(p) \subseteq DOMAIN p.items /\ DOMAIN q.items = DOMAIN p.items
  <2>1. Active(q) = Active(p)
    BY MarkedItems
  <2>2. Active(p) \subseteq DOMAIN p.items
    BY DEF Active, ItemsOk
  <2> QED
    BY <2>1, <2>2 DEF Marked
<1>2. ASSUME NEW i \in DOMAIN p.items
      PROVE  [Identity(q.items[i]) EXCEPT !.verification = "any"]
             = [Identity(p.items[i]) EXCEPT !.verification = "any"]
  <2> DEFINE old == p.items[i]
             new == q.items[i]
  <2>1. old \in Item /\ new \in Item
    BY <1>1 DEF IsItems
  <2>2. new = old \/ Staled(old, new)
    BY DEF Marked
  <2> HIDE DEF old, new
  <2>3. [Identity(new) EXCEPT !.verification = "any"] = [Identity(old) EXCEPT !.verification = "any"]
    BY <2>1, <2>2 DEF Identity, Staled, SameMeaning, Item
  <2> QED
    BY <2>3 DEF old, new
<1> QED
  BY <1>1, <1>2 DEF Seen
=============================================================================
