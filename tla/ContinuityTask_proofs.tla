----------------------- MODULE ContinuityTask_proofs ------------------------
(***************************************************************************)
(* The specification of one task: every operation appends only legal       *)
(* events, so that LedgerOk is an invariant, and with it all the safety    *)
(* properties of ContinuityTask, for every set of clients, items, batches  *)
(* and workspaces, and every bound.                                        *)
(***************************************************************************)
EXTENDS TaskLedger_proofs

(* The loop over a batch of inputs.                                        *)
G == INSTANCE Folding WITH Op <- AddClaim, Largest <- Max

----------------------------------------------------------------------------
(* What a client sends *)

(* Claims is a loop over the batch: Folding, instantiated with AddClaim.   *)
LEMMA ClaimsLoop ==
  ASSUME NEW batch, batch \in Seq(StateInput)
  PROVE  \E after : G!Loop(after, <<>>, batch) /\ Claims(batch) = after[Len(batch)]
<1> DEFINE iter == CHOOSE g : G!Iterates(g, <<>>, batch)
<1>1. Claims(batch) = iter[DOMAIN batch]
  BY DEF Claims, FoldLeft, MapThenFoldSet, G!Iterates
<1>2. G!PicksLargest(batch) /\ G!IsSequence(batch)
  <2>1. Len(batch) \in Nat /\ DOMAIN batch = 1..Len(batch)
    OBVIOUS
  <2> QED
    BY <2>1, G!LargestIn DEF Max, G!PicksLargest, G!IsSequence
<1>3. /\ \E g : G!Iterates(g, <<>>, batch)
      /\ \A g : G!Iterates(g, <<>>, batch) =>
           \E after : G!Loop(after, <<>>, batch) /\ g[DOMAIN batch] = after[Len(batch)]
  BY <1>2, G!LoopStates
<1>4. G!Iterates(iter, <<>>, batch)
  BY <1>3
<1> HIDE DEF iter
<1> QED
  BY <1>1, <1>3, <1>4

(* Every item that a batch says is the user's is among its claims.           *)
LEMMA UserItemsAreClaimed ==
  ASSUME NEW batch, batch \in Seq(StateInput)
  PROVE  \A m \in 1..Len(batch) : batch[m].authority = "user" => batch[m] \in ToSet(Claims(batch))
<1>1. PICK after : G!Loop(after, <<>>, batch) /\ Claims(batch) = after[Len(batch)]
  BY ClaimsLoop
<1> DEFINE S == {n \in Nat : n <= Len(batch) =>
                   /\ after[n] \in Seq(StateInput)
                   /\ \A m \in 1..n : batch[m].authority = "user" => batch[m] \in ToSet(after[n])}
<1>2. 0 \in S
  <2>1. after[0] = <<>>
    BY <1>1 DEF G!Loop
  <2>2. <<>> \in Seq(StateInput) /\ 1..0 = {}
    OBVIOUS
  <2>3. after[0] \in Seq(StateInput) /\ \A m \in 1..0 : batch[m] \in ToSet(after[0])
    BY <2>1, <2>2
  <2> QED
    BY <2>3
<1>3. ASSUME NEW n \in Nat, n \in S PROVE n + 1 \in S
  <2> SUFFICES ASSUME n + 1 <= Len(batch)
               PROVE  /\ after[n + 1] \in Seq(StateInput)
                      /\ \A m \in 1..(n + 1) : batch[m].authority = "user" => batch[m] \in ToSet(after[n + 1])
    OBVIOUS
  <2> DEFINE item == batch[n + 1]
             old == after[n]
             new == after[n + 1]
  <2>1. n + 1 \in 1..Len(batch) /\ (n + 1) - 1 = n /\ n <= Len(batch)
    OBVIOUS
  <2>2. item \in StateInput
    BY <2>1
  <2>3. new = AddClaim(old, item)
    BY <1>1, <2>1 DEF G!Loop
  <2>4. old \in Seq(StateInput) /\ \A m \in 1..n : batch[m].authority = "user" => batch[m] \in ToSet(old)
    BY <1>3, <2>1
  <2>5. \A m \in 1..(n + 1) : m \in 1..n \/ m = n + 1
    OBVIOUS
  <2> HIDE DEF item, old, new
  <2>6. CASE item.authority = "user"
    <3>1. new = Append(old, item)
      BY <2>3, <2>6 DEF AddClaim
    <3>2. new \in Seq(StateInput) /\ item \in ToSet(new) /\ \A x \in ToSet(old) : x \in ToSet(new)
      <4>1. new \in Seq(StateInput) /\ Len(new) = Len(old) + 1 /\ new[Len(old) + 1] = item
            /\ \A k \in 1..Len(old) : new[k] = old[k]
        BY <2>2, <2>4, <3>1
      <4>2. DOMAIN new = 1..(Len(old) + 1) /\ DOMAIN old = 1..Len(old) /\ Len(old) \in Nat
        BY <2>4, <4>1
      <4> QED
        BY <4>1, <4>2 DEF ToSet
    <3> QED
      BY <2>4, <2>5, <3>2 DEF item, old, new
  <2>7. CASE item.authority # "user"
    <3>1. new = old
      BY <2>3, <2>7 DEF AddClaim
    <3> QED
      BY <2>4, <2>5, <2>7, <3>1 DEF item, old, new
  <2> QED
    BY <2>6, <2>7
<1> HIDE DEF S
<1>4. Nat \subseteq S
  BY <1>2, <1>3, G!Induction
<1>5. Len(batch) \in S
  BY <1>4
<1> QED
  BY <1>1, <1>5 DEF S

(* What the store gets of a batch that is accepted.                          *)
Batch(batch, provider, c) == [n \in DOMAIN batch |-> Normalized(batch[n], provider, c)]

(* A batch whose inputs are acceptable is admissible once normalized.      *)
LEMMA AcceptedBatch ==
  ASSUME NEW batch \in Batches, NEW p, IsProjection(p),
         NEW provider \in {"standalone", "verified-evidence", "user-intent-plugin"}, NEW c,
         c \in Nat \/ c = Null,
         \A item \in ToSet(batch) : Acceptable(item, p, provider, c)
  PROVE  LET items == Batch(batch, provider, c) IN
         /\ batch \in Seq(StateInput)
         /\ items \in Seq(Item) /\ Len(items) = Len(batch) /\ Admissible(p, items)
         /\ DistinctBatches => Distinct(items)
         /\ \A k \in 1..Len(batch) : batch[k] \in ToSet(batch) /\ items[k] = Normalized(batch[k], provider, c)
<1> DEFINE items == Batch(batch, provider, c)
<1>1. batch \in Seq(StateInput) /\ Len(batch) \in Nat /\ DOMAIN batch = 1..Len(batch)
  BY BatchAssumption
<1>2. \A k \in 1..Len(batch) : batch[k] \in ToSet(batch) /\ batch[k] \in StateInput
  BY <1>1 DEF ToSet
<1>3. items = [k \in 1..Len(batch) |-> Normalized(batch[k], provider, c)]
  BY <1>1 DEF Batch
<1>4. ASSUME NEW k \in 1..Len(batch) PROVE Normalized(batch[k], provider, c) \in Item
  <2> DEFINE input == batch[k]
  <2>1. input \in StateInput /\ Acceptable(input, p, provider, c)
    BY <1>2
  <2> HIDE DEF input
  <2>2. (IF input.authority = "user" /\ provider # "user-intent-plugin" THEN c ELSE input.stamp) \in Nat
    BY <2>1 DEF StateInput, Acceptable
  <2>3. Normalized(input, provider, c) \in Item
    BY <2>1, <2>2 DEF StateInput, Normalized, Item
  <2> QED
    BY <2>3 DEF input
<1> HIDE DEF items
<1>5. items \in Seq(Item) /\ Len(items) = Len(batch)
      /\ \A k \in 1..Len(batch) : items[k] = Normalized(batch[k], provider, c)
  BY <1>1, <1>3, <1>4
<1>6. ASSUME NEW k \in 1..Len(batch)
      PROVE  /\ items[k].by = Null
             /\ items[k].id \in DOMAIN p.items => Older(p.items[items[k].id], items[k])
             /\ \A i \in items[k].supersedes :
                  i \in DOMAIN p.items /\ Rank[items[k].authority] >= Rank[p.items[i].authority]
  <2> DEFINE input == batch[k]
             item == items[k]
  <2>1. Acceptable(input, p, provider, c) /\ item = Normalized(input, provider, c)
    BY <1>2, <1>5
  <2> HIDE DEF input, item
  <2>2. /\ item.by = Null /\ item.supersedes = input.supersedes /\ item.authority = input.authority
    BY <2>1 DEF Normalized
  <2>3. \A i \in item.supersedes :
          i \in DOMAIN p.items /\ Rank[item.authority] >= Rank[p.items[i].authority]
    BY <2>1, <2>2 DEF Acceptable, MaySupersede
  <2>4. ASSUME item.id \in DOMAIN p.items PROVE Older(p.items[item.id], item)
    <3> DEFINE old == p.items[item.id]
    <3>1. Identity(old) = item
      BY <2>1, <2>4 DEF Acceptable, KeepsMeaning
    <3>2. old \in Item
      BY <2>4 DEF IsProjection, IsItems
    <3> HIDE DEF old
    <3>3. Older(old, item)
      BY <3>1, <3>2 DEF Identity, Item, Older, SameMeaning
    <3> QED
      BY <3>3 DEF old
  <2> QED
    BY <2>2, <2>3, <2>4 DEF item
<1>7. Admissible(p, items)
  BY <1>5, <1>6 DEF Admissible
<1>8. DistinctBatches => Distinct(items)
  <2>1. \A k \in 1..Len(batch) : items[k].id = batch[k].id
    <3>1. \A input : Normalized(input, provider, c).id = input.id
      BY DEF Normalized
    <3> QED
      BY <1>5, <3>1
  <2> QED
    BY <1>5, <2>1 DEF DistinctBatches, Distinct
<1> QED
  BY <1>1, <1>2, <1>5, <1>7, <1>8 DEF items

----------------------------------------------------------------------------
(* The invariant *)

(* A client has read an earlier generation of this life, or the present    *)
(* state.                                                                  *)
ReaderOk ==
  \A k \in Client :
    /\ reader[k].life \in Nat /\ reader[k].life <= life /\ reader[k].generation \in Nat
    /\ reader[k].life = life =>
         /\ reader[k].generation <= proj.generation
         /\ reader[k].generation = proj.generation => reader[k] = View

(* The inductive invariant.                                                *)
IInv ==
  /\ LedgerOk(log, proj) /\ Settled(log)
  /\ life \in 0..MaxLives /\ Len(log) <= MaxEvents
  /\ reader = [k \in Client |-> reader[k]] /\ ReaderOk
  /\ \A d \in deleting : d.life \in Nat /\ d.life <= life

(* A ledger keeps what it has, and grows.                                    *)
Extends(l, m) == Len(l) <= Len(m) /\ \A n \in 1..Len(l) : m[n] = l[n]

(* A step of a life only ages its items, only adds to its ledger, and adds   *)
(* no deletion but one that it validates.                                    *)
OnlyLater ==
  /\ life' = life => Later(proj, proj') /\ Extends(log, log')
  /\ deleting' \subseteq deleting \/ (life' = life /\ \E c : ValidateDelete(c))
  /\ life' \in {life, life + 1}

(* A transaction that may be committed.                                      *)
Going(t) == LedgerOk(t.log, t.proj) /\ Later(proj, t.proj) /\ Extends(log, t.log)
(* It is settled, too.                                                     *)
Sound(t) == Going(t) /\ Settled(t.log)

(* A transaction begins sound,                                             *)
LEMMA NowSound ==
  ASSUME IInv
  PROVE  Sound(Now) /\ Now.log = log /\ Now.proj = proj
<1>1. Len(log) \in Nat
  BY GenerationNat DEF IInv
<1> QED
  BY <1>1, LaterSame DEF IInv, Sound, Going, Now, Extends

(* and a legal event keeps it sound,                                       *)
LEMMA PutSound ==
  ASSUME IInv, NEW t, Going(t), NEW e, Legal(t.log, t.proj, e)
  PROVE  LET u == Put(t, e) IN
         /\ Going(u) /\ (e.type # "workspace" \/ t.proj.enabled => Sound(u))
         /\ u.log = Append(t.log, e) /\ u.proj = Apply(t.proj, Len(t.log) + 1, e)
<1> DEFINE u == Put(t, e)
           l == t.log
           p == t.proj
           q == Apply(p, Len(l) + 1, e)
<1>1. u.log = Append(l, e) /\ u.proj = q
  BY DEF Put
<1>2. /\ LedgerOk(Append(l, e), q) /\ Later(p, q)
      /\ e.type # "workspace" \/ p.enabled => Settled(Append(l, e))
  BY LegalKeeps DEF Going
<1>5. Grown(l, Append(l, e), e) /\ Len(log) \in Nat /\ Extends(log, l)
  BY AppendGrows, GenerationNat DEF Going, IInv, LedgerOk
<1> HIDE DEF u, q, l, p
<1>6. Extends(log, Append(l, e))
  BY <1>5 DEF Grown, Extends
<1>3. proj.generation \in Nat /\ p.generation \in Nat /\ q.generation \in Nat
  BY <1>2, GenerationNat DEF IInv, Going, l, p
<1>4. Later(proj, q)
  BY <1>2, <1>3, LaterTransitive DEF Going, p
<1> QED
  BY <1>1, <1>2, <1>4, <1>6 DEF Going, Sound, u, q, l, p

(* so that its commit keeps the invariant.                                 *)
LEMMA CommitStep ==
  ASSUME IInv, NEW t, Sound(t), Commit(t)
  PROVE  IInv' /\ OnlyLater
<1>1. /\ log' = t.log /\ proj' = t.proj /\ life' = life /\ reader' = reader
      /\ deleting' = deleting /\ Len(t.log) <= MaxEvents
  BY DEF Commit, Fits
<1>2. LedgerOk(log', proj') /\ Settled(log') /\ Later(proj, proj') /\ Extends(log, log')
  BY <1>1 DEF Sound, Going
<1>3. proj.generation \in Nat /\ proj'.generation \in Nat
  BY <1>2, GenerationNat DEF IInv
<1>4. ReaderOk'
  <2> SUFFICES ASSUME NEW k \in Client
               PROVE  /\ reader[k].life \in Nat /\ reader[k].life <= life /\ reader[k].generation \in Nat
                      /\ reader[k].life = life =>
                           /\ reader[k].generation <= proj'.generation
                           /\ reader[k].generation = proj'.generation => reader[k] = View'
    BY <1>1 DEF ReaderOk
  <2>1. /\ reader[k].life \in Nat /\ reader[k].life <= life /\ reader[k].generation \in Nat
        /\ reader[k].life = life =>
             /\ reader[k].generation <= proj.generation
             /\ reader[k].generation = proj.generation => reader[k] = View
    BY DEF IInv, ReaderOk
  <2>2. CASE proj'.generation > proj.generation
    BY <1>3, <2>1, <2>2
  <2>3. CASE /\ proj'.generation = proj.generation /\ proj'.enabled = proj.enabled
             /\ proj'.contract = proj.contract /\ proj'.challenges = proj.challenges
             /\ Seen(proj') = Seen(proj)
    <3>1. View' = View
      BY <1>1, <2>3 DEF View, Seen
    <3> QED
      BY <2>1, <2>3, <3>1
  <2> QED
    BY <1>2, <2>2, <2>3 DEF Later
<1>5. IInv'
  BY <1>1, <1>2, <1>4 DEF IInv
<1> QED
  BY <1>1, <1>2, <1>5 DEF OnlyLater

----------------------------------------------------------------------------
(* Events that authorize nothing and write nothing *)

(* Events that use no prompt and write no items.                           *)
Plain == {"workspace", "prompt", "revalidate", "snapshot", "compaction", "restore",
          "session_ended", "candidates"}

(* A plain event is legal if its own conditions hold.                      *)
LEMMA PlainLegal ==
  ASSUME NEW l, NEW p, NEW e, e.type \in Plain, e.uses = {}, LegalOff(l, p, e),
         LegalWorkspace(p, e), LegalBoundary(p, e), LegalSnapshot(p, e), LegalHistory(l, e)
  PROVE  Legal(l, p, e)
<1>1. e.type \notin Bumping /\ e.type \notin Writing /\ e.type \notin {"enabled", "reset"}
      /\ e.type # "challenge" /\ e.type # "state" /\ e.type # "bound"
  BY DEF Plain, Bumping, Writing
<1>2. IsEvent(e) /\ (e.type = "enabled" => e.on \in BOOLEAN) /\ LegalWrite(l, p, e)
  BY <1>1 DEF IsEvent, LegalWrite
<1>3. LegalUses(l, e) /\ LegalIssue(l, e) /\ LegalOnce(l, p, e) /\ LegalAction(l, p, e)
  BY <1>1 DEF LegalUses, LegalIssue, LegalOnce, LegalAction
<1>4. LegalItems(l, p, e) /\ LegalIntent(p, e)
  BY <1>1 DEF LegalItems, LegalIntent
<1> QED
  BY <1>2, <1>3, <1>4 DEF Legal

(* Noting the workspace and expiring the planned actions.                    *)
LEMMA WorkspaceSound ==
  ASSUME IInv, NEW t, Sound(t), NEW w \in Workspace
  PROVE  LET u == WithWorkspace(t, w) IN
         /\ Going(u) /\ (t.proj.enabled => Sound(u)) /\ u.proj.enabled = t.proj.enabled
         /\ CurrentActions(t.proj) = {} => CurrentActions(u.proj) = {}
         /\ u.log = t.log
            \/ \E e : e.type = "workspace" /\ Grown(t.log, u.log, e)
<1> DEFINE u == WithWorkspace(t, w)
           e == [type |-> "workspace", uses |-> {}, workspace |-> w]
<1>1. CASE t.proj.workspace = w
  <2>1. u = t
    BY <1>1 DEF WithWorkspace
  <2> QED
    BY <2>1 DEF Sound
<1>2. CASE t.proj.workspace # w
  <2>1. u = Put(t, e)
    BY <1>2 DEF WithWorkspace
  <2> HIDE DEF u
  <2>2. e.type = "workspace" /\ e.uses = {} /\ e.workspace = w
    OBVIOUS
  <2> HIDE DEF e
  <2>3. Legal(t.log, t.proj, e)
    <3>1. LegalOff(t.log, t.proj, e)
      BY <2>2 DEF LegalOff, Sound
    <3>2. LegalWorkspace(t.proj, e)
      BY <1>2, <2>2 DEF LegalWorkspace
    <3>3. LegalBoundary(t.proj, e) /\ LegalSnapshot(t.proj, e) /\ LegalHistory(t.log, e)
      BY <2>2 DEF LegalBoundary, Boundary, LegalSnapshot, LegalHistory
    <3> QED
      BY <2>2, <3>1, <3>2, <3>3, PlainLegal DEF Plain
  <2>4. /\ Going(u) /\ (t.proj.enabled => Sound(u))
        /\ u.log = Append(t.log, e) /\ u.proj = Apply(t.proj, Len(t.log) + 1, e)
    BY <2>1, <2>2, <2>3, PutSound DEF Sound
  <2>5. IsProjection(t.proj) /\ ItemsOk(t.proj) /\ IsLog(t.log) /\ IsEvent(e)
    BY <2>2 DEF Sound, Going, LedgerOk, IsEvent
  <2>6. Grown(t.log, u.log, e)
    BY <2>4, <2>5, AppendGrows
  <2>7. CurrentActions(u.proj) \subseteq CurrentActions(t.proj)
    BY <2>2, <2>4, <2>5, ActionsCarried DEF Writing
  <2>8. u.proj.enabled = t.proj.enabled
    <3>1. Fields(t.proj, Len(t.log) + 1, e, u.proj)
      BY <2>4, <2>5, ApplyResult
    <3> QED
      BY <2>2, <3>1 DEF Fields
  <2> QED
    BY <2>2, <2>4, <2>6, <2>7, <2>8 DEF u
<1> QED
  BY <1>1, <1>2

(* Behind WithExpiry no planned action is current, and nothing is appended *)
(* if none was.                                                            *)
LEMMA ExpirySound ==
  ASSUME IInv, NEW t, Sound(t), t.proj.enabled
  PROVE  LET u == WithExpiry(t) IN
         /\ Sound(u) /\ u.proj.enabled /\ CurrentActions(u.proj) = {}
         /\ CurrentActions(t.proj) = {} => u = t
<1> DEFINE u == WithExpiry(t)
           e == [type |-> "revalidate", uses |-> {}, ids |-> CurrentActions(t.proj)]
<1>1. CASE CurrentActions(t.proj) = {}
  BY <1>1 DEF WithExpiry
<1>2. CASE CurrentActions(t.proj) # {}
  <2>1. u = Put(t, e)
    BY <1>2 DEF WithExpiry
  <2> HIDE DEF u
  <2>2. e.type = "revalidate" /\ e.uses = {} /\ e.ids = CurrentActions(t.proj)
    OBVIOUS
  <2> HIDE DEF e
  <2>3. Legal(t.log, t.proj, e)
    <3>1. LegalOff(t.log, t.proj, e)
      BY <2>2 DEF LegalOff, Sound
    <3>2. LegalWorkspace(t.proj, e) /\ LegalBoundary(t.proj, e) /\ LegalHistory(t.log, e)
      BY <2>2 DEF LegalWorkspace, LegalBoundary, Boundary, LegalHistory
    <3>3. LegalSnapshot(t.proj, e)
      BY <1>2, <2>2 DEF LegalSnapshot
    <3> QED
      BY <2>2, <3>1, <3>2, <3>3, PlainLegal DEF Plain
  <2>4. Sound(u) /\ u.proj = Apply(t.proj, Len(t.log) + 1, e)
    BY <2>1, <2>2, <2>3, PutSound DEF Sound
  <2>5. IsProjection(t.proj) /\ ItemsOk(t.proj) /\ IsEvent(e)
    BY <2>2 DEF Sound, Going, LedgerOk, IsEvent
  <2>6. Fields(t.proj, Len(t.log) + 1, e, u.proj)
    BY <2>4, <2>5, ApplyResult
  <2>7. u.proj.enabled
    BY <2>2, <2>6 DEF Fields
  <2>8. CurrentActions(u.proj) = {}
    <3>1. Marked(t.proj, u.proj, RevalidationDue(t.proj, e))
      BY <2>2, <2>4, <2>5, RevalidationResult
    <3>2. \A i \in CurrentActions(u.proj) : i \in CurrentActions(t.proj)
      BY <2>2, <2>4, <2>5, ActionsCarried DEF Writing
    <3>3. CurrentActions(t.proj) \subseteq RevalidationDue(t.proj, e)
      BY <2>2, <2>5 DEF CurrentActions, Active, RevalidationDue, ItemsOk
    <3>4. ASSUME NEW i \in CurrentActions(u.proj) PROVE FALSE
      <4>1. i \in RevalidationDue(t.proj, e) /\ i \in DOMAIN t.proj.items
        BY <3>2, <3>3 DEF RevalidationDue
      <4>2. u.proj.items[i].verification = "stale"
        BY <3>1, <4>1 DEF Marked, Staled
      <4> QED
        BY <4>2 DEF CurrentActions, Current
    <3> QED
      BY <3>4
  <2> QED
    BY <1>2, <2>4, <2>7, <2>8 DEF u
<1> QED
  BY <1>1, <1>2

----------------------------------------------------------------------------
(* One lemma for each operation *)

(* A transaction of one event.                                               *)
LEMMA SingleStep ==
  ASSUME IInv, NEW e, Legal(log, proj, e), e.type # "workspace", Commit(Put(Now, e))
  PROVE  IInv' /\ OnlyLater
<1> DEFINE t == Put(Now, e)
<1>1. Now.log = log /\ Now.proj = proj /\ Going(Now)
  BY NowSound DEF Sound
<1>2. Sound(t)
  BY <1>1, PutSound
<1> QED
  BY <1>2, CommitStep

(* A prompt, with the workspace it finds.                                  *)
LEMMA ObservePromptStep ==
  ASSUME IInv, NEW text, NEW w \in Workspace, ObservePrompt(text, w)
  PROVE  IInv' /\ OnlyLater
<1> DEFINE t == IF proj.workspace = Null THEN WithWorkspace(Now, w) ELSE Now
           e == [type |-> "prompt", uses |-> {}, text |-> text, signals |-> Signals(text)]
<1>1. Sound(Now) /\ Now.proj = proj
  BY NowSound
<1>2. Going(t) /\ t.proj.enabled = proj.enabled
  BY <1>1, WorkspaceSound DEF Sound
<1>3. Commit(Put(t, e)) /\ (proj.enabled \/ "continuity_on" \in e.signals)
  BY DEF ObservePrompt
<1>4. e.type = "prompt" /\ e.uses = {}
  OBVIOUS
<1> HIDE DEF t, e
<1>5. Legal(t.log, t.proj, e)
  <2>1. LegalOff(t.log, t.proj, e)
    BY <1>2, <1>3, <1>4 DEF LegalOff
  <2>2. LegalWorkspace(t.proj, e) /\ LegalBoundary(t.proj, e)
        /\ LegalSnapshot(t.proj, e) /\ LegalHistory(t.log, e)
    BY <1>4 DEF LegalWorkspace, LegalBoundary, Boundary, LegalSnapshot, LegalHistory
  <2> QED
    BY <1>4, <2>1, <2>2, PlainLegal DEF Plain
<1>6. Sound(Put(t, e))
  BY <1>2, <1>4, <1>5, PutSound
<1> QED
  BY <1>3, <1>6, CommitStep

(* A client reads the state.                                               *)
LEMMA GetStateStep ==
  ASSUME IInv, NEW k \in Client, GetState(k)
  PROVE  IInv' /\ OnlyLater
<1>1. /\ log' = log /\ proj' = proj /\ life' = life /\ deleting' = deleting
      /\ reader' = [reader EXCEPT ![k] = View]
  BY DEF GetState
<1>2. View' = View
  BY <1>1 DEF View
<1>3. View.life = life /\ View.generation = proj.generation /\ life \in Nat /\ proj.generation \in Nat
  BY GenerationNat, BoundAssumption DEF View, IInv
<1>4. \A j \in Client : reader'[j] = IF j = k THEN View ELSE reader[j]
  BY <1>1 DEF IInv
<1>5. reader' = [j \in Client |-> reader'[j]]
  BY <1>1 DEF IInv
<1>6. ReaderOk'
  <2> SUFFICES ASSUME NEW j \in Client
               PROVE  /\ reader'[j].life \in Nat /\ reader'[j].life <= life /\ reader'[j].generation \in Nat
                      /\ reader'[j].life = life =>
                           /\ reader'[j].generation <= proj.generation
                           /\ reader'[j].generation = proj.generation => reader'[j] = View
    BY <1>1, <1>2 DEF ReaderOk
  <2>1. CASE j = k
    BY <1>3, <1>4, <2>1
  <2>2. CASE j # k
    BY <1>4, <2>2 DEF IInv, ReaderOk
  <2> QED
    BY <2>1, <2>2
<1>7. Extends(log, log') /\ deleting' \subseteq deleting
  BY <1>1, NowSound DEF Sound, Going
<1> QED
  BY <1>1, <1>5, <1>6, <1>7, LaterSame DEF IInv, OnlyLater

(* A client writes state.                                                  *)
LEMMA RecordStateStep ==
  ASSUME IInv, NEW k \in Client, NEW batch \in Batches,
         NEW provider \in {"standalone", "verified-evidence"}, NEW c \in Prompts \cup {Null},
         NEW R \in Resolvable(Prompts), RecordState(k, batch, provider, c, R)
  PROVE  IInv' /\ OnlyLater
<1> DEFINE items == [n \in DOMAIN batch |-> Normalized(batch[n], provider, c)]
           used == IF Claims(batch) = <<>> THEN {} ELSE R \cup {c}
           e == [type |-> "state", uses |-> used, items |-> items]
<1>1. /\ proj.enabled /\ \A item \in ToSet(batch) : Acceptable(item, proj, provider, c)
      /\ IntentFree(batch) /\ MayResolve(batch, c, R)
      /\ provider = "verified-evidence" => \A item \in ToSet(batch) : item.authority = "verified_evidence"
      /\ Cardinality(Active(Put(Now, e).proj)) <= MaxActive /\ Commit(Put(Now, e))
  BY DEF RecordState
<1>2. Prompts = PromptsOf(log) /\ R \subseteq PromptsOf(log)
      /\ \A x \in PromptsOf(log) : x \in Nat /\ x < Len(log) + 1
  <2>1. DOMAIN log = 1..Len(log) /\ Len(log) \in Nat
    BY DEF IInv, LedgerOk, IsLog
  <2> QED
    BY <2>1 DEF Prompts, PromptsOf, Resolvable
<1>3. IsProjection(proj) /\ (c \in Nat \/ c = Null)
  BY <1>2 DEF IInv, LedgerOk
<1>4. /\ batch \in Seq(StateInput)
      /\ items \in Seq(Item) /\ Len(items) = Len(batch) /\ Admissible(proj, items)
      /\ DistinctBatches => Distinct(items)
      /\ \A j \in 1..Len(batch) : batch[j] \in ToSet(batch) /\ items[j] = Normalized(batch[j], provider, c)
  <2>1. items = Batch(batch, provider, c)
    BY DEF Batch
  <2> HIDE DEF items
  <2> QED
    BY <1>1, <1>3, <2>1, AcceptedBatch
<1>5. used # {} => /\ Claims(batch) # <<>> /\ used = R \cup {c} /\ c \in PromptsOf(log) \ R
                   /\ Unused(used) /\ ConfirmedBy(c, batch, R)
  BY <1>1, <1>2 DEF MayResolve
<1>6. ASSUME NEW j \in 1..Len(items), items[j].authority = "user"
      PROVE  ConfirmedItem(log, Len(log) + 1, used, proj.generation, items[j])
  <2>1. items[j] = Normalized(batch[j], provider, c) /\ batch[j] \in ToSet(batch)
    BY <1>4
  <2> DEFINE input == batch[j]
             item == items[j]
  <2>2. input \in ToSet(Claims(batch))
    <3>1. input.authority = "user"
      BY <1>6, <2>1 DEF Normalized
    <3> QED
      BY <1>4, <3>1, UserItemsAreClaimed
  <2>3. provider = "standalone"
    BY <1>1, <1>6, <2>1 DEF Normalized
  <2>4. Claims(batch) # <<>>
    BY <2>2 DEF ToSet
  <2>5. used = R \cup {c} /\ c \in PromptsOf(log) /\ ConfirmedBy(c, batch, R)
    BY <1>5, <2>4
  <2>6. log[c].text = StateText(proj.generation, Claims(batch), R)
    BY <2>5 DEF ConfirmedBy
  <2>7. log[c].text.form = "state" /\ log[c].text.generation = proj.generation
        /\ log[c].text.claims = Claims(batch)
    BY <2>6 DEF StateText
  <2> HIDE DEF input, item, items, used
  <2>8. item = Normalized(input, "standalone", c) /\ item.authority = "user"
    BY <1>6, <2>1, <2>3 DEF item, input
  <2>9. item.stamp = c
    BY <2>8 DEF Normalized
  <2>10. ConfirmedItem(log, Len(log) + 1, used, proj.generation, item)
    BY <1>2, <2>2, <2>5, <2>7, <2>8, <2>9 DEF ConfirmedItem
  <2> QED
    BY <2>10 DEF item
<1>7. e.type = "state" /\ e.uses = used /\ e.items = items
  OBVIOUS
<1>8. \A x \in used : UnusedIn(log, x)
  BY <1>5 DEF Unused, Consumed, UnusedIn
<1>9. used \subseteq PromptsOf(log)
  BY <1>2, <1>5
<1>10. Put(Now, e).proj = Apply(proj, Len(log) + 1, e)
  BY DEF Put, Now
<1>11. proj.contract.source = "standalone" \/ \A j \in 1..Len(items) : items[j].kind \notin IntentKinds
  <2>1. \A input : Normalized(input, provider, c).kind = input.kind
    BY DEF Normalized
  <2> HIDE DEF items
  <2> QED
    BY <1>1, <1>4, <2>1 DEF IntentFree
<1> HIDE DEF items, used, e
<1>12. IsEvent(e) /\ (e.type = "enabled" => e.on \in BOOLEAN) /\ LegalWrite(log, proj, e)
  BY <1>1, <1>4, <1>7, <1>10 DEF IsEvent, LegalWrite
<1>13. LegalUses(log, e) /\ LegalIssue(log, e) /\ LegalOnce(log, proj, e) /\ LegalAction(log, proj, e)
  BY <1>7, <1>8, <1>9 DEF LegalUses, LegalIssue, LegalOnce, LegalAction, Bumping
<1>14. LegalItems(log, proj, e)
  BY <1>4, <1>6, <1>7 DEF LegalItems, ToSet
<1>15. LegalOff(log, proj, e) /\ LegalWorkspace(proj, e) /\ LegalBoundary(proj, e)
  BY <1>1, <1>7 DEF LegalOff, LegalWorkspace, LegalBoundary, Boundary, IInv
<1>16. LegalIntent(proj, e) /\ LegalSnapshot(proj, e) /\ LegalHistory(log, e)
  BY <1>7, <1>11 DEF LegalIntent, LegalSnapshot, LegalHistory
<1>17. Legal(log, proj, e)
  BY <1>12, <1>13, <1>14, <1>15, <1>16 DEF Legal
<1> QED
  BY <1>1, <1>7, <1>17, SingleStep

(* A provider binds a version of its contract.                             *)
LEMMA BindContractStep ==
  ASSUME IInv, NEW k \in Client, NEW batch \in Batches, NEW R \in Resolvable(Prompts),
         NEW v \in 1..MaxVersion, NEW ref \in ContractRef, BindContract(k, ref, v, batch, R)
  PROVE  IInv' /\ OnlyLater
<1> DEFINE provider == "user-intent-plugin"
           items == [n \in DOMAIN batch |-> Normalized(batch[n], "user-intent-plugin", Null)]
           e == [type |-> "bound", uses |-> R, ref |-> ref, version |-> v, items |-> items]
<1>1. /\ proj.enabled /\ \A item \in ToSet(batch) : Acceptable(item, proj, "user-intent-plugin", Null)
      /\ VersionAdvances(ref, v) /\ Unused(R)
      /\ Cardinality(Active(Put(Now, e).proj)) <= MaxActive /\ Commit(Put(Now, e))
  BY DEF BindContract
<1>2. R \subseteq PromptsOf(log)
  BY DEF Prompts, Resolvable
<1>3. IsProjection(proj)
  BY DEF IInv, LedgerOk
<1>4. /\ items \in Seq(Item) /\ Len(items) = Len(batch) /\ Admissible(proj, items)
      /\ DistinctBatches => Distinct(items)
      /\ \A j \in 1..Len(batch) : items[j] = Normalized(batch[j], "user-intent-plugin", Null)
  <2>1. items = Batch(batch, "user-intent-plugin", Null)
    BY DEF Batch
  <2> HIDE DEF items
  <2> QED
    BY <1>1, <1>3, <2>1, AcceptedBatch
<1>5. \A j \in 1..Len(items) : items[j].provider = "user-intent-plugin"
  <2>1. \A input : Normalized(input, "user-intent-plugin", Null).provider = "user-intent-plugin"
    BY DEF Normalized
  <2> HIDE DEF items
  <2> QED
    BY <1>4, <2>1
<1>6. e.type = "bound" /\ e.uses = R /\ e.items = items /\ e.version = v /\ e.ref = ref
  OBVIOUS
<1>7. Put(Now, e).proj = Apply(proj, Len(log) + 1, e)
  BY DEF Put, Now
<1>8. \A x \in R : UnusedIn(log, x)
  BY <1>1 DEF Unused, Consumed, UnusedIn
<1> HIDE DEF items, e
<1>9. IsEvent(e) /\ (e.type = "enabled" => e.on \in BOOLEAN) /\ LegalWrite(log, proj, e)
  BY <1>1, <1>4, <1>6, <1>7 DEF IsEvent, LegalWrite
<1>10. LegalUses(log, e) /\ LegalIssue(log, e) /\ LegalOnce(log, proj, e) /\ LegalAction(log, proj, e)
  BY <1>2, <1>6, <1>8 DEF LegalUses, LegalIssue, LegalOnce, LegalAction, Bumping
<1>11. LegalItems(log, proj, e) /\ LegalOff(log, proj, e) /\ LegalWorkspace(proj, e)
       /\ LegalBoundary(proj, e) /\ LegalSnapshot(proj, e) /\ LegalHistory(log, e)
  BY <1>1, <1>6 DEF LegalItems, LegalOff, LegalWorkspace, LegalBoundary, Boundary, LegalSnapshot,
     LegalHistory, IInv
<1>12. LegalIntent(proj, e)
  BY <1>1, <1>5, <1>6, BoundAssumption DEF LegalIntent, VersionAdvances, Bound
<1>13. Legal(log, proj, e)
  BY <1>9, <1>10, <1>11, <1>12 DEF Legal
<1> QED
  BY <1>1, <1>6, <1>13, SingleStep

(* Events of one transaction that authorize nothing.                         *)
LEMMA PlainStep ==
  ASSUME IInv, NEW e, e.type \in {"compaction", "candidates"}, e.uses = {}, proj.enabled,
         LegalHistory(log, e), Commit(Put(Now, e))
  PROVE  IInv' /\ OnlyLater
<1>1. /\ LegalOff(log, proj, e) /\ LegalWorkspace(proj, e) /\ LegalBoundary(proj, e)
      /\ LegalSnapshot(proj, e)
  BY DEF LegalOff, LegalWorkspace, LegalBoundary, Boundary, LegalSnapshot, IInv
<1>2. Legal(log, proj, e)
  BY <1>1, PlainLegal DEF Plain
<1> QED
  BY <1>2, SingleStep

(* Events that bump the generation without items.                            *)
LEMMA ManagedLegal ==
  ASSUME IInv, NEW e, e.type \in {"cleared", "reset", "enabled", "challenge"},
         e.type = "enabled" => e.on \in BOOLEAN,
         e.type = "challenge" => e.action \in ManagedActions,
         LegalUses(log, e), LegalIssue(log, e), LegalOnce(log, proj, e),
         LegalAction(log, proj, e), LegalOff(log, proj, e)
  PROVE  Legal(log, proj, e)
<1>1. IsEvent(e) /\ (e.type = "enabled" => e.on \in BOOLEAN) /\ LegalWrite(log, proj, e)
  BY DEF IsEvent, LegalWrite, Writing
<1>2. LegalItems(log, proj, e) /\ LegalWorkspace(proj, e) /\ LegalBoundary(proj, e)
      /\ LegalIntent(proj, e) /\ LegalSnapshot(proj, e) /\ LegalHistory(log, e)
  BY DEF LegalItems, LegalWorkspace, LegalBoundary, Boundary, LegalIntent, LegalSnapshot, LegalHistory
<1> QED
  BY <1>1, <1>2 DEF Legal

(* The task is cleared.                                                    *)
LEMMA ClearTaskStep ==
  ASSUME IInv, ClearTask
  PROVE  IInv' /\ OnlyLater
<1> DEFINE e == [type |-> "cleared", uses |-> {}]
<1>1. proj.enabled /\ Commit(Put(Now, e))
  BY DEF ClearTask, Clear
<1>2. e.type = "cleared" /\ e.uses = {}
  OBVIOUS
<1> HIDE DEF e
<1>3. /\ LegalUses(log, e) /\ LegalIssue(log, e) /\ LegalOnce(log, proj, e)
      /\ LegalAction(log, proj, e) /\ LegalOff(log, proj, e)
  BY <1>1, <1>2 DEF LegalUses, LegalIssue, LegalOnce, LegalAction, LegalOff, Bumping, IInv
<1>4. Legal(log, proj, e)
  BY <1>2, <1>3, ManagedLegal
<1> QED
  BY <1>1, <1>2, <1>4, SingleStep

(* Candidates are recorded.                                                *)
LEMMA CandidatesStep ==
  ASSUME IInv, ObserveSubagentResult \/ \E k \in Client : ImportHandoff(k)
  PROVE  IInv' /\ OnlyLater
<1> DEFINE e == Event("candidates", {})
<1>1. proj.enabled /\ Commit(Put(Now, e))
  BY DEF ObserveSubagentResult, ImportHandoff
<1>2. e.type = "candidates" /\ e.uses = {}
  BY DEF Event
<1> HIDE DEF e
<1> QED
  BY <1>1, <1>2, PlainStep DEF LegalHistory

(* A request gets its challenge.                                           *)
LEMMA PrepareStep ==
  ASSUME IInv, NEW a \in ManagedActions, NEW c \in Prompts, Prepare(a, c)
  PROVE  IInv' /\ OnlyLater
<1> DEFINE n == Len(log) + 1
           e == [type |-> "challenge", uses |-> {c}, action |-> a,
                 prompt |-> c, token |-> <<life, n>>, issued |-> n,
                 expires |-> n + ChallengeWindow]
<1>1. MayIssue(a, c) /\ (Reissuable(a, c) \/ Unused({c})) /\ Commit(Put(Now, e))
  BY DEF Prepare
<1>2. c \in PromptsOf(log) /\ c < n
  BY DEF Prompts, PromptsOf, IInv, LedgerOk, IsLog
<1>3. /\ e.type = "challenge" /\ e.uses = {c} /\ e.action = a /\ e.prompt = c
      /\ e.issued = n /\ e.expires = n + ChallengeWindow
  OBVIOUS
<1> HIDE DEF e, n
<1>4. LegalUses(log, e)
  BY <1>2, <1>3 DEF LegalUses, Bumping
<1>5. LegalIssue(log, e)
  BY <1>1, <1>2, <1>3 DEF LegalIssue, Issued, MayIssue, n
<1>6. LegalOnce(log, proj, e)
  BY <1>1, <1>3 DEF LegalOnce, Reissuable, Unused, Consumed, UnusedIn
<1>7. LegalAction(log, proj, e) /\ LegalOff(log, proj, e)
  BY <1>1, <1>3 DEF LegalAction, LegalOff, MayIssue, IInv
<1>8. Legal(log, proj, e)
  BY <1>3, <1>4, <1>5, <1>6, <1>7, ManagedLegal
<1> QED
  BY <1>1, <1>3, <1>8, SingleStep

(* What a confirmed action appends.                                          *)
LEMMA ConfirmedStep ==
  ASSUME IInv, NEW c, NEW e, e.type \in {"reset", "enabled"}, e.uses = {c},
         e.action \in ManagedActions, e.type = "enabled" => e.on \in BOOLEAN,
         Confirmed(e.action, c), Commit(Put(Now, e))
  PROVE  IInv' /\ OnlyLater
<1>1. /\ proj.challenges[e.action] # Null /\ c \in PromptsOf(log) /\ UnusedIn(log, c)
      /\ InWindow(c, proj.challenges[e.action])
      /\ log[c].text = ConfirmText(e.action, proj.challenges[e.action].token)
  BY DEF Confirmed, Prompts, Unused, Consumed, UnusedIn
<1>2. LegalAction(log, proj, e)
  BY <1>1 DEF LegalAction
<1>3. LegalUses(log, e) /\ LegalIssue(log, e) /\ LegalOnce(log, proj, e) /\ LegalOff(log, proj, e)
  BY <1>1 DEF LegalUses, LegalIssue, LegalOnce, LegalOff, Bumping, IInv
<1>4. Legal(log, proj, e)
  BY <1>2, <1>3, ManagedLegal
<1> QED
  BY <1>4, SingleStep

(* A confirmed reset.                                                      *)
LEMMA ManageResetStep ==
  ASSUME IInv, NEW c, ManageReset(c)
  PROVE  IInv' /\ OnlyLater
<1> DEFINE e == [type |-> "reset", uses |-> {c}, action |-> "reset", prompt |-> c]
<1>1. Confirmed("reset", c) /\ Commit(Put(Now, e))
  BY DEF ManageReset
<1>2. e.type = "reset" /\ e.uses = {c} /\ e.action = "reset" /\ "reset" \in ManagedActions
  BY DEF ManagedActions
<1> HIDE DEF e
<1> QED
  BY <1>1, <1>2, ConfirmedStep

(* A confirmed switch.                                                     *)
LEMMA ManageOnOffStep ==
  ASSUME IInv, NEW a \in {"on", "off"}, NEW c, ManageOnOff(a, c)
  PROVE  IInv' /\ OnlyLater
<1> DEFINE e == OnOff(a, c)
<1>1. Confirmed(a, c) /\ Commit(Put(Now, e))
  BY DEF ManageOnOff
<1>2. e.type = "enabled" /\ e.uses = {c} /\ e.action = a /\ e.on \in BOOLEAN /\ a \in ManagedActions
  BY DEF OnOff, ManagedActions
<1> HIDE DEF e
<1> QED
  BY <1>1, <1>2, ConfirmedStep

(* The CLI switches without a confirmation.                                *)
LEMMA CliOnOffStep ==
  ASSUME IInv, NEW a, CliOnOff(a)
  PROVE  IInv' /\ OnlyLater
<1> DEFINE e == [type |-> "enabled", uses |-> {}, action |-> Null,
                 on |-> a = "on", prompt |-> Null]
<1>1. Commit(Put(Now, e))
  BY DEF CliOnOff
<1>2. e.type = "enabled" /\ e.uses = {} /\ e.action = Null /\ e.on \in BOOLEAN
  OBVIOUS
<1> HIDE DEF e
<1>3. /\ LegalUses(log, e) /\ LegalIssue(log, e) /\ LegalOnce(log, proj, e)
      /\ LegalAction(log, proj, e) /\ LegalOff(log, proj, e)
  BY <1>2 DEF LegalUses, LegalIssue, LegalOnce, LegalAction, LegalOff, IInv
<1>4. Legal(log, proj, e)
  BY <1>2, <1>3, ManagedLegal
<1> QED
  BY <1>1, <1>2, <1>4, SingleStep

(* A deletion is validated.                                                *)
LEMMA ValidateDeleteStep ==
  ASSUME IInv, NEW c, ValidateDelete(c)
  PROVE  IInv' /\ OnlyLater
<1>1. /\ log' = log /\ proj' = proj /\ life' = life /\ reader' = reader
      /\ deleting' = deleting \cup {[life |-> life, prompt |-> c]}
  BY DEF ValidateDelete
<1>2. View' = View
  BY <1>1 DEF View
<1>3. ReaderOk'
  BY <1>1, <1>2 DEF IInv, ReaderOk
<1>4. \A d \in deleting' : d.life \in Nat /\ d.life <= life
  <2>1. life \in Nat /\ life <= life
    BY BoundAssumption DEF IInv
  <2> QED
    BY <1>1, <2>1 DEF IInv
<1>5. Extends(log, log')
  BY <1>1, NowSound DEF Sound, Going
<1> QED
  BY <1>1, <1>3, <1>4, <1>5, LaterSame DEF IInv, OnlyLater

(* The next life begins with an empty ledger.                                *)
LEMMA RemoveStep ==
  ASSUME IInv, RemoveLedger, deleting' \subseteq deleting
  PROVE  IInv' /\ OnlyLater
<1>1. /\ life < MaxLives /\ life' = life + 1 /\ log' = <<>> /\ proj' = Empty /\ reader' = reader
  BY DEF RemoveLedger
<1>2. life \in Nat /\ MaxLives \in Nat /\ MaxEvents \in Nat /\ life' \in 0..MaxLives
  BY <1>1, BoundAssumption DEF IInv
<1>3. LedgerOk(log', proj') /\ Settled(log') /\ Len(log') <= MaxEvents
  BY <1>1, <1>2, EmptyOk
<1>4. ReaderOk'
  BY <1>1, <1>2 DEF IInv, ReaderOk
<1>5. \A d \in deleting' : d.life \in Nat /\ d.life <= life'
  BY <1>1, <1>2 DEF IInv
<1>6. reader' = [k \in Client |-> reader'[k]]
  BY <1>1 DEF IInv
<1> QED
  <2>1. life' # life
    BY <1>1, <1>2
  <2> QED
    BY <1>1, <1>2, <1>3, <1>4, <1>5, <1>6, <2>1 DEF IInv, OnlyLater

----------------------------------------------------------------------------
(* Snapshots, compactions, recoveries and the end of a session *)

(* The last event of a transaction behind a boundary.                        *)
LEMMA BoundarySound ==
  ASSUME IInv, NEW t, Sound(t), t.proj.enabled, CurrentActions(t.proj) = {},
         NEW e, e.type \in Boundary, e.uses = {},
         LegalSnapshot(t.proj, e), LegalHistory(t.log, e)
  PROVE  Sound(Put(t, e))
<1>1. LegalOff(t.log, t.proj, e) /\ LegalWorkspace(t.proj, e) /\ LegalBoundary(t.proj, e)
  BY DEF LegalOff, LegalWorkspace, LegalBoundary, Boundary, Sound
<1>2. e.type \in Plain
  BY DEF Boundary, Plain
<1>3. Legal(t.log, t.proj, e)
  BY <1>1, <1>2, PlainLegal
<1> QED
  BY <1>3, PutSound DEF Sound

(* A snapshot, behind the workspace and the expiry.                        *)
LEMMA CreateSnapshotStep ==
  ASSUME IInv, NEW w \in Workspace, NEW trigger, CreateSnapshot(w, trigger)
  PROVE  IInv' /\ OnlyLater
<1> DEFINE r == WithWorkspace(Now, w)
           t == WithExpiry(r)
           e == [type |-> "snapshot", uses |-> {}, trigger |-> trigger,
                 workspace |-> w, generation |-> t.proj.generation,
                 digest |-> Digest(t.proj), sequence |-> Len(t.log)]
<1>1. proj.enabled /\ Commit(Put(t, e))
  BY DEF CreateSnapshot
<1>2. Sound(r) /\ r.proj.enabled
  BY <1>1, NowSound, WorkspaceSound
<1> HIDE DEF r
<1>3. Sound(t) /\ t.proj.enabled /\ CurrentActions(t.proj) = {}
  BY <1>2, ExpirySound
<1> HIDE DEF t
<1>4. e.type = "snapshot" /\ e.uses = {} /\ e.generation = t.proj.generation
      /\ e.digest.generation = t.proj.generation /\ e.digest.pending = t.proj.pending
  BY DEF Digest
<1> HIDE DEF e
<1>5. LegalSnapshot(t.proj, e) /\ LegalHistory(t.log, e)
  BY <1>4 DEF LegalSnapshot, LegalHistory
<1>6. Sound(Put(t, e))
  BY <1>3, <1>4, <1>5, BoundarySound DEF Boundary
<1> QED
  BY <1>1, <1>6, CommitStep

(* A compaction, matched against the snapshot.                             *)
LEMMA MarkCompactionStep ==
  ASSUME IInv, NEW trigger, NEW file, MarkCompaction(trigger, file)
  PROVE  IInv' /\ OnlyLater
<1> DEFINE snap == proj.snapshot
           matched == Matches(snap, trigger, file)
           e == [type |-> "compaction", uses |-> {}, trigger |-> trigger, matched |-> matched,
                 sequence |-> IF matched THEN snap.sequence ELSE 0]
<1>1. proj.enabled /\ Commit(Put(Now, e))
  BY DEF MarkCompaction
<1>2. e.type = "compaction" /\ e.uses = {} /\ e.trigger = trigger /\ e.matched = matched
      /\ (matched => e.sequence = snap.sequence)
  OBVIOUS
<1> HIDE DEF e
<1>3. CompactionAt(log, Len(log) + 1, e)
  <2> SUFFICES ASSUME matched
               PROVE  \E s \in DOMAIN log :
                        /\ log[s].type = "snapshot"
                        /\ s < Len(log) + 1 /\ log[s].trigger = e.trigger /\ log[s].sequence = e.sequence
                        /\ \A k \in s..((Len(log) + 1) - 1) : log[k].type \notin Forgetting
    BY <1>2 DEF CompactionAt
  <2>1. snap # Null /\ snap.trigger = trigger
    BY DEF Matches, Readable
  <2>2. PICK s \in DOMAIN log : SnapshotAt(log, proj, s)
    BY <2>1 DEF IInv, LedgerOk, SnapshotOk
  <2>3. Len(log) \in Nat /\ DOMAIN log = 1..Len(log)
    BY DEF IInv, LedgerOk, IsLog
  <2>4. log[s] = snap /\ log[s].type = "snapshot" /\ \A k \in s..Len(log) : log[k].type \notin Forgetting
    BY <2>2 DEF SnapshotAt
  <2> HIDE DEF snap, matched
  <2> QED
    BY <1>2, <2>1, <2>3, <2>4
<1> QED
  BY <1>1, <1>2, <1>3, PlainStep DEF LegalHistory

(* The end of a session.                                                   *)
LEMMA SessionEndStep ==
  ASSUME IInv, NEW w \in Workspace \cup {Null}, SessionEnd(w)
  PROVE  IInv' /\ OnlyLater
<1> DEFINE r == IF w = Null THEN Now ELSE WithWorkspace(Now, w)
           t == WithExpiry(r)
           e == Event("session_ended", {})
<1>1. proj.enabled /\ Commit(Put(t, e))
  BY DEF SessionEnd
<1>2. Sound(r) /\ r.proj.enabled
  <2>1. Sound(Now) /\ Now.proj.enabled
    BY <1>1, NowSound
  <2>2. CASE w = Null
    BY <2>1, <2>2
  <2>3. CASE w # Null
    BY <2>1, <2>3, WorkspaceSound
  <2> QED
    BY <2>2, <2>3
<1> HIDE DEF r
<1>3. Sound(t) /\ t.proj.enabled /\ CurrentActions(t.proj) = {}
  BY <1>2, ExpirySound
<1> HIDE DEF t
<1>4. e.type = "session_ended" /\ e.uses = {}
  BY DEF Event
<1> HIDE DEF e
<1>5. LegalSnapshot(t.proj, e) /\ LegalHistory(t.log, e)
  BY <1>4 DEF LegalSnapshot, LegalHistory
<1>6. Sound(Put(t, e))
  BY <1>3, <1>4, <1>5, BoundarySound DEF Boundary
<1> QED
  BY <1>1, <1>6, CommitStep

(* Findings that leave a compacted task its quiet recovery: nothing has      *)
(* changed since the snapshot.                                               *)
LEMMA QuietSinceSnapshot ==
  ASSUME NEW l, NEW p, LedgerOk(l, p), NEW w, NEW file, NEW t, t.log = l, t.proj = p,
         SnapshotFindings(t, "compact", w, file) \cap {"high", "newer"} = {}
  PROVE  /\ CurrentActions(p) = {}
         /\ QuietAt(l, Len(l) + 1, [source |-> "compact", class |-> "equivalent"])
<1> DEFINE snap == p.snapshot
<1>1. Readable(snap, file) /\ Compared(t, snap) \cap {"high", "newer"} = {}
  BY DEF SnapshotFindings
<1>2. snap # Null
  BY <1>1 DEF Readable
<1>3. ~(p.generation > snap.generation) /\ Digest(p) = snap.digest
  BY <1>1 DEF Compared
<1>4. PICK s \in DOMAIN l : SnapshotAt(l, p, s)
  BY <1>2 DEF LedgerOk, SnapshotOk
<1>5. Len(l) \in Nat /\ DOMAIN l = 1..Len(l) /\ s \in 1..Len(l)
  BY DEF LedgerOk, IsLog
<1>6. l[s] = snap /\ l[s].type = "snapshot" /\ l[s].generation = Gen(l, s + 1)
      /\ \A x \in l[s].digest.pending : x.prompt < s
  BY <1>4 DEF SnapshotAt
<1>7. p.generation = Gen(l, Len(l) + 1)
  BY DEF LedgerOk, Counted
<1>8. Gen(l, s + 1) \in Nat /\ Gen(l, Len(l) + 1) \in Nat
  <2>1. s \in Nat
    BY <1>5
  <2> QED
    BY <1>5, <2>1, GenNat
<1>9. Gen(l, Len(l) + 1) <= Gen(l, s + 1)
  BY <1>3, <1>6, <1>7, <1>8
<1>10. \A k \in (s + 1)..Len(l) : ~Bumps(l[k])
  BY <1>5, <1>9, SameGenNoBump
<1>11. CurrentActions(p) = {} /\ \A k \in (s + 1)..Len(l) : l[k].type # "revalidate"
  BY <1>4, <1>10 DEF SnapshotAt
<1>12. ASSUME NEW k \in (s + 1)..Len(l), l[k].type = "prompt" PROVE l[k].signals = {}
  <2> SUFFICES ASSUME l[k].signals # {} PROVE FALSE
    OBVIOUS
  <2>1. k \in PromptsOf(l)
    BY <1>5, <1>12 DEF PromptsOf
  <2>2. [prompt |-> k, signals |-> l[k].signals] \in p.pending
    <3>1. \A m \in (k + 1)..Len(l) : ~Bumps(l[m])
      BY <1>5, <1>10
    <3> QED
      BY <2>1, <3>1 DEF LedgerOk, SignalsOpen
  <2>3. p.pending = l[s].digest.pending
    BY <1>3, <1>6 DEF Digest
  <2>4. k < s
    BY <1>6, <2>2, <2>3
  <2> QED
    BY <1>5, <2>4
<1>13. (Len(l) + 1) - 1 = Len(l) /\ s < Len(l) + 1
  BY <1>5
<1>14. \A k \in (s + 1)..((Len(l) + 1) - 1) :
         ~Bumps(l[k]) /\ l[k].type # "revalidate" /\ (l[k].type = "prompt" => l[k].signals = {})
  BY <1>10, <1>11, <1>12, <1>13
<1> QED
  BY <1>6, <1>11, <1>13, <1>14 DEF QuietAt

(* A task with state and no current action is not recovered in silence.      *)
LEMMA GapsAreNamed ==
  ASSUME NEW p, p.generation > 0, CurrentActions(p) = {}
  PROVE  "medium" \in Gaps(p) \/ "high" \in Gaps(p)
<1>1. CASE ~(Has(p, "work_object") /\ Has(p, "next_action"))
  BY <1>1 DEF Gaps
<1>2. CASE Has(p, "next_action")
  <2>1. PICK i \in Active(p) : p.items[i].kind = "next_action"
    BY <1>2 DEF Has, ActiveItems
  <2> DEFINE item == p.items[i]
  <2>2. item.kind = "next_action" /\ item.verification \in {"stale", "unavailable"}
    BY <2>1 DEF CurrentActions, Current
  <2>3. ItemGap(item) \in Gaps(p)
    BY <2>1 DEF Gaps, ActiveItems
  <2> HIDE DEF item
  <2>4. ItemGap(item) \in {"medium", "high"}
    <3>1. CASE item.status = "disputed"
      BY <2>2, <3>1 DEF ItemGap, HighRiskKinds
    <3>2. CASE item.status # "disputed"
      BY <2>2, <3>2 DEF ItemGap, HighRiskKinds
    <3> QED
      BY <3>1, <3>2
  <2> QED
    BY <2>3, <2>4
<1> QED
  BY <1>1, <1>2

(* A recovery, audited unless the ledger is full.                          *)
LEMMA RecoverStep ==
  ASSUME IInv, NEW source, NEW w \in Workspace, NEW file, NEW omitted \in BOOLEAN,
         Recover(source, w, file, omitted)
  PROVE  IInv' /\ OnlyLater
<1> DEFINE r == WithExpiry(Now)
           t == WithWorkspace(r, w)
           found == SnapshotFindings(Now, source, w, file)
           findings == found \cup Gaps(proj) \cup Gaps(t.proj)
                       \cup (IF Durable THEN {} ELSE {"high"}) \cup (IF omitted THEN {"high"} ELSE {})
           e == [type |-> "restore", uses |-> {}, source |-> source,
                 class |-> Classification(findings)]
<1>1. proj.enabled /\ Commit(IF Len(t.log) < MaxEvents THEN Put(t, e) ELSE t)
  BY DEF Recover
<1>2. Sound(Now) /\ Now.log = log /\ Now.proj = proj
  BY NowSound
<1>3. Sound(r) /\ r.proj.enabled /\ CurrentActions(r.proj) = {}
      /\ (CurrentActions(proj) = {} => r = Now)
  BY <1>1, <1>2, ExpirySound
<1> HIDE DEF r
<1>4. Sound(t) /\ t.proj.enabled /\ CurrentActions(t.proj) = {}
      /\ (t.log = r.log \/ \E x : x.type = "workspace" /\ Grown(r.log, t.log, x))
  BY <1>3, WorkspaceSound
<1> HIDE DEF t, found
<1>5. e.type = "restore" /\ e.uses = {} /\ e.source = source /\ e.class = Classification(findings)
  OBVIOUS
<1>6. found \subseteq findings /\ Gaps(t.proj) \subseteq findings
  OBVIOUS
<1> HIDE DEF e, findings
<1>7. QuietAt(t.log, Len(t.log) + 1, e)
  <2> SUFFICES ASSUME source = "compact", e.class \in {"equivalent", "continue_with_markers"}
               PROVE  QuietAt(t.log, Len(t.log) + 1, e)
    BY <1>5 DEF QuietAt
  <2>1. "high" \notin found /\ "newer" \notin found
    BY <1>5, <1>6 DEF Classification
  <2>2. CurrentActions(proj) = {} /\ QuietAt(log, Len(log) + 1, [source |-> "compact", class |-> "equivalent"])
    BY <1>2, <2>1, QuietSinceSnapshot DEF IInv, found
  <2>3. r.log = log
    BY <1>2, <1>3, <2>2
  <2>4. PICK s \in DOMAIN log : log[s].type = "snapshot" /\ s < Len(log) + 1
          /\ \A k \in (s + 1)..((Len(log) + 1) - 1) :
               /\ ~Bumps(log[k]) /\ log[k].type # "revalidate"
               /\ log[k].type = "prompt" => log[k].signals = {}
    BY <2>2 DEF QuietAt
  <2>5. CASE t.log = log
    BY <2>4, <2>5 DEF QuietAt
  <2>6. CASE t.log # log
    <3>1. PICK x : x.type = "workspace" /\ Grown(log, t.log, x)
      BY <1>4, <2>3, <2>6
    <3>2. /\ Len(log) \in Nat /\ t.log[Len(log) + 1] = x /\ Len(t.log) = Len(log) + 1
          /\ DOMAIN t.log = 1..(Len(log) + 1) /\ DOMAIN log = 1..Len(log)
          /\ \A n \in 1..Len(log) : t.log[n] = log[n]
      BY <3>1 DEF Grown
    <3>3. s \in DOMAIN t.log /\ t.log[s].type = "snapshot" /\ s < Len(t.log) + 1
      BY <2>4, <3>2
    <3>4. ASSUME NEW k \in (s + 1)..((Len(t.log) + 1) - 1)
          PROVE  /\ ~Bumps(t.log[k]) /\ t.log[k].type # "revalidate"
                 /\ t.log[k].type = "prompt" => t.log[k].signals = {}
      <4>1. CASE k = Len(log) + 1
        BY <3>1, <3>2, <4>1 DEF Bumps
      <4>2. CASE k \in (s + 1)..Len(log)
        <5>1. k \in 1..Len(log) /\ k \in (s + 1)..((Len(log) + 1) - 1)
          BY <2>4, <3>2, <4>2
        <5> QED
          BY <2>4, <3>2, <5>1
      <4> QED
        BY <3>2, <4>1, <4>2
    <3> QED
      BY <3>3, <3>4 DEF QuietAt
  <2> QED
    BY <2>5, <2>6
<1>8. MarkedAt(t.log, Len(t.log) + 1, e)
  <2> SUFFICES ASSUME Gen(t.log, Len(t.log) + 1) > 0 PROVE e.class # "equivalent"
    BY DEF MarkedAt
  <2>1. t.proj.generation > 0
    BY <1>4 DEF Sound, Going, LedgerOk, Counted
  <2>2. "medium" \in findings \/ "high" \in findings
    BY <1>4, <1>6, <2>1, GapsAreNamed
  <2> QED
    BY <1>5, <2>2 DEF Classification
<1>9. LegalSnapshot(t.proj, e) /\ LegalHistory(t.log, e)
  BY <1>5, <1>7, <1>8 DEF LegalSnapshot, LegalHistory
<1>10. Sound(Put(t, e))
  BY <1>4, <1>5, <1>9, BoundarySound DEF Boundary
<1> QED
  BY <1>1, <1>4, <1>10, CommitStep

----------------------------------------------------------------------------
(* The invariant is one of the specification *)

(* The invariant holds initially.                                          *)
LEMMA InitOk == Init => IInv
<1> SUFFICES ASSUME Init PROVE IInv
  OBVIOUS
<1>1. log = <<>> /\ proj = Empty /\ life = 0 /\ reader = [k \in Client |-> View] /\ deleting = {}
  BY DEF Init
<1>2. LedgerOk(log, proj) /\ Settled(log) /\ Len(log) <= MaxEvents /\ life \in 0..MaxLives
  BY <1>1, EmptyOk, BoundAssumption
<1>3. View.life = life /\ View.generation = proj.generation /\ proj.generation \in Nat
  BY <1>2, GenerationNat DEF View
<1>4. ReaderOk
  BY <1>1, <1>3 DEF ReaderOk
<1> QED
  BY <1>1, <1>2, <1>4 DEF IInv

(* Every step keeps it, and within a life leads to a later projection of a *)
(* longer ledger.                                                          *)
LEMMA NextKeeps ==
  ASSUME IInv, [Next]_vars
  PROVE  IInv' /\ OnlyLater
<1>1. ASSUME NEW text \in Typed, NEW w \in Workspace, ObservePrompt(text, w)
      PROVE  IInv' /\ OnlyLater
  BY <1>1, ObservePromptStep
<1>2. ASSUME NEW k \in Client, GetState(k)
      PROVE  IInv' /\ OnlyLater
  BY <1>2, GetStateStep
<1>3. ASSUME NEW k \in Client, NEW b \in Batches, NEW c \in Prompts \cup {Null},
             NEW R \in Resolvable(Prompts), NEW provider \in {"standalone", "verified-evidence"},
             RecordState(k, b, provider, c, R)
      PROVE  IInv' /\ OnlyLater
  BY <1>3, RecordStateStep
<1>4. ASSUME NEW k \in Client, NEW b \in Batches, NEW c \in Prompts \cup {Null},
             NEW R \in Resolvable(Prompts), CorrectState(k, b, c, R)
      PROVE  IInv' /\ OnlyLater
  <2>1. RecordState(k, b, "standalone", c, R)
    BY <1>4 DEF CorrectState
  <2> QED
    BY <2>1, RecordStateStep
<1>5. ASSUME NEW k \in Client, NEW b \in Batches, NEW R \in Resolvable(Prompts),
             NEW v \in 1..MaxVersion, NEW ref \in ContractRef, BindContract(k, ref, v, b, R)
      PROVE  IInv' /\ OnlyLater
  BY <1>5, BindContractStep
<1>6. ASSUME ClearTask PROVE IInv' /\ OnlyLater
  BY <1>6, ClearTaskStep
<1>7. ASSUME ObserveSubagentResult \/ \E k \in Client : ImportHandoff(k) PROVE IInv' /\ OnlyLater
  BY <1>7, CandidatesStep
<1>8. ASSUME NEW a \in ManagedActions, NEW c \in Prompts, Prepare(a, c) PROVE IInv' /\ OnlyLater
  BY <1>8, PrepareStep
<1>9. ASSUME NEW c \in Prompts, ManageReset(c) PROVE IInv' /\ OnlyLater
  BY <1>9, ManageResetStep
<1>10. ASSUME NEW a \in {"on", "off"}, NEW c \in Prompts, ManageOnOff(a, c) PROVE IInv' /\ OnlyLater
  BY <1>10, ManageOnOffStep
<1>11. ASSUME NEW c \in Prompts, ValidateDelete(c) PROVE IInv' /\ OnlyLater
  BY <1>11, ValidateDeleteStep
<1>12. ASSUME NEW d \in deleting, CarryOutDelete(d) PROVE IInv' /\ OnlyLater
  BY <1>12, RemoveStep DEF CarryOutDelete
<1>13. ASSUME NEW a \in {"on", "off"}, CliOnOff(a) PROVE IInv' /\ OnlyLater
  BY <1>13, CliOnOffStep
<1>14. ASSUME CliRemove PROVE IInv' /\ OnlyLater
  BY <1>14, RemoveStep DEF CliRemove
<1>15. ASSUME NEW w \in Workspace, NEW g \in Triggers, CreateSnapshot(w, g) PROVE IInv' /\ OnlyLater
  BY <1>15, CreateSnapshotStep
<1>16. ASSUME NEW g \in Triggers, NEW file \in FileStates, MarkCompaction(g, file) PROVE IInv' /\ OnlyLater
  BY <1>16, MarkCompactionStep
<1>17. ASSUME NEW source \in {"compact", "resume"}, NEW w \in Workspace, NEW file \in FileStates,
              NEW omitted \in BOOLEAN, Recover(source, w, file, omitted)
       PROVE  IInv' /\ OnlyLater
  BY <1>17, RecoverStep
<1>18. ASSUME NEW w \in Workspace \cup {Null}, SessionEnd(w) PROVE IInv' /\ OnlyLater
  BY <1>18, SessionEndStep
<1>19. ASSUME UNCHANGED vars PROVE IInv' /\ OnlyLater
  <2>1. View' = View
    BY <1>19 DEF vars, View
  <2>2. log' = log /\ proj' = proj /\ life' = life /\ reader' = reader /\ deleting' = deleting
    BY <1>19 DEF vars
  <2>3. ReaderOk'
    BY <2>1, <2>2 DEF IInv, ReaderOk
  <2>4. Extends(log, log') /\ deleting' \subseteq deleting
    BY <2>2, NowSound DEF Sound, Going
  <2> QED
    BY <2>2, <2>3, <2>4, LaterSame DEF IInv, OnlyLater
<1>20. CASE Next
  BY <1>1, <1>2, <1>3, <1>4, <1>5, <1>6, <1>7, <1>8, <1>9, <1>10, <1>11, <1>12, <1>13, <1>14,
     <1>15, <1>16, <1>17, <1>18, <1>20 DEF Next, Writes, ReadsAndRemovals
<1> QED
  BY <1>19, <1>20

(* Every reachable state is one whose ledger and projection agree as       *)
(* LedgerOk says, whose readers have read an earlier or the present state  *)
(* (service.mjs, model.mjs).                                               *)
THEOREM Invariant == Spec => []IInv
<1>1. IInv /\ [Next]_vars => IInv'
  BY NextKeeps
<1> QED
  BY InitOk, <1>1, PTL DEF Spec

----------------------------------------------------------------------------
(* What follows from it *)

(* The ledger is a sequence.                                               *)
LEMMA LogShape ==
  ASSUME IInv
  PROVE  Len(log) \in Nat /\ DOMAIN log = 1..Len(log)
BY DEF IInv, LedgerOk, IsLog

(* Every reachable state is of its type; what is pending has not been      *)
(* used, and an outstanding challenge is an event of the ledger            *)
(* (model.mjs:312-437).                                                    *)
THEOREM TypeCorrect == Spec => []TypeOK
<1>1. ASSUME IInv PROVE TypeOK
  <2>1. life \in 0..MaxLives /\ Len(log) <= MaxEvents /\ \A d \in deleting : d.life <= life
    BY <1>1 DEF IInv
  <2>2. LedgerOk(log, proj)
    BY <1>1 DEF IInv
  <2>3. proj.generation \in 0..MaxEvents
    BY <2>1, <2>2, GenerationNat, BoundAssumption
  <2>4. /\ proj.enabled \in BOOLEAN /\ proj.lifecycle \in {"active", "cleared"}
        /\ proj.workspace \in Workspace \cup {Null} /\ Cardinality(Active(proj)) <= MaxActive
    BY <2>2 DEF LedgerOk, Kinds
  <2>5. proj.contract.source \in {"standalone", "user-intent-plugin"}
    BY <2>2 DEF LedgerOk, ContractOk, Bound
  <2>6. \A i \in DOMAIN proj.items : proj.items[i] \in Item /\ proj.items[i].id = i
    BY <2>2 DEF LedgerOk, IsProjection, IsItems, ItemsOk
  <2>7. DOMAIN proj.items \subseteq ItemId /\ proj.active \subseteq DOMAIN proj.items
    <3>1. \A item \in Item : item.id \in ItemId
      BY DEF Item
    <3> QED
      BY <2>2, <2>6, <3>1 DEF LedgerOk, ItemsOk
  <2>8. \A s \in proj.pending : s.prompt \in Prompts \ Consumed
    BY <2>2 DEF LedgerOk, PendingOk, Prompts, Consumed
  <2>9. \A a \in ManagedActions : proj.challenges[a] = Null
          \/ \E n \in Events("challenge") : proj.challenges[a] = log[n] /\ log[n].action = a
    BY <2>2 DEF LedgerOk, ChallengesOk, Outstanding, Events
  <2> QED
    BY <2>1, <2>3, <2>4, <2>5, <2>6, <2>7, <2>8, <2>9 DEF TypeOK
<1> QED
  BY Invariant, <1>1, PTL

(* No two events use one user message, but for the re-issue of a request's *)
(* own challenge (service.mjs:95-116, 1213).                               *)
THEOREM PromptsAuthorizeOnce == Spec => []PromptAuthorizesOnce
<1>1. ASSUME IInv PROVE PromptAuthorizesOnce
  BY <1>1 DEF IInv, LedgerOk, Once, PromptAuthorizesOnce
<1> QED
  BY Invariant, <1>1, PTL

(* Whatever state carries the user's authority, the user has confirmed, at *)
(* the generation it replaced (service.mjs:212-264).                       *)
THEOREM UserStateConfirmed == Spec => []UserStateIsConfirmed
<1>1. ASSUME IInv PROVE UserStateIsConfirmed
  <2>1. \A n : GenerationBefore(n) = Gen(log, n)
    BY DEF GenerationBefore, Gen, Bumped
  <2>2. AllConfirmed(log)
    BY <1>1 DEF IInv, LedgerOk
  <2> QED
    BY <2>1, <2>2 DEF AllConfirmed, ConfirmedItem, UserStateIsConfirmed, Events, Prompts
<1> QED
  BY Invariant, <1>1, PTL

(* While a generation that a client has read is still the present one, the *)
(* state it has read is, too: validateExpectedGeneration refuses every     *)
(* other write (model.mjs:312-437).                                        *)
THEOREM GenerationIsOneState == Spec => []SameGenerationSameState
<1>1. ASSUME IInv PROVE SameGenerationSameState
  BY <1>1 DEF IInv, ReaderOk, SameGenerationSameState, Unchanged
<1> QED
  BY Invariant, <1>1, PTL

(* No step of a task's life changes what an item says, renews it or brings *)
(* it back (model.mjs:661-670).                                            *)
THEOREM ItemsAge == Spec => ItemsOnlyAge
<1>1. ASSUME IInv, [Next]_vars
      PROVE  [life' = life =>
                /\ DOMAIN proj.items \subseteq DOMAIN proj'.items
                /\ \A i \in DOMAIN proj.items : OnlyAges(proj.items[i], proj'.items[i])
                /\ \A i \in DOMAIN proj.items : i \notin Active(proj) => i \notin Active(proj')]_vars
  <2> SUFFICES ASSUME life' = life
               PROVE  /\ DOMAIN proj.items \subseteq DOMAIN proj'.items
                      /\ \A i \in DOMAIN proj.items : OnlyAges(proj.items[i], proj'.items[i])
                      /\ \A i \in DOMAIN proj.items : i \notin Active(proj) => i \notin Active(proj')
    OBVIOUS
  <2>1. IInv' /\ Aged(proj, proj')
    BY <1>1, NextKeeps DEF OnlyLater, Later
  <2>2. ItemsOk(proj) /\ IsItems(proj.items) /\ IsItems(proj'.items)
    BY <1>1, <2>1 DEF IInv, LedgerOk, IsProjection
  <2>3. ASSUME NEW i \in DOMAIN proj.items PROVE OnlyAges(proj.items[i], proj'.items[i])
    <3> DEFINE old == proj.items[i]
               new == proj'.items[i]
    <3>1. old \in Item /\ new \in Item /\ Older(old, new)
      BY <2>1, <2>2 DEF Aged, IsItems
    <3> HIDE DEF old, new
    <3>2. OnlyAges(old, new)
      BY <3>1 DEF Item, Older, SameMeaning, OnlyAges
    <3> QED
      BY <3>2 DEF old, new
  <2>4. ASSUME NEW i \in DOMAIN proj.items, i \notin Active(proj) PROVE i \notin Active(proj')
    <3>1. proj.items[i].status = "superseded"
      BY <2>2, <2>4 DEF ItemsOk, InForce, Active
    <3>2. proj'.items[i].status = "superseded"
      BY <2>1, <3>1 DEF Aged, Older
    <3> QED
      BY <3>2 DEF Active
  <2> QED
    BY <2>1, <2>3, <2>4 DEF Aged
<1> QED
  BY Invariant, <1>1, PTL DEF Spec, ItemsOnlyAge

(* No item supersedes one of higher authority (model.mjs:477), if no batch *)
(* gives two of its items one identifier: the run twin_items shows what    *)
(* happens otherwise.                                                      *)
THEOREM AuthorityIsKept ==
  ASSUME \A b \in Batches : \A j, k \in 1..Len(b) : b[j].id = b[k].id => j = k
  PROVE  Spec => []AuthorityOrder
<1>0. DistinctBatches
  BY DEF DistinctBatches, Distinct
<1>1. ASSUME IInv PROVE AuthorityOrder
  BY <1>0, <1>1 DEF IInv, LedgerOk, ByOrder, AuthorityOrder
<1> QED
  BY Invariant, <1>1, PTL

(* What counts as verified was recorded in the workspace last seen         *)
(* (model.mjs:293).                                                        *)
THEOREM EvidenceStaysCurrent == Spec => []EvidenceIsCurrent
<1>1. ASSUME IInv PROVE EvidenceIsCurrent
  BY <1>1 DEF IInv, LedgerOk, EvidenceOk, RecordedSince, EvidenceIsCurrent, Events, RecordsOf, Writing
<1> QED
  BY Invariant, <1>1, PTL

(* No planned action is current behind a snapshot, a recovery or the end   *)
(* of a session (service.mjs, expireNextActions).                          *)
THEOREM BoundariesExpire == Spec => []BoundariesExpireActions
<1>1. ASSUME IInv PROVE BoundariesExpireActions
  BY <1>1 DEF IInv, LedgerOk, ActionsOk, RecordedSince, BoundariesExpireActions, Events, RecordsOf,
     Writing, Boundary
<1> QED
  BY Invariant, <1>1, PTL

(* The intent in force is that of the bound contract, whose version only   *)
(* goes up (service.mjs:775-800).                                          *)
THEOREM IntentOfContract == Spec => []IntentIsTheContracts
<1>1. ASSUME IInv PROVE IntentIsTheContracts
  BY <1>1 DEF IInv, LedgerOk, IntentOk, VersionsRise, IntentIsTheContracts, Events, Bound, Forgetting
<1> QED
  BY Invariant, <1>1, PTL

(* A task that is off records nothing but its way back on, and a reset     *)
(* confirmed before (service.mjs:433).                                     *)
THEOREM OffRecordsNothing == Spec => []NothingWhileOff
<1>1. ASSUME IInv PROVE NothingWhileOff
  <2>1. \A n : OnBefore(n) <=> On(log, n)
    BY DEF OnBefore, On, Switches, SwitchesOf
  <2>2. OffOnly(log) /\ Settled(log)
    BY <1>1 DEF IInv, LedgerOk
  <2>3. \A n \in DOMAIN log : n < Len(log) \/ n = Len(log)
    BY <1>1, LogShape
  <2> QED
    BY <2>1, <2>2, <2>3 DEF OffOnly, Settled, NothingWhileOff
<1> QED
  BY Invariant, <1>1, PTL

(* Every action taken through MCP answers a challenge of its own with a    *)
(* second message (service.mjs:1169-1278).                                 *)
THEOREM ActionsTakeTwoMessages == Spec => []TwoMessagesPerAction
<1>1. ASSUME IInv PROVE TwoMessagesPerAction
  BY <1>1 DEF IInv, LedgerOk, Two, TwoAt, TwoMessagesPerAction, Events, Prompts
<1> QED
  BY Invariant, <1>1, PTL

(* A recovery that continues unasked behind a compaction has missed        *)
(* nothing since the snapshot (recovery.mjs:116-222).                      *)
THEOREM QuietRecovery == Spec => []QuietRecoveryFoundNoChange
<1>1. ASSUME IInv PROVE QuietRecoveryFoundNoChange
  BY <1>1 DEF IInv, LedgerOk, HistoryOk, QuietAt, QuietRecoveryFoundNoChange, Events
<1> QED
  BY Invariant, <1>1, PTL

(* A confirmed compaction has its snapshot, of its own trigger and not yet *)
(* forgotten (service.mjs:873-906).                                        *)
THEOREM CompactionConfirmed == Spec => []ConfirmedCompactionHasSnapshot
<1>1. ASSUME IInv PROVE ConfirmedCompactionHasSnapshot
  <2>1. HistoryOk(log) /\ Len(log) \in Nat /\ DOMAIN log = 1..Len(log)
    BY <1>1, LogShape DEF IInv, LedgerOk
  <2> SUFFICES ASSUME NEW n \in Events("compaction"), log[n].matched
               PROVE  \E s \in Events("snapshot") :
                        /\ s < n /\ log[s].trigger = log[n].trigger /\ log[s].sequence = log[n].sequence
                        /\ \A k \in s..n : log[k].type \notin {"cleared", "reset"}
    BY DEF ConfirmedCompactionHasSnapshot
  <2>2. PICK s \in DOMAIN log :
          /\ log[s].type = "snapshot"
          /\ s < n /\ log[s].trigger = log[n].trigger /\ log[s].sequence = log[n].sequence
          /\ \A k \in s..(n - 1) : log[k].type \notin Forgetting
    BY <2>1 DEF HistoryOk, CompactionAt, Events
  <2>3. log[n].type = "compaction" /\ n \in 1..Len(log) /\ s \in 1..Len(log)
    BY <2>1 DEF Events
  <2>4. \A k \in s..n : k \in s..(n - 1) \/ k = n
    BY <2>1, <2>3
  <2>5. \A k \in s..n : log[k].type \notin {"cleared", "reset"}
    BY <2>2, <2>3, <2>4 DEF Forgetting
  <2> QED
    BY <2>2, <2>5 DEF Events
<1> QED
  BY Invariant, <1>1, PTL

(* No task with state is recovered in silence (recovery.mjs:116-222).      *)
THEOREM StatefulRecovery == Spec => []StatefulRecoveryIsMarked
<1>1. ASSUME IInv PROVE StatefulRecoveryIsMarked
  BY <1>1 DEF IInv, LedgerOk, HistoryOk, MarkedAt, StatefulRecoveryIsMarked, Events, GenerationBefore, Gen, Bumped
<1> QED
  BY Invariant, <1>1, PTL

----------------------------------------------------------------------------
(* Deletions that are validated and not yet carried out *)

(* What a deletion rests on: a challenge, its request and its confirmation.  *)
RestsOn(l, d, i) ==
  /\ i \in DOMAIN l /\ d.prompt \in PromptsOf(l)
  /\ i < d.prompt /\ d.prompt <= i + ChallengeWindow
  /\ l[i].type = "challenge" /\ l[i].action = "delete" /\ l[i].prompt \in DOMAIN l
  /\ "management_delete" \in l[l[i].prompt].signals
  /\ l[d.prompt].text = ConfirmText("delete", l[i].token)
  /\ \A k \in (i + 1)..d.prompt :
       /\ l[k].type \notin Forgetting
       /\ l[k].type = "challenge" => l[k].action # "delete"

(* It rests on that however much the ledger grows.                           *)
LEMMA RestsKept ==
  ASSUME NEW l, NEW m, IsLog(l), IsLog(m), Extends(l, m), NEW d, NEW i, RestsOn(l, d, i)
  PROVE  RestsOn(m, d, i)
<1>1. /\ Len(l) \in Nat /\ Len(m) \in Nat /\ Len(l) <= Len(m)
      /\ DOMAIN l = 1..Len(l) /\ DOMAIN m = 1..Len(m)
      /\ \A n \in 1..Len(l) : m[n] = l[n]
  BY DEF IsLog, Extends
<1>2. i \in 1..Len(l) /\ d.prompt \in 1..Len(l) /\ l[i].prompt \in 1..Len(l)
  BY <1>1 DEF RestsOn, PromptsOf
<1>3. i \in DOMAIN m /\ d.prompt \in PromptsOf(m) /\ l[i].prompt \in DOMAIN m
  BY <1>1, <1>2 DEF RestsOn, PromptsOf
<1>4. \A k \in (i + 1)..d.prompt : m[k] = l[k]
  BY <1>1, <1>2
<1>5. m[i] = l[i] /\ m[d.prompt] = l[d.prompt] /\ m[l[i].prompt] = l[l[i].prompt]
  BY <1>1, <1>2
<1> QED
  BY <1>3, <1>4, <1>5 DEF RestsOn

(* A deletion that has been validated rests on the outstanding challenge.    *)
LEMMA ValidatedRests ==
  ASSUME IInv, NEW c, ValidateDelete(c)
  PROVE  RestsOn(log, [life |-> life, prompt |-> c], proj.challenges["delete"].issued)
<1> DEFINE ch == proj.challenges["delete"]
           i == ch.issued
<1>1. /\ ch # Null /\ c \in PromptsOf(log) /\ InWindow(c, ch)
      /\ log[c].text = ConfirmText("delete", ch.token)
  BY DEF ValidateDelete, Confirmed, Prompts
<1>2. Len(log) \in Nat /\ DOMAIN log = 1..Len(log)
  BY LogShape
<1>3. Outstanding(log, ch, "delete")
  BY <1>1 DEF IInv, LedgerOk, ChallengesOk, ManagedActions
<1> HIDE DEF ch
<1>4. i \in 1..Len(log) /\ log[i] = ch /\ ch.type = "challenge" /\ ch.action = "delete"
  BY <1>2, <1>3 DEF Outstanding
<1>5. Issued(log, i, ch)
  BY <1>2, <1>4 DEF IInv, LedgerOk, AllIssued
<1>6. c \in 1..Len(log) /\ i < c /\ c <= i + ChallengeWindow
  BY <1>1, <1>2, <1>5 DEF Issued, InWindow, PromptsOf
<1>7. ch.prompt \in DOMAIN log /\ "management_delete" \in log[ch.prompt].signals
  BY <1>4, <1>5 DEF Issued, PromptsOf, RequiredSignal
<1>8. ASSUME NEW k \in (i + 1)..c
      PROVE  log[k].type \notin Forgetting /\ (log[k].type = "challenge" => log[k].action # "delete")
  <2>1. k \in (i + 1)..Len(log)
    BY <1>2, <1>4, <1>6
  <2> QED
    BY <1>3, <2>1 DEF Outstanding
<1>9. [life |-> life, prompt |-> c].prompt = c
  OBVIOUS
<1> QED
  BY <1>1, <1>4, <1>6, <1>7, <1>8, <1>9, <1>2 DEF RestsOn, ch

(* Every deletion of this life rests on a challenge.                         *)
DeletionsRest == \A d \in deleting : d.life = life => \E i : RestsOn(log, d, i)

(* A deletion that waits to be carried out was asked for and confirmed, in   *)
(* time and with no clear, reset or newer challenge between, whatever the    *)
(* others record while it waits (service.mjs:299-335, 1248-1253).            *)
THEOREM DeletionsAreConfirmed == Spec => []DeletionIsConfirmed
<1>1. Init => DeletionsRest
  BY DEF Init, DeletionsRest
<1>2. ASSUME IInv, DeletionsRest, [Next]_vars
      PROVE  DeletionsRest'
  <2>1. IInv' /\ OnlyLater
    BY <1>2, NextKeeps
  <2>2. IsLog(log) /\ IsLog(log')
    BY <1>2, <2>1 DEF IInv, LedgerOk
  <2>3. \A d \in deleting' : life' # life => d.life # life'
    <3>1. ASSUME life' # life PROVE deleting' \subseteq deleting /\ life' = life + 1
      BY <2>1, <3>1 DEF OnlyLater
    <3>2. \A d \in deleting : d.life \in Nat /\ d.life <= life
      BY <1>2 DEF IInv
    <3>3. life \in Nat
      BY <1>2, BoundAssumption DEF IInv
    <3> QED
      BY <3>1, <3>2, <3>3
  <2> SUFFICES ASSUME NEW d \in deleting', d.life = life'
               PROVE  \E i : RestsOn(log', d, i)
    BY DEF DeletionsRest
  <2>4. /\ life' = life /\ Extends(log, log')
        /\ deleting' \subseteq deleting \/ \E c : ValidateDelete(c)
    BY <2>1, <2>3 DEF OnlyLater
  <2>5. CASE d \in deleting
    <3>1. PICK i : RestsOn(log, d, i)
      BY <1>2, <2>4, <2>5 DEF DeletionsRest
    <3> QED
      BY <2>2, <2>4, <3>1, RestsKept
  <2>6. CASE d \notin deleting
    <3>1. PICK c : ValidateDelete(c)
      BY <2>4, <2>6
    <3>2. d = [life |-> life, prompt |-> c] /\ log' = log
      BY <2>6, <3>1 DEF ValidateDelete
    <3> QED
      BY <1>2, <3>1, <3>2, ValidatedRests
  <2> QED
    BY <2>5, <2>6
<1>3. DeletionsRest => DeletionIsConfirmed
  BY DEF DeletionsRest, RestsOn, DeletionIsConfirmed, Events, Prompts, Forgetting
<1> QED
  BY Invariant, InitOk, <1>1, <1>2, <1>3, PTL DEF Spec
=============================================================================
