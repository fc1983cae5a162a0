----------------------------- MODULE TaskService -----------------------------
(***************************************************************************)
(* The operations of service.mjs on one task's ledger: observing the       *)
(* user's prompts, recording and correcting state, binding an external     *)
(* intent contract, clearing.  The store runs one transaction at a time    *)
(* (LedgerStore), so a transaction is one step here; whatever a caller     *)
(* does in several calls, like reading a generation and writing with it,   *)
(* is several steps.                                                       *)
(***************************************************************************)
EXTENDS TaskProjection

CONSTANTS
  Client,          \* those that read the state and write with what they read
  Batches,         \* the item batches that clients send
  Words,           \* signals that the user's ordinary messages carry
  MaxActive,       \* MAX_ACTIVE_ITEMS
  MaxEvents,       \* MAX_EVENTS_PER_TASK
  ChallengeWindow, \* 20 events between a challenge and its confirmation
  MaxLives,        \* deletions and archivings considered (bound)
  MaxResolved,     \* prompts resolved by one write (bound)
  MaxVersion       \* versions of an external contract (bound)

ASSUME BoundAssumption ==
  /\ MaxActive \in Nat /\ MaxEvents \in Nat /\ ChallengeWindow \in Nat
  /\ MaxLives \in Nat /\ MaxResolved \in Nat /\ MaxVersion \in Nat

\* What a client sends of an item, when it is well formed.
StateInput == [id: ItemId, kind: IntentKinds \cup OperationalKinds, claim: Claim,
               authority: DOMAIN Rank, stamp: Nat, supersedes: SUBSET ItemId,
               verification: {"verified", "unverified", "stale", "unavailable"},
               status: {"active", "superseded", "disputed", "unverified"}]

ASSUME BatchAssumption == Batches \subseteq Seq(StateInput)

VARIABLES
  log,      \* the ledger's events
  proj,     \* the projection of log
  life,     \* how often the ledger has been deleted or archived
  reader,   \* what each client last read with get_state
  deleting  \* deletions validated and not yet carried out

vars == <<log, proj, life, reader, deleting>>

\* What a client sees of the state that it will overwrite.
View ==
  [life |-> life, generation |-> proj.generation, enabled |-> proj.enabled,
   contract |-> proj.contract, challenges |-> proj.challenges,
   items |-> [i \in Active(proj) |-> [Identity(proj.items[i]) EXCEPT !.verification = "any"]]]

Init ==
  /\ log = <<>>
  /\ proj = Empty
  /\ life = 0
  /\ reader = [k \in Client |-> View]
  /\ deleting = {}

----------------------------------------------------------------------------
\* Transactions

Now == [log |-> log, proj |-> proj]
Put(t, e) ==
  [log |-> Append(t.log, e), proj |-> Apply(t.proj, Len(t.log) + 1, e)]

\* One event over the limit refuses the whole transaction; its mutant is off by one.
Fits_OneMore(t) == Len(t.log) <= MaxEvents + 1
Fits(t) == Len(t.log) <= MaxEvents
Commit(t) ==
  /\ Fits(t)
  /\ log' = t.log /\ proj' = t.proj
  /\ UNCHANGED <<life, reader, deleting>>

PromptsOf(l) == {n \in DOMAIN l : l[n].type = "prompt"}
Prompts == PromptsOf(log)
Consumed == UNION {log[n].uses : n \in DOMAIN log}

Event(type, uses) == [type |-> type, uses |-> uses]

WithWorkspace(t, w) ==
  IF t.proj.workspace = w THEN t
  ELSE Put(t, [type |-> "workspace", uses |-> {}, workspace |-> w])

----------------------------------------------------------------------------
\* What the user can type, and the signals it carries

ConfirmText(a, token) == [form |-> "confirm", action |-> a, token |-> token]
StateText(generation, claims, resolves) ==
  [form |-> "state", generation |-> generation, claims |-> claims, resolves |-> resolves]

RequiredSignal(a) ==
  CASE a = "delete" -> "management_delete" [] a = "reset" -> "reset"
    [] a = "on" -> "continuity_on" [] a = "off" -> "continuity_off"

TextSignals(text) ==
  CASE text.form = "words" -> text.signals
    [] text.form = "state" ->    \* the phrase names the kinds of its claims
         IF \E claim \in ToSet(text.claims) : claim.kind = "correction" THEN {"correction"} ELSE {}
    [] text.form = "confirm" ->
         {RequiredSignal(text.action)} \cup
         (IF text.action \in {"delete", "reset"} THEN {"management_confirm"} ELSE {})

Signals(text) ==
  TextSignals(text) \cup
  (IF proj.generation = 0 /\ proj.pending = {} THEN {"first_prompt"} ELSE {})

\* The claims that a confirmation of this batch lists.
AddClaim(claims, item) ==
  IF item.authority = "user" THEN Append(claims, item) ELSE claims
Claims(batch) == FoldLeft(AddClaim, <<>>, batch)

\* Sets of prompts a client may ask to resolve.
Resolvable(free) == {R \in SUBSET free : Cardinality(R) <= MaxResolved}

\* prepareStateConfirmation (and a refused recordState) show the phrase of a
\* batch whose items would be accepted; no prompt is the source of the preview.
Preparable(batch) ==
  /\ Claims(batch) # <<>>
  /\ \A item \in ToSet(batch) : Acceptable(item, proj, "standalone", 0)

\* Ordinary words; a phrase of a challenge issued so far; the phrase shown for
\* a batch at the current generation.
TypedOf(words, batches) ==
  {[form |-> "words", signals |-> S] : S \in words}
  \cup {ConfirmText(log[n].action, log[n].token) :
          n \in {m \in DOMAIN log : log[m].type = "challenge"}}
  \cup {StateText(proj.generation, Claims(b), R) :
          b \in {c \in batches : Preparable(c)}, R \in Resolvable(Prompts \ Consumed)}
Typed == TypedOf(Words, Batches)

----------------------------------------------------------------------------
\* Mutants

ConfirmedBy_AnyGeneration(c, batch, R) ==
  /\ log[c].text.form = "state"
  /\ log[c].text.claims = Claims(batch) /\ log[c].text.resolves = R
VersionAdvances_AnyVersion(ref, version) ==
  proj.contract.source = "user-intent-plugin" => ref = proj.contract.ref

----------------------------------------------------------------------------
\* Prompts and reads

\* A prompt is dropped while the task is off, unless it asks to turn it on.
ObservePrompt(text, w) ==
  /\ proj.enabled \/ "continuity_on" \in Signals(text)
  /\ LET t == IF proj.workspace = Null THEN WithWorkspace(Now, w) ELSE Now IN
     Commit(Put(t, [type |-> "prompt", uses |-> {}, text |-> text,
                    signals |-> Signals(text)]))

GetState(k) ==
  /\ reader' = [reader EXCEPT ![k] = View]
  /\ UNCHANGED <<log, proj, life, deleting>>

\* validateExpectedGeneration: the client passes the generation it has read.
Unchanged(k) == reader[k].generation = proj.generation

Unused(S) == S \cap Consumed = {}

----------------------------------------------------------------------------
\* recordState and correctState

\* validateUserStateConfirmation: prompt c is the exact phrase for this batch.
ConfirmedBy(c, batch, R) ==
  log[c].text = StateText(proj.generation, Claims(batch), R)

MayResolve(batch, c, R) ==
  IF Claims(batch) = <<>> THEN R = {}
  ELSE /\ c \in Prompts \ R
       /\ Unused(R \cup {c})
       /\ ConfirmedBy(c, batch, R)

\* While an external contract is bound, intent belongs to its provider.
IntentFree(batch) ==
  proj.contract.source = "standalone"
    \/ \A item \in ToSet(batch) : item.kind \notin IntentKinds

RecordState(k, batch, provider, c, R) ==
  /\ proj.enabled
  /\ Unchanged(k)
  /\ \A item \in ToSet(batch) : Acceptable(item, proj, provider, c)
  /\ IntentFree(batch)
  /\ MayResolve(batch, c, R)
  /\ provider = "verified-evidence" => \A item \in ToSet(batch) :
       item.kind \in OperationalKinds /\ item.authority = "verified_evidence"
  /\ LET items == [n \in DOMAIN batch |-> Normalized(batch[n], provider, c)]
         used == IF Claims(batch) = <<>> THEN {} ELSE R \cup {c}
         t == Put(Now, [type |-> "state", uses |-> used, items |-> items])
     IN /\ Cardinality(Active(t.proj)) <= MaxActive
        /\ Commit(t)

\* A correction of intent and its replacements, all by the user.
CorrectState(k, batch, c, R) ==
  /\ proj.contract.source # "user-intent-plugin"
  /\ Head(batch).kind = "correction" /\ Head(batch).status = "active"
  /\ \A i \in Head(batch).supersedes \cap DOMAIN proj.items :
       proj.items[i].kind \notin OperationalKinds
  /\ \A item \in ToSet(Tail(batch)) : item.kind \in IntentKinds
  /\ \A item \in ToSet(batch) :
       item.authority = "user" /\ item.verification = "verified"
  /\ RecordState(k, batch, "standalone", c, R)

----------------------------------------------------------------------------
\* bindExternalContract, by a provider that has authenticated

VersionAdvances(ref, version) ==
  proj.contract.source = "user-intent-plugin" =>
    ref = proj.contract.ref /\ version > proj.contract.version

\* Binding the current version again changes nothing, and is refused when its
\* snapshot or its items differ.
BindContract(k, ref, version, batch, R) ==
  /\ proj.enabled
  /\ Unchanged(k)
  /\ \A item \in ToSet(batch) :
       /\ item.kind \in IntentKinds
       /\ Acceptable(item, proj, "user-intent-plugin", Null)
  /\ VersionAdvances(ref, version)
  /\ Unused(R)
  /\ LET items == [n \in DOMAIN batch |-> Normalized(batch[n], "user-intent-plugin", Null)]
         t == Put(Now, [type |-> "bound", uses |-> R, ref |-> ref,
                        version |-> version, items |-> items])
     IN /\ Cardinality(Active(t.proj)) <= MaxActive
        /\ Commit(t)

----------------------------------------------------------------------------
\* clearTask, importHandoff and observeSubagentResult

Clear(t) == Put(t, [type |-> "cleared", uses |-> {}])

ClearTask ==
  /\ proj.enabled
  /\ Commit(Clear(Now))

\* Handoffs and subagent results stay candidates: no item enters the state.
ImportHandoff(k) ==
  /\ proj.enabled
  /\ Unchanged(k)
  /\ Commit(Put(Now, Event("candidates", {})))

ObserveSubagentResult ==
  /\ proj.enabled
  /\ Commit(Put(Now, Event("candidates", {})))
============================================================================
