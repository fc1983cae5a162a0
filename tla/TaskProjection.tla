--------------------------- MODULE TaskProjection ---------------------------
(***************************************************************************)
(* The projection that model.mjs rebuilds from a task's ledger: which      *)
(* items are in force, what supersedes what, what a user message still     *)
(* leaves open, which challenges are outstanding.  Apply is one turn of    *)
(* projectLedger's loop; everything here is a pure operator.               *)
(*                                                                         *)
(* An event's identifier is its position in the ledger.  A statement is a  *)
(* Claim, equal claims being equal text; a digest of something is that     *)
(* thing itself.                                                           *)
(***************************************************************************)
EXTENDS Integers, FiniteSets, SequencesExt

CONSTANTS
  ItemId,       \* item identifiers
  Claim,        \* statements of items
  Workspace,    \* fingerprints: [place, content, verified]
  ContractRef,  \* references of external intent contracts
  Null          \* an absent value

ASSUME NullAssumption == Null \notin ItemId \cup Claim \cup Workspace \cup ContractRef
\* "clear" and "contract" stand for "continuity:clear" and for an event's own
\* identifier, which supersedeItem notes in the place of an item's.
ASSUME IdAssumption == ItemId \cap {"clear", "contract"} = {}

IntentKinds == {"objective", "hard_constraint", "authorization", "correction",
  "decision", "open_question", "dispute", "preference", "assumption"}
OperationalKinds == {"work_object", "completion", "next_action", "phase", "evidence"}
HighRiskKinds == {"objective", "hard_constraint", "authorization", "correction",
  "work_object", "completion", "next_action"}
WorkspaceKinds == {"work_object", "completion", "evidence", "next_action"}
ManagedActions == {"off", "on", "reset", "delete"}

Rank == [agent_inference |-> 1, verified_evidence |-> 2, user |-> 3]

\* A normalized item; stamp is its source_ref and recorded_at.
Item == [id: ItemId, kind: IntentKinds \cup OperationalKinds, claim: Claim,
         authority: DOMAIN Rank, provider: {"standalone", "verified-evidence", "user-intent-plugin"},
         verification: {"verified", "unverified", "stale", "unavailable"},
         status: {"active", "superseded", "disputed", "unverified"},
         supersedes: SUBSET ItemId, stamp: Nat,
         by: ItemId \cup {Null, "clear", "contract"}]

Standalone(n) == [source |-> "standalone", ref |-> n, version |-> 1, digest |-> Null]

Empty ==
  [generation |-> 0, enabled |-> TRUE, lifecycle |-> "active",
   contract |-> Standalone(0), items |-> <<>>, active |-> {}, pending |-> {},
   challenges |-> [a \in ManagedActions |-> Null],
   workspace |-> Null, snapshot |-> Null, compaction |-> Null]

----------------------------------------------------------------------------
\* Items in force

Active(p) == {i \in p.active : p.items[i].status # "superseded"}
ActiveItems(p) == {p.items[i] : i \in Active(p)}
ActiveIntent(p) == {i \in p.active : p.items[i].kind \in IntentKinds}

MarkStale(p, S) ==
  [p EXCEPT !.items = [i \in DOMAIN @ |->
     IF i \in S THEN [@[i] EXCEPT !.verification = "stale"] ELSE @[i]]]

Supersede(p, S, who) ==
  [p EXCEPT
     !.items = [i \in DOMAIN @ |->
        IF i \in S THEN [@[i] EXCEPT !.status = "superseded", !.by = who] ELSE @[i]],
     !.active = @ \ S]

\* An item first retires what it supersedes, then takes its own place.
ApplyItem(p, item) ==
  LET q == Supersede(p, item.supersedes, item.id) IN
  [q EXCEPT !.items = [i \in DOMAIN @ \cup {item.id} |-> IF i = item.id THEN item ELSE @[i]],
            !.active = IF item.status = "superseded" THEN @ ELSE @ \cup {item.id}]
ApplyItems(p, batch) == FoldLeft(ApplyItem, p, batch)

\* New progress makes the planned next actions it does not mention stale.
OvertakenActions(p, batch) ==
  IF \E item \in ToSet(batch) : item.kind \in {"completion", "evidence", "work_object"}
  THEN {i \in Active(p) :
          /\ p.items[i].kind = "next_action"
          /\ \A item \in ToSet(batch) : i # item.id /\ i \notin item.supersedes}
  ELSE {}

WorkspaceDependent(p) ==
  {i \in Active(p) : /\ p.items[i].kind \in WorkspaceKinds
                     /\ p.items[i].verification = "verified"}

----------------------------------------------------------------------------
\* Mutants

AfterWorkspace_KeepsItems(p, e) == [p EXCEPT !.workspace = e.workspace]
AfterClear_SameGeneration(p, n, e) ==
  [Supersede(p, p.active, "clear") EXCEPT !.pending = {}, !.contract = Standalone(n)]
AfterClear_KeepsChallenges(p, n, e) ==
  [Supersede(p, p.active, "clear") EXCEPT
     !.pending = {}, !.contract = Standalone(n), !.generation = @ + 1]
MaySupersede_AnyAuthority(input, p, i) ==
  /\ i \in DOMAIN p.items
  /\ (p.items[i].kind \in IntentKinds) = (input.kind \in IntentKinds)
KeepsMeaning_Always(item, p) == TRUE

----------------------------------------------------------------------------
\* What each event does to the projection

AfterWorkspace(p, e) ==
  LET q == IF p.workspace \in {Null, e.workspace} THEN p
           ELSE MarkStale(p, WorkspaceDependent(p))
  IN [q EXCEPT !.workspace = e.workspace]

AfterRevalidation(p, e) ==
  MarkStale(p, {i \in e.ids \cap DOMAIN p.items :
                  p.items[i].kind = "next_action" /\ p.items[i].status # "superseded"})

AfterPrompt(p, n, e) ==
  IF e.signals = {} THEN p
  ELSE [p EXCEPT !.pending = @ \cup {[prompt |-> n, signals |-> e.signals]}]

Open(pending, used) == {s \in pending : s.prompt \notin used}

AfterState(p, e) ==
  LET q == ApplyItems(MarkStale(p, OvertakenActions(p, e.items)), e.items)
      intent == \E item \in ToSet(e.items) : item.kind \in IntentKinds
  IN [q EXCEPT !.pending = Open(@, e.uses), !.generation = @ + 1, !.lifecycle = "active",
               !.contract.version = IF intent /\ q.contract.source = "standalone" THEN @ + 1 ELSE @]

AfterBinding(p, e) ==
  LET q == [Supersede(p, ActiveIntent(p), "contract") EXCEPT
              !.contract = [source |-> "user-intent-plugin", ref |-> e.ref,
                            version |-> e.version, digest |-> e.items]]
  IN [ApplyItems(q, e.items) EXCEPT
        !.pending = Open(@, e.uses), !.generation = @ + 1, !.lifecycle = "active"]

\* task_cleared and task_reset
AfterClear(p, n, e) ==
  [Supersede(p, p.active, "clear") EXCEPT
     !.pending = {}, !.challenges = [a \in ManagedActions |-> Null],
     !.snapshot = Null, !.compaction = Null, !.contract = Standalone(n),
     !.lifecycle = IF e.type = "cleared" THEN "cleared" ELSE "active",
     !.generation = @ + 1]

AfterEnabled(p, e) ==
  [p EXCEPT !.enabled = e.on, !.pending = Open(@, e.uses), !.generation = @ + 1,
            !.challenges = [a \in ManagedActions |-> IF a = e.action THEN Null ELSE @[a]]]

AfterChallenge(p, e) ==
  [p EXCEPT !.challenges[e.action] = e, !.pending = Open(@, e.uses),
            !.generation = @ + 1]

Apply(p, n, e) ==
  CASE e.type = "workspace"  -> AfterWorkspace(p, e)
    [] e.type = "revalidate" -> AfterRevalidation(p, e)
    [] e.type = "prompt"     -> AfterPrompt(p, n, e)
    [] e.type = "state"      -> AfterState(p, e)
    [] e.type = "bound"      -> AfterBinding(p, e)
    [] e.type \in {"cleared", "reset"} -> AfterClear(p, n, e)
    [] e.type = "enabled"    -> AfterEnabled(p, e)
    [] e.type = "challenge"  -> AfterChallenge(p, e)
    [] e.type = "snapshot"   -> [p EXCEPT !.snapshot = e]
    [] e.type = "compaction" -> [p EXCEPT !.compaction = e]
    [] OTHER -> p            \* restore, session_ended, candidates

----------------------------------------------------------------------------
\* normalizeStateItem: which inputs become items

MaySupersede(input, p, i) ==
  /\ i \in DOMAIN p.items
  /\ (p.items[i].kind \in IntentKinds) = (input.kind \in IntentKinds)
  /\ Rank[input.authority] >= Rank[p.items[i].authority]
  /\ p.items[i].verification = "verified" => input.verification = "verified"

\* The source and the time of a user's item are those of the confirming prompt.
Normalized(input, provider, source) ==
  [id |-> input.id, kind |-> input.kind, claim |-> input.claim,
   authority |-> input.authority, provider |-> provider,
   verification |-> input.verification, status |-> input.status,
   supersedes |-> input.supersedes, by |-> Null,
   stamp |-> IF input.authority = "user" /\ provider # "user-intent-plugin"
             THEN source ELSE input.stamp]

Identity(item) == [item EXCEPT !.by = Null]

\* ITEM_ID_COLLISION: a known identifier only for an item of the same meaning.
KeepsMeaning(item, p) ==
  item.id \in DOMAIN p.items => Identity(p.items[item.id]) = item

Acceptable(input, p, provider, source) ==
  /\ input.authority = "agent_inference" => input.verification # "verified"
  /\ input.authority = "user" /\ provider # "user-intent-plugin" => source # Null
  /\ input.authority = "verified_evidence" => provider = "verified-evidence"
  /\ input.kind = "authorization" => input.authority = "user"
  /\ input.kind = "correction" => input.supersedes # {}
  /\ \A i \in input.supersedes : MaySupersede(input, p, i)
  /\ KeepsMeaning(Normalized(input, provider, source), p)

----------------------------------------------------------------------------
\* coverageGaps and projectionDigest

SignalSeverity(signals) ==
  IF signals \cap {"dispute", "first_prompt"} = signals THEN "medium" ELSE "high"

ItemGap(item) ==
  CASE item.status = "disputed" ->
         IF item.kind \in HighRiskKinds THEN "high" ELSE "medium"
    [] item.status # "disputed" /\ item.kind \in HighRiskKinds
       /\ item.verification \in {"stale", "unavailable"} ->
         IF item.kind = "next_action" THEN "medium" ELSE "high"
    [] item.status # "disputed" /\ item.verification = "unverified" ->
         IF item.kind \in HighRiskKinds THEN "high" ELSE "low"
    [] OTHER -> "none"

Has(p, kind) == \E item \in ActiveItems(p) : item.kind = kind

Gaps(p) ==
  {ItemGap(item) : item \in ActiveItems(p)}
  \cup {SignalSeverity(s.signals) : s \in p.pending}
  \cup (IF p.generation > 0 /\ ~Has(p, "objective") THEN {"high"} ELSE {})
  \cup (IF p.generation > 0 /\ ~(Has(p, "work_object") /\ Has(p, "next_action"))
        THEN {"medium"} ELSE {})
  \cup (IF Cardinality({item \in ActiveItems(p) : item.kind = "objective"}) > 1
        THEN {"high"} ELSE {})

Digest(p) ==
  [generation |-> p.generation, contract |-> p.contract, active |-> p.active,
   items |-> Restrict(p.items, Active(p)), pending |-> p.pending,
   lifecycle |-> p.lifecycle]
============================================================================
