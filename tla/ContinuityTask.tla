--------------------------- MODULE ContinuityTask ---------------------------
(***************************************************************************)
(* One task: every operation of the service, the user's prompts and the    *)
(* host's boundaries, in any order.  Ops selects the operations that a run *)
(* considers.                                                              *)
(***************************************************************************)
EXTENDS TaskManagement, TaskRecovery

CONSTANT Ops

ASSUME OpsAssumption ==
  Ops \subseteq {"record", "correct", "bind", "clear", "candidates", "off", "on",
                 "reset", "delete", "cli", "archive", "snapshot", "session"}

\* The operations that add events to the ledger, of what the user types and of
\* the batches that clients send.
Writes(ops, texts, batches) ==
  \/ \E text \in texts, w \in Workspace : ObservePrompt(text, w)
  \/ \E k \in Client, b \in batches, c \in Prompts \cup {Null}, R \in Resolvable(Prompts) :
       \/ "record" \in ops
          /\ \E provider \in {"standalone", "verified-evidence"} :
               RecordState(k, b, provider, c, R)
       \/ "correct" \in ops /\ CorrectState(k, b, c, R)
  \/ \E k \in Client, b \in batches, R \in Resolvable(Prompts), v \in 1..MaxVersion,
          ref \in ContractRef : "bind" \in ops /\ BindContract(k, ref, v, b, R)
  \/ "clear" \in ops /\ ClearTask
  \/ "candidates" \in ops /\ (ObserveSubagentResult \/ \E k \in Client : ImportHandoff(k))
  \/ \E a \in ManagedActions \cap ops, c \in Prompts : Prepare(a, c)
  \/ "reset" \in ops /\ \E c \in Prompts : ManageReset(c)
  \/ \E a \in {"on", "off"} \cap ops, c \in Prompts : ManageOnOff(a, c)
  \/ "cli" \in ops /\ \E a \in {"on", "off"} : CliOnOff(a)
  \/ "snapshot" \in ops /\ \E w \in Workspace, g \in Triggers, file \in FileStates :
       CreateSnapshot(w, g) \/ MarkCompaction(g, file)
  \/ "snapshot" \in ops /\ \E source \in {"compact", "resume"}, w \in Workspace,
          file \in FileStates, omitted \in BOOLEAN : Recover(source, w, file, omitted)
  \/ "session" \in ops /\ \E w \in Workspace \cup {Null} : SessionEnd(w)

\* Those that add none: a read, a deletion's two steps, the CLI's removals.
ReadsAndRemovals(ops) ==
  \/ ops \cap {"record", "correct", "bind", "candidates"} # {} /\ \E k \in Client : GetState(k)
  \/ "delete" \in ops /\ \E c \in Prompts : ValidateDelete(c)
  \/ "delete" \in ops /\ \E d \in deleting : CarryOutDelete(d)
  \/ "archive" \in ops /\ CliRemove

Next == Writes(Ops, Typed, Batches) \/ ReadsAndRemovals(Ops)

Spec == Init /\ [][Next]_vars

----------------------------------------------------------------------------
\* Parts of the ledger's history

Bumps(e) == e.type \in {"state", "bound", "cleared", "reset", "enabled", "challenge"}
GenerationBefore(n) == Cardinality({m \in 1..(n - 1) : Bumps(log[m])})

Switches(n) == {m \in 1..(n - 1) : log[m].type = "enabled"}
OnBefore(n) == Switches(n) = {} \/ log[Max(Switches(n))].on

ProjectionOf(l) == FoldLeftDomain(LAMBDA p, n : Apply(p, n, l[n]), Empty, l)

Events(type) == {n \in DOMAIN log : log[n].type = type}
RecordsOf(i) == {n \in Events("state") \cup Events("bound") :
                   \E item \in ToSet(log[n].items) : item.id = i}

----------------------------------------------------------------------------
\* Properties

TypeOK ==
  /\ life \in 0..MaxLives /\ Len(log) <= MaxEvents
  /\ proj.generation \in 0..MaxEvents
  /\ proj.enabled \in BOOLEAN /\ proj.lifecycle \in {"active", "cleared"}
  /\ proj.contract.source \in {"standalone", "user-intent-plugin"}
  /\ DOMAIN proj.items \subseteq ItemId
  /\ \A i \in DOMAIN proj.items : proj.items[i] \in Item /\ proj.items[i].id = i
  /\ proj.active \subseteq DOMAIN proj.items
  /\ \A s \in proj.pending : s.prompt \in Prompts \ Consumed
  /\ \A a \in ManagedActions : proj.challenges[a] = Null
       \/ \E n \in Events("challenge") : proj.challenges[a] = log[n] /\ log[n].action = a
  /\ proj.workspace \in Workspace \cup {Null}
  /\ Cardinality(Active(proj)) <= MaxActive
  /\ \A d \in deleting : d.life <= life

(* A prompt authorizes once: no two events of a ledger use the same user     *)
(* message, except that one request may have its own challenge issued again  *)
(* (validateUnconsumedPromptEvents and safeReissue, service.mjs:95-116, 1213).*)
PromptAuthorizesOnce ==
  \A m, n \in DOMAIN log : m < n /\ log[m].uses \cap log[n].uses # {} =>
    /\ log[m].type = "challenge" /\ log[n].type = "challenge"
    /\ log[m].action = log[n].action
    /\ \E k \in m..(n - 1) :
         log[k].type = "challenge" /\ log[k].uses = log[n].uses /\ n - 1 <= log[k].expires

(* Whatever a user's item says, the user has confirmed word for word, in a   *)
(* prompt of this ledger, used by no other event, and typed at the very      *)
(* generation the write replaced (validateUserStateConfirmation,             *)
(* service.mjs:212-264).                                                     *)
UserStateIsConfirmed ==
  \A n \in Events("state") : \A item \in ToSet(log[n].items) :
    item.authority = "user" =>
      LET c == item.stamp IN
      /\ c \in Prompts /\ c < n /\ c \in log[n].uses
      /\ log[c].text.form = "state"
      /\ log[c].text.generation = GenerationBefore(n)
      /\ \E claim \in ToSet(log[c].text.claims) :
           Normalized(claim, "standalone", c) = item

(* A generation stands for one state: if the number a client has read is     *)
(* still the current one, so are the items in force and what they say, the   *)
(* contract, the challenges and the switch.  Only freshness marks, pending   *)
(* signals and the workspace may differ (projectLedger, model.mjs:312-437).  *)
SameGenerationSameState ==
  \A k \in Client : reader[k].life = life /\ Unchanged(k) => reader[k] = View

(* An item on record only ages: under its identifier its statement, kind,    *)
(* authority and source never change, verification only goes stale, and what *)
(* was superseded never comes back (model.mjs:661-670, product-contract.md:90).*)
OnlyAges(old, new) ==
  /\ [new EXCEPT !.status = old.status, !.verification = old.verification, !.by = old.by] = old
  /\ new.verification \in {old.verification, "stale"}
  /\ new.status \in {old.status, "superseded"}
ItemsOnlyAge ==
  [][life' = life =>
       /\ DOMAIN proj.items \subseteq DOMAIN proj'.items
       /\ \A i \in DOMAIN proj.items : OnlyAges(proj.items[i], proj'.items[i])
       /\ \A i \in DOMAIN proj.items : i \notin Active(proj) => i \notin Active(proj')]_vars

(* No item was superseded by one of lower authority: user before verified    *)
(* evidence before agent inference (architecture.md:25, model.mjs:477).      *)
AuthorityOrder ==
  \A i \in DOMAIN proj.items : proj.items[i].by \in ItemId =>
    Rank[proj.items[proj.items[i].by].authority] >= Rank[proj.items[i].authority]

(* Progress counted as verified was recorded in the workspace last observed: *)
(* once a different fingerprint is seen after the record, it is not current  *)
(* (markWorkspaceDependentItemsStale, model.mjs:293).                        *)
EvidenceIsCurrent ==
  \A i \in WorkspaceDependent(proj), n \in Events("workspace") :
    (\E m \in Events("workspace") : m < n) => \E k \in RecordsOf(i) : k > n

(* Behind a compaction, a recovery or the end of a session no planned action *)
(* is current unless it was recorded since (product-contract.md:75).         *)
BoundariesExpireActions ==
  \A i \in CurrentActions(proj) :
    \A n \in Events("snapshot") \cup Events("restore") \cup Events("session_ended") :
      \E k \in RecordsOf(i) : k > n

(* While an external contract is bound, every item of intent in force is     *)
(* listed, by its identifier, in the contract's last version and comes from  *)
(* its provider, and the version never goes back until the task is cleared   *)
(* or reset (bindExternalContract, service.mjs:775-800).                     *)
IntentIsTheContracts ==
  proj.contract.source = "user-intent-plugin" =>
    /\ \A i \in Active(proj) : proj.items[i].kind \in IntentKinds =>
         \E item \in ToSet(proj.contract.digest) : item.id = i /\ item.provider = "user-intent-plugin"
    /\ \A m, n \in Events("bound") :
         m < n /\ (\A k \in m..n : log[k].type \notin {"cleared", "reset"}) =>
           log[m].ref = log[n].ref /\ log[m].version < log[n].version

(* While the task is off nothing about it is recorded: only a message that   *)
(* asks to turn it on (and the workspace it finds), the challenge for that,  *)
(* switching, and a reset confirmed before (service.mjs:433, usage.md:51).   *)
NothingWhileOff ==
  \A n \in DOMAIN log : ~OnBefore(n) =>
    \/ log[n].type \in {"enabled", "reset"}
    \/ log[n].type = "prompt" /\ "continuity_on" \in log[n].signals
    \/ log[n].type = "challenge" /\ log[n].action = "on"
    \/ log[n].type = "workspace" /\ n < Len(log) /\ log[n + 1].type = "prompt"

(* What MCP switches or resets took two messages of the user: a request, and *)
(* after the challenge it got, within the window, the phrase of exactly that *)
(* challenge; no challenge serves twice (manageState, service.mjs:1169-1278).*)
TwoMessagesPerAction ==
  \A n \in Events("reset") \cup Events("enabled") : log[n].action # Null =>
    \E i \in Events("challenge"), c \in Prompts :
      /\ i < c /\ c < n /\ c <= i + ChallengeWindow
      /\ log[i].action = log[n].action
      /\ RequiredSignal(log[i].action) \in log[log[i].prompt].signals
      /\ log[c].text = ConfirmText(log[n].action, log[i].token)
      /\ log[n].uses = {c}
      /\ \A k \in (i + 1)..(n - 1) : log[k].type # "reset"
           /\ (log[k].type \in {"enabled", "challenge"} => log[k].action # log[n].action)

(* A deletion that MCP has validated and not yet carried out rests, like the *)
(* other actions, on a request and on the phrase of the challenge it got,    *)
(* sent within the window, with no newer challenge for a deletion, clear or  *)
(* reset before it; so it does whatever else is recorded until the directory *)
(* goes (manageState and validateManagementConfirmation, service.mjs:1248,   *)
(* 299-335).                                                                 *)
DeletionIsConfirmed ==
  \A d \in deleting : d.life = life =>
    \E i \in Events("challenge") :
      /\ d.prompt \in Prompts /\ i < d.prompt /\ d.prompt <= i + ChallengeWindow
      /\ log[i].action = "delete"
      /\ "management_delete" \in log[log[i].prompt].signals
      /\ log[d.prompt].text = ConfirmText("delete", log[i].token)
      /\ \A k \in (i + 1)..d.prompt :
           /\ log[k].type \notin {"cleared", "reset"}
           /\ log[k].type = "challenge" => log[k].action # "delete"

(* A recovery that lets work continue unasked after a compaction restores    *)
(* the state the snapshot holds: since then nothing was written, no message  *)
(* was left open, no action expired (verifyRecovery, recovery.mjs:116-222).  *)
QuietRecoveryFoundNoChange ==
  \A n \in Events("restore") :
    log[n].source = "compact" /\ log[n].class \in {"equivalent", "continue_with_markers"} =>
      \E s \in Events("snapshot") : s < n /\ \A k \in (s + 1)..(n - 1) :
        /\ ~Bumps(log[k]) /\ log[k].type # "revalidate"
        /\ log[k].type = "prompt" => log[k].signals = {}

(* A compaction is confirmed only against a snapshot of its own trigger that *)
(* still describes the task: taken since the last clear or reset             *)
(* (markCompaction, service.mjs:873-906).                                    *)
ConfirmedCompactionHasSnapshot ==
  \A n \in Events("compaction") : log[n].matched =>
    \E s \in Events("snapshot") :
      /\ s < n /\ log[s].trigger = log[n].trigger /\ log[s].sequence = log[n].sequence
      /\ \A k \in s..n : log[k].type \notin {"cleared", "reset"}

----------------------------------------------------------------------------
\* What the documents say and the code does not do

(* usage.md:56: a confirmation text is valid only for the current task, the  *)
(* current generation and the current operation.  A challenge's own event    *)
(* raises the generation; the confirmed action must follow at that one.      *)
ConfirmationIsOfThisGeneration ==
  \A n \in Events("reset") \cup Events("enabled") : log[n].action # Null =>
    \E i \in Events("challenge") :
      /\ log[n].uses # {} /\ \A c \in log[n].uses :
           log[c].text = ConfirmText(log[n].action, log[i].token)
      /\ GenerationBefore(n) = GenerationBefore(i) + 1

(* product-contract.md:37: concurrent writes use expected_generation, no     *)
(* last write wins.  A generation that has been read names one state, also   *)
(* when the CLI archives or deletes the task meanwhile.                      *)
AcceptedGenerationIsOfThisState ==
  \A k \in Client : Unchanged(k) => [reader[k] EXCEPT !.life = life] = View

(* product-contract.md:79-80: when a session has ended normally, and the     *)
(* ledger and the workspace are those of its end, a resume may be judged     *)
(* equivalent.  Here: nothing was written since, no snapshot was ever taken, *)
(* and without the end's own revalidation the state had no gap of medium or  *)
(* high severity.  A budget too small for an item may still make it ask.     *)
CleanResumeIsEquivalent ==
  \A n \in Events("restore") :
    LET kept == IF n > 2 /\ log[n - 2].type = "revalidate" THEN n - 3 ELSE n - 2
        left == ProjectionOf(SubSeq(log, 1, kept))
    IN  /\ log[n].source = "resume" /\ n > 1 /\ log[n - 1].type = "session_ended"
        /\ left.snapshot = Null /\ left.workspace # Null
        /\ Gaps(left) \cap {"medium", "high"} = {}
        => log[n].class \in {"equivalent", "ask_before_high_risk"}

(* What the code does instead: a recovery of a task that has any state is    *)
(* never silent, as its next action is missing or must be derived anew       *)
(* (product-contract.md:75, README.md:134).                                  *)
StatefulRecoveryIsMarked ==
  \A n \in Events("restore") :
    GenerationBefore(n) > 0 => log[n].class # "equivalent"
============================================================================
