----------------------------- MODULE DshAdapter -----------------------------
(***************************************************************************)
(* The DeepSeek Harness adapter, adapters/deepseek-harness/index.js: the   *)
(* host's events queue jobs per session, a job calls the service, a step   *)
(* of an agent waits for the session's recovery, and a tool call looks for *)
(* the user's confirmation among the messages observed so far.  Every      *)
(* await is a point where the host may do something else.                  *)
(*                                                                         *)
(* A job is one promise of the queue.  Jobs are numbered in the order the  *)
(* host emitted their events and kept after they settle.  Of a ledger only *)
(* the order of events and the generation matter here (TaskService has the *)
(* rest): one transaction of the service is one step.                      *)
(***************************************************************************)
EXTENDS Integers, FiniteSets, SequencesExt

CONSTANTS
  Session,        \* sessions of the host, one agent at a time in each
  Parent,         \* the session that spawned a session, or NoSession
  NoSession,
  Profiles,       \* kinds of behaviour: which host events, how many (bounds)
  MaxRecent,      \* MAX_RECENT_PROMPT_OBSERVATIONS
  CallKinds,      \* tools called: "guess" needs no word of the user
  MaxOthers       \* writes of other programs, like the CLI (bound)

ASSUME SessionAssumption ==
  NoSession \notin Session /\ Parent \in [Session -> Session \cup {NoSession}]
ASSUME ProfileAssumption ==
  \A P \in Profiles :
    /\ P.jobs \in Nat /\ P.calls \in Nat
    /\ P.hooks \subseteq Session \X
         {"startup", "prompt", "compaction", "resume", "compact", "clear", "disposed",
          "tool", "other", "unload"}
ASSUME BoundAssumption ==
  /\ MaxRecent \in Nat \ {0}
  /\ MaxOthers \in Nat
  /\ CallKinds \subseteq {"guess", "record", "correct"}

VARIABLES
  host,       \* the kind of this behaviour, one of Profiles
  jobs,       \* every promise the queue has made
  tail,       \* SessionWorkQueue.jobs: the last unsettled job of each session
  pending,    \* pendingRecovery
  recent,     \* promptObservations
  log,        \* the ledger of each session's task
  agent,      \* of each session's agent: new, live, disposed
  step,       \* the recovery that the session's step waits for
  delivered,  \* the recoveries put before a step of each session
  tool,       \* the tool call of each session's agent
  calls,      \* tool calls made
  drain       \* jobs the plugin's unloading waits for

queue == <<jobs, tail>>
maps == <<pending, recent>>
vars == <<host, jobs, tail, pending, recent, log, agent, step, delivered, tool, calls, drain>>

None == 0      \* no job
NoText == -1   \* a message that is no confirmation phrase

Job == DOMAIN jobs
Settled(j) == jobs[j].state = "settled"
JobsOf(s, kinds) == {j \in Job : jobs[j].session = s /\ jobs[j].kind \in kinds}
Recoveries == {"recovered", "resume", "compact", "handoff"}

Bumps(e) == e.type \in {"state", "cleared"}
Generation(s) == Cardinality({n \in DOMAIN log[s] : Bumps(log[s][n])})
Consumed(s) == {log[s][n].uses : n \in DOMAIN log[s]}
Write(s, type, j, uses) ==
  log' = [log EXCEPT ![s] = Append(@, [type |-> type, job |-> j, uses |-> uses])]

NoCall == [phase |-> "idle", since |-> 0, wait |-> {}, list |-> <<>>,
           expected |-> 0, kind |-> "guess", answer |-> "none"]
NoDrain == [phase |-> "loaded", wait |-> {}, since |-> 0]

Init ==
  /\ host \in Profiles
  /\ jobs = <<>>
  /\ tail = [s \in Session |-> None]
  /\ pending = [s \in Session |-> None]
  /\ recent = [s \in Session |-> <<>>]
  /\ log = [s \in Session |-> <<>>]
  /\ agent = [s \in Session |-> "new"]
  /\ step = [s \in Session |-> None]
  /\ delivered = [s \in Session |-> <<>>]
  /\ tool = [s \in Session |-> NoCall]
  /\ calls = 0
  /\ drain = NoDrain

TypeOK ==
  /\ \A j \in Job :
       /\ jobs[j].session \in Session
       /\ jobs[j].state \in {"queued", "marked", "nonempty", "exported", "importing", "settled"}
       /\ jobs[j].value \in BOOLEAN
  /\ \A s \in Session :
       /\ \A j \in {tail[s], pending[s], step[s]} \ {None} : j \in Job /\ jobs[j].session = s
       /\ tail[s] # None => ~Settled(tail[s])
       /\ Len(recent[s]) <= MaxRecent
       /\ ToSet(recent[s]) \subseteq JobsOf(s, {"prompt"})
       /\ tool[s].phase \in {"idle", "queue", "observations", "candidates"}
  /\ agent \in [Session -> {"new", "live", "disposed"}]
  /\ calls \in 0..host.calls

----------------------------------------------------------------------------
\* Mutants: bugs that the runs must notice, each a variant of the definition
\* its name starts with.

TailAfter_Unconditional(s, j) == None            \* finally without "=== job"
PendingAfter_Unconditional(s, j) == None         \* no "=== recovery"
PendingAfter_Kept(s, j) == pending[s]
Candidates_OldestFirst(s) == tool[s].list
ImportOutcome_Anyway(j) == TRUE                  \* a conflict is overlooked
AllSettled_Race(S) == S = {} \/ \E j \in S : Settled(j)
FailedState_Hung == "hung"                       \* no catch: nothing resolves

----------------------------------------------------------------------------
\* SessionWorkQueue

Enqueue(s, kind, text) ==
  /\ Len(jobs) < host.jobs
  /\ jobs' = Append(jobs, [session |-> s, kind |-> kind, after |-> tail[s], text |-> text,
                           state |-> "queued", read |-> 0, value |-> FALSE])
  /\ tail' = [tail EXCEPT ![s] = Len(jobs) + 1]

\* previous.catch(() => null).then(operation)
Runs(j, kind, state) ==
  /\ jobs[j].kind = kind /\ jobs[j].state = state
  /\ jobs[j].after # None => Settled(jobs[j].after)

\* job.finally: the entry goes away unless a later job has replaced it.
TailAfter(s, j) == IF tail[s] = j THEN None ELSE tail[s]

Settles(j, value) ==
  /\ jobs' = [jobs EXCEPT ![j].state = "settled", ![j].value = value]
  /\ tail' = [tail EXCEPT ![jobs[j].session] = TailAfter(jobs[j].session, j)]

Advances(j, state) ==
  jobs' = [jobs EXCEPT ![j].state = state] /\ UNCHANGED tail

----------------------------------------------------------------------------
\* Host events

Hook(s, h) == <<s, h>> \in host.hooks

\* A user's message: ordinary words, or the phrase the user was shown at this
\* generation.  Only the last MaxRecent observations are remembered.
Remember(s, j) ==
  LET all == Append(recent[s], j)
  IN  SubSeq(all, 1 + (IF Len(all) > MaxRecent THEN Len(all) - MaxRecent ELSE 0), Len(all))

OnInboxInserted(s) ==
  /\ Hook(s, "prompt") /\ agent[s] = "live"
  /\ \E text \in {NoText, Generation(s)} : Enqueue(s, "prompt", text)
  /\ recent' = [recent EXCEPT ![s] = Remember(s, Len(jobs) + 1)]
  /\ UNCHANGED <<pending, log, agent, step, delivered, tool, calls, drain, host>>

\* compaction/start.  An end with an error, which leaves the snapshot, queues
\* nothing; an end without one follows a start.
OnCompactionStart(s) ==
  /\ Hook(s, "compaction") /\ agent[s] = "live"
  /\ Enqueue(s, "snapshot", NoText)
  /\ UNCHANGED <<maps, log, agent, step, delivered, tool, calls, drain, host>>

Compacting(s) ==
  \E j \in JobsOf(s, {"snapshot"}) : \A k \in JobsOf(s, {"recovered"}) : k < j

OnCompactionEnd(s) ==
  /\ Compacting(s) /\ agent[s] = "live"
  /\ Enqueue(s, "recovered", NoText)
  /\ pending' = [pending EXCEPT ![s] = Len(jobs) + 1]
  /\ UNCHANGED <<recent, log, agent, step, delivered, tool, calls, drain, host>>

\* Session start with source "startup", "resume", "compact" or "clear".
OnStartup(s) ==
  /\ Hook(s, "startup")
  /\ agent[s] = "new" /\ agent' = [agent EXCEPT ![s] = "live"]
  /\ IF Parent[s] = NoSession THEN UNCHANGED <<queue, pending>>
     ELSE /\ agent[Parent[s]] # "new"
          /\ Enqueue(s, "handoff", NoText)
          /\ pending' = [pending EXCEPT ![s] = Len(jobs) + 1]
  /\ UNCHANGED <<recent, log, step, delivered, tool, calls, drain, host>>

OnRecoverySource(s, source) ==
  /\ Hook(s, source)
  /\ \/ source = "resume" /\ agent[s] = "disposed"
     \/ source = "compact" /\ agent[s] = "live"
  /\ agent' = [agent EXCEPT ![s] = "live"]
  /\ Enqueue(s, source, NoText)
  /\ pending' = [pending EXCEPT ![s] = Len(jobs) + 1]
  /\ UNCHANGED <<recent, log, step, delivered, tool, calls, drain, host>>

OnClear(s) ==
  /\ Hook(s, "clear") /\ agent[s] = "live"
  /\ Enqueue(s, "clear", NoText)
  /\ UNCHANGED <<maps, log, agent, step, delivered, tool, calls, drain, host>>

OnAgentDisposed(s) ==
  /\ Hook(s, "disposed") /\ agent[s] = "live"
  /\ agent' = [agent EXCEPT ![s] = "disposed"]
  /\ pending' = [pending EXCEPT ![s] = None]
  /\ recent' = [recent EXCEPT ![s] = <<>>]
  /\ Enqueue(s, "end", NoText)
  /\ UNCHANGED <<log, step, delivered, tool, calls, drain, host>>

----------------------------------------------------------------------------
\* Jobs

\* The jobs that are one call of the service, and the event it leaves.
Effect(kind) ==
  CASE kind = "prompt" -> "prompt" [] kind = "snapshot" -> "snapshot"
    [] kind \in {"resume", "compact"} -> "restore"
    [] kind = "clear" -> "cleared" [] kind = "end" -> "ended"

RunOneCall(j) ==
  /\ \E kind \in {"prompt", "snapshot", "resume", "compact", "clear", "end"} :
       Runs(j, kind, "queued")
  /\ Write(jobs[j].session, Effect(jobs[j].kind), j, None)
  /\ Settles(j, TRUE)
  /\ UNCHANGED <<maps, agent, step, delivered, tool, calls, drain, host>>

\* After a compaction: mark the boundary, then recover.
MarkCompaction(j) ==
  /\ Runs(j, "recovered", "queued")
  /\ Write(jobs[j].session, "compaction", j, None)
  /\ Advances(j, "marked")
  /\ UNCHANGED <<maps, agent, step, delivered, tool, calls, drain, host>>

RecoverMarked(j) ==
  /\ Runs(j, "recovered", "marked")
  /\ Write(jobs[j].session, "restore", j, None)
  /\ Settles(j, TRUE)
  /\ UNCHANGED <<maps, agent, step, delivered, tool, calls, drain, host>>

\* Something is known of a task: once its generation has gone up, a cleared one
\* included, by the gaps that its state has; before, by the signals of a message,
\* the first of which always has one ("first_prompt", signals.mjs:60-64).
HasState(s) == \E n \in DOMAIN log[s] : Bumps(log[s][n]) \/ log[s][n].type = "prompt"

\* prepareParentHandoff: is there anything to hand over, the parent's capsule,
\* the child's generation, the import at that generation.
ReadParent(j) ==
  /\ Runs(j, "handoff", "queued")
  /\ IF HasState(Parent[jobs[j].session]) THEN Advances(j, "nonempty") ELSE Settles(j, FALSE)
  /\ UNCHANGED <<maps, log, agent, step, delivered, tool, calls, drain, host>>

ExportParent(j) ==
  /\ Runs(j, "handoff", "nonempty")
  /\ Advances(j, "exported")
  /\ UNCHANGED <<maps, log, agent, step, delivered, tool, calls, drain, host>>

ReadChild(j) ==
  /\ Runs(j, "handoff", "exported")
  /\ jobs' = [jobs EXCEPT ![j].state = "importing", ![j].read = Generation(jobs[j].session)]
  /\ UNCHANGED <<tail, maps, log, agent, step, delivered, tool, calls, drain, host>>

ImportOutcome(j) == Generation(jobs[j].session) = jobs[j].read

ImportCapsule(j) ==
  /\ Runs(j, "handoff", "importing")
  /\ IF Generation(jobs[j].session) = jobs[j].read
     THEN Write(jobs[j].session, "handoff", j, None) ELSE UNCHANGED log
  /\ Settles(j, ImportOutcome(j))
  /\ UNCHANGED <<maps, agent, step, delivered, tool, calls, drain, host>>

\* A call of the service throws, or the task is off: the job is worth nothing.
FailedState == "settled"

FailJob(j) ==
  /\ ~Settled(j) /\ Runs(j, jobs[j].kind, jobs[j].state)
  /\ jobs' = [jobs EXCEPT ![j].state = FailedState]
  /\ tail' = [tail EXCEPT ![jobs[j].session] = TailAfter(jobs[j].session, j)]
  /\ UNCHANGED <<maps, log, agent, step, delivered, tool, calls, drain, host>>

----------------------------------------------------------------------------
\* onPreStep and consumeRecovery

PreStep(s) ==
  /\ agent[s] = "live" /\ step[s] = None /\ pending[s] # None
  /\ step' = [step EXCEPT ![s] = pending[s]]
  /\ UNCHANGED <<queue, maps, log, agent, delivered, tool, calls, drain, host>>

\* pendingRecovery loses the recovery just awaited, not one set meanwhile.
PendingAfter(s, j) == IF pending[s] = j THEN None ELSE pending[s]

StepSettles(s) ==
  /\ step[s] # None /\ Settled(step[s])
  /\ pending' = [pending EXCEPT ![s] = PendingAfter(s, step[s])]
  /\ IF jobs[step[s]].value THEN delivered' = [delivered EXCEPT ![s] = Append(@, step[s])]
     ELSE UNCHANGED delivered
  /\ step' = [step EXCEPT ![s] = None]
  /\ UNCHANGED <<queue, recent, log, agent, tool, calls, drain, host>>

\* RECOVERY_WAIT_MS is over, or the step is aborted: go on without it.
StepGoesOn(s) ==
  /\ step[s] # None /\ ~Settled(step[s])
  /\ step' = [step EXCEPT ![s] = None]
  /\ UNCHANGED <<queue, maps, log, agent, delivered, tool, calls, drain, host>>

----------------------------------------------------------------------------
\* execute of a tool that writes items: of the agent's own inference, or with
\* the user's authority by continuity_record_state or continuity_correct_state.

CallTool(s, kind) ==
  /\ Hook(s, "tool") /\ agent[s] = "live" /\ tool[s].phase = "idle" /\ calls < host.calls
  /\ calls' = calls + 1
  /\ tool' = [tool EXCEPT ![s] =
       [NoCall EXCEPT !.phase = "queue", !.wait = {tail[s]} \ {None}, !.since = Len(jobs),
                      !.expected = Generation(s), !.kind = kind]]
  /\ UNCHANGED <<queue, maps, log, agent, step, delivered, drain, host>>

NeedsObservedSource(s) == tool[s].kind # "guess"

AllSettled(S) == \A j \in S : Settled(j)

QueueSettled(s) ==
  /\ tool[s].phase = "queue" /\ AllSettled(tool[s].wait)
  /\ tool' = [tool EXCEPT ![s].phase = "observations", ![s].wait = ToSet(recent[s]),
                          ![s].list = recent[s]]
  /\ UNCHANGED <<queue, maps, log, agent, step, delivered, calls, drain, host>>

\* Newest first; without any, or for a call that needs none, one null.
Candidates(s) == Reverse(tool[s].list)

ObservationsSettled(s) ==
  /\ tool[s].phase = "observations" /\ AllSettled(tool[s].wait)
  /\ tool' = [tool EXCEPT ![s].phase = "candidates", ![s].wait = {},
       ![s].list = IF NeedsObservedSource(s) /\ tool[s].list # <<>> THEN Candidates(s) ELSE <<None>>]
  /\ UNCHANGED <<queue, maps, log, agent, step, delivered, calls, drain, host>>

Answers(s, answer) ==
  tool' = [tool EXCEPT ![s].phase = "idle", ![s].list = <<>>, ![s].answer = answer]

\* An observation that failed has no event: the call goes out without a source,
\* which record_state refuses for good and correct_state as an unknown prompt.
Known(c) == c # None /\ jobs[c].value
Confirms(s, c) ==
  Known(c) /\ c \notin Consumed(s) /\ jobs[c].text = Generation(s)
Retryable(s, c) == Known(c) \/ tool[s].kind = "correct"

\* runtime.callTool with the next candidate as source.
Accepted(s, c) ==
  /\ NeedsObservedSource(s) => Confirms(s, c)
  /\ Write(s, "state", None, IF NeedsObservedSource(s) THEN c ELSE None)
  /\ Answers(s, "ok")

Refused(s, c) ==
  /\ NeedsObservedSource(s) /\ ~Confirms(s, c)
  /\ IF Retryable(s, c) /\ Len(tool[s].list) > 1
     THEN tool' = [tool EXCEPT ![s].list = Tail(@)]
     ELSE Answers(s, "unconfirmed")
  /\ UNCHANGED log

Conflicts(s) == Answers(s, "conflict") /\ UNCHANGED log

TryCandidate(s) ==
  /\ tool[s].phase = "candidates"
  /\ IF Generation(s) # tool[s].expected THEN Conflicts(s)
     ELSE Accepted(s, Head(tool[s].list)) \/ Refused(s, Head(tool[s].list))
  /\ UNCHANGED <<queue, maps, agent, step, delivered, calls, drain, host>>

\* Another program writes to the task: the CLI, a second host.
OtherWrite(s) ==
  /\ Hook(s, "other")
  /\ Len(SelectSeq(log[s], LAMBDA e : e.type = "state" /\ e.job = -1)) < MaxOthers
  /\ Write(s, "state", -1, None)
  /\ UNCHANGED <<queue, maps, agent, step, delivered, tool, calls, drain, host>>

----------------------------------------------------------------------------
\* The plugin is unloaded: ctx.effect's clean-up drains the queue.

DrainWait == {tail[s] : s \in Session} \ {None}

Drain ==
  /\ drain.phase = "loaded" /\ \E s \in Session : Hook(s, "unload")
  /\ drain' = [phase |-> "draining", wait |-> DrainWait, since |-> Len(jobs)]
  /\ UNCHANGED <<queue, maps, log, agent, step, delivered, tool, calls, host>>

DrainReturns ==
  /\ drain.phase = "draining" /\ AllSettled(drain.wait)
  /\ drain' = [drain EXCEPT !.phase = "drained"]
  /\ UNCHANGED <<queue, maps, log, agent, step, delivered, tool, calls, host>>

----------------------------------------------------------------------------

Host(s) ==
  \/ OnInboxInserted(s) \/ OnCompactionStart(s) \/ OnCompactionEnd(s)
  \/ OnStartup(s) \/ (\E source \in {"resume", "compact"} : OnRecoverySource(s, source))
  \/ OnClear(s) \/ OnAgentDisposed(s)

RunJob(j) ==
  \/ RunOneCall(j) \/ MarkCompaction(j) \/ RecoverMarked(j)
  \/ ReadParent(j) \/ ExportParent(j) \/ ReadChild(j) \/ ImportCapsule(j) \/ FailJob(j)

Step(s) == StepSettles(s) \/ StepGoesOn(s)

Tool(s) == QueueSettled(s) \/ ObservationsSettled(s) \/ TryCandidate(s)

Next ==
  \/ \E s \in Session :
       \/ Host(s) \/ PreStep(s) \/ Step(s) \/ Tool(s) \/ OtherWrite(s)
       \/ \E kind \in CallKinds : CallTool(s, kind)
  \/ \E j \in Job : RunJob(j)
  \/ Drain \/ DrainReturns

Spec == Init /\ [][Next]_vars

\* The service returns (LedgerStore!EveryOperationReturns) or throws, and the
\* event loop runs what can continue; the host need not do anything.
LiveSpec ==
  /\ Spec
  /\ WF_vars(\E j \in Job : RunJob(j))
  /\ WF_vars(DrainReturns \/ \E s \in Session : Step(s) \/ Tool(s))

----------------------------------------------------------------------------
\* Properties

(* The ledger of a session shows the host's events in the order in which    *)
(* the host emitted them, however long each job takes and whichever fails:  *)
(* a restore comes after the marker and the snapshot of its compaction and  *)
(* after every message sent before (SessionWorkQueue, index.js:234-268).    *)
JobsInHostOrder ==
  \A s \in Session : \A m, n \in DOMAIN log[s] :
    m < n /\ log[s][m].job > 0 /\ log[s][n].job > 0 => log[s][m].job <= log[s][n].job

(* A recovery that was prepared is not lost: it is put before a step, waits *)
(* for one, or gave way to a later recovery or to the agent's end.  A step  *)
(* that stops waiting loses nothing (consumeRecovery, index.js:426-446).    *)
NoRecoveryIsLost ==
  \A s \in Session : \A j \in JobsOf(s, Recoveries) :
    \/ Settled(j) /\ ~jobs[j].value
    \/ j = pending[s] \/ j \in ToSet(delivered[s])
    \/ \E k \in JobsOf(s, Recoveries \cup {"end"}) : k > j

(* A session never sees one recovery twice, nor an older one after a newer  *)
(* (index.js:441-443, :463).                                                *)
RecoveriesInOrder ==
  \A s \in Session : \A m, n \in DOMAIN delivered[s] :
    m < n => delivered[s][m] < delivered[s][n]

(* A tool call that is turned down for want of the user's word really had   *)
(* none: every message sent before the call that is still remembered was    *)
(* observed, and none of them is an unused confirmation of the generation   *)
(* it writes to; only a failed observation can hide one, from record_state  *)
(* (execute, index.js:516-549).                                             *)
ConfirmationIsFound ==
  \A s \in Session : tool[s].answer = "unconfirmed" =>
    \A c \in ToSet(recent[s]) : c <= tool[s].since =>
      \/ (Settled(c) /\ ~jobs[c].value) \/ jobs[c].text # tool[s].expected \/ c \in Consumed(s)
      \/ /\ tool[s].kind = "record"
         /\ \E k \in JobsOf(s, {"prompt"}) : k > c /\ Settled(k) /\ ~jobs[k].value

(* What a child is told its parent handed over stands in its own ledger     *)
(* (prepareParentHandoff, index.js:397-424).                                *)
HandoffIsRecorded ==
  \A s \in Session : \A j \in ToSet(delivered[s]) : jobs[j].kind = "handoff" =>
    \E n \in DOMAIN log[s] : log[s][n].type = "handoff" /\ log[s][n].job = j

(* When the unloading returns, everything the host had asked for before has *)
(* been done or has failed (drain, index.js:265-267).                       *)
DrainWaits ==
  drain.phase = "drained" => \A j \in 1..drain.since : Settled(j)

(* Nobody waits for ever: a tool call and the unloading, which have no      *)
(* timeout of their own, return as long as the service's calls do, whatever *)
(* fails and whatever else is queued meanwhile (index.js:515-518, :265).    *)
EverybodyReturns ==
  /\ \A s \in Session : tool[s].phase # "idle" ~> tool[s].phase = "idle"
  /\ drain.phase = "draining" ~> drain.phase = "drained"

----------------------------------------------------------------------------
\* The queue as its callers see it

Unsettled(s) == {j \in Job : jobs[j].session = s /\ ~Settled(j)}
Begun(s) == {j \in Unsettled(s) : jobs[j].state # "queued"}
Writers(s) == [n \in DOMAIN log[s] |-> log[s][n].job]

Queue == INSTANCE SessionQueue WITH
  Outsiders <- {None, -1},
  made <- Len(jobs),
  waiting <- [s \in Session |-> Unsettled(s)],
  begun <- [s \in Session |-> Begun(s)],
  written <- [s \in Session |-> Writers(s)]

(* The chain of promises, where each job knows only the one that was last   *)
(* when it came, is one queue per session: whatever fails, settles or is    *)
(* forgotten meanwhile, a job begins when every earlier job of its session  *)
(* is over, and never while another runs (enqueue, index.js:240-259).       *)
ImplementsSessionQueue == Queue!Spec
=============================================================================
