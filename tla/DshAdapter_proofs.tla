------------------------- MODULE DshAdapter_proofs -------------------------
(* Proofs about DshAdapter, for every set of sessions, every kind of        *)
(* behaviour and every bound.                                               *)
EXTENDS DshAdapter, FiniteSetTheorems, SequenceTheorems, TLAPS

JobKinds == {"prompt", "snapshot", "recovered", "resume", "compact", "handoff", "clear", "end"}
JobStates == {"queued", "marked", "nonempty", "exported", "importing", "settled"}
JobRecord ==
  [session : Session, kind : JobKinds, after : Nat, text : Int, state : JobStates,
   read : Nat, value : BOOLEAN]
LogTypes ==
  {"prompt", "snapshot", "compaction", "restore", "handoff", "state", "cleared", "ended"}
LogEvent == [type : LogTypes, job : Int, uses : Int]
ToolRecord ==
  [phase : {"idle", "queue", "observations", "candidates"}, since : Nat, wait : SUBSET Nat,
   list : Seq(Nat), expected : Nat, kind : {"guess", "record", "correct"},
   answer : {"none", "ok", "unconfirmed", "conflict"}]
ToolCall == {call \in ToolRecord : call.phase = "candidates" => call.list # <<>>}

Types ==
  /\ host \in Profiles
  /\ jobs \in Seq(JobRecord)
  /\ tail \in [Session -> Nat]
  /\ pending \in [Session -> Nat]
  /\ recent \in [Session -> Seq(Nat)]
  /\ log \in [Session -> Seq(LogEvent)]
  /\ agent \in [Session -> {"new", "live", "disposed"}]
  /\ step \in [Session -> Nat]
  /\ delivered \in [Session -> Seq(Nat)]
  /\ tool \in [Session -> ToolCall]
  /\ calls \in Nat
  /\ drain \in [phase : {"loaded", "draining", "drained"}, wait : SUBSET Nat, since : Nat]

LEMMA GenerationType ==
  ASSUME Types, NEW s \in Session PROVE Generation(s) \in Nat
<1>1. /\ DOMAIN log[s] = 1..Len(log[s])
      /\ Len(log[s]) \in Nat
  BY DEF Types
<1>2. IsFiniteSet(1..Len(log[s]))
  BY <1>1, FS_Interval
<1>3. IsFiniteSet({n \in DOMAIN log[s] : Bumps(log[s][n])})
  BY <1>1, <1>2, FS_Subset
<1> QED
  BY <1>3, FS_CardinalityType DEF Generation

LEMMA EnqueueType ==
  ASSUME Types, NEW s \in Session, NEW kind \in JobKinds, NEW text \in Int,
         Enqueue(s, kind, text)
  PROVE  jobs' \in Seq(JobRecord) /\ tail' \in [Session -> Nat]
  BY DEF Types, Enqueue, JobRecord, JobStates

LEMMA WriteType ==
  ASSUME Types, NEW s \in Session, NEW type \in LogTypes, NEW j \in Int, NEW uses \in Int,
         Write(s, type, j, uses)
  PROVE  log' \in [Session -> Seq(LogEvent)]
<1>1. [type |-> type, job |-> j, uses |-> uses] \in LogEvent
  BY DEF LogEvent
<1>2. Append(log[s], [type |-> type, job |-> j, uses |-> uses]) \in Seq(LogEvent)
  BY <1>1 DEF Types
<1> QED
  BY <1>2 DEF Types, Write

LEMMA JobType ==
  ASSUME Types, NEW j \in Job
  PROVE  j \in 1..Len(jobs) /\ jobs[j] \in JobRecord /\ jobs[j].session \in Session
<1>1. j \in 1..Len(jobs) /\ jobs[j] \in JobRecord
  BY DEF Types, Job
<1> QED
  BY <1>1 DEF JobRecord

LEMMA SettlesType ==
  ASSUME Types, NEW j \in Job, NEW value \in BOOLEAN, Settles(j, value)
  PROVE  jobs' \in Seq(JobRecord) /\ tail' \in [Session -> Nat]
<1>1. jobs[j] \in JobRecord /\ j \in 1..Len(jobs)
  BY JobType
<1>2. [jobs[j] EXCEPT !.state = "settled", !.value = value] \in JobRecord
  BY <1>1 DEF JobRecord, JobStates
<1>3. jobs' = [jobs EXCEPT ![j] = [jobs[j] EXCEPT !.state = "settled", !.value = value]]
  BY <1>1 DEF Settles, Types
<1> QED
  <2>1. jobs' \in Seq(JobRecord)
    BY <1>1, <1>2, <1>3 DEF Types
  <2>2. jobs[j].session \in Session
    BY JobType
  <2> QED
    BY <2>1, <2>2 DEF Settles, Types, TailAfter, None

LEMMA AdvancesType ==
  ASSUME Types, NEW j \in Job, NEW state \in JobStates, Advances(j, state)
  PROVE  jobs' \in Seq(JobRecord) /\ tail' \in [Session -> Nat]
<1>1. jobs[j] \in JobRecord /\ j \in 1..Len(jobs)
  BY JobType
<1>2. [jobs[j] EXCEPT !.state = state] \in JobRecord
  BY <1>1 DEF JobRecord, JobStates
<1>3. jobs' = [jobs EXCEPT ![j] = [jobs[j] EXCEPT !.state = state]]
  BY <1>1 DEF Advances, Types
<1> QED
  BY <1>1, <1>2, <1>3 DEF Advances, Types

LEMMA InitTypes == Init => Types
<1>1. NoCall \in ToolCall
  BY DEF NoCall, ToolCall, ToolRecord
<1>2. Init => /\ jobs \in Seq(JobRecord)
              /\ log \in [Session -> Seq(LogEvent)]
  BY DEF Init
<1> QED
  BY <1>1, <1>2 DEF Init, Types, NoDrain, None

LEMMA HostTypes == ASSUME Types, NEW s \in Session, Host(s) PROVE Types'
<1> USE DEF None, NoText, JobKinds, maps, queue
<1>0. Len(jobs) \in Nat /\ Generation(s) \in Int
  BY GenerationType DEF Types
<1>1. CASE OnInboxInserted(s)
  <2>1. jobs' \in Seq(JobRecord) /\ tail' \in [Session -> Nat]
    BY <1>0, <1>1, EnqueueType DEF OnInboxInserted
  <2>2. Remember(s, Len(jobs) + 1) \in Seq(Nat)
    <3> DEFINE all == Append(recent[s], Len(jobs) + 1)
    <3>1. all \in Seq(Nat) /\ Len(all) \in Nat
      BY <1>0 DEF Types
    <3>2. ASSUME NEW n \in 1..Len(all) PROVE SubSeq(all, n, Len(all)) \in Seq(Nat)
      BY <3>1, <3>2, SubSeqProperties
    <3>3. SubSeq(all, 1, Len(all)) = all
      BY <3>1
    <3>4. SubSeq(all, 1 + (IF Len(all) > MaxRecent THEN Len(all) - MaxRecent ELSE 0), Len(all))
            \in Seq(Nat)
      BY <3>1, <3>2, <3>3, BoundAssumption
    <3> QED
      BY <3>4 DEF Remember
  <2> QED
    BY <2>1, <2>2, <1>1 DEF OnInboxInserted, Types
<1>2. CASE OnCompactionStart(s)
  <2>1. jobs' \in Seq(JobRecord) /\ tail' \in [Session -> Nat]
    BY <1>2, EnqueueType DEF OnCompactionStart
  <2> QED
    BY <2>1, <1>2 DEF OnCompactionStart, Types
<1>3. CASE OnCompactionEnd(s)
  <2>1. jobs' \in Seq(JobRecord) /\ tail' \in [Session -> Nat]
    BY <1>3, EnqueueType DEF OnCompactionEnd
  <2> QED
    BY <1>0, <2>1, <1>3 DEF OnCompactionEnd, Types
<1>4. CASE OnStartup(s)
  <2>1. jobs' \in Seq(JobRecord) /\ tail' \in [Session -> Nat] /\ pending' \in [Session -> Nat]
    <3>1. CASE Parent[s] = NoSession
      BY <1>4, <3>1 DEF OnStartup, Types
    <3>2. CASE Parent[s] # NoSession
      <4>1. Enqueue(s, "handoff", NoText)
        BY <1>4, <3>2 DEF OnStartup
      <4>2. pending' = [pending EXCEPT ![s] = Len(jobs) + 1]
        BY <1>4, <3>2 DEF OnStartup
      <4>3. jobs' \in Seq(JobRecord) /\ tail' \in [Session -> Nat]
        BY <4>1, EnqueueType
      <4>4. pending' \in [Session -> Nat]
        BY <1>0, <4>2 DEF Types
      <4> QED
        BY <4>3, <4>4
    <3> QED
      BY <3>1, <3>2
  <2> QED
    BY <2>1, <1>4 DEF OnStartup, Types
<1>5. ASSUME NEW source \in {"resume", "compact"}, OnRecoverySource(s, source) PROVE Types'
  <2>1. jobs' \in Seq(JobRecord) /\ tail' \in [Session -> Nat]
    BY <1>5, EnqueueType DEF OnRecoverySource
  <2> QED
    BY <1>0, <2>1, <1>5 DEF OnRecoverySource, Types
<1>6. CASE OnClear(s)
  <2>1. jobs' \in Seq(JobRecord) /\ tail' \in [Session -> Nat]
    BY <1>6, EnqueueType DEF OnClear
  <2> QED
    BY <2>1, <1>6 DEF OnClear, Types
<1>7. CASE OnAgentDisposed(s)
  <2>1. jobs' \in Seq(JobRecord) /\ tail' \in [Session -> Nat]
    BY <1>7, EnqueueType DEF OnAgentDisposed
  <2> QED
    BY <2>1, <1>7 DEF OnAgentDisposed, Types
<1> QED
  BY <1>1, <1>2, <1>3, <1>4, <1>5, <1>6, <1>7 DEF Host

LEMMA RunJobTypes == ASSUME Types, NEW j \in Job, RunJob(j) PROVE Types'
<1> DEFINE s == jobs[j].session
<1> USE DEF None, JobStates, maps, queue
<1>0. s \in Session /\ j \in Nat /\ jobs[j] \in JobRecord
  BY JobType DEF Types
<1>1. CASE RunOneCall(j)
  <2>1. Effect(jobs[j].kind) \in LogTypes
    BY <1>1 DEF RunOneCall, Runs, Effect, LogTypes
  <2>2. log' \in [Session -> Seq(LogEvent)]
    BY <1>0, <1>1, <2>1, WriteType DEF RunOneCall
  <2>3. jobs' \in Seq(JobRecord) /\ tail' \in [Session -> Nat]
    BY <1>1, SettlesType DEF RunOneCall
  <2> QED
    BY <1>1, <2>2, <2>3 DEF RunOneCall, Types
<1>2. CASE MarkCompaction(j)
  <2>1. log' \in [Session -> Seq(LogEvent)]
    BY <1>0, <1>2, WriteType DEF MarkCompaction, LogTypes
  <2>2. jobs' \in Seq(JobRecord) /\ tail' \in [Session -> Nat]
    BY <1>2, AdvancesType DEF MarkCompaction
  <2> QED
    BY <1>2, <2>1, <2>2 DEF MarkCompaction, Types
<1>3. CASE RecoverMarked(j)
  <2>1. log' \in [Session -> Seq(LogEvent)]
    BY <1>0, <1>3, WriteType DEF RecoverMarked, LogTypes
  <2>2. jobs' \in Seq(JobRecord) /\ tail' \in [Session -> Nat]
    BY <1>3, SettlesType DEF RecoverMarked
  <2> QED
    BY <1>3, <2>1, <2>2 DEF RecoverMarked, Types
<1>4. CASE ReadParent(j)
  <2>1. jobs' \in Seq(JobRecord) /\ tail' \in [Session -> Nat]
    BY <1>4, AdvancesType, SettlesType DEF ReadParent
  <2> QED
    BY <1>4, <2>1 DEF ReadParent, Types
<1>5. CASE ExportParent(j)
  <2>1. jobs' \in Seq(JobRecord) /\ tail' \in [Session -> Nat]
    BY <1>5, AdvancesType DEF ExportParent
  <2> QED
    BY <1>5, <2>1 DEF ExportParent, Types
<1>6. CASE ReadChild(j)
  <2>1. Generation(s) \in Nat
    BY <1>0, GenerationType
  <2>2. [jobs[j] EXCEPT !.state = "importing", !.read = Generation(s)] \in JobRecord
    BY <1>0, <2>1 DEF JobRecord
  <2>3. jobs' = [jobs EXCEPT ![j] = [jobs[j] EXCEPT !.state = "importing", !.read = Generation(s)]]
    BY <1>6, JobType DEF ReadChild, Types
  <2>4. jobs' \in Seq(JobRecord)
    BY <2>2, <2>3, JobType DEF Types
  <2> QED
    BY <1>6, <2>4 DEF ReadChild, Types
<1>7. CASE ImportCapsule(j)
  <2>1. log' \in [Session -> Seq(LogEvent)]
    BY <1>0, <1>7, WriteType DEF ImportCapsule, Types, LogTypes
  <2>2. jobs' \in Seq(JobRecord) /\ tail' \in [Session -> Nat]
    BY <1>7, SettlesType DEF ImportCapsule, ImportOutcome
  <2> QED
    BY <1>7, <2>1, <2>2 DEF ImportCapsule, Types
<1>8. CASE FailJob(j)
  <2>1. [jobs[j] EXCEPT !.state = "settled"] \in JobRecord
    BY <1>0 DEF JobRecord
  <2>2. jobs' = [jobs EXCEPT ![j] = [jobs[j] EXCEPT !.state = "settled"]]
    BY <1>8, JobType DEF FailJob, FailedState, Types
  <2>3. jobs' \in Seq(JobRecord)
    BY <2>1, <2>2, JobType DEF Types
  <2>4. tail' \in [Session -> Nat]
    BY <1>0, <1>8 DEF FailJob, TailAfter, Types
  <2> QED
    BY <1>8, <2>3, <2>4 DEF FailJob, Types
<1> QED
  BY <1>1, <1>2, <1>3, <1>4, <1>5, <1>6, <1>7, <1>8 DEF RunJob

LEMMA WaitTypes == ASSUME Types, NEW s \in Session, PreStep(s) \/ Step(s) PROVE Types'
<1> USE DEF None, maps, queue
<1>1. CASE PreStep(s)
  BY <1>1 DEF PreStep, Types
<1>2. CASE StepSettles(s)
  <2>1. pending' \in [Session -> Nat]
    BY <1>2 DEF StepSettles, PendingAfter, Types
  <2>2. delivered' \in [Session -> Seq(Nat)]
    <3>1. Append(delivered[s], step[s]) \in Seq(Nat)
      BY DEF Types
    <3> QED
      BY <1>2, <3>1 DEF StepSettles, Types
  <2>3. step' \in [Session -> Nat]
    BY <1>2 DEF StepSettles, Types
  <2> QED
    BY <1>2, <2>1, <2>2, <2>3 DEF StepSettles, Types
<1>3. CASE StepGoesOn(s)
  BY <1>3 DEF StepGoesOn, Types
<1> QED
  BY <1>1, <1>2, <1>3 DEF Step

LEMMA TailLeft ==
  ASSUME NEW S, NEW list \in Seq(S), Len(list) > 1
  PROVE  Tail(list) \in Seq(S) /\ Tail(list) # <<>>
<1>1. list # <<>> /\ Len(list) \in Nat
  OBVIOUS
<1>2. Tail(list) \in Seq(S) /\ Len(Tail(list)) = Len(list) - 1
  BY <1>1, HeadTailProperties
<1>3. Len(Tail(list)) # 0
  BY <1>1, <1>2
<1> QED
  BY <1>2, <1>3

LEMMA ToolTypes ==
  ASSUME Types, NEW s \in Session, Tool(s) \/ \E kind \in CallKinds : CallTool(s, kind)
  PROVE  Types'
<1> USE DEF None, maps, queue
<1>0. /\ tool[s] \in ToolCall /\ recent[s] \in Seq(Nat) /\ tail[s] \in Nat
      /\ Generation(s) \in Nat /\ Len(jobs) \in Nat
  BY GenerationType DEF Types
<1>1. ASSUME NEW kind \in CallKinds, CallTool(s, kind) PROVE Types'
  <2> DEFINE call == [NoCall EXCEPT !.phase = "queue", !.wait = {tail[s]} \ {None},
                        !.since = Len(jobs), !.expected = Generation(s), !.kind = kind]
  <2>1. call \in ToolCall
    <3>1. kind \in {"guess", "record", "correct"} /\ {tail[s]} \ {None} \subseteq Nat
      BY <1>0, BoundAssumption
    <3>2. NoCall \in ToolRecord
      BY DEF NoCall, ToolRecord
    <3>3. call \in ToolRecord
      BY <1>0, <3>1, <3>2 DEF ToolRecord
    <3>4. call.phase = "queue"
      BY <3>2 DEF ToolRecord
    <3> QED
      BY <3>3, <3>4 DEF ToolCall
  <2>2. tool' = [tool EXCEPT ![s] = call] /\ calls' = calls + 1
    BY <1>1 DEF CallTool
  <2> HIDE DEF call
  <2>3. tool' \in [Session -> ToolCall] /\ calls' \in Nat
    BY <2>1, <2>2 DEF Types
  <2> QED
    BY <1>1, <2>3 DEF CallTool, Types
<1>2. CASE QueueSettled(s)
  <2> DEFINE call == [tool[s] EXCEPT !.phase = "observations", !.wait = ToSet(recent[s]),
                        !.list = recent[s]]
  <2>1. ToSet(recent[s]) \subseteq Nat
    BY <1>0 DEF ToSet
  <2>2. call \in ToolCall
    BY <1>0, <2>1 DEF ToolCall, ToolRecord
  <2>3. tool' = [tool EXCEPT ![s] = call]
    BY <1>2 DEF QueueSettled, Types
  <2> HIDE DEF call
  <2> QED
    BY <1>2, <2>2, <2>3 DEF QueueSettled, Types
<1>3. CASE ObservationsSettled(s)
  <2> DEFINE list == IF NeedsObservedSource(s) /\ tool[s].list # <<>> THEN Candidates(s) ELSE <<None>>
             call == [tool[s] EXCEPT !.phase = "candidates", !.wait = {}, !.list = list]
  <2>1. list \in Seq(Nat) /\ list # <<>>
    <3>1. tool[s].list \in Seq(Nat)
      BY <1>0 DEF ToolCall, ToolRecord
    <3>2. Candidates(s) \in Seq(Nat) /\ Len(Candidates(s)) = Len(tool[s].list)
      BY <3>1 DEF Candidates, Reverse
    <3>3. <<None>> \in Seq(Nat) /\ <<None>> # <<>>
      OBVIOUS
    <3>4. tool[s].list # <<>> => Candidates(s) # <<>>
      BY <3>1, <3>2
    <3> QED
      BY <3>2, <3>3, <3>4
  <2> HIDE DEF list
  <2>2. call \in ToolCall
    BY <1>0, <2>1 DEF ToolCall, ToolRecord
  <2>3. tool' = [tool EXCEPT ![s] = call]
    BY <1>3 DEF ObservationsSettled, Types, list
  <2> HIDE DEF call
  <2> QED
    BY <1>3, <2>2, <2>3 DEF ObservationsSettled, Types
<1>4. ASSUME NEW a \in {"none", "ok", "unconfirmed", "conflict"}, Answers(s, a)
      PROVE tool' \in [Session -> ToolCall]
  <2> DEFINE call == [tool[s] EXCEPT !.phase = "idle", !.list = <<>>, !.answer = a]
  <2>0. tool[s] \in ToolRecord /\ <<>> \in Seq(Nat)
    BY <1>0 DEF ToolCall
  <2>1. call \in ToolCall
    <3>1. call \in ToolRecord
      BY <1>4, <2>0 DEF ToolRecord
    <3>2. call.phase = "idle"
      BY <2>0 DEF ToolRecord
    <3> QED
      BY <3>1, <3>2 DEF ToolCall
  <2>2. tool' = [tool EXCEPT ![s] = call]
    BY <1>4 DEF Answers, Types
  <2> HIDE DEF call
  <2> QED
    BY <2>1, <2>2 DEF Types
<1>5. CASE TryCandidate(s)
  <2>1. CASE Conflicts(s)
    BY <1>4, <1>5, <2>1 DEF TryCandidate, Conflicts, Types
  <2>2. tool[s].list \in Seq(Nat) /\ tool[s].list # <<>>
    BY <1>0, <1>5 DEF TryCandidate, ToolCall, ToolRecord
  <2>3. Head(tool[s].list) \in Nat
    BY <2>2
  <2>4. CASE Accepted(s, Head(tool[s].list))
    <3>1. tool' \in [Session -> ToolCall]
      BY <1>4, <2>4 DEF Accepted
    <3>2. log' \in [Session -> Seq(LogEvent)]
      BY <2>3, <2>4, WriteType DEF Accepted, LogTypes
    <3> QED
      BY <1>5, <3>1, <3>2 DEF TryCandidate, Types
  <2>5. CASE Refused(s, Head(tool[s].list))
    <3>1. CASE Answers(s, "unconfirmed")
      BY <1>4, <1>5, <2>5, <3>1 DEF TryCandidate, Refused, Types
    <3>2. CASE Len(tool[s].list) > 1 /\ tool' = [tool EXCEPT ![s].list = Tail(@)]
      <4> DEFINE call == [tool[s] EXCEPT !.list = Tail(tool[s].list)]
      <4>1. Tail(tool[s].list) \in Seq(Nat) /\ Tail(tool[s].list) # <<>>
        BY <2>2, <3>2, TailLeft
      <4>2. call \in ToolCall
        BY <1>0, <4>1 DEF ToolCall, ToolRecord
      <4>3. tool' = [tool EXCEPT ![s] = call]
        BY <3>2 DEF Types
      <4> HIDE DEF call
      <4> QED
        BY <1>5, <2>5, <4>2, <4>3 DEF TryCandidate, Refused, Types
    <3> QED
      BY <2>5, <3>1, <3>2 DEF Refused
  <2> QED
    BY <1>5, <2>1, <2>4, <2>5 DEF TryCandidate
<1> QED
  BY <1>1, <1>2, <1>3, <1>5 DEF Tool

LEMMA NextTypes == Types /\ [Next]_vars => Types'
<1> SUFFICES ASSUME Types, [Next]_vars PROVE Types'
  OBVIOUS
<1>1. ASSUME NEW s \in Session, OtherWrite(s) PROVE Types'
  <2>1. log' \in [Session -> Seq(LogEvent)]
    BY <1>1, WriteType DEF OtherWrite, None, LogTypes
  <2> QED
    BY <1>1, <2>1 DEF OtherWrite, Types, maps, queue
<1>2. CASE Drain
  <2>1. DrainWait \subseteq Nat /\ Len(jobs) \in Nat
    BY DEF DrainWait, Types
  <2>2. drain' \in [phase : {"loaded", "draining", "drained"}, wait : SUBSET Nat, since : Nat]
    BY <1>2, <2>1 DEF Drain
  <2> QED
    BY <1>2, <2>2 DEF Drain, Types, maps, queue
<1>3. CASE DrainReturns
  BY <1>3 DEF DrainReturns, Types, maps, queue
<1>4. CASE UNCHANGED vars
  BY <1>4 DEF vars, queue, maps, Types
<1> QED
  BY <1>1, <1>2, <1>3, <1>4, HostTypes, RunJobTypes, WaitTypes, ToolTypes DEF Next

----------------------------------------------------------------------------
(* What a step can do to the queue and the ledgers: a host event appends a  *)
(* job behind the last one of its session, a job whose predecessor has      *)
(* settled goes on or settles and may write, and everything else leaves the *)
(* queue as it is and writes no event of a job.                             *)

Grows(s, kind) == (\E text \in Int : Enqueue(s, kind, text)) /\ UNCHANGED log

Works(j) ==
  /\ ~Settled(j) /\ (jobs[j].after # None => Settled(jobs[j].after))
  /\ \E r \in JobRecord :
       /\ jobs' = [jobs EXCEPT ![j] = r]
       /\ r.session = jobs[j].session /\ r.kind = jobs[j].kind /\ r.after = jobs[j].after
       /\ r.text = jobs[j].text /\ r.state # "queued"
       /\ tail' = IF r.state = "settled"
                  THEN [tail EXCEPT ![jobs[j].session] = TailAfter(jobs[j].session, j)]
                  ELSE tail
  /\ \/ UNCHANGED log
     \/ \E type \in LogTypes : Write(jobs[j].session, type, j, None)

Rests ==
  /\ UNCHANGED queue
  /\ \/ UNCHANGED log
     \/ \E s \in Session, type \in LogTypes, j \in {None, -1}, uses \in Int : Write(s, type, j, uses)

LEMMA HostGrows ==
  ASSUME Types, NEW s \in Session, Host(s)
  PROVE  Rests \/ \E kind \in JobKinds : Grows(s, kind)
<1> USE DEF Grows, JobKinds, NoText
<1>0. Generation(s) \in Int
  BY GenerationType
<1>1. CASE OnInboxInserted(s)
  BY <1>0, <1>1 DEF OnInboxInserted
<1>2. CASE OnCompactionStart(s)
  BY <1>2 DEF OnCompactionStart
<1>3. CASE OnCompactionEnd(s)
  BY <1>3 DEF OnCompactionEnd
<1>4. CASE OnStartup(s)
  BY <1>4 DEF OnStartup, Rests
<1>5. ASSUME NEW source \in {"resume", "compact"}, OnRecoverySource(s, source)
      PROVE \E kind \in JobKinds : Grows(s, kind)
  BY <1>5 DEF OnRecoverySource
<1>6. CASE OnClear(s)
  BY <1>6 DEF OnClear
<1>7. CASE OnAgentDisposed(s)
  BY <1>7 DEF OnAgentDisposed
<1> QED
  BY <1>1, <1>2, <1>3, <1>4, <1>5, <1>6, <1>7 DEF Host

LEMMA SettlesWorks ==
  ASSUME Types, NEW j \in Job, NEW value \in BOOLEAN, Settles(j, value),
         ~Settled(j), jobs[j].after # None => Settled(jobs[j].after),
         UNCHANGED log \/ \E type \in LogTypes : Write(jobs[j].session, type, j, None)
  PROVE  Works(j)
<1> DEFINE r == [jobs[j] EXCEPT !.state = "settled", !.value = value]
<1>1. jobs[j] \in JobRecord
  BY JobType
<1>2. r \in JobRecord /\ r.session = jobs[j].session /\ r.kind = jobs[j].kind
      /\ r.after = jobs[j].after /\ r.text = jobs[j].text /\ r.state = "settled"
  BY <1>1 DEF JobRecord, JobStates
<1>3. jobs' = [jobs EXCEPT ![j] = r]
  BY <1>1 DEF Settles, Types
<1> HIDE DEF r
<1> QED
  BY <1>2, <1>3 DEF Settles, Works

LEMMA AdvancesWorks ==
  ASSUME Types, NEW j \in Job, NEW state \in JobStates \ {"queued", "settled"}, Advances(j, state),
         ~Settled(j), jobs[j].after # None => Settled(jobs[j].after),
         UNCHANGED log \/ \E type \in LogTypes : Write(jobs[j].session, type, j, None)
  PROVE  Works(j)
<1> DEFINE r == [jobs[j] EXCEPT !.state = state]
<1>1. jobs[j] \in JobRecord
  BY JobType
<1>2. r \in JobRecord /\ r.session = jobs[j].session /\ r.kind = jobs[j].kind
      /\ r.after = jobs[j].after /\ r.text = jobs[j].text /\ r.state \notin {"queued", "settled"}
  BY <1>1 DEF JobRecord, JobStates
<1>3. jobs' = [jobs EXCEPT ![j] = r]
  BY <1>1 DEF Advances, Types
<1> HIDE DEF r
<1> QED
  BY <1>2, <1>3 DEF Advances, Works

LEMMA RunJobWorks == ASSUME Types, NEW j \in Job, RunJob(j) PROVE Works(j)
<1> USE DEF Runs, Settled, maps
<1>1. CASE RunOneCall(j)
  <2>1. Effect(jobs[j].kind) \in LogTypes
    BY <1>1 DEF RunOneCall, Effect, LogTypes
  <2> QED
    BY <1>1, <2>1, SettlesWorks DEF RunOneCall
<1>2. CASE MarkCompaction(j)
  BY <1>2, AdvancesWorks DEF MarkCompaction, LogTypes, JobStates
<1>3. CASE RecoverMarked(j)
  BY <1>3, SettlesWorks DEF RecoverMarked, LogTypes
<1>4. CASE ReadParent(j)
  BY <1>4, AdvancesWorks, SettlesWorks DEF ReadParent, JobStates
<1>5. CASE ExportParent(j)
  BY <1>5, AdvancesWorks DEF ExportParent, JobStates
<1>6. CASE ReadChild(j)
  <2> DEFINE r == [jobs[j] EXCEPT !.state = "importing", !.read = Generation(jobs[j].session)]
  <2>1. jobs[j] \in JobRecord /\ Generation(jobs[j].session) \in Nat
    BY JobType, GenerationType
  <2>2. r \in JobRecord /\ r.session = jobs[j].session /\ r.kind = jobs[j].kind
        /\ r.after = jobs[j].after /\ r.text = jobs[j].text /\ r.state \notin {"queued", "settled"}
    BY <2>1 DEF JobRecord, JobStates
  <2>3. jobs' = [jobs EXCEPT ![j] = r]
    BY <1>6 DEF ReadChild, Types
  <2> HIDE DEF r
  <2> QED
    BY <1>6, <2>2, <2>3 DEF ReadChild, Works
<1>7. CASE ImportCapsule(j)
  BY <1>7, SettlesWorks DEF ImportCapsule, ImportOutcome, LogTypes
<1>8. CASE FailJob(j)
  <2> DEFINE r == [jobs[j] EXCEPT !.state = "settled"]
  <2>1. jobs[j] \in JobRecord
    BY JobType
  <2>2. r \in JobRecord /\ r.session = jobs[j].session /\ r.kind = jobs[j].kind
        /\ r.after = jobs[j].after /\ r.text = jobs[j].text /\ r.state = "settled"
    BY <2>1 DEF JobRecord, JobStates
  <2>3. jobs' = [jobs EXCEPT ![j] = r]
    BY <1>8 DEF FailJob, FailedState, Types
  <2> HIDE DEF r
  <2> QED
    BY <1>8, <2>2, <2>3 DEF FailJob, Works
<1> QED
  BY <1>1, <1>2, <1>3, <1>4, <1>5, <1>6, <1>7, <1>8 DEF RunJob

LEMMA NextRests ==
  ASSUME Types, [Next]_vars, ~(\E s \in Session : Host(s)), ~(\E j \in Job : RunJob(j))
  PROVE  Rests
<1>1. ASSUME NEW s \in Session, TryCandidate(s) PROVE Rests
  <2>1. tool[s].list \in Seq(Nat) /\ tool[s].list # <<>>
    BY <1>1 DEF TryCandidate, Types, ToolCall, ToolRecord
  <2>2. Head(tool[s].list) \in Nat
    BY <2>1
  <2>3. ASSUME NEW c \in Nat, Accepted(s, c) PROVE Rests
    BY <1>1, <2>3 DEF TryCandidate, Accepted, Rests, LogTypes, None
  <2>4. ASSUME NEW c \in Nat, Conflicts(s) \/ Refused(s, c) PROVE Rests
    BY <1>1, <2>4 DEF TryCandidate, Conflicts, Refused, Rests
  <2> QED
    BY <1>1, <2>2, <2>3, <2>4 DEF TryCandidate
<1>2. ASSUME NEW s \in Session, OtherWrite(s) PROVE Rests
  BY <1>2 DEF OtherWrite, Rests, LogTypes, None
<1>3. ASSUME NEW s \in Session,
             PreStep(s) \/ Step(s) \/ QueueSettled(s) \/ ObservationsSettled(s)
               \/ \E kind \in CallKinds : CallTool(s, kind)
      PROVE  Rests
  BY <1>3 DEF PreStep, Step, StepSettles, StepGoesOn, QueueSettled, ObservationsSettled,
       CallTool, Rests, queue
<1>4. CASE Drain \/ DrainReturns \/ UNCHANGED vars
  BY <1>4 DEF Drain, DrainReturns, vars, queue, Rests
<1> QED
  BY <1>1, <1>2, <1>3, <1>4 DEF Next, Tool

LEMMA NextQueue ==
  ASSUME Types, [Next]_vars
  PROVE  \/ \E s \in Session, kind \in JobKinds : Grows(s, kind)
         \/ \E j \in Job : Works(j)
         \/ Rests
  BY NextRests, HostGrows, RunJobWorks

----------------------------------------------------------------------------
(* The queue of a session: its tail is its last job unless all have         *)
(* settled, a job follows the last one unsettled when it was queued, and so *)
(* jobs settle, and write, in the order in which they were queued.          *)

Earlier(k, j) == k < j /\ jobs[k].session = jobs[j].session

TailIsLast ==
  \A s \in Session :
    IF tail[s] = None THEN \A j \in Job : jobs[j].session = s => Settled(j)
    ELSE /\ tail[s] \in Job /\ jobs[tail[s]].session = s /\ ~Settled(tail[s])
         /\ \A j \in Job : jobs[j].session = s => j <= tail[s]

FollowsLast ==
  \A j \in Job :
    /\ jobs[j].after < j
    /\ jobs[j].after # None => jobs[jobs[j].after].session = jobs[j].session
    /\ \A k \in Job : Earlier(k, j) => k <= jobs[j].after \/ Settled(k)

SettlesInOrder == \A j, k \in Job : Earlier(k, j) /\ Settled(j) => Settled(k)

WritesInOrder ==
  \A s \in Session : \A n \in DOMAIN log[s] : log[s][n].job > 0 =>
    /\ log[s][n].job \in Job /\ jobs[log[s][n].job].session = s
    /\ \A k \in Job : Earlier(k, log[s][n].job) => Settled(k)

QueueInv ==
  Types /\ TailIsLast /\ FollowsLast /\ SettlesInOrder /\ WritesInOrder /\ JobsInHostOrder

LEMMA Domains ==
  ASSUME Types
  PROVE  /\ Job = 1..Len(jobs) /\ Len(jobs) \in Nat
         /\ \A s \in Session : DOMAIN log[s] = 1..Len(log[s]) /\ Len(log[s]) \in Nat
  BY DEF Types, Job

LEMMA Growth ==
  ASSUME Types, NEW s \in Session, NEW kind \in JobKinds, Grows(s, kind)
  PROVE  /\ Job' = 1..(Len(jobs) + 1) /\ UNCHANGED log
         /\ \A j \in Job : jobs'[j] = jobs[j]
         /\ jobs'[Len(jobs) + 1].session = s /\ jobs'[Len(jobs) + 1].after = tail[s]
         /\ jobs'[Len(jobs) + 1].state = "queued" /\ jobs'[Len(jobs) + 1].kind = kind
         /\ tail' = [tail EXCEPT ![s] = Len(jobs) + 1]
<1>1. PICK text \in Int : Enqueue(s, kind, text)
  BY DEF Grows
<1> DEFINE job == [session |-> s, kind |-> kind, after |-> tail[s], text |-> text,
                   state |-> "queued", read |-> 0, value |-> FALSE]
<1>2. /\ jobs' = Append(jobs, job) /\ UNCHANGED log
      /\ tail' = [tail EXCEPT ![s] = Len(jobs) + 1]
  BY <1>1 DEF Enqueue, Grows
<1>3. jobs \in Seq(JobRecord) /\ job \in JobRecord
  BY <1>1 DEF Types, JobRecord, JobStates
<1> HIDE DEF job
<1>4. /\ Len(jobs') = Len(jobs) + 1
      /\ \A j \in 1..Len(jobs) : jobs'[j] = jobs[j]
      /\ jobs'[Len(jobs) + 1] = job
  BY <1>2, <1>3
<1>5. Job' = 1..(Len(jobs) + 1) /\ \A j \in Job : jobs'[j] = jobs[j]
  BY <1>2, <1>3, <1>4, Domains DEF Job
<1>6. /\ job.session = s /\ job.after = tail[s]
      /\ job.state = "queued" /\ job.kind = kind
  BY DEF job
<1> QED
  BY <1>2, <1>4, <1>5, <1>6

LEMMA Work ==
  ASSUME Types, NEW j \in Job, Works(j)
  PROVE  /\ Job' = Job
         /\ \A k \in Job : /\ jobs'[k].session = jobs[k].session
                           /\ jobs'[k].kind = jobs[k].kind /\ jobs'[k].text = jobs[k].text
                           /\ jobs'[k].after = jobs[k].after
                           /\ k # j => jobs'[k] = jobs[k]
                           /\ Settled(k) => Settled(k)'
         /\ tail' = IF Settled(j)' THEN [tail EXCEPT ![jobs[j].session] = TailAfter(jobs[j].session, j)]
                    ELSE tail
<1>1. PICK r \in JobRecord :
        /\ jobs' = [jobs EXCEPT ![j] = r]
        /\ r.session = jobs[j].session /\ r.kind = jobs[j].kind /\ r.after = jobs[j].after
        /\ r.text = jobs[j].text
        /\ tail' = IF r.state = "settled"
                   THEN [tail EXCEPT ![jobs[j].session] = TailAfter(jobs[j].session, j)]
                   ELSE tail
  BY DEF Works
<1> QED
  BY <1>1 DEF Works, Types, Job, Settled

LEMMA Written ==
  ASSUME Types, NEW s \in Session, NEW type \in LogTypes, NEW j \in Int, NEW uses \in Int,
         Write(s, type, j, uses)
  PROVE  /\ \A t \in Session : \A n \in DOMAIN log[t] : n \in DOMAIN log'[t] /\ log'[t][n] = log[t][n]
         /\ \A t \in Session : \A n \in DOMAIN log'[t] \ DOMAIN log[t] :
              t = s /\ n = Len(log[s]) + 1 /\ log'[t][n].job = j
<1> DEFINE e == [type |-> type, job |-> j, uses |-> uses]
<1>1. e.job = j
  OBVIOUS
<1>2. log' = [log EXCEPT ![s] = Append(log[s], e)]
  BY DEF Write
<1> HIDE DEF e
<1>3. /\ DOMAIN Append(log[s], e) = 1..(Len(log[s]) + 1)
      /\ Append(log[s], e)[Len(log[s]) + 1] = e
      /\ \A n \in DOMAIN log[s] : Append(log[s], e)[n] = log[s][n]
      /\ DOMAIN log[s] = 1..Len(log[s]) /\ Len(log[s]) \in Nat
  BY Domains, AppendProperties DEF Types
<1>4. log'[s] = Append(log[s], e) /\ \A t \in Session : t # s => log'[t] = log[t]
  BY <1>2 DEF Types
<1> QED
  BY <1>1, <1>3, <1>4

LEMMA EarlierSettled ==
  ASSUME QueueInv, NEW j \in Job, jobs[j].after # None => Settled(jobs[j].after),
         NEW k \in Job, Earlier(k, j)
  PROVE  Settled(k)
<1>1. jobs[j].after \in Nat /\ j \in Nat /\ k \in Nat /\ k > 0
  BY JobType, Domains DEF QueueInv, JobRecord
<1>2. CASE k <= jobs[j].after /\ jobs[j].after # k
  <2>1. jobs[j].after \in Job /\ jobs[j].after # None
    BY <1>1, <1>2, Domains DEF QueueInv, FollowsLast, None
  <2>2. Earlier(k, jobs[j].after)
    BY <1>1, <1>2, <2>1 DEF QueueInv, FollowsLast, Earlier
  <2> QED
    BY <2>1, <2>2 DEF QueueInv, SettlesInOrder
<1> QED
  BY <1>1, <1>2 DEF QueueInv, FollowsLast, None

LEMMA GrowsQueue ==
  ASSUME QueueInv, Types', NEW s \in Session, NEW kind \in JobKinds, Grows(s, kind)
  PROVE  QueueInv'
<1>0. Types /\ Len(jobs) \in Nat
  BY Domains DEF QueueInv
<1> PICK new \in Nat : new = Len(jobs) + 1
  BY <1>0
<1>1. /\ Job = 1..Len(jobs) /\ Len(jobs) \in Nat /\ Job' = 1..new /\ UNCHANGED log
      /\ \A j \in Job : jobs'[j] = jobs[j]
      /\ jobs'[new].session = s /\ jobs'[new].after = tail[s]
      /\ jobs'[new].state = "queued"
      /\ tail' = [tail EXCEPT ![s] = new]
  BY <1>0, Growth, Domains
<1>2. \A j \in Job : /\ Settled(j)' <=> Settled(j)
                     /\ j \in Job' /\ j < new
  BY <1>1 DEF Settled
<1>3. ~Settled(new)' /\ new \in Job' /\ \A j \in Job' : j \in Job \/ j = new
  BY <1>1 DEF Settled
<1>4. TailIsLast'
  <2> SUFFICES ASSUME NEW t \in Session
               PROVE  IF tail'[t] = None THEN \A j \in Job' : jobs'[j].session = t => Settled(j)'
                      ELSE /\ tail'[t] \in Job' /\ jobs'[tail'[t]].session = t /\ jobs'[tail'[t]].state # "settled"
                           /\ \A j \in Job' : jobs'[j].session = t => j <= tail'[t]
    BY DEF TailIsLast, Settled
  <2>1. CASE t = s
    BY <1>0, <1>1, <1>2, <1>3, <2>1 DEF None, Types
  <2>2. CASE t # s
    <3>1. tail'[t] = tail[t]
      BY <1>0, <1>1, <2>2 DEF Types
    <3>2. CASE tail[t] = None
      <4>1. \A j \in Job : jobs[j].session = t => Settled(j)
        BY <3>2 DEF QueueInv, TailIsLast
      <4> QED
        BY <1>1, <1>2, <1>3, <2>2, <3>1, <3>2, <4>1
    <3>3. CASE tail[t] # None
      <4>1. /\ tail[t] \in Job /\ jobs[tail[t]].session = t /\ ~Settled(tail[t])
            /\ \A j \in Job : jobs[j].session = t => j <= tail[t]
        BY <3>3 DEF QueueInv, TailIsLast
      <4> QED
        BY <1>1, <1>2, <1>3, <2>2, <3>1, <3>3, <4>1 DEF Settled
    <3> QED
      BY <3>2, <3>3
  <2> QED
    BY <2>1, <2>2
<1>5. FollowsLast'
  <2>1. ASSUME NEW j \in Job
        PROVE  /\ jobs'[j].after < j
               /\ jobs'[j].after # None => jobs'[jobs'[j].after].session = jobs'[j].session
               /\ \A k \in Job' : Earlier(k, j)' => k <= jobs'[j].after \/ Settled(k)'
    <3>1. jobs[j].after \in Nat
      BY <1>0, JobType DEF JobRecord
    <3>2. jobs[j].after # None => jobs[j].after \in Job
      BY <1>0, <1>1, <3>1 DEF QueueInv, FollowsLast, None
    <3> QED
      BY <1>1, <1>2, <1>3, <3>1, <3>2 DEF QueueInv, FollowsLast, Earlier
  <2>2. /\ tail[s] < new
        /\ tail[s] # None => tail[s] \in Job /\ jobs[tail[s]].session = s
        /\ \A k \in Job : jobs[k].session = s => k <= tail[s] \/ Settled(k)
    <3>1. tail[s] \in Nat
      BY <1>0 DEF Types
    <3>2. CASE tail[s] = None
      BY <3>2 DEF QueueInv, TailIsLast, None
    <3>3. CASE tail[s] # None
      <4>1. /\ tail[s] \in Job /\ jobs[tail[s]].session = s
            /\ \A j \in Job : jobs[j].session = s => j <= tail[s]
        BY <3>3 DEF QueueInv, TailIsLast
      <4> QED
        BY <1>2, <4>1
    <3> QED
      BY <3>2, <3>3
  <2>3. /\ jobs'[new].after < new
        /\ jobs'[new].after # None => jobs'[jobs'[new].after].session = jobs'[new].session
        /\ \A k \in Job' : Earlier(k, new)' => k <= jobs'[new].after \/ Settled(k)'
    BY <1>1, <1>2, <1>3, <2>2 DEF Earlier
  <2> QED
    BY <1>3, <2>1, <2>3 DEF FollowsLast
<1>6. SettlesInOrder'
  BY <1>1, <1>2, <1>3 DEF QueueInv, SettlesInOrder, Earlier
<1>7. WritesInOrder'
  BY <1>1, <1>2, <1>3 DEF QueueInv, WritesInOrder, Earlier
<1>8. JobsInHostOrder'
  BY <1>1 DEF QueueInv, JobsInHostOrder
<1> QED
  BY <1>4, <1>5, <1>6, <1>7, <1>8 DEF QueueInv

LEMMA WorksQueue ==
  ASSUME QueueInv, Types', NEW j \in Job, Works(j) PROVE QueueInv'
<1>0. Types /\ jobs[j].session \in Session /\ j \in Nat /\ j > 0 /\ Job = 1..Len(jobs)
      /\ Len(jobs) \in Nat
  BY Domains, JobType DEF QueueInv
<1>1. /\ Job' = Job
      /\ \A k \in Job : /\ jobs'[k].session = jobs[k].session
                        /\ jobs'[k].after = jobs[k].after
                        /\ k # j => jobs'[k] = jobs[k]
                        /\ Settled(k) => Settled(k)'
      /\ tail' = IF Settled(j)' THEN [tail EXCEPT ![jobs[j].session] = TailAfter(jobs[j].session, j)]
                 ELSE tail
  BY <1>0, Work
<1>2. ~Settled(j) /\ \A k \in Job : Earlier(k, j) => Settled(k)
  BY EarlierSettled DEF Works
<1>3. \A k \in Job : k # j => (Settled(k)' <=> Settled(k))
  BY <1>1 DEF Settled
<1>4. tail[jobs[j].session] # None
  BY <1>0, <1>2 DEF QueueInv, TailIsLast
<1>5. TailIsLast'
  <2> SUFFICES ASSUME NEW t \in Session
               PROVE  IF tail'[t] = None THEN \A k \in Job : jobs[k].session = t => Settled(k)'
                      ELSE /\ tail'[t] \in Job /\ jobs[tail'[t]].session = t
                           /\ jobs'[tail'[t]].state # "settled"
                           /\ \A k \in Job : jobs[k].session = t => k <= tail'[t]
    BY <1>1 DEF TailIsLast, Settled
  <2>1. CASE tail[t] = None
    <3>1. tail'[t] = None
      BY <1>0, <1>1, <1>4, <2>1 DEF Types
    <3>2. \A k \in Job : jobs[k].session = t => Settled(k)
      BY <2>1 DEF QueueInv, TailIsLast
    <3> QED
      BY <1>1, <3>1, <3>2
  <2>2. CASE tail[t] # None
    <3>1. /\ tail[t] \in Job /\ jobs[tail[t]].session = t /\ ~Settled(tail[t])
          /\ \A k \in Job : jobs[k].session = t => k <= tail[t]
      BY <2>2 DEF QueueInv, TailIsLast
    <3>2. CASE tail[t] = j /\ Settled(j)'
      <4>1. tail'[t] = None
        BY <1>0, <1>1, <3>1, <3>2 DEF Types, TailAfter
      <4>2. \A k \in Job : jobs[k].session = t => k = j \/ Earlier(k, j)
        BY <1>0, <3>1, <3>2 DEF Earlier
      <4> QED
        BY <1>1, <1>2, <3>2, <4>1, <4>2
    <3>3. CASE ~(tail[t] = j /\ Settled(j)')
      <4>1. tail'[t] = tail[t]
        BY <1>0, <1>1, <3>1, <3>3 DEF Types, TailAfter
      <4>2. jobs'[tail[t]].state # "settled"
        BY <1>3, <3>1, <3>3 DEF Settled
      <4> QED
        BY <2>2, <3>1, <4>1, <4>2
    <3> QED
      BY <3>2, <3>3
  <2> QED
    BY <2>1, <2>2
<1>6. FollowsLast'
  <2> SUFFICES ASSUME NEW i \in Job
               PROVE  /\ jobs[i].after < i
                      /\ jobs[i].after # None => jobs'[jobs[i].after].session = jobs[i].session
                      /\ \A k \in Job : Earlier(k, i) => k <= jobs[i].after \/ Settled(k)'
    BY <1>1 DEF FollowsLast, Earlier
  <2>1. jobs[i].after \in Nat /\ (jobs[i].after # None => jobs[i].after \in Job)
    <3>1. jobs[i].after \in Nat
      BY <1>0, JobType DEF JobRecord
    <3> QED
      BY <1>0, <3>1 DEF QueueInv, FollowsLast, None
  <2> QED
    BY <1>1, <2>1 DEF QueueInv, FollowsLast
<1>7. SettlesInOrder'
  <2> SUFFICES ASSUME NEW i \in Job, NEW k \in Job, Earlier(k, i), Settled(i)'
               PROVE  Settled(k)'
    BY <1>1 DEF SettlesInOrder, Earlier
  <2>1. CASE i = j
    BY <1>1, <1>2, <2>1
  <2>2. CASE i # j
    BY <1>1, <1>3, <2>2 DEF QueueInv, SettlesInOrder
  <2> QED
    BY <2>1, <2>2
<1>8. /\ \A s \in Session : \A n \in DOMAIN log[s] : n \in DOMAIN log'[s] /\ log'[s][n] = log[s][n]
      /\ \A s \in Session : \A n \in DOMAIN log'[s] \ DOMAIN log[s] :
            s = jobs[j].session /\ log'[s][n].job = j /\ \A m \in DOMAIN log'[s] : m < n => m \in DOMAIN log[s]
  <2>1. CASE UNCHANGED log
    BY <2>1
  <2>2. ASSUME NEW type \in LogTypes, Write(jobs[j].session, type, j, None)
        PROVE  /\ \A s \in Session : \A n \in DOMAIN log[s] : n \in DOMAIN log'[s] /\ log'[s][n] = log[s][n]
               /\ \A s \in Session : \A n \in DOMAIN log'[s] \ DOMAIN log[s] :
                    s = jobs[j].session /\ n = Len(log[s]) + 1 /\ log'[s][n].job = j
    BY <1>0, <2>2, Written DEF None
  <2>3. \A s \in Session : DOMAIN log'[s] = 1..Len(log'[s]) /\ Len(log'[s]) \in Nat
                           /\ DOMAIN log[s] = 1..Len(log[s]) /\ Len(log[s]) \in Nat
    <3>1. log \in [Session -> Seq(LogEvent)] /\ log' \in [Session -> Seq(LogEvent)]
      BY <1>0 DEF Types
    <3> QED
      BY <3>1
  <2> QED
    BY <2>1, <2>2, <2>3 DEF Works
<1>9. WritesInOrder'
  <2> SUFFICES ASSUME NEW s \in Session, NEW n \in DOMAIN log'[s], log'[s][n].job > 0
               PROVE  /\ log'[s][n].job \in Job /\ jobs[log'[s][n].job].session = s
                      /\ \A k \in Job : Earlier(k, log'[s][n].job) => Settled(k)'
    BY <1>1 DEF WritesInOrder, Earlier
  <2>1. CASE n \in DOMAIN log[s]
    BY <1>1, <1>8, <2>1 DEF QueueInv, WritesInOrder
  <2>2. CASE n \notin DOMAIN log[s]
    BY <1>1, <1>2, <1>8, <2>2
  <2> QED
    BY <2>1, <2>2
<1>10. JobsInHostOrder'
  <2> SUFFICES ASSUME NEW s \in Session, NEW m \in DOMAIN log'[s], NEW n \in DOMAIN log'[s],
                      m < n, log'[s][m].job > 0, log'[s][n].job > 0
               PROVE  log'[s][m].job <= log'[s][n].job
    BY DEF JobsInHostOrder
  <2>1. CASE n \in DOMAIN log[s]
    <3>1. log[s] \in Seq(LogEvent) /\ log'[s] \in Seq(LogEvent)
      BY <1>0 DEF Types
    <3>2. m \in 1..Len(log'[s]) /\ n \in 1..Len(log[s]) /\ DOMAIN log[s] = 1..Len(log[s])
      BY <2>1, <3>1
    <3>3. m \in DOMAIN log[s]
      BY <3>1, <3>2
    <3> QED
      BY <1>8, <2>1, <3>3 DEF QueueInv, JobsInHostOrder
  <2>2. CASE n \notin DOMAIN log[s]
    <3>1. s = jobs[j].session /\ log'[s][n].job = j /\ m \in DOMAIN log[s]
      BY <1>8, <2>2
    <3>2. log[s][m].job = log'[s][m].job
      BY <1>8, <3>1
    <3>3. /\ log[s][m].job \in Job /\ jobs[log[s][m].job].session = s
          /\ \A k \in Job : Earlier(k, log[s][m].job) => Settled(k)
      BY <3>1, <3>2 DEF QueueInv, WritesInOrder
    <3>4. ~(j < log[s][m].job)
      BY <1>2, <3>1, <3>3 DEF Earlier
    <3> QED
      BY <1>0, <3>1, <3>2, <3>3, <3>4
  <2> QED
    BY <2>1, <2>2
<1> QED
  BY <1>5, <1>6, <1>7, <1>9, <1>10 DEF QueueInv

LEMMA RestsQueue ==
  ASSUME QueueInv, Types', Rests PROVE QueueInv'
<1>0. Types /\ UNCHANGED <<jobs, tail>>
  BY DEF QueueInv, Rests, queue
<1>1. Job' = Job /\ \A j \in Job : Settled(j)' <=> Settled(j)
  BY <1>0 DEF Job, Settled
<1>2. /\ \A s \in Session : \A n \in DOMAIN log[s] : n \in DOMAIN log'[s] /\ log'[s][n] = log[s][n]
      /\ \A s \in Session : \A n \in DOMAIN log'[s] \ DOMAIN log[s] : ~(log'[s][n].job > 0)
  <2>1. CASE UNCHANGED log
    BY <2>1
  <2>2. ASSUME NEW s \in Session, NEW type \in LogTypes, NEW j \in {None, -1}, NEW uses \in Int,
               Write(s, type, j, uses)
        PROVE  /\ \A t \in Session : \A n \in DOMAIN log[t] : n \in DOMAIN log'[t] /\ log'[t][n] = log[t][n]
               /\ \A t \in Session : \A n \in DOMAIN log'[t] \ DOMAIN log[t] : ~(log'[t][n].job > 0)
    BY <1>0, <2>2, Written DEF None
  <2> QED
    BY <2>1, <2>2 DEF Rests
<1>3. TailIsLast' /\ FollowsLast' /\ SettlesInOrder'
  BY <1>0, <1>1 DEF QueueInv, TailIsLast, FollowsLast, SettlesInOrder, Earlier, Settled, Job
<1>4. WritesInOrder'
  BY <1>0, <1>1, <1>2 DEF QueueInv, WritesInOrder, Earlier
<1>5. JobsInHostOrder'
  BY <1>2 DEF QueueInv, JobsInHostOrder
<1> QED
  BY <1>3, <1>4, <1>5 DEF QueueInv

LEMMA InitQueue == Init => QueueInv
<1> SUFFICES ASSUME Init PROVE QueueInv
  OBVIOUS
<1>1. Types /\ Job = {} /\ \A s \in Session : DOMAIN log[s] = {} /\ tail[s] = None
  BY InitTypes DEF Init, Job
<1> QED
  BY <1>1 DEF QueueInv, TailIsLast, FollowsLast, SettlesInOrder, WritesInOrder, JobsInHostOrder

LEMMA NextInOrder == QueueInv /\ [Next]_vars => QueueInv'
<1> SUFFICES ASSUME QueueInv, [Next]_vars PROVE QueueInv'
  OBVIOUS
<1>1. Types /\ Types'
  BY NextTypes DEF QueueInv
<1> QED
  BY <1>1, NextQueue, GrowsQueue, WorksQueue, RestsQueue

(* However long each job of a session takes and whichever fails, its ledger *)
(* shows the events of the host in the order in which they were emitted     *)
(* (SessionWorkQueue, index.js:234-268).                                    *)
THEOREM JobsInOrder == Spec => []JobsInHostOrder
<1>1. QueueInv => JobsInHostOrder
  BY DEF QueueInv
<1> QED
  BY <1>1, InitQueue, NextInOrder, PTL DEF Spec

----------------------------------------------------------------------------
(* What a step keeps of the jobs: a job stays with its session and kind,    *)
(* and a settled one does not change.                                       *)

Keeps ==
  /\ Len(jobs) <= Len(jobs')
  /\ \A k \in Job : /\ k \in Job'
                    /\ jobs'[k].session = jobs[k].session /\ jobs'[k].kind = jobs[k].kind
                    /\ jobs'[k].text = jobs[k].text
                    /\ Settled(k) => jobs'[k] = jobs[k]

LEMMA NextKeeps == ASSUME Types, [Next]_vars PROVE Keeps
<1>0. Types' /\ Job = 1..Len(jobs) /\ Len(jobs) \in Nat
  BY NextTypes, Domains
<1>1. ASSUME NEW s \in Session, NEW kind \in JobKinds, Grows(s, kind) PROVE Keeps
  <2>1. Job' = 1..(Len(jobs) + 1) /\ \A j \in Job : jobs'[j] = jobs[j]
    BY <1>1, Growth
  <2>2. Len(jobs') = Len(jobs) + 1
    BY <1>0, <1>1 DEF Grows, Enqueue, Types
  <2> QED
    BY <1>0, <2>1, <2>2 DEF Keeps
<1>2. ASSUME NEW j \in Job, Works(j) PROVE Keeps
  <2>1. /\ Job' = Job /\ ~Settled(j)
        /\ \A k \in Job : /\ jobs'[k].session = jobs[k].session
                          /\ jobs'[k].kind = jobs[k].kind /\ jobs'[k].text = jobs[k].text
                          /\ k # j => jobs'[k] = jobs[k]
    BY <1>2, Work DEF Works
  <2>2. Len(jobs') = Len(jobs)
    BY <1>0, <1>2 DEF Works, Types
  <2> QED
    BY <1>0, <2>1, <2>2 DEF Keeps
<1>3. CASE Rests
  BY <1>0, <1>3 DEF Rests, queue, Keeps, Job
<1> QED
  BY <1>1, <1>2, <1>3, NextQueue

(* The unloading waits for the last job of every session: while it waits,   *)
(* each job queued before has settled or stands before one waited for.      *)
DrainInv ==
  drain.phase # "loaded" =>
    /\ drain.since <= Len(jobs) /\ drain.wait \subseteq Job
    /\ drain.phase = "drained" => AllSettled(drain.wait)
    /\ \A j \in 1..drain.since :
         Settled(j) \/ \E w \in drain.wait : j <= w /\ jobs[w].session = jobs[j].session

LEMMA NextDrain == QueueInv /\ DrainInv /\ [Next]_vars => DrainInv'
<1> SUFFICES ASSUME QueueInv, DrainInv, [Next]_vars PROVE DrainInv'
  OBVIOUS
<1>0. /\ Types /\ Types' /\ Job = 1..Len(jobs) /\ Len(jobs) \in Nat /\ Len(jobs') \in Nat
      /\ Job' = 1..Len(jobs')
  BY NextTypes, Domains DEF QueueInv, Types, Job
<1>1. Keeps
  BY <1>0, NextKeeps
<1>2. drain.since \in Nat
  BY <1>0 DEF Types
<1>3. CASE UNCHANGED drain
  <2> SUFFICES ASSUME drain.phase # "loaded"
               PROVE  /\ drain.since <= Len(jobs') /\ drain.wait \subseteq Job'
                      /\ drain.phase = "drained" => \A w \in drain.wait : Settled(w)'
                      /\ \A j \in 1..drain.since :
                           \/ Settled(j)'
                           \/ \E w \in drain.wait : j <= w /\ jobs'[w].session = jobs'[j].session
    BY <1>3 DEF DrainInv, AllSettled, Settled
  <2>1. \A k \in Job : /\ k \in Job' /\ jobs'[k].session = jobs[k].session
                       /\ Settled(k) => Settled(k)'
    BY <1>1 DEF Keeps, Settled
  <2>2. drain.since <= Len(jobs) /\ drain.wait \subseteq Job /\ Len(jobs) <= Len(jobs')
    BY <1>1 DEF DrainInv, Keeps
  <2>3. 1..drain.since \subseteq Job
    BY <1>0, <1>2, <2>2
  <2>4. \A w \in drain.wait : drain.phase = "drained" => Settled(w)'
    BY <2>1, <2>2 DEF DrainInv, AllSettled
  <2>5. ASSUME NEW j \in 1..drain.since
        PROVE  Settled(j)' \/ \E w \in drain.wait : j <= w /\ jobs'[w].session = jobs'[j].session
    BY <2>1, <2>2, <2>3 DEF DrainInv
  <2>6. drain.since <= Len(jobs')
    BY <1>0, <1>2, <2>2
  <2> QED
    BY <2>1, <2>2, <2>4, <2>5, <2>6
<1>4. CASE Drain
  <2>1. UNCHANGED jobs /\ drain'.since = Len(jobs) /\ drain'.wait = DrainWait
        /\ drain'.phase = "draining"
    BY <1>4 DEF Drain, queue
  <2>2. ASSUME NEW j \in Job
        PROVE  Settled(j) \/ \E w \in DrainWait : j <= w /\ jobs[w].session = jobs[j].session
    <3>1. jobs[j].session \in Session
      BY <1>0, JobType
    <3> QED
      BY <3>1 DEF QueueInv, TailIsLast, DrainWait
  <2>3. DrainWait \subseteq Job
    BY DEF QueueInv, TailIsLast, DrainWait
  <2> QED
    BY <1>0, <2>1, <2>2, <2>3 DEF DrainInv, Job, Settled
<1>5. CASE DrainReturns
  <2>1. UNCHANGED jobs /\ AllSettled(drain.wait) /\ drain.phase = "draining"
        /\ drain' = [drain EXCEPT !.phase = "drained"]
    BY <1>5 DEF DrainReturns, queue
  <2>2. drain'.since = drain.since /\ drain'.wait = drain.wait
    BY <1>0, <2>1 DEF Types
  <2> QED
    BY <2>1, <2>2 DEF DrainInv, Job, Settled, AllSettled
<1>6. UNCHANGED drain \/ Drain \/ DrainReturns
  BY DEF Next, vars, Host, OnInboxInserted, OnCompactionStart, OnCompactionEnd, OnStartup,
     OnRecoverySource, OnClear, OnAgentDisposed, RunJob, RunOneCall, MarkCompaction,
     RecoverMarked, ReadParent, ExportParent, ReadChild, ImportCapsule, FailJob, PreStep,
     Step, StepSettles, StepGoesOn, Tool, QueueSettled, ObservationsSettled, TryCandidate,
     CallTool, OtherWrite
<1> QED
  BY <1>3, <1>4, <1>5, <1>6

(* When the unloading of the plugin returns, everything that the host asked *)
(* for before it has been done or has failed, although it waits only for    *)
(* one job of each session (drain, index.js:265-267).                       *)
THEOREM DrainIsComplete == Spec => []DrainWaits
<1>1. Init => DrainInv
  BY DEF Init, NoDrain, DrainInv
<1>2. QueueInv /\ DrainInv => DrainWaits
  <2> SUFFICES ASSUME QueueInv, DrainInv, drain.phase = "drained", NEW j \in 1..drain.since
               PROVE  Settled(j)
    BY DEF DrainWaits
  <2>1. Job = 1..Len(jobs) /\ Len(jobs) \in Nat /\ drain.since \in Nat
    BY Domains DEF QueueInv, Types
  <2>2. j \in Job
    BY <2>1 DEF DrainInv
  <2>3. ASSUME NEW w \in drain.wait, j <= w, jobs[w].session = jobs[j].session
        PROVE  Settled(j)
    <3>1. w \in Job /\ Settled(w)
      BY DEF DrainInv, AllSettled
    <3>2. j = w \/ Earlier(j, w)
      BY <2>1, <2>2, <2>3, <3>1 DEF Earlier
    <3> QED
      BY <2>2, <3>1, <3>2 DEF QueueInv, SettlesInOrder
  <2> QED
    BY <2>3 DEF DrainInv
<1> QED
  BY <1>1, <1>2, InitQueue, NextInOrder, NextDrain, PTL DEF Spec

----------------------------------------------------------------------------
(* The recoveries of a session: what is pending and what a step waits for   *)
(* is later than everything delivered.                                      *)

Queues(s, kind) ==
  /\ Grows(s, kind)
  /\ pending' = [pending EXCEPT ![s] = IF kind \in Recoveries THEN Len(jobs) + 1
                                       ELSE IF kind = "end" THEN None ELSE @]
  /\ UNCHANGED <<step, delivered>>

Waits(s) == PreStep(s) \/ StepSettles(s) \/ StepGoesOn(s)

LEMMA NextPending ==
  ASSUME Types, [Next]_vars
  PROVE  \/ \E s \in Session, kind \in JobKinds : Queues(s, kind)
         \/ \E s \in Session : Waits(s)
         \/ UNCHANGED <<pending, step, delivered>> /\ (Rests \/ \E j \in Job : Works(j))
<1> DEFINE Same == UNCHANGED <<pending, step, delivered>>
<1>0. \A s \in Session : pending = [pending EXCEPT ![s] = @] /\ Generation(s) \in Int
  BY GenerationType DEF Types
<1>1. ASSUME NEW s \in Session, Host(s)
      PROVE  (Same /\ Rests) \/ \E kind \in JobKinds : Queues(s, kind)
  <2> USE DEF Queues, Grows, JobKinds, NoText, Recoveries
  <2>1. CASE OnInboxInserted(s)
    BY <1>0, <2>1 DEF OnInboxInserted
  <2>2. CASE OnCompactionStart(s)
    BY <1>0, <2>2 DEF OnCompactionStart, maps
  <2>3. CASE OnCompactionEnd(s)
    BY <2>3 DEF OnCompactionEnd
  <2>4. CASE OnStartup(s)
    BY <2>4 DEF OnStartup, Rests, queue
  <2>5. ASSUME NEW source \in {"resume", "compact"}, OnRecoverySource(s, source)
        PROVE \E kind \in JobKinds : Queues(s, kind)
    BY <2>5 DEF OnRecoverySource
  <2>6. CASE OnClear(s)
    BY <1>0, <2>6 DEF OnClear, maps
  <2>7. CASE OnAgentDisposed(s)
    BY <2>7 DEF OnAgentDisposed
  <2> QED
    BY <1>1, <2>1, <2>2, <2>3, <2>4, <2>5, <2>6, <2>7 DEF Host
<1>2. ASSUME NEW j \in Job, RunJob(j) PROVE Same /\ Works(j)
  <2>1. Same
    BY <1>2 DEF RunJob, RunOneCall, MarkCompaction, RecoverMarked, ReadParent, ExportParent,
       ReadChild, ImportCapsule, FailJob, maps
  <2> QED
    BY <1>2, <2>1, RunJobWorks
<1>3. CASE Same /\ ~(\E s \in Session : Host(s)) /\ ~(\E j \in Job : RunJob(j))
  BY <1>3, NextRests
<1>4. \/ \E s \in Session : Host(s) \/ Waits(s)
      \/ \E j \in Job : RunJob(j)
      \/ Same
  BY DEF Next, vars, Step, Waits, Tool, QueueSettled, ObservationsSettled, TryCandidate,
     CallTool, OtherWrite, Drain, DrainReturns, maps
<1> QED
  BY <1>1, <1>2, <1>3, <1>4

LEMMA Queued ==
  ASSUME Types, NEW s \in Session, NEW kind \in JobKinds, Queues(s, kind)
  PROVE  /\ Len(jobs) \in Nat /\ Len(jobs') = Len(jobs) + 1
         /\ \A j \in Job' : j \in Job \/ j = Len(jobs) + 1
         /\ \A j \in Job : j \in Job' /\ j < Len(jobs) + 1 /\ jobs'[j] = jobs[j]
         /\ Len(jobs) + 1 \in Job' /\ jobs'[Len(jobs) + 1].session = s
         /\ jobs'[Len(jobs) + 1].kind = kind
         /\ \A t \in Session : t # s => pending'[t] = pending[t]
         /\ kind \in Recoveries => pending'[s] = Len(jobs) + 1
         /\ kind = "end" => pending'[s] = None
         /\ kind \notin Recoveries \cup {"end"} => pending'[s] = pending[s]
<1>1. Grows(s, kind) /\ Job = 1..Len(jobs) /\ Len(jobs) \in Nat
  BY Domains DEF Queues
<1>2. /\ Job' = 1..(Len(jobs) + 1)
      /\ \A j \in Job : jobs'[j] = jobs[j]
      /\ jobs'[Len(jobs) + 1].session = s /\ jobs'[Len(jobs) + 1].kind = kind
  BY <1>1, Growth
<1>3. Len(jobs') = Len(jobs) + 1
  BY <1>1 DEF Grows, Enqueue, Types
<1>4. /\ \A t \in Session : t # s => pending'[t] = pending[t]
      /\ kind \in Recoveries => pending'[s] = Len(jobs) + 1
      /\ kind = "end" => pending'[s] = None
      /\ kind \notin Recoveries \cup {"end"} => pending'[s] = pending[s]
  BY DEF Queues, Types, Recoveries
<1> QED
  BY <1>1, <1>2, <1>3, <1>4

Deliveries(s) ==
  /\ pending[s] <= Len(jobs) /\ step[s] <= Len(jobs)
  /\ pending[s] # None /\ step[s] # None => step[s] <= pending[s]
  /\ \A n \in DOMAIN delivered[s] :
       /\ delivered[s][n] <= Len(jobs)
       /\ \A p \in {pending[s], step[s]} \ {None} : delivered[s][n] < p
  /\ \A m, n \in DOMAIN delivered[s] : m < n => delivered[s][m] < delivered[s][n]

DeliveryInv == \A s \in Session : Deliveries(s)

LEMMA NextDelivery == Types /\ DeliveryInv /\ [Next]_vars => DeliveryInv'
<1> SUFFICES ASSUME Types, DeliveryInv, [Next]_vars, NEW t \in Session PROVE Deliveries(t)'
  BY DEF DeliveryInv
<1>0. /\ Types' /\ Keeps /\ Deliveries(t)
      /\ Len(jobs) \in Nat /\ Len(jobs') \in Nat /\ Len(jobs) <= Len(jobs')
      /\ pending[t] \in Nat /\ step[t] \in Nat /\ delivered[t] \in Seq(Nat)
  <2>1. Types' /\ Keeps
    BY NextTypes, NextKeeps
  <2>2. Len(jobs) \in Nat /\ Len(jobs') \in Nat
    BY <2>1 DEF Types
  <2>3. pending[t] \in Nat /\ step[t] \in Nat /\ delivered[t] \in Seq(Nat)
    BY DEF Types
  <2> QED
    BY <2>1, <2>2, <2>3 DEF Keeps, DeliveryInv
<1>1. \A n \in DOMAIN delivered[t] : delivered[t][n] \in Nat
  BY <1>0
<1>2. ASSUME UNCHANGED <<pending[t], step[t], delivered[t]>> PROVE Deliveries(t)'
  BY <1>0, <1>1, <1>2 DEF Deliveries
<1>3. ASSUME NEW s \in Session, NEW kind \in JobKinds, Queues(s, kind) PROVE Deliveries(t)'
  <2>1. UNCHANGED <<step[t], delivered[t]>>
    BY <1>3 DEF Queues
  <2>2. pending'[t] \in {pending[t], None, Len(jobs) + 1} /\ Len(jobs') = Len(jobs) + 1
    BY <1>3, Queued
  <2> QED
    BY <1>0, <1>1, <2>1, <2>2 DEF Deliveries, None
<1>4. ASSUME NEW s \in Session, s # t, Waits(s) PROVE Deliveries(t)'
  BY <1>2, <1>4 DEF Waits, PreStep, StepSettles, StepGoesOn, maps, Types
<1>5. CASE PreStep(t)
  <2>1. step'[t] = pending[t] /\ UNCHANGED <<pending[t], delivered[t]>>
    BY <1>5 DEF PreStep, maps, Types
  <2> QED
    BY <1>0, <1>1, <2>1 DEF Deliveries, None
<1>6. CASE StepGoesOn(t)
  <2>1. step'[t] = None /\ UNCHANGED <<pending[t], delivered[t]>>
    BY <1>6 DEF StepGoesOn, maps, Types
  <2> QED
    BY <1>0, <1>1, <2>1 DEF Deliveries, None
<1>7. CASE StepSettles(t)
  <2>1. /\ step[t] # None /\ step'[t] = None
        /\ pending'[t] = IF pending[t] = step[t] THEN None ELSE pending[t]
    BY <1>7 DEF StepSettles, PendingAfter, Types
  <2>2. CASE delivered'[t] = delivered[t]
    BY <1>0, <1>1, <2>1, <2>2 DEF Deliveries, None
  <2>3. CASE delivered'[t] = Append(delivered[t], step[t])
    <3>1. /\ Len(delivered[t]) \in Nat /\ DOMAIN delivered[t] = 1..Len(delivered[t])
          /\ DOMAIN delivered'[t] = 1..(Len(delivered[t]) + 1)
          /\ delivered'[t][Len(delivered[t]) + 1] = step[t]
          /\ \A n \in DOMAIN delivered[t] : delivered'[t][n] = delivered[t][n]
      BY <1>0, <2>3
    <3>2. \A n \in DOMAIN delivered[t] : delivered[t][n] < step[t] /\ delivered[t][n] <= Len(jobs')
      BY <1>0, <1>1, <2>1 DEF Deliveries
    <3>3. pending'[t] # None => pending'[t] > step[t]
      BY <1>0, <2>1 DEF Deliveries
    <3>4. /\ pending'[t] <= Len(jobs') /\ step'[t] <= Len(jobs') /\ step[t] <= Len(jobs')
      BY <1>0, <2>1 DEF Deliveries, None
    <3>5. \A n \in DOMAIN delivered'[t] :
            /\ delivered'[t][n] \in Nat /\ delivered'[t][n] <= Len(jobs')
            /\ delivered'[t][n] <= step[t]
      <4>1. ASSUME NEW n \in DOMAIN delivered[t]
            PROVE  /\ delivered'[t][n] \in Nat /\ delivered'[t][n] <= Len(jobs')
                   /\ delivered'[t][n] <= step[t]
        BY <1>0, <1>1, <3>1, <3>2
      <4>2. \A n \in DOMAIN delivered'[t] : n \in DOMAIN delivered[t] \/ n = Len(delivered[t]) + 1
        BY <3>1
      <4> QED
        BY <1>0, <3>1, <3>4, <4>1, <4>2
    <3>6. \A n \in DOMAIN delivered'[t] :
            \A p \in {pending'[t], step'[t]} \ {None} : delivered'[t][n] < p
      <4>1. pending'[t] \in Nat
        BY <1>0, <2>1 DEF None
      <4> QED
        BY <1>0, <2>1, <3>3, <3>5, <4>1
    <3>7. \A m, n \in DOMAIN delivered'[t] : m < n => delivered'[t][m] < delivered'[t][n]
      <4> SUFFICES ASSUME NEW m \in DOMAIN delivered'[t], NEW n \in DOMAIN delivered'[t], m < n
                   PROVE  delivered'[t][m] < delivered'[t][n]
        OBVIOUS
      <4>1. m \in DOMAIN delivered[t] /\ (n \in DOMAIN delivered[t] \/ n = Len(delivered[t]) + 1)
        BY <3>1
      <4> QED
        BY <1>0, <3>1, <3>2, <4>1 DEF Deliveries
    <3> QED
      BY <2>1, <3>4, <3>5, <3>6, <3>7 DEF Deliveries
  <2> QED
    BY <1>7, <2>2, <2>3 DEF StepSettles, Types
<1> QED
  BY <1>2, <1>3, <1>4, <1>5, <1>6, <1>7, NextPending DEF Waits

(* A session never sees a recovery twice, nor an older one after a newer,   *)
(* although steps give up waiting and take the pending recovery again later *)
(* (consumeRecovery, index.js:426-446, and onPreStep, :463).                *)
THEOREM RecoveriesComeInOrder == Spec => []RecoveriesInOrder
<1>1. Init => DeliveryInv
  BY DEF Init, DeliveryInv, Deliveries, None
<1>2. DeliveryInv => RecoveriesInOrder
  BY DEF DeliveryInv, Deliveries, RecoveriesInOrder
<1> QED
  BY <1>1, <1>2, InitTypes, NextTypes, NextDelivery, PTL DEF Spec

(* A recovery is lost only by failing, or to a later one or the end.        *)
Lives(s, j) ==
  \/ Settled(j) /\ ~jobs[j].value
  \/ j = pending[s] \/ j \in ToSet(delivered[s])
  \/ \E k \in JobsOf(s, Recoveries \cup {"end"}) : k > j

LEMMA NextNotLost == Types /\ NoRecoveryIsLost /\ [Next]_vars => NoRecoveryIsLost'
<1> SUFFICES ASSUME Types, NoRecoveryIsLost, [Next]_vars, NEW s \in Session,
                    NEW j \in Job', jobs'[j].session = s, jobs'[j].kind \in Recoveries
             PROVE  Lives(s, j)'
  BY DEF NoRecoveryIsLost, JobsOf, Lives
<1>0. /\ Keeps /\ Job = 1..Len(jobs) /\ Len(jobs) \in Nat
      /\ pending[s] \in Nat /\ delivered[s] \in Seq(Nat)
  BY NextKeeps, Domains DEF Types
<1>1. ASSUME j \in Job PROVE Lives(s, j)
  BY <1>0, <1>1 DEF NoRecoveryIsLost, JobsOf, Keeps, Lives
<1>2. \A k \in JobsOf(s, Recoveries \cup {"end"}) : k \in JobsOf(s, Recoveries \cup {"end"})'
  BY <1>0 DEF JobsOf, Keeps
<1>3. j \in Job /\ Settled(j) /\ ~jobs[j].value => Settled(j)' /\ ~jobs'[j].value
  BY <1>0 DEF Keeps, Settled
<1>4. ASSUME NEW t \in Session, NEW kind \in JobKinds, Queues(t, kind) PROVE Lives(s, j)'
  <2> PICK new \in Nat : new = Len(jobs) + 1
    BY <1>0
  <2>1. /\ j \in Job \/ j = new
        /\ \A i \in Job : i < new
        /\ new \in Job' /\ jobs'[new].session = t /\ jobs'[new].kind = kind
        /\ t # s => pending'[s] = pending[s]
        /\ kind \in Recoveries => pending'[t] = new
        /\ kind \notin Recoveries \cup {"end"} => pending'[t] = pending[t]
    BY <1>4, Queued
  <2>2. CASE j = new
    BY <2>1, <2>2 DEF Lives
  <2>3. CASE j \in Job /\ j = pending[s] /\ pending'[s] # pending[s]
    <3>1. new \in JobsOf(s, Recoveries \cup {"end"})' /\ new > j
      BY <2>1, <2>3 DEF JobsOf
    <3> QED
      BY <3>1 DEF Lives
  <2>4. CASE j \in Job /\ ~(j = pending[s] /\ pending'[s] # pending[s])
    <3>1. delivered'[s] = delivered[s]
      BY <1>4 DEF Queues
    <3> QED
      BY <1>1, <1>2, <1>3, <2>4, <3>1 DEF Lives
  <2> QED
    BY <2>1, <2>2, <2>3, <2>4
<1>5. ASSUME NEW t \in Session, Waits(t) PROVE Lives(s, j)'
  <2>1. UNCHANGED jobs /\ j \in Job
    BY <1>5 DEF Waits, PreStep, StepSettles, StepGoesOn, queue, Job
  <2>2. CASE UNCHANGED <<pending[s], delivered[s]>>
    BY <1>1, <1>2, <1>3, <2>1, <2>2 DEF Lives
  <2>3. CASE t = s /\ StepSettles(s)
    <3>1. /\ Settled(step[s])
          /\ pending'[s] = IF pending[s] = step[s] THEN None ELSE pending[s]
          /\ IF jobs[step[s]].value THEN delivered'[s] = Append(delivered[s], step[s])
             ELSE delivered'[s] = delivered[s]
      BY <2>3 DEF StepSettles, PendingAfter, Types
    <3>2. step[s] \in Nat
      BY DEF Types
    <3>3. ToSet(delivered[s]) \subseteq ToSet(delivered'[s])
      <4>1. \A n \in DOMAIN delivered[s] :
              /\ n \in DOMAIN Append(delivered[s], step[s])
              /\ Append(delivered[s], step[s])[n] = delivered[s][n]
        BY <1>0, <3>2
      <4>2. \A n \in DOMAIN delivered[s] :
              n \in DOMAIN delivered'[s] /\ delivered'[s][n] = delivered[s][n]
        BY <3>1, <4>1
      <4> QED
        BY <4>2 DEF ToSet
    <3>4. jobs[step[s]].value => step[s] \in ToSet(delivered'[s])
      BY <1>0, <3>1, <3>2 DEF ToSet
    <3>5. CASE j = pending[s] /\ j = step[s]
      BY <2>1, <3>1, <3>4, <3>5 DEF Lives, Settled
    <3>6. CASE ~(j = pending[s] /\ j = step[s])
      BY <1>1, <1>2, <1>3, <2>1, <3>1, <3>3, <3>6 DEF Lives
    <3> QED
      BY <3>5, <3>6
  <2> QED
    BY <1>5, <2>2, <2>3 DEF Waits, PreStep, StepSettles, StepGoesOn, maps, Types
<1>6. CASE UNCHANGED <<pending, delivered>> /\ (Rests \/ \E i \in Job : Works(i))
  <2>1. Job' = Job
    BY <1>6, Work DEF Rests, queue, Job
  <2> QED
    BY <1>1, <1>2, <1>3, <1>6, <2>1 DEF Lives
<1> QED
  BY <1>4, <1>5, <1>6, NextPending

(* A recovery that was prepared is delivered, waits for the next step, or   *)
(* gave way to a later recovery or to the end of the agent, whichever steps *)
(* stop waiting for it and when (consumeRecovery, index.js:426-446).        *)
THEOREM NoRecoveryGetsLost == Spec => []NoRecoveryIsLost
<1>1. Init => NoRecoveryIsLost
  BY DEF Init, NoRecoveryIsLost, JobsOf, Job
<1> QED
  BY <1>1, InitTypes, NextTypes, NextNotLost, PTL DEF Spec

----------------------------------------------------------------------------
(* What the adapter's maps refer to: jobs of their own session, and no more *)
(* observations than are remembered.                                        *)

References(s) ==
  /\ \A j \in {pending[s], step[s]} \ {None} : j \in Job /\ jobs[j].session = s
  /\ Len(recent[s]) <= MaxRecent
  /\ ToSet(recent[s]) \subseteq JobsOf(s, {"prompt"})

RefInv == (\A s \in Session : References(s)) /\ calls <= host.calls

\* All but the first of a full memory are kept, and the new one comes last.
LEMMA Remembered ==
  ASSUME Types, NEW s \in Session, NEW j \in Nat, Len(recent[s]) <= MaxRecent
  PROVE  /\ Len(Remember(s, j)) <= MaxRecent
         /\ \E d \in {0, 1} :
              /\ Len(Remember(s, j)) = Len(recent[s]) + 1 - d
              /\ \A n \in 1..Len(Remember(s, j)) :
                   Remember(s, j)[n] = IF n + d = Len(recent[s]) + 1 THEN j ELSE recent[s][n + d]
<1> DEFINE all == Append(recent[s], j)
           d == IF Len(all) > MaxRecent THEN Len(all) - MaxRecent ELSE 0
<1>1. recent[s] \in Seq(Nat) /\ Len(recent[s]) \in Nat /\ MaxRecent \in Nat /\ MaxRecent > 0
  BY BoundAssumption DEF Types
<1>2. /\ all \in Seq(Nat) /\ Len(all) = Len(recent[s]) + 1
      /\ \A n \in 1..(Len(recent[s]) + 1) :
           all[n] = IF n = Len(recent[s]) + 1 THEN j ELSE recent[s][n]
  BY <1>1
<1>3. d \in {0, 1} /\ Len(all) - d <= MaxRecent
  BY <1>1, <1>2
<1>4. Remember(s, j) = SubSeq(all, 1 + d, Len(all))
  BY DEF Remember
<1> HIDE DEF all, d
<1>5. /\ Len(Remember(s, j)) = Len(all) - d
      /\ \A n \in 1..(Len(all) - d) : Remember(s, j)[n] = all[n + d]
  BY <1>1, <1>2, <1>3, <1>4
<1>6. /\ Len(Remember(s, j)) <= MaxRecent
      /\ Len(Remember(s, j)) = Len(recent[s]) + 1 - d
  BY <1>1, <1>2, <1>3, <1>5
<1>7. ASSUME NEW n \in 1..Len(Remember(s, j))
      PROVE  Remember(s, j)[n] = IF n + d = Len(recent[s]) + 1 THEN j ELSE recent[s][n + d]
  <2>1. n \in 1..(Len(all) - d) /\ n + d \in 1..(Len(recent[s]) + 1)
    BY <1>1, <1>2, <1>3, <1>6
  <2> QED
    BY <1>2, <1>5, <2>1
<1> QED
  BY <1>3, <1>6, <1>7

LEMMA NextRecent ==
  ASSUME Types, [Next]_vars, NEW s \in Session
  PROVE  \/ recent'[s] \in {recent[s], <<>>}
         \/ recent'[s] = Remember(s, Len(jobs) + 1) /\ Queues(s, "prompt")
<1>0. Generation(s) \in Int
  BY GenerationType
<1>1. ASSUME OnInboxInserted(s)
      PROVE  recent'[s] = Remember(s, Len(jobs) + 1) /\ Queues(s, "prompt")
  BY <1>0, <1>1 DEF OnInboxInserted, Queues, Grows, Recoveries, NoText, Types
<1>2. ASSUME OnAgentDisposed(s) PROVE recent'[s] = <<>>
  BY <1>2 DEF OnAgentDisposed, Types
<1>3. ASSUME NEW t \in Session, t # s, OnInboxInserted(t) \/ OnAgentDisposed(t)
      PROVE  recent'[s] = recent[s]
  BY <1>3 DEF OnInboxInserted, OnAgentDisposed, Types
<1>4. \/ UNCHANGED recent \/ \E t \in Session : OnInboxInserted(t) \/ OnAgentDisposed(t)
  BY DEF Next, vars, Host, OnCompactionStart, OnCompactionEnd, OnStartup,
     OnRecoverySource, OnClear, RunJob, RunOneCall, MarkCompaction,
     RecoverMarked, ReadParent, ExportParent, ReadChild, ImportCapsule, FailJob, PreStep,
     Step, StepSettles, StepGoesOn, Tool, QueueSettled, ObservationsSettled, TryCandidate,
     CallTool, OtherWrite, Drain, DrainReturns, maps
<1> QED
  BY <1>1, <1>2, <1>3, <1>4

LEMMA NextCalls ==
  ASSUME Types, [Next]_vars, calls <= host.calls PROVE calls' <= host'.calls
<1>1. host.calls \in Nat /\ calls \in Nat
  BY ProfileAssumption DEF Types
<1>2. UNCHANGED host /\ (calls' = calls \/ (calls < host.calls /\ calls' = calls + 1))
  BY DEF Next, vars, Host, OnInboxInserted, OnAgentDisposed, OnCompactionStart,
     OnCompactionEnd, OnStartup, OnRecoverySource, OnClear, RunJob, RunOneCall, MarkCompaction,
     RecoverMarked, ReadParent, ExportParent, ReadChild, ImportCapsule, FailJob, PreStep,
     Step, StepSettles, StepGoesOn, Tool, QueueSettled, ObservationsSettled, TryCandidate,
     CallTool, OtherWrite, Drain, DrainReturns, maps
<1> QED
  BY <1>1, <1>2

LEMMA InitRefers == Init => RefInv
<1> SUFFICES ASSUME Init PROVE RefInv
  OBVIOUS
<1>1. \A s \in Session : Len(recent[s]) = 0 /\ ToSet(recent[s]) = {}
  BY DEF Init, ToSet
<1>2. calls <= host.calls
  BY ProfileAssumption DEF Init
<1> QED
  BY <1>1, <1>2, BoundAssumption DEF Init, RefInv, References

LEMMA NextRefers == Types /\ RefInv /\ [Next]_vars => RefInv'
<1> SUFFICES ASSUME Types, RefInv, [Next]_vars PROVE RefInv'
  OBVIOUS
<1>0. Keeps /\ Len(jobs) \in Nat
  BY NextKeeps, Domains
<1>1. ASSUME NEW s \in Session
      PROVE  \A j \in {pending'[s], step'[s]} \ {None} : j \in Job' /\ jobs'[j].session = s
  <2>1. \A j \in {pending[s], step[s]} \ {None} : j \in Job' /\ jobs'[j].session = s
    BY <1>0 DEF RefInv, References, Keeps
  <2>2. ASSUME NEW t \in Session, NEW kind \in JobKinds, Queues(t, kind)
        PROVE  \/ pending'[s] \in {pending[s], None}
               \/ pending'[s] \in Job' /\ jobs'[pending'[s]].session = s
    BY <2>2, Queued
  <2>3. ASSUME NEW t \in Session, Waits(t)
        PROVE  pending'[s] \in {pending[s], None} /\ step'[s] \in {pending[s], step[s], None}
    BY <2>3 DEF Waits, PreStep, StepSettles, StepGoesOn, PendingAfter, maps, Types
  <2> QED
    BY <2>1, <2>2, <2>3, NextPending DEF Queues
<1>2. ASSUME NEW s \in Session
      PROVE  Len(recent'[s]) <= MaxRecent /\ ToSet(recent'[s]) \subseteq JobsOf(s, {"prompt"})'
  <2>1. JobsOf(s, {"prompt"}) \subseteq JobsOf(s, {"prompt"})'
    BY <1>0 DEF JobsOf, Keeps
  <2>2. CASE recent'[s] = recent[s]
    BY <2>1, <2>2 DEF RefInv, References
  <2>3. CASE recent'[s] = <<>>
    <3>1. Len(recent'[s]) = 0 /\ ToSet(recent'[s]) = {}
      BY <2>3 DEF ToSet
    <3> QED
      BY <3>1, BoundAssumption
  <2>4. CASE recent'[s] = Remember(s, Len(jobs) + 1) /\ Queues(s, "prompt")
    <3> PICK new \in Nat : new = Len(jobs) + 1
      BY <1>0
    <3>1. new \in JobsOf(s, {"prompt"})'
      BY <2>4, Queued DEF JobsOf, JobKinds
    <3>2. recent[s] \in Seq(Nat) /\ Len(recent[s]) \in Nat /\ Len(recent[s]) <= MaxRecent
          /\ ToSet(recent[s]) \subseteq JobsOf(s, {"prompt"})
      BY DEF Types, RefInv, References
    <3>3. PICK d \in {0, 1} :
            /\ Len(Remember(s, new)) = Len(recent[s]) + 1 - d
            /\ Len(Remember(s, new)) <= MaxRecent
            /\ \A n \in 1..Len(Remember(s, new)) :
                 Remember(s, new)[n] = IF n + d = Len(recent[s]) + 1 THEN new ELSE recent[s][n + d]
      BY <3>2, Remembered
    <3>4. ASSUME NEW n \in 1..Len(Remember(s, new))
          PROVE  Remember(s, new)[n] = new \/ Remember(s, new)[n] \in ToSet(recent[s])
      <4>1. n \in 1..(Len(recent[s]) + 1 - d) /\ DOMAIN recent[s] = 1..Len(recent[s])
        BY <3>2, <3>3
      <4>2. n + d = Len(recent[s]) + 1 \/ n + d \in DOMAIN recent[s]
        BY <3>2, <4>1
      <4> QED
        BY <3>3, <4>2 DEF ToSet
    <3>5. DOMAIN recent'[s] = 1..Len(recent'[s])
      <4>1. recent' \in [Session -> Seq(Nat)]
        BY NextTypes DEF Types
      <4> QED
        BY <4>1
    <3>6. recent'[s] = Remember(s, new)
      BY <2>4
    <3>7. ToSet(recent'[s]) \subseteq {new} \cup ToSet(recent[s])
      BY <3>4, <3>5, <3>6 DEF ToSet
    <3> QED
      BY <2>1, <3>1, <3>2, <3>3, <3>6, <3>7
  <2> QED
    BY <2>2, <2>3, <2>4, NextRecent
<1>3. calls' <= host'.calls
  BY NextCalls DEF RefInv
<1> QED
  BY <1>1, <1>2, <1>3 DEF RefInv, References

(* Type correctness: the maps of the adapter hold jobs of their session,    *)
(* and no more observations than MAX_RECENT_PROMPT_OBSERVATIONS             *)
(* (index.js:234-268, :276-278 and :308-313).                               *)
THEOREM TypeCorrect == Spec => []TypeOK
<1>1. Init => RefInv
  BY InitRefers
<1>2. QueueInv /\ RefInv => TypeOK
  <2> SUFFICES ASSUME QueueInv, RefInv PROVE TypeOK
    OBVIOUS
  <2>0. Types
    BY DEF QueueInv
  <2>1. ASSUME NEW j \in Job
        PROVE  /\ jobs[j].session \in Session
               /\ jobs[j].state \in {"queued", "marked", "nonempty", "exported", "importing", "settled"}
               /\ jobs[j].value \in BOOLEAN
    BY <2>0, JobType DEF JobRecord, JobStates
  <2>2. ASSUME NEW s \in Session
        PROVE  /\ \A j \in {tail[s], pending[s], step[s]} \ {None} : j \in Job /\ jobs[j].session = s
               /\ tail[s] # None => ~Settled(tail[s])
               /\ Len(recent[s]) <= MaxRecent
               /\ ToSet(recent[s]) \subseteq JobsOf(s, {"prompt"})
    BY DEF QueueInv, TailIsLast, RefInv, References
  <2>3. ASSUME NEW s \in Session
        PROVE  tool[s].phase \in {"idle", "queue", "observations", "candidates"}
    BY <2>0 DEF Types, ToolCall, ToolRecord
  <2>4. agent \in [Session -> {"new", "live", "disposed"}]
    BY <2>0 DEF Types
  <2>5. calls \in 0..host.calls
    BY <2>0, ProfileAssumption DEF Types, RefInv
  <2> QED
    BY <2>1, <2>2, <2>3, <2>4, <2>5 DEF TypeOK
<1> QED
  BY <1>1, <1>2, InitQueue, NextInOrder, InitTypes, NextTypes, NextRefers, PTL DEF Spec

----------------------------------------------------------------------------
(* A job is worth something only once it has settled, and a handoff only if *)
(* its import is in the ledger of the child.                                *)

Imported(j) ==
  \E n \in DOMAIN log[jobs[j].session] :
    log[jobs[j].session][n].type = "handoff" /\ log[jobs[j].session][n].job = j

WorthInv ==
  /\ \A j \in Job : jobs[j].value => Settled(j) /\ (jobs[j].kind = "handoff" => Imported(j))
  /\ \A s \in Session : \A j \in ToSet(delivered[s]) :
       j \in Job /\ jobs[j].session = s /\ jobs[j].value

\* A ledger only grows.
LEMMA NextLog ==
  ASSUME Types, [Next]_vars
  PROVE  \A s \in Session : \A n \in DOMAIN log[s] : n \in DOMAIN log'[s] /\ log'[s][n] = log[s][n]
<1>1. ASSUME NEW s \in Session, NEW type \in LogTypes, NEW j \in Int, NEW uses \in Int,
             Write(s, type, j, uses)
      PROVE  \A t \in Session : \A n \in DOMAIN log[t] : n \in DOMAIN log'[t] /\ log'[t][n] = log[t][n]
  BY <1>1, Written
<1>2. ASSUME NEW j \in Job PROVE jobs[j].session \in Session /\ j \in Int
  BY JobType, Domains
<1>3. \/ UNCHANGED log
      \/ \E s \in Session, type \in LogTypes, j \in Int, uses \in Int : Write(s, type, j, uses)
  BY <1>2, NextQueue DEF Grows, Works, Rests, None
<1> QED
  BY <1>1, <1>3

\* The only jobs a step makes worth something are those it settles.
LEMMA NextWorth ==
  ASSUME Types, [Next]_vars, NEW j \in Job', jobs'[j].value, j \in Job => ~jobs[j].value
  PROVE  /\ j \in Job /\ Settled(j)' /\ jobs'[j].session = jobs[j].session
         /\ jobs'[j].kind = "handoff" => Write(jobs[j].session, "handoff", j, None)
<1>0. Job = 1..Len(jobs) /\ Len(jobs) \in Nat /\ Keeps
  BY Domains, NextKeeps
<1>1. ASSUME NEW s \in Session, NEW kind \in JobKinds, Grows(s, kind) PROVE FALSE
  <2>1. PICK text \in Int : Enqueue(s, kind, text)
    BY <1>1 DEF Grows
  <2>2. /\ Job' = 1..(Len(jobs) + 1) /\ \A k \in Job : jobs'[k] = jobs[k]
        /\ ~jobs'[Len(jobs) + 1].value
    <3>1. jobs'[Len(jobs) + 1] =
            [session |-> s, kind |-> kind, after |-> tail[s], text |-> text,
             state |-> "queued", read |-> 0, value |-> FALSE]
      BY <1>0, <2>1 DEF Enqueue, Types
    <3>2. jobs'[Len(jobs) + 1].value = FALSE
      BY <3>1
    <3> QED
      BY <1>1, <3>2, Growth
  <2> QED
    BY <1>0, <2>2
<1>2. ASSUME Rests PROVE FALSE
  BY <1>2 DEF Rests, queue, Job
<1>3. ASSUME NEW i \in Job, RunJob(i)
      PROVE  /\ j \in Job /\ Settled(j)' /\ jobs'[j].session = jobs[j].session
             /\ jobs'[j].kind = "handoff" => Write(jobs[j].session, "handoff", j, None)
  <2>1. /\ Job' = Job
        /\ \A k \in Job : jobs'[k].session = jobs[k].session /\ jobs'[k].kind = jobs[k].kind
        /\ \A k \in Job : k # i => jobs'[k] = jobs[k]
    BY <1>3, RunJobWorks, Work
  <2>2. j = i /\ j \in Job
    BY <2>1
  <2>3. jobs[j] \in JobRecord /\ jobs \in Seq(JobRecord)
    BY <2>2, JobType DEF Types
  <2>4. ASSUME NEW state \in JobStates, Advances(j, state) PROVE FALSE
    <3>1. jobs'[j] = [jobs[j] EXCEPT !.state = state]
      BY <2>2, <2>3, <2>4 DEF Advances, Job
    <3> QED
      BY <2>2, <2>3, <3>1 DEF JobRecord
  <2>5. ASSUME NEW value \in BOOLEAN, Settles(j, value) PROVE Settled(j)' /\ value
    <3>1. jobs'[j] = [jobs[j] EXCEPT !.state = "settled", !.value = value]
      BY <2>2, <2>3, <2>5 DEF Settles, Job
    <3> QED
      BY <2>2, <2>3, <3>1 DEF JobRecord, Settled
  <2>6. ASSUME ReadChild(j) \/ FailJob(j) PROVE FALSE
    <3>1. jobs'[j].value = jobs[j].value
      BY <2>2, <2>3, <2>6 DEF ReadChild, FailJob, JobRecord, Job
    <3> QED
      BY <2>2, <3>1
  <2>7. CASE RunOneCall(j)
    BY <2>1, <2>2, <2>5, <2>7 DEF RunOneCall, Runs
  <2>8. CASE RecoverMarked(j)
    BY <2>1, <2>2, <2>5, <2>8 DEF RecoverMarked, Runs
  <2>9. CASE ImportCapsule(j)
    BY <2>1, <2>2, <2>5, <2>9 DEF ImportCapsule, ImportOutcome
  <2>10. CASE MarkCompaction(j) \/ ReadParent(j) \/ ExportParent(j)
    BY <2>4, <2>5, <2>10 DEF MarkCompaction, ReadParent, ExportParent, JobStates
  <2> QED
    BY <1>3, <2>2, <2>6, <2>7, <2>8, <2>9, <2>10 DEF RunJob
<1> QED
  BY <1>1, <1>2, <1>3, NextRests, HostGrows

LEMMA NextImports == Types /\ RefInv /\ WorthInv /\ [Next]_vars => WorthInv'
<1> SUFFICES ASSUME Types, RefInv, WorthInv, [Next]_vars PROVE WorthInv'
  OBVIOUS
<1>0. Keeps /\ Job = 1..Len(jobs) /\ Len(jobs) \in Nat
  BY NextKeeps, Domains
<1>1. ASSUME NEW j \in Job, jobs[j].value
      PROVE  j \in Job' /\ jobs'[j] = jobs[j] /\ jobs[j].session \in Session
  BY <1>0, <1>1, JobType DEF Keeps, WorthInv
<1>2. ASSUME NEW j \in Job, jobs[j].value, jobs[j].kind = "handoff" PROVE Imported(j)'
  BY <1>1, <1>2, NextLog DEF WorthInv, Imported
<1>3. ASSUME NEW j \in Job', jobs'[j].value
      PROVE  Settled(j)' /\ (jobs'[j].kind = "handoff" => Imported(j)')
  <2>1. CASE j \in Job /\ jobs[j].value
    BY <1>1, <1>2, <2>1 DEF WorthInv, Settled
  <2>2. CASE ~(j \in Job /\ jobs[j].value)
    <3>1. /\ j \in Job /\ Settled(j)' /\ jobs'[j].session = jobs[j].session
          /\ jobs'[j].kind = "handoff" => Write(jobs[j].session, "handoff", j, None)
      BY <1>3, <2>2, NextWorth
    <3>2. ASSUME Write(jobs[j].session, "handoff", j, None) PROVE Imported(j)'
      <4> DEFINE s == jobs[j].session
                 e == [type |-> "handoff", job |-> j, uses |-> None]
      <4>1. log[s] \in Seq(LogEvent) /\ Len(log[s]) \in Nat /\ s \in Session
        BY <3>1, JobType DEF Types
      <4>2. log'[s] = Append(log[s], e)
        BY <3>2, <4>1 DEF Write, Types
      <4>3. e.type = "handoff" /\ e.job = j
        OBVIOUS
      <4> HIDE DEF e
      <4>4. Len(log[s]) + 1 \in DOMAIN log'[s] /\ log'[s][Len(log[s]) + 1] = e
        BY <4>1, <4>2
      <4> QED
        BY <3>1, <4>3, <4>4 DEF Imported
    <3> QED
      BY <3>1, <3>2
  <2> QED
    BY <2>1, <2>2
<1>4. ASSUME NEW s \in Session, NEW j \in ToSet(delivered'[s])
      PROVE  j \in Job' /\ jobs'[j].session = s /\ jobs'[j].value
  <2>1. CASE j \in ToSet(delivered[s])
    BY <1>1, <2>1 DEF WorthInv
  <2>2. CASE j \notin ToSet(delivered[s])
    <3>1. StepSettles(s) /\ jobs[step[s]].value /\ delivered'[s] = Append(delivered[s], step[s])
      <4>1. delivered'[s] # delivered[s]
        BY <2>2
      <4>2. PICK t \in Session : Waits(t)
        BY <4>1, NextPending DEF Queues
      <4>3. StepSettles(t)
        BY <4>1, <4>2 DEF Waits, PreStep, StepGoesOn
      <4>4. jobs[step[t]].value /\ delivered' = [delivered EXCEPT ![t] = Append(@, step[t])]
        BY <4>1, <4>3 DEF StepSettles
      <4>5. delivered \in [Session -> Seq(Nat)]
        BY DEF Types
      <4>6. t = s /\ delivered'[s] = Append(delivered[s], step[s])
        BY <4>1, <4>4, <4>5
      <4> QED
        BY <4>3, <4>4, <4>6
    <3>2. delivered[s] \in Seq(Nat) /\ step[s] \in Nat
      BY DEF Types
    <3>3. j = step[s]
      BY <2>2, <3>1, <3>2 DEF ToSet
    <3>4. step[s] \in Job /\ jobs[step[s]].session = s
      BY <3>1 DEF StepSettles, RefInv, References
    <3> QED
      BY <1>1, <3>1, <3>3, <3>4
  <2> QED
    BY <2>1, <2>2
<1> QED
  BY <1>3, <1>4 DEF WorthInv

(* What a child is told its parent handed over stands in the child's own    *)
(* ledger: an import refused for a conflict, or that failed, is never put   *)
(* before a step (prepareParentHandoff, index.js:397-424).                  *)
THEOREM HandoffsAreRecorded == Spec => []HandoffIsRecorded
<1>1. Init => WorthInv
  <2> SUFFICES ASSUME Init PROVE WorthInv
    OBVIOUS
  <2>1. Job = {} /\ \A s \in Session : ToSet(delivered[s]) = {}
    BY DEF Init, Job, ToSet
  <2> QED
    BY <2>1 DEF WorthInv
<1>2. WorthInv => HandoffIsRecorded
  BY DEF WorthInv, Imported, HandoffIsRecorded
<1>3. Init => RefInv
  BY InitRefers
<1> QED
  BY <1>1, <1>2, <1>3, InitTypes, NextTypes, NextRefers, NextImports, PTL DEF Spec

----------------------------------------------------------------------------
(* What a tool call knows of the messages before it: each is among the      *)
(* candidates still to be tried, or cannot confirm the call.  They are      *)
(* tried newest first, so one that has no event ends a call of record_state *)
(* with only older ones left.                                               *)

Increasing(q) == \A m, n \in DOMAIN q : m < n => q[m] < q[n]
Decreasing(q) == \A m, n \in DOMAIN q : m < n => q[m] > q[n]

Failed(c) == Settled(c) /\ ~jobs[c].value

Useless(s, c) ==
  \/ Failed(c) \/ jobs[c].text # tool[s].expected \/ c \in Consumed(s)
  \/ tool[s].kind = "record" /\ \E k \in JobsOf(s, {"prompt"}) : k > c /\ Failed(k)

Sought(s) ==
  \A c \in ToSet(recent[s]) : c <= tool[s].since =>
    c \in ToSet(tool[s].list) \/ Useless(s, c)

Trying(s) == tool[s].phase = "candidates" /\ NeedsObservedSource(s)

CallInv(s) ==
  /\ tool[s].since <= Len(jobs)
  /\ Increasing(recent[s])
  /\ tool[s].phase # "idle" => tool[s].answer = "none"
  /\ tool[s].phase = "observations" =>
       /\ tool[s].wait = ToSet(tool[s].list) /\ Increasing(tool[s].list)
       /\ ToSet(tool[s].list) \subseteq JobsOf(s, {"prompt"})
  /\ Trying(s) =>
       /\ Decreasing(tool[s].list)
       /\ \A c \in ToSet(tool[s].list) \ {None} : c \in JobsOf(s, {"prompt"}) /\ Settled(c)
  /\ tool[s].phase = "observations" \/ Trying(s) \/ tool[s].answer = "unconfirmed" => Sought(s)
  /\ tool[s].answer = "unconfirmed" => tool[s].list = <<>>

ConfirmInv == \A s \in Session : CallInv(s)

LEMMA RecentGrows ==
  ASSUME Types, RefInv, [Next]_vars, NEW s \in Session, Increasing(recent[s])
  PROVE  /\ Increasing(recent'[s])
         /\ \A c \in ToSet(recent'[s]) : c \in ToSet(recent[s]) \/ c > Len(jobs)
<1>0. recent[s] \in Seq(Nat) /\ Len(recent[s]) \in Nat /\ Len(jobs) \in Nat
      /\ Job = 1..Len(jobs) /\ DOMAIN recent[s] = 1..Len(recent[s])
  BY Domains DEF Types
<1>1. \A n \in DOMAIN recent[s] : recent[s][n] \in Nat /\ recent[s][n] <= Len(jobs)
  BY <1>0 DEF RefInv, References, JobsOf, ToSet
<1>2. CASE recent'[s] = recent[s]
  BY <1>2
<1>3. CASE recent'[s] = <<>>
  BY <1>3 DEF Increasing, ToSet
<1>4. CASE recent'[s] = Remember(s, Len(jobs) + 1)
  <2> PICK new \in Nat : new = Len(jobs) + 1
    BY <1>0
  <2> DEFINE q == recent'[s]
  <2>1. PICK d \in {0, 1} :
          /\ Len(q) = Len(recent[s]) + 1 - d
          /\ \A n \in 1..Len(q) :
               q[n] = IF n + d = Len(recent[s]) + 1 THEN new ELSE recent[s][n + d]
    BY <1>4, Remembered DEF RefInv, References
  <2>2. DOMAIN q = 1..Len(q)
    <3>1. recent' \in [Session -> Seq(Nat)]
      BY NextTypes DEF Types
    <3> QED
      BY <3>1
  <2> HIDE DEF q
  <2>3. ASSUME NEW n \in DOMAIN q
        PROVE  \/ n + d = Len(recent[s]) + 1 /\ q[n] = new
               \/ n + d \in DOMAIN recent[s] /\ q[n] = recent[s][n + d] /\ q[n] < new
    <3>1. n \in 1..(Len(recent[s]) + 1 - d) /\ n \in 1..Len(q)
      BY <2>1, <2>2
    <3>2. CASE n + d = Len(recent[s]) + 1
      BY <2>1, <3>1, <3>2
    <3>3. CASE n + d # Len(recent[s]) + 1
      <4>1. n + d \in DOMAIN recent[s]
        BY <1>0, <3>1, <3>3
      <4>2. q[n] = recent[s][n + d]
        BY <2>1, <3>1, <3>3
      <4> QED
        BY <1>0, <1>1, <4>1, <4>2
    <3> QED
      BY <3>2, <3>3
  <2>4. Increasing(q)
    <3> SUFFICES ASSUME NEW m \in DOMAIN q, NEW n \in DOMAIN q, m < n PROVE q[m] < q[n]
      BY DEF Increasing
    <3>1. m \in Nat /\ n \in Nat /\ n + d <= Len(recent[s]) + 1
      BY <1>0, <2>1, <2>2
    <3>2. m + d \in DOMAIN recent[s] /\ q[m] = recent[s][m + d] /\ q[m] < new
      BY <1>0, <2>3, <3>1
    <3> QED
      BY <1>0, <2>3, <3>1, <3>2 DEF Increasing
  <2>5. \A c \in ToSet(q) : c \in ToSet(recent[s]) \/ c > Len(jobs)
    BY <1>0, <2>3 DEF ToSet
  <2> QED
    BY <2>4, <2>5 DEF q
<1> QED
  BY <1>2, <1>3, <1>4, NextRecent

\* What can no longer confirm a call never can again.
LEMMA UselessStays ==
  ASSUME Types, [Next]_vars, NEW s \in Session, NEW c \in Job, Useless(s, c),
         tool'[s].expected = tool[s].expected, tool'[s].kind = tool[s].kind
  PROVE  Useless(s, c)'
<1>1. Keeps /\ \A n \in DOMAIN log[s] : n \in DOMAIN log'[s] /\ log'[s][n] = log[s][n]
  BY NextKeeps, NextLog
<1>2. \A k \in Job : Failed(k) => Failed(k)'
  BY <1>1 DEF Keeps, Failed, Settled
<1>3. JobsOf(s, {"prompt"}) \subseteq JobsOf(s, {"prompt"})' /\ JobsOf(s, {"prompt"}) \subseteq Job
  BY <1>1 DEF Keeps, JobsOf
<1>4. c \in Consumed(s) => c \in Consumed(s)'
  BY <1>1 DEF Consumed
<1> QED
  BY <1>1, <1>2, <1>3, <1>4 DEF Useless, Keeps

\* A call that does not move: the messages that arrive are later than it.
LEMMA CallWaits ==
  ASSUME Types, RefInv, ConfirmInv, [Next]_vars, NEW s \in Session, UNCHANGED tool[s]
  PROVE  CallInv(s)'
<1>0. CallInv(s) /\ Keeps /\ Len(jobs) \in Nat /\ tool[s].since \in Nat
  BY NextKeeps, Domains DEF ConfirmInv, Types, ToolCall, ToolRecord
<1>1. /\ Increasing(recent'[s])
      /\ \A c \in ToSet(recent'[s]) : c \in ToSet(recent[s]) \/ c > Len(jobs)
  BY <1>0, RecentGrows DEF CallInv
<1>2. Sought(s) => Sought(s)'
  <2> SUFFICES ASSUME Sought(s), NEW c \in ToSet(recent'[s]), c <= tool[s].since
               PROVE  c \in ToSet(tool[s].list) \/ Useless(s, c)'
    BY DEF Sought
  <2>1. recent' \in [Session -> Seq(Nat)]
    BY NextTypes DEF Types
  <2>2. c \in Nat
    BY <2>1 DEF ToSet
  <2>3. c \in ToSet(recent[s])
    BY <1>0, <1>1, <2>2 DEF CallInv
  <2>4. c \in Job
    BY <2>3 DEF RefInv, References, JobsOf
  <2> QED
    BY <2>3, <2>4, UselessStays DEF Sought
<1>3. Trying(s)' <=> Trying(s)
  BY DEF Trying, NeedsObservedSource
<1>4. /\ JobsOf(s, {"prompt"}) \subseteq JobsOf(s, {"prompt"})'
      /\ \A c \in JobsOf(s, {"prompt"}) : Settled(c) => Settled(c)'
  BY <1>0 DEF JobsOf, Keeps, Settled
<1>5. tool'[s].since <= Len(jobs')
  <2>1. jobs' \in Seq(JobRecord)
    BY NextTypes DEF Types
  <2> QED
    BY <1>0, <2>1 DEF CallInv, Keeps
<1> QED
  BY <1>0, <1>1, <1>2, <1>3, <1>4, <1>5 DEF CallInv

LEMMA CallStarts ==
  ASSUME Types, ConfirmInv, NEW s \in Session, NEW kind \in CallKinds, CallTool(s, kind)
  PROVE  CallInv(s)'
<1> DEFINE call == [NoCall EXCEPT !.phase = "queue", !.wait = {tail[s]} \ {None},
                      !.since = Len(jobs), !.expected = Generation(s), !.kind = kind]
<1>1. /\ call.phase = "queue" /\ call.answer = "none" /\ call.since = Len(jobs)
  BY DEF NoCall
<1>2. tool'[s] = call /\ UNCHANGED <<recent, jobs>>
  BY DEF CallTool, Types, maps, queue
<1> HIDE DEF call
<1>3. Len(jobs) \in Nat /\ CallInv(s)
  BY Domains DEF ConfirmInv
<1> QED
  BY <1>1, <1>2, <1>3 DEF CallInv, Trying

LEMMA CallObserves ==
  ASSUME Types, RefInv, ConfirmInv, NEW s \in Session, QueueSettled(s)
  PROVE  CallInv(s)'
<1>1. CallInv(s) /\ UNCHANGED <<recent, jobs>> /\ tool[s].phase = "queue"
  BY DEF QueueSettled, ConfirmInv, maps, queue
<1>2. tool[s] \in ToolRecord
  BY DEF Types, ToolCall
<1>3. /\ tool'[s].phase = "observations" /\ tool'[s].wait = ToSet(recent[s])
      /\ tool'[s].list = recent[s] /\ tool'[s].since = tool[s].since
      /\ tool'[s].answer = tool[s].answer
  BY <1>2 DEF QueueSettled, Types, ToolRecord
<1>4. Sought(s)'
  BY <1>1, <1>3 DEF Sought
<1>5. JobsOf(s, {"prompt"})' = JobsOf(s, {"prompt"})
  BY <1>1 DEF JobsOf, Job
<1> QED
  BY <1>1, <1>3, <1>4, <1>5 DEF CallInv, Trying, RefInv, References

LEMMA Reversed ==
  ASSUME NEW q \in Seq(Nat), Increasing(q)
  PROVE  Decreasing(Reverse(q)) /\ ToSet(Reverse(q)) = ToSet(q)
<1>1. Len(q) \in Nat /\ DOMAIN q = 1..Len(q) /\ \A n \in 1..Len(q) : q[n] \in Nat
  OBVIOUS
<1>2. /\ DOMAIN Reverse(q) = 1..Len(q)
      /\ \A n \in 1..Len(q) : Reverse(q)[n] = q[Len(q) - n + 1]
  BY <1>1 DEF Reverse
<1>3. \A n \in 1..Len(q) : Len(q) - n + 1 \in 1..Len(q) /\ Len(q) - (Len(q) - n + 1) + 1 = n
  BY <1>1
<1>4. Decreasing(Reverse(q))
  <2> SUFFICES ASSUME NEW m \in 1..Len(q), NEW n \in 1..Len(q), m < n
               PROVE  q[Len(q) - m + 1] > q[Len(q) - n + 1]
    BY <1>2 DEF Decreasing
  <2>1. Len(q) - n + 1 < Len(q) - m + 1
    BY <1>1
  <2> QED
    BY <1>1, <1>3, <2>1 DEF Increasing
<1>5. ToSet(Reverse(q)) = ToSet(q)
  <2>1. \A n \in DOMAIN Reverse(q) : Reverse(q)[n] \in ToSet(q)
    BY <1>1, <1>2, <1>3 DEF ToSet
  <2>2. \A n \in DOMAIN q : q[n] \in ToSet(Reverse(q))
    <3> SUFFICES ASSUME NEW n \in 1..Len(q) PROVE q[n] \in ToSet(Reverse(q))
      BY <1>1
    <3>1. Len(q) - n + 1 \in DOMAIN Reverse(q) /\ Reverse(q)[Len(q) - n + 1] = q[n]
      BY <1>2, <1>3
    <3> QED
      BY <3>1 DEF ToSet
  <2> QED
    BY <2>1, <2>2 DEF ToSet
<1> QED
  BY <1>4, <1>5

LEMMA CallLooks ==
  ASSUME Types, ConfirmInv, NEW s \in Session, ObservationsSettled(s)
  PROVE  CallInv(s)'
<1> DEFINE list == IF NeedsObservedSource(s) /\ tool[s].list # <<>> THEN Candidates(s) ELSE <<None>>
<1>1. CallInv(s) /\ UNCHANGED <<recent, jobs, log>> /\ tool[s].phase = "observations"
      /\ AllSettled(tool[s].wait)
  BY DEF ObservationsSettled, ConfirmInv, maps, queue
<1>2. tool[s] \in ToolRecord /\ tool[s].list \in Seq(Nat)
  BY DEF Types, ToolCall, ToolRecord
<1>3. /\ tool'[s].phase = "candidates" /\ tool'[s].list = list
      /\ tool'[s].since = tool[s].since /\ tool'[s].answer = tool[s].answer
      /\ tool'[s].kind = tool[s].kind /\ tool'[s].expected = tool[s].expected
  BY <1>2 DEF ObservationsSettled, Types, ToolRecord
<1>4. /\ JobsOf(s, {"prompt"})' = JobsOf(s, {"prompt"})
      /\ \A c \in Job : (Settled(c)' <=> Settled(c)) /\ (Useless(s, c) => Useless(s, c)')
      /\ NeedsObservedSource(s)' <=> NeedsObservedSource(s)
  BY <1>1, <1>3 DEF JobsOf, Job, Settled, Useless, Failed, Consumed, NeedsObservedSource
<1>5. CASE NeedsObservedSource(s) /\ tool[s].list # <<>>
  <2>1. list = Reverse(tool[s].list)
    BY <1>5 DEF Candidates
  <2>2. Decreasing(list) /\ ToSet(list) = ToSet(tool[s].list)
    BY <1>1, <1>2, <2>1, Reversed DEF CallInv
  <2> HIDE DEF list
  <2>3. ToSet(list) \subseteq JobsOf(s, {"prompt"}) /\ JobsOf(s, {"prompt"}) \subseteq Job
        /\ \A c \in ToSet(list) : Settled(c)
    BY <1>1, <2>2 DEF CallInv, AllSettled, JobsOf
  <2>4. Sought(s)'
    <3> SUFFICES ASSUME NEW c \in ToSet(recent[s]), c <= tool[s].since
                 PROVE  c \in ToSet(list) \/ Useless(s, c)'
      BY <1>1, <1>3 DEF Sought
    <3>1. c \in ToSet(list) \/ Useless(s, c)
      BY <1>1, <2>2 DEF CallInv, Sought
    <3>2. Useless(s, c) => Useless(s, c)'
      BY <1>1, <1>3 DEF Useless, Failed, Settled, Consumed, JobsOf, Job
    <3> QED
      BY <3>1, <3>2
  <2> QED
    BY <1>1, <1>3, <1>4, <2>2, <2>3, <2>4 DEF CallInv, Trying
<1>6. CASE NeedsObservedSource(s) /\ tool[s].list = <<>>
  <2>1. list = <<None>> /\ ToSet(tool[s].list) = {}
    BY <1>6 DEF ToSet
  <2>2. Decreasing(<<None>>) /\ ToSet(<<None>>) = {None}
    BY DEF Decreasing, ToSet
  <2> HIDE DEF list
  <2>3. Sought(s)'
    <3> SUFFICES ASSUME NEW c \in ToSet(recent[s]), c <= tool[s].since
                 PROVE  Useless(s, c)'
      BY <1>1, <1>3 DEF Sought
    <3>1. Useless(s, c)
      BY <1>1, <2>1 DEF CallInv, Sought
    <3> QED
      BY <1>1, <1>3, <3>1 DEF Useless, Failed, Settled, Consumed, JobsOf, Job
  <2> QED
    BY <1>1, <1>3, <1>4, <2>1, <2>2, <2>3 DEF CallInv, Trying
<1>7. CASE ~NeedsObservedSource(s)
  BY <1>1, <1>3, <1>4, <1>7 DEF CallInv, Trying
<1> QED
  BY <1>5, <1>6, <1>7

LEMMA Popped ==
  ASSUME NEW q \in Seq(Nat), q # <<>>, Decreasing(q)
  PROVE  /\ Head(q) \in ToSet(q)
         /\ \A c \in ToSet(q) : c = Head(q) \/ c < Head(q)
         /\ Len(q) > 1 => /\ Decreasing(Tail(q))
                          /\ \A c \in ToSet(q) : c = Head(q) \/ c \in ToSet(Tail(q))
                          /\ ToSet(Tail(q)) \subseteq ToSet(q)
         /\ Len(q) <= 1 => ToSet(q) = {Head(q)}
<1>1. Len(q) \in Nat /\ Len(q) > 0 /\ DOMAIN q = 1..Len(q) /\ Head(q) = q[1]
      /\ \A n \in 1..Len(q) : q[n] \in Nat
  OBVIOUS
<1>2. /\ DOMAIN Tail(q) = 1..(Len(q) - 1)
      /\ \A n \in 1..(Len(q) - 1) : Tail(q)[n] = q[n + 1]
  BY <1>1, HeadTailProperties
<1>3. Decreasing(Tail(q))
  <2> SUFFICES ASSUME NEW m \in 1..(Len(q) - 1), NEW n \in 1..(Len(q) - 1), m < n
               PROVE  q[m + 1] > q[n + 1]
    BY <1>2 DEF Decreasing
  <2> QED
    BY <1>1 DEF Decreasing
<1>4. \A n \in 1..Len(q) : n = 1 \/ (q[n] < q[1] /\ n - 1 \in 1..(Len(q) - 1) /\ Tail(q)[n - 1] = q[n])
  BY <1>1, <1>2 DEF Decreasing
<1>5. ToSet(Tail(q)) \subseteq ToSet(q)
  <2>1. \A n \in 1..(Len(q) - 1) : n + 1 \in 1..Len(q)
    BY <1>1
  <2> QED
    BY <1>1, <1>2, <2>1 DEF ToSet
<1>6. \A c \in ToSet(q) : c = Head(q) \/ (c < Head(q) /\ c \in ToSet(Tail(q)))
  <2> SUFFICES ASSUME NEW n \in 1..Len(q), q[n] # q[1]
               PROVE  q[n] < q[1] /\ q[n] \in ToSet(Tail(q))
    BY <1>1 DEF ToSet
  <2>1. q[n] < q[1] /\ n - 1 \in DOMAIN Tail(q) /\ Tail(q)[n - 1] = q[n]
    BY <1>2, <1>4
  <2> QED
    BY <2>1 DEF ToSet
<1>7. Head(q) \in ToSet(q)
  BY <1>1 DEF ToSet
<1>8. Len(q) <= 1 => ToSet(q) = {Head(q)}
  BY <1>1 DEF ToSet
<1> QED
  BY <1>3, <1>5, <1>6, <1>7, <1>8

LEMMA CallEnds ==
  ASSUME Types, NEW s \in Session, NEW a \in {"ok", "unconfirmed", "conflict"}, Answers(s, a)
  PROVE  /\ tool'[s].phase = "idle" /\ tool'[s].list = <<>> /\ tool'[s].answer = a
         /\ tool'[s].since = tool[s].since /\ tool'[s].kind = tool[s].kind
         /\ tool'[s].expected = tool[s].expected
  BY DEF Answers, Types, ToolCall, ToolRecord

\* What refuses a candidate makes it useless, and with it the older ones
\* where the call does not go on to them.
LEMMA CallTries ==
  ASSUME Types, RefInv, ConfirmInv, NEW s \in Session, TryCandidate(s)
  PROVE  CallInv(s)'
<1> DEFINE c == Head(tool[s].list)
<1>1. CallInv(s) /\ UNCHANGED <<recent, jobs>> /\ tool[s].phase = "candidates"
  BY DEF TryCandidate, ConfirmInv, maps, queue
<1>2. /\ tool[s] \in ToolRecord /\ tool[s].list \in Seq(Nat) /\ tool[s].list # <<>>
      /\ tool[s].kind \in {"guess", "record", "correct"}
  BY <1>1 DEF Types, ToolCall, ToolRecord
<1>3. ASSUME NEW a \in {"ok", "conflict"}, Answers(s, a) PROVE CallInv(s)'
  <2>1. /\ tool'[s].phase = "idle" /\ tool'[s].answer # "unconfirmed"
        /\ tool'[s].since = tool[s].since
    BY <1>3, CallEnds
  <2> QED
    BY <1>1, <2>1 DEF CallInv, Trying
<1>4. CASE Refused(s, c) /\ Generation(s) = tool[s].expected
  <2>1. UNCHANGED log /\ Trying(s) /\ ~Confirms(s, c)
    BY <1>1, <1>4 DEF Refused, Trying
  <2>2. Decreasing(tool[s].list) /\ Sought(s)
    BY <1>1, <2>1 DEF CallInv
  <2>3. c # None => c \in JobsOf(s, {"prompt"}) /\ Settled(c)
    BY <1>1, <1>2, <2>1, <2>2, Popped DEF CallInv
  <2>4. c # None => Useless(s, c)
    BY <1>4, <2>1, <2>3 DEF Confirms, Known, Useless, Failed
  <2>5. ASSUME NEW i \in ToSet(recent[s]) PROVE i \in Job /\ i # None
    BY Domains DEF RefInv, References, JobsOf, None
  <2>6. ASSUME tool'[s].kind = tool[s].kind, tool'[s].expected = tool[s].expected,
               NEW i \in ToSet(recent[s]), Useless(s, i)
        PROVE  Useless(s, i)'
    BY <1>1, <2>1, <2>6 DEF Useless, Failed, Settled, Consumed, JobsOf, Job
  <2>7. CASE Retryable(s, c) /\ Len(tool[s].list) > 1
    <3> DEFINE call == [tool[s] EXCEPT !.list = Tail(tool[s].list)]
    <3>1. /\ call.list = Tail(tool[s].list) /\ call.phase = tool[s].phase
          /\ call.since = tool[s].since /\ call.kind = tool[s].kind
          /\ call.expected = tool[s].expected /\ call.answer = tool[s].answer
      BY <1>2 DEF ToolRecord
    <3>2. tool'[s] = call
      BY <1>4, <2>7 DEF Refused, Types
    <3> HIDE DEF call
    <3>3. /\ Decreasing(tool'[s].list) /\ ToSet(tool'[s].list) \subseteq ToSet(tool[s].list)
          /\ \A i \in ToSet(tool[s].list) : i = c \/ i \in ToSet(tool'[s].list)
      BY <1>2, <2>2, <2>7, <3>1, <3>2, Popped
    <3>4. \A i \in ToSet(tool'[s].list) \ {None} : i \in JobsOf(s, {"prompt"})' /\ Settled(i)'
      BY <1>1, <2>1, <3>3 DEF CallInv, JobsOf, Settled, Job
    <3>5. Sought(s)'
      <4> SUFFICES ASSUME NEW i \in ToSet(recent[s]), i <= tool[s].since
                   PROVE  i \in ToSet(tool'[s].list) \/ Useless(s, i)'
        BY <1>1, <3>1, <3>2 DEF Sought
      <4>1. i \in ToSet(tool'[s].list) \/ Useless(s, i)
        BY <2>2, <2>4, <2>5, <3>3 DEF Sought
      <4> QED
        BY <2>6, <3>1, <3>2, <4>1
    <3> QED
      BY <1>1, <3>1, <3>2, <3>3, <3>4, <3>5 DEF CallInv
  <2>8. CASE ~(Retryable(s, c) /\ Len(tool[s].list) > 1)
    <3>1. Answers(s, "unconfirmed")
      BY <1>4, <2>8 DEF Refused
    <3>2. /\ tool'[s].phase = "idle" /\ tool'[s].list = <<>> /\ tool'[s].answer = "unconfirmed"
          /\ tool'[s].since = tool[s].since /\ tool'[s].kind = tool[s].kind
          /\ tool'[s].expected = tool[s].expected
      BY <3>1, CallEnds
    <3>3. ASSUME NEW i \in ToSet(tool[s].list), i \in ToSet(recent[s]) PROVE Useless(s, i)
      <4>1. i # None
        BY <2>5, <3>3
      <4>2. CASE i = c
        BY <2>4, <4>1, <4>2
      <4>3. CASE i # c
        <5>1. i < c /\ Len(tool[s].list) > 1 /\ c \in Nat /\ i \in Nat
          BY <1>2, <2>2, <4>3, Popped DEF ToSet
        <5>2. c # None /\ tool[s].kind = "record" /\ Failed(c)
          BY <1>2, <2>1, <2>3, <2>8, <4>1, <5>1
             DEF Retryable, Known, Trying, NeedsObservedSource, Failed, None
        <5> QED
          BY <2>3, <5>1, <5>2 DEF Useless
      <4> QED
        BY <4>2, <4>3
    <3>4. Sought(s)'
      <4> SUFFICES ASSUME NEW i \in ToSet(recent[s]), i <= tool[s].since
                   PROVE  Useless(s, i)'
        BY <1>1, <3>2 DEF Sought
      <4>1. Useless(s, i)
        BY <2>2, <3>3 DEF Sought
      <4> QED
        BY <2>6, <3>2, <4>1
    <3> QED
      BY <1>1, <3>2, <3>4 DEF CallInv, Trying
  <2> QED
    BY <2>7, <2>8
<1> QED
  BY <1>3, <1>4 DEF TryCandidate, Conflicts, Accepted

LEMMA NextConfirms == Types /\ RefInv /\ ConfirmInv /\ [Next]_vars => ConfirmInv'
<1> SUFFICES ASSUME Types, RefInv, ConfirmInv, [Next]_vars, NEW s \in Session PROVE CallInv(s)'
  BY DEF ConfirmInv
<1>1. \/ tool'[s] = tool[s] \/ Tool(s) \/ \E kind \in CallKinds : CallTool(s, kind)
  <2>1. ASSUME NEW t \in Session, t # s,
               Tool(t) \/ \E kind \in CallKinds : CallTool(t, kind)
        PROVE  tool'[s] = tool[s]
    BY <2>1 DEF Tool, CallTool, QueueSettled, ObservationsSettled, TryCandidate, Conflicts,
       Accepted, Refused, Answers, Types
  <2>2. \/ UNCHANGED tool
        \/ \E t \in Session : Tool(t) \/ \E kind \in CallKinds : CallTool(t, kind)
    BY DEF Next, vars, Host, OnInboxInserted, OnAgentDisposed, OnCompactionStart,
       OnCompactionEnd, OnStartup, OnRecoverySource, OnClear, RunJob, RunOneCall,
       MarkCompaction, RecoverMarked, ReadParent, ExportParent, ReadChild, ImportCapsule,
       FailJob, PreStep, Step, StepSettles, StepGoesOn, OtherWrite, Drain, DrainReturns, maps
  <2> QED
    BY <2>1, <2>2
<1> QED
  BY <1>1, CallWaits, CallStarts, CallObserves, CallLooks, CallTries DEF Tool

(* A call turned down for want of the user's word really had none: no       *)
(* message sent before it and still remembered is an unused confirmation of *)
(* the generation it writes to, whatever was queued, observed, forgotten or *)
(* written while the call waited, and in whatever order (execute,           *)
(* index.js:516-549).                                                       *)
THEOREM ConfirmationsAreFound == Spec => []ConfirmationIsFound
<1>1. Init => ConfirmInv
  <2> SUFFICES ASSUME Init, NEW s \in Session PROVE CallInv(s)
    BY DEF ConfirmInv
  <2>1. recent[s] = <<>> /\ Len(jobs) = 0 /\ tool[s] = NoCall
    BY DEF Init
  <2>2. NoCall.since = 0 /\ NoCall.phase = "idle" /\ NoCall.answer = "none"
    BY DEF NoCall
  <2> QED
    BY <2>1, <2>2 DEF CallInv, Trying, Increasing
<1>2. ConfirmInv => ConfirmationIsFound
  <2> SUFFICES ASSUME ConfirmInv, NEW s \in Session, tool[s].answer = "unconfirmed",
                      NEW c \in ToSet(recent[s]), c <= tool[s].since
               PROVE  Useless(s, c)
    BY DEF ConfirmationIsFound, Useless, Failed
  <2>1. Sought(s) /\ ToSet(tool[s].list) = {}
    BY DEF ConfirmInv, CallInv, ToSet
  <2> QED
    BY <2>1 DEF Sought
<1> QED
  BY <1>1, <1>2, InitTypes, InitRefers, NextTypes, NextRefers, NextConfirms, PTL DEF Spec

----------------------------------------------------------------------------
(* The queue implements SessionQueue.  Beyond QueueInv that needs: a job    *)
(* has begun only if the earlier ones of its session have settled.          *)

BeginsInOrder ==
  \A j, k \in Job : Earlier(k, j) /\ jobs[j].state # "queued" => Settled(k)

LEMMA NextBegins == QueueInv /\ BeginsInOrder /\ [Next]_vars => BeginsInOrder'
<1> SUFFICES ASSUME QueueInv, BeginsInOrder, [Next]_vars PROVE BeginsInOrder'
  OBVIOUS
<1>0. Types /\ Job = 1..Len(jobs) /\ Len(jobs) \in Nat
  BY Domains DEF QueueInv
<1>1. ASSUME NEW s \in Session, NEW kind \in JobKinds, Grows(s, kind) PROVE BeginsInOrder'
  <2> PICK new \in Nat : new = Len(jobs) + 1
    BY <1>0
  <2>1. /\ Job' = 1..new /\ jobs'[new].state = "queued"
        /\ \A j \in Job : jobs'[j] = jobs[j] /\ j \in Job' /\ j < new
    BY <1>0, <1>1, Growth
  <2>2. \A j \in Job' : j \in Job \/ j = new
    BY <1>0, <2>1
  <2> SUFFICES ASSUME NEW j \in Job', NEW k \in Job', Earlier(k, j)', jobs'[j].state # "queued"
               PROVE  Settled(k)'
    BY DEF BeginsInOrder
  <2>3. j \in Job /\ k \in Job
    BY <1>0, <2>1, <2>2 DEF Earlier
  <2> QED
    BY <2>1, <2>3 DEF BeginsInOrder, Earlier, Settled
<1>2. ASSUME NEW i \in Job, Works(i) PROVE BeginsInOrder'
  <2>1. /\ Job' = Job
        /\ \A k \in Job : /\ jobs'[k].session = jobs[k].session
                          /\ k # i => jobs'[k] = jobs[k]
                          /\ Settled(k) => Settled(k)'
    BY <1>0, <1>2, Work
  <2>2. \A k \in Job : Earlier(k, i) => Settled(k)
    BY <1>2, EarlierSettled DEF Works
  <2> SUFFICES ASSUME NEW j \in Job, NEW k \in Job, Earlier(k, j), jobs'[j].state # "queued"
               PROVE  Settled(k)'
    BY <2>1 DEF BeginsInOrder, Earlier
  <2> QED
    BY <2>1, <2>2 DEF BeginsInOrder
<1>3. CASE Rests
  BY <1>3 DEF Rests, queue, BeginsInOrder, Earlier, Settled, Job
<1> QED
  BY <1>0, <1>1, <1>2, <1>3, NextQueue

LEMMA WritersGrow ==
  ASSUME NEW q \in Seq(LogEvent), NEW e
  PROVE  [n \in DOMAIN Append(q, e) |-> Append(q, e)[n].job]
           = Append([n \in DOMAIN q |-> q[n].job], e.job)
<1> DEFINE a == Append(q, e)
           w == [n \in DOMAIN q |-> q[n].job]
<1>1. /\ Len(q) \in Nat /\ DOMAIN q = 1..Len(q) /\ DOMAIN a = 1..(Len(q) + 1)
      /\ a[Len(q) + 1] = e /\ \A n \in 1..Len(q) : a[n] = q[n] /\ n # Len(q) + 1
  OBVIOUS
<1>2. w \in Seq({q[n].job : n \in DOMAIN q}) /\ Len(w) = Len(q) /\ \A n \in 1..Len(q) : w[n] = q[n].job
  BY <1>1
<1>3. /\ DOMAIN Append(w, e.job) = 1..(Len(q) + 1) /\ Append(w, e.job)[Len(q) + 1] = e.job
      /\ \A n \in 1..Len(q) : Append(w, e.job)[n] = q[n].job
      /\ Append(w, e.job) = [n \in 1..(Len(q) + 1) |-> Append(w, e.job)[n]]
  BY <1>1, <1>2
<1>4. \A n \in 1..(Len(q) + 1) : n = Len(q) + 1 \/ n \in 1..Len(q)
  BY <1>1
<1> HIDE DEF a, w
<1>5. \A n \in 1..(Len(q) + 1) : a[n].job = Append(w, e.job)[n]
  BY <1>1, <1>3, <1>4
<1>6. [n \in DOMAIN a |-> a[n].job] = Append(w, e.job)
  BY <1>1, <1>3, <1>5
<1> QED
  BY <1>6 DEF a, w

Waiting == [s \in Session |-> Unsettled(s)]
Running == [s \in Session |-> Begun(s)]
Records == [s \in Session |-> Writers(s)]

LEMMA WriteMaps ==
  ASSUME Types, NEW s \in Session, NEW type, NEW j, NEW uses, Write(s, type, j, uses)
  PROVE  Records' = [Records EXCEPT ![s] = Append(@, j)]
<1> DEFINE e == [type |-> type, job |-> j, uses |-> uses]
<1>1. e.job = j /\ log' = [log EXCEPT ![s] = Append(log[s], e)]
  BY DEF Write
<1> HIDE DEF e
<1>2. \A t \in Session : log'[t] = IF t = s THEN Append(log[s], e) ELSE log[t]
  BY <1>1 DEF Types
<1>3. log[s] \in Seq(LogEvent)
  BY DEF Types
<1>4. Writers(s)' = Append(Writers(s), j)
  <2> PICK l : l = Append(log[s], e)
    OBVIOUS
  <2>1. [n \in DOMAIN l |-> l[n].job] = Append(Writers(s), j)
    BY <1>1, <1>3, WritersGrow DEF Writers
  <2>2. log'[s] = l
    BY <1>2
  <2> QED
    BY <2>1, <2>2 DEF Writers
<1>5. \A t \in Session : t # s => Writers(t)' = Writers(t)
  BY <1>2 DEF Writers
<1> QED
  BY <1>4, <1>5 DEF Records

LEMMA GrowsMaps ==
  ASSUME Types, NEW s \in Session, NEW kind \in JobKinds, Grows(s, kind)
  PROVE  Queue!Enter(s)
<1> PICK new \in Nat : new = Len(jobs) + 1
  BY Domains
<1>1. /\ Job = 1..Len(jobs) /\ Len(jobs) \in Nat /\ Job' = 1..new /\ UNCHANGED log
      /\ \A j \in Job : jobs'[j] = jobs[j]
      /\ jobs'[new].session = s /\ jobs'[new].state = "queued"
  BY Growth, Domains
<1>2. Len(jobs') = new
  <2>1. PICK text \in Int : Enqueue(s, kind, text)
    BY DEF Grows
  <2> QED
    BY <2>1 DEF Enqueue, Types
<1>3. /\ \A j \in Job' : j \in Job \/ j = new
      /\ \A j \in Job : j \in Job' /\ j # new
      /\ new \in Job'
  BY <1>1
<1>4. \A t \in Session : Unsettled(t)' = IF t = s THEN Unsettled(t) \cup {new} ELSE Unsettled(t)
  BY <1>1, <1>3 DEF Unsettled, Settled
<1>5. \A t \in Session : Begun(t)' = Begun(t)
  BY <1>1, <1>3 DEF Begun, Unsettled, Settled
<1>6. Waiting' = [Waiting EXCEPT ![s] = @ \cup {new}]
  BY <1>4 DEF Waiting
<1>7. Running' = Running /\ Records' = Records
  BY <1>1, <1>5 DEF Running, Records, Writers
<1> QED
  BY <1>2, <1>6, <1>7 DEF Queue!Enter, Waiting, Running, Records

LEMMA WorksMaps ==
  ASSUME QueueInv, BeginsInOrder, NEW j \in Job, Works(j)
  PROVE  \E s \in Session : j \in Unsettled(s) /\ (Queue!Work(s, j) \/ Queue!Finish(s, j))
<1>0. Types /\ Job = 1..Len(jobs) /\ Len(jobs) \in Nat /\ jobs[j].session \in Session
  BY Domains, JobType DEF QueueInv
<1> PICK s \in Session : s = jobs[j].session
  BY <1>0
<1>1. PICK r \in JobRecord :
        jobs' = [jobs EXCEPT ![j] = r] /\ r.session = s /\ r.state # "queued"
  BY DEF Works
<1>2. /\ Len(jobs') = Len(jobs) /\ Job' = Job /\ jobs'[j] = r
      /\ \A k \in Job : k # j => jobs'[k] = jobs[k]
  BY <1>0, <1>1 DEF Types, Job
<1>3. ~Settled(j) /\ \A k \in Job : Earlier(k, j) => Settled(k)
  BY EarlierSettled DEF Works
<1>4. j \in Unsettled(s) /\ \A k \in Unsettled(s) : j <= k
  BY <1>0, <1>3 DEF Unsettled, Earlier
<1>5. Begun(s) \subseteq {j}
  <2> SUFFICES ASSUME NEW k \in Begun(s), k # j PROVE FALSE
    OBVIOUS
  <2>1. k \in Unsettled(s) /\ j < k /\ jobs[k].state # "queued"
    BY <1>0, <1>4 DEF Begun, Unsettled
  <2> QED
    BY <1>3, <2>1 DEF BeginsInOrder, Earlier, Unsettled
<1>6. Queue!Turn(s, j)
  BY <1>4, <1>5 DEF Queue!Turn
<1>7. \/ Records' = Records
      \/ Records' = [Records EXCEPT ![s] = Append(@, j)]
  <2>1. ASSUME UNCHANGED log PROVE Records' = Records
    BY <2>1 DEF Records, Writers
  <2>2. ASSUME NEW type \in LogTypes, Write(s, type, j, None)
        PROVE  Records' = [Records EXCEPT ![s] = Append(@, j)]
    BY <1>0, <2>2, WriteMaps
  <2> QED
    BY <2>1, <2>2 DEF Works
<1>8. Queue!MayRecord(s, j)
  BY <1>7 DEF Queue!MayRecord, Queue!Record, Records
<1>9. CASE r.state = "settled"
  <2>1. \A t \in Session : Unsettled(t)' = IF t = s THEN Unsettled(t) \ {j} ELSE Unsettled(t)
    BY <1>1, <1>2, <1>9 DEF Unsettled, Settled
  <2>2. \A t \in Session : Begun(t)' = IF t = s THEN {} ELSE Begun(t)
    <3>1. Begun(s)' = {}
      BY <1>2, <1>5, <1>9, <2>1 DEF Begun, Unsettled
    <3>2. ASSUME NEW t \in Session, t # s PROVE Begun(t)' = Begun(t)
      BY <1>2, <1>4, <2>1, <3>2 DEF Begun, Unsettled
    <3> QED
      BY <3>1, <3>2
  <2>3. Waiting' = [Waiting EXCEPT ![s] = @ \ {j}] /\ Running' = [Running EXCEPT ![s] = {}]
    BY <2>1, <2>2 DEF Waiting, Running
  <2>4. Queue!Finish(s, j)
    BY <1>2, <1>6, <1>8, <2>3 DEF Queue!Finish, Waiting, Running
  <2> QED
    BY <1>4, <2>4
<1>10. CASE r.state # "settled"
  <2>1. \A t \in Session : Unsettled(t)' = Unsettled(t)
    BY <1>1, <1>2, <1>3, <1>10 DEF Unsettled, Settled
  <2>2. \A t \in Session : Begun(t)' = IF t = s THEN {j} ELSE Begun(t)
    <3>1. Begun(s)' = {j}
      BY <1>1, <1>2, <1>4, <1>5, <2>1 DEF Begun, Unsettled
    <3>2. ASSUME NEW t \in Session, t # s PROVE Begun(t)' = Begun(t)
      BY <1>2, <1>4, <2>1, <3>2 DEF Begun, Unsettled
    <3> QED
      BY <3>1, <3>2
  <2>3. Waiting' = Waiting /\ Running' = [Running EXCEPT ![s] = {j}]
    BY <2>1, <2>2 DEF Waiting, Running
  <2>4. Queue!Work(s, j)
    BY <1>2, <1>6, <1>8, <2>3 DEF Queue!Work, Waiting, Running
  <2> QED
    BY <1>4, <2>4
<1> QED
  BY <1>9, <1>10

LEMMA RestsMaps ==
  ASSUME Types, Rests
  PROVE  UNCHANGED Queue!vars \/ \E s \in Session : Queue!Outside(s)
<1>1. UNCHANGED jobs /\ Waiting' = Waiting /\ Running' = Running
  BY DEF Rests, queue, Waiting, Running, Unsettled, Begun, Settled, Job
<1>2. CASE UNCHANGED log
  <2>1. Records' = Records
    BY <1>2 DEF Records, Writers
  <2> QED
    BY <1>1, <2>1 DEF Queue!vars, Waiting, Running, Records
<1>3. ASSUME NEW s \in Session, NEW type \in LogTypes, NEW j \in {None, -1}, NEW uses \in Int,
             Write(s, type, j, uses)
      PROVE  Queue!Outside(s)
  <2>1. Records' = [Records EXCEPT ![s] = Append(@, j)]
    BY <1>3, WriteMaps
  <2>2. Queue!Record(s, j)
    BY <2>1 DEF Queue!Record, Records
  <2> QED
    BY <1>1, <2>2 DEF Queue!Outside, Waiting, Running
<1> QED
  BY <1>2, <1>3 DEF Rests

LEMMA StepMaps == QueueInv /\ BeginsInOrder /\ [Next]_vars => [Queue!Next]_Queue!vars
<1> SUFFICES ASSUME QueueInv, BeginsInOrder, [Next]_vars PROVE [Queue!Next]_Queue!vars
  OBVIOUS
<1>0. Types
  BY DEF QueueInv
<1>1. ASSUME NEW s \in Session, NEW kind \in JobKinds, Grows(s, kind) PROVE Queue!Next
  BY <1>0, <1>1, GrowsMaps DEF Queue!Next
<1>2. ASSUME NEW j \in Job, Works(j) PROVE Queue!Next
  <2>1. PICK s \in Session : j \in Unsettled(s) /\ (Queue!Work(s, j) \/ Queue!Finish(s, j))
    BY <1>2, WorksMaps
  <2> QED
    BY <2>1 DEF Queue!Next
<1>3. CASE Rests
  BY <1>0, <1>3, RestsMaps DEF Queue!Next
<1> QED
  BY <1>0, <1>1, <1>2, <1>3, NextQueue

LEMMA InitMaps == Init => Queue!Init /\ BeginsInOrder
<1> SUFFICES ASSUME Init PROVE Queue!Init /\ BeginsInOrder
  OBVIOUS
<1>1. jobs = <<>> /\ Job = {} /\ Len(jobs) = 0 /\ \A s \in Session : log[s] = <<>>
  BY DEF Init, Job
<1>2. \A s \in Session : Unsettled(s) = {} /\ Begun(s) = {} /\ Writers(s) = <<>>
  BY <1>1 DEF Unsettled, Begun, Writers
<1> QED
  BY <1>1, <1>2 DEF Queue!Init, BeginsInOrder

(* Promises chained one behind the other are a queue for each session: a    *)
(* job begins when every earlier one of its session is over, whatever       *)
(* failed, and no two of a session are ever under way together; what other  *)
(* sessions and other programs do is not held up (index.js:234-268).        *)
THEOREM QueueIsSerial == Spec => ImplementsSessionQueue
  BY InitQueue, NextInOrder, InitMaps, NextBegins, StepMaps, PTL
  DEF Spec, ImplementsSessionQueue, Queue!Spec

=============================================================================
