-------------------- MODULE LedgerStoreRefinement_proofs --------------------
(* LedgerStore implements SerialLedger, for every set of processes, every    *)
(* bound and all faults, while no lock file outlives lockStaleMs.            *)
EXTENDS LedgerStoreRefinement, LedgerStore_proofs

(* What the mapping needs beyond SerialInv: what a transaction adds is its   *)
(* own, a transaction that only checks writes nothing, and a ledger that     *)
(* does not exist has no events.                                             *)

AddsItsOwn(p) ==
  \A n \in DOMAIN copy[p].events : n > Len(ledger.events) => copy[p].events[n] = p

OwnInv ==
  /\ ~ledger.exists => ledger.events = <<>>
  /\ \A p \in Proc : pc[p] \in {"callback", "write", "commit"} =>
       AddsItsOwn(p) /\ (op[p] = "check" => ~dirty[p])

LEMMA AppendsOwn ==
  ASSUME TypeOK, NEW p \in Proc, NEW ref, AddsItsOwn(p), Append1(p, ref), UNCHANGED ledger
  PROVE  AddsItsOwn(p)'
<1> DEFINE new == [exists |-> copy[p].exists, events |-> Append(copy[p].events, p), ref |-> ref]
<1>1. copy[p].events \in Seq(Proc)
  BY DEF TypeOK, Ledger
<1>2. new.events = Append(copy[p].events, p) /\ copy'[p] = new
  BY DEF Append1, TypeOK
<1> HIDE DEF new
<1> QED
  BY <1>1, <1>2 DEF AddsItsOwn

LEMMA OwnNext == SerialInv /\ OwnInv /\ [Next]_vars => OwnInv'
<1> SUFFICES ASSUME SerialInv, OwnInv, [Next]_vars PROVE OwnInv'
  OBVIOUS
<1>0. TypeOK /\ MutualExclusion
  BY HolderIsUnique DEF SerialInv
<1> USE <1>0 DEF Goto, Ends, disk, memory
<1>1. ASSUME NEW p \in Proc, ReadLedger(p) PROVE OwnInv'
  <2>1. \A q \in Proc : q # p => copy'[q] = copy[q] /\ dirty'[q] = dirty[q] /\ pc'[q] = pc[q]
    BY <1>1 DEF ReadLedger, TypeOK
  <2>2. UNCHANGED <<ledger, op>>
    BY <1>1 DEF ReadLedger
  <2>3. ASSUME pc'[p] = "callback" PROVE AddsItsOwn(p)' /\ (op[p] = "check" => ~dirty'[p])
    <3>1. copy'[p] = ledger /\ dirty'[p] = ~ledger.exists /\ (ledger.exists \/ op[p] # "check")
      BY <1>1, <2>3 DEF ReadLedger, TypeOK
    <3>2. ledger.events \in Seq(Proc)
      BY DEF TypeOK, Ledger
    <3>3. AddsItsOwn(p)'
      BY <2>2, <3>1, <3>2 DEF AddsItsOwn
    <3> QED
      BY <3>1, <3>3
  <2>4. pc'[p] \notin {"write", "commit"}
    BY <1>1 DEF ReadLedger, TypeOK
  <2> QED
    BY <2>1, <2>2, <2>3, <2>4 DEF OwnInv, AddsItsOwn
<1>2. ASSUME NEW p \in Proc, AppendEvent(p) PROVE OwnInv'
  <2>1. AddsItsOwn(p)'
    BY <1>2, AppendsOwn DEF AppendEvent, OwnInv
  <2>2. \A q \in Proc : q # p => copy'[q] = copy[q] /\ dirty'[q] = dirty[q]
    BY <1>2 DEF AppendEvent, Append1, TypeOK
  <2> QED
    BY <1>2, <2>1, <2>2 DEF AppendEvent, OwnInv, AddsItsOwn
<1>3. ASSUME NEW p \in Proc, AppendSnapshot(p) PROVE OwnInv'
  <2>1. AddsItsOwn(p)'
    BY <1>3, AppendsOwn DEF AppendSnapshot, OwnInv
  <2>2. \A q \in Proc : q # p => copy'[q] = copy[q] /\ dirty'[q] = dirty[q] /\ pc'[q] = pc[q]
    BY <1>3 DEF AppendSnapshot, Append1, TypeOK
  <2> QED
    BY <1>3, <2>1, <2>2 DEF AppendSnapshot, OwnInv, AddsItsOwn
<1>4. ASSUME NEW p \in Proc, CommitLedger(p) \/ RemoveTask(p) \/ RenameTask(p) PROVE OwnInv'
  <2>1. ledger' = ledger \/ ledger' = Missing \/ ledger' = [copy[p] EXCEPT !.exists = TRUE]
    BY <1>4 DEF CommitLedger, RemoveTask, RenameTask
  <2>2. ~ledger'.exists => ledger'.events = <<>>
    BY <2>1 DEF OwnInv, Missing, TypeOK, Ledger
  <2>3. pc'[p] \notin {"callback", "write", "commit"}
    BY <1>4 DEF CommitLedger, RemoveTask, RenameTask, TypeOK
  <2>4. \A q \in Proc : q # p => pc[q] \notin Holding /\ pc'[q] = pc[q]
    BY <1>4 DEF CommitLedger, RemoveTask, RenameTask, TypeOK, MutualExclusion, Holding
  <2> QED
    BY <2>2, <2>3, <2>4 DEF OwnInv, Holding
<1>5. ASSUME NEW p \in Proc,
             \/ Start(p) \/ OpenLock(p) \/ LockTimeout(p) \/ StatLock(p) \/ BreakLock(p)
             \/ WriteToken(p) \/ WriteSnapshot(p) \/ FinishCallback(p) \/ CallbackThrows(p)
             \/ ListSnapshots(p) \/ RemoveSnapshot(p) \/ ListArchives(p) \/ ListTask(p)
             \/ RemoveArchive(p) \/ CheckToken(p) \/ UnlinkLock(p) \/ BodyFails(p)
             \/ LockFileFails(p) \/ Crash(p) \/ Restart(p)
      PROVE  OwnInv'
  <2>1. UNCHANGED ledger
    BY <1>5 DEF Start, OpenLock, LockTimeout, StatLock, BreakLock, WriteToken, WriteSnapshot,
       FinishCallback, CallbackThrows, ListSnapshots, RemoveSnapshot, ListArchives, ListTask,
       RemoveArchive, CheckToken, UnlinkLock, BodyFails, LockFileFails, Crash, Restart
  <2>2. \A q \in Proc : pc'[q] \in {"callback", "write", "commit"} =>
          /\ pc[q] \in {"callback", "write", "commit"}
          /\ copy'[q] = copy[q] /\ op'[q] = op[q] /\ dirty'[q] = dirty[q]
    BY <1>5, BehaviourAssumption DEF Start, OpenLock, LockTimeout, StatLock, BreakLock, WriteToken, WriteSnapshot,
       FinishCallback, CallbackThrows, ListSnapshots, RemoveSnapshot, ListArchives, ListTask,
       RemoveArchive, CheckToken, UnlinkLock, BodyFails, LockFileFails, Crash, Restart,
       Forget, FirstStep, TypeOK
  <2> QED
    BY <2>1, <2>2 DEF OwnInv, AddsItsOwn
<1>6. CASE LockAges \/ UNCHANGED vars
  BY <1>6 DEF LockAges, vars, OwnInv, AddsItsOwn
<1> QED
  BY <1>1, <1>2, <1>3, <1>4, <1>5, <1>6
  DEF Next, Step, Acquire, Transact, Manage, Release, Fault

----------------------------------------------------------------------------
(* The abstract state, and what each kind of step does to it.                *)

Shown == [exists |-> ledger.exists, events |-> ledger.events]
Phases == [p \in Proc |-> Phase(p)]
Answer(p) == IF Phase(p) = "idle" THEN outcome[p] ELSE "none"
AllAnswers == [p \in Proc |-> Answer(p)]

\* Only p's call moves.
Moves(p) ==
  \A q \in Proc : q # p => pc'[q] = pc[q] /\ op'[q] = op[q] /\ outcome'[q] = outcome[q]

LEMMA OnlyOne ==
  ASSUME TypeOK, TypeOK', NEW p \in Proc, Moves(p)
  PROVE  /\ Phases' = [Phases EXCEPT ![p] = Phase(p)'] /\ Phases[p] = Phase(p)
         /\ AllAnswers' = [AllAnswers EXCEPT ![p] = Answer(p)']
         /\ Phase(p)' = Phase(p) => UNCHANGED Phases
         /\ Answer(p)' = Answer(p) => UNCHANGED AllAnswers
         /\ op'[p] = op[p] => UNCHANGED op
         /\ op' = [op EXCEPT ![p] = op'[p]]
<1>1. \A q \in Proc : q # p => Phase(q)' = Phase(q)
  BY DEF Moves, Phase
<1>2. \A q \in Proc : q # p => Answer(q)' = Answer(q)
  BY <1>1 DEF Moves, Answer
<1>3. Phases' = [Phases EXCEPT ![p] = Phase(p)'] /\ Phases[p] = Phase(p)
  BY <1>1 DEF Phases
<1>4. AllAnswers' = [AllAnswers EXCEPT ![p] = Answer(p)']
  BY <1>2 DEF AllAnswers
<1>5. Phase(p)' = Phase(p) => UNCHANGED Phases
  BY <1>1 DEF Phases
<1>6. Answer(p)' = Answer(p) => UNCHANGED AllAnswers
  BY <1>2 DEF AllAnswers
<1>7. op' = [op EXCEPT ![p] = op'[p]] /\ (op'[p] = op[p] => UNCHANGED op)
  BY DEF Moves, TypeOK
<1> QED
  BY <1>3, <1>4, <1>5, <1>6, <1>7

LEMMA MapsStutter ==
  ASSUME TypeOK, TypeOK', NEW p \in Proc, Moves(p), op'[p] = op[p], UNCHANGED Shown,
         Phase(p)' = Phase(p), Phase(p) = "idle" => outcome'[p] = outcome[p]
  PROVE  UNCHANGED Serial!vars
<1>1. Answer(p)' = Answer(p)
  BY DEF Answer
<1>2. UNCHANGED <<Phases, AllAnswers, op, Shown>>
  BY <1>1, OnlyOne
<1> QED
  BY <1>2 DEF Serial!vars, Phases, AllAnswers, Answer, Shown

LEMMA MapsBegin ==
  ASSUME TypeOK, TypeOK', NEW p \in Proc, Moves(p), op'[p] \in Ops, UNCHANGED Shown,
         Phase(p) = "idle", Phase(p)' = "pending"
  PROVE  Serial!Begin(p)
<1>1. Answer(p)' = "none"
  BY DEF Answer
<1>2. /\ Phases[p] \in {"idle"} /\ Phases' = [Phases EXCEPT ![p] = "pending"]
      /\ AllAnswers' = [AllAnswers EXCEPT ![p] = "none"]
      /\ op' = [op EXCEPT ![p] = op'[p]]
  BY <1>1, OnlyOne
<1> QED
  BY <1>2 DEF Serial!Begin, Serial!Moves, Phases, AllAnswers, Answer, Shown

LEMMA MapsFail ==
  ASSUME TypeOK, TypeOK', NEW p \in Proc, Moves(p), op'[p] = op[p], UNCHANGED Shown,
         Phase(p) \in {"pending", "applied"}, Phase(p)' = "failed"
  PROVE  Serial!Fail(p)
<1>1. Answer(p)' = Answer(p)
  BY DEF Answer
<1>2. /\ Phases[p] \in {"pending", "applied"} /\ Phases' = [Phases EXCEPT ![p] = "failed"]
      /\ UNCHANGED <<AllAnswers, op, Shown>>
  BY <1>1, OnlyOne
<1> QED
  BY <1>2 DEF Serial!Fail, Serial!Moves, Phases, AllAnswers, Answer, Shown

LEMMA MapsReturn ==
  ASSUME TypeOK, TypeOK', NEW p \in Proc, Moves(p), op'[p] = "append", UNCHANGED Shown,
         Phase(p) \in {"pending", "applied", "failed"}, Phase(p)' = "idle",
         outcome'[p] = "ok" => Phase(p) = "applied"
  PROVE  Serial!Return(p)
<1>1. Answer(p)' = outcome'[p] /\ outcome'[p] \in {"ok", "failed", "timeout", "none"}
  BY DEF Answer, TypeOK
<1>2. /\ Phases[p] \in {"pending", "applied", "failed"}
      /\ Phases' = [Phases EXCEPT ![p] = "idle"]
      /\ AllAnswers' = [AllAnswers EXCEPT ![p] = outcome'[p]]
      /\ op' = [op EXCEPT ![p] = "append"]
      /\ outcome'[p] = "ok" => Phases[p] = "applied"
  BY <1>1, OnlyOne
<1> QED
  BY <1>1, <1>2 DEF Serial!Return, Serial!Moves, Phases, AllAnswers, Answer, Shown

LEMMA MapsVanish ==
  ASSUME TypeOK, TypeOK', NEW p \in Proc, Moves(p), op'[p] = op[p],
         op[p] \in {"delete", "archive"}, Shown' = [exists |-> FALSE, events |-> <<>>],
         Phase(p) = "pending", Phase(p)' \in {"pending", "applied"}
  PROVE  Serial!Vanish(p)
<1>1. Answer(p)' = Answer(p)
  BY DEF Answer
<1>2. /\ Phases[p] \in {"pending"} /\ Phases' = [Phases EXCEPT ![p] = Phase(p)']
      /\ UNCHANGED <<AllAnswers, op>>
  BY <1>1, OnlyOne
<1>3. PICK to \in {"pending", "applied"} : Phases' = [Phases EXCEPT ![p] = to]
  BY <1>2
<1> QED
  BY <1>2, <1>3
  DEF Serial!Vanish, Serial!Moves, Serial!Nothing, Phases, AllAnswers, Answer, Shown

LEMMA MapsCommit ==
  ASSUME TypeOK, TypeOK', NEW p \in Proc, Moves(p), op'[p] = op[p],
         Phase(p) = "pending", Phase(p)' = "applied", ledger'.exists,
         \/ op[p] = "check" /\ UNCHANGED ledger
         \/ /\ op[p] \in {"append", "snapshot"} /\ IsPrefix(ledger.events, ledger'.events)
            /\ \A n \in DOMAIN ledger'.events : n > Len(ledger.events) => ledger'.events[n] = p
  PROVE  Serial!Update(p) \/ Serial!Check(p)
<1>1. Answer(p)' = Answer(p)
  BY DEF Answer
<1>2. /\ Phases[p] \in {"pending"} /\ Phases' = [Phases EXCEPT ![p] = "applied"]
      /\ UNCHANGED <<AllAnswers, op>>
  BY <1>1, OnlyOne
<1>3. CASE op[p] = "check" /\ UNCHANGED ledger
  BY <1>2, <1>3 DEF Serial!Check, Serial!Moves, Phases, AllAnswers, Answer
<1>4. CASE /\ op[p] \in {"append", "snapshot"} /\ IsPrefix(ledger.events, ledger'.events)
           /\ \A n \in DOMAIN ledger'.events : n > Len(ledger.events) => ledger'.events[n] = p
  <2>1. /\ [exists |-> ledger.exists, events |-> ledger.events].events = ledger.events
        /\ [exists |-> ledger.exists, events |-> ledger.events]'.events = ledger'.events
        /\ [exists |-> ledger.exists, events |-> ledger.events]'.exists = ledger'.exists
    OBVIOUS
  <2>2. Serial!IsPrefix(ledger.events, ledger'.events)
    BY <1>4 DEF IsPrefix, Serial!IsPrefix
  <2> QED
    BY <1>2, <1>4, <2>1, <2>2 DEF Serial!Update, Serial!Moves, Phases, AllAnswers, Answer
<1> QED
  BY <1>3, <1>4

----------------------------------------------------------------------------
(* Every step of the store is a step of the serial ledger, or shows nothing. *)

\* The steps of a call before and after its effect.
Quiet(p) ==
  \/ OpenLock(p) \/ StatLock(p) \/ WriteToken(p) \/ AppendEvent(p) \/ AppendSnapshot(p)
  \/ WriteSnapshot(p) \/ FinishCallback(p) \/ ListSnapshots(p) \/ ListArchives(p)
  \/ ListTask(p) \/ Restart(p)
  \/ ReadLedger(p) /\ pc'[p] = "callback"
  \/ RemoveSnapshot(p)
  \/ RemoveTask(p) /\ UNCHANGED ledger /\ pc'[p] # "release"
  \/ RemoveArchive(p) /\ pc'[p] # "release"
  \/ CheckToken(p) /\ lock.owner = p

LEMMA QuietMaps ==
  ASSUME TypeOK, TypeOK', NEW p \in Proc, Quiet(p)
  PROVE  UNCHANGED Serial!vars
<1> USE DEF Goto, Ends, disk, memory, TypeOK
<1>1. Moves(p) /\ op'[p] = op[p] /\ UNCHANGED ledger
  BY DEF Quiet, Moves, OpenLock, StatLock, WriteToken, AppendEvent, AppendSnapshot,
     WriteSnapshot, FinishCallback, ListSnapshots, ListArchives, ListTask, Restart,
     ReadLedger, RemoveSnapshot, RemoveTask, RemoveArchive, CheckToken
<1>2. Phase(p)' = Phase(p) /\ (Phase(p) = "idle" => outcome'[p] = outcome[p])
  BY BehaviourAssumption
  DEF Quiet, Phase, FirstStep, OpenLock, StatLock, WriteToken, AppendEvent,
      AppendSnapshot, WriteSnapshot, FinishCallback, ListSnapshots, ListArchives,
      ListTask, Restart, ReadLedger, RemoveSnapshot, RemoveTask, RemoveArchive, CheckToken
<1> QED
  BY <1>1, <1>2, MapsStutter DEF Shown

\* The steps at which a call fails inside its transaction.
Failing(p) ==
  \/ CallbackThrows(p) \/ BodyFails(p)
  \/ /\ ReadLedger(p) \/ RemoveTask(p)
     /\ pc'[p] = "release"
  \/ /\ CommitLedger(p) \/ RenameTask(p)
     /\ outcome'[p] = "failed" /\ UNCHANGED ledger /\ pc'[p] = "release"

LEMMA FailingMaps ==
  ASSUME TypeOK, TypeOK', NEW p \in Proc, Failing(p)
  PROVE  Serial!Fail(p)
<1> USE DEF Goto, Ends, disk, memory, TypeOK
<1>1. Moves(p) /\ op'[p] = op[p] /\ UNCHANGED ledger
  BY DEF Failing, Moves, CallbackThrows, BodyFails, ReadLedger, RemoveTask, CommitLedger,
     RenameTask
<1>2. Phase(p) \in {"pending", "applied"}
  BY DEF Failing, Phase, Holding, CallbackThrows, BodyFails, ReadLedger, RemoveTask,
     CommitLedger, RenameTask
<1>3. Phase(p)' = "failed"
  BY DEF Failing, Phase, Holding, CallbackThrows, BodyFails, ReadLedger, RemoveTask,
     CommitLedger, RenameTask
<1> QED
  BY <1>1, <1>2, <1>3, MapsFail DEF Shown

\* The steps with which a call comes back to its caller or dies.
Returning(p) ==
  \/ LockTimeout(p) \/ UnlinkLock(p) \/ LockFileFails(p) \/ Crash(p)
  \/ CheckToken(p) /\ lock.owner # p

LEMMA ReturningMaps ==
  ASSUME TypeOK, TypeOK', NEW p \in Proc, Returning(p)
  PROVE  Serial!Return(p)
<1> USE DEF Goto, Ends, disk, memory, TypeOK, Forget
<1>1. Moves(p) /\ op'[p] = "append" /\ UNCHANGED ledger
  BY DEF Returning, Moves, LockTimeout, UnlinkLock, LockFileFails, Crash, CheckToken
<1>2. Phase(p) \in {"pending", "applied", "failed"} /\ Phase(p)' = "idle"
  BY DEF Returning, Phase, Acquiring, Holding, LockTimeout, UnlinkLock, LockFileFails,
     Crash, CheckToken
<1>3. outcome'[p] = "ok" => Phase(p) = "applied"
  BY DEF Returning, Phase, LockTimeout, UnlinkLock, LockFileFails, Crash, CheckToken
<1> QED
  BY <1>1, <1>2, <1>3, MapsReturn DEF Shown

LEMMA CommitMaps ==
  ASSUME SerialInv, OwnInv, TypeOK', NEW p \in Proc, CommitLedger(p)
  PROVE  Serial!Update(p) \/ Serial!Check(p) \/ Serial!Fail(p)
<1> USE DEF Goto, Ends, disk, memory
<1>0. /\ TypeOK /\ pc[p] = "commit" /\ op[p] \in {"append", "check", "snapshot"}
      /\ IsPrefix(ledger.events, copy[p].events) /\ AddsItsOwn(p)
      /\ op[p] = "check" => ~dirty[p]
      /\ ~dirty[p] => ledger.exists /\ copy[p] = ledger
  BY DEF CommitLedger, SerialInv, OpMatches, CopyIsCurrent, OwnInv
<1>1. CASE outcome'[p] = "failed" /\ UNCHANGED ledger /\ pc'[p] = "release"
  BY <1>0, <1>1, FailingMaps DEF Failing
<1>2. CASE ~(outcome'[p] = "failed" /\ UNCHANGED ledger /\ pc'[p] = "release")
  <2>1. /\ Moves(p) /\ op'[p] = op[p] /\ Phase(p) = "pending" /\ Phase(p)' = "applied"
        /\ ledger' = IF dirty[p] THEN [copy[p] EXCEPT !.exists = TRUE] ELSE ledger
    BY <1>0, <1>2 DEF CommitLedger, Moves, Phase, TypeOK
  <2>2. copy[p] \in Ledger /\ ledger \in Ledger
    BY <1>0 DEF TypeOK
  <2>3. ledger'.exists /\ ledger'.events = copy[p].events
    BY <1>0, <2>1, <2>2 DEF Ledger
  <2>4. op[p] = "check" => UNCHANGED ledger
    BY <1>0, <2>1
  <2>5. \A n \in DOMAIN ledger'.events : n > Len(ledger.events) => ledger'.events[n] = p
    BY <1>0, <2>3 DEF AddsItsOwn
  <2> QED
    BY <1>0, <2>1, <2>3, <2>4, <2>5, MapsCommit
<1> QED
  BY <1>1, <1>2

\* The steps at which a delete or an archive makes the ledger go away.
Vanishing(p) ==
  \/ RemoveTask(p) /\ ledger' = Missing /\ pc'[p] = "rmtask"
  \/ RemoveArchive(p) /\ pc'[p] = "release"
  \/ RenameTask(p) /\ outcome'[p] = "ok"

LEMMA VanishingMaps ==
  ASSUME SerialInv, OwnInv, TypeOK', NEW p \in Proc, Vanishing(p)
  PROVE  Serial!Vanish(p)
<1> USE DEF Goto, Ends, disk, memory
<1>0. TypeOK /\ op[p] \in {"delete", "archive"}
  BY DEF SerialInv, OpMatches, Vanishing, RemoveTask, RemoveArchive, RenameTask
<1>1. Moves(p) /\ op'[p] = op[p]
  BY <1>0 DEF Vanishing, RemoveTask, RemoveArchive, RenameTask, Moves, TypeOK
<1>2. Phase(p) = "pending" /\ Phase(p)' \in {"pending", "applied"}
  BY <1>0 DEF Vanishing, RemoveTask, RemoveArchive, RenameTask, Phase, TypeOK
<1>3. ledger' = Missing \/ (~ledger.exists /\ UNCHANGED ledger)
  <2>1. CASE RemoveArchive(p) /\ pc'[p] = "release"
    BY <2>1 DEF RemoveArchive, SerialInv, DeleteProgress, TaskNames
  <2>2. CASE RenameTask(p) /\ outcome'[p] = "ok"
    BY <1>0, <2>2 DEF RenameTask, TaskNames, TypeOK
  <2> QED
    BY <2>1, <2>2 DEF Vanishing
<1>4. Shown' = [exists |-> FALSE, events |-> <<>>]
  <2>1. ~ledger'.exists /\ ledger'.events = <<>>
    BY <1>3 DEF Missing, OwnInv
  <2> QED
    BY <1>0, <1>3, <2>1 DEF Shown, TypeOK, Ledger, Missing
<1> QED
  BY <1>0, <1>1, <1>2, <1>4, MapsVanish

LEMMA StepMaps ==
  ASSUME SerialInv, OwnInv, [Next]_vars
  PROVE  [Serial!Next]_Serial!vars
<1>0. TypeOK /\ TypeOK'
  BY NextType DEF SerialInv
<1>1. ASSUME NEW p \in Proc, Start(p) PROVE Serial!Begin(p)
  <2>1. /\ Moves(p) /\ op'[p] \in Ops /\ UNCHANGED Shown
        /\ Phase(p) = "idle" /\ Phase(p)' = "pending"
    BY <1>0, <1>1 DEF Start, Moves, Shown, Phase, Goto, Ends, disk, TypeOK
  <2> QED
    BY <1>0, <2>1, MapsBegin
<1>2. ASSUME NEW p \in Proc, ReadLedger(p) PROVE Quiet(p) \/ Failing(p)
  BY <1>0, <1>2 DEF ReadLedger, Quiet, Failing, Goto, TypeOK
<1>3. ASSUME NEW p \in Proc, RemoveTask(p) PROVE Quiet(p) \/ Failing(p) \/ Vanishing(p)
  BY <1>0, <1>3 DEF RemoveTask, Quiet, Failing, Vanishing, Goto, TypeOK
<1>4. ASSUME NEW p \in Proc, RemoveArchive(p) PROVE Quiet(p) \/ Vanishing(p)
  BY <1>4 DEF Quiet, Vanishing
<1>5. ASSUME NEW p \in Proc, RenameTask(p) PROVE Failing(p) \/ Vanishing(p)
  BY <1>0, <1>5 DEF RenameTask, Failing, Vanishing, Goto, Ends, disk, TypeOK
<1>6. ASSUME NEW p \in Proc, CheckToken(p) PROVE Quiet(p) \/ Returning(p)
  BY <1>6 DEF Quiet, Returning
<1>7. ASSUME NEW p \in Proc, Start(p) \/ Step(p) \/ Fault(p) \/ Restart(p)
      PROVE  [Serial!Next]_Serial!vars
  <2>1. CASE Quiet(p)
    BY <1>0, <2>1, QuietMaps
  <2>2. CASE Failing(p)
    BY <1>0, <2>2, FailingMaps DEF Serial!Next
  <2>3. CASE Returning(p)
    BY <1>0, <2>3, ReturningMaps DEF Serial!Next
  <2>4. CASE Vanishing(p)
    BY <1>0, <2>4, VanishingMaps DEF Serial!Next
  <2>5. CASE CommitLedger(p)
    BY <1>0, <2>5, CommitMaps DEF Serial!Next
  <2>6. CASE Start(p)
    BY <1>1, <2>6 DEF Serial!Next
  <2>7. ~BreakLock(p)
    BY DEF SerialInv, LockNamesHolder, BreakLock, Goto
  <2>8. \/ Quiet(p) \/ Failing(p) \/ Returning(p) \/ Vanishing(p)
        \/ CommitLedger(p) \/ Start(p)
    <3>1. CASE ReadLedger(p) \/ RemoveTask(p) \/ RemoveArchive(p) \/ RenameTask(p)
               \/ CheckToken(p)
      BY <3>1, <1>2, <1>3, <1>4, <1>5, <1>6
    <3> QED
      BY <1>7, <2>7, <3>1
      DEF Quiet, Failing, Returning, Step, Acquire, Transact, Manage, Release, Fault
  <2> QED
    BY <2>1, <2>2, <2>3, <2>4, <2>5, <2>6, <2>8
<1>8. CASE LockAges \/ UNCHANGED vars
  <2>1. UNCHANGED <<ledger, pc, op, outcome>>
    BY <1>8 DEF LockAges, vars, disk
  <2> QED
    BY <2>1 DEF Serial!vars, Phase
<1> QED
  BY <1>7, <1>8 DEF Next

LEMMA InitMaps == Init => Serial!Init /\ OwnInv
  BY DEF Init, Serial!Init, Serial!Nothing, Missing, Phase, OwnInv

(* The store is a serial ledger: with any number of processes, killed        *)
(* anywhere, and whatever file operation fails, each call acts once, at one  *)
(* instant, on the ledger as it is then, and is answered "ok" only if it did *)
(* (store.mjs:182-245), while no lock file outlives lockStaleMs.             *)
THEOREM StoreIsSerial == ASSUME Ages = {} PROVE Spec => ImplementsSerialLedger
<1>1. SerialInv /\ [Next]_vars => SerialInv'
  BY SerialNext
<1>2. SerialInv /\ OwnInv /\ [Next]_vars => [Serial!Next]_Serial!vars
  BY StepMaps
<1> QED
  BY SerialInit, InitMaps, <1>1, OwnNext, <1>2, PTL
  DEF Spec, ImplementsSerialLedger, Serial!Spec
=============================================================================
