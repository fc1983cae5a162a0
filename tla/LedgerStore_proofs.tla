------------------------- MODULE LedgerStore_proofs -------------------------
(* Proofs about LedgerStore, for every set of processes and every bound. *)
EXTENDS LedgerStore, FiniteSetTheorems, TLAPS

----------------------------------------------------------------------------
(* Type correctness, by one case per action. *)

LEMMA MissingType == Missing \in Ledger
  BY DEF Missing, Ledger

LEMMA AppendType ==
  ASSUME NEW l \in Ledger, NEW p \in Proc, NEW r \in SnapName \cup {NoSnap}
  PROVE  [exists |-> l.exists, events |-> Append(l.events, p), ref |-> r] \in Ledger
  BY DEF Ledger

LEMMA ExistsType == ASSUME NEW l \in Ledger PROVE [l EXCEPT !.exists = TRUE] \in Ledger
  BY DEF Ledger

LEMMA RefType == ASSUME NEW l \in Ledger PROVE l.ref \in SnapName \cup {NoSnap}
  BY DEF Ledger

LEMMA InitType == Init => TypeOK
  BY BoundAssumption, MissingType
  DEF Init, TypeOK, NoLock, Labels

LEMMA NextType == TypeOK /\ [Next]_vars => TypeOK'
<1> SUFFICES ASSUME TypeOK, [Next]_vars PROVE TypeOK'
  OBVIOUS
<1> USE BoundAssumption, NameAssumption, MissingType
    DEF TypeOK, Labels, Acquiring, Holding, Goto, Ends, disk, memory
<1>1. ASSUME NEW p \in Proc, Start(p) PROVE TypeOK'
  BY <1>1 DEF Start
<1>2. ASSUME NEW p \in Proc, OpenLock(p) PROVE TypeOK'
  <2>1. pc' \in [Proc -> Labels]
    BY <1>2 DEF OpenLock, TimeLeft, NoLock
  <2>2. lock' \in [owner: Proc \cup {NoProc}, token: BOOLEAN, stale: BOOLEAN]
    BY <1>2 DEF OpenLock, TimeLeft, NoLock
  <2>3. tries' \in [Proc -> 0..MaxTries]
    BY <1>2 DEF OpenLock, TimeLeft, NoLock
  <2> QED
    BY <1>2, <2>1, <2>2, <2>3 DEF OpenLock, TimeLeft, NoLock
<1>3. ASSUME NEW p \in Proc, LockTimeout(p) PROVE TypeOK'
  BY <1>3 DEF LockTimeout, Forget
<1>4. ASSUME NEW p \in Proc, StatLock(p) PROVE TypeOK'
  BY <1>4 DEF StatLock
<1>5. ASSUME NEW p \in Proc, BreakLock(p) PROVE TypeOK'
  BY <1>5 DEF BreakLock, NoLock
<1>6. ASSUME NEW p \in Proc, WriteToken(p) PROVE TypeOK'
  BY <1>6 DEF WriteToken, FirstStep
<1>7. ASSUME NEW p \in Proc, ReadLedger(p) PROVE TypeOK'
  <2>1. pc' \in [Proc -> Labels]
    BY <1>7 DEF ReadLedger
  <2>2. copy' \in [Proc -> Ledger]
    BY <1>7 DEF ReadLedger
  <2>3. dirty' \in [Proc -> BOOLEAN]
    BY <1>7 DEF ReadLedger
  <2>4. outcome' \in [Proc -> {"none", "ok", "failed", "timeout"}]
    BY <1>7 DEF ReadLedger
  <2> QED
    BY <1>7, <2>1, <2>2, <2>3, <2>4 DEF ReadLedger
<1>8. ASSUME NEW p \in Proc, AppendEvent(p) PROVE TypeOK'
  <2>1. copy' \in [Proc -> Ledger]
    BY <1>8, AppendType, RefType DEF AppendEvent, Append1
  <2>2. dirty' \in [Proc -> BOOLEAN]
    BY <1>8, AppendType, RefType DEF AppendEvent, Append1
  <2> QED
    BY <1>8, <2>1, <2>2 DEF AppendEvent, Append1
<1>9. ASSUME NEW p \in Proc, AppendSnapshot(p) PROVE TypeOK'
  <2>1. pc' \in [Proc -> Labels]
    BY <1>9, AppendType DEF AppendSnapshot, Append1
  <2>2. copy' \in [Proc -> Ledger]
    BY <1>9, AppendType DEF AppendSnapshot, Append1
  <2>3. dirty' \in [Proc -> BOOLEAN]
    BY <1>9, AppendType DEF AppendSnapshot, Append1
  <2> QED
    BY <1>9, <2>1, <2>2, <2>3 DEF AppendSnapshot, Append1
<1>10. ASSUME NEW p \in Proc, WriteSnapshot(p) PROVE TypeOK'
  <2>1. pc' \in [Proc -> Labels]
    BY <1>10 DEF WriteSnapshot
  <2>2. files' \subseteq SnapName
    BY <1>10 DEF WriteSnapshot
  <2> QED
    BY <1>10, <2>1, <2>2 DEF WriteSnapshot
<1>11. ASSUME NEW p \in Proc, FinishCallback(p) PROVE TypeOK'
  BY <1>11 DEF FinishCallback
<1>12. ASSUME NEW p \in Proc, CallbackThrows(p) PROVE TypeOK'
  BY <1>12 DEF CallbackThrows
<1>13. ASSUME NEW p \in Proc, CommitLedger(p) PROVE TypeOK'
  BY <1>13, ExistsType DEF CommitLedger
<1>14. ASSUME NEW p \in Proc, ListSnapshots(p) PROVE TypeOK'
  BY <1>14 DEF ListSnapshots, Doomed, Oldest
<1>15. ASSUME NEW p \in Proc, RemoveSnapshot(p) PROVE TypeOK'
  <2>1. pc' \in [Proc -> Labels]
    BY <1>15 DEF RemoveSnapshot
  <2>2. files' \subseteq SnapName
    BY <1>15 DEF RemoveSnapshot
  <2>3. todo' \in [Proc -> SUBSET (SnapName \cup ArchiveId \cup {LedgerName})]
    BY <1>15 DEF RemoveSnapshot
  <2>4. outcome' \in [Proc -> {"none", "ok", "failed", "timeout"}]
    BY <1>15 DEF RemoveSnapshot
  <2> QED
    BY <1>15, <2>1, <2>2, <2>3, <2>4 DEF RemoveSnapshot
<1>16. ASSUME NEW p \in Proc, ListArchives(p) PROVE TypeOK'
  BY <1>16 DEF ListArchives
<1>17. ASSUME NEW p \in Proc, ListTask(p) PROVE TypeOK'
  BY <1>17 DEF ListTask, TaskNames
<1>18. ASSUME NEW p \in Proc, RemoveTask(p) PROVE TypeOK'
  <2>1. pc' \in [Proc -> Labels]
    BY <1>18 DEF RemoveTask
  <2>2. ledger' \in Ledger
    BY <1>18 DEF RemoveTask
  <2>3. files' \subseteq SnapName
    BY <1>18 DEF RemoveTask
  <2>4. todo' \in [Proc -> SUBSET (SnapName \cup ArchiveId \cup {LedgerName})]
    BY <1>18 DEF RemoveTask
  <2>5. outcome' \in [Proc -> {"none", "ok", "failed", "timeout"}]
    BY <1>18 DEF RemoveTask
  <2> QED
    BY <1>18, <2>1, <2>2, <2>3, <2>4, <2>5 DEF RemoveTask
<1>19. ASSUME NEW p \in Proc, RemoveArchive(p) PROVE TypeOK'
  <2>1. pc' \in [Proc -> Labels]
    BY <1>19 DEF RemoveArchive
  <2>2. archives' \subseteq ArchiveId
    BY <1>19 DEF RemoveArchive
  <2>3. todo' \in [Proc -> SUBSET (SnapName \cup ArchiveId \cup {LedgerName})]
    BY <1>19 DEF RemoveArchive
  <2>4. outcome' \in [Proc -> {"none", "ok", "failed", "timeout"}]
    BY <1>19 DEF RemoveArchive
  <2> QED
    BY <1>19, <2>1, <2>2, <2>3, <2>4 DEF RemoveArchive
<1>20. ASSUME NEW p \in Proc, RenameTask(p) PROVE TypeOK'
  BY <1>20 DEF RenameTask
<1>21. ASSUME NEW p \in Proc, CheckToken(p) PROVE TypeOK'
  <2>1. pc' \in [Proc -> Labels]
    BY <1>21 DEF CheckToken, Forget
  <2>2. op' \in [Proc -> Ops \cup {"append"}]
    BY <1>21 DEF CheckToken, Forget
  <2>3. tries' \in [Proc -> 0..MaxTries]
    BY <1>21 DEF CheckToken, Forget
  <2>4. copy' \in [Proc -> Ledger]
    BY <1>21 DEF CheckToken, Forget
  <2>5. dirty' \in [Proc -> BOOLEAN]
    BY <1>21 DEF CheckToken, Forget
  <2>6. todo' \in [Proc -> SUBSET (SnapName \cup ArchiveId \cup {LedgerName})]
    BY <1>21 DEF CheckToken, Forget
  <2>7. outcome' \in [Proc -> {"none", "ok", "failed", "timeout"}]
    BY <1>21 DEF CheckToken, Forget
  <2> QED
    BY <1>21, <2>1, <2>2, <2>3, <2>4, <2>5, <2>6, <2>7 DEF CheckToken, Forget
<1>22. ASSUME NEW p \in Proc, UnlinkLock(p) PROVE TypeOK'
  BY <1>22 DEF UnlinkLock, NoLock, Forget
<1>23. ASSUME NEW p \in Proc, Fault(p) PROVE TypeOK'
  <2>1. CASE BodyFails(p)
    BY <2>1 DEF BodyFails
  <2>2. CASE LockFileFails(p)
    BY <2>2 DEF LockFileFails, Forget
  <2>3. CASE Crash(p)
    BY <2>3 DEF Crash, Forget
  <2> QED
    BY <1>23, <2>1, <2>2, <2>3 DEF Fault
<1>24. ASSUME NEW p \in Proc, Restart(p) PROVE TypeOK'
  BY <1>24 DEF Restart
<1>25. CASE LockAges
  BY <1>25 DEF LockAges
<1>26. CASE UNCHANGED vars
  BY <1>26 DEF vars
<1> QED
  BY <1>1, <1>2, <1>3, <1>4, <1>5, <1>6, <1>7, <1>8, <1>9, <1>10, <1>11, <1>12,
     <1>13, <1>14, <1>15, <1>16, <1>17, <1>18, <1>19, <1>20, <1>21, <1>22,
     <1>23, <1>24, <1>25, <1>26
  DEF Next, Step, Acquire, Transact, Manage, Release

(* The types of the store's variables hold in every reachable state. *)
THEOREM TypeCorrect == Spec => []TypeOK
  BY InitType, NextType, PTL DEF Spec

----------------------------------------------------------------------------
(* The inductive invariant of the store while no lock file outlives         *)
(* lockStaleMs.  The lock file names its holder; the transaction's copy     *)
(* extends the file it will replace, because nobody else may replace it in  *)
(* between; and what a snapshot's transaction refers to is on disk when the *)
(* ledger names it and stays out of the listing of what to prune.           *)

LockNamesHolder ==
  /\ ~lock.stale
  /\ \A p \in Proc : pc[p] # "break" /\ (pc[p] \in Holding => lock.owner = p)

OpMatches ==
  \A p \in Proc :
    /\ pc[p] \in {"write", "prune", "rm"} => op[p] = "snapshot"
    /\ pc[p] \in {"read", "callback", "commit"} =>
         op[p] \in {"append", "check", "snapshot"}
    /\ pc[p] \in {"list", "scan", "rmtask", "rmarchive"} => op[p] = "delete"
    /\ pc[p] = "rename" => op[p] = "archive"

CopyIsCurrent ==
  \A p \in Proc :
    /\ pc[p] \in {"callback", "write", "commit"} =>
         /\ IsPrefix(ledger.events, copy[p].events)
         /\ ~dirty[p] => ledger.exists /\ copy[p] = ledger
         /\ op[p] # "snapshot" => copy[p].ref = ledger.ref
    /\ pc[p] = "callback" => copy[p].ref = ledger.ref
    /\ pc[p] \in {"write", "commit"} /\ op[p] = "snapshot" => dirty[p]
    /\ pc[p] = "commit" /\ op[p] = "snapshot" => copy[p].ref \in files

Committed(p) ==
  \/ pc[p] \in {"prune", "rm"}
  \/ /\ pc[p] \in {"release", "unlink"} /\ outcome[p] = "ok"
     /\ op[p] \in {"append", "snapshot"}

CommittedIsOnDisk ==
  \A p \in Proc :
    /\ Committed(p) => ledger = [copy[p] EXCEPT !.exists = TRUE]
    /\ pc[p] = "rm" => ledger.ref \notin todo[p]

DeleteProgress ==
  \A p \in Proc :
    /\ pc[p] \in {"scan", "rmtask", "rmarchive"} => archives \subseteq todo[p]
    /\ pc[p] = "rmarchive" => TaskNames = {}
    /\ pc[p] \in {"release", "unlink"} /\ outcome[p] = "ok" /\ op[p] = "delete" =>
         TaskNames = {} /\ archives = {}

SerialInv ==
  /\ TypeOK /\ LockNamesHolder /\ OpMatches
  /\ CopyIsCurrent /\ CommittedIsOnDisk /\ DeleteProgress

LEMMA PrefixRefl == ASSUME NEW S, NEW s \in Seq(S) PROVE IsPrefix(s, s)
  BY DEF IsPrefix

LEMMA PrefixAppend ==
  ASSUME NEW S, NEW s \in Seq(S), NEW t \in Seq(S), NEW e \in S, IsPrefix(s, t)
  PROVE  IsPrefix(s, Append(t, e))
  BY DEF IsPrefix

(* Only the owner of the lock file is past its creation. *)
LEMMA HolderIsUnique ==
  ASSUME TypeOK, LockNamesHolder PROVE MutualExclusion
  BY DEF LockNamesHolder, MutualExclusion

LEMMA SerialInit == Init => SerialInv
  BY InitType
  DEF Init, SerialInv, NoLock, LockNamesHolder, OpMatches, CopyIsCurrent,
      CommittedIsOnDisk, Committed, DeleteProgress, Acquiring, Holding

LEMMA SerialNext ==
  ASSUME Ages = {}, SerialInv, [Next]_vars PROVE SerialInv'
<1>1. TypeOK /\ TypeOK'
  BY NextType DEF SerialInv
<1>2. MutualExclusion
  BY HolderIsUnique DEF SerialInv
<1> USE <1>1, <1>2, ProcAssumption
    DEF Goto, Ends, disk, memory
<1>3. ASSUME NEW p \in Proc, Start(p)
      PROVE  /\ LockNamesHolder' /\ OpMatches' /\ CopyIsCurrent'
             /\ CommittedIsOnDisk' /\ DeleteProgress'
  <2> USE <1>3 DEF SerialInv, Start
  <2>1. LockNamesHolder'
    BY DEF TypeOK, LockNamesHolder, Acquiring, Holding
  <2>2. OpMatches'
    BY DEF TypeOK, OpMatches
  <2>3. CopyIsCurrent'
    BY DEF TypeOK, CopyIsCurrent, OpMatches, MutualExclusion, Holding
  <2>4. CommittedIsOnDisk'
    BY DEF TypeOK, CommittedIsOnDisk, Committed, OpMatches, MutualExclusion, Holding
  <2>5. DeleteProgress'
    BY DEF TypeOK, DeleteProgress, TaskNames, OpMatches, MutualExclusion, Holding
  <2> QED
    BY <2>1, <2>2, <2>3, <2>4, <2>5
<1>4. ASSUME NEW p \in Proc, OpenLock(p)
      PROVE  /\ LockNamesHolder' /\ OpMatches' /\ CopyIsCurrent'
             /\ CommittedIsOnDisk' /\ DeleteProgress'
  <2> USE <1>4 DEF SerialInv, OpenLock, TimeLeft, CanCreate, NoLock
  <2>1. LockNamesHolder'
    BY DEF TypeOK, LockNamesHolder, Acquiring, Holding
  <2>2. OpMatches'
    BY DEF TypeOK, OpMatches
  <2>3. CopyIsCurrent'
    BY DEF TypeOK, CopyIsCurrent, OpMatches, MutualExclusion, Holding
  <2>4. CommittedIsOnDisk'
    BY DEF TypeOK, CommittedIsOnDisk, Committed, OpMatches, MutualExclusion, Holding
  <2>5. DeleteProgress'
    BY DEF TypeOK, DeleteProgress, TaskNames, OpMatches, MutualExclusion, Holding
  <2> QED
    BY <2>1, <2>2, <2>3, <2>4, <2>5
<1>5. ASSUME NEW p \in Proc, LockTimeout(p)
      PROVE  /\ LockNamesHolder' /\ OpMatches' /\ CopyIsCurrent'
             /\ CommittedIsOnDisk' /\ DeleteProgress'
  <2> USE <1>5 DEF SerialInv, LockTimeout, GivesUp, Forget
  <2>1. LockNamesHolder'
    BY DEF TypeOK, LockNamesHolder, Acquiring, Holding
  <2>2. OpMatches'
    BY DEF TypeOK, OpMatches
  <2>3. CopyIsCurrent'
    BY DEF TypeOK, CopyIsCurrent, OpMatches, MutualExclusion, Holding
  <2>4. CommittedIsOnDisk'
    BY DEF TypeOK, CommittedIsOnDisk, Committed, OpMatches, MutualExclusion, Holding
  <2>5. DeleteProgress'
    BY DEF TypeOK, DeleteProgress, TaskNames, OpMatches, MutualExclusion, Holding
  <2> QED
    BY <2>1, <2>2, <2>3, <2>4, <2>5
<1>6. ASSUME NEW p \in Proc, StatLock(p)
      PROVE  /\ LockNamesHolder' /\ OpMatches' /\ CopyIsCurrent'
             /\ CommittedIsOnDisk' /\ DeleteProgress'
  <2> USE <1>6 DEF SerialInv, StatLock, Expired
  <2>1. LockNamesHolder'
    BY DEF TypeOK, LockNamesHolder, Acquiring, Holding
  <2>2. OpMatches'
    BY DEF TypeOK, OpMatches
  <2>3. CopyIsCurrent'
    BY DEF TypeOK, CopyIsCurrent, OpMatches, MutualExclusion, Holding
  <2>4. CommittedIsOnDisk'
    BY DEF TypeOK, CommittedIsOnDisk, Committed, OpMatches, MutualExclusion, Holding
  <2>5. DeleteProgress'
    BY DEF TypeOK, DeleteProgress, TaskNames, OpMatches, MutualExclusion, Holding
  <2> QED
    BY <2>1, <2>2, <2>3, <2>4, <2>5
<1>7. ASSUME NEW p \in Proc, BreakLock(p)
      PROVE  /\ LockNamesHolder' /\ OpMatches' /\ CopyIsCurrent'
             /\ CommittedIsOnDisk' /\ DeleteProgress'
  <2> USE <1>7 DEF SerialInv, BreakLock
  <2>1. LockNamesHolder'
    BY DEF TypeOK, LockNamesHolder, Acquiring, Holding
  <2>2. OpMatches'
    BY DEF TypeOK, OpMatches
  <2>3. CopyIsCurrent'
    BY DEF TypeOK, CopyIsCurrent, OpMatches, MutualExclusion, Holding
  <2>4. CommittedIsOnDisk'
    BY DEF TypeOK, CommittedIsOnDisk, Committed, OpMatches, MutualExclusion, Holding
  <2>5. DeleteProgress'
    BY DEF TypeOK, DeleteProgress, TaskNames, OpMatches, MutualExclusion, Holding
  <2> QED
    BY <2>1, <2>2, <2>3, <2>4, <2>5
<1>8. ASSUME NEW p \in Proc, WriteToken(p)
      PROVE  /\ LockNamesHolder' /\ OpMatches' /\ CopyIsCurrent'
             /\ CommittedIsOnDisk' /\ DeleteProgress'
  <2> USE <1>8 DEF SerialInv, WriteToken, FirstStep
  <2>1. LockNamesHolder'
    BY DEF TypeOK, LockNamesHolder, Acquiring, Holding
  <2>2. OpMatches'
    BY BehaviourAssumption DEF TypeOK, OpMatches
  <2>3. CopyIsCurrent'
    BY DEF TypeOK, CopyIsCurrent, OpMatches, MutualExclusion, Holding
  <2>4. CommittedIsOnDisk'
    BY DEF TypeOK, CommittedIsOnDisk, Committed, OpMatches, MutualExclusion, Holding
  <2>5. DeleteProgress'
    BY DEF TypeOK, DeleteProgress, TaskNames, OpMatches, MutualExclusion, Holding
  <2> QED
    BY <2>1, <2>2, <2>3, <2>4, <2>5
<1>9. ASSUME NEW p \in Proc, ReadLedger(p)
      PROVE  /\ LockNamesHolder' /\ OpMatches' /\ CopyIsCurrent'
             /\ CommittedIsOnDisk' /\ DeleteProgress'
  <2> USE <1>9 DEF SerialInv, ReadLedger
  <2>1. LockNamesHolder'
    BY DEF TypeOK, LockNamesHolder, Acquiring, Holding
  <2>2. OpMatches'
    BY DEF TypeOK, OpMatches
  <2>3. CopyIsCurrent'
    <3>1. IsPrefix(ledger.events, ledger.events)
      BY PrefixRefl DEF TypeOK, Ledger
    <3> QED
      BY <3>1 DEF TypeOK, CopyIsCurrent, OpMatches, MutualExclusion, Holding
  <2>4. CommittedIsOnDisk'
    BY DEF TypeOK, CommittedIsOnDisk, Committed, OpMatches, MutualExclusion, Holding
  <2>5. DeleteProgress'
    BY DEF TypeOK, DeleteProgress, TaskNames, OpMatches, MutualExclusion, Holding
  <2> QED
    BY <2>1, <2>2, <2>3, <2>4, <2>5
<1>10. ASSUME NEW p \in Proc, AppendEvent(p)
      PROVE  /\ LockNamesHolder' /\ OpMatches' /\ CopyIsCurrent'
             /\ CommittedIsOnDisk' /\ DeleteProgress'
  <2> USE <1>10 DEF SerialInv, AppendEvent, Append1
  <2>1. LockNamesHolder'
    BY DEF TypeOK, LockNamesHolder, Acquiring, Holding
  <2>2. OpMatches'
    BY DEF TypeOK, OpMatches
  <2>3. CopyIsCurrent'
    <3>1. /\ pc[p] = "callback" /\ IsPrefix(ledger.events, copy[p].events)
          /\ ledger.events \in Seq(Proc) /\ copy[p].events \in Seq(Proc)
      BY DEF TypeOK, CopyIsCurrent, Ledger
    <3>2. IsPrefix(ledger.events, copy'[p].events) /\ dirty'[p]
      BY <3>1, PrefixAppend DEF TypeOK
    <3> QED
      BY <3>1, <3>2 DEF TypeOK, CopyIsCurrent, OpMatches, MutualExclusion, Holding
  <2>4. CommittedIsOnDisk'
    BY DEF TypeOK, CommittedIsOnDisk, Committed, OpMatches, MutualExclusion, Holding
  <2>5. DeleteProgress'
    BY DEF TypeOK, DeleteProgress, TaskNames, OpMatches, MutualExclusion, Holding
  <2> QED
    BY <2>1, <2>2, <2>3, <2>4, <2>5
<1>11. ASSUME NEW p \in Proc, AppendSnapshot(p)
      PROVE  /\ LockNamesHolder' /\ OpMatches' /\ CopyIsCurrent'
             /\ CommittedIsOnDisk' /\ DeleteProgress'
  <2> USE <1>11 DEF SerialInv, AppendSnapshot, Append1
  <2>1. LockNamesHolder'
    BY DEF TypeOK, LockNamesHolder, Acquiring, Holding
  <2>2. OpMatches'
    BY DEF TypeOK, OpMatches
  <2>3. CopyIsCurrent'
    <3>1. /\ pc[p] = "callback" /\ IsPrefix(ledger.events, copy[p].events)
          /\ ledger.events \in Seq(Proc) /\ copy[p].events \in Seq(Proc)
      BY DEF TypeOK, CopyIsCurrent, Ledger
    <3>2. IsPrefix(ledger.events, copy'[p].events) /\ dirty'[p]
      BY <3>1, PrefixAppend DEF TypeOK
    <3> QED
      BY <3>1, <3>2 DEF TypeOK, CopyIsCurrent, OpMatches, MutualExclusion, Holding
  <2>4. CommittedIsOnDisk'
    BY DEF TypeOK, CommittedIsOnDisk, Committed, OpMatches, MutualExclusion, Holding
  <2>5. DeleteProgress'
    BY DEF TypeOK, DeleteProgress, TaskNames, OpMatches, MutualExclusion, Holding
  <2> QED
    BY <2>1, <2>2, <2>3, <2>4, <2>5
<1>12. ASSUME NEW p \in Proc, WriteSnapshot(p)
      PROVE  /\ LockNamesHolder' /\ OpMatches' /\ CopyIsCurrent'
             /\ CommittedIsOnDisk' /\ DeleteProgress'
  <2> USE <1>12 DEF SerialInv, WriteSnapshot
  <2>1. LockNamesHolder'
    BY DEF TypeOK, LockNamesHolder, Acquiring, Holding
  <2>2. OpMatches'
    BY DEF TypeOK, OpMatches
  <2>3. CopyIsCurrent'
    BY DEF TypeOK, CopyIsCurrent, OpMatches, MutualExclusion, Holding
  <2>4. CommittedIsOnDisk'
    BY DEF TypeOK, CommittedIsOnDisk, Committed, OpMatches, MutualExclusion, Holding
  <2>5. DeleteProgress'
    BY DEF TypeOK, DeleteProgress, TaskNames, OpMatches, MutualExclusion, Holding
  <2> QED
    BY <2>1, <2>2, <2>3, <2>4, <2>5
<1>13. ASSUME NEW p \in Proc, FinishCallback(p)
      PROVE  /\ LockNamesHolder' /\ OpMatches' /\ CopyIsCurrent'
             /\ CommittedIsOnDisk' /\ DeleteProgress'
  <2> USE <1>13 DEF SerialInv, FinishCallback
  <2>1. LockNamesHolder'
    BY DEF TypeOK, LockNamesHolder, Acquiring, Holding
  <2>2. OpMatches'
    BY DEF TypeOK, OpMatches
  <2>3. CopyIsCurrent'
    BY DEF TypeOK, CopyIsCurrent, OpMatches, MutualExclusion, Holding
  <2>4. CommittedIsOnDisk'
    BY DEF TypeOK, CommittedIsOnDisk, Committed, OpMatches, MutualExclusion, Holding
  <2>5. DeleteProgress'
    BY DEF TypeOK, DeleteProgress, TaskNames, OpMatches, MutualExclusion, Holding
  <2> QED
    BY <2>1, <2>2, <2>3, <2>4, <2>5
<1>14. ASSUME NEW p \in Proc, CallbackThrows(p)
      PROVE  /\ LockNamesHolder' /\ OpMatches' /\ CopyIsCurrent'
             /\ CommittedIsOnDisk' /\ DeleteProgress'
  <2> USE <1>14 DEF SerialInv, CallbackThrows
  <2>1. LockNamesHolder'
    BY DEF TypeOK, LockNamesHolder, Acquiring, Holding
  <2>2. OpMatches'
    BY DEF TypeOK, OpMatches
  <2>3. CopyIsCurrent'
    BY DEF TypeOK, CopyIsCurrent, OpMatches, MutualExclusion, Holding
  <2>4. CommittedIsOnDisk'
    BY DEF TypeOK, CommittedIsOnDisk, Committed, OpMatches, MutualExclusion, Holding
  <2>5. DeleteProgress'
    BY DEF TypeOK, DeleteProgress, TaskNames, OpMatches, MutualExclusion, Holding
  <2> QED
    BY <2>1, <2>2, <2>3, <2>4, <2>5
<1>15. ASSUME NEW p \in Proc, CommitLedger(p)
      PROVE  /\ LockNamesHolder' /\ OpMatches' /\ CopyIsCurrent'
             /\ CommittedIsOnDisk' /\ DeleteProgress'
  <2> USE <1>15 DEF SerialInv, CommitLedger
  <2>1. LockNamesHolder'
    BY DEF TypeOK, LockNamesHolder, Acquiring, Holding
  <2>2. OpMatches'
    BY DEF TypeOK, OpMatches
  <2>3. CopyIsCurrent'
    BY DEF TypeOK, CopyIsCurrent, OpMatches, MutualExclusion, Holding
  <2>4. CommittedIsOnDisk'
    <3>1. \A q \in Proc \ {p} : ~Committed(q) /\ ~Committed(q)' /\ pc'[q] # "rm"
      BY DEF TypeOK, Committed, MutualExclusion, Holding
    <3>2. Committed(p)' => ledger' = [copy[p] EXCEPT !.exists = TRUE]
      BY DEF TypeOK, Committed, CopyIsCurrent, Ledger
    <3>3. copy' = copy /\ pc'[p] # "rm"
      BY DEF TypeOK
    <3> QED
      BY <3>1, <3>2, <3>3 DEF CommittedIsOnDisk
  <2>5. DeleteProgress'
    BY DEF TypeOK, DeleteProgress, TaskNames, OpMatches, MutualExclusion, Holding
  <2> QED
    BY <2>1, <2>2, <2>3, <2>4, <2>5
<1>16. ASSUME NEW p \in Proc, ListSnapshots(p)
      PROVE  /\ LockNamesHolder' /\ OpMatches' /\ CopyIsCurrent'
             /\ CommittedIsOnDisk' /\ DeleteProgress'
  <2> USE <1>16 DEF SerialInv, ListSnapshots, Doomed, Oldest
  <2>1. LockNamesHolder'
    BY DEF TypeOK, LockNamesHolder, Acquiring, Holding
  <2>2. OpMatches'
    BY DEF TypeOK, OpMatches
  <2>3. CopyIsCurrent'
    BY DEF TypeOK, CopyIsCurrent, OpMatches, MutualExclusion, Holding
  <2>4. CommittedIsOnDisk'
    <3>1. ledger = [copy[p] EXCEPT !.exists = TRUE]
      BY DEF CommittedIsOnDisk, Committed
    <3>2. ledger.ref = copy[p].ref
      BY <3>1 DEF TypeOK, Ledger
    <3>3. ledger.ref \notin todo'[p]
      BY <3>2 DEF TypeOK
    <3>4. \A q \in Proc \ {p} : pc'[q] \notin Holding
      BY DEF TypeOK, MutualExclusion, Holding
    <3> QED
      BY <3>1, <3>3, <3>4 DEF TypeOK, CommittedIsOnDisk, Committed, Holding
  <2>5. DeleteProgress'
    BY DEF TypeOK, DeleteProgress, TaskNames, OpMatches, MutualExclusion, Holding
  <2> QED
    BY <2>1, <2>2, <2>3, <2>4, <2>5
<1>17. ASSUME NEW p \in Proc, RemoveSnapshot(p)
      PROVE  /\ LockNamesHolder' /\ OpMatches' /\ CopyIsCurrent'
             /\ CommittedIsOnDisk' /\ DeleteProgress'
  <2> USE <1>17 DEF SerialInv, RemoveSnapshot
  <2>1. LockNamesHolder'
    BY DEF TypeOK, LockNamesHolder, Acquiring, Holding
  <2>2. OpMatches'
    BY DEF TypeOK, OpMatches
  <2>3. CopyIsCurrent'
    BY DEF TypeOK, CopyIsCurrent, OpMatches, MutualExclusion, Holding
  <2>4. CommittedIsOnDisk'
    BY DEF TypeOK, CommittedIsOnDisk, Committed, OpMatches, MutualExclusion, Holding
  <2>5. DeleteProgress'
    BY DEF TypeOK, DeleteProgress, TaskNames, OpMatches, MutualExclusion, Holding
  <2> QED
    BY <2>1, <2>2, <2>3, <2>4, <2>5
<1>18. ASSUME NEW p \in Proc, ListArchives(p)
      PROVE  /\ LockNamesHolder' /\ OpMatches' /\ CopyIsCurrent'
             /\ CommittedIsOnDisk' /\ DeleteProgress'
  <2> USE <1>18 DEF SerialInv, ListArchives
  <2>1. LockNamesHolder'
    BY DEF TypeOK, LockNamesHolder, Acquiring, Holding
  <2>2. OpMatches'
    BY DEF TypeOK, OpMatches
  <2>3. CopyIsCurrent'
    BY DEF TypeOK, CopyIsCurrent, OpMatches, MutualExclusion, Holding
  <2>4. CommittedIsOnDisk'
    BY DEF TypeOK, CommittedIsOnDisk, Committed, OpMatches, MutualExclusion, Holding
  <2>5. DeleteProgress'
    BY DEF TypeOK, DeleteProgress, TaskNames, OpMatches, MutualExclusion, Holding
  <2> QED
    BY <2>1, <2>2, <2>3, <2>4, <2>5
<1>19. ASSUME NEW p \in Proc, ListTask(p)
      PROVE  /\ LockNamesHolder' /\ OpMatches' /\ CopyIsCurrent'
             /\ CommittedIsOnDisk' /\ DeleteProgress'
  <2> USE <1>19 DEF SerialInv, ListTask
  <2>1. LockNamesHolder'
    BY DEF TypeOK, LockNamesHolder, Acquiring, Holding
  <2>2. OpMatches'
    BY DEF TypeOK, OpMatches
  <2>3. CopyIsCurrent'
    BY DEF TypeOK, CopyIsCurrent, OpMatches, MutualExclusion, Holding
  <2>4. CommittedIsOnDisk'
    BY DEF TypeOK, CommittedIsOnDisk, Committed, OpMatches, MutualExclusion, Holding
  <2>5. DeleteProgress'
    BY DEF TypeOK, DeleteProgress, TaskNames, OpMatches, MutualExclusion, Holding
  <2> QED
    BY <2>1, <2>2, <2>3, <2>4, <2>5
<1>20. ASSUME NEW p \in Proc, RemoveTask(p)
      PROVE  /\ LockNamesHolder' /\ OpMatches' /\ CopyIsCurrent'
             /\ CommittedIsOnDisk' /\ DeleteProgress'
  <2> USE <1>20 DEF SerialInv, RemoveTask
  <2>1. LockNamesHolder'
    BY DEF TypeOK, LockNamesHolder, Acquiring, Holding
  <2>2. OpMatches'
    BY DEF TypeOK, OpMatches
  <2>3. CopyIsCurrent'
    BY DEF TypeOK, CopyIsCurrent, OpMatches, MutualExclusion, Holding
  <2>4. CommittedIsOnDisk'
    BY DEF TypeOK, CommittedIsOnDisk, Committed, OpMatches, MutualExclusion, Holding
  <2>5. DeleteProgress'
    BY DEF TypeOK, DeleteProgress, TaskNames, OpMatches, MutualExclusion, Holding
  <2> QED
    BY <2>1, <2>2, <2>3, <2>4, <2>5
<1>21. ASSUME NEW p \in Proc, RemoveArchive(p)
      PROVE  /\ LockNamesHolder' /\ OpMatches' /\ CopyIsCurrent'
             /\ CommittedIsOnDisk' /\ DeleteProgress'
  <2> USE <1>21 DEF SerialInv, RemoveArchive
  <2>1. LockNamesHolder'
    BY DEF TypeOK, LockNamesHolder, Acquiring, Holding
  <2>2. OpMatches'
    BY DEF TypeOK, OpMatches
  <2>3. CopyIsCurrent'
    BY DEF TypeOK, CopyIsCurrent, OpMatches, MutualExclusion, Holding
  <2>4. CommittedIsOnDisk'
    BY DEF TypeOK, CommittedIsOnDisk, Committed, OpMatches, MutualExclusion, Holding
  <2>5. DeleteProgress'
    BY DEF TypeOK, DeleteProgress, TaskNames, OpMatches, MutualExclusion, Holding
  <2> QED
    BY <2>1, <2>2, <2>3, <2>4, <2>5
<1>22. ASSUME NEW p \in Proc, RenameTask(p)
      PROVE  /\ LockNamesHolder' /\ OpMatches' /\ CopyIsCurrent'
             /\ CommittedIsOnDisk' /\ DeleteProgress'
  <2> USE <1>22 DEF SerialInv, RenameTask
  <2>1. LockNamesHolder'
    BY DEF TypeOK, LockNamesHolder, Acquiring, Holding
  <2>2. OpMatches'
    BY DEF TypeOK, OpMatches
  <2>3. CopyIsCurrent'
    BY DEF TypeOK, CopyIsCurrent, OpMatches, MutualExclusion, Holding
  <2>4. CommittedIsOnDisk'
    BY DEF TypeOK, CommittedIsOnDisk, Committed, OpMatches, MutualExclusion, Holding
  <2>5. DeleteProgress'
    BY DEF TypeOK, DeleteProgress, TaskNames, OpMatches, MutualExclusion, Holding
  <2> QED
    BY <2>1, <2>2, <2>3, <2>4, <2>5
<1>23. ASSUME NEW p \in Proc, CheckToken(p)
      PROVE  /\ LockNamesHolder' /\ OpMatches' /\ CopyIsCurrent'
             /\ CommittedIsOnDisk' /\ DeleteProgress'
  <2> USE <1>23 DEF SerialInv, CheckToken, Forget
  <2>1. LockNamesHolder'
    BY DEF TypeOK, LockNamesHolder, Acquiring, Holding
  <2>2. OpMatches'
    BY DEF TypeOK, OpMatches
  <2>3. CopyIsCurrent'
    BY DEF TypeOK, CopyIsCurrent, OpMatches, MutualExclusion, Holding
  <2>4. CommittedIsOnDisk'
    BY DEF TypeOK, CommittedIsOnDisk, Committed, OpMatches, MutualExclusion, Holding
  <2>5. DeleteProgress'
    BY DEF TypeOK, DeleteProgress, TaskNames, OpMatches, MutualExclusion, Holding
  <2> QED
    BY <2>1, <2>2, <2>3, <2>4, <2>5
<1>24. ASSUME NEW p \in Proc, UnlinkLock(p)
      PROVE  /\ LockNamesHolder' /\ OpMatches' /\ CopyIsCurrent'
             /\ CommittedIsOnDisk' /\ DeleteProgress'
  <2> USE <1>24 DEF SerialInv, UnlinkLock, NoLock, Forget
  <2>1. LockNamesHolder'
    BY DEF TypeOK, LockNamesHolder, Acquiring, Holding
  <2>2. OpMatches'
    BY DEF TypeOK, OpMatches
  <2>3. CopyIsCurrent'
    BY DEF TypeOK, CopyIsCurrent, OpMatches, MutualExclusion, Holding
  <2>4. CommittedIsOnDisk'
    BY DEF TypeOK, CommittedIsOnDisk, Committed, OpMatches, MutualExclusion, Holding
  <2>5. DeleteProgress'
    BY DEF TypeOK, DeleteProgress, TaskNames, OpMatches, MutualExclusion, Holding
  <2> QED
    BY <2>1, <2>2, <2>3, <2>4, <2>5
<1>25. ASSUME NEW p \in Proc, BodyFails(p)
      PROVE  /\ LockNamesHolder' /\ OpMatches' /\ CopyIsCurrent'
             /\ CommittedIsOnDisk' /\ DeleteProgress'
  <2> USE <1>25 DEF SerialInv, BodyFails
  <2>1. LockNamesHolder'
    BY DEF TypeOK, LockNamesHolder, Acquiring, Holding
  <2>2. OpMatches'
    BY DEF TypeOK, OpMatches
  <2>3. CopyIsCurrent'
    BY DEF TypeOK, CopyIsCurrent, OpMatches, MutualExclusion, Holding
  <2>4. CommittedIsOnDisk'
    BY DEF TypeOK, CommittedIsOnDisk, Committed, OpMatches, MutualExclusion, Holding
  <2>5. DeleteProgress'
    BY DEF TypeOK, DeleteProgress, TaskNames, OpMatches, MutualExclusion, Holding
  <2> QED
    BY <2>1, <2>2, <2>3, <2>4, <2>5
<1>26. ASSUME NEW p \in Proc, LockFileFails(p)
      PROVE  /\ LockNamesHolder' /\ OpMatches' /\ CopyIsCurrent'
             /\ CommittedIsOnDisk' /\ DeleteProgress'
  <2> USE <1>26 DEF SerialInv, LockFileFails, Forget
  <2>1. LockNamesHolder'
    BY DEF TypeOK, LockNamesHolder, Acquiring, Holding
  <2>2. OpMatches'
    BY DEF TypeOK, OpMatches
  <2>3. CopyIsCurrent'
    BY DEF TypeOK, CopyIsCurrent, OpMatches, MutualExclusion, Holding
  <2>4. CommittedIsOnDisk'
    BY DEF TypeOK, CommittedIsOnDisk, Committed, OpMatches, MutualExclusion, Holding
  <2>5. DeleteProgress'
    BY DEF TypeOK, DeleteProgress, TaskNames, OpMatches, MutualExclusion, Holding
  <2> QED
    BY <2>1, <2>2, <2>3, <2>4, <2>5
<1>27. ASSUME NEW p \in Proc, Crash(p)
      PROVE  /\ LockNamesHolder' /\ OpMatches' /\ CopyIsCurrent'
             /\ CommittedIsOnDisk' /\ DeleteProgress'
  <2> USE <1>27 DEF SerialInv, Crash, Forget
  <2>1. LockNamesHolder'
    BY DEF TypeOK, LockNamesHolder, Acquiring, Holding
  <2>2. OpMatches'
    BY DEF TypeOK, OpMatches
  <2>3. CopyIsCurrent'
    BY DEF TypeOK, CopyIsCurrent, OpMatches, MutualExclusion, Holding
  <2>4. CommittedIsOnDisk'
    BY DEF TypeOK, CommittedIsOnDisk, Committed, OpMatches, MutualExclusion, Holding
  <2>5. DeleteProgress'
    BY DEF TypeOK, DeleteProgress, TaskNames, OpMatches, MutualExclusion, Holding
  <2> QED
    BY <2>1, <2>2, <2>3, <2>4, <2>5
<1>28. ASSUME NEW p \in Proc, Restart(p)
      PROVE  /\ LockNamesHolder' /\ OpMatches' /\ CopyIsCurrent'
             /\ CommittedIsOnDisk' /\ DeleteProgress'
  <2> USE <1>28 DEF SerialInv, Restart
  <2>1. LockNamesHolder'
    BY DEF TypeOK, LockNamesHolder, Acquiring, Holding
  <2>2. OpMatches'
    BY DEF TypeOK, OpMatches
  <2>3. CopyIsCurrent'
    BY DEF TypeOK, CopyIsCurrent, OpMatches, MutualExclusion, Holding
  <2>4. CommittedIsOnDisk'
    BY DEF TypeOK, CommittedIsOnDisk, Committed, OpMatches, MutualExclusion, Holding
  <2>5. DeleteProgress'
    BY DEF TypeOK, DeleteProgress, TaskNames, OpMatches, MutualExclusion, Holding
  <2> QED
    BY <2>1, <2>2, <2>3, <2>4, <2>5
<1>29. CASE LockAges
  BY <1>29 DEF LockAges
<1>30. CASE UNCHANGED vars
  BY <1>30 DEF vars, SerialInv, LockNamesHolder, OpMatches, CopyIsCurrent,
     CommittedIsOnDisk, Committed, DeleteProgress, TaskNames
<1> QED
  BY <1>3, <1>4, <1>5, <1>6, <1>7, <1>8, <1>9, <1>10, <1>11, <1>12, <1>13, <1>14, <1>15, <1>16, <1>17, <1>18, <1>19, <1>20, <1>21, <1>22, <1>23, <1>24, <1>25, <1>26, <1>27, <1>28, <1>29, <1>30
  DEF Next, Step, Acquire, Transact, Manage, Release, Fault, SerialInv

(* While no lock file gets older than lockStaleMs the invariant holds.      *)
THEOREM SerialInvariant == ASSUME Ages = {} PROVE Spec => []SerialInv
<1>1. SerialInv /\ [Next]_vars => SerialInv'
  BY SerialNext
<1> QED
  BY SerialInit, <1>1, PTL DEF Spec

(* Mutual exclusion: acquireLock lets one process in at a time, however     *)
(* many processes there are and wherever they are killed (store.mjs:90).    *)
THEOREM LockIsExclusive == ASSUME Ages = {} PROVE Spec => []MutualExclusion
<1>1. SerialInv => MutualExclusion
  BY HolderIsUnique DEF SerialInv
<1> QED
  BY SerialInvariant, <1>1, PTL

(* A transaction that succeeds has its events in ledger.json.               *)
THEOREM SuccessIsDurable == ASSUME Ages = {} PROVE Spec => []SuccessIsOnDisk
<1>1. SerialInv => SuccessIsOnDisk
  BY DEF SerialInv, CommittedIsOnDisk, Committed, SuccessIsOnDisk
<1> QED
  BY SerialInvariant, <1>1, PTL

(* A delete that succeeds leaves no ledger, snapshot or archived copy.      *)
THEOREM DeleteIsComplete == ASSUME Ages = {} PROVE Spec => []DeleteLeavesNothing
<1>1. SerialInv => DeleteLeavesNothing
  BY DEF SerialInv, DeleteProgress, TaskNames, DeleteLeavesNothing
<1> QED
  BY SerialInvariant, <1>1, PTL

(* No committed event is overwritten: the ledger grows at its end or goes   *)
(* away in a delete or an archive.                                          *)
THEOREM UpdatesAreKept == ASSUME Ages = {} PROVE Spec => NoLostUpdate
<1>1. ASSUME SerialInv, [Next]_vars PROVE LedgerOnlyGrows
  <2> USE <1>1 DEF LedgerOnlyGrows
  <2>1. ASSUME NEW p \in Proc, CommitLedger(p) PROVE LedgerOnlyGrows
    <3>1. pc[p] = "commit"
      BY <2>1 DEF CommitLedger, Goto
    <3>2. CASE ledger' = [copy[p] EXCEPT !.exists = TRUE]
      <4>1. copy[p] \in Ledger /\ IsPrefix(ledger.events, copy[p].events)
        BY <3>1 DEF SerialInv, TypeOK, CopyIsCurrent
      <4>2. ledger'.exists /\ ledger'.events = copy[p].events
        BY <3>2, <4>1 DEF Ledger
      <4> QED
        BY <4>1, <4>2
    <3> QED
      BY <2>1, <3>2 DEF CommitLedger
  <2>2. ASSUME NEW p \in Proc, RemoveTask(p) PROVE LedgerOnlyGrows
    BY <2>2 DEF RemoveTask, Goto
  <2>3. ASSUME NEW p \in Proc, RenameTask(p) PROVE LedgerOnlyGrows
    BY <2>3 DEF RenameTask, Goto, disk
  <2>4. CASE UNCHANGED ledger
    BY <2>4
  <2> QED
    BY <2>1, <2>2, <2>3, <2>4
    DEF Next, vars, Step, Acquire, Transact, Manage, Release, Fault, disk, Start,
        OpenLock, LockTimeout, StatLock, BreakLock, WriteToken, ReadLedger,
        AppendEvent, AppendSnapshot, WriteSnapshot, FinishCallback, CallbackThrows,
        ListSnapshots, RemoveSnapshot, ListArchives, ListTask, RemoveArchive,
        CheckToken, UnlinkLock, BodyFails, LockFileFails, Crash, Restart, LockAges
<1> QED
  BY SerialInvariant, <1>1, PTL DEF Spec, NoLostUpdate

(* No step but a delete's makes the snapshot the ledger refers to go away.  *)
ReferenceKept == RefIsOnDisk => RefIsOnDisk' \/ \E p \in Proc : pc[p] = "rmtask"

THEOREM ReferenceIsKept == ASSUME Ages = {} PROVE Spec => ReferenceStays
<1>1. ASSUME SerialInv, [Next]_vars PROVE ReferenceKept
  <2> USE <1>1 DEF ReferenceKept, RefIsOnDisk
  <2>1. ASSUME NEW p \in Proc, CommitLedger(p) PROVE ReferenceKept
    <3>1. pc[p] = "commit" /\ UNCHANGED files
      BY <2>1 DEF CommitLedger, Goto
    <3>2. CASE ledger' = [copy[p] EXCEPT !.exists = TRUE]
      <4>1. ledger'.ref = copy[p].ref
        BY <3>2 DEF SerialInv, TypeOK, Ledger
      <4> QED
        BY <3>1, <4>1 DEF SerialInv, CopyIsCurrent
    <3> QED
      BY <2>1, <3>1, <3>2 DEF CommitLedger
  <2>2. ASSUME NEW p \in Proc, RemoveTask(p) PROVE ReferenceKept
    BY <2>2 DEF RemoveTask, Goto
  <2>3. ASSUME NEW p \in Proc, RenameTask(p) PROVE ReferenceKept
    BY <2>3 DEF RenameTask, Goto, disk, Missing
  <2>4. ASSUME NEW p \in Proc, RemoveSnapshot(p) PROVE ReferenceKept
    BY <2>4 DEF RemoveSnapshot, Goto, SerialInv, CommittedIsOnDisk
  <2>5. ASSUME NEW p \in Proc, WriteSnapshot(p) PROVE ReferenceKept
    BY <2>5 DEF WriteSnapshot
  <2>6. CASE UNCHANGED <<ledger, files>>
    BY <2>6
  <2> QED
    BY <2>1, <2>2, <2>3, <2>4, <2>5, <2>6
    DEF Next, vars, Step, Acquire, Transact, Manage, Release, Fault, disk, Start,
        OpenLock, LockTimeout, StatLock, BreakLock, WriteToken, ReadLedger,
        AppendEvent, AppendSnapshot, FinishCallback, CallbackThrows,
        ListSnapshots, ListArchives, ListTask, RemoveArchive,
        CheckToken, UnlinkLock, BodyFails, LockFileFails, Crash, Restart, LockAges
<1> QED
  BY SerialInvariant, <1>1, PTL DEF Spec, ReferenceStays, ReferenceKept

----------------------------------------------------------------------------
(* Retention.                                                               *)

(* How many elements of a set of numbers lie below s: the place of s in the *)
(* order, which differs from element to element.                            *)
Below(S, s) == {t \in S : t < s}

LEMMA PlacesDiffer ==
  ASSUME NEW S \in SUBSET Nat, IsFiniteSet(S), NEW s \in S, NEW u \in S, s < u
  PROVE  Cardinality(Below(S, s)) < Cardinality(Below(S, u))
<1>1. IsFiniteSet(Below(S, u)) /\ Below(S, s) \in SUBSET Below(S, u)
      /\ Below(S, s) # Below(S, u)
  <2>1. IsFiniteSet(Below(S, u))
    BY FS_Subset DEF Below
  <2>2. Below(S, s) \in SUBSET Below(S, u)
    <3>1. s \in Nat /\ u \in Nat /\ \A t \in S : t \in Nat
      OBVIOUS
    <3>2. \A t \in S : t < s => t < u
      BY <3>1
    <3> QED
      BY <3>2 DEF Below
  <2>3. s \in Below(S, u) /\ s \notin Below(S, s)
    BY DEF Below
  <2> QED
    BY <2>1, <2>2, <2>3
<1>2. /\ Cardinality(Below(S, s)) <= Cardinality(Below(S, u))
      /\ Cardinality(Below(S, s)) # Cardinality(Below(S, u))
  BY <1>1, FS_Subset
<1>3. Cardinality(Below(S, s)) \in Nat /\ Cardinality(Below(S, u)) \in Nat
  BY <1>1, FS_Subset, FS_CardinalityType
<1> QED
  BY <1>2, <1>3

(* What is left of a set without its n oldest names: at most the rest.      *)
LEMMA OldestLeaves ==
  ASSUME NEW S \in SUBSET Nat, IsFiniteSet(S), NEW n \in Nat, n <= Cardinality(S)
  PROVE  /\ IsFiniteSet(S \ Oldest(S, n))
         /\ Cardinality(S \ Oldest(S, n)) <= Cardinality(S) - n
<1> DEFINE Kept == S \ Oldest(S, n)
           place == [s \in Kept |-> Cardinality(Below(S, s))]
           Places == n..(Cardinality(S) - 1)
<1>1. Cardinality(S) \in Nat
  BY FS_CardinalityType
<1>2. ASSUME NEW s \in S
      PROVE  Cardinality(Below(S, s)) \in Nat /\ Cardinality(Below(S, s)) < Cardinality(S)
  <2>1. Below(S, s) \in SUBSET S /\ Below(S, s) # S
    BY DEF Below
  <2>2. IsFiniteSet(Below(S, s))
    BY <2>1, FS_Subset
  <2>3. Cardinality(Below(S, s)) \in Nat
    BY <2>2, FS_CardinalityType
  <2>4. Cardinality(Below(S, s)) <= Cardinality(S) /\ Cardinality(Below(S, s)) # Cardinality(S)
    BY <2>1, FS_Subset
  <2> QED
    BY <1>1, <2>3, <2>4
<1>3. ASSUME NEW s \in Kept PROVE Cardinality(Below(S, s)) \in Places
  <2>1. s \in S /\ ~(Cardinality(Below(S, s)) < n)
    BY DEF Oldest, Below
  <2> QED
    BY <1>1, <1>2, <2>1
<1>4. ASSUME NEW s \in Kept, NEW u \in Kept, place[s] = place[u] PROVE s = u
  <2>1. s \in S /\ u \in S /\ s \in Nat /\ u \in Nat
    OBVIOUS
  <2>2. Cardinality(Below(S, s)) = Cardinality(Below(S, u))
    BY <1>4
  <2>3. ~(s < u) /\ ~(u < s)
    BY <1>2, <2>1, <2>2, PlacesDiffer
  <2> QED
    BY <2>1, <2>3
<1>5. place \in Injection(Kept, Places)
  <2>1. place \in [Kept -> Places]
    BY <1>3
  <2> HIDE DEF place
  <2> QED
    BY <1>4, <2>1 DEF Injection, IsInjective
<1>6. IsFiniteSet(Places) /\ Cardinality(Places) = Cardinality(S) - n
  <2>1. n \in Int /\ Cardinality(S) - 1 \in Int
    BY <1>1
  <2>2. /\ IsFiniteSet(Places)
        /\ Cardinality(Places) =
             IF n > Cardinality(S) - 1 THEN 0 ELSE (Cardinality(S) - 1) - n + 1
    BY <2>1, FS_Interval
  <2> QED
    BY <1>1, <2>1, <2>2
<1> HIDE DEF place, Places, Kept
<1>7. IsFiniteSet(Kept) /\ Cardinality(Kept) <= Cardinality(Places)
  BY <1>5, <1>6, FS_Injection
<1> QED
  BY <1>6, <1>7 DEF Kept

(* What is on disk when everything listed for pruning has gone, whether or  *)
(* not the protected name is there.                                         *)
LEMMA DoomedLeaves ==
  ASSUME NEW S \in SUBSET Nat, IsFiniteSet(S), NEW ref, NEW R \in Nat \ {0}
  PROVE  Cardinality(S \ Oldest(S \ {ref}, Cardinality(S) - R)) <= R
<1> DEFINE T == S \ {ref}
           n == Cardinality(S) - R
           Rest == T \ Oldest(T, n)
<1>1. /\ T \in SUBSET Nat /\ IsFiniteSet(T) /\ Cardinality(T) \in Nat /\ Cardinality(S) \in Nat
      /\ Cardinality(T) = IF ref \in S THEN Cardinality(S) - 1 ELSE Cardinality(S)
  BY FS_RemoveElement, FS_CardinalityType
<1>2. CASE n < 0
  <2>1. S \ Oldest(T, n) \in SUBSET S
    OBVIOUS
  <2>2. Cardinality(S \ Oldest(T, n)) <= Cardinality(S) /\ Cardinality(S \ Oldest(T, n)) \in Nat
    BY <2>1, FS_Subset, FS_CardinalityType
  <2> QED
    BY <1>1, <1>2, <2>2
<1>3. CASE n >= 0
  <2>1. n \in Nat /\ n <= Cardinality(T)
    BY <1>1, <1>3
  <2> HIDE DEF n, T
  <2>2. IsFiniteSet(Rest) /\ Cardinality(Rest) <= Cardinality(T) - n /\ Cardinality(Rest) \in Nat
    BY <1>1, <2>1, OldestLeaves, FS_CardinalityType
  <2>3. S \ Oldest(T, n) = IF ref \in S THEN Rest \cup {ref} ELSE Rest
    <3>1. Oldest(T, n) \subseteq T
      BY DEF Oldest
    <3> QED
      BY <3>1 DEF T
  <2>4. ref \notin Rest
    BY DEF T
  <2> HIDE DEF Rest
  <2>5. Cardinality(Rest \cup {ref}) = Cardinality(Rest) + 1
    BY <2>2, <2>4, FS_AddElement
  <2>6. Cardinality(S \ Oldest(T, n)) =
          IF ref \in S THEN Cardinality(Rest) + 1 ELSE Cardinality(Rest)
    BY <2>3, <2>5
  <2>7. Cardinality(Rest) <= Cardinality(T) - (Cardinality(S) - R) /\ Cardinality(Rest) \in Nat
    BY <2>2 DEF n
  <2>8. /\ Cardinality(T) \in Nat /\ Cardinality(S) \in Nat
        /\ Cardinality(T) = IF ref \in S THEN Cardinality(S) - 1 ELSE Cardinality(S)
    BY <1>1
  <2>9. Cardinality(S \ Oldest(T, n)) <= R
    BY <2>6, <2>7, <2>8
  <2> QED
    BY <2>9 DEF T, n
<1> QED
  BY <1>1, <1>2, <1>3

(* The inductive invariant of the pruning: when the listed names have gone, *)
(* no more than SnapshotRetention are left.                                 *)
Pruned(p) ==
  pc[p] \in {"release", "unlink"} /\ outcome[p] = "ok" /\ op[p] = "snapshot"

PruneInv ==
  /\ IsFiniteSet(files)
  /\ \A p \in Proc :
       /\ pc[p] = "rm" => Cardinality(files \ todo[p]) <= SnapshotRetention
       /\ Pruned(p) => Cardinality(files) <= SnapshotRetention

(* A step of somebody else, or of another kind, leaves what the pruning      *)
(* rests on as it was.                                                      *)
LEMMA PruningIsAlone ==
  ASSUME Ages = {}, SerialInv, [Next]_vars, NEW q \in Proc, pc'[q] = "rm" \/ Pruned(q)',
         ~ListSnapshots(q), ~RemoveSnapshot(q)
  PROVE  /\ files' = files
         /\ pc'[q] = "rm" => pc[q] = "rm" /\ todo'[q] = todo[q]
         /\ Pruned(q)' => Pruned(q)
<1>1. TypeOK /\ LockNamesHolder /\ OpMatches
  BY DEF SerialInv
<1>2. MutualExclusion
  BY <1>1, HolderIsUnique
<1>3. /\ pc \in [Proc -> Labels] /\ op \in [Proc -> Ops \cup {"append"}]
      /\ outcome \in [Proc -> {"none", "ok", "failed", "timeout"}]
      /\ todo \in [Proc -> SUBSET (SnapName \cup ArchiveId \cup {LedgerName})]
  BY <1>1 DEF TypeOK
<1> DEFINE Alone == /\ files' = files
                    /\ pc'[q] = "rm" => pc[q] = "rm" /\ todo'[q] = todo[q]
                    /\ Pruned(q)' => Pruned(q)
<1> SUFFICES Alone
  OBVIOUS
<1> USE <1>3 DEF Goto, Ends, disk, memory, Pruned
<1>4. ASSUME NEW p \in Proc, Start(p) PROVE Alone
  BY <1>4, <1>1, <1>2 DEF Start, OpMatches, MutualExclusion, Holding
<1>5. ASSUME NEW p \in Proc, OpenLock(p) PROVE Alone
  BY <1>5, <1>1, <1>2 DEF OpenLock, OpMatches, MutualExclusion, Holding
<1>6. ASSUME NEW p \in Proc, LockTimeout(p) PROVE Alone
  BY <1>6, <1>1, <1>2 DEF LockTimeout, Forget, OpMatches, MutualExclusion, Holding
<1>7. ASSUME NEW p \in Proc, StatLock(p) PROVE Alone
  BY <1>7, <1>1, <1>2 DEF StatLock, OpMatches, MutualExclusion, Holding
<1>8. ASSUME NEW p \in Proc, BreakLock(p) PROVE Alone
  BY <1>8, <1>1, <1>2 DEF BreakLock, OpMatches, MutualExclusion, Holding
<1>9. ASSUME NEW p \in Proc, WriteToken(p) PROVE Alone
  BY <1>9, <1>1, <1>2 DEF WriteToken, FirstStep, OpMatches, MutualExclusion, Holding
<1>10. ASSUME NEW p \in Proc, ReadLedger(p) PROVE Alone
  BY <1>10, <1>1, <1>2 DEF ReadLedger, OpMatches, MutualExclusion, Holding
<1>11. ASSUME NEW p \in Proc, AppendEvent(p) PROVE Alone
  BY <1>11, <1>1, <1>2 DEF AppendEvent, Append1, OpMatches, MutualExclusion, Holding
<1>12. ASSUME NEW p \in Proc, AppendSnapshot(p) PROVE Alone
  BY <1>12, <1>1, <1>2 DEF AppendSnapshot, Append1, OpMatches, MutualExclusion, Holding
<1>13. ASSUME NEW p \in Proc, WriteSnapshot(p) PROVE Alone
  BY <1>13, <1>1, <1>2 DEF WriteSnapshot, OpMatches, MutualExclusion, Holding
<1>14. ASSUME NEW p \in Proc, FinishCallback(p) PROVE Alone
  BY <1>14, <1>1, <1>2 DEF FinishCallback, OpMatches, MutualExclusion, Holding
<1>15. ASSUME NEW p \in Proc, CallbackThrows(p) PROVE Alone
  BY <1>15, <1>1, <1>2 DEF CallbackThrows, OpMatches, MutualExclusion, Holding
<1>16. ASSUME NEW p \in Proc, CommitLedger(p) PROVE Alone
  BY <1>16, <1>1, <1>2 DEF CommitLedger, OpMatches, MutualExclusion, Holding
<1>17. ASSUME NEW p \in Proc, ListSnapshots(p) PROVE Alone
  BY <1>17, <1>2 DEF ListSnapshots, MutualExclusion, Holding
<1>18. ASSUME NEW p \in Proc, RemoveSnapshot(p) PROVE Alone
  BY <1>18, <1>2 DEF RemoveSnapshot, MutualExclusion, Holding
<1>19. ASSUME NEW p \in Proc, ListArchives(p) PROVE Alone
  BY <1>19, <1>1, <1>2 DEF ListArchives, OpMatches, MutualExclusion, Holding
<1>20. ASSUME NEW p \in Proc, ListTask(p) PROVE Alone
  BY <1>20, <1>1, <1>2 DEF ListTask, OpMatches, MutualExclusion, Holding
<1>21. ASSUME NEW p \in Proc, RemoveTask(p) PROVE Alone
  BY <1>21, <1>1, <1>2 DEF RemoveTask, OpMatches, MutualExclusion, Holding
<1>22. ASSUME NEW p \in Proc, RemoveArchive(p) PROVE Alone
  BY <1>22, <1>1, <1>2 DEF RemoveArchive, OpMatches, MutualExclusion, Holding
<1>23. ASSUME NEW p \in Proc, RenameTask(p) PROVE Alone
  BY <1>23, <1>1, <1>2 DEF RenameTask, OpMatches, MutualExclusion, Holding
<1>24. ASSUME NEW p \in Proc, CheckToken(p) PROVE Alone
  BY <1>24, <1>1, <1>2 DEF CheckToken, Forget, OpMatches, MutualExclusion, Holding
<1>25. ASSUME NEW p \in Proc, UnlinkLock(p) PROVE Alone
  BY <1>25, <1>1, <1>2 DEF UnlinkLock, Forget, OpMatches, MutualExclusion, Holding
<1>26. ASSUME NEW p \in Proc, BodyFails(p) PROVE Alone
  BY <1>26, <1>1, <1>2 DEF BodyFails, OpMatches, MutualExclusion, Holding
<1>27. ASSUME NEW p \in Proc, LockFileFails(p) PROVE Alone
  BY <1>27, <1>1, <1>2 DEF LockFileFails, Forget, OpMatches, MutualExclusion, Holding
<1>28. ASSUME NEW p \in Proc, Crash(p) PROVE Alone
  BY <1>28, <1>1, <1>2 DEF Crash, Forget, OpMatches, MutualExclusion, Holding
<1>29. ASSUME NEW p \in Proc, Restart(p) PROVE Alone
  BY <1>29, <1>1, <1>2 DEF Restart, OpMatches, MutualExclusion, Holding
<1>30. CASE LockAges
  BY <1>30 DEF LockAges
<1>31. CASE UNCHANGED vars
  BY <1>31 DEF vars
<1> QED
  BY <1>4, <1>5, <1>6, <1>7, <1>8, <1>9, <1>10, <1>11, <1>12, <1>13, <1>14, <1>15, <1>16, <1>17, <1>18, <1>19, <1>20, <1>21, <1>22, <1>23, <1>24, <1>25, <1>26, <1>27, <1>28, <1>29, <1>30, <1>31
  DEF Next, Step, Acquire, Transact, Manage, Release, Fault

(* The files stay finitely many: a step adds at most one.                   *)
LEMMA FilesStayFinite == ASSUME IsFiniteSet(files), [Next]_vars PROVE IsFiniteSet(files')
<1>1. ASSUME NEW p \in Proc, WriteSnapshot(p) PROVE IsFiniteSet(files')
  BY <1>1, FS_AddElement DEF WriteSnapshot
<1>2. CASE files' \in SUBSET files
  BY <1>2, FS_Subset
<1>3. ASSUME NEW p \in Proc, RemoveSnapshot(p) \/ RemoveTask(p) \/ RenameTask(p)
      PROVE  files' \in SUBSET files
  BY <1>3 DEF RemoveSnapshot, RemoveTask, RenameTask, disk
<1>4. CASE UNCHANGED files
  BY <1>4
<1> QED
  BY <1>1, <1>2, <1>3, <1>4
  DEF Next, vars, Step, Acquire, Transact, Manage, Release, Fault, disk, Start,
      OpenLock, LockTimeout, StatLock, BreakLock, WriteToken, ReadLedger,
      AppendEvent, AppendSnapshot, FinishCallback, CallbackThrows, CommitLedger,
      ListSnapshots, ListArchives, ListTask, RemoveArchive,
      CheckToken, UnlinkLock, BodyFails, LockFileFails, Crash, Restart, LockAges

(* The pruning, step by step.                                               *)
LEMMA PruneNext ==
  ASSUME Ages = {}, SerialInv, PruneInv, [Next]_vars PROVE PruneInv'
<1>1. IsFiniteSet(files')
  BY FilesStayFinite DEF PruneInv
<1>2. TypeOK /\ files \in SUBSET Nat /\ SnapshotRetention \in Nat \ {0}
  BY NameAssumption, BoundAssumption DEF SerialInv, TypeOK
<1>3. ASSUME NEW q \in Proc, pc'[q] = "rm" \/ Pruned(q)'
      PROVE  /\ pc'[q] = "rm" => Cardinality(files' \ todo'[q]) <= SnapshotRetention
             /\ Pruned(q)' => Cardinality(files') <= SnapshotRetention
  <2>1. CASE ListSnapshots(q)
    <3>1. files' = files /\ pc'[q] = "rm" /\ todo'[q] = Doomed(q)
      BY <1>2, <2>1 DEF ListSnapshots, Goto, disk, TypeOK
    <3>2. Cardinality(files \ Doomed(q)) <= SnapshotRetention
      BY <1>2, DoomedLeaves DEF PruneInv, Doomed
    <3> QED
      BY <3>1, <3>2 DEF Pruned
  <2>2. CASE RemoveSnapshot(q)
    <3>1. pc[q] = "rm" /\ Cardinality(files \ todo[q]) <= SnapshotRetention
      BY <2>2 DEF RemoveSnapshot, Goto, PruneInv
    <3>2. CASE todo[q] = {}
      <4>1. files' = files /\ todo' = todo /\ files \ todo[q] = files
        BY <2>2, <3>2 DEF RemoveSnapshot
      <4> QED
        BY <3>1, <4>1
    <3>3. CASE todo[q] # {}
      <4>1. PICK s \in todo[q] : files' = files \ {s} /\ todo'[q] = todo[q] \ {s} /\ pc' = pc
        BY <1>2, <2>2, <3>3 DEF RemoveSnapshot, TypeOK
      <4>2. files' \ todo'[q] = files \ todo[q]
        BY <4>1
      <4> QED
        BY <3>1, <4>1, <4>2 DEF Pruned
    <3> QED
      BY <3>2, <3>3
  <2>3. CASE ~ListSnapshots(q) /\ ~RemoveSnapshot(q)
    <3>1. /\ files' = files
          /\ pc'[q] = "rm" => pc[q] = "rm" /\ todo'[q] = todo[q]
          /\ Pruned(q)' => Pruned(q)
      BY <1>3, <2>3, PruningIsAlone
    <3> QED
      BY <3>1 DEF PruneInv
  <2> QED
    BY <2>1, <2>2, <2>3
<1> QED
  BY <1>1, <1>3 DEF PruneInv

(* A snapshot that succeeds leaves at most SnapshotRetention files, however  *)
(* many others had left behind.                                             *)
THEOREM RetentionIsKept == ASSUME Ages = {} PROVE Spec => []RetentionAfterSnapshot
<1>1. Init => PruneInv
  BY FS_EmptySet DEF Init, PruneInv, Pruned
<1>2. SerialInv /\ PruneInv /\ [Next]_vars => PruneInv'
  BY PruneNext
<1>3. PruneInv => RetentionAfterSnapshot
  BY DEF PruneInv, Pruned, RetentionAfterSnapshot
<1> QED
  BY SerialInvariant, <1>1, <1>2, <1>3, PTL DEF Spec

============================================================================
