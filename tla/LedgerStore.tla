---------------------------- MODULE LedgerStore ----------------------------
(***************************************************************************)
(* The per-task store of store.mjs: one lock file, one ledger file, a      *)
(* directory of snapshots and the archived copies of ONE task, used by     *)
(* several operating-system processes (hook processes, the MCP server, the *)
(* CLI and the adapter all open the same directory).  Every awaited file   *)
(* operation is a step of its own, so any two processes interleave between *)
(* them, and a process may be killed before any of them.                   *)
(*                                                                         *)
(* The time a lock file has existed is abstracted by lock.stale: its mtime *)
(* lies more than lockStaleMs in the past.  Ages says which lock files can *)
(* get that old in the behaviours considered.                              *)
(***************************************************************************)
EXTENDS Integers, FiniteSets, SequencesExt

CONSTANTS
  Proc,              \* processes that open the task's directory
  NoProc,            \* owner of a lock file that does not exist
  SnapName,          \* snapshot file names, numbered in name order (bound)
  NoSnap,            \* a projection without latest_snapshot
  ArchiveId,         \* archive directory suffixes (bound)
  MaxTries,          \* turns of the acquire loop within lockTimeoutMs (bound)
  MaxEvents,         \* MAX_EVENTS_PER_TASK
  SnapshotRetention, \* SNAPSHOT_RETENTION
  EventBytes,        \* size of one event in JSON.stringify(ledger)
  IndentBytes,       \* what JSON.stringify(ledger, null, 2) adds per event
  MaxLedgerBytes,    \* MAX_LEDGER_BYTES
  Ops,               \* store operations the processes run
  Ages,              \* which lock files outlive lockStaleMs
  Faults             \* which faults can happen

ASSUME ProcAssumption == NoProc \notin Proc
ASSUME NameAssumption ==
  /\ SnapName \subseteq Nat \ {0} /\ ArchiveId \subseteq Nat \ {0}
  /\ SnapName \cap ArchiveId = {} /\ NoSnap \notin SnapName
ASSUME BoundAssumption ==
  /\ MaxTries \in Nat \ {0} /\ MaxEvents \in Nat
  /\ SnapshotRetention \in Nat \ {0}
  /\ EventBytes \in Nat /\ IndentBytes \in Nat /\ MaxLedgerBytes \in Nat
ASSUME BehaviourAssumption ==
  /\ Ops \subseteq {"append", "check", "snapshot", "archive", "delete"}
  /\ Ages \subseteq {"abandoned", "held"}
  /\ Faults \subseteq {"crash", "io"}

VARIABLES
  lock,      \* locks/<key>.lock: who created it, token written?, old?
  ledger,    \* tasks/<key>/ledger.json
  files,     \* names in tasks/<key>/snapshots
  archives,  \* suffixes of archive/<key>-<suffix>
  pc,        \* the next file operation of each process
  op,        \* the store operation each process runs
  tries,     \* turns each process has taken in the acquire loop
  copy,      \* the ledger object of each process's transaction
  dirty,     \* does each process's transaction write the ledger back?
  todo,      \* names each process has listed and not yet removed
  outcome    \* how each process's last operation ended

LedgerName == 0  \* ledger.json in a listing of the task's directory

disk == <<ledger, files, archives>>
memory == <<copy, dirty, todo>>
vars == <<lock, ledger, files, archives, pc, op, tries, copy, dirty, todo, outcome>>

Acquiring == {"open", "stat", "break"}
Holding == {"token", "read", "callback", "write", "commit", "prune", "rm",
            "list", "scan", "rmtask", "rmarchive", "rename", "release", "unlink"}
Labels == Acquiring \cup Holding \cup {"idle", "down"}

\* A ledger: does the file exist, its events (by writer), latest_snapshot.
Ledger == [exists: BOOLEAN, events: Seq(Proc), ref: SnapName \cup {NoSnap}]
Missing == [exists |-> FALSE, events |-> <<>>, ref |-> NoSnap]
CompactBytes(l) == Len(l.events) * EventBytes
FileBytes(l) == Len(l.events) * (EventBytes + IndentBytes)

NoLock == [owner |-> NoProc, token |-> FALSE, stale |-> FALSE]

TypeOK ==
  /\ lock \in [owner: Proc \cup {NoProc}, token: BOOLEAN, stale: BOOLEAN]
  /\ ledger \in Ledger
  /\ files \subseteq SnapName
  /\ archives \subseteq ArchiveId
  /\ pc \in [Proc -> Labels]
  /\ op \in [Proc -> Ops \cup {"append"}]
  /\ tries \in [Proc -> 0..MaxTries]
  /\ copy \in [Proc -> Ledger]
  /\ dirty \in [Proc -> BOOLEAN]
  /\ todo \in [Proc -> SUBSET (SnapName \cup ArchiveId \cup {LedgerName})]
  /\ outcome \in [Proc -> {"none", "ok", "failed", "timeout"}]
  /\ \A p \in Proc : pc[p] = "write" => copy[p].ref \in SnapName

Init ==
  /\ lock = NoLock
  /\ ledger = Missing
  /\ files = {}
  /\ archives = {}
  /\ pc = [p \in Proc |-> "idle"]
  /\ op = [p \in Proc |-> "append"]
  /\ tries = [p \in Proc |-> 0]
  /\ copy = [p \in Proc |-> Missing]
  /\ dirty = [p \in Proc |-> FALSE]
  /\ todo = [p \in Proc |-> {}]
  /\ outcome = [p \in Proc |-> "none"]

Goto(p, from, to) == pc[p] = from /\ pc' = [pc EXCEPT ![p] = to]
Ends(p, how) == outcome' = [outcome EXCEPT ![p] = how]

\* The operation's local variables are gone when it returns or its process dies.
Forget(p) ==
  /\ op' = [op EXCEPT ![p] = "append"]
  /\ tries' = [tries EXCEPT ![p] = 0]
  /\ copy' = [copy EXCEPT ![p] = Missing]
  /\ dirty' = [dirty EXCEPT ![p] = FALSE]
  /\ todo' = [todo EXCEPT ![p] = {}]

\* The n names of S that sort first.
Oldest(S, n) == {s \in S : Cardinality({t \in S : t < s}) < n}

----------------------------------------------------------------------------
\* Mutants: bugs that the runs must notice, each a variant of the definition
\* its name starts with.

TimeLeft_OneTurnMore(p) == tries[p] <= MaxTries
GivesUp_TooLate(p) == tries[p] > MaxTries
CanCreate_NotExclusive == TRUE       \* flag "w" for "wx"
Expired_Fresh == lock # NoLock       \* the age comparison reversed
Expired_Never == FALSE
FirstStep_NoListing(o) ==
  CASE o = "delete" -> "scan" [] o = "archive" -> "rename" [] OTHER -> "read"
Append1_NotDirty(p, ref) ==
  /\ Len(copy[p].events) < MaxEvents
  /\ copy' = [copy EXCEPT ![p] =
                [exists |-> @.exists, events |-> Append(@.events, p), ref |-> ref]]
  /\ UNCHANGED dirty
Doomed_Unprotected(p) ==
  Oldest(files, Cardinality(files) - SnapshotRetention)
Doomed_Miscounted(p) ==              \* counts after the protected name is out
  Oldest(files \ {copy[p].ref},
           Cardinality(files \ {copy[p].ref}) - SnapshotRetention)

----------------------------------------------------------------------------
\* acquireLock

Start(p) ==
  /\ Goto(p, "idle", "open")
  /\ \E o \in Ops : op' = [op EXCEPT ![p] = o]
  /\ Ends(p, "none")
  /\ UNCHANGED <<lock, disk, tries, memory>>

\* while (Date.now() - started < lockTimeoutMs)
TimeLeft(p) == tries[p] < MaxTries
GivesUp(p) == tries[p] > 0

\* open(filePath, "wx"): create the lock file, still empty, or EEXIST.
CanCreate == lock = NoLock

OpenLock(p) ==
  /\ TimeLeft(p)
  /\ tries' = [tries EXCEPT ![p] = @ + 1]
  /\ \/ /\ CanCreate
        /\ lock' = [NoLock EXCEPT !.owner = p]
        /\ Goto(p, "open", "token")
     \/ /\ ~CanCreate
        /\ Goto(p, "open", "stat")
        /\ UNCHANGED lock
  /\ UNCHANGED <<disk, op, memory, outcome>>

LockTimeout(p) ==
  /\ GivesUp(p)
  /\ Goto(p, "open", "idle")
  /\ Ends(p, "timeout")
  /\ Forget(p)
  /\ UNCHANGED <<lock, disk>>

\* Date.now() - stats.mtimeMs > lockStaleMs
Expired == lock.stale

\* A file that is gone or fresh: wait 25 ms and try again.
StatLock(p) ==
  /\ \/ Expired /\ Goto(p, "stat", "break")
     \/ ~Expired /\ Goto(p, "stat", "open")
  /\ UNCHANGED <<lock, disk, op, tries, memory, outcome>>

\* rm(filePath): whoever's file is there by now.
BreakLock(p) ==
  /\ Goto(p, "break", "open")
  /\ lock' = NoLock
  /\ UNCHANGED <<disk, op, tries, memory, outcome>>

FirstStep(o) ==
  CASE o = "delete" -> "list" [] o = "archive" -> "rename" [] OTHER -> "read"

\* The handle still writes p's file, which may no longer be the one on disk.
WriteToken(p) ==
  /\ Goto(p, "token", FirstStep(op[p]))
  /\ lock' = IF lock.owner = p THEN [owner |-> p, token |-> TRUE, stale |-> FALSE]
             ELSE lock
  /\ UNCHANGED <<disk, op, tries, memory, outcome>>

----------------------------------------------------------------------------
\* transact

ReadLedger(p) ==
  /\ \/ /\ ledger.exists => FileBytes(ledger) <= MaxLedgerBytes
        /\ ledger.exists \/ op[p] # "check"
        /\ copy' = [copy EXCEPT ![p] = ledger]
        /\ dirty' = [dirty EXCEPT ![p] = ~ledger.exists]
        /\ Goto(p, "read", "callback")
        /\ UNCHANGED outcome
     \/ /\ \/ ledger.exists /\ FileBytes(ledger) > MaxLedgerBytes
           \/ ~ledger.exists /\ op[p] = "check"
        /\ Goto(p, "read", "release")
        /\ Ends(p, "failed")
        /\ UNCHANGED <<copy, dirty>>
  /\ UNCHANGED <<lock, disk, op, tries, todo>>

\* transaction.append, any number of times up to the event limit.
Append1(p, ref) ==
  /\ Len(copy[p].events) < MaxEvents
  /\ copy' = [copy EXCEPT ![p] =
                [exists |-> @.exists, events |-> Append(@.events, p), ref |-> ref]]
  /\ dirty' = [dirty EXCEPT ![p] = TRUE]

AppendEvent(p) ==
  /\ op[p] # "check"
  /\ pc[p] = "callback" /\ UNCHANGED pc
  /\ Append1(p, copy[p].ref)
  /\ UNCHANGED <<lock, disk, op, tries, todo, outcome>>

\* A name carries the wall clock and a random identifier: it is new, but the
\* clock may have stepped back, so it need not sort last.
FreshName(s) ==
  s \notin files \cup {ledger.ref} \cup {copy[q].ref : q \in Proc}

AppendSnapshot(p) ==
  /\ op[p] = "snapshot"
  /\ Goto(p, "callback", "write")
  /\ \E s \in SnapName : FreshName(s) /\ Append1(p, s)
  /\ UNCHANGED <<lock, disk, op, tries, todo, outcome>>

WriteSnapshot(p) ==
  /\ Goto(p, "write", "commit")
  /\ files' = files \cup {copy[p].ref}
  /\ UNCHANGED <<lock, ledger, archives, op, tries, memory, outcome>>

\* The callback of every other transaction returns, or it throws.
FinishCallback(p) ==
  /\ op[p] # "snapshot"
  /\ Goto(p, "callback", "commit")
  /\ UNCHANGED <<lock, disk, op, tries, memory, outcome>>

CallbackThrows(p) ==
  /\ Goto(p, "callback", "release")
  /\ Ends(p, "failed")
  /\ UNCHANGED <<lock, disk, op, tries, memory>>

\* The size check, then the atomic rename over ledger.json.
CommitLedger(p) ==
  /\ \/ /\ dirty[p] => CompactBytes(copy[p]) <= MaxLedgerBytes
        /\ ledger' = IF dirty[p] THEN [copy[p] EXCEPT !.exists = TRUE] ELSE ledger
        /\ \/ op[p] = "snapshot" /\ Goto(p, "commit", "prune") /\ UNCHANGED outcome
           \/ op[p] # "snapshot" /\ Goto(p, "commit", "release") /\ Ends(p, "ok")
     \/ /\ dirty[p] /\ CompactBytes(copy[p]) > MaxLedgerBytes
        /\ Goto(p, "commit", "release")
        /\ Ends(p, "failed")
        /\ UNCHANGED ledger
  /\ UNCHANGED <<lock, files, archives, op, tries, memory>>

\* The files over the retention limit, never the one the ledger refers to.
Doomed(p) ==
  Oldest(files \ {copy[p].ref}, Cardinality(files) - SnapshotRetention)

\* pruneSnapshotsUnlocked: list, choose, then remove one file at a time.
ListSnapshots(p) ==
  /\ Goto(p, "prune", "rm")
  /\ todo' = [todo EXCEPT ![p] = Doomed(p)]
  /\ UNCHANGED <<lock, disk, op, tries, copy, dirty, outcome>>

RemoveSnapshot(p) ==
  /\ \/ \E s \in todo[p] :
          /\ \A t \in todo[p] : s <= t
          /\ pc[p] = "rm" /\ UNCHANGED <<pc, outcome>>
          /\ files' = files \ {s}
          /\ todo' = [todo EXCEPT ![p] = @ \ {s}]
     \/ /\ todo[p] = {}
        /\ Goto(p, "rm", "release")
        /\ Ends(p, "ok")
        /\ UNCHANGED <<files, todo>>
  /\ UNCHANGED <<lock, ledger, archives, op, tries, copy, dirty>>

----------------------------------------------------------------------------
\* deleteTask and archiveTask

ListArchives(p) ==
  /\ Goto(p, "list", "scan")
  /\ todo' = [todo EXCEPT ![p] = archives]
  /\ UNCHANGED <<lock, disk, op, tries, copy, dirty, outcome>>

\* rm(target, recursive): list the directory, remove the names found one by one
\* in some order, then the directory itself, which throws if names were added.
TaskNames == files \cup (IF ledger.exists THEN {LedgerName} ELSE {})

ListTask(p) ==
  /\ Goto(p, "scan", "rmtask")
  /\ todo' = [todo EXCEPT ![p] = @ \cup TaskNames]
  /\ UNCHANGED <<lock, disk, op, tries, copy, dirty, outcome>>

RemoveTask(p) ==
  /\ \/ \E n \in todo[p] \ ArchiveId :
          /\ pc[p] = "rmtask" /\ UNCHANGED <<pc, outcome>>
          /\ ledger' = IF n = LedgerName THEN Missing ELSE ledger
          /\ files' = files \ {n}
          /\ todo' = [todo EXCEPT ![p] = @ \ {n}]
     \/ /\ todo[p] \subseteq ArchiveId
        /\ \/ TaskNames = {} /\ Goto(p, "rmtask", "rmarchive") /\ UNCHANGED outcome
           \/ TaskNames # {} /\ Goto(p, "rmtask", "release") /\ Ends(p, "failed")
        /\ UNCHANGED <<ledger, files, todo>>
  /\ UNCHANGED <<lock, archives, op, tries, copy, dirty>>

RemoveArchive(p) ==
  /\ \/ \E a \in todo[p] :
          /\ pc[p] = "rmarchive" /\ UNCHANGED <<pc, outcome>>
          /\ archives' = archives \ {a}
          /\ todo' = [todo EXCEPT ![p] = @ \ {a}]
     \/ /\ todo[p] = {}
        /\ Goto(p, "rmarchive", "release")
        /\ Ends(p, "ok")
        /\ UNCHANGED <<archives, todo>>
  /\ UNCHANGED <<lock, ledger, files, op, tries, copy, dirty>>

\* One rename moves the whole directory; without a directory nothing happens.
\* The suffix is a clock reading: a directory that has it already is in the way.
RenameTask(p) ==
  /\ Goto(p, "rename", "release")
  /\ \/ /\ TaskNames # {}
        /\ \E a \in ArchiveId \ archives : archives' = archives \cup {a}
        /\ ledger' = Missing
        /\ files' = {}
        /\ Ends(p, "ok")
     \/ /\ TaskNames # {} /\ archives # {}
        /\ Ends(p, "failed")
        /\ UNCHANGED disk
     \/ /\ TaskNames = {}
        /\ Ends(p, "ok")
        /\ UNCHANGED disk
  /\ UNCHANGED <<lock, op, tries, memory>>

----------------------------------------------------------------------------
\* The release function returned by acquireLock

\* Parsing the lock file throws when its new owner has not written it yet.
CheckToken(p) ==
  /\ \/ /\ lock.owner = p
        /\ Goto(p, "release", "unlink")
        /\ UNCHANGED <<op, tries, memory, outcome>>
     \/ /\ lock.owner # p
        /\ Goto(p, "release", "idle")
        /\ IF lock # NoLock /\ ~lock.token THEN Ends(p, "failed") ELSE UNCHANGED outcome
        /\ Forget(p)
  /\ UNCHANGED <<lock, disk>>

UnlinkLock(p) ==
  /\ Goto(p, "unlink", "idle")
  /\ lock' = NoLock
  /\ Forget(p)
  /\ UNCHANGED <<disk, outcome>>

----------------------------------------------------------------------------
\* Faults and time

\* A file operation of the body throws: transact's finally releases the lock.
BodyFails(p) ==
  /\ "io" \in Faults
  /\ pc[p] \in Holding \ {"token", "release", "unlink"}
  /\ pc' = [pc EXCEPT ![p] = "release"]
  /\ Ends(p, "failed")
  /\ UNCHANGED <<lock, disk, op, tries, memory>>

\* handle.writeFile or the release's own rm throws: the file stays.
LockFileFails(p) ==
  /\ "io" \in Faults
  /\ pc[p] \in {"token", "unlink"}
  /\ pc' = [pc EXCEPT ![p] = "idle"]
  /\ Ends(p, "failed")
  /\ Forget(p)
  /\ UNCHANGED <<lock, disk>>

\* The host kills a hook that exceeds its timeout; memory is lost, disk stays.
Crash(p) ==
  /\ "crash" \in Faults
  /\ pc[p] \in Acquiring \cup Holding
  /\ pc' = [pc EXCEPT ![p] = "down"]
  /\ Ends(p, "none")
  /\ Forget(p)
  /\ UNCHANGED <<lock, disk>>

Restart(p) ==
  /\ Goto(p, "down", "idle")
  /\ UNCHANGED <<lock, disk, op, tries, memory, outcome>>

LockAges ==
  /\ lock # NoLock /\ ~lock.stale
  /\ (IF pc[lock.owner] \in Holding THEN "held" ELSE "abandoned") \in Ages
  /\ lock' = [lock EXCEPT !.stale = TRUE]
  /\ UNCHANGED <<disk, pc, op, tries, memory, outcome>>

----------------------------------------------------------------------------

Acquire(p) ==
  OpenLock(p) \/ LockTimeout(p) \/ StatLock(p) \/ BreakLock(p) \/ WriteToken(p)

Transact(p) ==
  \/ ReadLedger(p) \/ AppendEvent(p) \/ AppendSnapshot(p) \/ WriteSnapshot(p)
  \/ FinishCallback(p) \/ CallbackThrows(p) \/ CommitLedger(p)
  \/ ListSnapshots(p) \/ RemoveSnapshot(p)

Manage(p) ==
  ListArchives(p) \/ ListTask(p) \/ RemoveTask(p) \/ RemoveArchive(p) \/ RenameTask(p)

Release(p) == CheckToken(p) \/ UnlinkLock(p)

Fault(p) == BodyFails(p) \/ LockFileFails(p) \/ Crash(p)

Step(p) == Acquire(p) \/ Transact(p) \/ Manage(p) \/ Release(p)

Next ==
  \/ \E p \in Proc : Start(p) \/ Step(p) \/ Fault(p) \/ Restart(p)
  \/ LockAges

Spec == Init /\ [][Next]_vars

\* An event loop runs a pending continuation, and a timer fires: every step of
\* an operation that has started is taken.  Nobody has to start one.
LiveSpec == Spec /\ \A p \in Proc : WF_vars(Step(p))

----------------------------------------------------------------------------
\* Properties

(* At most one process at a time is between the creation of its lock file  *)
(* and its removal (acquireLock / release, store.mjs:90-146).              *)
MutualExclusion ==
  \A p, q \in Proc : pc[p] \in Holding /\ pc[q] \in Holding => p = q

(* No event that reached ledger.json is ever overwritten by another writer: *)
(* the file's events only grow at their end, and the file only goes away in *)
(* the recursive rm of a delete or the rename of an archive                 *)
(* (product-contract.md:37, no last-write-wins).                            *)
LedgerOnlyGrows ==
  \/ ledger'.exists /\ IsPrefix(ledger.events, ledger'.events)
  \/ ledger' = ledger
  \/ \E p \in Proc : pc[p] \in {"rmtask", "rename"} /\ ledger' = Missing
NoLostUpdate == [][LedgerOnlyGrows]_vars

(* When transact is about to resolve, what its callback appended is what    *)
(* ledger.json holds: a caller told "ok" finds its events there, whatever   *)
(* other processes did, crashed or failed at meanwhile (store.mjs:225-241). *)
SuccessIsOnDisk ==
  \A p \in Proc :
    /\ pc[p] \in {"release", "unlink"} /\ outcome[p] = "ok"
    /\ op[p] \in {"append", "snapshot"}
    => ledger = [copy[p] EXCEPT !.exists = TRUE]

(* Only a delete, which removes the files one by one, can leave the ledger  *)
(* with a latest_snapshot whose file is not there: no commit refers to a    *)
(* file not yet written, and no pruning, of whatever left-over files and    *)
(* with whatever clock, removes the referenced one (store.mjs:235-240).     *)
RefIsOnDisk == ledger.ref = NoSnap \/ ledger.ref \in files
ReferenceStays ==
  [][RefIsOnDisk => RefIsOnDisk' \/ \E p \in Proc : pc[p] = "rmtask"]_vars

(* A snapshot that reports success leaves at most SnapshotRetention files,  *)
(* including those that earlier crashed or failed snapshots left behind     *)
(* (store.test.mjs:189).                                                    *)
RetentionAfterSnapshot ==
  \A p \in Proc :
    /\ pc[p] \in {"release", "unlink"} /\ outcome[p] = "ok"
    /\ op[p] = "snapshot"
    => Cardinality(files) <= SnapshotRetention

(* A delete that reports success has removed the ledger, every snapshot and *)
(* every archived copy, also those an earlier, interrupted delete left      *)
(* (review-regressions.test.mjs, "deleted" and "archived_copies_deleted").  *)
DeleteLeavesNothing ==
  \A p \in Proc :
    /\ pc[p] \in {"release", "unlink"} /\ outcome[p] = "ok"
    /\ op[p] = "delete"
    => ~ledger.exists /\ files = {} /\ archives = {}

(* Every operation a process starts comes back to its caller or dies with   *)
(* its process: nobody waits for a lock for ever, not even for one whose    *)
(* owner was killed (the loop of store.mjs:94 is bounded by lockTimeoutMs). *)
EveryOperationReturns ==
  \A p \in Proc : (pc[p] = "open") ~> (pc[p] \in {"idle", "down"})

(* A lock file older than lockStaleMs does not outlive the next attempt to  *)
(* acquire it: the caller that finds it removes it, unless it is killed     *)
(* first (store.mjs:128-132).                                               *)
StaleLockIsBroken ==
  \A p \in Proc :
    (pc[p] = "open" /\ tries[p] = 0 /\ lock.stale)
      ~> (~lock.stale \/ pc[p] = "down")

(* Whatever the store wrote can be read again, so that the read-only export *)
(* and the rebuild it recommends to a full task work (store.mjs:153-157).   *)
StoredLedgerIsReadable == ledger.exists => FileBytes(ledger) <= MaxLedgerBytes
============================================================================
