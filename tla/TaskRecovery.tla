---------------------------- MODULE TaskRecovery ----------------------------
(***************************************************************************)
(* What survives a compaction or a session boundary (createSnapshot,       *)
(* markCompaction, recover and sessionEnd of service.mjs, verifyRecovery   *)
(* of recovery.mjs).  The snapshot's file lies outside the ledger: it may  *)
(* be there, be gone, or not match the sealed reference.                   *)
(***************************************************************************)
EXTENDS TaskService

CONSTANTS
  Triggers,   \* a compaction's trigger together with its turn, which is always known
  FileStates, \* states of the referenced snapshot file
  Durable     \* is the data root durable?

ASSUME RecoveryAssumption ==
  FileStates \subseteq {"present", "missing", "mismatched"} /\ Durable \in BOOLEAN

Current(item) == item.verification \notin {"stale", "unavailable"}
CurrentActions(p) ==
  {i \in Active(p) : p.items[i].kind = "next_action" /\ Current(p.items[i])}

\* Mutants

WithExpiry_Skipped(t) == t
Compared_Never(t, s) == {}
Matches_AnySnapshot(s, trigger, file) == s # Null

----------------------------------------------------------------------------

\* expireNextActions: behind a lossy boundary no planned action is current.
WithExpiry(t) ==
  IF CurrentActions(t.proj) = {} THEN t
  ELSE Put(t, [type |-> "revalidate", uses |-> {}, ids |-> CurrentActions(t.proj)])

\* PreCompact: the snapshot describes the state its own event follows.
CreateSnapshot(w, trigger) ==
  /\ proj.enabled
  /\ LET t == WithExpiry(WithWorkspace(Now, w)) IN
     Commit(Put(t, [type |-> "snapshot", uses |-> {}, trigger |-> trigger,
                    workspace |-> w, generation |-> t.proj.generation,
                    digest |-> Digest(t.proj), sequence |-> Len(t.log)]))

\* latestSnapshot: the referenced file, if it is there and matches.
Readable(s, file) == s # Null /\ file = "present"
Matches(s, trigger, file) == Readable(s, file) /\ s.trigger = trigger

MarkCompaction(trigger, file) ==
  /\ proj.enabled
  /\ LET s == proj.snapshot
         matched == Matches(s, trigger, file) IN
     Commit(Put(Now, [type |-> "compaction", uses |-> {}, trigger |-> trigger,
                      matched |-> matched,
                      sequence |-> IF matched THEN s.sequence ELSE 0]))

----------------------------------------------------------------------------
\* verifyRecovery: severities of the findings

\* compareWorkspace
WorkspaceFindings(before, now) ==
  (IF before.place # now.place THEN {"high"} ELSE {})
  \cup (IF ~(before.verified /\ now.verified) THEN {"medium"}
        ELSE IF before.content # now.content THEN {"high"} ELSE {})

\* The ledger against the snapshot; "newer" is newer_ledger_state_selected.
Compared(t, s) ==
  IF t.proj.generation > s.generation THEN {"newer"}
  ELSE IF Digest(t.proj) # s.digest THEN {"high"} ELSE {}

\* post_compact_confirmation_missing
Confirmation(p, s) ==
  LET c == p.compaction IN
  IF c # Null /\ c.matched /\ c.sequence = s.sequence THEN {} ELSE {"medium"}

SnapshotFindings(t, source, w, file) ==
  LET s == t.proj.snapshot IN
  (IF s # Null /\ file = "mismatched" THEN {"high"} ELSE {})
  \cup
  (IF Readable(s, file)
   THEN Compared(t, s) \cup WorkspaceFindings(s.workspace, w)
        \cup (IF source = "compact" THEN Confirmation(t.proj, s) ELSE {})
   ELSE IF source = "compact" THEN {"high"}
   ELSE IF source = "resume" /\ t.proj.workspace # Null
        THEN WorkspaceFindings(t.proj.workspace, w)
   ELSE {"medium"})

Classification(findings) ==
  IF "high" \in findings THEN "ask_before_high_risk"
  ELSE IF "newer" \in findings THEN "repaired"
  ELSE IF "medium" \in findings THEN "continue_with_markers"
  ELSE "equivalent"

\* The report is drawn up before the actions expire and the workspace is
\* noted; what these leave open is added.  A budget too small for a high-risk
\* item adds a high finding.  At the event limit the refused transaction is
\* retried without its audit event.
Recover(source, w, file, omitted) ==
  /\ proj.enabled
  /\ omitted => \E item \in ActiveItems(proj) : item.kind \in HighRiskKinds
  /\ LET t == WithWorkspace(WithExpiry(Now), w)
         findings == SnapshotFindings(Now, source, w, file)
                     \cup Gaps(proj) \cup Gaps(t.proj)
                     \cup (IF Durable THEN {} ELSE {"high"})
                     \cup (IF omitted THEN {"high"} ELSE {})
         audited == Put(t, [type |-> "restore", uses |-> {}, source |-> source,
                            class |-> Classification(findings)])
     IN Commit(IF Len(t.log) < MaxEvents THEN audited ELSE t)

SessionEnd(w) ==
  /\ proj.enabled
  /\ Commit(Put(WithExpiry(IF w = Null THEN Now ELSE WithWorkspace(Now, w)),
                Event("session_ended", {})))
============================================================================
