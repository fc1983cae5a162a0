--------------------------- MODULE MCTaskProfiles ---------------------------
(***************************************************************************)
(* One instance of ContinuityTask for all of its properties.  Every        *)
(* behaviour keeps to a profile, which says what is done in it, by what    *)
(* messages and batches, and how long its ledger gets; without profiles    *)
(* the interesting histories would need more events than TLC can explore.  *)
(***************************************************************************)
EXTENDS MCContinuityTask

VARIABLE profile

\* More than the ledger's own limit, which is then the one that is met.
Unlimited == MaxEvents + 1

\* off, on, reset and delete, through challenges and through the CLI.
Managed ==
  [ops |-> {"off", "on", "reset", "delete", "cli", "archive"}, batches |-> {},
   words |-> {{"continuity_off", "continuity_on"}, {"reset", "management_delete"}},
   workspaces |-> {Here}, events |-> Unlimited]
\* Confirmed, guessed, corrected, contracted and cleared intent.
Intended ==
  [ops |-> {"record", "correct", "bind", "clear", "candidates"}, batches |-> IntentBatches,
   words |-> {{}}, workspaces |-> {Here}, events |-> 5]
\* Compactions and recoveries, of a position that the user confirms first.
Positioned ==
  [ops |-> {"record", "snapshot"}, batches |-> WholePosition \cup {<<Phase>>},
   words |-> {{"correction"}}, workspaces |-> TwoStates, events |-> Unlimited]
\* Any boundaries, over what agents and evidence recorded.
Unasked ==
  [ops |-> {"record", "snapshot", "session", "clear"},
   batches |-> {<<Phase>>, <<Work>>, <<Done>>, <<GuessedStep>>},
   words |-> {}, workspaces |-> TwoStates, events |-> 5]

AllBatches == IntentBatches \cup RecoveryBatches
AllWords == {{}, {"continuity_off", "continuity_on"}, {"reset", "management_delete"}, {"correction"}}

\* The position comes first, its workspace stays, compactions are manual.
PositionFirst(l) ==
  \A n \in DOMAIN l :
    /\ n <= 3 => l[n].type = <<"workspace", "prompt", "state">>[n]
    /\ n = 3 => Len(l[n].items) = 3
    /\ l[n].type = "workspace" => l[n].workspace = Here
    /\ l[n].type \in {"snapshot", "compaction"} => l[n].trigger = "manual"

Profile == [managed |-> Managed, intended |-> Intended, positioned |-> Positioned, unasked |-> Unasked]

InProfile(p) ==
  /\ proj'.workspace \in p.workspaces \cup {Null}
  /\ Len(log') <= p.events
  /\ profile = "positioned" => PositionFirst(log')

ProfiledInit == Init /\ profile \in DOMAIN Profile

ProfiledNext ==
  /\ LET p == Profile[profile] IN
     /\ \/ /\ Len(log) < p.events
           /\ Writes(p.ops, TypedOf(p.words, p.batches), p.batches)
        \/ ReadsAndRemovals(p.ops)
     /\ InProfile(p)
  /\ UNCHANGED profile

ProfiledSpec == ProfiledInit /\ [][ProfiledNext]_<<vars, profile>>
=============================================================================
