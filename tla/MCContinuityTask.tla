-------------------------- MODULE MCContinuityTask --------------------------
(* Small instances of ContinuityTask: batches of items, words, workspaces.  *)
EXTENDS ContinuityTask

CONSTANTS A, B, C, D, goal, other, work, step

Input(id, kind, claim, authority, verification, supersedes) ==
  [id |-> id, kind |-> kind, claim |-> claim, authority |-> authority,
   verification |-> verification, supersedes |-> supersedes, stamp |-> 0,
   status |-> IF verification = "verified" THEN "active" ELSE "unverified"]

Goal == Input(A, "objective", goal, "user", "verified", {})
OtherGoal == Input(B, "objective", other, "user", "verified", {A})
Correction == Input(C, "correction", other, "user", "verified", {A})
GuessedGoal == Input(A, "objective", other, "agent_inference", "unverified", {})
GuessedChange == Input(B, "objective", other, "agent_inference", "unverified", {A})
Work == Input(B, "work_object", work, "verified_evidence", "verified", {})
Done == Input(C, "completion", work, "verified_evidence", "verified", {B})
Step == Input(C, "next_action", step, "user", "verified", {})
GuessedStep == Input(C, "next_action", step, "agent_inference", "unverified", {})

\* Confirmed, guessed and corrected intent.
IntentBatches == {<<Goal>>, <<OtherGoal>>, <<Goal, Step>>, <<GuessedGoal>>, <<GuessedChange>>, <<Correction>>}
\* A whole position, confirmed at once, a phase noted later, evidence and
\* planned actions.
Place == Input(B, "work_object", work, "user", "verified", {})
Phase == Input(D, "phase", work, "agent_inference", "unverified", {})
WholePosition == {<<Goal, Place, Step>>}
RecoveryBatches == WholePosition \cup {<<Phase>>, <<Work>>, <<Done>>, <<GuessedStep>>}
Twin == Input(B, "objective", goal, "agent_inference", "unverified", {})
Guesses == {<<GuessedGoal>>, <<GuessedStep>>}
\* Two items of one batch share an identifier.
TwinBatches == {<<Goal>>, <<OtherGoal, Twin>>}

Here == [place |-> "here", content |-> 1, verified |-> TRUE]
Edited == [Here EXCEPT !.content = 2]
OnePlace == {Here}
TwoStates == {Here, Edited}
=============================================================================
