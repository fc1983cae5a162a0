--------------------------- MODULE TaskManagement ---------------------------
(***************************************************************************)
(* off, on, reset and delete (manageState and manageStateDirect of         *)
(* service.mjs).  Through MCP an action takes a user's request, a one-time *)
(* challenge, and a second user message with the exact phrase; the local   *)
(* CLI needs neither.  A deletion is two transactions of the store: one    *)
(* validates, the next removes.                                            *)
(***************************************************************************)
EXTENDS TaskService

\* Mutants

Reissuable_Always(a, c) == TRUE
InWindow_AnyLater(c, ch) == c > ch.issued
MayIssue_WhileOff(a, c) == c \in Prompts /\ RequiredSignal(a) \in log[c].signals

----------------------------------------------------------------------------
\* prepare_off, prepare_on, prepare_reset, prepare_delete

\* The same request may ask for its challenge again while it is outstanding.
Reissuable(a, c) ==
  /\ proj.challenges[a] # Null
  /\ proj.challenges[a].prompt = c
  /\ Len(log) <= proj.challenges[a].expires

MayIssue(a, c) ==
  /\ proj.enabled \/ a = "on"
  /\ c \in Prompts
  /\ RequiredSignal(a) \in log[c].signals

Prepare(a, c) ==
  /\ MayIssue(a, c)
  /\ Reissuable(a, c) \/ Unused({c})
  /\ LET n == Len(log) + 1 IN
     Commit(Put(Now, [type |-> "challenge", uses |-> {c}, action |-> a,
                      prompt |-> c, token |-> <<life, n>>, issued |-> n,
                      expires |-> n + ChallengeWindow]))

----------------------------------------------------------------------------
\* The confirmed action

InWindow(c, ch) == c > ch.issued /\ c <= ch.expires

\* validateManagementConfirmation
Confirmed(a, c) ==
  /\ proj.challenges[a] # Null
  /\ c \in Prompts
  /\ Unused({c})
  /\ InWindow(c, proj.challenges[a])
  /\ log[c].text = ConfirmText(a, proj.challenges[a].token)

ManageReset(c) ==
  /\ Confirmed("reset", c)
  /\ Commit(Put(Now, [type |-> "reset", uses |-> {c}, action |-> "reset", prompt |-> c]))

OnOff(a, c) ==
  [type |-> "enabled", uses |-> {c}, action |-> a, on |-> a = "on", prompt |-> c]

ManageOnOff(a, c) ==
  /\ Confirmed(a, c)
  /\ Commit(Put(Now, OnOff(a, c)))

ValidateDelete(c) ==
  /\ Confirmed("delete", c)
  /\ deleting' = deleting \cup {[life |-> life, prompt |-> c]}
  /\ UNCHANGED <<log, proj, life, reader>>

\* The task's directory is removed or renamed; the next access starts afresh.
RemoveLedger ==
  /\ life < MaxLives
  /\ life' = life + 1
  /\ log' = <<>> /\ proj' = Empty
  /\ UNCHANGED reader

CarryOutDelete(d) ==
  /\ d \in deleting
  /\ deleting' = deleting \ {d}
  /\ RemoveLedger

----------------------------------------------------------------------------
\* manageStateDirect: the local CLI, with the task's reference typed twice

CliOnOff(a) ==
  Commit(Put(Now, [type |-> "enabled", uses |-> {}, action |-> Null,
                   on |-> a = "on", prompt |-> Null]))

\* CLI reset (archive) and CLI delete
CliRemove == log # <<>> /\ RemoveLedger /\ UNCHANGED deleting
============================================================================
