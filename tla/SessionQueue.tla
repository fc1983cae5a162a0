---------------------------- MODULE SessionQueue ----------------------------
(***************************************************************************)
(* What the adapter's work queue promises of each session: the jobs that   *)
(* the host's events ask for are done one at a time and in that order,     *)
(* each to its end before the next begins, and once a job has finished it  *)
(* writes no more.  Sessions do not wait for each other, and others may    *)
(* write to a session's record at any time.                                *)
(***************************************************************************)
EXTENDS Integers, Sequences

CONSTANTS
  Session,    \* sessions of the host
  Outsiders   \* those who write without a job; no job has such a number

VARIABLES
  made,       \* how many jobs there have been; they are numbered as they come
  waiting,    \* the unfinished jobs of each session
  begun,      \* those of them that have begun
  written     \* who wrote each entry of each session's record

vars == <<made, waiting, begun, written>>

Init ==
  /\ made = 0
  /\ waiting = [s \in Session |-> {}]
  /\ begun = [s \in Session |-> {}]
  /\ written = [s \in Session |-> <<>>]

Enter(s) ==
  /\ made' = made + 1
  /\ waiting' = [waiting EXCEPT ![s] = @ \cup {made + 1}]
  /\ UNCHANGED <<begun, written>>

\* The turn is the oldest job's, and no other has begun.
Turn(s, j) ==
  /\ j \in waiting[s] /\ \A k \in waiting[s] : j <= k
  /\ begun[s] \subseteq {j}

Record(s, who) == written' = [written EXCEPT ![s] = Append(@, who)]
MayRecord(s, j) == UNCHANGED written \/ Record(s, j)

Work(s, j) ==
  /\ Turn(s, j)
  /\ begun' = [begun EXCEPT ![s] = {j}]
  /\ MayRecord(s, j)
  /\ UNCHANGED <<made, waiting>>

\* A job ends with its last entry or fails, which leaves none.
Finish(s, j) ==
  /\ Turn(s, j)
  /\ waiting' = [waiting EXCEPT ![s] = @ \ {j}]
  /\ begun' = [begun EXCEPT ![s] = {}]
  /\ MayRecord(s, j)
  /\ UNCHANGED made

Outside(s) ==
  /\ \E who \in Outsiders : Record(s, who)
  /\ UNCHANGED <<made, waiting, begun>>

Next ==
  \E s \in Session :
    \/ Enter(s) \/ Outside(s)
    \/ \E j \in waiting[s] : Work(s, j) \/ Finish(s, j)

Spec == Init /\ [][Next]_vars
=============================================================================
