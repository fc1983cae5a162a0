---------------------------- MODULE SerialLedger ----------------------------
(***************************************************************************)
(* What the store promises its callers, without locks, copies and files:   *)
(* a call takes effect at one instant between its start and its answer, on *)
(* the ledger as it is at that instant, and at most once; nothing else     *)
(* changes the ledger; and the answer "ok" means that it took effect.      *)
(***************************************************************************)
EXTENDS Naturals, SequencesExt

CONSTANTS Proc, Calls   \* callers, and the calls they make

VARIABLES
  ledger,  \* does it exist, and its events by writer
  phase,   \* of each caller's call: idle, pending, applied, failed
  call,    \* the call each caller makes
  answer   \* what its last call answered; "none" when it died instead

vars == <<ledger, phase, call, answer>>

Nothing == [exists |-> FALSE, events |-> <<>>]

Init ==
  /\ ledger = Nothing
  /\ phase = [p \in Proc |-> "idle"]
  /\ call = [p \in Proc |-> "append"]
  /\ answer = [p \in Proc |-> "none"]

Moves(p, from, to) == phase[p] \in from /\ phase' = [phase EXCEPT ![p] = to]

Begin(p) ==
  /\ Moves(p, {"idle"}, "pending")
  /\ \E c \in Calls : call' = [call EXCEPT ![p] = c]
  /\ answer' = [answer EXCEPT ![p] = "none"]
  /\ UNCHANGED ledger

\* Events of p alone, at the end of what every other caller has written.
Update(p) ==
  /\ Moves(p, {"pending"}, "applied")
  /\ call[p] \in {"append", "snapshot"}
  /\ ledger'.exists /\ IsPrefix(ledger.events, ledger'.events)
  /\ \A n \in DOMAIN ledger'.events : n > Len(ledger.events) => ledger'.events[n] = p
  /\ UNCHANGED <<call, answer>>

Check(p) ==
  /\ Moves(p, {"pending"}, "applied")
  /\ call[p] = "check" /\ ledger.exists
  /\ UNCHANGED <<ledger, call, answer>>

\* A delete still has copies to remove when the ledger is gone.
Vanish(p) ==
  /\ \E to \in {"pending", "applied"} : Moves(p, {"pending"}, to)
  /\ call[p] \in {"delete", "archive"}
  /\ ledger' = Nothing
  /\ UNCHANGED <<call, answer>>

\* A call can fail after it took effect, never take effect after it failed.
Fail(p) ==
  /\ Moves(p, {"pending", "applied"}, "failed")
  /\ UNCHANGED <<ledger, call, answer>>

Return(p) ==
  /\ Moves(p, {"pending", "applied", "failed"}, "idle")
  /\ call' = [call EXCEPT ![p] = "append"]
  /\ \E a \in {"ok", "failed", "timeout", "none"} :
       /\ a = "ok" => phase[p] = "applied"
       /\ answer' = [answer EXCEPT ![p] = a]
  /\ UNCHANGED ledger

Next ==
  \E p \in Proc :
    Begin(p) \/ Update(p) \/ Check(p) \/ Vanish(p) \/ Fail(p) \/ Return(p)

Spec == Init /\ [][Next]_vars
=============================================================================
