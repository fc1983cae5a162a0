---------------------------- MODULE MCDshAdapter ----------------------------
(* A small instance of DshAdapter: one session and the child it spawns. *)
EXTENDS DshAdapter

CONSTANTS root, child

ChildOfRoot == [s \in Session |-> IF s = child THEN root ELSE NoSession]

\* The user confirms what the agent records.
Confirming ==
  [hooks |-> {root} \X {"startup", "prompt", "tool"}, jobs |-> 3, calls |-> 2]
\* Another program writes to the task meanwhile.
Contended ==
  [hooks |-> {root} \X {"startup", "prompt", "tool", "other"}, jobs |-> 2, calls |-> 1]
\* Compactions, resumed and disposed agents.
Recovering ==
  [hooks |-> {root} \X {"startup", "compaction", "resume", "compact", "disposed"},
   jobs |-> 4, calls |-> 0]
\* A child starts with what its parent hands over.
HandingOver ==
  [hooks |-> {root} \X {"startup", "prompt", "clear"} \cup {child} \X {"startup", "prompt", "other"},
   jobs |-> 3, calls |-> 0]
\* The plugin is unloaded while two sessions have work queued.
Unloading ==
  [hooks |-> {root, child} \X {"startup", "prompt", "unload"}, jobs |-> 3, calls |-> 0]
EachProfile == {Unloading, Confirming, Contended, Recovering, HandingOver}
=============================================================================
