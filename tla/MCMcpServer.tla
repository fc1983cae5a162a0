---------------------------- MODULE MCMcpServer ----------------------------
(* Small instances of McpServer: how messages are cut, and what is in a task. *)
EXTENDS McpServer

Stated(id, kind, size, time) == [id |-> id, kind |-> kind, size |-> size, time |-> time]

\* A long goal, limits and notes recorded at the same time; a task without the
\* goal; one whose first item fills a page; one with more high-risk
\* items than a text can hold.
Wordy == <<Stated(1, "preference", 1, 1), Stated(2, "objective", 4, 1),
           Stated(3, "hard_constraint", 2, 2), Stated(5, "decision", 2, 3),
           Stated(4, "decision", 1, 3), Stated(6, "next_action", 3, 4)>>
Brief == <<Stated(1, "preference", 1, 1), Stated(3, "hard_constraint", 2, 2),
           Stated(4, "decision", 1, 3)>>
Heavy == <<Stated(2, "authorization", 6, 1), Stated(7, "work_object", 3, 1),
           Stated(8, "work_object", 1, 2), Stated(9, "evidence", 4, 3)>>

Crowded == <<Stated(1, "hard_constraint", 2, 1), Stated(2, "hard_constraint", 2, 1),
             Stated(3, "correction", 2, 2), Stated(4, "objective", 4, 2),
             Stated(5, "work_object", 1, 3), Stated(6, "next_action", 3, 3),
             Stated(7, "preference", 1, 4)>>

\* Well-formed requests and notifications, cut anywhere.
Cut ==
  [kinds |-> {"ping", "initialized"}, framings |-> {"ndjson", "content-length", "unterminated"},
   messages |-> 2, changes |-> 0, contents |-> {Brief}, texts |-> FALSE, signals |-> 0]
\* Messages that the server does not understand.
Odd ==
  [kinds |-> {"ping", "unknown notification", "not JSON"}, framings |-> {"ndjson"},
   messages |-> 3, changes |-> 0, contents |-> {Brief}, texts |-> FALSE, signals |-> 0]
\* A client reads page after page while the task changes.
Paged ==
  [kinds |-> {"read"}, framings |-> {"ndjson"},
   messages |-> 4, changes |-> 2, contents |-> {Wordy, Brief, Heavy}, texts |-> FALSE, signals |-> 0]
\* Capsules of a task that changes.
Handed ==
  [kinds |-> {"export"}, framings |-> {"content-length"},
   messages |-> 1, changes |-> 1, contents |-> {Wordy, Brief, Heavy, Crowded}, texts |-> FALSE, signals |-> 0]
\* Texts for the model and for a subagent.
Shown ==
  [kinds |-> {}, framings |-> {},
   messages |-> 0, changes |-> 1, contents |-> {Wordy, Brief, Heavy, Crowded, <<>>}, texts |-> TRUE, signals |-> 3]
EachProfile == {Cut, Odd, Paged, Handed, Shown}
OnlyTexts == {Shown}

Footers == [class \in {"ask_before_high_risk", "continue_with_markers", "delegated"} |->
              IF class = "ask_before_high_risk" THEN 2
              ELSE IF class = "delegated" THEN 3 ELSE 1]
Compacts == <<2, 1>>
=============================================================================
