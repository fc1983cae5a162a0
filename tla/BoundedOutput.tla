--------------------------- MODULE BoundedOutput ---------------------------
(***************************************************************************)
(* The bounded views of a task: the pages of continuity_get_state, the     *)
(* handoff capsule, the recovery text put before the model and the text    *)
(* given to a subagent (mcp-server.mjs, recovery.mjs, service.mjs).  Bytes *)
(* and tokens are counted in one abstract unit; an item has the size of    *)
(* its statement.                                                          *)
(***************************************************************************)
EXTENDS Integers, SequencesExt

CONSTANTS
  PageItems,       \* MAX_MCP_STATE_PAGE_ITEMS
  PageBudget,      \* what a page leaves for its items
  ResponseBudget,  \* what a response leaves for items and references to them
  ReferenceSize,   \* of an item in the summary of a page
  CapsuleBudget,   \* what a capsule leaves for its items
  TextBudgets,     \* tokens of a text for the model, its fixed lines included
  FixedSize,       \* those lines, without the footer
  OmissionSize,    \* of the longest line about omitted items
  SignalSize,      \* of a line about a pending signal or a finding
  FooterSize,      \* of the footer, by classification
  LineSize,        \* longest statement on a line
  CompactSizes     \* the shorter ones tried for a high-risk item

ASSUME SizeAssumption ==
  /\ {PageItems, PageBudget, ResponseBudget, ReferenceSize, CapsuleBudget, FixedSize, OmissionSize, SignalSize, LineSize} \subseteq Nat
  /\ TextBudgets \subseteq Nat
  /\ FooterSize \in [{"ask_before_high_risk", "continue_with_markers", "delegated"} -> Nat]
  /\ CompactSizes \in Seq(Nat)
ASSUME PageItemsAssumption == PageItems > 0

\* ITEM_PRIORITY, highest first, and HIGH_RISK_KINDS
KindsByPriority ==
  <<"authorization", "hard_constraint", "correction", "objective", "work_object",
    "completion", "dispute", "open_question", "next_action", "decision", "phase",
    "evidence", "assumption", "preference">>
Priority(kind) == SelectInSeq(KindsByPriority, LAMBDA k : k = kind)
HighRiskKinds ==
  {"objective", "hard_constraint", "authorization", "correction", "work_object",
   "completion", "next_action"}

None == -1     \* null

AddSize(sum, item) == sum + item.size
Total(items) == FoldLeft(AddSize, 0, items)
Ids(items) == [n \in DOMAIN items |-> items[n].id]

\* Array.sort is stable: what the comparison calls equal keeps its order.
Sorted(s, Before(_, _)) ==
  LET Precedes(i, j) == Before(i, j) \/ (~Before(j, i) /\ i < j)
      earlier == [i \in DOMAIN s |-> Cardinality({j \in DOMAIN s : Precedes(j, i)})]
  IN  [n \in DOMAIN s |-> s[CHOOSE i \in DOMAIN s : earlier[i] = n - 1]]

\* activeItems: by priority, then by the time of recording.  The other operators
\* take items in this order.
ActiveItems(items) ==
  Sorted(items, LAMBDA i, j :
    \/ Priority(items[i].kind) < Priority(items[j].kind)
    \/ items[i].kind = items[j].kind /\ items[i].time < items[j].time)

----------------------------------------------------------------------------
\* Mutants

NextCursor_WholeWindow(cursor, returned, limit) == cursor + limit
OnePage_Strictly(items) == Total(items) < PageBudget
Takes_UntilOneDoesNotFit(acc, item) ==
  acc.omitted = 0 /\ Total(acc.items) + item.size <= CapsuleBudget
Fits_NoReserve(text, size) == text.size + size + FooterSize[text.class] <= text.budget

----------------------------------------------------------------------------
\* boundedStateResult and successToolResult

NextCursor(cursor, returned, limit) == cursor + returned

OnePage(items) == Total(items) <= PageBudget

\* The items of all from the cursor on, as many as are asked for and fit.
Page(all, cursor, asked) ==
  LET limit == Min({asked, PageItems})
      window == SubSeq(all, cursor + 1, Min({cursor + limit, Len(all)}))
      returned == Max({n \in 0..Len(window) : OnePage(SubSeq(window, 1, n))})
      next == NextCursor(cursor, returned, limit)
  IN  [items |-> SubSeq(window, 1, returned), cursor |-> cursor,
       next |-> IF next < Len(all) THEN next ELSE None,
       omitted |-> Max({0, Len(all) - next})]

\* The text repeats the items; when the response is too large it names them,
\* and when that is still too large the call fails.
PageAnswer(page) ==
  LET size == Total(page.items) IN
  IF 2 * size <= ResponseBudget THEN "full"
  ELSE IF size + ReferenceSize * Len(page.items) <= ResponseBudget THEN "summary"
  ELSE "MCP_RESPONSE_LIMIT"

----------------------------------------------------------------------------
\* exportCapsule: by priority, every item that still fits

Takes(acc, item) == Total(acc.items) + item.size <= CapsuleBudget

CapsuleOrder(items) ==
  Sorted(items, LAMBDA i, j :
    \/ Priority(items[i].kind) < Priority(items[j].kind)
    \/ /\ items[i].kind = items[j].kind
       /\ \/ items[i].time < items[j].time
          \/ items[i].time = items[j].time /\ items[i].id < items[j].id)

\* Items of other kinds are passed over, the others are taken or counted.
Consider(acc, item) ==
  IF item.kind \notin acc.kinds THEN acc
  ELSE IF Takes(acc, item) THEN [acc EXCEPT !.items = Append(@, item)]
  ELSE [acc EXCEPT !.omitted = @ + 1]

Capsule(items, kinds) ==
  FoldLeft(Consider, [kinds |-> kinds, items |-> <<>>, omitted |-> 0], CapsuleOrder(items))

----------------------------------------------------------------------------
\* renderRecoveryContext

\* categoryRoundRobin: the first of each kind by priority, then the second...
CategoryRoundRobin(items) ==
  LET turn(i) == Cardinality({j \in 1..(i - 1) : items[j].kind = items[i].kind})
  IN  Sorted(items, LAMBDA i, j :
        \/ turn(i) < turn(j)
        \/ turn(i) = turn(j) /\ Priority(items[i].kind) < Priority(items[j].kind))

\* fitsReserved: with the line about omissions and the footer.
Fits(text, size) ==
  text.size + size + OmissionSize + FooterSize[text.class] <= text.budget

\* The sizes in which an item may stand on its line, in the order tried.
Forms(item) ==
  <<Min({item.size, LineSize})>> \o
  (IF item.kind \in HighRiskKinds
   THEN [n \in DOMAIN CompactSizes |-> Min({item.size, CompactSizes[n]})] ELSE <<>>)

AddLine(text, item) ==
  LET n == SelectInSeq(Forms(item), LAMBDA size : Fits(text, size)) IN
  IF n = 0 THEN [text EXCEPT !.omitted = @ \cup {item}]
  ELSE [text EXCEPT !.shown = Append(@, item.id), !.size = @ + Forms(item)[n]]

Critical(text) == {item \in text.omitted : item.kind \in HighRiskKinds}

\* Omissions are named; pending signals and findings follow while they fit,
\* the rest of them without a word; the footer closes the text.
WithOmissions(text) ==
  IF text.omitted = {} THEN text ELSE [text EXCEPT !.size = @ + OmissionSize]
WithSignals(text, signals) ==
  LET n == Max({m \in 0..signals : m = 0 \/ Fits(text, m * SignalSize)})
  IN  [text EXCEPT !.signals = n, !.size = @ + n * SignalSize]
Closed(text) == [text EXCEPT !.size = @ + FooterSize[text.class]]

Opening(class, budget) ==
  [shown |-> <<>>, omitted |-> {}, signals |-> 0, size |-> FixedSize, class |-> class,
   budget |-> budget]

Rendering(items, signals, class, budget) ==
  LET lines == FoldLeft(AddLine, Opening(class, budget), CategoryRoundRobin(items))
  IN  Closed(WithSignals(WithOmissions(lines), signals))

\* A mutant: the classification stays as it was.
Rendered_Once(items, signals, class, budget) == Rendering(items, signals, class, budget)

\* recover: when high-risk items are left out the classification is raised,
\* and the text written again under the other footer, with one finding more.
Rendered(items, signals, class, budget) ==
  LET first == Rendering(items, signals, class, budget)
  IN  IF Critical(first) = {} THEN first
      ELSE Rendering(items, signals + 1, "ask_before_high_risk", budget)

----------------------------------------------------------------------------
\* capsuleContext: what the capsule holds, with room for the line about omissions

AddShortLine(text, item) ==
  IF Fits(text, Min({item.size, LineSize}))
  THEN [text EXCEPT !.shown = Append(@, item.id), !.size = @ + Min({item.size, LineSize})]
  ELSE [text EXCEPT !.omitted = @ \cup {item}]

CapsuleText(capsule, budget) ==
  Closed(WithOmissions(FoldLeft(AddShortLine, Opening("delegated", budget), capsule.items)))
=============================================================================
