----------------------------- MODULE McpServer -----------------------------
(***************************************************************************)
(* The MCP server, mcp-server.mjs: messages reach its standard input in    *)
(* chunks of any size, a parser takes them apart one push at a time, and   *)
(* each is served before the next.  Meanwhile other programs write to the  *)
(* task, and hooks put texts about it before the model.                    *)
(*                                                                         *)
(* The input is a sequence of tokens.  A message is one line (two pieces   *)
(* of text, newline) or has a Content-Length header (its first half, the   *)
(* rest, the blank line, two pieces of text); a last line may lack its     *)
(* newline.  A chunk may end between any two tokens.                       *)
(***************************************************************************)
EXTENDS BoundedOutput

CONSTANTS
  Profiles,   \* kinds of behaviour: messages, framings, contents of the task (bounds)
  MaxInput    \* MAX_MCP_INPUT_BYTES, in tokens

Kinds ==
  {"ping", "read", "export", "initialized", "unknown notification", "not JSON"}
Framings == {"ndjson", "content-length", "unterminated"}

ASSUME ProfileAssumption ==
  \A P \in Profiles :
    /\ P.kinds \subseteq Kinds /\ P.framings \subseteq Framings
    /\ P.messages \in Nat /\ P.changes \in Nat /\ P.signals \in Nat
ASSUME MaxInputAssumption == MaxInput \in Nat

\* What a task holds: items of known kinds, one for each identifier.
Statement == [id: Nat, kind: ToSet(KindsByPriority), size: Nat, time: Nat]
ASSUME ContentAssumption ==
  \A P \in Profiles : \A content \in P.contents :
    /\ content \in Seq(Statement)
    /\ \A i, j \in DOMAIN content : content[i].id = content[j].id => i = j

VARIABLES
  host,      \* the kind of this behaviour, one of Profiles
  versions,  \* activeItems of the task at each of its generations
  sent,      \* the messages written by the client
  wire,      \* what of them has not been delivered
  closed,    \* the client's end of the pipe: open, closed, seen closed
  chunks,    \* pushes and the finish that wait in the promise chain
  buffer,    \* StdioMessageParser.buffer
  server,    \* what the parser is doing, and the message being served
  failed,    \* process.exitCode = 1
  out,       \* the answers written
  book,      \* the pages a client has collected
  text       \* the text put before a model

input == <<wire, closed, chunks>>
vars == <<host, versions, sent, input, buffer, server, failed, out, book, text>>

Token(n, part) == [message |-> n, part |-> part]
End == <<Token(0, "end")>>
Tokens(n, framing) ==
  LET body == <<Token(n, "text"), Token(n, "text")>> IN
  CASE framing = "ndjson" -> Append(body, Token(n, "newline"))
    [] framing = "unterminated" -> body
    [] framing = "content-length" ->
         <<Token(n, "head"), Token(n, "length"), Token(n, "blank")>> \o body

IsRequest(n) == sent[n].kind \in {"ping", "read", "export"}
Answered == {out[i].message : i \in DOMAIN out}

Generation == Len(versions) - 1
Items == versions[Len(versions)]

Idle == [phase |-> "idle", message |-> 0, framing |-> "ndjson"]
NoPages == [generation |-> 0, ids |-> <<>>, next |-> 0]
NoText == [kind |-> "none", generation |-> 0, body |-> Opening("continue_with_markers", 0)]

Init ==
  /\ host \in Profiles
  /\ versions \in {<<ActiveItems(content)>> : content \in host.contents}
  /\ sent = <<>> /\ wire = <<>> /\ closed = "open" /\ chunks = <<>>
  /\ buffer = <<>> /\ server = Idle /\ failed = FALSE /\ out = <<>>
  /\ book = NoPages /\ text = NoText

----------------------------------------------------------------------------
\* Mutants

Rest_Nothing(size) == <<>>
Arrived_Header == Len(buffer) >= 3
AnswerFraming_Line == "ndjson"

----------------------------------------------------------------------------
\* The client, the pipe, the other programs

\* A client reads page after page, one at a time, each from the cursor it got.
NextPage == IF book.next = None THEN 0 ELSE book.next
Reading == \E n \in DOMAIN sent : sent[n].kind = "read" /\ n \notin Answered

Write(kind, framing) ==
  /\ closed = "open" /\ Len(sent) < host.messages
  /\ kind = "read" => ~Reading
  /\ \A n \in DOMAIN sent : sent[n].framing # "unterminated"
  /\ sent' = Append(sent, [kind |-> kind, framing |-> framing,
                           cursor |-> IF kind = "read" THEN NextPage ELSE 0])
  /\ wire' = wire \o Tokens(Len(sent) + 1, framing)
  /\ UNCHANGED <<host, versions, closed, chunks, buffer, server, failed, out, book, text>>

Close ==
  /\ closed = "open" /\ closed' = "closed"
  /\ UNCHANGED <<host, versions, sent, wire, chunks, buffer, server, failed, out, book, text>>

\* stdin "data" and "end": each adds a call to the promise chain.
Data(size) ==
  /\ wire # <<>>
  /\ chunks' = Append(chunks, SubSeq(wire, 1, size))
  /\ wire' = SubSeq(wire, size + 1, Len(wire))
  /\ UNCHANGED <<host, versions, sent, closed, buffer, server, failed, out, book, text>>

EndOfInput ==
  /\ closed = "closed" /\ wire = <<>>
  /\ closed' = "seen closed" /\ chunks' = Append(chunks, End)
  /\ UNCHANGED <<host, versions, sent, wire, buffer, server, failed, out, book, text>>

\* A hook or another server writes to the task.
Change(content) ==
  /\ Generation < host.changes
  /\ versions' = Append(versions, ActiveItems(content))
  /\ UNCHANGED <<host, sent, input, buffer, server, failed, out, book, text>>

----------------------------------------------------------------------------
\* StdioMessageParser

\* The message that these tokens are, if JSON.parse accepts them.
Parsed(tokens) ==
  {n \in DOMAIN sent : sent[n].kind # "not JSON"
     /\ tokens = <<Token(n, "text"), Token(n, "text")>>}

NoFrame == [size |-> 0, body |-> <<>>, framing |-> "ndjson"]
HeaderFirst == Len(buffer) > 1 /\ buffer[1].part = "head" /\ buffer[2].part = "length"

Arrived == Len(buffer) >= 5     \* blank line and body

\* The frame at the start of the buffer, if all of it has arrived.
Frame ==
  IF HeaderFirst
  THEN IF ~Arrived THEN NoFrame
       ELSE [size |-> 5, body |-> SubSeq(buffer, 4, Min({5, Len(buffer)})), framing |-> "content-length"]
  ELSE LET newline == SelectInSeq(buffer, LAMBDA token : token.part = "newline")
       IN  [size |-> newline, body |-> SubSeq(buffer, 1, newline - 1), framing |-> "ndjson"]

Rest(size) == SubSeq(buffer, size + 1, Len(buffer))

TooLong(b) == Len(b) > MaxInput

\* push: the buffer keeps the chunk even when it has become too long.
Push ==
  /\ server.phase = "idle" /\ chunks # <<>> /\ Head(chunks) # End
  /\ buffer' = buffer \o Head(chunks)
  /\ chunks' = Tail(chunks)
  /\ IF TooLong(buffer') THEN failed' = TRUE /\ UNCHANGED server
     ELSE server' = [server EXCEPT !.phase = "parsing"] /\ UNCHANGED failed
  /\ UNCHANGED <<host, versions, sent, wire, closed, out, book, text>>

\* onMessage(JSON.parse(body), framing), or the exception that ends the push.
Dispatch(body, framing) ==
  IF Parsed(body) = {} THEN server' = Idle /\ failed' = TRUE
  ELSE /\ server' = [phase |-> "serving", framing |-> framing,
                     message |-> CHOOSE n \in Parsed(body) : TRUE]
       /\ UNCHANGED failed

\* One turn of the loop: the frame leaves the buffer before it is served.
TakeFrame ==
  /\ server.phase = "parsing"
  /\ IF Frame.size = 0 THEN server' = Idle /\ UNCHANGED <<buffer, failed>>
     ELSE buffer' = Rest(Frame.size) /\ Dispatch(Frame.body, Frame.framing)
  /\ UNCHANGED <<host, versions, sent, input, out, book, text>>

\* finish: what is left, trimmed, is one message on a line.
KeepText(kept, token) == IF token.part = "newline" THEN kept ELSE Append(kept, token)
Remaining == FoldLeft(KeepText, <<>>, buffer)
Finish ==
  /\ server.phase = "idle" /\ chunks # <<>> /\ Head(chunks) = End
  /\ chunks' = Tail(chunks) /\ buffer' = <<>>
  /\ IF Remaining = <<>> THEN UNCHANGED <<server, failed>> ELSE Dispatch(Remaining, "ndjson")
  /\ UNCHANGED <<host, versions, sent, wire, closed, out, book, text>>

----------------------------------------------------------------------------
\* McpRuntime.handle and callTool

AnswerFraming == server.framing

Answer(body) ==
  /\ out' = Append(out, [message |-> server.message, framing |-> AnswerFraming, body |-> body])
  /\ server' = [server EXCEPT !.phase = "parsing"]
  /\ UNCHANGED <<host, versions, sent, input, buffer, failed, text>>

Serves(kinds) == server.phase = "serving" /\ sent[server.message].kind \in kinds

ServePing == Serves({"ping"}) /\ Answer("pong") /\ UNCHANGED book

\* The client follows the cursor while the generation stays the same.
Collected(page) ==
  IF page.cursor = 0
  THEN [generation |-> Generation, ids |-> Ids(page.items), next |-> page.next]
  ELSE IF book.generation # Generation THEN NoPages
  ELSE [book EXCEPT !.ids = @ \o Ids(page.items), !.next = page.next]

ServeRead ==
  /\ Serves({"read"})
  /\ \E page \in {Page(Items, sent[server.message].cursor, PageItems)} :
       /\ book' = IF PageAnswer(page) = "MCP_RESPONSE_LIMIT" THEN NoPages ELSE Collected(page)
       /\ Answer(PageAnswer(page))

\* The capsule of this generation.
ServeExport == Serves({"export"}) /\ Answer(Generation) /\ UNCHANGED book
Exported(generation) == Capsule(versions[generation + 1], ToSet(KindsByPriority))

\* A known notification has no answer; an unknown one ends the push.
ServeNotification ==
  /\ Serves({"initialized", "unknown notification"})
  /\ IF Serves({"initialized"})
     THEN server' = [server EXCEPT !.phase = "parsing"] /\ UNCHANGED failed
     ELSE server' = Idle /\ failed' = TRUE
  /\ UNCHANGED <<host, versions, sent, input, buffer, out, book, text>>

----------------------------------------------------------------------------
\* Other readers of the task: recover, called by a hook, and subagentContext

Shows(kind, body) ==
  /\ text' = [kind |-> kind, generation |-> Generation, body |-> body]
  /\ UNCHANGED <<host, versions, sent, input, buffer, server, failed, out, book>>

Recover(class, signals, budget) ==
  Shows("recovery", Rendered(Items, signals, class, budget))

\* A subagent gets no authorization.
DelegatedKinds == ToSet(KindsByPriority) \ {"authorization"}
Delegate(budget) ==
  Shows("delegation", CapsuleText(Capsule(Items, DelegatedKinds), budget))

----------------------------------------------------------------------------

Serve == ServePing \/ ServeRead \/ ServeExport \/ ServeNotification

Next ==
  \/ \E kind \in host.kinds, framing \in host.framings : Write(kind, framing)
  \/ Close \/ EndOfInput
  \/ \E size \in DOMAIN wire : Data(size)
  \/ Push \/ TakeFrame \/ Finish \/ Serve
  \/ \E content \in host.contents : Change(content)
  \/ host.texts /\ text = NoText /\ \E budget \in TextBudgets :     \* one text (bound)
       \/ Delegate(budget)
       \/ \E class \in DOMAIN FooterSize \ {"delegated"}, n \in 0..host.signals :
            Recover(class, n, budget)

Spec == Init /\ [][Next]_vars

\* The pipe delivers what was written, promises run, the service returns.
LiveSpec ==
  /\ Spec
  /\ WF_vars(EndOfInput \/ \E size \in DOMAIN wire : Data(size))
  /\ WF_vars(Push \/ TakeFrame \/ Finish \/ Serve)

----------------------------------------------------------------------------
\* Properties

TypeOK ==
  /\ Generation \in 0..host.changes
  /\ Len(sent) <= host.messages
  /\ closed \in {"open", "closed", "seen closed"}
  /\ server.phase \in {"idle", "parsing", "serving"}
  /\ server.phase # "idle" => Len(buffer) <= MaxInput
  /\ book.next \in {None} \cup 0..Len(book.ids)
  /\ failed \in BOOLEAN

(* Requests are answered in the order in which they were written, each one   *)
(* once and framed as it came, none is passed over, and nothing else is      *)
(* answered, however the pipe cuts the input (push, mcp-server.mjs:941-981,  *)
(* and the promise chain, :1016-1022).                                       *)
AnswersInOrder ==
  \A i \in DOMAIN out :
    LET n == out[i].message IN
    /\ IsRequest(n)
    /\ out[i].framing = IF sent[n].framing = "content-length" THEN "content-length" ELSE "ndjson"
    /\ {out[j].message : j \in 1..(i - 1)} = {m \in 1..(n - 1) : IsRequest(m)}

(* The server fails for a reason: a message it does not understand, or more  *)
(* input than its limit; never because of where a chunk ends (push,          *)
(* mcp-server.mjs:943-977).                                                  *)
FailureHasACause ==
  failed =>
    \/ \E n \in DOMAIN sent : sent[n].kind \in {"unknown notification", "not JSON"}
    \/ Len(FlattenSeq([n \in DOMAIN sent |-> Tokens(n, sent[n].framing)])) > MaxInput

(* A client that has followed the cursors to the end, at one generation,     *)
(* has every item of that generation once and in order, whatever the pages   *)
(* had room for and whoever wrote meanwhile (boundedStateResult,             *)
(* mcp-server.mjs:642-713).                                                  *)
PagesAreTheState ==
  book.next = None =>
    book.ids = Ids(versions[book.generation + 1])

(* A page takes the client further: as long as each item fits a page by      *)
(* itself, a read of the generation it follows is the last one or leaves a   *)
(* greater cursor, so that following the cursor comes to an end, unless the  *)
(* response as a whole is too large (boundedStateResult,                     *)
(* mcp-server.mjs:687-704).                                                  *)
PagesAdvance ==
  [][LET cursor == sent[server.message].cursor IN
     /\ Serves({"read"}) /\ out' # out /\ out'[Len(out')].body # "MCP_RESPONSE_LIMIT"
     /\ cursor = 0 \/ book.generation = Generation
     /\ \A item \in ToSet(Items) : item.size <= PageBudget
     => book'.next = None \/ book'.next > cursor]_vars

(* A capsule is within its budget, counts what it leaves out, and leaves out *)
(* nothing that would still fit (exportCapsule, recovery.mjs:382-440).       *)
CapsuleIsFull ==
  \A i \in DOMAIN out : sent[out[i].message].kind = "export" =>
    LET items == versions[out[i].body + 1]
        capsule == Exported(out[i].body)
        left == ToSet(items) \ ToSet(capsule.items)
    IN  /\ Total(capsule.items) <= CapsuleBudget
        /\ capsule.omitted = Cardinality(left)
        /\ \A item \in left : Total(capsule.items) + item.size > CapsuleBudget

(* A recovery's text never drops a high-risk item under a classification     *)
(* that lets work go on, and each item is on a line or among those that the  *)
(* text counts as omitted (recover, service.mjs:983-993, and                 *)
(* product-contract.md:65-66).                                               *)
OmissionsAreNamed ==
  text.kind = "recovery" =>
    /\ Critical(text.body) # {} => text.body.class = "ask_before_high_risk"
    /\ LET omitted == {item.id : item \in text.body.omitted} IN
       /\ ToSet(text.body.shown) \cap omitted = {}
       /\ ToSet(text.body.shown) \cup omitted = ToSet(Ids(versions[text.generation + 1]))

(* A text for the model stays in its budget, provided its fixed lines do,    *)
(* also when it had to be written again (fitsReserved, recovery.mjs:300-304).*)
TextsStayInBudget ==
  text.kind # "none" /\ FixedSize + OmissionSize + FooterSize[text.body.class] <= text.body.budget
    => text.body.size <= text.body.budget

(* Every request is answered, also the last one without its newline once the *)
(* client has closed the pipe, as long as the server has not failed (push    *)
(* and finish, mcp-server.mjs:941-989).                                      *)
EveryRequestIsAnswered ==
  \A n \in 1..Max({P.messages : P \in Profiles}) :
    /\ n \in DOMAIN sent /\ IsRequest(n)
    /\ sent[n].framing = "unterminated" => closed # "open"
    ~> n \in Answered \/ failed

----------------------------------------------------------------------------
\* What the documents say and the code does not do

(* product-contract.md:65-66: what a recovery or the start of a subagent     *)
(* shows the model is cut by risk and keeps the count of what was omitted.   *)
(* Here for a subagent: its text, which is all that its model is given       *)
(* (hook-handler.mjs:138, index.js:165), counts every item that it does not  *)
(* show, authorizations excepted, which are withheld on purpose.             *)
DelegationCountsOmissions ==
  text.kind = "delegation" =>
    LET delegable == {item \in ToSet(versions[text.generation + 1]) : item.kind # "authorization"}
    IN  Cardinality(text.body.omitted) =
          Cardinality({item \in delegable : item.id \notin ToSet(text.body.shown)})
=============================================================================
