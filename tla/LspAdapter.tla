------------------------------ MODULE LspAdapter ------------------------------
(***************************************************************************)
(* markdown-core-server: the loop of lsp/main.c and the JSON-RPC adapter   *)
(* of lsp/adapter.c over the language engine, which is here what it        *)
(* promises (LspStore, which LspServer implements), with a client that     *)
(* keeps its own documents and writes its messages ahead of the answers.   *)
(* One message is read, handled and answered before the next.              *)
(*                                                                         *)
(* JSON and the framing are kept as what the adapter tells apart: what a   *)
(* message is, whether it could be read, and whether the answer could be   *)
(* made.                                                                   *)
(***************************************************************************)
EXTENDS LspStore, FiniteSets

CONSTANTS Scarcity, \* whether the adapter's own allocations may fail: what a process may meet
          Most      \* a bound: the messages a client sends, for each scarcity

VARIABLES scarce,  \* whether this process's may
          inbox,   \* the messages written and not read, oldest first
          sent,    \* how many messages the client wrote
          mine,    \* the client's open documents
          told,    \* the client's documents as of the messages the server read
          out,     \* the answers written: request ids, 0 for the null id
          read,    \* the ids of the requests read, in order
          code     \* the process's exit code, 2 while it runs

client == <<sent, mine>>
process == <<told, out, read, code>>
allVars == <<vars, scarce, inbox, client, process>>

NoDocs == [u \in {} |-> 0]

AdapterInit ==
  /\ Init
  /\ scarce \in Scarcity
  /\ inbox = << >> /\ sent = 0
  /\ mine = NoDocs /\ told = NoDocs
  /\ out = << >> /\ read = << >>
  /\ code = 2

Running == code = 2

-------------------------------------------------------------------------------
(* The client.                                                             *)

\* What a message makes of the documents of the client that sends it.  A change
\* with an inverted edit is none: its document keeps its text and version.
Applied(documents, m) ==
  CASE m.method = "didOpen" ->
         [x \in DOMAIN documents \cup {m.uri} |->
            IF x = m.uri THEN [version |-> m.version, text |-> m.text] ELSE documents[x]]
    [] m.method = "didChange" /\ (\A i \in 1..Len(m.edits) : m.edits[i] \notin Inverted) ->
         [documents EXCEPT ![m.uri] = [version |-> m.version, text |-> After(@.text, m.edits)]]
    [] m.method = "didClose" -> [x \in DOMAIN documents \ {m.uri} |-> documents[x]]
    [] OTHER -> documents

Send(m) ==
  /\ sent < Most[scarce]
  /\ sent' = sent + 1
  /\ inbox' = Append(inbox, m)
  /\ mine' = Applied(mine, m)
  /\ UNCHANGED <<vars, scarce, process>>

Request(method) == [method |-> method, id |-> sent + 1]

\* Messages the protocol allows of a client, any of the requests at any time,
\* and those that are no message the server takes: a request for a method it
\* does not serve, with params that are not its method's or not a JSON-RPC 2.0
\* request; not JSON; not a request at all; a response to a request the server
\* never sent or a notification it does not take; frames that are broken.
ClientSends ==
  \/ \E method \in {"initialize", "shutdown", "unserved"} : Send(Request(method))
  \/ \E u \in Uris : Send([method |-> "completion", id |-> sent + 1, uri |-> u])
  \/ \E method \in {"exit", "notJson", "notRequest", "ignored", "end", "broken"} : Send([method |-> method])
  \/ \E u \in Uris \ DOMAIN mine, v \in Versions, t \in Texts :
       Send([method |-> "didOpen", uri |-> u, version |-> v, text |-> t])
  \/ \E u \in DOMAIN mine, v \in Versions, es \in Edits :
       Send([method |-> "didChange", uri |-> u, version |-> v, edits |-> es])
  \/ \E u \in DOMAIN mine : Send([method |-> "didClose", uri |-> u])

-------------------------------------------------------------------------------
(* The process: one turn of main's loop.                                   *)

\* adapter_code
AdapterCode(p) == IF p = "halted" THEN 0 ELSE 1

\* The answer to request `id', 0 for the null id.  When it cannot be allocated
\* or written, main stops with code 1.
Writes(id) ==
  \/ out' = Append(out, id) /\ UNCHANGED code
  \/ scarce /\ UNCHANGED out /\ code' = 1

\* Main's loop goes on with nothing to write.
Silent == UNCHANGED <<out, code>>

\* What a request asks of the engine; one it does not serve answers as its phase
\* would.
RequestCalls(m) ==
  \/ m.method = "initialize" /\ Initialize
  \/ m.method = "shutdown" /\ (Shutdown \/ Refuse)
  \/ m.method = "completion" /\ (Complete(m.uri) \/ Refuse)
  \/ m.method = "unserved" /\ UNCHANGED vars

\* Mutants of HandleRequest: the error is written after a result too; a refused
\* request is dropped as a notification is.
AnswersTwice(m) ==
  /\ RequestCalls(m)
  /\ read' = Append(read, m.id)
  /\ out' = IF answer' = <<"ok">> THEN out \o <<m.id, m.id>> ELSE Append(out, m.id)
  /\ UNCHANGED code
AnswersNoRefusal(m) ==
  /\ RequestCalls(m)
  /\ read' = Append(read, m.id)
  /\ IF answer' = <<"invalidRequest">> THEN Silent ELSE Writes(m.id)

\* request
HandleRequest(m) ==
  /\ RequestCalls(m)
  /\ read' = Append(read, m.id)
  /\ Writes(m.id)

\* Mutants of HandleChange: a closed phase does not keep a document open; each
\* change of a notification is an update of its own.
ClosesAlways(m) ==
  \/ m.method = "didOpen" /\ (Open(m.uri, m.version, m.text) \/ Refuse)
  \/ m.method = "didChange" /\ (Update(m.uri, m.version, m.edits) \/ Refuse)
  \/ m.method = "didClose" /\ docs' = Without(m.uri) /\ UNCHANGED <<phase, answer>>
ChangesOneByOne(m) ==
  \/ m.method = "didOpen" /\ (Open(m.uri, m.version, m.text) \/ Refuse)
  \/ m.method = "didChange" /\ (Update(m.uri, m.version, SubSeq(m.edits, 1, 1)) \/ Refuse)
  \/ m.method = "didClose" /\ (Close(m.uri) \/ Refuse)

\* open_document, update_document and the close of notification: a call that
\* fails is dropped, and so is a change there is no room to read the edits of.
HandleChange(m) ==
  \/ m.method = "didOpen" /\ (Open(m.uri, m.version, m.text) \/ Refuse)
  \/ m.method = "didChange" /\ (Update(m.uri, m.version, m.edits) \/ Refuse)
  \/ m.method = "didChange" /\ scarce /\ UNCHANGED vars
  \/ m.method = "didClose" /\ (Close(m.uri) \/ Refuse)

\* notification
HandleNotification(m) ==
  /\ \/ HandleChange(m) /\ UNCHANGED code
     \/ m.method = "exit" /\ UNCHANGED vars /\ code' = AdapterCode(phase)
     \/ m.method = "ignored" /\ UNCHANGED vars /\ UNCHANGED code
  /\ UNCHANGED <<out, read>>

\* A message the adapter cannot take answers the null id; frame_read ends the
\* loop at the end of the input and at a broken frame.
HandleOther(m) ==
  /\ \/ m.method \in {"notJson", "notRequest"} /\ Writes(0)
     \/ m.method = "end" /\ UNCHANGED out /\ code' = AdapterCode(phase)
     \/ m.method = "broken" /\ UNCHANGED out /\ code' = 1
  /\ UNCHANGED <<vars, read>>

\* json_read had no storage for the message, whose id is then not known.
Unread(m) ==
  /\ scarce
  /\ m.method \notin {"end", "broken"}
  /\ Writes(0)
  /\ UNCHANGED <<vars, read>>

\* frame_read and adapter_handle
Handle ==
  /\ Running
  /\ inbox # << >>
  /\ LET m == Head(inbox)
     IN /\ HandleRequest(m) \/ HandleNotification(m) \/ HandleOther(m) \/ Unread(m)
        /\ told' = Applied(told, m)
  /\ inbox' = Tail(inbox)
  /\ UNCHANGED <<scarce, client>>

AdapterNext == ClientSends \/ Handle

\* The loop reads as long as there is a message: nothing else is waited for.
AdapterSpec == AdapterInit /\ [][AdapterNext]_allVars /\ WF_allVars(Handle)

-------------------------------------------------------------------------------

\* The requests that the answers `ids' answer, in order: those not of the null id.
WithAnswer(answered, id) == IF id = 0 THEN answered ELSE Append(answered, id)
Answered(ids) ==
  LET upTo[i \in 0..Len(ids)] == IF i = 0 THEN << >> ELSE WithAnswer(upTo[i - 1], ids[i])
  IN upTo[Len(ids)]

\* "One message in, at most one message out" (adapter.h): each request read is
\* answered once, in the order read, and a notification never; only the last
\* may go unanswered, when the process stops for it.
RequestsAnsweredInOrder ==
  \/ Answered(out) = read
  \/ code = 1 /\ read # << >> /\ Answered(out) = SubSeq(read, 1, Len(read) - 1)

\* No message after the shutdown changes a document or brings the server back.
HaltedHolds == [][phase = "halted" => phase' = "halted" /\ docs' = docs]_allVars

\* HeldWithStorage: while the adapter's own allocations succeed, though the
\* engine's may fail, a document the server serves is the client's, text and
\* version, as of the messages read.
HeldWithStorage ==
  ~scarce /\ phase = "active" => \A u \in DOMAIN docs : u \in DOMAIN told /\ docs[u] = told[u]

\* EveryRequestAnswered: while the adapter can allocate, main's loop answers
\* every request a client writes, or the process ends.
EveryRequestAnswered ==
  \A n \in 1..Most[FALSE] :
    (~scarce /\ \E i \in 1..Len(inbox) : "id" \in DOMAIN inbox[i] /\ inbox[i].id = n)
      ~> (~Running \/ \E i \in 1..Len(out) : out[i] = n)
===============================================================================
