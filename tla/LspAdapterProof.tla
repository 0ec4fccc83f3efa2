---------------------------- MODULE LspAdapterProof ----------------------------
(***************************************************************************)
(* Proofs about LspAdapter: for any number of messages, documents and      *)
(* edits, the answers are those of the requests read, in order, a document *)
(* the server serves is the client's, and the server halted changes none.  *)
(*                                                                         *)
(* That each request is answered in the end is a liveness property, which  *)
(* only the run checks.                                                    *)
(***************************************************************************)
EXTENDS LspAdapter, SequenceTheorems, Groundwork, TLAPS

-------------------------------------------------------------------------------
(* The requests answered.                                                  *)

\* The answered requests up to each answer.
AnsweredUpTo(f, ids) ==
  /\ f \in [0..Len(ids) -> Seq(Nat)]
  /\ f[0] = << >>
  /\ \A i \in 1..Len(ids) : f[i] = WithAnswer(f[i - 1], ids[i])

Counted(ids) == \E f : AnsweredUpTo(f, ids) /\ Answered(ids) = f[Len(ids)]

LEMMA AnsweredCounts ==
  ASSUME NEW ids \in Seq(Nat)
  PROVE  Counted(ids)
<1> DEFINE n == Len(ids)
           f == CHOOSE f : f = [i \in 0..n |-> IF i = 0 THEN << >> ELSE WithAnswer(f[i - 1], ids[i])]
<1>1. Answered(ids) = f[n]
  BY Zenon DEF Answered
<1>2. n \in Nat /\ \A i \in 1..n : ids[i] \in Nat
  OBVIOUS
<1> HIDE DEF n
<1>3. PICK g \in [0..n -> Seq(Nat)] : g[0] = << >> /\ \A i \in 1..n : g[i] = WithAnswer(g[i - 1], ids[i])
  <2> DEFINE F == [i \in 1..n |-> [q \in Seq(Nat) |-> WithAnswer(q, ids[i])]]
  <2>1. F \in [1..n -> [Seq(Nat) -> Seq(Nat)]]
    BY <1>2 DEF WithAnswer
  <2>2. \A i \in 1..n : \A q \in Seq(Nat) : F[i][q] = WithAnswer(q, ids[i])
    OBVIOUS
  <2> HIDE DEF F
  <2>3. Runs(Seq(Nat), n, << >>, F)
    <3> DEFINE X == Seq(Nat)
               b == << >>
    <3>1. b \in X /\ F \in [1..n -> [X -> X]]
      BY <2>1
    <3> HIDE DEF X, b
    <3>2. Runs(X, n, b, F)
      BY <1>2, <3>1, Iterated
    <3>3. QED
      BY <3>2 DEF X, b
  <2>4. PICK g \in [0..n -> Seq(Nat)] : g[0] = << >> /\ \A i \in 1..n : g[i] = F[i][g[i - 1]]
    BY <2>3 DEF Runs
  <2>5. ASSUME NEW i \in 1..n PROVE g[i] = WithAnswer(g[i - 1], ids[i])
    <3>1. g[i - 1] \in Seq(Nat)
      BY <1>2
    <3>2. QED
      BY <2>2, <2>4, <3>1
  <2>6. QED
    BY <2>4, <2>5
<1>4. \E h : h = [i \in 0..n |-> IF i = 0 THEN << >> ELSE WithAnswer(h[i - 1], ids[i])]
  <2>1. g = [i \in 0..n |-> IF i = 0 THEN << >> ELSE WithAnswer(g[i - 1], ids[i])]
    BY <1>2, <1>3
  <2>2. QED
    BY <2>1
<1>5. f = [i \in 0..n |-> IF i = 0 THEN << >> ELSE WithAnswer(f[i - 1], ids[i])]
  BY <1>4, Zenon
<1> HIDE DEF f
<1>6. f[0] = << >> /\ \A i \in 1..n : f[i] = WithAnswer(f[i - 1], ids[i])
  <2> DEFINE h == [i \in 0..n |-> IF i = 0 THEN << >> ELSE WithAnswer(f[i - 1], ids[i])]
  <2>1. f = h
    BY <1>5, Zenon
  <2>2. h[0] = << >> /\ \A i \in 1..n : h[i] = WithAnswer(f[i - 1], ids[i])
    BY <1>2
  <2> HIDE DEF h
  <2>3. QED
    BY <2>1, <2>2
<1> DEFINE Good == {i \in 0..n : f[i] = g[i]}
<1>7. 0..n \subseteq Good
  <2>1. 0 \in Good
    BY <1>2, <1>3, <1>6
  <2>2. ASSUME NEW i \in 0..(n - 1), i \in Good PROVE i + 1 \in Good
    <3>1. i + 1 \in 1..n /\ i + 1 - 1 = i
      BY <1>2
    <3>2. f[i + 1] = WithAnswer(f[i], ids[i + 1]) /\ g[i + 1] = WithAnswer(g[i], ids[i + 1])
      BY <1>3, <1>6, <3>1
    <3>3. QED
      BY <2>2, <3>1, <3>2
  <2> HIDE DEF Good
  <2>3. QED
    BY <1>2, <2>1, <2>2, UpTo
<1>8. n \in 0..n
  BY <1>2
<1>9. AnsweredUpTo(g, ids) /\ Answered(ids) = g[Len(ids)]
  BY <1>1, <1>3, <1>7, <1>8 DEF AnsweredUpTo, n
<1>10. QED
  BY <1>9 DEF Counted

LEMMA AnsweredNone == Answered(<< >>) = << >>
<1>1. << >> \in Seq(Nat) /\ Len(<< >>) = 0
  OBVIOUS
<1>2. PICK f : AnsweredUpTo(f, << >>) /\ Answered(<< >>) = f[Len(<< >>)]
  BY <1>1, AnsweredCounts DEF Counted
<1>3. QED
  BY <1>1, <1>2 DEF AnsweredUpTo

\* One answer more answers its request, and none when it is of the null id.
LEMMA AnsweredMore ==
  ASSUME NEW ids \in Seq(Nat), NEW id \in Nat
  PROVE  Answered(Append(ids, id)) = WithAnswer(Answered(ids), id)
<1> DEFINE more == Append(ids, id)
           n == Len(ids)
<1>1. more \in Seq(Nat) /\ Len(more) = n + 1 /\ more[n + 1] = id /\ n \in Nat
      /\ \A i \in 1..n : more[i] = ids[i]
  OBVIOUS
<1>2. PICK f : AnsweredUpTo(f, ids) /\ Answered(ids) = f[n]
  BY AnsweredCounts DEF Counted
<1> HIDE DEF more
<1>3. PICK g : AnsweredUpTo(g, more) /\ Answered(more) = g[Len(more)]
  BY <1>1, AnsweredCounts DEF Counted
<1> HIDE DEF n
<1> DEFINE Good == {i \in 0..n : f[i] = g[i]}
<1>4. 0..n \subseteq Good
  <2>1. 0 \in Good
    BY <1>1, <1>2, <1>3 DEF AnsweredUpTo
  <2>2. ASSUME NEW i \in 0..(n - 1), i \in Good PROVE i + 1 \in Good
    <3>1. i + 1 \in 1..n /\ i + 1 \in 1..Len(more) /\ i + 1 - 1 = i /\ i + 1 \in 0..n
      BY <1>1
    <3>2. f[i + 1] = WithAnswer(f[i], ids[i + 1]) /\ g[i + 1] = WithAnswer(g[i], more[i + 1])
      BY <1>2, <1>3, <3>1 DEF AnsweredUpTo, n
    <3>3. QED
      BY <1>1, <2>2, <3>1, <3>2
  <2> HIDE DEF Good
  <2>3. QED
    BY <1>1, <2>1, <2>2, UpTo
<1>5. f[n] = g[n] /\ n + 1 \in 1..Len(more) /\ n + 1 - 1 = n
  BY <1>1, <1>4
<1>6. g[n + 1] = WithAnswer(g[n], more[n + 1])
  <2> DEFINE k == n + 1
  <2>1. k \in 1..Len(more) /\ k - 1 = n
    BY <1>1, <1>5
  <2> HIDE DEF k
  <2>2. g[k] = WithAnswer(g[k - 1], more[k])
    BY <1>3, <2>1 DEF AnsweredUpTo
  <2>3. QED
    BY <2>1, <2>2 DEF k
<1>7. QED
  BY <1>1, <1>2, <1>3, <1>5, <1>6 DEF more

-------------------------------------------------------------------------------
(* The invariant.                                                          *)

Asks == {"initialize", "shutdown", "unserved"}
Signals == {"exit", "notJson", "notRequest", "ignored", "end", "broken"}

Messages ==
  [method : Asks, id : Nat \ {0}]
    \cup [method : {"completion"}, id : Nat \ {0}, uri : Uris]
    \cup [method : Signals]
    \cup [method : {"didOpen"}, uri : Uris, version : Versions, text : Texts]
    \cup [method : {"didChange"}, uri : Uris, version : Versions, edits : Edits]
    \cup [method : {"didClose"}, uri : Uris]

\* A message makes of the URIs `open' of the client's documents these.
OpenAfter(open, m) ==
  IF m.method = "didOpen" THEN open \cup {m.uri}
  ELSE IF m.method = "didClose" THEN open \ {m.uri} ELSE open

\* The client opens no document that it has open.
Lawful(open, m) == m.method = "didOpen" => m.uri \notin open

\* The messages not read take the documents as of those read, `from', to the
\* client's own, `to', each lawful where the ones before it leave it.
Leads(from, messages, to) ==
  \E h \in [0..Len(messages) -> SUBSET Uris] :
    /\ h[0] = from /\ h[Len(messages)] = to
    /\ \A i \in 1..Len(messages) : Lawful(h[i - 1], messages[i]) /\ h[i] = OpenAfter(h[i - 1], messages[i])

Typed ==
  /\ inbox \in Seq(Messages) /\ sent \in Nat
  /\ out \in Seq(Nat) /\ read \in Seq(Nat \ {0})
  /\ Answered(out) \in Seq(Nat)

\* A process that runs has answered every request it read.
AnswersRead == Running => Answered(out) = read

FreshHoldsNone == phase = "fresh" => DOMAIN docs = {}

IInv ==
  /\ Typed /\ AnswersRead /\ RequestsAnsweredInOrder
  /\ Leads(DOMAIN told, inbox, DOMAIN mine)
  /\ FreshHoldsNone /\ HeldWithStorage

LEMMA MessageParts ==
  ASSUME NEW m \in Messages
  PROVE  /\ m.method \in Asks \cup {"completion"} => m.id \in Nat /\ m.id # 0
         /\ m.method \in {"didOpen", "didClose", "didChange", "completion"} => m.uri \in Uris
BY DEF Messages, Asks, Signals

LEMMA AppliedOpens ==
  ASSUME NEW documents, NEW m
  PROVE  DOMAIN Applied(documents, m) = OpenAfter(DOMAIN documents, m)
BY DEF Applied, OpenAfter

\* A message sent comes last.
LEMMA LeadsMore ==
  ASSUME NEW messages \in Seq(Messages), NEW from, NEW to, Leads(from, messages, to),
         NEW m \in Messages, Lawful(to, m)
  PROVE  Leads(from, Append(messages, m), OpenAfter(to, m))
<1> DEFINE n == Len(messages)
           more == Append(messages, m)
<1>1. n \in Nat /\ Len(more) = n + 1 /\ more[n + 1] = m /\ \A i \in 1..n : more[i] = messages[i]
  OBVIOUS
<1>2. PICK h \in [0..n -> SUBSET Uris] :
        /\ h[0] = from /\ h[n] = to
        /\ \A i \in 1..n : Lawful(h[i - 1], messages[i]) /\ h[i] = OpenAfter(h[i - 1], messages[i])
  BY DEF Leads
<1> HIDE DEF n, more
<1>3. to \in SUBSET Uris
  BY <1>1, <1>2
<1>4. OpenAfter(to, m) \in SUBSET Uris
  BY <1>3, MessageParts DEF OpenAfter
<1> DEFINE w == [i \in 0..(n + 1) |-> IF i = n + 1 THEN OpenAfter(to, m) ELSE h[i]]
<1>5. w \in [0..(n + 1) -> SUBSET Uris]
  BY <1>1, <1>2, <1>4
<1>6. w[n + 1] = OpenAfter(to, m) /\ \A i \in 0..n : w[i] = h[i]
  BY <1>1
<1> HIDE DEF w
<1>7. ASSUME NEW i \in 1..(n + 1)
      PROVE  Lawful(w[i - 1], more[i]) /\ w[i] = OpenAfter(w[i - 1], more[i])
  <2>1. CASE i = n + 1
    <3>1. i - 1 = n /\ w[i - 1] = to /\ more[i] = m /\ w[i] = OpenAfter(to, m)
      BY <1>1, <1>2, <1>6, <2>1
    <3>2. QED
      BY <3>1
  <2>2. CASE i \in 1..n
    <3>1. w[i - 1] = h[i - 1] /\ w[i] = h[i] /\ more[i] = messages[i]
      BY <1>1, <1>6, <2>2
    <3>2. QED
      BY <1>2, <2>2, <3>1
  <2>3. QED
    BY <1>1, <2>1, <2>2
<1>8. w[0] = from
  BY <1>1, <1>2, <1>6
<1>9. QED
  BY <1>1, <1>5, <1>6, <1>7, <1>8 DEF Leads, more

\* The message read comes first, and is lawful.
LEMMA LeadsLess ==
  ASSUME NEW messages \in Seq(Messages), messages # << >>, NEW from, NEW to, Leads(from, messages, to)
  PROVE  Lawful(from, Head(messages)) /\ Leads(OpenAfter(from, Head(messages)), Tail(messages), to)
<1> DEFINE n == Len(messages)
           rest == Tail(messages)
<1>1. /\ n \in Nat /\ n > 0 /\ Len(rest) = n - 1 /\ Head(messages) = messages[1]
      /\ \A i \in 1..(n - 1) : rest[i] = messages[i + 1]
  OBVIOUS
<1>2. PICK h \in [0..n -> SUBSET Uris] :
        /\ h[0] = from /\ h[n] = to
        /\ \A i \in 1..n : Lawful(h[i - 1], messages[i]) /\ h[i] = OpenAfter(h[i - 1], messages[i])
  BY DEF Leads
<1> HIDE DEF n, rest
<1>3. Lawful(h[0], messages[1]) /\ h[1] = OpenAfter(h[0], messages[1])
  <2>1. 1 \in 1..n /\ 1 - 1 = 0
    BY <1>1
  <2>2. QED
    BY <1>2, <2>1
<1> DEFINE w == [i \in 0..(n - 1) |-> h[i + 1]]
<1>4. w \in [0..(n - 1) -> SUBSET Uris] /\ w[0] = h[1] /\ w[n - 1] = h[n]
  BY <1>1, <1>2
<1>5. ASSUME NEW i \in 1..(n - 1)
      PROVE  Lawful(w[i - 1], rest[i]) /\ w[i] = OpenAfter(w[i - 1], rest[i])
  <2>1. w[i - 1] = h[i] /\ w[i] = h[i + 1] /\ rest[i] = messages[i + 1]
    BY <1>1
  <2> DEFINE k == i + 1
  <2>2. k \in 1..n /\ k - 1 = i
    BY <1>1
  <2> HIDE DEF k
  <2>3. Lawful(h[k - 1], messages[k]) /\ h[k] = OpenAfter(h[k - 1], messages[k])
    BY <1>2, <2>2
  <2>4. QED
    BY <2>1, <2>2, <2>3 DEF k
<1> HIDE DEF w
<1>6. QED
  BY <1>1, <1>2, <1>3, <1>4, <1>5 DEF Leads, rest

LEMMA InitInv == AdapterInit => IInv
<1> SUFFICES ASSUME AdapterInit PROVE IInv
  OBVIOUS
<1>1. Typed /\ AnswersRead /\ RequestsAnsweredInOrder
  <2>1. inbox = << >> /\ sent = 0 /\ out = << >> /\ read = << >>
    BY DEF AdapterInit
  <2>2. Answered(out) = << >>
    BY <2>1, AnsweredNone
  <2>3. << >> \in Seq(Messages) /\ << >> \in Seq(Nat) /\ << >> \in Seq(Nat \ {0}) /\ 0 \in Nat
    OBVIOUS
  <2>4. QED
    BY <2>1, <2>2, <2>3, Zenon DEF Typed, AnswersRead, RequestsAnsweredInOrder
<1>2. Leads(DOMAIN told, inbox, DOMAIN mine)
  <2> DEFINE w == [i \in 0..0 |-> {}]
  <2>1. Len(inbox) = 0 /\ DOMAIN told = {} /\ DOMAIN mine = {}
    BY DEF AdapterInit, NoDocs
  <2>2. w \in [0..0 -> SUBSET Uris] /\ w[0] = {}
    OBVIOUS
  <2> HIDE DEF w
  <2>3. QED
    BY <2>1, <2>2 DEF Leads
<1>3. FreshHoldsNone /\ HeldWithStorage
  BY DEF AdapterInit, Init, FreshHoldsNone, HeldWithStorage
<1>4. QED
  BY <1>1, <1>2, <1>3 DEF IInv

-------------------------------------------------------------------------------
(* The steps.                                                              *)

\* A message the client sends is lawful, and its documents are what it makes of
\* them.
LEMMA SendStep ==
  ASSUME IInv, ClientSends
  PROVE  IInv'
<1>1. PICK m \in Messages : Lawful(DOMAIN mine, m) /\ Send(m)
  <2>1. sent + 1 \in Nat \ {0}
    BY DEF IInv, Typed
  <2>2. DOMAIN mine \subseteq Uris
    <3>1. Len(inbox) \in Nat
      BY DEF IInv, Typed
    <3>2. QED
      BY <3>1 DEF IInv, Leads
  <2>3. QED
    BY <2>1, <2>2 DEF ClientSends, Messages, Asks, Signals, Lawful, Request
<1>2. /\ inbox' = Append(inbox, m) /\ mine' = Applied(mine, m) /\ sent' = sent + 1
      /\ UNCHANGED <<phase, docs, answer, scarce, told, out, read, code>>
  BY <1>1 DEF Send, vars, process
<1>3. Leads(DOMAIN told, Append(inbox, m), OpenAfter(DOMAIN mine, m))
  BY <1>1, LeadsMore DEF IInv, Typed
<1>4. Leads(DOMAIN told, inbox, DOMAIN mine)'
  BY <1>2, <1>3, AppliedOpens
<1>5. Typed'
  BY <1>1, <1>2 DEF IInv, Typed
<1>6. AnswersRead' /\ RequestsAnsweredInOrder' /\ FreshHoldsNone' /\ HeldWithStorage'
  BY <1>2 DEF IInv, AnswersRead, Running, RequestsAnsweredInOrder, FreshHoldsNone, HeldWithStorage
<1>7. QED
  BY <1>4, <1>5, <1>6 DEF IInv

\* What was read, less the last.
LEMMA AllButLast ==
  ASSUME NEW S, NEW s \in Seq(S), NEW x \in S
  PROVE  Append(s, x) # << >> /\ SubSeq(Append(s, x), 1, Len(Append(s, x)) - 1) = s
<1> DEFINE q == Append(s, x)
           n == Len(s)
           t == SubSeq(q, 1, n)
<1>1. q \in Seq(S) /\ Len(q) = n + 1 /\ n \in Nat /\ \A i \in 1..n : q[i] = s[i] /\ q[i] \in S
  OBVIOUS
<1>2. /\ t \in Seq(S) /\ Len(t) = IF 1 <= n THEN n - 1 + 1 ELSE 0
      /\ \A i \in 1..(n - 1 + 1) : t[i] = q[1 + i - 1]
  <2> HIDE DEF q, n
  <2>1. QED
    BY <1>1, SubSeqProperties
<1>3. Len(t) = n /\ \A i \in 1..n : t[i] = s[i]
  <2> HIDE DEF q, t
  <2>1. QED
    BY <1>1, <1>2
<1>4. t = s
  <2> HIDE DEF t
  <2>1. QED
    BY <1>2, <1>3
<1>5. QED
  BY <1>1, <1>4

\* The answers after a turn, of a request or of none, that writes one or stops.
AnswersKept == Typed' /\ AnswersRead' /\ RequestsAnsweredInOrder'

LEMMA WritesStep ==
  ASSUME Typed, AnswersRead, Running, NEW id \in Nat, Writes(id),
         read' = IF id = 0 THEN read ELSE Append(read, id),
         inbox' \in Seq(Messages), sent' = sent
  PROVE  AnswersKept
<1>1. /\ out \in Seq(Nat) /\ read \in Seq(Nat \ {0}) /\ Answered(out) = read /\ sent' \in Nat
  BY DEF Typed, AnswersRead
<1>2. read' \in Seq(Nat \ {0}) /\ read' \in Seq(Nat)
  BY <1>1
<1>3. CASE out' = Append(out, id) /\ UNCHANGED code
  <2>1. Answered(out') = read'
    BY <1>1, <1>3, AnsweredMore DEF WithAnswer
  <2>2. out' \in Seq(Nat)
    BY <1>1, <1>3
  <2>3. QED
    BY <1>1, <1>2, <2>1, <2>2 DEF AnswersKept, Typed, AnswersRead, RequestsAnsweredInOrder
<1>4. CASE UNCHANGED out /\ code' = 1
  <2>1. Answered(out') = read
    BY <1>1, <1>4
  <2>2. read' = read \/ (read' # << >> /\ read = SubSeq(read', 1, Len(read') - 1))
    <3>1. CASE id = 0
      BY <3>1
    <3>2. CASE id # 0
      <4>1. id \in Nat \ {0} /\ read' = Append(read, id)
        BY <3>2
      <4>2. QED
        BY <1>1, <4>1, AllButLast
    <3>3. QED
      BY <3>1, <3>2
  <2>3. QED
    BY <1>1, <1>2, <1>4, <2>1, <2>2 DEF AnswersKept, Typed, AnswersRead, RequestsAnsweredInOrder, Running
<1>5. QED
  BY <1>3, <1>4 DEF Writes

LEMMA SilentStep ==
  ASSUME Typed, AnswersRead, Running, UNCHANGED <<out, read, sent>>,
         inbox' \in Seq(Messages)
  PROVE  AnswersKept
<1>1. Answered(out') = Answered(out) /\ Answered(out) = read
  BY DEF AnswersRead
<1>2. QED
  BY <1>1 DEF AnswersKept, Typed, AnswersRead, RequestsAnsweredInOrder

\* The engine's documents after a turn.
DocsKept == FreshHoldsNone' /\ HeldWithStorage'

Changes == {"didOpen", "didChange", "didClose"}

LEMMA NoChange ==
  ASSUME NEW documents, NEW m, m.method \notin Changes
  PROVE  Applied(documents, m) = documents
BY DEF Applied, Changes

\* A turn in which the engine keeps its documents and the client's stay the same.
LEMMA UnchangedDocs ==
  ASSUME FreshHoldsNone, HeldWithStorage, docs' = docs, told' = told, scarce' = scarce,
         phase' = "active" => phase \in {"fresh", "active"},
         phase' = "fresh" => phase = "fresh"
  PROVE  DocsKept
BY DEF DocsKept, FreshHoldsNone, HeldWithStorage

LEMMA RefuseDocs ==
  ASSUME FreshHoldsNone, Refuse, scarce' = scarce
  PROVE  DocsKept
BY DEF DocsKept, FreshHoldsNone, HeldWithStorage, Refuse

LEMMA RequestDocs ==
  ASSUME FreshHoldsNone, HeldWithStorage, NEW m, RequestCalls(m), told' = Applied(told, m),
         scarce' = scarce
  PROVE  DocsKept
<1>1. told' = told
  BY NoChange DEF RequestCalls, Changes
<1>2. /\ docs' = docs
      /\ phase' = "active" => phase \in {"fresh", "active"}
      /\ phase' = "fresh" => phase = "fresh"
  BY DEF RequestCalls, Initialize, Shutdown, Refuse, Complete, vars
<1>3. QED
  BY <1>1, <1>2, UnchangedDocs

LEMMA OpenDocs ==
  ASSUME FreshHoldsNone, HeldWithStorage, NEW m, m.method = "didOpen", Lawful(DOMAIN told, m),
         Open(m.uri, m.version, m.text), told' = Applied(told, m), scarce' = scarce
  PROVE  DocsKept
<1>1. told' = [x \in DOMAIN told \cup {m.uri} |->
                 IF x = m.uri THEN [version |-> m.version, text |-> m.text] ELSE told[x]]
  BY DEF Applied
<1>2. m.uri \notin DOMAIN told /\ phase = "active" /\ phase' = phase
  BY DEF Lawful, Open
<1>3. QED
  BY <1>1, <1>2 DEF DocsKept, FreshHoldsNone, HeldWithStorage, Open

LEMMA UpdateDocs ==
  ASSUME FreshHoldsNone, HeldWithStorage, NEW m, m.method = "didChange",
         Update(m.uri, m.version, m.edits), told' = Applied(told, m), scarce' = scarce
  PROVE  DocsKept
<1> DEFINE ordered == \A i \in 1..Len(m.edits) : m.edits[i] \notin Inverted
<1>1. phase = "active" /\ phase' = phase
  BY DEF Update
<1>2. ~ordered => told' = told
  BY DEF Applied
<1>3. ordered => told' = [told EXCEPT ![m.uri] = [version |-> m.version, text |-> After(@.text, m.edits)]]
  BY DEF Applied
<1>4. CASE ~ordered
  <2>1. docs' = docs
    BY <1>4 DEF Update
  <2>2. QED
    BY <1>1, <1>2, <1>4, <2>1, UnchangedDocs
<1>5. CASE ordered /\ m.uri \notin DOMAIN docs
  <2>1. docs' = docs
    BY <1>5 DEF Update
  <2>2. QED
    BY <1>1, <1>3, <1>5, <2>1 DEF DocsKept, FreshHoldsNone, HeldWithStorage
<1>6. CASE ordered /\ m.uri \in DOMAIN docs
  <2>1. \/ docs' = [docs EXCEPT ![m.uri] = [version |-> m.version, text |-> After(@.text, m.edits)]]
        \/ docs' = Without(m.uri)
    BY <1>6 DEF Update
  <2>2. QED
    BY <1>1, <1>3, <1>6, <2>1 DEF DocsKept, FreshHoldsNone, HeldWithStorage, Without
<1>7. QED
  BY <1>4, <1>5, <1>6

LEMMA CloseDocs ==
  ASSUME FreshHoldsNone, HeldWithStorage, NEW m, m.method = "didClose", Close(m.uri),
         told' = Applied(told, m), scarce' = scarce
  PROVE  DocsKept
<1>1. told' = [x \in DOMAIN told \ {m.uri} |-> told[x]]
  BY DEF Applied
<1>2. QED
  BY <1>1 DEF DocsKept, FreshHoldsNone, HeldWithStorage, Close, Without

LEMMA HandleStep ==
  ASSUME IInv, Handle
  PROVE  IInv'
<1> DEFINE m == Head(inbox)
<1>1. /\ Running /\ inbox # << >> /\ inbox' = Tail(inbox) /\ told' = Applied(told, m)
      /\ HandleRequest(m) \/ HandleNotification(m) \/ HandleOther(m) \/ Unread(m)
      /\ scarce' = scarce /\ sent' = sent /\ mine' = mine
  BY DEF Handle, client
<1>2. m \in Messages /\ inbox' \in Seq(Messages)
  BY <1>1 DEF IInv, Typed
<1>3. Lawful(DOMAIN told, m) /\ Leads(OpenAfter(DOMAIN told, m), Tail(inbox), DOMAIN mine)
  BY <1>1, LeadsLess DEF IInv, Typed
<1>4. Leads(DOMAIN told, inbox, DOMAIN mine)'
  BY <1>1, <1>3, AppliedOpens
<1> HIDE DEF m
<1>5. Typed /\ AnswersRead /\ FreshHoldsNone /\ HeldWithStorage
  BY DEF IInv
<1>6. AnswersKept /\ DocsKept
  <2>1. CASE HandleRequest(m)
    <3>1. RequestCalls(m) /\ read' = Append(read, m.id) /\ Writes(m.id)
      BY <2>1 DEF HandleRequest
    <3>2. m.id \in Nat /\ m.id # 0
      BY <1>2, <3>1, MessageParts DEF RequestCalls, Asks
    <3>3. AnswersKept
      BY <1>1, <1>2, <1>5, <3>1, <3>2, WritesStep
    <3>4. QED
      BY <1>1, <1>5, <3>1, <3>3, RequestDocs
  <2>2. CASE HandleNotification(m)
    <3>1. AnswersKept
      BY <1>1, <1>2, <1>5, <2>2, SilentStep DEF HandleNotification
    <3> SUFFICES DocsKept
      BY <3>1
    <3>2. CASE HandleChange(m)
      <4>1. CASE Refuse
        BY <1>1, <1>5, <4>1, RefuseDocs
      <4>2. CASE m.method = "didOpen" /\ Open(m.uri, m.version, m.text)
        BY <1>1, <1>3, <1>5, <4>2, OpenDocs
      <4>3. CASE m.method = "didChange" /\ Update(m.uri, m.version, m.edits)
        BY <1>1, <1>5, <4>3, UpdateDocs
      <4>4. CASE m.method = "didClose" /\ Close(m.uri)
        BY <1>1, <1>5, <4>4, CloseDocs
      <4>5. CASE scarce /\ UNCHANGED vars
        BY <1>1, <1>5, <4>5 DEF DocsKept, FreshHoldsNone, HeldWithStorage, vars
      <4>6. QED
        BY <3>2, <4>1, <4>2, <4>3, <4>4, <4>5 DEF HandleChange
    <3>3. CASE m.method \in {"exit", "ignored"} /\ UNCHANGED vars
      <4>1. told' = told
        BY <1>1, <3>3, NoChange DEF Changes
      <4>2. QED
        BY <1>1, <1>5, <3>3, <4>1, UnchangedDocs DEF vars
    <3>4. QED
      BY <2>2, <3>2, <3>3 DEF HandleNotification
  <2>3. CASE HandleOther(m)
    <3>1. ASSUME Writes(0) PROVE AnswersKept
      BY <1>1, <1>2, <1>5, <2>3, <3>1, WritesStep DEF HandleOther
    <3>2. AnswersKept
      BY <1>1, <1>2, <1>5, <2>3, <3>1, SilentStep DEF HandleOther
    <3>3. told' = told /\ UNCHANGED vars
      BY <1>1, <2>3, NoChange DEF HandleOther, Changes
    <3>4. DocsKept
      BY <1>1, <1>5, <3>3, UnchangedDocs DEF vars
    <3>5. QED
      BY <3>2, <3>4
  <2>4. CASE Unread(m)
    <3>1. AnswersKept
      BY <1>1, <1>2, <1>5, <2>4, WritesStep DEF Unread
    <3>2. DocsKept
      BY <1>1, <1>5, <2>4 DEF Unread, DocsKept, FreshHoldsNone, HeldWithStorage, vars
    <3>3. QED
      BY <3>1, <3>2
  <2>5. QED
    BY <1>1, <2>1, <2>2, <2>3, <2>4
<1>7. QED
  BY <1>4, <1>6 DEF IInv, AnswersKept, DocsKept

-------------------------------------------------------------------------------
(* What follows.                                                           *)

\* Every state of the process keeps the answers in order and the documents held.
THEOREM Invariance == AdapterSpec => []IInv
<1>1. AdapterInit => IInv
  BY InitInv
<1>2. IInv /\ [AdapterNext]_allVars => IInv'
  <2> SUFFICES ASSUME IInv, [AdapterNext]_allVars PROVE IInv'
    OBVIOUS
  <2>1. CASE ClientSends
    BY <2>1, SendStep
  <2>2. CASE Handle
    BY <2>2, HandleStep
  <2>3. CASE UNCHANGED allVars
    <3>1. UNCHANGED <<phase, docs, scarce, inbox, sent, mine, told, out, read, code>>
      BY <2>3 DEF allVars, vars, client, process
    <3>2. QED
      BY <3>1 DEF IInv, Typed, AnswersRead, RequestsAnsweredInOrder, FreshHoldsNone, HeldWithStorage, Running
  <2>4. QED
    BY <2>1, <2>2, <2>3 DEF AdapterNext
<1>3. QED
  BY <1>1, <1>2, PTL DEF AdapterSpec

\* RequestsAnsweredInOrder, whatever is sent, cannot be read or cannot be
\* allocated: the answers are those of the requests read, in their order.
THEOREM AnswersAlwaysInOrder == AdapterSpec => []RequestsAnsweredInOrder
<1>1. IInv => RequestsAnsweredInOrder
  BY DEF IInv
<1>2. QED
  BY <1>1, Invariance, PTL

\* HeldWithStorage: while the adapter can allocate, an open document is the
\* client's, however far ahead of the answers the client writes.
THEOREM DocumentsAlwaysHeld == AdapterSpec => []HeldWithStorage
<1>1. IInv => HeldWithStorage
  BY DEF IInv
<1>2. QED
  BY <1>1, Invariance, PTL

\* HaltedHolds: no message after the shutdown changes a document or brings the
\* server back.
THEOREM HaltedAlwaysHolds == AdapterSpec => HaltedHolds
<1> DEFINE Holds == phase = "halted" => phase' = "halted" /\ docs' = docs
<1>1. ASSUME ClientSends PROVE Holds
  <2>1. UNCHANGED vars
    BY <1>1 DEF ClientSends, Send
  <2>2. QED
    BY <2>1 DEF vars
<1>2. ASSUME Handle PROVE Holds
  <2>1. PICK m : HandleRequest(m) \/ HandleNotification(m) \/ HandleOther(m) \/ Unread(m)
    BY <1>2 DEF Handle
  <2>2. CASE HandleRequest(m)
    BY <2>2 DEF HandleRequest, RequestCalls, Initialize, Shutdown, Refuse, Complete, vars
  <2>3. CASE HandleNotification(m)
    BY <2>3 DEF HandleNotification, HandleChange, Open, Update, Close, Refuse, vars
  <2>4. CASE HandleOther(m) \/ Unread(m)
    BY <2>4 DEF HandleOther, Unread, vars
  <2>5. QED
    BY <2>1, <2>2, <2>3, <2>4
<1>3. [AdapterNext]_allVars => [Holds]_allVars
  BY <1>1, <1>2 DEF AdapterNext
<1>4. QED
  BY <1>3, PTL DEF AdapterSpec, HaltedHolds
===============================================================================
