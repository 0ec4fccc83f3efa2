-------------------------------- MODULE Session --------------------------------
(***************************************************************************)
(* A session (elements/session.c): a text, the parse that has committed    *)
(* it, the document published from it, the context located in it and what  *)
(* an edit keeps, through appends, the flush and edits, any allocation of  *)
(* which may fail.                                                         *)
(*                                                                         *)
(* A document is here the text it is a parse of: a snapshot's until the    *)
(* flush, the final one after it.  Torn is a tree that no parse of any     *)
(* text makes: the committed parse's own, taken back from a publish, or    *)
(* one a reading put together wrongly.  How an edit's reading makes the    *)
(* document of the new text is the parser's; here it does from a true rest *)
(* point, or fails, and what the session does about it is the whole of     *)
(* session.c's control.                                                    *)
(*                                                                         *)
(* Of a document the session itself measures the root's children, and asks *)
(* which of those an edit kept name a label it altered.  A byte stands     *)
(* here for a line: one of Opens begins a child, which goes on up to the   *)
(* next, and there is one label.                                           *)
(***************************************************************************)
EXTENDS Integers, Sequences, FiniteSets

CONSTANTS Bytes,         \* what a text is made of
          Opens,         \* those a child of the root starts with
          Defs, Uses,    \* and those of a child that declares the label, and names it
          Capacity,      \* MARKDOWN_CORE_SOURCE_CAPACITY
          Inserts,       \* the texts an append or an edit brings
          Chunk,         \* SESSION_CHUNK
          FirstRoom,     \* what markdown_core_reserve gives first
          WidthsScarce   \* whether the widths' storage may be refused to an
                         \* edit that mends them

ASSUME SessionAssumption ==
  /\ Opens \subseteq Bytes /\ Defs \subseteq Opens /\ Uses \subseteq Opens
  /\ Capacity \in Nat
  /\ Inserts \subseteq Seq(Bytes)
  /\ Chunk \in Nat \ {0} /\ FirstRoom \in Nat \ {0}
  /\ WidthsScarce \in BOOLEAN

VARIABLES open,      \* until markdown_core_session_close
          text,
          root,      \* document.root
          failed,    \* the committed parse's error, while it streams
          flushed,
          located,
          context,   \* the text and the document the context was read from
          kept,      \* whether what only an edit keeps was made (edits)
          made,      \* widths.made
          measured,  \* the document the widths were last made or mended for
          room,      \* widths.capacity and widths.sum_capacity
          lined,     \* the text the parse's line table is of
          peak,
          answer     \* what the last call answered

edits == <<kept, made, measured, room, peak>>
vars == <<open, text, root, failed, flushed, located, context, edits, lined, answer>>

None == [kind |-> "none"]
Torn == [kind |-> "torn"]
Snapshot(t) == [kind |-> "snapshot", of |-> t]
Final(t) == [kind |-> "final", of |-> t]

Texts == {t \in Seq(Bytes) : Len(t) <= Capacity}
Documents == {None, Torn} \cup [kind : {"snapshot", "final"}, of : Texts]

NoContext == [text |-> << >>, root |-> None]

Answers(call, status) == answer' = [call |-> call, status |-> status]

\* markdown_core_session_new, which makes a session only when all of it can be
\* had: its document is a snapshot.
Init ==
  /\ open = TRUE
  /\ text \in {t \in Inserts : Len(t) <= Capacity}
  /\ root = Snapshot(text)
  /\ failed = FALSE
  /\ flushed = FALSE
  /\ located = FALSE
  /\ context = NoContext
  /\ kept = FALSE /\ made = FALSE /\ measured = None /\ room = [chunks |-> 0, sums |-> 0] /\ peak = 0
  /\ lined = << >>
  /\ answer = [call |-> "new", status |-> "ok"]

\* session_forget
Forget == located' = FALSE /\ context' = NoContext

-------------------------------------------------------------------------------
(* Streaming.                                                              *)

\* session_take
Taken(more) == IF Len(more) > Capacity - Len(text) THEN text ELSE text \o more

\* Mutant of AppendText: the context is forgotten once the text is taken and parsed.
AppendForgetsLate(more) ==
  /\ open /\ ~flushed
  /\ text' = Taken(more)
  /\ \/ ~failed /\ root' = Snapshot(text') /\ failed' = FALSE /\ Forget /\ Answers("append", "ok")
     \/ root' = Torn /\ failed' = TRUE /\ UNCHANGED <<located, context>> /\ Answers("append", "allocationFailed")
  /\ UNCHANGED <<open, flushed, edits, lined>>

\* markdown_core_session_append.  A commit, completion or snapshot that fails
\* fails the parse for good, its tree taken back from the document it was
\* published as.
AppendText(more) ==
  /\ open
  /\ \/ /\ flushed
        /\ Answers("append", "flushed")
        /\ UNCHANGED <<text, root, failed, located, context>>
     \/ /\ ~flushed
        /\ Forget
        /\ \/ /\ Len(more) > Capacity - Len(text) \/ Len(more) > 0
              /\ Answers("append", "allocationFailed")
              /\ UNCHANGED <<text, root, failed>>
           \/ /\ Len(more) <= Capacity - Len(text)
              /\ text' = Taken(more)
              /\ \/ /\ ~failed
                    /\ root' = Snapshot(text')
                    /\ Answers("append", "ok")
                    /\ UNCHANGED failed
                 \/ /\ root' = Torn
                    /\ failed' = TRUE
                    /\ Answers("append", "allocationFailed")
  /\ UNCHANGED <<open, flushed, edits, lined>>

\* markdown_core_session_flush.  The line table of a parse that failed is of
\* what it had read.
Flush ==
  /\ open
  /\ \/ /\ flushed
        /\ Answers("flush", "flushed")
        /\ UNCHANGED <<root, flushed, located, context, lined>>
     \/ /\ ~flushed
        /\ Forget
        /\ flushed' = TRUE
        /\ \/ /\ ~failed
              /\ root' = Final(text)
              /\ lined' = text
              /\ Answers("flush", "ok")
           \/ /\ root' = None
              /\ Answers("flush", "allocationFailed")
              /\ UNCHANGED lined
  /\ UNCHANGED <<open, text, failed, edits>>

-------------------------------------------------------------------------------
(* The widths (THE WIDTHS) of the children of a text's document, the first *)
(* being child 0, and the rest points found by widths that measure the     *)
(* text m while the document is of t: another when a mend was refused.     *)

Starts(t) == {i \in 0..(Len(t) - 1) : i = 0 \/ t[i + 1] \in Opens}
Number(t, i) == Cardinality({j \in Starts(t) : j < i})
Count(t) == Number(t, Len(t))
Declares(t) == \E i \in Starts(t) : t[i + 1] \in Defs

\* Where the child n starts, or the text ends when it has no such child.
Place(t, n) == IF n < Count(t) THEN CHOOSE i \in Starts(t) : Number(t, i) = n ELSE Len(t)

Chunks(t) == (Count(t) + Chunk - 1) \div Chunk

\* markdown_core_reserve: what there is, doubled until it holds n.
Reserved(have, n) ==
  LET sizes == {(IF have = 0 THEN FirstRoom ELSE have) * 2^k : k \in 0..n}
      enough == {size \in sizes : size >= n}
  IN IF n <= have THEN have ELSE CHOOSE size \in enough : \A other \in enough : size <= other

\* The storage of the widths of the text t, had or refused: the chunks, then the sums.
Roomed(had, t) == [chunks |-> Reserved(had.chunks, Chunks(t)), sums |-> Reserved(had.sums, Chunks(t) + 1)]
Refused(had, t) ==
  LET grown == Reserved(had.chunks, Chunks(t))
  IN {[had EXCEPT !.chunks = new] : new \in
        {old \in {had.chunks} : Chunks(t) > old} \cup {new \in {grown} : Chunks(t) + 1 > had.sums}}

\* widths_before: where the chunks before the chunk c of the text m end.
widths_before(m, c) == Place(m, c * Chunk)

\* widths_start_at and widths_end: the chunks before, by the widths, and the
\* children before it in its chunk, by themselves.
widths_start(m, t, n) == LET c == n \div Chunk IN widths_before(m, c) + (Place(t, n) - Place(t, c * Chunk))
widths_end(m, t, n) == widths_start(m, t, n) + (Place(t, n + 1) - Place(t, n))

\* widths_child_at: the child before the first that ends past `offset'.
widths_child(m, t, offset) ==
  LET held == {c \in 0..Chunks(m) : widths_before(m, c) <= offset}
      chunk == CHOOSE c \in held : \A d \in held : d <= c
      end(n) == widths_before(m, chunk) + (Place(t, n + 1) - Place(t, chunk * Chunk))
      past == {n \in (chunk * Chunk)..(Count(t) - 1) : end(n) > offset}
      child == IF chunk = Chunks(m) \/ past = {} THEN Count(t) ELSE CHOOSE n \in past : \A q \in past : n <= q
  IN IF child = 0 THEN 0 ELSE child - 1

\* markdown_core_parser_line_of, each byte being a line.
LineOf(t, offset) == IF offset < Len(t) THEN offset ELSE Len(t) - 1

\* session_rest_root: the child the parse is put back before.  No reading of these
\* children spans another.
session_rest_root(m, t, offset) ==
  LET rests == {n \in 0..widths_child(m, t, offset) :
                  n = 0 \/ widths_end(m, t, n - 1) <= LineOf(t, widths_start(m, t, n))}
  IN CHOOSE n \in rests : \A q \in rests : q <= n

\* Whether a reading put back for the child that starts at `use' makes the document:
\* the rest point found is at or before this child, where one starts and the one before
\* it ends.  A sum past the last chunk's is not the widths', and may be anything.
Readings(m, t, use) ==
  LET n == session_rest_root(m, t, use)
      found == \/ n = 0
               \/ /\ LineOf(t, widths_start(m, t, n)) = Place(t, n)
                  /\ widths_end(m, t, n - 1) = Place(t, n)
                  /\ Place(t, n) <= use
  IN IF widths_child(m, t, use) \div Chunk > Chunks(m) THEN BOOLEAN ELSE {found}

-------------------------------------------------------------------------------
(* The edit.                                                               *)

\* session_replace
Replaced(from, to, with) == SubSeq(text, 1, from) \o with \o SubSeq(text, to + 1, Len(text))

\* The cursors of an edit, as offsets, one past every text the last.
Places == 0..(Capacity + 1)

\* session_offset of both cursors, and their order.
InBounds(from, to) == from <= to /\ to <= Len(text)

\* Mutant of Fits: what the edit takes away is counted twice.
FitsTwice(from, to, with) == Len(with) <= Capacity - (Len(text) - to)

\* The capacity check of the edit.
Fits(from, to, with) == Len(with) <= Capacity - (Len(text) - (to - from))

\* An edit that is refused before it asks for storage, or for a text too large:
\* nothing of the session changes.
EditRefused ==
  /\ open
  /\ \/ ~flushed /\ Answers("edit", "streaming")
     \/ flushed /\ root = None /\ Answers("edit", "allocationFailed")
     \/ /\ flushed /\ root # None
        /\ \E from, to \in Places, with \in Inserts :
             \/ ~InBounds(from, to) /\ Answers("edit", "outOfBounds")
             \/ InBounds(from, to) /\ ~Fits(from, to, with) /\ Answers("edit", "allocationFailed")
  /\ UNCHANGED <<open, text, root, failed, flushed, located, context, edits, lined>>

RoomMade == IF made THEN room ELSE Roomed(room, text)

\* The edit and the locate make what they keep and the widths of the document
\* when there are none: widths_make.
Prepared ==
  /\ kept' = TRUE
  /\ made' = TRUE
  /\ measured' = IF made THEN measured ELSE root
  /\ room' = RoomMade

Unprepared ==
  \/ ~kept /\ UNCHANGED <<kept, made, measured, room>>
  \/ ~made /\ kept' = TRUE /\ room' \in Refused(room, text) /\ UNCHANGED <<made, measured>>

Highest == IF Len(text) > peak THEN Len(text) ELSE peak

\* Mutant of Editable: an edit of a session whose document was let go reads on.
EditableGone(from, to, with) == flushed /\ InBounds(from, to) /\ Fits(from, to, with)

Editable(from, to, with) == flushed /\ root # None /\ InBounds(from, to) /\ Fits(from, to, with)

\* An edit out of storage before its text is replaced: for what it keeps, for
\* the rest point, once the context is forgotten, or for the text itself.
EditOutOfStorage(from, to, with) ==
  /\ open
  /\ Editable(from, to, with)
  /\ \/ Unprepared /\ UNCHANGED <<located, context, peak>>
     \/ Prepared /\ Forget /\ peak' \in {peak, Highest}
  /\ Answers("edit", "allocationFailed")
  /\ UNCHANGED <<open, text, root, failed, flushed, lined>>

\* THE COMPACTION: the edit reads all of the text once it is less than half of
\* the most it was.
Compacts(new) == Len(new) < Highest \div 2

\* Mutant of PeakAfter: the peak stays.
PeakStays(new) == Highest

\* The peak an edit that made the text `new' leaves.
PeakAfter(new) == IF Compacts(new) THEN Len(new) ELSE Highest

\* The children an edit from `from' up to `to' keeps that name the label, when it
\* altered it, by where they start: those before its rest point, and those from where
\* it took the old children back (the first of the old that starts past the edit, and
\* not at the text's start).
Again(from, to, with) ==
  LET new == Replaced(from, to, with)
      delta == Len(with) - (to - from)
      before == Place(text, session_rest_root(text, text, from))
      back == {i + delta : i \in {n \in Starts(text) : n >= to /\ n + delta > 0 /\ text[n + 1] \in Opens}}
      stays(i) == i < before \/ \E n \in back : n <= i
  IN IF Compacts(new) \/ Declares(new) = Declares(text) THEN {}
     ELSE {i \in Starts(new) : new[i + 1] \in Uses /\ stays(i)}

\* Whether widths_mend has its storage, and what it then has.
Mends(new) ==
  {[done |-> TRUE, room |-> Roomed(RoomMade, new)]}
    \cup {[done |-> FALSE, room |-> had] : had \in {r \in Refused(RoomMade, new) : WidthsScarce}}

\* What the readings of an edit leave: its own makes the document of a document, and
\* `mend' says whether the widths were mended after it.  Each reading `again' finds its
\* rest point by widths of the text `measures'.  It leaves the children as many, so its
\* own mend, of widths that are made, asks for no storage.
ReadBy(measures, new, again, mend) ==
  /\ \E right \in [again -> BOOLEAN] :
       /\ \A use \in again : right[use] \in Readings(measures, new, use)
       /\ IF root # Final(text) /\ ~Compacts(new) THEN root' \in {Final(new), Torn}
          ELSE root' = IF \A use \in again : right[use] THEN Final(new) ELSE Torn
  /\ made' = mend.done /\ room' = mend.room
  /\ measured' = IF mend.done THEN root' ELSE measured
  /\ lined' = new

\* A mutant of ReadTo: the widths are not mended.
ReadUnmended(new, again, mend) == root' = Final(new) /\ made' = made /\ UNCHANGED <<measured, room>> /\ lined' = new

\* A mutant of ReadTo: the widths are mended once all of the readings were made.
ReadBeforeMend(new, again, mend) == ReadBy(text, new, again, mend)

\* The mend comes before the readings again, which go by whatever it left.
ReadTo(new, again, mend) == ReadBy(IF mend.done THEN new ELSE text, new, again, mend)

\* An edit that fails once its text is replaced lets the document go: its reading could
\* not be reopened, which leaves the widths and the line table of the old text, or was
\* not flushed, or left children that name a label it altered, which could not be found,
\* or read again.
Released(new) ==
  /\ root' = None
  /\ \/ made' = TRUE /\ room' = RoomMade /\ UNCHANGED lined
     \/ \E mend \in {[done |-> FALSE, room |-> RoomMade]} \cup Mends(new) :
          made' \in {FALSE, mend.done} /\ room' = mend.room /\ lined' \in {<< >>, new}
  /\ UNCHANGED measured

\* markdown_core_session_edit, from session_replace on: it reads the new text,
\* all of it or from the rest point, and then, when children it kept name a
\* label it altered, those again (session_refresh).
EditReads(from, to, with) ==
  LET new == Replaced(from, to, with)
  IN /\ open
     /\ Editable(from, to, with)
     /\ text' = new
     /\ kept' = TRUE
     /\ peak' = PeakAfter(new)
     /\ Forget
     /\ \/ /\ \E mend \in Mends(new) : ReadTo(new, Again(from, to, with), mend)
           /\ Answers("edit", "ok")
        \/ /\ Released(new)
           /\ Answers("edit", "allocationFailed")
     /\ UNCHANGED <<open, failed, flushed>>

-------------------------------------------------------------------------------
(* The context, and the close.                                             *)

LocateFails ==
  /\ \E status \in {"outOfBounds", "allocationFailed"} : Answers("locate", status)
  /\ UNCHANGED <<located, context>>

LocateAnswers ==
  \/ LocateFails
  \/ /\ located' = TRUE
     /\ context' = [text |-> text, root |-> root]
     /\ Answers("locate", "ok")

\* markdown_core_session_locate: a flushed session whose document has children
\* reads from a rest point, any other one the whole text before the cursor.  A
\* locate that fails leaves the context as it was.
Locate ==
  /\ open
  /\ \/ flushed /\ root # None /\ Unprepared /\ UNCHANGED peak /\ LocateFails
     \/ flushed /\ root # None /\ Prepared /\ UNCHANGED peak /\ LocateAnswers
     \/ UNCHANGED edits /\ LocateAnswers
  /\ UNCHANGED <<open, text, root, failed, flushed, lined>>

\* markdown_core_session_close: nothing the session lent may be read after it.
Close ==
  /\ open
  /\ open' = FALSE
  /\ root' = None
  /\ Forget
  /\ Answers("close", "ok")
  /\ UNCHANGED <<text, failed, flushed, edits, lined>>

Next ==
  \/ \E more \in Inserts : AppendText(more)
  \/ Flush
  \/ EditRefused
  \/ \E from, to \in Places, with \in Inserts :
       \/ EditOutOfStorage(from, to, with)
       \/ EditReads(from, to, with)
  \/ Locate
  \/ Close

Spec == Init /\ [][Next]_vars

-------------------------------------------------------------------------------
(* What makes a session correct.                                           *)

\* The session's variables keep their types, and the text the capacity every
\* offset of the library is measured by.
TypeOK ==
  /\ open \in BOOLEAN /\ failed \in BOOLEAN /\ flushed \in BOOLEAN /\ located \in BOOLEAN
  /\ text \in Seq(Bytes) /\ Len(text) <= Capacity
  /\ kept \in BOOLEAN /\ made \in BOOLEAN
  /\ peak \in Nat
  /\ lined \in Seq(Bytes)

\* "The final document, which equals markdown_core_document_parse_in of the
\* text": whatever failed before, a document the session still has after the
\* flush is the parse of its text, and before it, while no append has failed,
\* the snapshot of its text.
DocumentIsOfText ==
  open => IF flushed THEN root # None => root = Final(text) ELSE ~failed => root = Snapshot(text)

\* The context is the one of the text and the document as they stand: no append,
\* flush or edit, failed or not, leaves one read before it.
ContextIsCurrent ==
  IF located THEN context = [text |-> text, root |-> root] ELSE context = NoContext

\* widths_check: the widths a rest point is found by measure the document that
\* stands, though a failed edit leaves them as they were.
WidthsMeasure == made /\ root # None => measured = root

\* "Once the text is less than half of that, the holes exceed what it needs": no
\* edit leaves a text under half of the most held since the last reading of all
\* of it, however the edits shrink and grow it and fail.
HolesBounded == Len(text) >= peak \div 2

\* A session whose document was let go, which may hold neither the old text nor
\* its parse, is never brought back: no later call reads or changes it.
GoneStaysGone == [][flushed /\ root = None => root' = None /\ text' = text]_vars

\* "How many lines the flushed session's text has": the line table a flushed
\* session lends its lines from is of its text, as long as it has a document.
LinesOfDocument == flushed /\ root # None => lined = text
===============================================================================
