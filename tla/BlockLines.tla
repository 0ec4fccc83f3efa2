----------------------------- MODULE BlockLines -----------------------------
(***************************************************************************)
(* A line as the block parser reads it: the cursor that takes bytes and    *)
(* columns of it (core/blocks.c) and what the block elements recognise at  *)
(* its first non-space byte.  A line is its content and a line feed.  The  *)
(* content is ASCII, so a scalar is a byte.                                *)
(***************************************************************************)
EXTENDS Bytes

Scan == INSTANCE Scanners

CodeIndent == 4 \* CODE_INDENT
TabStop == 4    \* TAB_STOP
ToTab(column) == TabStop - (column % TabStop)

LineStart == [offset |-> 0, column |-> 0, partial |-> FALSE]

RECURSIVE ColumnAt(_, _, _, _)
ColumnAt(line, at, to, column) ==
  IF at >= to THEN column
  ELSE ColumnAt(line, at + 1, to, column + (IF At(line, at) = "\t" THEN ToTab(column) ELSE 1))

\* What the first non-space byte at or past the cursor tells.
find_first_nonspace(line, c) ==
  LET first == Past(line, c.offset, Blank)
      column == ColumnAt(line, c.offset, first, c.column)
  IN [first |-> first, column |-> column, indent |-> column - c.column, blank |-> At(line, first) \in LineEnd]

\* A column of a tab may be taken alone: the tab is then partly consumed.
RECURSIVE advance_offset(_, _, _, _)
advance_offset(line, c, count, columns) ==
  LET stop == ToTab(c.column)
      take == IF columns THEN Min({count, stop}) ELSE stop
      part == columns /\ stop > count
  IN IF count <= 0 \/ c.offset >= Len(line) THEN c
     ELSE IF At(line, c.offset) = "\t"
     THEN advance_offset(line, [offset |-> c.offset + (IF part THEN 0 ELSE 1), column |-> c.column + take, partial |-> part],
                         count - (IF columns THEN take ELSE 1), columns)
     ELSE advance_offset(line, [offset |-> c.offset + 1, column |-> c.column + 1, partial |-> FALSE], count - 1, columns)

\* To byte `to`, and past one space or one column of a tab.
AdvanceTo(line, c, to) == advance_offset(line, c, to - c.offset, FALSE)
SpaceAfter(line, c) == IF At(line, c.offset) \in Blank THEN advance_offset(line, c, 1, TRUE) ELSE c

\* A container's continuation: where the cursor stands after it, or no match.
NoMatch == [ok |-> FALSE]
Matched(c) == [ok |-> TRUE, c |-> c]
continue_indented(line, c, f, continuation, accepts_blank) ==
  IF f.indent >= continuation THEN Matched(advance_offset(line, c, continuation, TRUE))
  ELSE IF f.blank /\ accepts_blank THEN Matched(AdvanceTo(line, c, f.first))
  ELSE NoMatch

-----------------------------------------------------------------------------
\* Callouts.
callout_prefix(line, c, f) ==
  IF f.indent <= 3 /\ At(line, f.first) = ">" THEN Matched(SpaceAfter(line, advance_offset(line, c, f.indent + 1, TRUE)))
  ELSE NoMatch

\* How far matching the prefix reads.
callout_continue_reach(line, f) ==
  IF f.indent > 3 \/ At(line, f.first) # ">" THEN f.first
  ELSE IF At(line, f.first + 1) = " " THEN f.first + 2 ELSE f.first + 1

\* How far opening one reads: the `>`, the space after it, up to three more
\* and two bytes, and all of a line whose bytes there are a variant's.
StopsAt(line, at) ==
  LET end == Len(line) - 1
  IN IF at + 1 >= end \/ (At(line, at) = "[" /\ At(line, at + 1) = "!") THEN end ELSE at + 1
SpacesFrom(line, at) == Min({at + 3, Past(line, at, {" "})})
callout_start_reach(line, f) ==
  LET after == f.first + 1
      wide == At(line, after) = "\t" /\ ToTab(f.column + 1) > 1
  IN IF wide THEN after
     ELSE StopsAt(line, SpacesFrom(line, IF At(line, after) \in Blank THEN after + 1 ELSE after))

\* The variant a callout's first line names, and its title.
VariantBytes == Alnum \cup {"_", "-"}
NoVariant == [has |-> FALSE]
callout_metadata(line, c) ==
  LET open == Min({c.offset + 3, Past(line, c.offset, {" "})})
      close == Past(line, open + 2, VariantBytes)
      fold == IF At(line, close + 1) \in {"+", "-"} THEN 1 ELSE 0
      rest == close + 1 + fold
  IN IF c.partial \/ At(line, open) # "[" \/ At(line, open + 1) # "!" \/ close = open + 2 \/ At(line, close) # "]"
        \/ At(line, rest) \notin White
     THEN NoVariant
     ELSE [has |-> TRUE, variant |-> Slice(line, open + 2, close), fold |-> Slice(line, close + 1, rest),
           title |-> Trim(Slice(line, rest, Len(line)))]

-----------------------------------------------------------------------------
\* List markers.
Variant(kind, lower) == [kind |-> kind, lower |-> lower]
OrdinalIn(order, c) == CHOOSE i \in 1 .. 26 : order[i] = c
UpperOrder == <<"A", "B", "C", "D", "E", "F", "G", "H", "I", "J", "K", "L", "M", "N", "O", "P", "Q", "R",
  "S", "T", "U", "V", "W", "X", "Y", "Z">>
LowerOrder == <<"a", "b", "c", "d", "e", "f", "g", "h", "i", "j", "k", "l", "m", "n", "o", "p", "q", "r",
  "s", "t", "u", "v", "w", "x", "y", "z">>
DigitOrder == <<"1", "2", "3", "4", "5", "6", "7", "8", "9">>
DigitValue(c) == IF c = "0" THEN 0 ELSE CHOOSE i \in 1 .. 9 : DigitOrder[i] = c
UpperOf(c) == IF c \in Lower THEN UpperOrder[OrdinalIn(LowerOrder, c)] ELSE c

RomanTerms ==
  <<[text |-> <<"M">>, value |-> 1000], [text |-> <<"C", "M">>, value |-> 900], [text |-> <<"D">>, value |-> 500],
    [text |-> <<"C", "D">>, value |-> 400], [text |-> <<"C">>, value |-> 100], [text |-> <<"X", "C">>, value |-> 90],
    [text |-> <<"L">>, value |-> 50], [text |-> <<"X", "L">>, value |-> 40], [text |-> <<"X">>, value |-> 10],
    [text |-> <<"I", "X">>, value |-> 9], [text |-> <<"V">>, value |-> 5], [text |-> <<"I", "V">>, value |-> 4],
    [text |-> <<"I">>, value |-> 1]>>
Repeats == {"M", "C", "X", "I"}
\* The terms in their order, one of a single letter of Repeats as often as it
\* is written; 0 when bytes are left.
RECURSIVE Roman(_, _)
Roman(s, term) ==
  LET t == RomanTerms[term]
      here == SubSeq(s, 1, Min({Len(t.text), Len(s)})) = t.text
      rest == SubSeq(s, Len(t.text) + 1, Len(s))
      again == Len(t.text) = 1 /\ t.text[1] \in Repeats
      more == Roman(rest, IF again THEN term ELSE term + 1)
  IN IF s = <<>> THEN 0
     ELSE IF term > Len(RomanTerms) THEN -1
     ELSE IF here THEN (IF more = -1 THEN -1 ELSE t.value + more)
     ELSE Roman(s, term + 1)

Bad == -1
Decimal(s) == FoldLeft(LAMBDA n, c : n * 10 + DigitValue(c), 0, s)
ordered_numeral(s, variant) ==
  LET cased == \A i \in DOMAIN s : s[i] \in (IF variant.lower THEN Lower ELSE Upper)
  IN CASE s = <<"#">> -> 1
       [] variant.kind = "alpha" -> IF Len(s) = 1 /\ cased THEN OrdinalIn(UpperOrder, UpperOf(s[1])) ELSE Bad
       [] variant.kind = "decimal" -> IF Len(s) <= 9 /\ \A i \in DOMAIN s : s[i] \in Digits THEN Decimal(s) ELSE Bad
       [] variant.kind = "roman" -> IF cased THEN Roman([i \in DOMAIN s |-> UpperOf(s[i])], 1) ELSE Bad
       [] OTHER -> Bad

\* The numeral at `at`: one `#`, digits, one letter, or roman letters of the
\* first one's case.
RomanLetters == {"M", "D", "C", "L", "X", "V", "I"}
NumeralEnd(line, at) ==
  LET c == At(line, at)
      alike == {r \in RomanLetters : c \in Upper} \cup {LowerOrder[OrdinalIn(UpperOrder, r)] : r \in {x \in RomanLetters : c \in Lower}}
  IN IF c = "#" THEN at + 1
     ELSE IF c \in Digits THEN Min({at + 10, Past(line, at, Digits)})
     ELSE IF c \in Letters THEN (IF c \in alike THEN Past(line, at, alike) ELSE at + 1)
     ELSE at

NoList == [width |-> 0]
Bullet(c) == [flavor |-> "bullet", bullet |-> c, variant |-> Variant("default", FALSE), delimiter |-> "none", closed |-> FALSE, start |-> 0]
list_facts_match(list, item) ==
  /\ list.flavor = item.flavor /\ list.bullet = item.bullet /\ list.variant = item.variant
  /\ list.delimiter = item.delimiter /\ list.closed = item.closed

\* What a marker must be followed by: a space, and in a paragraph more than
\* blanks.
MarkerOf(line, first, to, facts, interrupts) ==
  IF At(line, to) \notin White \/ (interrupts /\ BlankToEnd(line, to)) THEN NoList ELSE [width |-> to - first, facts |-> facts]

\* A capital and a period are an initial's unless two columns follow.
WideAfter(line, to, column) ==
  LET stop == Past(line, to, Blank)
  IN At(line, stop) \in LineEnd \/ ColumnAt(line, to, stop, column) - column >= 2

OrderedOf(line, f, context, begin, end) ==
  LET c == At(line, begin)
      delim == At(line, end)
      closed == begin > f.first
      letters == Slice(line, begin, end)
      own == Variant(IF c = "#" THEN "default" ELSE IF c \in Digits THEN "decimal"
                     ELSE IF end = begin + 1 /\ c \notin {"i", "I"} THEN "alpha" ELSE "roman", c \in Lower)
      committed == context.list
      joins == committed.flavor = "ordered" /\ ordered_numeral(letters, committed.variant) # Bad
      variant == IF joins THEN committed.variant ELSE own
      start == ordered_numeral(letters, variant)
      delimiter == IF c = "#" /\ delim = "." /\ committed.delimiter \in {"none", "default"} THEN "default"
                   ELSE IF delim = "." THEN "period" ELSE "parenthesis"
      facts == [flavor |-> "ordered", bullet |-> "", variant |-> variant, delimiter |-> delimiter, closed |-> closed, start |-> start]
      initial == end = begin + 1 /\ c \in Upper /\ delim = "."
  IN IF \/ end = begin \/ (delim # ")" /\ (closed \/ delim # ".")) \/ start = Bad
        \/ context.paragraph /\ start # 1
        \/ ~list_facts_match(committed, facts) /\ start # 1 /\ context.inside
        \/ initial /\ ~WideAfter(line, end + 1, f.column + (end + 1 - f.first))
     THEN NoList ELSE MarkerOf(line, f.first, end + 1, facts, context.paragraph)
parse_list_marker(line, f, context) ==
  LET c == At(line, f.first)
      begin == IF c = "(" THEN f.first + 1 ELSE f.first
  IN IF c \in {"*", "-", "+"} THEN MarkerOf(line, f.first, f.first + 1, Bullet(c), context.paragraph)
     ELSE OrderedOf(line, f, context, begin, NumeralEnd(line, begin))

\* The marker and the columns after it, up to four: five or more, or none
\* before the line's end, count as one.  The cursor and the item's padding.
RECURSIVE Padded(_, _, _)
Padded(line, c, most) ==
  IF most > 0 /\ At(line, c.offset) \in Blank THEN Padded(line, advance_offset(line, c, 1, TRUE), most - 1) ELSE c
consume_item_marker(line, c, f, width) ==
  LET marked == AdvanceTo(line, c, f.first + width)
      padded == Padded(line, marked, 5)
      padding == padded.column - marked.column
  IN IF padding < 1 \/ padding >= 5 \/ At(line, padded.offset) \in LineEnd
     THEN [c |-> IF padding > 0 THEN advance_offset(line, marked, 1, TRUE) ELSE marked, padding |-> width + 1]
     ELSE [c |-> padded, padding |-> width + padding]

\* A task item's marker after the list's.
task_prefix(line, c, f) ==
  IF At(line, f.first) = "[" /\ At(line, f.first + 2) = "]" /\ At(line, f.first + 3) \in Blank
  THEN [task |-> <<At(line, f.first + 1)>>, c |-> AdvanceTo(line, c, Past(line, f.first + 4, Blank))]
  ELSE [task |-> <<>>, c |-> c]

-----------------------------------------------------------------------------
\* Thematic breaks: whether the line is one from `first`, and where the scan
\* failed.
scan_thematic_break(line, first) ==
  LET c == At(line, first)
      stop == Past(line, first + 1, Blank \cup {c})
  IN IF c \notin {"*", "_", "-"} THEN [found |-> FALSE, kill |-> first]
     ELSE [found |-> At(line, stop) \in LineEnd /\ Cardinality({i \in first .. stop - 1 : At(line, i) = c}) >= 3, kill |-> stop]

\* Code blocks.
continue_code(line, c, f, code) ==
  LET close == IF f.indent <= 3 /\ At(line, f.first) = code.fence THEN Scan!scan_close_code_fence(line, f.first) ELSE 0
  IN IF ~code.fenced
     THEN [closed |-> FALSE] @@ continue_indented(line, c, f, CodeIndent, TRUE)
     ELSE IF close >= code.length THEN [closed |-> TRUE, ok |-> TRUE, c |-> advance_offset(line, c, close, FALSE)]
     ELSE [closed |-> FALSE, ok |-> TRUE, c |-> Padded(line, c, code.offset)]
Indented == [fenced |-> FALSE]
Fence(line, c, f, length) ==
  [fenced |-> TRUE, fence |-> At(line, f.first), length |-> Min({length, 255}), offset |-> f.first - c.offset,
   info |-> Trim(Slice(line, f.first + length, Len(line)))]

\* HTML blocks.
html_start(line, first, text) ==
  LET kind == Scan!scan_html_block_start(line, first)
  IN IF kind # 0 THEN kind ELSE IF text THEN 0 ELSE Scan!scan_html_block_start_7(line, first)
ends_html(line, first, kind) ==
  CASE kind = 1 -> Scan!scan_html_block_end_1(line, first) # 0
    [] kind = 2 -> Scan!scan_html_block_end_2(line, first) # 0
    [] kind = 3 -> Scan!scan_html_block_end_3(line, first) # 0
    [] kind = 4 -> Scan!scan_html_block_end_4(line, first) # 0
    [] kind = 5 -> Scan!scan_html_block_end_5(line, first) # 0
    [] OTHER -> FALSE

\* Formula blocks, by their delimiter.
Delimited(line, at, bracket) ==
  IF Slice(line, at, at + 2) = <<"$", "$">> /\ BlankToEnd(line, at + 2) THEN "dollar"
  ELSE IF Slice(line, at, at + 3) = <<"\\", "\\", bracket>> /\ BlankToEnd(line, at + 3) THEN "latex" ELSE "none"
scan_formula_block_open(line, first) == Delimited(line, first, "[")
scan_formula_block_close(line, first, delim) == Delimited(line, first, "]") = delim

\* Directive blocks: colons and a class word or a name, alone on the line.
count_colons(line, at) == Past(line, at, {":"}) - at
NameEnd == White \cup {"[", "{", ":"}
ClassEnd == White \cup {":", "{", "}"}
scan_directive_block(line, f) ==
  LET colons == count_colons(line, f.first)
      suffix == f.first + colons
      nameless == colons >= 3 /\ At(line, suffix) \in Blank
      from == IF nameless THEN Past(line, suffix, Blank) ELSE suffix
      to == IF nameless THEN To(line, from, ClassEnd) ELSE To(line, from, NameEnd)
      end == IF nameless THEN Past(line, Past(line, to, Blank), {":"}) ELSE to
  IN IF f.indent >= 4 \/ colons < 2 \/ to = from \/ ~BlankToEnd(line, end) THEN [length |-> 0]
     ELSE [length |-> colons, nameless |-> nameless, word |-> Slice(line, from, to)]
directive_closer_line(line, f, length) ==
  LET colons == count_colons(line, f.first)
  IN f.indent <= 3 /\ colons >= length /\ BlankToEnd(line, f.first + colons)

\* Specimens: `(`, a number that is not zero, `@` and a label whose hyphens
\* stand singly between its other bytes.
LabelEnd(line, at) ==
  LET stops == {i \in at .. Len(line) : /\ At(line, i) \notin Alnum \cup {"_"}
                                        /\ ~(At(line, i) = "-" /\ i > at /\ At(line, i - 1) # "-" /\ At(line, i + 1) \in Alnum \cup {"_"})}
  IN Min(stops)
parse_specimen_marker(line, first) ==
  LET at == Min({first + 10, Past(line, first + 1, Digits)})
      label == at + 1
      end == LabelEnd(line, label)
      number == Decimal(Slice(line, first + 1, at))
  IN IF \/ At(line, first) # "(" \/ (at > first + 1 /\ number = 0) \/ At(line, at) # "@"
        \/ At(line, end) # ")" \/ At(line, end + 1) \notin White
     THEN [width |-> 0]
     ELSE [width |-> end + 1 - first, start |-> number, label |-> Slice(line, label, end)]

\* Footnote definitions.
FootnoteLabel(line, first, width) ==
  LET close == Max({i \in first .. first + width - 1 : At(line, i) = "]"}) IN Slice(line, first + 2, close)
\* Pipe rows.  A cell is where it starts and ends, how far into it its text
\* starts, and the bytes of the text, trimmed; each but the first starts past
\* the pipe before it, and an empty one ends on the pipe after it.
MaxColumns == 65535 \* UINT16_MAX
CellAt(s, at, content, row_start) ==
  LET start == Max({row_start} \cup {i + 1 : i \in {j \in row_start .. at - 1 : At(s, j) = "|"}})
      text == Past(s, at, White)
      end == at + Len(Rtrim(Slice(s, at, at + content)))
  IN [start |-> start, end |-> IF content = 0 /\ start = at THEN at ELSE at + content - 1, internal |-> at - start,
      from |-> text, to |-> IF text < end THEN end ELSE text]

\* The cells of the last row of the bytes, where that starts, and whether
\* rows are all the bytes are.
RECURSIVE pipe_row_next(_, _, _, _)
pipe_row_begin(s, start) == pipe_row_next(s, start + Scan!scan_table_cell_end(s, start), start, <<>>)
pipe_row_next(s, at, start, cells) ==
  LET Row(valid, found) == [valid |-> valid, start |-> start, cells |-> found]
      Ended(next, found, ending) ==
        IF ending > 0 /\ next + ending # Len(s) THEN pipe_row_begin(s, next + ending) ELSE Row(next + ending = Len(s) /\ found # <<>>, found)
      Found(next, found, more) ==
        IF Len(found) > MaxColumns THEN Row(FALSE, found)
        ELSE IF more THEN pipe_row_next(s, next, start, found) ELSE Ended(next, found, Scan!scan_table_row_end(s, next))
      Split(content, separator) ==
        Found(at + content + separator, IF content + separator > 0 THEN Append(cells, CellAt(s, at, content, start)) ELSE cells, separator > 0)
      Scanned(content) == Split(content, Scan!scan_table_cell_end(s, at + content))
  IN IF at >= Len(s) THEN Row(at = Len(s) /\ cells # <<>>, cells) ELSE Scanned(Scan!scan_table_cell(s, at))
recognize_pipe_row(s) == pipe_row_begin(s, 0)
FlowOf(s, cell) ==
  LET left == At(s, cell.from) = ":"
      right == At(s, cell.to - 1) = ":"
  IN IF left /\ right THEN "center" ELSE IF left THEN "left" ELSE IF right THEN "right" ELSE "none"
=============================================================================
