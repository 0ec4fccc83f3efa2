------------------------------ MODULE Scanners ------------------------------
(***************************************************************************)
(* The lexical scanners of the elements (elements/*_scanners.c, generated  *)
(* from *_scanners.re).  A regular expression is a record; `Ends` is the   *)
(* set of offsets its matches end at, and a scanner answers the length of  *)
(* the longest, 0 for none.  A trailing context is matched and not counted.*)
(* Case-insensitive literals are written in lower case, which is the case  *)
(* the modelled content uses.                                              *)
(***************************************************************************)
EXTENDS Bytes

C(set) == [op |-> "in", set |-> set]
N(set) == [op |-> "out", set |-> set]
L(chars) == [op |-> "word", word |-> chars]
Cat(parts) == [op |-> "cat", parts |-> parts]
Alt(parts) == [op |-> "alt", parts |-> parts]
Star(re) == [op |-> "star", re |-> re]
Plus(re) == Cat(<<re, Star(re)>>)
Opt(re) == Alt(<<re, L(<<>>)>>)
\* At least `lo` and at most `hi` bytes of a class.
Run(set, lo, hi) == [op |-> "run", set |-> set, lo |-> lo, hi |-> hi]
Many == 1000

RECURSIVE Ends(_, _, _)
Ends(re, s, from) ==
  CASE re.op = "in" -> {i + 1 : i \in {j \in from : At(s, j) \in re.set}}
    [] re.op = "out" -> {i + 1 : i \in {j \in from : j < Len(s) /\ At(s, j) \notin re.set}}
    [] re.op = "word" -> {i + Len(re.word) : i \in {j \in from : Slice(s, j, j + Len(re.word)) = re.word}}
    [] re.op = "run" -> UNION {i + re.lo .. Min({i + re.hi, Past(s, i, re.set)}) : i \in from}
    [] re.op = "alt" -> UNION {Ends(re.parts[k], s, from) : k \in DOMAIN re.parts}
    [] re.op = "cat" -> FoldLeft(LAMBDA at, part : Ends(part, s, at), from, re.parts)
    [] OTHER -> LET more == Ends(re.re, s, from) \ from
                IN IF more = {} THEN from ELSE from \cup Ends(re, s, from \cup more)

Longest(re, s, i) == LET ends == Ends(re, s, {i}) IN IF ends = {} THEN 0 ELSE Max(ends) - i
Matches(re, s, i) == Ends(re, s, {i}) # {}
\* The longest match of `re` that `context` follows.
Before(re, context, s, i) ==
  LET ends == {e \in Ends(re, s, {i}) : Matches(context, s, e)} IN IF ends = {} THEN 0 ELSE Max(ends) - i

-----------------------------------------------------------------------------
blank == Star(C(Blank))
newline == C(LineEnd)
escaped_char == Cat(<<C({"\\"}), C(Punct)>>)
spnl == Cat(<<blank, Opt(Cat(<<newline, blank>>))>>)
spnl1 == Alt(<<Cat(<<C(Blank), spnl>>), Cat(<<newline, blank>>)>>)
line_rest == N(LineEnd)

-----------------------------------------------------------------------------
\* Autolinks.
scheme == Cat(<<C(Letters), Run(Alnum \cup {".", "+", "-"}, 1, 31)>>)
scan_scheme(s, i) == Longest(Cat(<<scheme, C({":"})>>), s, i)
scan_autolink_uri(s, i) ==
  Longest(Cat(<<scheme, C({":"}), Star(N(White \cup {"<", ">"})), C({">"})>>), s, i)
label_of_host == Cat(<<C(Alnum), Opt(Cat(<<Run(Alnum \cup {"-"}, 0, 61), C(Alnum)>>))>>)
LocalPart == Alnum \cup (Punct \ {"(", ")", ",", ":", ";", "<", ">", "@", "[", "\\", "]", "\""})
scan_autolink_email(s, i) ==
  Longest(Cat(<<Plus(C(LocalPart)), C({"@"}), label_of_host, Star(Cat(<<C({"."}), label_of_host>>)), C({">"})>>), s, i)

-----------------------------------------------------------------------------
\* Fences, headings and footnotes: a line ends with its line ending.
scan_open_code_fence(s, i) ==
  Max({Before(Run({Tick}, 3, Many), Cat(<<Star(N(LineEnd \cup {Tick})), newline>>), s, i),
       Before(Run({"~"}, 3, Many), Cat(<<Star(line_rest), newline>>), s, i)})
scan_close_code_fence(s, i) ==
  Max({Before(Run({c}, 3, Many), Cat(<<blank, newline>>), s, i) : c \in {Tick, "~"}})
scan_atx_heading_start(s, i) == Longest(Cat(<<Run({"#"}, 1, 6), Alt(<<Plus(C(Blank)), newline>>)>>), s, i)
scan_setext_heading_line(s, i) ==
  IF Matches(Cat(<<Plus(C({"="})), blank, newline>>), s, i) THEN 1
  ELSE IF Matches(Cat(<<Plus(C({"-"})), blank, newline>>), s, i) THEN 2 ELSE 0
scan_footnote_definition(s, i) ==
  Longest(Cat(<<L(<<"[", "^">>), Plus(N(White \cup {"]"})), L(<<"]", ":">>), blank>>), s, i)

-----------------------------------------------------------------------------
\* Formulas.
scan_formula_dollar_inline_open(s, i) == Longest(L(<<"$">>), s, i)
scan_formula_dollar_backtick_open(s, i) == Longest(L(<<"$", Tick>>), s, i)
scan_formula_dollar_display_open(s, i) == Longest(L(<<"$", "$">>), s, i)
scan_formula_latex_backslash_inline_open(s, i) == Longest(L(<<"\\", "\\", "(">>), s, i)
scan_formula_latex_backslash_display_open(s, i) == Longest(L(<<"\\", "\\", "[">>), s, i)

-----------------------------------------------------------------------------
\* HTML.
tagname == Cat(<<C(Letters), Star(C(Alnum \cup {"-"}))>>)
attributevalue ==
  Alt(<<Plus(N(White \cup {"\"", "'", "=", "<", ">", Tick})), Cat(<<C({"'"}), Star(N({"'"})), C({"'"})>>),
        Cat(<<C({"\""}), Star(N({"\""})), C({"\""})>>)>>)
attribute ==
  Cat(<<spnl1, C(Letters \cup {"_", ":"}), Star(C(Alnum \cup {":", ".", "_", "-"})),
        Opt(Cat(<<spnl, C({"="}), spnl, attributevalue>>))>>)
opentag == Cat(<<tagname, Star(attribute), spnl, Opt(C({"/"})), C({">"})>>)
closetag == Cat(<<C({"/"}), tagname, spnl, C({">"})>>)
htmltag == Alt(<<opentag, closetag>>)
scan_html_tag(s, i) == Longest(htmltag, s, i)
scan_html_pi(s, i) == Longest(Plus(Alt(<<Plus(N({"?", ">"})), Cat(<<C({"?"}), N({">"})>>), C({">"})>>)), s, i)
scan_html_declaration(s, i) == Longest(Cat(<<Plus(C(Letters)), Star(N({">"}))>>), s, i)
CData == <<"C", "D", "A", "T", "A", "[">>
scan_html_cdata(s, i) ==
  Longest(Cat(<<L(CData), Star(Alt(<<Plus(N({"]"})), Cat(<<C({"]"}), N({"]"})>>),
                                     Cat(<<L(<<"]", "]">>), N({">"})>>)>>))>>), s, i)
scan_html_comment(s, i) ==
  Longest(Cat(<<L(<<"-", "-">>), Star(Alt(<<Plus(N({"-"})), Cat(<<C({"-"}), N({"-"})>>),
                                            Cat(<<L(<<"-", "-">>), N({">"})>>)>>)), L(<<"-", "-", ">">>)>>), s, i)

raw_text_tag == Alt(<<L(<<"p", "r", "e">>), L(<<"s", "t", "y", "l", "e">>), L(<<"s", "c", "r", "i", "p", "t">>),
                      L(<<"t", "e", "x", "t", "a", "r", "e", "a">>)>>)
\* Two of the block tag names: the others are read the same way.
block_tag_name == Alt(<<L(<<"d", "i", "v">>), L(<<"p">>)>>)
\* The kind of HTML block a line starts, 0 for none.
scan_html_block_start(s, i) ==
  IF Matches(Cat(<<L(<<"<">>), raw_text_tag, C(White \cup {">"})>>), s, i) THEN 1
  ELSE IF Matches(L(<<"<", "!", "-", "-">>), s, i) THEN 2
  ELSE IF Matches(L(<<"<", "?">>), s, i) THEN 3
  ELSE IF Matches(Cat(<<L(<<"<", "!">>), C(Letters)>>), s, i) THEN 4
  ELSE IF Matches(L(<<"<", "!", "[">> \o CData), s, i) THEN 5
  ELSE IF Matches(Cat(<<L(<<"<">>), Opt(L(<<"/">>)), block_tag_name,
                        Alt(<<C(White), Cat(<<Opt(L(<<"/">>)), L(<<">">>)>>)>>)>>), s, i) THEN 6 ELSE 0
scan_html_block_start_7(s, i) == IF Matches(Cat(<<L(<<"<">>), htmltag, blank, newline>>), s, i) THEN 7 ELSE 0
EndsWith(re, s, i) == Longest(Cat(<<Star(line_rest), re>>), s, i)
scan_html_block_end_1(s, i) == EndsWith(Cat(<<L(<<"<", "/">>), raw_text_tag, L(<<">">>)>>), s, i)
scan_html_block_end_2(s, i) == EndsWith(L(<<"-", "-", ">">>), s, i)
scan_html_block_end_3(s, i) == EndsWith(L(<<"?", ">">>), s, i)
scan_html_block_end_4(s, i) == EndsWith(L(<<">">>), s, i)
scan_html_block_end_5(s, i) == EndsWith(L(<<"]", "]", ">">>), s, i)

-----------------------------------------------------------------------------
\* Character references and link titles.
Hex == Digits \cup {"a", "b", "c", "d", "e", "f", "A", "B", "C", "D", "E", "F"}
scan_entity(s, i) ==
  Longest(Cat(<<C({"&"}),
                Alt(<<Cat(<<C({"#"}), Alt(<<Cat(<<C({"x", "X"}), Run(Hex, 1, 6)>>), Run(Digits, 1, 7)>>)>>),
                      Cat(<<C(Letters), Run(Alnum, 1, 31)>>)>>), C({";"})>>), s, i)
Quoted(open, close, inner) == Cat(<<C({open}), Star(Alt(<<escaped_char, N(inner)>>)), C({close})>>)
scan_link_title(s, i) ==
  Longest(Alt(<<Quoted("\"", "\"", {"\""}), Quoted("'", "'", {"'"}), Quoted("(", ")", {"(", ")"})>>), s, i)

-----------------------------------------------------------------------------
\* Tables.
table_marker == Cat(<<blank, Opt(C({":"})), Plus(C({"-"})), Opt(C({":"})), blank>>)
scan_table_start(s, i) ==
  Longest(Cat(<<Opt(C({"|"})), table_marker, Star(Cat(<<C({"|"}), table_marker>>)), Opt(C({"|"})), blank, newline>>), s, i)
scan_table_cell(s, i) == Longest(Plus(Alt(<<escaped_char, N(LineEnd \cup {"|"})>>)), s, i)
scan_table_cell_end(s, i) == Longest(Cat(<<C({"|"}), blank>>), s, i)
scan_table_row_end(s, i) == Longest(Cat(<<blank, newline>>), s, i)
\* The next run of dashes of a simple table's rule: where it starts and ends,
\* none when the line ends, and a failure at any other byte.
scan_table_dash(s, i) ==
  LET from == Past(s, i, Blank)
  IN IF from >= Len(s) THEN [found |-> 0, from |-> from, to |-> from]
     ELSE IF At(s, from) = "-" THEN [found |-> 1, from |-> from, to |-> Past(s, from, {"-"})]
     ELSE [found |-> -1, from |-> from, to |-> from]
\* A grid table's horizontal: "-" or "=" when the whole line is one.
horizontal(c) ==
  Cat(<<L(<<"+">>), Opt(C({":"})), Star(C({"+"})), C({c}), Star(C({c, "+"})), Opt(C({":"})), L(<<"+">>)>>)
scan_table_horizontal(s, i) ==
  LET whole == {c \in {"-", "="} : Len(s) \in Ends(horizontal(c), s, {i})}
  IN IF whole = {} THEN "" ELSE CHOOSE c \in whole : TRUE
=============================================================================
