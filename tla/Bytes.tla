------------------------------- MODULE Bytes -------------------------------
(***************************************************************************)
(* Content as the scanners read it: a sequence of one-character strings,   *)
(* addressed from 0 as the C code addresses it, with the byte classes of   *)
(* core/markdown_core_ctype.h over the ASCII characters the models use.    *)
(* A position at or past the end reads as "", which is no byte.            *)
(***************************************************************************)
EXTENDS Integers, Sequences, FiniteSets, FiniteSetsExt, SequencesExt

At(s, i) == IF 0 <= i /\ i < Len(s) THEN s[i + 1] ELSE ""

Slice(s, from, to) == SubSeq(s, from + 1, IF to < Len(s) THEN to ELSE Len(s))

\* The backquote has no one-character string: it is named.
Tick == "tick"

Blank == {" ", "\t"}
LineEnd == {"\n"}
White == Blank \cup LineEnd
Lower == {"a", "b", "c", "d", "e", "f", "g", "h", "i", "j", "k", "l", "m", "n", "o", "p", "q", "r",
  "s", "t", "u", "v", "w", "x", "y", "z"}
Upper == {"A", "B", "C", "D", "E", "F", "G", "H", "I", "J", "K", "L", "M", "N", "O", "P", "Q", "R",
  "S", "T", "U", "V", "W", "X", "Y", "Z"}
Letters == Lower \cup Upper
Digits == {"0", "1", "2", "3", "4", "5", "6", "7", "8", "9"}
Punct == {"*", "_", "=", "+", "~", "^", Tick, "\\", "[", "]", "(", ")", "!", "{", "}", "#", ".",
          "-", "'", "\"", "<", ">", "&", ";", ":", "|", "$", "@", "%", ",", "/", "?"}
Alnum == Letters \cup Digits

\* The offset of the first byte at or past `i` outside `class`, the end when
\* there is none.
Past(s, i, class) ==
  LET out == {j \in i .. Len(s) - 1 : At(s, j) \notin class} IN IF out = {} THEN Len(s) ELSE Min(out)

\* The offset of the first byte at or past `i` in `class`.
To(s, i, class) ==
  LET in == {j \in i .. Len(s) - 1 : At(s, j) \in class} IN IF in = {} THEN Len(s) ELSE Min(in)

\* Spaces and tabs with up to one line ending among them.
SkipSpnl(s, i) ==
  LET a == Past(s, i, Blank) IN IF At(s, a) \in LineEnd THEN Past(s, a + 1, Blank) ELSE a

\* Nothing but spaces and tabs up to a line ending or the end.
BlankToEnd(s, i) == At(s, Past(s, i, Blank)) \in LineEnd \cup {""}

Rtrim(s) ==
  LET solid == {j \in 1 .. Len(s) : s[j] \notin White} IN SubSeq(s, 1, IF solid = {} THEN 0 ELSE Max(solid))

Trim(s) == Rtrim(Slice(s, Past(s, 0, White), Len(s)))

\* A backslash before punctuation takes the byte after it along.
Escaped(s, p) == At(s, p) = "\\" /\ At(s, p + 1) \in Punct

\* A scan that steps over escapes to the first unescaped byte of `class`.
RECURSIVE ToUnescaped(_, _, _)
ToUnescaped(s, i, class) ==
  IF i >= Len(s) \/ (At(s, i) \in class /\ ~Escaped(s, i)) THEN i
  ELSE ToUnescaped(s, i + (IF Escaped(s, i) THEN 2 ELSE 1), class)
=============================================================================
