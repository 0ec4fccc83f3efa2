----------------------------- MODULE MCSettling -----------------------------
(***************************************************************************)
(* Families of contents, each a few pieces around one kind of construct,   *)
(* so that every order of them up to the family's bound is read.           *)
(***************************************************************************)
EXTENDS Settling

Fam(pieces, max) == [pieces |-> pieces, before |-> {}, later |-> {}, waits |-> FALSE, max |-> max]
Reference == <<"reference", <<"a">>>>
Footnote == <<"footnote", <<"a">>>>

Emphasis == Fam({<<"*">>, <<"_">>, <<"a">>, <<" ">>}, 5)
Words == Fam({<<"~">>, <<"^">>, <<"a">>, <<"\\", " ">>, <<" ">>}, 5)
Pairs2 == Fam({<<"=", "=">>, <<"+", "+">>, <<"=">>, <<"a">>, <<"\n">>}, 6)
Lines == [Fam({<<"\n", "a">>, <<"a">>, <<"*">>, <<"\n", "|">>}, 5) EXCEPT !.waits = TRUE]
Links == [Fam({<<"[">>, <<"]">>, <<"(", "a", ")">>, <<"a">>, <<"{", ".", "a", "}">>}, 6) EXCEPT !.later = {Reference}]
Images == Fam({<<"!", "[">>, <<"a">>, <<"|", "1">>, <<"]", "(", "a", ")">>}, 8)
Notes == [Fam({<<"[">>, <<"]">>, <<"^">>, <<"a">>}, 5) EXCEPT !.before = {Reference}, !.later = {Footnote}]
Ticks == Fam({<<Tick>>, <<"a">>}, 7)
Codes == Fam({<<Tick>>, <<"a">>, <<"%">>, <<"$">>, <<"\\", "\\">>}, 5)
Html == Fam({<<"<">>, <<">">>, <<"<", "a">>, <<"<", "!", "-", "-">>, <<"-", "-", ">">>}, 7)
Auto == Fam({<<"w", "w", "w", ".">>, <<"a", ".", "b">>, <<"@", "a">>, <<"_", ".">>, <<":">>}, 8)
Marks == Fam({<<"#">>, <<"a">>, <<":">>, <<"[", "a", "]">>, <<"[", "[">>, <<"]", "]">>}, 5)
Entity == Fam({<<"&">>, <<"a", "m", "p">>, <<"#", "1">>, <<";">>, <<" ", "\n">>, <<"\\">>}, 5)
MCFamilies == {Emphasis, Words, Pairs2, Lines, Links, Images, Notes, Ticks, Codes, Html, Auto, Marks, Entity}
=============================================================================
