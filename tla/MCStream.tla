------------------------------ MODULE MCStream ------------------------------
(***************************************************************************)
(* Families of texts, each every order of a few pieces up to a number.     *)
(***************************************************************************)
EXTENDS Stream

Fam(pieces, max) == [pieces |-> pieces, max |-> max]
Nl == <<"\n">>
Lists == Fam({<<"-", " ">>, <<"a">>, Nl, <<" ", " ">>}, 6)
Tabs == Fam({<<"-">>, <<"\t">>, <<"a">>, Nl}, 5)
Ordered == Fam({<<"1", ".", " ">>, <<"i", ")", " ">>, <<"a">>, Nl, <<" ", " ", " ">>}, 4)
Quotes == Fam({<<">">>, <<" ">>, <<"a">>, Nl}, 5)
Titles == Fam({<<">", " ">>, <<"[", "!", "n", "]">>, <<"a">>, Nl}, 5)
Breaks == Fam({<<"*", " ">>, <<"*", "*">>, <<"a">>, Nl}, 5)
Fences == Fam({<<"~", "~", "~">>, <<"a">>, Nl, <<">", " ">>}, 4)
Indents == Fam({<<" ", " ", " ", " ">>, <<"a">>, Nl, <<"-", " ">>}, 5)
Headings == Fam({<<"#", " ">>, <<"a">>, Nl, <<"=">>, <<"-", " ">>}, 4)
References == Fam({<<"[", "a", "]", ":">>, <<"b">>, Nl, <<"=">>}, 5)
HtmlBlocks == Fam({<<"<", "p", "r", "e", ">">>, <<"<", "/", "p", "r", "e", ">">>, <<"a">>, Nl}, 5)
Directives == Fam({<<":", ":", ":">>, <<":", ":">>, <<"a">>, Nl, <<">", " ">>}, 4)
Formulas == Fam({<<"$", "$">>, <<"a">>, Nl, <<">">>}, 5)
Definitions == Fam({<<"[", "^", "a", "]", ":">>, <<"(", "@", "a", ")", " ">>, Nl, <<"b">>, <<" ", " ", " ", " ">>}, 4)
Returns == Fam({<<"\r">>, Nl, <<"a">>, <<"-", " ">>}, 5)
Tables == Fam({<<"a", "|", "b">>, <<"|", "-", "|", "-">>, Nl, <<"a">>, <<">", " ">>}, 5)
Terms == Fam({<<"a">>, <<"\n", ":", " ">>, Nl, <<" ", " ", "c">>}, 5)
MCFamilies == {Lists, Tabs, Ordered, Quotes, Titles, Breaks, Fences, Indents, Headings, References, HtmlBlocks, Directives,
               Formulas, Definitions, Returns, Tables, Terms}
=============================================================================
