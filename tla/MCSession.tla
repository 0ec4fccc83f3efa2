------------------------------- MODULE MCSession -------------------------------
(***************************************************************************)
(* The session on texts of up to four lines: a definition, a use, and one  *)
(* that goes on with the child before it.                                  *)
(***************************************************************************)
EXTENDS Session

CONSTANTS def, use, more

MCInserts == {<< >>, <<use>>, <<def, more>>}
===============================================================================
