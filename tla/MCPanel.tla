------------------------------- MODULE MCPanel -------------------------------
(* A reply with a word, a space and single characters that is wider than    *)
(* the row, one with a line break, and a full text that differs.            *)
EXTENDS Panel

MCReplies == { <<"a", " ", "X", "Y">>, <<"X", "\n">> }

MCAltered == { <<"a", "Y">> }
=============================================================================
