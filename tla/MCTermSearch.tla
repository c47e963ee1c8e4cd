---------------------------- MODULE MCTermSearch ----------------------------
(***************************************************************************)
(* Two terms of at most three letters, or of two words, and texts of five  *)
(* characters.  "b" is inside "ab_a" and a word of its own there.          *)
(***************************************************************************)
EXTENDS TermSearch

Letters == {"a", "b"}
Space == "_"
Terms == UNION {[1..k -> Letters] : k \in 0..3} \cup {<<"a", Space, "b">>, <<"a", "b", Space, "a">>}
MCDictionaries == {<<<<v, "abbr">>, <<w, "glos">>>> : v \in Terms, w \in Terms}
MCTexts == {t \in [1..5 -> Letters \cup {Space}] : t[1] = "a"}
=============================================================================
