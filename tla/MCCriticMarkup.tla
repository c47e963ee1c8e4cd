--------------------------- MODULE MCCriticMarkup ---------------------------
(* Documents for CriticMarkup: sequences of CriticMarkup tokens.           *)
EXTENDS CriticMarkup

Changes == {"add_open", "add_close", "del_open", "del_close", "com_open", "com_close",
            "hi_open", "hi_close", "sub_open", "sub_div", "sub_close"}
Substitutions == {"sub_open", "sub_div", "sub_close", "add_open", "add_close"}
Documents == UNION {[1..k -> Changes] : k \in 1..3} \cup [1..5 -> Substitutions]
             \cup [1..5 -> {"del_open", "del_close", "hi_open", "hi_close"}]
Short == [1..4 -> {"del_open", "del_close", "add_open", "add_close"}]
=============================================================================
