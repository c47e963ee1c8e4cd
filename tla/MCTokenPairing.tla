--------------------------- MODULE MCTokenPairing ---------------------------
(* Texts for TokenPairing: all sequences of up to a few kinds that the     *)
(* token scanner can produce, over alphabets that bring together the kinds *)
(* whose rules interact.                                                   *)
EXTENDS TokenPairing

\* Kinds the scanner would have merged into one token are never neighbours
Merges(a, b) ==
    \/ {a, b} \subseteq {"bt1", "bt2"}
    \/ {a, b} \subseteq {"word", "qx"}
    \/ a = b /\ a \in {"ws", "nl", "dollar"}
    \/ a = "brl" /\ b = "brr"
    \/ a = "ws" /\ b = "nl"

\* A block neither starts with whitespace nor ends in an empty line, and
\* brackets around nothing but whitespace are one token as well
Scannable(s) ==
    /\ s[1] \notin {"ws", "nl"}
    /\ SubSeq(s, Len(s) - 1, Len(s)) # <<"nl", "ws">>
    /\ \A i \in 1..(Len(s) - 1) : ~Merges(s[i], s[i + 1])
    /\ \A i \in 1..(Len(s) - 2) : SubSeq(s, i, i + 2) # <<"brl", "ws", "brr">>

Texts(alphabet, size) == {s \in [1..size -> alphabet] : Scannable(s)}

BracketTexts == Texts({"brl", "brr", "sup", "qx", "bt1"}, 5)
                \cup Texts({"brl", "brr", "parl", "parr"}, 5)
                \cup Texts({"bt1", "bt2", "brl", "alt"}, 5)
EmphasisTexts == Texts({"star", "word", "ws", "brl", "brr"}, 5)
                 \cup Texts({"star", "ul", "word", "ws"}, 4)
SpanTexts == Texts({"star", "sup", "word", "dquote", "bt2", "alt"}, 4)
             \cup Texts({"dollar", "sup", "word", "ws"}, 5)
CriticTexts == Texts({"sub_open", "sub_div", "sub_close", "add_open", "add_close", "brl"}, 4)
               \cup Texts({"sub_open", "sub_div", "sub_close", "add_open", "add_close", "star"}, 4)

ShortCodeTexts == Texts({"bt1", "ws", "nl", "word"}, 5)
AllTexts == BracketTexts \cup EmphasisTexts \cup SpanTexts \cup CriticTexts \cup ShortCodeTexts
=============================================================================
