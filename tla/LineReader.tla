------------------------------ MODULE LineReader ------------------------------
(* What the block parser promises about the lines it is given: it reads    *)
(* them from the first to the last, in runs without a gap; each goes into a *)
(* block or is given up, and what was read never becomes unread.           *)
EXTENDS Naturals

VARIABLE place  \* line -> where it is: "unread", in a "block" or "lost"

Unread == {i \in DOMAIN place : place[i] = "unread"}

Init == \A i \in DOMAIN place : place[i] = "unread"

\* The unread lines up to last are read; a line read earlier may be given up
ReadTo(last) ==
    /\ place' \in [DOMAIN place -> {"unread", "block", "lost"}]
    /\ \A i \in DOMAIN place :
          CASE place[i] = "unread" -> (place'[i] = "unread") <=> (i > last)
            [] place[i] = "block" -> place'[i] \in {"block", "lost"}
            [] place[i] = "lost" -> place'[i] = "lost"

Read == \E last \in Unread : ReadTo(last)

Spec == Init /\ [][Read]_place
FairSpec == Spec /\ WF_place(Read)
=============================================================================
