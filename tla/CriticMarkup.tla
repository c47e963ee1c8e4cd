---------------------------- MODULE CriticMarkup ----------------------------
(***************************************************************************)
(* criticmarkup_accept and criticmarkup_reject: the CriticMarkup tokens of *)
(* a document are scanned and paired (the first pass of TokenPairing, over *)
(* a chain that holds nothing but CriticMarkup tokens), then a walk over   *)
(* the tree deletes ranges of the very buffer the tokens were scanned      *)
(* from.  The nodes keep the offsets of the original text; delta counts    *)
(* the bytes deleted so far, and every deletion is made at start - delta.  *)
(*                                                                         *)
(* One byte of plain text stands before, between and after the tokens.  A  *)
(* byte of the buffer is named by its offset in the original text.         *)
(***************************************************************************)
EXTENDS TokenPairing

\* criticmarkup_token_scan knows no other tokens
ASSUME CriticInputs == Inputs \subseteq Seq(CriticTokens \cup {"sub_div"})

VARIABLES buffer,   \* the bytes of the text_buffer
          delta,    \* the number of bytes erased so far
          walk,     \* activations of accept_token_tree and reject_token_tree
          call,     \* "accept" or "reject": the function that was called
          step      \* "tokenize", then "edit", then "done"

cmvars == <<vars, buffer, delta, walk, call, step>>
-----------------------------------------------------------------------------
Length(k) == InitialLen(src[k])
\* Token k starts after k bytes of text and all earlier tokens
Start(m) == LET before[k \in 0..NTok] == IF k = 0 THEN 0 ELSE before[k - 1] + Length(k)
            IN  Tok(m) + before[Tok(m) - 1]
TextLen == 1 + Start(2 * NTok) + Length(NTok)

CMInit ==
    /\ Init
    /\ buffer = [i \in 1..TextLen |-> i - 1]
    /\ delta = 0
    /\ walk = <<>>
    /\ call \in {"accept", "reject"}
    /\ step = "tokenize"

\* criticmarkup_tokenize: analyze_token_chain with cm_pairings
criticmarkup_tokenize ==
    /\ step = "tokenize"
    /\ VisitOpener \/ VisitSubDivider \/ VisitCloser \/ Descend \/ Skip \/ Return
    /\ UNCHANGED <<buffer, delta, walk, call, step>>

Activate(first, tree_) == [node |-> first, tree |-> tree_, closing |-> FALSE]

\* criticmarkup_accept and criticmarkup_reject start on the root of the chain
Begin ==
    /\ step = "tokenize" /\ frames = <<>>
    /\ step' = "edit"
    /\ walk' = <<Activate(2, call)>>
    /\ UNCHANGED <<vars, buffer, delta, call>>

Here == walk[Len(walk)]
w == Here.node

(* text_buffer_delete_range(buffer, start - delta, size); delta += size    *)
EraseUncounted(start, size) ==  \* mutant
    /\ buffer' = [i \in 1..(Len(buffer) - size) |->
                     IF i <= start - delta THEN buffer[i] ELSE buffer[i + size]]
    /\ delta' = delta
EraseCountingLast(start, size) ==  \* mutant
    /\ buffer' = [i \in 1..(Len(buffer) - size) |->
                     IF i <= start - delta THEN buffer[i] ELSE buffer[i + size]]
    /\ delta' = size
Erase(start, size) ==
    /\ buffer' = [i \in 1..(Len(buffer) - size) |->
                     IF i <= start - delta THEN buffer[i] ELSE buffer[i + size]]
    /\ delta' = delta + size

MoveTo(m) == walk' = [walk EXCEPT ![Len(walk)] = [@ EXCEPT !.node = m, !.closing = FALSE]]

Walking == walk # <<>> /\ w # NULL /\ ~Here.closing /\ UNCHANGED <<vars, call, step>>

UnwrappedButHighlights(tree_) ==  \* mutant
    IF tree_ = "accept" THEN {"p_add", "p_sub_add", "p_hi"} ELSE {"p_del", "p_sub_del"}
Unwrapped(tree_) == IF tree_ = "accept" THEN {"p_add", "p_sub_add", "p_hi"}
                    ELSE {"p_del", "p_sub_del", "p_hi"}
WholeButComments(tree_) ==  \* mutant
    IF tree_ = "accept" THEN {"p_del"} ELSE {"p_add", "p_sub_add", "p_com"}
Whole(tree_) == IF tree_ = "accept" THEN {"p_del", "p_com"} ELSE {"p_add", "p_sub_add", "p_com"}

\* Erase the opener and descend; both walks descend with accept_token_tree
EraseOpener ==
    /\ Walking
    /\ type[w] \in Unwrapped(Here.tree)
    /\ Erase(Start(w), len[w])
    /\ walk' = Append([walk EXCEPT ![Len(walk)] = [@ EXCEPT
                             !.node = next[w], !.closing = type[w] # "p_sub_del"]],
                      Activate(child[w], "accept"))

\* Back from the children: erase the closer of the pair
EraseCloser ==
    /\ walk # <<>> /\ w # NULL /\ Here.closing
    /\ Erase(Start(w), len[w])
    /\ MoveTo(next[w])
    /\ UNCHANGED <<vars, call, step>>

\* Erase the pair with all it contains; a deletion's closer is visited next
EraseAll ==
    /\ Walking
    /\ type[w] \in Whole(Here.tree)
    /\ Erase(Start(w), Start(next[w]) + len[next[w]] - Start(w))
    /\ MoveTo(IF type[w] = "p_del" THEN next[w] ELSE next[next[w]])

\* Accepting a substitution erases its old text, up to the divider
EraseOldText ==
    /\ Walking
    /\ type[w] = "p_sub_del" /\ Here.tree = "accept"
    /\ Erase(Start(w), Start(next[w]) - Start(w))
    /\ MoveTo(next[w])

Leave ==
    /\ Walking
    /\ type[w] \notin Unwrapped(Here.tree) \cup Whole(Here.tree) \cup {"p_sub_del"}
    /\ MoveTo(next[w])
    /\ UNCHANGED <<buffer, delta>>

EndOfChain ==
    /\ walk # <<>> /\ w = NULL
    /\ walk' = SubSeq(walk, 1, Len(walk) - 1)
    /\ step' = IF Len(walk) = 1 THEN "done" ELSE step
    /\ UNCHANGED <<vars, buffer, delta, call>>

CMNext ==
    \/ criticmarkup_tokenize \/ Begin
    \/ EraseOpener \/ EraseCloser \/ EraseAll \/ EraseOldText \/ Leave \/ EndOfChain

CMSpec == CMInit /\ [][CMNext]_cmvars
-----------------------------------------------------------------------------
(* Properties.                                                             *)

Bytes == 0..(TextLen - 1)
Of(m) == Start(m)..(Start(m) + len[m] - 1)

\* The bytes left are bytes of the document in their old order, and delta is
\* what is missing: memmove in text_buffer_delete_range never runs past the end.
CMTypeOK ==
    /\ call \in {"accept", "reject"} /\ step \in {"tokenize", "edit", "done"}
    /\ delta \in 0..TextLen /\ Len(buffer) = TextLen - delta
    /\ \A i \in 1..Len(buffer) : buffer[i] \in Bytes
    /\ \A i \in 1..(Len(buffer) - 1) : buffer[i] < buffer[i + 1]

\* The offsets of the nodes are stale from the first deletion on.  Corrected by
\* delta, the offset of a node about to be erased still finds that node's
\* first byte in the edited buffer.
Erasing == Here.closing \/ type[w] \in Unwrapped(Here.tree) \cup Whole(Here.tree) \cup {"p_sub_del"}
StaleOffsetsCorrected ==
    walk # <<>> /\ w # NULL /\ Erasing =>
        /\ Start(w) - delta + 1 \in 1..Len(buffer)
        /\ buffer[Start(w) - delta + 1] = Start(w)

\* The pairs of CriticMarkup tokens, and the bytes each kind of change stands for
Change(t) == {m \in Nodes : type[m] = t}
Between(m) == Start(m)..(Start(next[m]) + len[next[m]] - 1)
Markers(types) == UNION {Of(m) \cup Of(next[m]) : m \in UNION {Change(t) : t \in types}}
AllOf(types) == UNION {Between(m) : m \in UNION {Change(t) : t \in types}}
OldText == UNION {Start(m)..(Start(next[m]) - 1) : m \in Change("p_sub_del")}

Accepted == Bytes \ (Markers({"p_add", "p_sub_add", "p_hi"})
                     \cup AllOf({"p_del", "p_com"}) \cup OldText)
Rejected == Bytes \ (Markers({"p_del", "p_hi"}) \cup (UNION {Of(m) : m \in Change("p_sub_del")})
                     \cup AllOf({"p_add", "p_sub_add", "p_com"}))
Remaining == {buffer[i] : i \in 1..Len(buffer)}

\* Accepting leaves exactly the "new" document: additions, replacements and
\* highlighted text without their markers; no deletion, comment or old text.
AcceptGivesNewText == step = "done" /\ call = "accept" => Remaining = Accepted

\* Rejecting gives the "original" document: no byte of an addition, a
\* replacement or a comment is left, and no deleted byte is missing.
RejectGivesOriginalText == step = "done" /\ call = "reject" => Remaining = Rejected

\* As long as no change lies inside a deletion, an old text or a highlight,
\* rejecting does give the original document.
Nested == \E o, m \in Nodes : /\ type[o] \in {"p_del", "p_sub_del", "p_hi"}
                              /\ type[m] \in PairTypes
                              /\ Start(o) < Start(m) /\ Start(m) < Start(next[o])
RejectOfFlatChanges == step = "done" /\ call = "reject" /\ ~Nested => Remaining = Rejected
=============================================================================
