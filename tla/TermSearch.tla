----------------------------- MODULE TermSearch -----------------------------
(***************************************************************************)
(* Abbreviations and glossary terms are found in the text of a parsed      *)
(* document (global_search): the terms are inserted into an Aho-Corasick   *)
(* trie, failure links are added, each text node of the tree is searched,  *)
(* and search_text splits it at the matches.  The chain that is split is   *)
(* the one recursive_search is walking, so that the remainders of a split  *)
(* are searched again.                                                     *)
(*                                                                         *)
(* Offsets count from 0, as in the code: the character at offset i of text *)
(* is text[i + 1].                                                         *)
(***************************************************************************)
EXTENDS Integers, Sequences, FiniteSetsExt

CONSTANTS Chars,         \* the characters that terms and texts are made of
          WordEnds,      \* of these, whitespace, line endings and punctuation
          Dictionaries,  \* lists of terms, in the order of the two hashes
          Texts,         \* the texts of a text node
          Modes          \* the options of ac_prepare and ac_search

ASSUME CharsAssumption == WordEnds \subseteq Chars
ASSUME DictionariesAssumption == Dictionaries \subseteq Seq(Seq(Chars) \X {"abbr", "glos"})
ASSUME TextsAssumption == Texts \subseteq Seq(Chars)
ASSUME ModesAssumption == Modes \subseteq {"all", "longest"}

VARIABLES dict,      \* the terms: <<word, type>>, abbreviations first
          text,
          options,   \* "all" (0) or "longest" (AC_LEFTMOST | AC_LONGEST)
          trie,      \* a->node: state -> its type and ac_fail
          inserted,  \* how many terms are in the trie
          stage,     \* what is being done
          chain,     \* the nodes: a text, split more and more, and what is behind it
          here,      \* the node at which recursive_search is
          n,         \* the node that search_text splits next
          s,         \* the state of ac_search
          counter,   \* its position in the text
          matches,   \* the linked list that it returns
          walker     \* the next match that search_text looks at

vars == <<dict, text, options, trie, inserted, stage, chain, here, n, s, counter, matches, walker>>

Types == {"abbr", "glos"}
-----------------------------------------------------------------------------
(* The trie: a state is the word that leads to it, <<>> is the root         *)

States == DOMAIN trie
IsMatch(w) == trie[w].type # "none"
Prefix(w, k) == SubSeq(w, 1, k)
Suffix(w, k) == SubSeq(w, k, Len(w))

\* A word that is inserted again gets the type of its last insertion
ac_insert_node(word, type) ==
    [w \in States \cup {Prefix(word, k) : k \in 0..Len(word)} |->
        IF w = word THEN [type |-> type, ac_fail |-> <<>>]
        ELSE IF w \in States THEN trie[w]
        ELSE [type |-> "none", ac_fail |-> <<>>]]

\* The length of the longest proper prefix of a state that is a match
LastMatch(w) == Max({0} \cup {k \in 1..(Len(w) - 1) : IsMatch(Prefix(w, k))})

\* Where the suffixes begin that a state may fail to: never the state itself,
\* and past the last match and one more character unless all matches are wanted
FirstSuffix(w) == 2 + (IF options = "all" THEN 0 ELSE LastMatch(w))

\* ac_fail: the longest of these suffixes that is a state; a match does not
\* fail unless all matches are wanted
Fail(w) ==
    LET kept == {j \in FirstSuffix(w)..Len(w) : Suffix(w, j) \in States}
    IN  IF kept = {} \/ (options # "all" /\ IsMatch(w)) THEN <<>> ELSE Suffix(w, Min(kept))
FailFromMatches(w) ==  \* mutant
    LET kept == {j \in FirstSuffix(w)..Len(w) : Suffix(w, j) \in States}
    IN  IF kept = {} THEN <<>> ELSE Suffix(w, Min(kept))
FailToShortest(w) ==  \* mutant
    LET kept == {j \in FirstSuffix(w)..Len(w) : Suffix(w, j) \in States}
    IN  IF kept = {} \/ (options # "all" /\ IsMatch(w)) THEN <<>> ELSE Suffix(w, Max(kept))
trie_node_prepare(w) == Fail(w)
-----------------------------------------------------------------------------
(* ac_search                                                               *)

\* From a state along failure links, until character c can be read
Fallen(c) ==
    LET fall[w \in States] ==
            IF w = <<>> \/ Append(w, c) \in States THEN w ELSE fall[trie[w].ac_fail]
    IN  fall

\* The state after it
NextState(w, c) ==
    LET from == Fallen(c)[w]
    IN  IF Append(from, c) \in States THEN Append(from, c) ELSE <<>>

\* The matches that end where a state was reached, at offset end
EndingAt(end) ==
    LET met[w \in States] ==
            IF w = <<>> THEN <<>>
            ELSE (IF IsMatch(w)
                  THEN <<[start |-> end - Len(w), len |-> Len(w), type |-> trie[w].type]>>
                  ELSE <<>>) \o met[trie[w].ac_fail]
    IN  met

\* A match is appended, or replaces the last one if it has the same start
match_append(list, m) ==
    IF options = "longest" /\ list # <<>> /\ list[Len(list)].start = m.start
    THEN [list EXCEPT ![Len(list)] = m]
    ELSE Append(list, m)

AddAll(list, found) ==
    LET added[k \in 0..Len(found)] ==
            IF k = 0 THEN list ELSE match_append(added[k - 1], found[k])
    IN  added[Len(found)]
-----------------------------------------------------------------------------
Spread(t, behind) == <<[start |-> 0, len |-> Len(t), type |-> "text"]>>
                     \o (IF behind THEN <<[start |-> Len(t), len |-> 1, type |-> "other"]>> ELSE <<>>)

Init ==
    /\ dict \in Dictionaries /\ text \in Texts /\ options \in Modes
    /\ trie = [w \in {<<>>} |-> [type |-> "none", ac_fail |-> <<>>]]
    /\ inserted = 0
    /\ stage = "insert"
    /\ \E behind \in BOOLEAN : chain = Spread(text, behind)
    /\ here = 1 /\ n = 0
    /\ s = <<>> /\ counter = 0
    /\ matches = <<>> /\ walker = 0

\* An empty term is not inserted
ac_insert ==
    /\ stage = "insert" /\ inserted < Len(dict)
    /\ LET term == dict[inserted + 1]
       IN  trie' = IF term[1] = <<>> THEN trie ELSE ac_insert_node(term[1], term[2])
    /\ inserted' = inserted + 1
    /\ UNCHANGED <<dict, text, options, stage, chain, here, n, s, counter, matches, walker>>

ac_prepare ==
    /\ stage = "insert" /\ inserted = Len(dict)
    /\ trie' = [w \in States |-> [trie[w] EXCEPT !.ac_fail = trie_node_prepare(w)]]
    /\ stage' = "visit"
    /\ UNCHANGED <<dict, text, options, inserted, chain, here, n, s, counter, matches, walker>>

\* recursive_search comes to a text node: ac_search(a, text, n->start, n->len)
Visit ==
    /\ stage = "visit" /\ here <= Len(chain) /\ chain[here].type = "text"
    /\ stage' = "search"
    /\ n' = here
    /\ s' = <<>> /\ counter' = chain[here].start
    /\ matches' = <<>> /\ walker' = 1
    /\ UNCHANGED <<dict, text, options, trie, inserted, chain, here>>

\* n = n->next
After(i) == i + 1
Again(i) == i  \* mutant
NextNode(i) == After(i)

\* Nodes of other types are not searched
PassOver ==
    /\ stage = "visit" /\ here <= Len(chain) /\ chain[here].type # "text"
    /\ here' = NextNode(here)
    /\ UNCHANGED <<dict, text, options, trie, inserted, stage, chain, n, s, counter, matches, walker>>

EndOf(m) == m.start + m.len
Stop == EndOf(chain[n])

\* One character is read
ac_search ==
    /\ stage = "search" /\ counter < Stop
    /\ s' = NextState(s, text[counter + 1])
    /\ matches' = AddAll(matches, EndingAt(counter + 1)[s'])
    /\ counter' = counter + 1
    /\ UNCHANGED <<dict, text, options, trie, inserted, stage, chain, here, n, walker>>

SearchEnd ==
    /\ stage = "search" /\ counter = Stop
    /\ stage' = IF options = "longest" THEN "split" ELSE "done"
    /\ UNCHANGED <<dict, text, options, trie, inserted, chain, here, n, s, counter, matches, walker>>
-----------------------------------------------------------------------------
(* search_text                                                             *)

\* mmd_node_split: the node keeps offset characters, a new one gets the rest.
\* offset is a size_t: below 0 it is larger than any length.
Halves(nodes, i, offset) ==
    [j \in 1..(Len(nodes) + 1) |->
        CASE j < i     -> nodes[j]
          [] j = i     -> [nodes[i] EXCEPT !.len = offset]
          [] j = i + 1 -> [nodes[i] EXCEPT !.start = @ + offset, !.len = @ - offset]
          [] OTHER     -> nodes[j - 1]]
SplitAlways(nodes, i, offset) ==  \* mutant
    IF i > Len(nodes) THEN nodes ELSE Halves(nodes, i, offset)
SplitInside(nodes, i, offset) ==
    IF i > Len(nodes) \/ offset < 0 \/ nodes[i].len <= offset
    THEN nodes ELSE Halves(nodes, i, offset)
mmd_node_split(nodes, i, offset) == SplitInside(nodes, i, offset)

\* What is behind the text begins with punctuation, or is its end
AtWordEnd(offset) == offset < Len(text) => text[offset + 1] \in WordEnds
FullWord(m) == EndOf(m) = EndOf(chain[n]) \/ AtWordEnd(EndOf(m))
AnyWord(m) == TRUE  \* mutant
IsFullWord(m) == FullWord(m)

Current == matches[walker]

SplitMatch ==
    /\ stage = "split" /\ walker <= Len(matches) /\ IsFullWord(Current)
    /\ LET cut == mmd_node_split(mmd_node_split(chain, n, Current.start - chain[n].start),
                                 n + 1, Current.len)
       IN  IF n + 1 > Len(cut)
           THEN stage' = "crashed" /\ chain' = cut /\ n' = n  \* n->type of a null n
           ELSE /\ chain' = [cut EXCEPT ![n + 1].type = Current.type]
                /\ n' = n + 2
                /\ stage' = IF n + 2 > Len(cut) /\ walker < Len(matches) THEN "crashed" ELSE stage
    /\ walker' = walker + 1
    /\ UNCHANGED <<dict, text, options, trie, inserted, here, s, counter, matches>>

SkipMatch ==
    /\ stage = "split" /\ walker <= Len(matches) /\ ~IsFullWord(Current)
    /\ walker' = walker + 1
    /\ UNCHANGED <<dict, text, options, trie, inserted, stage, chain, here, n, s, counter, matches>>

\* recursive_search goes on with the next node, which may be a remainder
SplitEnd ==
    /\ stage = "split" /\ walker > Len(matches)
    /\ stage' = "visit"
    /\ here' = NextNode(here)
    /\ UNCHANGED <<dict, text, options, trie, inserted, chain, n, s, counter, matches, walker>>

Finish ==
    /\ stage = "visit" /\ here > Len(chain)
    /\ stage' = "done"
    /\ UNCHANGED <<dict, text, options, trie, inserted, chain, here, n, s, counter, matches, walker>>

Next == \/ ac_insert \/ ac_prepare \/ Visit \/ PassOver \/ ac_search \/ SearchEnd
        \/ SplitMatch \/ SkipMatch \/ SplitEnd \/ Finish

Spec == Init /\ [][Next]_vars
FairSpec == Spec /\ WF_vars(Next)
-----------------------------------------------------------------------------
(* Properties                                                              *)

Piece(type) == [start : Nat, len : Nat, type : type]

\* Types of the variables
TypeOK ==
    /\ \A w \in States :
           /\ trie[w].type \in Types \cup {"none"}
           /\ trie[w].ac_fail \in States
           /\ Len(trie[w].ac_fail) < Len(w) \/ w = <<>>
    /\ inserted \in 0..Len(dict)
    /\ stage \in {"insert", "visit", "search", "split", "done", "crashed"}
    /\ \A i \in DOMAIN chain : chain[i] \in Piece(Types \cup {"text", "other"})
    /\ here \in 1..(Len(chain) + 1) /\ n \in 0..(Len(chain) + 1)
    /\ s \in States /\ counter \in 0..Len(text)
    /\ \A i \in DOMAIN matches : matches[i] \in Piece(Types)
    /\ walker \in 0..(Len(matches) + 1)

Words == {dict[i][1] : i \in DOMAIN dict} \ {<<>>}
\* A word that is defined twice has the type of its last definition
TypeOf(word) == dict[Max({i \in DOMAIN dict : dict[i][1] = word})][2]
Found(start, len) == SubSeq(text, start + 1, start + len)
Occurrences ==
    {[start |-> p[1], len |-> p[2], type |-> TypeOf(Found(p[1], p[2]))] :
        p \in {p \in (0..Len(text)) \X (1..Len(text)) :
                 p[1] + p[2] <= Len(text) /\ Found(p[1], p[2]) \in Words}}

\* Matches are listed by their ends, and the longer one first
Before(m, o) == \/ EndOf(m) < EndOf(o)
                \/ EndOf(m) = EndOf(o) /\ m.len > o.len

\* When all matches are wanted, the search returns every occurrence of every
\* term, each once: the failure links skip none, whatever the terms have in
\* common (ac_search and trie_node_prepare without options).
AllTermsFound ==
    options = "all" /\ stage = "done" =>
        /\ {matches[i] : i \in DOMAIN matches} = Occurrences
        /\ \A i, j \in DOMAIN matches : i < j => Before(matches[i], matches[j])

Within(v, w, places) == \E k \in places : SubSeq(w, k, k + Len(v) - 1) = v
\* A term is inside another one, other than at its beginning or its end
InnerTerms == \E v, w \in Words : Within(v, w, 2..(Len(w) - Len(v)))
\* A term is any part of another one
NestedTerms == \E v, w \in Words : v # w /\ Within(v, w, 1..(Len(w) - Len(v) + 1))

\* The longest term at the first place where one begins, and so on behind it
Scan ==
    LET from[i \in 0..Len(text)] ==
            LET begun == {m \in Occurrences : m.start = i}
                longest == CHOOSE m \in begun : \A o \in begun : o.len <= m.len
            IN  IF i = Len(text) THEN <<>>
                ELSE IF begun = {} THEN from[i + 1]
                ELSE <<longest>> \o from[EndOf(longest)]
    IN  from[0]

\* If no term is part of another one, the parser's search finds what a scan
\* from left to right does, also when terms overlap or a term begins in one
\* that turns out not to be there.
ScansFromTheLeft ==
    options = "longest" /\ stage = "split" /\ here = 1 /\ ~NestedTerms => matches = Scan

Disjoint(list) == \A i, j \in DOMAIN list : i < j => EndOf(list[i]) <= list[j].start
Flagged == {i \in DOMAIN chain : chain[i].type \in Types}

\* The pieces of a text node always cover it.  If no term is inside another
\* one, matches are disjoint, no split leaves its node, and a piece that is
\* flagged is a term with the type of its definition that ends at the end of a
\* word or where the next flagged piece begins (search_text).
FlagsTheTerms ==
    /\ chain[1].start = 0
    /\ \A i \in 1..(Len(chain) - 1) : chain[i + 1].start = EndOf(chain[i])
    /\ options = "longest" /\ ~InnerTerms =>
           /\ stage # "crashed" /\ Disjoint(matches)
           /\ \A i \in Flagged :
                  /\ chain[i] \in Occurrences
                  /\ AtWordEnd(EndOf(chain[i])) \/ i + 1 \in Flagged

\* aho-corasick.h says of AC_LEFTMOST that it prevents overlapping matches.
\* It does not when a term is inside another one: the inner match comes first
\* and the outer one is then appended before it.
MatchesDisjoint == options = "longest" => Disjoint(matches)

\* The search of a text and of the remainders of its splits comes to an end.
SearchEnds == <>(stage \in {"done", "crashed"})
=============================================================================
