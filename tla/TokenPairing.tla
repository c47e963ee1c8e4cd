---------------------------- MODULE TokenPairing ----------------------------
(***************************************************************************)
(* The span parser: analyze_token_chain pairs the tokens of one block.     *)
(* Three passes (pairings1, pairings3, pairings4) walk the same chain of   *)
(* nodes; every pass rewrites the chain into a tree in place: the tokens   *)
(* between an opener and its closer become the opener's children.  One     *)
(* stack of openers, read_ctx.token_pair_stack, is shared by all levels of *)
(* the recursion, and each level counts its own openers in an array of     *)
(* unsigned counters.                                                      *)
(*                                                                         *)
(* A token is a member of Kinds, and the character to the left or right of *)
(* a token is the first or last character of its neighbour in the text, so *)
(* a text is a sequence of kinds.  Token k of the text is the node 2k; the *)
(* node 2k+1 is the one mmd_node_split or the standalone superscript may   *)
(* allocate right after it, and 0 is NULL.                                 *)
(***************************************************************************)
EXTENDS Integers, Sequences, FiniteSets

CONSTANTS Inputs,     \* the token sequences a block may consist of
          SizeRange   \* the number of values of a size_t: lengths wrap around

VARIABLES src,     \* the text: a sequence of kinds
          type,    \* node -> its type
          len,     \* node -> its length
          next,    \* node -> the next node of its chain
          child,   \* node -> the first node of its child chain
          tail,    \* head of a chain -> the last node of the chain
          stack,   \* token_pair_stack
          frames,  \* the activations of analyze_token_chain, innermost last
          pass,    \* 1, 3, 4: the pairings in use; 5: the block is parsed
          emph     \* the argument of pair_emphasis_tokens while it runs

tree == <<type, len, next, child, tail>>
vars == <<src, tree, stack, frames, pass, emph>>
-----------------------------------------------------------------------------
(* Token kinds, node types and the pairing rules.                          *)

Kinds == {"add_open", "add_close", "del_open", "del_close", "com_open", "com_close",
          "hi_open", "hi_close", "sub_open", "sub_div", "sub_close",
          "brl", "brr", "parl", "parr", "bt1", "bt2", "dollar",
          "star", "ul", "sup", "dquote", "alt", "word", "qx", "ws", "nl"}

ASSUME InputsAssumption == Inputs \subseteq Seq(Kinds) \ {<<>>}
ASSUME SizeRangeAssumption == SizeRange \in Nat /\ SizeRange > 3

OpenTypes == {"add_open", "del_open", "com_open", "hi_open", "sub_open", "sub_div",
              "brl", "parl", "backtick", "dollar", "star", "ul", "sup", "dquote", "alt"}

Rule(mate, pair, conditions) ==
    [mate |-> mate, pair |-> pair, conditions |-> conditions]
NoRule == Rule("none", "none", {})

pairings1 == [add_close |-> Rule("add_open", "p_add", {}),
              del_close |-> Rule("del_open", "p_del", {}),
              com_close |-> Rule("com_open", "p_com", {}),
              hi_close  |-> Rule("hi_open", "p_hi", {}),
              sub_div   |-> Rule("sub_open", "p_sub_del", {}),
              sub_close |-> Rule("sub_div", "p_sub_add", {})]

pairings3 ==
    [brr      |-> Rule("brl", "p_bracket", {"subtypes"}),
     parr     |-> Rule("parl", "p_paren", {}),
     backtick |-> Rule("backtick", "p_backtick", {"match_length"}),
     dollar   |-> Rule("dollar", "p_dollar",
                       {"open_if_ws_left", "open_no_ws_right",
                        "close_if_ws_punct_right", "close_no_ws_left"})]

flanking == {"open_no_ws_right", "close_no_ws_left"}

pairings4 ==
    [star   |-> Rule("star", "p_star", flanking \cup {"skip_identical", "limit_3"}),
     ul     |-> Rule("ul", "p_ul", flanking \cup {"skip_identical", "no_intraword"}),
     sup    |-> Rule("sup", "p_sup", flanking \cup {"non_consecutive"}),
     dquote |-> Rule("dquote", "p_quote", flanking \cup {"open_no_alnum_left"}),
     alt    |-> Rule("backtick", "p_quote", flanking \cup {"match_length"})]

Pairings == CASE pass = 1 -> pairings1 [] pass = 3 -> pairings3 [] OTHER -> pairings4

RuleOf(t) == IF t \in DOMAIN Pairings THEN Pairings[t] ELSE NoRule

InitialType(k) == IF k \in {"bt1", "bt2"} THEN "backtick" ELSE k
CriticTokens == {"add_open", "add_close", "del_open", "del_close", "com_open",
                 "com_close", "hi_open", "hi_close", "sub_open", "sub_close"}
InitialLen(k) == IF k \in CriticTokens THEN 3
                 ELSE IF k \in {"bt2", "alt", "qx", "sub_div"} THEN 2 ELSE 1
-----------------------------------------------------------------------------
(* The text around a token.                                                *)

Tok(n) == n \div 2
NTok == Len(src)
Nodes == 2..(2 * NTok + 1)
NULL == 0

Char(i) == IF src[i] \in {"bt1", "bt2"} THEN "backtick" ELSE src[i]
Blank(k) == k \in {"ws", "nl"}
FirstClass(k) == IF Blank(k) THEN "ws" ELSE IF k = "word" THEN "alnum" ELSE "punct"
LastClass(k) == IF k = "qx" THEN "alnum" ELSE FirstClass(k)

\* The terminating NUL is a line ending for char_is_line_ending
ClassAfter(i) == IF i = NTok THEN "ws" ELSE FirstClass(src[i + 1])

\* The run of tokens made of the same character that token i belongs to
SameRun(i, j) == \A k \in i..j : Char(k) = Char(i)
RunFirst(i) == CHOOSE j \in 1..i : SameRun(j, i) /\ (j > 1 => ~SameRun(j - 1, i))
RunLast(i) == CHOOSE j \in i..NTok : SameRun(i, j) /\ (j < NTok => ~SameRun(i, j + 1))
LeftEdge(i, cond) == IF "skip_identical" \in cond THEN RunFirst(i) ELSE i
RightEdge(i, cond) == IF "skip_identical" \in cond THEN RunLast(i) ELSE i

\* Where the run starts the text, the scan to the left ends on the run itself
ClassBefore(i) == IF i = 1 THEN "punct" ELSE LastClass(src[i - 1])

token_can_close(n) ==
    LET cond == RuleOf(type[n]).conditions
        l == LeftEdge(Tok(n), cond)
        left == ClassBefore(l)
        right == ClassAfter(RightEdge(Tok(n), cond))
    IN  /\ l > 1
        /\ "close_no_ws_left" \in cond => left # "ws"
        /\ "close_if_ws_punct_right" \in cond => right \in {"ws", "punct"}
        /\ "no_intraword" \in cond => left = "ws" \/ right \in {"ws", "punct"}

token_can_open(n) ==
    LET cond == RuleOf(type[n]).conditions
        left == ClassBefore(LeftEdge(Tok(n), cond))
        right == ClassAfter(RightEdge(Tok(n), cond))
    IN  /\ "open_no_alnum_left" \in cond => left # "alnum"
        /\ "open_if_ws_left" \in cond => Tok(n) = 1 \/ left = "ws"
        /\ "open_no_ws_right" \in cond => right # "ws"
        /\ "no_intraword" \in cond =>
              Tok(n) = 1 \/ left \in {"ws", "punct"} \/ right = "ws"

delimiter_len(n) == RunLast(Tok(n)) - RunFirst(Tok(n)) + 1

delimiter_valid_multiple_3(o, c) ==
    \/ (delimiter_len(o) + delimiter_len(c)) % 3 # 0
    \/ delimiter_len(o) % 3 = 0 /\ delimiter_len(c) % 3 = 0
    \/ ~token_can_close(o) /\ ~token_can_open(c)
-----------------------------------------------------------------------------
(* token_closes: find the opener that the current token n closes.          *)

Depth == Len(frames)
Top == frames[Depth]
n == Top.node
Segment == (Top.start + 1)..Len(stack)    \* the openers of this activation

rule == RuleOf(type[n])
Demands(c) == c \in rule.conditions

\* Conditions that are scanned for before anything is popped
Scanned(i) ==
    /\ type[stack[i]] = rule.mate
    /\ Demands("match_length") => len[stack[i]] = len[n]
    /\ Demands("limit_3") => delimiter_valid_multiple_3(stack[i], n)

Handled == rule.mate # "none"

AttemptsUnscanned ==  \* mutant
    Handled /\ Top.openers[rule.mate] > 0 /\ token_can_close(n)
Attempts ==
    /\ Handled
    /\ Top.openers[rule.mate] > 0
    /\ token_can_close(n)
    /\ Demands("match_length") \/ Demands("limit_3") => \E i \in Segment : Scanned(i)

Matches == {i \in Segment :
              Scanned(i) /\ (Demands("non_consecutive") => next[stack[i]] # n)}

Closes == Attempts /\ Matches # {}

\* The size of the stack after the popping loop
Left == IF ~Attempts THEN Len(stack)
        ELSE IF Matches = {} THEN Top.start
        ELSE (CHOOSE i \in Matches : \A j \in Matches : j <= i) - 1

opener == IF Closes THEN stack[Left + 1] ELSE NULL

\* openers[o->type]-- for every popped o, by the type it has when it is popped
OpenersLessOne ==  \* mutant
    IF Closes THEN [Top.openers EXCEPT ![rule.mate] = @ - 1] ELSE Top.openers
OpenersLessTwice ==  \* mutant
    [t \in OpenTypes |-> Top.openers[t] - (IF Closes /\ t = rule.mate THEN 1 ELSE 0) -
        Cardinality({i \in (Left + 1)..Len(stack) : type[stack[i]] = t})]
OpenersLeft ==
    [t \in OpenTypes |-> Top.openers[t] -
        Cardinality({i \in (Left + 1)..Len(stack) : type[stack[i]] = t})]

Subtype(o) == IF Tok(o) = NTok THEN "p_bracket"
              ELSE CASE src[Tok(o) + 1] = "sup" -> "p_footnote"
                     [] src[Tok(o) + 1] = "qx" -> "p_glossary"
                     [] OTHER -> "p_bracket"

\* The place of the node that may be allocated right after token c
Fresh(c) == c % 2 = 0 /\ type[c + 1] = "free"

JoinWithoutChildren(o) ==  \* mutant
    /\ next' = [next EXCEPT ![o] = n]
    /\ type' = [type EXCEPT ![o] = rule.pair]
    /\ UNCHANGED <<len, child, tail>>
(* o adopts the nodes between itself and n, and points past them to n.  A  *)
(* bracket with a marker splits it off its first child.                    *)
Join(o) ==
    LET c == next[o]
        hasChild == c # n
        pair == IF Demands("subtypes") THEN Subtype(o) ELSE rule.pair
        marked == pair \in {"p_footnote", "p_glossary"}
        split == marked /\ len[c] > 1
        tail1 == IF hasChild THEN [tail EXCEPT ![c] = Top.prev] ELSE tail
        next1 == IF split THEN [next EXCEPT ![c] = c + 1, ![c + 1] = next[c]] ELSE next
        prev == IF marked /\ Top.prev = c /\ next1[c] # n THEN next1[c] ELSE Top.prev
        next2 == [next1 EXCEPT ![o] = n]
    IN  /\ split => Fresh(c)
        /\ child' = IF hasChild THEN [child EXCEPT ![o] = c] ELSE child
        /\ tail' = IF split /\ tail1[c] = c THEN [tail1 EXCEPT ![c] = c + 1] ELSE tail1
        /\ len' = IF split THEN [len EXCEPT ![c] = 1, ![c + 1] = len[c] - 1] ELSE len
        /\ next' = IF prev # o THEN [next2 EXCEPT ![prev] = NULL] ELSE next2
        /\ type' = [m \in Nodes |-> CASE m = o -> pair
                                      [] marked /\ m = c -> "marker"
                                      [] split /\ m = c + 1 -> type[c]
                                      [] OTHER -> type[m]]

JoinIfClosed == IF Closes THEN Join(opener) ELSE UNCHANGED tree

\* The rest of the loop body: the stack after the pops, n pushed or not
Settle(openers, size, push) ==
    /\ stack' = IF push THEN Append(SubSeq(stack, 1, size), n) ELSE SubSeq(stack, 1, size)
    /\ frames' = [frames EXCEPT ![Depth] =
           [@ EXCEPT !.node = next[n], !.prev = n,
                     !.openers = IF push THEN [openers EXCEPT ![type[n]] = @ + 1] ELSE openers]]
    /\ UNCHANGED <<src, pass>>

Finish(push) == Settle(OpenersLeft, Left, push)
Pass(push) == Settle(Top.openers, Len(stack), push) /\ UNCHANGED emph

Visiting(types) ==
    frames # <<>> /\ emph = NULL /\ n # NULL /\ type[n] \in types
-----------------------------------------------------------------------------
(* analyze_token_chain, one action per group of cases of its switch.       *)

Activation(first) == [node |-> first, prev |-> NULL, start |-> Len(stack),
                      openers |-> [t \in OpenTypes |-> 0]]

Openers == {"add_open", "del_open", "com_open", "hi_open", "sub_open", "brl", "parl"}
Closers == {"add_close", "del_close", "com_close", "hi_close", "sub_close", "brr", "parr"}

VisitOpener ==
    /\ Visiting(Openers)
    /\ Pass(TRUE)
    /\ UNCHANGED tree

VisitSubDivider ==
    /\ Visiting({"sub_div"})
    /\ JoinIfClosed
    /\ Finish(TRUE)
    /\ UNCHANGED emph

VisitUnpairedCloser ==  \* mutant
    Visiting(Closers) /\ Pass(FALSE) /\ UNCHANGED tree
VisitCloser ==
    /\ Visiting(Closers)
    /\ JoinIfClosed
    /\ Finish(FALSE)
    /\ UNCHANGED emph

(* Whitespace at both ends of a code span is cut off its first and last    *)
(* child, a blank token being one character; the first loop reads on past  *)
(* the end of the first child, whose end (start + len) it leaves in place. *)
Trimmed(c) ==
    LET blanks == {j \in Tok(c)..NTok : \A k \in Tok(c)..j : Blank(src[k])}
        cut == [len EXCEPT ![c] = (@ - Cardinality(blanks)) % SizeRange]
        last == tail'[c]
    IN  IF cut[last] # 0 /\ Blank(src[Tok(last)])
        THEN [cut EXCEPT ![last] = (@ - 1) % SizeRange] ELSE cut

JoinCodeSpan(o) ==
    LET c == next[o]
        hasChild == c # n
    IN  /\ child' = IF hasChild THEN [child EXCEPT ![o] = c] ELSE child
        /\ tail' = IF hasChild THEN [tail EXCEPT ![c] = Top.prev] ELSE tail
        /\ len' = IF hasChild THEN Trimmed(c) ELSE len
        /\ next' = IF Top.prev # o THEN [next EXCEPT ![o] = n, ![Top.prev] = NULL]
                   ELSE [next EXCEPT ![o] = n]
        /\ type' = [type EXCEPT ![o] = rule.pair]

VisitBacktick ==
    /\ Visiting({"backtick"})
    /\ UNCHANGED emph
    /\ IF Handled
       THEN /\ IF Closes THEN JoinCodeSpan(opener) ELSE UNCHANGED tree
            /\ Finish(~Closes)
       ELSE /\ Pass(len[n] = 2 /\ "alt" \in DOMAIN Pairings)
            /\ UNCHANGED tree

VisitCloseOrOpen ==
    /\ Visiting({"dollar", "dquote", "alt"})
    /\ Handled
    /\ JoinIfClosed
    /\ Finish(~Closes /\ token_can_open(n))
    /\ UNCHANGED emph

\* The token just before n has the same type and still waits for its closer
ContinuesOpenRun ==
    LET top == stack[Len(stack)]
    IN  stack # <<>> /\ type[top] = type[n] /\ top + 2 = n

\* The next token may close the token before the opener: assign emphasis then
RunGoesOn(o) ==
    /\ next[n] # NULL /\ type[next[n]] = type[n]
    /\ Tok(o) > 1 /\ Char(Tok(o) - 1) = Char(Tok(n) + 1)

VisitEmphasis ==
    /\ Visiting({"star", "ul"})
    /\ Handled
    /\ IF ContinuesOpenRun
       THEN Pass(token_can_open(n)) /\ UNCHANGED tree
       ELSE /\ JoinIfClosed
            /\ Finish(~Closes /\ token_can_open(n))
            /\ emph' = IF Closes /\ ~RunGoesOn(opener) THEN opener ELSE NULL

\* Another superscript token follows before any whitespace
MateAhead == \E j \in (Tok(n) + 1)..NTok :
                src[j] = "sup" /\ \A k \in Tok(n)..j : ~Blank(src[k])

\* x^2: the word after the token becomes its child, as a node of its own
Standalone ==
    LET word == next[n]
    IN  /\ Fresh(n)
        /\ child' = [child EXCEPT ![n] = n + 1]
        /\ len' = [len EXCEPT ![n + 1] = len[word], ![word] = 0]
        /\ type' = [type EXCEPT ![n] = "p_sup", ![n + 1] = "text", ![word] = "text"]
        /\ UNCHANGED <<next, tail>>

VisitSuperscript ==
    /\ Visiting({"sup"})
    /\ Handled
    /\ UNCHANGED emph
    /\ \/ Closes /\ Join(opener) /\ Finish(FALSE)
       \/ /\ ~Closes
          /\ LET opens == ClassAfter(Tok(n)) # "ws" /\ MateAhead /\ token_can_open(n)
             IN  /\ Finish(opens)
                 /\ IF ~opens /\ ClassAfter(Tok(n)) = "alnum" /\ next[n] # NULL
                    THEN Standalone
                    ELSE UNCHANGED tree

Descendable == {"p_paren", "p_bracket", "p_footnote", "p_glossary",
                "p_add", "p_del", "p_com", "p_hi", "p_sub_del", "p_sub_add"}

Descend ==
    /\ Visiting(Descendable)
    /\ child[n] # NULL
    /\ frames' = Append(frames, Activation(child[n]))
    /\ UNCHANGED <<src, tree, stack, pass, emph>>

\* Plain tokens, pairs that are not entered, tokens this pass does not handle
Skips == IF type[n] \in Descendable THEN child[n] = NULL
         ELSE IF type[n] \in {"dollar", "dquote", "alt", "star", "ul", "sup"} THEN ~Handled
         ELSE type[n] \notin Openers \cup Closers \cup {"sub_div", "backtick"}

Skip ==
    /\ frames # <<>> /\ emph = NULL /\ n # NULL
    /\ Skips
    /\ Pass(FALSE)
    /\ UNCHANGED tree

ReturnToSameNode ==  \* mutant
    /\ frames # <<>> /\ emph = NULL /\ n = NULL
    /\ stack' = SubSeq(stack, 1, Top.start)
    /\ frames' = SubSeq(frames, 1, Depth - 1)
    /\ UNCHANGED <<src, tree, pass, emph>>
\* The end of a chain: drop its openers; the caller moves on to its next node
Return ==
    /\ frames # <<>> /\ emph = NULL /\ n = NULL
    /\ stack' = SubSeq(stack, 1, Top.start)
    /\ frames' = IF Depth = 1 THEN <<>>
                 ELSE LET caller == frames[Depth - 1]
                      IN  [SubSeq(frames, 1, Depth - 1) EXCEPT ![Depth - 1] =
                              [@ EXCEPT !.prev = caller.node, !.node = next[caller.node]]]
    /\ UNCHANGED <<src, tree, pass, emph>>

(* pair_emphasis_tokens: a pair that encloses exactly one pair of the same *)
(* kind is strong and uses that pair up; otherwise it is emphasis.         *)
UsedType(t) == IF t = "p_star" THEN "p_star_used" ELSE "p_ul_used"

pair_emphasis_tokens ==
    /\ emph # NULL
    /\ LET c == child[emph]
           doubled == c # NULL /\ type[c] = type[emph] /\ type[next[emph]] = type[tail[c]]
       IN  IF type[emph] \notin {"p_star", "p_ul"}
           THEN emph' = NULL /\ UNCHANGED type
           ELSE IF doubled
           THEN /\ type' = [type EXCEPT ![emph] = "p_strong", ![c] = UsedType(type[c])]
                /\ emph' = child[c]
           ELSE /\ type' = [type EXCEPT ![emph] = "p_emph"]
                /\ emph' = c
    /\ UNCHANGED <<src, len, next, child, tail, stack, frames, pass>>

\* mmd_parse_tokens_block: the next pairings over the same chain
NextPass ==
    /\ frames = <<>> /\ emph = NULL /\ pass < 5
    /\ pass' = CASE pass = 1 -> 3 [] pass = 3 -> 4 [] OTHER -> 5
    /\ frames' = IF pass = 4 THEN <<>> ELSE <<Activation(2)>>
    /\ UNCHANGED <<src, tree, stack, emph>>

\* The tokenizer skips the whitespace a line starts with: it stays in the text,
\* but there is no token for it
Indentation(i) == i > 1 /\ src[i - 1] = "nl" /\ src[i] = "ws"
Scans(m) == m % 2 = 0 /\ ~Indentation(Tok(m))
Following(m) == IF Indentation(Tok(m) + 1) THEN m + 4 ELSE m + 2

Init ==
    /\ src \in Inputs
    /\ type = [m \in Nodes |-> IF Scans(m) THEN InitialType(src[Tok(m)]) ELSE "free"]
    /\ len = [m \in Nodes |-> IF Scans(m) THEN InitialLen(src[Tok(m)]) ELSE 0]
    /\ next = [m \in Nodes |-> IF Scans(m) /\ Tok(m) < NTok /\ Following(m) \in Nodes
                               THEN Following(m) ELSE NULL]
    /\ child = [m \in Nodes |-> NULL]
    /\ tail = [m \in Nodes |-> m]
    /\ stack = <<>>
    /\ frames = <<Activation(2)>>
    /\ pass = 1
    /\ emph = NULL

Next ==
    \/ VisitOpener \/ VisitSubDivider \/ VisitCloser \/ VisitBacktick
    \/ VisitCloseOrOpen \/ VisitEmphasis \/ VisitSuperscript
    \/ Descend \/ Skip \/ Return \/ pair_emphasis_tokens \/ NextPass

Spec == Init /\ [][Next]_vars
FairSpec == Spec /\ WF_vars(Next)
-----------------------------------------------------------------------------
(* Properties.                                                             *)

PairTypes == {"p_add", "p_del", "p_com", "p_hi", "p_sub_del", "p_sub_add", "p_bracket", "p_footnote",
              "p_glossary", "p_paren", "p_backtick", "p_dollar", "p_star", "p_star_used",
              "p_ul", "p_ul_used", "p_strong", "p_emph", "p_sup", "p_quote"}
Types == (Kinds \ {"bt1", "bt2"}) \cup PairTypes \cup {"backtick", "marker", "text", "free"}
Ref == Nodes \cup {NULL}
Frame == [node : Ref, prev : Ref, start : Nat, openers : [OpenTypes -> Nat]]

\* The range of every variable: node references stay inside the pool, the
\* lengths are size_t values and the opener counters never go below zero.
TypeOK ==
    /\ src \in Inputs
    /\ type \in [Nodes -> Types]
    /\ len \in [Nodes -> 0..(SizeRange - 1)]
    /\ next \in [Nodes -> Ref] /\ child \in [Nodes -> Ref] /\ tail \in [Nodes -> Ref]
    /\ stack \in Seq(Nodes)
    /\ frames \in Seq(Frame)
    /\ pass \in {1, 3, 4, 5}
    /\ emph \in Ref

\* The part of the shared stack that belongs to activation k
First(k) == frames[k].start + 1
Last(k) == IF k = Depth THEN Len(stack) ELSE frames[k + 1].start

\* analyze_token_chain trusts openers[t] to tell whether the stack holds an
\* opener of type t above stack_start, and decrements it by the type a popped
\* node has by then: each counter is exactly the number of such openers.
OpenersExact ==
    \A k \in 1..Depth : \A t \in OpenTypes :
        frames[k].openers[t] = Cardinality({i \in First(k)..Last(k) : type[stack[i]] = t})

\* One stack serves all levels of recursion: its entries are in text order,
\* every activation's openers lie before the node it is at, and segments nest.
StackOrdered ==
    /\ \A i, j \in 1..Len(stack) : i < j => stack[i] < stack[j]
    /\ \A k \in 1..Depth : frames[k].start <= Last(k)
    /\ \A k \in 1..Depth : frames[k].node # NULL =>
          \A i \in 1..Last(k) : stack[i] < frames[k].node

\* Links only lead forward in the text and never to a node that is not allocated:
\* the tree has no cycle, so every walk over it ends.
LinksGoForward ==
    \A m \in Nodes : /\ next[m] # NULL => next[m] > m /\ type[next[m]] # "free"
                     /\ child[m] # NULL => child[m] > m /\ type[child[m]] # "free"

\* The shape of the activations: only the innermost may be at the end of its
\* chain, and each starts its openers where its caller's end.
ActivationsNest ==
    /\ frames = <<>> => stack = <<>>
    /\ \A k \in 1..Depth :
          /\ k < Depth => frames[k].node # NULL
          /\ \A j \in 1..Depth : j <= k => frames[j].start <= frames[k].start
          /\ frames[k].start <= Len(stack)
          /\ frames[1].start = 0

\* What a step needs to know to keep TypeOK, OpenersExact and StackOrdered
IInv == TypeOK /\ LinksGoForward /\ ActivationsNest /\ StackOrdered /\ OpenersExact

\* The nodes in the order a depth-first walk over child and next meets them
Walk == LET walk[m \in Ref] ==
               IF m = NULL THEN <<>> ELSE <<m>> \o walk[child[m]] \o walk[next[m]]
        IN  walk[2]
Created == {m \in Nodes : type[m] # "free"}

\* However pairing, marker splitting and superscripts cut the chain up, the
\* tree holds every token of the text exactly once and in text order.
NoTokenLost ==
    LET w == Walk
    IN  /\ {w[i] : i \in 1..Len(w)} = Created
        /\ \A i \in 1..(Len(w) - 1) : w[i] < w[i + 1]

\* child->tail, which the exporters and pair_emphasis_tokens use to look at the
\* end of a span, is the last node of that child chain.
TailIsLast ==
    \A m \in Nodes : child[m] # NULL =>
        LET c == child[m]
            chain[i \in Nodes] == {i} \cup (IF next[i] = NULL THEN {} ELSE chain[next[i]])
        IN  tail[c] \in chain[c] /\ next[tail[c]] = NULL

\* The chains that are rewritten in place stay a tree of the whole text.
TreeHoldsText == NoTokenLost /\ TailIsLast

\* token_closes pops before it knows that it will find a match only for
\* superscripts: no other token takes an opener off the stack without pairing
\* it, so a stray closer never costs another span its opener.
FailedCloseKeepsOpeners ==
    [][\A i \in 1..Len(stack) :
          (frames # <<>> /\ emph = NULL /\ n # NULL /\ type[n] # "sup" /\ type' = type)
             => Len(stack') >= i /\ stack'[i] = stack[i]]_vars

\* A finished pass leaves no bracket, parenthesis or CriticMarkup addition open
\* in front of an unpaired closer of its kind in the same chain.
ChainOf(m) == LET chain[i \in Nodes] == {i} \cup (IF next[i] = NULL THEN {} ELSE chain[next[i]])
              IN  chain[m]
Unpaired(c, pairs) == \A o \in Nodes : next[o] = c => type[o] \notin pairs
NonePairable(m, open, close, pairs) ==
    \A o, c \in ChainOf(m) :
        o < c /\ type[o] = open /\ type[c] = close => ~Unpaired(c, pairs)
PairingIsMaximal ==
    frames = <<>> =>
        \A m \in ({2} \cup {child[o] : o \in Nodes}) \ {NULL} :
            /\ NonePairable(m, "add_open", "add_close", {"p_add"})
            /\ pass > 1 =>
                  /\ NonePairable(m, "brl", "brr", {"p_bracket", "p_footnote", "p_glossary"})
                  /\ NonePairable(m, "parl", "parr", {"p_paren"})

\* Every block is parsed to the end, whatever its tokens.
ParsingEnds == <>(pass = 5)
=============================================================================
