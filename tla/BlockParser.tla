----------------------------- MODULE BlockParser -----------------------------
(***************************************************************************)
(* The block parser: the lines of a document, each with the type that the  *)
(* line scanner gave it, are grouped into a tree of blocks.  blocks() runs *)
(* over a chain of lines and calls block() until it is used up; a quote, a *)
(* list item, a definition or a note is parsed by a recursive call over    *)
(* its own lines, which are first stripped of a marker or an indentation   *)
(* and scanned again, in place.                                            *)
(*                                                                         *)
(* A line of the text is the sequence of its markers, outermost first, and *)
(* of what stands behind them.  The tree is written as the sequence of its *)
(* nodes in preorder, each with its depth.                                 *)
(***************************************************************************)
EXTENDS Integers, Sequences, FiniteSets

CONSTANT Documents  \* the documents that may be parsed

VARIABLES lines,          \* the document
          type,           \* line -> its type, which may be assigned anew
          stripped,       \* line -> how many of its markers were stripped
          tree,           \* the blocks, in preorder
          dropped,        \* lines that were consumed and are in no block
          frames,         \* the activations of blocks(), innermost last
          allow_meta, is_definition, is_endnote  \* of the read_ctx

vars == <<lines, type, stripped, tree, dropped, frames,
          allow_meta, is_definition, is_endnote>>
-----------------------------------------------------------------------------
(* Lines.  The six ATX types, the ordered and unordered bullets' rules, the *)
(* reference kinds and the two indentations behave alike in pairs and are  *)
(* one type each, as far as the parser tells them apart.                   *)

Markers == {"blockquote", "bullet", "enum", "indented", "definition", "def_note"}
Contents == {"plain", "empty", "atx", "setext1", "setext2", "hr", "def_link",
             "fence3", "fence4", "start3", "html", "html_block", "html_blockish",
             "comment_start", "comment_stop", "table", "separator", "toc", "meta"}
LineTypes == Markers \cup Contents \cup {"yaml", "code_fence"}

ASSUME DocumentsAssumption ==
    \A d \in Documents :
        /\ d \in Seq(Seq(Markers \cup Contents)) \ {<<>>}
        /\ \A i \in 1..Len(d) : /\ d[i] # <<>> /\ d[i][Len(d[i])] \in Contents
                                /\ \A k \in 1..(Len(d[i]) - 1) : d[i][k] \in Markers

Fences == {"fence3", "fence4", "start3"}
accept_blockquote_line == {"blockquote", "plain", "setext1", "indented"}
accept_para_line == LineTypes \ ({"atx", "blockquote", "definition", "empty", "html_block",
                                  "bullet", "enum", "setext1", "setext2"} \cup Fences)
accept_chunk_line == LineTypes \ ({"atx", "blockquote", "def_link", "def_note", "definition", "empty",
                                   "html_block", "bullet", "enum", "setext2"} \cup Fences)
accept_tail_line == LineTypes \ {"atx", "blockquote", "def_link", "def_note", "definition", "empty",
                                 "bullet", "enum", "setext2"}
accept_table_line == {"table", "separator"}
\* All but a closing fence that is long enough
accept_fence_line(opening) == LineTypes \ (IF opening = "fence4" THEN {"fence4"} ELSE {"fence3", "fence4"})

N == Len(lines)
Depth == Len(frames)
Top == frames[Depth]
l == Top.l                   \* the line that is looked at
stop == Top.stop             \* the last line of its chain

\* The line behind the longest run, from line i on, of lines of these types, and
\* the like below: each is a set with one member
Behind(i, types) ==
    {e \in i..(stop + 1) : /\ \A k \in i..(e - 1) : type[k] \in types
                           /\ e <= stop => type[e] \notin types}

IndentedAhead(k) ==
    \E m \in k..stop : type[m] = "indented" /\ \A j \in k..(m - 1) : type[j] = "empty"
InTail(i, k) ==
    \/ type[k] = "indented"
    \/ (type[k] = "empty" /\ IndentedAhead(k))
    \/ k > i /\ type[k - 1] # "empty" /\ type[k] \in accept_tail_line
block_append_tail(i) ==
    {e \in i..(stop + 1) : /\ \A k \in i..(e - 1) : InTail(i, k)
                           /\ e <= stop => ~InTail(i, e)}

\* What belongs to an item, a definition or a note (first the lines at once, then
\* an indented tail), and the line behind the empty ones that follow
Extents(types) ==
    {x \in [head : (l + 1)..(stop + 1), end : (l + 1)..(stop + 1), rest : (l + 1)..(stop + 1)] :
        /\ x.head \in Behind(l + 1, types)
        /\ x.end \in block_append_tail(x.head)
        /\ x.rest \in Behind(x.end, {"empty"})}
-----------------------------------------------------------------------------
Node(node, depth, ids, tokens) == [type |-> node, depth |-> depth, lines |-> ids, tokens |-> tokens]
Frame(kind, first, last, depth) ==
    [kind |-> kind, l |-> first, stop |-> last, depth |-> depth, within |-> "blocks", node |-> 0]

Init ==
    /\ lines \in Documents
    /\ type = [i \in 1..N |-> IF i = 1 /\ lines[1][1] = "setext2" THEN "yaml" ELSE lines[i][1]]
    /\ stripped = [i \in 1..N |-> 0]
    /\ tree = <<>>
    /\ dropped = {}
    /\ frames = <<Frame("doc", 1, N, 0)>>
    /\ allow_meta = TRUE
    /\ is_definition = 0 /\ is_endnote = 0

At(types) == frames # <<>> /\ Top.within = "blocks" /\ l <= stop /\ type[l] \in types

(* The tokenizer starts at the beginning of a line and hides the markers   *)
(* that were stripped from it; a colon only if it knows that it is inside  *)
(* a definition.  The rows of a table are tokenized on their own, and      *)
(* nothing is hidden.                                                      *)
Marked(ids, markers) == \E i \in ids : \E k \in 1..stripped[i] : lines[i][k] \in markers
Tokenized(i) ==
    IF is_definition = 0 /\ is_endnote = 0 /\ Marked({i}, {"definition"}) THEN "exposed" ELSE "tokens"
Rows(ids) == IF Marked(ids, Markers \ {"indented"}) THEN "exposed" ELSE "tokens"

Emit(nodes, next) ==
    /\ tree' = tree \o nodes
    /\ frames' = [frames EXCEPT ![Depth].l = next]

\* Mutant: metadata is allowed again behind a header, a rule or a paragraph
BlockBeforeMeta(node, last, tokens) ==
    /\ Emit(<<Node(node, Top.depth, l..last, tokens)>>, last + 1)
    /\ UNCHANGED <<lines, stripped, dropped, allow_meta, is_definition, is_endnote>>
\* block() returns a block without children, made of lines l..last
Block(node, last, tokens) ==
    /\ Emit(<<Node(node, Top.depth, l..last, tokens)>>, last + 1)
    /\ allow_meta' = FALSE
    /\ UNCHANGED <<lines, stripped, dropped, is_definition, is_endnote>>

\* Mutant: a block of the first empty line
FirstOfEmpties(first, next, depth) ==
    IF first = next THEN <<>> ELSE <<Node("empty", depth, {first}, "none")>>
\* A block of the empty lines first..(next - 1), if there are any
Empties(first, next, depth) ==
    IF first = next THEN <<>> ELSE <<Node("empty", depth, first..(next - 1), "none")>>

block_atx == At({"atx"}) /\ Block("header", l, Tokenized(l)) /\ UNCHANGED type
block_toc == At({"toc"}) /\ Block("toc", l, "none") /\ UNCHANGED type
block_hr == /\ At({"hr", "setext2"})
            /\ Block("hr", l, Tokenized(l)) /\ UNCHANGED type

block_empty ==
    /\ At({"empty"})
    /\ \E end \in Behind(l, {"empty"}) : Block("empty", end - 1, "none")
    /\ UNCHANGED type

block_reference_def_a ==
    /\ At({"def_link"})
    /\ \E end \in Behind(l + 1, accept_chunk_line) : Block("def_link", end - 1, "none")
    /\ UNCHANGED type

block_html ==
    /\ At({"html_block", "html_blockish"})
    /\ \E end \in Behind(l + 1, LineTypes \ {"empty"}) : Block("html", end - 1, "none")
    /\ UNCHANGED type

\* Mutant: a comment that is not closed takes one line more
BlockHtmlCommentPastEnd ==
    /\ At({"comment_start"})
    /\ \E end \in Behind(l + 1, LineTypes \ {"comment_stop"}) : Block("html", end, "none")
    /\ UNCHANGED type

block_html_comment ==
    /\ At({"comment_start"})
    /\ \E end \in Behind(l + 1, LineTypes \ {"comment_stop"}) :
          Block("html", IF end <= stop THEN end ELSE stop, "none")
    /\ UNCHANGED type

block_code_fenced ==
    /\ At(Fences)
    /\ \E end \in Behind(l + 1, accept_fence_line(type[l])) :
          /\ Block("code_fenced", IF end <= stop THEN end ELSE stop, "none")
          /\ type' = [i \in 1..N |-> IF i \in {l, end} /\ i <= stop THEN "code_fence" ELSE type[i]]

\* Empty lines belong to indented code if more of it follows
InCode(k) == type[k] = "indented" \/ (type[k] = "empty" /\ IndentedAhead(k))
block_code_indented ==
    /\ At({"indented"})
    /\ \E end \in (l + 1)..(stop + 1) :
          /\ \A k \in l..(end - 1) : InCode(k)
          /\ end <= stop => ~InCode(end)
          /\ \E rest \in Behind(end, {"empty"}) :
                Emit(<<Node("code_indented", Top.depth, l..(end - 1), "none")>>
                     \o Empties(end, rest, Top.depth), rest)
    /\ allow_meta' = FALSE
    /\ UNCHANGED <<lines, type, stripped, dropped, is_definition, is_endnote>>

block_meta ==
    /\ At({"meta"}) /\ allow_meta
    /\ \E end \in Behind(l + 1, LineTypes \ {"empty"}) : Block("meta", end - 1, "none")
    /\ UNCHANGED type

block_meta_yaml ==
    /\ At({"yaml"}) /\ allow_meta
    /\ \E end \in Behind(l + 1, LineTypes \ {"empty", "setext2"}) :
          LET closed == end <= stop /\ type[end] = "setext2"
          IN  /\ Block("meta", IF closed THEN end ELSE end - 1, "none")
              /\ type' = IF closed THEN [type EXCEPT ![end] = "yaml"] ELSE type
-----------------------------------------------------------------------------
(* Paragraphs, setext headers and definition lists.                        *)

\* Mutant: a note may be defined inside a note
AnyNote == FALSE
\* The definition of a note inside a note is a paragraph that gets no tokens
NoteInNote == type[l] = "def_note" /\ is_endnote # 0
block_para ==
    /\ \/ At({"plain", "html", "setext1", "definition", "comment_stop"})
       \/ At({"meta"}) /\ ~allow_meta
       \/ At({"def_note"}) /\ NoteInNote
    /\ UNCHANGED type
    /\ \E end \in Behind(l + 1, accept_para_line) :
          LET turns == IF end <= stop THEN type[end] ELSE "plain"
              header == turns \in {"setext1", "setext2"}
              terms == [i \in 1..(end - l) |-> Node("term", Top.depth + 1, {l + i - 1}, "none")]
          IN  IF turns = "definition"
              THEN /\ tree' = tree \o <<Node("deflist", Top.depth, {}, "none")>> \o terms
                   /\ frames' = [frames EXCEPT ![Depth] = [@ EXCEPT
                          !.l = end, !.node = Len(tree) + 1,
                          !.within = IF NoteInNote THEN "raw deflist" ELSE "deflist"]]
                   /\ UNCHANGED <<lines, stripped, dropped, allow_meta, is_definition, is_endnote>>
              ELSE Block(IF header THEN "setext" ELSE "para", IF header THEN end ELSE end - 1,
                         IF NoteInNote THEN "none" ELSE Tokenized(l))
-----------------------------------------------------------------------------
(* Tables: a header, then sections with at most one empty line between     *)
(* them.                                                                   *)

block_table ==
    /\ At(accept_table_line)
    /\ UNCHANGED type
    /\ \E sep \in Behind(l, {"table"}) :
          LET isHeader == sep <= stop /\ type[sep] = "separator"
          IN  IF isHeader /\ sep < stop /\ type[sep + 1] = "table"
              THEN /\ tree' = tree \o <<Node("table", Top.depth, {}, "none"),
                                        Node("table_header", Top.depth + 1, l..sep, Rows(l..sep))>>
                   /\ frames' = [frames EXCEPT ![Depth] = [@ EXCEPT
                          !.l = sep + 1, !.within = "table", !.node = Len(tree) + 2]]
                   /\ UNCHANGED <<lines, stripped, dropped, allow_meta, is_definition, is_endnote>>
              ELSE \E end \in IF isHeader THEN {sep + 1} ELSE Behind(sep, accept_para_line) :
                      Block("para", end - 1, Tokenized(l))

\* mmd_parse_tokens_table makes rows of the lines and lets an empty line that
\* follows a row disappear
Vanishing(rows) ==
    {e \in rows : type[e] = "empty" /\ Cardinality({k \in rows : k <= e /\ type[k] = "empty"}) % 2 = 1}

\* The empty line before another section is grafted onto the header
block_table_section ==
    /\ frames # <<>> /\ Top.within = "table"
    /\ allow_meta' = FALSE
    /\ \E end \in Behind(l, accept_table_line) :
          LET empty == end <= stop /\ type[end] = "empty"
              section == Node("table_section", Top.depth + 1, l..(end - 1), Rows(l..(end - 1)))
              header == tree[Top.node].lines
              next == IF empty THEN end + 1 ELSE end
          IN  IF empty /\ end < stop /\ type[end + 1] \in accept_table_line
              THEN /\ tree' = Append([tree EXCEPT ![Top.node].lines = @ \cup {end}], section)
                   /\ frames' = [frames EXCEPT ![Depth].l = next]
                   /\ UNCHANGED dropped
              ELSE /\ tree' = [tree EXCEPT ![Top.node].lines = @ \ Vanishing(header)] \o <<section>>
                              \o Empties(end, next, Top.depth)
                   /\ dropped' = dropped \cup Vanishing(header)
                   /\ frames' = [frames EXCEPT ![Depth] = [@ EXCEPT
                          !.l = next, !.within = "blocks", !.node = 0]]
    /\ UNCHANGED <<lines, type, stripped, is_definition, is_endnote>>
-----------------------------------------------------------------------------
(* Recursion.                                                              *)

\* Skip a marker or an indentation and scan the rest of the line again
Rescan(ids, disabled) ==
    /\ type' = [i \in 1..N |-> IF i \in ids THEN lines[i][stripped[i] + 2]
                               ELSE IF i \in disabled THEN "plain" ELSE type[i]]
    /\ stripped' = [i \in 1..N |-> IF i \in ids THEN stripped[i] + 1 ELSE stripped[i]]

recursive_blockquote_parse(last) ==
    Rescan({i \in l..last : type[i] = "blockquote"}, {i \in l..last : type[i] = "setext1"})
recursive_indent_parse(last) ==
    Rescan({i \in l..last : i = l \/ type[i] = "indented"},
           {i \in l..last : type[i] \in {"setext1", "setext2"}})
recursive_endnote_parse(last) == Rescan({i \in l..last : i = l \/ type[i] = "indented"}, {})

\* The block of lines l..last gets children; the caller goes on at line next
Enter(kind, node, depth, last, next) ==
    /\ tree' = Append(tree, Node(node, depth, {}, "none"))
    /\ frames' = Append([frames EXCEPT ![Depth].l = next], Frame(kind, l, last, depth + 1))
    /\ UNCHANGED <<lines, dropped, allow_meta>>

block_blockquote ==
    /\ At({"blockquote"})
    /\ \E end \in Behind(l, accept_blockquote_line) :
          /\ Enter("quote", "blockquote", Top.depth, end - 1, end)
          /\ recursive_blockquote_parse(end - 1)
    /\ UNCHANGED <<is_definition, is_endnote>>

block_list ==
    /\ At({"bullet", "enum"})
    /\ tree' = Append(tree, Node("list", Top.depth, {}, "none"))
    /\ frames' = [frames EXCEPT ![Depth] = [@ EXCEPT !.within = type[l], !.node = Len(tree) + 1]]
    /\ UNCHANGED <<lines, type, stripped, dropped, allow_meta, is_definition, is_endnote>>

Within(parts) == frames # <<>> /\ Top.within \in parts
Goes(types) == l <= stop /\ type[l] \in types
\* Mutant: the empty lines in an item are not noticed
TightListItem ==
    /\ Within({"bullet", "enum"}) /\ Goes({Top.within})
    /\ \E x \in Extents(accept_chunk_line) :
          /\ Enter("item", "item_tight", Top.depth + 1, x.end - 1, x.rest)
          /\ recursive_indent_parse(x.end - 1)
    /\ UNCHANGED <<is_definition, is_endnote>>

block_list_item ==
    /\ Within({"bullet", "enum"}) /\ Goes({Top.within})
    /\ \E x \in Extents(accept_chunk_line) :
          LET loose == \E k \in x.head..(x.end - 1) : type[k] = "empty"
          IN  /\ Enter("item", IF loose THEN "item" ELSE "item_tight", Top.depth + 1, x.end - 1, x.rest)
              /\ recursive_indent_parse(x.end - 1)
    /\ UNCHANGED <<is_definition, is_endnote>>

block_definition ==
    /\ Within({"deflist", "raw deflist"}) /\ Goes({"definition"})
    /\ \E x \in Extents(accept_tail_line) :
          /\ Enter("definition", "definition", Top.depth + 1, x.end - 1, x.rest)
          /\ recursive_indent_parse(x.end - 1)
    /\ is_definition' = is_definition + 1
    /\ UNCHANGED is_endnote

\* Mutant: no label is found behind an indentation
ScanUnstripped(i) == stripped[i] = 0
(* scan_ref_endnote reads the label from the start of the line: it finds   *)
(* none behind another marker, and what the definition says is dropped.    *)
scan_ref_endnote(i) == ~Marked({i}, Markers \ {"indented"})
block_endnote_definition ==
    /\ At({"def_note"}) /\ ~NoteInNote
    /\ UNCHANGED is_definition
    /\ \E x \in Extents(accept_chunk_line) :
          IF scan_ref_endnote(l)
          THEN /\ Enter("note", "def_note", Top.depth, x.end - 1, x.rest)
               /\ recursive_endnote_parse(x.end - 1)
               /\ is_endnote' = is_endnote + 1
          ELSE /\ Emit(<<Node("para", Top.depth, {}, "none")>> \o Empties(x.end, x.rest, Top.depth), x.rest)
               /\ dropped' = dropped \cup (l..(x.end - 1))
               /\ allow_meta' = FALSE
               /\ UNCHANGED <<lines, type, stripped, is_endnote>>

(* blocks() has used up its lines and returns.  An item, a definition and  *)
(* a note pass on the empty lines behind them.                             *)
Leaving(kind, count) == IF Top.kind = kind THEN count - 1 ELSE count
Return ==
    /\ Depth > 1 /\ Top.within = "blocks" /\ l > stop
    /\ frames' = SubSeq(frames, 1, Depth - 1)
    /\ tree' = tree \o Empties(stop + 1, frames[Depth - 1].l, Top.depth - 1)
    /\ is_definition' = Leaving("definition", is_definition)
    /\ is_endnote' = Leaving("note", is_endnote)
    /\ UNCHANGED <<lines, type, stripped, dropped, allow_meta>>

\* A list is loose if empty lines are followed by more of the list or of an item
Loose(list) ==
    \E m \in (list + 1)..(Len(tree) - 1) :
        /\ tree[m].type = "empty"
        /\ tree[m].depth <= tree[list].depth + 2 /\ tree[m + 1].depth = tree[m].depth
flag_list_loose ==
    LET list == Top.node
        Loosened(m) == CASE m = list -> "list_loose"
                         [] /\ m > list /\ tree[m].type = "item_tight"
                            /\ tree[m].depth = tree[list].depth + 1 -> "item"
                         [] OTHER -> tree[m].type
    IN  /\ Within({"bullet", "enum"}) /\ ~Goes({Top.within})
        /\ tree' = IF ~Loose(list) THEN tree
                   ELSE [m \in 1..Len(tree) |-> [tree[m] EXCEPT !.type = Loosened(m)]]
        /\ frames' = [frames EXCEPT ![Depth] = [@ EXCEPT !.within = "blocks", !.node = 0]]
        /\ allow_meta' = FALSE
        /\ UNCHANGED <<lines, type, stripped, dropped, is_definition, is_endnote>>

\* The end of a definition list: what has no tokens yet is tokenized, and
\* is_definition is left at 0
\* Mutant: the first term is left out
LateButFirst(list, m) == m > list + 1 /\ tree[m].tokens = "none" /\ tree[m].lines # {}
Late(list, m) == m > list /\ tree[m].tokens = "none" /\ tree[m].lines # {}
First(ids) == CHOOSE i \in ids : \A k \in ids : i <= k
mmd_parse_tokens_deflist ==
    LET list == Top.node
    IN  /\ Within({"deflist", "raw deflist"}) /\ ~Goes({"definition"})
        /\ IF Top.within = "deflist"
           THEN /\ tree' = [m \in 1..Len(tree) |->
                              IF ~Late(list, m) THEN tree[m]
                              ELSE [tree[m] EXCEPT !.tokens = IF m = list + 1 THEN Tokenized(First(tree[m].lines))
                                                              ELSE "tokens"]]
                /\ is_definition' = 0
           ELSE UNCHANGED <<tree, is_definition>>
        /\ frames' = [frames EXCEPT ![Depth] = [@ EXCEPT !.within = "blocks", !.node = 0]]
        /\ allow_meta' = FALSE
        /\ UNCHANGED <<lines, type, stripped, dropped, is_endnote>>

\* The outermost call returns: doc() has its tree
doc ==
    /\ Depth = 1 /\ Top.within = "blocks" /\ l > stop
    /\ frames' = <<>>
    /\ UNCHANGED <<lines, type, stripped, tree, dropped, allow_meta, is_definition, is_endnote>>

block ==
    \/ block_atx \/ block_toc \/ block_hr \/ block_empty \/ block_reference_def_a
    \/ block_html \/ block_html_comment \/ block_code_fenced \/ block_code_indented
    \/ block_meta \/ block_meta_yaml \/ block_para \/ block_table \/ block_table_section
    \/ block_blockquote \/ block_list \/ block_list_item \/ flag_list_loose
    \/ block_definition \/ mmd_parse_tokens_deflist \/ block_endnote_definition

Next == block \/ Return \/ doc

Spec == Init /\ [][Next]_vars
FairSpec == Spec /\ WF_vars(Next)
-----------------------------------------------------------------------------
(* Properties.                                                             *)

Blocks == {"header", "toc", "hr", "empty", "def_link", "html", "code_fenced", "code_indented",
           "meta", "para", "setext", "deflist", "table", "blockquote", "list", "list_loose", "def_note"}
Lists == {"list", "list_loose"}
Items == {"item", "item_tight"}
Nodes == Blocks \cup Items \cup {"term", "definition", "table_header", "table_section"}
Kinds == {"doc", "quote", "item", "definition", "note"}

StrippedMarkers == UNION {{i} \X (1..stripped[i]) : i \in 1..N}

\* The types of the state.  No node and no activation reaches behind the text,
\* and no more markers are stripped from a line than it has.  Nothing else bounds
\* the recursion of blocks(): each activation has stripped a marker from its
\* first line.  (It is not bounded by the markers of one line: an indented line
\* may be in a quote without being stripped.)
TypeOK ==
    /\ lines \in Documents
    /\ type \in [1..N -> LineTypes]
    /\ stripped \in [1..N -> Nat] /\ \A i \in 1..N : stripped[i] < Len(lines[i])
    /\ tree \in Seq([type : Nodes, depth : Nat, lines : SUBSET (1..N),
                     tokens : {"none", "tokens", "exposed"}])
    /\ dropped \subseteq 1..N
    /\ frames \in Seq([kind : Kinds, l : 1..(N + 1), stop : 1..N, depth : Nat, node : 0..Len(tree),
                       within : {"blocks", "bullet", "enum", "deflist", "raw deflist", "table"}])
    /\ Depth <= 1 + Cardinality(StrippedMarkers)
    /\ allow_meta \in BOOLEAN /\ is_definition \in Int /\ is_endnote \in Nat

\* mmd_node_feed_new_parent and its callers unlink lines from one chain and put
\* them into another.  A line that was passed is in exactly one block, or was
\* dropped; the others are in none.
LinesPlaced ==
    \A i \in 1..N :
        Cardinality({m \in 1..Len(tree) : i \in tree[m].lines}) + (IF i \in dropped THEN 1 ELSE 0)
        = IF frames = <<>> \/ i < l THEN 1 ELSE 0

\* The only text that is dropped are the definitions of notes that stand behind
\* a quote, list or definition marker, so that scan_ref_endnote finds no label.
OnlyUnreadableNotesAreLost ==
    \A i \in dropped :
        \/ type[i] = "empty"
        \/ \E j \in 1..i : /\ j..i \subseteq dropped /\ type[j] = "def_note"
                           /\ Marked({j}, Markers \ {"indented"})

\* No line is lost or put into two blocks, but for those notes.
LinesKept == LinesPlaced /\ OnlyUnreadableNotesAreLost

\* A definition list with another one inside it
NestedDeflist ==
    \E m, n \in 1..Len(tree) :
        /\ m < n /\ tree[m].type = "deflist" /\ tree[n].type = "deflist"
        /\ \A k \in (m + 1)..n : tree[k].depth > tree[m].depth
Activations(kind) == Cardinality({d \in 1..Depth : frames[d].kind = kind})

\* is_endnote and is_definition say what blocks() is inside of: notes do not
\* nest, and definitions are counted right until a nested list of them ends.
FlagsAgree ==
    /\ is_endnote = Activations("note") /\ is_endnote <= 1
    /\ is_definition <= Activations("definition")
    /\ is_definition = Activations("definition") \/ NestedDeflist

\* allow_meta is cleared by each blocks() behind its first block, and the parses
\* inside of that block run before: what comes before metadata is what it is in,
\* or the terms of the definition that it is the text of.
MetadataComesFirst ==
    \A m \in 1..Len(tree), k \in 1..Len(tree) :
        tree[m].type = "meta" /\ k < m =>
            \/ \A j \in (k + 1)..m : tree[j].depth > tree[k].depth
            \/ /\ tree[k].type = "term"
               /\ \E d \in (k + 1)..(m - 1) : /\ tree[d].type = "definition"
                                              /\ tree[d].depth = tree[k].depth
                                              /\ \A j \in (k + 1)..m : tree[j].depth >= tree[k].depth

\* In the end all text was tokenized, except that of a note defined in a note
\* and of the terms that follow it.
TextTokenized ==
    frames = <<>> =>
        \A m \in 1..Len(tree) :
            tree[m].type \in {"para", "header", "setext", "term"} /\ tree[m].lines # {} =>
                \/ tree[m].tokens # "none"
                \/ \E k \in 1..m : /\ tree[k].type \in {"para", "setext", "term"}
                                   /\ \E i \in tree[k].lines : lines[i][stripped[i] + 1] = "def_note"
                                   /\ \A j \in k..m : tree[j].depth = tree[k].depth

\* The tokenizer hides the colon of a definition (is_definition) and every other
\* marker that was stripped, except in the rows of tables; after a nested
\* definition list it may fail to.
MarkersHidden ==
    \A m \in 1..Len(tree) :
        tree[m].tokens = "exposed" => tree[m].type \in {"table_header", "table_section"} \/ NestedDeflist

\* The tree the exporters walk: what each kind of block may have for children,
\* although empty lines, terms and sections are appended from several places.
TreeWellFormed ==
    \A m \in 1..Len(tree) :
        /\ m = 1 => tree[m].depth = 0
        /\ m > 1 => tree[m].depth <= tree[m - 1].depth + 1
        /\ LET above == {k \in 1..(m - 1) : /\ tree[k].depth = tree[m].depth - 1
                                            /\ \A j \in (k + 1)..m : tree[j].depth >= tree[m].depth}
               parents == {tree[k].type : k \in above}
           IN  CASE tree[m].type \in Items -> \E t \in Lists : parents = {t}
                 [] tree[m].type \in {"term", "definition"} -> parents = {"deflist"}
                 [] tree[m].type \in {"table_header", "table_section"} -> parents = {"table"}
                 [] OTHER -> \/ tree[m].depth = 0
                             \/ \E t \in Items \cup {"blockquote", "def_note", "definition"} : parents = {t}
                             \/ tree[m].type = "empty" /\ \E t \in Lists \cup {"deflist"} : parents = {t}

\* block_list_item judges from the lines whether an item is tight, before its
\* blocks are known: no empty line then separates two of them.
TightItemsHaveNoGaps ==
    \A m \in 1..Len(tree), k \in 1..(Len(tree) - 1) :
        /\ tree[m].type = "item_tight" /\ m < k /\ \A j \in (m + 1)..k : tree[j].depth > tree[m].depth
        /\ tree[k].depth = tree[m].depth + 1 /\ tree[k + 1].depth = tree[k].depth
        => tree[k].type # "empty" \/ \A i \in tree[k].lines : stripped[i] > 0

\* The tree has the shape that the exporters expect.
TreeShaped == TreeWellFormed /\ TightItemsHaveNoGaps

Place == [i \in 1..N |-> CASE i \in dropped -> "lost"
                           [] \E m \in 1..Len(tree) : i \in tree[m].lines -> "block"
                           [] OTHER -> "unread"]
Reader == INSTANCE LineReader WITH place <- Place

\* The parser reads the lines in order, each once, and gets to the last one;
\* then doc() returns.
ReadsLinesInOrder == Reader!FairSpec /\ <>(frames = <<>>)
=============================================================================
