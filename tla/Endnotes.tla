------------------------------ MODULE Endnotes ------------------------------
(***************************************************************************)
(* The HTML export writes the document and then three sections: footnotes, *)
(* glossary and citations.  A note gets its number when it is first        *)
(* referred to, in the document or in the entry of another note, so that a *)
(* section grows while it is being written (export_html_endnote_section).  *)
(*                                                                         *)
(* A document is a table of definitions and a table of references; what is *)
(* exported is a sequence of references, ends of paragraphs and ends of    *)
(* links.  The text around them is left out.                               *)
(***************************************************************************)
EXTENDS Integers, Sequences, FiniteSetsExt

CONSTANT Documents  \* the documents: see DocumentType

\* The order of the sections (export_html_endnotes)
Kinds == {"note", "glos", "cite"}
Section == <<"note", "glos", "cite">>

\* Where a reference is: to definition `to`, or to its own text if to = 0.
\* inside: the references of its own text, or of its locator
Numbers == Nat \ {0}
Reference == [kind : Kinds, to : Nat, how : {"cited", "not_cited", "locator"}, inside : Seq(Numbers)]
\* The references are in the first paragraph.  paras: which of the paragraphs
\* that are exported are at the top level; captions: how many more paragraphs at
\* the top level are the caption of the table before them (table_has_caption).
Definition == [kind : Kinds, refs : Seq(Numbers), paras : Seq(BOOLEAN), captions : Nat]
DocumentType == [body : Seq(Numbers), refs : Seq(Reference), defs : Seq(Definition)]

Resolved(d) ==
    /\ \A i \in DOMAIN d.body : d.body[i] \in DOMAIN d.refs
    /\ \A r \in DOMAIN d.refs :
           /\ d.refs[r].to # 0 => /\ d.refs[r].to \in DOMAIN d.defs
                                  /\ d.defs[d.refs[r].to].kind = d.refs[r].kind
           /\ d.refs[r].how # "cited" => d.refs[r].kind = "cite"
           /\ \A i \in DOMAIN d.refs[r].inside : d.refs[r].inside[i] \in DOMAIN d.refs
    /\ \A e \in DOMAIN d.defs :
           \A i \in DOMAIN d.defs[e].refs : d.defs[e].refs[i] \in DOMAIN d.refs

ASSUME DocumentsAssumption == \A d \in Documents : d \in DocumentType /\ Resolved(d)

VARIABLES doc,
          defs,       \* the endnote_defs: those of the document, then those of inline notes
          used_stack, \* used_note_stack, used_glos_stack and used_cite_stack
          todo,       \* what is left to export of the document or of an entry
          section,    \* 0 for the document, then the section that is written
          i,          \* how many of its entries were begun
          in_endnote, skip_endnote_label,
          endnote_return,               \* "none", "set", or "freed" but not NULL
          endnote_return_para_counter,
          out         \* what was written: links, anchors, entries, ways back, ends of sections

vars == <<doc, defs, used_stack, todo, section, i, in_endnote, skip_endnote_label,
          endnote_return, endnote_return_para_counter, out>>
-----------------------------------------------------------------------------
Item(what, of) == [what |-> what, of |-> of]
Ref(r) == Item("ref", r)
Refs(list) == [k \in DOMAIN list |-> Ref(list[k])]
Para(top) == Item("para", IF top THEN 1 ELSE 0)

\* The paragraphs of a definition that are exported.  The first one begins with
\* the label, which is a bracket pair too.  A caption is written inside its table,
\* and the paragraph is passed over (skip_blocks).
Content(e) ==
    LET def == doc.defs[e]
    IN  <<Item("label", e)>> \o Refs(def.refs) \o [k \in DOMAIN def.paras |-> Para(def.paras[k])]

Written(tag, kind, number) == [tag |-> tag, kind |-> kind, number |-> number]

Def(kind, of, inline) == [kind |-> kind, of |-> of, is_inline |-> inline,
                          index |-> 0, used |-> FALSE]

Init ==
    /\ doc \in Documents
    /\ defs = [e \in DOMAIN doc.defs |-> Def(doc.defs[e].kind, e, FALSE)]
    /\ used_stack = [k \in Kinds |-> <<>>]
    /\ todo = Refs(doc.body)
    /\ section = 0 /\ i = 0
    /\ in_endnote = FALSE /\ skip_endnote_label = FALSE
    /\ endnote_return = "none" /\ endnote_return_para_counter = 0
    /\ out = <<>>
\* The next token
Rest(list) == Tail(list)
Same(list) == list  \* mutant
Following(list) == Rest(list)
-----------------------------------------------------------------------------
(* References                                                              *)

\* e gets the next number of its kind, when it is used for the first time
NumberOf(e, list) == IF list[e].index = 0 THEN Len(used_stack[list[e].kind]) + 1 ELSE list[e].index
Pushed(e, list) ==
    IF list[e].index = 0 THEN [used_stack EXCEPT ![list[e].kind] = Append(@, e)] ELSE used_stack
PushedAgain(e, list) ==  \* mutant
    [used_stack EXCEPT ![list[e].kind] = Append(@, e)]
PushedIndex(e, list) ==  \* mutant
    [used_stack EXCEPT ![list[e].kind] = Append(@, list[e].index)]
Register(e, list) == Pushed(e, list)

\* The link, and its anchor when e was not used before.  A citation writes the
\* locator before it counts as used.
Link(e, list, inside) ==
    LET kind == list[e].kind
        number == NumberOf(e, list)
    IN  /\ used_stack' = Register(e, list)
        /\ defs' = [list EXCEPT ![e].index = number,
                                ![e].used = @ \/ inside = <<>>]
        /\ out' = out \o <<Written("link", kind, number)>>
                      \o (IF list[e].used THEN <<>> ELSE <<Written("anchor", kind, number)>>)
        /\ todo' = Refs(inside) \o (IF inside = <<>> THEN <<>> ELSE <<Item("used", e)>>) \o Following(todo)

\* [Not cited][#...] gives the note a number and writes nothing
NotCited(e, list) ==
    /\ used_stack' = Register(e, list)
    /\ defs' = [list EXCEPT ![e].index = NumberOf(e, list), ![e].used = @ \/ list[e].index = 0]
    /\ todo' = Following(todo)
    /\ UNCHANGED out

export_endnote_def(e, list, ref) ==
    CASE ref.how = "not_cited" -> NotCited(e, list)
      [] ref.how = "locator"   -> Link(e, list, ref.inside)
      [] ref.how = "cited"     -> Link(e, list, <<>>)

Busy(what) == todo # <<>> /\ todo[1].what = what

\* The definition that a reference is taken for.  A text has the key of the last
\* brackets in it, wherever they stand (md_id_from_text): an inline note with
\* references in it is taken for the note that the last one refers to.
Target(r) ==
    LET ref == doc.refs[r]
        last == doc.refs[ref.inside[Len(ref.inside)]]
    IN  IF ref.to # 0 THEN ref.to
        ELSE IF ref.how # "locator" /\ ref.inside # <<>> /\ last.how = "cited" /\ last.kind = ref.kind
        THEN last.to
        ELSE 0

\* A note that the document defines (export_implicit_footnote, _citation,
\* _glossary, and export_split_citation for a locator)
ReferToDefined ==
    /\ Busy("ref")
    /\ LET r == todo[1].of
       IN  Target(r) # 0 /\ export_endnote_def(Target(r), defs, doc.refs[r])
    /\ UNCHANGED <<doc, section, i, in_endnote, skip_endnote_label,
                   endnote_return, endnote_return_para_counter>>

\* A note with its own text: an endnote_def of its own.  After a locator the
\* references inside are those of the locator.
ReferInline ==
    /\ Busy("ref")
    /\ LET r == todo[1].of
           list == Append(defs, Def(doc.refs[r].kind, r, TRUE))
       IN  Target(r) = 0 /\ export_endnote_def(Len(list), list, doc.refs[r])
    /\ UNCHANGED <<doc, section, i, in_endnote, skip_endnote_label,
                   endnote_return, endnote_return_para_counter>>

\* The locator is written
MarkUsed ==
    /\ Busy("used")
    /\ defs' = [defs EXCEPT ![todo[1].of].used = TRUE]
    /\ todo' = Following(todo)
    /\ UNCHANGED <<doc, used_stack, section, i, in_endnote, skip_endnote_label,
                   endnote_return, endnote_return_para_counter, out>>

\* The label of a definition is passed over once; otherwise it is a reference
Label ==
    /\ Busy("label")
    /\ IF in_endnote /\ skip_endnote_label
       THEN /\ skip_endnote_label' = FALSE
            /\ todo' = Following(todo)
            /\ UNCHANGED <<defs, used_stack, out>>
       ELSE /\ Link(todo[1].of, defs, <<>>)
            /\ UNCHANGED skip_endnote_label
    /\ UNCHANGED <<doc, section, i, in_endnote, endnote_return, endnote_return_para_counter>>
-----------------------------------------------------------------------------
(* Sections                                                                *)

Kind == Section[section]
Entry == used_stack[Kind][i]

\* The end of a paragraph of an entry: the way back is in the last of the
\* paragraphs that were counted
EndPara ==
    /\ Busy("para")
    /\ todo' = Following(todo)
    /\ IF in_endnote /\ endnote_return # "none"
       THEN /\ endnote_return_para_counter' = endnote_return_para_counter - 1
            /\ IF endnote_return_para_counter = 1
               THEN /\ out' = Append(out, Written("return", Kind, defs[Entry].index))
                    /\ endnote_return' = "none"
               ELSE UNCHANGED <<out, endnote_return>>
       ELSE UNCHANGED <<endnote_return_para_counter, out, endnote_return>>
    /\ UNCHANGED <<doc, defs, used_stack, section, i, in_endnote, skip_endnote_label>>

TopParas(e) == LET paras == doc.defs[e].paras IN Cardinality({k \in DOMAIN paras : paras[k]})
ParasBehindFirst(e) ==  \* mutant
    TopParas(e) + doc.defs[e].captions - (IF doc.defs[e].paras[1] THEN 1 ELSE 0)
\* Captions are paragraphs at the top level, and are counted with the others
ParasOf(e) == TopParas(e) + doc.defs[e].captions

\* s->size is read again for every entry
SizeNow(kind) == Len(used_stack[kind])
\* mutant: the size when the section begins
SizeAtStart(kind) ==
    LET entries == {k \in DOMAIN out : out[k].tag = "entry" /\ out[k].kind = kind}
        start == Min(entries \cup {Len(out) + 1})
    IN  Cardinality({out[k].number : k \in {l \in 1..(start - 1) : out[l].tag = "link" /\ out[l].kind = kind}})
Size(kind) == SizeNow(kind)

BeginEntry ==
    /\ todo = <<>> /\ section \in 1..3 /\ ~in_endnote /\ i < Size(Kind)
    /\ i' = i + 1
    /\ in_endnote' = TRUE
    /\ LET e == used_stack[Kind][i + 1]
           of == defs[e].of
       IN  /\ out' = Append(out, Written("entry", Kind, defs[e].index))
           /\ IF defs[e].is_inline
              THEN /\ todo' = IF doc.refs[of].how = "locator" THEN <<>> ELSE Refs(doc.refs[of].inside)
                   /\ UNCHANGED <<skip_endnote_label, endnote_return, endnote_return_para_counter>>
              ELSE /\ todo' = Content(of)
                   /\ skip_endnote_label' = TRUE
                   /\ endnote_return' = "set"
                   /\ endnote_return_para_counter' = ParasOf(of)
    /\ UNCHANGED <<doc, defs, used_stack, section>>

\* After the text of an inline note; or endnote_return is freed
EndEntry ==
    /\ todo = <<>> /\ in_endnote
    /\ in_endnote' = FALSE
    /\ skip_endnote_label' = FALSE
    /\ IF defs[Entry].is_inline
       THEN /\ out' = Append(out, Written("return", Kind, defs[Entry].index))
            /\ UNCHANGED endnote_return
       ELSE /\ endnote_return' = IF endnote_return = "none" THEN "none" ELSE "freed"
            /\ UNCHANGED out
    /\ UNCHANGED <<doc, defs, used_stack, todo, section, i, endnote_return_para_counter>>

NextSection ==
    /\ todo = <<>> /\ ~in_endnote
    /\ section \in 0..3
    /\ section # 0 => i >= Size(Kind)
    /\ out' = IF section = 0 THEN out ELSE Append(out, Written("end", Kind, 0))
    /\ section' = section + 1
    /\ i' = 0
    /\ UNCHANGED <<doc, defs, used_stack, todo, in_endnote, skip_endnote_label,
                   endnote_return, endnote_return_para_counter>>

Next == \/ ReferToDefined \/ ReferInline \/ MarkUsed \/ Label
        \/ EndPara \/ BeginEntry \/ EndEntry \/ NextSection

Done == section = 4

Spec == Init /\ [][Next]_vars
FairSpec == Spec /\ WF_vars(Next)
-----------------------------------------------------------------------------
(* Properties                                                              *)

Items == [what : {"ref", "used", "label", "para"}, of : Nat]
EndnoteDef == [kind : Kinds, of : Numbers, is_inline : BOOLEAN, index : Nat, used : BOOLEAN]
Stacks == [Kinds -> Seq(Numbers)]
Output == [tag : {"link", "anchor", "entry", "return", "end"}, kind : Kinds, number : Nat]

\* Types of the variables
TypeOK ==
    /\ defs \in Seq(EndnoteDef) /\ used_stack \in Stacks
    /\ todo \in Seq(Items)
    /\ section \in 0..4 /\ i \in Nat
    /\ in_endnote \in BOOLEAN /\ skip_endnote_label \in BOOLEAN
    /\ endnote_return \in {"none", "set", "freed"}
    /\ endnote_return_para_counter \in Int
    /\ out \in Seq(Output)

\* The numbers in a list of notes are their places on the stacks, and the other
\* way round
Numbered(list, stacks) ==
    /\ \A e \in DOMAIN list :
           list[e].index # 0 => /\ list[e].index \in DOMAIN stacks[list[e].kind]
                                /\ stacks[list[e].kind][list[e].index] = e
    /\ \A kind \in Kinds : \A k \in DOMAIN stacks[kind] :
           /\ stacks[kind][k] \in DOMAIN list
           /\ list[stacks[kind][k]].kind = kind
           /\ list[stacks[kind][k]].index = k

\* The number of a note is its place on the stack of its kind, and every place
\* is the number of one note: two notes never share a number, and links,
\* entries and anchors that are printed at different times agree.
NumbersArePlaces == Numbered(defs, used_stack)

Places(tag, kind, number) ==
    {k \in DOMAIN out : out[k].tag = tag /\ out[k].kind = kind /\ out[k].number = number}
Count(tag, kind, number) == Cardinality(Places(tag, kind, number))
EndOf(kind) == CHOOSE k \in DOMAIN out : out[k].tag = "end" /\ out[k].kind = kind
Entries(kind) == {k \in DOMAIN out : out[k].tag = "entry" /\ out[k].kind = kind}

\* When a section ends, each note of the kind that was referred to by then has
\* exactly one entry in it, in the order of the numbers, those included that
\* were found while it was written.  A note that only a later section refers to
\* has none, and its link leads nowhere.
SectionsComplete ==
    Done => \A kind \in Kinds :
        /\ \A k \in Entries(kind) : out[k].number = Cardinality({l \in Entries(kind) : l <= k})
        /\ \A k \in 1..EndOf(kind) :
               out[k].tag = "link" /\ out[k].kind = kind => out[k].number <= Cardinality(Entries(kind))

\* The references that are exported with a reference: itself, those of its
\* locator, and so on
Closed(some) ==
    \A r \in some : doc.refs[r].how = "locator" =>
        \A k \in DOMAIN doc.refs[r].inside : doc.refs[r].inside[k] \in some
Within(r) == {q \in DOMAIN doc.refs : \A some \in SUBSET DOMAIN doc.refs : r \in some /\ Closed(some) => q \in some}
Cites(r) == {Target(q) : q \in Within(r)}

\* A definition that the locator of a reference to it refers to
InOwnLocator(e) ==
    \E r \in DOMAIN doc.refs :
        /\ Target(r) = e /\ doc.refs[r].how = "locator"
        /\ \E k \in DOMAIN doc.refs[r].inside : e \in Cites(doc.refs[r].inside[k])
NotedUncited(e) ==
    IF defs[e].is_inline THEN doc.refs[defs[e].of].how = "not_cited"
    ELSE \E r \in DOMAIN doc.refs : Target(r) = e /\ doc.refs[r].how = "not_cited"

\* A definition with paragraphs at its top level, all of which are exported
HasWay(e) == TopParas(e) > 0 /\ doc.defs[e].captions = 0

\* No entry has two ways back.  It has one, unless none of its paragraphs is at
\* its top level or a table there has a caption: the caption is counted as a
\* paragraph but passed over, and the count may not come to 0.  The way back
\* leads to the one anchor at the first link.  The exceptions: a note that is
\* also referred to as not cited may have no anchor, and one that is cited in
\* its own locator may have several.
WaysBack ==
    Done => \A kind \in Kinds : \A k \in DOMAIN used_stack[kind] :
        LET e == used_stack[kind][k]
            entries == Count("entry", kind, k)
            returns == Count("return", kind, k)
            anchors == Count("anchor", kind, k)
        IN  /\ returns <= entries
            /\ defs[e].is_inline \/ HasWay(defs[e].of) => returns = entries
            /\ ~NotedUncited(e) /\ (defs[e].is_inline \/ ~InOwnLocator(e)) =>
                   /\ anchors = 1
                   /\ \A a \in Places("anchor", kind, k), l \in Places("link", kind, k) : l >= a - 1

\* Entries that refer to each other do not keep a section from ending.
ExportEnds == <>Done
=============================================================================
