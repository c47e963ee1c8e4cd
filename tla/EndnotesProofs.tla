--------------------------- MODULE EndnotesProofs ---------------------------
(***************************************************************************)
(* For all documents: the variables have their types, and the number of a  *)
(* note is its place on the stack of its kind.  The inductive invariant    *)
(* adds that everything that is left to export resolves, and that the      *)
(* entry that is written is on the stack, which only grows.                *)
(*                                                                         *)
(* And what is written is complete: a section has the entries of all notes *)
(* in their order, and a note that has an entry has its way back.  The     *)
(* second invariant, XInv, says of every state of the export where the     *)
(* entries, links, anchors and ways back that it owes are: written at one  *)
(* place, or still to come in what is left to export.                      *)
(***************************************************************************)
EXTENDS Endnotes, TLAPS, SequenceTheorems, FiniteSetTheorems

\* What can be exported when the given definitions are known
Good(known) ==
    {x \in Items : /\ x.what = "ref" => x.of \in DOMAIN doc.refs
                   /\ x.what = "label" => x.of \in DOMAIN doc.defs
                   /\ x.what = "used" => x.of \in known}

\* Every endnote_def has a definition of the document, or the text of a reference
Based(list) ==
    \A e \in DOMAIN list :
        list[e].of \in (IF list[e].is_inline THEN DOMAIN doc.refs ELSE DOMAIN doc.defs)

Resolves ==
    /\ doc \in Documents
    /\ DOMAIN doc.defs \subseteq DOMAIN defs
    /\ Based(defs)
    /\ todo \in Seq(Good(DOMAIN defs))
    /\ in_endnote => section \in 1..3 /\ i \in DOMAIN used_stack[Section[section]]

IInv == TypeOK /\ NumbersArePlaces /\ Resolves
-----------------------------------------------------------------------------
\* What DocumentsAssumption says of a document, place by place.
LEMMA DocumentFacts ==
    ASSUME doc \in Documents
    PROVE  /\ doc.refs \in Seq(Reference) /\ doc.defs \in Seq(Definition) /\ doc.body \in Seq(Numbers)
           /\ \A r \in DOMAIN doc.refs :
                  /\ doc.refs[r] \in Reference /\ r \in Numbers
                  /\ doc.refs[r].inside \in Seq(DOMAIN doc.refs)
                  /\ doc.refs[r].to # 0 => doc.refs[r].to \in DOMAIN doc.defs
           /\ \A e \in DOMAIN doc.defs :
                  /\ doc.defs[e] \in Definition /\ e \in Numbers
                  /\ doc.defs[e].refs \in Seq(DOMAIN doc.refs)
           /\ doc.body \in Seq(DOMAIN doc.refs)
<1>1. doc \in DocumentType /\ Resolved(doc)
  BY DocumentsAssumption
<1>2. /\ doc.refs \in Seq(Reference) /\ doc.defs \in Seq(Definition) /\ doc.body \in Seq(Numbers)
  BY <1>1 DEF DocumentType
<1>3. ASSUME NEW r \in DOMAIN doc.refs
      PROVE  /\ doc.refs[r] \in Reference /\ r \in Numbers
             /\ doc.refs[r].inside \in Seq(DOMAIN doc.refs)
             /\ doc.refs[r].to # 0 => doc.refs[r].to \in DOMAIN doc.defs
  <2>1. r \in 1..Len(doc.refs) /\ Len(doc.refs) \in Nat
    BY <1>2, LenProperties
  <2>2. doc.refs[r] \in Reference
    BY <1>2, <2>1, ElementOfSeq
  <2>3. doc.refs[r].inside \in Seq(Numbers)
    BY <2>2 DEF Reference
  <2>4. \A k \in DOMAIN doc.refs[r].inside : doc.refs[r].inside[k] \in DOMAIN doc.refs
    BY <1>1 DEF Resolved
  <2>5. doc.refs[r].inside \in Seq(DOMAIN doc.refs)
    BY <2>3, <2>4
  <2> QED BY <2>1, <2>2, <2>5, <1>1 DEF Resolved, Numbers
<1>4. ASSUME NEW e \in DOMAIN doc.defs
      PROVE  /\ doc.defs[e] \in Definition /\ e \in Numbers
             /\ doc.defs[e].refs \in Seq(DOMAIN doc.refs)
  <2>1. e \in 1..Len(doc.defs) /\ Len(doc.defs) \in Nat
    BY <1>2, LenProperties
  <2>2. doc.defs[e] \in Definition
    BY <1>2, <2>1, ElementOfSeq
  <2>3. doc.defs[e].refs \in Seq(Numbers)
    BY <2>2 DEF Definition
  <2>4. \A k \in DOMAIN doc.defs[e].refs : doc.defs[e].refs[k] \in DOMAIN doc.refs
    BY <1>1 DEF Resolved
  <2>5. doc.defs[e].refs \in Seq(DOMAIN doc.refs)
    BY <2>3, <2>4
  <2> QED BY <2>1, <2>2, <2>5 DEF Numbers
<1>5. doc.body \in Seq(DOMAIN doc.refs)
  <2>1. \A k \in DOMAIN doc.body : doc.body[k] \in DOMAIN doc.refs
    BY <1>1 DEF Resolved
  <2>2. doc.body \in Seq(Numbers)
    BY <1>2
  <2> QED BY <2>1, <2>2
<1> QED BY <1>2, <1>3, <1>4, <1>5

\* A list of references can be exported.
LEMMA RefsAreGood ==
    ASSUME doc \in Documents, NEW known, NEW list \in Seq(DOMAIN doc.refs)
    PROVE  Refs(list) \in Seq(Good(known))
<1>1. DOMAIN list = 1..Len(list) /\ Len(list) \in Nat
  BY LenProperties
<1>2. \A k \in 1..Len(list) : Ref(list[k]) \in Good(known)
  <2> SUFFICES ASSUME NEW k \in 1..Len(list) PROVE Ref(list[k]) \in Good(known)
    OBVIOUS
  <2>1. list[k] \in DOMAIN doc.refs
    BY ElementOfSeq
  <2>2. list[k] \in Nat
    BY <2>1, DocumentFacts DEF Numbers
  <2> QED BY <2>1, <2>2 DEF Ref, Item, Good, Items
<1> QED BY <1>1, <1>2 DEF Refs

\* So can the paragraphs of a definition.
LEMMA ContentIsGood ==
    ASSUME doc \in Documents, NEW known, NEW e \in DOMAIN doc.defs
    PROVE  Content(e) \in Seq(Good(known))
<1> DEFINE paras == doc.defs[e].paras
<1>1. doc.defs[e] \in Definition /\ e \in Nat /\ doc.defs[e].refs \in Seq(DOMAIN doc.refs)
  BY DocumentFacts DEF Numbers
<1>2. paras \in Seq(BOOLEAN)
  BY <1>1 DEF Definition
<1>3. <<Item("label", e)>> \in Seq(Good(known))
  <2>1. Item("label", e) \in Good(known)
    BY <1>1 DEF Item, Good, Items
  <2> QED BY <2>1
<1>4. Refs(doc.defs[e].refs) \in Seq(Good(known))
  BY <1>1, RefsAreGood
<1>5. [k \in DOMAIN paras |-> Para(paras[k])] \in Seq(Good(known))
  <2>1. DOMAIN paras = 1..Len(paras) /\ Len(paras) \in Nat
    BY <1>2, LenProperties
  <2>2. \A k \in 1..Len(paras) : Para(paras[k]) \in Good(known)
    BY DEF Para, Item, Good, Items
  <2> QED BY <2>1, <2>2
<1> QED BY <1>3, <1>4, <1>5 DEF Content
-----------------------------------------------------------------------------
\* Giving the next number to a note that has none, and only then pushing it,
\* keeps numbers and places in step.  new is the list with the number in it.
LEMMA Numbering ==
    ASSUME NEW list \in Seq(EndnoteDef), used_stack \in Stacks, Numbered(list, used_stack),
           NEW e \in DOMAIN list,
           NEW new, DOMAIN new = DOMAIN list, new[e].index = NumberOf(e, list),
           \A x \in DOMAIN list : /\ new[x].kind = list[x].kind
                                  /\ x # e => new[x].index = list[x].index
    PROVE  /\ NumberOf(e, list) \in Nat
           /\ Register(e, list) \in Stacks
           /\ \A kind \in Kinds :
                  DOMAIN used_stack[kind] \subseteq DOMAIN Register(e, list)[kind]
           /\ Numbered(new, Register(e, list))
<1> DEFINE kind == list[e].kind
           stack == used_stack[kind]
<1>1. /\ DOMAIN list = 1..Len(list) /\ Len(list) \in Nat
      /\ \A x \in DOMAIN list : list[x] \in EndnoteDef
  BY LenProperties, ElementOfSeq
<1>2. list[e].kind \in Kinds /\ list[e].index \in Nat /\ e \in Numbers
  BY <1>1 DEF EndnoteDef, Numbers
<1>3. \A k \in Kinds : /\ used_stack[k] \in Seq(Numbers)
                       /\ DOMAIN used_stack[k] = 1..Len(used_stack[k])
                       /\ Len(used_stack[k]) \in Nat
  BY LenProperties DEF Stacks
<1>4. CASE list[e].index # 0
  <2>1. Register(e, list) = used_stack /\ NumberOf(e, list) = list[e].index
    BY <1>4 DEF Register, Pushed, NumberOf
  <2>2. \A x \in DOMAIN list : new[x].index = list[x].index
    BY <2>1
  <2>3. Numbered(new, used_stack)
    BY <2>2 DEF Numbered
  <2> QED BY <2>1, <2>3, <1>2
<1>5. CASE list[e].index = 0
  <2> DEFINE stacks == [used_stack EXCEPT ![kind] = Append(stack, e)]
             top == Len(stack) + 1
  <2>1. Register(e, list) = stacks /\ NumberOf(e, list) = top
    BY <1>5 DEF Register, Pushed, NumberOf
  <2>2. /\ Append(stack, e) \in Seq(Numbers) /\ Len(Append(stack, e)) = top
        /\ DOMAIN Append(stack, e) = 1..top
        /\ Append(stack, e)[top] = e
        /\ \A k \in 1..Len(stack) : Append(stack, e)[k] = stack[k]
    BY <1>2, <1>3
  <2>3. /\ stacks \in Stacks /\ stacks[kind] = Append(stack, e)
        /\ \A k \in Kinds : k # kind => stacks[k] = used_stack[k]
    BY <2>2, <1>2 DEF Stacks
  <2>4. \A k \in Kinds : DOMAIN used_stack[k] \subseteq DOMAIN stacks[k]
    BY <2>2, <2>3, <1>2, <1>3
  <2>5. ASSUME NEW x \in DOMAIN new, new[x].index # 0
        PROVE  /\ new[x].index \in DOMAIN stacks[new[x].kind]
               /\ stacks[new[x].kind][new[x].index] = x
    <3>1. CASE x = e
      BY <3>1, <2>1, <2>2, <2>3, <1>3, <1>2
    <3>2. CASE x # e
      <4>1. list[x].kind \in Kinds /\ new[x].kind = list[x].kind /\ new[x].index = list[x].index
        BY <3>2, <1>1 DEF EndnoteDef
      <4>2. /\ list[x].index \in DOMAIN used_stack[list[x].kind]
            /\ used_stack[list[x].kind][list[x].index] = x
        BY <4>1, <2>5 DEF Numbered
      <4>3. CASE list[x].kind = kind
        BY <4>1, <4>2, <4>3, <2>2, <2>3, <2>4, <1>3
      <4>4. CASE list[x].kind # kind
        BY <4>1, <4>2, <4>4, <2>3
      <4> QED BY <4>3, <4>4
    <3> QED BY <3>1, <3>2
  <2>6. ASSUME NEW k \in Kinds, NEW p \in DOMAIN stacks[k]
        PROVE  /\ stacks[k][p] \in DOMAIN new
               /\ new[stacks[k][p]].kind = k
               /\ new[stacks[k][p]].index = p
    <3>1. CASE p \in DOMAIN used_stack[k]
      <4>1. /\ stacks[k][p] = used_stack[k][p]
        BY <3>1, <2>2, <2>3, <1>3
      <4>2. /\ used_stack[k][p] \in DOMAIN list /\ list[used_stack[k][p]].kind = k
            /\ list[used_stack[k][p]].index = p
        BY <3>1 DEF Numbered
      <4>3. p # 0
        BY <3>1, <1>3
      <4>4. used_stack[k][p] # e
        BY <4>2, <4>3, <1>5
      <4> QED BY <4>1, <4>2, <4>4
    <3>2. CASE p \notin DOMAIN used_stack[k]
      <4>1. k = kind /\ p = top
        BY <3>2, <2>2, <2>3, <1>3, <1>2
      <4> QED BY <4>1, <2>1, <2>2, <2>3, <1>2
    <3> QED BY <3>1, <3>2
  <2>7. Numbered(new, stacks)
    BY <2>5, <2>6 DEF Numbered
  <2>8. top \in Nat
    BY <1>2, <1>3
  <2> QED BY <2>1, <2>3, <2>4, <2>7, <2>8
<1> QED BY <1>4, <1>5
-----------------------------------------------------------------------------
\* More can be exported when more definitions are known.
LEMMA GoodGrows ==
    ASSUME NEW known, NEW more, known \subseteq more, NEW list \in Seq(Good(known))
    PROVE  list \in Seq(Good(more)) /\ list \in Seq(Items)
<1>1. Good(known) \subseteq Good(more) /\ Good(known) \subseteq Items
  BY DEF Good
<1> QED BY <1>1, SeqMonotonic

\* Behind the item that is exported is the rest.
LEMMA RestIsGood ==
    ASSUME IInv, todo # <<>>
    PROVE  /\ todo[1] \in Good(DOMAIN defs)
           /\ Following(todo) \in Seq(Good(DOMAIN defs))
<1>1. todo \in Seq(Good(DOMAIN defs))
  BY DEF IInv, Resolves
<1>2. Tail(todo) \in Seq(Good(DOMAIN defs)) /\ Head(todo) \in Good(DOMAIN defs)
  BY <1>1, HeadTailProperties
<1>3. Head(todo) = todo[1]
  BY <1>1
<1> QED BY <1>2, <1>3 DEF Following, Rest

\* A list that is longer by an inline note is as good as the one before.
LEMMA InlineNote ==
    ASSUME IInv, NEW r \in DOMAIN doc.refs,
           NEW list, list = Append(defs, Def(doc.refs[r].kind, r, TRUE))
    PROVE  /\ list \in Seq(EndnoteDef) /\ Numbered(list, used_stack) /\ Based(list)
           /\ DOMAIN defs \subseteq DOMAIN list /\ Len(list) \in DOMAIN list
<1> DEFINE d == Def(doc.refs[r].kind, r, TRUE)
<1>1. doc.refs[r] \in Reference /\ r \in Numbers
  BY DocumentFacts DEF IInv, Resolves
<1>2. d \in EndnoteDef /\ d.index = 0 /\ d.is_inline /\ d.of = r
  BY <1>1 DEF Def, EndnoteDef, Reference
<1>3. defs \in Seq(EndnoteDef) /\ Len(defs) \in Nat /\ DOMAIN defs = 1..Len(defs)
  BY LenProperties DEF IInv, TypeOK
<1> HIDE DEF d
<1>4. /\ list \in Seq(EndnoteDef) /\ Len(list) = Len(defs) + 1
      /\ DOMAIN list = 1..(Len(defs) + 1) /\ list[Len(defs) + 1] = d
      /\ \A x \in DOMAIN defs : list[x] = defs[x]
  <2>1. list = Append(defs, d)
    BY DEF d
  <2>2. /\ Append(defs, d) \in Seq(EndnoteDef) /\ Len(Append(defs, d)) = Len(defs) + 1
        /\ \A x \in 1..Len(defs) : Append(defs, d)[x] = defs[x]
        /\ Append(defs, d)[Len(defs) + 1] = d
    BY <1>2, <1>3, AppendProperties
  <2> QED BY <2>1, <2>2, <1>3, LenProperties
<1>Split. ASSUME NEW x \in DOMAIN list PROVE x \in DOMAIN defs \/ list[x] = d
  <2>1. x \in 1..(Len(defs) + 1)
    BY <1>4
  <2>2. x \in 1..Len(defs) \/ x = Len(defs) + 1
    BY <2>1, <1>3
  <2> QED BY <2>2, <1>3, <1>4
<1>5. Numbered(list, used_stack)
  <2>1. Numbered(defs, used_stack)
    BY DEF IInv, NumbersArePlaces
  <2>2. ASSUME NEW x \in DOMAIN list, list[x].index # 0
        PROVE  /\ list[x].index \in DOMAIN used_stack[list[x].kind]
               /\ used_stack[list[x].kind][list[x].index] = x
    <3>1. x \in DOMAIN defs /\ list[x] = defs[x]
      BY <2>2, <1>Split, <1>2, <1>4
    <3> QED BY <3>1, <2>1, <2>2 DEF Numbered
  <2>3. ASSUME NEW kind \in Kinds, NEW k \in DOMAIN used_stack[kind]
        PROVE  /\ used_stack[kind][k] \in DOMAIN list
               /\ list[used_stack[kind][k]].kind = kind
               /\ list[used_stack[kind][k]].index = k
    <3>1. /\ used_stack[kind][k] \in DOMAIN defs
          /\ defs[used_stack[kind][k]].kind = kind
          /\ defs[used_stack[kind][k]].index = k
      BY <2>1 DEF Numbered
    <3>2. used_stack[kind][k] \in DOMAIN list
      BY <3>1, <1>3, <1>4
    <3> QED BY <3>1, <3>2, <1>4
  <2> QED BY <2>2, <2>3 DEF Numbered
<1>6. Based(list)
  <2>1. Based(defs)
    BY DEF IInv, Resolves
  <2> SUFFICES ASSUME NEW x \in DOMAIN list
               PROVE  list[x].of \in (IF list[x].is_inline THEN DOMAIN doc.refs ELSE DOMAIN doc.defs)
    BY DEF Based
  <2>2. CASE x \in DOMAIN defs
    BY <2>1, <2>2, <1>4 DEF Based
  <2>3. CASE list[x] = d
    BY <2>3, <1>2
  <2> QED BY <2>2, <2>3, <1>Split
<1>7. DOMAIN defs \subseteq DOMAIN list /\ Len(list) \in DOMAIN list
  BY <1>3, <1>4
<1> QED BY <1>4, <1>5, <1>6, <1>7

\* A reference to a note keeps the invariant, whether it writes a link or not.
\* list has all definitions that are known, and perhaps a new one.
LEMMA ReferenceKeepsInvariant ==
    ASSUME IInv, todo # <<>>,
           NEW list \in Seq(EndnoteDef), Numbered(list, used_stack), Based(list),
           DOMAIN defs \subseteq DOMAIN list,
           NEW e \in DOMAIN list, NEW inside \in Seq(DOMAIN doc.refs),
           Link(e, list, inside) \/ NotCited(e, list),
           UNCHANGED <<doc, section, i, in_endnote, endnote_return, endnote_return_para_counter>>,
           skip_endnote_label' \in BOOLEAN
    PROVE  IInv'
<1> DEFINE kind == list[e].kind
<1>1. /\ DOMAIN list = 1..Len(list) /\ Len(list) \in Nat
      /\ \A x \in DOMAIN list : list[x] \in EndnoteDef
  BY LenProperties, ElementOfSeq
<1>2. kind \in Kinds /\ e \in Numbers /\ used_stack \in Stacks
  BY <1>1 DEF EndnoteDef, Numbers, IInv, TypeOK
<1>3. /\ NumberOf(e, list) \in Nat
  <2>1. /\ used_stack[kind] \in Seq(Numbers) /\ list[e].index \in Nat
    BY <1>1, <1>2 DEF Stacks, EndnoteDef
  <2>2. Len(used_stack[kind]) \in Nat
    BY <2>1, LenProperties
  <2> QED BY <2>1, <2>2 DEF NumberOf
<1>4. \E u \in BOOLEAN : defs' = [list EXCEPT ![e].index = NumberOf(e, list), ![e].used = u]
  <2>1. list[e].used \in BOOLEAN
    BY <1>1 DEF EndnoteDef
  <2>2. CASE Link(e, list, inside)
    <3>1. defs' = [list EXCEPT ![e].index = NumberOf(e, list),
                               ![e].used = list[e].used \/ inside = <<>>]
      BY <2>2 DEF Link
    <3> QED BY <3>1, <2>1
  <2>3. CASE NotCited(e, list)
    <3>1. defs' = [list EXCEPT ![e].index = NumberOf(e, list),
                               ![e].used = list[e].used \/ list[e].index = 0]
      BY <2>3 DEF NotCited
    <3> QED BY <3>1, <2>1
  <2> QED BY <2>2, <2>3
<1>5. PICK u \in BOOLEAN : defs' = [list EXCEPT ![e].index = NumberOf(e, list), ![e].used = u]
  BY <1>4
<1>6. /\ DOMAIN defs' = DOMAIN list
      /\ defs'[e] = [list[e] EXCEPT !.index = NumberOf(e, list), !.used = u]
      /\ \A x \in DOMAIN list : x # e => defs'[x] = list[x]
  BY <1>5
<1>7. defs'[e] \in EndnoteDef /\ defs'[e].index = NumberOf(e, list) /\ defs'[e].kind = kind
      /\ defs'[e].of = list[e].of /\ defs'[e].is_inline = list[e].is_inline
  BY <1>1, <1>3, <1>6 DEF EndnoteDef
<1>8. defs' \in Seq(EndnoteDef)
  <2>1. defs' = [list EXCEPT ![e] = defs'[e]]
    BY <1>5, <1>6
  <2>2. [list EXCEPT ![e] = defs'[e]] \in Seq(EndnoteDef)
    BY <1>7, <1>1, ExceptSeq
  <2> QED BY <2>1, <2>2
<1>9. used_stack' = Register(e, list)
  BY DEF Link, NotCited
<1>10. /\ used_stack' \in Stacks /\ NumbersArePlaces'
       /\ \A k \in Kinds : DOMAIN used_stack[k] \subseteq DOMAIN used_stack'[k]
  <2>1. \A x \in DOMAIN list : defs'[x].kind = list[x].kind
                                /\ (x # e => defs'[x].index = list[x].index)
    BY <1>6, <1>7
  <2>2. /\ DOMAIN defs' = DOMAIN list /\ defs'[e].index = NumberOf(e, list)
        /\ \A x \in DOMAIN list : /\ defs'[x].kind = list[x].kind
                                  /\ x # e => defs'[x].index = list[x].index
    BY <2>1, <1>6, <1>7
  <2>3. /\ Register(e, list) \in Stacks /\ Numbered(defs', Register(e, list))
        /\ \A k \in Kinds : DOMAIN used_stack[k] \subseteq DOMAIN Register(e, list)[k]
    BY <2>2, <1>2, Numbering, Zenon
  <2> QED BY <2>3, <1>9 DEF NumbersArePlaces
<1>11. todo' \in Seq(Good(DOMAIN list))
  <2>1. Following(todo) \in Seq(Good(DOMAIN list))
    BY RestIsGood, GoodGrows
  <2>2. Refs(inside) \in Seq(Good(DOMAIN list))
    BY RefsAreGood DEF IInv, Resolves
  <2>3. <<Item("used", e)>> \in Seq(Good(DOMAIN list))
    <3>1. Item("used", e) \in Good(DOMAIN list)
      BY <1>2 DEF Good, Items, Item, Numbers
    <3> QED BY <3>1
  <2>4. (IF inside = <<>> THEN <<>> ELSE <<Item("used", e)>>) \in Seq(Good(DOMAIN list))
    BY <2>3, EmptySeq
  <2>5. CASE Link(e, list, inside)
    BY <2>1, <2>2, <2>4, <2>5, ConcatProperties DEF Link
  <2>6. CASE NotCited(e, list)
    BY <2>1, <2>6 DEF NotCited
  <2> QED BY <2>5, <2>6
<1>12. out' \in Seq(Output)
  <2>1. out \in Seq(Output)
    BY DEF IInv, TypeOK
  <2>2. \A tag \in {"link", "anchor"} : <<Written(tag, kind, NumberOf(e, list))>> \in Seq(Output)
    <3>1. \A tag \in {"link", "anchor"} : Written(tag, kind, NumberOf(e, list)) \in Output
      BY <1>2, <1>3 DEF Written, Output
    <3> QED BY <3>1
  <2>3. CASE Link(e, list, inside)
    <3>1. (IF list[e].used THEN <<>> ELSE <<Written("anchor", kind, NumberOf(e, list))>>) \in Seq(Output)
      BY <2>2
    <3> QED BY <2>1, <2>2, <2>3, <3>1, ConcatProperties DEF Link
  <2>4. CASE NotCited(e, list)
    BY <2>1, <2>4 DEF NotCited
  <2> QED BY <2>3, <2>4
<1>13. TypeOK'
  <2>1. todo' \in Seq(Items)
    BY <1>11, GoodGrows
  <2> QED BY <2>1, <1>8, <1>10, <1>12 DEF IInv, TypeOK
<1>14. Resolves'
  <2>1. todo' \in Seq(Good(DOMAIN defs)')
    BY <1>11, <1>6 DEF Good
  <2>2. Based(defs)'
    BY <1>6, <1>7 DEF Based
  <2>3. in_endnote' => section' \in 1..3 /\ i' \in DOMAIN used_stack'[Section[section']]
    <3>1. \A k \in 1..3 : Section[k] \in Kinds
      BY DEF Section, Kinds
    <3> QED BY <3>1, <1>10 DEF IInv, Resolves
  <2> QED BY <2>1, <2>2, <2>3, <1>6 DEF IInv, Resolves
<1> QED BY <1>10, <1>13, <1>14 DEF IInv
-----------------------------------------------------------------------------
\* A reference that is taken for a note is taken for one the document defines.
LEMMA TargetIsDefined ==
    ASSUME doc \in Documents, NEW r \in DOMAIN doc.refs, Target(r) # 0
    PROVE  Target(r) \in DOMAIN doc.defs
<1> DEFINE ref == doc.refs[r]
<1>1. CASE ref.to # 0
  BY <1>1, DocumentFacts DEF Target
<1>2. CASE ref.to = 0
  <2>1. ref.inside # <<>> /\ Target(r) = doc.refs[ref.inside[Len(ref.inside)]].to
    BY <1>2 DEF Target
  <2>2. ref.inside \in Seq(DOMAIN doc.refs)
    BY DocumentFacts
  <2>3. ref.inside[Len(ref.inside)] \in DOMAIN doc.refs
    BY <2>1, <2>2
  <2> QED BY <2>1, <2>3, DocumentFacts
<1> QED BY <1>1, <1>2

\* Writing a reference is writing a link or only giving a number.
LEMMA ExportIsReference ==
    ASSUME doc \in Documents, NEW r \in DOMAIN doc.refs, NEW e, NEW list,
           export_endnote_def(e, list, doc.refs[r])
    PROVE  \E inside \in Seq(DOMAIN doc.refs) : Link(e, list, inside) \/ NotCited(e, list)
<1>1. /\ doc.refs[r].how \in {"cited", "not_cited", "locator"}
      /\ doc.refs[r].inside \in Seq(DOMAIN doc.refs)
  <2>1. doc.refs[r] \in Reference /\ doc.refs[r].inside \in Seq(DOMAIN doc.refs)
    BY DocumentFacts
  <2> QED BY <2>1 DEF Reference
<1>2. <<>> \in Seq(DOMAIN doc.refs)
  BY EmptySeq
<1>3. CASE doc.refs[r].how = "cited"
  BY <1>2, <1>3 DEF export_endnote_def
<1>4. CASE doc.refs[r].how = "not_cited"
  BY <1>2, <1>4 DEF export_endnote_def
<1>5. CASE doc.refs[r].how = "locator"
  BY <1>1, <1>5 DEF export_endnote_def
<1> QED BY <1>1, <1>3, <1>4, <1>5

\* ReferToDefined and ReferInline are references.
LEMMA ReferenceActions == IInv /\ (ReferToDefined \/ ReferInline) => IInv'
<1> SUFFICES ASSUME IInv, ReferToDefined \/ ReferInline PROVE IInv'
  OBVIOUS
<1> DEFINE r == todo[1].of
           longer == Append(defs, Def(doc.refs[r].kind, r, TRUE))
<1>1. /\ todo # <<>> /\ todo[1].what = "ref"
      /\ UNCHANGED <<doc, section, i, in_endnote, skip_endnote_label,
                     endnote_return, endnote_return_para_counter>>
  BY DEF ReferToDefined, ReferInline, Busy
<1>2. doc \in Documents /\ r \in DOMAIN doc.refs
  <2>1. todo[1] \in Good(DOMAIN defs)
    BY <1>1, RestIsGood
  <2> QED BY <2>1, <1>1 DEF Good, IInv, Resolves
<1>3. skip_endnote_label' \in BOOLEAN
  BY <1>1 DEF IInv, TypeOK
<1>4. CASE ReferToDefined
  <2>1. Target(r) # 0 /\ export_endnote_def(Target(r), defs, doc.refs[r])
    BY <1>4 DEF ReferToDefined
  <2>2. Target(r) \in DOMAIN defs
    BY <2>1, <1>2, TargetIsDefined DEF IInv, Resolves
  <2>3. PICK inside \in Seq(DOMAIN doc.refs) :
            Link(Target(r), defs, inside) \/ NotCited(Target(r), defs)
    BY <2>1, <1>2, ExportIsReference
  <2>4. defs \in Seq(EndnoteDef) /\ Numbered(defs, used_stack) /\ Based(defs)
    BY DEF IInv, TypeOK, NumbersArePlaces, Resolves
  <2> QED BY <1>1, <1>3, <2>2, <2>3, <2>4, ReferenceKeepsInvariant
<1>5. CASE ReferInline
  <2>1. export_endnote_def(Len(longer), longer, doc.refs[r])
    BY <1>5 DEF ReferInline
  <2>2. /\ longer \in Seq(EndnoteDef) /\ Numbered(longer, used_stack) /\ Based(longer)
        /\ DOMAIN defs \subseteq DOMAIN longer /\ Len(longer) \in DOMAIN longer
    BY <1>2, InlineNote
  <2> HIDE DEF longer
  <2>3. PICK inside \in Seq(DOMAIN doc.refs) :
            Link(Len(longer), longer, inside) \/ NotCited(Len(longer), longer)
    BY <2>1, <1>2, ExportIsReference
  <2> QED BY <1>1, <1>3, <2>2, <2>3, ReferenceKeepsInvariant
<1> QED BY <1>4, <1>5

\* A label is passed over, or it is a reference too.
LEMMA LabelKeepsInvariant == IInv /\ Label => IInv'
<1> SUFFICES ASSUME IInv, Label PROVE IInv'
  OBVIOUS
<1>1. /\ todo # <<>> /\ todo[1].what = "label"
      /\ UNCHANGED <<doc, section, i, in_endnote, endnote_return, endnote_return_para_counter>>
  BY DEF Label, Busy
<1>2. Following(todo) \in Seq(Good(DOMAIN defs)) /\ todo[1] \in Good(DOMAIN defs)
  BY <1>1, RestIsGood
<1>3. skip_endnote_label' \in BOOLEAN
  BY DEF Label, IInv, TypeOK
<1>4. CASE in_endnote /\ skip_endnote_label
  <2>1. todo' = Following(todo) /\ UNCHANGED <<defs, used_stack, out>>
    BY <1>4 DEF Label
  <2>2. Following(todo) \in Seq(Items)
    BY <1>2, GoodGrows
  <2> QED BY <1>1, <1>2, <1>3, <2>1, <2>2
          DEF IInv, TypeOK, NumbersArePlaces, Resolves, Based, Good
<1>5. CASE ~(in_endnote /\ skip_endnote_label)
  <2>1. Link(todo[1].of, defs, <<>>)
    BY <1>5 DEF Label
  <2>2. todo[1].of \in DOMAIN defs
    BY <1>1, <1>2 DEF Good, IInv, Resolves
  <2>3. defs \in Seq(EndnoteDef) /\ Numbered(defs, used_stack) /\ Based(defs)
    BY DEF IInv, TypeOK, NumbersArePlaces, Resolves
  <2>4. <<>> \in Seq(DOMAIN doc.refs)
    BY EmptySeq
  <2> QED BY <1>1, <1>3, <2>1, <2>2, <2>3, <2>4, ReferenceKeepsInvariant
<1> QED BY <1>4, <1>5

\* A locator ends.
LEMMA MarkUsedKeepsInvariant == IInv /\ MarkUsed => IInv'
<1> SUFFICES ASSUME IInv, MarkUsed PROVE IInv'
  OBVIOUS
<1> DEFINE e == todo[1].of
<1>1. /\ todo # <<>> /\ todo[1].what = "used" /\ todo' = Following(todo)
      /\ defs' = [defs EXCEPT ![e].used = TRUE]
      /\ UNCHANGED <<doc, used_stack, section, i, in_endnote, skip_endnote_label,
                     endnote_return, endnote_return_para_counter, out>>
  BY DEF MarkUsed, Busy
<1>2. Following(todo) \in Seq(Good(DOMAIN defs)) /\ e \in DOMAIN defs
  BY <1>1, RestIsGood DEF Good
<1>3. /\ defs \in Seq(EndnoteDef) /\ DOMAIN defs = 1..Len(defs) /\ Len(defs) \in Nat
      /\ defs[e] \in EndnoteDef
  BY <1>2, LenProperties, ElementOfSeq DEF IInv, TypeOK
<1>4. /\ DOMAIN defs' = DOMAIN defs /\ defs'[e] = [defs[e] EXCEPT !.used = TRUE]
      /\ \A x \in DOMAIN defs : x # e => defs'[x] = defs[x]
  <2> HIDE DEF e
  <2> QED BY <1>1, <1>2
<1>5. /\ defs'[e] \in EndnoteDef /\ defs'[e].index = defs[e].index /\ defs'[e].kind = defs[e].kind
      /\ defs'[e].of = defs[e].of /\ defs'[e].is_inline = defs[e].is_inline
  BY <1>3, <1>4 DEF EndnoteDef
<1>6. defs' \in Seq(EndnoteDef)
  <2>1. defs' = [defs EXCEPT ![e] = defs'[e]]
    BY <1>1, <1>4
  <2>2. [defs EXCEPT ![e] = defs'[e]] \in Seq(EndnoteDef)
    BY <1>2, <1>3, <1>5, ExceptSeq
  <2> QED BY <2>1, <2>2
<1>7. \A x \in DOMAIN defs : /\ defs'[x].index = defs[x].index /\ defs'[x].kind = defs[x].kind
                             /\ defs'[x].of = defs[x].of /\ defs'[x].is_inline = defs[x].is_inline
  BY <1>4, <1>5
<1>8. NumbersArePlaces'
  <2>1. /\ DOMAIN defs' = DOMAIN defs /\ used_stack' = used_stack
        /\ \A x \in DOMAIN defs : defs'[x].index = defs[x].index /\ defs'[x].kind = defs[x].kind
    BY <1>1, <1>4, <1>7
  <2> QED BY <2>1 DEF IInv, NumbersArePlaces, Numbered
<1>9. Resolves'
  BY <1>1, <1>2, <1>4, <1>7 DEF IInv, Resolves, Based, Good
<1>10. TypeOK'
  <2>1. todo' \in Seq(Items)
    BY <1>1, <1>2, GoodGrows
  <2> QED BY <2>1, <1>1, <1>6 DEF IInv, TypeOK
<1> QED BY <1>8, <1>9, <1>10 DEF IInv
-----------------------------------------------------------------------------
\* What is appended to the output has its type.
LEMMA OutGrows ==
    ASSUME TypeOK, NEW w \in Output
    PROVE  Append(out, w) \in Seq(Output)
BY AppendProperties DEF TypeOK

\* While an entry is written, its note is known.
LEMMA EntryIsKnown ==
    ASSUME IInv, NEW s \in 1..3, NEW k \in DOMAIN used_stack[Section[s]]
    PROVE  /\ Section[s] \in Kinds
           /\ used_stack[Section[s]][k] \in DOMAIN defs
           /\ defs[used_stack[Section[s]][k]] \in EndnoteDef
           /\ defs[used_stack[Section[s]][k]].index \in Nat
<1>1. Section[s] \in Kinds
  BY DEF Section, Kinds
<1>2. used_stack[Section[s]][k] \in DOMAIN defs
  BY <1>1 DEF IInv, NumbersArePlaces, Numbered
<1>3. defs[used_stack[Section[s]][k]] \in EndnoteDef
  BY <1>2, LenProperties, ElementOfSeq DEF IInv, TypeOK
<1> QED BY <1>1, <1>2, <1>3 DEF EndnoteDef

\* A paragraph ends.
LEMMA EndParaKeepsInvariant == IInv /\ EndPara => IInv'
<1> SUFFICES ASSUME IInv, EndPara PROVE IInv'
  OBVIOUS
<1>1. /\ todo # <<>> /\ todo' = Following(todo)
      /\ UNCHANGED <<doc, defs, used_stack, section, i, in_endnote, skip_endnote_label>>
  BY DEF EndPara, Busy
<1>2. Following(todo) \in Seq(Good(DOMAIN defs)) /\ Following(todo) \in Seq(Items)
  BY <1>1, RestIsGood, GoodGrows
<1>3. /\ endnote_return' \in {"none", "set", "freed"} /\ endnote_return_para_counter' \in Int
      /\ out' \in Seq(Output)
  <2>1. CASE in_endnote /\ endnote_return_para_counter = 1
    <3>1. Written("return", Kind, defs[Entry].index) \in Output
      BY <2>1, EntryIsKnown DEF IInv, Resolves, Kind, Entry, Written, Output
    <3>2. Append(out, Written("return", Kind, defs[Entry].index)) \in Seq(Output)
      BY <3>1, OutGrows DEF IInv
    <3>3. /\ \/ UNCHANGED <<out, endnote_return>>
             \/ /\ out' = Append(out, Written("return", Kind, defs[Entry].index))
                /\ endnote_return' = "none"
          /\ \/ endnote_return_para_counter' = endnote_return_para_counter - 1
             \/ UNCHANGED endnote_return_para_counter
      BY <2>1 DEF EndPara
    <3>4. out' \in Seq(Output) /\ endnote_return' \in {"none", "set", "freed"}
      BY <3>2, <3>3 DEF IInv, TypeOK
    <3>5. endnote_return_para_counter' \in Int
      BY <3>3 DEF IInv, TypeOK
    <3> QED BY <3>4, <3>5
  <2>2. CASE ~(in_endnote /\ endnote_return_para_counter = 1)
    <3>1. /\ UNCHANGED <<out, endnote_return>>
          /\ \/ endnote_return_para_counter' = endnote_return_para_counter - 1
             \/ UNCHANGED endnote_return_para_counter
      BY <2>2 DEF EndPara
    <3> QED BY <3>1 DEF IInv, TypeOK
  <2> QED BY <2>1, <2>2
<1> QED BY <1>1, <1>2, <1>3 DEF IInv, TypeOK, NumbersArePlaces, Resolves, Based, Good

\* The counter of paragraphs is a number.
LEMMA CounterIsInt ==
    ASSUME doc \in Documents, NEW e \in DOMAIN doc.defs
    PROVE  ParasOf(e) \in Int
<1> DEFINE paras == doc.defs[e].paras
           top == {k \in DOMAIN paras : paras[k]}
<1>1. paras \in Seq(BOOLEAN)
  BY DocumentFacts DEF Definition
<1>2. DOMAIN paras = 1..Len(paras) /\ Len(paras) \in Nat
  BY <1>1, LenProperties
<1>3. IsFiniteSet(top)
  <2>1. IsFiniteSet(DOMAIN paras)
    BY <1>2, FS_Interval
  <2>2. top \subseteq DOMAIN paras
    OBVIOUS
  <2> HIDE DEF top, paras
  <2> QED BY <2>1, <2>2, FS_Subset
<1>4. Cardinality(top) \in Nat
  BY <1>3, FS_CardinalityType
<1>5. doc.defs[e].captions \in Nat
  BY DocumentFacts DEF Definition
<1>6. ParasOf(e) = Cardinality(top) + doc.defs[e].captions
  BY DEF ParasOf, TopParas
<1> HIDE DEF top
<1> QED BY <1>4, <1>5, <1>6

\* An entry begins, with the text of an inline note or of a definition.
LEMMA BeginEntryKeepsInvariant == IInv /\ BeginEntry => IInv'
<1> SUFFICES ASSUME IInv, BeginEntry PROVE IInv'
  OBVIOUS
<1> DEFINE e == used_stack[Kind][i + 1]
           of == defs[e].of
<1>1. /\ section \in 1..3 /\ i < Len(used_stack[Kind]) /\ i' = i + 1 /\ in_endnote' = TRUE
      /\ out' = Append(out, Written("entry", Kind, defs[e].index))
      /\ UNCHANGED <<doc, defs, used_stack, section>>
  BY DEF BeginEntry, Size, SizeNow
<1>2. i + 1 \in DOMAIN used_stack[Kind] /\ i \in Nat
  <2>1. used_stack[Kind] \in Seq(Numbers)
    BY <1>1, SMTT(60) DEF IInv, TypeOK, Stacks, Kind, Section, Kinds
  <2>2. i \in Nat
    BY DEF IInv, TypeOK
  <2> QED BY <2>1, <2>2, <1>1, LenProperties
<1>3. Kind \in Kinds /\ e \in DOMAIN defs /\ defs[e].index \in Nat
  BY <1>1, <1>2, EntryIsKnown DEF Kind
<1>4. out' \in Seq(Output)
  <2>1. Written("entry", Kind, defs[e].index) \in Output
    BY <1>3 DEF Written, Output
  <2> QED BY <2>1, <1>1, OutGrows DEF IInv
<1>5. doc \in Documents
  BY DEF IInv, Resolves
<1>6. /\ todo' \in Seq(Good(DOMAIN defs)) /\ skip_endnote_label' \in BOOLEAN
      /\ endnote_return' \in {"none", "set", "freed"} /\ endnote_return_para_counter' \in Int
  <2>1. CASE defs[e].is_inline
    <3>1. of \in DOMAIN doc.refs
      BY <2>1, <1>3 DEF IInv, Resolves, Based
    <3>2. doc.refs[of].inside \in Seq(DOMAIN doc.refs)
      BY <3>1, <1>5, DocumentFacts
    <3>3. Refs(doc.refs[of].inside) \in Seq(Good(DOMAIN defs))
      BY <3>2, <1>5, RefsAreGood
    <3>4. todo' = IF doc.refs[of].how = "locator" THEN <<>> ELSE Refs(doc.refs[of].inside)
      BY <2>1 DEF BeginEntry
    <3>5. UNCHANGED <<skip_endnote_label, endnote_return, endnote_return_para_counter>>
      BY <2>1 DEF BeginEntry
    <3>6. todo' \in Seq(Good(DOMAIN defs))
      BY <3>3, <3>4, EmptySeq
    <3> QED BY <3>5, <3>6 DEF IInv, TypeOK
  <2>2. CASE ~defs[e].is_inline
    <3>1. of \in DOMAIN doc.defs
      BY <2>2, <1>3 DEF IInv, Resolves, Based
    <3>2. Content(of) \in Seq(Good(DOMAIN defs))
      BY <3>1, <1>5, ContentIsGood
    <3>3. ParasOf(of) \in Int
      BY <3>1, <1>5, CounterIsInt
    <3>4. /\ todo' = Content(of) /\ skip_endnote_label' = TRUE /\ endnote_return' = "set"
          /\ endnote_return_para_counter' = ParasOf(of)
      BY <2>2 DEF BeginEntry
    <3> QED BY <3>2, <3>3, <3>4
  <2> QED BY <2>1, <2>2
<1>7. todo' \in Seq(Items)
  BY <1>6, GoodGrows
<1>8. TypeOK'
  BY <1>1, <1>2, <1>4, <1>6, <1>7 DEF IInv, TypeOK
<1>9. NumbersArePlaces' /\ Resolves'
  BY <1>1, <1>2, <1>6 DEF IInv, NumbersArePlaces, Resolves, Based, Good, Kind
<1> QED BY <1>8, <1>9 DEF IInv

\* An entry ends, with the way back of an inline note.
LEMMA EndEntryKeepsInvariant == IInv /\ EndEntry => IInv'
<1> SUFFICES ASSUME IInv, EndEntry PROVE IInv'
  OBVIOUS
<1>1. /\ in_endnote /\ in_endnote' = FALSE /\ skip_endnote_label' = FALSE
      /\ UNCHANGED <<doc, defs, used_stack, todo, section, i, endnote_return_para_counter>>
  BY DEF EndEntry
<1>2. Written("return", Kind, defs[Entry].index) \in Output
  BY <1>1, EntryIsKnown DEF IInv, Resolves, Kind, Entry, Written, Output
<1>3. Append(out, Written("return", Kind, defs[Entry].index)) \in Seq(Output)
  BY <1>2, OutGrows DEF IInv
<1>4. out' \in Seq(Output) /\ endnote_return' \in {"none", "set", "freed"}
  BY <1>3 DEF EndEntry, IInv, TypeOK
<1> QED BY <1>1, <1>4 DEF IInv, TypeOK, NumbersArePlaces, Resolves, Based, Good

\* A section ends.
LEMMA NextSectionKeepsInvariant == IInv /\ NextSection => IInv'
<1> SUFFICES ASSUME IInv, NextSection PROVE IInv'
  OBVIOUS
<1>1. /\ section \in 0..3 /\ ~in_endnote /\ section' = section + 1 /\ i' = 0
      /\ out' = IF section = 0 THEN out ELSE Append(out, Written("end", Kind, 0))
      /\ UNCHANGED <<doc, defs, used_stack, todo, in_endnote, skip_endnote_label,
                     endnote_return, endnote_return_para_counter>>
  BY DEF NextSection
<1>2. out' \in Seq(Output)
  <2>1. CASE section = 0
    BY <1>1, <2>1 DEF IInv, TypeOK
  <2>2. CASE section # 0
    <3>1. Written("end", Kind, 0) \in Output
      BY <1>1, <2>2 DEF Written, Output, Kind, Section, Kinds
    <3> QED BY <3>1, <2>2, <1>1, OutGrows DEF IInv
  <2> QED BY <2>1, <2>2
<1>3. section' \in 0..4 /\ i' \in Nat
  BY <1>1
<1> QED BY <1>1, <1>2, <1>3 DEF IInv, TypeOK, NumbersArePlaces, Resolves, Based, Good

\* Before the export nothing has a number, and the document resolves.
LEMMA InitEstablishesInvariant == Init => IInv
<1> SUFFICES ASSUME Init PROVE IInv
  OBVIOUS
<1>1. /\ doc \in Documents /\ todo = Refs(doc.body)
      /\ defs = [e \in DOMAIN doc.defs |-> Def(doc.defs[e].kind, e, FALSE)]
      /\ used_stack = [k \in Kinds |-> <<>>] /\ out = <<>> /\ ~in_endnote
  BY DEF Init
<1>2. todo \in Seq(Good(DOMAIN defs)) /\ todo \in Seq(Items)
  <2>1. todo \in Seq(Good(DOMAIN defs))
    BY <1>1, DocumentFacts, RefsAreGood
  <2> QED BY <2>1, GoodGrows
<1>3. DOMAIN defs = DOMAIN doc.defs
      /\ \A e \in DOMAIN defs : defs[e] = Def(doc.defs[e].kind, e, FALSE)
  BY <1>1
<1>4. ASSUME NEW e \in DOMAIN defs
      PROVE  /\ defs[e] \in EndnoteDef /\ defs[e].index = 0
             /\ defs[e].of = e /\ ~defs[e].is_inline
  <2>1. doc.defs[e] \in Definition /\ e \in Numbers
    BY <1>1, <1>3, DocumentFacts
  <2>2. doc.defs[e].kind \in Kinds
    BY <2>1 DEF Definition
  <2>3. defs[e] = Def(doc.defs[e].kind, e, FALSE)
    BY <1>3
  <2> QED BY <2>1, <2>2, <2>3 DEF Def, EndnoteDef
<1>5. defs \in Seq(EndnoteDef)
  <2>1. DOMAIN defs = 1..Len(doc.defs) /\ Len(doc.defs) \in Nat
    BY <1>1, <1>3, DocumentFacts, LenProperties
  <2>2. defs = [e \in 1..Len(doc.defs) |-> defs[e]]
    BY <1>1, <2>1
  <2> QED BY <2>1, <2>2, <1>4, IsASeq
<1>6. used_stack \in Stacks /\ \A k \in Kinds : DOMAIN used_stack[k] = {}
  BY <1>1, EmptySeq DEF Stacks
<1>7. out \in Seq(Output)
  BY <1>1, EmptySeq
<1>8. TypeOK
  <2>1. /\ section = 0 /\ i = 0 /\ in_endnote = FALSE /\ skip_endnote_label = FALSE
        /\ endnote_return = "none" /\ endnote_return_para_counter = 0
    BY DEF Init
  <2>2. section \in 0..4 /\ i \in Nat /\ endnote_return_para_counter \in Int
    BY <2>1
  <2>3. in_endnote \in BOOLEAN /\ skip_endnote_label \in BOOLEAN
    BY <2>1
  <2>4. endnote_return \in {"none", "set", "freed"}
    BY <2>1
  <2> QED BY <1>2, <1>5, <1>6, <1>7, <2>2, <2>3, <2>4 DEF TypeOK
<1>9. NumbersArePlaces
  BY <1>4, <1>6 DEF NumbersArePlaces, Numbered
<1>10. Resolves
  BY <1>1, <1>2, <1>3, <1>4 DEF Resolves, Based
<1> QED BY <1>8, <1>9, <1>10 DEF IInv
-----------------------------------------------------------------------------
\* Every step keeps the invariant.
LEMMA NextKeepsInvariant == IInv /\ [Next]_vars => IInv'
<1> SUFFICES ASSUME IInv, [Next]_vars PROVE IInv'
  OBVIOUS
<1>1. CASE ReferToDefined \/ ReferInline
  BY <1>1, ReferenceActions
<1>2. CASE MarkUsed
  BY <1>2, MarkUsedKeepsInvariant
<1>3. CASE Label
  BY <1>3, LabelKeepsInvariant
<1>4. CASE EndPara
  BY <1>4, EndParaKeepsInvariant
<1>5. CASE BeginEntry
  BY <1>5, BeginEntryKeepsInvariant
<1>6. CASE EndEntry
  BY <1>6, EndEntryKeepsInvariant
<1>7. CASE NextSection
  BY <1>7, NextSectionKeepsInvariant
<1>8. CASE UNCHANGED vars
  BY <1>8 DEF vars, IInv, TypeOK, NumbersArePlaces, Resolves, Based, Good
<1> QED BY <1>1, <1>2, <1>3, <1>4, <1>5, <1>6, <1>7, <1>8 DEF Next

\* The invariant holds of every behaviour.
LEMMA Invariance == Spec => []IInv
BY InitEstablishesInvariant, NextKeepsInvariant, PTL DEF Spec

\* The variables have their types, and what is exported resolves, for every
\* set of documents whose references do.
THEOREM TypeCorrect == Spec => []TypeOK
<1>1. IInv => TypeOK
  BY DEF IInv
<1> QED BY <1>1, Invariance, PTL

\* Two notes never share a number, and every number is the place of its entry,
\* however the notes refer to each other (export_endnote_def and the stacks).
THEOREM NotesAreNumbered == Spec => []NumbersArePlaces
<1>1. IInv => NumbersArePlaces
  BY DEF IInv
<1> QED BY <1>1, Invariance, PTL
-----------------------------------------------------------------------------
\* Where the output has something
At(o, tag, kind, n) == {k \in DOMAIN o : o[k].tag = tag /\ o[k].kind = kind /\ o[k].number = n}
EntriesIn(o, kind) == {k \in DOMAIN o : o[k].tag = "entry" /\ o[k].kind = kind}

\* What was written was about a note with a number
Known(o, stacks) ==
    \A k \in DOMAIN o : o[k].tag # "end" => o[k].number \in 1..Len(stacks[o[k].kind])
OutKnown == Known(out, used_stack)

\* The first c notes of a kind have their entries, one each and in order
Listed(o, kind, c) ==
    /\ IsFiniteSet(EntriesIn(o, kind)) /\ Cardinality(EntriesIn(o, kind)) = c
    /\ \A k \in EntriesIn(o, kind) : /\ o[k].number \in 1..c
                                     /\ o[k].number = Cardinality({l \in EntriesIn(o, kind) : l <= k})
    /\ \A n \in 1..c : \E p \in DOMAIN o : At(o, "entry", kind, n) = {p}
NotEnded(o, kind) == \A k \in DOMAIN o : ~(o[k].tag = "end" /\ o[k].kind = kind)
EndedAt(o, kind, p) == p \in DOMAIN o /\ \A k \in DOMAIN o : (o[k].tag = "end" /\ o[k].kind = kind) <=> k = p
LinksUpTo(o, kind, p, c) == \A k \in 1..p : o[k].tag = "link" /\ o[k].kind = kind => o[k].number <= c

Turn == [note |-> 1, glos |-> 2, cite |-> 3]
SectionsIn(o, s, c) ==
    \A kind \in Kinds :
        /\ Turn[kind] > s => Listed(o, kind, 0) /\ NotEnded(o, kind)
        /\ Turn[kind] = s => Listed(o, kind, c) /\ NotEnded(o, kind)
        /\ Turn[kind] < s => \E n \in 0..Len(o), p \in DOMAIN o :
               Listed(o, kind, n) /\ EndedAt(o, kind, p) /\ LinksUpTo(o, kind, p, n)
SectionsSoFar == SectionsIn(out, section, i) /\ (section \in 1..3 => i <= Len(used_stack[Kind]))

\* The last p items of what is left are the ends of paragraphs
LastParas(list, p) == p \in 0..Len(list) /\ \A k \in DOMAIN list : (list[k].what = "para") <=> k > Len(list) - p

\* The definitions whose count comes to 0
Ways == [e \in DOMAIN doc.defs |-> HasWay(e)]
\* An entry that has ended has its way back
Returned(kind, n) ==
    LET e == used_stack[kind][n]
    IN  \/ At(out, "return", kind, n) = {} /\ At(out, "entry", kind, n) = {}
        \/ /\ \E p \in DOMAIN out : At(out, "return", kind, n) = {p}
           /\ At(out, "entry", kind, n) # {}
        \/ At(out, "return", kind, n) = {} /\ ~defs[e].is_inline /\ ~Ways[defs[e].of]
\* The one that is written has it, or it is to come
Returning ==
    IF defs[Entry].is_inline THEN At(out, "return", Kind, i) = {} /\ LastParas(todo, 0)
    ELSE \E p \in 0..Len(todo) :
        /\ LastParas(todo, p)
        /\ \/ /\ endnote_return = "set" /\ At(out, "return", Kind, i) = {}
              /\ \/ ~Ways[defs[Entry].of]
                 \/ endnote_return_para_counter \in 1..p
           \/ endnote_return = "none" /\ \E q \in DOMAIN out : At(out, "return", Kind, i) = {q}
ReturnsSoFar ==
    /\ ~in_endnote => LastParas(todo, 0)
    /\ ~in_endnote /\ section > 0 => todo = <<>>
    /\ \A kind \in Kinds : \A n \in DOMAIN used_stack[kind] :
           ~(in_endnote /\ kind = Kind /\ n = i) => Returned(kind, n)
    /\ in_endnote => Returning

Placed ==
    \A e \in DOMAIN defs :
        /\ IF e \in DOMAIN doc.defs THEN ~defs[e].is_inline /\ defs[e].of = e ELSE defs[e].is_inline
        /\ defs[e].used => defs[e].index # 0
LabelFirst ==
    \A k \in DOMAIN todo :
        /\ todo[k].what = "label" => k = 1 /\ in_endnote /\ skip_endnote_label
        /\ todo[k].what = "used" => defs[todo[k].of].index # 0
Simple(e) == ~NotedUncited(e) /\ (defs[e].is_inline \/ ~InOwnLocator(e))
Anchored(o, kind, n) ==
    \E a \in DOMAIN o : At(o, "anchor", kind, n) = {a} /\ \A l \in At(o, "link", kind, n) : l >= a - 1
\* The notes that the references are taken for that come with a reference
Citing == [r \in DOMAIN doc.refs |-> Cites(r)]
\* e is marked as used later, and no reference to it is exported before
AwaitsUse(citing, list, e) ==
    \E m \in DOMAIN list : /\ list[m] = Item("used", e)
                           /\ \A j \in 1..(m - 1) : list[j].what = "ref" => e \notin citing[list[j].of]
AnchorsSoFar ==
    \A e \in DOMAIN defs : defs[e].index # 0 /\ Simple(e) =>
        /\ Anchored(out, defs[e].kind, defs[e].index)
        /\ defs[e].used \/ AwaitsUse(Citing, todo, e)
XInv == OutKnown /\ SectionsSoFar /\ ReturnsSoFar /\ Placed /\ LabelFirst /\ AnchorsSoFar
-----------------------------------------------------------------------------
\* What is appended is at the end.
LEMMA Appended ==
    ASSUME NEW o \in Seq(Output), NEW w \in Output
    PROVE  /\ Append(o, w) \in Seq(Output) /\ Len(o) \in Nat
           /\ DOMAIN o = 1..Len(o) /\ DOMAIN Append(o, w) = 1..(Len(o) + 1)
           /\ Len(Append(o, w)) = Len(o) + 1
           /\ \A k \in 1..Len(o) : Append(o, w)[k] = o[k]
           /\ Append(o, w)[Len(o) + 1] = w
           /\ \A k \in 1..(Len(o) + 1) : k \in 1..Len(o) \/ k = Len(o) + 1
           /\ \A k \in 1..Len(o) : k \in 1..(Len(o) + 1) /\ k # Len(o) + 1
BY AppendProperties, LenProperties

\* What is written is found where it was written, and nothing else changes.
LEMMA AtAppended ==
    ASSUME NEW o \in Seq(Output), NEW w \in Output, NEW tag, NEW kind, NEW n
    PROVE  /\ w.tag = tag /\ w.kind = kind /\ w.number = n =>
                  At(Append(o, w), tag, kind, n) = At(o, tag, kind, n) \cup {Len(o) + 1}
           /\ ~(w.tag = tag /\ w.kind = kind /\ w.number = n) =>
                  At(Append(o, w), tag, kind, n) = At(o, tag, kind, n)
           /\ At(o, tag, kind, n) \subseteq 1..Len(o)
<1> DEFINE a == Append(o, w)
<1>1. /\ Len(o) \in Nat /\ DOMAIN o = 1..Len(o) /\ DOMAIN a = 1..(Len(o) + 1)
      /\ \A k \in 1..Len(o) : a[k] = o[k]
      /\ a[Len(o) + 1] = w
      /\ \A k \in 1..(Len(o) + 1) : k \in 1..Len(o) \/ k = Len(o) + 1
      /\ \A k \in 1..Len(o) : k \in 1..(Len(o) + 1) /\ k # Len(o) + 1
  BY Appended
<1>2. Len(o) + 1 \in DOMAIN a
  BY <1>1
<1> HIDE DEF a
<1>3. At(o, tag, kind, n) \subseteq At(a, tag, kind, n)
  BY <1>1 DEF At
<1>4. At(a, tag, kind, n) \subseteq At(o, tag, kind, n) \cup {Len(o) + 1}
  BY <1>1 DEF At
<1>5. Len(o) + 1 \in At(a, tag, kind, n) <=> (w.tag = tag /\ w.kind = kind /\ w.number = n)
  BY <1>1, <1>2 DEF At
<1>6. At(o, tag, kind, n) \subseteq 1..Len(o)
  BY <1>1 DEF At
<1> QED BY <1>3, <1>4, <1>5, <1>6 DEF a

\* Only an entry of the kind adds to the entries of the kind.
LEMMA EntriesAppended ==
    ASSUME NEW o \in Seq(Output), NEW w \in Output, NEW kind
    PROVE  /\ w.tag = "entry" /\ w.kind = kind =>
                  EntriesIn(Append(o, w), kind) = EntriesIn(o, kind) \cup {Len(o) + 1}
           /\ ~(w.tag = "entry" /\ w.kind = kind) =>
                  EntriesIn(Append(o, w), kind) = EntriesIn(o, kind)
           /\ EntriesIn(o, kind) \subseteq 1..Len(o)
<1> DEFINE a == Append(o, w)
<1>1. /\ Len(o) \in Nat /\ DOMAIN o = 1..Len(o) /\ DOMAIN a = 1..(Len(o) + 1)
      /\ \A k \in 1..Len(o) : a[k] = o[k]
      /\ a[Len(o) + 1] = w
      /\ \A k \in 1..(Len(o) + 1) : k \in 1..Len(o) \/ k = Len(o) + 1
      /\ \A k \in 1..Len(o) : k \in 1..(Len(o) + 1) /\ k # Len(o) + 1
  BY Appended
<1>2. Len(o) + 1 \in DOMAIN a
  BY <1>1
<1> HIDE DEF a
<1>3. EntriesIn(o, kind) \subseteq EntriesIn(a, kind)
  BY <1>1 DEF EntriesIn
<1>4. EntriesIn(a, kind) \subseteq EntriesIn(o, kind) \cup {Len(o) + 1}
  BY <1>1 DEF EntriesIn
<1>5. Len(o) + 1 \in EntriesIn(a, kind) <=> (w.tag = "entry" /\ w.kind = kind)
  BY <1>1, <1>2 DEF EntriesIn
<1>6. EntriesIn(o, kind) \subseteq 1..Len(o)
  BY <1>1 DEF EntriesIn
<1> QED BY <1>3, <1>4, <1>5, <1>6 DEF a

\* Entries of other kinds, and what is no entry, change nothing.
LEMMA ListedStill ==
    ASSUME NEW o \in Seq(Output), NEW w \in Output, NEW kind, NEW c, Listed(o, kind, c),
           ~(w.tag = "entry" /\ w.kind = kind)
    PROVE  Listed(Append(o, w), kind, c)
<1> DEFINE a == Append(o, w)
<1>1. EntriesIn(a, kind) = EntriesIn(o, kind) /\ EntriesIn(o, kind) \subseteq 1..Len(o)
  BY EntriesAppended
<1>2. /\ DOMAIN o = 1..Len(o) /\ DOMAIN a = 1..(Len(o) + 1)
      /\ \A k \in 1..Len(o) : a[k] = o[k]
      /\ \A k \in 1..Len(o) : k \in 1..(Len(o) + 1)
  BY Appended
<1>3. \A n : At(a, "entry", kind, n) = At(o, "entry", kind, n)
  BY AtAppended
<1> HIDE DEF a
<1>4. \A n \in 1..c : \E p \in DOMAIN a : At(a, "entry", kind, n) = {p}
  BY <1>2, <1>3 DEF Listed
<1>5. \A k \in EntriesIn(o, kind) : a[k] = o[k]
  BY <1>1, <1>2
<1>6. /\ IsFiniteSet(EntriesIn(a, kind)) /\ Cardinality(EntriesIn(a, kind)) = c
      /\ \A k \in EntriesIn(a, kind) : /\ a[k].number \in 1..c
                                       /\ a[k].number = Cardinality({l \in EntriesIn(a, kind) : l <= k})
  BY <1>1, <1>5, Zenon DEF Listed
<1> QED BY <1>4, <1>6 DEF Listed, a

\* The next entry gets the next number.
LEMMA ListedMore ==
    ASSUME NEW o \in Seq(Output), NEW w \in Output, NEW kind, NEW c \in Nat, Listed(o, kind, c),
           w.tag = "entry", w.kind = kind, w.number = c + 1
    PROVE  Listed(Append(o, w), kind, c + 1)
<1> DEFINE a == Append(o, w)
           E == EntriesIn(o, kind)
           z == Len(o) + 1
<1>1. EntriesIn(a, kind) = E \cup {z} /\ E \subseteq 1..Len(o)
  BY EntriesAppended
<1>2. /\ DOMAIN o = 1..Len(o) /\ DOMAIN a = 1..z /\ z \in DOMAIN a /\ Len(o) \in Nat
      /\ \A k \in 1..Len(o) : a[k] = o[k]
      /\ a[z] = w
      /\ \A k \in 1..Len(o) : k \in 1..z /\ k # z
  <2>1. Len(o) \in Nat
    BY Appended
  <2>2. z \in 1..z
    BY <2>1
  <2> QED BY <2>2, Appended
<1>3. /\ IsFiniteSet(E) /\ Cardinality(E) = c
      /\ \A k \in E : o[k].number \in 1..c /\ o[k].number = Cardinality({l \in E : l <= k})
      /\ \A n \in 1..c : \E p \in DOMAIN o : At(o, "entry", kind, n) = {p}
  BY DEF Listed
<1> HIDE DEF a, E
<1>4. z \notin E
  BY <1>1, <1>2
<1>5. IsFiniteSet(E \cup {z}) /\ Cardinality(E \cup {z}) = c + 1
  BY <1>3, <1>4, FS_AddElement
<1>6. \A n \in 1..c : At(a, "entry", kind, n) = At(o, "entry", kind, n)
  <2>1. \A n \in 1..c : n # c + 1
    OBVIOUS
  <2> QED BY <2>1, AtAppended DEF a
<1>7. At(a, "entry", kind, c + 1) = {z}
  <2>1. At(a, "entry", kind, c + 1) = At(o, "entry", kind, c + 1) \cup {z}
    BY AtAppended DEF a
  <2>2. At(o, "entry", kind, c + 1) = {}
    <3>1. \A k \in At(o, "entry", kind, c + 1) : k \in E /\ o[k].number = c + 1
      BY DEF At, E, EntriesIn
    <3>2. \A k \in E : o[k].number \in 1..c
      BY <1>3
    <3>3. ~(c + 1 \in 1..c)
      OBVIOUS
    <3> QED BY <3>1, <3>2, <3>3
  <2> QED BY <2>1, <2>2
<1>8. ASSUME NEW n \in 1..(c + 1) PROVE \E p \in DOMAIN a : At(a, "entry", kind, n) = {p}
  <2>1. CASE n = c + 1
    BY <1>2, <1>7, <2>1
  <2>2. CASE n # c + 1
    <3>1. n \in 1..c
      BY <2>2
    <3> QED BY <1>2, <1>3, <1>6, <3>1
  <2> QED BY <2>1, <2>2
<1>9. ASSUME NEW k \in E \cup {z}
      PROVE  a[k].number \in 1..(c + 1) /\ a[k].number = Cardinality({l \in E \cup {z} : l <= k})
  <2>1. CASE k = z
    <3>1. \A l \in E \cup {z} : l <= z
      BY <1>1, <1>2
    <3>2. {l \in E \cup {z} : l <= k} = E \cup {z}
      BY <2>1, <3>1
    <3>3. a[k].number = c + 1 /\ c + 1 \in 1..(c + 1)
      BY <1>2, <2>1
    <3> QED BY <1>5, <3>2, <3>3
  <2>2. CASE k # z
    <3>1. k \in E /\ k \in 1..Len(o) /\ a[k] = o[k] /\ ~(z <= k)
      BY <1>1, <1>2, <2>2
    <3>2. {l \in E \cup {z} : l <= k} = {l \in E : l <= k}
      BY <3>1
    <3>3. o[k].number \in 1..c /\ o[k].number = Cardinality({l \in E : l <= k})
      BY <1>3, <3>1
    <3>4. o[k].number \in 1..(c + 1)
      BY <3>3
    <3> QED BY <3>1, <3>2, <3>3, <3>4, Zenon
  <2> QED BY <2>1, <2>2
<1> QED BY <1>1, <1>5, <1>8, <1>9 DEF Listed, a

\* What does not end the section leaves open whether it ended.
LEMMA EndedStill ==
    ASSUME NEW o \in Seq(Output), NEW w \in Output, NEW kind, ~(w.tag = "end" /\ w.kind = kind)
    PROVE  /\ NotEnded(o, kind) => NotEnded(Append(o, w), kind)
           /\ \A p, c : EndedAt(o, kind, p) /\ LinksUpTo(o, kind, p, c) =>
                  EndedAt(Append(o, w), kind, p) /\ LinksUpTo(Append(o, w), kind, p, c)
<1> DEFINE a == Append(o, w)
<1>1. /\ Len(o) \in Nat /\ DOMAIN o = 1..Len(o) /\ DOMAIN a = 1..(Len(o) + 1)
      /\ \A k \in 1..Len(o) : a[k] = o[k]
      /\ a[Len(o) + 1] = w
      /\ \A k \in 1..(Len(o) + 1) : k \in 1..Len(o) \/ k = Len(o) + 1
      /\ \A k \in 1..Len(o) : k \in 1..(Len(o) + 1) /\ k # Len(o) + 1
  BY Appended
<1> HIDE DEF a
<1>2. NotEnded(o, kind) => NotEnded(a, kind)
  BY <1>1 DEF NotEnded
<1>3. ASSUME NEW p, NEW c, EndedAt(o, kind, p), LinksUpTo(o, kind, p, c)
      PROVE  EndedAt(a, kind, p) /\ LinksUpTo(a, kind, p, c)
  <2>1. p \in 1..Len(o) /\ p \in DOMAIN a
    BY <1>1, <1>3 DEF EndedAt
  <2>2. \A k \in 1..p : k \in 1..Len(o)
    BY <1>1, <2>1
  <2>3. EndedAt(a, kind, p)
    BY <1>1, <1>3, <2>1 DEF EndedAt
  <2>4. LinksUpTo(a, kind, p, c)
    BY <1>1, <1>3, <2>2 DEF LinksUpTo
  <2> QED BY <2>3, <2>4
<1> QED BY <1>2, <1>3 DEF a
-----------------------------------------------------------------------------
\* A link, an anchor or a way back leaves the sections as they are.
LEMMA SectionsStill ==
    ASSUME NEW o \in Seq(Output), NEW w \in Output, w.tag \notin {"entry", "end"},
           NEW s, NEW c, SectionsIn(o, s, c)
    PROVE  SectionsIn(Append(o, w), s, c)
<1> DEFINE a == Append(o, w)
<1>1. \A kind, n : Listed(o, kind, n) => Listed(a, kind, n)
  BY ListedStill
<1>2. \A kind : /\ NotEnded(o, kind) => NotEnded(a, kind)
                /\ \A p, n : EndedAt(o, kind, p) /\ LinksUpTo(o, kind, p, n) =>
                                 EndedAt(a, kind, p) /\ LinksUpTo(a, kind, p, n)
  BY EndedStill
<1>3. /\ Len(o) \in Nat /\ Len(a) = Len(o) + 1 /\ DOMAIN o = 1..Len(o) /\ DOMAIN a = 1..(Len(o) + 1)
  BY Appended
<1> HIDE DEF a
<1>4. DOMAIN o \subseteq DOMAIN a /\ \A n \in 0..Len(o) : n \in 0..Len(a)
  BY <1>3
<1> SUFFICES ASSUME NEW kind \in Kinds
             PROVE  /\ Turn[kind] > s => Listed(a, kind, 0) /\ NotEnded(a, kind)
                    /\ Turn[kind] = s => Listed(a, kind, c) /\ NotEnded(a, kind)
                    /\ Turn[kind] < s => \E n \in 0..Len(a), p \in DOMAIN a :
                           Listed(a, kind, n) /\ EndedAt(a, kind, p) /\ LinksUpTo(a, kind, p, n)
  BY DEF SectionsIn, a
<1>5. Turn[kind] > s => Listed(a, kind, 0) /\ NotEnded(a, kind)
  BY <1>1, <1>2 DEF SectionsIn
<1>6. Turn[kind] = s => Listed(a, kind, c) /\ NotEnded(a, kind)
  BY <1>1, <1>2 DEF SectionsIn
<1>7. ASSUME Turn[kind] < s
      PROVE  \E n \in 0..Len(a), p \in DOMAIN a :
                 Listed(a, kind, n) /\ EndedAt(a, kind, p) /\ LinksUpTo(a, kind, p, n)
  <2>1. PICK n \in 0..Len(o), p \in DOMAIN o :
            Listed(o, kind, n) /\ EndedAt(o, kind, p) /\ LinksUpTo(o, kind, p, n)
    BY <1>7 DEF SectionsIn
  <2> QED BY <1>1, <1>2, <1>4, <2>1
<1> QED BY <1>5, <1>6, <1>7

\* What is written about a note with a number is known.
LEMMA KnownMore ==
    ASSUME NEW o \in Seq(Output), NEW w \in Output, NEW stacks, NEW more, Known(o, stacks),
           \A kind \in Kinds : /\ Len(stacks[kind]) \in Nat /\ Len(more[kind]) \in Nat
                               /\ Len(stacks[kind]) <= Len(more[kind])
    PROVE  /\ Known(o, more)
           /\ w.tag = "end" \/ w.number \in 1..Len(more[w.kind]) => Known(Append(o, w), more)
<1>1. \A k \in DOMAIN o : o[k].kind \in Kinds
  <2>1. \A k \in DOMAIN o : o[k] \in Output
    BY LenProperties, ElementOfSeq
  <2> QED BY <2>1 DEF Output
<1>2. Known(o, more)
  <2> SUFFICES ASSUME NEW k \in DOMAIN o, o[k].tag # "end" PROVE o[k].number \in 1..Len(more[o[k].kind])
    BY DEF Known
  <2>1. o[k].number \in 1..Len(stacks[o[k].kind])
    BY DEF Known
  <2> DEFINE kind == o[k].kind
  <2>2. kind \in Kinds
    BY <1>1
  <2> HIDE DEF kind
  <2>3. Len(stacks[kind]) \in Nat /\ Len(more[kind]) \in Nat /\ Len(stacks[kind]) <= Len(more[kind])
    BY <2>2
  <2>4. 1..Len(stacks[kind]) \subseteq 1..Len(more[kind])
    BY <2>3
  <2> QED BY <2>1, <2>4 DEF kind
<1>3. ASSUME w.tag = "end" \/ w.number \in 1..Len(more[w.kind]) PROVE Known(Append(o, w), more)
  <2> DEFINE a == Append(o, w)
  <2>1. /\ DOMAIN o = 1..Len(o) /\ DOMAIN a = 1..(Len(o) + 1)
        /\ \A k \in 1..Len(o) : a[k] = o[k]
        /\ a[Len(o) + 1] = w
        /\ \A k \in 1..(Len(o) + 1) : k \in 1..Len(o) \/ k = Len(o) + 1
    BY Appended
  <2> HIDE DEF a
  <2>2. \A k \in DOMAIN a : a[k].tag # "end" => a[k].number \in 1..Len(more[a[k].kind])
    <3> TAKE k \in DOMAIN a
    <3>1. CASE k \in 1..Len(o)
      BY <1>2, <2>1, <3>1, Zenon DEF Known
    <3>2. CASE k = Len(o) + 1
      BY <1>3, <2>1, <3>2, Zenon
    <3> QED BY <2>1, <3>1, <3>2
  <2> QED BY <2>2 DEF Known, a
<1> QED BY <1>2, <1>3
-----------------------------------------------------------------------------
\* What a reference to e changes besides what is left to export
Renumbers(list, e, inside) ==
    LET kind == list[e].kind
        n == NumberOf(e, list)
        link == Written("link", kind, n)
        anchor == Written("anchor", kind, n)
    IN  /\ IInv'
        /\ kind \in Kinds /\ n \in Nat \ {0} /\ link \in Output /\ anchor \in Output
        /\ DOMAIN defs' = DOMAIN list /\ \A x \in DOMAIN list : x # e => defs'[x] = list[x]
        /\ defs'[e].kind = kind /\ defs'[e].index = n
        /\ defs'[e].of = list[e].of /\ defs'[e].is_inline = list[e].is_inline
        /\ n \in 1..Len(used_stack'[kind]) /\ used_stack'[kind][n] = e
        /\ \A k \in Kinds :
               /\ Len(used_stack[k]) \in Nat /\ Len(used_stack'[k]) \in Nat
               /\ DOMAIN used_stack[k] = 1..Len(used_stack[k])
               /\ DOMAIN used_stack'[k] = 1..Len(used_stack'[k])
               /\ Len(used_stack[k]) <= Len(used_stack'[k])
               /\ \A m \in 1..Len(used_stack[k]) : used_stack'[k][m] = used_stack[k][m]
        /\ IF list[e].index = 0 THEN n = Len(used_stack[kind]) + 1 ELSE n = list[e].index
        /\ NotCited(e, list) \/ Link(e, list, inside)
        /\ NotCited(e, list) => /\ out' = out
                                /\ defs'[e].used = (list[e].used \/ list[e].index = 0)
        /\ Link(e, list, inside) =>
               /\ out' = IF list[e].used THEN Append(out, link) ELSE Append(Append(out, link), anchor)
               /\ defs'[e].used = (list[e].used \/ inside = <<>>)

\* What a reference does.  list has all definitions that are known, and perhaps
\* a new one.
LEMMA ReferenceEffect ==
    ASSUME IInv, todo # <<>>,
           NEW list \in Seq(EndnoteDef), Numbered(list, used_stack), Based(list),
           DOMAIN defs \subseteq DOMAIN list,
           NEW e \in DOMAIN list, NEW inside \in Seq(DOMAIN doc.refs),
           Link(e, list, inside) \/ NotCited(e, list),
           UNCHANGED <<doc, section, i, in_endnote, endnote_return, endnote_return_para_counter>>,
           skip_endnote_label' \in BOOLEAN
    PROVE  Renumbers(list, e, inside)
<1> DEFINE kind == list[e].kind
           n == NumberOf(e, list)
           link == Written("link", kind, n)
           anchor == Written("anchor", kind, n)
<1>1. IInv'
  BY ReferenceKeepsInvariant
<1>2. /\ DOMAIN list = 1..Len(list) /\ Len(list) \in Nat
      /\ \A x \in DOMAIN list : list[x] \in EndnoteDef
  BY LenProperties, ElementOfSeq
<1>3. kind \in Kinds /\ list[e].index \in Nat /\ list[e] \in EndnoteDef /\ e \in Numbers
  BY <1>2 DEF EndnoteDef, Numbers
<1>4. \A k \in Kinds : /\ used_stack[k] \in Seq(Numbers) /\ used_stack'[k] \in Seq(Numbers)
                       /\ Len(used_stack[k]) \in Nat /\ Len(used_stack'[k]) \in Nat
                       /\ DOMAIN used_stack[k] = 1..Len(used_stack[k])
                       /\ DOMAIN used_stack'[k] = 1..Len(used_stack'[k])
  BY <1>1, LenProperties DEF IInv, TypeOK, Stacks
<1>5. n \in Nat \ {0} /\ IF list[e].index = 0 THEN n = Len(used_stack[kind]) + 1 ELSE n = list[e].index
  BY <1>3, <1>4 DEF NumberOf
<1>6. link \in Output /\ anchor \in Output
  BY <1>3, <1>5 DEF Written, Output
<1> HIDE DEF n, link, anchor
<1>7. PICK u : defs' = [list EXCEPT ![e].index = n, ![e].used = u]
  <2>1. CASE NotCited(e, list)
    BY <2>1 DEF NotCited, n
  <2>2. CASE Link(e, list, inside)
    BY <2>2 DEF Link, n
  <2> QED BY <2>1, <2>2
<1>8. /\ DOMAIN defs' = DOMAIN list /\ \A x \in DOMAIN list : x # e => defs'[x] = list[x]
      /\ defs'[e] = [list[e] EXCEPT !.index = n, !.used = u]
  BY <1>7
<1>9. /\ defs'[e].kind = kind /\ defs'[e].index = n
      /\ defs'[e].of = list[e].of /\ defs'[e].is_inline = list[e].is_inline
  BY <1>3, <1>8 DEF EndnoteDef
<1>10. n \in 1..Len(used_stack'[kind]) /\ used_stack'[kind][n] = e
  <2>1. n \in DOMAIN used_stack'[kind] /\ used_stack'[kind][n] = e
    <3>1. Numbered(defs', used_stack')
      BY <1>1 DEF IInv, NumbersArePlaces
    <3>2. e \in DOMAIN defs' /\ defs'[e].index # 0
      BY <1>5, <1>8, <1>9
    <3>3. /\ defs'[e].index \in DOMAIN used_stack'[defs'[e].kind]
          /\ used_stack'[defs'[e].kind][defs'[e].index] = e
      BY <3>1, <3>2 DEF Numbered
    <3> QED BY <1>9, <3>3
  <2> QED BY <1>3, <1>4, <2>1
<1>11. ASSUME NEW k \in Kinds
       PROVE  /\ Len(used_stack[k]) <= Len(used_stack'[k])
              /\ \A m \in 1..Len(used_stack[k]) : used_stack'[k][m] = used_stack[k][m]
  <2>1. used_stack' = Register(e, list) /\ used_stack \in Stacks
    BY DEF Link, NotCited, IInv, TypeOK
  <2>2. CASE list[e].index # 0
    <3>1. used_stack' = used_stack
      BY <2>1, <2>2 DEF Register, Pushed
    <3> QED BY <1>4, <3>1
  <2>3. CASE list[e].index = 0
    <3>1. used_stack' = [used_stack EXCEPT ![kind] = Append(used_stack[kind], e)]
      BY <2>1, <2>3 DEF Register, Pushed
    <3>2. CASE k # kind
      BY <1>3, <1>4, <2>1, <3>1, <3>2 DEF Stacks
    <3>3. CASE k = kind
      <4>1. used_stack'[k] = Append(used_stack[k], e)
        BY <1>3, <2>1, <3>1, <3>3 DEF Stacks
      <4> QED BY <1>3, <1>4, <4>1, AppendProperties
    <3> QED BY <3>2, <3>3
  <2> QED BY <2>2, <2>3
<1>12. Link(e, list, inside) =>
           out' = IF list[e].used THEN Append(out, link) ELSE Append(Append(out, link), anchor)
  <2> SUFFICES ASSUME Link(e, list, inside)
               PROVE  out' = IF list[e].used THEN Append(out, link) ELSE Append(Append(out, link), anchor)
    OBVIOUS
  <2>1. out' = out \o <<link>> \o (IF list[e].used THEN <<>> ELSE <<anchor>>)
    BY DEF Link, n, link, anchor
  <2>2. out \in Seq(Output) /\ out \o <<link>> = Append(out, link) /\ Append(out, link) \in Seq(Output)
    BY <1>6, AppendIsConcat, AppendProperties DEF IInv, TypeOK
  <2>3. CASE list[e].used
    <3>1. out' = Append(out, link) \o <<>>
      BY <2>1, <2>2, <2>3
    <3> QED BY <2>2, <2>3, <3>1, ConcatEmptySeq
  <2>4. CASE ~list[e].used
    <3>1. out' = Append(out, link) \o <<anchor>>
      BY <2>1, <2>2, <2>4
    <3>2. Append(out, link) \o <<anchor>> = Append(Append(out, link), anchor)
      BY <1>6, <2>2, AppendIsConcat
    <3> QED BY <2>4, <3>1, <3>2
  <2> QED BY <2>3, <2>4
<1>13. NotCited(e, list) => out' = out
  BY DEF NotCited
<1>14. NotCited(e, list) => defs'[e].used = (list[e].used \/ list[e].index = 0)
  <2> SUFFICES ASSUME NotCited(e, list) PROVE defs'[e].used = (list[e].used \/ list[e].index = 0)
    OBVIOUS
  <2>1. defs' = [list EXCEPT ![e].index = n, ![e].used = list[e].used \/ list[e].index = 0]
    BY DEF NotCited, n
  <2>2. defs'[e] = [list[e] EXCEPT !.index = n, !.used = list[e].used \/ list[e].index = 0]
    BY <2>1
  <2> QED BY <1>3, <2>2 DEF EndnoteDef
<1>15. Link(e, list, inside) => defs'[e].used = (list[e].used \/ inside = <<>>)
  <2> SUFFICES ASSUME Link(e, list, inside) PROVE defs'[e].used = (list[e].used \/ inside = <<>>)
    OBVIOUS
  <2>1. defs' = [list EXCEPT ![e].index = n, ![e].used = list[e].used \/ inside = <<>>]
    BY DEF Link, n
  <2>2. defs'[e] = [list[e] EXCEPT !.index = n, !.used = list[e].used \/ inside = <<>>]
    BY <2>1
  <2> QED BY <1>3, <2>2 DEF EndnoteDef
<1> QED BY <1>1, <1>3, <1>4, <1>5, <1>6, <1>8, <1>9, <1>10, <1>11, <1>12, <1>13, <1>14, <1>15 DEF Renumbers, n, link, anchor
-----------------------------------------------------------------------------
\* The items that are exported as references: a label never is.
LEMMA ExportedReference ==
    ASSUME IInv, ReferToDefined \/ ReferInline
    PROVE  \E list \in Seq(EndnoteDef), inside \in Seq(DOMAIN doc.refs) : \E e \in DOMAIN list :
           LET r == todo[1].of
               how == doc.refs[r].how
           IN  /\ todo # <<>> /\ todo[1].what = "ref" /\ r \in DOMAIN doc.refs
               /\ Numbered(list, used_stack) /\ Based(list) /\ DOMAIN defs \subseteq DOMAIN list
               /\ \/ list = defs /\ e = Target(r) /\ Target(r) \in DOMAIN doc.defs
                  \/ /\ list = Append(defs, Def(doc.refs[r].kind, r, TRUE)) /\ e = Len(list)
                     /\ Target(r) = 0
               /\ \/ how = "not_cited" /\ NotCited(e, list)
                  \/ how = "locator" /\ inside = doc.refs[r].inside /\ Link(e, list, inside)
                  \/ how = "cited" /\ inside = <<>> /\ Link(e, list, inside)
<1> DEFINE r == todo[1].of
           how == doc.refs[r].how
           longer == Append(defs, Def(doc.refs[r].kind, r, TRUE))
<1>1. todo # <<>> /\ todo[1].what = "ref"
  BY DEF ReferToDefined, ReferInline, Busy
<1>2. doc \in Documents /\ r \in DOMAIN doc.refs
  <2>1. todo[1] \in Good(DOMAIN defs)
    BY <1>1, RestIsGood
  <2> QED BY <2>1, <1>1 DEF Good, IInv, Resolves
<1>3. ASSUME NEW e, NEW list, export_endnote_def(e, list, doc.refs[r])
      PROVE  \E inside \in Seq(DOMAIN doc.refs) :
                  \/ how = "not_cited" /\ NotCited(e, list)
                  \/ how = "locator" /\ inside = doc.refs[r].inside /\ Link(e, list, inside)
                  \/ how = "cited" /\ inside = <<>> /\ Link(e, list, inside)
  <2>1. how \in {"cited", "not_cited", "locator"} /\ doc.refs[r].inside \in Seq(DOMAIN doc.refs)
    <3>1. doc.refs[r] \in Reference /\ doc.refs[r].inside \in Seq(DOMAIN doc.refs)
      BY <1>2, DocumentFacts
    <3> QED BY <3>1 DEF Reference
  <2>2. <<>> \in Seq(DOMAIN doc.refs)
    BY EmptySeq
  <2>3. CASE how = "cited"
    BY <1>3, <2>2, <2>3 DEF export_endnote_def
  <2>4. CASE how = "not_cited"
    BY <1>3, <2>2, <2>4 DEF export_endnote_def
  <2>5. CASE how = "locator"
    BY <1>3, <2>1, <2>5 DEF export_endnote_def
  <2> QED BY <2>1, <2>3, <2>4, <2>5
<1>4. CASE ReferToDefined
  <2>1. Target(r) # 0 /\ export_endnote_def(Target(r), defs, doc.refs[r])
    BY <1>4 DEF ReferToDefined
  <2>2. Target(r) \in DOMAIN doc.defs /\ Target(r) \in DOMAIN defs
    BY <2>1, <1>2, TargetIsDefined DEF IInv, Resolves
  <2>3. defs \in Seq(EndnoteDef) /\ Numbered(defs, used_stack) /\ Based(defs)
    BY DEF IInv, TypeOK, NumbersArePlaces, Resolves
  <2>4. PICK inside \in Seq(DOMAIN doc.refs) :
                  \/ how = "not_cited" /\ NotCited(Target(r), defs)
                  \/ how = "locator" /\ inside = doc.refs[r].inside /\ Link(Target(r), defs, inside)
                  \/ how = "cited" /\ inside = <<>> /\ Link(Target(r), defs, inside)
    BY <1>3, <2>1
  <2> QED BY <1>1, <1>2, <2>2, <2>3, <2>4
<1>5. CASE ReferInline
  <2>1. Target(r) = 0 /\ export_endnote_def(Len(longer), longer, doc.refs[r])
    BY <1>5 DEF ReferInline
  <2>2. /\ longer \in Seq(EndnoteDef) /\ Numbered(longer, used_stack) /\ Based(longer)
        /\ DOMAIN defs \subseteq DOMAIN longer /\ Len(longer) \in DOMAIN longer
    BY <1>2, InlineNote
  <2>3. PICK inside \in Seq(DOMAIN doc.refs) :
                  \/ how = "not_cited" /\ NotCited(Len(longer), longer)
                  \/ how = "locator" /\ inside = doc.refs[r].inside /\ Link(Len(longer), longer, inside)
                  \/ how = "cited" /\ inside = <<>> /\ Link(Len(longer), longer, inside)
    BY <1>3, <2>1
  <2>4. longer = Append(defs, Def(doc.refs[r].kind, r, TRUE))
    OBVIOUS
  <2> HIDE DEF longer
  <2> QED BY <1>1, <1>2, <2>1, <2>2, <2>3, <2>4
<1> QED BY <1>4, <1>5

\* A reference leaves the sections as they are, and what it writes is known.
LEMMA ReferenceSections ==
    ASSUME IInv, OutKnown, SectionsSoFar, ReferToDefined \/ ReferInline
    PROVE  OutKnown' /\ SectionsSoFar'
<1>1. PICK list \in Seq(EndnoteDef), inside \in Seq(DOMAIN doc.refs) : \E e \in DOMAIN list :
           /\ todo # <<>>
           /\ Numbered(list, used_stack) /\ Based(list) /\ DOMAIN defs \subseteq DOMAIN list
           /\ NotCited(e, list) \/ Link(e, list, inside)
  BY ExportedReference
<1>2. PICK e \in DOMAIN list :
           /\ todo # <<>>
           /\ Numbered(list, used_stack) /\ Based(list) /\ DOMAIN defs \subseteq DOMAIN list
           /\ NotCited(e, list) \/ Link(e, list, inside)
  BY <1>1
<1>3. /\ UNCHANGED <<doc, section, i, in_endnote, skip_endnote_label, endnote_return, endnote_return_para_counter>>
      /\ skip_endnote_label' \in BOOLEAN
  BY DEF ReferToDefined, ReferInline, IInv, TypeOK
<1> DEFINE kind == list[e].kind
           n == NumberOf(e, list)
           link == Written("link", kind, n)
           anchor == Written("anchor", kind, n)
<1>4. /\ kind \in Kinds /\ link \in Output /\ anchor \in Output
      /\ n \in 1..Len(used_stack'[kind])
      /\ \A k \in Kinds :
             /\ Len(used_stack[k]) \in Nat /\ Len(used_stack'[k]) \in Nat
             /\ Len(used_stack[k]) <= Len(used_stack'[k])
      /\ out' \in {out, Append(out, link), Append(Append(out, link), anchor)}
  <2>1. Renumbers(list, e, inside)
    BY <1>2, <1>3, ReferenceEffect
  <2> QED BY <2>1 DEF Renumbers
<1>5. /\ link.tag = "link" /\ link.kind = kind /\ link.number = n
      /\ anchor.tag = "anchor" /\ anchor.kind = kind /\ anchor.number = n
  BY DEF Written
<1> HIDE DEF kind, n, link, anchor
<1>6. out \in Seq(Output) /\ Append(out, link) \in Seq(Output)
  BY <1>4, AppendProperties DEF IInv, TypeOK
<1>7. /\ Known(out, used_stack') /\ Known(Append(out, link), used_stack')
      /\ Known(Append(Append(out, link), anchor), used_stack')
  <2>1. Known(out, used_stack') /\ Known(Append(out, link), used_stack')
    BY <1>4, <1>5, <1>6, KnownMore DEF OutKnown
  <2>2. \A k \in Kinds : /\ Len(used_stack'[k]) \in Nat /\ Len(used_stack'[k]) \in Nat
                         /\ Len(used_stack'[k]) <= Len(used_stack'[k])
    BY <1>4
  <2>3. anchor.number \in 1..Len(used_stack'[anchor.kind])
    BY <1>4, <1>5
  <2> QED BY <1>4, <1>6, <2>1, <2>2, <2>3, KnownMore
<1>8. /\ SectionsIn(out, section, i) /\ SectionsIn(Append(out, link), section, i)
      /\ SectionsIn(Append(Append(out, link), anchor), section, i)
  <2>1. SectionsIn(out, section, i) /\ SectionsIn(Append(out, link), section, i)
    BY <1>4, <1>5, <1>6, SectionsStill DEF SectionsSoFar
  <2> QED BY <1>4, <1>5, <1>6, <2>1, SectionsStill
<1>9. section \in 1..3 => i <= Len(used_stack'[Kind])
  <2>1. section \in 1..3 => Kind \in Kinds
    BY DEF Kind, Section, Kinds
  <2>2. i \in Nat
    BY DEF IInv, TypeOK
  <2> QED BY <1>4, <2>1, <2>2 DEF SectionsSoFar
<1>10. OutKnown'
  BY <1>4, <1>7 DEF OutKnown
<1>11. SectionsSoFar'
  BY <1>3, <1>4, <1>8, <1>9 DEF SectionsSoFar, Kind
<1> QED BY <1>10, <1>11

\* When an entry is written its number is its place on the stack.
LEMMA EntryNumber ==
    ASSUME IInv, section \in 1..3, NEW k \in DOMAIN used_stack[Kind]
    PROVE  /\ Kind \in Kinds /\ Turn[Kind] = section
           /\ \A kind \in Kinds : Turn[kind] = section => kind = Kind
           /\ DOMAIN used_stack[Kind] = 1..Len(used_stack[Kind]) /\ Len(used_stack[Kind]) \in Nat
           /\ used_stack[Kind][k] \in DOMAIN defs
           /\ defs[used_stack[Kind][k]] \in EndnoteDef
           /\ defs[used_stack[Kind][k]].kind = Kind /\ defs[used_stack[Kind][k]].index = k
<1>1. Kind \in Kinds /\ Turn[Kind] = section /\ \A kind \in Kinds : Turn[kind] = section => kind = Kind
  BY DEF Kind, Section, Turn, Kinds
<1>2. DOMAIN used_stack[Kind] = 1..Len(used_stack[Kind]) /\ Len(used_stack[Kind]) \in Nat
  BY <1>1, LenProperties DEF IInv, TypeOK, Stacks
<1>3. /\ used_stack[Kind][k] \in DOMAIN defs
      /\ defs[used_stack[Kind][k]].kind = Kind /\ defs[used_stack[Kind][k]].index = k
  BY <1>1 DEF IInv, NumbersArePlaces, Numbered
<1>4. defs[used_stack[Kind][k]] \in EndnoteDef
  BY <1>3, LenProperties, ElementOfSeq DEF IInv, TypeOK
<1> QED BY <1>1, <1>2, <1>3, <1>4

\* A way back leaves the sections as they are.
LEMMA WayBackSections ==
    ASSUME IInv, OutKnown, SectionsSoFar, in_endnote,
           out' = out \/ out' = Append(out, Written("return", Kind, defs[Entry].index)),
           UNCHANGED <<used_stack, section, i>>
    PROVE  OutKnown' /\ SectionsSoFar'
<1> DEFINE w == Written("return", Kind, defs[Entry].index)
<1>1. section \in 1..3 /\ i \in DOMAIN used_stack[Kind] /\ out \in Seq(Output)
  BY DEF IInv, Resolves, TypeOK, Kind
<1>2. Kind \in Kinds /\ defs[Entry].index = i /\ i \in 1..Len(used_stack[Kind]) /\ i \in Nat
  BY <1>1, EntryNumber DEF Entry
<1>3. w \in Output /\ w.tag = "return" /\ w.kind = Kind /\ w.number = i
  BY <1>2 DEF Written, Output
<1> HIDE DEF w
<1>4. \A k \in Kinds : Len(used_stack[k]) \in Nat /\ Len(used_stack[k]) <= Len(used_stack[k])
  BY LenProperties DEF IInv, TypeOK, Stacks
<1>5. Known(out, used_stack) /\ Known(Append(out, w), used_stack)
  BY <1>1, <1>2, <1>3, <1>4, KnownMore DEF OutKnown
<1>6. SectionsIn(out, section, i) /\ SectionsIn(Append(out, w), section, i)
  BY <1>1, <1>3, SectionsStill DEF SectionsSoFar
<1>7. out' = out \/ out' = Append(out, w)
  BY DEF w
<1>8. OutKnown'
  BY <1>5, <1>7 DEF OutKnown
<1>9. SectionsSoFar'
  BY <1>6, <1>7 DEF SectionsSoFar, Kind
<1> QED BY <1>8, <1>9

\* The next note of the section has its entry.
LEMMA BeginEntrySections ==
    ASSUME IInv, OutKnown, SectionsSoFar, BeginEntry
    PROVE  OutKnown' /\ SectionsSoFar'
<1> DEFINE e == used_stack[Kind][i + 1]
           w == Written("entry", Kind, defs[e].index)
<1>1. /\ section \in 1..3 /\ i < Len(used_stack[Kind]) /\ i' = i + 1 /\ out' = Append(out, w)
      /\ UNCHANGED <<doc, defs, used_stack, section>>
  BY DEF BeginEntry, Size, SizeNow
<1>2. i \in Nat /\ out \in Seq(Output)
  BY DEF IInv, TypeOK
<1>3. Kind \in Kinds /\ Len(used_stack[Kind]) \in Nat /\ DOMAIN used_stack[Kind] = 1..Len(used_stack[Kind])
  BY <1>1, LenProperties DEF IInv, TypeOK, Stacks, Kind, Section, Kinds
<1>4. i + 1 \in 1..Len(used_stack[Kind])
  BY <1>1, <1>2, <1>3
<1>5. /\ Turn[Kind] = section /\ \A kind \in Kinds : Turn[kind] = section => kind = Kind
      /\ defs[e].index = i + 1
  BY <1>1, <1>3, <1>4, EntryNumber
<1>6. w \in Output /\ w.tag = "entry" /\ w.kind = Kind /\ w.number = i + 1
  BY <1>2, <1>3, <1>5 DEF Written, Output
<1> DEFINE a == Append(out, w)
<1> HIDE DEF w, e
<1>7. OutKnown'
  <2>1. \A k \in Kinds : Len(used_stack[k]) \in Nat /\ Len(used_stack[k]) <= Len(used_stack[k])
    BY LenProperties DEF IInv, TypeOK, Stacks
  <2>2. Known(a, used_stack)
    BY <1>2, <1>4, <1>6, <2>1, KnownMore DEF OutKnown
  <2> QED BY <1>1, <2>2 DEF OutKnown
<1>8. SectionsIn(a, section, i + 1)
  <2>1. \A kind : kind # Kind => \A n : Listed(out, kind, n) => Listed(a, kind, n)
    BY <1>2, <1>6, ListedStill
  <2>2. \A kind : /\ NotEnded(out, kind) => NotEnded(a, kind)
                  /\ \A p, n : EndedAt(out, kind, p) /\ LinksUpTo(out, kind, p, n) =>
                                   EndedAt(a, kind, p) /\ LinksUpTo(a, kind, p, n)
    BY <1>2, <1>6, EndedStill
  <2>3. Listed(out, Kind, i) => Listed(a, Kind, i + 1)
    BY <1>2, <1>6, ListedMore
  <2>4. /\ Len(out) \in Nat /\ Len(a) = Len(out) + 1 /\ DOMAIN out = 1..Len(out) /\ DOMAIN a = 1..(Len(out) + 1)
    BY <1>2, <1>6, Appended
  <2> HIDE DEF a
  <2>5. DOMAIN out \subseteq DOMAIN a /\ \A n \in 0..Len(out) : n \in 0..Len(a)
    BY <2>4
  <2> SUFFICES ASSUME NEW kind \in Kinds
               PROVE  /\ Turn[kind] > section => Listed(a, kind, 0) /\ NotEnded(a, kind)
                      /\ Turn[kind] = section => Listed(a, kind, i + 1) /\ NotEnded(a, kind)
                      /\ Turn[kind] < section => \E n \in 0..Len(a), p \in DOMAIN a :
                             Listed(a, kind, n) /\ EndedAt(a, kind, p) /\ LinksUpTo(a, kind, p, n)
    BY DEF SectionsIn
  <2>6. SectionsIn(out, section, i)
    BY DEF SectionsSoFar
  <2>7. Turn[kind] \in 1..3
    BY DEF Turn, Kinds
  <2>8. CASE kind = Kind
    <3>1. Listed(out, kind, i) /\ NotEnded(out, kind) /\ Turn[kind] = section
      BY <1>3, <1>5, <2>6, <2>8 DEF SectionsIn
    <3>2. ~(Turn[kind] > section) /\ ~(Turn[kind] < section)
      BY <1>1, <3>1
    <3> QED BY <2>2, <2>3, <2>8, <3>1, <3>2
  <2>9. CASE kind # Kind
    <3>1. Turn[kind] # section
      BY <1>5, <2>9
    <3>2. Turn[kind] > section => Listed(a, kind, 0) /\ NotEnded(a, kind)
      BY <2>1, <2>2, <2>6, <2>9 DEF SectionsIn
    <3>3. ASSUME Turn[kind] < section
          PROVE  \E n \in 0..Len(a), p \in DOMAIN a :
                     Listed(a, kind, n) /\ EndedAt(a, kind, p) /\ LinksUpTo(a, kind, p, n)
      <4>1. PICK n \in 0..Len(out), p \in DOMAIN out :
                Listed(out, kind, n) /\ EndedAt(out, kind, p) /\ LinksUpTo(out, kind, p, n)
        BY <2>6, <3>3 DEF SectionsIn
      <4> QED BY <2>1, <2>2, <2>5, <2>9, <4>1
    <3> QED BY <3>1, <3>2, <3>3
  <2> QED BY <2>8, <2>9
<1>9. SectionsSoFar'
  <2>1. i + 1 <= Len(used_stack[Kind])
    BY <1>4
  <2> QED BY <1>1, <1>8, <2>1 DEF SectionsSoFar, Kind
<1> QED BY <1>7, <1>9

\* A section ends when every note that was referred to by then has its entry.
LEMMA NextSectionSections ==
    ASSUME IInv, OutKnown, SectionsSoFar, NextSection
    PROVE  OutKnown' /\ SectionsSoFar'
<1>1. /\ section \in 0..3 /\ section' = section + 1 /\ i' = 0
      /\ out' = IF section = 0 THEN out ELSE Append(out, Written("end", Kind, 0))
      /\ section # 0 => i >= Len(used_stack[Kind])
      /\ UNCHANGED <<doc, defs, used_stack>>
  BY DEF NextSection, Size, SizeNow
<1>2. i \in Nat /\ out \in Seq(Output) /\ \A k \in Kinds : Len(used_stack[k]) \in Nat
  BY LenProperties DEF IInv, TypeOK, Stacks
<1>3. section' \in 1..3 => 0 <= Len(used_stack'[Kind'])
  <2>1. section' \in 1..3 => Kind' \in Kinds
    BY DEF Kind, Section, Kinds
  <2> QED BY <1>1, <1>2, <2>1
<1>4. SectionsIn(out, section, i)
  BY DEF SectionsSoFar
<1>5. \A kind \in Kinds : Turn[kind] \in 1..3
  BY DEF Turn, Kinds
<1>6. CASE section = 0
  <2>1. \A kind \in Kinds : Turn[kind] > 0
    BY <1>5
  <2>2. SectionsIn(out, 1, 0)
    <3> SUFFICES ASSUME NEW kind \in Kinds
                 PROVE  Listed(out, kind, 0) /\ NotEnded(out, kind) /\ ~(Turn[kind] < 1)
      BY DEF SectionsIn
    <3> QED BY <1>4, <1>5, <1>6, <2>1 DEF SectionsIn
  <2>3. out' = out /\ section' = 1 /\ i' = 0
    BY <1>1, <1>6
  <2> QED BY <1>1, <1>3, <2>2, <2>3 DEF SectionsSoFar, OutKnown
<1>7. CASE section # 0
  <2> DEFINE w == Written("end", Kind, 0)
             a == Append(out, w)
             z == Len(out) + 1
  <2>1. /\ section \in 1..3 /\ out' = a
        /\ Kind \in Kinds /\ Turn[Kind] = section /\ \A kind \in Kinds : Turn[kind] = section => kind = Kind
    BY <1>1, <1>7 DEF Kind, Section, Turn, Kinds
  <2>2. w \in Output /\ w.tag = "end" /\ w.kind = Kind
    BY <2>1 DEF Written, Output
  <2> HIDE DEF w
  <2>3. OutKnown'
    <3>1. \A k \in Kinds : Len(used_stack[k]) \in Nat /\ Len(used_stack[k]) <= Len(used_stack[k])
      BY <1>2
    <3>2. Known(a, used_stack)
      BY <1>2, <2>2, <3>1, KnownMore DEF OutKnown
    <3> QED BY <1>1, <2>1, <3>2 DEF OutKnown
  <2>4. \A kind, n : Listed(out, kind, n) => Listed(a, kind, n)
    BY <1>2, <2>2, ListedStill
  <2>5. \A kind : kind # Kind => /\ NotEnded(out, kind) => NotEnded(a, kind)
                  /\ \A p, n : EndedAt(out, kind, p) /\ LinksUpTo(out, kind, p, n) =>
                                   EndedAt(a, kind, p) /\ LinksUpTo(a, kind, p, n)
    BY <1>2, <2>2, EndedStill
  <2>6. /\ Len(out) \in Nat /\ Len(a) = z /\ DOMAIN out = 1..Len(out) /\ DOMAIN a = 1..z
        /\ \A k \in 1..Len(out) : a[k] = out[k]
        /\ a[z] = w
        /\ \A k \in 1..z : k \in 1..Len(out) \/ k = z
        /\ \A k \in 1..Len(out) : k \in 1..z /\ k # z
    BY <1>2, <2>2, Appended
  <2> HIDE DEF a
  <2>7. DOMAIN out \subseteq DOMAIN a /\ (\A n \in 0..Len(out) : n \in 0..Len(a)) /\ z \in DOMAIN a
    BY <2>6
  <2>8. Listed(out, Kind, i) /\ NotEnded(out, Kind)
    BY <1>4, <2>1 DEF SectionsIn
  <2>9. EndedAt(a, Kind, z)
    <3>1. \A k \in 1..Len(out) : ~(a[k].tag = "end" /\ a[k].kind = Kind)
      BY <2>6, <2>8 DEF NotEnded
    <3>2. a[z].tag = "end" /\ a[z].kind = Kind
      BY <2>2, <2>6
    <3> QED BY <2>6, <2>7, <3>1, <3>2, Zenon DEF EndedAt
  <2>10. LinksUpTo(a, Kind, z, i)
    <3> SUFFICES ASSUME NEW k \in 1..z, a[k].tag = "link", a[k].kind = Kind PROVE a[k].number <= i
      BY DEF LinksUpTo
    <3>1. k \in 1..Len(out)
      BY <2>2, <2>6
    <3>2. out[k].number \in 1..Len(used_stack[Kind])
      BY <2>6, <3>1 DEF OutKnown, Known
    <3> QED BY <1>1, <1>2, <1>7, <2>1, <2>6, <3>1, <3>2
  <2>11. i \in 0..Len(a)
    <3>1. EntriesIn(out, Kind) \subseteq 1..Len(out)
      BY <2>6 DEF EntriesIn
    <3>2. IsFiniteSet(1..Len(out)) /\ Cardinality(1..Len(out)) = Len(out)
      <4>1. Len(out) \in Int
        BY <2>6
      <4>2. /\ IsFiniteSet(1..Len(out))
            /\ Cardinality(1..Len(out)) = IF 1 > Len(out) THEN 0 ELSE Len(out) - 1 + 1
        BY <4>1, FS_Interval
      <4> QED BY <2>6, <4>2
    <3>3. Cardinality(EntriesIn(out, Kind)) <= Len(out)
      BY <3>1, <3>2, FS_Subset
    <3>4. i <= Len(out)
      BY <2>8, <3>3 DEF Listed
    <3> QED BY <1>2, <2>6, <3>4
  <2>12. SectionsIn(a, section + 1, 0)
    <3> SUFFICES ASSUME NEW kind \in Kinds
                 PROVE  /\ Turn[kind] > section + 1 => Listed(a, kind, 0) /\ NotEnded(a, kind)
                        /\ Turn[kind] = section + 1 => Listed(a, kind, 0) /\ NotEnded(a, kind)
                        /\ Turn[kind] < section + 1 => \E n \in 0..Len(a), p \in DOMAIN a :
                               Listed(a, kind, n) /\ EndedAt(a, kind, p) /\ LinksUpTo(a, kind, p, n)
      BY DEF SectionsIn
    <3>1. CASE Turn[kind] > section
      <4>1. kind # Kind /\ ~(Turn[kind] < section + 1)
        BY <1>5, <2>1, <3>1
      <4>2. Listed(a, kind, 0) /\ NotEnded(a, kind)
        BY <1>4, <2>4, <2>5, <3>1, <4>1 DEF SectionsIn
      <4> QED BY <4>1, <4>2
    <3>2. CASE Turn[kind] = section
      <4>1. kind = Kind /\ ~(Turn[kind] > section + 1) /\ Turn[kind] # section + 1
        BY <2>1, <3>2
      <4>2. Listed(a, kind, i) /\ EndedAt(a, kind, z) /\ LinksUpTo(a, kind, z, i)
        BY <2>4, <2>8, <2>9, <2>10, <4>1
      <4> QED BY <2>7, <2>11, <4>1, <4>2
    <3>3. CASE Turn[kind] < section
      <4>1. kind # Kind /\ ~(Turn[kind] > section + 1) /\ Turn[kind] # section + 1
        BY <1>5, <2>1, <3>3
      <4>2. PICK n \in 0..Len(out), p \in DOMAIN out :
                Listed(out, kind, n) /\ EndedAt(out, kind, p) /\ LinksUpTo(out, kind, p, n)
        BY <1>4, <3>3 DEF SectionsIn
      <4>3. Listed(a, kind, n) /\ EndedAt(a, kind, p) /\ LinksUpTo(a, kind, p, n)
        BY <2>4, <2>5, <4>1, <4>2
      <4>4. n \in 0..Len(a) /\ p \in DOMAIN a
        BY <2>7
      <4> QED BY <4>1, <4>3, <4>4
    <3> QED BY <1>5, <2>1, <3>1, <3>2, <3>3
  <2>13. SectionsSoFar'
    BY <1>1, <1>3, <2>1, <2>12 DEF SectionsSoFar
  <2> QED BY <2>3, <2>13
<1> QED BY <1>6, <1>7
-----------------------------------------------------------------------------
\* What is left behind the next item.
LEMMA RestIs ==
    ASSUME NEW list \in Seq(Items), list # <<>>
    PROVE  /\ Following(list) \in Seq(Items) /\ Len(list) \in Nat \ {0}
           /\ DOMAIN list = 1..Len(list)
           /\ Len(Following(list)) = Len(list) - 1
           /\ DOMAIN Following(list) = 1..(Len(list) - 1)
           /\ \A k \in 1..(Len(list) - 1) : Following(list)[k] = list[k + 1]
<1>1. /\ Tail(list) \in Seq(Items) /\ Len(Tail(list)) = Len(list) - 1
      /\ \A k \in 1..(Len(list) - 1) : Tail(list)[k] = list[k + 1]
  BY HeadTailProperties
<1>2. DOMAIN list = 1..Len(list) /\ Len(list) \in Nat /\ Len(list) # 0
  BY LenProperties, EmptySeq
<1>3. DOMAIN Tail(list) = 1..(Len(list) - 1)
  BY <1>1, LenProperties
<1> QED BY <1>1, <1>2, <1>3 DEF Following, Rest

\* What is left when a locator comes before it.
After(list, inside, e) ==
    Refs(inside) \o (IF inside = <<>> THEN <<>> ELSE <<Item("used", e)>>) \o Following(list)

\* The items of the locator come first, then the note's use, then the rest.
LEMMA LocatorFirst ==
    ASSUME doc \in Documents, NEW list \in Seq(Items), list # <<>>,
           NEW inside \in Seq(DOMAIN doc.refs), NEW e \in Nat
    PROVE  LET new == After(list, inside, e)
               b == Len(inside)
               u == IF inside = <<>> THEN 0 ELSE 1
               n == Len(list) - 1
           IN  /\ b \in Nat /\ n \in Nat /\ (b = 0 <=> inside = <<>>)
               /\ DOMAIN list = 1..(n + 1) /\ DOMAIN new = 1..(b + u + n) /\ Len(new) = b + u + n
               /\ DOMAIN inside = 1..b
               /\ \A k \in 1..b : new[k] = Ref(inside[k])
               /\ inside # <<>> => new[b + 1] = Item("used", e)
               /\ \A k \in 1..n : new[b + u + k] = list[k + 1]
<1> DEFINE new == After(list, inside, e)
           b == Len(inside)
           u == IF inside = <<>> THEN 0 ELSE 1
           n == Len(list) - 1
           R == Refs(inside)
           U == IF inside = <<>> THEN <<>> ELSE <<Item("used", e)>>
           F == Following(list)
<1>1. b \in Nat /\ DOMAIN inside = 1..b /\ (b = 0 <=> inside = <<>>) /\ u \in 0..1
  BY LenProperties, EmptySeq
<1>2. R \in Seq(Items)
  BY RefsAreGood, GoodGrows
<1>3. Len(R) = b /\ \A k \in 1..b : R[k] = Ref(inside[k])
  <2>1. R = [k \in 1..b |-> Ref(inside[k])]
    BY <1>1 DEF Refs
  <2> QED BY <1>1, <1>2, <2>1, LenProperties
<1>4. Item("used", e) \in Items
  BY DEF Item, Items
<1>5. U \in Seq(Items) /\ Len(U) = u /\ (u = 1 => U[1] = Item("used", e))
  <2>1. CASE inside = <<>>
    BY <2>1, EmptySeq
  <2>2. CASE inside # <<>>
    <3>1. U = <<Item("used", e)>> /\ u = 1
      BY <2>2
    <3> HIDE DEF U, u
    <3> QED BY <1>4, <3>1
  <2> QED BY <2>1, <2>2
<1>6. /\ F \in Seq(Items) /\ n \in Nat /\ DOMAIN list = 1..(n + 1) /\ Len(F) = n
      /\ \A k \in 1..n : F[k] = list[k + 1]
  <2>1. Len(list) \in Nat \ {0} /\ DOMAIN list = 1..Len(list)
    BY RestIs
  <2>2. n + 1 = Len(list) /\ n \in Nat
    BY <2>1
  <2> QED BY <2>1, <2>2, RestIs
<1>7. new = R \o U \o F
  BY DEF After
<1>8. inside # <<>> <=> u = 1
  BY DEF u
<1> HIDE DEF new, b, u, n, R, U, F
<1> DEFINE RU == R \o U
<1>9. /\ RU \in Seq(Items) /\ Len(RU) = b + u
      /\ \A k \in 1..b : RU[k] = R[k]
      /\ u = 1 => RU[b + 1] = U[1]
  <2>1. /\ RU \in Seq(Items) /\ Len(RU) = Len(R) + Len(U)
        /\ \A k \in 1..(Len(R) + Len(U)) : RU[k] = IF k <= Len(R) THEN R[k] ELSE U[k - Len(R)]
    BY <1>2, <1>5, ConcatProperties
  <2> HIDE DEF RU
  <2>2. \A k \in 1..(b + u) : RU[k] = IF k <= b THEN R[k] ELSE U[k - b]
    BY <1>3, <1>5, <2>1, Zenon
  <2>3. Len(RU) = b + u
    BY <1>3, <1>5, <2>1, Zenon
  <2>4. \A k \in 1..b : RU[k] = R[k]
    BY <1>1, <2>2
  <2>5. ASSUME u = 1 PROVE RU[b + 1] = U[1]
    <3> DEFINE q == b + 1
    <3>1. q \in 1..(b + u) /\ ~(q <= b) /\ q - b = 1
      BY <1>1, <2>5
    <3> HIDE DEF q
    <3>2. RU[q] = IF q <= b THEN R[q] ELSE U[q - b]
      BY <2>2, <3>1
    <3>3. RU[q] = U[1]
      BY <3>1, <3>2
    <3> QED BY <3>3 DEF q
  <2> QED BY <2>1, <2>3, <2>4, <2>5
<1>15. new = RU \o F
  BY <1>7
<1> HIDE DEF RU
<1>10. /\ new \in Seq(Items) /\ Len(new) = b + u + n
       /\ \A k \in 1..(b + u) : new[k] = RU[k]
       /\ \A k \in 1..n : new[b + u + k] = F[k]
  <2>1. /\ new \in Seq(Items) /\ Len(new) = Len(RU) + Len(F)
        /\ \A k \in 1..(Len(RU) + Len(F)) : new[k] = IF k <= Len(RU) THEN RU[k] ELSE F[k - Len(RU)]
    BY <1>6, <1>9, <1>15, ConcatProperties
  <2>2. \A k \in 1..(b + u + n) : new[k] = IF k <= b + u THEN RU[k] ELSE F[k - (b + u)]
    BY <1>6, <1>9, <2>1, Zenon
  <2>3. Len(new) = b + u + n
    BY <1>6, <1>9, <2>1, Zenon
  <2>4. ASSUME NEW k \in 1..(b + u) PROVE new[k] = RU[k]
    <3>1. k \in 1..(b + u + n) /\ k <= b + u
      BY <1>1, <1>6
    <3> QED BY <2>2, <3>1
  <2>5. ASSUME NEW k \in 1..n PROVE new[b + u + k] = F[k]
    <3> DEFINE q == b + u + k
    <3>1. q \in 1..(b + u + n) /\ ~(q <= b + u) /\ q - (b + u) = k
      BY <1>1, <1>6
    <3> HIDE DEF q
    <3>2. new[q] = IF q <= b + u THEN RU[q] ELSE F[q - (b + u)]
      BY <2>2, <3>1
    <3>3. new[q] = F[k]
      BY <3>1, <3>2
    <3> QED BY <3>3 DEF q
  <2> QED BY <2>1, <2>3, <2>4, <2>5
<1>11. DOMAIN new = 1..(b + u + n)
  BY <1>10, LenProperties
<1>12. \A k \in 1..b : new[k] = Ref(inside[k])
  <2>1. \A k \in 1..b : k \in 1..(b + u)
    BY <1>1
  <2> QED BY <1>3, <1>9, <1>10, <2>1
<1>13. inside # <<>> => new[b + 1] = Item("used", e)
  <2> SUFFICES ASSUME u = 1 PROVE new[b + 1] = Item("used", e)
    BY <1>8
  <2>1. b + 1 \in 1..(b + u)
    BY <1>1
  <2> QED BY <1>5, <1>9, <1>10, <2>1
<1>14. \A k \in 1..n : new[b + u + k] = list[k + 1]
  BY <1>6, <1>10
<1> QED BY <1>1, <1>6, <1>10, <1>11, <1>12, <1>13, <1>14 DEF b, u, n, new

\* The ends of paragraphs stay the last items.
LEMMA ParasStay ==
    ASSUME NEW list \in Seq(Items), list # <<>>, list[1].what # "para", NEW p, LastParas(list, p)
    PROVE  /\ LastParas(Following(list), p)
           /\ \A inside \in Seq(DOMAIN doc.refs), e \in Nat :
                  doc \in Documents => LastParas(After(list, inside, e), p)
<1> DEFINE n == Len(list) - 1
<1>1. n \in Nat /\ DOMAIN list = 1..(n + 1) /\ n + 1 = Len(list)
  <2>1. Len(list) \in Nat \ {0} /\ DOMAIN list = 1..Len(list)
    BY RestIs
  <2> QED BY <2>1
<1>2. /\ p \in 0..(n + 1)
      /\ \A k \in 1..(n + 1) : (list[k].what = "para") <=> k > n + 1 - p
  BY <1>1 DEF LastParas
<1>3. /\ DOMAIN Following(list) = 1..n /\ Len(Following(list)) = n
      /\ \A k \in 1..n : Following(list)[k] = list[k + 1]
  BY RestIs
<1> HIDE DEF n
<1>4. p \in 0..n
  <2>1. 1 \in 1..(n + 1)
    BY <1>1
  <2>2. ~(1 > n + 1 - p)
    BY <1>2, <2>1
  <2> QED BY <1>1, <1>2, <2>2
<1>5. ASSUME NEW k \in 1..n PROVE (list[k + 1].what = "para") <=> k > n - p
  <2>1. k + 1 \in 1..(n + 1) /\ (k + 1 > n + 1 - p <=> k > n - p)
    BY <1>1, <1>4
  <2> QED BY <1>2, <2>1
<1>6. LastParas(Following(list), p)
  BY <1>3, <1>4, <1>5 DEF LastParas
<1>7. ASSUME NEW inside \in Seq(DOMAIN doc.refs), NEW e \in Nat, doc \in Documents
      PROVE  LastParas(After(list, inside, e), p)
  <2> DEFINE new == After(list, inside, e)
             b == Len(inside)
             u == IF inside = <<>> THEN 0 ELSE 1
  <2>1. /\ b \in Nat /\ u \in 0..1 /\ (b = 0 <=> inside = <<>>)
        /\ DOMAIN new = 1..(b + u + n) /\ Len(new) = b + u + n
        /\ \A k \in 1..b : new[k] = Ref(inside[k])
        /\ inside # <<>> => new[b + 1] = Item("used", e)
        /\ \A k \in 1..n : new[b + u + k] = list[k + 1]
    <3>1. /\ b \in Nat /\ (b = 0 <=> inside = <<>>)
          /\ DOMAIN new = 1..(b + u + n) /\ Len(new) = b + u + n
          /\ \A k \in 1..b : new[k] = Ref(inside[k])
          /\ inside # <<>> => new[b + 1] = Item("used", e)
          /\ \A k \in 1..n : new[b + u + k] = list[k + 1]
      BY <1>7, LocatorFirst, ZenonT(60) DEF n
    <3>2. u \in 0..1
      OBVIOUS
    <3> QED BY <3>1, <3>2
  <2>2. inside # <<>> <=> u = 1
    OBVIOUS
  <2> HIDE DEF new, b, u
  <2>3. ASSUME NEW k \in 1..(b + u + n) PROVE (new[k].what = "para") <=> k > b + u + n - p
    <3>1. CASE k \in 1..b
      <4>0. new[k] = Ref(inside[k])
        BY <2>1, <3>1
      <4>1. new[k].what = "ref"
        BY <4>0 DEF Ref, Item
      <4>2. ~(k > b + u + n - p)
        BY <1>1, <1>4, <2>1, <3>1
      <4> QED BY <4>1, <4>2
    <3>2. CASE k \in (b + 1)..(b + u)
      <4>1. u = 1 /\ k = b + 1
        BY <2>1, <3>2
      <4>2. new[k].what = "used"
        BY <2>1, <2>2, <4>1 DEF Item
      <4>3. ~(k > b + u + n - p)
        BY <1>1, <1>4, <2>1, <4>1
      <4> QED BY <4>2, <4>3
    <3>3. CASE k \in (b + u + 1)..(b + u + n)
      <4>1. k - b - u \in 1..n /\ b + u + (k - b - u) = k
        BY <1>1, <2>1, <3>3
      <4>2. new[k] = list[k - b - u + 1]
        BY <2>1, <4>1
      <4>3. (k - b - u > n - p) <=> k > b + u + n - p
        BY <1>1, <1>4, <2>1
      <4> QED BY <1>5, <4>1, <4>2, <4>3
    <3> QED BY <1>1, <2>1, <3>1, <3>2, <3>3
  <2>4. p \in 0..(b + u + n)
    BY <1>1, <1>4, <2>1
  <2>5. LastParas(new, p)
    <3>1. p \in 0..Len(new)
      BY <2>1, <2>4
    <3>2. \A k \in DOMAIN new : (new[k].what = "para") <=> k > Len(new) - p
      <4> TAKE k \in DOMAIN new
      <4>1. k \in 1..(b + u + n)
        BY <2>1
      <4>2. (new[k].what = "para") <=> k > b + u + n - p
        BY <2>3, <4>1
      <4>3. Len(new) = b + u + n
        BY <2>1
      <4>4. k > b + u + n - p <=> k > Len(new) - p
        BY <1>1, <2>1, <2>4, <4>1, <4>3
      <4> QED BY <4>2, <4>4
    <3> QED BY <3>1, <3>2, Zenon DEF LastParas
  <2> QED BY <2>5 DEF new
<1> QED BY <1>6, <1>7
-----------------------------------------------------------------------------
\* Where the note of a reference comes from, and what the reference does
Source(list, e, inside) ==
    LET r == todo[1].of
        how == doc.refs[r].how
    IN  /\ todo # <<>> /\ todo[1].what = "ref" /\ r \in DOMAIN doc.refs
        /\ list \in Seq(EndnoteDef) /\ e \in DOMAIN list /\ inside \in Seq(DOMAIN doc.refs)
        /\ \A x \in DOMAIN defs : list[x] = defs[x]
        /\ \/ list = defs /\ e = Target(r) /\ e \in DOMAIN doc.defs
           \/ /\ DOMAIN list = DOMAIN defs \cup {e} /\ e \notin DOMAIN defs /\ Target(r) = 0
              /\ list[e] = Def(doc.refs[r].kind, r, TRUE)
        /\ \/ how = "not_cited" /\ NotCited(e, list)
           \/ how = "locator" /\ inside = doc.refs[r].inside /\ Link(e, list, inside)
           \/ how = "cited" /\ inside = <<>> /\ Link(e, list, inside)
Effect(list, e, inside) ==
    /\ Renumbers(list, e, inside)
    /\ NotCited(e, list) => todo' = Following(todo)
    /\ Link(e, list, inside) => todo' = After(todo, inside, e)
    /\ UNCHANGED <<doc, section, i, in_endnote, skip_endnote_label, endnote_return, endnote_return_para_counter>>

\* A reference has a note, and does what is done for a reference to it.
LEMMA ReferenceStep ==
    ASSUME IInv, ReferToDefined \/ ReferInline
    PROVE  \E list, inside, e : Source(list, e, inside) /\ Effect(list, e, inside)
<1> DEFINE r == todo[1].of
           how == doc.refs[r].how
<1>1. PICK list \in Seq(EndnoteDef), inside \in Seq(DOMAIN doc.refs) : \E e \in DOMAIN list :
           /\ todo # <<>> /\ todo[1].what = "ref" /\ r \in DOMAIN doc.refs
           /\ Numbered(list, used_stack) /\ Based(list) /\ DOMAIN defs \subseteq DOMAIN list
           /\ \/ list = defs /\ e = Target(r) /\ Target(r) \in DOMAIN doc.defs
              \/ /\ list = Append(defs, Def(doc.refs[r].kind, r, TRUE)) /\ e = Len(list)
                 /\ Target(r) = 0
           /\ \/ how = "not_cited" /\ NotCited(e, list)
              \/ how = "locator" /\ inside = doc.refs[r].inside /\ Link(e, list, inside)
              \/ how = "cited" /\ inside = <<>> /\ Link(e, list, inside)
  BY ExportedReference
<1>2. PICK e \in DOMAIN list :
           /\ todo # <<>> /\ todo[1].what = "ref" /\ r \in DOMAIN doc.refs
           /\ Numbered(list, used_stack) /\ Based(list) /\ DOMAIN defs \subseteq DOMAIN list
           /\ \/ list = defs /\ e = Target(r) /\ Target(r) \in DOMAIN doc.defs
              \/ /\ list = Append(defs, Def(doc.refs[r].kind, r, TRUE)) /\ e = Len(list)
                 /\ Target(r) = 0
           /\ \/ how = "not_cited" /\ NotCited(e, list)
              \/ how = "locator" /\ inside = doc.refs[r].inside /\ Link(e, list, inside)
              \/ how = "cited" /\ inside = <<>> /\ Link(e, list, inside)
  BY <1>1
<1>3. /\ UNCHANGED <<doc, section, i, in_endnote, skip_endnote_label, endnote_return, endnote_return_para_counter>>
      /\ skip_endnote_label' \in BOOLEAN
  BY DEF ReferToDefined, ReferInline, IInv, TypeOK
<1>4. Effect(list, e, inside)
  <2>1. NotCited(e, list) \/ Link(e, list, inside)
    BY <1>2
  <2>2. Renumbers(list, e, inside)
    BY <1>2, <1>3, <2>1, ReferenceEffect
  <2>3. /\ NotCited(e, list) => todo' = Following(todo)
        /\ Link(e, list, inside) => todo' = After(todo, inside, e)
    BY DEF NotCited, Link, After
  <2> QED BY <1>3, <2>2, <2>3 DEF Effect
<1>5. \/ list = defs /\ e = Target(r) /\ e \in DOMAIN doc.defs
      \/ /\ DOMAIN list = DOMAIN defs \cup {e} /\ e \notin DOMAIN defs /\ Target(r) = 0
         /\ list[e] = Def(doc.refs[r].kind, r, TRUE)
         /\ \A x \in DOMAIN defs : list[x] = defs[x]
  <2>1. CASE list = defs /\ e = Target(r) /\ Target(r) \in DOMAIN doc.defs
    BY <2>1
  <2>2. CASE list = Append(defs, Def(doc.refs[r].kind, r, TRUE)) /\ e = Len(list) /\ Target(r) = 0
    <3> DEFINE d == Def(doc.refs[r].kind, r, TRUE)
    <3>1. defs \in Seq(EndnoteDef) /\ d \in EndnoteDef /\ Len(defs) \in Nat /\ DOMAIN defs = 1..Len(defs)
      <4>1. doc.refs[r] \in Reference /\ r \in Numbers
        BY <1>2, DocumentFacts DEF IInv, Resolves
      <4> QED BY <4>1, LenProperties DEF Def, EndnoteDef, Reference, IInv, TypeOK
    <3>2. list = Append(defs, d)
      BY <2>2
    <3> HIDE DEF d
    <3>3. /\ Len(list) = Len(defs) + 1 /\ list[Len(defs) + 1] = d
          /\ \A x \in 1..Len(defs) : list[x] = defs[x]
      BY <3>1, <3>2, AppendProperties
    <3>4. DOMAIN list = 1..(Len(defs) + 1)
      BY <3>3, LenProperties
    <3>5. DOMAIN list = DOMAIN defs \cup {e} /\ e \notin DOMAIN defs
      BY <2>2, <3>1, <3>3, <3>4
    <3> QED BY <2>2, <3>1, <3>3, <3>5 DEF d
  <2> QED BY <1>2, <2>1, <2>2
<1>6. Source(list, e, inside)
  BY <1>2, <1>5 DEF Source
<1> QED BY <1>4, <1>6

\* Definitions of the document come first and are no inline notes; what is to be
\* marked as used has a number; labels are not exported as references.
LEMMA ReferenceItems ==
    ASSUME IInv, Placed, LabelFirst, ReferToDefined \/ ReferInline
    PROVE  Placed' /\ LabelFirst'
<1>1. PICK list, inside, e : Source(list, e, inside) /\ Effect(list, e, inside)
  BY ReferenceStep
<1> DEFINE r == todo[1].of
           n == NumberOf(e, list)
<1>2. /\ todo # <<>> /\ todo[1].what = "ref" /\ r \in DOMAIN doc.refs
      /\ e \in DOMAIN list /\ inside \in Seq(DOMAIN doc.refs) /\ e \in Nat
      /\ \A x \in DOMAIN defs : list[x] = defs[x]
      /\ \/ list = defs
         \/ /\ DOMAIN list = DOMAIN defs \cup {e} /\ e \notin DOMAIN defs
            /\ list[e] = Def(doc.refs[r].kind, r, TRUE)
  <2>1. list \in Seq(EndnoteDef) /\ e \in DOMAIN list
    BY <1>1 DEF Source
  <2>2. e \in Nat
    BY <2>1, LenProperties
  <2> QED BY <1>1, <2>2 DEF Source
<1>3. /\ n \in Nat \ {0} /\ DOMAIN defs' = DOMAIN list /\ \A x \in DOMAIN list : x # e => defs'[x] = list[x]
      /\ defs'[e].index = n
      /\ defs'[e].of = list[e].of /\ defs'[e].is_inline = list[e].is_inline
      /\ UNCHANGED <<doc, section, i, in_endnote, skip_endnote_label, endnote_return, endnote_return_para_counter>>
      /\ todo' = Following(todo) \/ todo' = After(todo, inside, e)
  BY <1>1 DEF Effect, Renumbers
<1>4. DOMAIN doc.defs \subseteq DOMAIN defs /\ doc \in Documents /\ todo \in Seq(Items)
      /\ todo \in Seq(Good(DOMAIN defs))
  BY DEF IInv, Resolves, TypeOK
<1> HIDE DEF n
<1>5. Placed'
  <2> SUFFICES ASSUME NEW x \in DOMAIN list
               PROVE  /\ IF x \in DOMAIN doc.defs THEN ~defs'[x].is_inline /\ defs'[x].of = x
                         ELSE defs'[x].is_inline
                      /\ defs'[x].used => defs'[x].index # 0
    BY <1>3 DEF Placed
  <2>1. defs'[x].of = list[x].of /\ defs'[x].is_inline = list[x].is_inline
    BY <1>3
  <2>2. CASE x \in DOMAIN defs
    <3>1. list[x] = defs[x]
      BY <1>2, <2>2
    <3>2. defs'[x].used => defs'[x].index # 0
      BY <1>3, <2>2, <3>1 DEF Placed
    <3> QED BY <2>1, <2>2, <3>1, <3>2 DEF Placed
  <2>3. CASE x \notin DOMAIN defs
    <3>1. x = e /\ list[e] = Def(doc.refs[r].kind, r, TRUE) /\ x \notin DOMAIN doc.defs
      BY <1>2, <1>4, <2>3
    <3> QED BY <1>3, <2>1, <3>1 DEF Def
  <2> QED BY <2>2, <2>3
<1>6. ASSUME NEW x \in DOMAIN defs, defs[x].index # 0
      PROVE  defs'[x].index # 0
  <2>1. x \in DOMAIN list /\ list[x] = defs[x]
    BY <1>2
  <2> QED BY <1>3, <1>6, <2>1
<1>7. ASSUME NEW k \in 1..(Len(todo) - 1)
      PROVE  todo[k + 1].what # "label" /\ (todo[k + 1].what = "used" => defs'[todo[k + 1].of].index # 0)
  <2>1. k + 1 \in DOMAIN todo /\ k + 1 # 1
    <3>1. Len(todo) \in Nat \ {0} /\ DOMAIN todo = 1..Len(todo)
      BY <1>2, <1>4, RestIs
    <3> QED BY <3>1
  <2>2. todo[k + 1].what = "used" => todo[k + 1].of \in DOMAIN defs
    <3>1. todo[k + 1] \in Good(DOMAIN defs)
      BY <1>4, <2>1, LenProperties, ElementOfSeq
    <3> QED BY <3>1 DEF Good
  <2> QED BY <1>6, <2>1, <2>2 DEF LabelFirst
<1>8. CASE todo' = Following(todo)
  <2>1. /\ DOMAIN todo' = 1..(Len(todo) - 1)
        /\ \A k \in 1..(Len(todo) - 1) : todo'[k] = todo[k + 1]
    BY <1>2, <1>4, <1>8, RestIs
  <2>2. LabelFirst'
    BY <1>7, <2>1 DEF LabelFirst
  <2> QED BY <1>5, <2>2
<1>9. CASE todo' = After(todo, inside, e)
  <2> DEFINE new == After(todo, inside, e)
             b == Len(inside)
             u == IF inside = <<>> THEN 0 ELSE 1
             m == Len(todo) - 1
  <2>1. /\ b \in Nat /\ m \in Nat /\ (b = 0 <=> inside = <<>>)
        /\ DOMAIN new = 1..(b + u + m)
        /\ \A k \in 1..b : new[k] = Ref(inside[k])
        /\ inside # <<>> => new[b + 1] = Item("used", e)
        /\ \A k \in 1..m : new[b + u + k] = todo[k + 1]
    <3>1. /\ doc \in Documents /\ todo \in Seq(Items) /\ todo # <<>>
          /\ inside \in Seq(DOMAIN doc.refs) /\ e \in Nat
      BY <1>2, <1>4
    <3> QED BY <3>1, LocatorFirst, ZenonT(60)
  <2>2. (inside # <<>> <=> u = 1) /\ u \in 0..1
    OBVIOUS
  <2> HIDE DEF new, b, u, m
  <2>3. ASSUME NEW k \in 1..(b + u + m)
        PROVE  new[k].what # "label" /\ (new[k].what = "used" => defs'[new[k].of].index # 0)
    <3>1. CASE k \in 1..b
      <4>1. new[k] = Ref(inside[k])
        BY <2>1, <3>1
      <4> QED BY <4>1 DEF Ref, Item
    <3>2. CASE k \in (b + 1)..(b + u)
      <4>1. u = 1 /\ k = b + 1
        BY <2>1, <2>2, <3>2
      <4>2. new[k] = Item("used", e)
        BY <2>1, <2>2, <4>1
      <4> QED BY <1>3, <4>2 DEF Item
    <3>3. CASE k \in (b + u + 1)..(b + u + m)
      <4> DEFINE q == k - b - u
      <4>1. q \in 1..m /\ b + u + q = k
        BY <2>1, <2>2, <3>3
      <4> HIDE DEF q
      <4>2. new[k] = todo[q + 1]
        BY <2>1, <4>1
      <4> QED BY <1>7, <4>1, <4>2 DEF m
    <3> QED BY <2>1, <2>2, <3>1, <3>2, <3>3
  <2>4. todo' = new
    BY <1>9 DEF new
  <2>5. LabelFirst'
    BY <2>1, <2>3, <2>4 DEF LabelFirst
  <2> QED BY <1>5, <2>5
<1> QED BY <1>3, <1>8, <1>9

\* Behind the next item nothing is a label, and what is to be marked as used has
\* a number.
LEMMA RestOfItems ==
    ASSUME IInv, Placed, LabelFirst, todo # <<>>, todo' = Following(todo),
           \A e \in DOMAIN defs : defs[e].index # 0 => defs'[e].index # 0
    PROVE  LabelFirst'
<1>1. todo \in Seq(Items) /\ todo \in Seq(Good(DOMAIN defs))
  BY DEF IInv, Resolves, TypeOK
<1>2. /\ Len(todo) \in Nat \ {0} /\ DOMAIN todo = 1..Len(todo)
      /\ DOMAIN todo' = 1..(Len(todo) - 1)
      /\ \A k \in 1..(Len(todo) - 1) : todo'[k] = todo[k + 1]
  BY <1>1, RestIs
<1>3. ASSUME NEW k \in 1..(Len(todo) - 1)
      PROVE  todo[k + 1].what # "label" /\ (todo[k + 1].what = "used" => defs'[todo[k + 1].of].index # 0)
  <2>1. k + 1 \in DOMAIN todo /\ k + 1 # 1
    BY <1>2
  <2>2. todo[k + 1].what = "used" => todo[k + 1].of \in DOMAIN defs
    <3>1. todo[k + 1] \in Good(DOMAIN defs)
      BY <1>1, <2>1, LenProperties, ElementOfSeq
    <3> QED BY <3>1 DEF Good
  <2> QED BY <2>1, <2>2 DEF LabelFirst
<1> QED BY <1>2, <1>3 DEF LabelFirst

\* The paragraphs of a definition: its label, its references, and the ends of
\* its paragraphs, no more of which are at the top level than are written.
LEMMA ContentIs ==
    ASSUME doc \in Documents, NEW e \in DOMAIN doc.defs
    PROVE  LET new == Content(e)
               p == Len(doc.defs[e].paras)
           IN  /\ new \in Seq(Items) /\ LastParas(new, p)
               /\ new[1] = Item("label", e)
               /\ \A k \in DOMAIN new : k # 1 => new[k].what \in {"ref", "para"}
               /\ TopParas(e) \in 0..p
<1> DEFINE new == Content(e)
           paras == doc.defs[e].paras
           p == Len(paras)
           L == <<Item("label", e)>>
           R == Refs(doc.defs[e].refs)
           P == [k \in DOMAIN paras |-> Para(paras[k])]
           b == Len(doc.defs[e].refs)
<1>1. doc.defs[e] \in Definition /\ e \in Nat /\ doc.defs[e].refs \in Seq(DOMAIN doc.refs)
  BY DocumentFacts DEF Numbers
<1>2. paras \in Seq(BOOLEAN) /\ p \in Nat /\ DOMAIN paras = 1..p
  BY <1>1, LenProperties DEF Definition
<1>3. L \in Seq(Items) /\ Len(L) = 1 /\ L[1] = Item("label", e)
  <2>1. Item("label", e) \in Items
    BY <1>1 DEF Item, Items
  <2> QED BY <2>1
<1>4. b \in Nat /\ R \in Seq(Items) /\ Len(R) = b /\ \A k \in 1..b : R[k].what = "ref"
  <2>1. b \in Nat /\ DOMAIN doc.defs[e].refs = 1..b
    BY <1>1, LenProperties
  <2>2. R \in Seq(Items)
    BY <1>1, RefsAreGood, GoodGrows
  <2>3. R = [k \in 1..b |-> Ref(doc.defs[e].refs[k])]
    BY <2>1 DEF Refs
  <2>4. DOMAIN R = 1..b /\ \A k \in 1..b : R[k] = Ref(doc.defs[e].refs[k])
    BY <2>3
  <2>5. Len(R) = b
    BY <2>1, <2>2, <2>4, LenProperties
  <2>6. \A k \in 1..b : R[k].what = "ref"
    <3> HIDE DEF R, b
    <3> QED BY <2>4 DEF Ref, Item
  <2> QED BY <2>1, <2>2, <2>5, <2>6
<1>5. P \in Seq(Items) /\ Len(P) = p /\ \A k \in 1..p : P[k].what = "para"
  <2>1. \A k \in 1..p : Para(paras[k]) \in Items /\ Para(paras[k]).what = "para"
    BY DEF Para, Item, Items
  <2>2. P = [k \in 1..p |-> Para(paras[k])]
    BY <1>2
  <2> QED BY <1>2, <2>1, <2>2
<1> HIDE DEF L, R, P, b, p
<1> DEFINE LR == L \o R
<1>6. LR \in Seq(Items) /\ Len(LR) = 1 + b /\ LR[1] = L[1]
      /\ \A k \in 2..(1 + b) : LR[k].what = "ref"
  <2>1. /\ LR \in Seq(Items) /\ Len(LR) = Len(L) + Len(R)
        /\ \A k \in 1..(Len(L) + Len(R)) : LR[k] = IF k <= Len(L) THEN L[k] ELSE R[k - Len(L)]
    BY <1>3, <1>4, ConcatProperties
  <2> HIDE DEF LR
  <2>2. Len(LR) = 1 + b /\ \A k \in 1..(1 + b) : LR[k] = IF k <= 1 THEN L[k] ELSE R[k - 1]
    BY <1>3, <1>4, <2>1, Zenon
  <2>3. LR[1] = L[1]
    <3>1. 1 \in 1..(1 + b) /\ 1 <= 1
      BY <1>4
    <3> QED BY <2>2, <3>1
  <2>4. ASSUME NEW k \in 2..(1 + b) PROVE LR[k].what = "ref"
    <3>1. k \in 1..(1 + b) /\ ~(k <= 1) /\ k - 1 \in 1..b
      BY <1>4
    <3>2. LR[k] = R[k - 1]
      BY <2>2, <3>1
    <3> QED BY <1>4, <3>1, <3>2
  <2> QED BY <2>1, <2>2, <2>3, <2>4
<1>7. new = LR \o P
  BY DEF Content, L, R, P
<1> HIDE DEF LR, new
<1>8. /\ new \in Seq(Items) /\ Len(new) = 1 + b + p
      /\ \A k \in 1..(1 + b) : new[k] = LR[k]
      /\ \A k \in (2 + b)..(1 + b + p) : new[k].what = "para"
  <2>1. /\ new \in Seq(Items) /\ Len(new) = Len(LR) + Len(P)
        /\ \A k \in 1..(Len(LR) + Len(P)) : new[k] = IF k <= Len(LR) THEN LR[k] ELSE P[k - Len(LR)]
    BY <1>5, <1>6, <1>7, ConcatProperties
  <2>2. /\ Len(new) = 1 + b + p
        /\ \A k \in 1..(1 + b + p) : new[k] = IF k <= 1 + b THEN LR[k] ELSE P[k - (1 + b)]
    BY <1>5, <1>6, <2>1, Zenon
  <2>3. ASSUME NEW k \in 1..(1 + b) PROVE new[k] = LR[k]
    <3>1. k \in 1..(1 + b + p) /\ k <= 1 + b
      BY <1>2, <1>4
    <3> QED BY <2>2, <3>1
  <2>4. ASSUME NEW k \in (2 + b)..(1 + b + p) PROVE new[k].what = "para"
    <3>1. k \in 1..(1 + b + p) /\ ~(k <= 1 + b) /\ k - (1 + b) \in 1..p
      BY <1>2, <1>4
    <3>2. new[k] = P[k - (1 + b)]
      BY <2>2, <3>1
    <3> QED BY <1>5, <3>1, <3>2
  <2> QED BY <2>1, <2>2, <2>3, <2>4
<1>9. DOMAIN new = 1..(1 + b + p)
  BY <1>8, LenProperties
<1>10. new[1] = Item("label", e)
  <2>1. 1 \in 1..(1 + b)
    BY <1>4
  <2> QED BY <1>3, <1>6, <1>8, <2>1
<1>11. ASSUME NEW k \in 1..(1 + b + p)
       PROVE  /\ k # 1 => new[k].what \in {"ref", "para"}
              /\ (new[k].what = "para") <=> k > 1 + b + p - p
  <2>1. CASE k = 1
    <3>1. new[k].what = "label"
      BY <1>10, <2>1 DEF Item
    <3>2. ~(k > 1 + b + p - p)
      BY <1>2, <1>4, <2>1
    <3> QED BY <2>1, <3>1, <3>2
  <2>2. CASE k \in 2..(1 + b)
    <3>1. k \in 1..(1 + b) /\ ~(k > 1 + b + p - p)
      BY <1>2, <1>4, <2>2
    <3>2. new[k].what = "ref"
      BY <1>6, <1>8, <2>2, <3>1
    <3> QED BY <3>1, <3>2
  <2>3. CASE k \in (2 + b)..(1 + b + p)
    <3>1. k > 1 + b + p - p
      BY <1>2, <1>4, <2>3
    <3> QED BY <1>8, <2>3, <3>1
  <2> QED BY <1>2, <1>4, <2>1, <2>2, <2>3
<1>12. LastParas(new, p)
  <2>1. p \in 0..Len(new)
    BY <1>2, <1>4, <1>8
  <2>2. ASSUME NEW k \in DOMAIN new PROVE (new[k].what = "para") <=> k > Len(new) - p
    <3>1. k \in 1..(1 + b + p)
      BY <1>9
    <3>2. (new[k].what = "para") <=> k > 1 + b + p - p
      BY <1>11, <3>1
    <3>3. k > 1 + b + p - p <=> k > Len(new) - p
      BY <1>2, <1>4, <1>8, <3>1
    <3> QED BY <3>2, <3>3
  <2> QED BY <2>1, <2>2, Zenon DEF LastParas
<1>13. TopParas(e) \in 0..p
  <2> DEFINE T == {k \in DOMAIN paras : paras[k]}
  <2>1. T \subseteq 1..p
    BY <1>2
  <2>2. IsFiniteSet(1..p) /\ Cardinality(1..p) = p
    <3>1. p \in Int
      BY <1>2
    <3>2. IsFiniteSet(1..p) /\ Cardinality(1..p) = IF 1 > p THEN 0 ELSE p - 1 + 1
      BY <3>1, FS_Interval
    <3> QED BY <1>2, <3>2
  <2>3. IsFiniteSet(T) /\ Cardinality(T) <= p /\ Cardinality(T) \in Nat
    BY <2>1, <2>2, FS_Subset, FS_CardinalityType
  <2>4. TopParas(e) = Cardinality(T)
    BY DEF TopParas
  <2> HIDE DEF T
  <2> QED BY <1>2, <2>3, <2>4
<1> QED BY <1>8, <1>9, <1>10, <1>11, <1>12, <1>13 DEF new, p
-----------------------------------------------------------------------------
\* A note that awaits its use behind the next item still does when that is done.
LEMMA AwaitsRest ==
    ASSUME NEW citing, NEW list \in Seq(Items), list # <<>>, NEW e,
           AwaitsUse(citing, list, e), list[1] # Item("used", e)
    PROVE  AwaitsUse(citing, Following(list), e)
<1>1. /\ Len(list) \in Nat \ {0} /\ DOMAIN list = 1..Len(list)
      /\ DOMAIN Following(list) = 1..(Len(list) - 1)
      /\ \A k \in 1..(Len(list) - 1) : Following(list)[k] = list[k + 1]
  BY RestIs
<1>2. PICK m \in DOMAIN list : /\ list[m] = Item("used", e)
                               /\ \A j \in 1..(m - 1) : list[j].what = "ref" => e \notin citing[list[j].of]
  BY DEF AwaitsUse
<1>3. m - 1 \in 1..(Len(list) - 1) /\ (m - 1) + 1 = m
  BY <1>1, <1>2
<1>4. Following(list)[m - 1] = Item("used", e)
  <2> DEFINE q == m - 1
  <2>1. q \in 1..(Len(list) - 1) /\ q + 1 = m
    BY <1>3
  <2> HIDE DEF q
  <2>2. Following(list)[q] = list[m]
    BY <1>1, <2>1
  <2> QED BY <1>2, <2>2 DEF q
<1>5. ASSUME NEW j \in 1..(m - 1 - 1), Following(list)[j].what = "ref"
      PROVE  e \notin citing[Following(list)[j].of]
  <2>1. j + 1 \in 1..(m - 1) /\ j \in 1..(Len(list) - 1)
    BY <1>1, <1>3
  <2>2. Following(list)[j] = list[j + 1]
    BY <1>1, <2>1
  <2> QED BY <1>2, <1>5, <2>1, <2>2
<1> QED BY <1>1, <1>3, <1>4, <1>5 DEF AwaitsUse

\* So it does when references come before it that do not lead to it.
LEMMA AwaitsAfter ==
    ASSUME doc \in Documents, NEW citing, NEW list \in Seq(Items), list # <<>>, NEW e,
           AwaitsUse(citing, list, e), list[1] # Item("used", e),
           NEW inside \in Seq(DOMAIN doc.refs), NEW x \in Nat,
           \A k \in DOMAIN inside : e \notin citing[inside[k]]
    PROVE  AwaitsUse(citing, After(list, inside, x), e)
<1> DEFINE new == After(list, inside, x)
           rest == Following(list)
           b == Len(inside)
           u == IF inside = <<>> THEN 0 ELSE 1
           n == Len(list) - 1
<1>1. /\ b \in Nat /\ n \in Nat /\ (b = 0 <=> inside = <<>>) /\ DOMAIN inside = 1..b
      /\ DOMAIN new = 1..(b + u + n)
      /\ \A k \in 1..b : new[k] = Ref(inside[k])
      /\ inside # <<>> => new[b + 1] = Item("used", x)
      /\ \A k \in 1..n : new[b + u + k] = list[k + 1]
  BY LocatorFirst, ZenonT(60)
<1>2. DOMAIN rest = 1..n /\ \A k \in 1..n : rest[k] = list[k + 1]
  BY RestIs
<1>3. (inside # <<>> <=> u = 1) /\ u \in 0..1
  OBVIOUS
<1>4. AwaitsUse(citing, rest, e)
  BY AwaitsRest
<1> HIDE DEF new, rest, b, u, n
<1>5. PICK m \in 1..n : /\ rest[m] = Item("used", e)
                        /\ \A j \in 1..(m - 1) : rest[j].what = "ref" => e \notin citing[rest[j].of]
  BY <1>2, <1>4 DEF AwaitsUse
<1>6. b + u + m \in DOMAIN new /\ new[b + u + m] = Item("used", e)
  <2>1. b + u + m \in 1..(b + u + n)
    BY <1>1, <1>3
  <2>2. new[b + u + m] = rest[m]
    BY <1>1, <1>2
  <2> QED BY <1>1, <1>5, <2>1, <2>2
<1>7. ASSUME NEW j \in 1..(b + u + m - 1), new[j].what = "ref" PROVE e \notin citing[new[j].of]
  <2>1. CASE j \in 1..b
    <3>1. new[j] = Ref(inside[j])
      BY <1>1, <2>1
    <3> QED BY <1>1, <2>1, <3>1 DEF Ref, Item
  <2>2. CASE j \in (b + 1)..(b + u)
    <3>1. u = 1 /\ j = b + 1
      BY <1>1, <1>3, <2>2
    <3>2. new[j] = Item("used", x)
      BY <1>1, <1>3, <3>1
    <3> QED BY <1>7, <3>2 DEF Item
  <2>3. CASE j \in (b + u + 1)..(b + u + m - 1)
    <3> DEFINE q == j - b - u
    <3>1. q \in 1..(m - 1) /\ q \in 1..n /\ b + u + q = j
      BY <1>1, <1>3, <1>5, <2>3
    <3> HIDE DEF q
    <3>2. new[j] = rest[q]
      BY <1>1, <1>2, <3>1
    <3> QED BY <1>5, <1>7, <3>1, <3>2
  <2> QED BY <1>1, <1>3, <1>5, <2>1, <2>2, <2>3
<1> DEFINE z == b + u + m
<1>8. z \in DOMAIN new /\ new[z] = Item("used", e)
  BY <1>6
<1>9. ASSUME NEW j \in 1..(z - 1), new[j].what = "ref" PROVE e \notin citing[new[j].of]
  <2>1. j \in 1..(b + u + m - 1)
    BY <1>1, <1>3, <1>5
  <2> QED BY <1>7, <1>9, <2>1
<1> HIDE DEF z
<1>10. AwaitsUse(citing, new, e)
  BY <1>8, <1>9 DEF AwaitsUse
<1> QED BY <1>10 DEF new

\* What the locator of a reference leads to, the reference leads to.
LEMMA LocatorCites ==
    ASSUME doc \in Documents, NEW r \in DOMAIN doc.refs
    PROVE  /\ Target(r) \in Cites(r) /\ Citing[r] = Cites(r)
           /\ Cites(r) \subseteq DOMAIN doc.defs \cup {0}
           /\ doc.refs[r].how = "locator" =>
                  \A k \in DOMAIN doc.refs[r].inside :
                      /\ doc.refs[r].inside[k] \in DOMAIN doc.refs
                      /\ Cites(doc.refs[r].inside[k]) \subseteq Cites(r)
<1>1. r \in Within(r)
  BY DEF Within
<1>2. Cites(r) \subseteq DOMAIN doc.defs \cup {0}
  <2>1. \A q \in DOMAIN doc.refs : Target(q) # 0 => Target(q) \in DOMAIN doc.defs
    BY TargetIsDefined
  <2> QED BY <2>1 DEF Cites, Within
<1>3. ASSUME doc.refs[r].how = "locator", NEW k \in DOMAIN doc.refs[r].inside
      PROVE  /\ doc.refs[r].inside[k] \in DOMAIN doc.refs
             /\ Cites(doc.refs[r].inside[k]) \subseteq Cites(r)
  <2> DEFINE s == doc.refs[r].inside[k]
  <2>1. s \in DOMAIN doc.refs
    <3>1. doc.refs[r].inside \in Seq(DOMAIN doc.refs)
      BY DocumentFacts
    <3> QED BY <3>1, LenProperties, ElementOfSeq
  <2>2. \A some : r \in some /\ Closed(some) => s \in some
    BY <1>3 DEF Closed
  <2> HIDE DEF s
  <2>3. Within(s) \subseteq Within(r)
    BY <2>2 DEF Within
  <2>4. Cites(s) \subseteq Cites(r)
    BY <2>3 DEF Cites
  <2> QED BY <2>1, <2>4 DEF s
<1>4. Citing[r] = Cites(r)
  BY DEF Citing
<1>5. Target(r) \in Cites(r)
  BY <1>1 DEF Cites
<1> QED BY <1>2, <1>3, <1>4, <1>5

\* What a note is does not change.
LEMMA SimpleStays ==
    ASSUME doc' = doc, NEW e, defs'[e].is_inline = defs[e].is_inline, defs'[e].of = defs[e].of
    PROVE  Simple(e)' = Simple(e)
<1>1. InOwnLocator(e)' <=> InOwnLocator(e)
  BY DEF InOwnLocator, Target, Cites, Within, Closed
<1>2. NotedUncited(e)' <=> NotedUncited(e)
  BY DEF NotedUncited, Target
<1> QED BY <1>1, <1>2 DEF Simple

\* What the references cite is a matter of the document alone.
LEMMA CitingStays == doc' = doc => Citing' = Citing
BY SMTT(60) DEF Citing, Cites, Within, Closed, Target

\* What is no anchor and no link leaves the anchors as they are.
LEMMA AnchorsStill ==
    ASSUME AnchorsSoFar, doc' = doc, DOMAIN defs' = DOMAIN defs,
           \A e \in DOMAIN defs :
               /\ defs'[e].kind = defs[e].kind /\ defs'[e].index = defs[e].index
               /\ defs'[e].of = defs[e].of /\ defs'[e].is_inline = defs[e].is_inline
               /\ defs[e].used => defs'[e].used
               /\ AwaitsUse(Citing, todo, e) => AwaitsUse(Citing, todo', e) \/ defs'[e].used,
           DOMAIN out \subseteq DOMAIN out',
           \A tag \in {"anchor", "link"} : \A kind, n : At(out', tag, kind, n) = At(out, tag, kind, n)
    PROVE  AnchorsSoFar'
<1>1. Citing' = Citing
  BY CitingStays
<1>2. \A e \in DOMAIN defs : Simple(e)' = Simple(e)
  BY SimpleStays
<1> SUFFICES ASSUME NEW e \in DOMAIN defs, defs'[e].index # 0, Simple(e)'
             PROVE  /\ Anchored(out', defs'[e].kind, defs'[e].index)
                    /\ defs'[e].used \/ AwaitsUse(Citing', todo', e)
  BY DEF AnchorsSoFar
<1>3. Simple(e) /\ defs[e].index # 0
  BY <1>2
<1>4. Anchored(out, defs[e].kind, defs[e].index) /\ (defs[e].used \/ AwaitsUse(Citing, todo, e))
  BY <1>3 DEF AnchorsSoFar
<1>5. Anchored(out', defs'[e].kind, defs'[e].index)
  BY <1>4 DEF Anchored
<1> QED BY <1>1, <1>4, <1>5
-----------------------------------------------------------------------------
\* The entry that is written stays on its stack.
LEMMA EntryStays ==
    ASSUME IInv, in_endnote, UNCHANGED <<section, i>>,
           \A k \in Kinds : /\ DOMAIN used_stack[k] = 1..Len(used_stack[k])
                            /\ \A m \in 1..Len(used_stack[k]) : used_stack'[k][m] = used_stack[k][m]
    PROVE  /\ Kind' = Kind /\ Kind \in Kinds /\ i \in DOMAIN used_stack[Kind] /\ Entry' = Entry
           /\ Entry \in DOMAIN defs /\ defs[Entry] \in EndnoteDef
           /\ Entry = used_stack[Kind][i]
<1>1. section \in 1..3 /\ i \in DOMAIN used_stack[Kind]
  BY DEF IInv, Resolves, Kind
<1>2. Kind' = Kind
  BY DEF Kind
<1>3. /\ Kind \in Kinds /\ Entry \in DOMAIN defs /\ defs[Entry] \in EndnoteDef
  BY <1>1, EntryNumber DEF Entry
<1>4. Entry' = used_stack'[Kind][i] /\ Entry = used_stack[Kind][i]
  BY <1>2 DEF Entry
<1> QED BY <1>1, <1>2, <1>3, <1>4

\* What is no entry and no way back leaves the ways back as they are.
LEMMA ReturnsStill ==
    ASSUME IInv, OutKnown, ReturnsSoFar, todo # <<>>,
           UNCHANGED <<doc, section, i, in_endnote, endnote_return, endnote_return_para_counter>>,
           \A k \in Kinds :
               /\ Len(used_stack[k]) \in Nat /\ Len(used_stack'[k]) \in Nat
               /\ DOMAIN used_stack[k] = 1..Len(used_stack[k])
               /\ DOMAIN used_stack'[k] = 1..Len(used_stack'[k])
               /\ Len(used_stack[k]) <= Len(used_stack'[k])
               /\ \A m \in 1..Len(used_stack[k]) : used_stack'[k][m] = used_stack[k][m],
           \A e \in DOMAIN defs : defs'[e].of = defs[e].of /\ defs'[e].is_inline = defs[e].is_inline,
           DOMAIN out \subseteq DOMAIN out',
           \A tag \in {"entry", "return"} : \A kind, n : At(out', tag, kind, n) = At(out, tag, kind, n),
           \A p : LastParas(todo, p) => LastParas(todo', p)
    PROVE  ReturnsSoFar'
<1>1. Ways' = Ways
  BY DEF Ways, HasWay, TopParas
<1>2. Kind' = Kind /\ (in_endnote => Entry' = Entry /\ Entry \in DOMAIN defs)
  BY EntryStays DEF Kind
<1>3. ASSUME NEW kind \in Kinds, NEW n \in DOMAIN used_stack'[kind],
             ~(in_endnote' /\ kind = Kind' /\ n = i')
      PROVE  Returned(kind, n)'
  <2>1. CASE n \in 1..Len(used_stack[kind])
    <3> DEFINE e == used_stack[kind][n]
    <3>1. used_stack'[kind][n] = e /\ e \in DOMAIN defs /\ n \in DOMAIN used_stack[kind]
      BY <2>1 DEF IInv, NumbersArePlaces, Numbered
    <3>2. Returned(kind, n)
      BY <1>2, <1>3, <3>1 DEF ReturnsSoFar
    <3>3. defs'[e].of = defs[e].of /\ defs'[e].is_inline = defs[e].is_inline
      BY <3>1
    <3> HIDE DEF e
    <3>4. \/ At(out', "return", kind, n) = {} /\ At(out', "entry", kind, n) = {}
          \/ /\ \E p \in DOMAIN out' : At(out', "return", kind, n) = {p}
             /\ At(out', "entry", kind, n) # {}
          \/ At(out', "return", kind, n) = {} /\ ~defs'[e].is_inline /\ ~Ways'[defs'[e].of]
      BY <1>1, <3>2, <3>3 DEF Returned, e
    <3>5. used_stack'[kind][n] = e
      BY <3>1 DEF e
    <3> QED BY <3>4, <3>5 DEF Returned
  <2>2. CASE n \notin 1..Len(used_stack[kind])
    <3>1. \A k \in DOMAIN out : out[k].tag \in {"entry", "return"} /\ out[k].kind = kind => out[k].number # n
      BY <2>2 DEF OutKnown, Known
    <3>2. At(out, "return", kind, n) = {} /\ At(out, "entry", kind, n) = {}
      BY <3>1 DEF At
    <3>3. At(out', "return", kind, n) = {} /\ At(out', "entry", kind, n) = {}
      BY <3>2
    <3> QED BY <3>3 DEF Returned
  <2> QED BY <2>1, <2>2
<1>4. \A p : LastParas(todo, p) => p \in 0..Len(todo')
  BY DEF LastParas
<1>5. ASSUME in_endnote PROVE Returning'
  <2>1. Returning /\ Entry' = Entry /\ Kind' = Kind /\ i' = i
    BY <1>2, <1>5 DEF ReturnsSoFar
  <2>2. defs'[Entry].is_inline = defs[Entry].is_inline /\ defs'[Entry].of = defs[Entry].of
    BY <1>2, <1>5
  <2>3. At(out', "return", Kind, i) = At(out, "return", Kind, i)
    OBVIOUS
  <2>4. CASE defs[Entry].is_inline
    <3>1. At(out, "return", Kind, i) = {} /\ LastParas(todo, 0)
      BY <2>1, <2>4 DEF Returning
    <3>2. At(out', "return", Kind, i) = {} /\ LastParas(todo', 0)
      BY <2>3, <3>1
    <3> QED BY <2>1, <2>2, <2>4, <3>2 DEF Returning
  <2>5. CASE ~defs[Entry].is_inline
    <3>1. PICK p \in 0..Len(todo) :
              /\ LastParas(todo, p)
              /\ \/ /\ endnote_return = "set" /\ At(out, "return", Kind, i) = {}
                    /\ \/ ~Ways[defs[Entry].of]
                       \/ endnote_return_para_counter \in 1..p
                 \/ endnote_return = "none" /\ \E q \in DOMAIN out : At(out, "return", Kind, i) = {q}
      BY <2>1, <2>5 DEF Returning
    <3>2. LastParas(todo', p) /\ p \in 0..Len(todo')
      BY <1>4, <3>1
    <3>3. \/ /\ endnote_return' = "set" /\ At(out', "return", Kind, i) = {}
             /\ \/ ~Ways'[defs'[Entry].of]
                \/ endnote_return_para_counter' \in 1..p
          \/ endnote_return' = "none" /\ \E q \in DOMAIN out' : At(out', "return", Kind, i) = {q}
      BY <1>1, <2>2, <2>3, <3>1
    <3> QED BY <2>1, <2>2, <2>5, <3>2, <3>3 DEF Returning
  <2> QED BY <2>4, <2>5
<1>6. ~in_endnote' => LastParas(todo', 0)
  BY DEF ReturnsSoFar
<1>7. ~in_endnote' /\ section' > 0 => todo' = <<>>
  BY DEF ReturnsSoFar
<1> QED BY <1>3, <1>5, <1>6, <1>7 DEF ReturnsSoFar

\* Nothing is written, no note is added, and what is left is the rest.
LEMMA SilentStep ==
    ASSUME IInv, XInv, todo # <<>>, todo[1].what # "para", todo' = Following(todo),
           UNCHANGED <<doc, used_stack, section, i, in_endnote, endnote_return, endnote_return_para_counter, out>>,
           DOMAIN defs' = DOMAIN defs,
           \A e \in DOMAIN defs :
               /\ defs'[e].kind = defs[e].kind /\ defs'[e].index = defs[e].index
               /\ defs'[e].of = defs[e].of /\ defs'[e].is_inline = defs[e].is_inline
               /\ defs[e].used => defs'[e].used
               /\ todo[1] = Item("used", e) => defs'[e].used,
           \A e \in DOMAIN defs : defs'[e].used => defs'[e].index # 0
    PROVE  XInv'
<1>1. OutKnown' /\ SectionsSoFar'
  BY DEF XInv, OutKnown, SectionsSoFar, Kind
<1>2. \A k \in Kinds : /\ Len(used_stack[k]) \in Nat /\ Len(used_stack[k]) <= Len(used_stack[k])
                       /\ DOMAIN used_stack[k] = 1..Len(used_stack[k])
  BY LenProperties DEF IInv, TypeOK, Stacks
<1>3. todo \in Seq(Items)
  BY DEF IInv, TypeOK
<1>4. \A p : LastParas(todo, p) => LastParas(todo', p)
  BY <1>3, ParasStay
<1>5. ReturnsSoFar'
  <2>1. /\ \A k \in Kinds :
               /\ Len(used_stack[k]) \in Nat /\ Len(used_stack'[k]) \in Nat
               /\ DOMAIN used_stack[k] = 1..Len(used_stack[k])
               /\ DOMAIN used_stack'[k] = 1..Len(used_stack'[k])
               /\ Len(used_stack[k]) <= Len(used_stack'[k])
               /\ \A m \in 1..Len(used_stack[k]) : used_stack'[k][m] = used_stack[k][m]
        /\ \A tag \in {"entry", "return"} : \A kind, n : At(out', tag, kind, n) = At(out, tag, kind, n)
        /\ DOMAIN out \subseteq DOMAIN out'
    BY <1>2
  <2> QED BY <1>4, <2>1, ReturnsStill DEF XInv
<1>6. Placed'
  <2> SUFFICES ASSUME NEW e \in DOMAIN defs
               PROVE  /\ IF e \in DOMAIN doc.defs THEN ~defs'[e].is_inline /\ defs'[e].of = e ELSE defs'[e].is_inline
                      /\ defs'[e].used => defs'[e].index # 0
    BY DEF Placed
  <2> QED BY DEF XInv, Placed
<1>7. LabelFirst'
  BY RestOfItems DEF XInv
<1>8. AnchorsSoFar'
  <2>1. \A e \in DOMAIN defs : AwaitsUse(Citing, todo, e) => AwaitsUse(Citing, todo', e) \/ defs'[e].used
    BY <1>3, AwaitsRest
  <2> QED BY <2>1, AnchorsStill DEF XInv
<1> QED BY <1>1, <1>5, <1>6, <1>7, <1>8 DEF XInv

\* When a locator is written its note counts as used.
LEMMA MarkUsedExport ==
    ASSUME IInv, XInv, MarkUsed
    PROVE  XInv'
<1> DEFINE x == todo[1].of
<1>1. /\ todo # <<>> /\ todo[1].what = "used" /\ todo' = Following(todo)
      /\ defs' = [defs EXCEPT ![x].used = TRUE]
      /\ UNCHANGED <<doc, used_stack, section, i, in_endnote, endnote_return, endnote_return_para_counter, out>>
  BY DEF MarkUsed, Busy
<1>2. x \in DOMAIN defs /\ todo[1] \in Items
  <2>1. todo[1] \in Good(DOMAIN defs)
    BY <1>1, RestIsGood
  <2> QED BY <1>1, <2>1 DEF Good
<1>3. defs[x].index # 0
  <2>1. 1 \in DOMAIN todo
    BY <1>1, RestIs DEF IInv, TypeOK
  <2> QED BY <1>1, <2>1 DEF XInv, LabelFirst
<1>4. \A e \in DOMAIN defs : defs[e] \in EndnoteDef
  BY LenProperties, ElementOfSeq DEF IInv, TypeOK
<1>5. /\ DOMAIN defs' = DOMAIN defs /\ defs'[x] = [defs[x] EXCEPT !.used = TRUE]
      /\ \A e \in DOMAIN defs : e # x => defs'[e] = defs[e]
  BY <1>1, <1>2
<1>6. /\ defs'[x].kind = defs[x].kind /\ defs'[x].index = defs[x].index
      /\ defs'[x].of = defs[x].of /\ defs'[x].is_inline = defs[x].is_inline /\ defs'[x].used
  BY <1>2, <1>4, <1>5 DEF EndnoteDef
<1>7. \A e \in DOMAIN defs :
          /\ defs'[e].kind = defs[e].kind /\ defs'[e].index = defs[e].index
          /\ defs'[e].of = defs[e].of /\ defs'[e].is_inline = defs[e].is_inline
          /\ defs[e].used => defs'[e].used
          /\ todo[1] = Item("used", e) => defs'[e].used
  <2> TAKE e \in DOMAIN defs
  <2>1. CASE e = x
    BY <1>6, <2>1
  <2>2. CASE e # x
    <3>1. defs'[e] = defs[e]
      BY <1>5, <2>2
    <3>2. todo[1] # Item("used", e)
      BY <2>2 DEF Item
    <3> QED BY <3>1, <3>2
  <2> QED BY <2>1, <2>2
<1>8. \A e \in DOMAIN defs : defs'[e].used => defs'[e].index # 0
  BY <1>3, <1>5, <1>6 DEF XInv, Placed
<1> QED BY <1>1, <1>5, <1>7, <1>8, SilentStep

\* The label of an entry comes first and is passed over.
LEMMA LabelExport ==
    ASSUME IInv, XInv, Label
    PROVE  XInv'
<1>1. todo # <<>> /\ todo[1].what = "label"
  BY DEF Label, Busy
<1>2. in_endnote /\ skip_endnote_label
  <2>1. 1 \in DOMAIN todo
    BY <1>1, RestIs DEF IInv, TypeOK
  <2> QED BY <1>1, <2>1 DEF XInv, LabelFirst
<1>3. /\ todo' = Following(todo)
      /\ UNCHANGED <<doc, defs, used_stack, section, i, in_endnote, endnote_return, endnote_return_para_counter, out>>
  BY <1>2 DEF Label
<1>4. \A e : todo[1] # Item("used", e)
  BY <1>1 DEF Item
<1>5. \A e \in DOMAIN defs : defs'[e].used => defs'[e].index # 0
  BY <1>3 DEF XInv, Placed
<1> QED BY <1>1, <1>3, <1>4, <1>5, SilentStep

\* What is written between the references leaves the notes and anchors alone.
LEMMA WriteStep ==
    ASSUME IInv, XInv, UNCHANGED <<doc, defs, used_stack>>,
           NEW w \in Output, w.tag \notin {"anchor", "link"}, out' = out \/ out' = Append(out, w),
           \A e \in DOMAIN defs : AwaitsUse(Citing, todo, e) => AwaitsUse(Citing, todo', e)
    PROVE  Placed' /\ AnchorsSoFar'
<1>1. Placed'
  BY DEF XInv, Placed
<1>2. out \in Seq(Output)
  BY DEF IInv, TypeOK
<1>3. /\ DOMAIN out \subseteq DOMAIN out'
      /\ \A tag \in {"anchor", "link"} : \A kind, n : At(out', tag, kind, n) = At(out, tag, kind, n)
  <2>1. CASE out' = out
    BY <2>1
  <2>2. CASE out' = Append(out, w)
    <3>1. DOMAIN out \subseteq DOMAIN out'
      BY <1>2, <2>2, Appended
    <3>2. \A tag \in {"anchor", "link"} : \A kind, n : At(out', tag, kind, n) = At(out, tag, kind, n)
      BY <1>2, <2>2, AtAppended
    <3> QED BY <3>1, <3>2
  <2> QED BY <2>1, <2>2
<1>4. AnchorsSoFar'
  BY <1>3, AnchorsStill DEF XInv
<1> QED BY <1>1, <1>4

\* When nothing is left no paragraph and no use is pending.
LEMMA NothingLeft ==
    ASSUME todo = <<>>
    PROVE  /\ LastParas(todo, 0) /\ \A p : LastParas(todo, p) => p = 0
           /\ \A citing, e : ~AwaitsUse(citing, todo, e)
<1>1. Len(todo) = 0 /\ DOMAIN todo = {}
  OBVIOUS
<1> QED BY <1>1 DEF LastParas, AwaitsUse

\* Ending a section concerns no note.
LEMMA NextSectionExport ==
    ASSUME IInv, XInv, NextSection
    PROVE  XInv'
<1>1. /\ todo = <<>> /\ ~in_endnote /\ section \in 0..3 /\ section' = section + 1
      /\ UNCHANGED <<doc, defs, used_stack, todo, in_endnote, skip_endnote_label, endnote_return,
                     endnote_return_para_counter>>
  BY DEF NextSection
<1> DEFINE w == Written("end", IF section = 0 THEN "note" ELSE Kind, 0)
<1>2. w \in Output /\ w.tag = "end" /\ (out' = out \/ out' = Append(out, w))
  <2>1. section # 0 => Kind \in Kinds
    BY <1>1 DEF Kind, Section, Kinds
  <2> QED BY <2>1 DEF NextSection, Written, Output, Kinds
<1>3. out \in Seq(Output)
  BY DEF IInv, TypeOK
<1> HIDE DEF w
<1>4. OutKnown' /\ SectionsSoFar'
  BY NextSectionSections DEF XInv
<1>5. Placed' /\ AnchorsSoFar'
  BY <1>1, <1>2, WriteStep
<1>6. LabelFirst'
  BY <1>1 DEF LabelFirst
<1>7. /\ DOMAIN out \subseteq DOMAIN out'
      /\ \A tag \in {"entry", "return"} : \A kind, n : At(out', tag, kind, n) = At(out, tag, kind, n)
  <2>1. CASE out' = out
    BY <2>1
  <2>2. CASE out' = Append(out, w)
    <3>1. DOMAIN out \subseteq DOMAIN out'
      BY <1>2, <1>3, <2>2, Appended
    <3>2. \A tag \in {"entry", "return"} : \A kind, n : At(out', tag, kind, n) = At(out, tag, kind, n)
      BY <1>2, <1>3, <2>2, AtAppended
    <3> QED BY <3>1, <3>2
  <2> QED BY <1>2, <2>1, <2>2
<1>8. ReturnsSoFar'
  <2>1. Ways' = Ways
    BY <1>1 DEF Ways, HasWay, TopParas
  <2>2. ASSUME NEW kind \in Kinds, NEW n \in DOMAIN used_stack[kind]
        PROVE  Returned(kind, n)'
    <3>1. Returned(kind, n)
      BY <1>1 DEF XInv, ReturnsSoFar
    <3> QED BY <1>1, <1>7, <2>1, <3>1 DEF Returned
  <2> QED BY <1>1, <2>2, NothingLeft DEF ReturnsSoFar
<1> QED BY <1>4, <1>5, <1>6, <1>8 DEF XInv

\* A way back is written.
LEMMA WayBackWritten ==
    ASSUME NEW o \in Seq(Output), NEW w \in Output, w.tag = "return"
    PROVE  LET a == Append(o, w)
           IN  /\ DOMAIN o \subseteq DOMAIN a /\ Len(o) + 1 \in DOMAIN a
               /\ \A kind, n : At(a, "entry", kind, n) = At(o, "entry", kind, n)
               /\ \A kind, n : ~(kind = w.kind /\ n = w.number) =>
                      At(a, "return", kind, n) = At(o, "return", kind, n)
               /\ At(a, "return", w.kind, w.number) = At(o, "return", w.kind, w.number) \cup {Len(o) + 1}
<1>1. /\ Len(o) \in Nat /\ DOMAIN o = 1..Len(o) /\ DOMAIN Append(o, w) = 1..(Len(o) + 1)
  BY Appended
<1>2. DOMAIN o \subseteq DOMAIN Append(o, w) /\ Len(o) + 1 \in DOMAIN Append(o, w)
  BY <1>1
<1>3. \A kind, n : At(Append(o, w), "entry", kind, n) = At(o, "entry", kind, n)
  <2>1. w.tag # "entry"
    OBVIOUS
  <2> QED BY <2>1, AtAppended
<1>4. \A kind, n : ~(kind = w.kind /\ n = w.number) =>
          At(Append(o, w), "return", kind, n) = At(o, "return", kind, n)
  BY AtAppended
<1>5. At(Append(o, w), "return", w.kind, w.number) = At(o, "return", w.kind, w.number) \cup {Len(o) + 1}
  BY AtAppended
<1> QED BY <1>2, <1>3, <1>4, <1>5, Zenon

\* An entry that ends has its way back.
LEMMA EndEntryExport ==
    ASSUME IInv, XInv, EndEntry
    PROVE  XInv'
<1> DEFINE w == Written("return", Kind, defs[Entry].index)
<1>1. /\ todo = <<>> /\ in_endnote /\ in_endnote' = FALSE
      /\ IF defs[Entry].is_inline THEN out' = Append(out, w)
         ELSE out' = out
      /\ UNCHANGED <<doc, defs, used_stack, todo, section, i, endnote_return_para_counter>>
  BY DEF EndEntry
<1>2. out \in Seq(Output) /\ section \in 1..3 /\ i \in DOMAIN used_stack[Kind] /\ i \in Nat
  BY <1>1 DEF IInv, TypeOK, Resolves, Kind
<1>3. Kind \in Kinds /\ Turn[Kind] = section /\ defs[Entry].index = i /\ i \in 1..Len(used_stack[Kind])
  BY <1>2, EntryNumber DEF Entry
<1>4. w \in Output /\ w.tag = "return" /\ w.kind = Kind /\ w.number = i
  BY <1>2, <1>3 DEF Written, Output
<1> HIDE DEF w
<1>5. OutKnown' /\ SectionsSoFar'
  BY <1>1, WayBackSections DEF XInv, w
<1>6. Placed' /\ AnchorsSoFar'
  BY <1>1, <1>4, WriteStep
<1>7. LabelFirst'
  BY <1>1 DEF LabelFirst
<1>8. ReturnsSoFar'
  <2>1. Ways' = Ways
    BY <1>1 DEF Ways, HasWay, TopParas
  <2>2. /\ DOMAIN out \subseteq DOMAIN out'
        /\ \A kind, n : At(out', "entry", kind, n) = At(out, "entry", kind, n)
        /\ \A kind, n : ~(kind = Kind /\ n = i) => At(out', "return", kind, n) = At(out, "return", kind, n)
    <3>1. CASE out' = out
      BY <3>1
    <3>2. CASE out' = Append(out, w)
      BY <1>2, <1>4, <3>2, WayBackWritten
    <3> QED BY <1>1, <3>1, <3>2
  <2>3. /\ At(out, "entry", Kind, i) # {}
        /\ \/ \E p \in DOMAIN out' : At(out', "return", Kind, i) = {p}
           \/ At(out', "return", Kind, i) = {} /\ ~defs[Entry].is_inline /\ ~Ways[defs[Entry].of]
    <3>1. Returning
      BY <1>1 DEF XInv, ReturnsSoFar
    <3>2. At(out, "entry", Kind, i) # {}
      <4>1. Listed(out, Kind, i)
        BY <1>3 DEF XInv, SectionsSoFar, SectionsIn
      <4>2. i \in 1..i
        BY <1>2, <1>3
      <4> QED BY <4>1, <4>2 DEF Listed
    <3>3. CASE defs[Entry].is_inline
      <4>1. At(out, "return", Kind, i) = {}
        BY <3>1, <3>3 DEF Returning
      <4>2. out' = Append(out, w)
        BY <1>1, <3>3
      <4>3. /\ At(out', "return", Kind, i) = At(out, "return", Kind, i) \cup {Len(out) + 1}
            /\ Len(out) + 1 \in DOMAIN out'
        BY <1>2, <1>4, <4>2, WayBackWritten
      <4>4. At(out', "return", Kind, i) = {Len(out) + 1}
        BY <4>1, <4>3
      <4> QED BY <3>2, <4>3, <4>4
    <3>4. CASE ~defs[Entry].is_inline
      <4>1. PICK p \in 0..Len(todo) :
              /\ LastParas(todo, p)
              /\ \/ /\ endnote_return = "set" /\ At(out, "return", Kind, i) = {}
                    /\ \/ ~Ways[defs[Entry].of]
                       \/ endnote_return_para_counter \in 1..p
                 \/ endnote_return = "none" /\ \E q \in DOMAIN out : At(out, "return", Kind, i) = {q}
        BY <3>1, <3>4 DEF Returning
      <4>2. p = 0 /\ ~(endnote_return_para_counter \in 1..p)
        <5>1. p = 0
          BY <1>1, <4>1, NothingLeft
        <5> QED BY <5>1
      <4>3. \/ ~Ways[defs[Entry].of] /\ At(out, "return", Kind, i) = {}
            \/ \E q \in DOMAIN out : At(out, "return", Kind, i) = {q}
        BY <4>1, <4>2
      <4>4. out' = out
        BY <1>1, <3>4
      <4> QED BY <3>2, <3>4, <4>3, <4>4
    <3> QED BY <3>3, <3>4
  <2>4. ASSUME NEW kind \in Kinds, NEW n \in DOMAIN used_stack[kind]
        PROVE  Returned(kind, n)'
    <3>1. CASE kind = Kind /\ n = i
      <4>1. used_stack'[kind][n] = Entry /\ defs' = defs
        BY <1>1, <3>1 DEF Entry
      <4>2. /\ At(out', "entry", kind, n) # {}
            /\ \/ \E p \in DOMAIN out' : At(out', "return", kind, n) = {p}
               \/ At(out', "return", kind, n) = {} /\ ~defs[Entry].is_inline /\ ~Ways[defs[Entry].of]
        BY <2>2, <2>3, <3>1
      <4> QED BY <2>1, <4>1, <4>2 DEF Returned
    <3>2. CASE ~(kind = Kind /\ n = i)
      <4>1. Returned(kind, n)
        BY <1>1, <3>2 DEF XInv, ReturnsSoFar
      <4>2. /\ At(out', "return", kind, n) = At(out, "return", kind, n)
            /\ At(out', "entry", kind, n) = At(out, "entry", kind, n)
        BY <2>2, <3>2
      <4> QED BY <1>1, <2>1, <2>2, <4>1, <4>2 DEF Returned
    <3> QED BY <3>1, <3>2
  <2> QED BY <1>1, <2>4, NothingLeft DEF ReturnsSoFar
<1> QED BY <1>5, <1>6, <1>7, <1>8 DEF XInv

\* An end of a paragraph comes first only if nothing else is left.
LEMMA ParasRest ==
    ASSUME NEW list \in Seq(Items), list # <<>>, list[1].what = "para", NEW p, LastParas(list, p)
    PROVE  p = Len(list) /\ p \in Nat \ {0} /\ LastParas(Following(list), p - 1)
<1> DEFINE n == Len(list)
<1>1. /\ n \in Nat \ {0} /\ DOMAIN list = 1..n
      /\ Len(Following(list)) = n - 1 /\ DOMAIN Following(list) = 1..(n - 1)
      /\ \A k \in 1..(n - 1) : Following(list)[k] = list[k + 1]
  BY RestIs
<1>2. p \in 0..n /\ \A k \in 1..n : (list[k].what = "para") <=> k > n - p
  BY <1>1 DEF LastParas
<1> HIDE DEF n
<1>3. p = n
  <2>1. 1 \in 1..n
    BY <1>1
  <2>2. 1 > n - p
    BY <1>2, <2>1
  <2> QED BY <1>1, <1>2, <2>2
<1>4. ASSUME NEW k \in 1..(n - 1)
      PROVE  (Following(list)[k].what = "para") <=> k > (n - 1) - (n - 1)
  <2>1. k + 1 \in 1..n /\ k + 1 > n - p /\ k > (n - 1) - (n - 1)
    BY <1>1, <1>3
  <2>2. list[k + 1].what = "para"
    BY <1>2, <2>1
  <2>3. Following(list)[k].what = "para"
    BY <1>1, <2>2
  <2> QED BY <2>1, <2>3
<1>5. LastParas(Following(list), n - 1)
  <2> DEFINE q == n - 1
  <2>1. q \in 0..q
    BY <1>1
  <2>2. Len(Following(list)) = q /\ DOMAIN Following(list) = 1..q
    BY <1>1
  <2>3. \A k \in 1..q : (Following(list)[k].what = "para") <=> k > q - q
    BY <1>4
  <2> HIDE DEF q
  <2>4. LastParas(Following(list), q)
    BY <2>1, <2>2, <2>3, Zenon DEF LastParas
  <2> QED BY <2>4 DEF q
<1> QED BY <1>1, <1>3, <1>5 DEF n

\* The last of the paragraphs that are counted gets the way back.
LEMMA EndParaExport ==
    ASSUME IInv, XInv, EndPara
    PROVE  XInv'
<1> DEFINE w == Written("return", Kind, defs[Entry].index)
<1>1. /\ todo # <<>> /\ todo[1].what = "para" /\ todo' = Following(todo)
      /\ out' = out \/ out' = Append(out, w)
      /\ UNCHANGED <<doc, defs, used_stack, section, i, in_endnote, skip_endnote_label>>
  BY DEF EndPara, Busy
<1>2. todo \in Seq(Items) /\ out \in Seq(Output)
  BY DEF IInv, TypeOK
<1>3. \A p : LastParas(todo, p) => p = Len(todo) /\ p \in Nat \ {0} /\ LastParas(todo', p - 1)
  BY <1>1, <1>2, ParasRest
<1>4. in_endnote
  <2>1. ~LastParas(todo, 0)
    BY <1>3
  <2> QED BY <2>1 DEF XInv, ReturnsSoFar
<1>5. section \in 1..3 /\ i \in DOMAIN used_stack[Kind] /\ i \in Nat
  BY <1>4 DEF IInv, TypeOK, Resolves, Kind
<1>6. Kind \in Kinds /\ defs[Entry].index = i
  BY <1>5, EntryNumber DEF Entry
<1>7. w \in Output /\ w.tag = "return" /\ w.kind = Kind /\ w.number = i
  BY <1>5, <1>6 DEF Written, Output
<1>8. OutKnown' /\ SectionsSoFar'
  BY <1>1, <1>4, WayBackSections DEF XInv
<1> HIDE DEF w
<1>9. Placed' /\ AnchorsSoFar'
  <2>1. \A e : todo[1] # Item("used", e)
    BY <1>1 DEF Item
  <2>2. \A e \in DOMAIN defs : AwaitsUse(Citing, todo, e) => AwaitsUse(Citing, todo', e)
    BY <1>1, <1>2, <2>1, AwaitsRest
  <2> QED BY <1>1, <1>7, <2>2, WriteStep
<1>10. LabelFirst'
  BY <1>1, RestOfItems DEF XInv
<1>11. Ways' = Ways
  BY <1>1 DEF Ways, HasWay, TopParas
<1>12. /\ DOMAIN out \subseteq DOMAIN out'
       /\ \A kind, n : At(out', "entry", kind, n) = At(out, "entry", kind, n)
       /\ \A kind, n : ~(kind = Kind /\ n = i) => At(out', "return", kind, n) = At(out, "return", kind, n)
  <2>1. CASE out' = out
    BY <2>1
  <2>2. CASE out' = Append(out, w)
    BY <1>2, <1>7, <2>2, WayBackWritten
  <2> QED BY <1>1, <2>1, <2>2 DEF w
<1>13. ASSUME NEW kind \in Kinds, NEW n \in DOMAIN used_stack[kind], ~(kind = Kind /\ n = i)
       PROVE  Returned(kind, n)'
  <2>1. Returned(kind, n)
    BY <1>13 DEF XInv, ReturnsSoFar
  <2>2. /\ At(out', "return", kind, n) = At(out, "return", kind, n)
        /\ At(out', "entry", kind, n) = At(out, "entry", kind, n)
    BY <1>12, <1>13
  <2> QED BY <1>1, <1>11, <1>12, <2>1, <2>2 DEF Returned
<1>14. Returning /\ Entry' = Entry /\ Kind' = Kind
  BY <1>1, <1>4 DEF XInv, ReturnsSoFar, Entry, Kind
<1>15. ~defs[Entry].is_inline
  <2>1. ~LastParas(todo, 0)
    BY <1>3
  <2> QED BY <1>14, <2>1 DEF Returning
<1>16. PICK p \in 0..Len(todo) :
              /\ LastParas(todo, p)
              /\ \/ /\ endnote_return = "set" /\ At(out, "return", Kind, i) = {}
                    /\ \/ ~Ways[defs[Entry].of]
                       \/ endnote_return_para_counter \in 1..p
                 \/ endnote_return = "none" /\ \E q \in DOMAIN out : At(out, "return", Kind, i) = {q}
  BY <1>14, <1>15 DEF Returning
<1>17. p - 1 \in 0..Len(todo') /\ LastParas(todo', p - 1) /\ p \in Nat \ {0}
  BY <1>3, <1>16 DEF LastParas
<1>18. \/ /\ endnote_return' = "set" /\ At(out', "return", Kind, i) = {}
          /\ \/ ~Ways[defs[Entry].of]
             \/ endnote_return_para_counter' \in 1..(p - 1)
       \/ endnote_return' = "none" /\ \E q \in DOMAIN out' : At(out', "return", Kind, i) = {q}
  <2>1. CASE endnote_return = "none"
    <3>1. endnote_return' = "none" /\ out' = out
      BY <2>1 DEF EndPara
    <3> QED BY <1>16, <2>1, <3>1
  <2>2. CASE endnote_return = "set" /\ endnote_return_para_counter = 1
    <3>1. endnote_return' = "none" /\ out' = Append(out, w)
      BY <1>4, <2>2 DEF EndPara, w
    <3>2. At(out, "return", Kind, i) = {}
      BY <1>16, <2>2
    <3>3. /\ At(out', "return", Kind, i) = At(out, "return", Kind, i) \cup {Len(out) + 1}
          /\ Len(out) + 1 \in DOMAIN out'
      BY <1>2, <1>7, <3>1, WayBackWritten
    <3> QED BY <3>1, <3>2, <3>3
  <2>3. CASE endnote_return = "set" /\ endnote_return_para_counter # 1
    <3>1. /\ endnote_return' = "set" /\ out' = out
          /\ endnote_return_para_counter' = endnote_return_para_counter - 1
      BY <1>4, <2>3 DEF EndPara
    <3>2. endnote_return_para_counter \in Int
      BY DEF IInv, TypeOK
    <3>3. At(out, "return", Kind, i) = {}
      BY <1>16, <2>3
    <3>4. CASE ~Ways[defs[Entry].of]
      BY <3>1, <3>3, <3>4
    <3>5. CASE endnote_return_para_counter \in 1..p
      <4>1. endnote_return_para_counter' \in 1..(p - 1)
        BY <1>17, <2>3, <3>1, <3>2, <3>5
      <4> QED BY <3>1, <3>3, <4>1
    <3> QED BY <1>16, <2>3, <3>4, <3>5
  <2> QED BY <1>16, <2>1, <2>2, <2>3
<1>19. Returning'
  BY <1>1, <1>11, <1>14, <1>15, <1>17, <1>18 DEF Returning
<1>20. ReturnsSoFar'
  BY <1>1, <1>4, <1>13, <1>14, <1>19 DEF ReturnsSoFar
<1> QED BY <1>8, <1>9, <1>10, <1>20 DEF XInv

\* The text of an inline note has references only.
LEMMA OnlyRefs ==
    ASSUME NEW list \in Seq(DOMAIN doc.refs)
    PROVE  LastParas(Refs(list), 0) /\ \A k \in DOMAIN Refs(list) : Refs(list)[k].what = "ref"
<1> DEFINE n == Len(list)
           new == Refs(list)
<1>1. n \in Nat /\ DOMAIN list = 1..n
  BY LenProperties
<1>2. DOMAIN new = 1..n /\ \A k \in 1..n : new[k] = Ref(list[k])
  BY <1>1 DEF Refs
<1>3. Len(new) = n
  <2>1. new = [k \in 1..n |-> Ref(list[k])]
    BY <1>1 DEF Refs
  <2> QED BY <1>1, <2>1
<1> HIDE DEF n, new
<1>4. \A k \in 1..n : new[k].what = "ref"
  BY <1>2 DEF Ref, Item
<1>5. LastParas(new, 0)
  <2>1. 0 \in 0..n /\ \A k \in 1..n : ~(k > n - 0)
    BY <1>1
  <2> QED BY <1>2, <1>3, <1>4, <2>1 DEF LastParas
<1> QED BY <1>2, <1>4, <1>5 DEF new

\* An entry begins without a way back, and with as many paragraphs to come as
\* are counted, or more.
LEMMA BeginEntryExport ==
    ASSUME IInv, XInv, BeginEntry
    PROVE  XInv'
<1> DEFINE e == used_stack[Kind][i + 1]
           w == Written("entry", Kind, defs[e].index)
<1>1. /\ todo = <<>> /\ section \in 1..3 /\ ~in_endnote /\ i < Len(used_stack[Kind])
      /\ i' = i + 1 /\ in_endnote' = TRUE /\ out' = Append(out, w)
      /\ UNCHANGED <<doc, defs, used_stack, section>>
  BY DEF BeginEntry, Size, SizeNow
<1>2. i \in Nat /\ out \in Seq(Output)
  BY DEF IInv, TypeOK
<1>3. Kind \in Kinds /\ Len(used_stack[Kind]) \in Nat /\ DOMAIN used_stack[Kind] = 1..Len(used_stack[Kind])
  BY <1>1, LenProperties DEF IInv, TypeOK, Stacks, Kind, Section, Kinds
<1>4. i + 1 \in DOMAIN used_stack[Kind]
  BY <1>1, <1>2, <1>3
<1>5. Turn[Kind] = section /\ e \in DOMAIN defs /\ defs[e].index = i + 1
  BY <1>1, <1>4, EntryNumber
<1>6. w \in Output /\ w.tag = "entry" /\ w.kind = Kind /\ w.number = i + 1
  BY <1>2, <1>3, <1>5 DEF Written, Output
<1>7. Kind' = Kind /\ Entry' = e /\ i' = i + 1
  BY <1>1 DEF Kind, Entry
<1>8. IF defs[e].is_inline
      THEN todo' = (IF doc.refs[defs[e].of].how = "locator" THEN <<>> ELSE Refs(doc.refs[defs[e].of].inside))
      ELSE /\ todo' = Content(defs[e].of) /\ skip_endnote_label' = TRUE
           /\ endnote_return' = "set" /\ endnote_return_para_counter' = ParasOf(defs[e].of)
  BY DEF BeginEntry
<1>9. doc \in Documents /\ defs[e].of \in (IF defs[e].is_inline THEN DOMAIN doc.refs ELSE DOMAIN doc.defs)
  BY <1>5 DEF IInv, Resolves, Based
<1> HIDE DEF w, e
<1>10. OutKnown' /\ SectionsSoFar'
  BY BeginEntrySections DEF XInv
<1>11. Placed' /\ AnchorsSoFar'
  <2>1. \A x \in DOMAIN defs : AwaitsUse(Citing, todo, x) => AwaitsUse(Citing, todo', x)
    BY <1>1, NothingLeft
  <2> QED BY <1>1, <1>6, <2>1, WriteStep
<1>12. Ways' = Ways
  BY <1>1 DEF Ways, HasWay, TopParas
<1>13. /\ DOMAIN out \subseteq DOMAIN out'
       /\ \A kind, n : At(out', "return", kind, n) = At(out, "return", kind, n)
       /\ \A kind, n : ~(kind = Kind /\ n = i + 1) => At(out', "entry", kind, n) = At(out, "entry", kind, n)
  <2>1. DOMAIN out \subseteq DOMAIN out'
    BY <1>1, <1>2, <1>6, Appended
  <2>2. w.tag # "return"
    BY <1>6
  <2>3. \A kind, n : At(out', "return", kind, n) = At(out, "return", kind, n)
    BY <1>1, <1>2, <1>6, <2>2, AtAppended
  <2>4. \A kind, n : ~(kind = Kind /\ n = i + 1) => At(out', "entry", kind, n) = At(out, "entry", kind, n)
    BY <1>1, <1>2, <1>6, AtAppended
  <2> QED BY <2>1, <2>3, <2>4
<1>14. ASSUME NEW kind \in Kinds, NEW n \in DOMAIN used_stack[kind], ~(kind = Kind /\ n = i + 1)
       PROVE  Returned(kind, n)'
  <2>1. Returned(kind, n)
    BY <1>1 DEF XInv, ReturnsSoFar
  <2>2. At(out', "return", kind, n) = At(out, "return", kind, n) /\ At(out', "entry", kind, n) = At(out, "entry", kind, n)
    BY <1>13, <1>14
  <2> QED BY <1>1, <1>12, <1>13, <2>1, <2>2 DEF Returned
<1>15. At(out', "return", Kind, i + 1) = {}
  <2>1. Returned(Kind, i + 1)
    BY <1>1, <1>3, <1>4 DEF XInv, ReturnsSoFar
  <2>2. At(out, "entry", Kind, i + 1) = {}
    <3>1. Listed(out, Kind, i)
      BY <1>3, <1>5 DEF XInv, SectionsSoFar, SectionsIn
    <3>2. \A k \in EntriesIn(out, Kind) : out[k].number \in 1..i
      BY <3>1 DEF Listed
    <3>3. ~(i + 1 \in 1..i)
      BY <1>2
    <3> QED BY <3>2, <3>3 DEF At, EntriesIn
  <2>3. At(out, "return", Kind, i + 1) = {}
    BY <2>1, <2>2 DEF Returned
  <2> QED BY <1>13, <2>3
<1>16. Returning' /\ LabelFirst'
  <2>1. CASE defs[e].is_inline
    <3>1. LastParas(todo', 0) /\ \A k \in DOMAIN todo' : todo'[k].what = "ref"
      <4>1. CASE todo' = <<>>
        <5>1. Len(todo') = 0 /\ DOMAIN todo' = {}
          BY <4>1
        <5> QED BY <5>1 DEF LastParas
      <4>2. CASE todo' = Refs(doc.refs[defs[e].of].inside)
        <5>1. doc.refs[defs[e].of].inside \in Seq(DOMAIN doc.refs)
          BY <1>9, <2>1, DocumentFacts
        <5> QED BY <4>2, <5>1, OnlyRefs
      <4> QED BY <1>8, <2>1, <4>1, <4>2
    <3>2. Returning'
      BY <1>1, <1>7, <1>15, <2>1, <3>1 DEF Returning
    <3> QED BY <3>1, <3>2 DEF LabelFirst
  <2>2. CASE ~defs[e].is_inline
    <3> DEFINE d == defs[e].of
               p == Len(doc.defs[d].paras)
    <3>1. d \in DOMAIN doc.defs
      BY <1>9, <2>2
    <3>2. /\ todo' = Content(d) /\ skip_endnote_label' = TRUE
          /\ endnote_return' = "set" /\ endnote_return_para_counter' = TopParas(d) + doc.defs[d].captions
      BY <1>8, <2>2 DEF ParasOf
    <3>3. /\ LastParas(todo', p) /\ todo'[1] = Item("label", d)
          /\ \A k \in DOMAIN todo' : k # 1 => todo'[k].what \in {"ref", "para"}
          /\ TopParas(d) \in 0..p
      BY <1>9, <3>1, <3>2, ContentIs
    <3>4. Ways'[d] = HasWay(d)
      BY <1>12, <3>1 DEF Ways
    <3> HIDE DEF p, d
    <3>5. p \in 0..Len(todo')
      BY <3>3 DEF LastParas
    <3>6. \/ ~Ways'[d]
          \/ endnote_return_para_counter' \in 1..p
      <4>1. CASE HasWay(d)
        <5>1. endnote_return_para_counter' = TopParas(d) + 0 /\ TopParas(d) > 0
          BY <3>2, <4>1 DEF HasWay
        <5> QED BY <3>3, <5>1
      <4>2. CASE ~HasWay(d)
        BY <3>4, <4>2, Zenon
      <4> QED BY <4>1, <4>2
    <3>7. Returning'
      <4>1. ~defs'[Entry'].is_inline /\ Ways'[defs'[Entry'].of] = Ways'[d]
        BY <1>1, <1>7, <2>2 DEF d
      <4>2. At(out', "return", Kind', i') = {}
        BY <1>7, <1>15
      <4> QED BY <3>2, <3>3, <3>5, <3>6, <4>1, <4>2 DEF Returning
    <3>8. LabelFirst'
      <4> SUFFICES ASSUME NEW k \in DOMAIN todo'
                   PROVE  /\ todo'[k].what = "label" => k = 1 /\ in_endnote' /\ skip_endnote_label'
                          /\ todo'[k].what = "used" => defs'[todo'[k].of].index # 0
        BY DEF LabelFirst
      <4>1. CASE k = 1
        BY <1>1, <3>2, <3>3, <4>1 DEF Item
      <4>2. CASE k # 1
        BY <3>3, <4>2
      <4> QED BY <4>1, <4>2
    <3> QED BY <3>7, <3>8
  <2> QED BY <2>1, <2>2
<1>17. ReturnsSoFar'
  BY <1>1, <1>7, <1>14, <1>16 DEF ReturnsSoFar
<1> QED BY <1>10, <1>11, <1>16, <1>17 DEF XInv
-----------------------------------------------------------------------------
\* What is appended is where its tag, kind and number say.
LEMMA AtMore ==
    ASSUME NEW o \in Seq(Output), NEW w \in Output
    PROVE  At(Append(o, w), w.tag, w.kind, w.number) = At(o, w.tag, w.kind, w.number) \cup {Len(o) + 1}
BY AtAppended

\* What a reference can write
Linked(o, kind, n) ==
    {o, Append(o, Written("link", kind, n)), Append(Append(o, Written("link", kind, n)), Written("anchor", kind, n))}

\* A link and its anchor are written.
LEMMA LinkWritten ==
    ASSUME NEW o \in Seq(Output), NEW kind \in Kinds, NEW n \in Nat,
           NEW a \in Linked(o, kind, n)
    PROVE  /\ DOMAIN o \subseteq DOMAIN a /\ Len(o) \in Nat /\ DOMAIN o = 1..Len(o)
           /\ \A tag, k, m : tag \notin {"link", "anchor"} => At(a, tag, k, m) = At(o, tag, k, m)
           /\ \A tag, k, m : ~(k = kind /\ m = n) => At(a, tag, k, m) = At(o, tag, k, m)
           /\ a = Append(o, Written("link", kind, n)) =>
                  /\ At(a, "link", kind, n) = At(o, "link", kind, n) \cup {Len(o) + 1}
                  /\ At(a, "anchor", kind, n) = At(o, "anchor", kind, n)
           /\ a = Append(Append(o, Written("link", kind, n)), Written("anchor", kind, n)) =>
                  /\ At(a, "link", kind, n) = At(o, "link", kind, n) \cup {Len(o) + 1}
                  /\ At(a, "anchor", kind, n) = At(o, "anchor", kind, n) \cup {Len(o) + 2}
                  /\ Len(o) + 2 \in DOMAIN a
<1> DEFINE link == Written("link", kind, n)
           anchor == Written("anchor", kind, n)
<1> DEFINE b == Append(o, link)
           c == Append(b, anchor)
<1>1. /\ link.tag = "link" /\ link.kind = kind /\ link.number = n
      /\ anchor.tag = "anchor" /\ anchor.kind = kind /\ anchor.number = n
      /\ link \in Output /\ anchor \in Output
  BY DEF Written, Output
<1> HIDE DEF link, anchor
<1>2. /\ b \in Seq(Output) /\ Len(o) \in Nat /\ Len(b) = Len(o) + 1 /\ DOMAIN o = 1..Len(o)
      /\ DOMAIN b = 1..(Len(o) + 1)
  BY <1>1, Appended
<1>3. Len(b) + 1 = Len(o) + 2 /\ DOMAIN c = 1..(Len(o) + 2)
  <2>1. DOMAIN c = 1..(Len(b) + 1)
    BY <1>2, Appended
  <2>2. Len(b) + 1 = Len(o) + 2
    BY <1>2
  <2> QED BY <2>1, <2>2
<1>4. /\ \A tag, k, m : ~(tag = "link" /\ k = kind /\ m = n) => At(b, tag, k, m) = At(o, tag, k, m)
      /\ At(b, "link", kind, n) = At(o, "link", kind, n) \cup {Len(o) + 1}
  <2>1. ASSUME NEW tag, NEW k, NEW m, ~(tag = "link" /\ k = kind /\ m = n)
        PROVE  At(b, tag, k, m) = At(o, tag, k, m)
    <3>1. ~(link.tag = tag /\ link.kind = k /\ link.number = m)
      BY <1>1, <2>1
    <3> QED BY <1>1, <3>1, AtAppended DEF b
  <2>2. At(b, "link", kind, n) = At(o, "link", kind, n) \cup {Len(o) + 1}
    <3>1. At(b, link.tag, link.kind, link.number) = At(o, link.tag, link.kind, link.number) \cup {Len(o) + 1}
      <4>1. link \in Output
        BY <1>1
      <4> QED BY <4>1, AtMore DEF b
    <3> QED BY <1>1, <3>1
  <2> QED BY <2>1, <2>2
<1> HIDE DEF b
<1>5. /\ \A tag, k, m : ~(tag = "anchor" /\ k = kind /\ m = n) => At(c, tag, k, m) = At(b, tag, k, m)
      /\ At(c, "anchor", kind, n) = At(b, "anchor", kind, n) \cup {Len(o) + 2}
  <2>1. ASSUME NEW tag, NEW k, NEW m, ~(tag = "anchor" /\ k = kind /\ m = n)
        PROVE  At(c, tag, k, m) = At(b, tag, k, m)
    <3>1. ~(anchor.tag = tag /\ anchor.kind = k /\ anchor.number = m)
      BY <1>1, <2>1
    <3> QED BY <1>1, <1>2, <3>1, AtAppended
  <2>2. At(c, "anchor", kind, n) = At(b, "anchor", kind, n) \cup {Len(b) + 1}
    <3>1. At(c, anchor.tag, anchor.kind, anchor.number)
              = At(b, anchor.tag, anchor.kind, anchor.number) \cup {Len(b) + 1}
      <4>1. b \in Seq(Output) /\ anchor \in Output
        BY <1>1, <1>2
      <4> QED BY <4>1, AtMore DEF c
    <3> QED BY <1>1, <3>1
  <2> QED BY <1>3, <2>1, <2>2
<1> HIDE DEF c
<1>6. a \in {o, b, c}
  BY DEF b, c, link, anchor, Linked
<1>7. DOMAIN o \subseteq DOMAIN a /\ Len(o) + 2 \in DOMAIN c
  BY <1>2, <1>3, <1>6
<1>8. \A tag, k, m : tag \notin {"link", "anchor"} => At(a, tag, k, m) = At(o, tag, k, m)
  <2>1. \A tag, k, m : tag \notin {"link", "anchor"} => At(b, tag, k, m) = At(o, tag, k, m)
    BY <1>4
  <2>2. \A tag, k, m : tag \notin {"link", "anchor"} => At(c, tag, k, m) = At(o, tag, k, m)
    BY <1>5, <2>1
  <2> QED BY <1>6, <2>1, <2>2
<1>9. \A tag, k, m : ~(k = kind /\ m = n) => At(a, tag, k, m) = At(o, tag, k, m)
  <2>1. \A tag, k, m : ~(k = kind /\ m = n) => At(b, tag, k, m) = At(o, tag, k, m)
    BY <1>4
  <2>2. \A tag, k, m : ~(k = kind /\ m = n) => At(c, tag, k, m) = At(o, tag, k, m)
    BY <1>5, <2>1
  <2> QED BY <1>6, <2>1, <2>2
<1>10. /\ At(b, "anchor", kind, n) = At(o, "anchor", kind, n)
       /\ At(c, "link", kind, n) = At(b, "link", kind, n)
       /\ At(c, "anchor", kind, n) = At(b, "anchor", kind, n) \cup {Len(o) + 2}
  <2>1. At(b, "anchor", kind, n) = At(o, "anchor", kind, n)
    BY <1>4
  <2>2. At(c, "link", kind, n) = At(b, "link", kind, n)
    BY <1>5
  <2> QED BY <1>5, <2>1, <2>2
<1>11. a = b => /\ At(a, "link", kind, n) = At(o, "link", kind, n) \cup {Len(o) + 1}
                /\ At(a, "anchor", kind, n) = At(o, "anchor", kind, n)
  BY <1>4, <1>10
<1>12. a = c => /\ At(a, "link", kind, n) = At(o, "link", kind, n) \cup {Len(o) + 1}
                /\ At(a, "anchor", kind, n) = At(o, "anchor", kind, n) \cup {Len(o) + 2}
                /\ Len(o) + 2 \in DOMAIN a
  BY <1>4, <1>7, <1>10
<1> QED BY <1>2, <1>7, <1>8, <1>9, <1>11, <1>12, Zenon DEF b, c, link, anchor

\* A reference leaves the ways back as they are.
LEMMA ReferenceReturns ==
    ASSUME IInv, XInv, ReferToDefined \/ ReferInline
    PROVE  ReturnsSoFar'
<1>1. PICK list, inside, e : Source(list, e, inside) /\ Effect(list, e, inside)
  BY ReferenceStep
<1> DEFINE kind == list[e].kind
           n == NumberOf(e, list)
           link == Written("link", kind, n)
           anchor == Written("anchor", kind, n)
<1>2. /\ todo # <<>> /\ todo[1].what = "ref" /\ list \in Seq(EndnoteDef) /\ e \in DOMAIN list
      /\ inside \in Seq(DOMAIN doc.refs) /\ \A x \in DOMAIN defs : list[x] = defs[x]
      /\ DOMAIN defs \subseteq DOMAIN list
  BY <1>1 DEF Source
<1>3. /\ UNCHANGED <<doc, section, i, in_endnote, endnote_return, endnote_return_para_counter>>
      /\ todo' = Following(todo) \/ todo' = After(todo, inside, e)
      /\ out' \in {out, Append(out, link), Append(Append(out, link), anchor)}
      /\ kind \in Kinds /\ n \in Nat
      /\ \A x \in DOMAIN list : x # e => defs'[x] = list[x]
      /\ defs'[e].of = list[e].of /\ defs'[e].is_inline = list[e].is_inline
  BY <1>1 DEF Effect, Renumbers
<1>4. \A k \in Kinds :
          /\ Len(used_stack[k]) \in Nat /\ Len(used_stack'[k]) \in Nat
          /\ DOMAIN used_stack[k] = 1..Len(used_stack[k])
          /\ DOMAIN used_stack'[k] = 1..Len(used_stack'[k])
          /\ Len(used_stack[k]) <= Len(used_stack'[k])
          /\ \A m \in 1..Len(used_stack[k]) : used_stack'[k][m] = used_stack[k][m]
  BY <1>1 DEF Effect, Renumbers
<1>5. \A x \in DOMAIN defs : defs'[x].of = defs[x].of /\ defs'[x].is_inline = defs[x].is_inline
  BY <1>2, <1>3
<1>6. out \in Seq(Output) /\ todo \in Seq(Items) /\ doc \in Documents /\ e \in Nat
  <2>1. e \in Nat
    BY <1>2, LenProperties
  <2> QED BY <2>1 DEF IInv, TypeOK, Resolves
<1>7. /\ DOMAIN out \subseteq DOMAIN out'
      /\ \A tag \in {"entry", "return"} : \A k, m : At(out', tag, k, m) = At(out, tag, k, m)
  <2>1. /\ DOMAIN out \subseteq DOMAIN out'
        /\ \A tag, k, m : tag \notin {"link", "anchor"} => At(out', tag, k, m) = At(out, tag, k, m)
    <3>1. out' \in Linked(out, kind, n)
      BY <1>3 DEF Linked
    <3> HIDE DEF kind, n
    <3> QED BY <1>3, <1>6, <3>1, LinkWritten
  <2> QED BY <2>1
<1>8. \A p : LastParas(todo, p) => LastParas(todo', p)
  <2>1. ASSUME NEW p, LastParas(todo, p) PROVE LastParas(todo', p)
    <3>0. todo[1].what # "para"
      BY <1>2
    <3>1. LastParas(Following(todo), p) /\ LastParas(After(todo, inside, e), p)
      <4>1. LastParas(Following(todo), p)
        BY <1>2, <1>6, <2>1, <3>0, ParasStay
      <4>2. inside \in Seq(DOMAIN doc.refs) /\ e \in Nat /\ doc \in Documents
        BY <1>2, <1>6
      <4>3. \A x \in Seq(DOMAIN doc.refs), y \in Nat :
                doc \in Documents => LastParas(After(todo, x, y), p)
        BY <1>2, <1>6, <2>1, <3>0, ParasStay
      <4> QED BY <4>1, <4>2, <4>3
    <3> QED BY <1>3, <3>1
  <2> QED BY <2>1
<1> QED BY <1>2, <1>3, <1>4, <1>5, <1>7, <1>8, ReturnsStill DEF XInv

\* A note that a reference is not taken for keeps its anchor, and what it awaits.
LEMMA OtherAnchors ==
    ASSUME IInv, XInv, NEW list, NEW inside, NEW e, Source(list, e, inside), Effect(list, e, inside),
           NEW x \in DOMAIN list, x # e, defs'[x].index # 0, Simple(x)'
    PROVE  /\ Anchored(out', defs'[x].kind, defs'[x].index)
           /\ defs'[x].used \/ AwaitsUse(Citing, todo', x)
<1> DEFINE r == todo[1].of
           kind == list[e].kind
           n == NumberOf(e, list)
<1>1. /\ todo # <<>> /\ todo[1].what = "ref" /\ r \in DOMAIN doc.refs
      /\ e \in DOMAIN list /\ inside \in Seq(DOMAIN doc.refs) /\ list \in Seq(EndnoteDef)
      /\ \A y \in DOMAIN defs : list[y] = defs[y]
      /\ list = defs \/ DOMAIN list = DOMAIN defs \cup {e}
      /\ \/ doc.refs[r].how = "not_cited" /\ NotCited(e, list)
         \/ doc.refs[r].how = "locator" /\ inside = doc.refs[r].inside
         \/ doc.refs[r].how = "cited" /\ inside = <<>>
  BY DEF Source
<1>2. /\ doc' = doc /\ defs'[x] = list[x] /\ IInv' /\ DOMAIN defs' = DOMAIN list
      /\ defs'[e].kind = kind /\ defs'[e].index = n /\ kind \in Kinds /\ n \in Nat \ {0}
      /\ out' \in Linked(out, kind, n)
      /\ \/ NotCited(e, list) /\ todo' = Following(todo)
         \/ Link(e, list, inside) /\ todo' = After(todo, inside, e)
  BY DEF Effect, Renumbers, Linked
<1> HIDE DEF kind, n
<1>3. x \in DOMAIN defs /\ defs'[x] = defs[x]
  BY <1>1, <1>2
<1>4. Simple(x) /\ defs[x].index # 0
  BY <1>2, <1>3, SimpleStays
<1>5. Anchored(out, defs[x].kind, defs[x].index) /\ (defs[x].used \/ AwaitsUse(Citing, todo, x))
  BY <1>3, <1>4 DEF XInv, AnchorsSoFar
<1>6. ~(defs[x].kind = kind /\ defs[x].index = n)
  <2>1. Numbered(defs', used_stack')
    BY <1>2 DEF IInv, NumbersArePlaces
  <2>2. used_stack'[defs'[x].kind][defs'[x].index] = x
    BY <1>2, <2>1 DEF Numbered
  <2>3. used_stack'[defs'[e].kind][defs'[e].index] = e
    BY <1>1, <1>2, <2>1 DEF Numbered
  <2> QED BY <1>2, <1>3, <2>2, <2>3
<1>7. out \in Seq(Output) /\ todo \in Seq(Items) /\ doc \in Documents /\ e \in Nat
  <2>1. e \in Nat
    BY <1>1, LenProperties
  <2> QED BY <2>1 DEF IInv, TypeOK, Resolves
<1>8. Anchored(out', defs'[x].kind, defs'[x].index)
  <2> DEFINE k == defs[x].kind
             m == defs[x].index
  <2>1. DOMAIN out \subseteq DOMAIN out'
    BY <1>2, <1>7, LinkWritten
  <2>2. \A tag, l, q : ~(l = kind /\ q = n) => At(out', tag, l, q) = At(out, tag, l, q)
    BY <1>2, <1>7, LinkWritten
  <2>3. At(out', "anchor", k, m) = At(out, "anchor", k, m) /\ At(out', "link", k, m) = At(out, "link", k, m)
    BY <1>6, <2>2
  <2>4. Anchored(out', k, m)
    BY <1>5, <2>1, <2>3 DEF Anchored
  <2> QED BY <1>3, <2>4
<1>9. ASSUME AwaitsUse(Citing, todo, x) PROVE AwaitsUse(Citing, todo', x)
  <2>1. todo[1] # Item("used", x)
    BY <1>1 DEF Item
  <2>2. CASE todo' = Following(todo)
    BY <1>1, <1>7, <1>9, <2>1, <2>2, AwaitsRest
  <2>3. CASE todo' = After(todo, inside, e)
    <3>1. x \notin Cites(r)
      <4>1. PICK m \in DOMAIN todo : /\ todo[m] = Item("used", x)
                                     /\ \A j \in 1..(m - 1) : todo[j].what = "ref" => x \notin Citing[todo[j].of]
        BY <1>9 DEF AwaitsUse
      <4>2. m # 1 /\ m \in Nat \ {0}
        BY <1>7, <2>1, <4>1, LenProperties
      <4>3. 1 \in 1..(m - 1)
        BY <4>2
      <4>4. x \notin Citing[r]
        BY <1>1, <4>1, <4>3
      <4> QED BY <1>1, <1>7, <4>4, LocatorCites
    <3>2. \A k \in DOMAIN inside : x \notin Citing[inside[k]]
      <4>1. CASE inside = <<>>
        BY <4>1
      <4>2. CASE inside # <<>>
        <5>1. doc.refs[r].how = "locator" /\ inside = doc.refs[r].inside
          <6>1. Link(e, list, inside) \/ NotCited(e, list)
            BY <1>2
          <6>2. ~NotCited(e, list)
            <7>1. todo' # Following(todo)
              <8>1. /\ Len(todo) \in Nat \ {0} /\ Len(Following(todo)) = Len(todo) - 1
                BY <1>1, <1>7, RestIs
              <8>2. Len(inside) \in Nat \ {0}
                BY <1>1, <4>2, LenProperties, EmptySeq
              <8>3. Len(todo') = Len(inside) + 1 + (Len(todo) - 1)
                BY <1>1, <1>7, <2>3, <4>2, LocatorFirst
              <8> QED BY <8>1, <8>2, <8>3
            <7> QED BY <7>1 DEF NotCited
          <6> QED BY <1>1, <4>2, <6>2
        <5> SUFFICES ASSUME NEW k \in DOMAIN inside PROVE x \notin Citing[inside[k]]
          OBVIOUS
        <5>2. inside[k] \in DOMAIN doc.refs /\ Cites(inside[k]) \subseteq Cites(r)
          BY <1>1, <1>7, <5>1, LocatorCites
        <5>3. Citing[inside[k]] = Cites(inside[k])
          BY <5>2 DEF Citing
        <5> QED BY <3>1, <5>2, <5>3
      <4> QED BY <4>1, <4>2
    <3> QED BY <1>1, <1>7, <1>9, <2>1, <2>3, <3>2, AwaitsAfter
  <2> QED BY <1>2, <2>2, <2>3
<1> QED BY <1>3, <1>5, <1>8, <1>9

\* A note that a reference is taken for has one anchor, at its first link, and
\* counts as used when the locator is written.
LEMMA OwnAnchor ==
    ASSUME IInv, XInv, NEW list, NEW inside, NEW e, Source(list, e, inside), Effect(list, e, inside),
           Simple(e)'
    PROVE  /\ Anchored(out', defs'[e].kind, defs'[e].index)
           /\ defs'[e].used \/ AwaitsUse(Citing, todo', e)
<1> DEFINE r == todo[1].of
           kind == list[e].kind
           n == NumberOf(e, list)
           link == Written("link", kind, n)
           anchor == Written("anchor", kind, n)
<1>1. /\ todo # <<>> /\ todo[1].what = "ref" /\ r \in DOMAIN doc.refs
      /\ e \in DOMAIN list /\ inside \in Seq(DOMAIN doc.refs) /\ list \in Seq(EndnoteDef)
      /\ \/ list = defs /\ e = Target(r) /\ e \in DOMAIN doc.defs
         \/ /\ DOMAIN list = DOMAIN defs \cup {e} /\ e \notin DOMAIN defs /\ Target(r) = 0
            /\ list[e] = Def(doc.refs[r].kind, r, TRUE)
  BY DEF Source
<1>2. \/ doc.refs[r].how = "not_cited"
      \/ doc.refs[r].how = "locator" /\ inside = doc.refs[r].inside /\ Link(e, list, inside)
      \/ doc.refs[r].how = "cited" /\ inside = <<>> /\ Link(e, list, inside)
  BY DEF Source
<1>3. /\ doc' = doc
      /\ defs'[e].kind = kind /\ defs'[e].index = n /\ kind \in Kinds /\ n \in Nat \ {0}
      /\ defs'[e].of = list[e].of /\ defs'[e].is_inline = list[e].is_inline
      /\ out' \in Linked(out, kind, n)
      /\ IF list[e].index = 0 THEN n = Len(used_stack[kind]) + 1 ELSE n = list[e].index
      /\ Len(used_stack[kind]) \in Nat
  BY DEF Effect, Renumbers, Linked
<1>4. Link(e, list, inside) =>
          /\ todo' = After(todo, inside, e)
          /\ out' = IF list[e].used THEN Append(out, link) ELSE Append(Append(out, link), anchor)
          /\ defs'[e].used = (list[e].used \/ inside = <<>>)
  BY DEF Effect, Renumbers
<1> HIDE DEF kind, n
<1>5. out \in Seq(Output) /\ todo \in Seq(Items) /\ doc \in Documents /\ e \in Nat \ {0}
      /\ DOMAIN doc.defs \subseteq DOMAIN defs
  <2>1. e \in Nat \ {0}
    BY <1>1, LenProperties
  <2> QED BY <2>1 DEF IInv, TypeOK, Resolves
<1>6. ~NotedUncited(e)' /\ (defs'[e].is_inline \/ ~InOwnLocator(e)')
  BY DEF Simple
<1>7. \/ list = defs /\ e = Target(r) /\ e \in DOMAIN doc.defs /\ ~defs'[e].is_inline
      \/ /\ e \notin DOMAIN defs /\ defs'[e].is_inline /\ defs'[e].of = r
         /\ list[e].index = 0 /\ ~list[e].used
  <2>1. ASSUME list = defs, e \in DOMAIN doc.defs PROVE ~defs'[e].is_inline
    BY <1>3, <1>5, <2>1 DEF XInv, Placed
  <2>2. list[e] = Def(doc.refs[r].kind, r, TRUE) =>
            defs'[e].is_inline /\ defs'[e].of = r /\ list[e].index = 0 /\ ~list[e].used
    BY <1>3 DEF Def
  <2> QED BY <1>1, <2>1, <2>2
<1>8. /\ (doc.refs[r].how = "locator" /\ inside = doc.refs[r].inside) \/ inside = <<>>
      /\ Link(e, list, inside)
  <2>1. doc.refs[r].how # "not_cited"
    <3>1. CASE defs'[e].is_inline /\ defs'[e].of = r
      BY <1>3, <1>6, <3>1 DEF NotedUncited
    <3>2. CASE e = Target(r) /\ ~defs'[e].is_inline
      BY <1>1, <1>3, <1>6, <3>2 DEF NotedUncited, Target
    <3> QED BY <1>7, <3>1, <3>2
  <2> QED BY <1>2, <2>1
<1>9. ASSUME list[e].index # 0 PROVE list[e].used
  <2>1. list = defs /\ e = Target(r) /\ e \in DOMAIN defs
    BY <1>5, <1>7, <1>9
  <2>2. Simple(e)
    BY <1>3, <2>1, SimpleStays
  <2>3. defs[e].used \/ AwaitsUse(Citing, todo, e)
    BY <1>9, <2>1, <2>2 DEF XInv, AnchorsSoFar
  <2>4. ~AwaitsUse(Citing, todo, e)
    <3> SUFFICES ASSUME NEW m \in DOMAIN todo, todo[m] = Item("used", e),
                        \A j \in 1..(m - 1) : todo[j].what = "ref" => e \notin Citing[todo[j].of]
                 PROVE  FALSE
      BY DEF AwaitsUse
    <3>1. m # 1 /\ m \in Nat \ {0}
      BY <1>1, <1>5, LenProperties DEF Item
    <3>2. 1 \in 1..(m - 1)
      BY <3>1
    <3>3. e \notin Citing[r]
      BY <1>1, <3>2
    <3> QED BY <1>1, <1>5, <2>1, <3>3, LocatorCites
  <2> QED BY <2>1, <2>3, <2>4
<1>10. Anchored(out', kind, n)
  <2>1. DOMAIN out \subseteq DOMAIN out' /\ Len(out) \in Nat /\ DOMAIN out = 1..Len(out)
    BY <1>3, <1>5, LinkWritten
  <2>2. CASE list[e].used
    <3>1. list = defs /\ e \in DOMAIN defs /\ defs[e].index # 0
      BY <1>5, <1>7, <2>2 DEF XInv, Placed
    <3>2. Simple(e)
      BY <1>3, <3>1, SimpleStays
    <3>3. Anchored(out, kind, n)
      BY <1>3, <3>1, <3>2 DEF XInv, AnchorsSoFar, kind
    <3>4. out' = Append(out, Written("link", kind, n))
      BY <1>4, <1>8, <2>2
    <3>5. /\ At(out', "link", kind, n) = At(out, "link", kind, n) \cup {Len(out) + 1}
          /\ At(out', "anchor", kind, n) = At(out, "anchor", kind, n)
      <4> DEFINE w == Written("link", kind, n)
      <4>1. w \in Output /\ w.tag = "link" /\ w.kind = kind /\ w.number = n
        BY <1>3 DEF Written, Output
      <4>2. out' = Append(out, w)
        BY <3>4
      <4> HIDE DEF w
      <4>3. At(out', w.tag, w.kind, w.number) = At(out, w.tag, w.kind, w.number) \cup {Len(out) + 1}
        BY <1>5, <4>1, <4>2, AtMore
      <4>4. w.tag # "anchor"
        BY <4>1
      <4>5. At(out', "anchor", kind, n) = At(out, "anchor", kind, n)
        BY <1>5, <4>1, <4>2, <4>4, AtAppended
      <4> QED BY <4>1, <4>3, <4>5
    <3>6. PICK a \in DOMAIN out : At(out, "anchor", kind, n) = {a} /\ \A l \in At(out, "link", kind, n) : l >= a - 1
      BY <3>3 DEF Anchored
    <3>7. Len(out) + 1 >= a - 1
      BY <2>1, <3>6
    <3>8. \A l \in At(out', "link", kind, n) : l >= a - 1
      BY <3>5, <3>6, <3>7
    <3> QED BY <2>1, <3>5, <3>6, <3>8 DEF Anchored
  <2>3. CASE ~list[e].used
    <3>1. n = Len(used_stack[kind]) + 1
      BY <1>3, <1>9, <2>3
    <3>2. \A k \in DOMAIN out : out[k].tag \in {"link", "anchor"} /\ out[k].kind = kind => out[k].number # n
      <4>1. ~(n \in 1..Len(used_stack[kind]))
        BY <1>3, <3>1
      <4> QED BY <4>1 DEF XInv, OutKnown, Known
    <3>3. At(out, "link", kind, n) = {} /\ At(out, "anchor", kind, n) = {}
      BY <3>2 DEF At
    <3>4. out' = Append(Append(out, Written("link", kind, n)), Written("anchor", kind, n))
      BY <1>4, <1>8, <2>3
    <3>5. /\ At(out', "link", kind, n) = At(out, "link", kind, n) \cup {Len(out) + 1}
          /\ At(out', "anchor", kind, n) = At(out, "anchor", kind, n) \cup {Len(out) + 2}
          /\ Len(out) + 2 \in DOMAIN out'
      <4>1. out' = Append(Append(out, Written("link", kind, n)), Written("anchor", kind, n)) =>
                /\ At(out', "link", kind, n) = At(out, "link", kind, n) \cup {Len(out) + 1}
                /\ At(out', "anchor", kind, n) = At(out, "anchor", kind, n) \cup {Len(out) + 2}
                /\ Len(out) + 2 \in DOMAIN out'
        <5>1. out \in Seq(Output) /\ kind \in Kinds /\ n \in Nat /\ out' \in Linked(out, kind, n)
          BY <1>3, <1>5
        <5> HIDE DEF link, anchor
        <5> QED BY <5>1, LinkWritten, Zenon
      <4> QED BY <3>4, <4>1
    <3>6. At(out', "link", kind, n) = {Len(out) + 1} /\ At(out', "anchor", kind, n) = {Len(out) + 2}
      BY <3>3, <3>5
    <3>7. Len(out) + 1 >= Len(out) + 2 - 1
      BY <2>1
    <3> QED BY <3>5, <3>6, <3>7 DEF Anchored
  <2> QED BY <2>2, <2>3
<1>11. ASSUME ~defs'[e].used PROVE AwaitsUse(Citing, todo', e)
  <2>1. inside # <<>> /\ doc.refs[r].how = "locator" /\ inside = doc.refs[r].inside /\ todo' = After(todo, inside, e)
    BY <1>4, <1>8, <1>11
  <2> DEFINE b == Len(inside)
             new == After(todo, inside, e)
  <2>2. /\ b \in Nat /\ DOMAIN inside = 1..b
        /\ \A k \in 1..b : new[k] = Ref(inside[k])
        /\ new[b + 1] = Item("used", e)
        /\ b + 1 \in DOMAIN new
    <3> DEFINE u == IF inside = <<>> THEN 0 ELSE 1
               q == Len(todo) - 1
    <3>1. /\ todo # <<>> /\ todo \in Seq(Items) /\ doc \in Documents
          /\ inside \in Seq(DOMAIN doc.refs) /\ e \in Nat
      BY <1>1, <1>5
    <3>2. /\ b \in Nat /\ q \in Nat /\ DOMAIN inside = 1..b /\ DOMAIN new = 1..(b + u + q)
          /\ \A k \in 1..b : new[k] = Ref(inside[k])
          /\ inside # <<>> => new[b + 1] = Item("used", e)
      BY <3>1, LocatorFirst, ZenonT(60)
    <3>3. u = 1
      BY <2>1
    <3> HIDE DEF u, q, b, new
    <3>4. b + 1 \in DOMAIN new
      BY <3>2, <3>3
    <3> QED BY <2>1, <3>2, <3>4
  <2> HIDE DEF b, new
  <2>3. ASSUME NEW j \in 1..b PROVE e \notin Citing[new[j].of]
    <3>1. new[j].of = inside[j] /\ j \in DOMAIN doc.refs[r].inside /\ inside[j] = doc.refs[r].inside[j]
      <4>1. new[j] = Ref(inside[j]) /\ j \in DOMAIN inside
        BY <2>2
      <4>2. new[j].of = inside[j]
        BY <4>1 DEF Ref, Item
      <4> QED BY <2>1, <4>1, <4>2
    <3>2. /\ inside[j] \in DOMAIN doc.refs /\ Citing[inside[j]] = Cites(inside[j])
          /\ Cites(inside[j]) \subseteq DOMAIN doc.defs \cup {0}
      <4>1. inside[j] \in DOMAIN doc.refs
        BY <1>1, <1>5, <2>1, <3>1, LocatorCites
      <4> QED BY <1>5, <4>1, LocatorCites
    <3>3. e \notin Cites(inside[j])
      <4>1. CASE e \notin DOMAIN defs
        BY <1>5, <3>2, <4>1
      <4>2. CASE e = Target(r) /\ ~defs'[e].is_inline
        <5>1. ~InOwnLocator(e)
          <6>1. InOwnLocator(e)' <=> InOwnLocator(e)
            BY <1>3 DEF InOwnLocator, Target, Cites, Within, Closed
          <6> QED BY <1>6, <4>2, <6>1
        <5> QED BY <1>1, <2>1, <3>1, <4>2, <5>1 DEF InOwnLocator
      <4> QED BY <1>7, <4>1, <4>2
    <3> QED BY <3>1, <3>2, <3>3
  <2> DEFINE m == b + 1
  <2>5. m \in DOMAIN new /\ new[m] = Item("used", e)
        /\ \A j \in 1..(m - 1) : new[j].what = "ref" => e \notin Citing[new[j].of]
    <3>1. \A j \in 1..(m - 1) : j \in 1..b
      BY <2>2
    <3> QED BY <2>2, <2>3, <3>1
  <2> HIDE DEF m
  <2>6. AwaitsUse(Citing, new, e)
    BY <2>5 DEF AwaitsUse
  <2> QED BY <2>1, <2>6 DEF new
<1> QED BY <1>3, <1>10, <1>11

\* A reference keeps all of it.
LEMMA ReferenceExport ==
    ASSUME IInv, XInv, ReferToDefined \/ ReferInline
    PROVE  XInv'
<1>1. PICK list, inside, e : Source(list, e, inside) /\ Effect(list, e, inside)
  BY ReferenceStep
<1>2. OutKnown' /\ SectionsSoFar'
  BY ReferenceSections DEF XInv
<1>3. Placed' /\ LabelFirst'
  BY ReferenceItems DEF XInv
<1>4. ReturnsSoFar'
  BY ReferenceReturns
<1>5. AnchorsSoFar'
  <2>1. DOMAIN defs' = DOMAIN list /\ doc' = doc
    BY <1>1 DEF Effect, Renumbers
  <2>2. Citing' = Citing
    BY <2>1, CitingStays
  <2>3. ASSUME NEW x \in DOMAIN list, defs'[x].index # 0, Simple(x)'
        PROVE  /\ Anchored(out', defs'[x].kind, defs'[x].index)
               /\ defs'[x].used \/ AwaitsUse(Citing, todo', x)
    <3>1. CASE x = e
      BY <1>1, <2>3, <3>1, OwnAnchor
    <3>2. CASE x # e
      BY <1>1, <2>3, <3>2, OtherAnchors
    <3> QED BY <3>1, <3>2
  <2> QED BY <2>1, <2>2, <2>3 DEF AnchorsSoFar
<1> QED BY <1>2, <1>3, <1>4, <1>5 DEF XInv
-----------------------------------------------------------------------------
\* At first nothing is written.
LEMMA InitExport == Init => XInv
<1> SUFFICES ASSUME Init PROVE XInv
  OBVIOUS
<1>1. /\ out = <<>> /\ section = 0 /\ i = 0 /\ in_endnote = FALSE /\ todo = Refs(doc.body)
      /\ used_stack = [k \in Kinds |-> <<>>] /\ doc \in Documents
      /\ defs = [e \in DOMAIN doc.defs |-> Def(doc.defs[e].kind, e, FALSE)]
  BY DEF Init
<1>2. DOMAIN out = {}
  BY <1>1
<1>3. OutKnown
  BY <1>2 DEF OutKnown, Known
<1>4. SectionsSoFar
  <2>1. \A kind : EntriesIn(out, kind) = {} /\ NotEnded(out, kind)
    BY <1>2 DEF EntriesIn, NotEnded
  <2>2. \A kind : Listed(out, kind, 0)
    <3>1. IsFiniteSet({}) /\ Cardinality({}) = 0
      BY FS_EmptySet
    <3> QED BY <2>1, <3>1 DEF Listed
  <2>3. \A kind \in Kinds : Turn[kind] > 0
    BY DEF Turn, Kinds
  <2>4. \A kind \in Kinds : Turn[kind] # 0 /\ ~(Turn[kind] < 0)
    BY DEF Turn, Kinds
  <2> QED BY <1>1, <2>1, <2>2, <2>3, <2>4 DEF SectionsSoFar, SectionsIn
<1>5. LastParas(todo, 0) /\ \A k \in DOMAIN todo : todo[k].what = "ref"
  <2>1. doc.body \in Seq(DOMAIN doc.refs)
    BY <1>1, DocumentFacts
  <2> QED BY <1>1, <2>1, OnlyRefs
<1>6. ReturnsSoFar
  <2>1. \A kind \in Kinds : DOMAIN used_stack[kind] = {}
    BY <1>1
  <2> QED BY <1>1, <1>5, <2>1 DEF ReturnsSoFar
<1>7. LabelFirst
  BY <1>5 DEF LabelFirst
<1>8. Placed /\ AnchorsSoFar
  <2>1. DOMAIN defs = DOMAIN doc.defs
    BY <1>1
  <2>2. \A e \in DOMAIN defs : ~defs[e].is_inline /\ defs[e].of = e /\ ~defs[e].used /\ defs[e].index = 0
    BY <1>1 DEF Def
  <2> QED BY <2>1, <2>2 DEF Placed, AnchorsSoFar
<1> QED BY <1>3, <1>4, <1>6, <1>7, <1>8 DEF XInv

\* Every step keeps what is known of the export.
LEMMA NextExport == IInv /\ XInv /\ [Next]_vars => XInv'
<1> SUFFICES ASSUME IInv, XInv, [Next]_vars PROVE XInv'
  OBVIOUS
<1>1. CASE ReferToDefined \/ ReferInline
  BY <1>1, ReferenceExport
<1>2. CASE MarkUsed
  BY <1>2, MarkUsedExport
<1>3. CASE Label
  BY <1>3, LabelExport
<1>4. CASE EndPara
  BY <1>4, EndParaExport
<1>5. CASE BeginEntry
  BY <1>5, BeginEntryExport
<1>6. CASE EndEntry
  BY <1>6, EndEntryExport
<1>7. CASE NextSection
  BY <1>7, NextSectionExport
<1>8. CASE UNCHANGED vars
  <2>1. /\ doc' = doc /\ defs' = defs /\ used_stack' = used_stack /\ todo' = todo
        /\ section' = section /\ i' = i /\ in_endnote' = in_endnote
        /\ skip_endnote_label' = skip_endnote_label /\ endnote_return' = endnote_return
        /\ endnote_return_para_counter' = endnote_return_para_counter /\ out' = out
    BY <1>8 DEF vars
  <2>2. Kind' = Kind /\ Entry' = Entry
    BY <2>1 DEF Kind, Entry
  <2>3. Ways' = Ways
    BY <2>1 DEF Ways, HasWay, TopParas
  <2>4. Citing' = Citing
    BY <2>1, CitingStays
  <2>5. OutKnown' /\ SectionsSoFar'
    BY <2>1, <2>2 DEF XInv, OutKnown, SectionsSoFar
  <2>6. \A kind, n : Returned(kind, n)' <=> Returned(kind, n)
    BY <2>1, <2>3 DEF Returned
  <2>7. Returning' <=> Returning
    BY <2>1, <2>2, <2>3 DEF Returning
  <2>8. ReturnsSoFar'
    BY <2>1, <2>2, <2>6, <2>7 DEF XInv, ReturnsSoFar
  <2>9. Placed' /\ LabelFirst'
    BY <2>1 DEF XInv, Placed, LabelFirst
  <2>10. \A e : Simple(e)' <=> Simple(e)
    BY <2>1 DEF Simple, NotedUncited, InOwnLocator, Target, Cites, Within, Closed
  <2>11. AnchorsSoFar'
    BY <2>1, <2>4, <2>10 DEF XInv, AnchorsSoFar
  <2> QED BY <2>5, <2>8, <2>9, <2>11 DEF XInv
<1> QED BY <1>1, <1>2, <1>3, <1>4, <1>5, <1>6, <1>7, <1>8 DEF Next

\* Both hold in every state of every behaviour.
LEMMA ExportInvariance == Spec => [](IInv /\ XInv)
<1>1. Init => IInv /\ XInv
  BY InitEstablishesInvariant, InitExport
<1>2. IInv /\ XInv /\ [Next]_vars => (IInv /\ XInv)'
  BY NextKeepsInvariant, NextExport
<1> QED BY <1>1, <1>2, PTL DEF Spec

\* When the export is done every section has ended, with its entries.
LEMMA SectionsEnded ==
    ASSUME XInv, Done, NEW kind \in Kinds
    PROVE  \E n \in 0..Len(out), p \in DOMAIN out :
               Listed(out, kind, n) /\ EndedAt(out, kind, p) /\ LinksUpTo(out, kind, p, n)
<1>1. Turn[kind] < section
  BY DEF Turn, Kinds, Done
<1> QED BY <1>1 DEF XInv, SectionsSoFar, SectionsIn

\* Each section has an entry for every note that was referred to when it ended,
\* one each and in the order of their numbers, in every document.
THEOREM SectionsAreComplete == Spec => []SectionsComplete
<1>1. IInv /\ XInv => SectionsComplete
  <2> SUFFICES ASSUME IInv, XInv, Done, NEW kind \in Kinds
               PROVE  /\ \A k \in Entries(kind) : out[k].number = Cardinality({l \in Entries(kind) : l <= k})
                      /\ \A k \in 1..EndOf(kind) :
                             out[k].tag = "link" /\ out[k].kind = kind => out[k].number <= Cardinality(Entries(kind))
    BY DEF SectionsComplete
  <2>1. PICK n \in 0..Len(out), p \in DOMAIN out :
            Listed(out, kind, n) /\ EndedAt(out, kind, p) /\ LinksUpTo(out, kind, p, n)
    BY SectionsEnded
  <2>2. Entries(kind) = EntriesIn(out, kind)
    BY DEF Entries, EntriesIn
  <2>3. EndOf(kind) = p
    BY <2>1 DEF EndOf, EndedAt
  <2> QED BY <2>1, <2>2, <2>3 DEF Listed, LinksUpTo
<1> QED BY <1>1, ExportInvariance, PTL

\* No entry has two ways back, each has one whose paragraphs are all written, and
\* the link where it leads has the anchor, in every document, for all notes but
\* those that the exceptions name.
THEOREM WaysLeadBack == Spec => []WaysBack
<1>1. IInv /\ XInv => WaysBack
  <2> SUFFICES ASSUME IInv, XInv, Done, NEW kind \in Kinds, NEW k \in DOMAIN used_stack[kind],
                      NEW e, e = used_stack[kind][k]
               PROVE  /\ Count("return", kind, k) <= Count("entry", kind, k)
                      /\ defs[e].is_inline \/ HasWay(defs[e].of) =>
                             Count("return", kind, k) = Count("entry", kind, k)
                      /\ ~NotedUncited(e) /\ (defs[e].is_inline \/ ~InOwnLocator(e)) =>
                             /\ Count("anchor", kind, k) = 1
                             /\ \A a \in Places("anchor", kind, k), l \in Places("link", kind, k) : l >= a - 1
    BY DEF WaysBack
  <2>1. ~in_endnote /\ todo = <<>>
    <3>1. ~in_endnote
      BY DEF IInv, Resolves, Done
    <3> QED BY <3>1 DEF XInv, ReturnsSoFar, Done
  <2>2. Returned(kind, k)
    BY <2>1 DEF XInv, ReturnsSoFar
  <2>3. e \in DOMAIN defs /\ defs[e].kind = kind /\ defs[e].index = k
    BY DEF IInv, NumbersArePlaces, Numbered
  <2>4. \A tag : Places(tag, kind, k) = At(out, tag, kind, k)
    BY DEF Places, At
  <2>5. \A p : Cardinality({p}) = 1
    BY FS_Singleton
  <2>6. Cardinality({}) = 0
    BY FS_EmptySet
  <2>7. At(out, "entry", kind, k) = {} \/ \E p : At(out, "entry", kind, k) = {p}
    <3>1. PICK n \in 0..Len(out), p \in DOMAIN out :
              Listed(out, kind, n) /\ EndedAt(out, kind, p) /\ LinksUpTo(out, kind, p, n)
      BY SectionsEnded
    <3>2. CASE k \in 1..n
      BY <3>1, <3>2 DEF Listed
    <3>3. CASE k \notin 1..n
      <4>1. \A l \in EntriesIn(out, kind) : out[l].number # k
        BY <3>1, <3>3 DEF Listed
      <4> QED BY <4>1 DEF At, EntriesIn
    <3> QED BY <3>2, <3>3
  <2>8. \/ Count("return", kind, k) = 0 /\ Count("entry", kind, k) = 0
        \/ Count("return", kind, k) = 1 /\ Count("entry", kind, k) = 1
        \/ /\ Count("return", kind, k) = 0 /\ Count("entry", kind, k) \in {0, 1}
           /\ ~defs[e].is_inline /\ ~HasWay(defs[e].of)
    <3>1. CASE At(out, "return", kind, k) = {} /\ At(out, "entry", kind, k) = {}
      <4>1. Places("return", kind, k) = {} /\ Places("entry", kind, k) = {}
        BY <2>4, <3>1
      <4>2. Count("return", kind, k) = 0 /\ Count("entry", kind, k) = 0
        BY <2>6, <4>1 DEF Count
      <4> QED BY <4>2
    <3>2. CASE (\E p \in DOMAIN out : At(out, "return", kind, k) = {p}) /\ At(out, "entry", kind, k) # {}
      BY <2>4, <2>5, <2>7, <3>2 DEF Count
    <3>3. CASE At(out, "return", kind, k) = {} /\ ~defs[e].is_inline /\ ~Ways[defs[e].of]
      <4>1. defs[e].of \in DOMAIN doc.defs
        BY <2>3, <3>3 DEF IInv, Resolves, Based
      <4>2. Ways[defs[e].of] = HasWay(defs[e].of)
        BY <4>1 DEF Ways
      <4>3. Count("return", kind, k) = 0
        BY <2>4, <2>6, <3>3 DEF Count
      <4>4. Count("entry", kind, k) \in {0, 1}
        BY <2>4, <2>5, <2>6, <2>7 DEF Count
      <4> QED BY <3>3, <4>2, <4>3, <4>4
    <3> QED BY <2>2, <3>1, <3>2, <3>3 DEF Returned
  <2>9. ASSUME ~NotedUncited(e), defs[e].is_inline \/ ~InOwnLocator(e)
        PROVE  /\ Count("anchor", kind, k) = 1
               /\ \A a \in Places("anchor", kind, k), l \in Places("link", kind, k) : l >= a - 1
    <3>1. k # 0
      BY LenProperties DEF IInv, TypeOK, Stacks
    <3>2. Anchored(out, kind, k)
      BY <2>3, <2>9, <3>1 DEF XInv, AnchorsSoFar, Simple
    <3> QED BY <2>4, <2>5, <3>2 DEF Anchored, Count
  <2> QED BY <2>8, <2>9
<1> QED BY <1>1, ExportInvariance, PTL
=============================================================================
