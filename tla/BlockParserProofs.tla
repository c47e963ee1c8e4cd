------------------------- MODULE BlockParserProofs -------------------------
(***************************************************************************)
(* For all documents: the parser's variables have their types, every line  *)
(* that was read is in one block unless it belongs to a note that could    *)
(* not be read, every step is one of a LineReader, or none, and the flags  *)
(* say what the parser is inside of; the tree has the shape it should, all *)
(* text is tokenized and the stripped markers are hidden.                  *)
(*                                                                         *)
(* The inductive invariant says which lines the activations of blocks()    *)
(* are responsible for: an inner one has lines before the one at which its *)
(* caller goes on, and what lies between is empty and not yet placed.  The *)
(* second part, on the flags, adds where the lists are that the            *)
(* activations read.  The third part is on the tree: what a block is below *)
(* and what is below a tight item, and what the tokenizer was shown of     *)
(* each line when doc() returns.                                           *)
(***************************************************************************)
EXTENDS BlockParser, TLAPS, SequenceTheorems, FiniteSetTheorems

TreeNode == [type : Nodes, depth : Nat, lines : SUBSET (1..N), tokens : {"none", "tokens", "exposed"}]
Parts == {"blocks", "bullet", "enum", "deflist", "raw deflist", "table"}
FrameType == [kind : Kinds, l : 1..(N + 1), stop : 1..N, depth : Nat, within : Parts, node : Nat]

Types ==
    /\ lines \in Documents
    /\ type \in [1..N -> LineTypes] /\ stripped \in [1..N -> Nat]
    /\ tree \in Seq(TreeNode) /\ frames \in Seq(FrameType)
    /\ dropped \subseteq 1..N
    /\ allow_meta \in BOOLEAN /\ is_definition \in Int

\* A line has the markers that are stripped from it, and begins with its type
MarkersLeft ==
    \A i \in 1..N : /\ stripped[i] < Len(lines[i])
                    /\ type[i] \in Markers => type[i] = lines[i][stripped[i] + 1]

\* An activation has lines that are before the one at which its caller goes on
Nested ==
    /\ \A d \in DOMAIN frames : frames[d].l <= frames[d].stop + 1 /\ frames[d].node <= Len(tree)
    /\ \A d \in DOMAIN frames : d > 1 => /\ frames[d].stop < frames[d - 1].l
                                         /\ frames[d - 1].within # "table"
    /\ frames # <<>> => frames[1].stop = N

\* The first activation is that of doc(), and only the others have a parent
Rooted ==
    \A d \in DOMAIN frames : /\ frames[d].kind = "doc" <=> d = 1
                             /\ d > 1 => frames[d].depth > 0

\* A section of a table comes next
InTable ==
    frames # <<>> /\ Top.within = "table" =>
        Top.node # 0 /\ l <= stop /\ type[l] \in accept_table_line

\* At most one activation is in a note, and is_endnote says if one is
OneNote ==
    /\ is_endnote \in {0, 1}
    /\ \A d, e \in DOMAIN frames : frames[d].kind = "note" /\ frames[e].kind = "note" => d = e
    /\ is_endnote = 1 <=> \E d \in DOMAIN frames : frames[d].kind = "note"

Bounded == Depth <= 1 + Cardinality(StrippedMarkers)

\* A line is in a block of a tree, and in no other
Holds(t, i) == \E m \in DOMAIN t : i \in t[m].lines
Single(t) == \A m, n \in DOMAIN t : m # n => t[m].lines \cap t[n].lines = {}

PlacedOnce ==
    /\ Single(tree)
    /\ \A i \in dropped : ~Holds(tree, i)
    /\ \A i \in 1..N : i \in dropped \/ Holds(tree, i) <=> frames = <<>> \/ i < l

IInv == Types /\ MarkersLeft /\ Nested /\ Rooted /\ InTable /\ OneNote /\ Bounded /\ PlacedOnce
        /\ OnlyUnreadableNotesAreLost

\* What a step does to the places of the lines: none is unread again, and if
\* none is read all stay where they are.
Forward ==
    /\ lines' = lines /\ dropped \subseteq dropped'
    /\ \A i \in 1..N : Holds(tree, i) => Holds(tree', i) \/ i \in dropped'
    /\ \/ frames # <<>> /\ frames' # <<>> /\ l' > l
       \/ dropped' = dropped /\ \A i \in 1..N : Holds(tree', i) <=> Holds(tree, i)
-----------------------------------------------------------------------------
\* What DocumentsAssumption says of a document.
LEMMA DocumentFacts ==
    ASSUME lines \in Documents
    PROVE  /\ N \in Nat /\ N >= 1
           /\ \A i \in 1..N : /\ Len(lines[i]) \in Nat /\ Len(lines[i]) >= 1
                              /\ \A k \in 1..Len(lines[i]) : lines[i][k] \in Markers \cup Contents
                              /\ lines[i][Len(lines[i])] \in Contents
<1>1. /\ lines \in Seq(Seq(Markers \cup Contents)) /\ lines # <<>>
      /\ \A i \in 1..Len(lines) : lines[i] # <<>> /\ lines[i][Len(lines[i])] \in Contents
  BY DocumentsAssumption
<1>2. N \in Nat /\ N >= 1
  BY <1>1, LenProperties, EmptySeq DEF N
<1>3. ASSUME NEW i \in 1..N
      PROVE  /\ Len(lines[i]) \in Nat /\ Len(lines[i]) >= 1
             /\ \A k \in 1..Len(lines[i]) : lines[i][k] \in Markers \cup Contents
             /\ lines[i][Len(lines[i])] \in Contents
  <2>1. lines[i] \in Seq(Markers \cup Contents) /\ lines[i] # <<>> /\ lines[i][Len(lines[i])] \in Contents
    <3>1. i \in 1..Len(lines)
      BY DEF N
    <3> QED BY <1>1, <3>1, ElementOfSeq
  <2>2. Len(lines[i]) \in Nat /\ Len(lines[i]) # 0
    BY <2>1, LenProperties, EmptySeq
  <2>3. \A k \in 1..Len(lines[i]) : lines[i][k] \in Markers \cup Contents
    BY <2>1, ElementOfSeq
  <2> QED BY <2>1, <2>2, <2>3
<1> QED BY <1>2, <1>3

\* A marker is not what stands behind the markers.
LEMMA MarkersAreNotContents == Markers \cap Contents = {}
BY DEF Markers, Contents

\* Two parts of a tree, put one after the other.
LEMMA ConcatPlaces ==
    ASSUME NEW S, NEW t \in Seq(S), NEW u \in Seq(S), Single(t), Single(u),
           \A i : ~(Holds(t, i) /\ Holds(u, i))
    PROVE  /\ t \o u \in Seq(S) /\ Len(t \o u) = Len(t) + Len(u)
           /\ Single(t \o u) /\ \A i : Holds(t \o u, i) <=> Holds(t, i) \/ Holds(u, i)
<1> DEFINE a == Len(t)
           b == Len(u)
           c == t \o u
<1>1. a \in Nat /\ b \in Nat /\ DOMAIN t = 1..a /\ DOMAIN u = 1..b
  BY LenProperties
<1>2. /\ c \in Seq(S) /\ Len(c) = a + b
      /\ \A m \in 1..a : c[m] = t[m]
      /\ \A m \in 1..b : c[a + m] = u[m]
  BY <1>1, ConcatProperties
<1>3. DOMAIN c = 1..(a + b)
  BY <1>2, LenProperties
<1> HIDE DEF a, b, c
<1>4. ASSUME NEW m \in DOMAIN c
      PROVE  (m \in 1..a /\ c[m] = t[m]) \/ (m > a /\ m - a \in 1..b /\ c[m] = u[m - a])
  <2>1. CASE m <= a
    BY <1>1, <1>2, <1>3, <2>1
  <2>2. CASE m > a
    <3>1. m - a \in 1..b /\ a + (m - a) = m
      BY <1>1, <1>3, <2>2
    <3>2. c[a + (m - a)] = u[m - a]
      BY <1>2, <3>1
    <3> QED BY <2>2, <3>1, <3>2
  <2> QED BY <1>1, <1>3, <2>1, <2>2
<1>5. Single(c)
  <2> SUFFICES ASSUME NEW m \in DOMAIN c, NEW n \in DOMAIN c, m # n
               PROVE  c[m].lines \cap c[n].lines = {}
    BY DEF Single
  <2>1. CASE m \in 1..a /\ c[m] = t[m] /\ n \in 1..a /\ c[n] = t[n]
    BY <1>1, <2>1 DEF Single
  <2>2. CASE m - a \in 1..b /\ c[m] = u[m - a] /\ n - a \in 1..b /\ c[n] = u[n - a]
    <3>1. m - a # n - a
      BY <1>1, <1>3
    <3> QED BY <1>1, <2>2, <3>1 DEF Single
  <2>3. CASE m \in 1..a /\ c[m] = t[m] /\ n - a \in 1..b /\ c[n] = u[n - a]
    BY <1>1, <2>3 DEF Holds
  <2>4. CASE m - a \in 1..b /\ c[m] = u[m - a] /\ n \in 1..a /\ c[n] = t[n]
    BY <1>1, <2>4 DEF Holds
  <2> QED BY <1>4, <2>1, <2>2, <2>3, <2>4
<1>6. ASSUME NEW i PROVE Holds(c, i) <=> Holds(t, i) \/ Holds(u, i)
  <2>1. ASSUME Holds(c, i) PROVE Holds(t, i) \/ Holds(u, i)
    <3>1. PICK m \in DOMAIN c : i \in c[m].lines
      BY <2>1 DEF Holds
    <3> QED BY <1>1, <1>4, <3>1 DEF Holds
  <2>2. ASSUME Holds(t, i) PROVE Holds(c, i)
    <3>1. PICK m \in 1..a : i \in t[m].lines
      BY <1>1, <2>2 DEF Holds
    <3>2. m \in DOMAIN c
      BY <1>1, <1>3, <3>1
    <3> QED BY <1>2, <3>1, <3>2 DEF Holds
  <2>3. ASSUME Holds(u, i) PROVE Holds(c, i)
    <3>1. PICK m \in 1..b : i \in u[m].lines
      BY <1>1, <2>3 DEF Holds
    <3>2. a + m \in DOMAIN c
      BY <1>1, <1>3, <3>1
    <3> QED BY <1>2, <3>1, <3>2 DEF Holds
  <2> QED BY <2>1, <2>2, <2>3
<1> QED BY <1>2, <1>5, <1>6 DEF a, b, c

\* A block on its own.
LEMMA NodePlaces ==
    ASSUME NEW S, NEW x \in S
    PROVE  /\ <<x>> \in Seq(S) /\ Len(<<x>>) = 1 /\ Single(<<x>>)
           /\ \A i : Holds(<<x>>, i) <=> i \in x.lines
<1>1. <<x>> \in Seq(S) /\ Len(<<x>>) = 1 /\ DOMAIN <<x>> = 1..1 /\ <<x>>[1] = x
  OBVIOUS
<1> QED BY <1>1 DEF Single, Holds

\* No block at all.
LEMMA NonePlaced ==
    ASSUME NEW S
    PROVE  /\ <<>> \in Seq(S) /\ Len(<<>>) = 0 /\ Single(<<>>)
           /\ \A i : ~Holds(<<>>, i)
BY DEF Single, Holds

\* The block of the empty lines first..(next - 1).
LEMMA EmptiesPlace ==
    ASSUME lines \in Documents, NEW first \in 1..(N + 1), NEW next \in 1..(N + 1), first <= next,
           NEW depth \in Nat
    PROVE  LET e == Empties(first, next, depth)
           IN  /\ e \in Seq(TreeNode) /\ Single(e)
               /\ \A i : Holds(e, i) <=> i \in first..(next - 1)
<1> DEFINE e == Empties(first, next, depth)
           x == Node("empty", depth, first..(next - 1), "none")
<1>1. N \in Nat
  BY DocumentFacts
<1>2. CASE first = next
  <2>1. e = <<>>
    BY <1>2 DEF Empties
  <2>2. \A i : i \notin first..(next - 1)
    BY <1>1, <1>2
  <2> QED BY <2>1, <2>2, NonePlaced
<1>3. CASE first # next
  <2>1. e = <<x>>
    BY <1>3 DEF Empties
  <2>2. x \in TreeNode /\ x.lines = first..(next - 1)
    <3>1. first..(next - 1) \subseteq 1..N
      BY <1>1
    <3> QED BY <3>1 DEF Node, TreeNode, Nodes, Blocks
  <2> HIDE DEF x
  <2> QED BY <2>1, <2>2, NodePlaces
<1> QED BY <1>2, <1>3

\* The activation that runs.
LEMMA TopFacts ==
    ASSUME Types, frames # <<>>
    PROVE  /\ Depth \in Nat /\ Depth >= 1 /\ DOMAIN frames = 1..Depth /\ Depth \in 1..Depth
           /\ \A d \in 1..Depth : frames[d] \in FrameType
           /\ Top \in FrameType /\ Top = frames[Depth]
           /\ l \in 1..(N + 1) /\ stop \in 1..N /\ l = Top.l /\ stop = Top.stop
           /\ N \in Nat /\ N >= 1
<1>1. frames \in Seq(FrameType) /\ N \in Nat /\ N >= 1
  BY DocumentFacts DEF Types
<1>2. Depth \in Nat /\ Depth # 0 /\ DOMAIN frames = 1..Depth
  BY <1>1, LenProperties, EmptySeq DEF Depth
<1>3. Depth >= 1 /\ Depth \in 1..Depth
  BY <1>2
<1>4. \A d \in 1..Depth : frames[d] \in FrameType
  BY <1>1, ElementOfSeq DEF Depth
<1>5. Top = frames[Depth] /\ l = Top.l /\ stop = Top.stop
  BY DEF Top, l, stop
<1>6. Top \in FrameType
  BY <1>3, <1>4, <1>5
<1> QED BY <1>1, <1>2, <1>3, <1>4, <1>5, <1>6 DEF FrameType

LEMMA InitOK == Init => IInv
<1> SUFFICES ASSUME Init PROVE IInv
  OBVIOUS
<1> DEFINE f == Frame("doc", 1, N, 0)
<1>1. lines \in Documents /\ N \in Nat /\ N >= 1
  BY DocumentFacts DEF Init
<1>2. \A i \in 1..N : /\ Len(lines[i]) >= 1 /\ Len(lines[i]) \in Nat
                      /\ lines[i][1] \in Markers \cup Contents
  BY <1>1, DocumentFacts
<1>3. type = [i \in 1..N |-> IF i = 1 /\ lines[1][1] = "setext2" THEN "yaml" ELSE lines[i][1]]
      /\ stripped = [i \in 1..N |-> 0]
  BY DEF Init
<1>4. f \in FrameType /\ f.l = 1 /\ f.stop = N /\ f.kind = "doc" /\ f.within = "blocks" /\ f.node = 0
  BY <1>1 DEF Frame, FrameType, Kinds, Parts
<1>5. frames = <<f>> /\ tree = <<>> /\ dropped = {}
  BY DEF Init
<1> HIDE DEF f
<1>6. DOMAIN frames = 1..1 /\ frames[1] = f /\ Depth = 1 /\ frames # <<>>
  BY <1>5 DEF Depth
<1>7. Top = f /\ l = 1
  BY <1>4, <1>6 DEF Top, l
<1>8. Types
  <2>1. frames \in Seq(FrameType) /\ tree \in Seq(TreeNode)
    BY <1>4, <1>5
  <2>2. type \in [1..N -> LineTypes]
    BY <1>2, <1>3 DEF LineTypes
  <2>3. stripped \in [1..N -> Nat]
    BY <1>3
  <2>4. dropped \subseteq 1..N
    BY <1>5
  <2>5. allow_meta \in BOOLEAN /\ is_definition \in Int
    BY DEF Init
  <2> QED BY <1>1, <2>1, <2>2, <2>3, <2>4, <2>5 DEF Types
<1>9. MarkersLeft
  <2> SUFFICES ASSUME NEW i \in 1..N
               PROVE  /\ stripped[i] < Len(lines[i])
                      /\ type[i] \in Markers => type[i] = lines[i][stripped[i] + 1]
    BY DEF MarkersLeft
  <2>1. stripped[i] = 0 /\ (type[i] = "yaml" \/ type[i] = lines[i][1])
    BY <1>3
  <2>2. "yaml" \notin Markers
    BY DEF Markers
  <2> QED BY <1>2, <2>1, <2>2
<1>10. Nested /\ Rooted /\ InTable
  BY <1>1, <1>4, <1>5, <1>6, <1>7 DEF Nested, Rooted, InTable
<1>11. OneNote
  <2>1. is_endnote = 0
    BY DEF Init
  <2> QED BY <1>4, <1>6, <2>1 DEF OneNote
<1>12. Bounded
  <2>1. StrippedMarkers = {}
    BY <1>1, <1>3 DEF StrippedMarkers
  <2> QED BY <1>6, <2>1, FS_EmptySet DEF Bounded
<1>13. PlacedOnce
  <2>1. Single(tree) /\ \A i : ~Holds(tree, i)
    BY <1>5, NonePlaced
  <2> QED BY <1>5, <1>6, <1>7, <2>1 DEF PlacedOnce
<1>14. OnlyUnreadableNotesAreLost
  BY <1>5 DEF OnlyUnreadableNotesAreLost
<1> QED BY <1>8, <1>9, <1>10, <1>11, <1>12, <1>13, <1>14 DEF IInv
-----------------------------------------------------------------------------
\* The activation that runs goes on with another state f.
LEMMA TopReplaced ==
    ASSUME Types, Nested, frames # <<>>, lines' = lines, NEW f \in FrameType,
           frames' = [frames EXCEPT ![Depth] = f]
    PROVE  /\ frames' \in Seq(FrameType) /\ frames' # <<>> /\ Depth' = Depth
           /\ DOMAIN frames' = 1..Depth /\ frames'[Depth] = f
           /\ \A d \in 1..Depth : d # Depth => frames'[d] = frames[d]
           /\ Top' = f /\ l' = f.l /\ stop' = f.stop /\ FrameType' = FrameType
<1>1. frames \in Seq(FrameType) /\ Depth \in Nat /\ Depth \in 1..Depth /\ DOMAIN frames = 1..Depth
  BY TopFacts DEF Types
<1>2. frames' \in Seq(FrameType) /\ Len(frames') = Len(frames)
  BY <1>1, ExceptSeq
<1>3. Depth' = Depth /\ DOMAIN frames' = 1..Depth
  BY <1>1, <1>2, LenProperties DEF Depth
<1>4. frames'[Depth] = f /\ \A d \in 1..Depth : d # Depth => frames'[d] = frames[d]
  BY <1>1
<1>5. frames' # <<>>
  BY <1>1, <1>3
<1>6. Top' = f
  BY <1>3, <1>4 DEF Top
<1>7. l' = f.l /\ stop' = f.stop
  BY <1>6 DEF l, stop
<1>8. FrameType' = FrameType
  BY DEF FrameType, N
<1> QED BY <1>2, <1>3, <1>4, <1>5, <1>6, <1>7, <1>8

\* The activation that runs goes on with state f, and lines that it has read are
\* in blocks or are dropped.  This is all that block() does but to call blocks().
LEMMA GoOnOK ==
    ASSUME IInv, frames # <<>>, NEW f \in FrameType, frames' = [frames EXCEPT ![Depth] = f],
           l <= f.l, f.l <= stop + 1, f.stop = stop, f.kind = Top.kind, f.depth = Top.depth,
           f.within = "table" => f.node # 0 /\ f.l <= stop /\ type'[f.l] \in accept_table_line,
           tree' \in Seq(TreeNode), Len(tree') >= Len(tree), f.node <= Len(tree'), Single(tree'),
           dropped \subseteq dropped', dropped' \subseteq 1..N,
           \A i \in dropped' : ~Holds(tree', i),
           \A i \in 1..N : i \in dropped' \/ Holds(tree', i) <=> i < f.l,
           l < f.l \/ (dropped' = dropped /\ \A i \in 1..N : Holds(tree', i) <=> Holds(tree, i)),
           \A i \in dropped' \ dropped :
               \/ type'[i] = "empty"
               \/ \E j \in 1..i : /\ j..i \subseteq dropped' /\ type'[j] = "def_note"
                                  /\ Marked({j}, Markers \ {"indented"}),
           type' \in [1..N -> LineTypes],
           \A i \in 1..N : type'[i] = type[i] \/ (l <= i /\ type'[i] \notin Markers),
           UNCHANGED <<lines, stripped, is_endnote>>,
           allow_meta' \in BOOLEAN, is_definition' \in Int
    PROVE  IInv' /\ Forward
<1>1. Types /\ MarkersLeft /\ Nested /\ Rooted /\ InTable /\ OneNote /\ Bounded /\ PlacedOnce
      /\ OnlyUnreadableNotesAreLost
  BY DEF IInv
<1>2. /\ Depth \in Nat /\ Depth >= 1 /\ DOMAIN frames = 1..Depth /\ Depth \in 1..Depth
      /\ \A d \in 1..Depth : frames[d] \in FrameType
      /\ Top \in FrameType /\ Top = frames[Depth]
      /\ l \in 1..(N + 1) /\ stop \in 1..N /\ N \in Nat /\ N >= 1
      /\ l = Top.l /\ stop = Top.stop
  BY <1>1, TopFacts, Zenon
<1>3. /\ frames' \in Seq(FrameType) /\ frames' # <<>> /\ Depth' = Depth
      /\ DOMAIN frames' = 1..Depth /\ frames'[Depth] = f
      /\ \A d \in 1..Depth : d # Depth => frames'[d] = frames[d]
      /\ Top' = f /\ l' = f.l /\ stop' = f.stop /\ FrameType' = FrameType
  BY <1>1, TopReplaced, Zenon
<1>4. N' = N /\ TreeNode' = TreeNode /\ f.l \in 1..(N + 1)
  BY DEF N, TreeNode, FrameType
<1>5. \A i \in 1..N : i \in dropped \/ Holds(tree, i) <=> i < l
  BY <1>1 DEF PlacedOnce
<1>6. tree \in Seq(TreeNode) /\ Len(tree) \in Nat /\ Len(tree') \in Nat
  BY <1>1, LenProperties DEF Types
<1>7. Types'
  BY <1>1, <1>3, <1>4 DEF Types
<1>8. MarkersLeft'
  BY <1>1, <1>4 DEF MarkersLeft
<1>9. Nested'
  <2>1. ASSUME NEW d \in 1..Depth
        PROVE  frames'[d].l <= frames'[d].stop + 1 /\ frames'[d].node <= Len(tree')
    <3>1. CASE d = Depth
      BY <1>3, <3>1
    <3>2. CASE d # Depth
      <4>1. frames'[d] = frames[d]
        BY <1>3, <3>2
      <4>2. frames[d].l <= frames[d].stop + 1 /\ frames[d].node <= Len(tree) /\ frames[d].node \in Nat
        BY <1>1, <1>2 DEF Nested, FrameType
      <4> QED BY <1>6, <4>1, <4>2
    <3> QED BY <3>1, <3>2
  <2>2. ASSUME NEW d \in 1..Depth, d > 1
        PROVE  frames'[d].stop < frames'[d - 1].l /\ frames'[d - 1].within # "table"
    <3>1. d - 1 \in 1..Depth /\ d - 1 # Depth
      BY <1>2, <2>2
    <3>2. frames'[d - 1] = frames[d - 1]
      BY <1>3, <3>1
    <3>3. frames[d].stop < frames[d - 1].l /\ frames[d - 1].within # "table"
      BY <1>1, <1>2, <2>2 DEF Nested
    <3>4. frames'[d].stop = frames[d].stop
      BY <1>2, <1>3
    <3> QED BY <3>2, <3>3, <3>4
  <2>3. frames'[1].stop = N'
    <3>1. 1 \in 1..Depth /\ frames[1].stop = N
      BY <1>1, <1>2 DEF Nested
    <3> QED BY <1>2, <1>3, <1>4, <3>1
  <2> QED BY <1>3, <2>1, <2>2, <2>3 DEF Nested
<1>10. \A d \in 1..Depth : frames'[d].kind = frames[d].kind /\ frames'[d].depth = frames[d].depth
  BY <1>2, <1>3
<1>11. Rooted'
  BY <1>1, <1>2, <1>3, <1>10 DEF Rooted
<1>12. InTable'
  BY <1>3 DEF InTable
<1>13. OneNote'
  BY <1>1, <1>2, <1>3, <1>10 DEF OneNote
<1>14. Bounded'
  <2>1. StrippedMarkers' = StrippedMarkers
    BY <1>4 DEF StrippedMarkers
  <2> QED BY <1>1, <1>3, <2>1 DEF Bounded
<1>15. PlacedOnce'
  BY <1>3, <1>4 DEF PlacedOnce
<1>16. OnlyUnreadableNotesAreLost'
  <2>1. \A i \in dropped : i < l /\ i \in 1..N
    BY <1>1, <1>5 DEF Types
  <2>2. \A i \in dropped : type'[i] = type[i]
    BY <1>2, <2>1
  <2>3. \A j : Marked({j}, Markers \ {"indented"})' <=> Marked({j}, Markers \ {"indented"})
    BY DEF Marked
  <2>4. ASSUME NEW i \in dropped, type[i] # "empty"
        PROVE  \E j \in 1..i : /\ j..i \subseteq dropped' /\ type'[j] = "def_note"
                               /\ Marked({j}, Markers \ {"indented"})'
    <3>1. PICK j \in 1..i : /\ j..i \subseteq dropped /\ type[j] = "def_note"
                            /\ Marked({j}, Markers \ {"indented"})
      BY <1>1, <2>4 DEF OnlyUnreadableNotesAreLost
    <3>2. j \in dropped
      BY <2>1, <3>1
    <3> QED BY <2>2, <2>3, <3>1, <3>2
  <2>5. ASSUME NEW i \in dropped' \ dropped, type'[i] # "empty"
        PROVE  \E j \in 1..i : /\ j..i \subseteq dropped' /\ type'[j] = "def_note"
                               /\ Marked({j}, Markers \ {"indented"})'
    BY <2>3, <2>5
  <2> QED BY <2>2, <2>4, <2>5 DEF OnlyUnreadableNotesAreLost
<1>17. Forward
  <2>1. l' > l \/ (dropped' = dropped /\ \A i \in 1..N : Holds(tree', i) <=> Holds(tree, i))
    BY <1>2, <1>3, <1>4
  <2>2. \A i \in 1..N : Holds(tree, i) => Holds(tree', i) \/ i \in dropped'
    BY <1>2, <1>4, <1>5
  <2> QED BY <1>3, <2>1, <2>2 DEF Forward
<1> QED BY <1>7, <1>8, <1>9, <1>11, <1>12, <1>13, <1>14, <1>15, <1>16, <1>17 DEF IInv

\* Blocks are appended to the tree for the lines that are read, apart from
\* those of a note that cannot be read.
LEMMA EmitOK ==
    ASSUME IInv, frames # <<>>,
           NEW f \in FrameType, NEW nodes \in Seq(TreeNode), NEW lost \in SUBSET (1..N),
           tree' = tree \o nodes, frames' = [frames EXCEPT ![Depth] = f],
           dropped' = dropped \cup lost,
           l <= f.l, f.l <= stop + 1, f.stop = stop, f.kind = Top.kind, f.depth = Top.depth,
           f.node <= Len(tree) + Len(nodes),
           f.within = "table" => f.node # 0 /\ f.l <= stop /\ type'[f.l] \in accept_table_line,
           Single(nodes),
           \A i \in 1..N : (i \in lost \/ Holds(nodes, i)) <=> (l <= i /\ i < f.l),
           \A i \in lost : ~Holds(nodes, i),
           \A i \in lost : \/ type'[i] = "empty"
                           \/ \E j \in 1..i : /\ j..i \subseteq lost /\ type'[j] = "def_note"
                                              /\ Marked({j}, Markers \ {"indented"}),
           type' \in [1..N -> LineTypes],
           \A i \in 1..N : type'[i] = type[i] \/ (l <= i /\ type'[i] \notin Markers),
           UNCHANGED <<lines, stripped, is_endnote>>,
           allow_meta' \in BOOLEAN, is_definition' \in Int
    PROVE  IInv' /\ Forward
<1>1. Types /\ MarkersLeft /\ Nested /\ Rooted /\ InTable /\ OneNote /\ Bounded /\ PlacedOnce
      /\ OnlyUnreadableNotesAreLost
  BY DEF IInv
<1>2. /\ Depth \in Nat /\ Depth >= 1 /\ DOMAIN frames = 1..Depth /\ Depth \in 1..Depth
      /\ \A d \in 1..Depth : frames[d] \in FrameType
      /\ Top \in FrameType /\ Top = frames[Depth]
      /\ l \in 1..(N + 1) /\ stop \in 1..N /\ N \in Nat /\ N >= 1
      /\ l = Top.l /\ stop = Top.stop
  BY <1>1, TopFacts, Zenon
<1>3. f.l \in 1..(N + 1)
  BY DEF FrameType
<1>4. \A i \in 1..N : i \in dropped \/ Holds(tree, i) <=> i < l
  BY <1>1 DEF PlacedOnce
<1>5. dropped \subseteq 1..N /\ tree \in Seq(TreeNode) /\ Len(tree) \in Nat /\ Len(nodes) \in Nat
  BY <1>1, LenProperties DEF Types
<1>6. \A i : Holds(nodes, i) => i \in 1..N
  <2>1. \A m \in DOMAIN nodes : nodes[m] \in TreeNode
    BY LenProperties, ElementOfSeq
  <2> QED BY <2>1 DEF Holds, TreeNode
<1>7. \A i : ~(Holds(tree, i) /\ Holds(nodes, i))
  BY <1>2, <1>4, <1>6
<1>8. /\ tree' \in Seq(TreeNode) /\ Len(tree') = Len(tree) + Len(nodes)
      /\ Single(tree') /\ \A i : Holds(tree', i) <=> Holds(tree, i) \/ Holds(nodes, i)
  BY <1>1, <1>5, <1>7, ConcatPlaces DEF PlacedOnce
<1>9. \A i \in dropped' : ~Holds(tree', i)
  <2>1. ASSUME NEW i \in dropped PROVE ~Holds(tree', i)
    BY <1>1, <1>2, <1>4, <1>5, <1>8, <2>1 DEF PlacedOnce
  <2>2. ASSUME NEW i \in lost PROVE ~Holds(tree', i)
    BY <1>2, <1>4, <1>8, <2>2
  <2> QED BY <2>1, <2>2
<1>10. \A i \in 1..N : i \in dropped' \/ Holds(tree', i) <=> i < f.l
  <2> SUFFICES ASSUME NEW i \in 1..N PROVE i \in dropped' \/ Holds(tree', i) <=> i < f.l
    OBVIOUS
  <2>1. i \in dropped' \/ Holds(tree', i) <=> i < l \/ (l <= i /\ i < f.l)
    BY <1>4, <1>8
  <2> QED BY <1>2, <1>3, <2>1
<1>11. l < f.l \/ (dropped' = dropped /\ \A i \in 1..N : Holds(tree', i) <=> Holds(tree, i))
  <2>1. CASE l = f.l
    <3>1. \A i \in 1..N : i \notin lost /\ ~Holds(nodes, i)
      BY <1>2, <2>1
    <3> QED BY <1>8, <3>1
  <2> QED BY <1>2, <1>3, <2>1
<1>12. \A i \in dropped' \ dropped :
           \/ type'[i] = "empty"
           \/ \E j \in 1..i : /\ j..i \subseteq dropped' /\ type'[j] = "def_note"
                              /\ Marked({j}, Markers \ {"indented"})
  <2> SUFFICES ASSUME NEW i \in lost, type'[i] # "empty"
               PROVE  \E j \in 1..i : /\ j..i \subseteq dropped' /\ type'[j] = "def_note"
                                      /\ Marked({j}, Markers \ {"indented"})
    OBVIOUS
  <2> QED OBVIOUS
<1>13. dropped \subseteq dropped' /\ dropped' \subseteq 1..N /\ Len(tree') >= Len(tree) /\ f.node <= Len(tree')
  BY <1>5, <1>8
<1> QED BY <1>8, <1>9, <1>10, <1>11, <1>12, <1>13, GoOnOK

\* No line is lost.
LEMMA AppendOK ==
    ASSUME IInv, frames # <<>>,
           NEW f \in FrameType, NEW nodes \in Seq(TreeNode),
           tree' = tree \o nodes, frames' = [frames EXCEPT ![Depth] = f],
           l <= f.l, f.l <= stop + 1, f.stop = stop, f.kind = Top.kind, f.depth = Top.depth,
           f.node <= Len(tree) + Len(nodes),
           f.within = "table" => f.node # 0 /\ f.l <= stop /\ type'[f.l] \in accept_table_line,
           Single(nodes),
           \A i \in 1..N : Holds(nodes, i) <=> (l <= i /\ i < f.l),
           type' \in [1..N -> LineTypes],
           \A i \in 1..N : type'[i] = type[i] \/ (l <= i /\ type'[i] \notin Markers),
           UNCHANGED <<lines, stripped, dropped, is_endnote>>,
           allow_meta' \in BOOLEAN, is_definition' \in Int
    PROVE  IInv' /\ Forward
<1> DEFINE lost == {}
<1>1. lost \in SUBSET (1..N) /\ dropped' = dropped \cup lost /\ \A i : i \notin lost
  OBVIOUS
<1> HIDE DEF lost
<1>2. \A i \in 1..N : (i \in lost \/ Holds(nodes, i)) <=> (l <= i /\ i < f.l)
  BY <1>1
<1>3. /\ \A i \in lost : ~Holds(nodes, i)
      /\ \A i \in lost : \/ type'[i] = "empty"
                         \/ \E j \in 1..i : /\ j..i \subseteq lost /\ type'[j] = "def_note"
                                            /\ Marked({j}, Markers \ {"indented"})
  BY <1>1
<1>4. UNCHANGED <<lines, stripped, is_endnote>>
  OBVIOUS
<1> QED BY <1>1, <1>2, <1>3, <1>4, EmitOK

\* The line behind a run of lines.
LEMMA BehindIs ==
    ASSUME Types, frames # <<>>, NEW i \in l..(stop + 1), NEW types, NEW e \in Behind(i, types)
    PROVE  /\ e \in i..(stop + 1) /\ e \in Int
           /\ e <= stop => type[e] \notin types
           /\ i <= stop /\ type[i] \in types => e > i
<1>1. l \in 1..(N + 1) /\ stop \in 1..N /\ N \in Nat
  BY TopFacts
<1>2. e \in i..(stop + 1) /\ (e <= stop => type[e] \notin types)
  BY DEF Behind
<1> QED BY <1>1, <1>2

\* One block without children is appended.
LEMMA BlockOK ==
    ASSUME IInv, frames # <<>>, Top.within = "blocks", l <= stop,
           NEW node \in Nodes, NEW last \in l..stop, NEW tokens \in {"none", "tokens", "exposed"},
           Block(node, last, tokens),
           type' \in [1..N -> LineTypes],
           \A i \in 1..N : type'[i] = type[i] \/ (l <= i /\ type'[i] \notin Markers)
    PROVE  IInv' /\ Forward
<1> DEFINE f == [Top EXCEPT !.l = last + 1]
           x == Node(node, Top.depth, l..last, tokens)
<1>1. Types /\ Nested
  BY DEF IInv
<1>2. /\ Top \in FrameType /\ Top = frames[Depth] /\ Depth \in 1..Depth
      /\ l \in 1..(N + 1) /\ stop \in 1..N /\ N \in Nat /\ l = Top.l /\ stop = Top.stop
      /\ DOMAIN frames = 1..Depth
  BY <1>1, TopFacts, Zenon
<1>3. /\ tree' = tree \o <<x>> /\ frames' = [frames EXCEPT ![Depth].l = last + 1]
      /\ allow_meta' = FALSE
      /\ UNCHANGED <<lines, stripped, dropped, is_definition, is_endnote>>
  BY DEF Block, Emit
<1>4. frames' = [frames EXCEPT ![Depth] = f]
  BY <1>2, <1>3
<1>5. f \in FrameType /\ f.l = last + 1 /\ f.stop = stop /\ f.kind = Top.kind /\ f.depth = Top.depth /\ f.within = "blocks"
      /\ f.node = Top.node
  <2>1. last + 1 \in 1..(N + 1)
    BY <1>2
  <2> QED BY <1>2, <2>1 DEF FrameType
<1>6. x \in TreeNode /\ x.lines = l..last
  <2>1. l..last \subseteq 1..N
    BY <1>2
  <2>2. Top.depth \in Nat
    BY <1>2 DEF FrameType
  <2> QED BY <2>1, <2>2 DEF Node, TreeNode
<1>7. /\ <<x>> \in Seq(TreeNode) /\ Len(<<x>>) = 1 /\ Single(<<x>>)
      /\ \A i : Holds(<<x>>, i) <=> i \in l..last
  <2> HIDE DEF x
  <2> QED BY <1>6, NodePlaces
<1>8. Top.node <= Len(tree) /\ Top.node \in Nat /\ Len(tree) \in Nat
  BY <1>1, <1>2, LenProperties DEF Nested, Types, FrameType
<1>9. is_definition' \in Int /\ allow_meta' \in BOOLEAN
      /\ UNCHANGED <<lines, stripped, dropped, is_endnote>>
  BY <1>1, <1>3 DEF Types
<1> HIDE DEF f, x
<1>10. \A i \in 1..N : Holds(<<x>>, i) <=> (l <= i /\ i < f.l)
  BY <1>2, <1>5, <1>7, SMTT(30)
<1>11. l <= f.l /\ f.l <= stop + 1 /\ f.node <= Len(tree) + Len(<<x>>)
  BY <1>2, <1>5, <1>7, <1>8
<1>12. f.within = "table" => f.node # 0 /\ f.l <= stop /\ type'[f.l] \in accept_table_line
  BY <1>5
<1> QED BY <1>3, <1>4, <1>5, <1>7, <1>9, <1>10, <1>11, <1>12, AppendOK

\* How text is tokenized.
LEMMA TokenizedIs ==
    \A i : /\ Tokenized(i) \in {"none", "tokens", "exposed"}
           /\ Rows(i) \in {"none", "tokens", "exposed"}
BY DEF Tokenized, Rows

\* Where nothing else is said of them, the types stay.
LEMMA SameTypes ==
    ASSUME Types, type' = type
    PROVE  /\ type' \in [1..N -> LineTypes]
           /\ \A i \in 1..N : type'[i] = type[i] \/ (l <= i /\ type'[i] \notin Markers)
BY DEF Types

LEMMA AtIs ==
    ASSUME IInv, NEW types, At(types)
    PROVE  /\ Types /\ frames # <<>> /\ Top.within = "blocks" /\ l <= stop /\ type[l] \in types
           /\ l \in l..stop /\ l \in l..(stop + 1) /\ l + 1 \in l..(stop + 1)
           /\ l \in 1..N /\ stop \in 1..N /\ N \in Nat
<1>1. Types /\ frames # <<>> /\ Top.within = "blocks" /\ l <= stop /\ type[l] \in types
  BY DEF At, IInv
<1>2. l \in 1..(N + 1) /\ stop \in 1..N /\ N \in Nat
  BY <1>1, TopFacts
<1> QED BY <1>1, <1>2

\* Blocks that are one line or a run of lines.
LEMMA SimpleOK ==
    ASSUME IInv,
           block_atx \/ block_toc \/ block_hr \/ block_empty \/ block_reference_def_a \/ block_html
           \/ block_html_comment
    PROVE  IInv' /\ Forward
<1>1. CASE block_atx
  BY <1>1, AtIs, BlockOK, SameTypes, TokenizedIs DEF block_atx, Nodes, Blocks
<1>2. CASE block_toc
  BY <1>2, AtIs, BlockOK, SameTypes DEF block_toc, Nodes, Blocks
<1>3. CASE block_hr
  BY <1>3, AtIs, BlockOK, SameTypes, TokenizedIs DEF block_hr, Nodes, Blocks
<1>4. CASE block_empty
  <2>1. At({"empty"}) /\ type' = type
    BY <1>4 DEF block_empty
  <2>2. PICK end \in Behind(l, {"empty"}) : Block("empty", end - 1, "none")
    BY <1>4 DEF block_empty
  <2>3. end - 1 \in l..stop
    BY <2>1, AtIs, BehindIs
  <2> QED BY <2>1, <2>2, <2>3, AtIs, BlockOK, SameTypes DEF Nodes, Blocks
<1>5. CASE block_reference_def_a
  <2>1. At({"def_link"}) /\ type' = type
    BY <1>5 DEF block_reference_def_a
  <2>2. PICK end \in Behind(l + 1, accept_chunk_line) : Block("def_link", end - 1, "none")
    BY <1>5 DEF block_reference_def_a
  <2>3. end - 1 \in l..stop
    BY <2>1, AtIs, BehindIs
  <2> QED BY <2>1, <2>2, <2>3, AtIs, BlockOK, SameTypes DEF Nodes, Blocks
<1>6. CASE block_html
  <2>1. At({"html_block", "html_blockish"}) /\ type' = type
    BY <1>6 DEF block_html
  <2>2. PICK end \in Behind(l + 1, LineTypes \ {"empty"}) : Block("html", end - 1, "none")
    BY <1>6 DEF block_html
  <2>3. end - 1 \in l..stop
    BY <2>1, AtIs, BehindIs
  <2> QED BY <2>1, <2>2, <2>3, AtIs, BlockOK, SameTypes DEF Nodes, Blocks
<1>7. CASE block_html_comment
  <2>1. At({"comment_start"}) /\ type' = type
    BY <1>7 DEF block_html_comment
  <2>2. PICK end \in Behind(l + 1, LineTypes \ {"comment_stop"}) :
            Block("html", IF end <= stop THEN end ELSE stop, "none")
    BY <1>7 DEF block_html_comment
  <2>3. (IF end <= stop THEN end ELSE stop) \in l..stop
    BY <2>1, AtIs, BehindIs
  <2> QED BY <2>1, <2>2, <2>3, AtIs, BlockOK, SameTypes DEF Nodes, Blocks
<1> QED BY <1>1, <1>2, <1>3, <1>4, <1>5, <1>6, <1>7

LEMMA CodeFencedOK ==
    ASSUME IInv, block_code_fenced
    PROVE  IInv' /\ Forward
<1>1. At(Fences)
  BY DEF block_code_fenced
<1>2. PICK end \in Behind(l + 1, accept_fence_line(type[l])) :
          /\ Block("code_fenced", IF end <= stop THEN end ELSE stop, "none")
          /\ type' = [i \in 1..N |-> IF i \in {l, end} /\ i <= stop THEN "code_fence" ELSE type[i]]
  BY DEF block_code_fenced
<1>3. end \in Int /\ l <= end /\ (IF end <= stop THEN end ELSE stop) \in l..stop
  BY <1>1, AtIs, BehindIs
<1>4. "code_fence" \in LineTypes /\ "code_fence" \notin Markers
  BY DEF LineTypes, Markers
<1>5. type \in [1..N -> LineTypes] /\ l \in 1..N
  BY <1>1, AtIs DEF Types
<1>6. /\ type' \in [1..N -> LineTypes]
      /\ \A i \in 1..N : type'[i] = type[i] \/ (l <= i /\ type'[i] \notin Markers)
  BY <1>2, <1>3, <1>4, <1>5
<1> QED BY <1>1, <1>2, <1>3, <1>6, AtIs, BlockOK DEF Nodes, Blocks

LEMMA CodeIndentedOK ==
    ASSUME IInv, block_code_indented
    PROVE  IInv' /\ Forward
<1>1. At({"indented"}) /\ allow_meta' = FALSE
      /\ UNCHANGED <<lines, type, stripped, dropped, is_definition, is_endnote>>
  BY DEF block_code_indented
<1>2. PICK end \in (l + 1)..(stop + 1) : \E rest \in Behind(end, {"empty"}) :
          Emit(<<Node("code_indented", Top.depth, l..(end - 1), "none")>>
               \o Empties(end, rest, Top.depth), rest)
  BY DEF block_code_indented
<1>3. PICK rest \in Behind(end, {"empty"}) :
          Emit(<<Node("code_indented", Top.depth, l..(end - 1), "none")>>
               \o Empties(end, rest, Top.depth), rest)
  BY <1>2
<1>4. /\ Types /\ frames # <<>> /\ Top.within = "blocks" /\ l <= stop
      /\ l \in 1..N /\ stop \in 1..N /\ N \in Nat /\ lines \in Documents
  BY <1>1, AtIs DEF Types
<1>5. /\ Top \in FrameType /\ Top = frames[Depth] /\ Depth \in 1..Depth
      /\ l = Top.l /\ stop = Top.stop /\ DOMAIN frames = 1..Depth
  BY <1>4, TopFacts, Zenon
<1>6. end \in l..(stop + 1) /\ rest \in end..(stop + 1) /\ rest \in 1..(N + 1) /\ end \in 1..(N + 1)
      /\ end <= rest
  <2>1. end \in l..(stop + 1)
    BY <1>4
  <2>2. rest \in end..(stop + 1)
    BY <1>4, <2>1, BehindIs
  <2> QED BY <1>4, <2>1, <2>2
<1> DEFINE f == [Top EXCEPT !.l = rest]
           x == Node("code_indented", Top.depth, l..(end - 1), "none")
           e == Empties(end, rest, Top.depth)
<1>7. tree' = tree \o (<<x>> \o e) /\ frames' = [frames EXCEPT ![Depth] = f]
  BY <1>3, <1>5 DEF Emit
<1>8. Top.depth \in Nat /\ Top.node \in Nat
  BY <1>5 DEF FrameType
<1>9. f \in FrameType /\ f.l = rest /\ f.stop = stop /\ f.kind = Top.kind /\ f.depth = Top.depth /\ f.within = "blocks"
      /\ f.node = Top.node
  BY <1>4, <1>5, <1>6 DEF FrameType
<1>10. x \in TreeNode /\ x.lines = l..(end - 1)
  <2>1. l..(end - 1) \subseteq 1..N
    BY <1>4
  <2> QED BY <1>8, <2>1 DEF Node, TreeNode, Nodes, Blocks
<1>11. e \in Seq(TreeNode) /\ Single(e) /\ \A i : Holds(e, i) <=> i \in end..(rest - 1)
  BY <1>4, <1>6, <1>8, EmptiesPlace
<1> HIDE DEF f, x, e
<1>12. /\ <<x>> \in Seq(TreeNode) /\ Len(<<x>>) = 1 /\ Single(<<x>>)
       /\ \A i : Holds(<<x>>, i) <=> i \in l..(end - 1)
  BY <1>10, NodePlaces
<1>13. \A i : ~(Holds(<<x>>, i) /\ Holds(e, i))
  BY <1>4, <1>6, <1>11, <1>12
<1>14. /\ <<x>> \o e \in Seq(TreeNode) /\ Len(<<x>> \o e) = Len(<<x>>) + Len(e) /\ Single(<<x>> \o e)
       /\ \A i : Holds(<<x>> \o e, i) <=> Holds(<<x>>, i) \/ Holds(e, i)
  BY <1>11, <1>12, <1>13, ConcatPlaces
<1>15. \A i \in 1..N : Holds(<<x>> \o e, i) <=> (l <= i /\ i < f.l)
  BY <1>4, <1>6, <1>9, <1>11, <1>12, <1>14
<1>16. l <= f.l /\ f.l <= stop + 1
  BY <1>4, <1>6, <1>9
<1>17. f.node <= Len(tree) + Len(<<x>> \o e)
  <2>1. Top.node <= Len(tree) /\ Len(tree) \in Nat /\ Len(<<x>> \o e) \in Nat
    BY <1>4, <1>5, <1>14, LenProperties DEF IInv, Nested, Types
  <2> QED BY <1>8, <1>9, <2>1
<1>18. allow_meta' \in BOOLEAN /\ is_definition' \in Int
       /\ UNCHANGED <<lines, stripped, dropped, is_endnote>>
  BY <1>1, <1>4 DEF Types
<1>19. /\ type' \in [1..N -> LineTypes]
       /\ \A i \in 1..N : type'[i] = type[i] \/ (l <= i /\ type'[i] \notin Markers)
  BY <1>1, <1>4, SameTypes
<1>20. f.within = "table" => f.node # 0 /\ f.l <= stop /\ type'[f.l] \in accept_table_line
  BY <1>9
<1> QED BY <1>4, <1>7, <1>9, <1>14, <1>15, <1>16, <1>17, <1>18, <1>19, <1>20, AppendOK

LEMMA MetaOK ==
    ASSUME IInv, block_meta \/ block_meta_yaml
    PROVE  IInv' /\ Forward
<1>1. CASE block_meta
  <2>1. At({"meta"}) /\ type' = type
    BY <1>1 DEF block_meta
  <2>2. PICK end \in Behind(l + 1, LineTypes \ {"empty"}) : Block("meta", end - 1, "none")
    BY <1>1 DEF block_meta
  <2>3. end - 1 \in l..stop
    BY <2>1, AtIs, BehindIs
  <2> QED BY <2>1, <2>2, <2>3, AtIs, BlockOK, SameTypes DEF Nodes, Blocks
<1>2. CASE block_meta_yaml
  <2>1. At({"yaml"})
    BY <1>2 DEF block_meta_yaml
  <2>2. PICK end \in Behind(l + 1, LineTypes \ {"empty", "setext2"}) :
            /\ Block("meta", IF end <= stop /\ type[end] = "setext2" THEN end ELSE end - 1, "none")
            /\ type' = IF end <= stop /\ type[end] = "setext2" THEN [type EXCEPT ![end] = "yaml"] ELSE type
    BY <1>2 DEF block_meta_yaml
  <2>3. end \in Int /\ l <= end
        /\ (IF end <= stop /\ type[end] = "setext2" THEN end ELSE end - 1) \in l..stop
    BY <2>1, AtIs, BehindIs
  <2>4. "yaml" \in LineTypes /\ "yaml" \notin Markers
    BY DEF LineTypes, Markers
  <2>5. type \in [1..N -> LineTypes] /\ l \in 1..N
    BY <2>1, AtIs DEF Types
  <2>6. /\ type' \in [1..N -> LineTypes]
        /\ \A i \in 1..N : type'[i] = type[i] \/ (l <= i /\ type'[i] \notin Markers)
    BY <2>2, <2>3, <2>4, <2>5
  <2> QED BY <2>1, <2>2, <2>3, <2>6, AtIs, BlockOK DEF Nodes, Blocks
<1> QED BY <1>1, <1>2

\* The activation that runs is in a list, a definition list or a table from now on.
LEMMA OpenOK ==
    ASSUME IInv, frames # <<>>, l <= stop,
           NEW nodes \in Seq(TreeNode), NEW next \in l..(stop + 1), NEW node \in Nat, NEW part \in Parts,
           tree' = tree \o nodes,
           frames' = [frames EXCEPT ![Depth] = [@ EXCEPT !.l = next, !.within = part, !.node = node]],
           node <= Len(tree) + Len(nodes),
           part = "table" => node # 0 /\ next <= stop /\ type[next] \in accept_table_line,
           Single(nodes),
           \A i \in 1..N : Holds(nodes, i) <=> (l <= i /\ i < next),
           UNCHANGED <<lines, type, stripped, dropped, allow_meta, is_definition, is_endnote>>
    PROVE  IInv' /\ Forward
<1> DEFINE f == [Top EXCEPT !.l = next, !.within = part, !.node = node]
<1>1. Types
  BY DEF IInv
<1>2. /\ Top \in FrameType /\ Top = frames[Depth] /\ Depth \in 1..Depth
      /\ l \in 1..(N + 1) /\ stop \in 1..N /\ N \in Nat /\ l = Top.l /\ stop = Top.stop
      /\ DOMAIN frames = 1..Depth
  BY <1>1, TopFacts, Zenon
<1>3. frames' = [frames EXCEPT ![Depth] = f]
  BY <1>2
<1>4. next \in 1..(N + 1) /\ l <= next /\ next <= stop + 1
  BY <1>2
<1>5. f \in FrameType /\ f.l = next /\ f.stop = stop /\ f.kind = Top.kind /\ f.depth = Top.depth /\ f.within = part /\ f.node = node
  BY <1>2, <1>4 DEF FrameType
<1> HIDE DEF f
<1>6. \A i \in 1..N : Holds(nodes, i) <=> (l <= i /\ i < f.l)
  BY <1>5
<1>7. l <= f.l /\ f.l <= stop + 1 /\ f.node <= Len(tree) + Len(nodes)
  BY <1>4, <1>5
<1>8. /\ type' \in [1..N -> LineTypes]
      /\ \A i \in 1..N : type'[i] = type[i] \/ (l <= i /\ type'[i] \notin Markers)
  BY <1>1, SameTypes
<1>9. f.within = "table" => f.node # 0 /\ f.l <= stop /\ type'[f.l] \in accept_table_line
  BY <1>5
<1>10. allow_meta' \in BOOLEAN /\ is_definition' \in Int
       /\ UNCHANGED <<lines, stripped, dropped, is_endnote>>
  BY <1>1 DEF Types
<1> QED BY <1>3, <1>5, <1>6, <1>7, <1>8, <1>9, <1>10, AppendOK

LEMMA ListOK ==
    ASSUME IInv, block_list
    PROVE  IInv' /\ Forward
<1> DEFINE x == Node("list", Top.depth, {}, "none")
<1>1. At({"bullet", "enum"})
      /\ UNCHANGED <<lines, type, stripped, dropped, allow_meta, is_definition, is_endnote>>
  BY DEF block_list
<1>2. /\ Types /\ frames # <<>> /\ l <= stop /\ l \in l..(stop + 1) /\ type[l] \in {"bullet", "enum"}
      /\ l \in 1..N /\ N \in Nat
  BY <1>1, AtIs, Zenon
<1>3. Top \in FrameType /\ Top = frames[Depth] /\ Depth \in 1..Depth /\ DOMAIN frames = 1..Depth /\ l = Top.l
  BY <1>2, TopFacts, Zenon
<1>4. x \in TreeNode /\ x.lines = {}
  BY <1>3 DEF Node, TreeNode, Nodes, Blocks, FrameType
<1>5. tree \in Seq(TreeNode) /\ Len(tree) \in Nat
  BY <1>2, LenProperties DEF Types
<1>6. tree' = tree \o <<x>>
  <2>1. tree' = Append(tree, x)
    BY DEF block_list
  <2> HIDE DEF x
  <2> QED BY <1>4, <1>5, <2>1, AppendIsConcat
<1>7. frames' = [frames EXCEPT ![Depth] = [@ EXCEPT !.l = l, !.within = type[l], !.node = Len(tree) + 1]]
  <2>1. frames' = [frames EXCEPT ![Depth] = [@ EXCEPT !.within = type[l], !.node = Len(tree) + 1]]
    BY DEF block_list
  <2>2. [Top EXCEPT !.within = type[l], !.node = Len(tree) + 1]
        = [Top EXCEPT !.l = l, !.within = type[l], !.node = Len(tree) + 1]
    BY <1>3 DEF FrameType
  <2> QED BY <1>3, <2>1, <2>2
<1> HIDE DEF x
<1>8. /\ <<x>> \in Seq(TreeNode) /\ Len(<<x>>) = 1 /\ Single(<<x>>)
      /\ \A i : ~Holds(<<x>>, i)
  BY <1>4, NodePlaces
<1>9. type[l] \in Parts /\ type[l] # "table" /\ Len(tree) + 1 \in Nat /\ Len(tree) + 1 <= Len(tree) + Len(<<x>>)
  <2>1. type[l] \in Parts /\ type[l] # "table"
    BY <1>2 DEF Parts
  <2>2. Len(tree) + 1 \in Nat /\ Len(tree) + 1 <= Len(tree) + 1
    BY <1>5
  <2> QED BY <1>8, <2>1, <2>2
<1>10. \A i \in 1..N : Holds(<<x>>, i) <=> (l <= i /\ i < l)
  BY <1>2, <1>8
<1> QED BY <1>1, <1>2, <1>6, <1>7, <1>8, <1>9, <1>10, OpenOK

\* The terms of a definition list, one for each line.
LEMMA TermsPlace ==
    ASSUME Types, frames # <<>>, l <= stop, NEW end \in (l + 1)..(stop + 1)
    PROVE  LET terms == [i \in 1..(end - l) |-> Node("term", Top.depth + 1, {l + i - 1}, "none")]
           IN  /\ terms \in Seq(TreeNode) /\ Len(terms) = end - l /\ Single(terms)
               /\ \A i : Holds(terms, i) <=> i \in l..(end - 1)
<1> DEFINE terms == [i \in 1..(end - l) |-> Node("term", Top.depth + 1, {l + i - 1}, "none")]
<1>1. l \in 1..(N + 1) /\ stop \in 1..N /\ N \in Nat /\ Top.depth \in Nat
  BY TopFacts DEF FrameType
<1>2. end - l \in Nat
  BY <1>1
<1>3. ASSUME NEW i \in 1..(end - l)
      PROVE  /\ Node("term", Top.depth + 1, {l + i - 1}, "none") \in TreeNode
             /\ Node("term", Top.depth + 1, {l + i - 1}, "none").lines = {l + i - 1}
  <2>1. l + i - 1 \in 1..N
    BY <1>1
  <2> QED BY <1>1, <2>1 DEF Node, TreeNode, Nodes
<1>4. DOMAIN terms = 1..(end - l) /\ \A i \in 1..(end - l) : terms[i] \in TreeNode /\ terms[i].lines = {l + i - 1}
  BY <1>3
<1>5. terms \in Seq(TreeNode) /\ Len(terms) = end - l
  <2>1. terms \in [1..(end - l) -> TreeNode]
    BY <1>3
  <2> HIDE DEF terms
  <2> QED BY <1>2, <1>4, <2>1
<1> HIDE DEF terms
<1>6. Single(terms)
  BY <1>1, <1>4 DEF Single
<1>7. ASSUME NEW i PROVE Holds(terms, i) <=> i \in l..(end - 1)
  <2>1. ASSUME Holds(terms, i) PROVE i \in l..(end - 1)
    BY <1>1, <1>4, <2>1 DEF Holds
  <2>2. ASSUME i \in l..(end - 1) PROVE Holds(terms, i)
    <3>1. i - l + 1 \in 1..(end - l) /\ l + (i - l + 1) - 1 = i
      BY <1>1, <2>2
    <3> QED BY <1>4, <3>1 DEF Holds
  <2> QED BY <2>1, <2>2
<1> QED BY <1>5, <1>6, <1>7 DEF terms

LEMMA ParaOK ==
    ASSUME IInv, block_para
    PROVE  IInv' /\ Forward
<1>1. /\ type' = type /\ Types /\ frames # <<>> /\ Top.within = "blocks" /\ l <= stop
      /\ l \in 1..N /\ stop \in 1..N /\ N \in Nat /\ l \in l..stop /\ l + 1 \in l..(stop + 1)
  <2>1. type' = type /\ (At({"plain", "html", "setext1", "definition", "comment_stop"})
                         \/ At({"meta"}) \/ At({"def_note"}))
    BY DEF block_para
  <2> QED BY <2>1, AtIs
<1> DEFINE turns(end) == IF end <= stop THEN type[end] ELSE "plain"
           header(end) == turns(end) \in {"setext1", "setext2"}
           terms(end) == [i \in 1..(end - l) |-> Node("term", Top.depth + 1, {l + i - 1}, "none")]
<1>2. PICK end \in Behind(l + 1, accept_para_line) :
          IF turns(end) = "definition"
          THEN /\ tree' = tree \o <<Node("deflist", Top.depth, {}, "none")>> \o terms(end)
               /\ frames' = [frames EXCEPT ![Depth] = [@ EXCEPT
                      !.l = end, !.node = Len(tree) + 1,
                      !.within = IF NoteInNote THEN "raw deflist" ELSE "deflist"]]
               /\ UNCHANGED <<lines, stripped, dropped, allow_meta, is_definition, is_endnote>>
          ELSE Block(IF header(end) THEN "setext" ELSE "para", IF header(end) THEN end ELSE end - 1,
                     IF NoteInNote THEN "none" ELSE Tokenized(l))
  BY DEF block_para
<1>3. end \in (l + 1)..(stop + 1) /\ end \in l..(stop + 1)
  BY <1>1, BehindIs
<1>4. CASE turns(end) = "definition"
  <2> DEFINE x == Node("deflist", Top.depth, {}, "none")
             t == terms(end)
             part == IF NoteInNote THEN "raw deflist" ELSE "deflist"
  <2>1. t \in Seq(TreeNode) /\ Single(t) /\ \A i : Holds(t, i) <=> i \in l..(end - 1)
    BY <1>1, <1>3, TermsPlace
  <2>2. Top \in FrameType /\ Top = frames[Depth] /\ Depth \in 1..Depth /\ DOMAIN frames = 1..Depth
    BY <1>1, TopFacts, Zenon
  <2>3. x \in TreeNode /\ x.lines = {}
    BY <2>2 DEF Node, TreeNode, Nodes, Blocks, FrameType
  <2>4. tree \in Seq(TreeNode) /\ Len(tree) \in Nat
    BY <1>1, LenProperties DEF Types
  <2> HIDE DEF x, t
  <2>5. /\ <<x>> \in Seq(TreeNode) /\ Len(<<x>>) = 1 /\ Single(<<x>>) /\ \A i : ~Holds(<<x>>, i)
    BY <2>3, NodePlaces
  <2>6. /\ <<x>> \o t \in Seq(TreeNode) /\ Len(<<x>> \o t) = Len(<<x>>) + Len(t) /\ Single(<<x>> \o t)
        /\ \A i : Holds(<<x>> \o t, i) <=> Holds(<<x>>, i) \/ Holds(t, i)
    BY <2>1, <2>5, ConcatPlaces
  <2>7. tree' = tree \o (<<x>> \o t)
    <3>1. tree' = tree \o <<x>> \o t
      BY <1>2, <1>4 DEF x, t
    <3> QED BY <2>1, <2>4, <2>5, <3>1, ConcatAssociative
  <2>8. frames' = [frames EXCEPT ![Depth] = [@ EXCEPT !.l = end, !.within = part, !.node = Len(tree) + 1]]
    <3>1. frames' = [frames EXCEPT ![Depth] = [@ EXCEPT !.l = end, !.node = Len(tree) + 1, !.within = part]]
      BY <1>2, <1>4
    <3>2. [Top EXCEPT !.l = end, !.node = Len(tree) + 1, !.within = part]
          = [Top EXCEPT !.l = end, !.within = part, !.node = Len(tree) + 1]
      BY <2>2 DEF FrameType
    <3> QED BY <2>2, <3>1, <3>2
  <2>9. Len(tree) + 1 \in Nat /\ Len(tree) + 1 <= Len(tree) + Len(<<x>> \o t)
    <3>1. Len(t) \in Nat
      BY <2>1, LenProperties
    <3> QED BY <2>4, <2>5, <2>6, <3>1
  <2>10. part \in Parts /\ part # "table"
    BY DEF Parts
  <2>11. \A i \in 1..N : Holds(<<x>> \o t, i) <=> (l <= i /\ i < end)
    BY <1>1, <1>3, <2>1, <2>5, <2>6
  <2>12. UNCHANGED <<lines, type, stripped, dropped, allow_meta, is_definition, is_endnote>>
    BY <1>1, <1>2, <1>4
  <2> HIDE DEF part
  <2> QED BY <1>1, <1>3, <2>6, <2>7, <2>8, <2>9, <2>10, <2>11, <2>12, OpenOK
<1>5. CASE turns(end) # "definition"
  <2>1. (IF header(end) THEN end ELSE end - 1) \in l..stop
    BY <1>1, <1>3
  <2>2. (IF header(end) THEN "setext" ELSE "para") \in Nodes
    BY DEF Nodes, Blocks
  <2>3. (IF NoteInNote THEN "none" ELSE Tokenized(l)) \in {"none", "tokens", "exposed"}
    BY TokenizedIs
  <2>4. Block(IF header(end) THEN "setext" ELSE "para", IF header(end) THEN end ELSE end - 1,
              IF NoteInNote THEN "none" ELSE Tokenized(l))
    BY <1>2, <1>5
  <2> HIDE DEF header, turns
  <2> QED BY <1>1, <2>1, <2>2, <2>3, <2>4, BlockOK, SameTypes
<1> QED BY <1>4, <1>5

LEMMA TableOK ==
    ASSUME IInv, block_table
    PROVE  IInv' /\ Forward
<1>1. /\ type' = type /\ Types /\ frames # <<>> /\ Top.within = "blocks" /\ l <= stop
      /\ type[l] \in accept_table_line
      /\ l \in 1..N /\ stop \in 1..N /\ N \in Nat /\ l \in l..stop /\ l \in l..(stop + 1)
  <2>1. type' = type /\ At(accept_table_line)
    BY DEF block_table
  <2> QED BY <2>1, AtIs
<1> DEFINE isHeader(sep) == sep <= stop /\ type[sep] = "separator"
           x == Node("table", Top.depth, {}, "none")
           y(sep) == Node("table_header", Top.depth + 1, l..sep, Rows(l..sep))
<1>2. PICK sep \in Behind(l, {"table"}) :
          IF isHeader(sep) /\ sep < stop /\ type[sep + 1] = "table"
          THEN /\ tree' = tree \o <<x, y(sep)>>
               /\ frames' = [frames EXCEPT ![Depth] = [@ EXCEPT
                      !.l = sep + 1, !.within = "table", !.node = Len(tree) + 2]]
               /\ UNCHANGED <<lines, stripped, dropped, allow_meta, is_definition, is_endnote>>
          ELSE \E end \in IF isHeader(sep) THEN {sep + 1} ELSE Behind(sep, accept_para_line) :
                  Block("para", end - 1, Tokenized(l))
  BY DEF block_table
<1>3. sep \in l..(stop + 1) /\ (sep <= stop => type[sep] # "table")
  BY <1>1, BehindIs
<1>4. CASE isHeader(sep) /\ sep < stop /\ type[sep + 1] = "table"
  <2>1. Top.depth \in Nat /\ tree \in Seq(TreeNode) /\ Len(tree) \in Nat
    BY <1>1, TopFacts, LenProperties DEF Types, FrameType
  <2>2. x \in TreeNode /\ x.lines = {}
    BY <2>1 DEF Node, TreeNode, Nodes, Blocks
  <2>3. y(sep) \in TreeNode /\ y(sep).lines = l..sep
    <3>1. l..sep \subseteq 1..N
      BY <1>1, <1>3, <1>4
    <3> QED BY <2>1, <3>1, TokenizedIs DEF Node, TreeNode, Nodes
  <2> DEFINE z == y(sep)
             nodes == <<x>> \o <<z>>
  <2>4. tree' = tree \o nodes
    BY <1>2, <1>4
  <2>5. frames' = [frames EXCEPT ![Depth] = [@ EXCEPT !.l = sep + 1, !.within = "table", !.node = Len(tree) + 2]]
        /\ UNCHANGED <<lines, type, stripped, dropped, allow_meta, is_definition, is_endnote>>
    BY <1>1, <1>2, <1>4
  <2>6. z \in TreeNode /\ z.lines = l..sep
    BY <2>3
  <2> HIDE DEF x, z
  <2>7. /\ <<x>> \in Seq(TreeNode) /\ Len(<<x>>) = 1 /\ Single(<<x>>) /\ \A i : ~Holds(<<x>>, i)
    BY <2>2, NodePlaces
  <2>8. /\ <<z>> \in Seq(TreeNode) /\ Len(<<z>>) = 1 /\ Single(<<z>>)
        /\ \A i : Holds(<<z>>, i) <=> i \in l..sep
    BY <2>6, NodePlaces
  <2>9. /\ nodes \in Seq(TreeNode) /\ Len(nodes) = 2 /\ Single(nodes)
        /\ \A i : Holds(nodes, i) <=> i \in l..sep
    <3>1. \A i : ~(Holds(<<x>>, i) /\ Holds(<<z>>, i))
      BY <2>7
    <3>2. /\ nodes \in Seq(TreeNode) /\ Len(nodes) = Len(<<x>>) + Len(<<z>>) /\ Single(nodes)
          /\ \A i : Holds(nodes, i) <=> Holds(<<x>>, i) \/ Holds(<<z>>, i)
      BY <2>7, <2>8, <3>1, ConcatPlaces
    <3> HIDE DEF nodes
    <3>3. Len(nodes) = 2
      BY <2>7, <2>8, <3>2
    <3> QED BY <2>7, <2>8, <3>2, <3>3
  <2> HIDE DEF nodes
  <2>10. sep + 1 \in l..(stop + 1) /\ sep + 1 <= stop /\ type[sep + 1] \in accept_table_line
    BY <1>1, <1>3, <1>4 DEF accept_table_line
  <2>11. Len(tree) + 2 \in Nat /\ Len(tree) + 2 # 0 /\ Len(tree) + 2 <= Len(tree) + Len(nodes)
    <3>1. Len(tree) + 2 \in Nat /\ Len(tree) + 2 # 0 /\ Len(tree) + 2 <= Len(tree) + 2
      BY <2>1
    <3> QED BY <2>9, <3>1
  <2>12. \A i \in 1..N : Holds(nodes, i) <=> (l <= i /\ i < sep + 1)
    BY <1>1, <1>3, <2>9
  <2>13. "table" \in Parts
    BY DEF Parts
  <2> QED BY <1>1, <2>4, <2>5, <2>9, <2>10, <2>11, <2>12, <2>13, OpenOK
<1>5. CASE ~(isHeader(sep) /\ sep < stop /\ type[sep + 1] = "table")
  <2>1. PICK end \in IF isHeader(sep) THEN {sep + 1} ELSE Behind(sep, accept_para_line) :
            Block("para", end - 1, Tokenized(l))
    BY <1>2, <1>5
  <2>2. end - 1 \in l..stop
    <3>1. CASE isHeader(sep)
      BY <1>1, <1>3, <2>1, <3>1
    <3>2. CASE ~isHeader(sep)
      <4>1. sep > l
        BY <1>1, <1>3, <3>2 DEF accept_table_line
      <4>2. end \in sep..(stop + 1)
        BY <1>1, <1>3, <2>1, <3>2, BehindIs
      <4> QED BY <1>1, <1>3, <4>1, <4>2
    <3> QED BY <3>1, <3>2
  <2>3. "para" \in Nodes
    BY DEF Nodes, Blocks
  <2> QED BY <1>1, <2>1, <2>2, <2>3, TokenizedIs, BlockOK, SameTypes
<1> QED BY <1>4, <1>5
-----------------------------------------------------------------------------
\* A list or a definition list ends: its nodes get other types or tokens.
LEMMA CloseOK ==
    ASSUME IInv, frames # <<>>,
           tree' \in Seq(TreeNode), Len(tree') = Len(tree),
           \A m \in 1..Len(tree) : tree'[m].lines = tree[m].lines,
           frames' = [frames EXCEPT ![Depth] = [@ EXCEPT !.within = "blocks", !.node = 0]],
           UNCHANGED <<lines, type, stripped, dropped, is_endnote>>,
           allow_meta' \in BOOLEAN, is_definition' \in Int
    PROVE  IInv' /\ Forward
<1> DEFINE f == [Top EXCEPT !.within = "blocks", !.node = 0]
<1>1. Types /\ Nested /\ PlacedOnce
  BY DEF IInv
<1>2. /\ DOMAIN frames = 1..Depth /\ Depth \in 1..Depth
      /\ Top \in FrameType /\ Top = frames[Depth] /\ l = Top.l /\ stop = Top.stop
      /\ l \in 1..(N + 1) /\ stop \in 1..N /\ N \in Nat
  BY <1>1, TopFacts, Zenon
<1>3. frames' = [frames EXCEPT ![Depth] = f]
  BY <1>2
<1>4. /\ f \in FrameType /\ f.l = l /\ f.stop = stop /\ f.kind = Top.kind /\ f.depth = Top.depth
      /\ f.within = "blocks" /\ f.node = 0
  BY <1>2 DEF FrameType, Parts
<1> HIDE DEF f
<1>5. l <= f.l /\ f.l <= stop + 1
  <2>1. frames[Depth].l <= frames[Depth].stop + 1
    BY <1>1, <1>2 DEF Nested
  <2> QED BY <1>2, <1>4, <2>1
<1>6. Len(tree) \in Nat /\ DOMAIN tree = 1..Len(tree) /\ DOMAIN tree' = 1..Len(tree)
  BY <1>1, LenProperties DEF Types
<1>7. \A i : Holds(tree', i) <=> Holds(tree, i)
  BY <1>6 DEF Holds
<1>8. Single(tree')
  BY <1>1, <1>6 DEF PlacedOnce, Single
<1>9. Len(tree') >= Len(tree) /\ f.node <= Len(tree')
  BY <1>4, <1>6
<1>10. dropped' = dropped /\ dropped \subseteq dropped' /\ dropped' \subseteq 1..N
  BY <1>1 DEF Types
<1>11. /\ \A i \in dropped' : ~Holds(tree', i)
       /\ \A i \in 1..N : i \in dropped' \/ Holds(tree', i) <=> i < f.l
  BY <1>1, <1>4, <1>7, <1>10 DEF PlacedOnce
<1>12. \A i \in dropped' \ dropped :
           \/ type'[i] = "empty"
           \/ \E j \in 1..i : /\ j..i \subseteq dropped' /\ type'[j] = "def_note"
                              /\ Marked({j}, Markers \ {"indented"})
  BY <1>10
<1>13. /\ type' \in [1..N -> LineTypes]
       /\ \A i \in 1..N : type'[i] = type[i] \/ (l <= i /\ type'[i] \notin Markers)
  BY <1>1, SameTypes
<1>14. f.within = "table" => f.node # 0 /\ f.l <= stop /\ type'[f.l] \in accept_table_line
  BY <1>4
<1> QED BY <1>3, <1>4, <1>5, <1>7, <1>8, <1>9, <1>10, <1>11, <1>12, <1>13, <1>14, GoOnOK

\* The same nodes with other fields.
LEMMA MappedOK ==
    ASSUME tree \in Seq(TreeNode), NEW new, DOMAIN new = 1..Len(tree),
           new = [m \in 1..Len(tree) |-> new[m]],
           \A m \in 1..Len(tree) : new[m] \in TreeNode
    PROVE  new \in Seq(TreeNode) /\ Len(new) = Len(tree)
<1>1. Len(tree) \in Nat
  BY LenProperties
<1>2. new \in [1..Len(tree) -> TreeNode]
  OBVIOUS
<1>3. new \in Seq(TreeNode)
  BY <1>1, <1>2, SeqDef
<1> QED BY <1>1, <1>3, LenProperties

LEMMA ListEndOK ==
    ASSUME IInv, flag_list_loose
    PROVE  IInv' /\ Forward
<1> DEFINE list == Top.node
           Loosened(m) == CASE m = list -> "list_loose"
                            [] /\ m > list /\ tree[m].type = "item_tight"
                               /\ tree[m].depth = tree[list].depth + 1 -> "item"
                            [] OTHER -> tree[m].type
<1>1. /\ Types /\ frames # <<>>
      /\ tree' = (IF ~Loose(list) THEN tree
                  ELSE [m \in 1..Len(tree) |-> [tree[m] EXCEPT !.type = Loosened(m)]])
      /\ frames' = [frames EXCEPT ![Depth] = [@ EXCEPT !.within = "blocks", !.node = 0]]
      /\ UNCHANGED <<lines, type, stripped, dropped, is_endnote>>
      /\ allow_meta' \in BOOLEAN /\ is_definition' \in Int
  BY DEF flag_list_loose, Within, IInv, Types
<1>2. tree \in Seq(TreeNode) /\ Len(tree) \in Nat /\ \A m \in 1..Len(tree) : tree[m] \in TreeNode
  BY <1>1, LenProperties, ElementOfSeq DEF Types
<1>3. ASSUME NEW m \in 1..Len(tree)
      PROVE  /\ [tree[m] EXCEPT !.type = Loosened(m)] \in TreeNode
             /\ [tree[m] EXCEPT !.type = Loosened(m)].lines = tree[m].lines
  <2>1. tree[m] \in TreeNode
    BY <1>2
  <2>2. Loosened(m) \in Nodes
    BY <2>1 DEF TreeNode, Nodes, Blocks, Items
  <2> HIDE DEF Loosened
  <2> QED BY <2>1, <2>2 DEF TreeNode
<1>4. /\ tree' \in Seq(TreeNode) /\ Len(tree') = Len(tree)
      /\ \A m \in 1..Len(tree) : tree'[m].lines = tree[m].lines
  <2>1. CASE ~Loose(list)
    BY <1>1, <1>2, <2>1
  <2>2. CASE Loose(list)
    <3> DEFINE new == [m \in 1..Len(tree) |-> [tree[m] EXCEPT !.type = Loosened(m)]]
    <3>1. tree' = new
      BY <1>1, <2>2
    <3>2. \A m \in 1..Len(tree) : new[m] \in TreeNode /\ new[m].lines = tree[m].lines
      BY <1>3
    <3>3. DOMAIN new = 1..Len(tree) /\ new = [m \in 1..Len(tree) |-> new[m]]
      OBVIOUS
    <3> HIDE DEF new
    <3> QED BY <1>2, <3>1, <3>2, <3>3, MappedOK
  <2> QED BY <2>1, <2>2
<1> QED BY <1>1, <1>4, CloseOK

LEMMA DeflistEndOK ==
    ASSUME IInv, mmd_parse_tokens_deflist
    PROVE  IInv' /\ Forward
<1> DEFINE list == Top.node
           Tokens(m) == IF m = list + 1 THEN Tokenized(First(tree[m].lines)) ELSE "tokens"
           Told(m) == IF ~Late(list, m) THEN tree[m] ELSE [tree[m] EXCEPT !.tokens = Tokens(m)]
<1>1. /\ Types /\ frames # <<>>
      /\ tree' = [m \in 1..Len(tree) |-> Told(m)] \/ tree' = tree
      /\ frames' = [frames EXCEPT ![Depth] = [@ EXCEPT !.within = "blocks", !.node = 0]]
      /\ UNCHANGED <<lines, type, stripped, dropped, is_endnote>>
      /\ allow_meta' \in BOOLEAN /\ is_definition' \in Int
  <2>1. /\ Types /\ frames # <<>>
        /\ frames' = [frames EXCEPT ![Depth] = [@ EXCEPT !.within = "blocks", !.node = 0]]
        /\ UNCHANGED <<lines, type, stripped, dropped, is_endnote>>
        /\ allow_meta' \in BOOLEAN
    BY DEF mmd_parse_tokens_deflist, Within, IInv
  <2>2. /\ tree' = [m \in 1..Len(tree) |-> Told(m)] \/ tree' = tree
        /\ is_definition' = 0 \/ is_definition' = is_definition
    <3>1. CASE Top.within = "deflist"
      BY <3>1, Zenon DEF mmd_parse_tokens_deflist
    <3>2. CASE Top.within # "deflist"
      BY <3>2, Zenon DEF mmd_parse_tokens_deflist
    <3> QED BY <3>1, <3>2
  <2>3. is_definition' \in Int
    BY <2>1, <2>2 DEF Types
  <2> QED BY <2>1, <2>2, <2>3
<1>2. tree \in Seq(TreeNode) /\ Len(tree) \in Nat /\ \A m \in 1..Len(tree) : tree[m] \in TreeNode
  BY <1>1, LenProperties, ElementOfSeq DEF Types
<1>3. ASSUME NEW m \in 1..Len(tree)
      PROVE  Told(m) \in TreeNode /\ Told(m).lines = tree[m].lines
  <2>1. tree[m] \in TreeNode
    BY <1>2
  <2>2. Tokens(m) \in {"none", "tokens", "exposed"}
    BY TokenizedIs
  <2> HIDE DEF Tokens
  <2> QED BY <2>1, <2>2 DEF TreeNode
<1>4. /\ tree' \in Seq(TreeNode) /\ Len(tree') = Len(tree)
      /\ \A m \in 1..Len(tree) : tree'[m].lines = tree[m].lines
  <2>1. CASE tree' = tree
    BY <1>2, <2>1
  <2>2. CASE tree' = [m \in 1..Len(tree) |-> Told(m)]
    <3> DEFINE new == [m \in 1..Len(tree) |-> Told(m)]
    <3>1. \A m \in 1..Len(tree) : new[m] \in TreeNode /\ new[m].lines = tree[m].lines
      BY <1>3
    <3>2. tree' = new
      BY <2>2
    <3>3. DOMAIN new = 1..Len(tree) /\ new = [m \in 1..Len(tree) |-> new[m]]
      OBVIOUS
    <3> HIDE DEF new
    <3> QED BY <1>2, <3>1, <3>2, <3>3, MappedOK
  <2> QED BY <1>1, <2>1, <2>2
<1> QED BY <1>1, <1>4, CloseOK
-----------------------------------------------------------------------------
\* Only so many markers are stripped.
LEMMA FiniteStripped ==
    ASSUME NEW n \in Nat, NEW count \in [1..n -> Nat]
    PROVE  LET S == UNION {{i} \X (1..count[i]) : i \in 1..n}
           IN  IsFiniteSet(S) /\ Cardinality(S) \in Nat
<1> DEFINE s(i) == {i} \X (1..count[i])
           S == {s(i) : i \in 1..n}
           f == [i \in 1..n |-> s(i)]
<1>1. \A i \in 1..n : IsFiniteSet(s(i))
  <2> SUFFICES ASSUME NEW i \in 1..n PROVE IsFiniteSet({i} \X (1..count[i]))
    OBVIOUS
  <2>1. IsFiniteSet({i})
    BY FS_Singleton
  <2>2. IsFiniteSet(1..count[i])
    BY FS_Interval
  <2> QED BY <2>1, <2>2, FS_Product
<1>2. IsFiniteSet(1..n)
  BY FS_Interval
<1> HIDE DEF s
<1>3. f \in Surjection(1..n, S)
  BY DEF Surjection
<1> HIDE DEF f
<1>4. IsFiniteSet(S)
  <2> HIDE DEF S
  <2> QED BY <1>2, <1>3, FS_Surjection
<1>5. \A T \in S : IsFiniteSet(T)
  BY <1>1
<1>6. IsFiniteSet(UNION S)
  <2> HIDE DEF S
  <2> QED BY <1>4, <1>5, FS_UNION
<1>7. UNION S = UNION {{i} \X (1..count[i]) : i \in 1..n}
  BY DEF s
<1> QED BY <1>6, <1>7, FS_CardinalityType

\* A marker is stripped from some lines, the first of the chain among them, and
\* others get the type of plain text.
LEMMA RescanOK ==
    ASSUME IInv, frames # <<>>, NEW ids \in SUBSET (1..N), NEW disabled \in SUBSET (1..N),
           \A i \in ids : l <= i /\ type[i] \in Markers, \A i \in disabled : l <= i,
           l \in ids, Rescan(ids, disabled), lines' = lines
    PROVE  /\ type' \in [1..N -> LineTypes] /\ stripped' \in [1..N -> Nat] /\ MarkersLeft'
           /\ Cardinality(StrippedMarkers) \in Nat /\ Cardinality(StrippedMarkers)' \in Nat
           /\ Cardinality(StrippedMarkers)' >= Cardinality(StrippedMarkers) + 1
           /\ \A i \in 1..N : i < l => type'[i] = type[i] /\ stripped'[i] = stripped[i]
<1>1. Types /\ MarkersLeft /\ N \in Nat /\ l \in 1..(N + 1)
  BY TopFacts DEF IInv
<1>2. /\ type' = [i \in 1..N |-> IF i \in ids THEN lines[i][stripped[i] + 2]
                                 ELSE IF i \in disabled THEN "plain" ELSE type[i]]
      /\ stripped' = [i \in 1..N |-> IF i \in ids THEN stripped[i] + 1 ELSE stripped[i]]
  BY DEF Rescan
<1>3. N' = N
  BY DEF N
<1>4. ASSUME NEW i \in ids
      PROVE  /\ stripped[i] + 1 < Len(lines[i]) /\ stripped[i] \in Nat
             /\ lines[i][stripped[i] + 2] \in Markers \cup Contents
  <2>1. /\ i \in 1..N /\ stripped[i] \in Nat /\ stripped[i] < Len(lines[i])
        /\ lines[i][stripped[i] + 1] \in Markers
    BY <1>1 DEF Types, MarkersLeft
  <2>2. /\ Len(lines[i]) \in Nat /\ lines[i][Len(lines[i])] \in Contents
        /\ \A k \in 1..Len(lines[i]) : lines[i][k] \in Markers \cup Contents
    BY <1>1, <2>1, DocumentFacts DEF Types
  <2>3. stripped[i] + 1 # Len(lines[i])
    BY <2>1, <2>2, MarkersAreNotContents
  <2>4. stripped[i] + 1 < Len(lines[i]) /\ stripped[i] + 2 \in 1..Len(lines[i])
    BY <2>1, <2>2, <2>3
  <2> QED BY <2>1, <2>2, <2>4
<1>5. type' \in [1..N -> LineTypes]
  <2>1. \A i \in 1..N : type[i] \in LineTypes
    BY <1>1 DEF Types
  <2>2. Markers \cup Contents \subseteq LineTypes /\ "plain" \in LineTypes
    BY DEF LineTypes, Contents
  <2> QED BY <1>2, <1>4, <2>1, <2>2
<1>6. stripped' \in [1..N -> Nat]
  BY <1>1, <1>2 DEF Types
<1>7. MarkersLeft'
  <2> SUFFICES ASSUME NEW i \in 1..N
               PROVE  /\ stripped'[i] < Len(lines[i])
                      /\ type'[i] \in Markers => type'[i] = lines[i][stripped'[i] + 1]
    BY <1>3 DEF MarkersLeft
  <2>1. CASE i \in ids
    <3>1. stripped'[i] = stripped[i] + 1 /\ type'[i] = lines[i][stripped[i] + 2]
      BY <1>2, <2>1
    <3>2. stripped[i] \in Nat /\ stripped[i] + 1 + 1 = stripped[i] + 2
      BY <1>4, <2>1
    <3> QED BY <1>4, <2>1, <3>1, <3>2
  <2>2. CASE i \notin ids
    <3>1. stripped'[i] = stripped[i] /\ (type'[i] = "plain" \/ type'[i] = type[i])
      BY <1>2, <2>2
    <3>2. "plain" \notin Markers
      BY DEF Markers
    <3> QED BY <1>1, <3>1, <3>2 DEF MarkersLeft
  <2> QED BY <2>1, <2>2
<1>8. /\ Cardinality(StrippedMarkers) \in Nat /\ Cardinality(StrippedMarkers)' \in Nat
      /\ Cardinality(StrippedMarkers)' >= Cardinality(StrippedMarkers) + 1
  <2> DEFINE x == <<l, stripped[l] + 1>>
             S == UNION {{i} \X (1..stripped[i]) : i \in 1..N}
             T == UNION {{i} \X (1..stripped'[i]) : i \in 1..N}
  <2>1. StrippedMarkers = S /\ StrippedMarkers' = T
    BY <1>3 DEF StrippedMarkers
  <2>2. IsFiniteSet(S) /\ Cardinality(S) \in Nat
    BY <1>1, FiniteStripped DEF Types
  <2>3. IsFiniteSet(T) /\ Cardinality(T) \in Nat
    BY <1>1, <1>6, FiniteStripped
  <2>4. l \in 1..N /\ stripped[l] \in Nat /\ stripped'[l] = stripped[l] + 1
    BY <1>2, <1>4
  <2>5. x \notin S
    BY <2>4
  <2>6. S \cup {x} \subseteq T
    <3>1. x \in {l} \X (1..stripped'[l])
      BY <2>4
    <3>2. x \in T
      BY <2>4, <3>1
    <3>3. \A i \in 1..N : {i} \X (1..stripped[i]) \subseteq {i} \X (1..stripped'[i])
      BY <1>1, <1>2 DEF Types
    <3> QED BY <3>2, <3>3
  <2> HIDE DEF S, T, x
  <2>7. Cardinality(S \cup {x}) = Cardinality(S) + 1 /\ IsFiniteSet(S \cup {x})
    BY <2>2, <2>5, FS_AddElement
  <2>8. Cardinality(S \cup {x}) <= Cardinality(T)
    BY <2>3, <2>6, FS_Subset
  <2>9. Cardinality(StrippedMarkers)' = Cardinality(T)
    BY <2>1
  <2> QED BY <2>1, <2>2, <2>3, <2>7, <2>8, <2>9
<1>9. \A i \in 1..N : i < l => type'[i] = type[i] /\ stripped'[i] = stripped[i]
  <2>1. \A i \in ids \cup disabled : i \in Int /\ ~(i < l)
    BY <1>1
  <2> QED BY <1>2, <2>1
<1> QED BY <1>5, <1>6, <1>7, <1>8, <1>9

\* blocks() is called: the caller goes on with state f, and the new activation is g.
LEMMA Pushed ==
    ASSUME Types, frames # <<>>, lines' = lines, NEW f \in FrameType, NEW g \in FrameType,
           frames' = Append([frames EXCEPT ![Depth] = f], g)
    PROVE  /\ frames' \in Seq(FrameType) /\ frames' # <<>> /\ Depth' = Depth + 1
           /\ DOMAIN frames' = 1..(Depth + 1) /\ frames'[Depth + 1] = g /\ frames'[Depth] = f
           /\ \A d \in 1..Depth : d # Depth => frames'[d] = frames[d]
           /\ Top' = g /\ l' = g.l /\ stop' = g.stop /\ FrameType' = FrameType
<1> DEFINE s == [frames EXCEPT ![Depth] = f]
<1>1. frames \in Seq(FrameType) /\ Depth \in Nat /\ Depth \in 1..Depth /\ DOMAIN frames = 1..Depth
  BY TopFacts DEF Types
<1>2. s \in Seq(FrameType) /\ Len(s) = Depth
  <2>1. s \in Seq(FrameType) /\ Len(s) = Len(frames)
    BY <1>1, ExceptSeq
  <2> QED BY <2>1 DEF Depth
<1>3. s[Depth] = f /\ \A d \in 1..Depth : d # Depth => s[d] = frames[d]
  BY <1>1
<1>4. frames' = Append(s, g)
  OBVIOUS
<1> HIDE DEF s
<1>5. /\ frames' \in Seq(FrameType) /\ frames' # <<>> /\ Len(frames') = Depth + 1
      /\ \A d \in 1..Depth : frames'[d] = s[d]
      /\ frames'[Depth + 1] = g
  <2>1. /\ Append(s, g) \in Seq(FrameType) /\ Append(s, g) # <<>> /\ Len(Append(s, g)) = Len(s) + 1
        /\ \A d \in 1..Len(s) : Append(s, g)[d] = s[d]
        /\ Append(s, g)[Len(s) + 1] = g
    BY <1>2, AppendProperties
  <2> QED BY <1>2, <1>4, <2>1
<1>6. Depth' = Depth + 1 /\ DOMAIN frames' = 1..(Depth + 1)
  BY <1>5, LenProperties DEF Depth
<1>7. Top' = g
  BY <1>5, <1>6 DEF Top
<1>8. l' = g.l /\ stop' = g.stop
  BY <1>7 DEF l, stop
<1>9. FrameType' = FrameType
  BY DEF FrameType, N
<1> QED BY <1>1, <1>3, <1>5, <1>6, <1>7, <1>8, <1>9

\* A block gets children: blocks() is called for the lines l..last.
LEMMA EnterOK ==
    ASSUME IInv, frames # <<>>, Top.within # "table", l <= stop,
           NEW kind \in Kinds \ {"doc"}, NEW node \in Nodes, NEW depth \in Nat,
           NEW last \in l..stop, NEW next \in (last + 1)..(stop + 1),
           NEW ids \in SUBSET (1..N), NEW disabled \in SUBSET (1..N),
           \A i \in ids : l <= i /\ type[i] \in Markers, \A i \in disabled : l <= i, l \in ids,
           Enter(kind, node, depth, last, next), Rescan(ids, disabled),
           IF kind = "note" THEN is_endnote = 0 /\ is_endnote' = 1 ELSE is_endnote' = is_endnote,
           is_definition' \in Int
    PROVE  IInv' /\ Forward
<1> DEFINE f == [Top EXCEPT !.l = next]
           g == Frame(kind, l, last, depth + 1)
           x == Node(node, depth, {}, "none")
<1>1. Types /\ MarkersLeft /\ Nested /\ Rooted /\ InTable /\ OneNote /\ Bounded /\ PlacedOnce
      /\ OnlyUnreadableNotesAreLost
  BY DEF IInv
<1>2. /\ Depth \in Nat /\ Depth >= 1 /\ DOMAIN frames = 1..Depth /\ Depth \in 1..Depth
      /\ \A d \in 1..Depth : frames[d] \in FrameType
      /\ Top \in FrameType /\ Top = frames[Depth] /\ l = Top.l /\ stop = Top.stop
      /\ l \in 1..(N + 1) /\ stop \in 1..N /\ N \in Nat
  BY <1>1, TopFacts, Zenon
<1>3. /\ tree' = Append(tree, x) /\ frames' = Append([frames EXCEPT ![Depth].l = next], g)
      /\ UNCHANGED <<lines, dropped, allow_meta>>
  BY DEF Enter
<1>4. frames' = Append([frames EXCEPT ![Depth] = f], g)
  BY <1>2, <1>3
<1>5. /\ f \in FrameType /\ f.l = next /\ f.stop = stop /\ f.kind = Top.kind /\ f.depth = Top.depth /\ f.within = Top.within
      /\ f.node = Top.node
  <2>1. next \in 1..(N + 1)
    BY <1>2
  <2> QED BY <1>2, <2>1 DEF FrameType
<1>6. /\ g \in FrameType /\ g.l = l /\ g.stop = last /\ g.kind = kind /\ g.within = "blocks" /\ g.node = 0
      /\ g.depth = depth + 1
  <2>1. last \in 1..N /\ depth + 1 \in Nat
    BY <1>2, SMTT(30)
  <2> QED BY <1>2, <2>1 DEF Frame, FrameType, Parts
<1>7. x \in TreeNode /\ x.lines = {}
  BY DEF Node, TreeNode
<1> HIDE DEF f, g, x
<1>8. /\ frames' \in Seq(FrameType) /\ frames' # <<>> /\ Depth' = Depth + 1
      /\ DOMAIN frames' = 1..(Depth + 1) /\ frames'[Depth + 1] = g /\ frames'[Depth] = f
      /\ \A d \in 1..Depth : d # Depth => frames'[d] = frames[d]
      /\ Top' = g /\ l' = g.l /\ stop' = g.stop /\ FrameType' = FrameType
  BY <1>1, <1>3, <1>4, <1>5, <1>6, Pushed, Zenon
<1>9. N' = N /\ TreeNode' = TreeNode
  BY <1>3 DEF N, TreeNode
<1>10. tree \in Seq(TreeNode) /\ Len(tree) \in Nat
  BY <1>1, LenProperties DEF Types
<1>11. /\ tree' \in Seq(TreeNode) /\ Len(tree') = Len(tree) + 1
       /\ Single(tree') /\ \A i : Holds(tree', i) <=> Holds(tree, i)
  <2>1. /\ <<x>> \in Seq(TreeNode) /\ Len(<<x>>) = 1 /\ Single(<<x>>) /\ \A i : ~Holds(<<x>>, i)
    BY <1>7, NodePlaces
  <2>2. tree' = tree \o <<x>>
    BY <1>3, <1>7, <1>10, AppendIsConcat
  <2>3. Single(tree)
    BY <1>1 DEF PlacedOnce
  <2>4. /\ tree \o <<x>> \in Seq(TreeNode) /\ Len(tree \o <<x>>) = Len(tree) + Len(<<x>>)
        /\ Single(tree \o <<x>>)
        /\ \A i : Holds(tree \o <<x>>, i) <=> Holds(tree, i) \/ Holds(<<x>>, i)
    BY <1>10, <2>1, <2>3, ConcatPlaces
  <2> QED BY <2>1, <2>2, <2>4
<1>12. /\ type' \in [1..N -> LineTypes] /\ stripped' \in [1..N -> Nat] /\ MarkersLeft'
       /\ Cardinality(StrippedMarkers) \in Nat /\ Cardinality(StrippedMarkers)' \in Nat
       /\ Cardinality(StrippedMarkers)' >= Cardinality(StrippedMarkers) + 1
       /\ \A i \in 1..N : i < l => type'[i] = type[i] /\ stripped'[i] = stripped[i]
  BY <1>3, RescanOK
<1>13. Types'
  BY <1>1, <1>3, <1>8, <1>9, <1>11, <1>12 DEF Types
<1>14. Nested'
  <2>1. ASSUME NEW d \in 1..(Depth + 1)
        PROVE  frames'[d].l <= frames'[d].stop + 1 /\ frames'[d].node <= Len(tree')
    <3>1. CASE d = Depth + 1
      <4>1. frames'[d] = g
        BY <1>8, <3>1
      <4> QED BY <1>2, <1>6, <1>10, <1>11, <4>1, SMTT(30)
    <3>2. CASE d # Depth + 1
      <4>1. d \in 1..Depth
        BY <1>2, <3>2
      <4>2. frames[d].l <= frames[d].stop + 1 /\ frames[d].node <= Len(tree) /\ frames[d].node \in Nat
        BY <1>1, <1>2, <4>1 DEF Nested, FrameType
      <4>3. CASE d = Depth
        <5>1. frames'[d] = f /\ frames[d] = Top
          BY <1>2, <1>8, <4>3
        <5>2. f.l <= f.stop + 1
          BY <1>2, <1>5
        <5>3. f.node <= Len(tree')
          BY <1>5, <1>10, <1>11, <4>2, <5>1
        <5> QED BY <5>1, <5>2, <5>3
      <4>4. CASE d # Depth
        BY <1>8, <1>10, <1>11, <4>1, <4>2, <4>4
      <4> QED BY <4>3, <4>4
    <3> QED BY <3>1, <3>2
  <2>2. ASSUME NEW d \in 1..(Depth + 1), d > 1
        PROVE  frames'[d].stop < frames'[d - 1].l /\ frames'[d - 1].within # "table"
    <3>1. CASE d = Depth + 1
      <4>1. frames'[d] = g /\ frames'[d - 1] = f
        BY <1>2, <1>8, <3>1
      <4> QED BY <1>2, <1>5, <1>6, <4>1
    <3>2. CASE d # Depth + 1
      <4>1. d \in 1..Depth /\ d - 1 \in 1..Depth /\ d - 1 # Depth
        BY <1>2, <2>2, <3>2
      <4>2. frames'[d - 1] = frames[d - 1]
        BY <1>8, <4>1
      <4>3. frames[d].stop < frames[d - 1].l /\ frames[d - 1].within # "table"
        BY <1>1, <1>2, <2>2, <4>1 DEF Nested
      <4>4. frames'[d].stop = frames[d].stop
        BY <1>2, <1>5, <1>8, <4>1
      <4> QED BY <4>2, <4>3, <4>4
    <3> QED BY <3>1, <3>2
  <2>3. frames'[1].stop = N'
    <3>1. 1 \in 1..Depth /\ frames[1].stop = N
      BY <1>1, <1>2 DEF Nested
    <3> QED BY <1>2, <1>5, <1>8, <1>9, <3>1
  <2> QED BY <1>8, <2>1, <2>2, <2>3 DEF Nested
<1>15. Rooted'
  <2> SUFFICES ASSUME NEW d \in 1..(Depth + 1)
               PROVE  /\ frames'[d].kind = "doc" <=> d = 1
                      /\ d > 1 => frames'[d].depth > 0
    BY <1>8 DEF Rooted
  <2>1. CASE d = Depth + 1
    BY <1>2, <1>6, <1>8, <2>1
  <2>2. CASE d # Depth + 1
    <3>1. d \in 1..Depth
      BY <1>2, <2>2
    <3>2. frames'[d].kind = frames[d].kind /\ frames'[d].depth = frames[d].depth
      BY <1>2, <1>5, <1>8, <3>1
    <3> QED BY <1>1, <1>2, <3>1, <3>2 DEF Rooted
  <2> QED BY <2>1, <2>2
<1>16. InTable'
  BY <1>6, <1>8 DEF InTable
<1>17. OneNote'
  <2>1. \A d \in 1..Depth : frames'[d].kind = frames[d].kind
    BY <1>2, <1>5, <1>8
  <2>2. /\ is_endnote \in {0, 1}
        /\ \A d, e \in 1..Depth : frames[d].kind = "note" /\ frames[e].kind = "note" => d = e
        /\ is_endnote = 1 <=> \E d \in 1..Depth : frames[d].kind = "note"
    BY <1>1, <1>2 DEF OneNote
  <2>3. frames'[Depth + 1].kind = kind /\ \A d \in 1..(Depth + 1) : d \in 1..Depth \/ d = Depth + 1
    BY <1>2, <1>6, <1>8
  <2>4. 1..Depth \subseteq 1..(Depth + 1) /\ Depth + 1 \in 1..(Depth + 1)
    BY <1>2
  <2>5. CASE kind = "note"
    <3>1. is_endnote = 0 /\ is_endnote' = 1
      BY <2>5
    <3>2. \A d \in 1..Depth : frames'[d].kind # "note"
      BY <2>1, <2>2, <3>1
    <3>3. \A d \in 1..(Depth + 1) : frames'[d].kind = "note" => d = Depth + 1
      BY <2>3, <3>2
    <3> QED BY <1>8, <2>3, <2>4, <2>5, <3>1, <3>3 DEF OneNote
  <2>6. CASE kind # "note"
    <3>1. is_endnote' = is_endnote
      BY <2>6
    <3>2. \A d \in 1..(Depth + 1) : frames'[d].kind = "note" => d \in 1..Depth /\ frames[d].kind = "note"
      BY <2>1, <2>3, <2>6
    <3> QED BY <1>8, <2>1, <2>2, <2>4, <3>1, <3>2 DEF OneNote
  <2> QED BY <2>5, <2>6
<1>18. Bounded'
  <2>1. Depth <= 1 + Cardinality(StrippedMarkers)
    BY <1>1 DEF Bounded
  <2>2. Depth' <= 1 + Cardinality(StrippedMarkers)'
    BY <1>2, <1>8, <1>12, <2>1
  <2> QED BY <2>2 DEF Bounded
<1>19. PlacedOnce'
  <2>1. l' = l /\ frames' # <<>> /\ dropped' = dropped
    BY <1>3, <1>6, <1>8
  <2> QED BY <1>1, <1>9, <1>11, <2>1 DEF PlacedOnce
<1>20. OnlyUnreadableNotesAreLost'
  <2>1. \A i \in dropped : i \in 1..N /\ i < l
    BY <1>1 DEF PlacedOnce, Types
  <2>2. \A i \in dropped : type'[i] = type[i] /\ stripped'[i] = stripped[i]
    BY <1>12, <2>1
  <2>3. \A j \in dropped : Marked({j}, Markers \ {"indented"})' <=> Marked({j}, Markers \ {"indented"})
    BY <1>3, <2>2 DEF Marked
  <2>4. ASSUME NEW i \in dropped, type[i] # "empty"
        PROVE  \E j \in 1..i : /\ j..i \subseteq dropped /\ type'[j] = "def_note"
                               /\ Marked({j}, Markers \ {"indented"})'
    <3>1. PICK j \in 1..i : /\ j..i \subseteq dropped /\ type[j] = "def_note"
                            /\ Marked({j}, Markers \ {"indented"})
      BY <1>1, <2>4 DEF OnlyUnreadableNotesAreLost
    <3>2. j \in dropped
      BY <1>2, <2>1, <3>1
    <3> QED BY <2>2, <2>3, <3>1, <3>2
  <2> QED BY <1>3, <2>2, <2>4 DEF OnlyUnreadableNotesAreLost
<1>21. Forward
  BY <1>3, <1>11 DEF Forward
<1> QED BY <1>12, <1>13, <1>14, <1>15, <1>16, <1>17, <1>18, <1>19, <1>20, <1>21 DEF IInv

LEMMA QuoteOK ==
    ASSUME IInv, block_blockquote
    PROVE  IInv' /\ Forward
<1>1. At({"blockquote"}) /\ UNCHANGED <<is_definition, is_endnote>>
  BY DEF block_blockquote
<1>2. /\ Types /\ frames # <<>> /\ Top.within = "blocks" /\ l <= stop /\ type[l] = "blockquote"
      /\ l \in 1..N /\ stop \in 1..N /\ N \in Nat /\ l \in l..(stop + 1)
  BY <1>1, AtIs
<1>3. PICK end \in Behind(l, accept_blockquote_line) :
          /\ Enter("quote", "blockquote", Top.depth, end - 1, end)
          /\ recursive_blockquote_parse(end - 1)
  BY DEF block_blockquote
<1> DEFINE ids == {i \in l..(end - 1) : type[i] = "blockquote"}
           disabled == {i \in l..(end - 1) : type[i] = "setext1"}
<1>4. end \in (l + 1)..(stop + 1)
  <2>1. end \in l..(stop + 1) /\ end > l
    BY <1>2, BehindIs DEF accept_blockquote_line
  <2> QED BY <1>2, <2>1
<1>5. end - 1 \in l..stop /\ end \in ((end - 1) + 1)..(stop + 1) /\ l..(end - 1) \subseteq 1..N /\ l \in l..(end - 1)
  BY <1>2, <1>4
<1>6. /\ ids \in SUBSET (1..N) /\ disabled \in SUBSET (1..N)
      /\ \A i \in ids : l <= i /\ type[i] \in Markers
      /\ \A i \in disabled : l <= i
      /\ l \in ids
  BY <1>2, <1>5 DEF Markers
<1>7. Rescan(ids, disabled)
  BY <1>3 DEF recursive_blockquote_parse
<1> HIDE DEF ids, disabled
<1>8. "quote" \in Kinds \ {"doc"} /\ "blockquote" \in Nodes /\ Top.depth \in Nat
  BY <1>2, TopFacts DEF Kinds, Nodes, Blocks, FrameType
<1>9. is_definition' \in Int /\ Top.within # "table"
  BY <1>1, <1>2 DEF Types
<1>10. IF "quote" = "note" THEN is_endnote = 0 /\ is_endnote' = 1 ELSE is_endnote' = is_endnote
  BY <1>1
<1>11. Enter("quote", "blockquote", Top.depth, end - 1, end)
  BY <1>3
<1> QED BY <1>2, <1>5, <1>6, <1>7, <1>8, <1>9, <1>10, <1>11, EnterOK

\* The lines of an item, a definition or a note, and those that are stripped.
LEMMA ExtentsAre ==
    ASSUME Types, frames # <<>>, l <= stop, NEW types, NEW x \in Extents(types), type[l] \in Markers
    PROVE  /\ x.end - 1 \in l..stop /\ x.rest \in ((x.end - 1) + 1)..(stop + 1)
           /\ x.end \in 1..(N + 1) /\ x.rest \in 1..(N + 1) /\ x.end <= x.rest
           /\ LET ids == {i \in l..(x.end - 1) : i = l \/ type[i] = "indented"}
              IN  /\ ids \in SUBSET (1..N) /\ l \in ids
                  /\ \A i \in ids : l <= i /\ type[i] \in Markers
           /\ LET disabled == {i \in l..(x.end - 1) : type[i] \in {"setext1", "setext2"}}
              IN  disabled \in SUBSET (1..N) /\ \A i \in disabled : l <= i
<1>1. l \in 1..(N + 1) /\ stop \in 1..N /\ N \in Nat
  BY TopFacts
<1>2. /\ x.end \in (l + 1)..(stop + 1) /\ x.rest \in (l + 1)..(stop + 1)
      /\ x.rest \in Behind(x.end, {"empty"})
  BY DEF Extents
<1>3. x.rest \in x.end..(stop + 1)
  BY <1>2 DEF Behind
<1>4. /\ x.end - 1 \in l..stop /\ x.rest \in ((x.end - 1) + 1)..(stop + 1)
      /\ x.end \in 1..(N + 1) /\ x.rest \in 1..(N + 1) /\ x.end <= x.rest
      /\ l..(x.end - 1) \subseteq 1..N /\ l \in l..(x.end - 1)
      /\ \A i \in l..(x.end - 1) : l <= i
  BY <1>1, <1>2, <1>3
<1>5. "indented" \in Markers
  BY DEF Markers
<1> QED BY <1>4, <1>5

LEMMA ItemOK ==
    ASSUME IInv, block_list_item
    PROVE  IInv' /\ Forward
<1>1. /\ Types /\ frames # <<>> /\ Top.within \in {"bullet", "enum"} /\ Goes({Top.within})
      /\ UNCHANGED <<is_definition, is_endnote>>
  BY DEF block_list_item, Within, IInv
<1>2. l <= stop /\ type[l] \in Markers
  BY <1>1 DEF Goes, Markers
<1>3. PICK x \in Extents(accept_chunk_line) :
          /\ Enter("item", IF \E k \in x.head..(x.end - 1) : type[k] = "empty" THEN "item" ELSE "item_tight",
                   Top.depth + 1, x.end - 1, x.rest)
          /\ recursive_indent_parse(x.end - 1)
  BY DEF block_list_item
<1> DEFINE ids == {i \in l..(x.end - 1) : i = l \/ type[i] = "indented"}
           disabled == {i \in l..(x.end - 1) : type[i] \in {"setext1", "setext2"}}
           node == IF \E k \in x.head..(x.end - 1) : type[k] = "empty" THEN "item" ELSE "item_tight"
<1>4. /\ x.end - 1 \in l..stop /\ x.rest \in ((x.end - 1) + 1)..(stop + 1)
      /\ ids \in SUBSET (1..N) /\ l \in ids /\ \A i \in ids : l <= i /\ type[i] \in Markers
      /\ disabled \in SUBSET (1..N) /\ \A i \in disabled : l <= i
  BY <1>1, <1>2, ExtentsAre
<1>5. Rescan(ids, disabled)
  BY <1>3 DEF recursive_indent_parse
<1>6. Enter("item", node, Top.depth + 1, x.end - 1, x.rest)
  BY <1>3
<1>7. node \in Nodes
  BY DEF Nodes, Items
<1> HIDE DEF ids, disabled, node
<1>8. "item" \in Kinds \ {"doc"} /\ Top.depth + 1 \in Nat
  BY <1>1, TopFacts DEF Kinds, FrameType
<1>9. is_definition' \in Int /\ Top.within # "table"
  BY <1>1 DEF Types
<1>10. IF "item" = "note" THEN is_endnote = 0 /\ is_endnote' = 1 ELSE is_endnote' = is_endnote
  BY <1>1
<1> QED BY <1>1, <1>2, <1>4, <1>5, <1>6, <1>7, <1>8, <1>9, <1>10, EnterOK

LEMMA DefinitionOK ==
    ASSUME IInv, block_definition
    PROVE  IInv' /\ Forward
<1>1. /\ Types /\ frames # <<>> /\ Top.within \in {"deflist", "raw deflist"} /\ Goes({"definition"})
      /\ is_definition' = is_definition + 1 /\ UNCHANGED is_endnote
  BY DEF block_definition, Within, IInv
<1>2. l <= stop /\ type[l] \in Markers
  BY <1>1 DEF Goes, Markers
<1>3. PICK x \in Extents(accept_tail_line) :
          /\ Enter("definition", "definition", Top.depth + 1, x.end - 1, x.rest)
          /\ recursive_indent_parse(x.end - 1)
  BY DEF block_definition
<1> DEFINE ids == {i \in l..(x.end - 1) : i = l \/ type[i] = "indented"}
           disabled == {i \in l..(x.end - 1) : type[i] \in {"setext1", "setext2"}}
<1>4. /\ x.end - 1 \in l..stop /\ x.rest \in ((x.end - 1) + 1)..(stop + 1)
      /\ ids \in SUBSET (1..N) /\ l \in ids /\ \A i \in ids : l <= i /\ type[i] \in Markers
      /\ disabled \in SUBSET (1..N) /\ \A i \in disabled : l <= i
  BY <1>1, <1>2, ExtentsAre
<1>5. Rescan(ids, disabled)
  BY <1>3 DEF recursive_indent_parse
<1>6. Enter("definition", "definition", Top.depth + 1, x.end - 1, x.rest)
  BY <1>3
<1> HIDE DEF ids, disabled
<1>7. "definition" \in Nodes
  BY DEF Nodes
<1>8. "definition" \in Kinds \ {"doc"} /\ Top.depth + 1 \in Nat
  <2>1. Top \in FrameType
    BY <1>1, TopFacts
  <2>2. Top.depth \in Nat
    BY <2>1 DEF FrameType
  <2> QED BY <2>2 DEF Kinds
<1>9. is_definition' \in Int /\ Top.within # "table"
  <2>1. is_definition \in Int
    BY <1>1 DEF Types
  <2>2. is_definition' = is_definition + 1
    BY <1>1
  <2>3. Top.within # "table"
    BY <1>1
  <2> QED BY <2>1, <2>2, <2>3
<1>10. IF "definition" = "note" THEN is_endnote = 0 /\ is_endnote' = 1 ELSE is_endnote' = is_endnote
  BY <1>1
<1> QED BY <1>1, <1>2, <1>4, <1>5, <1>6, <1>7, <1>8, <1>9, <1>10, EnterOK

\* A note with a label has children; one without is dropped.
LEMMA NoteOK ==
    ASSUME IInv, block_endnote_definition
    PROVE  IInv' /\ Forward
<1>1. At({"def_note"}) /\ ~NoteInNote /\ UNCHANGED is_definition
  BY DEF block_endnote_definition
<1>2. /\ Types /\ frames # <<>> /\ Top.within = "blocks" /\ l <= stop /\ type[l] = "def_note"
      /\ l \in 1..N /\ stop \in 1..N /\ N \in Nat /\ type[l] \in Markers /\ lines \in Documents
  BY <1>1, AtIs DEF Markers, Types
<1>3. is_endnote = 0
  BY <1>1, <1>2 DEF NoteInNote
<1>4. PICK x \in Extents(accept_chunk_line) :
          IF scan_ref_endnote(l)
          THEN /\ Enter("note", "def_note", Top.depth, x.end - 1, x.rest)
               /\ recursive_endnote_parse(x.end - 1)
               /\ is_endnote' = is_endnote + 1
          ELSE /\ Emit(<<Node("para", Top.depth, {}, "none")>> \o Empties(x.end, x.rest, Top.depth), x.rest)
               /\ dropped' = dropped \cup (l..(x.end - 1))
               /\ allow_meta' = FALSE
               /\ UNCHANGED <<lines, type, stripped, is_endnote>>
  BY DEF block_endnote_definition
<1> DEFINE ids == {i \in l..(x.end - 1) : i = l \/ type[i] = "indented"}
           end == x.end
           rest == x.rest
<1>5. /\ end - 1 \in l..stop /\ rest \in ((end - 1) + 1)..(stop + 1)
      /\ end \in 1..(N + 1) /\ rest \in 1..(N + 1) /\ end <= rest
      /\ ids \in SUBSET (1..N) /\ l \in ids /\ \A i \in ids : l <= i /\ type[i] \in Markers
  BY <1>2, ExtentsAre
<1>6. CASE scan_ref_endnote(l)
  <2>1. /\ Enter("note", "def_note", Top.depth, end - 1, rest) /\ is_endnote' = 1
        /\ Rescan(ids, {})
    BY <1>3, <1>4, <1>6 DEF recursive_endnote_parse
  <2> HIDE DEF ids, end, rest
  <2>2. "def_note" \in Nodes /\ "note" \in Kinds \ {"doc"} /\ Top.depth \in Nat
    BY <1>2, TopFacts DEF Nodes, Blocks, Kinds, FrameType
  <2>3. is_definition' \in Int /\ Top.within # "table"
    BY <1>1, <1>2 DEF Types
  <2>4. IF "note" = "note" THEN is_endnote = 0 /\ is_endnote' = 1 ELSE is_endnote' = is_endnote
    BY <1>3, <2>1
  <2>5. {} \in SUBSET (1..N) /\ \A i \in {} : l <= i
    OBVIOUS
  <2> QED BY <1>2, <1>5, <2>1, <2>2, <2>3, <2>4, <2>5, EnterOK
<1>7. CASE ~scan_ref_endnote(l)
  <2> DEFINE f == [Top EXCEPT !.l = rest]
             y == Node("para", Top.depth, {}, "none")
             e == Empties(end, rest, Top.depth)
             lost == l..(end - 1)
  <2>1. /\ Top \in FrameType /\ Top = frames[Depth] /\ Depth \in 1..Depth
        /\ l = Top.l /\ stop = Top.stop /\ DOMAIN frames = 1..Depth
    BY <1>2, TopFacts, Zenon
  <2>2. /\ tree' = tree \o (<<y>> \o e) /\ frames' = [frames EXCEPT ![Depth] = f]
        /\ dropped' = dropped \cup lost /\ allow_meta' = FALSE
        /\ UNCHANGED <<lines, type, stripped, is_endnote>>
    BY <1>4, <1>7, <2>1 DEF Emit
  <2>3. Top.depth \in Nat /\ Top.node \in Nat
    BY <2>1 DEF FrameType
  <2>4. f \in FrameType /\ f.l = rest /\ f.stop = stop /\ f.kind = Top.kind /\ f.depth = Top.depth /\ f.within = "blocks"
        /\ f.node = Top.node
    BY <1>2, <1>5, <2>1 DEF FrameType
  <2>5. y \in TreeNode /\ y.lines = {}
    BY <2>3 DEF Node, TreeNode, Nodes, Blocks
  <2>6. e \in Seq(TreeNode) /\ Single(e) /\ \A i : Holds(e, i) <=> i \in end..(rest - 1)
    BY <1>2, <1>5, <2>3, EmptiesPlace
  <2>7. Marked({l}, Markers \ {"indented"})
    BY <1>7 DEF scan_ref_endnote
  <2> HIDE DEF f, y, e
  <2>8. /\ <<y>> \in Seq(TreeNode) /\ Len(<<y>>) = 1 /\ Single(<<y>>) /\ \A i : ~Holds(<<y>>, i)
    BY <2>5, NodePlaces
  <2>9. \A i : ~(Holds(<<y>>, i) /\ Holds(e, i))
    BY <2>8
  <2> DEFINE nodes == <<y>> \o e
  <2>10. /\ nodes \in Seq(TreeNode) /\ Len(nodes) = Len(<<y>>) + Len(e) /\ Single(nodes)
         /\ \A i : Holds(nodes, i) <=> Holds(<<y>>, i) \/ Holds(e, i)
    BY <2>6, <2>8, <2>9, ConcatPlaces
  <2>11. tree' = tree \o nodes
    BY <2>2
  <2> HIDE DEF nodes
  <2>12. \A i : Holds(nodes, i) <=> i \in end..(rest - 1)
    BY <2>6, <2>8, <2>10
  <2>13. /\ \A i \in 1..N : (i \in lost \/ Holds(nodes, i)) <=> (l <= i /\ i < f.l)
         /\ \A i \in lost : ~Holds(nodes, i)
    BY <1>2, <1>5, <2>4, <2>12, SMTT(30)
  <2>14. l <= f.l /\ f.l <= stop + 1 /\ lost \in SUBSET (1..N)
    BY <1>2, <1>5, <2>4
  <2>15. f.node <= Len(tree) + Len(nodes)
    <3>1. Top.node <= Len(tree) /\ Len(tree) \in Nat /\ Len(nodes) \in Nat
      BY <1>2, <2>1, <2>10, LenProperties DEF IInv, Nested, Types
    <3> QED BY <2>3, <2>4, <3>1
  <2>16. \A i \in lost : \/ type'[i] = "empty"
                         \/ \E j \in 1..i : /\ j..i \subseteq lost /\ type'[j] = "def_note"
                                            /\ Marked({j}, Markers \ {"indented"})
    <3> SUFFICES ASSUME NEW i \in lost
                 PROVE  /\ l \in 1..i /\ l..i \subseteq lost /\ type'[l] = "def_note"
                        /\ Marked({l}, Markers \ {"indented"})
      OBVIOUS
    <3> QED BY <1>2, <1>5, <2>2, <2>7
  <2>17. /\ type' \in [1..N -> LineTypes]
         /\ \A i \in 1..N : type'[i] = type[i] \/ (l <= i /\ type'[i] \notin Markers)
    BY <1>2, <2>2, SameTypes
  <2>18. f.within = "table" => f.node # 0 /\ f.l <= stop /\ type'[f.l] \in accept_table_line
    BY <2>4
  <2>19. UNCHANGED <<lines, stripped, is_endnote>> /\ allow_meta' \in BOOLEAN /\ is_definition' \in Int
    BY <1>1, <1>2, <2>2 DEF Types
  <2> HIDE DEF lost, end, rest
  <2> QED BY <1>2, <2>2, <2>4, <2>10, <2>11, <2>13, <2>14, <2>15, <2>16, <2>17, <2>18, <2>19, EmitOK
<1> QED BY <1>6, <1>7
-----------------------------------------------------------------------------
\* The block at k gets other lines, of its own or of no block.
LEMMA LinesReplaced ==
    ASSUME IInv, NEW k \in 1..Len(tree), NEW S \in SUBSET (1..N),
           \A i \in S : i \in tree[k].lines \/ ~Holds(tree, i)
    PROVE  LET t == [tree EXCEPT ![k].lines = S]
           IN  /\ t \in Seq(TreeNode) /\ Len(t) = Len(tree) /\ Single(t)
               /\ \A i : Holds(t, i) <=> i \in S \/ (Holds(tree, i) /\ i \notin tree[k].lines)
<1> DEFINE x == [tree[k] EXCEPT !.lines = S]
           t == [tree EXCEPT ![k].lines = S]
<1>1. tree \in Seq(TreeNode) /\ Len(tree) \in Nat /\ DOMAIN tree = 1..Len(tree) /\ Single(tree)
  BY LenProperties DEF IInv, Types, PlacedOnce
<1>2. tree[k] \in TreeNode
  BY <1>1, ElementOfSeq
<1>3. x \in TreeNode /\ x.lines = S
  BY <1>2 DEF TreeNode
<1>4. t = [tree EXCEPT ![k] = x]
  BY <1>1
<1> HIDE DEF x, t
<1>5. t \in Seq(TreeNode) /\ Len(t) = Len(tree)
  BY <1>1, <1>3, <1>4, ExceptSeq
<1>6. DOMAIN t = 1..Len(tree) /\ t[k].lines = S /\ \A m \in 1..Len(tree) : m # k => t[m] = tree[m]
  BY <1>1, <1>3, <1>4
<1>7. \A m \in 1..Len(tree) : m # k => S \cap tree[m].lines = {}
  BY <1>1 DEF Single, Holds
<1>8. Single(t)
  BY <1>1, <1>6, <1>7 DEF Single
<1>9. ASSUME NEW i PROVE Holds(t, i) <=> i \in S \/ (Holds(tree, i) /\ i \notin tree[k].lines)
  <2>1. ASSUME Holds(t, i), i \notin S PROVE Holds(tree, i) /\ i \notin tree[k].lines
    <3>1. PICK m \in 1..Len(tree) : i \in t[m].lines
      BY <1>6, <2>1 DEF Holds
    <3>2. m # k
      BY <1>6, <2>1, <3>1
    <3> QED BY <1>1, <1>6, <3>1, <3>2 DEF Holds, Single
  <2>2. ASSUME Holds(tree, i), i \notin tree[k].lines PROVE Holds(t, i)
    <3>1. PICK m \in 1..Len(tree) : i \in tree[m].lines
      BY <1>1, <2>2 DEF Holds
    <3>2. m # k
      BY <2>2, <3>1
    <3> QED BY <1>6, <3>1, <3>2 DEF Holds
  <2>3. ASSUME i \in S PROVE Holds(t, i)
    BY <1>6, <2>3 DEF Holds
  <2> QED BY <2>1, <2>2, <2>3
<1> QED BY <1>5, <1>8, <1>9 DEF t

\* Another section of the table, and the empty line before the next one, which
\* is put into the header; or the last, and empty lines of the header vanish.
LEMMA SectionOK ==
    ASSUME IInv, block_table_section
    PROVE  IInv' /\ Forward
<1>1. /\ frames # <<>> /\ Top.within = "table" /\ allow_meta' = FALSE
      /\ UNCHANGED <<lines, type, stripped, is_definition, is_endnote>>
  BY DEF block_table_section
<1> DEFINE k == Top.node
           header == tree[k].lines
           empty(end) == end <= stop /\ type[end] = "empty"
           next(end) == IF empty(end) THEN end + 1 ELSE end
           section(end) == Node("table_section", Top.depth + 1, l..(end - 1), Rows(l..(end - 1)))
           more(end) == empty(end) /\ end < stop /\ type[end + 1] \in accept_table_line
<1>2. PICK end \in Behind(l, accept_table_line) :
          IF more(end)
          THEN /\ tree' = Append([tree EXCEPT ![k].lines = @ \cup {end}], section(end))
               /\ frames' = [frames EXCEPT ![Depth].l = next(end)]
               /\ UNCHANGED dropped
          ELSE /\ tree' = [tree EXCEPT ![k].lines = @ \ Vanishing(header)] \o <<section(end)>>
                          \o Empties(end, next(end), Top.depth)
               /\ dropped' = dropped \cup Vanishing(header)
               /\ frames' = [frames EXCEPT ![Depth] = [@ EXCEPT
                      !.l = next(end), !.within = "blocks", !.node = 0]]
  BY DEF block_table_section
<1>3. Types /\ Nested /\ PlacedOnce /\ lines \in Documents
  BY DEF IInv, Types
<1>4. /\ Top \in FrameType /\ Top = frames[Depth] /\ Depth \in 1..Depth /\ DOMAIN frames = 1..Depth
      /\ l \in 1..(N + 1) /\ stop \in 1..N /\ N \in Nat /\ l = Top.l /\ stop = Top.stop
  BY <1>1, <1>3, TopFacts, Zenon
<1>5. k # 0 /\ l <= stop /\ type[l] \in accept_table_line
  BY <1>1 DEF IInv, InTable
<1>6. tree \in Seq(TreeNode) /\ Len(tree) \in Nat /\ DOMAIN tree = 1..Len(tree)
  BY <1>3, LenProperties DEF Types
<1>7. k \in 1..Len(tree) /\ Top.depth \in Nat
  <2>1. k \in Nat /\ Top.depth \in Nat
    BY <1>4 DEF FrameType
  <2>2. k <= Len(tree)
    BY <1>3, <1>4 DEF Nested
  <2> QED BY <1>5, <1>6, <2>1, <2>2
<1>8. header \subseteq 1..N /\ \A i \in header : Holds(tree, i) /\ i < l
  <2>1. tree[k] \in TreeNode
    BY <1>6, <1>7, ElementOfSeq
  <2>2. header \subseteq 1..N
    BY <2>1 DEF TreeNode
  <2>3. \A i \in header : Holds(tree, i)
    BY <1>6, <1>7 DEF Holds
  <2> QED BY <1>1, <1>3, <2>2, <2>3 DEF PlacedOnce
<1>9. end \in (l + 1)..(stop + 1) /\ next(end) \in end..(stop + 1)
  <2>1. end \in l..(stop + 1) /\ end > l
    <3>1. l \in l..(stop + 1)
      BY <1>4, <1>5
    <3> QED BY <1>1, <1>3, <1>5, <3>1, BehindIs
  <2> QED BY <1>4, <2>1
<1>10. section(end) \in TreeNode /\ section(end).lines = l..(end - 1)
  <2>1. l..(end - 1) \subseteq 1..N /\ Top.depth + 1 \in Nat
    BY <1>4, <1>7, <1>9, SMTT(30)
  <2> QED BY <2>1, TokenizedIs DEF Node, TreeNode, Nodes
<1> DEFINE x == section(end)
<1>11. x \in TreeNode /\ x.lines = l..(end - 1)
  BY <1>10
<1>12. /\ <<x>> \in Seq(TreeNode) /\ Len(<<x>>) = 1 /\ Single(<<x>>)
       /\ \A i : Holds(<<x>>, i) <=> i \in l..(end - 1)
  <2> HIDE DEF x
  <2> QED BY <1>11, NodePlaces
<1>13. \A i \in 1..N : i \in dropped \/ Holds(tree, i) <=> i < l
  BY <1>1, <1>3 DEF PlacedOnce
<1>14. /\ type' \in [1..N -> LineTypes]
       /\ \A i \in 1..N : type'[i] = type[i] \/ (l <= i /\ type'[i] \notin Markers)
  BY <1>1, <1>3, SameTypes
<1>15. /\ UNCHANGED <<lines, stripped, is_endnote>> /\ allow_meta' \in BOOLEAN /\ is_definition' \in Int
       /\ type' = type
  BY <1>1, <1>3 DEF Types
<1>16. \A i : Holds(tree, i) => i \in 1..N
  <2>1. \A m \in DOMAIN tree : tree[m] \in TreeNode
    BY <1>6, ElementOfSeq
  <2> QED BY <2>1 DEF Holds, TreeNode
<1>17. dropped \subseteq 1..N /\ \A i \in dropped : ~Holds(tree, i) /\ i < l
  BY <1>3, <1>13 DEF Types, PlacedOnce
<1>18. CASE more(end)
  <2> DEFINE S == header \cup {end}
             t == [tree EXCEPT ![k].lines = S]
             f == [Top EXCEPT !.l = end + 1]
  <2>1. tree' = Append(t, x) /\ frames' = [frames EXCEPT ![Depth] = f] /\ dropped' = dropped
    <3>1. tree' = Append([tree EXCEPT ![k].lines = @ \cup {end}], x) /\ dropped' = dropped
          /\ frames' = [frames EXCEPT ![Depth].l = end + 1]
      BY <1>2, <1>18
    <3> HIDE DEF x
    <3> QED BY <1>4, <1>6, <1>7, <3>1
  <2>2. end \in 1..N /\ end + 1 <= stop /\ type[end + 1] \in accept_table_line
    BY <1>4, <1>9, <1>18
  <2>3. ~Holds(tree, end) /\ end \notin dropped
    BY <1>4, <1>9, <1>13, <2>2
  <2>4. S \in SUBSET (1..N) /\ \A i \in S : i \in tree[k].lines \/ ~Holds(tree, i)
    BY <1>8, <2>2, <2>3
  <2>5. /\ f \in FrameType /\ f.l = end + 1 /\ f.stop = stop /\ f.kind = Top.kind /\ f.depth = Top.depth
        /\ f.within = "table" /\ f.node = k
    <3>1. end + 1 \in 1..(N + 1)
      BY <2>2, <1>4
    <3> QED BY <1>1, <1>4, <3>1 DEF FrameType
  <2> HIDE DEF f, S, x
  <2>6. /\ t \in Seq(TreeNode) /\ Len(t) = Len(tree) /\ Single(t)
        /\ \A i : Holds(t, i) <=> i \in S \/ (Holds(tree, i) /\ i \notin tree[k].lines)
    BY <1>7, <2>4, LinesReplaced
  <2> HIDE DEF t
  <2>7. \A i : Holds(t, i) <=> i = end \/ Holds(tree, i)
    BY <1>8, <2>6 DEF S
  <2>8. \A i : ~(Holds(t, i) /\ Holds(<<x>>, i))
    BY <1>4, <1>9, <1>12, <1>13, <1>16, <2>7
  <2>9. tree' = t \o <<x>>
    BY <1>11, <2>1, <2>6, AppendIsConcat
  <2>10. /\ t \o <<x>> \in Seq(TreeNode) /\ Len(t \o <<x>>) = Len(t) + Len(<<x>>) /\ Single(t \o <<x>>)
         /\ \A i : Holds(t \o <<x>>, i) <=> Holds(t, i) \/ Holds(<<x>>, i)
    BY <1>12, <2>6, <2>8, ConcatPlaces
  <2>11. \A i : Holds(tree', i) <=> i = end \/ Holds(tree, i) \/ i \in l..(end - 1)
    BY <1>12, <2>7, <2>9, <2>10
  <2>12. tree' \in Seq(TreeNode) /\ Single(tree') /\ Len(tree') >= Len(tree) /\ f.node <= Len(tree')
    BY <1>6, <1>7, <1>12, <2>5, <2>6, <2>9, <2>10
  <2>13. \A i \in dropped' : ~Holds(tree', i)
    BY <1>4, <1>17, <2>1, <2>3, <2>11
  <2>14. \A i \in 1..N : i \in dropped' \/ Holds(tree', i) <=> i < f.l
    BY <1>4, <1>9, <1>13, <2>1, <2>5, <2>11, SMTT(30)
  <2>15. l < f.l /\ l <= f.l /\ f.l <= stop + 1
    BY <1>4, <1>9, <2>2, <2>5
  <2>16. dropped \subseteq dropped' /\ dropped' \subseteq 1..N /\ dropped' \ dropped = {}
    BY <1>17, <2>1
  <2>17. f.within = "table" => f.node # 0 /\ f.l <= stop /\ type'[f.l] \in accept_table_line
    BY <1>5, <1>15, <2>2, <2>5
  <2> QED BY <1>1, <1>14, <1>15, <2>1, <2>5, <2>12, <2>13, <2>14, <2>15, <2>16, <2>17, GoOnOK
<1>19. CASE ~more(end)
  <2> DEFINE V == Vanishing(header)
             S == header \ V
             t == [tree EXCEPT ![k].lines = S]
             rest == next(end)
             e == Empties(end, rest, Top.depth)
             f == [Top EXCEPT !.l = rest, !.within = "blocks", !.node = 0]
  <2>1. tree' = t \o <<x>> \o e /\ frames' = [frames EXCEPT ![Depth] = f] /\ dropped' = dropped \cup V
    <3>1. /\ tree' = [tree EXCEPT ![k].lines = @ \ V] \o <<x>> \o e /\ dropped' = dropped \cup V
          /\ frames' = [frames EXCEPT ![Depth] = [@ EXCEPT !.l = rest, !.within = "blocks", !.node = 0]]
      BY <1>2, <1>19
    <3> HIDE DEF x, V, e, rest
    <3> QED BY <1>4, <1>6, <1>7, <3>1
  <2>2. V \subseteq header /\ \A i \in V : type[i] = "empty"
    BY DEF Vanishing
  <2>3. S \in SUBSET (1..N) /\ \A i \in S : i \in tree[k].lines \/ ~Holds(tree, i)
    BY <1>8
  <2>4. rest \in end..(stop + 1) /\ rest \in 1..(N + 1) /\ end \in 1..(N + 1) /\ end <= rest
    <3>1. rest \in end..(stop + 1)
      BY <1>9
    <3> HIDE DEF rest
    <3> QED BY <1>4, <1>9, <3>1
  <2>5. e \in Seq(TreeNode) /\ Single(e) /\ \A i : Holds(e, i) <=> i \in end..(rest - 1)
    BY <1>3, <1>7, <2>4, EmptiesPlace
  <2> HIDE DEF rest
  <2>6. /\ f \in FrameType /\ f.l = rest /\ f.stop = stop /\ f.kind = Top.kind /\ f.depth = Top.depth
        /\ f.within = "blocks" /\ f.node = 0
    BY <1>4, <2>4 DEF FrameType, Parts
  <2> HIDE DEF f, V, x, e
  <2>7. /\ t \in Seq(TreeNode) /\ Len(t) = Len(tree) /\ Single(t)
        /\ \A i : Holds(t, i) <=> i \in S \/ (Holds(tree, i) /\ i \notin tree[k].lines)
    BY <1>7, <2>3, LinesReplaced
  <2> HIDE DEF t
  <2>8. \A i : Holds(t, i) <=> Holds(tree, i) /\ i \notin V
    BY <1>8, <2>2, <2>7
  <2>9. \A i : ~(Holds(t, i) /\ Holds(<<x>>, i))
    BY <1>4, <1>9, <1>12, <1>13, <1>16, <2>8
  <2> DEFINE u == t \o <<x>>
  <2>10. /\ u \in Seq(TreeNode) /\ Len(u) = Len(t) + Len(<<x>>) /\ Single(u)
         /\ \A i : Holds(u, i) <=> Holds(t, i) \/ Holds(<<x>>, i)
    BY <1>12, <2>7, <2>9, ConcatPlaces
  <2>11. tree' = u \o e
    BY <2>1
  <2> HIDE DEF u
  <2>12. \A i : Holds(u, i) => i \in 1..N /\ i < end
    BY <1>4, <1>9, <1>12, <1>13, <1>16, <2>8, <2>10, SMTT(30)
  <2>13. \A i : ~(Holds(u, i) /\ Holds(e, i))
    BY <1>4, <2>4, <2>5, <2>12
  <2>14. /\ u \o e \in Seq(TreeNode) /\ Len(u \o e) = Len(u) + Len(e) /\ Single(u \o e)
         /\ \A i : Holds(u \o e, i) <=> Holds(u, i) \/ Holds(e, i)
    BY <2>5, <2>10, <2>13, ConcatPlaces
  <2>15. \A i : Holds(tree', i) <=> (Holds(tree, i) /\ i \notin V) \/ i \in l..(end - 1) \/ i \in end..(rest - 1)
    BY <1>12, <2>5, <2>8, <2>10, <2>11, <2>14
  <2>16. tree' \in Seq(TreeNode) /\ Single(tree') /\ Len(tree') >= Len(tree) /\ f.node <= Len(tree')
    <3>1. Len(e) \in Nat
      BY <2>5, LenProperties
    <3> QED BY <1>6, <1>12, <2>6, <2>7, <2>10, <2>11, <2>14, <3>1
  <2>17. \A i \in V : i \in 1..N /\ i < l
    BY <1>8, <2>2
  <2>18. \A i \in dropped' : ~Holds(tree', i)
    <3>1. \A i \in dropped' : i \in 1..N /\ i < l /\ ~(Holds(tree, i) /\ i \notin V)
      BY <1>17, <2>1, <2>17
    <3> QED BY <1>4, <1>9, <2>4, <2>15, <3>1
  <2>19. \A i \in 1..N : i \in dropped' \/ Holds(tree', i) <=> i < f.l
    <3> SUFFICES ASSUME NEW i \in 1..N PROVE i \in dropped' \/ Holds(tree', i) <=> i < f.l
      OBVIOUS
    <3>1. i \in dropped' \/ Holds(tree', i) <=> i < l \/ i \in l..(end - 1) \/ i \in end..(rest - 1)
      BY <1>8, <1>13, <2>1, <2>2, <2>15
    <3> QED BY <1>4, <1>9, <2>4, <2>6, <3>1
  <2>20. l < f.l /\ l <= f.l /\ f.l <= stop + 1
    BY <1>4, <1>9, <2>4, <2>6
  <2>21. dropped \subseteq dropped' /\ dropped' \subseteq 1..N
    BY <1>17, <2>1, <2>17
  <2>22. \A i \in dropped' \ dropped : type'[i] = "empty"
    BY <1>15, <2>1, <2>2
  <2>23. f.within = "table" => f.node # 0 /\ f.l <= stop /\ type'[f.l] \in accept_table_line
    BY <2>6
  <2> QED BY <1>1, <1>14, <1>15, <2>1, <2>6, <2>16, <2>18, <2>19, <2>20, <2>21, <2>22, <2>23, GoOnOK
<1> QED BY <1>18, <1>19
-----------------------------------------------------------------------------
\* blocks() returns to the activation before it.
LEMMA Popped ==
    ASSUME Types, Depth > 1, lines' = lines, frames' = SubSeq(frames, 1, Depth - 1)
    PROVE  \E n \in Nat :
               /\ n >= 1 /\ Depth = n + 1 /\ DOMAIN frames = 1..(n + 1) /\ Depth' = n
               /\ frames' \in Seq(FrameType) /\ frames' # <<>> /\ DOMAIN frames' = 1..n
               /\ \A d \in 1..n : frames'[d] = frames[d]
               /\ \A d \in 1..(n + 1) : frames[d] \in FrameType
               /\ Top = frames[n + 1] /\ Top' = frames[n] /\ l' = frames[n].l /\ stop' = frames[n].stop
               /\ FrameType' = FrameType
<1>1. frames \in Seq(FrameType) /\ frames # <<>>
  <2>1. Len(<<>>) = 0
    OBVIOUS
  <2> QED BY <2>1 DEF Types, Depth
<1>2. Depth \in Nat /\ DOMAIN frames = 1..Depth /\ \A d \in 1..Depth : frames[d] \in FrameType
  BY <1>1, TopFacts
<1>3. PICK n \in Nat : n = Depth - 1
  BY <1>2
<1>4. n >= 1 /\ Depth = n + 1
  BY <1>2, <1>3
<1>5. /\ frames' \in Seq(FrameType) /\ Len(frames') = n
      /\ \A d \in 1..n : frames'[d] = frames[d]
  <2>1. \A d \in 1..n : frames[d] \in FrameType
    BY <1>2, <1>4
  <2>2. /\ SubSeq(frames, 1, n) \in Seq(FrameType)
        /\ Len(SubSeq(frames, 1, n)) = IF 1 <= n THEN n - 1 + 1 ELSE 0
        /\ \A d \in 1..(n - 1 + 1) : SubSeq(frames, 1, n)[d] = frames[1 + d - 1]
    BY <2>1, SubSeqProperties
  <2>3. n - 1 + 1 = n /\ \A d \in 1..n : 1 + d - 1 = d
    OBVIOUS
  <2>4. frames' = SubSeq(frames, 1, n)
    BY <1>3
  <2> QED BY <1>4, <2>2, <2>3, <2>4
<1>6. DOMAIN frames' = 1..n /\ Depth' = n
  BY <1>5, LenProperties DEF Depth
<1>7. frames' # <<>>
  <2>1. Len(frames') # 0
    BY <1>4, <1>5
  <2> QED BY <1>5, <2>1, EmptySeq
<1>8. Top = frames[n + 1]
  BY <1>4 DEF Top
<1>9. Top' = frames[n]
  BY <1>4, <1>5, <1>6 DEF Top
<1>10. l' = frames[n].l /\ stop' = frames[n].stop
  BY <1>9 DEF l, stop
<1>11. FrameType' = FrameType
  BY DEF FrameType, N
<1>12. DOMAIN frames = 1..(n + 1) /\ \A d \in 1..(n + 1) : frames[d] \in FrameType
  BY <1>2, <1>4
<1> QED BY <1>4, <1>5, <1>6, <1>7, <1>8, <1>9, <1>10, <1>11, <1>12

LEMMA ReturnOK ==
    ASSUME IInv, Return
    PROVE  IInv' /\ Forward
<1>1. Types /\ MarkersLeft /\ Nested /\ Rooted /\ InTable /\ OneNote /\ Bounded /\ PlacedOnce
      /\ OnlyUnreadableNotesAreLost
  BY DEF IInv
<1>2. /\ Depth > 1 /\ l > stop /\ frames' = SubSeq(frames, 1, Depth - 1)
      /\ tree' = tree \o Empties(stop + 1, frames[Depth - 1].l, Top.depth - 1)
      /\ is_definition' = Leaving("definition", is_definition)
      /\ is_endnote' = Leaving("note", is_endnote)
      /\ UNCHANGED <<lines, type, stripped, dropped, allow_meta>>
  BY DEF Return
<1>3. PICK n \in Nat :
          /\ n >= 1 /\ Depth = n + 1 /\ DOMAIN frames = 1..(n + 1) /\ Depth' = n
          /\ frames' \in Seq(FrameType) /\ frames' # <<>> /\ DOMAIN frames' = 1..n
          /\ \A d \in 1..n : frames'[d] = frames[d]
          /\ \A d \in 1..(n + 1) : frames[d] \in FrameType
          /\ Top = frames[n + 1] /\ Top' = frames[n] /\ l' = frames[n].l /\ stop' = frames[n].stop
          /\ FrameType' = FrameType
  BY <1>1, <1>2, Popped, Zenon
<1>4. frames # <<>>
  BY <1>3
<1>5. l \in 1..(N + 1) /\ stop \in 1..N /\ N \in Nat /\ l = Top.l /\ stop = Top.stop
  BY <1>1, <1>4, TopFacts, Zenon
<1>6. N' = N /\ TreeNode' = TreeNode /\ n + 1 - 1 = n /\ n \in 1..n /\ n + 1 \in 1..(n + 1) /\ n \in 1..(n + 1)
  BY <1>2, <1>3 DEF N, TreeNode
<1> DEFINE next == frames[n].l
           depth == Top.depth - 1
           e == Empties(stop + 1, next, depth)
<1>7. l = stop + 1 /\ stop < next /\ frames[n].within # "table"
  <2>1. frames[n + 1].l <= frames[n + 1].stop + 1
    BY <1>1, <1>3, <1>6 DEF Nested
  <2>2. frames[n + 1].stop < frames[(n + 1) - 1].l /\ frames[(n + 1) - 1].within # "table"
    <3>1. n + 1 > 1
      BY <1>3
    <3> QED BY <1>1, <1>3, <1>6, <3>1 DEF Nested
  <2>3. l <= stop + 1
    BY <1>3, <1>5, <2>1
  <2>4. l = stop + 1
    BY <1>2, <1>5, <2>3
  <2> QED BY <1>3, <1>5, <1>6, <2>2, <2>4
<1>8. next \in 1..(N + 1) /\ depth \in Nat
  <2>1. frames[n] \in FrameType /\ Top \in FrameType
    BY <1>3, <1>6
  <2>2. Top.depth > 0
    BY <1>1, <1>3, <1>6 DEF Rooted
  <2>3. Top.depth \in Nat
    BY <2>1 DEF FrameType
  <2> QED BY <2>1, <2>2, <2>3 DEF FrameType
<1>9. tree' = tree \o e
  BY <1>2, <1>3, <1>6
<1>10. tree \in Seq(TreeNode) /\ Len(tree) \in Nat /\ lines \in Documents
  BY <1>1, LenProperties DEF Types
<1>11. stop + 1 \in 1..(N + 1) /\ stop + 1 <= next
  BY <1>5, <1>7, <1>8
<1> HIDE DEF next, depth
<1>12. e \in Seq(TreeNode) /\ Single(e) /\ \A i : Holds(e, i) <=> i \in (stop + 1)..(next - 1)
  BY <1>8, <1>10, <1>11, EmptiesPlace
<1> HIDE DEF e
<1>13. \A i \in 1..N : i \in dropped \/ Holds(tree, i) <=> i < l
  BY <1>1, <1>4 DEF PlacedOnce
<1>14. \A i : ~(Holds(tree, i) /\ Holds(e, i))
  BY <1>5, <1>7, <1>8, <1>12, <1>13
<1>15. /\ tree' \in Seq(TreeNode) /\ Len(tree') = Len(tree) + Len(e) /\ Single(tree')
       /\ \A i : Holds(tree', i) <=> Holds(tree, i) \/ Holds(e, i)
  BY <1>1, <1>9, <1>10, <1>12, <1>14, ConcatPlaces DEF PlacedOnce
<1>16. Len(tree') >= Len(tree)
  BY <1>10, <1>12, <1>15, LenProperties
<1>17. Types'
  <2>1. is_definition' \in Int
    BY <1>1, <1>2 DEF Types, Leaving
  <2> QED BY <1>1, <1>2, <1>3, <1>6, <1>15, <2>1 DEF Types
<1>18. MarkersLeft'
  BY <1>1, <1>2, <1>6 DEF MarkersLeft
<1>19. Nested'
  <2>1. ASSUME NEW d \in 1..n
        PROVE  frames'[d].l <= frames'[d].stop + 1 /\ frames'[d].node <= Len(tree')
    <3>1. d \in 1..(n + 1) /\ frames'[d] = frames[d]
      BY <1>3
    <3>2. frames[d].l <= frames[d].stop + 1 /\ frames[d].node <= Len(tree)
      BY <1>1, <1>3, <3>1 DEF Nested
    <3>3. frames[d].node \in Nat /\ Len(tree') \in Nat
      BY <1>3, <1>15, <3>1, LenProperties DEF FrameType
    <3> QED BY <1>10, <1>16, <3>1, <3>2, <3>3
  <2>2. ASSUME NEW d \in 1..n, d > 1
        PROVE  frames'[d].stop < frames'[d - 1].l /\ frames'[d - 1].within # "table"
    <3>1. d \in 1..(n + 1) /\ d - 1 \in 1..n
      BY <2>2
    <3> QED BY <1>1, <1>3, <2>2, <3>1 DEF Nested
  <2>3. frames'[1].stop = N'
    <3>1. 1 \in 1..n
      BY <1>3
    <3> QED BY <1>1, <1>3, <1>4, <1>6, <3>1 DEF Nested
  <2> QED BY <1>3, <2>1, <2>2, <2>3 DEF Nested
<1>20. \A d \in 1..n : d \in 1..(n + 1) /\ frames'[d] = frames[d]
  BY <1>3
<1>21. Rooted'
  BY <1>1, <1>3, <1>20 DEF Rooted
<1>22. InTable'
  BY <1>3, <1>7 DEF InTable
<1>23. OneNote'
  <2>1. /\ is_endnote \in {0, 1}
        /\ \A d, e1 \in 1..(n + 1) : frames[d].kind = "note" /\ frames[e1].kind = "note" => d = e1
        /\ is_endnote = 1 <=> \E d \in 1..(n + 1) : frames[d].kind = "note"
    BY <1>1, <1>3 DEF OneNote
  <2>2. CASE Top.kind = "note"
    <3>1. is_endnote = 1
      BY <1>3, <1>6, <2>1, <2>2
    <3>2. is_endnote' = 0
      BY <1>2, <2>2, <3>1 DEF Leaving
    <3>3. \A d \in 1..n : frames'[d].kind # "note"
      <4>1. \A d \in 1..n : d # n + 1
        OBVIOUS
      <4> QED BY <1>3, <1>6, <1>20, <2>1, <2>2, <4>1
    <3> QED BY <1>3, <3>2, <3>3 DEF OneNote
  <2>3. CASE Top.kind # "note"
    <3>1. is_endnote' = is_endnote
      BY <1>2, <2>3 DEF Leaving
    <3>2. \A d \in 1..(n + 1) : d \in 1..n \/ d = n + 1
      OBVIOUS
    <3> QED BY <1>3, <1>20, <2>1, <2>3, <3>1, <3>2 DEF OneNote
  <2> QED BY <2>2, <2>3
<1>24. Bounded'
  <2>1. StrippedMarkers' = StrippedMarkers
    BY <1>2, <1>6 DEF StrippedMarkers
  <2>2. Cardinality(StrippedMarkers) \in Nat
    BY <1>1, <1>5, FiniteStripped DEF StrippedMarkers, Types
  <2>3. n + 1 <= 1 + Cardinality(StrippedMarkers)
    BY <1>1, <1>3 DEF Bounded
  <2>4. n <= 1 + Cardinality(StrippedMarkers)
    BY <2>2, <2>3
  <2> QED BY <1>3, <2>1, <2>4 DEF Bounded
<1>25. \A i \in 1..N : Holds(e, i) <=> l <= i /\ i < next
  BY <1>5, <1>7, <1>8, <1>12
<1>26. l' = next /\ l <= next
  BY <1>3, <1>7, <1>11 DEF next
<1>27. PlacedOnce'
  <2>1. \A i \in dropped : i \in 1..N /\ i < l /\ ~Holds(tree, i)
    BY <1>1, <1>13 DEF PlacedOnce, Types
  <2>2. \A i \in dropped' : ~Holds(tree', i)
    BY <1>2, <1>5, <1>15, <1>25, <2>1
  <2>3. ASSUME NEW i \in 1..N PROVE i \in dropped' \/ Holds(tree', i) <=> i < next
    <3>1. i \in dropped' \/ Holds(tree', i) <=> i < l \/ (l <= i /\ i < next)
      BY <1>2, <1>13, <1>15, <1>25
    <3> QED BY <1>5, <1>8, <1>26, <3>1
  <2> QED BY <1>3, <1>6, <1>15, <1>26, <2>2, <2>3 DEF PlacedOnce
<1>28. OnlyUnreadableNotesAreLost'
  <2>1. \A j : Marked({j}, Markers \ {"indented"})' <=> Marked({j}, Markers \ {"indented"})
    BY <1>2 DEF Marked
  <2> QED BY <1>1, <1>2, <2>1 DEF OnlyUnreadableNotesAreLost
<1>29. Forward
  <2>1. CASE l < next
    BY <1>2, <1>3, <1>4, <1>15, <1>26, <2>1 DEF Forward
  <2>2. CASE l = next
    <3>1. \A i \in 1..N : ~Holds(e, i)
      BY <1>5, <1>25, <2>2
    <3> QED BY <1>2, <1>15, <3>1 DEF Forward
  <2> QED BY <1>5, <1>8, <1>26, <2>1, <2>2
<1> QED BY <1>17, <1>18, <1>19, <1>21, <1>22, <1>23, <1>24, <1>27, <1>28, <1>29 DEF IInv

LEMMA DocOK ==
    ASSUME IInv, doc
    PROVE  IInv' /\ Forward
<1>1. Types /\ MarkersLeft /\ Nested /\ Rooted /\ InTable /\ OneNote /\ Bounded /\ PlacedOnce
      /\ OnlyUnreadableNotesAreLost
  BY DEF IInv
<1>2. /\ Depth = 1 /\ l > stop /\ frames' = <<>>
      /\ UNCHANGED <<lines, type, stripped, tree, dropped, allow_meta, is_definition, is_endnote>>
  BY DEF doc
<1>3. frames # <<>>
  BY <1>2 DEF Depth
<1>4. /\ DOMAIN frames = 1..1 /\ Top = frames[1] /\ l \in 1..(N + 1) /\ stop \in 1..N /\ N \in Nat
      /\ stop = Top.stop
  BY <1>1, <1>2, <1>3, TopFacts
<1>5. l = N + 1
  BY <1>1, <1>2, <1>3, <1>4 DEF Nested
<1>6. \A i \in 1..N : i \in dropped \/ Holds(tree, i)
  BY <1>1, <1>3, <1>4, <1>5 DEF PlacedOnce
<1>7. N' = N /\ TreeNode' = TreeNode /\ FrameType' = FrameType /\ DOMAIN frames' = {} /\ Depth' = 0
      /\ frames' \in Seq(FrameType)
  <2>1. Len(<<>>) = 0 /\ DOMAIN <<>> = {} /\ <<>> \in Seq(FrameType)
    OBVIOUS
  <2>2. N' = N /\ TreeNode' = TreeNode /\ FrameType' = FrameType
    BY <1>2 DEF N, TreeNode, FrameType
  <2> QED BY <1>2, <2>1, <2>2 DEF Depth
<1>8. Types'
  BY <1>1, <1>2, <1>7 DEF Types
<1>9. MarkersLeft'
  BY <1>1, <1>2, <1>7 DEF MarkersLeft
<1>10. Nested' /\ Rooted' /\ InTable'
  BY <1>2, <1>7 DEF Nested, Rooted, InTable
<1>11. OneNote'
  <2>1. frames[1].kind = "doc" /\ 1..1 = {1}
    BY <1>1, <1>4 DEF Rooted
  <2>2. is_endnote = 0
    BY <1>1, <1>4, <2>1 DEF OneNote
  <2> QED BY <1>2, <1>7, <2>2 DEF OneNote
<1>12. Bounded'
  <2>1. StrippedMarkers' = StrippedMarkers
    BY <1>2, <1>7 DEF StrippedMarkers
  <2>2. Cardinality(StrippedMarkers) \in Nat
    BY <1>1, <1>4, FiniteStripped DEF StrippedMarkers, Types
  <2> QED BY <1>7, <2>1, <2>2 DEF Bounded
<1>13. PlacedOnce'
  BY <1>1, <1>2, <1>6, <1>7 DEF PlacedOnce
<1>14. OnlyUnreadableNotesAreLost'
  <2>1. \A j : Marked({j}, Markers \ {"indented"})' <=> Marked({j}, Markers \ {"indented"})
    BY <1>2 DEF Marked
  <2> QED BY <1>1, <1>2, <2>1 DEF OnlyUnreadableNotesAreLost
<1>15. Forward
  BY <1>2 DEF Forward
<1> QED BY <1>8, <1>9, <1>10, <1>11, <1>12, <1>13, <1>14, <1>15 DEF IInv
-----------------------------------------------------------------------------
\* One step of the parser.
LEMMA Step ==
    ASSUME IInv, [Next]_vars
    PROVE  IInv' /\ Forward
<1>1. CASE UNCHANGED vars
  <2>1. /\ UNCHANGED <<lines, type, stripped, tree, dropped, frames, allow_meta, is_definition, is_endnote>>
    BY <1>1 DEF vars
  <2>2. UNCHANGED <<N, Depth, Top, StrippedMarkers, TreeNode, FrameType>>
    BY <2>1 DEF N, Depth, Top, StrippedMarkers, TreeNode, FrameType
  <2>3. UNCHANGED <<l, stop>>
    BY <2>2 DEF l, stop
  <2>4. Types' /\ MarkersLeft' /\ Nested' /\ Rooted' /\ InTable' /\ OneNote' /\ Bounded'
    BY <2>1, <2>2, <2>3 DEF IInv, Types, MarkersLeft, Nested, Rooted, InTable, OneNote, Bounded
  <2>5. PlacedOnce' /\ OnlyUnreadableNotesAreLost'
    BY <2>1, <2>2, <2>3 DEF IInv, PlacedOnce, OnlyUnreadableNotesAreLost, Marked
  <2>6. Forward
    BY <2>1 DEF Forward
  <2> QED BY <2>4, <2>5, <2>6 DEF IInv
<1>2. CASE Next
  <2>1. CASE doc
    BY <2>1, DocOK
  <2>2. CASE Return
    BY <2>2, ReturnOK
  <2>3. CASE block
    <3>1. CASE \/ block_atx \/ block_toc \/ block_hr \/ block_empty \/ block_reference_def_a \/ block_html
               \/ block_html_comment
      BY <3>1, SimpleOK
    <3>2. CASE block_code_fenced
      BY <3>2, CodeFencedOK
    <3>3. CASE block_code_indented
      BY <3>3, CodeIndentedOK
    <3>4. CASE block_meta \/ block_meta_yaml
      BY <3>4, MetaOK
    <3>5. CASE block_para
      BY <3>5, ParaOK
    <3>6. CASE block_table
      BY <3>6, TableOK
    <3>7. CASE block_table_section
      BY <3>7, SectionOK
    <3>8. CASE block_blockquote
      BY <3>8, QuoteOK
    <3>9. CASE block_list
      BY <3>9, ListOK
    <3>10. CASE block_list_item
      BY <3>10, ItemOK
    <3>11. CASE flag_list_loose
      BY <3>11, ListEndOK
    <3>12. CASE block_definition
      BY <3>12, DefinitionOK
    <3>13. CASE mmd_parse_tokens_deflist
      BY <3>13, DeflistEndOK
    <3>14. CASE block_endnote_definition
      BY <3>14, NoteOK
    <3> QED BY <2>3, <3>1, <3>2, <3>3, <3>4, <3>5, <3>6, <3>7, <3>8, <3>9, <3>10, <3>11, <3>12, <3>13, <3>14
            DEF block
  <2> QED BY <1>2, <2>1, <2>2, <2>3 DEF Next
<1> QED BY <1>1, <1>2

LEMMA IInvHolds == Spec => []IInv
<1>1. IInv /\ [Next]_vars => IInv'
  BY Step
<1> QED BY InitOK, <1>1, PTL DEF Spec

\* Where the lines are, in the words of the reader's specification.
PlacesRight ==
    /\ N \in Nat /\ DOMAIN Place = 1..N /\ Place = [i \in 1..N |-> Place[i]]
    /\ frames # <<>> => l \in 1..(N + 1)
    /\ \A i \in 1..N : /\ Place[i] \in {"unread", "block", "lost"}
                       /\ Place[i] = "lost" <=> i \in dropped
                       /\ Place[i] = "unread" <=> i \notin dropped /\ ~Holds(tree, i)
                       /\ Place[i] = "unread" <=> frames # <<>> /\ ~(i < l)

LEMMA PlaceIs == IInv => PlacesRight
<1> SUFFICES ASSUME IInv PROVE PlacesRight
  OBVIOUS
<1>1. Types /\ PlacedOnce
  BY DEF IInv
<1>2. N \in Nat /\ DOMAIN tree = 1..Len(tree)
  BY <1>1, DocumentFacts, LenProperties DEF Types
<1>3. Place = [i \in 1..N |-> CASE i \in dropped -> "lost"
                               [] Holds(tree, i) -> "block"
                               [] OTHER -> "unread"]
  BY <1>2 DEF Place, Holds
<1>4. ASSUME NEW i \in 1..N
      PROVE  /\ Place[i] \in {"unread", "block", "lost"}
             /\ Place[i] = "lost" <=> i \in dropped
             /\ Place[i] = "unread" <=> i \notin dropped /\ ~Holds(tree, i)
  <2>1. Place[i] = CASE i \in dropped -> "lost" [] Holds(tree, i) -> "block" [] OTHER -> "unread"
    BY <1>3
  <2>2. i \in dropped => ~Holds(tree, i)
    BY <1>1 DEF PlacedOnce
  <2>3. CASE i \in dropped
    BY <2>1, <2>2, <2>3
  <2>4. CASE Holds(tree, i)
    BY <2>1, <2>2, <2>4
  <2>5. CASE i \notin dropped /\ ~Holds(tree, i)
    BY <2>1, <2>5
  <2> QED BY <2>3, <2>4, <2>5
<1>5. \A i \in 1..N : i \in dropped \/ Holds(tree, i) <=> frames = <<>> \/ i < l
  BY <1>1 DEF PlacedOnce
<1>6. DOMAIN Place = 1..N /\ Place = [i \in 1..N |-> Place[i]]
  BY <1>3
<1>7. frames # <<>> => l \in 1..(N + 1)
  BY <1>1, TopFacts
<1> QED BY <1>2, <1>4, <1>5, <1>6, <1>7 DEF PlacesRight
-----------------------------------------------------------------------------
\* The parser's variables have their types: it reaches behind the end of no line,
\* node or activation, and its recursion is bounded by the markers it strips.
THEOREM TypeCorrect == Spec => []TypeOK
<1>1. IInv => TypeOK
  <2> SUFFICES ASSUME IInv PROVE TypeOK
    OBVIOUS
  <2>1. Types /\ MarkersLeft /\ Nested /\ OneNote /\ Bounded
    BY DEF IInv
  <2>2. frames \in Seq([kind : Kinds, l : 1..(N + 1), stop : 1..N, depth : Nat, node : 0..Len(tree),
                        within : {"blocks", "bullet", "enum", "deflist", "raw deflist", "table"}])
    <3> DEFINE F == [kind : Kinds, l : 1..(N + 1), stop : 1..N, depth : Nat, node : 0..Len(tree),
                     within : {"blocks", "bullet", "enum", "deflist", "raw deflist", "table"}]
    <3>1. frames \in Seq(FrameType) /\ Len(frames) \in Nat /\ DOMAIN frames = 1..Len(frames)
          /\ Len(tree) \in Nat
      BY <2>1, LenProperties DEF Types
    <3>2. ASSUME NEW d \in 1..Len(frames) PROVE frames[d] \in F
      <4>1. frames[d] \in FrameType
        BY <3>1, ElementOfSeq
      <4>2. frames[d].node <= Len(tree)
        BY <2>1, <3>1 DEF Nested
      <4>3. frames[d].node \in 0..Len(tree)
        BY <3>1, <4>1, <4>2 DEF FrameType
      <4> QED BY <4>1, <4>3 DEF FrameType, Parts
    <3> HIDE DEF F
    <3>3. frames \in [1..Len(frames) -> F]
      <4>1. frames = [d \in 1..Len(frames) |-> frames[d]]
        BY <3>1
      <4> QED BY <3>2, <4>1
    <3>4. frames \in Seq(F)
      BY <3>1, <3>3, SeqDef
    <3> QED BY <3>4 DEF F
  <2>3. tree \in Seq([type : Nodes, depth : Nat, lines : SUBSET (1..N),
                      tokens : {"none", "tokens", "exposed"}])
    BY <2>1 DEF Types, TreeNode
  <2>4. is_endnote \in Nat
    BY <2>1 DEF OneNote
  <2>5. \A i \in 1..N : stripped[i] < Len(lines[i])
    BY <2>1 DEF MarkersLeft
  <2>6. Depth <= 1 + Cardinality(StrippedMarkers)
    BY <2>1 DEF Bounded
  <2>7. /\ lines \in Documents /\ type \in [1..N -> LineTypes] /\ stripped \in [1..N -> Nat]
        /\ dropped \subseteq 1..N /\ allow_meta \in BOOLEAN /\ is_definition \in Int
    BY <2>1 DEF Types
  <2> QED BY <2>2, <2>3, <2>4, <2>5, <2>6, <2>7 DEF TypeOK
<1> QED BY IInvHolds, <1>1, PTL

\* No line is lost or put into two blocks: every line that was passed is in one
\* block, unless it belongs to a note behind another marker, whose label is not
\* found, or is an empty line between two parts of a table.
THEOREM LinesAreKept == Spec => []LinesKept
<1>1. IInv => LinesKept
  <2> SUFFICES ASSUME IInv PROVE LinesPlaced
    BY DEF IInv, LinesKept
  <2>1. Types /\ PlacedOnce /\ DOMAIN tree = 1..Len(tree)
    BY LenProperties DEF IInv, Types
  <2> SUFFICES ASSUME NEW i \in 1..N
               PROVE  Cardinality({m \in 1..Len(tree) : i \in tree[m].lines})
                      + (IF i \in dropped THEN 1 ELSE 0)
                      = IF frames = <<>> \/ i < l THEN 1 ELSE 0
    BY DEF LinesPlaced
  <2> DEFINE at == {m \in 1..Len(tree) : i \in tree[m].lines}
  <2>2. i \in dropped \/ Holds(tree, i) <=> frames = <<>> \/ i < l
    BY <2>1 DEF PlacedOnce
  <2>3. CASE Holds(tree, i)
    <3>1. i \notin dropped
      BY <2>1, <2>3 DEF PlacedOnce
    <3>2. PICK m \in 1..Len(tree) : i \in tree[m].lines
      BY <2>1, <2>3 DEF Holds
    <3>3. at = {m}
      BY <2>1, <3>2 DEF PlacedOnce, Single
    <3>4. Cardinality(at) = 1
      BY <3>3, FS_Singleton
    <3> HIDE DEF at
    <3>5. Cardinality(at) + (IF i \in dropped THEN 1 ELSE 0) = 1
      BY <3>1, <3>4
    <3>6. (IF frames = <<>> \/ i < l THEN 1 ELSE 0) = 1
      BY <2>2, <2>3
    <3> QED BY <3>5, <3>6 DEF at
  <2>4. CASE ~Holds(tree, i)
    <3>1. at = {}
      BY <2>1, <2>4 DEF Holds
    <3>2. Cardinality(at) = 0
      BY <3>1, FS_EmptySet
    <3> HIDE DEF at
    <3>3. i \in dropped <=> frames = <<>> \/ i < l
      BY <2>2, <2>4
    <3>4. Cardinality(at) + (IF i \in dropped THEN 1 ELSE 0) = IF i \in dropped THEN 1 ELSE 0
      BY <3>2
    <3>5. (IF i \in dropped THEN 1 ELSE 0) = IF frames = <<>> \/ i < l THEN 1 ELSE 0
      BY <3>3
    <3> QED BY <3>4, <3>5 DEF at
  <2> QED BY <2>3, <2>4
<1> QED BY IInvHolds, <1>1, PTL

\* The parser implements the reader of lines: whatever it does to the chains of
\* tokens, it reads the document from the first line to the last in runs without
\* a gap, and no line becomes unread again.
THEOREM ImplementsReader == Spec => Reader!Spec
<1>1. Init => Reader!Init
  <2> SUFFICES ASSUME Init PROVE \A i \in DOMAIN Place : Place[i] = "unread"
    BY DEF Reader!Init
  <2>1. IInv /\ tree = <<>> /\ dropped = {}
    BY InitOK DEF Init
  <2>2. \A i : ~Holds(tree, i)
    BY <2>1, NonePlaced
  <2> QED BY <2>1, <2>2, PlaceIs DEF PlacesRight
<1>2. PlacesRight /\ PlacesRight' /\ Forward => [Reader!Read]_Place
  <2> SUFFICES ASSUME PlacesRight, PlacesRight', Forward PROVE Reader!Read \/ Place' = Place
    OBVIOUS
  <2>1. /\ N \in Nat /\ DOMAIN Place = 1..N /\ Place = [i \in 1..N |-> Place[i]]
        /\ \A i \in 1..N : /\ Place[i] \in {"unread", "block", "lost"}
                           /\ Place[i] = "lost" <=> i \in dropped
                           /\ Place[i] = "unread" <=> i \notin dropped /\ ~Holds(tree, i)
                           /\ Place[i] = "unread" <=> frames # <<>> /\ ~(i < l)
    BY DEF PlacesRight
  <2>2. N' = N
    BY DEF Forward, N
  <2>3. /\ DOMAIN Place' = 1..N /\ Place' = [i \in 1..N |-> Place'[i]]
        /\ \A i \in 1..N : /\ Place'[i] \in {"unread", "block", "lost"}
                           /\ Place'[i] = "lost" <=> i \in dropped'
                           /\ Place'[i] = "unread" <=> i \notin dropped' /\ ~Holds(tree', i)
                           /\ Place'[i] = "unread" <=> frames' # <<>> /\ ~(i < l')
    BY <2>2 DEF PlacesRight
  <2>4. CASE dropped' = dropped /\ \A i \in 1..N : Holds(tree', i) <=> Holds(tree, i)
    <3>1. \A i \in 1..N : Place'[i] = Place[i]
      BY <2>1, <2>3, <2>4
    <3> QED BY <2>1, <2>3, <3>1
  <2>5. CASE frames # <<>> /\ frames' # <<>> /\ l' > l
    <3> DEFINE last == l' - 1
    <3>1. l \in 1..(N + 1) /\ l' \in 1..(N + 1)
      BY <2>2, <2>5 DEF PlacesRight
    <3>2. last \in 1..N /\ l <= last /\ last < l' /\ \A i \in 1..N : i > last <=> ~(i < l')
      BY <2>1, <2>5, <3>1
    <3> HIDE DEF last
    <3>3. last \in Reader!Unread
      BY <2>1, <2>5, <3>1, <3>2 DEF Reader!Unread
    <3>4. Place' \in [DOMAIN Place -> {"unread", "block", "lost"}]
      BY <2>1, <2>3, <3>2
    <3>5. ASSUME NEW i \in DOMAIN Place
          PROVE  CASE Place[i] = "unread" -> (Place'[i] = "unread") <=> (i > last)
                   [] Place[i] = "block" -> Place'[i] \in {"block", "lost"}
                   [] Place[i] = "lost" -> Place'[i] = "lost"
      <4>1. CASE Place[i] = "unread"
        BY <2>1, <2>3, <2>5, <3>2, <4>1
      <4>2. CASE Place[i] = "block"
        <5>1. Holds(tree, i)
          BY <2>1, <4>2
        <5>2. Holds(tree', i) \/ i \in dropped'
          BY <2>1, <5>1 DEF Forward
        <5> QED BY <2>1, <2>3, <4>2, <5>2
      <4>3. CASE Place[i] = "lost"
        <5>1. i \in dropped'
          BY <2>1, <4>3 DEF Forward
        <5> QED BY <2>1, <2>3, <4>3, <5>1
      <4> QED BY <2>1, <4>1, <4>2, <4>3
    <3>6. Reader!ReadTo(last)
      BY <3>4, <3>5 DEF Reader!ReadTo
    <3> QED BY <3>3, <3>6 DEF Reader!Read
  <2> QED BY <2>4, <2>5 DEF Forward
<1>3. IInv /\ [Next]_vars => IInv' /\ Forward
  BY Step
<1>4. IInv => PlacesRight
  BY PlaceIs
<1> QED BY <1>1, <1>2, <1>3, <1>4, IInvHolds, PTL DEF Spec, Reader!Spec

-----------------------------------------------------------------------------
(***************************************************************************)
(* For all documents: is_definition and is_endnote say what the parser is  *)
(* inside of (FlagsAgree).  mmd_parse_tokens_deflist resets is_definition, *)
(* so that it is only right as long as no definition list ends inside of   *)
(* another one.  To see that there is one then, the invariant says where   *)
(* the tree has the list that an activation is reading, and that all nodes *)
(* behind it are in it.                                                    *)
(***************************************************************************)
ListParts == {"bullet", "enum"}
DeflistParts == {"deflist", "raw deflist"}

\* The list that an activation is reading is in the tree, and all behind it is
\* inside of it
Anchored(t, f) ==
    /\ f.within \in DeflistParts =>
           /\ f.node \in 1..Len(t) /\ t[f.node].type = "deflist" /\ t[f.node].depth = f.depth
           /\ \A k \in 1..Len(t) : k > f.node => t[k].depth > f.depth
    /\ f.within \in ListParts => f.node \in 1..Len(t) /\ t[f.node].type # "deflist"

AllAnchored == \A d \in DOMAIN frames : Anchored(tree, frames[d])

\* An inner activation makes deeper nodes
InnerIsDeeper == \A d, e \in DOMAIN frames : d < e => frames[d].depth < frames[e].depth

\* A definition is read for an activation that is in a definition list
InDefinitions ==
    \A d \in DOMAIN frames : d > 1 =>
        /\ frames[d].kind = "definition" <=> frames[d - 1].within \in DeflistParts
        /\ frames[d].kind = "definition" => frames[d].depth > frames[d - 1].depth + 1

Counted ==
    /\ is_definition <= Activations("definition")
    /\ is_definition = Activations("definition") \/ NestedDeflist

FInv == AllAnchored /\ InnerIsDeeper /\ InDefinitions /\ Counted

\* A step keeps the depths in the tree, and what is a definition list; new nodes
\* are at least as deep as this.
Keeps(depth) ==
    /\ Len(tree') \in Nat /\ Len(tree') >= Len(tree)
    /\ \A m \in 1..Len(tree) : /\ tree'[m].depth = tree[m].depth
                               /\ tree'[m].type = "deflist" <=> tree[m].type = "deflist"
    /\ \A m \in (Len(tree) + 1)..Len(tree') : tree'[m].depth \in Nat /\ tree'[m].depth >= depth
-----------------------------------------------------------------------------
\* Nodes that are put behind the tree, or behind one that differs from it in what
\* its nodes hold.
LEMMA AppendKeeps ==
    ASSUME Types, Types', NEW S, NEW t \in Seq(S), NEW nodes \in Seq(S), tree' = t \o nodes,
           Len(t) = Len(tree),
           \A m \in 1..Len(tree) : /\ t[m].depth = tree[m].depth
                                   /\ t[m].type = "deflist" <=> tree[m].type = "deflist",
           NEW depth \in Nat, \A k \in 1..Len(nodes) : nodes[k].depth >= depth
    PROVE  /\ Keeps(depth) /\ Len(tree') = Len(tree) + Len(nodes)
           /\ \A k \in 1..Len(nodes) : tree'[Len(tree) + k] = nodes[k]
<1> DEFINE a == Len(tree)
           b == Len(nodes)
<1>1. a \in Nat /\ b \in Nat
  BY LenProperties DEF Types
<1>2. /\ Len(tree') = a + b
      /\ \A m \in 1..a : tree'[m] = t[m]
      /\ \A k \in 1..b : tree'[a + k] = nodes[k]
  <2>1. /\ Len(t \o nodes) = a + b
        /\ \A m \in 1..(a + b) : (t \o nodes)[m] = IF m <= a THEN t[m] ELSE nodes[m - a]
    <3>1. /\ Len(t \o nodes) = Len(t) + b
          /\ \A m \in 1..(Len(t) + b) : (t \o nodes)[m] = IF m <= Len(t) THEN t[m] ELSE nodes[m - Len(t)]
      BY ConcatProperties, Zenon
    <3>2. Len(t) = a
      OBVIOUS
    <3> QED BY <3>1, <3>2, Zenon
  <2> DEFINE c == t \o nodes
  <2>2. tree' = c
    OBVIOUS
  <2> HIDE DEF a, b, c
  <2>3. \A m \in 1..a : c[m] = t[m]
    BY <1>1, <2>1 DEF c
  <2>4. ASSUME NEW k \in 1..b PROVE c[a + k] = nodes[k]
    <3>1. a + k \in 1..(a + b) /\ ~(a + k <= a) /\ (a + k) - a = k
      BY <1>1
    <3> QED BY <2>1, <3>1 DEF c
  <2>5. Len(c) = a + b
    BY <2>1 DEF c
  <2> QED BY <2>2, <2>3, <2>4, <2>5
<1>3. \A m \in 1..Len(tree') : tree'[m].depth \in Nat
  <2>1. tree' \in Seq(TreeNode')
    BY DEF Types
  <2>2. ASSUME NEW S0, NEW s \in Seq(S0) PROVE \A m \in 1..Len(s) : s[m] \in S0
    BY ElementOfSeq
  <2>3. \A m \in 1..Len(tree') : tree'[m] \in TreeNode'
    BY <2>1, <2>2
  <2> QED BY <2>3 DEF TreeNode
<1> HIDE DEF a, b
<1>4. ASSUME NEW m \in (a + 1)..(a + b) PROVE tree'[m].depth \in Nat /\ tree'[m].depth >= depth
  <2>1. m - a \in 1..b /\ a + (m - a) = m
    BY <1>1
  <2>2. tree'[m] = nodes[m - a] /\ nodes[m - a].depth >= depth
    <3>1. nodes[m - a].depth >= depth
      BY <2>1 DEF b
    <3>2. tree'[a + (m - a)] = nodes[m - a]
      BY <1>2, <2>1
    <3> QED BY <2>1, <3>1, <3>2
  <2>3. m \in 1..Len(tree')
    BY <1>1, <1>2
  <2> QED BY <1>3, <2>2, <2>3
<1>5. a + b \in Nat /\ a + b >= a
  BY <1>1
<1> QED BY <1>2, <1>4, <1>5 DEF Keeps, a, b

\* Where a list is in the tree does not change while deeper nodes are made.
LEMMA AnchorKept ==
    ASSUME Types, NEW depth \in Nat, Keeps(depth), NEW f \in FrameType, Anchored(tree, f),
           f.within \in DeflistParts => f.depth < depth
    PROVE  Anchored(tree', f)
<1>1. Len(tree) \in Nat
  BY LenProperties DEF Types
<1>2. f.depth \in Nat
  BY DEF FrameType
<1>3. ASSUME f.within \in DeflistParts
      PROVE  /\ f.node \in 1..Len(tree') /\ tree'[f.node].type = "deflist" /\ tree'[f.node].depth = f.depth
             /\ \A k \in 1..Len(tree') : k > f.node => tree'[k].depth > f.depth
  <2>1. /\ f.node \in 1..Len(tree) /\ tree[f.node].type = "deflist" /\ tree[f.node].depth = f.depth
        /\ \A k \in 1..Len(tree) : k > f.node => tree[k].depth > f.depth
    BY <1>3 DEF Anchored
  <2>2. f.node \in 1..Len(tree') /\ tree'[f.node].type = "deflist" /\ tree'[f.node].depth = f.depth
    BY <1>1, <2>1 DEF Keeps
  <2>3. ASSUME NEW k \in 1..Len(tree'), k > f.node PROVE tree'[k].depth > f.depth
    <3>1. CASE k \in 1..Len(tree)
      BY <2>1, <2>3, <3>1 DEF Keeps
    <3>2. CASE k \in (Len(tree) + 1)..Len(tree')
      <4>1. tree'[k].depth \in Nat /\ tree'[k].depth >= depth
        BY <3>2 DEF Keeps
      <4> QED BY <1>2, <1>3, <4>1
    <3> QED BY <1>1, <3>1, <3>2 DEF Keeps
  <2> QED BY <2>2, <2>3
<1>4. ASSUME f.within \in ListParts PROVE f.node \in 1..Len(tree') /\ tree'[f.node].type # "deflist"
  BY <1>1, <1>4 DEF Anchored, Keeps
<1> QED BY <1>3, <1>4 DEF Anchored

\* A definition list inside of another one stays there.
LEMMA NestedKept ==
    ASSUME Types, NEW depth \in Nat, Keeps(depth), NestedDeflist
    PROVE  NestedDeflist'
<1>1. Len(tree) \in Nat
  BY LenProperties DEF Types
<1>2. PICK m \in 1..Len(tree), n \in 1..Len(tree) :
          /\ m < n /\ tree[m].type = "deflist" /\ tree[n].type = "deflist"
          /\ \A k \in (m + 1)..n : tree[k].depth > tree[m].depth
  BY DEF NestedDeflist
<1>3. m \in 1..Len(tree') /\ n \in 1..Len(tree') /\ tree'[m].type = "deflist" /\ tree'[n].type = "deflist"
  BY <1>1, <1>2 DEF Keeps
<1>4. ASSUME NEW k \in (m + 1)..n PROVE tree'[k].depth > tree'[m].depth
  <2>1. k \in 1..Len(tree)
    BY <1>1, <1>2
  <2>2. tree'[k].depth = tree[k].depth /\ tree'[m].depth = tree[m].depth
    BY <2>1 DEF Keeps
  <2> QED BY <1>2, <2>2
<1> QED BY <1>2, <1>3, <1>4 DEF NestedDeflist

\* How many definitions are being read, by the set of their activations.
Reading == {d \in 1..Depth : frames[d].kind = "definition"}

LEMMA ReadingFinite ==
    ASSUME Types, frames # <<>>
    PROVE  /\ Activations("definition") = Cardinality(Reading) /\ IsFiniteSet(Reading)
           /\ Cardinality(Reading) \in Nat
<1>1. Depth \in Nat
  BY TopFacts
<1>2. IsFiniteSet(1..Depth) /\ Reading \subseteq 1..Depth
  BY <1>1, FS_Interval DEF Reading
<1> QED BY <1>2, FS_Subset, FS_CardinalityType DEF Activations, Reading

\* A step of the activation that runs, which does not call or return.
LEMMA GoOnKeepsFlags ==
    ASSUME IInv, FInv, frames # <<>>, lines' = lines,
           NEW f \in FrameType, frames' = [frames EXCEPT ![Depth] = f],
           f.kind = Top.kind, f.depth = Top.depth, Keeps(Top.depth), Anchored(tree', f),
           \/ is_definition' = is_definition
           \/ is_definition' = 0 /\ (Reading = {} \/ NestedDeflist')
    PROVE  FInv'
<1>1. Types /\ Nested
  BY DEF IInv
<1>2. /\ Depth \in Nat /\ Depth \in 1..Depth /\ DOMAIN frames = 1..Depth
      /\ \A d \in 1..Depth : frames[d] \in FrameType
      /\ Top = frames[Depth] /\ Top \in FrameType /\ Top.depth \in Nat
  BY <1>1, TopFacts DEF FrameType
<1>3. /\ frames' # <<>> /\ Depth' = Depth /\ DOMAIN frames' = 1..Depth /\ frames'[Depth] = f
      /\ \A d \in 1..Depth : d # Depth => frames'[d] = frames[d]
  BY <1>1, TopReplaced
<1>4. \A d \in 1..Depth : frames'[d].kind = frames[d].kind /\ frames'[d].depth = frames[d].depth
  BY <1>2, <1>3
<1>5. AllAnchored'
  <2>1. ASSUME NEW d \in 1..Depth, d # Depth PROVE Anchored(tree', frames[d])
    <3>1. frames[d].depth < Top.depth
      BY <1>2, <2>1 DEF FInv, InnerIsDeeper
    <3>2. Anchored(tree, frames[d])
      BY <1>2 DEF FInv, AllAnchored
    <3> QED BY <1>1, <1>2, <3>1, <3>2, AnchorKept
  <2>2. \A d \in 1..Depth : Anchored(tree', frames'[d])
    BY <1>3, <2>1
  <2>3. (\A d \in 1..Depth : Anchored(tree, frames[d]))' <=> \A d \in 1..Depth : Anchored(tree', frames'[d])
    BY <1>3 DEF Anchored
  <2> QED BY <1>2, <1>3, <2>2 DEF AllAnchored, Anchored
<1>6. InnerIsDeeper'
  BY <1>2, <1>3, <1>4 DEF FInv, InnerIsDeeper
<1>7. InDefinitions'
  <2> SUFFICES ASSUME NEW d \in 1..Depth, d > 1
               PROVE  /\ frames'[d].kind = "definition" <=> frames'[d - 1].within \in DeflistParts
                      /\ frames'[d].kind = "definition" => frames'[d].depth > frames'[d - 1].depth + 1
    BY <1>3 DEF InDefinitions
  <2>1. d - 1 \in 1..Depth /\ d - 1 # Depth
    BY <1>2
  <2>2. frames'[d - 1] = frames[d - 1]
    BY <1>3, <2>1
  <2> QED BY <1>2, <1>4, <2>2 DEF FInv, InDefinitions
<1>8. Counted'
  <2>1. Reading' = Reading
    BY <1>3, <1>4 DEF Reading
  <2>2. /\ Activations("definition") = Cardinality(Reading) /\ Cardinality(Reading) \in Nat
    BY <1>1, ReadingFinite
  <2>3. Activations("definition")' = Cardinality(Reading)
    <3>1. Activations("definition")' = Cardinality(Reading')
      BY DEF Activations, Reading
    <3> QED BY <2>1, <3>1
  <2>4. CASE is_definition' = is_definition
    BY <1>1, <1>2, <2>2, <2>3, <2>4, NestedKept DEF FInv, Counted
  <2>5. CASE is_definition' = 0 /\ Reading = {}
    BY <2>2, <2>3, <2>5, FS_EmptySet DEF Counted
  <2>6. CASE is_definition' = 0 /\ NestedDeflist'
    BY <2>2, <2>3, <2>6 DEF Counted
  <2> QED BY <2>4, <2>5, <2>6
<1> QED BY <1>5, <1>6, <1>7, <1>8 DEF FInv

\* The activation that runs puts nodes behind the tree.
LEMMA AppendKeepsFlags ==
    ASSUME IInv, IInv', FInv, frames # <<>>, lines' = lines, NEW S, NEW nodes \in Seq(S),
           tree' = tree \o nodes, \A k \in 1..Len(nodes) : nodes[k].depth >= Top.depth,
           NEW f, frames' = [frames EXCEPT ![Depth] = f], f.kind = Top.kind, f.depth = Top.depth,
           Anchored(tree', f), is_definition' = is_definition
    PROVE  FInv'
<1>1. Types /\ Types' /\ Nested
  BY DEF IInv
<1>2. Depth \in 1..Depth /\ DOMAIN frames = 1..Depth /\ Top \in FrameType /\ Top.depth \in Nat
  BY <1>1, TopFacts DEF FrameType
<1>3. f \in FrameType
  <2>1. frames' \in Seq(FrameType')
    BY <1>1 DEF Types
  <2>2. FrameType' = FrameType
    BY DEF FrameType, N
  <2>3. frames'[Depth] = f /\ DOMAIN frames' = 1..Depth
    BY <1>2
  <2>4. Depth \in 1..Len(frames')
    BY <1>2, <2>1, <2>2, <2>3, LenProperties
  <2> QED BY <2>1, <2>2, <2>3, <2>4, ElementOfSeq
<1>4. Keeps(Top.depth)
  <2> DEFINE all == S \cup TreeNode
  <2>1. tree \in Seq(all) /\ nodes \in Seq(all)
    BY <1>1 DEF Types
  <2> HIDE DEF all
  <2> QED BY <1>1, <1>2, <2>1, AppendKeeps
<1> QED BY <1>3, <1>4, GoOnKeepsFlags

\* A block without children.
LEMMA BlockKeepsFlags ==
    ASSUME IInv, IInv', FInv, frames # <<>>, Top.within = "blocks",
           NEW node, NEW last, NEW tokens, Block(node, last, tokens)
    PROVE  FInv'
<1> DEFINE f == [Top EXCEPT !.l = last + 1]
           x == Node(node, Top.depth, l..last, tokens)
<1>1. /\ tree' = tree \o <<x>> /\ frames' = [frames EXCEPT ![Depth].l = last + 1]
      /\ UNCHANGED <<lines, is_definition>>
  BY DEF Block, Emit
<1>2. Top \in FrameType /\ Top = frames[Depth] /\ Depth \in DOMAIN frames
  BY TopFacts DEF IInv
<1>3. frames' = [frames EXCEPT ![Depth] = f]
  BY <1>1, <1>2
<1>4. f.kind = Top.kind /\ f.depth = Top.depth /\ f.within = "blocks"
  BY <1>2 DEF FrameType
<1>5. x.depth = Top.depth /\ Top.depth \in Nat
  BY <1>2 DEF Node, FrameType
<1> HIDE DEF f, x
<1>6. <<x>> \in Seq({x}) /\ \A k \in 1..Len(<<x>>) : <<x>>[k].depth >= Top.depth
  BY <1>5
<1>7. Anchored(tree', f)
  BY <1>4 DEF Anchored, DeflistParts, ListParts
<1> QED BY <1>1, <1>3, <1>4, <1>6, <1>7, AppendKeepsFlags

LEMMA SimpleKeepsFlags ==
    ASSUME IInv, IInv', FInv,
           \/ block_atx \/ block_toc \/ block_hr \/ block_empty \/ block_reference_def_a
           \/ block_html \/ block_html_comment \/ block_code_fenced \/ block_meta \/ block_meta_yaml
    PROVE  FInv'
<1>1. /\ frames # <<>> /\ Top.within = "blocks"
      /\ \E node, last, tokens : Block(node, last, tokens)
  <2>1. CASE block_atx
    BY <2>1, Zenon DEF block_atx, At
  <2>2. CASE block_toc
    BY <2>2, Zenon DEF block_toc, At
  <2>3. CASE block_hr
    BY <2>3, Zenon DEF block_hr, At
  <2>4. CASE block_empty
    BY <2>4, Zenon DEF block_empty, At
  <2>5. CASE block_reference_def_a
    BY <2>5, Zenon DEF block_reference_def_a, At
  <2>6. CASE block_html
    BY <2>6, Zenon DEF block_html, At
  <2>7. CASE block_html_comment
    BY <2>7, Zenon DEF block_html_comment, At
  <2>8. CASE block_code_fenced
    BY <2>8, Zenon DEF block_code_fenced, At
  <2>9. CASE block_meta
    BY <2>9, Zenon DEF block_meta, At
  <2>10. CASE block_meta_yaml
    BY <2>10, Zenon DEF block_meta_yaml, At
  <2> QED BY <2>1, <2>2, <2>3, <2>4, <2>5, <2>6, <2>7, <2>8, <2>9, <2>10
<1> QED BY <1>1, BlockKeepsFlags

\* The block of empty lines has the depth that it is given.
LEMMA EmptiesDepth ==
    ASSUME NEW first, NEW next, NEW depth \in Nat
    PROVE  LET e == Empties(first, next, depth)
           IN  /\ e \in Seq({Node("empty", depth, first..(next - 1), "none")})
               /\ Len(e) \in {0, 1} /\ \A k \in 1..Len(e) : e[k].depth = depth
<1> DEFINE x == Node("empty", depth, first..(next - 1), "none")
<1>1. x.depth = depth
  BY DEF Node
<1>2. Empties(first, next, depth) \in {<<>>, <<x>>}
  BY DEF Empties
<1> HIDE DEF x
<1>3. CASE Empties(first, next, depth) = <<>>
  BY <1>3 DEF x
<1>4. CASE Empties(first, next, depth) = <<x>>
  BY <1>1, <1>4 DEF x
<1> QED BY <1>2, <1>3, <1>4

\* One node and some more of at least its depth.
LEMMA FirstAndMore ==
    ASSUME NEW x, NEW S, NEW more \in Seq(S), NEW depth \in Nat, x.depth >= depth,
           \A k \in 1..Len(more) : more[k].depth >= depth
    PROVE  /\ <<x>> \o more \in Seq(S \cup {x}) /\ Len(<<x>> \o more) = Len(more) + 1
           /\ (<<x>> \o more)[1] = x /\ \A k \in 1..Len(more) : (<<x>> \o more)[1 + k] = more[k]
           /\ \A k \in 1..Len(<<x>> \o more) : (<<x>> \o more)[k].depth >= depth
<1> DEFINE all == S \cup {x}
           c == <<x>> \o more
<1>1. <<x>> \in Seq(all) /\ more \in Seq(all) /\ Len(<<x>>) = 1 /\ <<x>>[1] = x /\ Len(more) \in Nat
  BY LenProperties
<1>2. /\ c \in Seq(all) /\ Len(c) = 1 + Len(more) /\ c[1] = x
      /\ \A k \in 1..Len(more) : c[1 + k] = more[k]
  <2>1. /\ c \in Seq(all) /\ Len(c) = Len(<<x>>) + Len(more)
        /\ \A k \in 1..Len(<<x>>) : c[k] = <<x>>[k]
        /\ \A k \in 1..Len(more) : c[Len(<<x>>) + k] = more[k]
    BY <1>1, ConcatProperties
  <2> HIDE DEF c
  <2> QED BY <1>1, <2>1
<1> HIDE DEF c
<1>3. ASSUME NEW k \in 1..Len(c) PROVE c[k].depth >= depth
  <2>1. CASE k = 1
    BY <1>2, <2>1
  <2>2. CASE k # 1
    <3>1. k - 1 \in 1..Len(more) /\ 1 + (k - 1) = k
      BY <1>1, <1>2, <2>2
    <3>2. c[1 + (k - 1)] = more[k - 1]
      BY <1>2, <3>1
    <3> QED BY <3>1, <3>2
  <2> QED BY <2>1, <2>2
<1>4. Len(c) = Len(more) + 1
  BY <1>1, <1>2
<1> QED BY <1>2, <1>3, <1>4 DEF c

LEMMA CodeIndentedKeepsFlags ==
    ASSUME IInv, IInv', FInv, block_code_indented
    PROVE  FInv'
<1>1. frames # <<>> /\ Top.within = "blocks" /\ UNCHANGED <<lines, is_definition>>
  BY DEF block_code_indented, At
<1>2. PICK end, rest :
          Emit(<<Node("code_indented", Top.depth, l..(end - 1), "none")>>
               \o Empties(end, rest, Top.depth), rest)
  BY Zenon DEF block_code_indented
<1> DEFINE f == [Top EXCEPT !.l = rest]
           x == Node("code_indented", Top.depth, l..(end - 1), "none")
           y == Node("empty", Top.depth, end..(rest - 1), "none")
           e == Empties(end, rest, Top.depth)
<1>3. Top \in FrameType /\ Top = frames[Depth] /\ Depth \in DOMAIN frames /\ Top.depth \in Nat
  BY <1>1, TopFacts DEF IInv, FrameType
<1>4. tree' = tree \o (<<x>> \o e) /\ frames' = [frames EXCEPT ![Depth] = f]
  BY <1>2, <1>3 DEF Emit
<1>5. f.kind = Top.kind /\ f.depth = Top.depth /\ f.within = "blocks"
  BY <1>1, <1>3 DEF FrameType
<1>6. e \in Seq({y}) /\ \A k \in 1..Len(e) : e[k].depth >= Top.depth
  BY <1>3, EmptiesDepth
<1>7. x.depth >= Top.depth
  BY <1>3 DEF Node
<1> HIDE DEF f, x, y, e
<1>8. <<x>> \o e \in Seq({y} \cup {x}) /\ \A k \in 1..Len(<<x>> \o e) : (<<x>> \o e)[k].depth >= Top.depth
  BY <1>3, <1>6, <1>7, FirstAndMore
<1>9. Anchored(tree', f)
  BY <1>5 DEF Anchored, DeflistParts, ListParts
<1> QED BY <1>1, <1>4, <1>5, <1>8, <1>9, AppendKeepsFlags

-----------------------------------------------------------------------------
\* A definition list begins: its terms are deeper than it.
LEMMA ParaKeepsFlags ==
    ASSUME IInv, IInv', FInv, block_para
    PROVE  FInv'
<1>1. /\ Types /\ Types' /\ frames # <<>> /\ Top.within = "blocks" /\ l <= stop
      /\ l \in 1..N /\ stop \in 1..N /\ N \in Nat /\ l + 1 \in l..(stop + 1)
  <2>1. \/ At({"plain", "html", "setext1", "definition", "comment_stop"})
        \/ At({"meta"}) \/ At({"def_note"})
    BY DEF block_para
  <2> QED BY <2>1, AtIs DEF IInv
<1> DEFINE turns(end) == IF end <= stop THEN type[end] ELSE "plain"
           header(end) == turns(end) \in {"setext1", "setext2"}
           terms(end) == [i \in 1..(end - l) |-> Node("term", Top.depth + 1, {l + i - 1}, "none")]
<1>2. PICK end \in Behind(l + 1, accept_para_line) :
          IF turns(end) = "definition"
          THEN /\ tree' = tree \o <<Node("deflist", Top.depth, {}, "none")>> \o terms(end)
               /\ frames' = [frames EXCEPT ![Depth] = [@ EXCEPT
                      !.l = end, !.node = Len(tree) + 1,
                      !.within = IF NoteInNote THEN "raw deflist" ELSE "deflist"]]
               /\ UNCHANGED <<lines, stripped, dropped, allow_meta, is_definition, is_endnote>>
          ELSE Block(IF header(end) THEN "setext" ELSE "para", IF header(end) THEN end ELSE end - 1,
                     IF NoteInNote THEN "none" ELSE Tokenized(l))
  BY DEF block_para
<1>3. end \in (l + 1)..(stop + 1) /\ end \in l..(stop + 1)
  BY <1>1, BehindIs
<1>4. CASE turns(end) = "definition"
  <2> DEFINE x == Node("deflist", Top.depth, {}, "none")
             t == terms(end)
             part == IF NoteInNote THEN "raw deflist" ELSE "deflist"
             f == [Top EXCEPT !.l = end, !.node = Len(tree) + 1, !.within = part]
             a == Len(tree)
  <2>1. Top \in FrameType /\ Top = frames[Depth] /\ Depth \in 1..Depth /\ DOMAIN frames = 1..Depth
        /\ Top.depth \in Nat
    BY <1>1, TopFacts, Zenon DEF FrameType
  <2>2. t \in Seq(TreeNode) /\ Len(t) = end - l
    BY <1>1, <1>3, TermsPlace
  <2>3. \A k \in 1..Len(t) : t[k].depth = Top.depth + 1
    BY <2>2 DEF Node
  <2>4. x.depth = Top.depth /\ x.type = "deflist"
    BY DEF Node
  <2>5. /\ f.kind = Top.kind /\ f.depth = Top.depth /\ f.node = a + 1 /\ f.within = part
        /\ frames' = [frames EXCEPT ![Depth] = f]
    BY <1>2, <1>4, <2>1 DEF FrameType
  <2>6. tree \in Seq(TreeNode) /\ a \in Nat /\ x \in TreeNode
    <3>1. x \in TreeNode
      BY <2>1 DEF Node, TreeNode, Nodes, Blocks
    <3> QED BY <1>1, <3>1, LenProperties DEF Types
  <2> DEFINE nodes == <<x>> \o t
  <2>7. tree' = tree \o nodes /\ UNCHANGED <<lines, is_definition>>
    <3>1. tree' = tree \o <<x>> \o t /\ UNCHANGED <<lines, is_definition>>
      BY <1>2, <1>4
    <3> HIDE DEF x, t
    <3>2. <<x>> \in Seq(TreeNode)
      BY <2>6
    <3> QED BY <2>2, <2>6, <3>1, <3>2, ConcatAssociative
  <2> HIDE DEF x, t, f
  <2>8. /\ nodes \in Seq(TreeNode \cup {x}) /\ Len(nodes) = Len(t) + 1 /\ nodes[1] = x
        /\ \A k \in 1..Len(t) : nodes[1 + k] = t[k]
        /\ \A k \in 1..Len(nodes) : nodes[k].depth >= Top.depth
    <3>1. x.depth >= Top.depth /\ \A k \in 1..Len(t) : t[k].depth >= Top.depth
      BY <2>1, <2>3, <2>4
    <3> QED BY <2>1, <2>2, <3>1, FirstAndMore
  <2> HIDE DEF nodes, a
  <2>9. nodes \in Seq(TreeNode) /\ Len(t) \in Nat
    <3>1. TreeNode \cup {x} = TreeNode
      BY <2>6
    <3> QED BY <2>2, <2>8, <3>1, LenProperties
  <2>10. Len(tree') = a + Len(nodes) /\ \A k \in 1..Len(nodes) : tree'[a + k] = nodes[k]
    BY <1>1, <2>1, <2>6, <2>7, <2>8, <2>9, AppendKeeps DEF a
  <2>11. Anchored(tree', f)
    <3>1. a + 1 \in 1..Len(tree') /\ tree'[a + 1] = x
      BY <2>6, <2>8, <2>9, <2>10
    <3>2. ASSUME NEW k \in 1..Len(tree'), k > a + 1 PROVE tree'[k].depth > Top.depth
      <4>1. k - a - 1 \in 1..Len(t) /\ 1 + (k - a - 1) \in 1..Len(nodes) /\ a + (1 + (k - a - 1)) = k
        BY <2>6, <2>8, <2>9, <2>10, <3>2
      <4>2. tree'[a + (1 + (k - a - 1))] = nodes[1 + (k - a - 1)]
        BY <2>10, <4>1
      <4>3. nodes[1 + (k - a - 1)] = t[k - a - 1] /\ t[k - a - 1].depth = Top.depth + 1
        BY <2>3, <2>8, <4>1
      <4> QED BY <2>1, <4>1, <4>2, <4>3
    <3>3. part \notin ListParts
      BY DEF ListParts
    <3> QED BY <2>4, <2>5, <3>1, <3>2, <3>3 DEF Anchored
  <2> QED BY <1>1, <2>5, <2>7, <2>8, <2>9, <2>11, AppendKeepsFlags
<1>5. CASE turns(end) # "definition"
  BY <1>1, <1>2, <1>5, BlockKeepsFlags
<1> QED BY <1>4, <1>5

LEMMA TableKeepsFlags ==
    ASSUME IInv, IInv', FInv, block_table
    PROVE  FInv'
<1>1. Types /\ frames # <<>> /\ Top.within = "blocks"
  BY DEF block_table, At, IInv
<1> DEFINE isHeader(sep) == sep <= stop /\ type[sep] = "separator"
           x == Node("table", Top.depth, {}, "none")
           y(sep) == Node("table_header", Top.depth + 1, l..sep, Rows(l..sep))
<1>2. PICK sep \in Behind(l, {"table"}) :
          IF isHeader(sep) /\ sep < stop /\ type[sep + 1] = "table"
          THEN /\ tree' = tree \o <<x, y(sep)>>
               /\ frames' = [frames EXCEPT ![Depth] = [@ EXCEPT
                      !.l = sep + 1, !.within = "table", !.node = Len(tree) + 2]]
               /\ UNCHANGED <<lines, stripped, dropped, allow_meta, is_definition, is_endnote>>
          ELSE \E end \in IF isHeader(sep) THEN {sep + 1} ELSE Behind(sep, accept_para_line) :
                  Block("para", end - 1, Tokenized(l))
  BY DEF block_table
<1>3. CASE isHeader(sep) /\ sep < stop /\ type[sep + 1] = "table"
  <2> DEFINE z == y(sep)
             f == [Top EXCEPT !.l = sep + 1, !.within = "table", !.node = Len(tree) + 2]
             nodes == <<x, z>>
  <2>1. Top \in FrameType /\ Top = frames[Depth] /\ Depth \in DOMAIN frames /\ Top.depth \in Nat
    BY <1>1, TopFacts DEF FrameType
  <2>2. f.kind = Top.kind /\ f.depth = Top.depth /\ f.within = "table" /\ frames' = [frames EXCEPT ![Depth] = f]
    BY <1>2, <1>3, <2>1 DEF FrameType
  <2>3. tree' = tree \o nodes /\ UNCHANGED <<lines, is_definition>>
    BY <1>2, <1>3
  <2>4. x.depth >= Top.depth /\ z.depth >= Top.depth
    BY <2>1 DEF Node
  <2> HIDE DEF x, z, f
  <2>5. nodes \in Seq({x, z}) /\ \A k \in 1..Len(nodes) : nodes[k].depth >= Top.depth
    BY <2>4
  <2>6. Anchored(tree', f)
    BY <2>2 DEF Anchored, DeflistParts, ListParts
  <2> HIDE DEF nodes
  <2> QED BY <1>1, <2>2, <2>3, <2>5, <2>6, AppendKeepsFlags
<1>4. CASE ~(isHeader(sep) /\ sep < stop /\ type[sep + 1] = "table")
  BY <1>1, <1>2, <1>4, BlockKeepsFlags
<1> QED BY <1>3, <1>4

LEMMA ListKeepsFlags ==
    ASSUME IInv, IInv', FInv, block_list
    PROVE  FInv'
<1> DEFINE x == Node("list", Top.depth, {}, "none")
           f == [Top EXCEPT !.within = type[l], !.node = Len(tree) + 1]
           a == Len(tree)
<1>1. At({"bullet", "enum"}) /\ UNCHANGED <<lines, is_definition>>
  BY DEF block_list
<1>2. Types /\ Types' /\ frames # <<>> /\ type[l] \in ListParts
  BY <1>1 DEF At, IInv, ListParts
<1>3. Top \in FrameType /\ Top = frames[Depth] /\ Depth \in DOMAIN frames /\ Top.depth \in Nat
  BY <1>2, TopFacts DEF FrameType
<1>4. x \in TreeNode /\ x.depth = Top.depth /\ x.type = "list"
  BY <1>3 DEF Node, TreeNode, Nodes, Blocks
<1>5. /\ f.kind = Top.kind /\ f.depth = Top.depth /\ f.within = type[l] /\ f.node = a + 1
      /\ frames' = [frames EXCEPT ![Depth] = f]
  BY <1>3 DEF block_list, FrameType
<1>6. tree \in Seq(TreeNode) /\ a \in Nat
  BY <1>2, LenProperties DEF Types
<1>7. tree' = tree \o <<x>>
  <2>1. tree' = Append(tree, x)
    BY DEF block_list
  <2> HIDE DEF x
  <2> QED BY <1>4, <1>6, <2>1, AppendIsConcat
<1> HIDE DEF x, f
<1>8. <<x>> \in Seq(TreeNode) /\ Len(<<x>>) = 1 /\ <<x>>[1] = x /\ \A k \in 1..Len(<<x>>) : <<x>>[k].depth >= Top.depth
  BY <1>3, <1>4
<1>9. a + 1 \in 1..Len(tree') /\ tree'[a + 1] = x
  <2>1. Len(tree') = a + Len(<<x>>) /\ \A k \in 1..Len(<<x>>) : tree'[a + k] = <<x>>[k]
    BY <1>2, <1>3, <1>6, <1>7, <1>8, AppendKeeps
  <2> HIDE DEF a
  <2> QED BY <1>6, <1>8, <2>1
<1>10. Anchored(tree', f)
  BY <1>2, <1>4, <1>5, <1>9 DEF Anchored, DeflistParts, ListParts
<1> QED BY <1>1, <1>2, <1>5, <1>7, <1>8, <1>10, AppendKeepsFlags

\* What replaces the activation that runs is one.
LEMMA TopIsFrame ==
    ASSUME Types, Types', frames # <<>>, lines' = lines, NEW f, frames' = [frames EXCEPT ![Depth] = f]
    PROVE  f \in FrameType
<1>1. Depth \in 1..Depth /\ DOMAIN frames = 1..Depth
  BY TopFacts
<1>2. frames' \in Seq(FrameType') /\ FrameType' = FrameType
  <2>1. FrameType' = FrameType
    BY DEF FrameType, N
  <2> QED BY <2>1 DEF Types
<1>3. frames'[Depth] = f /\ DOMAIN frames' = 1..Depth
  BY <1>1
<1>4. Depth \in 1..Len(frames')
  BY <1>1, <1>2, <1>3, LenProperties
<1> QED BY <1>2, <1>3, <1>4, ElementOfSeq

LEMMA SectionKeepsFlags ==
    ASSUME IInv, IInv', FInv, block_table_section
    PROVE  FInv'
<1>1. /\ frames # <<>> /\ Top.within = "table" /\ UNCHANGED <<lines, is_definition>>
      /\ Types /\ Types' /\ Nested
  BY DEF block_table_section, IInv
<1> DEFINE k == Top.node
           header == tree[k].lines
           empty(end) == end <= stop /\ type[end] = "empty"
           next(end) == IF empty(end) THEN end + 1 ELSE end
           section(end) == Node("table_section", Top.depth + 1, l..(end - 1), Rows(l..(end - 1)))
           more(end) == empty(end) /\ end < stop /\ type[end + 1] \in accept_table_line
<1>2. PICK end \in Behind(l, accept_table_line) :
          IF more(end)
          THEN /\ tree' = Append([tree EXCEPT ![k].lines = @ \cup {end}], section(end))
               /\ frames' = [frames EXCEPT ![Depth].l = next(end)]
               /\ UNCHANGED dropped
          ELSE /\ tree' = [tree EXCEPT ![k].lines = @ \ Vanishing(header)] \o <<section(end)>>
                          \o Empties(end, next(end), Top.depth)
               /\ dropped' = dropped \cup Vanishing(header)
               /\ frames' = [frames EXCEPT ![Depth] = [@ EXCEPT
                      !.l = next(end), !.within = "blocks", !.node = 0]]
  BY DEF block_table_section
<1>3. Top \in FrameType /\ Top = frames[Depth] /\ Depth \in DOMAIN frames /\ Top.depth \in Nat
  BY <1>1, TopFacts DEF FrameType
<1>4. tree \in Seq(TreeNode) /\ Len(tree) \in Nat /\ DOMAIN tree = 1..Len(tree)
  BY <1>1, LenProperties DEF Types
<1>5. k \in 1..Len(tree)
  <2>1. k \in Nat /\ k # 0 /\ k <= Len(tree)
    BY <1>1, <1>3 DEF FrameType, IInv, InTable, Nested
  <2> QED BY <1>4, <2>1
<1> DEFINE changed(ids) == [tree[k] EXCEPT !.lines = ids]
           t(ids) == [tree EXCEPT ![k] = changed(ids)]
           x == section(end)
           S(ids) == TreeNode \cup {changed(ids), x} \cup {Node("empty", Top.depth, end..(next(end) - 1), "none")}
<1>6. ASSUME NEW ids
      PROVE  /\ t(ids) \in Seq(S(ids)) /\ Len(t(ids)) = Len(tree)
             /\ \A m \in 1..Len(tree) : /\ t(ids)[m].depth = tree[m].depth
                                        /\ t(ids)[m].type = "deflist" <=> tree[m].type = "deflist"
  <2>1. tree[k] \in TreeNode
    BY <1>4, <1>5, ElementOfSeq
  <2>2. changed(ids).depth = tree[k].depth /\ changed(ids).type = tree[k].type
    BY <2>1 DEF TreeNode
  <2>3. tree \in Seq(S(ids)) /\ changed(ids) \in S(ids)
    BY <1>4
  <2> DEFINE y == changed(ids)
             all == S(ids)
  <2> HIDE DEF y, all
  <2>4. /\ [tree EXCEPT ![k] = y] \in Seq(all) /\ Len([tree EXCEPT ![k] = y]) = Len(tree)
        /\ \A m \in 1..Len(tree) : [tree EXCEPT ![k] = y][m] = IF m = k THEN y ELSE tree[m]
    BY <1>5, <2>3, ExceptSeq DEF y, all
  <2> QED BY <2>2, <2>4 DEF y, all
<1>7. x.depth >= Top.depth
  BY <1>3 DEF Node
<1>8. CASE more(end)
  <2> DEFINE ids == header \cup {end}
             f == [Top EXCEPT !.l = next(end)]
             all == S(ids)
             u == t(ids)
  <2>1. tree' = Append(u, x) /\ frames' = [frames EXCEPT ![Depth] = f]
    BY <1>2, <1>3, <1>5, <1>8
  <2>2. f.kind = Top.kind /\ f.depth = Top.depth /\ f.within = "table"
    BY <1>1, <1>3 DEF FrameType
  <2>3. /\ u \in Seq(all) /\ x \in all /\ Len(u) = Len(tree)
        /\ \A m \in 1..Len(tree) : /\ u[m].depth = tree[m].depth
                                   /\ u[m].type = "deflist" <=> tree[m].type = "deflist"
    BY <1>6
  <2> HIDE DEF u, all, x, f
  <2>4. tree' = u \o <<x>> /\ <<x>> \in Seq(all) /\ \A i \in 1..Len(<<x>>) : <<x>>[i].depth >= Top.depth
    BY <1>7, <2>1, <2>3, AppendIsConcat
  <2>5. Keeps(Top.depth)
    BY <1>1, <1>3, <2>3, <2>4, AppendKeeps
  <2>6. Anchored(tree', f)
    BY <2>2 DEF Anchored, DeflistParts, ListParts
  <2>7. f \in FrameType
    BY <1>1, <2>1, TopIsFrame
  <2> QED BY <1>1, <2>1, <2>2, <2>5, <2>6, <2>7, GoOnKeepsFlags
<1>9. CASE ~more(end)
  <2> DEFINE ids == header \ Vanishing(header)
             f == [Top EXCEPT !.l = next(end), !.within = "blocks", !.node = 0]
             all == S(ids)
             u == t(ids)
             e == Empties(end, next(end), Top.depth)
             z == Node("empty", Top.depth, end..(next(end) - 1), "none")
             nodes == <<x>> \o e
  <2>1. tree' = u \o <<x>> \o e /\ frames' = [frames EXCEPT ![Depth] = f]
    BY <1>2, <1>3, <1>5, <1>9
  <2>2. f.kind = Top.kind /\ f.depth = Top.depth /\ f.within = "blocks"
    BY <1>1, <1>3 DEF FrameType
  <2>3. /\ u \in Seq(all) /\ x \in all /\ z \in all /\ Len(u) = Len(tree)
        /\ \A m \in 1..Len(tree) : /\ u[m].depth = tree[m].depth
                                   /\ u[m].type = "deflist" <=> tree[m].type = "deflist"
    BY <1>6
  <2>4. e \in Seq({z}) /\ \A i \in 1..Len(e) : e[i].depth >= Top.depth
    BY <1>3, EmptiesDepth
  <2> HIDE DEF u, all, x, f, e, z
  <2>5. e \in Seq(all) /\ <<x>> \in Seq(all)
    BY <2>3, <2>4
  <2>6. nodes \in Seq(all) /\ \A i \in 1..Len(nodes) : nodes[i].depth >= Top.depth
    <3>1. all \cup {x} = all
      BY <2>3
    <3> QED BY <1>3, <1>7, <2>4, <2>5, <3>1, FirstAndMore
  <2>7. tree' = u \o nodes
    BY <2>1, <2>3, <2>5, ConcatAssociative
  <2> HIDE DEF nodes
  <2>8. Keeps(Top.depth)
    BY <1>1, <1>3, <2>3, <2>6, <2>7, AppendKeeps
  <2>9. Anchored(tree', f)
    BY <2>2 DEF Anchored, DeflistParts, ListParts
  <2>10. f \in FrameType
    BY <1>1, <2>1, TopIsFrame
  <2> QED BY <1>1, <2>1, <2>2, <2>8, <2>9, <2>10, GoOnKeepsFlags
<1> QED BY <1>8, <1>9

\* Where the list is closed, the activation goes on with blocks.
LEMMA CloseKeepsFlags ==
    ASSUME IInv, IInv', FInv, frames # <<>>, lines' = lines,
           frames' = [frames EXCEPT ![Depth] = [@ EXCEPT !.within = "blocks", !.node = 0]],
           Len(tree') = Len(tree),
           \A m \in 1..Len(tree) : /\ tree'[m].depth = tree[m].depth
                                   /\ tree'[m].type = "deflist" <=> tree[m].type = "deflist",
           \/ is_definition' = is_definition
           \/ is_definition' = 0 /\ (Reading = {} \/ NestedDeflist')
    PROVE  FInv'
<1> DEFINE f == [Top EXCEPT !.within = "blocks", !.node = 0]
<1>1. Types /\ Types'
  BY DEF IInv
<1>2. Top \in FrameType /\ Top = frames[Depth] /\ Depth \in DOMAIN frames /\ Top.depth \in Nat
  BY <1>1, TopFacts DEF FrameType
<1>3. frames' = [frames EXCEPT ![Depth] = f]
  BY <1>2
<1>4. f.kind = Top.kind /\ f.depth = Top.depth /\ f.within = "blocks"
  BY <1>2 DEF FrameType
<1> HIDE DEF f
<1>5. f \in FrameType
  BY <1>1, <1>3, TopIsFrame
<1>6. Len(tree) \in Nat
  BY <1>1, LenProperties DEF Types
<1>7. Keeps(Top.depth)
  BY <1>6 DEF Keeps
<1>8. Anchored(tree', f)
  BY <1>4 DEF Anchored, DeflistParts, ListParts
<1> QED BY <1>3, <1>4, <1>5, <1>7, <1>8, GoOnKeepsFlags

LEMMA ListEndKeepsFlags ==
    ASSUME IInv, IInv', FInv, flag_list_loose
    PROVE  FInv'
<1> DEFINE list == Top.node
           Loosened(m) == CASE m = list -> "list_loose"
                            [] /\ m > list /\ tree[m].type = "item_tight"
                               /\ tree[m].depth = tree[list].depth + 1 -> "item"
                            [] OTHER -> tree[m].type
<1>1. /\ Types /\ frames # <<>> /\ Top.within \in ListParts
      /\ tree' = (IF ~Loose(list) THEN tree
                  ELSE [m \in 1..Len(tree) |-> [tree[m] EXCEPT !.type = Loosened(m)]])
      /\ frames' = [frames EXCEPT ![Depth] = [@ EXCEPT !.within = "blocks", !.node = 0]]
      /\ UNCHANGED <<lines, is_definition>>
  BY DEF flag_list_loose, Within, IInv, ListParts
<1>2. /\ tree \in Seq(TreeNode) /\ Len(tree) \in Nat /\ DOMAIN tree = 1..Len(tree)
      /\ \A m \in 1..Len(tree) : tree[m] \in TreeNode
  BY <1>1, LenProperties, ElementOfSeq DEF Types
<1>3. list \in 1..Len(tree) /\ tree[list].type # "deflist"
  <2>1. Depth \in DOMAIN frames /\ Top = frames[Depth]
    BY <1>1, TopFacts
  <2> QED BY <1>1, <2>1 DEF FInv, AllAnchored, Anchored
<1>4. /\ Len(tree') = Len(tree)
      /\ \A m \in 1..Len(tree) : /\ tree'[m].depth = tree[m].depth
                                 /\ tree'[m].type = "deflist" <=> tree[m].type = "deflist"
  <2>1. CASE ~Loose(list)
    BY <1>1, <2>1
  <2>2. CASE Loose(list)
    <3> DEFINE new == [m \in 1..Len(tree) |-> [tree[m] EXCEPT !.type = Loosened(m)]]
    <3>1. tree' = new
      BY <1>1, <2>2
    <3>2. ASSUME NEW m \in 1..Len(tree)
          PROVE  /\ new[m] \in TreeNode /\ new[m].depth = tree[m].depth
                 /\ new[m].type = "deflist" <=> tree[m].type = "deflist"
      <4>1. tree[m] \in TreeNode
        BY <1>2
      <4>2. Loosened(m) \in Nodes /\ (Loosened(m) = "deflist" <=> tree[m].type = "deflist")
        BY <1>3, <4>1 DEF TreeNode, Nodes, Blocks, Items
      <4>3. new[m] = [tree[m] EXCEPT !.type = Loosened(m)]
        OBVIOUS
      <4> HIDE DEF Loosened, new
      <4> QED BY <4>1, <4>2, <4>3 DEF TreeNode
    <3>3. DOMAIN new = 1..Len(tree) /\ new = [m \in 1..Len(tree) |-> new[m]]
      OBVIOUS
    <3> HIDE DEF new
    <3>4. Len(new) = Len(tree)
      BY <1>2, <3>2, <3>3, MappedOK
    <3> QED BY <3>1, <3>2, <3>4
  <2> QED BY <2>1, <2>2
<1> QED BY <1>1, <1>4, CloseKeepsFlags

\* is_definition is reset.  If a definition is being read, the list that it is in
\* began before the one that ends, and nothing behind it is outside of it.
LEMMA DeflistEndKeepsFlags ==
    ASSUME IInv, IInv', FInv, mmd_parse_tokens_deflist
    PROVE  FInv'
<1> DEFINE list == Top.node
           Tokens(m) == IF m = list + 1 THEN Tokenized(First(tree[m].lines)) ELSE "tokens"
           Told(m) == IF ~Late(list, m) THEN tree[m] ELSE [tree[m] EXCEPT !.tokens = Tokens(m)]
<1>1. /\ Types /\ Rooted /\ frames # <<>> /\ Top.within \in DeflistParts
      /\ frames' = [frames EXCEPT ![Depth] = [@ EXCEPT !.within = "blocks", !.node = 0]]
      /\ lines' = lines
  BY DEF mmd_parse_tokens_deflist, Within, IInv, DeflistParts
<1>2. /\ tree' = [m \in 1..Len(tree) |-> Told(m)] \/ tree' = tree
      /\ is_definition' = 0 \/ is_definition' = is_definition
  <2>1. CASE Top.within = "deflist"
    BY <2>1, Zenon DEF mmd_parse_tokens_deflist
  <2>2. CASE Top.within # "deflist"
    BY <2>2, Zenon DEF mmd_parse_tokens_deflist
  <2> QED BY <2>1, <2>2
<1>3. /\ tree \in Seq(TreeNode) /\ Len(tree) \in Nat /\ DOMAIN tree = 1..Len(tree)
      /\ \A m \in 1..Len(tree) : tree[m] \in TreeNode
  BY <1>1, LenProperties, ElementOfSeq DEF Types
<1>4. /\ Len(tree') = Len(tree)
      /\ \A m \in 1..Len(tree) : tree'[m].depth = tree[m].depth /\ tree'[m].type = tree[m].type
  <2>1. CASE tree' = tree
    BY <2>1
  <2>2. CASE tree' = [m \in 1..Len(tree) |-> Told(m)]
    <3> DEFINE new == [m \in 1..Len(tree) |-> Told(m)]
    <3>1. ASSUME NEW m \in 1..Len(tree)
          PROVE  new[m] \in TreeNode /\ new[m].depth = tree[m].depth /\ new[m].type = tree[m].type
      <4>1. tree[m] \in TreeNode
        BY <1>3
      <4>2. Tokens(m) \in {"none", "tokens", "exposed"}
        BY TokenizedIs
      <4>3. new[m] = Told(m)
        OBVIOUS
      <4> HIDE DEF Tokens, new
      <4> QED BY <4>1, <4>2, <4>3 DEF TreeNode
    <3>2. tree' = new
      BY <2>2
    <3>3. DOMAIN new = 1..Len(tree) /\ new = [m \in 1..Len(tree) |-> new[m]]
      OBVIOUS
    <3> HIDE DEF new
    <3>4. Len(new) = Len(tree)
      BY <1>3, <3>1, <3>3, MappedOK
    <3> QED BY <3>1, <3>2, <3>4
  <2> QED BY <1>2, <2>1, <2>2
<1>5. /\ Depth \in Nat /\ Depth \in 1..Depth /\ DOMAIN frames = 1..Depth
      /\ \A d \in 1..Depth : frames[d] \in FrameType
      /\ Top = frames[Depth] /\ Top.depth \in Nat
  BY <1>1, TopFacts DEF FrameType
<1>6. ASSUME Reading # {} PROVE NestedDeflist'
  <2>1. PICK d \in 1..Depth : frames[d].kind = "definition"
    BY <1>6 DEF Reading
  <2>2. d > 1
    BY <1>1, <1>5, <2>1 DEF Rooted
  <2> DEFINE c == d - 1
             m == frames[c].node
  <2>3. c \in 1..Depth /\ c < Depth /\ frames[c].within \in DeflistParts
    <3>1. c \in 1..Depth /\ c < Depth
      BY <1>5, <2>2
    <3>2. frames[d - 1].within \in DeflistParts
      <4>1. InDefinitions
        BY DEF FInv
      <4>2. d \in DOMAIN frames
        BY <1>5
      <4> QED BY <2>1, <2>2, <4>1, <4>2, Zenon DEF InDefinitions
    <3> QED BY <3>1, <3>2
  <2> HIDE DEF c
  <2>4. /\ m \in 1..Len(tree) /\ tree[m].type = "deflist" /\ tree[m].depth = frames[c].depth
        /\ \A k \in 1..Len(tree) : k > m => tree[k].depth > frames[c].depth
    BY <1>5, <2>3 DEF FInv, AllAnchored, Anchored
  <2>5. /\ list \in 1..Len(tree) /\ tree[list].type = "deflist" /\ tree[list].depth = Top.depth
        /\ \A k \in 1..Len(tree) : k > list => tree[k].depth > Top.depth
    BY <1>1, <1>5 DEF FInv, AllAnchored, Anchored
  <2>6. frames[c].depth < Top.depth /\ frames[c].depth \in Nat
    BY <1>5, <2>3 DEF FInv, InnerIsDeeper, FrameType
  <2> HIDE DEF m, list
  <2>7. m < list
    <3>1. CASE m > list
      <4>1. tree[m].depth > Top.depth
        BY <2>4, <2>5, <3>1
      <4> QED BY <1>5, <2>4, <2>6, <4>1
    <3>2. CASE m = list
      BY <1>5, <2>4, <2>5, <2>6, <3>2
    <3> QED BY <1>3, <2>4, <2>5, <3>1, <3>2
  <2>8. /\ m \in 1..Len(tree') /\ list \in 1..Len(tree')
        /\ tree'[m].type = "deflist" /\ tree'[list].type = "deflist"
    BY <1>4, <2>4, <2>5
  <2>9. ASSUME NEW k \in (m + 1)..list PROVE tree'[k].depth > tree'[m].depth
    <3>1. k \in 1..Len(tree) /\ k > m
      BY <1>3, <2>4, <2>5
    <3> QED BY <1>4, <2>4, <3>1
  <2> QED BY <2>7, <2>8, <2>9 DEF NestedDeflist
<1>7. \/ is_definition' = is_definition
      \/ is_definition' = 0 /\ (Reading = {} \/ NestedDeflist')
  BY <1>2, <1>6
<1> QED BY <1>1, <1>4, <1>7, CloseKeepsFlags
-----------------------------------------------------------------------------
\* blocks() is called: for a definition, if its caller reads a definition list.
LEMMA EnterKeepsFlags ==
    ASSUME IInv, IInv', FInv, frames # <<>>, NEW kind, NEW node, NEW depth \in Nat, NEW last, NEW next,
           Enter(kind, node, depth, last, next), depth >= Top.depth,
           IF Top.within \in DeflistParts THEN kind = "definition" /\ depth = Top.depth + 1
                                          ELSE kind # "definition",
           is_definition' = IF kind = "definition" THEN is_definition + 1 ELSE is_definition
    PROVE  FInv'
<1> DEFINE f == [Top EXCEPT !.l = next]
           g == Frame(kind, l, last, depth + 1)
           x == Node(node, depth, {}, "none")
<1>1. Types /\ Types' /\ Rooted
  BY DEF IInv
<1>2. /\ Depth \in Nat /\ Depth >= 1 /\ DOMAIN frames = 1..Depth /\ Depth \in 1..Depth
      /\ \A d \in 1..Depth : frames[d] \in FrameType
      /\ Top \in FrameType /\ Top = frames[Depth] /\ Top.depth \in Nat
  BY <1>1, TopFacts DEF FrameType
<1>3. tree' = Append(tree, x) /\ lines' = lines /\ frames' = Append([frames EXCEPT ![Depth] = f], g)
  BY <1>2 DEF Enter
<1>4. f.kind = Top.kind /\ f.depth = Top.depth /\ f.within = Top.within /\ f.node = Top.node
  BY <1>2 DEF FrameType
<1>5. g.kind = kind /\ g.depth = depth + 1 /\ g.within = "blocks"
  BY DEF Frame
<1>6. x.depth = depth
  BY DEF Node
<1> HIDE DEF f, g, x
<1>7. /\ Depth' = Depth + 1 /\ DOMAIN frames' = 1..(Depth + 1)
      /\ frames'[Depth + 1] = g /\ frames'[Depth] = f
      /\ \A d \in 1..Depth : d # Depth => frames'[d] = frames[d]
  <2> DEFINE s == [frames EXCEPT ![Depth] = f]
             F == FrameType \cup {f, g}
  <2>1. frames \in Seq(F) /\ f \in F /\ g \in F /\ Depth \in 1..Len(frames) /\ Depth = Len(frames)
    BY <1>1, <1>2 DEF Types, Depth
  <2> HIDE DEF F
  <2>2. /\ s \in Seq(F) /\ Len(s) = Depth
        /\ \A d \in 1..Depth : s[d] = IF d = Depth THEN f ELSE frames[d]
    BY <2>1, ExceptSeq
  <2> HIDE DEF s
  <2>3. /\ Append(s, g) \in Seq(F) /\ Len(Append(s, g)) = Depth + 1
        /\ \A d \in 1..Depth : Append(s, g)[d] = s[d]
        /\ Append(s, g)[Depth + 1] = g
    BY <2>1, <2>2, AppendProperties
  <2>4. frames' = Append(s, g)
    BY <1>3 DEF s
  <2> QED BY <1>2, <2>2, <2>3, <2>4, LenProperties DEF Depth
<1>8. \A d \in 1..Depth : /\ frames'[d].kind = frames[d].kind /\ frames'[d].depth = frames[d].depth
                          /\ frames'[d].within = frames[d].within /\ frames'[d].node = frames[d].node
  BY <1>2, <1>4, <1>7
<1>9. Keeps(depth)
  <2> DEFINE all == TreeNode \cup {x}
  <2>1. tree \in Seq(all) /\ x \in all
    BY <1>1 DEF Types
  <2> HIDE DEF all
  <2>2. tree' = tree \o <<x>> /\ <<x>> \in Seq(all) /\ \A k \in 1..Len(<<x>>) : <<x>>[k].depth >= depth
    BY <1>3, <1>6, <2>1, AppendIsConcat
  <2> QED BY <1>1, <2>1, <2>2, AppendKeeps
<1>10. AllAnchored'
  <2>1. ASSUME NEW d \in 1..Depth PROVE Anchored(tree', frames[d])
    <3>1. Anchored(tree, frames[d]) /\ frames[d] \in FrameType
      BY <1>2 DEF FInv, AllAnchored
    <3>2. frames[d].within \in DeflistParts => frames[d].depth < depth
      <4>1. CASE d = Depth
        BY <1>2, <4>1
      <4>2. CASE d # Depth
        <5>1. frames[d].depth < Top.depth
          BY <1>2, <4>2 DEF FInv, InnerIsDeeper
        <5>2. frames[d].depth \in Nat
          BY <3>1 DEF FrameType
        <5> QED BY <1>2, <5>1, <5>2
      <4> QED BY <4>1, <4>2
    <3> QED BY <1>1, <1>9, <3>1, <3>2, AnchorKept
  <2>2. ASSUME NEW d \in 1..(Depth + 1) PROVE Anchored(tree', frames'[d])
    <3>1. CASE d = Depth + 1
      BY <1>5, <1>7, <3>1 DEF Anchored, DeflistParts, ListParts
    <3>2. CASE d # Depth + 1
      <4>1. d \in 1..Depth
        BY <1>2, <3>2
      <4> QED BY <1>8, <2>1, <4>1 DEF Anchored
    <3> QED BY <3>1, <3>2
  <2> QED BY <1>7, <2>2 DEF AllAnchored, Anchored
<1>11. InnerIsDeeper'
  <2> SUFFICES ASSUME NEW d \in 1..(Depth + 1), NEW e \in 1..(Depth + 1), d < e
               PROVE  frames'[d].depth < frames'[e].depth
    BY <1>7 DEF InnerIsDeeper
  <2>1. d \in 1..Depth
    BY <1>2
  <2>2. CASE e = Depth + 1
    <3>1. frames[d].depth <= Top.depth /\ frames[d].depth \in Nat
      <4>1. frames[d].depth \in Nat
        BY <1>2, <2>1 DEF FrameType
      <4>2. CASE d = Depth
        BY <1>2, <4>2
      <4>3. CASE d # Depth
        <5>1. frames[d].depth < Top.depth
          BY <1>2, <2>1, <4>3 DEF FInv, InnerIsDeeper
        <5> QED BY <1>2, <4>1, <5>1
      <4> QED BY <4>1, <4>2, <4>3
    <3> QED BY <1>2, <1>5, <1>7, <1>8, <2>1, <2>2, <3>1
  <2>3. CASE e # Depth + 1
    <3>1. e \in 1..Depth
      BY <1>2, <2>3
    <3> QED BY <1>2, <1>8, <2>1, <3>1 DEF FInv, InnerIsDeeper
  <2> QED BY <2>2, <2>3
<1>12. InDefinitions'
  <2> SUFFICES ASSUME NEW d \in 1..(Depth + 1), d > 1
               PROVE  /\ frames'[d].kind = "definition" <=> frames'[d - 1].within \in DeflistParts
                      /\ frames'[d].kind = "definition" => frames'[d].depth > frames'[d - 1].depth + 1
    BY <1>7 DEF InDefinitions
  <2>1. d - 1 \in 1..Depth
    BY <1>2
  <2>2. CASE d = Depth + 1
    <3>1. d - 1 = Depth
      BY <1>2, <2>2
    <3>2. frames'[d - 1].within = Top.within /\ frames'[d - 1].depth = Top.depth
      BY <1>4, <1>7, <3>1
    <3>3. frames'[d].kind = kind /\ frames'[d].depth = depth + 1
      BY <1>5, <1>7, <2>2
    <3> QED BY <1>2, <3>2, <3>3
  <2>3. CASE d # Depth + 1
    <3>1. d \in 1..Depth
      BY <1>2, <2>3
    <3> QED BY <1>2, <1>8, <2>1, <3>1 DEF FInv, InDefinitions
  <2> QED BY <2>2, <2>3
<1>13. Counted'
  <2>1. Activations("definition") = Cardinality(Reading) /\ IsFiniteSet(Reading) /\ Cardinality(Reading) \in Nat
    BY <1>1, ReadingFinite
  <2>2. Activations("definition")' = Cardinality(Reading')
    BY DEF Activations, Reading
  <2>3. NestedDeflist => NestedDeflist'
    BY <1>1, <1>9, NestedKept
  <2>4. is_definition \in Int
    BY <1>1 DEF Types
  <2>5. CASE kind = "definition"
    <3>1. Reading' = Reading \cup {Depth + 1} /\ Depth + 1 \notin Reading
      BY <1>2, <1>5, <1>7, <1>8, <2>5 DEF Reading
    <3>2. Cardinality(Reading') = Cardinality(Reading) + 1
      BY <2>1, <3>1, FS_AddElement
    <3>3. is_definition' = is_definition + 1
      BY <2>5
    <3> QED BY <2>1, <2>2, <2>3, <2>4, <3>2, <3>3 DEF FInv, Counted
  <2>6. CASE kind # "definition"
    <3>1. Reading' = Reading
      BY <1>2, <1>5, <1>7, <1>8, <2>6 DEF Reading
    <3> QED BY <2>1, <2>2, <2>3, <2>6, <3>1 DEF FInv, Counted
  <2> QED BY <2>5, <2>6
<1> QED BY <1>10, <1>11, <1>12, <1>13 DEF FInv

LEMMA CallKeepsFlags ==
    ASSUME IInv, IInv', FInv,
           block_blockquote \/ block_list_item \/ block_definition \/ block_endnote_definition
    PROVE  FInv'
<1>1. Types /\ Types' /\ frames # <<>>
  BY DEF IInv, block_blockquote, block_list_item, block_definition, block_endnote_definition, At, Within
<1>2. Top \in FrameType /\ Top = frames[Depth] /\ Depth \in DOMAIN frames /\ Top.depth \in Nat
      /\ Top.depth + 1 \in Nat /\ Top.depth + 1 >= Top.depth /\ Top.depth >= Top.depth
  BY <1>1, TopFacts DEF FrameType
<1>3. CASE block_blockquote
  <2>1. /\ Top.within \notin DeflistParts /\ UNCHANGED is_definition
        /\ \E last, next : Enter("quote", "blockquote", Top.depth, last, next)
    BY <1>3 DEF block_blockquote, At, DeflistParts
  <2> QED BY <1>1, <1>2, <2>1, EnterKeepsFlags
<1>4. CASE block_list_item
  <2>1. /\ Top.within \notin DeflistParts /\ UNCHANGED is_definition
        /\ \E node, last, next : Enter("item", node, Top.depth + 1, last, next)
    BY <1>4 DEF block_list_item, Within, DeflistParts
  <2> QED BY <1>1, <1>2, <2>1, EnterKeepsFlags
<1>5. CASE block_definition
  <2>1. /\ Top.within \in DeflistParts /\ is_definition' = is_definition + 1
        /\ \E last, next : Enter("definition", "definition", Top.depth + 1, last, next)
    BY <1>5 DEF block_definition, Within, DeflistParts
  <2> QED BY <1>1, <1>2, <2>1, EnterKeepsFlags
<1>6. CASE block_endnote_definition
  <2>1. Top.within = "blocks" /\ UNCHANGED is_definition
    BY <1>6 DEF block_endnote_definition, At
  <2>2. PICK x \in Extents(accept_chunk_line) :
            \/ Enter("note", "def_note", Top.depth, x.end - 1, x.rest)
            \/ /\ Emit(<<Node("para", Top.depth, {}, "none")>> \o Empties(x.end, x.rest, Top.depth), x.rest)
               /\ lines' = lines
    BY <1>6 DEF block_endnote_definition
  <2>3. CASE Enter("note", "def_note", Top.depth, x.end - 1, x.rest)
    <3>1. Top.within \notin DeflistParts
      BY <2>1 DEF DeflistParts
    <3> QED BY <1>1, <1>2, <2>1, <2>3, <3>1, EnterKeepsFlags
  <2>4. CASE /\ Emit(<<Node("para", Top.depth, {}, "none")>> \o Empties(x.end, x.rest, Top.depth), x.rest)
             /\ lines' = lines
    <3> DEFINE f == [Top EXCEPT !.l = x.rest]
               y == Node("para", Top.depth, {}, "none")
               z == Node("empty", Top.depth, x.end..(x.rest - 1), "none")
               e == Empties(x.end, x.rest, Top.depth)
    <3>1. tree' = tree \o (<<y>> \o e) /\ frames' = [frames EXCEPT ![Depth] = f]
      BY <1>2, <2>4 DEF Emit
    <3>2. f.kind = Top.kind /\ f.depth = Top.depth /\ f.within = "blocks"
      BY <1>2, <2>1 DEF FrameType
    <3>3. e \in Seq({z}) /\ \A k \in 1..Len(e) : e[k].depth >= Top.depth
      BY <1>2, EmptiesDepth
    <3>4. y.depth >= Top.depth
      BY <1>2 DEF Node
    <3> HIDE DEF f, y, z, e
    <3>5. <<y>> \o e \in Seq({z} \cup {y}) /\ \A k \in 1..Len(<<y>> \o e) : (<<y>> \o e)[k].depth >= Top.depth
      BY <1>2, <3>3, <3>4, FirstAndMore
    <3>6. Anchored(tree', f)
      BY <3>2 DEF Anchored, DeflistParts, ListParts
    <3> QED BY <1>1, <2>1, <2>4, <3>1, <3>2, <3>5, <3>6, AppendKeepsFlags
  <2> QED BY <2>2, <2>3, <2>4
<1> QED BY <1>3, <1>4, <1>5, <1>6

LEMMA ReturnKeepsFlags ==
    ASSUME IInv, IInv', FInv, Return
    PROVE  FInv'
<1>1. /\ Types /\ Types' /\ Rooted /\ Depth > 1 /\ lines' = lines
      /\ frames' = SubSeq(frames, 1, Depth - 1)
      /\ tree' = tree \o Empties(stop + 1, frames[Depth - 1].l, Top.depth - 1)
      /\ is_definition' = IF Top.kind = "definition" THEN is_definition - 1 ELSE is_definition
  BY DEF Return, IInv, Leaving
<1>2. PICK n \in Nat :
          /\ n >= 1 /\ Depth = n + 1 /\ DOMAIN frames = 1..(n + 1) /\ Depth' = n
          /\ DOMAIN frames' = 1..n
          /\ \A d \in 1..n : frames'[d] = frames[d]
          /\ \A d \in 1..(n + 1) : frames[d] \in FrameType
          /\ Top = frames[n + 1]
  BY <1>1, Popped
<1>3. frames # <<>>
  <2>1. DOMAIN <<>> = {}
    OBVIOUS
  <2> QED BY <1>2, <2>1
<1>4. PICK depth \in Nat : Top.depth = depth + 1
  <2>1. Top.depth \in Nat /\ Top.depth > 0
    BY <1>1, <1>2 DEF FrameType, Rooted
  <2>2. Top.depth - 1 \in Nat /\ Top.depth = (Top.depth - 1) + 1
    BY <2>1
  <2> QED BY <2>2
<1>5. Keeps(depth)
  <2> DEFINE e == Empties(stop + 1, frames[Depth - 1].l, depth)
             x == Node("empty", depth, (stop + 1)..(frames[Depth - 1].l - 1), "none")
             all == TreeNode \cup {x}
  <2>1. Top.depth - 1 = depth
    BY <1>4
  <2>2. tree' = tree \o e
    BY <1>1, <2>1
  <2>3. e \in Seq({x}) /\ \A k \in 1..Len(e) : e[k].depth = depth
    BY EmptiesDepth, Zenon
  <2> HIDE DEF e, x
  <2>4. e \in Seq(all) /\ tree \in Seq(all)
    BY <1>1, <2>3 DEF Types
  <2>5. \A k \in 1..Len(e) : e[k].depth >= depth
    BY <2>3
  <2> HIDE DEF all
  <2> QED BY <1>1, <2>2, <2>4, <2>5, AppendKeeps
<1>6. \A d \in 1..n : d \in 1..(n + 1) /\ d # n + 1
  BY <1>2
<1>7. AllAnchored'
  <2>1. ASSUME NEW d \in 1..n PROVE Anchored(tree', frames[d])
    <3>1. Anchored(tree, frames[d]) /\ frames[d] \in FrameType
      BY <1>2, <1>6 DEF FInv, AllAnchored
    <3>2. frames[d].within \in DeflistParts => frames[d].depth < depth
      <4>1. frames[d].depth \in Nat /\ n \in 1..n /\ n \in 1..(n + 1) /\ n + 1 \in 1..(n + 1)
        BY <1>2, <3>1 DEF FrameType
      <4>2. CASE d = n /\ frames[d].within \in DeflistParts
        <5>1. n + 1 \in DOMAIN frames /\ n + 1 > 1 /\ (n + 1) - 1 = n
          BY <1>2
        <5>2. /\ frames[n + 1].kind = "definition" <=> frames[n].within \in DeflistParts
              /\ frames[n + 1].kind = "definition" => frames[n + 1].depth > frames[n].depth + 1
          BY <5>1 DEF FInv, InDefinitions
        <5> QED BY <1>2, <1>4, <4>1, <4>2, <5>2
      <4>3. CASE d # n
        <5>1. d < n /\ n < n + 1
          BY <4>3
        <5>2. frames[d].depth < frames[n].depth /\ frames[n].depth < frames[n + 1].depth
          BY <1>2, <1>6, <4>1, <5>1 DEF FInv, InnerIsDeeper
        <5>3. frames[n].depth \in Nat
          BY <1>2, <4>1 DEF FrameType
        <5> QED BY <1>2, <1>4, <4>1, <5>2, <5>3
      <4> QED BY <4>2, <4>3
    <3> QED BY <1>1, <1>5, <3>1, <3>2, AnchorKept
  <2> QED BY <1>2, <2>1 DEF AllAnchored, Anchored
<1>8. InnerIsDeeper'
  BY <1>2, <1>6 DEF FInv, InnerIsDeeper
<1>9. InDefinitions'
  <2> SUFFICES ASSUME NEW d \in 1..n, d > 1
               PROVE  /\ frames'[d].kind = "definition" <=> frames'[d - 1].within \in DeflistParts
                      /\ frames'[d].kind = "definition" => frames'[d].depth > frames'[d - 1].depth + 1
    BY <1>2 DEF InDefinitions
  <2>1. d - 1 \in 1..n
    BY <1>2
  <2> QED BY <1>2, <1>6, <2>1 DEF FInv, InDefinitions
<1>10. Counted'
  <2>1. Activations("definition") = Cardinality(Reading) /\ IsFiniteSet(Reading) /\ Cardinality(Reading) \in Nat
    BY <1>1, <1>3, ReadingFinite
  <2>2. Activations("definition")' = Cardinality(Reading')
    BY DEF Activations, Reading
  <2>3. NestedDeflist => NestedDeflist'
    BY <1>1, <1>5, NestedKept
  <2>4. is_definition \in Int
    BY <1>1 DEF Types
  <2>5. Reading' = {d \in 1..n : frames[d].kind = "definition"}
    BY <1>2 DEF Reading
  <2>6. Reading = {d \in 1..(n + 1) : frames[d].kind = "definition"}
    BY <1>2 DEF Reading
  <2>7. CASE Top.kind = "definition"
    <3>1. Reading' = Reading \ {n + 1} /\ n + 1 \in Reading
      BY <1>2, <2>5, <2>6, <2>7
    <3>2. Cardinality(Reading') = Cardinality(Reading) - 1
      BY <2>1, <3>1, FS_RemoveElement
    <3>3. is_definition' = is_definition - 1
      BY <1>1, <2>7
    <3> QED BY <2>1, <2>2, <2>3, <2>4, <3>2, <3>3 DEF FInv, Counted
  <2>8. CASE Top.kind # "definition"
    <3>1. Reading' = Reading
      BY <1>2, <2>5, <2>6, <2>8
    <3> QED BY <1>1, <2>1, <2>2, <2>3, <2>8, <3>1 DEF FInv, Counted
  <2> QED BY <2>7, <2>8
<1> QED BY <1>7, <1>8, <1>9, <1>10 DEF FInv

LEMMA DocKeepsFlags ==
    ASSUME IInv, IInv', FInv, doc
    PROVE  FInv'
<1>1. Types /\ Rooted /\ Depth = 1 /\ frames' = <<>> /\ UNCHANGED <<tree, is_definition>>
  BY DEF doc, IInv
<1>2. frames # <<>>
  BY <1>1 DEF Depth
<1>3. DOMAIN frames = 1..1
  BY <1>1, <1>2, TopFacts
<1>4. Reading = {}
  BY <1>1, <1>3 DEF Reading, Rooted
<1>5. Activations("definition") = 0
  BY <1>1, <1>2, <1>4, ReadingFinite, FS_EmptySet
<1>6. DOMAIN frames' = {} /\ Depth' = 0
  BY <1>1 DEF Depth
<1>7. Activations("definition")' = 0
  <2>1. {d \in 1..Depth : frames[d].kind = "definition"}' = {}
    BY <1>6
  <2> QED BY <2>1, FS_EmptySet DEF Activations
<1>8. Counted'
  <2>1. NestedDeflist' = NestedDeflist
    BY <1>1 DEF NestedDeflist
  <2> QED BY <1>1, <1>5, <1>7, <2>1 DEF FInv, Counted
<1> QED BY <1>6, <1>8 DEF FInv, AllAnchored, InnerIsDeeper, InDefinitions

LEMMA InitFlags == Init => FInv
<1> SUFFICES ASSUME Init PROVE FInv
  OBVIOUS
<1> DEFINE f == Frame("doc", 1, N, 0)
<1>1. frames = <<f>> /\ is_definition = 0 /\ f.kind = "doc" /\ f.within = "blocks"
  BY DEF Init, Frame
<1> HIDE DEF f
<1>2. DOMAIN frames = 1..1 /\ frames[1] = f /\ Depth = 1
  BY <1>1 DEF Depth
<1>3. Activations("definition") = 0
  <2>1. {d \in 1..Depth : frames[d].kind = "definition"} = {}
    BY <1>1, <1>2
  <2> QED BY <2>1, FS_EmptySet DEF Activations
<1>4. AllAnchored
  <2>1. \A d \in DOMAIN frames : frames[d].within = "blocks"
    BY <1>1, <1>2
  <2>2. "blocks" \notin DeflistParts /\ "blocks" \notin ListParts
    BY DEF DeflistParts, ListParts
  <2> QED BY <2>1, <2>2 DEF AllAnchored, Anchored
<1>5. InnerIsDeeper /\ InDefinitions
  <2>1. \A d \in DOMAIN frames : d = 1
    BY <1>2
  <2> QED BY <2>1 DEF InnerIsDeeper, InDefinitions
<1> QED BY <1>1, <1>3, <1>4, <1>5 DEF FInv, Counted
-----------------------------------------------------------------------------
\* One step of the parser.
LEMMA StepKeepsFlags ==
    ASSUME IInv, IInv', FInv, [Next]_vars
    PROVE  FInv'
<1>1. CASE UNCHANGED vars
  <2>1. UNCHANGED <<tree, frames, is_definition>>
    BY <1>1 DEF vars
  <2>2. Depth' = Depth /\ NestedDeflist' = NestedDeflist /\ Activations("definition")' = Activations("definition")
    BY <2>1 DEF Depth, NestedDeflist, Activations
  <2> QED BY <2>1, <2>2 DEF FInv, AllAnchored, Anchored, InnerIsDeeper, InDefinitions, Counted
<1>2. CASE Next
  <2>1. CASE \/ block_atx \/ block_toc \/ block_hr \/ block_empty \/ block_reference_def_a
             \/ block_html \/ block_html_comment \/ block_code_fenced \/ block_meta \/ block_meta_yaml
    BY <2>1, SimpleKeepsFlags
  <2>2. CASE block_code_indented
    BY <2>2, CodeIndentedKeepsFlags
  <2>3. CASE block_para
    BY <2>3, ParaKeepsFlags
  <2>4. CASE block_table
    BY <2>4, TableKeepsFlags
  <2>5. CASE block_table_section
    BY <2>5, SectionKeepsFlags
  <2>6. CASE block_list
    BY <2>6, ListKeepsFlags
  <2>7. CASE flag_list_loose
    BY <2>7, ListEndKeepsFlags
  <2>8. CASE mmd_parse_tokens_deflist
    BY <2>8, DeflistEndKeepsFlags
  <2>9. CASE block_blockquote \/ block_list_item \/ block_definition \/ block_endnote_definition
    BY <2>9, CallKeepsFlags
  <2>10. CASE Return
    BY <2>10, ReturnKeepsFlags
  <2>11. CASE doc
    BY <2>11, DocKeepsFlags
  <2> QED BY <1>2, <2>1, <2>2, <2>3, <2>4, <2>5, <2>6, <2>7, <2>8, <2>9, <2>10, <2>11 DEF Next, block
<1> QED BY <1>1, <1>2

\* is_endnote and is_definition of the read context say what the parser is inside
\* of, but that is_definition may be too small where a definition list is inside
\* of another one.
THEOREM FlagsAreRight == Spec => []FlagsAgree
<1>1. IInv /\ FInv => FlagsAgree
  <2> SUFFICES ASSUME IInv, FInv PROVE is_endnote = Activations("note") /\ is_endnote <= 1
    BY DEF FInv, Counted, FlagsAgree
  <2> DEFINE notes == {d \in 1..Depth : frames[d].kind = "note"}
  <2>1. OneNote /\ DOMAIN frames = 1..Depth
    BY LenProperties DEF IInv, Types, Depth
  <2>2. CASE is_endnote = 0
    <3>1. notes = {}
      BY <2>1, <2>2 DEF OneNote
    <3> QED BY <2>2, <3>1, FS_EmptySet DEF Activations
  <2>3. CASE is_endnote = 1
    <3>1. PICK d \in 1..Depth : frames[d].kind = "note"
      BY <2>1, <2>3 DEF OneNote
    <3>2. notes = {d}
      BY <2>1, <3>1 DEF OneNote
    <3>3. Activations("note") = Cardinality(notes)
      BY DEF Activations
    <3> HIDE DEF notes
    <3> QED BY <2>3, <3>2, <3>3, FS_Singleton
  <2> QED BY <2>1, <2>2, <2>3 DEF OneNote
<1>2. IInv /\ IInv' /\ FInv /\ [Next]_vars => FInv'
  BY StepKeepsFlags
<1> QED BY InitFlags, IInvHolds, <1>1, <1>2, PTL DEF Spec

-----------------------------------------------------------------------------
(***************************************************************************)
(* For all documents: the tree of blocks has the shape that the exporters  *)
(* expect (TreeShaped), its text is tokenized in the end (TextTokenized),  *)
(* and the marks of the blocks are hidden in it (MarkersHidden).           *)
(*                                                                         *)
(* Blocks are put behind the tree by activations of blocks() that know     *)
(* their depth and nothing of the parent of what they make.  So the        *)
(* invariant TInv says which node the blocks of an activation go below,    *)
(* which one the parts of its list or table go below, and how the depths   *)
(* and the lines of one activation lie within those of its caller.         *)
(* Another one, KInv, says which list will tokenize a text that has no     *)
(* tokens yet, and which activation a line belongs to that a colon was     *)
(* stripped from.                                                          *)
(***************************************************************************)
(* What the blocks are children of.                                        *)

Texts == {"para", "header", "setext", "term"}
Rowed == {"table_header", "table_section"}
Containers == Items \cup {"blockquote", "def_note", "definition"}
\* What a node of a type may be a child of
ParentTypes(node) ==
    IF node \in Items THEN Lists
    ELSE IF node \in {"term", "definition"} THEN {"deflist"}
    ELSE IF node \in Rowed THEN {"table"}
    ELSE IF node = "empty" THEN Containers \cup Lists \cup {"deflist"}
    ELSE Containers

\* Node p is the parent of node m
Above(t, p, m) ==
    /\ t[m].depth = t[p].depth + 1
    /\ \A j \in (p + 1)..m : t[j].depth >= t[m].depth
\* A node may be a child of another one, and does not separate the blocks of a
\* tight item
Suits(above, node, st) ==
    /\ above.type \in ParentTypes(node.type)
    /\ above.type = "item_tight" /\ node.type = "empty" => \A i \in node.lines : st[i] > 0
Fits(t, m, st) ==
    \/ t[m].depth = 0 /\ t[m].type \in Blocks
    \/ \E p \in 1..(m - 1) : Above(t, p, m) /\ Suits(t[p], t[m], st)
Fitting == \A m \in 1..Len(tree) : Fits(tree, m, stripped)

\* The next node of this depth is a child of node p, or of none
Under(t, p, depth) ==
    IF p = 0 THEN depth = 0
    ELSE p \in 1..Len(t) /\ depth = t[p].depth + 1 /\ \A k \in (p + 1)..Len(t) : t[k].depth >= depth

\* The blocks of an activation have a parent.  If it is a tight item, none of
\* the lines to come is empty but for the markers that were stripped.
Standing(t, p, f, first, ty, st) ==
    /\ Under(t, p, f.depth)
    /\ p # 0 => t[p].type \in Containers
    /\ p # 0 /\ t[p].type = "item_tight" => \A i \in first..f.stop : ty[i] = "empty" => st[i] > 0
AllStand == \A d \in DOMAIN frames : \E p \in 0..Len(tree) : Standing(tree, p, frames[d], l, type, stripped)

\* The parts that an activation reads are children of this node
Whole(f) == IF f.within = "table" THEN f.node - 1 ELSE f.node
Parted(t, f) ==
    /\ f.within # "blocks" => Whole(f) # 0 /\ Under(t, Whole(f), f.depth + 1)
    /\ f.within \in ListParts => t[Whole(f)].type \in Lists
    /\ f.within \in DeflistParts => t[Whole(f)].type = "deflist"
    /\ f.within = "table" => /\ t[Whole(f)].type = "table"
                             /\ f.node \in 1..Len(t) /\ t[f.node].type = "table_header"
AllParted == \A d \in DOMAIN frames : Parted(tree, frames[d])

\* An item or a definition is two levels below the blocks around its list.  The
\* lines of an activation are among those of its caller, and what lies between
\* them and the line where that goes on is empty.
Inner(f) == f.depth + (IF f.within = "blocks" THEN 1 ELSE 2)
Inside ==
    /\ \A d \in DOMAIN frames : d > 1 =>
           /\ frames[d].depth = Inner(frames[d - 1])
           /\ \A i \in (frames[d].stop + 1)..(frames[d - 1].l - 1) : type[i] = "empty"
    /\ \A d, e \in DOMAIN frames : d <= e => frames[e].stop <= frames[d].stop
    /\ \A d \in DOMAIN frames : d = 1 => frames[d].depth = 0
TInv == Fitting /\ AllStand /\ AllParted /\ Inside

(* Which texts are tokenized, and what is hidden.                          *)
\* The definition of a note in a note, and what follows it at its side
Excused(t, st, m) ==
    \E k \in 1..m : /\ t[k].type \in {"para", "setext", "term"}
                    /\ \E i \in t[k].lines : lines[i][st[i] + 1] = "def_note"
                    /\ \A j \in k..m : t[j].depth = t[k].depth
Awaits(f, m) == f.within = "deflist" /\ f.node < m
Untold(node) == node.type \in Texts /\ node.lines # {} /\ node.tokens = "none"
AllTold ==
    \A m \in 1..Len(tree) :
        Untold(tree[m]) => Excused(tree, stripped, m) \/ \E d \in DOMAIN frames : Awaits(frames[d], m)
AllHidden ==
    \A m \in 1..Len(tree) : tree[m].tokens = "exposed" => tree[m].type \in Rowed \/ NestedDeflist

\* A line that a colon was stripped from is in a definition
Colon(st, i) == \E k \in 1..st[i] : lines[i][k] = "definition"
Claimed ==
    \A i \in 1..N : frames # <<>> /\ i >= l /\ Colon(stripped, i) =>
        \E d \in DOMAIN frames : frames[d].kind = "definition" /\ i <= frames[d].stop
\* So it is if it is the first term of a definition list that is being read
FirstTerm(t, st, f, fs, d) ==
    f.within = "deflist" =>
        /\ f.node + 1 \in 1..Len(t) /\ t[f.node + 1].type = "term"
        /\ \E i \in 1..N : /\ t[f.node + 1].lines = {i}
                           /\ Colon(st, i) => \E e \in 1..d : fs[e].kind = "definition"
FirstTerms == \A d \in DOMAIN frames : FirstTerm(tree, stripped, frames[d], frames, d)
KInv == AllTold /\ AllHidden /\ Claimed /\ FirstTerms

\* What a node may become
Same(old, new) ==
    /\ new.depth = old.depth
    /\ new.lines = old.lines \/ old.type = "table_header"
    /\ \/ new.type = old.type
       \/ old.type \in Lists /\ new.type \in Lists
       \/ old.type = "item_tight" /\ new.type = "item"
    /\ new.tokens = old.tokens \/ new.tokens \in {"tokens", "exposed"}
\* A step changes the nodes only so, and new ones have at least this depth
Grown(depth) ==
    /\ Len(tree) \in Nat /\ Len(tree') \in Nat /\ Len(tree') >= Len(tree)
    /\ \A m \in 1..Len(tree) : Same(tree[m], tree'[m])
    /\ \A m \in (Len(tree) + 1)..Len(tree') : tree'[m].depth >= depth
    /\ \A m \in 1..Len(tree) : tree[m].depth \in Nat
    /\ \A m \in 1..Len(tree') : tree'[m].depth \in Nat
StripsMore == \A i \in 1..N : stripped[i] \in Nat /\ stripped'[i] \in Nat /\ stripped'[i] >= stripped[i]
-----------------------------------------------------------------------------
\* The nodes of the tree have their types.
LEMMA NodeFacts ==
    ASSUME Types
    PROVE  /\ Len(tree) \in Nat /\ DOMAIN tree = 1..Len(tree)
           /\ \A m \in 1..Len(tree) : /\ tree[m] \in TreeNode /\ tree[m].depth \in Nat
                                      /\ tree[m].lines \in SUBSET (1..N) /\ tree[m].type \in Nodes
<1>1. tree \in Seq(TreeNode)
  BY DEF Types
<1>2. \A m \in 1..Len(tree) : tree[m] \in TreeNode
  BY <1>1, ElementOfSeq
<1> QED BY <1>1, <1>2, LenProperties DEF TreeNode

\* A child of a node remains one.
LEMMA SuitsStays ==
    ASSUME NEW a, NEW b, NEW x, NEW y, NEW st, NEW su, Same(a, x), Same(b, y), Suits(a, b, st),
           NEW all, b.lines \in SUBSET all, \A i \in all : st[i] \in Nat /\ su[i] \in Nat /\ su[i] >= st[i]
    PROVE  Suits(x, y, su)
<1>1. y.type = "empty" => b.type = "empty" /\ y.lines = b.lines
  BY DEF Same, Lists
<1>2. x.type = "item_tight" => a.type = "item_tight"
  BY DEF Same, Lists
<1>3. ParentTypes(y.type) = ParentTypes(b.type)
  BY DEF Same, Lists, Items, ParentTypes, Rowed
<1>4. x.type \in ParentTypes(b.type)
  <2>1. a.type \in ParentTypes(b.type)
    BY DEF Suits
  <2> QED BY <2>1 DEF Same, Lists, Items, ParentTypes, Rowed, Containers
<1>5. ASSUME x.type = "item_tight", y.type = "empty", NEW i \in y.lines PROVE su[i] > 0
  <2>1. i \in b.lines /\ st[i] > 0 /\ i \in all
    BY <1>1, <1>2, <1>5 DEF Suits
  <2> QED BY <2>1
<1> QED BY <1>3, <1>4, <1>5 DEF Suits

\* A node that fits its parent still fits it after the step.
LEMMA FitsStays ==
    ASSUME Types, NEW depth, Grown(depth), StripsMore, NEW m \in 1..Len(tree), Fits(tree, m, stripped)
    PROVE  Fits(tree', m, stripped')
<1>1. Same(tree[m], tree'[m]) /\ \A k \in 1..m : k \in 1..Len(tree) /\ Same(tree[k], tree'[k])
  BY DEF Grown
<1>2. \A k \in 1..m : tree'[k].depth = tree[k].depth
  BY <1>1 DEF Same
<1>3. CASE tree[m].depth = 0 /\ tree[m].type \in Blocks
  <2>1. tree'[m].type \in Blocks
    BY <1>1, <1>3 DEF Same, Blocks, Lists
  <2> QED BY <1>1, <1>3, <2>1 DEF Same, Fits
<1>4. CASE ~(tree[m].depth = 0 /\ tree[m].type \in Blocks)
  <2>1. PICK p \in 1..(m - 1) : Above(tree, p, m) /\ Suits(tree[p], tree[m], stripped)
    BY <1>4 DEF Fits
  <2>2. p \in 1..m /\ m \in 1..m /\ \A j \in (p + 1)..m : j \in 1..m
    BY <2>1
  <2>3. Above(tree', p, m)
    BY <1>2, <2>1, <2>2 DEF Above
  <2>4. Suits(tree'[p], tree'[m], stripped')
    <3>1. tree[m].lines \in SUBSET (1..N)
      BY NodeFacts
    <3> QED BY <1>1, <2>1, <2>2, <3>1, SuitsStays DEF StripsMore
  <2> QED BY <2>1, <2>3, <2>4 DEF Fits
<1> QED BY <1>3, <1>4

\* New nodes that are at least this deep leave the parent of less deep ones as it is.
LEMMA UnderStays ==
    ASSUME NEW depth \in Nat, Grown(depth), NEW p \in Nat, NEW e \in Nat, e <= depth, Under(tree, p, e)
    PROVE  Under(tree', p, e)
<1>1. CASE p = 0
  BY <1>1 DEF Under
<1>2. CASE p # 0
  <2>1. p \in 1..Len(tree) /\ e = tree[p].depth + 1 /\ \A k \in (p + 1)..Len(tree) : tree[k].depth >= e
    BY <1>2 DEF Under
  <2>2. p \in 1..Len(tree') /\ tree'[p].depth = tree[p].depth
    BY <2>1 DEF Grown, Same
  <2>3. ASSUME NEW k \in (p + 1)..Len(tree') PROVE tree'[k].depth >= e
    <3>1. CASE k <= Len(tree)
      <4>1. k \in 1..Len(tree) /\ k \in (p + 1)..Len(tree)
        BY <2>1, <3>1 DEF Grown
      <4> QED BY <2>1, <4>1 DEF Grown, Same
    <3>2. CASE k > Len(tree)
      <4>1. k \in (Len(tree) + 1)..Len(tree') /\ k \in 1..Len(tree')
        BY <2>1, <3>2 DEF Grown
      <4>2. tree'[k].depth >= depth /\ tree'[k].depth \in Nat
        BY <4>1 DEF Grown
      <4> QED BY <4>2
    <3> QED BY <2>1, <3>1, <3>2 DEF Grown
  <2> QED BY <1>2, <2>1, <2>2, <2>3 DEF Under
<1> QED BY <1>1, <1>2

\* A new node is a child of the node that it is put below.
LEMMA NewFits ==
    ASSUME NEW depth \in Nat, Grown(depth), NEW p \in Nat, Under(tree, p, depth),
           NEW m \in (Len(tree) + 1)..Len(tree'), tree'[m].depth = depth,
           NEW st, IF p = 0 THEN tree'[m].type \in Blocks ELSE Suits(tree'[p], tree'[m], st)
    PROVE  Fits(tree', m, st)
<1>1. CASE p = 0
  BY <1>1 DEF Under, Fits
<1>2. CASE p # 0
  <2>1. p \in 1..Len(tree) /\ Under(tree', p, depth)
    BY <1>2, UnderStays DEF Under
  <2>2. p \in 1..(m - 1) /\ depth = tree'[p].depth + 1 /\ \A k \in (p + 1)..Len(tree') : tree'[k].depth >= depth
    BY <1>2, <2>1 DEF Under, Grown
  <2>3. \A k \in (p + 1)..m : k \in (p + 1)..Len(tree')
    BY <2>1 DEF Grown
  <2>4. Above(tree', p, m)
    BY <2>2, <2>3 DEF Above
  <2> QED BY <1>2, <2>2, <2>4 DEF Fits
<1> QED BY <1>1, <1>2

\* An activation keeps the parent of its blocks.
LEMMA StandingStays ==
    ASSUME NEW depth \in Nat, Grown(depth), StripsMore, NEW f \in FrameType, f.depth <= depth,
           NEW first \in 1..(N + 1), NEW next \in 1..(N + 1), first <= next, NEW p \in 0..Len(tree), N \in Nat,
           Standing(tree, p, f, first, type, stripped),
           \A i \in next..f.stop : type'[i] = "empty" => type[i] = "empty" \/ stripped'[i] > 0
    PROVE  p \in 0..Len(tree') /\ Standing(tree', p, f, next, type', stripped')
<1>1. Under(tree, p, f.depth) /\ f.depth \in Nat /\ f.stop \in 1..N /\ p \in Nat
  BY DEF Standing, FrameType, Grown
<1>2. Under(tree', p, f.depth)
  BY <1>1, UnderStays
<1>3. CASE p = 0
  BY <1>2, <1>3 DEF Standing, Grown
<1>4. CASE p # 0
  <2>1. p \in 1..Len(tree) /\ Same(tree[p], tree'[p])
    BY <1>4 DEF Grown
  <2>2. tree'[p].type \in Containers
    BY <1>4, <2>1 DEF Standing, Same, Containers, Items, Lists
  <2>3. tree'[p].type = "item_tight" => tree[p].type = "item_tight"
    BY <2>1 DEF Same, Lists
  <2>4. ASSUME tree'[p].type = "item_tight", NEW i \in next..f.stop, type'[i] = "empty" PROVE stripped'[i] > 0
    <3>1. i \in first..f.stop /\ i \in 1..N
      BY <1>1
    <3>2. type[i] = "empty" => stripped[i] > 0
      BY <1>4, <2>3, <2>4, <3>1 DEF Standing
    <3> QED BY <2>4, <3>1, <3>2 DEF StripsMore
  <2> QED BY <1>2, <2>1, <2>2, <2>4 DEF Standing, Grown
<1> QED BY <1>3, <1>4

\* The parts that an activation reads keep their list or table.
LEMMA PartedStays ==
    ASSUME NEW depth \in Nat, Grown(depth), NEW f \in FrameType, f.within # "blocks" => f.depth + 1 <= depth,
           Parted(tree, f)
    PROVE  Parted(tree', f)
<1> SUFFICES ASSUME f.within # "blocks" PROVE Parted(tree', f)
  BY DEF Parted, ListParts, DeflistParts
<1>1. Whole(f) # 0 /\ Under(tree, Whole(f), f.depth + 1) /\ f.depth + 1 \in Nat
  BY DEF Parted, FrameType
<1> DEFINE p == Whole(f)
<1> HIDE DEF p
<1>2. p \in 1..Len(tree) /\ p \in Nat
  BY <1>1 DEF Under, Grown, p
<1>3. Under(tree', p, f.depth + 1)
  BY <1>1, <1>2, UnderStays DEF p
<1>4. \A m \in 1..Len(tree) : m \in 1..Len(tree') /\ Same(tree[m], tree'[m])
  BY DEF Grown
<1>5. f.within \in ListParts => tree'[p].type \in Lists
  BY <1>2, <1>4 DEF Parted, p, Same, Lists
<1>6. f.within \in DeflistParts => tree'[p].type = "deflist"
  BY <1>2, <1>4 DEF Parted, p, Same, Lists
<1>7. f.within = "table" => /\ tree'[p].type = "table"
                            /\ f.node \in 1..Len(tree') /\ tree'[f.node].type = "table_header"
  BY <1>2, <1>4 DEF Parted, p, Same, Lists
<1> QED BY <1>1, <1>3, <1>5, <1>6, <1>7 DEF Parted, p

\* Nodes that are put behind the tree, or behind one that is the same.
LEMMA AppendGrows ==
    ASSUME Types, Types', lines' = lines, NEW S, NEW t \in Seq(S), NEW nodes \in Seq(S), tree' = t \o nodes,
           Len(t) = Len(tree), \A m \in 1..Len(tree) : Same(tree[m], t[m]),
           NEW depth \in Nat, \A k \in 1..Len(nodes) : nodes[k].depth >= depth
    PROVE  /\ Grown(depth) /\ Len(tree') = Len(tree) + Len(nodes) /\ Len(nodes) \in Nat
           /\ \A m \in 1..Len(tree) : tree'[m] = t[m]
           /\ \A k \in 1..Len(nodes) : tree'[Len(tree) + k] = nodes[k]
           /\ \A m \in (Len(tree) + 1)..Len(tree') :
                  \E k \in 1..Len(nodes) : m = Len(tree) + k /\ tree'[m] = nodes[k]
<1> DEFINE a == Len(tree)
           b == Len(nodes)
<1>1. a \in Nat /\ b \in Nat /\ \A m \in 1..a : tree[m].depth \in Nat
  BY NodeFacts, LenProperties
<1>2. \A m \in 1..Len(tree') : tree'[m].depth \in Nat
  <2>1. tree' \in Seq(TreeNode')
    BY DEF Types
  <2>2. ASSUME NEW S0, NEW s \in Seq(S0) PROVE \A m \in 1..Len(s) : s[m] \in S0
    BY ElementOfSeq
  <2>3. \A m \in 1..Len(tree') : tree'[m] \in TreeNode'
    BY <2>1, <2>2
  <2> QED BY <2>3 DEF TreeNode
<1>3. /\ Len(tree') = a + b
      /\ \A m \in 1..a : tree'[m] = t[m]
      /\ \A k \in 1..b : tree'[a + k] = nodes[k]
  <2>1. /\ Len(t \o nodes) = a + b
        /\ \A m \in 1..(a + b) : (t \o nodes)[m] = IF m <= a THEN t[m] ELSE nodes[m - a]
    <3>1. /\ Len(t \o nodes) = Len(t) + b
          /\ \A m \in 1..(Len(t) + b) : (t \o nodes)[m] = IF m <= Len(t) THEN t[m] ELSE nodes[m - Len(t)]
      BY ConcatProperties, Zenon
    <3>2. Len(t) = a
      OBVIOUS
    <3> QED BY <3>1, <3>2, Zenon
  <2> DEFINE c == t \o nodes
  <2>2. tree' = c
    OBVIOUS
  <2> HIDE DEF a, b, c
  <2>3. \A m \in 1..a : c[m] = t[m]
    BY <1>1, <2>1 DEF c
  <2>4. ASSUME NEW k \in 1..b PROVE c[a + k] = nodes[k]
    <3>1. a + k \in 1..(a + b) /\ ~(a + k <= a) /\ (a + k) - a = k
      BY <1>1
    <3> QED BY <2>1, <3>1 DEF c
  <2>5. Len(c) = a + b
    BY <2>1 DEF c
  <2> QED BY <2>2, <2>3, <2>4, <2>5
<1> HIDE DEF a, b
<1>4. ASSUME NEW m \in (a + 1)..Len(tree') PROVE \E k \in 1..b : m = a + k /\ tree'[m] = nodes[k]
  <2>1. m - a \in 1..b /\ m = a + (m - a)
    BY <1>1, <1>3
  <2>2. tree'[a + (m - a)] = nodes[m - a]
    BY <1>3, <2>1
  <2> QED BY <2>1, <2>2
<1>5. Grown(depth)
  <2>1. \A m \in 1..a : Same(tree[m], tree'[m])
    BY <1>3 DEF a
  <2>2. \A m \in (a + 1)..Len(tree') : tree'[m].depth >= depth
    BY <1>4 DEF b
  <2> QED BY <1>1, <1>2, <1>3, <2>1, <2>2 DEF Grown, a
<1> QED BY <1>1, <1>3, <1>4, <1>5 DEF a, b

\* Nodes that are put behind the tree.
LEMMA PutBehind ==
    ASSUME Types, Types', lines' = lines, NEW S, NEW nodes \in Seq(S), tree' = tree \o nodes,
           NEW depth \in Nat, \A k \in 1..Len(nodes) : nodes[k].depth >= depth
    PROVE  /\ Grown(depth) /\ Len(tree') = Len(tree) + Len(nodes)
           /\ \A m \in 1..Len(tree) : tree'[m] = tree[m]
           /\ \A m \in (Len(tree) + 1)..Len(tree') :
                  \E k \in 1..Len(nodes) : m = Len(tree) + k /\ tree'[m] = nodes[k]
<1> DEFINE all == S \cup TreeNode
<1>1. tree \in Seq(all) /\ nodes \in Seq(all)
  BY DEF Types
<1>2. \A m \in 1..Len(tree) : Same(tree[m], tree[m])
  BY DEF Same
<1> HIDE DEF all
<1> QED BY <1>1, <1>2, AppendGrows, ZenonT(40)
-----------------------------------------------------------------------------
\* The activation that runs goes on.
LEMMA GoOnTree ==
    ASSUME IInv, IInv', FInv, TInv, frames # <<>>, lines' = lines, NEW f \in FrameType,
           frames' = [frames EXCEPT ![Depth] = f], f.depth = Top.depth, f.stop = stop, f.l >= l,
           stripped' = stripped, \A i \in 1..N : type'[i] = "empty" <=> type[i] = "empty",
           Grown(Top.depth), \A m \in (Len(tree) + 1)..Len(tree') : Fits(tree', m, stripped'),
           Parted(tree', f)
    PROVE  TInv'
<1>1. Types /\ Types' /\ Nested
  BY DEF IInv
<1>2. /\ Depth \in Nat /\ Depth \in 1..Depth /\ DOMAIN frames = 1..Depth
      /\ \A d \in 1..Depth : frames[d] \in FrameType
      /\ Top = frames[Depth] /\ Top \in FrameType /\ Top.depth \in Nat
      /\ stop = Top.stop /\ l \in 1..(N + 1) /\ N \in Nat
  BY <1>1, TopFacts DEF FrameType
<1>3. /\ frames' # <<>> /\ Depth' = Depth /\ DOMAIN frames' = 1..Depth /\ frames'[Depth] = f
      /\ \A d \in 1..Depth : d # Depth => frames'[d] = frames[d]
      /\ l' = f.l
  BY <1>1, TopReplaced
<1>4. StripsMore
  BY <1>1 DEF Types, StripsMore
<1>5. Fitting'
  <2>1. \A m \in 1..Len(tree) : Fits(tree', m, stripped')
    BY <1>1, <1>4, FitsStays DEF TInv, Fitting
  <2>2. ASSUME NEW m \in 1..Len(tree') PROVE Fits(tree', m, stripped')
    <3>1. m \in 1..Len(tree) \/ m \in (Len(tree) + 1)..Len(tree')
      BY DEF Grown
    <3> QED BY <2>1, <3>1
  <2> QED BY <2>2 DEF Fitting
<1>6. \A d \in 1..Depth : /\ frames'[d].depth = frames[d].depth /\ frames'[d].stop = frames[d].stop
                          /\ frames[d].depth \in Nat
  BY <1>2, <1>3 DEF FrameType
<1>7. \A d \in 1..Depth : frames[d].depth <= Top.depth
  <2>1. ASSUME NEW d \in 1..Depth, d # Depth PROVE frames[d].depth < Top.depth
    BY <1>2, <2>1 DEF FInv, InnerIsDeeper
  <2> QED BY <1>2, <1>6, <2>1
<1>8. AllStand'
  <2>1. ASSUME NEW d \in 1..Depth
        PROVE  \E p \in 0..Len(tree') : Standing(tree', p, frames'[d], l', type', stripped')
    <3>1. PICK p \in 0..Len(tree) : Standing(tree, p, frames[d], l, type, stripped)
      BY <1>2 DEF TInv, AllStand
    <3>2. f.l \in 1..(N + 1) /\ frames[d].stop \in 1..N
      BY <1>2 DEF FrameType
    <3>3. \A i \in f.l..frames[d].stop : type'[i] = "empty" => type[i] = "empty" \/ stripped'[i] > 0
      BY <1>2, <3>2
    <3>4. p \in 0..Len(tree') /\ Standing(tree', p, frames[d], f.l, type', stripped')
      BY <1>2, <1>4, <1>7, <3>1, <3>2, <3>3, StandingStays
    <3> QED BY <1>3, <1>6, <3>4 DEF Standing
  <2> QED BY <1>3, <2>1 DEF AllStand
<1>9. AllParted'
  <2>1. ASSUME NEW d \in 1..Depth, d # Depth PROVE Parted(tree', frames[d])
    <3>1. d + 1 \in 1..Depth /\ d + 1 > 1 /\ (d + 1) - 1 = d
      BY <1>2, <2>1
    <3>2. frames[d + 1].depth = Inner(frames[d]) /\ frames[d + 1].depth <= Top.depth
      <4> DEFINE e == d + 1
      <4>1. e \in DOMAIN frames /\ e > 1 /\ e - 1 = d
        BY <1>2, <3>1
      <4> HIDE DEF e
      <4>2. frames[e].depth = Inner(frames[e - 1]) /\ frames[e].depth <= Top.depth
        BY <1>2, <1>7, <4>1 DEF TInv, Inside
      <4> QED BY <4>1, <4>2 DEF e
    <3>3. frames[d].within # "blocks" => frames[d].depth + 1 <= Top.depth
      BY <1>2, <1>6, <3>2 DEF Inner
    <3>4. Parted(tree, frames[d]) /\ frames[d] \in FrameType
      BY <1>2 DEF TInv, AllParted
    <3> QED BY <1>2, <3>3, <3>4, PartedStays
  <2>2. \A d \in 1..Depth : Parted(tree', frames'[d])
    BY <1>3, <2>1
  <2> QED BY <1>3, <2>2 DEF AllParted
<1>10. Inside'
  <2>1. ASSUME NEW d \in 1..Depth, d > 1
        PROVE  /\ frames'[d].depth = Inner(frames'[d - 1])
               /\ \A i \in (frames'[d].stop + 1)..(frames'[d - 1].l - 1) : type'[i] = "empty"
    <3>1. d - 1 \in 1..Depth /\ d - 1 # Depth
      BY <1>2, <2>1
    <3>2. frames'[d - 1] = frames[d - 1]
      BY <1>3, <3>1
    <3>3. frames[d].depth = Inner(frames[d - 1])
      BY <1>2, <2>1 DEF TInv, Inside
    <3>4. ASSUME NEW i \in (frames[d].stop + 1)..(frames[d - 1].l - 1) PROVE type'[i] = "empty"
      <4>1. type[i] = "empty"
        BY <1>2, <2>1 DEF TInv, Inside
      <4>2. i \in 1..N
        <5>1. frames[d].stop \in 1..N /\ frames[d - 1].l \in 1..(N + 1)
          BY <1>2, <3>1 DEF FrameType
        <5>2. \A a, b : a \in 1..N /\ b \in 1..(N + 1)
                        => \A j \in (a + 1)..(b - 1) : j \in 1..N
          BY <1>2
        <5> QED BY <5>1, <5>2, Zenon
      <4> QED BY <4>1, <4>2
    <3> QED BY <1>6, <3>2, <3>3, <3>4
  <2>2. \A d, e \in 1..Depth : d <= e => frames'[e].stop <= frames'[d].stop
    BY <1>2, <1>6 DEF TInv, Inside
  <2>3. \A d \in 1..Depth : d = 1 => frames'[d].depth = 0
    BY <1>2, <1>6 DEF TInv, Inside
  <2> QED BY <1>3, <2>1, <2>2, <2>3 DEF Inside
<1> QED BY <1>5, <1>8, <1>9, <1>10 DEF TInv
-----------------------------------------------------------------------------
\* Of the lines that are in blocks nothing more is stripped
Settled == \A m \in 1..Len(tree) : \A i \in tree[m].lines : stripped'[i] = stripped[i]

\* A text that needs no tokens does not get to need them.
LEMMA ExcusedStays ==
    ASSUME NEW depth, Grown(depth), Settled, NEW m \in 1..Len(tree), Excused(tree, stripped, m)
    PROVE  Excused(tree', stripped', m)
<1>1. PICK k \in 1..m : /\ tree[k].type \in {"para", "setext", "term"}
                        /\ \E i \in tree[k].lines : lines[i][stripped[i] + 1] = "def_note"
                        /\ \A j \in k..m : tree[j].depth = tree[k].depth
  BY DEF Excused
<1>2. \A j \in 1..m : j \in 1..Len(tree) /\ Same(tree[j], tree'[j])
  <2>1. Len(tree) \in Nat /\ \A j \in 1..Len(tree) : Same(tree[j], tree'[j])
    BY Zenon DEF Grown
  <2>2. \A j \in 1..m : j \in 1..Len(tree)
    BY <2>1
  <2> QED BY <2>1, <2>2, Zenon
<1>3. tree'[k].type = tree[k].type /\ tree'[k].lines = tree[k].lines
  BY <1>1, <1>2 DEF Same, Lists
<1>4. \A i \in tree[k].lines : stripped'[i] = stripped[i]
  BY <1>2 DEF Settled
<1>5. \A j \in k..m : tree'[j].depth = tree'[k].depth
  <2>1. \A j \in k..m : j \in 1..m
    BY <1>1
  <2> QED BY <1>1, <1>2, <2>1 DEF Same
<1> QED BY <1>1, <1>3, <1>4, <1>5 DEF Excused

\* The first term of a list that is being read stays what it is.
LEMMA FirstTermStays ==
    ASSUME NEW depth, Grown(depth), Settled, NEW f, NEW fs, NEW gs, NEW d,
           FirstTerm(tree, stripped, f, fs, d), \A e \in 1..d : gs[e].kind = fs[e].kind
    PROVE  FirstTerm(tree', stripped', f, gs, d)
<1> SUFFICES ASSUME f.within = "deflist" PROVE FirstTerm(tree', stripped', f, gs, d)
  BY DEF FirstTerm
<1> DEFINE m == f.node + 1
<1>1. m \in 1..Len(tree) /\ tree[m].type = "term"
  BY DEF FirstTerm
<1>2. PICK i \in 1..N : /\ tree[m].lines = {i}
                        /\ Colon(stripped, i) => \E e \in 1..d : fs[e].kind = "definition"
  BY DEF FirstTerm
<1> HIDE DEF m
<1>3. m \in 1..Len(tree') /\ Same(tree[m], tree'[m])
  BY <1>1 DEF Grown
<1>4. tree'[m].type = "term" /\ tree'[m].lines = {i}
  BY <1>1, <1>2, <1>3 DEF Same, Lists
<1>5. Colon(stripped', i) => Colon(stripped, i)
  <2>1. stripped'[i] = stripped[i]
    BY <1>1, <1>2 DEF Settled
  <2> QED BY <2>1 DEF Colon
<1> QED BY <1>2, <1>3, <1>4, <1>5 DEF FirstTerm, m

\* A line that is in a block was read.
LEMMA HeldIsRead ==
    ASSUME IInv, frames # <<>>, NEW m \in 1..Len(tree), NEW i \in tree[m].lines
    PROVE  i \in 1..N /\ i < l
<1>1. DOMAIN tree = 1..Len(tree) /\ tree[m].lines \in SUBSET (1..N)
  BY NodeFacts DEF IInv
<1>2. Holds(tree, i)
  BY <1>1 DEF Holds
<1> QED BY <1>1, <1>2 DEF IInv, PlacedOnce

\* The activation that runs goes on: what it puts into the tree is tokenized or will be.
LEMMA GoOnTokens ==
    ASSUME IInv, IInv', KInv, frames # <<>>, lines' = lines, NEW f \in FrameType,
           frames' = [frames EXCEPT ![Depth] = f], f.kind = Top.kind, f.stop = stop, f.l >= l,
           stripped' = stripped, NEW depth, Grown(depth), NestedDeflist => NestedDeflist',
           \A m \in (Len(tree) + 1)..Len(tree') :
               /\ Untold(tree'[m]) => Excused(tree', stripped', m) \/ Awaits(f, m)
               /\ tree'[m].tokens = "exposed" => tree'[m].type \in Rowed \/ NestedDeflist',
           \A m \in 1..Len(tree) :
               /\ tree'[m].tokens = "exposed" => tree[m].tokens = "exposed" \/ NestedDeflist'
               /\ Awaits(Top, m) => ~Untold(tree'[m]),
           FirstTerm(tree', stripped', f, frames', Depth)
    PROVE  KInv'
<1>1. Types /\ Types' /\ Nested
  BY DEF IInv
<1>2. /\ Depth \in Nat /\ Depth \in 1..Depth /\ DOMAIN frames = 1..Depth
      /\ \A d \in 1..Depth : frames[d] \in FrameType
      /\ Top = frames[Depth] /\ Top \in FrameType /\ l \in 1..(N + 1) /\ N \in Nat
      /\ stop = Top.stop
  BY <1>1, TopFacts DEF FrameType
<1>3. /\ frames' # <<>> /\ Depth' = Depth /\ DOMAIN frames' = 1..Depth /\ frames'[Depth] = f
      /\ \A d \in 1..Depth : d # Depth => frames'[d] = frames[d]
      /\ l' = f.l /\ N' = N
  BY <1>1, TopReplaced DEF N
<1>4. Settled
  BY DEF Settled
<1>5. \A d \in 1..Depth : frames'[d].kind = frames[d].kind /\ frames'[d].stop = frames[d].stop
  BY <1>2, <1>3
<1>6. \A m \in 1..Len(tree') : m \in 1..Len(tree) \/ m \in (Len(tree) + 1)..Len(tree')
  BY DEF Grown
<1>7. AllTold'
  <2>1. ASSUME NEW m \in 1..Len(tree'), Untold(tree'[m])
        PROVE  Excused(tree', stripped', m) \/ \E d \in 1..Depth : Awaits(frames'[d], m)
    <3>1. CASE m \in (Len(tree) + 1)..Len(tree')
      BY <1>2, <1>3, <2>1, <3>1
    <3>2. CASE m \in 1..Len(tree)
      <4>1. Same(tree[m], tree'[m])
        BY <3>2 DEF Grown
      <4>2. Untold(tree[m])
        BY <2>1, <4>1 DEF Untold, Same, Texts, Lists
      <4>3. CASE Excused(tree, stripped, m)
        BY <1>4, <3>2, <4>3, ExcusedStays
      <4>4. CASE \E d \in DOMAIN frames : Awaits(frames[d], m)
        <5>1. PICK d \in 1..Depth : Awaits(frames[d], m)
          BY <1>2, <4>4
        <5>2. d # Depth
          BY <1>2, <2>1, <3>2, <5>1
        <5> QED BY <1>3, <5>1, <5>2
      <4> QED BY <3>2, <4>2, <4>3, <4>4 DEF KInv, AllTold
    <3> QED BY <1>6, <3>1, <3>2
  <2>2. \A m : Excused(tree, stripped, m)' <=> Excused(tree', stripped', m)
    BY DEF Excused
  <2>3. \A d, m : Awaits(frames[d], m)' <=> Awaits(frames'[d], m)
    BY DEF Awaits
  <2>4. \A m : Untold(tree[m])' <=> Untold(tree'[m])
    BY DEF Untold
  <2> QED BY <1>3, <2>1, <2>2, <2>3, <2>4 DEF AllTold
<1>8. AllHidden'
  <2>1. ASSUME NEW m \in 1..Len(tree'), tree'[m].tokens = "exposed"
        PROVE  tree'[m].type \in Rowed \/ NestedDeflist'
    <3>1. CASE m \in (Len(tree) + 1)..Len(tree')
      BY <2>1, <3>1
    <3>2. CASE m \in 1..Len(tree)
      <4>1. Same(tree[m], tree'[m])
        BY <3>2 DEF Grown
      <4>2. tree[m].tokens = "exposed" => tree[m].type \in Rowed \/ NestedDeflist
        BY <3>2 DEF KInv, AllHidden
      <4> QED BY <2>1, <3>2, <4>1, <4>2 DEF Same, Rowed, Lists
    <3> QED BY <1>6, <2>1, <3>1, <3>2
  <2> QED BY <2>1 DEF AllHidden
<1>9. Claimed'
  <2>1. ASSUME NEW i \in 1..N, i >= f.l, Colon(stripped, i)
        PROVE  \E d \in 1..Depth : frames'[d].kind = "definition" /\ i <= frames'[d].stop
    <3>1. i >= l
      BY <1>2, <2>1 DEF FrameType
    <3>2. PICK d \in 1..Depth : frames[d].kind = "definition" /\ i <= frames[d].stop
      BY <1>2, <2>1, <3>1 DEF KInv, Claimed
    <3> QED BY <1>5, <3>2
  <2>2. \A i : Colon(stripped, i)' <=> Colon(stripped, i)
    BY DEF Colon
  <2> QED BY <1>3, <2>1, <2>2 DEF Claimed
<1>10. FirstTerms'
  <2>1. ASSUME NEW d \in 1..Depth PROVE FirstTerm(tree', stripped', frames'[d], frames', d)
    <3>1. CASE d = Depth
      BY <1>3, <3>1
    <3>2. CASE d # Depth
      <4>1. FirstTerm(tree, stripped, frames[d], frames, d)
        BY <1>2 DEF KInv, FirstTerms
      <4>2. \A e \in 1..d : frames'[e].kind = frames[e].kind
        BY <1>2, <1>5
      <4>3. FirstTerm(tree', stripped', frames[d], frames', d)
        BY <1>4, <4>1, <4>2, FirstTermStays
      <4> QED BY <1>3, <3>2, <4>3
    <3> QED BY <3>1, <3>2
  <2>2. \A d : FirstTerm(tree, stripped, frames[d], frames, d)'
               <=> FirstTerm(tree', stripped', frames'[d], frames', d)
    BY <1>3 DEF FirstTerm, Colon
  <2> QED BY <1>3, <2>1, <2>2 DEF FirstTerms
<1> QED BY <1>7, <1>8, <1>9, <1>10 DEF KInv
-----------------------------------------------------------------------------
\* A step that changes the tree so also keeps its definition lists.
LEMMA GrownKeeps ==
    ASSUME NEW depth, Grown(depth)
    PROVE  Keeps(depth)
<1>1. \A m \in 1..Len(tree) : Same(tree[m], tree'[m])
  BY DEF Grown
<1>2. \A m \in 1..Len(tree) : /\ tree'[m].depth = tree[m].depth
                              /\ tree'[m].type = "deflist" <=> tree[m].type = "deflist"
  BY <1>1 DEF Same, Lists
<1>3. \A m \in (Len(tree) + 1)..Len(tree') : m \in 1..Len(tree')
  BY DEF Grown
<1> QED BY <1>2, <1>3 DEF Grown, Keeps

\* is_definition is 0 in a definition only if it was reset too early.
LEMMA ResetIsNested ==
    ASSUME IInv, FInv, frames # <<>>, is_definition = 0, NEW d \in 1..Depth, frames[d].kind = "definition"
    PROVE  NestedDeflist
<1>1. Activations("definition") = Cardinality(Reading) /\ IsFiniteSet(Reading)
  BY ReadingFinite DEF IInv
<1>2. d \in Reading
  BY DEF Reading
<1>3. Cardinality(Reading) # 0
  BY <1>1, <1>2, FS_EmptySet
<1> QED BY <1>1, <1>3 DEF FInv, Counted

\* So only then is a colon shown.
LEMMA ExposedIsNested ==
    ASSUME IInv, FInv, KInv, frames # <<>>, NEW i \in 1..N, i >= l, Tokenized(i) = "exposed"
    PROVE  NestedDeflist
<1>1. is_definition = 0 /\ Colon(stripped, i)
  BY DEF Tokenized, Marked, Colon
<1>2. Types /\ DOMAIN frames = 1..Depth
  BY TopFacts DEF IInv
<1>3. PICK d \in 1..Depth : frames[d].kind = "definition"
  BY <1>1, <1>2 DEF KInv, Claimed
<1> QED BY <1>1, <1>3, ResetIsNested

\* A block without children, as block() puts it behind the others
Sibling(node) ==
    /\ node.depth = Top.depth /\ node.type \in Blocks
    /\ node.type = "empty" => \A i \in node.lines : i \in l..stop /\ type[i] = "empty"
    /\ Untold(node) => /\ node.type \in {"para", "setext"}
                       /\ \E i \in node.lines : lines[i][stripped[i] + 1] = "def_note"
    /\ node.tokens = "exposed" => NestedDeflist

\* A block may be a child of any node that has blocks.
LEMMA BlocksSuit ==
    ASSUME NEW above, NEW node, NEW st, above.type \in Containers, node.type \in Blocks,
           above.type = "item_tight" /\ node.type = "empty" => \A i \in node.lines : st[i] > 0
    PROVE  Suits(above, node, st)
BY DEF Suits, ParentTypes, Containers, Blocks, Items, Rowed

\* Blocks without children are put behind the others.
LEMMA SiblingsOK ==
    ASSUME IInv, IInv', FInv, TInv, KInv, frames # <<>>, lines' = lines, stripped' = stripped,
           \A i \in 1..N : type'[i] = "empty" <=> type[i] = "empty",
           NEW S, NEW nodes \in Seq(S), tree' = tree \o nodes, \A k \in 1..Len(nodes) : Sibling(nodes[k]),
           NEW f, frames' = [frames EXCEPT ![Depth] = f], Top.within = "blocks", f.within = "blocks",
           f.kind = Top.kind, f.depth = Top.depth, f.stop = stop, f.l >= l
    PROVE  TInv' /\ KInv'
<1>1. Types /\ Types' /\ f \in FrameType
  BY TopIsFrame DEF IInv
<1>2. Depth \in 1..Depth /\ DOMAIN frames = 1..Depth /\ Top = frames[Depth] /\ Top.depth \in Nat
      /\ stop = Top.stop /\ stop \in 1..N /\ l \in 1..(N + 1) /\ N \in Nat
  BY <1>1, TopFacts DEF FrameType
<1>3. Len(tree) \in Nat /\ \A m \in 1..Len(tree) : Same(tree[m], tree[m])
  BY <1>1, NodeFacts DEF Same
<1>4. /\ Grown(Top.depth) /\ \A m \in 1..Len(tree) : tree'[m] = tree[m]
      /\ \A m \in (Len(tree) + 1)..Len(tree') : \E k \in 1..Len(nodes) : tree'[m] = nodes[k]
  <2> DEFINE depth == Top.depth
  <2>1. depth \in Nat /\ \A k \in 1..Len(nodes) : nodes[k].depth = depth
    BY <1>2, Zenon DEF Sibling
  <2>2. Grown(depth) => Grown(Top.depth)
    OBVIOUS
  <2> HIDE DEF depth
  <2>3. depth >= depth
    BY <2>1
  <2>4. \A k \in 1..Len(nodes) : nodes[k].depth >= depth
    BY <2>1, <2>3, Zenon
  <2>5. /\ Grown(depth) /\ Len(tree') = Len(tree) + Len(nodes)
        /\ \A m \in 1..Len(tree) : tree'[m] = tree[m]
        /\ \A m \in (Len(tree) + 1)..Len(tree') :
               \E k \in 1..Len(nodes) : m = Len(tree) + k /\ tree'[m] = nodes[k]
    BY <1>1, <2>1, <2>4, PutBehind, SMTT(60)
  <2> QED BY <2>2, <2>5, Zenon
<1>5. ASSUME NEW m \in (Len(tree) + 1)..Len(tree') PROVE Sibling(tree'[m])
  BY <1>4
<1>6. PICK p \in 0..Len(tree) : Standing(tree, p, Top, l, type, stripped)
  BY <1>2 DEF TInv, AllStand
<1>7. ASSUME NEW m \in (Len(tree) + 1)..Len(tree') PROVE Fits(tree', m, stripped')
  <2> DEFINE x == tree'[m]
  <2>1. Sibling(x)
    BY <1>5
  <2>2. Under(tree, p, Top.depth)
    BY <1>6 DEF Standing
  <2>3. p # 0 => Suits(tree'[p], x, stripped')
    <3> SUFFICES ASSUME p # 0 PROVE Suits(tree'[p], x, stripped')
      OBVIOUS
    <3>1. tree'[p] = tree[p] /\ tree[p].type \in Containers
      BY <1>3, <1>4, <1>6 DEF Standing
    <3>2. tree[p].type = "item_tight" /\ x.type = "empty" => \A i \in x.lines : stripped'[i] > 0
      BY <1>2, <1>6, <2>1 DEF Standing, Sibling
    <3>3. x.type \in Blocks
      BY <2>1 DEF Sibling
    <3> HIDE DEF x
    <3> QED BY <3>1, <3>2, <3>3, BlocksSuit
  <2>4. x.depth = Top.depth /\ x.type \in Blocks
    BY <2>1 DEF Sibling
  <2>5. p \in Nat
    BY <1>3
  <2> QED BY <1>2, <1>4, <2>2, <2>3, <2>4, <2>5, NewFits
<1>8. TInv'
  <2>1. Parted(tree', f)
    BY DEF Parted, ListParts, DeflistParts
  <2> QED BY <1>1, <1>4, <1>7, <2>1, GoOnTree
<1>9. NestedDeflist => NestedDeflist'
  BY <1>1, <1>2, <1>4, GrownKeeps, NestedKept
<1>10. KInv'
  <2>1. ASSUME NEW m \in (Len(tree) + 1)..Len(tree')
        PROVE  /\ Untold(tree'[m]) => Excused(tree', stripped', m) \/ Awaits(f, m)
               /\ tree'[m].tokens = "exposed" => tree'[m].type \in Rowed \/ NestedDeflist'
    <3>1. Sibling(tree'[m])
      BY <1>5
    <3>2. ASSUME Untold(tree'[m]) PROVE Excused(tree', stripped', m)
      <4>1. m \in 1..m /\ \A j \in m..m : j = m
        BY <1>3
      <4> QED BY <3>1, <3>2, <4>1 DEF Sibling, Excused
    <3> QED BY <1>9, <3>1, <3>2 DEF Sibling
  <2>2. \A m \in 1..Len(tree) : /\ tree'[m].tokens = "exposed" => tree[m].tokens = "exposed" \/ NestedDeflist'
                                /\ Awaits(Top, m) => ~Untold(tree'[m])
    BY <1>4 DEF Awaits
  <2>3. FirstTerm(tree', stripped', f, frames', Depth)
    BY DEF FirstTerm
  <2> QED BY <1>1, <1>4, <1>9, <2>1, <2>2, <2>3, GoOnTokens
<1> QED BY <1>8, <1>10

\* A block without children.
LEMMA BlockKeepsTree ==
    ASSUME IInv, IInv', FInv, TInv, KInv, frames # <<>>, Top.within = "blocks", l <= stop,
           NEW node \in Blocks, NEW last \in l..stop, NEW tokens, Block(node, last, tokens),
           \A i \in 1..N : type'[i] = "empty" <=> type[i] = "empty",
           node = "empty" => \A i \in l..last : type[i] = "empty",
           tokens \in {Tokenized(l), "none"},
           node \in Texts /\ tokens = "none" =>
               node \in {"para", "setext"} /\ lines[l][stripped[l] + 1] = "def_note"
    PROVE  TInv' /\ KInv'
<1> DEFINE f == [Top EXCEPT !.l = last + 1]
           x == Node(node, Top.depth, l..last, tokens)
<1>1. Types
  BY DEF IInv
<1>2. /\ Top \in FrameType /\ Top = frames[Depth] /\ Depth \in 1..Depth
      /\ l \in 1..(N + 1) /\ stop \in 1..N /\ N \in Nat /\ l = Top.l /\ stop = Top.stop
      /\ DOMAIN frames = 1..Depth
  BY <1>1, TopFacts, Zenon
<1>3. /\ tree' = tree \o <<x>> /\ frames' = [frames EXCEPT ![Depth].l = last + 1]
      /\ UNCHANGED <<lines, stripped, dropped, is_definition, is_endnote>>
  BY DEF Block, Emit
<1>4. frames' = [frames EXCEPT ![Depth] = f]
  BY <1>2, <1>3
<1>5. f.l = last + 1 /\ f.stop = stop /\ f.kind = Top.kind /\ f.depth = Top.depth /\ f.within = "blocks"
  BY <1>2 DEF FrameType
<1>6. x.type = node /\ x.depth = Top.depth /\ x.lines = l..last /\ x.tokens = tokens
  BY DEF Node
<1> HIDE DEF f, x
<1>7. \A i \in l..last : i \in l..stop
  BY <1>2
<1>8. l \in l..last /\ l \in 1..N
  BY <1>2
<1>9. tokens = "exposed" => NestedDeflist
  BY <1>2, <1>8, ExposedIsNested
<1>10. Sibling(x)
  <2>1. Untold(x) => node \in {"para", "setext"} /\ \E i \in l..last : lines[i][stripped[i] + 1] = "def_note"
    BY <1>6, <1>8 DEF Untold
  <2> QED BY <1>6, <1>7, <1>9, <2>1 DEF Sibling
<1>11. <<x>> \in Seq({x}) /\ \A k \in 1..Len(<<x>>) : Sibling(<<x>>[k])
  BY <1>10
<1>12. f.l >= l
  BY <1>2, <1>5
<1> QED BY <1>3, <1>4, <1>5, <1>11, <1>12, SiblingsOK

\* Blocks that are one line or a run of lines.
LEMMA SimpleKeepsTree ==
    ASSUME IInv, IInv', FInv, TInv, KInv,
           block_atx \/ block_toc \/ block_hr \/ block_empty \/ block_reference_def_a \/ block_html
           \/ block_html_comment \/ block_code_fenced \/ block_meta \/ block_meta_yaml
    PROVE  TInv' /\ KInv'
<1> USE DEF Texts, Blocks
<1>1. CASE block_atx
  <2>1. At({"atx"}) /\ type' = type /\ Block("header", l, Tokenized(l))
    BY <1>1 DEF block_atx
  <2>2. Tokenized(l) # "none"
    BY DEF Tokenized
  <2> QED BY <2>1, <2>2, AtIs, BlockKeepsTree
<1>2. CASE block_toc
  <2>1. At({"toc"}) /\ type' = type /\ Block("toc", l, "none")
    BY <1>2 DEF block_toc
  <2> QED BY <2>1, AtIs, BlockKeepsTree
<1>3. CASE block_hr
  <2>1. At({"hr", "setext2"}) /\ type' = type /\ Block("hr", l, Tokenized(l))
    BY <1>3 DEF block_hr
  <2> QED BY <2>1, AtIs, BlockKeepsTree
<1>4. CASE block_empty
  <2>1. At({"empty"}) /\ type' = type
    BY <1>4 DEF block_empty
  <2>2. PICK end \in Behind(l, {"empty"}) : Block("empty", end - 1, "none")
    BY <1>4 DEF block_empty
  <2>3. end - 1 \in l..stop
    BY <2>1, AtIs, BehindIs
  <2>4. \A i \in l..(end - 1) : type[i] = "empty"
    BY <2>2 DEF Behind
  <2> QED BY <2>1, <2>2, <2>3, <2>4, AtIs, BlockKeepsTree
<1>5. CASE block_reference_def_a
  <2>1. At({"def_link"}) /\ type' = type
    BY <1>5 DEF block_reference_def_a
  <2>2. PICK end \in Behind(l + 1, accept_chunk_line) : Block("def_link", end - 1, "none")
    BY <1>5 DEF block_reference_def_a
  <2>3. end - 1 \in l..stop
    BY <2>1, AtIs, BehindIs
  <2> QED BY <2>1, <2>2, <2>3, AtIs, BlockKeepsTree
<1>6. CASE block_html
  <2>1. At({"html_block", "html_blockish"}) /\ type' = type
    BY <1>6 DEF block_html
  <2>2. PICK end \in Behind(l + 1, LineTypes \ {"empty"}) : Block("html", end - 1, "none")
    BY <1>6 DEF block_html
  <2>3. end - 1 \in l..stop
    BY <2>1, AtIs, BehindIs
  <2> QED BY <2>1, <2>2, <2>3, AtIs, BlockKeepsTree
<1>7. CASE block_html_comment
  <2>1. At({"comment_start"}) /\ type' = type
    BY <1>7 DEF block_html_comment
  <2>2. PICK end \in Behind(l + 1, LineTypes \ {"comment_stop"}) :
            Block("html", IF end <= stop THEN end ELSE stop, "none")
    BY <1>7 DEF block_html_comment
  <2>3. (IF end <= stop THEN end ELSE stop) \in l..stop
    BY <2>1, AtIs, BehindIs
  <2> QED BY <2>1, <2>2, <2>3, AtIs, BlockKeepsTree
<1>8. CASE block_code_fenced
  <2>1. At(Fences)
    BY <1>8 DEF block_code_fenced
  <2>2. PICK end \in Behind(l + 1, accept_fence_line(type[l])) :
            /\ Block("code_fenced", IF end <= stop THEN end ELSE stop, "none")
            /\ type' = [i \in 1..N |-> IF i \in {l, end} /\ i <= stop THEN "code_fence" ELSE type[i]]
    BY <1>8 DEF block_code_fenced
  <2>3. end \in Int /\ l <= end /\ (IF end <= stop THEN end ELSE stop) \in l..stop
        /\ (end <= stop => type[end] \notin accept_fence_line(type[l]))
    BY <2>1, AtIs, BehindIs
  <2>4. type[l] # "empty"
    BY <2>1, AtIs DEF Fences
  <2>5. end <= stop => type[end] # "empty"
    BY <2>3 DEF accept_fence_line, LineTypes, Contents
  <2>6. \A i \in 1..N : type'[i] = "empty" <=> type[i] = "empty"
    BY <2>2, <2>4, <2>5
  <2> QED BY <2>1, <2>2, <2>3, <2>6, AtIs, BlockKeepsTree
<1>9. CASE block_meta
  <2>1. At({"meta"}) /\ type' = type
    BY <1>9 DEF block_meta
  <2>2. PICK end \in Behind(l + 1, LineTypes \ {"empty"}) : Block("meta", end - 1, "none")
    BY <1>9 DEF block_meta
  <2>3. end - 1 \in l..stop
    BY <2>1, AtIs, BehindIs
  <2> QED BY <2>1, <2>2, <2>3, AtIs, BlockKeepsTree
<1>10. CASE block_meta_yaml
  <2>1. At({"yaml"})
    BY <1>10 DEF block_meta_yaml
  <2>2. PICK end \in Behind(l + 1, LineTypes \ {"empty", "setext2"}) :
            /\ Block("meta", IF end <= stop /\ type[end] = "setext2" THEN end ELSE end - 1, "none")
            /\ type' = IF end <= stop /\ type[end] = "setext2" THEN [type EXCEPT ![end] = "yaml"] ELSE type
    BY <1>10 DEF block_meta_yaml
  <2>3. (IF end <= stop /\ type[end] = "setext2" THEN end ELSE end - 1) \in l..stop
    BY <2>1, AtIs, BehindIs
  <2>4. type \in [1..N -> LineTypes]
    BY <2>1, AtIs DEF Types
  <2>5. \A i \in 1..N : type'[i] = "empty" <=> type[i] = "empty"
    BY <2>2, <2>4
  <2> QED BY <2>1, <2>2, <2>3, <2>5, AtIs, BlockKeepsTree
<1> QED BY <1>1, <1>2, <1>3, <1>4, <1>5, <1>6, <1>7, <1>8, <1>9, <1>10

\* A block, and one of the empty lines behind it.
LEMMA SiblingAndEmpties ==
    ASSUME IInv, IInv', FInv, TInv, KInv, frames # <<>>, Top.within = "blocks",
           UNCHANGED <<lines, type, stripped>>, NEW x, Sibling(x), NEW end \in l..(stop + 1),
           NEW rest \in Behind(end, {"empty"}), Emit(<<x>> \o Empties(end, rest, Top.depth), rest)
    PROVE  TInv' /\ KInv'
<1> DEFINE f == [Top EXCEPT !.l = rest]
           y == Node("empty", Top.depth, end..(rest - 1), "none")
           e == Empties(end, rest, Top.depth)
           all == {x, y}
<1>1. Types
  BY DEF IInv
<1>2. /\ Top \in FrameType /\ Top = frames[Depth] /\ Depth \in 1..Depth /\ DOMAIN frames = 1..Depth
      /\ l \in 1..(N + 1) /\ stop \in 1..N /\ N \in Nat /\ l = Top.l /\ stop = Top.stop /\ Top.depth \in Nat
  BY <1>1, TopFacts, Zenon DEF FrameType
<1>3. rest \in end..(stop + 1) /\ \A i \in end..(rest - 1) : type[i] = "empty"
  BY DEF Behind
<1>4. tree' = tree \o (<<x>> \o e) /\ frames' = [frames EXCEPT ![Depth] = f]
  BY <1>2 DEF Emit
<1>5. f.l = rest /\ f.stop = stop /\ f.kind = Top.kind /\ f.depth = Top.depth /\ f.within = "blocks"
  BY <1>2 DEF FrameType
<1>6. Sibling(y)
  <2>1. \A i \in end..(rest - 1) : i \in l..stop
    BY <1>2, <1>3
  <2> QED BY <1>3, <2>1 DEF Sibling, Node, Untold, Texts, Blocks
<1>7. e \in {<<>>, <<y>>}
  BY DEF Empties
<1> HIDE DEF f, y, e
<1>8. e \in Seq(all)
  <2>1. CASE e = <<>>
    BY <2>1
  <2>2. CASE e = <<y>>
    BY <2>2
  <2> QED BY <1>7, <2>1, <2>2
<1>9. <<x>> \o e \in Seq(all) /\ \A k \in 1..Len(<<x>> \o e) : (<<x>> \o e)[k] \in all
  <2>1. <<x>> \in Seq(all)
    OBVIOUS
  <2>2. <<x>> \o e \in Seq(all)
    BY <1>8, <2>1, ConcatProperties
  <2> HIDE DEF all
  <2> QED BY <2>2, ElementOfSeq
<1>10. \A k \in 1..Len(<<x>> \o e) : Sibling((<<x>> \o e)[k])
  BY <1>6, <1>9
<1>11. f.l >= l
  BY <1>2, <1>3, <1>5
<1>12. \A i \in 1..N : type'[i] = "empty" <=> type[i] = "empty"
  OBVIOUS
<1> HIDE DEF all
<1> QED BY <1>4, <1>5, <1>9, <1>10, <1>11, <1>12, SiblingsOK

\* Indented code and the empty lines behind it.
LEMMA CodeIndentedKeepsTree ==
    ASSUME IInv, IInv', FInv, TInv, KInv, block_code_indented
    PROVE  TInv' /\ KInv'
<1>1. At({"indented"}) /\ UNCHANGED <<lines, type, stripped>>
  BY DEF block_code_indented
<1>2. PICK end \in (l + 1)..(stop + 1) : \E rest \in Behind(end, {"empty"}) :
          Emit(<<Node("code_indented", Top.depth, l..(end - 1), "none")>>
               \o Empties(end, rest, Top.depth), rest)
  BY DEF block_code_indented
<1>3. end \in l..(stop + 1)
  BY <1>1, AtIs
<1> DEFINE x == Node("code_indented", Top.depth, l..(end - 1), "none")
<1>4. Sibling(x)
  BY DEF Sibling, Node, Untold, Texts, Blocks
<1> HIDE DEF x
<1>5. PICK rest \in Behind(end, {"empty"}) : Emit(<<x>> \o Empties(end, rest, Top.depth), rest)
  BY <1>2 DEF x
<1> QED BY <1>1, <1>3, <1>4, <1>5, AtIs, SiblingAndEmpties

\* The activation that runs has a parent for a node of its depth.
LEMMA TopStands ==
    ASSUME IInv, TInv, frames # <<>>, NEW depth \in Nat, depth = Top.depth, Grown(depth), lines' = lines,
           stripped' = stripped, NEW m \in (Len(tree) + 1)..Len(tree'), tree'[m].depth = depth,
           tree'[m].type \in Blocks, \A k \in 1..Len(tree) : tree'[k].type = tree[k].type,
           tree'[m].type = "empty" => \A i \in tree'[m].lines : i \in l..stop /\ type[i] = "empty"
    PROVE  Fits(tree', m, stripped')
<1>1. Types
  BY DEF IInv
<1>2. DOMAIN frames = 1..Depth /\ Top = frames[Depth] /\ Depth \in 1..Depth
  BY <1>1, TopFacts
<1>3. PICK p \in 0..Len(tree) : Standing(tree, p, Top, l, type, stripped)
  BY <1>2 DEF TInv, AllStand
<1>4. Under(tree, p, depth) /\ p \in Nat
  BY <1>3 DEF Standing
<1> DEFINE x == tree'[m]
<1>5. p # 0 => Suits(tree'[p], x, stripped')
  <2> SUFFICES ASSUME p # 0 PROVE Suits(tree'[p], x, stripped')
    OBVIOUS
  <2>1. p \in 1..Len(tree)
    BY <1>3 DEF Grown
  <2>2. tree'[p].type \in Containers
    BY <1>3, <2>1 DEF Standing
  <2>3. x.type \in Blocks
    OBVIOUS
  <2>4. tree'[p].type = "item_tight" /\ x.type = "empty" => \A i \in x.lines : stripped'[i] > 0
    <3> SUFFICES ASSUME tree'[p].type = "item_tight", x.type = "empty", NEW i \in x.lines PROVE stripped[i] > 0
      OBVIOUS
    <3>1. i \in l..stop /\ type[i] = "empty"
      OBVIOUS
    <3>2. tree[p].type = "item_tight"
      BY <2>1
    <3>3. \A j \in l..Top.stop : type[j] = "empty" => stripped[j] > 0
      BY <1>3, <3>2 DEF Standing
    <3>4. stop = Top.stop
      BY DEF stop
    <3> QED BY <3>1, <3>3, <3>4
  <2> HIDE DEF x
  <2> QED BY <2>2, <2>3, <2>4, BlocksSuit
<1> QED BY <1>4, <1>5, NewFits

\* The activation that runs goes on at this line and reads parts below this node
Opens(f, next, node) ==
    /\ frames' = [frames EXCEPT ![Depth] = f] /\ next >= l
    /\ f.kind = Top.kind /\ f.depth = Top.depth /\ f.stop = stop /\ f.l = next /\ f.node = node

\* A list, a definition list or a table, and children of it
WithChildren(nodes) ==
    /\ Len(nodes) \in Nat /\ Len(nodes) >= 1
    /\ nodes[1].depth = Top.depth /\ nodes[1].type \in Blocks \ {"empty"}
    /\ \A k \in 2..Len(nodes) : nodes[k].depth = Top.depth + 1 /\ Suits(nodes[1], nodes[k], stripped)

\* The parts that an activation begins to read are below a node that was put
\* behind the others.
LEMMA PartsBegin ==
    ASSUME IInv, IInv', FInv, TInv, frames # <<>>, UNCHANGED <<lines, type, stripped>>,
           NEW nodes \in Seq(TreeNode), WithChildren(nodes), tree' = tree \o nodes,
           NEW f, NEW next, NEW node, Opens(f, next, node), Whole(f) = Len(tree) + 1,
           f.within \in ListParts => nodes[1].type \in Lists,
           f.within \in DeflistParts => nodes[1].type = "deflist",
           f.within = "table" => /\ nodes[1].type = "table" /\ f.node = Len(tree) + 2
                                 /\ Len(nodes) >= 2 /\ nodes[2].type = "table_header"
    PROVE  /\ TInv' /\ f \in FrameType /\ Grown(Top.depth) /\ Len(tree') = Len(tree) + Len(nodes)
           /\ \A m \in 1..Len(tree) : tree'[m] = tree[m]
           /\ \A m \in (Len(tree) + 1)..Len(tree') :
                  m - Len(tree) \in 1..Len(nodes) /\ tree'[m] = nodes[m - Len(tree)]
           /\ NestedDeflist => NestedDeflist'
<1> DEFINE a == Len(tree)
           b == Len(nodes)
           depth == Top.depth
           x == nodes[1]
<1>1. Types /\ Types'
  BY DEF IInv
<1>2. depth \in Nat
  BY <1>1, TopFacts, Zenon DEF FrameType
<1>3. depth + 1 \in Nat /\ depth + 1 >= depth /\ depth + 1 >= depth + 1
  BY <1>2
<1>4. /\ b \in Nat /\ b >= 1 /\ x.depth = depth /\ x.type \in Blocks \ {"empty"}
      /\ \A k \in 2..b : nodes[k].depth = depth + 1 /\ Suits(x, nodes[k], stripped)
  BY DEF WithChildren
<1>5. /\ f.kind = Top.kind /\ f.depth = depth /\ f.stop = stop /\ f.l >= l
      /\ frames' = [frames EXCEPT ![Depth] = f]
  BY DEF Opens
<1>6. a \in Nat /\ tree \in Seq(TreeNode) /\ \A m \in 1..Len(tree) : Same(tree[m], tree[m])
  BY <1>1, NodeFacts DEF Types, Same
<1> HIDE DEF a, b, depth, x
<1>7. ASSUME NEW k \in 1..b PROVE nodes[k].depth >= depth
  <2>1. CASE k = 1
    BY <1>2, <1>4, <2>1 DEF x
  <2>2. CASE k # 1
    <3>1. k \in 2..b
      BY <1>4, <2>2
    <3> QED BY <1>3, <1>4, <3>1
  <2> QED BY <2>1, <2>2
<1>8. /\ Grown(depth) /\ Len(tree') = a + b
      /\ \A m \in 1..a : tree'[m] = tree[m]
      /\ \A k \in 1..b : tree'[a + k] = nodes[k]
  <2>1. \A k \in 1..Len(nodes) : nodes[k].depth >= depth
    BY <1>7 DEF b
  <2>2. /\ Grown(depth) /\ Len(tree') = Len(tree) + Len(nodes)
        /\ \A m \in 1..Len(tree) : tree'[m] = tree[m]
        /\ \A k \in 1..Len(nodes) : tree'[Len(tree) + k] = nodes[k]
    BY <1>1, <1>2, <1>6, <2>1, AppendGrows
  <2> QED BY <2>2 DEF a, b
<1>9. a + 1 \in 1..Len(tree') /\ tree'[a + 1] = x
  <2>1. 1 \in 1..b /\ a + 1 \in 1..(a + b)
    BY <1>4, <1>6
  <2>2. tree'[a + 1] = nodes[1]
    BY <1>8, <2>1
  <2> QED BY <1>8, <2>1, <2>2 DEF x
<1>10. ASSUME NEW m \in (a + 1)..Len(tree')
       PROVE  m - a \in 1..b /\ m \in 1..Len(tree') /\ tree'[m] = nodes[m - a]
  <2>1. m - a \in 1..b /\ a + (m - a) = m /\ m \in 1..Len(tree')
    BY <1>4, <1>6, <1>8
  <2>2. tree'[a + (m - a)] = nodes[m - a]
    BY <1>8, <2>1
  <2> QED BY <2>1, <2>2
<1>11. ASSUME NEW m \in (a + 2)..Len(tree')
       PROVE  tree'[m].depth = depth + 1 /\ Suits(x, tree'[m], stripped')
  <2>1. m \in (a + 1)..Len(tree') /\ m - a \in 2..b
    BY <1>4, <1>6, <1>8
  <2> QED BY <1>4, <1>10, <2>1
<1>12. \A m \in (a + 1)..Len(tree') : m = a + 1 \/ m \in (a + 2)..Len(tree')
  BY <1>4, <1>6, <1>8
<1>13. Fits(tree', a + 1, stripped')
  <2>1. a + 1 \in (Len(tree) + 1)..Len(tree')
    BY <1>6, <1>9 DEF a
  <2>2. tree'[a + 1].depth = depth /\ tree'[a + 1].type \in Blocks \ {"empty"}
    BY <1>4, <1>9
  <2>3. \A k \in 1..Len(tree) : tree'[k].type = tree[k].type
    BY <1>8 DEF a
  <2> QED BY <1>1, <1>2, <1>8, <2>1, <2>2, <2>3, TopStands DEF depth
<1>14. ASSUME NEW m \in (a + 2)..Len(tree') PROVE Fits(tree', m, stripped')
  <2>1. a + 1 \in 1..(m - 1) /\ \A j \in ((a + 1) + 1)..m : j \in (a + 2)..Len(tree')
    BY <1>6, <1>8
  <2>2. tree'[m].depth = tree'[a + 1].depth + 1
    BY <1>4, <1>9, <1>11
  <2>3. \A j \in ((a + 1) + 1)..m : tree'[j].depth >= tree'[m].depth
    <3>1. \A j \in ((a + 1) + 1)..m : tree'[j].depth = depth + 1
      BY <1>11, <2>1
    <3> QED BY <1>3, <1>11, <3>1, Zenon
  <2>4. Above(tree', a + 1, m)
    BY <2>2, <2>3 DEF Above
  <2>5. Suits(tree'[a + 1], tree'[m], stripped')
    BY <1>9, <1>11
  <2> QED BY <2>1, <2>4, <2>5 DEF Fits
<1>15. \A m \in (Len(tree) + 1)..Len(tree') : Fits(tree', m, stripped')
  BY <1>12, <1>13, <1>14 DEF a
<1>16. Parted(tree', f)
  <2>1. \A k \in ((a + 1) + 1)..Len(tree') : k \in (a + 2)..Len(tree')
    BY <1>6
  <2>2. \A k \in ((a + 1) + 1)..Len(tree') : tree'[k].depth >= depth + 1
    <3>1. \A k \in ((a + 1) + 1)..Len(tree') : tree'[k].depth = depth + 1
      BY <1>11, <2>1
    <3> QED BY <1>3, <3>1, Zenon
  <2>3. a + 1 # 0 /\ tree'[a + 1].depth = depth
    BY <1>4, <1>6, <1>9
  <2>4. Under(tree', a + 1, depth + 1)
    BY <1>9, <2>2, <2>3 DEF Under
  <2>5. Whole(f) = a + 1
    BY DEF a
  <2>6. f.within = "table" => f.node \in 1..Len(tree') /\ tree'[f.node].type = "table_header"
    <3> SUFFICES ASSUME f.within = "table"
                 PROVE  f.node \in 1..Len(tree') /\ tree'[f.node].type = "table_header"
      OBVIOUS
    <3>1. f.node = a + 2 /\ b >= 2
      BY DEF a, b
    <3>2. a + 2 \in (a + 1)..Len(tree') /\ (a + 2) - a = 2 /\ a + 2 \in 1..Len(tree')
      BY <1>4, <1>6, <1>8, <3>1
    <3>3. tree'[a + 2] = nodes[2]
      BY <1>10, <3>2
    <3> QED BY <3>1, <3>2, <3>3
  <2> QED BY <1>5, <1>9, <2>3, <2>4, <2>5, <2>6, Zenon DEF Parted, x
<1>17. f \in FrameType
  BY <1>1, <1>5, TopIsFrame
<1>18. TInv'
  BY <1>1, <1>5, <1>8, <1>15, <1>16, <1>17, GoOnTree DEF depth
<1>19. NestedDeflist => NestedDeflist'
  BY <1>1, <1>2, <1>8, GrownKeeps, NestedKept
<1> QED BY <1>8, <1>10, <1>17, <1>18, <1>19 DEF a, b, depth

\* A list begins.
LEMMA ListKeepsTree ==
    ASSUME IInv, IInv', FInv, TInv, KInv, block_list
    PROVE  TInv' /\ KInv'
<1> DEFINE x == Node("list", Top.depth, {}, "none")
           f == [Top EXCEPT !.within = type[l], !.node = Len(tree) + 1]
<1>1. At({"bullet", "enum"}) /\ UNCHANGED <<lines, type, stripped>>
  BY DEF block_list
<1>2. Types /\ Types' /\ frames # <<>> /\ Top.within = "blocks" /\ type[l] \in ListParts /\ l \in Nat
  BY <1>1, AtIs DEF IInv, ListParts
<1>3. Top \in FrameType /\ Top = frames[Depth] /\ Depth \in 1..Depth /\ DOMAIN frames = 1..Depth
      /\ Top.depth \in Nat /\ stop = Top.stop /\ l = Top.l
  BY <1>2, TopFacts, Zenon DEF FrameType
<1>4. x \in TreeNode /\ x.depth = Top.depth /\ x.type = "list" /\ x.tokens = "none"
  BY <1>3 DEF Node, TreeNode, Nodes, Blocks
<1>5. f.within = type[l] /\ Opens(f, l, Len(tree) + 1)
  <2>1. frames' = [frames EXCEPT ![Depth] = f]
    BY <1>3 DEF block_list
  <2>2. /\ f.kind = Top.kind /\ f.depth = Top.depth /\ f.within = type[l] /\ f.node = Len(tree) + 1
        /\ f.stop = stop /\ f.l = l
    BY <1>3 DEF FrameType
  <2> QED BY <1>2, <2>1, <2>2 DEF Opens
<1> HIDE DEF f
<1>6. tree' = tree \o <<x>>
  <2>1. tree' = Append(tree, x) /\ tree \in Seq(TreeNode)
    BY <1>2 DEF block_list, Types
  <2> HIDE DEF x
  <2> QED BY <1>4, <2>1, AppendIsConcat
<1> HIDE DEF x
<1> DEFINE nodes == <<x>>
<1>7. nodes \in Seq(TreeNode) /\ Len(nodes) = 1 /\ nodes[1] = x
  BY <1>4
<1>8. f.within \in ListParts /\ f.within \notin DeflistParts /\ f.within # "table" /\ f.within # "deflist"
  BY <1>2, <1>5 DEF ListParts, DeflistParts
<1>9. Whole(f) = Len(tree) + 1
  BY <1>5, <1>8 DEF Whole, Opens
<1>10. tree' = tree \o nodes
  BY <1>6
<1> HIDE DEF nodes
<1>11. WithChildren(nodes)
  BY <1>4, <1>7 DEF WithChildren, Blocks
<1>12. nodes[1].type \in Lists
  BY <1>4, <1>7 DEF Lists
<1>13. /\ TInv' /\ f \in FrameType /\ Grown(Top.depth) /\ \A m \in 1..Len(tree) : tree'[m] = tree[m]
       /\ \A m \in (Len(tree) + 1)..Len(tree') :
              m - Len(tree) \in 1..Len(nodes) /\ tree'[m] = nodes[m - Len(tree)]
       /\ NestedDeflist => NestedDeflist'
  BY <1>1, <1>2, <1>5, <1>7, <1>8, <1>9, <1>10, <1>11, <1>12, PartsBegin
<1>14. \A m \in (Len(tree) + 1)..Len(tree') : tree'[m] = x
  <2>1. \A k \in 1..Len(nodes) : nodes[k] = x
    BY <1>7
  <2> QED BY <1>13, <2>1
<1>15. \A m \in (Len(tree) + 1)..Len(tree') :
           /\ Untold(tree'[m]) => Excused(tree', stripped', m) \/ Awaits(f, m)
           /\ tree'[m].tokens = "exposed" => tree'[m].type \in Rowed \/ NestedDeflist'
  BY <1>4, <1>14 DEF Untold, Texts
<1>16. \A m \in 1..Len(tree) :
           /\ tree'[m].tokens = "exposed" => tree[m].tokens = "exposed" \/ NestedDeflist'
           /\ Awaits(Top, m) => ~Untold(tree'[m])
  BY <1>2, <1>13 DEF Awaits
<1>17. FirstTerm(tree', stripped', f, frames', Depth)
  BY <1>8 DEF FirstTerm
<1> QED BY <1>1, <1>2, <1>5, <1>13, <1>15, <1>16, <1>17, GoOnTokens DEF Opens

\* A definition list and its terms, which are the lines up to this one
DeflistOf(nodes, end) ==
    /\ Len(nodes) = (end - l) + 1
    /\ nodes[1].depth = Top.depth /\ nodes[1].type = "deflist" /\ nodes[1].tokens = "none"
    /\ \A k \in 2..Len(nodes) : /\ nodes[k].depth = Top.depth + 1 /\ nodes[k].type = "term"
                                /\ nodes[k].tokens = "none"
    /\ nodes[2].lines = {l}

\* A definition list begins with its terms.
LEMMA DeflistBegins ==
    ASSUME IInv, IInv', FInv, TInv, KInv, At(LineTypes), UNCHANGED <<lines, type, stripped>>,
           NEW end \in (l + 1)..(stop + 1), NEW nodes \in Seq(TreeNode), DeflistOf(nodes, end),
           tree' = tree \o nodes, NEW f, Opens(f, end, Len(tree) + 1), f.within \in DeflistParts,
           f.within = "deflist" <=> ~NoteInNote
    PROVE  TInv' /\ KInv'
<1> DEFINE a == Len(tree)
           b == Len(nodes)
           depth == Top.depth
<1>1. /\ Types /\ Types' /\ frames # <<>> /\ Top.within = "blocks" /\ l <= stop
      /\ l \in 1..N /\ stop \in 1..N /\ N \in Nat
  BY AtIs DEF IInv
<1>2. /\ Top = frames[Depth] /\ Depth \in 1..Depth /\ DOMAIN frames = 1..Depth /\ a \in Nat
  BY <1>1, TopFacts, NodeFacts, Zenon
<1>3. /\ b \in Nat /\ b >= 2 /\ nodes[1].depth = depth /\ nodes[1].type = "deflist" /\ nodes[1].tokens = "none"
      /\ \A k \in 2..b : nodes[k].depth = depth + 1 /\ nodes[k].type = "term" /\ nodes[k].tokens = "none"
      /\ nodes[2].lines = {l}
  <2>1. (end - l) + 1 \in Nat /\ (end - l) + 1 >= 2
    BY <1>1
  <2> QED BY <2>1 DEF DeflistOf
<1>4. WithChildren(nodes)
  <2>1. b >= 1
    BY <1>3
  <2>2. \A k \in 2..b : Suits(nodes[1], nodes[k], stripped)
    BY <1>3 DEF Suits, ParentTypes, Items, Lists
  <2> QED BY <1>3, <2>1, <2>2 DEF WithChildren, Blocks
<1>5. /\ f.within \notin ListParts /\ f.within # "table" /\ f.node = a + 1 /\ f.l = end /\ f.l >= l
      /\ Whole(f) = a + 1 /\ f.kind = Top.kind /\ f.stop = stop /\ frames' = [frames EXCEPT ![Depth] = f]
  <2>1. f.within \notin ListParts /\ f.within # "table"
    BY DEF ListParts, DeflistParts
  <2> QED BY <2>1, Zenon DEF Opens, Whole
<1>6. /\ TInv' /\ f \in FrameType /\ Grown(depth) /\ Len(tree') = a + b
      /\ \A m \in 1..a : tree'[m] = tree[m]
      /\ \A m \in (a + 1)..Len(tree') : m - a \in 1..b /\ tree'[m] = nodes[m - a]
      /\ NestedDeflist => NestedDeflist'
  BY <1>1, <1>3, <1>4, <1>5, PartsBegin
<1> HIDE DEF a, b, depth
<1>7. ASSUME NEW m \in (a + 1)..Len(tree') PROVE m = a + 1 \/ m - a \in 2..b
  <2>1. a \in Nat /\ b \in Nat /\ Len(tree') = a + b
    BY <1>2, <1>3, <1>6, Zenon
  <2> QED BY <2>1
<1>8. tree'[a + 1] = nodes[1]
  <2>1. a + 1 \in (a + 1)..Len(tree') /\ (a + 1) - a = 1
    BY <1>2, <1>3, <1>6
  <2> QED BY <1>6, <2>1
<1>9. a + 2 \in 1..Len(tree') /\ tree'[a + 2] = nodes[2]
  <2>1. a + 2 \in (a + 1)..Len(tree') /\ (a + 2) - a = 2 /\ a + 2 \in 1..Len(tree')
    BY <1>2, <1>3, <1>6
  <2> QED BY <1>6, <2>1
<1>10. ASSUME NEW m \in (a + 1)..Len(tree'), m - a \in 2..b
       PROVE  Excused(tree', stripped', m) \/ Awaits(f, m)
  <2>1. CASE f.within = "deflist"
    BY <1>2, <1>5, <1>10, <2>1 DEF Awaits
  <2>2. CASE f.within # "deflist"
    <3>1. type[l] = "def_note"
      BY <2>2 DEF NoteInNote
    <3>2. lines[l][stripped[l] + 1] = "def_note"
      BY <1>1, <3>1 DEF IInv, MarkersLeft, Markers
    <3>3. a + 2 \in 1..m /\ \A j \in (a + 2)..m : j \in (a + 1)..Len(tree') /\ j - a \in 2..b
      BY <1>2, <1>3, <1>6, <1>10
    <3>4. 2 \in 2..b
      BY <1>3
    <3>5. tree'[a + 2].type = "term" /\ tree'[a + 2].lines = {l}
      BY <1>3, <1>9, <3>4
    <3>6. ASSUME NEW j \in (a + 2)..m PROVE tree'[j].depth = depth + 1
      <4>1. j \in (a + 1)..Len(tree') /\ j - a \in 2..b
        BY <3>3
      <4>2. tree'[j] = nodes[j - a]
        BY <1>6, <4>1, Zenon
      <4>3. nodes[j - a].depth = depth + 1
        BY <1>3, <4>1, Zenon
      <4> QED BY <4>2, <4>3
    <3>7. tree'[a + 2].depth = depth + 1
      BY <1>3, <1>9, <3>4
    <3> QED BY <3>2, <3>3, <3>5, <3>6, <3>7 DEF Excused
  <2> QED BY <2>1, <2>2
<1>11. ASSUME NEW m \in (Len(tree) + 1)..Len(tree')
       PROVE  /\ Untold(tree'[m]) => Excused(tree', stripped', m) \/ Awaits(f, m)
              /\ tree'[m].tokens = "exposed" => tree'[m].type \in Rowed \/ NestedDeflist'
  <2>1. m \in (a + 1)..Len(tree')
    BY DEF a
  <2>2. CASE m = a + 1
    BY <1>3, <1>8, <2>2 DEF Untold, Texts
  <2>3. CASE m - a \in 2..b
    <3>1. tree'[m].tokens = "none"
      BY <1>3, <1>6, <2>1, <2>3
    <3> QED BY <1>10, <2>1, <2>3, <3>1
  <2> QED BY <1>7, <2>1, <2>2, <2>3
<1>12. \A m \in 1..Len(tree) :
           /\ tree'[m].tokens = "exposed" => tree[m].tokens = "exposed" \/ NestedDeflist'
           /\ Awaits(Top, m) => ~Untold(tree'[m])
  BY <1>1, <1>6 DEF Awaits, a
<1>13. FirstTerm(tree', stripped', f, frames', Depth)
  <2>1. f.node + 1 = a + 2 /\ 2 \in 2..b
    BY <1>2, <1>3, <1>5
  <2>2. tree'[a + 2].type = "term" /\ tree'[a + 2].lines = {l}
    BY <1>3, <1>9, <2>1
  <2>3. ASSUME Colon(stripped, l) PROVE \E e \in 1..Depth : frames'[e].kind = "definition"
    <3>1. l >= l
      BY <1>1
    <3>2. PICK d \in 1..Depth : frames[d].kind = "definition"
      BY <1>1, <1>2, <2>3, <3>1 DEF KInv, Claimed
    <3>3. frames'[d].kind = frames[d].kind
      BY <1>2, <1>5, <3>2
    <3> QED BY <3>2, <3>3
  <2>4. Colon(stripped', l) => Colon(stripped, l)
    BY DEF Colon
  <2> QED BY <1>1, <1>9, <2>1, <2>2, <2>3, <2>4 DEF FirstTerm
<1>14. KInv'
  BY <1>1, <1>5, <1>6, <1>11, <1>12, <1>13, GoOnTokens
<1> QED BY <1>6, <1>14

\* A paragraph, which may turn out to be a setext header or the terms of a list.
LEMMA ParaKeepsTree ==
    ASSUME IInv, IInv', FInv, TInv, KInv, block_para
    PROVE  TInv' /\ KInv'
<1>1. /\ type' = type /\ Types /\ frames # <<>> /\ Top.within = "blocks" /\ l <= stop
      /\ l \in 1..N /\ stop \in 1..N /\ N \in Nat /\ l \in l..stop /\ l + 1 \in l..(stop + 1)
  <2>1. type' = type /\ (At({"plain", "html", "setext1", "definition", "comment_stop"})
                         \/ At({"meta"}) \/ At({"def_note"}))
    BY DEF block_para
  <2> QED BY <2>1, AtIs
<1> DEFINE turns(end) == IF end <= stop THEN type[end] ELSE "plain"
           header(end) == turns(end) \in {"setext1", "setext2"}
           terms(end) == [i \in 1..(end - l) |-> Node("term", Top.depth + 1, {l + i - 1}, "none")]
<1>2. PICK end \in Behind(l + 1, accept_para_line) :
          IF turns(end) = "definition"
          THEN /\ tree' = tree \o <<Node("deflist", Top.depth, {}, "none")>> \o terms(end)
               /\ frames' = [frames EXCEPT ![Depth] = [@ EXCEPT
                      !.l = end, !.node = Len(tree) + 1,
                      !.within = IF NoteInNote THEN "raw deflist" ELSE "deflist"]]
               /\ UNCHANGED <<lines, stripped, dropped, allow_meta, is_definition, is_endnote>>
          ELSE Block(IF header(end) THEN "setext" ELSE "para", IF header(end) THEN end ELSE end - 1,
                     IF NoteInNote THEN "none" ELSE Tokenized(l))
  BY DEF block_para
<1>3. end \in (l + 1)..(stop + 1) /\ end \in l..(stop + 1)
  BY <1>1, BehindIs
<1>4. CASE turns(end) = "definition"
  <2> DEFINE x == Node("deflist", Top.depth, {}, "none")
             t == terms(end)
             part == IF NoteInNote THEN "raw deflist" ELSE "deflist"
             f == [Top EXCEPT !.l = end, !.node = Len(tree) + 1, !.within = part]
             nodes == <<x>> \o t
  <2>1. Top \in FrameType /\ Top = frames[Depth] /\ Depth \in 1..Depth /\ DOMAIN frames = 1..Depth
        /\ Top.depth \in Nat /\ l = Top.l /\ stop = Top.stop
    BY <1>1, TopFacts, Zenon DEF FrameType
  <2>2. t \in Seq(TreeNode) /\ Len(t) = end - l
    BY <1>1, <1>3, TermsPlace
  <2>3. /\ \A k \in 1..Len(t) : t[k].depth = Top.depth + 1 /\ t[k].type = "term" /\ t[k].tokens = "none"
        /\ t[1].lines = {l}
    <3>1. 1 \in 1..(end - l) /\ l + 1 - 1 = l
      BY <1>1, <1>3
    <3> QED BY <2>2, <3>1 DEF Node
  <2>4. x.depth = Top.depth /\ x.type = "deflist" /\ x.tokens = "none" /\ x \in TreeNode
    BY <2>1 DEF Node, TreeNode, Nodes, Blocks
  <2>5. /\ f.within = part /\ Opens(f, end, Len(tree) + 1)
    <3>1. frames' = [frames EXCEPT ![Depth] = f]
      BY <1>2, <1>4, <2>1
    <3>2. /\ f.kind = Top.kind /\ f.depth = Top.depth /\ f.within = part /\ f.node = Len(tree) + 1
          /\ f.stop = stop /\ f.l = end
      BY <2>1 DEF FrameType
    <3>3. end >= l
      BY <1>1, <1>3
    <3> QED BY <3>1, <3>2, <3>3 DEF Opens
  <2>6. tree' = tree \o nodes /\ lines' = lines /\ stripped' = stripped
    <3>1. tree' = tree \o <<x>> \o t /\ UNCHANGED <<lines, stripped>> /\ tree \in Seq(TreeNode)
      BY <1>1, <1>2, <1>4 DEF Types
    <3> HIDE DEF x, t
    <3>2. <<x>> \in Seq(TreeNode)
      BY <2>4
    <3> QED BY <2>2, <3>1, <3>2, ConcatAssociative
  <2>7. part \in DeflistParts /\ (part = "deflist" <=> ~NoteInNote)
    BY DEF DeflistParts
  <2> HIDE DEF x, t, f, part
  <2>8. /\ nodes \in Seq(TreeNode \cup {x}) /\ Len(nodes) = Len(t) + 1 /\ nodes[1] = x
        /\ \A k \in 1..Len(t) : nodes[1 + k] = t[k]
    <3>1. x.depth >= Top.depth /\ \A k \in 1..Len(t) : t[k].depth >= Top.depth
      BY <2>1, <2>3, <2>4
    <3> QED BY <2>1, <2>2, <3>1, FirstAndMore
  <2> HIDE DEF nodes
  <2>9. nodes \in Seq(TreeNode)
    <3>1. TreeNode \cup {x} = TreeNode
      BY <2>4
    <3> QED BY <2>8, <3>1
  <2>10. DeflistOf(nodes, end)
    <3>1. end - l \in Nat /\ end - l >= 1
      BY <1>1, <1>3
    <3>2. 1 \in 1..Len(t) /\ 1 + 1 = 2
      BY <2>2, <3>1
    <3>3. nodes[2].lines = {l}
      <4>1. nodes[1 + 1] = t[1]
        BY <2>8, <3>2
      <4> QED BY <2>3, <3>2, <4>1
    <3>4. ASSUME NEW k \in 2..Len(nodes)
          PROVE  nodes[k].depth = Top.depth + 1 /\ nodes[k].type = "term" /\ nodes[k].tokens = "none"
      <4>1. k - 1 \in 1..Len(t) /\ 1 + (k - 1) = k
        BY <2>2, <2>8, <3>1
      <4>2. nodes[1 + (k - 1)] = t[k - 1]
        BY <2>8, <4>1
      <4> QED BY <2>3, <4>1, <4>2
    <3> QED BY <2>2, <2>4, <2>8, <3>3, <3>4 DEF DeflistOf
  <2>11. At(LineTypes)
    BY <1>1 DEF At, Types
  <2>12. f.within \in DeflistParts /\ (f.within = "deflist" <=> ~NoteInNote)
    BY <2>5, <2>7
  <2> QED BY <1>1, <1>3, <2>5, <2>6, <2>9, <2>10, <2>11, <2>12, DeflistBegins
<1>5. CASE turns(end) # "definition"
  <2> DEFINE node == IF header(end) THEN "setext" ELSE "para"
             last == IF header(end) THEN end ELSE end - 1
             tokens == IF NoteInNote THEN "none" ELSE Tokenized(l)
  <2>1. last \in l..stop
    BY <1>1, <1>3
  <2>2. node \in {"para", "setext"} /\ node \in Blocks
    BY DEF Blocks
  <2>3. tokens \in {Tokenized(l), "none"}
    OBVIOUS
  <2>4. Block(node, last, tokens)
    BY <1>2, <1>5
  <2>5. tokens = "none" => lines[l][stripped[l] + 1] = "def_note"
    <3>1. Tokenized(l) # "none"
      BY DEF Tokenized
    <3>2. tokens = "none" => type[l] = "def_note"
      BY <3>1 DEF NoteInNote
    <3> HIDE DEF tokens
    <3> QED BY <1>1, <3>2 DEF IInv, MarkersLeft, Markers
  <2> HIDE DEF node, last, tokens
  <2>6. node # "empty"
    BY <2>2
  <2> QED BY <1>1, <2>1, <2>2, <2>3, <2>4, <2>5, <2>6, BlockKeepsTree
<1> QED BY <1>4, <1>5

\* A table, or what only looks like one.
LEMMA TableKeepsTree ==
    ASSUME IInv, IInv', FInv, TInv, KInv, block_table
    PROVE  TInv' /\ KInv'
<1>1. /\ type' = type /\ Types /\ Types' /\ frames # <<>> /\ Top.within = "blocks" /\ l <= stop
      /\ type[l] \in accept_table_line
      /\ l \in 1..N /\ stop \in 1..N /\ N \in Nat /\ l \in l..stop /\ l \in l..(stop + 1)
  <2>1. type' = type /\ At(accept_table_line)
    BY DEF block_table
  <2> QED BY <2>1, AtIs DEF IInv
<1> DEFINE isHeader(sep) == sep <= stop /\ type[sep] = "separator"
           x == Node("table", Top.depth, {}, "none")
           y(sep) == Node("table_header", Top.depth + 1, l..sep, Rows(l..sep))
<1>2. PICK sep \in Behind(l, {"table"}) :
          IF isHeader(sep) /\ sep < stop /\ type[sep + 1] = "table"
          THEN /\ tree' = tree \o <<x, y(sep)>>
               /\ frames' = [frames EXCEPT ![Depth] = [@ EXCEPT
                      !.l = sep + 1, !.within = "table", !.node = Len(tree) + 2]]
               /\ UNCHANGED <<lines, stripped, dropped, allow_meta, is_definition, is_endnote>>
          ELSE \E end \in IF isHeader(sep) THEN {sep + 1} ELSE Behind(sep, accept_para_line) :
                  Block("para", end - 1, Tokenized(l))
  BY DEF block_table
<1>3. sep \in l..(stop + 1)
  BY <1>1, BehindIs
<1>4. CASE isHeader(sep) /\ sep < stop /\ type[sep + 1] = "table"
  <2> DEFINE z == y(sep)
             f == [Top EXCEPT !.l = sep + 1, !.within = "table", !.node = Len(tree) + 2]
             nodes == <<x, z>>
  <2>1. Top \in FrameType /\ Top = frames[Depth] /\ Depth \in 1..Depth /\ DOMAIN frames = 1..Depth
        /\ Top.depth \in Nat /\ l = Top.l /\ stop = Top.stop
    BY <1>1, TopFacts, Zenon DEF FrameType
  <2>2. x \in TreeNode /\ x.depth = Top.depth /\ x.type = "table" /\ x.tokens = "none"
    BY <2>1 DEF Node, TreeNode, Nodes, Blocks
  <2>3. z \in TreeNode /\ z.depth = Top.depth + 1 /\ z.type = "table_header"
    <3>1. l..sep \subseteq 1..N
      BY <1>1, <1>3, <1>4
    <3> QED BY <2>1, <3>1, TokenizedIs DEF Node, TreeNode, Nodes
  <2>4. f.within = "table" /\ Opens(f, sep + 1, Len(tree) + 2) /\ Whole(f) = (Len(tree) + 2) - 1
    <3>1. frames' = [frames EXCEPT ![Depth] = f]
      BY <1>2, <1>4, <2>1
    <3>2. /\ f.kind = Top.kind /\ f.depth = Top.depth /\ f.within = "table" /\ f.node = Len(tree) + 2
          /\ f.stop = stop /\ f.l = sep + 1
      BY <2>1 DEF FrameType
    <3>3. sep + 1 >= l
      BY <1>1, <1>3
    <3> HIDE DEF f
    <3> QED BY <3>1, <3>2, <3>3 DEF Opens, Whole
  <2>5. UNCHANGED <<lines, type, stripped>> /\ tree' = tree \o nodes
    BY <1>1, <1>2, <1>4
  <2> HIDE DEF f, x, z
  <2>6. nodes \in Seq(TreeNode) /\ Len(nodes) = 2 /\ nodes[1] = x /\ nodes[2] = z
    BY <2>2, <2>3
  <2> HIDE DEF nodes
  <2>7. f.within \notin ListParts /\ f.within \notin DeflistParts /\ f.within # "deflist"
    BY <2>4 DEF ListParts, DeflistParts
  <2>8. WithChildren(nodes)
    <3>1. Suits(x, z, stripped)
      BY <2>2, <2>3 DEF Suits, ParentTypes, Rowed, Items
    <3>2. x.type \in Blocks \ {"empty"}
      BY <2>2 DEF Blocks
    <3>3. \A k \in 2..Len(nodes) : nodes[k] = z
      BY <2>6
    <3> QED BY <2>2, <2>3, <2>6, <3>1, <3>2, <3>3 DEF WithChildren
  <2>9. Whole(f) = Len(tree) + 1 /\ f.node = Len(tree) + 2
    <3>1. Len(tree) \in Nat
      BY <1>1, NodeFacts
    <3>2. (Len(tree) + 2) - 1 = Len(tree) + 1
      BY <3>1
    <3> QED BY <2>4, <3>2 DEF Opens
  <2>10. Len(nodes) >= 2 /\ nodes[1].type = "table" /\ nodes[2].type = "table_header"
    BY <2>2, <2>3, <2>6
  <2>11. /\ TInv' /\ f \in FrameType /\ Grown(Top.depth) /\ \A m \in 1..Len(tree) : tree'[m] = tree[m]
         /\ \A m \in (Len(tree) + 1)..Len(tree') :
                m - Len(tree) \in 1..Len(nodes) /\ tree'[m] = nodes[m - Len(tree)]
         /\ NestedDeflist => NestedDeflist'
    BY <1>1, <2>4, <2>5, <2>6, <2>7, <2>8, <2>9, <2>10, PartsBegin
  <2>12. \A m \in (Len(tree) + 1)..Len(tree') : tree'[m] \in {x, z}
    <3>1. \A k \in 1..Len(nodes) : nodes[k] \in {x, z}
      BY <2>6
    <3> QED BY <2>11, <3>1
  <2>13. \A m \in (Len(tree) + 1)..Len(tree') :
             /\ Untold(tree'[m]) => Excused(tree', stripped', m) \/ Awaits(f, m)
             /\ tree'[m].tokens = "exposed" => tree'[m].type \in Rowed \/ NestedDeflist'
    BY <2>2, <2>3, <2>12 DEF Untold, Texts, Rowed
  <2>14. \A m \in 1..Len(tree) :
             /\ tree'[m].tokens = "exposed" => tree[m].tokens = "exposed" \/ NestedDeflist'
             /\ Awaits(Top, m) => ~Untold(tree'[m])
    BY <1>1, <2>11 DEF Awaits
  <2>15. FirstTerm(tree', stripped', f, frames', Depth)
    BY <2>7 DEF FirstTerm
  <2>16. /\ frames' = [frames EXCEPT ![Depth] = f] /\ f.kind = Top.kind /\ f.stop = stop /\ f.l >= l
         /\ lines' = lines /\ stripped' = stripped
    BY <2>4, <2>5 DEF Opens
  <2> QED BY <1>1, <2>11, <2>13, <2>14, <2>15, <2>16, GoOnTokens
<1>5. CASE ~(isHeader(sep) /\ sep < stop /\ type[sep + 1] = "table")
  <2>1. PICK end \in IF isHeader(sep) THEN {sep + 1} ELSE Behind(sep, accept_para_line) :
            Block("para", end - 1, Tokenized(l))
    BY <1>2, <1>5
  <2>2. end - 1 \in l..stop
    <3>1. sep <= stop => type[sep] # "table"
      BY <1>1, BehindIs
    <3>2. CASE isHeader(sep)
      BY <1>1, <1>3, <2>1, <3>2
    <3>3. CASE ~isHeader(sep)
      <4>1. sep > l
        BY <1>1, <1>3, <3>1, <3>3 DEF accept_table_line
      <4>2. end \in sep..(stop + 1)
        BY <1>1, <1>3, <2>1, <3>3, BehindIs
      <4> QED BY <1>1, <1>3, <4>1, <4>2
    <3> QED BY <3>2, <3>3
  <2>3. "para" \in Blocks /\ "para" # "empty" /\ Tokenized(l) # "none"
    BY DEF Blocks, Tokenized
  <2> QED BY <1>1, <2>1, <2>2, <2>3, BlockKeepsTree
<1> QED BY <1>4, <1>5

\* The header of a table holds other lines.
LEMMA HeaderChanged ==
    ASSUME Types, NEW k \in 1..Len(tree), tree[k].type = "table_header", NEW ids \in SUBSET (1..N)
    PROVE  LET u == [tree EXCEPT ![k].lines = ids]
           IN  /\ u \in Seq(TreeNode) /\ Len(u) = Len(tree)
               /\ \A m \in 1..Len(tree) : /\ Same(tree[m], u[m])
                                          /\ u[m].type = tree[m].type /\ u[m].tokens = tree[m].tokens
<1> DEFINE y == [tree[k] EXCEPT !.lines = ids]
           u == [tree EXCEPT ![k] = y]
<1>1. tree \in Seq(TreeNode) /\ DOMAIN tree = 1..Len(tree) /\ tree[k] \in TreeNode
  BY NodeFacts DEF Types
<1>2. y \in TreeNode /\ y.type = tree[k].type /\ y.depth = tree[k].depth /\ y.tokens = tree[k].tokens
  BY <1>1 DEF TreeNode
<1>3. [tree EXCEPT ![k].lines = ids] = u
  OBVIOUS
<1> HIDE DEF y
<1>4. /\ u \in Seq(TreeNode) /\ Len(u) = Len(tree)
      /\ \A m \in 1..Len(tree) : u[m] = IF m = k THEN y ELSE tree[m]
  BY <1>1, <1>2, ExceptSeq
<1> HIDE DEF u
<1>5. ASSUME NEW m \in 1..Len(tree)
      PROVE  Same(tree[m], u[m]) /\ u[m].type = tree[m].type /\ u[m].tokens = tree[m].tokens
  <2>1. CASE m = k
    BY <1>2, <1>4, <2>1 DEF Same
  <2>2. CASE m # k
    BY <1>4, <2>2 DEF Same
  <2> QED BY <2>1, <2>2
<1> QED BY <1>3, <1>4, <1>5

\* A section of the table, and the empty line behind it
SectionOf(nodes) ==
    /\ Len(nodes) \in {1, 2}
    /\ nodes[1].type = "table_section" /\ nodes[1].depth = Top.depth + 1
    /\ Len(nodes) = 2 => /\ nodes[2].type = "empty" /\ nodes[2].depth = Top.depth /\ nodes[2].tokens = "none"
                         /\ \A i \in nodes[2].lines : i \in l..stop /\ type[i] = "empty"

\* The header of the table changes and a section follows.
LEMMA RowsFollow ==
    ASSUME IInv, IInv', FInv, TInv, KInv, frames # <<>>, Top.within = "table",
           UNCHANGED <<lines, type, stripped>>, NEW u \in Seq(TreeNode), Len(u) = Len(tree),
           \A m \in 1..Len(tree) : /\ Same(tree[m], u[m])
                                   /\ u[m].type = tree[m].type /\ u[m].tokens = tree[m].tokens,
           NEW nodes \in Seq(TreeNode), SectionOf(nodes), tree' = u \o nodes,
           NEW f, NEW next, NEW node, Opens(f, next, node),
           f.within = "blocks" \/ (f.within = "table" /\ node = Top.node /\ Len(nodes) = 1)
    PROVE  TInv' /\ KInv'
<1> DEFINE a == Len(tree)
           b == Len(nodes)
           depth == Top.depth
           k == Top.node
           p == k - 1
<1>1. Types /\ Types'
  BY DEF IInv
<1>2. /\ Top \in FrameType /\ Top = frames[Depth] /\ Depth \in 1..Depth /\ DOMAIN frames = 1..Depth
      /\ depth \in Nat /\ k \in Nat
  BY <1>1, TopFacts, Zenon DEF FrameType
<1>3. /\ depth + 1 \in Nat /\ depth + 1 >= depth /\ depth >= depth
      /\ depth + 1 >= depth + 1 /\ ~(depth >= depth + 1)
  BY <1>2
<1>4. /\ b \in {1, 2} /\ nodes[1].type = "table_section" /\ nodes[1].depth = depth + 1
      /\ b = 2 => /\ nodes[2].type = "empty" /\ nodes[2].depth = depth /\ nodes[2].tokens = "none"
                  /\ \A i \in nodes[2].lines : i \in l..stop /\ type[i] = "empty"
  BY DEF SectionOf
<1>5. /\ p # 0 /\ Under(tree, p, depth + 1) /\ tree[p].type = "table"
      /\ k \in 1..a /\ tree[k].type = "table_header"
  <2>1. Parted(tree, Top) /\ Whole(Top) = p
    BY <1>2 DEF TInv, AllParted, Whole
  <2> QED BY <2>1 DEF Parted
<1>6. a \in Nat /\ p \in 1..a /\ depth + 1 = tree[p].depth + 1 /\ \A j \in (p + 1)..a : tree[j].depth >= depth + 1
  BY <1>1, <1>5, NodeFacts DEF Under
<1>7. /\ f.kind = Top.kind /\ f.depth = depth /\ f.stop = stop /\ f.l >= l /\ f.node = node
      /\ frames' = [frames EXCEPT ![Depth] = f]
  BY DEF Opens
<1> HIDE DEF a, b, depth, k, p
<1>8. \A i \in 1..b : nodes[i].depth >= depth /\ (b = 1 => nodes[i].depth >= depth + 1)
  BY <1>3, <1>4
<1>9. ASSUME NEW d \in Nat, \A i \in 1..b : nodes[i].depth >= d
      PROVE  /\ Grown(d) /\ Len(tree') = a + b
             /\ \A m \in 1..a : tree'[m] = u[m]
             /\ \A i \in 1..b : tree'[a + i] = nodes[i]
  <2>1. \A i \in 1..Len(nodes) : nodes[i].depth >= d
    BY <1>9 DEF b
  <2>2. /\ Grown(d) /\ Len(tree') = Len(tree) + Len(nodes)
        /\ \A m \in 1..Len(tree) : tree'[m] = u[m]
        /\ \A i \in 1..Len(nodes) : tree'[Len(tree) + i] = nodes[i]
    BY <1>1, <2>1, AppendGrows
  <2> QED BY <2>2 DEF a, b
<1>10. /\ Grown(depth) /\ Len(tree') = a + b
       /\ \A m \in 1..a : tree'[m] = u[m]
       /\ \A i \in 1..b : tree'[a + i] = nodes[i]
  BY <1>2, <1>8, <1>9
<1>11. \A m \in 1..a : /\ Same(tree[m], tree'[m])
                       /\ tree'[m].type = tree[m].type /\ tree'[m].tokens = tree[m].tokens
  BY <1>10 DEF a
<1>12. /\ a + 1 \in 1..Len(tree') /\ tree'[a + 1] = nodes[1]
       /\ b = 2 => tree'[a + 2] = nodes[2]
  <2>1. 1 \in 1..b /\ (b = 2 => 2 \in 1..b) /\ a + 1 \in 1..(a + b)
    BY <1>4, <1>6
  <2> QED BY <1>10, <2>1
<1>13. \A m \in (a + 1)..Len(tree') : m = a + 1 \/ (b = 2 /\ m = a + 2)
  BY <1>4, <1>6, <1>10
<1>14. Fits(tree', a + 1, stripped')
  <2>1. p \in 1..((a + 1) - 1) /\ \A j \in (p + 1)..(a + 1) : j = a + 1 \/ (j \in (p + 1)..a /\ j \in 1..a)
    <3>1. a \in Nat /\ p \in 1..a
      BY <1>6
    <3>2. ASSUME NEW j \in (p + 1)..(a + 1), j # a + 1 PROVE j \in (p + 1)..a /\ j \in 1..a
      BY <3>1, <3>2
    <3>3. p \in 1..((a + 1) - 1)
      BY <3>1
    <3> QED BY <3>2, <3>3, Zenon
  <2>2. \A j \in 1..a : tree'[j].depth = tree[j].depth
    BY <1>11 DEF Same
  <2>3. tree'[a + 1].depth = tree'[p].depth + 1 /\ tree'[a + 1].depth = depth + 1
    BY <1>4, <1>6, <1>12, <2>2
  <2>4. \A j \in (p + 1)..(a + 1) : tree'[j].depth >= depth + 1
    BY <1>3, <1>6, <2>1, <2>2, <2>3, Zenon
  <2>5. Above(tree', p, a + 1)
    BY <2>3, <2>4 DEF Above
  <2>6. tree'[p].type = "table" /\ tree'[a + 1].type = "table_section"
    BY <1>4, <1>5, <1>6, <1>11, <1>12
  <2>7. Suits(tree'[p], tree'[a + 1], stripped')
    BY <2>6 DEF Suits, ParentTypes, Rowed, Items
  <2> QED BY <2>1, <2>5, <2>7 DEF Fits
<1>15. ASSUME b = 2 PROVE Fits(tree', a + 2, stripped')
  <2>1. a + 2 \in (Len(tree) + 1)..Len(tree')
    BY <1>6, <1>10, <1>15 DEF a
  <2>2. /\ tree'[a + 2].depth = depth /\ tree'[a + 2].type \in Blocks
        /\ \A i \in tree'[a + 2].lines : i \in l..stop /\ type[i] = "empty"
    BY <1>4, <1>12, <1>15 DEF Blocks
  <2>3. \A m \in 1..Len(tree) : tree'[m].type = tree[m].type
    BY <1>11 DEF a
  <2> QED BY <1>1, <1>2, <1>10, <2>1, <2>2, <2>3, TopStands DEF depth
<1>16. \A m \in (Len(tree) + 1)..Len(tree') : Fits(tree', m, stripped')
  BY <1>13, <1>14, <1>15 DEF a
<1>17. Parted(tree', f)
  <2>1. CASE f.within = "blocks"
    BY <2>1 DEF Parted, ListParts, DeflistParts
  <2>2. CASE f.within = "table" /\ node = Top.node /\ Len(nodes) = 1
    <3>1. Grown(depth + 1)
      BY <1>3, <1>8, <1>9, <2>2 DEF b
    <3>2. Parted(tree, Top)
      BY <1>2 DEF TInv, AllParted
    <3>3. Parted(tree', Top)
      BY <1>2, <1>3, <3>1, <3>2, PartedStays DEF depth
    <3>4. f.within = Top.within /\ f.node = Top.node /\ f.depth = Top.depth
      BY <1>7, <2>2 DEF depth
    <3> QED BY <3>3, <3>4 DEF Parted, Whole
  <2> QED BY <2>1, <2>2
<1>18. f \in FrameType
  BY <1>1, <1>7, TopIsFrame
<1>19. TInv'
  BY <1>1, <1>7, <1>10, <1>16, <1>17, <1>18, GoOnTree DEF depth
<1>20. NestedDeflist => NestedDeflist'
  BY <1>1, <1>2, <1>10, GrownKeeps, NestedKept
<1>21. \A m \in (Len(tree) + 1)..Len(tree') :
           /\ Untold(tree'[m]) => Excused(tree', stripped', m) \/ Awaits(f, m)
           /\ tree'[m].tokens = "exposed" => tree'[m].type \in Rowed \/ NestedDeflist'
  <2>1. \A m \in (a + 1)..Len(tree') : \/ tree'[m].type = "table_section"
                                       \/ tree'[m].type = "empty" /\ tree'[m].tokens = "none"
    BY <1>4, <1>12, <1>13
  <2> QED BY <2>1 DEF a, Untold, Texts, Rowed
<1>22. \A m \in 1..Len(tree) :
           /\ tree'[m].tokens = "exposed" => tree[m].tokens = "exposed" \/ NestedDeflist'
           /\ Awaits(Top, m) => ~Untold(tree'[m])
  BY <1>11 DEF Awaits, a
<1>23. FirstTerm(tree', stripped', f, frames', Depth)
  BY DEF FirstTerm
<1>24. KInv'
  BY <1>1, <1>7, <1>10, <1>18, <1>20, <1>21, <1>22, <1>23, GoOnTokens
<1> QED BY <1>19, <1>24

\* Two nodes, one put behind the other.
LEMMA TwoNodes ==
    ASSUME NEW S, NEW x \in S, NEW z \in S, NEW e, e = <<z>>
    PROVE  LET two == <<x>> \o e
           IN  two \in Seq(S) /\ Len(two) = 2 /\ two[1] = x /\ two[2] = z
OBVIOUS

\* A section of a table, and the header that gets or loses lines.
LEMMA SectionKeepsTree ==
    ASSUME IInv, IInv', FInv, TInv, KInv, block_table_section
    PROVE  TInv' /\ KInv'
<1>1. /\ frames # <<>> /\ Top.within = "table" /\ UNCHANGED <<lines, type, stripped>>
      /\ Types /\ Types' /\ Nested
  BY DEF block_table_section, IInv
<1> DEFINE k == Top.node
           header == tree[k].lines
           empty(end) == end <= stop /\ type[end] = "empty"
           next(end) == IF empty(end) THEN end + 1 ELSE end
           section(end) == Node("table_section", Top.depth + 1, l..(end - 1), Rows(l..(end - 1)))
           more(end) == empty(end) /\ end < stop /\ type[end + 1] \in accept_table_line
<1>2. PICK end \in Behind(l, accept_table_line) :
          IF more(end)
          THEN /\ tree' = Append([tree EXCEPT ![k].lines = @ \cup {end}], section(end))
               /\ frames' = [frames EXCEPT ![Depth].l = next(end)]
               /\ UNCHANGED dropped
          ELSE /\ tree' = [tree EXCEPT ![k].lines = @ \ Vanishing(header)] \o <<section(end)>>
                          \o Empties(end, next(end), Top.depth)
               /\ dropped' = dropped \cup Vanishing(header)
               /\ frames' = [frames EXCEPT ![Depth] = [@ EXCEPT
                      !.l = next(end), !.within = "blocks", !.node = 0]]
  BY DEF block_table_section
<1>3. /\ Top \in FrameType /\ Top = frames[Depth] /\ Depth \in 1..Depth /\ DOMAIN frames = 1..Depth
      /\ Top.depth \in Nat /\ l = Top.l /\ stop = Top.stop
      /\ l \in 1..(N + 1) /\ stop \in 1..N /\ N \in Nat
  BY <1>1, TopFacts, Zenon DEF FrameType
<1>4. l <= stop
  BY <1>1 DEF IInv, InTable
<1>5. end \in l..(stop + 1) /\ end \in Int
  <2>1. l \in l..(stop + 1)
    BY <1>3, <1>4
  <2> QED BY <1>1, <2>1, BehindIs
<1>6. k \in 1..Len(tree) /\ tree[k].type = "table_header" /\ header \in SUBSET (1..N)
  <2>1. Parted(tree, Top)
    BY <1>3 DEF TInv, AllParted
  <2>2. k \in 1..Len(tree) /\ tree[k].type = "table_header"
    BY <1>1, <2>1 DEF Parted
  <2> QED BY <1>1, <2>2, NodeFacts
<1> DEFINE x == section(end)
<1>7. /\ x \in TreeNode /\ x.type = "table_section" /\ x.depth = Top.depth + 1
  <2>1. l..(end - 1) \in SUBSET (1..N)
    BY <1>3, <1>5
  <2>2. Rows(l..(end - 1)) \in {"none", "tokens", "exposed"}
    BY TokenizedIs
  <2> QED BY <1>3, <2>1, <2>2 DEF Node, TreeNode, Nodes
<1>8. next(end) >= l
  BY <1>3, <1>5
<1>9. CASE more(end)
  <2> DEFINE ids == header \cup {end}
             u == [tree EXCEPT ![k].lines = ids]
             f == [Top EXCEPT !.l = next(end)]
  <2>1. tree' = Append(u, x) /\ frames' = [frames EXCEPT ![Depth] = f]
    BY <1>2, <1>3, <1>9
  <2>2. /\ f.kind = Top.kind /\ f.depth = Top.depth /\ f.within = "table" /\ f.stop = stop
        /\ f.l = next(end) /\ f.node = Top.node
    BY <1>1, <1>3 DEF FrameType
  <2>3. ids \in SUBSET (1..N)
    <3>1. end <= stop
      BY <1>9
    <3>2. end \in 1..N
      BY <1>3, <1>5, <3>1
    <3> QED BY <1>6, <3>2, Zenon
  <2> HIDE DEF ids
  <2>4. /\ u \in Seq(TreeNode) /\ Len(u) = Len(tree)
        /\ \A m \in 1..Len(tree) : /\ Same(tree[m], u[m])
                                   /\ u[m].type = tree[m].type /\ u[m].tokens = tree[m].tokens
    BY <1>1, <1>6, <2>3, HeaderChanged
  <2> HIDE DEF u, f, x, next
  <2>5. tree' = u \o <<x>> /\ <<x>> \in Seq(TreeNode) /\ Len(<<x>>) = 1
    BY <1>7, <2>1, <2>4, AppendIsConcat
  <2>6. SectionOf(<<x>>)
    BY <1>7 DEF SectionOf
  <2>7. Opens(f, next(end), Top.node)
    BY <1>8, <2>1, <2>2 DEF Opens
  <2> QED BY <1>1, <2>2, <2>4, <2>5, <2>6, <2>7, RowsFollow
<1>10. CASE ~more(end)
  <2> DEFINE ids == header \ Vanishing(header)
             u == [tree EXCEPT ![k].lines = ids]
             f == [Top EXCEPT !.l = next(end), !.within = "blocks", !.node = 0]
             e == Empties(end, next(end), Top.depth)
             z == Node("empty", Top.depth, end..(next(end) - 1), "none")
             nodes == <<x>> \o e
  <2>1. tree' = u \o <<x>> \o e /\ frames' = [frames EXCEPT ![Depth] = f]
    BY <1>2, <1>3, <1>10
  <2>2. /\ f.kind = Top.kind /\ f.depth = Top.depth /\ f.within = "blocks" /\ f.stop = stop
        /\ f.l = next(end) /\ f.node = 0
    BY <1>3 DEF FrameType
  <2>3. ids \in SUBSET (1..N)
    BY <1>6
  <2> HIDE DEF ids
  <2>4. /\ u \in Seq(TreeNode) /\ Len(u) = Len(tree)
        /\ \A m \in 1..Len(tree) : /\ Same(tree[m], u[m])
                                   /\ u[m].type = tree[m].type /\ u[m].tokens = tree[m].tokens
    BY <1>1, <1>6, <2>3, HeaderChanged
  <2>5. e \in {<<>>, <<z>>} /\ (e = <<z>> => empty(end))
    BY DEF Empties
  <2>6. empty(end) => z.lines = {end} /\ end \in l..stop /\ type[end] = "empty" /\ end \in 1..N
    <3> SUFFICES ASSUME empty(end)
                 PROVE z.lines = {end} /\ end \in l..stop /\ type[end] = "empty" /\ end \in 1..N
      OBVIOUS
    <3>1. next(end) = end + 1
      OBVIOUS
    <3>2. end..((end + 1) - 1) = {end}
      BY <1>5
    <3> QED BY <1>3, <1>5, <3>1, <3>2 DEF Node
  <2>7. empty(end) => z \in TreeNode
    BY <1>3, <2>6 DEF Node, TreeNode, Nodes, Blocks
  <2>8. z.type = "empty" /\ z.depth = Top.depth /\ z.tokens = "none"
    BY DEF Node
  <2> HIDE DEF u, f, x, next, e, z, empty
  <2>9. nodes \in Seq(TreeNode) /\ SectionOf(nodes)
    <3>1. CASE e = <<>>
      <4> DEFINE one == <<x>>
      <4>1. Len(one) = 1 /\ one[1] = x /\ one \in Seq(TreeNode) /\ nodes = one
        BY <1>7, <3>1
      <4> HIDE DEF nodes, one
      <4>2. SectionOf(one)
        BY <1>7, <4>1 DEF SectionOf
      <4> QED BY <4>1, <4>2
    <3>2. CASE e = <<z>>
      <4>1. x \in TreeNode /\ z \in TreeNode
        BY <1>7, <2>5, <2>7, <3>2
      <4> HIDE DEF nodes
      <4>2. nodes \in Seq(TreeNode) /\ Len(nodes) = 2 /\ nodes[1] = x /\ nodes[2] = z
        BY <4>1, <3>2, TwoNodes DEF nodes
      <4>4. \A i \in z.lines : i \in l..stop /\ type[i] = "empty"
        BY <2>5, <2>6, <3>2
      <4> HIDE DEF nodes
      <4> QED BY <1>7, <2>8, <4>2, <4>4 DEF SectionOf
    <3> QED BY <2>5, <3>1, <3>2
  <2>10. tree' = u \o nodes
    <3> DEFINE all == {z} \cup TreeNode
    <3>4. z \in all
      OBVIOUS
    <3> HIDE DEF all
    <3>1. e \in Seq(all)
      <4>1. CASE e = <<>>
        BY <4>1
      <4>2. CASE e = <<z>>
        BY <3>4, <4>2
      <4> QED BY <2>5, <4>1, <4>2
    <3>2. u \in Seq(all) /\ <<x>> \in Seq(all)
      BY <1>7, <2>4 DEF all
    <3> QED BY <2>1, <3>1, <3>2, ConcatAssociative
  <2> HIDE DEF nodes
  <2>11. Opens(f, next(end), 0)
    BY <1>8, <2>1, <2>2 DEF Opens
  <2> QED BY <1>1, <2>2, <2>4, <2>9, <2>10, <2>11, RowsFollow
<1> QED BY <1>9, <1>10

\* The activation that runs closes a list and goes on with blocks.
LEMMA CloseKeepsTree ==
    ASSUME IInv, IInv', FInv, TInv, KInv, frames # <<>>, UNCHANGED <<lines, type, stripped>>,
           frames' = [frames EXCEPT ![Depth] = [@ EXCEPT !.within = "blocks", !.node = 0]],
           Len(tree') = Len(tree),
           \A m \in 1..Len(tree) :
               /\ Same(tree[m], tree'[m])
               /\ tree'[m].tokens = "exposed" => tree[m].tokens = "exposed" \/ NestedDeflist
               /\ Awaits(Top, m) => ~Untold(tree'[m])
    PROVE  TInv' /\ KInv'
<1> DEFINE f == [Top EXCEPT !.within = "blocks", !.node = 0]
<1>1. Types /\ Types'
  BY DEF IInv
<1>2. /\ Top \in FrameType /\ Top = frames[Depth] /\ Depth \in 1..Depth /\ DOMAIN frames = 1..Depth
      /\ Top.depth \in Nat /\ l = Top.l /\ stop = Top.stop /\ l >= l
  <2>1. l \in 1..(N + 1) /\ N \in Nat
    BY <1>1, TopFacts
  <2>2. l >= l
    BY <2>1
  <2> QED BY <1>1, <2>2, TopFacts, Zenon DEF FrameType
<1>3. frames' = [frames EXCEPT ![Depth] = f]
  BY <1>2
<1>4. f.kind = Top.kind /\ f.depth = Top.depth /\ f.within = "blocks" /\ f.stop = stop /\ f.l = l
  BY <1>2 DEF FrameType
<1> HIDE DEF f
<1>5. f \in FrameType /\ f.l >= l
  <2>1. f \in FrameType
    BY <1>1, <1>3, TopIsFrame
  <2> QED BY <1>2, <1>4, <2>1
<1>6. Len(tree) \in Nat /\ \A m \in 1..Len(tree) : tree[m].depth \in Nat
  BY <1>1, NodeFacts
<1>7. Grown(Top.depth)
  <2>1. \A m \in 1..Len(tree) : tree'[m].depth \in Nat
    BY <1>6 DEF Same
  <2>2. \A m : m \notin (Len(tree) + 1)..Len(tree')
    BY <1>6
  <2> QED BY <1>6, <2>1, <2>2 DEF Grown
<1>8. \A m : m \notin (Len(tree) + 1)..Len(tree')
  BY <1>6
<1>9. NestedDeflist => NestedDeflist'
  BY <1>1, <1>2, <1>7, GrownKeeps, NestedKept
<1>10. Parted(tree', f)
  BY <1>4 DEF Parted, ListParts, DeflistParts
<1>11. FirstTerm(tree', stripped', f, frames', Depth)
  BY <1>4 DEF FirstTerm
<1>12. TInv'
  BY <1>3, <1>4, <1>5, <1>7, <1>8, <1>10, GoOnTree
<1>13. KInv'
  BY <1>3, <1>4, <1>5, <1>7, <1>8, <1>9, <1>11, GoOnTokens
<1> QED BY <1>12, <1>13

\* The end of a list, which may become loose.
LEMMA ListEndKeepsTree ==
    ASSUME IInv, IInv', FInv, TInv, KInv, flag_list_loose
    PROVE  TInv' /\ KInv'
<1> DEFINE list == Top.node
           Loosened(m) == CASE m = list -> "list_loose"
                            [] /\ m > list /\ tree[m].type = "item_tight"
                               /\ tree[m].depth = tree[list].depth + 1 -> "item"
                            [] OTHER -> tree[m].type
<1>1. /\ Types /\ frames # <<>> /\ Top.within \in ListParts
      /\ tree' = (IF ~Loose(list) THEN tree
                  ELSE [m \in 1..Len(tree) |-> [tree[m] EXCEPT !.type = Loosened(m)]])
      /\ frames' = [frames EXCEPT ![Depth] = [@ EXCEPT !.within = "blocks", !.node = 0]]
      /\ UNCHANGED <<lines, type, stripped>>
  BY DEF flag_list_loose, Within, IInv, ListParts
<1>2. /\ tree \in Seq(TreeNode) /\ Len(tree) \in Nat /\ DOMAIN tree = 1..Len(tree)
      /\ \A m \in 1..Len(tree) : tree[m] \in TreeNode
  BY <1>1, NodeFacts DEF Types
<1>3. tree[list].type \in Lists
  <2>1. Depth \in DOMAIN frames /\ Top = frames[Depth]
    BY <1>1, TopFacts
  <2>2. Parted(tree, Top)
    BY <2>1 DEF TInv, AllParted
  <2> QED BY <1>1, <2>2 DEF Parted, Whole, ListParts
<1>4. /\ Len(tree') = Len(tree)
      /\ \A m \in 1..Len(tree) : Same(tree[m], tree'[m]) /\ tree'[m].tokens = tree[m].tokens
  <2>1. CASE ~Loose(list)
    BY <1>1, <2>1 DEF Same
  <2>2. CASE Loose(list)
    <3> DEFINE new == [m \in 1..Len(tree) |-> [tree[m] EXCEPT !.type = Loosened(m)]]
    <3>1. tree' = new
      BY <1>1, <2>2
    <3>2. ASSUME NEW m \in 1..Len(tree)
          PROVE  new[m] \in TreeNode /\ Same(tree[m], new[m]) /\ new[m].tokens = tree[m].tokens
      <4>1. tree[m] \in TreeNode
        BY <1>2
      <4>2. /\ Loosened(m) \in Nodes
            /\ \/ Loosened(m) = tree[m].type
               \/ tree[m].type \in Lists /\ Loosened(m) \in Lists
               \/ tree[m].type = "item_tight" /\ Loosened(m) = "item"
        BY <1>3, <4>1 DEF TreeNode, Nodes, Blocks, Items, Lists
      <4>3. new[m] = [tree[m] EXCEPT !.type = Loosened(m)]
        OBVIOUS
      <4> HIDE DEF Loosened, new
      <4> QED BY <4>1, <4>2, <4>3 DEF TreeNode, Same
    <3>3. DOMAIN new = 1..Len(tree) /\ new = [m \in 1..Len(tree) |-> new[m]]
      OBVIOUS
    <3> HIDE DEF new
    <3>4. Len(new) = Len(tree)
      BY <1>2, <3>2, <3>3, MappedOK
    <3> QED BY <3>1, <3>2, <3>4
  <2> QED BY <2>1, <2>2
<1>5. \A m : ~Awaits(Top, m)
  BY <1>1 DEF Awaits, ListParts
<1> QED BY <1>1, <1>4, <1>5, CloseKeepsTree

\* The end of a definition list, where its terms get their tokens.
LEMMA DeflistEndKeepsTree ==
    ASSUME IInv, IInv', FInv, TInv, KInv, mmd_parse_tokens_deflist
    PROVE  TInv' /\ KInv'
<1> DEFINE list == Top.node
           Tokens(m) == IF m = list + 1 THEN Tokenized(First(tree[m].lines)) ELSE "tokens"
           Told(m) == IF ~Late(list, m) THEN tree[m] ELSE [tree[m] EXCEPT !.tokens = Tokens(m)]
<1>1. /\ Types /\ frames # <<>>
      /\ frames' = [frames EXCEPT ![Depth] = [@ EXCEPT !.within = "blocks", !.node = 0]]
      /\ UNCHANGED <<lines, type, stripped>>
  BY DEF mmd_parse_tokens_deflist, Within, IInv
<1>2. /\ Len(tree) \in Nat /\ DOMAIN tree = 1..Len(tree) /\ tree \in Seq(TreeNode)
      /\ \A m \in 1..Len(tree) : tree[m] \in TreeNode
  BY <1>1, NodeFacts DEF Types
<1>3. CASE Top.within = "deflist"
  <2>1. tree' = [m \in 1..Len(tree) |-> Told(m)]
    BY <1>3, Zenon DEF mmd_parse_tokens_deflist
  <2>2. Top = frames[Depth] /\ Depth \in 1..Depth /\ DOMAIN frames = 1..Depth
    BY <1>1, TopFacts
  <2>3. ASSUME Tokenized(First(tree[list + 1].lines)) = "exposed" PROVE NestedDeflist
    <3>1. FirstTerm(tree, stripped, Top, frames, Depth)
      BY <2>2 DEF KInv, FirstTerms
    <3>2. PICK i \in 1..N : /\ tree[list + 1].lines = {i}
                            /\ Colon(stripped, i) => \E e \in 1..Depth : frames[e].kind = "definition"
      BY <1>3, <3>1 DEF FirstTerm
    <3>3. First({i}) = i
      <4>1. First({i}) \in {i}
        BY DEF First
      <4> QED BY <4>1
    <3>4. is_definition = 0 /\ Colon(stripped, i)
      BY <2>3, <3>2, <3>3 DEF Tokenized, Marked, Colon
    <3>5. PICK e \in 1..Depth : frames[e].kind = "definition"
      BY <3>2, <3>4
    <3> QED BY <1>1, <3>4, <3>5, ResetIsNested
  <2> DEFINE new == [m \in 1..Len(tree) |-> Told(m)]
  <2>4. ASSUME NEW m \in 1..Len(tree)
        PROVE  /\ new[m] \in TreeNode /\ Same(tree[m], new[m])
               /\ new[m].tokens = "exposed" => tree[m].tokens = "exposed" \/ NestedDeflist
               /\ Awaits(Top, m) => ~Untold(new[m])
    <3>1. tree[m] \in TreeNode
      BY <1>2
    <3>2. /\ Tokens(m) \in {"tokens", "exposed"}
          /\ Tokens(m) = "exposed" => NestedDeflist
      <4>1. Tokens(m) \in {"tokens", "exposed"}
        BY DEF Tokenized
      <4>2. m = list + 1 => tree[m] = tree[list + 1]
        OBVIOUS
      <4> QED BY <2>3, <4>1, <4>2
    <3>3. new[m] = Told(m)
      OBVIOUS
    <3> HIDE DEF Tokens, new
    <3>4. CASE Late(list, m)
      <4>1. new[m] = [tree[m] EXCEPT !.tokens = Tokens(m)]
        BY <3>3, <3>4
      <4>2. /\ new[m] \in TreeNode /\ new[m].type = tree[m].type /\ new[m].depth = tree[m].depth
            /\ new[m].lines = tree[m].lines /\ new[m].tokens = Tokens(m)
        BY <3>1, <3>2, <4>1 DEF TreeNode
      <4> QED BY <3>2, <4>2 DEF Same, Untold
    <3>5. CASE ~Late(list, m)
      <4>1. new[m] = tree[m]
        BY <3>3, <3>5
      <4>2. Awaits(Top, m) => list < m
        BY DEF Awaits
      <4>3. Top.node \in Nat
        BY <1>1, TopFacts, Zenon DEF FrameType
      <4>4. Awaits(Top, m) => ~Untold(tree[m])
        BY <1>2, <3>5, <4>2, <4>3 DEF Late, Untold
      <4> QED BY <3>1, <4>1, <4>4 DEF Same
    <3> QED BY <3>4, <3>5
  <2>5. DOMAIN new = 1..Len(tree) /\ new = [m \in 1..Len(tree) |-> new[m]] /\ tree' = new
    BY <2>1
  <2> HIDE DEF new
  <2>6. Len(new) = Len(tree)
    BY <1>2, <2>4, <2>5, MappedOK
  <2> QED BY <1>1, <2>4, <2>5, <2>6, CloseKeepsTree
<1>4. CASE Top.within # "deflist"
  <2>1. tree' = tree
    BY <1>4, Zenon DEF mmd_parse_tokens_deflist
  <2>2. \A m : ~Awaits(Top, m)
    BY <1>4 DEF Awaits
  <2>3. \A m \in 1..Len(tree) : Same(tree[m], tree'[m]) /\ tree'[m].tokens = tree[m].tokens
    BY <2>1 DEF Same
  <2> QED BY <1>1, <2>1, <2>2, <2>3, CloseKeepsTree
<1> QED BY <1>3, <1>4

\* What blocks() is called with: the lines l..last, some of which lose a marker
\* and others their type, for a node below the activation that runs
Calls(kind, node, depth, last, next, ids, disabled) ==
    /\ kind \in Kinds /\ last \in l..stop /\ next \in (last + 1)..(stop + 1)
    /\ ids \in SUBSET (l..last) /\ disabled \in SUBSET (l..last) /\ l \in ids
    /\ \A i \in ids : type[i] \in Markers /\ (type[i] = "definition" => kind = "definition")
    /\ depth \in Nat /\ depth + 1 = Inner(Top)
    /\ \/ Top.within = "blocks" /\ node \in {"blockquote", "def_note"}
       \/ Top.within \in ListParts /\ node \in Items
       \/ Top.within \in DeflistParts /\ node = "definition"
    /\ node = "item_tight" => \A i \in (l + 1)..last : type[i] # "empty"
    /\ \A i \in (last + 1)..(next - 1) : type[i] = "empty"

\* What the call does to the lines
Scanned(kind, last) ==
    /\ StripsMore
    /\ \A i \in 1..N : type'[i] = "empty" => type[i] = "empty" \/ stripped'[i] > 0
    /\ stripped'[l] > 0
    /\ \A i \in 1..N : i < l \/ i > last => type'[i] = type[i] /\ stripped'[i] = stripped[i]
    /\ \A i \in 1..N : Colon(stripped', i) => Colon(stripped, i) \/ (kind = "definition" /\ i <= last)

\* The lines are scanned again as the call needs them.
LEMMA CallScans ==
    ASSUME IInv, frames # <<>>, lines' = lines, NEW kind, NEW node, NEW depth, NEW last, NEW next,
           NEW ids, NEW disabled, Calls(kind, node, depth, last, next, ids, disabled), Rescan(ids, disabled)
    PROVE  Scanned(kind, last)
<1>1. Types /\ MarkersLeft /\ l \in 1..(N + 1) /\ stop \in 1..N /\ N \in Nat
  BY TopFacts DEF IInv
<1>2. /\ last \in l..stop /\ ids \in SUBSET (l..last) /\ disabled \in SUBSET (l..last) /\ l \in ids
      /\ \A i \in ids : type[i] \in Markers /\ (type[i] = "definition" => kind = "definition")
  BY DEF Calls
<1>3. \A i \in 1..N : /\ i \in ids => stripped'[i] = stripped[i] + 1
                      /\ i \notin ids => stripped'[i] = stripped[i]
                      /\ i \notin ids => type'[i] = type[i] \/ type'[i] = "plain"
                      /\ i \notin ids /\ i \notin disabled => type'[i] = type[i]
  BY DEF Rescan
<1>4. \A i \in 1..N : stripped[i] \in Nat
  BY <1>1 DEF Types
<1>5. StripsMore
  BY <1>3, <1>4 DEF StripsMore
<1>6. \A i \in 1..N : i \in ids => stripped'[i] > 0
  BY <1>3, <1>4
<1>7. \A i \in 1..N : type'[i] = "empty" => type[i] = "empty" \/ stripped'[i] > 0
  BY <1>3, <1>6
<1>8. l \in 1..N
  BY <1>1, <1>2
<1>9. \A i \in 1..N : i < l \/ i > last => i \notin ids /\ i \notin disabled
  BY <1>1, <1>2
<1>10. ASSUME NEW i \in 1..N, Colon(stripped', i), ~Colon(stripped, i)
       PROVE  kind = "definition" /\ i <= last
  <2>1. i \in ids
    BY <1>3, <1>10 DEF Colon
  <2>2. PICK k \in 1..(stripped[i] + 1) : lines[i][k] = "definition"
    BY <1>3, <1>10, <2>1 DEF Colon
  <2>3. k = stripped[i] + 1
    <3>1. k \notin 1..stripped[i]
      BY <1>10, <2>2 DEF Colon
    <3> QED BY <1>4, <3>1
  <2>4. type[i] = "definition"
    BY <1>1, <1>2, <2>1, <2>2, <2>3 DEF MarkersLeft
  <2> QED BY <1>1, <1>2, <2>1, <2>4
<1> QED BY <1>2, <1>3, <1>5, <1>6, <1>7, <1>8, <1>9, <1>10 DEF Scanned

\* A node that gets children is put behind the others.
LEMMA CallGrows ==
    ASSUME IInv, IInv', TInv, frames # <<>>, lines' = lines, NEW kind, NEW node, NEW depth, NEW last, NEW next,
           NEW ids, NEW disabled, Calls(kind, node, depth, last, next, ids, disabled),
           Scanned(kind, last), NEW x, x = Node(node, depth, {}, "none"), tree' = Append(tree, x)
    PROVE  /\ Grown(depth) /\ Len(tree') = Len(tree) + 1 /\ tree'[Len(tree) + 1] = x
           /\ \A m \in 1..Len(tree) : tree'[m] = tree[m]
           /\ Fits(tree', Len(tree) + 1, stripped')
<1>1. Types /\ Types'
  BY DEF IInv
<1>2. /\ depth \in Nat /\ depth + 1 = Inner(Top)
      /\ \/ Top.within = "blocks" /\ node \in {"blockquote", "def_note"}
         \/ Top.within \in ListParts /\ node \in Items
         \/ Top.within \in DeflistParts /\ node = "definition"
  BY DEF Calls
<1>3. x.depth = depth /\ x.type = node
  BY DEF Node
<1>4. /\ Top = frames[Depth] /\ Depth \in DOMAIN frames /\ Top.depth \in Nat
  BY <1>1, TopFacts, Zenon DEF FrameType
<1>5. Len(tree) \in Nat /\ \A m \in 1..Len(tree) : Same(tree[m], tree[m])
  BY <1>1, NodeFacts DEF Same
<1>6. /\ Grown(depth) /\ Len(tree') = Len(tree) + 1 /\ tree'[Len(tree) + 1] = x
      /\ \A m \in 1..Len(tree) : tree'[m] = tree[m]
  <2> DEFINE all == TreeNode \cup {x}
             one == <<x>>
  <2>1. tree \in Seq(all) /\ x \in all
    BY <1>1 DEF Types
  <2> HIDE DEF all
  <2>2. tree' = tree \o one
    BY <2>1, AppendIsConcat
  <2>3. one \in Seq(all) /\ Len(one) = 1 /\ one[1] = x
    BY <2>1
  <2> HIDE DEF one
  <2>4. \A k \in 1..Len(one) : one[k].depth >= depth
    BY <1>2, <1>3, <2>3
  <2>5. /\ Grown(depth) /\ Len(tree') = Len(tree) + Len(one)
        /\ \A m \in 1..Len(tree) : tree'[m] = tree[m]
        /\ \A k \in 1..Len(one) : tree'[Len(tree) + k] = one[k]
    BY <1>1, <1>2, <1>5, <2>1, <2>2, <2>3, <2>4, AppendGrows
  <2> QED BY <2>3, <2>5
<1>7. PICK p \in 0..Len(tree) :
          /\ Under(tree, p, depth)
          /\ IF p = 0 THEN node \in Blocks
             ELSE \/ tree[p].type \in Containers /\ node \in {"blockquote", "def_note"}
                  \/ tree[p].type \in Lists /\ node \in Items
                  \/ tree[p].type = "deflist" /\ node = "definition"
  <2>1. CASE Top.within = "blocks" /\ node \in {"blockquote", "def_note"}
    <3>1. PICK p \in 0..Len(tree) : Standing(tree, p, Top, l, type, stripped)
      BY <1>4 DEF TInv, AllStand
    <3>2. depth = Top.depth
      BY <1>2, <1>4, <2>1 DEF Inner
    <3>3. Under(tree, p, depth) /\ (p # 0 => tree[p].type \in Containers)
      BY <3>1, <3>2 DEF Standing
    <3>4. node \in Blocks
      BY <2>1 DEF Blocks
    <3> QED BY <2>1, <3>3, <3>4
  <2>2. CASE ~(Top.within = "blocks" /\ node \in {"blockquote", "def_note"})
    <3>1. /\ Top.within # "blocks" /\ Top.within # "table"
          /\ \/ Top.within \in ListParts /\ node \in Items
             \/ Top.within \in DeflistParts /\ node = "definition"
      BY <1>2, <2>2 DEF ListParts, DeflistParts
    <3>2. depth = Top.depth + 1
      BY <1>2, <1>4, <3>1 DEF Inner
    <3>3. Parted(tree, Top) /\ Whole(Top) = Top.node
      BY <1>4, <3>1 DEF TInv, AllParted, Whole
    <3>4. Top.node # 0 /\ Under(tree, Top.node, depth)
      BY <3>1, <3>2, <3>3 DEF Parted
    <3>5. \/ tree[Top.node].type \in Lists /\ node \in Items
          \/ tree[Top.node].type = "deflist" /\ node = "definition"
      BY <3>1, <3>3 DEF Parted
    <3>6. Top.node \in 0..Len(tree)
      BY <1>5, <3>4 DEF Under
    <3> QED BY <3>4, <3>5, <3>6
  <2> QED BY <2>1, <2>2
<1>8. Fits(tree', Len(tree) + 1, stripped')
  <2>1. Len(tree) + 1 \in (Len(tree) + 1)..Len(tree')
    BY <1>5, <1>6
  <2>2. p # 0 => Suits(tree'[p], tree'[Len(tree) + 1], stripped')
    <3> SUFFICES ASSUME p # 0 PROVE Suits(tree'[p], tree'[Len(tree) + 1], stripped')
      OBVIOUS
    <3>1. tree'[p] = tree[p]
      BY <1>5, <1>6
    <3>2. node # "empty" /\ tree'[Len(tree) + 1] = x /\ tree[p].type \in ParentTypes(node)
      BY <1>6, <1>7 DEF Items, ParentTypes, Rowed
    <3> QED BY <1>3, <3>1, <3>2 DEF Suits
  <2>3. p \in Nat /\ tree'[Len(tree) + 1].depth = depth /\ tree'[Len(tree) + 1].type = node
    BY <1>3, <1>5, <1>6
  <2> QED BY <1>2, <1>6, <1>7, <2>1, <2>2, <2>3, NewFits
<1> QED BY <1>6, <1>8

\* The activations when blocks() was called
Called(kind, depth, last, next) ==
    /\ frames' # <<>> /\ Depth' = Depth + 1 /\ DOMAIN frames' = 1..(Depth + 1) /\ l' = l
    /\ \A d \in 1..Depth : d # Depth => frames'[d] = frames[d]
    /\ \A d \in 1..Depth : /\ frames'[d].kind = frames[d].kind /\ frames'[d].depth = frames[d].depth
                           /\ frames'[d].stop = frames[d].stop /\ frames'[d].within = frames[d].within
                           /\ frames'[d].node = frames[d].node
    /\ frames'[Depth].l = next
    /\ LET g == frames'[Depth + 1]
       IN  /\ g.kind = kind /\ g.l = l /\ g.stop = last /\ g.depth = depth + 1
           /\ g.within = "blocks" /\ g.node = 0

\* The activation of the call is put behind the others.
LEMMA CallPushes ==
    ASSUME IInv, frames # <<>>, lines' = lines, NEW kind, NEW node, NEW depth, NEW last, NEW next,
           NEW ids, NEW disabled, Calls(kind, node, depth, last, next, ids, disabled),
           frames' = Append([frames EXCEPT ![Depth].l = next], Frame(kind, l, last, depth + 1))
    PROVE  Called(kind, depth, last, next)
<1> DEFINE f == [Top EXCEPT !.l = next]
           g == Frame(kind, l, last, depth + 1)
<1>1. Types
  BY DEF IInv
<1>2. /\ Top \in FrameType /\ Top = frames[Depth] /\ Depth \in 1..Depth /\ DOMAIN frames = 1..Depth
      /\ l \in 1..(N + 1) /\ stop \in 1..N /\ N \in Nat
  BY <1>1, TopFacts
<1>3. /\ kind \in Kinds /\ last \in 1..N /\ next \in 1..(N + 1) /\ l \in 1..(N + 1)
      /\ depth \in Nat /\ depth + 1 \in Nat
  BY <1>2 DEF Calls
<1>4. /\ f \in FrameType /\ f.l = next /\ f.kind = Top.kind /\ f.depth = Top.depth /\ f.stop = Top.stop
      /\ f.within = Top.within /\ f.node = Top.node
  BY <1>2, <1>3 DEF FrameType
<1>5. /\ g \in FrameType /\ g.kind = kind /\ g.l = l /\ g.stop = last /\ g.depth = depth + 1
      /\ g.within = "blocks" /\ g.node = 0
  BY <1>3 DEF Frame, FrameType, Parts
<1>6. frames' = Append([frames EXCEPT ![Depth] = f], g)
  BY <1>2
<1> HIDE DEF f, g
<1>7. /\ frames' # <<>> /\ Depth' = Depth + 1
      /\ DOMAIN frames' = 1..(Depth + 1) /\ frames'[Depth + 1] = g /\ frames'[Depth] = f
      /\ \A d \in 1..Depth : d # Depth => frames'[d] = frames[d]
      /\ l' = g.l
  BY <1>1, <1>4, <1>5, <1>6, Pushed
<1>8. ASSUME NEW d \in 1..Depth
      PROVE  /\ frames'[d].kind = frames[d].kind /\ frames'[d].depth = frames[d].depth
             /\ frames'[d].stop = frames[d].stop /\ frames'[d].within = frames[d].within
             /\ frames'[d].node = frames[d].node
  <2>1. CASE d = Depth
    BY <1>2, <1>4, <1>7, <2>1
  <2>2. CASE d # Depth
    BY <1>7, <2>2
  <2> QED BY <2>1, <2>2
<1> QED BY <1>4, <1>5, <1>7, <1>8 DEF Called

\* blocks() is called.
LEMMA CallKeepsTInv ==
    ASSUME IInv, IInv', FInv, TInv, frames # <<>>, lines' = lines,
           NEW kind, NEW node, NEW depth, NEW last, NEW next, NEW ids, NEW disabled,
           Calls(kind, node, depth, last, next, ids, disabled), Scanned(kind, last),
           Called(kind, depth, last, next),
           NEW x, x = Node(node, depth, {}, "none"), tree' = Append(tree, x)
    PROVE  TInv'
<1>1. Types /\ Types'
  BY DEF IInv
<1>2. /\ Depth \in Nat /\ Depth \in 1..Depth /\ DOMAIN frames = 1..Depth
      /\ \A d \in 1..Depth : frames[d] \in FrameType
      /\ Top = frames[Depth] /\ Top \in FrameType /\ Top.depth \in Nat
      /\ l \in 1..(N + 1) /\ stop \in 1..N /\ N \in Nat /\ stop = Top.stop
  BY <1>1, TopFacts, Zenon DEF FrameType
<1>3. /\ frames' # <<>> /\ DOMAIN frames' = 1..(Depth + 1) /\ l' = l
      /\ \A d \in 1..Depth : d # Depth => frames'[d] = frames[d]
      /\ \A d \in 1..Depth : /\ frames'[d].depth = frames[d].depth /\ frames'[d].stop = frames[d].stop
                             /\ frames'[d].within = frames[d].within /\ frames'[d].node = frames[d].node
      /\ frames'[Depth].l = next
  BY DEF Called
<1>4. /\ frames'[Depth + 1].stop = last /\ frames'[Depth + 1].depth = depth + 1
      /\ frames'[Depth + 1].within = "blocks"
  BY DEF Called
<1>5. /\ last \in l..stop /\ next \in (last + 1)..(stop + 1) /\ depth \in Nat /\ depth + 1 = Inner(Top)
      /\ node = "item_tight" => \A i \in (l + 1)..last : type[i] # "empty"
      /\ \A i \in (last + 1)..(next - 1) : type[i] = "empty"
  BY DEF Calls
<1>6. /\ StripsMore
      /\ \A i \in 1..N : type'[i] = "empty" => type[i] = "empty" \/ stripped'[i] > 0
      /\ stripped'[l] > 0
      /\ \A i \in 1..N : i < l \/ i > last => type'[i] = type[i]
  BY DEF Scanned
<1>7. /\ Grown(depth) /\ Len(tree') = Len(tree) + 1 /\ tree'[Len(tree) + 1] = x
      /\ Fits(tree', Len(tree) + 1, stripped')
  BY CallGrows
<1>8. Len(tree) \in Nat
  BY <1>1, NodeFacts
<1>9. depth >= Top.depth /\ (Top.within # "blocks" => depth = Top.depth + 1)
  <2>1. Top.within = "blocks" => Inner(Top) = Top.depth + 1
    BY DEF Inner
  <2>2. Top.within # "blocks" => Inner(Top) = Top.depth + 2
    BY DEF Inner
  <2>3. depth + 1 = Inner(Top) /\ depth \in Nat /\ Top.depth \in Nat
    BY <1>2, <1>5
  <2> QED BY <2>1, <2>2, <2>3
<1>10. \A d \in 1..Depth : frames[d].depth \in Nat /\ frames[d].depth <= Top.depth
  <2>1. \A d \in 1..Depth : frames[d].depth \in Nat
    BY <1>2 DEF FrameType
  <2>2. ASSUME NEW d \in 1..Depth, d # Depth PROVE frames[d].depth < Top.depth
    BY <1>2, <2>2 DEF FInv, InnerIsDeeper
  <2> QED BY <1>2, <2>1, <2>2
<1>11. \A d \in 1..(Depth + 1) : d \in 1..Depth \/ d = Depth + 1
  BY <1>2
<1>12. Fitting'
  <2>1. ASSUME NEW m \in 1..Len(tree') PROVE Fits(tree', m, stripped')
    <3>1. m \in 1..Len(tree) \/ m = Len(tree) + 1
      BY <1>7, <1>8
    <3>2. CASE m \in 1..Len(tree)
      BY <1>1, <1>6, <1>7, <3>2, FitsStays DEF TInv, Fitting
    <3> QED BY <1>7, <3>1, <3>2
  <2> QED BY <2>1 DEF Fitting
<1>13. AllStand'
  <2>1. ASSUME NEW d \in 1..Depth
        PROVE  \E p \in 0..Len(tree') : Standing(tree', p, frames'[d], l, type', stripped')
    <3>1. PICK p \in 0..Len(tree) : Standing(tree, p, frames[d], l, type, stripped)
      BY <1>2 DEF TInv, AllStand
    <3>2. frames[d].stop \in 1..N
      BY <1>2 DEF FrameType
    <3>3. \A i \in l..frames[d].stop : type'[i] = "empty" => type[i] = "empty" \/ stripped'[i] > 0
      <4>1. \A a, b : a \in 1..(N + 1) /\ b \in 1..N => \A i \in a..b : i \in 1..N
        BY <1>2
      <4>2. \A i \in l..frames[d].stop : i \in 1..N
        BY <1>2, <3>2, <4>1, Zenon
      <4> QED BY <1>6, <4>2, Zenon
    <3>4. frames[d].depth <= depth /\ l <= l
      <4>1. /\ frames[d].depth \in Nat /\ frames[d].depth <= Top.depth
            /\ Top.depth \in Nat /\ depth \in Nat /\ depth >= Top.depth /\ l \in 1..(N + 1)
        BY <1>2, <1>5, <1>9, <1>10, Zenon
      <4> QED BY <4>1
    <3>5. p \in 0..Len(tree') /\ Standing(tree', p, frames[d], l, type', stripped')
      BY <1>2, <1>5, <1>6, <1>7, <3>1, <3>3, <3>4, StandingStays
    <3>6. frames'[d].depth = frames[d].depth /\ frames'[d].stop = frames[d].stop
      BY <1>3
    <3> QED BY <3>5, <3>6 DEF Standing
  <2>2. Standing(tree', Len(tree) + 1, frames'[Depth + 1], l, type', stripped')
    <3>1. x.depth = depth /\ x.type = node
      BY DEF Node
    <3>2. Under(tree', Len(tree) + 1, depth + 1)
      <4>1. Len(tree) + 1 # 0 /\ Len(tree) + 1 \in 1..Len(tree')
            /\ \A k : k \notin ((Len(tree) + 1) + 1)..Len(tree')
        BY <1>7, <1>8
      <4> QED BY <1>7, <3>1, <4>1 DEF Under
    <3>3. node \in Containers
      BY DEF Calls, Containers, Items
    <3>4. ASSUME node = "item_tight", NEW i \in l..last, type'[i] = "empty" PROVE stripped'[i] > 0
      <4>1. i \in 1..N
        BY <1>2, <1>5
      <4>2. i = l \/ i \in (l + 1)..last
        BY <1>2, <1>5
      <4> QED BY <1>5, <1>6, <3>4, <4>1, <4>2
    <3> QED BY <1>4, <1>7, <3>1, <3>2, <3>3, <3>4 DEF Standing
  <2>3. Len(tree) + 1 \in 0..Len(tree')
    BY <1>7, <1>8
  <2>4. \A d \in 1..(Depth + 1) : \E p \in 0..Len(tree') : Standing(tree', p, frames'[d], l, type', stripped')
    BY <1>11, <2>1, <2>2, <2>3
  <2> QED BY <1>3, <2>4 DEF AllStand
<1>14. AllParted'
  <2>1. ASSUME NEW d \in 1..Depth PROVE Parted(tree', frames[d])
    <3>1. frames[d].within # "blocks" => frames[d].depth + 1 <= depth
      <4>1. CASE d = Depth
        BY <1>2, <1>5, <1>9, <4>1
      <4>2. CASE d # Depth
        <5> DEFINE e == d + 1
        <5>1. e \in 1..Depth /\ e > 1 /\ e - 1 = d
          BY <1>2, <4>2
        <5> HIDE DEF e
        <5>2. frames[e].depth = Inner(frames[d]) /\ frames[e].depth <= Top.depth
          BY <1>2, <1>10, <5>1 DEF TInv, Inside
        <5>3. frames[d].depth \in Nat
          BY <1>10
        <5> QED BY <1>2, <1>5, <1>9, <5>2, <5>3 DEF Inner
      <4> QED BY <4>1, <4>2
    <3>2. Parted(tree, frames[d]) /\ frames[d] \in FrameType
      BY <1>2 DEF TInv, AllParted
    <3> QED BY <1>5, <1>7, <3>1, <3>2, PartedStays
  <2>2. ASSUME NEW d \in 1..Depth PROVE Parted(tree', frames'[d])
    <3>1. /\ frames'[d].depth = frames[d].depth /\ frames'[d].within = frames[d].within
          /\ frames'[d].node = frames[d].node
      BY <1>3
    <3> QED BY <2>1, <3>1 DEF Parted, Whole
  <2>3. Parted(tree', frames'[Depth + 1])
    BY <1>4 DEF Parted, ListParts, DeflistParts
  <2>4. \A d \in 1..(Depth + 1) : Parted(tree', frames'[d])
    BY <1>11, <2>2, <2>3
  <2> QED BY <1>3, <2>4 DEF AllParted
<1>15. Inside'
  <2>1. \A d, e \in 1..Depth : d <= e => frames[e].stop <= frames[d].stop
    BY <1>2 DEF TInv, Inside
  <2>2. \A d \in 1..Depth : last <= frames[d].stop /\ frames[d].stop \in 1..N
    <3> SUFFICES ASSUME NEW d \in 1..Depth PROVE last <= frames[d].stop /\ frames[d].stop \in 1..N
      OBVIOUS
    <3>1. d <= Depth
      BY <1>2
    <3>2. Top.stop <= frames[d].stop
      BY <1>2, <2>1, <3>1
    <3>3. frames[d].stop \in 1..N
      BY <1>2 DEF FrameType
    <3> QED BY <1>2, <1>5, <3>2, <3>3
  <2>3. ASSUME NEW d \in 1..Depth, d > 1
        PROVE  /\ frames'[d].depth = Inner(frames'[d - 1])
               /\ \A i \in (frames'[d].stop + 1)..(frames'[d - 1].l - 1) : type'[i] = "empty"
    <3>1. d - 1 \in 1..Depth /\ d - 1 # Depth
      BY <1>2, <2>3
    <3>2. frames'[d - 1] = frames[d - 1]
      BY <1>3, <3>1
    <3>3. frames[d].depth = Inner(frames[d - 1])
      BY <1>2, <2>3 DEF TInv, Inside
    <3>4. ASSUME NEW i \in (frames[d].stop + 1)..(frames[d - 1].l - 1) PROVE type'[i] = "empty"
      <4>1. type[i] = "empty"
        BY <1>2, <2>3 DEF TInv, Inside
      <4>2. i \in 1..N /\ i > last
        <5>1. frames[d].stop \in 1..N /\ frames[d - 1].l \in 1..(N + 1) /\ last <= frames[d].stop
          BY <1>2, <2>2, <3>1 DEF FrameType
        <5>2. last \in Int
          BY <1>2, <1>5
        <5>3. \A a, b : a \in 1..N /\ b \in 1..(N + 1) /\ last <= a
                        => \A j \in (a + 1)..(b - 1) : j \in 1..N /\ j > last
          BY <1>2, <5>2
        <5> QED BY <5>1, <5>3, Zenon
      <4> QED BY <1>6, <4>1, <4>2
    <3> QED BY <1>3, <3>2, <3>3, <3>4
  <2>4. /\ frames'[Depth + 1].depth = Inner(frames'[Depth])
        /\ \A i \in (frames'[Depth + 1].stop + 1)..(frames'[Depth].l - 1) : type'[i] = "empty"
    <3>1. Inner(frames'[Depth]) = Inner(Top)
      BY <1>2, <1>3 DEF Inner
    <3>2. ASSUME NEW i \in (last + 1)..(next - 1) PROVE type'[i] = "empty"
      <4>1. i \in 1..N /\ i > last
        BY <1>2, <1>5
      <4> QED BY <1>5, <1>6, <4>1
    <3> QED BY <1>3, <1>4, <1>5, <3>1, <3>2
  <2>5. ASSUME NEW d \in 1..(Depth + 1), d > 1
        PROVE  /\ frames'[d].depth = Inner(frames'[d - 1])
               /\ \A i \in (frames'[d].stop + 1)..(frames'[d - 1].l - 1) : type'[i] = "empty"
    <3>1. CASE d \in 1..Depth
      BY <2>3, <2>5, <3>1
    <3>2. CASE d = Depth + 1
      <4>1. d - 1 = Depth
        BY <1>2, <3>2
      <4> QED BY <2>4, <3>2, <4>1
    <3> QED BY <1>11, <3>1, <3>2
  <2>6. ASSUME NEW d \in 1..(Depth + 1), NEW e \in 1..(Depth + 1), d <= e
        PROVE  frames'[e].stop <= frames'[d].stop
    <3>1. CASE e \in 1..Depth
      <4>1. d \in 1..Depth
        BY <1>2, <2>6, <3>1
      <4> QED BY <1>3, <2>1, <2>6, <3>1, <4>1
    <3>2. CASE e = Depth + 1 /\ d \in 1..Depth
      BY <1>3, <1>4, <2>2, <3>2
    <3>3. CASE e = Depth + 1 /\ d = Depth + 1
      <4>1. last <= last
        BY <1>2, <1>5
      <4> QED BY <1>4, <3>3, <4>1
    <3> QED BY <1>11, <3>1, <3>2, <3>3
  <2>7. ASSUME NEW d \in 1..(Depth + 1), d = 1 PROVE frames'[d].depth = 0
    <3>1. d \in 1..Depth
      BY <1>2, <2>7
    <3> QED BY <1>2, <1>3, <2>7, <3>1 DEF TInv, Inside
  <2> QED BY <1>3, <2>5, <2>6, <2>7 DEF Inside
<1> QED BY <1>12, <1>13, <1>14, <1>15 DEF TInv

\* What a call does to the texts and to the colons
LEMMA CallKeepsKInv ==
    ASSUME IInv, IInv', TInv, KInv, frames # <<>>, lines' = lines,
           NEW kind, NEW node, NEW depth, NEW last, NEW next, NEW ids, NEW disabled,
           Calls(kind, node, depth, last, next, ids, disabled), Scanned(kind, last),
           Called(kind, depth, last, next),
           NEW x, x = Node(node, depth, {}, "none"), tree' = Append(tree, x)
    PROVE  KInv'
<1>1. Types /\ Types'
  BY DEF IInv
<1>2. /\ Depth \in Nat /\ Depth \in 1..Depth /\ DOMAIN frames = 1..Depth
      /\ l \in 1..(N + 1) /\ stop \in 1..N /\ N \in Nat /\ N' = N
  BY <1>1, TopFacts DEF N
<1>3. /\ frames' # <<>> /\ DOMAIN frames' = 1..(Depth + 1) /\ l' = l
      /\ \A d \in 1..Depth : /\ frames'[d].kind = frames[d].kind /\ frames'[d].stop = frames[d].stop
                             /\ frames'[d].within = frames[d].within /\ frames'[d].node = frames[d].node
  BY DEF Called
<1>4. /\ frames'[Depth + 1].kind = kind /\ frames'[Depth + 1].stop = last
      /\ frames'[Depth + 1].within = "blocks"
  BY DEF Called
<1>5. /\ Grown(depth) /\ Len(tree') = Len(tree) + 1 /\ tree'[Len(tree) + 1] = x
      /\ \A m \in 1..Len(tree) : tree'[m] = tree[m]
  BY CallGrows
<1>6. Len(tree) \in Nat /\ depth \in Nat
  BY <1>1, NodeFacts DEF Calls
<1>7. x.tokens = "none" /\ x.lines = {}
  BY DEF Node
<1>8. \A m \in 1..Len(tree') : m \in 1..Len(tree) \/ m = Len(tree) + 1
  BY <1>5, <1>6
<1>9. \A d \in 1..(Depth + 1) : d \in 1..Depth \/ d = Depth + 1
  BY <1>2
<1>10. \A d \in 1..Depth : d \in 1..(Depth + 1)
  BY <1>2
<1>11. Depth + 1 \in 1..(Depth + 1)
  BY <1>2
<1>12. Settled
  <2>1. ASSUME NEW m \in 1..Len(tree), NEW i \in tree[m].lines PROVE stripped'[i] = stripped[i]
    BY HeldIsRead DEF Scanned
  <2> QED BY <2>1 DEF Settled
<1>13. NestedDeflist => NestedDeflist'
  BY <1>1, <1>5, <1>6, GrownKeeps, NestedKept
<1>14. AllTold'
  <2>1. ASSUME NEW m \in 1..Len(tree'), Untold(tree'[m])
        PROVE  Excused(tree', stripped', m) \/ \E d \in 1..(Depth + 1) : Awaits(frames'[d], m)
    <3>1. m \in 1..Len(tree)
      BY <1>5, <1>7, <1>8, <2>1 DEF Untold
    <3>2. Untold(tree[m])
      BY <1>5, <2>1, <3>1
    <3>3. CASE Excused(tree, stripped, m)
      BY <1>5, <1>12, <3>1, <3>3, ExcusedStays
    <3>4. CASE \E d \in DOMAIN frames : Awaits(frames[d], m)
      <4>1. PICK d \in 1..Depth : Awaits(frames[d], m)
        BY <1>2, <3>4
      <4>2. Awaits(frames'[d], m)
        BY <1>3, <4>1 DEF Awaits
      <4> QED BY <1>10, <4>2
    <3> QED BY <3>1, <3>2, <3>3, <3>4 DEF KInv, AllTold
  <2>2. \A m : Excused(tree, stripped, m)' <=> Excused(tree', stripped', m)
    BY DEF Excused
  <2>3. \A d, m : Awaits(frames[d], m)' <=> Awaits(frames'[d], m)
    BY DEF Awaits
  <2>4. \A m : Untold(tree[m])' <=> Untold(tree'[m])
    BY DEF Untold
  <2> QED BY <1>3, <2>1, <2>2, <2>3, <2>4 DEF AllTold
<1>15. AllHidden'
  <2>1. ASSUME NEW m \in 1..Len(tree'), tree'[m].tokens = "exposed"
        PROVE  tree'[m].type \in Rowed \/ NestedDeflist'
    <3>1. m \in 1..Len(tree) /\ tree'[m] = tree[m]
      BY <1>5, <1>7, <1>8, <2>1
    <3>2. tree[m].tokens = "exposed" => tree[m].type \in Rowed \/ NestedDeflist
      BY <3>1 DEF KInv, AllHidden
    <3> QED BY <1>13, <2>1, <3>1, <3>2
  <2> QED BY <2>1 DEF AllHidden
<1>16. Claimed'
  <2>1. ASSUME NEW i \in 1..N, i >= l, Colon(stripped', i)
        PROVE  \E d \in 1..(Depth + 1) : frames'[d].kind = "definition" /\ i <= frames'[d].stop
    <3>1. CASE Colon(stripped, i)
      <4>1. PICK d \in 1..Depth : frames[d].kind = "definition" /\ i <= frames[d].stop
        BY <1>2, <2>1, <3>1 DEF KInv, Claimed
      <4> QED BY <1>3, <1>10, <4>1
    <3>2. CASE kind = "definition" /\ i <= last
      BY <1>4, <1>11, <3>2
    <3> QED BY <2>1, <3>1, <3>2 DEF Scanned
  <2>2. \A i : Colon(stripped, i)' <=> Colon(stripped', i)
    BY DEF Colon
  <2> QED BY <1>2, <1>3, <2>1, <2>2 DEF Claimed
<1>17. FirstTerms'
  <2>1. ASSUME NEW d \in 1..(Depth + 1) PROVE FirstTerm(tree', stripped', frames'[d], frames', d)
    <3>1. CASE d = Depth + 1
      BY <1>4, <3>1 DEF FirstTerm
    <3>2. CASE d \in 1..Depth
      <4>1. FirstTerm(tree, stripped, frames[d], frames, d)
        BY <1>2, <3>2 DEF KInv, FirstTerms
      <4>2. \A e \in 1..d : frames'[e].kind = frames[e].kind
        BY <1>2, <1>3, <3>2
      <4>3. FirstTerm(tree', stripped', frames[d], frames', d)
        BY <1>5, <1>12, <4>1, <4>2, FirstTermStays
      <4>4. frames'[d].within = frames[d].within /\ frames'[d].node = frames[d].node
        BY <1>3, <3>2
      <4> QED BY <4>3, <4>4 DEF FirstTerm
    <3> QED BY <1>9, <3>1, <3>2
  <2>2. \A d : FirstTerm(tree, stripped, frames[d], frames, d)'
               <=> FirstTerm(tree', stripped', frames'[d], frames', d)
    BY <1>2 DEF FirstTerm, Colon
  <2> QED BY <1>3, <2>1, <2>2 DEF FirstTerms
<1> QED BY <1>14, <1>15, <1>16, <1>17 DEF KInv

\* So it keeps both.
LEMMA EnterKeepsTree ==
    ASSUME IInv, IInv', FInv, TInv, KInv, frames # <<>>,
           NEW kind, NEW node, NEW depth, NEW last, NEW next, NEW ids, NEW disabled,
           Calls(kind, node, depth, last, next, ids, disabled),
           Enter(kind, node, depth, last, next), Rescan(ids, disabled)
    PROVE  TInv' /\ KInv'
<1> DEFINE x == Node(node, depth, {}, "none")
<1>1. /\ tree' = Append(tree, x) /\ lines' = lines
      /\ frames' = Append([frames EXCEPT ![Depth].l = next], Frame(kind, l, last, depth + 1))
  BY DEF Enter
<1> HIDE DEF x
<1>2. Scanned(kind, last)
  BY <1>1, CallScans
<1>3. Called(kind, depth, last, next)
  BY <1>1, CallPushes
<1>4. x = Node(node, depth, {}, "none")
  BY DEF x
<1>5. TInv'
  BY <1>1, <1>2, <1>3, <1>4, CallKeepsTInv
<1>6. KInv'
  BY <1>1, <1>2, <1>3, <1>4, CallKeepsKInv
<1> QED BY <1>5, <1>6

\* A quote.
LEMMA QuoteKeepsTree ==
    ASSUME IInv, IInv', FInv, TInv, KInv, block_blockquote
    PROVE  TInv' /\ KInv'
<1>1. At({"blockquote"})
  BY DEF block_blockquote
<1>2. /\ Types /\ frames # <<>> /\ Top.within = "blocks" /\ l <= stop /\ type[l] = "blockquote"
      /\ l \in 1..N /\ stop \in 1..N /\ N \in Nat /\ l \in l..(stop + 1)
  BY <1>1, AtIs
<1>3. PICK end \in Behind(l, accept_blockquote_line) :
          /\ Enter("quote", "blockquote", Top.depth, end - 1, end)
          /\ recursive_blockquote_parse(end - 1)
  BY DEF block_blockquote
<1> DEFINE ids == {i \in l..(end - 1) : type[i] = "blockquote"}
           disabled == {i \in l..(end - 1) : type[i] = "setext1"}
<1>4. end \in (l + 1)..(stop + 1)
  <2>1. end \in l..(stop + 1) /\ end > l
    BY <1>2, BehindIs DEF accept_blockquote_line
  <2> QED BY <1>2, <2>1
<1>5. end - 1 \in l..stop /\ end \in ((end - 1) + 1)..(stop + 1) /\ l \in l..(end - 1)
      /\ \A i : i \notin ((end - 1) + 1)..(end - 1)
  BY <1>2, <1>4
<1>6. /\ ids \in SUBSET (l..(end - 1)) /\ disabled \in SUBSET (l..(end - 1)) /\ l \in ids
      /\ \A i \in ids : type[i] = "blockquote"
  BY <1>2, <1>5
<1>7. Rescan(ids, disabled)
  BY <1>3 DEF recursive_blockquote_parse
<1> HIDE DEF ids, disabled
<1>8. Top.depth \in Nat /\ Top.depth + 1 = Inner(Top)
  BY <1>2, TopFacts DEF FrameType, Inner
<1>9. "quote" \in Kinds /\ "blockquote" \in Markers
  BY DEF Kinds, Markers
<1>10. Calls("quote", "blockquote", Top.depth, end - 1, end, ids, disabled)
  BY <1>2, <1>5, <1>6, <1>8, <1>9 DEF Calls
<1>11. Enter("quote", "blockquote", Top.depth, end - 1, end)
  BY <1>3
<1> QED BY <1>2, <1>7, <1>10, <1>11, EnterKeepsTree

\* What is at the margin of an item, a definition or a note, what is indented in
\* it, and the empty lines behind it.
LEMMA ExtentsHold ==
    ASSUME Types, frames # <<>>, l <= stop, NEW types, NEW x \in Extents(types), type[l] \in Markers
    PROVE  LET ids == {i \in l..(x.end - 1) : i = l \/ type[i] = "indented"}
               disabled == {i \in l..(x.end - 1) : type[i] \in {"setext1", "setext2"}}
           IN  /\ x.end - 1 \in l..stop /\ x.rest \in ((x.end - 1) + 1)..(stop + 1)
               /\ x.end \in l..(stop + 1) /\ x.rest \in Behind(x.end, {"empty"})
               /\ ids \in SUBSET (l..(x.end - 1)) /\ disabled \in SUBSET (l..(x.end - 1)) /\ l \in ids
               /\ \A i \in ids : type[i] \in Markers /\ (i = l \/ type[i] # "definition")
               /\ \A i \in ((x.end - 1) + 1)..(x.rest - 1) : type[i] = "empty"
               /\ \A i \in (l + 1)..(x.end - 1) : type[i] \in types \/ i \in x.head..(x.end - 1)
<1>1. l \in 1..(N + 1) /\ stop \in 1..N /\ N \in Nat
  BY TopFacts
<1>2. /\ x.head \in (l + 1)..(stop + 1) /\ x.end \in (l + 1)..(stop + 1) /\ x.rest \in (l + 1)..(stop + 1)
      /\ x.rest \in Behind(x.end, {"empty"}) /\ x.head \in Behind(l + 1, types)
  BY DEF Extents
<1>3. /\ x.rest \in x.end..(stop + 1) /\ \A i \in x.end..(x.rest - 1) : type[i] = "empty"
      /\ \A i \in (l + 1)..(x.head - 1) : type[i] \in types
  BY <1>2 DEF Behind
<1>4. /\ x.end - 1 \in l..stop /\ x.rest \in ((x.end - 1) + 1)..(stop + 1)
      /\ x.end \in l..(stop + 1) /\ l \in l..(x.end - 1)
      /\ \A i \in ((x.end - 1) + 1)..(x.rest - 1) : i \in x.end..(x.rest - 1)
      /\ \A i \in (l + 1)..(x.end - 1) : i \in (l + 1)..(x.head - 1) \/ i \in x.head..(x.end - 1)
  BY <1>1, <1>2, <1>3
<1>5. "indented" \in Markers
  BY DEF Markers
<1> QED BY <1>2, <1>3, <1>4, <1>5

\* An item of a list.
LEMMA ItemKeepsTree ==
    ASSUME IInv, IInv', FInv, TInv, KInv, block_list_item
    PROVE  TInv' /\ KInv'
<1>1. Types /\ frames # <<>> /\ Top.within \in {"bullet", "enum"} /\ Goes({Top.within})
  BY DEF block_list_item, Within, IInv
<1>2. l <= stop /\ type[l] \in Markers /\ type[l] # "definition"
  BY <1>1 DEF Goes, Markers
<1>3. PICK x \in Extents(accept_chunk_line) :
          /\ Enter("item", IF \E k \in x.head..(x.end - 1) : type[k] = "empty" THEN "item" ELSE "item_tight",
                   Top.depth + 1, x.end - 1, x.rest)
          /\ recursive_indent_parse(x.end - 1)
  BY DEF block_list_item
<1> DEFINE ids == {i \in l..(x.end - 1) : i = l \/ type[i] = "indented"}
           disabled == {i \in l..(x.end - 1) : type[i] \in {"setext1", "setext2"}}
           node == IF \E k \in x.head..(x.end - 1) : type[k] = "empty" THEN "item" ELSE "item_tight"
           last == x.end - 1
<1>4. /\ last \in l..stop /\ x.rest \in (last + 1)..(stop + 1)
      /\ ids \in SUBSET (l..last) /\ disabled \in SUBSET (l..last) /\ l \in ids
      /\ \A i \in ids : type[i] \in Markers /\ (i = l \/ type[i] # "definition")
      /\ \A i \in (last + 1)..(x.rest - 1) : type[i] = "empty"
      /\ \A i \in (l + 1)..last : type[i] \in accept_chunk_line \/ i \in x.head..last
  BY <1>1, <1>2, ExtentsHold
<1>5. Rescan(ids, disabled)
  BY <1>3 DEF recursive_indent_parse
<1>6. Enter("item", node, Top.depth + 1, last, x.rest)
  BY <1>3
<1>7. node \in Items /\ (node = "item_tight" => \A k \in x.head..last : type[k] # "empty")
  BY DEF Items
<1>8. "empty" \notin accept_chunk_line
  BY DEF accept_chunk_line
<1> HIDE DEF ids, disabled, node, last
<1>9. node = "item_tight" => \A i \in (l + 1)..last : type[i] # "empty"
  BY <1>4, <1>7, <1>8
<1>10. "item" \in Kinds /\ Top.depth + 1 \in Nat /\ (Top.depth + 1) + 1 = Inner(Top)
  <2>1. Top.depth \in Nat
    BY <1>1, TopFacts DEF FrameType
  <2> QED BY <1>1, <2>1 DEF Kinds, Inner
<1>11. Top.within \in ListParts
  BY <1>1 DEF ListParts
<1>12. Calls("item", node, Top.depth + 1, last, x.rest, ids, disabled)
  BY <1>2, <1>4, <1>7, <1>9, <1>10, <1>11 DEF Calls
<1> QED BY <1>1, <1>5, <1>6, <1>12, EnterKeepsTree

\* A definition.
LEMMA DefinitionKeepsTree ==
    ASSUME IInv, IInv', FInv, TInv, KInv, block_definition
    PROVE  TInv' /\ KInv'
<1>1. Types /\ frames # <<>> /\ Top.within \in {"deflist", "raw deflist"} /\ Goes({"definition"})
  BY DEF block_definition, Within, IInv
<1>2. l <= stop /\ type[l] \in Markers
  BY <1>1 DEF Goes, Markers
<1>3. PICK x \in Extents(accept_tail_line) :
          /\ Enter("definition", "definition", Top.depth + 1, x.end - 1, x.rest)
          /\ recursive_indent_parse(x.end - 1)
  BY DEF block_definition
<1> DEFINE ids == {i \in l..(x.end - 1) : i = l \/ type[i] = "indented"}
           disabled == {i \in l..(x.end - 1) : type[i] \in {"setext1", "setext2"}}
           last == x.end - 1
<1>4. /\ last \in l..stop /\ x.rest \in (last + 1)..(stop + 1)
      /\ ids \in SUBSET (l..last) /\ disabled \in SUBSET (l..last) /\ l \in ids
      /\ \A i \in ids : type[i] \in Markers
      /\ \A i \in (last + 1)..(x.rest - 1) : type[i] = "empty"
  BY <1>1, <1>2, ExtentsHold
<1>5. Rescan(ids, disabled)
  BY <1>3 DEF recursive_indent_parse
<1>6. Enter("definition", "definition", Top.depth + 1, last, x.rest)
  BY <1>3
<1> HIDE DEF ids, disabled, last
<1>7. "definition" \in Kinds /\ Top.depth + 1 \in Nat /\ (Top.depth + 1) + 1 = Inner(Top)
  <2>1. Top.depth \in Nat
    BY <1>1, TopFacts DEF FrameType
  <2>2. Top.within # "blocks"
    BY <1>1
  <2>3. Inner(Top) = Top.depth + 2
    BY <2>2 DEF Inner
  <2> QED BY <2>1, <2>3 DEF Kinds
<1>8. Top.within \in DeflistParts
  BY <1>1 DEF DeflistParts
<1>9. Calls("definition", "definition", Top.depth + 1, last, x.rest, ids, disabled)
  BY <1>4, <1>7, <1>8 DEF Calls
<1> QED BY <1>1, <1>5, <1>6, <1>9, EnterKeepsTree

\* The definition of a note, which may have no label.
LEMMA NoteKeepsTree ==
    ASSUME IInv, IInv', FInv, TInv, KInv, block_endnote_definition
    PROVE  TInv' /\ KInv'
<1>1. At({"def_note"})
  BY DEF block_endnote_definition
<1>2. /\ Types /\ frames # <<>> /\ Top.within = "blocks" /\ l <= stop /\ type[l] = "def_note"
      /\ type[l] \in Markers
  BY <1>1, AtIs DEF Markers
<1>3. PICK x \in Extents(accept_chunk_line) :
          IF scan_ref_endnote(l)
          THEN /\ Enter("note", "def_note", Top.depth, x.end - 1, x.rest)
               /\ recursive_endnote_parse(x.end - 1)
               /\ is_endnote' = is_endnote + 1
          ELSE /\ Emit(<<Node("para", Top.depth, {}, "none")>> \o Empties(x.end, x.rest, Top.depth), x.rest)
               /\ dropped' = dropped \cup (l..(x.end - 1))
               /\ allow_meta' = FALSE
               /\ UNCHANGED <<lines, type, stripped, is_endnote>>
  BY DEF block_endnote_definition
<1> DEFINE ids == {i \in l..(x.end - 1) : i = l \/ type[i] = "indented"}
           last == x.end - 1
<1>4. /\ last \in l..stop /\ x.rest \in (last + 1)..(stop + 1)
      /\ x.end \in l..(stop + 1) /\ x.rest \in Behind(x.end, {"empty"})
      /\ ids \in SUBSET (l..last) /\ l \in ids
      /\ \A i \in ids : type[i] \in Markers /\ (i = l \/ type[i] # "definition")
      /\ \A i \in (last + 1)..(x.rest - 1) : type[i] = "empty"
  BY <1>2, ExtentsHold
<1>5. CASE scan_ref_endnote(l)
  <2>1. Enter("note", "def_note", Top.depth, last, x.rest) /\ Rescan(ids, {})
    BY <1>3, <1>5 DEF recursive_endnote_parse
  <2> HIDE DEF ids, last
  <2>2. "note" \in Kinds /\ Top.depth \in Nat /\ Top.depth + 1 = Inner(Top)
    BY <1>2, TopFacts DEF FrameType, Inner, Kinds
  <2>3. Calls("note", "def_note", Top.depth, last, x.rest, ids, {})
    BY <1>2, <1>4, <2>2 DEF Calls
  <2> QED BY <1>2, <2>1, <2>3, EnterKeepsTree
<1>6. CASE ~scan_ref_endnote(l)
  <2> DEFINE y == Node("para", Top.depth, {}, "none")
  <2>1. /\ Emit(<<y>> \o Empties(x.end, x.rest, Top.depth), x.rest)
        /\ UNCHANGED <<lines, type, stripped>>
    BY <1>3, <1>6
  <2>2. Sibling(y)
    BY DEF Sibling, Node, Untold, Blocks
  <2> HIDE DEF y
  <2> QED BY <1>2, <1>4, <2>1, <2>2, SiblingAndEmpties
<1> QED BY <1>5, <1>6

\* blocks() returns to the activation that called it, which is the n-th one
Leaves(n, depth) ==
    /\ n \in Nat /\ n >= 1 /\ Depth = n + 1 /\ DOMAIN frames = 1..(n + 1) /\ DOMAIN frames' = 1..n
    /\ frames' # <<>>
    /\ \A d \in 1..n : frames'[d] = frames[d]
    /\ \A d \in 1..(n + 1) : frames[d] \in FrameType
    /\ Top = frames[n + 1] /\ l' = frames[n].l
    /\ depth \in Nat /\ Top.depth = depth + 1
    /\ N \in Nat /\ l = stop + 1 /\ stop = Top.stop /\ stop \in 1..N /\ stop < frames[n].l
    /\ frames[n].l <= frames[n].stop + 1 /\ frames[n].within # "table"
    /\ Top.within = "blocks"

\* So it is when blocks() has used up its lines.
LEMMA ReturnLeaves ==
    ASSUME IInv, lines' = lines, Return
    PROVE  frames # <<>> /\ \E n, depth : Leaves(n, depth)
<1>1. /\ Types /\ Nested /\ Rooted /\ Depth > 1 /\ frames' = SubSeq(frames, 1, Depth - 1)
      /\ Top.within = "blocks" /\ l > stop
  BY DEF Return, IInv
<1>2. PICK n \in Nat :
          /\ n >= 1 /\ Depth = n + 1 /\ DOMAIN frames = 1..(n + 1) /\ DOMAIN frames' = 1..n
          /\ frames' # <<>>
          /\ \A d \in 1..n : frames'[d] = frames[d]
          /\ \A d \in 1..(n + 1) : frames[d] \in FrameType
          /\ Top = frames[n + 1] /\ l' = frames[n].l
  BY <1>1, Popped
<1>3. frames # <<>>
  <2>1. DOMAIN <<>> = {}
    OBVIOUS
  <2> QED BY <1>2, <2>1
<1>4. l = Top.l /\ stop = Top.stop /\ stop \in 1..N /\ N \in Nat /\ l \in 1..(N + 1)
  BY <1>1, <1>3, TopFacts
<1>5. n + 1 \in DOMAIN frames /\ n + 1 > 1 /\ (n + 1) - 1 = n /\ n \in DOMAIN frames
  BY <1>2
<1>6. Top.l <= Top.stop + 1
  BY <1>1, <1>2, <1>5 DEF Nested
<1>7. l = stop + 1
  BY <1>1, <1>4, <1>6
<1>8. Top.depth \in Nat /\ Top.depth > 0
  BY <1>1, <1>2, <1>5 DEF FrameType, Rooted
<1>9. PICK depth \in Nat : Top.depth = depth + 1
  <2>1. Top.depth - 1 \in Nat /\ Top.depth = (Top.depth - 1) + 1
    BY <1>8
  <2> QED BY <2>1
<1> DEFINE e == n + 1
<1>10. e \in DOMAIN frames /\ e > 1 /\ e - 1 = n /\ Top = frames[e]
  BY <1>2, <1>5
<1> HIDE DEF e
<1>11. frames[e].stop < frames[e - 1].l /\ frames[e - 1].within # "table"
  BY <1>1, <1>10 DEF Nested
<1>12. frames[n].l <= frames[n].stop + 1
  BY <1>1, <1>5 DEF Nested
<1>13. stop < frames[n].l /\ frames[n].within # "table"
  BY <1>4, <1>10, <1>11
<1>14. Leaves(n, depth)
  BY <1>1, <1>2, <1>4, <1>7, <1>9, <1>12, <1>13 DEF Leaves
<1> QED BY <1>3, <1>14

\* The empty lines behind an item, a definition or a note go to its parent.
LEMMA ReturnGrows ==
    ASSUME IInv, IInv', TInv, lines' = lines, type' = type, stripped' = stripped,
           NEW n, NEW depth, Leaves(n, depth), tree' = tree \o Empties(stop + 1, frames[n].l, depth)
    PROVE  /\ Grown(depth)
           /\ \A m \in 1..Len(tree) : tree'[m] = tree[m]
           /\ \A m \in (Len(tree) + 1)..Len(tree') :
                  Fits(tree', m, stripped') /\ tree'[m].type = "empty" /\ tree'[m].tokens = "none"
<1> DEFINE c == frames[n]
           z == Node("empty", depth, (stop + 1)..(c.l - 1), "none")
           e == Empties(stop + 1, c.l, depth)
<1>1. Types /\ Types'
  BY DEF IInv
<1>2. /\ n \in Nat /\ n >= 1 /\ DOMAIN frames = 1..(n + 1) /\ Top = frames[n + 1]
      /\ depth \in Nat /\ Top.depth = depth + 1
      /\ N \in Nat /\ l = stop + 1 /\ stop = Top.stop /\ stop \in 1..N /\ stop < c.l /\ c.l <= c.stop + 1
      /\ c.within # "table" /\ c \in FrameType /\ c = frames[n]
  BY DEF Leaves
<1>3. z.type = "empty" /\ z.depth = depth /\ z.lines = (stop + 1)..(c.l - 1) /\ z.tokens = "none"
  BY DEF Node
<1>4. e \in {<<>>, <<z>>}
  BY DEF Empties
<1>5. c.depth \in Nat /\ c.l \in 1..(N + 1) /\ c.stop \in 1..N
  BY <1>2 DEF FrameType
<1>6. stop \in Int /\ c.l \in Int /\ c.stop \in Int
  <2>1. \A a, b : a \in 1..b => a \in Int
    OBVIOUS
  <2> QED BY <1>2, <1>5, <2>1, Zenon
<1>7. Len(tree) \in Nat /\ \A m \in 1..Len(tree) : Same(tree[m], tree[m])
  BY <1>1, NodeFacts DEF Same
<1> HIDE DEF z, e, c
<1>8. /\ Grown(depth)
      /\ \A m \in 1..Len(tree) : tree'[m] = tree[m]
      /\ \A m \in (Len(tree) + 1)..Len(tree') : tree'[m] = z
  <2> DEFINE all == TreeNode \cup {z}
  <2>1. tree \in Seq(all) /\ e \in Seq({z}) /\ e \in Seq(all)
    <3>1. CASE e = <<>>
      BY <1>1, <3>1 DEF Types
    <3>2. CASE e = <<z>>
      BY <1>1, <3>2 DEF Types
    <3> QED BY <1>4, <3>1, <3>2
  <2>2. \A k \in 1..Len(e) : e[k] = z
    BY <2>1, ElementOfSeq
  <2>3. \A k \in 1..Len(e) : e[k].depth >= depth
    <3>1. depth >= depth
      BY <1>2
    <3> QED BY <1>3, <2>2, <3>1
  <2>4. tree' = tree \o e
    BY DEF e, c
  <2> HIDE DEF all
  <2>5. /\ Grown(depth)
        /\ \A m \in 1..Len(tree) : tree'[m] = tree[m]
        /\ \A m \in (Len(tree) + 1)..Len(tree') :
               \E k \in 1..Len(e) : m = Len(tree) + k /\ tree'[m] = e[k]
    BY <1>1, <1>2, <1>7, <2>1, <2>3, <2>4, AppendGrows
  <2> QED BY <2>2, <2>5
<1>9. n + 1 \in DOMAIN frames /\ n + 1 > 1 /\ (n + 1) - 1 = n /\ n \in DOMAIN frames
  BY <1>2
<1>10. Inner(c) = depth + 1 /\ \A i \in (stop + 1)..(c.l - 1) : type[i] = "empty"
  <2> DEFINE d == n + 1
  <2>1. d \in DOMAIN frames /\ d > 1 /\ d - 1 = n /\ frames[d] = Top
    BY <1>2, <1>9
  <2> HIDE DEF d
  <2>2. /\ frames[d].depth = Inner(frames[d - 1])
        /\ \A i \in (frames[d].stop + 1)..(frames[d - 1].l - 1) : type[i] = "empty"
    BY <2>1, Zenon DEF TInv, Inside
  <2> QED BY <1>2, <2>1, <2>2
<1>11. PICK p \in 0..Len(tree) :
           /\ Under(tree, p, depth)
           /\ p # 0 => tree[p].type \in Containers \cup Lists \cup {"deflist"}
           /\ p # 0 /\ tree[p].type = "item_tight" => \A i \in l..c.stop : type[i] = "empty" => stripped[i] > 0
  <2>1. CASE c.within = "blocks"
    <3>1. PICK p \in 0..Len(tree) : Standing(tree, p, c, l, type, stripped)
      BY <1>2, <1>9 DEF TInv, AllStand
    <3>2. depth = c.depth
      <4>1. Inner(c) = c.depth + 1
        BY <2>1 DEF Inner
      <4>2. depth + 1 = c.depth + 1
        BY <1>10, <4>1
      <4>3. depth \in Nat /\ c.depth \in Nat
        BY <1>2, <1>5
      <4> QED BY <4>2, <4>3
    <3> QED BY <3>1, <3>2 DEF Standing
  <2>2. CASE c.within # "blocks"
    <3>1. depth = c.depth + 1
      <4>1. Inner(c) = c.depth + 2
        BY <2>2 DEF Inner
      <4> QED BY <1>2, <1>5, <1>10, <4>1
    <3>2. Parted(tree, c) /\ Whole(c) = c.node
      BY <1>2, <1>9 DEF TInv, AllParted, Whole
    <3>3. c.within \in ListParts \/ c.within \in DeflistParts
      BY <1>2, <2>2 DEF FrameType, Parts, ListParts, DeflistParts
    <3>4. c.node # 0 /\ Under(tree, c.node, depth)
      BY <2>2, <3>1, <3>2 DEF Parted
    <3>5. tree[c.node].type \in Lists \cup {"deflist"}
      BY <3>2, <3>3 DEF Parted
    <3>6. c.node \in 0..Len(tree)
      BY <1>7, <3>4 DEF Under
    <3>7. tree[c.node].type # "item_tight"
      BY <3>5 DEF Lists
    <3> QED BY <3>4, <3>5, <3>6, <3>7
  <2> QED BY <2>1, <2>2
<1>12. ASSUME NEW m \in (Len(tree) + 1)..Len(tree')
       PROVE  Fits(tree', m, stripped')
  <2>1. tree'[m] = z
    BY <1>8
  <2>2. p # 0 => Suits(tree'[p], z, stripped')
    <3> SUFFICES ASSUME p # 0 PROVE Suits(tree'[p], z, stripped')
      OBVIOUS
    <3>1. tree'[p] = tree[p] /\ tree[p].type \in ParentTypes("empty")
      <4>1. p \in 1..Len(tree)
        BY <1>7
      <4> QED BY <1>8, <1>11, <4>1 DEF ParentTypes, Items, Rowed
    <3>2. ASSUME tree[p].type = "item_tight", NEW i \in z.lines PROVE stripped[i] > 0
      <4>1. i \in (stop + 1)..(c.l - 1)
        BY <1>3
      <4>2. i \in l..c.stop
        <5>1. l = stop + 1 /\ c.l <= c.stop + 1
          BY <1>2
        <5>3. \A a, b, s : a \in Int /\ b \in Int /\ s \in Int /\ b <= s + 1 /\ i \in (a + 1)..(b - 1)
                          => i \in (a + 1)..s
          OBVIOUS
        <5>4. i \in (stop + 1)..c.stop
          BY <4>1, <1>6, <5>1, <5>3, Zenon
        <5> QED BY <5>1, <5>4, Zenon
      <4>3. type[i] = "empty"
        BY <1>10, <4>1
      <4> QED BY <1>7, <1>11, <3>2, <4>2, <4>3, Zenon
    <3> QED BY <1>3, <3>1, <3>2 DEF Suits
  <2>3. p \in Nat /\ "empty" \in Blocks
    BY <1>7 DEF Blocks
  <2>4. IF p = 0 THEN tree'[m].type \in Blocks ELSE Suits(tree'[p], tree'[m], stripped')
    BY <1>3, <2>1, <2>2, <2>3, Zenon
  <2>5. tree'[m].depth = depth
    BY <1>3, <2>1
  <2> QED BY <1>2, <1>8, <1>11, <2>3, <2>4, <2>5, NewFits, Zenon
<1> QED BY <1>3, <1>8, <1>12

\* What the return of an activation does to the blocks and their parents
LEMMA ReturnKeepsTInv ==
    ASSUME IInv, IInv', FInv, TInv, lines' = lines, type' = type, stripped' = stripped,
           NEW n, NEW depth, Leaves(n, depth), tree' = tree \o Empties(stop + 1, frames[n].l, depth)
    PROVE  TInv'
<1>1. Types /\ Types'
  BY DEF IInv
<1>2. /\ n \in Nat /\ n >= 1 /\ DOMAIN frames = 1..(n + 1) /\ DOMAIN frames' = 1..n
      /\ \A d \in 1..n : frames'[d] = frames[d]
      /\ \A d \in 1..(n + 1) : frames[d] \in FrameType
      /\ Top = frames[n + 1] /\ l' = frames[n].l /\ depth \in Nat /\ Top.depth = depth + 1
      /\ N \in Nat /\ l = stop + 1 /\ stop \in 1..N /\ stop < frames[n].l
  BY DEF Leaves
<1>3. /\ Grown(depth)
      /\ \A m \in (Len(tree) + 1)..Len(tree') : Fits(tree', m, stripped')
  <2>1. /\ Grown(depth)
        /\ \A m \in 1..Len(tree) : tree'[m] = tree[m]
        /\ \A m \in (Len(tree) + 1)..Len(tree') :
               Fits(tree', m, stripped') /\ tree'[m].type = "empty" /\ tree'[m].tokens = "none"
    BY ReturnGrows, ZenonT(40)
  <2> QED BY <2>1
<1>4. StripsMore
  <2>1. stripped \in [1..N -> Nat]
    BY <1>1, Zenon DEF Types
  <2>2. \A i \in 1..N : stripped[i] \in Nat
    BY <2>1
  <2>3. \A x \in Nat : x >= x
    OBVIOUS
  <2> QED BY <2>2, <2>3, Zenon DEF StripsMore
<1>5. \A d \in 1..n : d \in 1..(n + 1) /\ d \in DOMAIN frames /\ frames[d].depth \in Nat
  BY <1>2 DEF FrameType
<1>6. n \in 1..n /\ n + 1 \in DOMAIN frames
  BY <1>2
<1>7. \A d \in 1..n : frames[d].depth <= depth
  <2>1. ASSUME NEW d \in 1..n PROVE frames[d].depth < Top.depth
    <3>1. d < n + 1
      BY <1>2
    <3> QED BY <1>2, <1>5, <1>6, <3>1 DEF FInv, InnerIsDeeper
  <2> QED BY <1>2, <1>5, <2>1
<1>8. Fitting'
  <2>1. \A m \in 1..Len(tree) : Fits(tree', m, stripped')
    BY <1>1, <1>3, <1>4, FitsStays DEF TInv, Fitting
  <2>2. ASSUME NEW m \in 1..Len(tree') PROVE Fits(tree', m, stripped')
    <3>1. m \in 1..Len(tree) \/ m \in (Len(tree) + 1)..Len(tree')
      BY <1>3 DEF Grown
    <3> QED BY <1>3, <2>1, <3>1
  <2> QED BY <2>2 DEF Fitting
<1>9. AllStand'
  <2> DEFINE first == l
             next == frames[n].l
  <2>1. first \in 1..(N + 1) /\ next \in 1..(N + 1) /\ first <= next
    <3>1. next \in 1..(N + 1)
      BY <1>2, <1>5, <1>6 DEF FrameType
    <3> QED BY <1>2, <3>1
  <2>2. l' = next
    BY <1>2
  <2> HIDE DEF next
  <2>3. ASSUME NEW d \in 1..n
        PROVE  \E p \in 0..Len(tree') : Standing(tree', p, frames[d], next, type', stripped')
    <3>1. PICK p \in 0..Len(tree) : Standing(tree, p, frames[d], l, type, stripped)
      BY <1>5 DEF TInv, AllStand
    <3>2. \A i \in next..frames[d].stop : type'[i] = "empty" => type[i] = "empty" \/ stripped'[i] > 0
      OBVIOUS
    <3>3. frames[d] \in FrameType /\ frames[d].depth <= depth
      BY <1>2, <1>5, <1>7
    <3>4. Standing(tree, p, frames[d], first, type, stripped)
      BY <3>1
    <3> HIDE DEF first
    <3>5. p \in 0..Len(tree') /\ Standing(tree', p, frames[d], next, type', stripped')
      BY <1>2, <1>3, <1>4, <2>1, <3>2, <3>3, <3>4, StandingStays
    <3> QED BY <3>5
  <2> QED BY <1>2, <2>2, <2>3 DEF AllStand
<1>10. AllParted'
  <2>1. ASSUME NEW d \in 1..n PROVE Parted(tree', frames[d])
    <3> DEFINE e == d + 1
    <3>1. e \in DOMAIN frames /\ e > 1 /\ e - 1 = d /\ (e \in 1..n \/ e = n + 1)
      BY <1>2
    <3> HIDE DEF e
    <3>2. frames[e].depth = Inner(frames[d])
      BY <3>1 DEF TInv, Inside
    <3>3. frames[e].depth \in Nat /\ frames[e].depth <= depth + 1
      BY <1>2, <1>5, <1>7, <3>1
    <3>4. frames[d].within # "blocks" => frames[d].depth + 1 <= depth
      <4>1. ASSUME frames[d].within # "blocks" PROVE Inner(frames[d]) = frames[d].depth + 2
        BY <4>1 DEF Inner
      <4> QED BY <1>2, <1>5, <3>2, <3>3, <4>1
    <3>5. Parted(tree, frames[d]) /\ frames[d] \in FrameType
      BY <1>2, <1>5 DEF TInv, AllParted
    <3> QED BY <1>2, <1>3, <3>4, <3>5, PartedStays
  <2>2. \A d \in 1..n : Parted(tree', frames'[d])
    BY <1>2, <2>1
  <2> QED BY <1>2, <2>2 DEF AllParted
<1>11. Inside'
  <2>1. ASSUME NEW d \in 1..n, d > 1
        PROVE  /\ frames'[d].depth = Inner(frames'[d - 1])
               /\ \A i \in (frames'[d].stop + 1)..(frames'[d - 1].l - 1) : type'[i] = "empty"
    <3>1. d - 1 \in 1..n
      BY <1>2, <2>1
    <3>2. frames'[d] = frames[d] /\ frames'[d - 1] = frames[d - 1]
      BY <1>2, <3>1
    <3>3. /\ frames[d].depth = Inner(frames[d - 1])
          /\ \A i \in (frames[d].stop + 1)..(frames[d - 1].l - 1) : type[i] = "empty"
      BY <1>5, <2>1 DEF TInv, Inside
    <3> QED BY <3>2, <3>3
  <2>2. \A d, e \in 1..n : d <= e => frames'[e].stop <= frames'[d].stop
    BY <1>2, <1>5 DEF TInv, Inside
  <2>3. \A d \in 1..n : d = 1 => frames'[d].depth = 0
    BY <1>2, <1>5 DEF TInv, Inside
  <2> QED BY <1>2, <2>1, <2>2, <2>3 DEF Inside
<1> QED BY <1>8, <1>9, <1>10, <1>11 DEF TInv

\* and to the texts and the colons.
LEMMA ReturnKeepsKInv ==
    ASSUME IInv, IInv', TInv, KInv, frames # <<>>, lines' = lines, type' = type, stripped' = stripped,
           NEW n, NEW depth, Leaves(n, depth), tree' = tree \o Empties(stop + 1, frames[n].l, depth)
    PROVE  KInv'
<1>1. Types /\ Types'
  BY DEF IInv
<1>2. /\ n \in Nat /\ n >= 1 /\ DOMAIN frames = 1..(n + 1) /\ DOMAIN frames' = 1..n
      /\ frames' # <<>>
      /\ \A d \in 1..n : frames'[d] = frames[d]
      /\ \A d \in 1..(n + 1) : frames[d] \in FrameType
      /\ Top = frames[n + 1] /\ l' = frames[n].l /\ depth \in Nat
      /\ N \in Nat /\ l = stop + 1 /\ stop = Top.stop /\ stop \in 1..N /\ stop < frames[n].l
      /\ Top.within = "blocks"
  BY DEF Leaves
<1>3. /\ Grown(depth)
      /\ \A m \in 1..Len(tree) : tree'[m] = tree[m]
      /\ \A m \in (Len(tree) + 1)..Len(tree') : tree'[m].type = "empty" /\ tree'[m].tokens = "none"
  BY ReturnGrows, Zenon
<1>4. Settled
  BY DEF Settled
<1>5. \A d \in 1..n : d \in DOMAIN frames
  BY <1>2
<1>6. \A d \in 1..(n + 1) : d \in 1..n \/ d = n + 1
  BY <1>2
<1>7. NestedDeflist => NestedDeflist'
  BY <1>1, <1>2, <1>3, GrownKeeps, NestedKept
<1>8. \A m \in 1..Len(tree') : m \in 1..Len(tree) \/ m \in (Len(tree) + 1)..Len(tree')
  BY <1>3 DEF Grown
<1>9. AllTold'
  <2>1. ASSUME NEW m \in 1..Len(tree'), Untold(tree'[m])
        PROVE  Excused(tree', stripped', m) \/ \E d \in 1..n : Awaits(frames'[d], m)
    <3>1. m \in 1..Len(tree)
      BY <1>3, <1>8, <2>1 DEF Untold, Texts
    <3>2. Untold(tree[m])
      BY <1>3, <2>1, <3>1
    <3>3. CASE Excused(tree, stripped, m)
      BY <1>3, <1>4, <3>1, <3>3, ExcusedStays
    <3>4. CASE \E d \in DOMAIN frames : Awaits(frames[d], m)
      <4>1. PICK d \in 1..(n + 1) : Awaits(frames[d], m)
        BY <1>2, <3>4
      <4>2. d # n + 1
        BY <1>2, <4>1 DEF Awaits
      <4> QED BY <1>2, <1>6, <4>1, <4>2
    <3> QED BY <3>1, <3>2, <3>3, <3>4 DEF KInv, AllTold
  <2>2. \A m : Excused(tree, stripped, m)' <=> Excused(tree', stripped', m)
    BY DEF Excused
  <2>3. \A d, m : Awaits(frames[d], m)' <=> Awaits(frames'[d], m)
    BY DEF Awaits
  <2>4. \A m : Untold(tree[m])' <=> Untold(tree'[m])
    BY DEF Untold
  <2> QED BY <1>2, <2>1, <2>2, <2>3, <2>4 DEF AllTold
<1>10. AllHidden'
  <2>1. ASSUME NEW m \in 1..Len(tree'), tree'[m].tokens = "exposed"
        PROVE  tree'[m].type \in Rowed \/ NestedDeflist'
    <3>1. m \in 1..Len(tree) /\ tree'[m] = tree[m]
      BY <1>3, <1>8, <2>1
    <3>2. tree[m].tokens = "exposed" => tree[m].type \in Rowed \/ NestedDeflist
      BY <3>1 DEF KInv, AllHidden
    <3> QED BY <1>7, <2>1, <3>1, <3>2
  <2> QED BY <2>1 DEF AllHidden
<1>11. Claimed'
  <2> DEFINE next == frames[n].l
  <2>1. next \in 1..(N + 1) /\ stop < next /\ l' = next
    BY <1>2, <1>5 DEF FrameType
  <2> HIDE DEF next
  <2>2. ASSUME NEW i \in 1..N, i >= next, Colon(stripped, i)
        PROVE  \E d \in 1..n : frames'[d].kind = "definition" /\ i <= frames'[d].stop
    <3>1. i >= l /\ i > stop
      BY <1>2, <2>1, <2>2
    <3>2. PICK d \in 1..(n + 1) : frames[d].kind = "definition" /\ i <= frames[d].stop
      BY <1>2, <2>2, <3>1 DEF KInv, Claimed
    <3>3. d # n + 1
      BY <1>2, <3>1, <3>2
    <3> QED BY <1>2, <1>6, <3>2, <3>3
  <2>3. \A i : Colon(stripped, i)' <=> Colon(stripped, i)
    BY DEF Colon
  <2>4. N' = N
    BY DEF N
  <2> QED BY <1>2, <2>1, <2>2, <2>3, <2>4 DEF Claimed
<1>12. FirstTerms'
  <2>1. ASSUME NEW d \in 1..n PROVE FirstTerm(tree', stripped', frames'[d], frames', d)
    <3>1. FirstTerm(tree, stripped, frames[d], frames, d)
      BY <1>5 DEF KInv, FirstTerms
    <3>2. \A e \in 1..d : e \in 1..n
      BY <1>2
    <3>3. \A e \in 1..d : frames'[e].kind = frames[e].kind
      BY <1>2, <3>2
    <3>4. FirstTerm(tree', stripped', frames[d], frames', d)
      BY <1>3, <1>4, <3>1, <3>3, FirstTermStays
    <3> QED BY <1>2, <3>4
  <2>2. \A d : FirstTerm(tree, stripped, frames[d], frames, d)'
               <=> FirstTerm(tree', stripped', frames'[d], frames', d)
    <3>1. N' = N
      BY DEF N
    <3> QED BY <3>1 DEF FirstTerm, Colon
  <2> QED BY <1>2, <2>1, <2>2 DEF FirstTerms
<1> QED BY <1>9, <1>10, <1>11, <1>12 DEF KInv

\* So blocks() returns.
LEMMA ReturnKeepsTree ==
    ASSUME IInv, IInv', FInv, TInv, KInv, Return
    PROVE  TInv' /\ KInv'
<1>1. /\ lines' = lines /\ type' = type /\ stripped' = stripped
      /\ tree' = tree \o Empties(stop + 1, frames[Depth - 1].l, Top.depth - 1)
  BY DEF Return
<1>2. frames # <<>>
  BY <1>1, ReturnLeaves
<1>3. PICK n, depth : Leaves(n, depth)
  BY <1>1, ReturnLeaves
<1>4. Depth - 1 = n /\ Top.depth - 1 = depth
  BY <1>3 DEF Leaves
<1>5. tree' = tree \o Empties(stop + 1, frames[n].l, depth)
  BY <1>1, <1>4
<1>6. TInv'
  BY <1>1, <1>3, <1>5, ReturnKeepsTInv
<1>7. KInv'
  BY <1>1, <1>2, <1>3, <1>5, ReturnKeepsKInv
<1> QED BY <1>6, <1>7

\* doc() has its tree.
LEMMA DocKeepsTree ==
    ASSUME IInv, TInv, KInv, doc
    PROVE  TInv' /\ KInv'
<1>1. /\ Depth = 1 /\ Top.within = "blocks" /\ frames' = <<>>
      /\ lines' = lines /\ type' = type /\ stripped' = stripped /\ tree' = tree
  BY DEF doc
<1>2. DOMAIN frames' = {} /\ DOMAIN frames = 1..1 /\ Top = frames[1]
  <2>1. DOMAIN <<>> = {}
    OBVIOUS
  <2>2. DOMAIN frames = 1..Depth
    BY LenProperties DEF IInv, Types, Depth
  <2> QED BY <1>1, <2>1, <2>2 DEF Top
<1>3. TInv'
  <2>1. Fitting'
    BY <1>1 DEF TInv, Fitting, Fits, Above, Suits, ParentTypes
  <2>2. AllStand' /\ AllParted' /\ Inside'
    BY <1>2 DEF AllStand, AllParted, Inside
  <2> QED BY <2>1, <2>2 DEF TInv
<1>4. AllTold'
  <2>1. \A m : \A d \in DOMAIN frames : ~Awaits(frames[d], m)
    BY <1>1, <1>2 DEF Awaits
  <2>2. \A m \in 1..Len(tree) : Untold(tree[m]) => Excused(tree, stripped, m)
    BY <2>1 DEF KInv, AllTold
  <2>3. \A m : Excused(tree, stripped, m)' <=> Excused(tree, stripped, m)
    BY <1>1 DEF Excused
  <2>4. \A m : Untold(tree[m])' <=> Untold(tree[m])
    BY <1>1 DEF Untold
  <2> QED BY <1>1, <2>2, <2>3, <2>4 DEF AllTold
<1>5. AllHidden'
  <2>1. NestedDeflist' <=> NestedDeflist
    BY <1>1 DEF NestedDeflist
  <2> QED BY <1>1, <2>1 DEF KInv, AllHidden
<1>6. Claimed' /\ FirstTerms'
  BY <1>1, <1>2 DEF Claimed, FirstTerms
<1> QED BY <1>3, <1>4, <1>5, <1>6 DEF KInv

\* At the start there is no block, and nothing was stripped.
LEMMA InitTree == Init => TInv /\ KInv
<1> SUFFICES ASSUME Init PROVE TInv /\ KInv
  OBVIOUS
<1> DEFINE f == Frame("doc", 1, N, 0)
<1>1. /\ frames = <<f>> /\ tree = <<>> /\ \A i \in 1..N : stripped[i] = 0
      /\ f.kind = "doc" /\ f.within = "blocks" /\ f.depth = 0 /\ f.stop = N
  BY DEF Init, Frame
<1> HIDE DEF f
<1>2. DOMAIN frames = 1..1 /\ frames[1] = f /\ \A d \in DOMAIN frames : d = 1 /\ frames[d] = f
  BY <1>1
<1>3. Len(tree) = 0 /\ 1..Len(tree) = {}
  BY <1>1
<1>4. Fitting /\ AllTold /\ AllHidden
  BY <1>3 DEF Fitting, AllTold, AllHidden
<1>5. AllStand
  <2>1. Standing(tree, 0, f, l, type, stripped)
    BY <1>1 DEF Standing, Under
  <2>2. 0 \in 0..Len(tree)
    BY <1>3
  <2> QED BY <1>2, <2>1, <2>2 DEF AllStand
<1>6. AllParted
  BY <1>1, <1>2 DEF AllParted, Parted, ListParts, DeflistParts
<1>7. Inside
  <2>1. \A d \in DOMAIN frames : ~(d > 1)
    BY <1>2
  <2>2. lines \in Documents
    BY DEF Init
  <2>3. N \in Nat
    BY <2>2, DocumentsAssumption, LenProperties DEF N
  <2>4. \A d, e \in DOMAIN frames : frames[e].stop <= frames[d].stop
    BY <1>1, <1>2, <2>3
  <2> QED BY <1>1, <1>2, <2>1, <2>4 DEF Inside
<1>8. Claimed
  <2>1. \A i \in 1..N : ~Colon(stripped, i)
    <3>1. 1..0 = {}
      OBVIOUS
    <3> QED BY <1>1, <3>1 DEF Colon
  <2> QED BY <2>1 DEF Claimed
<1>9. FirstTerms
  BY <1>1, <1>2 DEF FirstTerms, FirstTerm
<1> QED BY <1>4, <1>5, <1>6, <1>7, <1>8, <1>9 DEF TInv, KInv

\* One step of the parser.
LEMMA StepKeepsTree ==
    ASSUME IInv, IInv', FInv, TInv, KInv, [Next]_vars
    PROVE  TInv' /\ KInv'
<1>1. CASE UNCHANGED vars
  <2>1. UNCHANGED <<lines, type, stripped, tree, frames>>
    BY <1>1 DEF vars
  <2>2. l' = l /\ N' = N /\ NestedDeflist' = NestedDeflist
    BY <2>1 DEF l, Top, Depth, N, NestedDeflist
  <2>3. Fitting' /\ AllParted' /\ Inside'
    BY <2>1 DEF TInv, Fitting, AllParted, Inside, Fits, Above, Suits, ParentTypes, Parted, Whole, Under, Inner
  <2>4. AllStand'
    BY <2>1, <2>2 DEF TInv, AllStand, Standing, Under
  <2>5. AllTold' /\ AllHidden'
    BY <2>1, <2>2 DEF KInv, AllTold, AllHidden, Untold, Excused, Awaits
  <2>6. Claimed' /\ FirstTerms'
    BY <2>1, <2>2 DEF KInv, Claimed, FirstTerms, Colon, FirstTerm
  <2> QED BY <2>3, <2>4, <2>5, <2>6 DEF TInv, KInv
<1>2. CASE Next
  <2>1. CASE \/ block_atx \/ block_toc \/ block_hr \/ block_empty \/ block_reference_def_a
             \/ block_html \/ block_html_comment \/ block_code_fenced \/ block_meta \/ block_meta_yaml
    BY <2>1, SimpleKeepsTree
  <2>2. CASE block_code_indented
    BY <2>2, CodeIndentedKeepsTree
  <2>3. CASE block_para
    BY <2>3, ParaKeepsTree
  <2>4. CASE block_table
    BY <2>4, TableKeepsTree
  <2>5. CASE block_table_section
    BY <2>5, SectionKeepsTree
  <2>6. CASE block_list
    BY <2>6, ListKeepsTree
  <2>7. CASE flag_list_loose
    BY <2>7, ListEndKeepsTree
  <2>8. CASE mmd_parse_tokens_deflist
    BY <2>8, DeflistEndKeepsTree
  <2>9. CASE block_blockquote
    BY <2>9, QuoteKeepsTree
  <2>10. CASE block_list_item
    BY <2>10, ItemKeepsTree
  <2>11. CASE block_definition
    BY <2>11, DefinitionKeepsTree
  <2>12. CASE block_endnote_definition
    BY <2>12, NoteKeepsTree
  <2>13. CASE Return
    BY <2>13, ReturnKeepsTree
  <2>14. CASE doc
    BY <2>14, DocKeepsTree
  <2> QED BY <1>2, <2>1, <2>2, <2>3, <2>4, <2>5, <2>6, <2>7, <2>8, <2>9, <2>10, <2>11, <2>12, <2>13,
             <2>14 DEF Next, block
<1> QED BY <1>1, <1>2

\* What the blocks are children of, what they are tokenized to, and what the
\* activations that run have yet to do about both, stays as it should be.
LEMMA TreeInvariant == Spec => [](IInv /\ TInv /\ KInv)
<1>1. IInv /\ IInv' /\ FInv /\ [Next]_vars => FInv'
  BY StepKeepsFlags
<1>2. IInv /\ IInv' /\ FInv /\ TInv /\ KInv /\ [Next]_vars => TInv' /\ KInv'
  BY StepKeepsTree
<1> QED BY InitFlags, InitTree, IInvHolds, <1>1, <1>2, PTL DEF Spec
-----------------------------------------------------------------------------
\* A node has one parent.
LEMMA OneParent ==
    ASSUME Types, NEW m \in 1..Len(tree), NEW p \in 1..(m - 1), NEW k \in 1..(m - 1),
           Above(tree, p, m), tree[k].depth = tree[m].depth - 1,
           \A j \in (k + 1)..m : tree[j].depth >= tree[m].depth
    PROVE  k = p
<1>1. /\ m \in 1..Len(tree) /\ p \in 1..Len(tree) /\ k \in 1..Len(tree)
      /\ m \in Nat /\ p \in Nat /\ k \in Nat /\ p < m /\ k < m
  BY NodeFacts
<1>2. tree[m].depth \in Nat /\ tree[p].depth \in Nat /\ tree[k].depth \in Nat
  BY <1>1, NodeFacts
<1>3. ~(k < p)
  <2> SUFFICES ASSUME k < p PROVE FALSE
    OBVIOUS
  <2>1. p \in (k + 1)..m
    BY <1>1
  <2>2. tree[p].depth >= tree[m].depth /\ tree[m].depth = tree[p].depth + 1
    BY <2>1 DEF Above
  <2> QED BY <1>2, <2>2
<1>4. ~(p < k)
  <2> SUFFICES ASSUME p < k PROVE FALSE
    OBVIOUS
  <2>1. k \in (p + 1)..m
    BY <1>1
  <2>2. tree[k].depth >= tree[m].depth
    BY <2>1 DEF Above
  <2> QED BY <1>2, <2>2
<1> QED BY <1>1, <1>3, <1>4

\* Each block is a child of one that may have it.
LEMMA FittingIsWellFormed ==
    ASSUME Types, Fitting
    PROVE  TreeWellFormed
<1> SUFFICES ASSUME NEW m \in 1..Len(tree)
             PROVE  LET above == {k \in 1..(m - 1) : /\ tree[k].depth = tree[m].depth - 1
                                                     /\ \A j \in (k + 1)..m : tree[j].depth >= tree[m].depth}
                        parents == {tree[k].type : k \in above}
                    IN  /\ m = 1 => tree[m].depth = 0
                        /\ m > 1 => tree[m].depth <= tree[m - 1].depth + 1
                        /\ CASE tree[m].type \in Items -> \E t \in Lists : parents = {t}
                             [] tree[m].type \in {"term", "definition"} -> parents = {"deflist"}
                             [] tree[m].type \in {"table_header", "table_section"} -> parents = {"table"}
                             [] OTHER -> \/ tree[m].depth = 0
                                         \/ \E t \in Items \cup {"blockquote", "def_note", "definition"} : parents = {t}
                                         \/ tree[m].type = "empty" /\ \E t \in Lists \cup {"deflist"} : parents = {t}
  BY DEF TreeWellFormed
<1> DEFINE above == {k \in 1..(m - 1) : /\ tree[k].depth = tree[m].depth - 1
                                        /\ \A j \in (k + 1)..m : tree[j].depth >= tree[m].depth}
           parents == {tree[k].type : k \in above}
<1>1. m \in Nat /\ \A k \in 1..m : k \in 1..Len(tree) /\ tree[k].depth \in Nat
  BY NodeFacts
<1>2. CASE tree[m].depth = 0 /\ tree[m].type \in Blocks
  <2>1. m > 1 => m - 1 \in 1..m
    BY <1>1
  <2>2. m > 1 => tree[m].depth <= tree[m - 1].depth + 1
    BY <1>1, <1>2, <2>1
  <2>3. tree[m].type \notin Items \cup {"term", "definition"} \cup {"table_header", "table_section"}
    BY <1>2 DEF Blocks, Items
  <2> QED BY <1>2, <2>2, <2>3
<1>3. CASE ~(tree[m].depth = 0 /\ tree[m].type \in Blocks)
  <2>1. PICK p \in 1..(m - 1) : Above(tree, p, m) /\ Suits(tree[p], tree[m], stripped)
    BY <1>3 DEF Fitting, Fits
  <2>2. p \in above
    <3>1. p \in 1..m /\ m \in 1..m
      BY <1>1, <2>1
    <3>2. tree[p].depth = tree[m].depth - 1
      BY <1>1, <2>1, <3>1 DEF Above
    <3> QED BY <2>1, <3>2 DEF Above
  <2>3. \A k \in above : k = p
    BY <2>1, OneParent
  <2>4. parents = {tree[p].type}
    BY <2>2, <2>3
  <2>5. m # 1
    BY <2>1
  <2>6. tree[m].depth <= tree[m - 1].depth + 1
    <3>1. tree[m].depth = tree[p].depth + 1 /\ \A j \in (p + 1)..m : tree[j].depth >= tree[m].depth
      BY <2>1 DEF Above
    <3>2. p = m - 1 \/ m - 1 \in (p + 1)..m
      BY <1>1, <2>1
    <3>3. m \in 1..m /\ m - 1 \in 1..m
      BY <1>1, <2>1
    <3>4. tree[m].depth \in Nat /\ tree[m - 1].depth \in Nat
      BY <1>1, <3>3
    <3> QED BY <3>1, <3>2, <3>4
  <2>7. tree[p].type \in ParentTypes(tree[m].type)
    BY <2>1 DEF Suits
  <2> HIDE DEF parents
  <2>8. CASE tree[m].type \in Items
    <3>1. tree[p].type \in Lists
      BY <2>7, <2>8 DEF ParentTypes
    <3>2. tree[m].type \notin {"term", "definition"} \cup {"table_header", "table_section"}
      BY <2>8 DEF Items
    <3> QED BY <2>4, <2>5, <2>6, <2>8, <3>1, <3>2 DEF parents
  <2>9. CASE tree[m].type \in {"term", "definition"}
    <3>1. tree[m].type \notin Items
      BY <2>9 DEF Items
    <3> QED BY <2>4, <2>5, <2>6, <2>7, <2>9, <3>1 DEF ParentTypes, parents
  <2>10. CASE tree[m].type \in {"table_header", "table_section"}
    <3>1. tree[m].type \notin Items \cup {"term", "definition"}
      BY <2>10 DEF Items
    <3> QED BY <2>4, <2>5, <2>6, <2>7, <2>10, <3>1 DEF ParentTypes, Rowed, parents
  <2>11. CASE tree[m].type \notin Items \cup {"term", "definition"} \cup {"table_header", "table_section"}
    <3>1. \/ tree[p].type \in Items \cup {"blockquote", "def_note", "definition"}
          \/ tree[m].type = "empty" /\ tree[p].type \in Lists \cup {"deflist"}
      BY <2>7, <2>11 DEF ParentTypes, Rowed, Containers
    <3> QED BY <2>4, <2>5, <2>6, <2>11, <3>1 DEF parents
  <2>12. \/ tree[m].type \in Items \/ tree[m].type \in {"term", "definition"}
         \/ tree[m].type \in {"table_header", "table_section"}
         \/ tree[m].type \notin Items \cup {"term", "definition"} \cup {"table_header", "table_section"}
    OBVIOUS
  <2> QED BY <2>8, <2>9, <2>10, <2>11, <2>12, Zenon
<1> QED BY <1>2, <1>3

\* No empty line is among the blocks of a tight item.
LEMMA FittingHasNoGaps ==
    ASSUME Types, Fitting
    PROVE  TightItemsHaveNoGaps
<1> SUFFICES ASSUME NEW m \in 1..Len(tree), NEW k \in 1..(Len(tree) - 1), tree[m].type = "item_tight",
                    m < k, \A j \in (m + 1)..k : tree[j].depth > tree[m].depth,
                    tree[k].depth = tree[m].depth + 1, tree[k].type = "empty"
             PROVE  \A i \in tree[k].lines : stripped[i] > 0
  BY DEF TightItemsHaveNoGaps
<1>1. /\ Len(tree) \in Nat /\ k \in 1..Len(tree) /\ m \in 1..(k - 1)
      /\ \A j \in (m + 1)..k : j \in 1..Len(tree)
      /\ \A j \in 1..Len(tree) : tree[j].depth \in Nat
  BY NodeFacts
<1>2. tree[m].depth = tree[k].depth - 1 /\ \A j \in (m + 1)..k : tree[j].depth >= tree[k].depth
  BY <1>1
<1>3. tree[k].depth # 0
  BY <1>1
<1>4. PICK p \in 1..(k - 1) : Above(tree, p, k) /\ Suits(tree[p], tree[k], stripped)
  BY <1>1, <1>3 DEF Fitting, Fits
<1>5. m = p
  BY <1>1, <1>2, <1>4, OneParent
<1> QED BY <1>4, <1>5 DEF Suits
-----------------------------------------------------------------------------
\* When doc() returns, all text was tokenized, but for the definition of a note
\* in a note and what follows it at its side: no paragraph, header or term is
\* left to the exporters as it was read.
THEOREM TextIsTokenized == Spec => []TextTokenized
<1>1. KInv => TextTokenized
  <2> SUFFICES ASSUME KInv, frames = <<>>, NEW m \in 1..Len(tree),
                      tree[m].type \in {"para", "header", "setext", "term"}, tree[m].lines # {},
                      tree[m].tokens = "none"
               PROVE  Excused(tree, stripped, m)
    BY DEF TextTokenized, Excused
  <2>1. Untold(tree[m])
    BY DEF Untold, Texts
  <2>2. DOMAIN frames = {}
    OBVIOUS
  <2> QED BY <2>1, <2>2 DEF KInv, AllTold
<1> QED BY TreeInvariant, <1>1, PTL

\* The marks of the blocks are hidden from the text: a colon that was stripped is
\* shown only behind a definition list in another one, and other markers only in
\* the rows of tables.
THEOREM MarkersAreHidden == Spec => []MarkersHidden
<1>1. KInv => MarkersHidden
  BY DEF KInv, AllHidden, MarkersHidden, Rowed
<1> QED BY TreeInvariant, <1>1, PTL

\* The tree has the shape that the exporters expect: an item is in a list, a term
\* in a definition list, a row in a table, and what was judged to be a tight item
\* has no empty line among its blocks.
THEOREM TreeIsShaped == Spec => []TreeShaped
<1>1. IInv /\ TInv => TreeShaped
  BY FittingIsWellFormed, FittingHasNoGaps DEF IInv, TInv, TreeShaped
<1> QED BY TreeInvariant, <1>1, PTL
=============================================================================
