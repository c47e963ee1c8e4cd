------------------------------ MODULE Contents ------------------------------
(***************************************************************************)
(* Three exports walk over the headers of a document with one counter that *)
(* all levels of a recursion share: the table of contents of the API       *)
(* (extract_toc_entry), the one of an HTML page (export_toc_entry), and    *)
(* the outline (export_outline_outline).  The outline can be imported as   *)
(* text again (mmd_import_outline).                                        *)
(*                                                                         *)
(* A document is a sequence of pieces: metadata, the text before the first *)
(* header, and for each header its line and the text behind it.            *)
(***************************************************************************)
EXTENDS Integers, Sequences, FiniteSetsExt, SequencesExt

CONSTANTS HeaderLists,  \* the headers of the documents
          Ranges        \* <<min, max>> of {{TOC:min-max}}

\* Where a header stands: in a quotation its line begins with > (header_is_valid)
Header == [level : 1..6, in : {"document", "quote", "list"}]
ASSUME HeaderListsAssumption == HeaderLists \subseteq Seq(Header)
ASSUME RangesAssumption == Ranges \subseteq Nat \X Nat

VARIABLES headers,   \* r->header_stack
          has_meta, has_preamble,
          walk,      \* "toc", "html" or "outline"
          min, max,  \* the levels that the HTML page lists
          counter,   \* shared by all levels of the recursion, from 0
          calls,     \* the calls: their level and the header whose children they list
          entries,   \* what was listed
          stage,     \* "walk", "import" or "done"
          read,      \* how many topics of the outline were read
          in_meta, metadata, output  \* the import's flag and its two buffers

vars == <<headers, has_meta, has_preamble, walk, min, max, counter, calls, entries,
          stage, read, in_meta, metadata, output>>

Size == Len(headers)
Level(k) == headers[k + 1].level
header_is_valid(h) == h.in # "quote"
Valid(k) == header_is_valid(headers[k + 1])

\* Pieces of the document: 0 is metadata, 1 the preamble, 2k + 2 the line of
\* header k and 2k + 3 what is behind it
Line(k) == 2 * k + 2
Behind(k) == 2 * k + 3
Pieces(first, last) == [p \in 1..(last - first + 1) |-> first + p - 1]
AllPieces == (IF has_meta THEN <<0>> ELSE <<>>) \o (IF has_preamble THEN <<1>> ELSE <<>>)
             \o Pieces(2, 2 * Size + 1)

Init ==
    /\ headers \in HeaderLists
    /\ has_meta \in BOOLEAN /\ has_preamble \in BOOLEAN
    /\ walk \in {"toc", "html", "outline"}
    /\ \E r \in (IF walk = "html" THEN Ranges ELSE {<<0, 6>>}) : min = r[1] /\ max = r[2]
    /\ counter = 0
    /\ calls = <<[level |-> 0, parent |-> -1]>>
    /\ entries = <<>>
    /\ stage = "walk" /\ read = 0
    /\ in_meta = FALSE /\ metadata = <<>> /\ output = <<>>
-----------------------------------------------------------------------------
(* The recursion                                                           *)

Call == Last(calls)

\* Headers that the walk passes over
Ignored(k) == IF walk = "html" THEN Level(k) < min \/ Level(k) > max ELSE ~Valid(k)

\* The header that is compared with header k: the next one, or the next valid one
NextValid(k) ==
    Min({Size} \cup {j \in (k + 1)..(Size - 1) : walk = "html" \/ Valid(j)})
NextAny(k) == k + 1  \* mutant
Following(k) == NextValid(k)

\* Where an entry begins and ends: h->node->start counts from the beginning of
\* the list that the header is in
Start(k) == IF headers[k + 1].in = "list" THEN 0 ELSE Line(k)
Entry(k) == [header |-> k, parent |-> Call.parent, depth |-> Len(calls),
             start |-> Start(k),
             end |-> IF Following(k) = Size THEN Line(Size)
                     ELSE Start(k) + Line(Following(k)) - Line(k)]

DeeperThan(k) == Level(k) + 1
AsDeepAs(k) == Level(k)  \* mutant
ChildLevel(k) == DeeperThan(k)

Forward(k) == k + 1
Stay(k) == k  \* mutant
AfterIgnored(k) == Forward(k)

Walking == stage = "walk" /\ calls # <<>> /\ counter < Size

Ignore ==
    /\ Walking /\ Ignored(counter)
    /\ counter' = AfterIgnored(counter)
    /\ UNCHANGED <<headers, has_meta, has_preamble, walk, min, max, calls, entries,
                   stage, read, in_meta, metadata, output>>

\* The header is listed; the next ones are its children if they are deeper
List ==
    /\ Walking /\ ~Ignored(counter) /\ Level(counter) >= Call.level
    /\ LET next == Following(counter)
       IN  /\ entries' = Append(entries, Entry(counter))
           /\ calls' = IF next < Size /\ Level(next) > Level(counter)
                       THEN Append(calls, [level |-> ChildLevel(counter), parent |-> counter])
                       ELSE calls
           /\ counter' = next
    /\ UNCHANGED <<headers, has_meta, has_preamble, walk, min, max,
                   stage, read, in_meta, metadata, output>>

\* A header that is not deeper ends the call.  The counter goes back, and the
\* caller takes it forward again.
BackForCaller(k) == k
PastHeader(k) == k + 1  \* mutant
AfterReturn(k) == BackForCaller(k)
Leave ==
    /\ Walking /\ ~Ignored(counter) /\ Level(counter) < Call.level
    /\ calls' = Front(calls)
    /\ counter' = AfterReturn(counter)
    /\ UNCHANGED <<headers, has_meta, has_preamble, walk, min, max, entries,
                   stage, read, in_meta, metadata, output>>

\* No header is left: every call returns
Exhaust ==
    /\ stage = "walk" /\ calls # <<>> /\ counter >= Size
    /\ calls' = Front(calls)
    /\ counter' = IF Len(calls) > 1 THEN counter + 1 ELSE counter
    /\ UNCHANGED <<headers, has_meta, has_preamble, walk, min, max, entries,
                   stage, read, in_meta, metadata, output>>

EndWalk ==
    /\ stage = "walk" /\ calls = <<>>
    /\ stage' = IF walk = "outline" THEN "import" ELSE "done"
    /\ UNCHANGED <<headers, has_meta, has_preamble, walk, min, max, counter, calls, entries,
                   read, in_meta, metadata, output>>
-----------------------------------------------------------------------------
(* The outline and its import                                              *)

\* The preamble ends at header 0 if that is valid, and else nowhere: the loop
\* looks at header 0 again and again (export_outline_preamble)
PreambleEnd == IF Size > 0 /\ Valid(0) THEN 0 ELSE Size
Preamble == (IF has_preamble THEN <<1>> ELSE <<>>) \o Pieces(2, Line(PreambleEnd) - 1)

\* A header has the text up to the next valid one as its note
Note(k) == Pieces(Behind(k), Line(Following(k)) - 1)
Topic(what, line, note, depth) == [what |-> what, line |-> line, note |-> note, depth |-> depth]
Outline ==
    (IF Preamble = <<>> THEN <<>> ELSE <<Topic("preamble", 0, Preamble, 1)>>)
    \o [k \in DOMAIN entries |->
           Topic("header", Line(entries[k].header), Note(entries[k].header), entries[k].depth)]
    \o (IF has_meta THEN <<Topic("metadata", 0, <<>>, 1), Topic("key", 0, <<0>>, 2)>> ELSE <<>>)

\* Text, or a header that is written with depth times #
Text(pieces) == [k \in DOMAIN pieces |-> [piece |-> pieces[k], level |-> 0]]

\* One topic of the outline is read: its text and its note
ReadTopic ==
    /\ stage = "import" /\ read < Len(Outline)
    /\ read' = read + 1
    /\ LET topic == Outline[read + 1]
       IN  /\ in_meta' = (in_meta \/ topic.what = "metadata")
           /\ metadata' = metadata \o (IF in_meta' THEN Text(topic.note) ELSE <<>>)
           /\ output' = output \o
                  (IF in_meta' THEN <<>>
                   ELSE (IF topic.what = "header"
                         THEN <<[piece |-> topic.line, level |-> topic.depth]>>
                         ELSE <<>>) \o Text(topic.note))
    /\ UNCHANGED <<headers, has_meta, has_preamble, walk, min, max, counter, calls, entries, stage>>

EndImport ==
    /\ stage = "import" /\ read = Len(Outline)
    /\ stage' = "done"
    /\ UNCHANGED <<headers, has_meta, has_preamble, walk, min, max, counter, calls, entries,
                   read, in_meta, metadata, output>>

Next == Ignore \/ List \/ Leave \/ Exhaust \/ EndWalk \/ ReadTopic \/ EndImport

Done == stage = "done"

Spec == Init /\ [][Next]_vars
FairSpec == Spec /\ WF_vars(Next)
-----------------------------------------------------------------------------
(* Properties                                                              *)

\* Types of the variables; the calls are nested as deep as levels can be
TypeOK ==
    /\ counter \in 0..(Size + 7)
    /\ Len(calls) <= 7
    /\ \A k \in DOMAIN calls : /\ calls[k].level \in 0..7
                               /\ calls[k].parent \in -1..(Size - 1)
                               /\ k > 1 => calls[k].level > calls[k - 1].level
    /\ \A k \in DOMAIN entries : entries[k].header \in 0..(Size - 1) /\ entries[k].depth \in 1..7
    /\ stage \in {"walk", "import", "done"} /\ read \in Nat /\ in_meta \in BOOLEAN

Listed == {k \in 0..(Size - 1) : ~Ignored(k)}
Above(k) == {j \in Listed : j < k /\ Level(j) < Level(k)}

\* Every header that the walk does not ignore is listed once and in order, as
\* a child of the nearest header before it that has a lower level, although
\* the calls share the counter and return in the middle of the list.  Where
\* the page's range leaves out a level above others the parent is only some
\* header before with a lower level.
ContentsMirrorHeaders ==
    stage # "walk" =>
        /\ {entries[k].header : k \in DOMAIN entries} = Listed
        /\ \A j, k \in DOMAIN entries : j < k => entries[j].header < entries[k].header
        /\ \A k \in DOMAIN entries :
               LET e == entries[k]
               IN  IF walk = "html" /\ \E j \in 0..(Size - 1) : Level(j) < min
                   THEN e.parent \in Above(e.header) \cup {-1}
                   ELSE e.parent = Max(Above(e.header) \cup {-1})

\* The entries of the table of contents cover the text from the first valid
\* header to the end, each up to the next one.  (The range of a header in a
\* list has the right length only, or if it is the last one the right end.)
RangesCoverText ==
    walk = "toc" /\ Done => \A k \in DOMAIN entries :
        LET e == entries[k]
            stop == IF k < Len(entries) THEN Line(entries[k + 1].header) ELSE Line(Size)
            moved == IF headers[e.header + 1].in = "list" THEN Line(e.header) ELSE 0
        IN  /\ e.start = Line(e.header) - moved
            /\ e.end = IF stop = Line(Size) THEN stop ELSE stop - moved

FirstValid == Min({Size} \cup {k \in 0..(Size - 1) : Valid(k)})
Imported == LET all == metadata \o output IN [k \in DOMAIN all |-> all[k].piece]

\* Text that is exported as an outline and imported again has all its pieces
\* once and in order, if its first header is not in a quotation.  (Otherwise, if
\* another header is not in one, it comes back with all of it in front.)
OutlineKeepsText ==
    walk = "outline" /\ Done /\ FirstValid \in {0, Size} => Imported = AllPieces

\* The user's guide on exporting an outline and reading it again: "This allows you
\* to "round trip" between applications".  The text comes back in its order,
\* whatever its headers are; in fact, if the first one is in a quotation and
\* another one is not, all of the text comes back in front of itself.
OutlineRoundTrip == walk = "outline" /\ Done => Imported = AllPieces

\* The walk and the import end.
WalkEnds == <>Done
=============================================================================
