------------------------ MODULE TransclusionProofs ------------------------
(* Proofs about Transclusion, for every disk and every depth.              *)
EXTENDS Transclusion, TLAPS, FiniteSetTheorems, SequenceTheorems,
        WellFoundedInduction, NaturalsInduction

\* The document at every path, and every path a token may name, is well formed.
LEMMA DocumentFacts ==
    ASSUME disk \in Disks, command \in Commands
    PROVE  /\ \A p \in Paths : Contents(p) \in Document
           /\ SourceDocument \in Document
           /\ \A d, s, e : realpath(d, s, e) \in Paths \cup {NULL}
           /\ command.source \in Paths \cup {NULL}
           /\ \A p \in Paths : NoRelativeBase => Contents(p).base.kind # "relative"
           /\ NoRelativeBase => SourceDocument.base.kind # "relative"
<1>1. IsDisk(disk) /\ command \in Command
  BY DiskAssumption
<1>2. Empty \in Document
  BY DEF Empty, Document, Base
<1>3. \A d, s, e : realpath(d, s, e) \in Paths \cup {NULL}
  BY <1>1 DEF realpath, IsDisk
<1>4. \A p \in Paths : Contents(p) \in Document
  BY <1>1, <1>2 DEF Contents, IsDisk, Paths
<1>5. SourceDocument \in Document /\ command.source \in Paths \cup {NULL}
  BY <1>1 DEF SourceDocument, IsDisk, Command, Paths
<1>6. \A p \in Paths : NoRelativeBase => Contents(p).base.kind # "relative"
  BY <1>1 DEF Contents, NoRelativeBase, Documents, Paths, Empty
<1>7. NoRelativeBase => SourceDocument.base.kind # "relative"
  BY DEF SourceDocument, NoRelativeBase, Documents
<1> QED
  BY <1>3, <1>4, <1>5, <1>6, <1>7

\* Reading a document starts a well-formed call, behind the metadata.
LEMMA CallFacts ==
    ASSUME NEW p \in Paths \cup {NULL}, NEW d \in Document, NEW s \in Paths \cup {NULL},
           NEW c \in Nat
    PROVE  /\ Call(p, d, s, c) \in Calls
           /\ Call(p, d, s, c).file = p /\ Call(p, d, s, c).parsed = p
           /\ Call(p, d, s, c).meta = d.meta /\ Call(p, d, s, c).pos = d.meta + 1
           /\ Call(p, d, s, c).pos <= Len(Call(p, d, s, c).buffer) + 1
BY DEF Call, Calls, Document

\* transcludebase changes the search path, and the path in `parsed' only when
\* it is relative.
LEMMA RebasedFacts ==
    ASSUME disk \in Disks, command \in Commands,
           NEW call \in Calls, NEW base \in Base,
           base.kind = "relative" => call.file \in Paths
    PROVE  LET r == Rebased(call, base)
           IN  /\ r \in Calls /\ r.file = call.file /\ r.buffer = call.buffer
               /\ r.meta = call.meta /\ r.pos = call.pos
               /\ base.kind # "relative" => r.parsed = call.parsed
<1>1. CASE base.kind = "none"
  BY <1>1 DEF Rebased
<1>2. CASE base.kind = "absolute"
  <2>1. base.name \in Paths \cup {NULL}
    BY <1>2 DEF Base, Paths
  <2> QED
    BY <1>2, <2>1 DEF Rebased, Calls
<1>3. CASE base.kind = "relative"
  <2>1. DirOf[call.file] \in Paths
    BY <1>3, DiskAssumption DEF Paths
  <2>2. realpath(DirOf[call.file], base.name, "") \in Paths \cup {NULL}
    BY DocumentFacts
  <2> QED
    BY <1>3, <2>1, <2>2 DEF Rebased, Calls
<1> QED
  BY <1>1, <1>2, <1>3 DEF Base

\* Capacities are natural numbers, whatever grows.
LEMMA CapacityFacts ==
    /\ \A items \in Seq(Item) : buffer_file(items) \subseteq Nat
    /\ \A capacity, size \in Nat : ensure_capacity(capacity, size) \subseteq Nat
<1>1. ASSUME NEW capacity \in Nat, NEW size \in Nat
      PROVE  Doubled(capacity, size) \subseteq Nat
  BY DEF Doubled
<1>2. \A items \in Seq(Item) : buffer_file(items) \subseteq Nat
  BY <1>1, BoundAssumption DEF buffer_file
<1>3. \A capacity, size \in Nat : ensure_capacity(capacity, size) \subseteq Nat
  BY <1>1 DEF ensure_capacity
<1> QED
  BY <1>2, <1>3
-----------------------------------------------------------------------------
(* The invariant.                                                          *)

\* The initial call is the untouched source document.
LEMMA InitInv == Init => IInv
<1> SUFFICES ASSUME Init PROVE IInv
  OBVIOUS
<1>1. PICK c \in buffer_file(SourceDocument.items) :
        calls = <<Call(command.source, SourceDocument, NULL, c)>>
  BY DEF Init
<1>2. disk \in Disks /\ command \in Commands
  BY DEF Init
<1>3. SourceDocument \in Document /\ command.source \in Paths \cup {NULL}
  BY <1>2, DocumentFacts
<1>4. SourceDocument.items \in Seq(Item)
  BY <1>3 DEF Document
<1>5. c \in Nat
  BY <1>1, <1>4, CapacityFacts
<1> DEFINE first == Call(command.source, SourceDocument, NULL, c)
<1>6. /\ first \in Calls /\ first.file = command.source /\ first.parsed = command.source
      /\ first.meta = SourceDocument.meta /\ first.pos = SourceDocument.meta + 1
      /\ first.pos <= Len(first.buffer) + 1
  <2>1. NULL \in Paths \cup {NULL}
    OBVIOUS
  <2> HIDE DEF first
  <2>2. ASSUME NEW d \in Document, NEW p \in Paths \cup {NULL}
        PROVE  /\ Call(p, d, NULL, c) \in Calls
               /\ Call(p, d, NULL, c).file = p /\ Call(p, d, NULL, c).parsed = p
               /\ Call(p, d, NULL, c).meta = d.meta /\ Call(p, d, NULL, c).pos = d.meta + 1
               /\ Call(p, d, NULL, c).pos <= Len(Call(p, d, NULL, c).buffer) + 1
    BY <1>5, <2>1, CallFacts
  <2> QED
    BY <1>3, <2>2 DEF first
<1>7. calls = <<first>> /\ Depth = 1 /\ calls[1] = first /\ calls \in Seq(Calls) \ {<<>>}
  BY <1>1, <1>6 DEF Depth
<1>8. SourceDocument.meta \in Nat
  BY <1>3 DEF Document
<1> HIDE DEF first
<1>9. TypeOK
  BY <1>2, <1>6, <1>7, <1>8 DEF TypeOK, Init
<1>10. OnlyCutPathsRepeat /\ CallersWaitAtTokens
  BY <1>7 DEF OnlyCutPathsRepeat, CallersWaitAtTokens
<1>11. WholePaths /\ Untouched
  BY <1>6, <1>7 DEF WholePaths, Untouched
<1> QED
  BY <1>9, <1>10, <1>11 DEF IInv

\* The header goes behind the metadata and the footer to the end.
LEMMA HeaderKeeps == IInv /\ mmd_add_mmd_header_footer => IInv'
<1> SUFFICES ASSUME IInv, mmd_add_mmd_header_footer PROVE IInv'
  OBVIOUS
<1> USE DEF IInv
<1>1. /\ status = "header" /\ status' = "start" /\ disk' = disk /\ command' = command
      /\ failed' = failed /\ accidents' = accidents /\ SourceDocument' = SourceDocument
  BY DEF mmd_add_mmd_header_footer, SourceDocument
<1>2. /\ disk \in Disks /\ command \in Commands /\ calls \in Seq(Calls) \ {<<>>}
      /\ calls[1].pos = SourceDocument.meta + 1 /\ calls[1].meta = SourceDocument.meta
      /\ calls[1].file = command.source /\ calls[1].parsed = command.source
  BY <1>1 DEF TypeOK, Untouched
<1>3. calls[1] \in Calls
  BY <1>2
<1>4. SourceDocument \in Document
  BY <1>2, DocumentFacts
<1>5. CASE UNCHANGED calls
  BY <1>1, <1>5 DEF TypeOK, OnlyCutPathsRepeat, CallersWaitAtTokens, WholePaths,
                    NoRelativeBase, Documents, Untouched, Depth
<1>6. CASE ~UNCHANGED calls
  <2> DEFINE d == SourceDocument
             items == SubSeq(d.items, 1, d.meta) \o d.header
                      \o SubSeq(d.items, d.meta + 1, Len(d.items)) \o d.footer
  <2>1. PICK c \in ensure_capacity(calls[1].capacity, Len(items)) :
          calls' = <<[calls[1] EXCEPT !.buffer = items, !.capacity = c]>>
    BY <1>6 DEF mmd_add_mmd_header_footer
  <2>2. /\ d.items \in Seq(Item) /\ d.header \in Seq(Item) /\ d.footer \in Seq(Item)
        /\ d.meta \in Nat /\ d.meta <= Len(d.items)
    BY <1>4 DEF Document
  <2>3. /\ SubSeq(d.items, 1, d.meta) \in Seq(Item) /\ Len(SubSeq(d.items, 1, d.meta)) = d.meta
        /\ SubSeq(d.items, d.meta + 1, Len(d.items)) \in Seq(Item)
    BY <2>2
  <2>4. items \in Seq(Item) /\ Len(items) >= d.meta
    <3> DEFINE p == SubSeq(d.items, 1, d.meta)
               q == d.header
               r == SubSeq(d.items, d.meta + 1, Len(d.items))
               t == d.footer
    <3>1. p \in Seq(Item) /\ q \in Seq(Item) /\ r \in Seq(Item) /\ t \in Seq(Item) /\ Len(p) = d.meta
      BY <2>2, <2>3
    <3> HIDE DEF p, q, r, t
    <3>2. p \o q \o r \o t \in Seq(Item) /\ Len(p \o q \o r \o t) >= Len(p)
      BY <3>1
    <3> QED
      BY <3>1, <3>2 DEF p, q, r, t
  <2> HIDE DEF items, d
  <2>5. c \in Nat
    BY <1>3, <2>1, <2>4, CapacityFacts DEF Calls
  <2> DEFINE first == [calls[1] EXCEPT !.buffer = items, !.capacity = c]
  <2>6. /\ first \in Calls /\ first.file = command.source /\ first.parsed = command.source
        /\ first.meta = d.meta /\ first.pos = d.meta + 1 /\ first.buffer = items
    BY <1>2, <1>3, <2>4, <2>5 DEF Calls, d
  <2> HIDE DEF first
  <2>7. calls' = <<first>> /\ Depth' = 1 /\ calls'[1] = first
    BY <2>1 DEF Depth, first
  <2>8. TypeOK'
    BY <1>1, <2>2, <2>4, <2>6, <2>7 DEF TypeOK
  <2>9. (OnlyCutPathsRepeat /\ CallersWaitAtTokens /\ WholePaths)'
    BY <2>6, <2>7 DEF OnlyCutPathsRepeat, CallersWaitAtTokens, WholePaths
  <2>10. Untouched'
    BY <1>1, <2>6, <2>7 DEF Untouched, d
  <2> QED
    BY <2>8, <2>9, <2>10
<1> QED
  BY <1>5, <1>6

\* The first call gets its search path, and may cut its own path.
LEMMA StartKeeps == IInv /\ mmd_transclude => IInv'
<1> SUFFICES ASSUME IInv, mmd_transclude PROVE IInv'
  OBVIOUS
<1> USE DEF IInv
<1>1. /\ status = "start" /\ status' \in {"done", "crashed", "scan"}
      /\ disk' = disk /\ command' = command /\ failed' = failed /\ accidents' = accidents
  BY DEF mmd_transclude
<1>2. /\ disk \in Disks /\ command \in Commands /\ calls \in Seq(Calls) \ {<<>>}
      /\ calls[1].file = command.source /\ calls[1].parsed = command.source
  BY <1>1 DEF TypeOK, Untouched
<1>3. CASE UNCHANGED calls
  BY <1>1, <1>3 DEF TypeOK, OnlyCutPathsRepeat, CallersWaitAtTokens, WholePaths,
                    NoRelativeBase, Documents, Untouched, Depth
<1>4. CASE ~UNCHANGED calls
  <2> DEFINE base == SourceDocument.base
             call == [calls[1] EXCEPT !.search = SearchPath]
             first == Rebased(call, base)
  <2>1. /\ calls' = <<first>> /\ SearchPath # NULL
        /\ base.kind = "relative" => command.source # NULL
    BY <1>4 DEF mmd_transclude
  <2>2. calls[1] \in Calls /\ 1 \in 1..Depth
    BY <1>2 DEF Depth
  <2>3. base \in Base /\ command.source \in Paths \cup {NULL}
    BY <1>2, DocumentFacts DEF Document
  <2>4. SearchPath \in Paths
    BY <2>1, <2>3, DiskAssumption DEF SearchPath, Paths
  <2>5. /\ call \in Calls /\ call.file = command.source /\ call.parsed = command.source
        /\ call.buffer = calls[1].buffer /\ call.meta = calls[1].meta /\ call.pos = calls[1].pos
    BY <1>2, <2>2, <2>4 DEF Calls
  <2> HIDE DEF call
  <2>6. /\ first \in Calls /\ first.file = command.source
        /\ first.buffer = calls[1].buffer /\ first.meta = calls[1].meta /\ first.pos = calls[1].pos
        /\ base.kind # "relative" => first.parsed = command.source
    BY <1>2, <2>1, <2>3, <2>5, RebasedFacts
  <2> HIDE DEF first
  <2>7. Depth' = 1 /\ calls'[1] = first
    BY <2>1 DEF Depth
  <2>8. TypeOK'
    BY <1>1, <2>1, <2>2, <2>6, <2>7 DEF TypeOK
  <2>9. (OnlyCutPathsRepeat /\ CallersWaitAtTokens)'
    BY <2>7 DEF OnlyCutPathsRepeat, CallersWaitAtTokens
  <2>10. WholePaths'
    <3>1. NoRelativeBase' = NoRelativeBase
      BY <1>1 DEF NoRelativeBase, Documents
    <3>2. NoRelativeBase => base.kind # "relative"
      BY <1>2, DocumentFacts
    <3> QED
      BY <2>6, <2>7, <3>1, <3>2 DEF WholePaths
  <2>11. Untouched'
    BY <1>1 DEF Untouched
  <2> QED
    BY <2>8, <2>9, <2>10, <2>11
<1> QED
  BY <1>3, <1>4

\* There is always a call, and calls are what TypeOK says.
LEMMA CurrentFacts ==
    ASSUME TypeOK
    PROVE  /\ Depth \in Nat \ {0} /\ calls \in Seq(Calls) /\ Current \in Calls
           /\ Depth = Len(calls) /\ \A i \in 1..Depth : calls[i] \in Calls
           /\ disk \in Disks /\ command \in Commands
BY DEF TypeOK, Depth, Current

\* A step that leaves the disk, the calls and the command alone.
LEMMA SameCallsKeep ==
    ASSUME IInv, UNCHANGED <<disk, command, calls, failed, accidents>>,
           status' \in {"scan", "done", "crashed"} \/ UNCHANGED status
    PROVE  IInv'
BY DEF IInv, TypeOK, OnlyCutPathsRepeat, CallersWaitAtTokens, WholePaths, NoRelativeBase,
       Documents, Untouched, SourceDocument, Depth

\* The scan of the innermost call goes on to the next item.
LEMMA AdvanceKeeps ==
    ASSUME IInv, Scanning, calls' = Advance(calls), UNCHANGED <<disk, command, status>>,
           failed' \subseteq Denied, accidents' \subseteq accidents \cup {"hidden"}
    PROVE  IInv'
<1> USE DEF IInv
<1>1. /\ Depth \in Nat \ {0} /\ calls \in Seq(Calls) /\ Depth = Len(calls)
      /\ \A i \in 1..Depth : calls[i] \in Calls
  BY CurrentFacts
<1> DEFINE moved == [calls[Depth] EXCEPT !.pos = @ + 1]
<1>2. /\ moved \in Calls /\ moved.file = calls[Depth].file /\ moved.parsed = calls[Depth].parsed
      /\ moved.buffer = calls[Depth].buffer /\ moved.meta = calls[Depth].meta
      /\ moved.pos = calls[Depth].pos + 1
  <2>1. calls[Depth] \in Calls
    BY <1>1
  <2> QED
    BY <2>1 DEF Calls
<1>3. /\ calls' = [calls EXCEPT ![Depth] = moved]
      /\ Depth' = Depth /\ calls' \in Seq(Calls) \ {<<>>}
      /\ \A i \in 1..Depth : calls'[i] = IF i = Depth THEN moved ELSE calls[i]
  BY <1>1, <1>2 DEF Advance, Depth
<1>4. calls[Depth].pos <= Len(calls[Depth].buffer)
  BY DEF Scanning, Current
<1>5. \A i \in 1..Depth : /\ calls'[i].file = calls[i].file /\ calls'[i].parsed = calls[i].parsed
                          /\ calls'[i].buffer = calls[i].buffer /\ calls'[i].meta = calls[i].meta
  BY <1>2, <1>3
<1>6. TypeOK'
  <2>1. \A i \in 1..Depth : calls[i].meta < calls[i].pos /\ calls[i].pos <= Len(calls[i].buffer) + 1
    BY DEF TypeOK
  <2>2. \A i \in 1..Depth : /\ calls'[i].meta < calls'[i].pos
                            /\ calls'[i].pos <= Len(calls'[i].buffer) + 1
    <3> SUFFICES ASSUME NEW i \in 1..Depth
                 PROVE  /\ calls'[i].meta < calls'[i].pos
                        /\ calls'[i].pos <= Len(calls'[i].buffer) + 1
      OBVIOUS
    <3>1. CASE i = Depth
      <4>1. calls[Depth].meta \in Nat /\ calls[Depth].pos \in Nat /\ calls[Depth].buffer \in Seq(Item)
        BY <1>1 DEF Calls
      <4> QED
        BY <3>1, <4>1, <2>1, <1>2, <1>3, <1>4
    <3> QED
      BY <3>1, <2>1, <1>3
  <2> QED
    BY <1>3, <2>2 DEF TypeOK
<1>7. OnlyCutPathsRepeat'
  BY <1>3, <1>5 DEF OnlyCutPathsRepeat
<1>8. CallersWaitAtTokens'
  BY <1>1, <1>3 DEF CallersWaitAtTokens
<1>9. WholePaths'
  BY <1>3, <1>5 DEF WholePaths, NoRelativeBase, Documents
<1>10. Untouched'
  BY DEF Untouched, Scanning
<1> QED
  BY <1>6, <1>7, <1>8, <1>9, <1>10

\* A file is opened only if no path in `parsed' is its own.
LEMMA OpenKeeps == IInv /\ Open => IInv'
<1> SUFFICES ASSUME IInv, Open PROVE IInv'
  OBVIOUS
<1> USE DEF IInv
<1>1. /\ Depth \in Nat \ {0} /\ calls \in Seq(Calls) /\ Depth = Len(calls)
      /\ Current \in Calls /\ \A i \in 1..Depth : calls[i] \in Calls
      /\ disk \in Disks /\ command \in Commands
  BY CurrentFacts
<1> DEFINE document == Contents(file_path)
<1>2. PICK c \in buffer_file(document.items) :
        calls' = Append(calls, Rebased(Call(file_path, document, Current.search, c), document.base))
  BY DEF Open
<1>3. file_path \in Paths /\ file_path \notin parsed
  <2>1. file_path \in Paths \cup {NULL}
    BY <1>1, DocumentFacts DEF file_path, PathOf
  <2> QED
    BY <2>1 DEF Open
<1>4. document \in Document /\ (NoRelativeBase => document.base.kind # "relative")
  BY <1>1, <1>3, DocumentFacts
<1>5. document.items \in Seq(Item) /\ document.base \in Base /\ document.meta \in Nat
  BY <1>4 DEF Document
<1>6. c \in Nat
  BY <1>2, <1>5, CapacityFacts
<1>7. Current.search \in Paths \cup {NULL}
  BY <1>1 DEF Calls
<1> DEFINE call == Call(file_path, document, Current.search, c)
           r == Rebased(call, document.base)
<1>8. /\ call \in Calls /\ call.file = file_path /\ call.parsed = file_path
      /\ call.meta = document.meta /\ call.pos = document.meta + 1
      /\ call.pos <= Len(call.buffer) + 1
  <2>1. ASSUME NEW p \in Paths \cup {NULL}, NEW d \in Document, NEW s \in Paths \cup {NULL}
        PROVE  /\ Call(p, d, s, c) \in Calls
               /\ Call(p, d, s, c).file = p /\ Call(p, d, s, c).parsed = p
               /\ Call(p, d, s, c).meta = d.meta /\ Call(p, d, s, c).pos = d.meta + 1
               /\ Call(p, d, s, c).pos <= Len(Call(p, d, s, c).buffer) + 1
    BY <1>6, CallFacts
  <2> HIDE DEF document
  <2> QED
    BY <1>3, <1>4, <1>7, <2>1
<1> HIDE DEF call, document
<1>9. /\ r \in Calls /\ r.file = file_path /\ r.meta < r.pos /\ r.pos <= Len(r.buffer) + 1
      /\ NoRelativeBase => r.parsed = r.file
  BY <1>1, <1>3, <1>4, <1>5, <1>8, RebasedFacts
<1> HIDE DEF r
<1>10. /\ calls' = Append(calls, r) /\ Depth' = Depth + 1 /\ calls' \in Seq(Calls) \ {<<>>}
       /\ \A i \in 1..Depth : calls'[i] = calls[i]
       /\ calls'[Depth + 1] = r
  BY <1>1, <1>2, <1>9 DEF Depth, r, call
<1>11. UNCHANGED <<disk, command, failed, status>> /\ status = "scan"
  BY DEF Open, Usable, Scanning
<1>12. TypeOK'
  <2>1. accidents' \subseteq {"moved", "repeated", "hidden"}
    BY DEF Open, TypeOK
  <2>2. \A i \in 1..(Depth + 1) : /\ calls'[i].meta < calls'[i].pos
                                  /\ calls'[i].pos <= Len(calls'[i].buffer) + 1
    BY <1>1, <1>9, <1>10 DEF TypeOK
  <2> QED
    BY <1>10, <1>11, <2>1, <2>2 DEF TypeOK
<1>13. OnlyCutPathsRepeat'
  <2> SUFFICES ASSUME NEW i \in 1..(Depth + 1), NEW j \in 1..(Depth + 1), i < j,
                      calls'[i].file = calls'[j].file
               PROVE  calls'[i].parsed # calls'[i].file
    BY <1>10 DEF OnlyCutPathsRepeat
  <2>1. CASE j = Depth + 1
    <3>1. i \in 1..Depth /\ calls'[i] = calls[i] /\ calls[i].parsed \in parsed
      BY <1>1, <1>10, <2>1 DEF parsed
    <3> QED
      BY <1>3, <1>9, <1>10, <2>1, <3>1
  <2>2. CASE j # Depth + 1
    BY <1>1, <1>10, <2>2 DEF OnlyCutPathsRepeat
  <2> QED
    BY <2>1, <2>2
<1>14. CallersWaitAtTokens'
  <2> SUFFICES ASSUME NEW i \in 1..Depth
               PROVE  /\ calls[i].pos <= Len(calls[i].buffer)
                      /\ calls[i].buffer[calls[i].pos].kind \in {"absolute", "relative"}
    BY <1>1, <1>10 DEF CallersWaitAtTokens
  <2>1. CASE i = Depth
    BY <2>1 DEF Open, Usable, Scanning, IsToken, item, Current
  <2> QED
    BY <1>1, <2>1 DEF CallersWaitAtTokens
<1>15. WholePaths'
  BY <1>1, <1>9, <1>10, <1>11 DEF WholePaths, NoRelativeBase, Documents
<1>16. Untouched'
  BY <1>11 DEF Untouched
<1> QED
  BY <1>12, <1>13, <1>14, <1>15, <1>16

\* The parts of a text that stay when one of its items is replaced.
LEMMA Splice ==
    ASSUME NEW b \in Seq(Item), NEW p \in Nat \ {0}, p <= Len(b), NEW t \in Seq(Item)
    PROVE  LET new == SubSeq(b, 1, p - 1) \o t \o SubSeq(b, p + 1, Len(b))
           IN  new \in Seq(Item) /\ Len(new) = Len(b) - 1 + Len(t)
<1> DEFINE before == SubSeq(b, 1, p - 1)
           after == SubSeq(b, p + 1, Len(b))
<1>1. before \in Seq(Item) /\ Len(before) = p - 1
  OBVIOUS
<1>2. after \in Seq(Item) /\ Len(after) = Len(b) - p
  <2>1. p + 1 <= Len(b) + 1 /\ p + 1 \in Nat \ {0} /\ Len(b) \in Nat
    OBVIOUS
  <2> QED
    BY <2>1, SubSeqProperties
<1> HIDE DEF before, after
<1>3. before \o t \o after \in Seq(Item) /\ Len(before \o t \o after) = p - 1 + Len(t) + Len(b) - p
  BY <1>1, <1>2, SMTT(30)
<1>4. Len(b) \in Nat /\ Len(t) \in Nat
  OBVIOUS
<1>5. before \o t \o after \in Seq(Item) /\ Len(before \o t \o after) = Len(b) - 1 + Len(t)
  BY <1>3, <1>4
<1> QED
  BY <1>5 DEF before, after

\* The caller's token is replaced; its scan goes on within its new buffer.
LEMMA ReturnKeeps == IInv /\ Return => IInv'
<1> SUFFICES ASSUME IInv, Return PROVE IInv'
  OBVIOUS
<1> USE DEF IInv
<1>1. /\ Depth \in Nat \ {0} /\ calls \in Seq(Calls) /\ Depth = Len(calls)
      /\ Current \in Calls /\ \A i \in 1..Depth : calls[i] \in Calls
      /\ disk \in Disks /\ command \in Commands
  BY CurrentFacts
<1> DEFINE text == SubSeq(Current.buffer, Current.meta + 1, Len(Current.buffer))
           caller == calls[Depth - 1]
           buffer == SubSeq(caller.buffer, 1, caller.pos - 1) \o text
                     \o SubSeq(caller.buffer, caller.pos + 1, Len(caller.buffer))
           Resumed(c, pos) == [caller EXCEPT !.buffer = buffer, !.capacity = c, !.pos = pos]
<1>2. /\ Depth > 1 /\ status = "scan" /\ UNCHANGED <<disk, command, failed>>
      /\ Current.pos > Len(Current.buffer)
  BY DEF Return
<1>3. PICK c \in ensure_capacity(caller.capacity, Len(buffer)),
           pos \in {caller.pos + Len(text), Len(buffer) + 1} :
        /\ calls' = Append(SubSeq(calls, 1, Depth - 2), Resumed(c, pos))
        /\ status' \in {"scan", "crashed"}
        /\ accidents' \in {accidents, accidents \cup {"moved"}}
  BY <1>2 DEF Return, WithoutMetadata
<1>4. caller \in Calls /\ Depth - 1 \in 1..Depth
  BY <1>1, <1>2, SMTT(30)
<1>5. /\ caller.buffer \in Seq(Item) /\ caller.pos \in Nat /\ caller.meta \in Nat
      /\ caller.capacity \in Nat /\ Current.buffer \in Seq(Item) /\ Current.meta \in Nat
      /\ Current.pos \in Nat
  BY <1>1, <1>4 DEF Calls
<1>6. /\ caller.meta < caller.pos /\ caller.pos <= Len(caller.buffer)
      /\ Current.meta < Current.pos /\ Current.pos <= Len(Current.buffer) + 1
  <2>1. caller.meta < caller.pos /\ Current.meta < Current.pos /\ Current.pos <= Len(Current.buffer) + 1
    BY <1>1, <1>4 DEF TypeOK, Current
  <2>2. caller.pos <= Len(caller.buffer)
    BY <1>1, <1>2, SMTT(30) DEF CallersWaitAtTokens
  <2> QED
    BY <2>1, <2>2
<1>7. text \in Seq(Item) /\ Len(text) \in Nat
  <2>0. Len(Current.buffer) \in Nat
    BY <1>5
  <2>1. Current.meta + 1 \in Nat \ {0} /\ Current.meta + 1 <= Len(Current.buffer) + 1
    <3>1. ASSUME NEW k \in Nat, NEW p \in Nat, NEW l \in Nat, k < p, p <= l + 1
          PROVE  k + 1 \in Nat \ {0} /\ k + 1 <= l + 1
      BY <3>1
    <3> QED
      BY <1>5, <1>6, <2>0, <3>1
  <2>2. text \in Seq(Item)
    BY <1>5, <2>0, <2>1, SubSeqProperties
  <2> QED
    BY <2>2
<1>8. /\ buffer \in Seq(Item) /\ Len(buffer) \in Nat
      /\ Len(buffer) + 1 = Len(caller.buffer) + Len(text)
  <2> HIDE DEF text, caller
  <2>1. caller.pos \in Nat \ {0}
    BY <1>5, <1>6
  <2>2. buffer \in Seq(Item) /\ Len(buffer) = Len(caller.buffer) - 1 + Len(text)
    BY <1>5, <1>6, <1>7, <2>1, Splice
  <2>3. Len(caller.buffer) \in Nat
    BY <1>5
  <2> HIDE DEF buffer
  <2> QED
    BY <1>7, <2>2, <2>3
<1> HIDE DEF text, buffer
<1>9. c \in Nat
  BY <1>3, <1>5, <1>8, CapacityFacts
<1>10. pos \in Nat /\ caller.meta < pos /\ pos <= Len(buffer) + 1
  <2> HIDE DEF caller
  <2>1. Len(caller.buffer) \in Nat
    BY <1>5
  <2> QED
    BY <1>3, <1>5, <1>6, <1>7, <1>8, <2>1, SMTT(30)
<1> DEFINE r == Resumed(c, pos)
<1>11. /\ r \in Calls /\ r.file = caller.file /\ r.parsed = caller.parsed
       /\ r.buffer = buffer /\ r.meta = caller.meta /\ r.pos = pos
  <2> HIDE DEF caller
  <2> QED
    BY <1>4, <1>8, <1>9, <1>10 DEF Calls
<1> DEFINE rest == SubSeq(calls, 1, Depth - 2)
<1>12. /\ rest \in Seq(Calls) /\ Len(rest) = Depth - 2
       /\ \A i \in 1..(Depth - 2) : rest[i] = calls[i]
  BY <1>1, <1>2
<1> HIDE DEF rest, r
<1>13. /\ calls' = Append(rest, r) /\ calls' \in Seq(Calls) \ {<<>>} /\ Depth' = Depth - 1
       /\ calls'[Depth - 1] = r /\ \A i \in 1..(Depth - 2) : calls'[i] = calls[i]
  <2>1. calls' = Append(rest, r)
    BY <1>3 DEF rest, r
  <2>2. Depth - 2 \in Nat
    BY <1>1, <1>2
  <2>3. /\ Append(rest, r) \in Seq(Calls) /\ Len(Append(rest, r)) = Depth - 2 + 1
        /\ Append(rest, r)[Depth - 2 + 1] = r
        /\ \A i \in 1..(Depth - 2) : Append(rest, r)[i] = rest[i]
    BY <1>11, <1>12, <2>2
  <2>4. Depth - 2 + 1 = Depth - 1 /\ Append(rest, r) # <<>>
    BY <1>1, <2>2, <2>3
  <2> QED
    BY <1>12, <2>1, <2>3, <2>4 DEF Depth
<1>14. \A i \in 1..(Depth - 1) : calls'[i].file = calls[i].file /\ calls'[i].parsed = calls[i].parsed
  <2>1. ASSUME NEW i \in 1..(Depth - 1)
        PROVE  i \in 1..(Depth - 2) \/ i = Depth - 1
    BY <1>1, <1>2
  <2>2. /\ calls'[Depth - 1].file = calls[Depth - 1].file
        /\ calls'[Depth - 1].parsed = calls[Depth - 1].parsed
    BY <1>11, <1>13
  <2> QED
    BY <1>13, <2>1, <2>2
<1> DEFINE m == Depth - 1
<1>15. /\ m \in Nat \ {0} /\ Depth' = m /\ Depth = m + 1
       /\ \A i \in 1..m : i \in 1..Depth /\ (i \in 1..(Depth - 2) \/ i = m)
       /\ \A i \in 1..(m - 1) : i \in 1..(Depth - 2) /\ i \in 1..(Depth - 1)
  <2>1. m \in Nat \ {0} /\ Depth = m + 1 /\ Depth \in Nat
    BY <1>1, <1>2
  <2>2. ASSUME NEW i \in 1..m
        PROVE  i \in 1..Depth /\ (i \in 1..(Depth - 2) \/ i = m)
    BY <2>1
  <2>3. ASSUME NEW i \in 1..(m - 1)
        PROVE  i \in 1..(Depth - 2) /\ i \in 1..(Depth - 1)
    BY <2>1
  <2> QED
    BY <1>13, <2>1, <2>2, <2>3
<1>16. \A i \in 1..m : calls'[i].file = calls[i].file /\ calls'[i].parsed = calls[i].parsed
  BY <1>14
<1>17. /\ calls'[m] = r /\ \A i \in 1..(Depth - 2) : calls'[i] = calls[i]
       /\ calls' \in Seq(Calls) \ {<<>>}
  BY <1>13
<1> HIDE DEF m
<1>18. TypeOK'
  <2>1. \A i \in 1..m : /\ calls'[i].meta < calls'[i].pos
                        /\ calls'[i].pos <= Len(calls'[i].buffer) + 1
    <3>1. calls'[m].meta < calls'[m].pos /\ calls'[m].pos <= Len(calls'[m].buffer) + 1
      BY <1>10, <1>11, <1>17
    <3> QED
      BY <1>15, <1>17, <3>1 DEF TypeOK
  <2>2. accidents' \subseteq {"moved", "repeated", "hidden"}
    BY <1>3 DEF TypeOK
  <2> QED
    BY <1>1, <1>2, <1>3, <1>15, <1>17, <2>1, <2>2 DEF TypeOK
<1>19. OnlyCutPathsRepeat'
  BY <1>15, <1>16 DEF OnlyCutPathsRepeat
<1>20. CallersWaitAtTokens'
  BY <1>15, <1>17 DEF CallersWaitAtTokens
<1>21. WholePaths'
  BY <1>2, <1>15, <1>16 DEF WholePaths, NoRelativeBase, Documents
<1>22. Untouched'
  BY <1>3 DEF Untouched
<1> QED
  BY <1>18, <1>19, <1>20, <1>21, <1>22
-----------------------------------------------------------------------------
\* One step per action of Next.
LEMMA NextInv == IInv /\ [Next]_vars => IInv'
<1> SUFFICES ASSUME IInv, [Next]_vars PROVE IInv'
  OBVIOUS
<1>1. CASE mmd_add_mmd_header_footer
  BY <1>1, HeaderKeeps
<1>2. CASE mmd_transclude
  BY <1>2, StartKeeps
<1>3. CASE PassOver
  <2>1. failed' \subseteq Denied
    BY <1>3 DEF PassOver, IInv, TypeOK
  <2> QED
    BY <1>3, <2>1, AdvanceKeeps DEF PassOver
<1>4. CASE LeaveToken
  <2>1. failed' \subseteq Denied
    BY <1>4 DEF LeaveToken, IInv, TypeOK, read_ctx_store_failed_file
  <2>2. accidents' \subseteq accidents \cup {"hidden"}
    BY <1>4 DEF LeaveToken
  <2> QED
    BY <1>4, <2>1, <2>2, AdvanceKeeps DEF LeaveToken, Usable
<1>5. CASE Open
  BY <1>5, OpenKeeps
<1>6. CASE Return
  BY <1>6, ReturnKeeps
<1>7. CASE NoSearchPath \/ Done \/ UNCHANGED vars
  BY <1>7, SameCallsKeep DEF NoSearchPath, Done, vars
<1> QED
  BY <1>1, <1>2, <1>3, <1>4, <1>5, <1>6, <1>7 DEF Next

\* The inductive invariant, for every disk, command and depth.
THEOREM Invariance == Spec => []IInv
<1> QED
  BY InitInv, NextInv, PTL DEF Spec

\* The calls, their buffers and their scan positions are well formed.
THEOREM TypeCorrect == Spec => []TypeOK
<1>1. IInv => TypeOK
  BY DEF IInv
<1> QED
  BY <1>1, Invariance, PTL

\* A file read inside itself has had its path cut by its relative base.
THEOREM FilesRepeatOnlyBelowCutPaths == Spec => []OnlyCutPathsRepeat
<1>1. IInv => OnlyCutPathsRepeat
  BY DEF IInv
<1> QED
  BY <1>1, Invariance, PTL

\* Every caller is stopped at the token that is being replaced.
THEOREM ReplacementHitsTheToken == Spec => []CallersWaitAtTokens
<1>1. IInv => CallersWaitAtTokens
  BY DEF IInv
<1> QED
  BY <1>1, Invariance, PTL

\* Without relative bases the recursion cannot be deeper than the number of
\* paths plus the source: calls is then an injection into Paths and NULL.
THEOREM RecursionBounded == ASSUME IsFiniteSet(Paths) PROVE Spec => []DepthBounded
<1>1. ASSUME IInv PROVE DepthBounded
  <2> SUFFICES ASSUME NoRelativeBase PROVE Depth <= Cardinality(Paths) + 1
    BY DEF DepthBounded
  <2>1. Depth \in Nat \ {0} /\ \A i \in 1..Depth : calls[i] \in Calls
    BY <1>1, CurrentFacts DEF IInv
  <2> DEFINE S == Paths \cup {NULL}
             f == [i \in 1..Depth |-> calls[i].file]
  <2>2. f \in [1..Depth -> S]
    BY <2>1 DEF Calls
  <2>3. \A i, j \in 1..Depth : f[i] = f[j] => i = j
    <3> SUFFICES ASSUME NEW i \in 1..Depth, NEW j \in 1..Depth, f[i] = f[j], i < j PROVE FALSE
      BY <2>1
    <3> QED
      BY <1>1 DEF IInv, WholePaths, OnlyCutPathsRepeat
  <2>4. IsFiniteSet(S) /\ Cardinality(S) = Cardinality(Paths) + 1
    BY FS_AddElement, DiskAssumption
  <2>5. IsFiniteSet(1..Depth) /\ Cardinality(1..Depth) = Depth
    BY <2>1, FS_Interval
  <2> HIDE DEF S, f
  <2>6. f \in Injection(1..Depth, S)
    BY <2>2, <2>3 DEF Injection, IsInjective
  <2>7. Cardinality(1..Depth) <= Cardinality(S)
    BY <2>4, <2>5, <2>6, FS_Injection DEF ExistsInjection
  <2> QED
    BY <2>4, <2>5, <2>7
<1> QED
  BY <1>1, Invariance, PTL
-----------------------------------------------------------------------------
(* What transclusion gives.                                                *)

\* The files that are being read when activation i is the innermost one
Above(i) == {calls[j].file : j \in 1..i}
\* What activation i has passed, what it still has before it, and what it is to give
Passed(c) == SubSeq(c.buffer, c.meta + 1, c.pos - 1)
Ahead(c) == SubSeq(c.buffer, c.pos, Len(c.buffer))
Left(i) == Expand[<<Ahead(calls[i]), calls[i].search, Above(i)>>]
Owed(i) == IF i = 1 THEN Expected
           ELSE Expand[<<BodyOf(Contents(calls[i].file)), calls[i].search, Above(i)>>]

\* What is passed and the expansion of what is ahead are together what is owed
Fulfils(i) ==
    /\ Passed(calls[i]) \o Left(i).text = Owed(i).text
    /\ Owed(i).denied \subseteq failed \cup Left(i).denied
    /\ Left(i).denied \subseteq Expected.denied

\* An activation reads what the one above it has named
Named(i) ==
    LET above == calls[i - 1]
        f == calls[i].file
    IN  /\ f = PathOf(above.buffer[above.pos], above.search)
        /\ f \notin {NULL} \cup Above(i - 1) \cup Denied
        /\ calls[i].search = SearchOf(Contents(f), f, above.search)
\* Every activation fulfils what it is owed, and none is lost in between.
Following ==
    /\ \A i \in 1..Depth : Fulfils(i)
    /\ \A i \in 2..Depth : Named(i)
    /\ failed \subseteq Expected.denied
\* The metadata of the source stays in front.
KeepsMetadata ==
    SubSeq(calls[1].buffer, 1, calls[1].meta) = SubSeq(SourceDocument.items, 1, SourceDocument.meta)
\* The text of the source with its header and footer
Framed == LET d == SourceDocument
          IN  IF Framing THEN d.header \o BodyOf(d) \o d.footer ELSE BodyOf(d)
\* The invariant that the expansion of a document follows from
ExpansionInv ==
    /\ status = "header" => calls[1].buffer = SourceDocument.items
    /\ status \in {"header", "start"} => Depth = 1 /\ failed = {}
    /\ status = "start" => Ahead(calls[1]) = Framed
    /\ calls[1].file = command.source
    /\ calls[1].meta = SourceDocument.meta
    /\ KeepsMetadata
    /\ status = "scan" /\ accidents = {} => Following
    /\ ExpandsLikeReference /\ UnreadableFilesReported
-----------------------------------------------------------------------------
(* The expansion is a function.                                            *)

\* The path an item names, when it is a token
Names(it, search) == IF it.kind \in {"absolute", "relative"} THEN PathOf(it, search) ELSE NULL
\* The two expansions that an expansion is made of
Behind(k) == <<Tail(k[1]), k[2], k[3]>>
Into(k) == LET f == Names(Head(k[1]), k[2])
           IN  <<BodyOf(Contents(f)), SearchOf(Contents(f), f, k[2]), k[3] \cup {f}>>
\* The first item stays
Stays(k) == Names(Head(k[1]), k[2]) \in {NULL} \cup k[3] \cup Denied
\* One step of the expansion, e being the expansion of the rest
Unfold(e, k) ==
    IF k[1] = <<>> THEN [text |-> <<>>, denied |-> {}]
    ELSE IF Stays(k)
    THEN [text |-> <<Head(k[1])>> \o e[Behind(k)].text,
          denied |-> e[Behind(k)].denied \cup (({Names(Head(k[1]), k[2])} \cap Denied) \ k[3])]
    ELSE [text |-> e[Into(k)].text \o e[Behind(k)].text,
          denied |-> e[Into(k)].denied \cup e[Behind(k)].denied]
\* Fewer files are left to be read, or as many and fewer items
Free(k) == Cardinality(Paths \ k[3])
Before(j, k) == Free(j) < Free(k) \/ (Free(j) = Free(k) /\ Len(j[1]) < Len(k[1]))

\* A set of natural numbers has a least member.
LEMMA LeastOf ==
    ASSUME NEW S, S \subseteq Nat, S # {}
    PROVE  \E x \in S : \A y \in S : x <= y
<1>1. PICK x \in S : \A y \in S : <<y, x>> \notin OpToRel(<, Nat)
  BY WFMin, NatLessThanWellFounded, Zenon
<1>2. \A y \in S : ~(y < x)
  BY <1>1 DEF OpToRel
<1> QED BY <1>2

\* What documents are made of, and where they are searched
LEMMA BodyFacts ==
    ASSUME disk \in Disks, command \in Commands, NEW f \in Paths, NEW s \in Paths \cup {NULL}
    PROVE  /\ BodyOf(Contents(f)) \in Seq(Item)
           /\ SearchOf(Contents(f), f, s) \in Paths \cup {NULL}
<1>1. Contents(f) \in Document
  BY DocumentFacts
<1>2. /\ Contents(f).items \in Seq(Item) /\ Contents(f).meta \in Nat
      /\ Contents(f).meta <= Len(Contents(f).items) /\ Contents(f).base \in Base
  BY <1>1 DEF Document
<1>3. BodyOf(Contents(f)) \in Seq(Item)
  <2>1. Len(Contents(f).items) \in Nat
    BY <1>2
  <2> QED BY <1>2, <2>1, SubSeqProperties DEF BodyOf
<1>4. SearchOf(Contents(f), f, s) \in Paths \cup {NULL}
  <2>1. CASE Contents(f).base.kind = "none"
    BY <2>1 DEF SearchOf
  <2>2. CASE Contents(f).base.kind = "absolute"
    <3>1. Contents(f).base.name \in Dirs \cup {NULL}
      BY <1>2, <2>2 DEF Base
    <3> QED BY <2>2, <3>1 DEF SearchOf, Paths
  <2>3. CASE Contents(f).base.kind = "relative"
    <3>1. realpath(DirOf[f], Contents(f).base.name, "") \in Paths \cup {NULL}
      BY DocumentFacts
    <3> QED BY <2>3, <3>1 DEF SearchOf
  <2> QED BY <1>2, <2>1, <2>2, <2>3 DEF Base
<1> QED BY <1>3, <1>4

\* A token names a path or nothing.
LEMMA NamesFacts ==
    ASSUME disk \in Disks, command \in Commands, NEW it, NEW s
    PROVE  Names(it, s) \in Paths \cup {NULL}
BY DocumentFacts DEF Names, PathOf

\* Keys
LEMMA KeyFacts ==
    ASSUME NEW k \in Expansions
    PROVE  /\ k[1] \in Seq(Item) /\ k[2] \in Paths \cup {NULL} /\ k[3] \subseteq Paths \cup {NULL}
           /\ k = <<k[1], k[2], k[3]>>
           /\ Len(k[1]) \in Nat
           /\ k[1] # <<>> => Head(k[1]) \in Item /\ Tail(k[1]) \in Seq(Item)
                             /\ Len(Tail(k[1])) = Len(k[1]) - 1
                             /\ Len(k[1]) > 0
<1>1. /\ k[1] \in Seq(Item) /\ k[2] \in Paths \cup {NULL} /\ k[3] \subseteq Paths \cup {NULL}
      /\ k = <<k[1], k[2], k[3]>>
  BY DEF Expansions
<1>2. k[1] # <<>> => /\ Head(k[1]) \in Item /\ Tail(k[1]) \in Seq(Item)
                     /\ Len(Tail(k[1])) = Len(k[1]) - 1 /\ Len(k[1]) > 0
  <2> SUFFICES ASSUME k[1] # <<>>
               PROVE  /\ Head(k[1]) \in Item /\ Tail(k[1]) \in Seq(Item)
                      /\ Len(Tail(k[1])) = Len(k[1]) - 1 /\ Len(k[1]) > 0
    OBVIOUS
  <2>1. Len(k[1]) > 0
    BY <1>1, EmptySeq
  <2> QED BY <1>1, <2>1, HeadTailProperties
<1> QED BY <1>1, <1>2

\* Both come before it, so an expansion ends.
LEMMA PartsComeBefore ==
    ASSUME IsFiniteSet(Paths), disk \in Disks, command \in Commands,
           NEW k \in Expansions, k[1] # <<>>
    PROVE  /\ Behind(k) \in Expansions /\ Before(Behind(k), k)
           /\ ~Stays(k) => Into(k) \in Expansions /\ Before(Into(k), k)
<1>1. /\ Tail(k[1]) \in Seq(Item) /\ Len(Tail(k[1])) = Len(k[1]) - 1 /\ Len(k[1]) \in Nat
      /\ k[2] \in Paths \cup {NULL} /\ k[3] \subseteq Paths \cup {NULL}
  BY KeyFacts
<1>2. Behind(k) \in Expansions
  BY <1>1 DEF Behind, Expansions
<1>3. Before(Behind(k), k)
  BY <1>1 DEF Before, Behind, Free
<1>4. ASSUME ~Stays(k) PROVE Into(k) \in Expansions /\ Before(Into(k), k)
  <2> DEFINE f == Names(Head(k[1]), k[2])
  <2>1. f \in Paths /\ f \notin k[3]
    BY <1>4, NamesFacts DEF Stays
  <2>2. Into(k) = <<BodyOf(Contents(f)), SearchOf(Contents(f), f, k[2]), k[3] \cup {f}>>
    BY DEF Into
  <2> HIDE DEF f
  <2>3. Into(k) \in Expansions
    <3>1. BodyOf(Contents(f)) \in Seq(Item) /\ SearchOf(Contents(f), f, k[2]) \in Paths \cup {NULL}
      BY <1>1, <2>1, BodyFacts
    <3>2. k[3] \cup {f} \in SUBSET (Paths \cup {NULL})
      BY <1>1, <2>1
    <3> QED BY <2>2, <3>1, <3>2 DEF Expansions
  <2>4. Free(Into(k)) < Free(k)
    <3>1. IsFiniteSet(Paths \ k[3]) /\ f \in Paths \ k[3]
      BY <2>1, FS_Difference
    <3>2. Paths \ (k[3] \cup {f}) = (Paths \ k[3]) \ {f}
      OBVIOUS
    <3>3. Cardinality((Paths \ k[3]) \ {f}) = Cardinality(Paths \ k[3]) - 1 /\ Cardinality(Paths \ k[3]) \in Nat
      BY <3>1, FS_RemoveElement, FS_CardinalityType
    <3>4. Into(k)[3] = k[3] \cup {f}
      BY <2>2
    <3>5. Free(Into(k)) = Cardinality((Paths \ k[3]) \ {f})
      BY <3>2, <3>4 DEF Free
    <3>6. Free(k) = Cardinality(Paths \ k[3])
      BY DEF Free
    <3> QED BY <3>3, <3>5, <3>6
  <2> QED BY <2>3, <2>4 DEF Before
<1> QED BY <1>2, <1>3, <1>4

\* What an expansion is depends on those before it only.
LEMMA UnfoldLooksBefore ==
    ASSUME IsFiniteSet(Paths), disk \in Disks, command \in Commands,
           NEW k \in Expansions, NEW e, NEW f,
           \A j \in Expansions : Before(j, k) => e[j] = f[j]
    PROVE  Unfold(e, k) = Unfold(f, k)
<1>1. CASE k[1] = <<>>
  BY <1>1 DEF Unfold
<1>2. CASE k[1] # <<>>
  <2>1. e[Behind(k)] = f[Behind(k)] /\ (~Stays(k) => e[Into(k)] = f[Into(k)])
    BY <1>2, PartsComeBefore
  <2>2. CASE Stays(k)
    BY <1>2, <2>1, <2>2, Zenon DEF Unfold
  <2>3. CASE ~Stays(k)
    BY <1>2, <2>1, <2>3, Zenon DEF Unfold
  <2> QED BY <2>2, <2>3
<1> QED BY <1>1, <1>2

\* A set of expansions has a first one.
LEMMA FirstKey ==
    ASSUME IsFiniteSet(Paths), NEW S, S \subseteq Expansions, S # {}
    PROVE  \E k \in S : \A j \in S : ~Before(j, k)
<1>1. \A k \in Expansions : Free(k) \in Nat
  BY FS_Difference, FS_CardinalityType DEF Free
<1> DEFINE F == {Free(k) : k \in S}
<1>2. PICK m \in F : \A n_ \in F : m <= n_
  <2>1. F \subseteq Nat /\ F # {}
    BY <1>1
  <2> HIDE DEF F
  <2> QED BY <2>1, LeastOf
<1> DEFINE L == {Len(k[1]) : k \in {j \in S : Free(j) = m}}
<1>3. PICK l \in L : \A n_ \in L : l <= n_
  <2>1. L \subseteq Nat
    BY KeyFacts
  <2>2. L # {}
    BY <1>2
  <2> HIDE DEF L
  <2> QED BY <2>1, <2>2, LeastOf
<1>4. PICK k \in S : Free(k) = m /\ Len(k[1]) = l
  BY <1>3
<1>5. ASSUME NEW j \in S, Before(j, k) PROVE FALSE
  <2>1. m <= Free(j) /\ Free(j) \in Nat /\ m \in Nat
    BY <1>1, <1>2
  <2>2. Free(j) = m => l <= Len(j[1])
    BY <1>3
  <2>3. Len(j[1]) \in Nat /\ Len(k[1]) \in Nat
    BY KeyFacts
  <2> HIDE DEF F, L
  <2> QED BY <1>4, <1>5, <2>1, <2>2, <2>3 DEF Before
<1> QED BY <1>5
-----------------------------------------------------------------------------
\* An expansion with all that come before it
Upto(k) == {j \in Expansions : Before(j, k) \/ j = k}
Part(k, f) == \A j \in Upto(k) : f[j] = Unfold(f, j)
PartOf(k) == CHOOSE f : Part(k, f)
Closed(S) == S \subseteq Expansions /\ \A k \in S, j \in Expansions : Before(j, k) => j \in S

\* Coming before is a strict order.
LEMMA BeforeFacts ==
    ASSUME IsFiniteSet(Paths), NEW i \in Expansions, NEW j \in Expansions, NEW k \in Expansions
    PROVE  /\ Before(i, j) /\ Before(j, k) => Before(i, k)
           /\ ~Before(i, i)
<1>1. Free(i) \in Nat /\ Free(j) \in Nat /\ Free(k) \in Nat
  BY FS_Difference, FS_CardinalityType DEF Free
<1>2. Len(i[1]) \in Nat /\ Len(j[1]) \in Nat /\ Len(k[1]) \in Nat
  BY KeyFacts
<1> QED BY <1>1, <1>2 DEF Before

\* Two parts agree where they are both defined.
LEMMA PartsAgree ==
    ASSUME IsFiniteSet(Paths), disk \in Disks, command \in Commands,
           NEW k \in Expansions, NEW l \in Expansions, NEW f, NEW g,
           Part(k, f), Part(l, g)
    PROVE  \A j \in Upto(k) \cap Upto(l) : f[j] = g[j]
<1> DEFINE S == {j \in Upto(k) \cap Upto(l) : f[j] # g[j]}
<1>1. S = {}
  <2> SUFFICES ASSUME S # {} PROVE FALSE
    OBVIOUS
  <2>1. PICK j \in S : \A i \in S : ~Before(i, j)
    <3>1. S \subseteq Expansions
      BY DEF Upto
    <3> HIDE DEF S
    <3> QED BY <3>1, FirstKey
  <2>2. j \in Expansions /\ j \in Upto(k) /\ j \in Upto(l) /\ f[j] # g[j]
    BY <2>1 DEF Upto
  <2>3. ASSUME NEW i \in Expansions, Before(i, j) PROVE f[i] = g[i]
    <3>1. i \in Upto(k) /\ i \in Upto(l)
      BY <2>2, <2>3, BeforeFacts DEF Upto
    <3> QED BY <2>1, <2>3, <3>1
  <2>4. Unfold(f, j) = Unfold(g, j)
    <3> HIDE DEF S
    <3> QED BY <2>2, <2>3, UnfoldLooksBefore
  <2> QED BY <2>2, <2>4 DEF Part
<1> QED BY <1>1

\* Where there are parts, their last values make up a function.
LEMMA PartsGlue ==
    ASSUME IsFiniteSet(Paths), disk \in Disks, command \in Commands,
           NEW S, Closed(S), \A k \in S : \E f : Part(k, f),
           NEW e, \A k \in S : e[k] = PartOf(k)[k]
    PROVE  \A k \in S : e[k] = Unfold(e, k)
<1> SUFFICES ASSUME NEW k \in S PROVE e[k] = Unfold(e, k)
  OBVIOUS
<1>1. \A j \in S : Part(j, PartOf(j))
  BY DEF PartOf
<1>2. S \subseteq Expansions /\ \A j \in Expansions : Before(j, k) => j \in S
  BY DEF Closed
<1>3. ASSUME NEW j \in Expansions, Before(j, k) PROVE e[j] = PartOf(k)[j]
  <2>1. j \in S /\ j \in Upto(k) /\ j \in Upto(j)
    BY <1>2, <1>3 DEF Upto
  <2>2. Part(j, PartOf(j)) /\ Part(k, PartOf(k))
    BY <1>1, <2>1
  <2>3. PartOf(j)[j] = PartOf(k)[j]
    BY <1>2, <2>1, <2>2, PartsAgree
  <2> QED BY <2>1, <2>3
<1>4. Unfold(e, k) = Unfold(PartOf(k), k)
  <2>1. k \in Expansions
    BY <1>2
  <2> QED BY <1>3, <2>1, UnfoldLooksBefore
<1>5. PartOf(k)[k] = Unfold(PartOf(k), k)
  BY <1>1, <1>2 DEF Part, Upto
<1> QED BY <1>4, <1>5

\* For every expansion there is a part.
LEMMA PartExists ==
    ASSUME IsFiniteSet(Paths), disk \in Disks, command \in Commands, NEW k \in Expansions
    PROVE  \E f : Part(k, f)
<1> DEFINE S == {j \in Expansions : ~\E f : Part(j, f)}
<1>1. S = {}
  <2> SUFFICES ASSUME S # {} PROVE FALSE
    OBVIOUS
  <2>1. PICK j \in S : \A i \in S : ~Before(i, j)
    <3> HIDE DEF S
    <3>1. S \subseteq Expansions
      BY DEF S
    <3> QED BY <3>1, FirstKey
  <2> DEFINE T == {i \in Expansions : Before(i, j)}
             e == [i \in T |-> PartOf(i)[i]]
             f == [i \in Upto(j) |-> IF i = j THEN Unfold(e, j) ELSE e[i]]
  <2>2. j \in Expansions /\ j \notin T /\ Upto(j) = T \cup {j} /\ ~\E h : Part(j, h)
    BY <2>1, BeforeFacts DEF Upto
  <2>3. Closed(T)
    BY <2>2, BeforeFacts DEF Closed
  <2>4. \A i \in T : e[i] = Unfold(e, i)
    <3>1. \A i \in T : \E h : Part(i, h)
      BY <2>1
    <3>2. \A i \in T : e[i] = PartOf(i)[i]
      OBVIOUS
    <3> HIDE DEF T, e, S
    <3> QED BY <2>3, <3>1, <3>2, PartsGlue
  <2>5. \A i \in T : f[i] = e[i]
    BY <2>2
  <2>6. f[j] = Unfold(e, j)
    BY <2>2
  <2>7. ASSUME NEW i \in Upto(j) PROVE f[i] = Unfold(f, i)
    <3>1. i \in Expansions /\ \A h \in Expansions : Before(h, i) => h \in T
      <4>1. i \in Expansions
        BY DEF Upto
      <4> QED BY <2>2, <2>7, <4>1, BeforeFacts
    <3>2. Unfold(f, i) = Unfold(e, i)
      <4>1. \A h \in Expansions : Before(h, i) => f[h] = e[h]
        BY <2>5, <3>1
      <4> HIDE DEF f, e, T, S
      <4> QED BY <3>1, <4>1, UnfoldLooksBefore
    <3>3. i \in T \/ i = j
      BY <2>2, <2>7
    <3> HIDE DEF f, e, T, S
    <3> QED BY <2>4, <2>5, <2>6, <3>2, <3>3
  <2>8. Part(j, f)
    <3> HIDE DEF f
    <3> QED BY <2>7 DEF Part
  <2> QED BY <2>2, <2>8
<1> QED BY <1>1

\* The recursion is well founded: Expand satisfies its equation.
LEMMA ExpandFacts ==
    ASSUME IsFiniteSet(Paths), disk \in Disks, command \in Commands
    PROVE  \A k \in Expansions : Expand[k] = Unfold(Expand, k)
<1> DEFINE e == [k \in Expansions |-> PartOf(k)[k]]
<1>1. \A k \in Expansions : e[k] = Unfold(e, k)
  <2>1. Closed(Expansions) /\ \A k \in Expansions : \E f : Part(k, f)
    BY PartExists DEF Closed
  <2>2. \A k \in Expansions : e[k] = PartOf(k)[k]
    OBVIOUS
  <2> HIDE DEF e
  <2> QED BY <2>1, <2>2, PartsGlue
<1>2. e = [k \in Expansions |-> Unfold(e, k)]
  <2>1. e = [k \in Expansions |-> e[k]]
    OBVIOUS
  <2> HIDE DEF e
  <2> QED BY <1>1, <2>1
<1>3. Expand = CHOOSE f : f = [k \in Expansions |-> Unfold(f, k)]
  BY DEF Expand, Unfold, Stays, Names, Behind, Into
<1>4. Expand = [k \in Expansions |-> Unfold(Expand, k)]
  <2> HIDE DEF e
  <2> QED BY <1>2, <1>3
<1> QED BY <1>4
-----------------------------------------------------------------------------
\* Where a text may be searched, and what may be being read
Spots == Paths \cup {NULL}

\* A part of a text
LEMMA Slice ==
    ASSUME NEW s \in Seq(Item), NEW m \in Nat, NEW n \in Nat, m <= n, n <= Len(s),
           NEW first, first = m + 1
    PROVE  /\ SubSeq(s, first, n) \in Seq(Item) /\ Len(SubSeq(s, first, n)) = n - m
           /\ \A i \in 1..(n - m) : SubSeq(s, first, n)[i] = s[m + i]
<1>0. Len(s) \in Nat /\ first \in Int
  BY LenProperties
<1>1. \A i \in first..n : s[i] \in Item
  <2>1. \A i \in first..n : i \in 1..Len(s)
    BY <1>0
  <2> QED BY <2>1, ElementOfSeq
<1> DEFINE r == SubSeq(s, first, n)
<1>2. /\ r \in Seq(Item) /\ Len(r) = IF first <= n THEN n - first + 1 ELSE 0
      /\ \A i \in 1..Len(r) : r[i] = s[first + i - 1]
  BY <1>0, <1>1, SubSeqProperties
<1> HIDE DEF r
<1>3. Len(r) = n - m
  BY <1>0, <1>2
<1>4. \A i \in 1..(n - m) : r[i] = s[m + i]
  <2>1. \A i \in Int : first + i - 1 = m + i
    BY <1>0
  <2> QED BY <1>2, <1>3, <2>1
<1> QED BY <1>2, <1>3, <1>4 DEF r

\* The first items of a text
LEMMA Prefix ==
    ASSUME NEW s \in Seq(Item), NEW n \in Nat, n <= Len(s)
    PROVE  /\ SubSeq(s, 1, n) \in Seq(Item) /\ Len(SubSeq(s, 1, n)) = n
           /\ \A i \in 1..n : SubSeq(s, 1, n)[i] = s[i]
<1>1. ASSUME NEW m \in Nat, m = 0
      PROVE  /\ SubSeq(s, 1, n) \in Seq(Item) /\ Len(SubSeq(s, 1, n)) = n - m
             /\ \A i \in 1..(n - m) : SubSeq(s, 1, n)[i] = s[m + i]
  <2>1. m <= n /\ 1 = m + 1
    BY <1>1
  <2> QED BY <2>1, Slice
<1> DEFINE r == SubSeq(s, 1, n)
<1>2. \E m \in Nat : m = 0 /\ r \in Seq(Item) /\ Len(r) = n - m /\ \A i \in 1..(n - m) : r[i] = s[m + i]
  BY <1>1
<1> HIDE DEF r
<1>3. r \in Seq(Item) /\ Len(r) = n /\ \A i \in 1..n : r[i] = s[i]
  BY <1>2
<1> QED BY <1>3 DEF r

\* The parts of two texts joined
LEMMA PartsOfJoined ==
    ASSUME NEW x \in Seq(Item), NEW y \in Seq(Item),
           NEW a \in Nat, NEW c \in Nat, NEW m \in Nat, NEW n \in Nat,
           Len(x) = a, Len(y) = c, m <= a, n <= c
    PROVE  /\ SubSeq(x \o y, m + 1, a + n) = SubSeq(x, m + 1, a) \o SubSeq(y, 1, n)
           /\ SubSeq(x \o y, a + 1, a + n) = SubSeq(y, 1, n)
           /\ SubSeq(x \o y, 1, m) = SubSeq(x, 1, m)
           /\ SubSeq(x, 1, a) = x
<1>0. /\ x \o y \in Seq(Item) /\ Len(x \o y) = a + c
      /\ \A i \in 1..(a + c) : (x \o y)[i] = IF i <= a THEN x[i] ELSE y[i - a]
  BY ConcatProperties
<1> DEFINE z == x \o y
           s1 == SubSeq(z, m + 1, a + n)
           x1 == SubSeq(x, m + 1, a)
           y1 == SubSeq(y, 1, n)
           s2 == SubSeq(z, a + 1, a + n)
           s3 == SubSeq(z, 1, m)
           x3 == SubSeq(x, 1, m)
           x4 == SubSeq(x, 1, a)
<1>1. /\ z \in Seq(Item) /\ Len(z) = a + c
      /\ \A i \in 1..(a + c) : z[i] = IF i <= a THEN x[i] ELSE y[i - a]
  BY <1>0
<1> HIDE DEF z
<1>2. /\ s1 \in Seq(Item) /\ Len(s1) = a + n - m /\ \A i \in 1..(a + n - m) : s1[i] = z[m + i]
  <2>1. a + n \in Nat /\ m <= a + n /\ a + n <= Len(z)
    BY <1>1
  <2>2. ASSUME NEW h \in Nat, h = a + n
        PROVE  /\ SubSeq(z, m + 1, h) \in Seq(Item) /\ Len(SubSeq(z, m + 1, h)) = h - m
               /\ \A i \in 1..(h - m) : SubSeq(z, m + 1, h)[i] = z[m + i]
    BY <1>1, <2>1, <2>2, Slice
  <2> QED BY <2>1, <2>2
<1>3. x1 \in Seq(Item) /\ Len(x1) = a - m /\ \A i \in 1..(a - m) : x1[i] = x[m + i]
  BY Slice
<1>4. y1 \in Seq(Item) /\ Len(y1) = n /\ \A i \in 1..n : y1[i] = y[i]
  <2>1. y1 \in Seq(Item) /\ Len(y1) = n - 0 /\ \A i \in 1..(n - 0) : y1[i] = y[0 + i]
    <3>1. 0 \in Nat /\ 0 <= n /\ 1 = 0 + 1
      OBVIOUS
    <3> QED BY <3>1, Slice
  <2> HIDE DEF y1
  <2> QED BY <2>1
<1>5. /\ s2 \in Seq(Item) /\ Len(s2) = n /\ \A i \in 1..n : s2[i] = z[a + i]
  <2>1. a + n \in Nat /\ a <= a + n /\ a + n <= Len(z)
    BY <1>1
  <2>2. ASSUME NEW h \in Nat, h = a + n
        PROVE  /\ SubSeq(z, a + 1, h) \in Seq(Item) /\ Len(SubSeq(z, a + 1, h)) = h - a
               /\ \A i \in 1..(h - a) : SubSeq(z, a + 1, h)[i] = z[a + i]
    BY <1>1, <2>1, <2>2, Slice
  <2>3. s2 \in Seq(Item) /\ Len(s2) = (a + n) - a /\ \A i \in 1..((a + n) - a) : s2[i] = z[a + i]
    BY <2>1, <2>2
  <2> HIDE DEF s2
  <2>4. (a + n) - a = n
    OBVIOUS
  <2> QED BY <2>3, <2>4
<1>6. s3 \in Seq(Item) /\ Len(s3) = m /\ \A i \in 1..m : s3[i] = z[i]
  <2>1. s3 \in Seq(Item) /\ Len(s3) = m - 0 /\ \A i \in 1..(m - 0) : s3[i] = z[0 + i]
    <3>1. 0 \in Nat /\ 0 <= m /\ 1 = 0 + 1 /\ m <= Len(z)
      BY <1>1
    <3> QED BY <1>1, <3>1, Slice
  <2> HIDE DEF s3
  <2> QED BY <2>1
<1>7. x3 \in Seq(Item) /\ Len(x3) = m /\ \A i \in 1..m : x3[i] = x[i]
  <2>1. x3 \in Seq(Item) /\ Len(x3) = m - 0 /\ \A i \in 1..(m - 0) : x3[i] = x[0 + i]
    <3>1. 0 \in Nat /\ 0 <= m /\ 1 = 0 + 1
      OBVIOUS
    <3> QED BY <3>1, Slice
  <2> HIDE DEF x3
  <2> QED BY <2>1
<1>8. x4 \in Seq(Item) /\ Len(x4) = a /\ \A i \in 1..a : x4[i] = x[i]
  <2>1. x4 \in Seq(Item) /\ Len(x4) = a - 0 /\ \A i \in 1..(a - 0) : x4[i] = x[0 + i]
    <3>1. 0 \in Nat /\ 0 <= a /\ 1 = 0 + 1
      OBVIOUS
    <3> QED BY <3>1, Slice
  <2> HIDE DEF x4
  <2> QED BY <2>1
<1> HIDE DEF s1, x1, y1, s2, s3, x3, x4
<1>9. s1 = x1 \o y1
  <2>1. a - m \in Nat
    OBVIOUS
  <2>2. /\ x1 \o y1 \in Seq(Item) /\ Len(x1 \o y1) = (a - m) + n
        /\ \A i \in 1..((a - m) + n) : (x1 \o y1)[i] = IF i <= a - m THEN x1[i] ELSE y1[i - (a - m)]
    <3>1. ASSUME NEW h \in Nat, h = a - m
          PROVE  /\ x1 \o y1 \in Seq(Item) /\ Len(x1 \o y1) = h + n
                 /\ \A i \in 1..(h + n) : (x1 \o y1)[i] = IF i <= h THEN x1[i] ELSE y1[i - h]
      <4>1. x1 \in Seq(Item) /\ y1 \in Seq(Item) /\ Len(x1) = h /\ Len(y1) = n
        BY <1>3, <1>4, <3>1
      <4> QED BY <4>1, ConcatProperties
    <3> QED BY <2>1, <3>1
  <2>3. a + n - m = (a - m) + n
    OBVIOUS
  <2>4. ASSUME NEW i \in 1..((a - m) + n) PROVE s1[i] = (x1 \o y1)[i]
    <3>1. /\ m + i \in 1..(a + c) /\ (i <= a - m => m + i <= a)
          /\ ~(i <= a - m) => ~(m + i <= a) /\ m + i - a \in 1..n /\ m + i - a = i - (a - m)
      OBVIOUS
    <3>2. s1[i] = z[m + i]
      BY <1>2, <2>3
    <3>3. CASE i <= a - m
      BY <1>1, <1>3, <2>2, <3>1, <3>2, <3>3
    <3>4. CASE ~(i <= a - m)
      <4>1. z[m + i] = y[m + i - a]
        BY <1>1, <3>1, <3>4
      <4>2. (x1 \o y1)[i] = y1[m + i - a]
        BY <2>2, <3>1, <3>4
      <4> QED BY <1>4, <3>1, <3>2, <3>4, <4>1, <4>2
    <3> QED BY <3>3, <3>4
  <2>5. Len(s1) = Len(x1 \o y1) /\ \A i \in 1..Len(s1) : s1[i] = (x1 \o y1)[i]
    BY <1>2, <2>2, <2>3, <2>4
  <2> QED BY <1>2, <2>2, <2>5, SeqEqual
<1>10. s2 = y1
  <2>1. ASSUME NEW i \in 1..n PROVE s2[i] = y1[i]
    <3>1. a + i \in 1..(a + c) /\ ~(a + i <= a) /\ a + i - a = i
      OBVIOUS
    <3> QED BY <1>1, <1>4, <1>5, <3>1
  <2> QED BY <1>4, <1>5, <2>1, SeqEqual
<1>11. s3 = x3
  <2>1. ASSUME NEW i \in 1..m PROVE s3[i] = x3[i]
    BY <1>1, <1>6, <1>7
  <2> QED BY <1>6, <1>7, <2>1, SeqEqual
<1>12. x4 = x
  BY <1>8, SeqEqual
<1> QED BY <1>9, <1>10, <1>11, <1>12 DEF s1, x1, y1, s2, s3, x3, x4, z

\* A part that ends in the second of two joined texts
LEMMA JoinedFront ==
    ASSUME NEW x \in Seq(Item), NEW y \in Seq(Item), NEW m \in Nat, NEW n \in Nat, m <= Len(x), n <= Len(y)
    PROVE  SubSeq(x \o y, m + 1, Len(x) + n) = SubSeq(x, m + 1, Len(x)) \o SubSeq(y, 1, n)
<1> DEFINE a == Len(x)
           c == Len(y)
<1>1. a \in Nat /\ c \in Nat /\ Len(x) = a /\ Len(y) = c
  BY LenProperties
<1> HIDE DEF a, c
<1>2. SubSeq(x \o y, m + 1, a + n) = SubSeq(x, m + 1, a) \o SubSeq(y, 1, n)
  BY <1>1, PartsOfJoined
<1> QED BY <1>1, <1>2

\* A part of the first of two joined texts
LEMMA JoinedFirst ==
    ASSUME NEW x \in Seq(Item), NEW y \in Seq(Item), NEW m \in Nat, m <= Len(x)
    PROVE  SubSeq(x \o y, 1, m) = SubSeq(x, 1, m)
<1> DEFINE a == Len(x)
           c == Len(y)
<1>1. a \in Nat /\ c \in Nat /\ Len(x) = a /\ Len(y) = c /\ 0 \in Nat /\ 0 <= c
  BY LenProperties
<1> HIDE DEF a, c
<1> QED BY <1>1, PartsOfJoined

\* The second of two joined texts
LEMMA JoinedLast ==
    ASSUME NEW x \in Seq(Item), NEW y \in Seq(Item)
    PROVE  SubSeq(x \o y, Len(x) + 1, Len(x) + Len(y)) = y
<1> DEFINE a == Len(x)
           c == Len(y)
<1>1. a \in Nat /\ c \in Nat /\ Len(x) = a /\ Len(y) = c /\ 0 \in Nat /\ 0 <= c /\ 0 <= a /\ c <= c
  BY LenProperties
<1> HIDE DEF a, c
<1>2. SubSeq(x \o y, a + 1, a + c) = SubSeq(y, 1, c)
  BY <1>1, PartsOfJoined
<1>3. SubSeq(y, 1, c) = y
  BY <1>1, PartsOfJoined
<1> QED BY <1>1, <1>2, <1>3

\* The parts of three texts joined
LEMMA ThreeTyped ==
    ASSUME NEW x \in Seq(Item), NEW t \in Seq(Item), NEW y \in Seq(Item)
    PROVE  x \o t \o y \in Seq(Item) /\ Len(x \o t \o y) = Len(x) + Len(t) + Len(y)
BY ConcatProperties

\* A part that ends with the second of three joined texts
LEMMA ThreeFront ==
    ASSUME NEW x \in Seq(Item), NEW t \in Seq(Item), NEW y \in Seq(Item), NEW m \in Nat, m <= Len(x)
    PROVE  SubSeq(x \o t \o y, m + 1, Len(x) + Len(t)) = SubSeq(x, m + 1, Len(x)) \o t
<1>1. t \o y \in Seq(Item) /\ Len(t \o y) = Len(t) + Len(y)
  BY ConcatProperties
<1>2. Len(t) <= Len(t \o y) /\ Len(t) \in Nat /\ Len(t) <= Len(t)
  BY <1>1, LenProperties
<1>3. (x \o t) \o y = x \o (t \o y)
  BY ConcatAssociative
<1>4. SubSeq(x \o (t \o y), m + 1, Len(x) + Len(t)) = SubSeq(x, m + 1, Len(x)) \o SubSeq(t \o y, 1, Len(t))
  BY <1>1, <1>2, JoinedFront
<1>5. SubSeq(t \o y, 1, Len(t)) = SubSeq(t, 1, Len(t))
  BY <1>2, JoinedFirst
<1>6. SubSeq(t, 1, Len(t)) = t
  BY SubSeqFull
<1> QED BY <1>3, <1>4, <1>5, <1>6

\* The last of three joined texts
LEMMA ThreeLast ==
    ASSUME NEW x \in Seq(Item), NEW t \in Seq(Item), NEW y \in Seq(Item)
    PROVE  SubSeq(x \o t \o y, (Len(x) + Len(t)) + 1, (Len(x) + Len(t)) + Len(y)) = y
<1>1. x \o t \in Seq(Item) /\ Len(x \o t) = Len(x) + Len(t)
  BY ConcatProperties
<1> QED BY <1>1, JoinedLast

\* A part of the first of three joined texts
LEMMA ThreeFirst ==
    ASSUME NEW x \in Seq(Item), NEW t \in Seq(Item), NEW y \in Seq(Item), NEW m \in Nat, m <= Len(x)
    PROVE  SubSeq(x \o t \o y, 1, m) = SubSeq(x, 1, m)
<1>1. t \o y \in Seq(Item) /\ (x \o t) \o y = x \o (t \o y)
  BY ConcatProperties, ConcatAssociative
<1> QED BY <1>1, JoinedFirst

\* What an item that stays, and one that is replaced, contribute
LEMMA UnfoldStays ==
    ASSUME NEW e, NEW k, k[1] # <<>>, Stays(k)
    PROVE  /\ Unfold(e, k).text = <<Head(k[1])>> \o e[Behind(k)].text
           /\ Unfold(e, k).denied = e[Behind(k)].denied \cup (({Names(Head(k[1]), k[2])} \cap Denied) \ k[3])
<1>1. Unfold(e, k) =
          [text |-> <<Head(k[1])>> \o e[Behind(k)].text,
           denied |-> e[Behind(k)].denied \cup (({Names(Head(k[1]), k[2])} \cap Denied) \ k[3])]
  BY Zenon DEF Unfold
<1> QED BY <1>1

\* A token that is replaced gives the text of its file, and then what is behind it.
LEMMA UnfoldGoes ==
    ASSUME NEW e, NEW k, k[1] # <<>>, ~Stays(k)
    PROVE  /\ Unfold(e, k).text = e[Into(k)].text \o e[Behind(k)].text
           /\ Unfold(e, k).denied = e[Into(k)].denied \cup e[Behind(k)].denied
<1> DEFINE t == e[Into(k)].text \o e[Behind(k)].text
           d == e[Into(k)].denied \cup e[Behind(k)].denied
<1>1. Unfold(e, k) = [text |-> t, denied |-> d]
  BY Zenon DEF Unfold
<1> HIDE DEF t, d
<1>2. Unfold(e, k).text = t /\ Unfold(e, k).denied = d
  BY <1>1
<1> QED BY <1>2, Zenon DEF t, d

\* An expansion is a text.
LEMMA ExpandTyped ==
    ASSUME IsFiniteSet(Paths), disk \in Disks, command \in Commands, NEW k \in Expansions
    PROVE  Expand[k].text \in Seq(Item)
<1> DEFINE S == {j \in Expansions : Expand[j].text \notin Seq(Item)}
<1>1. S = {}
  <2> SUFFICES ASSUME S # {} PROVE FALSE
    OBVIOUS
  <2>1. PICK j \in S : \A i \in S : ~Before(i, j)
    <3> HIDE DEF S
    <3>1. S \subseteq Expansions
      BY DEF S
    <3> QED BY <3>1, FirstKey
  <2>2. j \in Expansions /\ Expand[j].text \notin Seq(Item) /\ Expand[j] = Unfold(Expand, j)
    BY <2>1, ExpandFacts
  <2>3. \A i \in Expansions : Before(i, j) => Expand[i].text \in Seq(Item)
    BY <2>1
  <2> HIDE DEF S
  <2>4. CASE j[1] = <<>>
    <3>1. Expand[j] = [text |-> <<>>, denied |-> {}]
      BY <2>2, <2>4, Zenon DEF Unfold
    <3>2. Expand[j].text = <<>>
      BY <3>1
    <3> QED BY <2>2, <3>2, EmptySeq
  <2>5. CASE j[1] # <<>> /\ Stays(j)
    <3>1. Expand[Behind(j)].text \in Seq(Item) /\ Head(j[1]) \in Item
      BY <2>2, <2>3, <2>5, PartsComeBefore, KeyFacts
    <3>2. Expand[j].text = <<Head(j[1])>> \o Expand[Behind(j)].text
      BY <2>2, <2>5, UnfoldStays
    <3>3. <<Head(j[1])>> \in Seq(Item)
      BY <3>1
    <3> QED BY <2>2, <3>1, <3>2, <3>3, ConcatProperties
  <2>6. CASE j[1] # <<>> /\ ~Stays(j)
    <3>1. Expand[Behind(j)].text \in Seq(Item) /\ Expand[Into(j)].text \in Seq(Item)
      BY <2>2, <2>3, <2>6, PartsComeBefore
    <3>2. Expand[j].text = Expand[Into(j)].text \o Expand[Behind(j)].text
      BY <2>2, <2>6, UnfoldGoes
    <3> QED BY <2>2, <3>1, <3>2, ConcatProperties
  <2> QED BY <2>4, <2>5, <2>6
<1> QED BY <1>1

\* The expansion of nothing, of an item that stays, and of a token that is replaced
LEMMA ExpandEmpty ==
    ASSUME IsFiniteSet(Paths), disk \in Disks, command \in Commands, NEW s \in Spots, NEW A \in SUBSET Spots
    PROVE  Expand[<<<<>>, s, A>>].text = <<>> /\ Expand[<<<<>>, s, A>>].denied = {}
<1> DEFINE k == <<<<>>, s, A>>
<1>1. k \in Expansions /\ k[1] = <<>>
  BY EmptySeq DEF Expansions, Spots
<1> HIDE DEF k
<1>2. Expand[k] = [text |-> <<>>, denied |-> {}]
  <2>1. Expand[k] = Unfold(Expand, k)
    BY <1>1, ExpandFacts
  <2> QED BY <1>1, <2>1, Zenon DEF Unfold
<1>3. Expand[k].text = <<>> /\ Expand[k].denied = {}
  BY <1>2
<1> QED BY <1>3 DEF k

\* What the file a token names is to give
Inside(f, s, A) == <<BodyOf(Contents(f)), SearchOf(Contents(f), f, s), A \cup {f}>>

\* How the expansion of a text follows from its item at p
ItemFacts(b, p, s, A) ==
    /\ Names(b[p], s) \in {NULL} \cup A \cup Denied =>
          /\ Expand[<<SubSeq(b, p, Len(b)), s, A>>].text
             = <<b[p]>> \o Expand[<<SubSeq(b, p + 1, Len(b)), s, A>>].text
          /\ Expand[<<SubSeq(b, p, Len(b)), s, A>>].denied
             = Expand[<<SubSeq(b, p + 1, Len(b)), s, A>>].denied \cup (({Names(b[p], s)} \cap Denied) \ A)
    /\ Names(b[p], s) \notin {NULL} \cup A \cup Denied =>
          /\ Expand[<<SubSeq(b, p, Len(b)), s, A>>].text
             = Expand[Inside(Names(b[p], s), s, A)].text \o Expand[<<SubSeq(b, p + 1, Len(b)), s, A>>].text
          /\ Expand[<<SubSeq(b, p, Len(b)), s, A>>].denied
             = Expand[Inside(Names(b[p], s), s, A)].denied
               \cup Expand[<<SubSeq(b, p + 1, Len(b)), s, A>>].denied

\* The expansion of the rest of a text, by its first item.
LEMMA ExpandItem ==
    ASSUME IsFiniteSet(Paths), disk \in Disks, command \in Commands,
           NEW s \in Spots, NEW A \in SUBSET Spots,
           NEW b \in Seq(Item), NEW p \in 1..Len(b)
    PROVE  ItemFacts(b, p, s, A)
<1> DEFINE f == Names(b[p], s)
           k == <<SubSeq(b, p, Len(b)), s, A>>
<1>0. Len(b) \in Nat /\ p \in 1..Len(b) /\ Len(b) \in p..Len(b)
  BY LenProperties
<1>1. /\ Head(SubSeq(b, p, Len(b))) = b[p] /\ Tail(SubSeq(b, p, Len(b))) = SubSeq(b, p + 1, Len(b))
      /\ SubSeq(b, p, Len(b)) \in Seq(Item) /\ SubSeq(b, p, Len(b)) # <<>>
  <2>1. /\ Head(SubSeq(b, p, Len(b))) = b[p] /\ Tail(SubSeq(b, p, Len(b))) = SubSeq(b, p + 1, Len(b))
    BY <1>0, HeadTailOfSubSeq
  <2>2. \A i \in p..Len(b) : b[i] \in Item
    BY <1>0, ElementOfSeq
  <2>3. SubSeq(b, p, Len(b)) \in Seq(Item) /\ Len(SubSeq(b, p, Len(b))) = Len(b) - p + 1
    <3>1. p \in Int /\ Len(b) \in Int /\ p <= Len(b)
      BY <1>0
    <3> QED BY <2>2, <3>1, SubSeqProperties
  <2>4. SubSeq(b, p, Len(b)) # <<>>
    <3>1. Len(SubSeq(b, p, Len(b))) # 0
      BY <1>0, <2>3
    <3> QED BY <3>1, EmptySeq
  <2> QED BY <2>1, <2>3, <2>4
<1>2. k \in Expansions
  BY <1>1 DEF Expansions, Spots
<1>3. /\ k[1] # <<>> /\ Behind(k) = <<SubSeq(b, p + 1, Len(b)), s, A>>
      /\ Into(k) = Inside(f, s, A)
      /\ (Stays(k) <=> f \in {NULL} \cup A \cup Denied)
      /\ Head(k[1]) = b[p] /\ Names(Head(k[1]), k[2]) = f /\ k[3] = A
  <2>1. k[1] = SubSeq(b, p, Len(b)) /\ k[2] = s /\ k[3] = A
    OBVIOUS
  <2> HIDE DEF k
  <2>2. Head(k[1]) = b[p] /\ Tail(k[1]) = SubSeq(b, p + 1, Len(b)) /\ k[1] # <<>>
    BY <1>1, <2>1
  <2> QED BY <2>1, <2>2 DEF Behind, Into, Stays, Inside
<1>4. Expand[k] = Unfold(Expand, k)
  BY <1>2, ExpandFacts
<1> HIDE DEF k, f
<1>5. CASE Stays(k)
  <2>1. /\ Expand[k].text = <<Head(k[1])>> \o Expand[Behind(k)].text
        /\ Expand[k].denied = Expand[Behind(k)].denied \cup (({Names(Head(k[1]), k[2])} \cap Denied) \ k[3])
    BY <1>3, <1>4, <1>5, UnfoldStays
  <2>2. f \in {NULL} \cup A \cup Denied
    BY <1>3, <1>5
  <2>3. /\ Expand[k].text = <<b[p]>> \o Expand[Behind(k)].text
        /\ Expand[k].denied = Expand[Behind(k)].denied \cup (({f} \cap Denied) \ A)
    BY <1>3, <2>1
  <2> QED BY <1>3, <2>2, <2>3 DEF k, f, ItemFacts
<1>6. CASE ~Stays(k)
  <2>1. /\ Expand[k].text = Expand[Into(k)].text \o Expand[Behind(k)].text
        /\ Expand[k].denied = Expand[Into(k)].denied \cup Expand[Behind(k)].denied
    BY <1>3, <1>4, <1>6, UnfoldGoes
  <2>2. ~(f \in {NULL} \cup A \cup Denied)
    BY <1>3, <1>6
  <2> QED BY <1>3, <2>1, <2>2 DEF k, f, ItemFacts
<1> QED BY <1>5, <1>6

\* Texts are joined in any order.
LEMMA Associative == \A x, y, z \in Seq(Item) : (x \o y) \o z = x \o (y \o z)
BY ConcatAssociative

\* What is passed grows by an item.
LEMMA PassedGrows ==
    ASSUME NEW b \in Seq(Item), NEW m \in Nat, NEW p \in Nat, m < p, p <= Len(b)
    PROVE  /\ SubSeq(b, m + 1, p) = SubSeq(b, m + 1, p - 1) \o <<b[p]>>
           /\ SubSeq(b, m + 1, p - 1) \in Seq(Item) /\ b[p] \in Item
           /\ SubSeq(b, p + 1, Len(b)) \in Seq(Item)
<1>0. Len(b) \in Nat
  BY LenProperties
<1>1. m + 1 \in 1..Len(b) /\ p \in (m + 1)..Len(b) /\ p \in 1..Len(b)
  BY <1>0
<1>2. \A i \in 1..Len(b) : b[i] \in Item
  BY ElementOfSeq
<1>3. SubSeq(b, m + 1, p - 1) \in Seq(Item)
  <2>1. p - 1 \in Nat /\ m <= p - 1 /\ p - 1 <= Len(b)
    BY <1>0
  <2>2. ASSUME NEW q \in Nat, m <= q, q <= Len(b) PROVE SubSeq(b, m + 1, q) \in Seq(Item)
    BY <2>2, Slice
  <2> QED BY <2>1, <2>2
<1>4. SubSeq(b, p + 1, Len(b)) \in Seq(Item)
  BY <1>0, Slice
<1> QED BY <1>1, <1>2, <1>3, <1>4, SubSeqRecursiveSecond

\* Replacing an item by a text: what was passed, and what is ahead
Spliced(b, p, t) == SubSeq(b, 1, p - 1) \o t \o SubSeq(b, p + 1, Len(b))

\* The parts of a text that an item was replaced in
SpliceFacts(b, m, p, t) ==
    /\ Spliced(b, p, t) \in Seq(Item)
    /\ SubSeq(Spliced(b, p, t), m + 1, p - 1 + Len(t)) = SubSeq(b, m + 1, p - 1) \o t
    /\ SubSeq(Spliced(b, p, t), p + Len(t), Len(Spliced(b, p, t))) = SubSeq(b, p + 1, Len(b))
    /\ SubSeq(Spliced(b, p, t), 1, m) = SubSeq(b, 1, m)

\* Replacing one item leaves what is in front of it and what is behind it.
LEMMA SpliceParts ==
    ASSUME NEW b \in Seq(Item), NEW m \in Nat, NEW p \in Nat, NEW t \in Seq(Item), m < p, p <= Len(b)
    PROVE  SpliceFacts(b, m, p, t)
<1> DEFINE before == SubSeq(b, 1, p - 1)
           after == SubSeq(b, p + 1, Len(b))
           nb == before \o t \o after
<1>0. Len(b) \in Nat /\ Len(t) \in Nat
  BY LenProperties
<1>1. PICK q \in Nat : q = p - 1
  OBVIOUS
<1>2. PICK r \in Nat : r = Len(t)
  BY <1>0
<1>3. PICK u \in Nat : u = Len(b) - p
  BY <1>0
<1>4. before \in Seq(Item) /\ Len(before) = q /\ \A i \in 1..q : before[i] = b[i]
  <2>1. q <= Len(b) /\ before = SubSeq(b, 1, q)
    BY <1>0, <1>1
  <2> HIDE DEF before
  <2> QED BY <2>1, Prefix
<1>5. after \in Seq(Item) /\ Len(after) = u
  <2>1. Len(b) \in Nat /\ p <= Len(b) /\ Len(b) <= Len(b)
    BY <1>0
  <2>2. SubSeq(b, p + 1, Len(b)) \in Seq(Item) /\ Len(SubSeq(b, p + 1, Len(b))) = Len(b) - p
    BY <2>1, Slice
  <2> QED BY <1>3, <2>2
<1> HIDE DEF before, after, nb
<1>7. m <= q /\ p = q + 1 /\ Len(b) = q + 1 + u
  BY <1>0, <1>1, <1>3
<1>8. /\ nb \in Seq(Item) /\ Len(nb) = q + r + u
      /\ SubSeq(nb, m + 1, q + r) = SubSeq(before, m + 1, q) \o t
      /\ SubSeq(nb, (q + r) + 1, (q + r) + u) = after
      /\ SubSeq(nb, 1, m) = SubSeq(before, 1, m)
  <2>1. m <= Len(before) /\ Len(before) = q /\ Len(t) = r /\ Len(after) = u
    BY <1>2, <1>4, <1>5, <1>7
  <2>2. nb \in Seq(Item) /\ Len(nb) = q + r + u
    <3>1. nb \in Seq(Item) /\ Len(nb) = Len(before) + Len(t) + Len(after)
      BY <1>4, <1>5, ThreeTyped DEF nb
    <3> QED BY <2>1, <3>1
  <2>3. SubSeq(nb, m + 1, q + r) = SubSeq(before, m + 1, q) \o t
    <3>1. before \in Seq(Item) /\ after \in Seq(Item) /\ m <= Len(before)
      BY <1>4, <1>5, <2>1
    <3>2. SubSeq(before \o t \o after, m + 1, Len(before) + Len(t)) = SubSeq(before, m + 1, Len(before)) \o t
      BY <3>1, ThreeFront, Zenon
    <3> QED BY <2>1, <3>2 DEF nb
  <2>4. SubSeq(nb, (q + r) + 1, (q + r) + u) = after
    BY <1>4, <1>5, <2>1, ThreeLast DEF nb
  <2>5. SubSeq(nb, 1, m) = SubSeq(before, 1, m)
    BY <1>4, <1>5, <2>1, ThreeFirst DEF nb
  <2> QED BY <2>2, <2>3, <2>4, <2>5
<1>10. SubSeq(before, m + 1, q) = SubSeq(b, m + 1, q) /\ SubSeq(before, 1, m) = SubSeq(b, 1, m)
  <2>1. q <= Len(b) /\ q <= Len(before) /\ m <= Len(b) /\ m <= Len(before)
    BY <1>4, <1>7
  <2>2. /\ SubSeq(before, m + 1, q) \in Seq(Item) /\ Len(SubSeq(before, m + 1, q)) = q - m
        /\ \A i \in 1..(q - m) : SubSeq(before, m + 1, q)[i] = before[m + i]
    BY <1>4, <1>7, <2>1, Slice
  <2>3. /\ SubSeq(b, m + 1, q) \in Seq(Item) /\ Len(SubSeq(b, m + 1, q)) = q - m
        /\ \A i \in 1..(q - m) : SubSeq(b, m + 1, q)[i] = b[m + i]
    BY <1>7, <2>1, Slice
  <2>4. SubSeq(before, m + 1, q) = SubSeq(b, m + 1, q)
    <3>1. \A i \in 1..(q - m) : m + i \in 1..q
      BY <1>7
    <3>2. \A i \in 1..(q - m) : SubSeq(before, m + 1, q)[i] = SubSeq(b, m + 1, q)[i]
      BY <1>4, <2>2, <2>3, <3>1
    <3> QED BY <2>2, <2>3, <3>2, SeqEqual
  <2>5. /\ SubSeq(before, 1, m) \in Seq(Item) /\ Len(SubSeq(before, 1, m)) = m
        /\ \A i \in 1..m : SubSeq(before, 1, m)[i] = before[i]
    BY <1>4, <2>1, Prefix
  <2>6. /\ SubSeq(b, 1, m) \in Seq(Item) /\ Len(SubSeq(b, 1, m)) = m
        /\ \A i \in 1..m : SubSeq(b, 1, m)[i] = b[i]
    BY <2>1, Prefix
  <2>7. \A i \in 1..m : i \in 1..q
    BY <1>7
  <2>8. \A i \in 1..m : SubSeq(before, 1, m)[i] = SubSeq(b, 1, m)[i]
    BY <1>4, <2>5, <2>6, <2>7
  <2>9. SubSeq(before, 1, m) = SubSeq(b, 1, m)
    BY <2>5, <2>6, <2>8, SeqEqual
  <2> QED BY <2>4, <2>9
<1>11. /\ p - 1 + Len(t) = q + r /\ p + Len(t) = (q + r) + 1 /\ p - 1 = q /\ Len(nb) = (q + r) + u
  BY <1>0, <1>1, <1>2, <1>3, <1>8
<1>12. /\ SubSeq(nb, m + 1, p - 1 + Len(t)) = SubSeq(b, m + 1, p - 1) \o t
       /\ SubSeq(nb, p + Len(t), Len(nb)) = after
  BY <1>8, <1>10, <1>11
<1> QED BY <1>8, <1>10, <1>11, <1>12 DEF nb, before, after, Spliced, SpliceFacts
-----------------------------------------------------------------------------
\* The disk and the command do not change, nor what they mean.
LEMMA SameWorld ==
    ASSUME disk' = disk, command' = command
    PROVE  /\ Expand' = Expand /\ Expected' = Expected /\ SourceDocument' = SourceDocument
           /\ Framed' = Framed
           /\ \A it, s : PathOf(it, s)' = PathOf(it, s)
           /\ \A p : Contents(p)' = Contents(p)
           /\ \A d, p, s : SearchOf(d, p, s)' = SearchOf(d, p, s)
<1>1. Expand' = Expand
  BY SMT DEF Expand, PathOf, realpath, Extension, Contents, SearchOf, BodyOf
<1>2. \A it, s : PathOf(it, s)' = PathOf(it, s)
  BY DEF PathOf, realpath, Extension
<1>3. \A p : Contents(p)' = Contents(p)
  BY DEF Contents
<1>4. \A d, p, s : SearchOf(d, p, s)' = SearchOf(d, p, s)
  BY DEF SearchOf, realpath
<1>5. SourceDocument' = SourceDocument
  BY DEF SourceDocument
<1>6. Framing' = Framing /\ SearchPath' = SearchPath
  BY DEF Framing, SearchPath
<1>7. Framed' = Framed
  BY <1>5, <1>6 DEF Framed, BodyOf
<1>8. Expected' = Expected
  BY <1>1, <1>4, <1>5, <1>6 DEF Expected, BodyOf
<1> QED BY <1>1, <1>2, <1>3, <1>4, <1>5, <1>7, <1>8

\* What is passed of a text and the expansion of what is ahead give t
Gives(b, m, p, s, A, t) ==
    /\ m < p /\ p <= Len(b)
    /\ SubSeq(b, m + 1, p - 1) \o Expand[<<SubSeq(b, p, Len(b)), s, A>>].text = t
\* Finitely many paths, and a disk and a command as they may be
Finite == IsFiniteSet(Paths) /\ disk \in Disks /\ command \in Commands

\* The text still given behind an item that stays
StepFacts(b, m, p, s, A, t) ==
    /\ SubSeq(b, m + 1, p) \o Expand[<<SubSeq(b, p + 1, Len(b)), s, A>>].text = t
    /\ Expand[<<SubSeq(b, p, Len(b)), s, A>>].denied
       = Expand[<<SubSeq(b, p + 1, Len(b)), s, A>>].denied \cup (({Names(b[p], s)} \cap Denied) \ A)

\* The scan passes over an item that stays.
LEMMA StepOver ==
    ASSUME Finite, NEW b \in Seq(Item), NEW m \in Nat, NEW p \in Nat,
           NEW s \in Spots, NEW A \in SUBSET Spots, NEW t,
           Gives(b, m, p, s, A, t), Names(b[p], s) \in {NULL} \cup A \cup Denied
    PROVE  StepFacts(b, m, p, s, A, t)
<1> DEFINE all == Expand[<<SubSeq(b, p, Len(b)), s, A>>]
           rest == Expand[<<SubSeq(b, p + 1, Len(b)), s, A>>]
           before == SubSeq(b, m + 1, p - 1)
<1>0. IsFiniteSet(Paths) /\ disk \in Disks /\ command \in Commands /\ m < p /\ p <= Len(b)
  BY DEF Gives, Finite
<1>1. p \in 1..Len(b)
  BY <1>0, LenProperties
<1>2. /\ all.text = <<b[p]>> \o rest.text
      /\ all.denied = rest.denied \cup (({Names(b[p], s)} \cap Denied) \ A)
  <2>1. ItemFacts(b, p, s, A)
    BY <1>0, <1>1, ExpandItem
  <2> QED BY <2>1 DEF ItemFacts
<1>3. /\ SubSeq(b, m + 1, p) = before \o <<b[p]>>
      /\ before \in Seq(Item) /\ b[p] \in Item /\ SubSeq(b, p + 1, Len(b)) \in Seq(Item)
  BY <1>0, PassedGrows, Zenon
<1>4. rest.text \in Seq(Item)
  <2>1. <<SubSeq(b, p + 1, Len(b)), s, A>> \in Expansions
    BY <1>3 DEF Expansions, Spots
  <2> QED BY <1>0, <2>1, ExpandTyped
<1>5. before \o all.text = t
  BY DEF Gives
<1> HIDE DEF all, rest, before
<1>6. (before \o <<b[p]>>) \o rest.text = before \o (<<b[p]>> \o rest.text)
  <2>1. <<b[p]>> \in Seq(Item) /\ before \in Seq(Item)
    BY <1>3
  <2> QED BY <1>4, <2>1, Associative, Zenon
<1> QED BY <1>2, <1>3, <1>5, <1>6 DEF all, rest, before, StepFacts

\* The text still given behind a text t that an item was replaced by
ReplaceFacts(b, m, p, s, A, t, i) ==
    /\ SubSeq(Spliced(b, p, i), m + 1, p - 1 + Len(i))
       \o Expand[<<SubSeq(Spliced(b, p, i), p + Len(i), Len(Spliced(b, p, i))), s, A>>].text = t
    /\ SubSeq(Spliced(b, p, i), p + Len(i), Len(Spliced(b, p, i))) = SubSeq(b, p + 1, Len(b))
    /\ Expand[<<SubSeq(b, p, Len(b)), s, A>>].denied
       = Expand[Inside(Names(b[p], s), s, A)].denied
         \cup Expand[<<SubSeq(b, p + 1, Len(b)), s, A>>].denied

\* The text of a file takes the place of its token.
LEMMA Replace ==
    ASSUME Finite, NEW b \in Seq(Item), NEW m \in Nat, NEW p \in Nat,
           NEW s \in Spots, NEW A \in SUBSET Spots, NEW t,
           Gives(b, m, p, s, A, t), Names(b[p], s) \notin {NULL} \cup A \cup Denied,
           NEW i \in Seq(Item), Expand[Inside(Names(b[p], s), s, A)].text = i
    PROVE  ReplaceFacts(b, m, p, s, A, t, i)
<1> DEFINE nb == Spliced(b, p, i)
           all == Expand[<<SubSeq(b, p, Len(b)), s, A>>]
           rest == Expand[<<SubSeq(b, p + 1, Len(b)), s, A>>]
           into == Expand[Inside(Names(b[p], s), s, A)]
           before == SubSeq(b, m + 1, p - 1)
<1>0. IsFiniteSet(Paths) /\ disk \in Disks /\ command \in Commands /\ m < p /\ p <= Len(b)
  BY DEF Gives, Finite
<1>1. p \in 1..Len(b)
  BY <1>0, LenProperties
<1>2. all.text = into.text \o rest.text /\ all.denied = into.denied \cup rest.denied
  <2>1. ItemFacts(b, p, s, A)
    BY <1>0, <1>1, ExpandItem
  <2> QED BY <2>1 DEF ItemFacts
<1>3. before \in Seq(Item) /\ SubSeq(b, p + 1, Len(b)) \in Seq(Item)
  BY <1>0, PassedGrows, Zenon
<1>4. rest.text \in Seq(Item)
  <2>1. <<SubSeq(b, p + 1, Len(b)), s, A>> \in Expansions
    BY <1>3 DEF Expansions, Spots
  <2> QED BY <1>0, <2>1, ExpandTyped
<1>5. /\ nb \in Seq(Item)
      /\ SubSeq(nb, m + 1, p - 1 + Len(i)) = before \o i
      /\ SubSeq(nb, p + Len(i), Len(nb)) = SubSeq(b, p + 1, Len(b))
      /\ SubSeq(nb, 1, m) = SubSeq(b, 1, m)
  <2>1. SpliceFacts(b, m, p, i)
    BY <1>0, SpliceParts
  <2> QED BY <2>1 DEF SpliceFacts
<1>6. Expand[<<SubSeq(nb, p + Len(i), Len(nb)), s, A>>] = rest
  BY <1>5
<1>7. before \o all.text = t /\ into.text = i
  BY DEF Gives
<1> HIDE DEF nb, all, rest, into, before
<1>8. (before \o i) \o rest.text = before \o (i \o rest.text)
  <2>1. before \in Seq(Item)
    BY <1>3
  <2> QED BY <1>4, <2>1, Associative, Zenon
<1>9. SubSeq(nb, m + 1, p - 1 + Len(i)) \o Expand[<<SubSeq(nb, p + Len(i), Len(nb)), s, A>>].text = t
  BY <1>2, <1>5, <1>6, <1>7, <1>8
<1> QED BY <1>2, <1>5, <1>9 DEF nb, all, rest, into, ReplaceFacts
-----------------------------------------------------------------------------
\* What an activation is owed changes neither with what is above nor below it.
LEMMA FulfilsStays ==
    ASSUME disk' = disk, command' = command, NEW i \in Nat \ {0}, calls'[i] = calls[i],
           \A j \in 1..i : calls'[j].file = calls[j].file, failed \subseteq failed', Fulfils(i)
    PROVE  Fulfils(i)'
<1>1. Expand' = Expand /\ Expected' = Expected /\ \A p : Contents(p)' = Contents(p)
  BY SameWorld
<1>2. Above(i)' = Above(i)
  BY DEF Above
<1>3. Left(i)' = Left(i)
  BY <1>1, <1>2 DEF Left
<1>4. Owed(i)' = Owed(i)
  BY <1>1, <1>2 DEF Owed
<1> QED BY <1>1, <1>3, <1>4 DEF Fulfils

\* Nor does the token that named the file of an activation.
LEMMA NamedStays ==
    ASSUME disk' = disk, command' = command, NEW i \in Nat, i > 1, calls'[i - 1] = calls[i - 1],
           \A j \in 1..i : calls'[j].file = calls[j].file, calls'[i].search = calls[i].search, Named(i)
    PROVE  Named(i)'
<1>1. /\ \A it, s : PathOf(it, s)' = PathOf(it, s)
      /\ \A p : Contents(p)' = Contents(p)
      /\ \A d, p, s : SearchOf(d, p, s)' = SearchOf(d, p, s)
  BY SameWorld
<1>2. Above(i - 1)' = Above(i - 1) /\ calls'[i].file = calls[i].file
  BY DEF Above
<1> QED BY <1>1, <1>2 DEF Named

\* The files being read, and the search paths, are paths.
LEMMA AboveFacts ==
    ASSUME TypeOK, NEW i \in 1..Depth
    PROVE  Above(i) \in SUBSET Spots /\ calls[i].search \in Spots /\ calls[i].file \in Spots
<1>1. \A j \in 1..i : calls[j] \in Calls
  BY CurrentFacts
<1> QED BY <1>1, CurrentFacts DEF Above, Calls, Spots

\* None of them is a file that cannot be read.
LEMMA AboveReadable ==
    ASSUME TypeOK, calls[1].file = command.source, \A i \in 2..Depth : Named(i)
    PROVE  Above(Depth) \cap Denied = {}
<1> SUFFICES ASSUME NEW j \in 1..Depth PROVE calls[j].file \notin Denied
  BY DEF Above
<1>1. CASE j = 1
  BY <1>1, CurrentFacts, DiskAssumption
<1>2. CASE j # 1
  <2>1. j \in 2..Depth
    BY <1>2, CurrentFacts
  <2> QED BY <2>1 DEF Named
<1> QED BY <1>1, <1>2

\* The calls after Advance
AdvancedFacts ==
    /\ Depth' = Depth
    /\ \A i \in 1..Depth : /\ calls'[i].file = calls[i].file /\ calls'[i].search = calls[i].search
                           /\ calls'[i].buffer = calls[i].buffer /\ calls'[i].meta = calls[i].meta
                           /\ i # Depth => calls'[i] = calls[i]
    /\ calls'[Depth].pos = calls[Depth].pos + 1

\* What Advance changes: one scan position.
LEMMA Advanced == ASSUME TypeOK, calls' = Advance(calls) PROVE AdvancedFacts
<1>1. /\ Depth \in Nat \ {0} /\ calls \in Seq(Calls) /\ Depth = Len(calls)
      /\ \A i \in 1..Depth : calls[i] \in Calls
  BY CurrentFacts
<1> DEFINE moved == [calls[Depth] EXCEPT !.pos = @ + 1]
<1>2. /\ moved.file = calls[Depth].file /\ moved.search = calls[Depth].search
      /\ moved.buffer = calls[Depth].buffer /\ moved.meta = calls[Depth].meta
      /\ moved.pos = calls[Depth].pos + 1
  <2>1. calls[Depth] \in Calls
    BY <1>1
  <2> QED
    BY <2>1 DEF Calls
<1>3. /\ calls' = [calls EXCEPT ![Depth] = moved]
      /\ Depth' = Depth
      /\ \A i \in 1..Depth : calls'[i] = IF i = Depth THEN moved ELSE calls[i]
  BY <1>1, <1>2 DEF Advance, Depth
<1> HIDE DEF moved
<1>4. Depth \in 1..Depth
  BY <1>1
<1> QED BY <1>2, <1>3, <1>4 DEF AdvancedFacts

\* The scan passes over an item that stays.
LEMMA AdvanceFollows ==
    ASSUME TypeOK, Finite, Following, Scanning, calls' = Advance(calls),
           disk' = disk, command' = command, NEW f,
           f = Names(item, Current.search), f \in {NULL} \cup Above(Depth) \cup Denied,
           failed' = failed \cup (({f} \cap Denied) \ Above(Depth))
    PROVE  Following'
<1> DEFINE b == calls[Depth].buffer
           m == calls[Depth].meta
           p == calls[Depth].pos
           s == calls[Depth].search
           A == Above(Depth)
           rest == Expand[<<SubSeq(b, p + 1, Len(b)), s, A>>]
<1>1. Depth \in Nat \ {0} /\ Depth \in 1..Depth /\ calls[Depth] \in Calls
  BY CurrentFacts
<1>2. b \in Seq(Item) /\ m \in Nat /\ p \in Nat /\ s \in Spots /\ A \in SUBSET Spots
  BY <1>1, AboveFacts DEF Calls
<1>3. m < p /\ p <= Len(b) /\ f = Names(b[p], s)
  BY <1>1 DEF TypeOK, Scanning, Current, item
<1>4. Fulfils(Depth)
  BY <1>1 DEF Following
<1>5. Gives(b, m, p, s, A, Owed(Depth).text)
  BY <1>3, <1>4 DEF Gives, Fulfils, Left, Passed, Ahead
<1>6. /\ SubSeq(b, m + 1, p) \o rest.text = Owed(Depth).text
      /\ Left(Depth).denied = rest.denied \cup (({f} \cap Denied) \ A)
  <2> DEFINE t == Owed(Depth).text
  <2>1. Left(Depth) = Expand[<<SubSeq(b, p, Len(b)), s, A>>]
    BY DEF Left, Ahead
  <2>2. Names(b[p], s) \in {NULL} \cup A \cup Denied /\ Gives(b, m, p, s, A, t)
    BY <1>3, <1>5
  <2> HIDE DEF b, m, p, s, A, t
  <2>3. StepFacts(b, m, p, s, A, t)
    BY <1>2, <2>2, StepOver
  <2> QED BY <1>3, <2>1, <2>3 DEF StepFacts, t
<1>7. AdvancedFacts
  BY Advanced
<1>8. Expand' = Expand /\ Expected' = Expected /\ \A q : Contents(q)' = Contents(q)
  BY SameWorld
<1>9. Above(Depth)' = A /\ Depth' = Depth
  BY <1>7 DEF Above, AdvancedFacts
<1>10. Left(Depth)' = rest /\ Owed(Depth)' = Owed(Depth)
  <2>1. /\ calls'[Depth].buffer = b /\ calls'[Depth].pos = p + 1 /\ calls'[Depth].search = s
        /\ calls'[Depth].file = calls[Depth].file
    BY <1>1, <1>7 DEF AdvancedFacts
  <2>2. Ahead(calls'[Depth]) = SubSeq(b, p + 1, Len(b))
    BY <2>1 DEF Ahead
  <2>3. Left(Depth)' = Expand[<<Ahead(calls'[Depth]), calls'[Depth].search, A>>]
    BY <1>8, <1>9 DEF Left
  <2>4. Owed(Depth)' = Owed(Depth)
    BY <1>8, <1>9, <2>1 DEF Owed
  <2> HIDE DEF b, p, s, A
  <2> QED BY <2>1, <2>2, <2>3, <2>4
<1>11. Passed(calls'[Depth]) = SubSeq(b, m + 1, p)
  <2>1. calls'[Depth].buffer = b /\ calls'[Depth].pos = p + 1 /\ calls'[Depth].meta = m
    BY <1>1, <1>7 DEF AdvancedFacts
  <2>2. (p + 1) - 1 = p
    BY <1>2
  <2> HIDE DEF b, p, m
  <2> QED BY <2>1, <2>2 DEF Passed
<1>12. rest.denied \subseteq Expected.denied /\ failed' \subseteq Expected.denied
  BY <1>4, <1>6 DEF Fulfils, Following
<1>13. Fulfils(Depth)'
  <2>1. Owed(Depth).denied \subseteq failed' \cup rest.denied
    BY <1>4, <1>6 DEF Fulfils
  <2> QED
    BY <1>6, <1>8, <1>9, <1>10, <1>11, <1>12, <2>1 DEF Fulfils
<1>14. \A i \in 1..Depth : Fulfils(i)'
  <2> SUFFICES ASSUME NEW i \in 1..Depth PROVE Fulfils(i)'
    OBVIOUS
  <2>1. CASE i = Depth
    BY <1>9, <1>13, <2>1
  <2>2. CASE i # Depth
    <3>1. /\ Fulfils(i) /\ calls'[i] = calls[i] /\ i \in Nat \ {0} /\ failed \subseteq failed'
          /\ \A j \in 1..i : calls'[j].file = calls[j].file
      BY <1>1, <1>7, <2>2 DEF Following, AdvancedFacts
    <3> QED BY <3>1, FulfilsStays
  <2> QED BY <2>1, <2>2
<1>15. \A i \in 2..Depth : Named(i)'
  <2> SUFFICES ASSUME NEW i \in 2..Depth PROVE Named(i)'
    OBVIOUS
  <2>1. /\ Named(i) /\ calls'[i - 1] = calls[i - 1] /\ i \in Nat /\ i > 1
        /\ calls'[i].search = calls[i].search
        /\ \A j \in 1..i : calls'[j].file = calls[j].file
    BY <1>1, <1>7 DEF Following, AdvancedFacts
  <2> QED BY <2>1, NamedStays
<1> QED BY <1>8, <1>9, <1>12, <1>14, <1>15 DEF Following
-----------------------------------------------------------------------------
\* transcludebase gives a document its search path.
LEMMA RebasedSearch ==
    ASSUME NEW call \in Calls, NEW d \in Document
    PROVE  Rebased(call, d.base).search = SearchOf(d, call.file, call.search)
<1>1. d.base.kind \in {"none", "absolute", "relative"}
  <2>1. d.base \in Base
    BY DEF Document
  <2> QED BY <2>1 DEF Base
<1>2. CASE d.base.kind = "none"
  BY <1>2 DEF Rebased, SearchOf
<1>3. CASE d.base.kind = "absolute"
  BY <1>3 DEF Rebased, SearchOf, Calls
<1>4. CASE d.base.kind = "relative"
  BY <1>4 DEF Rebased, SearchOf, Calls
<1> QED BY <1>1, <1>2, <1>3, <1>4

\* The calls after Open
OpenedFacts(f) ==
    /\ Depth' = Depth + 1
    /\ \A i \in 1..Depth : calls'[i] = calls[i]
    /\ calls'[Depth + 1].file = f
    /\ calls'[Depth + 1].buffer = Contents(f).items
    /\ calls'[Depth + 1].meta = Contents(f).meta
    /\ calls'[Depth + 1].pos = Contents(f).meta + 1
    /\ calls'[Depth + 1].search = SearchOf(Contents(f), f, calls[Depth].search)

\* What Open adds: a call that starts behind the metadata of its file.
LEMMA Opened == ASSUME TypeOK, Open PROVE OpenedFacts(file_path)
<1>1. /\ Depth \in Nat \ {0} /\ calls \in Seq(Calls) /\ Depth = Len(calls)
      /\ Current \in Calls /\ disk \in Disks /\ command \in Commands
  BY CurrentFacts
<1> DEFINE document == Contents(file_path)
<1>2. PICK c \in buffer_file(document.items) :
        calls' = Append(calls, Rebased(Call(file_path, document, Current.search, c), document.base))
  BY DEF Open
<1>3. file_path \in Paths
  <2>1. file_path \in Paths \cup {NULL}
    BY <1>1, DocumentFacts DEF file_path, PathOf
  <2> QED
    BY <2>1 DEF Open
<1>4. document \in Document
  BY <1>1, <1>3, DocumentFacts
<1>5. document.items \in Seq(Item) /\ document.base \in Base /\ document.meta \in Nat
  BY <1>4 DEF Document
<1>6. c \in Nat
  BY <1>2, <1>5, CapacityFacts
<1>7. Current.search \in Paths \cup {NULL}
  BY <1>1 DEF Calls
<1> DEFINE call == Call(file_path, document, Current.search, c)
           r == Rebased(call, document.base)
<1>8. /\ call \in Calls /\ call.file = file_path
      /\ call.meta = document.meta /\ call.pos = document.meta + 1
      /\ call.buffer = document.items /\ call.search = Current.search
  <2>1. ASSUME NEW p \in Paths \cup {NULL}, NEW d \in Document, NEW s \in Paths \cup {NULL}
        PROVE  Call(p, d, s, c) \in Calls
    BY <1>6, CallFacts
  <2>2. call \in Calls
    <3> HIDE DEF document
    <3> QED
      BY <1>3, <1>4, <1>7, <2>1
  <2> QED BY <2>2 DEF Call
<1> HIDE DEF call, document
<1>9. /\ r.file = file_path /\ r.meta = document.meta /\ r.pos = document.meta + 1
      /\ r.buffer = document.items
  BY <1>1, <1>3, <1>4, <1>5, <1>8, RebasedFacts
<1>10. r.search = SearchOf(document, file_path, Current.search)
  BY <1>4, <1>8, RebasedSearch
<1> HIDE DEF r
<1>11. /\ calls' = Append(calls, r) /\ Depth' = Depth + 1
       /\ \A i \in 1..Depth : calls'[i] = calls[i]
       /\ calls'[Depth + 1] = r
  BY <1>1, <1>2 DEF Depth, r, call
<1> QED BY <1>9, <1>10, <1>11 DEF OpenedFacts, document, Current

\* A file that is read owes its expansion, all of which is ahead.
LEMMA OpenFollows ==
    ASSUME IInv, Finite, Following, Open, file_path \notin Above(Depth)
    PROVE  Following'
<1>a. PICK f : f = file_path
  OBVIOUS
<1>b. PICK n : n = Depth + 1
  OBVIOUS
<1> DEFINE b == calls[Depth].buffer
           m == calls[Depth].meta
           p == calls[Depth].pos
           s == calls[Depth].search
           A == Above(Depth)
           d == Contents(f)
           into == Expand[Inside(f, s, A)]
<1>0. TypeOK
  BY DEF IInv
<1>1. /\ Depth \in Nat \ {0} /\ Depth \in 1..Depth /\ calls[Depth] \in Calls
      /\ disk \in Disks /\ command \in Commands
  BY <1>0, CurrentFacts
<1>2. b \in Seq(Item) /\ m \in Nat /\ p \in Nat /\ s \in Spots /\ A \in SUBSET Spots
  BY <1>0, <1>1, AboveFacts DEF Calls
<1>3. p \in 1..Len(b) /\ f = Names(b[p], s) /\ f = PathOf(b[p], s) /\ f \notin {NULL} \cup A \cup Denied
  <2>1. m < p /\ p <= Len(b) /\ f = PathOf(b[p], s) /\ f = Names(b[p], s)
    BY <1>0, <1>1, <1>a DEF TypeOK, Open, Usable, Scanning, Current, item, file_path, Names, IsToken
  <2>2. Len(b) \in Nat
    BY <1>2
  <2>3. f \notin {NULL} \cup A \cup Denied
    BY <1>a DEF Open
  <2> HIDE DEF b, m, p, s
  <2>4. p \in 1..Len(b)
    BY <1>2, <2>1, <2>2
  <2> QED BY <2>1, <2>3, <2>4
<1>4. Fulfils(Depth)
  BY <1>1 DEF Following
<1>5. into.denied \subseteq Expected.denied
  <2>1. IsFiniteSet(Paths)
    BY DEF Finite
  <2>2. Left(Depth) = Expand[<<SubSeq(b, p, Len(b)), s, A>>]
    BY DEF Left, Ahead
  <2>3. Left(Depth).denied \subseteq Expected.denied
    BY <1>4 DEF Fulfils
  <2> HIDE DEF b, p, s, A
  <2>4. ItemFacts(b, p, s, A)
    BY <1>1, <1>2, <1>3, <2>1, ExpandItem
  <2>5. Expand[<<SubSeq(b, p, Len(b)), s, A>>].denied
        = into.denied \cup Expand[<<SubSeq(b, p + 1, Len(b)), s, A>>].denied
    BY <1>3, <2>4 DEF ItemFacts
  <2> QED BY <2>2, <2>3, <2>5
<1>6. OpenedFacts(f)
  BY <1>0, <1>a, Opened
<1>7. disk' = disk /\ command' = command /\ failed' = failed
  BY DEF Open
<1>8. /\ Expand' = Expand /\ Expected' = Expected /\ \A q : Contents(q)' = Contents(q)
      /\ \A it, t : PathOf(it, t)' = PathOf(it, t)
      /\ \A e, q, t : SearchOf(e, q, t)' = SearchOf(e, q, t)
  BY <1>7, SameWorld
<1>9. d \in Document /\ f \in Paths
  <2>1. f \in Paths
    BY <1>1, <1>3, NamesFacts
  <2> QED BY <1>1, <2>1, DocumentFacts
<1>10. /\ n \in Nat /\ n > 1 /\ Depth' = n /\ n - 1 = Depth
       /\ \A i \in 1..n : i \in 1..Depth \/ i = n
       /\ \A i \in 2..n : i \in 2..Depth \/ i = n
  BY <1>1, <1>6, <1>b DEF OpenedFacts
<1>11. /\ calls'[n].file = f /\ calls'[n].buffer = d.items /\ calls'[n].meta = d.meta
       /\ calls'[n].pos = d.meta + 1 /\ calls'[n].search = SearchOf(d, f, s)
       /\ \A i \in 1..Depth : calls'[i] = calls[i]
  BY <1>6, <1>b DEF OpenedFacts
<1>12. {calls'[j].file : j \in 1..n} = A \cup {f} /\ {calls'[j].file : j \in 1..Depth} = A
  BY <1>10, <1>11 DEF Above
<1>13. <<BodyOf(d), SearchOf(d, f, s), A \cup {f}>> = Inside(f, s, A)
  BY DEF Inside
<1> HIDE DEF d, b, p, m, s, A
<1>14. Ahead(calls'[n]) = BodyOf(d)
  BY <1>11 DEF Ahead, BodyOf
<1>15. Left(n)' = into
  <2>1. Above(n)' = A \cup {f}
    BY <1>12 DEF Above
  <2>2. Left(n)' = Expand[<<Ahead(calls'[n]), calls'[n].search, A \cup {f}>>]
    BY <1>8, <2>1 DEF Left
  <2>3. calls'[n].search = SearchOf(d, f, s)
    BY <1>11
  <2>4. Left(n)' = Expand[Inside(f, s, A)]
    BY <1>13, <1>14, <2>2, <2>3, Zenon
  <2> QED BY <2>4
<1>16. Owed(n)' = into
  <2>1. Above(n)' = A \cup {f} /\ n # 1 /\ calls'[n].file = f
    BY <1>10, <1>11, <1>12 DEF Above
  <2>2. Owed(n)' = Expand[<<BodyOf(Contents(f)), calls'[n].search, A \cup {f}>>]
    BY <1>8, <2>1 DEF Owed, BodyOf
  <2>3. calls'[n].search = SearchOf(d, f, s)
    BY <1>11
  <2>4. Owed(n)' = Expand[Inside(f, s, A)]
    BY <1>13, <2>2, <2>3, Zenon DEF d
  <2> QED BY <2>4
<1>17. Passed(calls'[n]) \o into.text = into.text
  <2>1. d.meta \in Nat /\ d.items \in Seq(Item)
    BY <1>9 DEF Document
  <2>2. Passed(calls'[n]) = <<>>
    <3>1. (d.meta + 1) - 1 = d.meta /\ d.meta < d.meta + 1 /\ d.meta \in Int /\ d.meta + 1 \in Int
      BY <2>1
    <3>2. Passed(calls'[n]) = SubSeq(d.items, d.meta + 1, d.meta)
      BY <1>11, <3>1 DEF Passed
    <3> QED BY <2>1, <3>1, <3>2, SubSeqEmpty
  <2>3. into.text \in Seq(Item)
    <3>1. BodyOf(d) \in Seq(Item) /\ SearchOf(d, f, s) \in Paths \cup {NULL}
      BY <1>1, <1>2, <1>9, BodyFacts DEF d, Spots
    <3>2. Inside(f, s, A) \in Expansions
      BY <1>2, <1>9, <1>13, <3>1 DEF Expansions, Spots
    <3> QED BY <1>1, <3>2, ExpandTyped DEF Finite
  <2> HIDE DEF into
  <2> QED BY <2>2, <2>3, ConcatEmptySeq
<1> HIDE DEF into
<1>18. \A i \in 1..n : Fulfils(i)'
  <2> SUFFICES ASSUME NEW i \in 1..n PROVE Fulfils(i)'
    OBVIOUS
  <2>1. CASE i = n
    <3>1. Fulfils(n)'
      BY <1>5, <1>8, <1>15, <1>16, <1>17 DEF Fulfils
    <3> QED BY <2>1, <3>1
  <2>2. CASE i # n
    <3>1. /\ Fulfils(i) /\ calls'[i] = calls[i] /\ i \in Nat \ {0} /\ failed \subseteq failed'
          /\ \A j \in 1..i : calls'[j].file = calls[j].file
      BY <1>1, <1>7, <1>10, <1>11, <2>2 DEF Following
    <3> QED BY <1>7, <3>1, FulfilsStays
  <2> QED BY <2>1, <2>2
<1>19. \A i \in 2..n : Named(i)'
  <2> SUFFICES ASSUME NEW i \in 2..n PROVE Named(i)'
    OBVIOUS
  <2>1. CASE i = n
    <3>1. /\ calls'[n - 1].buffer = b /\ calls'[n - 1].pos = p /\ calls'[n - 1].search = s
      BY <1>1, <1>10, <1>11 DEF b, p, s
    <3>2. Above(n - 1)' = A
      BY <1>10, <1>12 DEF Above
    <3> QED BY <1>3, <1>8, <1>11, <2>1, <3>1, <3>2 DEF Named, d
  <2>2. CASE i # n
    <3>1. /\ Named(i) /\ calls'[i - 1] = calls[i - 1] /\ i \in Nat /\ i > 1
          /\ calls'[i].search = calls[i].search
          /\ \A j \in 1..i : calls'[j].file = calls[j].file
      BY <1>1, <1>10, <1>11, <2>2 DEF Following
    <3> QED BY <1>7, <3>1, NamedStays
  <2> QED BY <2>1, <2>2
<1> QED BY <1>7, <1>8, <1>10, <1>18, <1>19 DEF Following
-----------------------------------------------------------------------------
\* A sequence cut short, with a new last element
LEMMA AppendToFront ==
    ASSUME NEW S, NEW s \in Seq(S), NEW k \in Nat, NEW x, k <= Len(s)
    PROVE  /\ Len(Append(SubSeq(s, 1, k), x)) = k + 1
           /\ Append(SubSeq(s, 1, k), x)[k + 1] = x
           /\ \A i \in 1..k : Append(SubSeq(s, 1, k), x)[i] = s[i]
<1> DEFINE r == SubSeq(s, 1, k)
<1>1. /\ r \in Seq(S) /\ Len(r) = k /\ \A i \in 1..k : r[i] = s[i]
  OBVIOUS
<1> HIDE DEF r
<1>2. /\ Len(Append(r, x)) = k + 1
      /\ Append(r, x)[k + 1] = x
      /\ \A i \in 1..k : Append(r, x)[i] = s[i]
  BY <1>1
<1> QED BY <1>2 DEF r

\* What the caller of a call that returns has become
ReturnedFacts(n) ==
    LET text == WithoutMetadata(Current)
    IN  /\ n \in Nat \ {0} /\ Depth = n + 1 /\ Depth' = n
        /\ \A i \in 1..n : i # n => calls'[i] = calls[i]
        /\ \A i \in 1..n : /\ calls'[i].file = calls[i].file /\ calls'[i].search = calls[i].search
                           /\ calls'[i].meta = calls[i].meta
        /\ calls'[n].buffer = Spliced(calls[n].buffer, calls[n].pos, text)
        /\ accidents' = {} => /\ calls'[n].pos = calls[n].pos + Len(text)
                              /\ status' = "scan" /\ accidents = {}

\* What Return leaves of the caller.
LEMMA Returned == ASSUME TypeOK, Return PROVE \E n : ReturnedFacts(n)
<1>1. /\ Depth \in Nat \ {0} /\ calls \in Seq(Calls) /\ Depth = Len(calls)
      /\ \A i \in 1..Depth : calls[i] \in Calls
  BY CurrentFacts
<1>2. Depth > 1
  BY DEF Return
<1>3. PICK n : n = Depth - 1
  OBVIOUS
<1> DEFINE text == WithoutMetadata(Current)
           buffer == Spliced(calls[n].buffer, calls[n].pos, text)
           Resumed(c, p) == [calls[n] EXCEPT !.buffer = buffer, !.capacity = c, !.pos = p]
<1>4. /\ n \in Nat \ {0} /\ Depth = n + 1 /\ n \in 1..Depth /\ Depth - 2 \in Nat
      /\ Depth - 2 <= Len(calls) /\ Depth - 2 + 1 = n
      /\ \A i \in 1..n : i \in 1..Depth /\ (i # n => i \in 1..(Depth - 2))
  BY <1>1, <1>2, <1>3
<1>5. PICK c, p :
        /\ calls' = Append(SubSeq(calls, 1, Depth - 2), Resumed(c, p))
        /\ accidents' = {} => p = calls[n].pos + Len(text) /\ status' = "scan" /\ accidents = {}
  <2>1. calls[Depth - 1] = calls[n] /\ status = "scan"
    BY <1>3 DEF Return
  <2> QED BY <1>3, <2>1 DEF Return, Spliced
<1> DEFINE r == Resumed(c, p)
<1>6. /\ r.file = calls[n].file /\ r.search = calls[n].search /\ r.meta = calls[n].meta
      /\ r.buffer = buffer /\ r.pos = p
  <2>1. calls[n] \in Calls
    BY <1>1, <1>4
  <2> HIDE DEF buffer
  <2> QED BY <2>1 DEF Calls
<1>7. calls' = Append(SubSeq(calls, 1, Depth - 2), r)
  BY <1>5
<1> HIDE DEF r, buffer
<1>8. Len(calls') = n /\ calls'[n] = r /\ \A i \in 1..(Depth - 2) : calls'[i] = calls[i]
  <2>1. /\ Len(calls') = Depth - 2 + 1 /\ calls'[Depth - 2 + 1] = r
        /\ \A i \in 1..(Depth - 2) : calls'[i] = calls[i]
    BY <1>1, <1>4, <1>7, AppendToFront
  <2> QED BY <1>4, <2>1
<1>9. \A i \in 1..n : i # n => calls'[i] = calls[i]
  BY <1>4, <1>8
<1>10. \A i \in 1..n : /\ calls'[i].file = calls[i].file /\ calls'[i].search = calls[i].search
                       /\ calls'[i].meta = calls[i].meta
  BY <1>6, <1>8, <1>9
<1>11. /\ calls'[n].buffer = Spliced(calls[n].buffer, calls[n].pos, text)
       /\ accidents' = {} => /\ calls'[n].pos = calls[n].pos + Len(text)
                             /\ status' = "scan" /\ accidents = {}
  BY <1>5, <1>6, <1>8 DEF buffer
<1>12. Depth' = n
  BY <1>8 DEF Depth
<1> HIDE DEF text
<1>13. ReturnedFacts(n)
  BY <1>4, <1>9, <1>10, <1>11, <1>12 DEF ReturnedFacts, text
<1> QED BY <1>13

\* An activation whose scan is over has given what it owes.
LEMMA FulfilledAtEnd ==
    ASSUME TypeOK, Finite, Fulfils(Depth), Current.pos > Len(Current.buffer)
    PROVE  /\ WithoutMetadata(Current) = Owed(Depth).text
           /\ Owed(Depth).denied \subseteq failed
           /\ WithoutMetadata(Current) \in Seq(Item)
<1> DEFINE b == Current.buffer
           m == Current.meta
           p == Current.pos
<1>1. /\ b \in Seq(Item) /\ m \in Nat /\ p \in Nat /\ m < p /\ p <= Len(b) + 1 /\ Len(b) \in Nat
      /\ Current = calls[Depth] /\ Depth \in 1..Depth
  <2>1. Current \in Calls /\ Current = calls[Depth] /\ Depth \in 1..Depth
    BY CurrentFacts DEF Current
  <2>2. m < p /\ p <= Len(b) + 1
    BY <2>1 DEF TypeOK
  <2>3. b \in Seq(Item) /\ m \in Nat /\ p \in Nat
    BY <2>1 DEF Calls
  <2> QED BY <2>1, <2>2, <2>3
<1>2. p > Len(b)
  OBVIOUS
<1> HIDE DEF b, m, p
<1>3. p - 1 = Len(b) /\ m <= Len(b)
  BY <1>1, <1>2
<1>4. SubSeq(b, m + 1, Len(b)) \in Seq(Item)
  BY <1>1, <1>3, Slice
<1>5. SubSeq(b, p, Len(b)) = <<>>
  BY <1>1, <1>2, SubSeqEmpty
<1>6. Passed(Current) = WithoutMetadata(Current) /\ WithoutMetadata(Current) = SubSeq(b, m + 1, Len(b))
  BY <1>3 DEF Passed, WithoutMetadata, b, m, p
<1>7. Left(Depth).text = <<>> /\ Left(Depth).denied = {}
  <2>1. calls[Depth].search \in Spots /\ Above(Depth) \in SUBSET Spots
    BY <1>1, AboveFacts
  <2>2. Left(Depth) = Expand[<<<<>>, calls[Depth].search, Above(Depth)>>]
    BY <1>1, <1>5 DEF Left, Ahead, b, p
  <2> QED BY <2>1, <2>2, ExpandEmpty DEF Finite
<1>8. WithoutMetadata(Current) \o <<>> = WithoutMetadata(Current)
  BY <1>4, <1>6, ConcatEmptySeq
<1> QED BY <1>1, <1>4, <1>6, <1>7, <1>8 DEF Fulfils
-----------------------------------------------------------------------------
\* The caller has the text of the file in the place of its token, and goes on behind it.
LEMMA ReturnFollows ==
    ASSUME IInv, Finite, Following, NEW n, ReturnedFacts(n), Current.pos > Len(Current.buffer),
           disk' = disk, command' = command, failed' = failed, accidents' = {}
    PROVE  Following'
<1> DEFINE b == calls[n].buffer
           m == calls[n].meta
           p == calls[n].pos
           s == calls[n].search
           A == Above(n)
           f == calls[n + 1].file
           t == Owed(n).text
           text == WithoutMetadata(Current)
           new == Spliced(b, p, text)
           into == Expand[Inside(f, s, A)]
           rest == Expand[<<SubSeq(b, p + 1, Len(b)), s, A>>]
           behind == SubSeq(new, p + Len(text), Len(new))
<1>0. TypeOK
  BY DEF IInv
<1>1. /\ n \in Nat \ {0} /\ Depth = n + 1 /\ Depth' = n /\ n \in 1..Depth /\ n \in 1..(Depth - 1)
      /\ n + 1 \in 2..Depth /\ (n + 1) - 1 = n /\ calls[n] \in Calls /\ n \in 1..n /\ n + 1 # 1
      /\ \A i \in 1..n : i \in 1..Depth
      /\ \A i \in 2..n : i \in 2..Depth
      /\ Depth \in 1..Depth
  <2>1. n \in Nat \ {0} /\ Depth = n + 1 /\ Depth' = n
    BY DEF ReturnedFacts
  <2>2. /\ n \in 1..Depth /\ n \in 1..(Depth - 1) /\ n + 1 \in 2..Depth /\ (n + 1) - 1 = n
        /\ n \in 1..n /\ n + 1 # 1 /\ Depth \in 1..Depth
        /\ \A i \in 1..n : i \in 1..Depth
        /\ \A i \in 2..n : i \in 2..Depth
    BY <2>1
  <2> QED BY <1>0, <2>1, <2>2, CurrentFacts
<1>2. b \in Seq(Item) /\ m \in Nat /\ p \in Nat /\ s \in Spots /\ A \in SUBSET Spots
  BY <1>0, <1>1, AboveFacts DEF Calls
<1>3. Fulfils(Depth) /\ Fulfils(n) /\ Named(n + 1)
  BY <1>1 DEF Following
<1>4. /\ m < p /\ p <= Len(b) /\ f = Names(b[p], s) /\ f \notin {NULL} \cup A \cup Denied
      /\ calls[n + 1].search = SearchOf(Contents(f), f, s)
  <2>1. m < p
    BY <1>0, <1>1 DEF TypeOK
  <2>2. p <= Len(b) /\ b[p].kind \in {"absolute", "relative"}
    BY <1>1 DEF IInv, CallersWaitAtTokens
  <2>3. /\ f = PathOf(b[p], s) /\ f \notin {NULL} \cup A \cup Denied
        /\ calls[n + 1].search = SearchOf(Contents(f), f, s)
    BY <1>1, <1>3 DEF Named
  <2> QED BY <2>1, <2>2, <2>3 DEF Names
<1>5. Gives(b, m, p, s, A, t)
  BY <1>3, <1>4 DEF Gives, Fulfils, Left, Passed, Ahead
<1>6. text = Owed(Depth).text /\ Owed(Depth).denied \subseteq failed /\ text \in Seq(Item)
  BY <1>0, <1>3, FulfilledAtEnd
<1>7. Owed(Depth) = into
  <2>1. Above(n + 1) = A \cup {f}
    BY <1>1 DEF Above
  <2>2. Owed(n + 1) = Expand[<<BodyOf(Contents(f)), calls[n + 1].search, A \cup {f}>>]
    BY <1>1, <2>1 DEF Owed
  <2>3. Owed(n + 1) = Expand[<<BodyOf(Contents(f)), SearchOf(Contents(f), f, s), A \cup {f}>>]
    BY <1>4, <2>2
  <2> QED BY <1>1, <2>3 DEF Inside
<1>8. /\ calls'[n].file = calls[n].file /\ calls'[n].search = s /\ calls'[n].meta = m
      /\ calls'[n].buffer = new /\ calls'[n].pos = p + Len(text)
      /\ \A i \in 1..n : i # n => calls'[i] = calls[i]
      /\ \A i \in 1..n : calls'[i].file = calls[i].file /\ calls'[i].search = calls[i].search
  BY <1>1 DEF ReturnedFacts
<1>9. Left(n) = Expand[<<SubSeq(b, p, Len(b)), s, A>>]
  BY DEF Left, Ahead
<1>10. Len(text) \in Nat
  BY <1>6, LenProperties
<1> HIDE DEF b, m, p, s, A, f, t, text
<1>11. ReplaceFacts(b, m, p, s, A, t, text)
  BY <1>2, <1>4, <1>5, <1>6, <1>7, Replace
<1>12. /\ SubSeq(new, m + 1, p - 1 + Len(text)) \o Expand[<<behind, s, A>>].text = t
       /\ behind = SubSeq(b, p + 1, Len(b))
       /\ Left(n).denied = into.denied \cup rest.denied
  BY <1>4, <1>9, <1>11 DEF ReplaceFacts
<1>13. SubSeq(new, m + 1, p - 1 + Len(text)) \o rest.text = t
  BY <1>12
<1>14. Expand' = Expand /\ Expected' = Expected /\ \A q : Contents(q)' = Contents(q)
  BY SameWorld
<1>15. Above(n)' = A
  BY <1>8 DEF Above, A
<1> HIDE DEF new
<1>16. Ahead(calls'[n]) = behind
  BY <1>8 DEF Ahead
<1>17. Left(n)' = rest
  <2>1. Left(n)' = Expand[<<Ahead(calls'[n]), calls'[n].search, A>>]
    BY <1>14, <1>15 DEF Left
  <2>2. Ahead(calls'[n]) = SubSeq(b, p + 1, Len(b)) /\ calls'[n].search = s
    BY <1>8, <1>12, <1>16
  <2>3. Left(n)' = Expand[<<SubSeq(b, p + 1, Len(b)), s, A>>]
    BY <2>1, <2>2, Zenon
  <2> QED BY <2>3
<1>18. Owed(n)' = Owed(n)
  BY <1>8, <1>14, <1>15 DEF Owed, A, s
<1>19. Passed(calls'[n]) = SubSeq(new, m + 1, p - 1 + Len(text))
  <2>1. (p + Len(text)) - 1 = p - 1 + Len(text)
    BY <1>2, <1>10
  <2> QED BY <1>8, <2>1 DEF Passed
<1>20. Fulfils(n)'
  <2>1. Owed(n).denied \subseteq failed \cup Left(n).denied /\ Left(n).denied \subseteq Expected.denied
    BY <1>3 DEF Fulfils
  <2>2. Owed(n).denied \subseteq failed' \cup rest.denied /\ rest.denied \subseteq Expected.denied
    BY <1>6, <1>7, <1>12, <2>1
  <2>3. Passed(calls'[n]) \o rest.text = Owed(n).text
    BY <1>13, <1>19 DEF t
  <2> HIDE DEF rest
  <2> QED BY <1>14, <1>17, <1>18, <2>2, <2>3 DEF Fulfils
<1> HIDE DEF into, rest, behind
<1>21. \A i \in 1..n : Fulfils(i)'
  <2> SUFFICES ASSUME NEW i \in 1..n PROVE Fulfils(i)'
    OBVIOUS
  <2>1. CASE i = n
    BY <1>20, <2>1
  <2>2. CASE i # n
    <3>1. /\ Fulfils(i) /\ calls'[i] = calls[i] /\ i \in Nat \ {0} /\ failed \subseteq failed'
          /\ \A j \in 1..i : calls'[j].file = calls[j].file
      BY <1>1, <1>8, <2>2 DEF Following
    <3> QED BY <3>1, FulfilsStays
  <2> QED BY <2>1, <2>2
<1>22. \A i \in 2..n : Named(i)'
  <2> SUFFICES ASSUME NEW i \in 2..n PROVE Named(i)'
    OBVIOUS
  <2>1. /\ Named(i) /\ calls'[i - 1] = calls[i - 1] /\ i \in Nat /\ i > 1
        /\ calls'[i].search = calls[i].search
        /\ \A j \in 1..i : calls'[j].file = calls[j].file
    BY <1>1, <1>8 DEF Following
  <2> QED BY <2>1, NamedStays
<1> QED BY <1>1, <1>14, <1>21, <1>22 DEF Following
-----------------------------------------------------------------------------
\* The invariant holds before the header is added.
LEMMA InitExpansion == Init => ExpansionInv
<1> SUFFICES ASSUME Init PROVE ExpansionInv
  OBVIOUS
<1>1. PICK c \in buffer_file(SourceDocument.items) :
        calls = <<Call(command.source, SourceDocument, NULL, c)>>
  BY DEF Init
<1>2. /\ Depth = 1 /\ calls[1].buffer = SourceDocument.items /\ calls[1].meta = SourceDocument.meta
      /\ calls[1].file = command.source
  BY <1>1 DEF Depth, Call
<1>3. status = "header" /\ failed = {}
  BY DEF Init
<1> QED BY <1>2, <1>3 DEF ExpansionInv, KeepsMetadata, ExpandsLikeReference, UnreadableFilesReported

\* What mmd_add_mmd_header_footer leaves: the metadata, and the framed text behind it.
LEMMA FramedText ==
    ASSUME NEW d \in Document, NEW items,
           items = SubSeq(d.items, 1, d.meta) \o d.header
                   \o SubSeq(d.items, d.meta + 1, Len(d.items)) \o d.footer
    PROVE  /\ SubSeq(items, d.meta + 1, Len(items)) = d.header \o BodyOf(d) \o d.footer
           /\ SubSeq(items, 1, d.meta) = SubSeq(d.items, 1, d.meta)
<1> DEFINE p == SubSeq(d.items, 1, d.meta)
           q == d.header
           r == SubSeq(d.items, d.meta + 1, Len(d.items))
           t == d.footer
<1>1. /\ d.items \in Seq(Item) /\ q \in Seq(Item) /\ t \in Seq(Item)
      /\ d.meta \in Nat /\ d.meta <= Len(d.items)
  BY DEF Document
<1>2. p \in Seq(Item) /\ Len(p) = d.meta
  BY <1>1, Prefix
<1>3. r \in Seq(Item)
  <2>1. Len(d.items) \in Nat /\ Len(d.items) <= Len(d.items)
    BY <1>1, LenProperties
  <2> QED BY <1>1, <2>1, Slice
<1>4. r = BodyOf(d) /\ items = ((p \o q) \o r) \o t
  BY DEF BodyOf
<1> HIDE DEF p, q, r, t
<1> DEFINE y == (q \o r) \o t
<1>5. q \o r \in Seq(Item) /\ y \in Seq(Item) /\ p \o q \in Seq(Item)
  BY <1>1, <1>2, <1>3, ConcatProperties
<1>6. items = p \o y
  <2>1. (p \o q) \o r = p \o (q \o r)
    BY <1>1, <1>2, <1>3, Associative
  <2>2. (p \o (q \o r)) \o t = p \o y
    BY <1>1, <1>2, <1>5, Associative
  <2> QED BY <1>4, <2>1, <2>2
<1> HIDE DEF y
<1>7. Len(items) = Len(p) + Len(y)
  <2>1. p \in Seq(Item) /\ y \in Seq(Item)
    BY <1>2, <1>5
  <2>2. Len(p \o y) = Len(p) + Len(y)
    BY <2>1, ConcatProperties
  <2> QED BY <1>6, <2>2, Zenon
<1>8. SubSeq(items, Len(p) + 1, Len(p) + Len(y)) = y
  <2>1. SubSeq(p \o y, Len(p) + 1, Len(p) + Len(y)) = y
    BY <1>2, <1>5, JoinedLast
  <2> QED BY <1>6, <2>1, Zenon
<1>9. SubSeq(items, 1, d.meta) = SubSeq(p, 1, d.meta)
  <2>1. p \in Seq(Item) /\ y \in Seq(Item) /\ d.meta \in Nat /\ d.meta <= Len(p)
    BY <1>1, <1>2, <1>5
  <2>2. SubSeq(p \o y, 1, d.meta) = SubSeq(p, 1, d.meta)
    BY <2>1, JoinedFirst
  <2> QED BY <1>6, <2>2, Zenon
<1>10. SubSeq(p, 1, d.meta) = p
  BY <1>2, SubSeqFull
<1> QED BY <1>2, <1>4, <1>7, <1>8, <1>9, <1>10 DEF p, q, t, y

\* The header and the footer frame the text of the source.
LEMMA HeaderExpansion == IInv /\ ExpansionInv /\ mmd_add_mmd_header_footer => ExpansionInv'
<1> SUFFICES ASSUME IInv, ExpansionInv, mmd_add_mmd_header_footer PROVE ExpansionInv'
  OBVIOUS
<1> DEFINE d == SourceDocument
           items == SubSeq(d.items, 1, d.meta) \o d.header
                    \o SubSeq(d.items, d.meta + 1, Len(d.items)) \o d.footer
<1>1. /\ status = "header" /\ status' = "start" /\ disk' = disk /\ command' = command
      /\ failed' = failed /\ accidents' = accidents
  BY DEF mmd_add_mmd_header_footer
<1>2. /\ Depth = 1 /\ failed = {} /\ calls[1].buffer = d.items /\ calls[1].file = command.source
      /\ calls[1].meta = d.meta /\ calls[1].pos = d.meta + 1
      /\ calls[1] \in Calls /\ d \in Document
  <2>1. Depth = 1 /\ calls[1] \in Calls /\ d \in Document
    BY <1>1, CurrentFacts, DocumentFacts DEF IInv, ExpansionInv
  <2> QED BY <1>1, <2>1 DEF ExpansionInv, IInv, Untouched
<1>3. SourceDocument' = d /\ Framed' = Framed
  BY <1>1, SameWorld
<1>4. /\ Depth' = 1 /\ calls'[1].file = command.source /\ calls'[1].meta = d.meta
      /\ calls'[1].pos = d.meta + 1
      /\ calls'[1].buffer = IF Framing THEN items ELSE d.items
  <2>1. CASE Framing
    <3>1. PICK c : calls' = <<[calls[1] EXCEPT !.buffer = items, !.capacity = c]>>
      BY <2>1 DEF mmd_add_mmd_header_footer
    <3> HIDE DEF items, d
    <3> QED BY <1>2, <2>1, <3>1 DEF Depth, Calls
  <2>2. CASE ~Framing
    <3>1. calls' = calls
      BY <2>2 DEF mmd_add_mmd_header_footer
    <3> QED BY <1>2, <2>2, <3>1 DEF Depth
  <2> QED BY <2>1, <2>2
<1>5. /\ SubSeq(items, d.meta + 1, Len(items)) = d.header \o BodyOf(d) \o d.footer
      /\ SubSeq(items, 1, d.meta) = SubSeq(d.items, 1, d.meta)
  BY <1>2, FramedText
<1> HIDE DEF items
<1>6. Ahead(calls'[1]) = Framed
  <2>1. CASE Framing
    BY <1>4, <1>5, <2>1 DEF Ahead, Framed
  <2>2. CASE ~Framing
    BY <1>4, <2>2 DEF Ahead, Framed, BodyOf
  <2> QED BY <2>1, <2>2
<1>7. SubSeq(calls'[1].buffer, 1, calls'[1].meta) = SubSeq(d.items, 1, d.meta)
  BY <1>4, <1>5
<1> HIDE DEF d
<1>8. KeepsMetadata'
  BY <1>3, <1>7 DEF KeepsMetadata, d
<1>9. failed' = {} /\ Depth' = 1 /\ Ahead(calls[1])' = Framed'
  BY <1>1, <1>2, <1>3, <1>4, <1>6
<1>10. (calls[1].file = command.source /\ calls[1].meta = SourceDocument.meta)'
  BY <1>1, <1>3, <1>4 DEF d
<1> QED BY <1>1, <1>8, <1>9, <1>10 DEF ExpansionInv, ExpandsLikeReference, UnreadableFilesReported

\* The first call before the scan has passed nothing.
LEMMA StartExpansion == IInv /\ ExpansionInv /\ IsFiniteSet(Paths) /\ mmd_transclude => ExpansionInv'
<1> SUFFICES ASSUME IInv, ExpansionInv, IsFiniteSet(Paths), mmd_transclude PROVE ExpansionInv'
  OBVIOUS
<1> DEFINE d == SourceDocument
           c == calls[1]
<1>1. /\ status = "start" /\ disk' = disk /\ command' = command
      /\ failed' = failed /\ accidents' = accidents
  BY DEF mmd_transclude
<1>2. /\ Depth = 1 /\ failed = {} /\ Ahead(c) = Framed /\ c.file = command.source
      /\ c.meta = d.meta /\ c.pos = c.meta + 1 /\ KeepsMetadata
      /\ c \in Calls /\ d \in Document /\ disk \in Disks /\ command \in Commands
  <2>1. Depth = 1 /\ c \in Calls /\ d \in Document /\ disk \in Disks /\ command \in Commands
    BY <1>1, CurrentFacts, DocumentFacts DEF IInv, ExpansionInv
  <2> QED BY <1>1, <2>1 DEF ExpansionInv, IInv, Untouched
<1>3. /\ SourceDocument' = d /\ Framed' = Framed /\ Expected' = Expected /\ Expand' = Expand
  BY <1>1, SameWorld
<1>4. c.meta \in Nat /\ c.buffer \in Seq(Item)
  BY <1>2 DEF Calls
<1>5. WithoutMetadata(c) = Framed
  BY <1>2 DEF WithoutMetadata, Ahead
<1>6. CASE SearchPath = NULL
  <2>1. status' = "done" /\ calls' = calls
    BY <1>6 DEF mmd_transclude
  <2>2. Expected = [text |-> Framed, denied |-> {}]
    BY <1>6 DEF Expected, Framed
  <2>3. Expected.text = Framed /\ Expected.denied = {}
    BY <2>2
  <2>4. KeepsMetadata' /\ calls'[1].file = command'.source /\ calls'[1].meta = SourceDocument'.meta
    BY <1>1, <1>2, <1>3, <2>1 DEF KeepsMetadata
  <2>5. ExpandsLikeReference'
    BY <1>3, <1>5, <2>1, <2>3, <2>4 DEF ExpandsLikeReference, KeepsMetadata, WithoutMetadata
  <2>6. UnreadableFilesReported'
    BY <1>1, <1>2, <1>3, <2>3 DEF UnreadableFilesReported
  <2> QED BY <2>1, <2>4, <2>5, <2>6 DEF ExpansionInv
<1>7. CASE SearchPath # NULL /\ status' = "crashed"
  <2>1. calls' = calls
    BY <1>7 DEF mmd_transclude
  <2>2. KeepsMetadata' /\ calls'[1].file = command'.source /\ calls'[1].meta = SourceDocument'.meta
    BY <1>1, <1>2, <1>3, <2>1 DEF KeepsMetadata
  <2> QED BY <1>7, <2>2 DEF ExpansionInv, ExpandsLikeReference, UnreadableFilesReported
<1>8. CASE SearchPath # NULL /\ status' # "crashed"
  <2> DEFINE call == [c EXCEPT !.search = SearchPath]
             r == Rebased(call, d.base)
  <2>1. /\ calls' = <<r>> /\ status' = "scan"
        /\ d.base.kind = "relative" => command.source # NULL
    BY <1>8 DEF mmd_transclude
  <2>2. d.base \in Base /\ command.source \in Paths \cup {NULL}
    BY <1>2, DocumentFacts DEF Document
  <2>3. SearchPath \in Paths
    BY <1>8, <2>2, DiskAssumption DEF SearchPath, Paths
  <2>4. /\ call \in Calls /\ call.file = command.source /\ call.search = SearchPath
        /\ call.buffer = c.buffer /\ call.meta = c.meta /\ call.pos = c.pos
    BY <1>2, <2>3 DEF Calls
  <2> HIDE DEF call
  <2>5. /\ r.file = command.source /\ r.buffer = c.buffer /\ r.meta = c.meta /\ r.pos = c.pos
    BY <1>2, <2>1, <2>2, <2>4, RebasedFacts
  <2>6. r.search = SearchOf(d, command.source, SearchPath)
    BY <1>2, <2>4, RebasedSearch
  <2> HIDE DEF r
  <2>7. Depth' = 1 /\ calls'[1] = r
    BY <2>1 DEF Depth
  <2>8. Above(1)' = {command.source}
    BY <2>5, <2>7 DEF Above
  <2>9. Ahead(r) = Framed /\ Passed(r) = <<>>
    <3>1. (c.meta + 1) - 1 = c.meta /\ c.meta < c.meta + 1 /\ c.meta \in Int /\ c.meta + 1 \in Int
      BY <1>4
    <3>2. Passed(r) = SubSeq(c.buffer, c.meta + 1, c.meta)
      BY <1>2, <2>5, <3>1 DEF Passed
    <3>3. Passed(r) = <<>>
      BY <1>4, <3>1, <3>2, SubSeqEmpty
    <3> QED BY <1>2, <2>5, <3>3 DEF Ahead
  <2> DEFINE key == <<Framed, SearchOf(d, command.source, SearchPath), {command.source}>>
  <2>10. Expected = Expand[key]
    BY <1>8 DEF Expected, Framed
  <2>11. Left(1)' = Expand[key]
    <3>1. Left(1)' = Expand[<<Ahead(calls'[1]), calls'[1].search, {command.source}>>]
      BY <1>3, <2>8 DEF Left
    <3> QED BY <2>6, <2>7, <2>9, <3>1
  <2>12. Owed(1)' = Expand[key]
    BY <1>3, <2>10 DEF Owed
  <2>13. Expand[key].text \in Seq(Item)
    <3>1. Framed \in Seq(Item)
      <4>1. r.buffer \in Seq(Item) /\ Len(c.buffer) \in Nat /\ c.meta <= Len(c.buffer)
        BY <1>2, <1>4, <2>5 DEF IInv, TypeOK
      <4>2. SubSeq(c.buffer, c.meta + 1, Len(c.buffer)) \in Seq(Item)
        BY <1>4, <4>1, Slice
      <4> QED BY <1>2, <4>2 DEF Ahead
    <3>2. r.search \in Paths \cup {NULL}
      <4>1. r \in Calls
        BY <1>2, <2>1, <2>2, <2>4, RebasedFacts DEF r
      <4> QED BY <4>1 DEF Calls
    <3>3. key \in Expansions
      BY <2>2, <2>6, <3>1, <3>2 DEF Expansions
    <3> HIDE DEF key
    <3> QED BY <1>2, <3>3, ExpandTyped
  <2> HIDE DEF key
  <2>14. <<>> \o Expand[key].text = Expand[key].text
    BY <2>13, ConcatEmptySeq
  <2>15. Fulfils(1)'
    BY <1>3, <2>7, <2>9, <2>10, <2>11, <2>12, <2>14 DEF Fulfils
  <2>16. Following'
    BY <1>1, <1>2, <2>7, <2>15 DEF Following
  <2>17. KeepsMetadata' /\ calls'[1].file = command'.source /\ calls'[1].meta = SourceDocument'.meta
    BY <1>1, <1>2, <1>3, <2>5, <2>7 DEF KeepsMetadata
  <2> QED BY <2>1, <2>16, <2>17 DEF ExpansionInv, ExpandsLikeReference, UnreadableFilesReported
<1> QED BY <1>6, <1>7, <1>8
-----------------------------------------------------------------------------
\* A step of the scan leaves the first document and its metadata as they are.
LEMMA ScanExpansion ==
    ASSUME TypeOK, ExpansionInv, disk' = disk, command' = command, status' \in {"scan", "crashed"},
           calls'[1].file = calls[1].file, calls'[1].meta = calls[1].meta,
           SubSeq(calls'[1].buffer, 1, calls[1].meta) = SubSeq(calls[1].buffer, 1, calls[1].meta),
           status' = "scan" /\ accidents' = {} => Following'
    PROVE  ExpansionInv'
<1>1. SourceDocument' = SourceDocument
  BY SameWorld
<1>2. KeepsMetadata'
  BY <1>1 DEF ExpansionInv, KeepsMetadata
<1>3. (calls[1].file = command.source /\ calls[1].meta = SourceDocument.meta)'
  BY <1>1 DEF ExpansionInv
<1> QED BY <1>2, <1>3 DEF ExpansionInv, ExpandsLikeReference, UnreadableFilesReported

\* The scan passes over other text, and over tokens that stay.
LEMMA AdvanceExpansion ==
    ASSUME IInv, ExpansionInv, IsFiniteSet(Paths), PassOver \/ LeaveToken
    PROVE  ExpansionInv'
<1>1. /\ Scanning /\ status = "scan" /\ status' = "scan" /\ calls' = Advance(calls)
      /\ disk' = disk /\ command' = command
  BY DEF PassOver, LeaveToken, Usable, Scanning
<1>2. TypeOK /\ Depth \in Nat \ {0} /\ 1 \in 1..Depth /\ Finite
  BY CurrentFacts DEF IInv, Finite
<1>3. AdvancedFacts
  BY <1>1, <1>2, Advanced
<1>4. /\ calls'[1].file = calls[1].file /\ calls'[1].meta = calls[1].meta
      /\ calls'[1].buffer = calls[1].buffer
  BY <1>2, <1>3 DEF AdvancedFacts
<1>5. ASSUME accidents' = {} PROVE Following'
  <2>1. accidents = {}
    BY <1>5 DEF PassOver, LeaveToken
  <2>2. Following
    BY <1>1, <2>1 DEF ExpansionInv
  <2>3. Above(Depth) \cap Denied = {}
    BY <1>2, <2>2, AboveReadable DEF ExpansionInv, Following
  <2>4. BeingRead = Above(Depth)
    BY DEF BeingRead, Above
  <2>5. PICK f : f = Names(item, Current.search)
    OBVIOUS
  <2>6. f \in {NULL} \cup Above(Depth) \cup Denied
    <3>1. CASE PassOver
      BY <2>5, <3>1 DEF PassOver, IsToken, Names
    <3>2. CASE LeaveToken
      <4>1. file_path = f /\ file_path \in {NULL} \cup parsed \cup Denied
        BY <2>5, <3>2 DEF LeaveToken, Usable, IsToken, Names, file_path
      <4>2. file_path \notin parsed \ BeingRead
        BY <1>5, <3>2 DEF LeaveToken
      <4> QED BY <2>4, <4>1, <4>2
    <3> QED BY <3>1, <3>2
  <2>7. failed' = failed \cup (({f} \cap Denied) \ Above(Depth))
    <3>1. CASE PassOver
      <4>1. f = NULL /\ failed' = failed
        BY <2>5, <3>1 DEF PassOver, IsToken, Names
      <4>2. NULL \notin Denied
        BY DiskAssumption DEF Paths
      <4> QED BY <4>1, <4>2
    <3>2. CASE LeaveToken
      <4>1. file_path = f
        BY <2>5, <3>2 DEF LeaveToken, Usable, IsToken, Names, file_path
      <4>2. f \notin parsed \ Above(Depth)
        BY <1>5, <2>4, <3>2, <4>1 DEF LeaveToken
      <4>3. failed' = IF f \in Denied \ parsed THEN failed \cup {f} ELSE failed
        BY <3>2, <4>1 DEF LeaveToken, read_ctx_store_failed_file
      <4>4. f \in Denied => f \notin Above(Depth) /\ f \notin parsed
        BY <2>3, <4>2
      <4> QED BY <4>3, <4>4
    <3> QED BY <3>1, <3>2
  <2> QED BY <1>1, <1>2, <2>2, <2>5, <2>6, <2>7, AdvanceFollows
<1> QED BY <1>1, <1>2, <1>4, <1>5, ScanExpansion

\* A file is opened.
LEMMA OpenExpansion ==
    ASSUME IInv, ExpansionInv, IsFiniteSet(Paths), Open
    PROVE  ExpansionInv'
<1>1. status = "scan" /\ status' = "scan" /\ disk' = disk /\ command' = command
  BY DEF Open, Usable, Scanning
<1>2. TypeOK /\ Depth \in Nat \ {0} /\ 1 \in 1..Depth /\ Finite
  BY CurrentFacts DEF IInv, Finite
<1>3. calls'[1] = calls[1]
  BY <1>2, Opened DEF OpenedFacts
<1>4. ASSUME accidents' = {} PROVE Following'
  <2>1. accidents = {} /\ file_path \notin BeingRead
    BY <1>4 DEF Open
  <2>2. Following /\ file_path \notin Above(Depth)
    BY <1>1, <2>1 DEF ExpansionInv, BeingRead, Above
  <2> QED BY <1>2, <2>2, OpenFollows
<1> QED BY <1>1, <1>2, <1>3, <1>4, ScanExpansion

\* A file has been read.
LEMMA ReturnExpansion ==
    ASSUME IInv, ExpansionInv, IsFiniteSet(Paths), Return
    PROVE  ExpansionInv'
<1>1. /\ status = "scan" /\ status' \in {"scan", "crashed"} /\ disk' = disk /\ command' = command
      /\ failed' = failed /\ Current.pos > Len(Current.buffer)
  BY DEF Return
<1>2. TypeOK /\ Finite
  BY CurrentFacts DEF IInv, Finite
<1>3. PICK n : ReturnedFacts(n)
  BY <1>2, Returned
<1>4. /\ n \in Nat \ {0} /\ Depth = n + 1 /\ 1 \in 1..n
      /\ n \in 1..(Depth - 1) /\ n \in 1..Depth /\ Depth \in 1..Depth
  BY <1>3 DEF ReturnedFacts
<1>5. calls'[1].file = calls[1].file /\ calls'[1].meta = calls[1].meta
  BY <1>3, <1>4 DEF ReturnedFacts
<1>6. SubSeq(calls'[1].buffer, 1, calls[1].meta) = SubSeq(calls[1].buffer, 1, calls[1].meta)
  <2>1. CASE n # 1
    <3>1. calls'[1] = calls[1]
      BY <1>3, <1>4, <2>1 DEF ReturnedFacts
    <3> QED BY <3>1
  <2>2. CASE n = 1
    <3> DEFINE b == calls[1].buffer
               m == calls[1].meta
               p == calls[1].pos
               text == WithoutMetadata(Current)
    <3>1. calls'[1].buffer = Spliced(b, p, text)
      BY <1>3, <2>2 DEF ReturnedFacts
    <3>2. m < p /\ p <= Len(b) /\ b \in Seq(Item) /\ m \in Nat /\ p \in Nat
      <4>1. calls[1] \in Calls /\ m < p /\ p <= Len(b)
        BY <1>2, <1>4, <2>2, CurrentFacts DEF IInv, TypeOK, CallersWaitAtTokens
      <4> QED BY <4>1 DEF Calls
    <3>3. text \in Seq(Item)
      <4>1. Current \in Calls /\ Current = calls[Depth]
        BY <1>2, CurrentFacts DEF Current
      <4>2. Current.meta < Current.pos /\ Current.pos <= Len(Current.buffer) + 1
        BY <1>2, <1>4, <4>1 DEF TypeOK
      <4>3. /\ Current.buffer \in Seq(Item) /\ Current.meta \in Nat
            /\ Current.pos \in Nat /\ Len(Current.buffer) \in Nat
        BY <4>1 DEF Calls
      <4>4. Current.meta <= Len(Current.buffer) /\ Len(Current.buffer) <= Len(Current.buffer)
        BY <4>2, <4>3
      <4>5. SubSeq(Current.buffer, Current.meta + 1, Len(Current.buffer)) \in Seq(Item)
        BY <4>3, <4>4, Slice
      <4> QED BY <4>5 DEF WithoutMetadata
    <3> HIDE DEF b, m, p, text
    <3>4. SpliceFacts(b, m, p, text)
      BY <3>2, <3>3, SpliceParts
    <3>5. SubSeq(Spliced(b, p, text), 1, m) = SubSeq(b, 1, m)
      BY <3>4 DEF SpliceFacts
    <3> QED BY <3>1, <3>5 DEF b, m
  <2> QED BY <2>1, <2>2
<1>7. ASSUME accidents' = {} PROVE Following'
  <2>1. accidents = {}
    BY <1>3, <1>7 DEF ReturnedFacts
  <2>2. Following
    BY <1>1, <2>1 DEF ExpansionInv
  <2> QED BY <1>1, <1>2, <1>3, <1>7, <2>2, ReturnFollows
<1> QED BY <1>1, <1>2, <1>5, <1>6, <1>7, ScanExpansion

\* The first scan is over.
LEMMA DoneExpansion ==
    ASSUME IInv, ExpansionInv, IsFiniteSet(Paths), Done
    PROVE  ExpansionInv'
<1>1. /\ status = "scan" /\ Depth = 1 /\ status' = "done" /\ Current.pos > Len(Current.buffer)
      /\ disk' = disk /\ command' = command /\ calls' = calls /\ failed' = failed /\ accidents' = accidents
  BY DEF Done
<1>2. TypeOK /\ Finite
  BY CurrentFacts DEF IInv, Finite
<1>3. SourceDocument' = SourceDocument /\ Expected' = Expected
  BY <1>1, SameWorld
<1>4. KeepsMetadata' /\ (calls[1].file = command.source /\ calls[1].meta = SourceDocument.meta)'
  BY <1>1, <1>3 DEF ExpansionInv, KeepsMetadata
<1>5. ASSUME accidents = {}
      PROVE  WithoutMetadata(calls[1]) = Expected.text /\ failed = Expected.denied
  <2>1. Fulfils(1) /\ failed \subseteq Expected.denied
    BY <1>1, <1>5 DEF ExpansionInv, Following
  <2>2. /\ WithoutMetadata(Current) = Owed(Depth).text
        /\ Owed(Depth).denied \subseteq failed
    BY <1>1, <1>2, <2>1, FulfilledAtEnd
  <2>3. Owed(Depth) = Expected /\ Current = calls[1]
    BY <1>1 DEF Owed, Current
  <2> QED BY <2>1, <2>2, <2>3
<1>6. ExpandsLikeReference'
  BY <1>1, <1>3, <1>4, <1>5 DEF ExpandsLikeReference, KeepsMetadata, WithoutMetadata
<1>7. UnreadableFilesReported'
  BY <1>1, <1>3, <1>5 DEF UnreadableFilesReported
<1> QED BY <1>1, <1>4, <1>6, <1>7 DEF ExpansionInv

\* One step per action of Next.
LEMMA NextExpansion == IInv /\ ExpansionInv /\ IsFiniteSet(Paths) /\ [Next]_vars => ExpansionInv'
<1> SUFFICES ASSUME IInv, ExpansionInv, IsFiniteSet(Paths), [Next]_vars PROVE ExpansionInv'
  OBVIOUS
<1>1. CASE mmd_add_mmd_header_footer
  BY <1>1, HeaderExpansion
<1>2. CASE mmd_transclude
  BY <1>2, StartExpansion
<1>3. CASE PassOver \/ LeaveToken
  BY <1>3, AdvanceExpansion
<1>4. CASE Open
  BY <1>4, OpenExpansion
<1>5. CASE Return
  BY <1>5, ReturnExpansion
<1>6. CASE Done
  BY <1>6, DoneExpansion
<1>7. CASE NoSearchPath
  BY <1>7, ScanExpansion DEF NoSearchPath, IInv
<1>8. CASE UNCHANGED vars
  <2>1. /\ Expand' = Expand /\ Expected' = Expected /\ SourceDocument' = SourceDocument
        /\ Framed' = Framed
    BY <1>8, SameWorld DEF vars
  <2>2. status' = status /\ calls' = calls /\ failed' = failed /\ accidents' = accidents /\ command' = command
    BY <1>8 DEF vars
  <2>3. ASSUME status = "scan" PROVE ExpansionInv'
    <3>1. TypeOK /\ disk' = disk /\ Depth' = Depth /\ Depth \in Nat
      BY <1>8, <2>2, CurrentFacts DEF vars, Depth, IInv
    <3>2. ASSUME accidents = {} PROVE Following'
      <4>1. Following
        BY <2>3, <3>2 DEF ExpansionInv
      <4>2. ASSUME NEW i \in 1..Depth PROVE Fulfils(i)'
        <5>1. Fulfils(i) /\ i \in Nat \ {0}
          BY <3>1, <4>1 DEF Following
        <5> QED BY <2>2, <3>1, <5>1, FulfilsStays
      <4>3. ASSUME NEW i \in 2..Depth PROVE Named(i)'
        <5>1. Named(i) /\ i \in Nat /\ i > 1
          BY <3>1, <4>1 DEF Following
        <5> QED BY <2>2, <3>1, <5>1, NamedStays
      <4> QED BY <2>1, <2>2, <3>1, <4>1, <4>2, <4>3 DEF Following
    <3> QED BY <2>2, <2>3, <3>1, <3>2, ScanExpansion
  <2>4. ASSUME status # "scan" PROVE ExpansionInv'
    BY <2>1, <2>2, <2>4 DEF ExpansionInv, KeepsMetadata, ExpandsLikeReference,
                            UnreadableFilesReported, Depth, WithoutMetadata, Ahead
  <2> QED BY <2>3, <2>4
<1> QED BY <1>1, <1>2, <1>3, <1>4, <1>5, <1>6, <1>7, <1>8 DEF Next

\* Unless a moved buffer, a cut path or a folder got in the way, the document
\* mmd_transclude leaves is the expansion of its source: for every disk, every
\* cycle of tokens in it and every depth.
THEOREM ExpandsAsDefined == ASSUME IsFiniteSet(Paths) PROVE Spec => []ExpandsLikeReference
<1>1. ExpansionInv => ExpandsLikeReference
  BY DEF ExpansionInv
<1>2. IInv /\ ExpansionInv /\ [Next]_vars => ExpansionInv'
  BY NextExpansion
<1> QED
  BY <1>1, <1>2, InitInv, NextInv, InitExpansion, PTL DEF Spec

\* In the same circumstances failed_file_hash is exactly the set of files that
\* a token named, at whatever depth, and that could not be read.
THEOREM ReportsUnreadable == ASSUME IsFiniteSet(Paths) PROVE Spec => []UnreadableFilesReported
<1>1. ExpansionInv => UnreadableFilesReported
  BY DEF ExpansionInv
<1>2. IInv /\ ExpansionInv /\ [Next]_vars => ExpansionInv'
  BY NextExpansion
<1> QED
  BY <1>1, <1>2, InitInv, NextInv, InitExpansion, PTL DEF Spec
-----------------------------------------------------------------------------
(* Null search paths.                                                      *)

\* Whether a call loses its folder depends on its file alone.
LEMMA SameFileLoses ==
    ASSUME UNCHANGED <<disk, command>>, NEW j, calls'[j].file = calls[j].file, LosesFolder(j)
    PROVE  LosesFolder(j)'
BY DEF LosesFolder, BaseOf, SourceDocument, Contents, realpath

\* A step that keeps the files and search paths of the calls that stay.
LEMMA PrefixKeepsFolders ==
    ASSUME TypeOK, FolderInv, UNCHANGED <<disk, command>>, status = "scan",
           status' = "scan" \/ status' = "done" \/ (status' = "crashed" /\ "moved" \in accidents'),
           Depth' \in 1..Depth,
           \A i \in 1..Depth' : /\ calls'[i].file = calls[i].file
                                /\ calls'[i].search = calls[i].search
    PROVE  FolderInv'
<1>1. SearchLostByBase'
  <2> SUFFICES ASSUME NEW i \in 1..Depth', calls'[i].search = NULL
               PROVE  \E j \in 1..i : LosesFolder(j)'
    BY DEF SearchLostByBase
  <2>1. Depth \in Nat /\ i \in 1..Depth /\ calls[i].search = NULL
    BY CurrentFacts
  <2>2. PICK j \in 1..i : LosesFolder(j)
    BY <2>1 DEF FolderInv, SearchLostByBase
  <2>3. j \in 1..Depth'
    BY <2>1
  <2>4. LosesFolder(j)'
    BY <2>2, <2>3, SameFileLoses
  <2> QED
    BY <2>4
<1>2. OnlyLostFoldersCrash'
  BY DEF OnlyLostFoldersCrash
<1> QED
  BY <1>1, <1>2 DEF FolderInv

\* The first call has a search path when the scan begins, unless its own base
\* took it.
LEMMA StartFolders == IInv /\ FolderInv /\ mmd_transclude => FolderInv'
<1> SUFFICES ASSUME IInv, FolderInv, mmd_transclude PROVE FolderInv'
  OBVIOUS
<1>1. /\ TypeOK /\ status = "start" /\ UNCHANGED <<disk, command>>
      /\ disk \in Disks /\ command \in Commands
      /\ calls[1].file = command.source
  BY DEF IInv, TypeOK, Untouched, mmd_transclude
<1>2. calls[1] \in Calls /\ Depth \in Nat \ {0}
  BY <1>1, CurrentFacts
<1> DEFINE base == SourceDocument.base
           lost == base.kind = "relative" /\ command.source = NULL
           first == [calls[1] EXCEPT !.search = SearchPath]
           r == Rebased(first, base)
<1>3. base \in Base
  BY <1>1, DocumentFacts DEF Document
<1>4. base.kind # "none" => base.kind \in {"absolute", "relative"}
  BY <1>3 DEF Base
<1>5. first.file = command.source /\ first.search = SearchPath
  BY <1>1, <1>2 DEF Calls
<1>6. BaseOf(1) = base /\ BaseOf(1)' = base
  BY <1>1 DEF BaseOf, SourceDocument
<1>7. CASE SearchPath = NULL
  <2>1. status' = "done"
    BY <1>7 DEF mmd_transclude
  <2> QED
    BY <2>1 DEF FolderInv, SearchLostByBase, OnlyLostFoldersCrash
<1>8. CASE SearchPath # NULL /\ lost
  <2>1. status' = "crashed" /\ calls' = calls
    BY <1>8 DEF mmd_transclude
  <2>2. LosesFolder(1)
    BY <1>1, <1>6, <1>8 DEF LosesFolder
  <2>3. LosesFolder(1)'
    BY <1>1, <2>1, <2>2, SameFileLoses
  <2>4. Depth' = Depth
    BY <2>1 DEF Depth
  <2> QED
    BY <1>2, <2>1, <2>3, <2>4 DEF FolderInv, SearchLostByBase, OnlyLostFoldersCrash
<1>9. CASE SearchPath # NULL /\ ~lost
  <2>1. status' = "scan" /\ calls' = <<r>>
    BY <1>9 DEF mmd_transclude
  <2>2. Depth' = 1 /\ calls'[1] = r
    BY <2>1 DEF Depth
  <2>3. r.search = NULL => LosesFolder(1)'
    <3>1. CASE base.kind = "none"
      BY <1>5, <1>9, <3>1 DEF Rebased
    <3>2. CASE base.kind = "absolute"
      <4>1. base.name # NULL
        BY <1>3, <3>2, DiskAssumption DEF Base, Paths
      <4>2. r.search = base.name
        BY <1>2, <3>2 DEF Rebased, Calls
      <4> QED
        BY <4>1, <4>2
    <3>3. CASE base.kind = "relative"
      <4>1. /\ r.search = realpath(DirOf[command.source], base.name, "")
            /\ r.file = command.source
        BY <1>2, <1>5, <3>3 DEF Rebased, Calls
      <4>2. realpath(DirOf[command.source], base.name, "")'
            = realpath(DirOf[command.source], base.name, "")
        BY <1>1 DEF realpath, SourceDocument
      <4>3. calls'[1].file = command.source
        BY <2>2, <4>1
      <4>4. r.search = NULL => realpath(DirOf[calls'[1].file], base.name, "") = NULL
        BY <4>1, <4>3
      <4>5. r.search = NULL => realpath(DirOf[calls[1].file], BaseOf(1).name, "")' = NULL
        BY <1>1, <1>6, <4>4 DEF realpath
      <4> QED
        BY <1>6, <3>3, <4>5 DEF LosesFolder
    <3> QED
      BY <1>4, <3>1, <3>2, <3>3
  <2> HIDE DEF r
  <2>4. SearchLostByBase'
    <3>1. \A i \in 1..Depth' : i = 1
      BY <2>2
    <3> QED
      BY <2>2, <2>3, <3>1 DEF SearchLostByBase
  <2>5. OnlyLostFoldersCrash'
    BY <2>1 DEF OnlyLostFoldersCrash
  <2> QED
    BY <2>4, <2>5 DEF FolderInv
<1> QED
  BY <1>7, <1>8, <1>9

\* A file searches where its caller does, or where its own base says.
LEMMA OpenFolders == IInv /\ FolderInv /\ Open => FolderInv'
<1> SUFFICES ASSUME IInv, FolderInv, Open PROVE FolderInv'
  OBVIOUS
<1>1. /\ TypeOK /\ UNCHANGED <<disk, command, status>> /\ status = "scan"
      /\ disk \in Disks /\ command \in Commands
  BY DEF IInv, TypeOK, Open, Usable, Scanning
<1>2. /\ Depth \in Nat \ {0} /\ calls \in Seq(Calls) /\ Depth = Len(calls)
      /\ Current \in Calls
  BY <1>1, CurrentFacts
<1> DEFINE document == Contents(file_path)
<1>3. PICK c \in buffer_file(document.items) :
        calls' = Append(calls, Rebased(Call(file_path, document, Current.search, c), document.base))
  BY DEF Open
<1>4. file_path \in Paths
  <2>1. file_path \in Paths \cup {NULL}
    BY <1>1, DocumentFacts DEF file_path, PathOf
  <2> QED
    BY <2>1 DEF Open
<1>5. document.base \in Base
  BY <1>1, <1>4, DocumentFacts DEF Document
<1> DEFINE call == Call(file_path, document, Current.search, c)
           r == Rebased(call, document.base)
<1>6. /\ call.file = file_path /\ call.search = Current.search
      /\ r.file = file_path
      /\ document.base.kind = "none" => r.search = Current.search
      /\ document.base.kind = "absolute" => r.search = document.base.name
      /\ document.base.kind = "relative" => r.search = realpath(DirOf[file_path], document.base.name, "")
  <2>1. document.base.kind \in {"none", "absolute", "relative"}
    BY <1>5 DEF Base
  <2> HIDE DEF document
  <2>2. call.file = file_path /\ call.search = Current.search
    BY DEF Call
  <2>3. CASE document.base.kind = "none"
    BY <2>2, <2>3 DEF Rebased
  <2>4. CASE document.base.kind = "absolute"
    BY <2>2, <2>4 DEF Rebased, Call
  <2>5. CASE document.base.kind = "relative"
    BY <2>2, <2>5 DEF Rebased, Call
  <2> QED
    BY <2>1, <2>2, <2>3, <2>4, <2>5
<1>7. calls' = Append(calls, r)
  BY <1>3
<1> HIDE DEF r, call
<1>n. PICK n \in Nat : n = Depth + 1
  BY <1>2
<1>8. /\ n \in Nat /\ n # 1 /\ Depth' = n /\ calls'[n] = r
      /\ \A i \in 1..Depth : calls'[i] = calls[i]
  BY <1>n, <1>2, <1>7 DEF Depth
<1>9. document.base.kind = "relative" /\ r.search = NULL => LosesFolder(n)'
  <2> SUFFICES ASSUME document.base.kind = "relative", r.search = NULL PROVE LosesFolder(n)'
    OBVIOUS
  <2>1. calls'[n].file = file_path
    BY <1>6, <1>8
  <2>2. BaseOf(n)' = document.base
    <3>1. BaseOf(n)' = (Contents(calls[n].file).base)'
      BY <1>8 DEF BaseOf
    <3>2. Contents(calls[n].file)' = Contents(file_path)
      BY <1>1, <2>1 DEF Contents
    <3> QED
      BY <3>1, <3>2
  <2>3. realpath(DirOf[calls[n].file], BaseOf(n).name, "")'
        = realpath(DirOf[file_path], document.base.name, "")
    BY <1>1, <2>1, <2>2 DEF realpath
  <2> HIDE DEF document
  <2> QED
    BY <1>6, <2>2, <2>3 DEF LosesFolder
<1>10. SearchLostByBase'
  <2> SUFFICES ASSUME NEW i \in 1..n, calls'[i].search = NULL
               PROVE  \E j \in 1..i : LosesFolder(j)'
    BY <1>8 DEF SearchLostByBase
  <2>1. ASSUME NEW k \in 1..Depth, calls[k].search = NULL
        PROVE  \E j \in 1..k : LosesFolder(j)'
    <3>1. PICK j \in 1..k : LosesFolder(j)
      BY <1>1, <2>1 DEF FolderInv, SearchLostByBase
    <3>2. j \in 1..Depth
      BY <1>2
    <3>3. calls'[j].file = calls[j].file
      BY <1>8, <3>2
    <3>4. LosesFolder(j)'
      BY <1>1, <3>1, <3>3, SameFileLoses
    <3> QED
      BY <3>4
  <2>2. CASE i \in 1..Depth
    BY <1>8, <2>1, <2>2
  <2>3. CASE i = n
    <3>1. r.search = NULL
      BY <1>8, <2>3
    <3>2. document.base.kind \in {"none", "absolute", "relative"}
      BY <1>5 DEF Base
    <3>3. document.base.kind # "absolute"
      <4>1. document.base.kind = "absolute" => document.base.name # NULL
        BY <1>5, DiskAssumption DEF Base, Paths
      <4> QED
        BY <1>6, <3>1, <4>1
    <3>4. CASE document.base.kind = "relative"
      BY <1>8, <1>9, <2>3, <3>1, <3>4
    <3>5. CASE document.base.kind = "none"
      <4>1. calls[Depth].search = NULL /\ Depth \in 1..Depth
        BY <1>2, <1>6, <3>1, <3>5 DEF Current
      <4>2. PICK j \in 1..Depth : LosesFolder(j)'
        BY <2>1, <4>1
      <4>3. j \in 1..i
        BY <1>n, <1>2, <2>3
      <4> QED
        BY <4>2, <4>3
    <3> QED
      BY <3>2, <3>3, <3>4, <3>5
  <2> QED
    BY <1>n, <1>2, <2>2, <2>3
<1>11. OnlyLostFoldersCrash'
  BY <1>1 DEF OnlyLostFoldersCrash
<1> QED
  BY <1>10, <1>11 DEF FolderInv

\* The caller goes on with the search path that it had.
LEMMA ReturnFolders == IInv /\ FolderInv /\ Return => FolderInv'
<1> SUFFICES ASSUME IInv, FolderInv, Return PROVE FolderInv'
  OBVIOUS
<1>1. /\ TypeOK /\ status = "scan" /\ Depth > 1 /\ UNCHANGED <<disk, command>>
  BY DEF IInv, Return
<1>2. /\ Depth \in Nat \ {0} /\ calls \in Seq(Calls) /\ Depth = Len(calls)
      /\ \A i \in 1..Depth : calls[i] \in Calls
  BY <1>1, CurrentFacts
<1>3. PICK b, c, pos :
        calls' = Append(SubSeq(calls, 1, Depth - 2),
                        [calls[Depth - 1] EXCEPT !.buffer = b, !.capacity = c, !.pos = pos])
  BY DEF Return
<1>4. status' = "scan" \/ (status' = "crashed" /\ "moved" \in accidents')
  BY <1>1 DEF Return
<1> DEFINE m == Depth - 1
           r == [calls[m] EXCEPT !.buffer = b, !.capacity = c, !.pos = pos]
<1>5. m \in 1..Depth /\ r.file = calls[m].file /\ r.search = calls[m].search
  <2>1. m \in 1..Depth
    BY <1>1, <1>2
  <2>2. calls[m] \in Calls
    BY <1>2, <2>1
  <2> HIDE DEF m
  <2> QED
    BY <2>1, <2>2 DEF Calls
<1> HIDE DEF r
<1>6. calls' = Append(SubSeq(calls, 1, Depth - 2), r)
  BY <1>3 DEF r
<1>7. /\ Depth' = m /\ calls'[m] = r
      /\ \A i \in 1..m : i = m \/ calls'[i] = calls[i]
  <2>1. /\ Depth - 2 \in Nat /\ Len(SubSeq(calls, 1, Depth - 2)) = Depth - 2
        /\ \A i \in 1..(Depth - 2) : SubSeq(calls, 1, Depth - 2)[i] = calls[i]
    BY <1>1, <1>2
  <2> QED
    BY <1>1, <1>2, <1>6, <2>1 DEF Depth
<1>8. \A i \in 1..Depth' : calls'[i].file = calls[i].file /\ calls'[i].search = calls[i].search
  BY <1>5, <1>7
<1> QED
  BY <1>1, <1>4, <1>5, <1>7, <1>8, PrefixKeepsFolders

\* One step per action of Next.
LEMMA NextFolders == IInv /\ FolderInv /\ [Next]_vars => FolderInv'
<1> SUFFICES ASSUME IInv, FolderInv, [Next]_vars PROVE FolderInv'
  OBVIOUS
<1>1. TypeOK /\ Depth \in Nat \ {0} /\ calls \in Seq(Calls) /\ Depth = Len(calls)
      /\ \A i \in 1..Depth : calls[i] \in Calls
  BY CurrentFacts DEF IInv
<1>2. CASE mmd_add_mmd_header_footer
  BY <1>2 DEF mmd_add_mmd_header_footer, FolderInv, SearchLostByBase, OnlyLostFoldersCrash
<1>3. CASE mmd_transclude
  BY <1>3, StartFolders
<1>4. ASSUME status = "scan", calls' = Advance(calls), UNCHANGED <<disk, command, status>>
      PROVE  FolderInv'
  <2> DEFINE moved == [calls[Depth] EXCEPT !.pos = @ + 1]
  <2>1. moved.file = calls[Depth].file /\ moved.search = calls[Depth].search
    <3>1. calls[Depth] \in Calls
      BY <1>1
    <3> QED
      BY <3>1 DEF Calls
  <2>2. /\ Depth' = Depth
        /\ \A i \in 1..Depth : calls'[i] = IF i = Depth THEN moved ELSE calls[i]
    BY <1>1, <1>4 DEF Advance, Depth
  <2>3. \A i \in 1..Depth : calls'[i].file = calls[i].file /\ calls'[i].search = calls[i].search
    BY <2>1, <2>2
  <2>4. Depth' \in 1..Depth
    BY <1>1, <2>2
  <2> QED
    BY <1>1, <1>4, <2>2, <2>3, <2>4, PrefixKeepsFolders
<1>5. CASE PassOver
  BY <1>4, <1>5 DEF PassOver, Scanning
<1>6. CASE LeaveToken
  BY <1>4, <1>6 DEF LeaveToken, Usable, Scanning
<1>7. CASE NoSearchPath
  <2>1. /\ status = "scan" /\ status' = "crashed" /\ UNCHANGED <<disk, command, calls>>
        /\ calls[Depth].search = NULL
    BY <1>7 DEF NoSearchPath, Scanning, Current
  <2>2. PICK j \in 1..Depth : LosesFolder(j)
    BY <1>1, <2>1 DEF FolderInv, SearchLostByBase
  <2>3. LosesFolder(j)' /\ Depth' = Depth
    BY <2>1, <2>2, SameFileLoses DEF Depth
  <2> QED
    BY <2>1, <2>3 DEF FolderInv, SearchLostByBase, OnlyLostFoldersCrash
<1>8. CASE Open
  BY <1>8, OpenFolders
<1>9. CASE Return
  BY <1>9, ReturnFolders
<1>10. CASE Done
  BY <1>10 DEF Done, FolderInv, SearchLostByBase, OnlyLostFoldersCrash
<1>11. CASE UNCHANGED vars
  <2>1. \A j : LosesFolder(j) => LosesFolder(j)'
    BY <1>11, SameFileLoses DEF vars
  <2>2. Depth' = Depth /\ UNCHANGED <<calls, status, accidents>>
    BY <1>11 DEF vars, Depth
  <2> QED
    BY <2>1, <2>2 DEF FolderInv, SearchLostByBase, OnlyLostFoldersCrash
<1> QED
  BY <1>2, <1>3, <1>5, <1>6, <1>7, <1>8, <1>9, <1>10, <1>11 DEF Next

\* For every disk and depth, the program crashes on a null path only where the
\* transcludebase of a document being read lost its folder.
THEOREM CrashesOnLostFolders == Spec => []OnlyLostFoldersCrash
<1>1. Init => FolderInv
  BY DEF Init, FolderInv, SearchLostByBase, OnlyLostFoldersCrash
<1>2. FolderInv => OnlyLostFoldersCrash
  BY DEF FolderInv
<1> QED
  BY <1>1, <1>2, InitInv, NextInv, NextFolders, PTL DEF Spec
===========================================================================
