---------------------------- MODULE Transclusion ----------------------------
(***************************************************************************)
(* mmd_add_mmd_header_footer and mmd_transclude: a document's {{file}}     *)
(* tokens are replaced, in the document's own text_buffer, by the text of  *)
(* the files they name, each of which is first transcluded itself by a     *)
(* recursive call.  The stack `parsed' holds one path per call and keeps a *)
(* file from being read inside itself.                                     *)
(*                                                                         *)
(* A text is a sequence of items: a {{...}} token or a piece of other text.*)
(* The first `meta' items of a document are its metadata.  A disk is what  *)
(* the file system holds: the documents, and the paths that exist.         *)
(***************************************************************************)
EXTENDS Integers, Sequences, FiniteSets

CONSTANTS Files,        \* the files, named by their canonical path
          Denied,       \* the files that exist and may not be read
          Dirs,         \* the directories, named by their canonical path
          Root,         \* the directory an absolute path starts from
          DirOf,        \* the directory of a file; a directory is its own
          Disks,        \* what the disk may hold
          Commands,     \* how mmd_process_buffer may be called
          kBUFFERSIZE,  \* files are read in pieces of this size
          MaxDepth,     \* bound on the depth of the recursion
          NULL

VARIABLES disk, command,  \* chosen at the start, never changed
          calls,    \* the activations of mmd_transclude_recursive, innermost last
          failed,   \* read_ctx.failed_file_hash
          status,   \* "header", "start", "scan", then "done" or "crashed"
          accidents \* history: what went wrong on the way (see below)

vars == <<disk, command, calls, failed, status, accidents>>
-----------------------------------------------------------------------------
Paths == Files \cup Dirs

\* A token names a path by a stem and an extension; ".*" is the wildcard
Item == [kind : {"text", "key", "toc", "absolute", "relative"},
         stem : STRING, ext : STRING]
Base == [kind : {"none"}, name : {NULL}] \cup [kind : {"absolute"}, name : Dirs]
        \cup [kind : {"relative"}, name : STRING]
Document == {d \in [items : Seq(Item), meta : Nat, base : Base,
                    header : Seq(Item), footer : Seq(Item)] : d.meta <= Len(d.items)}
Command == [source : Files \cup {NULL}, search : Dirs \cup {NULL, "nowhere"},
            format : {"mmd", "outline", "html", "latex", "fodt", "other"}, header : BOOLEAN]
IsDisk(d) == /\ d.text \in [Files -> Document]
             /\ d.stdin \in Document
             /\ d.tree \in [DOMAIN d.tree -> Paths]  \* of <<directory, stem, extension>>

ASSUME DiskAssumption ==
    /\ NULL \notin Paths /\ Denied \subseteq Files /\ Files \cap Dirs = {}
    /\ Root \in Dirs
    /\ DirOf \in [Paths -> Dirs] /\ \A d \in Dirs : DirOf[d] = d
    /\ Commands \subseteq Command /\ \A d \in Disks : IsDisk(d)
    /\ \A c \in Commands : c.source \notin Denied  \* the source was read
ASSUME BoundAssumption == kBUFFERSIZE \in Nat \ {0} /\ MaxDepth \in Nat \ {0}

Empty == [items |-> <<>>, meta |-> 0, base |-> [kind |-> "none", name |-> NULL],
          header |-> <<>>, footer |-> <<>>]

\* buffer_filename: fopen succeeds on a directory, and reading it gives nothing
Contents(path) == IF path \in Dirs THEN Empty ELSE disk.text[path]

\* mmd_process_filename reads the source; otherwise the text is that of stdin
SourceDocument == IF command.source \in Files THEN disk.text[command.source] ELSE disk.stdin

realpath(dir, stem, ext) ==
    IF <<dir, stem, ext>> \in DOMAIN disk.tree THEN disk.tree[<<dir, stem, ext>>] ELSE NULL

\* Doubling capacity until it is at least size (a set with one member)
Doubled(capacity, size) ==
    {c \in capacity..(capacity + 2 * size) :
        /\ c >= size /\ (c > capacity => c < 2 * size)
        /\ \E k \in 0..size : c = capacity * 2^k}
buffer_file(items) ==
    IF items = <<>> THEN {4 * kBUFFERSIZE}
    ELSE Doubled(4 * kBUFFERSIZE, Len(items) + kBUFFERSIZE + 1)
ensure_capacity(capacity, size) ==
    IF capacity > size + 1 THEN {capacity} ELSE Doubled(capacity, size + 1)

(* A call: the file it reads, the path it left in `parsed', its buffer and *)
(* metadata, the item the scan is at, the search path and the capacity.    *)
CallStartingLate(path, document, search, capacity) ==  \* mutant
    [file |-> path, parsed |-> path, buffer |-> document.items, meta |-> document.meta,
     pos |-> document.meta + 2, search |-> search, capacity |-> capacity]
Call(path, document, search, capacity) ==
    [file |-> path, parsed |-> path, buffer |-> document.items, meta |-> document.meta,
     pos |-> document.meta + 1, search |-> search, capacity |-> capacity]

(* The transcludebase key of the document overrides the search path.  The  *)
(* relative one is found with dirname(), which cuts the file name off the  *)
(* very string that was pushed onto `parsed'.                              *)
Rebased(call, base) ==
    CASE base.kind = "none" -> call
      [] base.kind = "absolute" -> [call EXCEPT !.search = base.name]
      [] base.kind = "relative" -> [call EXCEPT !.search = realpath(DirOf[call.file], base.name, ""),
                                                !.parsed = DirOf[call.file]]
-----------------------------------------------------------------------------
Init ==
    /\ disk \in Disks
    /\ command \in Commands
    /\ \E c \in buffer_file(SourceDocument.items) :
          calls = <<Call(command.source, SourceDocument, NULL, c)>>
    /\ failed = {}
    /\ status = "header"
    /\ accidents = {}

Framing == command.header /\ command.format \notin {"mmd", "outline"}

mmd_add_mmd_header_footer ==
    LET d == SourceDocument
        items == SubSeq(d.items, 1, d.meta) \o d.header
                 \o SubSeq(d.items, d.meta + 1, Len(d.items)) \o d.footer
    IN  /\ status = "header"
        /\ status' = "start"
        /\ IF Framing
           THEN \E c \in ensure_capacity(calls[1].capacity, Len(items)) :
                   calls' = <<[calls[1] EXCEPT !.buffer = items, !.capacity = c]>>
           ELSE UNCHANGED calls
        /\ UNCHANGED <<disk, command, failed, accidents>>

SearchPath == IF command.search \in Dirs THEN command.search
              ELSE IF command.search = NULL /\ command.source # NULL
              THEN DirOf[command.source] ELSE NULL

\* Mutant: nothing asks whether there is a search path
transclude_anyway ==
    /\ status = "start" /\ status' = "scan"
    /\ calls' = <<[calls[1] EXCEPT !.search = SearchPath]>>
    /\ UNCHANGED <<disk, command, failed, accidents>>
(* Without a search path nothing is transcluded.  A relative base needs a  *)
(* source to be relative to: mmd_dirname(NULL) is NULL, its strlen crashes.*)
mmd_transclude ==
    LET base == SourceDocument.base
        lost == base.kind = "relative" /\ command.source = NULL
    IN  /\ status = "start"
        /\ status' = IF SearchPath = NULL THEN "done" ELSE IF lost THEN "crashed" ELSE "scan"
        /\ calls' = IF SearchPath = NULL \/ lost THEN calls
                    ELSE <<Rebased([calls[1] EXCEPT !.search = SearchPath], base)>>
        /\ UNCHANGED <<disk, command, failed, accidents>>
-----------------------------------------------------------------------------
(* mmd_transclude_recursive: the loop over the tokens.                     *)

Depth == Len(calls)
Current == calls[Depth]
Scanning == status = "scan" /\ Current.pos <= Len(Current.buffer)
item == Current.buffer[Current.pos]
IsToken == item.kind \in {"absolute", "relative"}

Extension == CASE command.format = "html" -> ".html"
               [] command.format = "latex" -> ".tex"
               [] command.format = "fodt" -> ".fodt"
               [] OTHER -> ".txt"
PathOf(it, search) ==
    realpath(IF it.kind = "absolute" THEN Root ELSE search, it.stem,
             IF it.ext = ".*" /\ command.format # "mmd" THEN Extension ELSE it.ext)
file_path == PathOf(item, Current.search)
parsedButLast == {calls[i].parsed : i \in 1..(Depth - 1)}  \* mutant
parsedLast == {Current.parsed}                            \* mutant
parsed == {calls[i].parsed : i \in 1..Depth}
BeingRead == {calls[i].file : i \in 1..Depth}

StayThere(calls_) == calls_  \* mutant
Advance(calls_) == [calls_ EXCEPT ![Depth].pos = @ + 1]

StoreOnTop(path) == IF Depth = 1 THEN failed \cup {path} ELSE failed  \* mutant
read_ctx_store_failed_file(path) == failed \cup {path}

\* text_buffer_delete_range(buf, 0, rr->meta_end)
WithMetadata(call) == call.buffer  \* mutant
WithoutMetadata(call) == SubSeq(call.buffer, call.meta + 1, Len(call.buffer))

\* Other text and {{TOC}}
PassOver ==
    /\ Scanning /\ ~IsToken
    /\ calls' = Advance(calls)
    /\ UNCHANGED <<disk, command, failed, status, accidents>>

\* strlen(search_path), when the transcludebase did not exist
NoSearchPath ==
    /\ Scanning /\ item.kind = "relative" /\ Current.search = NULL
    /\ status' = "crashed"
    /\ UNCHANGED <<disk, command, calls, failed, accidents>>

Usable == Scanning /\ IsToken /\ (item.kind = "relative" => Current.search # NULL)

\* The token stays: no such file, already being parsed, or not readable
LeaveToken ==
    /\ Usable
    /\ file_path \in {NULL} \cup parsed \cup Denied
    /\ calls' = Advance(calls)
    /\ failed' = IF file_path \in Denied \ parsed
                 THEN read_ctx_store_failed_file(file_path) ELSE failed
    /\ accidents' = IF file_path \in parsed \ BeingRead
                    THEN accidents \cup {"hidden"} ELSE accidents
    /\ UNCHANGED <<disk, command, status>>

Open ==
    /\ Usable /\ Depth < MaxDepth
    /\ file_path \notin {NULL} \cup parsed \cup Denied
    /\ LET document == Contents(file_path)
       IN  \E c \in buffer_file(document.items) :
              calls' = Append(calls, Rebased(Call(file_path, document, Current.search, c),
                                             document.base))
    /\ accidents' = IF file_path \in BeingRead
                    THEN accidents \cup {"repeated"} ELSE accidents
    /\ UNCHANGED <<disk, command, failed, status>>

(* A call returns: the caller drops the metadata, replaces the token by    *)
(* the text and goes on behind it.  If the caller's buffer grew, realloc   *)
(* may have moved it while `start' still points into the old block: the    *)
(* scan ends there, or reads and writes freed memory.                      *)
Return ==
    LET text == WithoutMetadata(Current)
        caller == calls[Depth - 1]
        buffer == SubSeq(caller.buffer, 1, caller.pos - 1) \o text
                  \o SubSeq(caller.buffer, caller.pos + 1, Len(caller.buffer))
        Resume(capacity, pos) == calls' = Append(SubSeq(calls, 1, Depth - 2),
            [caller EXCEPT !.buffer = buffer, !.capacity = capacity, !.pos = pos])
    IN  /\ status = "scan" /\ Depth > 1 /\ Current.pos > Len(Current.buffer)
        /\ \E c \in ensure_capacity(caller.capacity, Len(buffer)) :
              \/ /\ Resume(c, caller.pos + Len(text))
                 /\ UNCHANGED <<status, accidents>>
              \/ /\ c # caller.capacity
                 /\ Resume(c, Len(buffer) + 1)
                 /\ status' \in {"scan", "crashed"}
                 /\ accidents' = accidents \cup {"moved"}
        /\ UNCHANGED <<disk, command, failed>>

\* The first call returns: the source buffer is transcluded
Done ==
    /\ status = "scan" /\ Depth = 1 /\ Current.pos > Len(Current.buffer)
    /\ status' = "done"
    /\ UNCHANGED <<disk, command, calls, failed, accidents>>

Next == \/ mmd_add_mmd_header_footer \/ mmd_transclude
        \/ PassOver \/ NoSearchPath \/ LeaveToken \/ Open \/ Return \/ Done

Spec == Init /\ [][Next]_vars
FairSpec == Spec /\ WF_vars(Next)
-----------------------------------------------------------------------------
(* Properties.                                                             *)

Calls == [file : Paths \cup {NULL}, parsed : Paths \cup {NULL}, buffer : Seq(Item), meta : Nat,
          pos : Nat, search : Paths \cup {NULL}, capacity : Nat]
TypeOK ==
    /\ disk \in Disks /\ command \in Commands
    /\ calls \in Seq(Calls) \ {<<>>}
    /\ \A i \in 1..Depth : calls[i].meta < calls[i].pos /\ calls[i].pos <= Len(calls[i].buffer) + 1
    /\ failed \subseteq Denied
    /\ status \in {"header", "start", "scan", "done", "crashed"}
    /\ accidents \subseteq {"moved", "repeated", "hidden"}

\* mmd_transclude_recursive: "Prevent infinite loops".  No file is read while
\* the same file is still being read further up.
NoFileInsideItself == \A i, j \in 1..Depth : i # j => calls[i].file # calls[j].file

\* What the search of `parsed' does ensure: below an activation whose path is
\* still whole its file is not read again.
OnlyCutPathsRepeat ==
    \A i, j \in 1..Depth : i < j /\ calls[i].file = calls[j].file =>
        calls[i].parsed # calls[i].file

Documents == {disk.text[f] : f \in Files} \cup {disk.stdin}
NoRelativeBase == \A d \in Documents : d.base.kind # "relative"

\* Without a relative transcludebase the recursion is no deeper than there
\* are files and directories, whatever cycles the tokens make.
DepthBounded == NoRelativeBase => Depth <= Cardinality(Paths) + 1

\* What the call at i takes its search path from is a folder relative to a
\* source that there is not, or one that does not exist.
BaseOf(i) == IF i = 1 THEN SourceDocument.base ELSE Contents(calls[i].file).base
LosesFolder(i) ==
    /\ BaseOf(i).kind = "relative"
    /\ calls[i].file = NULL \/ realpath(DirOf[calls[i].file], BaseOf(i).name, "") = NULL

\* concatenate_paths takes the length of a null path only where a transcludebase,
\* of the document or of one that transcludes it, lost its folder: everywhere
\* else mmd_transclude and the bases in between give a path to search.
OnlyLostFoldersCrash ==
    status = "crashed" /\ "moved" \notin accidents => \E i \in 1..Depth : LosesFolder(i)

\* Why: while tokens are scanned, a call without a search path has lost it to the
\* base of a call from which it has it.
SearchLostByBase ==
    status = "scan" => \A i \in 1..Depth :
        calls[i].search = NULL => \E j \in 1..i : LosesFolder(j)
FolderInv == SearchLostByBase /\ OnlyLostFoldersCrash

\* While a file is being read, the scan of every caller waits at a token: the
\* text that replaces it replaces that token and nothing else.
CallersWaitAtTokens ==
    \A i \in 1..(Depth - 1) : /\ calls[i].pos <= Len(calls[i].buffer)
                               /\ calls[i].buffer[calls[i].pos].kind \in {"absolute", "relative"}

\* Why: the inductive invariant adds that only a relative base cuts paths, and
\* what is known of the first call before the scan.
WholePaths == NoRelativeBase => \A i \in 1..Depth : calls[i].parsed = calls[i].file
Untouched == status \in {"header", "start"} =>
                /\ calls[1].file = command.source /\ calls[1].parsed = command.source
                /\ calls[1].meta = SourceDocument.meta /\ calls[1].pos = calls[1].meta + 1
IInv == TypeOK /\ OnlyCutPathsRepeat /\ CallersWaitAtTokens /\ WholePaths /\ Untouched

\* mmd_transclude returns, for every file system and every cycle of tokens in
\* it, unless a relative transcludebase cuts a path.
TransclusionEnds == NoRelativeBase => <>(status \in {"done", "crashed"})
-----------------------------------------------------------------------------
(* What transclusion should give: every token replaced by the text, without *)
(* metadata, of the file it names, transcluded with that file's own search *)
(* path; tokens that name no readable file, or one being read, stay.       *)

SearchOf(d, path, search) ==
    CASE d.base.kind = "none" -> search
      [] d.base.kind = "absolute" -> d.base.name
      [] d.base.kind = "relative" -> realpath(DirOf[path], d.base.name, "")
BodyOf(d) == SubSeq(d.items, d.meta + 1, Len(d.items))

Expansions == Seq(Item) \X (Paths \cup {NULL}) \X SUBSET (Paths \cup {NULL})

\* The expansion of <<items, search path, files being read>>, and the
\* unreadable files met on the way
Expand[k \in Expansions] ==
    IF k[1] = <<>> THEN [text |-> <<>>, denied |-> {}]
    ELSE LET it == Head(k[1])
             rest == Expand[<<Tail(k[1]), k[2], k[3]>>]
             f == IF it.kind \in {"absolute", "relative"} THEN PathOf(it, k[2]) ELSE NULL
             into == Expand[<<BodyOf(Contents(f)), SearchOf(Contents(f), f, k[2]), k[3] \cup {f}>>]
         IN  IF f \in {NULL} \cup k[3] \cup Denied
             THEN [text |-> <<it>> \o rest.text,
                   denied |-> rest.denied \cup (({f} \cap Denied) \ k[3])]
             ELSE [text |-> into.text \o rest.text, denied |-> into.denied \cup rest.denied]

Expected ==
    LET d == SourceDocument
        framed == IF Framing THEN d.header \o BodyOf(d) \o d.footer ELSE BodyOf(d)
    IN  IF SearchPath = NULL THEN [text |-> framed, denied |-> {}]
        ELSE Expand[<<framed, SearchOf(d, command.source, SearchPath), {command.source}>>]

\* The document mmd_transclude leaves is the expansion of its source, as long
\* as no buffer was moved, no file read inside itself, and no folder taken for
\* a file whose path was cut.
ExpandsLikeReference ==
    status = "done" /\ accidents = {} =>
        /\ WithoutMetadata(calls[1]) = Expected.text
        /\ SubSeq(calls[1].buffer, 1, calls[1].meta) = SubSeq(SourceDocument.items, 1, SourceDocument.meta)

\* failed_file_hash reports exactly the files a token named and that could
\* not be read, however often and from however deep.
UnreadableFilesReported == status = "done" /\ accidents = {} => failed = Expected.denied
=============================================================================
