# A formal model of MultiMarkdown 7

MultiMarkdown 7 turns a text in an extended Markdown syntax into HTML, LaTeX and
other formats.  The program is written in C (`src/src`) and is single-threaded.
What is hard in it is not concurrency but *state that is rewritten in place*: a
chain of tokens becomes a tree while it is being walked, lines are scanned again
inside the chain they belong to, a buffer is edited through offsets computed before
the edit, a list grows while it is written out, one stack and a few counters are
shared by all levels of several mutual recursions.  These TLA+ modules model that state and those steps, check them with
TLC on small instances, and prove the central invariants for all instances with the
TLA+ proof system.

## 1. The system

`mmd_process_*` (`mmd_core.c`) gets a source text into a `text_buffer` and runs

    source -> header/footer -> transclusion -> CriticMarkup accept / reject
           -> line scanner -> block parser -> (tokenizer -> span parser per block)
           -> exporter

A `read_ctx` is handed to every step; it holds flags that the steps set for one
another (`allow_meta`, `is_definition`, `is_endnote`), the shared stack of openers,
and everything the document defines (links, notes, headers, metadata, tags, files
that could not be read).

| component | state | operations | modelled |
|---|---|---|---|
| pipeline `mmd_core.c`, `main.c` | options, source and output buffers | `mmd_process_buffer_core` and its callers | where the source comes from, in `Transclusion` |
| transclusion `transclude.c` | the buffer, the stack `parsed`, `start`/`stop` pointers, `search_path` | `mmd_add_mmd_header_footer`, `mmd_transclude`, `mmd_transclude_recursive` | `Transclusion` |
| CriticMarkup `criticmarkup.c` | the buffer, a token tree, `delta` | `criticmarkup_accept`, `criticmarkup_reject` and their tree walks | `CriticMarkup` |
| line scanner, token scanner (re2c) | position in the text | `mmd_line_scan`, `mmd_token_scan` | no: the models start from the types they assign |
| block parser `mmd_parser_hand_2.c` | chain of lines, tree of blocks, flags in `read_ctx` | `block`, `blocks`, the `block_*` functions, three recursive parses, `doc` | `BlockParser` |
| tokenizer `mmd_tokenizer.c` | position, two tokens of look-ahead | `mmd_tokenizer_accept_token` | hiding of markers, in `BlockParser` |
| span parser `mmd_span_parser.c`, `mmd_node.c` | chain of tokens, `token_pair_stack`, counters per activation | `analyze_token_chain`, `token_closes`, `token_opens`, `pair_emphasis_tokens` | `TokenPairing` |
| reading context `read_ctx.c` | hashes and stacks of definitions | `read_ctx_store_*`, `read_ctx_get_*` | the flags and `failed_file_hash` with the parts that set them; `header_stack` and the notes as what `Contents` and `Endnotes` start from; links, metadata and tags are not |
| containers: `mmd_node_pool.c`, `stack.c`, `vector_line_node.c`, `text_buffer.c` | slabs, arrays, sizes, capacities | allocate, drain, push, pop, insert, delete | the node pool in `NodePool`; text buffers where they are edited; the growth of stacks and vectors is not |
| abbreviations, glossary `aho-corasick.c`, `global_search` | a trie with failure links; the chain that is split while it is searched | `ac_insert`, `ac_prepare`, `ac_search`, `search_text`, `recursive_search` | `TermSearch` |
| contents and outline `toc_node.c`, `export/html.c`, `export/outline.c`, `import/outline.c` | a counter shared by a recursion over the headers; two buffers of the import | `extract_toc_entry`, `export_toc_entry`, `export_outline_outline`, `mmd_import_outline` | `Contents` |
| exporters `export/*.c` | stacks of used notes, the paragraph counter, a few flags | one function per node type | footnotes, glossary and citations of HTML in `Endnotes`; formatting is not |
| archives, assets, HTML importer, options | files, zip archives, XML events | | no: input and output, vendored code |

Interactions: `blocks()` calls the tokenizer and the span parser for every block as
soon as its lines are collected, so that the flags of `read_ctx` at that moment
decide how its text is tokenized.  The span parser's three passes run one after the
other over the same nodes.  CriticMarkup uses the span parser's pairing on a chain
of its own.  Transclusion calls itself for each file, and inserts what the call
returns into the caller's buffer.  When the tree is complete, `global_search` splits
its text nodes at abbreviations and glossary terms.  An exporter then walks the tree;
its functions for references fill the stacks of used notes, and its functions
for the sections at the end of the page read them.  All nodes, those of the tables of
contents too, come from one pool, which is drained for all documents at once.

What makes each part correct:

* *span parser*: no token is lost or met twice; the tree has no cycle; a closer is
  paired exactly when the rules allow it; counters agree with the shared stack.
* *block parser*: every line is in one block, in order; the tree has a shape the
  exporters can walk; the flags say what the parser is inside of; all text is
  tokenized; it ends.
* *CriticMarkup*: exactly the bytes that belong to the accepted or rejected side
  remain.
* *transclusion*: the result is the recursive expansion of the tokens; cycles end;
  unreadable files are reported.
* *term search*: what the trie finds is what the definitions of the two kinds of search
  say, whatever the terms have in common; the nodes split off are these terms.
* *endnotes*: a number belongs to one note; each note that was referred to has one entry;
  links in both directions meet.
* *contents*: every header is listed once, below the header it belongs to; text
  survives the way into an outline and back.
* *node pool*: no node is handed out twice or in memory that was freed.

`PROJECT.json` lists under "hazards" the places in the code where this can go wrong.

## 2. The modules

| module | content |
|---|---|
| `TokenPairing` | the span parser's pairing: state, actions, properties |
| `TokenPairingProofs` | its inductive invariants, of the stack and of the tree, proved |
| `CriticMarkup` | extends `TokenPairing`: scan, pair, then edit the buffer |
| `CriticMarkupProofs` | the shape of the pairs, where the walk stands, and what is left of the text, proved |
| `Transclusion` | header and footer, transclusion, its recursion and its buffers; the reference expansion |
| `TransclusionProofs` | its inductive invariant, the bound on the recursion, and that the result is the reference expansion, proved |
| `BlockParser` | the block parser |
| `LineReader` | the abstract specification that `BlockParser` implements |
| `BlockParserProofs` | its inductive invariant, that it implements `LineReader` safely, that `is_definition` and `is_endnote` are right, and the shape of the tree with its tokens and hidden markers, proved |
| `TermSearch` | the trie, the search, and the splitting of a text node |
| `TermSearchProofs` | what the trie finds, and what its matches do to the text node, proved |
| `Endnotes` | numbering and export of footnotes, glossary and citations |
| `EndnotesProofs` | that numbers and notes correspond, proved |
| `Contents` | the three walks over the headers, the outline and its import |
| `ContentsProofs` | the shape of the contents, proved |
| `NodePool` | slabs and nodes |
| `NodeAllocator` | the abstract specification that `NodePool` implements |
| `NodePoolProofs` | its invariant and the refinement, proved |
| `MCTokenPairing`, `MCCriticMarkup`, `MCTransclusion`, `MCBlockParser`, `MCTermSearch`, `MCEndnotes`, `MCContents` | instances for TLC |

The definitions keep the names of the C functions they model.  Operators marked
"mutant" are deliberately wrong variants of the definition behind them; each is what
one property is meant to catch, and no specification uses them.

### TokenPairing

A block's text is a sequence `src` of token kinds.  Token k is node 2k; node 2k+1 is
the one that `mmd_node_split`, or a superscript without a mate, may allocate behind
it; 0 is NULL.  `type`, `len`, `next`, `child`, `tail` are the fields of
`mmd_node`, `stack` is `read_ctx.token_pair_stack`, and `frames` holds the local
variables of each activation of `analyze_token_chain`: the node it is at, the
previous node, `stack_start` and the array of counters.  One action visits one node
(`VisitOpener`, `VisitCloser`, `VisitBacktick`, `VisitCloseOrOpen`, `VisitEmphasis`,
`VisitSuperscript`, ...), including everything `token_closes` or `token_opens` does
to the chain; `Descend`, `Skip`, `Return` and `NextPass` move between activations and
passes; `pair_emphasis_tokens` runs step by step because it calls itself.  `len` is
a `size_t`: lengths are taken modulo `SizeRange`.  The whitespace a line starts with
is part of the text but no token (`Indentation`).

The module was compared with the compiled program: for 59,000 random texts of up to
twelve tokens over all kinds, the final tree (nodes, types, nesting, lengths modulo
`SizeRange`) is the one `multimarkdown ast` prints.

Left out: a few kinds of token that are treated like others (CriticMarkup kinds stand
for all the rest of the first pass's pairs; angles and braces go like brackets;
single quotes and apostrophes, inline footnotes, math parentheses, and subscripts,
which are treated as superscripts are), and compatibility mode.

### CriticMarkup

`criticmarkup_tokenize` is `TokenPairing`'s first pass over a chain of CriticMarkup
tokens.  Then `walk` holds the activations of `accept_token_tree` and
`reject_token_tree`; each `Erase...` action is a call of `text_buffer_delete_range` at
`start - delta`.  A byte of the buffer is named by its offset in the original text,
so that what remains can be compared with what should.

For 24,346 documents the text that `multimarkdown parse -t mmd -A` or `-R` prints is the
one the module ends with.

### Transclusion

A file is a sequence of items (tokens and pieces of other text), of which the first
`meta` are metadata.  `calls` are the activations of `mmd_transclude_recursive`:
file, `parsed` entry, buffer, position, search path, capacity.  `Open` reads a file
and calls, `Return` removes the metadata and replaces the token in the caller's
buffer, `LeaveToken` is every way to `finish_match` without reading, `PassOver` what
is no file token.  The file system (`realpath`) is external, with the behaviour of
POSIX and glibc (`dirname` writes into its argument; `fopen` succeeds on a folder).
If `text_buffer_replace_range` has to grow the buffer, it may have moved: the scan
then continues behind the text inserted or at the end of the buffer, and
`accidents` remembers it ("moved").  It also remembers when `dirname` has cut a path in
`parsed` and so a file was read inside itself ("repeated"), or a token that names the folder
that is left of the path was taken for one of a file being read ("hidden").  Null pointers
handed to `strlen` lead to the state "crashed".

`Expand` is the reference: what a text gives, by recursion over the files not yet being
read and the items of the text, with the unreadable files met on the way.

All 8,631 file systems and command lines of the run were also laid out on a disk and given to
the compiled functions: text, unreadable file and crash agree wherever no buffer moves.

### BlockParser

A document is a sequence of lines, and a line the sequence of its markers with what
stands behind them, e.g. `<<"blockquote", "bullet", "plain">>`.  `type` and `stripped`
are what the line scanner last said of the line, and how much of its prefix
`c_start` has passed.  `tree` is the tree of blocks in preorder; `frames` are the
activations of `blocks()`, with the list, definition list or table they are in the middle
of.  One action is one block without children, or the entry into one with children
(`block_blockquote`, `block_list_item`, `block_definition`,
`block_endnote_definition`), which rescans its lines as the recursive parses do;
`Return` is the end of `blocks()`.  `tokens` says of a block whether its text was
tokenized, and whether a stripped marker was "exposed", that is, became text.

Types that the parser treats alike are one: the six ATX levels, the two indentations, the
three kinds of notes, fences of four and five.  Left out: compatibility mode,
`blocks_only` (used for metadata and outlines), `block_check` (labels, captions).
The search for terms is a module of its own.

The module was compared with the compiled program: for all 81,399 documents of up to
three lines over 43 line shapes, and for 21,911 longer random ones, the model's final
tree and the output of `multimarkdown -t ast` agree on every block, its depth and its
lines, and on which blocks show a stripped marker (61,000 documents; table rows apart).

`LineReader` says what a reader of blocks may rely on: lines go from "unread" to "in
a block" or "lost", in order and without gaps, never back, until none is
unread.  `ReadsLinesInOrder` states that `BlockParser` implements it, with
`place` computed from the tree and the lines dropped.

### TermSearch

A state of the trie is the word that leads to it, so that `trie` maps words to their
type and `ac_fail`; `<<>>` is the root.  The action `ac_insert` is one term,
`ac_prepare` all failure links, `ac_search` one character.  An empty term changes nothing,
as in `ac_insert`.  `SplitMatch` and
`SkipMatch` are one turn of the loop of `search_text`, which splits the node at one match;
`Visit`, `PassOver` and `SplitEnd` walk along the chain as `recursive_search` does: over
the pieces too that a split has just put behind the node, which are searched again.  A null node that is dereferenced leads to the stage "crashed".

The module was compared with the compiled functions on 103,680 searches, and with
`multimarkdown` on 500 documents.

Left out: the descent of `recursive_search` into children, which starts the same walk
on another chain, and the kinds of nodes it does not enter.

### Endnotes

A document is a table of definitions and a table of references; a reference knows
what is inside it (the text of an inline note, or the locator of a citation).
`defs` are the `endnote_def` records, to which inline notes are added as they are met;
`used_stack` the three stacks; `todo` what is left to export of the document or of the
entry that is being written; `out` the anchors, links, entries and ways back that
were printed, without the text between them.  `ReferToDefined` and `ReferInline` are one
reference, with the functions of `export_core.c` that find or make its note, number it and push it.
`EndPara` places the way back by counting down `endnote_return_para_counter`, which starts at
the number of paragraphs at the top level of the entry (`ParasOf`).  The caption of a table is one of
them, but it is written inside the table and its paragraph is passed over (`skip_blocks`), so
`Content` does not have it: the count does not come to 0 unless nested paragraphs make up for it.
`Target` says for which note a reference is taken: `md_id_from_text` uses the last brackets
anywhere in a text.
`BeginEntry` reads the size of the stack anew for each entry, as the loop of
`export_html_endnote_section` does, so that the section may grow while it is written.

The module was compared with the compiled program on 4,500 documents: numbers,
anchors, entries and ways back agree.

Left out: random note ids (`--random`), the keys of `;` citations in running text, and the titles
of inline glossary entries that contain references.

### Contents

A document is its headers and the pieces of text between them.  `walk` says which of
three functions runs: `extract_toc_entry` of the API, `export_toc_entry` of an HTML page
with its range of levels, or `export_outline_outline`.  `counter` is the variable they
pass by reference; `calls` are their activations; one action is one turn of the loop
(`List`, `Ignore`), the return with its step back (`Leave`) or the return at the end
(`Exhaust`).  For the outline, `ReadTopic` then reads the topics as `mmd_import_outline`
does, with its two buffers for metadata and text.

The module was compared with the compiled functions on 2,400 documents.

Left out: the zip archive around ITMZ, and OPML that another program wrote.

### NodePool

`slabs` is the stack of slabs, `next` and `end` are the two pointers into the last.  An
address is counted in nodes.  `calloc` returns any free block, also memory that was
freed before or that lies directly behind another slab, or nothing at all.
The three `Allocate...` actions are the outcomes of `mmd_node_pool_allocate`;
`mmd_node_pool_drain` may come at any time.
`NodeAllocator` says what the parser relies on: a node that it does not have yet, or none.

## 3. What TLC checks

| run | distinct states | shows |
|---|---|---|
| `pairing` | 171,695 | counters are exact at every depth; the tree holds all tokens, and tails are last; every pairable pair is paired; a failed close costs no opener; ends |
| `critic_edit` | 145,195 | stale offsets are corrected; accept gives the new text; reject gives the old one if changes are flat |
| `transclusion` | 48,664 | the result is the reference expansion; unreadable files are reported; only cut paths repeat; depth; null paths come from lost folders only; ends |
| `blocks` | 172,038 | every line is in one block, but for notes that cannot be read; flags; nothing but what it is in comes before metadata; text tokenized; shape of the tree; refinement of `LineReader`, which includes that it ends |
| `terms` | 1,239,835 | the trie finds every occurrence; for terms that are not part of one another the parser's search is the scan from the left; flagged nodes are terms; ends |
| `endnotes` | 506,272 | numbers are places; a section has one entry for each note referred to before its end; an entry has one way back, unless it has no paragraph at its top level or a captioned table there, and it meets the first link; ends |
| `contents` | 450,302 | headers are listed once, below the right one; an outline comes back with all its text; ends |
| `pool` | 708 | nodes fill the slabs; refinement of `NodeAllocator` |
| `critic_reject_nested`, `transclusion_cycle`, `terms_overlap`, `outline_round_trip` | | counterexamples, see below |

Every property of a passing run has a mutant that TLC finds to violate it.

Bounds, and why they are enough:

* `pairing`: all sequences of up to five tokens (four for larger alphabets) over
  alphabets that bring together kinds whose rules interact.  Five tokens are an
  opener, something that discards it, its closer, and a neighbour on either side, which
  is as far as the rules look.
  The scanner's merging of neighbours is respected.  `SizeRange` is 16, above any
  length that does not wrap.
* `critic_edit`: three tokens of any kind, five of the kinds that share a divider or
  nest: enough for two edits around a third, so that `delta` has to be right twice.
* `transclusion`: three readable files and one that is not, with every pattern of up to
  two tokens each, in two folders, four kinds of base, with and without metadata,
  header, footer, search folder and source.  Two files make every kind of cycle, the third lies
  in another folder.  `MaxDepth` (9) bounds the recursion in the guards of
  `Open`; without a relative base it is never reached, as `DepthBounded` shows
  (7 paths and the source).  `kBUFFERSIZE` is 2, so that insertions cross it.
* `blocks`: every pair of 41 line shapes, and documents of up to 4, 5 or 6 lines for
  lists, definitions, notes, tables and code, and every container in every other one.  Five
  lines are needed for an item, its tail behind an empty line and a sibling;
  six for a table of two sections behind an empty line.
* `terms`: every two terms of up to three letters (none of them included), or of two words, and every text of
  five characters that begins with a letter.  Two terms share prefixes, suffixes and inner
  parts in every way; five characters hold a match, a failed beginning and what overlaps it.
* `endnotes`: a definition of each kind and three references at all places: in the document, in a
  definition, inside another reference; cited, not cited, as a locator or inline.  Three references
  are a chain through all sections, or one backwards.  Six shapes of an entry's paragraphs, nested ones and captions included.
* `contents`: up to four headers of three levels, in the document, in a quote or in a list, three
  ranges of levels.  Four headers descend twice and come back, with a level skipped or
  an invalid header at any place.
* `pool`: nine nodes of memory and a first slab of one: slabs of 1, 2 and 4, or several
  generations of them with drains between, at all addresses.

Fairness: every specification that is used for liveness has `WF_vars(Next)`.  The
program is one thread that executes its next statement; it may not stop between two
of them.  No step is fairer than another.  `CriticMarkup` and `NodePool` are checked for
safety only.  `CHECK_DEADLOCK FALSE` stands where the program ends; the pool never does.

### Counterexamples: where the code and what is said of it differ

1. `critic_reject_nested`: `-R` accepts what is nested in a change
   (`criticmarkup.c:181, 196, 218`), while `docs/user.md:672` promises the original document.
2. `transclusion_cycle`: `dirname` cuts the path on the stack that prevents cycles
   (`transclude.c:220`), and a file is read inside itself.
3. `terms_overlap`: `AC_LEFTMOST` should "prevent overlapping matches" (`aho-corasick.h:68`),
   but `ac_search` never looks at it (`aho-corasick.c:418`): if a term is inside another, matches
   overlap and are out of order.
4. `outline_round_trip`: an outline "allows you to round trip" (`docs/user.md:416-417`), but if the
   first header is in a quotation, the preamble is the whole text (`export/outline.c:260`),
   and the text comes back twice.

All of them were reproduced with the compiled program.  The properties of the passing
runs state what does hold around them: `RejectOfFlatChanges`, `OnlyCutPathsRepeat`,
`ExpandsLikeReference`, `OutlineKeepsText`,
`ScansFromTheLeft` and `FlagsTheTerms` without `NestedTerms`.

### Observations without a run

The models behave as the program does in the following places too, and the properties
except what they must.

* `TokenPairing`: a pair of stars "waits until we finish the run" (`mmd_span_parser.c:941`)
  and is forgotten: `*a***b***` gives `<em>a</em>**b***`.  The loop at
  `mmd_span_parser.c:804` runs beyond the first child of a code span; its unsigned length wraps.
* `TokenPairing`: a closer of a superscript pops openers before it is known to find one
  (`mmd_span_parser.c:366`), which `FailedCloseKeepsOpeners` leaves out.
* `Transclusion`: a relative transcludebase that does not exist leaves no search path, and
  `strlen` is applied to it (`transclude.c:254`).  Without a source path its folder is a null pointer already
  (`transclude.c:221`): a text from stdin with `-r` crashes the program, though the paths
  "can be nil to disable" transclusion (`libMultiMarkdown7.h:89`).  `OnlyLostFoldersCrash` says
  that there is no other way to a null path.  If an insertion makes the buffer move, the search
  for tokens goes on in the block that `realloc` gave up (`transclude.c:317`): tokens stay, or the
  program crashes.  `ExpandsLikeReference` leaves this out, and it alone was not reproduced.
* `CriticMarkup`: of a substitution without its end, half is applied (`criticmarkup.c:142`).
* `BlockParser`: a quote, item, note or definition at the start of a document may begin with metadata too
  (`mmd_parser_hand_2.c:1333`): of the lines `Apple` and `: color: red` the second is lost as metadata, and
  the document is a complete one.  `MetadataComesFirst` says what may stand before it.  Behind a
  definition with a definition list in it the colon of the next one is printed
  (`mmd_span_parser.c:1101`), and the rows of a table in a quotation are tokenized with its marker
  (`mmd_span_parser.c:1195`); the theorem `MarkersAreHidden` (`MarkersHidden`) leaves
  out these two cases alone.  Further, a table
  of three or more sections gets an extra row in its header
  (`mmd_parser_hand_2.c:974`, `mmd_span_parser.c:1239`); notes behind a marker lose their
  text; a note defined in a note is never tokenized; nothing limits the recursion but the
  markers of a line.
* `TermSearch`: with overlapping terms, `search_text` flags a wrong node or dereferences
  a null one (`mmd_parser_hand_2.c:1515`).  A term need not start where a word does, and it
  may end where the next match begins.
* `Endnotes`: a note that is first referred to by an entry of a later section has a number but no
  entry.  An inline note with a reference of its own kind in its text is taken
  for the note referred to by the last of these, and its text is lost.  `[see [#foo]][#foo]` prints an anchor twice; a
  note that was first referred to as not cited has a way back to no anchor; an entry without
  a paragraph at its top level, or with a captioned table (`html.c:1472`), has no way back, and a
  nested paragraph may get it.
* `Contents`: the range of a header in a list starts at 0; levels that were skipped
  change when an outline is imported; `{{TOC:2-3}}` gives entries
  parents that depend on the headers left out; the page's table lists quoted
  headers, the API's does not.
* `NodePool`: the slab size is not reset by a drain.

## 4. What is proved

Each proof goes action by action; the statement names the constants it is for.

`TokenPairingProofs`, for every set of texts and every `SizeRange` > 3:

* `IInv == TypeOK /\ LinksGoForward /\ ActivationsNest /\ StackOrdered /\ OpenersExact`
  is inductive (`Invariance`).  None of its parts is inductive alone: a counter can only
  be right if the activation's segment of the stack is where it should be; the segments
  are in order because the nodes that activations are at lie behind all nodes stacked below
  (`ActivationsNest`); and that a step leads to a later node is `LinksGoForward`,
  which needs the types of the references.
* From it: `TypeCorrect`, `CountersExact`, `SharedStackOrdered`, `TreeHasNoCycle`.
  `token_closes` is dealt with once, in the lemmas on
  `Join` and `Left`, and counting in lemmas on cardinalities of intervals.
* `FailedCloseKeeps`, also from it: a counter above 0 means that an opener of the closing
  token's kind is on the stack, so where `token_closes` begins to pop it finds one, and
  pairing changes that opener's type.
* `TreeIsWhole`, the property `TreeHoldsText`, needs a second invariant.
  `TInv == IInv /\ (\A m : Fits(m)) /\ (\E par : Shaped(par) /\ Placed(par) /\ Complete(par))`
  (`ShapeInvariance`) says that the allocated nodes have parents
  such that they are numbered in the order of a walk, `child` is the first and its `tail` the last
  node with that parent, and `next` the next one (`Shaped`); that every activation walks the
  children of the node that the one above it is at, and its openers are on that chain
  (`Placed`); and that types go with the tokens they were made from (`Fits`).
  The nodes have no pointer to their parent, so the invariant only claims that parents exist,
  and each step's proof says what they become.
    * The tree: `AdoptKeeps`, `SplitKeeps` and `LeafKeeps` are lemmas about any tree,
      on what closing a pair, splitting off a marker and adding a leaf do to it.
      `JoinShapes`, `CodeSpanShapes` and `StandaloneShapes` show that the code does just these.
      A marker is cut from the token behind the opening bracket only because that is the next node of
      the chain, which `Fits` and the numbering give (`MarkerPlace`).
    * The activations: what a step rebuilds lies behind the opener, and the nodes that the callers
      are at lie in front of it (`CallersInFront`, `SettlePlaces`), so rewriting the
      chain that a caller is suspended in never takes its place away.
    * From the shape to the walk: `Rest` is what follows a node in a walk, and `RestSplits` says that it
      is the node, what follows its child and what follows its next node, in this order. The walk is a
      recursive function over nodes whose links lead forward; that its value lists `Rest`
      (`WalkLists`) follows by taking the greatest node for which it does not.
* `PairsAreMaximal`, the property `PairingIsMaximal`, is from the last part of `TInv`.  `Pending` is
  what the activations have not visited yet: what follows, in a walk, the nodes they visit next.
  `Complete` says that a closing token that was visited behind an opener of its
  kind is paired (`Maximal`), and, because that is not inductive, that an opener that was visited
  and whose chain is walked is still on the stack (`Stacked`).  In passes 1 and 3 a visit
  pops only what it puts into the pair it makes, and so into a chain that the pass no longer walks; and where an
  opener is on the stack the exact counter makes `token_closes` look for it.  That a pair whose
  children are not walked is made in the pass that goes on (`Entered`) is needed for the pairs of
  one pass not to hide tokens that the next one should pair: CriticMarkup pairs are all entered.
    * `Serves` is what a visit has to do for that, shown for each kind of visit (`PassServes`,
      `UnpairedServes`, `PairedServes`, `LeafServes`) from the tables of rules (`TableFacts`).
    * `VisitPending`: a visit takes one node off what is pending, though it moves nodes into
      a pair: these all lie in front of it (`RestStays`, `CallersAhead`).

`CriticMarkupProofs`, for every document of CriticMarkup tokens (`CriticInputs`:
`criticmarkup_token_scan` knows no others), to accept and to reject:

* `CMInv == TInv /\ FirstPass /\ WalkInv` is inductive, with `TInv` of `TokenPairingProofs`.
* `FirstPass`, of the tokens while they are paired: nothing but pairs of CriticMarkup is made, each from
  its own opener and closer, and no length changes, so a node of the tree still has the bytes
  of its token.  `SumFacts` says of `Start` that it is the sum of the lengths before it.
* `Shape`, of the tokens once they are paired: pairs nest, `child` and `next` lead to the token that
  follows, the end of a chain stands before its closer, and only a substitution's
  divider both closes and opens.  It is derived from the tree of `TInv` (`ShapeHolds`).
* `WalkInv`, of the walk and the buffer: an activation stands on the chain
  between the opener and the closer that its caller waits at (`Stands`, `Inside`).  The walk comes to a
  closer by itself only after old text or an accepted deletion (`Arrived`), and nothing that
  goes has begun before the place of the walk without being over (`Clear`).  Bytes before that
  place are those that must stay, bytes from there on are untouched (`Edited`, `Laid`).
    * A deletion that is accepted is erased with its closer, and the walk then stands at that
      closer, which is not in the buffer any more: `Place` is therefore behind it (`Late`).
    * Of a document with a change inside a deletion, an old text or a highlight only `Laid` is
      claimed while it is rejected: the walk descends with `accept_token_tree` there.
      So `Typing` and `FindsTheNode` hold for all documents, and what remains
      (`RejectedText`) for those where the code does what is said of it (`Faithful`).
* Each step has its lemma (`EraseOpenerWorks`, `EraseAllWorks`, ...): what it cuts from the
  buffer is what must go (`CutErase`), what it passes must stay (`CutKeep`), and the
  activations stand where they should (`WorkIsEdit`).
* From it: `Typing`, `FindsTheNode`, `AcceptedText`, `RejectedText`.

`TransclusionProofs`, for every file system and command line that satisfy
`DiskAssumption`, and every buffer size:

* `IInv == TypeOK /\ OnlyCutPathsRepeat /\ CallersWaitAtTokens /\ WholePaths /\ Untouched`
  is inductive.  `WholePaths` adds that without a relative base every
  entry of `parsed` is the path of its file; `Untouched` describes the first call before the scan.
* From it: `TypeCorrect`, `FilesRepeatOnlyBelowCutPaths`, `ReplacementHitsTheToken`,
  and `RecursionBounded`: with finitely many paths the recursion is no deeper than there
  are paths, because distinct activations then have distinct files (a pigeonhole argument
  on an injection into `Paths`).
* `ExpansionInv`, inductive relative to `IInv`, is about the result.  `Fulfils` says of every activation
  that the text it has passed, followed by the expansion of what is ahead of it, is the expansion that its
  caller is waiting for, and that the unreadable files to come and those reported make up
  what is due; `Named`, that it reads the file that the token of its caller names, with the search
  path that goes with it.  So a step over an item moves it from what is ahead to
  what is passed, and a return puts what the caller was waiting for where its token was.
* That needs `Expand` to satisfy its equation, which is proved first (`ExpandFacts`): each expansion
  refers to ones with fewer files left to read, or as many and fewer items (`PartsComeBefore`), so
  with finitely many paths it can be put together from parts that agree (`PartsAgree`, `PartExists`).
* `FolderInv`, inductive relative to `IInv`, adds to `OnlyLostFoldersCrash` that while tokens are
  scanned, a call without a search path has one at or above it whose relative base lost it
  (`SearchLostByBase`): a call has the search path of its caller or of its own base.  From it:
  `CrashesOnLostFolders`.
* From `ExpansionInv`: `ExpandsAsDefined`, `ReportsUnreadable`.  The first attempt showed that `ExpandsLikeReference`
  was false as it stood: behind a relative transcludebase a token that names the folder of the file
  is left though nothing of that name is being read.  Disks where that happens (`HidingDisks`) are now
  among those of `MCTransclusion`, `accidents` tells these cases, and the property leaves them out
  as it leaves out the other effect of the cut path.  `DiskAssumption` says that the source itself can
  be read: `mmd_process_filename` has opened it before anything else.

`BlockParserProofs`, for every set of documents whose lines satisfy
`DocumentsAssumption`:

* `IInv == Types /\ MarkersLeft /\ Nested /\ Rooted /\ InTable /\ OneNote /\ Bounded /\
  PlacedOnce /\ OnlyUnreadableNotesAreLost` is inductive.  `LinesPlaced` is not: it says
  nothing of an inner activation whose caller goes on behind its lines.  `PlacedOnce` with
  `Nested` says which lines each activation is responsible for.  That the recursion
  ends (`Bounded`) is `MarkersLeft`: each call strips a marker from its lines.
* The actions fall into those that do not recurse (`GoOnOK`), those that call `blocks()`
  (`EnterOK`), its end (`ReturnOK`) and that of `doc()` (`DocOK`).  `Forward` is what any step does to the
  place of a line.
* From it: `TypeCorrect`, `LinesAreKept`, and `ImplementsReader`: the initial states of
  `LineReader` and its steps, or none.  Its fairness is left to TLC.

* `FInv == AllAnchored /\ InnerIsDeeper /\ InDefinitions /\ Counted` is inductive relative to
  that `IInv`.  At the end of a definition list `is_definition` is set to 0, so it is only right
  if no definition is being read then, or if that list is inside of another one.  To find the
  other one, `AllAnchored` says where in the tree is the list that each activation reads, and
  that all nodes behind it are in it; a definition is read for such an activation
  (`InDefinitions`), and inner activations make deeper nodes (`InnerIsDeeper`).
* From it, with `OneNote`: `FlagsAreRight`.

* `TInv == Fitting /\ AllStand /\ AllParted /\ Inside`, inductive relative to `IInv` and `FInv`.
  `Fitting` is the shape that is wanted: each node has a parent that may have it.  An activation
  knows its depth and no parent, so `AllStand` says which node its blocks go below (an open
  quote, item, definition or note), `AllParted` which node the parts of its list or table go below,
  and `Inside` how the depths and lines of one activation lie in those of its caller.
  That a tight item has no empty line among its blocks is decided before they are known: `AllStand`
  adds that the lines to come in such an item are not empty, unless a marker was stripped
  from them, and `Inside` that what lies behind an activation's lines is empty, and so
  goes to the parent when it returns.
* `KInv == AllTold /\ AllHidden /\ Claimed /\ FirstTerms`, inductive relative to all of them.
  A text without tokens belongs to a definition list that an activation has yet to end
  (`AllTold`), and a line that lost a colon to the lines of a definition (`Claimed`).
  So where a colon is shown `is_definition` was 0 in a definition, and `Counted` of `FInv` gives the
  nested list.  The first term of a list is tokenized after its definitions have returned:
  `FirstTerms` keeps what its line was inside of until then.
* From them: `TreeIsShaped`, `TextIsTokenized`, `MarkersAreHidden`.

`EndnotesProofs`, for every set of documents whose references resolve:

* `IInv == TypeOK /\ NumbersArePlaces /\ Resolves` is inductive.  `Resolves` says that what
  is left to export refers to references and definitions that exist; without it a
  number could be looked up for a note that is none.
* From it: `TypeCorrect`, `NotesAreNumbered`.
* `XInv`, inductive relative to `IInv`, says where everything is that the export owes.
  `SectionsSoFar`: a section that has ended has one entry for each note up to its last, in the
  order of their numbers; the one that is written has those up to `i`; the later ones have none.
  `ReturnsSoFar`: of the entries that must have a way back (`HasWay`), one that has ended has it, and
  the one that is written has it or has as many paragraphs left as
  `endnote_return_para_counter` still counts down; no entry has two.
  `AnchorsSoFar`: a note with a number has one anchor, before every link to it, and either it is
  `used` or the item that will mark it so is in `todo` before every reference to it.  This last
  part is what a locator makes hard: between a citation and the end of its locator the note has a
  number and an anchor but is not yet `used`, so that a reference in the locator would write another anchor.
* From it: `SectionsAreComplete`, `WaysLeadBack`.  The first attempt to prove `WaysBack` failed,
  because it was false: it let an inline citation that is not cited, and whose text has a
  reference, owe an anchor that the note referred to never has.  Documents with such a
  citation are now among those of `MCEndnotes`, and `NotedUncited` looks at the note that
  a reference is taken for (`Target`), not at the one it names.

`ContentsProofs`, for every set of header sequences and ranges:

* `IInv == Types /\ Counted /\ Nested /\ Deeper /\ Flat /\ InOrder /\ EntriesRight` is
  inductive.  Each call lists the children of a header that the call before it listed
  (`Nested`), everything listed behind that header is deeper (`Deeper`), and what a call
  has listed so far is nowhere lower than what it lists next (`Flat`): so the header whose
  children the innermost call lists is the nearest lower one.  `Counted` bounds how far the counter may run past the end: once per call.
* From it: `TypeCorrect`, `HeadersListedOnce`, `RangesAreCovered`.
* For the outline, `XInv == IInv /\ Unread /\ Importing`: while the topics are read, `Importing`
  says which pieces the metadata buffer and the text buffer hold after so many topics.  With
  the entries' ranges as `EntriesRight` gives them this is `OutlineIsKept`.

`TermSearchProofs`, for every set of characters, terms and texts (`DictionariesAssumption`,
`TextsAssumption`, `ModesAssumption`: terms and texts are made of the characters, a term is an
abbreviation or a glossary term, and the options are none or those of the parser):

* `IInv == Given /\ Stored /\ Linked /\ Chained(chain) /\ Positions` is inductive.  `Stored` says
  that the states are exactly the beginnings of the terms inserted, and a match has the type of the last
  insertion; `Linked`, that a failure link is a proper end of its state and, once it is prepared,
  the longest that `trie_node_prepare` may take; `Chained`, that the nodes cover the text;
  `Positions`, that the state is what was just read and the matches are occurrences of terms.
* The values of the search's recursive functions are never computed: each function is shown to satisfy its
  equation, since links lead to shorter states (`FollowedExists`), and then what
  it returns is shown by taking a shortest state for which it would not (`FallenFacts`, `EndingFacts`).
* From it: `Typing`, and by three more invariants relative to it:
    * `FindsAllTerms`, from `AllRead`: the state is the longest one that ends at the position (`Longest`),
      and the matches are all occurrences that end up to there (`Listed`), in order (`Sorted`).
    * `FlagsTerms`, from `Marks`: matches are disjoint because the state begins behind the last one or where
      that one begins (`Spaced`); the matches left lie in the node that is split next (`Ahead`), so that
      no split leaves its node; and the node of a flagged piece ended where the next one begins
      or the text ends (`Flagging`, `Bounded`).
    * `ScansLeftToRight`, from `FromTheLeft`: each match is the only occurrence at its beginning, and none
      is passed over between two of them (`Greedy`), though the search never goes back: of the
      open states, those that are no match, a link loses none (`OpenStatesClosed`).
      Such a list is what `Scan` finds (`GreedyIsScan`).

`NodePoolProofs`, for every size of memory and of the first slab:

* `IInv == TypeOK /\ NodesFillSlabs` is inductive: disjoint slabs, of which only the
  last is not used up, make the next node a new one.
* From it: `TypeCorrect`, `NodesAreInSlabs`, and `Implements`: `Spec` implements the whole of
  `NodeAllocator`, which has no fairness.

Only model-checked: liveness (the `...Ends`, and the fairness in the refinement of `LineReader`),
which the prover cannot treat, and one invariant, `MetadataComesFirst`, whose proof would need an
order over the frames of the parser that `IInv` does not have.  Every other invariant that a passing
run checks is proved.

## 5. Not modelled, and what could follow

Not modelled:

* the scanners generated by re2c (`mmd_line_scanner.c`, `mmd_token_scanner.c` and others).
  They are by far the largest part of the source, about 113,000 lines of tables without state
  between two calls; the models start from the types that they assign;
* vendored code (`miniz`, `yxml`, `uthash`), archives and assets, which are input and output;
* the output formats but for what `Endnotes` and `Contents` say: one function per node
  that formats it;
* the HTML importer, option parsing, batch mode.

In this order, what would add most:

1. `Definitions`: the stores of `read_ctx.c`, where the first definition of a link wins except over
   automatic ones, as an implementation of an abstract map from labels.
2. `Pipeline`: the composition of the editing steps, over abstract specifications of each.
