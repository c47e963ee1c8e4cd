---------------------------- MODULE MCTransclusion ----------------------------
(* Small file systems for Transclusion: a directory with the documents a   *)
(* and b, a subdirectory with the document c and the unreadable file x, and *)
(* the names by which tokens can reach them.                               *)
EXTENDS Transclusion, TLC

CONSTANTS a, b, c, x, root, dir, sub

AllFiles == {a, b, c, x}
AllDirs == {root, dir, sub}
Parents == [p \in AllFiles \cup AllDirs |->
               IF p \in {a, b} THEN dir ELSE IF p \in {c, x} THEN sub ELSE p]

names == <<dir, "a", ".txt">> :> a @@ <<dir, "b", ".txt">> :> b @@ <<dir, "b", ".html">> :> c
         @@ <<sub, "a", ".txt">> :> c @@ <<sub, "x", ".txt">> :> x @@ <<root, "x", ".txt">> :> x
         @@ <<root, "b", ".txt">> :> b @@ <<dir, "sub", "">> :> sub @@ <<dir, ".", "">> :> dir
         @@ <<dir, "", "">> :> dir @@ <<sub, "", "">> :> sub

T(kind, stem, ext) == [kind |-> kind, stem |-> stem, ext |-> ext]
Words == T("text", "", "")
Key == T("key", "", "")
relA == T("relative", "a", ".txt")
relB == T("relative", "b", ".txt")
absB == T("absolute", "b", ".txt")
absX == T("absolute", "x", ".txt")
wild == T("relative", "b", ".*")
here == T("relative", "", "")
toc == T("toc", "", "")

NoBase == [kind |-> "none", name |-> NULL]
Doc(meta, base, body) == [items |-> meta \o body, meta |-> Len(meta), base |-> base,
                          header |-> <<>>, footer |-> <<>>]
Framed(d, header, footer) == [d EXCEPT !.header = header, !.footer = footer]

Bodies(items, size) == UNION {[1..k -> items] : k \in 0..size}
Metas == {<<>>, <<Key>>}
Plain(items) == {Doc(m, NoBase, s) : m \in Metas, s \in Bodies(items, 2)}
Bases == {NoBase, [kind |-> "absolute", name |-> sub],
          [kind |-> "relative", name |-> "sub"], [kind |-> "relative", name |-> "none"]}
Based(items, size) == {Doc(<<relB>>, base, s) : base \in Bases, s \in Bodies(items, size)}

D(da, db, dc, in) == [text |-> a :> da @@ b :> db @@ c :> dc @@ x :> Empty,
                      stdin |-> in, tree |-> names]

FlatDisks == {D(da, db, dc, Doc(<<>>, NoBase, <<relA>>)) :
                 da \in Plain({relA, relB}), db \in Plain({relA, relB, absX}),
                 dc \in {Doc(<<Key>>, NoBase, <<Words, relB>>)}}
BasedDisks == {D(da, db, dc, [db EXCEPT !.items = <<relB, relA, Words>>]) :
                 da \in Based({relA, absB, wild}, 2), db \in Based({relA}, 1),
                 dc \in {Doc(<<>>, NoBase, <<relB, Words>>), Doc(<<>>, NoBase, <<T("relative", "x", ".txt"), absB>>)}}
FramedDisks == {D(Framed(Doc(<<Key>>, base, <<relB, toc>>), h, f), Doc(<<>>, NoBase, <<wild, here>>),
                  Doc(<<Key, Key>>, NoBase, <<Words, Words>>), Empty) :
                 base \in Bases, h \in Bodies({relB, Words}, 1), f \in {<<>>, <<relA>>, <<here, absX>>}}
HidingDisks == {D(Doc(<<Key>>, [kind |-> "relative", name |-> "."], <<Words, here>>), Empty, Empty, Empty)}
AllDisks == FlatDisks \cup BasedDisks \cup FramedDisks \cup HidingDisks

AllCommands == {[source |-> s, search |-> p, format |-> o, header |-> TRUE] :
                   s \in {a, NULL}, p \in {NULL}, o \in {"html"}}
               \cup {[source |-> s, search |-> p, format |-> o, header |-> TRUE] :
                   s \in {a}, p \in {sub, "nowhere"}, o \in {"mmd", "other"}}
               \cup {[source |-> NULL, search |-> dir, format |-> "latex", header |-> FALSE]}
CutDisks == {D(Doc(<<Key>>, [kind |-> "relative", name |-> "."], <<Words, relA>>), Empty, Empty, Empty)}
SourceA == {[source |-> a, search |-> NULL, format |-> "html", header |-> FALSE]}
=============================================================================
