---------------------------- MODULE MCBlockParser ----------------------------
(* Documents for BlockParser: every pair of the line shapes that the       *)
(* scanner tells apart, and longer documents over alphabets that bring     *)
(* together the blocks whose rules interact.                               *)
EXTENDS BlockParser

Plain == <<"plain">>
Empty == <<"empty">>
Shapes == {<<c>> : c \in Contents}
          \cup {<<m, "plain">> : m \in Markers}
          \cup {<<m, "meta">> : m \in {"blockquote", "bullet", "def_note", "definition"}}
          \cup {<<m, "empty">> : m \in {"blockquote", "bullet"}}
          \cup {<<"indented", m, "plain">> : m \in {"bullet", "definition", "def_note", "indented"}}
          \cup {<<"definition", m, "plain">> : m \in {"definition", "bullet"}}
          \cup {<<"blockquote", "def_note", "plain">>, <<"bullet", "blockquote", "plain">>,
                <<"bullet", "fence3">>, <<"indented", "fence3">>}

Docs(alphabet, size) == UNION {[1..k -> alphabet] : k \in 1..size}

PairDocs == Docs(Shapes, 2)
ListDocs == Docs({Empty, Plain, <<"bullet", "plain">>, <<"indented", "plain">>,
                  <<"indented", "bullet", "plain">>, <<"bullet", "empty">>}, 5)
DefinitionDocs == Docs({Empty, Plain, <<"definition", "plain">>, <<"indented", "plain">>,
                        <<"indented", "definition", "plain">>}, 5)
NoteDocs == Docs({Plain, Empty, <<"def_note", "plain">>, <<"indented", "def_note", "plain">>,
                  <<"blockquote", "def_note", "plain">>, <<"definition", "plain">>}, 4)
TableDocs == Docs({Empty, <<"table">>, <<"separator">>}, 6)
             \cup Docs({<<"blockquote", "empty">>, <<"blockquote", "table">>, <<"blockquote", "separator">>}, 4)
CodeDocs == Docs({Empty, Plain, <<"fence3">>, <<"fence4">>, <<"indented", "plain">>, <<"setext2">>,
                  <<"bullet", "fence3">>}, 3)
\* Each quote, item, definition or note in another one
NestedDocs == {<<<<m, n, "plain">>, <<p, "plain">>, <<"indented", q, "plain">>>> :
                  m \in Markers, n \in Markers, p \in Markers, q \in Markers}

AllDocs == PairDocs \cup ListDocs \cup DefinitionDocs \cup NoteDocs \cup TableDocs \cup CodeDocs \cup NestedDocs
=============================================================================
