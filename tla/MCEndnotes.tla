----------------------------- MODULE MCEndnotes -----------------------------
(***************************************************************************)
(* Documents with a footnote, a glossary entry and a citation, and three   *)
(* references at all places: in the document, in a definition, in the text *)
(* of an inline note or in a locator.                                      *)
(***************************************************************************)
EXTENDS Endnotes

CONSTANT ParaShapes  \* the paragraphs and the captions of the footnote

Kind3 == <<"note", "glos", "cite">>
Refer(kind, to, how) == [kind |-> kind, to |-> to, how |-> how]
References ==
    {Refer("note", 1, "cited"), Refer("glos", 2, "cited"), Refer("cite", 3, "cited"),
     Refer("cite", 3, "not_cited"), Refer("cite", 3, "locator"),
     Refer("note", 0, "cited"), Refer("cite", 0, "cited"), Refer("cite", 0, "not_cited"),
     Refer("cite", 0, "locator")}

\* Place 0 is the document, 1 to 3 are the definitions, 10 + r is inside reference r
HasInside(ref) == ref.to = 0 \/ ref.how = "locator"
PlacesOf(r, refs) == 0..3 \cup {10 + q : q \in {p \in 1..(r - 1) : HasInside(refs[p])}}

Shape(paras, captions) == [paras |-> paras, captions |-> captions]
Chosen(place, p) == SelectSeq(<<1, 2, 3>>, LAMBDA r : place[r] = p)
Document(refs, place, shape) ==
    [body |-> Chosen(place, 0),
     refs |-> [r \in 1..3 |-> [kind |-> refs[r].kind, to |-> refs[r].to, how |-> refs[r].how,
                               inside |-> Chosen(place, 10 + r)]],
     defs |-> [e \in 1..3 |-> [kind |-> Kind3[e], refs |-> Chosen(place, e),
                               paras |-> IF e = 1 THEN shape.paras ELSE <<TRUE>>,
                               captions |-> IF e = 1 THEN shape.captions ELSE 0]]]

MCDocuments ==
    {Document(refs, <<0, p, q>>, paras) :
        <<refs, p, q, paras>> \in {t \in [1..3 -> References] \X (0..13) \X (0..13) \X ParaShapes :
                                    /\ t[2] \in PlacesOf(2, t[1]) /\ t[3] \in PlacesOf(3, t[1])
                                    /\ t[4] = Shape(<<TRUE>>, 0) \/ \E r \in 1..3 : t[1][r].to = 1}}
MCParaShapes ==
    {Shape(paras, 0) : paras \in {<<TRUE>>, <<FALSE>>, <<FALSE, TRUE>>, <<TRUE, FALSE, TRUE>>}} \cup
    {Shape(<<TRUE>>, 1), Shape(<<TRUE, FALSE>>, 1)}
=============================================================================
