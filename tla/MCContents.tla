----------------------------- MODULE MCContents -----------------------------
(* All documents of at most four headers of the levels 1 to 3 *)
EXTENDS Contents

CONSTANT MaxHeaders

SmallHeader == {h \in Header : h.level <= 3 /\ (h.in = "list" => h.level = 2)}
MCHeaderLists == UNION {[1..k -> SmallHeader] : k \in 0..MaxHeaders}
MCRanges == {<<0, 6>>, <<1, 2>>, <<2, 3>>}
=============================================================================
