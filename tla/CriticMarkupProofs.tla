------------------------- MODULE CriticMarkupProofs -------------------------
(***************************************************************************)
(* For all documents of CriticMarkup tokens: the buffer shrinks to a       *)
(* subsequence of the text, stale offsets corrected by delta find the      *)
(* nodes to be erased, accepting leaves the new text, and rejecting the    *)
(* old one as long as no change lies in one that is taken out.             *)
(*                                                                         *)
(* 1. the inductive invariant: FirstPass, about the tokens while they are  *)
(*    paired, and WalkInv, about the activations and the buffer            *)
(* 2. where tokens start                                                   *)
(* 3. the first pass only makes pairs of CriticMarkup, and, done, leaves   *)
(*    pairs that nest (Shape)                                              *)
(* 4. cutting bytes out of the buffer, and which ones must go (Gone)       *)
(* 5. chains of tokens, and where the activations stand on them            *)
(* 6. one lemma for each step of the walk, and the theorems                *)
(***************************************************************************)
EXTENDS CriticMarkup, TokenPairingProofs, TLAPS, SequenceTheorems, NaturalsInduction,
        WellFoundedInduction

(* The first pass.                                                         *)

CriticPairs == {"p_add", "p_del", "p_com", "p_hi", "p_sub_del", "p_sub_add"}
\* The kind of token that closes a pair
CloserOf == [p_add |-> "add_close", p_del |-> "del_close", p_com |-> "com_close",
             p_hi |-> "hi_close", p_sub_del |-> "sub_div", p_sub_add |-> "sub_close"]
\* The kind of token that opens it
OpenerOf == [p_add |-> "add_open", p_del |-> "del_open", p_com |-> "com_open",
             p_hi |-> "hi_open", p_sub_del |-> "sub_open", p_sub_add |-> "sub_div"]
Even(m) == m % 2 = 0
Tokens == {m \in Nodes : Even(m)}

\* A token keeps its type until it opens a pair; then it leads to the closer,
\* which was visited
Typed(m) ==
    IF Even(m) THEN \/ type[m] = src[Tok(m)]
                    \/ /\ type[m] \in CriticPairs /\ src[Tok(m)] = OpenerOf[type[m]]
                       /\ next[m] \in Nodes /\ src[Tok(next[m])] = CloserOf[type[m]]
                       /\ frames # <<>> /\ n # NULL => next[m] < n
    ELSE type[m] = "free"
Measured(m) == len[m] = IF Even(m) THEN InitialLen(src[Tok(m)]) ELSE 0
FirstPass == /\ pass = 1 /\ emph = NULL /\ Depth <= 1
             /\ \A m \in Nodes : Typed(m) /\ Measured(m)

(* The shape of the paired text.                                           *)
End == 2 * NTok + 2
Joined(m) == type[m] \in CriticPairs
Shape ==
    /\ \A m \in Tokens : Joined(m) => next[m] \in Tokens /\ m < next[m]
    /\ \A m \in Tokens : Joined(m) /\ type[m] # "p_sub_del" => ~Joined(next[m])
    /\ \A m \in Tokens : next[m] # NULL => next[m] \in Tokens /\ m < next[m]
    /\ \A o, m \in Tokens : Joined(o) /\ o < m /\ m < next[o] /\ next[m] # NULL => next[m] < next[o]
    /\ \A m \in Tokens : child[m] # NULL => child[m] = m + 2 /\ Joined(m) /\ m + 2 < next[m]
    /\ \A m \in Tokens : child[m] = NULL /\ next[m] # NULL => next[m] = m + 2
    /\ \A m \in Tokens : next[m] = NULL =>
           m + 2 = End \/ \E o \in Tokens : Joined(o) /\ o < m /\ next[o] = m + 2
    /\ \A a, b \in Tokens : next[a] = next[b] /\ next[a] # NULL => a = b

(* The walk.                                                               *)
Erased == IF call = "accept" THEN {"p_del", "p_com", "p_sub_del"} ELSE {"p_add", "p_sub_add", "p_com"}
Target == IF call = "accept" THEN Accepted ELSE Rejected
Flat == call = "reject" /\ ~Nested
Faithful == call = "accept" \/ ~Nested

\* What goes and began before x is over at x
Clear(x) == \A m \in Tokens : type[m] \in Erased /\ m < x => next[m] <= x
\* No pair around x ends before the chain of x does
Innermost(x, limit) == \A m \in Tokens : Joined(m) /\ m < x /\ x < next[m] => limit <= next[m]
\* A walk comes to the closer of a substitution's old text, or of a deletion
Arrived(x, tree_) ==
    \A m \in Tokens : Joined(m) /\ next[m] = x =>
        type[m] = "p_sub_del" \/ (type[m] = "p_del" /\ tree_ = "accept" /\ ~Flat)
\* Where an activation stands on its chain, and where the chain ends
Stands(a, limit) ==
    /\ a.node \in Tokens /\ a.node < limit /\ Innermost(a.node, limit)
    /\ Faithful => Clear(a.node)
    /\ ~a.closing => Arrived(a.node, a.tree)
    /\ a.closing => \E o \in Tokens : next[o] = a.node /\ type[o] \in Unwrapped(a.tree) \ {"p_sub_del"}
\* An activation walks the children of the pair that the one above it is to close
Inside(a, above) ==
    \E o \in Tokens : /\ next[o] = above.node /\ type[o] \in Unwrapped(above.tree)
                      /\ above.closing = (type[o] # "p_sub_del")
                      /\ a.node # NULL => o < a.node
Limit(wk, k) == IF k = 1 THEN End ELSE wk[k - 1].node
Level(wk, k) ==
    /\ wk[k].tree = IF k = 1 THEN call ELSE "accept"
    /\ wk[k].node = NULL => k = Len(wk) /\ ~wk[k].closing
    /\ wk[k].node # NULL => Stands(wk[k], Limit(wk, k))
    /\ k > 1 => Inside(wk[k], wk[k - 1])
    /\ Flat /\ k > 1 => k = 2 /\ ~wk[k].closing

\* The closer of a deletion is erased before the walk comes to it
Late(a) == ~a.closing /\ a.tree = "accept" /\ \E m \in Tokens : type[m] = "p_del" /\ next[m] = a.node
\* The byte the walk has come to
Place(wk) ==
    LET k == Len(wk)
        x == wk[k].node
    IN  IF x = NULL THEN Start(Limit(wk, k)) ELSE IF Late(wk[k]) THEN Start(x) + len[x] ELSE Start(x)
Front == IF step = "tokenize" THEN 0 ELSE IF walk = <<>> THEN TextLen ELSE Place(walk)

\* Bytes 0..(p - 1) of a text were walked over, and those from p on still
\* stand as they did: d bytes were taken out
Laid(buf, d, text, p) ==
    /\ p \in 0..text /\ d \in 0..p
    /\ DOMAIN buf = 1..(text - d) /\ Len(buf) = text - d
    /\ \A i \in 1..(text - d) : buf[i] \in 0..(text - 1)
    /\ \A b \in p..(text - 1) : buf[b - d + 1] = b
    /\ \A i \in 1..(p - d) : buf[i] < p
    /\ \A i \in 1..(text - d - 1) : buf[i] < buf[i + 1]
Kept(buf, k) == {buf[i] : i \in 1..k}
Edited(p) ==
    /\ Laid(buffer, delta, TextLen, p)
    /\ Faithful /\ step # "tokenize" => Kept(buffer, p - delta) = Target \cap (0..(p - 1))
Activations == [node : Ref, tree : {"accept", "reject"}, closing : BOOLEAN]
WalkInv ==
    /\ call \in {"accept", "reject"} /\ step \in {"tokenize", "edit", "done"}
    /\ walk \in Seq(Activations)
    /\ step = "edit" <=> walk # <<>>
    /\ step # "tokenize" => frames = <<>> /\ Shape
    /\ \A k \in 1..Len(walk) : Level(walk, k)
    /\ Edited(Front)
-----------------------------------------------------------------------------
(* Where a token starts.                                                   *)

\* The length of the first k tokens
Sum[k \in 0..NTok] == IF k = 0 THEN 0 ELSE Sum[k - 1] + Length(k)
Sums(f) == f = [k \in 0..NTok |-> IF k = 0 THEN 0 ELSE f[k - 1] + Length(k)]

\* A nonempty set of numbers has a least element.
LEMMA LeastOf ==
    ASSUME NEW S, S \subseteq Nat, S # {}
    PROVE  \E x \in S : \A y \in S : x <= y
<1>1. PICK x \in S : \A y \in S : <<y, x>> \notin OpToRel(<, Nat)
  BY WFMin, NatLessThanWellFounded, Zenon
<1>2. \A y \in S : ~(y < x)
  BY <1>1 DEF OpToRel
<1> QED BY <1>2

\* The lengths of the first tokens are a function on 0..NTok.
LEMMA SumExists ==
    ASSUME NTok \in Nat, \A k \in 1..NTok : Length(k) \in Nat
    PROVE  \E f \in [0..NTok -> Nat] : Sums(f)
<1> DEFINE Part(f, m) == f \in [0..m -> Nat] /\ f[0] = 0 /\ \A k \in 1..m : f[k] = f[k - 1] + Length(k)
           S == {m \in 0..NTok : ~\E f : Part(f, m)}
<1>1. S = {}
  <2> SUFFICES ASSUME S # {} PROVE FALSE
    OBVIOUS
  <2>1. PICK m \in S : \A y \in S : m <= y
    <3>1. S \subseteq Nat
      OBVIOUS
    <3> HIDE DEF S
    <3> QED BY <3>1, LeastOf
  <2>2. m # 0
    <3>1. Part([k \in 0..0 |-> 0], 0)
      OBVIOUS
    <3> QED BY <3>1
  <2>3. m - 1 \in 0..NTok /\ m - 1 \notin S /\ m \in 1..NTok
    <3>1. m \in 0..NTok
      BY <2>1
    <3> HIDE DEF S
    <3> QED BY <2>1, <2>2, <3>1
  <2>4. PICK f : Part(f, m - 1)
    BY <2>3
  <2> DEFINE g == [k \in 0..m |-> IF k = m THEN f[m - 1] + Length(m) ELSE f[k]]
  <2>5. f[m - 1] \in Nat /\ Length(m) \in Nat
    BY <2>3, <2>4
  <2>6. Part(g, m)
    <3>1. g \in [0..m -> Nat] /\ g[0] = 0
      BY <2>2, <2>3, <2>4, <2>5
    <3>2. ASSUME NEW k \in 1..m PROVE g[k] = g[k - 1] + Length(k)
      <4>1. CASE k = m
        BY <2>3, <4>1
      <4>2. CASE k # m
        BY <2>3, <2>4, <4>2
      <4> QED BY <4>1, <4>2
    <3> QED BY <3>1, <3>2
  <2> QED BY <2>1, <2>6
<1>2. \A m \in 0..NTok : \E f : Part(f, m)
  BY <1>1
<1>3. PICK f : Part(f, NTok)
  <2>1. NTok \in 0..NTok
    OBVIOUS
  <2> HIDE DEF Part
  <2> QED BY <1>2, <2>1
<1>4. f = [k \in 0..NTok |-> IF k = 0 THEN 0 ELSE f[k - 1] + Length(k)]
  BY <1>3
<1> QED BY <1>3, <1>4 DEF Sums

\* Sum is that function: it is 0 at first and grows by the length of a token.
LEMMA SumFacts ==
    ASSUME NTok \in Nat, \A k \in 1..NTok : Length(k) \in Nat
    PROVE  Sum \in [0..NTok -> Nat] /\ Sum[0] = 0 /\ \A k \in 1..NTok : Sum[k] = Sum[k - 1] + Length(k)
<1>1. PICK f \in [0..NTok -> Nat] : Sums(f)
  BY SumExists
<1>2. Sum = CHOOSE g : Sums(g)
  BY DEF Sum, Sums
<1>3. Sums(Sum)
  BY <1>1, <1>2
<1>4. \A g : Sums(g) => DOMAIN g = 0..NTok /\ g[0] = 0 /\ \A k \in 1..NTok : g[k] = g[k - 1] + Length(k)
  BY DEF Sums
<1>5. \A k \in 0..NTok : Sum[k] = f[k]
  <2> DEFINE S == {k \in 0..NTok : Sum[k] # f[k]}
  <2> SUFFICES ASSUME S # {} PROVE FALSE
    OBVIOUS
  <2>1. PICK k \in S : \A y \in S : k <= y
    <3>1. S \subseteq Nat
      OBVIOUS
    <3> HIDE DEF S
    <3> QED BY <3>1, LeastOf
  <2>2. k # 0
    BY <1>1, <1>3, <1>4
  <2>3. k \in 1..NTok /\ k - 1 \in 0..NTok /\ k - 1 \notin S
    BY <2>1, <2>2
  <2>4. Sum[k - 1] = f[k - 1]
    BY <2>3
  <2>5. Sum[k] = Sum[k - 1] + Length(k) /\ f[k] = f[k - 1] + Length(k)
    BY <1>1, <1>3, <1>4, <2>3
  <2> QED BY <2>1, <2>4, <2>5
<1>6. Sum = f
  BY <1>1, <1>3, <1>4, <1>5 DEF Sums
<1> QED BY <1>1, <1>4, <1>6

Spots == Tokens \cup {End}

\* Tokens are numbered two by two.
LEMMA EvenFacts ==
    ASSUME NEW m \in Nat, Even(m)
    PROVE  m = 2 * Tok(m) /\ Tok(m) \in Nat /\ Even(m + 2) /\ Tok(m + 2) = Tok(m) + 1
BY DEF Even, Tok

\* A document of CriticMarkup tokens
LEMMA TextFacts ==
    ASSUME src \in Inputs
    PROVE  /\ NTok \in Nat /\ NTok >= 1
           /\ \A k \in 1..NTok : src[k] \in CriticTokens \cup {"sub_div"} /\ Length(k) \in {2, 3}
<1>1. src \in Seq(CriticTokens \cup {"sub_div"}) /\ src # <<>> /\ src \in Seq(Kinds)
  BY CriticInputs, InputsAssumption
<1>2. NTok \in Nat /\ NTok >= 1
  BY <1>1, LenProperties, EmptySeq DEF NTok
<1>3. \A k \in 1..NTok : src[k] \in CriticTokens \cup {"sub_div"}
  BY <1>1, ElementOfSeq DEF NTok
<1>4. \A k \in 1..NTok : Length(k) \in {2, 3}
  BY <1>3 DEF Length, InitialLen
<1> QED BY <1>2, <1>3, <1>4

\* The tokens are the nodes of even number, End is behind them.
LEMMA SpotFacts ==
    ASSUME src \in Inputs
    PROVE  /\ 2 \in Tokens /\ End \in Nat /\ End \notin Tokens
           /\ \A m \in Tokens : /\ m \in Nodes /\ m \in Nat /\ m # NULL /\ Even(m) /\ m < End /\ m >= 2
                                /\ Tok(m) \in 1..NTok /\ m = 2 * Tok(m) /\ m + 2 \in Spots
           /\ \A m \in Spots : /\ m \in Nat /\ m >= 2 /\ Tok(m) \in 1..(NTok + 1) /\ m = 2 * Tok(m)
                               /\ m # NULL
           /\ \A x, y \in Spots : x < y => x \in Tokens /\ x + 2 <= y /\ y - 2 \in Tokens
<1>1. NTok \in Nat /\ NTok >= 1
  BY TextFacts
<1>2. ASSUME NEW k \in 1..NTok PROVE 2 * k \in Tokens /\ Tok(2 * k) = k
  BY <1>1 DEF Tokens, Nodes, Even, Tok
<1>3. ASSUME NEW m \in Tokens
      PROVE  m \in Nodes /\ m \in Nat /\ Even(m) /\ Tok(m) \in 1..NTok /\ m = 2 * Tok(m)
  <2>1. m \in Nodes /\ m \in Nat /\ Even(m) /\ m <= 2 * NTok + 1 /\ m >= 2
    BY <1>1 DEF Tokens, Nodes
  <2>2. m = 2 * Tok(m) /\ Tok(m) \in Nat
    BY <2>1, EvenFacts
  <2> QED BY <1>1, <2>1, <2>2
<1>4. End = 2 * (NTok + 1) /\ End \in Nat /\ Tok(End) = NTok + 1
  BY <1>1 DEF End, Tok
<1>5. ASSUME NEW m \in Spots
      PROVE  m \in Nat /\ m >= 2 /\ Tok(m) \in 1..(NTok + 1) /\ m = 2 * Tok(m)
  BY <1>1, <1>3, <1>4 DEF Spots
<1>6. \A k \in 1..(NTok + 1) : 2 * k \in Spots /\ (k <= NTok => 2 * k \in Tokens)
  BY <1>1, <1>2, <1>4 DEF Spots
<1>7. ASSUME NEW m \in Tokens PROVE m # NULL /\ m < End /\ m >= 2 /\ m + 2 \in Spots
  <2>1. Tok(m) + 1 \in 1..(NTok + 1) /\ m + 2 = 2 * (Tok(m) + 1)
    BY <1>1, <1>3
  <2>2. m + 2 \in Spots
    BY <1>6, <2>1
  <2> QED BY <1>1, <1>3, <1>4, <2>2 DEF NULL
<1>8. ASSUME NEW x \in Spots, NEW y \in Spots, x < y
      PROVE  x \in Tokens /\ x + 2 <= y /\ y - 2 \in Tokens
  <2>1. /\ x = 2 * Tok(x) /\ y = 2 * Tok(y) /\ Tok(x) \in 1..(NTok + 1) /\ Tok(y) \in 1..(NTok + 1)
        /\ Tok(x) < Tok(y)
    BY <1>5, <1>8
  <2>2. Tok(x) \in 1..NTok /\ Tok(y) - 1 \in 1..NTok /\ y - 2 = 2 * (Tok(y) - 1)
    BY <1>1, <2>1
  <2>3. x \in Tokens /\ y - 2 \in Tokens
    BY <1>2, <2>1, <2>2
  <2> QED BY <1>1, <2>1, <2>3
<1>9. 2 \in Tokens
  <2>1. 1 \in 1..NTok /\ 2 * 1 = 2
    BY <1>1
  <2> QED BY <1>2, <2>1
<1>10. End \notin Tokens
  BY <1>4, <1>7
<1>11. \A m \in Spots : m # NULL
  BY <1>5 DEF NULL
<1> QED BY <1>3, <1>4, <1>5, <1>7, <1>8, <1>9, <1>10, <1>11

\* Tokens start one behind the other, with a byte of text between them.
LEMMA StartFacts ==
    ASSUME src \in Inputs, \A m \in Nodes : Measured(m)
    PROVE  /\ Start(2) = 1 /\ Start(End) = TextLen /\ TextLen \in Nat
           /\ \A m \in Spots : Start(m) \in Nat /\ Start(m) >= 1 /\ Start(m) <= TextLen
           /\ \A m \in Tokens : /\ len[m] \in {2, 3}
                                /\ Start(m + 2) = Start(m) + len[m] + 1
           /\ \A x, y \in Spots : x < y => Start(x) + len[x] + 1 <= Start(y)
<1>1. /\ NTok \in Nat /\ NTok >= 1
      /\ \A k \in 1..NTok : Length(k) \in Nat /\ Length(k) \in {2, 3}
  BY TextFacts
<1>2. Sum \in [0..NTok -> Nat] /\ Sum[0] = 0 /\ \A k \in 1..NTok : Sum[k] = Sum[k - 1] + Length(k)
  BY <1>1, SumFacts
<1>3. \A m : Start(m) = Tok(m) + Sum[Tok(m) - 1]
  BY DEF Start, Sum
<1>4. \A m \in Tokens : /\ m \in Nodes /\ Even(m) /\ Tok(m) \in 1..NTok /\ m \in Nat
                        /\ m + 2 \in Spots
  BY SpotFacts
<1>5. \A m \in Spots : Tok(m) \in 1..(NTok + 1) /\ m = 2 * Tok(m) /\ m \in Nat
  BY SpotFacts
<1>6. ASSUME NEW m \in Tokens PROVE len[m] \in {2, 3} /\ Start(m + 2) = Start(m) + len[m] + 1
  <2>1. len[m] = Length(Tok(m)) /\ Tok(m) \in 1..NTok
    BY <1>4 DEF Measured, Length
  <2>2. Tok(m + 2) = Tok(m) + 1
    BY <1>4, EvenFacts
  <2>3. Start(m + 2) = Tok(m) + 1 + Sum[Tok(m)] /\ Start(m) = Tok(m) + Sum[Tok(m) - 1]
    BY <1>1, <1>3, <2>1, <2>2
  <2>4. Sum[Tok(m)] = Sum[Tok(m) - 1] + Length(Tok(m)) /\ Sum[Tok(m) - 1] \in Nat
    BY <1>1, <1>2, <2>1
  <2> QED BY <1>1, <2>1, <2>3, <2>4
<1>7. ASSUME NEW m \in Spots PROVE Start(m) \in Nat /\ Start(m) >= 1
  <2>1. Tok(m) \in 1..(NTok + 1) /\ Tok(m) - 1 \in 0..NTok
    BY <1>1, <1>5
  <2>2. Sum[Tok(m) - 1] \in Nat
    BY <1>2, <2>1
  <2> QED BY <1>1, <1>3, <2>1, <2>2
<1>8. Start(2) = 1
  <2>1. Tok(2) = 1
    BY DEF Tok
  <2> QED BY <1>2, <1>3, <2>1
<1>9. Start(End) = TextLen
  <2>1. Tok(End) = NTok + 1 /\ Tok(2 * NTok) = NTok
    BY <1>1 DEF End, Tok
  <2>2. Start(End) = NTok + 1 + Sum[NTok] /\ Start(2 * NTok) = NTok + Sum[NTok - 1]
    BY <1>1, <1>3, <2>1
  <2>3. Sum[NTok] = Sum[NTok - 1] + Length(NTok) /\ Sum[NTok - 1] \in Nat /\ Length(NTok) \in Nat
    BY <1>1, <1>2
  <2> QED BY <1>1, <2>2, <2>3 DEF TextLen
<1>10. \A x, y \in Spots : x < y => Start(x) + len[x] + 1 <= Start(y)
  <2> SUFFICES ASSUME NEW x \in Spots, ~\A y \in Spots : x < y => Start(x) + len[x] + 1 <= Start(y)
               PROVE  FALSE
    OBVIOUS
  <2> DEFINE S == {y \in Spots : x < y /\ ~(Start(x) + len[x] + 1 <= Start(y))}
  <2>1. S # {} /\ S \subseteq Nat
    BY <1>5
  <2>2. PICK y \in S : \A z \in S : y <= z
    <3> HIDE DEF S
    <3> QED BY <2>1, LeastOf
  <2>3. /\ y \in Spots /\ x < y /\ ~(Start(x) + len[x] + 1 <= Start(y)) /\ x \in Nat /\ y \in Nat
        /\ x \in Tokens /\ x + 2 <= y /\ y - 2 \in Tokens
    BY <1>5, <2>2, SpotFacts
  <2>4. CASE y = x + 2
    <3>1. Start(y) = Start(x) + len[x] + 1 /\ Start(x) \in Nat /\ len[x] \in {2, 3}
      BY <1>6, <1>7, <2>3, <2>4
    <3> QED BY <2>3, <3>1
  <2>5. CASE y # x + 2
    <3> DEFINE z == y - 2
    <3>1. z \in Tokens /\ z \in Spots /\ z \in Nat /\ x < z /\ z + 2 = y /\ z < y
      BY <2>3, <2>5 DEF Spots
    <3>2. z \notin S
      BY <2>2, <3>1
    <3>3. Start(x) + len[x] + 1 <= Start(z)
      BY <3>1, <3>2
    <3>4. Start(y) = Start(z) + len[z] + 1 /\ len[z] \in {2, 3} /\ len[x] \in {2, 3}
      BY <1>6, <2>3, <3>1
    <3>5. Start(x) \in Nat /\ Start(y) \in Nat /\ Start(z) \in Nat
      BY <1>7, <2>3, <3>1
    <3> HIDE DEF z
    <3> QED BY <2>3, <3>3, <3>4, <3>5
  <2> QED BY <2>4, <2>5
<1>11. ASSUME NEW m \in Spots PROVE Start(m) <= TextLen
  <2>1. End \in Spots /\ Start(End) \in Nat /\ Start(m) \in Nat
    BY <1>7 DEF Spots
  <2>2. CASE m = End
    BY <1>9, <2>1, <2>2
  <2>3. CASE m # End
    <3>1. m \in Tokens /\ m < End
      BY <2>3, SpotFacts DEF Spots
    <3>2. Start(m) + len[m] + 1 <= Start(End) /\ len[m] \in {2, 3}
      BY <1>6, <1>10, <2>1, <3>1
    <3> QED BY <1>9, <2>1, <3>2
  <2> QED BY <2>2, <2>3
<1>12. TextLen \in Nat
  BY <1>7, <1>9 DEF Spots
<1> QED BY <1>6, <1>7, <1>8, <1>9, <1>10, <1>11, <1>12

\* The rules of the first pass: a pair is closed by the token that stands for
\* it, and no condition is looked at.
LEMMA CriticRules ==
    ASSUME pass = 1, NEW t, RuleOf(t).mate # "none"
    PROVE  /\ RuleOf(t).pair \in CriticPairs /\ CloserOf[RuleOf(t).pair] = t
           /\ RuleOf(t).conditions = {} /\ OpenerOf[RuleOf(t).pair] = RuleOf(t).mate
BY DEF RuleOf, Pairings, pairings1, NoRule, Rule, CriticPairs, CloserOf, OpenerOf

\* CriticMarkup documents have no indentation.
LEMMA AllScanned ==
    ASSUME src \in Inputs, NEW m \in Nodes, Even(m)
    PROVE  /\ m \in Tokens /\ Scans(m) /\ src[Tok(m)] \in CriticTokens \cup {"sub_div"}
           /\ InitialType(src[Tok(m)]) = src[Tok(m)]
<1>1. m \in Tokens
  BY DEF Tokens
<1>2. Tok(m) \in 1..NTok /\ NTok \in Nat
  BY <1>1, SpotFacts, TextFacts
<1>3. src[Tok(m)] \in CriticTokens \cup {"sub_div"}
  BY <1>2, TextFacts
<1>4. src[Tok(m)] # "ws" /\ InitialType(src[Tok(m)]) = src[Tok(m)]
  BY <1>3 DEF CriticTokens, InitialType
<1> QED BY <1>1, <1>3, <1>4 DEF Scans, Indentation, Even

\* Before the first token is visited no token is part of a pair.
LEMMA InitFirstPass ==
    ASSUME CMInit
    PROVE  FirstPass
<1>1. Init /\ src \in Inputs
  BY DEF CMInit, Init
<1>2. pass = 1 /\ emph = NULL /\ Depth <= 1
  <2>1. frames = <<Activation(2)>>
    BY <1>1 DEF Init
  <2> QED BY <1>1, <2>1 DEF Init, Depth
<1>3. ASSUME NEW m \in Nodes PROVE Typed(m) /\ Measured(m)
  <2>1. /\ type[m] = (IF Scans(m) THEN InitialType(src[Tok(m)]) ELSE "free")
        /\ len[m] = (IF Scans(m) THEN InitialLen(src[Tok(m)]) ELSE 0)
    BY <1>1, <1>3 DEF Init
  <2>2. CASE Even(m)
    BY <1>1, <1>3, <2>1, <2>2, AllScanned DEF Typed, Measured
  <2>3. CASE ~Even(m)
    <3>1. ~Scans(m)
      BY <2>3 DEF Scans, Even
    <3> QED BY <2>1, <2>3, <3>1 DEF Typed, Measured
  <2> QED BY <2>2, <2>3
<1> QED BY <1>2, <1>3 DEF FirstPass

\* A token that closes a pair changes the type of the opener, which leads to it
\* then; of the other links only that of the node before it changes.
LEMMA JoinCritic ==
    ASSUME IInv, \A m \in Nodes : Fits(m), NEW par, Shaped(par), Placed(par),
           pass = 1, frames # <<>>, n # NULL, Closes, Join(opener)
    PROVE  /\ type' = [type EXCEPT ![opener] = rule.pair] /\ len' = len
           /\ opener \in Nodes /\ next'[opener] = n /\ n \in Nodes
           /\ rule.pair \in CriticPairs /\ CloserOf[rule.pair] = type[n]
           /\ OpenerOf[rule.pair] = rule.mate
           /\ \A m \in Nodes : m # opener => next'[m] = next[m] \/ next[m] = n
<1>1. opener \in Nodes /\ n \in Nodes /\ opener < n
  BY OpenerFacts
<1>2. Top.prev \in Created /\ next[Top.prev] = n
  BY ClosedPlace
<1>3. /\ rule.pair \in CriticPairs /\ CloserOf[rule.pair] = type[n] /\ rule.conditions = {}
      /\ OpenerOf[rule.pair] = rule.mate
  BY CriticRules DEF Closes, Attempts, Handled, rule
<1>4. ~Demands("subtypes") /\ rule.pair \notin {"p_footnote", "p_glossary"}
  BY <1>3 DEF Demands, CriticPairs
<1>5. TypeOK
  BY DEF IInv
<1>6. /\ len' = len
      /\ next' = IF Top.prev # opener THEN [[next EXCEPT ![opener] = n] EXCEPT ![Top.prev] = NULL]
                 ELSE [next EXCEPT ![opener] = n]
      /\ type' = [m \in Nodes |-> IF m = opener THEN rule.pair ELSE type[m]]
  BY <1>4 DEF Join
<1>7. type' = [type EXCEPT ![opener] = rule.pair]
  BY <1>5, <1>6 DEF TypeOK
<1>8. next'[opener] = n /\ \A m \in Nodes : m # opener => next'[m] = next[m] \/ next[m] = n
  BY <1>1, <1>2, <1>5, <1>6 DEF TypeOK
<1> QED BY <1>1, <1>3, <1>6, <1>7, <1>8

\* What a visit does to the tree: it makes a pair, or nothing.
MakesPair(o) ==
    /\ type' = [type EXCEPT ![o] = rule.pair] /\ len' = len
    /\ o \in Nodes /\ type[o] # "free" /\ next'[o] = n /\ n \in Nodes
    /\ rule.pair \in CriticPairs /\ CloserOf[rule.pair] = type[n]
    /\ type[o] = OpenerOf[rule.pair]
    /\ \A m \in Nodes : m # o => next'[m] = next[m] \/ next[m] = n
LeavesTree == type' = type /\ len' = len /\ next' = next

\* The token that is visited is no pair yet.
LEMMA VisitedIsToken ==
    ASSUME IInv, FirstPass, frames # <<>>, n # NULL, n \in Created
    PROVE  n \in Tokens /\ type[n] = src[Tok(n)] /\ src[Tok(n)] \in CriticTokens \cup {"sub_div"}
<1>1. n \in Nodes /\ type[n] # "free" /\ Typed(n)
  BY DEF Created, FirstPass
<1>2. src \in Inputs /\ LinksGoForward /\ next \in [Nodes -> Ref]
  BY DEF IInv, TypeOK
<1>3. Even(n)
  BY <1>1 DEF Typed
<1>4. n \in Nat /\ \A m \in Nodes : m \in Nat
  BY <1>1, <1>2, TextFacts DEF Nodes
<1>5. ~(type[n] \in CriticPairs /\ next[n] \in Nodes /\ next[n] < n)
  <2> SUFFICES ASSUME next[n] \in Nodes, next[n] < n PROVE FALSE
    OBVIOUS
  <2>1. next[n] \in Nat /\ next[n] # NULL /\ n \in Nat
    BY <1>1, <1>2, <1>4, TextFacts DEF Nodes, NULL
  <2>2. next[n] > n
    BY <1>1, <1>2, <2>1 DEF LinksGoForward
  <2> QED BY <2>1, <2>2
<1>6. type[n] = src[Tok(n)]
  BY <1>1, <1>3, <1>5 DEF Typed
<1> QED BY <1>1, <1>2, <1>3, <1>6, AllScanned

\* A visit keeps every token typed.
LEMMA VisitKeepsTyped ==
    ASSUME IInv, FirstPass, frames # <<>>, n # NULL, n \in Created,
           NEW openers, NEW size \in Top.start..Len(stack), NEW push \in BOOLEAN,
           Settle(openers, size, push), emph' = emph,
           NEW o, MakesPair(o) \/ LeavesTree
    PROVE  FirstPass' /\ src' = src
<1>1. /\ Depth' = Depth /\ frames'[Depth].node = next[n] /\ Depth \in Nat \ {0}
      /\ src' = src /\ pass' = pass
  BY SettledActivations, VisitFacts DEF Settle
<1>2. n' = next[n] /\ Nodes' = Nodes
  BY <1>1 DEF n, Top, Nodes, NTok
<1>3. n \in Tokens /\ n \in Nodes /\ type[n] = src[Tok(n)]
  BY VisitedIsToken DEF Tokens
<1>4. /\ LinksGoForward /\ next \in [Nodes -> Ref] /\ type \in [Nodes -> Types] /\ src \in Inputs
      /\ \A m \in Nodes : m \in Nat /\ m # 0
  <2>1. src \in Inputs
    BY DEF IInv, TypeOK
  <2> QED BY <2>1, TextFacts DEF IInv, TypeOK, Nodes
<1>5. next[n] # NULL => next[n] > n /\ next[n] \in Nodes
  BY <1>3, <1>4 DEF LinksGoForward, Ref
<1>6. ASSUME NEW m \in Nodes PROVE Typed(m)' /\ Measured(m)'
  <2>1. Typed(m) /\ Measured(m) /\ len' = len
    BY DEF FirstPass, MakesPair, LeavesTree
  <2>2. Measured(m)'
    BY <1>1, <2>1 DEF Measured, Even, Tok
  <2>3. CASE ~Even(m)
    <3>1. type[m] = "free"
      BY <2>1, <2>3 DEF Typed
    <3>2. type'[m] = type[m]
      BY <1>4, <3>1 DEF MakesPair, LeavesTree
    <3> QED BY <2>2, <2>3, <3>1, <3>2 DEF Typed, Even
  <2>4. CASE Even(m) /\ m = o /\ MakesPair(o)
    <3>1. /\ type'[m] = rule.pair /\ rule.pair \in CriticPairs /\ next'[m] = n
          /\ CloserOf[rule.pair] = type[n]
      BY <1>4, <2>4 DEF MakesPair
    <3>2. n' # NULL => n < n'
      BY <1>2, <1>5 DEF NULL
    <3>3. src[Tok(m)] = OpenerOf[rule.pair]
      <4>1. type[m] = OpenerOf[rule.pair] /\ rule.pair \in CriticPairs
        BY <2>4 DEF MakesPair
      <4>2. OpenerOf[rule.pair] \notin CriticPairs
        BY <4>1 DEF OpenerOf, CriticPairs
      <4> QED BY <2>1, <2>4, <4>1, <4>2 DEF Typed
    <3>4. n \in Nodes' /\ src'[Tok(n)] = CloserOf[rule.pair] /\ src'[Tok(m)] = OpenerOf[rule.pair]
      BY <1>1, <1>2, <1>3, <3>1, <3>3
    <3> QED BY <2>2, <2>4, <3>1, <3>2, <3>4 DEF Typed, Even, Tok
  <2>5. CASE Even(m) /\ (LeavesTree \/ m # o)
    <3>1. type'[m] = type[m] /\ (next'[m] = next[m] \/ next[m] = n)
      BY <1>4, <2>5 DEF MakesPair, LeavesTree
    <3>2. CASE type[m] = src[Tok(m)]
      BY <1>1, <2>2, <2>5, <3>1, <3>2 DEF Typed, Even, Tok
    <3>3. CASE /\ type[m] \in CriticPairs
               /\ next[m] \in Nodes /\ src[Tok(next[m])] = CloserOf[type[m]]
               /\ src[Tok(m)] = OpenerOf[type[m]]
               /\ frames # <<>> /\ n # NULL => next[m] < n
      <4>1. next[m] < n /\ next[m] # n /\ next[m] \in Nat /\ n \in Nat
        BY <1>3, <1>4, <3>3
      <4>2. n' # NULL => next[m] < n'
        BY <1>2, <1>4, <1>5, <4>1
      <4> QED BY <1>1, <1>2, <2>2, <2>5, <3>1, <3>3, <4>1, <4>2 DEF Typed, Even, Tok
    <3> QED BY <2>1, <2>5, <3>2, <3>3 DEF Typed
  <2> QED BY <2>1, <2>3, <2>4, <2>5
<1>7. Depth' <= 1 /\ pass' = 1 /\ emph' = NULL
  BY <1>1 DEF FirstPass, NULL
<1> QED BY <1>1, <1>2, <1>6, <1>7 DEF FirstPass

\* Every step of the first pass keeps it.
LEMMA TokenizeKeeps ==
    ASSUME TInv, FirstPass, criticmarkup_tokenize
    PROVE  FirstPass' /\ src' = src
<1>1. IInv /\ \A m \in Nodes : Fits(m)
  BY DEF TInv
<1>2. PICK par \in [Nodes -> Ref] : Shaped(par) /\ Placed(par)
  BY DEF TInv
<1>3. ASSUME frames # <<>>, n # NULL PROVE n \in Created
  <2>1. Depth \in 1..Depth /\ Top = frames[Depth]
    BY <1>1, <1>3, VisitFacts DEF Top
  <2> QED BY <1>2, <1>3, <2>1 DEF Placed, PlacedAt, n
<1>4. ASSUME frames # <<>>, n # NULL
      PROVE  /\ type[n] \in CriticTokens \cup {"sub_div"} /\ type[n] \notin Descendable
  BY <1>1, <1>3, <1>4, VisitedIsToken DEF CriticTokens, Descendable
<1>5. ASSUME frames # <<>>, n # NULL, JoinIfClosed
      PROVE  \E o : MakesPair(o) \/ LeavesTree
  <2>1. CASE Closes
    <3>1. Join(opener) /\ pass = 1
      BY <1>5, <2>1 DEF JoinIfClosed, FirstPass
    <3>2. type[opener] # "free"
      <4>1. type[opener] = rule.mate /\ rule.mate \in OpenTypes
        BY <1>1, <1>5, <2>1, OpenerIsMate, RuleFacts DEF Closes, Attempts, Handled, rule
      <4> QED BY <4>1 DEF OpenTypes
    <3>4. type[opener] = rule.mate
      BY <1>1, <1>5, <2>1, OpenerIsMate
    <3>3. MakesPair(opener)
      BY <1>1, <1>2, <1>5, <2>1, <3>1, <3>2, <3>4, JoinCritic DEF MakesPair
    <3> QED BY <3>3
  <2>2. CASE ~Closes
    BY <1>5, <2>2 DEF JoinIfClosed, tree, LeavesTree
  <2> QED BY <2>1, <2>2
<1>6. ASSUME NEW push \in BOOLEAN, frames # <<>>, n # NULL, Pass(push), UNCHANGED tree
      PROVE  FirstPass' /\ src' = src
  <2>1. Len(stack) \in Top.start..Len(stack) /\ LeavesTree
    BY <1>1, <1>6, VisitFacts DEF tree, LeavesTree
  <2> QED BY <1>1, <1>3, <1>6, <2>1, VisitKeepsTyped DEF Pass
<1>7. ASSUME NEW push \in BOOLEAN, frames # <<>>, n # NULL, Finish(push), JoinIfClosed, emph' = emph
      PROVE  FirstPass' /\ src' = src
  <2>1. Left \in Top.start..Len(stack)
    BY <1>1, <1>7, PopFacts
  <2>2. PICK o : MakesPair(o) \/ LeavesTree
    BY <1>5, <1>7
  <2> QED BY <1>1, <1>3, <1>7, <2>1, <2>2, VisitKeepsTyped DEF Finish
<1>8. CASE VisitOpener
  BY <1>6, <1>8 DEF VisitOpener, Visiting
<1>9. CASE VisitSubDivider
  BY <1>7, <1>9 DEF VisitSubDivider, Visiting
<1>10. CASE VisitCloser
  BY <1>7, <1>10 DEF VisitCloser, Visiting
<1>11. CASE Descend
  BY <1>4, <1>11 DEF Descend, Visiting
<1>12. CASE Skip
  BY <1>6, <1>12 DEF Skip
<1>13. CASE Return
  <2>1. frames' = <<>> /\ src' = src /\ tree' = tree /\ pass' = pass /\ emph' = emph
    <3>1. Depth = 1
      BY <1>1, <1>13, VisitFacts DEF Return, FirstPass
    <3> QED BY <1>13, <3>1 DEF Return
  <2>2. Nodes' = Nodes /\ Depth' = 0
    BY <2>1 DEF Nodes, NTok, Depth
  <2>3. ASSUME NEW m \in Nodes PROVE Typed(m)' /\ Measured(m)'
    <3>1. type' = type /\ len' = len /\ next' = next
      BY <2>1 DEF tree
    <3>2. Typed(m) /\ Measured(m)
      BY DEF FirstPass
    <3>3. Measured(m)'
      BY <2>1, <3>1, <3>2 DEF Measured, Even, Tok
    <3>4. CASE ~Even(m)
      <4>1. type'[m] = "free"
        BY <3>1, <3>2, <3>4 DEF Typed
      <4> QED BY <3>3, <3>4, <4>1 DEF Typed, Even
    <3>5. CASE Even(m) /\ type[m] = src[Tok(m)]
      <4>1. type'[m] = src'[Tok(m)]
        BY <2>1, <3>1, <3>5
      <4> QED BY <3>3, <3>5, <4>1 DEF Typed, Even, Tok
    <3>6. CASE Even(m) /\ type[m] # src[Tok(m)]
      <4>1. /\ type[m] \in CriticPairs /\ next[m] \in Nodes
            /\ src[Tok(next[m])] = CloserOf[type[m]] /\ src[Tok(m)] = OpenerOf[type[m]]
        BY <3>2, <3>6 DEF Typed
      <4>2. /\ type'[m] \in CriticPairs /\ next'[m] \in Nodes'
            /\ src'[Tok(next'[m])] = CloserOf[type'[m]] /\ src'[Tok(m)] = OpenerOf[type'[m]]
        BY <2>1, <2>2, <3>1, <4>1
      <4>3. ~(frames' # <<>>)
        BY <2>1
      <4>4. Typed(m)'
        BY <3>6, <4>2, <4>3 DEF Typed, Even, Tok
      <4> QED BY <3>3, <4>4
    <3> QED BY <3>4, <3>5, <3>6
  <2> QED BY <2>1, <2>2, <2>3 DEF FirstPass, NULL
<1> QED BY <1>8, <1>9, <1>10, <1>11, <1>12, <1>13 DEF criticmarkup_tokenize

\* What the tree of the paired tokens says of pairs and links.
LEMMA ShapeHolds ==
    ASSUME TInv, FirstPass, frames = <<>>
    PROVE  Shape
<1>1. PICK par \in [Nodes -> Ref] : Shaped(par)
  BY DEF TInv
<1>2. /\ src \in Inputs /\ next \in [Nodes -> Ref] /\ child \in [Nodes -> Ref] /\ NULL = 0
      /\ \A m \in Nodes : Fits(m) /\ Typed(m)
  BY DEF TInv, IInv, TypeOK, FirstPass, NULL
<1>3. Created = Tokens
  <2>1. \A m \in Nodes : Even(m) => type[m] # "free"
    BY <1>2, AllScanned DEF Fits
  <2>2. \A m \in Nodes : ~Even(m) => type[m] = "free"
    BY <1>2 DEF Typed
  <2> QED BY <2>1, <2>2 DEF Created, Tokens
<1> DEFINE C == Tokens
<1>4. \A m \in C : /\ m \in Nat /\ m # 0 /\ m >= 2 /\ m + 2 \in Spots /\ m \in Nodes
                   /\ \A k \in C : m < k => m + 2 <= k /\ m + 2 \in C
  <2>1. ASSUME NEW m \in C, NEW k \in C, m < k PROVE m + 2 <= k /\ m + 2 \in C
    <3>1. m + 2 <= k /\ m + 2 \in Spots /\ k < End /\ End \in Nat /\ k \in Nat /\ m \in Nat
      BY <1>2, <2>1, SpotFacts DEF Spots
    <3>2. m + 2 # End
      BY <3>1
    <3> QED BY <3>1, <3>2 DEF Spots
  <2>2. ASSUME NEW m \in C PROVE m \in Nat /\ m # 0 /\ m >= 2 /\ m + 2 \in Spots /\ m \in Nodes
    BY <1>2, <2>2, SpotFacts DEF NULL
  <2> QED BY <2>1, <2>2
<1>5. Tree(C, par, child, next, tail)
  BY <1>1, <1>3 DEF Shaped
<1>6. /\ \A m \in C : par[m] \in Nat /\ par[m] < m /\ (par[m] # 0 => par[m] \in C)
      /\ \A k, m \in C : par[k] < m /\ m < k => par[k] <= par[m]
  BY <1>5 DEF Tree, Preorder
<1>7. \A m \in C : /\ child[m] = 0 => \A k \in C : par[k] # m
                   /\ child[m] # 0 => child[m] \in C /\ par[child[m]] = m
                                      /\ \A k \in C : par[k] = m => child[m] <= k
  BY <1>5 DEF Tree, Heads
<1>8. \A m \in C : /\ next[m] = 0 => \A k \in C : par[k] = par[m] => k <= m
                   /\ next[m] # 0 => /\ next[m] \in C /\ par[next[m]] = par[m] /\ next[m] > m
                                     /\ \A k \in C : par[k] = par[m] /\ k > m => next[m] <= k
  BY <1>5 DEF Tree, Links
<1>9. \A m \in C : Joined(m) => next[m] \in C /\ m < next[m] /\ next[m] # 0
  <2> SUFFICES ASSUME NEW m \in C, Joined(m) PROVE next[m] # 0
    BY <1>8
  <2>1. Even(m) /\ Typed(m) /\ m \in Nodes
    BY <1>2 DEF Tokens
  <2>2. src[Tok(m)] \notin CriticPairs
    BY <1>2, <2>1, AllScanned DEF CriticTokens, CriticPairs
  <2>3. next[m] \in Nodes
    BY <2>1, <2>2 DEF Typed, Joined
  <2> QED BY <1>2, <2>3, TextFacts DEF Nodes
<1>10. \A m \in C : child[m] # 0 => Joined(m)
  <2> SUFFICES ASSUME NEW m \in C, child[m] # 0 PROVE Joined(m)
    OBVIOUS
  <2>1. Even(m) /\ Typed(m) /\ m \in Nodes /\ type[m] \in PairTypes
    BY <1>2 DEF Tokens, Fits
  <2>2. src[Tok(m)] \notin PairTypes
    BY <1>2, <2>1, AllScanned DEF CriticTokens, PairTypes
  <2> QED BY <2>1, <2>2 DEF Typed, Joined
<1>11. \A o, m \in C : o < m /\ (next[o] # 0 => m < next[o]) /\ (next[o] = 0 => par[o] <= par[m]) => o <= par[m]
  BY <1>5, BetweenIsBelow DEF NodeOf
<1>12. \A o, m \in C : Joined(o) /\ o < m /\ m < next[o] /\ next[m] # 0 => next[m] < next[o]
  <2> SUFFICES ASSUME NEW o \in C, NEW m \in C, Joined(o), o < m, m < next[o], next[m] # 0,
                      ~(next[m] < next[o])
               PROVE  FALSE
    OBVIOUS
  <2> DEFINE c == next[o]
             d == next[m]
  <2>1. c \in C /\ c # 0 /\ par[c] = par[o] /\ d \in C /\ par[d] = par[m] /\ m < d
    BY <1>8, <1>9
  <2>2. o <= par[m]
    BY <1>11, <2>1
  <2>3. /\ o \in Nat /\ m \in Nat /\ c \in Nat /\ d \in Nat /\ par[o] < o /\ par[o] \in Nat
        /\ par[m] \in Nat /\ par[m] < m /\ c <= d
    BY <1>4, <1>6, <2>1
  <2>4. c # d
    BY <2>1, <2>2, <2>3
  <2>5. par[d] < c /\ c < d
    BY <2>1, <2>3, <2>4
  <2>6. par[d] <= par[c]
    BY <1>6, <2>1, <2>5
  <2> HIDE DEF c, d
  <2> QED BY <2>1, <2>2, <2>3, <2>6
<1>13. \A m \in C : child[m] # 0 => child[m] = m + 2 /\ m + 2 < next[m]
  <2> SUFFICES ASSUME NEW m \in C, child[m] # 0 PROVE child[m] = m + 2 /\ m + 2 < next[m]
    OBVIOUS
  <2>1. child[m] \in C /\ par[child[m]] = m /\ m < child[m] /\ child[m] \in Nat /\ m \in Nat
    BY <1>4, <1>6, <1>7
  <2>2. m + 2 <= child[m] /\ m + 2 \in C
    BY <1>4, <2>1
  <2>3. child[m] <= m + 2
    <3>1. m < m + 2
      BY <2>1
    <3> QED BY <1>5, <2>2, <3>1, FirstChildIsNext DEF NodeOf
  <2>4. next[m] \in C /\ m < next[m] /\ par[next[m]] = par[m] /\ next[m] \in Nat
    BY <1>4, <1>8, <1>9, <1>10
  <2>5. m + 2 <= next[m]
    BY <1>4, <2>4
  <2>6. m + 2 # next[m]
    BY <1>6, <2>1, <2>2, <2>3, <2>4
  <2> QED BY <2>1, <2>2, <2>3, <2>4, <2>5, <2>6
<1>14. \A m \in C : child[m] = 0 /\ next[m] # 0 => next[m] = m + 2
  <2> SUFFICES ASSUME NEW m \in C, child[m] = 0, next[m] # 0 PROVE next[m] = m + 2
    OBVIOUS
  <2>1. next[m] \in C /\ m < next[m] /\ m + 2 <= next[m] /\ m + 2 \in C /\ m < m + 2
    BY <1>4, <1>8
  <2>2. next[m] <= m + 2
    <3> DEFINE j == m + 2
    <3>1. j \in C /\ m < j
      BY <2>1
    <3> HIDE DEF j
    <3>2. next[m] <= j
      BY <1>5, <3>1, NextIsSuccessor
    <3> QED BY <3>2 DEF j
  <2>3. next[m] \in Nat /\ m + 2 \in Nat
    BY <1>4, <2>1
  <2> QED BY <2>1, <2>2, <2>3
<1>15. \A m \in C : next[m] = 0 => m + 2 = End \/ \E o \in C : Joined(o) /\ o < m /\ next[o] = m + 2
  <2> SUFFICES ASSUME NEW m \in C, next[m] = 0, m + 2 # End
               PROVE  \E o \in C : Joined(o) /\ o < m /\ next[o] = m + 2
    OBVIOUS
  <2> DEFINE j == m + 2
             o == par[m]
  <2>1. j \in C /\ m < j /\ j \in Nat /\ m \in Nat
    BY <1>4 DEF Spots
  <2>2. child[m] = 0
    BY <1>9, <1>10
  <2>3. par[j] # m /\ par[j] \in Nat /\ par[j] < j /\ (par[j] # 0 => par[j] \in C)
    BY <1>6, <1>7, <2>1, <2>2
  <2>4. par[j] < m
    <3>1. CASE par[j] = 0
      BY <1>4, <3>1
    <3>2. CASE par[j] # 0
      <4>1. m < par[j] => m + 2 <= par[j]
        BY <1>4, <2>3, <3>2
      <4> QED BY <2>1, <2>3, <4>1
    <3> QED BY <3>1, <3>2
  <2>5. par[j] <= o
    BY <1>6, <2>1, <2>4
  <2>6. par[j] # o
    BY <1>4, <1>8, <2>1
  <2>7. o \in C /\ o \in Nat /\ o < m /\ o # 0
    <3>1. o \in Nat /\ o < m /\ (o # 0 => o \in C)
      BY <1>6
    <3> QED BY <2>3, <2>5, <2>6, <3>1
  <2>8. Joined(o) /\ next[o] \in C /\ next[o] # 0 /\ o < next[o] /\ par[next[o]] = par[o]
        /\ par[o] < o /\ par[o] \in Nat /\ next[o] \in Nat
    <3>1. child[o] # 0
      BY <1>7, <2>7
    <3> QED BY <1>4, <1>6, <1>8, <1>9, <1>10, <2>7, <3>1
  <2> HIDE DEF o, j
  <2>9. m < next[o]
    <3>1. next[o] # m
      BY <2>7, <2>8 DEF o
    <3>2. ~(next[o] < m)
      <4> SUFFICES ASSUME next[o] < m PROVE FALSE
        OBVIOUS
      <4>1. par[m] <= par[next[o]]
        BY <1>6, <2>8 DEF o
      <4> QED BY <2>7, <2>8, <4>1 DEF o
    <3> QED BY <2>1, <2>8, <3>1, <3>2
  <2>10. ~(j < next[o])
    <3> SUFFICES ASSUME j < next[o] PROVE FALSE
      OBVIOUS
    <3>1. o < j
      BY <2>1, <2>7
    <3>2. o <= par[j]
      BY <1>11, <2>1, <2>7, <2>8, <3>1
    <3> QED BY <2>3, <2>5, <2>6, <2>7, <3>2
  <2>11. next[o] = j
    <3>1. j <= next[o]
      BY <1>4, <2>8, <2>9 DEF j
    <3> QED BY <2>1, <2>8, <2>10, <3>1
  <2> QED BY <2>7, <2>8, <2>11 DEF j
<1>16. \A a, b \in C : next[a] = next[b] /\ next[a] # 0 => a = b
  <2> SUFFICES ASSUME NEW a \in C, NEW b \in C, next[a] = next[b], next[a] # 0 PROVE a = b
    OBVIOUS
  <2>1. par[a] = par[b] /\ Links(C, par, next) /\ C \subseteq Nat
    BY <1>4, <1>5, <1>8 DEF Tree
  <2> QED BY <2>1, PrevIsUnique
<1>18. \A m \in C : Joined(m) /\ type[m] # "p_sub_del" => ~Joined(next[m])
  <2> SUFFICES ASSUME NEW m \in C, Joined(m), type[m] # "p_sub_del", Joined(next[m]) PROVE FALSE
    OBVIOUS
  <2>1. next[m] \in C /\ type[m] \in CriticPairs /\ type[next[m]] \in CriticPairs
    BY <1>9 DEF Joined
  <2>2. \A k \in C : /\ k \in Nodes /\ Even(k) /\ Typed(k)
                     /\ src[Tok(k)] \in CriticTokens \cup {"sub_div"}
    BY <1>2, AllScanned DEF Tokens
  <2>3. \A k \in C : type[k] \in CriticPairs =>
            src[Tok(k)] = OpenerOf[type[k]] /\ src[Tok(next[k])] = CloserOf[type[k]]
    <3> SUFFICES ASSUME NEW k \in C, type[k] \in CriticPairs
                 PROVE  src[Tok(k)] = OpenerOf[type[k]] /\ src[Tok(next[k])] = CloserOf[type[k]]
      OBVIOUS
    <3>1. type[k] # src[Tok(k)]
      BY <2>2 DEF CriticTokens, CriticPairs
    <3> QED BY <2>2, <3>1 DEF Typed
  <2>4. OpenerOf[type[next[m]]] = CloserOf[type[m]]
    BY <2>1, <2>3
  <2> QED BY <2>1, <2>4 DEF OpenerOf, CloserOf, CriticPairs
<1>17. \A m \in C : next[m] # 0 => next[m] \in C /\ m < next[m]
  BY <1>8
<1> QED BY <1>2, <1>9, <1>10, <1>12, <1>13, <1>14, <1>15, <1>16, <1>17, <1>18 DEF Shape

\* Erasing the bytes from p on takes them out and leaves the others as they were.
LEMMA EraseLaid ==
    ASSUME NEW buf, NEW d, NEW text \in Nat, NEW p, Laid(buf, d, text, p),
           NEW size \in Nat, p + size <= text,
           NEW buf2, buf2 = [i \in 1..(Len(buf) - size) |-> IF i <= p - d THEN buf[i] ELSE buf[i + size]]
    PROVE  Laid(buf2, d + size, text, p + size) /\ Kept(buf2, (p + size) - (d + size)) = Kept(buf, p - d)
<1> DEFINE m == text - d - size
<1>1. /\ p \in Nat /\ p <= text /\ d \in Nat /\ d <= p /\ Len(buf) = text - d
      /\ \A i \in 1..(text - d) : buf[i] \in 0..(text - 1)
      /\ \A b \in p..(text - 1) : buf[b - d + 1] = b
      /\ \A i \in 1..(p - d) : buf[i] < p
      /\ \A i \in 1..(text - d - 1) : buf[i] < buf[i + 1]
  BY DEF Laid
<1>2. m \in Nat /\ Len(buf) - size = m /\ text - (d + size) = m /\ (p + size) - (d + size) = p - d
      /\ p - d <= m /\ m <= text - d /\ p - d \in Nat
  BY <1>1
<1>3. buf2 = [i \in 1..m |-> IF i <= p - d THEN buf[i] ELSE buf[i + size]]
  BY <1>2
<1> HIDE DEF m
<1>4. \A i \in 1..(p - d) : buf2[i] = buf[i]
  BY <1>1, <1>2, <1>3
<1>5. \A i \in 1..m : p - d < i => buf2[i] = i + size - 1 + d
  <2> SUFFICES ASSUME NEW i \in 1..m, p - d < i PROVE buf2[i] = i + size - 1 + d
    OBVIOUS
  <2>1. buf2[i] = buf[i + size]
    BY <1>1, <1>2, <1>3
  <2> DEFINE b == i + size - 1 + d
  <2>2. b \in p..(text - 1) /\ b - d + 1 = i + size
    BY <1>1, <1>2 DEF m
  <2>3. buf[b - d + 1] = b
    BY <1>1, <2>2
  <2> QED BY <2>1, <2>2, <2>3
<1>6. \A i \in 1..m : buf2[i] \in 0..(text - 1)
  <2> SUFFICES ASSUME NEW i \in 1..m PROVE buf2[i] \in 0..(text - 1)
    OBVIOUS
  <2>1. CASE i <= p - d
    <3>1. i \in 1..(p - d) /\ i \in 1..(text - d)
      BY <1>1, <1>2, <2>1
    <3> QED BY <1>1, <1>4, <3>1
  <2>2. CASE ~(i <= p - d)
    <3>1. buf2[i] = i + size - 1 + d
      BY <1>1, <1>2, <1>5, <2>2
    <3> QED BY <1>1, <1>2, <3>1 DEF m
  <2> QED BY <2>1, <2>2
<1>7. Len(buf2) = m /\ DOMAIN buf2 = 1..m
  <2>1. DOMAIN buf2 = 1..m
    BY <1>3
  <2>2. buf2 \in [1..m -> 0..(text - 1)]
    BY <1>3, <1>6
  <2>3. buf2 \in Seq(0..(text - 1))
    BY <1>2, <2>2, SeqDef
  <2>4. Len(buf2) \in Nat /\ DOMAIN buf2 = 1..Len(buf2)
    BY <2>3, LenProperties
  <2> QED BY <1>2, <2>1, <2>4
<1>8. \A b \in (p + size)..(text - 1) : buf2[b - (d + size) + 1] = b
  <2> SUFFICES ASSUME NEW b \in (p + size)..(text - 1) PROVE buf2[b - (d + size) + 1] = b
    OBVIOUS
  <2> DEFINE i == b - (d + size) + 1
  <2>1. i \in 1..m /\ p - d < i /\ i + size - 1 + d = b
    BY <1>1, <1>2 DEF m
  <2>2. buf2[i] = i + size - 1 + d
    BY <1>5, <2>1
  <2> QED BY <2>1, <2>2
<1>9. \A i \in 1..(p - d) : buf2[i] < p + size
  <2> SUFFICES ASSUME NEW i \in 1..(p - d) PROVE buf2[i] < p + size
    OBVIOUS
  <2>1. buf2[i] = buf[i] /\ buf[i] < p /\ i \in 1..(text - d)
    BY <1>1, <1>2, <1>4
  <2>2. buf[i] \in Nat
    BY <1>1, <2>1
  <2> QED BY <1>1, <2>1, <2>2
<1>10. \A i \in 1..(m - 1) : buf2[i] < buf2[i + 1]
  <2> SUFFICES ASSUME NEW i \in 1..(m - 1) PROVE buf2[i] < buf2[i + 1]
    OBVIOUS
  <2>0. i \in Nat /\ i \in 1..m /\ i + 1 \in 1..m
    BY <1>2
  <2>1. CASE i + 1 <= p - d
    <3>1. buf2[i] = buf[i] /\ buf2[i + 1] = buf[i + 1] /\ i \in 1..(text - d - 1)
      BY <1>1, <1>2, <1>4, <2>0, <2>1
    <3> QED BY <1>1, <3>1
  <2>2. CASE i = p - d
    <3>1. buf2[i] = buf[i] /\ buf[i] < p /\ buf2[i + 1] = i + 1 + size - 1 + d /\ i \in 1..(text - d)
      BY <1>1, <1>2, <1>4, <1>5, <2>0, <2>2
    <3>2. buf[i] \in Nat
      BY <1>1, <3>1
    <3> QED BY <1>1, <2>0, <2>2, <3>1, <3>2
  <2>3. CASE p - d < i
    <3> DEFINE j == i + 1
    <3>1. j \in 1..m /\ p - d < j
      BY <1>1, <2>0, <2>3
    <3> HIDE DEF j
    <3>2. buf2[i] = i + size - 1 + d /\ buf2[j] = j + size - 1 + d
      BY <1>5, <2>0, <2>3, <3>1
    <3> QED BY <1>1, <2>0, <3>2 DEF j
  <2> QED BY <1>1, <1>2, <2>0, <2>1, <2>2, <2>3
<1>11. Laid(buf2, d + size, text, p + size)
  <2>1. p + size \in 0..text /\ d + size \in 0..(p + size)
    BY <1>1
  <2> QED BY <1>2, <1>6, <1>7, <1>8, <1>9, <1>10, <2>1 DEF Laid
<1>12. Kept(buf2, (p + size) - (d + size)) = Kept(buf, p - d)
  BY <1>2, <1>4 DEF Kept
<1> QED BY <1>11, <1>12

\* Walking on to q passes the bytes from p on, which stay.
LEMMA KeepLaid ==
    ASSUME NEW buf, NEW d, NEW text \in Nat, NEW p, Laid(buf, d, text, p),
           NEW q \in Nat, p <= q, q <= text
    PROVE  Laid(buf, d, text, q) /\ Kept(buf, q - d) = Kept(buf, p - d) \cup (p..(q - 1))
<1>1. /\ p \in Nat /\ p <= text /\ d \in Nat /\ d <= p /\ Len(buf) = text - d
      /\ \A i \in 1..(text - d) : buf[i] \in 0..(text - 1)
      /\ \A b \in p..(text - 1) : buf[b - d + 1] = b
      /\ \A i \in 1..(p - d) : buf[i] < p
      /\ \A i \in 1..(text - d - 1) : buf[i] < buf[i + 1]
  BY DEF Laid
<1>2. \A i \in 1..(q - d) : p - d < i => buf[i] = i - 1 + d
  <2> SUFFICES ASSUME NEW i \in 1..(q - d), p - d < i PROVE buf[i] = i - 1 + d
    OBVIOUS
  <2> DEFINE b == i - 1 + d
  <2>1. b \in p..(text - 1) /\ b - d + 1 = i
    BY <1>1
  <2>2. buf[b - d + 1] = b
    BY <1>1, <2>1
  <2> QED BY <2>1, <2>2
<1>3. \A i \in 1..(q - d) : buf[i] < q
  <2> SUFFICES ASSUME NEW i \in 1..(q - d) PROVE buf[i] < q
    OBVIOUS
  <2>1. CASE i <= p - d
    <3>1. i \in 1..(p - d) /\ i \in 1..(text - d)
      BY <1>1, <2>1
    <3>2. buf[i] < p /\ buf[i] \in Nat
      BY <1>1, <3>1
    <3> QED BY <1>1, <3>2
  <2>2. CASE ~(i <= p - d)
    <3>1. buf[i] = i - 1 + d
      BY <1>1, <1>2, <2>2
    <3> QED BY <1>1, <3>1
  <2> QED BY <2>1, <2>2
<1>4. \A b \in q..(text - 1) : buf[b - d + 1] = b
  <2>1. q..(text - 1) \subseteq p..(text - 1)
    BY <1>1
  <2> QED BY <1>1, <2>1
<1>5. Laid(buf, d, text, q)
  <2>1. q \in 0..text /\ d \in 0..q
    BY <1>1
  <2> QED BY <1>3, <1>4, <2>1 DEF Laid
<1>6. ASSUME NEW b PROVE b \in Kept(buf, q - d) <=> b \in Kept(buf, p - d) \/ b \in p..(q - 1)
  <2>1. ASSUME b \in Kept(buf, q - d) PROVE b \in Kept(buf, p - d) \/ b \in p..(q - 1)
    <3>1. PICK i \in 1..(q - d) : b = buf[i]
      BY <2>1 DEF Kept
    <3>2. CASE i <= p - d
      <4>1. i \in 1..(p - d)
        BY <1>1, <3>2
      <4> QED BY <3>1, <4>1 DEF Kept
    <3>3. CASE ~(i <= p - d)
      <4>1. buf[i] = i - 1 + d
        BY <1>1, <1>2, <3>3
      <4> QED BY <1>1, <3>1, <3>3, <4>1
    <3> QED BY <3>2, <3>3
  <2>2. ASSUME b \in Kept(buf, p - d) PROVE b \in Kept(buf, q - d)
    <3>1. PICK i \in 1..(p - d) : b = buf[i]
      BY <2>2 DEF Kept
    <3>2. i \in 1..(q - d)
      BY <1>1
    <3> QED BY <3>1, <3>2 DEF Kept
  <2>3. ASSUME b \in p..(q - 1) PROVE b \in Kept(buf, q - d)
    <3>1. b - d + 1 \in 1..(q - d) /\ b \in p..(text - 1)
      BY <1>1, <2>3
    <3>2. buf[b - d + 1] = b
      BY <1>1, <3>1
    <3> QED BY <3>1, <3>2 DEF Kept
  <2> QED BY <2>1, <2>2, <2>3
<1>7. Kept(buf, q - d) = Kept(buf, p - d) \cup (p..(q - 1))
  BY <1>6
<1> QED BY <1>5, <1>7

\* The text does not change, so tokens start where they did.
LEMMA StartStays ==
    ASSUME src' = src
    PROVE  /\ \A m : Start(m)' = Start(m)
           /\ TextLen' = TextLen
<1>1. ASSUME NEW m PROVE Start(m)' = Start(m)
 BY DEF Start, Length, Tok, NTok, InitialLen
<1>2. TextLen' = TextLen
  BY <1>1 DEF TextLen, Length, NTok, Start
<1> QED BY <1>1, <1>2
\* The walk leaves the shape as it is ...
LEMMA ShapeStays ==
    ASSUME UNCHANGED <<vars, call>>
    PROVE  Shape' <=> Shape
<1>1. type' = type /\ next' = next /\ child' = child /\ src' = src
  BY DEF vars, tree
<1>2. Tokens' = Tokens /\ End' = End
  BY <1>1 DEF Tokens, Nodes, NTok, Even, End
<1> QED BY <1>1, <1>2 DEF Shape, Joined
\* ... and what is asked of it.
LEMMA TargetStays ==
    ASSUME UNCHANGED <<vars, call>>
    PROVE  Target' = Target /\ (Nested' <=> Nested)
<1>1. type' = type /\ next' = next /\ len' = len /\ src' = src /\ call' = call
  BY DEF vars, tree
<1>2. Nodes' = Nodes
  BY <1>1 DEF Nodes, NTok
<1>3. (\A m : Start(m)' = Start(m)) /\ TextLen' = TextLen
  BY <1>1, StartStays
<1>4. \A m : Of(m)' = Of(m)
  BY <1>1, <1>3 DEF Of
<1>5. \A m : Of(next[m])' = Of(next[m])
  BY <1>1, <1>3 DEF Of
<1>6. \A m : Between(m)' = Between(m)
  BY <1>1, <1>3 DEF Between
<1>7. \A t : Change(t)' = Change(t)
  BY <1>1, <1>2 DEF Change
<1>8. \A types : Markers(types)' = Markers(types)
  BY <1>4, <1>5, <1>7 DEF Markers
<1>9. \A types : AllOf(types)' = AllOf(types)
  BY <1>6, <1>7 DEF AllOf
<1>10. OldText' = OldText
  BY <1>1, <1>3, <1>7 DEF OldText
<1>11. (UNION {Of(m) : m \in Change("p_sub_del")})' = UNION {Of(m) : m \in Change("p_sub_del")}
  BY <1>4, <1>7
<1>12. Bytes' = Bytes
  BY <1>3 DEF Bytes
<1>13. Accepted' = Accepted /\ Rejected' = Rejected
  BY <1>8, <1>9, <1>10, <1>11, <1>12 DEF Accepted, Rejected
<1>14. Nested' <=> Nested
  BY <1>1, <1>2, <1>3 DEF Nested
<1> QED BY <1>1, <1>13, <1>14 DEF Target

\* What the walk relies on about the tokens
Ready == /\ src \in Inputs /\ call \in {"accept", "reject"} /\ Shape
         /\ \A m \in Nodes : Typed(m) /\ Measured(m)

\* The bytes that must go, change by change
Upto(m) == IF type[m] = "p_sub_del" THEN Start(next[m]) ELSE Start(next[m]) + len[next[m]]
Gone(b) ==
    \E m \in Tokens : \/ type[m] \in Erased /\ b \in Start(m)..(Upto(m) - 1)
                      \/ type[m] \in Unwrapped(call) /\ b \in Of(m)
                      \/ type[m] \in Unwrapped(call) \ {"p_sub_del"} /\ b \in Of(next[m])

\* A node of one of the kinds of changes is a token that opens it.
LEMMA ChangesAreTokens ==
    ASSUME Ready, NEW m \in Nodes, type[m] \in CriticPairs
    PROVE  m \in Tokens
<1>1. Typed(m)
  BY DEF Ready
<1>2. Even(m)
  BY <1>1 DEF Typed, CriticPairs
<1> QED BY <1>2 DEF Tokens

\* What accepting or rejecting should leave are the bytes that need not go.
LEMMA TargetFacts ==
    ASSUME Ready
    PROVE  \A b : b \in Target <=> b \in Bytes /\ ~Gone(b)
<1> SUFFICES ASSUME NEW b PROVE b \in Target <=> b \in Bytes /\ ~Gone(b)
  OBVIOUS
<1>0. Tokens \subseteq Nodes
  BY DEF Tokens
<1>1. ASSUME NEW types, types \subseteq CriticPairs
      PROVE  b \in Markers(types) <=> \E m \in Tokens : type[m] \in types /\ (b \in Of(m) \/ b \in Of(next[m]))
  <2>1. b \in Markers(types) <=> \E m \in Nodes : type[m] \in types /\ (b \in Of(m) \/ b \in Of(next[m]))
    BY DEF Markers, Change
  <2> QED BY <1>0, <1>1, <2>1, ChangesAreTokens
<1>2. ASSUME NEW types, types \subseteq CriticPairs \ {"p_sub_del"}
      PROVE  b \in AllOf(types) <=> \E m \in Tokens : type[m] \in types /\ b \in Start(m)..(Upto(m) - 1)
  <2>1. b \in AllOf(types) <=> \E m \in Nodes : type[m] \in types /\ b \in Between(m)
    BY DEF AllOf, Change
  <2>2. \A m \in Nodes : type[m] \in types => m \in Tokens /\ type[m] # "p_sub_del" /\ Joined(m)
    BY <1>2, ChangesAreTokens DEF Joined
  <2>3. b \in AllOf(types) <=> \E m \in Tokens : type[m] \in types /\ b \in Between(m)
    BY <1>0, <2>1, <2>2
  <2>4. \A m \in Tokens : type[m] \in types => Between(m) = Start(m)..(Upto(m) - 1)
    <3> SUFFICES ASSUME NEW m \in Tokens, type[m] \in types PROVE Between(m) = Start(m)..(Upto(m) - 1)
      OBVIOUS
    <3>1. type[m] # "p_sub_del" /\ next[m] \in Tokens
      BY <1>0, <2>2 DEF Ready, Shape
    <3>2. Start(next[m]) \in Nat /\ len[next[m]] \in {2, 3}
      BY <3>1, StartFacts DEF Ready, Spots
    <3>3. Upto(m) = Start(next[m]) + len[next[m]]
      BY <3>1 DEF Upto
    <3>4. Upto(m) - 1 = Start(next[m]) + (len[next[m]] - 1)
      BY <3>2, <3>3
    <3> QED BY <3>4 DEF Between
  <2> QED BY <2>3, <2>4
<1>3. b \in OldText <=> \E m \in Tokens : type[m] = "p_sub_del" /\ b \in Start(m)..(Start(next[m]) - 1)
  <2>1. b \in OldText <=> \E m \in Nodes : type[m] = "p_sub_del" /\ b \in Start(m)..(Start(next[m]) - 1)
    BY DEF OldText, Change
  <2>2. "p_sub_del" \in CriticPairs
    BY DEF CriticPairs
  <2> QED BY <1>0, <2>1, <2>2, ChangesAreTokens
<1>4. b \in UNION {Of(m) : m \in Change("p_sub_del")} <=> \E m \in Tokens : type[m] = "p_sub_del" /\ b \in Of(m)
  <2>1. b \in UNION {Of(m) : m \in Change("p_sub_del")} <=> \E m \in Nodes : type[m] = "p_sub_del" /\ b \in Of(m)
    BY DEF Change
  <2>2. "p_sub_del" \in CriticPairs
    BY DEF CriticPairs
  <2> QED BY <1>0, <2>1, <2>2, ChangesAreTokens
<1>6. \A m : type[m] = "p_sub_del" => Start(m)..(Start(next[m]) - 1) = Start(m)..(Upto(m) - 1)
  BY DEF Upto
<1>7. CASE call = "accept"
  <2>1. Target = Accepted /\ Erased = {"p_del", "p_com", "p_sub_del"}
        /\ Unwrapped(call) = {"p_add", "p_sub_add", "p_hi"}
    BY <1>7 DEF Target, Erased, Unwrapped
  <2>2. /\ {"p_add", "p_sub_add", "p_hi"} \subseteq CriticPairs /\ {"p_del", "p_com"} \subseteq CriticPairs \ {"p_sub_del"}
    BY DEF CriticPairs
  <2>3. b \in Accepted <=> /\ b \in Bytes /\ b \notin Markers({"p_add", "p_sub_add", "p_hi"})
                           /\ b \notin AllOf({"p_del", "p_com"}) /\ b \notin OldText
    BY DEF Accepted
  <2>4. Gone(b) <=> \E m \in Tokens : \/ type[m] \in {"p_del", "p_com", "p_sub_del"} /\ b \in Start(m)..(Upto(m) - 1)
                                      \/ type[m] \in {"p_add", "p_sub_add", "p_hi"} /\ b \in Of(m)
                                      \/ type[m] \in {"p_add", "p_sub_add", "p_hi"} /\ b \in Of(next[m])
    BY <2>1 DEF Gone
  <2>5. b \in Markers({"p_add", "p_sub_add", "p_hi"}) <=>
            \E m \in Tokens : type[m] \in {"p_add", "p_sub_add", "p_hi"} /\ (b \in Of(m) \/ b \in Of(next[m]))
    BY <1>1, <2>2
  <2>6. b \in AllOf({"p_del", "p_com"}) <=>
            \E m \in Tokens : type[m] \in {"p_del", "p_com"} /\ b \in Start(m)..(Upto(m) - 1)
    BY <1>2, <2>2
  <2>7. b \in OldText <=> \E m \in Tokens : type[m] = "p_sub_del" /\ b \in Start(m)..(Upto(m) - 1)
    BY <1>3, <1>6, Zenon
  <2> QED BY <2>1, <2>3, <2>4, <2>5, <2>6, <2>7, Zenon
<1>8. CASE call = "reject"
  <2>1. Target = Rejected /\ Erased = {"p_add", "p_sub_add", "p_com"}
        /\ Unwrapped(call) = {"p_del", "p_sub_del", "p_hi"}
    BY <1>8 DEF Target, Erased, Unwrapped
  <2>2. /\ {"p_del", "p_hi"} \subseteq CriticPairs /\ {"p_add", "p_sub_add", "p_com"} \subseteq CriticPairs \ {"p_sub_del"}
    BY DEF CriticPairs
  <2>3. b \in Rejected <=> /\ b \in Bytes /\ b \notin Markers({"p_del", "p_hi"})
                           /\ b \notin UNION {Of(m) : m \in Change("p_sub_del")}
                           /\ b \notin AllOf({"p_add", "p_sub_add", "p_com"})
    BY DEF Rejected
  <2>4. Gone(b) <=> \E m \in Tokens : \/ type[m] \in {"p_add", "p_sub_add", "p_com"} /\ b \in Start(m)..(Upto(m) - 1)
                                      \/ type[m] \in {"p_del", "p_sub_del", "p_hi"} /\ b \in Of(m)
                                      \/ type[m] \in {"p_del", "p_hi"} /\ b \in Of(next[m])
    BY <2>1 DEF Gone
  <2>5. b \in Markers({"p_del", "p_hi"}) <=>
            \E m \in Tokens : type[m] \in {"p_del", "p_hi"} /\ (b \in Of(m) \/ b \in Of(next[m]))
    BY <1>1, <2>2
  <2>6. b \in AllOf({"p_add", "p_sub_add", "p_com"}) <=>
            \E m \in Tokens : type[m] \in {"p_add", "p_sub_add", "p_com"} /\ b \in Start(m)..(Upto(m) - 1)
    BY <1>2, <2>2
  <2>7. \A m : type[m] \in {"p_del", "p_sub_del", "p_hi"} <=> type[m] = "p_sub_del" \/ type[m] \in {"p_del", "p_hi"}
    OBVIOUS
  <2> QED BY <1>4, <2>1, <2>3, <2>4, <2>5, <2>6, <2>7, Zenon
<1> QED BY <1>7, <1>8 DEF Ready

\* Where the bytes of tokens are, and what the kinds of changes are
LEMMA ReadyFacts ==
    ASSUME Ready
    PROVE  /\ TextLen \in Nat /\ Start(End) = TextLen /\ Start(2) = 1
           /\ \A m \in Tokens : /\ Start(m) \in Nat /\ Start(m) >= 1 /\ len[m] \in Nat /\ len[m] >= 1
                                /\ m \in Spots /\ m \in Nat /\ m # NULL /\ m >= 2 /\ m < End
                                /\ m + 2 \in Spots /\ m + 2 \in Nat
                                /\ Start(m + 2) = Start(m) + len[m] + 1
           /\ \A m \in Spots : Start(m) \in Nat /\ m \in Nat /\ m # NULL /\ Start(m) <= TextLen
           /\ \A x, y \in Spots : x < y => Start(x) + len[x] + 1 <= Start(y) /\ x + 2 <= y
           /\ \A m \in Tokens : Joined(m) => next[m] \in Tokens /\ m < next[m]
           /\ \A m \in Tokens : type[m] \in Erased \/ type[m] \in Unwrapped(call) => Joined(m)
           /\ \A t : t \in Unwrapped(call) => t \notin Erased
<1>1. src \in Inputs /\ \A m \in Nodes : Measured(m)
  BY DEF Ready
<1>2. /\ TextLen \in Nat /\ Start(End) = TextLen /\ Start(2) = 1
      /\ \A m \in Spots : Start(m) \in Nat /\ Start(m) >= 1 /\ Start(m) <= TextLen
      /\ \A m \in Tokens : len[m] \in {2, 3} /\ Start(m + 2) = Start(m) + len[m] + 1
      /\ \A x, y \in Spots : x < y => Start(x) + len[x] + 1 <= Start(y)
  BY <1>1, StartFacts
<1>3. /\ \A m \in Tokens : m \in Nat /\ m # NULL /\ m >= 2 /\ m < End /\ m + 2 \in Spots /\ m \in Spots
      /\ \A m \in Spots : m \in Nat /\ m # NULL
      /\ \A x, y \in Spots : x < y => x + 2 <= y
  BY <1>1, SpotFacts DEF Spots
<1>4. \A m \in Tokens : Joined(m) => next[m] \in Tokens /\ m < next[m]
  BY DEF Ready, Shape
<1>5. \A m \in Tokens : type[m] \in Erased \/ type[m] \in Unwrapped(call) => Joined(m)
  BY DEF Ready, Erased, Unwrapped, Joined, CriticPairs
<1>6. \A t : t \in Unwrapped(call) => t \notin Erased
  BY DEF Ready, Erased, Unwrapped
<1>7. \A m \in Tokens : len[m] \in Nat /\ len[m] >= 1
  BY <1>2
<1> QED BY <1>2, <1>3, <1>4, <1>5, <1>6, <1>7

\* A token that was reached only past what goes stays, unless it closes a
\* change whose closer goes.
LEMMA TokenStays ==
    ASSUME Ready, NEW x \in Tokens, ~Joined(x), Clear(x),
           \A m \in Tokens : Joined(m) /\ next[m] = x => type[m] = "p_sub_del",
           NEW b \in Start(x)..(Start(x) + len[x] - 1)
    PROVE  ~Gone(b)
<1>1. /\ x \in Spots /\ x \in Nat /\ Start(x) \in Nat /\ len[x] \in Nat
      /\ b \in Nat /\ Start(x) <= b /\ b < Start(x) + len[x]
  BY ReadyFacts
<1>2. ASSUME NEW m \in Tokens, type[m] \in Erased, b \in Start(m)..(Upto(m) - 1) PROVE FALSE
  <2>1. /\ Joined(m) /\ m \in Spots /\ m \in Nat /\ next[m] \in Tokens /\ next[m] \in Spots
        /\ next[m] \in Nat
        /\ Start(m) \in Nat /\ Start(next[m]) \in Nat /\ len[next[m]] \in Nat /\ len[m] \in Nat
    BY <1>2, ReadyFacts
  <2>2. Upto(m) \in Nat /\ Upto(m) <= Start(next[m]) + len[next[m]]
    BY <2>1 DEF Upto
  <2>3. ~(x < m)
    <3>1. x < m => Start(x) + len[x] + 1 <= Start(m)
      BY <1>1, <2>1, ReadyFacts
    <3> QED BY <1>1, <1>2, <2>1, <2>2, <3>1
  <2>4. m # x
    BY <2>1
  <2>5. m < x /\ next[m] <= x
    BY <1>1, <1>2, <2>1, <2>3, <2>4 DEF Clear
  <2>6. CASE next[m] < x
    <3>1. Start(next[m]) + len[next[m]] + 1 <= Start(x)
      BY <1>1, <2>1, <2>6, ReadyFacts
    <3> QED BY <1>1, <1>2, <2>1, <2>2, <3>1
  <2>7. CASE next[m] = x
    <3>1. Upto(m) = Start(x)
      BY <2>1, <2>7 DEF Upto
    <3> QED BY <1>1, <1>2, <2>1, <3>1
  <2>8. next[m] < x \/ next[m] = x
    BY <1>1, <2>1, <2>5
  <2> QED BY <2>6, <2>7, <2>8
<1>3. ASSUME NEW m \in Tokens, b \in Of(m) PROVE m = x
  <2>1. /\ m \in Spots /\ m \in Nat /\ Start(m) \in Nat /\ len[m] \in Nat
        /\ Start(m) <= b /\ b < Start(m) + len[m]
    <3>1. m \in Spots /\ m \in Nat /\ Start(m) \in Nat /\ len[m] \in Nat
      BY ReadyFacts
    <3> QED BY <1>1, <1>3, <3>1 DEF Of
  <2>2. x < m => Start(x) + len[x] + 1 <= Start(m)
    BY <1>1, <2>1, ReadyFacts
  <2>3. m < x => Start(m) + len[m] + 1 <= Start(x)
    BY <1>1, <2>1, ReadyFacts
  <2> QED BY <1>1, <2>1, <2>2, <2>3
<1>4. ASSUME NEW m \in Tokens, type[m] \in Unwrapped(call) PROVE b \notin Of(m)
  BY <1>3, <1>4, ReadyFacts
<1>5. ASSUME NEW m \in Tokens, type[m] \in Unwrapped(call) \ {"p_sub_del"} PROVE b \notin Of(next[m])
  BY <1>3, <1>5, ReadyFacts
<1> QED BY <1>2, <1>4, <1>5 DEF Gone

\* The byte of plain text behind a token stays where no change goes that began
\* before it.
LEMMA PlainStays ==
    ASSUME Ready, NEW x \in Tokens, Clear(x), type[x] \notin Erased
    PROVE  ~Gone(Start(x) + len[x])
<1> DEFINE b == Start(x) + len[x]
<1>1. /\ x \in Spots /\ x \in Nat /\ Start(x) \in Nat /\ len[x] \in Nat /\ b \in Nat
  BY ReadyFacts
<1>2. b = Start(x) + len[x]
  OBVIOUS
<1> HIDE DEF b
<1>3. ASSUME NEW m \in Tokens, type[m] \in Erased, b \in Start(m)..(Upto(m) - 1) PROVE FALSE
  <2>1. /\ Joined(m) /\ m \in Spots /\ m \in Nat /\ next[m] \in Tokens /\ next[m] \in Spots
        /\ next[m] \in Nat
        /\ Start(m) \in Nat /\ Start(next[m]) \in Nat /\ len[next[m]] \in Nat /\ len[m] \in Nat
    BY <1>3, ReadyFacts
  <2>2. Upto(m) \in Nat /\ Upto(m) <= Start(next[m]) + len[next[m]]
    BY <2>1 DEF Upto
  <2>3. ~(x < m)
    <3>1. x < m => Start(x) + len[x] + 1 <= Start(m)
      BY <1>1, <2>1, ReadyFacts
    <3> QED BY <1>1, <1>2, <1>3, <2>1, <2>2, <3>1
  <2>4. m # x
    BY <1>3
  <2>5. m < x /\ next[m] <= x
    BY <1>1, <1>3, <2>1, <2>3, <2>4 DEF Clear
  <2>6. CASE next[m] < x
    <3>1. Start(next[m]) + len[next[m]] + 1 <= Start(x)
      BY <1>1, <2>1, <2>6, ReadyFacts
    <3> QED BY <1>1, <1>2, <1>3, <2>1, <2>2, <3>1
  <2>7. CASE next[m] = x
    <3>1. Upto(m) <= Start(x) + len[x]
      BY <2>2, <2>7
    <3> QED BY <1>1, <1>2, <1>3, <2>1, <2>2, <3>1
  <2> QED BY <1>1, <2>1, <2>5, <2>6, <2>7
<1>4. ASSUME NEW m \in Tokens PROVE b \notin Of(m)
  <2>1. m \in Spots /\ m \in Nat /\ Start(m) \in Nat /\ len[m] \in Nat
    BY ReadyFacts
  <2>2. x < m => Start(x) + len[x] + 1 <= Start(m)
    BY <1>1, <2>1, ReadyFacts
  <2>3. m < x => Start(m) + len[m] + 1 <= Start(x)
    BY <1>1, <2>1, ReadyFacts
  <2> QED BY <1>1, <1>2, <2>1, <2>2, <2>3 DEF Of
<1>5. ASSUME NEW m \in Tokens, type[m] \in Unwrapped(call) PROVE b \notin Of(next[m])
  BY <1>4, <1>5, ReadyFacts
<1>6. ~Gone(b)
  BY <1>3, <1>4, <1>5 DEF Gone
<1> QED BY <1>2, <1>6

\* Nothing begins before the first token.
LEMMA FirstStays ==
    ASSUME Ready
    PROVE  ~Gone(0)
<1>1. ASSUME NEW m \in Tokens PROVE Start(m) >= 1 /\ Start(m) \in Nat /\ 0 \notin Of(m)
  <2>1. Start(m) >= 1 /\ Start(m) \in Nat /\ len[m] \in Nat
    BY ReadyFacts
  <2> QED BY <2>1 DEF Of
<1>2. ASSUME NEW m \in Tokens, type[m] \in Erased PROVE 0 \notin Start(m)..(Upto(m) - 1)
  <2>1. next[m] \in Tokens /\ len[next[m]] \in Nat /\ Start(next[m]) \in Nat
    BY <1>2, ReadyFacts
  <2>2. Upto(m) \in Nat
    BY <2>1 DEF Upto
  <2> QED BY <1>1, <2>2
<1>3. ASSUME NEW m \in Tokens, type[m] \in Unwrapped(call) PROVE 0 \notin Of(next[m])
  BY <1>1, <1>3, ReadyFacts
<1> QED BY <1>1, <1>2, <1>3 DEF Gone

\* The buffer holds what it should up to p; what follows there may be cut out
\* if it goes, and left if it stays.
Cut(buf, d, p) == /\ Laid(buf, d, TextLen, p)
                  /\ Faithful => Kept(buf, p - d) = Target \cap (0..(p - 1))

\* Bytes that go are cut out.
LEMMA CutErase ==
    ASSUME Ready, NEW p, Cut(buffer, delta, p), NEW size \in Nat, p + size <= TextLen,
           buffer' = [i \in 1..(Len(buffer) - size) |->
                        IF i <= p - delta THEN buffer[i] ELSE buffer[i + size]],
           delta' = delta + size,
           Faithful => \A b \in p..(p + size - 1) : Gone(b)
    PROVE  Cut(buffer', delta', p + size)
<1>1. TextLen \in Nat
  BY ReadyFacts
<1>2. p \in Nat /\ p <= TextLen
  BY <1>1 DEF Cut, Laid
<1>3. /\ Laid(buffer', delta + size, TextLen, p + size)
      /\ Kept(buffer', (p + size) - (delta + size)) = Kept(buffer, p - delta)
  BY <1>1, EraseLaid DEF Cut
<1>4. ASSUME Faithful PROVE Target \cap (0..((p + size) - 1)) = Target \cap (0..(p - 1))
  <2>1. \A b \in p..(p + size - 1) : b \notin Target
    BY <1>4, TargetFacts
  <2>2. 0..((p + size) - 1) = (0..(p - 1)) \cup (p..(p + size - 1))
    BY <1>2
  <2> QED BY <2>1, <2>2, Zenon
<1>5. Faithful => Kept(buffer, p - delta) = Target \cap (0..(p - 1))
  BY DEF Cut
<1>6. /\ Laid(buffer', delta', TextLen, p + size)
      /\ Kept(buffer', (p + size) - delta') = Kept(buffer, p - delta)
  BY <1>3
<1> QED BY <1>4, <1>5, <1>6 DEF Cut

\* Bytes that stay are passed.
LEMMA CutKeep ==
    ASSUME Ready, NEW buf, NEW d, NEW p, Cut(buf, d, p), NEW q \in Nat, p <= q, q <= TextLen,
           Faithful => \A b \in p..(q - 1) : ~Gone(b)
    PROVE  Cut(buf, d, q)
<1>1. TextLen \in Nat
  BY ReadyFacts
<1>2. p \in Nat /\ p <= TextLen
  BY <1>1 DEF Cut, Laid
<1>3. /\ Laid(buf, d, TextLen, q)
      /\ Kept(buf, q - d) = Kept(buf, p - d) \cup (p..(q - 1))
  <2>1. Laid(buf, d, TextLen, p)
    BY DEF Cut
  <2> QED BY <1>1, <2>1, KeepLaid
<1>4. ASSUME Faithful PROVE Target \cap (0..(q - 1)) = (Target \cap (0..(p - 1))) \cup (p..(q - 1))
  <2>1. \A b \in p..(q - 1) : b \in Target
    <3> SUFFICES ASSUME NEW b \in p..(q - 1) PROVE b \in Target
      OBVIOUS
    <3>1. b \in Bytes
      BY <1>1, <1>2 DEF Bytes
    <3> QED BY <1>4, <3>1, TargetFacts
  <2>2. 0..(q - 1) = (0..(p - 1)) \cup (p..(q - 1))
    BY <1>2
  <2> QED BY <2>1, <2>2, Zenon
<1> QED BY <1>3, <1>4 DEF Cut

\* A token of a chain that ends before limit, where a pair around it is closed
Below(x, limit) ==
    /\ x \in Tokens /\ limit \in Spots /\ x < limit /\ Innermost(x, limit)
    /\ limit = End \/ \E o \in Tokens : Joined(o) /\ next[o] = limit /\ o < x

\* The shape, link by link
LEMMA ShapeFacts ==
    ASSUME Ready
    PROVE  /\ \A m \in Tokens : Joined(m) => next[m] \in Tokens /\ m < next[m]
           /\ \A m \in Tokens : Joined(m) /\ type[m] # "p_sub_del" => ~Joined(next[m])
           /\ \A m \in Tokens : next[m] # NULL => next[m] \in Tokens /\ m < next[m]
           /\ \A o, m \in Tokens : Joined(o) /\ o < m /\ m < next[o] /\ next[m] # NULL => next[m] < next[o]
           /\ \A m \in Tokens : child[m] # NULL => child[m] = m + 2 /\ Joined(m) /\ m + 2 < next[m]
           /\ \A m \in Tokens : child[m] = NULL /\ next[m] # NULL => next[m] = m + 2
           /\ \A m \in Tokens : next[m] = NULL =>
                  m + 2 = End \/ \E o \in Tokens : Joined(o) /\ o < m /\ next[o] = m + 2
           /\ \A a, b \in Tokens : next[a] = next[b] /\ next[a] # NULL => a = b
BY DEF Ready, Shape

\* The next token of a chain is on it, and what goes is over there, too.
LEMMA NextIsBelow ==
    ASSUME Ready, NEW limit, NEW x, Below(x, limit), next[x] # NULL
    PROVE  /\ Below(next[x], limit) /\ x < next[x]
           /\ Clear(x) => Clear(next[x])
           /\ child[x] = NULL => next[x] = x + 2
<1> DEFINE y == next[x]
<1>1. x \in Tokens /\ limit \in Spots /\ x < limit /\ Innermost(x, limit)
  BY DEF Below
<1>2. /\ y \in Tokens /\ x < y
      /\ \A m \in Tokens : Joined(m) => next[m] \in Tokens /\ m < next[m]
      /\ \A o, m \in Tokens : Joined(o) /\ o < m /\ m < next[o] /\ next[m] # NULL => next[m] < next[o]
      /\ child[x] = NULL => y = x + 2
      /\ child[x] # NULL => Joined(x)
  BY <1>1, ShapeFacts
<1>3. \A m \in Tokens : m \in Nat /\ m # NULL /\ m \in Spots /\ m < End
  BY ReadyFacts
<1>4. limit \in Nat /\ \A m \in Tokens : m < limit => m + 2 <= limit
  BY <1>1, <1>3, ReadyFacts
<1>5. \A m \in Tokens : x < m => x + 2 <= m
  BY <1>1, <1>3, ReadyFacts
<1> HIDE DEF y
<1>6. Joined(x) \/ y = x + 2
  BY <1>2
<1>7. y < limit
  <2>1. CASE limit = End
    BY <1>2, <1>3, <2>1
  <2>2. CASE \E o \in Tokens : Joined(o) /\ next[o] = limit /\ o < x
    BY <1>1, <1>2, <1>3, <2>2 DEF y
  <2> QED BY <2>1, <2>2 DEF Below
<1>8. ASSUME NEW m \in Tokens, Joined(m), m < y, y < next[m] PROVE limit <= next[m]
  <2>1. m \in Nat /\ x \in Nat /\ y \in Nat /\ next[m] \in Nat /\ next[m] \in Tokens
    BY <1>1, <1>2, <1>3, <1>8
  <2>2. CASE m < x
    BY <1>1, <1>2, <1>8, <2>1, <2>2 DEF Innermost
  <2>3. CASE m = x
    BY <1>8, <2>1, <2>3 DEF y
  <2>4. CASE x < m
    <3>1. Joined(x)
      BY <1>5, <1>6, <1>8, <2>1, <2>4
    <3>2. next[m] # NULL
      BY <1>3, <2>1
    <3>3. next[m] < y
      BY <1>1, <1>2, <1>8, <2>4, <3>1, <3>2 DEF y
    <3> QED BY <1>8, <2>1, <3>3
  <2> QED BY <2>1, <2>2, <2>3, <2>4
<1>9. ASSUME Clear(x) PROVE Clear(y)
  <2> SUFFICES ASSUME NEW m \in Tokens, type[m] \in Erased, m < y PROVE next[m] <= y
    BY DEF Clear
  <2>1. Joined(m) /\ m \in Nat /\ x \in Nat /\ y \in Nat /\ next[m] \in Nat /\ next[m] \in Tokens
    <3>1. Joined(m)
      BY ReadyFacts
    <3> QED BY <1>1, <1>2, <1>3, <3>1
  <2>2. CASE m < x
    <3>1. next[m] <= x
      BY <1>9, <2>2 DEF Clear
    <3> QED BY <1>2, <2>1, <3>1
  <2>3. CASE m = x
    BY <2>1, <2>3 DEF y
  <2>4. CASE x < m
    <3>1. Joined(x)
      BY <1>5, <1>6, <2>1, <2>4
    <3>2. next[m] # NULL
      BY <1>3, <2>1
    <3>3. next[m] < y
      BY <1>1, <1>2, <2>4, <3>1, <3>2 DEF y
    <3> QED BY <2>1, <3>3
  <2> QED BY <2>1, <2>2, <2>3, <2>4
<1>10. limit = End \/ \E o \in Tokens : Joined(o) /\ next[o] = limit /\ o < y
  <2>1. CASE limit = End
    BY <2>1
  <2>2. CASE \E o \in Tokens : Joined(o) /\ next[o] = limit /\ o < x
    BY <1>1, <1>2, <1>3, <2>2
  <2> QED BY <2>1, <2>2 DEF Below
<1> QED BY <1>1, <1>2, <1>7, <1>8, <1>9, <1>10 DEF Below, Innermost, y

\* The chain of the children of a pair ends before its closer.
LEMMA ChildIsBelow ==
    ASSUME Ready, NEW x \in Tokens, child[x] # NULL
    PROVE  /\ child[x] = x + 2 /\ Below(x + 2, next[x]) /\ x < x + 2
           /\ \A m \in Tokens : Joined(m) => next[m] # x + 2
           /\ Clear(x) /\ type[x] \notin Erased => Clear(x + 2)
<1> DEFINE y == x + 2
<1>1. /\ child[x] = y /\ Joined(x) /\ y < next[x] /\ next[x] \in Tokens
      /\ \A m \in Tokens : Joined(m) => next[m] \in Tokens /\ m < next[m]
      /\ \A o, m \in Tokens : Joined(o) /\ o < m /\ m < next[o] /\ next[m] # NULL => next[m] < next[o]
  BY ShapeFacts
<1>2. /\ \A m \in Tokens : m \in Nat /\ m # NULL /\ m \in Spots
      /\ y \in Spots /\ \A m \in Tokens : x < m => y <= m
  BY ReadyFacts
<1>3. y \in Tokens /\ x < y /\ y \in Nat
  <2>1. y # End
    BY <1>1, <1>2, ReadyFacts
  <2> QED BY <1>2, <2>1 DEF Spots
<1>4. \A m \in Tokens : m < y => m <= x
  BY <1>2
<1> HIDE DEF y
<1>5. ASSUME NEW m \in Tokens, Joined(m), m < x, x < next[m] PROVE next[x] < next[m]
  <2>1. next[x] # NULL
    BY <1>1, <1>2
  <2> QED BY <1>1, <1>5, <2>1
<1>6. \A m \in Tokens : Joined(m) => next[m] # y
  <2> SUFFICES ASSUME NEW m \in Tokens, Joined(m), next[m] = y PROVE FALSE
    OBVIOUS
  <2>1. m < y /\ m <= x /\ m \in Nat /\ x \in Nat /\ next[x] \in Nat
    BY <1>1, <1>2, <1>4
  <2>2. m # x
    BY <1>1, <1>3, <2>1
  <2>3. next[x] < y
    BY <1>3, <1>5, <2>1, <2>2
  <2> QED BY <1>1, <1>3, <2>1, <2>3
<1>7. Innermost(y, next[x])
  <2> SUFFICES ASSUME NEW m \in Tokens, Joined(m), m < y, y < next[m] PROVE next[x] <= next[m]
    BY DEF Innermost
  <2>1. m <= x /\ m \in Nat /\ x \in Nat /\ next[x] \in Nat /\ next[m] \in Nat
    BY <1>1, <1>2, <1>4
  <2>2. CASE m = x
    BY <2>1, <2>2
  <2>3. CASE m # x
    <3>1. m < x /\ x < next[m]
      BY <1>3, <2>1, <2>3
    <3> QED BY <1>5, <2>1, <3>1
  <2> QED BY <2>2, <2>3
<1>8. ASSUME Clear(x), type[x] \notin Erased PROVE Clear(y)
  <2> SUFFICES ASSUME NEW m \in Tokens, type[m] \in Erased, m < y PROVE next[m] <= y
    BY DEF Clear
  <2>1. Joined(m)
    BY ReadyFacts
  <2>2. m <= x /\ m # x /\ m \in Nat /\ x \in Nat /\ next[m] \in Nat
    BY <1>1, <1>2, <1>4, <1>8, <2>1
  <2>3. next[m] <= x
    BY <1>8, <2>2 DEF Clear
  <2> QED BY <1>3, <2>2, <2>3
<1> QED BY <1>1, <1>2, <1>3, <1>6, <1>7, <1>8 DEF Below, y

\* The last token of a chain stands right before its end.
LEMMA LastIsBelow ==
    ASSUME Ready, NEW limit, NEW x, Below(x, limit), next[x] = NULL
    PROVE  limit = x + 2
<1>1. x \in Tokens /\ limit \in Spots /\ x < limit /\ Innermost(x, limit)
  BY DEF Below
<1>2. x + 2 = End \/ \E o \in Tokens : Joined(o) /\ o < x /\ next[o] = x + 2
  BY <1>1, ShapeFacts
<1>3. limit \in Nat /\ x \in Nat /\ x + 2 <= limit /\ limit <= End /\ End \in Nat
  <2>1. End \in Spots /\ x \in Spots
    BY <1>1, ReadyFacts DEF Spots
  <2>2. limit \in Nat /\ x \in Nat /\ End \in Nat /\ x + 2 <= limit
    BY <1>1, <2>1, ReadyFacts
  <2>3. limit \in Tokens => limit < End
    BY ReadyFacts
  <2> QED BY <1>1, <2>2, <2>3 DEF Spots
<1>4. CASE x + 2 = End
  BY <1>3, <1>4
<1>5. CASE \E o \in Tokens : Joined(o) /\ o < x /\ next[o] = x + 2
  BY <1>1, <1>3, <1>5 DEF Innermost
<1> QED BY <1>2, <1>4, <1>5

\* No pair is closed by what follows an unpaired token.
LEMMA NothingClosed ==
    ASSUME Ready, NEW limit, NEW x, Below(x, limit), next[x] # NULL, child[x] = NULL, ~Joined(x)
    PROVE  \A m \in Tokens : Joined(m) => next[m] # next[x]
<1>1. x \in Tokens /\ x < limit /\ Innermost(x, limit)
  BY DEF Below
<1>2. next[x] = x + 2 /\ Below(next[x], limit)
  BY NextIsBelow
<1>3. next[x] < limit /\ limit \in Nat /\ x \in Nat
  BY <1>1, <1>2, ReadyFacts DEF Below
<1> SUFFICES ASSUME NEW m \in Tokens, Joined(m), next[m] = x + 2 PROVE FALSE
  BY <1>2
<1>4. m \in Nat /\ m < x + 2 /\ m # x
  BY ShapeFacts, ReadyFacts
<1>5. m < x
  <2>1. x < m => x + 2 <= m
    BY <1>1, ReadyFacts
  <2> QED BY <1>3, <1>4, <2>1
<1>6. limit <= x + 2
  BY <1>1, <1>3, <1>5 DEF Innermost
<1> QED BY <1>2, <1>3, <1>6

\* The activations are in order, and the buffer is edited up to where they are.
Ordered(wk) == wk \in Seq(Activations) /\ wk # <<>> /\ \A k \in 1..Len(wk) : Level(wk, k)
AtWork == Ready /\ step = "edit" /\ Ordered(walk) /\ Cut(buffer, delta, Place(walk))
Chain == Limit(walk, Len(walk))

\* The links of a token lead to nodes.
LEMMA NextOrNull ==
    ASSUME Ready, NEW x \in Tokens
    PROVE  next[x] \in Ref /\ child[x] \in Ref
<1>1. Tokens \subseteq Nodes
  BY DEF Tokens
<1>2. x + 2 \in Nodes \/ child[x] = NULL
  <2>1. CASE child[x] # NULL
    <3>1. x + 2 \in Tokens
      BY <2>1, ChildIsBelow DEF Below
    <3> QED BY <1>1, <3>1
  <2> QED BY <2>1
<1>3. next[x] = NULL \/ next[x] \in Tokens
  BY ShapeFacts
<1> QED BY <1>1, <1>2, <1>3, ShapeFacts DEF Ref

\* Where the innermost activation is
LEMMA HereFacts ==
    ASSUME AtWork
    PROVE  /\ Len(walk) \in Nat /\ Len(walk) >= 1 /\ (Len(walk) = 1 \/ Len(walk) > 1) /\ Here \in Activations /\ Here.node = w
           /\ Len(walk) > 1 => Here.tree = "accept"
           /\ Len(walk) = 1 => Here.tree = call
           /\ Chain \in Spots
           /\ \A k \in 1..(Len(walk) - 1) : walk[k].node \in Tokens
           /\ w # NULL => /\ w \in Tokens /\ Below(w, Chain)
                          /\ Faithful => Clear(w)
                          /\ ~Here.closing => Arrived(w, Here.tree)
                          /\ Here.closing => \E o \in Tokens : /\ next[o] = w
                                                               /\ type[o] \in Unwrapped(Here.tree) \ {"p_sub_del"}
           /\ w = NULL => ~Here.closing
<1>1. walk \in Seq(Activations) /\ walk # <<>> /\ \A k \in 1..Len(walk) : Level(walk, k)
  BY DEF AtWork, Ordered
<1>2. Len(walk) \in Nat /\ Len(walk) >= 1
  BY <1>1, LenProperties, EmptySeq
<1>2a. Len(walk) = 1 \/ Len(walk) > 1
  <2>1. \A k \in Nat : k >= 1 => k = 1 \/ k > 1
    OBVIOUS
  <2> QED BY <1>2, <2>1
<1>3. \A k \in 1..Len(walk) : walk[k] \in Activations
  BY <1>1, ElementOfSeq
<1>4. Len(walk) \in 1..Len(walk) /\ Here = walk[Len(walk)] /\ w = Here.node
  BY <1>2 DEF Here, w
<1> DEFINE K == Len(walk)
<1>5. ASSUME NEW k \in 1..(K - 1) PROVE walk[k].node \in Tokens
  <2>1. k \in 1..K /\ k # K
    BY <1>2
  <2>2. walk[k].node # NULL
    BY <1>1, <2>1 DEF Level
  <2> QED BY <1>1, <2>1, <2>2 DEF Level, Stands
<1>6. Chain \in Spots
  <2>1. CASE K = 1
    BY <2>1 DEF Chain, Limit, Spots
  <2>2. CASE K # 1
    <3>1. K - 1 \in 1..(K - 1)
      BY <1>2, <2>2
    <3>2. walk[K - 1].node \in Tokens
      BY <1>5, <3>1
    <3> QED BY <2>2, <3>2 DEF Chain, Limit, Spots
  <2> QED BY <2>1, <2>2
<1>7. Level(walk, K)
  BY <1>1, <1>4
<1>8. ASSUME w # NULL
      PROVE  /\ w \in Tokens /\ Below(w, Chain)
             /\ Faithful => Clear(w)
             /\ ~Here.closing => Arrived(w, Here.tree)
             /\ Here.closing => \E o \in Tokens : /\ next[o] = w
                                                  /\ type[o] \in Unwrapped(Here.tree) \ {"p_sub_del"}
  <2>1. Stands(Here, Chain)
    BY <1>4, <1>7, <1>8 DEF Level, Chain
  <2>2. Chain = End \/ \E o \in Tokens : Joined(o) /\ next[o] = Chain /\ o < w
    <3>1. CASE K = 1
      BY <3>1 DEF Chain, Limit
    <3>2. CASE K # 1
      <4>1. K > 1
        BY <1>2a, <3>2
      <4>2. Inside(walk[K], walk[K - 1]) /\ Chain = walk[K - 1].node
        BY <1>7, <3>2, <4>1 DEF Level, Chain, Limit
      <4>3. PICK o \in Tokens : next[o] = Chain /\ type[o] \in Unwrapped(walk[K - 1].tree) /\ o < w
        BY <1>4, <1>8, <4>2 DEF Inside
      <4>4. Joined(o)
        <5>1. type[o] \in CriticPairs
          BY <4>3 DEF Unwrapped, CriticPairs
        <5> QED BY <5>1 DEF Joined
      <4> QED BY <4>3, <4>4
    <3> QED BY <3>1, <3>2
  <2> QED BY <1>4, <1>6, <2>1, <2>2 DEF Stands, Below
<1>9. (K > 1 => Here.tree = "accept") /\ (K = 1 => Here.tree = call)
  BY <1>2, <1>4, <1>7 DEF Level
<1>10. w = NULL => ~Here.closing
  BY <1>4, <1>7 DEF Level
<1> QED BY <1>2, <1>2a, <1>3, <1>4, <1>5, <1>6, <1>8, <1>9, <1>10

\* Where no change lies in what goes, only the outermost chain holds pairs.
LEMMA FlatFacts ==
    ASSUME AtWork
    PROVE  /\ Flat /\ w # NULL /\ Joined(w) => Len(walk) = 1
           /\ Faithful /\ w # NULL /\ Joined(w) => Here.tree = call
           /\ Faithful /\ Here.closing => Here.tree = call
           /\ Flat => Faithful
<1>1. /\ Len(walk) \in Nat /\ Len(walk) >= 1 /\ Level(walk, Len(walk)) /\ Here = walk[Len(walk)] /\ w = Here.node
  BY HereFacts DEF AtWork, Ordered, Here, w
<1>2. ASSUME Flat, w # NULL, Joined(w), Len(walk) # 1 PROVE FALSE
  <2>0. Len(walk) > 1
    BY <1>2, HereFacts DEF AtWork
  <2>1. Len(walk) = 2 /\ Inside(walk[2], walk[1])
    <3>1. Len(walk) = 2
      BY <1>1, <1>2, <2>0 DEF Level
    <3> QED BY <1>1, <2>0, <3>1 DEF Level
  <2>2. walk[1].tree = call /\ call = "reject"
    BY <1>2, <2>1 DEF AtWork, Ordered, Level, Flat
  <2>3. PICK o \in Tokens : next[o] = walk[1].node /\ type[o] \in Unwrapped("reject") /\ o < w
    BY <1>1, <1>2, <2>1, <2>2 DEF Inside
  <2>4. Chain = walk[1].node
    BY <2>1 DEF Chain, Limit
  <2>5. w \in Tokens /\ w < next[o] /\ Joined(o) /\ next[o] \in Tokens
    <3>1. Joined(o)
      BY <2>3 DEF Unwrapped, Joined, CriticPairs
    <3>2. w \in Tokens /\ Below(w, Chain)
      BY <1>2, HereFacts
    <3> QED BY <2>3, <2>4, <3>1, <3>2, ShapeFacts DEF Below, AtWork
  <2>6. Start(o) < Start(w) /\ Start(w) < Start(next[o])
    <3>1. /\ Start(o) + len[o] + 1 <= Start(w) /\ Start(w) + len[w] + 1 <= Start(next[o])
          /\ Start(o) \in Nat /\ Start(w) \in Nat /\ Start(next[o]) \in Nat /\ len[o] \in Nat /\ len[w] \in Nat
      BY <2>3, <2>5, ReadyFacts DEF AtWork
    <3> QED BY <3>1
  <2>7. type[w] \in PairTypes /\ type[o] \in {"p_del", "p_sub_del", "p_hi"} /\ o \in Nodes /\ w \in Nodes
    <3>1. type[w] \in PairTypes
      BY <1>2 DEF Joined, CriticPairs, PairTypes
    <3>2. type[o] \in {"p_del", "p_sub_del", "p_hi"}
      BY <2>3 DEF Unwrapped
    <3> QED BY <2>3, <2>5, <3>1, <3>2 DEF Tokens
  <2>8. Nested
    BY <2>6, <2>7 DEF Nested
  <2> QED BY <1>2, <2>8 DEF Flat
<1>3. Flat => Faithful
  BY DEF Flat, Faithful
<1>4. ASSUME Faithful, call # "accept" PROVE Flat
  BY <1>4 DEF Flat, Faithful, AtWork, Ready
<1>8. (Len(walk) = 1 \/ Len(walk) > 1) /\ (Len(walk) > 1 => Here.tree = "accept") /\ (Len(walk) = 1 => Here.tree = call)
  BY HereFacts
<1>5. Faithful /\ w # NULL /\ Joined(w) => Here.tree = call
  <2>1. CASE call = "accept"
    BY <1>1, <1>8, <2>1
  <2>2. CASE call # "accept"
    BY <1>2, <1>4, <1>8, <2>2
  <2> QED BY <2>1, <2>2
<1>6. Faithful /\ Here.closing => Here.tree = call
  <2>1. CASE call = "accept"
    BY <1>1, <1>8, <2>1
  <2>2. CASE call # "accept"
    <3>1. Faithful /\ Here.closing => Len(walk) = 1
      <4> SUFFICES ASSUME Faithful, Here.closing, Len(walk) > 1 PROVE FALSE
        BY <1>1
      <4> QED BY <1>1, <1>4, <2>2 DEF Level
    <3> QED BY <1>8, <3>1
  <2> QED BY <2>1, <2>2
<1> QED BY <1>2, <1>3, <1>5, <1>6

\* The walks with the same activations but for the innermost
Extends(wk) ==
    /\ wk \in Seq(Activations) /\ Len(wk) >= Len(walk) /\ Len(wk) \in Nat
    /\ \A j \in 1..(Len(walk) - 1) : wk[j] = walk[j]

\* The activations above it are as they were.
LEMMA LowerLevels ==
    ASSUME AtWork, NEW wk, Extends(wk)
    PROVE  /\ \A j \in 1..(Len(walk) - 1) : Level(wk, j)
           /\ Limit(wk, Len(walk)) = Chain
<1>1. Len(walk) \in Nat /\ Len(walk) >= 1 /\ (Len(walk) = 1 \/ Len(walk) > 1)
  BY HereFacts
<1> DEFINE K == Len(walk)
<1>2. \A j \in 1..(K - 1) : wk[j] = walk[j] /\ walk[j].node \in Tokens /\ walk[j].node # NULL
  <2>1. \A m \in Tokens : m # NULL
    BY ReadyFacts DEF AtWork
  <2> QED BY <2>1, HereFacts DEF Extends
<1>3. ASSUME NEW j \in 1..(K - 1) PROVE Level(wk, j)
  <2>1. j \in 1..K /\ j \in Nat /\ (j > 1 => j - 1 \in 1..(K - 1))
    BY <1>1
  <2>2. Level(walk, j)
    BY <2>1 DEF AtWork, Ordered
  <2>3. wk[j] = walk[j] /\ walk[j].node # NULL /\ (j > 1 => wk[j - 1] = walk[j - 1])
    BY <1>2, <2>1
  <2>4. Limit(wk, j) = Limit(walk, j)
    BY <2>1, <2>3 DEF Limit
  <2> QED BY <2>2, <2>3, <2>4 DEF Level
<1>4. Limit(wk, K) = Chain
  <2>1. CASE K = 1
    BY <2>1 DEF Limit, Chain
  <2>2. CASE K > 1
    <3>1. K - 1 \in 1..(K - 1)
      BY <1>1, <2>2
    <3>2. wk[K - 1] = walk[K - 1]
      BY <1>2, <3>1
    <3> QED BY <2>2, <3>2 DEF Limit, Chain
  <2> QED BY <1>1, <2>1, <2>2
<1> QED BY <1>3, <1>4

\* What it takes for the innermost activation to move to y
LEMMA HereLevel ==
    ASSUME AtWork, w # NULL, NEW wk, Extends(wk), NEW a, a = wk[Len(walk)], a.tree = Here.tree,
           a.node = NULL => Len(wk) = Len(walk) /\ ~a.closing,
           a.node # NULL => w < a.node /\ Stands(a, Chain),
           Flat /\ Len(walk) > 1 => ~a.closing
    PROVE  Level(wk, Len(walk))
<1> DEFINE K == Len(walk)
<1>1. Len(walk) \in Nat /\ Len(walk) >= 1 /\ (Len(walk) = 1 \/ Len(walk) > 1)
  BY HereFacts
<1>2. Limit(wk, K) = Chain
  BY LowerLevels
<1>3. Level(walk, K) /\ Here = walk[K] /\ w = walk[K].node
  BY <1>1 DEF AtWork, Ordered, Here, w
<1>4. ASSUME K > 1 PROVE Inside(a, wk[K - 1])
  <2>1. wk[K - 1] = walk[K - 1]
    <3>1. K - 1 \in 1..(K - 1)
      BY <1>1, <1>4
    <3> QED BY <3>1 DEF Extends
  <2>2. PICK o \in Tokens : /\ next[o] = walk[K - 1].node /\ type[o] \in Unwrapped(walk[K - 1].tree)
                            /\ walk[K - 1].closing = (type[o] # "p_sub_del") /\ o < w
    BY <1>3, <1>4 DEF Level, Inside
  <2>3. a.node # NULL => o < a.node
    <3>1. o \in Nat /\ w \in Nat
      BY HereFacts, ReadyFacts DEF AtWork
    <3>2. a.node # NULL => a.node \in Nat
      BY ReadyFacts DEF Stands, AtWork
    <3> QED BY <2>2, <3>1, <3>2
  <2> QED BY <2>1, <2>2, <2>3 DEF Inside
<1>5. a.tree = IF K = 1 THEN call ELSE "accept"
  BY <1>1, HereFacts
<1>6. Flat /\ K > 1 => K = 2 /\ ~a.closing
  BY <1>3 DEF Level
<1> QED BY <1>2, <1>4, <1>5, <1>6 DEF Level

\* The innermost activation moved to y
Set(y, c) == [walk EXCEPT ![Len(walk)] = [@ EXCEPT !.node = y, !.closing = c]]

\* That only changes the innermost activation.
LEMMA SetFacts ==
    ASSUME AtWork, NEW y \in Ref, NEW c \in BOOLEAN
    PROVE  /\ Extends(Set(y, c)) /\ Len(Set(y, c)) = Len(walk)
           /\ Set(y, c)[Len(walk)] \in Activations
           /\ Set(y, c)[Len(walk)].node = y /\ Set(y, c)[Len(walk)].closing = c
           /\ Set(y, c)[Len(walk)].tree = Here.tree
<1> DEFINE K == Len(walk)
           e == [walk[K] EXCEPT !.node = y, !.closing = c]
<1>1. K \in Nat /\ K >= 1 /\ K \in 1..K /\ Here \in Activations /\ Here = walk[K]
  BY HereFacts DEF Here
<1>2. e \in Activations /\ e.node = y /\ e.closing = c /\ e.tree = Here.tree
  BY <1>1 DEF Activations
<1>3. walk \in Seq(Activations)
  BY DEF AtWork, Ordered
<1>4. Set(y, c) = [walk EXCEPT ![K] = e]
  BY DEF Set
<1> HIDE DEF e
<1>5. /\ [walk EXCEPT ![K] = e] \in Seq(Activations) /\ Len([walk EXCEPT ![K] = e]) = K
      /\ \A j \in 1..K : [walk EXCEPT ![K] = e][j] = IF j = K THEN e ELSE walk[j]
  BY <1>1, <1>2, <1>3, ExceptSeq
<1>6. Set(y, c) \in Seq(Activations) /\ Len(Set(y, c)) = K /\ Set(y, c)[K] = e
  BY <1>1, <1>4, <1>5
<1>7. \A j \in 1..(K - 1) : Set(y, c)[j] = walk[j]
  <2> SUFFICES ASSUME NEW j \in 1..(K - 1) PROVE Set(y, c)[j] = walk[j]
    OBVIOUS
  <2>1. j \in 1..K /\ j # K
    BY <1>1
  <2> QED BY <1>4, <1>5, <2>1
<1> QED BY <1>1, <1>2, <1>6, <1>7 DEF Extends

\* Moved, the activations are still in order.
LEMMA SetOrdered ==
    ASSUME AtWork, w # NULL, NEW y \in Ref,
           y # NULL => w < y /\ Below(y, Chain) /\ (Faithful => Clear(y)) /\ Arrived(y, Here.tree)
    PROVE  Ordered(Set(y, FALSE))
<1> DEFINE wk == Set(y, FALSE)
           a == wk[Len(walk)]
<1>1. /\ Extends(wk) /\ Len(wk) = Len(walk) /\ a.node = y /\ a.closing = FALSE /\ a.tree = Here.tree
  BY SetFacts
<1>2. a.node # NULL => w < a.node /\ Stands(a, Chain)
  BY <1>1 DEF Stands, Below
<1> HIDE DEF wk, a
<1>3. Level(wk, Len(walk))
  <2>1. a = wk[Len(walk)]
    BY DEF a
  <2> QED BY <1>1, <1>2, <2>1, HereLevel
<1>4. \A j \in 1..(Len(walk) - 1) : Level(wk, j)
  BY <1>1, LowerLevels
<1>5. \A j \in 1..Len(wk) : Level(wk, j)
  <2>1. \A j \in 1..Len(walk) : j \in 1..(Len(walk) - 1) \/ j = Len(walk)
    BY HereFacts
  <2> QED BY <1>1, <1>3, <1>4, <2>1
<1>6. wk # <<>>
  <2>1. Len(wk) # 0
    BY <1>1, HereFacts
  <2> QED BY <2>1, EmptySeq
<1>7. Ordered(wk)
  BY <1>1, <1>5, <1>6 DEF Ordered, Extends
<1> QED BY <1>7 DEF wk

\* Where that is
LEMMA SetPlace ==
    ASSUME AtWork, NEW y \in Ref
    PROVE  /\ y = NULL => Place(Set(y, FALSE)) = Start(Chain)
           /\ y # NULL /\ (\A m \in Tokens : type[m] = "p_del" => next[m] # y) => Place(Set(y, FALSE)) = Start(y)
           /\ y # NULL /\ Here.tree = "accept" /\ (\E m \in Tokens : type[m] = "p_del" /\ next[m] = y) =>
                  Place(Set(y, FALSE)) = Start(y) + len[y]
<1> DEFINE wk == Set(y, FALSE)
           a == wk[Len(walk)]
<1>1. /\ Extends(wk) /\ Len(wk) = Len(walk) /\ a.node = y /\ a.closing = FALSE /\ a.tree = Here.tree
  BY SetFacts
<1>2. Limit(wk, Len(walk)) = Chain
  BY <1>1, LowerLevels
<1> HIDE DEF wk
<1>3. Place(wk) = IF y = NULL THEN Start(Chain) ELSE IF Late(a) THEN Start(y) + len[y] ELSE Start(y)
  BY <1>1, <1>2 DEF Place
<1>4. Late(a) <=> Here.tree = "accept" /\ \E m \in Tokens : type[m] = "p_del" /\ next[m] = y
  BY <1>1 DEF Late
<1> HIDE DEF a
<1>5. y = NULL => Place(wk) = Start(Chain)
  BY <1>3
<1>6. y # NULL /\ (\A m \in Tokens : type[m] = "p_del" => next[m] # y) => Place(wk) = Start(y)
  BY <1>3, <1>4
<1>7. y # NULL /\ Here.tree = "accept" /\ (\E m \in Tokens : type[m] = "p_del" /\ next[m] = y) =>
          Place(wk) = Start(y) + len[y]
  BY <1>3, <1>4
<1> QED BY <1>5, <1>6, <1>7 DEF wk

\* The walk goes on behind a token that is no pair.
LEMMA StepOver ==
    ASSUME AtWork, w # NULL, NEW x \in Tokens, ~Joined(x), Below(x, Chain), Faithful => Clear(x), w <= x
    PROVE  Ordered(Set(next[x], FALSE)) /\ Place(Set(next[x], FALSE)) = Start(x + 2)
<1>1. Ready
  BY DEF AtWork
<1>2. child[x] = NULL /\ next[x] \in Ref
  BY <1>1, ShapeFacts, NextOrNull
<1>3. CASE next[x] = NULL
  <2>1. Chain = x + 2
    BY <1>1, <1>3, LastIsBelow
  <2>2. Ordered(Set(next[x], FALSE))
    BY <1>2, <1>3, SetOrdered
  <2>3. Place(Set(next[x], FALSE)) = Start(Chain)
    BY <1>2, <1>3, SetPlace
  <2> QED BY <2>1, <2>2, <2>3
<1>4. CASE next[x] # NULL
  <2> DEFINE y == next[x]
  <2>1. Below(y, Chain) /\ x < y /\ y = x + 2 /\ (Clear(x) => Clear(y))
    BY <1>1, <1>2, <1>4, NextIsBelow
  <2>2. \A m \in Tokens : Joined(m) => next[m] # y
    BY <1>1, <1>2, <1>4, NothingClosed
  <2>3. \A m \in Tokens : type[m] = "p_del" => Joined(m)
    BY DEF Joined, CriticPairs
  <2>4. w < y
    <3>1. w \in Nat /\ x \in Nat /\ y \in Nat
      BY <1>1, <2>1, HereFacts, ReadyFacts DEF Below
    <3> QED BY <2>1, <3>1
  <2>5. y \in Ref /\ y # NULL
    BY <1>2, <1>4
  <2> HIDE DEF y
  <2>6. Arrived(y, Here.tree)
    BY <2>2 DEF Arrived
  <2>7. Ordered(Set(y, FALSE))
    BY <2>1, <2>4, <2>5, <2>6, SetOrdered
  <2>8. Place(Set(y, FALSE)) = Start(y)
    BY <2>2, <2>3, <2>5, SetPlace
  <2> QED BY <2>1, <2>7, <2>8 DEF y
<1> QED BY <1>3, <1>4

\* From the opener of a pair the walk goes to its closer.
LEMMA StepToCloser ==
    ASSUME AtWork, w # NULL, Joined(w), Arrived(next[w], Here.tree)
    PROVE  /\ next[w] \in Tokens /\ w < next[w] /\ Ordered(Set(next[w], FALSE))
           /\ type[w] # "p_del" => Place(Set(next[w], FALSE)) = Start(next[w])
           /\ type[w] = "p_del" /\ Here.tree = "accept" =>
                  Place(Set(next[w], FALSE)) = Start(next[w]) + len[next[w]]
<1>1. Ready
  BY DEF AtWork
<1>2. w \in Tokens /\ Below(w, Chain) /\ (Faithful => Clear(w))
  BY HereFacts
<1>3. next[w] \in Tokens /\ next[w] \in Ref /\ next[w] # NULL /\ w < next[w]
  BY <1>1, <1>2, ShapeFacts, ReadyFacts, NextOrNull
<1>4. Below(next[w], Chain) /\ (Faithful => Clear(next[w]))
  BY <1>1, <1>2, <1>3, NextIsBelow
<1>5. Ordered(Set(next[w], FALSE))
  BY <1>3, <1>4, SetOrdered
<1>6. \A m \in Tokens : next[m] = next[w] => m = w
  BY <1>1, <1>2, <1>3, ShapeFacts
<1>7. type[w] # "p_del" => Place(Set(next[w], FALSE)) = Start(next[w])
  BY <1>3, <1>6, SetPlace
<1>8. type[w] = "p_del" /\ Here.tree = "accept" =>
          Place(Set(next[w], FALSE)) = Start(next[w]) + len[next[w]]
  BY <1>2, <1>3, SetPlace
<1> QED BY <1>3, <1>5, <1>7, <1>8

\* Where the buffer is edited up to
LEMMA PlaceHere ==
    ASSUME AtWork
    PROVE  /\ w = NULL => Place(walk) = Start(Chain)
           /\ w # NULL => Place(walk) = IF Late(Here) THEN Start(w) + len[w] ELSE Start(w)
           /\ w # NULL /\ Joined(w) => ~Late(Here)
           /\ Here.closing => ~Late(Here)
<1>1. Place(walk) = IF w = NULL THEN Start(Chain) ELSE IF Late(Here) THEN Start(w) + len[w] ELSE Start(w)
  BY DEF Place, Chain, Here, w
<1>2. ASSUME w # NULL, Joined(w), Late(Here) PROVE FALSE
  <2>1. PICK m \in Tokens : type[m] = "p_del" /\ next[m] = w
    BY <1>2 DEF Late, w
  <2>2. Joined(m)
    BY <2>1 DEF Joined, CriticPairs
  <2> QED BY <1>2, <2>1, <2>2, ShapeFacts DEF AtWork
<1>3. Here.closing => ~Late(Here)
  BY DEF Late
<1> QED BY <1>1, <1>2, <1>3

\* The plain byte behind a token is passed.
LEMMA KeepPlain ==
    ASSUME Ready, NEW buf, NEW d, NEW x \in Tokens, Cut(buf, d, Start(x) + len[x]),
           Faithful => Clear(x) /\ type[x] \notin Erased
    PROVE  Cut(buf, d, Start(x + 2))
<1> DEFINE p == Start(x) + len[x]
<1>1. /\ Start(x + 2) = p + 1 /\ p \in Nat /\ Start(x + 2) <= TextLen /\ Start(x + 2) \in Nat
  BY ReadyFacts
<1>2. Faithful => ~Gone(p)
  BY PlainStays
<1>3. Cut(buf, d, p)
  OBVIOUS
<1> HIDE DEF p
<1>4. \A b \in p..(Start(x + 2) - 1) : b = p
  BY <1>1
<1> QED BY <1>1, <1>2, <1>3, <1>4, CutKeep

\* What an erasure leaves
LEMMA EraseCuts ==
    ASSUME AtWork, NEW p, p = Place(walk), NEW size \in Nat, p + size <= TextLen,
           Erase(p, size), Faithful => \A b \in p..(p + size - 1) : Gone(b)
    PROVE  Cut(buffer', delta', p + size)
<1>1. Ready /\ Cut(buffer, delta, p)
  BY DEF AtWork
<1> QED BY <1>1, CutErase DEF Erase

\* What each step of the walk leads to
Onward == Ordered(walk') /\ Cut(buffer', delta', Place(walk'))

\* A pair is unwrapped, erased whole or the old text of a substitution; each
\* walk treats every kind of pair in one of these ways, and erases whole what
\* goes.
LEMMA KindsOfChanges ==
    ASSUME NEW tree_ \in {"accept", "reject"}
    PROVE  /\ \A t \in Unwrapped(tree_) \cup Whole(tree_) \cup {"p_sub_del"} : t \in CriticPairs
           /\ CriticPairs \subseteq Unwrapped(tree_) \cup Whole(tree_) \cup {"p_sub_del"}
           /\ \A t \in Whole(tree_) : t # "p_sub_del" /\ (tree_ = call => t \in Erased)
           /\ \A t \in Whole(tree_) : t = "p_del" => tree_ = "accept"
           /\ tree_ = "accept" => "p_sub_del" \notin Unwrapped(tree_)
BY DEF Unwrapped, Whole, Erased, CriticPairs

\* A token that is no pair is left in the buffer, unless it was erased already.
LEMMA LeaveWorks ==
    ASSUME AtWork, Leave
    PROVE  Onward
<1>1. Ready /\ w # NULL /\ ~Here.closing /\ Here.tree \in {"accept", "reject"}
  BY HereFacts DEF AtWork, Leave, Walking, Activations
<1>2. walk' = Set(next[w], FALSE) /\ buffer' = buffer /\ delta' = delta
  BY DEF Leave, MoveTo, Set
<1>3. ~Joined(w)
  BY <1>1, KindsOfChanges DEF Leave, Joined
<1>4. w \in Tokens /\ Below(w, Chain) /\ (Faithful => Clear(w)) /\ Arrived(w, Here.tree) /\ w \in Nat
      /\ w <= w
  <2>1. w \in Tokens /\ Below(w, Chain) /\ (Faithful => Clear(w)) /\ Arrived(w, Here.tree)
    BY <1>1, HereFacts
  <2>2. w \in Nat
    BY <1>1, <2>1, ReadyFacts
  <2> QED BY <2>1, <2>2
<1>5. Ordered(walk') /\ Place(walk') = Start(w + 2)
  BY <1>1, <1>2, <1>3, <1>4, StepOver
<1>6. type[w] \notin Erased
  BY <1>1, <1>3, <1>4, ReadyFacts
<1>7. Cut(buffer, delta, Start(w) + len[w])
  <2>1. Cut(buffer, delta, Place(walk))
    BY DEF AtWork
  <2>2. CASE Late(Here)
    BY <1>1, <2>1, <2>2, PlaceHere
  <2>3. CASE ~Late(Here)
    <3>1. Place(walk) = Start(w)
      BY <1>1, <2>3, PlaceHere
    <3>2. ASSUME Faithful, NEW b \in Start(w)..(Start(w) + len[w] - 1) PROVE ~Gone(b)
      <4>1. \A m \in Tokens : Joined(m) /\ next[m] = w => type[m] = "p_sub_del"
        <5> SUFFICES ASSUME NEW m \in Tokens, Joined(m), next[m] = w, type[m] # "p_sub_del" PROVE FALSE
          OBVIOUS
        <5>1. type[m] = "p_del" /\ Here.tree = "accept"
          BY <1>4 DEF Arrived
        <5>2. Late(Here)
          BY <1>1, <5>1 DEF Late, w
        <5> QED BY <2>3, <5>2
      <4> QED BY <1>1, <1>3, <1>4, <3>2, <4>1, TokenStays
    <3>3. /\ Start(w) \in Nat /\ len[w] \in Nat /\ Start(w) + len[w] <= TextLen
          /\ Start(w) + len[w] \in Nat /\ Start(w) <= Start(w) + len[w]
      <4>1. Start(w + 2) = Start(w) + len[w] + 1 /\ Start(w + 2) <= TextLen /\ TextLen \in Nat
            /\ Start(w) \in Nat /\ len[w] \in Nat
        BY <1>1, <1>4, ReadyFacts
      <4> QED BY <4>1
    <3> DEFINE q == Start(w) + len[w]
    <3>4. q \in Nat /\ Start(w) <= q /\ q <= TextLen /\ q - 1 = Start(w) + (len[w] - 1)
      BY <3>3
    <3> HIDE DEF q
    <3>5. Faithful => \A b \in Start(w)..(q - 1) : ~Gone(b)
      BY <3>2, <3>4
    <3>6. Cut(buffer, delta, q)
      BY <1>1, <2>1, <3>1, <3>4, <3>5, CutKeep
    <3> QED BY <3>6 DEF q
  <2> QED BY <2>2, <2>3
<1>8. Cut(buffer, delta, Start(w + 2))
  BY <1>1, <1>4, <1>6, <1>7, KeepPlain
<1> QED BY <1>2, <1>5, <1>8 DEF Onward

\* The closer of a pair whose children were walked goes.
LEMMA EraseCloserWorks ==
    ASSUME AtWork, EraseCloser
    PROVE  Onward
<1>1. Ready /\ w # NULL /\ Here.closing /\ Here.tree \in {"accept", "reject"}
  BY HereFacts DEF AtWork, EraseCloser, Activations
<1>2. walk' = Set(next[w], FALSE) /\ Erase(Start(w), len[w])
  BY DEF EraseCloser, MoveTo, Set
<1>3. /\ w \in Tokens /\ Below(w, Chain) /\ (Faithful => Clear(w))
      /\ \E o \in Tokens : next[o] = w /\ type[o] \in Unwrapped(Here.tree) \ {"p_sub_del"}
  BY <1>1, HereFacts
<1>4. PICK o \in Tokens : next[o] = w /\ type[o] \in Unwrapped(Here.tree) \ {"p_sub_del"}
  BY <1>3
<1>5. ~Joined(w)
  <2>1. Joined(o)
    BY <1>1, <1>4, KindsOfChanges DEF Joined
  <2> QED BY <1>1, <1>4, <2>1, ShapeFacts
<1>6. w \in Nat /\ w <= w /\ Start(w) \in Nat /\ len[w] \in Nat /\ Start(w) + len[w] <= TextLen
  <2>1. /\ Start(w + 2) = Start(w) + len[w] + 1 /\ Start(w + 2) <= TextLen /\ TextLen \in Nat
        /\ Start(w) \in Nat /\ len[w] \in Nat /\ w \in Nat
    BY <1>1, <1>3, ReadyFacts
  <2> QED BY <2>1
<1>7. Ordered(walk') /\ Place(walk') = Start(w + 2)
  BY <1>1, <1>2, <1>3, <1>5, <1>6, StepOver
<1>8. Place(walk) = Start(w)
  BY <1>1, PlaceHere
<1>9. ASSUME Faithful, NEW b \in Start(w)..(Start(w) + len[w] - 1) PROVE Gone(b)
  <2>1. type[o] \in Unwrapped(call) \ {"p_sub_del"}
    BY <1>1, <1>4, <1>9, FlatFacts
  <2>2. b \in Of(next[o])
    BY <1>4, <1>9 DEF Of
  <2> QED BY <2>1, <2>2 DEF Gone
<1>10. Cut(buffer', delta', Start(w) + len[w])
  BY <1>2, <1>6, <1>8, <1>9, EraseCuts
<1>11. type[w] \notin Erased
  BY <1>1, <1>3, <1>5, ReadyFacts
<1>12. Cut(buffer', delta', Start(w + 2))
  BY <1>1, <1>3, <1>10, <1>11, KeepPlain
<1> QED BY <1>7, <1>12 DEF Onward

\* Accepting a substitution takes its old text out, up to the divider.
LEMMA EraseOldTextWorks ==
    ASSUME AtWork, EraseOldText
    PROVE  Onward
<1>1. Ready /\ w # NULL /\ ~Here.closing /\ type[w] = "p_sub_del" /\ Here.tree = "accept"
  BY DEF AtWork, EraseOldText, Walking
<1>2. walk' = Set(next[w], FALSE) /\ Erase(Start(w), Start(next[w]) - Start(w))
  BY DEF EraseOldText, MoveTo, Set
<1>3. Joined(w) /\ w \in Tokens /\ type[w] # "p_del"
  BY <1>1, HereFacts DEF Joined, CriticPairs
<1>4. Arrived(next[w], Here.tree)
  <2>1. next[w] # NULL
    BY <1>1, <1>3, ShapeFacts, ReadyFacts
  <2>2. \A m \in Tokens : next[m] = next[w] => m = w
    BY <1>1, <1>3, <2>1, ShapeFacts
  <2> QED BY <1>1, <2>2 DEF Arrived
<1>5. /\ next[w] \in Tokens /\ w < next[w] /\ Ordered(walk')
      /\ Place(walk') = Start(next[w])
  BY <1>1, <1>2, <1>3, <1>4, StepToCloser
<1>6. Place(walk) = Start(w)
  BY <1>1, <1>3, PlaceHere
<1> DEFINE size == Start(next[w]) - Start(w)
<1>7. size \in Nat /\ Start(w) + size = Start(next[w]) /\ Start(next[w]) <= TextLen /\ Start(w) \in Nat
      /\ Start(w) + (size - 1) = Start(next[w]) - 1
  <2>1. /\ Start(w) + len[w] + 1 <= Start(next[w]) /\ Start(w) \in Nat /\ len[w] \in Nat
        /\ Start(next[w]) \in Nat /\ Start(next[w]) <= TextLen
    BY <1>1, <1>3, <1>5, ReadyFacts
  <2> QED BY <2>1
<1> HIDE DEF size
<1>8. ASSUME Faithful, NEW b \in Start(w)..(Start(w) + size - 1) PROVE Gone(b)
  <2>1. Here.tree = call
    BY <1>1, <1>3, <1>8, FlatFacts
  <2>2. type[w] \in Erased
    BY <1>1, <2>1 DEF Erased
  <2>3. b \in Start(w)..(Upto(w) - 1)
    BY <1>1, <1>7, <1>8 DEF Upto
  <2> QED BY <1>3, <2>2, <2>3 DEF Gone
<1>9. Erase(Start(w), size)
  BY <1>2 DEF size
<1>10. Cut(buffer', delta', Start(w) + size)
  BY <1>6, <1>7, <1>8, <1>9, EraseCuts
<1> QED BY <1>5, <1>7, <1>10 DEF Onward

\* A pair that goes with all it contains
LEMMA EraseAllWorks ==
    ASSUME AtWork, EraseAll
    PROVE  Onward
<1>1. Ready /\ w # NULL /\ ~Here.closing /\ Here.tree \in {"accept", "reject"}
      /\ type[w] \in Whole(Here.tree)
  BY HereFacts DEF AtWork, EraseAll, Walking, Activations
<1>2. /\ walk' = Set(IF type[w] = "p_del" THEN next[w] ELSE next[next[w]], FALSE)
      /\ Erase(Start(w), Start(next[w]) + len[next[w]] - Start(w))
  BY DEF EraseAll, MoveTo, Set
<1>3. Joined(w) /\ w \in Tokens /\ Below(w, Chain) /\ (Faithful => Clear(w)) /\ type[w] # "p_sub_del"
  BY <1>1, HereFacts, KindsOfChanges DEF Joined
<1>4. /\ next[w] \in Tokens /\ next[w] # NULL /\ w < next[w] /\ ~Joined(next[w])
      /\ Below(next[w], Chain) /\ (Faithful => Clear(next[w]))
  BY <1>1, <1>3, ShapeFacts, ReadyFacts, NextIsBelow
<1>5. Place(walk) = Start(w)
  BY <1>1, <1>3, PlaceHere
<1> DEFINE size == Start(next[w]) + len[next[w]] - Start(w)
           q == Start(next[w]) + len[next[w]]
<1>6. size \in Nat /\ Start(w) + size = q /\ q <= TextLen /\ q \in Nat /\ Start(w) \in Nat
      /\ Start(w) + (size - 1) = q - 1
  <2>1. /\ Start(w) + len[w] + 1 <= Start(next[w]) /\ Start(w) \in Nat /\ len[w] \in Nat
        /\ Start(next[w]) \in Nat /\ len[next[w]] \in Nat
        /\ Start(next[w] + 2) = Start(next[w]) + len[next[w]] + 1 /\ Start(next[w] + 2) <= TextLen
        /\ TextLen \in Nat
    BY <1>1, <1>3, <1>4, ReadyFacts
  <2> QED BY <2>1
<1>7. q = Start(next[w]) + len[next[w]] /\ Erase(Start(w), size)
  BY <1>2
<1> HIDE DEF size, q
<1>8. ASSUME Faithful, NEW b \in Start(w)..(Start(w) + size - 1) PROVE Gone(b)
  <2>1. Here.tree = call
    BY <1>1, <1>3, <1>8, FlatFacts
  <2>2. type[w] \in Erased
    BY <1>1, <2>1, KindsOfChanges
  <2>3. Upto(w) = q
    BY <1>3, <1>7 DEF Upto
  <2>4. b \in Start(w)..(Upto(w) - 1)
    BY <1>6, <1>8, <2>3
  <2> QED BY <1>3, <2>2, <2>4 DEF Gone
<1>9. Cut(buffer', delta', q)
  <2>1. Cut(buffer', delta', Start(w) + size)
    BY <1>5, <1>6, <1>7, <1>8, EraseCuts
  <2> QED BY <1>6, <2>1
<1>10. CASE type[w] = "p_del"
  <2>1. Here.tree = "accept"
    BY <1>1, <1>10, KindsOfChanges
  <2>2. ~Flat
    <3> SUFFICES ASSUME Flat PROVE FALSE
      OBVIOUS
    <3>1. Here.tree = call
      BY <1>1, <1>3, FlatFacts
    <3> QED BY <2>1, <3>1 DEF Flat
  <2>3. \A m \in Tokens : next[m] = next[w] => m = w
    BY <1>1, <1>3, <1>4, ShapeFacts
  <2>4. Arrived(next[w], Here.tree)
    BY <1>10, <2>1, <2>2, <2>3 DEF Arrived
  <2>5. Ordered(walk') /\ Place(walk') = Start(next[w]) + len[next[w]]
    BY <1>1, <1>2, <1>3, <1>10, <2>1, <2>4, StepToCloser
  <2> QED BY <1>7, <1>9, <2>5 DEF Onward
<1>11. CASE type[w] # "p_del"
  <2>1. walk' = Set(next[next[w]], FALSE)
    BY <1>2, <1>11
  <2>2. w <= next[w]
    BY <1>1, <1>3, <1>4, ReadyFacts
  <2>3. Ordered(walk') /\ Place(walk') = Start(next[w] + 2)
    BY <1>1, <1>4, <2>1, <2>2, StepOver
  <2>4. type[next[w]] \notin Erased
    BY <1>1, <1>4, ReadyFacts
  <2>5. Cut(buffer', delta', Start(next[w] + 2))
    BY <1>1, <1>4, <1>7, <1>9, <2>4, KeepPlain
  <2> QED BY <2>3, <2>5 DEF Onward
<1> QED BY <1>10, <1>11

\* Into the children of a pair
LEMMA EnterOrdered ==
    ASSUME AtWork, w # NULL, ~Here.closing, type[w] \in Unwrapped(Here.tree),
           NEW wk, wk = Append(Set(next[w], type[w] # "p_sub_del"), Activate(child[w], "accept"))
    PROVE  Ordered(wk) /\ Place(wk) = Start(w + 2)
<1> DEFINE K == Len(walk)
           up == Set(next[w], type[w] # "p_sub_del")
           a == Activate(child[w], "accept")
<1>1. Ready /\ Here.tree \in {"accept", "reject"} /\ K \in Nat /\ K >= 1
  BY HereFacts DEF AtWork, Activations
<1>2. w \in Tokens /\ Below(w, Chain) /\ (Faithful => Clear(w)) /\ Joined(w)
  BY <1>1, HereFacts, KindsOfChanges DEF Joined
<1>3. next[w] \in Tokens /\ next[w] \in Ref /\ next[w] # NULL /\ w < next[w] /\ child[w] \in Ref
  BY <1>1, <1>2, ShapeFacts, ReadyFacts, NextOrNull
<1>4. Below(next[w], Chain) /\ (Faithful => Clear(next[w]))
  BY <1>1, <1>2, <1>3, NextIsBelow
<1>5. \A m \in Tokens : next[m] = next[w] => m = w
  BY <1>1, <1>2, <1>3, ShapeFacts
<1>6. Faithful => type[w] \notin Erased
  BY <1>1, <1>2, FlatFacts, ReadyFacts
<1>7. Flat => K = 1
  BY <1>1, <1>2, FlatFacts
<1>7a. Flat => ~(K > 1) /\ K + 1 = 2
  <2>1. \A k : k = 1 => ~(k > 1) /\ k + 1 = 2
    OBVIOUS
  <2> QED BY <1>7, <2>1
<1>8. /\ Extends(up) /\ Len(up) = K /\ up[K].node = next[w] /\ up[K].closing = (type[w] # "p_sub_del")
      /\ up[K].tree = Here.tree /\ up[K] \in Activations
  <2>1. (type[w] # "p_sub_del") \in BOOLEAN
    OBVIOUS
  <2> QED BY <1>3, <2>1, SetFacts
<1>9. a.node = child[w] /\ a.tree = "accept" /\ a.closing = FALSE /\ a \in Activations
  BY <1>3 DEF Activate, Activations
<1>10. wk = Append(up, a)
  OBVIOUS
<1> HIDE DEF up, a
<1>11. /\ wk \in Seq(Activations) /\ Len(wk) = K + 1 /\ wk[K + 1] = a
       /\ \A j \in 1..K : wk[j] = up[j]
  <2>1. up \in Seq(Activations) /\ Len(up) = K
    BY <1>8 DEF Extends
  <2> HIDE DEF K
  <2>2. Len(Append(up, a)) = K + 1
    BY <1>9, <2>1, AppendProperties
  <2>3. Append(up, a) \in Seq(Activations)
    BY <1>9, <2>1, AppendProperties
  <2>4. Append(up, a)[K + 1] = a
    BY <1>9, <2>1, AppendProperties
  <2>5. \A j \in 1..K : Append(up, a)[j] = up[j]
    BY <1>9, <2>1, AppendProperties
  <2> QED BY <1>10, <2>2, <2>3, <2>4, <2>5
<1>12. Extends(wk)
  <2>1. \A j \in 1..(K - 1) : j \in 1..K
    BY <1>1
  <2> QED BY <1>1, <1>8, <1>11, <2>1 DEF Extends
<1>13. K \in 1..K /\ wk[K] = up[K]
  BY <1>1, <1>11
<1>14. Stands(wk[K], Chain)
  <2>1. ~wk[K].closing => Arrived(next[w], Here.tree)
    BY <1>5, <1>8, <1>13 DEF Arrived
  <2>2. wk[K].closing => type[w] \in Unwrapped(Here.tree) \ {"p_sub_del"}
    BY <1>8, <1>13
  <2> QED BY <1>2, <1>4, <1>8, <1>13, <2>1, <2>2 DEF Stands, Below
<1>15. Level(wk, K)
  <2> DEFINE b == wk[K]
  <2>1. b = wk[Len(walk)] /\ b.tree = Here.tree /\ b.node = next[w]
    BY <1>8, <1>13
  <2>2. w < b.node /\ Stands(b, Chain) /\ b.node # NULL
    BY <1>3, <1>14, <2>1
  <2>3. ~(Flat /\ K > 1)
    BY <1>7a
  <2> HIDE DEF b
  <2> QED BY <1>12, <2>1, <2>2, <2>3, HereLevel
<1>16. \A j \in 1..(K - 1) : Level(wk, j)
  BY <1>12, LowerLevels
<1>17. Limit(wk, K + 1) = next[w] /\ K + 1 # 1 /\ K + 1 > 1 /\ (K + 1) - 1 = K
  <2>1. K + 1 # 1 /\ K + 1 > 1 /\ (K + 1) - 1 = K
    BY <1>1
  <2>2. Limit(wk, K + 1) = wk[K].node
    BY <2>1 DEF Limit
  <2> QED BY <1>8, <1>13, <2>1, <2>2
<1>18. child[w] # NULL => /\ child[w] = w + 2 /\ Below(child[w], next[w]) /\ w < child[w]
                          /\ Arrived(child[w], "accept") /\ (Faithful => Clear(child[w]))
                          /\ \A m \in Tokens : Joined(m) => next[m] # child[w]
  <2> SUFFICES ASSUME child[w] # NULL
               PROVE  /\ child[w] = w + 2 /\ Below(child[w], next[w]) /\ w < child[w]
                      /\ Arrived(child[w], "accept") /\ (Faithful => Clear(child[w]))
                      /\ \A m \in Tokens : Joined(m) => next[m] # child[w]
    OBVIOUS
  <2>1. /\ child[w] = w + 2 /\ Below(w + 2, next[w]) /\ w < w + 2
        /\ \A m \in Tokens : Joined(m) => next[m] # w + 2
        /\ Clear(w) /\ type[w] \notin Erased => Clear(w + 2)
    BY <1>1, <1>2, ChildIsBelow
  <2>2. Arrived(child[w], "accept")
    BY <2>1 DEF Arrived
  <2>3. Faithful => Clear(child[w])
    BY <1>2, <1>6, <2>1
  <2> QED BY <2>1, <2>2, <2>3
<1>19. Level(wk, K + 1)
  <2>1. a.node # NULL => Stands(a, next[w])
    BY <1>9, <1>18 DEF Stands, Below
  <2>2. Inside(a, wk[K])
    <3>1. next[w] = wk[K].node /\ type[w] \in Unwrapped(wk[K].tree) /\ wk[K].closing = (type[w] # "p_sub_del")
      BY <1>8, <1>13
    <3>2. a.node # NULL => w < a.node
      BY <1>9, <1>18
    <3> QED BY <1>2, <3>1, <3>2 DEF Inside
  <2> DEFINE L == K + 1
  <2>3. /\ wk[L] = a /\ Len(wk) = L /\ Limit(wk, L) = next[w] /\ L # 1 /\ wk[L - 1] = wk[K]
        /\ Flat => L = 2
    BY <1>7a, <1>11, <1>17
  <2> HIDE DEF L
  <2>4. Level(wk, L)
    BY <1>9, <2>1, <2>2, <2>3 DEF Level
  <2> QED BY <2>4 DEF L
<1>20. \A j \in 1..Len(wk) : Level(wk, j)
  <2>1. \A j \in 1..Len(wk) : j \in 1..(K - 1) \/ j = K \/ j = K + 1
    BY <1>1, <1>11
  <2> QED BY <1>15, <1>16, <1>19, <2>1
<1>21. Ordered(wk)
  <2>1. Len(wk) # 0
    BY <1>1, <1>11
  <2> QED BY <1>11, <1>20, <2>1, EmptySeq DEF Ordered
<1>22. Place(wk) = Start(w + 2)
  <2>1. Place(wk) = IF a.node = NULL THEN Start(next[w])
                    ELSE IF Late(a) THEN Start(a.node) + len[a.node] ELSE Start(a.node)
    BY <1>11, <1>17 DEF Place
  <2>2. CASE child[w] = NULL
    <3>1. next[w] = w + 2
      BY <1>1, <1>2, <1>3, <2>2, ShapeFacts
    <3> QED BY <1>9, <2>1, <2>2, <3>1
  <2>3. CASE child[w] # NULL
    <3>1. \A m \in Tokens : type[m] = "p_del" => next[m] # a.node
      BY <1>9, <1>18, <2>3 DEF Joined, CriticPairs
    <3>2. ~Late(a)
      BY <3>1 DEF Late
    <3> QED BY <1>9, <1>18, <2>1, <2>3, <3>2
  <2> QED BY <2>2, <2>3
<1> QED BY <1>21, <1>22

\* The opener of a pair that is unwrapped goes, and the walk goes on with what
\* is between it and the closer.
LEMMA EraseOpenerWorks ==
    ASSUME AtWork, EraseOpener
    PROVE  Onward
<1>1. Ready /\ w # NULL /\ ~Here.closing /\ Here.tree \in {"accept", "reject"}
      /\ type[w] \in Unwrapped(Here.tree)
  BY HereFacts DEF AtWork, EraseOpener, Walking, Activations
<1>2. /\ walk' = Append(Set(next[w], type[w] # "p_sub_del"), Activate(child[w], "accept"))
      /\ Erase(Start(w), len[w])
  BY DEF EraseOpener, Set
<1>3. Ordered(walk') /\ Place(walk') = Start(w + 2)
  BY <1>1, <1>2, EnterOrdered
<1>4. Joined(w) /\ w \in Tokens /\ (Faithful => Clear(w))
  BY <1>1, HereFacts, KindsOfChanges DEF Joined
<1>5. Place(walk) = Start(w)
  BY <1>1, <1>4, PlaceHere
<1>6. Start(w) \in Nat /\ len[w] \in Nat /\ Start(w) + len[w] <= TextLen
  <2>1. /\ Start(w + 2) = Start(w) + len[w] + 1 /\ Start(w + 2) <= TextLen /\ TextLen \in Nat
        /\ Start(w) \in Nat /\ len[w] \in Nat
    BY <1>1, <1>4, ReadyFacts
  <2> QED BY <2>1
<1>7. Faithful => type[w] \in Unwrapped(call)
  BY <1>1, <1>4, FlatFacts
<1>8. ASSUME Faithful, NEW b \in Start(w)..(Start(w) + len[w] - 1) PROVE Gone(b)
  <2>1. b \in Of(w)
    BY <1>8 DEF Of
  <2> QED BY <1>4, <1>7, <1>8, <2>1 DEF Gone
<1>9. Cut(buffer', delta', Start(w) + len[w])
  BY <1>2, <1>5, <1>6, <1>8, EraseCuts
<1>10. Faithful => type[w] \notin Erased
  BY <1>1, <1>7, ReadyFacts
<1>11. Cut(buffer', delta', Start(w + 2))
  BY <1>1, <1>4, <1>9, <1>10, KeepPlain
<1> QED BY <1>3, <1>11 DEF Onward

\* Back to the pair whose children were walked
LEMMA PopOrdered ==
    ASSUME AtWork, w = NULL, Len(walk) # 1, NEW wk, wk = SubSeq(walk, 1, Len(walk) - 1)
    PROVE  Ordered(wk) /\ Place(wk) = Start(Chain)
<1> DEFINE K == Len(walk)
           J == K - 1
<1>1. Ready /\ K \in Nat /\ K > 1 /\ J \in Nat /\ J >= 1 /\ J \in 1..J /\ J \in 1..K /\ J + 1 = K /\ K # 1
  <2>1. Ready /\ K \in Nat /\ K > 1
    BY HereFacts DEF AtWork
  <2> QED BY <2>1
<1>2. walk \in Seq(Activations)
  BY DEF AtWork, Ordered
<1>3. wk \in Seq(Activations) /\ Len(wk) = J /\ \A j \in 1..J : wk[j] = walk[j]
  <2>1. \A i \in 1..J : walk[i] \in Activations
    BY <1>1, <1>2, ElementOfSeq
  <2> QED BY <1>1, <1>2, <2>1, SubSeqProperties
<1>4. \A j \in 1..J : Level(walk, j) /\ walk[j].node \in Tokens /\ walk[j].node # NULL
  <2>1. \A j \in 1..J : j \in 1..K
    BY <1>1
  <2>2. \A m \in Tokens : m # NULL
    BY <1>1, ReadyFacts
  <2> QED BY <2>1, <2>2, HereFacts DEF AtWork, Ordered
<1> HIDE DEF J
<1>5. ASSUME NEW j \in 1..J PROVE Level(wk, j) /\ Limit(wk, j) = Limit(walk, j)
  <2>1. j \in Nat /\ (j > 1 => j - 1 \in 1..J) /\ (j # 1 => j - 1 \in 1..J)
    BY <1>1
  <2>2. wk[j] = walk[j] /\ (j > 1 => wk[j - 1] = walk[j - 1]) /\ (j # 1 => wk[j - 1] = walk[j - 1])
    BY <1>3, <2>1
  <2>3. Limit(wk, j) = Limit(walk, j)
    BY <2>2 DEF Limit
  <2>4. Level(walk, j) /\ walk[j].node # NULL
    BY <1>4
  <2> QED BY <2>2, <2>3, <2>4 DEF Level
<1>6. Ordered(wk)
  <2>1. Len(wk) # 0
    BY <1>1, <1>3
  <2> QED BY <1>3, <1>5, <2>1, EmptySeq DEF Ordered
<1>7. Chain = walk[J].node
  BY <1>1 DEF Chain, Limit, J
<1>8. wk[Len(wk)] = walk[J] /\ walk[J].node # NULL
  BY <1>1, <1>3, <1>4
<1>9. ~Late(walk[J])
  <2> SUFFICES ASSUME Late(walk[J]) PROVE FALSE
    OBVIOUS
  <2>1. Inside(walk[K], walk[J])
    <3>1. Level(walk, K) /\ K - 1 = J
      BY <1>1 DEF AtWork, Ordered, J
    <3> QED BY <1>1, <3>1 DEF Level
  <2>2. PICK o \in Tokens : next[o] = walk[J].node /\ walk[J].closing = (type[o] # "p_sub_del")
    BY <2>1 DEF Inside
  <2>3. PICK m \in Tokens : type[m] = "p_del" /\ next[m] = walk[J].node
    BY DEF Late
  <2>4. type[o] = "p_sub_del"
    BY <2>2 DEF Late
  <2>5. m = o
    BY <1>1, <1>8, <2>2, <2>3, ShapeFacts
  <2> QED BY <2>3, <2>4, <2>5
<1>10. Place(wk) = Start(Chain)
  BY <1>7, <1>8, <1>9 DEF Place
<1> QED BY <1>6, <1>10

\* What the walk leaves as it was means what it meant.
LEMMA FirstPassStays ==
    ASSUME FirstPass, UNCHANGED vars
    PROVE  FirstPass'
<1>1. /\ type' = type /\ next' = next /\ len' = len /\ src' = src
      /\ pass' = pass /\ emph' = emph /\ frames' = frames
  BY DEF vars, tree
<1>2. Nodes' = Nodes /\ Depth' = Depth /\ ((frames # <<>> /\ n # NULL) <=> (frames # <<>> /\ n # NULL)')
  BY <1>1 DEF Nodes, NTok, Depth, n, Top, NULL
<1>3. ASSUME NEW m \in Nodes PROVE Typed(m)' /\ Measured(m)'
  <2>1. Typed(m) /\ Measured(m)
    BY DEF FirstPass
  <2>2. Measured(m)'
    BY <1>1, <2>1 DEF Measured, Even, Tok
  <2>3. n' = n
    BY <1>1, <1>2 DEF n, Top
  <2>4. Typed(m)' <=> Typed(m)
    BY <1>1, <1>2, <2>3 DEF Typed, Even, Tok, NULL
  <2> QED BY <2>1, <2>2, <2>4
<1> QED BY <1>1, <1>2, <1>3 DEF FirstPass, NULL

\* The predicates of the walk say of the next state what they say now of the
\* next walk.
LEMMA WalkStays ==
    ASSUME UNCHANGED <<vars, call>>
    PROVE  /\ \A j : Level(walk, j)' <=> Level(walk', j)
           /\ Place(walk)' = Place(walk')
           /\ (Faithful' <=> Faithful) /\ Target' = Target /\ TextLen' = TextLen
           /\ Activations' = Activations /\ (Shape' <=> Shape)
<1>1. type' = type /\ next' = next /\ child' = child /\ len' = len /\ src' = src /\ call' = call
  BY DEF vars, tree
<1>2. Nodes' = Nodes /\ Tokens' = Tokens /\ End' = End
  BY <1>1 DEF Tokens, Nodes, NTok, Even, End
<1>3. (\A m : Start(m)' = Start(m)) /\ TextLen' = TextLen
  BY <1>1, StartStays
<1>4. Target' = Target /\ (Nested' <=> Nested)
  BY TargetStays
<1>5. (Faithful' <=> Faithful) /\ (Flat' <=> Flat) /\ Erased' = Erased
  BY <1>1, <1>4 DEF Faithful, Flat, Erased
<1>6. \A m : Joined(m)' <=> Joined(m)
  BY <1>1 DEF Joined
<1>7. \A x : Clear(x)' <=> Clear(x)
  BY <1>1, <1>2, <1>5 DEF Clear
<1>8. \A x, limit : Innermost(x, limit)' <=> Innermost(x, limit)
  BY <1>1, <1>2 DEF Innermost, Joined
<1>9. \A x, t : Arrived(x, t)' <=> Arrived(x, t)
  BY <1>1, <1>2, <1>5 DEF Arrived, Joined
<1>10. \A a, limit : Stands(a, limit)' <=> Stands(a, limit)
  BY <1>1, <1>2, <1>5, <1>7, <1>8, <1>9 DEF Stands, Unwrapped
<1>11. \A a, b : Inside(a, b)' <=> Inside(a, b)
  BY <1>1, <1>2 DEF Inside, Unwrapped, NULL
<1>12. \A j : Limit(walk, j)' = Limit(walk', j)
  BY <1>2 DEF Limit
<1>13. \A j : Level(walk, j)' <=> Level(walk', j)
  <2> SUFFICES ASSUME NEW j PROVE Level(walk, j)' <=> Level(walk', j)
    OBVIOUS
  <2> DEFINE a == walk'[j]
             b == walk'[j - 1]
             l == Limit(walk', j)
  <2>1. (Stands(walk[j], Limit(walk, j)))' <=> Stands(a, l)
    BY <1>1, <1>2, <1>5, <1>7, <1>8, <1>9, <1>12 DEF Stands, Unwrapped, Clear, Innermost, Arrived, Joined
  <2>2. (Inside(walk[j], walk[j - 1]))' <=> Inside(a, b)
    BY <1>1, <1>2 DEF Inside, Unwrapped, NULL
  <2> QED BY <1>1, <1>5, <2>1, <2>2 DEF Level, NULL
<1>14. Place(walk)' = Place(walk')
  <2>1. Late(walk[Len(walk)])' <=> Late(walk'[Len(walk')])
    BY <1>1, <1>2 DEF Late
  <2> QED BY <1>1, <1>3, <1>12, <2>1 DEF Place, NULL
<1>15. Activations' = Activations
  BY <1>2 DEF Activations, Ref, NULL
<1>16. Shape' <=> Shape
  BY ShapeStays
<1> QED BY <1>3, <1>4, <1>5, <1>13, <1>14, <1>15, <1>16

\* The inductive invariant
CMInv == TInv /\ FirstPass /\ WalkInv

\* The paired text is what the walk relies on.
LEMMA ReadyHolds ==
    ASSUME TInv, FirstPass, call \in {"accept", "reject"}, Shape
    PROVE  Ready
<1>1. src \in Inputs
  BY DEF TInv, IInv, TypeOK
<1> QED BY <1>1 DEF Ready, FirstPass

\* The text is one of the inputs, and of finite length.
LEMMA InInput ==
    ASSUME TInv, FirstPass
    PROVE  src \in Inputs /\ TextLen \in Nat
<1>1. src \in Inputs
  BY DEF TInv, IInv, TypeOK
<1> QED BY <1>1, StartFacts DEF FirstPass

\* Between two steps of the walk
LEMMA EditIsWork ==
    ASSUME CMInv, step = "edit"
    PROVE  AtWork /\ frames = <<>> /\ call \in {"accept", "reject"}
<1>1. Shape /\ walk # <<>> /\ walk \in Seq(Activations) /\ frames = <<>> /\ call \in {"accept", "reject"}
  BY DEF CMInv, WalkInv
<1>2. Ready
  BY <1>1, ReadyHolds DEF CMInv
<1>3. Ordered(walk)
  BY <1>1 DEF CMInv, WalkInv, Ordered
<1>4. Front = Place(walk)
  BY <1>1 DEF Front
<1>5. Cut(buffer, delta, Place(walk))
  BY <1>4 DEF CMInv, WalkInv, Edited, Cut
<1> QED BY <1>1, <1>2, <1>3, <1>5 DEF AtWork

\* What a step of the walk leads to is the invariant of the next state.
LEMMA WorkIsEdit ==
    ASSUME Onward, UNCHANGED <<vars, call>>, step' = "edit", Shape, frames = <<>>, call \in {"accept", "reject"}
    PROVE  WalkInv'
<1>1. /\ walk' \in Seq(Activations) /\ walk' # <<>> /\ \A k \in 1..Len(walk') : Level(walk', k)
      /\ Cut(buffer', delta', Place(walk'))
  BY DEF Onward, Ordered
<1>2. /\ \A j : Level(walk, j)' <=> Level(walk', j)
      /\ Place(walk)' = Place(walk')
      /\ (Faithful' <=> Faithful) /\ Target' = Target /\ TextLen' = TextLen
      /\ Activations' = Activations /\ (Shape' <=> Shape)
  BY WalkStays
<1>3. call' = call /\ frames' = frames
  BY DEF vars
<1>4. (\A k \in 1..Len(walk) : Level(walk, k))'
  BY <1>1, <1>2
<1>5. Front' = Place(walk')
  BY <1>1, <1>2 DEF Front
<1> DEFINE p == Place(walk')
<1>6. Laid(buffer', delta', TextLen', p) /\ (Faithful' => Kept(buffer', p - delta') = Target' \cap (0..(p - 1)))
  BY <1>1, <1>2 DEF Cut
<1>7. Front' = p
  BY <1>5
<1> HIDE DEF p
<1>8. Edited(Front)'
  BY <1>6, <1>7 DEF Edited
<1> QED BY <1>1, <1>2, <1>3, <1>4, <1>8 DEF WalkInv

\* Steps along a chain, or into one
LEMMA WalkStep ==
    ASSUME CMInv, EraseOpener \/ EraseCloser \/ EraseAll \/ EraseOldText \/ Leave
    PROVE  WalkInv' /\ UNCHANGED vars
<1>1. walk # <<>> /\ UNCHANGED vars /\ call' = call /\ step' = step
  BY DEF EraseOpener, EraseCloser, EraseAll, EraseOldText, Leave, Walking
<1>2. step = "edit"
  BY <1>1 DEF CMInv, WalkInv
<1>3. AtWork /\ frames = <<>> /\ call \in {"accept", "reject"} /\ Shape
  BY <1>2, EditIsWork DEF AtWork, Ready
<1>4. Onward
  BY <1>3, EraseOpenerWorks, EraseCloserWorks, EraseAllWorks, EraseOldTextWorks, LeaveWorks
<1> QED BY <1>1, <1>2, <1>3, <1>4, WorkIsEdit

\* The end of a chain, inner or outermost
LEMMA EndStep ==
    ASSUME CMInv, EndOfChain
    PROVE  WalkInv' /\ UNCHANGED vars
<1>1. /\ walk # <<>> /\ w = NULL /\ walk' = SubSeq(walk, 1, Len(walk) - 1)
      /\ step' = (IF Len(walk) = 1 THEN "done" ELSE step)
      /\ UNCHANGED vars /\ buffer' = buffer /\ delta' = delta /\ call' = call
  BY DEF EndOfChain
<1>2. step = "edit"
  BY <1>1 DEF CMInv, WalkInv
<1>3. AtWork /\ frames = <<>> /\ call \in {"accept", "reject"} /\ Shape /\ Ready
  BY <1>2, EditIsWork DEF AtWork, Ready
<1>4. Cut(buffer, delta, Place(walk)) /\ Place(walk) = Start(Chain)
  BY <1>1, <1>3, PlaceHere DEF AtWork
<1>5. CASE Len(walk) # 1
  <2>1. Ordered(walk') /\ Place(walk') = Start(Chain)
    BY <1>1, <1>3, <1>5, PopOrdered
  <2>2. Onward
    BY <1>1, <1>4, <2>1 DEF Onward
  <2> QED BY <1>1, <1>2, <1>3, <1>5, <2>2, WorkIsEdit
<1>6. CASE Len(walk) = 1
  <2>1. walk' = <<>>
    <3>1. walk \in Seq(Activations) /\ walk' = SubSeq(walk, 1, 0)
      BY <1>1, <1>3, <1>6 DEF AtWork, Ordered
    <3> QED BY <3>1
  <2>2. step' = "done" /\ frames' = frames
    BY <1>1, <1>6 DEF vars
  <2>3. /\ (Faithful' <=> Faithful) /\ Target' = Target /\ TextLen' = TextLen /\ (Shape' <=> Shape)
        /\ Activations' = Activations
    BY <1>1, WalkStays
  <2>4. Chain = End /\ Start(End) = TextLen
    BY <1>3, <1>6, ReadyFacts DEF Chain, Limit
  <2>5. Cut(buffer, delta, TextLen)
    BY <1>4, <2>4
  <2>6. Front' = TextLen'
    BY <2>1, <2>2 DEF Front
  <2> DEFINE p == TextLen
  <2>7. Laid(buffer', delta', TextLen', p) /\ (Faithful' => Kept(buffer', p - delta') = Target' \cap (0..(p - 1)))
    BY <1>1, <2>3, <2>5 DEF Cut
  <2>8. Front' = p
    BY <2>3, <2>6
  <2> HIDE DEF p
  <2>9. Edited(Front)'
    BY <2>7, <2>8 DEF Edited
  <2>10. walk' \in Seq(Activations') /\ Len(walk') = 0
    BY <2>1, EmptySeq
  <2>11. \A k \in 1..Len(walk') : Level(walk, k)'
    BY <2>10
  <2>12. call' \in {"accept", "reject"} /\ step' \in {"tokenize", "edit", "done"} /\ Shape' /\ frames' = <<>>
         /\ step' # "edit"
    BY <1>1, <1>3, <2>2, <2>3
  <2> QED BY <1>1, <2>1, <2>9, <2>10, <2>11, <2>12 DEF WalkInv
<1> QED BY <1>1, <1>5, <1>6

\* The walk begins at the first token, with one byte of text before it.
LEMMA BeginStep ==
    ASSUME CMInv, Begin
    PROVE  WalkInv' /\ UNCHANGED vars
<1>1. /\ step = "tokenize" /\ frames = <<>> /\ step' = "edit" /\ walk' = <<Activate(2, call)>>
      /\ UNCHANGED vars /\ buffer' = buffer /\ delta' = delta /\ call' = call
  BY DEF Begin
<1>2. Shape
  BY <1>1, ShapeHolds DEF CMInv
<1>3. call \in {"accept", "reject"}
  BY DEF CMInv, WalkInv
<1>4. Ready
  BY <1>2, <1>3, ReadyHolds DEF CMInv
<1>5. Laid(buffer, delta, TextLen, 0)
  <2>1. Front = 0 /\ Edited(Front)
    BY <1>1 DEF Front, CMInv, WalkInv
  <2> QED BY <2>1 DEF Edited
<1>6. Cut(buffer, delta, 0)
  <2>1. delta = 0
    BY <1>5 DEF Laid
  <2>2. Kept(buffer, 0 - delta) = {}
    BY <2>1 DEF Kept
  <2>3. 0..(0 - 1) = {}
    OBVIOUS
  <2> QED BY <1>5, <2>2, <2>3 DEF Cut
<1>7. /\ 2 \in Tokens /\ 2 # NULL /\ 2 < End /\ Start(2) = 1 /\ TextLen \in Nat /\ 1 <= TextLen
      /\ \A m \in Tokens : m \in Nat /\ m >= 2
      /\ \A m \in Tokens : Joined(m) => next[m] \in Tokens /\ m < next[m]
  <2>1. 2 \in Tokens
    BY <1>4, SpotFacts DEF Ready
  <2>2. 2 \in Spots /\ 2 # NULL /\ 2 < End
    BY <1>4, <2>1, ReadyFacts
  <2> QED BY <1>4, <2>1, <2>2, ReadyFacts
<1>8. Cut(buffer, delta, 1)
  <2>1. \A b \in 0..(1 - 1) : ~Gone(b)
    <3>1. \A b \in 0..(1 - 1) : b = 0
      OBVIOUS
    <3> QED BY <1>4, <3>1, FirstStays
  <2>2. 1 \in Nat /\ 0 <= 1
    OBVIOUS
  <2> QED BY <1>4, <1>6, <1>7, <2>1, <2>2, CutKeep
<1> DEFINE a == Activate(2, call)
<1>9. a.node = 2 /\ a.tree = call /\ a.closing = FALSE /\ a \in Activations
  <2>1. 2 \in Ref
    BY <1>7 DEF Tokens, Ref
  <2> QED BY <1>3, <2>1 DEF Activate, Activations
<1>10. \A m \in Tokens : Joined(m) => next[m] # 2
  BY <1>7
<1>11. Stands(a, End)
  <2>1. Innermost(2, End) /\ Clear(2)
    BY <1>7 DEF Innermost, Clear
  <2>2. Arrived(2, call)
    BY <1>10 DEF Arrived
  <2> QED BY <1>7, <1>9, <2>1, <2>2 DEF Stands
<1>12. walk' = <<a>>
  BY <1>1
<1> HIDE DEF a
<1>13. walk' \in Seq(Activations) /\ Len(walk') = 1 /\ walk'[1] = a /\ walk' # <<>>
  BY <1>9, <1>12
<1>14. Level(walk', 1)
  <2>1. Limit(walk', 1) = End
    BY DEF Limit
  <2> QED BY <1>7, <1>9, <1>11, <1>13, <2>1 DEF Level
<1>15. Ordered(walk')
  <2>1. \A k \in 1..1 : k = 1
    OBVIOUS
  <2> QED BY <1>13, <1>14, <2>1 DEF Ordered
<1>16. Place(walk') = Start(2)
  <2>1. ~Late(a)
    <3>1. \A m \in Tokens : type[m] = "p_del" => Joined(m)
      BY DEF Joined, CriticPairs
    <3> QED BY <1>9, <1>10, <3>1 DEF Late
  <2> QED BY <1>7, <1>9, <1>13, <2>1 DEF Place
<1>17. Onward
  BY <1>1, <1>7, <1>8, <1>15, <1>16 DEF Onward
<1> QED BY <1>1, <1>2, <1>3, <1>17, WorkIsEdit

\* While tokens are paired the buffer is not touched.
LEMMA TokenizeStep ==
    ASSUME CMInv, criticmarkup_tokenize
    PROVE  WalkInv' /\ FirstPass'
<1>1. step = "tokenize" /\ UNCHANGED <<buffer, delta, walk, call, step>>
  BY DEF criticmarkup_tokenize
<1>2. FirstPass' /\ src' = src
  BY TokenizeKeeps DEF CMInv
<1>3. walk = <<>> /\ call \in {"accept", "reject"}
  BY <1>1 DEF CMInv, WalkInv
<1>4. TextLen' = TextLen
  BY <1>2, StartStays
<1>5. Laid(buffer, delta, TextLen, 0)
  <2>1. Front = 0 /\ Edited(Front)
    BY <1>1 DEF Front, CMInv, WalkInv
  <2> QED BY <2>1 DEF Edited
<1>6. Front' = 0 /\ step' = "tokenize"
  BY <1>1 DEF Front
<1>7. Edited(Front)'
  BY <1>1, <1>4, <1>5, <1>6 DEF Edited
<1>8. walk' \in Seq(Activations') /\ Len(walk') = 0 /\ walk' = <<>>
  BY <1>1, <1>3, EmptySeq
<1>9. \A k \in 1..Len(walk') : Level(walk, k)'
  BY <1>8
<1> QED BY <1>1, <1>2, <1>3, <1>6, <1>7, <1>8, <1>9 DEF WalkInv

\* The invariant holds at first ...
LEMMA InitCMInv == CMInit => CMInv
<1> SUFFICES ASSUME CMInit PROVE CMInv
  OBVIOUS
<1>1. TInv
  BY InitShapes DEF CMInit
<1>2. FirstPass
  BY InitFirstPass
<1>3. TextLen \in Nat
  BY <1>1, <1>2, InInput
<1>4. /\ buffer = [i \in 1..TextLen |-> i - 1] /\ delta = 0 /\ walk = <<>>
      /\ call \in {"accept", "reject"} /\ step = "tokenize"
  BY DEF CMInit
<1> DEFINE text == TextLen
<1>5. text \in Nat /\ buffer = [i \in 1..text |-> i - 1]
  BY <1>3, <1>4
<1> HIDE DEF text
<1>6. DOMAIN buffer = 1..(text - 0) /\ \A i \in 1..text : buffer[i] = i - 1 /\ buffer[i] \in 0..(text - 1)
  BY <1>5
<1>7. Len(buffer) = text - 0
  <2>1. buffer \in [1..text -> 0..(text - 1)]
    BY <1>5, <1>6
  <2>2. buffer \in Seq(0..(text - 1))
    BY <1>5, <2>1, SeqDef
  <2>3. Len(buffer) \in Nat /\ DOMAIN buffer = 1..Len(buffer)
    BY <2>2, LenProperties
  <2> QED BY <1>5, <1>6, <2>3
<1>8. /\ \A b \in 0..(text - 1) : buffer[b - 0 + 1] = b
      /\ \A i \in 1..(0 - 0) : buffer[i] < 0
      /\ \A i \in 1..(text - 0 - 1) : buffer[i] < buffer[i + 1]
      /\ 0 \in 0..text /\ 0 \in 0..0
      /\ \A i \in 1..(text - 0) : buffer[i] \in 0..(text - 1)
  <2>1. ASSUME NEW b \in 0..(text - 1) PROVE buffer[b - 0 + 1] = b
    <3>1. b - 0 + 1 \in 1..text /\ b - 0 + 1 - 1 = b
      BY <1>5
    <3> QED BY <1>6, <3>1
  <2>2. ASSUME NEW i \in 1..(text - 0 - 1) PROVE buffer[i] < buffer[i + 1]
    <3>1. i \in 1..text /\ i + 1 \in 1..text
      BY <1>5
    <3> QED BY <1>6, <3>1
  <2> QED BY <1>5, <1>6, <2>1, <2>2
<1>9. Laid(buffer, 0, text, 0)
  BY <1>6, <1>7, <1>8 DEF Laid
<1>10. Edited(0)
  BY <1>4, <1>9 DEF Edited, text
<1>11. Front = 0
  BY <1>4 DEF Front
<1>12. walk \in Seq(Activations) /\ Len(walk) = 0
  BY <1>4, EmptySeq
<1>13. WalkInv
  BY <1>4, <1>10, <1>11, <1>12 DEF WalkInv
<1> QED BY <1>1, <1>2, <1>13 DEF CMInv

\* ... and after every step.
LEMMA NextCMInv == CMInv /\ [CMNext]_cmvars => CMInv'
<1> SUFFICES ASSUME CMInv, [CMNext]_cmvars PROVE CMInv'
  OBVIOUS
<1>1. ASSUME FirstPass', WalkInv', [Next]_vars PROVE CMInv'
  BY <1>1, NextShapes DEF CMInv
<1>2. CASE criticmarkup_tokenize
  <2>1. [Next]_vars
    BY <1>2 DEF criticmarkup_tokenize, Next
  <2> QED BY <1>1, <1>2, <2>1, TokenizeStep
<1>3. ASSUME WalkInv', UNCHANGED vars PROVE CMInv'
  <2>1. FirstPass'
    BY <1>3, FirstPassStays DEF CMInv
  <2> QED BY <1>1, <1>3, <2>1
<1>4. CASE Begin
  BY <1>3, <1>4, BeginStep
<1>5. CASE EraseOpener \/ EraseCloser \/ EraseAll \/ EraseOldText \/ Leave
  BY <1>3, <1>5, WalkStep
<1>6. CASE EndOfChain
  BY <1>3, <1>6, EndStep
<1>7. CASE UNCHANGED cmvars
  <2>1. UNCHANGED <<vars, call>> /\ UNCHANGED <<buffer, delta, walk, step>>
    BY <1>7 DEF cmvars
  <2>2. /\ \A j : Level(walk, j)' <=> Level(walk, j)
        /\ Place(walk)' = Place(walk)
        /\ (Faithful' <=> Faithful) /\ Target' = Target /\ TextLen' = TextLen
        /\ Activations' = Activations /\ (Shape' <=> Shape)
    BY <2>1, WalkStays
  <2>3. Front' = Front
    BY <2>1, <2>2 DEF Front
  <2>4. Edited(Front)
    BY DEF CMInv, WalkInv
  <2>5. Edited(Front)'
    BY <2>1, <2>2, <2>3, <2>4 DEF Edited
  <2>6. frames' = frames
    BY <2>1 DEF vars
  <2>7. WalkInv'
    BY <2>1, <2>2, <2>5, <2>6 DEF CMInv, WalkInv
  <2> QED BY <1>3, <2>1, <2>7
<1> QED BY <1>2, <1>4, <1>5, <1>6, <1>7 DEF CMNext

\* criticmarkup_accept and criticmarkup_reject keep the invariant: pairs nest, each
\* activation stands on its chain with nothing that goes around it, and the buffer
\* is edited up to there.
THEOREM CMInvariance == CMSpec => []CMInv
<1> QED BY InitCMInv, NextCMInv, PTL DEF CMSpec

\* The buffer always holds bytes of the document in their order, and delta counts
\* those that are missing: text_buffer_delete_range never moves what is not there.
THEOREM Typing == CMSpec => []CMTypeOK
<1>1. CMInv => CMTypeOK
  <2> SUFFICES ASSUME CMInv PROVE CMTypeOK
    OBVIOUS
  <2>1. call \in {"accept", "reject"} /\ step \in {"tokenize", "edit", "done"}
        /\ Laid(buffer, delta, TextLen, Front)
    BY DEF CMInv, WalkInv, Edited
  <2>2. TextLen \in Nat
    BY InInput DEF CMInv
  <2>3. delta \in 0..TextLen /\ Len(buffer) = TextLen - delta
    BY <2>1, <2>2 DEF Laid
  <2>4. \A i \in 1..Len(buffer) : buffer[i] \in Bytes
    BY <2>1, <2>3 DEF Laid, Bytes
  <2>5. \A i \in 1..(Len(buffer) - 1) : buffer[i] < buffer[i + 1]
    BY <2>1, <2>3 DEF Laid
  <2> QED BY <2>1, <2>3, <2>4, <2>5 DEF CMTypeOK
<1> QED BY <1>1, CMInvariance, PTL

\* Corrected by delta, the offset of a node about to be erased is that of its first
\* byte in the edited buffer, however changes nest: accept_token_tree and
\* reject_token_tree never erase at a stale offset.
THEOREM FindsTheNode == CMSpec => []StaleOffsetsCorrected
<1>1. CMInv => StaleOffsetsCorrected
  <2> SUFFICES ASSUME CMInv, walk # <<>>, w # NULL, Erasing
               PROVE  /\ Start(w) - delta + 1 \in 1..Len(buffer)
                      /\ buffer[Start(w) - delta + 1] = Start(w)
    BY DEF StaleOffsetsCorrected
  <2>1. AtWork
    <3>1. step = "edit"
      BY DEF CMInv, WalkInv
    <3> QED BY <3>1, EditIsWork
  <2>2. w \in Tokens /\ Here.tree \in {"accept", "reject"} /\ Ready
    BY <2>1, HereFacts DEF Activations, AtWork
  <2>3. Place(walk) = Start(w)
    <3>1. Here.closing \/ Joined(w)
      BY <2>2, KindsOfChanges DEF Erasing, Joined
    <3> QED BY <2>1, <3>1, PlaceHere
  <2> DEFINE p == Start(w)
  <2>4. p \in Nat /\ p < TextLen /\ TextLen \in Nat
    <3>1. /\ Start(w + 2) = Start(w) + len[w] + 1 /\ Start(w + 2) <= TextLen /\ TextLen \in Nat
          /\ Start(w) \in Nat /\ len[w] \in Nat
      BY <2>2, ReadyFacts
    <3> QED BY <3>1
  <2>5. Laid(buffer, delta, TextLen, p)
    BY <2>1, <2>3 DEF AtWork, Cut
  <2> HIDE DEF p
  <2>6. p - delta + 1 \in 1..Len(buffer) /\ buffer[p - delta + 1] = p
    BY <2>4, <2>5 DEF Laid
  <2> QED BY <2>6 DEF p
<1> QED BY <1>1, CMInvariance, PTL

\* At the end of a walk that meets its promise the buffer holds what it should.
LEMMA DoneIsTarget ==
    ASSUME CMInv, step = "done", Faithful
    PROVE  Remaining = Target
<1>1. walk = <<>> /\ Edited(Front)
  BY DEF CMInv, WalkInv
<1>2. Front = TextLen
  BY <1>1 DEF Front
<1>3. TextLen \in Nat
  BY InInput DEF CMInv
<1>4. Len(buffer) = TextLen - delta /\ Kept(buffer, TextLen - delta) = Target \cap (0..(TextLen - 1))
  BY <1>1, <1>2 DEF Edited, Laid
<1>5. Target \subseteq 0..(TextLen - 1)
  BY DEF Target, Accepted, Rejected, Bytes
<1>6. Remaining = Kept(buffer, TextLen - delta)
  BY <1>4 DEF Remaining, Kept
<1> QED BY <1>4, <1>5, <1>6

\* criticmarkup_accept leaves the new text: additions, replacements and highlights
\* without their markers, and no deletion, comment or old text, at any depth.
THEOREM AcceptedText == CMSpec => []AcceptGivesNewText
<1>1. CMInv => AcceptGivesNewText
  BY DoneIsTarget DEF AcceptGivesNewText, Faithful, Target
<1> QED BY <1>1, CMInvariance, PTL

\* criticmarkup_reject leaves the original text as long as no change lies inside a
\* deletion, an old text or a highlight.
THEOREM RejectedText == CMSpec => []RejectOfFlatChanges
<1>1. CMInv => RejectOfFlatChanges
  BY DoneIsTarget DEF RejectOfFlatChanges, Faithful, Target
<1> QED BY <1>1, CMInvariance, PTL
=============================================================================
