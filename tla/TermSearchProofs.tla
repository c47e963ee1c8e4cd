-------------------------- MODULE TermSearchProofs --------------------------
(***************************************************************************)
(* Theorems about the search for abbreviations and glossary terms.         *)
(*                                                                         *)
(* 1. words that begin, end and lie inside others, and what was read of    *)
(*    the text; recursive functions along links that decrease a rank       *)
(* 2. the trie: its states are the beginnings of the inserted words, and   *)
(*    a failure link is the longest end of a state that may be taken       *)
(* 3. one character of ac_search: falling, and the matches that end there  *)
(* 4. the chain of nodes and its splits                                    *)
(* 5. the inductive invariant IInv and TypeOK                              *)
(* 6. AllTermsFound: the state is the longest word read (AllRead)          *)
(* 7. FlagsTheTerms: the matches are disjoint (Spaced), and what is left   *)
(*    of them is in the node that is split next (Ahead)                    *)
(* 8. ScansFromTheLeft: each match is the only occurrence that begins      *)
(*    behind the one before it and ends no later (Greedy)                  *)
(***************************************************************************)
EXTENDS TermSearch, TLAPS, SequenceTheorems, NaturalsInduction, WellFoundedInduction

\* A set of numbers has a least element.
LEMMA LeastNumber ==
    ASSUME NEW S, S \subseteq Nat, S # {}
    PROVE  \E x \in S : \A y \in S : x <= y
<1>1. PICK x \in S : \A y \in S : <<y, x>> \notin OpToRel(<, Nat)
  BY WFMin, NatLessThanWellFounded, Zenon
<1>2. \A y \in S : ~(y < x)
  BY <1>1 DEF OpToRel
<1> QED BY <1>2

\* Numbers below a bound have a greatest element.
LEMMA GreatestNumber ==
    ASSUME NEW top \in Nat, NEW S, S \subseteq 0..top, S # {}
    PROVE  \E x \in S : \A y \in S : y <= x
<1> DEFINE T == {k \in Nat : top - k \in S}
<1>1. PICK x0 \in S : TRUE
  OBVIOUS
<1>2. top - x0 \in T
  OBVIOUS
<1>3. T \subseteq Nat /\ T # {}
  BY <1>2
<1> HIDE DEF T
<1>4. PICK m \in T : \A k \in T : m <= k
  BY <1>3, LeastNumber
<1>5. top - m \in S /\ m \in Nat
  BY DEF T
<1>6. ASSUME NEW y \in S PROVE y <= top - m
  <2>1. y \in Nat /\ top - y \in Nat
    OBVIOUS
  <2>2. top - (top - y) = y
    BY <2>1
  <2>3. top - y \in T
    BY <2>1, <2>2 DEF T
  <2> QED BY <1>4, <1>5, <2>1, <2>3
<1> QED BY <1>5, <1>6

\* What Max and Min of a non-empty finite set of numbers are.
LEMMA MaxOfNumbers ==
    ASSUME NEW top \in Nat, NEW S, S \subseteq 0..top, S # {}
    PROVE  Max(S) \in S /\ \A y \in S : y <= Max(S)
<1>1. \E x \in S : \A y \in S : y <= x
  BY GreatestNumber
<1>2. \E x \in S : \A y \in S : x >= y
  <2>1. PICK x \in S : \A y \in S : y <= x
    BY <1>1
  <2>2. \A y \in S : x >= y
    BY <2>1
  <2> QED BY <2>2
<1> DEFINE m == CHOOSE x \in S : \A y \in S : x >= y
<1>3. m \in S /\ \A y \in S : m >= y
  BY <1>2
<1>4. Max(S) = m
  BY DEF Max
<1> HIDE DEF m
<1> QED BY <1>3, <1>4

\* Min(S) is the least element of a set of numbers.
LEMMA MinOfNumbers ==
    ASSUME NEW S, S \subseteq Nat, S # {}
    PROVE  Min(S) \in S /\ \A y \in S : Min(S) <= y
<1>1. \E x \in S : \A y \in S : x <= y
  BY LeastNumber
<1> DEFINE m == CHOOSE x \in S : \A y \in S : x =< y
<1>3. m \in S /\ \A y \in S : m <= y
  BY <1>1
<1>4. Min(S) = m
  BY DEF Min
<1> HIDE DEF m
<1> QED BY <1>3, <1>4
-----------------------------------------------------------------------------
(* Words: v ends w, and w is read before offset e of the text.             *)

Ends(v, w) == /\ Len(v) <= Len(w)
              /\ \A j \in 1..Len(v) : v[j] = w[Len(w) - Len(v) + j]
At(w, e) == /\ Len(w) <= e
            /\ \A j \in 1..Len(w) : w[j] = text[e - Len(w) + j]

\* The first k characters of a word.
LEMMA PrefixFacts ==
    ASSUME NEW C, NEW w \in Seq(C), NEW k \in 0..Len(w)
    PROVE  /\ Prefix(w, k) \in Seq(C) /\ Len(Prefix(w, k)) = k
           /\ \A j \in 1..k : Prefix(w, k)[j] = w[j]
<1>1. Len(w) \in Nat /\ \A i \in 1..k : w[i] \in C
  BY LenProperties, ElementOfSeq
<1>2. k \in Int /\ 1 \in Int /\ (1 <= k => k - 1 + 1 = k) /\ (~(1 <= k) => k = 0)
  BY <1>1
<1>3. /\ SubSeq(w, 1, k) \in Seq(C)
      /\ Len(SubSeq(w, 1, k)) = IF 1 <= k THEN k - 1 + 1 ELSE 0
      /\ \A i \in 1..(k - 1 + 1) : SubSeq(w, 1, k)[i] = w[1 + i - 1]
  BY <1>1, <1>2, SubSeqProperties
<1> QED BY <1>1, <1>2, <1>3 DEF Prefix

\* A word from its k-th character on; it ends the word.
LEMMA SuffixFacts ==
    ASSUME NEW C, NEW w \in Seq(C), NEW k \in 1..(Len(w) + 1)
    PROVE  /\ Suffix(w, k) \in Seq(C) /\ Len(Suffix(w, k)) = Len(w) - k + 1
           /\ \A j \in 1..(Len(w) - k + 1) : Suffix(w, k)[j] = w[k + j - 1]
           /\ Ends(Suffix(w, k), w)
<1>1. Len(w) \in Nat /\ \A i \in k..Len(w) : w[i] \in C
  BY LenProperties, ElementOfSeq
<1>2. k \in Int /\ Len(w) \in Int /\ (k <= Len(w) \/ k = Len(w) + 1)
  BY <1>1
<1>3. /\ SubSeq(w, k, Len(w)) \in Seq(C)
      /\ Len(SubSeq(w, k, Len(w))) = IF k <= Len(w) THEN Len(w) - k + 1 ELSE 0
      /\ \A i \in 1..(Len(w) - k + 1) : SubSeq(w, k, Len(w))[i] = w[k + i - 1]
  BY <1>1, <1>2, SubSeqProperties
<1>4. /\ Suffix(w, k) \in Seq(C) /\ Len(Suffix(w, k)) = Len(w) - k + 1
      /\ \A j \in 1..(Len(w) - k + 1) : Suffix(w, k)[j] = w[k + j - 1]
  BY <1>1, <1>2, <1>3 DEF Suffix
<1>5. Ends(Suffix(w, k), w)
  BY <1>1, <1>2, <1>4 DEF Ends
<1> QED BY <1>4, <1>5

\* A word that ends another one is one of its suffixes.
LEMMA EndsIsSuffix ==
    ASSUME NEW C, NEW v \in Seq(C), NEW w \in Seq(C), Ends(v, w)
    PROVE  v = Suffix(w, Len(w) - Len(v) + 1)
<1> DEFINE k == Len(w) - Len(v) + 1
<1>1. Len(v) \in Nat /\ Len(w) \in Nat /\ k \in 1..(Len(w) + 1)
  BY LenProperties DEF Ends
<1>2. /\ Suffix(w, k) \in Seq(C) /\ Len(Suffix(w, k)) = Len(w) - k + 1
      /\ \A j \in 1..(Len(w) - k + 1) : Suffix(w, k)[j] = w[k + j - 1]
  BY <1>1, SuffixFacts
<1>3. Len(v) = Len(Suffix(w, k))
  BY <1>1, <1>2
<1>4. \A j \in 1..Len(v) : v[j] = Suffix(w, k)[j]
  BY <1>1, <1>2 DEF Ends
<1> HIDE DEF k
<1>5. v = Suffix(w, k)
  BY <1>2, <1>3, <1>4, SeqEqual
<1> QED BY <1>5 DEF k

\* Ending is transitive, and the shorter of two ends of a word ends the longer.
LEMMA EndsOfEnds ==
    ASSUME NEW C, NEW u \in Seq(C), NEW v \in Seq(C), NEW w \in Seq(C)
    PROVE  /\ Ends(w, w) /\ Ends(<<>>, w)
           /\ Ends(u, v) /\ Ends(v, w) => Ends(u, w)
           /\ Ends(u, w) /\ Ends(v, w) /\ Len(u) <= Len(v) => Ends(u, v)
           /\ Ends(u, w) /\ Ends(v, w) /\ Len(u) = Len(v) => u = v
<1>1. Len(u) \in Nat /\ Len(v) \in Nat /\ Len(w) \in Nat /\ Len(<<>>) = 0
  BY LenProperties, EmptySeq
<1>2. Ends(w, w) /\ Ends(<<>>, w)
  BY <1>1 DEF Ends
<1>3. Ends(u, v) /\ Ends(v, w) => Ends(u, w)
  <2>1. SUFFICES ASSUME Ends(u, v), Ends(v, w) PROVE Ends(u, w)
    OBVIOUS
  <2>2. ASSUME NEW j \in 1..Len(u) PROVE u[j] = w[Len(w) - Len(u) + j]
    <3> DEFINE i == Len(v) - Len(u) + j
    <3>1. i \in 1..Len(v) /\ Len(w) - Len(v) + i = Len(w) - Len(u) + j
      BY <1>1, <2>1 DEF Ends
    <3>2. u[j] = v[i]
      BY <2>1 DEF Ends
    <3> HIDE DEF i
    <3> QED BY <2>1, <3>1, <3>2 DEF Ends
  <2> QED BY <1>1, <2>1, <2>2 DEF Ends
<1>4. Ends(u, w) /\ Ends(v, w) /\ Len(u) <= Len(v) => Ends(u, v)
  <2>1. SUFFICES ASSUME Ends(u, w), Ends(v, w), Len(u) <= Len(v) PROVE Ends(u, v)
    OBVIOUS
  <2>2. ASSUME NEW j \in 1..Len(u) PROVE u[j] = v[Len(v) - Len(u) + j]
    <3> DEFINE i == Len(v) - Len(u) + j
    <3>1. i \in 1..Len(v) /\ Len(w) - Len(v) + i = Len(w) - Len(u) + j
      BY <1>1, <2>1
    <3>2. u[j] = w[Len(w) - Len(u) + j]
      BY <2>1 DEF Ends
    <3> HIDE DEF i
    <3>3. v[i] = w[Len(w) - Len(v) + i]
      BY <2>1, <3>1 DEF Ends
    <3> QED BY <3>1, <3>2, <3>3 DEF i
  <2> QED BY <2>1, <2>2 DEF Ends
<1>5. Ends(u, w) /\ Ends(v, w) /\ Len(u) = Len(v) => u = v
  <2>1. SUFFICES ASSUME Ends(u, w), Ends(v, w), Len(u) = Len(v) PROVE u = v
    OBVIOUS
  <2>2. \A j \in 1..Len(u) : u[j] = v[j]
    BY <1>1, <2>1 DEF Ends
  <2> QED BY <2>1, <2>2, SeqEqual
<1> QED BY <1>2, <1>3, <1>4, <1>5

\* The same for what has been read.
LEMMA ReadFacts ==
    ASSUME NEW C, text \in Seq(C), NEW e \in 0..Len(text),
           NEW v \in Seq(C), NEW w \in Seq(C)
    PROVE  /\ At(<<>>, e)
           /\ Ends(v, w) /\ At(w, e) => At(v, e)
           /\ At(v, e) /\ At(w, e) /\ Len(v) <= Len(w) => Ends(v, w)
           /\ At(v, e) /\ At(w, e) /\ Len(v) = Len(w) => v = w
<1>1. Len(v) \in Nat /\ Len(w) \in Nat /\ Len(<<>>) = 0 /\ Len(text) \in Nat /\ e \in Nat
  BY LenProperties, EmptySeq
<1>2. At(<<>>, e)
  BY <1>1 DEF At
<1>3. Ends(v, w) /\ At(w, e) => At(v, e)
  <2>1. SUFFICES ASSUME Ends(v, w), At(w, e) PROVE At(v, e)
    OBVIOUS
  <2>2. ASSUME NEW j \in 1..Len(v) PROVE v[j] = text[e - Len(v) + j]
    <3> DEFINE i == Len(w) - Len(v) + j
    <3>1. i \in 1..Len(w) /\ e - Len(w) + i = e - Len(v) + j
      BY <1>1, <2>1 DEF Ends
    <3>2. v[j] = w[i]
      BY <2>1 DEF Ends
    <3> HIDE DEF i
    <3> QED BY <2>1, <3>1, <3>2 DEF At
  <2> QED BY <1>1, <2>1, <2>2 DEF Ends, At
<1>4. At(v, e) /\ At(w, e) /\ Len(v) <= Len(w) => Ends(v, w)
  <2>1. SUFFICES ASSUME At(v, e), At(w, e), Len(v) <= Len(w) PROVE Ends(v, w)
    OBVIOUS
  <2>2. ASSUME NEW j \in 1..Len(v) PROVE v[j] = w[Len(w) - Len(v) + j]
    <3> DEFINE i == Len(w) - Len(v) + j
    <3>1. i \in 1..Len(w) /\ e - Len(w) + i = e - Len(v) + j
      BY <1>1, <2>1
    <3>2. v[j] = text[e - Len(v) + j]
      BY <2>1 DEF At
    <3> HIDE DEF i
    <3>3. w[i] = text[e - Len(w) + i]
      BY <2>1, <3>1 DEF At
    <3> QED BY <3>1, <3>2, <3>3 DEF i
  <2> QED BY <2>1, <2>2 DEF Ends
<1>5. At(v, e) /\ At(w, e) /\ Len(v) = Len(w) => v = w
  <2>1. SUFFICES ASSUME At(v, e), At(w, e), Len(v) = Len(w) PROVE v = w
    OBVIOUS
  <2>2. \A j \in 1..Len(v) : v[j] = w[j]
    BY <1>1, <2>1 DEF At
  <2> QED BY <2>1, <2>2, SeqEqual
<1> QED BY <1>2, <1>3, <1>4, <1>5

\* Reading one more character.
LEMMA ReadOneMore ==
    ASSUME NEW C, text \in Seq(C), NEW e \in Nat, e < Len(text), NEW w \in Seq(C)
    PROVE  /\ text[e + 1] \in C
           /\ At(w, e) => At(Append(w, text[e + 1]), e + 1)
           /\ w # <<>> /\ At(w, e + 1) =>
                  /\ Prefix(w, Len(w) - 1) \in Seq(C)
                  /\ Len(Prefix(w, Len(w) - 1)) = Len(w) - 1
                  /\ At(Prefix(w, Len(w) - 1), e)
                  /\ w = Append(Prefix(w, Len(w) - 1), text[e + 1])
<1>1. Len(w) \in Nat /\ Len(text) \in Nat /\ (w # <<>> => Len(w) > 0)
  BY LenProperties, EmptySeq
<1>2. text[e + 1] \in C
  BY <1>1, ElementOfSeq
<1> DEFINE c == text[e + 1]
<1>3. At(w, e) => At(Append(w, c), e + 1)
  <2>1. SUFFICES ASSUME At(w, e) PROVE At(Append(w, c), e + 1)
    OBVIOUS
  <2>2. /\ Len(Append(w, c)) = Len(w) + 1
        /\ \A j \in 1..Len(w) : Append(w, c)[j] = w[j]
        /\ Append(w, c)[Len(w) + 1] = c
    BY <1>1, <1>2, AppendProperties
  <2>3. ASSUME NEW j \in 1..(Len(w) + 1)
        PROVE Append(w, c)[j] = text[(e + 1) - (Len(w) + 1) + j]
    <3>1. (e + 1) - (Len(w) + 1) + j = e - Len(w) + j
      BY <1>1
    <3>2. CASE j = Len(w) + 1
      <4>1. e - Len(w) + j = e + 1
        BY <1>1, <3>2
      <4> QED BY <2>2, <3>1, <3>2, <4>1
    <3>3. CASE j # Len(w) + 1
      <4>1. j \in 1..Len(w)
        BY <1>1, <3>3
      <4> QED BY <2>1, <2>2, <3>1, <4>1 DEF At
    <3> QED BY <3>2, <3>3
  <2>4. Len(w) + 1 <= e + 1
    BY <1>1, <2>1 DEF At
  <2> HIDE DEF c
  <2> QED BY <2>2, <2>3, <2>4 DEF At
<1>4. ASSUME w # <<>>, At(w, e + 1)
      PROVE  /\ Prefix(w, Len(w) - 1) \in Seq(C)
             /\ Len(Prefix(w, Len(w) - 1)) = Len(w) - 1
             /\ At(Prefix(w, Len(w) - 1), e)
             /\ w = Append(Prefix(w, Len(w) - 1), c)
  <2> DEFINE p == Prefix(w, Len(w) - 1)
  <2>1. Len(w) - 1 \in 0..Len(w) /\ Len(w) \in 1..Len(w) /\ Len(w) <= e + 1
    BY <1>1, <1>4 DEF At
  <2>2. p \in Seq(C) /\ Len(p) = Len(w) - 1 /\ \A j \in 1..(Len(w) - 1) : p[j] = w[j]
    BY <2>1, PrefixFacts
  <2> HIDE DEF p
  <2>3. ASSUME NEW j \in 1..Len(p) PROVE p[j] = text[e - Len(p) + j]
    <3>1. j \in 1..(Len(w) - 1) /\ j \in 1..Len(w) /\ e - Len(p) + j = (e + 1) - Len(w) + j
      BY <1>1, <2>1, <2>2
    <3> QED BY <1>4, <2>2, <3>1 DEF At
  <2>4. At(p, e)
    BY <1>1, <2>1, <2>2, <2>3 DEF At
  <2>5. /\ Append(p, c) \in Seq(C) /\ Len(Append(p, c)) = Len(p) + 1
        /\ \A j \in 1..Len(p) : Append(p, c)[j] = p[j]
        /\ Append(p, c)[Len(p) + 1] = c
    BY <1>2, <2>2, AppendProperties
  <2>6. w[Len(w)] = c
    <3>1. (e + 1) - Len(w) + Len(w) = e + 1
      BY <1>1
    <3> QED BY <1>4, <2>1, <3>1 DEF At
  <2>7. Len(w) = Len(Append(p, c))
    BY <1>1, <2>2, <2>5
  <2>8. ASSUME NEW j \in 1..Len(w) PROVE w[j] = Append(p, c)[j]
    <3>1. CASE j = Len(w)
      BY <1>1, <2>2, <2>5, <2>6, <3>1
    <3>2. CASE j # Len(w)
      <4>1. j \in 1..(Len(w) - 1) /\ j \in 1..Len(p)
        BY <1>1, <2>2, <3>2
      <4> QED BY <2>2, <2>5, <4>1
    <3> QED BY <3>1, <3>2
  <2>9. w = Append(p, c)
    BY <2>5, <2>7, <2>8, SeqEqual
  <2> QED BY <2>2, <2>4, <2>9 DEF p
<1> QED BY <1>2, <1>3, <1>4

-----------------------------------------------------------------------------
(* The recursive functions of the search are defined everywhere.           *)

\* out follows the links up from an element of S until one where it stops.
Follows(out, S, stop, base, own, up) ==
    \A x \in S : out[x] = IF x \in stop THEN base[x] ELSE own[x] \o out[up[x]]

\* Links that decrease a rank are followed to an end.
LEMMA FollowedExists ==
    ASSUME NEW S, NEW V, NEW stop, NEW base, NEW own, NEW up, NEW rank, NEW bound \in Nat,
           \A x \in S : /\ rank[x] \in 0..bound
                        /\ x \in stop => base[x] \in Seq(V)
                        /\ x \notin stop => /\ own[x] \in Seq(V) /\ up[x] \in S
                                            /\ rank[up[x]] < rank[x]
    PROVE  \E out \in [S -> Seq(V)] : Follows(out, S, stop, base, own, up)
<1> DEFINE Up(out, x) == IF x \in stop THEN base[x] ELSE own[x] \o out[up[x]]
           Att(r) == \E out \in [S -> Seq(V)] : \A x \in S : rank[x] <= r => out[x] = Up(out, x)
           Bad == {r \in Nat : ~Att(r)}
<1>1. ASSUME NEW r \in Nat, r # 0 => Att(r - 1) PROVE Att(r)
  <2>1. PICK h \in [S -> Seq(V)] : r # 0 => \A x \in S : rank[x] <= r - 1 => h[x] = Up(h, x)
    <3>1. CASE r = 0
      <4>1. [x \in S |-> <<>>] \in [S -> Seq(V)]
        BY EmptySeq
      <4> QED BY <3>1, <4>1
    <3>2. CASE r # 0
      BY <1>1, <3>2
    <3> QED BY <3>1, <3>2
  <2> DEFINE f == [x \in S |-> Up(h, x)]
  <2>2. f \in [S -> Seq(V)]
    <3>1. ASSUME NEW x \in S PROVE Up(h, x) \in Seq(V)
      <4>1. CASE x \in stop
        BY <4>1
      <4>2. CASE x \notin stop
        <5>1. own[x] \in Seq(V) /\ h[up[x]] \in Seq(V)
          BY <2>1, <4>2
        <5> QED BY <4>2, <5>1, ConcatProperties
      <4> QED BY <4>1, <4>2
    <3> QED BY <3>1
  <2>3. ASSUME NEW x \in S, rank[x] <= r PROVE f[x] = Up(f, x)
    <3>1. CASE x \in stop
      BY <3>1
    <3>2. CASE x \notin stop
      <4>1. up[x] \in S /\ rank[up[x]] < rank[x] /\ rank[x] \in Nat /\ rank[up[x]] \in Nat
        BY <3>2
      <4>2. r # 0 /\ rank[up[x]] <= r - 1
        BY <2>3, <4>1
      <4>3. h[up[x]] = f[up[x]]
        BY <2>1, <4>1, <4>2
      <4>4. f[x] = own[x] \o h[up[x]]
        BY <3>2
      <4> HIDE DEF f
      <4> QED BY <3>2, <4>3, <4>4
    <3> QED BY <3>1, <3>2
  <2> HIDE DEF f, Up
  <2> QED BY <2>2, <2>3
<1> HIDE DEF Att
<1>2. Bad = {}
  <2>1. SUFFICES ASSUME Bad # {} PROVE FALSE
    OBVIOUS
  <2>2. PICK r \in Bad : \A y \in Bad : r <= y
    <3>1. Bad \subseteq Nat
      OBVIOUS
    <3> HIDE DEF Bad
    <3> QED BY <2>1, <3>1, LeastNumber
  <2>3. r \in Nat /\ ~Att(r)
    OBVIOUS
  <2>4. r # 0 => Att(r - 1)
    <3>1. SUFFICES ASSUME r # 0 PROVE Att(r - 1)
      OBVIOUS
    <3>2. r - 1 \in Nat /\ ~(r <= r - 1)
      BY <2>3, <3>1
    <3>3. r - 1 \notin Bad
      <4> HIDE DEF Bad
      <4> QED BY <2>2, <3>2
    <3> QED BY <3>2, <3>3
  <2> QED BY <1>1, <2>3, <2>4
<1>3. Att(bound)
  BY <1>2
<1>4. PICK out \in [S -> Seq(V)] : \A x \in S : rank[x] <= bound => out[x] = Up(out, x)
  BY <1>3 DEF Att
<1>5. \A x \in S : rank[x] <= bound
  OBVIOUS
<1> QED BY <1>4, <1>5 DEF Follows

\* What is appended one by one.
Adds(out, list, found) ==
    \A k \in 0..Len(found) :
        out[k] = IF k = 0 THEN list ELSE match_append(out[k - 1], found[k])

\* match_append appends, or replaces the last match.
LEMMA AppendFacts ==
    ASSUME NEW V, NEW list \in Seq(V), NEW m \in V
    PROVE  /\ match_append(list, m) \in Seq(V) /\ match_append(list, m) # <<>>
           /\ match_append(list, m) = IF options = "longest" /\ list # <<>> /\ list[Len(list)].start = m.start
                                      THEN [list EXCEPT ![Len(list)] = m] ELSE Append(list, m)
<1>1. Len(list) \in Nat /\ (list # <<>> => Len(list) \in 1..Len(list))
  BY LenProperties, EmptySeq
<1>2. Append(list, m) \in Seq(V) /\ Len(Append(list, m)) = Len(list) + 1
  BY AppendProperties
<1>3. list # <<>> => /\ [list EXCEPT ![Len(list)] = m] \in Seq(V)
                     /\ Len([list EXCEPT ![Len(list)] = m]) = Len(list)
  BY <1>1, ExceptSeq
<1>4. Len(<<>>) = 0
  BY EmptySeq
<1>5. Append(list, m) # <<>> /\ (list # <<>> => [list EXCEPT ![Len(list)] = m] # <<>>)
  BY <1>1, <1>2, <1>3, <1>4
<1> QED BY <1>2, <1>3, <1>5 DEF match_append

\* The lists that AddAll goes through exist, for every list of new matches.
LEMMA AddedExists ==
    ASSUME NEW V, NEW list \in Seq(V), NEW found \in Seq(V)
    PROVE  \E out \in [0..Len(found) -> Seq(V)] : Adds(out, list, found)
<1> DEFINE D == 0..Len(found)
           Val(out, k) == IF k = 0 THEN list ELSE match_append(out[k - 1], found[k])
           Att(r) == \E out \in [D -> Seq(V)] : \A k \in D : k <= r => out[k] = Val(out, k)
           Bad == {r \in Nat : ~Att(r)}
<1>0. Len(found) \in Nat
  BY LenProperties
<1>1. ASSUME NEW r \in Nat, r # 0 => Att(r - 1) PROVE Att(r)
  <2>1. PICK h \in [D -> Seq(V)] : r # 0 => \A k \in D : k <= r - 1 => h[k] = Val(h, k)
    <3>1. CASE r = 0
      <4>1. [k \in D |-> <<>>] \in [D -> Seq(V)]
        BY EmptySeq
      <4> QED BY <3>1, <4>1
    <3>2. CASE r # 0
      BY <1>1, <3>2
    <3> QED BY <3>1, <3>2
  <2> DEFINE f == [k \in D |-> Val(h, k)]
  <2>2. f \in [D -> Seq(V)]
    <3>1. ASSUME NEW k \in D PROVE Val(h, k) \in Seq(V)
      <4>1. CASE k = 0
        BY <4>1
      <4>2. CASE k # 0
        <5>1. k - 1 \in D /\ k \in 1..Len(found)
          BY <1>0, <4>2
        <5>2. h[k - 1] \in Seq(V) /\ found[k] \in V
          BY <2>1, <5>1, ElementOfSeq
        <5>3. match_append(h[k - 1], found[k]) \in Seq(V)
          BY <5>2, AppendFacts
        <5> QED BY <4>2, <5>3
      <4> QED BY <4>1, <4>2
    <3> QED BY <3>1
  <2>3. ASSUME NEW k \in D, k <= r PROVE f[k] = Val(f, k)
    <3>1. CASE k = 0
      BY <3>1
    <3>2. CASE k # 0
      <4>1. k - 1 \in D /\ k \in Nat /\ r # 0 /\ k - 1 <= r - 1
        BY <1>0, <2>3, <3>2
      <4>3. h[k - 1] = f[k - 1]
        BY <2>1, <4>1
      <4>4. f[k] = match_append(h[k - 1], found[k])
        BY <3>2
      <4> HIDE DEF f
      <4> QED BY <3>2, <4>3, <4>4
    <3> QED BY <3>1, <3>2
  <2> HIDE DEF f, Val
  <2> QED BY <2>2, <2>3
<1> HIDE DEF Att
<1>2. Bad = {}
  <2>1. SUFFICES ASSUME Bad # {} PROVE FALSE
    OBVIOUS
  <2>2. PICK r \in Bad : \A y \in Bad : r <= y
    <3>1. Bad \subseteq Nat
      OBVIOUS
    <3> HIDE DEF Bad
    <3> QED BY <2>1, <3>1, LeastNumber
  <2>3. r \in Nat /\ ~Att(r)
    OBVIOUS
  <2>4. r # 0 => Att(r - 1)
    <3>1. SUFFICES ASSUME r # 0 PROVE Att(r - 1)
      OBVIOUS
    <3>2. r - 1 \in Nat /\ ~(r <= r - 1)
      BY <2>3, <3>1
    <3>3. r - 1 \notin Bad
      <4> HIDE DEF Bad
      <4> QED BY <2>2, <3>2
    <3> QED BY <3>2, <3>3
  <2> QED BY <1>1, <2>3, <2>4
<1>3. Att(Len(found))
  BY <1>0, <1>2
<1>4. PICK out \in [D -> Seq(V)] : \A k \in D : k <= Len(found) => out[k] = Val(out, k)
  BY <1>3 DEF Att
<1>5. \A k \in D : k <= Len(found)
  BY <1>0
<1> QED BY <1>4, <1>5 DEF Adds

\* So AddAll appends them one by one.
LEMMA AddAllAdds ==
    ASSUME NEW V, NEW list \in Seq(V), NEW found \in Seq(V)
    PROVE  \E out \in [0..Len(found) -> Seq(V)] :
               Adds(out, list, found) /\ AddAll(list, found) = out[Len(found)]
<1> DEFINE Eq(f) == f = [k \in 0..Len(found) |-> IF k = 0 THEN list ELSE match_append(f[k - 1], found[k])]
           f == CHOOSE g : Eq(g)
<1>0. Len(found) \in Nat
  BY LenProperties
<1>1. PICK out \in [0..Len(found) -> Seq(V)] : Adds(out, list, found)
  BY AddedExists
<1>2. Eq(out)
  BY <1>1 DEF Adds
<1>3. Eq(f)
  <2> HIDE DEF Eq
  <2> QED BY <1>2
<1>4. AddAll(list, found) = f[Len(found)]
  BY DEF AddAll
<1> HIDE DEF f
<1>5. Adds(f, list, found)
  BY <1>3 DEF Adds
<1> DEFINE S == {k \in 0..Len(found) : f[k] # out[k]}
<1>6. S = {}
  <2>1. SUFFICES ASSUME S # {} PROVE FALSE
    OBVIOUS
  <2>2. S \subseteq Nat
    BY <1>0
  <2>3. PICK k \in S : \A y \in S : k <= y
    <3> HIDE DEF S
    <3> QED BY <2>1, <2>2, LeastNumber
  <2>4. k \in 0..Len(found) /\ k \in Nat
    BY <1>0
  <2>5. k # 0 => f[k - 1] = out[k - 1]
    <3>1. SUFFICES ASSUME k # 0 PROVE f[k - 1] = out[k - 1]
      OBVIOUS
    <3>2. k - 1 \in 0..Len(found) /\ ~(k <= k - 1)
      BY <1>0, <2>4, <3>1
    <3>3. k - 1 \notin S
      <4> HIDE DEF S
      <4> QED BY <2>3, <3>2
    <3> QED BY <3>2, <3>3
  <2>6. f[k] = out[k]
    BY <1>1, <1>5, <2>4, <2>5 DEF Adds
  <2> QED BY <2>3, <2>6
<1>7. f[Len(found)] = out[Len(found)]
  BY <1>0, <1>6
<1> QED BY <1>1, <1>4, <1>7

-----------------------------------------------------------------------------
(* The trie.                                                               *)

Given == dict \in Dictionaries /\ text \in Texts /\ options \in Modes

\* The term that gave a word its type was inserted last
GivesType(i, w) == /\ dict[i][1] = w /\ dict[i][2] = trie[w].type
                   /\ \A j \in (i + 1)..inserted : dict[j][1] # w

\* The states are the beginnings of the words inserted so far, and the matches
\* are these words.
Stored ==
    /\ trie \in [States -> [type : Types \cup {"none"}, ac_fail : States]]
    /\ States \subseteq Seq(Chars) /\ <<>> \in States
    /\ \A v \in States : \A k \in 0..Len(v) : Prefix(v, k) \in States
    /\ \E bound \in Nat : \A v \in States : Len(v) <= bound
    /\ inserted \in 0..Len(dict)
    /\ stage # "insert" => inserted = Len(dict)
    /\ \A i \in 1..inserted : dict[i][1] \in States
    /\ \A v \in States : v # <<>> =>
           \E i \in 1..inserted : Len(v) <= Len(dict[i][1]) /\ v = Prefix(dict[i][1], Len(v))
    /\ \A v \in States : IsMatch(v) => v # <<>> /\ \E i \in 1..inserted : GivesType(i, v)
    /\ \A v \in States : ~IsMatch(v) /\ v # <<>> => \A i \in 1..inserted : dict[i][1] # v

\* ac_fail: a state that ends this one; when the trie is prepared, the longest
\* of those that may be taken
Link(w) == trie[w].ac_fail
Reach(w) == Len(w) - 1 - (IF options = "all" THEN 0 ELSE LastMatch(w))
Best(w) ==
    /\ options = "longest" => Link(w) = <<>> \/ (~IsMatch(w) /\ Len(Link(w)) <= Reach(w))
    /\ ~(options = "longest" /\ IsMatch(w)) =>
           \A v \in States : Ends(v, w) /\ Len(v) <= Reach(w) => Len(v) <= Len(Link(w))
Linked ==
    \A w \in States : /\ Ends(Link(w), w)
                      /\ w # <<>> => Len(Link(w)) < Len(w)
                      /\ stage # "insert" => Best(w)

\* What the assumptions say of the terms, the text and the options.
LEMMA GivenFacts ==
    ASSUME Given
    PROVE  /\ dict \in Seq(Seq(Chars) \X Types) /\ text \in Seq(Chars)
           /\ Len(dict) \in Nat /\ Len(text) \in Nat
           /\ \A i \in 1..Len(dict) : dict[i][1] \in Seq(Chars) /\ dict[i][2] \in Types
           /\ options = "all" \/ options = "longest"
<1>1. /\ dict \in Seq(Seq(Chars) \X Types) /\ text \in Seq(Chars)
      /\ options = "all" \/ options = "longest"
  BY DictionariesAssumption, TextsAssumption, ModesAssumption DEF Given, Types
<1>2. \A i \in 1..Len(dict) : dict[i] \in Seq(Chars) \X Types
  BY <1>1, ElementOfSeq
<1>3. \A i \in 1..Len(dict) : dict[i][1] \in Seq(Chars) /\ dict[i][2] \in Types
  BY <1>2
<1> QED BY <1>1, <1>3, LenProperties

\* The root is the only state of length 0.
LEMMA RootFacts ==
    ASSUME Given, Stored
    PROVE  /\ Len(<<>>) = 0 /\ <<>> \in Seq(Chars) /\ <<>> \in States /\ ~IsMatch(<<>>)
           /\ \A v \in States : v \in Seq(Chars) /\ Len(v) \in Nat /\ (v # <<>> => Len(v) > 0)
           /\ \A v \in States : trie[v].ac_fail \in States /\ trie[v].type \in Types \cup {"none"}
<1>1. Len(<<>>) = 0 /\ <<>> \in Seq(Chars)
  BY EmptySeq
<1>2. \A v \in States : v \in Seq(Chars)
  BY DEF Stored
<1>3. \A v \in States : Len(v) \in Nat /\ (v # <<>> => Len(v) > 0)
  BY <1>2, EmptySeq
<1> QED BY <1>1, <1>2, <1>3 DEF Stored

\* The trie that holds only its root is well formed.
LEMMA InitStored ==
    ASSUME Init
    PROVE  Given /\ Stored /\ Linked
<1>1. Given
  BY DEF Init, Given
<1>2. States = {<<>>}
  BY DEF Init, States
<1>3. Len(<<>>) = 0 /\ <<>> \in Seq(Chars)
  BY EmptySeq
<1>4. trie[<<>>].type = "none" /\ trie[<<>>].ac_fail = <<>>
  BY DEF Init
<1>5. \A k \in 0..Len(<<>>) : Prefix(<<>>, k) = <<>>
  BY <1>3, SubSeqEmpty DEF Prefix
<1>6. inserted = 0 /\ stage = "insert"
  BY DEF Init
<1>7. trie \in [States -> [type : Types \cup {"none"}, ac_fail : States]]
  BY <1>2 DEF Init
<1>8. Stored
  <2>1. inserted \in 0..Len(dict) /\ 1..inserted = {}
    BY <1>1, <1>6, GivenFacts
  <2>2. \A v \in States : v = <<>> /\ ~IsMatch(v) /\ Len(v) <= 0
    BY <1>2, <1>3, <1>4 DEF IsMatch
  <2>3. \A v \in States : \A k \in 0..Len(v) : Prefix(v, k) \in States
    BY <1>2, <1>5
  <2>4. \E bound \in Nat : \A v \in States : Len(v) <= bound
    BY <2>2
  <2> QED BY <1>2, <1>3, <1>6, <1>7, <2>1, <2>2, <2>3, <2>4 DEF Stored
<1>9. Linked
  BY <1>2, <1>3, <1>4, <1>6 DEF Linked, Link, Ends
<1> QED BY <1>1, <1>8, <1>9

\* A beginning of a beginning of a word, and the word itself.
LEMMA PrefixOfPrefix ==
    ASSUME NEW C, NEW w \in Seq(C), NEW k \in 0..Len(w), NEW j \in 0..k
    PROVE  Prefix(Prefix(w, k), j) = Prefix(w, j) /\ Prefix(w, Len(w)) = w
<1>1. Len(w) \in Nat /\ j \in 0..Len(w)
  BY LenProperties
<1>2. Prefix(w, k) \in Seq(C) /\ Len(Prefix(w, k)) = k /\ \A i \in 1..k : Prefix(w, k)[i] = w[i]
  BY PrefixFacts
<1>3. Prefix(w, j) \in Seq(C) /\ Len(Prefix(w, j)) = j /\ \A i \in 1..j : Prefix(w, j)[i] = w[i]
  BY <1>1, PrefixFacts
<1>4. /\ Prefix(Prefix(w, k), j) \in Seq(C) /\ Len(Prefix(Prefix(w, k), j)) = j
      /\ \A i \in 1..j : Prefix(Prefix(w, k), j)[i] = Prefix(w, k)[i]
  <2> DEFINE p == Prefix(w, k)
  <2>1. p \in Seq(C) /\ j \in 0..Len(p)
    BY <1>2
  <2> HIDE DEF p
  <2>2. /\ Prefix(p, j) \in Seq(C) /\ Len(Prefix(p, j)) = j
        /\ \A i \in 1..j : Prefix(p, j)[i] = p[i]
    BY <2>1, PrefixFacts
  <2> QED BY <2>2 DEF p
<1>5. \A i \in 1..j : i \in 1..k
  BY <1>1
<1>6. \A i \in 1..j : Prefix(Prefix(w, k), j)[i] = Prefix(w, j)[i]
  BY <1>2, <1>3, <1>4, <1>5
<1>7. Prefix(Prefix(w, k), j) = Prefix(w, j)
  BY <1>3, <1>4, <1>6, SeqEqual
<1>8. Prefix(w, Len(w)) = w
  BY SubSeqFull DEF Prefix
<1> QED BY <1>7, <1>8

\* What ac_insert does to the trie.
LEMMA InsertFacts ==
    ASSUME Given, Stored, ac_insert, NEW word, word = dict[inserted + 1][1], word # <<>>
    PROVE  /\ word \in Seq(Chars) /\ Len(word) \in Nat
           /\ DOMAIN trie' = States \cup {Prefix(word, k) : k \in 0..Len(word)}
           /\ word \in DOMAIN trie' /\ <<>> \in States
           /\ trie'[word] = [type |-> dict[inserted + 1][2], ac_fail |-> <<>>]
           /\ \A v \in States : v # word => trie'[v] = trie[v]
           /\ \A v \in DOMAIN trie' : v \notin States /\ v # word =>
                  trie'[v] = [type |-> "none", ac_fail |-> <<>>]
<1>1. inserted + 1 \in 1..Len(dict)
  BY GivenFacts DEF ac_insert, Stored
<1>2. word \in Seq(Chars) /\ Len(word) \in Nat
  BY <1>1, GivenFacts, LenProperties
<1>3. trie' = ac_insert_node(word, dict[inserted + 1][2])
  BY DEF ac_insert
<1>4. Prefix(word, Len(word)) = word
  BY <1>2, SubSeqFull DEF Prefix
<1>5. DOMAIN trie' = States \cup {Prefix(word, k) : k \in 0..Len(word)}
  BY <1>3 DEF ac_insert_node
<1>6. word \in DOMAIN trie'
  BY <1>2, <1>4, <1>5
<1>7. \A v \in DOMAIN trie' :
        trie'[v] = IF v = word THEN [type |-> dict[inserted + 1][2], ac_fail |-> <<>>]
                   ELSE IF v \in States THEN trie[v]
                   ELSE [type |-> "none", ac_fail |-> <<>>]
  BY <1>3, <1>5 DEF ac_insert_node
<1>8. <<>> \in States
  BY DEF Stored
<1> QED BY <1>2, <1>5, <1>6, <1>7, <1>8

\* Inserting a term keeps the states closed under prefixes.
LEMMA InsertKeepsStored ==
    ASSUME Given, Stored, Linked, ac_insert
    PROVE  Stored' /\ Linked'
<1> DEFINE word == dict[inserted + 1][1]
           kind == dict[inserted + 1][2]
<1>1. /\ dict' = dict /\ options' = options /\ stage' = stage /\ stage = "insert"
      /\ inserted' = inserted + 1 /\ inserted + 1 \in 1..Len(dict) /\ inserted \in Nat
      /\ Len(dict) \in Nat
  BY GivenFacts DEF ac_insert, Stored
<1>2. word \in Seq(Chars) /\ kind \in Types
  BY <1>1, GivenFacts
<1>3. \A j \in 1..(inserted + 1) : j \in 1..inserted \/ j = inserted + 1
  BY <1>1
<1>4. \A j \in 1..inserted : j \in 1..(inserted + 1)
  BY <1>1
<1>5. CASE word = <<>>
  <2>1. trie' = trie /\ States' = States
    BY <1>5 DEF ac_insert, States
  <2>2. \A v \in States : IsMatch(v)' <=> IsMatch(v)
    BY <2>1 DEF IsMatch
  <2>3. <<>> \in States
    BY DEF Stored
  <2>4. \A i \in 1..(inserted + 1) : dict[i][1] \in States
    BY <1>3, <1>5, <2>3 DEF Stored
  <2>5. ASSUME NEW v \in States, v # <<>>
        PROVE  \E i \in 1..(inserted + 1) : Len(v) <= Len(dict[i][1]) /\ v = Prefix(dict[i][1], Len(v))
    BY <1>4, <2>5 DEF Stored
  <2>6. ASSUME NEW v \in States, IsMatch(v)
        PROVE  v # <<>> /\ \E i \in 1..(inserted + 1) : GivesType(i, v)'
    <3>1. v # <<>>
      BY <2>6 DEF Stored
    <3>2. PICK i \in 1..inserted : GivesType(i, v)
      BY <2>6 DEF Stored
    <3>3. \A j \in (i + 1)..(inserted + 1) : j \in (i + 1)..inserted \/ j = inserted + 1
      BY <1>1
    <3>4. GivesType(i, v)'
      BY <1>1, <1>5, <2>1, <3>1, <3>2, <3>3 DEF GivesType
    <3> QED BY <1>4, <3>1, <3>4
  <2>7. ASSUME NEW v \in States, ~IsMatch(v), v # <<>>, NEW i \in 1..(inserted + 1)
        PROVE  dict[i][1] # v
    BY <1>3, <1>5, <2>7 DEF Stored
  <2>8. Stored'
    BY <1>1, <2>1, <2>2, <2>4, <2>5, <2>6, <2>7 DEF Stored
  <2>9. Linked'
    BY <1>1, <2>1 DEF Linked, Link
  <2> QED BY <2>8, <2>9
<1>6. CASE word # <<>>
  <2>1. /\ word \in Seq(Chars) /\ Len(word) \in Nat
        /\ DOMAIN trie' = States \cup {Prefix(word, k) : k \in 0..Len(word)}
        /\ word \in DOMAIN trie' /\ <<>> \in States
        /\ trie'[word] = [type |-> kind, ac_fail |-> <<>>]
        /\ \A v \in States : v # word => trie'[v] = trie[v]
        /\ \A v \in DOMAIN trie' : v \notin States /\ v # word =>
               trie'[v] = [type |-> "none", ac_fail |-> <<>>]
    BY <1>6, InsertFacts
  <2> HIDE DEF word, kind
  <2> DEFINE D == DOMAIN trie'
  <2>2. States' = D /\ States \subseteq D /\ <<>> \in D
    BY <2>1 DEF States
  <2>3. ASSUME NEW v \in D PROVE trie'[v] \in [type : Types \cup {"none"}, ac_fail : D]
    <3>1. CASE v = word
      BY <1>2, <2>1, <2>2, <3>1
    <3>2. CASE v # word /\ v \in States
      <4>1. trie[v] \in [type : Types \cup {"none"}, ac_fail : States]
        BY <3>2 DEF Stored
      <4> QED BY <2>1, <2>2, <3>2, <4>1
    <3>3. CASE v # word /\ v \notin States
      BY <2>1, <2>2, <3>3
    <3> QED BY <3>1, <3>2, <3>3
  <2>4. trie' \in [D -> [type : Types \cup {"none"}, ac_fail : D]]
    <3>1. trie' = [v \in D |-> trie'[v]]
      <4>1. trie' = ac_insert_node(word, kind)
        BY <1>6 DEF ac_insert, word, kind
      <4>2. trie' = [v \in DOMAIN trie' |-> trie'[v]]
        BY <4>1 DEF ac_insert_node
      <4> QED BY <4>2
    <3> HIDE DEF D
    <3> QED BY <2>3, <3>1
  <2>5. ASSUME NEW v \in D, v \notin States
        PROVE  \E k \in 0..Len(word) : v = Prefix(word, k) /\ Len(v) = k
    <3>1. PICK k \in 0..Len(word) : v = Prefix(word, k)
      BY <2>1, <2>5
    <3>2. Len(v) = k
      BY <2>1, <3>1, PrefixFacts
    <3> QED BY <3>1, <3>2
  <2>6. D \subseteq Seq(Chars)
    <3>1. ASSUME NEW v \in D PROVE v \in Seq(Chars)
      <4>1. CASE v \in States
        BY <4>1 DEF Stored
      <4>2. CASE v \notin States
        BY <2>1, <2>5, <4>2, PrefixFacts
      <4> QED BY <4>1, <4>2
    <3> QED BY <3>1
  <2>7. ASSUME NEW v \in D, NEW k \in 0..Len(v) PROVE Prefix(v, k) \in D
    <3>1. CASE v \in States
      BY <2>2, <3>1 DEF Stored
    <3>2. CASE v \notin States
      <4>1. PICK j \in 0..Len(word) : v = Prefix(word, j) /\ Len(v) = j
        BY <2>5, <3>2
      <4>2. Prefix(v, k) = Prefix(word, k) /\ k \in 0..Len(word)
        BY <2>1, <4>1, PrefixOfPrefix
      <4> QED BY <2>1, <4>2
    <3> QED BY <3>1, <3>2
  <2>8. \E bound \in Nat : \A v \in D : Len(v) <= bound
    <3>1. PICK bound \in Nat : \A v \in States : Len(v) <= bound
      BY DEF Stored
    <3>2. ASSUME NEW v \in D PROVE Len(v) <= bound + Len(word)
      <4>1. CASE v \in States
        <5>1. Len(v) \in Nat /\ Len(v) <= bound
          BY <3>1, <4>1, RootFacts
        <5> QED BY <2>1, <5>1
      <4>2. CASE v \notin States
        BY <2>1, <2>5, <4>2
      <4> QED BY <4>1, <4>2
    <3> QED BY <2>1, <3>2
  <2>9. \A i \in 1..(inserted + 1) : dict[i][1] \in D
    BY <1>3, <2>1, <2>2 DEF Stored, word
  <2>10. ASSUME NEW v \in D, v # <<>>
         PROVE  \E i \in 1..(inserted + 1) : Len(v) <= Len(dict[i][1]) /\ v = Prefix(dict[i][1], Len(v))
    <3>1. CASE v \in States
      BY <1>4, <2>10, <3>1 DEF Stored
    <3>2. CASE v \notin States
      <4>1. Len(v) <= Len(word) /\ v = Prefix(word, Len(v))
        BY <2>1, <2>5, <3>2
      <4>2. inserted + 1 \in 1..(inserted + 1) /\ word = dict[inserted + 1][1]
        BY <1>1 DEF word
      <4> QED BY <4>1, <4>2
    <3> QED BY <3>1, <3>2
  <2>11. ASSUME NEW v \in D, trie'[v].type # "none"
         PROVE  v # <<>> /\ \E i \in 1..(inserted + 1) : GivesType(i, v)'
    <3>1. CASE v = word
      <4>1. PICK i \in 1..(inserted + 1) : i = inserted + 1
        BY <1>1
      <4>2. (i + 1)..(inserted + 1) = {}
        BY <1>1, <4>1
      <4>3. dict[i][1] = v /\ dict[i][2] = trie'[v].type
        BY <2>1, <3>1, <4>1 DEF word, kind
      <4>4. GivesType(i, v)'
        BY <1>1, <4>2, <4>3 DEF GivesType
      <4> QED BY <1>6, <3>1, <4>4
    <3>2. CASE v # word
      <4>1. v \in States /\ trie'[v] = trie[v] /\ IsMatch(v)
        BY <2>1, <2>11, <3>2 DEF IsMatch
      <4>2. v # <<>>
        BY <4>1 DEF Stored
      <4>3. PICK i \in 1..inserted : GivesType(i, v)
        BY <4>1 DEF Stored
      <4>4. \A j \in (i + 1)..(inserted + 1) : j \in (i + 1)..inserted \/ j = inserted + 1
        BY <1>1
      <4>5. GivesType(i, v)'
        BY <1>1, <3>2, <4>1, <4>3, <4>4 DEF GivesType, word
      <4> QED BY <1>4, <4>2, <4>5
    <3> QED BY <3>1, <3>2
  <2>12. ASSUME NEW v \in D, trie'[v].type = "none", v # <<>>, NEW i \in 1..(inserted + 1)
         PROVE  dict[i][1] # v
    <3>1. v # word
      BY <1>2, <2>1, <2>12 DEF Types
    <3>2. CASE v \in States
      <4>1. ~IsMatch(v)
        BY <2>1, <2>12, <3>1, <3>2 DEF IsMatch
      <4> QED BY <1>3, <2>12, <3>1, <3>2, <4>1 DEF Stored, word
    <3>3. CASE v \notin States
      BY <1>3, <3>1, <3>3 DEF Stored, word
    <3> QED BY <3>2, <3>3
  <2>13. Stored'
    <3> HIDE DEF D
    <3>1. \A v \in D : IsMatch(v)' <=> trie'[v].type # "none"
      BY DEF IsMatch
    <3>2. /\ trie' \in [States' -> [type : Types \cup {"none"}, ac_fail : States']]
          /\ States' \subseteq Seq(Chars) /\ <<>> \in States'
          /\ \A v \in States' : \A k \in 0..Len(v) : Prefix(v, k) \in States'
          /\ \E bound \in Nat : \A v \in States' : Len(v) <= bound
          /\ \A i \in 1..inserted' : dict'[i][1] \in States'
      BY <1>1, <2>2, <2>4, <2>6, <2>7, <2>8, <2>9
    <3>3. \A v \in States' : v # <<>> =>
           \E i \in 1..inserted' : Len(v) <= Len(dict'[i][1]) /\ v = Prefix(dict'[i][1], Len(v))
      BY <1>1, <2>2, <2>10
    <3>4. \A v \in States' : IsMatch(v)' => v # <<>> /\ \E i \in 1..inserted' : GivesType(i, v)'
      BY <1>1, <2>2, <2>11, <3>1
    <3>5. \A v \in States' : ~IsMatch(v)' /\ v # <<>> => \A i \in 1..inserted' : dict'[i][1] # v
      BY <1>1, <2>2, <2>12, <3>1
    <3>6. inserted' \in 0..Len(dict') /\ (stage' # "insert" => inserted' = Len(dict'))
      BY <1>1
    <3> QED BY <3>2, <3>3, <3>4, <3>5, <3>6 DEF Stored
  <2>14. ASSUME NEW v \in D
         PROVE  Ends(trie'[v].ac_fail, v) /\ (v # <<>> => Len(trie'[v].ac_fail) < Len(v))
    <3>1. v \in Seq(Chars) /\ Ends(<<>>, v) /\ Len(<<>>) = 0 /\ Len(v) \in Nat /\ (v # <<>> => Len(v) > 0)
      BY <2>6, EndsOfEnds, EmptySeq, LenProperties
    <3>2. CASE v \in States /\ v # word
      BY <2>1, <3>2 DEF Linked, Link
    <3>3. CASE v \notin States \/ v = word
      <4>1. trie'[v].ac_fail = <<>>
        BY <2>1, <3>3
      <4> QED BY <3>1, <4>1
    <3> QED BY <3>2, <3>3
  <2>15. Linked'
    BY <1>1, <2>2, <2>14 DEF Linked, Link
  <2> QED BY <2>13, <2>15
<1> QED BY <1>5, <1>6

\* The last match before the end of a state.
LEMMA LastMatchFacts ==
    ASSUME Given, Stored, NEW w \in States
    PROVE  /\ LastMatch(w) \in Nat /\ (w # <<>> => LastMatch(w) < Len(w))
           /\ LastMatch(w) # 0 => /\ LastMatch(w) \in 1..(Len(w) - 1)
                                  /\ IsMatch(Prefix(w, LastMatch(w)))
           /\ \A k \in 1..(Len(w) - 1) : IsMatch(Prefix(w, k)) => k <= LastMatch(w)
<1> DEFINE S == {0} \cup {k \in 1..(Len(w) - 1) : IsMatch(Prefix(w, k))}
<1>1. Len(w) \in Nat /\ (w # <<>> => Len(w) > 0)
  BY RootFacts
<1>2. S \subseteq 0..Len(w) /\ S # {}
  BY <1>1
<1>3. LastMatch(w) = Max(S)
  BY DEF LastMatch
<1>4. 0 \in S /\ \A k \in S : k = 0 \/ (k \in 1..(Len(w) - 1) /\ IsMatch(Prefix(w, k)))
  OBVIOUS
<1>5. \A k \in 1..(Len(w) - 1) : IsMatch(Prefix(w, k)) => k \in S
  OBVIOUS
<1> HIDE DEF S
<1>6. Max(S) \in S /\ \A k \in S : k <= Max(S)
  BY <1>1, <1>2, MaxOfNumbers
<1> QED BY <1>1, <1>3, <1>4, <1>5, <1>6

\* Where trie_node_prepare lets a state fail to.
LEMMA FailFacts ==
    ASSUME Given, Stored, NEW w \in States
    PROVE  /\ Fail(w) \in States /\ Ends(Fail(w), w)
           /\ w # <<>> => Len(Fail(w)) < Len(w)
           /\ options = "longest" => Fail(w) = <<>> \/ (~IsMatch(w) /\ Len(Fail(w)) <= Reach(w))
           /\ ~(options = "longest" /\ IsMatch(w)) =>
                  \A v \in States : Ends(v, w) /\ Len(v) <= Reach(w) => Len(v) <= Len(Fail(w))
<1> DEFINE kept == {j \in FirstSuffix(w)..Len(w) : Suffix(w, j) \in States}
           skip == IF options = "all" THEN 0 ELSE LastMatch(w)
<1>1. /\ w \in Seq(Chars) /\ Len(w) \in Nat /\ (w # <<>> => Len(w) > 0)
      /\ <<>> \in States /\ Len(<<>>) = 0 /\ Ends(<<>>, w)
  BY RootFacts, EndsOfEnds
<1>2. skip \in Nat /\ FirstSuffix(w) = 2 + skip /\ Reach(w) = Len(w) - 1 - skip
  BY LastMatchFacts DEF FirstSuffix, Reach
<1>3. Fail(w) = IF kept = {} \/ (options # "all" /\ IsMatch(w)) THEN <<>> ELSE Suffix(w, Min(kept))
  BY DEF Fail
<1>4. options = "all" \/ options = "longest"
  BY GivenFacts
<1> HIDE DEF skip
<1>5. \A j \in kept : j \in 2..Len(w) /\ j \in Nat /\ j >= 2 + skip /\ Suffix(w, j) \in States
  BY <1>1, <1>2
<1>6. ASSUME NEW v \in States, Ends(v, w), Len(v) <= Reach(w), v # <<>>
      PROVE  Len(w) - Len(v) + 1 \in kept
  <2> DEFINE j == Len(w) - Len(v) + 1
  <2>1. v \in Seq(Chars) /\ Len(v) \in Nat /\ Len(v) > 0
    BY <1>6, RootFacts
  <2>2. j \in FirstSuffix(w)..Len(w)
    BY <1>1, <1>2, <1>6, <2>1
  <2>3. v = Suffix(w, j)
    BY <1>1, <1>6, <2>1, EndsIsSuffix
  <2> QED BY <2>2, <2>3
<1> HIDE DEF kept
<1>7. CASE kept = {} \/ (options # "all" /\ IsMatch(w))
  <2>1. Fail(w) = <<>>
    BY <1>3, <1>7
  <2>2. ASSUME ~(options = "longest" /\ IsMatch(w)), NEW v \in States, Ends(v, w), Len(v) <= Reach(w)
        PROVE  Len(v) <= 0
    <3>1. kept = {}
      BY <1>4, <1>7, <2>2
    <3>2. v = <<>>
      BY <1>6, <2>2, <3>1
    <3> QED BY <1>1, <3>2
  <2> QED BY <1>1, <2>1, <2>2
<1>8. CASE ~(kept = {} \/ (options # "all" /\ IsMatch(w)))
  <2> DEFINE m == Min(kept)
  <2>1. m \in kept /\ \A j \in kept : m <= j
    <3>1. kept \subseteq Nat
      BY <1>5
    <3> QED BY <1>8, <3>1, MinOfNumbers
  <2>2. Fail(w) = Suffix(w, m)
    BY <1>3, <1>8
  <2> HIDE DEF m
  <2>3. m \in 2..Len(w) /\ m >= 2 + skip /\ Suffix(w, m) \in States /\ m \in 1..(Len(w) + 1)
    BY <1>1, <1>5, <2>1
  <2>4. Len(Suffix(w, m)) = Len(w) - m + 1 /\ Ends(Suffix(w, m), w)
    BY <1>1, <2>3, SuffixFacts
  <2>5. Len(Fail(w)) < Len(w) /\ Len(Fail(w)) <= Reach(w) /\ Len(Fail(w)) >= 0
    BY <1>1, <1>2, <2>2, <2>3, <2>4
  <2>6. ASSUME NEW v \in States, Ends(v, w), Len(v) <= Reach(w)
        PROVE  Len(v) <= Len(Fail(w))
    <3>1. CASE v = <<>>
      BY <1>1, <2>5, <3>1
    <3>2. CASE v # <<>>
      <4>1. Len(w) - Len(v) + 1 \in kept /\ Len(v) \in Nat
        BY <1>6, <2>6, <3>2, RootFacts
      <4>2. m <= Len(w) - Len(v) + 1
        BY <2>1, <4>1
      <4> QED BY <1>1, <2>2, <2>3, <2>4, <4>1, <4>2
    <3> QED BY <3>1, <3>2
  <2>7. options = "longest" => ~IsMatch(w)
    BY <1>8
  <2> QED BY <2>2, <2>3, <2>4, <2>5, <2>6, <2>7
<1> QED BY <1>7, <1>8

\* Once it is prepared, every failure link is the suffix trie_node_prepare
\* takes.
LEMMA PrepareKeepsStored ==
    ASSUME Given, Stored, Linked, ac_prepare
    PROVE  Stored' /\ Linked'
<1>1. /\ dict' = dict /\ options' = options /\ stage' = "visit"
      /\ inserted' = inserted /\ inserted = Len(dict) /\ inserted \in Nat
  BY GivenFacts DEF ac_prepare, Stored
<1>2. trie' = [w \in States |-> [trie[w] EXCEPT !.ac_fail = Fail(w)]]
  BY DEF ac_prepare, trie_node_prepare
<1>3. \A w \in States : /\ trie[w] \in [type : Types \cup {"none"}, ac_fail : States]
                        /\ Fail(w) \in States
  BY FailFacts DEF Stored
<1>4. \A w \in States : /\ trie'[w] \in [type : Types \cup {"none"}, ac_fail : States]
                        /\ trie'[w].type = trie[w].type /\ trie'[w].ac_fail = Fail(w)
  BY <1>2, <1>3
<1>5. States' = States
  BY <1>2 DEF States
<1>6. trie' \in [States -> [type : Types \cup {"none"}, ac_fail : States]]
  BY <1>2, <1>4
<1>7. \A w \in States : IsMatch(w)' <=> IsMatch(w)
  BY <1>4 DEF IsMatch
<1>8. ASSUME NEW v \in States, NEW i \in 1..inserted
      PROVE  GivesType(i, v)' <=> GivesType(i, v)
  BY <1>1, <1>4 DEF GivesType
<1>9. Stored'
  <2>1. \A v \in States : IsMatch(v) => v # <<>> /\ \E i \in 1..inserted : GivesType(i, v)'
    BY <1>8 DEF Stored
  <2> QED BY <1>1, <1>5, <1>6, <1>7, <2>1 DEF Stored
<1>10. \A w \in States : LastMatch(w)' = LastMatch(w)
  <2> TAKE w \in States
  <2>1. \A k \in 1..(Len(w) - 1) : Prefix(w, k) \in States
    <3>1. \A k \in 1..(Len(w) - 1) : k \in 0..Len(w)
      BY RootFacts
    <3> QED BY <3>1 DEF Stored
  <2>2. {k \in 1..(Len(w) - 1) : IsMatch(Prefix(w, k))'} = {k \in 1..(Len(w) - 1) : IsMatch(Prefix(w, k))}
    BY <1>7, <2>1
  <2> QED BY <2>2 DEF LastMatch
<1>11. \A w \in States : Reach(w)' = Reach(w)
  BY <1>1, <1>10 DEF Reach
<1>12. \A w \in States : Link(w)' = Fail(w)
  BY <1>4 DEF Link
<1>13. ASSUME NEW w \in States PROVE Best(w)'
  <2>1. /\ options = "longest" => Fail(w) = <<>> \/ (~IsMatch(w) /\ Len(Fail(w)) <= Reach(w))
        /\ ~(options = "longest" /\ IsMatch(w)) =>
               \A v \in States : Ends(v, w) /\ Len(v) <= Reach(w) => Len(v) <= Len(Fail(w))
    BY FailFacts
  <2>2. Reach(w)' = Reach(w) /\ Link(w)' = Fail(w) /\ (IsMatch(w)' <=> IsMatch(w))
    BY <1>7, <1>11, <1>12
  <2> HIDE DEF Fail, Reach, Link
  <2> QED BY <1>1, <1>5, <2>1, <2>2 DEF Best
<1>14. Linked'
  BY <1>5, <1>12, <1>13, FailFacts DEF Linked
<1> QED BY <1>9, <1>14

-----------------------------------------------------------------------------
(* One step of the search: falling along the links, and the matches there. *)

\* Where falling stops
Takes(w, c) == w = <<>> \/ Append(w, c) \in States

\* Fallen satisfies its own recursive equation: links get shorter.
LEMMA FallenEquation ==
    ASSUME Given, Stored, Linked, NEW c
    PROVE  \A w \in States : Fallen(c)[w] = IF Takes(w, c) THEN w ELSE Fallen(c)[Link(w)]
<1> DEFINE Eq(f) == f = [w \in States |-> IF w = <<>> \/ Append(w, c) \in States THEN w
                                          ELSE f[trie[w].ac_fail]]
           f == CHOOSE g : Eq(g)
           stop == {w \in States : Takes(w, c)}
           base == [w \in States |-> w]
           own == [w \in States |-> <<>>]
           up == [w \in States |-> Link(w)]
           rank == [w \in States |-> Len(w)]
<1>1. PICK bound \in Nat : \A w \in States : Len(w) <= bound
  BY DEF Stored
<1>2. \A x \in States : /\ rank[x] \in 0..bound
                        /\ x \in stop => base[x] \in Seq(Chars)
                        /\ x \notin stop => /\ own[x] \in Seq(Chars) /\ up[x] \in States
                                            /\ rank[up[x]] < rank[x]
  <2> TAKE x \in States
  <2>1. x \in Seq(Chars) /\ Len(x) \in Nat /\ Len(x) <= bound /\ Link(x) \in States /\ <<>> \in Seq(Chars)
    BY <1>1, RootFacts DEF Link
  <2>2. x \notin stop => x # <<>>
    BY DEF Takes
  <2>3. x # <<>> => Len(Link(x)) < Len(x)
    BY DEF Linked
  <2> QED BY <2>1, <2>2, <2>3
<1>3. \A x \in States : x \in stop <=> Takes(x, c)
  OBVIOUS
<1>4. \A x \in States : base[x] = x /\ own[x] = <<>> /\ up[x] = Link(x)
  OBVIOUS
<1> HIDE DEF stop, base, own, up, rank
<1>5. PICK out \in [States -> Seq(Chars)] : Follows(out, States, stop, base, own, up)
  BY <1>1, <1>2, FollowedExists
<1>6. \A w \in States : out[w] = IF Takes(w, c) THEN w ELSE out[Link(w)]
  <2> TAKE w \in States
  <2>1. out[w] = IF w \in stop THEN base[w] ELSE own[w] \o out[up[w]]
    BY <1>5 DEF Follows
  <2>2. out[Link(w)] \in Seq(Chars)
    BY RootFacts DEF Link
  <2>3. <<>> \o out[Link(w)] = out[Link(w)]
    BY <2>2, ConcatEmptySeq
  <2> QED BY <1>3, <1>4, <2>1, <2>3
<1>7. Eq(out)
  BY <1>6 DEF Takes, Link
<1>8. Eq(f)
  <2> HIDE DEF Eq
  <2> QED BY <1>7
<1>9. Fallen(c) = f
  BY DEF Fallen
<1> HIDE DEF f
<1>10. \A w \in States : f[w] = IF Takes(w, c) THEN w ELSE f[Link(w)]
  BY <1>8 DEF Takes, Link
<1> QED BY <1>9, <1>10

\* A set of states whose links lead to the longest state that ends them
Closed(G) ==
    /\ G \subseteq States
    /\ \A w \in G : w # <<>> => /\ Link(w) \in G
                                /\ \A v \in States : Ends(v, w) /\ Len(v) < Len(w) => Len(v) <= Len(Link(w))

\* Falling ends at a state that ends the one it came from and can read the
\* character, and at the longest of them where no link is cut short.
LEMMA FallenFacts ==
    ASSUME Given, Stored, Linked, NEW c, NEW w \in States
    PROVE  /\ Fallen(c)[w] \in States /\ Ends(Fallen(c)[w], w) /\ Takes(Fallen(c)[w], c)
           /\ \A G : Closed(G) /\ w \in G =>
                  \A v \in States : Ends(v, w) /\ Append(v, c) \in States => Len(v) <= Len(Fallen(c)[w])
<1> DEFINE r(x) == Fallen(c)[x]
           P(x) == /\ r(x) \in States /\ Ends(r(x), x) /\ Takes(r(x), c)
                   /\ \A G : Closed(G) /\ x \in G =>
                        \A v \in States : Ends(v, x) /\ Append(v, c) \in States => Len(v) <= Len(r(x))
           Bad == {k \in Nat : \E x \in States : Len(x) = k /\ ~P(x)}
<1>1. \A x \in States : r(x) = IF Takes(x, c) THEN x ELSE r(Link(x))
  BY FallenEquation
<1> HIDE DEF r
<1>2. ASSUME NEW x \in States, Takes(x, c) \/ P(Link(x)) PROVE P(x)
  <2>0. x \in Seq(Chars) /\ Len(x) \in Nat /\ Link(x) \in States /\ Ends(x, x)
    BY RootFacts, EndsOfEnds DEF Link
  <2>1. CASE Takes(x, c)
    <3>1. r(x) = x
      BY <1>1, <2>1
    <3>2. \A v \in States : Ends(v, x) => Len(v) <= Len(x)
      BY DEF Ends
    <3> QED BY <2>0, <2>1, <3>1, <3>2
  <2>2. CASE ~Takes(x, c)
    <3> DEFINE y == Link(x)
    <3>1. r(x) = r(y) /\ P(y) /\ y \in States /\ x # <<>>
      BY <1>1, <1>2, <2>0, <2>2 DEF Takes
    <3>2. Ends(y, x) /\ y \in Seq(Chars) /\ r(y) \in Seq(Chars)
      BY <3>1, RootFacts DEF Linked
    <3>3. Ends(r(y), x)
      BY <2>0, <3>1, <3>2, EndsOfEnds
    <3>4. ASSUME NEW G, Closed(G), x \in G, NEW v \in States, Ends(v, x), Append(v, c) \in States
          PROVE  Len(v) <= Len(r(y))
      <4>1. v \in Seq(Chars) /\ Len(v) \in Nat
        BY RootFacts
      <4>2. v # x
        BY <2>2, <3>4 DEF Takes
      <4>3. Len(v) # Len(x)
        BY <2>0, <3>4, <4>1, <4>2, EndsOfEnds
      <4>4. Len(v) < Len(x)
        BY <2>0, <3>4, <4>1, <4>3 DEF Ends
      <4>5. Len(v) <= Len(y) /\ y \in G
        BY <3>1, <3>4, <4>4 DEF Closed
      <4>6. Ends(v, y)
        BY <2>0, <3>2, <3>4, <4>1, <4>5, EndsOfEnds
      <4> HIDE DEF y
      <4> QED BY <3>1, <3>4, <4>5, <4>6
    <3> HIDE DEF y
    <3> QED BY <3>1, <3>3, <3>4
  <2> QED BY <2>1, <2>2
<1>3. Bad = {}
  <2>1. SUFFICES ASSUME Bad # {} PROVE FALSE
    OBVIOUS
  <2>2. PICK k \in Bad : \A y \in Bad : k <= y
    <3>1. Bad \subseteq Nat
      OBVIOUS
    <3> HIDE DEF Bad
    <3> QED BY <2>1, <3>1, LeastNumber
  <2> HIDE DEF P
  <2>3. PICK x \in States : Len(x) = k /\ ~P(x)
    OBVIOUS
  <2>4. ~Takes(x, c) /\ ~P(Link(x))
    BY <1>2, <2>3
  <2>5. Link(x) \in States /\ x # <<>> /\ Len(Link(x)) \in Nat
    BY <2>4, RootFacts DEF Link, Takes
  <2>6. Len(Link(x)) < Len(x)
    BY <2>5 DEF Linked
  <2>7. Len(Link(x)) \in Bad
    BY <2>4, <2>5
  <2>8. k \in Nat
    OBVIOUS
  <2> HIDE DEF Bad
  <2>9. k <= Len(Link(x))
    BY <2>2, <2>7
  <2> QED BY <2>3, <2>5, <2>6, <2>8, <2>9
<1>4. P(w)
  <2>1. Len(w) \in Nat
    BY RootFacts
  <2> HIDE DEF P
  <2> QED BY <1>3, <2>1
<1> QED BY <1>4 DEF r

\* The match that a state stands for at an offset, and those along its links
MatchAt(v, end) == [start |-> end - Len(v), len |-> Len(v), type |-> trie[v].type]
AnyMatch == [start : Int, len : Nat, type : Types]

\* EndingAt satisfies its own recursive equation: links get shorter.
LEMMA EndingEquation ==
    ASSUME Given, Stored, Linked, NEW end \in Nat
    PROVE  \A w \in States :
               /\ EndingAt(end)[w] \in Seq(AnyMatch)
               /\ EndingAt(end)[w] =
                      IF w = <<>> THEN <<>>
                      ELSE (IF IsMatch(w) THEN <<MatchAt(w, end)>> ELSE <<>>) \o EndingAt(end)[Link(w)]
<1> DEFINE own == [w \in States |-> IF IsMatch(w) THEN <<MatchAt(w, end)>> ELSE <<>>]
           Eq(f) == f = [w \in States |->
                IF w = <<>> THEN <<>>
                ELSE (IF IsMatch(w)
                      THEN <<[start |-> end - Len(w), len |-> Len(w), type |-> trie[w].type]>>
                      ELSE <<>>) \o f[trie[w].ac_fail]]
           f == CHOOSE g : Eq(g)
           stop == {<<>>}
           base == [w \in States |-> <<>>]
           up == [w \in States |-> Link(w)]
           rank == [w \in States |-> Len(w)]
<1>1. PICK bound \in Nat : \A w \in States : Len(w) <= bound
  BY DEF Stored
<1>2. \A w \in States : own[w] \in Seq(AnyMatch)
  <2> TAKE w \in States
  <2>1. CASE IsMatch(w)
    <3>1. MatchAt(w, end) \in AnyMatch
      BY <2>1, RootFacts DEF MatchAt, AnyMatch, IsMatch
    <3> QED BY <2>1, <3>1
  <2>2. CASE ~IsMatch(w)
    BY <2>2, EmptySeq
  <2> QED BY <2>1, <2>2
<1>3. \A x \in States : own[x] = IF IsMatch(x) THEN <<MatchAt(x, end)>> ELSE <<>>
  OBVIOUS
<1> HIDE DEF own
<1>4. \A x \in States : /\ rank[x] \in 0..bound
                        /\ x \in stop => base[x] \in Seq(AnyMatch)
                        /\ x \notin stop => /\ own[x] \in Seq(AnyMatch) /\ up[x] \in States
                                            /\ rank[up[x]] < rank[x]
  <2> TAKE x \in States
  <2>1. Len(x) \in Nat /\ Len(x) <= bound /\ Link(x) \in States /\ <<>> \in Seq(AnyMatch)
    BY <1>1, RootFacts, EmptySeq DEF Link
  <2>3. x # <<>> => Len(Link(x)) < Len(x)
    BY DEF Linked
  <2> QED BY <1>2, <2>1, <2>3
<1>5. \A x \in States : base[x] = <<>> /\ up[x] = Link(x) /\ (x \in stop <=> x = <<>>)
  OBVIOUS
<1> HIDE DEF stop, base, up, rank
<1>6. PICK out \in [States -> Seq(AnyMatch)] : Follows(out, States, stop, base, own, up)
  BY <1>1, <1>4, FollowedExists
<1>7. \A w \in States : out[w] = IF w = <<>> THEN <<>>
                                 ELSE (IF IsMatch(w) THEN <<MatchAt(w, end)>> ELSE <<>>) \o out[Link(w)]
  BY <1>3, <1>5, <1>6 DEF Follows
<1>8. Eq(out)
  BY <1>7 DEF Link, MatchAt
<1>9. Eq(f)
  <2> HIDE DEF Eq
  <2> QED BY <1>8
<1>10. EndingAt(end) = f
  BY DEF EndingAt
<1> HIDE DEF f
<1>11. \A w \in States : f[w] = IF w = <<>> THEN <<>>
                                ELSE (IF IsMatch(w) THEN <<MatchAt(w, end)>> ELSE <<>>) \o f[Link(w)]
  BY <1>9 DEF Link, MatchAt
<1> DEFINE Bad == {k \in Nat : \E x \in States : Len(x) = k /\ f[x] \notin Seq(AnyMatch)}
<1>12. Bad = {}
  <2>1. SUFFICES ASSUME Bad # {} PROVE FALSE
    OBVIOUS
  <2>2. PICK k \in Bad : \A y \in Bad : k <= y
    <3>1. Bad \subseteq Nat
      OBVIOUS
    <3> HIDE DEF Bad
    <3> QED BY <2>1, <3>1, LeastNumber
  <2>3. PICK x \in States : Len(x) = k /\ f[x] \notin Seq(AnyMatch)
    OBVIOUS
  <2>4. x # <<>>
    BY <1>11, <2>3, EmptySeq
  <2>5. Link(x) \in States /\ Len(Link(x)) \in Nat /\ Len(Link(x)) < Len(x)
    BY <2>4, RootFacts DEF Link, Linked
  <2>6. f[Link(x)] \notin Seq(AnyMatch)
    <3>1. SUFFICES ASSUME f[Link(x)] \in Seq(AnyMatch) PROVE FALSE
      OBVIOUS
    <3>2. f[x] = own[x] \o f[Link(x)]
      BY <1>3, <1>11, <2>4
    <3>3. f[x] \in Seq(AnyMatch)
      BY <1>2, <3>1, <3>2, ConcatProperties
    <3> QED BY <2>3, <3>3
  <2>7. Len(Link(x)) \in Bad
    BY <2>5, <2>6
  <2>8. k \in Nat
    OBVIOUS
  <2> HIDE DEF Bad
  <2>9. k <= Len(Link(x))
    BY <2>2, <2>7
  <2> QED BY <2>3, <2>5, <2>8, <2>9
<1>13. \A x \in States : f[x] \in Seq(AnyMatch)
  BY <1>12, RootFacts
<1> QED BY <1>10, <1>11, <1>13

\* What is collected at a state: matches that end it, longer ones first, and
\* all of them where no link is cut short.
Collected(M, w, end) ==
    /\ \A i \in 1..Len(M) : \E v \in States : Ends(v, w) /\ IsMatch(v) /\ M[i] = MatchAt(v, end)
    /\ \A i, j \in 1..Len(M) : i < j => M[j].len < M[i].len
    /\ \A G : Closed(G) /\ w \in G =>
           \A v \in States : IsMatch(v) /\ Ends(v, w) => \E i \in 1..Len(M) : M[i] = MatchAt(v, end)

\* One more state of the chain of links adds its own match, if it has one.
LEMMA CollectOneMore ==
    ASSUME Given, Stored, Linked, NEW end \in Nat, NEW w \in States, w # <<>>,
           NEW M \in Seq(AnyMatch), Collected(M, Link(w), end)
    PROVE  Collected((IF IsMatch(w) THEN <<MatchAt(w, end)>> ELSE <<>>) \o M, w, end)
<1> DEFINE y == Link(w)
           one == MatchAt(w, end)
<1>1. /\ w \in Seq(Chars) /\ Len(w) \in Nat /\ Ends(w, w) /\ y \in States /\ y \in Seq(Chars)
      /\ Len(y) \in Nat /\ Ends(y, w) /\ Len(y) < Len(w) /\ Len(M) \in Nat
  BY RootFacts, EndsOfEnds, LenProperties DEF Link, Linked
<1>2. \A v \in States : Ends(v, y) => Ends(v, w) /\ Len(v) <= Len(y) /\ Len(v) \in Nat
  <2> TAKE v \in States
  <2>1. v \in Seq(Chars) /\ Len(v) \in Nat
    BY RootFacts
  <2> QED BY <1>1, <2>1, EndsOfEnds DEF Ends
<1>3. \A v \in States : Ends(v, w) /\ v # w => Len(v) < Len(w)
  <2> TAKE v \in States
  <2>1. v \in Seq(Chars) /\ Len(v) \in Nat
    BY RootFacts
  <2>2. Ends(v, w) /\ Len(v) = Len(w) => v = w
    BY <1>1, <2>1, EndsOfEnds
  <2> QED BY <1>1, <2>1, <2>2 DEF Ends
<1>4. \A G : Closed(G) /\ w \in G => y \in G /\ \A v \in States : Ends(v, w) /\ v # w => Ends(v, y)
  <2> TAKE G
  <2>1. SUFFICES ASSUME Closed(G), w \in G PROVE y \in G /\ \A v \in States : Ends(v, w) /\ v # w => Ends(v, y)
    OBVIOUS
  <2>2. y \in G /\ \A v \in States : Ends(v, w) /\ Len(v) < Len(w) => Len(v) <= Len(y)
    BY <2>1 DEF Closed
  <2>3. ASSUME NEW v \in States, Ends(v, w), v # w PROVE Ends(v, y)
    <3>1. Len(v) <= Len(y) /\ v \in Seq(Chars)
      BY <1>3, <2>2, <2>3, RootFacts
    <3> QED BY <1>1, <2>3, <3>1, EndsOfEnds
  <2> QED BY <2>2, <2>3
<1>5. \A i \in 1..Len(M) : \E v \in States : Ends(v, y) /\ IsMatch(v) /\ M[i] = MatchAt(v, end)
  BY DEF Collected
<1>6. \A i, j \in 1..Len(M) : i < j => M[j].len < M[i].len
  BY DEF Collected
<1>7. \A G : Closed(G) /\ y \in G =>
           \A v \in States : IsMatch(v) /\ Ends(v, y) => \E i \in 1..Len(M) : M[i] = MatchAt(v, end)
  BY DEF Collected
<1>8. CASE ~IsMatch(w)
  <2>1. <<>> \o M = M
    BY ConcatEmptySeq
  <2> HIDE DEF y
  <2>2. \A i \in 1..Len(M) : \E v \in States : Ends(v, w) /\ IsMatch(v) /\ M[i] = MatchAt(v, end)
    BY <1>2, <1>5
  <2>3. ASSUME NEW G, Closed(G), w \in G, NEW v \in States, IsMatch(v), Ends(v, w)
        PROVE  \E i \in 1..Len(M) : M[i] = MatchAt(v, end)
    BY <1>4, <1>7, <1>8, <2>3
  <2>4. Collected(M, w, end)
    BY <1>6, <2>2, <2>3 DEF Collected
  <2> QED BY <1>8, <2>1, <2>4
<1>9. CASE IsMatch(w)
  <2> DEFINE N == <<one>> \o M
  <2>1. one \in AnyMatch /\ <<one>> \in Seq(AnyMatch) /\ Len(<<one>>) = 1 /\ <<one>>[1] = one
        /\ one.len = Len(w)
    BY <1>1, <1>9, RootFacts DEF MatchAt, AnyMatch, IsMatch
  <2>2. /\ N \in Seq(AnyMatch) /\ Len(N) = 1 + Len(M)
        /\ \A i \in 1..(1 + Len(M)) : N[i] = IF i <= 1 THEN <<one>>[i] ELSE M[i - 1]
    BY <2>1, ConcatProperties
  <2> HIDE DEF N, y
  <2>3. N[1] = one /\ \A i \in 2..Len(N) : i - 1 \in 1..Len(M) /\ N[i] = M[i - 1]
    BY <1>1, <2>1, <2>2
  <2>4. \A i \in 1..Len(N) : i = 1 \/ i \in 2..Len(N)
    BY <1>1, <2>2
  <2>5. ASSUME NEW i \in 1..Len(N)
        PROVE  \E v \in States : Ends(v, w) /\ IsMatch(v) /\ N[i] = MatchAt(v, end)
    <3>1. CASE i = 1
      BY <1>1, <1>9, <2>3, <3>1
    <3>2. CASE i \in 2..Len(N)
      BY <1>2, <1>5, <2>3, <3>2
    <3> QED BY <2>4, <3>1, <3>2
  <2>6. \A i \in 1..Len(M) : M[i].len < Len(w)
    <3> TAKE i \in 1..Len(M)
    <3>1. PICK v \in States : Ends(v, y) /\ M[i] = MatchAt(v, end)
      BY <1>5
    <3>2. M[i].len = Len(v)
      BY <3>1 DEF MatchAt
    <3> QED BY <1>1, <1>2, <3>1, <3>2
  <2>7. ASSUME NEW i \in 1..Len(N), NEW j \in 1..Len(N), i < j PROVE N[j].len < N[i].len
    <3>1. j \in 2..Len(N) /\ N[j] = M[j - 1] /\ j - 1 \in 1..Len(M)
      BY <1>1, <2>2, <2>3, <2>4, <2>7
    <3>2. CASE i = 1
      BY <2>1, <2>3, <2>6, <3>1, <3>2
    <3>3. CASE i \in 2..Len(N)
      <4>1. N[i] = M[i - 1] /\ i - 1 \in 1..Len(M) /\ i - 1 < j - 1
        BY <2>3, <2>7, <3>3
      <4> QED BY <1>6, <3>1, <4>1
    <3> QED BY <2>4, <3>2, <3>3
  <2>8. ASSUME NEW G, Closed(G), w \in G, NEW v \in States, IsMatch(v), Ends(v, w)
        PROVE  \E i \in 1..Len(N) : N[i] = MatchAt(v, end)
    <3>1. CASE v = w
      <4>1. 1 \in 1..Len(N)
        BY <1>1, <2>2
      <4> QED BY <2>3, <3>1, <4>1
    <3>2. CASE v # w
      <4>1. PICK i \in 1..Len(M) : M[i] = MatchAt(v, end)
        BY <1>4, <1>7, <2>8, <3>2
      <4>2. i + 1 \in 2..Len(N) /\ i + 1 \in 1..Len(N) /\ (i + 1) - 1 = i
        BY <1>1, <2>2
      <4>3. N[i + 1] = M[i]
        BY <2>3, <4>2
      <4> QED BY <4>1, <4>2, <4>3
    <3> QED BY <3>1, <3>2
  <2>9. Collected(N, w, end)
    BY <2>5, <2>7, <2>8 DEF Collected
  <2> QED BY <1>9, <2>9 DEF N
<1> QED BY <1>8, <1>9

\* EndingAt lists the matches on the chain of links, each once, the longest
\* first.
LEMMA EndingFacts ==
    ASSUME Given, Stored, Linked, NEW end \in Nat, NEW w \in States
    PROVE  EndingAt(end)[w] \in Seq(AnyMatch) /\ Collected(EndingAt(end)[w], w, end)
<1> DEFINE r(x) == EndingAt(end)[x]
           P(x) == Collected(r(x), x, end)
           Bad == {k \in Nat : \E x \in States : Len(x) = k /\ ~P(x)}
<1>1. \A x \in States :
         /\ r(x) \in Seq(AnyMatch)
         /\ r(x) = IF x = <<>> THEN <<>>
                   ELSE (IF IsMatch(x) THEN <<MatchAt(x, end)>> ELSE <<>>) \o r(Link(x))
  BY EndingEquation
<1> HIDE DEF r
<1>2. ASSUME NEW x \in States, x = <<>> \/ P(Link(x)) PROVE P(x)
  <2>1. CASE x = <<>>
    <3>0. r(x) = <<>>
      BY <1>1, <2>1
    <3>1. r(x) = <<>> /\ Len(<<>>) = 0 /\ 1..0 = {}
      BY <3>0, EmptySeq
    <3>2. ASSUME NEW v \in States, Ends(v, x) PROVE ~IsMatch(v)
      <4>1. Len(v) = 0 /\ v \in Seq(Chars) /\ Len(v) \in Nat
        BY <2>1, <3>1, <3>2, RootFacts DEF Ends
      <4>2. v = <<>>
        BY <4>1, RootFacts
      <4> QED BY <4>2, RootFacts
    <3> QED BY <3>1, <3>2 DEF Collected
  <2>2. CASE x # <<>>
    <3>1. Link(x) \in States
      BY RootFacts DEF Link
    <3>2. r(Link(x)) \in Seq(AnyMatch) /\ P(Link(x))
      BY <1>1, <1>2, <2>2, <3>1
    <3>3. Collected((IF IsMatch(x) THEN <<MatchAt(x, end)>> ELSE <<>>) \o r(Link(x)), x, end)
      BY <2>2, <3>2, CollectOneMore
    <3>4. r(x) = (IF IsMatch(x) THEN <<MatchAt(x, end)>> ELSE <<>>) \o r(Link(x))
      BY <1>1, <2>2
    <3> QED BY <3>3, <3>4
  <2> QED BY <2>1, <2>2
<1> HIDE DEF P
<1>3. Bad = {}
  <2>1. SUFFICES ASSUME Bad # {} PROVE FALSE
    OBVIOUS
  <2>2. PICK k \in Bad : \A y \in Bad : k <= y
    <3>1. Bad \subseteq Nat
      OBVIOUS
    <3> HIDE DEF Bad
    <3> QED BY <2>1, <3>1, LeastNumber
  <2>3. PICK x \in States : Len(x) = k /\ ~P(x)
    OBVIOUS
  <2>4. x # <<>> /\ ~P(Link(x))
    BY <1>2, <2>3
  <2>5. Link(x) \in States /\ Len(Link(x)) \in Nat /\ Len(Link(x)) < Len(x)
    BY <2>4, RootFacts DEF Link, Linked
  <2>7. Len(Link(x)) \in Bad
    BY <2>4, <2>5
  <2>8. k \in Nat
    OBVIOUS
  <2> HIDE DEF Bad
  <2>9. k <= Len(Link(x))
    BY <2>2, <2>7
  <2> QED BY <2>3, <2>5, <2>8, <2>9
<1>4. P(w)
  BY <1>3, RootFacts
<1>5. Collected(r(w), w, end)
  BY <1>4 DEF P
<1> QED BY <1>1, <1>5 DEF r

\* Where matches do not fail and are reached by no link, there is one at most.
LEMMA EndingAtMostOne ==
    ASSUME Given, Stored, Linked, NEW end \in Nat, NEW w \in States,
           \A x \in States : IsMatch(x) => Link(x) = <<>>,
           \A x \in States : ~IsMatch(Link(x))
    PROVE  EndingAt(end)[w] = IF IsMatch(w) THEN <<MatchAt(w, end)>> ELSE <<>>
<1> DEFINE r(x) == EndingAt(end)[x]
           one(x) == IF IsMatch(x) THEN <<MatchAt(x, end)>> ELSE <<>>
           Bad == {k \in Nat : \E x \in States : Len(x) = k /\ r(x) # one(x)}
<1>1. \A x \in States : r(x) \in Seq(AnyMatch) /\ r(x) = IF x = <<>> THEN <<>> ELSE one(x) \o r(Link(x))
  BY EndingEquation
<1> HIDE DEF r
<1>2. ASSUME NEW x \in States, x = <<>> \/ r(Link(x)) = one(Link(x)) PROVE r(x) = one(x)
  <2>1. CASE x = <<>>
    <3>1. ~IsMatch(x)
      BY <2>1, RootFacts
    <3> QED BY <1>1, <2>1, <3>1
  <2>2. CASE x # <<>>
    <3>1. Link(x) \in States /\ ~IsMatch(Link(x))
      BY RootFacts DEF Link
    <3>2. r(x) = one(x) \o r(Link(x)) /\ r(Link(x)) = <<>>
      BY <1>1, <1>2, <2>2, <3>1
    <3>3. one(x) \in Seq(AnyMatch)
      <4>1. CASE IsMatch(x)
        <5>1. MatchAt(x, end) \in AnyMatch
          BY <4>1, RootFacts DEF MatchAt, AnyMatch, IsMatch
        <5> QED BY <4>1, <5>1
      <4>2. CASE ~IsMatch(x)
        BY <4>2, EmptySeq
      <4> QED BY <4>1, <4>2
    <3> HIDE DEF one
    <3>4. one(x) \o <<>> = one(x)
      BY <3>3, ConcatEmptySeq
    <3> QED BY <3>2, <3>4
  <2> QED BY <2>1, <2>2
<1> HIDE DEF one
<1>3. Bad = {}
  <2>1. SUFFICES ASSUME Bad # {} PROVE FALSE
    OBVIOUS
  <2>2. PICK k \in Bad : \A y \in Bad : k <= y
    <3>1. Bad \subseteq Nat
      OBVIOUS
    <3> HIDE DEF Bad
    <3> QED BY <2>1, <3>1, LeastNumber
  <2>3. PICK x \in States : Len(x) = k /\ r(x) # one(x)
    OBVIOUS
  <2>4. x # <<>> /\ r(Link(x)) # one(Link(x))
    BY <1>2, <2>3
  <2>5. Link(x) \in States /\ Len(Link(x)) \in Nat /\ Len(Link(x)) < Len(x)
    BY <2>4, RootFacts DEF Link, Linked
  <2>7. Len(Link(x)) \in Bad
    BY <2>4, <2>5
  <2>8. k \in Nat
    OBVIOUS
  <2> HIDE DEF Bad
  <2>9. k <= Len(Link(x))
    BY <2>2, <2>7
  <2> QED BY <2>3, <2>5, <2>8, <2>9
<1>4. r(w) = one(w)
  BY <1>3, RootFacts
<1> QED BY <1>4 DEF r, one

-----------------------------------------------------------------------------
(* The matches are the occurrences of the terms.                           *)

\* The words of the dictionary are the states that are matches.
LEMMA WordsAreMatches ==
    ASSUME Given, Stored, stage # "insert"
    PROVE  /\ Words = {v \in States : IsMatch(v)}
           /\ \A v \in Words : v \in Seq(Chars) /\ Len(v) \in Nat /\ Len(v) > 0
                               /\ TypeOf(v) = trie[v].type /\ TypeOf(v) \in Types
<1>1. /\ DOMAIN dict = 1..Len(dict) /\ inserted = Len(dict) /\ Len(dict) \in Nat
      /\ \A i \in 1..Len(dict) : dict[i][2] \in Types
  BY GivenFacts, LenProperties DEF Stored
<1>2. ASSUME NEW v \in Words PROVE v \in States /\ IsMatch(v)
  <2>1. PICK i \in 1..Len(dict) : dict[i][1] = v
    BY <1>1 DEF Words
  <2>2. v # <<>>
    BY DEF Words
  <2>3. v \in States
    BY <1>1, <2>1 DEF Stored
  <2> QED BY <1>1, <2>1, <2>2, <2>3 DEF Stored
<1>3. ASSUME NEW v \in States, IsMatch(v)
      PROVE  v \in Words /\ TypeOf(v) = trie[v].type /\ TypeOf(v) \in Types
  <2>1. PICK i \in 1..Len(dict) : GivesType(i, v)
    BY <1>1, <1>3 DEF Stored
  <2>2. v # <<>>
    BY <1>3 DEF Stored
  <2>3. dict[i][1] = v /\ dict[i][2] = trie[v].type /\ \A j \in (i + 1)..Len(dict) : dict[j][1] # v
    BY <1>1, <2>1 DEF GivesType
  <2>4. v \in Words
    BY <1>1, <2>2, <2>3 DEF Words
  <2> DEFINE S == {j \in DOMAIN dict : dict[j][1] = v}
  <2>5. S \subseteq 0..Len(dict) /\ i \in S /\ \A j \in S : j <= i
    <3>1. S \subseteq 0..Len(dict) /\ i \in S
      BY <1>1, <2>3
    <3>2. ASSUME NEW j \in S PROVE j <= i
      <4>1. j \in 1..Len(dict) /\ dict[j][1] = v
        BY <1>1
      <4>2. j \notin (i + 1)..Len(dict)
        BY <2>3, <4>1
      <4> QED BY <1>1, <4>1, <4>2
    <3> QED BY <3>1, <3>2
  <2>6. TypeOf(v) = dict[Max(S)][2]
    BY DEF TypeOf
  <2> HIDE DEF S
  <2>7. Max(S) \in S /\ \A j \in S : j <= Max(S)
    BY <1>1, <2>5, MaxOfNumbers
  <2>8. Max(S) = i
    <3>1. i <= Max(S) /\ Max(S) <= i /\ Max(S) \in 0..Len(dict)
      BY <2>5, <2>7
    <3> QED BY <1>1, <3>1
  <2> QED BY <1>1, <2>3, <2>4, <2>6, <2>8
<1>4. \A v \in States : IsMatch(v) => v \in Seq(Chars) /\ Len(v) \in Nat /\ Len(v) > 0
  BY RootFacts
<1> QED BY <1>2, <1>3, <1>4

\* What is found in the text.
LEMMA FoundFacts ==
    ASSUME Given, NEW w \in Seq(Chars), NEW e \in 0..Len(text)
    PROVE  /\ At(w, e) => Found(e - Len(w), Len(w)) = w
           /\ \A k \in 0..e : /\ Found(e - k, k) \in Seq(Chars) /\ Len(Found(e - k, k)) = k
                              /\ At(Found(e - k, k), e)
<1>1. text \in Seq(Chars) /\ Len(text) \in Nat /\ e \in Nat /\ Len(w) \in Nat
  BY GivenFacts, LenProperties
<1>2. ASSUME NEW k \in 0..e
      PROVE  /\ Found(e - k, k) \in Seq(Chars) /\ Len(Found(e - k, k)) = k
             /\ \A j \in 1..k : Found(e - k, k)[j] = text[e - k + j]
             /\ At(Found(e - k, k), e)
  <2> DEFINE a == e - k + 1
             b == e - k + k
  <2>1. a \in Int /\ b \in Int /\ b = e /\ (IF a <= b THEN b - a + 1 ELSE 0) = k /\ b - a + 1 = k
    BY <1>1
  <2>2. \A i \in a..b : text[i] \in Chars
    <3> TAKE i \in a..b
    <3>1. i \in 1..Len(text)
      BY <1>1
    <3> QED BY <1>1, <3>1, ElementOfSeq
  <2>3. Found(e - k, k) = SubSeq(text, a, b)
    BY DEF Found
  <2> HIDE DEF a, b
  <2>4. /\ SubSeq(text, a, b) \in Seq(Chars)
        /\ Len(SubSeq(text, a, b)) = IF a <= b THEN b - a + 1 ELSE 0
        /\ \A i \in 1..(b - a + 1) : SubSeq(text, a, b)[i] = text[a + i - 1]
    BY <2>1, <2>2, SubSeqProperties
  <2>5. \A j \in 1..k : a + j - 1 = e - k + j
    BY <1>1 DEF a
  <2>6. /\ Found(e - k, k) \in Seq(Chars) /\ Len(Found(e - k, k)) = k
        /\ \A j \in 1..k : Found(e - k, k)[j] = text[e - k + j]
    BY <2>1, <2>3, <2>4, <2>5
  <2> QED BY <2>6 DEF At
<1>3. ASSUME At(w, e) PROVE Found(e - Len(w), Len(w)) = w
  <2> DEFINE f == Found(e - Len(w), Len(w))
  <2>1. Len(w) \in 0..e
    BY <1>1, <1>3 DEF At
  <2>2. f \in Seq(Chars) /\ Len(f) = Len(w) /\ \A j \in 1..Len(w) : f[j] = text[e - Len(w) + j]
    BY <1>2, <2>1
  <2> HIDE DEF f
  <2>3. \A j \in 1..Len(w) : f[j] = w[j]
    BY <1>3, <2>2 DEF At
  <2>4. f = w
    BY <2>2, <2>3, SeqEqual
  <2> QED BY <2>4 DEF f
<1> QED BY <1>2, <1>3

\* A match state that ends where the search is stands for an occurrence in the
\* text.
LEMMA MatchIsOccurrence ==
    ASSUME Given, Stored, stage # "insert", NEW v \in States, IsMatch(v),
           NEW e \in 0..Len(text), At(v, e)
    PROVE  /\ MatchAt(v, e) \in Occurrences /\ EndOf(MatchAt(v, e)) = e
           /\ MatchAt(v, e).start = e - Len(v) /\ MatchAt(v, e).len = Len(v)
<1>1. v \in Words /\ v \in Seq(Chars) /\ Len(v) \in Nat /\ Len(v) > 0 /\ TypeOf(v) = trie[v].type
  BY WordsAreMatches
<1>2. Len(text) \in Nat /\ e \in Nat /\ Len(v) <= e
  BY GivenFacts DEF At
<1>3. Found(e - Len(v), Len(v)) = v
  BY <1>1, FoundFacts
<1> DEFINE p == <<e - Len(v), Len(v)>>
<1>4. p \in (0..Len(text)) \X (1..Len(text)) /\ p[1] = e - Len(v) /\ p[2] = Len(v) /\ p[1] + p[2] <= Len(text)
  BY <1>1, <1>2
<1>5. MatchAt(v, e) = [start |-> p[1], len |-> p[2], type |-> TypeOf(Found(p[1], p[2]))]
  BY <1>1, <1>3, <1>4 DEF MatchAt
<1> HIDE DEF p
<1>6. MatchAt(v, e) \in Occurrences
  BY <1>1, <1>3, <1>4, <1>5 DEF Occurrences
<1>7. MatchAt(v, e).start = e - Len(v) /\ MatchAt(v, e).len = Len(v)
  BY DEF MatchAt
<1> QED BY <1>1, <1>2, <1>6, <1>7 DEF EndOf

\* Every occurrence of a term in the text has its state, once the trie is
\* prepared.
LEMMA OccurrenceIsMatch ==
    ASSUME Given, Stored, stage # "insert", NEW m \in Occurrences
    PROVE  /\ m \in Piece(Types) /\ m.len > 0 /\ m.start \in Nat /\ m.len \in Nat
           /\ EndOf(m) \in 0..Len(text) /\ EndOf(m) = m.start + m.len
           /\ \E v \in States : /\ v \in Words /\ IsMatch(v) /\ At(v, EndOf(m))
                                /\ m = MatchAt(v, EndOf(m)) /\ Len(v) = m.len
                                /\ v = Found(m.start, m.len)
<1>1. PICK p \in (0..Len(text)) \X (1..Len(text)) :
        /\ p[1] + p[2] <= Len(text) /\ Found(p[1], p[2]) \in Words
        /\ m = [start |-> p[1], len |-> p[2], type |-> TypeOf(Found(p[1], p[2]))]
  BY DEF Occurrences
<1> DEFINE v == Found(p[1], p[2])
           e == p[1] + p[2]
<1>2. Len(text) \in Nat /\ p[1] \in Nat /\ p[2] \in Nat /\ p[2] > 0 /\ e \in 0..Len(text)
      /\ p[1] = e - p[2] /\ p[2] \in 0..e
  BY <1>1, GivenFacts
<1>3. /\ v \in States /\ IsMatch(v) /\ v \in Words /\ TypeOf(v) = trie[v].type /\ TypeOf(v) \in Types
      /\ v \in Seq(Chars)
  BY <1>1, WordsAreMatches
<1>4. m.start = p[1] /\ m.len = p[2] /\ EndOf(m) = e /\ EndOf(m) = m.start + m.len
  BY <1>1 DEF EndOf
<1>5. v = Found(e - p[2], p[2])
  BY <1>2
<1>6. Len(v) = p[2] /\ At(v, e)
  <2> HIDE DEF v, e
  <2> QED BY <1>2, <1>3, <1>5, FoundFacts
<1>7. m \in Piece(Types)
  BY <1>1, <1>2, <1>3 DEF Piece
<1>8. m = MatchAt(v, e)
  <2>1. m = [start |-> p[1], len |-> p[2], type |-> TypeOf(v)]
    BY <1>1
  <2> HIDE DEF v, e
  <2> QED BY <1>2, <1>3, <1>6, <2>1 DEF MatchAt
<1>9. v = Found(m.start, m.len)
  BY <1>4
<1> HIDE DEF v, e
<1> QED BY <1>2, <1>3, <1>4, <1>6, <1>7, <1>8, <1>9

-----------------------------------------------------------------------------
(* The chain of nodes.                                                     *)

Pieces == Piece(Types \cup {"text", "other"})

\* What is behind the text is a node of its own
InText(nodes, i) ==
    \/ EndOf(nodes[i]) <= Len(text)
    \/ i = Len(nodes) /\ nodes[i].start = Len(text) /\ nodes[i].len = 1 /\ nodes[i].type # "text"

Chained(nodes) ==
    /\ nodes \in Seq(Pieces) /\ Len(nodes) >= 1
    /\ nodes[1].start = 0
    /\ \A i \in 1..(Len(nodes) - 1) : nodes[i + 1].start = EndOf(nodes[i])
    /\ \A i \in 1..Len(nodes) : InText(nodes, i)

\* The components of a node of the chain.
LEMMA PieceFacts ==
    ASSUME NEW nodes, Chained(nodes), NEW i \in 1..Len(nodes)
    PROVE  /\ nodes[i] \in Pieces /\ nodes[i].start \in Nat /\ nodes[i].len \in Nat
           /\ nodes[i].type \in Types \cup {"text", "other"}
           /\ EndOf(nodes[i]) = nodes[i].start + nodes[i].len
           /\ nodes[i] = [start |-> nodes[i].start, len |-> nodes[i].len, type |-> nodes[i].type]
           /\ Len(nodes) \in Nat
<1>1. nodes \in Seq(Pieces)
  BY DEF Chained
<1>2. nodes[i] \in Pieces /\ Len(nodes) \in Nat
  BY <1>1, ElementOfSeq, LenProperties
<1>3. /\ nodes[i].start \in Nat /\ nodes[i].len \in Nat
      /\ nodes[i].type \in Types \cup {"text", "other"}
      /\ nodes[i] = [start |-> nodes[i].start, len |-> nodes[i].len, type |-> nodes[i].type]
  BY <1>2 DEF Pieces, Piece
<1> QED BY <1>2, <1>3 DEF EndOf

\* A node of the chain with one or two of its components changed.
LEMMA PieceExcept ==
    ASSUME NEW p \in Pieces, NEW offset \in Int, NEW t
    PROVE  /\ [p EXCEPT !.len = offset] = [start |-> p.start, len |-> offset, type |-> p.type]
           /\ [p EXCEPT !.start = @ + offset, !.len = @ - offset]
                = [start |-> p.start + offset, len |-> p.len - offset, type |-> p.type]
           /\ [p EXCEPT !.type = t] = [start |-> p.start, len |-> p.len, type |-> t]
<1>1. /\ p.start \in Nat /\ p.len \in Nat
      /\ p = [start |-> p.start, len |-> p.len, type |-> p.type]
  BY DEF Pieces, Piece
<1>2. [p EXCEPT !.len = offset] = [start |-> p.start, len |-> offset, type |-> p.type]
  BY <1>1
<1>3. [p EXCEPT !.type = t] = [start |-> p.start, len |-> p.len, type |-> t]
  BY <1>1
<1>4. [p EXCEPT !.start = @ + offset, !.len = @ - offset]
        = [start |-> p.start + offset, len |-> p.len - offset, type |-> p.type]
  <2>1. [p EXCEPT !.start = @ + offset] = [start |-> p.start + offset, len |-> p.len, type |-> p.type]
    BY <1>1
  <2> DEFINE q == [start |-> p.start + offset, len |-> p.len, type |-> p.type]
  <2>2. [q EXCEPT !.len = @ - offset] = [start |-> p.start + offset, len |-> p.len - offset, type |-> p.type]
    OBVIOUS
  <2>3. [p EXCEPT !.start = @ + offset, !.len = @ - offset] = [[p EXCEPT !.start = @ + offset] EXCEPT !.len = @ - offset]
    BY <1>1
  <2> QED BY <2>1, <2>2, <2>3
<1> QED BY <1>2, <1>3, <1>4

\* Node i of a chain is split at an offset inside it.
SplitAt(nodes, cut, i, offset) ==
    /\ Len(cut) = Len(nodes) + 1
    /\ \A j \in 1..Len(cut) :
           cut[j] = IF j < i THEN nodes[j]
                    ELSE IF j = i THEN [start |-> nodes[i].start, len |-> offset, type |-> nodes[i].type]
                    ELSE IF j = i + 1 THEN [start |-> nodes[i].start + offset,
                                            len |-> nodes[i].len - offset, type |-> nodes[i].type]
                    ELSE nodes[j - 1]

\* mmd_node_split keeps the chain, or puts two nodes for one.
LEMMA SplitFacts ==
    ASSUME Given, NEW nodes, Chained(nodes), NEW i \in Nat \ {0}, NEW offset \in Int
    PROVE  /\ Chained(mmd_node_split(nodes, i, offset))
           /\ i > Len(nodes) \/ offset < 0 \/ nodes[i].len <= offset =>
                  mmd_node_split(nodes, i, offset) = nodes
           /\ ~(i > Len(nodes) \/ offset < 0 \/ nodes[i].len <= offset) =>
                  SplitAt(nodes, mmd_node_split(nodes, i, offset), i, offset)
<1>1. CASE i > Len(nodes) \/ offset < 0 \/ nodes[i].len <= offset
  <2>1. mmd_node_split(nodes, i, offset) = nodes
    BY <1>1 DEF mmd_node_split, SplitInside
  <2> QED BY <1>1, <2>1
<1>2. CASE ~(i > Len(nodes) \/ offset < 0 \/ nodes[i].len <= offset)
  <2> DEFINE cut == mmd_node_split(nodes, i, offset)
             N == Len(nodes) + 1
  <2>1. cut = Halves(nodes, i, offset)
    BY <1>2 DEF mmd_node_split, SplitInside
  <2>2. Len(nodes) \in Nat /\ Len(nodes) >= 1 /\ nodes \in Seq(Pieces)
    BY LenProperties DEF Chained
  <2>3. i \in 1..Len(nodes) /\ offset >= 0
    BY <1>2, <2>2
  <2>4. /\ nodes[i].start \in Nat /\ nodes[i].len \in Nat
        /\ nodes[i].type \in Types \cup {"text", "other"} /\ offset < nodes[i].len
        /\ nodes[i] = [start |-> nodes[i].start, len |-> nodes[i].len, type |-> nodes[i].type]
    BY <1>2, <2>3, PieceFacts
  <2> DEFINE low == [start |-> nodes[i].start, len |-> offset, type |-> nodes[i].type]
             high == [start |-> nodes[i].start + offset, len |-> nodes[i].len - offset, type |-> nodes[i].type]
  <2>5. [nodes[i] EXCEPT !.len = offset] = low /\ [nodes[i] EXCEPT !.start = @ + offset, !.len = @ - offset] = high
    <3>1. nodes[i] \in Pieces
      BY <2>3, PieceFacts
    <3> QED BY <3>1, PieceExcept
  <2>6. low \in Pieces /\ high \in Pieces /\ low.start + low.len = high.start
        /\ high.start + high.len = nodes[i].start + nodes[i].len /\ low.start = nodes[i].start
        /\ high.len > 0 /\ low.type = nodes[i].type /\ high.type = nodes[i].type
    BY <2>3, <2>4 DEF Pieces, Piece
  <2>7. cut = [j \in 1..N |-> CASE j < i -> nodes[j] [] j = i -> low [] j = i + 1 -> high [] OTHER -> nodes[j - 1]]
    BY <2>1, <2>5 DEF Halves
  <2> HIDE DEF cut
  <2>8. ASSUME NEW j \in 1..N
        PROVE  cut[j] = IF j < i THEN nodes[j] ELSE IF j = i THEN low
                        ELSE IF j = i + 1 THEN high ELSE nodes[j - 1]
    <3>1. j \in Int /\ i \in Int
      BY <2>2
    <3>2. CASE j < i
      BY <2>7, <3>1, <3>2
    <3>3. CASE j = i
      BY <2>7, <3>1, <3>3
    <3>4. CASE j = i + 1
      BY <2>7, <3>1, <3>4
    <3>5. CASE j > i + 1
      BY <2>7, <3>1, <3>5
    <3> QED BY <3>1, <3>2, <3>3, <3>4, <3>5
  <2> HIDE DEF low, high
  <2>9. \A j \in 1..N : /\ j < i => j \in 1..Len(nodes)
                        /\ j > i + 1 => j - 1 \in 1..Len(nodes)
    BY <2>2, <2>3
  <2>10. \A j \in 1..N : cut[j] \in Pieces
    <3> TAKE j \in 1..N
    <3>1. j < i => nodes[j] \in Pieces
      BY <2>2, <2>9, ElementOfSeq
    <3>2. j > i + 1 => nodes[j - 1] \in Pieces
      BY <2>2, <2>9, ElementOfSeq
    <3> QED BY <2>2, <2>6, <2>8, <3>1, <3>2
  <2>11. cut \in Seq(Pieces) /\ Len(cut) = N
    <3>1. N \in Nat /\ cut \in [1..N -> Pieces]
      BY <2>2, <2>7, <2>10
    <3>2. cut \in Seq(Pieces)
      BY <3>1, SeqDef
    <3>3. DOMAIN cut = 1..Len(cut) /\ Len(cut) \in Nat /\ DOMAIN cut = 1..N
      BY <3>1, <3>2, LenProperties
    <3> QED BY <3>1, <3>2, <3>3
  <2>12. SplitAt(nodes, cut, i, offset)
    BY <2>8, <2>11 DEF SplitAt, low, high
  <2>13. cut[1].start = 0
    <3>1. 1 \in 1..N /\ (i = 1 \/ 1 < i)
      BY <2>2, <2>3
    <3> QED BY <2>3, <2>6, <2>8, <3>1 DEF Chained
  <2>14. ASSUME NEW j \in 1..(Len(cut) - 1) PROVE cut[j + 1].start = EndOf(cut[j])
    <3>1. j \in 1..N /\ j + 1 \in 1..N /\ j \in Nat /\ i \in Nat
      BY <2>2, <2>11
    <3>2. CASE j + 1 < i
      <4>1. j < i /\ j \in 1..(Len(nodes) - 1)
        BY <2>2, <2>3, <3>1, <3>2
      <4>2. nodes[j + 1].start = EndOf(nodes[j])
        BY <4>1 DEF Chained
      <4> QED BY <2>8, <3>1, <3>2, <4>1, <4>2
    <3>3. CASE j + 1 = i
      <4>1. j < i /\ j \in 1..(Len(nodes) - 1)
        BY <2>2, <2>3, <3>1, <3>3
      <4>2. nodes[i].start = EndOf(nodes[j])
        BY <3>3, <4>1 DEF Chained
      <4>3. cut[j] = nodes[j] /\ cut[j + 1] = low
        BY <2>8, <3>1, <3>3, <4>1
      <4> QED BY <2>6, <4>2, <4>3
    <3>4. CASE j = i
      <4>1. cut[j] = low /\ cut[j + 1] = high
        BY <2>8, <3>1, <3>4
      <4> QED BY <2>6, <4>1 DEF EndOf
    <3>5. CASE j = i + 1
      <4>1. i \in 1..(Len(nodes) - 1)
        BY <2>2, <2>3, <2>11, <3>1, <3>5
      <4>2. nodes[i + 1].start = EndOf(nodes[i])
        BY <4>1 DEF Chained
      <4>3. cut[j] = high /\ cut[j + 1] = nodes[j]
        BY <2>8, <3>1, <3>5
      <4> QED BY <2>6, <3>5, <4>2, <4>3 DEF EndOf
    <3>6. CASE j > i + 1
      <4>1. j - 1 \in 1..(Len(nodes) - 1) /\ (j - 1) + 1 = j /\ (j + 1) - 1 = j
        BY <2>2, <2>3, <2>11, <3>1, <3>6
      <4>2. nodes[j].start = EndOf(nodes[j - 1])
        BY <4>1 DEF Chained
      <4>3. cut[j] = nodes[j - 1] /\ cut[j + 1] = nodes[j]
        BY <2>8, <3>1, <3>6, <4>1
      <4> QED BY <4>2, <4>3
    <3> QED BY <3>1, <3>2, <3>3, <3>4, <3>5, <3>6
  <2>15. ASSUME NEW j \in 1..Len(cut) PROVE InText(cut, j)
    <3>1. j \in 1..N /\ j \in Nat /\ i \in Nat /\ Len(text) \in Nat
      BY <2>2, <2>11, GivenFacts
    <3>2. CASE j < i
      <4>1. cut[j] = nodes[j] /\ j \in 1..Len(nodes) /\ j # Len(nodes)
        BY <2>2, <2>3, <2>8, <3>1, <3>2
      <4>2. EndOf(nodes[j]) <= Len(text)
        BY <4>1 DEF Chained, InText
      <4> QED BY <4>1, <4>2 DEF InText
    <3>3. CASE j = i
      <4>1. cut[j] = low
        BY <2>8, <3>1, <3>3
      <4>2. InText(nodes, i)
        BY <2>3 DEF Chained
      <4>3. EndOf(low) <= Len(text)
        BY <2>3, <2>4, <3>1, <4>2 DEF InText, EndOf, low
      <4> QED BY <4>1, <4>3 DEF InText
    <3>4. CASE j = i + 1
      <4>1. cut[j] = high
        BY <2>8, <3>1, <3>4
      <4>2. InText(nodes, i)
        BY <2>3 DEF Chained
      <4>3. CASE EndOf(nodes[i]) <= Len(text)
        BY <2>6, <4>1, <4>3 DEF InText, EndOf
      <4>4. CASE ~(EndOf(nodes[i]) <= Len(text))
        <5>1. i = Len(nodes) /\ nodes[i].start = Len(text) /\ nodes[i].len = 1 /\ nodes[i].type # "text"
          BY <4>2, <4>4 DEF InText
        <5>2. offset = 0 /\ j = Len(cut)
          BY <2>3, <2>4, <2>11, <3>4, <5>1
        <5>3. high.start = Len(text) /\ high.len = 1 /\ high.type # "text"
          BY <3>1, <5>1, <5>2 DEF high
        <5> QED BY <4>1, <5>2, <5>3 DEF InText
      <4> QED BY <4>3, <4>4
    <3>5. CASE j > i + 1
      <4>1. cut[j] = nodes[j - 1] /\ j - 1 \in 1..Len(nodes) /\ (j = Len(cut) <=> j - 1 = Len(nodes))
        BY <2>2, <2>8, <2>9, <2>11, <3>1, <3>5
      <4>2. InText(nodes, j - 1)
        BY <4>1 DEF Chained
      <4> QED BY <4>1, <4>2 DEF InText
    <3> QED BY <3>1, <3>2, <3>3, <3>4, <3>5
  <2>16. Chained(cut)
    <3>1. Len(cut) >= 1
      BY <2>2, <2>11
    <3> QED BY <2>11, <2>13, <2>14, <2>15, <3>1 DEF Chained
  <2> QED BY <1>2, <2>12, <2>16 DEF cut
<1> QED BY <1>1, <1>2

\* A node is flagged.
Retyped(nodes, i, t) == [nodes EXCEPT ![i].type = t]

\* Giving a node another type keeps its place.
LEMMA RetypeFacts ==
    ASSUME NEW nodes, Chained(nodes), NEW i \in 1..Len(nodes), NEW t \in Types
    PROVE  /\ Chained(Retyped(nodes, i, t))
           /\ Len(Retyped(nodes, i, t)) = Len(nodes)
           /\ \A j \in 1..Len(nodes) : Retyped(nodes, i, t)[j] =
                  IF j = i THEN [start |-> nodes[i].start, len |-> nodes[i].len, type |-> t] ELSE nodes[j]
<1> DEFINE one == [start |-> nodes[i].start, len |-> nodes[i].len, type |-> t]
           new == Retyped(nodes, i, t)
<1>1. /\ nodes[i].start \in Nat /\ nodes[i].len \in Nat /\ Len(nodes) \in Nat
      /\ nodes[i] = [start |-> nodes[i].start, len |-> nodes[i].len, type |-> nodes[i].type]
      /\ nodes \in Seq(Pieces) /\ Len(nodes) >= 1
  BY PieceFacts DEF Chained
<1>2. one \in Pieces /\ one.start = nodes[i].start /\ one.len = nodes[i].len /\ one.type \in Types
      /\ "text" \notin Types
  BY <1>1 DEF Pieces, Piece, Types
<1>3. new = [nodes EXCEPT ![i] = one]
  <2>1. nodes[i] \in Pieces
    BY PieceFacts
  <2>0. 0 \in Int
    OBVIOUS
  <2>2. [nodes[i] EXCEPT !.type = t] = one
    BY <2>0, <2>1, PieceExcept DEF one
  <2>3. new = [nodes EXCEPT ![i] = [nodes[i] EXCEPT !.type = t]]
    BY DEF Retyped
  <2> QED BY <2>2, <2>3
<1> HIDE DEF new, one
<1>4. /\ new \in Seq(Pieces) /\ Len(new) = Len(nodes)
      /\ \A j \in 1..Len(nodes) : new[j] = IF j = i THEN one ELSE nodes[j]
  BY <1>1, <1>2, <1>3, ExceptSeq
<1>5. \A j \in 1..Len(nodes) : new[j].start = nodes[j].start /\ new[j].len = nodes[j].len
                               /\ EndOf(new[j]) = EndOf(nodes[j])
                               /\ (new[j].type = "text" => nodes[j].type = "text")
  BY <1>2, <1>4 DEF EndOf
<1>6. Chained(new)
  <2>1. new[1].start = 0
    BY <1>1, <1>5 DEF Chained
  <2>2. ASSUME NEW j \in 1..(Len(new) - 1) PROVE new[j + 1].start = EndOf(new[j])
    <3>1. j \in 1..Len(nodes) /\ j + 1 \in 1..Len(nodes) /\ j \in 1..(Len(nodes) - 1)
      BY <1>1, <1>4
    <3>2. nodes[j + 1].start = EndOf(nodes[j])
      BY <3>1 DEF Chained
    <3> QED BY <1>5, <3>1, <3>2
  <2>3. ASSUME NEW j \in 1..Len(new) PROVE InText(new, j)
    <3>1. InText(nodes, j) /\ j \in 1..Len(nodes)
      BY <1>4 DEF Chained
    <3> QED BY <1>4, <1>5, <3>1 DEF InText
  <2> QED BY <1>1, <1>4, <2>1, <2>2, <2>3 DEF Chained
<1> QED BY <1>4, <1>6 DEF new, one

-----------------------------------------------------------------------------
(* One character is read.                                                  *)

\* The occurrences between two offsets
Held(a, e) == {m \in Occurrences : a <= m.start /\ EndOf(m) <= e}

\* The state of the search is a word that ends where it has read to.
Reading(a) ==
    /\ stage # "insert"
    /\ a \in Nat /\ counter \in Nat /\ counter < Len(text)
    /\ s \in States /\ At(s, counter) /\ a + Len(s) <= counter
    /\ matches \in Seq(Held(a, counter))

Char == text[counter + 1]
From == Fallen(Char)[s]
Ended == EndingAt(counter + 1)[NextState(s, Char)]

\* One character: the longest open state that ends here and takes it, and no
\* later start.
LEMMA NextStateFacts ==
    ASSUME Given, Stored, Linked, NEW a, Reading(a)
    PROVE  /\ From \in States /\ Ends(From, s) /\ Len(From) <= Len(s)
           /\ NextState(s, Char) \in States
           /\ NextState(s, Char) = IF Append(From, Char) \in States THEN Append(From, Char) ELSE <<>>
           /\ Append(From, Char) \in States => Len(NextState(s, Char)) = Len(From) + 1
           /\ Append(From, Char) \notin States => From = <<>>
           /\ At(NextState(s, Char), counter + 1)
           /\ a + Len(NextState(s, Char)) <= counter + 1
           /\ \A G : Closed(G) /\ s \in G =>
                  \A v \in States : Ends(v, s) /\ Append(v, Char) \in States => Len(v) <= Len(From)
<1>1. /\ text \in Seq(Chars) /\ Len(text) \in Nat /\ counter \in Nat /\ counter < Len(text) /\ a \in Nat
      /\ counter \in 0..Len(text) /\ counter + 1 \in 0..Len(text)
  BY GivenFacts DEF Reading
<1>2. s \in States /\ s \in Seq(Chars) /\ Len(s) \in Nat /\ At(s, counter) /\ a + Len(s) <= counter
  BY RootFacts DEF Reading
<1>3. /\ From \in States /\ Ends(From, s) /\ Takes(From, Char)
      /\ \A G : Closed(G) /\ s \in G =>
             \A v \in States : Ends(v, s) /\ Append(v, Char) \in States => Len(v) <= Len(From)
  BY <1>2, FallenFacts DEF From
<1>4. From \in Seq(Chars) /\ Len(From) \in Nat /\ Len(From) <= Len(s) /\ <<>> \in States /\ Len(<<>>) = 0
      /\ <<>> \in Seq(Chars)
  BY <1>3, RootFacts DEF Ends
<1>5. NextState(s, Char) = IF Append(From, Char) \in States THEN Append(From, Char) ELSE <<>>
  BY DEF NextState, From
<1>6. NextState(s, Char) \in States
  BY <1>4, <1>5
<1>7. At(From, counter)
  BY <1>1, <1>2, <1>3, <1>4, ReadFacts
<1>8. /\ Char \in Chars /\ At(Append(From, Char), counter + 1) /\ Len(Append(From, Char)) = Len(From) + 1
  <2>1. text[counter + 1] \in Chars /\ At(Append(From, text[counter + 1]), counter + 1)
    BY <1>1, <1>4, <1>7, ReadOneMore
  <2>2. Len(Append(From, Char)) = Len(From) + 1
    BY <1>4, <2>1, AppendProperties DEF Char
  <2> QED BY <2>1, <2>2 DEF Char
<1>9. At(<<>>, counter + 1)
  BY <1>1, <1>4, ReadFacts
<1>10. Append(From, Char) \notin States => From = <<>>
  BY <1>3 DEF Takes
<1>11. At(NextState(s, Char), counter + 1) /\ a + Len(NextState(s, Char)) <= counter + 1
  <2>1. CASE Append(From, Char) \in States
    BY <1>1, <1>2, <1>4, <1>5, <1>8, <2>1
  <2>2. CASE Append(From, Char) \notin States
    <3>1. NextState(s, Char) = <<>>
      BY <1>5, <2>2
    <3>2. a + 0 <= counter + 1
      BY <1>1, <1>2
    <3> QED BY <1>4, <1>9, <3>1, <3>2
  <2> QED BY <2>1, <2>2
<1> QED BY <1>3, <1>4, <1>5, <1>6, <1>8, <1>10, <1>11

\* What is collected there are occurrences that end with this character.
LEMMA EndedFacts ==
    ASSUME Given, Stored, Linked, NEW a, Reading(a)
    PROVE  /\ Ended \in Seq(Held(a, counter + 1)) /\ Ended \in Seq(AnyMatch)
           /\ Collected(Ended, NextState(s, Char), counter + 1)
           /\ \A i \in 1..Len(Ended) :
                  /\ Ended[i] \in Held(a, counter + 1) /\ EndOf(Ended[i]) = counter + 1
                  /\ Ended[i].len \in Nat
<1> DEFINE w == NextState(s, Char)
           e == counter + 1
           V == Held(a, e)
<1>1. /\ w \in States /\ w \in Seq(Chars) /\ Len(w) \in Nat /\ At(w, e) /\ a + Len(w) <= e
      /\ e \in 0..Len(text) /\ e \in Nat /\ a \in Nat /\ text \in Seq(Chars) /\ stage # "insert"
  BY NextStateFacts, GivenFacts, RootFacts DEF Reading
<1> HIDE DEF w, e
<1>2. EndingAt(e)[w] \in Seq(AnyMatch) /\ Collected(EndingAt(e)[w], w, e)
  BY <1>1, EndingFacts
<1>3. Ended = EndingAt(e)[w]
  BY DEF Ended, w, e
<1> HIDE DEF V
<1>4. ASSUME NEW i \in 1..Len(Ended)
      PROVE  Ended[i] \in V /\ EndOf(Ended[i]) = e /\ Ended[i].len \in Nat
  <2>1. PICK v \in States : Ends(v, w) /\ IsMatch(v) /\ Ended[i] = MatchAt(v, e)
    BY <1>2, <1>3 DEF Collected
  <2>2. v \in Seq(Chars) /\ Len(v) \in Nat /\ Len(v) <= Len(w)
    BY <2>1, RootFacts DEF Ends
  <2>3. At(v, e)
    BY <1>1, <2>1, <2>2, ReadFacts
  <2>4. /\ MatchAt(v, e) \in Occurrences /\ EndOf(MatchAt(v, e)) = e
        /\ MatchAt(v, e).start = e - Len(v) /\ MatchAt(v, e).len = Len(v)
    BY <1>1, <2>1, <2>3, MatchIsOccurrence
  <2>5. a <= e - Len(v)
    BY <1>1, <2>2
  <2> QED BY <1>1, <2>1, <2>2, <2>4, <2>5 DEF V, Held
<1>5. Ended \in Seq(V)
  <2>1. Ended \in [1..Len(Ended) -> AnyMatch] /\ Len(Ended) \in Nat
    BY <1>2, <1>3, LenProperties
  <2>2. Ended \in [1..Len(Ended) -> V]
    BY <1>4, <2>1
  <2> QED BY <2>1, <2>2, SeqDef
<1> QED BY <1>2, <1>3, <1>4, <1>5 DEF w, e, V

\* What one step of ac_search does to the state, the position and the matches.
LEMMA ReadStep ==
    ASSUME Given, Stored, Linked, NEW a, Reading(a), ac_search
    PROVE  /\ s' = NextState(s, Char) /\ counter' = counter + 1
           /\ matches' \in Seq(Held(a, counter + 1))
           /\ \E out \in [0..Len(Ended) -> Seq(Held(a, counter + 1))] :
                  Adds(out, matches, Ended) /\ matches' = out[Len(Ended)]
<1>1. s' = NextState(s, Char) /\ counter' = counter + 1 /\ matches' = AddAll(matches, Ended)
  BY DEF ac_search, Char, Ended
<1> DEFINE V == Held(a, counter + 1)
<1>2. Ended \in Seq(V)
  BY EndedFacts
<1>3. matches \in Seq(V)
  <2>1. Held(a, counter) \subseteq V
    <3> SUFFICES ASSUME NEW m \in Held(a, counter) PROVE m \in V
      OBVIOUS
    <3>1. m \in Occurrences /\ a <= m.start /\ EndOf(m) <= counter
      BY DEF Held
    <3>2. EndOf(m) \in Int /\ counter \in Nat
      BY <3>1, OccurrenceIsMatch, GivenFacts DEF Reading
    <3>3. EndOf(m) <= counter + 1
      BY <3>1, <3>2
    <3> QED BY <3>1, <3>3 DEF Held
  <2>2. matches \in Seq(Held(a, counter))
    BY DEF Reading
  <2> HIDE DEF V
  <2> QED BY <2>1, <2>2, SeqMonotonic
<1> HIDE DEF V
<1>4. PICK out \in [0..Len(Ended) -> Seq(V)] :
        Adds(out, matches, Ended) /\ AddAll(matches, Ended) = out[Len(Ended)]
  BY <1>2, <1>3, AddAllAdds
<1>5. Len(Ended) \in 0..Len(Ended)
  BY <1>2, LenProperties
<1>6. out[Len(Ended)] \in Seq(V)
  BY <1>5
<1> QED BY <1>1, <1>4, <1>6 DEF V

-----------------------------------------------------------------------------
(* The inductive invariant of the search and its splits.                   *)

Searching ==
    /\ n = here /\ here <= Len(chain) /\ chain[here].type = "text" /\ walker = 1
    /\ At(s, counter) /\ chain[here].start + Len(s) <= counter /\ counter <= EndOf(chain[here])
    /\ matches \in Seq(Held(chain[here].start, counter))
Splitting ==
    /\ here <= Len(chain) /\ walker >= 1 /\ n >= 1 /\ options = "longest"
    /\ walker <= Len(matches) => n <= Len(chain)
Positions ==
    /\ here \in 1..(Len(chain) + 1) /\ n \in 0..(Len(chain) + 1)
    /\ stage \in {"insert", "visit", "search", "split", "done", "crashed"}
    /\ s \in States /\ counter \in 0..Len(text)
    /\ matches \in Seq(Occurrences) /\ walker \in 0..(Len(matches) + 1)
    /\ stage = "insert" => matches = <<>>
    /\ stage = "search" => Searching
    /\ stage = "split" => Splitting

IInv == Given /\ Stored /\ Linked /\ Chained(chain) /\ Positions

\* The search begins in the invariant.
LEMMA InitEstablishesInvariant == Init => IInv
<1> SUFFICES ASSUME Init PROVE IInv
  OBVIOUS
<1>1. Given /\ Stored /\ Linked
  BY InitStored
<1>2. text \in Seq(Chars) /\ Len(text) \in Nat
  BY <1>1, GivenFacts
<1>3. PICK behind \in BOOLEAN : chain = Spread(text, behind)
  BY DEF Init
<1> DEFINE p == [start |-> 0, len |-> Len(text), type |-> "text"]
           q == [start |-> Len(text), len |-> 1, type |-> "other"]
<1>4. p \in Pieces /\ q \in Pieces /\ EndOf(p) = Len(text) /\ EndOf(q) = Len(text) + 1 /\ p.start = 0
      /\ q.start = Len(text) /\ q.len = 1 /\ q.type # "text"
  BY <1>2 DEF Pieces, Piece, EndOf
<1> HIDE DEF p, q
<1>5. chain = IF behind THEN <<p, q>> ELSE <<p>>
  <2>1. <<p>> \o <<q>> = <<p, q>>
    <3>1. <<p>> \in Seq(Pieces) /\ <<q>> \in Seq(Pieces) /\ <<p, q>> \in Seq(Pieces)
          /\ Len(<<p>>) = 1 /\ Len(<<q>>) = 1 /\ Len(<<p, q>>) = 2
          /\ <<p>>[1] = p /\ <<q>>[1] = q /\ <<p, q>>[1] = p /\ <<p, q>>[2] = q
          /\ \A i \in 1..2 : i = 1 \/ i = 2
      BY <1>4
    <3>2. /\ <<p>> \o <<q>> \in Seq(Pieces) /\ Len(<<p>> \o <<q>>) = 2
          /\ \A i \in 1..2 : (<<p>> \o <<q>>)[i] = IF i <= 1 THEN <<p>>[i] ELSE <<q>>[i - 1]
      BY <3>1, ConcatProperties
    <3>3. \A i \in 1..2 : (<<p>> \o <<q>>)[i] = <<p, q>>[i]
      BY <3>1, <3>2
    <3> QED BY <3>1, <3>2, <3>3, SeqEqual
  <2>2. <<p>> \o <<>> = <<p>>
    OBVIOUS
  <2> QED BY <1>3, <2>1, <2>2 DEF Spread, p, q
<1>6. Chained(chain)
  <2>1. CASE behind
    <3>1. /\ <<p, q>> \in Seq(Pieces) /\ Len(<<p, q>>) = 2 /\ <<p, q>>[1] = p /\ <<p, q>>[2] = q
          /\ \A i \in 1..2 : i = 1 \/ i = 2
      BY <1>4
    <3>2. chain \in Seq(Pieces) /\ Len(chain) = 2 /\ chain[1] = p /\ chain[2] = q
      BY <1>5, <2>1, <3>1
    <3>3. \A i \in 1..Len(chain) : InText(chain, i)
      BY <1>2, <1>4, <3>1, <3>2 DEF InText
    <3>4. \A i \in 1..(Len(chain) - 1) : chain[i + 1].start = EndOf(chain[i])
      <4>1. \A i \in 1..(Len(chain) - 1) : i = 1
        BY <3>2
      <4>2. chain[1 + 1].start = EndOf(chain[1])
        BY <1>4, <3>2
      <4> QED BY <4>1, <4>2
    <3> QED BY <1>4, <3>2, <3>3, <3>4 DEF Chained
  <2>2. CASE ~behind
    <3>1. <<p>> \in Seq(Pieces) /\ Len(<<p>>) = 1 /\ <<p>>[1] = p
          /\ \A i \in 1..1 : i = 1
      BY <1>4
    <3>2. chain \in Seq(Pieces) /\ Len(chain) = 1 /\ chain[1] = p
      BY <1>5, <2>2, <3>1
    <3>3. \A i \in 1..Len(chain) : InText(chain, i)
      BY <1>2, <1>4, <3>1, <3>2 DEF InText
    <3>4. 1..(Len(chain) - 1) = {}
      BY <3>2
    <3> QED BY <1>4, <3>2, <3>3, <3>4 DEF Chained
  <2> QED BY <2>1, <2>2
<1>7. here = 1 /\ n = 0 /\ stage = "insert" /\ s = <<>> /\ counter = 0 /\ matches = <<>> /\ walker = 0
  BY DEF Init
<1>8. Len(chain) \in Nat /\ <<>> \in Seq(Occurrences) /\ Len(<<>>) = 0 /\ <<>> \in States
  BY <1>1, <1>6, EmptySeq, LenProperties, RootFacts DEF Chained
<1>9. Positions
  BY <1>2, <1>7, <1>8 DEF Positions
<1> QED BY <1>1, <1>6, <1>9 DEF IInv

\* What stays the same when neither the dictionary nor the trie changes.
LEMMA Unchanged ==
    ASSUME Given, Stored, Linked, stage # "insert", stage' # "insert",
           UNCHANGED <<dict, text, options, trie, inserted>>
    PROVE  /\ Given' /\ Stored' /\ Linked' /\ States' = States /\ Occurrences' = Occurrences
           /\ \A nodes : Chained(nodes) => Chained(nodes)'
           /\ \A w, e : At(w, e) => At(w, e)'
           /\ \A a, e : Held(a, e)' = Held(a, e)
<1>1. Given' /\ States' = States
  BY DEF Given, States
<1>2. \A w : IsMatch(w)' = IsMatch(w)
  BY DEF IsMatch
<1>3. \A i, v : GivesType(i, v)' = GivesType(i, v)
  BY DEF GivesType
<1>4. Stored'
  BY <1>1, <1>2, <1>3 DEF Stored
<1>5. \A w : LastMatch(w)' = LastMatch(w)
  BY <1>2 DEF LastMatch
<1>6. \A w : Reach(w)' = Reach(w) /\ Link(w)' = Link(w)
  BY <1>5 DEF Reach, Link
<1>7. \A w : Best(w)' = Best(w)
  BY <1>1, <1>2, <1>6 DEF Best
<1>8. Linked'
  BY <1>1, <1>6, <1>7 DEF Linked
<1>9. Words' = Words /\ \A w : TypeOf(w)' = TypeOf(w)
  BY DEF Words, TypeOf
<1>10. \A i, k : Found(i, k)' = Found(i, k)
  BY DEF Found
<1>11. Occurrences' = Occurrences
  BY <1>9, <1>10 DEF Occurrences
<1>12. \A nodes : Chained(nodes) => Chained(nodes)'
  BY DEF Chained, InText
<1>13. \A w, e : At(w, e) => At(w, e)'
  BY DEF At
<1>14. \A a, e : Held(a, e)' = Held(a, e)
  BY <1>11 DEF Held
<1> QED BY <1>1, <1>4, <1>8, <1>11, <1>12, <1>13, <1>14

\* Inserting a term keeps the invariant.
LEMMA InsertKeeps == IInv /\ ac_insert => IInv'
<1> SUFFICES ASSUME IInv, ac_insert PROVE IInv'
  OBVIOUS
<1>1. Given /\ Stored /\ Linked /\ Chained(chain) /\ Positions
  BY DEF IInv
<1>2. Stored' /\ Linked'
  BY <1>1, InsertKeepsStored
<1>3. UNCHANGED <<dict, text, options, stage, chain, here, n, s, counter, matches, walker>> /\ stage = "insert"
  BY DEF ac_insert
<1>4. Given' /\ Chained(chain)'
  BY <1>1, <1>3 DEF Given, Chained, InText
<1>5. States \subseteq States'
  BY <1>1 DEF ac_insert, ac_insert_node, States
<1>6. matches = <<>> /\ <<>> \in Seq(Occurrences') /\ matches' = <<>>
  BY <1>1, <1>3, EmptySeq DEF Positions
<1>7. Positions'
  BY <1>1, <1>3, <1>5, <1>6 DEF Positions
<1> QED BY <1>2, <1>4, <1>7 DEF IInv

\* Preparing the trie keeps the invariant.
LEMMA PrepareKeeps == IInv /\ ac_prepare => IInv'
<1> SUFFICES ASSUME IInv, ac_prepare PROVE IInv'
  OBVIOUS
<1>1. Given /\ Stored /\ Linked /\ Chained(chain) /\ Positions
  BY DEF IInv
<1>2. Stored' /\ Linked'
  BY <1>1, PrepareKeepsStored
<1>3. UNCHANGED <<dict, text, options, inserted, chain, here, n, s, counter, matches, walker>>
      /\ stage = "insert" /\ stage' = "visit"
  BY DEF ac_prepare
<1>4. Given' /\ Chained(chain)'
  BY <1>1, <1>3 DEF Given, Chained, InText
<1>5. States' = States
  BY DEF ac_prepare, States
<1>6. matches = <<>> /\ <<>> \in Seq(Occurrences') /\ matches' = <<>>
  BY <1>1, <1>3, EmptySeq DEF Positions
<1>7. Positions'
  BY <1>1, <1>3, <1>5, <1>6 DEF Positions
<1> QED BY <1>2, <1>4, <1>7 DEF IInv

\* Reading one character keeps the invariant.
LEMMA SearchKeeps == IInv /\ ac_search => IInv'
<1> SUFFICES ASSUME IInv, ac_search PROVE IInv'
  OBVIOUS
<1>1. Given /\ Stored /\ Linked /\ Chained(chain) /\ Positions
  BY DEF IInv
<1>2. UNCHANGED <<dict, text, options, trie, inserted, stage, chain, here, n, walker>>
      /\ stage = "search" /\ counter < Stop /\ stage # "insert" /\ stage' # "insert"
  BY DEF ac_search
<1>3. Searching
  BY <1>1, <1>2 DEF Positions
<1> DEFINE a == chain[here].start
<1>4. here \in 1..Len(chain) /\ counter \in 0..Len(text) /\ Len(text) \in Nat
  BY <1>1, <1>3, GivenFacts, LenProperties DEF Positions, Searching, Chained
<1>5. a \in Nat /\ EndOf(chain[here]) <= Len(text) /\ EndOf(chain[here]) \in Nat
  <2>1. InText(chain, here)
    BY <1>1, <1>4 DEF Chained
  <2>2. chain[here].start \in Nat /\ chain[here].len \in Nat /\ EndOf(chain[here]) = chain[here].start + chain[here].len
    BY <1>1, <1>4, PieceFacts
  <2> QED BY <1>3, <2>1, <2>2 DEF InText, Searching
<1>6. counter < EndOf(chain[here]) /\ counter \in Nat /\ counter + 1 \in 0..Len(text)
      /\ counter + 1 <= EndOf(chain[here])
  BY <1>2, <1>3, <1>4, <1>5 DEF Stop, Searching
<1>7. Reading(a)
  BY <1>1, <1>2, <1>3, <1>4, <1>5, <1>6 DEF Reading, Searching, Positions
<1> HIDE DEF a
<1>8. /\ s' = NextState(s, Char) /\ counter' = counter + 1
      /\ matches' \in Seq(Held(a, counter + 1))
  BY <1>1, <1>7, ReadStep
<1>9. /\ NextState(s, Char) \in States /\ At(NextState(s, Char), counter + 1)
      /\ a + Len(NextState(s, Char)) <= counter + 1
  BY <1>1, <1>7, NextStateFacts
<1>10. /\ Given' /\ Stored' /\ Linked' /\ States' = States /\ Occurrences' = Occurrences
       /\ \A e : Held(a, e)' = Held(a, e)
       /\ a' = a
  BY <1>1, <1>2, Unchanged DEF a
<1>11. Chained(chain)'
  BY <1>1, <1>2 DEF Chained, InText
<1>12. matches' \in Seq(Occurrences')
  <2>1. Held(a, counter + 1) \subseteq Occurrences
    BY DEF Held
  <2> QED BY <1>8, <1>10, <2>1, SeqMonotonic
<1>13. At(s, counter)'
  <2>1. At(s', counter')
    BY <1>8, <1>9
  <2>2. \A v, e : At(v, e) => At(v, e)'
    BY <1>1, <1>2, Unchanged
  <2> QED BY <2>1, <2>2
<1>14. Held(chain[here].start, counter)' = Held(a, counter + 1)
  BY <1>2, <1>8, <1>10 DEF Held, a
<1>15. Searching'
  BY <1>2, <1>3, <1>6, <1>8, <1>9, <1>13, <1>14 DEF Searching, a, EndOf
<1>16. walker' \in 0..(Len(matches') + 1)
  BY <1>2, <1>3, <1>12, LenProperties DEF Searching
<1>17. Positions'
  BY <1>1, <1>2, <1>6, <1>8, <1>9, <1>10, <1>12, <1>15, <1>16 DEF Positions
<1> QED BY <1>10, <1>11, <1>17 DEF IInv

\* Coming to a text node keeps the invariant.
LEMMA VisitKeeps == IInv /\ Visit => IInv'
<1> SUFFICES ASSUME IInv, Visit PROVE IInv'
  OBVIOUS
<1>1. Given /\ Stored /\ Linked /\ Chained(chain) /\ Positions
  BY DEF IInv
<1>2. UNCHANGED <<dict, text, options, trie, inserted, chain, here>>
      /\ stage = "visit" /\ stage' = "search" /\ here <= Len(chain) /\ chain[here].type = "text"
      /\ n' = here /\ s' = <<>> /\ counter' = chain[here].start /\ matches' = <<>> /\ walker' = 1
  BY DEF Visit
<1>3. /\ Given' /\ Stored' /\ Linked' /\ States' = States /\ Occurrences' = Occurrences
      /\ Chained(chain)'
  <2>1. stage # "insert" /\ stage' # "insert"
    BY <1>2
  <2>2. Chained(chain)'
    BY <1>1, <1>2 DEF Chained, InText
  <2> QED BY <1>1, <1>2, <2>1, <2>2, Unchanged
<1>4. here \in 1..Len(chain) /\ Len(text) \in Nat /\ text \in Seq(Chars)
  BY <1>1, <1>2, GivenFacts, LenProperties DEF Positions, Chained
<1>5. chain[here].start \in 0..Len(text) /\ chain[here].start <= EndOf(chain[here])
      /\ EndOf(chain[here]) = EndOf(chain[here])'
  <2>1. InText(chain, here) /\ chain[here].start \in Nat /\ chain[here].len \in Nat
        /\ EndOf(chain[here]) = chain[here].start + chain[here].len
    BY <1>1, <1>4, PieceFacts DEF Chained
  <2>2. EndOf(chain[here]) <= Len(text)
    BY <1>2, <2>1 DEF InText
  <2> QED BY <1>2, <1>4, <2>1, <2>2 DEF EndOf
<1>6. <<>> \in States /\ Len(<<>>) = 0 /\ <<>> \in Seq(Chars)
  BY <1>1, RootFacts
<1>7. \A X : <<>> \in Seq(X)
  BY EmptySeq
<1>8. At(<<>>, chain[here].start)
  BY <1>4, <1>5, <1>6, ReadFacts
<1>9. At(s, counter)'
  <2>1. PICK c : c = chain[here].start
    OBVIOUS
  <2>2. At(<<>>, c)
    BY <1>8, <2>1
  <2>3. At(<<>>, c)'
    BY <1>2, <2>2 DEF At
  <2> QED BY <1>2, <2>1, <2>3
<1>10. Searching'
  <2>1. matches' \in Seq(Held(chain[here].start, counter)')
    BY <1>2, <1>7
  <2>2. chain[here].start + 0 <= chain[here].start
    BY <1>5
  <2> QED BY <1>2, <1>4, <1>5, <1>6, <1>9, <2>1, <2>2 DEF Searching
<1>11. Positions'
  <2>1. matches' \in Seq(Occurrences)' /\ walker' \in 0..(Len(matches') + 1)
    BY <1>2, <1>6, <1>7
  <2>2. here \in 0..(Len(chain) + 1) /\ Len(chain) \in Nat
    BY <1>1, <1>4, LenProperties DEF Chained
  <2> QED BY <1>1, <1>2, <1>3, <1>5, <1>6, <1>10, <2>1, <2>2 DEF Positions
<1> QED BY <1>3, <1>11 DEF IInv

\* The steps that leave the nodes alone and go from one of them to another.
LEMMA WalkKeeps == IInv /\ (PassOver \/ SearchEnd \/ SkipMatch \/ SplitEnd \/ Finish) => IInv'
<1> SUFFICES ASSUME IInv, PassOver \/ SearchEnd \/ SkipMatch \/ SplitEnd \/ Finish PROVE IInv'
  OBVIOUS
<1>1. Given /\ Stored /\ Linked /\ Chained(chain) /\ Positions
  BY DEF IInv
<1>2. UNCHANGED <<dict, text, options, trie, inserted, chain, n, s, counter, matches>>
      /\ stage # "insert" /\ stage' # "insert" /\ stage' # "search"
  BY DEF PassOver, SearchEnd, SkipMatch, SplitEnd, Finish
<1>3. /\ Given' /\ Stored' /\ Linked' /\ States' = States /\ Occurrences' = Occurrences
      /\ Chained(chain)'
  <2>1. Chained(chain)'
    BY <1>1, <1>2 DEF Chained, InText
  <2> QED BY <1>1, <1>2, <2>1, Unchanged
<1>4. Len(chain) \in Nat /\ Len(matches) \in Nat /\ here \in Nat /\ walker \in Nat
  BY <1>1, LenProperties DEF Chained, Positions
<1>5. here' \in 1..(Len(chain) + 1) /\ walker' \in 0..(Len(matches) + 1)
      /\ stage' \in {"visit", "split", "done"}
  <2>1. CASE PassOver
    BY <1>1, <1>4, <2>1 DEF PassOver, NextNode, After, Positions
  <2>2. CASE SearchEnd
    BY <1>1, <1>4, <2>2 DEF SearchEnd, Positions
  <2>3. CASE SkipMatch
    BY <1>1, <1>4, <2>3 DEF SkipMatch, Positions
  <2>4. CASE SplitEnd
    <3>1. here <= Len(chain)
      BY <1>1, <2>4 DEF SplitEnd, Positions, Splitting
    <3> QED BY <1>1, <1>4, <2>4, <3>1 DEF SplitEnd, NextNode, After, Positions
  <2>5. CASE Finish
    BY <1>1, <1>4, <2>5 DEF Finish, Positions
  <2> QED BY <2>1, <2>2, <2>3, <2>4, <2>5
<1>6. stage' = "split" => Splitting'
  <2>1. CASE SearchEnd
    <3>1. Searching /\ UNCHANGED <<here, walker>>
      BY <1>1, <2>1 DEF SearchEnd, Positions
    <3>2. stage' = "split" => options = "longest"
      BY <2>1 DEF SearchEnd
    <3> QED BY <1>1, <1>2, <3>1, <3>2 DEF Splitting, Searching, Positions
  <2>2. CASE SkipMatch
    <3>1. Splitting /\ walker <= Len(matches) /\ walker' = walker + 1 /\ here' = here
      BY <1>1, <2>2 DEF SkipMatch, Positions
    <3> QED BY <1>2, <1>4, <3>1 DEF Splitting
  <2>3. CASE ~(SearchEnd \/ SkipMatch)
    BY <2>3 DEF PassOver, SplitEnd, Finish
  <2> QED BY <2>1, <2>2, <2>3
<1>7. Positions'
  BY <1>1, <1>2, <1>3, <1>5, <1>6 DEF Positions
<1> QED BY <1>3, <1>7 DEF IInv

\* The two splits of a match: before it and behind it.
Mid == mmd_node_split(chain, n, Current.start - chain[n].start)
Cut == mmd_node_split(Mid, n + 1, Current.len)

\* The two splits that one match makes, and where they are.
LEMMA CutFacts ==
    ASSUME IInv, SplitMatch
    PROVE  /\ n \in 1..Len(chain) /\ Chained(Mid) /\ Chained(Cut)
           /\ Len(chain) \in Nat /\ Len(Mid) \in Nat /\ Len(Cut) \in Nat
           /\ Len(chain) <= Len(Mid) /\ Len(Mid) <= Len(Cut)
           /\ walker \in 1..Len(matches) /\ Current \in Occurrences
           /\ Current.start - chain[n].start \in Int /\ Current.len \in Nat /\ Current.type \in Types
<1>1. Given /\ Stored /\ Linked /\ Chained(chain) /\ Positions
  BY DEF IInv
<1>2. stage = "split" /\ walker <= Len(matches) /\ stage # "insert"
  BY DEF SplitMatch
<1>3. Splitting
  BY <1>1, <1>2 DEF Positions
<1>4. Len(chain) \in Nat /\ Len(matches) \in Nat /\ matches \in Seq(Occurrences)
  BY <1>1, LenProperties DEF Chained, Positions
<1>5. n \in 1..Len(chain) /\ walker \in 1..Len(matches)
  BY <1>1, <1>2, <1>3, <1>4 DEF Positions, Splitting
<1>6. Current \in Occurrences
  BY <1>4, <1>5, ElementOfSeq DEF Current
<1>7. Current \in Piece(Types) /\ Current.start \in Nat /\ Current.len \in Nat
  BY <1>1, <1>2, <1>6, OccurrenceIsMatch
<1>8. Current.start - chain[n].start \in Int /\ Current.type \in Types
  <2>1. chain[n].start \in Nat
    BY <1>1, <1>5, PieceFacts
  <2> QED BY <1>7, <2>1 DEF Piece
<1> DEFINE offset == Current.start - chain[n].start
<1>9. offset \in Int
  BY <1>8
<1> HIDE DEF offset
<1>10. n \in Nat \ {0} /\ n + 1 \in Nat \ {0} /\ Current.len \in Int
  BY <1>4, <1>5, <1>7
<1>11. Mid = mmd_node_split(chain, n, offset)
  BY DEF Mid, offset
<1>12. Chained(Mid) /\ (Mid = chain \/ SplitAt(chain, Mid, n, offset))
  BY <1>1, <1>9, <1>10, <1>11, SplitFacts
<1>13. Chained(Cut) /\ (Cut = Mid \/ SplitAt(Mid, Cut, n + 1, Current.len))
  BY <1>1, <1>10, <1>12, SplitFacts DEF Cut
<1>14. Len(Mid) \in Nat /\ Len(Cut) \in Nat
  BY <1>12, <1>13, LenProperties DEF Chained
<1>15. Len(chain) <= Len(Mid)
  BY <1>4, <1>12, <1>14 DEF SplitAt
<1>16. Len(Mid) <= Len(Cut)
  BY <1>13, <1>14 DEF SplitAt
<1> QED BY <1>4, <1>5, <1>6, <1>7, <1>8, <1>12, <1>13, <1>14, <1>15, <1>16

\* Splitting at a match keeps the invariant.
LEMMA SplitKeeps == IInv /\ SplitMatch => IInv'
<1> SUFFICES ASSUME IInv, SplitMatch PROVE IInv'
  OBVIOUS
<1>1. Given /\ Stored /\ Linked /\ Chained(chain) /\ Positions
  BY DEF IInv
<1>2. /\ UNCHANGED <<dict, text, options, trie, inserted, here, s, counter, matches>>
      /\ walker' = walker + 1 /\ stage = "split" /\ stage # "insert" /\ walker <= Len(matches)
  BY DEF SplitMatch
<1>3. IF n + 1 > Len(Cut)
      THEN stage' = "crashed" /\ chain' = Cut /\ n' = n
      ELSE /\ chain' = Retyped(Cut, n + 1, Current.type)
           /\ n' = n + 2
           /\ stage' = IF n + 2 > Len(Cut) /\ walker < Len(matches) THEN "crashed" ELSE stage
  BY DEF SplitMatch, Mid, Cut, Retyped
<1>4. /\ n \in 1..Len(chain) /\ Chained(Cut)
      /\ Len(chain) \in Nat /\ Len(Cut) \in Nat /\ Len(chain) <= Len(Cut)
      /\ walker \in 1..Len(matches) /\ Current.type \in Types
  <2>1. Len(Mid) \in Nat /\ Len(chain) <= Len(Mid) /\ Len(Mid) <= Len(Cut) /\ Len(chain) \in Nat /\ Len(Cut) \in Nat
    BY CutFacts
  <2> QED BY <2>1, CutFacts
<1>5. Splitting
  BY <1>1, <1>2 DEF Positions
<1>6. stage' # "insert" /\ stage' # "search" /\ stage' \in {"split", "crashed"}
  BY <1>2, <1>3
<1>7. /\ Given' /\ Stored' /\ Linked' /\ States' = States /\ Occurrences' = Occurrences
      /\ \A nodes : Chained(nodes) => Chained(nodes)'
  BY <1>1, <1>2, <1>6, Unchanged
<1>8. Len(matches) \in Nat /\ walker' \in 0..(Len(matches) + 1) /\ here \in Nat /\ here >= 1
  BY <1>1, <1>2, <1>4, LenProperties DEF Positions
<1>9. /\ \E nodes : Chained(nodes) /\ chain' = nodes
      /\ Len(chain') \in Nat /\ Len(chain) <= Len(chain')
      /\ n' \in 0..(Len(chain') + 1) /\ n' >= 1
      /\ stage' = "split" /\ walker' <= Len(matches) => n' <= Len(chain')
  <2>1. CASE n + 1 > Len(Cut)
    BY <1>3, <1>4, <2>1
  <2>2. CASE ~(n + 1 > Len(Cut))
    <3>1. n + 1 \in 1..Len(Cut)
      BY <1>4, <2>2
    <3>2. /\ Chained(Retyped(Cut, n + 1, Current.type))
          /\ Len(Retyped(Cut, n + 1, Current.type)) = Len(Cut)
      BY <1>4, <3>1, RetypeFacts
    <3>3. chain' = Retyped(Cut, n + 1, Current.type) /\ n' = n + 2
          /\ stage' = IF n + 2 > Len(Cut) /\ walker < Len(matches) THEN "crashed" ELSE stage
      BY <1>3, <2>2
    <3>4. Chained(chain') /\ Len(chain') = Len(Cut)
      BY <3>2, <3>3
    <3>5. \E nodes : Chained(nodes) /\ chain' = nodes
      BY <3>4
    <3>6. /\ Len(chain') \in Nat /\ Len(chain) <= Len(chain')
          /\ n' \in 0..(Len(chain') + 1) /\ n' >= 1
      BY <1>4, <3>1, <3>3, <3>4
    <3>7. stage' = "split" /\ walker' <= Len(matches) => n' <= Len(chain')
      <4>1. SUFFICES ASSUME stage' = "split", walker' <= Len(matches) PROVE n' <= Len(chain')
        OBVIOUS
      <4>2. walker < Len(matches) /\ n + 2 \in Nat
        BY <1>2, <1>4, <1>8, <4>1
      <4>3. ~(n + 2 > Len(Cut))
        BY <3>3, <4>1, <4>2
      <4> QED BY <1>4, <3>3, <3>4, <4>2, <4>3
    <3> QED BY <3>5, <3>6, <3>7
  <2> QED BY <2>1, <2>2
<1>10. Chained(chain)'
  <2>1. PICK nodes : Chained(nodes) /\ chain' = nodes
    BY <1>9
  <2>2. Chained(nodes)'
    BY <1>7, <2>1
  <2> QED BY <2>1, <2>2 DEF Chained, InText
<1>11. stage' = "split" => Splitting'
  <2>1. here <= Len(chain) /\ walker >= 1 /\ options = "longest"
    BY <1>5 DEF Splitting
  <2>2. here' <= Len(chain') /\ walker' >= 1 /\ n' >= 1 /\ options' = "longest"
    BY <1>2, <1>4, <1>8, <1>9, <2>1
  <2> QED BY <1>2, <1>9, <2>2 DEF Splitting
<1>12. Positions'
  <2>1. here' \in 1..(Len(chain') + 1) /\ n' \in 0..(Len(chain') + 1)
    BY <1>2, <1>4, <1>5, <1>8, <1>9 DEF Splitting
  <2> QED BY <1>1, <1>2, <1>6, <1>7, <1>8, <1>11, <2>1 DEF Positions
<1> QED BY <1>7, <1>10, <1>12 DEF IInv

\* A step that changes nothing keeps the invariant.
LEMMA StutterKeeps == IInv /\ UNCHANGED vars => IInv'
<1> SUFFICES ASSUME IInv, UNCHANGED vars PROVE IInv'
  OBVIOUS
<1>1. UNCHANGED <<dict, text, options, trie, inserted, stage, chain, here, n, s, counter, matches, walker>>
  BY DEF vars
<1>2. Given /\ Stored /\ Linked /\ Chained(chain) /\ Positions
  BY DEF IInv
<1>3. Given' /\ Chained(chain)'
  BY <1>1, <1>2 DEF Given, Chained, InText
<1>4. States' = States /\ \A w : IsMatch(w)' = IsMatch(w)
  BY <1>1 DEF States, IsMatch
<1>5. \A i, v : GivesType(i, v)' = GivesType(i, v)
  BY <1>1 DEF GivesType
<1>6. Stored'
  BY <1>1, <1>2, <1>4, <1>5 DEF Stored
<1>7. \A w : LastMatch(w)' = LastMatch(w)
  BY <1>4 DEF LastMatch
<1>8. \A w : Reach(w)' = Reach(w) /\ Link(w)' = Link(w)
  BY <1>1, <1>7 DEF Reach, Link
<1>9. \A w : Best(w)' = Best(w)
  BY <1>1, <1>4, <1>8 DEF Best
<1>10. Linked'
  BY <1>1, <1>2, <1>4, <1>8, <1>9 DEF Linked
<1>11. Words' = Words /\ (\A w : TypeOf(w)' = TypeOf(w)) /\ \A i, k : Found(i, k)' = Found(i, k)
  BY <1>1 DEF Words, TypeOf, Found
<1>12. Occurrences' = Occurrences
  BY <1>1, <1>11 DEF Occurrences
<1>13. \A a, e : Held(a, e)' = Held(a, e)
  BY <1>1, <1>12 DEF Held
<1>14. (Searching' <=> Searching) /\ (Splitting' <=> Splitting)
  BY <1>1, <1>12 DEF Searching, Splitting, At, Held, EndOf
<1>15. Positions'
  BY <1>1, <1>2, <1>4, <1>12, <1>14 DEF Positions
<1> QED BY <1>3, <1>6, <1>10, <1>15 DEF IInv

\* Every state of the search satisfies the invariant: the trie holds exactly
\* the beginnings of the terms inserted so far, each failure link is a proper
\* end of its state, the state is what was just read of the text, the matches
\* are occurrences of terms, and the chain of nodes covers the text (ac_insert,
\* ac_prepare, ac_search, search_text).
THEOREM Invariance == Spec => []IInv
<1>1. Init => IInv
  BY InitEstablishesInvariant
<1>2. IInv /\ [Next]_vars => IInv'
  BY InsertKeeps, PrepareKeeps, VisitKeeps, SearchKeeps, WalkKeeps, SplitKeeps, StutterKeeps DEF Next
<1> QED BY <1>1, <1>2, PTL DEF Spec

\* The inductive invariant contains the types of the variables.
LEMMA InvariantHasTypes == IInv => TypeOK
<1> SUFFICES ASSUME IInv PROVE TypeOK
  OBVIOUS
<1>1. Given /\ Stored /\ Linked /\ Chained(chain) /\ Positions
  BY DEF IInv
<1>2. \A w \in States : /\ trie[w].type \in Types \cup {"none"}
                        /\ trie[w].ac_fail \in States
                        /\ Len(trie[w].ac_fail) < Len(w) \/ w = <<>>
  BY <1>1, RootFacts DEF Linked, Link
<1>3. \A i \in DOMAIN chain : chain[i] \in Piece(Types \cup {"text", "other"})
  <2>1. chain \in Seq(Pieces) /\ DOMAIN chain = 1..Len(chain)
    BY <1>1, LenProperties DEF Chained
  <2> QED BY <2>1, ElementOfSeq DEF Pieces
<1>4. \A i \in DOMAIN matches : matches[i] \in Piece(Types)
  <2>1. matches \in Seq(Occurrences) /\ DOMAIN matches = 1..Len(matches) /\ Len(matches) \in Nat
    BY <1>1, LenProperties DEF Positions
  <2>2. CASE stage = "insert"
    BY <1>1, <2>1, <2>2, RootFacts DEF Positions
  <2>3. CASE stage # "insert"
    <3> SUFFICES ASSUME NEW i \in 1..Len(matches) PROVE matches[i] \in Piece(Types)
      BY <2>1
    <3>1. matches[i] \in Occurrences
      BY <2>1, ElementOfSeq
    <3> QED BY <1>1, <2>3, <3>1, OccurrenceIsMatch
  <2> QED BY <2>2, <2>3
<1>5. /\ inserted \in 0..Len(dict)
      /\ stage \in {"insert", "visit", "search", "split", "done", "crashed"}
      /\ here \in 1..(Len(chain) + 1) /\ n \in 0..(Len(chain) + 1)
      /\ s \in States /\ counter \in 0..Len(text) /\ walker \in 0..(Len(matches) + 1)
  BY <1>1 DEF Stored, Positions
<1> QED BY <1>2, <1>3, <1>4, <1>5 DEF TypeOK

\* The variables always have their types: in particular ac_search never leaves
\* the text it is given, failure links always lead to a shorter state, and a
\* split never has a length below 0 (TypeOK).
THEOREM Typing == Spec => []TypeOK
BY Invariance, InvariantHasTypes, PTL

\* All matches: each is appended.
LEMMA AddsAll ==
    ASSUME options = "all", NEW V, NEW list \in Seq(V), NEW found \in Seq(V),
           NEW out \in [0..Len(found) -> Seq(V)], Adds(out, list, found)
    PROVE  /\ Len(out[Len(found)]) = Len(list) + Len(found)
           /\ \A i \in 1..(Len(list) + Len(found)) :
                  out[Len(found)][i] = IF i <= Len(list) THEN list[i] ELSE found[i - Len(list)]
<1> DEFINE Good(k) == /\ Len(out[k]) = Len(list) + k
                      /\ \A i \in 1..(Len(list) + k) :
                             out[k][i] = IF i <= Len(list) THEN list[i] ELSE found[i - Len(list)]
<1>1. Len(list) \in Nat /\ Len(found) \in Nat
  BY LenProperties
<1>2. Good(0)
  <2>1. out[0] = list
    BY <1>1 DEF Adds
  <2> QED BY <1>1, <2>1
<1>3. ASSUME NEW k \in 1..Len(found), Good(k - 1) PROVE Good(k)
  <2>1. k \in 0..Len(found) /\ k - 1 \in 0..Len(found) /\ k # 0 /\ k \in Nat
    BY <1>1
  <2>2. out[k] = match_append(out[k - 1], found[k])
    BY <2>1 DEF Adds
  <2>3. found[k] \in V /\ out[k - 1] \in Seq(V)
    BY <2>1, ElementOfSeq
  <2>4. out[k] = Append(out[k - 1], found[k])
    BY <2>2 DEF match_append
  <2> DEFINE old == out[k - 1]
  <2>5. /\ Len(Append(old, found[k])) = Len(old) + 1
        /\ \A i \in 1..Len(old) : Append(old, found[k])[i] = old[i]
        /\ Append(old, found[k])[Len(old) + 1] = found[k]
    BY <2>3, AppendProperties
  <2>6. Len(old) = Len(list) + (k - 1)
    BY <1>3
  <2>7. Len(out[k]) = Len(list) + k
    BY <1>1, <2>1, <2>4, <2>5, <2>6
  <2>8. ASSUME NEW i \in 1..(Len(list) + k)
        PROVE  out[k][i] = IF i <= Len(list) THEN list[i] ELSE found[i - Len(list)]
    <3>1. CASE i = Len(list) + k
      <4>1. out[k][i] = found[k] /\ i - Len(list) = k /\ ~(i <= Len(list))
        BY <1>1, <2>1, <2>4, <2>5, <2>6, <3>1
      <4> QED BY <4>1
    <3>2. CASE i # Len(list) + k
      <4>1. i \in 1..(Len(list) + (k - 1)) /\ i \in 1..Len(old)
        BY <1>1, <2>1, <2>6, <3>2
      <4>2. out[k][i] = old[i]
        BY <2>4, <2>5, <4>1
      <4> QED BY <1>3, <4>1, <4>2
    <3> QED BY <3>1, <3>2
  <2> QED BY <2>7, <2>8
<1> HIDE DEF Good
<1>4. \A k \in 0..Len(found) : Good(k)
  <2> DEFINE Bad == {k \in 0..Len(found) : ~Good(k)}
  <2>1. SUFFICES ASSUME Bad # {} PROVE FALSE
    OBVIOUS
  <2>2. Bad \subseteq Nat
    OBVIOUS
  <2>3. \A x \in Bad : x \in 0..Len(found) /\ ~Good(x)
    OBVIOUS
  <2>4. \A x \in 0..Len(found) : ~Good(x) => x \in Bad
    OBVIOUS
  <2> HIDE DEF Bad
  <2>5. PICK k \in Bad : \A y \in Bad : k <= y
    BY <2>1, <2>2, LeastNumber
  <2>6. k \in 0..Len(found) /\ k # 0
    BY <1>2, <2>3
  <2>7. k \in 1..Len(found) /\ k - 1 \in 0..Len(found) /\ ~(k <= k - 1)
    BY <1>1, <2>6
  <2>8. Good(k - 1)
    BY <2>4, <2>5, <2>7
  <2> QED BY <1>3, <2>3, <2>7, <2>8
<1>5. Len(found) \in 0..Len(found)
  BY <1>1
<1>6. Good(Len(found))
  BY <1>4, <1>5
<1> QED BY <1>6 DEF Good

-----------------------------------------------------------------------------
(* The search for all matches: one text, no splits.                        *)

\* The state is the longest one that ends where the search has read to, and
\* every occurrence up to there is listed.
Longest == \A v \in States : At(v, counter) => Len(v) <= Len(s)
Listed == \A m \in Occurrences : EndOf(m) <= counter => \E i \in 1..Len(matches) : matches[i] = m
Sorted == \A i, j \in 1..Len(matches) : i < j => Before(matches[i], matches[j])

AllRead ==
    options = "all" =>
        /\ here = 1 /\ chain[1].type = "text" /\ EndOf(chain[1]) = Len(text)
        /\ stage \in {"insert", "visit", "search", "done"}
        /\ stage \in {"search", "done"} => Longest /\ Listed /\ Sorted
        /\ stage = "done" => counter = Len(text)

\* When all matches are wanted, no end of a state that is a state is skipped.
LEMMA AllStatesClosed ==
    ASSUME Given, Stored, Linked, options = "all", stage # "insert"
    PROVE  Closed(States)
<1> SUFFICES ASSUME NEW w \in States, w # <<>>
             PROVE  /\ Link(w) \in States
                    /\ \A v \in States : Ends(v, w) /\ Len(v) < Len(w) => Len(v) <= Len(Link(w))
  BY DEF Closed
<1>1. Link(w) \in States /\ Len(w) \in Nat /\ \A v \in States : Len(v) \in Nat
  BY RootFacts DEF Link
<1>2. Best(w)
  BY DEF Linked
<1>3. Reach(w) = Len(w) - 1
  BY <1>1 DEF Reach
<1>4. ASSUME NEW v \in States, Ends(v, w), Len(v) < Len(w) PROVE Len(v) <= Len(Link(w))
  <2>1. Len(v) <= Reach(w)
    BY <1>1, <1>3, <1>4
  <2> QED BY <1>2, <1>4, <2>1 DEF Best
<1> QED BY <1>1, <1>4

\* Where no link is cut short, the state after a character is the longest one.
LEMMA ReadsLongest ==
    ASSUME Given, Stored, Linked, NEW a, Reading(a), Longest, NEW G, Closed(G), s \in G,
           NEW v \in States, At(v, counter + 1)
    PROVE  Len(v) <= Len(NextState(s, Char)) /\ Ends(v, NextState(s, Char))
<1>1. /\ text \in Seq(Chars) /\ Len(text) \in Nat /\ counter \in Nat /\ counter < Len(text)
      /\ counter \in 0..Len(text) /\ counter + 1 \in 0..Len(text)
      /\ s \in States /\ s \in Seq(Chars) /\ At(s, counter)
      /\ v \in Seq(Chars) /\ Len(v) \in Nat /\ Len(<<>>) = 0 /\ <<>> \in Seq(Chars)
  BY GivenFacts, RootFacts DEF Reading
<1>2. /\ From \in States /\ NextState(s, Char) \in States
      /\ Append(From, Char) \in States => Len(NextState(s, Char)) = Len(From) + 1
      /\ Append(From, Char) \notin States => From = <<>>
      /\ At(NextState(s, Char), counter + 1)
      /\ \A u \in States : Ends(u, s) /\ Append(u, Char) \in States => Len(u) <= Len(From)
  BY NextStateFacts
<1>3. Len(From) \in Nat /\ Len(NextState(s, Char)) \in Nat /\ NextState(s, Char) \in Seq(Chars)
      /\ From \in Seq(Chars)
  BY <1>2, RootFacts
<1>4. Len(v) <= Len(NextState(s, Char))
  <2>1. CASE v = <<>>
    BY <1>1, <1>3, <2>1
  <2>2. CASE v # <<>>
    <3> DEFINE u == Prefix(v, Len(v) - 1)
    <3>1. u \in Seq(Chars) /\ Len(u) = Len(v) - 1 /\ At(u, counter) /\ v = Append(u, Char)
      BY <1>1, <2>2, ReadOneMore DEF Char
    <3>2. Len(v) > 0
      BY <2>2, RootFacts
    <3>3. Len(v) - 1 \in 0..Len(v)
      BY <1>1, <3>2
    <3>4. u \in States
      BY <3>3 DEF Stored
    <3> HIDE DEF u
    <3>5. Len(u) <= Len(s)
      BY <3>1, <3>4 DEF Longest
    <3>6. Ends(u, s)
      BY <1>1, <3>1, <3>5, ReadFacts
    <3>7. Len(u) <= Len(From)
      BY <1>2, <3>1, <3>4, <3>6
    <3>8. CASE Append(From, Char) \in States
      BY <1>1, <1>2, <1>3, <3>1, <3>7, <3>8
    <3>9. CASE Append(From, Char) \notin States
      <4>1. From = <<>> /\ Len(u) = 0
        BY <1>1, <1>2, <3>1, <3>2, <3>7, <3>9
      <4>2. u = <<>>
        BY <3>1, <4>1, EmptySeq
      <4> QED BY <3>1, <3>9, <4>1, <4>2
    <3> QED BY <3>8, <3>9
  <2> QED BY <2>1, <2>2
<1>5. Ends(v, NextState(s, Char))
  BY <1>1, <1>2, <1>3, <1>4, ReadFacts
<1> QED BY <1>4, <1>5

\* What the first node tells of the search while it is the only one searched.
LEMMA FirstReading ==
    ASSUME IInv, ac_search
    PROVE  /\ Reading(chain[here].start)
           /\ stage = "search" /\ stage # "insert" /\ Given /\ Stored /\ Linked /\ Chained(chain) /\ Searching
           /\ here \in 1..Len(chain) /\ n = here
           /\ counter \in Nat /\ counter + 1 <= EndOf(chain[here]) /\ counter + 1 \in 0..Len(text)
           /\ chain[here].start \in Nat
<1>1. Given /\ Stored /\ Linked /\ Chained(chain) /\ Positions
  BY DEF IInv
<1>2. stage = "search" /\ counter < Stop /\ stage # "insert"
  BY DEF ac_search
<1>3. Searching
  BY <1>1, <1>2 DEF Positions
<1>4. here \in 1..Len(chain) /\ counter \in 0..Len(text) /\ Len(text) \in Nat
  BY <1>1, <1>3, GivenFacts, LenProperties DEF Positions, Searching, Chained
<1>5. chain[here].start \in Nat /\ EndOf(chain[here]) <= Len(text) /\ EndOf(chain[here]) \in Nat
  <2>1. InText(chain, here)
    BY <1>1, <1>4 DEF Chained
  <2>2. chain[here].start \in Nat /\ chain[here].len \in Nat /\ EndOf(chain[here]) = chain[here].start + chain[here].len
    BY <1>1, <1>4, PieceFacts
  <2> QED BY <1>3, <2>1, <2>2 DEF InText, Searching
<1>6. counter < EndOf(chain[here]) /\ counter \in Nat /\ counter + 1 \in 0..Len(text)
      /\ counter + 1 <= EndOf(chain[here])
  BY <1>2, <1>3, <1>4, <1>5 DEF Stop, Searching
<1>7. Reading(chain[here].start)
  BY <1>1, <1>2, <1>3, <1>4, <1>5, <1>6 DEF Reading, Searching, Positions
<1> QED BY <1>1, <1>2, <1>3, <1>4, <1>5, <1>6, <1>7 DEF Searching

\* One more character: what ends there is appended, the longest first.
LEMMA AllListsStep ==
    ASSUME IInv, ac_search, options = "all", Longest, Listed, Sorted
    PROVE  /\ \A v \in States : At(v, counter + 1) => Len(v) <= Len(s')
           /\ \A m \in Occurrences : EndOf(m) <= counter + 1 => \E i \in 1..Len(matches') : matches'[i] = m
           /\ \A i, j \in 1..Len(matches') : i < j => Before(matches'[i], matches'[j])
<1> DEFINE a == chain[here].start
           w == NextState(s, Char)
           e == counter + 1
           V == Held(a, e)
<1>1. /\ Reading(a) /\ Given /\ Stored /\ Linked /\ stage # "insert"
      /\ counter \in Nat /\ counter + 1 \in 0..Len(text) /\ Len(text) \in Nat /\ text \in Seq(Chars)
  BY FirstReading, GivenFacts
<1>2. Closed(States) /\ s \in States
  BY <1>1, AllStatesClosed DEF Reading
<1>3. s' = w
  BY <1>1, ReadStep
<1>4. \A v \in States : At(v, e) => Len(v) <= Len(w) /\ Ends(v, w)
  BY <1>1, <1>2, ReadsLongest
<1>5. PICK out \in [0..Len(Ended) -> Seq(V)] : Adds(out, matches, Ended) /\ matches' = out[Len(Ended)]
  BY <1>1, ReadStep
<1>6. matches \in Seq(V)
  <2>1. out[0] = matches /\ 0 \in 0..Len(Ended)
    <3>1. Ended \in Seq(Held(a, e))
      BY <1>1, EndedFacts
    <3>2. 0 \in 0..Len(Ended)
      BY <3>1, LenProperties
    <3> QED BY <1>5, <3>2 DEF Adds
  <2> QED BY <1>5, <2>1
<1>7. /\ Ended \in Seq(V) /\ Collected(Ended, w, e)
      /\ \A i \in 1..Len(Ended) : EndOf(Ended[i]) = e /\ Ended[i].len \in Nat
  BY <1>1, EndedFacts
<1> HIDE DEF V
<1>8. /\ Len(matches') = Len(matches) + Len(Ended)
      /\ \A i \in 1..(Len(matches) + Len(Ended)) :
             matches'[i] = IF i <= Len(matches) THEN matches[i] ELSE Ended[i - Len(matches)]
  <2>1. \A f \in [0..Len(Ended) -> Seq(V)] : Adds(f, matches, Ended) =>
          /\ Len(f[Len(Ended)]) = Len(matches) + Len(Ended)
          /\ \A i \in 1..(Len(matches) + Len(Ended)) :
                 f[Len(Ended)][i] = IF i <= Len(matches) THEN matches[i] ELSE Ended[i - Len(matches)]
    BY <1>6, <1>7, AddsAll
  <2> QED BY <1>5, <2>1
<1>9. Len(matches) \in Nat /\ Len(Ended) \in Nat
  BY <1>6, <1>7, LenProperties
<1>10. \A i \in 1..Len(matches) : EndOf(matches[i]) <= counter /\ EndOf(matches[i]) \in Int
  <2> TAKE i \in 1..Len(matches)
  <2>1. matches \in Seq(Held(a, counter))
    BY <1>1 DEF Reading
  <2>2. matches[i] \in Held(a, counter)
    BY <2>1, ElementOfSeq
  <2>3. matches[i] \in Occurrences /\ EndOf(matches[i]) <= counter
    BY <2>2 DEF Held
  <2>4. EndOf(matches[i]) \in 0..Len(text)
    BY <1>1, <2>3, OccurrenceIsMatch
  <2> QED BY <2>3, <2>4
<1>11. ASSUME NEW m \in Occurrences, EndOf(m) <= e PROVE \E i \in 1..Len(matches') : matches'[i] = m
  <2>1. /\ EndOf(m) \in 0..Len(text)
        /\ \E v \in States : IsMatch(v) /\ At(v, EndOf(m)) /\ m = MatchAt(v, EndOf(m))
    BY <1>1, OccurrenceIsMatch
  <2>2. CASE EndOf(m) <= counter
    <3>1. PICK i \in 1..Len(matches) : matches[i] = m
      BY <2>2 DEF Listed
    <3>2. i \in 1..Len(matches') /\ i \in 1..(Len(matches) + Len(Ended)) /\ i <= Len(matches)
      BY <1>8, <1>9
    <3> QED BY <1>8, <3>1, <3>2
  <2>3. CASE ~(EndOf(m) <= counter)
    <3>1. EndOf(m) = e
      BY <1>1, <1>11, <2>1, <2>3
    <3>2. PICK v \in States : IsMatch(v) /\ At(v, e) /\ m = MatchAt(v, e)
      BY <2>1, <3>1
    <3>3. Ends(v, w) /\ w \in States
      BY <1>1, <1>4, <3>2, NextStateFacts
    <3>4. PICK i \in 1..Len(Ended) : Ended[i] = MatchAt(v, e)
      BY <1>2, <1>7, <3>2, <3>3 DEF Collected
    <3> DEFINE k == Len(matches) + i
    <3>5. k \in 1..Len(matches') /\ k \in 1..(Len(matches) + Len(Ended)) /\ ~(k <= Len(matches))
          /\ k - Len(matches) = i
      BY <1>8, <1>9
    <3> HIDE DEF k
    <3>6. matches'[k] = Ended[i]
      BY <1>8, <3>5
    <3> QED BY <3>2, <3>4, <3>5, <3>6
  <2> QED BY <2>2, <2>3
<1>12. ASSUME NEW i \in 1..Len(matches'), NEW j \in 1..Len(matches'), i < j
       PROVE  Before(matches'[i], matches'[j])
  <2> DEFINE L == Len(matches)
  <2>1. i \in 1..(L + Len(Ended)) /\ j \in 1..(L + Len(Ended)) /\ i \in Nat /\ j \in Nat
    BY <1>8, <1>9
  <2>2. CASE j <= L
    <3>1. matches'[i] = matches[i] /\ matches'[j] = matches[j] /\ i \in 1..L /\ j \in 1..L
      BY <1>8, <1>9, <1>12, <2>1, <2>2
    <3> QED BY <1>12, <3>1 DEF Sorted
  <2>3. CASE i <= L /\ ~(j <= L)
    <3>1. matches'[i] = matches[i] /\ matches'[j] = Ended[j - L] /\ i \in 1..L /\ j - L \in 1..Len(Ended)
      BY <1>8, <1>9, <1>12, <2>1, <2>3
    <3>2. EndOf(matches[i]) <= counter /\ EndOf(matches[i]) \in Int /\ EndOf(Ended[j - L]) = counter + 1
      BY <1>7, <1>10, <3>1
    <3> QED BY <1>1, <3>1, <3>2 DEF Before
  <2>4. CASE ~(i <= L)
    <3>1. /\ matches'[i] = Ended[i - L] /\ matches'[j] = Ended[j - L]
          /\ i - L \in 1..Len(Ended) /\ j - L \in 1..Len(Ended) /\ i - L < j - L
      BY <1>8, <1>9, <1>12, <2>1, <2>4
    <3>2. /\ EndOf(Ended[i - L]) = e /\ EndOf(Ended[j - L]) = e
          /\ Ended[i - L].len \in Nat /\ Ended[j - L].len \in Nat
      BY <1>7, <3>1
    <3>3. Ended[j - L].len < Ended[i - L].len
      BY <1>7, <3>1 DEF Collected
    <3> QED BY <3>1, <3>2, <3>3 DEF Before
  <2> QED BY <1>9, <1>12, <2>1, <2>2, <2>3, <2>4
<1> QED BY <1>3, <1>4, <1>11, <1>12

\* Nothing is read at the beginning.
LEMMA InitAllRead == Init => AllRead
<1> SUFFICES ASSUME Init, options = "all" PROVE AllRead
  BY DEF AllRead
<1>1. PICK behind \in BOOLEAN : chain = Spread(text, behind)
  BY DEF Init
<1> DEFINE p == [start |-> 0, len |-> Len(text), type |-> "text"]
           q == [start |-> Len(text), len |-> 1, type |-> "other"]
<1>2. Len(text) \in Nat /\ p.type = "text" /\ EndOf(p) = Len(text)
  BY InitStored, GivenFacts DEF EndOf
<1>3. chain[1] = p
  <2> HIDE DEF p, q
  <2>1. <<p>> \in Seq({p, q}) /\ <<q>> \in Seq({p, q}) /\ Len(<<p>>) = 1 /\ Len(<<q>>) = 1 /\ <<p>>[1] = p
    OBVIOUS
  <2>2. (<<p>> \o <<q>>)[1] = <<p>>[1]
    <3>1. 1 \in 1..(Len(<<p>>) + Len(<<q>>)) /\ 1 <= Len(<<p>>)
      BY <2>1
    <3> QED BY <2>1, <3>1, ConcatProperties
  <2>3. <<p>> \o <<>> = <<p>>
    BY <2>1
  <2> QED BY <1>1, <2>1, <2>2, <2>3 DEF Spread, p, q
<1>4. here = 1 /\ stage = "insert"
  BY DEF Init
<1> QED BY <1>2, <1>3, <1>4 DEF AllRead

\* Every step keeps the list of matches that of all occurrences read so far.
LEMMA NextKeepsAllRead == IInv /\ AllRead /\ [Next]_vars => AllRead'
<1> SUFFICES ASSUME IInv, AllRead, [Next]_vars, options' = "all" PROVE AllRead'
  BY DEF AllRead
<1>1. UNCHANGED <<dict, text, options>>
  BY DEF Next, vars, ac_insert, ac_prepare, Visit, PassOver, ac_search, SearchEnd, SplitMatch, SkipMatch,
         SplitEnd, Finish
<1>2. /\ options = "all" /\ here = 1 /\ chain[1].type = "text" /\ EndOf(chain[1]) = Len(text)
      /\ stage \in {"insert", "visit", "search", "done"}
      /\ stage \in {"search", "done"} => Longest /\ Listed /\ Sorted
      /\ stage = "done" => counter = Len(text)
  BY <1>1 DEF AllRead
<1>3. Given /\ Stored /\ Linked /\ Chained(chain) /\ Positions
  BY DEF IInv
<1>4. Len(chain) \in Nat /\ Len(chain) >= 1 /\ chain[1].start = 0
  BY <1>3, LenProperties DEF Chained
<1>5. CASE ac_insert \/ ac_prepare
  <2>1. stage' \in {"insert", "visit"} /\ UNCHANGED <<here, chain>>
    BY <1>2, <1>5 DEF ac_insert, ac_prepare
  <2> QED BY <1>1, <1>2, <2>1 DEF AllRead, EndOf
<1>6. CASE Visit
  <2>1. /\ stage' = "search" /\ UNCHANGED <<here, chain, trie, inserted>> /\ counter' = 0 /\ s' = <<>>
        /\ matches' = <<>> /\ stage # "insert"
    BY <1>2, <1>4, <1>6 DEF Visit
  <2>2. States' = States /\ Occurrences' = Occurrences
    BY <1>1, <1>3, <2>1, Unchanged
  <2>3. \A v \in States : At(v, 0) => Len(v) <= 0
    BY DEF At
  <2>4. Longest'
    <3>1. Len(<<>>) = 0
      BY <1>3, RootFacts
    <3>2. \A v : At(v, counter)' => At(v, 0)
      BY <1>1, <2>1 DEF At
    <3> QED BY <2>1, <2>2, <2>3, <3>1, <3>2 DEF Longest
  <2>5. Listed'
    <3>1. \A m \in Occurrences : ~(EndOf(m) <= 0)
      <4> TAKE m \in Occurrences
      <4>1. EndOf(m) = m.start + m.len /\ m.start \in Nat /\ m.len \in Nat /\ m.len > 0
        BY <1>3, <2>1, OccurrenceIsMatch
      <4> QED BY <4>1
    <3>2. \A m : EndOf(m)' = EndOf(m)
      BY DEF EndOf
    <3> QED BY <2>1, <2>2, <3>1, <3>2 DEF Listed
  <2>6. Sorted'
    <3>1. 1..Len(matches') = {}
      BY <1>3, <2>1, RootFacts
    <3> QED BY <3>1 DEF Sorted
  <2> QED BY <1>1, <1>2, <2>1, <2>4, <2>5, <2>6 DEF AllRead, EndOf
<1>7. CASE ac_search
  <2>1. stage = "search" /\ UNCHANGED <<here, chain, trie, inserted, stage>> /\ counter' = counter + 1
    BY <1>7 DEF ac_search
  <2>2. States' = States /\ Occurrences' = Occurrences
    BY <1>1, <1>3, <2>1, Unchanged
  <2>3. /\ \A v \in States : At(v, counter + 1) => Len(v) <= Len(s')
        /\ \A m \in Occurrences : EndOf(m) <= counter + 1 => \E i \in 1..Len(matches') : matches'[i] = m
        /\ \A i, j \in 1..Len(matches') : i < j => Before(matches'[i], matches'[j])
    BY <1>2, <1>7, <2>1, AllListsStep
  <2>4. Longest'
    <3>1. \A v : At(v, counter)' => At(v, counter + 1)
      BY <1>1, <2>1 DEF At
    <3> QED BY <2>2, <2>3, <3>1 DEF Longest
  <2>5. Listed'
    BY <2>1, <2>2, <2>3 DEF Listed, EndOf
  <2>6. Sorted'
    BY <2>3 DEF Sorted, Before, EndOf
  <2> QED BY <1>1, <1>2, <2>1, <2>4, <2>5, <2>6 DEF AllRead, EndOf
<1>8. CASE SearchEnd
  <2>1. stage = "search" /\ stage' = "done" /\ counter = Stop
        /\ UNCHANGED <<dict, text, options, trie, inserted, chain, here, n, s, counter, matches, walker>>
    BY <1>2, <1>8 DEF SearchEnd
  <2>2. n = 1
    BY <1>2, <1>3, <2>1 DEF Positions, Searching
  <2>3. counter = Len(text)
    BY <1>2, <2>1, <2>2 DEF Stop
  <2>4. Longest /\ Listed /\ Sorted
    BY <1>2, <2>1
  <2>5. Occurrences' = Occurrences
    BY <1>3, <2>1, Unchanged
  <2>6. Longest' /\ Listed' /\ Sorted'
    BY <2>1, <2>4, <2>5 DEF Longest, Listed, Sorted, Before, EndOf, At, States
  <2> QED BY <1>1, <1>2, <2>1, <2>3, <2>6 DEF AllRead, EndOf
<1>9. CASE PassOver \/ SplitMatch \/ SkipMatch \/ SplitEnd \/ Finish
  <2>1. FALSE
    BY <1>2, <1>4, <1>9 DEF PassOver, SplitMatch, SkipMatch, SplitEnd, Finish
  <2> QED BY <2>1
<1>10. CASE UNCHANGED vars
  <2>1. UNCHANGED <<dict, text, options, trie, inserted, stage, chain, here, n, s, counter, matches, walker>>
    BY <1>10 DEF vars
  <2>2. Words' = Words /\ (\A w : TypeOf(w)' = TypeOf(w)) /\ \A i, k : Found(i, k)' = Found(i, k)
    BY <2>1 DEF Words, TypeOf, Found
  <2>3. Occurrences' = Occurrences
    BY <2>1, <2>2 DEF Occurrences
  <2>4. (Longest' <=> Longest) /\ (Listed' <=> Listed) /\ (Sorted' <=> Sorted)
    BY <2>1, <2>3 DEF Longest, Listed, Sorted, Before, EndOf, At, States
  <2> QED BY <1>2, <2>1, <2>4 DEF AllRead, EndOf
<1> QED BY <1>5, <1>6, <1>7, <1>8, <1>9, <1>10 DEF Next

\* AllTermsFound.
LEMMA AllReadFindsAll == IInv /\ AllRead => AllTermsFound
<1> SUFFICES ASSUME IInv, AllRead, options = "all", stage = "done"
             PROVE  /\ {matches[i] : i \in DOMAIN matches} = Occurrences
                    /\ \A i, j \in DOMAIN matches : i < j => Before(matches[i], matches[j])
  BY DEF AllTermsFound
<1>1. Given /\ Stored /\ stage # "insert" /\ matches \in Seq(Occurrences)
  BY DEF IInv, Positions
<1>2. Listed /\ Sorted /\ counter = Len(text)
  BY DEF AllRead
<1>3. DOMAIN matches = 1..Len(matches)
  BY <1>1, LenProperties
<1>4. \A i \in 1..Len(matches) : matches[i] \in Occurrences
  BY <1>1, ElementOfSeq
<1>5. \A m \in Occurrences : \E i \in 1..Len(matches) : matches[i] = m
  <2> TAKE m \in Occurrences
  <2>1. EndOf(m) \in 0..Len(text) /\ Len(text) \in Nat
    BY <1>1, OccurrenceIsMatch, GivenFacts
  <2>2. EndOf(m) <= counter
    BY <1>2, <2>1
  <2> QED BY <1>2, <2>2 DEF Listed
<1>6. {matches[i] : i \in DOMAIN matches} = Occurrences
  BY <1>3, <1>4, <1>5
<1> QED BY <1>2, <1>3, <1>6 DEF Sorted

\* When all matches are wanted, the search returns every occurrence of every
\* term, each once and in the order of their ends, whatever the terms and the
\* text are: the failure links that trie_node_prepare sets skip none.
THEOREM FindsAllTerms == Spec => []AllTermsFound
<1>1. Init => AllRead
  BY InitAllRead
<1>2. IInv /\ AllRead /\ [Next]_vars => AllRead'
  BY NextKeepsAllRead
<1>3. IInv /\ AllRead => AllTermsFound
  BY AllReadFindsAll
<1> QED BY <1>1, <1>2, <1>3, Invariance, PTL DEF Spec

-----------------------------------------------------------------------------
(* No term is inside another one.                                          *)

\* A part of a word, from its character k on
Part(v, w, k) == /\ k \in 1..(Len(w) - Len(v) + 1)
                 /\ \A j \in 1..Len(v) : v[j] = w[k + j - 1]

\* A part of a word, as the properties write it.
LEMMA PartIsWithin ==
    ASSUME NEW C, NEW v \in Seq(C), NEW w \in Seq(C), NEW k \in Int, Part(v, w, k)
    PROVE  SubSeq(w, k, k + Len(v) - 1) = v
<1>1. Len(v) \in Nat /\ Len(w) \in Nat /\ k \in Nat /\ k >= 1 /\ k + Len(v) - 1 <= Len(w)
  BY LenProperties DEF Part
<1>2. /\ SubSeq(w, k, k + Len(v) - 1) \in Seq(C)
      /\ Len(SubSeq(w, k, k + Len(v) - 1)) = Len(v)
      /\ \A j \in 1..Len(v) : SubSeq(w, k, k + Len(v) - 1)[j] = w[k + j - 1]
  <2> DEFINE e == k + Len(v) - 1
  <2>1. e \in Int /\ e - k + 1 = Len(v) /\ k..e \subseteq 1..Len(w) /\ (k <= e => k \in 1..Len(w) /\ e \in 1..Len(w))
    BY <1>1
  <2> HIDE DEF e
  <2>2. CASE k <= e
    <3>1. /\ SubSeq(w, k, e) \in Seq(C) /\ Len(SubSeq(w, k, e)) = e - k + 1
          /\ \A j \in 1..(e - k + 1) : SubSeq(w, k, e)[j] = w[k + j - 1]
      BY <1>1, <2>1, <2>2, SubSeqProperties
    <3> QED BY <2>1, <3>1 DEF e
  <2>3. CASE ~(k <= e)
    <3>1. Len(v) = 0 /\ SubSeq(w, k, e) = <<>>
      BY <1>1, <2>1, <2>3, SubSeqProperties
    <3>2. <<>> \in Seq(C) /\ Len(<<>>) = 0
      BY EmptySeq
    <3> QED BY <3>1, <3>2 DEF e
  <2> QED BY <2>2, <2>3
<1>3. \A j \in 1..Len(v) : SubSeq(w, k, k + Len(v) - 1)[j] = v[j]
  BY <1>2 DEF Part
<1> QED BY <1>2, <1>3, SeqEqual

\* A state that is not a term goes on: what is inside it is inside a term.
LEMMA NotInside ==
    ASSUME Given, Stored, stage # "insert", ~InnerTerms,
           NEW w \in States, ~IsMatch(w), NEW v \in States, NEW k \in Nat \ {0, 1}, Part(v, w, k)
    PROVE  ~IsMatch(v)
<1>1. SUFFICES ASSUME IsMatch(v) PROVE FALSE
  OBVIOUS
<1>2. /\ w \in Seq(Chars) /\ v \in Seq(Chars) /\ Len(w) \in Nat /\ Len(v) \in Nat /\ Len(<<>>) = 0
      /\ v # <<>> /\ Len(v) > 0
  BY <1>1, RootFacts
<1>3. w # <<>>
  BY <1>2 DEF Part
<1>4. PICK i \in 1..inserted : Len(w) <= Len(dict[i][1]) /\ w = Prefix(dict[i][1], Len(w))
  BY <1>3 DEF Stored
<1>5. inserted = Len(dict) /\ dict[i][1] # w
  BY <1>3 DEF Stored
<1>6. PICK u \in Seq(Chars) : u = dict[i][1]
  BY <1>5, GivenFacts
<1>7. Len(u) \in Nat /\ Len(w) <= Len(u) /\ w = Prefix(u, Len(w)) /\ u # w
  BY <1>4, <1>5, <1>6, LenProperties
<1>8. Len(w) < Len(u)
  <2>1. Prefix(u, Len(u)) = u
    <3>1. 0 \in 0..Len(u) /\ Len(u) \in 0..Len(u)
      BY <1>7
    <3> QED BY <3>1, PrefixOfPrefix
  <2> QED BY <1>2, <1>7, <2>1
<1>9. \A j \in 1..Len(w) : w[j] = u[j]
  <2>1. Len(w) \in 0..Len(u)
    BY <1>2, <1>7
  <2>2. \A j \in 1..Len(w) : Prefix(u, Len(w))[j] = u[j]
    BY <2>1, PrefixFacts
  <2> QED BY <1>7, <2>2
<1>10. Part(v, u, k) /\ k \in 2..(Len(u) - Len(v))
  <2>1. k \in 1..(Len(w) - Len(v) + 1) /\ \A j \in 1..Len(v) : v[j] = w[k + j - 1]
    BY DEF Part
  <2>2. k \in 2..(Len(u) - Len(v)) /\ k \in 1..(Len(u) - Len(v) + 1)
    BY <1>2, <1>7, <1>8, <2>1
  <2>3. \A j \in 1..Len(v) : v[j] = u[k + j - 1]
    <3> TAKE j \in 1..Len(v)
    <3>1. k + j - 1 \in 1..Len(w)
      BY <1>2, <2>1
    <3> QED BY <1>9, <2>1, <3>1
  <2> QED BY <2>2, <2>3 DEF Part
<1>11. SubSeq(u, k, k + Len(v) - 1) = v
  BY <1>2, <1>10, PartIsWithin
<1>12. u \in Words /\ v \in Words
  <2>1. v \in Words
    BY <1>1, WordsAreMatches
  <2>2. i \in DOMAIN dict
    BY <1>5, GivenFacts, LenProperties
  <2>3. u # <<>>
    BY <1>2, <1>7, <1>8
  <2> QED BY <1>6, <2>1, <2>2, <2>3 DEF Words
<1> QED BY <1>10, <1>11, <1>12 DEF InnerTerms, Within

\* What ends a state that is not a term, and what begins such an end.
LEMMA EndsHoldNoMatch ==
    ASSUME Given, Stored, stage # "insert", ~InnerTerms,
           NEW w \in States, ~IsMatch(w), NEW f \in States, Ends(f, w), Len(f) < Len(w)
    PROVE  ~IsMatch(f) /\ \A k \in 1..Len(f) : ~IsMatch(Prefix(f, k))
<1>1. /\ w \in Seq(Chars) /\ f \in Seq(Chars) /\ Len(w) \in Nat /\ Len(f) \in Nat
  BY RootFacts
<1> DEFINE p == Len(w) - Len(f) + 1
<1>2. p \in Nat \ {0, 1}
  BY <1>1
<1>3. Part(f, w, p)
  BY <1>1 DEF Part, Ends
<1>4. ~IsMatch(f)
  BY <1>2, <1>3, NotInside
<1>5. ASSUME NEW k \in 1..Len(f) PROVE ~IsMatch(Prefix(f, k))
  <2>1. k \in 0..Len(f)
    BY <1>1
  <2>2. /\ Prefix(f, k) \in States /\ Len(Prefix(f, k)) = k
        /\ \A j \in 1..k : Prefix(f, k)[j] = f[j]
    BY <1>1, <2>1, PrefixFacts DEF Stored
  <2>3. Part(Prefix(f, k), w, p)
    <3>1. p \in 1..(Len(w) - k + 1)
      BY <1>1
    <3>2. \A j \in 1..k : f[j] = w[p + j - 1]
      BY <1>1, <1>3 DEF Part
    <3> QED BY <2>2, <3>1, <3>2 DEF Part
  <2> QED BY <1>2, <2>2, <2>3, NotInside
<1> QED BY <1>4, <1>5

\* If no term is inside another one, a failure link never leads to a match.
LEMMA LinksAvoidMatches ==
    ASSUME Given, Stored, Linked, stage # "insert", options = "longest", ~InnerTerms
    PROVE  \A x \in States : (IsMatch(x) => Link(x) = <<>>) /\ ~IsMatch(Link(x))
<1> TAKE x \in States
<1>1. Best(x) /\ Ends(Link(x), x) /\ Link(x) \in States /\ (x # <<>> => Len(Link(x)) < Len(x))
      /\ ~IsMatch(<<>>) /\ Len(<<>>) = 0 /\ Len(Link(x)) \in Nat /\ (Link(x) # <<>> => Len(Link(x)) > 0)
  BY RootFacts DEF Linked, Link
<1>2. IsMatch(x) => Link(x) = <<>>
  BY <1>1 DEF Best
<1>3. ~IsMatch(Link(x))
  <2>1. CASE x = <<>>
    BY <1>1, <2>1 DEF Ends
  <2>2. CASE IsMatch(x)
    BY <1>1, <1>2, <2>2
  <2>3. CASE x # <<>> /\ ~IsMatch(x)
    BY <1>1, <2>3, EndsHoldNoMatch
  <2> QED BY <2>1, <2>2, <2>3
<1> QED BY <1>2, <1>3

\* At most one term ends at a character, and it is appended.
LEMMA OneEnded ==
    ASSUME Given, Stored, Linked, options = "longest", ~InnerTerms, NEW a, Reading(a), ac_search
    PROVE  matches' = IF IsMatch(NextState(s, Char))
                      THEN match_append(matches, MatchAt(NextState(s, Char), counter + 1))
                      ELSE matches
<1> DEFINE w == NextState(s, Char)
           e == counter + 1
<1>1. w \in States /\ e \in Nat /\ stage # "insert"
  <2>1. counter \in Nat /\ stage # "insert"
    BY DEF Reading
  <2> QED BY <2>1, NextStateFacts
<1>2. \A x \in States : (IsMatch(x) => Link(x) = <<>>) /\ ~IsMatch(Link(x))
  BY <1>1, LinksAvoidMatches
<1>3. EndingAt(e)[w] = IF IsMatch(w) THEN <<MatchAt(w, e)>> ELSE <<>>
  BY <1>1, <1>2, EndingAtMostOne
<1>4. Ended = IF IsMatch(w) THEN <<MatchAt(w, e)>> ELSE <<>>
  BY <1>3 DEF Ended
<1>5. PICK out : Adds(out, matches, Ended) /\ matches' = out[Len(Ended)]
  BY ReadStep
<1> HIDE DEF w, e
<1>6. CASE IsMatch(w)
  <2>1. Ended = <<MatchAt(w, e)>> /\ Len(Ended) = 1 /\ Ended[1] = MatchAt(w, e)
    BY <1>4, <1>6
  <2>2. 0 \in 0..Len(Ended) /\ 1 \in 0..Len(Ended) /\ 1 - 1 = 0 /\ 1 # 0
    BY <2>1
  <2>3. out[0] = matches /\ out[1] = match_append(out[0], Ended[1])
    BY <1>5, <2>2 DEF Adds
  <2> QED BY <1>5, <1>6, <2>1, <2>3 DEF w, e
<1>7. CASE ~IsMatch(w)
  <2>1. Ended = <<>> /\ Len(Ended) = 0
    BY <1>4, <1>7
  <2>2. 0 \in 0..Len(Ended)
    BY <2>1
  <2>3. out[0] = matches
    BY <1>5, <2>2 DEF Adds
  <2> QED BY <1>5, <1>7, <2>1, <2>3 DEF w
<1> QED BY <1>6, <1>7

\* The search stays at its state or falls along its failure link.
LEMMA FromFacts ==
    ASSUME Given, Stored, Linked, NEW a, Reading(a)
    PROVE  /\ \/ From = s /\ Takes(s, Char)
              \/ s # <<>> /\ ~Takes(s, Char) /\ Ends(From, Link(s)) /\ Len(From) <= Len(Link(s))
           /\ Len(Link(s)) \in Nat /\ Link(s) \in States /\ Ends(Link(s), s)
           /\ s # <<>> => Len(Link(s)) < Len(s)
<1>1. s \in States /\ Link(s) \in States /\ Ends(Link(s), s) /\ Len(Link(s)) \in Nat
      /\ (s # <<>> => Len(Link(s)) < Len(s))
  BY RootFacts DEF Reading, Linked, Link
<1>2. Fallen(Char)[s] = IF Takes(s, Char) THEN s ELSE Fallen(Char)[Link(s)]
  BY <1>1, FallenEquation
<1>3. Ends(Fallen(Char)[Link(s)], Link(s))
  BY <1>1, FallenFacts
<1>4. CASE Takes(s, Char)
  <2>1. From = s
    BY <1>2, <1>4 DEF From
  <2> QED BY <1>1, <1>4, <2>1
<1>5. CASE ~Takes(s, Char)
  BY <1>1, <1>2, <1>3, <1>5 DEF From, Ends, Takes
<1> QED BY <1>4, <1>5

-----------------------------------------------------------------------------
(* The matches of the parser's search are disjoint.                        *)

LastOf(list) == list[Len(list)]
\* The last match is over where the state began, or began with it
LastBefore(f, c, list) ==
    list # <<>> => \/ EndOf(LastOf(list)) <= c - Len(f)
                   \/ LastOf(list).start = c - Len(f) /\ LastOf(list).len <= Len(f)
\* The longest term that the state begins with is the last match
BeginsListed(f, c, list) ==
    \A k \in 1..Len(f) : IsMatch(Prefix(f, k)) =>
        list # <<>> /\ LastOf(list).start = c - Len(f) /\ k <= LastOf(list).len
Spaced(f, c, list) == Disjoint(list) /\ LastBefore(f, c, list) /\ BeginsListed(f, c, list)

\* The last match found so far, and where it lies.
LEMMA LastFacts ==
    ASSUME Given, Stored, NEW a, Reading(a), matches # <<>>
    PROVE  /\ Len(matches) \in Nat /\ Len(matches) >= 1 /\ LastOf(matches) \in Occurrences
           /\ a <= LastOf(matches).start /\ EndOf(LastOf(matches)) <= counter
           /\ LastOf(matches).start \in Nat /\ LastOf(matches).len \in Nat /\ LastOf(matches).len > 0
           /\ EndOf(LastOf(matches)) \in Nat /\ EndOf(LastOf(matches)) \in 0..Len(text)
           /\ EndOf(LastOf(matches)) = LastOf(matches).start + LastOf(matches).len
<1>1. matches \in Seq(Held(a, counter)) /\ stage # "insert"
  BY DEF Reading
<1>2. Len(matches) \in Nat /\ Len(matches) # 0
  BY <1>1, LenProperties, EmptySeq
<1>3. Len(matches) \in 1..Len(matches)
  BY <1>2
<1>4. LastOf(matches) \in Held(a, counter)
  BY <1>1, <1>3, ElementOfSeq DEF LastOf
<1>5. LastOf(matches) \in Occurrences /\ a <= LastOf(matches).start /\ EndOf(LastOf(matches)) <= counter
  BY <1>4 DEF Held
<1>6. /\ LastOf(matches).start \in Nat /\ LastOf(matches).len \in Nat /\ LastOf(matches).len > 0
      /\ EndOf(LastOf(matches)) \in 0..Len(text)
      /\ EndOf(LastOf(matches)) = LastOf(matches).start + LastOf(matches).len
  BY <1>1, <1>5, OccurrenceIsMatch
<1> QED BY <1>2, <1>5, <1>6

\* A match that begins with the state is a beginning of it.
LEMMA MatchBeginsState ==
    ASSUME Given, Stored, NEW a, Reading(a), NEW m \in Occurrences,
           m.start = counter - Len(s), m.len <= Len(s)
    PROVE  m.len \in 1..Len(s) /\ IsMatch(Prefix(s, m.len))
<1>1. /\ s \in Seq(Chars) /\ Len(s) \in Nat /\ At(s, counter) /\ counter \in Nat /\ stage # "insert"
  BY RootFacts DEF Reading
<1>2. m.len \in Nat /\ m.len > 0 /\ EndOf(m) = m.start + m.len
  BY <1>1, OccurrenceIsMatch
<1>3. PICK v \in States : IsMatch(v) /\ At(v, EndOf(m)) /\ Len(v) = m.len
  BY <1>1, OccurrenceIsMatch
<1>4. v \in Seq(Chars)
  BY RootFacts
<1>5. m.len \in 0..Len(s) /\ m.len \in 1..Len(s)
  BY <1>1, <1>2
<1>6. /\ Prefix(s, m.len) \in Seq(Chars) /\ Len(Prefix(s, m.len)) = m.len
      /\ \A j \in 1..m.len : Prefix(s, m.len)[j] = s[j]
  BY <1>1, <1>5, PrefixFacts
<1>7. \A j \in 1..m.len : s[j] = v[j]
  <2> TAKE j \in 1..m.len
  <2>1. v[j] = text[EndOf(m) - Len(v) + j]
    BY <1>3 DEF At
  <2>2. s[j] = text[counter - Len(s) + j]
    <3>1. j \in 1..Len(s)
      BY <1>1, <1>2
    <3> QED BY <1>1, <3>1 DEF At
  <2>3. EndOf(m) - Len(v) + j = counter - Len(s) + j
    BY <1>1, <1>2, <1>3
  <2> QED BY <2>1, <2>2, <2>3
<1>8. Prefix(s, m.len) = v
  BY <1>3, <1>4, <1>6, <1>7, SeqEqual
<1> QED BY <1>3, <1>5, <1>8

\* Falling along links leaves the matches behind the state.
LEMMA FallKeepsSpaced ==
    ASSUME Given, Stored, Linked, options = "longest", ~InnerTerms, NEW a, Reading(a),
           Spaced(s, counter, matches)
    PROVE  Spaced(From, counter, matches)
<1>1. /\ s \in States /\ s \in Seq(Chars) /\ Len(s) \in Nat /\ counter \in Nat /\ Len(s) <= counter
      /\ stage # "insert" /\ Len(<<>>) = 0 /\ ~IsMatch(<<>>) /\ At(s, counter)
  BY RootFacts DEF Reading, At
<1>2. From \in States /\ From \in Seq(Chars) /\ Len(From) \in Nat /\ (From # <<>> => Len(From) > 0)
  <2>1. From \in States
    BY NextStateFacts
  <2> QED BY <2>1, RootFacts
<1>3. CASE From = s
  BY <1>3
<1>4. CASE From # s
  <2>1. /\ s # <<>> /\ Ends(From, Link(s)) /\ Len(From) <= Len(Link(s)) /\ Len(Link(s)) \in Nat
        /\ Link(s) \in States /\ Ends(Link(s), s) /\ Len(Link(s)) < Len(s)
    BY <1>4, FromFacts
  <2>2. Ends(From, s) /\ Len(From) < Len(s)
    <3>1. Link(s) \in Seq(Chars)
      BY <2>1, RootFacts
    <3> QED BY <1>1, <1>2, <2>1, <3>1, EndsOfEnds
  <2>3. Best(s)
    BY <1>1 DEF Linked
  <2>4. Link(s) = <<>> \/ (~IsMatch(s) /\ Len(Link(s)) <= Reach(s))
    BY <2>3 DEF Best
  <2>5. LastBefore(From, counter, matches)
    <3> SUFFICES ASSUME matches # <<>>
                 PROVE  EndOf(LastOf(matches)) <= counter - Len(From)
      BY DEF LastBefore
    <3> DEFINE m == LastOf(matches)
    <3>1. /\ m \in Occurrences /\ EndOf(m) <= counter /\ m.start \in Nat /\ m.len \in Nat /\ m.len > 0
          /\ EndOf(m) = m.start + m.len /\ EndOf(m) \in Nat
      BY LastFacts
    <3>2. EndOf(m) <= counter - Len(s) \/ (m.start = counter - Len(s) /\ m.len <= Len(s))
      BY DEF Spaced, LastBefore
    <3> HIDE DEF m
    <3>3. CASE Link(s) = <<>>
      <4>1. Len(From) = 0
        BY <1>1, <1>2, <2>1, <3>3
      <4> QED BY <1>1, <3>1, <4>1 DEF m
    <3>4. CASE EndOf(m) <= counter - Len(s)
      BY <1>1, <1>2, <2>2, <3>1, <3>4 DEF m
    <3>5. CASE ~IsMatch(s) /\ Len(Link(s)) <= Reach(s) /\ m.start = counter - Len(s) /\ m.len <= Len(s)
      <4>1. m.len \in 1..Len(s) /\ IsMatch(Prefix(s, m.len))
        BY <3>1, <3>5, MatchBeginsState
      <4>2. m.len # Len(s)
        <5>1. 0 \in 0..Len(s) /\ Len(s) \in 0..Len(s)
          BY <1>1
        <5>2. Prefix(s, Len(s)) = s
          BY <1>1, <5>1, PrefixOfPrefix
        <5> QED BY <3>5, <4>1, <5>2
      <4>3. m.len \in 1..(Len(s) - 1)
        BY <1>1, <4>1, <4>2
      <4>4. m.len <= LastMatch(s) /\ LastMatch(s) \in Nat
        BY <1>1, <4>1, <4>3, LastMatchFacts
      <4>5. Reach(s) = Len(s) - 1 - LastMatch(s)
        BY DEF Reach
      <4> QED BY <1>1, <1>2, <2>1, <3>1, <3>5, <4>4, <4>5 DEF m
    <3> QED BY <2>4, <3>2, <3>3, <3>4, <3>5
  <2>6. BeginsListed(From, counter, matches)
    <3>1. CASE From = <<>>
      BY <1>1, <3>1 DEF BeginsListed
    <3>2. CASE From # <<>>
      <4>1. Link(s) # <<>>
        BY <1>1, <1>2, <2>1, <3>2
      <4>2. ~IsMatch(s)
        BY <2>4, <4>1
      <4>3. \A k \in 1..Len(From) : ~IsMatch(Prefix(From, k))
        BY <1>1, <1>2, <2>2, <4>2, EndsHoldNoMatch
      <4> QED BY <4>3 DEF BeginsListed
    <3> QED BY <3>1, <3>2
  <2> QED BY <2>5, <2>6 DEF Spaced
<1> QED BY <1>3, <1>4

\* Reading one character keeps the matches disjoint and the state behind them.
LEMMA ReadKeepsSpaced ==
    ASSUME Given, Stored, Linked, options = "longest", ~InnerTerms, NEW a, Reading(a), ac_search,
           Spaced(s, counter, matches)
    PROVE  Spaced(NextState(s, Char), counter + 1, matches')
<1> DEFINE w == NextState(s, Char)
           e == counter + 1
           m == MatchAt(w, e)
<1>1. /\ From \in States /\ From \in Seq(Chars) /\ Len(From) \in Nat /\ counter \in Nat
      /\ w \in States /\ w \in Seq(Chars) /\ Len(w) \in Nat /\ Len(<<>>) = 0 /\ ~IsMatch(<<>>)
      /\ matches \in Seq(Held(a, counter)) /\ Len(matches) \in Nat /\ e \in Nat /\ stage # "insert"
  <2>1. From \in States /\ w \in States
    BY NextStateFacts
  <2>2. counter \in Nat /\ matches \in Seq(Held(a, counter)) /\ stage # "insert"
    BY DEF Reading
  <2> QED BY <2>1, <2>2, RootFacts, LenProperties
<1>2. /\ w = IF Append(From, Char) \in States THEN Append(From, Char) ELSE <<>>
      /\ Append(From, Char) \in States => Len(w) = Len(From) + 1
  BY NextStateFacts
<1>3. Spaced(From, counter, matches)
  BY FallKeepsSpaced
<1>4. Disjoint(matches) /\ LastBefore(From, counter, matches) /\ BeginsListed(From, counter, matches)
  BY <1>3 DEF Spaced
<1>5. matches' = IF IsMatch(w) THEN match_append(matches, m) ELSE matches
  BY OneEnded
<1>6. matches # <<>> =>
        /\ LastOf(matches).start \in Nat /\ LastOf(matches).len \in Nat /\ LastOf(matches).len > 0
        /\ EndOf(LastOf(matches)) = LastOf(matches).start + LastOf(matches).len
        /\ EndOf(LastOf(matches)) <= counter /\ Len(matches) >= 1
  BY LastFacts
<1> HIDE DEF w, m
<1>7. CASE Append(From, Char) \notin States
  <2>1. w = <<>> /\ matches' = matches
    BY <1>1, <1>2, <1>5, <1>7
  <2>2. LastBefore(<<>>, e, matches)
    BY <1>1, <1>6 DEF LastBefore
  <2>3. BeginsListed(<<>>, e, matches)
    BY <1>1 DEF BeginsListed
  <2>4. Spaced(w, e, matches')
    BY <1>4, <2>1, <2>2, <2>3 DEF Spaced
  <2> QED BY <2>4 DEF w
<1>8. CASE Append(From, Char) \in States
  <2>1. w = Append(From, Char) /\ Len(w) = Len(From) + 1 /\ e - Len(w) = counter - Len(From)
    BY <1>1, <1>2, <1>8
  <2>2. \A k \in 1..Len(w) : IF k = Len(w) THEN Prefix(w, k) = w ELSE k \in 1..Len(From) /\ Prefix(w, k) = Prefix(From, k)
    <3> TAKE k \in 1..Len(w)
    <3>1. CASE k = Len(w)
      <4>1. 0 \in 0..Len(w) /\ Len(w) \in 0..Len(w)
        BY <1>1
      <4> QED BY <1>1, <3>1, <4>1, PrefixOfPrefix
    <3>2. CASE k # Len(w)
      <4>1. k \in 1..Len(From) /\ k \in 0..Len(From) /\ k \in 0..Len(w)
        BY <1>1, <2>1, <3>2
      <4>2. /\ Prefix(w, k) \in Seq(Chars) /\ Len(Prefix(w, k)) = k
            /\ Prefix(From, k) \in Seq(Chars) /\ Len(Prefix(From, k)) = k
            /\ \A j \in 1..k : Prefix(w, k)[j] = w[j]
            /\ \A j \in 1..k : Prefix(From, k)[j] = From[j]
        BY <1>1, <4>1, PrefixFacts
      <4>3. \A j \in 1..k : w[j] = From[j]
        BY <1>1, <2>1, <4>1, AppendProperties
      <4> QED BY <3>2, <4>1, <4>2, <4>3, SeqEqual
    <3> QED BY <3>1, <3>2
  <2>3. CASE ~IsMatch(w)
    <3>1. matches' = matches
      BY <1>5, <2>3
    <3>2. LastBefore(w, e, matches)
      BY <1>1, <1>4, <1>6, <2>1 DEF LastBefore
    <3>3. BeginsListed(w, e, matches)
      BY <1>4, <2>1, <2>2, <2>3 DEF BeginsListed
    <3>4. Spaced(w, e, matches')
      BY <1>4, <3>1, <3>2, <3>3 DEF Spaced
    <3> QED BY <3>4 DEF w
  <2>4. CASE IsMatch(w)
    <3>1. matches' = match_append(matches, m) /\ m.start = e - Len(w) /\ m.len = Len(w) /\ m.len > 0 /\ EndOf(m) = e
      BY <1>1, <1>5, <2>1, <2>4 DEF m, MatchAt, EndOf
    <3>2. matches \in Seq(Held(a, counter) \cup {m}) /\ m \in Held(a, counter) \cup {m}
      BY <1>1, SeqMonotonic
    <3>3. matches' = IF matches # <<>> /\ matches[Len(matches)].start = m.start
                     THEN [matches EXCEPT ![Len(matches)] = m] ELSE Append(matches, m)
      BY <3>1 DEF match_append
    <3>4. DOMAIN matches = 1..Len(matches)
      BY <1>1, LenProperties
    <3>5. /\ matches' # <<>> /\ LastOf(matches') = m /\ Disjoint(matches')
      <4>1. CASE matches # <<>> /\ matches[Len(matches)].start = m.start
        <5>1. matches' = [matches EXCEPT ![Len(matches)] = m] /\ Len(matches) \in 1..Len(matches)
          BY <1>1, <1>6, <3>3, <4>1
        <5>2. /\ matches' \in Seq(Held(a, counter) \cup {m}) /\ Len(matches') = Len(matches)
              /\ \A j \in 1..Len(matches) : matches'[j] = IF j = Len(matches) THEN m ELSE matches[j]
          BY <3>2, <5>1, ExceptSeq
        <5>3. DOMAIN matches' = 1..Len(matches) /\ matches' # <<>>
          BY <1>1, <5>1, <5>2, LenProperties
        <5>4. Disjoint(matches')
          <6> SUFFICES ASSUME NEW i \in 1..Len(matches), NEW j \in 1..Len(matches), i < j
                       PROVE  EndOf(matches'[i]) <= matches'[j].start
            BY <5>3 DEF Disjoint
          <6>1. i # Len(matches)
            BY <1>1
          <6>2. matches'[i] = matches[i] /\ matches'[j].start = matches[j].start
            BY <4>1, <5>2, <6>1
          <6>3. EndOf(matches[i]) <= matches[j].start
            BY <1>4, <3>4 DEF Disjoint
          <6> QED BY <6>2, <6>3
        <5>5. LastOf(matches') = m
          BY <5>1, <5>2 DEF LastOf
        <5> QED BY <5>3, <5>4, <5>5
      <4>2. CASE ~(matches # <<>> /\ matches[Len(matches)].start = m.start)
        <5> DEFINE L == Len(matches)
        <5>1. matches' = Append(matches, m)
          BY <3>3, <4>2
        <5>2. /\ matches' \in Seq(Held(a, counter) \cup {m}) /\ Len(matches') = L + 1
              /\ \A j \in 1..L : matches'[j] = matches[j]
              /\ matches'[L + 1] = m
          BY <3>2, <5>1, AppendProperties
        <5>3. DOMAIN matches' = 1..(L + 1) /\ matches' # <<>>
          BY <1>1, <3>2, <5>2, LenProperties, AppendFacts, <3>1
        <5>4. matches # <<>> => EndOf(LastOf(matches)) <= m.start /\ m.start \in Int
          BY <1>1, <1>4, <2>1, <3>1, <4>2 DEF LastBefore, LastOf
        <5>5. \A i \in 1..L : EndOf(matches[i]) <= m.start
          <6> TAKE i \in 1..L
          <6>1. matches # <<>> /\ L >= 1
            BY <1>1
          <6>2. CASE i = L
            BY <5>4, <6>1, <6>2 DEF LastOf
          <6>3. CASE i # L
            <7>1. i < L /\ L \in DOMAIN matches /\ i \in DOMAIN matches
              <8>1. L \in Nat /\ i \in 1..L /\ i # L
                BY <1>1, <6>3
              <8>2. i < L /\ L \in 1..L
                BY <8>1
              <8> QED BY <3>4, <8>1, <8>2
            <7>2. EndOf(matches[i]) <= LastOf(matches).start
              BY <1>4, <7>1 DEF Disjoint, LastOf
            <7>3. matches[i] \in Occurrences
              <8>1. matches[i] \in Held(a, counter)
                BY <1>1, ElementOfSeq
              <8> QED BY <8>1 DEF Held
            <7>4. EndOf(matches[i]) \in 0..Len(text) /\ Len(text) \in Nat
              BY <1>1, <7>3, OccurrenceIsMatch, GivenFacts
            <7> QED BY <1>6, <5>4, <6>1, <7>2, <7>4
          <6> QED BY <6>2, <6>3
        <5>6. Disjoint(matches')
          <6> SUFFICES ASSUME NEW i \in 1..(L + 1), NEW j \in 1..(L + 1), i < j
                       PROVE  EndOf(matches'[i]) <= matches'[j].start
            BY <5>3 DEF Disjoint
          <6>1. i \in 1..L /\ (j \in 1..L \/ j = L + 1)
            BY <1>1
          <6>2. j \in 1..L => EndOf(matches[i]) <= matches[j].start
            BY <1>4, <3>4, <6>1 DEF Disjoint
          <6> QED BY <5>2, <5>5, <6>1, <6>2
        <5>7. LastOf(matches') = m
          BY <5>2 DEF LastOf
        <5> QED BY <5>3, <5>6, <5>7
      <4> QED BY <4>1, <4>2
    <3>6. LastBefore(w, e, matches')
      BY <1>1, <3>1, <3>5 DEF LastBefore
    <3>7. BeginsListed(w, e, matches')
      BY <1>1, <3>1, <3>5 DEF BeginsListed
    <3>8. Spaced(w, e, matches')
      BY <3>5, <3>6, <3>7 DEF Spaced
    <3> QED BY <3>8 DEF w
  <2> QED BY <2>3, <2>4
<1> QED BY <1>7, <1>8

-----------------------------------------------------------------------------
(* The splits at the matches.                                              *)

\* What is left of the matches is in the node that is split next
Ahead ==
    walker <= Len(matches) =>
        /\ n \in 1..Len(chain) /\ chain[n].type = "text"
        /\ \A j \in walker..Len(matches) :
               chain[n].start <= matches[j].start /\ EndOf(matches[j]) <= EndOf(chain[n])

\* Node n of the chain became a text, the match m and, unless d is 1, a text.
Parted(d, m) ==
    /\ Len(chain') = Len(chain) + d
    /\ \A j \in 1..(n - 1) : chain'[j] = chain[j]
    /\ chain'[n].type = "text"
    /\ chain'[n + 1] = m
    /\ d = 2 => /\ chain'[n + 2].type = "text" /\ chain'[n + 2].start = EndOf(m)
                /\ EndOf(chain'[n + 2]) = EndOf(chain[n]) /\ EndOf(m) # EndOf(chain[n])
    /\ d = 1 => EndOf(m) = EndOf(chain[n])
    /\ \A j \in (n + 1)..Len(chain) : chain'[j + d] = chain[j]

\* A match that lies in the node being split cuts it into two or three pieces.
LEMMA CutShape ==
    ASSUME IInv, SplitMatch, Ahead
    PROVE  \E d \in {1, 2} :
               /\ Parted(d, Current) /\ n' = n + 2
               /\ stage' = IF n + 2 > Len(chain) + d /\ walker < Len(matches) THEN "crashed" ELSE stage
<1> DEFINE m == Current
           N == Len(chain)
           off == m.start - chain[n].start
<1>1. Given /\ Stored /\ Linked /\ Chained(chain) /\ Positions /\ stage # "insert"
  BY DEF IInv, SplitMatch
<1>2. /\ n \in 1..N /\ Chained(Mid) /\ Chained(Cut) /\ N \in Nat /\ Len(Mid) \in Nat /\ Len(Cut) \in Nat
      /\ walker \in 1..Len(matches) /\ m \in Occurrences /\ off \in Int /\ m.len \in Nat /\ m.type \in Types
  BY CutFacts
<1>3. /\ m \in Piece(Types) /\ m.start \in Nat /\ m.len > 0 /\ EndOf(m) = m.start + m.len
      /\ m = [start |-> m.start, len |-> m.len, type |-> m.type]
  <2>1. m \in Piece(Types) /\ m.start \in Nat /\ m.len > 0 /\ EndOf(m) = m.start + m.len
    BY <1>1, <1>2, OccurrenceIsMatch
  <2> QED BY <2>1 DEF Piece
<1>4. /\ chain[n].type = "text" /\ chain[n].start <= m.start /\ EndOf(m) <= EndOf(chain[n])
      /\ EndOf(chain[n]) = chain[n].start + chain[n].len /\ chain[n].start \in Nat /\ chain[n].len \in Nat
  <2>1. walker <= Len(matches) /\ walker \in walker..Len(matches)
    BY <1>2
  <2>2. chain[n].type = "text" /\ chain[n].start <= m.start /\ EndOf(m) <= EndOf(chain[n])
    BY <2>1 DEF Ahead, Current
  <2>3. EndOf(chain[n]) = chain[n].start + chain[n].len /\ chain[n].start \in Nat /\ chain[n].len \in Nat
    BY <1>1, <1>2, PieceFacts
  <2> QED BY <2>2, <2>3
<1> HIDE DEF m
<1>5. off >= 0 /\ off < chain[n].len /\ chain[n].start + off = m.start
  BY <1>2, <1>3, <1>4
<1> DEFINE rest == chain[n].len - off
<1>6. rest \in Nat /\ m.len <= rest /\ m.start + rest = EndOf(chain[n])
  <2> HIDE DEF off
  <2>1. off \in Int /\ m.len \in Nat /\ m.start \in Nat /\ chain[n].start \in Nat /\ chain[n].len \in Nat
    BY <1>2, <1>3, <1>4
  <2>2. EndOf(chain[n]) = chain[n].start + chain[n].len /\ m.start + m.len <= EndOf(chain[n])
    BY <1>3, <1>4
  <2> QED BY <1>5, <2>1, <2>2
<1>7. Mid = mmd_node_split(chain, n, off) /\ Cut = mmd_node_split(Mid, n + 1, m.len)
  BY DEF Mid, Cut, m
<1> HIDE DEF off, rest
<1>8. /\ Len(Mid) = N + 1
      /\ \A j \in 1..(N + 1) :
             Mid[j] = IF j < n THEN chain[j]
                      ELSE IF j = n THEN [start |-> chain[n].start, len |-> off, type |-> "text"]
                      ELSE IF j = n + 1 THEN [start |-> m.start, len |-> rest, type |-> "text"]
                      ELSE chain[j - 1]
  <2>1. n \in Nat \ {0} /\ off \in Int
    BY <1>2
  <2>2. ~(n > Len(chain) \/ off < 0 \/ chain[n].len <= off)
    BY <1>2, <1>4, <1>5
  <2>3. SplitAt(chain, Mid, n, off)
    BY <1>1, <1>7, <2>1, <2>2, SplitFacts
  <2> QED BY <1>4, <1>5, <2>3 DEF SplitAt, rest
<1>9. n + 1 \in 1..Len(Mid) /\ n + 1 \in Nat \ {0} /\ n + 1 \in 1..(N + 1) /\ n \in 1..(N + 1) /\ ~(n + 1 < n) /\ n + 1 # n
  BY <1>2, <1>8
<1>10. Mid[n + 1] = [start |-> m.start, len |-> rest, type |-> "text"]
       /\ Mid[n] = [start |-> chain[n].start, len |-> off, type |-> "text"]
  BY <1>2, <1>8, <1>9
<1>11. Mid[n + 1].start = m.start /\ Mid[n + 1].len = rest /\ Mid[n + 1].type = "text" /\ Mid[n].type = "text"
  BY <1>10
<1>12. \A j \in 1..(n - 1) : Mid[j] = chain[j]
  BY <1>2, <1>8
<1>13. \A j \in (n + 1)..N : Mid[j + 1] = chain[j]
  <2> TAKE j \in (n + 1)..N
  <2>1. j + 1 \in 1..(N + 1) /\ ~(j + 1 < n) /\ j + 1 # n /\ j + 1 # n + 1 /\ (j + 1) - 1 = j
    BY <1>2
  <2> QED BY <1>8, <2>1
<1>14. m.len \in Int
  BY <1>2
<1>15. n + 1 \in 1..Len(Cut)
  <2>1. Len(Mid) <= Len(Cut)
    BY CutFacts
  <2> QED BY <1>2, <1>9, <2>1
<1> DEFINE new == Retyped(Cut, n + 1, m.type)
<1>16. /\ chain' = new /\ n' = n + 2
       /\ stage' = IF n + 2 > Len(Cut) /\ walker < Len(matches) THEN "crashed" ELSE stage
  <2>1. ~(n + 1 > Len(Cut))
    BY <1>2, <1>15
  <2> QED BY <2>1 DEF SplitMatch, Mid, Cut, m, Retyped
<1>17. /\ Len(new) = Len(Cut)
       /\ \A j \in 1..Len(Cut) : new[j] =
              IF j = n + 1 THEN [start |-> Cut[n + 1].start, len |-> Cut[n + 1].len, type |-> m.type] ELSE Cut[j]
  <2>1. Chained(Cut) /\ n + 1 \in 1..Len(Cut) /\ m.type \in Types
    BY <1>2, <1>15
  <2> QED BY <2>1, RetypeFacts
<1> HIDE DEF new, N
<1>18. CASE rest <= m.len
  <2>1. Cut = Mid
    BY <1>1, <1>2, <1>7, <1>9, <1>11, <1>14, <1>18, SplitFacts
  <2>2. rest = m.len /\ EndOf(m) = EndOf(chain[n])
    BY <1>2, <1>3, <1>6, <1>18
  <2>3. Len(chain') = N + 1
    BY <1>8, <1>16, <1>17, <2>1
  <2>4. \A j \in 1..(n - 1) : chain'[j] = chain[j]
    <3> TAKE j \in 1..(n - 1)
    <3>1. j \in 1..Len(Cut) /\ j # n + 1
      BY <1>2, <1>8, <2>1
    <3> QED BY <1>12, <1>16, <1>17, <2>1, <3>1
  <2>5. chain'[n] = Mid[n]
    <3>1. n \in 1..Len(Cut) /\ n # n + 1
      BY <1>2, <1>8, <2>1
    <3> QED BY <1>16, <1>17, <2>1, <3>1
  <2>6. chain'[n + 1] = m
    <3>1. chain'[n + 1] = [start |-> m.start, len |-> rest, type |-> m.type]
      BY <1>11, <1>15, <1>16, <1>17, <2>1
    <3> QED BY <1>3, <2>2, <3>1
  <2>7. \A j \in (n + 1)..N : chain'[j + 1] = chain[j]
    <3> TAKE j \in (n + 1)..N
    <3>1. j + 1 \in 1..Len(Cut) /\ j + 1 # n + 1
      BY <1>2, <1>8, <2>1
    <3> QED BY <1>13, <1>16, <1>17, <2>1, <3>1
  <2>8. Parted(1, m)
    BY <1>11, <2>2, <2>3, <2>4, <2>5, <2>6, <2>7 DEF Parted, N
  <2>9. Len(Cut) = Len(chain) + 1
    BY <1>8, <2>1 DEF N
  <2> QED BY <1>16, <2>8, <2>9 DEF m
<1>19. CASE ~(rest <= m.len)
  <2>1. SplitAt(Mid, Cut, n + 1, m.len)
    <3>1. ~(n + 1 > Len(Mid) \/ m.len < 0 \/ Mid[n + 1].len <= m.len)
      BY <1>2, <1>9, <1>11, <1>19
    <3> QED BY <1>1, <1>2, <1>7, <1>9, <1>14, <3>1, SplitFacts
  <2>2. /\ Len(Cut) = N + 2
        /\ \A j \in 1..(N + 2) :
             Cut[j] = IF j < n + 1 THEN Mid[j]
                      ELSE IF j = n + 1 THEN [start |-> m.start, len |-> m.len, type |-> "text"]
                      ELSE IF j = n + 2 THEN [start |-> m.start + m.len, len |-> rest - m.len, type |-> "text"]
                      ELSE Mid[j - 1]
    <3>1. (N + 1) + 1 = N + 2 /\ (n + 1) + 1 = n + 2
      BY <1>2
    <3> QED BY <1>8, <1>11, <2>1, <3>1 DEF SplitAt
  <2>3. Len(chain') = N + 2
    BY <1>16, <1>17, <2>2
  <2>4. \A j \in 1..(n - 1) : chain'[j] = chain[j]
    <3> TAKE j \in 1..(n - 1)
    <3>1. j \in 1..(N + 2) /\ j < n + 1 /\ j # n + 1
      BY <1>2
    <3> QED BY <1>12, <1>16, <1>17, <2>2, <3>1
  <2>5. chain'[n] = Mid[n]
    <3>1. n \in 1..(N + 2) /\ n < n + 1 /\ n # n + 1
      BY <1>2
    <3> QED BY <1>16, <1>17, <2>2, <3>1
  <2>6. chain'[n + 1] = m
    <3>1. n + 1 \in 1..(N + 2) /\ ~(n + 1 < n + 1)
      BY <1>2
    <3>2. Cut[n + 1] = [start |-> m.start, len |-> m.len, type |-> "text"]
      BY <2>2, <3>1
    <3>3. chain'[n + 1] = [start |-> m.start, len |-> m.len, type |-> m.type]
      BY <1>15, <1>16, <1>17, <3>2
    <3> QED BY <1>3, <3>3
  <2>7. chain'[n + 2] = [start |-> m.start + m.len, len |-> rest - m.len, type |-> "text"]
    <3>1. n + 2 \in 1..(N + 2) /\ ~(n + 2 < n + 1) /\ n + 2 # n + 1
      BY <1>2
    <3> QED BY <1>16, <1>17, <2>2, <3>1
  <2>8. /\ chain'[n + 2].type = "text" /\ chain'[n + 2].start = EndOf(m)
        /\ EndOf(chain'[n + 2]) = EndOf(chain[n]) /\ EndOf(m) # EndOf(chain[n])
    <3>1. /\ chain'[n + 2].type = "text" /\ chain'[n + 2].start = m.start + m.len
          /\ chain'[n + 2].len = rest - m.len
      BY <2>7
    <3>2. EndOf(chain'[n + 2]) = (m.start + m.len) + (rest - m.len)
      BY <3>1 DEF EndOf
    <3>3. m.start + m.len # m.start + rest
      BY <1>2, <1>3, <1>6, <1>19
    <3> QED BY <1>2, <1>3, <1>6, <3>1, <3>2, <3>3
  <2>9. \A j \in (n + 1)..N : chain'[j + 2] = chain[j]
    <3> TAKE j \in (n + 1)..N
    <3>1. j + 2 \in 1..(N + 2) /\ ~(j + 2 < n + 1) /\ j + 2 # n + 1 /\ j + 2 # n + 2 /\ (j + 2) - 1 = j + 1
      BY <1>2
    <3>2. Cut[j + 2] = Mid[j + 1]
      BY <2>2, <3>1
    <3> QED BY <1>13, <1>16, <1>17, <2>2, <3>1, <3>2
  <2>10. Parted(2, m)
    BY <1>11, <2>3, <2>4, <2>5, <2>6, <2>8, <2>9 DEF Parted, N
  <2>11. Len(Cut) = Len(chain) + 2
    BY <2>2 DEF N
  <2> QED BY <1>16, <2>10, <2>11 DEF m
<1>20. rest <= m.len \/ ~(rest <= m.len)
  OBVIOUS
<1> QED BY <1>18, <1>19, <1>20

\* Every piece that is flagged is a term in its place; a text ends at the end
\* or where a flagged piece begins.
Flag(i) == i \in 1..Len(chain) /\ chain[i].type \in Types
Flagging ==
    \A i \in 1..Len(chain) : chain[i].type \in Types =>
        chain[i] \in Occurrences /\ (AtWordEnd(EndOf(chain[i])) \/ Flag(i + 1))
Bounded ==
    \A i \in 1..Len(chain) : chain[i].type = "text" =>
        EndOf(chain[i]) = Len(text) \/ Flag(i + 1)

FlagAfter(i) == i \in 1..Len(chain') /\ chain'[i].type \in Types

\* After a split the remaining matches lie in the node that is split next.
LEMMA SplitKeepsFlagging ==
    ASSUME IInv, SplitMatch, Ahead, Disjoint(matches), Flagging, Bounded
    PROVE  stage' = "split" /\ Ahead' /\ Flagging' /\ Bounded'
<1> DEFINE m == Current
           N == Len(chain)
<1>1. Given /\ Stored /\ Linked /\ Chained(chain) /\ Positions /\ stage = "split" /\ stage # "insert"
  BY DEF IInv, SplitMatch
<1>2. /\ n \in 1..N /\ N \in Nat /\ walker \in 1..Len(matches) /\ m \in Occurrences
      /\ matches \in Seq(Occurrences) /\ Len(matches) \in Nat /\ DOMAIN matches = 1..Len(matches)
  <2>1. matches \in Seq(Occurrences)
    BY <1>1 DEF Positions
  <2> QED BY <2>1, CutFacts, LenProperties
<1>3. \A j \in 1..Len(matches) :
         /\ matches[j].start \in Nat /\ matches[j].len \in Nat /\ matches[j].len > 0 /\ matches[j].type \in Types
         /\ EndOf(matches[j]) = matches[j].start + matches[j].len /\ EndOf(matches[j]) \in Nat
  <2> TAKE j \in 1..Len(matches)
  <2>1. matches[j] \in Occurrences
    BY <1>2, ElementOfSeq
  <2>2. matches[j] \in Piece(Types) /\ matches[j].len > 0 /\ EndOf(matches[j]) = matches[j].start + matches[j].len
    BY <1>1, <2>1, OccurrenceIsMatch
  <2>3. matches[j].start \in Nat /\ matches[j].len \in Nat /\ matches[j].type \in Types
    BY <2>2 DEF Piece
  <2> QED BY <2>2, <2>3
<1>4. m = matches[walker] /\ m.type \in Types /\ EndOf(m) \in Nat
  <2>1. m = matches[walker]
    BY DEF Current
  <2> QED BY <1>2, <1>3, <2>1
<1>5. /\ chain[n].type = "text"
      /\ \A j \in walker..Len(matches) : chain[n].start <= matches[j].start /\ EndOf(matches[j]) <= EndOf(chain[n])
  <2>1. walker <= Len(matches)
    BY <1>2
  <2> QED BY <2>1 DEF Ahead
<1>6. PICK d \in {1, 2} :
        /\ Parted(d, m) /\ n' = n + 2
        /\ stage' = IF n + 2 > N + d /\ walker < Len(matches) THEN "crashed" ELSE stage
  BY CutShape
<1>7. /\ Len(chain') = N + d
      /\ \A j \in 1..(n - 1) : chain'[j] = chain[j]
      /\ chain'[n].type = "text" /\ chain'[n + 1] = m
      /\ d = 2 => /\ chain'[n + 2].type = "text" /\ chain'[n + 2].start = EndOf(m)
                  /\ EndOf(chain'[n + 2]) = EndOf(chain[n]) /\ EndOf(m) # EndOf(chain[n])
      /\ d = 1 => EndOf(m) = EndOf(chain[n])
      /\ \A j \in (n + 1)..N : chain'[j + d] = chain[j]
  BY <1>6 DEF Parted
<1>8. UNCHANGED <<dict, text, matches>> /\ walker' = walker + 1 /\ IsFullWord(m) /\ Occurrences' = Occurrences
  <2>1. UNCHANGED <<dict, text, matches, trie, inserted, options>> /\ walker' = walker + 1 /\ IsFullWord(m)
        /\ stage' # "insert"
    BY <1>1, <1>6 DEF SplitMatch
  <2> QED BY <1>1, <2>1, Unchanged
<1> HIDE DEF m, N
<1>9. ASSUME NEW j \in (walker + 1)..Len(matches) PROVE EndOf(m) <= matches[j].start /\ d = 2
  <2>1. j \in 1..Len(matches) /\ walker < j /\ j \in walker..Len(matches)
    BY <1>2
  <2>2. EndOf(m) <= matches[j].start
    BY <1>2, <1>4, <2>1 DEF Disjoint
  <2>3. EndOf(matches[j]) <= EndOf(chain[n]) /\ matches[j].start < EndOf(matches[j])
        /\ matches[j].start \in Nat /\ EndOf(matches[j]) \in Nat
    BY <1>3, <1>5, <2>1
  <2>4. d # 1
    BY <1>4, <1>7, <2>2, <2>3
  <2> QED BY <1>6, <2>2, <2>4
<1>10. stage' = "split"
  <2>1. CASE walker < Len(matches)
    <3>1. d = 2
      <4>1. Len(matches) \in (walker + 1)..Len(matches)
        BY <1>2, <2>1
      <4> QED BY <1>9, <4>1
    <3> QED BY <1>1, <1>2, <1>6, <3>1
  <2>2. CASE ~(walker < Len(matches))
    BY <1>1, <1>6, <2>2
  <2> QED BY <2>1, <2>2
<1>11. Ahead'
  <2> SUFFICES ASSUME walker' <= Len(matches)
               PROVE  /\ n' \in 1..Len(chain') /\ chain'[n'].type = "text"
                      /\ \A j \in walker'..Len(matches) :
                             chain'[n'].start <= matches[j].start /\ EndOf(matches[j]) <= EndOf(chain'[n'])
    BY <1>8 DEF Ahead, EndOf
  <2>1. d = 2
    <3>1. Len(matches) \in (walker + 1)..Len(matches)
      BY <1>2, <1>8
    <3> QED BY <1>9, <3>1
  <2>2. n' \in 1..Len(chain') /\ chain'[n'].type = "text"
    BY <1>2, <1>6, <1>7, <2>1
  <2>3. ASSUME NEW j \in walker'..Len(matches)
        PROVE  chain'[n'].start <= matches[j].start /\ EndOf(matches[j]) <= EndOf(chain'[n'])
    <3>1. j \in (walker + 1)..Len(matches) /\ j \in walker..Len(matches)
      BY <1>2, <1>8
    <3>2. EndOf(m) <= matches[j].start /\ EndOf(matches[j]) <= EndOf(chain[n])
      BY <1>5, <1>9, <3>1
    <3> QED BY <1>6, <1>7, <2>1, <3>2
  <2> QED BY <2>2, <2>3
<1>12. \A i \in 1..(n - 1) : Flag(i + 1) => FlagAfter(i + 1)
  <2> SUFFICES ASSUME NEW i \in 1..(n - 1), Flag(i + 1) PROVE i + 1 \in 1..Len(chain') /\ chain'[i + 1].type \in Types
    BY DEF FlagAfter
  <2>1. i + 1 # n
    BY <1>5 DEF Flag, Types
  <2>2. i + 1 \in 1..(n - 1) /\ i + 1 \in 1..(N + d)
    BY <1>2, <1>6, <2>1
  <2> QED BY <1>7, <2>2 DEF Flag
<1>13. \A k \in n..N : Flag(k + 1) => FlagAfter(k + d + 1)
  <2> SUFFICES ASSUME NEW k \in n..N, Flag(k + 1) PROVE k + d + 1 \in 1..Len(chain') /\ chain'[k + d + 1].type \in Types
    BY DEF FlagAfter
  <2>1. k + 1 \in (n + 1)..N /\ (k + 1) + d = k + d + 1 /\ k + d + 1 \in 1..(N + d)
    BY <1>2, <1>6 DEF Flag, N
  <2>2. chain'[k + d + 1] = chain[k + 1]
    BY <1>7, <2>1
  <2> QED BY <1>7, <2>1, <2>2 DEF Flag
<1>14. \A i \in 1..(N + d) : \/ i \in 1..(n - 1)
                             \/ i = n
                             \/ i = n + 1
                             \/ d = 2 /\ i = n + 2
                             \/ \E k \in (n + 1)..N : i = k + d
  <2> TAKE i \in 1..(N + d)
  <2>1. CASE i <= n + d
    BY <1>2, <1>6, <2>1
  <2>2. CASE ~(i <= n + d)
    <3>1. i - d \in (n + 1)..N /\ i = (i - d) + d
      BY <1>2, <1>6, <2>2
    <3> QED BY <3>1
  <2> QED BY <2>1, <2>2
<1>15. FlagAfter(n + 1)
  <2>1. n + 1 \in 1..Len(chain')
    BY <1>2, <1>6, <1>7
  <2> QED BY <1>4, <1>7, <2>1 DEF FlagAfter
<1>16. \A o : AtWordEnd(o)' <=> AtWordEnd(o)
  BY <1>8 DEF AtWordEnd
<1>17. EndOf(chain[n]) = Len(text) \/ Flag(n + 1)
  BY <1>2, <1>5 DEF Bounded, N
<1>18. "text" \notin Types
  BY DEF Types
<1>19. ASSUME NEW i \in 1..Len(chain'), chain'[i].type \in Types
       PROVE  chain'[i] \in Occurrences /\ (AtWordEnd(EndOf(chain'[i])) \/ FlagAfter(i + 1))
  <2>1. CASE i \in 1..(n - 1)
    <3>1. chain'[i] = chain[i] /\ i \in 1..Len(chain)
      BY <1>2, <1>7, <2>1 DEF N
    <3> QED BY <1>12, <1>19, <2>1, <3>1 DEF Flagging
  <2>2. CASE i = n + 1
    <3>1. chain'[i] = m /\ m \in Occurrences
      BY <1>2, <1>7, <2>2
    <3>2. EndOf(m) = EndOf(chain[n]) \/ AtWordEnd(EndOf(m))
      BY <1>8 DEF IsFullWord, FullWord
    <3>3. CASE EndOf(m) = EndOf(chain[n])
      <4>1. d = 1
        BY <1>6, <1>7, <3>3
      <4>2. CASE EndOf(chain[n]) = Len(text)
        <5>1. Len(text) \in Nat
          BY <1>1, GivenFacts
        <5>2. AtWordEnd(EndOf(m))
          BY <3>3, <4>2, <5>1 DEF AtWordEnd
        <5> QED BY <3>1, <5>2
      <4>3. CASE Flag(n + 1)
        <5>1. n \in n..N /\ n + d + 1 = i + 1
          BY <1>2, <2>2, <4>1
        <5>2. FlagAfter(n + d + 1)
          BY <1>13, <4>3, <5>1
        <5>3. FlagAfter(i + 1)
          BY <5>1, <5>2
        <5> QED BY <3>1, <5>3
      <4> QED BY <1>17, <4>2, <4>3
    <3> QED BY <3>1, <3>2, <3>3
  <2>3. ASSUME NEW k \in (n + 1)..N, i = k + d PROVE chain'[i] \in Occurrences /\ (AtWordEnd(EndOf(chain'[i])) \/ FlagAfter(i + 1))
    <3>1. chain'[i] = chain[k] /\ k \in 1..Len(chain) /\ k \in n..N
      BY <1>2, <1>7, <2>3 DEF N
    <3>2. chain[k] \in Occurrences /\ (AtWordEnd(EndOf(chain[k])) \/ Flag(k + 1))
      BY <1>19, <3>1 DEF Flagging
    <3>3. Flag(k + 1) => FlagAfter(i + 1)
      BY <1>13, <2>3, <3>1
    <3> QED BY <3>1, <3>2, <3>3
  <2>4. i # n /\ ~(d = 2 /\ i = n + 2)
    BY <1>7, <1>18, <1>19
  <2> QED BY <1>7, <1>14, <2>1, <2>2, <2>3, <2>4
<1>20. ASSUME NEW i \in 1..Len(chain'), chain'[i].type = "text"
       PROVE  EndOf(chain'[i]) = Len(text) \/ FlagAfter(i + 1)
  <2>1. CASE i \in 1..(n - 1)
    <3>1. chain'[i] = chain[i] /\ i \in 1..Len(chain)
      BY <1>2, <1>7, <2>1 DEF N
    <3> QED BY <1>12, <1>20, <2>1, <3>1 DEF Bounded
  <2>2. CASE i = n
    <3>1. FlagAfter(i + 1)
      BY <1>15, <2>2
    <3> QED BY <3>1
  <2>3. CASE d = 2 /\ i = n + 2
    <3>1. EndOf(chain'[i]) = EndOf(chain[n])
      BY <1>7, <2>3
    <3>2. n \in n..N /\ n + d + 1 = i + 1
      BY <1>2, <2>3
    <3>3. Flag(n + 1) => FlagAfter(i + 1)
      BY <1>13, <3>2
    <3> QED BY <1>17, <3>1, <3>3
  <2>4. ASSUME NEW k \in (n + 1)..N, i = k + d PROVE EndOf(chain'[i]) = Len(text) \/ FlagAfter(i + 1)
    <3>1. chain'[i] = chain[k] /\ k \in 1..Len(chain) /\ k \in n..N
      BY <1>2, <1>7, <2>4 DEF N
    <3>2. EndOf(chain[k]) = Len(text) \/ Flag(k + 1)
      BY <1>20, <3>1 DEF Bounded
    <3>3. Flag(k + 1) => FlagAfter(i + 1)
      BY <1>13, <2>4, <3>1
    <3> QED BY <3>1, <3>2, <3>3
  <2>5. i # n + 1
    BY <1>4, <1>7, <1>18, <1>20
  <2> QED BY <1>7, <1>14, <2>1, <2>2, <2>3, <2>4, <2>5
<1>21. Flagging'
  BY <1>8, <1>19 DEF Flagging, FlagAfter, Flag, EndOf, AtWordEnd
<1>22. Bounded'
  BY <1>8, <1>20 DEF Bounded, FlagAfter, Flag, EndOf
<1> QED BY <1>10, <1>11, <1>21, <1>22

\* No term is inside another one: what the search and the splits keep.
Marks ==
    options = "longest" /\ ~InnerTerms =>
        /\ stage # "crashed" /\ Disjoint(matches) /\ Flagging /\ Bounded
        /\ stage = "search" => Spaced(s, counter, matches)
        /\ stage = "split" => Ahead

\* There are no marks at the beginning.
LEMMA InitMarks == Init => Marks
<1> SUFFICES ASSUME Init PROVE stage = "insert" /\ Disjoint(matches) /\ Flagging /\ Bounded
  BY DEF Marks
<1>1. stage = "insert" /\ matches = <<>>
  BY DEF Init
<1>2. PICK behind \in BOOLEAN : chain = Spread(text, behind)
  BY DEF Init
<1> DEFINE p == [start |-> 0, len |-> Len(text), type |-> "text"]
           q == [start |-> Len(text), len |-> 1, type |-> "other"]
<1>3. /\ Len(text) \in Nat /\ p.type = "text" /\ EndOf(p) = Len(text) /\ q.type = "other"
      /\ "text" \notin Types /\ "other" \notin Types
  BY InitStored, GivenFacts DEF EndOf, Types
<1>4. \A i \in 1..Len(chain) : chain[i] = p \/ chain[i] = q
  <2> HIDE DEF p, q
  <2>1. <<p>> \in Seq({p, q}) /\ <<q>> \in Seq({p, q}) /\ <<>> \in Seq({p, q})
    OBVIOUS
  <2>2. chain \in Seq({p, q})
    <3>1. chain = <<p>> \o (IF behind THEN <<q>> ELSE <<>>)
      BY <1>2 DEF Spread, p, q
    <3> QED BY <2>1, <3>1, ConcatProperties
  <2> QED BY <2>2, ElementOfSeq
<1> HIDE DEF p, q
<1>5. Flagging /\ Bounded
  <2>1. \A i \in 1..Len(chain) : chain[i].type \notin Types /\ (chain[i].type = "text" => EndOf(chain[i]) = Len(text))
    BY <1>3, <1>4
  <2> QED BY <2>1 DEF Flagging, Bounded
<1>6. Disjoint(matches)
  BY <1>1 DEF Disjoint
<1> QED BY <1>1, <1>5, <1>6

\* What the choice of the terms and of the text fixes.
LEMMA SameText ==
    ASSUME [Next]_vars
    PROVE  /\ UNCHANGED <<dict, text, options>> /\ Occurrences' = Occurrences
           /\ InnerTerms' = InnerTerms /\ NestedTerms' = NestedTerms
<1>1. UNCHANGED <<dict, text, options>>
  BY DEF Next, vars, ac_insert, ac_prepare, Visit, PassOver, ac_search, SearchEnd, SplitMatch, SkipMatch,
         SplitEnd, Finish
<1>2. Words' = Words /\ (\A w : TypeOf(w)' = TypeOf(w)) /\ \A i, k : Found(i, k)' = Found(i, k)
  BY <1>1 DEF Words, TypeOf, Found
<1>3. Occurrences' = Occurrences
  BY <1>1, <1>2 DEF Occurrences
<1>4. InnerTerms' = InnerTerms /\ NestedTerms' = NestedTerms
  BY <1>2 DEF InnerTerms, NestedTerms, Within
<1> QED BY <1>1, <1>3, <1>4

\* Every step keeps the marks.
LEMMA NextKeepsMarks == IInv /\ Marks /\ [Next]_vars => Marks'
<1> SUFFICES ASSUME IInv, Marks, [Next]_vars, options' = "longest", ~InnerTerms'
             PROVE  /\ stage' # "crashed" /\ Disjoint(matches)' /\ Flagging' /\ Bounded'
                    /\ stage' = "search" => Spaced(s, counter, matches)'
                    /\ stage' = "split" => Ahead'
  BY DEF Marks
<1>1. UNCHANGED <<dict, text, options>> /\ Occurrences' = Occurrences /\ options = "longest" /\ ~InnerTerms
  BY SameText
<1>2. /\ stage # "crashed" /\ Disjoint(matches) /\ Flagging /\ Bounded
      /\ stage = "search" => Spaced(s, counter, matches)
      /\ stage = "split" => Ahead
  BY <1>1 DEF Marks
<1>3. Given /\ Stored /\ Linked /\ Chained(chain) /\ Positions
  BY DEF IInv
<1>4. UNCHANGED chain => Flagging' /\ Bounded'
  BY <1>1, <1>2 DEF Flagging, Bounded, Flag, EndOf, AtWordEnd
<1>5. UNCHANGED matches => Disjoint(matches)'
  BY <1>2 DEF Disjoint, EndOf
<1>6. CASE ac_insert \/ ac_prepare \/ PassOver \/ SplitEnd \/ Finish
  <2>1. UNCHANGED <<chain, matches>> /\ stage' \in {"insert", "visit", "done"}
    BY <1>6 DEF ac_insert, ac_prepare, PassOver, SplitEnd, Finish
  <2> QED BY <1>4, <1>5, <2>1
<1>7. CASE Visit
  <2>1. UNCHANGED chain /\ stage' = "search" /\ s' = <<>> /\ matches' = <<>> /\ Len(<<>>) = 0
    BY <1>3, <1>7, RootFacts DEF Visit
  <2>2. Disjoint(matches)'
    BY <2>1 DEF Disjoint
  <2>3. LastBefore(s, counter, matches)' /\ BeginsListed(s, counter, matches)'
    BY <2>1 DEF LastBefore, BeginsListed
  <2> QED BY <1>4, <2>1, <2>2, <2>3 DEF Spaced
<1>8. CASE ac_search
  <2>1. UNCHANGED <<chain, trie, stage>> /\ stage = "search" /\ Reading(chain[here].start)
    BY <1>8, FirstReading DEF ac_search
  <2>2. s' = NextState(s, Char) /\ counter' = counter + 1
    BY <1>3, <1>8, <2>1, ReadStep
  <2>3. Spaced(NextState(s, Char), counter + 1, matches')
    BY <1>1, <1>2, <1>3, <1>8, <2>1, ReadKeepsSpaced
  <2>4. Spaced(s', counter', matches')
    BY <2>2, <2>3
  <2>5. Disjoint(matches)' /\ LastBefore(s, counter, matches)'
    BY <2>4 DEF Spaced, Disjoint, LastBefore, LastOf, EndOf
  <2>6. BeginsListed(s, counter, matches)'
    <3>1. \A w : IsMatch(w)' = IsMatch(w)
      BY <2>1 DEF IsMatch
    <3>2. BeginsListed(s', counter', matches')
      BY <2>4 DEF Spaced
    <3> QED BY <3>1, <3>2 DEF BeginsListed, Prefix, LastOf
  <2> QED BY <1>4, <2>1, <2>5, <2>6 DEF Spaced
<1>9. CASE SearchEnd
  <2>1. /\ UNCHANGED <<chain, matches, n, here, walker>> /\ stage = "search" /\ stage' = "split"
        /\ counter = EndOf(chain[n])
    BY <1>1, <1>9 DEF SearchEnd, Stop
  <2>2. Searching
    BY <1>3, <2>1 DEF Positions
  <2>3. Ahead
    <3>1. here \in 1..Len(chain) /\ n = here /\ chain[here].type = "text" /\ walker = 1
          /\ matches \in Seq(Held(chain[here].start, counter))
      <4>1. Len(chain) \in Nat
        BY <1>3, LenProperties DEF Chained
      <4> QED BY <1>3, <2>2, <4>1 DEF Searching, Positions
    <3>2. \A j \in walker..Len(matches) :
              chain[n].start <= matches[j].start /\ EndOf(matches[j]) <= EndOf(chain[n])
      <4> TAKE j \in walker..Len(matches)
      <4>1. j \in 1..Len(matches)
        BY <3>1
      <4>2. matches[j] \in Held(chain[here].start, counter)
        BY <3>1, <4>1, ElementOfSeq
      <4> QED BY <2>1, <3>1, <4>2 DEF Held
    <3> QED BY <3>1, <3>2 DEF Ahead
  <2>4. Ahead'
    BY <2>1, <2>3 DEF Ahead, EndOf
  <2> QED BY <1>4, <1>5, <2>1, <2>4
<1>10. CASE SplitMatch
  <2>1. UNCHANGED matches /\ stage = "split"
    BY <1>10 DEF SplitMatch
  <2>2. stage' = "split" /\ Ahead' /\ Flagging' /\ Bounded'
    BY <1>2, <1>10, <2>1, SplitKeepsFlagging
  <2> QED BY <1>5, <2>1, <2>2
<1>11. CASE SkipMatch
  <2>1. UNCHANGED <<chain, matches, n>> /\ stage = "split" /\ stage' = "split" /\ walker' = walker + 1
        /\ walker <= Len(matches)
    BY <1>11 DEF SkipMatch
  <2>2. walker \in Nat /\ Len(matches) \in Nat
    BY <1>3, LenProperties DEF Positions
  <2>3. Ahead
    BY <1>2, <2>1
  <2>4. \A j \in walker'..Len(matches) : j \in walker..Len(matches)
    BY <2>1, <2>2
  <2>5. Ahead'
    BY <2>1, <2>3, <2>4 DEF Ahead, EndOf
  <2> QED BY <1>4, <1>5, <2>1, <2>5
<1>12. CASE UNCHANGED vars
  <2>1. UNCHANGED <<stage, chain, matches, s, counter, trie, n, walker>>
    BY <1>12 DEF vars
  <2>2. stage = "search" => Spaced(s, counter, matches)'
    BY <1>2, <2>1 DEF Spaced, Disjoint, LastBefore, BeginsListed, LastOf, EndOf, IsMatch, Prefix
  <2>3. stage = "split" => Ahead'
    BY <1>2, <2>1 DEF Ahead, EndOf
  <2> QED BY <1>2, <1>4, <1>5, <2>1, <2>2, <2>3
<1> QED BY <1>6, <1>7, <1>8, <1>9, <1>10, <1>11, <1>12 DEF Next

\* What the marks say is what FlagsTheTerms asks for.
LEMMA MarksFlagTheTerms == IInv /\ Marks => FlagsTheTerms
<1> SUFFICES ASSUME IInv, Marks PROVE FlagsTheTerms
  OBVIOUS
<1>1. Chained(chain)
  BY DEF IInv
<1>2. DOMAIN chain = 1..Len(chain) /\ Len(chain) \in Nat
  BY <1>1, LenProperties DEF Chained
<1>3. chain[1].start = 0 /\ \A i \in 1..(Len(chain) - 1) : chain[i + 1].start = EndOf(chain[i])
  BY <1>1 DEF Chained
<1>4. ASSUME options = "longest", ~InnerTerms
      PROVE  /\ stage # "crashed" /\ Disjoint(matches)
             /\ \A i \in Flagged :
                    /\ chain[i] \in Occurrences
                    /\ AtWordEnd(EndOf(chain[i])) \/ i + 1 \in Flagged
  <2>1. stage # "crashed" /\ Disjoint(matches) /\ Flagging
    BY <1>4 DEF Marks
  <2>2. \A i : i \in Flagged <=> Flag(i)
    BY <1>2 DEF Flagged, Flag
  <2>3. ASSUME NEW i \in Flagged
        PROVE  chain[i] \in Occurrences /\ (AtWordEnd(EndOf(chain[i])) \/ i + 1 \in Flagged)
    <3>1. i \in 1..Len(chain) /\ chain[i].type \in Types
      BY <2>2, <2>3 DEF Flag
    <3> QED BY <2>1, <2>2, <3>1 DEF Flagging
  <2> QED BY <2>1, <2>3
<1> QED BY <1>3, <1>4 DEF FlagsTheTerms

\* The pieces of a text node always cover it; and if no term is inside another
\* one, the matches that ac_search returns are disjoint, search_text never
\* splits outside the node it has, and every piece it flags is a term with the
\* type of its last definition.
THEOREM FlagsTerms == Spec => []FlagsTheTerms
<1>1. Init => Marks
  BY InitMarks
<1>2. IInv /\ Marks /\ [Next]_vars => Marks'
  BY NextKeepsMarks
<1>3. IInv /\ Marks => FlagsTheTerms
  BY MarksFlagTheTerms
<1> QED BY <1>1, <1>2, <1>3, Invariance, PTL DEF Spec

-----------------------------------------------------------------------------
(* No term is any part of another one.                                     *)

\* A term is a sequence of characters.
LEMMA WordTypes ==
    ASSUME Given
    PROVE  \A w \in Words : w \in Seq(Chars) /\ Len(w) \in Nat
<1> TAKE w \in Words
<1>1. PICK i \in DOMAIN dict : w = dict[i][1]
  BY DEF Words
<1>2. i \in 1..Len(dict)
  BY GivenFacts, LenProperties
<1>3. w \in Seq(Chars)
  BY <1>1, <1>2, GivenFacts
<1> QED BY <1>3, LenProperties

\* If no term is any part of another one, none is inside another one.
LEMMA NotNestedNotInner ==
    ASSUME Given, ~NestedTerms
    PROVE  ~InnerTerms
<1> SUFFICES ASSUME NEW v \in Words, NEW w \in Words, NEW k \in 2..(Len(w) - Len(v)),
                    SubSeq(w, k, k + Len(v) - 1) = v
             PROVE  FALSE
  BY DEF InnerTerms, Within
<1>1. Len(v) \in Nat /\ Len(w) \in Nat
  BY WordTypes
<1>2. v # w /\ k \in 1..(Len(w) - Len(v) + 1)
  BY <1>1
<1> QED BY <1>2 DEF NestedTerms, Within

\* If no term is any part of another one, a part that is a term is the whole.
LEMMA PartOfWord ==
    ASSUME Given, ~NestedTerms, NEW v \in Words, NEW w \in Words, NEW k \in Int, Part(v, w, k)
    PROVE  v = w
<1>1. v \in Seq(Chars) /\ w \in Seq(Chars)
  BY WordTypes
<1>2. SubSeq(w, k, k + Len(v) - 1) = v
  BY <1>1, PartIsWithin
<1>3. k \in 1..(Len(w) - Len(v) + 1)
  BY DEF Part
<1> QED BY <1>2, <1>3 DEF NestedTerms, Within

\* Of two occurrences none covers the other.
LEMMA NestedOccurrences ==
    ASSUME Given, Stored, stage # "insert", ~NestedTerms,
           NEW m \in Occurrences, NEW o \in Occurrences, o.start <= m.start, EndOf(m) <= EndOf(o)
    PROVE  m = o
<1>1. /\ m.start \in Nat /\ m.len \in Nat /\ EndOf(m) = m.start + m.len
      /\ o.start \in Nat /\ o.len \in Nat /\ EndOf(o) = o.start + o.len
  BY OccurrenceIsMatch
<1>2. PICK v \in States : v \in Words /\ At(v, EndOf(m)) /\ m = MatchAt(v, EndOf(m)) /\ Len(v) = m.len
  BY OccurrenceIsMatch
<1>3. PICK w \in States : w \in Words /\ At(w, EndOf(o)) /\ o = MatchAt(w, EndOf(o)) /\ Len(w) = o.len
  BY OccurrenceIsMatch
<1> DEFINE k == m.start - o.start + 1
<1>4. k \in Int /\ k \in 1..(Len(w) - Len(v) + 1)
  BY <1>1, <1>2, <1>3
<1>5. ASSUME NEW j \in 1..Len(v) PROVE v[j] = w[k + j - 1]
  <2>1. v[j] = text[EndOf(m) - Len(v) + j]
    BY <1>2 DEF At
  <2>2. k + j - 1 \in 1..Len(w)
    BY <1>1, <1>2, <1>3
  <2>3. w[k + j - 1] = text[EndOf(o) - Len(w) + (k + j - 1)]
    BY <1>3, <2>2 DEF At
  <2>4. EndOf(o) - Len(w) + (k + j - 1) = EndOf(m) - Len(v) + j
    BY <1>1, <1>2, <1>3
  <2> QED BY <2>1, <2>3, <2>4
<1>6. Part(v, w, k)
  BY <1>4, <1>5 DEF Part
<1> HIDE DEF k
<1>7. v = w
  BY <1>2, <1>3, <1>4, <1>6, PartOfWord
<1>8. EndOf(m) = EndOf(o)
  BY <1>1, <1>2, <1>3, <1>7
<1> QED BY <1>2, <1>3, <1>7, <1>8

\* No term begins a state that goes on.
LEMMA NoTermBegins ==
    ASSUME Given, Stored, stage # "insert", ~NestedTerms, NEW w \in States, NEW k \in 1..(Len(w) - 1)
    PROVE  ~IsMatch(Prefix(w, k))
<1>1. SUFFICES ASSUME IsMatch(Prefix(w, k)) PROVE FALSE
  OBVIOUS
<1>2. w \in Seq(Chars) /\ Len(w) \in Nat /\ Len(<<>>) = 0
  BY RootFacts
<1>3. w # <<>> /\ k \in 0..Len(w) /\ k \in Nat
  BY <1>2
<1>4. PICK i \in 1..inserted : Len(w) <= Len(dict[i][1]) /\ w = Prefix(dict[i][1], Len(w))
  BY <1>3 DEF Stored
<1>5. inserted = Len(dict)
  BY DEF Stored
<1>6. PICK u \in Seq(Chars) : u = dict[i][1]
  BY <1>5, GivenFacts
<1>7. Len(u) \in Nat /\ Len(w) <= Len(u) /\ w = Prefix(u, Len(w))
  BY <1>4, <1>6, LenProperties
<1>8. /\ Prefix(w, k) \in States /\ Len(Prefix(w, k)) = k
      /\ \A j \in 1..k : Prefix(w, k)[j] = w[j]
  BY <1>2, <1>3, PrefixFacts DEF Stored
<1>9. \A j \in 1..Len(w) : w[j] = u[j]
  <2>1. Len(w) \in 0..Len(u)
    BY <1>2, <1>7
  <2>2. \A j \in 1..Len(w) : Prefix(u, Len(w))[j] = u[j]
    BY <2>1, PrefixFacts
  <2> QED BY <1>7, <2>2
<1>10. Part(Prefix(w, k), u, 1)
  <2>1. 1 \in 1..(Len(u) - k + 1)
    BY <1>2, <1>3, <1>7
  <2>2. \A j \in 1..k : Prefix(w, k)[j] = u[1 + j - 1]
    <3> TAKE j \in 1..k
    <3>1. j \in 1..Len(w) /\ 1 + j - 1 = j
      BY <1>2
    <3> QED BY <1>8, <1>9, <3>1
  <2> QED BY <1>8, <2>1, <2>2 DEF Part
<1>11. u \in Words /\ Prefix(w, k) \in Words
  <2>1. Prefix(w, k) \in Words
    BY <1>1, <1>8, WordsAreMatches
  <2>2. i \in DOMAIN dict
    BY <1>5, GivenFacts, LenProperties
  <2>3. u # <<>>
    BY <1>2, <1>3, <1>7
  <2> QED BY <1>6, <2>1, <2>2, <2>3 DEF Words
<1>12. Prefix(w, k) = u
  <2>1. 1 \in Int
    OBVIOUS
  <2> QED BY <1>10, <1>11, <2>1, PartOfWord
<1> QED BY <1>2, <1>7, <1>8, <1>12

\* If no term is any part of another one, no character can be read in a match.
LEMMA TermsGoNowhere ==
    ASSUME Given, Stored, stage # "insert", ~NestedTerms, NEW w \in States, IsMatch(w), NEW c
    PROVE  ~Takes(w, c)
<1>1. w # <<>> /\ w \in Seq(Chars) /\ Len(w) \in Nat /\ Len(w) > 0
  BY RootFacts
<1>2. SUFFICES ASSUME Append(w, c) \in States PROVE FALSE
  BY <1>1 DEF Takes
<1> DEFINE x == Append(w, c)
<1>3. w \in Seq(Chars \cup {c}) /\ c \in Chars \cup {c}
  BY <1>1, SeqMonotonic
<1>4. Len(x) = Len(w) + 1 /\ \A j \in 1..Len(w) : x[j] = w[j]
  BY <1>3, AppendProperties
<1>5. x \in Seq(Chars)
  BY <1>2, RootFacts
<1> HIDE DEF x
<1>6. Len(w) \in 1..(Len(x) - 1) /\ Len(w) \in 0..Len(x)
  BY <1>1, <1>4
<1>7. ~IsMatch(Prefix(x, Len(w)))
  BY <1>2, <1>6, NoTermBegins DEF x
<1>8. Prefix(x, Len(w)) = w
  <2>1. /\ Prefix(x, Len(w)) \in Seq(Chars) /\ Len(Prefix(x, Len(w))) = Len(w)
        /\ \A j \in 1..Len(w) : Prefix(x, Len(w))[j] = x[j]
    BY <1>5, <1>6, PrefixFacts
  <2> QED BY <1>1, <1>4, <2>1, SeqEqual
<1> QED BY <1>7, <1>8

Open == {w \in States : ~IsMatch(w)}

\* If no term is any part of another one, links lose no state that can still
\* match.
LEMMA OpenStatesClosed ==
    ASSUME Given, Stored, Linked, stage # "insert", options = "longest", ~NestedTerms
    PROVE  Closed(Open)
<1>1. ~InnerTerms
  BY NotNestedNotInner
<1> SUFFICES ASSUME NEW w \in Open, w # <<>>
             PROVE  /\ Link(w) \in Open
                    /\ \A v \in States : Ends(v, w) /\ Len(v) < Len(w) => Len(v) <= Len(Link(w))
  BY DEF Closed, Open
<1>2. w \in States /\ ~IsMatch(w) /\ Len(w) \in Nat /\ Link(w) \in States /\ \A v \in States : Len(v) \in Nat
  BY RootFacts DEF Link, Open
<1>3. ~IsMatch(Link(w))
  BY <1>1, <1>2, LinksAvoidMatches
<1>4. LastMatch(w) = 0
  BY <1>2, LastMatchFacts, NoTermBegins
<1>5. Reach(w) = Len(w) - 1
  BY <1>2, <1>4 DEF Reach
<1>6. Best(w)
  BY <1>2 DEF Linked
<1>7. ASSUME NEW v \in States, Ends(v, w), Len(v) < Len(w) PROVE Len(v) <= Len(Link(w))
  <2>1. Len(v) <= Reach(w)
    BY <1>2, <1>5, <1>7
  <2> QED BY <1>2, <1>6, <1>7, <2>1 DEF Best
<1> QED BY <1>2, <1>3, <1>7 DEF Open

\* Where the search goes on: behind the last match
Base(list) == IF list = <<>> THEN 0 ELSE EndOf(LastOf(list))

\* A match is the only occurrence that begins behind the one before it and
\* ends where it does or before; none has been passed behind the last one; and
\* the state is the longest one that begins behind the last match.
OnlyOnes(list) ==
    \A i \in 1..Len(list) : \A m \in Occurrences :
        (i = 1 \/ EndOf(list[i - 1]) <= m.start) /\ EndOf(m) <= EndOf(list[i]) => m = list[i]
NonePassed(c, list) == \A m \in Occurrences : Base(list) <= m.start => ~(EndOf(m) <= c)
LongestSince(f, c, list) ==
    /\ IsMatch(f) => Base(list) = c
    /\ ~IsMatch(f) =>
           /\ Base(list) + Len(f) <= c
           /\ \A v \in States : At(v, c) /\ Base(list) + Len(v) <= c => Len(v) <= Len(f)
Greedy(f, c, list) == OnlyOnes(list) /\ NonePassed(c, list) /\ LongestSince(f, c, list)

\* The place behind the beginning of the last match.
LEMMA BaseFacts ==
    ASSUME Given, Stored, NEW a, Reading(a)
    PROVE  /\ Base(matches) \in Nat /\ Base(matches) <= counter
           /\ matches # <<>> => LastOf(matches).start < Base(matches) /\ LastOf(matches).start \in Nat
<1>1. counter \in Nat
  BY DEF Reading
<1>2. CASE matches = <<>>
  BY <1>1, <1>2 DEF Base
<1>3. CASE matches # <<>>
  <2>1. /\ EndOf(LastOf(matches)) <= counter
        /\ LastOf(matches).start \in Nat /\ LastOf(matches).len \in Nat /\ LastOf(matches).len > 0
        /\ EndOf(LastOf(matches)) = LastOf(matches).start + LastOf(matches).len
    BY <1>3, LastFacts
  <2>2. Base(matches) = EndOf(LastOf(matches))
    BY <1>3 DEF Base
  <2> QED BY <1>1, <2>1, <2>2
<1> QED BY <1>2, <1>3

\* Falling keeps to what begins behind the last match.
LEMMA FallSince ==
    ASSUME Given, Stored, Linked, options = "longest", ~NestedTerms, NEW a, Reading(a),
           LongestSince(s, counter, matches)
    PROVE  /\ Base(matches) + Len(From) <= counter
           /\ \A v \in States : At(v, counter) /\ Base(matches) + Len(v) <= counter /\ Append(v, Char) \in States =>
                  Len(v) <= Len(From)
<1> DEFINE b == Base(matches)
<1>1. b \in Nat /\ b <= counter
  BY BaseFacts
<1>2. /\ s \in States /\ s \in Seq(Chars) /\ Len(s) \in Nat /\ counter \in Nat /\ stage # "insert" /\ At(s, counter)
      /\ Len(<<>>) = 0 /\ counter \in 0..Len(text) /\ text \in Seq(Chars) /\ Len(text) \in Nat
  <2>1. s \in States /\ counter \in Nat /\ stage # "insert" /\ At(s, counter) /\ counter < Len(text)
    BY DEF Reading
  <2>2. text \in Seq(Chars) /\ Len(text) \in Nat
    BY GivenFacts
  <2> QED BY <2>1, <2>2, RootFacts
<1>3. From \in States /\ Len(From) \in Nat /\ Len(From) <= Len(s)
  <2>1. From \in States /\ Len(From) <= Len(s)
    BY NextStateFacts
  <2> QED BY <2>1, RootFacts
<1> HIDE DEF b
<1>4. CASE IsMatch(s)
  <2>1. b = counter
    BY <1>4 DEF LongestSince, b
  <2>2. ~Takes(s, Char)
    BY <1>2, <1>4, TermsGoNowhere
  <2>3. Len(From) <= Len(Link(s))
    BY <2>2, FromFacts
  <2>4. Link(s) = <<>>
    <3>1. ~InnerTerms
      BY NotNestedNotInner
    <3> QED BY <1>2, <1>4, <3>1, LinksAvoidMatches
  <2>5. Len(From) = 0
    BY <1>2, <1>3, <2>3, <2>4
  <2>6. \A v \in States : b + Len(v) <= counter => Len(v) <= Len(From)
    <3> TAKE v \in States
    <3>1. Len(v) \in Nat
      BY RootFacts
    <3> QED BY <1>1, <1>2, <2>1, <2>5, <3>1
  <2> QED BY <1>1, <1>2, <2>1, <2>5, <2>6 DEF b
<1>5. CASE ~IsMatch(s)
  <2>1. /\ b + Len(s) <= counter
        /\ \A v \in States : At(v, counter) /\ b + Len(v) <= counter => Len(v) <= Len(s)
    BY <1>5 DEF LongestSince, b
  <2>2. ASSUME NEW v \in States, At(v, counter), b + Len(v) <= counter, Append(v, Char) \in States
        PROVE  Len(v) <= Len(From)
    <3>1. v \in Seq(Chars) /\ Len(v) <= Len(s)
      BY <2>1, <2>2, RootFacts
    <3>2. Ends(v, s)
      BY <1>2, <2>2, <3>1, ReadFacts
    <3>3. Closed(Open) /\ s \in Open
      BY <1>2, <1>5, OpenStatesClosed DEF Open
    <3> QED BY <2>2, <3>2, <3>3, NextStateFacts
  <2>3. b + Len(From) <= counter
    BY <1>1, <1>2, <1>3, <2>1
  <2> QED BY <2>2, <2>3 DEF b
<1> QED BY <1>4, <1>5

\* The state after the character is the longest one behind the last match.
LEMMA ReadSince ==
    ASSUME Given, Stored, Linked, options = "longest", ~NestedTerms, NEW a, Reading(a),
           LongestSince(s, counter, matches)
    PROVE  /\ Base(matches) + Len(NextState(s, Char)) <= counter + 1
           /\ \A v \in States : At(v, counter + 1) /\ Base(matches) + Len(v) <= counter + 1 =>
                  Len(v) <= Len(NextState(s, Char)) /\ Ends(v, NextState(s, Char))
<1> DEFINE b == Base(matches)
           w == NextState(s, Char)
           e == counter + 1
<1>1. b \in Nat /\ b <= counter
  BY BaseFacts
<1>2. /\ counter \in Nat /\ stage # "insert" /\ e \in 0..Len(text) /\ counter < Len(text)
      /\ Len(<<>>) = 0 /\ text \in Seq(Chars) /\ Len(text) \in Nat
  <2>1. counter \in Nat /\ stage # "insert" /\ counter < Len(text)
    BY DEF Reading
  <2>2. text \in Seq(Chars) /\ Len(text) \in Nat
    BY GivenFacts
  <2> QED BY <2>1, <2>2, RootFacts
<1>3. /\ w = IF Append(From, Char) \in States THEN Append(From, Char) ELSE <<>>
      /\ Append(From, Char) \in States => Len(w) = Len(From) + 1
      /\ Append(From, Char) \notin States => From = <<>>
      /\ At(w, e) /\ w \in States /\ From \in States
  BY NextStateFacts
<1>4. w \in Seq(Chars) /\ Len(w) \in Nat /\ Len(From) \in Nat /\ From \in Seq(Chars)
  BY <1>3, RootFacts
<1>5. /\ b + Len(From) <= counter
      /\ \A v \in States : At(v, counter) /\ b + Len(v) <= counter /\ Append(v, Char) \in States =>
             Len(v) <= Len(From)
  BY FallSince
<1> HIDE DEF b, w
<1>6. b + Len(w) <= e
  BY <1>1, <1>2, <1>3, <1>4, <1>5
<1>7. ASSUME NEW v \in States, At(v, e), b + Len(v) <= e PROVE Len(v) <= Len(w) /\ Ends(v, w)
  <2>1. v \in Seq(Chars) /\ Len(v) \in Nat
    BY RootFacts
  <2>2. Len(v) <= Len(w)
    <3>1. CASE v = <<>>
      BY <1>2, <1>4, <3>1
    <3>2. CASE v # <<>>
      <4> DEFINE u == Prefix(v, Len(v) - 1)
      <4>1. u \in Seq(Chars) /\ Len(u) = Len(v) - 1 /\ At(u, counter) /\ v = Append(u, Char)
        BY <1>2, <1>7, <2>1, <3>2, ReadOneMore DEF Char
      <4>2. Len(v) > 0
        BY <3>2, RootFacts
      <4>3. Len(v) - 1 \in 0..Len(v)
        BY <2>1, <4>2
      <4>4. u \in States
        BY <4>3 DEF Stored
      <4> HIDE DEF u
      <4>5. b + Len(u) <= counter
        BY <1>1, <1>2, <1>7, <2>1, <4>1
      <4>6. Len(u) <= Len(From)
        BY <1>5, <4>1, <4>4, <4>5
      <4>7. CASE Append(From, Char) \in States
        BY <1>3, <1>4, <2>1, <4>1, <4>6, <4>7
      <4>8. CASE Append(From, Char) \notin States
        <5>1. From = <<>> /\ Len(u) = 0
          BY <1>2, <1>3, <2>1, <4>1, <4>2, <4>6, <4>8
        <5>2. u = <<>>
          BY <4>1, <5>1, EmptySeq
        <5> QED BY <4>1, <4>8, <5>1, <5>2
      <4> QED BY <4>7, <4>8
    <3> QED BY <3>1, <3>2
  <2>3. Ends(v, w)
    BY <1>2, <1>3, <1>4, <1>7, <2>1, <2>2, ReadFacts
  <2> QED BY <2>2, <2>3
<1> QED BY <1>6, <1>7 DEF b, w

\* A term that ends at this character and begins behind the last match is the
\* state.
LEMMA EndsAreStates ==
    ASSUME Given, Stored, Linked, options = "longest", ~NestedTerms, NEW a, Reading(a),
           LongestSince(s, counter, matches),
           NEW m \in Occurrences, EndOf(m) = counter + 1, Base(matches) <= m.start
    PROVE  IsMatch(NextState(s, Char))
<1> DEFINE w == NextState(s, Char)
           e == counter + 1
<1>1. /\ counter \in Nat /\ stage # "insert" /\ e \in 0..Len(text) /\ text \in Seq(Chars) /\ Len(text) \in Nat
  <2>1. counter \in Nat /\ stage # "insert" /\ counter < Len(text)
    BY DEF Reading
  <2>2. text \in Seq(Chars) /\ Len(text) \in Nat
    BY GivenFacts
  <2> QED BY <2>1, <2>2
<1>2. m.start \in Nat /\ m.len \in Nat /\ EndOf(m) = m.start + m.len
  BY <1>1, OccurrenceIsMatch
<1>3. PICK v \in States : IsMatch(v) /\ At(v, EndOf(m)) /\ Len(v) = m.len
  BY <1>1, OccurrenceIsMatch
<1>4. Base(matches) + Len(v) <= e /\ At(v, e)
  <2>1. Base(matches) \in Nat
    BY BaseFacts
  <2> QED BY <1>1, <1>2, <1>3, <2>1
<1>5. Len(v) <= Len(w) /\ Ends(v, w)
  BY <1>4, ReadSince
<1>6. w \in States /\ w \in Seq(Chars) /\ Len(w) \in Nat /\ At(w, e) /\ v \in Seq(Chars) /\ Len(v) \in Nat
  <2>1. w \in States /\ At(w, e)
    BY NextStateFacts
  <2> QED BY <2>1, RootFacts
<1> HIDE DEF w
<1>7. CASE Len(v) = Len(w)
  <2>1. v = w
    BY <1>1, <1>4, <1>6, <1>7, ReadFacts
  <2> QED BY <1>3, <2>1 DEF w
<1>8. CASE Len(v) # Len(w)
  <2>1. Len(v) < Len(w)
    BY <1>5, <1>6, <1>8
  <2>2. ~InnerTerms
    BY NotNestedNotInner
  <2>3. IsMatch(w)
    BY <1>1, <1>3, <1>5, <1>6, <2>1, <2>2, EndsHoldNoMatch
  <2> QED BY <2>3 DEF w
<1> QED BY <1>7, <1>8

\* Reading one character keeps every match the first that begins behind the
\* last one.
LEMMA ReadKeepsGreedy ==
    ASSUME Given, Stored, Linked, options = "longest", ~NestedTerms, NEW a, Reading(a), ac_search,
           Greedy(s, counter, matches)
    PROVE  Greedy(NextState(s, Char), counter + 1, matches')
<1> DEFINE w == NextState(s, Char)
           e == counter + 1
           b == Base(matches)
           o == MatchAt(w, e)
           L == Len(matches)
<1>1. /\ counter \in Nat /\ stage # "insert" /\ e \in 0..Len(text) /\ w \in States /\ At(w, e) /\ Len(w) \in Nat
      /\ L \in Nat /\ matches \in Seq(Held(a, counter)) /\ Len(text) \in Nat
  <2>1. counter \in Nat /\ stage # "insert" /\ counter < Len(text) /\ matches \in Seq(Held(a, counter))
    BY DEF Reading
  <2>2. w \in States /\ At(w, e)
    BY NextStateFacts
  <2>3. Len(text) \in Nat
    BY GivenFacts
  <2> QED BY <2>1, <2>2, <2>3, RootFacts, LenProperties
<1>2. OnlyOnes(matches) /\ NonePassed(counter, matches) /\ LongestSince(s, counter, matches)
  BY DEF Greedy
<1>3. b \in Nat /\ b <= counter /\ (matches # <<>> => LastOf(matches).start < b /\ LastOf(matches).start \in Nat)
  BY BaseFacts
<1>4. /\ b + Len(w) <= e
      /\ \A v \in States : At(v, e) /\ b + Len(v) <= e => Len(v) <= Len(w)
  BY <1>2, ReadSince
<1>5. \A m \in Occurrences : EndOf(m) = e /\ b <= m.start => IsMatch(w)
  BY <1>2, EndsAreStates
<1>6. \A m \in Occurrences : EndOf(m) \in Nat /\ m.start \in Nat /\ m.len \in Nat /\ m.len > 0 /\ EndOf(m) = m.start + m.len
  <2> TAKE m \in Occurrences
  <2>1. m.start \in Nat /\ m.len \in Nat /\ m.len > 0 /\ EndOf(m) = m.start + m.len
    BY <1>1, OccurrenceIsMatch
  <2> QED BY <2>1
<1>7. \A m \in Occurrences : b <= m.start /\ EndOf(m) <= e => EndOf(m) = e
  <2> TAKE m \in Occurrences
  <2>1. b <= m.start => ~(EndOf(m) <= counter)
    BY <1>2 DEF NonePassed, b
  <2>2. EndOf(m) \in Nat
    BY <1>6
  <2> QED BY <1>1, <2>1, <2>2
<1>8. matches' = IF IsMatch(w) THEN match_append(matches, o) ELSE matches
  <2>1. ~InnerTerms
    BY NotNestedNotInner
  <2> QED BY <2>1, OneEnded
<1> HIDE DEF w, b, o
<1>9. CASE ~IsMatch(w)
  <2>1. matches' = matches
    BY <1>8, <1>9
  <2>2. NonePassed(e, matches)
    BY <1>5, <1>7, <1>9 DEF NonePassed, b
  <2>3. LongestSince(w, e, matches)
    BY <1>4, <1>9 DEF LongestSince, b
  <2>4. Greedy(w, e, matches')
    BY <1>2, <2>1, <2>2, <2>3 DEF Greedy
  <2> QED BY <2>4 DEF w
<1>10. CASE IsMatch(w)
  <2>1. o \in Occurrences /\ EndOf(o) = e /\ o.start = e - Len(w) /\ o.len = Len(w)
    BY <1>1, <1>10, MatchIsOccurrence DEF o
  <2>2. b <= o.start /\ o.start \in Nat
    BY <1>1, <1>3, <1>4, <1>6, <2>1
  <2>3. ~(matches # <<>> /\ matches[Len(matches)].start = o.start)
    BY <1>3, <2>2 DEF LastOf
  <2>4. matches' = Append(matches, o)
    BY <1>8, <1>10, <2>3 DEF match_append
  <2>5. /\ Len(matches') = L + 1
        /\ \A j \in 1..L : matches'[j] = matches[j]
        /\ matches'[L + 1] = o
    <3>1. matches \in Seq(Held(a, counter) \cup {o}) /\ o \in Held(a, counter) \cup {o}
      BY <1>1, SeqMonotonic
    <3> QED BY <2>4, <3>1, AppendProperties
  <2>6. matches' # <<>> /\ LastOf(matches') = o
    <3>1. matches' # <<>>
      <4>1. Len(<<>>) = 0
        BY RootFacts
      <4> QED BY <1>1, <2>5, <4>1
    <3> QED BY <2>5, <3>1 DEF LastOf
  <2>7. Base(matches') = e
    BY <2>1, <2>6 DEF Base
  <2>8. ASSUME NEW i \in 1..(L + 1), NEW m \in Occurrences,
               i = 1 \/ EndOf(matches'[i - 1]) <= m.start, EndOf(m) <= EndOf(matches'[i])
        PROVE  m = matches'[i]
    <3>1. CASE i <= L
      <4>1. i \in 1..L /\ matches'[i] = matches[i] /\ (i # 1 => matches'[i - 1] = matches[i - 1])
        BY <1>1, <2>5, <3>1
      <4> QED BY <1>2, <2>8, <4>1 DEF OnlyOnes
    <3>2. CASE ~(i <= L)
      <4>1. i = L + 1 /\ matches'[i] = o
        BY <1>1, <2>5, <3>2
      <4>2. b <= m.start
        <5>1. CASE matches = <<>>
          <6>1. b = 0
            BY <5>1 DEF b, Base
          <6> QED BY <1>6, <6>1
        <5>2. CASE matches # <<>>
          <6>1. L # 0
            BY <1>1, <5>2, EmptySeq
          <6>2. i # 1 /\ i - 1 = L /\ L \in 1..L
            BY <1>1, <4>1, <6>1
          <6>3. matches'[i - 1] = LastOf(matches)
            BY <2>5, <6>2 DEF LastOf
          <6> QED BY <2>8, <5>2, <6>2, <6>3 DEF b, Base
        <5> QED BY <5>1, <5>2
      <4>3. EndOf(m) = e
        BY <1>7, <2>1, <2>8, <4>1, <4>2
      <4>4. m.start \in Nat /\ EndOf(o) \in Int /\ EndOf(m) <= EndOf(o) /\ EndOf(o) <= EndOf(m)
        BY <1>6, <2>1, <4>3
      <4>5. CASE o.start <= m.start
        BY <1>1, <2>1, <4>1, <4>4, <4>5, NestedOccurrences
      <4>6. CASE ~(o.start <= m.start)
        <5>1. m.start <= o.start
          BY <2>2, <4>4, <4>6
        <5> QED BY <1>1, <2>1, <4>1, <4>4, <5>1, NestedOccurrences
      <4> QED BY <4>5, <4>6
    <3> QED BY <3>1, <3>2
  <2>9. OnlyOnes(matches')
    BY <2>5, <2>8 DEF OnlyOnes
  <2>10. NonePassed(e, matches')
    <3> SUFFICES ASSUME NEW m \in Occurrences, e <= m.start, EndOf(m) <= e PROVE FALSE
      BY <2>7 DEF NonePassed
    <3>1. m.start \in Nat /\ m.len \in Nat /\ m.len > 0 /\ EndOf(m) = m.start + m.len
      BY <1>6
    <3> QED BY <1>1, <3>1
  <2>11. LongestSince(w, e, matches')
    BY <1>10, <2>7 DEF LongestSince
  <2>12. Greedy(w, e, matches')
    BY <2>9, <2>10, <2>11 DEF Greedy
  <2> QED BY <2>12 DEF w
<1> QED BY <1>9, <1>10

-----------------------------------------------------------------------------
(* The scan from left to right.                                            *)

Begun(i) == {m \in Occurrences : m.start = i}
LongestAt(i) == CHOOSE m \in Begun(i) : \A o \in Begun(i) : o.len <= m.len

\* The results of the scan from each place
Scanned(f) ==
    /\ Scan = f[0] /\ f[Len(text)] = <<>>
    /\ \A i \in 0..(Len(text) - 1) :
           /\ Begun(i) = {} => f[i] = f[i + 1]
           /\ \A m \in Begun(i) : f[i] = <<m>> \o f[EndOf(m)]

\* If no term is any part of another one, at most one term begins at a place.
LEMMA OneBegins ==
    ASSUME Given, Stored, stage # "insert", ~NestedTerms, NEW i, NEW m \in Begun(i)
    PROVE  LongestAt(i) = m /\ m \in Occurrences /\ m.start = i
<1>1. \A x \in Begun(i) : x \in Occurrences /\ x.start = i
  BY DEF Begun
<1>2. ASSUME NEW o \in Begun(i) PROVE o = m
  <2>1. /\ m.start \in Nat /\ EndOf(m) \in 0..Len(text) /\ m.start = i
        /\ o.start \in Nat /\ EndOf(o) \in 0..Len(text) /\ o.start = i
    BY <1>1, OccurrenceIsMatch
  <2>2. CASE EndOf(m) <= EndOf(o)
    BY <1>1, <2>1, <2>2, NestedOccurrences
  <2>3. CASE EndOf(o) <= EndOf(m)
    BY <1>1, <2>1, <2>3, NestedOccurrences
  <2> QED BY <2>1, <2>2, <2>3
<1>3. m.len \in Nat
  BY <1>1, OccurrenceIsMatch
<1>4. \A o \in Begun(i) : o.len <= m.len
  <2>1. m.len <= m.len
    BY <1>3
  <2> QED BY <1>2, <2>1
<1>5. LongestAt(i) \in Begun(i)
  BY <1>4 DEF LongestAt
<1> QED BY <1>1, <1>2, <1>5

\* The recursive function of Scan exists: each step goes to a later place.
LEMMA ScanEquation ==
    ASSUME Given, Stored, stage # "insert", ~NestedTerms
    PROVE  \E f : Scanned(f)
<1> DEFINE T == Len(text)
           Eq(f) == f = [i \in 0..Len(text) |->
               IF i = Len(text) THEN <<>>
               ELSE IF Begun(i) = {} THEN f[i + 1]
               ELSE <<LongestAt(i)>> \o f[EndOf(LongestAt(i))]]
           f == CHOOSE g : Eq(g)
           S == 0..T
           stop == {T}
           base == [i \in S |-> <<>>]
           own == [i \in S |-> IF Begun(i) = {} THEN <<>> ELSE <<LongestAt(i)>>]
           up == [i \in S |-> IF Begun(i) = {} THEN i + 1 ELSE EndOf(LongestAt(i))]
           rank == [i \in S |-> T - i]
<1>1. T \in Nat
  BY GivenFacts
<1>2. \A i \in S : Begun(i) # {} => /\ LongestAt(i) \in Occurrences /\ EndOf(LongestAt(i)) \in S
                                    /\ i < EndOf(LongestAt(i))
  <2> SUFFICES ASSUME NEW i \in S, NEW m \in Begun(i)
               PROVE  /\ LongestAt(i) \in Occurrences /\ EndOf(LongestAt(i)) \in S
                      /\ i < EndOf(LongestAt(i))
    OBVIOUS
  <2>1. LongestAt(i) = m /\ m \in Occurrences /\ m.start = i
    BY OneBegins
  <2>2. EndOf(m) \in S /\ EndOf(m) = m.start + m.len /\ m.start \in Nat /\ m.len \in Nat /\ m.len > 0
    BY <2>1, OccurrenceIsMatch
  <2> QED BY <2>1, <2>2
<1>3. \A x \in S : /\ rank[x] \in 0..T
                   /\ x \in stop => base[x] \in Seq(Occurrences)
                   /\ x \notin stop => /\ own[x] \in Seq(Occurrences) /\ up[x] \in S
                                       /\ rank[up[x]] < rank[x]
  <2> TAKE x \in S
  <2>1. T - x \in 0..T /\ <<>> \in Seq(Occurrences)
    BY <1>1
  <2>2. ASSUME x # T PROVE own[x] \in Seq(Occurrences) /\ up[x] \in S /\ x < up[x]
    <3>1. CASE Begun(x) = {}
      BY <1>1, <2>2, <3>1
    <3>2. CASE Begun(x) # {}
      BY <1>2, <2>2, <3>2
    <3> QED BY <3>1, <3>2
  <2>3. \A y \in S : x < y => T - y < T - x
    BY <1>1
  <2> QED BY <2>1, <2>2, <2>3
<1>4. \A x \in S : /\ base[x] = <<>>
                   /\ own[x] = IF Begun(x) = {} THEN <<>> ELSE <<LongestAt(x)>>
                   /\ up[x] = IF Begun(x) = {} THEN x + 1 ELSE EndOf(LongestAt(x))
                   /\ x \in stop <=> x = T
  OBVIOUS
<1> HIDE DEF stop, base, own, up, rank
<1>5. PICK out \in [S -> Seq(Occurrences)] : Follows(out, S, stop, base, own, up)
  BY <1>1, <1>3, FollowedExists
<1>6. \A i \in S : out[i] = IF i = Len(text) THEN <<>>
                            ELSE IF Begun(i) = {} THEN out[i + 1]
                            ELSE <<LongestAt(i)>> \o out[EndOf(LongestAt(i))]
  <2> TAKE i \in S
  <2>1. out[i] = IF i \in stop THEN base[i] ELSE own[i] \o out[up[i]]
    BY <1>5 DEF Follows
  <2>2. CASE i = T
    BY <1>4, <2>1, <2>2
  <2>3. CASE i # T /\ Begun(i) = {}
    <3>1. i + 1 \in S
      BY <1>1, <2>3
    <3>2. out[i + 1] \in Seq(Occurrences)
      BY <3>1
    <3>3. <<>> \o out[i + 1] = out[i + 1]
      BY <3>2, ConcatEmptySeq
    <3> QED BY <1>4, <2>1, <2>3, <3>3
  <2>4. CASE i # T /\ Begun(i) # {}
    BY <1>4, <2>1, <2>4
  <2> QED BY <2>2, <2>3, <2>4
<1>7. Eq(out)
  BY <1>6
<1>8. Eq(f)
  <2> HIDE DEF Eq
  <2> QED BY <1>7
<1>9. Scan = f[0]
  BY DEF Scan, Begun, LongestAt
<1> HIDE DEF f
<1>10. \A i \in 0..T : f[i] = IF i = T THEN <<>>
                              ELSE IF Begun(i) = {} THEN f[i + 1]
                              ELSE <<LongestAt(i)>> \o f[EndOf(LongestAt(i))]
  BY <1>8
<1>11. f[T] = <<>>
  <2>1. T \in 0..T
    BY <1>1
  <2> HIDE DEF T
  <2> QED BY <1>10, <2>1
<1>12. ASSUME NEW i \in 0..(T - 1)
       PROVE  /\ Begun(i) = {} => f[i] = f[i + 1]
              /\ \A m \in Begun(i) : f[i] = <<m>> \o f[EndOf(m)]
  <2>1. i \in 0..T /\ i # T
    BY <1>1
  <2>2. \A m \in Begun(i) : LongestAt(i) = m
    BY OneBegins
  <2> QED BY <1>10, <2>1, <2>2
<1> QED BY <1>9, <1>11, <1>12 DEF Scanned

\* A list from its k-th element on is that element and the rest.
LEMMA SuffixStep ==
    ASSUME NEW C, NEW l \in Seq(C), NEW k \in 1..Len(l)
    PROVE  Suffix(l, k) = <<l[k]>> \o Suffix(l, k + 1)
<1>1. Len(l) \in Nat /\ k + 1 \in 1..(Len(l) + 1) /\ k \in 1..(Len(l) + 1) /\ l[k] \in C /\ k \in Nat
  BY LenProperties, ElementOfSeq
<1>2. /\ Suffix(l, k) \in Seq(C) /\ Len(Suffix(l, k)) = Len(l) - k + 1
      /\ \A j \in 1..(Len(l) - k + 1) : Suffix(l, k)[j] = l[k + j - 1]
  BY <1>1, SuffixFacts
<1>3. /\ Suffix(l, k + 1) \in Seq(C) /\ Len(Suffix(l, k + 1)) = Len(l) - (k + 1) + 1
      /\ \A j \in 1..(Len(l) - (k + 1) + 1) : Suffix(l, k + 1)[j] = l[(k + 1) + j - 1]
  BY <1>1, SuffixFacts
<1> DEFINE r == Suffix(l, k + 1)
           t == <<l[k]>>
<1>4. t \in Seq(C) /\ Len(t) = 1 /\ t[1] = l[k]
  BY <1>1
<1> HIDE DEF r, t
<1>5. /\ t \o r \in Seq(C) /\ Len(t \o r) = 1 + Len(r)
      /\ \A j \in 1..(1 + Len(r)) : (t \o r)[j] = IF j <= 1 THEN t[j] ELSE r[j - 1]
  <2>1. r \in Seq(C)
    BY <1>3 DEF r
  <2>2. /\ t \o r \in Seq(C) /\ Len(t \o r) = Len(t) + Len(r)
        /\ \A j \in 1..(Len(t) + Len(r)) : (t \o r)[j] = IF j <= Len(t) THEN t[j] ELSE r[j - Len(t)]
    BY <1>4, <2>1, ConcatProperties
  <2> QED BY <1>4, <2>2
<1>6. Len(r) = Len(l) - k /\ Len(l) - k \in Nat
  BY <1>1, <1>3 DEF r
<1>7. \A j \in 1..(Len(l) - k + 1) : (t \o r)[j] = Suffix(l, k)[j]
  <2> TAKE j \in 1..(Len(l) - k + 1)
  <2>1. CASE j = 1
    <3>1. (t \o r)[j] = t[1] /\ k + j - 1 = k
      BY <1>1, <1>5, <1>6, <2>1
    <3> QED BY <1>2, <1>4, <3>1
  <2>2. CASE j # 1
    <3>1. j - 1 \in 1..(Len(l) - (k + 1) + 1) /\ j \in 1..(1 + Len(r)) /\ ~(j <= 1) /\ (k + 1) + (j - 1) - 1 = k + j - 1
      BY <1>1, <1>6, <2>2
    <3>2. (t \o r)[j] = r[j - 1] /\ r[j - 1] = l[k + j - 1]
      BY <1>3, <1>5, <3>1 DEF r
    <3> QED BY <1>2, <3>2
  <2> QED BY <2>1, <2>2
<1>8. Len(t \o r) = Len(Suffix(l, k))
  BY <1>1, <1>2, <1>5, <1>6
<1>9. Suffix(l, k) = t \o r
  BY <1>2, <1>5, <1>7, <1>8, SeqEqual
<1> QED BY <1>9 DEF t, r

\* Before and after a place that no match covers
At2(j, k) == /\ \A i \in 1..(k - 1) : EndOf(matches[i]) <= j
             /\ \A i \in k..Len(matches) : j <= matches[i].start

\* Matches of which each is the only occurrence that begins at its place, that
\* pass over none and are disjoint, are what the scan from left to right finds.
LEMMA GreedyIsScan ==
    ASSUME Given, Stored, stage # "insert", ~NestedTerms, matches \in Seq(Occurrences),
           OnlyOnes(matches), NonePassed(Len(text), matches), Disjoint(matches)
    PROVE  matches = Scan
<1> DEFINE L == Len(matches)
           T == Len(text)
<1>1. L \in Nat /\ T \in Nat /\ DOMAIN matches = 1..L
  BY GivenFacts, LenProperties
<1>2. \A i \in 1..L : matches[i] \in Occurrences
  BY ElementOfSeq
<1>3. \A m \in Occurrences : /\ m.start \in Nat /\ m.len \in Nat /\ m.len > 0 /\ EndOf(m) = m.start + m.len
                             /\ EndOf(m) \in 0..T
  BY OccurrenceIsMatch
<1>4. PICK f : Scanned(f)
  BY ScanEquation
<1> DEFINE Good(j) == \A k \in 1..(L + 1) : At2(j, k) => f[j] = Suffix(matches, k)
<1>5. Good(T)
  <2> SUFFICES ASSUME NEW k \in 1..(L + 1), At2(T, k) PROVE f[T] = Suffix(matches, k)
    OBVIOUS
  <2>1. k = L + 1
    <3>1. SUFFICES ASSUME k <= L PROVE FALSE
      BY <1>1
    <3>2. k \in 1..L /\ k \in k..L
      BY <1>1, <3>1
    <3>3. T <= matches[k].start
      BY <3>2 DEF At2
    <3>4. matches[k] \in Occurrences
      BY <1>2, <3>2
    <3>5. /\ matches[k].start \in Nat /\ matches[k].len \in Nat /\ matches[k].len > 0
          /\ EndOf(matches[k]) = matches[k].start + matches[k].len /\ EndOf(matches[k]) <= T
      BY <1>1, <1>3, <3>4
    <3> HIDE DEF T
    <3> QED BY <1>1, <3>3, <3>5
  <2>2. Suffix(matches, L + 1) = <<>>
    <3>1. L + 1 \in 1..(L + 1)
      BY <1>1
    <3>2. Suffix(matches, L + 1) \in Seq(Occurrences) /\ Len(Suffix(matches, L + 1)) = L - (L + 1) + 1
      BY <3>1, SuffixFacts
    <3>3. Len(Suffix(matches, L + 1)) = 0
      BY <1>1, <3>2
    <3> QED BY <3>2, <3>3, EmptySeq
  <2>3. f[T] = <<>>
    BY <1>4 DEF Scanned
  <2> QED BY <2>1, <2>2, <2>3
<1>6. ASSUME NEW j \in 0..(T - 1), \A h \in (j + 1)..T : Good(h) PROVE Good(j)
  <2> SUFFICES ASSUME NEW k \in 1..(L + 1), At2(j, k) PROVE f[j] = Suffix(matches, k)
    OBVIOUS
  <2>1. j \in Nat /\ j + 1 \in (j + 1)..T /\ k \in Nat
    BY <1>1
  <2>2. CASE Begun(j) = {}
    <3>1. At2(j + 1, k)
      <4>1. ASSUME NEW i \in 1..(k - 1) PROVE EndOf(matches[i]) <= j + 1
        <5>1. EndOf(matches[i]) <= j /\ i \in 1..L
          BY <1>1, <2>1 DEF At2
        <5>2. EndOf(matches[i]) \in Int
          BY <1>1, <1>2, <1>3, <5>1
        <5> QED BY <2>1, <5>1, <5>2
      <4>2. ASSUME NEW i \in k..L PROVE j + 1 <= matches[i].start
        <5>1. j <= matches[i].start /\ i \in 1..L
          BY <1>1, <2>1 DEF At2
        <5>2. matches[i].start # j /\ matches[i].start \in Nat
          BY <1>2, <1>3, <2>2, <5>1 DEF Begun
        <5> QED BY <2>1, <5>1, <5>2
      <4> QED BY <4>1, <4>2 DEF At2
    <3>2. f[j + 1] = Suffix(matches, k)
      BY <1>6, <2>1, <3>1
    <3>3. f[j] = f[j + 1]
      BY <1>4, <2>2 DEF Scanned
    <3> QED BY <3>2, <3>3
  <2>3. ASSUME NEW m \in Begun(j) PROVE f[j] = Suffix(matches, k)
    <3>1. m \in Occurrences /\ m.start = j
      BY <2>3 DEF Begun
    <3>2. m.len \in Nat /\ m.len > 0 /\ EndOf(m) = j + m.len /\ EndOf(m) \in 0..T
      BY <1>3, <3>1
    <3>3. k # L + 1
      <4>1. SUFFICES ASSUME k = L + 1 PROVE FALSE
        OBVIOUS
      <4>2. Base(matches) <= j
        <5>1. CASE matches = <<>>
          BY <2>1, <5>1 DEF Base
        <5>2. CASE matches # <<>>
          <6>1. L # 0
            BY <5>2, EmptySeq
          <6>2. L \in 1..(k - 1)
            BY <1>1, <4>1, <6>1
          <6>3. EndOf(matches[L]) <= j
            BY <6>2 DEF At2
          <6> QED BY <5>2, <6>3 DEF Base, LastOf
        <5> QED BY <5>1, <5>2
      <4>3. EndOf(m) <= T
        BY <1>1, <3>2
      <4> QED BY <3>1, <4>2, <4>3 DEF NonePassed
    <3>4. k \in 1..L /\ k \in k..L
      BY <1>1, <3>3
    <3>5. j <= matches[k].start /\ matches[k] \in Occurrences /\ EndOf(matches[k]) \in 0..T
      BY <1>2, <1>3, <3>4 DEF At2
    <3>6. m = matches[k]
      <4>1. CASE EndOf(m) <= EndOf(matches[k])
        <5>1. k = 1 \/ EndOf(matches[k - 1]) <= m.start
          <6>1. k # 1 => k - 1 \in 1..(k - 1)
            BY <2>1, <3>4
          <6> QED BY <3>1, <6>1 DEF At2
        <5> QED BY <3>1, <3>4, <4>1, <5>1 DEF OnlyOnes
      <4>2. CASE ~(EndOf(m) <= EndOf(matches[k]))
        <5>1. EndOf(matches[k]) <= EndOf(m) /\ m.start <= matches[k].start
          BY <1>1, <3>1, <3>2, <3>5, <4>2
        <5> QED BY <3>1, <3>5, <5>1, NestedOccurrences
      <4> QED BY <4>1, <4>2
    <3>7. At2(EndOf(m), k + 1)
      <4>1. ASSUME NEW i \in 1..((k + 1) - 1) PROVE EndOf(matches[i]) <= EndOf(m)
        <5>1. CASE i = k
          BY <1>1, <3>2, <3>6, <5>1
        <5>2. CASE i # k
          <6>1. i \in 1..(k - 1) /\ i \in 1..L
            BY <1>1, <2>1, <3>4, <5>2
          <6>2. EndOf(matches[i]) <= j /\ EndOf(matches[i]) \in 0..T
            BY <1>2, <1>3, <6>1 DEF At2
          <6> QED BY <1>1, <2>1, <3>2, <6>2
        <5> QED BY <5>1, <5>2
      <4>2. ASSUME NEW i \in (k + 1)..L PROVE EndOf(m) <= matches[i].start
        <5>1. k < i /\ i \in 1..L
          BY <1>1, <2>1, <3>4
        <5> QED BY <1>1, <3>4, <3>6, <5>1 DEF Disjoint
      <4> QED BY <4>1, <4>2 DEF At2
    <3>8. EndOf(m) \in (j + 1)..T /\ k + 1 \in 1..(L + 1)
      BY <1>1, <2>1, <3>2, <3>4
    <3>9. f[EndOf(m)] = Suffix(matches, k + 1)
      BY <1>6, <3>7, <3>8
    <3>10. f[j] = <<m>> \o f[EndOf(m)]
      BY <1>4, <2>3 DEF Scanned
    <3>11. Suffix(matches, k) = <<matches[k]>> \o Suffix(matches, k + 1)
      BY <3>4, SuffixStep
    <3> QED BY <3>6, <3>9, <3>10, <3>11
  <2> QED BY <2>2, <2>3
<1> HIDE DEF Good
<1>7. \A j \in 0..T : Good(j)
  <2> DEFINE Bad == {j \in 0..T : ~Good(j)}
  <2>1. SUFFICES ASSUME Bad # {} PROVE FALSE
    OBVIOUS
  <2>2. Bad \subseteq 0..T /\ \A x \in 0..T : x \in Bad <=> ~Good(x)
    OBVIOUS
  <2> HIDE DEF Bad
  <2>3. PICK j \in Bad : \A y \in Bad : y <= j
    BY <1>1, <2>1, <2>2, GreatestNumber
  <2>4. j \in 0..T /\ ~Good(j) /\ j # T
    BY <1>5, <2>2, <2>3
  <2>5. j \in 0..(T - 1)
    BY <1>1, <2>4
  <2>6. \A h \in (j + 1)..T : Good(h)
    <3> TAKE h \in (j + 1)..T
    <3>1. h \in 0..T /\ ~(h <= j)
      BY <1>1, <2>5
    <3> QED BY <2>2, <2>3, <3>1
  <2> QED BY <1>6, <2>4, <2>5, <2>6
<1>8. 0 \in 0..T /\ 1 \in 1..(L + 1)
  BY <1>1
<1>9. At2(0, 1)
  <2>1. 1..(1 - 1) = {}
    OBVIOUS
  <2>2. \A i \in 1..L : 0 <= matches[i].start
    BY <1>2, <1>3
  <2> QED BY <2>1, <2>2 DEF At2
<1>10. f[0] = Suffix(matches, 1)
  BY <1>7, <1>8, <1>9 DEF Good
<1>11. Suffix(matches, 1) = matches
  <2>1. Ends(matches, matches)
    BY EndsOfEnds
  <2>2. matches = Suffix(matches, L - L + 1)
    BY <2>1, EndsIsSuffix
  <2>3. L - L + 1 = 1
    BY <1>1
  <2> QED BY <2>2, <2>3
<1> QED BY <1>4, <1>10, <1>11 DEF Scanned

\* The search of the whole text, before it is split.
FromTheLeft ==
    options = "longest" /\ ~NestedTerms /\ here = 1 =>
        /\ stage \in {"insert", "visit", "search"} => chain[1].type = "text" /\ EndOf(chain[1]) = Len(text)
        /\ stage = "search" => Greedy(s, counter, matches)
        /\ stage = "split" => OnlyOnes(matches) /\ NonePassed(Len(text), matches)

\* There are no matches at the beginning.
LEMMA InitFromTheLeft == Init => FromTheLeft
<1> SUFFICES ASSUME Init PROVE stage = "insert" /\ chain[1].type = "text" /\ EndOf(chain[1]) = Len(text)
  BY DEF FromTheLeft
<1>1. PICK behind \in BOOLEAN : chain = Spread(text, behind)
  BY DEF Init
<1> DEFINE p == [start |-> 0, len |-> Len(text), type |-> "text"]
           q == [start |-> Len(text), len |-> 1, type |-> "other"]
<1>2. Len(text) \in Nat /\ p.type = "text" /\ EndOf(p) = Len(text)
  BY InitStored, GivenFacts DEF EndOf
<1>3. chain[1] = p
  <2> HIDE DEF p, q
  <2>1. <<p>> \in Seq({p, q}) /\ <<q>> \in Seq({p, q}) /\ Len(<<p>>) = 1 /\ Len(<<q>>) = 1 /\ <<p>>[1] = p
    OBVIOUS
  <2>2. (<<p>> \o <<q>>)[1] = <<p>>[1]
    <3>1. 1 \in 1..(Len(<<p>>) + Len(<<q>>)) /\ 1 <= Len(<<p>>)
      BY <2>1
    <3> QED BY <2>1, <3>1, ConcatProperties
  <2>3. <<p>> \o <<>> = <<p>>
    BY <2>1
  <2> QED BY <1>1, <2>1, <2>2, <2>3 DEF Spread, p, q
<1> QED BY <1>2, <1>3 DEF Init

\* Every step keeps the matches those of a scan from the left.
LEMMA NextKeepsFromTheLeft == IInv /\ FromTheLeft /\ [Next]_vars => FromTheLeft'
<1> SUFFICES ASSUME IInv, FromTheLeft, [Next]_vars, options' = "longest", ~NestedTerms', here' = 1
             PROVE  /\ stage' \in {"insert", "visit", "search"} =>
                           chain'[1].type = "text" /\ EndOf(chain'[1]) = Len(text')
                    /\ stage' = "search" => Greedy(s, counter, matches)'
                    /\ stage' = "split" => OnlyOnes(matches)' /\ NonePassed(Len(text), matches)'
  BY DEF FromTheLeft, EndOf
<1>1. UNCHANGED <<dict, text, options>> /\ Occurrences' = Occurrences /\ options = "longest" /\ ~NestedTerms
  BY SameText
<1>2. Given /\ Stored /\ Linked /\ Chained(chain) /\ Positions
  BY DEF IInv
<1>3. here \in Nat /\ here >= 1 /\ Len(text) \in Nat
  BY <1>2, GivenFacts DEF Positions
<1>4. here = 1 =>
        /\ stage \in {"insert", "visit", "search"} => chain[1].type = "text" /\ EndOf(chain[1]) = Len(text)
        /\ stage = "search" => Greedy(s, counter, matches)
        /\ stage = "split" => OnlyOnes(matches) /\ NonePassed(Len(text), matches)
  BY <1>1 DEF FromTheLeft
<1>5. UNCHANGED matches => (OnlyOnes(matches) => OnlyOnes(matches)')
                           /\ (NonePassed(Len(text), matches) => NonePassed(Len(text), matches)')
  BY <1>1 DEF OnlyOnes, NonePassed, Base, LastOf, EndOf
<1>6. CASE ac_insert \/ ac_prepare
  <2>1. UNCHANGED <<chain, here>> /\ stage = "insert" /\ stage' \in {"insert", "visit"}
    BY <1>6 DEF ac_insert, ac_prepare
  <2> QED BY <1>1, <1>4, <2>1
<1>7. CASE Visit
  <2>1. /\ UNCHANGED <<chain, here, trie, inserted>> /\ stage = "visit" /\ stage' = "search" /\ s' = <<>>
        /\ matches' = <<>> /\ counter' = chain[here].start /\ here = 1
    BY <1>7 DEF Visit
  <2>2. counter' = 0
    BY <1>2, <2>1 DEF Chained
  <2>3. States' = States /\ \A w : IsMatch(w)' = IsMatch(w)
    BY <2>1 DEF States, IsMatch
  <2>4. ~IsMatch(<<>>) /\ Len(<<>>) = 0
    BY <1>2, RootFacts
  <2>5. OnlyOnes(matches)'
    BY <2>1, <2>4 DEF OnlyOnes
  <2>6. NonePassed(counter, matches)'
    <3>1. \A m \in Occurrences : ~(EndOf(m) <= 0)
      <4> TAKE m \in Occurrences
      <4>1. EndOf(m) = m.start + m.len /\ m.start \in Nat /\ m.len \in Nat /\ m.len > 0
        BY <1>2, <2>1, OccurrenceIsMatch
      <4> QED BY <4>1
    <3> QED BY <1>1, <2>2, <3>1 DEF NonePassed, EndOf
  <2>7. LongestSince(s, counter, matches)'
    <3>1. Base(matches)' = 0
      BY <2>1 DEF Base
    <3>2. \A v : At(v, counter)' => Len(v) <= 0
      BY <2>2 DEF At
    <3>3. ~IsMatch(s)'
      BY <2>1, <2>4 DEF IsMatch
    <3>4. 0 + 0 <= 0
      OBVIOUS
    <3> QED BY <2>1, <2>2, <2>3, <2>4, <3>1, <3>2, <3>3, <3>4 DEF LongestSince
  <2> QED BY <1>1, <1>4, <2>1, <2>5, <2>6, <2>7 DEF Greedy
<1>8. CASE PassOver \/ SplitEnd
  <2>1. here' = here + 1
    BY <1>8 DEF PassOver, SplitEnd, NextNode, After
  <2>2. FALSE
    BY <1>3, <2>1
  <2> QED BY <2>2
<1>9. CASE ac_search
  <2>1. UNCHANGED <<chain, trie, stage, here>> /\ stage = "search" /\ Reading(chain[here].start)
    BY <1>9, FirstReading DEF ac_search
  <2>2. s' = NextState(s, Char) /\ counter' = counter + 1
    BY <1>2, <1>9, <2>1, ReadStep
  <2>3. Greedy(NextState(s, Char), counter + 1, matches')
    BY <1>1, <1>2, <1>4, <1>9, <2>1, ReadKeepsGreedy
  <2>4. Greedy(s', counter', matches')
    BY <2>2, <2>3
  <2>5. OnlyOnes(matches)' /\ NonePassed(counter, matches)'
    BY <1>1, <2>4 DEF Greedy, OnlyOnes, NonePassed, Base, LastOf, EndOf
  <2>6. LongestSince(s, counter, matches)'
    <3>1. States' = States /\ (\A w : IsMatch(w)' = IsMatch(w))
      BY <2>1 DEF IsMatch, States
    <3>2. LongestSince(s', counter', matches')
      BY <2>4 DEF Greedy
    <3> QED BY <1>1, <3>1, <3>2 DEF LongestSince, Base, LastOf, EndOf, At
  <2> QED BY <1>1, <1>4, <2>1, <2>5, <2>6 DEF Greedy
<1>10. CASE SearchEnd
  <2>1. /\ UNCHANGED <<matches, here>> /\ stage = "search" /\ stage' = "split"
        /\ counter = EndOf(chain[n]) /\ here = 1
    BY <1>1, <1>10 DEF SearchEnd, Stop
  <2>2. n = 1
    BY <1>2, <2>1 DEF Positions, Searching
  <2>3. counter = Len(text)
    BY <1>4, <2>1, <2>2
  <2>4. OnlyOnes(matches) /\ NonePassed(Len(text), matches)
    BY <1>4, <2>1, <2>3 DEF Greedy
  <2> QED BY <1>5, <2>1, <2>4
<1>11. CASE SplitMatch \/ SkipMatch
  <2>1. UNCHANGED <<matches, here>> /\ stage = "split"
    BY <1>11 DEF SplitMatch, SkipMatch
  <2>2. stage' \in {"split", "crashed"}
    <3>1. CASE SkipMatch
      BY <2>1, <3>1 DEF SkipMatch
    <3>2. CASE SplitMatch
      BY <2>1, <3>2 DEF SplitMatch
    <3> QED BY <1>11, <3>1, <3>2
  <2> QED BY <1>4, <1>5, <2>1, <2>2
<1>12. CASE Finish
  BY <1>12 DEF Finish
<1>13. CASE UNCHANGED vars
  <2>1. UNCHANGED <<stage, chain, here, matches, s, counter, trie>>
    BY <1>13 DEF vars
  <2>2. stage = "search" => Greedy(s, counter, matches)'
    <3>1. stage = "search" => Greedy(s, counter, matches)
      BY <1>4, <2>1
    <3>2. States' = States /\ (\A w : IsMatch(w)' = IsMatch(w))
      BY <2>1 DEF IsMatch, States
    <3> QED BY <1>1, <2>1, <3>1, <3>2 DEF Greedy, OnlyOnes, NonePassed, LongestSince, Base, LastOf, EndOf, At
  <2> QED BY <1>1, <1>4, <1>5, <2>1, <2>2
<1> QED BY <1>6, <1>7, <1>8, <1>9, <1>10, <1>11, <1>12, <1>13 DEF Next

\* At the end of the first search of a text, its matches are those of the scan.
LEMMA LeftIsScan == IInv /\ Marks /\ FromTheLeft => ScansFromTheLeft
<1> SUFFICES ASSUME IInv, Marks, FromTheLeft, options = "longest", stage = "split", here = 1, ~NestedTerms
             PROVE  matches = Scan
  BY DEF ScansFromTheLeft
<1>1. Given /\ Stored /\ stage # "insert" /\ matches \in Seq(Occurrences)
  BY DEF IInv, Positions
<1>2. ~InnerTerms
  BY <1>1, NotNestedNotInner
<1>3. Disjoint(matches)
  BY <1>2 DEF Marks
<1>4. OnlyOnes(matches) /\ NonePassed(Len(text), matches)
  BY DEF FromTheLeft
<1> QED BY <1>1, <1>3, <1>4, GreedyIsScan

\* If no term is any part of another one, the matches of the parser's search
\* are those of a scan of the text from left to right, although the search
\* never goes back: a failure link loses no term that begins in one that turns
\* out not to be there.
THEOREM ScansLeftToRight == Spec => []ScansFromTheLeft
<1>1. Init => Marks /\ FromTheLeft
  BY InitMarks, InitFromTheLeft
<1>2. IInv /\ Marks /\ FromTheLeft /\ [Next]_vars => Marks' /\ FromTheLeft'
  BY NextKeepsMarks, NextKeepsFromTheLeft
<1>3. IInv /\ Marks /\ FromTheLeft => ScansFromTheLeft
  BY LeftIsScan
<1> QED BY <1>1, <1>2, <1>3, Invariance, PTL DEF Spec
=============================================================================
