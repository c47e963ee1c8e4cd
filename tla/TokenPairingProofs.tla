------------------------- MODULE TokenPairingProofs -------------------------
(***************************************************************************)
(* Proofs about TokenPairing: type correctness, the order of the shared    *)
(* stack, the exactness of the opener counters, that a close that fails    *)
(* pops nothing, that the chains stay a tree that holds the whole text,    *)
(* and that no pass leaves an opener and its closer unpaired, for every    *)
(* set of texts.                                                           *)
(* IInv of TokenPairing is the inductive invariant of the stack; TInv adds *)
(* to it that the nodes have parents under which the chains are a tree     *)
(* numbered in the order of a walk, the places of the activations in it,   *)
(* and what a pass has done with the tokens it has visited (Complete).  A  *)
(* step of the parser is split into what it does to the tree (Join,        *)
(* JoinCodeSpan, Standalone) and what it does to the stack and the         *)
(* activations (Settle).                                                   *)
(***************************************************************************)
EXTENDS TokenPairing, TLAPS, FiniteSetTheorems, SequenceTheorems,
        WellFoundedInduction
-----------------------------------------------------------------------------
(* Finite sets of numbers.                                                 *)

\* A non-empty set of numbers below a bound has a greatest element: the entry
\* of the stack where the popping loop of token_closes stops exists.
LEMMA GreatestExists ==
    ASSUME NEW top \in Nat, NEW S, S \subseteq 0..top, S # {}
    PROVE  \E x \in S : \A y \in S : y <= x
<1> DEFINE T == {k \in Nat : top - k \in S}
<1>1. PICK x0 \in S : TRUE
  OBVIOUS
<1>2. top - x0 \in T
  OBVIOUS
<1>3. T \subseteq Nat /\ T # {}
  BY <1>2
<1> HIDE DEF T
<1>4. PICK m \in T : \A k \in T : <<k, m>> \notin OpToRel(<, Nat)
  BY <1>3, WFMin, NatLessThanWellFounded, Zenon
<1>5. \A k \in T : ~(k < m)
  BY <1>3, <1>4 DEF OpToRel
<1>6. top - m \in S /\ m \in Nat
  BY DEF T
<1>7. ASSUME NEW y \in S PROVE y <= top - m
  <2>1. y \in Nat /\ top - y \in Nat
    OBVIOUS
  <2>2. top - (top - y) = y
    BY <2>1
  <2>3. top - y \in T
    BY <2>1, <2>2 DEF T
  <2>4. ~(top - y < m)
    BY <1>5, <2>3
  <2> QED BY <1>6, <2>1, <2>4
<1> QED BY <1>6, <1>7

\* The members of P among the positions from a + 1 to b
Among(a, b, P) == {i \in (a + 1)..b : i \in P}

\* Those of a segment of the stack are finitely many, and their number is that
\* of the positions up to b and of those above.
LEMMA SplitCount ==
    ASSUME NEW a \in Nat, NEW b \in Nat, NEW c \in Nat, a <= b, b <= c, NEW P
    PROVE  /\ Cardinality(Among(a, b, P)) \in Nat
           /\ Cardinality(Among(a, c, P)) - Cardinality(Among(b, c, P))
                = Cardinality(Among(a, b, P))
<1> DEFINE all == Among(a, c, P)
           low == Among(a, b, P)
           high == Among(b, c, P)
<1>1. IsFiniteSet((a + 1)..c)
  BY FS_Interval
<1>2. all \in SUBSET ((a + 1)..c) /\ low \in SUBSET ((a + 1)..c) /\ high \in SUBSET ((a + 1)..c)
  BY DEF Among
<1>3. IsFiniteSet(all) /\ IsFiniteSet(low) /\ IsFiniteSet(high)
  BY <1>1, <1>2, FS_Subset
<1>4. low = all \ high /\ all \cap high = high
  BY DEF Among
<1>5. Cardinality(low) \in Nat /\ Cardinality(all) \in Nat /\ Cardinality(high) \in Nat
  BY <1>3, FS_CardinalityType
<1> HIDE DEF all, low, high
<1>6. Cardinality(low) = Cardinality(all) - Cardinality(high)
  BY <1>3, <1>4, FS_Difference
<1>7. Cardinality(all) - Cardinality(high) = Cardinality(low)
  BY <1>5, <1>6
<1> QED BY <1>5, <1>7 DEF all, low, high
-----------------------------------------------------------------------------
(* The parts of the invariant that a step relies on.                       *)

\* Two nodes for each token, numbered from 2 on, so that neither NULL nor 1 is a
\* node, and every node belongs to a token of the text.
LEMMA NodesAreNumbers ==
    ASSUME TypeOK
    PROVE  /\ NTok \in Nat \ {0} /\ 2 \in Nodes
           /\ Nodes \subseteq Nat \ {0, 1} /\ 0 \notin Nodes
           /\ \A m \in Nodes : m % 2 = 0 => m + 1 \in Nodes
           /\ \A m \in Nodes : Tok(m) \in 1..NTok
<1>1. src \in Seq(Kinds) /\ src # <<>>
  BY InputsAssumption DEF TypeOK
<1>2. NTok \in Nat \ {0}
  BY <1>1, EmptySeq DEF NTok
<1> QED BY <1>2 DEF Nodes, Tok

\* What holds of the innermost activation while it visits a node
LEMMA VisitFacts ==
    ASSUME IInv, frames # <<>>
    PROVE  /\ Depth \in Nat \ {0} /\ Depth \in 1..Depth
           /\ Top \in Frame
           /\ Top.start \in 0..Len(stack)
           /\ Len(stack) \in Nat
           /\ n \in Ref /\ Top.openers \in [OpenTypes -> Nat]
           /\ \A k \in 1..Depth : frames[k] \in Frame /\ frames[k].start \in Nat
           /\ n # NULL => \A i \in 1..Len(stack) : stack[i] < n
           /\ \A i \in 1..Len(stack) : stack[i] \in Nodes
           /\ \A t \in OpenTypes : Top.openers[t] =
                 Cardinality({i \in (Top.start + 1)..Len(stack) : type[stack[i]] = t})
<1>1. frames \in Seq(Frame) /\ stack \in Seq(Nodes)
  BY DEF IInv, TypeOK
<1>2. Depth \in Nat \ {0} /\ Depth \in 1..Depth
  BY <1>1, EmptySeq DEF Depth
<1>a. \A k \in 1..Depth : frames[k] \in Frame
  BY <1>1, ElementOfSeq DEF Depth
<1>b. \A k \in 1..Depth : frames[k].start \in Nat
  BY <1>a DEF Frame
<1>3. Top \in Frame
  BY <1>2, <1>a DEF Top
<1>4. n \in Ref /\ Top.openers \in [OpenTypes -> Nat] /\ Top.start \in Nat
  BY <1>3 DEF Frame, n
<1>5. Len(stack) \in Nat /\ \A i \in 1..Len(stack) : stack[i] \in Nodes
  BY <1>1, ElementOfSeq, LenProperties
<1>6. Top.start \in 0..Len(stack)
  BY <1>2, <1>4, <1>5 DEF IInv, ActivationsNest, Top
<1>7. n # NULL => \A i \in 1..Len(stack) : stack[i] < n
  BY <1>2 DEF IInv, StackOrdered, Last, Top, n
<1>8. \A t \in OpenTypes : Top.openers[t] =
          Cardinality({i \in (Top.start + 1)..Len(stack) : type[stack[i]] = t})
  BY <1>2 DEF IInv, OpenersExact, First, Last, Top
<1> QED BY <1>2, <1>3, <1>4, <1>5, <1>6, <1>7, <1>8, <1>a, <1>b

\* token_closes pops down to a stack no smaller than the activation found, the
\* opener it returns is the last entry it popped, and the counters it leaves
\* are those of the smaller stack: none of them is decremented below zero.
LEMMA PopFacts ==
    ASSUME IInv, frames # <<>>
    PROVE  /\ Left \in Top.start..Len(stack)
           /\ Closes => /\ Left + 1 \in 1..Len(stack)
                        /\ opener = stack[Left + 1]
                        /\ Handled
           /\ OpenersLeft \in [OpenTypes -> Nat]
           /\ \A t \in OpenTypes : OpenersLeft[t] =
                 Cardinality({i \in (Top.start + 1)..Left : type[stack[i]] = t})
<1> USE VisitFacts
<1>1. /\ Left \in Top.start..Len(stack)
      /\ Closes => Left + 1 \in 1..Len(stack)
  <2>1. CASE ~Attempts
    BY <2>1 DEF Left, Closes
  <2>2. CASE Attempts /\ Matches = {}
    BY <2>2 DEF Left, Closes
  <2>3. CASE Attempts /\ Matches # {}
    <3>1. Matches \subseteq 0..Len(stack) /\ Matches \subseteq (Top.start + 1)..Len(stack)
      BY DEF Matches, Segment
    <3>2. \E x \in Matches : \A y \in Matches : y <= x
      BY <2>3, <3>1, GreatestExists
    <3> DEFINE last == CHOOSE i \in Matches : \A j \in Matches : j <= i
    <3>3. last \in Matches
      BY <3>2
    <3>4. Left = last - 1
      BY <2>3 DEF Left
    <3> HIDE DEF last
    <3> QED BY <3>1, <3>3, <3>4
  <2> QED BY <2>1, <2>2, <2>3
<1>2. Closes => opener = stack[Left + 1] /\ Handled
  BY DEF opener, Closes, Attempts
<1>3. ASSUME NEW t \in OpenTypes
      PROVE  /\ OpenersLeft[t] \in Nat
             /\ OpenersLeft[t] =
                  Cardinality({i \in (Top.start + 1)..Left : type[stack[i]] = t})
  <2> DEFINE P == {i \in 1..Len(stack) : type[stack[i]] = t}
  <2>1. {i \in (Top.start + 1)..Len(stack) : type[stack[i]] = t} = Among(Top.start, Len(stack), P)
    BY DEF Among
  <2>2. {i \in (Top.start + 1)..Left : type[stack[i]] = t} = Among(Top.start, Left, P)
    BY <1>1 DEF Among
  <2>3. {i \in (Left + 1)..Len(stack) : type[stack[i]] = t} = Among(Left, Len(stack), P)
    BY <1>1 DEF Among
  <2> HIDE DEF P
  <2>4. Top.start \in Nat /\ Left \in Nat /\ Len(stack) \in Nat
        /\ Top.start <= Left /\ Left <= Len(stack)
    BY <1>1
  <2>5. /\ Cardinality(Among(Top.start, Left, P)) \in Nat
        /\ Cardinality(Among(Top.start, Len(stack), P)) - Cardinality(Among(Left, Len(stack), P))
             = Cardinality(Among(Top.start, Left, P))
    BY <2>4, SplitCount
  <2>6. OpenersLeft[t] = Top.openers[t]
          - Cardinality({i \in (Left + 1)..Len(stack) : type[stack[i]] = t})
    BY DEF OpenersLeft
  <2>7. OpenersLeft[t] = Cardinality(Among(Top.start, Left, P))
    BY <2>1, <2>3, <2>5, <2>6
  <2> QED BY <2>2, <2>5, <2>7
<1>4. OpenersLeft = [t \in OpenTypes |-> OpenersLeft[t]]
  BY DEF OpenersLeft
<1> QED BY <1>1, <1>2, <1>3, <1>4
-----------------------------------------------------------------------------
(* What the loop body does to the stack and to the activations.            *)

\* If the openers on the stack that stay keep their types and the counters
\* agree with the stack after the pops, the loop body of analyze_token_chain
\* keeps the stack ordered, the activations nested and the counters exact.
LEMMA SettleKeeps ==
    ASSUME IInv, frames # <<>>, n # NULL,
           NEW openers \in [OpenTypes -> Nat], NEW size \in Top.start..Len(stack),
           NEW push \in BOOLEAN,
           \A t \in OpenTypes : openers[t] =
               Cardinality({i \in (Top.start + 1)..size : type[stack[i]] = t}),
           push => type[n] \in OpenTypes,
           Settle(openers, size, push),
           \A i \in 1..size : type'[stack[i]] = type[stack[i]],
           push => type'[n] = type[n]
    PROVE  /\ src' = src /\ pass' = pass /\ stack' \in Seq(Nodes) /\ frames' \in Seq(Frame)
           /\ ActivationsNest' /\ StackOrdered' /\ OpenersExact'
<1>0. /\ TypeOK /\ NULL = 0 /\ Nodes \subseteq Nat \ {0, 1} /\ n \in Nodes /\ n \in Nat
      /\ size \in Nat /\ Len(stack) \in Nat /\ Top.start \in Nat
      /\ size <= Len(stack) /\ Top.start <= size
      /\ Depth \in Nat \ {0} /\ Depth \in 1..Depth /\ Top \in Frame
      /\ \A i \in 1..Len(stack) : stack[i] \in Nodes /\ stack[i] \in Nat /\ stack[i] < n
  <2>1. n \in Ref
    BY VisitFacts
  <2>2. /\ Depth \in Nat \ {0} /\ Depth \in 1..Depth /\ Top \in Frame
        /\ Top.start \in 0..Len(stack) /\ Len(stack) \in Nat
    BY VisitFacts
  <2>3. \A i \in 1..Len(stack) : stack[i] \in Nodes /\ stack[i] < n
    BY VisitFacts
  <2>4. TypeOK
    BY DEF IInv
  <2> QED BY <2>1, <2>2, <2>3, <2>4, NodesAreNumbers DEF Ref, NULL
<1>1. /\ stack' \in Seq(Nodes)
      /\ Len(stack') = (IF push THEN size + 1 ELSE size)
      /\ \A i \in 1..size : stack'[i] = stack[i]
      /\ push => stack'[size + 1] = n
  <2> DEFINE kept == SubSeq(stack, 1, size)
  <2>1. kept \in Seq(Nodes) /\ Len(kept) = size /\ \A i \in 1..size : kept[i] = stack[i]
    <3>1. \A i \in 1..size : stack[i] \in Nodes
      BY <1>0
    <3>2. /\ kept \in Seq(Nodes)
          /\ Len(kept) = IF 1 <= size THEN size - 1 + 1 ELSE 0
          /\ \A i \in 1..(size - 1 + 1) : kept[i] = stack[1 + i - 1]
      BY <1>0, <3>1, SubSeqProperties
    <3> QED BY <1>0, <3>2
  <2>2. stack' = IF push THEN Append(kept, n) ELSE kept
    BY DEF Settle
  <2> HIDE DEF kept
  <2>3. CASE push
    BY <1>0, <2>1, <2>2, <2>3, AppendProperties
  <2>4. CASE ~push
    BY <1>0, <2>1, <2>2, <2>4
  <2> QED BY <2>3, <2>4
<1> DEFINE counters == IF push THEN [openers EXCEPT ![type[n]] = @ + 1] ELSE openers
           now == [Top EXCEPT !.node = next[n], !.prev = n, !.openers = counters]
<1>2. counters \in [OpenTypes -> Nat]
      /\ \A t \in OpenTypes : counters[t] =
            IF push /\ t = type[n] THEN openers[t] + 1 ELSE openers[t]
  OBVIOUS
<1>3. next[n] \in Ref /\ (next[n] # NULL => next[n] > n)
  BY <1>0 DEF TypeOK, IInv, LinksGoForward
<1>4. now \in Frame /\ now.node = next[n] /\ now.start = Top.start /\ now.openers = counters
  <2> HIDE DEF counters
  <2> QED BY <1>0, <1>2, <1>3 DEF Frame, Ref
<1>5. frames' = [frames EXCEPT ![Depth] = now] /\ src' = src /\ pass' = pass
  BY DEF Settle, Top
<1> HIDE DEF now, counters
<1>6. /\ frames' \in Seq(Frame) /\ Len(frames') = Depth
      /\ \A k \in 1..Depth : frames'[k] = IF k = Depth THEN now ELSE frames[k]
  BY <1>0, <1>4, <1>5, ExceptSeq DEF TypeOK, Depth
<1>7. /\ Depth' = Depth /\ frames[Depth] = Top
      /\ \A k \in 1..Depth : frames'[k].start = frames[k].start
  BY <1>4, <1>6 DEF Depth, Top
<1>8. ActivationsNest'
  <2>1. frames' # <<>>
    BY <1>0, <1>6, EmptySeq
  <2>2. ASSUME NEW k \in 1..Depth
        PROVE  /\ k < Depth => frames'[k].node # NULL
               /\ \A j \in 1..Depth : j <= k => frames'[j].start <= frames'[k].start
               /\ frames'[k].start <= Len(stack')
               /\ frames'[1].start = 0
    <3>1. k < Depth => frames'[k].node # NULL
      BY <1>6 DEF IInv, ActivationsNest
    <3>2. \A j \in 1..Depth : j <= k => frames[j].start <= frames[k].start
      BY DEF IInv, ActivationsNest
    <3>3. frames[k].start <= Top.start /\ frames[1].start = 0
      BY <1>0, <1>7 DEF IInv, ActivationsNest
    <3>4. frames[k].start \in Nat
      BY VisitFacts
    <3>5. frames'[k].start <= Len(stack')
      BY <1>0, <1>1, <1>7, <3>3, <3>4
    <3>6. 1 \in 1..Depth
      BY <1>0
    <3> QED BY <1>7, <3>1, <3>2, <3>3, <3>5, <3>6
  <2> QED BY <1>7, <2>1, <2>2 DEF ActivationsNest
<1>9. \A k \in 1..Depth : /\ frames[k].start \in Nat /\ frames[k].start <= Top.start
                          /\ k < Depth => /\ k + 1 \in 1..Depth
                                          /\ frames[k + 1].start <= Top.start
                                          /\ frames[k + 1].start \in Nat
                                          /\ frames[k].start <= frames[k + 1].start
  <2>1. \A k \in 1..Depth : frames[k].start \in Nat
    BY VisitFacts
  <2>2. \A j, k \in 1..Depth : j <= k => frames[j].start <= frames[k].start
    BY DEF IInv, ActivationsNest
  <2> QED BY <1>0, <1>7, <2>1, <2>2
<1>10. \A k \in 1..Depth :
          Last(k)' = IF k = Depth THEN Len(stack') ELSE frames[k + 1].start
  <2> TAKE k \in 1..Depth
  <2>1. CASE k = Depth
    BY <1>7, <2>1 DEF Last
  <2>2. CASE k # Depth
    <3>1. k + 1 \in 1..Depth
      BY <1>0, <1>9, <2>2
    <3>2. frames'[k + 1].start = frames[k + 1].start
      BY <1>7, <3>1
    <3> QED BY <1>7, <2>2, <3>2 DEF Last
  <2> QED BY <2>1, <2>2
<1>11. \A k \in 1..Depth : Last(k) = IF k = Depth THEN Len(stack) ELSE frames[k + 1].start
  BY DEF Last
<1>12. StackOrdered'
  <2>1. \A i, j \in 1..Len(stack') : i < j => stack'[i] < stack'[j]
    <3>1. \A i, j \in 1..size : i < j => stack[i] < stack[j]
      BY <1>0 DEF IInv, StackOrdered
    <3>2. \A i \in 1..size : stack[i] < n
      BY <1>0
    <3> QED BY <1>0, <1>1, <3>1, <3>2
  <2>2. \A k \in 1..Depth : frames'[k].start <= Last(k)'
    <3> TAKE k \in 1..Depth
    <3>1. CASE k = Depth
      <4>1. Top.start <= Len(stack')
        BY <1>0, <1>1
      <4> QED BY <1>7, <1>10, <3>1, <4>1
    <3>2. CASE k # Depth
      <4>1. k < Depth
        BY <1>0, <3>2
      <4> QED BY <1>7, <1>9, <1>10, <3>2, <4>1
    <3> QED BY <3>1, <3>2
  <2>3. ASSUME NEW k \in 1..Depth, frames'[k].node # NULL, NEW i \in 1..Last(k)'
        PROVE  stack'[i] < frames'[k].node
    <3>1. CASE k = Depth
      <4>1. frames'[k].node = next[n] /\ next[n] > n /\ next[n] \in Nat
        BY <1>0, <1>3, <1>4, <1>6, <2>3, <3>1 DEF Ref
      <4>2. i \in 1..Len(stack')
        BY <1>10, <2>3, <3>1
      <4>3. stack'[i] \in Nat /\ stack'[i] <= n
        BY <1>0, <1>1, <4>2
      <4> QED BY <1>0, <4>1, <4>3
    <3>2. CASE k # Depth
      <4>1. i \in 1..size /\ i \in 1..Last(k)
        <5>1. k < Depth
          BY <1>0, <3>2
        <5>2. frames[k + 1].start <= Top.start /\ frames[k + 1].start \in Nat
          BY <1>9, <5>1
        <5>3. i \in 1..frames[k + 1].start
          BY <1>10, <2>3, <3>2
        <5> QED BY <1>0, <1>11, <3>2, <5>2, <5>3
      <4>2. stack[i] < frames[k].node
        BY <1>6, <2>3, <3>2, <4>1 DEF IInv, StackOrdered
      <4> QED BY <1>1, <1>6, <3>2, <4>1, <4>2
    <3> QED BY <3>1, <3>2
  <2> QED BY <1>7, <2>1, <2>2, <2>3 DEF StackOrdered
<1>13. OpenersExact'
  <2>1. ASSUME NEW k \in 1..Depth, NEW t \in OpenTypes
        PROVE  frames'[k].openers[t] =
                 Cardinality({i \in (frames[k].start + 1)..Last(k)' : type'[stack'[i]] = t})
    <3>1. CASE k # Depth
      <4>1. \A i \in (frames[k].start + 1)..Last(k)' : stack'[i] = stack[i] /\ i \in 1..size
        <5>1. k < Depth
          BY <1>0, <3>1
        <5>2. /\ frames[k + 1].start <= Top.start /\ frames[k + 1].start \in Nat
              /\ frames[k].start \in Nat
          BY <1>9, <5>1
        <5>3. \A i \in (frames[k].start + 1)..frames[k + 1].start : i \in 1..size
          BY <1>0, <5>2, SMTT(30)
        <5> QED BY <1>1, <1>10, <3>1, <5>3
      <4>2. {i \in (frames[k].start + 1)..Last(k)' : type'[stack'[i]] = t}
              = {i \in (frames[k].start + 1)..Last(k) : type[stack[i]] = t}
        BY <1>10, <1>11, <3>1, <4>1
      <4>3. frames[k].openers[t] =
              Cardinality({i \in (frames[k].start + 1)..Last(k) : type[stack[i]] = t})
        BY DEF IInv, OpenersExact, First
      <4> QED BY <1>6, <3>1, <4>2, <4>3
    <3>2. CASE k = Depth
      <4> DEFINE old == {i \in (Top.start + 1)..size : type[stack[i]] = t}
                 new == {i \in (Top.start + 1)..Len(stack') : type'[stack'[i]] = t}
      <4>1. frames'[k].openers[t] =
              IF push /\ t = type[n] THEN Cardinality(old) + 1 ELSE Cardinality(old)
        BY <1>2, <1>4, <1>6, <3>2
      <4>2. new = IF push /\ t = type[n] THEN old \cup {size + 1} ELSE old
        <5>1. CASE push
          BY <1>0, <1>1, <5>1, SMTT(30)
        <5>2. CASE ~push
          BY <1>0, <1>1, <5>2
        <5> QED BY <5>1, <5>2
      <4>3. IsFiniteSet(old) /\ size + 1 \notin old
        <5>1. IsFiniteSet((Top.start + 1)..size)
          <6>1. Top.start + 1 \in Int /\ size \in Int
            BY <1>0
          <6> QED BY <6>1, FS_Interval
        <5>2. old \in SUBSET ((Top.start + 1)..size)
          OBVIOUS
        <5>3. IsFiniteSet(old)
          BY <5>1, <5>2, FS_Subset
        <5> QED BY <1>0, <5>3
      <4> HIDE DEF old, new
      <4>4. Cardinality(old \cup {size + 1}) = Cardinality(old) + 1
        BY <4>3, FS_AddElement
      <4>5. frames'[k].openers[t] = Cardinality(new)
        BY <4>1, <4>2, <4>4
      <4>6. Last(k)' = Len(stack') /\ frames[k].start = Top.start
        BY <1>7, <1>10, <3>2
      <4> QED BY <4>5, <4>6 DEF new
    <3> QED BY <3>1, <3>2
  <2>2. \A k \in 1..Depth : First(k)' = frames[k].start + 1
    BY <1>7 DEF First
  <2> QED BY <1>7, <2>1, <2>2 DEF OpenersExact
<1> QED BY <1>0, <1>1, <1>5, <1>6, <1>8, <1>12, <1>13
-----------------------------------------------------------------------------
(* What the loop body does to the tree.                                    *)

\* Every rule that pairs tokens names an opener to count and a type of pair.
LEMMA RuleFacts ==
    ASSUME NEW t
    PROVE  RuleOf(t).mate # "none" =>
              RuleOf(t).mate \in OpenTypes /\ RuleOf(t).pair \in PairTypes
<1>1. CASE Pairings = pairings1
  BY <1>1 DEF RuleOf, Pairings, pairings1, NoRule, Rule, OpenTypes, PairTypes
<1>2. CASE Pairings = pairings3
  BY <1>2 DEF RuleOf, Pairings, pairings3, NoRule, Rule, OpenTypes, PairTypes
<1>3. CASE Pairings = pairings4
  BY <1>3 DEF RuleOf, Pairings, pairings4, NoRule, Rule, OpenTypes, PairTypes
<1> QED BY <1>1, <1>2, <1>3 DEF Pairings

\* The part of TypeOK that is about the tree
TreeTypes ==
    /\ type \in [Nodes -> Types] /\ len \in [Nodes -> 0..(SizeRange - 1)]
    /\ next \in [Nodes -> Ref] /\ child \in [Nodes -> Ref] /\ tail \in [Nodes -> Ref]

\* The opener that a closing token gets lies before it, above the openers left
LEMMA OpenerFacts ==
    ASSUME IInv, frames # <<>>, n # NULL, Closes
    PROVE  /\ opener \in Nodes /\ opener < n /\ n \in Nodes
           /\ \A i \in 1..Left : stack[i] \in Nodes /\ stack[i] < opener
           /\ rule.pair \in PairTypes
<1>1. Left + 1 \in 1..Len(stack) /\ opener = stack[Left + 1] /\ Handled
      /\ Left \in Top.start..Len(stack)
  BY PopFacts
<1>2. /\ Len(stack) \in Nat /\ Top.start \in 0..Len(stack) /\ n \in Ref
      /\ \A i \in 1..Len(stack) : stack[i] \in Nodes /\ stack[i] < n
  BY VisitFacts
<1>3. \A i, j \in 1..Len(stack) : i < j => stack[i] < stack[j]
  BY DEF IInv, StackOrdered
<1>4. rule.pair \in PairTypes
  BY <1>1, RuleFacts DEF Handled, rule
<1>5. \A i \in 1..Left : i \in 1..Len(stack) /\ i < Left + 1
  BY <1>1, <1>2
<1> QED BY <1>1, <1>2, <1>3, <1>4, <1>5 DEF Ref, NULL

\* Joining keeps the links pointing forward to allocated nodes, and changes the
\* type of no node in front of the opener: those left on the stack keep theirs.
LEMMA JoinKeeps ==
    ASSUME IInv, frames # <<>>, n # NULL, type[n] # "free", Closes, Join(opener), src' = src
    PROVE  /\ TreeTypes' /\ LinksGoForward'
           /\ \A i \in 1..Left : type'[stack[i]] = type[stack[i]]
           /\ ~Demands("subtypes") => type'[n] = type[n]
<1> DEFINE o == opener
           c == next[o]
           hasChild == c # n
           pair == IF Demands("subtypes") THEN Subtype(o) ELSE rule.pair
           marked == pair \in {"p_footnote", "p_glossary"}
           split == marked /\ len[c] > 1
           tail1 == IF hasChild THEN [tail EXCEPT ![c] = Top.prev] ELSE tail
           next1 == IF split THEN [next EXCEPT ![c] = c + 1, ![c + 1] = next[c]] ELSE next
           prev == IF marked /\ Top.prev = c /\ next1[c] # n THEN next1[c] ELSE Top.prev
           next2 == [next1 EXCEPT ![o] = n]
<1>1. /\ split => Fresh(c)
      /\ child' = IF hasChild THEN [child EXCEPT ![o] = c] ELSE child
      /\ tail' = IF split /\ tail1[c] = c THEN [tail1 EXCEPT ![c] = c + 1] ELSE tail1
      /\ len' = IF split THEN [len EXCEPT ![c] = 1, ![c + 1] = len[c] - 1] ELSE len
      /\ next' = IF prev # o THEN [next2 EXCEPT ![prev] = NULL] ELSE next2
      /\ type' = [m \in Nodes |-> CASE m = o -> pair
                                    [] marked /\ m = c -> "marker"
                                    [] split /\ m = c + 1 -> type[c]
                                    [] OTHER -> type[m]]
  BY DEF Join
<1>2. o \in Nodes /\ o < n /\ n \in Nodes /\ o \in Nat /\ n \in Nat
  BY OpenerFacts, NodesAreNumbers DEF IInv
<1>3. TreeTypes /\ TypeOK /\ LinksGoForward /\ Nodes \subseteq Nat \ {0, 1} /\ NULL = 0
      /\ \A m \in Nodes : m % 2 = 0 => m + 1 \in Nodes
  BY NodesAreNumbers DEF IInv, TypeOK, TreeTypes, NULL
<1>4. c \in Ref /\ c \in Nat /\ (c \in Nodes => c > o /\ type[c] # "free")
      /\ (c \notin Nodes => c = 0 /\ c + 1 \notin Nodes)
  <2>1. c \in Ref
    BY <1>2, <1>3 DEF TreeTypes
  <2>2. c # NULL => c > o /\ type[c] # "free"
    BY <1>2, <1>3 DEF LinksGoForward
  <2> HIDE DEF c
  <2>3. 0 \notin Nodes /\ 1 \notin Nodes
    BY <1>3
  <2>4. CASE c = 0
    BY <1>3, <2>1, <2>3, <2>4
  <2>5. CASE c # 0
    BY <1>3, <2>1, <2>2, <2>5 DEF Ref
  <2> QED BY <2>4, <2>5
<1>5. pair \in PairTypes /\ (~Demands("subtypes") => pair = rule.pair)
  BY OpenerFacts DEF Subtype, PairTypes
<1>6. marked => Demands("subtypes")
  <2>1. \A t : RuleOf(t).pair \notin {"p_footnote", "p_glossary"}
    BY DEF RuleOf, Pairings, pairings1, pairings3, pairings4, NoRule, Rule
  <2> QED BY <2>1, <1>5 DEF rule
<1>7. Top.prev \in Ref
  BY VisitFacts DEF Frame
<1>8. Nodes' = Nodes /\ Ref' = Ref
  BY DEF Nodes, NTok, Ref, NULL
<1> HIDE DEF o, c, pair, marked, hasChild, split, tail1, next1, next2, prev
<1>9. \A m \in Nodes :
          /\ m < o => type'[m] = type[m]
          /\ type'[m] \in Types
          /\ type[m] # "free" => type'[m] # "free"
          /\ split /\ m = c + 1 => type'[m] # "free"
          /\ ~marked /\ m # o => type'[m] = type[m]
  <2> TAKE m \in Nodes
  <2>1. type[m] \in Types /\ m \in Nat
    BY <1>3 DEF TreeTypes
  <2>2. CASE m = o
    BY <1>1, <1>5, <1>2, <1>4, <2>1, <2>2 DEF Types, PairTypes
  <2>3. CASE marked /\ m = c /\ m # o
    <3>1. ~(m < o) /\ m # c + 1
      BY <1>2, <1>4, <2>3
    <3>2. type'[m] = "marker"
      BY <1>1, <2>3, <3>1
    <3> QED BY <2>3, <3>1, <3>2 DEF Types
  <2>4. CASE split /\ m = c + 1 /\ m # o
    <3>1. c \in Nodes /\ m # c
      BY <1>4, <2>4
    <3>2. type'[m] = type[c]
      BY <1>1, <2>4, <3>1
    <3>3. type[c] \in Types /\ type[c] # "free"
      BY <1>3, <1>4, <3>1 DEF TreeTypes
    <3>4. ~(m < o)
      BY <1>2, <1>4, <2>4, <3>1
    <3> QED BY <2>4, <3>2, <3>3, <3>4 DEF split
  <2>5. CASE m # o /\ ~(marked /\ m = c) /\ ~(split /\ m = c + 1)
    <3>1. type'[m] = type[m]
      BY <1>1, <2>5
    <3> QED BY <2>1, <2>5, <3>1
  <2> QED BY <2>2, <2>3, <2>4, <2>5
<1>10. TreeTypes'
  <2>1. type' \in [Nodes -> Types]
    BY <1>1, <1>9
  <2>2. len' \in [Nodes -> 0..(SizeRange - 1)]
    <3>1. CASE ~split
      BY <1>1, <1>3, <3>1 DEF TreeTypes
    <3>2. CASE split /\ c \in Nodes
      <4>1. len[c] \in 0..(SizeRange - 1) /\ len[c] > 1
        BY <1>3, <3>2 DEF TreeTypes, split
      <4>2. len[c] - 1 \in 0..(SizeRange - 1) /\ 1 \in 0..(SizeRange - 1)
        BY <4>1, SizeRangeAssumption
      <4> QED BY <1>1, <1>3, <3>2, <4>2 DEF TreeTypes
    <3>3. CASE split /\ c \notin Nodes
      <4>1. c \notin Nodes /\ c + 1 \notin Nodes
        BY <1>4, <3>3
      <4> QED BY <1>1, <1>3, <3>3, <4>1 DEF TreeTypes
    <3> QED BY <3>1, <3>2, <3>3
  <2>3. child' \in [Nodes -> Ref]
    BY <1>1, <1>3, <1>4 DEF TreeTypes
  <2>4. tail' \in [Nodes -> Ref]
    <3>1. tail1 \in [Nodes -> Ref]
      BY <1>3, <1>7 DEF TreeTypes, tail1
    <3>2. CASE split /\ tail1[c] = c
      <4>1. CASE c \in Nodes
        <5>1. c + 1 \in Ref
          BY <1>1, <1>3, <3>2, <4>1 DEF Fresh, Ref
        <5> QED BY <1>1, <3>1, <3>2, <5>1
      <4>2. CASE c \notin Nodes
        BY <1>1, <3>1, <3>2, <4>2
      <4> QED BY <4>1, <4>2
    <3> QED BY <1>1, <3>1, <3>2
  <2>5. next' \in [Nodes -> Ref]
    <3>1. next1 \in [Nodes -> Ref]
      <4>1. CASE ~split
        BY <1>3, <4>1 DEF TreeTypes, next1
      <4>2. CASE split /\ c \in Nodes
        <5>1. c + 1 \in Ref /\ next[c] \in Ref
          BY <1>1, <1>3, <4>2 DEF Fresh, Ref, TreeTypes
        <5> QED BY <1>3, <4>2, <5>1 DEF TreeTypes, next1
      <4>3. CASE split /\ c \notin Nodes
        <5>1. c \notin Nodes /\ c + 1 \notin Nodes
          BY <1>4, <4>3
        <5> QED BY <1>3, <4>3, <5>1 DEF TreeTypes, next1
      <4> QED BY <4>1, <4>2, <4>3
    <3>2. next2 \in [Nodes -> Ref]
      BY <1>2, <3>1 DEF next2, Ref
    <3>3. NULL \in Ref
      BY DEF Ref
    <3> QED BY <1>1, <3>2, <3>3
  <2> QED BY <1>8, <2>1, <2>2, <2>3, <2>4, <2>5 DEF TreeTypes
<1>11. LinksGoForward'
  <2>1. ASSUME NEW m \in Nodes, next'[m] # NULL
        PROVE  next'[m] > m /\ type'[next'[m]] # "free"
    <3>1. next'[m] = next2[m]
      BY <1>1, <1>2, <1>3, <2>1 DEF next2, next1, TreeTypes
    <3>2. CASE m = o
      <4>1. next'[m] = n
        BY <1>2, <1>3, <3>1, <3>2 DEF next2, next1, TreeTypes
      <4> QED BY <1>2, <1>9, <3>2, <4>1
    <3>3. CASE m # o
      <4>1. next'[m] = next1[m]
        BY <3>1, <3>3 DEF next2
      <4>2. CASE split /\ m = c
        <5>1. next'[m] = c + 1 /\ c + 1 \in Nodes
          BY <1>1, <1>3, <1>4, <4>1, <4>2 DEF next1, TreeTypes, Fresh
        <5> QED BY <1>4, <1>9, <4>2, <5>1
      <4>3. CASE split /\ m = c + 1 /\ m # c
        <5>1. c \in Nodes
          BY <1>4, <4>3
        <5>2. next'[m] = next[c]
          BY <1>3, <4>1, <4>3 DEF next1, TreeTypes
        <5>3. next[c] \in Nodes /\ next[c] > c /\ type[next[c]] # "free"
          BY <1>3, <2>1, <5>1, <5>2 DEF TreeTypes, LinksGoForward, Ref
        <5>4. next[c] # c + 1
          BY <1>1, <4>3, <5>3 DEF Fresh
        <5>5. next[c] > c + 1
          <6>1. next[c] \in Nat
            BY <1>3, <5>3
          <6> QED BY <1>4, <5>3, <5>4, <6>1
        <5> QED BY <1>9, <4>3, <5>2, <5>3, <5>5
      <4>4. CASE ~(split /\ m = c) /\ ~(split /\ m = c + 1)
        <5>1. next'[m] = next[m]
          BY <1>3, <4>1, <4>4 DEF next1, TreeTypes
        <5>2. next[m] \in Nodes /\ next[m] > m /\ type[next[m]] # "free"
          BY <1>3, <2>1, <5>1 DEF TreeTypes, LinksGoForward, Ref
        <5> QED BY <1>9, <5>1, <5>2
      <4> QED BY <4>2, <4>3, <4>4
    <3> QED BY <3>2, <3>3
  <2>2. ASSUME NEW m \in Nodes, child'[m] # NULL
        PROVE  child'[m] > m /\ type'[child'[m]] # "free"
    <3>1. CASE hasChild /\ m = o
      <4>1. child'[m] = c
        BY <1>1, <1>2, <1>3, <3>1 DEF TreeTypes
      <4> QED BY <1>3, <1>4, <1>9, <2>2, <3>1, <4>1 DEF Ref
    <3>2. CASE ~(hasChild /\ m = o)
      <4>1. child'[m] = child[m]
        BY <1>1, <3>2
      <4>2. child[m] \in Nodes /\ child[m] > m /\ type[child[m]] # "free"
        BY <1>3, <2>2, <4>1 DEF TreeTypes, LinksGoForward, Ref
      <4> QED BY <1>9, <4>1, <4>2
    <3> QED BY <3>1, <3>2
  <2> QED BY <1>8, <2>1, <2>2 DEF LinksGoForward, NULL
<1>12. \A i \in 1..Left : type'[stack[i]] = type[stack[i]]
  BY <1>9, OpenerFacts DEF o
<1>13. ~Demands("subtypes") => type'[n] = type[n]
  BY <1>2, <1>6, <1>9
<1> QED BY <1>10, <1>11, <1>12, <1>13

\* The same for a code span, whose children are trimmed: the lengths wrap
\* around, and stay size_t values.
LEMMA JoinCodeSpanKeeps ==
    ASSUME IInv, frames # <<>>, n # NULL, type[n] # "free", Closes, JoinCodeSpan(opener),
           src' = src
    PROVE  /\ TreeTypes' /\ LinksGoForward'
           /\ \A i \in 1..Left : type'[stack[i]] = type[stack[i]]
<1> DEFINE o == opener
           c == next[o]
           hasChild == c # n
<1>1. /\ child' = IF hasChild THEN [child EXCEPT ![o] = c] ELSE child
      /\ tail' = IF hasChild THEN [tail EXCEPT ![c] = Top.prev] ELSE tail
      /\ len' = IF hasChild THEN Trimmed(c) ELSE len
      /\ next' = IF Top.prev # o THEN [next EXCEPT ![o] = n, ![Top.prev] = NULL]
                 ELSE [next EXCEPT ![o] = n]
      /\ type' = [type EXCEPT ![o] = rule.pair]
  BY DEF JoinCodeSpan
<1>2. o \in Nodes /\ o < n /\ n \in Nodes /\ rule.pair \in PairTypes
  BY OpenerFacts
<1>3. TreeTypes /\ LinksGoForward /\ NULL = 0
  BY DEF IInv, TypeOK, TreeTypes, NULL
<1>4. c \in Ref /\ (c # NULL => c > o /\ type[c] # "free")
  BY <1>2, <1>3 DEF TreeTypes, LinksGoForward
<1>5. Top.prev \in Ref
  BY VisitFacts DEF Frame
<1>6. Nodes' = Nodes /\ Ref' = Ref
  BY DEF Nodes, NTok, Ref, NULL
<1>7. Trimmed(c) \in [Nodes -> 0..(SizeRange - 1)]
  <2> HIDE DEF c
  <2> DEFINE blanks == {j \in Tok(c)..NTok : \A k \in Tok(c)..j : Blank(src[k])}
             cut == [len EXCEPT ![c] = (@ - Cardinality(blanks)) % SizeRange]
             last == tail'[c]
  <2>1. Cardinality(blanks) \in Nat
    <3>1. NTok \in Nat /\ c \in Nat
      BY <1>4, NodesAreNumbers DEF IInv, Ref, NULL
    <3>2. Tok(c) \in Int /\ NTok \in Int
      BY <3>1 DEF Tok
    <3>3. IsFiniteSet(Tok(c)..NTok)
      BY <3>2, FS_Interval
    <3>4. blanks \in SUBSET (Tok(c)..NTok)
      OBVIOUS
    <3>5. IsFiniteSet(blanks)
      BY <3>3, <3>4, FS_Subset
    <3> QED BY <3>5, FS_CardinalityType
  <2> HIDE DEF blanks
  <2>2. cut \in [Nodes -> 0..(SizeRange - 1)]
    <3>1. CASE c \notin Nodes
      BY <1>3, <3>1 DEF TreeTypes
    <3>2. CASE c \in Nodes
      <4>1. len[c] - Cardinality(blanks) \in Int
        BY <1>3, <2>1, <3>2 DEF TreeTypes
      <4>2. (len[c] - Cardinality(blanks)) % SizeRange \in 0..(SizeRange - 1)
        BY <4>1, SizeRangeAssumption
      <4> QED BY <1>3, <4>2 DEF TreeTypes
    <3> QED BY <3>1, <3>2
  <2> HIDE DEF cut
  <2>3. [cut EXCEPT ![last] = (@ - 1) % SizeRange] \in [Nodes -> 0..(SizeRange - 1)]
    <3> HIDE DEF last
    <3>1. CASE last \notin Nodes
      BY <2>2, <3>1
    <3>2. CASE last \in Nodes
      <4>1. cut[last] - 1 \in Int
        BY <2>2, <3>2, SizeRangeAssumption
      <4>2. (cut[last] - 1) % SizeRange \in 0..(SizeRange - 1)
        BY <4>1, SizeRangeAssumption
      <4> QED BY <2>2, <4>2
    <3> QED BY <3>1, <3>2
  <2>4. Trimmed(c) \in {cut, [cut EXCEPT ![last] = (@ - 1) % SizeRange]}
    BY DEF Trimmed, cut, blanks
  <2> QED BY <2>2, <2>3, <2>4
<1> HIDE DEF o, c, hasChild
<1>8. \A m \in Nodes : /\ m # o => type'[m] = type[m]
                       /\ type[m] # "free" => type'[m] # "free"
  BY <1>1, <1>2, <1>3 DEF TreeTypes, PairTypes
<1>9. TreeTypes'
  <2>1. type' \in [Nodes -> Types]
    BY <1>1, <1>2, <1>3 DEF TreeTypes, Types
  <2>2. next' \in [Nodes -> Ref]
    BY <1>1, <1>2, <1>3 DEF TreeTypes, Ref
  <2>3. child' \in [Nodes -> Ref] /\ tail' \in [Nodes -> Ref]
    BY <1>1, <1>3, <1>4, <1>5 DEF TreeTypes
  <2>4. len' \in [Nodes -> 0..(SizeRange - 1)]
    BY <1>1, <1>3, <1>7 DEF TreeTypes
  <2> QED BY <1>6, <2>1, <2>2, <2>3, <2>4 DEF TreeTypes
<1>10. LinksGoForward'
  <2>1. ASSUME NEW m \in Nodes, next'[m] # NULL
        PROVE  next'[m] > m /\ type'[next'[m]] # "free"
    <3>1. CASE m = o
      BY <1>1, <1>2, <1>3, <1>8, <2>1, <3>1 DEF TreeTypes
    <3>2. CASE m # o
      <4>1. next'[m] = next[m]
        BY <1>1, <1>3, <2>1, <3>2 DEF TreeTypes
      <4>2. next[m] \in Nodes /\ next[m] > m /\ type[next[m]] # "free"
        BY <1>3, <2>1, <4>1 DEF TreeTypes, LinksGoForward, Ref
      <4> QED BY <1>8, <4>1, <4>2
    <3> QED BY <3>1, <3>2
  <2>2. ASSUME NEW m \in Nodes, child'[m] # NULL
        PROVE  child'[m] > m /\ type'[child'[m]] # "free"
    <3>1. CASE hasChild /\ m = o
      <4>1. child'[m] = c
        BY <1>1, <1>2, <1>3, <3>1 DEF TreeTypes
      <4> QED BY <1>3, <1>4, <1>8, <2>2, <3>1, <4>1 DEF Ref
    <3>2. CASE ~(hasChild /\ m = o)
      <4>1. child'[m] = child[m]
        BY <1>1, <3>2
      <4>2. child[m] \in Nodes /\ child[m] > m /\ type[child[m]] # "free"
        BY <1>3, <2>2, <4>1 DEF TreeTypes, LinksGoForward, Ref
      <4> QED BY <1>8, <4>1, <4>2
    <3> QED BY <3>1, <3>2
  <2> QED BY <1>6, <2>1, <2>2 DEF LinksGoForward, NULL
<1>11. \A i \in 1..Left : type'[stack[i]] = type[stack[i]]
  <2>1. \A i \in 1..Left : stack[i] \in Nodes /\ stack[i] < o
    BY OpenerFacts DEF o
  <2>2. \A i \in 1..Left : stack[i] # o
    BY <1>2, <2>1, NodesAreNumbers DEF IInv
  <2> QED BY <1>8, <2>1, <2>2
<1> QED BY <1>9, <1>10, <1>11

\* A superscript that stands alone takes a new node, right behind itself.
LEMMA StandaloneKeeps ==
    ASSUME IInv, frames # <<>>, n # NULL, next[n] # NULL, Standalone, src' = src
    PROVE  /\ TreeTypes' /\ LinksGoForward'
           /\ \A i \in 1..Len(stack) : type'[stack[i]] = type[stack[i]]
<1> DEFINE word == next[n]
<1>1. /\ Fresh(n)
      /\ child' = [child EXCEPT ![n] = n + 1]
      /\ len' = [len EXCEPT ![n + 1] = len[word], ![word] = 0]
      /\ type' = [type EXCEPT ![n] = "p_sup", ![n + 1] = "text", ![word] = "text"]
      /\ next' = next /\ tail' = tail
  BY DEF Standalone
<1>2. TreeTypes /\ LinksGoForward /\ NULL = 0 /\ Nodes \subseteq Nat \ {0, 1}
      /\ \A m \in Nodes : m % 2 = 0 => m + 1 \in Nodes
  BY NodesAreNumbers DEF IInv, TypeOK, TreeTypes, NULL
<1>3. n \in Nodes /\ n \in Nat /\ \A i \in 1..Len(stack) : stack[i] \in Nodes /\ stack[i] < n
  BY <1>2, VisitFacts DEF Ref
<1>4. word \in Nodes /\ word > n /\ word \in Nat
  BY <1>2, <1>3 DEF TreeTypes, LinksGoForward, Ref
<1>5. n + 1 \in Nodes
  BY <1>1, <1>2, <1>3 DEF Fresh
<1>6. Nodes' = Nodes /\ Ref' = Ref
  BY DEF Nodes, NTok, Ref, NULL
<1> HIDE DEF word
<1>7. \A m \in Nodes :
          /\ m < n => type'[m] = type[m]
          /\ type[m] # "free" => type'[m] # "free"
          /\ type'[n + 1] # "free"
  BY <1>1, <1>2, <1>3, <1>4, <1>5 DEF TreeTypes
<1>8. TreeTypes'
  <2>1. type' \in [Nodes -> Types]
    BY <1>1, <1>2 DEF TreeTypes, Types, PairTypes
  <2>2. child' \in [Nodes -> Ref]
    BY <1>1, <1>2, <1>5 DEF TreeTypes, Ref
  <2>3. len' \in [Nodes -> 0..(SizeRange - 1)]
    BY <1>1, <1>2, <1>4, SizeRangeAssumption DEF TreeTypes
  <2>4. next' \in [Nodes -> Ref] /\ tail' \in [Nodes -> Ref]
    BY <1>1, <1>2 DEF TreeTypes
  <2> QED BY <1>6, <2>1, <2>2, <2>3, <2>4 DEF TreeTypes
<1>9. LinksGoForward'
  <2>1. ASSUME NEW m \in Nodes, next'[m] # NULL
        PROVE  next'[m] > m /\ type'[next'[m]] # "free"
    <3>1. next[m] \in Nodes /\ next[m] > m /\ type[next[m]] # "free"
      BY <1>1, <1>2, <2>1 DEF TreeTypes, LinksGoForward, Ref
    <3> QED BY <1>1, <1>7, <3>1
  <2>2. ASSUME NEW m \in Nodes, child'[m] # NULL
        PROVE  child'[m] > m /\ type'[child'[m]] # "free"
    <3>1. CASE m = n
      <4>1. child'[m] = n + 1
        BY <1>1, <1>2, <3>1 DEF TreeTypes
      <4> QED BY <1>3, <1>7, <3>1, <4>1
    <3>2. CASE m # n
      <4>1. child'[m] = child[m]
        BY <1>1, <3>2
      <4>2. child[m] \in Nodes /\ child[m] > m /\ type[child[m]] # "free"
        BY <1>2, <2>2, <4>1 DEF TreeTypes, LinksGoForward, Ref
      <4> QED BY <1>7, <4>1, <4>2
    <3> QED BY <3>1, <3>2
  <2> QED BY <1>6, <2>1, <2>2 DEF LinksGoForward, NULL
<1> QED BY <1>3, <1>7, <1>8, <1>9
-----------------------------------------------------------------------------
(* Every step keeps the invariant.                                         *)

\* The loop body as a whole, from what it does to the tree and to the stack
LEMMA BodyKeeps ==
    ASSUME IInv, frames # <<>>, n # NULL, emph' \in Ref,
           TreeTypes', LinksGoForward',
           NEW openers \in [OpenTypes -> Nat], NEW size \in Top.start..Len(stack),
           NEW push \in BOOLEAN,
           \A t \in OpenTypes : openers[t] =
               Cardinality({i \in (Top.start + 1)..size : type[stack[i]] = t}),
           push => type[n] \in OpenTypes,
           Settle(openers, size, push),
           \A i \in 1..size : type'[stack[i]] = type[stack[i]],
           push => type'[n] = type[n]
    PROVE  IInv'
<1>1. /\ src' = src /\ pass' = pass /\ stack' \in Seq(Nodes) /\ frames' \in Seq(Frame)
      /\ ActivationsNest' /\ StackOrdered' /\ OpenersExact'
  BY SettleKeeps
<1>2. Nodes' = Nodes /\ Ref' = Ref /\ Frame' = Frame
  BY <1>1 DEF Nodes, NTok, Ref, NULL, Frame
<1>3. TypeOK'
  BY <1>1, <1>2 DEF TypeOK, TreeTypes, IInv
<1> QED BY <1>1, <1>3 DEF IInv

\* A step that pops nothing and leaves the tree alone
LEMMA PassKeeps ==
    ASSUME IInv, frames # <<>>, n # NULL, NEW push \in BOOLEAN,
           push => type[n] \in OpenTypes, Pass(push), UNCHANGED tree
    PROVE  IInv'
<1>1. TypeOK /\ LinksGoForward /\ src' = src /\ emph' = emph
  BY DEF IInv, Pass, Settle
<1>2. Nodes' = Nodes /\ Ref' = Ref
  BY <1>1 DEF Nodes, NTok, Ref, NULL
<1>3. TreeTypes' /\ LinksGoForward' /\ emph' \in Ref
  BY <1>1, <1>2 DEF tree, TreeTypes, LinksGoForward, TypeOK
<1>4. /\ Top.openers \in [OpenTypes -> Nat] /\ Len(stack) \in Top.start..Len(stack)
      /\ \A t \in OpenTypes : Top.openers[t] =
            Cardinality({i \in (Top.start + 1)..Len(stack) : type[stack[i]] = t})
  BY VisitFacts
<1>5. Settle(Top.openers, Len(stack), push)
  BY DEF Pass
<1>6. (\A i \in 1..Len(stack) : type'[stack[i]] = type[stack[i]]) /\ type'[n] = type[n]
  BY DEF tree
<1> QED BY <1>3, <1>4, <1>5, <1>6, BodyKeeps

\* A step that pops: token_closes, the new pair and the rest of the loop body
LEMMA FinishKeeps ==
    ASSUME IInv, frames # <<>>, n # NULL, emph' \in Ref, NEW push \in BOOLEAN,
           push => type[n] \in OpenTypes, Finish(push), TreeTypes', LinksGoForward',
           \A i \in 1..Left : type'[stack[i]] = type[stack[i]],
           push => type'[n] = type[n]
    PROVE  IInv'
<1>1. Settle(OpenersLeft, Left, push)
  BY DEF Finish
<1>2. /\ OpenersLeft \in [OpenTypes -> Nat] /\ Left \in Top.start..Len(stack)
      /\ \A t \in OpenTypes : OpenersLeft[t] =
            Cardinality({i \in (Top.start + 1)..Left : type[stack[i]] = t})
  BY PopFacts
<1> QED BY <1>1, <1>2, BodyKeeps

\* What a step that leaves the tree alone is to FinishKeeps
LEMMA SameTree ==
    ASSUME IInv, UNCHANGED tree, src' = src, NEW m
    PROVE  TreeTypes' /\ LinksGoForward' /\ type'[m] = type[m]
<1>1. TypeOK /\ LinksGoForward
  BY DEF IInv
<1>2. Nodes' = Nodes /\ Ref' = Ref
  BY DEF Nodes, NTok, Ref, NULL
<1> QED BY <1>1, <1>2 DEF tree, TreeTypes, LinksGoForward, TypeOK

\* A token that closes nothing leaves the tree alone: token_closes joins a pair
\* or changes no node, and the invariant on the tree holds either way.
LEMMA JoinIfClosedKeeps ==
    ASSUME IInv, frames # <<>>, n # NULL, type[n] # "free", JoinIfClosed, src' = src
    PROVE  /\ TreeTypes' /\ LinksGoForward'
           /\ \A i \in 1..Left : type'[stack[i]] = type[stack[i]]
           /\ ~Demands("subtypes") \/ ~Closes => type'[n] = type[n]
<1>1. CASE Closes
  <2>1. Join(opener)
    BY <1>1 DEF JoinIfClosed
  <2> QED BY <1>1, <2>1, JoinKeeps
<1>2. CASE ~Closes
  <2>1. UNCHANGED tree
    BY <1>2 DEF JoinIfClosed
  <2> QED BY <2>1, SameTree
<1> QED BY <1>1, <1>2

\* Each visit of a node
LEMMA VisitsKeep ==
    ASSUME IInv,
           \/ VisitOpener \/ VisitSubDivider \/ VisitCloser \/ VisitBacktick
           \/ VisitCloseOrOpen \/ VisitEmphasis \/ VisitSuperscript \/ Skip
    PROVE  IInv'
<1>1. CASE VisitOpener
  <2>1. frames # <<>> /\ n # NULL /\ type[n] \in OpenTypes
    BY <1>1 DEF VisitOpener, Visiting, Openers, OpenTypes
  <2> QED BY <1>1, <2>1, PassKeeps DEF VisitOpener
<1>2. CASE VisitSubDivider
  <2>1. frames # <<>> /\ n # NULL /\ type[n] = "sub_div" /\ JoinIfClosed /\ Finish(TRUE)
        /\ emph' = emph /\ src' = src
    BY <1>2 DEF VisitSubDivider, Visiting, Finish, Settle
  <2>2. ~Demands("subtypes")
    BY <2>1 DEF Demands, rule, RuleOf, Pairings, pairings1, pairings3, pairings4, NoRule, Rule
  <2>3. /\ TreeTypes' /\ LinksGoForward' /\ type'[n] = type[n]
        /\ \A i \in 1..Left : type'[stack[i]] = type[stack[i]]
    BY <2>1, <2>2, JoinIfClosedKeeps
  <2>4. emph' \in Ref
    BY <2>1 DEF IInv, TypeOK
  <2> QED BY <2>1, <2>3, <2>4, FinishKeeps DEF OpenTypes
<1>3. CASE VisitCloser
  <2>1. frames # <<>> /\ n # NULL /\ type[n] # "free" /\ JoinIfClosed /\ Finish(FALSE)
        /\ emph' = emph /\ src' = src
    BY <1>3 DEF VisitCloser, Visiting, Closers, Finish, Settle
  <2>2. /\ TreeTypes' /\ LinksGoForward'
        /\ \A i \in 1..Left : type'[stack[i]] = type[stack[i]]
    BY <2>1, JoinIfClosedKeeps
  <2>3. emph' \in Ref
    BY <2>1 DEF IInv, TypeOK
  <2> QED BY <2>1, <2>2, <2>3, FinishKeeps
<1>4. CASE VisitBacktick
  <2>1. frames # <<>> /\ n # NULL /\ type[n] = "backtick" /\ emph' = emph /\ emph' \in Ref
    BY <1>4 DEF VisitBacktick, Visiting, IInv, TypeOK
  <2>2. CASE Handled
    <3>1. /\ IF Closes THEN JoinCodeSpan(opener) ELSE UNCHANGED tree
          /\ Finish(~Closes) /\ src' = src
      BY <1>4, <2>2 DEF VisitBacktick, Finish, Settle
    <3>2. CASE Closes
      <4>1. /\ TreeTypes' /\ LinksGoForward'
            /\ \A i \in 1..Left : type'[stack[i]] = type[stack[i]]
        BY <2>1, <3>1, <3>2, JoinCodeSpanKeeps
      <4>2. Finish(FALSE)
        BY <3>1, <3>2 DEF Finish, Settle
      <4> QED BY <2>1, <4>1, <4>2, FinishKeeps
    <3>3. CASE ~Closes
      <4>1. /\ TreeTypes' /\ LinksGoForward' /\ type'[n] = type[n]
            /\ \A i \in 1..Left : type'[stack[i]] = type[stack[i]]
        BY <3>1, <3>3, SameTree
      <4>2. Finish(TRUE)
        BY <3>1, <3>3 DEF Finish, Settle
      <4> QED BY <2>1, <4>1, <4>2, FinishKeeps DEF OpenTypes
    <3> QED BY <3>2, <3>3
  <2>3. CASE ~Handled
    <3> DEFINE push == len[n] = 2 /\ "alt" \in DOMAIN Pairings
    <3>1. Pass(push) /\ UNCHANGED tree
      BY <1>4, <2>3 DEF VisitBacktick
    <3>2. push \in BOOLEAN
      OBVIOUS
    <3>3. push => type[n] \in OpenTypes
      BY <2>1 DEF OpenTypes
    <3> HIDE DEF push
    <3> QED BY <2>1, <3>1, <3>2, <3>3, PassKeeps
  <2> QED BY <2>2, <2>3
<1>5. CASE VisitCloseOrOpen
  <2> DEFINE push == ~Closes /\ token_can_open(n)
  <2>1. frames # <<>> /\ n # NULL /\ type[n] \in OpenTypes /\ type[n] # "free" /\ JoinIfClosed
        /\ emph' = emph /\ src' = src
    BY <1>5 DEF VisitCloseOrOpen, Visiting, Finish, Settle, OpenTypes
  <2>2. Finish(push)
    BY <1>5 DEF VisitCloseOrOpen
  <2>3. push => ~Closes
    OBVIOUS
  <2>4. push \in BOOLEAN
    OBVIOUS
  <2> HIDE DEF push
  <2>5. /\ TreeTypes' /\ LinksGoForward' /\ (push => type'[n] = type[n])
        /\ \A i \in 1..Left : type'[stack[i]] = type[stack[i]]
    BY <2>1, <2>3, JoinIfClosedKeeps
  <2>6. emph' \in Ref
    BY <2>1 DEF IInv, TypeOK
  <2> QED BY <2>1, <2>2, <2>4, <2>5, <2>6, FinishKeeps
<1>6. CASE VisitEmphasis
  <2>1. frames # <<>> /\ n # NULL /\ type[n] \in OpenTypes /\ type[n] # "free"
    BY <1>6 DEF VisitEmphasis, Visiting, OpenTypes
  <2>2. CASE ContinuesOpenRun
    <3> DEFINE push == token_can_open(n)
    <3>1. Pass(push) /\ UNCHANGED tree
      BY <1>6, <2>2 DEF VisitEmphasis
    <3>2. push \in BOOLEAN
      BY DEF token_can_open
    <3> HIDE DEF push
    <3> QED BY <2>1, <3>1, <3>2, PassKeeps
  <2>3. CASE ~ContinuesOpenRun
    <3> DEFINE push == ~Closes /\ token_can_open(n)
    <3>1. JoinIfClosed /\ Finish(push) /\ src' = src
          /\ emph' = IF Closes /\ ~RunGoesOn(opener) THEN opener ELSE NULL
      BY <1>6, <2>3 DEF VisitEmphasis, Finish, Settle
    <3>2. (push => ~Closes) /\ push \in BOOLEAN
      OBVIOUS
    <3> HIDE DEF push
    <3>3. /\ TreeTypes' /\ LinksGoForward' /\ (push => type'[n] = type[n])
          /\ \A i \in 1..Left : type'[stack[i]] = type[stack[i]]
      BY <2>1, <3>1, <3>2, JoinIfClosedKeeps
    <3>4. emph' \in Ref
      <4>1. CASE Closes
        BY <2>1, <3>1, <4>1, OpenerFacts DEF Ref
      <4>2. CASE ~Closes
        BY <3>1, <4>2 DEF Ref
      <4> QED BY <4>1, <4>2
    <3> QED BY <2>1, <3>1, <3>2, <3>3, <3>4, FinishKeeps
  <2> QED BY <2>2, <2>3
<1>7. CASE VisitSuperscript
  <2>1. frames # <<>> /\ n # NULL /\ type[n] = "sup" /\ emph' = emph /\ emph' \in Ref
    BY <1>7 DEF VisitSuperscript, Visiting, IInv, TypeOK
  <2>2. CASE Closes /\ Join(opener) /\ Finish(FALSE)
    <3>1. src' = src
      BY <2>2 DEF Finish, Settle
    <3>2. /\ TreeTypes' /\ LinksGoForward'
          /\ \A i \in 1..Left : type'[stack[i]] = type[stack[i]]
      BY <2>1, <2>2, <3>1, JoinKeeps
    <3> QED BY <2>1, <2>2, <3>2, FinishKeeps
  <2>3. CASE ~(Closes /\ Join(opener) /\ Finish(FALSE))
    <3> DEFINE opens == ClassAfter(Tok(n)) # "ws" /\ MateAhead /\ token_can_open(n)
    <3>1. /\ Finish(opens)
          /\ IF ~opens /\ ClassAfter(Tok(n)) = "alnum" /\ next[n] # NULL
             THEN Standalone
             ELSE UNCHANGED tree
      BY <1>7, <2>3 DEF VisitSuperscript
    <3>2. opens \in BOOLEAN
      OBVIOUS
    <3> HIDE DEF opens
    <3>3. src' = src
      BY <3>1 DEF Finish, Settle
    <3>4. CASE UNCHANGED tree
      <4>1. /\ TreeTypes' /\ LinksGoForward' /\ type'[n] = type[n]
            /\ \A i \in 1..Left : type'[stack[i]] = type[stack[i]]
        BY <3>3, <3>4, SameTree
      <4> QED BY <2>1, <3>1, <3>2, <4>1, FinishKeeps DEF OpenTypes
    <3>5. CASE ~opens /\ next[n] # NULL /\ Standalone
      <4>1. /\ TreeTypes' /\ LinksGoForward'
            /\ \A i \in 1..Len(stack) : type'[stack[i]] = type[stack[i]]
        BY <2>1, <3>3, <3>5, StandaloneKeeps
      <4>2. Left <= Len(stack) /\ Left \in Int /\ Len(stack) \in Int
        BY <2>1, PopFacts, VisitFacts
      <4>3. \A i \in 1..Left : type'[stack[i]] = type[stack[i]]
        BY <4>1, <4>2
      <4> QED BY <2>1, <3>1, <3>2, <3>5, <4>1, <4>3, FinishKeeps
    <3> QED BY <3>1, <3>4, <3>5
  <2> QED BY <2>2, <2>3
<1>8. CASE Skip
  <2>1. frames # <<>> /\ n # NULL /\ Pass(FALSE) /\ UNCHANGED tree
    BY <1>8 DEF Skip
  <2> QED BY <2>1, PassKeeps
<1> QED BY <1>1, <1>2, <1>3, <1>4, <1>5, <1>6, <1>7, <1>8

\* Entering the children of a pair adds an activation without openers
LEMMA DescendKeeps ==
    ASSUME IInv, Descend
    PROVE  IInv'
<1>1. /\ frames # <<>> /\ n # NULL /\ child[n] # NULL
      /\ frames' = Append(frames, Activation(child[n]))
      /\ UNCHANGED <<src, tree, stack, pass, emph>>
  BY DEF Descend, Visiting
<1>2. /\ Depth \in Nat \ {0} /\ Depth \in 1..Depth /\ Top \in Frame /\ Len(stack) \in Nat
      /\ n \in Ref /\ frames[Depth] = Top /\ TypeOK
      /\ \A i \in 1..Len(stack) : stack[i] \in Nodes /\ stack[i] < n
      /\ \A k \in 1..Depth : frames[k].start \in Nat
  BY <1>1, VisitFacts DEF Top, IInv
<1>3. n \in Nodes /\ n \in Nat /\ Nodes \subseteq Nat
  BY <1>1, <1>2, NodesAreNumbers DEF Ref
<1>4. child[n] \in Nodes /\ child[n] > n
  BY <1>1, <1>2, <1>3 DEF IInv, LinksGoForward, TypeOK, Ref
<1>5. \A i \in 1..Len(stack) : stack[i] < child[n]
  <2>1. child[n] \in Nat /\ \A i \in 1..Len(stack) : stack[i] \in Nat
    BY <1>2, <1>3, <1>4
  <2> QED BY <1>2, <1>3, <1>4, <2>1
<1> DEFINE new == Activation(child[n])
<1>6. new \in Frame /\ new.node = child[n] /\ new.start = Len(stack)
      /\ \A t \in OpenTypes : new.openers[t] = 0
  BY <1>2, <1>4 DEF Activation, Frame, Ref, NULL
<1> HIDE DEF new
<1>7. frames' \in Seq(Frame) /\ Len(frames') = Depth + 1 /\ frames'[Depth + 1] = new
      /\ \A k \in 1..Depth : frames'[k] = frames[k]
  BY <1>1, <1>2, <1>6, AppendProperties DEF TypeOK, Depth, new
<1>8. Depth' = Depth + 1 /\ stack' = stack /\ src' = src /\ type' = type /\ next' = next
      /\ child' = child /\ len' = len /\ tail' = tail /\ pass' = pass /\ emph' = emph
  BY <1>1, <1>7 DEF Depth, tree
<1>9. Nodes' = Nodes /\ Ref' = Ref /\ Frame' = Frame
  BY <1>8 DEF Nodes, NTok, Ref, NULL, Frame
<1>10. TypeOK'
  BY <1>2, <1>7, <1>8, <1>9 DEF TypeOK
<1>11. LinksGoForward'
  BY <1>8, <1>9 DEF LinksGoForward, IInv
<1>12. ActivationsNest'
  <2>1. \A k \in 1..Depth : /\ frames[k].start <= Len(stack) /\ frames[1].start = 0
                            /\ k < Depth => frames[k].node # NULL
                            /\ \A j \in 1..Depth : j <= k => frames[j].start <= frames[k].start
    BY DEF IInv, ActivationsNest
  <2>2. frames' # <<>>
    BY <1>2, <1>7, EmptySeq
  <2>3. frames[Depth].node # NULL
    BY <1>1, <1>2 DEF n
  <2>4. ASSUME NEW k \in 1..(Depth + 1)
        PROVE  /\ k < Depth + 1 => frames'[k].node # NULL
               /\ \A j \in 1..(Depth + 1) : j <= k => frames'[j].start <= frames'[k].start
               /\ frames'[k].start <= Len(stack)
               /\ frames'[1].start = 0
    <3>1. CASE k = Depth + 1
      <4>1. \A j \in 1..(Depth + 1) : frames'[j].start <= Len(stack)
        BY <1>2, <1>6, <1>7, <2>1
      <4>2. 1 \in 1..Depth
        BY <1>2
      <4> QED BY <1>2, <1>6, <1>7, <2>1, <3>1, <4>1, <4>2
    <3>2. CASE k \in 1..Depth
      <4>1. \A j \in 1..(Depth + 1) : j <= k => j \in 1..Depth
        BY <1>2, <3>2
      <4>2. 1 \in 1..Depth
        BY <1>2
      <4>3. frames'[k].node # NULL
        BY <1>2, <1>7, <2>1, <2>3, <3>2
      <4> QED BY <1>7, <2>1, <3>2, <4>1, <4>2, <4>3
    <3> QED BY <1>2, <3>1, <3>2
  <2> QED BY <1>8, <2>2, <2>4 DEF ActivationsNest
<1>13. PICK d \in Nat \ {0} : d = Depth
  BY <1>2
<1>14. /\ Depth' = d + 1 /\ frames'[d + 1] = new /\ d \in 1..d
       /\ \A k \in 1..d : frames'[k] = frames[k] /\ frames[k].start \in Nat
       /\ \A k \in 1..(d + 1) : k = d + 1 \/ (k \in 1..d /\ k # d + 1)
  BY <1>2, <1>7, <1>8, <1>13
<1>15. /\ Last(d + 1)' = Len(stack) /\ First(d + 1)' = Len(stack) + 1
       /\ \A k \in 1..d : Last(k)' = Last(k) /\ First(k)' = First(k)
  <2>1. Last(d + 1)' = Len(stack)
    BY <1>8, <1>14 DEF Last
  <2>2. ASSUME NEW k \in 1..d PROVE Last(k)' = Last(k)
    <3>1. CASE k = d
      BY <1>6, <1>8, <1>13, <1>14, <3>1 DEF Last
    <3>2. CASE k # d
      <4>1. k + 1 \in 1..d /\ k # d + 1
        BY <1>13, <3>2
      <4> QED BY <1>8, <1>13, <1>14, <3>2, <4>1 DEF Last
    <3> QED BY <3>1, <3>2
  <2>3. \A k \in 1..d : First(k)' = First(k)
    BY <1>14 DEF First
  <2>4. First(d + 1)' = Len(stack) + 1
    BY <1>6, <1>14 DEF First
  <2> QED BY <2>1, <2>2, <2>3, <2>4
<1>16. StackOrdered'
  <2>1. \A i, j \in 1..Len(stack) : i < j => stack[i] < stack[j]
    BY DEF IInv, StackOrdered
  <2>2. ASSUME NEW k \in 1..(d + 1)
        PROVE  /\ frames'[k].start <= Last(k)'
               /\ frames'[k].node # NULL => \A i \in 1..Last(k)' : stack[i] < frames'[k].node
    <3>1. CASE k = d + 1
      BY <1>2, <1>5, <1>6, <1>14, <1>15, <3>1
    <3>2. CASE k \in 1..d
      BY <1>13, <1>14, <1>15, <3>2 DEF IInv, StackOrdered
    <3> QED BY <1>14, <3>1, <3>2
  <2> QED BY <1>8, <1>14, <2>1, <2>2 DEF StackOrdered
<1>17. OpenersExact'
  <2>1. ASSUME NEW k \in 1..(d + 1), NEW t \in OpenTypes
        PROVE  frames'[k].openers[t] =
                 Cardinality({i \in First(k)'..Last(k)' : type[stack[i]] = t})
    <3>1. CASE k = d + 1
      <4>1. First(k)' = Len(stack) + 1 /\ Last(k)' = Len(stack)
        BY <1>15, <3>1
      <4>2. {i \in First(k)'..Last(k)' : type[stack[i]] = t} = {}
        BY <1>2, <4>1
      <4> QED BY <1>6, <1>14, <3>1, <4>2, FS_EmptySet
    <3>2. CASE k \in 1..d
      BY <1>13, <1>14, <1>15, <3>2 DEF IInv, OpenersExact
    <3> QED BY <1>14, <3>1, <3>2
  <2> QED BY <1>8, <1>14, <2>1 DEF OpenersExact
<1> QED BY <1>10, <1>11, <1>12, <1>16, <1>17 DEF IInv

\* The end of a chain: the openers of the activation are dropped with it
LEMMA ReturnKeeps ==
    ASSUME IInv, Return
    PROVE  IInv'
<1>1. /\ frames # <<>>
      /\ stack' = SubSeq(stack, 1, Top.start)
      /\ UNCHANGED <<src, tree, pass, emph>>
  BY DEF Return
<1>2. /\ Depth \in Nat \ {0} /\ Depth \in 1..Depth /\ Top \in Frame /\ Len(stack) \in Nat
      /\ frames[Depth] = Top /\ TypeOK /\ Top.start \in Nat /\ Top.start <= Len(stack)
      /\ \A i \in 1..Len(stack) : stack[i] \in Nodes
      /\ \A k \in 1..Depth : frames[k].start \in Nat /\ frames[k] \in Frame
  BY <1>1, VisitFacts DEF Top, IInv
<1>3. /\ stack' \in Seq(Nodes) /\ Len(stack') = Top.start
      /\ \A i \in 1..Top.start : stack'[i] = stack[i]
  <2>1. \A i \in 1..Top.start : stack[i] \in Nodes
    BY <1>2
  <2>2. /\ SubSeq(stack, 1, Top.start) \in Seq(Nodes)
        /\ Len(SubSeq(stack, 1, Top.start)) = IF 1 <= Top.start THEN Top.start - 1 + 1 ELSE 0
        /\ \A i \in 1..(Top.start - 1 + 1) : SubSeq(stack, 1, Top.start)[i] = stack[1 + i - 1]
    BY <1>2, <2>1, SubSeqProperties
  <2> QED BY <1>1, <1>2, <2>2
<1>4. src' = src /\ type' = type /\ next' = next /\ child' = child /\ len' = len /\ tail' = tail
      /\ pass' = pass /\ emph' = emph
  BY <1>1 DEF tree
<1>5. Nodes' = Nodes /\ Ref' = Ref /\ Frame' = Frame
  BY <1>4 DEF Nodes, NTok, Ref, NULL, Frame
<1>6. LinksGoForward'
  BY <1>4, <1>5 DEF LinksGoForward, IInv
<1>7. CASE Depth = 1
  <2>1. frames' = <<>>
    BY <1>7 DEF Return
  <2>2. Top.start = 0
    BY <1>2, <1>7 DEF IInv, ActivationsNest
  <2>3. stack' = <<>>
    BY <1>1, <1>2, <2>2, SubSeqEmpty
  <2>4. Depth' = 0
    BY <2>1, EmptySeq DEF Depth
  <2>5. TypeOK'
    BY <1>2, <1>3, <1>4, <1>5, <2>1, EmptySeq DEF TypeOK
  <2>6. ActivationsNest' /\ StackOrdered' /\ OpenersExact'
    BY <2>1, <2>3, <2>4, EmptySeq DEF ActivationsNest, StackOrdered, OpenersExact
  <2> QED BY <1>6, <2>5, <2>6 DEF IInv
<1>8. CASE Depth # 1
  <2> DEFINE up == Depth - 1
             kept == SubSeq(frames, 1, up)
             caller == frames[up]
             moved == [caller EXCEPT !.prev = caller.node, !.node = next[caller.node]]
  <2>1. up \in Nat \ {0} /\ up \in 1..up /\ up \in 1..Depth /\ up < Depth /\ up + 1 = Depth
    BY <1>2, <1>8
  <2>2. kept \in Seq(Frame) /\ Len(kept) = up /\ \A k \in 1..up : kept[k] = frames[k]
    <3>1. \A k \in 1..up : frames[k] \in Frame
      BY <1>2, <2>1
    <3>2. /\ kept \in Seq(Frame)
          /\ Len(kept) = IF 1 <= up THEN up - 1 + 1 ELSE 0
          /\ \A k \in 1..(up - 1 + 1) : kept[k] = frames[1 + k - 1]
      BY <2>1, <3>1, SubSeqProperties
    <3> QED BY <2>1, <3>2
  <2>3. frames' = [kept EXCEPT ![up] = moved]
    BY <1>1, <1>8, <2>1, <2>2 DEF Return
  <2>4. caller \in Frame /\ caller.node \in Nodes
    BY <1>2, <2>1 DEF IInv, ActivationsNest, Frame, Ref
  <2>5. next[caller.node] \in Ref /\ (next[caller.node] # NULL => next[caller.node] > caller.node)
    BY <1>2, <2>4 DEF IInv, LinksGoForward, TypeOK
  <2>6. moved \in Frame /\ moved.node = next[caller.node] /\ moved.start = caller.start
        /\ moved.openers = caller.openers
    BY <2>4, <2>5 DEF Frame, Ref
  <2> HIDE DEF kept, moved
  <2>7. /\ frames' \in Seq(Frame) /\ Len(frames') = up
        /\ \A k \in 1..up : frames'[k] = IF k = up THEN moved ELSE frames[k]
    BY <2>1, <2>2, <2>3, <2>6, ExceptSeq
  <2>8. Depth' = up /\ \A k \in 1..up : /\ frames'[k].start = frames[k].start
                                        /\ frames'[k].openers = frames[k].openers
    BY <2>6, <2>7 DEF Depth
  <2> HIDE DEF up
  <2>9. TypeOK'
    BY <1>2, <1>3, <1>4, <1>5, <2>7 DEF TypeOK
  <2>10. \A k \in 1..up : k \in 1..Depth /\ k # Depth
    BY <1>2, <2>1
  <2>11. ActivationsNest'
    <3>1. \A k \in 1..Depth : /\ frames[1].start = 0
                              /\ k < Depth => frames[k].node # NULL
                              /\ \A j \in 1..Depth : j <= k => frames[j].start <= frames[k].start
      BY DEF IInv, ActivationsNest
    <3>2. frames' # <<>>
      BY <2>1, <2>7, EmptySeq
    <3>3. ASSUME NEW k \in 1..up
          PROVE  /\ k < up => frames'[k].node # NULL
                 /\ \A j \in 1..up : j <= k => frames'[j].start <= frames'[k].start
                 /\ frames'[k].start <= Len(stack')
                 /\ frames'[1].start = 0
      <4>1. k < up => frames'[k].node # NULL
        BY <1>2, <2>1, <2>7, <3>1
      <4>2. frames[k].start <= frames[Depth].start
        BY <1>2, <2>1, <2>10, <3>1
      <4>3. 1 \in 1..up
        BY <2>1
      <4> QED BY <1>2, <1>3, <2>8, <2>10, <3>1, <4>1, <4>2, <4>3
    <3> QED BY <2>8, <3>2, <3>3 DEF ActivationsNest
  <2>12. \A k \in 1..up : Last(k)' = Last(k) /\ First(k)' = First(k)
    <3> TAKE k \in 1..up
    <3>1. First(k)' = First(k)
      BY <2>8 DEF First
    <3>2. CASE k = up
      <4>1. Last(k) = Top.start
        BY <1>2, <2>1, <2>10, <3>2 DEF Last
      <4>2. Last(k)' = Len(stack')
        BY <2>8, <3>2 DEF Last
      <4> QED BY <1>3, <3>1, <4>1, <4>2
    <3>3. CASE k # up
      <4>1. k + 1 \in 1..up
        BY <2>1, <3>3
      <4>2. Last(k)' = frames'[k + 1].start /\ Last(k) = frames[k + 1].start
        BY <2>8, <2>10, <3>3 DEF Last
      <4> QED BY <2>8, <3>1, <4>1, <4>2
    <3> QED BY <3>2, <3>3
  <2>13. \A k \in 1..up : \A i \in 1..Last(k) : i \in 1..Top.start
    <3> TAKE k \in 1..up
    <3>1. k + 1 \in 1..Depth /\ Last(k) = frames[k + 1].start
      BY <1>2, <2>1, <2>10 DEF Last
    <3>2. frames[k + 1].start <= Top.start /\ frames[k + 1].start \in Nat
      BY <1>2, <3>1 DEF IInv, ActivationsNest
    <3> QED BY <1>2, <3>1, <3>2
  <2>14. StackOrdered'
    <3>1. \A i, j \in 1..Len(stack') : i < j => stack'[i] < stack'[j]
      BY <1>2, <1>3 DEF IInv, StackOrdered
    <3>2. \A k \in 1..up : frames'[k].start <= Last(k)'
      BY <2>8, <2>10, <2>12 DEF IInv, StackOrdered
    <3>3. ASSUME NEW k \in 1..up, frames'[k].node # NULL, NEW i \in 1..Last(k)'
          PROVE  stack'[i] < frames'[k].node
      <4>1. i \in 1..Last(k) /\ stack'[i] = stack[i] /\ i \in 1..Len(stack)
        BY <1>2, <1>3, <2>12, <2>13, <3>3
      <4>2. frames[k].node # NULL
        BY <1>2, <2>1, <2>10 DEF IInv, ActivationsNest
      <4>3. stack[i] < frames[k].node
        BY <2>10, <4>1, <4>2 DEF IInv, StackOrdered
      <4>4. CASE k # up
        BY <2>7, <4>1, <4>3, <4>4
      <4>5. CASE k = up
        <5>1. frames'[k].node = next[caller.node] /\ frames[k].node = caller.node
          BY <2>6, <2>7, <4>5
        <5>2. stack[i] \in Nat /\ caller.node \in Nat /\ next[caller.node] \in Nat
              /\ next[caller.node] > caller.node
          BY <1>2, <2>4, <2>5, <3>3, <4>1, <5>1, NodesAreNumbers DEF Ref
        <5> QED BY <4>1, <4>3, <5>1, <5>2
      <4> QED BY <4>4, <4>5
    <3> QED BY <2>8, <3>1, <3>2, <3>3 DEF StackOrdered
  <2>15. OpenersExact'
    <3>1. ASSUME NEW k \in 1..up, NEW t \in OpenTypes
          PROVE  frames'[k].openers[t] =
                   Cardinality({i \in First(k)'..Last(k)' : type'[stack'[i]] = t})
      <4>1. \A i \in First(k)..Last(k) : stack'[i] = stack[i]
        <5>1. First(k) \in Nat \ {0} /\ Last(k) \in Nat
          BY <1>2, <2>1, <2>10 DEF First, Last
        <5>2. \A i \in First(k)..Last(k) : i \in 1..Last(k)
          BY <5>1
        <5> QED BY <1>3, <2>13, <5>2
      <4>2. {i \in First(k)'..Last(k)' : type'[stack'[i]] = t}
              = {i \in First(k)..Last(k) : type[stack[i]] = t}
        BY <1>4, <2>12, <4>1
      <4>3. frames[k].openers[t] = Cardinality({i \in First(k)..Last(k) : type[stack[i]] = t})
        BY <2>10 DEF IInv, OpenersExact
      <4> QED BY <2>8, <4>2, <4>3
    <3> QED BY <2>8, <3>1 DEF OpenersExact
  <2> QED BY <1>6, <2>9, <2>11, <2>14, <2>15 DEF IInv
<1> QED BY <1>7, <1>8

\* Strong and emphasis replace the types of pairs, which are on no stack
LEMMA EmphasisKeeps ==
    ASSUME IInv, pair_emphasis_tokens
    PROVE  IInv'
<1> DEFINE c == child[emph]
           doubled == c # NULL /\ type[c] = type[emph] /\ type[next[emph]] = type[tail[c]]
           plain == type[emph] \notin {"p_star", "p_ul"}
<1>1. /\ emph # NULL
      /\ \/ plain /\ emph' = NULL /\ type' = type
         \/ /\ ~plain /\ doubled /\ emph' = child[c]
            /\ type' = [type EXCEPT ![emph] = "p_strong", ![c] = UsedType(type[c])]
         \/ /\ ~plain /\ ~doubled /\ emph' = c
            /\ type' = [type EXCEPT ![emph] = "p_emph"]
      /\ UNCHANGED <<src, len, next, child, tail, stack, frames, pass>>
  BY DEF pair_emphasis_tokens
<1>2. TypeOK /\ LinksGoForward /\ NULL = 0
  BY DEF IInv, NULL
<1>3. emph \in Nodes /\ c \in Ref /\ (c # NULL => c \in Nodes)
  BY <1>1, <1>2 DEF TypeOK, Ref
<1> HIDE DEF c
<1>4. \A m \in Nodes :
          /\ type'[m] \in Types
          /\ type[m] # "free" => type'[m] # "free"
          /\ \A t \in OpenTypes : type'[m] = t <=> type[m] = t
  <2> TAKE m \in Nodes
  <2>1. type[m] \in Types
    BY <1>2 DEF TypeOK
  <2>2. CASE type' = type
    BY <2>1, <2>2
  <2>3. CASE ~plain /\ doubled /\ type' = [type EXCEPT ![emph] = "p_strong", ![c] = UsedType(type[c])]
    BY <1>2, <1>3, <2>1, <2>3 DEF TypeOK, UsedType, Types, PairTypes, OpenTypes
  <2>4. CASE ~plain /\ ~doubled /\ type' = [type EXCEPT ![emph] = "p_emph"]
    BY <1>2, <1>3, <2>1, <2>4 DEF TypeOK, Types, PairTypes, OpenTypes
  <2> QED BY <1>1, <2>2, <2>3, <2>4
<1>5. emph' \in Ref
  BY <1>1, <1>2, <1>3 DEF TypeOK, Ref
<1>6. Nodes' = Nodes /\ Ref' = Ref /\ Frame' = Frame
  BY <1>1 DEF Nodes, NTok, Ref, NULL, Frame
<1>7. type' \in [Nodes -> Types]
  <2>1. type' = [m \in Nodes |-> type'[m]]
    BY <1>1, <1>2 DEF TypeOK
  <2> QED BY <1>4, <2>1
<1>8. TypeOK'
  BY <1>1, <1>2, <1>5, <1>6, <1>7 DEF TypeOK
<1>9. LinksGoForward'
  <2>1. ASSUME NEW m \in Nodes
        PROVE  /\ next[m] # NULL => next[m] > m /\ type'[next[m]] # "free"
               /\ child[m] # NULL => child[m] > m /\ type'[child[m]] # "free"
    <3>1. (next[m] # NULL => next[m] \in Nodes) /\ (child[m] # NULL => child[m] \in Nodes)
      BY <1>2 DEF TypeOK, Ref
    <3> QED BY <1>2, <1>4, <3>1 DEF LinksGoForward
  <2>2. next' = next /\ child' = child
    BY <1>1
  <2> QED BY <1>6, <2>1, <2>2 DEF LinksGoForward, NULL
<1>10. frames' = frames /\ stack' = stack /\ Depth' = Depth
  BY <1>1 DEF Depth
<1>11. ActivationsNest'
  BY <1>10 DEF IInv, ActivationsNest
<1>12. \A k \in 1..Depth : Last(k)' = Last(k) /\ First(k)' = First(k)
  BY <1>10 DEF Last, First
<1>13. StackOrdered'
  BY <1>10, <1>12 DEF IInv, StackOrdered
<1>14. OpenersExact'
  <2>1. ASSUME NEW k \in 1..Depth, NEW t \in OpenTypes
        PROVE  frames[k].openers[t] =
                 Cardinality({i \in First(k)..Last(k) : type'[stack[i]] = t})
    <3>1. \A i \in First(k)..Last(k) : stack[i] \in Nodes
      <4>1. frames # <<>>
        BY <1>2, EmptySeq DEF Depth, TypeOK
      <4>2. First(k) \in Nat \ {0} /\ Last(k) \in Nat /\ Last(k) <= Len(stack)
        BY <4>1, VisitFacts DEF First, Last, IInv, ActivationsNest
      <4>3. \A i \in First(k)..Last(k) : i \in 1..Len(stack)
        BY <4>1, <4>2, VisitFacts
      <4> QED BY <4>1, <4>3, VisitFacts
    <3>2. {i \in First(k)..Last(k) : type'[stack[i]] = t}
            = {i \in First(k)..Last(k) : type[stack[i]] = t}
      BY <1>4, <3>1
    <3> QED BY <3>2 DEF IInv, OpenersExact
  <2> QED BY <1>10, <1>12, <2>1 DEF OpenersExact
<1> QED BY <1>8, <1>9, <1>11, <1>13, <1>14 DEF IInv

\* An activation at the head of the block, on an empty stack
LEMMA FirstActivation ==
    ASSUME TypeOK, stack = <<>>
    PROVE  /\ <<Activation(2)>> \in Seq(Frame) /\ Len(<<Activation(2)>>) = 1
           /\ Activation(2).start = 0
           /\ \A t \in OpenTypes : Activation(2).openers[t] = 0
<1>1. 2 \in Ref /\ NULL \in Ref
  BY NodesAreNumbers DEF Ref
<1>2. Activation(2) \in Frame /\ Activation(2).start = 0
      /\ \A t \in OpenTypes : Activation(2).openers[t] = 0
  BY <1>1, EmptySeq DEF Activation, Frame
<1> QED BY <1>2

\* Between two passes nothing is open
LEMMA NextPassKeeps ==
    ASSUME IInv, NextPass
    PROVE  IInv'
<1>1. /\ frames = <<>> /\ stack = <<>> /\ pass' \in {1, 3, 4, 5}
      /\ frames' = <<>> \/ frames' = <<Activation(2)>>
      /\ UNCHANGED <<src, tree, stack, emph>>
  BY DEF NextPass, IInv, ActivationsNest
<1>2. TypeOK /\ LinksGoForward
  BY DEF IInv
<1>3. Nodes' = Nodes /\ Ref' = Ref /\ Frame' = Frame
  BY <1>1 DEF Nodes, NTok, Ref, NULL, Frame
<1>4. frames' \in Seq(Frame)
  BY <1>1, <1>2, FirstActivation, EmptySeq
<1>5. TypeOK' /\ LinksGoForward'
  BY <1>1, <1>2, <1>3, <1>4 DEF TypeOK, LinksGoForward, tree
<1>6. stack' = <<>> /\ Len(stack') = 0
  BY <1>1, EmptySeq
<1>7. CASE frames' = <<>>
  <2>1. Depth' = 0
    BY <1>7, EmptySeq DEF Depth
  <2> QED BY <1>5, <1>6, <1>7, <2>1 DEF IInv, ActivationsNest, StackOrdered, OpenersExact
<1>8. CASE frames' = <<Activation(2)>>
  <2>1. Depth' = 1 /\ frames'[1] = Activation(2) /\ frames'[1].start = 0
        /\ \A t \in OpenTypes : frames'[1].openers[t] = 0
    BY <1>1, <1>2, <1>8, FirstActivation DEF Depth
  <2>2. Last(1)' = 0 /\ First(1)' = 1
    BY <1>6, <2>1 DEF Last, First
  <2>3. ActivationsNest'
    BY <1>6, <1>8, <2>1 DEF ActivationsNest
  <2>4. StackOrdered'
    BY <1>6, <2>1, <2>2 DEF StackOrdered
  <2>5. OpenersExact'
    <3>1. \A t : {i \in First(1)'..Last(1)' : type'[stack'[i]] = t} = {}
      BY <2>2
    <3> QED BY <2>1, <3>1, FS_EmptySet DEF OpenersExact
  <2> QED BY <1>5, <2>3, <2>4, <2>5 DEF IInv
<1> QED BY <1>1, <1>7, <1>8
-----------------------------------------------------------------------------
(* The theorems.                                                           *)

\* The chain that the tokenizer hands over satisfies the invariant.
LEMMA InitInv == Init => IInv
<1> SUFFICES ASSUME Init PROVE IInv
  OBVIOUS
<1>1. src \in Seq(Kinds) /\ src # <<>> /\ src \in Inputs
  BY InputsAssumption DEF Init
<1>2. NTok \in Nat \ {0}
  BY <1>1, EmptySeq DEF NTok
<1>3. \A m \in Nodes : m \in Nat /\ Tok(m) \in 1..NTok /\ src[Tok(m)] \in Kinds
  BY <1>1, <1>2, ElementOfSeq DEF Nodes, Tok, NTok
<1>4. \A k \in Kinds : InitialType(k) \in Types /\ InitialType(k) # "free"
                       /\ InitialLen(k) \in 0..(SizeRange - 1)
  <2>1. \A k \in Kinds : InitialType(k) \in Types /\ InitialType(k) # "free"
    BY DEF Kinds, InitialType, Types
  <2>2. \A k \in Kinds : InitialLen(k) \in {1, 2, 3}
    BY DEF InitialLen
  <2> QED BY <2>1, <2>2, SizeRangeAssumption
<1>5. type \in [Nodes -> Types] /\ len \in [Nodes -> 0..(SizeRange - 1)]
  <2>1. "free" \in Types /\ 0 \in 0..(SizeRange - 1)
    BY SizeRangeAssumption DEF Types
  <2> QED BY <1>3, <1>4, <2>1 DEF Init
<1>6. \A m \in Nodes : Following(m) \in Nat
  BY <1>3 DEF Following
<1>7. next \in [Nodes -> Ref] /\ child \in [Nodes -> Ref] /\ tail \in [Nodes -> Ref]
  BY <1>6 DEF Init, Ref
<1>8. NULL \in Ref /\ 2 \in Ref
  BY <1>2 DEF Ref, Nodes
<1>9. stack = <<>> /\ Len(stack) = 0 /\ stack \in Seq(Nodes)
  BY EmptySeq DEF Init
<1>10. Activation(2) \in Frame /\ Activation(2).start = 0
      /\ \A t \in OpenTypes : Activation(2).openers[t] = 0
  BY <1>8, <1>9 DEF Activation, Frame
<1>11. frames \in Seq(Frame) /\ Depth = 1 /\ frames[1] = Activation(2) /\ frames # <<>>
  BY <1>10 DEF Init, Depth
<1>12. TypeOK
  BY <1>1, <1>5, <1>7, <1>8, <1>9, <1>11 DEF Init, TypeOK
<1>13. LinksGoForward
  <2>1. ASSUME NEW m \in Nodes, next[m] # NULL
        PROVE  next[m] > m /\ type[next[m]] # "free"
    <3>1. next[m] = Following(m) /\ Following(m) \in Nodes /\ m % 2 = 0 /\ m \in Nat
      BY <1>3, <2>1 DEF Init, Scans
    <3>2. Scans(Following(m)) /\ Following(m) > m
      <4>1. CASE Indentation(Tok(m) + 1)
        <5>1. src[Tok(m) + 1] = "ws" /\ Following(m) = m + 4
          BY <4>1 DEF Indentation, Following
        <5>2. Tok(m + 4) = (Tok(m) + 1) + 1 /\ (m + 4) % 2 = 0
          BY <3>1 DEF Tok
        <5>3. ~Indentation((Tok(m) + 1) + 1)
          <6>1. ((Tok(m) + 1) + 1) - 1 = Tok(m) + 1
            BY <1>3
          <6> QED BY <5>1, <6>1 DEF Indentation
        <5> QED BY <3>1, <5>1, <5>2, <5>3 DEF Scans
      <4>2. CASE ~Indentation(Tok(m) + 1)
        <5>1. Following(m) = m + 2 /\ Tok(m + 2) = Tok(m) + 1 /\ (m + 2) % 2 = 0
          BY <3>1, <4>2 DEF Following, Tok
        <5> QED BY <3>1, <4>2, <5>1 DEF Scans
      <4> QED BY <4>1, <4>2
    <3>3. type[Following(m)] = InitialType(src[Tok(Following(m))])
      BY <3>1, <3>2 DEF Init
    <3> QED BY <1>3, <1>4, <3>1, <3>2, <3>3
  <2> QED BY <2>1 DEF LinksGoForward, Init
<1>14. ActivationsNest
  BY <1>9, <1>10, <1>11 DEF ActivationsNest
<1>15. Last(1) = 0 /\ First(1) = 1
  BY <1>9, <1>10, <1>11 DEF Last, First
<1>16. StackOrdered
  BY <1>9, <1>10, <1>11, <1>15 DEF StackOrdered
<1>17. OpenersExact
  <2>1. ASSUME NEW k \in 1..Depth, NEW t \in OpenTypes
        PROVE  frames[k].openers[t] =
                 Cardinality({i \in First(k)..Last(k) : type[stack[i]] = t})
    <3>1. k = 1
      BY <1>11
    <3>2. First(k) = 1 /\ Last(k) = 0
      BY <1>15, <3>1
    <3>3. {i \in First(k)..Last(k) : type[stack[i]] = t} = {}
      BY <3>2
    <3> QED BY <1>10, <1>11, <3>1, <3>3, FS_EmptySet
  <2> QED BY <2>1 DEF OpenersExact
<1> QED BY <1>12, <1>13, <1>14, <1>16, <1>17 DEF IInv

\* A step that changes nothing keeps the invariant.
LEMMA StutterKeeps ==
    ASSUME IInv, UNCHANGED vars
    PROVE  IInv'
<1>1. src' = src /\ type' = type /\ len' = len /\ next' = next /\ child' = child /\ tail' = tail
      /\ stack' = stack /\ frames' = frames /\ pass' = pass /\ emph' = emph
  BY DEF vars, tree
<1>2. Nodes' = Nodes /\ Ref' = Ref /\ Frame' = Frame /\ Depth' = Depth
  BY <1>1 DEF Nodes, NTok, Ref, NULL, Frame, Depth
<1>3. TypeOK' /\ LinksGoForward' /\ ActivationsNest'
  BY <1>1, <1>2 DEF IInv, TypeOK, LinksGoForward, ActivationsNest
<1>4. \A k \in 1..Depth : Last(k)' = Last(k) /\ First(k)' = First(k)
  BY <1>1, <1>2 DEF Last, First
<1>5. StackOrdered' /\ OpenersExact'
  BY <1>1, <1>2, <1>4 DEF IInv, StackOrdered, OpenersExact
<1> QED BY <1>3, <1>5 DEF IInv

\* IInv is inductive: whatever the parser does next, it is kept.
LEMMA NextInv == IInv /\ [Next]_vars => IInv'
<1> SUFFICES ASSUME IInv, [Next]_vars PROVE IInv'
  OBVIOUS
<1>1. CASE VisitOpener \/ VisitSubDivider \/ VisitCloser \/ VisitBacktick
           \/ VisitCloseOrOpen \/ VisitEmphasis \/ VisitSuperscript \/ Skip
  BY <1>1, VisitsKeep
<1>2. CASE Descend
  BY <1>2, DescendKeeps
<1>3. CASE Return
  BY <1>3, ReturnKeeps
<1>4. CASE pair_emphasis_tokens
  BY <1>4, EmphasisKeeps
<1>5. CASE NextPass
  BY <1>5, NextPassKeeps
<1>6. CASE UNCHANGED vars
  BY <1>6, StutterKeeps
<1> QED BY <1>1, <1>2, <1>3, <1>4, <1>5, <1>6 DEF Next

\* The inductive invariant holds in every state of analyze_token_chain, for
\* every text: in the initial states, and after each step.
THEOREM Invariance == Spec => []IInv
<1> QED BY InitInv, NextInv, PTL DEF Spec

\* The tree is well typed at every step, for every set of texts: node
\* references never leave the pool and no length leaves the range of size_t.
THEOREM TypeCorrect == Spec => []TypeOK
<1>1. IInv => TypeOK
  BY DEF IInv
<1> QED BY <1>1, Invariance, PTL

\* token_closes may trust the counters of its activation: for every text and
\* every depth of nesting they count exactly the openers above stack_start.
THEOREM CountersExact == Spec => []OpenersExact
<1>1. IInv => OpenersExact
  BY DEF IInv
<1> QED BY <1>1, Invariance, PTL

\* The stack shared by all levels of the recursion stays in text order, with
\* nested segments that lie before the node each level is at.
THEOREM SharedStackOrdered == Spec => []StackOrdered
<1>1. IInv => StackOrdered
  BY DEF IInv
<1> QED BY <1>1, Invariance, PTL

\* No step ever links a node to an earlier node or to one not allocated: the
\* tree that the three passes rewrite in place never gets a cycle.
THEOREM TreeHasNoCycle == Spec => []LinksGoForward
<1>1. IInv => LinksGoForward
  BY DEF IInv
<1> QED BY <1>1, Invariance, PTL
-----------------------------------------------------------------------------
(* What a step takes off the stack.                                        *)

\* The opener that token_closes returns has the type that it looks for, and
\* that is not the type of a pair.
LEMMA OpenerIsMate ==
    ASSUME IInv, frames # <<>>, Closes
    PROVE  type[opener] = rule.mate /\ rule.mate \notin PairTypes /\ rule.pair \in PairTypes
<1>1. Len(stack) \in Nat /\ Top.start \in 0..Len(stack)
  BY VisitFacts
<1>2. Matches \subseteq 0..Len(stack) /\ Matches # {}
  BY <1>1 DEF Matches, Segment, Closes
<1> DEFINE last == CHOOSE i \in Matches : \A j \in Matches : j <= i
<1>3. last \in Matches
  <2>1. \E x \in Matches : \A y \in Matches : y <= x
    BY <1>1, <1>2, GreatestExists
  <2> QED BY <2>1
<1>4. Left + 1 = last
  <2>1. Left = last - 1
    BY <1>2 DEF Left, Closes
  <2> HIDE DEF last
  <2> QED BY <1>1, <1>2, <1>3, <2>1
<1> HIDE DEF last
<1>5. opener = stack[last] /\ type[stack[last]] = rule.mate
  BY <1>3, <1>4 DEF opener, Matches, Scanned
<1>6. rule.mate \in OpenTypes /\ rule.pair \in PairTypes
  BY RuleFacts DEF Closes, Attempts, Handled, rule
<1>7. OpenTypes \cap PairTypes = {}
  BY DEF OpenTypes, PairTypes
<1> QED BY <1>5, <1>6, <1>7

\* A pair changes the type of its opener.
LEMMA JoinChangesType ==
    ASSUME IInv, frames # <<>>, n # NULL, Closes, Join(opener) \/ JoinCodeSpan(opener)
    PROVE  type' # type
<1>1. opener \in Nodes
  BY OpenerFacts
<1>2. type[opener] = rule.mate /\ rule.mate \notin PairTypes /\ rule.pair \in PairTypes
  BY OpenerIsMate
<1>3. CASE Join(opener)
  <2> DEFINE pair == IF Demands("subtypes") THEN Subtype(opener) ELSE rule.pair
  <2>1. pair \in PairTypes
    BY <1>2 DEF Subtype, PairTypes
  <2> DEFINE c == next[opener]
             marked == pair \in {"p_footnote", "p_glossary"}
             split == marked /\ len[c] > 1
  <2>2. type' = [m \in Nodes |-> CASE m = opener -> pair
                                  [] marked /\ m = c -> "marker"
                                  [] split /\ m = c + 1 -> type[c]
                                  [] OTHER -> type[m]]
    BY <1>3 DEF Join
  <2>3. opener # c /\ ~(split /\ opener = c + 1)
    <3>1. c \in Ref /\ (c # NULL => c > opener)
      BY <1>1 DEF IInv, LinksGoForward, TypeOK
    <3>2. opener \in Nat \ {0, 1} /\ (c = 0 \/ c \in Nat)
      BY <1>1, <3>1, NodesAreNumbers DEF IInv, Ref, NULL
    <3> HIDE DEF c
    <3> QED BY <3>1, <3>2 DEF NULL
  <2> HIDE DEF pair, marked, split, c
  <2>4. type'[opener] = pair
    BY <1>1, <2>2, <2>3
  <2> QED BY <1>2, <2>1, <2>4
<1>4. CASE JoinCodeSpan(opener)
  <2>1. type' = [type EXCEPT ![opener] = rule.pair] /\ type \in [Nodes -> Types]
    BY <1>4 DEF JoinCodeSpan, IInv, TypeOK
  <2>2. type'[opener] = rule.pair
    BY <1>1, <2>1
  <2> QED BY <1>2, <2>2
<1> QED BY <1>3, <1>4

\* Only superscripts must not follow their opener directly.
LEMMA OnlySupNonConsecutive ==
    ASSUME NEW t, "non_consecutive" \in RuleOf(t).conditions
    PROVE  t = "sup"
<1>1. CASE Pairings = pairings1
  BY <1>1 DEF RuleOf, Pairings, pairings1, NoRule, Rule
<1>2. CASE Pairings = pairings3
  BY <1>2 DEF RuleOf, Pairings, pairings3, NoRule, Rule
<1>3. CASE Pairings = pairings4
  BY <1>3 DEF RuleOf, Pairings, pairings4, NoRule, Rule, flanking
<1> QED BY <1>1, <1>2, <1>3 DEF Pairings

\* Where token_closes begins to pop it finds its opener: the counter says that
\* there is one, and what else is asked of it was scanned for before.
LEMMA AttemptSucceeds ==
    ASSUME IInv, frames # <<>>, type[n] # "sup", Attempts
    PROVE  Closes
<1>1. ~Demands("non_consecutive")
  BY OnlySupNonConsecutive DEF Demands, rule
<1>2. \E i \in Segment : Scanned(i)
  <2>1. CASE Demands("match_length") \/ Demands("limit_3")
    BY <2>1 DEF Attempts
  <2>2. CASE ~Demands("match_length") /\ ~Demands("limit_3")
    <3> DEFINE mates == {i \in (Top.start + 1)..Len(stack) : type[stack[i]] = rule.mate}
    <3>1. rule.mate \in OpenTypes
      BY RuleFacts DEF Attempts, Handled, rule
    <3>2. Cardinality(mates) > 0
      BY <3>1, VisitFacts DEF Attempts
    <3>3. mates # {}
      <4> HIDE DEF mates
      <4> QED BY <3>2, FS_EmptySet
    <3> QED BY <2>2, <3>3 DEF Scanned, Segment
  <2> QED BY <2>1, <2>2
<1>3. Matches # {}
  BY <1>1, <1>2 DEF Matches
<1> QED BY <1>3 DEF Closes

\* The stack after pops, if something was pushed then or not.
LEMMA SettledStack ==
    ASSUME IInv, frames # <<>>, n # NULL, NEW openers, NEW push \in BOOLEAN,
           Settle(openers, Len(stack), push)
    PROVE  \A i \in 1..Len(stack) : Len(stack') >= i /\ stack'[i] = stack[i]
<1>1. stack \in Seq(Nodes) /\ Len(stack) \in Nat /\ n \in Nodes
  BY VisitFacts DEF IInv, TypeOK, Ref
<1>2. SubSeq(stack, 1, Len(stack)) = stack
  BY <1>1, SubSeqFull
<1>3. stack' = IF push THEN Append(stack, n) ELSE stack
  BY <1>2 DEF Settle
<1>4. CASE push
  <2>1. /\ Len(Append(stack, n)) = Len(stack) + 1
        /\ \A i \in 1..Len(stack) : Append(stack, n)[i] = stack[i]
    BY <1>1, AppendProperties
  <2> QED BY <1>1, <1>3, <1>4, <2>1
<1>5. CASE ~push
  BY <1>1, <1>3, <1>5
<1> QED BY <1>4, <1>5

\* No token but a superscript takes an opener off the stack without pairing it,
\* for every text: the rest of the span parser may rely on an opener that
\* token_closes did not use being there for the closer that comes later.
THEOREM FailedCloseKeeps == Spec => FailedCloseKeepsOpeners
<1> DEFINE Kept == \A i \in 1..Len(stack) :
                       (frames # <<>> /\ emph = NULL /\ n # NULL /\ type[n] # "sup" /\ type' = type)
                          => Len(stack') >= i /\ stack'[i] = stack[i]
<1>1. IInv /\ [Next]_vars => Kept
  <2> SUFFICES ASSUME IInv, [Next]_vars, frames # <<>>, emph = NULL, n # NULL, type[n] # "sup", type' = type
               PROVE  \A i \in 1..Len(stack) : Len(stack') >= i /\ stack'[i] = stack[i]
    OBVIOUS
  <2>1. stack \in Seq(Nodes) /\ Len(stack) \in Nat
    BY LenProperties DEF IInv, TypeOK
  <2>2. CASE \/ \E push \in BOOLEAN : Pass(push)
             \/ VisitOpener \/ Skip
    <3>1. PICK push \in BOOLEAN : Settle(Top.openers, Len(stack), push)
      BY <2>2 DEF VisitOpener, Skip, Pass
    <3> QED BY <3>1, SettledStack
  <2>3. ASSUME NEW push \in BOOLEAN, Finish(push), ~Closes
        PROVE  \A i \in 1..Len(stack) : Len(stack') >= i /\ stack'[i] = stack[i]
    <3>1. ~Attempts
      BY <2>3, AttemptSucceeds
    <3>2. Left = Len(stack)
      BY <3>1 DEF Left
    <3>3. Settle(OpenersLeft, Len(stack), push)
      BY <2>3, <3>2 DEF Finish
    <3> QED BY <3>3, SettledStack
  <2>4. ~(Closes /\ (Join(opener) \/ JoinCodeSpan(opener)))
    BY JoinChangesType
  <2>5. CASE VisitSubDivider \/ VisitCloser \/ VisitCloseOrOpen
    <3>1. JoinIfClosed /\ \E push \in BOOLEAN : Finish(push)
      BY <2>5 DEF VisitSubDivider, VisitCloser, VisitCloseOrOpen
    <3> QED BY <2>3, <2>4, <3>1 DEF JoinIfClosed
  <2>6. CASE VisitBacktick
    <3>1. \/ /\ IF Closes THEN JoinCodeSpan(opener) ELSE UNCHANGED tree
             /\ \E push \in BOOLEAN : Finish(push)
          \/ \E push \in BOOLEAN : Pass(push)
      BY <2>6 DEF VisitBacktick
    <3> QED BY <2>2, <2>3, <2>4, <3>1
  <2>7. CASE VisitEmphasis
    <3>1. \/ JoinIfClosed /\ \E push \in BOOLEAN : Finish(push)
          \/ \E push \in BOOLEAN : Pass(push)
      <4>1. token_can_open(n) \in BOOLEAN
        BY DEF token_can_open
      <4> QED BY <2>7, <4>1 DEF VisitEmphasis
    <3> QED BY <2>2, <2>3, <2>4, <3>1 DEF JoinIfClosed
  <2>8. CASE Descend \/ UNCHANGED vars
    BY <2>1, <2>8 DEF Descend, vars
  <2>9. ~(VisitSuperscript \/ Return \/ pair_emphasis_tokens \/ NextPass)
    BY DEF VisitSuperscript, Visiting, Return, pair_emphasis_tokens, NextPass
  <2> QED BY <2>2, <2>5, <2>6, <2>7, <2>8, <2>9 DEF Next
<1> QED BY Invariance, <1>1, PTL DEF Spec, FailedCloseKeepsOpeners
-----------------------------------------------------------------------------
(* Trees of nodes that are numbered in the order of a walk.  cr is the set *)
(* of the nodes, par gives the parent of each (0 at the top level), and    *)
(* ch, nx and tl are child, next and tail.                                 *)

\* A parent is numbered below its children, and between a node and its parent
\* there are only descendants of that parent.
Preorder(cr, par) ==
    /\ cr \subseteq Nat \ {0, 1} /\ 2 \in cr
    /\ \A m \in cr : par[m] \in Nat /\ par[m] < m /\ (par[m] # 0 => par[m] \in cr)
    /\ \A k, m \in cr : par[k] < m /\ m < k => par[k] <= par[m]

\* child is the first node with this parent, and the child's tail the last one
Heads(cr, par, ch, tl) ==
    \A m \in cr :
        /\ ch[m] = 0 => \A k \in cr : par[k] # m
        /\ ch[m] # 0 => /\ ch[m] \in cr /\ par[ch[m]] = m
                        /\ tl[ch[m]] \in cr /\ par[tl[ch[m]]] = m
                        /\ \A k \in cr : par[k] = m => ch[m] <= k /\ k <= tl[ch[m]]

\* next is the next node with the same parent
Links(cr, par, nx) ==
    \A m \in cr :
        /\ nx[m] = 0 => \A k \in cr : par[k] = par[m] => k <= m
        /\ nx[m] # 0 => /\ nx[m] \in cr /\ par[nx[m]] = par[m] /\ nx[m] > m
                        /\ \A k \in cr : par[k] = par[m] /\ k > m => nx[m] <= k

Tree(cr, par, ch, nx, tl) ==
    Preorder(cr, par) /\ Heads(cr, par, ch, tl) /\ Links(cr, par, nx)

\* The nodes that o adopts when n closes it
Adopted(cr, par, o, c) == {m \in cr : par[m] = par[o] /\ o < m /\ m < c}

\* Two nodes of one chain that lead to the same node are one.
LEMMA PrevIsUnique ==
    ASSUME NEW cr, NEW par, NEW nx, Links(cr, par, nx), cr \subseteq Nat,
           NEW a \in cr, NEW b \in cr, par[a] = par[b], nx[a] = nx[b], nx[a] # 0
    PROVE  a = b
<1>1. /\ nx[a] \in cr /\ a < nx[a] /\ b < nx[a]
      /\ b > a => nx[a] <= b
      /\ a > b => nx[a] <= a
  BY DEF Links
<1>2. a \in Nat /\ b \in Nat /\ nx[a] \in Nat
  BY <1>1
<1> QED BY <1>1, <1>2

\* o has no children yet, and c, to its right in the same chain, closes it: the
\* nodes in between, of which prev is the last, become the children of o.
Adopts(cr, par, ch, nx, tl, o, c, prev, par2, ch2, nx2, tl2) ==
    /\ Tree(cr, par, ch, nx, tl)
    /\ o \in cr /\ c \in cr /\ prev \in cr /\ o < c
    /\ par[o] = par[c] /\ ch[o] = 0 /\ nx[o] # c
    /\ par[prev] = par[c] /\ nx[prev] = c
    /\ \A m \in cr : par2[m] = IF m \in Adopted(cr, par, o, c) THEN o ELSE par[m]
    /\ \A m \in cr : ch2[m] = IF m = o THEN nx[o] ELSE ch[m]
    /\ \A m \in cr : nx2[m] = IF m = prev THEN 0 ELSE IF m = o THEN c ELSE nx[m]
    /\ \A m \in cr : tl2[m] = IF m = nx[o] THEN prev ELSE tl[m]

\* Then the tree is a tree again.
LEMMA AdoptKeeps ==
    ASSUME NEW cr, NEW par, NEW ch, NEW nx, NEW tl, NEW o, NEW c, NEW prev,
           NEW par2, NEW ch2, NEW nx2, NEW tl2,
           Adopts(cr, par, ch, nx, tl, o, c, prev, par2, ch2, nx2, tl2)
    PROVE  /\ Tree(cr, par2, ch2, nx2, tl2)
           /\ o < prev /\ prev < c /\ nx[o] \in Adopted(cr, par, o, c)
<1> DEFINE f == nx[o]
           S == Adopted(cr, par, o, c)
<1>0. /\ Tree(cr, par, ch, nx, tl)
      /\ o \in cr /\ c \in cr /\ prev \in cr /\ o < c
      /\ par[o] = par[c] /\ ch[o] = 0 /\ nx[o] # c
      /\ par[prev] = par[c] /\ nx[prev] = c
      /\ \A m \in cr : par2[m] = IF m \in Adopted(cr, par, o, c) THEN o ELSE par[m]
      /\ \A m \in cr : ch2[m] = IF m = o THEN nx[o] ELSE ch[m]
      /\ \A m \in cr : nx2[m] = IF m = prev THEN 0 ELSE IF m = o THEN c ELSE nx[m]
      /\ \A m \in cr : tl2[m] = IF m = nx[o] THEN prev ELSE tl[m]
  BY DEF Adopts
<1> USE <1>0
<1>1. /\ cr \subseteq Nat \ {0, 1} /\ cr \subseteq Nat /\ 2 \in cr
      /\ \A m \in cr : par[m] \in Nat /\ par[m] < m /\ (par[m] # 0 => par[m] \in cr)
      /\ \A k, m \in cr : par[k] < m /\ m < k => par[k] <= par[m]
  BY DEF Tree, Preorder
<1>2. /\ \A m \in cr : ch[m] = 0 => \A k \in cr : par[k] # m
      /\ \A m \in cr : ch[m] # 0 =>
           /\ ch[m] \in cr /\ par[ch[m]] = m
           /\ tl[ch[m]] \in cr /\ par[tl[ch[m]]] = m
           /\ \A k \in cr : par[k] = m => ch[m] <= k /\ k <= tl[ch[m]]
  BY DEF Tree, Heads
<1>3. /\ \A m \in cr : nx[m] = 0 => \A k \in cr : par[k] = par[m] => k <= m
      /\ \A m \in cr : nx[m] # 0 =>
           /\ nx[m] \in cr /\ par[nx[m]] = par[m] /\ nx[m] > m
           /\ \A k \in cr : par[k] = par[m] /\ k > m => nx[m] <= k
      /\ Links(cr, par, nx)
  BY DEF Tree, Links
<1>4. \A m \in cr : m \in S <=> par[m] = par[o] /\ o < m /\ m < c
  BY DEF Adopted
<1>5. \A m \in cr : par2[m] = IF m \in S THEN o ELSE par[m]
  OBVIOUS
<1>6. /\ \A m \in cr : ch2[m] = IF m = o THEN f ELSE ch[m]
      /\ \A m \in cr : tl2[m] = IF m = f THEN prev ELSE tl[m]
      /\ o # prev /\ \A m \in cr : nx2[m] = IF m = prev THEN 0 ELSE IF m = o THEN c ELSE nx[m]
  OBVIOUS
<1> HIDE DEF S
<1>7. /\ o \in Nat /\ c \in Nat /\ prev \in Nat /\ f \in cr /\ f \in Nat
      /\ o < f /\ f < c /\ par[f] = par[o] /\ f \in S
  <2>1. f # 0
    BY <1>1, <1>3
  <2>2. f \in cr /\ par[f] = par[o] /\ f > o /\ f <= c
    BY <1>3, <2>1
  <2>3. o \in Nat /\ c \in Nat /\ prev \in Nat /\ f \in Nat
    BY <1>1, <2>2
  <2>4. f < c
    BY <2>2, <2>3
  <2>5. f \in S
    BY <1>4, <2>2, <2>4
  <2> QED BY <2>2, <2>3, <2>4, <2>5
<1>8. o < prev /\ prev < c /\ prev \in S
  <2>1. prev < c
    BY <1>1, <1>3
  <2>2. ~(prev < o)
    BY <1>1, <1>3, <1>7
  <2> QED BY <1>4, <1>6, <1>7, <2>1, <2>2
<1>9. \A k \in S : k \in cr /\ f <= k /\ k <= prev
  <2> TAKE k \in S
  <2>1. k \in cr /\ par[k] = par[o] /\ o < k /\ k < c
    BY DEF S, Adopted
  <2>2. f <= k
    BY <1>1, <1>3, <1>7, <2>1
  <2>3. ~(prev < k)
    BY <1>1, <1>3, <1>7, <2>1
  <2> QED BY <1>1, <1>7, <2>1, <2>2, <2>3
<1>10. \A k \in cr : par[k] # o
  BY <1>2
<1>11. \A k \in cr : (par2[k] = o <=> k \in S) /\ (par2[k] # o => par2[k] = par[k] /\ k \notin S)
  BY <1>5, <1>10
<1>12. o \notin S /\ c \notin S /\ par2[o] = par[o] /\ par2[c] = par[o]
  <2>1. o \notin S /\ c \notin S
    BY <1>4, <1>7
  <2> QED BY <1>5, <2>1
<1>13. Preorder(cr, par2)
  <2>1. ASSUME NEW m \in cr
        PROVE  par2[m] \in Nat /\ par2[m] < m /\ (par2[m] # 0 => par2[m] \in cr)
    BY <1>1, <1>4, <1>5
  <2>2. ASSUME NEW k \in cr, NEW m \in cr, par2[k] < m, m < k
        PROVE  par2[k] <= par2[m]
    <3>0. k \in Nat /\ m \in Nat /\ par[m] \in Nat /\ par[k] \in Nat /\ par[o] \in Nat
      BY <1>1
    <3>1. CASE k \in S
      <4>1. par2[k] = o /\ par[k] = par[o] /\ o < k /\ k < c
        BY <1>4, <1>5, <3>1
      <4>2. par[k] < m
        BY <1>1, <1>7, <2>2, <3>0, <4>1
      <4>3. par[o] <= par[m]
        BY <1>1, <2>2, <4>1, <4>2
      <4>4. CASE par[m] = par[o]
        <5>1. m \in S
          BY <1>4, <1>7, <2>2, <3>0, <4>1, <4>4
        <5> QED BY <1>5, <1>7, <4>1, <5>1
      <4>5. CASE par[m] # par[o]
        <5>1. m \notin S
          BY <1>4, <4>5
        <5>2. ~(par[m] < o)
          <6>1. o < m
            BY <2>2, <4>1
          <6>2. par[m] < o => par[m] <= par[o]
            BY <1>1, <6>1
          <6> QED BY <3>0, <4>3, <4>5, <6>2
        <5> QED BY <1>5, <1>7, <3>0, <4>1, <5>1, <5>2
      <4> QED BY <4>4, <4>5
    <3>2. CASE k \notin S
      <4>1. par2[k] = par[k] /\ par[k] <= par[m]
        BY <1>1, <1>5, <2>2, <3>2
      <4>2. CASE m \in S
        <5>1. par2[m] = o /\ par[m] < o
          BY <1>1, <1>4, <1>5, <4>2
        <5> QED BY <1>7, <3>0, <4>1, <5>1
      <4>3. CASE m \notin S
        BY <1>5, <4>1, <4>3
      <4> QED BY <4>2, <4>3
    <3> QED BY <3>1, <3>2
  <2> QED BY <1>1, <2>1, <2>2 DEF Preorder
<1>14. ASSUME NEW m \in cr
       PROVE  /\ ch2[m] = 0 => \A k \in cr : par2[k] # m
              /\ ch2[m] # 0 => /\ ch2[m] \in cr /\ par2[ch2[m]] = m
                              /\ tl2[ch2[m]] \in cr /\ par2[tl2[ch2[m]]] = m
                              /\ \A k \in cr : par2[k] = m => ch2[m] <= k /\ k <= tl2[ch2[m]]
  <2>1. CASE m = o
    <3>1. ch2[m] = f /\ tl2[f] = prev /\ f # 0
      BY <1>1, <1>6, <1>7, <2>1
    <3>2. par2[f] = o /\ par2[prev] = o
      BY <1>7, <1>8, <1>11
    <3>3. \A k \in cr : par2[k] = o => f <= k /\ k <= prev
      BY <1>9, <1>11
    <3> QED BY <1>7, <2>1, <3>1, <3>2, <3>3
  <2>2. CASE m # o
    <3>1. ch2[m] = ch[m]
      BY <1>6, <2>2
    <3>2. CASE ch[m] = 0
      BY <1>2, <1>11, <2>2, <3>1, <3>2
    <3>3. CASE ch[m] # 0
      <4> DEFINE h == ch[m]
                 t == tl[h]
      <4>1. /\ h \in cr /\ par[h] = m /\ t \in cr /\ par[t] = m
            /\ \A k \in cr : par[k] = m => h <= k /\ k <= t
        BY <1>2, <3>3
      <4> HIDE DEF h, t
      <4>2. par[o] = m => h <= o /\ c <= t
        BY <4>1
      <4>3. h # f /\ h \notin S /\ t \notin S
        <5>0. h \in Nat /\ t \in Nat
          BY <1>1, <4>1
        <5>1. h # f /\ h \notin S
          BY <1>4, <1>7, <4>1, <4>2, <5>0
        <5>2. t \notin S
          BY <1>4, <1>7, <4>1, <4>2, <5>0
        <5> QED BY <5>1, <5>2
      <4>4. tl2[h] = t
        BY <1>6, <4>1, <4>3 DEF h, t
      <4>5. par2[h] = m /\ par2[t] = m
        BY <1>5, <4>1, <4>3
      <4>6. \A k \in cr : par2[k] = m => h <= k /\ k <= t
        BY <1>11, <2>2, <4>1
      <4> QED BY <3>1, <3>3, <4>1, <4>4, <4>5, <4>6 DEF h, t
    <3> QED BY <3>2, <3>3
  <2> QED BY <2>1, <2>2
<1>15. ASSUME NEW m \in cr
       PROVE  /\ nx2[m] = 0 => \A k \in cr : par2[k] = par2[m] => k <= m
              /\ nx2[m] # 0 => /\ nx2[m] \in cr /\ par2[nx2[m]] = par2[m] /\ nx2[m] > m
                              /\ \A k \in cr : par2[k] = par2[m] /\ k > m => nx2[m] <= k
  <2>0. m \in Nat
    BY <1>1
  <2>1. CASE m = o
    <3>1. nx2[m] = c /\ c # 0
      BY <1>1, <1>6, <2>1
    <3>2. \A k \in cr : par2[k] = par2[m] /\ k > m => c <= k
      <4> TAKE k \in cr
      <4>1. par[o] # o
        BY <1>1, <1>7
      <4>2. par2[k] = par2[m] => k \notin S /\ par[k] = par[o]
        BY <1>11, <1>12, <2>1, <4>1
      <4> QED BY <1>1, <1>4, <1>7, <2>1, <4>2
    <3> QED BY <1>7, <1>12, <2>1, <3>1, <3>2
  <2>2. CASE m = prev
    <3>1. nx2[m] = 0 /\ par2[m] = o
      BY <1>6, <1>8, <1>11, <2>2
    <3> QED BY <1>9, <1>11, <2>2, <3>1
  <2>3. CASE m \in S /\ m # prev
    <3>1. m # o /\ m # prev /\ nx2[m] = nx[m] /\ par[m] = par[o] /\ o < m /\ m < c
      BY <1>4, <1>6, <1>12, <2>3
    <3>2. nx[m] # 0
      BY <1>3, <1>7, <2>0, <3>1
    <3>3. nx[m] \in cr /\ par[nx[m]] = par[o] /\ nx[m] > m /\ nx[m] <= c
      BY <1>3, <1>7, <2>0, <3>1, <3>2
    <3>4. nx[m] # c
      BY <1>1, <1>3, <2>3, <3>1, <3>2, PrevIsUnique
    <3>7. nx[m] \in Nat
      BY <1>1, <3>3
    <3>8. o < nx[m] /\ nx[m] < c
      BY <1>7, <2>0, <3>1, <3>3, <3>4, <3>7
    <3>5. nx[m] \in S
      BY <1>4, <3>3, <3>8
    <3>6. \A k \in cr : par2[k] = o /\ k > m => nx[m] <= k
      BY <1>3, <1>4, <1>11, <3>1, <3>2
    <3> QED BY <1>11, <2>3, <3>1, <3>2, <3>3, <3>5, <3>6
  <2>4. CASE m # o /\ m # prev /\ m \notin S
    <3>1. nx2[m] = nx[m] /\ par2[m] = par[m] /\ par[m] # o
      BY <1>5, <1>6, <1>10, <2>4
    <3>2. \A k \in cr : par2[k] = par2[m] => par[k] = par[m]
      BY <1>11, <3>1
    <3>3. CASE nx[m] = 0
      BY <1>3, <3>1, <3>2, <3>3
    <3>4. CASE nx[m] # 0
      <4>1. nx[m] \in cr /\ par[nx[m]] = par[m] /\ nx[m] > m
            /\ \A k \in cr : par[k] = par[m] /\ k > m => nx[m] <= k
        BY <1>3, <3>4
      <4>2. nx[m] \notin S
        <5>1. SUFFICES ASSUME nx[m] \in S PROVE FALSE
          OBVIOUS
        <5>6. nx[m] \in Nat
          BY <1>1, <4>1
        <5>2. par[m] = par[o] /\ nx[m] < c /\ o < nx[m] /\ nx[m] \in Nat
          BY <1>4, <4>1, <5>1, <5>6
        <5>3. m < o \/ m >= c
          BY <1>4, <1>7, <2>0, <2>4, <5>2
        <5>4. m < o => nx[m] <= o
          BY <1>7, <2>0, <4>1, <5>2
        <5> QED BY <1>7, <2>0, <4>1, <5>2, <5>3, <5>4
      <4>3. par2[nx[m]] = par2[m]
        BY <1>5, <3>1, <4>1, <4>2
      <4> QED BY <3>1, <3>2, <3>4, <4>1, <4>3
    <3> QED BY <3>3, <3>4
  <2> QED BY <2>1, <2>2, <2>3, <2>4
<1>16. Heads(cr, par2, ch2, tl2)
  BY <1>14 DEF Heads
<1>17. Links(cr, par2, nx2)
  BY <1>15 DEF Links
<1>18. Tree(cr, par2, ch2, nx2, tl2)
  BY <1>13, <1>16, <1>17 DEF Tree
<1> QED BY <1>7, <1>8, <1>18 DEF S

\* A node without children that has a next node is followed by it: there is no
\* node in between.
LEMMA NextIsSuccessor ==
    ASSUME NEW cr, NEW par, NEW ch, NEW nx, NEW tl, Tree(cr, par, ch, nx, tl),
           NEW m \in cr, ch[m] = 0, nx[m] # 0,
           NEW k \in cr, m < k
    PROVE  nx[m] <= k
<1>1. /\ cr \subseteq Nat /\ \A i \in cr : par[i] \in Nat /\ par[i] < i
      /\ \A i, j \in cr : par[i] < j /\ j < i => par[i] <= par[j]
  BY DEF Tree, Preorder
<1>t. \A i \in cr : i \in Nat /\ i # 0 /\ par[i] \in Nat /\ par[i] < i
  BY DEF Tree, Preorder
<1>2. \A i \in cr : par[i] # m
  BY DEF Tree, Heads
<1>3. /\ nx[m] \in cr /\ par[nx[m]] = par[m] /\ nx[m] > m
      /\ \A i \in cr : par[i] = par[m] /\ i > m => nx[m] <= i
  BY DEF Tree, Links
<1>4. SUFFICES ASSUME k < nx[m] PROVE FALSE
  BY <1>t, <1>3
<1>5. m \in Nat /\ k \in Nat /\ nx[m] \in Nat /\ par[m] \in Nat /\ par[k] \in Nat
  BY <1>t, <1>3
<1>6. par[m] < k
  BY <1>t, <1>5
<1>7. par[m] <= par[k]
  BY <1>1, <1>3, <1>4, <1>6
<1>8. par[k] # par[m]
  BY <1>3, <1>4, <1>5
<1>9. par[k] # m
  BY <1>2
<1>10. par[k] < m => par[k] <= par[m]
  BY <1>1
<1>11. m < par[k]
  BY <1>5, <1>7, <1>8, <1>9, <1>10
<1> DEFINE D == {i \in cr : m < i /\ i < nx[m]}
<1>12. D \subseteq Nat /\ D # {}
  BY <1>1, <1>4
<1>13. PICK d \in D : \A i \in D : <<i, d>> \notin OpToRel(<, Nat)
  BY <1>12, WFMin, NatLessThanWellFounded, Zenon
<1>14. d \in cr /\ d \in Nat /\ m < d /\ d < nx[m] /\ \A i \in D : ~(i < d)
  BY <1>12, <1>13 DEF OpToRel
<1>15. par[d] \in Nat /\ par[d] < d /\ (par[d] # 0 => par[d] \in cr)
  BY <1>1, <1>14 DEF Tree, Preorder
<1>16. ~(m < par[d])
  <2>1. SUFFICES ASSUME m < par[d] PROVE FALSE
    OBVIOUS
  <2>2. par[d] \in cr /\ par[d] < nx[m]
    BY <1>5, <1>14, <1>15, <2>1
  <2>3. par[d] \in D
    BY <2>1, <2>2
  <2> QED BY <1>14, <1>15, <2>3
<1>17. par[d] < m
  BY <1>2, <1>5, <1>14, <1>15, <1>16
<1>18. par[d] <= par[m]
  BY <1>1, <1>14, <1>17
<1>19. par[m] <= par[d]
  <2>1. par[m] < d
    BY <1>1, <1>5, <1>14
  <2> QED BY <1>1, <1>3, <1>14, <2>1
<1>20. par[d] = par[m]
  BY <1>5, <1>15, <1>18, <1>19
<1> QED BY <1>3, <1>5, <1>14, <1>20

\* A node split off c, the first child of o, takes its place right after c.
SplitsOff(cr, par, ch, nx, tl, o, c, cr2, par2, nx2, tl2) ==
    /\ Tree(cr, par, ch, nx, tl)
    /\ o \in cr /\ c \in cr /\ ch[o] = c /\ ch[c] = 0
    /\ c + 1 \notin cr /\ ch[c + 1] = 0
    /\ cr2 = cr \cup {c + 1}
    /\ \A m \in cr2 : par2[m] = IF m = c + 1 THEN o ELSE par[m]
    /\ \A m \in cr2 : nx2[m] = IF m = c THEN c + 1 ELSE IF m = c + 1 THEN nx[c] ELSE nx[m]
    /\ \A m \in cr2 : tl2[m] = IF m = c /\ tl[c] = c THEN c + 1 ELSE tl[m]

\* It is one more node of the tree.
LEMMA SplitKeeps ==
    ASSUME NEW cr, NEW par, NEW ch, NEW nx, NEW tl, NEW o, NEW c,
           NEW cr2, NEW par2, NEW nx2, NEW tl2,
           SplitsOff(cr, par, ch, nx, tl, o, c, cr2, par2, nx2, tl2)
    PROVE  Tree(cr2, par2, ch, nx2, tl2)
<1> DEFINE d == c + 1
<1>0. /\ Tree(cr, par, ch, nx, tl)
      /\ o \in cr /\ c \in cr /\ ch[o] = c /\ ch[c] = 0
      /\ c + 1 \notin cr /\ ch[c + 1] = 0
      /\ cr2 = cr \cup {c + 1}
      /\ \A m \in cr2 : par2[m] = IF m = c + 1 THEN o ELSE par[m]
      /\ \A m \in cr2 : nx2[m] = IF m = c THEN c + 1 ELSE IF m = c + 1 THEN nx[c] ELSE nx[m]
      /\ \A m \in cr2 : tl2[m] = IF m = c /\ tl[c] = c THEN c + 1 ELSE tl[m]
  BY DEF SplitsOff
<1> USE <1>0
<1>1. /\ cr \subseteq Nat \ {0, 1} /\ cr \subseteq Nat /\ 2 \in cr
      /\ \A m \in cr : par[m] \in Nat /\ par[m] < m /\ (par[m] # 0 => par[m] \in cr)
      /\ \A k, m \in cr : par[k] < m /\ m < k => par[k] <= par[m]
  BY DEF Tree, Preorder
<1>2. /\ \A m \in cr : ch[m] = 0 => \A k \in cr : par[k] # m
      /\ \A m \in cr : ch[m] # 0 =>
           /\ ch[m] \in cr /\ par[ch[m]] = m
           /\ tl[ch[m]] \in cr /\ par[tl[ch[m]]] = m
           /\ \A k \in cr : par[k] = m => ch[m] <= k /\ k <= tl[ch[m]]
  BY DEF Tree, Heads
<1>3. /\ \A m \in cr : nx[m] = 0 => \A k \in cr : par[k] = par[m] => k <= m
      /\ \A m \in cr : nx[m] # 0 =>
           /\ nx[m] \in cr /\ par[nx[m]] = par[m] /\ nx[m] > m
           /\ \A k \in cr : par[k] = par[m] /\ k > m => nx[m] <= k
  BY DEF Tree, Links
<1>t. \A i \in cr : i \in Nat /\ i # 0 /\ par[i] \in Nat /\ par[i] < i
  BY <1>1
<1>4. /\ c \in Nat \ {0, 1} /\ o \in Nat \ {0, 1} /\ d \in Nat /\ d > c /\ d # 0 /\ d \notin cr
      /\ par[c] = o /\ o < c /\ c # 0 /\ d # c
      /\ \A m \in cr : m < d <=> m <= c
      /\ \A m \in cr : m > d <=> m > c
  <2>1. c \in Nat \ {0, 1} /\ o \in Nat \ {0, 1}
    BY <1>1
  <2>2. par[c] = o /\ o < c
    BY <1>1, <1>2, <2>1
  <2>3. \A m \in cr : m \in Nat /\ m # d
    BY <1>1
  <2> QED BY <2>1, <2>2, <2>3
<1>s. c \in Nat /\ d \in Nat /\ c < d /\ c <= d /\ d <= d /\ c <= c
  BY <1>4
<1>5. /\ \A m \in cr : par2[m] = par[m]
      /\ par2[d] = o
      /\ \A m \in cr : nx2[m] = IF m = c THEN d ELSE nx[m]
      /\ nx2[d] = nx[c]
      /\ \A m \in cr : tl2[m] = IF m = c /\ tl[c] = c THEN d ELSE tl[m]
  BY <1>4
<1>6. ch[d] = 0
  OBVIOUS
<1> HIDE DEF d
<1>7. \A m \in cr2 : m \in cr \/ m = d
  BY DEF d
<1>8. cr \subseteq cr2 /\ d \in cr2
  BY DEF d
<1>9. \A k \in cr : par[k] # c /\ par[k] # d
  BY <1>1, <1>2, <1>4
<1>10. Preorder(cr2, par2)
  <2>1. ASSUME NEW m \in cr2
        PROVE  par2[m] \in Nat /\ par2[m] < m /\ (par2[m] # 0 => par2[m] \in cr2)
    <3>1. CASE m \in cr
      BY <1>1, <1>5, <1>8, <3>1
    <3>2. CASE m = d
      BY <1>4, <1>5, <1>8, <3>2
    <3> QED BY <1>7, <3>1, <3>2
  <2>2. ASSUME NEW k \in cr2, NEW m \in cr2, par2[k] < m, m < k
        PROVE  par2[k] <= par2[m]
    <3>1. CASE k \in cr /\ m \in cr
      BY <1>1, <1>5, <2>2, <3>1
    <3>2. CASE k = d /\ m \in cr
      <4>1. m \in Nat /\ m <= c /\ o < m /\ par[m] \in Nat
        BY <1>1, <1>4, <1>5, <2>2, <3>2
      <4>2. CASE m = c
        BY <1>4, <1>5, <3>2, <4>2
      <4>3. CASE m # c
        BY <1>1, <1>4, <1>5, <3>2, <4>1, <4>3
      <4> QED BY <4>2, <4>3
    <3>3. CASE k \in cr /\ m = d
      <4>1. k \in Nat /\ c < k /\ par[k] \in Nat /\ par[k] < d
        BY <1>1, <1>4, <1>5, <2>2, <3>3
      <4>2. par[k] < c
        BY <1>4, <1>9, <3>3, <4>1 DEF d
      <4>3. par[k] <= o
        BY <1>1, <1>4, <3>3, <4>1, <4>2
      <4> QED BY <1>5, <3>3, <4>3
    <3>4. CASE k = d /\ m = d
      BY <1>4, <2>2, <3>4
    <3> QED BY <1>7, <3>1, <3>2, <3>3, <3>4
  <2>3. cr2 \subseteq Nat \ {0, 1} /\ 2 \in cr2
    BY <1>1, <1>4, <1>7, <1>8 DEF d
  <2> QED BY <2>1, <2>2, <2>3 DEF Preorder
<1>11. ASSUME NEW m \in cr2
       PROVE  /\ ch[m] = 0 => \A k \in cr2 : par2[k] # m
              /\ ch[m] # 0 => /\ ch[m] \in cr2 /\ par2[ch[m]] = m
                              /\ tl2[ch[m]] \in cr2 /\ par2[tl2[ch[m]]] = m
                              /\ \A k \in cr2 : par2[k] = m => ch[m] <= k /\ k <= tl2[ch[m]]
  <2>1. CASE m = d
    <3>1. \A k \in cr2 : par2[k] # d
      BY <1>4, <1>5, <1>7, <1>9
    <3> QED BY <1>6, <2>1, <3>1
  <2>2. CASE m = o
    <3>1. /\ tl[c] \in cr /\ par[tl[c]] = o
          /\ \A k \in cr : par[k] = o => c <= k /\ k <= tl[c]
      BY <1>2, <1>4
    <3>2. CASE tl[c] = c
      <4>1. tl2[c] = d
        BY <1>5, <3>2
      <4>2. \A k \in cr : par[k] = o => k = c
        <5> TAKE k \in cr
        <5>1. k \in Nat /\ c \in Nat
          BY <1>1
        <5> QED BY <3>1, <3>2, <5>1
      <4>3. \A k \in cr2 : par2[k] = o => c <= k /\ k <= d
        BY <1>s, <1>5, <1>7, <4>2
      <4> QED BY <1>4, <1>5, <1>8, <2>2, <4>1, <4>3
    <3>3. CASE tl[c] # c
      <4>1. tl2[c] = tl[c]
        BY <1>5, <3>3
      <4>5. c \in cr /\ par[c] = o /\ c <= tl[c] /\ tl[c] \in Nat
        BY <1>t, <1>4, <3>1
      <4>2. c < tl[c] /\ tl[c] \in Nat
        BY <1>s, <3>3, <4>5
      <4>3. d <= tl[c]
        BY <1>4, <4>2 DEF d
      <4>4. \A k \in cr2 : par2[k] = o => c <= k /\ k <= tl[c]
        BY <1>s, <1>5, <1>7, <3>1, <4>3
      <4>6. ch[m] = c /\ c # 0 /\ c \in cr2 /\ par2[c] = o /\ tl[c] \in cr2 /\ par2[tl[c]] = o
        BY <1>4, <1>5, <1>8, <2>2, <3>1
      <4> QED BY <2>2, <4>1, <4>4, <4>6
    <3> QED BY <3>2, <3>3
  <2>3. CASE m \in cr /\ m # o
    <3>1. \A k \in cr2 : par2[k] = m => k \in cr /\ par[k] = m
      BY <1>5, <1>7, <2>3
    <3>2. CASE ch[m] = 0
      BY <1>2, <2>3, <3>1, <3>2
    <3>3. CASE ch[m] # 0
      <4>1. /\ ch[m] \in cr /\ par[ch[m]] = m
            /\ tl[ch[m]] \in cr /\ par[tl[ch[m]]] = m
            /\ \A k \in cr : par[k] = m => ch[m] <= k /\ k <= tl[ch[m]]
        BY <1>2, <2>3, <3>3
      <4>2. ch[m] # c
        BY <1>4, <2>3, <4>1
      <4>3. tl2[ch[m]] = tl[ch[m]]
        BY <1>5, <4>1, <4>2
      <4> QED BY <1>5, <1>8, <3>1, <3>3, <4>1, <4>3
    <3> QED BY <3>2, <3>3
  <2> QED BY <1>7, <2>1, <2>2, <2>3
<1>12. ASSUME NEW m \in cr2
       PROVE  /\ nx2[m] = 0 => \A k \in cr2 : par2[k] = par2[m] => k <= m
              /\ nx2[m] # 0 => /\ nx2[m] \in cr2 /\ par2[nx2[m]] = par2[m] /\ nx2[m] > m
                              /\ \A k \in cr2 : par2[k] = par2[m] /\ k > m => nx2[m] <= k
  <2>1. CASE m = c
    <3>1. nx2[m] = d /\ par2[m] = o
      BY <1>4, <1>5, <2>1
    <3>2. \A k \in cr2 : k > c => d <= k
      <4> TAKE k \in cr2
      <4>1. k \in Nat
        BY <1>1, <1>4, <1>7
      <4> QED BY <1>4, <4>1 DEF d
    <3> QED BY <1>4, <1>5, <1>8, <2>1, <3>1, <3>2
  <2>2. CASE m = d
    <3>1. nx2[m] = nx[c] /\ par2[m] = o
      BY <1>5, <2>2
    <3>2. CASE nx[c] = 0
      <4>1. \A k \in cr : par[k] = o => k <= c
        BY <1>3, <1>4, <3>2
      <4>2. \A k \in cr : par[k] = o => k <= d
        BY <1>1, <1>4, <4>1
      <4> QED BY <1>4, <1>5, <1>7, <2>2, <3>1, <3>2, <4>2
    <3>3. CASE nx[c] # 0
      <4>1. nx[c] \in cr /\ par[nx[c]] = o /\ nx[c] > c
            /\ \A k \in cr : par[k] = o /\ k > c => nx[c] <= k
        BY <1>3, <1>4, <3>3
      <4>2. nx[c] > d
        BY <1>4, <4>1
      <4>4. \A k \in cr : k > d => k > c
        BY <1>4
      <4>5. ~(d > d)
        BY <1>s
      <4>3. \A k \in cr2 : par2[k] = o /\ k > d => nx[c] <= k
        BY <1>5, <1>7, <4>1, <4>4, <4>5
      <4> QED BY <1>5, <1>8, <2>2, <3>1, <3>3, <4>1, <4>2, <4>3
    <3> QED BY <3>2, <3>3
  <2>3. CASE m \in cr /\ m # c
    <3>1. nx2[m] = nx[m] /\ par2[m] = par[m]
      BY <1>5, <2>3
    <3>2. CASE nx[m] = 0
      <4>1. \A k \in cr : par[k] = par[m] => k <= m
        BY <1>3, <2>3, <3>2
      <4>2. par[m] = o => d <= m
        <5>1. par[m] = o => c <= m
          BY <1>4, <4>1
        <5>2. m \in Nat
          BY <1>1, <2>3
        <5> QED BY <1>4, <2>3, <5>1, <5>2 DEF d
      <4>3. \A k \in cr2 : par2[k] = par2[m] => k <= m
        BY <1>5, <1>7, <3>1, <4>1, <4>2
      <4> QED BY <3>1, <3>2, <4>3
    <3>3. CASE nx[m] # 0
      <4>1. nx[m] \in cr /\ par[nx[m]] = par[m] /\ nx[m] > m
            /\ \A k \in cr : par[k] = par[m] /\ k > m => nx[m] <= k
        BY <1>3, <2>3, <3>3
      <4>2. par[m] = o /\ d > m => nx[m] <= d
        <5>1. ASSUME par[m] = o, d > m PROVE nx[m] <= d
          <6>1. m \in Nat /\ m <= c
            BY <1>1, <1>4, <2>3, <5>1
          <6>2. m < c
            BY <1>4, <2>3, <6>1
          <6>4. c \in cr /\ par[c] = par[m] /\ c > m
            BY <1>4, <5>1, <6>1, <6>2
          <6>3. nx[m] <= c
            BY <4>1, <6>4
          <6>5. nx[m] \in Nat
            BY <1>t, <4>1
          <6> QED BY <1>s, <6>3, <6>5
        <5> QED BY <5>1
      <4>3. \A k \in cr2 : par2[k] = par2[m] /\ k > m => nx[m] <= k
        BY <1>5, <1>7, <3>1, <4>1, <4>2
      <4> QED BY <1>5, <1>8, <3>1, <3>3, <4>1, <4>3
    <3> QED BY <3>2, <3>3
  <2> QED BY <1>7, <2>1, <2>2, <2>3
<1>13. Heads(cr2, par2, ch, tl2)
  BY <1>11 DEF Heads
<1>14. Links(cr2, par2, nx2)
  BY <1>12 DEF Links
<1>15. Tree(cr2, par2, ch, nx2, tl2)
  BY <1>10, <1>13, <1>14 DEF Tree
<1> QED BY <1>15

\* A new node right after p, which has no children, becomes its only child.
Grows(cr, par, ch, nx, tl, p, cr2, par2, ch2) ==
    /\ Tree(cr, par, ch, nx, tl)
    /\ p \in cr /\ ch[p] = 0
    /\ p + 1 \notin cr /\ ch[p + 1] = 0 /\ nx[p + 1] = 0 /\ tl[p + 1] = p + 1
    /\ cr2 = cr \cup {p + 1}
    /\ \A m \in cr2 : par2[m] = IF m = p + 1 THEN p ELSE par[m]
    /\ \A m \in cr2 : ch2[m] = IF m = p THEN p + 1 ELSE ch[m]

\* It is one more node of the tree.
LEMMA LeafKeeps ==
    ASSUME NEW cr, NEW par, NEW ch, NEW nx, NEW tl, NEW p, NEW cr2, NEW par2, NEW ch2,
           Grows(cr, par, ch, nx, tl, p, cr2, par2, ch2)
    PROVE  Tree(cr2, par2, ch2, nx, tl)
<1> DEFINE d == p + 1
<1>0. /\ Tree(cr, par, ch, nx, tl)
      /\ p \in cr /\ ch[p] = 0
      /\ p + 1 \notin cr /\ ch[p + 1] = 0 /\ nx[p + 1] = 0 /\ tl[p + 1] = p + 1
      /\ cr2 = cr \cup {p + 1}
      /\ \A m \in cr2 : par2[m] = IF m = p + 1 THEN p ELSE par[m]
      /\ \A m \in cr2 : ch2[m] = IF m = p THEN p + 1 ELSE ch[m]
  BY DEF Grows
<1> USE <1>0
<1>1. /\ cr \subseteq Nat \ {0, 1} /\ cr \subseteq Nat /\ 2 \in cr
      /\ \A m \in cr : par[m] \in Nat /\ par[m] < m /\ (par[m] # 0 => par[m] \in cr)
      /\ \A k, m \in cr : par[k] < m /\ m < k => par[k] <= par[m]
  BY DEF Tree, Preorder
<1>2. /\ \A m \in cr : ch[m] = 0 => \A k \in cr : par[k] # m
      /\ \A m \in cr : ch[m] # 0 =>
           /\ ch[m] \in cr /\ par[ch[m]] = m
           /\ tl[ch[m]] \in cr /\ par[tl[ch[m]]] = m
           /\ \A k \in cr : par[k] = m => ch[m] <= k /\ k <= tl[ch[m]]
  BY DEF Tree, Heads
<1>3. /\ \A m \in cr : nx[m] = 0 => \A k \in cr : par[k] = par[m] => k <= m
      /\ \A m \in cr : nx[m] # 0 =>
           /\ nx[m] \in cr /\ par[nx[m]] = par[m] /\ nx[m] > m
           /\ \A k \in cr : par[k] = par[m] /\ k > m => nx[m] <= k
  BY DEF Tree, Links
<1>t. \A i \in cr : i \in Nat /\ i # 0 /\ par[i] \in Nat /\ par[i] < i
  BY <1>1
<1>4. /\ p \in Nat \ {0, 1} /\ d \in Nat /\ d > p /\ d # 0 /\ d \notin cr /\ d # p
      /\ \A m \in cr : m \in Nat
  BY <1>1
<1>5. /\ \A m \in cr : par2[m] = par[m]
      /\ par2[d] = p
      /\ \A m \in cr : ch2[m] = IF m = p THEN d ELSE ch[m]
      /\ ch2[d] = 0 /\ nx[d] = 0 /\ tl[d] = d
  BY <1>4
<1> HIDE DEF d
<1>7. \A m \in cr2 : m \in cr \/ m = d
  BY DEF d
<1>8. cr \subseteq cr2 /\ d \in cr2
  BY DEF d
<1>9. \A k \in cr : par[k] # p /\ par[k] # d
  BY <1>1, <1>2, <1>4
<1>10. Preorder(cr2, par2)
  <2>1. ASSUME NEW m \in cr2
        PROVE  par2[m] \in Nat /\ par2[m] < m /\ (par2[m] # 0 => par2[m] \in cr2)
    <3>1. CASE m \in cr
      BY <1>1, <1>5, <1>8, <3>1
    <3>2. CASE m = d
      BY <1>4, <1>5, <1>8, <3>2
    <3> QED BY <1>7, <3>1, <3>2
  <2>2. ASSUME NEW k \in cr2, NEW m \in cr2, par2[k] < m, m < k
        PROVE  par2[k] <= par2[m]
    <3>1. CASE k \in cr /\ m \in cr
      BY <1>1, <1>5, <2>2, <3>1
    <3>2. CASE k = d /\ m \in cr
      BY <1>4, <1>5, <2>2, <3>2
    <3>3. CASE k \in cr /\ m = d
      <4>1. k \in Nat /\ par[k] \in Nat /\ par[k] < d
        BY <1>1, <1>4, <1>5, <2>2, <3>3
      <4> QED BY <1>4, <1>5, <3>3, <4>1
    <3>4. CASE k = d /\ m = d
      BY <1>4, <2>2, <3>4
    <3> QED BY <1>7, <3>1, <3>2, <3>3, <3>4
  <2>3. cr2 \subseteq Nat \ {0, 1} /\ 2 \in cr2
    BY <1>1, <1>4, <1>7, <1>8
  <2> QED BY <2>1, <2>2, <2>3 DEF Preorder
<1>11. ASSUME NEW m \in cr2
       PROVE  /\ ch2[m] = 0 => \A k \in cr2 : par2[k] # m
              /\ ch2[m] # 0 => /\ ch2[m] \in cr2 /\ par2[ch2[m]] = m
                              /\ tl[ch2[m]] \in cr2 /\ par2[tl[ch2[m]]] = m
                              /\ \A k \in cr2 : par2[k] = m => ch2[m] <= k /\ k <= tl[ch2[m]]
  <2>1. CASE m = d
    <3>1. \A k \in cr2 : par2[k] # d
      BY <1>4, <1>5, <1>7, <1>9
    <3> QED BY <1>5, <2>1, <3>1
  <2>2. CASE m = p
    <3>1. \A k \in cr2 : par2[k] = p => k = d
      BY <1>5, <1>7, <1>9
    <3> QED BY <1>4, <1>5, <1>8, <2>2, <3>1
  <2>3. CASE m \in cr /\ m # p
    <3>1. \A k \in cr2 : par2[k] = m => k \in cr /\ par[k] = m
      BY <1>5, <1>7, <2>3
    <3>2. ch2[m] = ch[m]
      BY <1>5, <2>3
    <3>3. CASE ch[m] = 0
      BY <1>2, <2>3, <3>1, <3>2, <3>3
    <3>4. CASE ch[m] # 0
      <4>1. /\ ch[m] \in cr /\ par[ch[m]] = m
            /\ tl[ch[m]] \in cr /\ par[tl[ch[m]]] = m
            /\ \A k \in cr : par[k] = m => ch[m] <= k /\ k <= tl[ch[m]]
        BY <1>2, <2>3, <3>4
      <4> QED BY <1>5, <1>8, <3>1, <3>2, <3>4, <4>1
    <3> QED BY <3>3, <3>4
  <2> QED BY <1>7, <2>1, <2>2, <2>3
<1>12. ASSUME NEW m \in cr2
       PROVE  /\ nx[m] = 0 => \A k \in cr2 : par2[k] = par2[m] => k <= m
              /\ nx[m] # 0 => /\ nx[m] \in cr2 /\ par2[nx[m]] = par2[m] /\ nx[m] > m
                              /\ \A k \in cr2 : par2[k] = par2[m] /\ k > m => nx[m] <= k
  <2>1. CASE m = d
    BY <1>4, <1>5, <1>7, <1>9, <2>1
  <2>2. CASE m \in cr
    <3>1. \A k \in cr2 : par2[k] = par2[m] => k \in cr /\ par[k] = par[m]
      BY <1>5, <1>7, <1>9, <2>2
    <3> QED BY <1>3, <1>5, <1>8, <2>2, <3>1
  <2> QED BY <1>7, <2>1, <2>2
<1>13. Heads(cr2, par2, ch2, tl)
  BY <1>11 DEF Heads
<1>14. Links(cr2, par2, nx)
  BY <1>12 DEF Links
<1>15. Tree(cr2, par2, ch2, nx, tl)
  BY <1>10, <1>13, <1>14 DEF Tree
<1> QED BY <1>15
-----------------------------------------------------------------------------
(* The tree of a block and the places of the activations in it.            *)

\* Types and children that go with the text: only pairs have children, and what
\* stands in the text bounds what a node may become.
Fits(m) ==
    /\ child[m] # NULL => type[m] \in PairTypes
    /\ type[m] \in {"brl", "brr", "sup"} => src[Tok(m)] = type[m]
    /\ src[Tok(m)] = "qx" => type[m] \in {"free", "qx", "marker"}
    /\ src[Tok(m)] = "sup" => type[m] \in {"free", "sup", "p_sup", "marker", "text"}
    /\ src[Tok(m)] = "word" => type[m] \in {"free", "word", "text"}
    /\ pass < 4 => type[m] # "p_sup"
    /\ Scans(m) => type[m] # "free"
    /\ type[m] # "free" => Scans(m) \/ (m % 2 = 1 /\ src[Tok(m)] \in {"sup", "qx"})
    /\ type[m] = "free" => tail[m] = m /\ next[m] = NULL

Shaped(par) == Tree(Created, par, child, next, tail)

ParentOf(k) == IF k = 1 THEN NULL ELSE frames[k - 1].node

\* Activation k walks the chain of the children of node k - 1; prev is the node
\* it has just left, and its openers lie on its chain.
PlacedAt(par, k) ==
    /\ frames[k].node # NULL => frames[k].node \in Created /\ par[frames[k].node] = ParentOf(k)
    /\ frames[k].prev # NULL => /\ frames[k].prev \in Created
                                /\ par[frames[k].prev] = ParentOf(k)
                                /\ next[frames[k].prev] = frames[k].node
    /\ frames[k].prev = NULL =>
          frames[k].node = IF k = 1 THEN 2 ELSE child[frames[k - 1].node]
    /\ \A i \in First(k)..Last(k) : stack[i] \in Created /\ par[stack[i]] = ParentOf(k)
Placed(par) == \A k \in 1..Depth : PlacedAt(par, k)

\* Where o leads to c no other node of the chain is in between.
LEMMA NothingBetween ==
    ASSUME NEW cr, NEW par, NEW nx, Links(cr, par, nx), \A m \in cr : m \in Nat \ {0},
           NEW o \in cr, NEW c \in cr, nx[o] = c
    PROVE  \A m \in cr : ~(par[m] = par[o] /\ o < m /\ m < c)
<1>1. c # 0 /\ \A m \in cr : par[m] = par[o] /\ m > o => c <= m
  BY DEF Links
<1> QED BY <1>1

\* What a step changes between o and the node that is visited: the nodes of the
\* chain there become children of o, new nodes are made there (or, for a
\* superscript, right after n), and only these and markers get other links.
Moves(par, par2, o) ==
    /\ \A m \in Created :
          /\ m \in Created'
          /\ par2[m] = IF m \in Adopted(Created, par, o, n) THEN o ELSE par[m]
          /\ next'[m] = next[m] \/ next[m] = n \/ m = o \/ src[Tok(m)] \in {"sup", "qx"}
          /\ type'[m] = type[m] \/ m = o \/ src[Tok(m)] \in {"sup", "qx", "word"}
    /\ \A m \in Created' : m \in Created \/ m < n \/ pass > 3
    /\ IF o = n THEN next' = next ELSE next'[o] = n

\* A step turns the tree into one with parents par2, in which what lies in front
\* of o and the node that is visited keep their places.
Rebuilt(par, par2, o) ==
    /\ Moves(par, par2, o)
    /\ Tree(Created', par2, child', next', tail')
    /\ \A m \in Created : m < o \/ m = n =>
          m \in Created' /\ par2[m] = par[m] /\ next'[m] = next[m]
    /\ \A m \in Created : m < o => child'[m] = child[m]

\* Where the node that is visited and the opener it closes stand in the tree
LEMMA ClosedPlace ==
    ASSUME IInv, \A m \in Nodes : Fits(m), NEW par, Shaped(par), Placed(par),
           frames # <<>>, n # NULL, Closes
    PROVE  /\ opener \in Created /\ n \in Created /\ opener < n /\ par[opener] = par[n]
           /\ child[opener] = NULL
           /\ Top.prev \in Created /\ par[Top.prev] = par[n] /\ next[Top.prev] = n
           /\ next[opener] \in Created /\ opener < next[opener] /\ next[opener] <= n
           /\ next[opener] = n => Top.prev = opener
<1>1. /\ Depth \in Nat \ {0} /\ Depth \in 1..Depth /\ frames[Depth] = Top /\ frames[Depth].node = n
      /\ n \in Ref /\ Len(stack) \in Nat /\ Top.start \in 0..Len(stack) /\ Top \in Frame
  BY VisitFacts DEF Top, n
<1>2. /\ opener \in Nodes /\ opener < n /\ n \in Nodes
  BY OpenerFacts
<1>3. Left + 1 \in First(Depth)..Last(Depth) /\ opener = stack[Left + 1]
  BY <1>1, PopFacts DEF First, Last
<1>4. PlacedAt(par, Depth)
  BY <1>1 DEF Placed
<1>5. opener \in Created /\ n \in Created /\ par[opener] = ParentOf(Depth) /\ par[n] = ParentOf(Depth)
  BY <1>1, <1>3, <1>4 DEF PlacedAt
<1>6. /\ \A i \in Created : i \in Nat /\ i # 0 /\ i # 1
      /\ \A m \in Created : child[m] # 0 => \A k \in Created : par[k] = m => child[m] <= k
      /\ Links(Created, par, next)
      /\ \A m \in Created : par[m] # 0 => par[m] \in Created
  BY DEF Shaped, Tree, Preorder, Heads
<1>7. child[opener] = NULL
  <2>1. type[opener] \notin PairTypes
    BY OpenerIsMate
  <2> QED BY <1>2, <2>1 DEF Fits
<1>8. Top.prev # NULL
  <2>1. SUFFICES ASSUME Top.prev = NULL PROVE FALSE
    OBVIOUS
  <2>2. n = IF Depth = 1 THEN 2 ELSE child[frames[Depth - 1].node]
    BY <1>1, <1>4, <2>1 DEF PlacedAt
  <2>3. opener \in Nat /\ n \in Nat /\ opener > 1 /\ opener < n /\ n # 0
    BY <1>2, <1>5, <1>6
  <2>4. CASE Depth = 1
    BY <2>2, <2>3, <2>4
  <2>5. CASE Depth # 1
    <3>1. n = child[ParentOf(Depth)]
      BY <2>2, <2>5 DEF ParentOf
    <3>2. ParentOf(Depth) # 0
      <4>1. Depth - 1 \in 1..Depth /\ Depth - 1 < Depth
        BY <1>1, <2>5
      <4> QED BY <2>5, <4>1 DEF ParentOf, IInv, ActivationsNest, NULL
    <3>3. ParentOf(Depth) \in Created
      BY <1>5, <1>6, <3>2
    <3>4. n <= opener
      BY <1>5, <1>6, <2>3, <3>1, <3>3
    <3> QED BY <2>3, <3>4
  <2> QED BY <2>4, <2>5
<1>9. Top.prev \in Created /\ par[Top.prev] = ParentOf(Depth) /\ next[Top.prev] = n
  BY <1>1, <1>4, <1>8 DEF PlacedAt
<1>10. next[opener] # 0
  <2>1. next[opener] = 0 => n <= opener
    BY <1>5, <1>6 DEF Links
  <2> QED BY <1>2, <1>5, <1>6, <2>1
<1>11. next[opener] \in Created /\ next[opener] > opener /\ next[opener] <= n
  BY <1>2, <1>5, <1>6, <1>10 DEF Links
<1>12. next[opener] = n => Top.prev = opener
  <2>1. ASSUME next[opener] = n PROVE Top.prev = opener
    <3>1. Created \subseteq Nat /\ Links(Created, par, next)
      BY <1>6
    <3>2. /\ par[Top.prev] = par[opener] /\ next[Top.prev] = next[opener] /\ next[Top.prev] # 0
          /\ Top.prev \in Created /\ opener \in Created
      BY <1>5, <1>9, <1>10, <2>1
    <3> HIDE DEF Created
    <3> QED BY <3>1, <3>2, PrevIsUnique
  <2> QED BY <2>1
<1> QED BY <1>2, <1>5, <1>7, <1>9, <1>11, <1>12

\* A bracket with a marker is followed by the token that is the marker, which
\* is not the closing bracket and has no children.
LEMMA MarkerPlace ==
    ASSUME IInv, \A m \in Nodes : Fits(m), NEW par, Shaped(par), Placed(par),
           frames # <<>>, n # NULL, Closes, Demands("subtypes"),
           Subtype(opener) \in {"p_footnote", "p_glossary"}
    PROVE  /\ src[Tok(next[opener])] \in {"sup", "qx"}
           /\ child[next[opener]] = NULL /\ next[opener] # n
<1> DEFINE o == opener
           c == next[opener]
<1>1. type[n] = "brr" /\ rule.mate = "brl" /\ pass = 3
  <2>1. CASE Pairings = pairings1
    BY <2>1 DEF Demands, rule, RuleOf, Pairings, pairings1, NoRule, Rule
  <2>2. CASE pass = 3
    BY <2>2 DEF Demands, rule, RuleOf, Pairings, pairings3, NoRule, Rule
  <2>3. CASE Pairings = pairings4
    BY <2>3 DEF Demands, rule, RuleOf, Pairings, pairings4, NoRule, Rule, flanking
  <2> QED BY <2>1, <2>2, <2>3 DEF Pairings
<1>2. type[o] = "brl"
  BY <1>1, OpenerIsMate
<1>3. /\ o \in Created /\ n \in Created /\ child[o] = NULL /\ c \in Created /\ o < c
  BY ClosedPlace
<1>4. Created \subseteq Nodes /\ NTok \in Nat \ {0} /\ Nodes = 2..(2 * NTok + 1)
  BY NodesAreNumbers DEF Created, IInv, Nodes
<1>5. src[Tok(o)] = "brl" /\ src[Tok(n)] = "brr"
  BY <1>1, <1>2, <1>3, <1>4 DEF Fits
<1>6. o % 2 = 0 /\ o \in Nat /\ c \in Nat
  <2>1. type[o] # "free"
    BY <1>3 DEF Created
  <2>4. o \in Nodes /\ c \in Nodes
    BY <1>3, <1>4
  <2>2. Fits(o) /\ o \in Nat /\ c \in Nat
    BY <1>4, <2>4
  <2>3. Scans(o)
    BY <1>5, <2>1, <2>2 DEF Fits
  <2> QED BY <2>2, <2>3 DEF Scans
<1>7. Tok(o) # NTok /\ src[Tok(o) + 1] \in {"sup", "qx"}
  BY DEF Subtype
<1> DEFINE d == o + 2
<1>8. Tok(d) = Tok(o) + 1 /\ d % 2 = 0 /\ d \in Nodes /\ Tok(o + 1) = Tok(o) /\ (o + 1) % 2 = 1
  <2>1. Tok(o) \in Nat /\ 2 * Tok(o) = o
    BY <1>6 DEF Tok
  <2>2. Tok(o) < NTok
    BY <1>3, <1>4, <1>7, <2>1
  <2>3. d \in Nodes
    BY <1>3, <1>4, <2>1, <2>2
  <2> QED BY <1>6, <2>3 DEF Tok
<1>9. d \in Created
  <2>1. Scans(d)
    BY <1>7, <1>8 DEF Scans, Indentation
  <2> QED BY <1>8, <2>1 DEF Fits, Created
<1>10. o + 1 \notin Created
  <2>1. ASSUME o + 1 \in Created PROVE FALSE
    <3>1. o + 1 \in Nodes /\ type[o + 1] # "free"
      BY <2>1 DEF Created
    <3>2. ~Scans(o + 1)
      BY <1>8 DEF Scans
    <3> QED BY <1>5, <1>8, <3>1, <3>2 DEF Fits
  <2> QED BY <2>1
<1>11. c <= d
  <2>1. next[o] # 0 /\ child[o] = 0 /\ o < d
    BY <1>3, <1>4, <1>6 DEF NULL
  <2> HIDE DEF d
  <2> QED BY <1>3, <1>9, <2>1, NextIsSuccessor DEF Shaped
<1>12. c = d
  <2>1. c # o + 1
    BY <1>3, <1>10
  <2> HIDE DEF c, o
  <2> QED BY <1>3, <1>6, <1>11, <2>1
<1>13. src[Tok(c)] \in {"sup", "qx"}
  BY <1>7, <1>8, <1>12
<1>14. type[c] \notin PairTypes
  <2>1. type[c] \in {"free", "sup", "qx", "marker", "text"}
    <3>1. c \in Nodes
      BY <1>3, <1>4
    <3> QED BY <1>1, <1>13, <3>1 DEF Fits
  <2> QED BY <2>1 DEF PairTypes
<1>15. child[c] = NULL
  BY <1>3, <1>4, <1>14 DEF Fits
<1>16. c # n
  BY <1>5, <1>13
<1> QED BY <1>13, <1>15, <1>16

\* The tokens between the opener and the token that closes it become a tree of
\* their own, of which only the marker is cut.
LEMMA JoinShapes ==
    ASSUME IInv, \A m \in Nodes : Fits(m), NEW par \in [Nodes -> Ref], Shaped(par), Placed(par),
           frames # <<>>, n # NULL, Closes, Join(opener), src' = src, pass' = pass
    PROVE  /\ \E par2 \in [Nodes -> Ref] : Rebuilt(par, par2, opener)
           /\ \A m \in Nodes : Fits(m)'
<1> DEFINE o == opener
           c == next[o]
           hasChild == c # n
           pair == IF Demands("subtypes") THEN Subtype(o) ELSE rule.pair
           marked == pair \in {"p_footnote", "p_glossary"}
           split == marked /\ len[c] > 1
           tail1 == IF hasChild THEN [tail EXCEPT ![c] = Top.prev] ELSE tail
           next1 == IF split THEN [next EXCEPT ![c] = c + 1, ![c + 1] = next[c]] ELSE next
           prev == IF marked /\ Top.prev = c /\ next1[c] # n THEN next1[c] ELSE Top.prev
           next2 == [next1 EXCEPT ![o] = n]
<1>1. /\ split => Fresh(c)
      /\ child' = IF hasChild THEN [child EXCEPT ![o] = c] ELSE child
      /\ tail' = IF split /\ tail1[c] = c THEN [tail1 EXCEPT ![c] = c + 1] ELSE tail1
      /\ next' = IF prev # o THEN [next2 EXCEPT ![prev] = NULL] ELSE next2
      /\ type' = [m \in Nodes |-> CASE m = o -> pair
                                    [] marked /\ m = c -> "marker"
                                    [] split /\ m = c + 1 -> type[c]
                                    [] OTHER -> type[m]]
  BY DEF Join
<1>2. /\ o \in Created /\ n \in Created /\ o < n /\ par[o] = par[n]
      /\ child[o] = NULL
      /\ Top.prev \in Created /\ par[Top.prev] = par[n] /\ next[Top.prev] = n
      /\ c \in Created /\ o < c /\ c <= n
      /\ c = n => Top.prev = o
  BY ClosedPlace
<1>3. /\ Created \subseteq Nodes /\ Nodes \subseteq Nat \ {0, 1} /\ NULL = 0
      /\ \A m \in Nodes : m % 2 = 0 => m + 1 \in Nodes
      /\ \A m \in Nodes : m \in Nat
      /\ DOMAIN child = Nodes /\ DOMAIN next = Nodes /\ DOMAIN tail = Nodes /\ DOMAIN par = Nodes
  BY NodesAreNumbers DEF Created, IInv, TypeOK, NULL
<1>4. o \in Nat /\ n \in Nat /\ c \in Nat /\ Top.prev \in Nat /\ n # o /\ c # o /\ c # 0 /\ n # 0
  <2>1. \A m \in Created : m \in Nat /\ m # 0
    BY <1>3
  <2> HIDE DEF o, c
  <2> QED BY <1>2, <2>1
<1>5. pair \in PairTypes /\ (~Demands("subtypes") => pair = rule.pair) /\ pair # "free"
  BY OpenerFacts DEF Subtype, PairTypes
<1>6. marked => /\ src[Tok(c)] \in {"sup", "qx"} /\ child[c] = NULL /\ c # n
  <2>1. \A t : RuleOf(t).pair \notin {"p_footnote", "p_glossary"}
    BY DEF RuleOf, Pairings, pairings1, pairings3, pairings4, NoRule, Rule
  <2>2. marked => Demands("subtypes") /\ Subtype(opener) \in {"p_footnote", "p_glossary"}
    BY <2>1, <1>5 DEF rule
  <2> QED BY <2>2, MarkerPlace
<1>7. Nodes' = Nodes /\ NULL' = NULL
  BY DEF Nodes, NTok, NULL
<1>8. Tree(Created, par, child, next, tail)
  BY DEF Shaped
<1>9. split => /\ c % 2 = 0 /\ c + 1 \in Nodes /\ type[c + 1] = "free" /\ c + 1 \notin Created
               /\ c + 1 # o /\ c + 1 # n /\ c + 1 # Top.prev /\ c + 1 # c
               /\ child[c + 1] = NULL /\ marked
  <2>1. SUFFICES ASSUME split PROVE /\ c % 2 = 0 /\ c + 1 \in Nodes /\ type[c + 1] = "free" /\ c + 1 \notin Created
               /\ c + 1 # o /\ c + 1 # n /\ c + 1 # Top.prev /\ c + 1 # c
               /\ child[c + 1] = NULL /\ marked
    OBVIOUS
  <2>2. c % 2 = 0 /\ type[c + 1] = "free"
    BY <1>1, <2>1 DEF Fresh
  <2>3. c + 1 \in Nodes /\ c + 1 \notin Created
    BY <1>2, <1>3, <2>2 DEF Created
  <2>4. Fits(c + 1)
    BY <2>3
  <2>5. child[c + 1] = NULL
    BY <2>2, <2>4 DEF Fits, PairTypes
  <2>6. c + 1 # c
    BY <1>4
  <2> QED BY <1>2, <2>1, <2>2, <2>3, <2>5, <2>6
<1> HIDE DEF o, c, pair, marked, split
<1>12. \A m \in Nodes : type'[m] = IF m = o THEN pair ELSE IF marked /\ m = c THEN "marker"
                                    ELSE IF split /\ m = c + 1 THEN type[c] ELSE type[m]
  <2> TAKE m \in Nodes
  <2>1. type'[m] = CASE m = o -> pair
                     [] marked /\ m = c -> "marker"
                     [] split /\ m = c + 1 -> type[c]
                     [] OTHER -> type[m]
    BY <1>1
  <2>2. (m = o => m # c) /\ (split => c + 1 # o /\ c + 1 # c)
    BY <1>4, <1>9
  <2> QED BY <2>1, <2>2
<1>10. Created' = IF split THEN Created \cup {c + 1} ELSE Created
  <2>2. type[c] # "free" /\ type[o] # "free"
    BY <1>2 DEF Created
  <2>3. \A m \in Nodes : type'[m] # "free" <=> type[m] # "free" \/ (split /\ m = c + 1)
    BY <1>5, <1>9, <1>12, <2>2
  <2>4. split => c + 1 \in Nodes
    BY <1>9
  <2> QED BY <1>7, <2>3, <2>4 DEF Created
<1> DEFINE S == Adopted(Created, par, o, n)
           par2 == [m \in Nodes |-> IF split /\ m = c + 1 THEN o
                                    ELSE IF hasChild /\ m \in S THEN o ELSE par[m]]
<1>11. ASSUME ~hasChild
       PROVE  /\ \E p \in [Nodes -> Ref] : Rebuilt(par, p, opener)
              /\ \A m \in Nodes \ Created' : tail'[m] = tail[m] /\ next'[m] = next[m]
  <2>1. c = n /\ Top.prev = o /\ ~marked /\ ~split
    BY <1>2, <1>6, <1>9, <1>11
  <2>2. next1 = next /\ prev = o
    BY <2>1
  <2>3. next' = [next EXCEPT ![o] = n] /\ child' = child /\ tail' = tail
    BY <1>1, <1>11, <2>1, <2>2
  <2>4. next' = next
    <3>1. next[o] = n
      BY <2>1 DEF c
    <3> QED BY <1>3, <2>3, <3>1
  <2>5. Created' = Created
    BY <1>10, <2>1
  <2>6. Rebuilt(par, par, opener)
    <3>1. Tree(Created', par, child', next', tail')
      BY <1>8, <2>3, <2>4, <2>5
    <3>2. Moves(par, par, opener)
      <4>1. next'[o] = n
        BY <2>1, <2>4 DEF c
      <4>2. \A m \in Created : par[m] = IF m \in Adopted(Created, par, o, n) THEN o ELSE par[m]
        <5>1. Links(Created, par, next) /\ next[o] = n /\ \A m \in Created : m \in Nat \ {0}
          BY <1>3, <1>8, <2>1 DEF Tree, c
        <5>2. \A m \in Created : ~(par[m] = par[o] /\ o < m /\ m < n)
          BY <1>2, <5>1, NothingBetween
        <5> QED BY <5>2 DEF Adopted
      <4>3. \A m \in Created : m = o \/ type'[m] = type[m]
        BY <1>3, <1>12, <2>1
      <4> QED BY <2>4, <2>5, <4>1, <4>2, <4>3 DEF Moves, o
    <3> QED BY <2>3, <2>4, <2>5, <3>1, <3>2 DEF Rebuilt
  <2> QED BY <2>3, <2>4, <2>6
<1>13. ASSUME hasChild
       PROVE  /\ \E p \in [Nodes -> Ref] : Rebuilt(par, p, opener)
              /\ \A m \in Nodes \ Created' : tail'[m] = tail[m] /\ next'[m] = next[m]
  <2>1. \A m \in Nodes : tail1[m] = IF m = c THEN Top.prev ELSE tail[m]
    BY <1>3, <1>13
  <2> DEFINE nxA == [m \in Nodes |-> IF m = Top.prev THEN 0 ELSE IF m = o THEN n ELSE next[m]]
             parA == [m \in Nodes |-> IF m \in S THEN o ELSE par[m]]
  <2>2. \A m \in Created : nxA[m] = IF m = Top.prev THEN 0 ELSE IF m = o THEN n ELSE next[m]
    BY <1>3
  <2>3. \A m \in Created : parA[m] = IF m \in Adopted(Created, par, o, n) THEN o ELSE par[m]
    BY <1>3
  <2>4. \A m \in Created : child'[m] = IF m = o THEN next[o] ELSE child[m]
    BY <1>1, <1>3, <1>13 DEF c
  <2>5. \A m \in Created : tail1[m] = IF m = next[o] THEN Top.prev ELSE tail[m]
    BY <1>3, <2>1 DEF c
  <2>6. /\ Tree(Created, parA, child', nxA, tail1)
        /\ o < Top.prev /\ Top.prev < n /\ c \in Adopted(Created, par, o, n)
    <3> HIDE DEF nxA, parA, tail1
    <3>1. Adopts(Created, par, child, next, tail, o, n, Top.prev, parA, child', nxA, tail1)
      BY <1>2, <1>3, <1>8, <1>13, <2>2, <2>3, <2>4, <2>5 DEF Adopts, c
    <3>2. /\ Tree(Created, parA, child', nxA, tail1)
          /\ o < Top.prev /\ Top.prev < n /\ next[o] \in Adopted(Created, par, o, n)
      BY <3>1, AdoptKeeps
    <3> QED BY <3>2 DEF c
  <2>7. Top.prev # o /\ Top.prev # n /\ Top.prev # 0
    BY <1>4, <2>6
  <2>8. CASE ~split
    <3>1. next1 = next /\ prev = Top.prev
      <4>1. Top.prev = c => next[c] = n
        BY <1>2
      <4> QED BY <2>8, <4>1
    <3>2. next' = [[next EXCEPT ![o] = n] EXCEPT ![Top.prev] = NULL] /\ tail' = tail1
      BY <1>1, <2>7, <2>8, <3>1
    <3>3. next' = nxA
      <4>1. next = [m \in Nodes |-> next[m]]
        BY DEF IInv, TypeOK
      <4> QED BY <1>2, <1>3, <2>7, <3>2, <4>1
    <3>4. parA \in [Nodes -> Ref]
      BY <1>2, <1>3 DEF Ref
    <3>5. Tree(Created', parA, child', next', tail')
      BY <1>10, <2>6, <2>8, <3>2, <3>3
    <3>6. Rebuilt(par, parA, opener)
      <4>1. ASSUME NEW m \in Created, m < o \/ m = n
            PROVE  m \in Created' /\ parA[m] = par[m] /\ next'[m] = next[m]
        <5>1. m \in Nat /\ m \in Nodes /\ m \notin S /\ m # o /\ m # Top.prev
          BY <1>3, <1>4, <2>6, <2>7, <4>1 DEF Adopted
        <5> QED BY <1>10, <2>8, <3>3, <5>1
      <4>2. ASSUME NEW m \in Created, m < o PROVE child'[m] = child[m]
        BY <1>3, <1>4, <2>4, <4>2
      <4>3. Moves(par, parA, opener)
        <5>1. \A m \in Created : next'[m] = next[m] \/ next[m] = n \/ m = o
          BY <1>2, <1>3, <2>2, <3>3
        <5>2. \A m \in Created : m = o \/ type'[m] = type[m] \/ src[Tok(m)] \in {"sup", "qx", "word"}
          BY <1>3, <1>6, <1>12, <2>8
        <5>3. next'[o] = n
          BY <1>2, <2>2, <2>7, <3>3
        <5>4. Created' = Created
          BY <1>10, <2>8
        <5> HIDE DEF parA
        <5> QED BY <1>4, <2>3, <5>1, <5>2, <5>3, <5>4 DEF Moves, o
      <4> HIDE DEF parA
      <4> QED BY <3>5, <4>1, <4>2, <4>3 DEF Rebuilt, o
    <3>7. \A m \in Nodes \ Created' : tail'[m] = tail[m] /\ next'[m] = next[m]
      BY <1>2, <1>10, <2>1, <2>8, <3>2, <3>3
    <3> QED BY <3>4, <3>6, <3>7
  <2>9. CASE split
    <3> DEFINE nxB == [m \in Nodes |-> IF m = c THEN c + 1 ELSE IF m = c + 1 THEN nxA[c] ELSE nxA[m]]
               parB == [m \in Nodes |-> IF m = c + 1 THEN o ELSE parA[m]]
    <3>1. /\ marked /\ c + 1 # o /\ c + 1 # n /\ c + 1 # c /\ c + 1 # Top.prev
          /\ c \in Nodes /\ Top.prev \in Nodes /\ o \in Nodes /\ c + 1 \in Nodes
      BY <1>2, <1>3, <1>9, <2>9
    <3>2. \A m \in Nodes : next1[m] = IF m = c THEN c + 1 ELSE IF m = c + 1 THEN next[c] ELSE next[m]
      BY <1>3, <2>9, <3>1
    <3>3. \A m \in Nodes : next2[m] = IF m = o THEN n ELSE next1[m]
      BY <1>3, <2>9
    <3>4. DOMAIN next2 = Nodes
      BY <1>3
    <3> HIDE DEF next1, next2
    <3>5. prev = IF Top.prev = c THEN c + 1 ELSE Top.prev
      BY <3>1, <3>2
    <3>6. prev # o /\ prev \in Nodes
      BY <2>7, <3>1, <3>5
    <3>7. next' = [next2 EXCEPT ![prev] = NULL]
      BY <1>1, <3>6
    <3> HIDE DEF prev
    <3>8. \A m \in Nodes : next'[m] = IF m = prev THEN NULL ELSE next2[m]
      BY <3>4, <3>6, <3>7
    <3>9. \A m \in Nodes : next'[m] = nxB[m]
      <4>1. CASE Top.prev = c
        <5>1. next[c] = n /\ nxA[c] = 0 /\ prev = c + 1
          BY <1>2, <3>1, <3>5, <4>1
        <5> QED BY <1>3, <1>4, <3>1, <3>2, <3>3, <3>8, <4>1, <5>1
      <4>2. CASE Top.prev # c
        <5>1. prev = Top.prev /\ nxA[c] = next[c]
          BY <1>4, <3>1, <3>5, <4>2
        <5> QED BY <1>3, <1>4, <3>1, <3>2, <3>3, <3>8, <4>2, <5>1
      <4> QED BY <4>1, <4>2
    <3>10. Created' = Created \cup {c + 1} /\ Created' \subseteq Nodes
      BY <1>3, <1>10, <2>9, <3>1
    <3>11. /\ \A m \in Nodes : tail'[m] = IF m = c /\ tail1[c] = c THEN c + 1 ELSE tail1[m]
      <4>1. DOMAIN tail1 = Nodes
        BY <1>3
      <4>2. tail' = IF tail1[c] = c THEN [tail1 EXCEPT ![c] = c + 1] ELSE tail1
        BY <1>1, <2>9
      <4> HIDE DEF tail1
      <4> QED BY <3>1, <4>1, <4>2
    <3>12. Tree(Created', parB, child', next', tail')
      <4>1. child'[o] = c /\ child'[c] = 0 /\ child'[c + 1] = 0
        <5>1. \A m \in Nodes : child'[m] = IF m = o THEN c ELSE child[m]
          BY <1>1, <1>3, <1>13
        <5>2. child[c] = 0 /\ child[c + 1] = 0
          BY <1>3, <1>6, <1>9, <2>9, <3>1
        <5> QED BY <1>4, <3>1, <5>1, <5>2
      <4>2. \A m \in Created' : parB[m] = IF m = c + 1 THEN o ELSE parA[m]
        BY <3>10
      <4>3. \A m \in Created' : next'[m] = IF m = c THEN c + 1 ELSE IF m = c + 1 THEN nxA[c] ELSE nxA[m]
        BY <3>9, <3>10
      <4>4. \A m \in Created' : tail'[m] = IF m = c /\ tail1[c] = c THEN c + 1 ELSE tail1[m]
        BY <3>10, <3>11
      <4> HIDE DEF parB, nxA, parA, tail1
      <4>5. SplitsOff(Created, parA, child', nxA, tail1, o, c, Created', parB, next', tail')
        BY <1>2, <1>9, <2>6, <2>9, <3>10, <4>1, <4>2, <4>3, <4>4 DEF SplitsOff
      <4> QED BY <4>5, SplitKeeps
    <3>13. parB \in [Nodes -> Ref]
      BY <1>2, <1>3 DEF Ref
    <3>14. Rebuilt(par, parB, opener)
      <4>1. ASSUME NEW m \in Created, m < o \/ m = n
            PROVE  m \in Created' /\ parB[m] = par[m] /\ next'[m] = next[m]
        <5>1. m \in Nat /\ m \in Nodes /\ m \notin S /\ m # o /\ m # Top.prev
          BY <1>3, <1>4, <2>6, <2>7, <4>1 DEF Adopted
        <5>2. m # c + 1 /\ m # c
          BY <1>2, <1>4, <1>6, <1>9, <2>9, <3>1, <4>1, <5>1
        <5> QED BY <3>9, <3>10, <5>1, <5>2
      <4>2. ASSUME NEW m \in Created, m < o PROVE child'[m] = child[m]
        BY <1>3, <1>4, <2>4, <4>2
      <4>3. Moves(par, parB, opener)
        <5>1. \A m \in Created : m # c + 1 /\ m \in Nodes
          BY <1>3, <1>9, <2>9
        <5>2. \A m \in Created : next'[m] = next[m] \/ next[m] = n \/ m = o \/ m = c
          BY <1>2, <3>9, <5>1
        <5>3. \A m \in Created : m = o \/ type'[m] = type[m] \/ m = c
          BY <1>12, <5>1
        <5>4. next'[o] = n
          BY <1>2, <1>4, <2>7, <3>1, <3>9
        <5>5. \A m \in Created : parB[m] = IF m \in Adopted(Created, par, o, n) THEN o ELSE par[m]
          BY <2>3, <5>1
        <5>6. c + 1 < n
          BY <1>2, <1>4, <1>6, <3>1
        <5>7. \A m \in Created' : m \in Created \/ m < n
          BY <3>10, <5>6
        <5>8. src[Tok(c)] \in {"sup", "qx"}
          BY <1>6, <3>1
        <5> HIDE DEF parB
        <5> QED BY <1>4, <3>10, <5>2, <5>3, <5>4, <5>5, <5>7, <5>8 DEF Moves, o
      <4> HIDE DEF parB
      <4> QED BY <3>12, <4>1, <4>2, <4>3 DEF Rebuilt, o
    <3>15. \A m \in Nodes \ Created' : tail'[m] = tail[m] /\ next'[m] = next[m]
      <4> TAKE m \in Nodes \ Created'
      <4>1. m # c /\ m # c + 1 /\ m # o /\ m # Top.prev
        BY <1>2, <3>10
      <4>2. m \in Nodes
        OBVIOUS
      <4>3. tail'[m] = tail[m]
        BY <2>1, <3>11, <4>1, <4>2
      <4>4. nxA[m] = next[m] /\ nxB[m] = nxA[m]
        BY <4>1, <4>2
      <4> HIDE DEF nxA, nxB
      <4> QED BY <3>9, <4>2, <4>3, <4>4
    <3> QED BY <3>13, <3>14, <3>15
  <2> QED BY <2>8, <2>9
<1>14. /\ \E p \in [Nodes -> Ref] : Rebuilt(par, p, opener)
       /\ \A m \in Nodes \ Created' : tail'[m] = tail[m] /\ next'[m] = next[m]
  BY <1>11, <1>13
<1>15. ASSUME NEW m \in Nodes PROVE Fits(m)'
  <2>1. Fits(m) /\ m \in Nat
    BY <1>3
  <2>2. Tok(m)' = Tok(m) /\ src' = src /\ pass' = pass /\ Scans(m)' = Scans(m)
    BY DEF Tok, Scans, Indentation
  <2>3. type'[m] = "free" => tail'[m] = m /\ next'[m] = NULL
    <3>1. type'[m] = "free" => m \in Nodes \ Created'
      BY <1>7 DEF Created
    <3>2. type'[m] = "free" => type[m] = "free"
      <4>1. type'[m] = "free" => m \notin Created
        BY <1>10, <3>1
      <4> QED BY <4>1 DEF Created
    <3> QED BY <1>14, <2>1, <3>1, <3>2 DEF Fits
  <2>4. m # o => child'[m] = child[m]
    BY <1>1, <1>3
  <2>5. CASE m = o
    <3>1. type'[o] = pair
      BY <1>12, <2>5
    <3>2. type[o] = rule.mate /\ rule.mate # "none" /\ rule.mate \in OpenTypes
      BY OpenerIsMate, RuleFacts DEF o, Closes, Attempts, Handled, rule
    <3>3. rule.mate = "sup" => pair = "p_sup"
      <4>1. rule.mate = "sup" => rule.pair = "p_sup" /\ ~Demands("subtypes")
        BY DEF rule, Demands, RuleOf, Pairings, pairings1, pairings3, pairings4, NoRule, Rule, flanking
      <4> QED BY <1>5, <4>1
    <3>4. pass < 4 => pair # "p_sup"
      <4>1. Demands("subtypes") => pair # "p_sup"
        BY DEF pair, Subtype
      <4>2. pass \in {1, 3, 4, 5}
        BY DEF IInv, TypeOK
      <4>3. pass < 4 => rule.pair # "p_sup"
        BY <4>2 DEF rule, RuleOf, Pairings, pairings1, pairings3, NoRule, Rule
      <4> QED BY <1>5, <4>1, <4>3
    <3>5. src[Tok(m)] \notin {"qx", "word"}
      BY <2>1, <2>5, <3>2 DEF Fits, OpenTypes
    <3>6. src[Tok(m)] = "sup" => rule.mate = "sup"
      BY <2>1, <2>5, <3>2 DEF Fits, OpenTypes
    <3>7. pair \notin {"brl", "brr", "sup", "free"}
      BY <1>5 DEF PairTypes
    <3>8. type[m] # "free"
      BY <1>2, <2>5 DEF Created
    <3> QED BY <1>5, <2>1, <2>2, <2>5, <3>1, <3>3, <3>4, <3>5, <3>6, <3>7, <3>8, <1>7 DEF Fits
  <2>6. CASE m # o /\ marked /\ m = c
    <3>1. type'[m] = "marker" /\ child'[m] = NULL /\ type[m] # "free"
      <4>1. c \in Created
        BY <1>2
      <4> QED BY <1>6, <1>12, <2>4, <2>6, <4>1 DEF Created
    <3> QED BY <1>6, <1>7, <2>1, <2>2, <2>6, <3>1 DEF Fits
  <2>7. CASE m # o /\ ~(marked /\ m = c) /\ split /\ m = c + 1
    <3>1. /\ type'[m] = type[c] /\ child'[m] = NULL /\ Fits(c) /\ type[c] # "free"
          /\ src[Tok(c)] \in {"sup", "qx"}
      <4>1. c \in Created
        BY <1>2
      <4> QED BY <1>3, <1>6, <1>9, <1>12, <2>4, <2>7, <4>1 DEF Created
    <3>2. Tok(m) = Tok(c) /\ m % 2 = 1
      BY <1>4, <1>9, <2>7 DEF Tok
    <3>3. ~Scans(m)
      BY <3>2 DEF Scans
    <3> QED BY <1>7, <2>2, <2>3, <3>1, <3>2, <3>3 DEF Fits
  <2>8. CASE m # o /\ ~(marked /\ m = c) /\ ~(split /\ m = c + 1)
    <3>1. type'[m] = type[m] /\ child'[m] = child[m]
      BY <1>12, <2>4, <2>8
    <3> QED BY <1>7, <2>1, <2>2, <2>3, <3>1 DEF Fits
  <2> QED BY <2>5, <2>6, <2>7, <2>8
<1> QED BY <1>14, <1>15

\* The same for a code span, which has no marker
LEMMA CodeSpanShapes ==
    ASSUME IInv, \A m \in Nodes : Fits(m), NEW par \in [Nodes -> Ref], Shaped(par), Placed(par),
           frames # <<>>, n # NULL, type[n] = "backtick", Closes, JoinCodeSpan(opener),
           src' = src, pass' = pass
    PROVE  /\ \E par2 \in [Nodes -> Ref] : Rebuilt(par, par2, opener)
           /\ \A m \in Nodes : Fits(m)'
<1> DEFINE o == opener
           c == next[o]
           hasChild == c # n
<1>1. /\ child' = IF hasChild THEN [child EXCEPT ![o] = c] ELSE child
      /\ tail' = IF hasChild THEN [tail EXCEPT ![c] = Top.prev] ELSE tail
      /\ next' = IF Top.prev # o THEN [next EXCEPT ![o] = n, ![Top.prev] = NULL]
                 ELSE [next EXCEPT ![o] = n]
      /\ type' = [type EXCEPT ![o] = rule.pair]
  BY DEF JoinCodeSpan
<1>2. /\ o \in Created /\ n \in Created /\ o < n /\ par[o] = par[n]
      /\ child[o] = NULL
      /\ Top.prev \in Created /\ par[Top.prev] = par[n] /\ next[Top.prev] = n
      /\ c \in Created /\ o < c /\ c <= n
      /\ c = n => Top.prev = o
  BY ClosedPlace
<1>3. /\ Created \subseteq Nodes /\ Nodes \subseteq Nat \ {0, 1} /\ NULL = 0
      /\ \A m \in Nodes : m \in Nat
      /\ DOMAIN child = Nodes /\ DOMAIN next = Nodes /\ DOMAIN tail = Nodes /\ DOMAIN par = Nodes
      /\ DOMAIN type = Nodes
  BY NodesAreNumbers DEF Created, IInv, TypeOK, NULL
<1>4. o \in Nat /\ n \in Nat /\ c \in Nat /\ Top.prev \in Nat /\ n # o /\ c # o /\ c # 0 /\ n # 0
  <2>1. \A m \in Created : m \in Nat /\ m # 0
    BY <1>3
  <2> HIDE DEF o, c
  <2> QED BY <1>2, <2>1
<1>5. rule.mate = "backtick" /\ rule.pair \in PairTypes \ {"p_sup"} /\ type[o] = "backtick"
  <2>1. type[o] = rule.mate /\ rule.pair \in PairTypes /\ rule.mate # "none"
    BY OpenerIsMate DEF Closes, Attempts, Handled
  <2>2. rule.mate \in {"backtick", "none"} /\ rule.pair \in {"p_backtick", "none"}
    BY DEF rule, RuleOf, Pairings, pairings1, pairings3, pairings4, NoRule, Rule
  <2> QED BY <2>1, <2>2 DEF PairTypes
<1>7. Nodes' = Nodes /\ NULL' = NULL
  BY DEF Nodes, NTok, NULL
<1>8. Tree(Created, par, child, next, tail)
  BY DEF Shaped
<1> HIDE DEF o, c
<1>12. \A m \in Nodes : type'[m] = IF m = o THEN rule.pair ELSE type[m]
  BY <1>1, <1>3
<1>10. Created' = Created
  <2>1. type[o] # "free" /\ rule.pair # "free"
    BY <1>2, <1>5 DEF Created, PairTypes
  <2> QED BY <1>7, <1>12, <2>1 DEF Created
<1> DEFINE S == Adopted(Created, par, o, n)
<1>11. ASSUME ~hasChild
       PROVE  /\ \E p \in [Nodes -> Ref] : Rebuilt(par, p, opener)
              /\ \A m \in Nodes \ Created' : tail'[m] = tail[m] /\ next'[m] = next[m]
  <2>1. c = n /\ Top.prev = o
    BY <1>2, <1>11
  <2>3. next' = [next EXCEPT ![o] = n] /\ child' = child /\ tail' = tail
    BY <1>1, <1>11, <2>1
  <2>4. next' = next
    <3>1. next[o] = n
      BY <2>1 DEF c
    <3> QED BY <1>3, <2>3, <3>1
  <2>6. Rebuilt(par, par, opener)
    <3>1. Tree(Created', par, child', next', tail')
      BY <1>8, <1>10, <2>3, <2>4
    <3>2. Moves(par, par, opener)
      <4>1. next'[o] = n
        BY <2>1, <2>4 DEF c
      <4>2. \A m \in Created : par[m] = IF m \in Adopted(Created, par, o, n) THEN o ELSE par[m]
        BY <1>2, <1>3, <1>8, <2>1, NothingBetween DEF c, Adopted, Tree
      <4>3. \A m \in Created : m = o \/ type'[m] = type[m]
        BY <1>3, <1>12
      <4> QED BY <1>10, <2>4, <4>1, <4>2, <4>3 DEF Moves, o
    <3> QED BY <1>10, <2>3, <2>4, <3>1, <3>2 DEF Rebuilt
  <2> QED BY <2>3, <2>4, <2>6
<1>13. ASSUME hasChild
       PROVE  /\ \E p \in [Nodes -> Ref] : Rebuilt(par, p, opener)
              /\ \A m \in Nodes \ Created' : tail'[m] = tail[m] /\ next'[m] = next[m]
  <2> DEFINE parA == [m \in Nodes |-> IF m \in S THEN o ELSE par[m]]
  <2>0. Top.prev # o
    <3>1. ASSUME Top.prev = o PROVE FALSE
      <4>1. next[o] = n
        BY <1>2, <3>1
      <4> QED BY <1>13, <4>1 DEF c
    <3> QED BY <3>1
  <2>1. next' = [next EXCEPT ![o] = n, ![Top.prev] = NULL]
    BY <1>1, <2>0
  <2>2. \A m \in Nodes : next'[m] = IF m = Top.prev THEN 0 ELSE IF m = o THEN n ELSE next[m]
    BY <1>2, <1>3, <2>0, <2>1
  <2>3. \A m \in Created : parA[m] = IF m \in Adopted(Created, par, o, n) THEN o ELSE par[m]
    BY <1>3
  <2>4. \A m \in Created : child'[m] = IF m = o THEN next[o] ELSE child[m]
    BY <1>1, <1>3, <1>13 DEF c
  <2>5. \A m \in Nodes : tail'[m] = IF m = next[o] THEN Top.prev ELSE tail[m]
    BY <1>1, <1>3, <1>13 DEF c
  <2>6. /\ Tree(Created, parA, child', next', tail')
        /\ o < Top.prev /\ Top.prev < n /\ c \in S
    <3> HIDE DEF parA
    <3>1. Adopts(Created, par, child, next, tail, o, n, Top.prev, parA, child', next', tail')
      BY <1>2, <1>3, <1>8, <1>13, <2>2, <2>3, <2>4, <2>5 DEF Adopts, c
    <3>2. /\ Tree(Created, parA, child', next', tail')
          /\ o < Top.prev /\ Top.prev < n /\ next[o] \in Adopted(Created, par, o, n)
      BY <3>1, AdoptKeeps
    <3> QED BY <3>2 DEF c
  <2>7. Top.prev # n
    BY <1>4, <2>6
  <2>8. parA \in [Nodes -> Ref]
    BY <1>2, <1>3 DEF Ref
  <2>9. Rebuilt(par, parA, opener)
    <3>1. ASSUME NEW m \in Created, m < o \/ m = n
          PROVE  m \in Created' /\ parA[m] = par[m] /\ next'[m] = next[m]
      <4>1. m \in Nat /\ m \in Nodes /\ m \notin S /\ m # o /\ m # Top.prev
        BY <1>3, <1>4, <2>6, <2>7, <3>1 DEF Adopted
      <4> QED BY <1>10, <2>2, <4>1
    <3>2. ASSUME NEW m \in Created, m < o PROVE child'[m] = child[m]
      BY <1>3, <1>4, <2>4, <3>2
    <3>3. Tree(Created', parA, child', next', tail')
      BY <1>10, <2>6
    <3>4. Moves(par, parA, opener)
      <4>1. \A m \in Created : next'[m] = next[m] \/ next[m] = n \/ m = o
        BY <1>2, <1>3, <2>2
      <4>2. \A m \in Created : m = o \/ type'[m] = type[m]
        BY <1>3, <1>12
      <4>3. next'[o] = n
        BY <1>2, <1>3, <2>0, <2>2
      <4> HIDE DEF parA
      <4> QED BY <1>4, <1>10, <2>3, <4>1, <4>2, <4>3 DEF Moves, o
    <3> HIDE DEF parA
    <3> QED BY <3>1, <3>2, <3>3, <3>4 DEF Rebuilt, o
  <2>10. \A m \in Nodes \ Created' : tail'[m] = tail[m] /\ next'[m] = next[m]
    <3> TAKE m \in Nodes \ Created'
    <3>1. m # c /\ m # o /\ m # Top.prev
      BY <1>2, <1>10
    <3> QED BY <2>2, <2>5, <3>1 DEF c
  <2> QED BY <2>8, <2>9, <2>10
<1>14. /\ \E p \in [Nodes -> Ref] : Rebuilt(par, p, opener)
       /\ \A m \in Nodes \ Created' : tail'[m] = tail[m] /\ next'[m] = next[m]
  BY <1>11, <1>13
<1>15. ASSUME NEW m \in Nodes PROVE Fits(m)'
  <2>1. Fits(m) /\ m \in Nat
    BY <1>3
  <2>2. Tok(m)' = Tok(m) /\ src' = src /\ pass' = pass /\ Scans(m)' = Scans(m)
    BY DEF Tok, Scans, Indentation
  <2>3. type'[m] = "free" => tail'[m] = m /\ next'[m] = NULL
    <3>1. type'[m] = "free" => m \in Nodes \ Created'
      BY <1>7 DEF Created
    <3>2. type'[m] = "free" => type[m] = "free"
      <4>1. type'[m] = "free" => m \notin Created
        BY <1>10, <3>1
      <4> QED BY <4>1 DEF Created
    <3> QED BY <1>14, <2>1, <3>1, <3>2 DEF Fits
  <2>4. m # o => child'[m] = child[m]
    BY <1>1, <1>3
  <2>5. CASE m = o
    <3>1. type'[m] = rule.pair
      BY <1>12, <2>5
    <3>5. src[Tok(m)] \notin {"qx", "word", "sup"}
      BY <1>5, <2>1, <2>5 DEF Fits
    <3>7. rule.pair \notin {"brl", "brr", "sup", "free", "p_sup"}
      BY <1>5 DEF PairTypes
    <3>8. type[m] # "free"
      BY <1>5, <2>5
    <3> QED BY <1>5, <2>1, <2>2, <2>5, <3>1, <3>5, <3>7, <3>8, <1>7 DEF Fits
  <2>6. CASE m # o
    <3>1. type'[m] = type[m] /\ child'[m] = child[m]
      BY <1>12, <2>4, <2>6
    <3> QED BY <1>7, <2>1, <2>2, <2>3, <3>1 DEF Fits
  <2> QED BY <2>5, <2>6
<1> QED BY <1>14, <1>15

\* A superscript that stands alone gets a leaf: the node right behind it. The
\* word that it empties is the next token of the text.
LEMMA StandaloneShapes ==
    ASSUME IInv, \A m \in Nodes : Fits(m), NEW par \in [Nodes -> Ref], Shaped(par), Placed(par),
           frames # <<>>, n # NULL, type[n] = "sup", Handled, ClassAfter(Tok(n)) = "alnum",
           next[n] # NULL, Standalone, src' = src, pass' = pass
    PROVE  /\ \E par2 \in [Nodes -> Ref] : Rebuilt(par, par2, n)
           /\ \A m \in Nodes : Fits(m)'
<1> DEFINE word == next[n]
           p == n
           d == n + 1
<1>1. /\ Fresh(p)
      /\ child' = [child EXCEPT ![p] = p + 1]
      /\ type' = [type EXCEPT ![p] = "p_sup", ![p + 1] = "text", ![word] = "text"]
      /\ next' = next /\ tail' = tail
  BY DEF Standalone
<1>3. /\ Created \subseteq Nodes /\ Nodes \subseteq Nat \ {0, 1} /\ NULL = 0
      /\ \A m \in Nodes : m \in Nat
      /\ \A m \in Nodes : m % 2 = 0 => m + 1 \in Nodes
      /\ DOMAIN child = Nodes /\ DOMAIN next = Nodes /\ DOMAIN tail = Nodes /\ DOMAIN par = Nodes
      /\ DOMAIN type = Nodes /\ NTok \in Nat \ {0} /\ Nodes = 2..(2 * NTok + 1)
  BY NodesAreNumbers DEF Created, IInv, TypeOK, NULL, Nodes
<1>7. Nodes' = Nodes /\ NULL' = NULL
  BY DEF Nodes, NTok, NULL
<1>8. Tree(Created, par, child, next, tail)
  BY DEF Shaped
<1>2. p \in Created /\ p \in Nodes /\ p \in Nat /\ p % 2 = 0 /\ d \in Nodes /\ d = p + 1
      /\ type[d] = "free" /\ child[p] = NULL /\ Tok(d) = Tok(p) /\ d # p /\ d % 2 = 1
  <2>1. p \in Nodes
    BY VisitFacts DEF Ref
  <2>2. child[p] = NULL
    BY <2>1 DEF Fits, PairTypes
  <2>3. p % 2 = 0 /\ p \in Nat /\ p + 1 \in Nodes /\ type[p + 1] = "free"
    BY <1>1, <1>3, <2>1 DEF Fresh
  <2>4. Tok(p + 1) = Tok(p) /\ (p + 1) % 2 = 1 /\ p + 1 # p
    BY <2>3 DEF Tok
  <2> QED BY <2>1, <2>2, <2>3, <2>4 DEF Created
<1>4. pass = 4 \/ pass = 5
  <2>1. pass \in {1, 3, 4, 5}
    BY DEF IInv, TypeOK
  <2>2. pass # 1 /\ pass # 3
    BY DEF Handled, rule, RuleOf, Pairings, pairings1, pairings3, NoRule, Rule
  <2> QED BY <2>1, <2>2
<1>5. src[Tok(p)] = "sup" /\ Tok(p) \in Nat
  BY <1>2, <1>3 DEF Fits, Tok
<1> DEFINE e == p + 2
<1>6. e \in Created /\ src[Tok(e)] = "word" /\ Tok(e) = Tok(p) + 1
  <2>1. Tok(p) # NTok /\ FirstClass(src[Tok(p) + 1]) = "alnum"
    BY DEF ClassAfter
  <2>2. src[Tok(p) + 1] = "word"
    BY <2>1 DEF FirstClass, Blank
  <2>3. Tok(e) = Tok(p) + 1 /\ e % 2 = 0 /\ 2 * Tok(p) = p
    BY <1>2 DEF Tok
  <2>4. e \in Nodes
    <3>1. Tok(p) < NTok
      BY <1>2, <1>3, <1>5, <2>1, <2>3
    <3> QED BY <1>2, <1>3, <1>5, <2>3, <3>1
  <2>5. Scans(e)
    BY <2>2, <2>3 DEF Scans, Indentation
  <2>6. type[e] # "free"
    BY <2>4, <2>5 DEF Fits
  <2> QED BY <2>2, <2>3, <2>4, <2>6 DEF Created
<1>9. word = e
  <2>0. word \in Created /\ word > p
    BY <1>2, <1>3, <1>8 DEF Tree, Links
  <2>1. word <= e
    <3>1. p < e
      BY <1>2
    <3> HIDE DEF e, p
    <3> QED BY <1>2, <1>3, <1>6, <1>8, <3>1, NextIsSuccessor DEF p
  <2>2. word # d
    BY <1>2, <2>0 DEF Created
  <2>3. word \in Nat
    BY <1>3, <2>0
  <2> HIDE DEF word
  <2> QED BY <1>2, <2>0, <2>1, <2>2, <2>3
<1>10. child[e] = NULL /\ type[e] \in {"word", "text"} /\ e # p /\ e # d /\ e \in Nodes
  <2>1. e \in Nodes /\ type[e] # "free" /\ Fits(e)
    BY <1>3, <1>6 DEF Created
  <2>2. type[e] \in {"word", "text"}
    BY <1>6, <2>1 DEF Fits
  <2>3. child[e] = NULL
    BY <2>1, <2>2 DEF Fits, PairTypes
  <2> QED BY <1>2, <2>1, <2>2, <2>3
<1> HIDE DEF p, d, e, word
<1>11. \A m \in Nodes : type'[m] = IF m = p THEN "p_sup" ELSE IF m \in {d, e} THEN "text" ELSE type[m]
  <2>1. type' = [type EXCEPT ![p] = "p_sup", ![d] = "text", ![e] = "text"]
    BY <1>1, <1>2, <1>9
  <2> QED BY <1>2, <1>3, <1>10, <2>1
<1>12. Created' = Created \cup {d} /\ d \notin Created
  BY <1>2, <1>6, <1>7, <1>11 DEF Created
<1>13. \A m \in Nodes : child'[m] = IF m = p THEN d ELSE child[m]
  BY <1>1, <1>2, <1>3
<1>14. child[d] = 0 /\ next[d] = 0 /\ tail[d] = d
  BY <1>2, <1>3 DEF Fits, PairTypes
<1> DEFINE par2 == [m \in Nodes |-> IF m = d THEN p ELSE par[m]]
<1>15. Tree(Created', par2, child', next', tail')
  <2>1. \A m \in Created' : par2[m] = IF m = d THEN p ELSE par[m]
    BY <1>2, <1>3, <1>12
  <2>2. \A m \in Created' : child'[m] = IF m = p THEN d ELSE child[m]
    BY <1>2, <1>3, <1>12, <1>13
  <2> HIDE DEF par2
  <2>3. Grows(Created, par, child, next, tail, p, Created', par2, child')
    BY <1>2, <1>3, <1>8, <1>12, <1>14, <2>1, <2>2 DEF Grows
  <2>4. Tree(Created', par2, child', next, tail)
    BY <2>3, LeafKeeps
  <2> QED BY <1>1, <2>4
<1>16. Rebuilt(par, par2, n)
  <2>1. \A m \in Created : m \in Created' /\ par2[m] = par[m] /\ next'[m] = next[m]
    BY <1>1, <1>3, <1>12
  <2>2. ASSUME NEW m \in Created, m < p PROVE child'[m] = child[m]
    BY <1>2, <1>3, <1>13, <2>2
  <2>3. Moves(par, par2, n)
    <3>1. \A m \in Created : m = p \/ type'[m] = type[m] \/ m = e
      BY <1>3, <1>11, <1>12
    <3>2. \A m \in Created : m \notin Adopted(Created, par, p, p)
      BY <1>2, <1>3 DEF Adopted
    <3>3. \A m \in Created : /\ (m = n \/ type'[m] = type[m] \/ src[Tok(m)] = "word")
                              /\ m \notin Adopted(Created, par, n, n)
      BY <1>6, <3>1, <3>2 DEF p
    <3>4. next' = next /\ pass > 3
      BY <1>1, <1>4
    <3> HIDE DEF par2
    <3> QED BY <2>1, <3>3, <3>4 DEF Moves
  <2> HIDE DEF par2
  <2> QED BY <1>15, <2>1, <2>2, <2>3 DEF Rebuilt, p
<1>17. par2 \in [Nodes -> Ref]
  BY <1>2 DEF Ref
<1>18. ASSUME NEW m \in Nodes PROVE Fits(m)'
  <2>1. Fits(m) /\ m \in Nat
    BY <1>3
  <2>2. Tok(m)' = Tok(m) /\ src' = src /\ pass' = pass /\ Scans(m)' = Scans(m)
    BY DEF Tok, Scans, Indentation
  <2>3. CASE m = p
    <3>1. type'[m] = "p_sup" /\ "p_sup" \in PairTypes /\ type[m] # "free"
      BY <1>2, <1>11, <2>3 DEF PairTypes, Created
    <3> QED BY <1>4, <1>5, <1>7, <2>1, <2>2, <2>3, <3>1 DEF Fits
  <2>4. CASE m = d /\ m # p
    <3>1. type'[m] = "text" /\ child'[m] = NULL
      BY <1>3, <1>11, <1>13, <1>14, <2>4
    <3> QED BY <1>2, <1>4, <1>5, <1>7, <2>1, <2>2, <2>4, <3>1 DEF Fits
  <2>5. CASE m = e /\ m # p
    <3>1. type'[m] = "text" /\ child'[m] = NULL /\ type[m] # "free"
      BY <1>10, <1>11, <1>13, <2>5
    <3> QED BY <1>6, <1>7, <2>1, <2>2, <2>5, <3>1 DEF Fits
  <2>6. CASE m \notin {p, d, e}
    <3>1. type'[m] = type[m] /\ child'[m] = child[m] /\ next'[m] = next[m] /\ tail'[m] = tail[m]
      BY <1>1, <1>11, <1>13, <2>6
    <3> QED BY <1>7, <2>1, <2>2, <3>1 DEF Fits
  <2> QED BY <2>3, <2>4, <2>5, <2>6
<1> QED BY <1>16, <1>17, <1>18

\* Each activation is inside the node that the one above it is at, so these
\* nodes lie further left the further up the activation is.
LEMMA CallersInFront ==
    ASSUME IInv, NEW par, Shaped(par), Placed(par), frames # <<>>, n # NULL
    PROVE  /\ n \in Created /\ par[n] = ParentOf(Depth) /\ ParentOf(Depth) < n
           /\ \A k \in 1..Depth : k # Depth => /\ frames[k].node \in Created
                                               /\ frames[k].node <= ParentOf(Depth)
<1>1. /\ Depth \in Nat \ {0} /\ Depth \in 1..Depth /\ frames[Depth].node = n
      /\ \A k \in 1..Depth : frames[k].node \in Ref
  BY VisitFacts DEF Top, n, Frame
<1>2. \A k \in 1..Depth : frames[k].node # NULL
  <2> TAKE k \in 1..Depth
  <2>1. CASE k = Depth
    BY <1>1, <2>1
  <2>2. CASE k # Depth
    <3>1. k < Depth
      BY <1>1, <2>2
    <3> QED BY <3>1 DEF IInv, ActivationsNest
  <2> QED BY <2>1, <2>2
<1>3. \A k \in 1..Depth : frames[k].node \in Created /\ par[frames[k].node] = ParentOf(k)
  BY <1>2 DEF Placed, PlacedAt
<1>4. \A m \in Created : m \in Nat /\ par[m] < m
  BY DEF Shaped, Tree, Preorder
<1>5. n \in Created /\ par[n] = ParentOf(Depth) /\ ParentOf(Depth) < n
  <2>1. n \in Created /\ par[n] = ParentOf(Depth)
    BY <1>1, <1>3
  <2>2. par[n] < n
    BY <1>4, <2>1
  <2> QED BY <2>1, <2>2
<1>6. \A k \in 1..Depth : k # Depth => /\ k + 1 \in 1..Depth
                                       /\ frames[k].node < frames[k + 1].node
  <2> TAKE k \in 1..Depth
  <2> HAVE k # Depth
  <2>1. k + 1 \in 1..Depth /\ k + 1 # 1 /\ (k + 1) - 1 = k
    BY <1>1
  <2>2. par[frames[k + 1].node] = frames[k].node /\ frames[k + 1].node \in Created
    BY <1>3, <2>1 DEF ParentOf
  <2> QED BY <1>4, <2>1, <2>2
<1> DEFINE S == {k \in 1..Depth : k # Depth /\ ~(frames[k].node <= ParentOf(Depth))}
<1>7. S = {}
  <2>1. SUFFICES ASSUME S # {} PROVE FALSE
    OBVIOUS
  <2>2. S \subseteq 0..Depth
    BY <1>1
  <2>3. PICK k \in S : \A j \in S : j <= k
    <3> HIDE DEF S
    <3> QED BY <1>1, <2>1, <2>2, GreatestExists
  <2>4. k \in 1..Depth /\ k # Depth /\ k \in Nat /\ k + 1 \in 1..Depth /\ k + 1 > k
    BY <1>6, <2>3
  <2>5. k + 1 \notin S
    BY <2>3, <2>4
  <2>6. frames[k].node \in Nat /\ frames[k + 1].node \in Nat
    BY <1>3, <1>4, <2>4
  <2>7. CASE k + 1 = Depth
    <3>1. ParentOf(Depth) = frames[k].node
      BY <2>4, <2>7 DEF ParentOf
    <3> QED BY <2>3, <2>6, <3>1
  <2>8. CASE k + 1 # Depth
    <3>1. frames[k + 1].node <= ParentOf(Depth)
      BY <2>4, <2>5, <2>8
    <3>2. ParentOf(Depth) \in Nat
      <4>1. Depth # 1 /\ Depth - 1 \in 1..Depth
        BY <1>1, <2>4
      <4> QED BY <1>3, <1>4, <4>1 DEF ParentOf
    <3>3. frames[k].node < frames[k + 1].node
      BY <1>6, <2>4
    <3> QED BY <2>3, <2>6, <3>1, <3>2, <3>3
  <2> QED BY <2>7, <2>8
<1> QED BY <1>3, <1>5, <1>7

\* The stack and the activations after a visit.
LEMMA SettledActivations ==
    ASSUME IInv, frames # <<>>, n # NULL,
           NEW openers, NEW size \in Top.start..Len(stack), NEW push \in BOOLEAN,
           Settle(openers, size, push)
    PROVE  /\ Len(stack') = (IF push THEN size + 1 ELSE size)
           /\ \A i \in 1..size : stack'[i] = stack[i]
           /\ push => stack'[size + 1] = n
           /\ Depth' = Depth
           /\ \A k \in 1..Depth : k # Depth => frames'[k] = frames[k]
           /\ frames'[Depth].node = next[n] /\ frames'[Depth].prev = n
           /\ \A k \in 1..Depth : First(k)' = First(k) /\ First(k) = frames[k].start + 1
           /\ Last(Depth)' = Len(stack') /\ Last(Depth) = Len(stack)
           /\ \A k \in 1..Depth : k # Depth => /\ Last(k)' = Last(k) /\ Last(k) \in Nat
                                               /\ Last(k) <= Top.start
           /\ \A k \in 1..Depth : ParentOf(k)' = ParentOf(k)
<1>0. /\ size \in Nat /\ Len(stack) \in Nat /\ Top.start \in Nat /\ n \in Nat /\ n \in Nodes
      /\ size <= Len(stack) /\ Top.start <= size /\ stack \in Seq(Nodes)
      /\ Depth \in Nat \ {0} /\ Depth \in 1..Depth /\ Top \in Frame /\ frames[Depth] = Top /\ Top.node = n
      /\ frames \in Seq(Frame)
      /\ \A k \in 1..Depth : frames[k].start \in Nat /\ frames[k] \in Frame
      /\ \A i \in 1..Len(stack) : stack[i] \in Nodes
  <2>1. n \in Ref
    BY VisitFacts
  <2>2. n \in Nodes /\ n \in Nat
    BY <2>1, NodesAreNumbers DEF Ref, NULL, IInv
  <2> QED BY <2>2, VisitFacts DEF IInv, TypeOK, Top, n
<1>1. /\ Len(stack') = (IF push THEN size + 1 ELSE size)
      /\ \A i \in 1..size : stack'[i] = stack[i]
      /\ push => stack'[size + 1] = n
  <2> DEFINE kept == SubSeq(stack, 1, size)
  <2>1. kept \in Seq(Nodes) /\ Len(kept) = size /\ \A i \in 1..size : kept[i] = stack[i]
    <3>1. \A i \in 1..size : stack[i] \in Nodes
      BY <1>0
    <3>2. /\ kept \in Seq(Nodes)
          /\ Len(kept) = IF 1 <= size THEN size - 1 + 1 ELSE 0
          /\ \A i \in 1..(size - 1 + 1) : kept[i] = stack[1 + i - 1]
      BY <1>0, <3>1, SubSeqProperties
    <3> QED BY <1>0, <3>2
  <2>2. stack' = IF push THEN Append(kept, n) ELSE kept
    BY DEF Settle
  <2> HIDE DEF kept
  <2>3. CASE push
    BY <1>0, <2>1, <2>2, <2>3, AppendProperties
  <2>4. CASE ~push
    BY <1>0, <2>1, <2>2, <2>4
  <2> QED BY <2>3, <2>4
<1> DEFINE counters == IF push THEN [openers EXCEPT ![type[n]] = @ + 1] ELSE openers
           now == [Top EXCEPT !.node = next[n], !.prev = n, !.openers = counters]
<1>2. frames' = [frames EXCEPT ![Depth] = now] /\ src' = src
  BY DEF Settle, Top
<1>3. now.node = next[n] /\ now.prev = n /\ now.start = Top.start
  BY <1>0 DEF Frame
<1> HIDE DEF now, counters
<1>4. /\ Depth' = Depth
      /\ \A k \in 1..Depth : frames'[k] = IF k = Depth THEN now ELSE frames[k]
  BY <1>0, <1>2 DEF Depth
<1>5. NULL' = NULL /\ NULL = 0 /\ n # NULL
  BY DEF NULL
<1>6. /\ \A k \in 1..Depth : frames'[k].start = frames[k].start
      /\ \A k \in 1..Depth : First(k)' = First(k)
      /\ \A k \in 1..Depth : First(k) = frames[k].start + 1
  BY <1>0, <1>3, <1>4 DEF First
<1>7. \A k \in 1..Depth : k # Depth => /\ Last(k)' = Last(k) /\ Last(k) \in Nat /\ Last(k) <= Top.start
  <2> TAKE k \in 1..Depth
  <2> HAVE k # Depth
  <2>1. k + 1 \in 1..Depth
    BY <1>0
  <2>2. Last(k) = frames[k + 1].start /\ Last(k)' = frames'[k + 1].start
    BY <1>4 DEF Last
  <2>3. \A i, j \in 1..Depth : i <= j => frames[i].start <= frames[j].start
    BY DEF IInv, ActivationsNest
  <2>4. frames[k + 1].start <= frames[Depth].start
    BY <1>0, <2>1, <2>3
  <2> QED BY <1>0, <1>6, <2>1, <2>2, <2>4
<1>8. \A k \in 1..Depth : ParentOf(k)' = ParentOf(k)
  <2> TAKE k \in 1..Depth
  <2>1. CASE k = 1
    BY <1>5, <2>1 DEF ParentOf
  <2>2. CASE k # 1
    <3>1. k - 1 \in 1..Depth /\ k - 1 # Depth
      BY <1>0, <2>2
    <3> QED BY <1>4, <2>2, <3>1 DEF ParentOf
  <2> QED BY <2>1, <2>2
<1>9. Last(Depth)' = Len(stack') /\ Last(Depth) = Len(stack)
  BY <1>4 DEF Last
<1> QED BY <1>0, <1>1, <1>3, <1>4, <1>6, <1>7, <1>8, <1>9

\* The loop body moves the innermost activation on to the next node, and no
\* other activation is touched by what is rebuilt right of the node it is at.
LEMMA SettlePlaces ==
    ASSUME IInv, NEW par, Shaped(par), Placed(par), frames # <<>>, n # NULL,
           NEW openers, NEW size \in Top.start..Len(stack), NEW push \in BOOLEAN,
           Settle(openers, size, push),
           NEW o \in Nat, o <= n, ParentOf(Depth) < o, \A i \in 1..size : stack[i] < o,
           NEW par2, Rebuilt(par, par2, o)
    PROVE  Placed(par2)'
<1>0. /\ size \in Nat /\ Len(stack) \in Nat /\ Top.start \in Nat /\ n \in Nat /\ n \in Nodes
      /\ size <= Len(stack) /\ Top.start <= size /\ stack \in Seq(Nodes)
      /\ Depth \in Nat \ {0} /\ Depth \in 1..Depth /\ Top \in Frame /\ frames[Depth] = Top /\ Top.node = n
      /\ frames \in Seq(Frame)
      /\ \A k \in 1..Depth : frames[k].start \in Nat /\ frames[k] \in Frame
      /\ \A i \in 1..Len(stack) : stack[i] \in Nodes
  <2>1. n \in Ref
    BY VisitFacts
  <2>2. n \in Nodes /\ n \in Nat
    BY <2>1, NodesAreNumbers DEF Ref, NULL, IInv
  <2> QED BY <2>2, VisitFacts DEF IInv, TypeOK, Top, n
<1>1. /\ Len(stack') = (IF push THEN size + 1 ELSE size)
      /\ \A i \in 1..size : stack'[i] = stack[i]
      /\ push => stack'[size + 1] = n
      /\ Depth' = Depth
      /\ \A k \in 1..Depth : k # Depth => frames'[k] = frames[k]
      /\ frames'[Depth].node = next[n] /\ frames'[Depth].prev = n
      /\ \A k \in 1..Depth : First(k)' = First(k) /\ First(k) = frames[k].start + 1
      /\ Last(Depth)' = Len(stack') /\ Last(Depth) = Len(stack)
      /\ \A k \in 1..Depth : k # Depth => /\ Last(k)' = Last(k) /\ Last(k) \in Nat
                                          /\ Last(k) <= Top.start
      /\ \A k \in 1..Depth : ParentOf(k)' = ParentOf(k)
  BY SettledActivations
<1>5. NULL' = NULL /\ NULL = 0 /\ n # NULL
  BY DEF NULL
<1>9. /\ Tree(Created', par2, child', next', tail')
      /\ \A m \in Created : m < o \/ m = n =>
            m \in Created' /\ par2[m] = par[m] /\ next'[m] = next[m]
      /\ \A m \in Created : m < o => child'[m] = child[m]
  BY DEF Rebuilt
<1>10. \A m \in Created : m \in Nat /\ m # 0 /\ par[m] < m /\ par[m] \in Nat
  BY DEF Shaped, Tree, Preorder
<1>11. /\ n \in Created /\ par[n] = ParentOf(Depth)
       /\ \A k \in 1..Depth : k # Depth => /\ frames[k].node \in Created
                                           /\ frames[k].node <= ParentOf(Depth)
  BY CallersInFront
<1>12. \A k \in 1..Depth : k # Depth => frames[k].node < o
  <2> TAKE k \in 1..Depth
  <2> HAVE k # Depth
  <2>1. frames[k].node \in Nat /\ frames[k].node <= ParentOf(Depth) /\ ParentOf(Depth) \in Nat
    BY <1>10, <1>11
  <2> QED BY <2>1
<1>13. ASSUME NEW k \in 1..Depth, k # Depth PROVE PlacedAt(par2, k)'
  <2>1. PlacedAt(par, k) /\ frames'[k] = frames[k]
    BY <1>1, <1>13 DEF Placed
  <2>2. frames[k].node \in Created /\ frames[k].node < o /\ frames[k].node # NULL
    BY <1>5, <1>10, <1>11, <1>12, <1>13
  <2>3. frames[k].node \in Created' /\ par2[frames[k].node] = ParentOf(k)
    BY <1>9, <2>1, <2>2 DEF PlacedAt
  <2>4. ASSUME frames[k].prev # NULL
        PROVE  /\ frames[k].prev \in Created' /\ par2[frames[k].prev] = ParentOf(k)
               /\ next'[frames[k].prev] = frames[k].node
    <3>1. /\ frames[k].prev \in Created /\ par[frames[k].prev] = ParentOf(k)
          /\ next[frames[k].prev] = frames[k].node
      BY <2>1, <2>4 DEF PlacedAt
    <3>2. frames[k].prev < frames[k].node
      BY <1>5, <2>2, <3>1 DEF Shaped, Tree, Links
    <3>3. frames[k].prev < o
      BY <1>10, <2>2, <3>1, <3>2
    <3> QED BY <1>9, <3>1, <3>3
  <2>5. ASSUME frames[k].prev = NULL
        PROVE  frames[k].node = IF k = 1 THEN 2 ELSE child'[frames'[k - 1].node]
    <3>1. frames[k].node = IF k = 1 THEN 2 ELSE child[frames[k - 1].node]
      BY <2>1, <2>5 DEF PlacedAt
    <3>2. k # 1 => child'[frames'[k - 1].node] = child[frames[k - 1].node]
      <4>1. SUFFICES ASSUME k # 1 PROVE child'[frames'[k - 1].node] = child[frames[k - 1].node]
        OBVIOUS
      <4>2. k - 1 \in 1..Depth /\ k - 1 # Depth
        BY <1>0, <4>1
      <4> QED BY <1>1, <1>9, <1>11, <1>12, <4>2
    <3> QED BY <3>1, <3>2
  <2>6. ASSUME NEW i \in First(k)'..Last(k)'
        PROVE  stack'[i] \in Created' /\ par2[stack'[i]] = ParentOf(k)
    <3>0. First(k)' = First(k) /\ Last(k)' = Last(k) /\ First(k) \in Nat \ {0} /\ Last(k) \in Nat
          /\ Last(k) <= Top.start
      <4>1. First(k)' = First(k) /\ First(k) \in Nat \ {0}
        <5>1. frames[k].start \in Nat
          BY <1>0
        <5> QED BY <1>1, <5>1
      <4> QED BY <1>1, <1>13, <4>1
    <3>1. i \in First(k)..Last(k) /\ i \in 1..size
      BY <1>0, <2>6, <3>0
    <3>2. stack[i] \in Created /\ par[stack[i]] = ParentOf(k) /\ stack[i] < o
      BY <2>1, <3>1 DEF PlacedAt
    <3> QED BY <1>1, <1>9, <3>1, <3>2
  <2> QED BY <1>1, <1>5, <2>1, <2>3, <2>4, <2>5, <2>6 DEF PlacedAt
<1>14. ASSUME NEW k \in 1..Depth, k = Depth PROVE PlacedAt(par2, k)'
  <2>1. PlacedAt(par, k) /\ frames[k] = Top
    BY <1>0, <1>14 DEF Placed
  <2>2. n \in Created' /\ par2[n] = ParentOf(k) /\ next'[n] = next[n]
    BY <1>9, <1>11, <1>14
  <2>3. next[n] # NULL => next[n] \in Created' /\ par2[next[n]] = ParentOf(k)
    BY <1>5, <1>9, <2>2 DEF Tree, Links
  <2>4. First(k)' = Top.start + 1 /\ First(k) = Top.start + 1 /\ Last(k)' = Len(stack')
        /\ Last(k) = Len(stack)
    BY <1>1, <1>14, <2>1
  <2>5. ASSUME NEW i \in First(k)'..Last(k)'
        PROVE  stack'[i] \in Created' /\ par2[stack'[i]] = ParentOf(k)
    <3>1. CASE i \in 1..size
      <4>1. i \in First(k)..Last(k)
        BY <1>0, <2>4, <2>5, <3>1
      <4>2. stack[i] \in Created /\ par[stack[i]] = ParentOf(k) /\ stack[i] < o
        BY <2>1, <3>1, <4>1 DEF PlacedAt
      <4> QED BY <1>1, <1>9, <3>1, <4>2
    <3>2. CASE i \notin 1..size
      <4>1. push /\ i = size + 1
        BY <1>0, <1>1, <2>4, <2>5, <3>2
      <4> QED BY <1>1, <2>2, <4>1
    <3> QED BY <3>1, <3>2
  <2>6. ParentOf(k)' = ParentOf(k)
    BY <1>1
  <2> QED BY <1>1, <1>5, <1>14, <2>1, <2>2, <2>3, <2>5, <2>6 DEF PlacedAt
<1> QED BY <1>1, <1>13, <1>14 DEF Placed
-----------------------------------------------------------------------------
(* What a walk over the tree meets.                                        *)

\* What follows m on its chain, with all that is below: the nodes from m on up
\* to the first one whose parent lies further up.
Rest(cr, par, m) ==
    {k \in cr : m <= k /\ \A j \in cr : m < j /\ j <= k => par[m] <= par[j]}
RestOf(cr, par, m) == IF m = 0 THEN {} ELSE Rest(cr, par, m)

\* A tree and a node of it
NodeOf(cr, par, ch, nx, tl, m) == Tree(cr, par, ch, nx, tl) /\ m \in cr

\* What lies behind m and in front of the next node of its chain is below m.
LEMMA BetweenIsBelow ==
    ASSUME NEW cr, NEW par, NEW ch, NEW nx, NEW tl, NEW m, NodeOf(cr, par, ch, nx, tl, m),
           NEW j \in cr, m < j, nx[m] # 0 => j < nx[m], nx[m] = 0 => par[m] <= par[j]
    PROVE  m <= par[j]
<1>1. /\ \A i \in cr : i \in Nat /\ par[i] \in Nat /\ par[i] < i
      /\ \A i, k \in cr : par[i] < k /\ k < i => par[i] <= par[k]
      /\ m \in cr
  BY DEF NodeOf, Tree, Preorder
<1>2. /\ nx[m] = 0 => \A k \in cr : par[k] = par[m] => k <= m
      /\ nx[m] # 0 => /\ nx[m] \in cr /\ par[nx[m]] = par[m] /\ nx[m] > m
                      /\ \A k \in cr : par[k] = par[m] /\ k > m => nx[m] <= k
  BY DEF NodeOf, Tree, Links
<1>3. m \in Nat /\ j \in Nat /\ par[j] \in Nat /\ par[m] \in Nat /\ par[m] < m
  BY <1>1
<1>4. SUFFICES ASSUME par[j] < m PROVE FALSE
  BY <1>3
<1>5. par[j] <= par[m]
  BY <1>1, <1>4
<1>6. par[m] <= par[j]
  <2>1. CASE nx[m] = 0
    BY <2>1
  <2>2. CASE nx[m] # 0
    <3>1. par[nx[m]] < j /\ j < nx[m]
      BY <1>2, <1>3, <2>2
    <3> QED BY <1>1, <1>2, <2>2, <3>1
  <2> QED BY <2>1, <2>2
<1>7. par[j] = par[m]
  BY <1>3, <1>5, <1>6
<1>8. CASE nx[m] = 0
  <2>1. j <= m
    BY <1>2, <1>7, <1>8
  <2> QED BY <1>3, <2>1
<1>9. CASE nx[m] # 0
  <2>1. nx[m] <= j /\ nx[m] \in Nat
    BY <1>1, <1>2, <1>7, <1>9
  <2> QED BY <1>3, <1>9, <2>1
<1> QED BY <1>8, <1>9

\* If anything below m or between m and its next node follows it, then m has
\* children, and the first one follows it directly.
LEMMA FirstChildIsNext ==
    ASSUME NEW cr, NEW par, NEW ch, NEW nx, NEW tl, NEW m, NodeOf(cr, par, ch, nx, tl, m),
           NEW k \in cr, m < k, ch[m] # 0 \/ \A j \in cr : m < j /\ j <= k => m <= par[j]
    PROVE  ch[m] # 0 /\ ch[m] <= k
<1>1. /\ \A i \in cr : i \in Nat /\ par[i] \in Nat /\ par[i] < i /\ (par[i] # 0 => par[i] \in cr)
      /\ \A i, j \in cr : par[i] < j /\ j < i => par[i] <= par[j]
      /\ m \in cr /\ cr \subseteq Nat
  BY DEF NodeOf, Tree, Preorder
<1>2. /\ ch[m] = 0 => \A i \in cr : par[i] # m
      /\ ch[m] # 0 => /\ ch[m] \in cr /\ par[ch[m]] = m
                      /\ \A i \in cr : par[i] = m => ch[m] <= i
  BY DEF NodeOf, Tree, Heads
<1>3. m \in Nat /\ k \in Nat
  BY <1>1
<1> DEFINE D == {i \in cr : m < i}
<1>4. D \subseteq Nat /\ k \in D
  BY <1>1
<1>5. PICK d \in D : \A i \in D : <<i, d>> \notin OpToRel(<, Nat)
  BY <1>4, WFMin, NatLessThanWellFounded, Zenon
<1>6. d \in cr /\ d \in Nat /\ m < d /\ \A i \in D : ~(i < d) /\ i \in Nat
  BY <1>4, <1>5 DEF OpToRel
<1>7. d <= k /\ par[d] \in Nat /\ par[d] < d
  BY <1>1, <1>3, <1>4, <1>6
<1>8. ~(m < par[d])
  <2>1. SUFFICES ASSUME m < par[d] PROVE FALSE
    OBVIOUS
  <2>2. par[d] \in D
    BY <1>1, <1>3, <1>6, <2>1
  <2> QED BY <1>6, <1>7, <2>2
<1>9. par[d] = m
  <2>1. CASE ch[m] # 0
    <3>1. ch[m] \in cr /\ par[ch[m]] = m /\ ch[m] \in Nat /\ m < ch[m]
      BY <1>1, <1>2, <2>1
    <3>2. CASE ch[m] = d
      BY <3>1, <3>2
    <3>3. CASE ch[m] # d
      <4>1. d < ch[m]
        BY <1>6, <3>1, <3>3
      <4>2. m <= par[d]
        BY <1>1, <1>6, <3>1, <4>1
      <4> QED BY <1>3, <1>7, <1>8, <4>2
    <3> QED BY <3>2, <3>3
  <2>2. CASE \A j \in cr : m < j /\ j <= k => m <= par[j]
    <3>1. m <= par[d]
      BY <1>6, <1>7, <2>2
    <3> QED BY <1>3, <1>7, <1>8, <3>1
  <2> QED BY <2>1, <2>2
<1>10. ch[m] # 0 /\ ch[m] <= d /\ ch[m] \in Nat
  BY <1>1, <1>2, <1>6, <1>9
<1> QED BY <1>3, <1>6, <1>7, <1>10

\* A walk from m on meets m, then what is below m, then what follows m.
LEMMA RestSplits ==
    ASSUME NEW cr, NEW par, NEW ch, NEW nx, NEW tl, NEW m, NodeOf(cr, par, ch, nx, tl, m)
    PROVE  /\ Rest(cr, par, m) = {m} \cup RestOf(cr, par, ch[m]) \cup RestOf(cr, par, nx[m])
           /\ \A i \in RestOf(cr, par, ch[m]) \cup RestOf(cr, par, nx[m]) : m < i
           /\ \A i \in RestOf(cr, par, ch[m]) : \A j \in RestOf(cr, par, nx[m]) : i < j
<1> DEFINE c == ch[m]
           x == nx[m]
<1>1. /\ \A i \in cr : i \in Nat /\ i # 0 /\ par[i] \in Nat /\ par[i] < i
      /\ m \in cr
  BY DEF NodeOf, Tree, Preorder
<1>2. c # 0 => c \in cr /\ par[c] = m
  BY DEF NodeOf, Tree, Heads
<1>3. x # 0 => x \in cr /\ par[x] = par[m] /\ m < x
  BY DEF NodeOf, Tree, Links
<1>4. m \in Nat /\ par[m] \in Nat /\ par[m] < m /\ m # 0
  BY <1>1
<1>5. \A j \in cr : m < j /\ (x # 0 => j < x) /\ (x = 0 => par[m] <= par[j]) => m <= par[j]
  BY BetweenIsBelow
<1>6. c # 0 => c \in Nat /\ m < c /\ \A k \in cr : m < k => c <= k
  <2>1. ASSUME c # 0 PROVE c \in Nat /\ m < c
    BY <1>1, <1>2, <2>1
  <2>2. ASSUME c # 0, NEW k \in cr, m < k PROVE c <= k
    BY <2>2, FirstChildIsNext
  <2> QED BY <2>1, <2>2
<1>7. \A k \in cr : m < k /\ (\A j \in cr : m < j /\ j <= k => m <= par[j]) => c # 0 /\ c <= k
  BY FirstChildIsNext
<1> HIDE DEF c, x
<1>8. c # 0 /\ x # 0 => c < x
  <2>1. SUFFICES ASSUME c # 0, x # 0 PROVE c < x
    OBVIOUS
  <2>2. c <= x /\ c \in Nat /\ x \in Nat
    BY <1>1, <1>3, <1>6, <2>1
  <2>3. c # x
    BY <1>2, <1>3, <1>4, <2>1
  <2> QED BY <2>2, <2>3
<1>9. \A k : k \in RestOf(cr, par, c) <=>
          c # 0 /\ k \in cr /\ c <= k /\ \A j \in cr : c < j /\ j <= k => m <= par[j]
  BY <1>2 DEF RestOf, Rest
<1>10. \A k : k \in RestOf(cr, par, x) <=>
          x # 0 /\ k \in cr /\ x <= k /\ \A j \in cr : x < j /\ j <= k => par[m] <= par[j]
  BY <1>3 DEF RestOf, Rest
<1>11. ASSUME NEW k \in RestOf(cr, par, c)
       PROVE  k \in Rest(cr, par, m) /\ m < k /\ (x # 0 => k < x)
  <2>1. c # 0 /\ k \in cr /\ c <= k /\ \A j \in cr : c < j /\ j <= k => m <= par[j]
    BY <1>9, <1>11
  <2>2. k \in Nat /\ c \in Nat /\ m < c /\ m < k
    BY <1>1, <1>4, <1>6, <2>1
  <2>3. ASSUME NEW j \in cr, m < j, j <= k PROVE par[m] <= par[j]
    <3>1. c <= j /\ j \in Nat /\ par[j] \in Nat
      BY <1>1, <1>6, <2>1, <2>3
    <3>2. m <= par[j]
      <4>1. CASE j = c
        BY <1>2, <1>4, <2>1, <4>1
      <4>2. CASE j # c
        <5>1. c < j
          BY <2>2, <3>1, <4>2
        <5> QED BY <2>1, <2>3, <5>1
      <4> QED BY <4>1, <4>2
    <3> QED BY <1>4, <3>1, <3>2
  <2>4. ASSUME x # 0 PROVE k < x
    <3>1. x \in Nat /\ c < x /\ x \in cr /\ par[x] = par[m]
      BY <1>1, <1>3, <1>8, <2>1, <2>4
    <3>2. SUFFICES ASSUME x <= k PROVE FALSE
      BY <2>2, <3>1
    <3>3. m <= par[m]
      BY <2>1, <3>1, <3>2
    <3> QED BY <1>4, <3>3
  <2>5. m <= k
    BY <1>4, <2>2
  <2> QED BY <2>1, <2>2, <2>3, <2>4, <2>5 DEF Rest
<1>12. ASSUME NEW k \in RestOf(cr, par, x)
       PROVE  k \in Rest(cr, par, m) /\ m < k /\ x # 0 /\ x <= k /\ k \in Nat /\ x \in Nat
  <2>1. x # 0 /\ k \in cr /\ x <= k /\ \A j \in cr : x < j /\ j <= k => par[m] <= par[j]
    BY <1>10, <1>12
  <2>2. k \in Nat /\ x \in Nat /\ m < x /\ m < k
    <3>1. k \in Nat /\ x \in Nat /\ m < x
      BY <1>1, <1>3, <2>1
    <3> QED BY <1>4, <2>1, <3>1
  <2>3. ASSUME NEW j \in cr, m < j, j <= k PROVE par[m] <= par[j]
    <3>1. j \in Nat /\ par[j] \in Nat
      BY <1>1
    <3>2. CASE j < x
      <4>1. m <= par[j]
        BY <1>5, <2>1, <2>3, <3>2
      <4> QED BY <1>4, <3>1, <4>1
    <3>3. CASE j = x
      BY <1>3, <1>4, <2>1, <3>3
    <3>4. CASE x < j
      BY <2>1, <2>3, <3>4
    <3> QED BY <2>2, <3>1, <3>2, <3>3, <3>4
  <2>5. m <= k
    BY <1>4, <2>2
  <2> QED BY <2>1, <2>2, <2>3, <2>5 DEF Rest
<1>13. m \in Rest(cr, par, m)
  <2>1. ~\E j \in cr : m < j /\ j <= m
    BY <1>1, <1>4
  <2>2. m <= m
    BY <1>4
  <2> QED BY <1>1, <2>1, <2>2 DEF Rest
<1>14. ASSUME NEW k \in Rest(cr, par, m), k # m
       PROVE  k \in RestOf(cr, par, c) \/ k \in RestOf(cr, par, x)
  <2>1. k \in cr /\ m <= k /\ \A j \in cr : m < j /\ j <= k => par[m] <= par[j]
    BY DEF Rest
  <2>2. k \in Nat /\ m < k
    BY <1>1, <1>4, <1>14, <2>1
  <2>3. CASE x # 0 /\ x <= k
    <3>1. x \in Nat /\ m < x
      BY <1>1, <1>3, <2>3
    <3>2. ASSUME NEW j \in cr, x < j, j <= k PROVE par[m] <= par[j]
      <4>1. j \in Nat /\ m < j
        BY <1>1, <1>4, <3>1, <3>2
      <4> QED BY <2>1, <3>2, <4>1
    <3> QED BY <1>10, <2>1, <2>3, <3>2
  <2>4. CASE x = 0 \/ k < x
    <3>1. ASSUME NEW j \in cr, m < j, j <= k PROVE m <= par[j]
      <4>1. x # 0 => j < x
        <5>1. ASSUME x # 0 PROVE j < x
          <6>1. j \in Nat /\ x \in Nat /\ k < x
            BY <1>1, <1>3, <2>4, <5>1
          <6> QED BY <2>2, <3>1, <6>1
        <5> QED BY <5>1
      <4>2. par[m] <= par[j]
        BY <2>1, <3>1
      <4> QED BY <1>5, <3>1, <4>1, <4>2
    <3>2. c # 0 /\ c <= k
      BY <1>7, <2>1, <2>2, <3>1
    <3>3. ASSUME NEW j \in cr, c < j, j <= k PROVE m <= par[j]
      <4>1. m < j
        BY <1>1, <1>4, <1>6, <3>2, <3>3
      <4> QED BY <3>1, <3>3, <4>1
    <3> QED BY <1>9, <2>1, <3>2, <3>3
  <2>5. x # 0 => x \in Nat
    BY <1>1, <1>3
  <2> QED BY <2>2, <2>3, <2>4, <2>5
<1>15. \A i \in RestOf(cr, par, c) : \A j \in RestOf(cr, par, x) : i < j
  <2> TAKE i \in RestOf(cr, par, c)
  <2> TAKE j \in RestOf(cr, par, x)
  <2>1. x # 0 /\ x <= j /\ j \in Nat /\ x \in Nat
    BY <1>12
  <2>2. i < x
    BY <1>11, <2>1
  <2>3. i \in Nat
    BY <1>1, <1>9
  <2> QED BY <2>1, <2>2, <2>3
<1>16. Rest(cr, par, m) = {m} \cup RestOf(cr, par, c) \cup RestOf(cr, par, x)
  BY <1>11, <1>12, <1>13, <1>14
<1> QED BY <1>11, <1>12, <1>15, <1>16 DEF c, x

\* A walk from the first node on meets all.
LEMMA RestOfFirst ==
    ASSUME NEW cr, NEW par, Preorder(cr, par)
    PROVE  Rest(cr, par, 2) = cr
<1>1. /\ cr \subseteq Nat \ {0, 1} /\ 2 \in cr
      /\ \A m \in cr : m \in Nat /\ par[m] \in Nat /\ par[m] < m /\ (par[m] # 0 => par[m] \in cr)
  BY DEF Preorder
<1>2. par[2] = 0
  <2>1. 1 \notin cr /\ par[2] \in Nat /\ par[2] < 2 /\ (par[2] # 0 => par[2] \in cr)
    BY <1>1
  <2> QED BY <2>1
<1>3. \A k \in cr : 2 <= k
  <2> TAKE k \in cr
  <2>1. k \in Nat /\ k # 0 /\ k # 1
    BY <1>1
  <2> QED BY <2>1
<1>4. \A j \in cr : par[2] <= par[j]
  BY <1>1, <1>2
<1> QED BY <1>3, <1>4 DEF Rest
-----------------------------------------------------------------------------
(* What a pass has visited, and what it owes to the tokens it has visited. *)

\* The node that activation k visits next, and all nodes that are not visited yet
Ahead(k) == IF k = Depth THEN frames[k].node ELSE next[frames[k].node]
Pending(par) == {m \in Created : \E k \in 1..Depth : m \in RestOf(Created, par, Ahead(k))}

\* Two trees that are the same from b on
SameBehind(b, cr, par, cr2, par2) ==
    /\ b \in Nat /\ cr \subseteq Nat /\ cr \subseteq cr2
    /\ \A m \in cr2 : m \in cr \/ m < b
    /\ \A m \in cr : b <= m => par2[m] = par[m]

\* What follows a node depends on nothing in front of it.
LEMMA RestStays ==
    ASSUME NEW cr, NEW par, NEW cr2, NEW par2, NEW b, SameBehind(b, cr, par, cr2, par2),
           NEW x, x # 0 => x \in cr /\ b <= x
    PROVE  RestOf(cr2, par2, x) = RestOf(cr, par, x)
<1> USE DEF SameBehind
<1>1. CASE x = 0
  BY <1>1 DEF RestOf
<1>2. CASE x # 0
  <2>1. x \in cr /\ x \in Nat /\ b <= x
    BY <1>2
  <2>2. \A k \in cr2 : x <= k => k \in cr /\ k \in Nat /\ b <= k
    BY <2>1
  <2>3. \A k \in cr2 : x < k => k \in cr /\ par2[k] = par[k]
    BY <2>1, <2>2
  <2>4. par2[x] = par[x]
    BY <2>1
  <2>5. ASSUME NEW k \in cr2, x <= k
        PROVE  (\A j \in cr2 : x < j /\ j <= k => par2[x] <= par2[j])
                  <=> (\A j \in cr : x < j /\ j <= k => par[x] <= par[j])
    BY <2>3, <2>4
  <2> QED BY <1>2, <2>2, <2>5 DEF RestOf, Rest
<1> QED BY <1>1, <1>2

\* What the callers visit next lies behind the node that is visited.
LEMMA CallersAhead ==
    ASSUME IInv, NEW par, Shaped(par), Placed(par), frames # <<>>, n # NULL
    PROVE  \A k \in 1..Depth : k # Depth =>
              (next[frames[k].node] # 0 => next[frames[k].node] \in Created /\ n < next[frames[k].node])
<1>1. /\ Depth \in Nat \ {0} /\ Depth \in 1..Depth /\ frames[Depth].node = n
      /\ \A k \in 1..Depth : frames[k].node \in Ref
  BY VisitFacts DEF Top, n, Frame
<1>2. \A k \in 1..Depth : frames[k].node # NULL
  <2> TAKE k \in 1..Depth
  <2>1. CASE k = Depth
    BY <1>1, <2>1
  <2>2. CASE k # Depth
    <3>1. k < Depth
      BY <1>1, <2>2
    <3> QED BY <3>1 DEF IInv, ActivationsNest
  <2> QED BY <2>1, <2>2
<1>3. \A k \in 1..Depth : frames[k].node \in Created /\ par[frames[k].node] = ParentOf(k)
  BY <1>2 DEF Placed, PlacedAt
<1>4. /\ \A m \in Created : m \in Nat /\ par[m] < m /\ par[m] \in Nat
      /\ \A k, m \in Created : par[k] < m /\ m < k => par[k] <= par[m]
      /\ \A m \in Created : next[m] # 0 => next[m] \in Created /\ par[next[m]] = par[m] /\ next[m] > m
  BY DEF Shaped, Tree, Preorder, Links
<1> TAKE k \in 1..Depth
<1> HAVE k # Depth
<1> HAVE next[frames[k].node] # 0
<1> DEFINE f == frames[k].node
           x == next[f]
<1>5. f \in Created /\ x \in Created /\ par[x] = par[f] /\ f < x /\ f \in Nat /\ x \in Nat
      /\ par[f] < f /\ par[f] \in Nat
  BY <1>3, <1>4
<1> HIDE DEF x
<1> DEFINE S == {j \in k..Depth : \A i \in k..j : f <= frames[i].node /\ frames[i].node < x}
<1>6. k \in S
  <2>1. \A i \in k..k : i = k
    BY <1>1
  <2> QED BY <1>1, <1>5, <2>1
<1>7. PICK j \in S : \A i \in S : i <= j
  <2>1. S \subseteq 0..Depth /\ S # {}
    <3>1. \A i \in k..Depth : i \in 0..Depth
      BY <1>1
    <3>2. S \subseteq k..Depth
      OBVIOUS
    <3> HIDE DEF S
    <3> QED BY <1>6, <3>1, <3>2
  <2> HIDE DEF S
  <2> QED BY <1>1, <2>1, GreatestExists
<1>8. j \in Nat /\ j \in k..Depth /\ j \in 1..Depth /\ k \in Nat
      /\ \A i \in k..j : f <= frames[i].node /\ frames[i].node < x
  BY <1>1, <1>7
<1>9. j = Depth
  <2>1. SUFFICES ASSUME j # Depth PROVE FALSE
    OBVIOUS
  <2>2. /\ j + 1 \in 1..Depth /\ j + 1 \in k..Depth /\ j + 1 # 1 /\ (j + 1) - 1 = j /\ j \in k..j
        /\ \A i \in k..(j + 1) : i \in k..j \/ i = j + 1
    BY <1>1, <1>8, <2>1
  <2> DEFINE g == frames[j + 1].node
             h == frames[j].node
  <2>3. g \in Created /\ par[g] = h /\ h \in Created /\ f <= h /\ h < x /\ g \in Nat /\ h \in Nat /\ h < g
    <3>1. g \in Created /\ par[g] = ParentOf(j + 1) /\ h \in Created
      BY <1>3, <1>8, <2>2
    <3>2. ParentOf(j + 1) = h
      BY <2>2 DEF ParentOf
    <3>3. f <= h /\ h < x
      BY <1>8, <2>2
    <3>4. g \in Nat /\ h \in Nat /\ par[g] < g
      BY <1>4, <3>1
    <3> QED BY <3>1, <3>2, <3>3, <3>4
  <2> HIDE DEF g, h, f
  <2>4. g < x
    <3>1. CASE g = x
      BY <1>5, <2>3, <3>1
    <3>2. CASE g > x
      <4>1. par[g] <= par[x]
        BY <1>4, <1>5, <2>3, <3>2
      <4> QED BY <1>5, <2>3, <4>1
    <3> QED BY <1>5, <2>3, <3>1, <3>2
  <2>5. \A i \in k..(j + 1) : f <= frames[i].node /\ frames[i].node < x
    <3>1. f <= g
      BY <1>5, <2>3
    <3> QED BY <1>8, <2>2, <2>4, <3>1 DEF g
  <2>6. j + 1 \in S
    BY <2>2, <2>5
  <2>7. j + 1 <= j
    <3> HIDE DEF S
    <3> QED BY <1>7, <2>6
  <2> QED BY <1>8, <2>7
<1>10. n < x
  BY <1>1, <1>8, <1>9
<1> QED BY <1>5, <1>10 DEF x
-----------------------------------------------------------------------------
\* A visit takes one node without children off what is pending.
LEMMA VisitPending ==
    ASSUME IInv, NEW par, Shaped(par), Placed(par), frames # <<>>, n # NULL, child[n] = NULL,
           NEW openers, NEW size \in Top.start..Len(stack), NEW push \in BOOLEAN,
           Settle(openers, size, push), pass < 4,
           NEW o \in Nat, o <= n, ParentOf(Depth) < o,
           NEW par2, Rebuilt(par, par2, o)
    PROVE  /\ \A m \in Pending(par) : n <= m /\ (m = n \/ m \in Pending(par2)')
           /\ n \in Pending(par)
           /\ \A m \in Pending(par2)' : m \in Pending(par) /\ n < m
<1>1. /\ Depth \in Nat \ {0} /\ Depth \in 1..Depth /\ frames[Depth].node = n /\ NULL = 0
  BY VisitFacts DEF Top, n, NULL
<1>2. /\ Depth' = Depth /\ frames'[Depth].node = next[n]
      /\ \A k \in 1..Depth : k # Depth => frames'[k] = frames[k]
  BY SettledActivations
<1>3. /\ n \in Created /\ ParentOf(Depth) < n
      /\ \A k \in 1..Depth : k # Depth => /\ frames[k].node \in Created
                                          /\ frames[k].node <= ParentOf(Depth)
  BY CallersInFront
<1>4. /\ \A m \in Created : m \in Nat
      /\ next[n] # 0 => next[n] \in Created /\ next[n] > n
  BY <1>3 DEF Shaped, Tree, Preorder, Links
<1>5. \A k \in 1..Depth : k # Depth => next'[frames[k].node] = next[frames[k].node]
  <2> TAKE k \in 1..Depth
  <2> HAVE k # Depth
  <2>1. frames[k].node \in Created /\ frames[k].node <= ParentOf(Depth)
    BY <1>3
  <2>2. ParentOf(Depth) \in Nat
    <3>1. ParentOf(Depth) = par[n] /\ par[n] \in Nat
      BY <1>3, CallersInFront DEF Shaped, Tree, Preorder
    <3> QED BY <3>1
  <2>3. frames[k].node \in Nat
    BY <1>4, <2>1
  <2>4. frames[k].node < o
    BY <2>1, <2>2, <2>3
  <2> QED BY <2>1, <2>4 DEF Rebuilt
<1>6. /\ Ahead(Depth) = n /\ Ahead(Depth)' = next[n]
      /\ \A k \in 1..Depth : k # Depth => Ahead(k)' = Ahead(k) /\ Ahead(k) = next[frames[k].node]
  BY <1>1, <1>2, <1>5 DEF Ahead
<1>7. \A k \in 1..Depth : Ahead(k)' # 0 => Ahead(k)' \in Created /\ n < Ahead(k)'
  <2> TAKE k \in 1..Depth
  <2>1. CASE k = Depth
    <3>1. next[n] # 0 => next[n] \in Created /\ n < next[n]
      BY <1>3, <1>4
    <3> QED BY <1>2, <1>6, <2>1, <3>1
  <2>2. CASE k # Depth
    BY <1>6, <2>2, CallersAhead
  <2> QED BY <2>1, <2>2
<1>8. \A x : (x # 0 => x \in Created /\ n < x) => RestOf(Created', par2, x) = RestOf(Created, par, x)
  <2>0. Moves(par, par2, o)
    BY DEF Rebuilt
  <2>1. /\ \A m \in Created : m \in Created'
        /\ \A m \in Created : par2[m] = IF m \in Adopted(Created, par, o, n) THEN o ELSE par[m]
    BY <2>0 DEF Moves
  <2>5. \A m \in Created' : m \in Created \/ m < n
    <3>1. ~(pass > 3)
      BY DEF IInv, TypeOK
    <3> QED BY <2>0, <3>1 DEF Moves
  <2>2. \A m \in Created : n <= m => par2[m] = par[m]
    BY <1>3, <1>4, <2>1 DEF Adopted
  <2>3. n \in Nat /\ Created \subseteq Nat
    BY <1>3, <1>4
  <2> TAKE x
  <2> HAVE x # 0 => x \in Created /\ n < x
  <2>4. x # 0 => x \in Created /\ n <= x
    <3>1. x # 0 => x \in Nat
      BY <2>3
    <3> QED BY <2>3, <3>1
  <2>6. Created \subseteq Created'
    BY <2>1
  <2>7. SameBehind(n, Created, par, Created', par2)
    BY <2>2, <2>3, <2>5, <2>6 DEF SameBehind
  <2> HIDE DEF n
  <2> QED BY <2>4, <2>7, RestStays
<1>9. RestOf(Created, par, n) = {n} \cup RestOf(Created, par, next[n])
  <2>1. NodeOf(Created, par, child, next, tail, n)
    BY <1>3 DEF NodeOf, Shaped
  <2>2. Rest(Created, par, n) = {n} \cup RestOf(Created, par, child[n]) \cup RestOf(Created, par, next[n])
    <3> HIDE DEF n
    <3> QED BY <2>1, RestSplits
  <2>3. RestOf(Created, par, child[n]) = {} /\ RestOf(Created, par, n) = Rest(Created, par, n)
    BY <1>1 DEF RestOf
  <2> QED BY <2>2, <2>3
<1>10. \A k \in 1..Depth : \A m \in RestOf(Created, par, Ahead(k)') : m \in Created /\ n < m
  <2> TAKE k \in 1..Depth
  <2> TAKE m \in RestOf(Created, par, Ahead(k)')
  <2>1. Ahead(k)' # 0 /\ m \in Created /\ Ahead(k)' <= m
    BY DEF RestOf, Rest
  <2> QED BY <1>3, <1>4, <1>7, <2>1
<1> DEFINE A(k) == RestOf(Created, par, Ahead(k))
           B(k) == RestOf(Created, par, Ahead(k)')
<1>11. A(Depth) = {n} \cup B(Depth) /\ \A k \in 1..Depth : k # Depth => A(k) = B(k)
  BY <1>6, <1>9
<1>12. \A m : m \in Pending(par2)' <=> \E k \in 1..Depth : m \in B(k)
  <2>1. Pending(par2)' = {m \in Created' : \E k \in 1..Depth' : m \in RestOf(Created', par2, Ahead(k)')}
    BY DEF Pending
  <2>2. \A k \in 1..Depth : RestOf(Created', par2, Ahead(k)') = B(k)
    BY <1>7, <1>8
  <2>3. Created \subseteq Created'
    BY DEF Rebuilt, Moves
  <2> HIDE DEF B
  <2>4. \A k \in 1..Depth : \A m \in B(k) : m \in Created
    BY <1>10 DEF B
  <2> QED BY <1>2, <2>1, <2>2, <2>3, <2>4
<1>13. \A m : m \in Pending(par) <=> m \in Created /\ \E k \in 1..Depth : m \in A(k)
  BY DEF Pending
<1>14. \A k \in 1..Depth : \A m \in B(k) : m \in Created /\ n < m
  BY <1>10
<1> HIDE DEF A, B
<1>15. \A m \in Pending(par) : m = n \/ m \in Pending(par2)'
  BY <1>11, <1>12, <1>13
<1>16. \A m \in Pending(par2)' : m \in Pending(par) /\ n < m
  <2> TAKE m \in Pending(par2)'
  <2>1. PICK k \in 1..Depth : m \in B(k)
    BY <1>12
  <2>2. m \in A(k)
    BY <1>11, <2>1
  <2> QED BY <1>13, <1>14, <2>1, <2>2
<1>17. n \in Pending(par)
  BY <1>1, <1>3, <1>11, <1>13
<1>18. \A m \in Pending(par) : n <= m
  BY <1>3, <1>4, <1>13, <1>15, <1>16
<1> QED BY <1>15, <1>16, <1>17, <1>18
-----------------------------------------------------------------------------
\* The closing tokens that PairingIsMaximal is about, which no condition keeps
\* from closing, with the opener each one looks for, the pairs it makes and the pass that looks for them
MateOf == [add_close |-> "add_open", brr |-> "brl", parr |-> "parl"]
PairsOf == [add_close |-> {"p_add"}, brr |-> {"p_bracket", "p_footnote", "p_glossary"},
            parr |-> {"p_paren"}]
Closing == {"add_close", "brr", "parr"}
Opening == {"add_open", "brl", "parl"}
PassOf(t) == IF t = "add_close" THEN 1 ELSE 3

Visited(par, c) == pass > PassOf(type[c]) \/ (pass = PassOf(type[c]) /\ c \notin Pending(par))
Paired(c) == \E q \in Created : next[q] = c /\ type[q] \in PairsOf[type[c]]

\* A closing token that was visited with an opener in front of it is paired.
Maximal(par) ==
    \A x, c \in Created :
        type[c] \in Closing /\ type[x] = MateOf[type[c]] /\ x < c /\ par[x] = par[c] /\ Visited(par, c)
            => Paired(c)

\* An opener that was visited and whose chain is walked waits on the stack.
Stacked(par) ==
    pass < 4 =>
        \A k \in 1..Depth : \A x \in Created :
            type[x] \in Opening /\ par[x] = ParentOf(k) /\ x \notin Pending(par)
                => \E i \in First(k)..Last(k) : stack[i] = x

\* The pairs whose children are never visited are made in the pass that goes on.
Entered(par) ==
    \A m \in Created :
        type[m] \in PairTypes \ Descendable => pass > 3 \/ (pass = 3 /\ m \notin Pending(par))

Complete(par) == Maximal(par) /\ Stacked(par) /\ Entered(par)

\* What a visit of n has to do for that, where o is the opener it pairs, or n
Serves(o, size, push) ==
    /\ o = n => type'[n] = type[n] \/ (pass > 3 /\ type[n] = "sup" /\ type'[n] = "p_sup")
    /\ o # n => /\ Closes /\ o = opener
                /\ type[o] \notin PairTypes /\ type'[o] \in PairTypes /\ type[n] \notin Opening
                /\ type'[o] \notin Descendable => pass > 1
                /\ type[n] \in Closing => type'[o] \in PairsOf[type[n]]
    /\ o = n /\ type[n] \in Closing /\ pass = PassOf(type[n]) =>
          Tok(n) = 1 \/ \A i \in Segment : type[stack[i]] # MateOf[type[n]]
    /\ pass < 4 => /\ child[n] = NULL \/ type[n] \in PairTypes \ Descendable
                   /\ type[n] \in Opening => push
                   /\ \A i \in 1..Len(stack) : i <= size \/ (o # n /\ o <= stack[i])

\* Brackets and CriticMarkup tokens come from the text and are never made.
LEMMA WatchedStay ==
    ASSUME IInv, \A m \in Nodes : Fits(m), (\A m \in Nodes : Fits(m)'), src' = src,
           NEW par, NEW par2, NEW o, NEW size, NEW push, Moves(par, par2, o), Serves(o, size, push),
           NEW m \in Created'
    PROVE  /\ type'[m] \in Opening \cup Closing => m \in Created /\ type'[m] = type[m]
           /\ pass' = pass /\ pass < 4 /\ type'[m] \in PairTypes /\ m # o => m \in Created /\ type'[m] = type[m]
<1>1. m \in Nodes /\ Fits(m) /\ Fits(m)' /\ Tok(m)' = Tok(m) /\ Scans(m)' = Scans(m) /\ type'[m] # "free"
  BY DEF Created, Nodes, NTok, Tok, Scans, Indentation
<1> DEFINE watched == Opening \cup Closing
           s == src[Tok(m)]
<1>2. type'[m] \in watched => s \notin {"sup", "qx", "word"}
  BY <1>1 DEF Fits, Opening, Closing
<1>3. pass' = pass /\ pass < 4 /\ type'[m] \in PairTypes => s \notin {"sup", "qx", "word"}
  <2>1. pass' = pass /\ pass < 4 => type'[m] # "p_sup"
    BY <1>1 DEF Fits
  <2> QED BY <1>1, <2>1 DEF Fits, PairTypes
<1>4. s \notin {"sup", "qx", "word"} => m \in Created
  BY <1>1 DEF Fits, Created
<1>5. m \in Created /\ s \notin {"sup", "qx", "word"} => type'[m] = type[m] \/ m = o
  BY DEF Moves
<1>6. m = o /\ type'[m] \in watched => type'[m] = type[m]
  <2>1. PairTypes \cap watched = {} /\ "p_sup" \notin watched
    BY DEF PairTypes, Opening, Closing
  <2>2. CASE o = n
    BY <2>1, <2>2 DEF Serves
  <2>3. CASE o # n
    BY <2>1, <2>3 DEF Serves
  <2> HIDE DEF watched
  <2> QED BY <2>2, <2>3
<1> HIDE DEF s
<1> QED BY <1>2, <1>3, <1>4, <1>5, <1>6

\* What was paired remains so, and what the visit pairs becomes so.
LEMMA PairedStay ==
    ASSUME IInv, \A m \in Nodes : Fits(m), n \in Created,
           NEW par, NEW par2, NEW o, NEW size, NEW push, Moves(par, par2, o), Serves(o, size, push),
           o \in Created,
           NEW c \in Created, type[c] \in Closing, type'[c] = type[c],
           Paired(c) \/ (c = n /\ o # n)
    PROVE  Paired(c)'
<1> DEFINE pairs == PairsOf[type[c]]
<1>1. pairs \subseteq PairTypes \ {"p_sup"}
  BY DEF PairsOf, Closing, PairTypes
<1>2. pairs = (PairsOf[type[c]])'
  BY DEF PairsOf
<1>3. SUFFICES \E q \in Created' : next'[q] = c /\ type'[q] \in pairs
  BY <1>2 DEF Paired
<1>4. CASE c = n /\ o # n
  <2>1. next'[o] = n /\ o \in Created' /\ type'[o] \in pairs
    BY <1>4 DEF Moves, Serves
  <2> QED BY <1>4, <2>1
<1>5. CASE ~(c = n /\ o # n)
  <2>1. PICK q \in Created : next[q] = c /\ type[q] \in pairs
    BY <1>5 DEF Paired
  <2>2. type[q] \in PairTypes /\ type[q] # "p_sup"
    BY <1>1, <2>1
  <2>3. src[Tok(q)] \notin {"sup", "qx", "word"}
    <3>1. q \in Nodes /\ Fits(q) /\ type[q] # "free"
      BY DEF Created
    <3> HIDE DEF pairs
    <3> QED BY <2>2, <3>1 DEF Fits, PairTypes
  <2>4. q \in Created'
    BY DEF Moves
  <2>5. CASE o = n
    <3>1. next'[q] = c
      BY <2>1, <2>5 DEF Moves
    <3>2. type'[q] = type[q]
      <4>1. type[n] = "sup" => q # n
        BY <2>2 DEF PairTypes
      <4>2. q # n => type'[q] = type[q]
        BY <2>3, <2>5 DEF Moves
      <4> QED BY <2>5, <4>1, <4>2 DEF Serves
    <3> QED BY <2>1, <2>4, <3>1, <3>2
  <2>6. CASE o # n
    <3>1. q # o /\ c # n
      BY <1>5, <2>2, <2>6 DEF Serves
    <3>2. next'[q] = next[q] /\ type'[q] = type[q]
      BY <2>1, <2>3, <3>1 DEF Moves
    <3> QED BY <2>1, <2>4, <3>2
  <2> QED BY <2>5, <2>6
<1> QED BY <1>4, <1>5
-----------------------------------------------------------------------------
\* A visit of a node, with the opener o it pairs, or n, and what it makes of the tree
Visit(par, par2, o, openers, size, push) ==
    /\ IInv /\ (\A m \in Nodes : Fits(m)) /\ (\A m \in Nodes : Fits(m)')
    /\ Shaped(par) /\ Placed(par) /\ Complete(par)
    /\ frames # <<>> /\ n # NULL
    /\ size \in Top.start..Len(stack) /\ push \in BOOLEAN
    /\ Settle(openers, size, push)
    /\ o \in Nat /\ o <= n /\ ParentOf(Depth) < o
    /\ Rebuilt(par, par2, o) /\ Serves(o, size, push)

\* Where these nodes are, and what is left to visit
LEMMA VisitNodes ==
    ASSUME NEW par, NEW par2, NEW o, NEW openers, NEW size, NEW push,
           Visit(par, par2, o, openers, size, push)
    PROVE  /\ n \in Created /\ par[n] = ParentOf(Depth) /\ o \in Created /\ par[o] = par[n]
           /\ o # n => child[o] = NULL
           /\ \A m \in Created : m \in Nat /\ par[m] \in Nat
           /\ src' = src /\ pass' = pass
           /\ \A x, y \in Created : par2[x] = par2[y] => par[x] = par[y]
           /\ pass < 4 => /\ \A m \in Pending(par) : n <= m /\ (m = n \/ m \in Pending(par2)')
                          /\ n \in Pending(par)
                          /\ \A m \in Pending(par2)' : m \in Pending(par) /\ n < m
<1> USE DEF Visit
<1>1. n \in Created /\ par[n] = ParentOf(Depth)
  BY CallersInFront
<1>2. o \in Created /\ par[o] = par[n] /\ (o # n => child[o] = NULL)
  <2>1. CASE o = n
    BY <1>1, <2>1
  <2>2. CASE o # n
    <3>1. Closes /\ o = opener
      BY <2>2 DEF Serves
    <3>2. opener \in Created /\ par[opener] = par[n] /\ child[opener] = NULL
      BY <3>1, ClosedPlace
    <3> HIDE DEF opener
    <3> QED BY <3>1, <3>2
  <2> QED BY <2>1, <2>2
<1>3. \A m \in Created : m \in Nat /\ par[m] \in Nat
  BY DEF Shaped, Tree, Preorder
<1>4. src' = src /\ pass' = pass
  BY DEF Settle
<1>5. ASSUME NEW x \in Created, NEW y \in Created, par2[x] = par2[y] PROVE par[x] = par[y]
  <2>1. \A m \in Created : par2[m] = IF m \in Adopted(Created, par, o, n) THEN o ELSE par[m]
    BY DEF Rebuilt, Moves
  <2>2. \A m \in Adopted(Created, par, o, n) : par[m] = par[o] /\ o # n
    BY <1>1, <1>3 DEF Adopted
  <2>3. o # n => \A m \in Created : par[m] # o
    BY <1>2 DEF Shaped, Tree, Heads, NULL
  <2> QED BY <1>5, <2>1, <2>2, <2>3
<1>6. n \in Pending(par)
  <2>1. Depth \in 1..Depth /\ Ahead(Depth) = n
    BY VisitFacts DEF Ahead, n, Top
  <2>2. n # 0 /\ n \in Rest(Created, par, n)
    <3>1. n \in Nat /\ \A j \in Created : ~(n < j /\ j <= n)
      BY <1>1, <1>3
    <3> QED BY <1>1, <3>1 DEF Rest, NULL
  <2> QED BY <1>1, <2>1, <2>2 DEF Pending, RestOf
<1>7. pass < 4 => child[n] = NULL
  <2>1. pass < 4 /\ type[n] \in PairTypes \ Descendable => pass > 3
    BY <1>1, <1>6 DEF Complete, Entered
  <2>2. pass \in {1, 3, 4, 5}
    BY DEF IInv, TypeOK
  <2> QED BY <2>1, <2>2 DEF Serves
<1>8. ASSUME pass < 4
      PROVE  /\ \A m \in Pending(par) : n <= m /\ (m = n \/ m \in Pending(par2)')
             /\ \A m \in Pending(par2)' : m \in Pending(par) /\ n < m
  BY <1>7, <1>8, VisitPending
<1> QED BY <1>1, <1>2, <1>3, <1>4, <1>5, <1>6, <1>8

\* A closing token with an opener in front of it finds one on the stack.
LEMMA VisitMaximal ==
    ASSUME NEW par, NEW par2, NEW o, NEW openers, NEW size, NEW push,
           Visit(par, par2, o, openers, size, push)
    PROVE  Maximal(par2)'
<1>1. /\ n \in Created /\ par[n] = ParentOf(Depth) /\ o \in Created
      /\ \A m \in Created : m \in Nat
      /\ src' = src /\ pass' = pass
      /\ \A x, y \in Created : par2[x] = par2[y] => par[x] = par[y]
  BY VisitNodes
<1>2. ASSUME NEW x \in Created', NEW c \in Created',
             type'[c] \in Closing, type'[x] = (MateOf[type[c]])', x < c, par2[x] = par2[c], Visited(par2, c)'
      PROVE  Paired(c)'
  <2>1. x \in Created /\ c \in Created /\ type[x] = type'[x] /\ type[c] = type'[c]
        /\ type[x] = MateOf[type[c]] /\ type[c] \in Closing
    <3>1. type'[x] = MateOf[type'[c]]
      BY <1>2
    <3>2. \A t \in Closing : MateOf[t] \in Opening
      BY DEF Closing, Opening, MateOf
    <3>3. type'[x] \in Opening
      BY <1>2, <3>1, <3>2
    <3>4. \A m \in Created' : type'[m] \in Opening \cup Closing => m \in Created /\ type'[m] = type[m]
      BY <1>1, WatchedStay DEF Visit, Rebuilt
    <3> QED BY <1>2, <3>1, <3>3, <3>4
  <2>2. par[x] = par[c]
    BY <1>1, <1>2, <2>1
  <2>3. SUFFICES Paired(c) \/ (c = n /\ o # n)
    <3>1. Moves(par, par2, o) /\ Serves(o, size, push) /\ IInv /\ \A m \in Nodes : Fits(m)
      BY DEF Visit, Rebuilt
    <3> QED BY <1>1, <2>1, <3>1, PairedStay
  <2>4. CASE Visited(par, c)
    BY <1>2, <2>1, <2>2, <2>4 DEF Visit, Complete, Maximal
  <2>5. CASE ~Visited(par, c) /\ o = n
    <3>1. pass = PassOf(type[c]) /\ c = n /\ pass < 4
      <4>1. PassOf(type[c]) \in {1, 3} /\ pass \in {1, 3, 4, 5}
        BY DEF PassOf, Visit, IInv, TypeOK
      <4>2. Visited(par2, c)' <=> \/ pass > PassOf(type[c])
                                  \/ (pass = PassOf(type[c]) /\ c \notin Pending(par2)')
        BY <1>1, <2>1 DEF Visited, PassOf
      <4>3. pass = PassOf(type[c]) /\ c \in Pending(par) /\ c \notin Pending(par2)'
        BY <1>2, <2>5, <4>2 DEF Visited
      <4>4. pass < 4
        BY <4>1, <4>3
      <4> QED BY <4>3, <4>4, VisitNodes
    <3>2. x \notin Pending(par)
      <4>1. \A m \in Pending(par) : n <= m
        BY <3>1, VisitNodes
      <4>2. x \in Nat /\ n \in Nat
        BY <1>1, <2>1
      <4> QED BY <1>2, <3>1, <4>1, <4>2
    <3>3. Depth \in 1..Depth /\ Segment = First(Depth)..Last(Depth)
      BY VisitFacts DEF Visit, First, Last, Segment, Top
    <3>4. type[x] \in Opening
      BY <2>1 DEF Closing, Opening, MateOf
    <3>5. \E i \in First(Depth)..Last(Depth) : stack[i] = x
      BY <1>1, <2>1, <2>2, <3>1, <3>2, <3>3, <3>4 DEF Visit, Complete, Stacked
    <3>6. Tok(n) # 1
      <4>1. ASSUME Tok(n) = 1 PROVE FALSE
        <5>1. x = 2 /\ n = 3
          <6>1. x \in Nat \ {0, 1} /\ n \in Nat /\ x < n
            BY <1>1, <1>2, <2>1, <3>1 DEF Visit, Shaped, Tree, Preorder
          <6>2. n < 4
            BY <4>1, <6>1 DEF Tok
          <6> QED BY <6>1, <6>2
        <5>2. n \in Nodes /\ x \in Nodes /\ Fits(x) /\ Fits(n) /\ type[n] # "free" /\ Tok(x) = 1
          BY <1>1, <2>1, <5>1 DEF Created, Visit, Tok
        <5>3. ~Scans(n)
          BY <5>1 DEF Scans
        <5>4. src[1] \in {"sup", "qx"}
          BY <4>1, <5>2, <5>3 DEF Fits
        <5> QED BY <3>4, <5>2, <5>4 DEF Fits, Opening
      <4> QED BY <4>1
    <3>7. \A i \in Segment : type[stack[i]] # MateOf[type[n]]
      BY <2>1, <2>5, <3>1, <3>6 DEF Visit, Serves
    <3> QED BY <2>1, <3>1, <3>3, <3>5, <3>7
  <2>6. CASE ~Visited(par, c) /\ o # n
    <3>1. c = n
      <4>1. PassOf(type[c]) \in {1, 3} /\ pass \in {1, 3, 4, 5}
        BY DEF PassOf, Visit, IInv, TypeOK
      <4>2. Visited(par2, c)' <=> \/ pass > PassOf(type[c])
                                  \/ (pass = PassOf(type[c]) /\ c \notin Pending(par2)')
        BY <1>1, <2>1 DEF Visited, PassOf
      <4>3. pass = PassOf(type[c]) /\ c \in Pending(par) /\ c \notin Pending(par2)'
        BY <1>2, <2>6, <4>2 DEF Visited
      <4>4. pass < 4
        BY <4>1, <4>3
      <4> QED BY <4>3, <4>4, VisitNodes
    <3> QED BY <2>6, <3>1
  <2> QED BY <2>4, <2>5, <2>6
<1> QED BY <1>2 DEF Maximal
-----------------------------------------------------------------------------
\* What a visit pops is inside the pair it makes.
LEMMA VisitStacked ==
    ASSUME NEW par, NEW par2, NEW o, NEW openers, NEW size, NEW push,
           Visit(par, par2, o, openers, size, push)
    PROVE  Stacked(par2)'
<1>1. /\ n \in Created /\ par[n] = ParentOf(Depth) /\ o \in Created /\ par[o] = par[n]
      /\ \A m \in Created : m \in Nat /\ par[m] \in Nat
      /\ src' = src /\ pass' = pass
  BY VisitNodes
<1>2. SUFFICES ASSUME pass < 4, NEW k \in 1..Depth', NEW x \in Created',
                      type'[x] \in Opening, par2[x] = ParentOf(k)', x \notin Pending(par2)'
               PROVE  \E i \in First(k)'..Last(k)' : stack'[i] = x
  BY <1>1 DEF Stacked
<1>3. /\ Len(stack') = (IF push THEN size + 1 ELSE size)
      /\ \A i \in 1..size : stack'[i] = stack[i]
      /\ push => stack'[size + 1] = n
      /\ Depth' = Depth
      /\ \A j \in 1..Depth : First(j)' = First(j) /\ First(j) = frames[j].start + 1
      /\ Last(Depth)' = Len(stack') /\ Last(Depth) = Len(stack)
      /\ \A j \in 1..Depth : j # Depth => Last(j)' = Last(j) /\ Last(j) \in Nat /\ Last(j) <= Top.start
      /\ \A j \in 1..Depth : ParentOf(j)' = ParentOf(j)
  BY SettledActivations DEF Visit
<1>4. /\ Depth \in Nat \ {0} /\ Depth \in 1..Depth /\ frames[Depth] = Top /\ Len(stack) \in Nat
      /\ Top.start \in Nat /\ size \in Nat /\ Top.start <= size /\ size <= Len(stack)
      /\ \A i \in 1..Len(stack) : stack[i] < n
      /\ \A j \in 1..Depth : frames[j].start \in Nat
  BY VisitFacts DEF Visit, Top
<1>5. x \in Created /\ type[x] \in Opening /\ type'[x] = type[x]
  BY <1>1, <1>2, WatchedStay DEF Visit, Rebuilt
<1>6. \A j \in 1..Depth : j # Depth => ParentOf(j) < ParentOf(Depth) /\ ParentOf(j) \in Nat
  <2> TAKE j \in 1..Depth
  <2> HAVE j # Depth
  <2>1. frames[j].node \in Created /\ frames[j].node <= ParentOf(Depth)
    BY CallersInFront DEF Visit
  <2>2. frames[j].node # NULL
    <3>1. frames[j].node \in Created /\ 0 \notin Created /\ NULL = 0
      BY <2>1 DEF Visit, Shaped, Tree, Preorder, NULL
    <3> QED BY <3>1
  <2>3. par[frames[j].node] = ParentOf(j)
    BY <2>2 DEF Visit, Placed, PlacedAt
  <2>4. par[frames[j].node] < frames[j].node
    BY <2>1 DEF Visit, Shaped, Tree, Preorder
  <2>5. ParentOf(Depth) \in Nat /\ ParentOf(j) \in Nat /\ frames[j].node \in Nat
    BY <1>1, <2>1, <2>3
  <2> QED BY <2>1, <2>3, <2>4, <2>5
<1>7. k \in 1..Depth /\ ParentOf(k)' = ParentOf(k) /\ ParentOf(k) <= ParentOf(Depth) /\ ParentOf(Depth) < o
      /\ ParentOf(Depth) \in Nat
  <2>1. k \in 1..Depth /\ ParentOf(k)' = ParentOf(k) /\ ParentOf(Depth) \in Nat
    BY <1>1, <1>2, <1>3
  <2>2. k = Depth \/ (ParentOf(k) < ParentOf(Depth) /\ ParentOf(k) \in Nat)
    BY <1>6, <2>1
  <2>3. ParentOf(k) <= ParentOf(Depth)
    <3>1. CASE k = Depth
      BY <2>1, <3>1
    <3>2. CASE k # Depth
      BY <2>1, <2>2, <3>2
    <3> QED BY <3>1, <3>2
  <2> QED BY <2>1, <2>3 DEF Visit
<1>8. par[x] = ParentOf(k) /\ x \notin Adopted(Created, par, o, n)
  <2>1. par2[x] = IF x \in Adopted(Created, par, o, n) THEN o ELSE par[x]
    BY <1>5 DEF Visit, Rebuilt, Moves
  <2>2. par2[x] # o
    <3>1. par2[x] = ParentOf(k)
      BY <1>2, <1>7
    <3>2. o \in Nat
      BY <1>1
    <3>3. ParentOf(k) # o
      <4>1. CASE k = Depth
        BY <1>7, <3>2, <4>1
      <4>2. CASE k # Depth
        <5>1. ParentOf(k) < ParentOf(Depth)
          BY <1>6, <1>7, <4>2
        <5> QED BY <1>7, <3>2, <5>1
      <4> QED BY <4>1, <4>2
    <3> QED BY <3>1, <3>3
  <2> QED BY <1>2, <1>7, <2>1, <2>2
<1>9. CASE x = n
  <2>1. push /\ o = n
    <3>1. type[n] \in Opening
      BY <1>5, <1>9
    <3> QED BY <1>2, <3>1 DEF Visit, Serves
  <2>2. k = Depth
    <3>1. ParentOf(k) = ParentOf(Depth)
      BY <1>1, <1>8, <1>9
    <3>2. k # Depth => ParentOf(k) < ParentOf(Depth)
      BY <1>6, <1>7
    <3> QED BY <1>7, <3>1, <3>2
  <2>3. size + 1 \in First(k)'..Last(k)' /\ stack'[size + 1] = n
    <3>1. First(k)' = Top.start + 1
      BY <1>3, <1>4, <1>7, <2>2
    <3>2. Last(k)' = size + 1
      BY <1>3, <2>1, <2>2
    <3> QED BY <1>3, <1>4, <2>1, <3>1, <3>2
  <2> QED BY <1>9, <2>3
<1>10. CASE x # n
  <2>1. x \notin Pending(par)
    <3>1. \A m \in Pending(par) : m = n \/ m \in Pending(par2)'
      BY <1>2, VisitNodes
    <3> QED BY <1>2, <1>10, <3>1
  <2>2. PICK i \in First(k)..Last(k) : stack[i] = x
    BY <1>2, <1>5, <1>7, <1>8, <2>1 DEF Visit, Complete, Stacked
  <2>3. First(k)' = First(k) /\ First(k) \in Nat \ {0}
    <3>1. frames[k].start \in Nat
      BY <1>4, <1>7
    <3> QED BY <1>3, <1>7, <3>1
  <2>4. CASE k # Depth
    <3>1. Last(k)' = Last(k) /\ Last(k) <= Top.start /\ Last(k) \in Nat
      BY <1>3, <1>7, <2>4
    <3>2. i \in 1..size /\ i \in First(k)'..Last(k)'
      BY <1>4, <2>2, <2>3, <3>1
    <3> QED BY <1>3, <2>2, <3>2
  <2>5. CASE k = Depth
    <3>1. First(k) = Top.start + 1 /\ Last(k) = Len(stack)
      BY <1>3, <1>4, <2>5
    <3>2. i \in 1..Len(stack) /\ i >= Top.start + 1 /\ i \in Nat
      BY <1>4, <2>2, <3>1
    <3>3. CASE i <= size
      <4>1. i \in 1..size /\ Last(k)' = Len(stack')
        BY <1>3, <1>4, <2>5, <3>2, <3>3
      <4>2. size <= Len(stack') /\ Len(stack') \in Nat
        BY <1>3, <1>4
      <4>3. i \in First(k)'..Last(k)'
        BY <1>4, <2>2, <2>3, <3>1, <3>2, <3>3, <4>1, <4>2
      <4> QED BY <1>3, <2>2, <4>1, <4>3
    <3>4. CASE ~(i <= size)
      <4>1. o # n /\ o <= x /\ x < n
        BY <1>2, <1>4, <2>2, <3>2, <3>4 DEF Visit, Serves
      <4>2. x # o
        <5>1. type'[o] \in PairTypes
          BY <4>1 DEF Visit, Serves
        <5>2. type'[x] \notin PairTypes
          BY <1>2 DEF Opening, PairTypes
        <5> QED BY <5>1, <5>2
      <4>3. par[x] = par[o]
        BY <1>1, <1>8, <2>5
      <4>4. x \in Nat /\ o \in Nat
        BY <1>1, <1>5
      <4>5. x \in Adopted(Created, par, o, n)
        BY <1>5, <4>1, <4>2, <4>3, <4>4 DEF Adopted
      <4> QED BY <1>8, <4>5
    <3> QED BY <3>3, <3>4
  <2> QED BY <2>4, <2>5
<1> QED BY <1>9, <1>10

\* A pair that is not entered was made by this pass, behind which it goes on.
LEMMA VisitEntered ==
    ASSUME NEW par, NEW par2, NEW o, NEW openers, NEW size, NEW push,
           Visit(par, par2, o, openers, size, push)
    PROVE  Entered(par2)'
<1>1. /\ n \in Created /\ o \in Created /\ src' = src /\ pass' = pass
      /\ \A m \in Created : m \in Nat
      /\ PairTypes' = PairTypes /\ Descendable' = Descendable
  BY VisitNodes DEF PairTypes, Descendable
<1>2. pass \in {1, 3, 4, 5}
  BY DEF Visit, IInv, TypeOK
<1>3. SUFFICES ASSUME NEW m \in Created', type'[m] \in PairTypes \ Descendable, pass < 4
               PROVE  pass = 3 /\ m \notin Pending(par2)'
  BY <1>1, <1>2 DEF Entered
<1>4. \A j \in Pending(par2)' : j \in Pending(par) /\ n < j
  BY <1>3, VisitNodes
<1>5. CASE m = o
  <2>1. CASE o # n
    <3>1. pass > 1
      BY <1>3, <1>5, <2>1 DEF Visit, Serves
    <3>2. o <= n /\ o \in Nat /\ n \in Nat
      BY <1>1 DEF Visit
    <3> QED BY <1>2, <1>3, <1>4, <1>5, <3>1, <3>2
  <2>2. CASE o = n
    <3>1. type[n] = type'[n]
      BY <1>2, <1>3, <2>2 DEF Visit, Serves
    <3> QED BY <1>1, <1>2, <1>3, <1>4, <1>5, <2>2, <3>1 DEF Visit, Complete, Entered
  <2> QED BY <2>1, <2>2
<1>6. CASE m # o
  <2>1. m \in Created /\ type'[m] = type[m]
    BY <1>1, <1>3, <1>6, WatchedStay DEF Visit, Rebuilt
  <2> QED BY <1>2, <1>3, <1>4, <2>1 DEF Visit, Complete, Entered
<1> QED BY <1>5, <1>6

\* So a visit keeps the tree as complete as it was.
LEMMA VisitComplete ==
    ASSUME NEW par, NEW par2, NEW o, NEW openers, NEW size, NEW push,
           Visit(par, par2, o, openers, size, push)
    PROVE  Complete(par2)'
<1>1. Maximal(par2)' /\ Stacked(par2)' /\ Entered(par2)'
  BY VisitMaximal, VisitStacked, VisitEntered
<1> QED BY <1>1 DEF Complete
-----------------------------------------------------------------------------
(* Each visit serves.                                                      *)

\* What the tables of rules say of brackets, parentheses and CriticMarkup
LEMMA TableFacts ==
    ASSUME pass \in {1, 3, 4, 5}, NEW t
    PROVE  /\ RuleOf(t).mate # "none" => t \notin Opening /\ t \notin PairTypes
           /\ pass = 1 /\ RuleOf(t).mate # "none" =>
                 RuleOf(t).pair \in Descendable /\ "subtypes" \notin RuleOf(t).conditions
           /\ t \in Closing /\ pass = PassOf(t) =>
                 /\ RuleOf(t).mate = MateOf[t] /\ RuleOf(t).mate # "none"
                 /\ RuleOf(t).conditions \subseteq {"subtypes"}
           /\ t \in Closing /\ RuleOf(t).mate # "none" =>
                 RuleOf(t).pair \in PairsOf[t] /\ ("subtypes" \in RuleOf(t).conditions => t = "brr")
           /\ t = "sup" /\ RuleOf(t).mate # "none" => pass > 3
<1> USE DEF RuleOf, Pairings, NoRule, Rule, Opening, Closing, PairTypes, Descendable, PassOf, MateOf, PairsOf
<1>1. CASE pass = 1
  BY <1>1 DEF pairings1
<1>2. CASE pass = 3
  BY <1>2 DEF pairings3
<1>3. CASE pass \in {4, 5}
  BY <1>3 DEF pairings4, flanking
<1> QED BY <1>1, <1>2, <1>3

\* A step that pops nothing serves, unless it visits a closing token.
LEMMA PassServes ==
    ASSUME IInv, \A m \in Nodes : Fits(m), frames # <<>>, n \in Nodes, NEW push \in BOOLEAN,
           type' = type, type[n] \notin Closing, type[n] \in Opening => push,
           type[n] \in Descendable => child[n] = NULL
    PROVE  Serves(n, Len(stack), push)
<1>1. type[n] \notin PairTypes => child[n] = NULL
  BY DEF Fits
<1>2. Descendable \subseteq PairTypes
  BY DEF Descendable, PairTypes
<1>3. Len(stack) \in Nat
  BY VisitFacts
<1> HIDE DEF n
<1> QED BY <1>1, <1>2, <1>3 DEF Serves

\* A closing token that finds no opener has none in its segment of the stack.
LEMMA UnpairedServes ==
    ASSUME IInv, \A m \in Nodes : Fits(m), frames # <<>>, n \in Nodes, NEW push \in BOOLEAN,
           type' = type, Handled \/ type[n] \notin Opening \cup PairTypes, ~Closes
    PROVE  Serves(n, Left, push)
<1>1. pass \in {1, 3, 4, 5}
  BY DEF IInv, TypeOK
<1>2. type[n] \notin Opening \cup PairTypes
  BY <1>1, TableFacts DEF Handled, rule
<1>3. child[n] = NULL
  BY <1>2 DEF Fits
<1>4. type[n] # "sup" \/ pass < 4 => ~Attempts
  <2>1. type[n] # "sup" => ~Attempts
    BY AttemptSucceeds
  <2>2. type[n] = "sup" /\ Attempts => pass > 3
    BY <1>1, TableFacts DEF Attempts, Handled, rule
  <2> QED BY <1>1, <2>1, <2>2
<1>5. pass < 4 => Left = Len(stack)
  BY <1>4 DEF Left
<1>6. Len(stack) \in Nat
  BY VisitFacts
<1>7. ASSUME type[n] \in Closing, pass = PassOf(type[n]), Tok(n) # 1
      PROVE  \A i \in Segment : type[stack[i]] # MateOf[type[n]]
  <2>1. Handled /\ rule.mate = MateOf[type[n]] /\ rule.conditions \subseteq {"subtypes"}
    BY <1>1, <1>7, TableFacts DEF Handled, rule
  <2>2. token_can_close(n)
    <3>1. Tok(n) \in Nat \ {0}
      BY NodesAreNumbers DEF IInv
    <3> QED BY <1>7, <2>1, <3>1 DEF token_can_close, LeftEdge, rule
  <2>3. ~Attempts
    BY <1>4, <1>7 DEF Closing
  <2>4. ~(Top.openers[rule.mate] > 0)
    BY <2>1, <2>2, <2>3 DEF Attempts, Demands
  <2>5. rule.mate \in OpenTypes
    BY <2>1, RuleFacts DEF Handled, rule
  <2> DEFINE mates == {i \in (Top.start + 1)..Len(stack) : type[stack[i]] = rule.mate}
  <2>6. Cardinality(mates) = 0
    <3>1. Top.openers[rule.mate] \in Nat /\ Top.openers[rule.mate] = Cardinality(mates)
      BY <2>5, VisitFacts
    <3> QED BY <2>4, <3>1
  <2>7. IsFiniteSet(mates)
    <3>1. IsFiniteSet((Top.start + 1)..Len(stack))
      <4>1. Top.start + 1 \in Int /\ Len(stack) \in Int
        BY <1>6, VisitFacts
      <4> QED BY <4>1, FS_Interval
    <3>2. mates \subseteq (Top.start + 1)..Len(stack)
      OBVIOUS
    <3> QED BY <3>1, <3>2, FS_Subset
  <2>8. mates = {}
    <3> HIDE DEF mates
    <3> QED BY <2>6, <2>7, FS_EmptySet
  <2> QED BY <2>1, <2>8 DEF Segment
<1> HIDE DEF n, Left
<1> QED BY <1>2, <1>3, <1>5, <1>6, <1>7 DEF Serves

\* A pair takes the entries off the stack that lie inside it.
LEMMA PairedServes ==
    ASSUME IInv, \A m \in Nodes : Fits(m), frames # <<>>, n # NULL, NEW push \in BOOLEAN, Closes,
           Join(opener) \/ (type[n] = "backtick" /\ JoinCodeSpan(opener))
    PROVE  Serves(opener, Left, push)
<1>1. pass \in {1, 3, 4, 5}
  BY DEF IInv, TypeOK
<1>2. /\ opener \in Nodes /\ opener < n /\ n \in Nodes /\ opener \in Nat /\ n \in Nat
  BY OpenerFacts, NodesAreNumbers DEF IInv
<1>3. /\ rule.mate # "none" /\ rule = RuleOf(type[n])
      /\ type[opener] = rule.mate /\ rule.mate \notin PairTypes /\ rule.pair \in PairTypes
  BY OpenerIsMate DEF Closes, Attempts, Handled, rule
<1>4. type[n] \notin Opening /\ type[n] \notin PairTypes
  BY <1>1, <1>3, TableFacts
<1>5. child[n] = NULL
  BY <1>2, <1>4 DEF Fits
<1> DEFINE pair == IF Demands("subtypes") THEN Subtype(opener) ELSE rule.pair
<1>6. \/ type'[opener] = pair
      \/ type'[opener] = rule.pair /\ type[n] = "backtick"
  <2>1. CASE Join(opener)
    <3> DEFINE c == next[opener]
               marked == pair \in {"p_footnote", "p_glossary"}
               split == marked /\ len[c] > 1
    <3>2. type' = [m \in Nodes |-> CASE m = opener -> pair
                                    [] marked /\ m = c -> "marker"
                                    [] split /\ m = c + 1 -> type[c]
                                    [] OTHER -> type[m]]
      BY <2>1 DEF Join
    <3>3. opener # c /\ ~(split /\ opener = c + 1)
      <4>1. c \in Ref /\ (c # NULL => c > opener)
        BY <1>2 DEF IInv, LinksGoForward, TypeOK
      <4>2. opener \in Nat \ {0, 1} /\ (c = 0 \/ c \in Nat)
        BY <1>2, <4>1, NodesAreNumbers DEF IInv, Ref, NULL
      <4> HIDE DEF c
      <4> QED BY <4>1, <4>2 DEF NULL
    <3> HIDE DEF pair, marked, split, c
    <3>4. type'[opener] = pair
      BY <1>2, <3>2, <3>3
    <3> QED BY <3>4
  <2>2. CASE type[n] = "backtick" /\ JoinCodeSpan(opener)
    <3>1. type' = [type EXCEPT ![opener] = rule.pair] /\ type \in [Nodes -> Types]
      BY <2>2 DEF JoinCodeSpan, IInv, TypeOK
    <3> QED BY <1>2, <2>2, <3>1
  <2> QED BY <2>1, <2>2
<1>7. /\ type'[opener] \in PairTypes
      /\ type'[opener] \notin Descendable => pass > 1
      /\ type[n] \in Closing => type'[opener] \in PairsOf[type[n]]
  <2>1. Subtype(opener) \in {"p_bracket", "p_footnote", "p_glossary"}
    BY DEF Subtype
  <2>2. \/ type'[opener] = rule.pair
        \/ "subtypes" \in rule.conditions /\ type'[opener] \in {"p_bracket", "p_footnote", "p_glossary"}
    BY <1>6, <2>1 DEF Demands
  <2>3. /\ pass = 1 => rule.pair \in Descendable /\ "subtypes" \notin rule.conditions
        /\ type[n] \in Closing => rule.pair \in PairsOf[type[n]]
                                  /\ ("subtypes" \in rule.conditions => type[n] = "brr")
    BY <1>1, <1>3, TableFacts
  <2>4. {"p_bracket", "p_footnote", "p_glossary"} \subseteq PairTypes
        /\ PairsOf["brr"] = {"p_bracket", "p_footnote", "p_glossary"}
    BY DEF PairTypes, PairsOf
  <2>5. pass = 1 \/ pass > 1
    BY <1>1
  <2> QED BY <1>3, <2>2, <2>3, <2>4, <2>5
<1>8. \A i \in 1..Len(stack) : i <= Left \/ opener <= stack[i]
  <2>1. /\ Left + 1 \in 1..Len(stack) /\ opener = stack[Left + 1] /\ Left \in Nat /\ Len(stack) \in Nat
    BY PopFacts, VisitFacts
  <2>2. \A i, j \in 1..Len(stack) : i < j => stack[i] < stack[j]
    BY DEF IInv, StackOrdered
  <2> TAKE i \in 1..Len(stack)
  <2>3. CASE i = Left + 1
    BY <1>2, <2>1, <2>3
  <2>4. CASE i > Left + 1
    <3>1. opener < stack[i]
      BY <2>1, <2>2, <2>4
    <3>2. stack[i] \in Nat
      BY VisitFacts, NodesAreNumbers DEF IInv
    <3> QED BY <1>2, <3>1, <3>2
  <2>5. i <= Left \/ i = Left + 1 \/ i > Left + 1
    BY <2>1
  <2> QED BY <2>3, <2>4, <2>5
<1>9. opener # n
  BY <1>2
<1> HIDE DEF n, Left, opener, pair
<1> QED BY <1>3, <1>4, <1>5, <1>7, <1>8, <1>9 DEF Serves

\* So does a superscript that stands alone.
LEMMA LeafServes ==
    ASSUME IInv, \A m \in Nodes : Fits(m), frames # <<>>, n \in Nodes, NEW push \in BOOLEAN,
           type[n] = "sup", Handled, Standalone
    PROVE  Serves(n, Left, push)
<1>1. pass \in {1, 3, 4, 5}
  BY DEF IInv, TypeOK
<1>2. pass > 3
  BY <1>1, TableFacts DEF Handled, rule
<1>3. type'[n] = "p_sup"
  <2>1. type' = [type EXCEPT ![n] = "p_sup", ![n + 1] = "text", ![next[n]] = "text"]
    BY DEF Standalone
  <2>2. n # n + 1 /\ n # next[n]
    <3>1. n \in Nat /\ (next[n] # NULL => next[n] > n) /\ n # NULL
      BY NodesAreNumbers DEF IInv, LinksGoForward, NULL
    <3> QED BY <3>1
  <2>3. type \in [Nodes -> Types]
    BY DEF IInv, TypeOK
  <2> HIDE DEF n
  <2> QED BY <2>1, <2>2, <2>3
<1> HIDE DEF n, Left
<1> QED BY <1>1, <1>2, <1>3 DEF Serves, Opening, Closing
-----------------------------------------------------------------------------
(* The other steps.                                                        *)

\* The pairs that pair_emphasis_tokens tells apart
Emphases == {"p_star", "p_ul", "p_strong", "p_emph", "p_star_used", "p_ul_used"}

\* Steps that visit no closing token and no opener leave the pairs as they are.
LEMMA CompleteStays ==
    ASSUME NEW par, Maximal(par), Entered(par), pass' = pass, next' = next, Created' = Created,
           \A m \in Created : type'[m] = type[m] \/ (type[m] \in Emphases /\ type'[m] \in Emphases),
           \A m \in Pending(par)' : m \in Pending(par),
           \A m \in Pending(par) : m \in Pending(par)' \/ type[m] \in Descendable
    PROVE  Maximal(par)' /\ Entered(par)'
<1>1. /\ Emphases \subseteq PairTypes \ Descendable
      /\ Emphases \cap (Opening \cup Closing) = {}
      /\ Descendable \cap Closing = {}
      /\ \A t \in Closing : MateOf[t] \in Opening /\ Emphases \cap PairsOf[t] = {}
  BY DEF Emphases, PairTypes, Descendable, Opening, Closing, MateOf, PairsOf
<1> HIDE DEF Emphases
<1>2. Maximal(par)'
  <2>1. SUFFICES ASSUME NEW x \in Created, NEW c \in Created, type'[c] \in Closing,
                        type'[x] = MateOf[type'[c]], x < c, par[x] = par[c], Visited(par, c)'
                 PROVE  Paired(c)'
    BY DEF Maximal, Closing, MateOf
  <2>2. type[c] = type'[c] /\ type[x] = type'[x]
    BY <1>1, <2>1
  <2>3. Visited(par, c)
    <3>1. c \notin Pending(par)' => c \notin Pending(par)
      BY <1>1, <2>1, <2>2
    <3> QED BY <2>1, <2>2, <3>1 DEF Visited, PassOf
  <2>4. PICK q \in Created : next[q] = c /\ type[q] \in PairsOf[type[c]]
    BY <2>1, <2>2, <2>3 DEF Maximal, Paired
  <2>5. type'[q] = type[q]
    BY <1>1, <2>1, <2>2, <2>4
  <2> QED BY <2>2, <2>4, <2>5 DEF Paired, PairsOf
<1>3. Entered(par)'
  <2>1. SUFFICES ASSUME NEW m \in Created, type'[m] \in PairTypes \ Descendable
                 PROVE  pass > 3 \/ (pass = 3 /\ m \notin Pending(par)')
    BY DEF Entered, PairTypes, Descendable
  <2>2. type[m] \in PairTypes \ Descendable
    BY <1>1, <2>1
  <2> QED BY <2>2 DEF Entered
<1> QED BY <1>2, <1>3

\* What is left to visit depends on the activations and on next only.
LEMMA PendingStays ==
    ASSUME NEW par, frames' = frames, next' = next, Created' = Created, stack' = stack
    PROVE  /\ Pending(par)' = Pending(par) /\ Depth' = Depth
           /\ \A k \in 1..Depth : ParentOf(k)' = ParentOf(k) /\ First(k)' = First(k) /\ Last(k)' = Last(k)
<1>1. Depth' = Depth
  BY DEF Depth
<1>2. \A k \in 1..Depth : Ahead(k)' = Ahead(k)
  BY <1>1 DEF Ahead
<1>3. \A k \in 1..Depth : ParentOf(k)' = ParentOf(k) /\ First(k)' = First(k) /\ Last(k)' = Last(k)
  BY <1>1 DEF ParentOf, First, Last, NULL
<1>4. Pending(par)' = Pending(par)
  BY <1>1, <1>2 DEF Pending
<1> QED BY <1>1, <1>3, <1>4

\* pair_emphasis_tokens, or nothing
LEMMA TypesComplete ==
    ASSUME NEW par, Complete(par), frames' = frames, next' = next, Created' = Created,
           stack' = stack, pass' = pass,
           \A m \in Created : type'[m] = type[m] \/ (type[m] \in Emphases /\ type'[m] \in Emphases)
    PROVE  Complete(par)'
<1>1. /\ Pending(par)' = Pending(par) /\ Depth' = Depth
      /\ \A k \in 1..Depth : ParentOf(k)' = ParentOf(k) /\ First(k)' = First(k) /\ Last(k)' = Last(k)
  BY PendingStays
<1>2. Maximal(par)' /\ Entered(par)'
  BY <1>1, CompleteStays DEF Complete
<1>3. Stacked(par)'
  <2>1. SUFFICES ASSUME pass < 4, NEW k \in 1..Depth, NEW x \in Created,
                        type'[x] \in Opening, par[x] = ParentOf(k), x \notin Pending(par)
                 PROVE  \E i \in First(k)..Last(k) : stack[i] = x
    BY <1>1 DEF Stacked, Opening
  <2>2. type[x] \in Opening
    BY <2>1 DEF Emphases, Opening
  <2> QED BY <2>1, <2>2 DEF Complete, Stacked
<1> QED BY <1>2, <1>3 DEF Complete

\* Where the children of a node are walked, what is pending is what it was
\* but for the node itself.
LEMMA DescendCompletes ==
    ASSUME IInv, Descend, NEW par, Shaped(par), Placed(par), Complete(par)
    PROVE  Complete(par)'
<1>1. /\ frames # <<>> /\ n # NULL /\ child[n] # NULL /\ type[n] \in Descendable
      /\ frames' = Append(frames, Activation(child[n]))
      /\ UNCHANGED <<src, tree, stack, pass, emph>>
  BY DEF Descend, Visiting
<1>2. PICK d \in Nat \ {0} : d = Depth
  BY <1>1, VisitFacts
<1>3. /\ src' = src /\ type' = type /\ next' = next /\ child' = child /\ tail' = tail
      /\ stack' = stack /\ pass' = pass /\ NULL = 0 /\ Created' = Created
  BY <1>1 DEF tree, NULL, Created, Nodes, NTok
<1> DEFINE new == Activation(child[n])
<1>4. new.node = child[n] /\ new.start = Len(stack)
  BY DEF Activation
<1> HIDE DEF new
<1>5. /\ Depth' = d + 1 /\ frames'[d + 1] = new /\ \A k \in 1..d : frames'[k] = frames[k]
      /\ frames[d].node = n /\ frames[d] \in Frame
  <2>1. frames' = Append(frames, new) /\ frames \in Seq(Frame) /\ Len(frames) = d
    BY <1>1, <1>2 DEF new, Depth, IInv, TypeOK
  <2>2. d \in 1..Depth
    BY <1>2
  <2> QED BY <1>1, <1>2, <2>1, <2>2, AppendProperties, VisitFacts DEF Depth, Top, n
<1>6. /\ n \in Created /\ child[n] \in Created /\ par[child[n]] = n
      /\ \A k \in Created : par[k] = n => child[n] <= k
      /\ \A m \in Created : m \in Nat /\ par[m] \in Nat /\ par[m] < m
      /\ \A k, m \in Created : par[k] < m /\ m < k => par[k] <= par[m]
  <2>1. n \in Created
    BY <1>1, CallersInFront
  <2>2. child[n] \in Created /\ par[child[n]] = n /\ \A k \in Created : par[k] = n => child[n] <= k
    BY <1>1, <1>3, <2>1 DEF Shaped, Tree, Heads
  <2> QED BY <2>1, <2>2 DEF Shaped, Tree, Preorder
<1> DEFINE B(x) == RestOf(Created, par, x)
<1>7. /\ Ahead(d) = n /\ Ahead(d)' = next[n] /\ Ahead(d + 1)' = child[n]
      /\ \A k \in 1..d : k # d => Ahead(k)' = Ahead(k)
  <2>1. d + 1 # d /\ d \in 1..d /\ \A k \in 1..d : k # d + 1
    BY <1>2
  <2> QED BY <1>2, <1>3, <1>4, <1>5, <2>1 DEF Ahead
<1>8. B(n) = {n} \cup B(child[n]) \cup B(next[n])
  <2>1. NodeOf(Created, par, child, next, tail, n)
    BY <1>6 DEF NodeOf, Shaped
  <2>2. Rest(Created, par, n) = {n} \cup RestOf(Created, par, child[n]) \cup RestOf(Created, par, next[n])
    <3> HIDE DEF n
    <3> QED BY <2>1, RestSplits
  <2> QED BY <1>1, <1>3, <2>2 DEF RestOf
<1>9. \A m : m \in Pending(par) <=> m \in Created /\ \E k \in 1..d : m \in B(Ahead(k))
  BY <1>2 DEF Pending
<1>10. \A m : m \in Pending(par)' <=> m \in Created /\ \E k \in 1..(d + 1) : m \in B(Ahead(k)')
  BY <1>3, <1>5 DEF Pending
<1> HIDE DEF B
<1>11. ASSUME NEW m \in Pending(par)' PROVE m \in Pending(par)
  <2>1. PICK k \in 1..(d + 1) : m \in B(Ahead(k)')
    BY <1>10
  <2>2. CASE k \in {d, d + 1}
    <3>1. m \in B(n) /\ d \in 1..d
      BY <1>7, <1>8, <2>1, <2>2
    <3> QED BY <1>7, <1>9, <1>10, <3>1
  <2>3. CASE k \notin {d, d + 1}
    <3>1. k \in 1..d
      BY <2>3
    <3> QED BY <1>7, <1>9, <1>10, <2>1, <2>3, <3>1
  <2> QED BY <2>2, <2>3
<1>12. ASSUME NEW m \in Pending(par) PROVE m \in Pending(par)' \/ m = n
  <2>1. PICK k \in 1..d : m \in B(Ahead(k))
    BY <1>9
  <2>2. d \in 1..(d + 1) /\ d + 1 \in 1..(d + 1) /\ k \in 1..(d + 1)
    BY <1>2
  <2> QED BY <1>7, <1>8, <1>9, <1>10, <2>1, <2>2
<1>13. Maximal(par)' /\ Entered(par)'
  <2>1. \A m \in Pending(par) : m \in Pending(par)' \/ type[m] \in Descendable
    BY <1>1, <1>12
  <2> QED BY <1>3, <1>11, <2>1, CompleteStays DEF Complete
<1>14. Stacked(par)'
  <2>1. SUFFICES ASSUME pass < 4, NEW k \in 1..(d + 1), NEW x \in Created,
                        type[x] \in Opening, par[x] = ParentOf(k)', x \notin Pending(par)'
                 PROVE  \E i \in First(k)'..Last(k)' : stack[i] = x
    BY <1>3, <1>5 DEF Stacked, Opening
  <2>2. CASE k # d + 1
    <3>1. k \in 1..d /\ (k # 1 => k - 1 \in 1..d) /\ (k # d => k + 1 \in 1..d) /\ d + 1 # 1
      BY <2>2
    <3>2. ParentOf(k)' = ParentOf(k) /\ First(k)' = First(k)
      BY <1>3, <1>5, <3>1 DEF ParentOf, First
    <3>3. Last(k)' = Last(k)
      <4>1. CASE k = d
        BY <1>2, <1>3, <1>4, <1>5, <2>2, <4>1 DEF Last
      <4>2. CASE k # d
        BY <1>2, <1>5, <2>2, <3>1, <4>2 DEF Last
      <4> QED BY <4>1, <4>2
    <3>4. x \notin Pending(par)
      <4>1. type[n] \notin Opening
        BY <1>1 DEF Descendable, Opening
      <4> QED BY <1>12, <2>1, <4>1
    <3> QED BY <1>2, <2>1, <3>1, <3>2, <3>3, <3>4 DEF Complete, Stacked
  <2>3. CASE k = d + 1
    <3>1. par[x] = n
      <4>1. k # 1 /\ k - 1 = d /\ d \in 1..d
        BY <2>3
      <4> QED BY <1>5, <2>1, <4>1 DEF ParentOf
    <3>2. x \in B(child[n])
      <4>1. child[n] \in Nat /\ x \in Nat /\ n \in Nat /\ child[n] <= x /\ n < child[n]
        BY <1>6, <3>1
      <4>2. ASSUME NEW j \in Created, child[n] < j, j <= x PROVE n <= par[j]
        <5>1. j \in Nat /\ par[x] < j
          BY <1>6, <3>1, <4>1, <4>2
        <5>2. CASE j = x
          BY <3>1, <4>1, <5>2
        <5>3. CASE j < x
          BY <1>6, <3>1, <5>1, <5>3
        <5> QED BY <4>1, <4>2, <5>1, <5>2, <5>3
      <4> QED BY <1>1, <1>3, <1>6, <4>1, <4>2 DEF B, RestOf, Rest
    <3>3. d + 1 \in 1..(d + 1)
      BY <1>2
    <3> QED BY <1>7, <1>10, <2>1, <3>2, <3>3
  <2> QED BY <2>2, <2>3
<1> QED BY <1>13, <1>14 DEF Complete
-----------------------------------------------------------------------------
\* The end of a chain leaves nothing pending that was not, and the other way round.
LEMMA ReturnCompletes ==
    ASSUME IInv, Return, NEW par, Complete(par)
    PROVE  Complete(par)'
<1>1. /\ frames # <<>> /\ n = NULL /\ stack' = SubSeq(stack, 1, Top.start)
      /\ UNCHANGED <<src, tree, pass, emph>>
  BY DEF Return
<1>2. /\ Depth \in Nat \ {0} /\ Depth \in 1..Depth /\ Len(stack) \in Nat
      /\ frames[Depth] = Top /\ Top.start \in Nat /\ Top.start <= Len(stack) /\ Top.node = n
      /\ \A i \in 1..Len(stack) : stack[i] \in Nodes
      /\ \A k \in 1..Depth : frames[k].start \in Nat /\ frames[k] \in Frame
  BY <1>1, VisitFacts DEF Top, n
<1>3. /\ type' = type /\ next' = next /\ pass' = pass /\ NULL = 0 /\ Created' = Created
  BY <1>1 DEF tree, NULL, Created, Nodes, NTok
<1> DEFINE B(x) == RestOf(Created, par, x)
<1>4. \A m : m \in Pending(par) <=> m \in Created /\ \E k \in 1..Depth : m \in B(Ahead(k))
  BY DEF Pending
<1>5. \A m : m \in Pending(par)' <=> m \in Created /\ \E k \in 1..Depth' : m \in B(Ahead(k)')
  BY <1>3 DEF Pending
<1>6. B(Ahead(Depth)) = {}
  BY <1>1, <1>2, <1>3 DEF Ahead, RestOf
<1> HIDE DEF B
<1>7. SUFFICES /\ Pending(par)' = Pending(par)
               /\ \A k \in 1..Depth' :
                     /\ k \in 1..Depth /\ ParentOf(k)' = ParentOf(k)
                     /\ \A i \in First(k)..Last(k) : i \in First(k)'..Last(k)' /\ stack'[i] = stack[i]
  <2>1. Maximal(par)' /\ Entered(par)'
    BY <1>3, <1>7, CompleteStays DEF Complete
  <2>2. Stacked(par)'
    <3>1. SUFFICES ASSUME pass < 4, NEW k \in 1..Depth', NEW x \in Created,
                          type[x] \in Opening, par[x] = ParentOf(k)', x \notin Pending(par)'
                   PROVE  \E i \in First(k)'..Last(k)' : stack'[i] = x
      BY <1>3 DEF Stacked, Opening
    <3>2. k \in 1..Depth /\ par[x] = ParentOf(k) /\ x \notin Pending(par)
      BY <1>7, <3>1
    <3>3. PICK i \in First(k)..Last(k) : stack[i] = x
      BY <3>1, <3>2 DEF Complete, Stacked
    <3> QED BY <1>7, <3>3
  <2> QED BY <2>1, <2>2 DEF Complete
<1>8. CASE Depth = 1
  <2>1. Depth' = 0
    BY <1>8, EmptySeq DEF Return, Depth
  <2>2. \A k \in 1..Depth : k = Depth
    BY <1>8
  <2>3. Pending(par) = {} /\ Pending(par)' = {}
    BY <1>4, <1>5, <1>6, <2>1, <2>2
  <2> QED BY <2>1, <2>3
<1>9. CASE Depth # 1
  <2>1. PICK up \in Nat \ {0} : up + 1 = Depth
    <3>1. Depth - 1 \in Nat \ {0} /\ (Depth - 1) + 1 = Depth
      BY <1>2, <1>9
    <3> QED BY <3>1
  <2>2. up = Depth - 1 /\ up \in 1..Depth /\ up < Depth /\ \A k \in 1..up : k \in 1..Depth /\ k # Depth
    BY <1>2, <2>1
  <2> DEFINE caller == frames[up]
             kept == SubSeq(frames, 1, up)
             moved == [caller EXCEPT !.prev = caller.node, !.node = next[caller.node]]
  <2>3. kept \in Seq(Frame) /\ Len(kept) = up /\ \A k \in 1..up : kept[k] = frames[k]
    <3>1. \A k \in 1..up : frames[k] \in Frame
      BY <1>2, <2>2
    <3>2. /\ kept \in Seq(Frame)
          /\ Len(kept) = IF 1 <= up THEN up - 1 + 1 ELSE 0
          /\ \A k \in 1..(up - 1 + 1) : kept[k] = frames[1 + k - 1]
      BY <2>1, <3>1, SubSeqProperties
    <3> QED BY <2>1, <3>2
  <2>4. frames' = [kept EXCEPT ![up] = moved]
    <3>1. kept[up] = caller
      BY <2>1, <2>3
    <3>2. frames' = [kept EXCEPT ![up] = [kept[up] EXCEPT !.prev = caller.node, !.node = next[caller.node]]]
      BY <1>9, <2>2 DEF Return
    <3> QED BY <3>1, <3>2
  <2>5. moved.node = next[caller.node] /\ moved.start = caller.start
    BY <1>2, <2>2 DEF Frame
  <2> HIDE DEF kept, moved
  <2>6. Depth' = up /\ \A k \in 1..up : frames'[k] = IF k = up THEN moved ELSE frames[k]
    BY <2>1, <2>3, <2>4 DEF Depth
  <2>7. ASSUME NEW k \in 1..up PROVE Ahead(k)' = Ahead(k)
    <3>1. k # Depth /\ Ahead(k) = next[frames[k].node]
      BY <2>2 DEF Ahead
    <3>2. CASE k = up
      BY <2>5, <2>6, <3>1, <3>2 DEF Ahead
    <3>3. CASE k # up
      BY <1>3, <2>6, <3>1, <3>3 DEF Ahead
    <3> QED BY <3>2, <3>3
  <2>8. Pending(par)' = Pending(par)
    <3>1. \A k \in 1..Depth : k \in 1..up \/ k = Depth
      BY <1>2, <2>1
    <3>2. \A k \in 1..Depth' : k \in 1..up
      BY <2>6
    <3>3. \A m : m \in Pending(par)' <=> m \in Pending(par)
      BY <1>4, <1>5, <1>6, <2>2, <2>6, <2>7, <3>1, <3>2
    <3>4. Pending(par)' \subseteq Created /\ Pending(par) \subseteq Created
      BY <1>3 DEF Pending
    <3> QED BY <3>3, <3>4
  <2>9. /\ Len(stack') = Top.start
        /\ \A i \in 1..Top.start : stack'[i] = stack[i]
    <3>1. \A i \in 1..Top.start : stack[i] \in Nodes
      BY <1>2
    <3>2. /\ Len(SubSeq(stack, 1, Top.start)) = IF 1 <= Top.start THEN Top.start - 1 + 1 ELSE 0
          /\ \A i \in 1..(Top.start - 1 + 1) : SubSeq(stack, 1, Top.start)[i] = stack[1 + i - 1]
      BY <1>2, <3>1, SubSeqProperties
    <3> QED BY <1>1, <1>2, <3>2
  <2>10. \A k \in 1..up : frames'[k].start = frames[k].start
    BY <2>5, <2>6
  <2>11. ASSUME NEW k \in 1..up
         PROVE  /\ ParentOf(k)' = ParentOf(k) /\ First(k)' = First(k) /\ Last(k)' = Last(k)
                /\ \A i \in First(k)..Last(k) : stack'[i] = stack[i]
    <3>0. ParentOf(k)' = ParentOf(k)
      <4>1. k # 1 => k - 1 \in 1..up /\ k - 1 # up
        BY <2>1
      <4> QED BY <1>3, <2>6, <4>1 DEF ParentOf
    <3>1. First(k)' = First(k)
      BY <2>10 DEF First
    <3>2. k + 1 \in 1..Depth /\ Last(k) = frames[k + 1].start
      BY <1>2, <2>1, <2>2 DEF Last
    <3>3. Last(k)' = Last(k)
      <4>1. CASE k = up
        <5>1. Last(k) = Top.start
          BY <1>2, <2>1, <3>2, <4>1
        <5>2. Last(k)' = Len(stack')
          BY <2>6, <4>1 DEF Last
        <5> QED BY <2>9, <5>1, <5>2
      <4>2. CASE k # up
        <5>1. k + 1 \in 1..up
          BY <2>1, <4>2
        <5>2. Last(k)' = frames'[k + 1].start
          BY <2>6, <4>2 DEF Last
        <5> QED BY <2>10, <3>2, <5>1, <5>2
      <4> QED BY <4>1, <4>2
    <3>4. Last(k) <= Top.start /\ Last(k) \in Nat /\ First(k) \in Nat \ {0}
      <4>1. frames[k + 1].start \in Nat /\ frames[k].start \in Nat
        BY <1>2, <2>2, <3>2
      <4>2. \A j, i \in 1..Depth : j <= i => frames[j].start <= frames[i].start
        BY <1>2 DEF IInv, ActivationsNest
      <4>3. frames[k + 1].start <= frames[Depth].start
        BY <1>2, <3>2, <4>2
      <4> QED BY <1>2, <3>2, <4>1, <4>3 DEF First
    <3>5. \A i \in First(k)..Last(k) : i \in 1..Top.start
      BY <1>2, <3>4
    <3> QED BY <2>9, <3>0, <3>1, <3>3, <3>5
  <2> QED BY <2>2, <2>6, <2>8, <2>11
<1> QED BY <1>8, <1>9

\* At the end of a pass nothing is pending, and the next one begins with all.
LEMMA NextPassCompletes ==
    ASSUME IInv, NextPass, NEW par, Shaped(par), Complete(par)
    PROVE  Complete(par)'
<1>1. /\ frames = <<>> /\ type' = type /\ next' = next /\ stack' = stack /\ Created' = Created
      /\ pass \in {1, 3, 4}
      /\ pass' = CASE pass = 1 -> 3 [] pass = 3 -> 4 [] OTHER -> 5
      /\ frames' = IF pass = 4 THEN <<>> ELSE <<Activation(2)>>
  BY DEF NextPass, tree, IInv, TypeOK, Created, Nodes, NTok
<1>2. Pending(par) = {}
  <2>1. Depth = 0
    BY <1>1, EmptySeq DEF Depth
  <2> QED BY <2>1 DEF Pending
<1>3. pass = 1 => Pending(par)' = Created
  <2>1. SUFFICES ASSUME pass = 1 PROVE Pending(par)' = Created
    OBVIOUS
  <2>2. Depth' = 1 /\ frames'[1].node = 2
    BY <1>1, <2>1 DEF Depth, Activation
  <2>3. Ahead(1)' = 2
    BY <2>2 DEF Ahead
  <2>4. RestOf(Created, par, 2) = Created
    BY RestOfFirst DEF RestOf, Shaped, Tree
  <2> QED BY <1>1, <2>2, <2>3, <2>4 DEF Pending
<1>4. \A t \in Closing : PassOf(t) \in {1, 3}
  BY DEF PassOf
<1>5. Maximal(par)'
  <2>1. SUFFICES ASSUME NEW x \in Created, NEW c \in Created, type[c] \in Closing,
                        type[x] = MateOf[type[c]], x < c, par[x] = par[c], Visited(par, c)'
                 PROVE  Paired(c)
    BY <1>1 DEF Maximal, Closing, MateOf, Paired, PairsOf
  <2>2. Visited(par, c)
    <3>1. pass' > PassOf(type[c]) \/ (pass' = PassOf(type[c]) /\ c \notin Pending(par)')
      BY <1>1, <2>1 DEF Visited, PassOf
    <3> QED BY <1>1, <1>2, <1>3, <1>4, <2>1, <3>1 DEF Visited
  <2> QED BY <2>1, <2>2 DEF Complete, Maximal
<1>6. Stacked(par)'
  <2>1. CASE pass = 1
    BY <1>1, <1>3, <2>1 DEF Stacked
  <2>2. CASE pass # 1
    BY <1>1, <2>2 DEF Stacked
  <2> QED BY <2>1, <2>2
<1>7. Entered(par)'
  <2>1. SUFFICES ASSUME NEW m \in Created, type[m] \in PairTypes \ Descendable PROVE pass' > 3
    BY <1>1 DEF Entered, PairTypes, Descendable
  <2>2. pass > 3 \/ pass = 3
    BY <2>1 DEF Complete, Entered
  <2> QED BY <1>1, <2>2
<1> QED BY <1>5, <1>6, <1>7 DEF Complete

\* Before the first pass all is pending.
LEMMA FirstComplete ==
    ASSUME Init, NEW par, Shaped(par), \A m \in Nodes : type[m] \notin PairTypes
    PROVE  Complete(par)
<1>1. frames = <<Activation(2)>> /\ pass = 1
  BY DEF Init
<1>2. Pending(par) = Created
  <2>1. Depth = 1 /\ frames[1].node = 2
    BY <1>1 DEF Depth, Activation
  <2>2. Ahead(1) = 2
    BY <2>1 DEF Ahead
  <2>3. RestOf(Created, par, 2) = Created
    BY RestOfFirst DEF RestOf, Shaped, Tree
  <2> QED BY <2>1, <2>2, <2>3 DEF Pending
<1>3. Maximal(par)
  BY <1>1, <1>2 DEF Maximal, Visited, PassOf
<1>4. Stacked(par)
  BY <1>2 DEF Stacked
<1>5. Entered(par)
  BY DEF Entered, Created
<1> QED BY <1>3, <1>4, <1>5 DEF Complete
-----------------------------------------------------------------------------
\* The invariant of the tree: there are parents with which it is a tree, the
\* activations stand in it, and nothing that was visited is left unpaired.
TInv == /\ IInv
        /\ \A m \in Nodes : Fits(m)
        /\ \E par \in [Nodes -> Ref] : Shaped(par) /\ Placed(par) /\ Complete(par)

\* A step that rebuilds the tree and settles the stack keeps all of it.
LEMMA BodyShapes ==
    ASSUME IInv, IInv', \A m \in Nodes : Fits(m), NEW par, Shaped(par), Placed(par), Complete(par),
           frames # <<>>, n # NULL,
           NEW openers, NEW size \in Top.start..Len(stack), NEW push \in BOOLEAN,
           Settle(openers, size, push),
           NEW o \in Nat, o <= n, ParentOf(Depth) < o, \A i \in 1..size : stack[i] < o,
           \E par2 \in [Nodes -> Ref] : Rebuilt(par, par2, o), Serves(o, size, push),
           \A m \in Nodes : Fits(m)'
    PROVE  TInv'
<1>1. PICK par2 \in [Nodes -> Ref] : Rebuilt(par, par2, o)
  OBVIOUS
<1>2. Placed(par2)'
  BY <1>1, SettlePlaces
<1>3. Nodes' = Nodes /\ Ref' = Ref
  BY DEF Settle, Nodes, NTok, Ref, NULL
<1>4. Shaped(par2)'
  BY <1>1 DEF Rebuilt, Shaped
<1>5. Complete(par2)'
  <2>1. Visit(par, par2, o, openers, size, push)
    BY <1>1, <1>3 DEF Visit
  <2> QED BY <2>1, VisitComplete
<1> QED BY <1>1, <1>2, <1>3, <1>4, <1>5 DEF TInv

\* What a step that leaves the tree alone is to BodyShapes
LEMMA SameShape ==
    ASSUME n \in Nat, \A m \in Nodes : Fits(m), NEW par, Shaped(par), UNCHANGED tree, src' = src, pass' = pass
    PROVE  Rebuilt(par, par, n) /\ \A m \in Nodes : Fits(m)'
<1>1. type' = type /\ next' = next /\ child' = child /\ tail' = tail
  BY DEF tree
<1>2. Created' = Created
  BY <1>1 DEF Created, Nodes, NTok
<1>3. Rebuilt(par, par, n)
  <2>1. Adopted(Created, par, n, n) = {}
    <3>1. \A m \in Created : m \in Nat
      BY DEF Shaped, Tree, Preorder
    <3>2. \A m \in Created : ~(n < m /\ m < n)
      BY <3>1
    <3> QED BY <3>2 DEF Adopted
  <2>2. Moves(par, par, n)
    BY <1>1, <1>2, <2>1 DEF Moves
  <2> QED BY <1>1, <1>2, <2>2 DEF Rebuilt, Shaped
<1>4. ASSUME NEW m \in Nodes PROVE Fits(m)'
  BY <1>1 DEF Fits, Tok, Scans, Indentation, NULL
<1> QED BY <1>3, <1>4

\* The bound of SettlePlaces, where nothing in front of the node itself or in
\* front of the opener it closes changes
LEMMA VisitPlace ==
    ASSUME IInv, \A m \in Nodes : Fits(m), NEW par, Shaped(par), Placed(par), frames # <<>>, n # NULL
    PROVE  /\ n \in Nat /\ n <= n /\ ParentOf(Depth) < n
           /\ Left \in Top.start..Len(stack) /\ Len(stack) \in Top.start..Len(stack)
           /\ \A i \in 1..Left : stack[i] < n
           /\ \A i \in 1..Len(stack) : stack[i] < n
           /\ Closes => /\ opener \in Nat /\ opener <= n /\ ParentOf(Depth) < opener
                        /\ \A i \in 1..Left : stack[i] < opener
<1>1. n \in Created /\ par[n] = ParentOf(Depth) /\ ParentOf(Depth) < n
  BY CallersInFront
<1>2. \A m \in Created : m \in Nat /\ par[m] < m
  BY DEF Shaped, Tree, Preorder
<1>3. /\ Left \in Top.start..Len(stack) /\ Len(stack) \in Nat /\ Top.start \in 0..Len(stack)
      /\ \A i \in 1..Len(stack) : stack[i] < n
  BY PopFacts, VisitFacts
<1>4. \A i \in 1..Left : stack[i] < n
  BY <1>3
<1>5. ASSUME Closes
      PROVE  /\ opener \in Nat /\ opener <= n /\ ParentOf(Depth) < opener
             /\ \A i \in 1..Left : stack[i] < opener
  <2>1. opener \in Created /\ opener < n /\ par[opener] = par[n]
    BY <1>5, ClosedPlace
  <2>2. \A i \in 1..Left : stack[i] < opener
    BY <1>5, OpenerFacts
  <2>3. opener \in Nat /\ n \in Nat /\ par[opener] < opener
    BY <1>1, <1>2, <2>1
  <2> QED BY <1>1, <2>1, <2>2, <2>3
<1> QED BY <1>1, <1>2, <1>3, <1>4, <1>5

\* A step that pops nothing and leaves the tree alone
LEMMA PassShapes ==
    ASSUME TInv, IInv', frames # <<>>, n # NULL, NEW push \in BOOLEAN, Pass(push), UNCHANGED tree,
           type[n] \notin Closing, type[n] \in Opening => push, type[n] \in Descendable => child[n] = NULL
    PROVE  TInv'
<1>1. PICK par \in [Nodes -> Ref] : Shaped(par) /\ Placed(par) /\ Complete(par)
  BY DEF TInv
<1>2. IInv /\ \A m \in Nodes : Fits(m)
  BY DEF TInv
<1>3. Settle(Top.openers, Len(stack), push) /\ src' = src /\ pass' = pass
  BY DEF Pass, Settle
<1>5. /\ n \in Nat /\ n <= n /\ ParentOf(Depth) < n /\ Len(stack) \in Top.start..Len(stack)
      /\ \A i \in 1..Len(stack) : stack[i] < n
  BY <1>1, <1>2, VisitPlace
<1>4. Rebuilt(par, par, n) /\ \A m \in Nodes : Fits(m)'
  BY <1>1, <1>2, <1>3, <1>5, SameShape
<1>7. Serves(n, Len(stack), push)
  <2>1. n \in Nodes /\ type' = type
    BY <1>2, VisitFacts DEF Ref, tree
  <2> QED BY <1>2, <2>1, PassServes
<1>6. \E p \in [Nodes -> Ref] : Rebuilt(par, p, n)
  BY <1>1, <1>4
<1> HIDE DEF n
<1> QED BY <1>1, <1>2, <1>3, <1>4, <1>5, <1>6, <1>7, BodyShapes

\* A step that closes nothing
LEMMA UnpairedShapes ==
    ASSUME TInv, IInv', frames # <<>>, n # NULL, NEW push \in BOOLEAN, Finish(push), UNCHANGED tree,
           Handled \/ type[n] \notin Opening \cup PairTypes, ~Closes
    PROVE  TInv'
<1>1. PICK par \in [Nodes -> Ref] : Shaped(par) /\ Placed(par) /\ Complete(par)
  BY DEF TInv
<1>2. IInv /\ \A m \in Nodes : Fits(m)
  BY DEF TInv
<1>3. Settle(OpenersLeft, Left, push) /\ src' = src /\ pass' = pass
  BY DEF Finish, Settle
<1>5. /\ n \in Nat /\ n <= n /\ ParentOf(Depth) < n /\ Left \in Top.start..Len(stack)
      /\ \A i \in 1..Left : stack[i] < n
  BY <1>1, <1>2, VisitPlace
<1>4. Rebuilt(par, par, n) /\ \A m \in Nodes : Fits(m)'
  BY <1>1, <1>2, <1>3, <1>5, SameShape
<1>7. Serves(n, Left, push)
  <2>1. n \in Nodes /\ type' = type
    BY <1>2, VisitFacts DEF Ref, tree
  <2> QED BY <1>2, <2>1, UnpairedServes
<1>6. \E p \in [Nodes -> Ref] : Rebuilt(par, p, n)
  BY <1>1, <1>4
<1> HIDE DEF n
<1> QED BY <1>1, <1>2, <1>3, <1>4, <1>5, <1>6, <1>7, BodyShapes

\* A step that closes a pair
LEMMA PairedShapes ==
    ASSUME TInv, IInv', frames # <<>>, n # NULL, NEW push \in BOOLEAN, Finish(push), Closes,
           Join(opener) \/ (type[n] = "backtick" /\ JoinCodeSpan(opener))
    PROVE  TInv'
<1>1. PICK par \in [Nodes -> Ref] : Shaped(par) /\ Placed(par) /\ Complete(par)
  BY DEF TInv
<1>2. IInv /\ \A m \in Nodes : Fits(m)
  BY DEF TInv
<1>3. Settle(OpenersLeft, Left, push) /\ src' = src /\ pass' = pass
  BY DEF Finish, Settle
<1>4. /\ \E p \in [Nodes -> Ref] : Rebuilt(par, p, opener)
      /\ \A m \in Nodes : Fits(m)'
  BY <1>1, <1>2, <1>3, JoinShapes, CodeSpanShapes
<1>5. /\ opener \in Nat /\ opener <= n /\ ParentOf(Depth) < opener /\ Left \in Top.start..Len(stack)
      /\ \A i \in 1..Left : stack[i] < opener
  BY <1>1, <1>2, VisitPlace
<1>6. Serves(opener, Left, push)
  BY <1>2, PairedServes
<1> HIDE DEF opener, n
<1> QED BY <1>1, <1>2, <1>3, <1>4, <1>5, <1>6, BodyShapes

\* A superscript that stands alone
LEMMA LeafShapes ==
    ASSUME TInv, IInv', frames # <<>>, n # NULL, NEW push \in BOOLEAN, Finish(push),
           type[n] = "sup", Handled, ClassAfter(Tok(n)) = "alnum", next[n] # NULL, Standalone
    PROVE  TInv'
<1>1. PICK par \in [Nodes -> Ref] : Shaped(par) /\ Placed(par) /\ Complete(par)
  BY DEF TInv
<1>2. IInv /\ \A m \in Nodes : Fits(m)
  BY DEF TInv
<1>3. Settle(OpenersLeft, Left, push) /\ src' = src /\ pass' = pass
  BY DEF Finish, Settle
<1>4. /\ \E p \in [Nodes -> Ref] : Rebuilt(par, p, n)
      /\ \A m \in Nodes : Fits(m)'
  BY <1>1, <1>2, <1>3, StandaloneShapes
<1>5. /\ n \in Nat /\ n <= n /\ ParentOf(Depth) < n /\ Left \in Top.start..Len(stack)
      /\ \A i \in 1..Left : stack[i] < n
  BY <1>1, <1>2, VisitPlace
<1>6. Serves(n, Left, push)
  <2>1. n \in Nodes
    BY <1>2, VisitFacts DEF Ref
  <2> QED BY <1>2, <2>1, LeafServes
<1> HIDE DEF n
<1> QED BY <1>1, <1>2, <1>3, <1>4, <1>5, <1>6, BodyShapes

\* Each visit of a node
LEMMA VisitsShape ==
    ASSUME TInv, IInv',
           \/ VisitOpener \/ VisitSubDivider \/ VisitCloser \/ VisitBacktick
           \/ VisitCloseOrOpen \/ VisitEmphasis \/ VisitSuperscript \/ Skip
    PROVE  TInv'
<1>1. CASE VisitOpener
  <2>1. frames # <<>> /\ n # NULL /\ UNCHANGED tree /\ Pass(TRUE) /\ type[n] \in Openers
    BY <1>1 DEF VisitOpener, Visiting
  <2>2. type[n] \notin Closing /\ type[n] \notin Descendable
    BY <2>1 DEF Openers, Closing, Descendable
  <2> QED BY <2>1, <2>2, PassShapes
<1>2. CASE Skip
  <2>1. frames # <<>> /\ n # NULL /\ UNCHANGED tree /\ Pass(FALSE) /\ Skips
    BY <1>2 DEF Skip
  <2>2. type[n] \notin Closing /\ type[n] \notin Opening /\ (type[n] \in Descendable => child[n] = NULL)
    BY <2>1 DEF Skips, Openers, Closers, Closing, Opening, Descendable
  <2> QED BY <2>1, <2>2, PassShapes
<1>3. ASSUME frames # <<>>, n # NULL, JoinIfClosed, NEW push \in BOOLEAN, Finish(push),
             Handled \/ type[n] \notin Opening \cup PairTypes
      PROVE  TInv'
  <2>1. CASE Closes
    <3>1. Join(opener)
      BY <1>3, <2>1 DEF JoinIfClosed
    <3> QED BY <1>3, <2>1, <3>1, PairedShapes
  <2>2. CASE ~Closes
    <3>1. UNCHANGED tree
      BY <1>3, <2>2 DEF JoinIfClosed
    <3> QED BY <1>3, <2>2, <3>1, UnpairedShapes
  <2> QED BY <2>1, <2>2
<1>4. CASE VisitSubDivider \/ VisitCloser \/ VisitCloseOrOpen
  <2>1. /\ frames # <<>> /\ n # NULL /\ JoinIfClosed /\ \E push \in BOOLEAN : Finish(push)
        /\ Handled \/ type[n] \in Closers \cup {"sub_div"}
    BY <1>4 DEF VisitSubDivider, VisitCloser, VisitCloseOrOpen, Visiting
  <2>2. Handled \/ type[n] \notin Opening \cup PairTypes
    BY <2>1 DEF Closers, Opening, PairTypes
  <2> QED BY <1>3, <2>1, <2>2
<1>5. CASE VisitBacktick
  <2>1. frames # <<>> /\ n # NULL /\ type[n] = "backtick"
    BY <1>5 DEF VisitBacktick, Visiting
  <2>2. CASE Handled
    <3>1. (IF Closes THEN JoinCodeSpan(opener) ELSE UNCHANGED tree) /\ \E push \in BOOLEAN : Finish(push)
      BY <1>5, <2>2 DEF VisitBacktick
    <3> QED BY <2>1, <2>2, <3>1, PairedShapes, UnpairedShapes
  <2>3. CASE ~Handled
    <3>1. UNCHANGED tree /\ \E push \in BOOLEAN : Pass(push)
      BY <1>5, <2>3 DEF VisitBacktick
    <3>2. type[n] \notin Closing /\ type[n] \notin Opening /\ type[n] \notin Descendable
      BY <2>1 DEF Closing, Opening, Descendable
    <3> QED BY <2>1, <3>1, <3>2, PassShapes
  <2> QED BY <2>2, <2>3
<1>6. CASE VisitEmphasis
  <2>1. frames # <<>> /\ n # NULL /\ type[n] \in {"star", "ul"} /\ Handled
    BY <1>6 DEF VisitEmphasis, Visiting
  <2>2. \/ JoinIfClosed /\ \E push \in BOOLEAN : Finish(push)
        \/ UNCHANGED tree /\ \E push \in BOOLEAN : Pass(push)
    <3>1. token_can_open(n) \in BOOLEAN
      BY DEF token_can_open
    <3> QED BY <1>6, <3>1 DEF VisitEmphasis
  <2>3. type[n] \notin Closing /\ type[n] \notin Opening /\ type[n] \notin Descendable
    BY <2>1 DEF Closing, Opening, Descendable
  <2> QED BY <1>3, <2>1, <2>2, <2>3, PassShapes
<1>7. CASE VisitSuperscript
  <2>1. frames # <<>> /\ n # NULL /\ type[n] = "sup" /\ Handled
    BY <1>7 DEF VisitSuperscript, Visiting
  <2>2. \/ Closes /\ Join(opener) /\ Finish(FALSE)
        \/ /\ \E push \in BOOLEAN : Finish(push)
           /\ ~Closes
           /\ \/ ClassAfter(Tok(n)) = "alnum" /\ next[n] # NULL /\ Standalone
              \/ UNCHANGED tree
    BY <1>7 DEF VisitSuperscript
  <2> QED BY <2>1, <2>2, PairedShapes, LeafShapes, UnpairedShapes
<1> QED BY <1>1, <1>2, <1>4, <1>5, <1>6, <1>7

\* Steps that change nothing of the tree but types keep its shape.
LEMMA TypesOnly ==
    ASSUME TInv, IInv', src' = src, next' = next, child' = child, tail' = tail, Created' = Created,
           \A m \in Nodes : Fits(m)',
           \A par \in [Nodes -> Ref] : Shaped(par) /\ Placed(par) => Placed(par)',
           \A par \in [Nodes -> Ref] : Shaped(par) /\ Placed(par) /\ Complete(par) => Complete(par)'
    PROVE  TInv'
<1>1. PICK par \in [Nodes -> Ref] : Shaped(par) /\ Placed(par) /\ Complete(par)
  BY DEF TInv
<1>2. Nodes' = Nodes /\ Ref' = Ref
  BY DEF Nodes, NTok, Ref, NULL
<1>3. Shaped(par)'
  BY <1>1 DEF Shaped
<1>4. Placed(par)' /\ Complete(par)'
  BY <1>1
<1> QED BY <1>1, <1>2, <1>3, <1>4 DEF TInv

\* The nodes keep fitting where their types, children and the text stay and
\* the passes only go on.
LEMMA FitsStays ==
    ASSUME \A m \in Nodes : Fits(m), src' = src, type' = type, next' = next, child' = child,
           tail' = tail, pass' < 4 => pass < 4
    PROVE  (\A m \in Nodes : Fits(m)') /\ Created' = Created
<1>1. ASSUME NEW m \in Nodes PROVE Fits(m)'
  BY DEF Fits, Tok, Scans, Indentation, NULL
<1>2. Created' = Created
  BY DEF Created, Nodes, NTok
<1> QED BY <1>1, <1>2

\* The children of the node that is entered are a chain with that parent.
LEMMA DescendShapes ==
    ASSUME TInv, IInv', Descend
    PROVE  TInv'
<1>1. /\ frames # <<>> /\ n # NULL /\ child[n] # NULL
      /\ frames' = Append(frames, Activation(child[n]))
      /\ UNCHANGED <<src, tree, stack, pass, emph>>
  BY DEF Descend, Visiting
<1>2. /\ IInv /\ Depth \in Nat \ {0} /\ frames \in Seq(Frame) /\ frames[Depth].node = n
      /\ Len(stack) \in Nat
  BY <1>1, VisitFacts DEF TInv, IInv, TypeOK, Top, n
<1>3. /\ src' = src /\ type' = type /\ next' = next /\ child' = child /\ tail' = tail
      /\ stack' = stack /\ pass' = pass /\ NULL' = NULL
  BY <1>1 DEF tree, NULL
<1>4. (\A m \in Nodes : Fits(m)') /\ Created' = Created
  BY <1>3, FitsStays DEF TInv
<1>5. ASSUME NEW par \in [Nodes -> Ref], Shaped(par), Placed(par)
      PROVE  Placed(par)'
  <2> DEFINE new == Activation(child[n])
  <2>1. new.node = child[n] /\ new.prev = NULL /\ new.start = Len(stack)
    BY DEF Activation
  <2> HIDE DEF new
  <2>2. PICK d \in Nat \ {0} : d = Depth
    BY <1>2
  <2>3. /\ Depth' = d + 1 /\ frames'[d + 1] = new
        /\ \A k \in 1..d : frames'[k] = frames[k]
    <3>1. frames' = Append(frames, new) /\ frames \in Seq(Frame) /\ Len(frames) = d
      BY <1>1, <1>2, <2>2 DEF new, Depth
    <3> QED BY <2>2, <3>1, AppendProperties DEF Depth
  <2>4. ASSUME NEW k \in 1..d PROVE PlacedAt(par, k)'
    <3>1. PlacedAt(par, k) /\ frames'[k] = frames[k]
      BY <1>5, <2>2, <2>3, <2>4 DEF Placed
    <3>2. ParentOf(k)' = ParentOf(k) /\ (k # 1 => frames'[k - 1] = frames[k - 1])
      <4>1. k # 1 => k - 1 \in 1..d
        BY <2>2, <2>4
      <4> QED BY <1>3, <2>3, <4>1 DEF ParentOf
    <3>3. First(k)' = First(k) /\ Last(k)' = Last(k)
      <4>1. k # d + 1 /\ k + 1 # 1
        BY <2>2, <2>4
      <4>2. CASE k = d
        BY <1>3, <2>1, <2>2, <2>3, <3>1, <4>1, <4>2 DEF First, Last
      <4>3. CASE k # d
        <5>1. k + 1 \in 1..d
          BY <2>2, <2>4, <4>3
        <5> QED BY <2>2, <2>3, <3>1, <4>1, <4>3, <5>1 DEF First, Last
      <4> QED BY <4>2, <4>3
    <3> QED BY <1>3, <1>4, <3>1, <3>2, <3>3 DEF PlacedAt
  <2>5. PlacedAt(par, d + 1)'
    <3>1. ParentOf(d + 1)' = n
      BY <1>2, <2>2, <2>3 DEF ParentOf
    <3>2. n \in Created
      BY <1>1, <1>2, <1>5, CallersInFront
    <3>3. child[n] \in Created /\ par[child[n]] = n
      BY <1>1, <1>5, <3>2 DEF Shaped, Tree, Heads, NULL
    <3>4. First(d + 1)' = Len(stack) + 1 /\ Last(d + 1)' = Len(stack)
      BY <1>3, <2>1, <2>3 DEF First, Last
    <3>5. frames'[d + 1].prev = NULL /\ frames'[d + 1].node = child[n]
      BY <2>1, <2>3
    <3>6. d + 1 # 1 /\ (d + 1) - 1 = d /\ frames'[d].node = n
      BY <1>2, <2>2, <2>3
    <3>7. \A i : i \notin First(d + 1)'..Last(d + 1)'
      BY <1>2, <3>4
    <3> QED BY <1>3, <1>4, <3>1, <3>3, <3>5, <3>6, <3>7 DEF PlacedAt
  <2>6. \A k \in 1..(d + 1) : k = d + 1 \/ k \in 1..d
    BY <2>2
  <2> QED BY <2>3, <2>4, <2>5, <2>6 DEF Placed
<1>6. ASSUME NEW par \in [Nodes -> Ref], Shaped(par), Placed(par), Complete(par)
      PROVE  Complete(par)'
  BY <1>2, <1>6, DescendCompletes
<1> QED BY <1>3, <1>4, <1>5, <1>6, TypesOnly

\* The caller has left the node whose children were walked.
LEMMA ReturnShapes ==
    ASSUME TInv, IInv', Return
    PROVE  TInv'
<1>1. /\ frames # <<>> /\ stack' = SubSeq(stack, 1, Top.start)
      /\ UNCHANGED <<src, tree, pass, emph>>
  BY DEF Return
<1>2. /\ Depth \in Nat \ {0} /\ Depth \in 1..Depth /\ Len(stack) \in Nat
      /\ frames[Depth] = Top /\ Top.start \in Nat /\ Top.start <= Len(stack)
      /\ \A i \in 1..Len(stack) : stack[i] \in Nodes
      /\ \A k \in 1..Depth : frames[k].start \in Nat /\ frames[k] \in Frame
      /\ IInv
  BY <1>1, VisitFacts DEF Top, TInv
<1>3. /\ src' = src /\ type' = type /\ next' = next /\ child' = child /\ tail' = tail
      /\ pass' = pass /\ NULL' = NULL
  BY <1>1 DEF tree, NULL
<1>4. (\A m \in Nodes : Fits(m)') /\ Created' = Created
  BY <1>3, FitsStays DEF TInv
<1>5. ASSUME NEW par \in [Nodes -> Ref], Shaped(par), Placed(par)
      PROVE  Placed(par)'
  <2>1. CASE Depth = 1
    <3>1. Depth' = 0
      BY <2>1, EmptySeq DEF Return, Depth
    <3> QED BY <3>1 DEF Placed
  <2>2. CASE Depth # 1
    <3>1. PICK up \in Nat \ {0} : up + 1 = Depth
      <4>1. Depth - 1 \in Nat \ {0} /\ (Depth - 1) + 1 = Depth
        BY <1>2, <2>2
      <4> QED BY <4>1
    <3>2. up = Depth - 1 /\ up \in 1..Depth /\ up < Depth /\ \A k \in 1..up : k \in 1..Depth /\ k # Depth
      BY <1>2, <3>1
    <3> DEFINE caller == frames[up]
               kept == SubSeq(frames, 1, up)
               moved == [caller EXCEPT !.prev = caller.node, !.node = next[caller.node]]
    <3>3. kept \in Seq(Frame) /\ Len(kept) = up /\ \A k \in 1..up : kept[k] = frames[k]
      <4>1. \A k \in 1..up : frames[k] \in Frame
        BY <1>2, <3>2
      <4>2. /\ kept \in Seq(Frame)
            /\ Len(kept) = IF 1 <= up THEN up - 1 + 1 ELSE 0
            /\ \A k \in 1..(up - 1 + 1) : kept[k] = frames[1 + k - 1]
        BY <3>1, <4>1, SubSeqProperties
      <4> QED BY <3>1, <4>2
    <3>4. frames' = [kept EXCEPT ![up] = moved]
      <4>1. kept[up] = caller
        BY <3>1, <3>3
      <4>2. frames' = [kept EXCEPT ![up] = [kept[up] EXCEPT !.prev = caller.node, !.node = next[caller.node]]]
        BY <2>2, <3>2 DEF Return
      <4> QED BY <4>1, <4>2
    <3>5. moved.node = next[caller.node] /\ moved.start = caller.start /\ moved.prev = caller.node
      BY <1>2, <3>2 DEF Frame
    <3> HIDE DEF kept, moved
    <3>6. Depth' = up /\ \A k \in 1..up : frames'[k] = IF k = up THEN moved ELSE frames[k]
      BY <3>1, <3>3, <3>4 DEF Depth
    <3>7. caller.node # NULL /\ PlacedAt(par, up)
      BY <1>2, <1>5, <3>2 DEF IInv, ActivationsNest, Placed
    <3>8. caller.node \in Created /\ par[caller.node] = ParentOf(up)
      BY <3>7 DEF PlacedAt
    <3>9. /\ Len(stack') = Top.start
          /\ \A i \in 1..Top.start : stack'[i] = stack[i]
      <4>1. \A i \in 1..Top.start : stack[i] \in Nodes
        BY <1>2
      <4>2. /\ Len(SubSeq(stack, 1, Top.start)) = IF 1 <= Top.start THEN Top.start - 1 + 1 ELSE 0
            /\ \A i \in 1..(Top.start - 1 + 1) : SubSeq(stack, 1, Top.start)[i] = stack[1 + i - 1]
        BY <1>2, <4>1, SubSeqProperties
      <4> QED BY <1>1, <1>2, <4>2
    <3>10. \A k \in 1..up : frames'[k].start = frames[k].start
      BY <3>5, <3>6
    <3>11. ASSUME NEW k \in 1..up
           PROVE  /\ First(k)' = First(k) /\ Last(k)' = Last(k)
                  /\ \A i \in First(k)..Last(k) : stack'[i] = stack[i]
      <4>1. First(k)' = First(k)
        BY <3>10 DEF First
      <4>2. k + 1 \in 1..Depth /\ Last(k) = frames[k + 1].start
        BY <1>2, <3>1, <3>2 DEF Last
      <4>3. Last(k)' = Last(k)
        <5>1. CASE k = up
          <6>1. Last(k) = Top.start
            BY <1>2, <3>1, <4>2, <5>1
          <6>2. Last(k)' = Len(stack')
            BY <3>6, <5>1 DEF Last
          <6> QED BY <3>9, <6>1, <6>2
        <5>2. CASE k # up
          <6>1. k + 1 \in 1..up
            BY <3>1, <5>2
          <6>2. Last(k)' = frames'[k + 1].start
            BY <3>6, <5>2 DEF Last
          <6> QED BY <3>10, <4>2, <6>1, <6>2
        <5> QED BY <5>1, <5>2
      <4>4. Last(k) <= Top.start /\ Last(k) \in Nat /\ First(k) \in Nat \ {0}
        <5>1. frames[k + 1].start \in Nat /\ frames[k].start \in Nat
          BY <1>2, <3>2, <4>2
        <5>2. \A j, i \in 1..Depth : j <= i => frames[j].start <= frames[i].start
          BY <1>2 DEF IInv, ActivationsNest
        <5>3. frames[k + 1].start <= frames[Depth].start
          BY <1>2, <4>2, <5>2
        <5> QED BY <1>2, <4>2, <5>1, <5>3 DEF First
      <4>5. \A i \in First(k)..Last(k) : i \in 1..Top.start
        BY <1>2, <4>4
      <4> QED BY <3>9, <4>1, <4>3, <4>5
    <3>12. ASSUME NEW k \in 1..up PROVE PlacedAt(par, k)'
      <4>1. PlacedAt(par, k)
        BY <1>5, <3>2 DEF Placed
      <4>2. ParentOf(k)' = ParentOf(k) /\ (k # 1 => frames'[k - 1] = frames[k - 1])
        <5>1. k # 1 => k - 1 \in 1..up /\ k - 1 # up
          BY <3>1
        <5> QED BY <1>3, <3>6, <5>1 DEF ParentOf
      <4>3. \A i \in First(k)'..Last(k)' : stack'[i] \in Created' /\ par[stack'[i]] = ParentOf(k)
        BY <1>4, <3>11, <4>1 DEF PlacedAt
      <4>4. CASE k # up
        <5>1. frames'[k] = frames[k]
          BY <3>6, <4>4
        <5> QED BY <1>3, <1>4, <4>1, <4>2, <4>3, <5>1 DEF PlacedAt
      <4>5. CASE k = up
        <5>1. frames'[k] = moved
          BY <3>6, <4>5
        <5>2. next[caller.node] # NULL =>
                 next[caller.node] \in Created /\ par[next[caller.node]] = ParentOf(k)
          BY <1>5, <3>8, <4>5 DEF Shaped, Tree, Links, NULL
        <5> QED BY <1>3, <1>4, <3>5, <3>7, <3>8, <4>2, <4>3, <4>5, <5>1, <5>2 DEF PlacedAt
      <4> QED BY <4>4, <4>5
    <3> QED BY <3>6, <3>12 DEF Placed
  <2> QED BY <2>1, <2>2
<1>6. ASSUME NEW par \in [Nodes -> Ref], Complete(par) PROVE Complete(par)'
  BY <1>2, <1>6, ReturnCompletes
<1> QED BY <1>3, <1>4, <1>5, <1>6, TypesOnly

\* Strong and emphasis are pairs as well.
LEMMA EmphasisShapes ==
    ASSUME TInv, IInv', pair_emphasis_tokens
    PROVE  TInv'
<1> DEFINE c == child[emph]
           doubled == c # NULL /\ type[c] = type[emph] /\ type[next[emph]] = type[tail[c]]
<1>1. /\ src' = src /\ next' = next /\ child' = child /\ tail' = tail /\ stack' = stack
      /\ frames' = frames /\ pass' = pass /\ NULL' = NULL /\ emph # NULL
  BY DEF pair_emphasis_tokens, NULL
<1>2. IInv /\ emph \in Nodes /\ c \in Ref /\ type \in [Nodes -> Types] /\ Nodes' = Nodes
      /\ \A m \in Nodes : Fits(m)
  BY <1>1 DEF TInv, IInv, TypeOK, Ref, Nodes, NTok
<1> DEFINE paired == {"p_star", "p_ul"}
           now == {"p_strong", "p_emph", "p_star_used", "p_ul_used"}
<1>3. \A m \in Nodes : type'[m] = type[m] \/ (type[m] \in paired /\ type'[m] \in now)
  <2>1. CASE type[emph] \notin paired
    BY <2>1 DEF pair_emphasis_tokens
  <2>2. CASE type[emph] \in paired /\ doubled
    <3>1. type' = [type EXCEPT ![emph] = "p_strong", ![c] = UsedType(type[c])]
      BY <2>2 DEF pair_emphasis_tokens
    <3>2. type[c] \in paired /\ UsedType(type[c]) \in now
      BY <2>2 DEF UsedType
    <3> HIDE DEF c, paired
    <3> QED BY <1>2, <2>2, <3>1, <3>2
  <2>3. CASE type[emph] \in paired /\ ~doubled
    <3>1. type' = [type EXCEPT ![emph] = "p_emph"]
      BY <2>3 DEF pair_emphasis_tokens
    <3> QED BY <1>2, <2>3, <3>1
  <2> QED BY <2>1, <2>2, <2>3
<1>4. Created' = Created
  BY <1>2, <1>3 DEF Created
<1>5. ASSUME NEW m \in Nodes PROVE Fits(m)'
  <2>1. Fits(m) /\ Tok(m)' = Tok(m) /\ Scans(m)' = Scans(m)
    BY <1>1, <1>2 DEF Tok, Scans, Indentation
  <2>2. CASE type'[m] = type[m]
    BY <1>1, <2>1, <2>2 DEF Fits
  <2>3. CASE type[m] \in paired /\ type'[m] \in now
    <3>1. type'[m] \in PairTypes \ {"p_sup", "free", "brl", "brr", "sup"}
      BY <2>3 DEF PairTypes
    <3> QED BY <1>1, <2>1, <2>3, <3>1 DEF Fits
  <2> QED BY <1>3, <2>2, <2>3
<1>6. ASSUME NEW par \in [Nodes -> Ref], Shaped(par), Placed(par)
      PROVE  Placed(par)'
  <2>1. Depth' = Depth
    BY <1>1 DEF Depth
  <2>2. ASSUME NEW k \in 1..Depth PROVE PlacedAt(par, k)'
    <3>1. PlacedAt(par, k)
      BY <1>6 DEF Placed
    <3>2. ParentOf(k)' = ParentOf(k) /\ First(k)' = First(k) /\ Last(k)' = Last(k)
      BY <1>1, <2>1 DEF ParentOf, First, Last
    <3> QED BY <1>1, <1>4, <3>1, <3>2 DEF PlacedAt
  <2> QED BY <2>1, <2>2 DEF Placed
<1>7. ASSUME NEW par \in [Nodes -> Ref], Complete(par) PROVE Complete(par)'
  <2>1. \A m \in Created : type'[m] = type[m] \/ (type[m] \in Emphases /\ type'[m] \in Emphases)
    BY <1>3 DEF Created, Emphases
  <2> QED BY <1>1, <1>4, <1>7, <2>1, TypesComplete
<1> QED BY <1>1, <1>4, <1>5, <1>6, <1>7, TypesOnly

\* A first activation is at the first node, which has no parent.
LEMMA FirstPlace ==
    ASSUME NEW par, Shaped(par), stack = <<>>, frames = <<Activation(2)>> \/ frames = <<>>
    PROVE  Placed(par)
<1>1. 2 \in Created /\ par[2] = 0
  <2>1. 2 \in Created /\ par[2] \in Nat /\ par[2] < 2 /\ (par[2] # 0 => par[2] \in Created)
        /\ 1 \notin Created
    BY DEF Shaped, Tree, Preorder
  <2> QED BY <2>1
<1>2. CASE frames = <<>>
  BY <1>2, EmptySeq DEF Placed, Depth
<1>3. CASE frames = <<Activation(2)>>
  <2>1. Depth = 1 /\ frames[1] = Activation(2) /\ Len(stack) = 0
    BY <1>3, EmptySeq DEF Depth
  <2>2. frames[1].node = 2 /\ frames[1].prev = NULL /\ frames[1].start = 0
    BY <2>1 DEF Activation
  <2>3. First(1) = 1 /\ Last(1) = 0
    BY <2>1, <2>2 DEF First, Last
  <2>4. PlacedAt(par, 1)
    BY <1>1, <2>2, <2>3 DEF PlacedAt, ParentOf, NULL
  <2> QED BY <2>1, <2>4 DEF Placed
<1> QED BY <1>2, <1>3

\* The next pass starts on the tree that the last one left.
LEMMA NextPassShapes ==
    ASSUME TInv, IInv', NextPass
    PROVE  TInv'
<1>1. /\ frames = <<>> /\ src' = src /\ type' = type /\ next' = next /\ child' = child
      /\ tail' = tail /\ stack' = stack
      /\ pass' = CASE pass = 1 -> 3 [] pass = 3 -> 4 [] OTHER -> 5
      /\ frames' = IF pass = 4 THEN <<>> ELSE <<Activation(2)>>
  BY DEF NextPass, tree
<1>2. stack = <<>>
  BY <1>1 DEF TInv, IInv, ActivationsNest
<1>3. pass' < 4 => pass < 4
  <2>1. pass \in {1, 3, 4, 5}
    BY DEF TInv, IInv, TypeOK
  <2> QED BY <1>1, <2>1
<1>4. (\A m \in Nodes : Fits(m)') /\ Created' = Created
  BY <1>1, <1>3, FitsStays DEF TInv
<1>5. ASSUME NEW par \in [Nodes -> Ref], Shaped(par), Placed(par)
      PROVE  Placed(par)'
  <2>1. Shaped(par)'
    BY <1>1, <1>4, <1>5 DEF Shaped
  <2>2. Activation(2)' = Activation(2)
    BY <1>1 DEF Activation, NULL
  <2>3. stack' = <<>> /\ (frames' = <<Activation(2)'>> \/ frames' = <<>>)
    BY <1>1, <1>2, <2>2
  <2>4. 2 \in Created' /\ par[2] = 0
    <3>1. 2 \in Created' /\ par[2] \in Nat /\ par[2] < 2 /\ (par[2] # 0 => par[2] \in Created')
          /\ 1 \notin Created'
      BY <2>1 DEF Shaped, Tree, Preorder
    <3> QED BY <3>1
  <2>5. CASE frames' = <<>>
    BY <2>5, EmptySeq DEF Placed, Depth
  <2>6. CASE frames' = <<Activation(2)>>
    <3>1. Depth' = 1 /\ frames'[1] = Activation(2) /\ Len(stack') = 0 /\ Len(stack) = 0
      BY <1>2, <2>3, <2>6, EmptySeq DEF Depth
    <3>2. frames'[1].node = 2 /\ frames'[1].prev = NULL /\ frames'[1].start = 0
      BY <3>1 DEF Activation
    <3>3. First(1)' = 1 /\ Last(1)' = 0
      BY <3>1, <3>2 DEF First, Last
    <3>4. PlacedAt(par, 1)'
      BY <2>4, <3>2, <3>3 DEF PlacedAt, ParentOf, NULL
    <3> QED BY <3>1, <3>4 DEF Placed
  <2> QED BY <2>2, <2>3, <2>5, <2>6
<1>6. ASSUME NEW par \in [Nodes -> Ref], Shaped(par), Complete(par) PROVE Complete(par)'
  BY <1>6, NextPassCompletes DEF TInv
<1> QED BY <1>1, <1>4, <1>5, <1>6, TypesOnly

\* The tokenizer hands over one chain of all the tokens it made.
LEMMA InitShapes == Init => TInv
<1> SUFFICES ASSUME Init PROVE TInv
  OBVIOUS
<1>1. IInv
  BY InitInv
<1>2. /\ NTok \in Nat \ {0} /\ Nodes = 2..(2 * NTok + 1) /\ src \in Seq(Kinds)
  BY <1>1, NodesAreNumbers, InputsAssumption DEF IInv, Nodes, TypeOK
<1>3. \A m \in Nodes : m \in Nat /\ Tok(m) \in 1..NTok /\ src[Tok(m)] \in Kinds
  BY <1>2, ElementOfSeq DEF Tok, NTok
<1>4. /\ \A m \in Nodes : /\ type[m] = IF Scans(m) THEN InitialType(src[Tok(m)]) ELSE "free"
                          /\ child[m] = 0 /\ tail[m] = m
                          /\ next[m] = IF Scans(m) /\ Tok(m) < NTok /\ Following(m) \in Nodes
                                       THEN Following(m) ELSE 0
      /\ stack = <<>> /\ frames = <<Activation(2)>> /\ pass = 1
  BY DEF Init, NULL
<1>5. \A k \in Kinds : /\ InitialType(k) \notin {"free"} \cup PairTypes
                       /\ InitialType(k) \in {"brl", "brr", "sup"} => k = InitialType(k)
                       /\ k \in {"qx", "sup", "word"} => InitialType(k) = k
  BY DEF Kinds, InitialType, PairTypes
<1>6. ASSUME NEW m \in Nodes PROVE Fits(m)
  <2>1. src[Tok(m)] \in Kinds
    BY <1>3
  <2>2. /\ type[m] = IF Scans(m) THEN InitialType(src[Tok(m)]) ELSE "free"
        /\ child[m] = 0 /\ tail[m] = m /\ (~Scans(m) => next[m] = 0)
    BY <1>4
  <2>3. type[m] # "p_sup"
    BY <1>5, <2>1, <2>2 DEF PairTypes
  <2>4. type[m] = "free" <=> ~Scans(m)
    BY <1>5, <2>1, <2>2
  <2> QED BY <1>5, <2>1, <2>2, <2>3, <2>4 DEF Fits, NULL
<1>7. Created = {m \in Nodes : Scans(m)}
  BY <1>3, <1>4, <1>5 DEF Created
<1> DEFINE par == [m \in Nodes |-> 0]
<1>8. \A m \in Created : m \in Nodes /\ m \in Nat \ {0, 1} /\ m % 2 = 0 /\ par[m] = 0
                          /\ ~Indentation(Tok(m)) /\ 2 * Tok(m) = m
  BY <1>2, <1>7 DEF Scans, Tok
<1>9. 2 \in Created
  <2>1. Scans(2)
    BY DEF Scans, Tok, Indentation
  <2> QED BY <1>2, <1>7, <2>1
<1>10. \A m, k \in Created : m < k => Following(m) <= k
  <2> TAKE m, k \in Created
  <2> HAVE m < k
  <2>1. m \in Nat /\ k \in Nat /\ 2 * Tok(m) = m /\ 2 * Tok(k) = k /\ Tok(m) \in Nat /\ Tok(k) \in Nat
    BY <1>3, <1>8
  <2>2. Tok(m) + 1 <= Tok(k)
    BY <2>1
  <2>3. Indentation(Tok(m) + 1) => Tok(k) # Tok(m) + 1
    BY <1>8
  <2>4. CASE Indentation(Tok(m) + 1)
    <3>1. Following(m) = m + 4 /\ Tok(m) + 2 <= Tok(k)
      BY <2>1, <2>2, <2>3, <2>4 DEF Following
    <3> QED BY <2>1, <3>1
  <2>5. CASE ~Indentation(Tok(m) + 1)
    <3>1. Following(m) = m + 2
      BY <2>5 DEF Following
    <3> QED BY <2>1, <2>2, <3>1
  <2> QED BY <2>4, <2>5
<1>11. ASSUME NEW m \in Created
       PROVE  /\ next[m] = 0 => \A k \in Created : k <= m
              /\ next[m] # 0 => /\ next[m] \in Created /\ next[m] > m
                                /\ \A k \in Created : k > m => next[m] <= k
  <2>1. m \in Nodes /\ m \in Nat /\ Scans(m) /\ 2 * Tok(m) = m /\ Tok(m) \in 1..NTok
    BY <1>3, <1>7, <1>8
  <2>2. next[m] = IF Tok(m) < NTok /\ Following(m) \in Nodes THEN Following(m) ELSE 0
    BY <1>4, <2>1
  <2>3. Following(m) \in Nat /\ Following(m) > m
    BY <2>1 DEF Following
  <2>4. ASSUME next[m] = 0, NEW k \in Created PROVE k <= m
    <3>1. k \in Nat /\ k \in Nodes /\ 2 * Tok(k) = k /\ Tok(k) \in 1..NTok
      BY <1>3, <1>8
    <3>2. SUFFICES ASSUME m < k PROVE FALSE
      BY <2>1, <3>1
    <3>3. Following(m) <= k
      BY <1>10, <3>2
    <3>4. Following(m) \in Nodes
      BY <1>2, <2>1, <2>3, <3>1, <3>3
    <3>5. Tok(m) < NTok
      BY <1>2, <2>1, <3>1, <3>2
    <3> QED BY <2>2, <2>3, <2>4, <3>4, <3>5, <2>1
  <2>5. ASSUME next[m] # 0
        PROVE  /\ next[m] \in Created /\ next[m] > m
               /\ \A k \in Created : k > m => next[m] <= k
    <3>1. next[m] = Following(m)
      BY <2>2, <2>5
    <3>2. next[m] \in Created
      <4>1. next[m] # NULL => type[next[m]] # "free"
        BY <1>1, <2>1 DEF IInv, LinksGoForward
      <4>2. next[m] \in Nodes
        BY <2>2, <2>5
      <4> QED BY <2>5, <4>1, <4>2 DEF Created, NULL
    <3> QED BY <1>8, <1>10, <2>1, <2>3, <3>1, <3>2
  <2> QED BY <2>4, <2>5
<1>12. Preorder(Created, par)
  <2>1. Created \subseteq Nat \ {0, 1}
    BY <1>8
  <2> HIDE DEF par
  <2> QED BY <1>8, <1>9, <2>1 DEF Preorder
<1>13. Heads(Created, par, child, tail)
  <2> HIDE DEF par
  <2> QED BY <1>4, <1>8 DEF Heads
<1>14. Links(Created, par, next)
  <2> HIDE DEF par
  <2> QED BY <1>8, <1>11 DEF Links
<1>15. Shaped(par) /\ par \in [Nodes -> Ref]
  <2>1. Shaped(par)
    BY <1>12, <1>13, <1>14 DEF Shaped, Tree
  <2> QED BY <2>1 DEF Ref, NULL
<1>16. Placed(par)
  <2> HIDE DEF par
  <2> QED BY <1>4, <1>15, FirstPlace
<1> HIDE DEF par
<1>17. Complete(par)
  <2>1. \A m \in Nodes : type[m] \notin PairTypes
    <3> TAKE m \in Nodes
    <3>1. type[m] = IF Scans(m) THEN InitialType(src[Tok(m)]) ELSE "free"
      BY <1>4
    <3>2. src[Tok(m)] \in Kinds /\ "free" \notin PairTypes
      BY <1>3 DEF PairTypes
    <3> QED BY <1>5, <3>1, <3>2
  <2> QED BY <1>15, <2>1, FirstComplete
<1> QED BY <1>1, <1>6, <1>15, <1>16, <1>17 DEF TInv

\* TInv is inductive: whatever the parser does next, it is kept.
LEMMA NextShapes == TInv /\ [Next]_vars => TInv'
<1> SUFFICES ASSUME TInv, [Next]_vars PROVE TInv'
  OBVIOUS
<1>0. IInv'
  BY NextInv DEF TInv
<1>1. CASE VisitOpener \/ VisitSubDivider \/ VisitCloser \/ VisitBacktick
           \/ VisitCloseOrOpen \/ VisitEmphasis \/ VisitSuperscript \/ Skip
  BY <1>0, <1>1, VisitsShape
<1>2. CASE Descend
  BY <1>0, <1>2, DescendShapes
<1>3. CASE Return
  BY <1>0, <1>3, ReturnShapes
<1>4. CASE pair_emphasis_tokens
  BY <1>0, <1>4, EmphasisShapes
<1>5. CASE NextPass
  BY <1>0, <1>5, NextPassShapes
<1>6. CASE UNCHANGED vars
  <2>1. /\ src' = src /\ type' = type /\ next' = next /\ child' = child /\ tail' = tail
        /\ stack' = stack /\ frames' = frames /\ pass' = pass /\ NULL' = NULL
    BY <1>6 DEF vars, tree, NULL
  <2>2. (\A m \in Nodes : Fits(m)') /\ Created' = Created
    BY <2>1, FitsStays DEF TInv
  <2>3. ASSUME NEW par \in [Nodes -> Ref], Shaped(par), Placed(par)
        PROVE  Placed(par)'
    <3>1. Depth' = Depth
      BY <2>1 DEF Depth
    <3>2. ASSUME NEW k \in 1..Depth PROVE PlacedAt(par, k)'
      <4>1. PlacedAt(par, k)
        BY <2>3 DEF Placed
      <4>2. ParentOf(k)' = ParentOf(k) /\ First(k)' = First(k) /\ Last(k)' = Last(k)
        BY <2>1, <3>1 DEF ParentOf, First, Last
      <4> QED BY <2>1, <2>2, <4>1, <4>2 DEF PlacedAt
    <3> QED BY <3>1, <3>2 DEF Placed
  <2>4. ASSUME NEW par \in [Nodes -> Ref], Complete(par) PROVE Complete(par)'
    BY <2>1, <2>2, <2>4, TypesComplete
  <2> QED BY <1>0, <2>1, <2>2, <2>3, <2>4, TypesOnly
<1> QED BY <1>1, <1>2, <1>3, <1>4, <1>5, <1>6 DEF Next

\* The chains always form a tree of the allocated nodes, for every text.
LEMMA ShapeInvariance == Spec => []TInv
<1> QED BY InitShapes, NextShapes, PTL DEF Spec
-----------------------------------------------------------------------------
(* What the properties say of walks and chains.                            *)

\* s holds the members of R, each once and in ascending order.
Lists(s, R) ==
    /\ s \in Seq(Nat)
    /\ {s[i] : i \in 1..Len(s)} = R
    /\ \A i, j \in 1..Len(s) : i < j => s[i] < s[j]

\* A list of the smaller members and one of the larger ones make up one list.
LEMMA ListsConcat ==
    ASSUME NEW s, NEW t, NEW R, NEW T, Lists(s, R), Lists(t, T),
           \A i \in R : \A j \in T : i < j
    PROVE  Lists(s \o t, R \cup T)
<1>1. /\ s \in Seq(Nat) /\ t \in Seq(Nat) /\ s \o t \in Seq(Nat)
      /\ Len(s) \in Nat /\ Len(t) \in Nat /\ Len(s \o t) = Len(s) + Len(t)
      /\ \A i \in 1..(Len(s) + Len(t)) : (s \o t)[i] = IF i <= Len(s) THEN s[i] ELSE t[i - Len(s)]
  BY ConcatProperties, LenProperties DEF Lists
<1>2. /\ \A i \in 1..Len(s) : s[i] \in R
      /\ \A k \in R : \E i \in 1..Len(s) : s[i] = k
      /\ \A i \in 1..Len(t) : t[i] \in T
      /\ \A k \in T : \E i \in 1..Len(t) : t[i] = k
      /\ \A i, j \in 1..Len(s) : i < j => s[i] < s[j]
      /\ \A i, j \in 1..Len(t) : i < j => t[i] < t[j]
  BY DEF Lists
<1> DEFINE u == s \o t
<1> HIDE DEF u
<1>3. Len(u) = Len(s) + Len(t) /\ u \in Seq(Nat)
  BY <1>1 DEF u
<1>4. \A i \in 1..Len(s) : i \in 1..Len(u) /\ u[i] = s[i]
  BY <1>1, <1>3 DEF u
<1>5. \A i \in 1..Len(t) : Len(s) + i \in 1..Len(u) /\ u[Len(s) + i] = t[i]
  <2> TAKE i \in 1..Len(t)
  <2>1. Len(s) + i \in 1..Len(u) /\ ~(Len(s) + i <= Len(s)) /\ (Len(s) + i) - Len(s) = i
    BY <1>1, <1>3
  <2> QED BY <1>1, <1>3, <2>1 DEF u
<1>6. \A i \in 1..Len(u) : \/ i \in 1..Len(s)
                           \/ i > Len(s) /\ i - Len(s) \in 1..Len(t) /\ u[i] = t[i - Len(s)]
  <2> TAKE i \in 1..Len(u)
  <2>1. i \in 1..Len(s) \/ (i > Len(s) /\ i - Len(s) \in 1..Len(t))
    BY <1>1, <1>3
  <2>2. i > Len(s) => u[i] = t[i - Len(s)]
    BY <1>1, <1>3 DEF u
  <2> QED BY <2>1, <2>2
<1>7. {u[i] : i \in 1..Len(u)} = R \cup T
  <2>1. \A i \in 1..Len(u) : u[i] \in R \cup T
    BY <1>2, <1>4, <1>6
  <2>2. \A k \in R : \E i \in 1..Len(u) : u[i] = k
    BY <1>2, <1>4
  <2>3. \A k \in T : \E i \in 1..Len(u) : u[i] = k
    BY <1>2, <1>5
  <2> QED BY <2>1, <2>2, <2>3
<1>8. ASSUME NEW i \in 1..Len(u), NEW j \in 1..Len(u), i < j
      PROVE  u[i] < u[j]
  <2>1. CASE j \in 1..Len(s)
    <3>1. i \in 1..Len(s)
      BY <1>1, <1>8, <2>1
    <3> QED BY <1>2, <1>4, <1>8, <2>1, <3>1
  <2>2. CASE i \in 1..Len(s) /\ j \notin 1..Len(s)
    <3>1. u[i] \in R /\ u[j] \in T
      BY <1>2, <1>4, <1>6, <2>2
    <3> QED BY <3>1
  <2>3. CASE i \notin 1..Len(s) /\ j \notin 1..Len(s)
    <3>1. /\ i - Len(s) \in 1..Len(t) /\ u[i] = t[i - Len(s)]
          /\ j - Len(s) \in 1..Len(t) /\ u[j] = t[j - Len(s)]
      BY <1>6, <2>3
    <3>2. i - Len(s) < j - Len(s)
      BY <1>1, <1>3, <1>8
    <3> QED BY <1>2, <3>1, <3>2
  <2> QED BY <2>1, <2>2, <2>3
<1>9. Lists(u, R \cup T)
  BY <1>3, <1>7, <1>8 DEF Lists
<1> QED BY <1>9 DEF u

\* The equation of the walk
Walks(w, S) ==
    \A m \in S : w[m] = IF m = NULL THEN <<>> ELSE <<m>> \o w[child[m]] \o w[next[m]]

\* As all links lead forward, there is a function that solves it.
LEMMA WalkExists ==
    ASSUME TypeOK, LinksGoForward
    PROVE  \E w \in [Ref -> Seq(Nat)] : Walks(w, Ref)
<1>1. /\ NTok \in Nat \ {0} /\ Nodes = 2..(2 * NTok + 1) /\ NULL = 0 /\ Ref = Nodes \cup {0}
      /\ child \in [Nodes -> Ref] /\ next \in [Nodes -> Ref]
      /\ \A m \in Ref : m \in Nat
  BY NodesAreNumbers DEF Nodes, NULL, Ref, TypeOK
<1>2. \A m \in Nodes : /\ child[m] \in Ref /\ (child[m] # 0 => child[m] > m)
                       /\ next[m] \in Ref /\ (next[m] # 0 => next[m] > m)
  BY <1>1 DEF LinksGoForward
<1> DEFINE top == 2 * NTok + 2
           From(k) == {m \in Ref : m = 0 \/ k <= m}
           S == {k \in 2..top : ~\E w \in [Ref -> Seq(Nat)] : Walks(w, From(k))}
<1>3. top \in Nat /\ S \subseteq 0..top
  BY <1>1
<1>4. S = {}
  <2>1. SUFFICES ASSUME S # {} PROVE FALSE
    OBVIOUS
  <2>2. PICK k \in S : \A j \in S : j <= k
    <3> HIDE DEF S, top
    <3> QED BY <1>3, <2>1, GreatestExists
  <2>3. k \in 2..top /\ k \in Nat
    BY <1>1
  <2>4. CASE k = top
    <3> DEFINE w == [m \in Ref |-> <<>>]
    <3>1. w \in [Ref -> Seq(Nat)]
      BY EmptySeq
    <3>2. \A m \in From(k) : m = 0
      BY <1>1, <2>4
    <3>3. Walks(w, From(k))
      BY <1>1, <3>2 DEF Walks
    <3> QED BY <2>2, <3>1, <3>3
  <2>5. CASE k # top
    <3>1. k + 1 \in 2..top /\ k + 1 > k
      BY <1>3, <2>3, <2>5
    <3>2. k + 1 \notin S
      <4> HIDE DEF S, top
      <4>1. SUFFICES ASSUME k + 1 \in S PROVE FALSE
        OBVIOUS
      <4>2. k + 1 <= k
        BY <2>2, <4>1
      <4> QED BY <2>3, <4>2
    <3>3. PICK w \in [Ref -> Seq(Nat)] : Walks(w, From(k + 1))
      BY <3>1, <3>2
    <3>4. k \in Nodes /\ k \in Ref
      BY <1>1, <2>3, <2>5
    <3> DEFINE now == <<k>> \o w[child[k]] \o w[next[k]]
               v == [w EXCEPT ![k] = now]
    <3>5. now \in Seq(Nat)
      <4> HIDE DEF S, top
      <4>1. <<k>> \in Seq(Nat) /\ w[child[k]] \in Seq(Nat) /\ w[next[k]] \in Seq(Nat)
        <5>1. child[k] \in Ref /\ next[k] \in Ref
          BY <1>2, <3>4
        <5>2. w[child[k]] \in Seq(Nat) /\ w[next[k]] \in Seq(Nat)
          BY <3>3, <5>1
        <5>3. <<k>> \in Seq(Nat)
          BY <2>3
        <5> QED BY <5>2, <5>3
      <4>2. <<k>> \o w[child[k]] \in Seq(Nat)
        BY <4>1, ConcatProperties
      <4> QED BY <4>1, <4>2, ConcatProperties
    <3> HIDE DEF now
    <3>6. v \in [Ref -> Seq(Nat)] /\ \A m \in Ref : v[m] = IF m = k THEN now ELSE w[m]
      BY <3>5
    <3> HIDE DEF v
    <3>7. Walks(v, From(k))
      <4>1. ASSUME NEW m \in From(k)
            PROVE  v[m] = IF m = NULL THEN <<>> ELSE <<m>> \o v[child[m]] \o v[next[m]]
        <5>1. m \in Ref /\ m \in Nat /\ (m = 0 \/ k <= m)
          BY <1>1
        <5>2. CASE m = 0
          <6>1. m # k /\ m \in From(k + 1)
            BY <2>3, <5>1, <5>2
          <6> QED BY <1>1, <3>3, <3>6, <5>1, <5>2, <6>1 DEF Walks
        <5>3. CASE m # 0
          <6>1. m \in Nodes /\ k <= m
            BY <1>1, <5>1, <5>3
          <6>2. child[m] \in Ref /\ next[m] \in Ref /\ child[m] # k /\ next[m] # k
            <7>1. child[m] \in Ref /\ next[m] \in Ref /\ (child[m] # 0 => child[m] > m)
                  /\ (next[m] # 0 => next[m] > m)
              BY <1>2, <6>1
            <7>2. k # 0 /\ child[m] \in Nat /\ next[m] \in Nat
              BY <1>1, <2>3, <7>1
            <7> QED BY <2>3, <5>1, <6>1, <7>1, <7>2
          <6>3. v[child[m]] = w[child[m]] /\ v[next[m]] = w[next[m]]
            BY <3>6, <6>2
          <6>4. CASE m = k
            BY <1>1, <3>6, <5>1, <5>3, <6>3, <6>4 DEF now
          <6>5. CASE m # k
            <7>1. m \in From(k + 1)
              BY <2>3, <5>1, <6>1, <6>5
            <7> QED BY <1>1, <3>3, <3>6, <5>1, <5>3, <6>3, <6>5, <7>1 DEF Walks
          <6> QED BY <6>4, <6>5
        <5> QED BY <5>2, <5>3
      <4> HIDE DEF From
      <4> QED BY <4>1 DEF Walks
    <3> QED BY <2>2, <3>6, <3>7
  <2> QED BY <2>4, <2>5
<1>5. 2 \in 2..top /\ From(2) = Ref
  BY <1>1
<1> QED BY <1>4, <1>5

\* Each part of the walk lists the rest of the tree from its node on.
LEMMA WalkLists ==
    ASSUME TypeOK, NEW par, Shaped(par), NEW w, Walks(w, Ref)
    PROVE  \A m \in Created : Lists(w[m], Rest(Created, par, m))
<1>1. /\ NTok \in Nat \ {0} /\ Nodes = 2..(2 * NTok + 1) /\ NULL = 0 /\ Ref = Nodes \cup {0}
      /\ \A m \in Ref : m \in Nat
      /\ Created \subseteq Nodes
  BY NodesAreNumbers DEF Nodes, NULL, Ref, TypeOK, Created
<1> DEFINE top == 2 * NTok + 1
           S == {m \in Created : ~Lists(w[m], Rest(Created, par, m))}
<1>2. top \in Nat /\ S \subseteq 0..top
  <2>1. top \in Nat /\ Nodes \subseteq 0..top
    BY <1>1
  <2>2. S \subseteq Created
    OBVIOUS
  <2> HIDE DEF S, top
  <2> QED BY <1>1, <2>1, <2>2
<1>3. S = {}
  <2>1. SUFFICES ASSUME S # {} PROVE FALSE
    OBVIOUS
  <2>2. PICK m \in S : \A j \in S : j <= m
    <3> HIDE DEF S, top
    <3> QED BY <1>2, <2>1, GreatestExists
  <2>3. m \in Created /\ m \in Nodes /\ m \in Ref /\ m \in Nat /\ m # 0
    BY <1>1
  <2> DEFINE C == RestOf(Created, par, child[m])
             X == RestOf(Created, par, next[m])
  <2>4. NodeOf(Created, par, child, next, tail, m)
    BY <2>3 DEF NodeOf, Shaped
  <2>5. /\ Rest(Created, par, m) = {m} \cup C \cup X
        /\ \A i \in C \cup X : m < i
        /\ \A i \in C : \A j \in X : i < j
    BY <2>4, RestSplits
  <2>6. /\ child[m] # 0 => child[m] \in Created /\ par[child[m]] = m
        /\ next[m] # 0 => next[m] \in Created /\ next[m] > m
        /\ \A i \in Created : par[i] < i
    BY <2>3 DEF Shaped, Tree, Heads, Links, Preorder
  <2>7. Lists(<<>>, {})
    <3>1. <<>> \in Seq(Nat) /\ Len(<<>>) = 0
      BY EmptySeq
    <3> QED BY <3>1 DEF Lists
  <2>8. w[0] = <<>>
    BY <1>1 DEF Walks
  <2>9. \A j \in Created : m < j => Lists(w[j], Rest(Created, par, j))
    <3> TAKE j \in Created
    <3> HAVE m < j
    <3>1. j \in Nat
      BY <1>1
    <3>2. j \notin S
      BY <2>2, <2>3, <3>1
    <3> QED BY <3>2
  <2>10. Lists(w[child[m]], C)
    <3>1. CASE child[m] = 0
      BY <2>7, <2>8, <3>1 DEF RestOf
    <3>2. CASE child[m] # 0
      <4>1. child[m] \in Created /\ m < child[m]
        BY <2>6, <3>2
      <4> QED BY <2>9, <3>2, <4>1 DEF RestOf
    <3> QED BY <3>1, <3>2
  <2>11. Lists(w[next[m]], X)
    <3>1. CASE next[m] = 0
      BY <2>7, <2>8, <3>1 DEF RestOf
    <3>2. CASE next[m] # 0
      <4>1. next[m] \in Created /\ m < next[m]
        BY <2>6, <3>2
      <4> QED BY <2>9, <3>2, <4>1 DEF RestOf
    <3> QED BY <3>1, <3>2
  <2>12. Lists(<<m>>, {m})
    <3>1. <<m>> \in Seq(Nat) /\ Len(<<m>>) = 1 /\ <<m>>[1] = m
      BY <2>3
    <3> HIDE DEF S
    <3> QED BY <3>1 DEF Lists
  <2> HIDE DEF C, X
  <2>13. Lists(<<m>> \o w[child[m]], {m} \cup C)
    BY <2>5, <2>10, <2>12, ListsConcat
  <2>14. Lists((<<m>> \o w[child[m]]) \o w[next[m]], ({m} \cup C) \cup X)
    BY <2>5, <2>11, <2>13, ListsConcat
  <2>15. w[m] = <<m>> \o w[child[m]] \o w[next[m]]
    BY <1>1, <2>3 DEF Walks
  <2>16. Lists(w[m], Rest(Created, par, m))
    BY <2>5, <2>14, <2>15
  <2> QED BY <2>2, <2>16
<1> QED BY <1>3

\* What is reached from a node along next: the nodes of its chain from it on
LEMMA ChainReaches ==
    ASSUME TypeOK, LinksGoForward, \A m \in Nodes : Fits(m), NEW par, Shaped(par),
           NEW m \in Created
    PROVE  ChainOf(m) = {k \in Created : par[k] = par[m] /\ m <= k}
<1> DEFINE Eq(f) == f = [i \in Nodes |-> {i} \cup (IF next[i] = NULL THEN {} ELSE f[next[i]])]
           E == [i \in Nodes |-> IF i \in Created THEN {k \in Created : par[k] = par[i] /\ i <= k} ELSE {i}]
           f == CHOOSE g : Eq(g)
<1>1. /\ NTok \in Nat \ {0} /\ Nodes = 2..(2 * NTok + 1) /\ NULL = 0 /\ Created \subseteq Nodes
      /\ \A i \in Created : i \in Nat /\ i # 0
      /\ DOMAIN next = Nodes
  BY NodesAreNumbers DEF Nodes, NULL, Ref, TypeOK, Created
<1>2. \A i \in Created :
        /\ next[i] = 0 => \A k \in Created : par[k] = par[i] => k <= i
        /\ next[i] # 0 => /\ next[i] \in Created /\ par[next[i]] = par[i] /\ next[i] > i
                          /\ \A k \in Created : par[k] = par[i] /\ k > i => next[i] <= k
  BY DEF Shaped, Tree, Links
<1>3. \A i \in Nodes : i \notin Created => next[i] = 0
  BY <1>1 DEF Created, Fits
<1>4. \A i \in Nodes : E[i] = {i} \cup (IF next[i] = NULL THEN {} ELSE E[next[i]])
  <2> TAKE i \in Nodes
  <2>1. CASE i \notin Created
    BY <1>1, <1>3, <2>1
  <2>2. CASE i \in Created /\ next[i] = 0
    <3>1. \A k \in Created : par[k] = par[i] /\ i <= k <=> k = i
      <4> TAKE k \in Created
      <4>1. k \in Nat /\ i \in Nat
        BY <1>1, <2>2
      <4> QED BY <1>2, <2>2, <4>1
    <3> QED BY <1>1, <2>2, <3>1
  <2>3. CASE i \in Created /\ next[i] # 0
    <3>1. /\ next[i] \in Created /\ next[i] \in Nodes /\ par[next[i]] = par[i] /\ next[i] > i
          /\ \A k \in Created : par[k] = par[i] /\ k > i => next[i] <= k
      BY <1>1, <1>2, <2>3
    <3>2. E[next[i]] = {k \in Created : par[k] = par[i] /\ next[i] <= k}
      BY <3>1
    <3>3. E[i] = {k \in Created : par[k] = par[i] /\ i <= k}
      BY <2>3
    <3>4. \A k \in Created : par[k] = par[i] /\ i <= k <=> k = i \/ (par[k] = par[i] /\ next[i] <= k)
      <4> TAKE k \in Created
      <4>1. k \in Nat /\ i \in Nat /\ next[i] \in Nat
        BY <1>1, <2>3, <3>1
      <4>2. k > i \/ k = i \/ k < i
        BY <4>1
      <4> QED BY <3>1, <4>1, <4>2
    <3> HIDE DEF E
    <3> QED BY <1>1, <2>3, <3>2, <3>3, <3>4
  <2> QED BY <2>1, <2>2, <2>3
<1>5. Eq(E)
  <2> DEFINE R == [i \in Nodes |-> {i} \cup (IF next[i] = NULL THEN {} ELSE E[next[i]])]
  <2>1. \A i \in Nodes : R[i] = E[i]
    <3> HIDE DEF E
    <3> QED BY <1>4
  <2>2. DOMAIN E = Nodes /\ DOMAIN R = Nodes /\ E = [i \in DOMAIN E |-> E[i]] /\ R = [i \in DOMAIN R |-> R[i]]
    OBVIOUS
  <2> HIDE DEF E, R
  <2>3. E = R
    BY <2>1, <2>2
  <2> QED BY <2>3 DEF R
<1>6. Eq(f)
  <2> HIDE DEF Eq
  <2> QED BY <1>5
<1>7. \A i \in Nodes : f[i] = {i} \cup (IF next[i] = NULL THEN {} ELSE f[next[i]])
  <2> HIDE DEF f
  <2> QED BY <1>6
<1>8. ChainOf(m) = f[m]
  BY DEF ChainOf
<1> HIDE DEF f, Eq
<1> DEFINE top == 2 * NTok + 1
           S == {i \in Nodes : f[i] # E[i]}
<1>9. S = {}
  <2>1. SUFFICES ASSUME S # {} PROVE FALSE
    OBVIOUS
  <2>2. top \in Nat /\ S \subseteq 0..top
    BY <1>1
  <2>3. PICK i \in S : \A j \in S : j <= i
    <3> HIDE DEF S, top
    <3> QED BY <2>1, <2>2, GreatestExists
  <2>4. i \in Nodes /\ i \in Nat
    BY <1>1
  <2> HIDE DEF E
  <2>5. CASE next[i] = 0
    BY <1>1, <1>4, <1>7, <2>3, <2>5
  <2>6. CASE next[i] # 0
    <3>1. next[i] > i /\ next[i] \in Nodes /\ next[i] \in Nat
      BY <1>1, <2>4, <2>6 DEF LinksGoForward, TypeOK, Ref
    <3>2. next[i] \notin S
      BY <2>3, <2>4, <3>1
    <3>3. f[next[i]] = E[next[i]]
      BY <3>1, <3>2
    <3> QED BY <1>1, <1>4, <1>7, <2>3, <2>6, <3>3
  <2> QED BY <2>5, <2>6
<1>10. m \in Nodes /\ E[m] = {k \in Created : par[k] = par[m] /\ m <= k}
  BY <1>1
<1> QED BY <1>8, <1>9, <1>10

\* The shape of the tree is what TreeHoldsText says in terms of walks.
LEMMA ShapeHoldsText ==
    ASSUME TInv
    PROVE  TreeHoldsText
<1>1. PICK par \in [Nodes -> Ref] : Shaped(par)
  BY DEF TInv
<1>2. /\ TypeOK /\ LinksGoForward /\ NULL = 0 /\ 2 \in Created
      /\ \A m \in Nodes : Fits(m)
  BY <1>1 DEF TInv, IInv, NULL, Shaped, Tree, Preorder
<1>3. NoTokenLost
  <2> DEFINE Eq(w) == w = [m \in Ref |-> IF m = NULL THEN <<>> ELSE <<m>> \o w[child[m]] \o w[next[m]]]
             f == CHOOSE w : Eq(w)
  <2>1. PICK w \in [Ref -> Seq(Nat)] : Walks(w, Ref)
    BY <1>2, WalkExists
  <2>2. Eq(w)
    BY <2>1 DEF Walks
  <2>3. Eq(f)
    <3> HIDE DEF Eq
    <3> QED BY <2>2
  <2>4. Walks(f, Ref)
    <3> HIDE DEF f
    <3> QED BY <2>3 DEF Walks
  <2>5. Walk = f[2]
    BY DEF Walk
  <2> HIDE DEF f, Eq
  <2>6. Lists(f[2], Rest(Created, par, 2))
    BY <1>1, <1>2, <2>4, WalkLists
  <2>7. Lists(Walk, Created)
    BY <1>1, <2>5, <2>6, RestOfFirst DEF Shaped, Tree
  <2>8. /\ {Walk[i] : i \in 1..Len(Walk)} = Created
        /\ \A i, j \in 1..Len(Walk) : i < j => Walk[i] < Walk[j]
        /\ Len(Walk) \in Nat
    BY <2>7, LenProperties DEF Lists
  <2>9. \A i \in 1..(Len(Walk) - 1) : Walk[i] < Walk[i + 1]
    <3> TAKE i \in 1..(Len(Walk) - 1)
    <3>1. i \in 1..Len(Walk) /\ i + 1 \in 1..Len(Walk) /\ i < i + 1
      BY <2>8
    <3> QED BY <2>8, <3>1
  <2> HIDE DEF Walk
  <2> QED BY <2>8, <2>9 DEF NoTokenLost
<1>4. ASSUME NEW m \in Nodes, child[m] # NULL
      PROVE  tail[child[m]] \in ChainOf(child[m]) /\ next[tail[child[m]]] = NULL
  <2>1. m \in Created
    BY <1>2, <1>4 DEF Created, Fits, PairTypes
  <2>2. /\ child[m] \in Created /\ par[child[m]] = m
        /\ tail[child[m]] \in Created /\ par[tail[child[m]]] = m
        /\ \A k \in Created : par[k] = m => child[m] <= k /\ k <= tail[child[m]]
    BY <1>1, <1>2, <1>4, <2>1 DEF Shaped, Tree, Heads
  <2>3. tail[child[m]] \in ChainOf(child[m])
    BY <1>1, <1>2, <2>2, ChainReaches
  <2> DEFINE t == tail[child[m]]
  <2>4. next[t] = NULL
    <3>1. ASSUME next[t] # 0 PROVE FALSE
      <4>1. next[t] \in Created /\ par[next[t]] = m /\ next[t] > t
        BY <1>1, <2>2, <3>1 DEF Shaped, Tree, Links
      <4>2. next[t] <= t
        BY <2>2, <4>1
      <4>3. \A i \in Created : i \in Nat
        BY <1>1 DEF Shaped, Tree, Preorder
      <4>4. t \in Nat /\ next[t] \in Nat
        BY <2>2, <4>1, <4>3
      <4> HIDE DEF t
      <4> QED BY <4>1, <4>2, <4>4
    <3> QED BY <1>2, <3>1
  <2> QED BY <2>3, <2>4
<1>5. TailIsLast
  BY <1>4 DEF TailIsLast, ChainOf
<1> QED BY <1>3, <1>5 DEF TreeHoldsText

\* However the passes cut the chains up, and whatever the text: the chains stay
\* a tree in which a walk meets every token of the text once and in text order,
\* and the tail of each child chain is its last node.
THEOREM TreeIsWhole == Spec => []TreeHoldsText
<1>1. TInv => TreeHoldsText
  BY ShapeHoldsText
<1> QED BY <1>1, ShapeInvariance, PTL

\* Once a pass has ended, the closing tokens it looks for are all visited.
LEMMA ChainIsPaired ==
    ASSUME TInv, frames = <<>>, NEW t \in Closing, pass >= PassOf(t),
           NEW m \in ({2} \cup {child[o] : o \in Nodes}) \ {NULL}
    PROVE  NonePairable(m, MateOf[t], t, PairsOf[t])
<1>1. PICK par \in [Nodes -> Ref] : Shaped(par) /\ Complete(par)
  BY DEF TInv
<1>2. /\ TypeOK /\ LinksGoForward /\ NULL = 0 /\ 2 \in Created
      /\ \A k \in Nodes : Fits(k)
  BY <1>1 DEF TInv, IInv, NULL, Shaped, Tree, Preorder
<1>3. m \in Created
  <2>1. CASE m = 2
    BY <1>2, <2>1
  <2>2. CASE m # 2
    <3>1. PICK o \in Nodes : m = child[o] /\ child[o] # 0
      BY <1>2, <2>2
    <3>2. o \in Created
      BY <1>2, <3>1 DEF Created, Fits, PairTypes
    <3> QED BY <1>1, <3>1, <3>2 DEF Shaped, Tree, Heads
  <2> QED BY <2>1, <2>2
<1>4. ChainOf(m) = {k \in Created : par[k] = par[m] /\ m <= k}
  BY <1>1, <1>2, <1>3, ChainReaches
<1>5. Pending(par) = {}
  <2>1. Depth = 0
    BY EmptySeq DEF Depth
  <2> QED BY <2>1 DEF Pending
<1>6. ASSUME NEW x \in Created, NEW c \in Created, par[x] = par[c], x < c,
             type[x] = MateOf[t], type[c] = t
      PROVE  ~Unpaired(c, PairsOf[t])
  <2>1. Visited(par, c)
    <3>1. pass > PassOf(t) \/ pass = PassOf(t)
      BY <1>2 DEF TypeOK, PassOf
    <3> QED BY <1>5, <1>6, <3>1 DEF Visited
  <2>2. Paired(c)
    BY <1>1, <1>6, <2>1 DEF Complete, Maximal
  <2> QED BY <1>6, <2>2 DEF Paired, Unpaired, Created
<1>7. SUFFICES ASSUME NEW x \in ChainOf(m), NEW c \in ChainOf(m), x < c, type[x] = MateOf[t], type[c] = t
               PROVE  ~Unpaired(c, PairsOf[t])
  BY DEF NonePairable
<1> QED BY <1>4, <1>6, <1>7

\* Whatever the text, no pass ends with a closing bracket, parenthesis or
\* CriticMarkup addition of a chain unpaired behind an opener of its kind: each
\* opener that was visited is on the stack or in a pair, and the counters never
\* tell token_closes to give up while one of them is there.
THEOREM PairsAreMaximal == Spec => []PairingIsMaximal
<1>1. ASSUME TInv PROVE PairingIsMaximal
  <2>1. SUFFICES ASSUME frames = <<>>, NEW m \in ({2} \cup {child[o] : o \in Nodes}) \ {NULL}
                 PROVE  /\ NonePairable(m, "add_open", "add_close", {"p_add"})
                        /\ pass > 1 =>
                              /\ NonePairable(m, "brl", "brr", {"p_bracket", "p_footnote", "p_glossary"})
                              /\ NonePairable(m, "parl", "parr", {"p_paren"})
    BY DEF PairingIsMaximal
  <2>2. pass \in {1, 3, 4, 5}
    BY <1>1 DEF TInv, IInv, TypeOK
  <2>3. \A t \in Closing : pass >= PassOf(t) => NonePairable(m, MateOf[t], t, PairsOf[t])
    BY <1>1, <2>1, ChainIsPaired
  <2>4. {"add_close", "brr", "parr"} \subseteq Closing
        /\ PassOf("add_close") = 1 /\ PassOf("brr") = 3 /\ PassOf("parr") = 3
        /\ MateOf["add_close"] = "add_open" /\ PairsOf["add_close"] = {"p_add"}
        /\ MateOf["brr"] = "brl" /\ PairsOf["brr"] = {"p_bracket", "p_footnote", "p_glossary"}
        /\ MateOf["parr"] = "parl" /\ PairsOf["parr"] = {"p_paren"}
    BY DEF Closing, PassOf, MateOf, PairsOf
  <2>5. NonePairable(m, "add_open", "add_close", {"p_add"})
    <3>1. "add_close" \in Closing /\ pass >= PassOf("add_close")
      BY <2>2, <2>4
    <3> QED BY <2>3, <2>4, <3>1
  <2>6. pass > 1 => /\ NonePairable(m, "brl", "brr", {"p_bracket", "p_footnote", "p_glossary"})
                    /\ NonePairable(m, "parl", "parr", {"p_paren"})
    <3>1. pass > 1 => /\ "brr" \in Closing /\ pass >= PassOf("brr")
                      /\ "parr" \in Closing /\ pass >= PassOf("parr")
      BY <2>2, <2>4
    <3> QED BY <2>3, <2>4, <3>1
  <2> QED BY <2>5, <2>6
<1> QED BY <1>1, ShapeInvariance, PTL
=============================================================================
