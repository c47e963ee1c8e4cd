--------------------------- MODULE NodePoolProofs ---------------------------
(***************************************************************************)
(* For memory of every size and every first capacity: the pool hands out   *)
(* the nodes of its slabs one after the other, none of them twice.  The    *)
(* inductive invariant is the conjunction of the two invariants; what is   *)
(* left of a slab is fresh only because the nodes are exactly what was     *)
(* used, and slabs do not overlap.                                         *)
(***************************************************************************)
EXTENDS NodePool, TLAPS

IInv == TypeOK /\ NodesFillSlabs

\* What the types say of the slabs.
LEMMA SlabTypes ==
    ASSUME TypeOK
    PROVE  /\ Len(slabs) \in Nat /\ DOMAIN slabs = 1..Len(slabs)
           /\ \A k \in DOMAIN slabs : slabs[k].start \in Nat \ {0} /\ slabs[k].size \in Nat \ {0}
           /\ slabs # <<>> =>
                  LET last == slabs[Len(slabs)]
                  IN  /\ Len(slabs) \in DOMAIN slabs
                      /\ next \in last.start..end
                      /\ end = last.start + last.size
                      /\ end <= HeapSize + 1
<1>1. slabs \in Seq(Slab)
  BY DEF TypeOK
<1>2. Len(slabs) \in Nat /\ DOMAIN slabs = 1..Len(slabs)
  BY <1>1
<1>3. ASSUME NEW k \in DOMAIN slabs
      PROVE  slabs[k].start \in Nat \ {0} /\ slabs[k].size \in Nat \ {0}
  <2>1. slabs[k] \in Slab
    BY <1>1
  <2> QED BY <2>1, HeapAssumption DEF Slab, Addresses
<1>4. slabs # <<>> => Len(slabs) \in DOMAIN slabs
  BY <1>1
<1> QED BY <1>2, <1>3, <1>4 DEF TypeOK

\* The initial slab, if there is one, is empty.
LEMMA Initially == Init => IInv
<1> SUFFICES ASSUME Init PROVE IInv
  OBVIOUS
<1>1. CASE slabs = <<>> /\ next = NULL /\ end = NULL /\ slab_capacity = StartingCapacity
  BY <1>1, HeapAssumption DEF Init, IInv, TypeOK, NodesFillSlabs, Used, NULL
<1>2. ASSUME NEW slab \in Addresses,
             Block(slab, StartingCapacity) \subseteq Addresses,
             slabs = <<[start |-> slab, size |-> StartingCapacity]>>,
             next = slab, end = SlabEnd(slab, StartingCapacity),
             slab_capacity = StartingCapacity * kGrowthMultiplier
      PROVE  IInv
  <2> USE HeapAssumption DEF Addresses, SlabEnd, EndOf, kGrowthMultiplier
  <2>1. slab + StartingCapacity - 1 \in Block(slab, StartingCapacity)
    BY DEF Block
  <2>2. slabs \in Seq(Slab) /\ Len(slabs) = 1 /\ slabs # <<>>
    <3>1. [start |-> slab, size |-> StartingCapacity] \in Slab
      BY DEF Slab
    <3> QED BY <1>2, <3>1
  <2>3. slab + StartingCapacity <= HeapSize + 1
    BY <2>1, <1>2
  <2>4. slabs[1].start = slab /\ slabs[1].size = StartingCapacity
    BY <1>2
  <2>5. TypeOK
    BY <1>2, <2>2, <2>3, <2>4 DEF Init, TypeOK
  <2>6. DOMAIN slabs = {1} /\ Used(1) = {}
    BY <2>2, <2>4, <1>2 DEF Used
  <2>7. NodesFillSlabs
    BY <2>6 DEF Init, NodesFillSlabs
  <2> QED BY <2>5, <2>7 DEF IInv
<1> QED BY <1>1, <1>2 DEF Init

\* What is left of the last slab is fresh.
LEMMA NextIsFresh ==
    ASSUME IInv, next < end
    PROVE  /\ slabs # <<>> /\ Len(slabs) \in DOMAIN slabs
           /\ next \in Addresses \ nodes
<1> USE HeapAssumption DEF IInv
<1>1. slabs # <<>> /\ Len(slabs) \in DOMAIN slabs
  <2>1. slabs # <<>>
    BY DEF TypeOK, NULL
  <2> QED BY <2>1, SlabTypes
<1>2. /\ slabs[Len(slabs)].start \in Nat \ {0} /\ slabs[Len(slabs)].size \in Nat \ {0}
      /\ next \in slabs[Len(slabs)].start..end
      /\ end = slabs[Len(slabs)].start + slabs[Len(slabs)].size
      /\ end <= HeapSize + 1
  BY <1>1, SlabTypes
<1>3. next \in SlabNodes(Len(slabs))
  BY <1>2 DEF SlabNodes, Block
<1>4. ASSUME NEW k \in DOMAIN slabs PROVE next \notin Used(k)
  <2>1. k \in Nat /\ k <= Len(slabs) /\ Len(slabs) \in Nat
    BY DEF TypeOK
  <2>2. CASE k < Len(slabs)
    BY <2>1, <2>2, <1>1, <1>3 DEF NodesFillSlabs, Used
  <2>3. CASE k = Len(slabs)
    BY <2>1, <2>3, <1>2 DEF Used
  <2> QED BY <2>1, <2>2, <2>3
<1>5. next \notin nodes
  BY <1>4 DEF NodesFillSlabs
<1>6. next \in Addresses
  BY <1>2 DEF Addresses
<1> QED BY <1>1, <1>5, <1>6

\* A new slab is fresh, and so is its first node.
LEMMA SlabIsFresh ==
    ASSUME IInv, NEW slab \in calloc(slab_capacity)
    PROVE  slab \in Addresses \ nodes
<1> USE HeapAssumption DEF IInv
<1>1. slab \in Addresses /\ slab \in Block(slab, slab_capacity)
  BY DEF calloc, TypeOK, Block, Addresses
<1>2. ASSUME NEW k \in DOMAIN slabs PROVE slab \notin Used(k)
  <2>1. slab \notin SlabNodes(k)
    BY <1>1 DEF calloc
  <2>2. /\ slabs[k].start \in Nat \ {0} /\ slabs[k].size \in Nat \ {0} /\ slabs # <<>>
        /\ k \in 1..Len(slabs) /\ Len(slabs) \in Nat
    BY SlabTypes
  <2>3. Used(k) \subseteq SlabNodes(k)
    <3>1. CASE k < Len(slabs)
      BY <3>1 DEF Used
    <3>2. CASE k = Len(slabs)
      BY <3>2, <2>2 DEF Used, SlabNodes, Block, TypeOK
    <3> QED BY <3>1, <3>2, <2>2
  <2> QED BY <2>1, <2>3
<1> QED BY <1>1, <1>2 DEF NodesFillSlabs

\* AllocateNext hands out one more node of the last slab.
LEMMA NextKeepsInvariant == IInv /\ AllocateNext => IInv'
<1> SUFFICES ASSUME IInv, AllocateNext PROVE IInv'
  OBVIOUS
<1> USE HeapAssumption
<1>1. slabs # <<>> /\ Len(slabs) \in DOMAIN slabs /\ next \in Addresses
  BY NextIsFresh DEF AllocateNext
<1>2. /\ slabs[Len(slabs)].start \in Nat /\ Len(slabs) \in Nat
      /\ next \in slabs[Len(slabs)].start..end /\ end \in Nat
  BY <1>1, SlabTypes DEF IInv
<1>3. TypeOK'
  <2>1. next' \in slabs[Len(slabs)].start..end
    BY <1>2 DEF AllocateNext, Addresses
  <2> QED BY <1>1, <2>1 DEF IInv, TypeOK, AllocateNext, Addresses
<1>4. ASSUME NEW k \in DOMAIN slabs
      PROVE  Used(k)' = IF k = Len(slabs) THEN Used(k) \cup {next} ELSE Used(k)
  <2>1. k \in 1..Len(slabs)
    BY DEF IInv, TypeOK
  <2>2. CASE k = Len(slabs)
    BY <2>2, <1>2 DEF Used, AllocateNext
  <2>3. CASE k < Len(slabs)
    BY <2>3, <1>2 DEF Used, AllocateNext, SlabNodes
  <2> QED BY <2>1, <2>2, <2>3, <1>2
<1>5. nodes' = UNION {Used(k)' : k \in DOMAIN slabs}
  <2>1. nodes' = {next} \cup UNION {Used(k) : k \in DOMAIN slabs}
    BY DEF IInv, NodesFillSlabs, AllocateNext
  <2> QED BY <2>1, <1>4, <1>1
<1>6. \A k, l \in DOMAIN slabs' : k # l => SlabNodes(k)' \cap SlabNodes(l)' = {}
  BY DEF IInv, NodesFillSlabs, AllocateNext, SlabNodes
<1>7. NodesFillSlabs'
  BY <1>5, <1>6 DEF NodesFillSlabs, AllocateNext
<1> QED BY <1>3, <1>7 DEF IInv

\* AllocateFromNewSlab adds a slab behind one that is used up.
LEMMA NewSlabKeepsInvariant == IInv /\ AllocateFromNewSlab => IInv'
<1> SUFFICES ASSUME IInv, AllocateFromNewSlab, NEW new, new = Len(slabs) + 1
             PROVE  IInv'
  OBVIOUS
<1> USE HeapAssumption
<1>1. PICK slab \in calloc(slab_capacity) :
          /\ slabs' = Append(slabs, [start |-> slab, size |-> slab_capacity])
          /\ end' = slab + slab_capacity
          /\ slab_capacity' = slab_capacity * 2
          /\ given' = slab
          /\ nodes' = nodes \cup {slab}
          /\ next' = slab + 1
  BY DEF AllocateFromNewSlab, SlabEnd, EndOf, kGrowthMultiplier
<1>2. /\ slabs \in Seq(Slab) /\ Len(slabs) \in Nat
      /\ slab_capacity \in Nat \ {0} /\ slab \in Nat \ {0} /\ slab \in Addresses
      /\ Block(slab, slab_capacity) \subseteq Addresses
  BY SlabTypes DEF IInv, TypeOK, calloc, Addresses
<1>3. /\ slabs' \in Seq(Slab) /\ slabs' # <<>>
      /\ Len(slabs') = new /\ DOMAIN slabs' = 1..new /\ DOMAIN slabs = 1..(new - 1)
      /\ slabs'[new] = [start |-> slab, size |-> slab_capacity]
      /\ \A k \in 1..(new - 1) : slabs'[k] = slabs[k]
  <2>1. [start |-> slab, size |-> slab_capacity] \in Slab
    BY <1>2 DEF Slab
  <2> QED BY <1>1, <1>2, <2>1
<1>4. TypeOK'
  <2>1. slab + slab_capacity - 1 \in Block(slab, slab_capacity)
    BY <1>2 DEF Block
  <2>2. slab + slab_capacity <= HeapSize + 1
    BY <2>1, <1>2 DEF Addresses
  <2> QED BY <1>1, <1>2, <1>3, <2>2 DEF TypeOK
<1>5. SlabNodes(new)' = Block(slab, slab_capacity)
  BY <1>3 DEF SlabNodes, Block
<1>6. ASSUME NEW k \in 1..(new - 1)
      PROVE  SlabNodes(k)' = SlabNodes(k) /\ SlabNodes(k) \cap Block(slab, slab_capacity) = {}
  BY <1>3 DEF SlabNodes, Block, calloc
<1>7. \A k, l \in DOMAIN slabs' : k # l => SlabNodes(k)' \cap SlabNodes(l)' = {}
  <2> SUFFICES ASSUME NEW k \in 1..new, NEW l \in 1..new, k # l
               PROVE  SlabNodes(k)' \cap SlabNodes(l)' = {}
    BY <1>3
  <2>1. CASE k = new
    BY <2>1, <1>5, <1>6, <1>2
  <2>2. CASE l = new
    BY <2>2, <1>5, <1>6, <1>2
  <2>3. CASE k # new /\ l # new
    BY <2>3, <1>6, <1>3, <1>2 DEF IInv, NodesFillSlabs
  <2> QED BY <2>1, <2>2, <2>3
\* All slabs before were used up.
<1>8. ASSUME NEW k \in 1..(new - 1) PROVE Used(k)' = Used(k)
  <2>1. Used(k)' = SlabNodes(k)
    BY <1>3, <1>6, <1>2 DEF Used
  <2>2. CASE k < Len(slabs)
    BY <2>1, <2>2 DEF Used
  <2>3. CASE k = Len(slabs)
    <3>1. next = slabs[k].start + slabs[k].size
      BY <2>3, <1>2 DEF IInv, TypeOK, AllocateFromNewSlab
    <3>2. slabs[k].start + slabs[k].size - 1 = next - 1
      BY <3>1, <1>3, SlabTypes, SMTT(30) DEF IInv
    <3>3. Used(k) = slabs[k].start..(next - 1)
      BY <2>3, <1>2 DEF Used
    <3> QED BY <2>1, <3>2, <3>3 DEF SlabNodes, Block
  <2> QED BY <2>2, <2>3, <1>2
<1>9. Used(new)' = {slab}
  BY <1>1, <1>2, <1>3 DEF Used
<1>10. nodes' = UNION {Used(k)' : k \in DOMAIN slabs'}
  <2>1. nodes' = {slab} \cup UNION {Used(k) : k \in 1..(new - 1)}
    BY <1>1, <1>3 DEF IInv, NodesFillSlabs
  <2>2. 1..new = 1..(new - 1) \cup {new}
    BY <1>2
  <2> QED BY <2>1, <2>2, <1>3, <1>8, <1>9
<1> QED BY <1>4, <1>7, <1>10 DEF IInv, NodesFillSlabs

\* No step of the pool breaks the invariant.
LEMMA Invariance == IInv /\ [Next]_vars => IInv'
<1> SUFFICES ASSUME IInv, [Next]_vars PROVE IInv'
  OBVIOUS
<1>1. CASE AllocateNext
  BY <1>1, NextKeepsInvariant
<1>2. CASE AllocateFromNewSlab
  BY <1>2, NewSlabKeepsInvariant
<1>3. CASE AllocateNothing
  BY <1>3 DEF AllocateNothing, IInv, TypeOK, NodesFillSlabs, Used, SlabNodes
<1>4. CASE mmd_node_pool_drain
  BY <1>4 DEF mmd_node_pool_drain, ResetPointers, NothingLeft, IInv, TypeOK, NodesFillSlabs
<1>5. CASE UNCHANGED vars
  BY <1>5 DEF vars, IInv, TypeOK, NodesFillSlabs, Used, SlabNodes
<1> QED BY <1>1, <1>2, <1>3, <1>4, <1>5 DEF Next

\* Both invariants hold always.
LEMMA Always == Spec => []IInv
<1> QED BY Initially, Invariance, PTL DEF Spec

\* The pointers of the pool stay in its last slab, for memory of every size.
THEOREM TypeCorrect == Spec => []TypeOK
<1>1. IInv => TypeOK
  BY DEF IInv
<1> QED BY Always, <1>1, PTL

\* The nodes of a tree are exactly the used parts of disjoint slabs.
THEOREM NodesAreInSlabs == Spec => []NodesFillSlabs
<1>1. IInv => NodesFillSlabs
  BY DEF IInv
<1> QED BY Always, <1>1, PTL

\* No node is handed out twice between two drains: the pool implements the
\* allocator that a parser relies on.
THEOREM Implements == Spec => AllocatesLikeAllocator
<1>1. Init => Allocator!Init
  BY DEF Init, Allocator!Init
<1>2. IInv /\ [Next]_vars => [Allocator!Next]_<<nodes, given>>
  <2> SUFFICES ASSUME IInv, [Next]_vars PROVE [Allocator!Next]_<<nodes, given>>
    OBVIOUS
  <2>1. CASE AllocateNext
    BY <2>1, NextIsFresh DEF AllocateNext, Allocator!Next, Allocator!Allocate
  <2>2. CASE AllocateFromNewSlab
    BY <2>2, SlabIsFresh DEF AllocateFromNewSlab, Allocator!Next, Allocator!Allocate
  <2>3. CASE AllocateNothing
    BY <2>3 DEF AllocateNothing, Allocator!Next, Allocator!Refuse
  <2>4. CASE mmd_node_pool_drain
    BY <2>4 DEF mmd_node_pool_drain, Allocator!Next, Allocator!TakeBack
  <2>5. CASE UNCHANGED vars
    BY <2>5 DEF vars
  <2> QED BY <2>1, <2>2, <2>3, <2>4, <2>5 DEF Next
<1> QED BY <1>1, <1>2, Always, PTL DEF Spec, AllocatesLikeAllocator, Allocator!Spec
=============================================================================
