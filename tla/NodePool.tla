------------------------------ MODULE NodePool ------------------------------
(***************************************************************************)
(* The nodes of all trees come from a pool: slabs of memory on a stack,    *)
(* each twice as large as the one before.  Nodes are cut from the last     *)
(* slab, between the pointers next and end; draining the pool frees all    *)
(* slabs at once (mmd_node_pool.c).                                        *)
(*                                                                         *)
(* An address is counted in nodes; 0 is NULL.  calloc may hand out again   *)
(* what was freed, directly behind another slab, and there may be nothing  *)
(* to hand out.                                                            *)
(***************************************************************************)
EXTENDS Integers, Sequences

CONSTANTS HeapSize,         \* how many nodes fit into memory
          StartingCapacity  \* of the first slab (kDefaultSlabCapacity)

ASSUME HeapAssumption ==
    /\ HeapSize \in Nat
    /\ StartingCapacity \in Nat \ {0}

Addresses == 1..HeapSize
NULL == 0

VARIABLES slabs,          \* the slabs that are allocated, as [start, size]
          slab_capacity,  \* the size of the next one
          next, end,      \* where the next node is, and where its slab ends
          nodes,          \* the nodes that were handed out since the last drain
          given           \* what the last call of allocate returned

vars == <<slabs, slab_capacity, next, end, nodes, given>>

Slab == [start : Addresses, size : Nat \ {0}]
Block(start, size) == start..(start + size - 1)
SlabNodes(k) == Block(slabs[k].start, slabs[k].size)

\* The addresses that calloc can return
calloc(size) ==
    {a \in Addresses : /\ Block(a, size) \subseteq Addresses
                       /\ \A k \in DOMAIN slabs : Block(a, size) \cap SlabNodes(k) = {}}

kGrowthMultiplier == 2

\* The out of space marker is set before the capacity grows for the next slab
EndOf(slab, size) == slab + size
EndAfterGrowth(slab, size) == slab + size * kGrowthMultiplier  \* mutant
SlabEnd(slab, size) == EndOf(slab, size)

\* mmd_node_pool_new: the first slab, if there is memory for it
Init ==
    /\ nodes = {} /\ given = NULL
    /\ \/ /\ slabs = <<>> /\ next = NULL /\ end = NULL
          /\ slab_capacity = StartingCapacity
       \/ \E slab \in Addresses :
              /\ Block(slab, StartingCapacity) \subseteq Addresses
              /\ slabs = <<[start |-> slab, size |-> StartingCapacity]>>
              /\ next = slab
              /\ end = SlabEnd(slab, StartingCapacity)
              /\ slab_capacity = StartingCapacity * kGrowthMultiplier
-----------------------------------------------------------------------------
(* mmd_node_pool_allocate                                                  *)

\* A node of the last slab
AllocateNext ==
    /\ next < end
    /\ given' = next
    /\ nodes' = nodes \cup {next}
    /\ next' = next + 1
    /\ UNCHANGED <<slabs, slab_capacity, end>>

\* The slab is used up: mmd_node_pool_add_slab, and the first node of the new one
AllocateFromNewSlab ==
    /\ next = end
    /\ \E slab \in calloc(slab_capacity) :
           /\ slabs' = Append(slabs, [start |-> slab, size |-> slab_capacity])
           /\ end' = SlabEnd(slab, slab_capacity)
           /\ slab_capacity' = slab_capacity * kGrowthMultiplier
           /\ given' = slab
           /\ nodes' = nodes \cup {slab}
           /\ next' = slab + 1

\* There is no memory for a slab
AllocateNothing ==
    /\ next >= end
    /\ given' = NULL
    /\ UNCHANGED <<slabs, slab_capacity, next, end, nodes>>

\* mmd_node_pool_drain: all slabs are freed, slab_capacity is kept
NothingLeft == next' = NULL /\ end' = NULL
SlabKept == UNCHANGED <<next, end>>  \* mutant
ResetPointers == NothingLeft

mmd_node_pool_drain ==
    /\ slabs' = <<>>
    /\ ResetPointers
    /\ nodes' = {}
    /\ UNCHANGED <<slab_capacity, given>>

Next == AllocateNext \/ AllocateFromNewSlab \/ AllocateNothing \/ mmd_node_pool_drain

Spec == Init /\ [][Next]_vars
-----------------------------------------------------------------------------
(* Properties                                                              *)

\* What of slab k was handed out: all of it, or the last one up to next
Used(k) == IF k < Len(slabs) THEN SlabNodes(k) ELSE slabs[k].start..(next - 1)

\* Types of the variables, and the pointers are those of the last slab
TypeOK ==
    /\ slabs \in Seq(Slab)
    /\ slab_capacity \in Nat \ {0}
    /\ given \in Addresses \cup {NULL}
    /\ IF slabs = <<>> THEN next = NULL /\ end = NULL
       ELSE LET last == slabs[Len(slabs)]
            IN  /\ next \in last.start..end
                /\ end = last.start + last.size
                /\ end <= HeapSize + 1

\* The nodes that a tree is made of are exactly the used parts of slabs that are
\* allocated and do not overlap: none is in memory that was freed, and none is
\* skipped when a slab is used up.
NodesFillSlabs ==
    /\ \A k, l \in DOMAIN slabs : k # l => SlabNodes(k) \cap SlabNodes(l) = {}
    /\ nodes = UNION {Used(k) : k \in DOMAIN slabs}

\* The pool hands out no node twice: it implements NodeAllocator, also when
\* calloc hands out freed memory again, or none.
Allocator == INSTANCE NodeAllocator WITH Nodes <- Addresses
AllocatesLikeAllocator == Allocator!Spec
=============================================================================
