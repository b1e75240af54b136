---------------------------- MODULE JesNodePool ----------------------------
(***************************************************************************)
(* The node allocator of src/src/jes_tree.c: a fixed pool of Capacity       *)
(* nodes, a bump index next_free and a LIFO list of returned nodes.         *)
(*                                                                         *)
(* The operators Allocate and FreeNode are the bodies of jes_allocate and   *)
(* jes_free; JesTree conjoins them into the calls of the library.  PoolSpec *)
(* is what the allocator requires of its client: only a node in use comes   *)
(* back.  (jes_free itself checks nothing but its count.)                   *)
(***************************************************************************)
EXTENDS Integers, Sequences, FiniteSets

CONSTANTS
  Capacity,   \* number of nodes the pool holds
  NIL         \* JES_INVALID_INDEX and NULL: "no node"

Node == 0 .. Capacity - 1

ASSUME CapacityAssumption == Capacity \in Nat \ {0}
ASSUME NilAssumption == NIL \notin Node

VARIABLES
  next_free,    \* index of the first node never handed out
  freed,        \* returned nodes; the last element is the head of the list
  node_count    \* number of nodes handed out and not returned

poolVars == <<next_free, freed, node_count>>

(***************************************************************************)
(* The nodes in use.  The C code keeps no such set: it is what next_free    *)
(* and the free list leave.                                                 *)
(***************************************************************************)
Live == {n \in 0 .. next_free - 1 : \A i \in DOMAIN freed : freed[i] # n}

PoolInit ==
  /\ next_free = 0
  /\ freed = <<>>
  /\ node_count = 0

FullOneLate == node_count > Capacity      \* faulty: off by one

Full == node_count >= Capacity

(* The node jes_allocate hands out: the head of the free list, else the     *)
(* first node never used.                                                   *)
NextNode == IF freed # <<>> THEN freed[Len(freed)] ELSE next_free

Allocate ==
  /\ ~Full
  /\ node_count' = node_count + 1
  /\ \/ /\ freed # <<>>
        /\ freed' = SubSeq(freed, 1, Len(freed) - 1)
        /\ UNCHANGED next_free
     \/ /\ freed = <<>>
        /\ next_free' = next_free + 1
        /\ UNCHANGED freed

FreeNodeUncounted(n) ==                   \* faulty: the node is still counted
  /\ node_count > 0
  /\ freed' = Append(freed, n)
  /\ UNCHANGED <<next_free, node_count>>

FreeNode(n) ==
  /\ node_count > 0
  /\ node_count' = node_count - 1
  /\ freed' = Append(freed, n)
  /\ UNCHANGED next_free

ResetPoolKeepsList ==                     \* faulty: the free list survives
  /\ next_free' = 0 /\ node_count' = 0
  /\ UNCHANGED freed

ResetPool ==
  /\ next_free' = 0
  /\ freed' = <<>>
  /\ node_count' = 0

PoolNext ==
  \/ Allocate
  \/ \E n \in Live : FreeNode(n)
  \/ ResetPool

PoolSpec == PoolInit /\ [][PoolNext]_poolVars

----------------------------------------------------------------------------

PoolTypeOK ==
  /\ next_free \in 0 .. Capacity
  /\ freed \in Seq(Node)
  /\ node_count \in 0 .. Capacity

(***************************************************************************)
(* The free list and the bump index agree: a returned node was handed out   *)
(* before, no node is on the list twice (two calls would be given the same  *)
(* node), and node_count is the number of nodes in use.  jes_allocate       *)
(* relies on it twice: a pool below its capacity always has a node to give  *)
(* (the assertion on next_free), and a full pool has none.                  *)
(***************************************************************************)
FreeListOK ==
  /\ \A i \in DOMAIN freed : freed[i] < next_free
  /\ \A i, j \in DOMAIN freed : freed[i] = freed[j] => i = j
  /\ node_count + Len(freed) = next_free
  /\ node_count = Cardinality(Live)

(***************************************************************************)
(* jes_allocate never takes a node from beyond the pool, and never hands    *)
(* out one that is in use.                                                  *)
(***************************************************************************)
FreshNode == ~Full => NextNode \in Node \ Live

PoolOK == FreeListOK /\ FreshNode
============================================================================
