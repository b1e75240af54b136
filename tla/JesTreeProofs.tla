---------------------------- MODULE JesTreeProofs --------------------------
(***************************************************************************)
(* Proofs about the node allocator and the tree, for a pool of any          *)
(* capacity, any names, either search mode and a client that keeps to any   *)
(* set of rules.  The three lemmas on Allocate, FreeNode and ResetPool say  *)
(* what becomes of the set of nodes in use.                                 *)
(*                                                                         *)
(* Then what a client that keeps the rules can count on: the shape of the   *)
(* document, the names in an object, what the key table points at; and the  *)
(* walks along the children of an element, which meet every child once, so  *)
(* that the lookup by name, by path and by index finds what is there.  Each *)
(* theorem names the rules it needs.                                        *)
(***************************************************************************)
EXTENDS JesNavigation, FiniteSetTheorems, SequenceTheorems, TLAPS

----------------------------------------------------------------------------
(* The allocator, with any client.                                          *)

(* The inductive invariant: FreshNode follows from it.                      *)
PoolInv == PoolTypeOK /\ FreeListOK

(* The nodes in use are finitely many, and are nodes of the pool.           *)
LEMMA LiveFinite ==
  ASSUME PoolTypeOK
  PROVE  /\ IsFiniteSet(Live)
         /\ Live \subseteq Node
<1>1. next_free \in Int /\ next_free <= Capacity /\ Capacity \in Nat
  BY CapacityAssumption DEF PoolTypeOK
<1>2. IsFiniteSet(0 .. next_free - 1)
  BY <1>1, FS_Interval
<1>3. Live \in SUBSET (0 .. next_free - 1)
  BY DEF Live
<1>4. IsFiniteSet(Live)
  BY <1>2, <1>3, FS_Subset
<1>5. Live \subseteq Node
  BY <1>1, <1>3 DEF Node
<1> QED BY <1>4, <1>5

(* An allocation takes a node of the pool that is not in use, and puts it,  *)
(* and no other, in use.                                                    *)
LEMMA AllocateLemma ==
  ASSUME PoolInv, Allocate
  PROVE  /\ PoolInv'
         /\ NextNode \in Node \ Live
         /\ Live' = Live \cup {NextNode}
<1> USE DEF PoolInv
<1>1. /\ next_free \in Nat /\ next_free <= Capacity /\ Capacity \in Nat
      /\ node_count \in Nat /\ node_count < Capacity
      /\ Len(freed) \in Nat /\ DOMAIN freed = 1 .. Len(freed)
  BY CapacityAssumption, LenProperties DEF PoolTypeOK, Allocate, Full
<1>2. CASE freed # <<>>
  <2> DEFINE last == Len(freed)
             rest == SubSeq(freed, 1, last - 1)
  <2>1. last \in 1 .. last /\ NextNode = freed[last] /\ freed[last] \in Node
    BY <1>1, <1>2, EmptySeq, ElementOfSeq DEF PoolTypeOK, NextNode
  <2>2. freed' = rest /\ next_free' = next_free /\ node_count' = node_count + 1
    BY <1>2 DEF Allocate
  <2>3. \A i \in 1 .. last - 1 : freed[i] \in Node
    BY <1>1, ElementOfSeq DEF PoolTypeOK
  <2>4. /\ rest \in Seq(Node) /\ Len(rest) = last - 1
        /\ \A i \in 1 .. last - 1 : rest[i] = freed[i]
    BY <1>1, <2>1, <2>3, SubSeqProperties
  <2>5. DOMAIN rest = 1 .. last - 1
    BY <2>4, LenProperties
  <2>6. PoolTypeOK'
    BY <1>1, <2>2, <2>4 DEF PoolTypeOK
  <2>7. NextNode \notin Live /\ NextNode \in 0 .. next_free - 1
    BY <1>1, <2>1 DEF Live, FreeListOK, Node
  <2>8. Live' = Live \cup {NextNode}
    <3>1. \A i \in 1 .. last - 1 : freed[i] # freed[last]
      BY <1>1, <2>1 DEF FreeListOK
    <3> HIDE DEF rest, last
    <3>2. Live' = {n \in 0 .. next_free - 1 : \A i \in 1 .. last - 1 : freed[i] # n}
      BY <2>2, <2>4, <2>5 DEF Live
    <3>3. Live = {n \in 0 .. next_free - 1 : \A i \in 1 .. last : freed[i] # n}
      BY <1>1 DEF Live, last
    <3>4. 1 .. last = (1 .. last - 1) \cup {last}
      BY <1>1, <2>1 DEF last
    <3> QED BY <2>1, <2>7, <3>1, <3>2, <3>3, <3>4
  <2>9. FreeListOK'
    <3>1. node_count' = Cardinality(Live')
      BY <2>2, <2>7, <2>8, LiveFinite, FS_AddElement DEF FreeListOK
    <3>2. node_count' + Len(freed') = next_free'
      BY <1>1, <2>2, <2>4 DEF FreeListOK
    <3>3. \A i \in DOMAIN freed' : freed'[i] < next_free'
      BY <1>1, <2>2, <2>4, <2>5 DEF FreeListOK
    <3>4. \A i, j \in DOMAIN freed' : freed'[i] = freed'[j] => i = j
      BY <1>1, <2>2, <2>4, <2>5 DEF FreeListOK
    <3> QED BY <3>1, <3>2, <3>3, <3>4 DEF FreeListOK
  <2> QED BY <2>1, <2>6, <2>7, <2>8, <2>9
<1>3. CASE freed = <<>>
  <2>1. /\ next_free' = next_free + 1 /\ freed' = <<>> /\ node_count' = node_count + 1
        /\ NextNode = next_free
    BY <1>3 DEF Allocate, NextNode
  <2>2. Len(freed) = 0 /\ DOMAIN freed = {}
    BY <1>1, <1>3, EmptySeq
  <2>3. next_free < Capacity /\ next_free = node_count
    BY <1>1, <2>2 DEF FreeListOK
  <2>4. Live = 0 .. next_free - 1
    BY <2>2 DEF Live
  <2>5. Live' = 0 .. next_free
    BY <1>1, <2>1, <2>2, <1>3 DEF Live
  <2>6. Live' = Live \cup {NextNode} /\ NextNode \in Node \ Live
    BY <1>1, <2>1, <2>3, <2>4, <2>5 DEF Node
  <2>7. PoolTypeOK'
    BY <1>1, <2>1, <2>3, EmptySeq DEF PoolTypeOK
  <2>8. node_count' = Cardinality(Live')
    BY <1>1, <2>1, <2>3, <2>5, FS_Interval
  <2>9. FreeListOK'
    BY <1>1, <1>3, <2>1, <2>2, <2>3, <2>8 DEF FreeListOK
  <2> QED BY <2>6, <2>7, <2>9
<1> QED BY <1>2, <1>3

(* A node in use that is returned, and no other, is out of use.             *)
LEMMA FreeLemma ==
  ASSUME PoolInv, NEW n \in Live, FreeNode(n)
  PROVE  /\ PoolInv'
         /\ Live' = Live \ {n}
<1> USE DEF PoolInv
<1>1. /\ next_free \in Nat /\ next_free <= Capacity /\ Capacity \in Nat
      /\ node_count \in Nat /\ node_count <= Capacity /\ node_count > 0
      /\ Len(freed) \in Nat /\ DOMAIN freed = 1 .. Len(freed)
  BY CapacityAssumption, LenProperties DEF PoolTypeOK, FreeNode
<1>2. /\ freed' = Append(freed, n) /\ next_free' = next_free
      /\ node_count' = node_count - 1
  BY DEF FreeNode
<1>3. n \in Node /\ n < next_free /\ \A i \in DOMAIN freed : freed[i] # n
  BY <1>1, LiveFinite DEF Live
<1>4. /\ freed' \in Seq(Node) /\ Len(freed') = Len(freed) + 1
      /\ \A i \in 1 .. Len(freed) : freed'[i] = freed[i]
      /\ freed'[Len(freed) + 1] = n
  BY <1>2, <1>3 DEF PoolTypeOK
<1>5. DOMAIN freed' = (DOMAIN freed) \cup {Len(freed) + 1}
  BY <1>1, <1>4, LenProperties
<1>6. PoolTypeOK'
  BY <1>1, <1>2, <1>4 DEF PoolTypeOK
<1>7. Live' = Live \ {n}
  BY <1>1, <1>2, <1>4, <1>5 DEF Live
<1>8. FreeListOK'
  <2>1. node_count' = Cardinality(Live')
    BY <1>1, <1>2, <1>7, LiveFinite, FS_RemoveElement DEF FreeListOK
  <2>2. node_count' + Len(freed') = next_free'
    BY <1>1, <1>2, <1>4 DEF FreeListOK
  <2>3. \A i \in DOMAIN freed' : freed'[i] < next_free'
    BY <1>1, <1>2, <1>3, <1>4, <1>5 DEF FreeListOK
  <2>4. \A i, j \in DOMAIN freed' : freed'[i] = freed'[j] => i = j
    BY <1>1, <1>3, <1>4, <1>5 DEF FreeListOK
  <2> QED BY <2>1, <2>2, <2>3, <2>4 DEF FreeListOK
<1> QED BY <1>6, <1>7, <1>8

(* After a reset nothing is in use.  The same holds of the initial state.   *)
LEMMA ResetLemma ==
  ASSUME ResetPool
  PROVE  PoolInv' /\ Live' = {}
<1>1. DOMAIN freed' = {} /\ Len(freed') = 0 /\ freed' \in Seq(Node)
  BY EmptySeq DEF ResetPool
<1>2. Live' = {}
  BY DEF Live, ResetPool
<1>3. node_count' = Cardinality(Live')
  BY <1>2, FS_EmptySet DEF ResetPool
<1> QED BY <1>1, <1>2, <1>3, CapacityAssumption DEF PoolInv, PoolTypeOK, FreeListOK, ResetPool

LEMMA InitLemma ==
  ASSUME PoolInit
  PROVE  PoolInv /\ Live = {}
<1>1. DOMAIN freed = {} /\ Len(freed) = 0 /\ freed \in Seq(Node)
  BY EmptySeq DEF PoolInit
<1>2. Live = {}
  BY DEF Live, PoolInit
<1>3. node_count = Cardinality(Live)
  BY <1>2, FS_EmptySet DEF PoolInit
<1> QED BY <1>1, <1>2, <1>3, CapacityAssumption DEF PoolInv, PoolTypeOK, FreeListOK, PoolInit

(* The node the invariant makes jes_allocate hand out is a free one.        *)
LEMMA FreshLemma ==
  ASSUME PoolInv
  PROVE  FreshNode
<1> SUFFICES ASSUME ~Full
             PROVE  NextNode \in Node \ Live
  BY DEF FreshNode
<1> USE DEF PoolInv
<1>1. /\ next_free \in Nat /\ Capacity \in Nat
      /\ node_count \in Nat /\ node_count < Capacity
      /\ Len(freed) \in Nat /\ DOMAIN freed = 1 .. Len(freed)
  BY CapacityAssumption, LenProperties DEF PoolTypeOK, Full
<1>2. CASE freed # <<>>
  <2>1. Len(freed) \in DOMAIN freed /\ NextNode = freed[Len(freed)]
    BY <1>1, <1>2, EmptySeq DEF PoolTypeOK, NextNode
  <2>2. NextNode \in Node
    BY <1>1, <2>1, ElementOfSeq DEF PoolTypeOK
  <2> QED BY <2>1, <2>2 DEF Live
<1>3. CASE freed = <<>>
  <2>1. NextNode = next_free /\ Len(freed) = 0
    BY <1>3, EmptySeq DEF NextNode
  <2>2. next_free = node_count
    BY <1>1, <2>1 DEF FreeListOK
  <2> QED BY <1>1, <2>1, <2>2 DEF Live, Node
<1> QED BY <1>2, <1>3

(* A step of a client that returns only nodes in use keeps the invariant.   *)
LEMMA PoolInvInductive == PoolInv /\ [PoolNext]_poolVars => PoolInv'
<1> SUFFICES ASSUME PoolInv, [PoolNext]_poolVars
             PROVE  PoolInv'
  OBVIOUS
<1>1. CASE Allocate
  BY <1>1, AllocateLemma
<1>2. ASSUME NEW n \in Live, FreeNode(n)
      PROVE  PoolInv'
  BY <1>2, FreeLemma
<1>3. CASE ResetPool
  BY <1>3, ResetLemma
<1>4. CASE UNCHANGED poolVars
  BY <1>4 DEF PoolInv, PoolTypeOK, FreeListOK, Live, poolVars
<1> QED BY <1>1, <1>2, <1>3, <1>4 DEF PoolNext

(* The invariant holds of every behaviour of the pool.                      *)
THEOREM PoolInvariant == PoolSpec => []PoolInv
<1>1. PoolInit => PoolInv
  BY InitLemma
<1> QED BY <1>1, PoolInvInductive, PTL DEF PoolSpec

(***************************************************************************)
(* For a pool of any capacity and any order of allocations, returns and     *)
(* resets: the free list holds no node twice and none in use, node_count is *)
(* the number of nodes in use, and jes_allocate, below the capacity, hands  *)
(* out a node of the pool that nobody uses.                                 *)
(***************************************************************************)
THEOREM PoolSafety == PoolSpec => []PoolOK
<1>1. PoolInv => PoolOK
  BY FreshLemma DEF PoolInv, PoolOK
<1> QED BY <1>1, PoolInvariant, PTL

----------------------------------------------------------------------------
(* The tree.                                                                *)

LinkTypes ==
  /\ parent \in [Node -> Link]
  /\ sibling \in [Node -> Link]
  /\ first_child \in [Node -> Link]
  /\ last_child \in [Node -> Link]

(* The nodes in use are nodes, NIL is none of them.                         *)
LEMMA LiveNodes ==
  ASSUME PoolInv
  PROVE  Live \subseteq Node /\ NIL \notin Live
BY LiveFinite, NilAssumption DEF PoolInv

----------------------------------------------------------------------------
(* What the links say of each other.                                        *)

(* A node without a first child is no parent.                               *)
LEMMA ChildlessLemma ==
  ASSUME PoolInv, TreeOK, NEW p \in Live, first_child[p] = NIL, NEW m \in Live
  PROVE  parent[m] # p
<1> DEFINE S == {x \in Live : parent[x] = p}
<1> SUFFICES ASSUME S # {} PROVE FALSE
  OBVIOUS
<1>1. PICK x \in S : \A y \in S : sibling[y] # x
  BY DEF TreeOK, Acyclic
<1>2. p # NIL
  BY LiveNodes
<1>3. x \in Live /\ parent[x] = p /\ first_child[p] # x
  BY LiveNodes
<1>4. PICK y \in Live : sibling[y] = x
  BY <1>2, <1>3 DEF TreeOK, SiblingsOK
<1>5. x # NIL
  BY LiveNodes
<1>6. parent[y] = p
  BY <1>3, <1>4, <1>5 DEF TreeOK, SiblingsOK
<1> QED BY <1>1, <1>4, <1>6

(* As long as there is an element the root is one.                          *)
LEMMA RootInTree ==
  ASSUME PoolInv, TreeOK, Live # {}
  PROVE  root \in Live
<1>1. PICK x \in Live : parent[x] \notin Live
  BY DEF TreeOK, Acyclic
<1>2. {parent[x], sibling[x], first_child[x], last_child[x]} \subseteq Live \cup {NIL}
  BY DEF TreeOK, LinksLive
<1>3. parent[x] = NIL
  BY <1>1, <1>2
<1> QED BY <1>3 DEF TreeOK, OneRoot

(* The last child is one.                                                   *)
LEMMA LastChildLemma ==
  ASSUME PoolInv, TreeOK, NEW p \in Live
  PROVE  /\ LastChild(p) = NIL <=> first_child[p] = NIL
         /\ LastChild(p) # NIL => LastChild(p) \in Live /\ parent[LastChild(p)] = p
<1>1. p # NIL
  BY LiveNodes
<1>2. last_child[p] \in Live \cup {NIL}
  BY DEF TreeOK, LinksLive
<1> QED BY <1>1, <1>2 DEF LastChild, TreeOK, EndsOK

(* LeftSibling is NIL for a first child only, else the left neighbour.      *)
LEMMA LeftSiblingLemma ==
  ASSUME PoolInv, TreeOK, NEW n \in Live, parent[n] # NIL
  PROVE  /\ parent[n] \in Live
         /\ LeftSibling(n) = NIL <=> first_child[parent[n]] = n
         /\ LeftSibling(n) # NIL => /\ LeftSibling(n) \in Live
                                    /\ parent[LeftSibling(n)] = parent[n]
                                    /\ sibling[LeftSibling(n)] = n
<1>1. parent[n] \in Live /\ n # NIL /\ NIL \notin Live
  BY LiveNodes DEF TreeOK, LinksLive
<1>2. CASE first_child[parent[n]] = n
  BY <1>1, <1>2 DEF LeftSibling
<1>3. CASE first_child[parent[n]] # n
  <2>1. PICK s \in Live : sibling[s] = n
    BY <1>1, <1>3 DEF TreeOK, SiblingsOK
  <2>2. parent[s] = parent[n]
    BY <1>1, <2>1 DEF TreeOK, SiblingsOK
  <2>3. LeftSibling(n) = CHOOSE x \in Live : parent[x] = parent[n] /\ sibling[x] = n
    BY <1>3 DEF LeftSibling
  <2> QED BY <1>1, <1>3, <2>1, <2>2, <2>3
<1> QED BY <1>1, <1>2, <1>3

----------------------------------------------------------------------------
(* Insertion.                                                               *)

LEMMA InsertRootLemma ==
  ASSUME PoolInv, LinkTypes, TreeOK, root = NIL, NEW t, NEW k, InsertRoot(t, k)
  PROVE  /\ PoolInv' /\ LinkTypes' /\ TreeOK'
         /\ NextNode \in Node /\ Live = {} /\ Live' = {NextNode}
<1> DEFINE n == NextNode
<1>1. Live = {}
  BY RootInTree, LiveNodes
<1>2. PoolInv' /\ n \in Node \ Live /\ Live' = {n}
  BY <1>1, AllocateLemma DEF InsertRoot, NewNode
<1>3. n # NIL
  BY <1>2, NilAssumption
<1> HIDE DEF n
<1>4. /\ parent'[n] = NIL /\ sibling'[n] = NIL /\ first_child'[n] = NIL /\ last_child'[n] = NIL
      /\ root' = n
  BY <1>2 DEF InsertRoot, NewNode, LinkTypes, n
<1>5. LinkTypes'
  BY <1>2 DEF InsertRoot, NewNode, LinkTypes, Link, n
<1>6. Acyclic'
  BY <1>2, <1>3, <1>4 DEF Acyclic
<1>7. LinksLive' /\ EndsOK' /\ SiblingsOK' /\ OneRoot'
  BY <1>2, <1>3, <1>4 DEF LinksLive, EndsOK, SiblingsOK, OneRoot
<1> QED BY <1>1, <1>2, <1>5, <1>6, <1>7 DEF TreeOK, n

LEMMA PrependLemma ==
  ASSUME PoolInv, LinkTypes, TreeOK, NEW p \in Live, NEW t, NEW k, Prepend(p, t, k)
  PROVE  /\ PoolInv' /\ LinkTypes' /\ TreeOK'
         /\ NextNode \in Node \ Live /\ Live' = Live \cup {NextNode}
<1> DEFINE n == NextNode
           f == first_child[p]
<1>1. PoolInv' /\ n \in Node \ Live /\ Live' = Live \cup {n}
  BY AllocateLemma DEF Prepend, NewNode
<1>2. n # NIL /\ p # NIL /\ p # n /\ p \in Node /\ NIL \notin Live /\ Live \subseteq Node
  BY <1>1, NilAssumption, LiveNodes
<1> HIDE DEF n
<1>3. /\ parent'[n] = p /\ sibling'[n] = f /\ first_child'[n] = NIL /\ last_child'[n] = NIL
      /\ first_child'[p] = n
      /\ last_child'[p] = IF f = NIL THEN n ELSE last_child[p]
      /\ root' = root
  BY <1>1, <1>2 DEF Prepend, NewNode, LinkTypes, n
<1>4. \A m \in Live : /\ parent'[m] = parent[m] /\ sibling'[m] = sibling[m]
                      /\ m # p => /\ first_child'[m] = first_child[m]
                                  /\ last_child'[m] = last_child[m]
  BY <1>1, <1>2 DEF Prepend, NewNode, LinkTypes, n
<1>5. LinkTypes'
  BY <1>1, <1>2 DEF Prepend, NewNode, LinkTypes, Link, n
<1>6. /\ f \in Live \cup {NIL}
      /\ \A m \in Live : /\ parent[m] \in Live \cup {NIL} /\ sibling[m] \in Live \cup {NIL}
                         /\ first_child[m] \in Live \cup {NIL}
                         /\ last_child[m] \in Live \cup {NIL}
  BY DEF TreeOK, LinksLive
<1> HIDE DEF f
<1>7. f = first_child[p]
  BY DEF f
<1>8. LinksLive'
  <2> SUFFICES ASSUME NEW m \in Live'
               PROVE  /\ parent'[m] \in Live' \cup {NIL} /\ sibling'[m] \in Live' \cup {NIL}
                      /\ first_child'[m] \in Live' \cup {NIL}
                      /\ last_child'[m] \in Live' \cup {NIL}
    BY DEF LinksLive
  <2>1. CASE m = n
    BY <1>1, <1>2, <1>3, <1>6, <2>1
  <2>2. CASE m = p
    BY <1>1, <1>2, <1>3, <1>4, <1>6, <2>2
  <2>3. CASE m \in Live /\ m # p
    BY <1>1, <1>4, <1>6, <2>3
  <2> QED BY <1>1, <2>1, <2>2, <2>3
<1>9. EndsOK'
  <2> SUFFICES ASSUME NEW q \in Live'
               PROVE  /\ first_child'[q] = NIL <=> last_child'[q] = NIL
                      /\ first_child'[q] # NIL =>
                           /\ parent'[first_child'[q]] = q /\ parent'[last_child'[q]] = q
                           /\ \A s \in Live' : sibling'[s] # first_child'[q]
    BY DEF EndsOK
  <2>1. CASE q = n
    BY <1>3, <2>1
  <2>2. CASE q = p
    BY <1>1, <1>2, <1>3, <1>4, <1>6, <1>7, <2>2 DEF EndsOK, TreeOK
  <2>3. CASE q \in Live /\ q # p
    BY <1>1, <1>2, <1>3, <1>4, <1>6, <1>7, <2>3 DEF EndsOK, TreeOK
  <2> QED BY <1>1, <2>1, <2>2, <2>3
<1>10. SiblingsOK'
  <2> SUFFICES ASSUME NEW q \in Live'
               PROVE  /\ sibling'[q] # NIL =>
                           parent'[q] # NIL /\ parent'[sibling'[q]] = parent'[q]
                      /\ parent'[q] # NIL =>
                           /\ sibling'[q] = NIL <=> last_child'[parent'[q]] = q
                           /\ \/ first_child'[parent'[q]] = q
                              \/ \E s \in Live' : sibling'[s] = q
                      /\ \A m \in Live' : sibling'[m] = sibling'[q] /\ sibling'[q] # NIL => m = q
    BY DEF SiblingsOK
  <2>1. CASE q = n
    BY <1>1, <1>2, <1>3, <1>4, <1>6, <1>7, <2>1 DEF EndsOK, TreeOK
  <2>2. CASE q \in Live
    <3>1. sibling'[q] # NIL => parent'[q] # NIL /\ parent'[sibling'[q]] = parent'[q]
      BY <1>1, <1>2, <1>3, <1>4, <1>6, <2>2 DEF SiblingsOK, TreeOK
    <3>2. ASSUME parent'[q] # NIL
          PROVE  sibling'[q] = NIL <=> last_child'[parent'[q]] = q
      BY <1>1, <1>2, <1>3, <1>4, <1>6, <1>7, <2>2, <3>2, ChildlessLemma DEF SiblingsOK, TreeOK
    <3>3. ASSUME parent'[q] # NIL, first_child'[parent'[q]] # q
          PROVE  \E s \in Live' : sibling'[s] = q
      BY <1>1, <1>2, <1>3, <1>4, <1>6, <1>7, <2>2, <3>3 DEF SiblingsOK, TreeOK
    <3>4. ASSUME NEW m \in Live', sibling'[m] = sibling'[q], sibling'[q] # NIL
          PROVE  m = q
      BY <1>1, <1>2, <1>3, <1>4, <1>6, <1>7, <2>2, <3>4 DEF SiblingsOK, EndsOK, TreeOK
    <3> QED BY <3>1, <3>2, <3>3, <3>4
  <2> QED BY <1>1, <2>1, <2>2
<1>11. Acyclic'
  <2> SUFFICES ASSUME NEW S \in SUBSET Live', S # {}
               PROVE  /\ \E x \in S : \A m \in S : sibling'[m] # x
                      /\ \E x \in S : parent'[x] \notin S
    BY DEF Acyclic
  <2>1. \A m \in S : sibling'[m] # n
    BY <1>1, <1>2, <1>3, <1>4, <1>6
  <2>2. CASE S \ {n} = {}
    BY <1>2, <1>3, <2>1, <2>2
  <2>3. CASE S \ {n} # {}
    <3>1. S \ {n} \in SUBSET Live
      BY <1>1
    <3>2. PICK x \in S \ {n} : parent[x] \notin S \ {n}
      BY <2>3, <3>1 DEF Acyclic, TreeOK
    <3>3. PICK y \in S \ {n} : \A m \in S \ {n} : sibling[m] # y
      BY <2>3, <3>1 DEF Acyclic, TreeOK
    <3>4. parent'[x] \notin S
      BY <1>1, <1>2, <1>4, <1>6, <3>1, <3>2
    <3>5. \E z \in S : \A m \in S : sibling'[m] # z
      <4>1. CASE n \in S
        BY <2>1, <4>1
      <4>2. CASE n \notin S
        BY <1>4, <3>1, <3>3, <4>2
      <4> QED BY <4>1, <4>2
    <3> QED BY <3>4, <3>5
  <2> QED BY <2>2, <2>3
<1>12. OneRoot'
  <2>1. root \in Live
    BY RootInTree
  <2> QED BY <1>1, <1>2, <1>3, <1>4, <2>1 DEF OneRoot, TreeOK
<1> QED BY <1>1, <1>5, <1>8, <1>9, <1>10, <1>11, <1>12 DEF TreeOK, n

LEMMA InsertAfterLemma ==
  ASSUME PoolInv, LinkTypes, TreeOK, NEW p \in Live, NEW a \in Live, parent[a] = p,
         NEW t, NEW k, InsertAfter(p, a, t, k)
  PROVE  /\ PoolInv' /\ LinkTypes' /\ TreeOK'
         /\ NextNode \in Node \ Live /\ Live' = Live \cup {NextNode}
<1> DEFINE n == NextNode
<1>1. PoolInv' /\ n \in Node \ Live /\ Live' = Live \cup {n}
  BY AllocateLemma DEF InsertAfter, NewNode
<1>2. /\ n # NIL /\ p # NIL /\ p # n /\ p \in Node /\ a # NIL /\ a # n /\ a \in Node
      /\ NIL \notin Live /\ Live \subseteq Node
  BY <1>1, NilAssumption, LiveNodes
<1> HIDE DEF n
<1>3. /\ parent'[n] = p /\ sibling'[n] = sibling[a]
      /\ first_child'[n] = NIL /\ last_child'[n] = NIL
      /\ sibling'[a] = n
      /\ last_child'[p] = IF last_child[p] = a THEN n ELSE last_child[p]
      /\ root' = root
  BY <1>1, <1>2 DEF InsertAfter, NewNode, LinkTypes, n
<1>4. \A m \in Live : /\ parent'[m] = parent[m] /\ first_child'[m] = first_child[m]
                      /\ m # a => sibling'[m] = sibling[m]
                      /\ m # p => last_child'[m] = last_child[m]
  BY <1>1, <1>2 DEF InsertAfter, NewNode, LinkTypes, n
<1>5. LinkTypes'
  BY <1>1, <1>2 DEF InsertAfter, NewNode, LinkTypes, Link, n
<1>6. \A m \in Live : /\ parent[m] \in Live \cup {NIL} /\ sibling[m] \in Live \cup {NIL}
                      /\ first_child[m] \in Live \cup {NIL}
                      /\ last_child[m] \in Live \cup {NIL}
  BY DEF TreeOK, LinksLive
<1>7. LinksLive'
  <2> SUFFICES ASSUME NEW m \in Live'
               PROVE  /\ parent'[m] \in Live' \cup {NIL} /\ sibling'[m] \in Live' \cup {NIL}
                      /\ first_child'[m] \in Live' \cup {NIL}
                      /\ last_child'[m] \in Live' \cup {NIL}
    BY DEF LinksLive
  <2>1. CASE m = n
    BY <1>1, <1>2, <1>3, <1>6, <2>1
  <2>2. CASE m \in Live
    BY <1>1, <1>3, <1>4, <1>6, <2>2
  <2> QED BY <1>1, <2>1, <2>2
<1>8. EndsOK'
  <2> SUFFICES ASSUME NEW q \in Live'
               PROVE  /\ first_child'[q] = NIL <=> last_child'[q] = NIL
                      /\ first_child'[q] # NIL =>
                           /\ parent'[first_child'[q]] = q /\ parent'[last_child'[q]] = q
                           /\ \A s \in Live' : sibling'[s] # first_child'[q]
    BY DEF EndsOK
  <2>1. CASE q = n
    BY <1>3, <2>1
  <2>2. CASE q \in Live
    BY <1>1, <1>2, <1>3, <1>4, <1>6, <2>2 DEF EndsOK, TreeOK
  <2> QED BY <1>1, <2>1, <2>2
<1>9. SiblingsOK'
  <2> SUFFICES ASSUME NEW q \in Live'
               PROVE  /\ sibling'[q] # NIL =>
                           parent'[q] # NIL /\ parent'[sibling'[q]] = parent'[q]
                      /\ parent'[q] # NIL =>
                           /\ sibling'[q] = NIL <=> last_child'[parent'[q]] = q
                           /\ \/ first_child'[parent'[q]] = q
                              \/ \E s \in Live' : sibling'[s] = q
                      /\ \A m \in Live' : sibling'[m] = sibling'[q] /\ sibling'[q] # NIL => m = q
    BY DEF SiblingsOK
  <2>1. CASE q = n
    BY <1>1, <1>2, <1>3, <1>4, <1>6, <2>1 DEF SiblingsOK, EndsOK, TreeOK
  <2>2. CASE q \in Live
    <3>1. sibling'[q] # NIL => parent'[q] # NIL /\ parent'[sibling'[q]] = parent'[q]
      BY <1>1, <1>2, <1>3, <1>4, <1>6, <2>2 DEF SiblingsOK, TreeOK
    <3>2. ASSUME parent'[q] # NIL
          PROVE  sibling'[q] = NIL <=> last_child'[parent'[q]] = q
      BY <1>1, <1>2, <1>3, <1>4, <1>6, <2>2, <3>2 DEF SiblingsOK, TreeOK
    <3>3. ASSUME parent'[q] # NIL, first_child'[parent'[q]] # q
          PROVE  \E s \in Live' : sibling'[s] = q
      BY <1>1, <1>2, <1>3, <1>4, <1>6, <2>2, <3>3 DEF SiblingsOK, TreeOK
    <3>4. ASSUME NEW m \in Live', sibling'[m] = sibling'[q], sibling'[q] # NIL
          PROVE  m = q
      BY <1>1, <1>2, <1>3, <1>4, <1>6, <2>2, <3>4 DEF SiblingsOK, TreeOK
    <3> QED BY <3>1, <3>2, <3>3, <3>4
  <2> QED BY <1>1, <2>1, <2>2
<1>10. Acyclic'
  <2> SUFFICES ASSUME NEW S \in SUBSET Live', S # {}
               PROVE  /\ \E x \in S : \A m \in S : sibling'[m] # x
                      /\ \E x \in S : parent'[x] \notin S
    BY DEF Acyclic
  <2>1. \A m \in Live : m # a => sibling'[m] # n
    BY <1>1, <1>2, <1>4, <1>6
  <2>2. sibling'[n] # n
    BY <1>1, <1>2, <1>3, <1>6
  <2>3. CASE S \ {n} = {}
    BY <1>2, <1>3, <2>2, <2>3
  <2>4. CASE S \ {n} # {}
    <3>1. S \ {n} \in SUBSET Live
      BY <1>1
    <3>2. PICK x \in S \ {n} : parent[x] \notin S \ {n}
      BY <2>4, <3>1 DEF Acyclic, TreeOK
    <3>3. parent'[x] \notin S
      BY <1>1, <1>2, <1>4, <1>6, <3>1, <3>2
    <3>4. PICK y \in S \ {n} : \A m \in S \ {n} : sibling[m] # y
      BY <2>4, <3>1 DEF Acyclic, TreeOK
    <3>5. \E z \in S : \A m \in S : sibling'[m] # z
      <4>1. CASE n \in S /\ a \notin S
        BY <1>1, <2>1, <2>2, <3>1, <4>1
      <4>2. CASE n \in S /\ a \in S
        BY <1>1, <1>2, <1>3, <1>4, <3>1, <3>4, <4>2
      <4>3. CASE n \notin S
        BY <1>2, <1>3, <1>4, <3>1, <3>4, <4>3
      <4> QED BY <4>1, <4>2, <4>3
    <3> QED BY <3>3, <3>5
  <2> QED BY <2>3, <2>4
<1>11. OneRoot'
  <2>1. root \in Live
    BY RootInTree
  <2> QED BY <1>1, <1>2, <1>3, <1>4, <2>1 DEF OneRoot, TreeOK
<1> QED BY <1>1, <1>5, <1>7, <1>8, <1>9, <1>10, <1>11 DEF TreeOK, n

(* Whatever the position, the new node and no other comes into the tree.    *)
LEMMA InsertNodeLemma ==
  ASSUME PoolInv, LinkTypes, TreeOK, NEW p \in Live \cup {NIL}, NEW a,
         p = NIL => root = NIL, p # NIL /\ a # NIL => a \in Live /\ parent[a] = p,
         NEW t, NEW k, InsertNode(p, a, t, k)
  PROVE  /\ PoolInv' /\ LinkTypes' /\ TreeOK'
         /\ NextNode \in Node \ Live /\ Live' = Live \cup {NextNode}
         /\ parent' = [parent EXCEPT ![NextNode] = p]
<1>1. CASE p = NIL /\ InsertRoot(t, k)
  BY <1>1, InsertRootLemma DEF InsertRoot, NewNode
<1>2. CASE p # NIL /\ a = NIL /\ Prepend(p, t, k)
  BY <1>2, PrependLemma DEF Prepend, NewNode
<1>3. CASE p # NIL /\ a # NIL /\ InsertAfter(p, a, t, k)
  BY <1>3, InsertAfterLemma DEF InsertAfter, NewNode
<1> QED BY <1>1, <1>2, <1>3 DEF InsertNode

----------------------------------------------------------------------------
(* Removal of a leaf.                                                       *)

(* A root without children is the only element.                             *)
LEMMA LoneRoot ==
  ASSUME PoolInv, TreeOK, NEW n \in Live, first_child[n] = NIL, parent[n] = NIL
  PROVE  Live = {n}
<1>1. \A m \in Live : parent[m] \in Live \cup {NIL} /\ parent[m] # n
  BY ChildlessLemma DEF TreeOK, LinksLive
<1> SUFFICES ASSUME Live \ {n} # {} PROVE FALSE
  OBVIOUS
<1>2. PICK x \in Live \ {n} : parent[x] \notin Live \ {n}
  BY DEF TreeOK, Acyclic
<1>3. parent[x] = NIL
  BY <1>1, <1>2
<1> QED BY <1>2, <1>3 DEF TreeOK, OneRoot

LEMMA RemoveRootLemma ==
  ASSUME PoolInv, LinkTypes, TreeOK, NEW n \in Live, first_child[n] = NIL, parent[n] = NIL,
         Forget(n), UNCHANGED <<sibling, first_child, last_child, root>>
  PROVE  PoolInv' /\ LinkTypes' /\ TreeOK' /\ Live' = Live \ {n}
<1>1. PoolInv' /\ Live' = {} /\ Live = {n}
  BY LoneRoot, FreeLemma DEF Forget
<1>2. LinkTypes'
  BY <1>1 DEF Forget, LinkTypes, Link
<1>3. TreeOK'
  BY <1>1 DEF TreeOK, LinksLive, EndsOK, SiblingsOK, Acyclic, OneRoot
<1> QED BY <1>1, <1>2, <1>3

LEMMA UnlinkFirstLemma ==
  ASSUME PoolInv, LinkTypes, TreeOK, NEW n \in Live, NEW p \in Live, first_child[n] = NIL,
         parent[n] = p, first_child[p] = n,
         UnlinkFirst(n, p), Forget(n), UNCHANGED root
  PROVE  PoolInv' /\ LinkTypes' /\ TreeOK' /\ Live' = Live \ {n}
<1>1. PoolInv' /\ Live' = Live \ {n}
  BY FreeLemma DEF Forget
<1>2. n # NIL /\ p # NIL /\ n \in Node /\ p \in Node /\ NIL \notin Live /\ Live \subseteq Node
  BY LiveNodes
<1>3. \A m \in Live : /\ parent[m] \in Live \cup {NIL} /\ sibling[m] \in Live \cup {NIL}
                      /\ first_child[m] \in Live \cup {NIL}
                      /\ last_child[m] \in Live \cup {NIL}
                      /\ parent[m] # n /\ sibling[m] # n
  BY <1>2, ChildlessLemma DEF TreeOK, LinksLive, EndsOK
<1>4. p # n
  BY <1>3
<1>5. /\ first_child'[p] = sibling[n] /\ root' = root
      /\ last_child'[p] = IF last_child[p] = n THEN NIL ELSE last_child[p]
      /\ \A m \in Live \ {n} : /\ parent'[m] = parent[m] /\ sibling'[m] = sibling[m]
                               /\ m # p => /\ first_child'[m] = first_child[m]
                                           /\ last_child'[m] = last_child[m]
  BY <1>2, <1>4 DEF UnlinkFirst, Forget, LinkTypes
<1>6. LinkTypes'
  BY <1>2 DEF UnlinkFirst, Forget, LinkTypes, Link
<1>7. \A m \in Live : /\ first_child[m] = n => m = p
                      /\ last_child[m] = n => m = p
  BY <1>2 DEF TreeOK, EndsOK
<1>8. LinksLive'
  <2> SUFFICES ASSUME NEW m \in Live'
               PROVE  /\ parent'[m] \in Live' \cup {NIL} /\ sibling'[m] \in Live' \cup {NIL}
                      /\ first_child'[m] \in Live' \cup {NIL}
                      /\ last_child'[m] \in Live' \cup {NIL}
    BY DEF LinksLive
  <2> QED BY <1>1, <1>2, <1>3, <1>4, <1>5, <1>7
<1>9. EndsOK'
  <2> SUFFICES ASSUME NEW q \in Live'
               PROVE  /\ first_child'[q] = NIL <=> last_child'[q] = NIL
                      /\ first_child'[q] # NIL =>
                           /\ parent'[first_child'[q]] = q /\ parent'[last_child'[q]] = q
                           /\ \A s \in Live' : sibling'[s] # first_child'[q]
    BY DEF EndsOK
  <2>1. CASE q = p
    <3>1. sibling[n] = NIL <=> last_child[p] = n
      BY <1>2 DEF TreeOK, SiblingsOK
    <3>2. first_child'[q] = NIL <=> last_child'[q] = NIL
      BY <1>2, <1>5, <2>1, <3>1 DEF TreeOK, EndsOK
    <3>3. ASSUME first_child'[q] # NIL
          PROVE  parent'[first_child'[q]] = q /\ parent'[last_child'[q]] = q
      BY <1>1, <1>2, <1>3, <1>5, <2>1, <3>1, <3>3 DEF TreeOK, EndsOK, SiblingsOK
    <3>4. ASSUME first_child'[q] # NIL, NEW s \in Live'
          PROVE  sibling'[s] # first_child'[q]
      BY <1>1, <1>2, <1>5, <2>1, <3>4 DEF TreeOK, SiblingsOK
    <3> QED BY <3>2, <3>3, <3>4
  <2>2. CASE q # p
    BY <1>1, <1>2, <1>3, <1>5, <1>7, <2>2 DEF TreeOK, EndsOK
  <2> QED BY <2>1, <2>2
<1>10. SiblingsOK'
  <2> SUFFICES ASSUME NEW q \in Live'
               PROVE  /\ sibling'[q] # NIL =>
                           parent'[q] # NIL /\ parent'[sibling'[q]] = parent'[q]
                      /\ parent'[q] # NIL =>
                           /\ sibling'[q] = NIL <=> last_child'[parent'[q]] = q
                           /\ \/ first_child'[parent'[q]] = q
                              \/ \E s \in Live' : sibling'[s] = q
                      /\ \A m \in Live' : sibling'[m] = sibling'[q] /\ sibling'[q] # NIL => m = q
    BY DEF SiblingsOK
  <2>1. q \in Live /\ q # n
    BY <1>1
  <2>2. sibling'[q] # NIL => parent'[q] # NIL /\ parent'[sibling'[q]] = parent'[q]
    BY <1>1, <1>3, <1>5, <2>1 DEF SiblingsOK, TreeOK
  <2>3. ASSUME parent'[q] # NIL
        PROVE  sibling'[q] = NIL <=> last_child'[parent'[q]] = q
    BY <1>1, <1>2, <1>3, <1>5, <2>1, <2>3 DEF SiblingsOK, TreeOK
  <2>4. ASSUME parent'[q] # NIL, first_child'[parent'[q]] # q
        PROVE  \E s \in Live' : sibling'[s] = q
    <3>1. parent[q] # NIL /\ parent[q] \in Live \ {n} /\ parent'[q] = parent[q]
      BY <1>3, <1>5, <2>1, <2>4
    <3>2. first_child[parent[q]] # q
      BY <1>5, <2>1, <2>4, <3>1
    <3>3. PICK s \in Live : sibling[s] = q
      BY <2>1, <3>1, <3>2 DEF SiblingsOK, TreeOK
    <3>4. s # n
      <4> SUFFICES ASSUME s = n PROVE FALSE
        OBVIOUS
      <4>1. parent[q] = p
        BY <1>2, <2>1, <3>3 DEF SiblingsOK, TreeOK
      <4> QED BY <1>5, <2>4, <3>1, <3>3, <4>1
    <3> QED BY <1>1, <1>5, <3>3, <3>4
  <2>5. ASSUME NEW m \in Live', sibling'[m] = sibling'[q], sibling'[q] # NIL
        PROVE  m = q
    BY <1>1, <1>5, <2>1, <2>5 DEF SiblingsOK, TreeOK
  <2> QED BY <2>2, <2>3, <2>4, <2>5
<1>11. Acyclic'
  <2> SUFFICES ASSUME NEW S \in SUBSET Live', S # {}
               PROVE  /\ \E x \in S : \A m \in S : sibling'[m] # x
                      /\ \E x \in S : parent'[x] \notin S
    BY DEF Acyclic
  <2>1. S \in SUBSET Live /\ S \subseteq Live \ {n}
    BY <1>1
  <2>2. PICK x \in S : parent[x] \notin S
    BY <2>1 DEF Acyclic, TreeOK
  <2>3. PICK y \in S : \A m \in S : sibling[m] # y
    BY <2>1 DEF Acyclic, TreeOK
  <2> QED BY <1>5, <2>1, <2>2, <2>3
<1>12. OneRoot'
  BY <1>1, <1>2, <1>5 DEF OneRoot, TreeOK
<1> QED BY <1>1, <1>6, <1>8, <1>9, <1>10, <1>11, <1>12 DEF TreeOK

LEMMA UnlinkBehindLemma ==
  ASSUME PoolInv, LinkTypes, TreeOK, NEW n \in Live, NEW p \in Live, NEW l \in Live,
         first_child[n] = NIL, parent[n] = p, parent[l] = p, sibling[l] = n,
         UnlinkBehind(l, n, p), Forget(n), UNCHANGED root
  PROVE  PoolInv' /\ LinkTypes' /\ TreeOK' /\ Live' = Live \ {n}
<1>1. PoolInv' /\ Live' = Live \ {n}
  BY FreeLemma DEF Forget
<1>2. /\ n # NIL /\ p # NIL /\ n \in Node /\ p \in Node /\ l \in Node /\ l # NIL
      /\ NIL \notin Live /\ Live \subseteq Node
  BY LiveNodes
<1>3. \A m \in Live : /\ parent[m] \in Live \cup {NIL} /\ sibling[m] \in Live \cup {NIL}
                      /\ first_child[m] \in Live \cup {NIL}
                      /\ last_child[m] \in Live \cup {NIL}
                      /\ parent[m] # n /\ first_child[m] # n
                      /\ m # l => sibling[m] # n
                      /\ last_child[m] = n => m = p
  BY <1>2, ChildlessLemma DEF TreeOK, LinksLive, EndsOK, SiblingsOK
<1>4. p # n /\ l # n
  <2>1. PICK x \in {n} : \A m \in {n} : sibling[m] # x
    BY DEF TreeOK, Acyclic
  <2> QED BY <1>3, <2>1
<1>5. /\ sibling'[l] = sibling[n] /\ root' = root
      /\ last_child'[p] = IF last_child[p] = n THEN l ELSE last_child[p]
      /\ \A m \in Live \ {n} : /\ parent'[m] = parent[m] /\ first_child'[m] = first_child[m]
                               /\ m # l => sibling'[m] = sibling[m]
                               /\ m # p => last_child'[m] = last_child[m]
  BY <1>2, <1>4 DEF UnlinkBehind, Forget, LinkTypes
<1>6. LinkTypes'
  BY <1>2 DEF UnlinkBehind, Forget, LinkTypes, Link
<1>7. LinksLive'
  <2> SUFFICES ASSUME NEW m \in Live'
               PROVE  /\ parent'[m] \in Live' \cup {NIL} /\ sibling'[m] \in Live' \cup {NIL}
                      /\ first_child'[m] \in Live' \cup {NIL}
                      /\ last_child'[m] \in Live' \cup {NIL}
    BY DEF LinksLive
  <2>1. sibling[n] # n
    BY <1>2, <1>3, <1>4
  <2> QED BY <1>1, <1>2, <1>3, <1>4, <1>5, <2>1
<1>8. EndsOK'
  <2> SUFFICES ASSUME NEW q \in Live'
               PROVE  /\ first_child'[q] = NIL <=> last_child'[q] = NIL
                      /\ first_child'[q] # NIL =>
                           /\ parent'[first_child'[q]] = q /\ parent'[last_child'[q]] = q
                           /\ \A s \in Live' : sibling'[s] # first_child'[q]
    BY DEF EndsOK
  <2>1. first_child'[q] = NIL <=> last_child'[q] = NIL
    BY <1>1, <1>2, <1>3, <1>5 DEF TreeOK, EndsOK
  <2>2. ASSUME first_child'[q] # NIL
        PROVE  parent'[first_child'[q]] = q /\ parent'[last_child'[q]] = q
    BY <1>1, <1>2, <1>3, <1>4, <1>5, <2>2 DEF TreeOK, EndsOK
  <2>3. ASSUME first_child'[q] # NIL, NEW s \in Live'
        PROVE  sibling'[s] # first_child'[q]
    BY <1>1, <1>2, <1>3, <1>5, <2>3 DEF TreeOK, EndsOK
  <2> QED BY <2>1, <2>2, <2>3
<1>9. SiblingsOK'
  <2> SUFFICES ASSUME NEW q \in Live'
               PROVE  /\ sibling'[q] # NIL =>
                           parent'[q] # NIL /\ parent'[sibling'[q]] = parent'[q]
                      /\ parent'[q] # NIL =>
                           /\ sibling'[q] = NIL <=> last_child'[parent'[q]] = q
                           /\ \/ first_child'[parent'[q]] = q
                              \/ \E s \in Live' : sibling'[s] = q
                      /\ \A m \in Live' : sibling'[m] = sibling'[q] /\ sibling'[q] # NIL => m = q
    BY DEF SiblingsOK
  <2>1. q \in Live /\ q # n
    BY <1>1
  <2>2. sibling'[q] # NIL => parent'[q] # NIL /\ parent'[sibling'[q]] = parent'[q]
    BY <1>1, <1>2, <1>3, <1>4, <1>5, <2>1 DEF SiblingsOK, TreeOK
  <2>3. ASSUME parent'[q] # NIL
        PROVE  sibling'[q] = NIL <=> last_child'[parent'[q]] = q
    BY <1>1, <1>2, <1>3, <1>4, <1>5, <2>1, <2>3 DEF SiblingsOK, TreeOK
  <2>4. ASSUME parent'[q] # NIL, first_child'[parent'[q]] # q
        PROVE  \E s \in Live' : sibling'[s] = q
    <3>1. PICK s \in Live : sibling[s] = q
      BY <1>3, <1>5, <2>1, <2>4 DEF SiblingsOK, TreeOK
    <3>2. CASE s = n
      BY <1>1, <1>4, <1>5, <3>1, <3>2
    <3>3. CASE s # n
      BY <1>1, <1>5, <2>1, <3>1, <3>3
    <3> QED BY <3>2, <3>3
  <2>5. ASSUME NEW m \in Live', sibling'[m] = sibling'[q], sibling'[q] # NIL
        PROVE  m = q
    BY <1>1, <1>4, <1>5, <2>1, <2>5 DEF SiblingsOK, TreeOK
  <2> QED BY <2>2, <2>3, <2>4, <2>5
<1>10. Acyclic'
  <2> SUFFICES ASSUME NEW S \in SUBSET Live', S # {}
               PROVE  /\ \E x \in S : \A m \in S : sibling'[m] # x
                      /\ \E x \in S : parent'[x] \notin S
    BY DEF Acyclic
  <2>1. S \in SUBSET Live /\ S \subseteq Live \ {n}
    BY <1>1
  <2>2. PICK x \in S : parent[x] \notin S
    BY <2>1 DEF Acyclic, TreeOK
  <2>3. \E y \in S : \A m \in S : sibling'[m] # y
    <3>1. CASE l \notin S
      <4>1. PICK y \in S : \A m \in S : sibling[m] # y
        BY <2>1 DEF Acyclic, TreeOK
      <4> QED BY <1>5, <2>1, <3>1, <4>1
    <3>2. CASE l \in S
      <4>1. S \cup {n} \in SUBSET Live
        BY <2>1
      <4>2. PICK y \in S \cup {n} : \A m \in S \cup {n} : sibling[m] # y
        BY <4>1 DEF Acyclic, TreeOK
      <4>3. y \in S
        BY <3>2, <4>2
      <4> QED BY <1>5, <2>1, <4>2, <4>3
    <3> QED BY <3>1, <3>2
  <2> QED BY <1>5, <2>1, <2>2, <2>3
<1>11. OneRoot'
  BY <1>1, <1>2, <1>5 DEF OneRoot, TreeOK
<1> QED BY <1>1, <1>6, <1>7, <1>8, <1>9, <1>10, <1>11 DEF TreeOK

(* The pool reset takes every element with it.                              *)
LEMMA ResetTreeLemma ==
  ASSUME ResetTree
  PROVE  PoolInv' /\ LinkTypes' /\ TreeOK' /\ Live' = {}
<1>1. PoolInv' /\ Live' = {}
  BY ResetLemma DEF ResetTree
<1>2. LinkTypes'
  BY DEF ResetTree, LinkTypes, Link
<1>3. TreeOK'
  BY <1>1 DEF TreeOK, LinksLive, EndsOK, SiblingsOK, Acyclic, OneRoot
<1> QED BY <1>1, <1>2, <1>3

----------------------------------------------------------------------------
(* The key table with the tree as its client.                               *)

TP == INSTANCE JesHashTableProofs WITH HashValue <- Node \X Names, KeyNode <- Node

(* In linear mode there is no table, and nothing touches its variables.     *)
TableOK ==
  IF Hashed THEN TP!TableInv ELSE slots = [s \in Table!Slot |-> EMPTY] /\ entry_count = 0

(* What a step does to the table is an operation of the table's own         *)
(* specification, or nothing.                                               *)
TableStep == [Table!HashNext]_tableVars /\ (~Hashed => Table!HashReset \/ UNCHANGED tableVars)

LEMMA TableAssumptions ==
  Hashed => TP!HashCapacityAssumption /\ TP!HomeAssumption /\ TP!SentinelAssumption
BY TableAssumption, NilAssumption
   DEF TP!HashCapacityAssumption, TP!HomeAssumption, TP!SentinelAssumption,
       TP!Slot, TP!Entry, Table!Slot, Table!Entry

LEMMA SameAdd ==
  ASSUME NEW h, NEW n
  PROVE  Table!HashAdd(h, n) <=> TP!HashAdd(h, n)
BY DEF Table!HashAdd, TP!HashAdd, Table!AddStatus, TP!AddStatus, Table!StopsAt, TP!StopsAt,
       Table!Probe, TP!Probe, Table!First, TP!First, Table!Holds, TP!Holds,
       Table!Occupied, TP!Occupied, Table!Slot, TP!Slot, Table!tableVars, TP!tableVars

LEMMA SameFind ==
  ASSUME NEW h
  PROVE  Table!FoundAt(h) = TP!FoundAt(h) /\ Table!HashFind(h) = TP!HashFind(h)
BY DEF Table!HashFind, TP!HashFind, Table!FoundAt, TP!FoundAt, Table!Probe, TP!Probe,
       Table!First, TP!First, Table!Holds, TP!Holds,
       Table!Occupied, TP!Occupied, Table!Slot, TP!Slot

LEMMA SameRemove ==
  ASSUME NEW h
  PROVE  Table!HashRemove(h) <=> TP!HashRemove(h)
<1>1. Table!FoundAt(h) = TP!FoundAt(h) /\ Table!tableVars = TP!tableVars
  BY SameFind DEF Table!tableVars, TP!tableVars
<1>2. \A i : Table!Probe(h, i) = TP!Probe(h, i)
  BY DEF Table!Probe, TP!Probe
<1>3. \A S : Table!First(S) = TP!First(S)
  BY DEF Table!First, TP!First
<1> QED BY <1>1, <1>2, <1>3 DEF Table!HashRemove, TP!HashRemove, Table!tableVars, TP!tableVars

LEMMA SameReset ==
  /\ Table!HashReset <=> TP!HashReset
  /\ Table!HashInit <=> TP!HashInit
BY DEF Table!HashReset, TP!HashReset, Table!HashInit, TP!HashInit, Table!Slot, TP!Slot

LEMMA SameNext == [Table!HashNext]_tableVars => [TP!HashNext]_(TP!tableVars)
<1>1. Table!tableVars = TP!tableVars /\ tableVars = TP!tableVars
  BY DEF Table!tableVars, TP!tableVars, tableVars
<1>2. (UNCHANGED tableVars) => UNCHANGED TP!tableVars
  BY DEF TP!tableVars, tableVars
<1>3. Table!HashNext => TP!HashNext
  BY SameAdd, SameFind, SameRemove, SameReset DEF Table!HashNext, TP!HashNext
<1> QED BY <1>2, <1>3

LEMMA TableInitLemma == Table!HashInit => TableOK
<1> SUFFICES ASSUME Table!HashInit PROVE TableOK
  OBVIOUS
<1>1. CASE Hashed
  BY <1>1, SameReset, TP!EmptyTable, TableAssumptions DEF TableOK
<1>2. CASE ~Hashed
  BY <1>2 DEF TableOK, Table!HashInit
<1> QED BY <1>1, <1>2

LEMMA TableStepLemma == TableOK /\ TableStep => TableOK'
<1> SUFFICES ASSUME TableOK, TableStep PROVE TableOK'
  OBVIOUS
<1>1. CASE Hashed
  BY <1>1, SameNext, TP!StepKeepsTableInv, TableAssumptions DEF TableOK, TableStep
<1>2. CASE ~Hashed
  BY <1>2 DEF TableOK, TableStep, Table!HashReset, tableVars, Table!Slot
<1> QED BY <1>1, <1>2

LEMMA TableTypesLemma == TableOK => Table!HashTypeOK
<1> SUFFICES ASSUME TableOK PROVE Table!HashTypeOK
  OBVIOUS
<1>1. CASE Hashed
  <2>1. TP!TableInv
    BY <1>1 DEF TableOK
  <2>2. entry_count <= HashCapacity
    BY <1>1, <2>1, TP!CountFits, TableAssumptions
  <2> QED BY <2>1, <2>2, TableAssumption
          DEF TP!TableInv, TP!SlotsTypeOK, Table!HashTypeOK, Table!Slot, TP!Slot, Table!Entry, TP!Entry
<1>2. CASE ~Hashed
  BY <1>2, TableAssumption DEF TableOK, Table!HashTypeOK
<1> QED BY <1>1, <1>2

----------------------------------------------------------------------------
(* The inductive invariant.  Besides the tree and the table it says what a  *)
(* call in progress may rely on.                                            *)

TreeShape == PoolInv /\ LinkTypes /\ TreeOK

NodesOK ==
  /\ type \in [Node -> ElementType \cup {"UNKNOWN"}]
  /\ key \in [Node -> Names \cup {NIL}]
  /\ root \in Link
  /\ \A n \in Live : type[n] = "KEY" => key[n] \in Names

CallTypes == status \in Status /\ pc \in Point /\ target \in Link /\ cur \in Link /\ call \in Call

(* The parents of cur lead to the target, through P: as P is left nowhere   *)
(* else and no parent links run in a circle, the target is in it.           *)
BelowTarget ==
  \E P \in SUBSET Live : /\ cur \in P /\ parent[target] \notin P
                         /\ \A x \in P : x = target \/ parent[x] \in P

(* A deletion works on elements below its target; the leaf it is about to   *)
(* take off is the first child of its parent; the element an update is for  *)
(* is the parent of the value that goes.                                    *)
DeletionOK ==
  /\ pc \in {"search", "leaf"} =>
       /\ target \in Live /\ BelowTarget
       /\ call.op \in {"update_key_value", "update_array_value"} =>
            parent[target] # NIL /\ call.node = parent[target]
  /\ pc = "leaf" => cur # target /\ first_child[parent[cur]] = cur

(* The element a call finishes its work on is still there, with what the    *)
(* call wants to make of it.                                                *)
FinishOK ==
  /\ pc \in {"add", "retype", "add_key"} => call.node \in Live
  /\ pc = "add_key" => call.name \in Names
  /\ call.type = "KEY" => call.name \in Names
  /\ pc = "retype" => call.op = "update_array_value"

IInv ==
  /\ TreeShape /\ NodesOK /\ TableOK
  /\ CallTypes /\ DeletionOK /\ FinishOK /\ UpdateHasRoom

(* A step is sound: it keeps the invariant and the protocols of the pool    *)
(* and of the key table.                                                    *)
Sound == IInv' /\ [PoolNext]_poolVars /\ TableStep

(* What is not touched stays as it is.                                      *)
LEMMA TreeUnchanged ==
  ASSUME TreeShape, NodesOK, UNCHANGED treeVars
  PROVE  TreeShape' /\ NodesOK' /\ Live' = Live /\ (Full' <=> Full) /\ UNCHANGED poolVars
<1>1. UNCHANGED <<type, key, parent, sibling, first_child, last_child, root>>
  BY DEF treeVars, nodeVars
<1>2. UNCHANGED <<next_free, freed, node_count>> /\ UNCHANGED poolVars
  BY DEF treeVars, poolVars
<1>3. Live' = Live /\ (Full' <=> Full)
  BY <1>2 DEF Live, Full
<1>4. PoolInv'
  BY <1>2, <1>3 DEF TreeShape, PoolInv, PoolTypeOK, FreeListOK
<1>5. LinkTypes' /\ NodesOK'
  BY <1>1, <1>3 DEF TreeShape, LinkTypes, NodesOK, Link
<1>6. TreeOK'
  BY <1>1, <1>3 DEF TreeShape, TreeOK, LinksLive, EndsOK, SiblingsOK, Acyclic, OneRoot
<1> QED BY <1>2, <1>3, <1>4, <1>5, <1>6 DEF TreeShape

LEMMA ReturnLemma ==
  ASSUME NEW s \in Status, Return(s)
  PROVE  CallTypes' /\ DeletionOK' /\ FinishOK' /\ UpdateHasRoom'
<1>1. NoCall \in Call /\ NoCall.type = "UNKNOWN"
  BY DEF NoCall, Call, Link
<1> QED BY <1>1 DEF Return, CallTypes, DeletionOK, FinishOK, UpdateHasRoom, Point, Link

LEMMA RefuseLemma ==
  ASSUME IInv, NEW s \in Status, Refuse(s)
  PROVE  Sound
<1>1. UNCHANGED treeVars /\ UNCHANGED tableVars /\ Return(s)
  BY DEF Refuse
<1>2. TableStep
  BY <1>1 DEF TableStep
<1> QED BY <1>1, <1>2, TreeUnchanged, TableStepLemma, ReturnLemma DEF IInv, Sound

LEMMA AbortLemma ==
  ASSUME IInv, Abort
  PROVE  Sound
<1>1. UNCHANGED treeVars /\ UNCHANGED tableVars
  BY DEF Abort
<1>2. TableStep
  BY <1>1 DEF TableStep
<1>3. CallTypes' /\ DeletionOK' /\ FinishOK' /\ UpdateHasRoom'
  BY DEF Abort, IInv, callVars, CallTypes, DeletionOK, FinishOK, UpdateHasRoom, Point, Link
<1> QED BY <1>1, <1>2, <1>3, TreeUnchanged, TableStepLemma DEF IInv, Sound

(* A place for a new child: behind one of p's children, or in front, or the *)
(* root of an empty tree.                                                   *)
Place(p, a) ==
  /\ p \in Live \cup {NIL}
  /\ p = NIL => root = NIL
  /\ p # NIL /\ a # NIL => a \in Live /\ parent[a] = p

LEMMA InsertLemma ==
  ASSUME TreeShape, NodesOK, NEW p, NEW a, Place(p, a),
         NEW t \in ElementType \cup {"UNKNOWN"}, NEW k \in Names \cup {NIL},
         t = "KEY" => k \in Names, InsertNode(p, a, t, k)
  PROVE  /\ TreeShape' /\ NodesOK' /\ [PoolNext]_poolVars
         /\ NextNode \in Node \ Live /\ Live' = Live \cup {NextNode}
<1>1. /\ PoolInv' /\ LinkTypes' /\ TreeOK'
      /\ NextNode \in Node \ Live /\ Live' = Live \cup {NextNode}
  BY InsertNodeLemma DEF TreeShape, Place
<1>2. /\ type' = [type EXCEPT ![NextNode] = t] /\ key' = [key EXCEPT ![NextNode] = k]
      /\ Allocate
      /\ root' \in {root, NextNode}
  BY DEF InsertNode, InsertRoot, Prepend, InsertAfter, NewNode
<1>3. Live \subseteq Node
  BY LiveNodes DEF TreeShape
<1>4. NodesOK'
  BY <1>1, <1>2, <1>3 DEF NodesOK, Link
<1> QED BY <1>1, <1>2, <1>4 DEF TreeShape, PoolNext

LEMMA InsertAndReturnLemma ==
  ASSUME IInv, NEW p, NEW a, Place(p, a),
         NEW t \in ElementType \cup {"UNKNOWN"}, NEW k \in Names \cup {NIL},
         t = "KEY" => k \in Names, InsertAndReturn(p, a, t, k)
  PROVE  Sound
<1>1. CASE Refuse("OUT_OF_MEMORY")
  BY <1>1, RefuseLemma DEF Status
<1>2. CASE InsertNode(p, a, t, k) /\ Return("NO_ERROR") /\ UNCHANGED tableVars
  <2>1. TableStep
    BY <1>2 DEF TableStep
  <2>2. "NO_ERROR" \in Status
    BY DEF Status
  <2> QED BY <1>2, <2>1, <2>2, InsertLemma, ReturnLemma, TableStepLemma DEF IInv, Sound
<1> QED BY <1>1, <1>2 DEF InsertAndReturn

LEMMA InsertKeyAndReturnLemma ==
  ASSUME IInv, NEW o \in Live, NEW a, Place(o, a), NEW k \in Names,
         InsertKeyAndReturn(o, a, k)
  PROVE  Sound
<1>1. CASE Refuse("DUPLICATE_KEY")
  BY <1>1, RefuseLemma DEF Status
<1>2. CASE Refuse("OUT_OF_MEMORY")
  BY <1>2, RefuseLemma DEF Status
<1>3. ASSUME FindKey(o, k) = NIL, InsertNode(o, a, "KEY", k),
             IF Hashed
             THEN /\ Table!HashAdd(<<o, k>>, NextNode)
                  /\ Return(Table!AddStatus(<<o, k>>))
             ELSE UNCHANGED tableVars /\ Return("NO_ERROR")
      PROVE  Sound
  <2>1. /\ TreeShape' /\ NodesOK' /\ [PoolNext]_poolVars
        /\ NextNode \in Node \ Live
    BY <1>3, InsertLemma DEF ElementType, IInv
  <2>2. o \in Node
    BY LiveNodes DEF IInv, TreeShape
  <2>3. TableStep
    BY <1>3, <2>1, <2>2 DEF TableStep, FindKey, Table!HashNext
  <2>4. Table!AddStatus(<<o, k>>) \in Status /\ "NO_ERROR" \in Status
    BY DEF Table!AddStatus, Status
  <2>5. CallTypes' /\ DeletionOK' /\ FinishOK' /\ UpdateHasRoom'
    BY <1>3, <2>4, ReturnLemma
  <2> QED BY <2>1, <2>3, <2>5, TableStepLemma DEF IInv, Sound
<1> QED BY <1>1, <1>2, <1>3 DEF InsertKeyAndReturn

----------------------------------------------------------------------------
(* Deletion keeps the invariant.                                            *)

LEMMA StartDeleteLemma ==
  ASSUME IInv, NEW n \in Live, NEW then \in Call, StartDelete(n, then), status' \in Status,
         then.op \in {"update_key_value", "update_array_value"} =>
           parent[n] # NIL /\ then.node = parent[n],
         then.type = "KEY" => then.name \in Names
  PROVE  Sound
<1>1. /\ UNCHANGED treeVars /\ UNCHANGED tableVars
      /\ pc' = "search" /\ target' = n /\ cur' = n /\ call' = then
  BY DEF StartDelete
<1>2. TreeShape' /\ NodesOK' /\ Live' = Live /\ parent' = parent /\ UNCHANGED poolVars
  BY <1>1, TreeUnchanged DEF IInv, treeVars, nodeVars
<1>3. TableStep
  BY <1>1 DEF TableStep
<1>4. CallTypes' /\ FinishOK' /\ UpdateHasRoom'
  <2>1. n \in Link
    BY LiveNodes DEF IInv, TreeShape, Link
  <2> QED BY <1>1, <2>1 DEF CallTypes, FinishOK, UpdateHasRoom, Point
<1>5. BelowTarget'
  <2>1. parent[n] # n
    <3>1. PICK x \in {n} : parent[x] \notin {n}
      BY DEF IInv, TreeShape, TreeOK, Acyclic
    <3> QED BY <3>1
  <2>2. {n} \in SUBSET Live' /\ cur' \in {n} /\ parent'[target'] \notin {n}
    BY <1>1, <1>2, <2>1
  <2> QED BY <1>1, <2>2 DEF BelowTarget
<1>6. DeletionOK'
  BY <1>1, <1>2, <1>5 DEF DeletionOK
<1> QED BY <1>2, <1>3, <1>4, <1>6, TableStepLemma, <1>1 DEF IInv, Sound

LEMMA GoDownLemma ==
  ASSUME IInv, GoToLeaf
  PROVE  Sound
<1>1. /\ pc \in {"search", "leaf"} /\ first_child[cur] # NIL
      /\ cur' = first_child[cur] /\ pc' = "leaf"
      /\ UNCHANGED treeVars /\ UNCHANGED tableVars /\ status' = status
      /\ target' = target /\ call' = call
  BY DEF GoToLeaf, GoDown
<1>2. /\ TreeShape' /\ NodesOK' /\ Live' = Live /\ UNCHANGED poolVars
      /\ parent' = parent /\ first_child' = first_child
  BY <1>1, TreeUnchanged DEF IInv, treeVars, nodeVars
<1>3. TableStep
  BY <1>1 DEF TableStep
<1>4. PICK P \in SUBSET Live : /\ cur \in P /\ parent[target] \notin P
                               /\ \A x \in P : x = target \/ parent[x] \in P
  BY <1>1 DEF IInv, DeletionOK, BelowTarget
<1> DEFINE c == first_child[cur]
           Q == P \cup {c}
<1>5. c \in Live /\ parent[c] = cur /\ target \in Live
  <2>1. {parent[cur], sibling[cur], first_child[cur], last_child[cur]} \subseteq Live \cup {NIL}
    BY <1>4 DEF IInv, TreeShape, TreeOK, LinksLive
  <2> QED BY <1>1, <1>4, <2>1 DEF IInv, TreeShape, TreeOK, EndsOK, DeletionOK
<1>6. c # target
  BY <1>4, <1>5
<1>7. parent[target] # c
  <2> SUFFICES ASSUME parent[target] = c PROVE FALSE
    OBVIOUS
  <2>1. Q \in SUBSET Live /\ Q # {}
    BY <1>4, <1>5
  <2>2. PICK x \in Q : parent[x] \notin Q
    BY <2>1 DEF IInv, TreeShape, TreeOK, Acyclic
  <2> QED BY <1>4, <1>5, <2>2
<1> HIDE DEF c
<1>8. BelowTarget'
  <2>1. /\ Q \in SUBSET Live' /\ c \in Q /\ parent[target] \notin Q
        /\ \A x \in Q : x = target \/ parent[x] \in Q
    BY <1>2, <1>4, <1>5, <1>7
  <2>2. cur' = c /\ target' = target /\ parent' = parent
    BY <1>1, <1>2 DEF c
  <2> HIDE DEF Q
  <2> QED BY <2>1, <2>2 DEF BelowTarget
<1>9. DeletionOK'
  BY <1>1, <1>2, <1>5, <1>6, <1>8 DEF IInv, DeletionOK, c
<1>10. CallTypes' /\ FinishOK' /\ UpdateHasRoom'
  <2>1. c \in Link
    BY <1>5, LiveNodes DEF IInv, TreeShape, Link
  <2> QED BY <1>1, <2>1 DEF IInv, CallTypes, FinishOK, UpdateHasRoom, Point, c
<1> QED BY <1>1, <1>2, <1>3, <1>9, <1>10, TableStepLemma DEF IInv, Sound

LEMMA RestartLemma ==
  ASSUME IInv, Restart
  PROVE  Sound
<1>1. /\ pc = "search" /\ cur' = target /\ pc' = pc
      /\ UNCHANGED treeVars /\ UNCHANGED tableVars /\ status' = status
      /\ target' = target /\ call' = call
  BY DEF Restart
<1>2. TreeShape' /\ NodesOK' /\ Live' = Live /\ UNCHANGED poolVars /\ parent' = parent
  BY <1>1, TreeUnchanged DEF IInv, treeVars, nodeVars
<1>3. TableStep
  BY <1>1 DEF TableStep
<1>4. PICK P \in SUBSET Live : /\ cur \in P /\ parent[target] \notin P
                               /\ \A x \in P : x = target \/ parent[x] \in P
  BY <1>1 DEF IInv, DeletionOK, BelowTarget
<1>5. PICK x \in P : parent[x] \notin P
  BY <1>4 DEF IInv, TreeShape, TreeOK, Acyclic
<1>6. target \in P
  BY <1>4, <1>5
<1>7. BelowTarget'
  <2>1. P \in SUBSET Live' /\ cur' \in P /\ parent'[target'] \notin P
    BY <1>1, <1>2, <1>4, <1>6
  <2>2. \A y \in P : y = target' \/ parent'[y] \in P
    BY <1>1, <1>2, <1>4
  <2> QED BY <2>1, <2>2 DEF BelowTarget
<1>8. DeletionOK'
  BY <1>1, <1>2, <1>7 DEF IInv, DeletionOK
<1>9. CallTypes' /\ FinishOK' /\ UpdateHasRoom'
  BY <1>1 DEF IInv, CallTypes, FinishOK, UpdateHasRoom, Point
<1> QED BY <1>1, <1>2, <1>3, <1>8, <1>9, TableStepLemma DEF IInv, Sound

LEMMA UnregisterLemma ==
  ASSUME NodesOK, PoolInv, NEW n \in Live, NEW p, Hashed /\ type[n] = "KEY" => p \in Live,
         Unregister(n, p)
  PROVE  TableStep
<1>1. Live \subseteq Node
  BY LiveNodes
<1>2. CASE Hashed /\ type[n] = "KEY"
  <2>1. <<p, key[n]>> \in Node \X Names
    BY <1>1, <1>2 DEF NodesOK
  <2>2. Table!HashRemove(<<p, key[n]>>)
    BY <1>2 DEF Unregister
  <2> QED BY <1>2, <2>1, <2>2 DEF TableStep, Table!HashNext
<1>3. CASE ~(Hashed /\ type[n] = "KEY")
  BY <1>3 DEF Unregister, TableStep
<1> QED BY <1>2, <1>3

LEMMA ForgetLemma ==
  ASSUME NodesOK, PoolInv, LinkTypes, NEW n \in Live, Forget(n), UNCHANGED root
  PROVE  /\ NodesOK' /\ [PoolNext]_poolVars /\ ~Full'
         /\ \A m \in Live \ {n} : parent'[m] = parent[m]
<1>1. PoolInv' /\ Live' = Live \ {n} /\ Live \subseteq Node
  BY FreeLemma, LiveNodes DEF Forget
<1>2. NodesOK'
  BY <1>1 DEF Forget, NodesOK, Link
<1>3. ~Full'
  BY CapacityAssumption DEF Forget, FreeNode, Full, PoolInv, PoolTypeOK
<1> QED BY <1>1, <1>2, <1>3 DEF Forget, PoolNext, LinkTypes

LEMMA RemoveLeafLemma ==
  ASSUME IInv, RemoveLeaf
  PROVE  Sound
<1> DEFINE p == parent[cur]
<1>1. /\ pc = "leaf" /\ first_child[cur] = NIL
      /\ UnlinkFirst(cur, p) /\ Unregister(cur, p) /\ Forget(cur)
      /\ cur' = p /\ pc' = "search" /\ root' = root
      /\ status' = status /\ target' = target /\ call' = call
  BY DEF RemoveLeaf, UnlinkFirst
<1>2. PICK P \in SUBSET Live : /\ cur \in P /\ parent[target] \notin P
                               /\ \A x \in P : x = target \/ parent[x] \in P
  BY <1>1 DEF IInv, DeletionOK, BelowTarget
<1>3. cur \in Live /\ p \in P /\ p \in Live /\ target \in Live /\ cur # target /\ first_child[p] = cur
  BY <1>1, <1>2 DEF IInv, DeletionOK
<1> HIDE DEF p
<1>4. TreeShape' /\ Live' = Live \ {cur}
  BY <1>1, <1>3, UnlinkFirstLemma DEF IInv, TreeShape, p
<1>5. \A x \in Live : parent[x] # cur
  BY <1>1, <1>3, ChildlessLemma DEF IInv, TreeShape
<1>6. NodesOK' /\ [PoolNext]_poolVars /\ \A m \in Live \ {cur} : parent'[m] = parent[m]
  BY <1>1, <1>3, ForgetLemma DEF IInv, TreeShape
<1>7. TableStep
  BY <1>1, <1>3, UnregisterLemma DEF IInv, TreeShape
<1>8. BelowTarget'
  <2> DEFINE Q == P \ {cur}
  <2>1. Q \in SUBSET Live' /\ p \in Q /\ parent'[target] \notin Q
    BY <1>2, <1>3, <1>4, <1>5, <1>6 DEF p
  <2>2. \A x \in Q : x = target \/ parent'[x] \in Q
    BY <1>2, <1>5, <1>6
  <2> HIDE DEF Q
  <2> QED BY <1>1, <2>1, <2>2 DEF BelowTarget
<1>9. DeletionOK'
  BY <1>1, <1>3, <1>4, <1>6, <1>8 DEF IInv, DeletionOK
<1>10. CallTypes' /\ FinishOK' /\ UpdateHasRoom'
  <2>1. p \in Link
    BY <1>3, LiveNodes DEF IInv, TreeShape, Link
  <2> QED BY <1>1, <2>1 DEF IInv, CallTypes, FinishOK, UpdateHasRoom, Point
<1> QED BY <1>4, <1>6, <1>7, <1>9, <1>10, TableStepLemma DEF IInv, Sound

LEMMA RemoveTargetLemma ==
  ASSUME IInv, RemoveTarget
  PROVE  Sound
<1> DEFINE n == target
           p == parent[target]
<1>1. /\ pc = "search" /\ first_child[n] = NIL
      /\ ~(Hashed /\ type[n] = "KEY" /\ p = NIL)
      /\ \/ p = NIL /\ UNCHANGED <<sibling, first_child, last_child>>
         \/ p # NIL /\ LeftSibling(n) = NIL /\ UnlinkFirst(n, p)
         \/ p # NIL /\ LeftSibling(n) # NIL /\ UnlinkBehind(LeftSibling(n), n, p)
      /\ Unregister(n, p) /\ Forget(n) /\ root' = root
      /\ pc' = AfterDelete /\ target' = NIL /\ cur' = NIL /\ status' = status
      /\ call' = IF AfterDelete = "idle" THEN NoCall ELSE call
  BY DEF RemoveTarget
<1>2. n \in Live /\ p \in Live \cup {NIL} /\ NIL \notin Live /\ p # n
  <2>1. n \in Live
    BY <1>1 DEF IInv, DeletionOK
  <2>2. {parent[n], sibling[n], first_child[n], last_child[n]} \subseteq Live \cup {NIL}
    BY <2>1 DEF IInv, TreeShape, TreeOK, LinksLive
  <2>3. parent[n] # n
    BY <1>1, <2>1, ChildlessLemma DEF IInv, TreeShape
  <2> QED BY <2>1, <2>2, <2>3, LiveNodes DEF IInv, TreeShape
<1>3. /\ call.op \in {"update_key_value", "update_array_value"} => p # NIL /\ call.node = p
  BY <1>1 DEF IInv, DeletionOK
<1> HIDE DEF n
<1>4. TreeShape' /\ Live' = Live \ {n}
  <2>1. CASE p = NIL
    BY <1>1, <1>2, <2>1, RemoveRootLemma DEF IInv, TreeShape, n
  <2>2. CASE p # NIL /\ LeftSibling(n) = NIL
    BY <1>1, <1>2, <2>2, LeftSiblingLemma, UnlinkFirstLemma DEF IInv, TreeShape, n
  <2>3. CASE p # NIL /\ LeftSibling(n) # NIL
    BY <1>1, <1>2, <2>3, LeftSiblingLemma, UnlinkBehindLemma DEF IInv, TreeShape, n
  <2> QED BY <2>1, <2>2, <2>3
<1>5. NodesOK' /\ [PoolNext]_poolVars /\ ~Full'
  BY <1>1, <1>2, ForgetLemma DEF IInv, TreeShape
<1>6. TableStep
  BY <1>1, <1>2, UnregisterLemma DEF IInv, TreeShape
<1>7. /\ AfterDelete \in {"add", "retype", "idle"}
      /\ AfterDelete = "add" => call.op = "update_key_value"
      /\ AfterDelete = "retype" => call.op = "update_array_value"
  BY DEF AfterDelete
<1>8. NoCall \in Call /\ NoCall.type = "UNKNOWN" /\ NIL \in Link
  BY DEF NoCall, Call, Link
<1>9. CallTypes'
  BY <1>1, <1>7, <1>8 DEF IInv, CallTypes, Point
<1>10. FinishOK' /\ UpdateHasRoom' /\ DeletionOK'
  BY <1>1, <1>2, <1>3, <1>4, <1>5, <1>7, <1>8 DEF IInv, FinishOK, UpdateHasRoom, DeletionOK
<1> QED BY <1>4, <1>5, <1>6, <1>9, <1>10, TableStepLemma DEF IInv, Sound

----------------------------------------------------------------------------
(* The calls, one lemma each where there is more to it than one case.       *)

LEMMA PlaceLast ==
  ASSUME TreeShape, NEW p \in Live
  PROVE  Place(p, LastChild(p)) /\ Place(p, NIL)
BY LastChildLemma, LiveNodes DEF TreeShape, Place

LEMMA PlaceBehind ==
  ASSUME IInv, NEW p \in Live
  PROVE  Place(p, LastChild(p)) /\ Place(p, NIL)
BY PlaceLast DEF IInv

LEMMA AddElementBodyLemma ==
  ASSUME IInv, NEW p \in Live \cup {NIL}, p = NIL => root = NIL,
         NEW t \in ElementType \cup {"UNKNOWN"}, NEW k \in Names \cup {NIL},
         t = "KEY" => k \in Names, NEW valid, AddElementBody(p, t, k, valid)
  PROVE  Sound
<1>1. CASE Refuse("INVALID_PARAMETER")
  BY <1>1, RefuseLemma DEF Status
<1>2. CASE InsertAndReturn(p, LastChild(p), t, k)
  <2>1. Place(p, LastChild(p))
    <3>1. CASE p = NIL
      BY <3>1 DEF Place
    <3>2. CASE p \in Live
      BY <3>2, PlaceBehind
    <3> QED BY <3>1, <3>2
  <2> QED BY <1>2, <2>1, InsertAndReturnLemma
<1> QED BY <1>1, <1>2 DEF AddElementBody

(* A KEY comes with a name.                                                 *)
LEMMA NamesForLemma ==
  ASSUME NEW t, NEW k \in NamesFor(t)
  PROVE  k \in Names \cup {NIL} /\ (t = "KEY" => k \in Names)
BY DEF NamesFor

LEMMA AddElementLemma ==
  ASSUME IInv, NEW p \in Live \cup {NIL}, NEW t \in ElementType, NEW k \in NamesFor(t),
         NEW valid, AddElement(p, t, k, valid)
  PROVE  Sound
<1>1. CASE Refuse("INVALID_PARAMETER")
  BY <1>1, RefuseLemma DEF Status
<1>2. CASE (p # NIL \/ root = NIL) /\ AddElementBody(p, t, k, valid)
  <2>1. k \in Names \cup {NIL} /\ (t = "KEY" => k \in Names)
    BY DEF NamesFor
  <2> QED BY <1>2, <2>1, AddElementBodyLemma
<1> QED BY <1>1, <1>2 DEF AddElement

LEMMA AddKeyLemma ==
  ASSUME IInv, NEW p \in Live, NEW k \in Names, NEW valid, AddKey(p, k, valid)
  PROVE  Sound
<1> DEFINE object == IF type[p] = "OBJECT" THEN p ELSE first_child[p]
<1>1. object \in Live \cup {NIL} /\ p # NIL
  <2>1. {parent[p], sibling[p], first_child[p], last_child[p]} \subseteq Live \cup {NIL}
    BY DEF IInv, TreeShape, TreeOK, LinksLive
  <2> QED BY <2>1, LiveNodes DEF IInv, TreeShape
<1>2. CASE Refuse("INVALID_PARAMETER") \/ Refuse("UNEXPECTED_ELEMENT")
  BY <1>2, RefuseLemma DEF Status
<1>3. CASE object # NIL /\ InsertKeyAndReturn(object, LastChild(object), k)
  <2>1. object \in Live
    BY <1>1, <1>3
  <2> HIDE DEF object
  <2>2. Place(object, LastChild(object))
    BY <2>1, PlaceBehind
  <2> QED BY <1>3, <2>1, <2>2, InsertKeyAndReturnLemma
<1>4. CASE /\ InsertNode(p, NIL, "OBJECT", NIL)
           /\ pc' = "add_key"
           /\ call' = [NoCall EXCEPT !.op = "add_key", !.node = NextNode, !.name = k]
           /\ status' = "NO_ERROR"
           /\ UNCHANGED <<tableVars, target, cur>>
  <2>1. Place(p, NIL) /\ "OBJECT" \in ElementType
    BY PlaceBehind DEF ElementType, ValueType
  <2>2. /\ TreeShape' /\ NodesOK' /\ [PoolNext]_poolVars
        /\ NextNode \in Node \ Live /\ Live' = Live \cup {NextNode}
    BY <1>4, <2>1, InsertLemma DEF IInv
  <2>3. TableStep
    BY <1>4 DEF TableStep
  <2>4. /\ call' \in Call /\ call'.node = NextNode /\ call'.name = k
        /\ call'.type = "UNKNOWN" /\ call'.op = "add_key"
    BY <1>4, <2>2 DEF NoCall, Call, Link
  <2>5. CallTypes' /\ DeletionOK' /\ FinishOK' /\ UpdateHasRoom'
    BY <1>4, <2>2, <2>4
    DEF IInv, CallTypes, DeletionOK, FinishOK, UpdateHasRoom, Point, Status
  <2> QED BY <2>2, <2>3, <2>5, TableStepLemma DEF IInv, Sound
<1>5. CASE Abort
  BY <1>5, AbortLemma
<1> QED BY <1>2, <1>3, <1>4, <1>5 DEF AddKey

LEMMA AddKeyFinishLemma ==
  ASSUME IInv, AddKeyFinish
  PROVE  Sound
<1>1. call.node \in Live /\ call.name \in Names
  BY DEF AddKeyFinish, IInv, FinishOK
<1>2. Place(call.node, NIL)
  BY <1>1, PlaceBehind
<1> QED BY <1>1, <1>2, InsertKeyAndReturnLemma DEF AddKeyFinish

LEMMA AddKeyBesideLemma ==
  ASSUME IInv, NEW n \in Live, NEW k \in Names, AddKeyBefore(n, k) \/ AddKeyAfter(n, k)
  PROVE  Sound
<1>1. CASE Refuse("INVALID_PARAMETER")
  BY <1>1, RefuseLemma DEF Status
<1>2. CASE Abort
  BY <1>2, AbortLemma
<1>3. ASSUME KeyInObject(n)
      PROVE  parent[n] \in Live /\ Place(parent[n], LeftSibling(n)) /\ Place(parent[n], n)
  BY <1>3, LeftSiblingLemma DEF KeyInObject, IInv, TreeShape, Place
<1>4. CASE KeyInObject(n) /\ InsertKeyAndReturn(parent[n], LeftSibling(n), k)
  BY <1>3, <1>4, InsertKeyAndReturnLemma
<1>5. CASE KeyInObject(n) /\ InsertKeyAndReturn(parent[n], n, k)
  BY <1>3, <1>5, InsertKeyAndReturnLemma
<1> QED BY <1>1, <1>2, <1>4, <1>5 DEF AddKeyBefore, AddKeyAfter

LEMMA AppendArrayValueLemma ==
  ASSUME IInv, NEW a \in Live, NEW t \in ElementType, NEW k \in NamesFor(t),
         AppendArrayValue(a, t, k)
  PROVE  Sound
<1>1. CASE Refuse("INVALID_PARAMETER")
  BY <1>1, RefuseLemma DEF Status
<1>2. CASE InsertAndReturn(a, LastChild(a), t, k)
  BY <1>2, NamesForLemma, PlaceBehind, InsertAndReturnLemma
<1> QED BY <1>1, <1>2 DEF AppendArrayValue

LEMMA AddArrayValueLemma ==
  ASSUME IInv, NEW a \in Live, NEW i, NEW t \in ElementType, NEW k \in NamesFor(t),
         AddArrayValue(a, i, t, k)
  PROVE  Sound
<1>1. k \in Names \cup {NIL} /\ (t = "KEY" => k \in Names)
  BY NamesForLemma
<1>2. CASE Refuse("INVALID_PARAMETER")
  BY <1>2, RefuseLemma DEF Status
<1>3. CASE InsertAndReturn(a, LastChild(a), t, k)
  BY <1>1, <1>3, PlaceBehind, InsertAndReturnLemma
<1>4. ASSUME NEW anchor \in Live, parent[anchor] = a, InsertAndReturn(a, anchor, t, k)
      PROVE  Sound
  <2>1. Place(a, anchor)
    BY <1>4, LiveNodes DEF Place, IInv, TreeShape
  <2> QED BY <1>1, <1>4, <2>1, InsertAndReturnLemma
<1> QED BY <1>2, <1>3, <1>4 DEF AddArrayValue

LEMMA DeleteElementLemma ==
  ASSUME IInv, NEW n \in Live, DeleteElement(n)
  PROVE  Sound
<1> DEFINE then == [NoCall EXCEPT !.op = "delete_element"]
<1>1. then \in Call /\ then.op = "delete_element" /\ then.type = "UNKNOWN"
  BY DEF NoCall, Call, Link
<1>2. StartDelete(n, then) /\ status' \in Status
  BY DEF DeleteElement, Status
<1> HIDE DEF then
<1> QED BY <1>1, <1>2, StartDeleteLemma

(* The first child of an element is one, and is what an update deletes.     *)
LEMMA FirstChildLemma ==
  ASSUME IInv, NEW n \in Live, first_child[n] # NIL
  PROVE  first_child[n] \in Live /\ parent[first_child[n]] = n /\ n # NIL
<1>1. {parent[n], sibling[n], first_child[n], last_child[n]} \subseteq Live \cup {NIL}
  BY DEF IInv, TreeShape, TreeOK, LinksLive
<1> QED BY <1>1, LiveNodes DEF IInv, TreeShape, TreeOK, EndsOK

LEMMA UpdateKeyValueLemma ==
  ASSUME IInv, NEW n \in Live, NEW t \in ElementType, NEW k \in NamesFor(t),
         NEW valid \in BOOLEAN, UpdateKeyValue(n, t, k, valid)
  PROVE  Sound
<1>1. k \in Names \cup {NIL} /\ (t = "KEY" => k \in Names) /\ n # NIL /\ n \in Link
  BY LiveNodes DEF NamesFor, IInv, TreeShape, Link
<1>2. CASE AddElementBody(n, t, k, valid)
  BY <1>1, <1>2, AddElementBodyLemma
<1>3. CASE /\ first_child[n] # NIL
           /\ StartDelete(first_child[n],
                          [op |-> "update_key_value", node |-> n, type |-> t,
                           name |-> k, valid |-> valid])
           /\ UNCHANGED status
  <2> DEFINE then == [op |-> "update_key_value", node |-> n, type |-> t,
                      name |-> k, valid |-> valid]
  <2>1. /\ then \in Call /\ then.op = "update_key_value" /\ then.node = n
        /\ then.type = t /\ then.name = k
    BY <1>1 DEF Call
  <2>2. status' \in Status
    BY <1>3 DEF IInv, CallTypes
  <2>3. StartDelete(first_child[n], then)
    BY <1>3
  <2> HIDE DEF then
  <2> QED BY <1>1, <1>3, <2>1, <2>2, <2>3, FirstChildLemma, StartDeleteLemma
<1> QED BY <1>2, <1>3 DEF UpdateKeyValue

LEMMA UpdateKeyValueFinishLemma ==
  ASSUME IInv, UpdateKeyValueFinish
  PROVE  Sound
<1>1. call.node \in Live /\ call \in Call /\ (call.type = "KEY" => call.name \in Names)
  BY DEF UpdateKeyValueFinish, IInv, FinishOK, CallTypes
<1>2. /\ call.type \in ElementType \cup {"UNKNOWN"} /\ call.name \in Names \cup {NIL}
      /\ call.node # NIL
  BY <1>1, LiveNodes DEF Call, IInv, TreeShape
<1> QED BY <1>1, <1>2, AddElementBodyLemma DEF UpdateKeyValueFinish

LEMMA RetypeLemma ==
  ASSUME IInv, NEW n \in Live, NEW t \in ElementType \cup {"UNKNOWN"},
         NEW k \in Names \cup {NIL}, t = "KEY" => k \in Names, Retype(n, t, k)
  PROVE  Sound
<1>1. /\ UNCHANGED <<parent, sibling, first_child, last_child, root>>
      /\ UNCHANGED poolVars /\ UNCHANGED <<next_free, freed, node_count>>
      /\ UNCHANGED tableVars /\ Return("NO_ERROR")
      /\ type' = [type EXCEPT ![n] = t] /\ key' = [key EXCEPT ![n] = k]
  BY DEF Retype, poolVars
<1>2. Live' = Live
  BY <1>1 DEF Live
<1>3. PoolInv'
  BY <1>1, <1>2 DEF IInv, TreeShape, PoolInv, PoolTypeOK, FreeListOK
<1>4. LinkTypes'
  BY <1>1 DEF IInv, TreeShape, LinkTypes, Link
<1>5. TreeOK'
  BY <1>1, <1>2 DEF IInv, TreeShape, TreeOK, LinksLive, EndsOK, SiblingsOK, Acyclic, OneRoot
<1>6. NodesOK'
  BY <1>1, <1>2, LiveNodes DEF IInv, TreeShape, NodesOK, Link
<1>7. TableStep /\ "NO_ERROR" \in Status
  BY <1>1 DEF TableStep, Status
<1> QED BY <1>1, <1>3, <1>4, <1>5, <1>6, <1>7, ReturnLemma, TableStepLemma
        DEF IInv, TreeShape, Sound

LEMMA UpdateArrayValueLemma ==
  ASSUME IInv, NEW a \in Live, NEW i, NEW t \in ElementType, NEW k \in NamesFor(t),
         UpdateArrayValue(a, i, t, k)
  PROVE  Sound
<1>1. k \in Names \cup {NIL} /\ (t = "KEY" => k \in Names)
  BY NamesForLemma
<1>2. CASE Refuse("INVALID_PARAMETER")
  BY <1>2, RefuseLemma DEF Status
<1>3. CASE Abort
  BY <1>3, AbortLemma
<1>4. ASSUME NEW n \in Live, UpdateElement(n, t, k)
      PROVE  Sound
  <2>1. CASE Retype(n, t, k)
    BY <1>1, <2>1, RetypeLemma
  <2>2. CASE /\ first_child[n] # NIL
             /\ StartDelete(first_child[n],
                            [op |-> "update_array_value", node |-> n, type |-> t,
                             name |-> k, valid |-> TRUE])
             /\ status' = "NO_ERROR"
    <3> DEFINE then == [op |-> "update_array_value", node |-> n, type |-> t,
                              name |-> k, valid |-> TRUE]
    <3>1. n \in Link
      BY LiveNodes DEF IInv, TreeShape, Link
    <3>2. /\ then \in Call /\ then.op = "update_array_value" /\ then.node = n
          /\ then.type = t /\ then.name = k
      BY <1>1, <3>1 DEF Call
    <3>3. status' \in Status
      BY <2>2 DEF Status
    <3>4. StartDelete(first_child[n], then)
      BY <2>2
    <3> HIDE DEF then
    <3> QED BY <1>1, <2>2, <3>2, <3>3, <3>4, FirstChildLemma, StartDeleteLemma
  <2> QED BY <1>4, <2>1, <2>2 DEF UpdateElement
<1> QED BY <1>2, <1>3, <1>4 DEF UpdateArrayValue

LEMMA UpdateArrayValueFinishLemma ==
  ASSUME IInv, UpdateArrayValueFinish
  PROVE  Sound
<1>1. call.node \in Live /\ call \in Call /\ (call.type = "KEY" => call.name \in Names)
  BY DEF UpdateArrayValueFinish, IInv, FinishOK, CallTypes
<1>2. call.type \in ElementType \cup {"UNKNOWN"} /\ call.name \in Names \cup {NIL}
  BY <1>1 DEF Call
<1> QED BY <1>1, <1>2, RetypeLemma DEF UpdateArrayValueFinish

LEMMA ResetTreeAndTable ==
  ASSUME IInv, Reset
  PROVE  Sound
<1>1. TreeShape' /\ [PoolNext]_poolVars /\ TableStep /\ Live' = {}
  BY ResetTreeLemma DEF Reset, ResetTree, TreeShape, PoolNext, TableStep, Table!HashNext
<1>2. NodesOK'
  BY <1>1 DEF Reset, ResetTree, NodesOK, Link
<1>3. "NO_ERROR" \in Status /\ Return("NO_ERROR")
  BY DEF Reset, Status
<1> QED BY <1>1, <1>2, <1>3, ReturnLemma, TableStepLemma DEF IInv, Sound

----------------------------------------------------------------------------
(* The invariant, and what follows from it.                                 *)

LEMMA InitSound == Init => IInv
<1> SUFFICES ASSUME Init PROVE IInv
  OBVIOUS
<1>1. PoolInv /\ Live = {}
  BY InitLemma DEF Init
<1>2. LinkTypes /\ NodesOK
  BY <1>1 DEF Init, LinkTypes, NodesOK, Link
<1>3. TreeOK
  BY <1>1 DEF TreeOK, LinksLive, EndsOK, SiblingsOK, Acyclic, OneRoot
<1>4. TableOK
  BY TableInitLemma DEF Init
<1>5. NoCall \in Call /\ NoCall.type = "UNKNOWN"
  BY DEF NoCall, Call, Link
<1>6. CallTypes /\ DeletionOK /\ FinishOK /\ UpdateHasRoom
  BY <1>5 DEF Init, CallTypes, DeletionOK, FinishOK, UpdateHasRoom, Point, Link, Status
<1> QED BY <1>1, <1>2, <1>3, <1>4, <1>6 DEF IInv, TreeShape

LEMMA StutterSound ==
  ASSUME IInv, UNCHANGED vars
  PROVE  Sound
<1>1. /\ UNCHANGED treeVars /\ UNCHANGED tableVars
      /\ UNCHANGED <<status, pc, target, cur, call>>
  BY DEF vars, callVars
<1>2. TreeShape' /\ NodesOK' /\ Live' = Live /\ (Full' <=> Full) /\ UNCHANGED poolVars
  BY <1>1, TreeUnchanged DEF IInv
<1>3. TableStep
  BY <1>1 DEF TableStep
<1>4. CallTypes' /\ FinishOK' /\ UpdateHasRoom'
  BY <1>1, <1>2 DEF IInv, CallTypes, FinishOK, UpdateHasRoom, Link
<1>5. UNCHANGED <<parent, first_child>>
  BY <1>1 DEF treeVars, nodeVars
<1>6. DeletionOK'
  BY <1>1, <1>2, <1>5 DEF IInv, DeletionOK, BelowTarget
<1> QED BY <1>2, <1>3, <1>4, <1>6, TableStepLemma DEF IInv, Sound

(* No step of any call breaks the invariant or a protocol.                  *)
LEMMA StepSound == IInv /\ [Next]_vars => Sound
<1> SUFFICES ASSUME IInv, [Next]_vars PROVE Sound
  OBVIOUS
<1>1. ASSUME NEW p \in Live \cup {NIL}, NEW t \in ElementType, NEW k \in NamesFor(t),
             NEW valid \in ChecksFor(t), AddElement(p, t, k, valid)
      PROVE  Sound
  BY <1>1, AddElementLemma
<1>2. ASSUME NEW p \in Live, NEW k \in Names, NEW valid \in BOOLEAN, AddKey(p, k, valid)
      PROVE  Sound
  BY <1>2, AddKeyLemma
<1>3. CASE AddKeyFinish
  BY <1>3, AddKeyFinishLemma
<1>4. ASSUME NEW n \in Live, NEW k \in Names, AddKeyBefore(n, k) \/ AddKeyAfter(n, k)
      PROVE  Sound
  BY <1>4, AddKeyBesideLemma
<1>5. ASSUME NEW a \in Live, NEW t \in ElementType, NEW k \in NamesFor(t),
             AppendArrayValue(a, t, k)
      PROVE  Sound
  BY <1>5, AppendArrayValueLemma
<1>6. ASSUME NEW a \in Live, NEW i \in Indices, NEW t \in ElementType, NEW k \in NamesFor(t),
             AddArrayValue(a, i, t, k) \/ UpdateArrayValue(a, i, t, k)
      PROVE  Sound
  BY <1>6, AddArrayValueLemma, UpdateArrayValueLemma
<1>7. ASSUME NEW n \in Live, DeleteElement(n)
      PROVE  Sound
  BY <1>7, DeleteElementLemma
<1>8. ASSUME NEW n \in Live, NEW t \in ElementType, NEW k \in NamesFor(t),
             NEW valid \in ChecksFor(t), UpdateKeyValue(n, t, k, valid)
      PROVE  Sound
  <2>1. valid \in BOOLEAN
    BY DEF ChecksFor
  <2> QED BY <1>8, <2>1, UpdateKeyValueLemma
<1>9. CASE DeleteStep
  BY <1>9, GoDownLemma, RestartLemma, RemoveLeafLemma, RemoveTargetLemma, AbortLemma
  DEF DeleteStep, RemoveRootKey
<1>10. CASE UpdateKeyValueFinish
  BY <1>10, UpdateKeyValueFinishLemma
<1>11. CASE UpdateArrayValueFinish
  BY <1>11, UpdateArrayValueFinishLemma
<1>12. CASE Reset
  BY <1>12, ResetTreeAndTable
<1>13. CASE UNCHANGED vars
  BY <1>13, StutterSound
<1> QED BY <1>1, <1>2, <1>3, <1>4, <1>5, <1>6, <1>7, <1>8, <1>9, <1>10, <1>11, <1>12, <1>13 DEF Next

THEOREM TreeInvariant == Spec => []IInv
<1>1. IInv /\ [Next]_vars => IInv'
  BY StepSound DEF Sound
<1> QED BY <1>1, InitSound, PTL DEF Spec

(* All links, names and indices stay in range, and the table is one.        *)
THEOREM TreeTypes == Spec => []TypeOK
<1>1. IInv => TypeOK
  BY TableTypesLemma
  DEF IInv, TreeShape, PoolInv, LinkTypes, NodesOK, CallTypes, TypeOK, Link
<1> QED BY <1>1, TreeInvariant, PTL

(***************************************************************************)
(* Whatever a client inserts, updates and deletes, keeping to the rules or  *)
(* not, the elements in use form one ordered tree, in the middle of a       *)
(* deletion, too: no link leads to a returned node, no chain of siblings    *)
(* runs in a circle, no element is lost or has two places.                  *)
(***************************************************************************)
THEOREM TreeStaysOne == Spec => []TreeOK
<1>1. IInv => TreeOK
  BY DEF IInv, TreeShape
<1> QED BY <1>1, TreeInvariant, PTL

(* The old value of a key has made room for the new one.                    *)
THEOREM UpdateFindsRoom == Spec => []UpdateHasRoom
<1>1. IInv => UpdateHasRoom
  BY DEF IInv
<1> QED BY <1>1, TreeInvariant, PTL

(***************************************************************************)
(* The tree is a client the allocator can rely on: it returns only nodes    *)
(* that are in use, on every path through a deletion or an update.          *)
(***************************************************************************)
THEOREM TreeKeepsPoolProtocol == Spec => KeepsPoolProtocol
<1>1. Init => PoolInit
  BY DEF Init
<1>2. IInv /\ [Next]_vars => [PoolNext]_poolVars
  BY StepSound DEF Sound
<1> QED BY <1>1, <1>2, TreeInvariant, PTL DEF Spec, PoolSpec, KeepsPoolProtocol

(* The free list holds no node of the tree, and a pool that is not full     *)
(* hands out a node that is in no use.                                      *)
THEOREM TreePoolOK == Spec => []PoolOK
BY TreeKeepsPoolProtocol, PoolSafety, PTL DEF KeepsPoolProtocol

(***************************************************************************)
(* The tree is the client the key table is specified with: a key is added   *)
(* only where its name is not found, under the number of an element.  So    *)
(* all that is proved of the table holds of the tree's table.               *)
(***************************************************************************)
THEOREM TreeKeepsTableProtocol == Spec => Table!HashSpec
<1>1. Init => Table!HashInit
  BY DEF Init
<1>2. IInv /\ [Next]_vars => [Table!HashNext]_tableVars
  BY StepSound DEF Sound, TableStep
<1>3. tableVars = Table!tableVars
  BY DEF tableVars, Table!tableVars
<1>4. [Table!HashNext]_tableVars => [Table!HashNext]_(Table!tableVars)
  BY DEF tableVars, Table!tableVars
<1> QED BY <1>1, <1>2, <1>4, TreeInvariant, PTL DEF Spec, Table!HashSpec

----------------------------------------------------------------------------
(* What an insertion and a removal do to the elements.                      *)

LEMMA InsertFacts ==
  ASSUME TreeShape, NodesOK, NEW p, NEW a, Place(p, a), NEW t, NEW k, InsertNode(p, a, t, k)
  PROVE  /\ NextNode \notin Live /\ NextNode \in Node /\ Live' = Live \cup {NextNode}
         /\ type'[NextNode] = t /\ key'[NextNode] = k /\ parent'[NextNode] = p
         /\ first_child'[NextNode] = NIL /\ last_child'[NextNode] = NIL
         /\ root' = IF p = NIL THEN NextNode ELSE root
         /\ \A m \in Live : type'[m] = type[m] /\ key'[m] = key[m] /\ parent'[m] = parent[m]
         /\ \A m \in Live : m # p => /\ first_child'[m] = first_child[m]
                                     /\ last_child'[m] = last_child[m]
         /\ p # NIL /\ first_child[p] = NIL => /\ first_child'[p] = NextNode
                                               /\ last_child'[p] = NextNode
<1> DEFINE n == NextNode
<1>1. /\ PoolInv /\ LinkTypes /\ TreeOK /\ NIL \notin Live /\ Live \subseteq Node
      /\ type \in [Node -> ElementType \cup {"UNKNOWN"}]
      /\ key \in [Node -> Names \cup {NIL}]
  BY LiveNodes DEF TreeShape, NodesOK
<1>2. n \notin Live /\ n \in Node /\ Live' = Live \cup {n}
  BY <1>1, InsertNodeLemma DEF Place
<1> HIDE DEF n
<1>3. /\ type' = [type EXCEPT ![n] = t] /\ key' = [key EXCEPT ![n] = k]
      /\ parent' = [parent EXCEPT ![n] = p]
  BY DEF InsertNode, InsertRoot, Prepend, InsertAfter, NewNode, n
<1>4. /\ type'[n] = t /\ key'[n] = k /\ parent'[n] = p
      /\ \A m \in Live : type'[m] = type[m] /\ key'[m] = key[m] /\ parent'[m] = parent[m]
  BY <1>1, <1>2, <1>3 DEF LinkTypes
<1>5. CASE p = NIL /\ InsertRoot(t, k)
  BY <1>1, <1>2, <1>4, <1>5 DEF InsertRoot, LinkTypes, n
<1>6. CASE p # NIL /\ a = NIL /\ Prepend(p, t, k)
  BY <1>1, <1>2, <1>4, <1>6 DEF Prepend, LinkTypes, Place, n
<1>7. CASE p # NIL /\ a # NIL /\ InsertAfter(p, a, t, k)
  <2>1. p \in Live /\ first_child[p] # NIL
    BY <1>1, <1>7, ChildlessLemma DEF Place
  <2> QED BY <1>1, <1>2, <1>4, <1>7, <2>1 DEF InsertAfter, LinkTypes, n
<1> QED BY <1>5, <1>6, <1>7 DEF InsertNode

(* A removal takes a node without children off, and nothing else changes    *)
(* but the ends of its parent's list.                                       *)
Removes(n) ==
  /\ n \in Live /\ Live' = Live \ {n}
  /\ root' = root
  /\ Unregister(n, parent[n]) /\ (Hashed /\ type[n] = "KEY" => parent[n] \in Live)
  /\ \A m \in Live : parent[m] # n
  /\ \A m \in Live \ {n} :
       /\ type'[m] = type[m] /\ key'[m] = key[m] /\ parent'[m] = parent[m]
       /\ m # parent[n] => first_child'[m] = first_child[m] /\ last_child'[m] = last_child[m]
       /\ first_child[m] = last_child[m] => first_child'[m] = last_child'[m]
       /\ first_child[m] = NIL => first_child'[m] = NIL

LEMMA RemoveLeafFacts ==
  ASSUME IInv, RemoveLeaf
  PROVE  /\ Removes(cur) /\ cur # target /\ target \in Live /\ parent[cur] \in Live
         /\ parent[cur] # parent[target] /\ cur # parent[target]
         /\ sibling'[target] = sibling[target]
         /\ pc = "leaf" /\ pc' = "search" /\ target' = target /\ call' = call
<1>1. /\ pc = "leaf" /\ first_child[cur] = NIL
      /\ UnlinkFirst(cur, parent[cur]) /\ Unregister(cur, parent[cur]) /\ Forget(cur)
      /\ pc' = "search" /\ root' = root /\ target' = target /\ call' = call
  BY DEF RemoveLeaf, UnlinkFirst
<1>2. PICK P \in SUBSET Live : /\ cur \in P /\ parent[target] \notin P
                               /\ \A x \in P : x = target \/ parent[x] \in P
  BY <1>1 DEF IInv, DeletionOK, BelowTarget
<1>3. /\ cur \in Live /\ target \in Live /\ cur # target /\ parent[cur] \in P
      /\ first_child[parent[cur]] = cur
      /\ PoolInv /\ LinkTypes /\ TreeOK
  BY <1>1, <1>2 DEF IInv, DeletionOK, TreeShape
<1>4. Live' = Live \ {cur} /\ Live \subseteq Node
  BY <1>1, <1>2, <1>3, UnlinkFirstLemma, LiveNodes
<1>5. \A m \in Live : parent[m] # cur
  BY <1>1, <1>3, ChildlessLemma
<1>6. last_child[parent[cur]] = cur => sibling[cur] = NIL
  BY <1>2, <1>3, LiveNodes DEF TreeOK, SiblingsOK
<1>7. \A m \in Live \ {cur} :
        /\ type'[m] = type[m] /\ key'[m] = key[m] /\ parent'[m] = parent[m]
        /\ sibling'[m] = sibling[m]
        /\ m # parent[cur] => first_child'[m] = first_child[m] /\ last_child'[m] = last_child[m]
  BY <1>1, <1>2, <1>3, <1>4 DEF UnlinkFirst, Forget, LinkTypes, IInv, NodesOK
<1>8. /\ first_child'[parent[cur]] = sibling[cur]
      /\ last_child[parent[cur]] = cur => last_child'[parent[cur]] = NIL
  BY <1>1, <1>2, <1>3, <1>4 DEF UnlinkFirst, LinkTypes
<1>9. cur # NIL
  BY <1>3, LiveNodes
<1>10. Removes(cur)
  BY <1>1, <1>2, <1>3, <1>4, <1>5, <1>6, <1>7, <1>8, <1>9 DEF Removes
<1> QED BY <1>1, <1>2, <1>3, <1>5, <1>7, <1>10

LEMMA RemoveTargetFacts ==
  ASSUME IInv, RemoveTarget
  PROVE  /\ Removes(target)
         /\ parent[target] # target
         /\ pc = "search" /\ pc' = AfterDelete
         /\ call' = IF AfterDelete = "idle" THEN NoCall ELSE call
         /\ parent[target] # NIL /\ first_child[parent[target]] = target =>
              first_child'[parent[target]] = sibling[target]
<1> DEFINE n == target
           p == parent[target]
<1>1. /\ pc = "search" /\ first_child[n] = NIL
      /\ \/ p = NIL /\ UNCHANGED <<sibling, first_child, last_child>>
         \/ p # NIL /\ LeftSibling(n) = NIL /\ UnlinkFirst(n, p)
         \/ p # NIL /\ LeftSibling(n) # NIL /\ UnlinkBehind(LeftSibling(n), n, p)
      /\ Unregister(n, p) /\ Forget(n) /\ root' = root
      /\ pc' = AfterDelete
      /\ call' = IF AfterDelete = "idle" THEN NoCall ELSE call
  BY DEF RemoveTarget
<1>2. n \in Live /\ p \in Live \cup {NIL} /\ NIL \notin Live /\ p # n /\ Live \subseteq Node
  <2>1. n \in Live
    BY <1>1 DEF IInv, DeletionOK
  <2>2. {parent[n], sibling[n], first_child[n], last_child[n]} \subseteq Live \cup {NIL}
    BY <2>1 DEF IInv, TreeShape, TreeOK, LinksLive
  <2>3. parent[n] # n
    BY <1>1, <2>1, ChildlessLemma DEF IInv, TreeShape
  <2> QED BY <2>1, <2>2, <2>3, LiveNodes DEF IInv, TreeShape
<1> HIDE DEF n
<1>3. /\ PoolInv /\ LinkTypes /\ TreeOK
      /\ type \in [Node -> ElementType \cup {"UNKNOWN"}]
      /\ key \in [Node -> Names \cup {NIL}]
  BY DEF IInv, TreeShape, NodesOK
<1>4. Live' = Live \ {n}
  BY <1>1, <1>2, <1>3, FreeLemma DEF Forget
<1>5. \A m \in Live : parent[m] # n
  BY <1>1, <1>2, <1>3, ChildlessLemma
<1>6. \A m \in Live \ {n} :
        type'[m] = type[m] /\ key'[m] = key[m] /\ parent'[m] = parent[m]
  BY <1>1, <1>2, <1>3 DEF Forget, LinkTypes
<1>7. ASSUME p # NIL
      PROVE  /\ p \in Live
             /\ LeftSibling(n) = NIL <=> first_child[p] = n
             /\ first_child[p] # NIL
             /\ last_child[p] = n <=> sibling[n] = NIL
  <2>1. p \in Live /\ p = parent[n]
    BY <1>2, <1>7 DEF n
  <2> HIDE DEF p
  <2> QED BY <1>2, <1>3, <1>7, <2>1, LeftSiblingLemma, ChildlessLemma DEF TreeOK, SiblingsOK
<1>8. \A m \in Live \ {n} :
        /\ m # p => first_child'[m] = first_child[m] /\ last_child'[m] = last_child[m]
        /\ first_child[m] = last_child[m] => first_child'[m] = last_child'[m]
        /\ first_child[m] = NIL => first_child'[m] = NIL
  <2>1. CASE p = NIL
    BY <1>1, <2>1
  <2>2. CASE p # NIL /\ LeftSibling(n) = NIL
    <3>1. UnlinkFirst(n, p)
      BY <1>1, <2>2
    <3> HIDE DEF p
    <3> QED BY <1>2, <1>3, <1>7, <2>2, <3>1 DEF UnlinkFirst, LinkTypes
  <2>3. CASE p # NIL /\ LeftSibling(n) # NIL
    <3>1. UnlinkBehind(LeftSibling(n), n, p)
      BY <1>1, <2>3
    <3> HIDE DEF p
    <3> QED BY <1>2, <1>3, <1>7, <2>3, <3>1 DEF UnlinkBehind, LinkTypes
  <2> QED BY <2>1, <2>2, <2>3
<1>9. p # NIL /\ first_child[p] = n => first_child'[p] = sibling[n]
  <2> SUFFICES ASSUME p # NIL, first_child[p] = n PROVE first_child'[p] = sibling[n]
    OBVIOUS
  <2>1. UnlinkFirst(n, p) /\ p \in Node
    BY <1>1, <1>2, <1>7
  <2> HIDE DEF p
  <2> QED BY <1>3, <2>1 DEF UnlinkFirst, LinkTypes
<1>10. Removes(n)
  <2>1. Hashed /\ type[n] = "KEY" => p \in Live
    BY <1>2 DEF RemoveTarget, n
  <2> QED BY <1>1, <1>2, <1>4, <1>5, <1>6, <1>8, <2>1 DEF Removes, n
<1> QED BY <1>1, <1>2, <1>9, <1>10 DEF n

----------------------------------------------------------------------------
(* The key table as a set of entries.                                       *)

Entries == {slots[s] : s \in {x \in Table!Slot : Table!Occupied(x)}}

LEMMA EntriesLemma ==
  ASSUME TableOK, Hashed
  PROVE  /\ \A e, f \in Entries : e.hash = f.hash => e = f
         /\ \A e \in Entries : e \in Table!Entry
<1>1. TP!TableInv
  BY DEF TableOK
<1>2. \A s, t \in Table!Slot :
        Table!Occupied(s) /\ Table!Occupied(t) /\ slots[s].hash = slots[t].hash => s = t
  BY <1>1 DEF TP!TableInv, TP!HashOK, TP!EntriesUnique, TP!Occupied, Table!Occupied,
              TP!Slot, Table!Slot
<1>3. \A s \in Table!Slot : Table!Occupied(s) => slots[s] \in Table!Entry
  BY <1>1 DEF TP!TableInv, TP!SlotsTypeOK, TP!Slot, TP!Entry, Table!Slot, Table!Entry,
              Table!Occupied
<1> QED BY <1>2, <1>3 DEF Entries

LEMMA AddEntry ==
  ASSUME TableOK, Hashed, NEW h \in Node \X Names, NEW n \in Node,
         Table!HashFind(h) = NIL, Table!HashAdd(h, n)
  PROVE  /\ Entries' \in {Entries, Entries \cup {[hash |-> h, key_element |-> n]}}
         /\ Table!AddStatus(h) = "NO_ERROR" => [hash |-> h, key_element |-> n] \in Entries'
<1>1. TP!TableInv /\ TP!HashFind(h) = NIL /\ TP!HashAdd(h, n)
  BY SameFind, SameAdd DEF TableOK
<1> DEFINE e == [hash |-> h, key_element |-> n]
<1>2. \/ UNCHANGED TP!tableVars
      \/ /\ TP!TableInv'
         /\ entry_count < HashCapacity
         /\ \E s \in TP!Slot : ~TP!Occupied(s) /\ slots' = [slots EXCEPT ![s] = e]
  BY <1>1, TP!AddLemma, TableAssumptions
<1>3. e \in Table!Entry /\ e \notin {EMPTY, TOMBSTONE}
  BY TableAssumption DEF Table!Entry
<1>4. /\ slots \in [TP!Slot -> TP!Entry \cup {EMPTY, TOMBSTONE}] /\ entry_count \in Nat
      /\ TP!Slot = Table!Slot
  BY <1>1 DEF TP!TableInv, TP!SlotsTypeOK, TP!Slot, Table!Slot
<1>5. Entries' = {slots'[s] : s \in {x \in Table!Slot : slots'[x] \notin {EMPTY, TOMBSTONE}}}
  BY DEF Entries, Table!Occupied
<1>6. Entries = {slots[s] : s \in {x \in Table!Slot : slots[x] \notin {EMPTY, TOMBSTONE}}}
  BY DEF Entries, Table!Occupied
<1>7. CASE UNCHANGED TP!tableVars
  <2>1. slots' = slots /\ entry_count' = entry_count
    BY <1>7 DEF TP!tableVars
  <2>2. Table!AddStatus(h) # "NO_ERROR"
    BY <1>4, <2>1 DEF Table!HashAdd
  <2> QED BY <1>5, <1>6, <2>1, <2>2
<1>8. ASSUME NEW s \in TP!Slot, ~TP!Occupied(s), slots' = [slots EXCEPT ![s] = e]
      PROVE  Entries' = Entries \cup {e}
  <2> HIDE DEF e
  <2>1. slots[s] \in {EMPTY, TOMBSTONE} /\ s \in Table!Slot /\ slots'[s] = e
    BY <1>4, <1>8 DEF TP!Occupied
  <2>2. \A x \in Table!Slot \ {s} : slots'[x] = slots[x]
    BY <1>4, <1>8
  <2> HIDE <1>1, <1>2, <1>7
  <2>3. \A x \in Entries' : x \in Entries \cup {e}
    BY <1>5, <1>6, <2>1, <2>2
  <2>4. e \in Entries'
    BY <1>3, <1>5, <2>1
  <2>5. \A x \in Entries : x \in Entries'
    BY <1>5, <1>6, <2>1, <2>2
  <2> QED BY <2>3, <2>4, <2>5
<1> QED BY <1>2, <1>7, <1>8

LEMMA RemoveEntry ==
  ASSUME TableOK, Hashed, NEW h \in Node \X Names, Table!HashRemove(h)
  PROVE  Entries' = {e \in Entries : e.hash # h}
<1>1. TP!TableInv /\ TP!HashRemove(h)
  BY SameRemove DEF TableOK
<1>2. \/ UNCHANGED TP!tableVars /\ TP!FoundAt(h) = {}
      \/ \E s \in TP!Slot : TP!Holds(s, h) /\ slots' = [slots EXCEPT ![s] = TOMBSTONE]
  BY <1>1, TP!RemoveLemma, TableAssumptions
<1>3. slots \in [TP!Slot -> TP!Entry \cup {EMPTY, TOMBSTONE}] /\ TP!Slot = Table!Slot
  BY <1>1 DEF TP!TableInv, TP!SlotsTypeOK, TP!Slot, Table!Slot
<1>4. Entries' = {slots'[s] : s \in {x \in Table!Slot : slots'[x] \notin {EMPTY, TOMBSTONE}}}
  BY DEF Entries, Table!Occupied
<1>5. Entries = {slots[s] : s \in {x \in Table!Slot : slots[x] \notin {EMPTY, TOMBSTONE}}}
  BY DEF Entries, Table!Occupied
<1>6. \A s \in Table!Slot : TP!Holds(s, h) <=> slots[s] \notin {EMPTY, TOMBSTONE} /\ slots[s].hash = h
  BY DEF TP!Holds, TP!Occupied
<1>7. CASE UNCHANGED TP!tableVars /\ TP!FoundAt(h) = {}
  <2>1. slots' = slots
    BY <1>7 DEF TP!tableVars
  <2>2. TP!FindsEntries
    BY <1>1, TP!FindLemma, TableAssumptions
  <2>3. \A s \in TP!Slot : ~TP!Holds(s, h)
    BY <1>7, <2>2 DEF TP!FindsEntries
  <2> QED BY <1>3, <1>4, <1>5, <1>6, <2>1, <2>3
<1>8. ASSUME NEW s \in TP!Slot, TP!Holds(s, h), slots' = [slots EXCEPT ![s] = TOMBSTONE]
      PROVE  Entries' = {e \in Entries : e.hash # h}
  <2>1. slots'[s] = TOMBSTONE /\ \A x \in Table!Slot \ {s} : slots'[x] = slots[x]
    BY <1>3, <1>8
  <2>2. \A x \in Table!Slot : TP!Holds(x, h) => x = s
    BY <1>1, <1>3, <1>8 DEF TP!TableInv, TP!HashOK, TP!EntriesUnique, TP!Holds
  <2>3. ASSUME NEW x \in Entries'
        PROVE  x \in Entries /\ x.hash # h
    BY <1>4, <1>5, <1>6, <2>1, <2>2
  <2>4. ASSUME NEW x \in Entries, x.hash # h
        PROVE  x \in Entries'
    <3>1. PICK y \in Table!Slot : slots[y] \notin {EMPTY, TOMBSTONE} /\ x = slots[y]
      BY <1>5
    <3>2. y # s
      BY <1>6, <1>8, <2>4, <3>1 DEF TP!Holds
    <3> QED BY <1>4, <2>1, <3>1, <3>2
  <2> QED BY <2>3, <2>4
<1> QED BY <1>2, <1>7, <1>8

LEMMA NoEntries ==
  ASSUME Table!HashInit \/ Table!HashReset
  PROVE  /\ Table!HashInit => Entries = {}
         /\ Table!HashReset => Entries' = {}
BY DEF Table!HashInit, Table!HashReset, Entries, Table!Occupied

----------------------------------------------------------------------------
(* What a step can be, whichever call it belongs to.                        *)

(* The object a key is added to in a second step is one, and the room for   *)
(* the key is still there.                                                  *)
AddKeyOK ==
  pc = "add_key" => type[call.node] = "OBJECT" /\ Keeps("table_room", TableRoom)

Idles == UNCHANGED treeVars /\ UNCHANGED tableVars

Ends == Idles /\ pc' \in {"idle", "aborted"}

Moves ==
  /\ Idles /\ target' = target /\ call' = call
  /\ pc' = pc \/ (pc \in {"search", "leaf"} /\ pc' \in {"search", "leaf"})

StartsUpdate(m) ==
  \/ /\ call'.op = "update_key_value"
     /\ Keeps("grammar", type[m] = "KEY" /\ call'.type # "KEY")
  \/ /\ call'.op = "update_array_value"
     /\ Keeps("shallow_update", first_child[m] = last_child[m])
     /\ parent[m] \in Live /\ type[parent[m]] = "ARRAY"
     /\ Keeps("grammar", call'.type # "KEY")

Starts ==
  /\ Idles /\ pc = "idle" /\ pc' = "search"
  /\ target' \in Live
  /\ \/ call'.op = "delete_element" /\ Keeps("keep_root", target' # root)
     \/ \E m \in Live : /\ target' = first_child[m] /\ parent[target'] = m
                        /\ call'.node = m /\ StartsUpdate(m)

(* Only keys have a name.                                                   *)
Labelled(t, k) == t \in ElementType /\ (t # "KEY" => k = NIL)

InsertsValue(p, a, t, k) ==
  /\ Place(p, a) /\ InsertNode(p, a, t, k) /\ UNCHANGED tableVars
  /\ \/ pc = "idle" /\ pc' = "idle" /\ Keeps("grammar", Fits(p, t)) /\ Labelled(t, k)
     \/ pc = "add" /\ pc' = "idle" /\ p = call.node /\ t = call.type /\ k = call.name
     \/ /\ pc = "idle" /\ pc' = "add_key"
        /\ call'.node = NextNode /\ Keeps("table_room", TableRoom)
        /\ t = "OBJECT" /\ k = NIL /\ Fits(p, t)

InsertsKey(o, a, k) ==
  /\ Place(o, a) /\ InsertNode(o, a, "KEY", k)
  /\ type[o] = "OBJECT" /\ FindKey(o, k) = NIL /\ Keeps("table_room", TableRoom)
  /\ IF Hashed THEN Table!HashAdd(<<o, k>>, NextNode) ELSE UNCHANGED tableVars
  /\ pc' = "idle"

Retypes(n, t, k) ==
  /\ Retype(n, t, k)
  /\ \/ /\ pc = "idle" /\ first_child[n] = NIL
        /\ parent[n] \in Live /\ type[parent[n]] = "ARRAY"
        /\ Keeps("grammar", t # "KEY") /\ Labelled(t, k)
     \/ pc = "retype" /\ n = call.node /\ t = call.type /\ k = call.name

StepKind ==
  \/ Ends \/ Moves \/ Starts
  \/ \E p, a, t, k : InsertsValue(p, a, t, k)
  \/ \E o \in Live, k \in Names : \E a : InsertsKey(o, a, k)
  \/ \E n \in Live : \E t, k : Retypes(n, t, k)
  \/ RemoveLeaf \/ RemoveTarget
  \/ ResetTree /\ pc' = "idle"

LEMMA EndsLemma ==
  ASSUME NEW s, Refuse(s) \/ Abort
  PROVE  StepKind
BY DEF Refuse, Abort, Return, StepKind, Ends, Idles

LEMMA InsertAndReturnKind ==
  ASSUME NEW p, NEW a, Place(p, a), NEW t, NEW k, InsertAndReturn(p, a, t, k),
         \/ pc = "idle" /\ Keeps("grammar", Fits(p, t)) /\ Labelled(t, k)
         \/ pc = "add" /\ p = call.node /\ t = call.type /\ k = call.name
  PROVE  StepKind
<1>1. CASE Refuse("OUT_OF_MEMORY")
  BY <1>1, EndsLemma
<1>2. CASE InsertNode(p, a, t, k) /\ Return("NO_ERROR") /\ UNCHANGED tableVars
  <2>1. InsertsValue(p, a, t, k)
    BY <1>2 DEF InsertsValue, Return
  <2> QED BY <2>1 DEF StepKind
<1> QED BY <1>1, <1>2 DEF InsertAndReturn

LEMMA InsertKeyAndReturnKind ==
  ASSUME NEW o \in Live, NEW a, Place(o, a), NEW k \in Names, InsertKeyAndReturn(o, a, k),
         type[o] = "OBJECT", Keeps("table_room", TableRoom)
  PROVE  StepKind
<1>1. CASE Refuse("DUPLICATE_KEY") \/ Refuse("OUT_OF_MEMORY")
  BY <1>1, EndsLemma
<1>2. CASE /\ FindKey(o, k) = NIL
           /\ InsertNode(o, a, "KEY", k)
           /\ IF Hashed
              THEN /\ Table!HashAdd(<<o, k>>, NextNode)
                   /\ Return(Table!AddStatus(<<o, k>>))
              ELSE UNCHANGED tableVars /\ Return("NO_ERROR")
  <2>1. pc' = "idle"
    BY <1>2 DEF Return
  <2>2. InsertsKey(o, a, k)
    BY <1>2, <2>1 DEF InsertsKey
  <2> QED BY <2>2 DEF StepKind
<1> QED BY <1>1, <1>2 DEF InsertKeyAndReturn

LEMMA AddElementBodyKind ==
  ASSUME IInv, NEW p \in Live \cup {NIL}, p = NIL => root = NIL, NEW t, NEW k, NEW valid,
         AddElementBody(p, t, k, valid),
         \/ pc = "idle" /\ Keeps("grammar", Fits(p, t)) /\ Labelled(t, k)
         \/ pc = "add" /\ p = call.node /\ t = call.type /\ k = call.name
  PROVE  StepKind
<1>1. CASE Refuse("INVALID_PARAMETER")
  BY <1>1, EndsLemma
<1>2. CASE InsertAndReturn(p, LastChild(p), t, k)
  <2>1. Place(p, LastChild(p))
    <3>1. CASE p = NIL
      BY <3>1 DEF Place
    <3>2. CASE p \in Live
      BY <3>2, PlaceBehind
    <3> QED BY <3>1, <3>2
  <2> QED BY <1>2, <2>1, InsertAndReturnKind
<1> QED BY <1>1, <1>2 DEF AddElementBody

LEMMA AddKeyKind ==
  ASSUME IInv, NEW p \in Live, NEW k \in Names, NEW valid, AddKey(p, k, valid)
  PROVE  StepKind
<1> DEFINE object == IF type[p] = "OBJECT" THEN p ELSE first_child[p]
<1>1. object \in Live \cup {NIL} /\ p # NIL
  <2>1. {parent[p], sibling[p], first_child[p], last_child[p]} \subseteq Live \cup {NIL}
    BY DEF IInv, TreeShape, TreeOK, LinksLive
  <2> QED BY <2>1, LiveNodes DEF IInv, TreeShape
<1>2. Keeps("table_room", TableRoom) /\ pc = "idle"
  BY DEF AddKey
<1>3. CASE Refuse("INVALID_PARAMETER") \/ Refuse("UNEXPECTED_ELEMENT") \/ Abort
  BY <1>3, EndsLemma
<1>4. CASE object # NIL /\ type[object] = "OBJECT" /\ InsertKeyAndReturn(object, LastChild(object), k)
  <2>1. object \in Live
    BY <1>1, <1>4
  <2> HIDE DEF object
  <2> QED BY <1>2, <1>4, <2>1, PlaceBehind, InsertKeyAndReturnKind
<1>5. CASE /\ type[p] \in {"OBJECT", "KEY"} /\ object = NIL
           /\ InsertNode(p, NIL, "OBJECT", NIL)
           /\ pc' = "add_key"
           /\ call' = [NoCall EXCEPT !.op = "add_key", !.node = NextNode, !.name = k]
           /\ UNCHANGED <<tableVars, target, cur>>
  <2>1. type[p] = "KEY" /\ first_child[p] = NIL
    BY <1>1, <1>5
  <2>2. Fits(p, "OBJECT") /\ Place(p, NIL)
    BY <2>1, PlaceBehind DEF Fits
  <2>3. call'.node = NextNode
    BY <1>5 DEF NoCall
  <2>4. InsertsValue(p, NIL, "OBJECT", NIL)
    BY <1>2, <1>5, <2>2, <2>3 DEF InsertsValue
  <2> QED BY <2>4 DEF StepKind
<1> QED BY <1>3, <1>4, <1>5 DEF AddKey

LEMMA AddKeyBesideKind ==
  ASSUME IInv, NEW n \in Live, NEW k \in Names, AddKeyBefore(n, k) \/ AddKeyAfter(n, k)
  PROVE  StepKind
<1>1. CASE Refuse("INVALID_PARAMETER") \/ Abort
  BY <1>1, EndsLemma
<1>2. Keeps("table_room", TableRoom)
  BY DEF AddKeyBefore, AddKeyAfter
<1>3. ASSUME KeyInObject(n)
      PROVE  /\ parent[n] \in Live /\ Place(parent[n], LeftSibling(n)) /\ Place(parent[n], n)
             /\ type[parent[n]] = "OBJECT"
  BY <1>3, LeftSiblingLemma DEF KeyInObject, IInv, TreeShape, Place
<1>4. CASE /\ KeyInObject(n)
           /\ \/ InsertKeyAndReturn(parent[n], LeftSibling(n), k)
              \/ InsertKeyAndReturn(parent[n], n, k)
  BY <1>2, <1>3, <1>4, InsertKeyAndReturnKind
<1> QED BY <1>1, <1>4 DEF AddKeyBefore, AddKeyAfter

LEMMA UpdateKeyValueKind ==
  ASSUME IInv, NEW n \in Live, NEW t, NEW k, Labelled(t, k), NEW valid,
         UpdateKeyValue(n, t, k, valid)
  PROVE  StepKind
<1>1. pc = "idle" /\ Keeps("grammar", type[n] = "KEY" /\ t # "KEY") /\ n # NIL
  BY LiveNodes DEF UpdateKeyValue, IInv, TreeShape
<1>2. CASE first_child[n] = NIL /\ AddElementBody(n, t, k, valid)
  <2>1. Keeps("grammar", Fits(n, t))
    BY <1>1, <1>2 DEF Keeps, Fits
  <2> QED BY <1>1, <1>2, <2>1, AddElementBodyKind
<1>3. CASE /\ first_child[n] # NIL
           /\ StartDelete(first_child[n],
                          [op |-> "update_key_value", node |-> n, type |-> t,
                           name |-> k, valid |-> valid])
  <2>1. /\ Idles /\ pc = "idle" /\ pc' = "search" /\ target' = first_child[n]
        /\ call'.op = "update_key_value" /\ call'.node = n /\ call'.type = t
    BY <1>1, <1>3 DEF StartDelete, Idles
  <2>2. target' \in Live /\ parent[target'] = n
    BY <1>3, <2>1, FirstChildLemma
  <2>3. StartsUpdate(n)
    BY <1>1, <2>1 DEF StartsUpdate, Keeps
  <2>4. Starts
    BY <2>1, <2>2, <2>3 DEF Starts
  <2> QED BY <2>4 DEF StepKind
<1> QED BY <1>2, <1>3 DEF UpdateKeyValue

LEMMA UpdateArrayValueKind ==
  ASSUME IInv, NEW a \in Live, NEW i, NEW t, NEW k, Labelled(t, k),
         UpdateArrayValue(a, i, t, k)
  PROVE  StepKind
<1>1. pc = "idle" /\ Keeps("grammar", t # "KEY")
  BY DEF UpdateArrayValue
<1>2. CASE Refuse("INVALID_PARAMETER") \/ Abort
  BY <1>2, EndsLemma
<1>3. ASSUME NEW n \in Live, parent[n] = a, type[a] = "ARRAY", UpdateElement(n, t, k)
      PROVE  StepKind
  <2>1. CASE first_child[n] = NIL /\ Retype(n, t, k)
    <3>1. Retypes(n, t, k)
      BY <1>1, <1>3, <2>1 DEF Retypes
    <3> QED BY <3>1 DEF StepKind
  <2>2. CASE /\ first_child[n] # NIL
             /\ StartDelete(first_child[n],
                            [op |-> "update_array_value", node |-> n, type |-> t,
                             name |-> k, valid |-> TRUE])
    <3>1. /\ Idles /\ pc = "idle" /\ pc' = "search" /\ target' = first_child[n]
          /\ call'.op = "update_array_value" /\ call'.node = n /\ call'.type = t
      BY <1>1, <2>2 DEF StartDelete, Idles
    <3>2. target' \in Live /\ parent[target'] = n
      BY <2>2, <3>1, FirstChildLemma
    <3>3. StartsUpdate(n)
      BY <1>1, <1>3, <3>1 DEF StartsUpdate, UpdateElement
    <3>4. Starts
      BY <3>1, <3>2, <3>3 DEF Starts
    <3> QED BY <3>4 DEF StepKind
  <2> QED BY <1>3, <2>1, <2>2 DEF UpdateElement
<1> QED BY <1>2, <1>3 DEF UpdateArrayValue

LEMMA StepKinds == IInv /\ AddKeyOK /\ [Next]_vars => StepKind
<1> SUFFICES ASSUME IInv, AddKeyOK, [Next]_vars PROVE StepKind
  OBVIOUS
<1>0. \A t \in ElementType : \A k \in NamesFor(t) : Labelled(t, k)
  BY DEF NamesFor, Labelled
<1>1. ASSUME NEW p \in Live \cup {NIL}, NEW t \in ElementType, NEW k \in NamesFor(t),
             NEW valid \in ChecksFor(t), AddElement(p, t, k, valid)
      PROVE  StepKind
  BY <1>0, <1>1, EndsLemma, AddElementBodyKind DEF AddElement
<1>2. ASSUME NEW p \in Live, NEW k \in Names, NEW valid \in BOOLEAN, AddKey(p, k, valid)
      PROVE  StepKind
  BY <1>2, AddKeyKind
<1>3. CASE AddKeyFinish
  <2>1. call.node \in Live /\ call.name \in Names /\ pc = "add_key"
    BY <1>3 DEF AddKeyFinish, IInv, FinishOK
  <2>2. type[call.node] = "OBJECT" /\ Keeps("table_room", TableRoom)
    BY <2>1 DEF AddKeyOK
  <2> QED BY <1>3, <2>1, <2>2, PlaceBehind, InsertKeyAndReturnKind DEF AddKeyFinish
<1>4. ASSUME NEW n \in Live, NEW k \in Names, AddKeyBefore(n, k) \/ AddKeyAfter(n, k)
      PROVE  StepKind
  BY <1>4, AddKeyBesideKind
<1>5. ASSUME NEW a \in Live, NEW anchor, Place(a, anchor), NEW t \in ElementType,
             NEW k \in NamesFor(t), pc = "idle", Keeps("grammar", t # "KEY"),
             type[a] = "ARRAY", InsertAndReturn(a, anchor, t, k)
      PROVE  StepKind
  <2>1. Keeps("grammar", Fits(a, t)) /\ Labelled(t, k)
    BY <1>0, <1>5 DEF Keeps, Fits
  <2> QED BY <1>5, <2>1, InsertAndReturnKind
<1>6. ASSUME NEW a \in Live, NEW t \in ElementType, NEW k \in NamesFor(t),
             AppendArrayValue(a, t, k)
      PROVE  StepKind
  BY <1>5, <1>6, EndsLemma, PlaceBehind DEF AppendArrayValue
<1>7. ASSUME NEW a \in Live, NEW i \in Indices, NEW t \in ElementType, NEW k \in NamesFor(t),
             AddArrayValue(a, i, t, k)
      PROVE  StepKind
  <2>1. ASSUME NEW anchor \in Live, parent[anchor] = a PROVE Place(a, anchor)
    BY <2>1, LiveNodes DEF Place, IInv, TreeShape
  <2> QED BY <1>5, <1>7, <2>1, EndsLemma, PlaceBehind DEF AddArrayValue
<1>8. ASSUME NEW a \in Live, NEW i \in Indices, NEW t \in ElementType, NEW k \in NamesFor(t),
             UpdateArrayValue(a, i, t, k)
      PROVE  StepKind
  BY <1>0, <1>8, UpdateArrayValueKind
<1>9. ASSUME NEW n \in Live, DeleteElement(n)
      PROVE  StepKind
  <2>1. /\ Idles /\ pc = "idle" /\ pc' = "search" /\ target' = n /\ call'.op = "delete_element"
        /\ Keeps("keep_root", n # root)
    BY <1>9 DEF DeleteElement, StartDelete, Idles, NoCall
  <2>2. Starts
    BY <2>1 DEF Starts
  <2> QED BY <2>2 DEF StepKind
<1>10. ASSUME NEW n \in Live, NEW t \in ElementType, NEW k \in NamesFor(t),
              NEW valid \in ChecksFor(t), UpdateKeyValue(n, t, k, valid)
       PROVE  StepKind
  BY <1>0, <1>10, UpdateKeyValueKind
<1>11. CASE GoToLeaf \/ Restart
  <2>1. Moves
    BY <1>11 DEF GoToLeaf, GoDown, Restart, Moves, Idles
  <2> QED BY <2>1 DEF StepKind
<1>12. CASE RemoveLeaf \/ RemoveTarget
  BY <1>12 DEF StepKind
<1>13. CASE RemoveRootKey
  BY <1>13, EndsLemma DEF RemoveRootKey
<1>14. CASE UpdateKeyValueFinish
  <2>1. call.node \in Live /\ call.node # NIL /\ pc = "add"
    BY <1>14, LiveNodes DEF UpdateKeyValueFinish, IInv, FinishOK, TreeShape
  <2> QED BY <1>14, <2>1, AddElementBodyKind DEF UpdateKeyValueFinish
<1>15. CASE UpdateArrayValueFinish
  <2>1. call.node \in Live /\ pc = "retype"
    BY <1>15 DEF UpdateArrayValueFinish, IInv, FinishOK
  <2>2. Retypes(call.node, call.type, call.name)
    BY <1>15, <2>1 DEF UpdateArrayValueFinish, Retypes
  <2> QED BY <2>1, <2>2 DEF StepKind
<1>16. CASE Reset
  BY <1>16 DEF Reset, Return, StepKind
<1>17. CASE UNCHANGED vars
  <2>1. Moves
    BY <1>17 DEF vars, callVars, Moves, Idles
  <2> QED BY <2>1 DEF StepKind
<1> QED BY <1>1, <1>2, <1>3, <1>4, <1>6, <1>7, <1>8, <1>9, <1>10, <1>11, <1>12, <1>13, <1>14,
           <1>15, <1>16, <1>17 DEF Next, DeleteStep

(* The base all further invariants are stated over.                         *)
Base == IInv /\ AddKeyOK

LEMMA IdlesLemma ==
  ASSUME IInv, Idles
  PROVE  /\ Live' = Live /\ type' = type /\ key' = key /\ parent' = parent
         /\ sibling' = sibling /\ first_child' = first_child /\ last_child' = last_child
         /\ root' = root /\ Entries' = Entries /\ (TableRoom' <=> TableRoom)
BY TreeUnchanged
DEF IInv, Idles, treeVars, nodeVars, tableVars, Entries, Table!Occupied, TableRoom

LEMMA BaseStep == Base /\ [Next]_vars => Base' /\ StepKind
<1> SUFFICES ASSUME Base, [Next]_vars
             PROVE  Base' /\ StepKind
  OBVIOUS
<1>1. IInv /\ IInv' /\ StepKind /\ TreeShape /\ NodesOK
  BY StepSound, StepKinds DEF Base, Sound, IInv
<1> SUFFICES ASSUME pc' = "add_key"
             PROVE  type'[call'.node] = "OBJECT" /\ Keeps("table_room", TableRoom')
  BY <1>1 DEF Base, AddKeyOK, Keeps
<1>2. CASE Moves
  <2>1. pc = "add_key" /\ call' = call /\ Idles
    BY <1>2 DEF Moves
  <2> QED BY <1>1, <2>1, IdlesLemma DEF Base, AddKeyOK, Keeps
<1>3. ASSUME NEW p, NEW a, NEW t, NEW k, InsertsValue(p, a, t, k)
      PROVE  type'[call'.node] = "OBJECT" /\ Keeps("table_room", TableRoom')
  <2>1. call'.node = NextNode /\ Keeps("table_room", TableRoom) /\ t = "OBJECT"
    BY <1>3 DEF InsertsValue
  <2>2. type'[NextNode] = t
    BY <1>1, <1>3, InsertFacts DEF InsertsValue
  <2>3. TableRoom' <=> TableRoom
    BY <1>3 DEF InsertsValue, TableRoom, tableVars
  <2> QED BY <2>1, <2>2, <2>3 DEF Keeps
<1>4. ~Ends /\ ~Starts /\ ~RemoveLeaf /\ ~RemoveTarget
  BY DEF Ends, Starts, RemoveLeaf, RemoveTarget, AfterDelete
<1>5. ASSUME NEW n \in Live, NEW t, NEW k
      PROVE  ~Retypes(n, t, k)
  BY DEF Retypes, Retype, Return
<1>6. ASSUME NEW o \in Live, NEW k \in Names, NEW a
      PROVE  ~InsertsKey(o, a, k)
  BY DEF InsertsKey
<1> QED BY <1>1, <1>2, <1>3, <1>4, <1>5, <1>6 DEF StepKind

----------------------------------------------------------------------------
(* The root.                                                                *)

RootKept ==
  /\ RootLive
  /\ pc \in {"search", "leaf"} => parent[target] # NIL

LEMMA RootStep ==
  ASSUME "keep_root" \in Rules
  PROVE  Base /\ RootKept /\ [Next]_vars => RootKept'
<1> SUFFICES ASSUME Base, RootKept, [Next]_vars
             PROVE  RootKept'
  OBVIOUS
<1>1. IInv /\ TreeShape /\ NodesOK /\ StepKind /\ NIL \notin Live /\ TreeOK
  BY BaseStep, LiveNodes DEF Base, IInv, TreeShape
<1>2. CASE Ends \/ Moves
  BY <1>1, <1>2, IdlesLemma DEF Ends, Moves, RootKept, RootLive
<1>3. CASE Starts
  <2>1. Idles /\ target' \in Live /\ parent[target'] # NIL
    BY <1>1, <1>3 DEF Starts, Keeps, TreeOK, OneRoot
  <2> QED BY <1>1, <2>1, IdlesLemma DEF RootKept, RootLive
<1>4. ASSUME NEW p, NEW a, NEW t, NEW k, InsertNode(p, a, t, k), Place(p, a),
             pc' \in {"idle", "add_key"}
      PROVE  RootKept'
  BY <1>1, <1>4, InsertFacts DEF RootKept, RootLive
<1>5. ASSUME NEW p, NEW a, NEW t, NEW k, InsertsValue(p, a, t, k)
      PROVE  RootKept'
  BY <1>4, <1>5 DEF InsertsValue
<1>6. ASSUME NEW o \in Live, NEW k \in Names, NEW a, InsertsKey(o, a, k)
      PROVE  RootKept'
  BY <1>4, <1>6 DEF InsertsKey
<1>7. ASSUME NEW n \in Live, NEW t, NEW k, Retypes(n, t, k)
      PROVE  RootKept'
  BY <1>7 DEF Retypes, Retype, Return, RootKept, RootLive, poolVars, Live
<1>8. CASE RemoveLeaf
  <2>1. /\ Removes(cur) /\ target' = target /\ cur # target /\ target \in Live
        /\ parent[cur] # NIL /\ pc = "leaf"
    BY <1>1, <1>8, RemoveLeafFacts
  <2>2. cur # root
    BY <1>1, <2>1 DEF Removes, TreeOK, OneRoot
  <2> QED BY <2>1, <2>2 DEF Removes, RootKept, RootLive
<1>9. CASE RemoveTarget
  <2>1. Removes(target) /\ pc = "search" /\ pc' = AfterDelete
    BY <1>1, <1>9, RemoveTargetFacts
  <2>2. target # root /\ pc' \notin {"search", "leaf"}
    BY <1>1, <2>1 DEF Removes, TreeOK, OneRoot, RootKept, AfterDelete
  <2> QED BY <2>1, <2>2 DEF Removes, RootKept, RootLive
<1>10. CASE ResetTree /\ pc' = "idle"
  BY <1>10 DEF ResetTree, RootKept, RootLive
<1> QED BY <1>1, <1>2, <1>3, <1>5, <1>6, <1>7, <1>8, <1>9, <1>10 DEF StepKind

----------------------------------------------------------------------------
(* The key table and the tree.                                              *)

(* What an entry has to be true to.                                         *)
Current(e) ==
  /\ e.key_element \in Live /\ type[e.key_element] = "KEY"
  /\ e.hash = <<parent[e.key_element], key[e.key_element]>>
  /\ parent[e.key_element] \in Live /\ type[parent[e.key_element]] = "OBJECT"

AllCurrent == Hashed => \A e \in Entries : Current(e)

(* The element jes_update_array_value is at has one child left, the target, *)
(* and then none, and stays a value of its array.                           *)
ArrayUpdateOK ==
  /\ pc \in {"search", "leaf"} /\ call.op = "update_array_value" =>
       /\ first_child[call.node] = target /\ sibling[target] = NIL
       /\ parent[call.node] \in Live /\ type[parent[call.node]] = "ARRAY"
       /\ Keeps("grammar", call.type # "KEY")
  /\ pc = "retype" =>
       /\ first_child[call.node] = NIL
       /\ parent[call.node] \in Live /\ type[parent[call.node]] = "ARRAY"
       /\ Keeps("grammar", call.type # "KEY")

LEMMA ArrayUpdateStep ==
  ASSUME "shallow_update" \in Rules
  PROVE  Base /\ ArrayUpdateOK /\ [Next]_vars => ArrayUpdateOK'
<1> SUFFICES ASSUME Base, ArrayUpdateOK, [Next]_vars
             PROVE  ArrayUpdateOK'
  OBVIOUS
<1>1. IInv /\ StepKind /\ NIL \notin Live /\ TreeOK
  BY BaseStep, LiveNodes DEF Base, IInv, TreeShape
<1>2. CASE pc' \notin {"search", "leaf", "retype"}
  BY <1>2 DEF ArrayUpdateOK
<1>3. CASE Moves
  BY <1>1, <1>3, IdlesLemma DEF Moves, ArrayUpdateOK
<1>4. CASE Starts
  <2>1. Idles /\ pc' = "search"
    BY <1>4 DEF Starts
  <2>2. ASSUME call'.op = "update_array_value"
        PROVE  /\ first_child[call'.node] = target' /\ sibling[target'] = NIL
               /\ parent[call'.node] \in Live /\ type[parent[call'.node]] = "ARRAY"
               /\ Keeps("grammar", call'.type # "KEY")
    <3>1. PICK m \in Live : /\ target' = first_child[m] /\ parent[target'] = m
                            /\ call'.node = m /\ StartsUpdate(m)
      BY <1>4, <2>2 DEF Starts
    <3>2. last_child[m] = target' /\ target' \in Live
      BY <1>4, <2>2, <3>1 DEF Starts, StartsUpdate, Keeps
    <3>3. sibling[target'] = NIL
      BY <1>1, <3>1, <3>2 DEF TreeOK, SiblingsOK
    <3> QED BY <2>2, <3>1, <3>3 DEF StartsUpdate
  <2> QED BY <1>1, <2>1, <2>2, IdlesLemma DEF ArrayUpdateOK
<1>5. CASE RemoveLeaf
  <2> SUFFICES ASSUME call.op = "update_array_value"
               PROVE  /\ first_child'[call.node] = target /\ sibling'[target] = NIL
                      /\ parent'[call.node] \in Live' /\ type'[parent'[call.node]] = "ARRAY"
    BY <1>1, <1>5, RemoveLeafFacts DEF ArrayUpdateOK
  <2>1. /\ Removes(cur) /\ cur # parent[target] /\ parent[cur] # parent[target]
        /\ sibling'[target] = sibling[target] /\ pc = "leaf"
    BY <1>1, <1>5, RemoveLeafFacts
  <2>2. call.node = parent[target] /\ call.node # NIL /\ target \in Live
    BY <1>1, <2>1 DEF IInv, DeletionOK
  <2>3. call.node \in Live
    <3>1. {parent[target], sibling[target], first_child[target], last_child[target]} \subseteq Live \cup {NIL}
      BY <1>1, <2>2 DEF TreeOK, LinksLive
    <3> QED BY <2>2, <3>1
  <2>4. /\ first_child[call.node] = target /\ sibling[target] = NIL
        /\ parent[call.node] \in Live /\ type[parent[call.node]] = "ARRAY"
    BY <2>1 DEF ArrayUpdateOK
  <2>5. call.node \in Live \ {cur} /\ parent[call.node] \in Live \ {cur}
    BY <2>1, <2>2, <2>3, <2>4 DEF Removes
  <2>6. first_child'[call.node] = first_child[call.node] /\ parent'[call.node] = parent[call.node]
    BY <2>1, <2>2, <2>5 DEF Removes
  <2>7. type'[parent[call.node]] = type[parent[call.node]]
    BY <2>1, <2>5 DEF Removes
  <2> QED BY <2>1, <2>4, <2>5, <2>6, <2>7 DEF Removes
<1>6. CASE RemoveTarget
  <2> SUFFICES ASSUME pc' = "retype"
               PROVE  /\ first_child'[call.node] = NIL
                      /\ parent'[call.node] \in Live' /\ type'[parent'[call.node]] = "ARRAY"
    BY <1>1, <1>6, RemoveTargetFacts DEF ArrayUpdateOK, AfterDelete
  <2>1. /\ Removes(target) /\ pc = "search" /\ call.op = "update_array_value"
        /\ parent[target] # NIL /\ first_child[parent[target]] = target =>
             first_child'[parent[target]] = sibling[target]
    BY <1>1, <1>6, RemoveTargetFacts DEF AfterDelete
  <2>2. call.node = parent[target] /\ call.node # NIL /\ target \in Live
    BY <1>1, <2>1 DEF IInv, DeletionOK
  <2>3. call.node \in Live
    <3>1. {parent[target], sibling[target], first_child[target], last_child[target]} \subseteq Live \cup {NIL}
      BY <1>1, <2>2 DEF TreeOK, LinksLive
    <3> QED BY <2>2, <3>1
  <2>4. /\ first_child[call.node] = target /\ sibling[target] = NIL
        /\ parent[call.node] \in Live /\ type[parent[call.node]] = "ARRAY"
    BY <2>1 DEF ArrayUpdateOK
  <2>5. call.node \in Live \ {target} /\ parent[call.node] \in Live \ {target}
    BY <2>1, <2>2, <2>3, <2>4 DEF Removes
  <2>6. first_child'[call.node] = NIL /\ parent'[call.node] = parent[call.node]
    BY <2>1, <2>2, <2>4, <2>5 DEF Removes
  <2>7. type'[parent[call.node]] = type[parent[call.node]]
    BY <2>1, <2>5 DEF Removes
  <2> QED BY <2>1, <2>4, <2>5, <2>6, <2>7 DEF Removes
<1> QED BY <1>1, <1>2, <1>3, <1>4, <1>5, <1>6
        DEF StepKind, Ends, InsertsValue, InsertsKey, Retypes, Retype, Return

(* The removal of a node takes its own entry away, and only that.           *)
LEMMA RemovesEntry ==
  ASSUME IInv, Hashed, NEW n, Removes(n)
  PROVE  Entries' = IF type[n] = "KEY" THEN {e \in Entries : e.hash # <<parent[n], key[n]>>}
                                       ELSE Entries
<1>1. TableOK /\ n \in Live /\ Live \subseteq Node
  BY LiveNodes DEF IInv, TreeShape, Removes
<1>2. CASE type[n] = "KEY"
  <2>1. <<parent[n], key[n]>> \in Node \X Names
    BY <1>1, <1>2 DEF Removes, IInv, NodesOK
  <2>2. Table!HashRemove(<<parent[n], key[n]>>)
    BY <1>2 DEF Removes, Unregister
  <2> QED BY <1>1, <1>2, <2>1, <2>2, RemoveEntry
<1>3. CASE type[n] # "KEY"
  <2>1. UNCHANGED tableVars
    BY <1>3 DEF Removes, Unregister
  <2> QED BY <1>3, <2>1 DEF Entries, Table!Occupied, tableVars
<1> QED BY <1>2, <1>3

LEMMA EntriesStep ==
  ASSUME "shallow_update" \in Rules
  PROVE  Base /\ ArrayUpdateOK /\ AllCurrent /\ [Next]_vars => AllCurrent'
<1> SUFFICES ASSUME Base, ArrayUpdateOK, AllCurrent, [Next]_vars, Hashed,
                    NEW e \in Entries'
             PROVE  Current(e)'
  BY DEF AllCurrent
<1>1. /\ IInv /\ TreeShape /\ NodesOK /\ StepKind
      /\ NIL \notin Live /\ TableOK /\ PoolInv /\ TreeOK
      /\ Live \subseteq Node /\ \A f \in Entries : Current(f)
  BY BaseStep, LiveNodes DEF Base, IInv, TreeShape, AllCurrent
<1> DEFINE m == e.key_element
<1>2. ASSUME e \in Entries, m \in Live', parent[m] \in Live',
             type'[m] = type[m], key'[m] = key[m], parent'[m] = parent[m],
             type'[parent[m]] = type[parent[m]]
      PROVE  Current(e)'
  <2>1. Current(e)
    BY <1>1, <1>2
  <2> QED BY <1>2, <2>1 DEF Current
<1>3. CASE Ends \/ Moves \/ Starts
  <2>1. Idles
    BY <1>3 DEF Ends, Moves, Starts
  <2>2. Current(e)
    BY <1>1, <2>1, IdlesLemma
  <2> QED BY <1>1, <2>1, <2>2, IdlesLemma DEF Current
<1>4. ASSUME NEW p, NEW a, NEW t, NEW k, InsertNode(p, a, t, k), Place(p, a), e \in Entries
      PROVE  Current(e)'
  <2>1. Current(e)
    BY <1>1, <1>4
  <2> QED BY <1>1, <1>2, <1>4, <2>1, InsertFacts DEF Current
<1>5. ASSUME NEW p, NEW a, NEW t, NEW k, InsertsValue(p, a, t, k)
      PROVE  Current(e)'
  <2>1. Entries' = Entries
    BY <1>5 DEF InsertsValue, Entries, Table!Occupied, tableVars
  <2> QED BY <1>4, <1>5, <2>1 DEF InsertsValue
<1>6. ASSUME NEW o \in Live, NEW k \in Names, NEW a, InsertsKey(o, a, k)
      PROVE  Current(e)'
  <2>1. /\ InsertNode(o, a, "KEY", k) /\ Place(o, a) /\ type[o] = "OBJECT" /\ o # NIL
        /\ Table!HashFind(<<o, k>>) = NIL /\ Table!HashAdd(<<o, k>>, NextNode)
    BY <1>1, <1>6 DEF InsertsKey, FindKey
  <2>2. /\ type'[NextNode] = "KEY" /\ key'[NextNode] = k /\ parent'[NextNode] = o
        /\ NextNode \in Node /\ NextNode \in Live' /\ o \in Live' /\ type'[o] = "OBJECT"
    BY <1>1, <2>1, InsertFacts
  <2>3. e \in Entries \/ e = [hash |-> <<o, k>>, key_element |-> NextNode]
    <3>1. <<o, k>> \in Node \X Names
      BY <1>1
    <3>2. Entries' \in {Entries, Entries \cup {[hash |-> <<o, k>>, key_element |-> NextNode]}}
      BY <1>1, <2>1, <2>2, <3>1, AddEntry
    <3> QED BY <3>2
  <2>4. CASE e \in Entries
    BY <1>4, <2>1, <2>4
  <2>5. CASE e = [hash |-> <<o, k>>, key_element |-> NextNode]
    BY <2>2, <2>5 DEF Current
  <2> QED BY <2>3, <2>4, <2>5
<1>7. ASSUME NEW n \in Live, NEW t, NEW k, Retypes(n, t, k)
      PROVE  Current(e)'
  <2>1. /\ type' = [type EXCEPT ![n] = t] /\ key' = [key EXCEPT ![n] = k]
        /\ parent' = parent /\ Live' = Live /\ UNCHANGED tableVars
    BY <1>7 DEF Retypes, Retype, poolVars, Live
  <2>2. first_child[n] = NIL /\ type[parent[n]] = "ARRAY"
    BY <1>7 DEF Retypes, ArrayUpdateOK
  <2>3. Current(e)
    BY <1>1, <2>1 DEF Entries, Table!Occupied, tableVars
  <2>4. parent[m] # n
    BY <1>1, <2>2, <2>3, ChildlessLemma DEF Current
  <2>5. m # n
    BY <2>2, <2>3 DEF Current
  <2> QED BY <1>1, <2>1, <2>3, <2>4, <2>5 DEF Current, IInv, NodesOK
<1>8. ASSUME NEW n, Removes(n)
      PROVE  Current(e)'
  <2>1. e \in Entries /\ Current(e)
    BY <1>1, <1>8, RemovesEntry
  <2>2. m # n
    BY <1>1, <1>8, <2>1, RemovesEntry DEF Current
  <2>3. m \in Live \ {n} /\ parent[m] \in Live \ {n}
    BY <1>8, <2>1, <2>2 DEF Current, Removes
  <2> QED BY <1>2, <1>8, <2>1, <2>3 DEF Removes
<1>9. CASE RemoveLeaf
  BY <1>1, <1>8, <1>9, RemoveLeafFacts
<1>10. CASE RemoveTarget
  BY <1>1, <1>8, <1>10, RemoveTargetFacts
<1>11. CASE ResetTree
  BY <1>11, NoEntries DEF ResetTree
<1> QED BY <1>1, <1>3, <1>5, <1>6, <1>7, <1>9, <1>10, <1>11 DEF StepKind

----------------------------------------------------------------------------
(* The grammar.                                                             *)

(* The key jes_update_key_value is at has one value, the target, and then   *)
(* none.                                                                    *)
KeyUpdateOK ==
  /\ pc \in {"search", "leaf"} /\ call.op = "update_key_value" =>
       /\ type[call.node] = "KEY" /\ call.type # "KEY"
       /\ first_child[call.node] = target /\ sibling[target] = NIL
  /\ pc = "add" => /\ type[call.node] = "KEY" /\ call.type # "KEY"
                   /\ first_child[call.node] = NIL

LEMMA KeyUpdateStep ==
  ASSUME "grammar" \in Rules
  PROVE  Base /\ JsonShape /\ KeyUpdateOK /\ [Next]_vars => KeyUpdateOK'
<1> SUFFICES ASSUME Base, JsonShape, KeyUpdateOK, [Next]_vars
             PROVE  KeyUpdateOK'
  OBVIOUS
<1>1. IInv /\ StepKind /\ NIL \notin Live /\ TreeOK
  BY BaseStep, LiveNodes DEF Base, IInv, TreeShape
<1>2. CASE pc' \notin {"search", "leaf", "add"}
  BY <1>2 DEF KeyUpdateOK
<1>3. CASE Moves
  BY <1>1, <1>3, IdlesLemma DEF Moves, KeyUpdateOK
<1>4. CASE Starts
  <2>1. Idles /\ pc' = "search"
    BY <1>4 DEF Starts
  <2>2. ASSUME call'.op = "update_key_value"
        PROVE  /\ type[call'.node] = "KEY" /\ call'.type # "KEY"
               /\ first_child[call'.node] = target' /\ sibling[target'] = NIL
    <3>1. PICK m \in Live : /\ target' = first_child[m] /\ parent[target'] = m
                            /\ call'.node = m /\ StartsUpdate(m)
      BY <1>4, <2>2 DEF Starts
    <3>2. type[m] = "KEY" /\ call'.type # "KEY"
      BY <2>2, <3>1 DEF StartsUpdate, Keeps
    <3>3. last_child[m] = target' /\ target' \in Live
      BY <1>4, <3>1, <3>2 DEF Starts, JsonShape
    <3>4. sibling[target'] = NIL
      BY <1>1, <3>1, <3>3 DEF TreeOK, SiblingsOK
    <3> QED BY <3>1, <3>2, <3>4
  <2> QED BY <1>1, <2>1, <2>2, IdlesLemma DEF KeyUpdateOK
<1>5. CASE RemoveLeaf
  <2> SUFFICES ASSUME call.op = "update_key_value"
               PROVE  /\ type'[call.node] = "KEY" /\ call.type # "KEY"
                      /\ first_child'[call.node] = target /\ sibling'[target] = NIL
    BY <1>1, <1>5, RemoveLeafFacts DEF KeyUpdateOK
  <2>1. /\ Removes(cur) /\ cur # parent[target] /\ parent[cur] # parent[target]
        /\ sibling'[target] = sibling[target] /\ pc = "leaf"
    BY <1>1, <1>5, RemoveLeafFacts
  <2>2. call.node = parent[target] /\ call.node # NIL /\ target \in Live
    BY <1>1, <2>1 DEF IInv, DeletionOK
  <2>3. call.node \in Live \ {cur}
    <3>1. {parent[target], sibling[target], first_child[target], last_child[target]} \subseteq Live \cup {NIL}
      BY <1>1, <2>2 DEF TreeOK, LinksLive
    <3> QED BY <2>1, <2>2, <3>1
  <2>4. /\ first_child[call.node] = target /\ sibling[target] = NIL
        /\ type[call.node] = "KEY" /\ call.type # "KEY"
    BY <2>1 DEF KeyUpdateOK
  <2> QED BY <2>1, <2>2, <2>3, <2>4 DEF Removes
<1>6. CASE RemoveTarget
  <2> SUFFICES ASSUME pc' = "add"
               PROVE  /\ type'[call.node] = "KEY" /\ call.type # "KEY"
                      /\ first_child'[call.node] = NIL
    BY <1>1, <1>6, RemoveTargetFacts DEF KeyUpdateOK, AfterDelete
  <2>1. /\ Removes(target) /\ pc = "search" /\ call.op = "update_key_value"
        /\ parent[target] # target
        /\ parent[target] # NIL /\ first_child[parent[target]] = target =>
             first_child'[parent[target]] = sibling[target]
    BY <1>1, <1>6, RemoveTargetFacts DEF AfterDelete
  <2>2. call.node = parent[target] /\ call.node # NIL /\ target \in Live
    BY <1>1, <2>1 DEF IInv, DeletionOK
  <2>3. call.node \in Live \ {target}
    <3>1. {parent[target], sibling[target], first_child[target], last_child[target]} \subseteq Live \cup {NIL}
      BY <1>1, <2>2 DEF TreeOK, LinksLive
    <3> QED BY <2>1, <2>2, <3>1
  <2>4. /\ first_child[call.node] = target /\ sibling[target] = NIL
        /\ type[call.node] = "KEY" /\ call.type # "KEY"
    BY <2>1 DEF KeyUpdateOK
  <2> QED BY <2>1, <2>2, <2>3, <2>4 DEF Removes
<1> QED BY <1>1, <1>2, <1>3, <1>4, <1>5, <1>6
        DEF StepKind, Ends, InsertsValue, InsertsKey, Retypes, Retype, Return

LEMMA ShapeStep ==
  ASSUME "grammar" \in Rules, "shallow_update" \in Rules
  PROVE  Base /\ ArrayUpdateOK /\ JsonShape /\ KeyUpdateOK /\ [Next]_vars => JsonShape'
<1> SUFFICES ASSUME Base, ArrayUpdateOK, JsonShape, KeyUpdateOK, [Next]_vars,
                    NEW m \in Live'
             PROVE  /\ type'[m] = "KEY" <=> (parent'[m] # NIL /\ type'[parent'[m]] = "OBJECT")
                    /\ type'[m] = "KEY" => first_child'[m] = last_child'[m]
                    /\ type'[m] = "SCALAR" => first_child'[m] = NIL
  BY DEF JsonShape
<1>1. /\ IInv /\ TreeShape /\ NodesOK /\ StepKind
      /\ NIL \notin Live /\ PoolInv /\ TreeOK /\ Live \subseteq Node
      /\ \A n \in Live : parent[n] \in Live \cup {NIL}
  BY BaseStep, LiveNodes DEF Base, IInv, TreeShape, TreeOK, LinksLive
<1> DEFINE Goal == /\ type'[m] = "KEY" <=> (parent'[m] # NIL /\ type'[parent'[m]] = "OBJECT")
                   /\ type'[m] = "KEY" => first_child'[m] = last_child'[m]
                   /\ type'[m] = "SCALAR" => first_child'[m] = NIL
<1> SUFFICES Goal
  OBVIOUS
<1>2. CASE Ends \/ Moves \/ Starts
  <2>1. Idles
    BY <1>2 DEF Ends, Moves, Starts
  <2> QED BY <1>1, <2>1, IdlesLemma DEF JsonShape
<1>3. ASSUME NEW p, NEW a, NEW t, NEW k, InsertsValue(p, a, t, k)
      PROVE  Goal
  <2>1. Place(p, a) /\ InsertNode(p, a, t, k) /\ p \in Live \cup {NIL}
    BY <1>3 DEF InsertsValue, Place
  <2>2. Fits(p, t)
    BY <1>3 DEF InsertsValue, Keeps, KeyUpdateOK, Fits
  <2>3. CASE m = NextNode
    BY <1>1, <2>1, <2>2, <2>3, InsertFacts DEF Fits
  <2>4. CASE m \in Live /\ m # p
    BY <1>1, <2>1, <2>4, InsertFacts DEF JsonShape
  <2>5. CASE m \in Live /\ m = p
    BY <1>1, <2>1, <2>2, <2>5, InsertFacts DEF JsonShape, Fits
  <2> QED BY <1>1, <2>1, <2>3, <2>4, <2>5, InsertFacts
<1>4. ASSUME NEW o \in Live, NEW k \in Names, NEW a, InsertsKey(o, a, k)
      PROVE  Goal
  <2>1. Place(o, a) /\ InsertNode(o, a, "KEY", k) /\ type[o] = "OBJECT" /\ o # NIL
    BY <1>1, <1>4 DEF InsertsKey
  <2>2. CASE m = NextNode
    BY <1>1, <2>1, <2>2, InsertFacts
  <2>3. CASE m \in Live
    BY <1>1, <2>1, <2>3, InsertFacts DEF JsonShape
  <2> QED BY <1>1, <2>1, <2>2, <2>3, InsertFacts
<1>5. ASSUME NEW n \in Live, NEW t, NEW k, Retypes(n, t, k)
      PROVE  Goal
  <2>1. /\ type' = [type EXCEPT ![n] = t] /\ parent' = parent /\ Live' = Live
        /\ first_child' = first_child /\ last_child' = last_child /\ t # "KEY"
    BY <1>5 DEF Retypes, Retype, poolVars, Live, Keeps, ArrayUpdateOK
  <2>2. first_child[n] = NIL /\ type[parent[n]] = "ARRAY"
    BY <1>5 DEF Retypes, ArrayUpdateOK
  <2>3. \A x \in Live : parent[x] # n
    BY <1>1, <2>2, ChildlessLemma
  <2>4. type'[n] = t /\ \A x \in Live \ {n} : type'[x] = type[x]
    BY <1>1, <2>1 DEF IInv, NodesOK
  <2>5. CASE m = n
    BY <1>1, <2>1, <2>2, <2>3, <2>4, <2>5
  <2>6. CASE m # n
    BY <1>1, <2>1, <2>3, <2>4, <2>6 DEF JsonShape
  <2> QED BY <2>5, <2>6
<1>6. ASSUME NEW n, Removes(n)
      PROVE  Goal
  <2>1. m \in Live \ {n} /\ parent[m] # n
    BY <1>6 DEF Removes
  <2> QED BY <1>1, <1>6, <2>1 DEF Removes, JsonShape
<1>7. CASE RemoveLeaf \/ RemoveTarget
  BY <1>1, <1>6, <1>7, RemoveLeafFacts, RemoveTargetFacts
<1>8. CASE ResetTree
  BY <1>8, ResetTreeLemma
<1> QED BY <1>1, <1>2, <1>3, <1>4, <1>5, <1>7, <1>8 DEF StepKind

----------------------------------------------------------------------------
(* Every key is in the table.                                               *)

EntryOf(n) == [hash |-> <<parent[n], key[n]>>, key_element |-> n]

KeysEntered == Hashed => \A n \in Live : type[n] = "KEY" => EntryOf(n) \in Entries

LEMMA RoomForKey ==
  ASSUME TableOK, Hashed, TableRoom, NEW h \in Node \X Names, Table!HashFind(h) = NIL
  PROVE  Table!AddStatus(h) = "NO_ERROR"
<1>1. TP!TableInv /\ TP!HashFind(h) = NIL /\ entry_count < HashCapacity
  BY SameFind DEF TableOK, TableRoom
<1>2. TP!RoomIsUsable
  BY <1>1, TP!RoomLemma, TableAssumptions
<1>3. TP!AddStatus(h) = "NO_ERROR"
  BY <1>1, <1>2 DEF TP!RoomIsUsable
<1> QED BY <1>3
        DEF Table!AddStatus, TP!AddStatus, Table!StopsAt, TP!StopsAt, Table!Probe, TP!Probe,
            Table!First, TP!First, Table!Holds, TP!Holds, Table!Occupied, TP!Occupied,
            Table!Slot, TP!Slot

LEMMA KeysStep ==
  ASSUME {"grammar", "shallow_update"} \subseteq Rules, Hashed => "table_room" \in Rules
  PROVE  /\ Base /\ ArrayUpdateOK /\ JsonShape /\ KeyUpdateOK /\ KeysEntered
         /\ [Next]_vars
         => KeysEntered'
<1> SUFFICES ASSUME Base, ArrayUpdateOK, JsonShape, KeyUpdateOK, KeysEntered,
                    [Next]_vars, Hashed, NEW m \in Live', type'[m] = "KEY"
             PROVE  [hash |-> <<parent'[m], key'[m]>>, key_element |-> m] \in Entries'
  BY DEF KeysEntered, EntryOf
<1> DEFINE Goal == [hash |-> <<parent'[m], key'[m]>>, key_element |-> m] \in Entries'
<1> SUFFICES Goal
  OBVIOUS
<1>1. /\ IInv /\ TreeShape /\ NodesOK /\ StepKind
      /\ NIL \notin Live /\ PoolInv /\ TreeOK /\ TableOK
      /\ Live \subseteq Node /\ \A n \in Live : key[n] \in Names \cup {NIL}
  BY BaseStep, LiveNodes DEF Base, IInv, TreeShape, NodesOK
<1>2. ASSUME m \in Live, type[m] = "KEY", parent'[m] = parent[m], key'[m] = key[m],
             Entries \subseteq Entries'
      PROVE  Goal
  BY <1>2 DEF KeysEntered, EntryOf
<1>3. CASE Ends \/ Moves \/ Starts
  <2>1. Idles
    BY <1>3 DEF Ends, Moves, Starts
  <2> QED BY <1>1, <1>2, <2>1, IdlesLemma
<1>4. ASSUME NEW p, NEW a, NEW t, NEW k, InsertsValue(p, a, t, k)
      PROVE  Goal
  <2>1. Place(p, a) /\ InsertNode(p, a, t, k) /\ t # "KEY"
    BY <1>4 DEF InsertsValue, Keeps, KeyUpdateOK, Fits
  <2>2. m \in Live
    BY <1>1, <2>1, InsertFacts
  <2>3. Entries' = Entries
    BY <1>4 DEF InsertsValue, Entries, Table!Occupied, tableVars
  <2> QED BY <1>1, <1>2, <2>1, <2>2, <2>3, InsertFacts
<1>5. ASSUME NEW o \in Live, NEW k \in Names, NEW a, InsertsKey(o, a, k)
      PROVE  Goal
  <2>1. /\ Place(o, a) /\ InsertNode(o, a, "KEY", k) /\ <<o, k>> \in Node \X Names
        /\ Table!HashFind(<<o, k>>) = NIL /\ Table!HashAdd(<<o, k>>, NextNode) /\ TableRoom
    BY <1>1, <1>5 DEF InsertsKey, FindKey, Keeps
  <2>2. NextNode \in Node
    BY <1>1, <2>1, InsertFacts
  <2>3. /\ Entries' \in {Entries, Entries \cup {[hash |-> <<o, k>>, key_element |-> NextNode]}}
        /\ [hash |-> <<o, k>>, key_element |-> NextNode] \in Entries'
    BY <1>1, <2>1, <2>2, AddEntry, RoomForKey
  <2>4. Entries \subseteq Entries'
    BY <2>3
  <2>5. CASE m = NextNode
    BY <1>1, <2>1, <2>3, <2>5, InsertFacts
  <2>6. CASE m \in Live
    BY <1>1, <1>2, <2>1, <2>4, <2>6, InsertFacts
  <2> QED BY <1>1, <2>1, <2>5, <2>6, InsertFacts
<1>6. ASSUME NEW n \in Live, NEW t, NEW k, Retypes(n, t, k)
      PROVE  Goal
  <2>1. /\ type' = [type EXCEPT ![n] = t] /\ key' = [key EXCEPT ![n] = k]
        /\ parent' = parent /\ Live' = Live /\ UNCHANGED tableVars /\ t # "KEY"
    BY <1>6 DEF Retypes, Retype, poolVars, Live, Keeps, ArrayUpdateOK
  <2>2. m \in Live /\ m # n
    BY <1>1, <2>1 DEF IInv, NodesOK
  <2>3. Entries' = Entries
    BY <2>1 DEF Entries, Table!Occupied, tableVars
  <2> QED BY <1>1, <1>2, <2>1, <2>2, <2>3 DEF IInv, NodesOK
<1>7. ASSUME NEW n, Removes(n)
      PROVE  Goal
  <2>1. /\ m \in Live /\ m # n /\ n \in Live /\ type[m] = "KEY"
        /\ parent'[m] = parent[m] /\ key'[m] = key[m]
    BY <1>7 DEF Removes
  <2>2. EntryOf(m) \in Entries
    BY <2>1 DEF KeysEntered
  <2>3. CASE type[n] # "KEY"
    BY <1>1, <1>7, <2>1, <2>2, <2>3, RemovesEntry DEF EntryOf
  <2>4. CASE type[n] = "KEY"
    <3>1. EntryOf(n) \in Entries
      BY <2>1, <2>4 DEF KeysEntered
    <3>2. EntryOf(n) # EntryOf(m)
      BY <2>1 DEF EntryOf
    <3>3. EntryOf(n).hash # EntryOf(m).hash
      BY <1>1, <2>2, <3>1, <3>2, EntriesLemma
    <3>4. EntryOf(m).hash # <<parent[n], key[n]>>
      BY <3>3 DEF EntryOf
    <3>5. EntryOf(m) \in Entries'
      BY <1>1, <1>7, <2>2, <2>4, <3>4, RemovesEntry
    <3> QED BY <2>1, <3>5 DEF EntryOf
  <2> QED BY <2>3, <2>4
<1>8. CASE RemoveLeaf \/ RemoveTarget
  BY <1>1, <1>7, <1>8, RemoveLeafFacts, RemoveTargetFacts
<1>9. CASE ResetTree
  BY <1>9, ResetTreeLemma
<1> QED BY <1>1, <1>3, <1>4, <1>5, <1>6, <1>8, <1>9 DEF StepKind

(* Two keys of one name in one object would have one hash, and the table    *)
(* has one entry for a hash.                                                *)
LEMMA OneKeyPerName == IInv /\ Hashed /\ KeysEntered => UniqueKeys
<1> SUFFICES ASSUME IInv, Hashed, KeysEntered, NEW m \in Live, NEW n \in Live,
                    type[m] = "KEY", type[n] = "KEY", parent[m] = parent[n], key[m] = key[n]
             PROVE  m = n
  BY DEF UniqueKeys
<1>1. EntryOf(m) \in Entries /\ EntryOf(n) \in Entries /\ EntryOf(m).hash = EntryOf(n).hash
  BY DEF KeysEntered, EntryOf
<1>2. EntryOf(m) = EntryOf(n)
  BY <1>1, EntriesLemma DEF IInv
<1> QED BY <1>2 DEF EntryOf

----------------------------------------------------------------------------
(* The theorems.                                                            *)

LEMMA InitDocument ==
  Init => /\ Base /\ RootKept /\ ArrayUpdateOK /\ AllCurrent
          /\ JsonShape /\ KeyUpdateOK /\ KeysEntered
<1> SUFFICES ASSUME Init
             PROVE  /\ Base /\ RootKept /\ ArrayUpdateOK /\ AllCurrent
                    /\ JsonShape /\ KeyUpdateOK /\ KeysEntered
  OBVIOUS
<1>1. IInv /\ pc = "idle" /\ root = NIL
  BY InitSound DEF Init
<1>2. Live = {}
  BY NilAssumption DEF Init, PoolInit, Live
<1>3. Entries = {}
  BY NoEntries DEF Init
<1>4. Base /\ RootKept
  BY <1>1 DEF Base, AddKeyOK, RootKept, RootLive
<1>5. ArrayUpdateOK /\ KeyUpdateOK
  BY <1>1 DEF ArrayUpdateOK, KeyUpdateOK
<1>6. AllCurrent /\ JsonShape /\ KeysEntered
  BY <1>2, <1>3 DEF AllCurrent, JsonShape, KeysEntered
<1> QED BY <1>4, <1>5, <1>6

(***************************************************************************)
(* A client that does not delete the root never gets a pointer to a         *)
(* returned node from jes_get_root.                                         *)
(***************************************************************************)
THEOREM RootStaysLive == ASSUME "keep_root" \in Rules PROVE Spec => []RootLive
<1>1. Base /\ RootKept /\ [Next]_vars => (Base /\ RootKept)'
  BY BaseStep, RootStep
<1>2. Base /\ RootKept => RootLive
  BY DEF RootKept
<1> QED BY <1>1, <1>2, InitDocument, PTL DEF Spec

(***************************************************************************)
(* The key table points at nothing but keys in the tree, under the object   *)
(* and the name they have, as long as jes_update_array_value is used on     *)
(* elements with at most one child.  That the client keeps to the grammar   *)
(* is not needed, nor that the table has room.                              *)
(***************************************************************************)
THEOREM EntriesStayCurrent == ASSUME "shallow_update" \in Rules PROVE Spec => []EntriesCurrent
<1> DEFINE I == Base /\ ArrayUpdateOK /\ AllCurrent
<1>1. I /\ [Next]_vars => I'
  BY BaseStep, ArrayUpdateStep, EntriesStep
<1>2. I => EntriesCurrent
  BY DEF AllCurrent, Current, Entries, EntriesCurrent
<1>3. Init => I
  BY InitDocument
<1> QED BY <1>1, <1>2, <1>3, PTL DEF Spec

(***************************************************************************)
(* The key table of the code compares the hash and, in the node the entry   *)
(* points to, the text of the key as it is now; JesHashTable compares the   *)
(* parent and name an entry was made with.  With the rule of the theorem    *)
(* before there is no difference.                                           *)
(***************************************************************************)
THEOREM EntriesCompareByText ==
  ASSUME "shallow_update" \in Rules
  PROVE  Spec => [](Hashed =>
           \A s \in Table!Slot : \A h \in Node \X Names :
             Table!Holds(s, h) <=>
               /\ Table!Occupied(s) /\ slots[s].hash = h
               /\ type[slots[s].key_element] = "KEY" /\ key[slots[s].key_element] = h[2])
<1> DEFINE SameText ==
             Hashed =>
               \A s \in Table!Slot : \A h \in Node \X Names :
                 Table!Holds(s, h) <=>
                   /\ Table!Occupied(s) /\ slots[s].hash = h
                   /\ type[slots[s].key_element] = "KEY" /\ key[slots[s].key_element] = h[2]
<1>1. EntriesCurrent => SameText
  BY DEF EntriesCurrent, Table!Holds
<1> QED BY <1>1, EntriesStayCurrent, PTL

(* The invariant of a client that keeps to the grammar.                     *)
ShapeInv == Base /\ ArrayUpdateOK /\ JsonShape /\ KeyUpdateOK

LEMMA ShapeInvariant ==
  ASSUME {"grammar", "shallow_update"} \subseteq Rules
  PROVE  Spec => []ShapeInv
<1>1. ShapeInv /\ [Next]_vars => ShapeInv'
  BY BaseStep, ArrayUpdateStep, KeyUpdateStep, ShapeStep DEF ShapeInv
<1>2. Init => ShapeInv
  BY InitDocument DEF ShapeInv
<1> QED BY <1>1, <1>2, PTL DEF Spec

(***************************************************************************)
(* A client that asks for nothing the grammar forbids, and replaces array   *)
(* elements with at most one child, has a JSON document in the tree, in the *)
(* middle of a deletion, too.                                               *)
(***************************************************************************)
THEOREM ShapeIsJson ==
  ASSUME {"grammar", "shallow_update"} \subseteq Rules
  PROVE  Spec => []JsonShape
<1>1. ShapeInv => JsonShape
  BY DEF ShapeInv
<1> QED BY <1>1, ShapeInvariant, PTL

(* With the key table: it has every key, and has them right.                *)
EntriesInv == AllCurrent /\ KeysEntered

LEMMA EntriesInvariant ==
  ASSUME {"grammar", "shallow_update"} \subseteq Rules, Hashed => "table_room" \in Rules
  PROVE  Spec => []EntriesInv
<1> DEFINE I == ShapeInv /\ EntriesInv
<1>1. I /\ [Next]_vars => I'
  BY BaseStep, ArrayUpdateStep, KeyUpdateStep, ShapeStep, EntriesStep, KeysStep
     DEF ShapeInv, EntriesInv
<1>2. Init => I
  BY InitDocument DEF ShapeInv, EntriesInv
<1> QED BY <1>1, <1>2, PTL DEF Spec

----------------------------------------------------------------------------
(* Where an insertion lands.                                                *)

LEMMA Lands ==
  ASSUME IInv, NEW p \in Live, NEW a, Place(p, a), NEW t, NEW k, InsertNode(p, a, t, k)
  PROVE  /\ a = NIL => sibling'[NextNode] = first_child[p]
         /\ a # NIL => sibling'[NextNode] = sibling[a] /\ sibling'[a] = NextNode
<1>1. /\ NextNode \notin Live /\ NextNode \in Node /\ Live \subseteq Node /\ NIL \notin Live
      /\ sibling \in [Node -> Link]
  BY InsertFacts, LiveNodes DEF IInv, TreeShape, LinkTypes, Link
<1>2. CASE a = NIL /\ Prepend(p, t, k)
  BY <1>1, <1>2 DEF Prepend
<1>3. CASE a # NIL /\ InsertAfter(p, a, t, k)
  <2>1. a \in Live
    BY <1>1, <1>3 DEF Place
  <2> QED BY <1>1, <1>3, <2>1 DEF InsertAfter
<1> QED BY <1>1, <1>2, <1>3 DEF InsertNode

(* Behind the last child there is nothing.                                  *)
LEMMA LandsLast ==
  ASSUME IInv, NEW p \in Live, NEW t, NEW k, InsertNode(p, LastChild(p), t, k)
  PROVE  sibling'[NextNode] = NIL
<1>1. PoolInv /\ TreeOK /\ Place(p, LastChild(p))
  BY PlaceBehind DEF IInv, TreeShape
<1>2. CASE LastChild(p) = NIL
  BY <1>1, <1>2, Lands, LastChildLemma
<1>3. CASE LastChild(p) # NIL
  <2>1. LastChild(p) = last_child[p] /\ last_child[p] \in Live /\ parent[last_child[p]] = p
    BY <1>1, <1>3, LastChildLemma DEF LastChild
  <2>2. sibling[last_child[p]] = NIL
    BY <1>1, <2>1, LiveNodes DEF TreeOK, SiblingsOK
  <2> QED BY <1>1, <1>3, <2>1, <2>2, Lands
<1> QED BY <1>2, <1>3

LEMMA RefusedSame ==
  ASSUME NEW s, Refuse(s) \/ Abort
  PROVE  Live' = Live
BY DEF Refuse, Abort, treeVars, poolVars, Live

LEMMA KeyInserted ==
  ASSUME NEW o, NEW a, NEW k, InsertKeyAndReturn(o, a, k), Live' # Live
  PROVE  InsertNode(o, a, "KEY", k)
BY RefusedSame DEF InsertKeyAndReturn

(***************************************************************************)
(* A key lands right in front of, or right behind, the key the caller       *)
(* names, a key or value that is added without a place behind all its       *)
(* siblings, a value added at an index behind the element at that index: in *)
(* every tree a client, keeping to the rules or not, can make.              *)
(***************************************************************************)
THEOREM InsertionsLandAsAsked == Spec => LandsAsAsked
<1> DEFINE LandsAt(n, i, t, k) ==
             LET at == IF FromEnd(n, i) < 0 THEN 0 ELSE FromEnd(n, i) IN
               \/ at >= ArraySize(n) /\ sibling'[NextNode] = NIL
               \/ at < ArraySize(n) /\ sibling'[ChildAt(n, at)] = NextNode
           Lands5(n) ==
             Live' # Live =>
               /\ \A k \in Names : AddKeyBefore(n, k) => sibling'[NextNode] = n
               /\ \A k \in Names : AddKeyAfter(n, k) => sibling'[n] = NextNode
               /\ \A k \in Names : AddKey(n, k, TRUE) => sibling'[NextNode] = NIL
               /\ \A t \in ElementType : \A k \in NamesFor(t) :
                    /\ AddElement(n, t, k, TRUE) => sibling'[NextNode] = NIL
                    /\ AppendArrayValue(n, t, k) => sibling'[NextNode] = NIL
                    /\ \A i \in Indices : AddArrayValue(n, i, t, k) => LandsAt(n, i, t, k)
<1>1. ASSUME IInv, NEW n \in Live, Live' # Live
      PROVE  Lands5(n)
  <2>1. PoolInv /\ TreeOK /\ NIL \notin Live /\ n # NIL
    BY <1>1, LiveNodes DEF IInv, TreeShape
  <2>2. ASSUME NEW k \in Names, AddKeyBefore(n, k) PROVE sibling'[NextNode] = n
    <3>1. KeyInObject(n) /\ InsertNode(parent[n], LeftSibling(n), "KEY", k)
      BY <1>1, <2>2, RefusedSame, KeyInserted DEF AddKeyBefore
    <3>2. parent[n] # NIL /\ parent[n] \in Live /\ Place(parent[n], LeftSibling(n))
      BY <2>1, <3>1, LeftSiblingLemma DEF KeyInObject, Place
    <3> QED BY <1>1, <2>1, <3>1, <3>2, Lands, LeftSiblingLemma
  <2>3. ASSUME NEW k \in Names, AddKeyAfter(n, k) PROVE sibling'[n] = NextNode
    <3>1. KeyInObject(n) /\ InsertNode(parent[n], n, "KEY", k)
      BY <1>1, <2>3, RefusedSame, KeyInserted DEF AddKeyAfter
    <3>2. parent[n] \in Live /\ Place(parent[n], n)
      BY <2>1, <3>1, LeftSiblingLemma DEF KeyInObject, Place
    <3> QED BY <1>1, <2>1, <3>1, <3>2, Lands
  <2>4. ASSUME NEW k \in Names, AddKey(n, k, TRUE) PROVE sibling'[NextNode] = NIL
    <3> DEFINE object == IF type[n] = "OBJECT" THEN n ELSE first_child[n]
    <3>1. object \in Live \cup {NIL}
      <4>1. {parent[n], sibling[n], first_child[n], last_child[n]} \subseteq Live \cup {NIL}
        BY <2>1 DEF TreeOK, LinksLive
      <4> QED BY <4>1
    <3>2. CASE object # NIL /\ InsertKeyAndReturn(object, LastChild(object), k)
      <4>1. object \in Live
        BY <3>1, <3>2
      <4> HIDE DEF object
      <4> QED BY <1>1, <3>2, <4>1, KeyInserted, LandsLast
    <3>3. CASE object = NIL /\ InsertNode(n, NIL, "OBJECT", NIL)
      <4>1. first_child[n] = NIL /\ Place(n, NIL)
        BY <2>1, <3>3 DEF Place
      <4> QED BY <1>1, <3>3, <4>1, Lands
    <3> QED BY <1>1, <2>4, <3>2, <3>3, RefusedSame DEF AddKey
  <2>5. ASSUME NEW a, NEW t, NEW k, InsertAndReturn(n, a, t, k)
        PROVE  InsertNode(n, a, t, k)
    BY <1>1, <2>5, RefusedSame DEF InsertAndReturn
  <2>6. ASSUME NEW t, NEW k, AddElement(n, t, k, TRUE) \/ AppendArrayValue(n, t, k)
        PROVE  sibling'[NextNode] = NIL
    <3>1. InsertAndReturn(n, LastChild(n), t, k)
      BY <1>1, <2>1, <2>6, RefusedSame DEF AddElement, AddElementBody, AppendArrayValue
    <3> QED BY <1>1, <2>5, <3>1, LandsLast
  <2>7. ASSUME NEW i, NEW t, NEW k, AddArrayValue(n, i, t, k)
        PROVE  LandsAt(n, i, t, k)
    <3> DEFINE at == IF FromEnd(n, i) < 0 THEN 0 ELSE FromEnd(n, i)
    <3>1. CASE at >= ArraySize(n) /\ InsertAndReturn(n, LastChild(n), t, k)
      BY <1>1, <2>5, <3>1, LandsLast
    <3>2. CASE at < ArraySize(n) /\ \E anchor \in Live : /\ parent[anchor] = n
                                                         /\ anchor = ChildAt(n, at)
                                                         /\ InsertAndReturn(n, anchor, t, k)
      <4>1. PICK anchor \in Live : /\ parent[anchor] = n /\ anchor = ChildAt(n, at)
                                   /\ InsertAndReturn(n, anchor, t, k)
        BY <3>2
      <4>2. InsertNode(n, anchor, t, k) /\ Place(n, anchor) /\ anchor # NIL
        BY <2>1, <2>5, <4>1 DEF Place
      <4>3. sibling'[anchor] = NextNode
        BY <1>1, <4>2, Lands
      <4> QED BY <3>2, <4>1, <4>3
    <3> HIDE DEF at
    <3>3. ~Refuse("INVALID_PARAMETER")
      BY <1>1, RefusedSame
    <3> QED BY <2>7, <3>1, <3>2, <3>3 DEF AddArrayValue, at
  <2> HIDE DEF LandsAt
  <2> QED BY <2>2, <2>3, <2>4, <2>6, <2>7
<1>2. IInv => \A n \in Live : Lands5(n)
  BY <1>1
<1>3. IInv /\ [Next]_vars => [\A n \in Live : Lands5(n)]_vars
  BY <1>2
<1> QED BY <1>3, TreeInvariant, PTL DEF Spec, LandsAsAsked

----------------------------------------------------------------------------
(* The walks along the children.                                            *)

(* A set of natural numbers that is not empty has a least element.          *)
LEMMA LeastLemma ==
  ASSUME NEW D, D \subseteq Nat, D # {}
  PROVE  \E d \in D : \A e \in D : d <= e
<1>1. PICK d \in D : \A e \in D : ~(<<e, d>> \in OpToRel(<, Nat))
  BY NatLessThanWellFounded, WFMin
<1>2. \A e \in D : ~(e < d)
  BY <1>1, Zenon DEF OpToRel
<1>3. \A e \in D : d <= e
  BY <1>2
<1> QED BY <1>3

----------------------------------------------------------------------------
(* The walk.                                                                *)

Further(p, met) ==
  LET next == IF met = <<>> THEN first_child[p] ELSE sibling[met[Len(met)]]
  IN IF next = NIL THEN met ELSE Append(met, next)

(* walk[k] is the list of the first k children of p.                        *)
Walks(walk, p, K) ==
  walk = [k \in 0 .. K |-> IF k = 0 THEN <<>> ELSE Further(p, walk[k - 1])]

LEMMA ChildrenDef ==
  ASSUME NEW p
  PROVE  Children(p) = (CHOOSE walk : Walks(walk, p, Capacity))[Capacity]
BY DEF Children, Walks, Further

LEMMA WalkExists ==
  ASSUME NEW p, NEW K \in Nat
  PROVE  \E walk : Walks(walk, p, K)
<1> DEFINE D == {k \in Nat : ~ \E walk : Walks(walk, p, k)}
<1> SUFFICES ASSUME D # {} PROVE FALSE
  OBVIOUS
<1>1. PICK d \in D : \A e \in D : d <= e
  BY LeastLemma
<1>2. d \in Nat /\ ~ \E walk : Walks(walk, p, d)
  OBVIOUS
<1>3. CASE d = 0
  <2> DEFINE f == [k \in 0 .. 0 |-> <<>>]
  <2>1. f = [k \in 0 .. 0 |-> IF k = 0 THEN <<>> ELSE Further(p, f[k - 1])]
    OBVIOUS
  <2> QED BY <1>2, <1>3, <2>1 DEF Walks
<1>4. CASE d # 0
  <2>1. d - 1 \in Nat /\ d - 1 \notin D
    BY <1>1, <1>2, <1>4
  <2>2. PICK f : Walks(f, p, d - 1)
    BY <2>1
  <2> DEFINE g == [k \in 0 .. d |-> IF k < d THEN f[k] ELSE Further(p, f[d - 1])]
  <2>3. ASSUME NEW k \in 0 .. d
        PROVE  g[k] = IF k = 0 THEN <<>> ELSE Further(p, g[k - 1])
    <3>1. CASE k = 0
      <4>1. f[0] = <<>> /\ 0 < d
        BY <1>2, <1>4, <2>1, <2>2 DEF Walks
      <4> QED BY <3>1, <4>1
    <3>2. CASE k = d
      <4>1. g[k] = Further(p, f[d - 1]) /\ g[k - 1] = f[d - 1]
        BY <1>2, <1>4, <3>2
      <4> QED BY <1>4, <3>2, <4>1
    <3>3. CASE k # 0 /\ k # d
      <4>1. k \in 0 .. d - 1 /\ k < d /\ k - 1 \in 0 .. d /\ k - 1 < d
        BY <1>2, <3>3
      <4>2. f[k] = Further(p, f[k - 1])
        BY <2>2, <3>3, <4>1 DEF Walks
      <4>3. g[k] = f[k] /\ g[k - 1] = f[k - 1]
        BY <3>3, <4>1
      <4> QED BY <3>3, <4>2, <4>3
    <3> QED BY <3>1, <3>2, <3>3
  <2>4. g = [k \in 0 .. d |-> IF k = 0 THEN <<>> ELSE Further(p, g[k - 1])]
    <3>1. g = [k \in 0 .. d |-> g[k]]
      OBVIOUS
    <3> HIDE DEF g
    <3> QED BY <2>3, <3>1
  <2> QED BY <1>2, <2>4 DEF Walks
<1> QED BY <1>3, <1>4

(* What the walk has met after k steps.                                     *)
Met(p, k, s) ==
  /\ s \in Seq(Node) /\ Len(s) <= k
  /\ s # <<>> => s[1] = first_child[p]
  /\ \A i \in 1 .. Len(s) - 1 : s[i + 1] = sibling[s[i]]
  /\ s = <<>> /\ k > 0 => first_child[p] = NIL
  /\ s # <<>> /\ Len(s) < k => sibling[s[Len(s)]] = NIL

LEMMA FurtherLemma ==
  ASSUME LinkTypes, NEW p \in Node, NEW k \in Nat, NEW s, Met(p, k, s)
  PROVE  Met(p, k + 1, Further(p, s))
<1> DEFINE next == IF s = <<>> THEN first_child[p] ELSE sibling[s[Len(s)]]
<1>1. s \in Seq(Node) /\ Len(s) \in Nat /\ Len(s) <= k
  BY DEF Met
<1>2. next \in Node \cup {NIL}
  <2>1. first_child[p] \in Node \cup {NIL} /\ \A x \in Node : sibling[x] \in Node \cup {NIL}
    BY DEF LinkTypes, Link
  <2>2. s # <<>> => s[Len(s)] \in Node
    BY <1>1
  <2> HIDE DEF Node
  <2> QED BY <2>1, <2>2
<1>3. Further(p, s) = IF next = NIL THEN s ELSE Append(s, next)
  BY DEF Further
<1>4. CASE next = NIL
  BY <1>1, <1>3, <1>4 DEF Met
<1>5. CASE next # NIL
  <2> DEFINE t == Append(s, next)
  <2>1. /\ next \in Node /\ t \in Seq(Node) /\ Len(t) = Len(s) + 1
        /\ \A i \in 1 .. Len(s) : t[i] = s[i]
        /\ t[Len(s) + 1] = next
    BY <1>1, <1>2, <1>5
  <2>2. Len(t) <= k + 1 /\ t # <<>>
    BY <1>1, <2>1
  <2>3. t[1] = first_child[p]
    BY <1>1, <2>1 DEF Met
  <2>4. ASSUME NEW i \in 1 .. Len(t) - 1 PROVE t[i + 1] = sibling[t[i]]
    BY <1>1, <2>1, <2>4 DEF Met
  <2>5. Len(t) < k + 1 => sibling[t[Len(t)]] = NIL
    <3>1. Len(t) < k + 1 => Len(s) < k
      BY <1>1, <2>1
    <3> QED BY <1>1, <1>5, <2>1, <3>1 DEF Met
  <2> HIDE DEF next, t
  <2>6. Met(p, k + 1, t)
    BY <2>1, <2>2, <2>3, <2>4, <2>5 DEF Met
  <2> QED BY <1>3, <1>5, <2>6 DEF t
<1> QED BY <1>4, <1>5

LEMMA ChildrenMet ==
  ASSUME LinkTypes, NEW p \in Node
  PROVE  Met(p, Capacity, Children(p))
<1> DEFINE walk == CHOOSE w : Walks(w, p, Capacity)
<1>1. Walks(walk, p, Capacity) /\ Capacity \in Nat
  BY WalkExists, CapacityAssumption
<1> HIDE DEF walk
<1> DEFINE D == {k \in 0 .. Capacity : ~Met(p, k, walk[k])}
<1>2. ASSUME D # {} PROVE FALSE
  <2>1. PICK d \in D : \A e \in D : d <= e
    <3>1. D \subseteq Nat
      BY <1>1
    <3> HIDE DEF D
    <3> QED BY <1>2, <3>1, LeastLemma
  <2>2. d \in 0 .. Capacity /\ ~Met(p, d, walk[d])
    OBVIOUS
  <2>3. CASE d = 0
    <3>1. walk[0] = <<>>
      BY <1>1 DEF Walks
    <3> QED BY <2>2, <2>3, <3>1 DEF Met
  <2>4. CASE d # 0
    <3>1. d - 1 \in 0 .. Capacity /\ d - 1 \notin D
      BY <1>1, <2>1, <2>2, <2>4
    <3>2. Met(p, d - 1, walk[d - 1]) /\ d - 1 \in Nat
      BY <3>1
    <3>3. walk[d] = Further(p, walk[d - 1]) /\ (d - 1) + 1 = d
      BY <1>1, <2>2, <2>4 DEF Walks
    <3> QED BY <2>2, <3>2, <3>3, FurtherLemma
  <2> QED BY <2>3, <2>4
<1>3. Met(p, Capacity, walk[Capacity])
  BY <1>1, <1>2
<1> QED BY <1>3, ChildrenDef DEF walk

LEMMA IntervalSize ==
  ASSUME NEW n \in Nat
  PROVE  IsFiniteSet(1 .. n) /\ Cardinality(1 .. n) = n
<1>1. IsFiniteSet(1 .. n) /\ Cardinality(1 .. n) = IF 1 > n THEN 0 ELSE n - 1 + 1
  BY FS_Interval
<1>2. (IF 1 > n THEN 0 ELSE n - 1 + 1) = n
  OBVIOUS
<1> QED BY <1>1, <1>2

(* No two elements of a list of nodes being the same, it has at most        *)
(* Capacity of them.                                                        *)
LEMMA NodesRunOut ==
  ASSUME NEW s \in Seq(Node), Len(s) = Capacity,
         \A i, j \in 1 .. Len(s) : s[i] = s[j] => i = j,
         NEW n \in Node
  PROVE  \E i \in 1 .. Len(s) : s[i] = n
<1> SUFFICES ASSUME \A i \in 1 .. Len(s) : s[i] # n PROVE FALSE
  OBVIOUS
<1> DEFINE f == [i \in 1 .. Capacity + 1 |-> IF i <= Capacity THEN s[i] ELSE n]
<1>1. Capacity \in Nat /\ Len(s) = Capacity
  BY CapacityAssumption
<1>2. f \in [1 .. Capacity + 1 -> Node]
  <2>1. \A i \in 1 .. Capacity + 1 : f[i] \in Node
    BY <1>1
  <2> QED BY <2>1
<1>3. IsFiniteSet(1 .. Capacity + 1) /\ Cardinality(1 .. Capacity + 1) = Capacity + 1
  BY <1>1, IntervalSize
<1>4. IsFiniteSet(Node) /\ Cardinality(Node) = Capacity
  BY <1>1, FS_Interval, CapacityAssumption DEF Node
<1>5. \E i, j \in 1 .. Capacity + 1 : i # j /\ f[i] = f[j]
  <2> HIDE DEF f
  <2>1. Cardinality(Node) < Cardinality(1 .. Capacity + 1)
    BY <1>1, <1>3, <1>4
  <2> QED BY <1>2, <1>3, <1>4, <2>1, FS_PigeonHole
<1>6. PICK i \in 1 .. Capacity + 1, j \in 1 .. Capacity + 1 : i # j /\ f[i] = f[j]
  BY <1>5
<1>7. CASE i <= Capacity /\ j <= Capacity
  BY <1>1, <1>6, <1>7
<1>8. CASE i > Capacity \/ j > Capacity
  BY <1>1, <1>6, <1>8
<1> QED BY <1>1, <1>6, <1>7, <1>8

(***************************************************************************)
(* The walk meets the children of p, every one of them, and each once.      *)
(***************************************************************************)
LEMMA ChildrenFacts ==
  ASSUME TreeShape, NEW p \in Live, NEW s, s = Children(p)
  PROVE  /\ s \in Seq(Node) /\ Len(s) \in Nat
         /\ \A i \in 1 .. Len(s) : s[i] \in Live /\ parent[s[i]] = p
         /\ \A i, j \in 1 .. Len(s) : s[i] = s[j] => i = j
         /\ \A n \in Live : parent[n] = p => \E i \in 1 .. Len(s) : s[i] = n
         /\ s # <<>> => s[1] = first_child[p]
         /\ \A i \in 1 .. Len(s) - 1 : s[i + 1] = sibling[s[i]]
<1>1. /\ PoolInv /\ TreeOK /\ p \in Node /\ Live \subseteq Node /\ NIL \notin Live
      /\ NIL \notin Node
  BY LiveNodes, NilAssumption DEF TreeShape
<1>2. Met(p, Capacity, s)
  BY <1>1, ChildrenMet DEF TreeShape
<1>3. s \in Seq(Node) /\ Len(s) \in Nat /\ Len(s) <= Capacity
  BY <1>2 DEF Met
<1>4. /\ 1 \in 1 .. Len(s) => s[1] = first_child[p]
      /\ \A i \in 2 .. Len(s) : /\ i - 1 \in 1 .. Len(s) - 1 /\ i - 1 \in 1 .. Len(s)
                                /\ s[i] = sibling[s[i - 1]]
  BY <1>2, <1>3 DEF Met
<1>5. \A i \in 1 .. Len(s) : s[i] \in Node /\ s[i] # NIL
  BY <1>1, <1>3
<1>6. \A m \in Live : {parent[m], sibling[m], first_child[m], last_child[m]} \subseteq Live \cup {NIL}
  BY <1>1 DEF TreeOK, LinksLive
<1>7. \A i \in 1 .. Len(s) : s[i] \in Live /\ parent[s[i]] = p
  <2> DEFINE D == {i \in 1 .. Len(s) : ~(s[i] \in Live /\ parent[s[i]] = p)}
  <2> SUFFICES ASSUME D # {} PROVE FALSE
    OBVIOUS
  <2>1. PICK d \in D : \A e \in D : d <= e
    <3>1. D \subseteq Nat
      OBVIOUS
    <3> HIDE DEF D
    <3> QED BY <3>1, LeastLemma
  <2>2. d \in 1 .. Len(s) /\ ~(s[d] \in Live /\ parent[s[d]] = p)
    OBVIOUS
  <2>3. CASE d = 1
    <3>1. s[1] = first_child[p] /\ s[1] # NIL /\ s[1] \in Live \cup {NIL}
      BY <1>4, <1>5, <1>6, <2>2, <2>3
    <3> QED BY <1>1, <2>2, <2>3, <3>1 DEF TreeOK, EndsOK
  <2>4. CASE d # 1
    <3>1. d \in 2 .. Len(s) /\ d - 1 \notin D
      BY <1>3, <2>1, <2>2, <2>4
    <3>2. s[d - 1] \in Live /\ parent[s[d - 1]] = p
      BY <1>4, <3>1
    <3>3. s[d] = sibling[s[d - 1]] /\ s[d] # NIL /\ s[d] \in Live \cup {NIL}
      BY <1>4, <1>5, <1>6, <2>2, <3>1, <3>2
    <3> QED BY <1>1, <2>2, <3>2, <3>3 DEF TreeOK, SiblingsOK
  <2> QED BY <2>3, <2>4
<1>8. \A i, j \in 1 .. Len(s) : s[i] = s[j] => i = j
  <2> DEFINE D == {i \in 1 .. Len(s) : \E j \in 1 .. Len(s) : i < j /\ s[i] = s[j]}
  <2>1. ASSUME D # {} PROVE FALSE
    <3>1. PICK d \in D : \A e \in D : d <= e
      <4>1. D \subseteq Nat
        OBVIOUS
      <4> HIDE DEF D
      <4> QED BY <2>1, <4>1, LeastLemma
    <3>2. PICK j \in 1 .. Len(s) : d \in 1 .. Len(s) /\ d < j /\ s[d] = s[j]
      OBVIOUS
    <3>3. j \in 2 .. Len(s) /\ s[j] = sibling[s[j - 1]] /\ s[j - 1] \in Live
      BY <1>3, <1>4, <1>7, <3>2
    <3>4. CASE d = 1
      <4>1. sibling[s[j - 1]] = first_child[p] /\ first_child[p] # NIL
        BY <1>4, <1>5, <3>2, <3>3, <3>4
      <4> QED BY <1>1, <3>3, <4>1 DEF TreeOK, EndsOK
    <3>5. CASE d # 1
      <4>1. d \in 2 .. Len(s) /\ s[d] = sibling[s[d - 1]] /\ s[d - 1] \in Live /\ s[d] # NIL
        BY <1>3, <1>4, <1>5, <1>7, <3>2, <3>5
      <4>2. s[d - 1] = s[j - 1]
        BY <1>1, <3>2, <3>3, <4>1 DEF TreeOK, SiblingsOK
      <4>3. d - 1 \in D
        BY <1>3, <3>2, <3>3, <4>1, <4>2
      <4>4. d <= d - 1
        BY <3>1, <4>3
      <4> QED BY <3>2, <4>4
    <3> QED BY <3>4, <3>5
  <2> QED BY <1>3, <2>1
<1>9. \A n \in Live : parent[n] = p => \E i \in 1 .. Len(s) : s[i] = n
  <2> DEFINE S == {n \in Live : parent[n] = p /\ \A i \in 1 .. Len(s) : s[i] # n}
  <2> SUFFICES ASSUME S # {} PROVE FALSE
    OBVIOUS
  <2>1. PICK n \in S : \A m \in S : sibling[m] # n
    BY <1>1 DEF TreeOK, Acyclic
  <2>2. n \in Live /\ parent[n] = p /\ n # NIL /\ \A i \in 1 .. Len(s) : s[i] # n
    BY <1>1
  <2>3. 1 \in 1 .. Len(s)
    <3>1. first_child[p] # NIL
      BY <1>1, <2>2, ChildlessLemma
    <3>2. s # <<>>
      BY <1>2, <3>1, CapacityAssumption DEF Met
    <3> QED BY <1>3, <3>2
  <2>4. n # first_child[p]
    BY <1>4, <2>2, <2>3
  <2>5. PICK m \in Live : sibling[m] = n
    BY <1>1, <2>2, <2>4 DEF TreeOK, SiblingsOK
  <2>6. parent[m] = p
    BY <1>1, <2>2, <2>5 DEF TreeOK, SiblingsOK
  <2>7. m \notin S
    BY <2>1, <2>5
  <2>8. PICK i \in 1 .. Len(s) : s[i] = m
    BY <2>5, <2>6, <2>7
  <2>9. CASE i # Len(s)
    <3>1. i + 1 \in 2 .. Len(s) /\ (i + 1) - 1 = i
      BY <1>3, <2>8, <2>9
    <3>2. s[i + 1] = n
      BY <1>4, <2>5, <2>8, <3>1
    <3> QED BY <1>3, <2>2, <3>1, <3>2
  <2>10. CASE i = Len(s)
    <3>1. Len(s) = Capacity
      <4>1. sibling[s[Len(s)]] # NIL /\ s # <<>>
        BY <2>2, <2>3, <2>5, <2>8, <2>10
      <4>2. ~(Len(s) < Capacity)
        BY <1>2, <4>1 DEF Met
      <4> QED BY <1>3, <4>2, CapacityAssumption
    <3>2. \E k \in 1 .. Len(s) : s[k] = n
      BY <1>1, <1>3, <1>8, <2>2, <3>1, NodesRunOut
    <3> QED BY <2>2, <3>2
  <2> QED BY <2>9, <2>10
<1>10. s # <<>> => s[1] = first_child[p]
  BY <1>2 DEF Met
<1>11. \A i \in 1 .. Len(s) - 1 : s[i + 1] = sibling[s[i]]
  BY <1>2 DEF Met
<1> QED BY <1>3, <1>7, <1>8, <1>9, <1>10, <1>11

----------------------------------------------------------------------------
(* A key is looked up by its name.                                          *)

AllKeys(o) == \A n \in Live : parent[n] = o => type[n] = "KEY"

LEMMA LinearFindLemma ==
  ASSUME TreeShape, NEW o \in Live, NEW k
  PROVE  /\ LinearFind(o, k) # NIL =>
              /\ LinearFind(o, k) \in Live /\ parent[LinearFind(o, k)] = o
              /\ type[LinearFind(o, k)] = "KEY" /\ key[LinearFind(o, k)] = k
         /\ type[o] = "OBJECT" /\ AllKeys(o) /\ LinearFind(o, k) = NIL =>
              \A n \in Live : parent[n] = o => key[n] # k
<1> DEFINE s == Children(o)
           hits == {i \in DOMAIN s : /\ type[o] = "OBJECT" /\ key[s[i]] = k
                                    /\ \A j \in 1 .. i : type[s[j]] = "KEY"}
<1>1. /\ s \in Seq(Node) /\ Len(s) \in Nat /\ DOMAIN s = 1 .. Len(s)
      /\ \A i \in 1 .. Len(s) : s[i] \in Live /\ parent[s[i]] = o
      /\ \A n \in Live : parent[n] = o => \E i \in 1 .. Len(s) : s[i] = n
  <2> HIDE DEF s
  <2>1. s = Children(o)
    BY DEF s
  <2>2. s \in Seq(Node)
    BY <2>1, ChildrenFacts
  <2> QED BY <2>1, <2>2, ChildrenFacts
<1>2. LinearFind(o, k) = IF hits = {} THEN NIL ELSE s[Table!First(hits)]
  BY DEF LinearFind
<1>3. NIL \notin Live
  BY LiveNodes DEF TreeShape
<1> HIDE DEF s
<1>4. CASE hits = {}
  <2>1. ASSUME type[o] = "OBJECT", AllKeys(o), NEW n \in Live, parent[n] = o
        PROVE  key[n] # k
    <3>1. PICK i \in 1 .. Len(s) : s[i] = n
      BY <1>1, <2>1
    <3>2. \A j \in 1 .. i : type[s[j]] = "KEY"
      BY <1>1, <2>1 DEF AllKeys
    <3> QED BY <1>1, <1>4, <2>1, <3>1, <3>2
  <2> QED BY <1>2, <1>4, <2>1
<1>5. CASE hits # {}
  <2>1. Table!First(hits) \in hits
    <3>1. hits \subseteq Nat
      BY <1>1
    <3> HIDE DEF hits
    <3>2. \E d \in hits : \A e \in hits : d <= e
      BY <1>5, <3>1, LeastLemma
    <3> QED BY <3>2 DEF Table!First
  <2> DEFINE i == Table!First(hits)
  <2>2. i \in 1 .. Len(s) /\ key[s[i]] = k /\ type[s[i]] = "KEY"
    <3> HIDE DEF i
    <3>1. i \in DOMAIN s /\ key[s[i]] = k /\ \A j \in 1 .. i : type[s[j]] = "KEY"
      BY <2>1 DEF i
    <3>2. i \in 1 .. i
      BY <1>1, <3>1
    <3> QED BY <1>1, <3>1, <3>2
  <2>3. LinearFind(o, k) = s[i]
    BY <1>2, <1>5
  <2> HIDE DEF i
  <2> QED BY <1>1, <1>3, <2>2, <2>3
<1> QED BY <1>4, <1>5

LEMMA HashFindLemma ==
  ASSUME TableOK, Hashed, NEW h \in Node \X Names
  PROVE  \/ \E e \in Entries : e.hash = h /\ Table!HashFind(h) = e.key_element
         \/ Table!HashFind(h) = NIL /\ \A e \in Entries : e.hash # h
<1>1. TP!TableInv /\ Table!HashFind(h) = TP!HashFind(h) /\ Table!Slot = TP!Slot
  BY SameFind DEF TableOK, Table!Slot, TP!Slot
<1>2. TP!FindsEntries
  BY <1>1, TP!FindLemma, TableAssumptions
<1>3. CASE \E s \in TP!Slot : TP!Holds(s, h)
  <2>1. PICK s \in TP!Slot : TP!Holds(s, h)
    BY <1>3
  <2>2. Table!HashFind(h) = slots[s].key_element
    BY <1>1, <1>2, <2>1 DEF TP!FindsEntries
  <2>3. slots[s] \in Entries /\ slots[s].hash = h
    BY <1>1, <2>1 DEF Entries, Table!Occupied, TP!Holds, TP!Occupied
  <2> QED BY <2>2, <2>3
<1>4. CASE \A s \in TP!Slot : ~TP!Holds(s, h)
  <2>1. \A e \in Entries : e.hash # h
    BY <1>1, <1>4 DEF Entries, Table!Occupied, TP!Holds, TP!Occupied
  <2>2. TP!FoundAt(h) = {}
    BY <1>2, <1>4 DEF TP!FindsEntries
  <2> QED BY <1>1, <1>2, <2>1, <2>2 DEF TP!FindsEntries
<1> QED BY <1>3, <1>4

----------------------------------------------------------------------------
(* No object gets two keys of one name.                                     *)

LEMMA UniqueStep ==
  ASSUME {"grammar", "shallow_update"} \subseteq Rules, ~Hashed
  PROVE  ShapeInv /\ UniqueKeys /\ [Next]_vars => UniqueKeys'
<1> SUFFICES ASSUME ShapeInv, UniqueKeys, [Next]_vars, NEW m \in Live', NEW n \in Live',
                    type'[m] = "KEY", type'[n] = "KEY", parent'[m] = parent'[n], key'[m] = key'[n]
             PROVE  m = n
  BY DEF UniqueKeys
<1>1. /\ IInv /\ StepKind /\ PoolInv /\ TreeShape /\ NodesOK /\ JsonShape /\ KeyUpdateOK
      /\ ArrayUpdateOK /\ NIL \notin Live
  BY BaseStep, LiveNodes DEF ShapeInv, Base, IInv, TreeShape
<1>2. ASSUME m \in Live, n \in Live, type[m] = "KEY", type[n] = "KEY",
             parent'[m] = parent[m], parent'[n] = parent[n], key'[m] = key[m], key'[n] = key[n]
      PROVE  m = n
  BY <1>2 DEF UniqueKeys
<1>3. CASE Ends \/ Moves \/ Starts
  <2>1. Idles
    BY <1>3 DEF Ends, Moves, Starts
  <2> QED BY <1>1, <1>2, <2>1, IdlesLemma
<1>4. ASSUME NEW p, NEW a, NEW t, NEW k, InsertsValue(p, a, t, k)
      PROVE  m = n
  <2>1. Place(p, a) /\ InsertNode(p, a, t, k) /\ t # "KEY"
    BY <1>1, <1>4 DEF InsertsValue, Keeps, KeyUpdateOK, Fits
  <2>2. m \in Live /\ n \in Live
    BY <1>1, <2>1, InsertFacts
  <2> QED BY <1>1, <1>2, <2>1, <2>2, InsertFacts
<1>5. ASSUME NEW o \in Live, NEW k \in Names, NEW a, InsertsKey(o, a, k)
      PROVE  m = n
  <2>1. /\ Place(o, a) /\ InsertNode(o, a, "KEY", k) /\ LinearFind(o, k) = NIL
        /\ type[o] = "OBJECT" /\ o # NIL
    BY <1>1, <1>5 DEF InsertsKey, FindKey
  <2>2. AllKeys(o)
    BY <1>1, <2>1 DEF JsonShape, AllKeys
  <2>3. \A x \in Live : parent[x] = o => key[x] # k
    BY <1>1, <2>1, <2>2, LinearFindLemma
  <2>4. /\ Live' = Live \cup {NextNode} /\ key'[NextNode] = k /\ parent'[NextNode] = o
        /\ \A x \in Live : type'[x] = type[x] /\ key'[x] = key[x] /\ parent'[x] = parent[x]
    BY <1>1, <2>1, InsertFacts
  <2>5. m \in Live /\ n \in Live => m = n
    BY <1>2, <2>4
  <2> QED BY <2>3, <2>4, <2>5
<1>6. ASSUME NEW x \in Live, NEW t, NEW k, Retypes(x, t, k)
      PROVE  m = n
  <2>1. /\ type' = [type EXCEPT ![x] = t] /\ key' = [key EXCEPT ![x] = k]
        /\ parent' = parent /\ Live' = Live /\ t # "KEY"
    BY <1>1, <1>6 DEF Retypes, Retype, poolVars, Live, Keeps, ArrayUpdateOK
  <2>2. m # x /\ n # x
    <3>1. type'[x] = t
      BY <1>1, <2>1, LiveNodes DEF IInv, NodesOK
    <3> QED BY <2>1, <3>1
  <2> QED BY <1>1, <1>2, <2>1, <2>2 DEF IInv, NodesOK
<1>7. ASSUME NEW x, Removes(x)
      PROVE  m = n
  BY <1>2, <1>7 DEF Removes
<1>8. CASE RemoveLeaf \/ RemoveTarget
  BY <1>1, <1>7, <1>8, RemoveLeafFacts, RemoveTargetFacts
<1>9. CASE ResetTree
  BY <1>9, ResetTreeLemma
<1> QED BY <1>1, <1>3, <1>4, <1>5, <1>6, <1>8, <1>9 DEF StepKind

(* Names lead to keys and back.                                             *)
NamesInv == ShapeInv /\ EntriesInv /\ UniqueKeys

LEMMA NamesInvariant ==
  ASSUME {"grammar", "shallow_update"} \subseteq Rules, Hashed => "table_room" \in Rules
  PROVE  Spec => []NamesInv
<1>1. CASE Hashed
  <2>1. ShapeInv /\ EntriesInv => NamesInv
    BY <1>1, OneKeyPerName DEF NamesInv, ShapeInv, EntriesInv, Base
  <2> QED BY <2>1, ShapeInvariant, EntriesInvariant, PTL
<1>2. CASE ~Hashed
  <2>1. ShapeInv /\ UniqueKeys /\ [Next]_vars => UniqueKeys'
    BY <1>2, UniqueStep
  <2>2. Init => UniqueKeys
    BY NilAssumption DEF Init, PoolInit, Live, UniqueKeys
  <2>3. Spec => []UniqueKeys
    BY <2>1, <2>2, ShapeInvariant, PTL DEF Spec
  <2> QED BY <2>3, ShapeInvariant, EntriesInvariant, PTL DEF NamesInv
<1> QED BY <1>1, <1>2

(***************************************************************************)
(* A client that keeps to the grammar, replaces array elements with at most *)
(* one child and leaves room in the key table never makes an object with    *)
(* two keys of one name, in either search mode.                             *)
(***************************************************************************)
THEOREM KeysStayUnique ==
  ASSUME {"grammar", "shallow_update"} \subseteq Rules, Hashed => "table_room" \in Rules
  PROVE  Spec => []UniqueKeys
<1>1. NamesInv => UniqueKeys
  BY DEF NamesInv
<1> QED BY <1>1, NamesInvariant, PTL

(* The lookup of a name finds the key of that name, and nothing else.       *)
FindsKeys ==
  \A o \in Live, k \in Names :
    /\ FindKey(o, k) \in Live \cup {NIL}
    /\ \A x \in Live : FindKey(o, k) = x <=> type[x] = "KEY" /\ parent[x] = o /\ key[x] = k

LEMMA LinearFindsKeys ==
  ASSUME TreeShape, JsonShape, UniqueKeys, NEW o \in Live, NEW k \in Names
  PROVE  /\ LinearFind(o, k) \in Live \cup {NIL}
         /\ \A x \in Live : LinearFind(o, k) = x <=> type[x] = "KEY" /\ parent[x] = o /\ key[x] = k
<1>1. NIL \notin Live
  BY LiveNodes DEF TreeShape
<1>2. ASSUME NEW x \in Live, type[x] = "KEY", parent[x] = o
      PROVE  type[o] = "OBJECT" /\ AllKeys(o)
  BY <1>1, <1>2 DEF JsonShape, AllKeys
<1> QED BY <1>1, <1>2, LinearFindLemma DEF UniqueKeys

(* What is in the table is found.                                           *)
LEMMA EntryFound ==
  ASSUME TableOK, Hashed, NEW e \in Entries
  PROVE  Table!HashFind(e.hash) = e.key_element
BY EntriesLemma, HashFindLemma DEF Table!Entry

LEMMA HashFindsKeys ==
  ASSUME NamesInv, Hashed, NEW o \in Live, NEW k \in Names
  PROVE  /\ Table!HashFind(<<o, k>>) \in Live \cup {NIL}
         /\ \A x \in Live : Table!HashFind(<<o, k>>) = x
                              <=> type[x] = "KEY" /\ parent[x] = o /\ key[x] = k
<1>1. /\ TreeShape /\ TableOK /\ UniqueKeys /\ NIL \notin Live /\ Live \subseteq Node
      /\ \A e \in Entries : Current(e)
      /\ \A n \in Live : type[n] = "KEY" => EntryOf(n) \in Entries
  BY LiveNodes DEF NamesInv, ShapeInv, EntriesInv, AllCurrent, KeysEntered, Base, IInv, TreeShape
<1> DEFINE h == <<o, k>>
<1>2. h \in Node \X Names
  BY <1>1
<1>3. ASSUME NEW e \in Entries, e.hash = h, Table!HashFind(h) = e.key_element
      PROVE  /\ e.key_element \in Live /\ type[e.key_element] = "KEY"
             /\ parent[e.key_element] = o /\ key[e.key_element] = k
  BY <1>1, <1>3 DEF Current
<1>4. ASSUME \A e \in Entries : e.hash # h, NEW x \in Live
      PROVE  ~(type[x] = "KEY" /\ parent[x] = o /\ key[x] = k)
  BY <1>1, <1>4 DEF EntryOf
<1> QED BY <1>1, <1>2, <1>3, <1>4, HashFindLemma DEF UniqueKeys

LEMMA FindKeyLemma == NamesInv => FindsKeys
<1> SUFFICES ASSUME NamesInv, NEW o \in Live, NEW k \in Names
             PROVE  /\ FindKey(o, k) \in Live \cup {NIL}
                    /\ \A x \in Live : FindKey(o, k) = x
                                         <=> type[x] = "KEY" /\ parent[x] = o /\ key[x] = k
  BY DEF FindsKeys
<1>1. CASE Hashed
  BY <1>1, HashFindsKeys DEF FindKey
<1>2. CASE ~Hashed
  BY <1>2, LinearFindsKeys DEF FindKey, NamesInv, ShapeInv, Base, IInv
<1> QED BY <1>1, <1>2

(***************************************************************************)
(* The two search modes cannot be told apart: what the key table finds is   *)
(* what the walk along the children finds, and nothing is found by one of   *)
(* them only.                                                               *)
(***************************************************************************)
THEOREM SearchModesAgree ==
  ASSUME {"grammar", "shallow_update"} \subseteq Rules, Hashed => "table_room" \in Rules
  PROVE  Spec => []LookupAgrees
<1>1. ASSUME NamesInv, Hashed, NEW o \in Live, NEW k \in Names
      PROVE  Table!HashFind(<<o, k>>) = LinearFind(o, k)
  <2>1. TreeShape /\ JsonShape /\ UniqueKeys /\ NIL \notin Live
    BY <1>1, LiveNodes DEF NamesInv, ShapeInv, Base, IInv, TreeShape
  <2> QED BY <1>1, <2>1, LinearFindsKeys, HashFindsKeys
<1>2. NamesInv => LookupAgrees
  BY <1>1 DEF LookupAgrees, FindKey
<1> QED BY <1>2, NamesInvariant, PTL

----------------------------------------------------------------------------
(* A value of an array is looked up by its index.                           *)

LEMMA ChildrenCounted ==
  ASSUME TreeShape, NEW a \in Live
  PROVE  /\ Cardinality({n \in Live : parent[n] = a}) = Len(Children(a))
         /\ Len(Children(a)) <= Capacity
<1> DEFINE s == Children(a)
           values == {n \in Live : parent[n] = a}
<1>1. /\ s \in Seq(Node) /\ Len(s) \in Nat
      /\ \A i \in 1 .. Len(s) : s[i] \in values
      /\ \A i, j \in 1 .. Len(s) : s[i] = s[j] => i = j
      /\ \A n \in values : \E i \in 1 .. Len(s) : s[i] = n
  <2> HIDE DEF s
  <2>1. s = Children(a)
    BY DEF s
  <2>2. s \in Seq(Node) /\ Len(s) \in Nat
    BY <2>1, ChildrenFacts
  <2>3. \A i \in 1 .. Len(s) : s[i] \in Live /\ parent[s[i]] = a
    BY <2>1, ChildrenFacts
  <2>4. \A n \in Live : parent[n] = a => \E i \in 1 .. Len(s) : s[i] = n
    BY <2>1, ChildrenFacts
  <2>5. \A i, j \in 1 .. Len(s) : s[i] = s[j] => i = j
    BY <2>1, ChildrenFacts
  <2> QED BY <2>2, <2>3, <2>4, <2>5
<1>2. s \in [1 .. Len(s) -> values]
  <2> HIDE DEF s, values
  <2>1. s = [i \in 1 .. Len(s) |-> s[i]]
    BY <1>1
  <2> QED BY <1>1, <2>1
<1>3. s \in Bijection(1 .. Len(s), values)
  <2> HIDE DEF s, values
  <2> QED BY <1>1, <1>2 DEF Bijection, Injection, Surjection, IsInjective
<1>4. IsFiniteSet(1 .. Len(s)) /\ Cardinality(1 .. Len(s)) = Len(s)
  <2> HIDE DEF s
  <2>1. Len(s) \in Nat
    BY <1>1
  <2> QED BY <2>1, IntervalSize
<1>5. Cardinality(values) = Len(s)
  <2> HIDE DEF s, values
  <2>1. ExistsBijection(1 .. Len(s), values)
    BY <1>3 DEF ExistsBijection
  <2> QED BY <1>4, <2>1, FS_Bijection
<1>6. Len(s) <= Capacity
  <2>1. a \in Node /\ LinkTypes
    BY LiveNodes DEF TreeShape
  <2> QED BY <2>1, ChildrenMet DEF Met
<1> QED BY <1>5, <1>6

(***************************************************************************)
(* Each value of an array has one index from the front and one from the     *)
(* end, and no other index finds anything, whatever the client has done.    *)
(***************************************************************************)
THEOREM IndexesFindValues == Spec => []IndexFindsValue
<1>1. IInv => IndexFindsValue
  <2> SUFFICES ASSUME IInv, NEW a \in Live
               PROVE  LET values == {n \in Live : parent[n] = a}
                          size == Cardinality(values)
                          Index(n) == {i \in -Capacity .. Capacity : GetArrayValue(a, i) = n}
                      IN IF type[a] = "ARRAY"
                         THEN /\ \A n \in values : \E i \in 0 .. size - 1 : Index(n) = {i, i - size}
                              /\ Index(NIL) = {i \in -Capacity .. Capacity : i \notin -size .. size - 1}
                         ELSE Index(NIL) = -Capacity .. Capacity
    BY DEF IndexFindsValue
  <2> DEFINE s == Children(a)
             size == Len(s)
             values == {n \in Live : parent[n] = a}
             Index(n) == {i \in -Capacity .. Capacity : GetArrayValue(a, i) = n}
  <2>1. TreeShape /\ NIL \notin Live /\ Capacity \in Nat
    BY LiveNodes, CapacityAssumption DEF IInv, TreeShape
  <2>2. Cardinality(values) = size /\ size <= Capacity
    BY <2>1, ChildrenCounted
  <2>3. /\ size \in Nat
        /\ \A i \in 1 .. size : s[i] \in Live
        /\ \A i, j \in 1 .. size : s[i] = s[j] => i = j
        /\ \A n \in values : \E i \in 1 .. size : s[i] = n
    <3> HIDE DEF s
    <3>1. s = Children(a)
      BY DEF s
    <3> QED BY <2>1, <3>1, ChildrenFacts
  <2>4. ASSUME NEW i \in -Capacity .. Capacity
        PROVE  GetArrayValue(a, i) = IF type[a] # "ARRAY" THEN NIL
                                     ELSE IF i \in 0 .. size - 1 THEN s[i + 1]
                                     ELSE IF i \in -size .. -1 THEN s[size + i + 1]
                                     ELSE NIL
    <3>1. FromEnd(a, i) = IF i < 0 THEN size + i ELSE i
      BY DEF FromEnd, ArraySize
    <3>2. GetArrayValue(a, i) = IF type[a] = "ARRAY" /\ FromEnd(a, i) \in 0 .. size - 1
                                THEN s[FromEnd(a, i) + 1] ELSE NIL
      BY DEF GetArrayValue, ArraySize, ChildAt
    <3> HIDE DEF s
    <3>3. CASE i \in 0 .. size - 1
      BY <2>3, <3>1, <3>2, <3>3
    <3>4. CASE i \in -size .. -1
      BY <2>3, <3>1, <3>2, <3>4
    <3>5. CASE i \notin 0 .. size - 1 /\ i \notin -size .. -1
      BY <2>1, <2>3, <3>1, <3>2, <3>5
    <3> QED BY <2>3, <3>2, <3>3, <3>4, <3>5
  <2> HIDE DEF s
  <2>5. ASSUME type[a] # "ARRAY"
        PROVE  Index(NIL) = -Capacity .. Capacity
    BY <2>4, <2>5
  <2>6. ASSUME type[a] = "ARRAY"
        PROVE  Index(NIL) = {i \in -Capacity .. Capacity : i \notin -size .. size - 1}
    <3>1. ASSUME NEW i \in -Capacity .. Capacity
          PROVE  GetArrayValue(a, i) = NIL <=> i \notin -size .. size - 1
      <4>1. CASE i \in 0 .. size - 1
        <5>1. i + 1 \in 1 .. size
          BY <2>3, <4>1
        <5>2. GetArrayValue(a, i) = s[i + 1]
          BY <2>4, <2>6, <4>1
        <5> QED BY <2>1, <2>3, <4>1, <5>1, <5>2
      <4>2. CASE i \in -size .. -1
        <5>1. size + i + 1 \in 1 .. size /\ i \notin 0 .. size - 1
          BY <2>3, <4>2
        <5>2. GetArrayValue(a, i) = s[size + i + 1]
          BY <2>4, <2>6, <4>2, <5>1
        <5> QED BY <2>1, <2>3, <4>2, <5>1, <5>2
      <4>3. CASE i \notin 0 .. size - 1 /\ i \notin -size .. -1
        <5>1. GetArrayValue(a, i) = NIL
          BY <2>4, <2>6, <4>3
        <5> QED BY <2>1, <2>3, <4>3, <5>1
      <4> QED BY <4>1, <4>2, <4>3
    <3> QED BY <3>1
  <2>7. ASSUME type[a] = "ARRAY", NEW n \in values
        PROVE  \E i \in 0 .. size - 1 : Index(n) = {i, i - size}
    <3>1. PICK j \in 1 .. size : s[j] = n
      BY <2>3
    <3> DEFINE i == j - 1
    <3>2. i \in 0 .. size - 1 /\ i \in -Capacity .. Capacity /\ i - size \in -Capacity .. Capacity
      BY <2>1, <2>2, <2>3
    <3>3. n # NIL
      BY <2>1
    <3>4. ASSUME NEW x \in -Capacity .. Capacity
          PROVE  GetArrayValue(a, x) = n <=> x = i \/ x = i - size
      <4>1. CASE x \in 0 .. size - 1
        <5>1. x + 1 \in 1 .. size /\ (x + 1 = j <=> x = i) /\ x # i - size
          BY <2>3, <4>1
        <5>2. GetArrayValue(a, x) = s[x + 1]
          BY <2>4, <2>7, <4>1
        <5> QED BY <2>3, <3>1, <5>1, <5>2
      <4>2. CASE x \in -size .. -1
        <5>1. /\ size + x + 1 \in 1 .. size /\ (size + x + 1 = j <=> x = i - size) /\ x # i
              /\ x \notin 0 .. size - 1
          BY <2>3, <4>2
        <5>2. GetArrayValue(a, x) = s[size + x + 1]
          BY <2>4, <2>7, <4>2, <5>1
        <5> QED BY <2>3, <3>1, <5>1, <5>2
      <4>3. CASE x \notin 0 .. size - 1 /\ x \notin -size .. -1
        <5>1. GetArrayValue(a, x) = NIL
          BY <2>4, <2>7, <4>3
        <5>2. x # i /\ x # i - size
          BY <2>3, <3>2, <4>3
        <5> QED BY <3>3, <5>1, <5>2
      <4> QED BY <4>1, <4>2, <4>3
    <3> HIDE DEF i
    <3>5. Index(n) = {i, i - size}
      BY <3>2, <3>4
    <3> QED BY <3>2, <3>5
  <2> HIDE DEF size
  <2> QED BY <2>2, <2>5, <2>6, <2>7
<1> QED BY <1>1, TreeInvariant, PTL

----------------------------------------------------------------------------
(* A key is looked up by a path.                                            *)

(* The loop of jes_get_key, for the paths considered.                       *)
LEMMA ReachedByOne ==
  ASSUME NEW n, NEW k
  PROVE  Reached(n, <<k>>) = FindBelow(n, k)
<1> DEFINE f == [i \in 0 .. 1 |-> IF i = 0 THEN n ELSE FindBelow(n, k)]
           Loop(g) == g = [i \in 0 .. 1 |-> IF i = 0 THEN n ELSE FindBelow(g[i - 1], <<k>>[i])]
           at == CHOOSE g : Loop(g)
<1>1. \A i \in 0 .. 1 : f[i] = IF i = 0 THEN n ELSE FindBelow(f[i - 1], <<k>>[i])
  <2>1. f[0] = n /\ f[1] = FindBelow(n, k) /\ <<k>>[1] = k /\ 0 .. 1 = {0, 1} /\ 1 - 1 = 0
    OBVIOUS
  <2> HIDE DEF f
  <2> QED BY <2>1
<1>2. Loop(f)
  <2>1. f = [i \in 0 .. 1 |-> f[i]]
    OBVIOUS
  <2> HIDE DEF f
  <2> QED BY <1>1, <2>1
<1>3. Loop(at)
  <2> HIDE DEF f, Loop
  <2> QED BY <1>2
<1>4. Reached(n, <<k>>) = at[1]
  <2>1. Len(<<k>>) = 1
    OBVIOUS
  <2> QED BY <2>1 DEF Reached
<1> HIDE DEF at
<1>5. at[0] = n /\ at[1] = FindBelow(at[0], <<k>>[1]) /\ <<k>>[1] = k
  BY <1>3
<1> QED BY <1>4, <1>5

LEMMA ReachedByTwo ==
  ASSUME NEW n, NEW k1, NEW k2
  PROVE  Reached(n, <<k1, k2>>) = FindBelow(FindBelow(n, k1), k2)
<1> DEFINE path == <<k1, k2>>
           f == [i \in 0 .. 2 |-> IF i = 0 THEN n ELSE IF i = 1 THEN FindBelow(n, k1)
                                  ELSE FindBelow(FindBelow(n, k1), k2)]
           Loop(g) == g = [i \in 0 .. 2 |-> IF i = 0 THEN n ELSE FindBelow(g[i - 1], path[i])]
           at == CHOOSE g : Loop(g)
<1>1. \A i \in 0 .. 2 : f[i] = IF i = 0 THEN n ELSE FindBelow(f[i - 1], path[i])
  <2>1. /\ f[0] = n /\ f[1] = FindBelow(n, k1) /\ f[2] = FindBelow(FindBelow(n, k1), k2)
        /\ path[1] = k1 /\ path[2] = k2
    OBVIOUS
  <2>2. 0 .. 2 = {0, 1, 2} /\ 1 - 1 = 0 /\ 2 - 1 = 1
    OBVIOUS
  <2> HIDE DEF f, path
  <2> QED BY <2>1, <2>2
<1>2. Loop(f)
  <2>1. f = [i \in 0 .. 2 |-> f[i]]
    OBVIOUS
  <2> HIDE DEF f
  <2> QED BY <1>1, <2>1
<1>3. Loop(at)
  <2> HIDE DEF f, Loop
  <2> QED BY <1>2
<1>4. Reached(n, <<k1, k2>>) = at[2]
  <2>1. Len(<<k1, k2>>) = 2
    OBVIOUS
  <2> QED BY <2>1 DEF Reached
<1> HIDE DEF at
<1>5. at[0] = n /\ at[1] = FindBelow(at[0], path[1]) /\ path[1] = k1
  BY <1>3
<1>6. at[2] = FindBelow(at[1], path[2]) /\ path[2] = k2
  BY <1>3
<1> QED BY <1>4, <1>5, <1>6

(* And the way up from a key.                                               *)
IsKeyNamed(x, k) == x # NIL /\ type[x] = "KEY" /\ key[x] = k
InObject(x, n) ==
  /\ x # NIL /\ type[x] = "OBJECT"
  /\ n = IF type[n] = "KEY" THEN parent[x] ELSE x

(* What LiesAt asks of the l keys and objects around x.                     *)
Climbs(g, x, l) ==
  g = [i \in 0 .. l |->
         IF i = 0 THEN x
         ELSE LET object == parent[g[i - 1]] IN
              IF i = l THEN object ELSE IF object = NIL THEN NIL ELSE parent[object]]

LiesAround(x, n, path, l, enclosing) ==
  LET IsKey(i) == enclosing[i] # NIL /\ type[enclosing[i]] = "KEY"
  IN /\ \A i \in 0 .. l - 1 : IsKey(i) /\ key[enclosing[i]] = path[l - i]
     /\ enclosing[l] # NIL /\ type[enclosing[l]] = "OBJECT"
     /\ n = IF type[n] = "KEY" THEN parent[enclosing[l]] ELSE enclosing[l]

LEMMA LiesAtDef ==
  ASSUME NEW x, NEW n, NEW path
  PROVE  LiesAt(x, n, path)
           <=> LiesAround(x, n, path, Len(path), CHOOSE g : Climbs(g, x, Len(path)))
BY DEF LiesAt, LiesAround, Climbs

LEMMA LiesAtOne ==
  ASSUME NEW x, NEW n, NEW k
  PROVE  LiesAt(x, n, <<k>>) <=> IsKeyNamed(x, k) /\ InObject(parent[x], n)
<1> DEFINE Up(y, i) == LET object == parent[y] IN
                       IF i = 1 THEN object ELSE IF object = NIL THEN NIL ELSE parent[object]
           f == [i \in 0 .. 1 |-> IF i = 0 THEN x ELSE parent[x]]
           enclosing == CHOOSE g : Climbs(g, x, 1)
<1>1. \A i \in 0 .. 1 : f[i] = IF i = 0 THEN x ELSE Up(f[i - 1], i)
  <2>1. f[0] = x /\ f[1] = parent[x] /\ 0 .. 1 = {0, 1} /\ 1 - 1 = 0
    OBVIOUS
  <2> HIDE DEF f
  <2> QED BY <2>1
<1>2. Climbs(f, x, 1)
  <2>1. f = [i \in 0 .. 1 |-> f[i]]
    OBVIOUS
  <2> HIDE DEF f
  <2> QED BY <1>1, <2>1 DEF Climbs
<1>3. Climbs(enclosing, x, 1)
  <2> HIDE DEF f
  <2> QED BY <1>2
<1>4. LiesAt(x, n, <<k>>) <=> LiesAround(x, n, <<k>>, 1, enclosing)
  <2>1. Len(<<k>>) = 1
    OBVIOUS
  <2> HIDE DEF f
  <2> QED BY <2>1, LiesAtDef, Zenon
<1> HIDE DEF enclosing
<1>5. enclosing[0] = x /\ enclosing[1] = parent[x]
  BY <1>3 DEF Climbs
<1>6. 0 .. 1 - 1 = {0} /\ <<k>>[1 - 0] = k
  OBVIOUS
<1> QED BY <1>4, <1>5, <1>6 DEF IsKeyNamed, InObject, LiesAround

LEMMA LiesAtTwo ==
  ASSUME NEW x, NEW n, NEW k1, NEW k2
  PROVE  LiesAt(x, n, <<k1, k2>>) <=> /\ IsKeyNamed(x, k2) /\ parent[x] # NIL
                                      /\ IsKeyNamed(parent[parent[x]], k1)
                                      /\ InObject(parent[parent[parent[x]]], n)
<1> DEFINE path == <<k1, k2>>
           Up(y, i) == LET object == parent[y] IN
                       IF i = 2 THEN object ELSE IF object = NIL THEN NIL ELSE parent[object]
           first == IF parent[x] = NIL THEN NIL ELSE parent[parent[x]]
           f == [i \in 0 .. 2 |-> IF i = 0 THEN x ELSE IF i = 1 THEN first ELSE parent[first]]
           enclosing == CHOOSE g : Climbs(g, x, 2)
<1>1. \A i \in 0 .. 2 : f[i] = IF i = 0 THEN x ELSE Up(f[i - 1], i)
  <2>1. /\ f[0] = x /\ f[1] = first /\ f[2] = parent[first]
        /\ 0 .. 2 = {0, 1, 2} /\ 1 - 1 = 0 /\ 2 - 1 = 1
    OBVIOUS
  <2> HIDE DEF f
  <2> QED BY <2>1
<1>2. Climbs(f, x, 2)
  <2>1. f = [i \in 0 .. 2 |-> f[i]]
    OBVIOUS
  <2> HIDE DEF f
  <2> QED BY <1>1, <2>1 DEF Climbs
<1>3. Climbs(enclosing, x, 2)
  <2> HIDE DEF f
  <2> QED BY <1>2
<1>4. LiesAt(x, n, <<k1, k2>>) <=> LiesAround(x, n, path, 2, enclosing)
  <2>1. Len(<<k1, k2>>) = 2
    OBVIOUS
  <2> HIDE DEF f
  <2> QED BY <2>1, LiesAtDef, Zenon
<1> HIDE DEF enclosing
<1>5. enclosing[0] = x /\ enclosing[1] = first
  BY <1>3 DEF Climbs
<1>6. enclosing[2] = parent[first]
  BY <1>3, <1>5 DEF Climbs
<1>7. 0 .. 2 - 1 = {0, 1} /\ path[2 - 0] = k2 /\ path[2 - 1] = k1
  OBVIOUS
<1> QED BY <1>4, <1>5, <1>6, <1>7 DEF IsKeyNamed, InObject, LiesAround

(* The value of a key is its only child.                                    *)
LEMMA OnlyChild ==
  ASSUME PoolInv, TreeOK, NEW m \in Live, first_child[m] = last_child[m],
         NEW x \in Live, parent[x] = m
  PROVE  x = first_child[m]
<1> DEFINE S == {y \in Live : parent[y] = m /\ y # first_child[m]}
<1> SUFFICES ASSUME S # {} PROVE FALSE
  OBVIOUS
<1>1. NIL \notin Live
  BY LiveNodes
<1>2. PICK y \in S : \A z \in S : sibling[z] # y
  BY DEF TreeOK, Acyclic
<1>3. y \in Live /\ parent[y] = m /\ y # first_child[m] /\ y # NIL /\ m # NIL
  BY <1>1
<1>4. PICK z \in Live : sibling[z] = y
  BY <1>3 DEF TreeOK, SiblingsOK
<1>5. parent[z] = m
  BY <1>3, <1>4 DEF TreeOK, SiblingsOK
<1>6. z = first_child[m]
  BY <1>2, <1>4, <1>5
<1>7. sibling[z] = NIL
  BY <1>3, <1>5, <1>6 DEF TreeOK, SiblingsOK
<1> QED BY <1>3, <1>4, <1>7

(* One name leads from an object, or from the key of one, to the key of     *)
(* that name.                                                               *)
LEMMA FindBelowLemma ==
  ASSUME NamesInv, NEW m \in Live, NEW k \in Names
  PROVE  /\ FindBelow(m, k) \in Live \cup {NIL}
         /\ \A x \in Live : FindBelow(m, k) = x
                              <=> IsKeyNamed(x, k) /\ InObject(parent[x], m)
<1>1. /\ PoolInv /\ TreeOK /\ JsonShape /\ FindsKeys /\ NIL \notin Live /\ m # NIL
      /\ {parent[m], sibling[m], first_child[m], last_child[m]} \subseteq Live \cup {NIL}
  BY FindKeyLemma, LiveNodes DEF NamesInv, ShapeInv, Base, IInv, TreeShape, TreeOK, LinksLive
<1>2. \A x \in Live : type[x] = "KEY" =>
        parent[x] \in Live /\ parent[x] # NIL /\ type[parent[x]] = "OBJECT"
  <2> SUFFICES ASSUME NEW x \in Live, type[x] = "KEY"
               PROVE  parent[x] \in Live /\ parent[x] # NIL /\ type[parent[x]] = "OBJECT"
    OBVIOUS
  <2>1. {parent[x], sibling[x], first_child[x], last_child[x]} \subseteq Live \cup {NIL}
    BY <1>1 DEF TreeOK, LinksLive
  <2>2. parent[x] # NIL /\ type[parent[x]] = "OBJECT"
    BY <1>1 DEF JsonShape
  <2> QED BY <2>1, <2>2
<1>3. CASE type[m] # "KEY"
  <2>1. FindBelow(m, k) = FindKey(m, k)
    BY <1>1, <1>3 DEF FindBelow, StartOfSearch
  <2> QED BY <1>1, <1>2, <1>3, <2>1 DEF FindsKeys, IsKeyNamed, InObject
<1>4. CASE type[m] = "KEY"
  <2>1. FindBelow(m, k) = IF first_child[m] = NIL THEN NIL ELSE FindKey(first_child[m], k)
    BY <1>1, <1>4 DEF FindBelow, StartOfSearch
  <2>2. ASSUME NEW o \in Live
        PROVE  parent[o] = m <=> o = first_child[m]
    <3>1. parent[o] = m => o = first_child[m]
      BY <1>1, <1>4, OnlyChild DEF JsonShape
    <3>2. o = first_child[m] => parent[o] = m
      BY <1>1 DEF TreeOK, EndsOK
    <3> QED BY <3>1, <3>2
  <2>3. FindBelow(m, k) \in Live \cup {NIL}
    BY <1>1, <2>1 DEF FindsKeys
  <2>4. ASSUME NEW x \in Live
        PROVE  FindBelow(m, k) = x <=> IsKeyNamed(x, k) /\ InObject(parent[x], m)
    <3>1. FindBelow(m, k) = x
            <=> first_child[m] # NIL /\ type[x] = "KEY" /\ parent[x] = first_child[m] /\ key[x] = k
      BY <1>1, <2>1 DEF FindsKeys
    <3>2. type[x] = "KEY" => (parent[parent[x]] = m <=> parent[x] = first_child[m])
      BY <1>2, <2>2
    <3> QED BY <1>1, <1>2, <1>4, <3>1, <3>2 DEF IsKeyNamed, InObject
  <2> QED BY <2>3, <2>4
<1> QED BY <1>3, <1>4

LEMMA PathOfOne ==
  ASSUME NamesInv, NEW n \in Live, NEW k \in Names, NEW x \in Live
  PROVE  Reached(n, <<k>>) = x <=> LiesAt(x, n, <<k>>)
BY ReachedByOne, LiesAtOne, FindBelowLemma

LEMMA PathOfTwo ==
  ASSUME NamesInv, NEW n \in Live, NEW k1 \in Names, NEW k2 \in Names, NEW x \in Live
  PROVE  Reached(n, <<k1, k2>>) = x <=> LiesAt(x, n, <<k1, k2>>)
<1> DEFINE y == FindBelow(n, k1)
           z == parent[parent[x]]
<1>1. JsonShape /\ TreeOK /\ NIL \notin Live
  BY LiveNodes DEF NamesInv, ShapeInv, Base, IInv, TreeShape
<1>2. y \in Live \cup {NIL} /\ Reached(n, <<k1, k2>>) = FindBelow(y, k2)
  BY FindBelowLemma, ReachedByTwo
<1>3. FindBelow(NIL, k2) = NIL
  BY DEF FindBelow
<1>4. CASE type[x] # "KEY" \/ key[x] # k2
  <2>1. ~IsKeyNamed(x, k2)
    BY <1>4 DEF IsKeyNamed
  <2>2. ~LiesAt(x, n, <<k1, k2>>)
    BY <2>1, LiesAtTwo
  <2>3. Reached(n, <<k1, k2>>) # x
    BY <1>1, <1>2, <1>3, <2>1, FindBelowLemma
  <2> QED BY <2>2, <2>3
<1>5. CASE type[x] = "KEY" /\ key[x] = k2
  <2>1. parent[x] # NIL /\ parent[x] \in Live /\ type[parent[x]] = "OBJECT" /\ x # NIL
    <3>1. {parent[x], sibling[x], first_child[x], last_child[x]} \subseteq Live \cup {NIL}
      BY <1>1 DEF TreeOK, LinksLive
    <3> QED BY <1>1, <1>5, <3>1 DEF JsonShape
  <2>2. z \in Live \cup {NIL}
    <3> DEFINE o == parent[x]
    <3> HIDE DEF o
    <3>1. {parent[o], sibling[o], first_child[o], last_child[o]} \subseteq Live \cup {NIL}
      BY <1>1, <2>1 DEF TreeOK, LinksLive, o
    <3> QED BY <3>1 DEF o
  <2>3. LiesAt(x, n, <<k1, k2>>) <=> IsKeyNamed(z, k1) /\ InObject(parent[z], n)
    BY <1>5, <2>1, LiesAtTwo DEF IsKeyNamed
  <2>4. y = z /\ y # NIL <=> IsKeyNamed(z, k1) /\ InObject(parent[z], n)
    <3>1. CASE z \in Live
      BY <1>1, <3>1, FindBelowLemma
    <3>2. CASE z = NIL
      BY <3>2 DEF IsKeyNamed
    <3> QED BY <2>2, <3>1, <3>2
  <2>5. FindBelow(y, k2) = x <=> y = z /\ y # NIL
    <3>1. CASE y = NIL
      BY <1>1, <1>3, <3>1
    <3>2. CASE y \in Live
      <4>1. type[y] = "KEY"
        BY <3>2, FindBelowLemma DEF IsKeyNamed
      <4>2. FindBelow(y, k2) = x <=> IsKeyNamed(x, k2) /\ InObject(parent[x], y)
        BY <3>2, FindBelowLemma
      <4> QED BY <1>1, <1>5, <2>1, <3>2, <4>1, <4>2 DEF IsKeyNamed, InObject
    <3> QED BY <1>2, <3>1, <3>2
  <2> QED BY <1>2, <2>3, <2>4, <2>5
<1> QED BY <1>4, <1>5

(***************************************************************************)
(* A path of one or two names leads to a key exactly if the names of the    *)
(* keys around it are those of the path, in either search mode.             *)
(***************************************************************************)
THEOREM PathsFindKeys ==
  ASSUME {"grammar", "shallow_update"} \subseteq Rules, Hashed => "table_room" \in Rules
  PROVE  Spec => []PathFindsKey
<1>1. ASSUME NamesInv, NEW n \in Live, NEW p \in Path, type[n] \in {"OBJECT", "KEY"},
             NEW x \in Live
      PROVE  GetKey(n, PathOf(p)) = x <=> LiesAt(x, n, PathOf(p))
  <2>1. x # NIL
    BY <1>1, LiveNodes DEF NamesInv, ShapeInv, Base, IInv, TreeShape
  <2>2. GetKey(n, PathOf(p)) = Reached(n, PathOf(p))
    BY <1>1 DEF GetKey, GetKeyStatus
  <2>3. CASE p \in Names
    BY <1>1, <2>2, <2>3, PathOfOne DEF PathOf
  <2>4. CASE p \notin Names
    <3>1. PICK k1 \in Names, k2 \in Names : p = <<k1, k2>>
      BY <1>1, <2>4 DEF Path
    <3> QED BY <1>1, <2>2, <2>4, <3>1, PathOfTwo DEF PathOf
  <2> QED BY <2>3, <2>4
<1>2. ASSUME NEW n \in Live, NEW p \in Path, type[n] \notin {"OBJECT", "KEY"}
      PROVE  GetValue(n, PathOf(p)) = NIL
  BY <1>2 DEF GetValue, GetKey, GetKeyStatus
<1>3. NamesInv => PathFindsKey
  BY <1>1, <1>2 DEF PathFindsKey
<1> QED BY <1>3, NamesInvariant, PTL
============================================================================
