--------------------------- MODULE JesTreeDocument -------------------------
(***************************************************************************)
(* The tree of JesTree read as the document of JsonDocument, and what a     *)
(* client that keeps its rules can count on.                                *)
(***************************************************************************)
EXTENDS JesTree, SequencesExt

(* The nodes a deletion in progress has still to return: the target and     *)
(* what is left below it.  For the document they are already gone.          *)
Going ==
  LET down[n \in 0 .. Capacity] ==
        IF n = 0 THEN {target} ELSE down[n - 1] \cup {m \in Live : parent[m] \in down[n - 1]}
  IN IF target = NIL THEN {} ELSE down[Capacity]

Kept == Live \ Going

(* An element that is kept has at most one child that goes, the target.     *)
ChildSeq(p) == IF target = NIL THEN Children(p) ELSE RemoveFirst(Children(p), target)

Labels == [n \in Kept |-> [type |-> type[n], name |-> key[n]]]
ChildSeqs == [n \in Kept |-> ChildSeq(n)]

Document == INSTANCE JsonDocument WITH
  Id <- Node, Name <- Names, Size <- Capacity, NoName <- NIL,
  element <- Labels, children <- ChildSeqs, top <- {root} \cap Kept

(***************************************************************************)
(* The calls of jes.c implement the editing operations of the document:     *)
(* order, types and names are what the sequence of calls makes them, and a  *)
(* deletion takes away the subtree and nothing else, although the code      *)
(* takes it apart leaf by leaf and reuses its nodes.                        *)
(***************************************************************************)
ImplementsDocument == Document!Spec

(***************************************************************************)
(* The grammar of JSON holds in the tree: objects hold keys and only they   *)
(* do, a key has at most one value, a scalar nothing below it.              *)
(***************************************************************************)
JsonShape ==
  \A n \in Live :
    /\ type[n] = "KEY" <=> (parent[n] # NIL /\ type[parent[n]] = "OBJECT")
    /\ type[n] = "KEY" => first_child[n] = last_child[n]
    /\ type[n] = "SCALAR" => first_child[n] = NIL

(***************************************************************************)
(* No object has two keys of one name ("No duplicate keys in the same       *)
(* object are allowed", jes_tree_insert_key_node).                          *)
(***************************************************************************)
UniqueKeys ==
  \A m, n \in Live :
    type[m] = "KEY" /\ type[n] = "KEY" /\ parent[m] = parent[n] /\ key[m] = key[n] => m = n

(***************************************************************************)
(* The search mode makes no difference: in hashed mode the table finds, for *)
(* every object and name, the key the walk along the children finds.        *)
(***************************************************************************)
LookupAgrees ==
  Hashed => \A o \in Live, k \in Names :
              type[o] = "OBJECT" => FindKey(o, k) = LinearFind(o, k)

(***************************************************************************)
(* The key table holds no pointer to a node that was returned to the pool   *)
(* or became something else.                                                *)
(***************************************************************************)
EntriesCurrent ==
  Hashed => \A s \in Table!Slot : Table!Occupied(s) =>
    LET n == slots[s].key_element IN
      n \in Live /\ type[n] = "KEY" /\ slots[s].hash = <<parent[n], key[n]>>

(***************************************************************************)
(* What jes_get_root returns is an element: "Root element, or NULL if the   *)
(* tree is empty" (jes.h).                                                  *)
(***************************************************************************)
RootLive == root # NIL => root \in Live

(***************************************************************************)
(* Where a new element lands: a key right in front of, or right behind, the *)
(* key the caller names; a value or key that is added without a place       *)
(* behind all its siblings; a value added at an index right behind the      *)
(* element that jes_get_array_value has at that index, and behind all where *)
(* the index is past the end.                                               *)
(***************************************************************************)
LandsAsAsked ==
  [][\A n \in Live :
       Live' # Live =>
         /\ \A k \in Names : AddKeyBefore(n, k) => sibling'[NextNode] = n
         /\ \A k \in Names : AddKeyAfter(n, k) => sibling'[n] = NextNode
         /\ \A k \in Names : AddKey(n, k, TRUE) => sibling'[NextNode] = NIL
         /\ \A t \in ElementType : \A k \in NamesFor(t) :
              /\ AddElement(n, t, k, TRUE) => sibling'[NextNode] = NIL
              /\ AppendArrayValue(n, t, k) => sibling'[NextNode] = NIL
              /\ \A i \in Indices :
                   AddArrayValue(n, i, t, k) =>
                     LET at == IF FromEnd(n, i) < 0 THEN 0 ELSE FromEnd(n, i) IN
                       \/ at >= ArraySize(n) /\ sibling'[NextNode] = NIL
                       \/ at < ArraySize(n) /\ sibling'[ChildAt(n, at)] = NextNode]_vars
============================================================================
