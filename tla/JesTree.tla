------------------------------- MODULE JesTree -----------------------------
(***************************************************************************)
(* The JSON tree of JES (jes_tree.c) and the calls of the library that      *)
(* change it (jes.c).  Nodes live in a pool and refer to each other by      *)
(* index: parent, next sibling, first and last child.                       *)
(*                                                                         *)
(* The library is single-threaded: a call runs to its end before the next   *)
(* one starts.  jes_tree_delete_node is a loop that takes leaves off one by *)
(* one, so the calls that use it take several steps here (pc tells where    *)
(* the call is) and every other call waits.  A call is made with elements   *)
(* that are in the tree, and with no NULL argument (such a call is turned   *)
(* away first thing).  A failed assert() ends the program (pc "aborted").   *)
(*                                                                         *)
(* Rules names the obligations the client keeps to; see Keeps below.        *)
(***************************************************************************)
EXTENDS JesNodePool

CONSTANTS
  Names,            \* key names
  Indices,          \* array indices the client passes (negative: from the end)
  Hashed,           \* search mode: JES_SEARCH_HASHED, else JES_SEARCH_LINEAR
  HashCapacity, Home, EMPTY, TOMBSTONE,    \* of the key table
  Rules

RuleNames == {"grammar", "keep_root", "table_room", "shallow_update", "spare_node", "in_range"}

ASSUME TreeAssumption == Hashed \in BOOLEAN /\ Indices \subseteq Int /\ Rules \subseteq RuleNames

ValueType == {"OBJECT", "ARRAY", "SCALAR"}      \* SCALAR: string, number, true, false, null
ElementType == ValueType \cup {"KEY"}

VARIABLES
  type, key,                                  \* what the elements are; key: the name of a KEY
  parent, sibling, first_child, last_child,   \* the links
  root,
  slots, entry_count,                         \* the key table
  status,                                     \* ctx->status
  pc,                                         \* the point a call is at
  target, cur,                                \* node and parent of jes_tree_delete_node
  call                                        \* what the call does after the deletion

nodeVars == <<type, key, parent, sibling, first_child, last_child>>
treeVars == <<nodeVars, root, poolVars>>
tableVars == <<slots, entry_count>>
callVars == <<target, cur, call>>
vars == <<treeVars, tableVars, status, pc, callVars>>

Table == INSTANCE JesHashTable WITH HashValue <- Node \X Names, KeyNode <- Node

NoCall == [op |-> "none", node |-> NIL, type |-> "UNKNOWN", name |-> NIL, valid |-> TRUE]

ASSUME NameAssumption == NIL \notin Names

ASSUME TableAssumption ==
  /\ HashCapacity \in Nat
  /\ Hashed => HashCapacity > 0 /\ Home \in [Node \X Names -> Table!Slot]
  /\ EMPTY # TOMBSTONE /\ EMPTY \notin Table!Entry /\ TOMBSTONE \notin Table!Entry

Init ==
  /\ PoolInit
  /\ type = [n \in Node |-> "UNKNOWN"]
  /\ key = [n \in Node |-> NIL]
  /\ parent = [n \in Node |-> NIL]
  /\ sibling = [n \in Node |-> NIL]
  /\ first_child = [n \in Node |-> NIL]
  /\ last_child = [n \in Node |-> NIL]
  /\ root = NIL
  /\ Table!HashInit
  /\ status = "NO_ERROR"
  /\ pc = "idle" /\ target = NIL /\ cur = NIL /\ call = NoCall

----------------------------------------------------------------------------
(* Walks along the sibling links.                                           *)

(* The children of p in order.                                              *)
Children(p) ==
  LET walk[k \in 0 .. Capacity] ==        \* the first k of them
        IF k = 0 THEN <<>>
        ELSE LET met == walk[k - 1]
                 next == IF met = <<>> THEN first_child[p] ELSE sibling[met[Len(met)]]
             IN IF next = NIL THEN met ELSE Append(met, next)
  IN walk[Capacity]

ArraySize(p) == Len(Children(p))

(* The i-th child of p, counted from 0.                                     *)
ChildAt(p, i) == Children(p)[i + 1]

(* The linear search finds nothing below an element that is not an OBJECT,  *)
(* and stops at the first child that is not a KEY.                          *)
LinearFind(p, k) ==
  LET c == Children(p)
      hits == {i \in DOMAIN c : /\ type[p] = "OBJECT" /\ key[c[i]] = k
                               /\ \A j \in 1 .. i : type[c[j]] = "KEY"}
  IN IF hits = {} THEN NIL ELSE c[Table!First(hits)]

FindKey(p, k) == IF Hashed THEN Table!HashFind(<<p, k>>) ELSE LinearFind(p, k)

----------------------------------------------------------------------------
(* Insertion: jes_tree_insert_node and jes_tree_insert_key_node.            *)

(* The new node as jes_allocate and the end of jes_tree_insert_node leave   *)
(* it; the links of the others are the three disjuncts of InsertNode.       *)
NewNode(n, t, k, p) ==
  /\ Allocate
  /\ type' = [type EXCEPT ![n] = t]
  /\ key' = [key EXCEPT ![n] = k]
  /\ parent' = [parent EXCEPT ![n] = p]

InsertRoot(t, k) ==
  LET n == NextNode IN
  /\ NewNode(n, t, k, NIL)
  /\ sibling' = [sibling EXCEPT ![n] = NIL]
  /\ first_child' = [first_child EXCEPT ![n] = NIL]
  /\ last_child' = [last_child EXCEPT ![n] = NIL]
  /\ root' = n

Prepend(p, t, k) ==
  LET n == NextNode IN
  /\ NewNode(n, t, k, p)
  /\ sibling' = [sibling EXCEPT ![n] = first_child[p]]
  /\ first_child' = [first_child EXCEPT ![n] = NIL, ![p] = n]
  /\ last_child' = [last_child EXCEPT ![n] = NIL,
                                      ![p] = IF first_child[p] = NIL THEN n ELSE @]
  /\ UNCHANGED root

InsertAfterKeepsLast(p, anchor, t, k) ==      \* faulty: last_child is not moved
  LET n == NextNode IN
  /\ NewNode(n, t, k, p)
  /\ sibling' = [sibling EXCEPT ![n] = sibling[anchor], ![anchor] = n]
  /\ first_child' = [first_child EXCEPT ![n] = NIL]
  /\ last_child' = [last_child EXCEPT ![n] = NIL]
  /\ UNCHANGED root

InsertAfter(p, anchor, t, k) ==
  LET n == NextNode IN
  /\ NewNode(n, t, k, p)
  /\ sibling' = [sibling EXCEPT ![n] = sibling[anchor], ![anchor] = n]
  /\ first_child' = [first_child EXCEPT ![n] = NIL]
  /\ last_child' = [last_child EXCEPT ![n] = NIL,
                                      ![p] = IF @ = anchor THEN n ELSE @]
  /\ UNCHANGED root

InsertNode(p, anchor, t, k) ==
  \/ p = NIL /\ InsertRoot(t, k)
  \/ p # NIL /\ anchor = NIL /\ Prepend(p, t, k)
  \/ p # NIL /\ anchor # NIL /\ InsertAfter(p, anchor, t, k)

Return(s) ==
  /\ pc' = "idle" /\ status' = s
  /\ target' = NIL /\ cur' = NIL /\ call' = NoCall

Refuse(s) == Return(s) /\ UNCHANGED <<treeVars, tableVars>>

(* An assert() of the code fails.                                           *)
Abort ==
  /\ pc' = "aborted"
  /\ UNCHANGED <<treeVars, tableVars, status, callVars>>

(* A value or an unregistered key is inserted, and the call returns.        *)
InsertAndReturn(p, anchor, t, k) ==
  \/ Full /\ Refuse("OUT_OF_MEMORY")
  \/ InsertNode(p, anchor, t, k) /\ Return("NO_ERROR") /\ UNCHANGED tableVars

LastChildFirst(p) == IF p = NIL THEN NIL ELSE first_child[p]    \* faulty

(* GET_LAST_CHILD: the last child counts only where there is a first one.   *)
LastChild(p) == IF p = NIL \/ first_child[p] = NIL THEN NIL ELSE last_child[p]

(* A key is inserted behind anchor, or in front without one.  The node      *)
(* stays in the tree, and is the result, even if the table has no room.     *)
InsertKeyAndReturn(object, anchor, k) ==
  \/ FindKey(object, k) # NIL /\ Refuse("DUPLICATE_KEY")
  \/ FindKey(object, k) = NIL /\ Full /\ Refuse("OUT_OF_MEMORY")
  \/ /\ FindKey(object, k) = NIL
     /\ InsertNode(object, anchor, "KEY", k)
     /\ IF Hashed
        THEN /\ Table!HashAdd(<<object, k>>, NextNode)
             /\ Return(Table!AddStatus(<<object, k>>))
        ELSE UNCHANGED tableVars /\ Return("NO_ERROR")

----------------------------------------------------------------------------
(* What the client keeps to.                                                *)

Keeps(rule, condition) == rule \in Rules => condition

(* The JSON grammar allows another child of type t under p.                 *)
Fits(p, t) ==
  /\ t # "KEY"
  /\ p # NIL => \/ type[p] = "ARRAY"
                \/ type[p] = "KEY" /\ first_child[p] = NIL

(* The key table still has a slot.                                          *)
TableRoom == Hashed => entry_count < HashCapacity

----------------------------------------------------------------------------
(* The calls that insert.                                                   *)

(* jes_add_element after its NULL and range checks.  valid: the text of a   *)
(* scalar or key passes the tokenizer.                                      *)
AddElementBody(p, t, k, valid) ==
  \/ ~valid /\ Refuse("INVALID_PARAMETER")
  \/ valid /\ InsertAndReturn(p, LastChild(p), t, k)

(* Only a KEY has a name of interest, only texts are validated.             *)
NamesFor(t) == IF t = "KEY" THEN Names ELSE {NIL}
ChecksFor(t) == IF t \in {"OBJECT", "ARRAY"} THEN {TRUE} ELSE BOOLEAN

AddElement(p, t, k, valid) ==
  /\ pc = "idle"
  /\ Keeps("grammar", Fits(p, t))
  /\ \/ p = NIL /\ root # NIL /\ Refuse("INVALID_PARAMETER")
     \/ (p # NIL \/ root = NIL) /\ AddElementBody(p, t, k, valid)

AddKey(p, k, valid) ==
  LET object == IF type[p] = "OBJECT" THEN p ELSE first_child[p] IN
  /\ pc = "idle"
  /\ Keeps("table_room", TableRoom)
  /\ \/ (type[p] \notin {"OBJECT", "KEY"} \/ ~valid) /\ Refuse("INVALID_PARAMETER")
     \/ /\ type[p] \in {"OBJECT", "KEY"} /\ valid
        /\ \/ /\ object # NIL /\ type[object] # "OBJECT"
              /\ Refuse("UNEXPECTED_ELEMENT")
           \/ /\ object # NIL /\ type[object] = "OBJECT"
              /\ InsertKeyAndReturn(object, LastChild(object), k)
           \/ /\ object = NIL /\ ~Full      \* first an OBJECT for the key without a value
              /\ InsertNode(p, NIL, "OBJECT", NIL)
              /\ pc' = "add_key"
              /\ call' = [NoCall EXCEPT !.op = "add_key", !.node = NextNode, !.name = k]
              /\ status' = "NO_ERROR"
              /\ UNCHANGED <<tableVars, target, cur>>
           \/ /\ object = NIL /\ Full       \* the search asserts on the missing OBJECT
              /\ Keeps("spare_node", FALSE)
              /\ Abort

AddKeyFinish ==
  /\ pc = "add_key"
  /\ InsertKeyAndReturn(call.node, NIL, call.name)

(* The asserts ask for an OBJECT around the key.                            *)
KeyInObject(k) == parent[k] # NIL /\ type[parent[k]] = "OBJECT"

(* The KEY in front of k, NIL if k is first.                                *)
LeftSibling(n) ==
  IF first_child[parent[n]] = n THEN NIL
  ELSE CHOOSE s \in Live : parent[s] = parent[n] /\ sibling[s] = n

(* The walk to n asserts that it meets only KEYs.                           *)
OnlyKeysTo(n) ==
  LET c == Children(parent[n])
  IN \E i \in DOMAIN c : c[i] = n /\ \A j \in 1 .. i : type[c[j]] = "KEY"

AddKeyBefore(n, k) ==
  /\ pc = "idle" /\ Keeps("table_room", TableRoom)
  /\ \/ type[n] # "KEY" /\ Refuse("INVALID_PARAMETER")
     \/ type[n] = "KEY" /\ ~(KeyInObject(n) /\ OnlyKeysTo(n)) /\ Abort
     \/ /\ type[n] = "KEY" /\ KeyInObject(n) /\ OnlyKeysTo(n)
        /\ InsertKeyAndReturn(parent[n], LeftSibling(n), k)

AddKeyAfter(n, k) ==
  /\ pc = "idle" /\ Keeps("table_room", TableRoom)
  /\ \/ type[n] # "KEY" /\ Refuse("INVALID_PARAMETER")
     \/ type[n] = "KEY" /\ ~KeyInObject(n) /\ Abort
     \/ type[n] = "KEY" /\ KeyInObject(n) /\ InsertKeyAndReturn(parent[n], n, k)

AppendAnyValue(a, t, k) ==    \* faulty: no check for an ARRAY
  pc = "idle" /\ Keeps("grammar", t # "KEY") /\ InsertAndReturn(a, LastChild(a), t, k)

(* The calls on arrays check the array only, neither the type nor the text  *)
(* of the value: a KEY is as good as any.                                   *)
AppendArrayValue(a, t, k) ==
  /\ pc = "idle" /\ Keeps("grammar", t # "KEY")
  /\ \/ type[a] # "ARRAY" /\ Refuse("INVALID_PARAMETER")
     \/ type[a] = "ARRAY" /\ InsertAndReturn(a, LastChild(a), t, k)

FromEndByOne(a, i) == IF i < 0 THEN ArraySize(a) + i - 1 ELSE i     \* faulty

(* A negative index counts from the end.                                    *)
FromEnd(a, i) == IF i < 0 THEN ArraySize(a) + i ELSE i

(* The child the walk stops at is the anchor, so the value lands behind it. *)
AddArrayValue(a, i, t, k) ==
  LET at == IF FromEnd(a, i) < 0 THEN 0 ELSE FromEnd(a, i) IN
  /\ pc = "idle" /\ Keeps("grammar", t # "KEY")
  /\ \/ type[a] # "ARRAY" /\ Refuse("INVALID_PARAMETER")
     \/ /\ type[a] = "ARRAY" /\ at >= ArraySize(a)
        /\ InsertAndReturn(a, LastChild(a), t, k)
     \/ /\ type[a] = "ARRAY" /\ at < ArraySize(a)
        /\ \E anchor \in Live : /\ parent[anchor] = a
                                /\ anchor = ChildAt(a, at)
                                /\ InsertAndReturn(a, anchor, t, k)

----------------------------------------------------------------------------
(* Deletion.  pc "search" is the head of the loop in jes_tree_delete_node,  *)
(* "leaf" the walk down in jes_get_leaf.                                    *)

StartDelete(n, then) ==
  /\ pc' = "search"
  /\ target' = n /\ cur' = n /\ call' = then
  /\ UNCHANGED <<treeVars, tableVars>>

(* jes_free.  The rest of a returned node is not read before jes_allocate   *)
(* sets it again, so the model drops it.                                    *)
Forget(n) ==
  /\ FreeNode(n)
  /\ type' = [type EXCEPT ![n] = "UNKNOWN"]
  /\ key' = [key EXCEPT ![n] = NIL]
  /\ parent' = [parent EXCEPT ![n] = NIL]

UnregisterTarget(n, p) ==     \* faulty: the keys below the target stay registered
  IF Hashed /\ type[n] = "KEY" /\ n = target
  THEN Table!HashRemove(<<p, key[n]>>) ELSE UNCHANGED tableVars

Unregister(n, p) ==
  IF Hashed /\ type[n] = "KEY" THEN Table!HashRemove(<<p, key[n]>>) ELSE UNCHANGED tableVars

(* What the caller does once the subtree is gone.                           *)
AfterDelete ==
  CASE call.op = "update_key_value" -> "add"
    [] call.op = "update_array_value" -> "retype"
    [] OTHER -> "idle"

GoDown(from) ==
  /\ pc = from /\ first_child[cur] # NIL
  /\ cur' = first_child[cur]
  /\ pc' = "leaf"
  /\ UNCHANGED <<treeVars, tableVars, status, target, call>>

GoToLeaf == GoDown("search") \/ GoDown("leaf")

RestartInPlace ==             \* faulty: the walk does not go back to the target
  /\ pc = "search" /\ first_child[cur] = NIL /\ cur # target
  /\ UNCHANGED <<treeVars, tableVars, status, pc, target, cur, call>>

(* No leaf below cur any more: start again from the target.                 *)
Restart ==
  /\ pc = "search" /\ first_child[cur] = NIL /\ cur # target
  /\ cur' = target
  /\ UNCHANGED <<treeVars, tableVars, status, pc, target, call>>

RemoveLinkedLeaf ==           \* faulty: the leaf is not detached
  /\ pc = "leaf" /\ first_child[cur] = NIL
  /\ Unregister(cur, parent[cur])
  /\ Forget(cur)
  /\ cur' = parent[cur]
  /\ pc' = "search"
  /\ UNCHANGED <<sibling, first_child, last_child, root, status, target, call>>

(* The leaf is the first child of its parent.                               *)
RemoveLeaf ==
  LET p == parent[cur] IN
  /\ pc = "leaf" /\ first_child[cur] = NIL
  /\ first_child' = [first_child EXCEPT ![p] = sibling[cur]]
  /\ last_child' = [last_child EXCEPT ![p] = IF first_child[p] = @ THEN NIL ELSE @]
  /\ sibling' = [sibling EXCEPT ![cur] = NIL]
  /\ Unregister(cur, p)
  /\ Forget(cur)
  /\ cur' = p
  /\ pc' = "search"
  /\ UNCHANGED <<root, status, target, call>>

(* root keeps its value even if it is the root that goes.                   *)
UnlinkFirst(n, p) ==
  /\ first_child' = [first_child EXCEPT ![p] = sibling[n]]
  /\ last_child' = [last_child EXCEPT ![p] = IF first_child[p] = @ THEN NIL ELSE @]
  /\ sibling' = [sibling EXCEPT ![n] = NIL]

UnlinkBehindKeepsLast(prev, n, p) ==      \* faulty: last_child is not moved back
  /\ sibling' = [sibling EXCEPT ![prev] = sibling[n], ![n] = NIL]
  /\ UNCHANGED <<first_child, last_child>>

UnlinkBehindCutsTail(prev, n, p) ==       \* faulty: the right neighbours are lost
  /\ sibling' = [sibling EXCEPT ![prev] = NIL, ![n] = NIL]
  /\ last_child' = [last_child EXCEPT ![p] = prev]
  /\ UNCHANGED first_child

UnlinkBehind(prev, n, p) ==
  /\ sibling' = [sibling EXCEPT ![prev] = sibling[n], ![n] = NIL]
  /\ last_child' = [last_child EXCEPT ![p] = IF @ = n THEN prev ELSE @]
  /\ UNCHANGED first_child

RemoveTarget ==
  LET p == parent[target] IN
  /\ pc = "search" /\ first_child[cur] = NIL /\ cur = target
  /\ ~(Hashed /\ type[target] = "KEY" /\ p = NIL)
  /\ \/ p = NIL /\ UNCHANGED <<sibling, first_child, last_child>>
     \/ p # NIL /\ LeftSibling(target) = NIL /\ UnlinkFirst(target, p)
     \/ p # NIL /\ LeftSibling(target) # NIL /\ UnlinkBehind(LeftSibling(target), target, p)
  /\ Unregister(target, p)
  /\ Forget(target)
  /\ pc' = AfterDelete
  /\ target' = NIL /\ cur' = NIL
  /\ call' = IF AfterDelete = "idle" THEN NoCall ELSE call
  /\ UNCHANGED <<root, status>>

(* A KEY that is the root has no parent object to be unregistered from.     *)
RemoveRootKey ==
  /\ pc = "search" /\ first_child[cur] = NIL /\ cur = target
  /\ Hashed /\ type[target] = "KEY" /\ parent[target] = NIL
  /\ Abort

DeleteStep == GoToLeaf \/ Restart \/ RemoveLeaf \/ RemoveTarget \/ RemoveRootKey

DeleteElement(n) ==
  /\ pc = "idle"
  /\ Keeps("keep_root", n # root)
  /\ StartDelete(n, [NoCall EXCEPT !.op = "delete_element"])
  /\ status' = "NO_ERROR"

----------------------------------------------------------------------------
(* The calls that replace a value.                                          *)

UpdateKeyValue(n, t, k, valid) ==
  /\ pc = "idle"
  /\ Keeps("grammar", type[n] = "KEY" /\ t # "KEY")
  /\ \/ first_child[n] = NIL /\ AddElementBody(n, t, k, valid)
     \/ /\ first_child[n] # NIL
        /\ StartDelete(first_child[n],
                       [op |-> "update_key_value", node |-> n, type |-> t,
                        name |-> k, valid |-> valid])
        /\ UNCHANGED status

UpdateKeyValueFinish ==
  /\ pc = "add"
  /\ AddElementBody(call.node, call.type, call.name, call.valid)

Retype(n, t, k) ==
  /\ type' = [type EXCEPT ![n] = t]
  /\ key' = [key EXCEPT ![n] = k]
  /\ Return("NO_ERROR")
  /\ UNCHANGED <<parent, sibling, first_child, last_child, root, poolVars, tableVars>>

(* Only the first child of the element is deleted.                          *)
UpdateElement(n, t, k) ==
  /\ Keeps("shallow_update", first_child[n] = last_child[n])
  /\ \/ first_child[n] = NIL /\ Retype(n, t, k)
     \/ /\ first_child[n] # NIL
        /\ StartDelete(first_child[n],
                       [op |-> "update_array_value", node |-> n, type |-> t,
                        name |-> k, valid |-> TRUE])
        /\ status' = "NO_ERROR"

UpdateArrayValue(a, i, t, k) ==
  LET at == FromEnd(a, i) IN
  /\ pc = "idle" /\ Keeps("grammar", t # "KEY")
  /\ \/ /\ \/ type[a] # "ARRAY"
           \/ ArraySize(a) = 0 \/ at < 0 \/ at > ArraySize(a)
        /\ Refuse("INVALID_PARAMETER")
     \/ /\ type[a] = "ARRAY" /\ ArraySize(a) > 0 /\ at = ArraySize(a)
        /\ Keeps("in_range", FALSE)
        /\ Abort
     \/ /\ type[a] = "ARRAY" /\ at \in 0 .. ArraySize(a) - 1
        /\ \E n \in Live : parent[n] = a /\ n = ChildAt(a, at) /\ UpdateElement(n, t, k)

UpdateArrayValueFinish ==
  /\ pc = "retype"
  /\ Retype(call.node, call.type, call.name)

ResetKeepsRoot ==             \* faulty: root is not cleared
  /\ ResetPool
  /\ UNCHANGED <<nodeVars, root>>
  /\ Table!HashReset

(* jes_partition_workspace, as jes_reset calls it: every element goes.      *)
ResetTree ==
  /\ ResetPool
  /\ type' = [n \in Node |-> "UNKNOWN"]
  /\ key' = [n \in Node |-> NIL]
  /\ parent' = [n \in Node |-> NIL]
  /\ sibling' = [n \in Node |-> NIL]
  /\ first_child' = [n \in Node |-> NIL]
  /\ last_child' = [n \in Node |-> NIL]
  /\ root' = NIL
  /\ Table!HashReset

Reset ==
  /\ pc = "idle"
  /\ ResetTree
  /\ Return("NO_ERROR")

Next ==
  \/ \E p \in Live \cup {NIL}, t \in ElementType :
        \E k \in NamesFor(t), valid \in ChecksFor(t) : AddElement(p, t, k, valid)
  \/ \E p \in Live, k \in Names, valid \in BOOLEAN : AddKey(p, k, valid)
  \/ AddKeyFinish
  \/ \E n \in Live, k \in Names : AddKeyBefore(n, k) \/ AddKeyAfter(n, k)
  \/ \E a \in Live, t \in ElementType : \E k \in NamesFor(t) : AppendArrayValue(a, t, k)
  \/ \E a \in Live, i \in Indices, t \in ElementType : \E k \in NamesFor(t) :
        AddArrayValue(a, i, t, k) \/ UpdateArrayValue(a, i, t, k)
  \/ \E n \in Live : DeleteElement(n)
  \/ \E n \in Live, t \in ElementType :
        \E k \in NamesFor(t), valid \in ChecksFor(t) : UpdateKeyValue(n, t, k, valid)
  \/ DeleteStep
  \/ UpdateKeyValueFinish
  \/ UpdateArrayValueFinish
  \/ Reset

Spec == Init /\ [][Next]_vars

(* A call that has started runs to its end.                                 *)
CallStep == DeleteStep \/ AddKeyFinish \/ UpdateKeyValueFinish \/ UpdateArrayValueFinish

FairSpec == Spec /\ WF_vars(CallStep)

----------------------------------------------------------------------------

Status == {"NO_ERROR", "INVALID_PARAMETER", "OUT_OF_MEMORY", "DUPLICATE_KEY", "UNEXPECTED_ELEMENT"}
Point == {"idle", "search", "leaf", "add", "retype", "add_key", "aborted"}
Link == Node \cup {NIL}
Call == [op : {"none", "delete_element", "update_key_value", "update_array_value", "add_key"},
         node : Link, type : ElementType \cup {"UNKNOWN"}, name : Names \cup {NIL},
         valid : BOOLEAN]

TypeOK ==
  /\ PoolTypeOK
  /\ type \in [Node -> ElementType \cup {"UNKNOWN"}]
  /\ key \in [Node -> Names \cup {NIL}]
  /\ parent \in [Node -> Link]
  /\ sibling \in [Node -> Link]
  /\ first_child \in [Node -> Link]
  /\ last_child \in [Node -> Link]
  /\ root \in Link
  /\ Table!HashTypeOK
  /\ status \in Status /\ pc \in Point
  /\ target \in Link /\ cur \in Link /\ call \in Call

(***************************************************************************)
(* No link of an element leads to a returned node: not after a deletion,    *)
(* and not in the middle of one.                                            *)
(***************************************************************************)
LinksLive ==
  \A n \in Live : {parent[n], sibling[n], first_child[n], last_child[n]} \subseteq Live \cup {NIL}

(* The first child has no left neighbour and the last no right one; both    *)
(* are there or neither.                                                    *)
EndsOK ==
  \A p \in Live :
    /\ first_child[p] = NIL <=> last_child[p] = NIL
    /\ first_child[p] # NIL =>
         /\ parent[first_child[p]] = p /\ parent[last_child[p]] = p
         /\ \A s \in Live : sibling[s] # first_child[p]

(* Siblings have one parent; only the last child has no right neighbour,    *)
(* only the first no left one, and nobody has two.                          *)
SiblingsOK ==
  \A n \in Live :
    /\ sibling[n] # NIL => parent[n] # NIL /\ parent[sibling[n]] = parent[n]
    /\ parent[n] # NIL => /\ sibling[n] = NIL <=> last_child[parent[n]] = n
                          /\ \/ first_child[parent[n]] = n
                             \/ \E s \in Live : sibling[s] = n
    /\ \A m \in Live : sibling[m] = sibling[n] /\ sibling[n] # NIL => m = n

(* Neither the sibling nor the parent links run in a circle: any set of     *)
(* elements has one whose left neighbour, and one whose parent, is outside. *)
Acyclic ==
  \A S \in SUBSET Live : S # {} =>
    /\ \E n \in S : \A m \in S : sibling[m] # n
    /\ \E n \in S : parent[n] \notin S

(* Only the root has no parent.  With Acyclic: every element is below it.   *)
OneRoot == \A n \in Live : parent[n] = NIL <=> n = root

(***************************************************************************)
(* The elements in use form one ordered tree: whatever is inserted and      *)
(* deleted in whatever order, and at every step of a deletion, no element   *)
(* is lost, shared between parents, or chained in a circle.  The loops of   *)
(* jes_tree_delete_node, jes_get_leaf and the iterators depend on it.       *)
(***************************************************************************)
TreeOK == LinksLive /\ EndsOK /\ SiblingsOK /\ Acyclic /\ OneRoot

(***************************************************************************)
(* A key's old value goes first and the new one is allocated after: that    *)
(* allocation always finds the room the deletion has made, so a full pool   *)
(* never costs the key its value.                                           *)
(***************************************************************************)
UpdateHasRoom == pc = "add" => ~Full

(***************************************************************************)
(* A deletion, started on its own or by an update, comes to its end: the    *)
(* loop that restarts from the target whenever a branch is used up does     *)
(* not restart for ever.                                                    *)
(***************************************************************************)
CallsReturn == pc \in {"search", "leaf", "add", "retype", "add_key"} ~> pc \in {"idle", "aborted"}

(***************************************************************************)
(* The pool sees nothing but its protocol from the tree: no node is         *)
(* returned that is not in use, on any path through the calls.              *)
(***************************************************************************)
KeepsPoolProtocol == PoolSpec
============================================================================
