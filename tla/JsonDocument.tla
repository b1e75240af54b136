----------------------------- MODULE JsonDocument --------------------------
(***************************************************************************)
(* What the tree promises to the user of the library: a JSON document whose *)
(* elements have a type, keys a name, and ordered children.  An editing     *)
(* call is one step, and so is the deletion of an element with everything   *)
(* below it.  At most Size elements; the names of an object are different.  *)
(***************************************************************************)
EXTENDS Naturals, Sequences, FiniteSets, SequencesExt

CONSTANTS Id, Name, Size, NoName

VARIABLES
  element,    \* the elements of the document: [type, name], by Id
  children,   \* the Ids of an element's children, in order
  top         \* the set of elements without a parent: one, or none

vars == <<element, children, top>>

ValueTypes == {"OBJECT", "ARRAY", "SCALAR"}

Init == element = <<>> /\ children = <<>> /\ top = {}

Elements == DOMAIN element
IsKey(e) == element[e].type = "KEY"
NamesIn(o) == {element[c].name : c \in ToSet(children[o])}

(* e and all elements below it.                                             *)
Below(e) ==
  LET down[n \in 0 .. Size] ==
        IF n = 0 THEN {e}
        ELSE down[n - 1] \cup UNION {ToSet(children[x]) : x \in down[n - 1]}
  IN down[Size]

Room == Cardinality(Elements) < Size

Label(t, k) == [type |-> t, name |-> k]

New(e, label) ==
  /\ Room
  /\ element' = [x \in Elements \cup {e} |-> IF x = e THEN label ELSE element[x]]

AddRoot(e, t) ==
  /\ top = {} /\ New(e, Label(t, NoName))
  /\ children' = [x \in Elements \cup {e} |-> IF x = e THEN <<>> ELSE children[x]]
  /\ top' = {e}

(* e becomes the child of p with i siblings before it.                      *)
AddChild(p, i, e, label) ==
  /\ New(e, label)
  /\ children' = [x \in Elements \cup {e} |->
                    IF x = e THEN <<>>
                    ELSE IF x = p THEN InsertAt(children[p], i + 1, e) ELSE children[x]]
  /\ UNCHANGED top

(* A key anywhere in an object, a value anywhere in an array or as the      *)
(* only value of a key.                                                     *)
AddKey(o, i, e, k) ==
  /\ element[o].type = "OBJECT" /\ k \notin NamesIn(o)
  /\ AddChild(o, i, e, Label("KEY", k))

AddValue(p, i, e, t) ==
  /\ \/ element[p].type = "ARRAY"
     \/ IsKey(p) /\ children[p] = <<>>
  /\ AddChild(p, i, e, Label(t, NoName))

Delete(e) ==
  LET rest == Elements \ Below(e) IN
  /\ element' = [x \in rest |-> element[x]]
  /\ children' = [x \in rest |-> RemoveFirst(children[x], e)]
  /\ top' = top \ {e}

(* An element without children becomes another value.                       *)
Replace(e, t) ==
  /\ ~IsKey(e) /\ children[e] = <<>>
  /\ element' = [element EXCEPT ![e] = Label(t, NoName)]
  /\ UNCHANGED <<children, top>>

Clear == element' = <<>> /\ children' = <<>> /\ top' = {}

(* A call that is refused changes nothing.                                  *)
Refused == UNCHANGED vars

Next ==
  \/ Refused
  \/ \E e \in (Id \ Elements) \cap DOMAIN element' :
        \/ \E t \in ValueTypes : AddRoot(e, t)
        \/ \E p \in Elements : \E i \in 0 .. Len(children[p]) :
              \/ \E k \in Name : AddKey(p, i, e, k)
              \/ \E t \in ValueTypes : AddValue(p, i, e, t)
  \/ \E e \in Elements \ DOMAIN element' : Delete(e)
  \/ \E e \in Elements, t \in ValueTypes : Replace(e, t)
  \/ Clear

Spec == Init /\ [][Next]_vars
============================================================================
