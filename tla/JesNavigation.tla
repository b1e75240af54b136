---------------------------- MODULE JesNavigation --------------------------
(***************************************************************************)
(* The calls of jes.c that look an element up and change nothing but the    *)
(* status: jes_get_key and jes_get_value on a path of names, and            *)
(* jes_get_array_value on an index from either end.                         *)
(***************************************************************************)
EXTENDS JesTreeDocument

(* A path is found name by name: from a KEY the search is in its value.     *)
StartOfSearchAtKey(n) == n               \* faulty: in the KEY itself
StartOfSearch(n) == IF type[n] = "KEY" THEN first_child[n] ELSE n

(* One name of the path.  At a KEY without a value the search finds nothing *)
(* if assertions are off; it is an assertion that fails there if they are   *)
(* on.                                                                      *)
FindBelow(m, name) ==
  IF m = NIL \/ StartOfSearch(m) = NIL THEN NIL ELSE FindKey(StartOfSearch(m), name)

(* The element the loop of jes_get_key is at behind the names of path.      *)
Reached(n, path) ==
  LET at[i \in 0 .. Len(path)] == IF i = 0 THEN n ELSE FindBelow(at[i - 1], path[i])
  IN at[Len(path)]

GetKeyStatus(n, path) ==
  CASE type[n] \notin {"OBJECT", "KEY"} -> "INVALID_PARAMETER"
    [] type[n] \in {"OBJECT", "KEY"} /\ Reached(n, path) = NIL -> "ELEMENT_NOT_FOUND"
    [] OTHER -> "NO_ERROR"

GetKey(n, path) == IF GetKeyStatus(n, path) = "NO_ERROR" THEN Reached(n, path) ELSE NIL

GetValue(n, path) ==
  IF GetKey(n, path) = NIL THEN NIL ELSE first_child[GetKey(n, path)]

GetArrayValue(a, i) ==
  IF type[a] = "ARRAY" /\ FromEnd(a, i) \in 0 .. ArraySize(a) - 1
  THEN ChildAt(a, FromEnd(a, i)) ELSE NIL

----------------------------------------------------------------------------

Path == Names \cup (Names \X Names)
PathOf(p) == IF p \in Names THEN <<p>> ELSE p

(* x is the key at the path below n: the names on the way up from x, from   *)
(* key to enclosing key, are those of the path, read from its end.          *)
LiesAt(x, n, path) ==
  LET l == Len(path)
      enclosing[i \in 0 .. l] ==          \* x, the value it is in, that value's key, ...
        IF i = 0 THEN x
        ELSE LET object == parent[enclosing[i - 1]] IN
             IF i = l THEN object ELSE IF object = NIL THEN NIL ELSE parent[object]
      IsKey(i) == enclosing[i] # NIL /\ type[enclosing[i]] = "KEY"
  IN /\ \A i \in 0 .. l - 1 : IsKey(i) /\ key[enclosing[i]] = path[l - i]
     /\ enclosing[l] # NIL /\ type[enclosing[l]] = "OBJECT"
     /\ n = IF type[n] = "KEY" THEN parent[enclosing[l]] ELSE enclosing[l]

(***************************************************************************)
(* A path leads to a key exactly if the names of the keys around it say so, *)
(* in hashed mode, too, where the walk never looks at the children: a key   *)
(* table entry of a deleted object, or one under another element's number,  *)
(* would be found in the middle of a path.                                  *)
(***************************************************************************)
PathFindsKey ==
  pc = "idle" => \A n \in Live, p \in Path :
    LET path == PathOf(p) IN
    IF type[n] \in {"OBJECT", "KEY"}
    THEN \A x \in Live : GetKey(n, path) = x <=> LiesAt(x, n, path)
    ELSE GetValue(n, path) = NIL

(***************************************************************************)
(* Each value of an array has one index from the front and one from the     *)
(* end, and no other index finds anything: the sibling links jes_get_array_ *)
(* value follows have every element that names the array as its parent.     *)
(***************************************************************************)
IndexFindsValue ==
  pc = "idle" => \A a \in Live :
    LET values == {n \in Live : parent[n] = a}
        size == Cardinality(values)
        Index(n) == {i \in -Capacity .. Capacity : GetArrayValue(a, i) = n}
    IN IF type[a] = "ARRAY"
       THEN /\ \A n \in values : \E i \in 0 .. size - 1 : Index(n) = {i, i - size}
            /\ Index(NIL) = {i \in -Capacity .. Capacity : i \notin -size .. size - 1}
       ELSE Index(NIL) = -Capacity .. Capacity
============================================================================
