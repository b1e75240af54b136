-------------------------- MODULE JesKeyDictionary -------------------------
(***************************************************************************)
(* What the key table promises to jes_tree.c: a dictionary from hash values *)
(* to key nodes that holds up to HashCapacity entries.  A key that does not *)
(* fit is left out; nothing else is ever forgotten or found by mistake.     *)
(***************************************************************************)
EXTENDS Naturals, FiniteSets

CONSTANTS HashValue, KeyNode, HashCapacity

VARIABLE dict   \* a function whose domain is the set of keys in the dictionary

Init == dict = <<>>

Add(h, n) ==
  /\ h \notin DOMAIN dict
  /\ Cardinality(DOMAIN dict) < HashCapacity
  /\ dict' = [k \in DOMAIN dict \cup {h} |-> IF k = h THEN n ELSE dict[k]]

Delete(h) == dict' = [k \in DOMAIN dict \ {h} |-> dict[k]]

Clear == dict' = <<>>

Next ==
  \/ \E h \in HashValue, n \in KeyNode : Add(h, n)
  \/ \E h \in HashValue : Delete(h)
  \/ Clear

Spec == Init /\ [][Next]_dict
============================================================================
