--------------------------- MODULE MCJesHashTable --------------------------
(***************************************************************************)
(* An instance of the key table for TLC: more keys than slots, two of them  *)
(* at home in the last slot, so that their probe sequences run round the    *)
(* end of the table, two in the first, and one between.                     *)
(***************************************************************************)
EXTENDS JesHashTable

MCHome ==
  [h \in HashValue |-> IF h \in {"p", "q"} THEN HashCapacity - 1 ELSE IF h = "t" THEN 1 ELSE 0]
============================================================================
