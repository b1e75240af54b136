------------------------------ MODULE MCJesTree ----------------------------
(***************************************************************************)
(* Instances of the tree for TLC.                                           *)
(***************************************************************************)
EXTENDS JesNavigation

(* The last element, the first and the second, of arrays of up to three.    *)
MCIndices == {-1, 0, 1}

(* The worst case: all keys of an object have one home slot, and objects    *)
(* share theirs, too.                                                       *)
MCHome == [h \in Node \X Names |-> h[1] % HashCapacity]

(* There are buffers that jes_init divides like this.                       *)
Workspace == INSTANCE JesWorkspace
Mode == IF Hashed THEN "HASHED" ELSE "LINEAR"

ASSUME WorkspaceAssumption ==
  \E size \in 248 .. 500 :
    /\ Workspace!Initializes(size, Mode)
    /\ Workspace!NodeCapacity(size, Mode) = Capacity
    /\ Hashed => Workspace!TableCapacity(size) = HashCapacity
============================================================================
