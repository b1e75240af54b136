---------------------------- MODULE MCJesParser ---------------------------
(***************************************************************************)
(* Instances of the parser and the serializer for TLC.                      *)
(***************************************************************************)
EXTENDS JesSerializer

MCHome == [h \in Node \X Names |-> h[1] % HashCapacity]

(* There are buffers that jes_init divides like this.                       *)
Workspace == INSTANCE JesWorkspace

ASSUME WorkspaceAssumption ==
  \E size \in 248 .. 500 :
    /\ Workspace!Initializes(size, "HASHED")
    /\ Workspace!NodeCapacity(size, "HASHED") = Capacity
    /\ Workspace!TableCapacity(size) = HashCapacity
============================================================================
