----------------------------- MODULE JesWorkspace --------------------------
(***************************************************************************)
(* How jes_init and jes_reset divide the caller's buffer: the context, the  *)
(* node pool and, in hashed mode, the key table (jes_partition_workspace,   *)
(* jes_tree_init, jes_hash_table_resize).  These are the capacities that    *)
(* JesNodePool and JesHashTable have as constants.                          *)
(*                                                                         *)
(* The numbers are those of the default build for 64-bit machines, with     *)
(* 16-bit node indices.  Addresses count from the start of the buffer,      *)
(* which has to be aligned (jes_init asserts it).                           *)
(***************************************************************************)
EXTENDS Integers

ContextSize == 248               \* JES_CONTEXT_SIZE
NodeSize == 24                   \* JES_NODE_SIZE
EntrySize == 16                  \* sizeof(struct jes_hash_entry)
Alignment == 8                   \* JES_ALIGNMENT
NodePoolPercent == 75            \* JES_WORKSPACE_NODE_POOL_PERCENT
InvalidIndex == 65535            \* JES_INVALID_INDEX: "no node"

(* JES_ALIGN_PTR.                                                           *)
Aligned(a) == ((a + Alignment - 1) \div Alignment) * Alignment

(* The workspace without the context.                                       *)
Rest(size) == size - ContextSize

NodePoolSize(size, mode) ==
  IF mode = "LINEAR" THEN Rest(size) ELSE (Rest(size) * NodePoolPercent) \div 100

Limited(count) == IF count < InvalidIndex THEN count ELSE InvalidIndex - 1

NodeCapacity(size, mode) == Limited(NodePoolSize(size, mode) \div NodeSize)

(* The key table is what is left behind the node pool.                      *)
TableStart(size) == Aligned(ContextSize + NodePoolSize(size, "HASHED"))
TableSize(size) == size - TableStart(size)
TableCapacity(size) == Limited(TableSize(size) \div EntrySize)

(* jes_init returns the context or NULL, unless the assertion on the start  *)
(* of the key table fails.                                                  *)
TableAsserts(size, mode) == mode = "HASHED" /\ size >= ContextSize /\ TableStart(size) >= size

TooSmall(size, mode) ==
  \/ size < ContextSize
  \/ NodeCapacity(size, mode) = 0
  \/ mode = "HASHED" /\ TableCapacity(size) = 0

Initializes(size, mode) == ~TableAsserts(size, mode) /\ ~TooSmall(size, mode)

(* JES_REQUIRED_SIZE.                                                       *)
RequiredSize(nodes) == ContextSize + nodes * NodeSize
============================================================================
