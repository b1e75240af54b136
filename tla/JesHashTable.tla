---------------------------- MODULE JesHashTable ---------------------------
(***************************************************************************)
(* The key table of jes_hash_table.c: open addressing, linear probing and   *)
(* tombstones.                                                              *)
(*                                                                         *)
(* A hash value stands for the pair (index of the parent object, key name)  *)
(* the code hashes with FNV-1a.  Entries are compared by hash and by text,  *)
(* and for one name FNV-1a gives different objects different hashes (each   *)
(* of its steps is a bijection, and the first four map the 16-bit indices   *)
(* one to one): two different pairs are never taken for each other.  They   *)
(* may share a home slot (hash % capacity), the constant function Home.     *)
(*                                                                         *)
(* The name in an entry is the one it was made with.  The code compares the *)
(* text that the node it points to has now, which is the same as long as no *)
(* entry outlives its key (EntriesCompareByText in JesTreeProofs).          *)
(***************************************************************************)
EXTENDS Integers, FiniteSets

CONSTANTS
  HashCapacity,     \* number of slots of the table
  HashValue,        \* the hash values of the keys considered
  Home,             \* Home[h]: the slot h is tried at first
  KeyNode,          \* the key nodes that entries point at
  NIL,              \* NULL, as a result
  EMPTY, TOMBSTONE  \* the two contents of a slot without an entry

Slot == 0 .. HashCapacity - 1
Entry == [hash : HashValue, key_element : KeyNode]

ASSUME HashCapacityAssumption == HashCapacity \in Nat \ {0}
ASSUME HomeAssumption == Home \in [HashValue -> Slot]
ASSUME SentinelAssumption ==
  EMPTY # TOMBSTONE /\ EMPTY \notin Entry /\ TOMBSTONE \notin Entry /\ NIL \notin KeyNode

VARIABLES
  slots,        \* the table
  entry_count   \* number of entries the code believes it holds

tableVars == <<slots, entry_count>>

HashInit ==
  /\ slots = [s \in Slot |-> EMPTY]
  /\ entry_count = 0

Occupied(s) == slots[s] \notin {EMPTY, TOMBSTONE}
Holds(s, h) == Occupied(s) /\ slots[s].hash = h

(* The slot tried after d others.                                           *)
Probe(h, d) == (Home[h] + d) % HashCapacity

First(D) == CHOOSE d \in D : \A e \in D : d <= e

(* How far jes_hash_table_find_key and _remove go before they meet h: past  *)
(* other entries and tombstones, never past an empty slot, at most once     *)
(* around the table.  No distance when they do not meet it.                 *)
FoundAtBeforeTombstone(h) ==      \* faulty: the search ends at a tombstone, too
  {d \in Slot : Holds(Probe(h, d), h) /\ \A e \in 0 .. d - 1 : Occupied(Probe(h, e))}

FoundAt(h) ==
  {d \in Slot : /\ Holds(Probe(h, d), h)
                /\ \A e \in 0 .. d - 1 : slots[Probe(h, e)] # EMPTY}

HashFind(h) ==
  IF FoundAt(h) = {} THEN NIL ELSE slots[Probe(h, First(FoundAt(h)))].key_element

(* Where jes_hash_table_add stops: at a slot without an entry, or at h.     *)
StopsAtEmptyOnly(h) ==            \* faulty: tombstones are not used again
  {d \in Slot : slots[Probe(h, d)] = EMPTY \/ Holds(Probe(h, d), h)}

StopsAtHomeOnly(h) ==             \* faulty: only one slot is tried
  {d \in {0} : ~Occupied(Probe(h, d)) \/ Holds(Probe(h, d), h)}

StopsAt(h) == {d \in Slot : ~Occupied(Probe(h, d)) \/ Holds(Probe(h, d), h)}

AddStatus(h) ==
  CASE StopsAt(h) = {} -> "OUT_OF_MEMORY"
    [] StopsAt(h) # {} /\ Holds(Probe(h, First(StopsAt(h))), h) -> "DUPLICATE_KEY"
    [] OTHER -> "NO_ERROR"

HashAdd(h, n) ==
  IF AddStatus(h) = "NO_ERROR"
  THEN /\ slots' = [slots EXCEPT ![Probe(h, First(StopsAt(h)))] =
                                   [hash |-> h, key_element |-> n]]
       /\ entry_count' = entry_count + 1
  ELSE UNCHANGED tableVars

HashRemoveEmpties(h) ==           \* faulty: the slot becomes empty
  IF FoundAt(h) # {}
  THEN /\ slots' = [slots EXCEPT ![Probe(h, First(FoundAt(h)))] = EMPTY]
       /\ entry_count' = entry_count - 1
  ELSE UNCHANGED tableVars

HashRemoveUncounted(h) ==         \* faulty: the entry is still counted
  IF FoundAt(h) # {}
  THEN /\ slots' = [slots EXCEPT ![Probe(h, First(FoundAt(h)))] = TOMBSTONE]
       /\ UNCHANGED entry_count
  ELSE UNCHANGED tableVars

HashRemove(h) ==
  IF FoundAt(h) # {}
  THEN /\ slots' = [slots EXCEPT ![Probe(h, First(FoundAt(h)))] = TOMBSTONE]
       /\ entry_count' = entry_count - 1
  ELSE UNCHANGED tableVars

HashReset ==
  /\ slots' = [s \in Slot |-> EMPTY]
  /\ entry_count' = 0

(***************************************************************************)
(* The table with its only client, jes_tree.c: a key is added when no key   *)
(* of its hash is found, and removed when its node is deleted, in the table *)
(* or not (a key that found the table full is in the tree all the same).    *)
(***************************************************************************)
HashNext ==
  \/ \E h \in HashValue, n \in KeyNode : HashFind(h) = NIL /\ HashAdd(h, n)
  \/ \E h \in HashValue : HashRemove(h)
  \/ HashReset

HashSpec == HashInit /\ [][HashNext]_tableVars

----------------------------------------------------------------------------

HashTypeOK ==
  /\ slots \in [Slot -> Entry \cup {EMPTY, TOMBSTONE}]
  /\ entry_count \in 0 .. HashCapacity

(***************************************************************************)
(* Every entry can be met: no slot between an entry's home and the entry    *)
(* ever becomes empty again, whatever was removed or reused in between.     *)
(***************************************************************************)
EntriesReachable ==
  \A s \in Slot : Occupied(s) =>
    \E d \in Slot : /\ Probe(slots[s].hash, d) = s
                    /\ \A e \in 0 .. d - 1 : slots[Probe(slots[s].hash, e)] # EMPTY

(***************************************************************************)
(* A key is in the table once: adding after a tombstone never leaves a      *)
(* second entry of the same key further down the probe sequence.            *)
(***************************************************************************)
EntriesUnique ==
  \A s, t \in Slot : Occupied(s) /\ Occupied(t) /\ slots[s].hash = slots[t].hash => s = t

(***************************************************************************)
(* entry_count counts the entries, so the assertion in the removal holds    *)
(* and a key is turned away only when every slot is taken.                  *)
(***************************************************************************)
EntriesCounted == entry_count = Cardinality({s \in Slot : Occupied(s)})

HashOK == EntriesReachable /\ EntriesUnique /\ EntriesCounted

Dictionary == INSTANCE JesKeyDictionary WITH
  dict <- [h \in {k \in HashValue : HashFind(k) # NIL} |-> HashFind(h)]

(***************************************************************************)
(* Slots, probe sequences and tombstones do not show through the three      *)
(* functions of the table: with them it is a dictionary, in which a lookup  *)
(* finds what was added last under the key, and a removal takes away one    *)
(* key and hides no other.                                                  *)
(***************************************************************************)
ImplementsDictionary == Dictionary!Spec

(***************************************************************************)
(* Tombstones use up no room: a key is turned away only when HashCapacity   *)
(* other keys are in the table, however many were added and removed before. *)
(***************************************************************************)
RoomIsUsable ==
  \A h \in HashValue :
    HashFind(h) = NIL /\ entry_count < HashCapacity => AddStatus(h) = "NO_ERROR"
============================================================================
