------------------------- MODULE JesHashTableProofs ------------------------
(***************************************************************************)
(* Proofs about the key table, for a table of any size, any set of keys and *)
(* any home function: its entries stay reachable, unique and counted, no    *)
(* room is lost, and it implements a dictionary.  At the end, how large the *)
(* table is: what holds of the division of the workspace, for buffers of    *)
(* every size.                                                              *)
(***************************************************************************)
EXTENDS JesHashTable, JesWorkspace, FiniteSetTheorems, WellFoundedInduction, TLAPS

Taken == {s \in Slot : Occupied(s)}

SlotsTypeOK ==
  /\ slots \in [Slot -> Entry \cup {EMPTY, TOMBSTONE}]
  /\ entry_count \in Nat

(* The inductive invariant.                                                 *)
TableInv == SlotsTypeOK /\ HashOK

(* A set of distances that is not empty has a least one.                    *)
LEMMA FirstLemma ==
  ASSUME NEW D, D \subseteq Slot, D # {}
  PROVE  First(D) \in D /\ \A e \in D : First(D) <= e
<1>1. D \subseteq Nat
  BY HashCapacityAssumption DEF Slot
<1>2. PICK d \in D : \A e \in D : ~(<<e, d>> \in OpToRel(<, Nat))
  BY <1>1, NatLessThanWellFounded, WFMin
<1>3. \A e \in D : ~(e < d)
  BY <1>1, <1>2, Zenon DEF OpToRel
<1>4. \A e \in D : d <= e
  BY <1>1, <1>3
<1> QED BY <1>4 DEF First

(* Probing stays in the table ...                                           *)
LEMMA ProbeInTable ==
  ASSUME NEW h \in HashValue, NEW d \in Slot
  PROVE  Probe(h, d) \in Slot
<1>1. Home[h] \in Slot
  BY HomeAssumption
<1> QED BY <1>1, HashCapacityAssumption DEF Probe, Slot

(* ... and leaves out no slot.                                              *)
LEMMA ProbeAll ==
  ASSUME NEW h \in HashValue, NEW s \in Slot
  PROVE  \E d \in Slot : Probe(h, d) = s
<1>1. /\ Home[h] \in Int /\ 0 <= Home[h] /\ Home[h] < HashCapacity
      /\ s \in Int /\ 0 <= s /\ s < HashCapacity
      /\ HashCapacity \in Nat
  BY HomeAssumption, HashCapacityAssumption DEF Slot
<1>2. CASE Home[h] <= s
  <2>1. s - Home[h] \in Slot
    BY <1>1, <1>2 DEF Slot
  <2>2. Home[h] + (s - Home[h]) = s /\ s % HashCapacity = s
    BY <1>1
  <2> QED BY <2>1, <2>2 DEF Probe
<1>3. CASE s < Home[h]
  <2> DEFINE d == s - Home[h] + HashCapacity
  <2>1. d \in Slot
    BY <1>1, <1>3 DEF Slot
  <2>2. Home[h] + d = s + HashCapacity
    BY <1>1
  <2>3. (s + HashCapacity) % HashCapacity = s
    BY <1>1
  <2> QED BY <2>1, <2>2, <2>3 DEF Probe
<1> QED BY <1>1, <1>2, <1>3

LEMMA TakenFinite ==
  /\ IsFiniteSet(Taken)
  /\ IsFiniteSet(Slot)
  /\ Cardinality(Slot) = HashCapacity
<1>1. IsFiniteSet(Slot) /\ Cardinality(Slot) = HashCapacity
  BY HashCapacityAssumption, FS_Interval DEF Slot
<1>2. Taken \in SUBSET Slot
  BY DEF Taken
<1> QED BY <1>1, <1>2, FS_Subset

(* What the search meets is what is in the table: it finds the entry of a  *)
(* key when there is one, and nothing otherwise.                            *)
Met(h) == Probe(h, First(FoundAt(h)))

FindsEntries ==
  \A h \in HashValue :
    /\ \A s \in Slot : Holds(s, h) => /\ FoundAt(h) # {}
                                     /\ Met(h) = s
                                     /\ HashFind(h) = slots[s].key_element
                                     /\ HashFind(h) \in KeyNode
    /\ FoundAt(h) # {} => Met(h) \in Slot /\ Holds(Met(h), h)
    /\ HashFind(h) = NIL <=> FoundAt(h) = {}

LEMMA FindLemma == TableInv => FindsEntries
<1> SUFFICES ASSUME TableInv, NEW h \in HashValue
             PROVE  /\ \A s \in Slot : Holds(s, h) =>
                                       /\ FoundAt(h) # {}
                                       /\ Met(h) = s
                                       /\ HashFind(h) = slots[s].key_element
                                       /\ HashFind(h) \in KeyNode
                    /\ FoundAt(h) # {} => Met(h) \in Slot /\ Holds(Met(h), h)
                    /\ HashFind(h) = NIL <=> FoundAt(h) = {}
  BY DEF FindsEntries
<1>1. FoundAt(h) # {} => Met(h) \in Slot /\ Holds(Met(h), h)
  <2>1. FoundAt(h) \subseteq Slot
    BY DEF FoundAt
  <2>2. FoundAt(h) # {} => First(FoundAt(h)) \in FoundAt(h)
    BY <2>1, FirstLemma
  <2> QED BY <2>1, <2>2, ProbeInTable DEF FoundAt, Met
<1>2. ASSUME NEW s \in Slot, Holds(s, h)
      PROVE  /\ FoundAt(h) # {}
             /\ Met(h) = s
             /\ HashFind(h) = slots[s].key_element
             /\ HashFind(h) \in KeyNode
  <2>1. slots[s] \in Entry /\ Occupied(s) /\ slots[s].hash = h
    BY <1>2 DEF TableInv, SlotsTypeOK, Holds, Occupied
  <2>2. FoundAt(h) # {}
    BY <1>2, <2>1 DEF TableInv, HashOK, EntriesReachable, FoundAt
  <2>3. Met(h) = s
    BY <1>1, <2>1, <2>2 DEF TableInv, HashOK, EntriesUnique, Holds
  <2> QED BY <2>1, <2>2, <2>3 DEF HashFind, Entry, Met
<1>3. FoundAt(h) # {} => HashFind(h) \in KeyNode
  BY <1>1, <1>2
<1> QED BY <1>1, <1>2, <1>3, SentinelAssumption DEF HashFind

(* The next state's search finds the next state's entries.                  *)
LEMMA FindLemmaPrime == TableInv' => FindsEntries'
BY FindLemma, PTL

(* A key that is not in the table is stored in a slot without an entry, or  *)
(* nothing happens at all.                                                  *)
LEMMA AddLemma ==
  ASSUME TableInv, NEW h \in HashValue, NEW n \in KeyNode, HashFind(h) = NIL, HashAdd(h, n)
  PROVE  \/ UNCHANGED tableVars
         \/ /\ TableInv'
            /\ entry_count < HashCapacity
            /\ \E s \in Slot :
                 /\ ~Occupied(s)
                 /\ slots' = [slots EXCEPT ![s] = [hash |-> h, key_element |-> n]]
<1> DEFINE d == First(StopsAt(h))
           s == Probe(h, d)
           entry == [hash |-> h, key_element |-> n]
<1>1. CASE AddStatus(h) # "NO_ERROR"
  BY <1>1 DEF HashAdd
<1>2. CASE AddStatus(h) = "NO_ERROR"
  <2>1. StopsAt(h) # {} /\ ~Holds(s, h)
    BY <1>2 DEF AddStatus
  <2>2. d \in StopsAt(h) /\ \A e \in StopsAt(h) : d <= e
    BY <2>1, FirstLemma DEF StopsAt
  <2>3. d \in Slot /\ s \in Slot /\ ~Occupied(s)
    BY <2>1, <2>2, ProbeInTable DEF StopsAt
  <2>4. /\ slots' = [slots EXCEPT ![s] = entry]
        /\ entry_count' = entry_count + 1
    BY <1>2 DEF HashAdd
  <2>5. entry \in Entry /\ entry # EMPTY /\ entry # TOMBSTONE /\ entry.hash = h
    BY SentinelAssumption DEF Entry
  <2> HIDE DEF d, s, entry
  <2>6. /\ slots \in [Slot -> Entry \cup {EMPTY, TOMBSTONE}]
        /\ slots'[s] = entry
        /\ \A t \in Slot \ {s} : slots'[t] = slots[t]
    BY <2>3, <2>4 DEF TableInv, SlotsTypeOK
  <2>7. SlotsTypeOK'
    BY <2>3, <2>4, <2>5 DEF TableInv, SlotsTypeOK
  <2>8. EntriesReachable'
    <3>1. \A e \in 0 .. d - 1 : slots[Probe(h, e)] # EMPTY /\ Probe(h, e) \in Slot
      <4> SUFFICES ASSUME NEW e \in 0 .. d - 1
                   PROVE  slots[Probe(h, e)] # EMPTY /\ Probe(h, e) \in Slot
        OBVIOUS
      <4>1. e \in Slot /\ e < d
        BY <2>3, HashCapacityAssumption DEF Slot
      <4>2. e \notin StopsAt(h)
        BY <2>2, <2>3, <4>1 DEF Slot
      <4> QED BY <4>1, <4>2, ProbeInTable DEF StopsAt, Occupied
    <3>2. \A t \in Slot : slots[t] # EMPTY => slots'[t] # EMPTY
      BY <2>5, <2>6
    <3> SUFFICES ASSUME NEW t \in Slot, Occupied(t)'
                 PROVE  \E c \in Slot :
                          /\ Probe(slots'[t].hash, c) = t
                          /\ \A e \in 0 .. c - 1 : slots'[Probe(slots'[t].hash, e)] # EMPTY
      BY DEF EntriesReachable, Probe
    <3>3. CASE t = s
      BY <2>3, <2>5, <2>6, <3>1, <3>2, <3>3 DEF s
    <3>4. CASE t # s
      <4>1. Occupied(t) /\ slots'[t] = slots[t] /\ slots[t].hash \in HashValue
        BY <2>6, <3>4 DEF Occupied, Entry
      <4>2. PICK c \in Slot :
              /\ Probe(slots[t].hash, c) = t
              /\ \A e \in 0 .. c - 1 : slots[Probe(slots[t].hash, e)] # EMPTY
        BY <4>1 DEF TableInv, HashOK, EntriesReachable
      <4>3. \A e \in 0 .. c - 1 : Probe(slots[t].hash, e) \in Slot
        BY <4>1, ProbeInTable, HashCapacityAssumption DEF Slot
      <4> QED BY <3>2, <4>1, <4>2, <4>3
    <3> QED BY <3>3, <3>4
  <2>9. EntriesUnique'
    <3>1. \A t \in Slot : Occupied(t) => slots[t].hash # h
      BY FindLemma DEF FindsEntries, Holds
    <3>2. \A t \in Slot \ {s} : Occupied(t)' => Occupied(t)
      BY <2>6 DEF Occupied
    <3> QED BY <2>5, <2>6, <3>1, <3>2 DEF TableInv, HashOK, EntriesUnique
  <2>10. Taken' = Taken \cup {s}
    BY <2>3, <2>5, <2>6 DEF Taken, Occupied
  <2>11. s \notin Taken /\ entry_count = Cardinality(Taken)
    BY <2>3 DEF Taken, TableInv, HashOK, EntriesCounted
  <2>12. EntriesCounted'
    <3>1. entry_count' = Cardinality(Taken')
      BY <2>4, <2>10, <2>11, TakenFinite, FS_AddElement
    <3> QED BY <3>1 DEF EntriesCounted, Taken
  <2>13. entry_count < HashCapacity
    <3>1. Cardinality(Taken \cup {s}) = entry_count + 1
      BY <2>11, TakenFinite, FS_AddElement
    <3>2. Taken \cup {s} \in SUBSET Slot
      BY <2>3 DEF Taken
    <3>3. entry_count + 1 <= HashCapacity
      BY <3>1, <3>2, TakenFinite, FS_Subset
    <3> QED BY <3>3, HashCapacityAssumption DEF TableInv, SlotsTypeOK
  <2>14. \E t \in Slot : ~Occupied(t) /\ slots' = [slots EXCEPT ![t] = entry]
    BY <2>3, <2>4
  <2> QED BY <2>7, <2>8, <2>9, <2>12, <2>13, <2>14 DEF TableInv, HashOK, entry
<1> QED BY <1>1, <1>2

(* A key is taken out of the slot the search meets, or the table is left    *)
(* alone.                                                                   *)
LEMMA RemoveLemma ==
  ASSUME TableInv, NEW h \in HashValue, HashRemove(h)
  PROVE  \/ UNCHANGED tableVars /\ FoundAt(h) = {}
         \/ /\ TableInv'
            /\ \E s \in Slot : /\ Holds(s, h)
                             /\ slots' = [slots EXCEPT ![s] = TOMBSTONE]
<1>1. CASE FoundAt(h) = {}
  BY <1>1 DEF HashRemove
<1>2. CASE FoundAt(h) # {}
  <2> DEFINE s == Met(h)
  <2>1. s \in Slot /\ Holds(s, h)
    BY <1>2, FindLemma DEF FindsEntries
  <2>2. slots' = [slots EXCEPT ![s] = TOMBSTONE] /\ entry_count' = entry_count - 1
    BY <1>2 DEF HashRemove, Met
  <2> HIDE DEF s
  <2>3. /\ slots \in [Slot -> Entry \cup {EMPTY, TOMBSTONE}]
        /\ slots'[s] = TOMBSTONE
        /\ \A t \in Slot \ {s} : slots'[t] = slots[t]
    BY <2>1, <2>2 DEF TableInv, SlotsTypeOK
  <2>4. Taken' = Taken \ {s} /\ s \in Taken
    BY <2>1, <2>3 DEF Taken, Occupied, Holds
  <2>5. entry_count' = Cardinality(Taken') /\ IsFiniteSet(Taken')
    BY <2>2, <2>4, TakenFinite, FS_RemoveElement
       DEF TableInv, HashOK, EntriesCounted, Taken
  <2>6. SlotsTypeOK'
    BY <2>1, <2>2, <2>5, FS_CardinalityType DEF TableInv, SlotsTypeOK
  <2>7. EntriesCounted'
    BY <2>5 DEF EntriesCounted, Taken
  <2>8. \A t \in Slot : Occupied(t)' => Occupied(t) /\ slots'[t] = slots[t]
    BY <2>3 DEF Occupied
  <2>9. EntriesUnique'
    BY <2>8 DEF TableInv, HashOK, EntriesUnique
  <2>10. EntriesReachable'
    <3>1. \A t \in Slot : slots[t] # EMPTY => slots'[t] # EMPTY
      BY <2>3, SentinelAssumption
    <3> SUFFICES ASSUME NEW t \in Slot, Occupied(t)'
                 PROVE  \E c \in Slot :
                          /\ Probe(slots'[t].hash, c) = t
                          /\ \A e \in 0 .. c - 1 : slots'[Probe(slots'[t].hash, e)] # EMPTY
      BY DEF EntriesReachable, Probe
    <3>2. Occupied(t) /\ slots'[t] = slots[t] /\ slots[t].hash \in HashValue
      BY <2>3, <2>8 DEF Occupied, Entry
    <3>3. PICK c \in Slot :
            /\ Probe(slots[t].hash, c) = t
            /\ \A e \in 0 .. c - 1 : slots[Probe(slots[t].hash, e)] # EMPTY
      BY <3>2 DEF TableInv, HashOK, EntriesReachable
    <3>4. \A e \in 0 .. c - 1 : Probe(slots[t].hash, e) \in Slot
      BY <3>2, ProbeInTable, HashCapacityAssumption DEF Slot
    <3> QED BY <3>1, <3>2, <3>3, <3>4
  <2> QED BY <2>1, <2>2, <2>6, <2>7, <2>9, <2>10 DEF TableInv, HashOK
<1> QED BY <1>1, <1>2

(* A table without entries is in order.                                     *)
NothingFound == \A h \in HashValue : HashFind(h) = NIL

LEMMA EmptyTable == HashInit => TableInv /\ NothingFound
<1> SUFFICES ASSUME HashInit PROVE TableInv /\ NothingFound
  OBVIOUS
<1>1. \A s \in Slot : slots[s] = EMPTY /\ ~Occupied(s)
  BY DEF HashInit, Occupied
<1>2. Taken = {}
  BY <1>1 DEF Taken
<1>3. SlotsTypeOK
  BY DEF HashInit, SlotsTypeOK
<1>4. EntriesReachable /\ EntriesUnique
  BY <1>1 DEF EntriesReachable, EntriesUnique
<1>5. EntriesCounted
  BY <1>2, FS_EmptySet DEF HashInit, EntriesCounted, Taken
<1>6. \A h \in HashValue : FoundAt(h) = {}
  BY <1>1, ProbeInTable DEF FoundAt, Holds
<1> QED BY <1>3, <1>4, <1>5, <1>6 DEF TableInv, HashOK, HashFind, NothingFound

LEMMA EmptyTablePrime == HashReset => TableInv' /\ NothingFound'
<1>1. HashInit' => TableInv' /\ NothingFound'
  BY EmptyTable, PTL
<1>2. HashReset => HashInit'
  BY DEF HashReset, HashInit
<1> QED BY <1>1, <1>2

LEMMA StepKeepsTableInv == TableInv /\ [HashNext]_tableVars => TableInv'
<1> SUFFICES ASSUME TableInv, [HashNext]_tableVars PROVE TableInv'
  OBVIOUS
<1>1. CASE UNCHANGED tableVars
  BY <1>1 DEF tableVars, TableInv, SlotsTypeOK, HashOK, EntriesReachable, EntriesUnique,
              EntriesCounted, Occupied, Probe
<1>2. ASSUME NEW h \in HashValue, NEW n \in KeyNode, HashFind(h) = NIL, HashAdd(h, n)
      PROVE  TableInv'
  BY <1>1, <1>2, AddLemma
<1>3. ASSUME NEW h \in HashValue, HashRemove(h)
      PROVE  TableInv'
  BY <1>1, <1>3, RemoveLemma
<1>4. CASE HashReset
  BY <1>4, EmptyTablePrime
<1> QED BY <1>1, <1>2, <1>3, <1>4 DEF HashNext

(***************************************************************************)
(* The invariant of the table: its slots hold entries or sentinels, and     *)
(* HashOK holds, whatever is added, removed and reset, in any order.        *)
(***************************************************************************)
THEOREM TableInvariant == HashSpec => []TableInv
<1>1. HashInit => TableInv
  BY EmptyTable
<1> QED BY <1>1, StepKeepsTableInv, PTL DEF HashSpec

(***************************************************************************)
(* Entries stay reachable over tombstones and reused slots, no key is in    *)
(* the table twice, and entry_count is the number of entries.               *)
(***************************************************************************)
THEOREM TableSafety == HashSpec => []HashOK
<1>1. TableInv => HashOK
  BY DEF TableInv
<1> QED BY <1>1, TableInvariant, PTL

(* No more entries than slots.                                              *)
LEMMA CountFits == TableInv => entry_count <= HashCapacity
<1> SUFFICES ASSUME TableInv PROVE entry_count <= HashCapacity
  OBVIOUS
<1>1. Taken \in SUBSET Slot
  BY DEF Taken
<1>2. Cardinality(Taken) <= HashCapacity
  BY <1>1, TakenFinite, FS_Subset
<1> QED BY <1>2 DEF TableInv, HashOK, EntriesCounted, Taken

(***************************************************************************)
(* entry_count stays within the table: no removal takes it below zero and   *)
(* no key is added beyond the last slot.                                    *)
(***************************************************************************)
THEOREM TableTypes == HashSpec => []HashTypeOK
<1>1. TableInv => HashTypeOK
  BY CountFits, HashCapacityAssumption DEF TableInv, SlotsTypeOK, HashTypeOK
<1> QED BY <1>1, TableInvariant, PTL

(* As long as not every slot is taken, a new key stops at a free one.       *)
LEMMA RoomLemma == TableInv => RoomIsUsable
<1> SUFFICES ASSUME TableInv, NEW h \in HashValue, HashFind(h) = NIL, entry_count < HashCapacity
             PROVE  AddStatus(h) = "NO_ERROR"
  BY DEF RoomIsUsable
<1>1. Taken # Slot
  BY TakenFinite, HashCapacityAssumption DEF TableInv, HashOK, EntriesCounted, SlotsTypeOK, Taken
<1>2. PICK s \in Slot : ~Occupied(s)
  BY <1>1 DEF Taken
<1>3. PICK d \in Slot : Probe(h, d) = s
  BY ProbeAll
<1>4. StopsAt(h) # {}
  BY <1>2, <1>3 DEF StopsAt
<1>5. First(StopsAt(h)) \in Slot
  BY <1>4, FirstLemma DEF StopsAt
<1>6. ~Holds(Probe(h, First(StopsAt(h))), h)
  BY <1>5, FindLemma, ProbeInTable DEF FindsEntries
<1> QED BY <1>4, <1>6 DEF AddStatus

(***************************************************************************)
(* However many keys have been added and removed, a key is turned away only *)
(* by a table with an entry in every slot.                                  *)
(***************************************************************************)
THEOREM TableRoom == HashSpec => []RoomIsUsable
BY RoomLemma, TableInvariant, PTL

----------------------------------------------------------------------------

(* The dictionary the table stands for: what the search finds.              *)
FoundKeys == {h \in HashValue : HashFind(h) # NIL}
LookUp == [h \in FoundKeys |-> HashFind(h)]

(* Different keys are met in different slots, so no more keys are found     *)
(* than there are entries.                                                  *)
LEMMA FoundKeysFit ==
  ASSUME TableInv
  PROVE  IsFiniteSet(FoundKeys) /\ Cardinality(FoundKeys) <= entry_count
<1> DEFINE f == [h \in FoundKeys |-> Met(h)]
<1>1. \A h \in FoundKeys : h \in HashValue /\ Met(h) \in Taken /\ slots[Met(h)].hash = h
  BY FindLemma DEF FindsEntries, FoundKeys, Taken, Holds
<1>2. f \in Injection(FoundKeys, Taken)
  BY <1>1 DEF Injection, IsInjective
<1> HIDE DEF f
<1>3. IsFiniteSet(FoundKeys) /\ Cardinality(FoundKeys) <= Cardinality(Taken)
  BY <1>2, TakenFinite, FS_Injection
<1> QED BY <1>3 DEF TableInv, HashOK, EntriesCounted, Taken

(* A change of one slot changes what is found for the keys it held or       *)
(* holds, and for no other.                                                 *)
LEMMA OthersFound ==
  ASSUME TableInv, TableInv', NEW s \in Slot, NEW h \in HashValue,
         \A t \in Slot \ {s} : slots'[t] = slots[t],
         ~Holds(s, h), ~Holds(s, h)'
  PROVE  HashFind(h)' = HashFind(h)
<1>1. \A t \in Slot : Holds(t, h)' <=> Holds(t, h)
  BY DEF Holds, Occupied
<1>2. \A t \in Slot : Holds(t, h) => slots'[t] = slots[t]
  OBVIOUS
<1>3. CASE \E t \in Slot : Holds(t, h)
  <2>1. PICK t \in Slot : Holds(t, h)
    BY <1>3
  <2>2. HashFind(h) = slots[t].key_element
    BY <2>1, FindLemma DEF FindsEntries
  <2>3. HashFind(h)' = slots'[t].key_element
    BY <1>1, <2>1, FindLemmaPrime DEF FindsEntries
  <2> QED BY <1>2, <2>1, <2>2, <2>3
<1>4. CASE \A t \in Slot : ~Holds(t, h)
  <2>1. HashFind(h) = NIL
    BY <1>4, FindLemma DEF FindsEntries
  <2>2. HashFind(h)' = NIL
    BY <1>1, <1>4, FindLemmaPrime DEF FindsEntries
  <2> QED BY <2>1, <2>2
<1> QED BY <1>3, <1>4

LEMMA AddIsAdd ==
  ASSUME TableInv, NEW h \in HashValue, NEW n \in KeyNode, HashFind(h) = NIL, HashAdd(h, n)
  PROVE  \/ UNCHANGED tableVars
         \/ /\ h \notin FoundKeys
            /\ Cardinality(FoundKeys) < HashCapacity
            /\ LookUp' = [k \in FoundKeys \cup {h} |-> IF k = h THEN n ELSE LookUp[k]]
<1> SUFFICES ASSUME ~ UNCHANGED tableVars
             PROVE  /\ h \notin FoundKeys
                    /\ Cardinality(FoundKeys) < HashCapacity
                    /\ LookUp' = [k \in FoundKeys \cup {h} |-> IF k = h THEN n ELSE LookUp[k]]
  OBVIOUS
<1>1. TableInv' /\ entry_count < HashCapacity
  BY AddLemma
<1>2. PICK s \in Slot : /\ ~Occupied(s)
                        /\ slots' = [slots EXCEPT ![s] = [hash |-> h, key_element |-> n]]
  BY AddLemma
<1>3. h \notin FoundKeys
  BY DEF FoundKeys
<1>4. Cardinality(FoundKeys) < HashCapacity
  <2>1. IsFiniteSet(FoundKeys) /\ Cardinality(FoundKeys) <= entry_count
    BY FoundKeysFit
  <2>2. entry_count \in Nat /\ HashCapacity \in Nat /\ Cardinality(FoundKeys) \in Nat
    BY <2>1, FS_CardinalityType, HashCapacityAssumption DEF TableInv, SlotsTypeOK
  <2> QED BY <1>1, <2>1, <2>2
<1>5. slots'[s] = [hash |-> h, key_element |-> n] /\ \A t \in Slot \ {s} : slots'[t] = slots[t]
  BY <1>2 DEF TableInv, SlotsTypeOK
<1>6. HashFind(h)' = n
  <2>1. Holds(s, h)'
    BY <1>5, SentinelAssumption DEF Holds, Occupied, Entry
  <2>2. HashFind(h)' = slots'[s].key_element
    BY <1>1, <2>1, FindLemmaPrime DEF FindsEntries
  <2> QED BY <1>5, <2>2
<1>7. ASSUME NEW k \in HashValue, k # h PROVE HashFind(k)' = HashFind(k)
  <2>1. ~Holds(s, k) /\ ~Holds(s, k)'
    BY <1>2, <1>5, <1>7 DEF Holds
  <2> QED BY <1>1, <1>5, <2>1, OthersFound
<1>8. FoundKeys' = FoundKeys \cup {h}
  BY <1>6, <1>7, SentinelAssumption DEF FoundKeys
<1> QED BY <1>3, <1>4, <1>6, <1>7, <1>8 DEF LookUp, FoundKeys

LEMMA RemoveIsDelete ==
  ASSUME TableInv, NEW h \in HashValue, HashRemove(h)
  PROVE  \/ UNCHANGED tableVars
         \/ LookUp' = [k \in FoundKeys \ {h} |-> LookUp[k]]
<1> SUFFICES ASSUME ~ UNCHANGED tableVars
             PROVE  LookUp' = [k \in FoundKeys \ {h} |-> LookUp[k]]
  OBVIOUS
<1>1. TableInv'
  BY RemoveLemma
<1>2. PICK s \in Slot : Holds(s, h) /\ slots' = [slots EXCEPT ![s] = TOMBSTONE]
  BY RemoveLemma
<1>3. slots'[s] = TOMBSTONE /\ \A t \in Slot \ {s} : slots'[t] = slots[t]
  BY <1>2 DEF TableInv, SlotsTypeOK
<1>4. HashFind(h)' = NIL
  <2>1. \A t \in Slot : ~Holds(t, h)'
    BY <1>2, <1>3 DEF TableInv, HashOK, EntriesUnique, Holds, Occupied
  <2> QED BY <1>1, <2>1, FindLemmaPrime DEF FindsEntries
<1>5. ASSUME NEW k \in HashValue, k # h PROVE HashFind(k)' = HashFind(k)
  <2>1. ~Holds(s, k) /\ ~Holds(s, k)'
    BY <1>2, <1>3, <1>5 DEF Holds, Occupied
  <2> QED BY <1>1, <1>3, <2>1, OthersFound
<1>6. FoundKeys' = FoundKeys \ {h}
  BY <1>4, <1>5 DEF FoundKeys
<1> QED BY <1>5, <1>6 DEF LookUp, FoundKeys

(***************************************************************************)
(* Refinement: slots, probe sequences and tombstones do not show through    *)
(* the functions of the table.  Whatever the home slots are, it adds, finds *)
(* and deletes like a dictionary with room for HashCapacity keys.           *)
(***************************************************************************)
THEOREM TableImplementsDictionary == HashSpec => ImplementsDictionary
<1>1. HashInit => Dictionary!Init
  <2> SUFFICES ASSUME HashInit PROVE LookUp = <<>>
    BY DEF Dictionary!Init, LookUp, FoundKeys
  <2>1. FoundKeys = {}
    BY EmptyTable DEF FoundKeys, NothingFound
  <2> QED BY <2>1 DEF LookUp
<1>2. TableInv /\ [HashNext]_tableVars => [Dictionary!Next]_LookUp
  <2> SUFFICES ASSUME TableInv, [HashNext]_tableVars
               PROVE  Dictionary!Next \/ UNCHANGED LookUp
    OBVIOUS
  <2>1. DOMAIN LookUp = FoundKeys
    BY DEF LookUp
  <2>2. ASSUME UNCHANGED tableVars PROVE UNCHANGED LookUp
    BY <2>2 DEF tableVars, LookUp, FoundKeys, HashFind, FoundAt, Holds, Occupied, Probe
  <2>3. ASSUME NEW h \in HashValue, NEW n \in KeyNode, HashFind(h) = NIL, HashAdd(h, n),
               ~ UNCHANGED tableVars
        PROVE  Dictionary!Next
    <3>1. Dictionary!Cardinality(FoundKeys) = Cardinality(FoundKeys)
      BY Zenon DEF Cardinality, Dictionary!Cardinality, IsFiniteSet, Dictionary!IsFiniteSet
    <3>2. Dictionary!Add(h, n)
      BY <3>1, <2>1, <2>3, AddIsAdd DEF Dictionary!Add, LookUp, FoundKeys
    <3> QED BY <3>2 DEF Dictionary!Next
  <2>4. ASSUME NEW h \in HashValue, HashRemove(h), ~ UNCHANGED tableVars
        PROVE  Dictionary!Next
    <3>1. Dictionary!Delete(h)
      BY <2>1, <2>4, RemoveIsDelete DEF Dictionary!Delete, LookUp, FoundKeys
    <3> QED BY <3>1 DEF Dictionary!Next
  <2>5. CASE HashReset
    <3>1. FoundKeys' = {}
      BY <2>5, EmptyTablePrime DEF FoundKeys, NothingFound
    <3>2. LookUp' = <<>>
      BY <3>1 DEF LookUp
    <3>3. Dictionary!Clear
      BY <3>2 DEF Dictionary!Clear, LookUp, FoundKeys
    <3> QED BY <3>3 DEF Dictionary!Next
  <2> QED BY <2>2, <2>3, <2>4, <2>5 DEF HashNext
<1>3. TableInv /\ [HashNext]_tableVars
        => [Dictionary!Next]_([h \in {k \in HashValue : HashFind(k) # NIL} |-> HashFind(h)])
  BY <1>2 DEF LookUp, FoundKeys
<1> QED BY <1>1, <1>3, TableInvariant, PTL DEF HashSpec, ImplementsDictionary, Dictionary!Spec

----------------------------------------------------------------------------
(* The capacities.                                                          *)


(* Bounds of the quotients and of the alignment.                            *)
LEMMA AlignedBounds ==
  ASSUME NEW a \in Nat
  PROVE  Aligned(a) \in Nat /\ a <= Aligned(a) /\ Aligned(a) < a + Alignment
  BY DEF Aligned, Alignment

LEMMA NodeBounds ==
  ASSUME NEW b \in Nat
  PROVE  b \div NodeSize \in Nat /\ (b \div NodeSize) * NodeSize <= b
         /\ b < (b \div NodeSize + 1) * NodeSize
  BY DEF NodeSize

LEMMA EntryBounds ==
  ASSUME NEW b \in Nat
  PROVE  b \div EntrySize \in Nat /\ (b \div EntrySize) * EntrySize <= b
         /\ b < (b \div EntrySize + 1) * EntrySize
  BY DEF EntrySize

LEMMA PercentBounds ==
  ASSUME NEW r \in Nat
  PROVE  /\ (r * NodePoolPercent) \div 100 \in Nat
         /\ 100 * ((r * NodePoolPercent) \div 100) <= 75 * r
  BY DEF NodePoolPercent

LEMMA InvalidIndexNat == InvalidIndex \in Nat \ {0}
  BY DEF InvalidIndex

LEMMA LimitedBounds ==
  ASSUME NEW c \in Nat
  PROVE  Limited(c) \in Nat /\ Limited(c) <= c /\ Limited(c) < InvalidIndex
         /\ (c < InvalidIndex => Limited(c) = c)
  BY DEF Limited, InvalidIndex

(* The node pool in a workspace that holds the context.                     *)
LEMMA PoolBounds ==
  ASSUME NEW size \in Nat, NEW mode \in {"LINEAR", "HASHED"}, size >= ContextSize
  PROVE  /\ NodePoolSize(size, mode) \in Nat
         /\ NodePoolSize(size, mode) <= Rest(size)
         /\ Rest(size) \in Nat
         /\ mode = "HASHED" => 100 * NodePoolSize(size, mode) <= 75 * Rest(size)
<1> DEFINE r == Rest(size)
<1>1. r \in Nat
  BY DEF Rest, ContextSize
<1>2. CASE mode = "LINEAR"
  BY <1>1, <1>2 DEF NodePoolSize
<1>3. CASE mode = "HASHED"
  <2>1. NodePoolSize(size, mode) = (r * NodePoolPercent) \div 100
    BY <1>3 DEF NodePoolSize
  <2>2. NodePoolSize(size, mode) \in Nat /\ 100 * NodePoolSize(size, mode) <= 75 * r
    BY <1>1, <2>1, PercentBounds
  <2>3. QED
    BY <1>1, <2>2
<1>4. QED
  BY <1>2, <1>3

----------------------------------------------------------------------------

(***************************************************************************)
(* The parts do not overlap and stay in the buffer: the last node of the    *)
(* pool ends before the key table, or the buffer, does, and the last entry  *)
(* of the table ends in the buffer (jes_partition_workspace).               *)
(***************************************************************************)
THEOREM PartsDisjoint ==
  ASSUME NEW size \in Nat, NEW mode \in {"LINEAR", "HASHED"}, Initializes(size, mode)
  PROVE  /\ ContextSize + NodeCapacity(size, mode) * NodeSize
              <= IF mode = "HASHED" THEN TableStart(size) ELSE size
         /\ mode = "HASHED" => TableStart(size) + TableCapacity(size) * EntrySize <= size
<1>1. size >= ContextSize
  BY DEF Initializes, TooSmall, ContextSize
<1> DEFINE pool == NodePoolSize(size, mode)
           nodes == pool \div NodeSize
<1>2. pool \in Nat /\ pool <= Rest(size)
  BY <1>1, PoolBounds
<1>3. NodeCapacity(size, mode) \in Nat /\ NodeCapacity(size, mode) * NodeSize <= pool
  <2>1. nodes \in Nat /\ nodes * NodeSize <= pool
    BY <1>2, NodeBounds
  <2>2. NodeCapacity(size, mode) \in Nat /\ NodeCapacity(size, mode) <= nodes
    BY <2>1, LimitedBounds DEF NodeCapacity
  <2>3. QED
    BY <2>1, <2>2, <1>2 DEF NodeSize
<1>4. CASE mode = "LINEAR"
  BY <1>1, <1>2, <1>3, <1>4 DEF Rest, ContextSize, NodeSize
<1>5. CASE mode = "HASHED"
  <2>1. ContextSize + pool \in Nat
    BY <1>2 DEF ContextSize
  <2>2. TableStart(size) \in Nat /\ ContextSize + pool <= TableStart(size)
    BY <2>1, <1>5, AlignedBounds DEF TableStart
  <2>3. TableStart(size) < size
    BY <1>1, <1>5, <2>2 DEF Initializes, TableAsserts
  <2>4. TableSize(size) \in Nat
    BY <2>2, <2>3 DEF TableSize
  <2>5. TableCapacity(size) \in Nat /\ TableCapacity(size) <= TableSize(size) \div EntrySize
    BY <2>4, EntryBounds, LimitedBounds DEF TableCapacity
  <2>6. TableCapacity(size) * EntrySize <= TableSize(size)
    BY <2>4, <2>5, EntryBounds DEF EntrySize
  <2>7. TableStart(size) + TableCapacity(size) * EntrySize <= size
    BY <2>2, <2>4, <2>5, <2>6 DEF TableSize, EntrySize
  <2>8. ContextSize + NodeCapacity(size, mode) * NodeSize <= TableStart(size)
    BY <1>2, <1>3, <2>2 DEF ContextSize, NodeSize
  <2>9. QED
    BY <1>5, <2>7, <2>8
<1>6. QED
  BY <1>4, <1>5

(***************************************************************************)
(* No index of a node is the one that means "no node", and neither is       *)
(* next_free when the pool is used up: 16 bits are enough, for a workspace  *)
(* of any size (jes_tree_init).                                             *)
(***************************************************************************)
THEOREM IndexesFit ==
  ASSUME NEW size \in Nat, NEW mode \in {"LINEAR", "HASHED"}, Initializes(size, mode)
  PROVE  NodeCapacity(size, mode) \in 1 .. InvalidIndex - 1
<1>1. size >= ContextSize
  BY DEF Initializes, TooSmall, ContextSize
<1>2. NodePoolSize(size, mode) \in Nat
  BY <1>1, PoolBounds
<1>3. NodePoolSize(size, mode) \div NodeSize \in Nat
  BY <1>2, NodeBounds
<1>4. NodeCapacity(size, mode) \in Nat /\ NodeCapacity(size, mode) < InvalidIndex
  BY <1>3, LimitedBounds DEF NodeCapacity
<1>5. NodeCapacity(size, mode) # 0
  BY DEF Initializes, TooSmall
<1>6. QED
  BY <1>4, <1>5, InvalidIndexNat

(***************************************************************************)
(* JES_REQUIRED_SIZE keeps its promise in linear mode: the workspace is     *)
(* accepted and holds the number of nodes asked for, up to the largest one  *)
(* there is.                                                                *)
(***************************************************************************)
THEOREM RequiredSizeSuffices ==
  ASSUME NEW nodes \in 1 .. InvalidIndex - 1
  PROVE  /\ Initializes(RequiredSize(nodes), "LINEAR")
         /\ NodeCapacity(RequiredSize(nodes), "LINEAR") = nodes
<1>1. nodes \in Nat /\ nodes # 0 /\ nodes < InvalidIndex
  BY InvalidIndexNat
<1>2. NodePoolSize(RequiredSize(nodes), "LINEAR") = nodes * NodeSize
  BY <1>1 DEF NodePoolSize, Rest, RequiredSize, ContextSize, NodeSize
<1>3. (nodes * NodeSize) \div NodeSize = nodes
  BY <1>1 DEF NodeSize
<1>4. NodeCapacity(RequiredSize(nodes), "LINEAR") = nodes
  BY <1>1, <1>2, <1>3 DEF NodeCapacity, Limited
<1>5. RequiredSize(nodes) \in Nat /\ RequiredSize(nodes) >= ContextSize
  BY <1>1 DEF RequiredSize, ContextSize, NodeSize
<1>6. Initializes(RequiredSize(nodes), "LINEAR")
  BY <1>1, <1>4, <1>5 DEF Initializes, TableAsserts, TooSmall, ContextSize
<1>7. QED
  BY <1>4, <1>6

(***************************************************************************)
(* In hashed mode it does not: the pool always falls short of the nodes the *)
(* workspace was sized for, although jes_init documents the macro as the    *)
(* minimum whatever the mode.                                               *)
(***************************************************************************)
THEOREM RequiredSizeFallsShort ==
  ASSUME NEW nodes \in Nat \ {0}
  PROVE  NodeCapacity(RequiredSize(nodes), "HASHED") < nodes
<1> DEFINE size == RequiredSize(nodes)
           pool == NodePoolSize(size, "HASHED")
<1>1. size \in Nat /\ size >= ContextSize /\ Rest(size) = 24 * nodes
  BY DEF RequiredSize, Rest, ContextSize, NodeSize
<1>2. pool \in Nat /\ 100 * pool <= 75 * (24 * nodes)
  BY <1>1, PoolBounds
<1> HIDE DEF pool, size
<1>3. pool \div NodeSize \in Nat /\ (pool \div NodeSize) * NodeSize <= pool
  BY <1>2, NodeBounds
<1>4. pool \div NodeSize < nodes
  BY <1>2, <1>3 DEF NodeSize
<1>5. NodeCapacity(size, "HASHED") \in Nat /\ NodeCapacity(size, "HASHED") <= pool \div NodeSize
  BY <1>3, LimitedBounds DEF NodeCapacity, pool
<1>6. QED
  BY <1>3, <1>4, <1>5 DEF size

(***************************************************************************)
(* The assertion on the start of the key table fails for no workspace that  *)
(* has room for a single node: without assertions all it catches is turned  *)
(* away a few lines later, before the size of the table has wrapped round.  *)
(***************************************************************************)
THEOREM AssertsOnlyWhatIsTooSmall ==
  ASSUME NEW size \in Nat, TableAsserts(size, "HASHED")
  PROVE  NodeCapacity(size, "HASHED") = 0
<1> DEFINE pool == NodePoolSize(size, "HASHED")
           r == Rest(size)
<1>1. size >= ContextSize /\ TableStart(size) >= size
  BY DEF TableAsserts
<1>2. r \in Nat /\ pool \in Nat /\ 100 * pool <= 75 * r
  BY <1>1, PoolBounds
<1>3. TableStart(size) = Aligned(ContextSize + pool)
  BY DEF TableStart
<1>4. size = ContextSize + r
  BY DEF Rest, ContextSize
<1> HIDE DEF pool, r
<1>5. pool < 24
  <2>1. SUFFICES ASSUME pool >= 24 PROVE FALSE
    BY <1>2
  <2>2. Aligned(ContextSize + pool) \in Nat /\ Aligned(ContextSize + pool) < ContextSize + pool + 8
    BY <1>2, AlignedBounds DEF ContextSize, Alignment
  <2>3. r < pool + 8
    BY <1>1, <1>2, <1>3, <1>4, <2>2 DEF ContextSize
  <2>4. QED
    BY <1>2, <2>1, <2>3
<1>6. pool \div NodeSize = 0
  BY <1>2, <1>5 DEF NodeSize
<1>7. QED
  BY <1>6 DEF NodeCapacity, Limited, InvalidIndex, pool

(***************************************************************************)
(* In a document whose keys all have a value the key table never runs full  *)
(* before the node pool does: k keys, their k values and the object around  *)
(* them fit only where the table has k slots.  It is keys without values    *)
(* that can fill it (see UniqueKeys).                                       *)
(***************************************************************************)
THEOREM TableHasRoomForDocuments ==
  ASSUME NEW size \in Nat, Initializes(size, "HASHED"),
         NEW keys \in Nat, 2 * keys + 1 <= NodeCapacity(size, "HASHED")
  PROVE  keys <= TableCapacity(size)
<1> DEFINE pool == NodePoolSize(size, "HASHED")
           r == Rest(size)
           entries == TableSize(size) \div EntrySize
<1>1. size >= ContextSize
  BY DEF Initializes, TooSmall, ContextSize
<1>2. r \in Nat /\ pool \in Nat /\ 100 * pool <= 75 * r
  BY <1>1, PoolBounds
<1>3. size = ContextSize + r
  BY DEF Rest, ContextSize
<1>4. /\ TableStart(size) = Aligned(ContextSize + pool)
      /\ ~(TableStart(size) >= size)
  BY <1>1 DEF TableStart, Initializes, TableAsserts
<1>5. pool \div NodeSize \in Nat /\ (pool \div NodeSize) * NodeSize <= pool
  BY <1>2, NodeBounds
<1>6. /\ NodeCapacity(size, "HASHED") \in Nat
      /\ NodeCapacity(size, "HASHED") <= pool \div NodeSize
      /\ NodeCapacity(size, "HASHED") < InvalidIndex
  BY <1>5, LimitedBounds DEF NodeCapacity
<1>7. TableSize(size) = size - TableStart(size)
  BY DEF TableSize
<1> HIDE DEF pool, r
<1>8. 48 * keys + 24 <= pool
  BY <1>2, <1>5, <1>6 DEF NodeSize
<1>9. /\ TableStart(size) \in Nat
      /\ TableStart(size) < ContextSize + pool + 8
      /\ TableStart(size) < size
  BY <1>2, <1>4, AlignedBounds DEF ContextSize, Alignment
<1>10. TableSize(size) \in Nat /\ TableSize(size) > r - pool - 8
  BY <1>2, <1>3, <1>4, <1>7, <1>9 DEF ContextSize
<1>11. 16 * keys <= TableSize(size)
  BY <1>2, <1>8, <1>10
<1>12. entries \in Nat /\ TableSize(size) < (entries + 1) * EntrySize
  BY <1>10, EntryBounds
<1> HIDE DEF entries
<1>13. keys <= entries
  BY <1>10, <1>11, <1>12 DEF EntrySize
<1>14. TableCapacity(size) = Limited(entries)
  BY DEF TableCapacity, entries
<1>15. QED
  BY <1>6, <1>12, <1>13, <1>14 DEF Limited, InvalidIndex
============================================================================
