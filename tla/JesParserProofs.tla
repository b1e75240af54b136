-------------------------- MODULE JesParserProofs --------------------------
(***************************************************************************)
(* Proofs about loads, for any text, a pool and a key table of any size,    *)
(* and either search mode: the tree at every token, the names that are      *)
(* found in it, and the JSON texts that are not refused.                    *)
(***************************************************************************)
EXTENDS JesSerializer, JesTreeProofs

Container == {"OBJECT", "ARRAY"}

LEMMA LinkFacts ==
  ASSUME TreeShape
  PROVE  /\ Live \subseteq Node /\ NIL \notin Live
         /\ \A n \in Live : parent[n] \in Live \cup {NIL} /\ sibling[n] \in Live \cup {NIL}
                            /\ first_child[n] \in Live \cup {NIL}
                            /\ last_child[n] \in Live \cup {NIL}
BY LiveNodes DEF TreeShape, TreeOK, LinksLive

----------------------------------------------------------------------------
(* The way up.                                                              *)

Above(n) == IF n = NIL THEN NIL ELSE parent[n]

(* up[k] is the node k levels above n.                                      *)
Rises(up, n, K) == up = [k \in 0 .. K |-> IF k = 0 THEN n ELSE Above(up[k - 1])]

LEMMA AncestorsDef ==
  ASSUME NEW n
  PROVE  Ancestors(n) = [k \in 1 .. Capacity |-> (CHOOSE up : Rises(up, n, Capacity))[k]]
BY DEF Ancestors, Rises, Above

LEMMA ClimbExists ==
  ASSUME NEW n, NEW K \in Nat
  PROVE  \E up : Rises(up, n, K)
<1> DEFINE D == {k \in Nat : ~ \E up : Rises(up, n, k)}
<1> SUFFICES ASSUME D # {} PROVE FALSE
  OBVIOUS
<1>1. PICK d \in D : \A e \in D : d <= e
  BY LeastLemma
<1>2. d \in Nat /\ ~ \E up : Rises(up, n, d)
  OBVIOUS
<1>3. CASE d = 0
  <2> DEFINE f == [k \in 0 .. 0 |-> n]
  <2>1. f = [k \in 0 .. 0 |-> IF k = 0 THEN n ELSE Above(f[k - 1])]
    OBVIOUS
  <2> QED BY <1>2, <1>3, <2>1 DEF Rises
<1>4. CASE d # 0
  <2>1. d - 1 \in Nat /\ d - 1 \notin D
    BY <1>1, <1>2, <1>4
  <2>2. PICK f : Rises(f, n, d - 1)
    BY <2>1
  <2> DEFINE g == [k \in 0 .. d |-> IF k < d THEN f[k] ELSE Above(f[d - 1])]
  <2>3. ASSUME NEW k \in 0 .. d
        PROVE  g[k] = IF k = 0 THEN n ELSE Above(g[k - 1])
    <3>1. CASE k = 0
      <4>1. f[0] = n /\ 0 < d
        BY <1>2, <1>4, <2>1, <2>2 DEF Rises
      <4> QED BY <3>1, <4>1
    <3>2. CASE k = d
      <4>1. g[k] = Above(f[d - 1]) /\ g[k - 1] = f[d - 1]
        BY <1>2, <1>4, <3>2
      <4> QED BY <1>4, <3>2, <4>1
    <3>3. CASE k # 0 /\ k # d
      <4>1. k \in 0 .. d - 1 /\ k < d /\ k - 1 \in 0 .. d /\ k - 1 < d
        BY <1>2, <3>3
      <4>2. f[k] = Above(f[k - 1])
        BY <2>2, <3>3, <4>1 DEF Rises
      <4>3. g[k] = f[k] /\ g[k - 1] = f[k - 1]
        BY <3>3, <4>1
      <4> QED BY <3>3, <4>2, <4>3
    <3> QED BY <3>1, <3>2, <3>3
  <2>4. g = [k \in 0 .. d |-> IF k = 0 THEN n ELSE Above(g[k - 1])]
    <3>1. g = [k \in 0 .. d |-> g[k]]
      OBVIOUS
    <3> HIDE DEF g
    <3> QED BY <2>3, <3>1
  <2> QED BY <1>2, <2>4 DEF Rises
<1> QED BY <1>3, <1>4

LEMMA AncestorsUp ==
  ASSUME NEW n
  PROVE  \A k \in 1 .. Capacity :
           Ancestors(n)[k] = Above(IF k = 1 THEN n ELSE Ancestors(n)[k - 1])
<1> DEFINE up == CHOOSE f : Rises(f, n, Capacity)
<1>1. Rises(up, n, Capacity)
  BY ClimbExists, CapacityAssumption
<1>2. Ancestors(n) = [k \in 1 .. Capacity |-> up[k]]
  BY AncestorsDef
<1> HIDE DEF up
<1>3. \A k \in 1 .. Capacity : up[k] = Above(up[k - 1]) /\ up[0] = n
  BY <1>1, CapacityAssumption DEF Rises
<1>4. \A k \in 1 .. Capacity : k = 1 \/ k - 1 \in 1 .. Capacity
  BY CapacityAssumption
<1> QED BY <1>2, <1>3, <1>4, CapacityAssumption

(* Above an element are elements, and they have children.                   *)
LEMMA AncestorsLive ==
  ASSUME TreeShape, NEW n \in Live \cup {NIL}
  PROVE  \A k \in 1 .. Capacity :
           /\ Ancestors(n)[k] \in Live \cup {NIL}
           /\ Ancestors(n)[k] # NIL => first_child[Ancestors(n)[k]] # NIL
<1> DEFINE up == Ancestors(n)
           OK(k) == up[k] \in Live \cup {NIL} /\ (up[k] # NIL => first_child[up[k]] # NIL)
           D == {k \in 1 .. Capacity : ~OK(k)}
<1> SUFFICES ASSUME D # {} PROVE FALSE
  OBVIOUS
<1>0. D \subseteq Nat
  BY CapacityAssumption
<1> HIDE DEF D
<1>1. PICK d \in D : \A e \in D : d <= e
  BY <1>0, LeastLemma
<1> USE DEF D
<1> DEFINE m == IF d = 1 THEN n ELSE up[d - 1]
<1>2. d \in 1 .. Capacity /\ ~OK(d)
  OBVIOUS
<1>3. m \in Live \cup {NIL}
  <2>1. CASE d # 1
    <3>1. d - 1 \in 1 .. Capacity /\ d - 1 < d
      BY <1>2, <2>1, CapacityAssumption
    <3>2. d - 1 \notin D
      BY <1>1, <1>2, <3>1, CapacityAssumption
    <3> QED BY <2>1, <3>1, <3>2
  <2> QED BY <2>1
<1>4. up[d] = Above(m)
  BY <1>2, AncestorsUp
<1> HIDE DEF m, up
<1>5. \A x \in Live : parent[x] \in Live \cup {NIL}
                      /\ (parent[x] # NIL => first_child[parent[x]] # NIL)
  BY LinkFacts, ChildlessLemma DEF TreeShape
<1> QED BY <1>2, <1>3, <1>4, <1>5 DEF Above

(* The first of the levels in a set of them.                                *)
LEMMA FirstLemma ==
  ASSUME NEW D \in SUBSET (1 .. Capacity), D # {}
  PROVE  Table!First(D) \in D /\ \A e \in D : Table!First(D) <= e
<1>1. D \subseteq Nat
  BY CapacityAssumption
<1>2. \E d \in D : \A e \in D : d <= e
  BY <1>1, LeastLemma
<1> QED BY <1>2 DEF Table!First

Hits(n, types) ==
  {k \in 1 .. Capacity : Ancestors(n)[k] # NIL /\ type[Ancestors(n)[k]] \in types}

LEMMA ParentOfTypeDef ==
  ASSUME NEW n, NEW types
  PROVE  ParentOfType(n, types) =
           IF Hits(n, types) = {} THEN NIL ELSE Ancestors(n)[Table!First(Hits(n, types))]
BY DEF ParentOfType, Hits

(* What is found above an element has the type, and a child.                *)
LEMMA ParentOfTypeLemma ==
  ASSUME TreeShape, NEW n \in Live \cup {NIL}, NEW types
  PROVE  LET m == ParentOfType(n, types) IN
           /\ m \in Live \cup {NIL}
           /\ m # NIL => type[m] \in types /\ first_child[m] # NIL
<1> DEFINE H == Hits(n, types)
<1>1. CASE H = {}
  BY <1>1, ParentOfTypeDef, LinkFacts
<1>2. CASE H # {}
  <2>1. H \in SUBSET (1 .. Capacity)
    BY DEF Hits
  <2>2. Table!First(H) \in H
    BY <1>2, <2>1, FirstLemma
  <2>3. PICK k \in H : k = Table!First(H)
    BY <2>2
  <2>4. ParentOfType(n, types) = Ancestors(n)[k]
    BY <1>2, <2>3, ParentOfTypeDef
  <2>5. k \in 1 .. Capacity /\ Ancestors(n)[k] # NIL /\ type[Ancestors(n)[k]] \in types
    BY DEF Hits
  <2> QED BY <2>4, <2>5, AncestorsLive
<1> QED BY <1>1, <1>2

----------------------------------------------------------------------------
(* What a load leaves, and what it is like in between.                      *)

(* The keys the table does not have.                                        *)
Missing == {n \in Live : Hashed /\ type[n] = "KEY" /\ EntryOf(n) \notin Entries}

(* There is none while a load goes on; one may be left when it ends, the    *)
(* last that was inserted, because the table was full.                      *)
MissingOK ==
  \A n \in Missing :
    Missing = {n} /\ first_child[n] = NIL /\ entry_count = HashCapacity

LoadedTree ==
  /\ TreeShape /\ NodesOK /\ TableOK
  /\ JsonShape /\ AllCurrent /\ UniqueKeys
  /\ \A n \in Live : type[n] \in ElementType
  /\ root \in Live \cup {NIL}
  /\ MissingOK

States == {"EXPECT_KEY", "EXPECT_COLON", "EXPECT_VALUE", "HAVE_VALUE", "EXPECT_EOF", "END"}

(* The node the parser is at, by the state it is in.                        *)
PlaceOf(s, n) ==
  /\ s = "EXPECT_KEY" => n \in Live /\ type[n] = "OBJECT"
  /\ s = "EXPECT_COLON" => n \in Live /\ type[n] = "KEY" /\ first_child[n] = NIL
  /\ s = "EXPECT_VALUE" =>
       \/ n = NIL /\ root = NIL
       \/ n \in Live /\ type[n] = "ARRAY"
       \/ n \in Live /\ type[n] = "KEY" /\ first_child[n] = NIL
  /\ s = "HAVE_VALUE" =>
       n \in Live /\ type[n] \in ValueType /\ (type[n] # "SCALAR" => first_child[n] # NIL)
  /\ s # "END"

Parsing == PlaceOf(state, iter) /\ status = "NO_ERROR" /\ Missing = {}

PlacesOK ==
  /\ state \in States
  /\ iter \in Live \cup {NIL}
  /\ pc = "parse" => Parsing

LoadInv == LoadedTree /\ PlacesOK

LEMMA LoadedFacts ==
  ASSUME LoadedTree
  PROVE  /\ TreeShape /\ NodesOK /\ PoolInv /\ TreeOK /\ TableOK /\ JsonShape
         /\ Live \subseteq Node /\ NIL \notin Live
         /\ \A n \in Live : /\ parent[n] \in Live \cup {NIL}
                            /\ first_child[n] \in Live \cup {NIL}
                            /\ type[n] \in ElementType
                            /\ type[n] = "KEY" => /\ parent[n] \in Live
                                                  /\ type[parent[n]] = "OBJECT"
                                                  /\ key[n] \in Names
         /\ \A n \in Live : parent[n] = NIL <=> n = root
BY LinkFacts DEF LoadedTree, TreeShape, JsonShape, NodesOK, TreeOK, OneRoot

LEMMA KeepLemma ==
  ASSUME LoadedTree, Keep
  PROVE  /\ LoadedTree' /\ Live' = Live /\ Missing' = Missing
         /\ type' = type /\ key' = key /\ parent' = parent /\ sibling' = sibling
         /\ first_child' = first_child /\ last_child' = last_child /\ root' = root
<1>1. /\ type' = type /\ key' = key /\ parent' = parent /\ sibling' = sibling
      /\ first_child' = first_child /\ last_child' = last_child /\ root' = root
      /\ slots' = slots /\ entry_count' = entry_count
  BY DEF Keep, treeVars, nodeVars, tableVars
<1>2. Live' = Live
  BY DEF Keep, treeVars, poolVars, Live
<1>3. TreeShape' /\ NodesOK'
  BY TreeUnchanged DEF Keep, LoadedTree
<1>4. TableOK'
  BY TableStepLemma DEF LoadedTree, TableStep, Keep
<1>5. Entries' = Entries
  BY <1>1 DEF Entries, Table!Occupied
<1>6. Missing' = Missing
  BY <1>1, <1>2, <1>5 DEF Missing, EntryOf
<1>7. JsonShape' /\ UniqueKeys'
  BY <1>1, <1>2 DEF LoadedTree, JsonShape, UniqueKeys
<1>8. AllCurrent'
  BY <1>1, <1>2, <1>5 DEF LoadedTree, AllCurrent, Current
<1>9. MissingOK' /\ root' \in Live' \cup {NIL} /\ \A n \in Live' : type'[n] \in ElementType
  BY <1>1, <1>2, <1>6 DEF LoadedTree, MissingOK
<1> QED BY <1>1, <1>2, <1>3, <1>4, <1>6, <1>7, <1>8, <1>9 DEF LoadedTree

(* Where a value can be put.                                                *)
ValuePlace(p) ==
  \/ p = NIL /\ root = NIL
  \/ p \in Live /\ type[p] = "ARRAY"
  \/ p \in Live /\ type[p] = "KEY" /\ first_child[p] = NIL

LEMMA ValueStep ==
  ASSUME LoadedTree, Missing = {}, NEW p, ValuePlace(p), NEW t \in ValueType,
         InsertNode(p, LastChild(p), t, NIL), UNCHANGED tableVars
  PROVE  LoadedTree' /\ Missing' = {}
<1> DEFINE n == NextNode
<1>1. /\ TreeShape /\ NodesOK /\ NIL \notin Live /\ TableOK /\ JsonShape
      /\ t \in ElementType /\ t # "KEY"
  BY LoadedFacts DEF ElementType, ValueType
<1>2. p = NIL => LastChild(p) = NIL
  BY DEF LastChild
<1>3. Place(p, LastChild(p))
  BY <1>1, <1>2, PlaceLast DEF ValuePlace, Place
<1>4. TreeShape' /\ NodesOK'
  BY <1>1, <1>3, InsertLemma
<1>5. /\ n \notin Live /\ n \in Node /\ Live' = Live \cup {n}
      /\ type'[n] = t /\ parent'[n] = p
      /\ first_child'[n] = NIL
      /\ root' = IF p = NIL THEN n ELSE root
      /\ \A m \in Live : type'[m] = type[m] /\ key'[m] = key[m] /\ parent'[m] = parent[m]
      /\ \A m \in Live : m # p => /\ first_child'[m] = first_child[m]
                                  /\ last_child'[m] = last_child[m]
      /\ p # NIL /\ first_child[p] = NIL => /\ first_child'[p] = n
                                            /\ last_child'[p] = n
  BY <1>1, <1>3, InsertFacts
<1> HIDE DEF n
<1>6. Entries' = Entries /\ TableOK' /\ entry_count' = entry_count
  BY <1>1, TableStepLemma DEF Entries, Table!Occupied, tableVars, TableStep
<1>7. \A m \in Live : parent[m] \in Live \cup {NIL}
  BY <1>1, LinkFacts
<1>8. JsonShape'
  <2> SUFFICES ASSUME NEW m \in Live'
               PROVE  /\ type'[m] = "KEY" <=> (parent'[m] # NIL /\ type'[parent'[m]] = "OBJECT")
                      /\ type'[m] = "KEY" => first_child'[m] = last_child'[m]
                      /\ type'[m] = "SCALAR" => first_child'[m] = NIL
    BY DEF JsonShape
  <2>1. CASE m = n
    <3>1. p # NIL => p \in Live /\ type[p] # "OBJECT"
      BY DEF ValuePlace
    <3> QED BY <1>1, <1>5, <2>1, <3>1
  <2>2. CASE m \in Live
    <3>1. m # n /\ parent[m] # n
      BY <1>1, <1>5, <1>7, <2>2, LinkFacts, NilAssumption
    <3>2. type'[m] = "KEY" <=> (parent'[m] # NIL /\ type'[parent'[m]] = "OBJECT")
      BY <1>1, <1>5, <1>7, <2>2 DEF JsonShape
    <3>3. CASE m # p
      BY <1>1, <1>5, <2>2, <3>2, <3>3 DEF JsonShape
    <3>4. CASE m = p
      <4>1. p # NIL /\ type[p] # "SCALAR"
        BY <1>1, <2>2, <3>4 DEF ValuePlace
      <4> QED BY <1>5, <2>2, <3>2, <3>4, <4>1 DEF ValuePlace
    <3> QED BY <3>3, <3>4
  <2> QED BY <1>5, <2>1, <2>2
<1>9. UniqueKeys'
  BY <1>1, <1>5 DEF LoadedTree, UniqueKeys
<1>10. AllCurrent'
  BY <1>5, <1>6 DEF LoadedTree, AllCurrent, Current
<1>11. Missing' = {}
  BY <1>1, <1>5, <1>6 DEF Missing, EntryOf
<1>12. \A m \in Live' : type'[m] \in ElementType
  BY <1>1, <1>5 DEF LoadedTree
<1>13. root' \in Live' \cup {NIL} /\ MissingOK'
  BY <1>5, <1>11 DEF LoadedTree, MissingOK
<1> QED BY <1>4, <1>6, <1>8, <1>9, <1>10, <1>11, <1>12, <1>13 DEF LoadedTree

(* A name that is not found is free: no key is missing from the table.      *)
LEMMA NameIsFree ==
  ASSUME LoadedTree, Missing = {}, NEW o \in Live, NEW k \in Names, FindKey(o, k) = NIL
  PROVE  \A x \in Live : ~(type[x] = "KEY" /\ parent[x] = o /\ key[x] = k)
<1> SUFFICES ASSUME NEW x \in Live, type[x] = "KEY", parent[x] = o, key[x] = k
             PROVE  FALSE
  OBVIOUS
<1>1. TreeShape /\ TableOK /\ JsonShape /\ UniqueKeys /\ NIL \notin Live
  BY LoadedFacts DEF LoadedTree
<1>2. CASE ~Hashed
  BY <1>1, <1>2, LinearFindsKeys DEF FindKey
<1>3. CASE Hashed
  <2>1. EntryOf(x) \in Entries
    BY <1>3 DEF Missing
  <2>2. EntryOf(x).hash = <<o, k>> /\ EntryOf(x).key_element = x
    BY DEF EntryOf
  <2> QED BY <1>1, <1>3, <2>1, <2>2, EntryFound DEF FindKey
<1> QED BY <1>2, <1>3

LEMMA KeyStep ==
  ASSUME LoadedTree, Missing = {}, NEW o \in Live, type[o] = "OBJECT", NEW k \in Names,
         FindKey(o, k) = NIL, InsertNode(o, LastChild(o), "KEY", k),
         IF Hashed THEN Table!HashAdd(<<o, k>>, NextNode) ELSE UNCHANGED tableVars
  PROVE  /\ LoadedTree'
         /\ ~Hashed \/ Table!AddStatus(<<o, k>>) = "NO_ERROR" => Missing' = {}
<1> DEFINE n == NextNode
           h == <<o, k>>
           e == [hash |-> h, key_element |-> n]
<1>1. /\ TreeShape /\ NodesOK /\ NIL \notin Live /\ TableOK /\ JsonShape /\ UniqueKeys
      /\ Live \subseteq Node /\ "KEY" \in ElementType
  BY LoadedFacts DEF LoadedTree, ElementType
<1>2. Place(o, LastChild(o))
  BY <1>1, PlaceLast
<1>3. TreeShape' /\ NodesOK'
  BY <1>1, <1>2, InsertLemma
<1>4. /\ n \notin Live /\ n \in Node /\ Live' = Live \cup {n}
      /\ type'[n] = "KEY" /\ key'[n] = k /\ parent'[n] = o
      /\ first_child'[n] = NIL /\ last_child'[n] = NIL
      /\ root' = root
      /\ \A m \in Live : type'[m] = type[m] /\ key'[m] = key[m] /\ parent'[m] = parent[m]
      /\ \A m \in Live : m # o => /\ first_child'[m] = first_child[m]
                                  /\ last_child'[m] = last_child[m]
  BY <1>1, <1>2, InsertFacts
<1>5. h \in Node \X Names /\ (Hashed => Table!HashFind(h) = NIL /\ Table!HashAdd(h, n))
  BY <1>1 DEF FindKey
<1>6. TableOK'
  <2>1. CASE Hashed
    <3>1. Table!HashNext
      BY <1>4, <1>5, <2>1 DEF Table!HashNext
    <3> QED BY <1>1, <2>1, <3>1, TableStepLemma DEF TableStep
  <2>2. CASE ~Hashed
    BY <1>1, <2>2, TableStepLemma DEF TableStep
  <2> QED BY <2>1, <2>2
<1>7. Hashed => /\ Entries' \in {Entries, Entries \cup {e}}
                /\ Table!AddStatus(h) = "NO_ERROR" => e \in Entries'
  BY <1>1, <1>4, <1>5, AddEntry
<1>8. Hashed /\ Table!AddStatus(h) # "NO_ERROR" => entry_count' = HashCapacity
  <2> SUFFICES ASSUME Hashed, Table!AddStatus(h) # "NO_ERROR"
               PROVE  entry_count' = HashCapacity
    OBVIOUS
  <2>1. ~TableRoom
    BY <1>1, <1>5, RoomForKey
  <2>2. Table!HashTypeOK /\ Table!HashTypeOK'
    BY <1>1, <1>6, TableTypesLemma, PTL
  <2>3. entry_count' = entry_count
    BY <1>5 DEF Table!HashAdd, Table!tableVars
  <2> QED BY <2>1, <2>2, <2>3, TableAssumption DEF TableRoom, Table!HashTypeOK
<1>9. e.hash = h /\ e.key_element = n
  OBVIOUS
<1>10. NIL # n /\ NIL # o
  BY <1>1, <1>4, NilAssumption
<1> HIDE DEF n, e, h
<1>11. JsonShape'
  <2> SUFFICES ASSUME NEW m \in Live'
               PROVE  /\ type'[m] = "KEY" <=> (parent'[m] # NIL /\ type'[parent'[m]] = "OBJECT")
                      /\ type'[m] = "KEY" => first_child'[m] = last_child'[m]
                      /\ type'[m] = "SCALAR" => first_child'[m] = NIL
    BY DEF JsonShape
  <2>1. CASE m = n
    BY <1>4, <1>10, <2>1
  <2>2. CASE m \in Live
    <3>1. parent[m] \in Live \cup {NIL}
      BY <1>1, <2>2, LinkFacts
    <3>2. type'[m] = "KEY" <=> (parent'[m] # NIL /\ type'[parent'[m]] = "OBJECT")
      BY <1>1, <1>4, <2>2, <3>1 DEF JsonShape
    <3>3. CASE m # o
      BY <1>1, <1>4, <2>2, <3>2, <3>3 DEF JsonShape
    <3>4. CASE m = o
      BY <1>4, <2>2, <3>2, <3>4
    <3> QED BY <3>3, <3>4
  <2> QED BY <1>4, <2>1, <2>2
<1>12. UniqueKeys'
  <2>1. \A x \in Live : ~(type[x] = "KEY" /\ parent[x] = o /\ key[x] = k)
    BY NameIsFree
  <2> SUFFICES ASSUME NEW x \in Live', NEW y \in Live', type'[x] = "KEY", type'[y] = "KEY",
                      parent'[x] = parent'[y], key'[x] = key'[y]
               PROVE  x = y
    BY DEF UniqueKeys
  <2>2. CASE x \in Live /\ y \in Live
    BY <1>1, <1>4, <2>2 DEF UniqueKeys
  <2>3. CASE ~(x \in Live /\ y \in Live)
    BY <1>4, <2>1, <2>3
  <2> QED BY <2>2, <2>3
<1>13. AllCurrent'
  <2> SUFFICES ASSUME Hashed, NEW f \in Entries'
               PROVE  Current(f)'
    BY DEF AllCurrent
  <2>1. CASE f \in Entries
    BY <1>4, <2>1 DEF LoadedTree, AllCurrent, Current
  <2>2. CASE f = e
    BY <1>4, <1>9, <2>2 DEF Current, h
  <2> QED BY <1>7, <2>1, <2>2
<1>14. Missing' \subseteq {n} /\ (~Hashed \/ Table!AddStatus(h) = "NO_ERROR" => Missing' = {})
  <2> SUFFICES ASSUME NEW x \in Missing'
               PROVE  x = n /\ Hashed /\ Table!AddStatus(h) # "NO_ERROR"
    OBVIOUS
  <2>1. /\ x \in Live' /\ Hashed /\ type'[x] = "KEY"
        /\ [hash |-> <<parent'[x], key'[x]>>, key_element |-> x] \notin Entries'
    BY DEF Missing, EntryOf
  <2>2. x \notin Live
    <3> SUFFICES ASSUME x \in Live PROVE FALSE
      OBVIOUS
    <3>1. EntryOf(x) \in Entries
      BY <1>4, <2>1 DEF Missing
    <3> QED BY <1>4, <1>7, <2>1, <3>1 DEF EntryOf
  <2>3. x = n
    BY <1>4, <2>1, <2>2
  <2> QED BY <1>4, <1>7, <2>1, <2>3 DEF e, h
<1>15. MissingOK'
  BY <1>4, <1>8, <1>14 DEF MissingOK, Missing
<1>16. \A m \in Live' : type'[m] \in ElementType
  BY <1>1, <1>4 DEF LoadedTree
<1>17. root' \in Live' \cup {NIL}
  BY <1>4 DEF LoadedTree
<1> QED BY <1>3, <1>6, <1>11, <1>12, <1>13, <1>14, <1>15, <1>16, <1>17 DEF LoadedTree, h

----------------------------------------------------------------------------
(* What a token can do.                                                     *)

(* What the parser says of a text.                                          *)
Complaint == {"UNEXPECTED_TOKEN", "UNEXPECTED_EOF", "UNEXPECTED_SYMBOL"}

(* The load ends, and the tree stays as it is, ...                          *)
EndsLoad ==
  /\ Keep /\ pc' \in {"idle", "aborted"} /\ status' \in {status} \cup Complaint
  /\ iter' \in {iter, NIL} /\ state' \in States /\ UNCHANGED callVars

(* ... or the parser moves to another place in it, ...                      *)
MovesOn ==
  /\ Keep /\ UNCHANGED <<status, pc, callVars>>
  /\ state' \in States /\ iter' \in Live \cup {NIL} /\ PlaceOf(state', iter')

(* ... or an element is added.                                              *)
AddsValue ==
  /\ ValuePlace(iter)
  /\ \/ AppendValue("SCALAR", "HAVE_VALUE")
     \/ AppendValue("ARRAY", "EXPECT_VALUE")
     \/ AppendValue("OBJECT", "EXPECT_KEY")

AddsKey == iter \in Live /\ type[iter] = "OBJECT" /\ \E k \in Names : AppendKey(k)

Errs == \E s \in Complaint : Error(s)

LEMMA Complains ==
  /\ Error("UNEXPECTED_TOKEN") => Errs
  /\ Error("UNEXPECTED_EOF") => Errs
  /\ Error("UNEXPECTED_SYMBOL") => Errs
  /\ \A t : Unexpected(t) => Errs
BY DEF Errs, Complaint, Unexpected

LEMMA ErrorEnds ==
  ASSUME PlacesOK, Errs
  PROVE  EndsLoad
BY DEF Errs, PlacesOK, Error, Stop, StopIn, EndsLoad, Keep

LEMMA AssertEnds ==
  ASSUME PlacesOK, AssertFails
  PROVE  EndsLoad
BY DEF PlacesOK, AssertFails, Abort, EndsLoad, Keep

LEMMA CloseMoves ==
  ASSUME LoadInv, NEW container, Close(container)
  PROVE  MovesOn
<1> DEFINE closing == IF TypeOf(iter) = container THEN iter ELSE ParentOfType(iter, {container})
           outer == IF closing = NIL THEN NIL ELSE ContainerParent(closing)
<1>1. /\ GoOn(IF outer = NIL THEN "EXPECT_EOF" ELSE "HAVE_VALUE", outer) /\ Keep
  BY DEF Close
<1>2. TreeShape /\ iter \in Live \cup {NIL} /\ NIL \notin Live
  BY LoadedFacts DEF LoadInv, PlacesOK
<1>3. closing \in Live \cup {NIL}
  BY <1>2, ParentOfTypeLemma
<1> HIDE DEF closing
<1>4. /\ outer \in Live \cup {NIL}
      /\ outer # NIL => type[outer] \in {"OBJECT", "ARRAY"} /\ first_child[outer] # NIL
  BY <1>2, <1>3, ParentOfTypeLemma DEF ContainerParent
<1> HIDE DEF outer
<1>5. CASE outer = NIL
  <2>1. state' = "EXPECT_EOF" /\ iter' = NIL
    BY <1>1, <1>5 DEF GoOn
  <2>2. PlaceOf("EXPECT_EOF", NIL)
    BY DEF PlaceOf
  <2> QED BY <1>1, <2>1, <2>2 DEF GoOn, MovesOn, States
<1>6. CASE outer # NIL
  <2>1. state' = "HAVE_VALUE" /\ iter' = outer
    BY <1>1, <1>6 DEF GoOn
  <2>2. PlaceOf("HAVE_VALUE", outer)
    BY <1>4, <1>6 DEF PlaceOf, ValueType
  <2> QED BY <1>1, <1>4, <2>1, <2>2 DEF GoOn, MovesOn, States
<1> QED BY <1>5, <1>6

LEMMA BraceKind ==
  ASSUME LoadInv, ClosingBrace \/ ClosingBracket
  PROVE  EndsLoad \/ MovesOn
<1>1. PlacesOK
  BY DEF LoadInv
<1>2. Errs \/ AssertFails \/ \E container : Close(container)
  BY Complains DEF ClosingBrace, ClosingBracket
<1> QED BY <1>1, <1>2, CloseMoves, ErrorEnds, AssertEnds

LEMMA CommaKind ==
  ASSUME LoadInv, Comma
  PROVE  EndsLoad \/ MovesOn
<1> DEFINE c == IF TypeOf(iter) \in {"OBJECT", "ARRAY"} THEN iter ELSE ContainerParent(iter)
<1>1. \/ /\ c # NIL
         /\ GoOn(IF type[c] = "ARRAY" THEN "EXPECT_VALUE" ELSE "EXPECT_KEY", c)
         /\ Keep
      \/ c = NIL /\ AssertFails
      \/ c = NIL /\ iter' = NIL /\ Stop("UNEXPECTED_TOKEN") /\ Keep
  BY DEF Comma
<1>2. /\ TreeShape /\ iter \in Live \cup {NIL} /\ NIL \notin Live /\ PlacesOK
      /\ state \in States
  BY LoadedFacts DEF LoadInv, PlacesOK
<1>3. /\ c \in Live \cup {NIL}
      /\ c # NIL => type[c] \in {"OBJECT", "ARRAY"}
  BY <1>2, ParentOfTypeLemma DEF ContainerParent, TypeOf
<1> HIDE DEF c
<1>4. CASE c # NIL /\ type[c] = "ARRAY"
  <2>1. state' = "EXPECT_VALUE" /\ iter' = c /\ GoOn("EXPECT_VALUE", c) /\ Keep
    BY <1>1, <1>4 DEF GoOn
  <2>2. PlaceOf("EXPECT_VALUE", c)
    BY <1>3, <1>4 DEF PlaceOf
  <2> QED BY <1>3, <2>1, <2>2 DEF GoOn, MovesOn, States
<1>5. CASE c # NIL /\ type[c] = "OBJECT"
  <2>1. state' = "EXPECT_KEY" /\ iter' = c /\ GoOn("EXPECT_KEY", c) /\ Keep
    BY <1>1, <1>5 DEF GoOn
  <2>2. PlaceOf("EXPECT_KEY", c)
    BY <1>3, <1>5 DEF PlaceOf
  <2> QED BY <1>3, <2>1, <2>2 DEF GoOn, MovesOn, States
<1>6. CASE c = NIL
  <2>1. iter' = NIL /\ Stop("UNEXPECTED_TOKEN") /\ Keep => EndsLoad
    BY <1>2 DEF Stop, StopIn, EndsLoad, Complaint
  <2> QED BY <1>1, <1>2, <1>6, <2>1, AssertEnds
<1> QED BY <1>3, <1>4, <1>5, <1>6

LEMMA FinishEnds ==
  ASSUME Finish
  PROVE  EndsLoad
BY DEF Finish, EndsLoad, States

(* (The tokens are Zenon's: SMT has no name for the characters in them.)    *)
Opener(kind) == IF kind = "OBJECT" THEN "{" ELSE "["
Closer(kind) == IF kind = "OBJECT" THEN "}" ELSE "]"
CommaToken == ","
ColonToken == ":"

LEMMA TokenCases ==
  ASSUME NEW t
  PROVE  /\ ExpectKey(t) => \/ t \in Names /\ AppendKey(t)
                            \/ t = Closer("OBJECT") /\ ClosingBrace
                            \/ Errs
         /\ ExpectColon(t) => \/ t = ColonToken /\ GoOn("EXPECT_VALUE", iter) /\ Keep
                              \/ Errs
         /\ ExpectValue(t) => \/ t \in Names \cup {"scalar"} /\ AppendValue("SCALAR", "HAVE_VALUE")
                              \/ t = Opener("ARRAY") /\ AppendValue("ARRAY", "EXPECT_VALUE")
                              \/ t = Opener("OBJECT") /\ AppendValue("OBJECT", "EXPECT_KEY")
                              \/ t = Closer("ARRAY") /\ iter # NIL /\ ClosingBracket
                              \/ t = Closer("OBJECT") /\ iter # NIL /\ ClosingBrace
                              \/ Errs
         /\ HaveValue(t) => \/ t = Closer("OBJECT") /\ ClosingBrace
                            \/ t = Closer("ARRAY") /\ ClosingBracket
                            \/ t = CommaToken /\ Comma
                            \/ t = "EOF" /\ Finish
                            \/ Errs
         /\ ExpectEof(t) => (t = "EOF" /\ Finish) \/ Errs
<1>0. /\ Opener("OBJECT") = "{" /\ Opener("ARRAY") = "[" /\ CommaToken = ","
      /\ Closer("OBJECT") = "}" /\ Closer("ARRAY") = "]" /\ ColonToken = ":"
  BY Zenon DEF Opener, Closer, CommaToken, ColonToken
<1>1. ExpectKey(t) => \/ t \in Names /\ AppendKey(t)
                      \/ t = Closer("OBJECT") /\ ClosingBrace
                      \/ Errs
  BY <1>0, Complains, Zenon DEF ExpectKey
<1>2. ExpectColon(t) => (t = ColonToken /\ GoOn("EXPECT_VALUE", iter) /\ Keep) \/ Errs
  BY <1>0, Complains, Zenon DEF ExpectColon
<1>3. ExpectValue(t) => \/ t \in Names \cup {"scalar"} /\ AppendValue("SCALAR", "HAVE_VALUE")
                        \/ t = Opener("ARRAY") /\ AppendValue("ARRAY", "EXPECT_VALUE")
                        \/ t = Opener("OBJECT") /\ AppendValue("OBJECT", "EXPECT_KEY")
                        \/ t = Closer("ARRAY") /\ iter # NIL /\ ClosingBracket
                        \/ t = Closer("OBJECT") /\ iter # NIL /\ ClosingBrace
                        \/ Errs
  BY <1>0, Complains, Zenon DEF ExpectValue
<1>4. HaveValue(t) => \/ t = Closer("OBJECT") /\ ClosingBrace
                      \/ t = Closer("ARRAY") /\ ClosingBracket
                      \/ t = CommaToken /\ Comma
                      \/ t = "EOF" /\ Finish
                      \/ Errs
  BY <1>0, Complains, Zenon DEF HaveValue
<1>5. ExpectEof(t) => (t = "EOF" /\ Finish) \/ Errs
  BY <1>0, Complains, Zenon DEF ExpectEof
<1> QED BY <1>1, <1>2, <1>3, <1>4, <1>5

LEMMA ReadKind ==
  ASSUME LoadInv, NEW t, Read(t)
  PROVE  pc = "parse" /\ (EndsLoad \/ MovesOn \/ AddsValue \/ AddsKey)
<1>1. /\ pc = "parse"
      /\ \/ Errs
         \/ state = "EXPECT_KEY" /\ ExpectKey(t)
         \/ state = "EXPECT_COLON" /\ ExpectColon(t)
         \/ state = "EXPECT_VALUE" /\ ExpectValue(t)
         \/ state = "HAVE_VALUE" /\ HaveValue(t)
         \/ state = "EXPECT_EOF" /\ ExpectEof(t)
  BY Complains, Zenon DEF Read
<1>2. PlacesOK /\ PlaceOf(state, iter) /\ iter \in Live \cup {NIL}
  BY <1>1 DEF LoadInv, PlacesOK, Parsing
<1>3. Errs => EndsLoad
  BY <1>2, ErrorEnds
<1>4. CASE state = "EXPECT_KEY" /\ ExpectKey(t)
  BY <1>1, <1>2, <1>3, <1>4, TokenCases, BraceKind DEF PlaceOf, AddsKey
<1>5. CASE state = "EXPECT_COLON" /\ ExpectColon(t)
  <2>1. GoOn("EXPECT_VALUE", iter) /\ Keep => MovesOn
    BY <1>2, <1>5 DEF PlaceOf, MovesOn, GoOn, States
  <2> QED BY <1>1, <1>3, <1>5, <2>1, TokenCases
<1>6. CASE state = "EXPECT_VALUE" /\ ExpectValue(t)
  <2>1. ValuePlace(iter)
    BY <1>2, <1>6 DEF PlaceOf, ValuePlace
  <2> QED BY <1>1, <1>3, <1>6, <2>1, TokenCases, BraceKind DEF AddsValue
<1>7. CASE state = "HAVE_VALUE" /\ HaveValue(t)
  BY <1>1, <1>3, <1>7, TokenCases, BraceKind, CommaKind, FinishEnds
<1>8. CASE state = "EXPECT_EOF" /\ ExpectEof(t)
  BY <1>1, <1>3, <1>8, TokenCases, FinishEnds
<1> QED BY <1>1, <1>3, <1>4, <1>5, <1>6, <1>7, <1>8

----------------------------------------------------------------------------
(* What the renderer can do to the tree: nothing.                           *)

LEMMA TurningPointLemma ==
  ASSUME TreeShape, NEW n \in Live \cup {NIL}
  PROVE  /\ TurningPoint(n) \in Live \cup {NIL}
         /\ TurningPoint(n) # NIL => /\ sibling[TurningPoint(n)] \in Live
                                     /\ \E k \in 1 .. Capacity : Ancestors(n)[k] = TurningPoint(n)
<1> DEFINE H == {k \in 1 .. Capacity : Ancestors(n)[k] # NIL /\ sibling[Ancestors(n)[k]] # NIL}
<1>1. TurningPoint(n) = IF H = {} THEN NIL ELSE Ancestors(n)[Table!First(H)]
  BY DEF TurningPoint
<1>2. CASE H = {}
  BY <1>1, <1>2
<1>3. CASE H # {}
  <2>1. Table!First(H) \in H
    BY <1>3, FirstLemma
  <2>2. PICK k \in H : k = Table!First(H)
    BY <2>1
  <2>3. TurningPoint(n) = Ancestors(n)[k]
    BY <1>1, <1>3, <2>2
  <2>4. k \in 1 .. Capacity /\ Ancestors(n)[k] # NIL /\ sibling[Ancestors(n)[k]] # NIL
    OBVIOUS
  <2> HIDE DEF H
  <2>5. Ancestors(n)[k] \in Live
    BY <2>4, AncestorsLive
  <2> QED BY <2>3, <2>4, <2>5, LinkFacts
<1> QED BY <1>2, <1>3

LEMMA NextElementLemma ==
  ASSUME LoadedTree, NEW n \in Live \cup {NIL}
  PROVE  NextElement(n) \in Live \cup {NIL}
<1>1. TreeShape /\ NIL \notin Live /\ root \in Live \cup {NIL}
  BY LoadedFacts DEF LoadedTree
<1>2. BehindBranch(n) \in Live \cup {NIL}
  BY <1>1, TurningPointLemma DEF BehindBranch
<1>3. CASE n = NIL
  BY <1>1, <1>3 DEF NextElement
<1>4. CASE n # NIL /\ first_child[n] # NIL
  BY <1>1, <1>4, LinkFacts DEF NextElement
<1>5. CASE n # NIL /\ first_child[n] = NIL /\ sibling[n] # NIL
  BY <1>1, <1>5, LinkFacts DEF NextElement
<1>6. CASE n # NIL /\ first_child[n] = NIL /\ sibling[n] = NIL
  BY <1>2, <1>6 DEF NextElement
<1> QED BY <1>3, <1>4, <1>5, <1>6

Renders ==
  /\ Keep /\ pc # "parse" /\ pc' # "parse"
  /\ state' \in States /\ iter' \in Live \cup {NIL}

LEMMA VisitTurns ==
  ASSUME state \in States, VisitKey \/ VisitValue \/ AfterValue
  PROVE  /\ pc = "render"
         /\ \E s \in States, n \in {iter, NextElement(iter)} : \E st, w : Turn(s, n, st, w)
<1>1. \A s \in {"EXPECT_KEY", "EXPECT_VALUE", "HAVE_VALUE", "END"} : s \in States
  BY DEF States
<1>2. ASSUME VisitKey
      PROVE  pc = "render" /\ \E s \in States : \E st, w : Turn(s, NextElement(iter), st, w)
  BY <1>1, <1>2 DEF VisitKey, Misplaced
<1>3. ASSUME VisitValue
      PROVE  pc = "render" /\ \E s \in States : \E st, w : Turn(s, NextElement(iter), st, w)
  <2> DEFINE n == NextElement(iter)
  <2>1. /\ pc = "render"
        /\ \/ VisitScalar(n) \/ Misplaced(n)
           \/ \E o, c, s : s \in {"EXPECT_KEY", "EXPECT_VALUE"} /\ VisitContainer(n, o, c, s)
    BY <1>3, Zenon DEF VisitValue
  <2> HIDE DEF n
  <2>2. ASSUME NEW o, NEW c, NEW s \in {"EXPECT_KEY", "EXPECT_VALUE"}, VisitContainer(n, o, c, s)
        PROVE  \E z \in States : \E st, w : Turn(z, n, st, w)
    BY <1>1, <2>2 DEF VisitContainer
  <2>3. VisitScalar(n) \/ Misplaced(n) => \E z \in States : \E st, w : Turn(z, n, st, w)
    BY <1>1 DEF VisitScalar, Misplaced
  <2> QED BY <2>1, <2>2, <2>3 DEF n
<1>4. ASSUME AfterValue
      PROVE  pc = "render" /\ \E s \in States : \E st, w : Turn(s, iter, st, w)
  <2> DEFINE stop == IF sibling[iter] # NIL THEN iter ELSE TurningPoint(iter)
             w == CloseUpTo(writer, stop, iter)
             next == PutNewLine(Put(w, ","))
  <2>1. /\ pc = "render"
        /\ \/ Turn("END", iter, status, w)
           \/ \E s \in {"EXPECT_KEY", "EXPECT_VALUE"} : Turn(s, iter, status, next)
    BY <1>4, Zenon DEF AfterValue
  <2> HIDE DEF w, next
  <2> QED BY <1>1, <2>1
<1> QED BY <1>2, <1>3, <1>4

LEMMA RenderKind ==
  ASSUME LoadInv, RenderStart \/ EvaluateStart \/ RenderStep \/ GetStat
  PROVE  Renders
<1>1. /\ LoadedTree /\ state \in States /\ iter \in Live \cup {NIL}
      /\ NextElement(iter) \in Live \cup {NIL}
      /\ "EXPECT_VALUE" \in States /\ "END" \in States
  BY NextElementLemma DEF LoadInv, PlacesOK, States
<1>2. CASE RenderStart \/ EvaluateStart
  <2>1. PICK job, compact : Start(job, compact)
    BY <1>2 DEF RenderStart, EvaluateStart
  <2> QED BY <1>1, <2>1 DEF Start, Renders
<1>3. CASE VisitKey \/ VisitValue \/ AfterValue
  <2>1. /\ pc = "render"
        /\ \E s \in States, n \in {iter, NextElement(iter)} : \E st, w : Turn(s, n, st, w)
    BY <1>1, <1>3, VisitTurns
  <2>2. PICK s \in States, n \in {iter, NextElement(iter)} : \E st, w : Turn(s, n, st, w)
    BY <2>1
  <2>3. state' = s /\ iter' = n /\ Keep /\ pc' \in {"pass_end", "render"}
    BY <2>2 DEF Turn
  <2> QED BY <1>1, <2>1, <2>3 DEF Renders
<1>4. CASE EvaluateDone \/ FirstPassDone \/ SecondPassDone
  <2>1. /\ Keep /\ pc = "pass_end" /\ pc' \in {"idle", "render"}
        /\ state' \in {state, "EXPECT_VALUE"} /\ iter' \in {iter, NIL}
    BY <1>4 DEF EvaluateDone, FirstPassDone, SecondPassDone, Done, parserVars
  <2> QED BY <1>1, <2>1 DEF Renders
<1>5. CASE GetStat
  BY <1>1, <1>5 DEF GetStat, Renders
<1> QED BY <1>2, <1>3, <1>4, <1>5 DEF RenderStep

LEMMA SessionKind ==
  ASSUME LoadInv, [SessionNext]_sessionVars
  PROVE  \/ Load
         \/ \E t : Read(t)
         \/ Renders
         \/ UNCHANGED sessionVars
BY RenderKind DEF SessionNext

----------------------------------------------------------------------------
(* The invariant of loads.                                                  *)

LEMMA LoadStart ==
  ASSUME Load
  PROVE  LoadInv'
<1>1. PoolInv' /\ LinkTypes' /\ TreeOK' /\ Live' = {}
  BY ResetTreeLemma DEF Load
<1>2. /\ type' = [n \in Node |-> "UNKNOWN"] /\ key' = [n \in Node |-> NIL] /\ root' = NIL
      /\ Table!HashReset /\ pc' = "parse" /\ status' = "NO_ERROR"
      /\ state' = "EXPECT_VALUE" /\ iter' = NIL
  BY DEF Load, ResetTree
<1>3. NodesOK'
  BY <1>1, <1>2 DEF NodesOK, Link, ElementType
<1>4. TableOK'
  <2>1. CASE Hashed
    <3>1. TP!HashReset
      BY <1>2, SameReset
    <3>2. TP!TableInv'
      BY <2>1, <3>1, TP!EmptyTablePrime, TableAssumptions
    <3> QED BY <2>1, <3>2 DEF TableOK
  <2>2. CASE ~Hashed
    BY <1>2, <2>2 DEF TableOK, Table!HashReset, Table!Slot
  <2> QED BY <2>1, <2>2
<1>5. Entries' = {}
  BY <1>2, NoEntries
<1>6. JsonShape' /\ UniqueKeys' /\ AllCurrent' /\ Missing' = {} /\ MissingOK'
  BY <1>1, <1>5 DEF JsonShape, UniqueKeys, AllCurrent, Missing, MissingOK
<1>7. LoadedTree'
  BY <1>1, <1>2, <1>3, <1>4, <1>6 DEF LoadedTree, TreeShape
<1>8. PlacesOK'
  BY <1>2, <1>6 DEF PlacesOK, Parsing, PlaceOf, States
<1> QED BY <1>7, <1>8 DEF LoadInv

LEMMA KeptPlace ==
  ASSUME LoadedTree, Keep, NEW s, NEW n, PlaceOf(s, n), state' = s, iter' = n
  PROVE  PlaceOf(state, iter)'
BY KeepLemma DEF PlaceOf

LEMMA AppendValueStep ==
  ASSUME LoadInv, pc = "parse", ValuePlace(iter), NEW t \in ValueType,
         NEW s \in {"HAVE_VALUE", "EXPECT_VALUE", "EXPECT_KEY"},
         <<t, s>> \in {<<"SCALAR", "HAVE_VALUE">>, <<"ARRAY", "EXPECT_VALUE">>,
                       <<"OBJECT", "EXPECT_KEY">>},
         AppendValue(t, s)
  PROVE  LoadInv'
<1>1. LoadedTree /\ Missing = {} /\ NIL \notin Live /\ status = "NO_ERROR"
  BY LoadedFacts DEF LoadInv, PlacesOK, Parsing
<1>2. state' = s /\ s \in States /\ UNCHANGED tableVars
  BY DEF AppendValue, States
<1>3. CASE iter' = NIL /\ pc' = "idle" /\ UNCHANGED treeVars
  <2>1. LoadedTree' /\ Live' = Live
    BY <1>1, <1>2, <1>3, KeepLemma DEF Keep
  <2> QED BY <1>2, <1>3, <2>1 DEF LoadInv, PlacesOK
<1>4. CASE InsertNode(iter, LastChild(iter), t, NIL) /\ iter' = NextNode /\ UNCHANGED <<status, pc>>
  <2>1. LoadedTree' /\ Missing' = {}
    BY <1>1, <1>2, <1>4, ValueStep
  <2>2. Place(iter, LastChild(iter))
    <3>1. iter = NIL => LastChild(iter) = NIL
      BY DEF LastChild
    <3> QED BY <1>1, <3>1, PlaceLast DEF ValuePlace, Place, LoadedTree
  <2>3. /\ Live' = Live \cup {iter'} /\ type'[iter'] = t /\ first_child'[iter'] = NIL
    BY <1>1, <1>4, <2>2, InsertFacts DEF LoadedTree
  <2>4. PlaceOf(state, iter)'
    BY <1>2, <2>3 DEF PlaceOf, ValueType
  <2> QED BY <1>1, <1>2, <1>4, <2>1, <2>3, <2>4 DEF LoadInv, PlacesOK, Parsing
<1> QED BY <1>3, <1>4 DEF AppendValue

LEMMA AppendKeyStep ==
  ASSUME LoadInv, pc = "parse", iter \in Live, type[iter] = "OBJECT", NEW k \in Names,
         AppendKey(k)
  PROVE  LoadInv'
<1>1. LoadedTree /\ Missing = {} /\ NIL \notin Live /\ status = "NO_ERROR" /\ state \in States
  BY LoadedFacts DEF LoadInv, PlacesOK, Parsing
<1>2. CASE Keep /\ iter' = NIL /\ pc' = "idle" /\ state' = state
  BY <1>1, <1>2, KeepLemma DEF LoadInv, PlacesOK
<1> DEFINE taken == Hashed /\ Table!AddStatus(<<iter, k>>) # "NO_ERROR"
<1>3. CASE /\ FindKey(iter, k) = NIL /\ InsertNode(iter, LastChild(iter), "KEY", k)
           /\ IF Hashed THEN Table!HashAdd(<<iter, k>>, NextNode) ELSE UNCHANGED tableVars
           /\ IF taken THEN StopIn("EXPECT_COLON", Table!AddStatus(<<iter, k>>)) /\ iter' = NextNode
                       ELSE GoOn("EXPECT_COLON", NextNode)
  <2>1. LoadedTree' /\ (~taken => Missing' = {})
    BY <1>1, <1>3, KeyStep
  <2>2. Place(iter, LastChild(iter))
    BY <1>1, PlaceLast DEF LoadedTree
  <2>3. /\ Live' = Live \cup {NextNode} /\ type'[NextNode] = "KEY" /\ first_child'[NextNode] = NIL
    BY <1>1, <1>3, <2>2, InsertFacts DEF LoadedTree
  <2>4. CASE taken
    BY <1>1, <1>3, <2>1, <2>3, <2>4 DEF StopIn, LoadInv, PlacesOK, States
  <2>5. CASE ~taken
    <3>1. state' = "EXPECT_COLON" /\ iter' = NextNode /\ pc' = pc /\ status' = status
      BY <1>3, <2>5 DEF GoOn
    <3>2. PlaceOf(state, iter)'
      BY <2>3, <3>1 DEF PlaceOf
    <3> QED BY <1>1, <2>1, <2>3, <2>5, <3>1, <3>2 DEF LoadInv, PlacesOK, Parsing, States
  <2> QED BY <2>4, <2>5
<1>4. \/ Keep /\ iter' = NIL /\ pc' = "idle" /\ state' = state
      \/ /\ FindKey(iter, k) = NIL /\ InsertNode(iter, LastChild(iter), "KEY", k)
         /\ IF Hashed THEN Table!HashAdd(<<iter, k>>, NextNode) ELSE UNCHANGED tableVars
         /\ IF taken THEN StopIn("EXPECT_COLON", Table!AddStatus(<<iter, k>>)) /\ iter' = NextNode
                     ELSE GoOn("EXPECT_COLON", NextNode)
  BY DEF AppendKey, Stop, StopIn
<1> QED BY <1>2, <1>3, <1>4

LEMMA LoadInvStep == LoadInv /\ [SessionNext]_sessionVars => LoadInv'
<1> SUFFICES ASSUME LoadInv, [SessionNext]_sessionVars
             PROVE  LoadInv'
  OBVIOUS
<1>1. LoadedTree /\ PlacesOK
  BY DEF LoadInv
<1>2. CASE Load
  BY <1>2, LoadStart
<1>3. ASSUME NEW t, Read(t)
      PROVE  LoadInv'
  <2>1. pc = "parse" /\ (EndsLoad \/ MovesOn \/ AddsValue \/ AddsKey)
    BY <1>3, ReadKind
  <2>2. CASE EndsLoad
    BY <1>1, <2>2, KeepLemma DEF EndsLoad, LoadInv, PlacesOK
  <2>3. CASE MovesOn
    <3>1. /\ LoadedTree' /\ Live' = Live /\ Missing' = Missing
          /\ state' \in States /\ iter' \in Live \cup {NIL}
          /\ status' = status /\ PlaceOf(state, iter)'
      BY <1>1, <2>3, KeepLemma, KeptPlace DEF MovesOn
    <3> QED BY <1>1, <2>1, <3>1 DEF LoadInv, PlacesOK, Parsing
  <2>4. CASE AddsValue
    BY <2>1, <2>4, AppendValueStep DEF AddsValue, ValueType
  <2>5. CASE AddsKey
    BY <2>1, <2>5, AppendKeyStep DEF AddsKey
  <2> QED BY <2>1, <2>2, <2>3, <2>4, <2>5
<1>4. CASE Renders
  BY <1>1, <1>4, KeepLemma DEF Renders, LoadInv, PlacesOK
<1>5. CASE UNCHANGED sessionVars
  <2>1. Keep /\ state' = state /\ iter' = iter /\ pc' = pc /\ status' = status
    BY <1>5 DEF sessionVars, vars, parserVars, Keep
  <2>2. pc = "parse" => PlaceOf(state, iter)'
    BY <1>1, <2>1, KeptPlace DEF PlacesOK, Parsing
  <2> QED BY <1>1, <2>1, <2>2, KeepLemma DEF LoadInv, PlacesOK, Parsing
<1> QED BY <1>2, <1>3, <1>4, <1>5, SessionKind

LEMMA SessionStarts == SessionInit => LoadInv
<1> SUFFICES ASSUME SessionInit PROVE LoadInv
  OBVIOUS
<1>1. Init /\ state = "END" /\ iter = NIL /\ pc = "idle"
  BY DEF SessionInit, ParserInit, Init
<1>2. IInv /\ JsonShape /\ AllCurrent /\ Live = {} /\ root = NIL
  BY <1>1, InitSound, InitDocument, InitLemma DEF Init
<1>3. Missing = {} /\ UniqueKeys
  BY <1>2 DEF Missing, UniqueKeys
<1> QED BY <1>1, <1>2, <1>3 DEF LoadInv, LoadedTree, MissingOK, PlacesOK, IInv, States

LEMMA LoadInvariant == SessionSpec => []LoadInv
BY SessionStarts, LoadInvStep, PTL DEF SessionSpec

(***************************************************************************)
(* Whatever the text and the sizes of the pool and the key table, and       *)
(* however a load ends, at every token it leaves one tree, of the shape of  *)
(* JSON, with unique names, and a key table without stale entries.          *)
(***************************************************************************)
THEOREM LoadsLeaveTrees == SessionSpec => []LeavesTree
<1>1. LoadInv => LeavesTree
  BY DEF LoadInv, LoadedTree, LeavesTree, TreeShape, AllCurrent, Current, Entries, EntriesCurrent
<1> QED BY <1>1, LoadInvariant, PTL

(***************************************************************************)
(* What was loaded is found by its names, but for one key at most: the last *)
(* one, without a value, when it met a full key table.                      *)
(***************************************************************************)
THEOREM LoadsLoseOneKey == SessionSpec => []LosesOneKey
<1>1. ASSUME LoadInv
      PROVE  LosesOneKey
  <2>1. /\ LoadedTree /\ TreeShape /\ TableOK /\ JsonShape /\ UniqueKeys
        /\ Live \subseteq Node /\ MissingOK
    BY <1>1, LoadedFacts DEF LoadInv, LoadedTree
  <2>2. ASSUME NEW n \in LostKeys
        PROVE  n \in Missing
    <3>1. /\ n \in Live /\ type[n] = "KEY" /\ FindKey(parent[n], key[n]) # n
          /\ parent[n] \in Live /\ key[n] \in Names
      BY <2>1, LoadedFacts DEF LostKeys
    <3>2. Hashed
      BY <2>1, <3>1, LinearFindsKeys DEF FindKey
    <3>3. EntryOf(n) \notin Entries
      <4>1. EntryOf(n).hash = <<parent[n], key[n]>> /\ EntryOf(n).key_element = n
        BY DEF EntryOf
      <4> QED BY <2>1, <3>1, <3>2, <4>1, EntryFound DEF FindKey
    <3> QED BY <3>1, <3>2, <3>3 DEF Missing
  <2> QED BY <2>1, <2>2 DEF LosesOneKey, MissingOK
<1> QED BY <1>1, LoadInvariant, PTL

----------------------------------------------------------------------------
(* What the grammar makes of a token.                                       *)

TextType == [open : Seq(Container), expects : JSON!Expectation]

LEMMA PopLemma ==
  ASSUME NEW S, NEW s \in Seq(S)
  PROVE  /\ SubSeq(s, 1, Len(s) - 1) \in Seq(S)
         /\ s # <<>> =>
              /\ Len(s) > 0
              /\ Len(SubSeq(s, 1, Len(s) - 1)) = Len(s) - 1
              /\ \A i \in 1 .. Len(s) - 1 : SubSeq(s, 1, Len(s) - 1)[i] = s[i]
<1>1. Len(s) \in Nat /\ \A i \in 1 .. Len(s) : s[i] \in S
  BY ElementOfSeq, LenProperties
<1>2. CASE s = <<>>
  <2>1. Len(s) = 0
    BY <1>2, EmptySeq
  <2>2. \A i \in 1 .. Len(s) - 1 : s[i] \in S
    BY <1>1, <2>1
  <2>3. SubSeq(s, 1, Len(s) - 1) \in Seq(S)
    BY <1>1, <2>1, <2>2, SubSeqProperties
  <2> QED BY <1>2, <2>3
<1>3. CASE s # <<>>
  <2>1. Len(s) > 0
    BY <1>1, <1>3, EmptySeq
  <2> DEFINE m == Len(s) - 1
             rest == SubSeq(s, 1, m)
  <2>2. m \in Nat /\ \A i \in 1 .. m : s[i] \in S
    BY <1>1, <2>1
  <2> HIDE DEF m
  <2>3. /\ rest \in Seq(S) /\ Len(rest) = IF 1 <= m THEN m - 1 + 1 ELSE 0
        /\ \A i \in 1 .. m - 1 + 1 : rest[i] = s[1 + i - 1]
    BY <2>2, SubSeqProperties
  <2> HIDE DEF rest
  <2>4. Len(rest) = m /\ \A i \in 1 .. m : rest[i] = s[i]
    BY <2>2, <2>3
  <2> QED BY <2>1, <2>3, <2>4 DEF m, rest
<1> QED BY <1>2, <1>3

LEMMA AdvanceType ==
  ASSUME NEW g \in TextType, NEW token
  PROVE  JSON!Advance(g, token) \in TextType
<1>1. g.open \in Seq(Container) /\ g.expects \in JSON!Expectation
  BY DEF TextType
<1>2. \A open \in Seq(Container) : JSON!Valued(open) \in TextType
  BY DEF JSON!Valued, TextType, JSON!Expectation
<1>3. JSON!Closed(g) \in TextType
  BY <1>1, <1>2, PopLemma DEF JSON!Closed
<1>4. \A c \in Container, e \in JSON!Expectation : JSON!Opened(g, c, e) \in TextType
  BY <1>1 DEF JSON!Opened, TextType
<1>5. \A e \in JSON!Expectation : [g EXCEPT !.expects = e] \in TextType
  BY DEF TextType
<1>6. JSON!Wrong \in TextType
  BY EmptySeq DEF JSON!Wrong, TextType, JSON!Expectation
<1> QED
  BY <1>1, <1>2, <1>3, <1>4, <1>5, <1>6 DEF JSON!Advance, Container, JSON!Expectation

(* Tokens that fit, and what the others come to.                            *)
FitsObjectEnd(g) == JSON!Innermost(g) = "OBJECT" /\ g.expects \in {"first_key", "comma"}
FitsArrayEnd(g) == JSON!Innermost(g) = "ARRAY" /\ g.expects \in {"first_value", "comma"}

LEMMA AdvanceCases ==
  ASSUME NEW g
  PROVE  /\ JSON!Advance(g, "scalar") = IF JSON!WantsValue(g) THEN JSON!Valued(g.open) ELSE JSON!Wrong
         /\ JSON!Advance(g, "{") = IF JSON!WantsValue(g) THEN JSON!Opened(g, "OBJECT", "first_key")
                                                         ELSE JSON!Wrong
         /\ JSON!Advance(g, "[") = IF JSON!WantsValue(g) THEN JSON!Opened(g, "ARRAY", "first_value")
                                                         ELSE JSON!Wrong
         /\ JSON!Advance(g, "}") = IF FitsObjectEnd(g) THEN JSON!Closed(g) ELSE JSON!Wrong
         /\ JSON!Advance(g, "]") = IF FitsArrayEnd(g) THEN JSON!Closed(g) ELSE JSON!Wrong
         /\ JSON!Advance(g, ":") = IF g.expects = "colon" THEN [g EXCEPT !.expects = "value"]
                                                          ELSE JSON!Wrong
         /\ JSON!Advance(g, ",") =
              IF g.expects = "comma"
              THEN [g EXCEPT !.expects = IF JSON!Innermost(g) = "OBJECT" THEN "key" ELSE "value"]
              ELSE JSON!Wrong
<1>1. JSON!Advance(g, "scalar") = IF JSON!WantsValue(g) THEN JSON!Valued(g.open) ELSE JSON!Wrong
  BY Zenon DEF JSON!Advance
<1>2. JSON!Advance(g, "{") = IF JSON!WantsValue(g) THEN JSON!Opened(g, "OBJECT", "first_key")
                                                   ELSE JSON!Wrong
  BY Zenon DEF JSON!Advance
<1>3. JSON!Advance(g, "[") = IF JSON!WantsValue(g) THEN JSON!Opened(g, "ARRAY", "first_value")
                                                   ELSE JSON!Wrong
  BY Zenon DEF JSON!Advance
<1>4. JSON!Advance(g, "}") = IF FitsObjectEnd(g) THEN JSON!Closed(g) ELSE JSON!Wrong
  BY Zenon DEF JSON!Advance, FitsObjectEnd
<1>5. JSON!Advance(g, "]") = IF FitsArrayEnd(g) THEN JSON!Closed(g) ELSE JSON!Wrong
  BY Zenon DEF JSON!Advance, FitsArrayEnd
<1>6. JSON!Advance(g, ":") = IF g.expects = "colon" THEN [g EXCEPT !.expects = "value"]
                                                    ELSE JSON!Wrong
  BY Zenon DEF JSON!Advance
<1>7. JSON!Advance(g, ",") =
        IF g.expects = "comma"
        THEN [g EXCEPT !.expects = IF JSON!Innermost(g) = "OBJECT" THEN "key" ELSE "value"]
        ELSE JSON!Wrong
  BY Zenon DEF JSON!Advance
<1> QED BY <1>1, <1>2, <1>3, <1>4, <1>5, <1>6, <1>7, Zenon

LEMMA AdvanceString ==
  ASSUME NEW g
  PROVE  /\ JSON!WantsValue(g) => JSON!Advance(g, "string") = JSON!Valued(g.open)
         /\ JSON!WantsKey(g) => JSON!Advance(g, "string") = [g EXCEPT !.expects = "colon"]
         /\ ~JSON!WantsValue(g) /\ ~JSON!WantsKey(g) => JSON!Advance(g, "string") = JSON!Wrong
<1>1. JSON!WantsKey(g) => ~JSON!WantsValue(g)
  BY DEF JSON!WantsKey, JSON!WantsValue
<1>2. JSON!WantsValue(g) /\ ~JSON!WantsKey(g) =>
        JSON!Advance(g, "string") = JSON!Valued(g.open)
  BY Zenon DEF JSON!Advance
<1>3. ~JSON!WantsValue(g) /\ JSON!WantsKey(g) =>
        JSON!Advance(g, "string") = [g EXCEPT !.expects = "colon"]
  BY Zenon DEF JSON!Advance
<1>4. ~JSON!WantsValue(g) /\ ~JSON!WantsKey(g) => JSON!Advance(g, "string") = JSON!Wrong
  BY Zenon DEF JSON!Advance
<1> QED BY <1>1, <1>2, <1>3, <1>4

LEMMA WrongStays ==
  ASSUME NEW g, g.expects = "wrong", NEW token
  PROVE  JSON!Advance(g, token) = JSON!Wrong
<1>1. /\ ~JSON!WantsValue(g) /\ ~JSON!WantsKey(g)
      /\ g.expects \notin {"first_key", "comma"} /\ g.expects \notin {"first_value", "comma"}
      /\ g.expects # "colon" /\ g.expects # "comma"
  BY DEF JSON!WantsKey, JSON!WantsValue
<1> QED BY <1>1, Zenon DEF JSON!Advance

(* The grammar after the token t of the parser.                             *)
Taken(t) ==
  IF t \in Token THEN JSON!Advance(grammar, IF t \in Names THEN "string" ELSE t) ELSE grammar

LEMMA TakenCases ==
  ASSUME NEW t
  PROVE  /\ t \in Names => Taken(t) = JSON!Advance(grammar, "string")
         /\ t \in Punctuation \cup {"scalar"} => Taken(t) = JSON!Advance(grammar, t) /\ t \notin Names
         /\ t = "EOF" => Taken(t) = grammar /\ t \notin Names
<1>1. Names \cap (Punctuation \cup {"scalar", "EOF", "INVALID"}) = {}
  BY ParserAssumption
<1>2. ASSUME t \in Names
      PROVE  Taken(t) = JSON!Advance(grammar, "string")
  BY <1>2, Zenon DEF Taken, Token
<1>3. ASSUME t \in Punctuation \cup {"scalar"}
      PROVE  Taken(t) = JSON!Advance(grammar, t) /\ t \notin Names
  <2>1. t \notin Names
    BY <1>1, <1>3, Zenon
  <2> QED BY <1>3, <2>1, Zenon DEF Taken, Token
<1>4. ASSUME t = "EOF"
      PROVE  Taken(t) = grammar /\ t \notin Names
  <2>1. "EOF" \notin Names
    BY <1>1, Zenon
  <2>2. "EOF" \notin Punctuation \cup {"scalar"}
    BY Zenon DEF Punctuation
  <2> QED BY <1>4, <2>1, <2>2, Zenon DEF Taken, Token
<1> QED BY <1>2, <1>3, <1>4, Zenon

(* What is rightly refused: a token no JSON text goes on with, or the end   *)
(* of a text that is not complete.                                          *)
Rejected(t) ==
  \/ Taken(t) = JSON!Wrong
  \/ t = "EOF" /\ Taken(t) = grammar /\ grammar.expects # "end"

LEMMA OtherTokens ==
  ASSUME NEW t \in Token \cup {"EOF"}
  PROVE  t \in Names \/ t \in {"{", "}", "[", "]", ",", ":", "scalar", "EOF"}
BY Zenon DEF Token, Punctuation

LEMMA KeyTokens ==
  ASSUME JSON!WantsKey(grammar), NEW t \in Token \cup {"EOF"}, ExpectKey(t)
  PROVE  \/ t \in Names /\ AppendKey(t) /\ Taken(t) = [grammar EXCEPT !.expects = "colon"]
         \/ ClosingBrace
            /\ Taken(t) = IF FitsObjectEnd(grammar) THEN JSON!Closed(grammar) ELSE JSON!Wrong
         \/ Errs /\ Rejected(t)
<1>1. /\ ~JSON!WantsValue(grammar) /\ ~FitsArrayEnd(grammar)
      /\ grammar.expects # "colon" /\ grammar.expects # "comma" /\ grammar.expects # "end"
  BY DEF JSON!WantsKey, JSON!WantsValue, FitsArrayEnd
<1>2. CASE t \in Names
  <2>1. AppendKey(t) \/ (ClosingBrace /\ t = "}")
    BY <1>2, Zenon DEF ExpectKey
  <2>2. t # "}"
    BY <1>2, ParserAssumption, Zenon DEF Punctuation
  <2> QED BY <1>2, <2>1, <2>2, TakenCases, AdvanceString, Zenon
<1>3. CASE t = "}"
  <2>1. t \notin Names
    BY <1>3, TakenCases, Zenon DEF Punctuation
  <2>2. ClosingBrace
    BY <1>3, <2>1, Zenon DEF ExpectKey
  <2>3. Taken(t) = JSON!Advance(grammar, "}")
    BY <1>3, TakenCases, Zenon DEF Punctuation
  <2> QED BY <2>2, <2>3, AdvanceCases, Zenon
<1>4. CASE t \notin Names /\ t # "}"
  <2>1. Errs
    BY <1>4, Complains, Zenon DEF ExpectKey
  <2>2. CASE t = "EOF"
    BY <1>1, <2>1, <2>2, TakenCases, Zenon DEF Rejected
  <2>3. CASE t \in {"{", "[", "]", ",", ":", "scalar"}
    <3>1. Taken(t) = JSON!Advance(grammar, t)
      BY <2>3, TakenCases, Zenon DEF Punctuation
    <3>2. Taken(t) = JSON!Wrong
      BY <1>1, <2>3, <3>1, AdvanceCases, Zenon
    <3> QED BY <2>1, <3>2, Zenon DEF Rejected
  <2> QED BY <1>4, <2>2, <2>3, OtherTokens, Zenon
<1> QED BY <1>2, <1>3, <1>4, Zenon

LEMMA ColonTokens ==
  ASSUME grammar.expects = "colon", NEW t \in Token \cup {"EOF"}, ExpectColon(t)
  PROVE  \/ /\ GoOn("EXPECT_VALUE", iter) /\ Keep
            /\ Taken(t) = [grammar EXCEPT !.expects = "value"]
         \/ Errs /\ Rejected(t)
<1>1. /\ ~JSON!WantsValue(grammar) /\ ~JSON!WantsKey(grammar)
      /\ ~FitsArrayEnd(grammar) /\ ~FitsObjectEnd(grammar)
      /\ grammar.expects # "comma" /\ grammar.expects # "end"
  BY DEF JSON!WantsKey, JSON!WantsValue, FitsArrayEnd, FitsObjectEnd
<1>2. CASE t = ":"
  <2>1. GoOn("EXPECT_VALUE", iter) /\ Keep
    BY <1>2, Zenon DEF ExpectColon
  <2>2. Taken(t) = JSON!Advance(grammar, ":")
    BY <1>2, TakenCases, Zenon DEF Punctuation
  <2> QED BY <2>1, <2>2, AdvanceCases, Zenon
<1>3. CASE t # ":"
  <2>1. Errs
    BY <1>3, Complains, Zenon DEF ExpectColon
  <2>2. CASE t = "EOF"
    BY <1>1, <2>1, <2>2, TakenCases, Zenon DEF Rejected
  <2>3. CASE t \in Names
    BY <1>1, <2>1, <2>3, TakenCases, AdvanceString, Zenon DEF Rejected
  <2>4. CASE t \in {"{", "}", "[", "]", ",", "scalar"}
    <3>1. Taken(t) = JSON!Advance(grammar, t)
      BY <2>4, TakenCases, Zenon DEF Punctuation
    <3>2. Taken(t) = JSON!Wrong
      BY <1>1, <2>4, <3>1, AdvanceCases, Zenon
    <3> QED BY <2>1, <3>2, Zenon DEF Rejected
  <2> QED BY <1>3, <2>2, <2>3, <2>4, OtherTokens, Zenon
<1> QED BY <1>2, <1>3, Zenon

LEMMA ValueTokens ==
  ASSUME JSON!WantsValue(grammar), iter = NIL => JSON!Innermost(grammar) # "ARRAY",
         NEW t \in Token \cup {"EOF"}, ExpectValue(t)
  PROVE  \/ AppendValue("SCALAR", "HAVE_VALUE") /\ Taken(t) = JSON!Valued(grammar.open)
         \/ AppendValue("ARRAY", "EXPECT_VALUE")
            /\ Taken(t) = JSON!Opened(grammar, "ARRAY", "first_value")
         \/ AppendValue("OBJECT", "EXPECT_KEY")
            /\ Taken(t) = JSON!Opened(grammar, "OBJECT", "first_key")
         \/ ClosingBracket
            /\ Taken(t) = IF FitsArrayEnd(grammar) THEN JSON!Closed(grammar) ELSE JSON!Wrong
         \/ ClosingBrace /\ Taken(t) = JSON!Wrong
         \/ Errs /\ Rejected(t)
<1>1. /\ ~JSON!WantsKey(grammar) /\ ~FitsObjectEnd(grammar)
      /\ grammar.expects # "colon" /\ grammar.expects # "comma" /\ grammar.expects # "end"
      /\ iter = NIL => ~FitsArrayEnd(grammar)
  BY DEF JSON!WantsKey, JSON!WantsValue, FitsObjectEnd, FitsArrayEnd
<1>2. CASE t \in Names \cup {"scalar"}
  <2>1. t \notin {"[", "{", "]", "}", ",", ":", "EOF"}
    BY <1>2, ParserAssumption, Zenon DEF Punctuation
  <2>2. AppendValue("SCALAR", "HAVE_VALUE")
    BY <1>2, <2>1, Zenon DEF ExpectValue
  <2>3. Taken(t) = JSON!Valued(grammar.open)
    BY <1>2, TakenCases, AdvanceCases, AdvanceString, Zenon
  <2> QED BY <2>2, <2>3, Zenon
<1>3. CASE t \in {"{", "}", "[", "]", ",", ":"}
  <2>1. t \notin Names \cup {"scalar"} /\ Taken(t) = JSON!Advance(grammar, t)
    BY <1>3, TakenCases, Zenon DEF Punctuation
  <2>2. CASE t = "["
    <3>1. AppendValue("ARRAY", "EXPECT_VALUE")
      BY <2>1, <2>2, Zenon DEF ExpectValue
    <3> QED BY <2>1, <2>2, <3>1, AdvanceCases, Zenon
  <2>3. CASE t = "{"
    <3>1. AppendValue("OBJECT", "EXPECT_KEY")
      BY <2>1, <2>3, Zenon DEF ExpectValue
    <3> QED BY <2>1, <2>3, <3>1, AdvanceCases, Zenon
  <2>4. CASE t = "]"
    <3>1. ClosingBracket \/ (Errs /\ iter = NIL)
      BY <2>1, <2>4, Complains, Zenon DEF ExpectValue
    <3> QED BY <1>1, <2>1, <2>4, <3>1, AdvanceCases, Zenon DEF Rejected
  <2>5. CASE t = "}"
    <3>1. ClosingBrace \/ Errs
      BY <2>1, <2>5, Complains, Zenon DEF ExpectValue
    <3> QED BY <1>1, <2>1, <2>5, <3>1, AdvanceCases, Zenon DEF Rejected
  <2>6. CASE t \in {",", ":"}
    <3>1. Errs
      BY <2>1, <2>6, Complains, Zenon DEF ExpectValue
    <3> QED BY <1>1, <2>1, <2>6, <3>1, AdvanceCases, Zenon DEF Rejected
  <2> QED BY <1>3, <2>2, <2>3, <2>4, <2>5, <2>6, Zenon
<1>4. CASE t = "EOF"
  <2>1. t \notin Names
    BY <1>4, TakenCases, Zenon
  <2>2. Errs
    BY <1>4, <2>1, Complains, Zenon DEF ExpectValue
  <2> QED BY <1>1, <1>4, <2>2, TakenCases, Zenon DEF Rejected
<1> QED BY <1>2, <1>3, <1>4, OtherTokens, Zenon

LEMMA EndTokens ==
  ASSUME grammar.expects \in {"end", "comma"}, NEW t \in Token \cup {"EOF"}, HaveValue(t)
  PROVE  \/ ClosingBrace
            /\ Taken(t) = IF FitsObjectEnd(grammar) THEN JSON!Closed(grammar) ELSE JSON!Wrong
         \/ ClosingBracket
            /\ Taken(t) = IF FitsArrayEnd(grammar) THEN JSON!Closed(grammar) ELSE JSON!Wrong
         \/ Comma
            /\ Taken(t) =
                 IF grammar.expects = "comma"
                 THEN [grammar EXCEPT !.expects =
                         IF JSON!Innermost(grammar) = "OBJECT" THEN "key" ELSE "value"]
                 ELSE JSON!Wrong
         \/ Finish
         \/ Errs /\ Rejected(t)
         \/ Errs /\ t = "EOF" /\ Taken(t) = grammar /\ (parent[iter] # NIL \/ HasChild(iter))
<1>1. ~JSON!WantsValue(grammar) /\ ~JSON!WantsKey(grammar) /\ grammar.expects # "colon"
  BY DEF JSON!WantsKey, JSON!WantsValue
<1>2. CASE t = "}"
  <2>1. ClosingBrace
    BY <1>2, Zenon DEF HaveValue
  <2>2. Taken(t) = JSON!Advance(grammar, "}")
    BY <1>2, TakenCases, Zenon DEF Punctuation
  <2> QED BY <2>1, <2>2, AdvanceCases, Zenon
<1>3. CASE t = "]"
  <2>1. ClosingBracket
    BY <1>3, Zenon DEF HaveValue
  <2>2. Taken(t) = JSON!Advance(grammar, "]")
    BY <1>3, TakenCases, Zenon DEF Punctuation
  <2> QED BY <2>1, <2>2, AdvanceCases, Zenon
<1>4. CASE t = ","
  <2>1. Comma
    BY <1>4, Zenon DEF HaveValue
  <2>2. Taken(t) = JSON!Advance(grammar, ",")
    BY <1>4, TakenCases, Zenon DEF Punctuation
  <2> QED BY <2>1, <2>2, AdvanceCases, Zenon
<1>5. CASE t = "EOF"
  <2>1. Finish \/ (Errs /\ (parent[iter] # NIL \/ HasChild(iter)))
    BY <1>5, Complains, Zenon DEF HaveValue
  <2> QED BY <1>5, <2>1, TakenCases, Zenon
<1>6. CASE t \notin {"}", "]", ",", "EOF"}
  <2>1. Errs
    BY <1>6, Complains, Zenon DEF HaveValue
  <2>2. CASE t \in Names
    BY <1>1, <2>1, <2>2, TakenCases, AdvanceString, Zenon DEF Rejected
  <2>3. CASE t \in {"{", "[", ":", "scalar"}
    <3>1. Taken(t) = JSON!Advance(grammar, t)
      BY <2>3, TakenCases, Zenon DEF Punctuation
    <3>2. Taken(t) = JSON!Wrong
      BY <1>1, <2>3, <3>1, AdvanceCases, Zenon
    <3> QED BY <2>1, <3>2, Zenon DEF Rejected
  <2> QED BY <1>6, <2>2, <2>3, OtherTokens, Zenon
<1> QED BY <1>2, <1>3, <1>4, <1>5, <1>6, Zenon

LEMMA EofTokens ==
  ASSUME grammar.expects = "end", NEW t \in Token \cup {"EOF"}, ExpectEof(t)
  PROVE  Finish \/ (Errs /\ Rejected(t))
<1>1. /\ ~JSON!WantsValue(grammar) /\ ~JSON!WantsKey(grammar)
      /\ ~FitsArrayEnd(grammar) /\ ~FitsObjectEnd(grammar)
      /\ grammar.expects # "comma" /\ grammar.expects # "colon"
  BY DEF JSON!WantsKey, JSON!WantsValue, FitsArrayEnd, FitsObjectEnd
<1>2. CASE t = "EOF"
  BY <1>2, Zenon DEF ExpectEof
<1>3. CASE t # "EOF"
  <2>1. Errs
    BY <1>3, Complains, Zenon DEF ExpectEof
  <2>2. CASE t \in Names
    BY <1>1, <2>1, <2>2, TakenCases, AdvanceString, Zenon DEF Rejected
  <2>3. CASE t \in {"{", "}", "[", "]", ",", ":", "scalar"}
    <3>1. Taken(t) = JSON!Advance(grammar, t)
      BY <2>3, TakenCases, Zenon DEF Punctuation
    <3>2. Taken(t) = JSON!Wrong
      BY <1>1, <2>3, <3>1, AdvanceCases, Zenon
    <3> QED BY <2>1, <3>2, Zenon DEF Rejected
  <2> QED BY <1>3, <2>2, <2>3, OtherTokens, Zenon
<1> QED BY <1>2, <1>3, Zenon

----------------------------------------------------------------------------
(* The containers around an element.                                        *)

Outer(n) ==
  IF parent[n] = NIL THEN NIL
  ELSE IF type[parent[n]] = "KEY" THEN parent[parent[n]] ELSE parent[n]

Around(n) == IF n = NIL THEN NIL ELSE IF type[n] \in Container THEN n ELSE Outer(n)

LEMMA OuterLemma ==
  ASSUME LoadedTree, NEW n \in Live
  PROVE  /\ Outer(n) \in Live \cup {NIL}
         /\ Outer(n) # NIL => type[Outer(n)] \in Container /\ first_child[Outer(n)] # NIL
         /\ Outer(n) = NIL <=> parent[n] = NIL
         /\ type[n] = "KEY" => Outer(n) = parent[n]
<1>1. /\ PoolInv /\ TreeOK /\ JsonShape /\ NIL \notin Live
      /\ \A m \in Live : /\ parent[m] \in Live \cup {NIL} /\ type[m] \in ElementType
                         /\ type[m] = "KEY" => parent[m] \in Live /\ type[parent[m]] = "OBJECT"
  BY LoadedFacts
<1>2. \A m \in Live : parent[m] # NIL => parent[m] \in Live /\ first_child[parent[m]] # NIL
  BY <1>1, ChildlessLemma
<1>3. \A m \in Live : parent[m] # NIL /\ type[parent[m]] # "KEY" => type[parent[m]] \in Container
  BY <1>1, <1>2 DEF JsonShape, ElementType, ValueType, Container
<1>4. CASE parent[n] = NIL
  BY <1>1, <1>4 DEF Outer
<1>5. CASE parent[n] # NIL /\ type[parent[n]] # "KEY"
  BY <1>1, <1>2, <1>3, <1>5 DEF Outer
<1>6. CASE parent[n] # NIL /\ type[parent[n]] = "KEY"
  <2>1. parent[n] \in Live /\ parent[parent[n]] \in Live /\ type[parent[parent[n]]] = "OBJECT"
    BY <1>1, <1>2, <1>6
  <2>2. type[n] # "KEY"
    BY <1>1, <1>6
  <2> QED BY <1>1, <1>2, <1>6, <2>1, <2>2 DEF Outer, Container
<1> QED BY <1>4, <1>5, <1>6

LEMMA NothingAbove ==
  ASSUME NEW n, Above(n) = NIL
  PROVE  \A k \in 1 .. Capacity : Ancestors(n)[k] = NIL
<1> DEFINE D == {k \in 1 .. Capacity : Ancestors(n)[k] # NIL}
<1> SUFFICES ASSUME D # {} PROVE FALSE
  OBVIOUS
<1>1. D \subseteq Nat
  BY CapacityAssumption
<1>2. PICK d \in D : \A e \in D : d <= e
  <2> HIDE DEF D
  <2> QED BY <1>1, LeastLemma
<1>3. d \in 1 .. Capacity /\ Ancestors(n)[d] # NIL
  OBVIOUS
<1>4. d # 1
  BY <1>3, AncestorsUp
<1>5. d - 1 \in 1 .. Capacity /\ d - 1 < d /\ d - 1 \in Nat
  BY <1>3, <1>4, CapacityAssumption
<1>6. Ancestors(n)[d - 1] = NIL
  BY <1>1, <1>2, <1>5
<1>7. Ancestors(n)[d] = Above(Ancestors(n)[d - 1])
  BY <1>3, <1>4, AncestorsUp
<1> QED BY <1>3, <1>6, <1>7 DEF Above

LEMMA FoundAbove ==
  ASSUME LoadedTree, NEW n \in Live, NEW types \in SUBSET Container,
         Outer(n) # NIL => type[Outer(n)] \in types
  PROVE  ParentOfType(n, types) = Outer(n)
<1> DEFINE H == Hits(n, types)
<1>1. /\ TreeOK /\ NIL \notin Live /\ Live \subseteq Node
      /\ \A m \in Live : /\ parent[m] \in Live \cup {NIL}
                         /\ type[m] = "KEY" => parent[m] \in Live /\ type[parent[m]] = "OBJECT"
  BY LoadedFacts
<1>2. H \in SUBSET (1 .. Capacity)
  BY DEF Hits
<1>3. 1 \in 1 .. Capacity /\ Ancestors(n)[1] = parent[n]
  BY <1>1, AncestorsUp, CapacityAssumption DEF Above
<1>4. CASE parent[n] = NIL
  <2>1. H = {}
    BY <1>1, <1>4, NothingAbove DEF Above, Hits
  <2> QED BY <1>4, <2>1, ParentOfTypeDef DEF Outer
<1>5. CASE parent[n] # NIL /\ type[parent[n]] # "KEY"
  <2>1. Outer(n) = parent[n] /\ 1 \in H
    BY <1>3, <1>5 DEF Outer, Hits
  <2>2. Table!First(H) = 1
    <3>1. Table!First(H) \in 1 .. Capacity /\ Table!First(H) <= 1
      BY <1>2, <2>1, FirstLemma
    <3>2. \A x \in 1 .. Capacity : x <= 1 => x = 1
      BY CapacityAssumption
    <3> HIDE DEF H
    <3> QED BY <3>1, <3>2
  <2> QED BY <1>3, <2>1, <2>2, ParentOfTypeDef
<1>6. CASE parent[n] # NIL /\ type[parent[n]] = "KEY"
  <2> DEFINE p == parent[n]
  <2>1. p \in Live /\ parent[p] \in Live /\ Outer(n) = parent[p] /\ type[p] = "KEY"
    BY <1>1, <1>6 DEF Outer
  <2>2. p # n
    <3>1. {n} \in SUBSET Live /\ {n} # {}
      OBVIOUS
    <3>2. \E m \in {n} : parent[m] \notin {n}
      BY <1>1, <3>1 DEF TreeOK, Acyclic
    <3> QED BY <3>2
  <2>3. 2 \in 1 .. Capacity
    <3>1. n \in 0 .. Capacity - 1 /\ p \in 0 .. Capacity - 1
      BY <1>1, <2>1 DEF Node
    <3> QED BY <2>2, <3>1, CapacityAssumption
  <2>4. Ancestors(n)[2] = parent[p]
    <3>1. Ancestors(n)[2] = Above(Ancestors(n)[1])
      BY <2>3, AncestorsUp
    <3> QED BY <1>1, <1>3, <2>1, <3>1 DEF Above
  <2>5. 2 \in H /\ 1 \notin H
    <3>1. parent[p] # NIL
      BY <1>1, <2>1
    <3> QED BY <1>3, <2>1, <2>3, <2>4, <3>1 DEF Hits, Container
  <2>6. Table!First(H) = 2
    <3>1. Table!First(H) \in 1 .. Capacity /\ Table!First(H) <= 2 /\ Table!First(H) # 1
      BY <1>2, <2>5, FirstLemma
    <3>2. \A x \in 1 .. Capacity : x <= 2 /\ x # 1 => x = 2
      BY CapacityAssumption
    <3> HIDE DEF H
    <3> QED BY <3>1, <3>2
  <2> QED BY <2>1, <2>4, <2>5, <2>6, ParentOfTypeDef
<1> QED BY <1>4, <1>5, <1>6

LEMMA ContainerAbove ==
  ASSUME LoadedTree, NEW n \in Live
  PROVE  ContainerParent(n) = Outer(n)
BY FoundAbove, OuterLemma DEF ContainerParent, Container

----------------------------------------------------------------------------
(* The open containers of the text are the containers around a node.        *)

Mirrors(f, open, n) ==
  /\ f \in [1 .. Len(open) -> Live]
  /\ \A i \in 1 .. Len(open) : /\ type[f[i]] = open[i]
                               /\ Outer(f[i]) = IF i = 1 THEN NIL ELSE f[i - 1]
  /\ n = IF open = <<>> THEN NIL ELSE f[Len(open)]

OpenAround(open, n) == \E f : Mirrors(f, open, n)

LEMMA NothingOpen == OpenAround(<<>>, NIL)
<1> DEFINE f == [i \in 1 .. 0 |-> NIL]
<1>1. Mirrors(f, <<>>, NIL)
  BY DEF Mirrors
<1> QED BY <1>1 DEF OpenAround

LEMMA OpenEnds ==
  ASSUME NEW open \in Seq(Container), NEW n, OpenAround(open, n), NIL \notin Live
  PROVE  /\ open = <<>> <=> n = NIL
         /\ n # NIL => n \in Live /\ type[n] = open[Len(open)]
<1>1. PICK f : Mirrors(f, open, n)
  BY DEF OpenAround
<1>2. open # <<>> => Len(open) \in 1 .. Len(open)
  BY EmptySeq, LenProperties
<1> QED BY <1>1, <1>2 DEF Mirrors

LEMMA OpenLess ==
  ASSUME NEW open \in Seq(Container), NEW n, OpenAround(open, n), n # NIL, NIL \notin Live
  PROVE  OpenAround(SubSeq(open, 1, Len(open) - 1), Outer(n))
<1>1. PICK f : Mirrors(f, open, n)
  BY DEF OpenAround
<1> DEFINE l == Len(open)
           rest == SubSeq(open, 1, l - 1)
           g == [i \in 1 .. l - 1 |-> f[i]]
<1>2. open # <<>>
  BY <1>1 DEF Mirrors
<1>3. /\ l \in Nat /\ l > 0 /\ rest \in Seq(Container) /\ Len(rest) = l - 1
      /\ \A i \in 1 .. l - 1 : rest[i] = open[i]
  BY <1>2, PopLemma, LenProperties
<1>4. rest = <<>> <=> l - 1 = 0
  BY <1>3, EmptySeq
<1>5. /\ f \in [1 .. l -> Live]
      /\ \A i \in 1 .. l : /\ type[f[i]] = open[i]
                           /\ Outer(f[i]) = IF i = 1 THEN NIL ELSE f[i - 1]
      /\ n = f[l]
  BY <1>1, <1>2 DEF Mirrors
<1> HIDE DEF l, rest
<1>6. g \in [1 .. l - 1 -> Live]
  BY <1>3, <1>5
<1>7. ASSUME NEW i \in 1 .. l - 1
      PROVE  type[g[i]] = rest[i] /\ Outer(g[i]) = IF i = 1 THEN NIL ELSE g[i - 1]
  BY <1>3, <1>5
<1>8. Outer(n) = IF rest = <<>> THEN NIL ELSE g[l - 1]
  BY <1>3, <1>4, <1>5
<1> HIDE DEF g
<1>9. Mirrors(g, rest, Outer(n))
  BY <1>3, <1>6, <1>7, <1>8 DEF Mirrors
<1> QED BY <1>9 DEF OpenAround, rest, l

LEMMA OpenMore ==
  ASSUME NEW open \in Seq(Container), NEW n, OpenAround(open, n),
         NEW m \in Live, type[m] \in Container, Outer(m) = n
  PROVE  OpenAround(Append(open, type[m]), m)
<1>1. PICK f : Mirrors(f, open, n)
  BY DEF OpenAround
<1> DEFINE l == Len(open)
           more == Append(open, type[m])
           g == [i \in 1 .. l + 1 |-> IF i = l + 1 THEN m ELSE f[i]]
<1>2. /\ l \in Nat /\ Len(more) = l + 1 /\ more # <<>> /\ more[l + 1] = type[m]
      /\ \A i \in 1 .. l : more[i] = open[i]
  BY AppendProperties, LenProperties
<1>3. open = <<>> <=> l = 0
  BY EmptySeq
<1>4. /\ f \in [1 .. l -> Live]
      /\ \A i \in 1 .. l : /\ type[f[i]] = open[i]
                           /\ Outer(f[i]) = IF i = 1 THEN NIL ELSE f[i - 1]
      /\ n = IF open = <<>> THEN NIL ELSE f[l]
  BY <1>1 DEF Mirrors
<1> HIDE DEF l, more
<1>5. g \in [1 .. l + 1 -> Live]
  BY <1>2, <1>4
<1>6. ASSUME NEW i \in 1 .. l + 1
      PROVE  type[g[i]] = more[i] /\ Outer(g[i]) = IF i = 1 THEN NIL ELSE g[i - 1]
  <2>1. CASE i = l + 1
    BY <1>2, <1>3, <1>4, <2>1
  <2>2. CASE i # l + 1
    <3>1. i \in 1 .. l /\ i - 1 # l + 1
      BY <1>2, <2>2
    <3>2. i # 1 => i - 1 \in 1 .. l + 1
      BY <1>2, <3>1
    <3> QED BY <1>2, <1>4, <2>2, <3>1, <3>2
  <2> QED BY <2>1, <2>2
<1>7. g[l + 1] = m
  BY <1>2
<1> HIDE DEF g
<1>8. Mirrors(g, more, m)
  BY <1>2, <1>5, <1>6, <1>7 DEF Mirrors
<1> QED BY <1>8 DEF OpenAround, more

(* What is around the elements does not change when one is added.           *)
LEMMA OpenKept ==
  ASSUME LoadedTree, NEW open, NEW n, OpenAround(open, n), Live \subseteq Live',
         \A m \in Live : type'[m] = type[m] /\ parent'[m] = parent[m]
  PROVE  /\ OpenAround(open, n)'
         /\ \A m \in Live : Outer(m)' = Outer(m) /\ Around(m)' = Around(m)
<1>1. NIL \notin Live /\ \A m \in Live : parent[m] \in Live \cup {NIL}
  BY LoadedFacts
<1>2. \A m \in Live : Outer(m)' = Outer(m) /\ Around(m)' = Around(m)
  BY <1>1 DEF Outer, Around
<1>3. PICK f : Mirrors(f, open, n)
  BY DEF OpenAround
<1>4. Mirrors(f, open, n)'
  BY <1>2, <1>3 DEF Mirrors
<1> QED BY <1>2, <1>4 DEF OpenAround

----------------------------------------------------------------------------
(* The parser and the grammar are at the same point of the text.            *)

Agrees ==
  /\ OpenAround(grammar.open, Around(iter))
  /\ state = "EXPECT_KEY" =>
       grammar.expects = IF first_child[iter] = NIL THEN "first_key" ELSE "key"
  /\ state = "EXPECT_COLON" => grammar.expects = "colon"
  /\ state = "EXPECT_VALUE" =>
       grammar.expects = IF TypeOf(iter) = "ARRAY" /\ ~HasChild(iter) THEN "first_value"
                                                                     ELSE "value"
  /\ state = "HAVE_VALUE" =>
       grammar.expects = IF grammar.open = <<>> THEN "end" ELSE "comma"
  /\ state = "EXPECT_EOF" => grammar.open = <<>> /\ grammar.expects = "end"

(* A token is no JSON, or ends a text too early, or the load ends without   *)
(* blaming the text, or the parser goes on with the grammar.                *)
Outcome(t) ==
  \/ grammar' = JSON!Wrong
  \/ t = "EOF" /\ grammar'.expects # "end" /\ pc' # "parse"
  \/ pc' = "idle" /\ status' \notin Complaint
  \/ pc' = "parse" /\ Agrees'

(* The state in which a token comes.                                        *)
AtToken ==
  /\ LoadInv /\ pc = "parse" /\ grammar \in TextType /\ Agrees

LEMMA AtTokenFacts ==
  ASSUME AtToken
  PROVE  /\ LoadedTree /\ PlaceOf(state, iter) /\ status = "NO_ERROR" /\ pc = "parse"
         /\ NIL \notin Live /\ iter \in Live \cup {NIL} /\ state \in States
         /\ grammar.open \in Seq(Container) /\ grammar.expects \in JSON!Expectation
         /\ OpenAround(grammar.open, Around(iter))
         /\ grammar.open = <<>> <=> Around(iter) = NIL
         /\ Around(iter) # NIL => /\ Around(iter) \in Live
                                  /\ type[Around(iter)] = JSON!Innermost(grammar)
         /\ Around(iter) = NIL => JSON!Innermost(grammar) = "none"
<1>1. /\ LoadedTree /\ PlaceOf(state, iter) /\ status = "NO_ERROR" /\ pc = "parse"
      /\ NIL \notin Live /\ iter \in Live \cup {NIL} /\ state \in States
  BY LoadedFacts DEF AtToken, LoadInv, PlacesOK, Parsing
<1>2. grammar.open \in Seq(Container) /\ grammar.expects \in JSON!Expectation
  BY DEF AtToken, TextType
<1>3. OpenAround(grammar.open, Around(iter))
  BY DEF AtToken, Agrees
<1> QED BY <1>1, <1>2, <1>3, OpenEnds DEF JSON!Innermost

LEMMA ErrOutcome ==
  ASSUME Errs, NEW t, Rejected(t), grammar' = Taken(t)
  PROVE  Outcome(t)
<1>1. pc' = "idle"
  BY DEF Errs, Error, Stop, StopIn
<1> QED BY <1>1 DEF Rejected, Outcome

LEMMA ClosingIsAround ==
  ASSUME AtToken, NEW container \in Container, JSON!Innermost(grammar) = container
  PROVE  LET c == IF TypeOf(iter) = container THEN iter ELSE ParentOfType(iter, {container})
         IN c = Around(iter) /\ c \in Live /\ type[c] = container
<1>1. Around(iter) # NIL /\ Around(iter) \in Live /\ type[Around(iter)] = container
  BY AtTokenFacts DEF Container
<1>2. iter # NIL /\ iter \in Live
  BY <1>1, AtTokenFacts DEF Around
<1>3. CASE type[iter] = container
  BY <1>1, <1>2, <1>3 DEF Around, TypeOf
<1>4. CASE type[iter] # container
  <2>1. type[iter] \notin Container /\ Around(iter) = Outer(iter)
    BY <1>1, <1>2, <1>4 DEF Around
  <2>2. ParentOfType(iter, {container}) = Outer(iter)
    BY <1>1, <1>2, <2>1, FoundAbove, AtTokenFacts
  <2> QED BY <1>1, <1>2, <1>4, <2>1, <2>2 DEF TypeOf
<1> QED BY <1>3, <1>4

(* The innermost container is closed, and the parser goes on outside it.    *)
LEMMA CloseGoes ==
  ASSUME AtToken, NEW container \in Container, JSON!Innermost(grammar) = container,
         Close(container)
  PROVE  LET c == Around(iter)
             o == Outer(c)
         IN /\ c \in Live /\ type[c] = container /\ c # NIL
            /\ GoOn(IF o = NIL THEN "EXPECT_EOF" ELSE "HAVE_VALUE", o) /\ Keep
<1> DEFINE c == Around(iter)
           o == Outer(c)
<1>1. c \in Live /\ type[c] = container /\ c # NIL
  BY ClosingIsAround, AtTokenFacts
<1>2. ContainerParent(c) = o
  BY <1>1, ContainerAbove, AtTokenFacts
<1>3. GoOn(IF o = NIL THEN "EXPECT_EOF" ELSE "HAVE_VALUE", o) /\ Keep
  BY <1>1, <1>2, ClosingIsAround DEF Close
<1> QED BY <1>1, <1>3

LEMMA CloseOutcome ==
  ASSUME AtToken, NEW container \in Container, JSON!Innermost(grammar) = container,
         Close(container), grammar' = JSON!Closed(grammar)
  PROVE  pc' = "parse" /\ Agrees'
<1> DEFINE c == Around(iter)
           o == Outer(c)
           rest == SubSeq(grammar.open, 1, Len(grammar.open) - 1)
<1>1. c \in Live /\ type[c] = container /\ c # NIL
  BY CloseGoes
<1>3. GoOn(IF o = NIL THEN "EXPECT_EOF" ELSE "HAVE_VALUE", o) /\ Keep
  BY CloseGoes
<1>4. OpenAround(rest, o)
  BY <1>1, OpenLess, AtTokenFacts
<1>5. rest \in Seq(Container)
  BY PopLemma, AtTokenFacts
<1>6. rest = <<>> <=> o = NIL
  BY <1>4, <1>5, OpenEnds, AtTokenFacts
<1>7. Around(o) = o /\ o \in Live \cup {NIL}
  BY <1>1, OuterLemma, AtTokenFacts DEF Around
<1>8. grammar'.open = rest /\ grammar'.expects = IF rest = <<>> THEN "end" ELSE "comma"
  BY DEF JSON!Closed, JSON!Valued
<1> HIDE DEF rest, o, c
<1>9. iter' = o /\ state' = (IF o = NIL THEN "EXPECT_EOF" ELSE "HAVE_VALUE") /\ pc' = "parse"
  BY <1>3, AtTokenFacts DEF GoOn
<1>10. PICK x, s : x = o /\ s = rest
  OBVIOUS
<1>11. /\ Live' = Live /\ type' = type /\ parent' = parent
       /\ LoadedTree
  BY <1>3, KeepLemma, AtTokenFacts
<1>12. OpenAround(s, x)' /\ (x \in Live => Around(x)' = Around(x))
  BY <1>4, <1>10, <1>11, OpenKept
<1>13. Around(x)' = x
  <2>1. CASE x = NIL
    BY <2>1 DEF Around
  <2>2. CASE x # NIL
    BY <1>7, <1>10, <1>12, <2>2
  <2> QED BY <2>1, <2>2
<1>14. Around(iter)' = x
  BY <1>9, <1>10, <1>13 DEF Around, Outer
<1>15. OpenAround(grammar.open, Around(iter))'
  BY <1>8, <1>10, <1>12, <1>14
<1>16. rest = <<>> => o = NIL
  BY <1>6
<1>17. grammar'.expects = (IF grammar'.open = <<>> THEN "end" ELSE "comma")
  BY <1>8
<1>18. state' = "EXPECT_EOF" => grammar'.open = <<>> /\ grammar'.expects = "end"
  BY <1>6, <1>8, <1>9
<1> QED BY <1>9, <1>15, <1>17, <1>18, Zenon DEF Agrees

LEMMA BraceCloses ==
  ASSUME AtToken, ClosingBrace, FitsObjectEnd(grammar)
  PROVE  Close("OBJECT") /\ JSON!Innermost(grammar) = "OBJECT"
<1>1. JSON!Innermost(grammar) = "OBJECT" /\ grammar.expects \in {"first_key", "comma"}
  BY DEF FitsObjectEnd
<1> DEFINE c == IF TypeOf(iter) = "OBJECT" THEN iter ELSE ParentOfType(iter, {"OBJECT"})
<1>2. c \in Live /\ NIL \notin Live
  BY <1>1, ClosingIsAround, AtTokenFacts DEF Container
<1>3. Around(iter) # NIL /\ type[Around(iter)] = "OBJECT"
  BY <1>1, AtTokenFacts
<1>4. iter # NIL /\ iter \in Live
  BY <1>3, AtTokenFacts DEF Around
<1>5. TypeOf(iter) # "ARRAY"
  BY <1>3, <1>4 DEF Around, Container, TypeOf
<1>6. TypeOf(iter) # "KEY"
  BY <1>1, <1>4, AtTokenFacts DEF AtToken, Agrees, PlaceOf, TypeOf, ValueType, States, HasChild
<1>7. ~TooEarly("OBJECT", "EXPECT_KEY")
  BY <1>1, <1>4 DEF AtToken, Agrees, TooEarly, HasChild
<1>8. Close("OBJECT")
  <2> HIDE DEF c
  <2>1. TypeOf(iter) = "OBJECT" \/ ParentOfType(iter, {"OBJECT"}) # NIL
    BY <1>2 DEF c
  <2> QED BY <1>5, <1>6, <1>7, <2>1, Zenon DEF ClosingBrace
<1> QED BY <1>1, <1>8

LEMMA BraceOutcome ==
  ASSUME AtToken, ClosingBrace, NEW t,
         grammar' = IF FitsObjectEnd(grammar) THEN JSON!Closed(grammar) ELSE JSON!Wrong
  PROVE  Outcome(t)
<1>1. CASE ~FitsObjectEnd(grammar)
  BY <1>1 DEF Outcome
<1>2. CASE FitsObjectEnd(grammar)
  BY <1>2, BraceCloses, CloseOutcome DEF Outcome, Container
<1> QED BY <1>1, <1>2

LEMMA BracketCloses ==
  ASSUME AtToken, ClosingBracket, FitsArrayEnd(grammar)
  PROVE  Close("ARRAY") /\ JSON!Innermost(grammar) = "ARRAY"
<1>1. JSON!Innermost(grammar) = "ARRAY" /\ grammar.expects \in {"first_value", "comma"}
  BY DEF FitsArrayEnd
<1>2. ~TooEarly("ARRAY", "EXPECT_VALUE")
  BY <1>1 DEF AtToken, Agrees, TooEarly
<1>3. Close("ARRAY")
  BY <1>2, Zenon DEF ClosingBracket
<1> QED BY <1>1, <1>3

LEMMA BracketOutcome ==
  ASSUME AtToken, ClosingBracket, NEW t,
         grammar' = IF FitsArrayEnd(grammar) THEN JSON!Closed(grammar) ELSE JSON!Wrong
  PROVE  Outcome(t)
<1>1. CASE ~FitsArrayEnd(grammar)
  BY <1>1 DEF Outcome
<1>2. CASE FitsArrayEnd(grammar)
  BY <1>2, BracketCloses, CloseOutcome DEF Outcome, Container
<1> QED BY <1>1, <1>2

(* Nothing is taken from the tree, and what is around its elements stays.   *)
LEMMA AroundKept ==
  ASSUME AtToken, Keep, NEW n \in Live \cup {NIL}, NEW open, OpenAround(open, n)
  PROVE  OpenAround(open, n)' /\ Around(n)' = Around(n)
<1>1. /\ Live' = Live /\ type' = type /\ parent' = parent
      /\ LoadedTree
  BY KeepLemma, AtTokenFacts
<1>2. CASE n = NIL
  BY <1>1, <1>2, OpenKept DEF Around
<1>3. CASE n # NIL
  BY <1>1, <1>3, OpenKept
<1> QED BY <1>2, <1>3

LEMMA CommaGoes ==
  ASSUME AtToken, Comma, state = "HAVE_VALUE", grammar.expects = "comma"
  PROVE  LET c == Around(iter)
         IN /\ c \in Live /\ c # NIL /\ first_child[c] # NIL /\ Around(c) = c
            /\ type[c] \in Container /\ type[c] = JSON!Innermost(grammar)
            /\ GoOn(IF type[c] = "ARRAY" THEN "EXPECT_VALUE" ELSE "EXPECT_KEY", c) /\ Keep
<1>1. grammar.open # <<>>
  BY DEF AtToken, Agrees
<1>2. iter \in Live /\ iter # NIL /\ type[iter] \in ValueType
      /\ (type[iter] # "SCALAR" => first_child[iter] # NIL)
  BY AtTokenFacts DEF PlaceOf
<1>3. PICK c : c = Around(iter)
  OBVIOUS
<1>4. c \in Live /\ type[c] = JSON!Innermost(grammar) /\ c # NIL
  BY <1>1, <1>3, AtTokenFacts
<1>5. (IF TypeOf(iter) \in {"OBJECT", "ARRAY"} THEN iter ELSE ContainerParent(iter)) = c
  BY <1>2, <1>3, ContainerAbove, AtTokenFacts DEF Around, TypeOf, Container
<1>6. GoOn(IF type[c] = "ARRAY" THEN "EXPECT_VALUE" ELSE "EXPECT_KEY", c) /\ Keep
  BY <1>4, <1>5, Zenon DEF Comma
<1>7. Around(c) = c /\ type[c] \in Container
  BY <1>2, <1>3, <1>4, OuterLemma, AtTokenFacts DEF Around
<1>8. first_child[c] # NIL
  BY <1>2, <1>3, <1>4, OuterLemma, AtTokenFacts DEF Around, Container, ValueType
<1> QED BY <1>3, <1>4, <1>6, <1>7, <1>8

LEMMA CommaOutcome ==
  ASSUME AtToken, Comma, NEW t,
         grammar' = IF grammar.expects = "comma"
                    THEN [grammar EXCEPT !.expects =
                            IF JSON!Innermost(grammar) = "OBJECT" THEN "key" ELSE "value"]
                    ELSE JSON!Wrong,
         state = "HAVE_VALUE"
  PROVE  Outcome(t)
<1>1. CASE grammar.expects # "comma"
  BY <1>1 DEF Outcome
<1>2. CASE grammar.expects = "comma"
  <2>1. PICK c : c = Around(iter)
    OBVIOUS
  <2>2. /\ c \in Live /\ c # NIL /\ first_child[c] # NIL /\ Around(c) = c
        /\ type[c] \in Container /\ type[c] = JSON!Innermost(grammar)
        /\ GoOn(IF type[c] = "ARRAY" THEN "EXPECT_VALUE" ELSE "EXPECT_KEY", c) /\ Keep
    BY <1>2, <2>1, CommaGoes
  <2>3. OpenAround(grammar.open, c)' /\ Around(c)' = c
    <3>1. PICK s : s = grammar.open
      OBVIOUS
    <3>2. OpenAround(s, c)
      BY <2>1, <3>1, AtTokenFacts
    <3>3. OpenAround(s, c)' /\ Around(c)' = Around(c)
      BY <2>2, <3>2, AroundKept
    <3>4. grammar'.open = s
      BY <1>2, <3>1
    <3> QED BY <2>2, <3>3, <3>4
  <2>4. type' = type /\ first_child' = first_child
    BY <2>2, KeepLemma, AtTokenFacts
  <2>5. state' = (IF type[c] = "ARRAY" THEN "EXPECT_VALUE" ELSE "EXPECT_KEY") /\ iter' = c
        /\ pc' = "parse"
    BY <2>2, AtTokenFacts DEF GoOn
  <2>6. grammar'.expects = IF type[c] = "OBJECT" THEN "key" ELSE "value"
    BY <1>2, <2>2 DEF AtToken, TextType
  <2>7. OpenAround(grammar.open, Around(iter))'
    BY <2>3, <2>5 DEF Around, Outer
  <2>8. Agrees'
    BY <2>2, <2>4, <2>5, <2>6, <2>7 DEF Agrees, TypeOf, HasChild, Container
  <2> QED BY <2>5, <2>8 DEF Outcome
<1> QED BY <1>1, <1>2

LEMMA ColonOutcome ==
  ASSUME AtToken, state = "EXPECT_COLON", GoOn("EXPECT_VALUE", iter), Keep, NEW t,
         grammar' = [grammar EXCEPT !.expects = "value"]
  PROVE  Outcome(t)
<1>1. iter \in Live /\ type[iter] = "KEY" /\ iter # NIL
  BY AtTokenFacts DEF PlaceOf
<1>2. PICK n, a, s : n = iter /\ a = Around(iter) /\ s = grammar.open
  OBVIOUS
<1>3. a \in Live \cup {NIL} /\ OpenAround(s, a)
  BY <1>2, AtTokenFacts
<1>4. OpenAround(s, a)' /\ Around(n)' = Around(n)
  <2>1. /\ Live' = Live /\ type' = type /\ parent' = parent
        /\ LoadedTree
    BY KeepLemma, AtTokenFacts
  <2> QED BY <1>1, <1>2, <1>3, <2>1, OpenKept
<1>5. iter' = n /\ state' = "EXPECT_VALUE" /\ pc' = "parse" /\ type' = type
  BY <1>2, KeepLemma, AtTokenFacts DEF GoOn
<1>6. Around(iter)' = a
  BY <1>2, <1>4, <1>5 DEF Around, Outer
<1>7. grammar'.open = s /\ grammar'.expects = "value"
  BY <1>2 DEF AtToken, TextType
<1>8. OpenAround(grammar.open, Around(iter))'
  BY <1>4, <1>6, <1>7
<1>9. Agrees'
  BY <1>1, <1>2, <1>5, <1>7, <1>8 DEF Agrees, TypeOf
<1> QED BY <1>5, <1>9 DEF Outcome

LEMMA FinishOutcome ==
  ASSUME AtToken, Finish, NEW t
  PROVE  Outcome(t)
BY AtTokenFacts DEF Finish, Outcome, Complaint

(* What is around a new element is what was around its parent.              *)
LEMMA AroundNew ==
  ASSUME LoadedTree, NEW n, NEW p \in Live \cup {NIL}, n \notin Live,
         n \in Node, parent'[n] = p,
         p # NIL => type[p] \in {"OBJECT", "ARRAY", "KEY"},
         \A m \in Live : type'[m] = type[m] /\ parent'[m] = parent[m]
  PROVE  Outer(n)' = Around(p)
<1>1. NIL \notin Live
  BY LoadedFacts
<1>2. CASE p = NIL
  BY <1>2 DEF Outer, Around
<1>3. CASE p # NIL /\ type[p] = "KEY"
  <2>1. parent[p] \in Live /\ parent[p] # NIL /\ type[parent[p]] = "OBJECT"
    BY <1>1, <1>3, LoadedFacts
  <2> QED BY <1>1, <1>3, <2>1 DEF Outer, Around, Container
<1>4. CASE p # NIL /\ type[p] # "KEY"
  BY <1>1, <1>4 DEF Outer, Around, Container
<1> QED BY <1>2, <1>3, <1>4

OpenMoreAll ==
  \A s \in Seq(Container) : \A x, y :
    OpenAround(s, x) /\ y \in Live /\ type[y] \in Container /\ Outer(y) = x
      => OpenAround(Append(s, type[y]), y)

LEMMA OpenMoreAlways == OpenMoreAll
BY OpenMore DEF OpenMoreAll

LEMMA OpenMoreLater ==
  ASSUME NEW open \in Seq(Container), NEW n, OpenAround(open, n)',
         NEW m \in Live', (type[m] \in Container)', (Outer(m) = n)'
  PROVE  OpenAround(Append(open, type[m]), m)'
<1>1. OpenMoreAll'
  BY OpenMoreAlways, PTL
<1> QED BY <1>1 DEF OpenMoreAll

(* A value that was appended, with what is around it.                       *)
ValueAdded(ty, s, open, n) ==
  /\ pc' = "parse" /\ state' = s /\ iter' = n
  /\ n \in Live' /\ n # NIL /\ type'[n] = ty /\ first_child'[n] = NIL
  /\ OpenAround(open, Outer(n))'

LEMMA ValueIsAdded ==
  ASSUME AtToken, state = "EXPECT_VALUE", NEW ty \in ValueType, NEW s, AppendValue(ty, s),
         NEW open, open = grammar.open
  PROVE  \/ pc' = "idle" /\ status' \notin Complaint
         \/ \E n : ValueAdded(ty, s, open, n)
<1>1. /\ LoadedTree /\ Missing = {} /\ NIL \notin Live /\ pc = "parse" /\ Live \subseteq Node
      /\ ValuePlace(iter) /\ iter \in Live \cup {NIL}
  BY AtTokenFacts, LoadedFacts DEF AtToken, LoadInv, PlacesOK, Parsing, PlaceOf, ValuePlace
<1>2. CASE status' = "OUT_OF_MEMORY" /\ pc' = "idle"
  BY <1>2 DEF Complaint
<1>3. CASE InsertNode(iter, LastChild(iter), ty, NIL) /\ iter' = NextNode /\ UNCHANGED <<status, pc>>
  <2>1. Place(iter, LastChild(iter))
    <3>1. iter = NIL => LastChild(iter) = NIL
      BY DEF LastChild
    <3> QED BY <1>1, <3>1, PlaceLast DEF ValuePlace, Place, LoadedTree
  <2>2. PICK n, p, a : n = NextNode /\ p = iter /\ a = Around(iter)
    OBVIOUS
  <2>3. /\ n \notin Live /\ n \in Node /\ Live' = Live \cup {n}
        /\ type'[n] = ty /\ parent'[n] = p /\ first_child'[n] = NIL
        /\ \A m \in Live : type'[m] = type[m] /\ parent'[m] = parent[m]
    BY <1>1, <1>3, <2>1, <2>2, InsertFacts DEF LoadedTree
  <2>4. Outer(n)' = Around(p)
    BY <1>1, <2>2, <2>3, AroundNew DEF ValuePlace
  <2>5. OpenAround(open, a)'
    BY <1>1, <2>2, <2>3, OpenKept, AtTokenFacts
  <2>6. OpenAround(open, Outer(n))'
    BY <2>2, <2>4, <2>5
  <2>7. n # NIL
    BY <2>3, NilAssumption
  <2>8. state' = s
    BY DEF AppendValue
  <2>9. ValueAdded(ty, s, open, n)
    BY <1>1, <1>3, <2>2, <2>3, <2>6, <2>7, <2>8 DEF ValueAdded
  <2> QED BY <2>9
<1> QED BY <1>2, <1>3 DEF AppendValue

LEMMA ScalarOutcome ==
  ASSUME AtToken, state = "EXPECT_VALUE", AppendValue("SCALAR", "HAVE_VALUE"), NEW t,
         grammar' = JSON!Valued(grammar.open)
  PROVE  Outcome(t)
<1>1. PICK open : open = grammar.open
  OBVIOUS
<1>2. \/ pc' = "idle" /\ status' \notin Complaint
      \/ \E n : ValueAdded("SCALAR", "HAVE_VALUE", open, n)
  BY <1>1, ValueIsAdded DEF ValueType
<1>3. ASSUME NEW n, ValueAdded("SCALAR", "HAVE_VALUE", open, n)
      PROVE  Outcome(t)
  <2>1. Around(iter)' = Outer(n)'
    BY <1>3 DEF ValueAdded, Around, Container
  <2>2. grammar'.open = open /\ grammar'.expects = IF open = <<>> THEN "end" ELSE "comma"
    BY <1>1 DEF JSON!Valued
  <2>3. OpenAround(grammar.open, Around(iter))'
    BY <1>3, <2>1, <2>2 DEF ValueAdded
  <2>4. Agrees'
    BY <1>3, <2>2, <2>3 DEF ValueAdded, Agrees
  <2> QED BY <1>3, <2>4 DEF Outcome, ValueAdded
<1> QED BY <1>2, <1>3 DEF Outcome

LEMMA ContainerOutcome ==
  ASSUME AtToken, state = "EXPECT_VALUE", NEW ty \in Container, NEW t, NEW s, NEW first,
         AppendValue(ty, s), grammar' = JSON!Opened(grammar, ty, first),
         <<ty, s, first>> \in {<<"ARRAY", "EXPECT_VALUE", "first_value">>,
                               <<"OBJECT", "EXPECT_KEY", "first_key">>}
  PROVE  Outcome(t)
<1>1. PICK open : open = grammar.open
  OBVIOUS
<1>2. \/ pc' = "idle" /\ status' \notin Complaint
      \/ \E n : ValueAdded(ty, s, open, n)
  BY <1>1, ValueIsAdded DEF ValueType, Container
<1>3. ASSUME NEW n, ValueAdded(ty, s, open, n)
      PROVE  Outcome(t)
  <2>1. PICK a : a = Outer(n)'
    OBVIOUS
  <2>2. open \in Seq(Container)
    BY <1>1, AtTokenFacts
  <2>3. OpenAround(Append(open, type[n]), n)'
    BY <1>3, <2>1, <2>2, OpenMoreLater DEF ValueAdded
  <2>4. grammar'.open = Append(open, ty) /\ grammar'.expects = first
    BY <1>1 DEF JSON!Opened
  <2>5. OpenAround(grammar.open, n)' /\ Around(iter)' = n
    BY <1>3, <2>3, <2>4 DEF ValueAdded, Around
  <2>6. OpenAround(grammar.open, Around(iter))'
    BY <2>5
  <2>7. Agrees'
    BY <1>3, <2>4, <2>6 DEF ValueAdded, Agrees, TypeOf, HasChild
  <2> QED BY <1>3, <2>7 DEF Outcome, ValueAdded
<1> QED BY <1>2, <1>3 DEF Outcome

LEMMA KeyOutcome ==
  ASSUME AtToken, state = "EXPECT_KEY", NEW k \in Names, NEW t, AppendKey(k),
         grammar' = [grammar EXCEPT !.expects = "colon"]
  PROVE  Outcome(t)
<1>1. /\ LoadedTree /\ Missing = {} /\ NIL \notin Live /\ pc = "parse" /\ Live \subseteq Node
      /\ iter \in Live /\ type[iter] = "OBJECT" /\ iter # NIL
  BY AtTokenFacts, LoadedFacts DEF AtToken, LoadInv, PlacesOK, Parsing, PlaceOf
<1>2. /\ Table!AddStatus(<<iter, k>>) \notin Complaint
      /\ "DUPLICATE_KEY" \notin Complaint /\ "OUT_OF_MEMORY" \notin Complaint
  BY DEF Table!AddStatus, Complaint
<1> DEFINE taken == Hashed /\ Table!AddStatus(<<iter, k>>) # "NO_ERROR"
<1>3. CASE \/ Stop("DUPLICATE_KEY") \/ Stop("OUT_OF_MEMORY")
           \/ taken /\ StopIn("EXPECT_COLON", Table!AddStatus(<<iter, k>>))
  BY <1>2, <1>3 DEF Outcome, Stop, StopIn
<1>4. CASE InsertNode(iter, LastChild(iter), "KEY", k) /\ GoOn("EXPECT_COLON", NextNode)
  <2>1. Place(iter, LastChild(iter))
    BY <1>1, PlaceLast DEF LoadedTree
  <2>2. PICK n, p, open : n = NextNode /\ p = iter /\ open = grammar.open
    OBVIOUS
  <2>3. /\ n \notin Live /\ n \in Node /\ Live' = Live \cup {n}
        /\ type'[n] = "KEY" /\ parent'[n] = p /\ first_child'[n] = NIL
        /\ \A m \in Live : type'[m] = type[m] /\ parent'[m] = parent[m]
    BY <1>1, <1>4, <2>1, <2>2, InsertFacts DEF LoadedTree
  <2>4. Outer(n)' = p /\ Around(p) = p
    BY <1>1, <2>2, <2>3, AroundNew DEF Around, Container
  <2>5. OpenAround(open, p)'
    BY <1>1, <2>2, <2>3, <2>4, OpenKept, AtTokenFacts
  <2>6. iter' = n /\ state' = "EXPECT_COLON" /\ pc' = "parse" /\ n # NIL
    BY <1>1, <1>4, <2>2, <2>3, NilAssumption DEF GoOn
  <2>7. Around(iter)' = p
    BY <2>3, <2>4, <2>6 DEF Around, Container
  <2>8. grammar'.open = open /\ grammar'.expects = "colon"
    BY <2>2 DEF AtToken, TextType
  <2>9. OpenAround(grammar.open, Around(iter))'
    BY <2>5, <2>7, <2>8
  <2>10. Agrees'
    BY <2>6, <2>8, <2>9 DEF Agrees
  <2> QED BY <2>6, <2>10 DEF Outcome
<1> QED BY <1>3, <1>4 DEF AppendKey

LEMMA ValueOutcome ==
  ASSUME AtToken, state = "EXPECT_VALUE", NEW t \in Token \cup {"EOF"}, ExpectValue(t),
         grammar' = Taken(t)
  PROVE  Outcome(t)
<1>1. JSON!WantsValue(grammar)
  BY DEF AtToken, Agrees, JSON!WantsValue
<1>2. iter = NIL => JSON!Innermost(grammar) # "ARRAY"
  BY AtTokenFacts DEF Around
<1>3. CASE AppendValue("SCALAR", "HAVE_VALUE") /\ Taken(t) = JSON!Valued(grammar.open)
  BY <1>3, ScalarOutcome
<1>4. CASE /\ AppendValue("ARRAY", "EXPECT_VALUE")
           /\ Taken(t) = JSON!Opened(grammar, "ARRAY", "first_value")
  BY <1>4, ContainerOutcome DEF Container
<1>5. CASE /\ AppendValue("OBJECT", "EXPECT_KEY")
           /\ Taken(t) = JSON!Opened(grammar, "OBJECT", "first_key")
  BY <1>5, ContainerOutcome DEF Container
<1>6. CASE /\ ClosingBracket
           /\ Taken(t) = IF FitsArrayEnd(grammar) THEN JSON!Closed(grammar) ELSE JSON!Wrong
  BY <1>6, BracketOutcome
<1>7. CASE Taken(t) = JSON!Wrong
  BY <1>7 DEF Outcome
<1>8. CASE Errs /\ Rejected(t)
  BY <1>8, ErrOutcome
<1> QED BY <1>1, <1>2, <1>3, <1>4, <1>5, <1>6, <1>7, <1>8, ValueTokens

LEMMA EndOutcome ==
  ASSUME AtToken, state = "HAVE_VALUE", NEW t \in Token \cup {"EOF"}, HaveValue(t),
         grammar' = Taken(t)
  PROVE  Outcome(t)
<1>1. grammar.expects = IF grammar.open = <<>> THEN "end" ELSE "comma"
  BY DEF AtToken, Agrees
<1>2. CASE /\ ClosingBrace
           /\ Taken(t) = IF FitsObjectEnd(grammar) THEN JSON!Closed(grammar) ELSE JSON!Wrong
  BY <1>2, BraceOutcome
<1>3. CASE /\ ClosingBracket
           /\ Taken(t) = IF FitsArrayEnd(grammar) THEN JSON!Closed(grammar) ELSE JSON!Wrong
  BY <1>3, BracketOutcome
<1>4. CASE /\ Comma
           /\ Taken(t) =
                IF grammar.expects = "comma"
                THEN [grammar EXCEPT !.expects =
                        IF JSON!Innermost(grammar) = "OBJECT" THEN "key" ELSE "value"]
                ELSE JSON!Wrong
  BY <1>4, CommaOutcome, Zenon
<1>5. CASE Finish
  BY <1>5, FinishOutcome
<1>6. CASE Errs /\ Rejected(t)
  BY <1>6, ErrOutcome
<1>7. CASE Errs /\ t = "EOF" /\ Taken(t) = grammar /\ (parent[iter] # NIL \/ HasChild(iter))
  <2>1. grammar.open # <<>>
    <3> SUFFICES ASSUME grammar.open = <<>> PROVE FALSE
      OBVIOUS
    <3>1. Around(iter) = NIL /\ iter \in Live /\ iter # NIL /\ type[iter] \in ValueType
      BY AtTokenFacts DEF PlaceOf
    <3>2. type[iter] = "SCALAR" /\ Outer(iter) = NIL
      BY <3>1 DEF Around, ValueType, Container
    <3>3. parent[iter] = NIL /\ first_child[iter] = NIL
      BY <3>1, <3>2, OuterLemma, AtTokenFacts, LoadedFacts DEF JsonShape
    <3> QED BY <1>7, <3>3 DEF HasChild
  <2>2. pc' = "idle"
    BY <1>7 DEF Errs, Error, Stop, StopIn
  <2> QED BY <1>1, <1>7, <2>1, <2>2 DEF Outcome
<1> QED BY <1>1, <1>2, <1>3, <1>4, <1>5, <1>6, <1>7, EndTokens

LEMMA TokenOutcome ==
  ASSUME AtToken, NEW t \in Token \cup {"EOF"}, Read(t)
  PROVE  Outcome(t)
<1>1. t # "INVALID"
  BY ParserAssumption, Zenon DEF Token, Punctuation
<1>2. grammar' = Taken(t)
  BY Zenon DEF Read, Taken
<1>3. \/ state = "EXPECT_KEY" /\ ExpectKey(t)
      \/ state = "EXPECT_COLON" /\ ExpectColon(t)
      \/ state = "EXPECT_VALUE" /\ ExpectValue(t)
      \/ state = "HAVE_VALUE" /\ HaveValue(t)
      \/ state = "EXPECT_EOF" /\ ExpectEof(t)
  BY <1>1, Zenon DEF Read
<1>4. CASE state = "EXPECT_KEY" /\ ExpectKey(t)
  <2>1. JSON!WantsKey(grammar)
    BY <1>4 DEF AtToken, Agrees, JSON!WantsKey
  <2>2. CASE t \in Names /\ AppendKey(t) /\ Taken(t) = [grammar EXCEPT !.expects = "colon"]
    BY <1>2, <1>4, <2>2, KeyOutcome
  <2>3. CASE /\ ClosingBrace
             /\ Taken(t) = IF FitsObjectEnd(grammar) THEN JSON!Closed(grammar) ELSE JSON!Wrong
    BY <1>2, <2>3, BraceOutcome
  <2>4. CASE Errs /\ Rejected(t)
    BY <1>2, <2>4, ErrOutcome
  <2> QED BY <1>4, <2>1, <2>2, <2>3, <2>4, KeyTokens
<1>5. CASE state = "EXPECT_COLON" /\ ExpectColon(t)
  <2>1. grammar.expects = "colon"
    BY <1>5 DEF AtToken, Agrees
  <2>2. \/ /\ GoOn("EXPECT_VALUE", iter) /\ Keep
           /\ Taken(t) = [grammar EXCEPT !.expects = "value"]
        \/ Errs /\ Rejected(t)
    BY <1>5, <2>1, ColonTokens
  <2> QED BY <1>2, <1>5, <2>2, ColonOutcome, ErrOutcome
<1>6. CASE state = "EXPECT_VALUE" /\ ExpectValue(t)
  BY <1>2, <1>6, ValueOutcome
<1>7. CASE state = "HAVE_VALUE" /\ HaveValue(t)
  BY <1>2, <1>7, EndOutcome
<1>8. CASE state = "EXPECT_EOF" /\ ExpectEof(t)
  <2>1. grammar.expects = "end"
    BY <1>8 DEF AtToken, Agrees
  <2>2. Finish \/ (Errs /\ Rejected(t))
    BY <1>8, <2>1, EofTokens
  <2> QED BY <1>2, <2>2, FinishOutcome, ErrOutcome
<1> QED BY <1>3, <1>4, <1>5, <1>6, <1>7, <1>8

----------------------------------------------------------------------------
(* The invariant of what is read.                                           *)

Readable == Token \cup {"EOF", "INVALID"}

TextInv ==
  /\ grammar \in TextType
  /\ read \in Seq(Readable)
  /\ pc = "parse" => grammar.expects = "wrong" \/ Agrees
  /\ pc \in {"render", "pass_end"} => read = <<>>
  /\ RefusesNoJson

LEMMA NewTextInv ==
  ASSUME NewText, pc' = "parse" => Agrees', pc' # "aborted"
  PROVE  TextInv'
<1>1. grammar'.open = <<>> /\ grammar' \in TextType
  BY EmptySeq DEF NewText, JSON!Start, TextType, JSON!Expectation
<1>2. read' = <<>> /\ read' \in Seq(Readable)
  BY EmptySeq DEF NewText
<1> QED BY <1>1, <1>2 DEF TextInv, RefusesNoJson, Refused

LEMMA LoadAgrees ==
  ASSUME Load
  PROVE  NewText /\ pc' = "parse" /\ Agrees'
<1>1. /\ NewText /\ pc' = "parse" /\ state' = "EXPECT_VALUE" /\ iter' = NIL
  BY DEF Load
<1>2. grammar'.open = <<>> /\ grammar'.expects = "value"
  BY <1>1 DEF NewText, JSON!Start
<1>3. OpenAround(<<>>, NIL)'
  BY NothingOpen, PTL
<1>4. Around(iter)' = NIL
  BY <1>1 DEF Around
<1>5. OpenAround(grammar.open, Around(iter))'
  BY <1>2, <1>3, <1>4
<1> QED BY <1>1, <1>2, <1>5 DEF Agrees, TypeOf

LEMMA ReadTextInv ==
  ASSUME LoadInv, TextInv, NEW t \in Readable, Read(t)
  PROVE  TextInv'
<1>1. /\ pc = "parse" /\ read' = Append(read, t) /\ grammar \in TextType
      /\ read \in Seq(Readable)
  BY Zenon DEF Read, TextInv
<1>2. grammar' = Taken(t)
  BY Zenon DEF Read, Taken
<1>3. grammar' \in TextType
  BY <1>1, <1>2, AdvanceType DEF Taken
<1>4. /\ read' \in Seq(Readable) /\ Last(read') = t
  BY <1>1, AppendProperties DEF Last
<1>5. pc' \notin {"render", "pass_end"}
  BY ReadKind, <1>1 DEF EndsLoad, MovesOn, AddsValue, AddsKey, AppendValue, AppendKey, Stop, StopIn, GoOn
<1>6. CASE t = "INVALID"
  <2>1. pc' # "parse"
    BY <1>6, Zenon DEF Read, Error, Stop, StopIn
  <2> QED BY <1>3, <1>4, <1>5, <1>6, <2>1 DEF TextInv, RefusesNoJson
<1>7. CASE grammar.expects = "wrong"
  <2>1. Taken(t) = JSON!Wrong \/ Taken(t) = grammar
    BY <1>7, WrongStays, Zenon DEF Taken
  <2>2. grammar'.expects = "wrong"
    BY <1>2, <1>7, <2>1 DEF JSON!Wrong
  <2> QED BY <1>3, <1>4, <1>5, <2>2 DEF TextInv, RefusesNoJson
<1>8. CASE t # "INVALID" /\ grammar.expects # "wrong"
  <2>1. AtToken
    BY <1>1, <1>8 DEF AtToken, TextInv
  <2>2. Outcome(t)
    BY <1>8, <2>1, TokenOutcome DEF Readable
  <2>3. CASE grammar' = JSON!Wrong
    <3>1. grammar'.expects = "wrong"
      BY <2>3 DEF JSON!Wrong
    <3> QED BY <1>3, <1>4, <1>5, <3>1 DEF TextInv, RefusesNoJson
  <2>4. CASE t = "EOF" /\ grammar'.expects # "end" /\ pc' # "parse"
    BY <1>3, <1>4, <1>5, <2>4 DEF TextInv, RefusesNoJson
  <2>5. CASE pc' = "idle" /\ status' \notin Complaint
    BY <1>3, <1>4, <1>5, <2>5 DEF TextInv, RefusesNoJson, Refused, Complaint
  <2>6. CASE pc' = "parse" /\ Agrees'
    BY <1>3, <1>4, <1>5, <2>6 DEF TextInv, RefusesNoJson, Refused
  <2> QED BY <2>2, <2>3, <2>4, <2>5, <2>6 DEF Outcome
<1> QED BY <1>6, <1>7, <1>8

LEMMA VisitTurnsText ==
  ASSUME VisitKey \/ VisitValue \/ AfterValue
  PROVE  pc = "render" /\ pc' \in {"render", "pass_end"} /\ UNCHANGED textVars
<1>1. \A s, n, st, w : Turn(s, n, st, w) => pc' \in {"render", "pass_end"} /\ UNCHANGED textVars
  BY DEF Turn
<1>2. CASE VisitKey
  BY <1>1, <1>2 DEF VisitKey, Misplaced
<1>3. CASE VisitValue
  <2> DEFINE n == NextElement(iter)
  <2>1. /\ pc = "render"
        /\ \/ VisitScalar(n) \/ Misplaced(n)
           \/ \E o, c, s : VisitContainer(n, o, c, s)
    BY <1>3, Zenon DEF VisitValue
  <2> HIDE DEF n
  <2>2. ASSUME NEW o, NEW c, NEW s, VisitContainer(n, o, c, s)
        PROVE  \E z, st, w : Turn(z, n, st, w)
    BY <2>2 DEF VisitContainer
  <2>3. VisitScalar(n) \/ Misplaced(n) => \E z, st, w : Turn(z, n, st, w)
    BY DEF VisitScalar, Misplaced
  <2> QED BY <1>1, <2>1, <2>2, <2>3
<1>4. CASE AfterValue
  <2>1. pc = "render" /\ \E s, n, st, w : Turn(s, n, st, w)
    BY <1>4, Zenon DEF AfterValue
  <2> QED BY <1>1, <2>1
<1> QED BY <1>2, <1>3, <1>4

(* Rendering starts with a text of its own, and reads none.                 *)
LEMMA RenderText ==
  ASSUME RenderStart \/ EvaluateStart \/ RenderStep \/ GetStat
  PROVE  /\ pc' \notin {"parse", "aborted"}
         /\ \/ NewText
            \/ /\ UNCHANGED textVars
               /\ \/ pc \in {"render", "pass_end"}
                  \/ pc = "idle" /\ pc' = pc /\ status' = status
<1>1. CASE RenderStart \/ EvaluateStart
  BY <1>1 DEF RenderStart, EvaluateStart, Start
<1>2. CASE VisitKey \/ VisitValue \/ AfterValue
  BY <1>2, VisitTurnsText
<1>3. CASE EvaluateDone \/ FirstPassDone \/ SecondPassDone
  BY <1>3 DEF EvaluateDone, FirstPassDone, SecondPassDone, Done, parserVars
<1>4. CASE GetStat
  BY <1>4 DEF GetStat
<1> QED BY <1>1, <1>2, <1>3, <1>4 DEF RenderStep

LEMMA TextInvStep == LoadInv /\ TextInv /\ [SessionNext]_sessionVars => TextInv'
<1> SUFFICES ASSUME LoadInv, TextInv, [SessionNext]_sessionVars
             PROVE  TextInv'
  OBVIOUS
<1>1. CASE Load
  BY <1>1, LoadAgrees, NewTextInv
<1>2. ASSUME NEW t \in Readable, Read(t)
      PROVE  TextInv'
  BY <1>2, ReadTextInv
<1>3. CASE RenderStart \/ EvaluateStart \/ RenderStep \/ GetStat
  <2>1. /\ pc' \notin {"parse", "aborted"}
        /\ \/ NewText
           \/ /\ UNCHANGED textVars
              /\ \/ pc \in {"render", "pass_end"}
                 \/ pc = "idle" /\ pc' = pc /\ status' = status
    BY <1>3, RenderText
  <2>2. CASE NewText
    BY <2>1, <2>2, NewTextInv
  <2>3. CASE UNCHANGED textVars /\ pc \in {"render", "pass_end"}
    BY <2>1, <2>3 DEF TextInv, textVars, RefusesNoJson, Refused
  <2>4. CASE UNCHANGED textVars /\ pc = "idle" /\ pc' = pc /\ status' = status
    BY <2>4 DEF TextInv, textVars, RefusesNoJson, Refused
  <2> QED BY <2>1, <2>2, <2>3, <2>4
<1>4. CASE UNCHANGED sessionVars
  <2>1. /\ state' = state /\ iter' = iter /\ pc' = pc /\ status' = status
        /\ read' = read /\ grammar' = grammar
        /\ Live' = Live /\ type' = type /\ parent' = parent /\ first_child' = first_child
    BY <1>4 DEF sessionVars, vars, parserVars, textVars, treeVars, nodeVars, poolVars, Live
  <2>2. Agrees => Agrees'
    BY <2>1 DEF Agrees, OpenAround, Mirrors, Around, Outer, TypeOf, HasChild
  <2> QED BY <2>1, <2>2 DEF TextInv, RefusesNoJson, Refused
<1> QED BY <1>1, <1>2, <1>3, <1>4 DEF SessionNext, Readable

LEMMA TextInvariant == SessionSpec => []TextInv
<1>1. SessionInit => TextInv
  <2> SUFFICES ASSUME SessionInit PROVE TextInv
    OBVIOUS
  <2>1. grammar \in TextType /\ read = <<>> /\ pc = "idle"
    BY EmptySeq DEF SessionInit, ParserInit, Init, JSON!Start, TextType, JSON!Expectation
  <2> QED BY <2>1, EmptySeq DEF TextInv, RefusesNoJson, Refused
<1> QED BY <1>1, TextInvStep, LoadInvariant, PTL DEF SessionSpec

(***************************************************************************)
(* Whatever is loaded and rendered, and from whatever text, the parser      *)
(* refuses no JSON and fails no assertion on it: its five states and the    *)
(* search for the container above, which is all it has for a stack, keep    *)
(* up with the grammar.                                                     *)
(***************************************************************************)
THEOREM NoJsonIsRefused == SessionSpec => []RefusesNoJson
<1>1. TextInv => RefusesNoJson
  BY DEF TextInv
<1> QED BY <1>1, TextInvariant, PTL
============================================================================
