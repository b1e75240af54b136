-------------------------- MODULE JesDocumentProofs ------------------------
(***************************************************************************)
(* Proof that the tree implements the document: the calls of jes.c, with    *)
(* their deletions leaf by leaf and their recycled nodes, do to an ordered  *)
(* JSON document what JsonDocument says, one step for each call.            *)
(***************************************************************************)
EXTENDS JesTreeProofs

----------------------------------------------------------------------------
(* What a call in progress is about.                                        *)

(* Only a deletion has a target, and what an update puts in the place of    *)
(* the old value is a value, or a key with its name.                        *)
CallOK ==
  /\ pc \notin {"search", "leaf", "aborted"} => target = NIL
  /\ call.op \in {"update_key_value", "update_array_value"} => Labelled(call.type, call.name)
  /\ pc = "add" => call.op = "update_key_value"

LEMMA ReturnCall ==
  ASSUME NEW s, Return(s)
  PROVE  CallOK' /\ pc' # "aborted"
BY DEF Return, CallOK, NoCall

LEMMA AbortCall ==
  ASSUME CallOK, Abort
  PROVE  CallOK' /\ target' = target /\ UNCHANGED treeVars
BY DEF Abort, CallOK, callVars

LEMMA InsertCall ==
  ASSUME NEW p, NEW a, NEW t, NEW k,
         InsertAndReturn(p, a, t, k) \/ InsertKeyAndReturn(p, a, k)
  PROVE  CallOK' /\ pc' # "aborted"
BY ReturnCall DEF InsertAndReturn, InsertKeyAndReturn, Refuse

LEMMA AddElementBodyCall ==
  ASSUME NEW p, NEW t, NEW k, NEW valid, AddElementBody(p, t, k, valid)
  PROVE  CallOK' /\ pc' # "aborted"
BY ReturnCall, InsertCall DEF AddElementBody, Refuse

(* A failed assertion leaves everything as it is.                           *)
CallKept == CallOK' /\ (pc' = "aborted" => target' = target /\ UNCHANGED treeVars)

LEMMA CallStep1 == CallOK /\ [Next]_vars => CallKept
<1> SUFFICES ASSUME CallOK, [Next]_vars PROVE CallKept
  OBVIOUS
<1>a. ASSUME NEW s, Refuse(s) PROVE CallKept
  BY <1>a, ReturnCall DEF Refuse, CallKept
<1>b. ASSUME Abort PROVE CallKept
  BY <1>b, AbortCall DEF CallKept
<1>c. ASSUME NEW p, NEW a, NEW t, NEW k,
             InsertAndReturn(p, a, t, k) \/ InsertKeyAndReturn(p, a, k)
      PROVE  CallKept
  BY <1>c, InsertCall DEF CallKept
<1>1. ASSUME NEW p, NEW t, NEW k, NEW valid, AddElement(p, t, k, valid)
      PROVE  CallKept
  BY <1>a, <1>1, AddElementBodyCall DEF AddElement, CallKept
<1>2. ASSUME NEW p, NEW k, NEW valid, AddKey(p, k, valid)
      PROVE  CallKept
  <2>1. CASE /\ pc = "idle" /\ pc' = "add_key"
             /\ call' = [NoCall EXCEPT !.op = "add_key", !.node = NextNode, !.name = k]
             /\ UNCHANGED <<tableVars, target, cur>>
    BY <2>1 DEF CallOK, NoCall, CallKept
  <2> QED BY <1>a, <1>b, <1>c, <1>2, <2>1 DEF AddKey
<1>3. CASE AddKeyFinish
  BY <1>c, <1>3 DEF AddKeyFinish
<1>4. ASSUME NEW n, NEW k, AddKeyBefore(n, k) \/ AddKeyAfter(n, k)
      PROVE  CallKept
  BY <1>a, <1>b, <1>c, <1>4 DEF AddKeyBefore, AddKeyAfter
<1>5. ASSUME NEW a, NEW i, NEW t, NEW k, AppendArrayValue(a, t, k) \/ AddArrayValue(a, i, t, k)
      PROVE  CallKept
  BY <1>a, <1>c, <1>5 DEF AppendArrayValue, AddArrayValue
<1>6. ASSUME NEW n, NEW t, NEW k, Retype(n, t, k)
      PROVE  CallKept
  BY <1>6, ReturnCall DEF Retype, CallKept
<1>7. ASSUME NEW n, NEW then, StartDelete(n, then),
             then.op \in {"update_key_value", "update_array_value"} =>
               Labelled(then.type, then.name)
      PROVE  CallKept
  BY <1>7 DEF StartDelete, CallOK, CallKept
<1>8. ASSUME NEW a, NEW i, NEW t, NEW k, Labelled(t, k), UpdateArrayValue(a, i, t, k)
      PROVE  CallKept
  <2>1. ASSUME NEW n, UpdateElement(n, t, k) PROVE CallKept
    <3> DEFINE then == [op |-> "update_array_value", node |-> n, type |-> t,
                              name |-> k, valid |-> TRUE]
    <3>1. then.type = t /\ then.name = k
      BY DEF NoCall
    <3> HIDE DEF then
    <3> QED BY <1>6, <1>7, <1>8, <2>1, <3>1 DEF UpdateElement, then
  <2> QED BY <1>a, <1>b, <1>8, <2>1 DEF UpdateArrayValue
<1>9. ASSUME NEW n, DeleteElement(n)
      PROVE  CallKept
  <2> DEFINE then == [NoCall EXCEPT !.op = "delete_element"]
  <2>1. then.op = "delete_element"
    BY DEF NoCall
  <2> HIDE DEF then
  <2> QED BY <1>7, <1>9, <2>1 DEF DeleteElement, then
<1>10. ASSUME NEW n, NEW t, NEW k, Labelled(t, k), NEW valid, UpdateKeyValue(n, t, k, valid)
       PROVE  CallKept
  <2> DEFINE then == [op |-> "update_key_value", node |-> n, type |-> t, name |-> k, valid |-> valid]
  <2>1. then.op = "update_key_value" /\ Labelled(then.type, then.name)
    BY <1>10
  <2>2. CASE AddElementBody(n, t, k, valid)
    BY <2>2, AddElementBodyCall DEF CallKept
  <2>3. CASE StartDelete(first_child[n], then)
    <3> HIDE DEF then
    <3> QED BY <1>7, <2>1, <2>3
  <2> QED BY <1>10, <2>2, <2>3 DEF UpdateKeyValue
<1>11. CASE GoToLeaf \/ Restart \/ RemoveLeaf
  BY <1>11 DEF GoToLeaf, GoDown, Restart, RemoveLeaf, CallOK, CallKept
<1>12. CASE RemoveTarget
  BY <1>12 DEF RemoveTarget, AfterDelete, CallOK, CallKept, NoCall
<1>13. CASE RemoveRootKey
  BY <1>b, <1>13 DEF RemoveRootKey
<1>14. CASE UpdateKeyValueFinish
  BY <1>14, AddElementBodyCall DEF UpdateKeyValueFinish, CallKept
<1>15. CASE UpdateArrayValueFinish
  BY <1>6, <1>15 DEF UpdateArrayValueFinish
<1>16. CASE Reset
  BY <1>16, ReturnCall DEF Reset, CallKept
<1>17. CASE UNCHANGED vars
  BY <1>17 DEF vars, callVars, CallOK, CallKept
<1>18. \A t \in ElementType : \A k \in NamesFor(t) : Labelled(t, k)
  BY DEF NamesFor, Labelled
<1> QED BY <1>1, <1>2, <1>3, <1>4, <1>5, <1>8, <1>9, <1>10, <1>11, <1>12, <1>13, <1>14, <1>15,
           <1>16, <1>17, <1>18 DEF Next, DeleteStep

----------------------------------------------------------------------------
(* Lists of siblings.                                                       *)

(* s is the list that starts at first and goes on by the links of next.     *)
IsList(first, next, s) ==
  /\ s \in Seq(Node)
  /\ s = <<>> => first = NIL
  /\ s # <<>> => s[1] = first /\ next[s[Len(s)]] = NIL
  /\ \A i \in 1 .. Len(s) - 1 : s[i + 1] = next[s[i]]

LEMMA ListPrefix ==
  ASSUME NEW first, NEW next, NEW s, NEW t, IsList(first, next, s), IsList(first, next, t)
  PROVE  \A i \in 1 .. Len(s) : i <= Len(t) => s[i] = t[i]
<1> DEFINE D == {i \in 1 .. Len(s) : i <= Len(t) /\ s[i] # t[i]}
<1>1. ASSUME D # {} PROVE FALSE
  <2>1. PICK d \in D : \A e \in D : d <= e
    <3>1. D \subseteq Nat
      OBVIOUS
    <3> HIDE DEF D
    <3> QED BY <1>1, <3>1, LeastLemma
  <2>2. /\ Len(s) \in Nat /\ Len(t) \in Nat /\ s \in Seq(Node) /\ t \in Seq(Node)
        /\ d \in 1 .. Len(s) /\ d <= Len(t) /\ s[d] # t[d]
    BY DEF IsList
  <2>3. d # 1
    BY <2>2 DEF IsList
  <2>4. d - 1 \in 1 .. Len(s) - 1 /\ d - 1 \in 1 .. Len(t) - 1 /\ d - 1 \notin D /\ (d - 1) + 1 = d
    BY <2>1, <2>2, <2>3
  <2>5. s[d - 1] = t[d - 1]
    BY <2>2, <2>4
  <2>6. s[d] = next[s[d - 1]] /\ t[d] = next[t[d - 1]]
    BY <2>4 DEF IsList
  <2> QED BY <2>2, <2>5, <2>6
<1> QED BY <1>1

LEMMA ListNoLonger ==
  ASSUME NEW first, NEW next, NEW s, NEW t, IsList(first, next, s), IsList(first, next, t)
  PROVE  ~(Len(s) < Len(t))
<1> SUFFICES ASSUME Len(s) < Len(t) PROVE FALSE
  OBVIOUS
<1>1. /\ Len(s) \in Nat /\ Len(t) \in Nat /\ s \in Seq(Node) /\ t \in Seq(Node)
      /\ NIL \notin Node /\ \A i \in 1 .. Len(t) : t[i] \in Node
  BY NilAssumption DEF IsList
<1>2. CASE s = <<>>
  BY <1>1, <1>2 DEF IsList
<1>3. CASE s # <<>>
  <2>1. Len(s) \in 1 .. Len(s) /\ Len(s) \in 1 .. Len(t) - 1 /\ Len(s) + 1 \in 1 .. Len(t)
    BY <1>1, <1>3
  <2>2. s[Len(s)] = t[Len(s)]
    BY <1>1, <2>1, ListPrefix
  <2>3. next[s[Len(s)]] = NIL /\ t[Len(s) + 1] = next[t[Len(s)]]
    BY <1>3, <2>1 DEF IsList
  <2> QED BY <1>1, <2>1, <2>2, <2>3
<1> QED BY <1>2, <1>3

(* There is one such list.                                                  *)
LEMMA ListUnique ==
  ASSUME NEW first, NEW next, NEW s, NEW t, IsList(first, next, s), IsList(first, next, t)
  PROVE  s = t
<1>1. Len(s) \in Nat /\ Len(t) \in Nat /\ s \in Seq(Node) /\ t \in Seq(Node)
  BY DEF IsList
<1>2. Len(s) = Len(t)
  BY <1>1, ListNoLonger
<1>3. \A i \in 1 .. Len(s) : s[i] = t[i]
  BY <1>1, <1>2, ListPrefix
<1> QED BY <1>1, <1>2, <1>3

IsConcat(r, u, v) ==
  /\ r \in Seq(Node) /\ Len(r) = Len(u) + Len(v)
  /\ \A m \in 1 .. Len(u) + Len(v) : r[m] = IF m <= Len(u) THEN u[m] ELSE v[m - Len(u)]

LEMMA ConcatNodes ==
  ASSUME NEW u \in Seq(Node), NEW v \in Seq(Node)
  PROVE  IsConcat(u \o v, u, v)
<1>1. PICK r : r = u \o v
  OBVIOUS
<1>2. r \in Seq(Node) /\ Len(r) = Len(u) + Len(v)
  BY <1>1, ConcatProperties, Zenon
<1>3. \A m \in 1 .. Len(u) + Len(v) : r[m] = IF m <= Len(u) THEN u[m] ELSE v[m - Len(u)]
  BY <1>1, ConcatProperties, Zenon
<1> QED BY <1>1, <1>2, <1>3 DEF IsConcat

(* r is s with n as its element i + 1.                                      *)
IsInserted(r, s, i, n) ==
  /\ r \in Seq(Node) /\ Len(r) = Len(s) + 1 /\ r # <<>>
  /\ r[i + 1] = n
  /\ \A m \in 1 .. i : r[m] = s[m]
  /\ \A m \in i + 2 .. Len(s) + 1 : r[m] = s[m - 1]

LEMMA InsertAtFacts ==
  ASSUME NEW s \in Seq(Node), NEW n \in Node, NEW i \in 0 .. Len(s), NEW at, at = i + 1,
         NEW r, r = InsertAt(s, at, n)
  PROVE  IsInserted(r, s, i, n)
<1>0. Len(s) \in Nat
  OBVIOUS
<1>1. Len(s) \in Nat /\ r = SubSeq(s, 1, i) \o <<n>> \o SubSeq(s, i + 1, Len(s))
  BY DEF InsertAt
<1>2. /\ SubSeq(s, 1, i) \in Seq(Node) /\ Len(SubSeq(s, 1, i)) = i
      /\ \A m \in 1 .. i : SubSeq(s, 1, i)[m] = s[m]
  BY <1>1
<1>3. /\ SubSeq(s, i + 1, Len(s)) \in Seq(Node) /\ Len(SubSeq(s, i + 1, Len(s))) = Len(s) - i
      /\ \A m \in 1 .. Len(s) - i : SubSeq(s, i + 1, Len(s))[m] = s[m + i]
  BY <1>1
<1> DEFINE u == SubSeq(s, 1, i)
           v == SubSeq(s, i + 1, Len(s))
<1> HIDE DEF u, v
<1>4. r = u \o <<n>> \o v
  BY <1>1 DEF u, v
<1>5. /\ u \in Seq(Node) /\ Len(u) = i /\ \A m \in 1 .. i : u[m] = s[m]
      /\ v \in Seq(Node) /\ Len(v) = Len(s) - i /\ \A m \in 1 .. Len(s) - i : v[m] = s[m + i]
  BY <1>2, <1>3 DEF u, v
<1> DEFINE w == Append(u, n)
<1>6. w \in Seq(Node) /\ Len(w) = i + 1 /\ w[i + 1] = n /\ \A m \in 1 .. i : w[m] = s[m]
  BY <1>5
<1>7. r = w \o v
  BY <1>4, <1>5, AppendIsConcat
<1> HIDE DEF w
<1>a. /\ r \in Seq(Node) /\ Len(r) = Len(w) + Len(v)
      /\ \A m \in 1 .. Len(w) + Len(v) : r[m] = IF m <= Len(w) THEN w[m] ELSE v[m - Len(w)]
  <2>1. w \in Seq(Node) /\ v \in Seq(Node) /\ r = w \o v
    BY <1>5, <1>6, <1>7
  <2>2. IsConcat(r, w, v)
    BY <2>1, ConcatNodes
  <2> QED BY <2>2 DEF IsConcat
<1>8. r \in Seq(Node) /\ Len(r) = Len(s) + 1
  BY <1>0, <1>5, <1>6, <1>a
<1>9. ASSUME NEW m \in 1 .. i + 1 PROVE r[m] = w[m]
  <2>1. m \in 1 .. Len(w) + Len(v) /\ m <= Len(w)
    BY <1>0, <1>5, <1>6
  <2> QED BY <1>a, <2>1
<1>10. ASSUME NEW m \in i + 2 .. Len(s) + 1 PROVE r[m] = s[m - 1]
  <2>1. r[m] = v[m - (i + 1)] /\ m - (i + 1) \in 1 .. Len(s) - i /\ (m - (i + 1)) + i = m - 1
    BY <1>0, <1>5, <1>6, <1>a
  <2>2. v[m - (i + 1)] = s[(m - (i + 1)) + i]
    BY <1>5, <2>1
  <2> QED BY <2>1, <2>2
<1>11. r # <<>>
  BY <1>0, <1>8
<1>12. \A m \in 1 .. i : m \in 1 .. i + 1
  BY <1>0
<1>13. i + 1 \in 1 .. i + 1
  BY <1>0
<1> QED BY <1>6, <1>8, <1>9, <1>10, <1>11, <1>12, <1>13 DEF IsInserted

LEMMA RemoveAtFacts ==
  ASSUME NEW s \in Seq(Node), NEW j \in 1 .. Len(s), NEW r, r = RemoveAt(s, j)
  PROVE  /\ r \in Seq(Node) /\ Len(r) = Len(s) - 1
         /\ \A m \in 1 .. j - 1 : r[m] = s[m]
         /\ \A m \in j .. Len(s) - 1 : r[m] = s[m + 1]
<1>0. Len(s) \in Nat
  OBVIOUS
<1>1. Len(s) \in Nat /\ r = SubSeq(s, 1, j - 1) \o SubSeq(s, j + 1, Len(s))
  BY DEF RemoveAt
<1> DEFINE u == SubSeq(s, 1, j - 1)
           v == SubSeq(s, j + 1, Len(s))
<1>2. u \in Seq(Node) /\ Len(u) = j - 1 /\ \A m \in 1 .. j - 1 : u[m] = s[m]
  BY <1>1
<1>3. v \in Seq(Node) /\ Len(v) = Len(s) - j /\ \A m \in 1 .. Len(s) - j : v[m] = s[m + j]
  BY <1>1
<1> HIDE DEF u, v
<1>4. r = u \o v
  BY <1>1 DEF u, v
<1>a. /\ r \in Seq(Node) /\ Len(r) = Len(u) + Len(v)
      /\ \A m \in 1 .. Len(u) + Len(v) : r[m] = IF m <= Len(u) THEN u[m] ELSE v[m - Len(u)]
  <2>1. u \in Seq(Node) /\ v \in Seq(Node) /\ r = u \o v
    BY <1>2, <1>3, <1>4
  <2>2. IsConcat(r, u, v)
    BY <2>1, ConcatNodes
  <2> QED BY <2>2 DEF IsConcat
<1>5. r \in Seq(Node) /\ Len(r) = Len(s) - 1
  BY <1>0, <1>2, <1>3, <1>a
<1>6. ASSUME NEW m \in 1 .. j - 1 PROVE r[m] = s[m]
  <2>1. m \in 1 .. Len(u) + Len(v) /\ m <= Len(u)
    BY <1>0, <1>2, <1>3
  <2> QED BY <1>2, <1>a, <2>1
<1>7. ASSUME NEW m \in j .. Len(s) - 1 PROVE r[m] = s[m + 1]
  <2>1. /\ m - (j - 1) \in 1 .. Len(s) - j /\ (m - (j - 1)) + j = m + 1
        /\ m \in 1 .. Len(u) + Len(v) /\ ~(m <= Len(u)) /\ m - Len(u) = m - (j - 1)
    BY <1>0, <1>2, <1>3
  <2>3. r[m] = v[m - (j - 1)]
    BY <1>a, <2>1
  <2>2. v[m - (j - 1)] = s[(m - (j - 1)) + j]
    BY <1>3, <2>1
  <2> QED BY <2>1, <2>2, <2>3
<1> QED BY <1>5, <1>6, <1>7

(* A node put into a list, in front or behind the i-th.                     *)
LEMMA InsertList ==
  ASSUME NEW first, NEW next, NEW next2, NEW s, IsList(first, next, s),
         \A a, b \in 1 .. Len(s) : s[a] = s[b] => a = b,
         NEW n \in Node, NEW i \in 0 .. Len(s),
         next2[n] = IF i = 0 THEN first ELSE next[s[i]],
         i # 0 => next2[s[i]] = n,
         \A m \in 1 .. Len(s) : m # i => next2[s[m]] = next[s[m]]
  PROVE  IsList(IF i = 0 THEN n ELSE first, next2, InsertAt(s, i + 1, n))
<1> DEFINE r == InsertAt(s, i + 1, n)
<1>1. s \in Seq(Node) /\ Len(s) \in Nat /\ i \in Nat
  BY DEF IsList
<1> HIDE DEF r
<1>2. r = InsertAt(s, i + 1, n)
  BY DEF r
<1>3. /\ r \in Seq(Node) /\ Len(r) = Len(s) + 1 /\ r # <<>> /\ r[i + 1] = n
      /\ \A m \in 1 .. i : r[m] = s[m]
      /\ \A m \in i + 2 .. Len(s) + 1 : r[m] = s[m - 1]
  <2>1. PICK at : at = i + 1 /\ r = InsertAt(s, at, n)
    BY <1>2
  <2>2. s \in Seq(Node) /\ n \in Node /\ i \in 0 .. Len(s)
    BY <1>1
  <2>3. IsInserted(r, s, i, n)
    BY ONLY <2>1, <2>2, InsertAtFacts
  <2> QED BY <2>3 DEF IsInserted
<1>4. r[1] = IF i = 0 THEN n ELSE first
  <2>1. CASE i = 0
    BY <1>3, <2>1
  <2>2. CASE i # 0
    <3>1. 1 \in 1 .. i /\ s # <<>>
      BY <1>1, <2>2
    <3> QED BY <1>3, <2>2, <3>1 DEF IsList
  <2> QED BY <2>1, <2>2
<1>5. next2[r[Len(r)]] = NIL
  <2>1. CASE i = Len(s)
    <3>1. CASE i = 0
      <4>1. Len(s) = 0 /\ Len(r) = i + 1
        BY <1>1, <1>3, <2>1, <3>1
      <4>2. s = <<>> /\ r[Len(r)] = n
        BY <1>1, <1>3, <4>1
      <4> QED BY <3>1, <4>2 DEF IsList
    <3>2. CASE i # 0
      BY <1>1, <1>3, <2>1, <3>2 DEF IsList
    <3> QED BY <3>1, <3>2
  <2>2. CASE i # Len(s)
    <3>1. Len(s) + 1 \in i + 2 .. Len(s) + 1 /\ (Len(s) + 1) - 1 = Len(s) /\ Len(s) \in 1 .. Len(s)
      BY <1>1, <2>2
    <3>2. r[Len(r)] = s[Len(s)] /\ s # <<>>
      BY <1>1, <1>3, <3>1
    <3> QED BY <2>2, <3>1, <3>2 DEF IsList
  <2> QED BY <2>1, <2>2
<1>6. ASSUME NEW m \in 1 .. Len(r) - 1 PROVE r[m + 1] = next2[r[m]]
  <2>0. m \in 1 .. Len(s) /\ m \in Nat
    BY <1>1, <1>3
  <2>1. CASE m < i
    <3>1. m \in 1 .. i /\ m + 1 \in 1 .. i /\ m \in 1 .. Len(s) - 1
      BY <1>1, <2>0, <2>1
    <3>2. r[m] = s[m] /\ r[m + 1] = s[m + 1] /\ s[m + 1] = next[s[m]]
      BY <1>3, <3>1 DEF IsList
    <3> QED BY <2>0, <2>1, <3>2
  <2>2. CASE m = i
    <3>1. m \in 1 .. i /\ i # 0
      BY <1>1, <2>0, <2>2
    <3> QED BY <1>3, <2>2, <3>1
  <2>3. CASE m = i + 1
    <3>1. m + 1 \in i + 2 .. Len(s) + 1 /\ (m + 1) - 1 = m
      BY <1>1, <2>0, <2>3
    <3>2. r[m] = n /\ r[m + 1] = s[m]
      BY <1>3, <2>3, <3>1
    <3>3. CASE i = 0
      BY <2>0, <2>3, <3>2, <3>3 DEF IsList
    <3>4. CASE i # 0
      <4>1. i \in 1 .. Len(s) - 1
        BY <1>1, <2>0, <2>3, <3>4
      <4>2. s[i + 1] = next[s[i]]
        BY <4>1 DEF IsList
      <4> QED BY <2>3, <3>2, <3>4, <4>2
    <3> QED BY <3>3, <3>4
  <2>4. CASE m > i + 1
    <3>1. /\ m \in i + 2 .. Len(s) + 1 /\ m + 1 \in i + 2 .. Len(s) + 1
          /\ (m + 1) - 1 = m /\ m - 1 \in 1 .. Len(s) - 1 /\ (m - 1) + 1 = m /\ m - 1 # i
          /\ m - 1 \in 1 .. Len(s)
      BY <1>1, <2>0, <2>4
    <3>2. r[m] = s[m - 1] /\ r[m + 1] = s[m]
      BY <1>3, <3>1
    <3>3. s[m] = next[s[m - 1]]
      BY <3>1 DEF IsList
    <3> QED BY <3>1, <3>2, <3>3
  <2> QED BY <1>1, <2>0, <2>1, <2>2, <2>3, <2>4
<1> QED BY <1>3, <1>4, <1>5, <1>6 DEF IsList, r

(* The j-th node taken out of a list.                                       *)
LEMMA RemoveList ==
  ASSUME NEW first, NEW next, NEW next2, NEW s, IsList(first, next, s),
         \A a, b \in 1 .. Len(s) : s[a] = s[b] => a = b,
         NEW j \in 1 .. Len(s),
         j > 1 => next2[s[j - 1]] = next[s[j]],
         \A m \in 1 .. Len(s) : m # j /\ m # j - 1 => next2[s[m]] = next[s[m]]
  PROVE  IsList(IF j = 1 THEN next[s[1]] ELSE first, next2, RemoveAt(s, j))
<1> DEFINE r == RemoveAt(s, j)
<1>1. s \in Seq(Node) /\ Len(s) \in Nat /\ j \in Nat
  BY DEF IsList
<1> HIDE DEF r
<1>2. r = RemoveAt(s, j)
  BY DEF r
<1>3. /\ r \in Seq(Node) /\ Len(r) = Len(s) - 1
      /\ \A m \in 1 .. j - 1 : r[m] = s[m]
      /\ \A m \in j .. Len(s) - 1 : r[m] = s[m + 1]
  BY ONLY <1>1, <1>2, RemoveAtFacts, j \in 1 .. Len(s)
<1>4. r = <<>> => (IF j = 1 THEN next[s[1]] ELSE first) = NIL
  <2> SUFFICES ASSUME r = <<>> PROVE j = 1 /\ next[s[1]] = NIL
    OBVIOUS
  <2>1. Len(r) = 0
    OBVIOUS
  <2>2. Len(s) - 1 = 0 /\ Len(s) \in Nat
    BY <1>1, <1>3, <2>1
  <2>3. Len(s) = 1 /\ j = 1
    <3>1. j \in 1 .. Len(s)
      OBVIOUS
    <3>2. Len(s) = 1
      BY ONLY <2>2
    <3> QED BY ONLY <3>1, <3>2
  <2>4. s # <<>>
    BY <2>3
  <2> QED BY <2>3, <2>4 DEF IsList
<1>5. ASSUME r # <<>>
      PROVE  r[1] = IF j = 1 THEN next[s[1]] ELSE first
  <2>0. Len(s) > 1
    BY <1>1, <1>3, <1>5
  <2>1. CASE j = 1
    <3>1. 1 \in j .. Len(s) - 1 /\ 1 \in 1 .. Len(s) - 1
      BY <1>1, <2>0, <2>1
    <3>2. r[1] = s[1 + 1] /\ s[1 + 1] = next[s[1]]
      BY <1>3, <3>1 DEF IsList
    <3> QED BY <2>1, <3>2
  <2>2. CASE j # 1
    <3>1. 1 \in 1 .. j - 1 /\ s # <<>>
      BY <1>1, <2>2
    <3> QED BY <1>3, <2>2, <3>1 DEF IsList
  <2> QED BY <2>1, <2>2
<1>6. ASSUME r # <<>>
      PROVE  next2[r[Len(r)]] = NIL
  <2>0. Len(s) > 1 /\ s # <<>>
    BY <1>1, <1>3, <1>6
  <2>1. CASE j = Len(s)
    <3>1. Len(r) \in 1 .. j - 1 /\ Len(r) = j - 1 /\ j > 1
      BY <1>1, <1>3, <2>0, <2>1
    <3>2. r[Len(r)] = s[j - 1] /\ next[s[j]] = NIL
      BY <1>3, <2>0, <2>1, <3>1 DEF IsList
    <3> QED BY <3>1, <3>2
  <2>2. CASE j # Len(s)
    <3>1. Len(r) \in j .. Len(s) - 1 /\ Len(r) + 1 = Len(s) /\ Len(s) # j - 1 /\ Len(s) \in 1 .. Len(s)
      BY <1>1, <1>3, <2>0, <2>2
    <3>2. r[Len(r)] = s[Len(s)] /\ next[s[Len(s)]] = NIL
      BY <1>3, <2>0, <3>1 DEF IsList
    <3> QED BY <2>2, <3>1, <3>2
  <2> QED BY <2>1, <2>2
<1>7. ASSUME NEW m \in 1 .. Len(r) - 1 PROVE r[m + 1] = next2[r[m]]
  <2>0. m \in 1 .. Len(s) - 2 /\ m \in Nat
    BY <1>1, <1>3
  <2>1. CASE m < j - 1
    <3>1. /\ m \in 1 .. j - 1 /\ m + 1 \in 1 .. j - 1 /\ m \in 1 .. Len(s) - 1 /\ m \in 1 .. Len(s)
          /\ m # j
      BY <1>1, <2>0, <2>1
    <3>2. r[m] = s[m] /\ r[m + 1] = s[m + 1] /\ s[m + 1] = next[s[m]]
      BY <1>3, <3>1 DEF IsList
    <3> QED BY <2>1, <3>1, <3>2
  <2>2. CASE m = j - 1
    <3>1. /\ m \in 1 .. j - 1 /\ m + 1 = j /\ m + 1 \in j .. Len(s) - 1 /\ (m + 1) + 1 = j + 1
          /\ j \in 1 .. Len(s) - 1 /\ j > 1
      BY <1>1, <2>0, <2>2
    <3>2. r[m] = s[j - 1] /\ r[m + 1] = s[j + 1] /\ s[j + 1] = next[s[j]]
      BY <1>3, <2>2, <3>1 DEF IsList
    <3> QED BY <3>1, <3>2
  <2>3. CASE m > j - 1
    <3>1. /\ m \in j .. Len(s) - 1 /\ m + 1 \in j .. Len(s) - 1 /\ m + 1 \in 1 .. Len(s) - 1
          /\ m + 1 \in 1 .. Len(s) /\ m + 1 # j /\ m + 1 # j - 1
      BY <1>1, <2>0, <2>3
    <3>2. r[m] = s[m + 1] /\ r[m + 1] = s[(m + 1) + 1] /\ s[(m + 1) + 1] = next[s[m + 1]]
      BY <1>3, <3>1 DEF IsList
    <3> QED BY <3>1, <3>2
  <2> QED BY <1>1, <2>0, <2>1, <2>2, <2>3
<1> QED BY <1>3, <1>4, <1>5, <1>6, <1>7 DEF IsList, r

----------------------------------------------------------------------------
(* The children of every element are such a list.                           *)

Lists == [p \in Live |-> Children(p)]

ListsOK ==
  \A p \in Live :
    /\ IsList(first_child[p], sibling, Lists[p])
    /\ \A i \in 1 .. Len(Lists[p]) : Lists[p][i] \in Live /\ parent[Lists[p][i]] = p
    /\ \A i, j \in 1 .. Len(Lists[p]) : Lists[p][i] = Lists[p][j] => i = j
    /\ \A n \in Live : parent[n] = p => \E i \in 1 .. Len(Lists[p]) : Lists[p][i] = n

LEMMA ChildrenListed ==
  ASSUME TreeShape, NEW p \in Live, NEW s, s = Children(p)
  PROVE  IsList(first_child[p], sibling, s)
<1>1. /\ PoolInv /\ TreeOK /\ NIL \notin Live /\ p \in Node
      /\ Met(p, Capacity, s) /\ Capacity \in Nat \ {0}
  BY LiveNodes, ChildrenMet, CapacityAssumption DEF TreeShape
<1>2. /\ s \in Seq(Node) /\ Len(s) \in Nat
      /\ \A i \in 1 .. Len(s) : s[i] \in Live /\ parent[s[i]] = p
      /\ \A i, j \in 1 .. Len(s) : s[i] = s[j] => i = j
      /\ \A n \in Live : parent[n] = p => \E i \in 1 .. Len(s) : s[i] = n
      /\ \A i \in 1 .. Len(s) - 1 : s[i + 1] = sibling[s[i]]
  BY ChildrenFacts
<1>3. s = <<>> => first_child[p] = NIL
  BY <1>1 DEF Met
<1>4. s # <<>> => s[1] = first_child[p]
  BY <1>1 DEF Met
<1>5. ASSUME s # <<>> PROVE sibling[s[Len(s)]] = NIL
  <2>1. Len(s) \in 1 .. Len(s) /\ first_child[p] # NIL
    <3>1. Len(s) \in 1 .. Len(s) /\ 1 \in 1 .. Len(s)
      BY <1>2, <1>5
    <3> QED BY <1>1, <1>2, <1>4, <1>5, <3>1
  <2>2. last_child[p] \in Live /\ parent[last_child[p]] = p
    <3>1. {parent[p], sibling[p], first_child[p], last_child[p]} \subseteq Live \cup {NIL}
      BY <1>1 DEF TreeOK, LinksLive
    <3> QED BY <1>1, <2>1, <3>1 DEF TreeOK, EndsOK
  <2>3. PICK i \in 1 .. Len(s) : s[i] = last_child[p]
    BY <1>2, <2>2
  <2>4. sibling[s[i]] = NIL
    BY <1>1, <2>2, <2>3 DEF TreeOK, SiblingsOK
  <2>5. CASE i = Len(s)
    BY <2>4, <2>5
  <2>6. CASE i # Len(s)
    <3>1. i \in 1 .. Len(s) - 1 /\ i + 1 \in 1 .. Len(s)
      BY <1>2, <2>3, <2>6
    <3>2. s[i + 1] = NIL /\ s[i + 1] \in Live
      BY <1>2, <2>4, <3>1
    <3> QED BY <1>1, <3>2
  <2> QED BY <2>5, <2>6
<1> QED BY <1>2, <1>3, <1>4, <1>5 DEF IsList

LEMMA ListsLemma == TreeShape => ListsOK
<1> SUFFICES ASSUME TreeShape, NEW p \in Live
             PROVE  /\ IsList(first_child[p], sibling, Lists[p])
                    /\ \A i \in 1 .. Len(Lists[p]) : Lists[p][i] \in Live /\ parent[Lists[p][i]] = p
                    /\ \A i, j \in 1 .. Len(Lists[p]) : Lists[p][i] = Lists[p][j] => i = j
                    /\ \A n \in Live : parent[n] = p => \E i \in 1 .. Len(Lists[p]) : Lists[p][i] = n
  BY DEF ListsOK
<1>1. PICK s : s = Children(p)
  OBVIOUS
<1>2. Lists[p] = s
  BY <1>1 DEF Lists
<1>3. IsList(first_child[p], sibling, s)
  BY <1>1, ChildrenListed
<1>4. /\ \A i \in 1 .. Len(s) : s[i] \in Live /\ parent[s[i]] = p
      /\ \A i, j \in 1 .. Len(s) : s[i] = s[j] => i = j
      /\ \A n \in Live : parent[n] = p => \E i \in 1 .. Len(s) : s[i] = n
  BY <1>1, ChildrenFacts
<1> QED BY <1>2, <1>3, <1>4, Zenon

SeqsOK ==
  ChildSeqs = [n \in Kept |-> IF target = NIL THEN Lists[n] ELSE RemoveFirst(Lists[n], target)]

LEMMA SeqsLemma == SeqsOK
<1>1. \A n \in Kept : Children(n) = Lists[n]
  BY DEF Kept, Lists
<1> QED BY <1>1 DEF SeqsOK, ChildSeqs, ChildSeq

(* What RemoveFirst does to a list without repetitions.                     *)
LEMMA RemoveFirstLemma ==
  ASSUME NEW s \in Seq(Node), \A i, j \in 1 .. Len(s) : s[i] = s[j] => i = j, NEW e
  PROVE  /\ \A j \in 1 .. Len(s) : s[j] = e => RemoveFirst(s, e) = RemoveAt(s, j)
         /\ (\A j \in 1 .. Len(s) : s[j] # e) => RemoveFirst(s, e) = s
<1>1. ASSUME NEW j \in 1 .. Len(s), s[j] = e
      PROVE  RemoveFirst(s, e) = RemoveAt(s, j)
  <2> DEFINE I == {i \in 1 .. Len(s) : s[i] = e}
  <2>1. I = {j}
    BY <1>1
  <2>2. SelectInSeq(s, LAMBDA v : v = e) = j
    <3>1. SelectInSeq(s, LAMBDA v : v = e) = IF I # {} THEN Min(I) ELSE 0
      BY DEF SelectInSeq
    <3>2. Min({j}) = j
      <4>1. j \in Nat /\ \A y \in {j} : j <= y
        OBVIOUS
      <4> QED BY <4>1 DEF Min
    <3> HIDE DEF I
    <3> QED BY <2>1, <3>1, <3>2
  <2> QED BY <1>1, <2>2 DEF RemoveFirst
<1>2. ASSUME \A j \in 1 .. Len(s) : s[j] # e
      PROVE  RemoveFirst(s, e) = s
  BY <1>2 DEF RemoveFirst
<1> QED BY <1>1, <1>2

----------------------------------------------------------------------------
(* An element with everything below it: the sets that JsonDocument and      *)
(* JesTreeDocument compute step by step.                                    *)

(* S is e and all that is below it: it is closed under children, and leads  *)
(* to e by the parents.                                                     *)
IsBelow(S, e) ==
  /\ S \subseteq Live /\ e \in S
  /\ \A m \in Live : parent[m] \in S => m \in S
  /\ \A m \in S : m = e \/ parent[m] \in S

LEMMA BelowLeast ==
  ASSUME TreeOK, NEW e, NEW S, NEW P, IsBelow(S, e), P \subseteq Live,
         \A m \in P : m = e \/ parent[m] \in P
  PROVE  P \subseteq S
<1> DEFINE D == P \ S
<1> SUFFICES ASSUME D # {} PROVE FALSE
  OBVIOUS
<1>1. PICK m \in D : parent[m] \notin D
  BY DEF TreeOK, Acyclic
<1> QED BY <1>1 DEF IsBelow

LEMMA BelowUnique ==
  ASSUME TreeOK, NEW e, NEW S, NEW T, IsBelow(S, e), IsBelow(T, e)
  PROVE  S = T
BY BelowLeast DEF IsBelow

(* The step-by-step computation, for a relation R.                          *)
Reaches(f, R, e, K) ==
  f = [n \in 0 .. K |->
         IF n = 0 THEN {e} ELSE f[n - 1] \cup {m \in Node : \E x \in f[n - 1] : <<x, m>> \in R}]

LEMMA ReachesNodes ==
  ASSUME NEW f, NEW R, NEW e \in Node, Reaches(f, R, e, Capacity)
  PROVE  /\ \A n \in 0 .. Capacity : f[n] \subseteq Node /\ e \in f[n]
         /\ \A n \in 0 .. Capacity : \A m \in f[n] : m = e \/ \E x \in f[n] : <<x, m>> \in R
<1> DEFINE Good(n) == /\ f[n] \subseteq Node /\ e \in f[n]
                      /\ \A m \in f[n] : m = e \/ \E x \in f[n] : <<x, m>> \in R
           D == {n \in 0 .. Capacity : ~Good(n)}
<1>0. Capacity \in Nat
  BY CapacityAssumption
<1>1. ASSUME D # {} PROVE FALSE
  <2>1. PICK d \in D : \A c \in D : d <= c
    <3>1. D \subseteq Nat
      BY <1>0
    <3> HIDE DEF D
    <3> QED BY <1>1, <3>1, LeastLemma
  <2>2. d \in 0 .. Capacity /\ ~Good(d)
    OBVIOUS
  <2>3. CASE d = 0
    <3>1. f[0] = {e}
      BY <1>0 DEF Reaches
    <3> QED BY <2>2, <2>3, <3>1
  <2>4. CASE d # 0
    <3>1. d - 1 \in 0 .. Capacity /\ d - 1 \notin D
      <4>1. d \in 0 .. Capacity
        BY <2>2
      <4> HIDE DEF D
      <4> QED BY <1>0, <2>1, <2>4, <4>1
    <3>2. Good(d - 1)
      BY <3>1
    <3>3. f[d] = f[d - 1] \cup {m \in Node : \E x \in f[d - 1] : <<x, m>> \in R}
      BY <2>2, <2>4 DEF Reaches
    <3> QED BY <2>2, <3>2, <3>3
  <2> QED BY <2>3, <2>4
<1>2. \A n \in 0 .. Capacity : Good(n)
  BY <1>1
<1> QED BY <1>2

(* Nothing is left to reach after Capacity steps: each step before the last *)
(* has reached another node.                                                *)
LEMMA ReachesAll ==
  ASSUME NEW f, NEW R, NEW e \in Node, Reaches(f, R, e, Capacity)
  PROVE  \A x \in f[Capacity], m \in Node : <<x, m>> \in R => m \in f[Capacity]
<1> DEFINE Next1(S) == {m \in Node : \E x \in S : <<x, m>> \in R}
           Good(n) == \/ Next1(f[n]) \subseteq f[n]
                      \/ Cardinality(f[n]) >= n + 1
           D == {n \in 0 .. Capacity : ~Good(n)}
<1>0. Capacity \in Nat /\ IsFiniteSet(Node) /\ Cardinality(Node) = Capacity
  <2>1. Capacity \in Nat /\ Node = 0 .. Capacity - 1
    BY CapacityAssumption DEF Node
  <2>2. IsFiniteSet(0 .. Capacity - 1) /\ Cardinality(0 .. Capacity - 1) = Capacity
    BY <2>1, FS_Interval, CapacityAssumption
  <2> QED BY <2>1, <2>2
<1>a. \A n \in 0 .. Capacity : /\ f[n] \subseteq Node
                               /\ IsFiniteSet(f[n]) /\ Cardinality(f[n]) \in Nat
                               /\ Cardinality(f[n]) <= Capacity
  BY <1>0, ReachesNodes, FS_Subset, FS_CardinalityType
<1>1. ASSUME D # {} PROVE FALSE
  <2>1. PICK d \in D : \A c \in D : d <= c
    <3>1. D \subseteq Nat
      BY <1>0
    <3> HIDE DEF D
    <3> QED BY <1>1, <3>1, LeastLemma
  <2>2. d \in 0 .. Capacity /\ ~Good(d)
    OBVIOUS
  <2>3. CASE d = 0
    <3>1. f[0] = {e}
      BY <1>0 DEF Reaches
    <3>2. Cardinality(f[0]) = 1
      BY <3>1, FS_Singleton
    <3> QED BY <2>2, <2>3, <3>2
  <2>4. CASE d # 0
    <3>1. d - 1 \in 0 .. Capacity /\ d - 1 \notin D /\ (d - 1) + 1 = d
      <4>1. d \in 0 .. Capacity
        BY <2>2
      <4> HIDE DEF D
      <4> QED BY <1>0, <2>1, <2>4, <4>1
    <3>2. Good(d - 1)
      BY <3>1
    <3>3. f[d] = f[d - 1] \cup Next1(f[d - 1])
      BY <2>2, <2>4 DEF Reaches
    <3>4. CASE Next1(f[d - 1]) \subseteq f[d - 1]
      <4>1. f[d] = f[d - 1]
        BY <3>3, <3>4
      <4> QED BY <2>2, <3>4, <4>1
    <3>5. CASE ~(Next1(f[d - 1]) \subseteq f[d - 1])
      <4>1. f[d - 1] \subseteq f[d] /\ f[d - 1] # f[d]
        BY <3>3, <3>5
      <4>2. /\ Cardinality(f[d - 1]) \in Nat /\ Cardinality(f[d]) \in Nat
            /\ Cardinality(f[d - 1]) <= Cardinality(f[d])
            /\ Cardinality(f[d - 1]) # Cardinality(f[d])
        BY <1>a, <2>2, <3>1, <4>1, FS_Subset
      <4>3. Cardinality(f[d - 1]) >= (d - 1) + 1
        BY <3>2, <3>5
      <4>4. Cardinality(f[d]) >= d + 1
        BY <2>2, <4>2, <4>3
      <4> QED BY <2>2, <4>4
    <3> QED BY <3>4, <3>5
  <2> QED BY <2>3, <2>4
<1>3. Capacity \in 0 .. Capacity
  BY <1>0
<1>2. Good(Capacity)
  <2> HIDE DEF Good
  <2> QED BY <1>1, <1>3
<1>4. Next1(f[Capacity]) \subseteq f[Capacity]
  BY <1>0, <1>2, <1>3, <1>a
<1> QED BY <1>4

LEMMA ReachesExists ==
  ASSUME NEW R, NEW e, NEW K \in Nat
  PROVE  \E f : Reaches(f, R, e, K)
<1> DEFINE More(S) == S \cup {m \in Node : \E x \in S : <<x, m>> \in R}
           D == {k \in Nat : ~ \E f : Reaches(f, R, e, k)}
<1> SUFFICES ASSUME D # {} PROVE FALSE
  OBVIOUS
<1>1. PICK d \in D : \A c \in D : d <= c
  <2>1. D \subseteq Nat
    OBVIOUS
  <2> HIDE DEF D
  <2> QED BY <2>1, LeastLemma
<1>2. d \in Nat /\ ~ \E f : Reaches(f, R, e, d)
  OBVIOUS
<1>0. \A k, f : Reaches(f, R, e, k) <=> f = [n \in 0 .. k |-> IF n = 0 THEN {e} ELSE More(f[n - 1])]
  BY DEF Reaches
<1>3. CASE d = 0
  <2> DEFINE f == [n \in 0 .. 0 |-> {e}]
  <2>1. f = [n \in 0 .. 0 |-> IF n = 0 THEN {e} ELSE More(f[n - 1])]
    OBVIOUS
  <2> HIDE DEF More, f
  <2> QED BY <1>0, <1>2, <1>3, <2>1
<1>4. CASE d # 0
  <2>1. d - 1 \in Nat /\ d - 1 \notin D
    BY <1>1, <1>2, <1>4
  <2>2. PICK f : Reaches(f, R, e, d - 1)
    BY <2>1
  <2> HIDE DEF More
  <2>5. f = [n \in 0 .. d - 1 |-> IF n = 0 THEN {e} ELSE More(f[n - 1])]
    BY <1>0, <2>2
  <2> DEFINE g == [n \in 0 .. d |-> IF n < d THEN f[n] ELSE More(f[d - 1])]
  <2>3. ASSUME NEW n \in 0 .. d
        PROVE  g[n] = IF n = 0 THEN {e} ELSE More(g[n - 1])
    <3>1. CASE n = 0
      <4>1. f[0] = {e} /\ 0 < d
        BY <1>2, <1>4, <2>1, <2>5
      <4> QED BY <3>1, <4>1
    <3>2. CASE n = d
      <4>1. g[n] = More(f[d - 1]) /\ g[n - 1] = f[d - 1]
        BY <1>2, <1>4, <3>2
      <4> QED BY <1>4, <3>2, <4>1
    <3>3. CASE n # 0 /\ n # d
      <4>1. n \in 0 .. d - 1 /\ n < d /\ n - 1 \in 0 .. d /\ n - 1 < d
        BY <1>2, <3>3
      <4>2. f[n] = More(f[n - 1])
        BY <2>5, <3>3, <4>1
      <4>3. g[n] = f[n] /\ g[n - 1] = f[n - 1]
        BY <3>3, <4>1
      <4> QED BY <3>3, <4>2, <4>3
    <3> QED BY <3>1, <3>2, <3>3
  <2>4. g = [n \in 0 .. d |-> IF n = 0 THEN {e} ELSE More(g[n - 1])]
    <3>1. g = [n \in 0 .. d |-> g[n]]
      OBVIOUS
    <3> HIDE DEF g
    <3> QED BY <2>3, <3>1
  <2> HIDE DEF g
  <2> QED BY <1>0, <1>2, <2>4
<1> QED BY <1>3, <1>4

(* The links as such a relation.                                            *)
Links == {l \in Live \X Live : parent[l[2]] = l[1]}

LEMMA LinksReach ==
  ASSUME PoolInv, NEW f, NEW e \in Live, Reaches(f, Links, e, Capacity)
  PROVE  IsBelow(f[Capacity], e)
<1>1. Live \subseteq Node /\ Capacity \in 0 .. Capacity
  BY LiveNodes, CapacityAssumption
<1>2. /\ f[Capacity] \subseteq Node /\ e \in f[Capacity]
      /\ \A m \in f[Capacity] : m = e \/ \E x \in f[Capacity] : <<x, m>> \in Links
      /\ \A x \in f[Capacity], m \in Node : <<x, m>> \in Links => m \in f[Capacity]
  BY <1>1, ReachesNodes, ReachesAll
<1>3. \A x, m : <<x, m>> \in Links <=> x \in Live /\ m \in Live /\ parent[m] = x
  BY DEF Links
<1>4. f[Capacity] \subseteq Live
  BY <1>2, <1>3
<1>5. \A m \in Live : parent[m] \in f[Capacity] => m \in f[Capacity]
  BY <1>1, <1>2, <1>3, <1>4
<1>6. ASSUME NEW m \in f[Capacity], m # e PROVE parent[m] \in f[Capacity]
  <2>1. PICK x \in f[Capacity] : <<x, m>> \in Links
    BY <1>2, <1>6
  <2>2. parent[m] = x
    BY <1>3, <2>1
  <2> QED BY <2>2
<1> QED BY <1>2, <1>4, <1>5, <1>6 DEF IsBelow

(* Any computation that takes the children of what it has computes this.    *)
LEMMA LinksReachSame ==
  ASSUME PoolInv, NEW e \in Live, NEW f, NEW g, Reaches(g, Links, e, Capacity),
         \A n \in 0 .. Capacity : n = 0 => f[n] = {e},
         \A n \in 1 .. Capacity : f[n - 1] \subseteq Live =>
            f[n] = f[n - 1] \cup {m \in Live : parent[m] \in f[n - 1]}
  PROVE  f[Capacity] = g[Capacity]
<1> DEFINE D == {n \in 0 .. Capacity : f[n] # g[n] \/ ~(g[n] \subseteq Live)}
<1>0. Capacity \in Nat /\ Live \subseteq Node
  BY CapacityAssumption, LiveNodes
<1>1. ASSUME D # {} PROVE FALSE
  <2>1. PICK d \in D : \A c \in D : d <= c
    <3>1. D \subseteq Nat
      BY <1>0
    <3> HIDE DEF D
    <3> QED BY <1>1, <3>1, LeastLemma
  <2>2. d \in 0 .. Capacity /\ ~(f[d] = g[d] /\ g[d] \subseteq Live)
    OBVIOUS
  <2>3. CASE d = 0
    <3>1. g[0] = {e} /\ f[0] = {e}
      BY <1>0 DEF Reaches
    <3> QED BY <2>2, <2>3, <3>1
  <2>4. CASE d # 0
    <3>1. d - 1 \in 0 .. Capacity /\ d - 1 \notin D /\ d \in 1 .. Capacity
      BY <1>0, <2>1, <2>2, <2>4
    <3>2. f[d - 1] = g[d - 1] /\ g[d - 1] \subseteq Live
      BY <3>1
    <3>3. g[d] = g[d - 1] \cup {m \in Node : \E x \in g[d - 1] : <<x, m>> \in Links}
      BY <2>2, <2>4 DEF Reaches
    <3>4. f[d] = f[d - 1] \cup {m \in Live : parent[m] \in f[d - 1]}
      BY <3>1, <3>2
    <3>5. \A x, m : <<x, m>> \in Links <=> x \in Live /\ m \in Live /\ parent[m] = x
      BY DEF Links
    <3> HIDE DEF Links
    <3>6. {m \in Node : \E x \in g[d - 1] : <<x, m>> \in Links} = {m \in Live : parent[m] \in f[d - 1]}
      <4>1. \A m : (m \in Node /\ \E x \in g[d - 1] : <<x, m>> \in Links)
                     <=> m \in Live /\ parent[m] \in f[d - 1]
        BY <1>0, <3>2, <3>5, Zenon
      <4> QED BY <4>1
    <3> QED BY <2>2, <3>2, <3>3, <3>4, <3>6
  <2> QED BY <2>3, <2>4
<1> QED BY <1>0, <1>1

LEMMA LinksReachLive ==
  ASSUME PoolInv, NEW g, NEW e \in Live, Reaches(g, Links, e, Capacity)
  PROVE  \A n \in 0 .. Capacity : g[n] \subseteq Live
<1>1. Live \subseteq Node
  BY LiveNodes
<1>2. \A n \in 0 .. Capacity : \A m \in g[n] : m = e \/ \E x \in g[n] : <<x, m>> \in Links
  BY <1>1, ReachesNodes
<1>3. \A x, m : <<x, m>> \in Links => m \in Live
  BY DEF Links
<1> QED BY <1>2, <1>3

(* What goes with the target.                                               *)
GoingSteps(f) ==
  f = [n \in 0 .. Capacity |->
         IF n = 0 THEN {target} ELSE f[n - 1] \cup {m \in Live : parent[m] \in f[n - 1]}]

LEMMA GoingDef ==
  ASSUME target # NIL
  PROVE  Going = (CHOOSE f : GoingSteps(f))[Capacity]
BY DEF Going, GoingSteps

GoingOK == IF target = NIL THEN Going = {} ELSE IsBelow(Going, target)

LEMMA GoingLemma == PoolInv /\ target \in Live \cup {NIL} => GoingOK
<1> SUFFICES ASSUME PoolInv, target \in Live, target # NIL PROVE IsBelow(Going, target)
  BY DEF GoingOK, Going
<1>0. Capacity \in Nat /\ Live \subseteq Node
  BY CapacityAssumption, LiveNodes
<1>1. PICK g : Reaches(g, Links, target, Capacity)
  BY <1>0, ReachesExists
<1>2. \A n \in 0 .. Capacity : g[n] \subseteq Live
  BY <1>1, LinksReachLive
<1>3. \A x, m : <<x, m>> \in Links <=> x \in Live /\ m \in Live /\ parent[m] = x
  BY DEF Links
<1>4. ASSUME NEW n \in 0 .. Capacity
      PROVE  g[n] = IF n = 0 THEN {target} ELSE g[n - 1] \cup {m \in Live : parent[m] \in g[n - 1]}
  <2>1. CASE n = 0
    BY <1>1, <2>1 DEF Reaches
  <2>2. CASE n # 0
    <3>1. n - 1 \in 0 .. Capacity
      BY <1>0, <2>2
    <3>2. g[n] = g[n - 1] \cup {m \in Node : \E x \in g[n - 1] : <<x, m>> \in Links}
      BY <1>1, <2>2 DEF Reaches
    <3>3. g[n - 1] \subseteq Live
      BY <1>2, <3>1
    <3>4. \A m : (m \in Node /\ \E x \in g[n - 1] : <<x, m>> \in Links)
                   <=> m \in Live /\ parent[m] \in g[n - 1]
      BY <1>0, <1>3, <3>3, Zenon
    <3>5. {m \in Node : \E x \in g[n - 1] : <<x, m>> \in Links}
            = {m \in Live : parent[m] \in g[n - 1]}
      BY <3>4
    <3> QED BY <2>2, <3>2, <3>5
  <2> QED BY <2>1, <2>2
<1>5. GoingSteps(g)
  <2>1. g = [n \in 0 .. Capacity |-> g[n]]
    BY <1>1 DEF Reaches
  <2> QED BY <1>4, <2>1 DEF GoingSteps
<1> DEFINE f == CHOOSE h : GoingSteps(h)
<1>6. GoingSteps(f)
  BY <1>5
<1> HIDE DEF f
<1>7. \A n \in 0 .. Capacity : n = 0 => f[n] = {target}
  BY <1>6 DEF GoingSteps
<1>8. \A n \in 1 .. Capacity : f[n] = f[n - 1] \cup {m \in Live : parent[m] \in f[n - 1]}
  BY <1>0, <1>6 DEF GoingSteps
<1>9. f[Capacity] = g[Capacity]
  BY <1>1, <1>7, <1>8, LinksReachSame
<1>10. IsBelow(g[Capacity], target)
  BY <1>1, LinksReach
<1> QED BY <1>9, <1>10, GoingDef DEF f

(* What the document takes away.                                            *)
DocumentSteps(f, e) ==
  f = [n \in 0 .. Capacity |->
         IF n = 0 THEN {e}
         ELSE f[n - 1] \cup UNION {ToSet(ChildSeqs[x]) : x \in f[n - 1]}]

LEMMA SameInsertAt ==
  ASSUME NEW s, NEW i, NEW n
  PROVE  Document!InsertAt(s, i, n) = InsertAt(s, i, n)
BY DEF Document!InsertAt, InsertAt

LEMMA SameRemoveFirst ==
  ASSUME NEW s, NEW e
  PROVE  Document!RemoveFirst(s, e) = RemoveFirst(s, e)
<1>1. ASSUME NEW i PROVE Document!RemoveAt(s, i) = RemoveAt(s, i)
  BY DEF Document!RemoveAt, RemoveAt
<1>2. Document!SelectInSeq(s, LAMBDA v : v = e) = SelectInSeq(s, LAMBDA v : v = e)
  BY DEF Document!SelectInSeq, SelectInSeq, Document!Min, Min
<1> QED BY <1>1, <1>2 DEF Document!RemoveFirst, RemoveFirst

LEMMA SameCardinality == \A S : Document!Cardinality(S) = Cardinality(S)
BY DEF Document!Cardinality, Cardinality

LEMMA DocumentBelowDef ==
  ASSUME NEW e
  PROVE  Document!Below(e) = (CHOOSE f : DocumentSteps(f, e))[Capacity]
BY DEF Document!Below, DocumentSteps, Document!ToSet, ToSet

LEMMA ChildrenOfSet ==
  ASSUME target = NIL, ListsOK, SeqsOK, Kept = Live, NEW S \in SUBSET Live
  PROVE  UNION {ToSet(ChildSeqs[x]) : x \in S} = {m \in Live : parent[m] \in S}
<1>1. \A x \in S : ChildSeqs[x] = Lists[x]
  BY DEF SeqsOK
<1>2. \A x \in S : /\ Lists[x] \in Seq(Node) /\ Len(Lists[x]) \in Nat
                   /\ DOMAIN Lists[x] = 1 .. Len(Lists[x])
  BY DEF ListsOK, IsList
<1>3. \A x \in S : ToSet(ChildSeqs[x]) = {m \in Live : parent[m] = x}
  <2> SUFFICES ASSUME NEW x \in S PROVE ToSet(Lists[x]) = {m \in Live : parent[m] = x}
    BY <1>1
  <2> DEFINE s == Lists[x]
  <2>1. /\ \A i \in 1 .. Len(s) : s[i] \in Live /\ parent[s[i]] = x
        /\ \A n \in Live : parent[n] = x => \E i \in 1 .. Len(s) : s[i] = n
        /\ DOMAIN s = 1 .. Len(s)
    BY <1>2 DEF ListsOK
  <2>2. ToSet(s) = {s[i] : i \in DOMAIN s}
    BY DEF ToSet
  <2> HIDE DEF s
  <2>3. ToSet(s) = {m \in Live : parent[m] = x}
    BY <2>1, <2>2
  <2> QED BY <2>3 DEF s
<1> QED BY <1>3

LEMMA DocumentBelowLemma ==
  ASSUME PoolInv, target = NIL, ListsOK, SeqsOK, Kept = Live, NEW e \in Live
  PROVE  IsBelow(Document!Below(e), e)
<1>0. Capacity \in Nat /\ Live \subseteq Node
  BY CapacityAssumption, LiveNodes
<1>1. PICK g : Reaches(g, Links, e, Capacity)
  BY <1>0, ReachesExists
<1>2. \A n \in 0 .. Capacity : g[n] \subseteq Live
  BY <1>1, LinksReachLive
<1>3. \A x, m : <<x, m>> \in Links <=> x \in Live /\ m \in Live /\ parent[m] = x
  BY DEF Links
<1>4. ASSUME NEW n \in 0 .. Capacity
      PROVE  g[n] = IF n = 0 THEN {e}
                    ELSE g[n - 1] \cup UNION {ToSet(ChildSeqs[x]) : x \in g[n - 1]}
  <2>1. CASE n = 0
    BY <1>1, <2>1 DEF Reaches
  <2>2. CASE n # 0
    <3>1. n - 1 \in 0 .. Capacity
      BY <1>0, <2>2
    <3>2. g[n] = g[n - 1] \cup {m \in Node : \E x \in g[n - 1] : <<x, m>> \in Links}
      BY <1>1, <2>2 DEF Reaches
    <3>3. g[n - 1] \subseteq Live
      BY <1>2, <3>1
    <3>4. \A m : (m \in Node /\ \E x \in g[n - 1] : <<x, m>> \in Links)
                   <=> m \in Live /\ parent[m] \in g[n - 1]
      BY <1>0, <1>3, <3>3, Zenon
    <3>5. {m \in Node : \E x \in g[n - 1] : <<x, m>> \in Links}
            = {m \in Live : parent[m] \in g[n - 1]}
      BY <3>4
    <3>6. UNION {ToSet(ChildSeqs[x]) : x \in g[n - 1]} = {m \in Live : parent[m] \in g[n - 1]}
      BY <3>3, ChildrenOfSet
    <3> QED BY <2>2, <3>2, <3>5, <3>6
  <2> QED BY <2>1, <2>2
<1>5. DocumentSteps(g, e)
  <2>1. g = [n \in 0 .. Capacity |-> g[n]]
    BY <1>1 DEF Reaches
  <2> QED BY <1>4, <2>1 DEF DocumentSteps
<1> DEFINE f == CHOOSE h : DocumentSteps(h, e)
<1>6. DocumentSteps(f, e)
  BY <1>5
<1> HIDE DEF f
<1>7. \A n \in 0 .. Capacity : n = 0 => f[n] = {e}
  BY <1>6 DEF DocumentSteps
<1>8. ASSUME NEW n \in 1 .. Capacity, f[n - 1] \subseteq Live
      PROVE  f[n] = f[n - 1] \cup {m \in Live : parent[m] \in f[n - 1]}
  <2>1. f[n] = f[n - 1] \cup UNION {ToSet(ChildSeqs[x]) : x \in f[n - 1]}
    BY <1>0, <1>6 DEF DocumentSteps
  <2> QED BY <1>8, <2>1, ChildrenOfSet
<1>9. f[Capacity] = g[Capacity]
  BY <1>1, <1>7, <1>8, LinksReachSame
<1>10. IsBelow(g[Capacity], e)
  BY <1>1, LinksReach
<1> QED BY <1>9, <1>10, DocumentBelowDef DEF f

----------------------------------------------------------------------------
(* The invariant, and what the document shows of it.                        *)

TargetOK == target \in Live \cup {NIL}

DocumentInv == NamesInv /\ CallOK /\ TargetOK

View == ListsOK /\ SeqsOK /\ GoingOK

LEMMA ViewLemma == DocumentInv => View
BY ListsLemma, SeqsLemma, GoingLemma
   DEF DocumentInv, TargetOK, NamesInv, ShapeInv, Base, IInv, TreeShape, View

LEMMA InvFacts ==
  DocumentInv => /\ TreeShape /\ PoolInv /\ LinkTypes /\ TreeOK /\ NodesOK /\ JsonShape /\ IInv
                 /\ KeyUpdateOK /\ ArrayUpdateOK /\ FindsKeys /\ CallOK /\ TargetOK
                 /\ NIL \notin Live /\ Live \subseteq Node
BY LiveNodes, FindKeyLemma DEF DocumentInv, NamesInv, ShapeInv, Base, IInv, TreeShape

(* A deletion that is on ends with the target, and a program that has       *)
(* stopped does nothing.                                                    *)
LEMMA DeletionEnds ==
  ASSUME [Next]_vars, pc \in {"search", "leaf", "aborted"}, pc' = "idle"
  PROVE  RemoveTarget
<1>1. CASE DeleteStep
  BY <1>1 DEF DeleteStep, GoToLeaf, GoDown, Restart, RemoveLeaf, RemoveRootKey, Abort
<1>2. CASE AddKeyFinish \/ UpdateKeyValueFinish \/ UpdateArrayValueFinish \/ Reset
  BY <1>2 DEF AddKeyFinish, UpdateKeyValueFinish, UpdateArrayValueFinish, Reset
<1>3. ASSUME NEW p, NEW t, NEW k, NEW valid,
             AddElement(p, t, k, valid) \/ AddKey(p, k, valid) \/ UpdateKeyValue(p, t, k, valid)
      PROVE  FALSE
  BY <1>3 DEF AddElement, AddKey, UpdateKeyValue
<1>4. ASSUME NEW n, NEW k, AddKeyBefore(n, k) \/ AddKeyAfter(n, k) \/ DeleteElement(n)
      PROVE  FALSE
  BY <1>4 DEF AddKeyBefore, AddKeyAfter, DeleteElement
<1>5. ASSUME NEW a, NEW i, NEW t, NEW k,
             \/ AppendArrayValue(a, t, k) \/ AddArrayValue(a, i, t, k)
             \/ UpdateArrayValue(a, i, t, k)
      PROVE  FALSE
  BY <1>5 DEF AppendArrayValue, AddArrayValue, UpdateArrayValue
<1>6. CASE UNCHANGED vars
  BY <1>6 DEF vars
<1> QED BY <1>1, <1>2, <1>3, <1>4, <1>5, <1>6, Zenon DEF Next

LEMMA DocumentInvStep ==
  ASSUME {"grammar", "shallow_update"} \subseteq Rules
  PROVE  NamesInv /\ NamesInv' /\ CallOK /\ TargetOK /\ [Next]_vars => DocumentInv'
<1> SUFFICES ASSUME NamesInv, NamesInv', CallOK, TargetOK, [Next]_vars PROVE DocumentInv'
  OBVIOUS
<1>1. CallOK' /\ (pc' = "aborted" => target' = target /\ UNCHANGED treeVars)
  BY CallStep1 DEF CallKept
<1>2. TargetOK'
  <2>1. CASE pc' \in {"search", "leaf"}
    BY <2>1 DEF NamesInv, ShapeInv, Base, IInv, DeletionOK, TargetOK
  <2>2. CASE pc' = "aborted"
    BY <1>1, <2>2 DEF treeVars, poolVars, TargetOK, Live
  <2>3. CASE pc' \notin {"search", "leaf", "aborted"}
    BY <1>1, <2>3 DEF CallOK, TargetOK
  <2> QED BY <2>1, <2>2, <2>3
<1> QED BY <1>1, <1>2 DEF DocumentInv

LEMMA SameList ==
  ASSUME ListsOK, ListsOK', NEW p \in Live, p \in Live', first_child'[p] = first_child[p],
         \A m \in Live : parent[m] = p => sibling'[m] = sibling[m]
  PROVE  Lists'[p] = Lists[p]
<1> DEFINE s == Lists[p]
           t == Lists'[p]
<1>1. /\ IsList(first_child[p], sibling, s)
      /\ \A i \in 1 .. Len(s) : s[i] \in Live /\ parent[s[i]] = p
  BY DEF ListsOK
<1>2. IsList(first_child'[p], sibling', t)
  BY DEF ListsOK
<1> HIDE DEF s, t
<1>3. s \in Seq(Node) /\ Len(s) \in Nat
  BY <1>1 DEF IsList
<1>4. \A i \in 1 .. Len(s) : sibling'[s[i]] = sibling[s[i]]
  BY <1>1
<1>5. s # <<>> => Len(s) \in 1 .. Len(s)
  BY <1>3
<1>6. \A i \in 1 .. Len(s) - 1 : i \in 1 .. Len(s)
  BY <1>3
<1>7. IsList(first_child'[p], sibling', s)
  BY <1>1, <1>4, <1>5, <1>6 DEF IsList
<1>8. s = t
  BY <1>2, <1>7, ListUnique
<1> QED BY <1>8 DEF s, t

(* What is kept, and how it looks, stays as it is.                          *)
LEMMA RefusedLemma ==
  ASSUME Kept' = Kept, SeqsOK, SeqsOK', {root'} \cap Kept' = {root} \cap Kept,
         \A n \in Kept : type'[n] = type[n] /\ key'[n] = key[n] /\ ChildSeqs'[n] = ChildSeqs[n]
  PROVE  Document!Refused
<1>1. Labels' = Labels
  BY DEF Labels
<1>2. ChildSeqs' = ChildSeqs
  <2>1. ChildSeqs = [n \in Kept |-> ChildSeqs[n]]
    BY DEF SeqsOK
  <2>2. ChildSeqs' = [n \in Kept' |-> ChildSeqs'[n]]
    BY DEF SeqsOK
  <2> QED BY <2>1, <2>2
<1> QED BY <1>1, <1>2 DEF Document!Refused, Document!vars

----------------------------------------------------------------------------
(* The steps.  A loop that goes on and a call that is refused or returns    *)
(* change nothing.                                                          *)

LEMMA IdlesView ==
  ASSUME DocumentInv, View, View', Idles
  PROVE  /\ Live' = Live /\ type' = type /\ key' = key /\ root' = root /\ parent' = parent
         /\ \A n \in Live : Lists'[n] = Lists[n]
<1>1. /\ IInv /\ ListsOK /\ ListsOK'
  BY InvFacts DEF View
<1>2. /\ Live' = Live /\ type' = type /\ key' = key /\ parent' = parent
      /\ sibling' = sibling /\ first_child' = first_child /\ root' = root
  BY <1>1, IdlesLemma
<1>3. ASSUME NEW n \in Live PROVE Lists'[n] = Lists[n]
  BY <1>1, <1>2, SameList
<1> QED BY <1>2, <1>3

LEMMA IdlesStep ==
  ASSUME DocumentInv, View, View', Idles, target' = target
  PROVE  Document!Refused
<1>1. /\ Live' = Live /\ type' = type /\ key' = key /\ root' = root /\ parent' = parent
      /\ \A n \in Live : Lists'[n] = Lists[n]
      /\ TreeOK
  BY IdlesView, InvFacts
<1>2. Going' = Going
  <2>1. CASE target = NIL
    BY <2>1 DEF View, GoingOK
  <2>2. CASE target # NIL
    <3>1. IsBelow(Going, target)
      BY <2>2 DEF View, GoingOK
    <3>2. IsBelow(Going', target)
      BY <1>1, <2>2 DEF View, GoingOK, IsBelow
    <3> QED BY <1>1, <3>1, <3>2, BelowUnique
  <2> QED BY <2>1, <2>2
<1>3. Kept' = Kept /\ Kept \subseteq Live
  BY <1>1, <1>2 DEF Kept
<1>4. \A n \in Kept : ChildSeqs'[n] = ChildSeqs[n]
  BY <1>1, <1>3 DEF View, SeqsOK
<1>5. SeqsOK /\ SeqsOK'
  BY DEF View
<1> QED BY <1>1, <1>3, <1>4, <1>5, RefusedLemma

(* The start of a deletion takes the element away, with all that is below   *)
(* it.                                                                      *)
LEMMA StartsStep ==
  ASSUME DocumentInv, View, View', Idles, target = NIL, target' \in Live
  PROVE  \E e \in Document!Elements \ DOMAIN Labels' : Document!Delete(e)
<1>1. /\ Live' = Live /\ type' = type /\ key' = key /\ root' = root /\ parent' = parent
      /\ \A n \in Live : Lists'[n] = Lists[n]
      /\ TreeOK /\ PoolInv /\ NIL \notin Live
  BY IdlesView, InvFacts
<1>2. ListsOK /\ SeqsOK /\ SeqsOK' /\ Going = {} /\ IsBelow(Going', target')
  <2>1. IsBelow(Going', target')
    BY <1>1 DEF View, GoingOK, IsBelow
  <2> QED BY <2>1 DEF View, GoingOK
<1>3. Kept = Live /\ Kept' = Live \ Going'
  BY <1>1, <1>2 DEF Kept
<1>4. Document!Below(target') = Going'
  <2>1. IsBelow(Document!Below(target'), target')
    BY <1>1, <1>2, <1>3, DocumentBelowLemma
  <2> QED BY <1>1, <1>2, <2>1, BelowUnique
<1>5. Document!Elements = Live /\ DOMAIN Labels' = Kept'
  BY <1>3 DEF Document!Elements, Labels
<1>6. Labels' = [x \in Live \ Going' |-> Labels[x]]
  BY <1>1, <1>3 DEF Labels
<1>7. ChildSeqs' = [x \in Live \ Going' |-> Document!RemoveFirst(ChildSeqs[x], target')]
  <2>1. ChildSeqs' = [x \in Kept' |-> RemoveFirst(Lists'[x], target')]
    BY <1>1, <1>2 DEF SeqsOK
  <2>2. \A x \in Live : ChildSeqs[x] = Lists[x] /\ Lists'[x] = Lists[x]
    BY <1>1, <1>2, <1>3 DEF SeqsOK
  <2>3. \A x \in Live : Document!RemoveFirst(ChildSeqs[x], target') = RemoveFirst(Lists'[x], target')
    BY <2>2, SameRemoveFirst
  <2> QED BY <1>3, <2>1, <2>3
<1>8. ({root} \cap Kept)' = ({root} \cap Kept) \ {target'}
  <2>1. root \in Live => (root \in Going' <=> root = target')
    BY <1>1, <1>2 DEF TreeOK, OneRoot, IsBelow
  <2>2. target' \in Going'
    BY <1>2 DEF IsBelow
  <2> QED BY <1>1, <1>3, <2>1, <2>2
<1>9. Document!Delete(target')
  BY <1>4, <1>5, <1>6, <1>7, <1>8 DEF Document!Delete
<1>10. target' \notin Kept'
  BY <1>2, <1>3 DEF IsBelow
<1> QED BY <1>5, <1>9, <1>10

(* An insertion adds an element without children at one place.              *)
LEMMA InsertLinks ==
  ASSUME IInv, NEW p \in Live, NEW a, Place(p, a), NEW t, NEW k, InsertNode(p, a, t, k)
  PROVE  /\ \A m \in Live : m # a => sibling'[m] = sibling[m]
         /\ first_child'[p] = IF a = NIL THEN NextNode ELSE first_child[p]
<1>1. /\ NextNode \notin Live /\ NextNode \in Node /\ Live \subseteq Node /\ NIL \notin Live
      /\ LinkTypes
  BY InsertFacts, LiveNodes DEF IInv, TreeShape
<1>2. CASE a = NIL /\ Prepend(p, t, k)
  BY <1>1, <1>2 DEF Prepend, LinkTypes
<1>3. CASE a # NIL /\ InsertAfter(p, a, t, k)
  BY <1>1, <1>3 DEF InsertAfter, LinkTypes
<1> QED BY <1>1, <1>2, <1>3 DEF InsertNode

LEMMA InsertedList ==
  ASSUME IInv, ListsOK, ListsOK',
         NEW p \in Live, NEW a, Place(p, a), NEW t, NEW k, InsertNode(p, a, t, k)
  PROVE  \E i \in 0 .. Len(Lists[p]) : Lists'[p] = InsertAt(Lists[p], i + 1, NextNode)
<1> DEFINE s == Lists[p]
           u == Lists'[p]
           n == NextNode
<1>1. /\ n \notin Live /\ n \in Node /\ Live' = Live \cup {n} /\ NIL \notin Live
  BY InsertFacts, LiveNodes DEF IInv, TreeShape
<1>2. /\ \A m \in Live : m # a => sibling'[m] = sibling[m]
      /\ first_child'[p] = IF a = NIL THEN n ELSE first_child[p]
      /\ a = NIL => sibling'[n] = first_child[p]
      /\ a # NIL => sibling'[n] = sibling[a] /\ sibling'[a] = n
  BY InsertLinks, Lands
<1>3. /\ IsList(first_child[p], sibling, s)
      /\ \A i \in 1 .. Len(s) : s[i] \in Live /\ parent[s[i]] = p
      /\ \A i, j \in 1 .. Len(s) : s[i] = s[j] => i = j
      /\ \A m \in Live : parent[m] = p => \E i \in 1 .. Len(s) : s[i] = m
  BY DEF ListsOK
<1>4. IsList(first_child'[p], sibling', u)
  BY <1>1 DEF ListsOK
<1>5. a # NIL => a \in Live /\ parent[a] = p
  BY <1>1 DEF Place
<1> HIDE DEF s, u, n
<1>6. Len(s) \in Nat
  BY <1>3 DEF IsList
<1>7. PICK i \in 0 .. Len(s) : /\ a = NIL => i = 0
                               /\ a # NIL => i # 0 /\ i \in 1 .. Len(s) /\ s[i] = a
  <2>1. CASE a = NIL
    BY <1>6, <2>1
  <2>2. CASE a # NIL
    <3>1. PICK i \in 1 .. Len(s) : s[i] = a
      BY <1>3, <1>5, <2>2
    <3>2. i \in 0 .. Len(s) /\ i # 0
      BY <1>6, <3>1
    <3> QED BY <2>2, <3>1, <3>2
  <2> QED BY <2>1, <2>2
<1>8. sibling'[n] = IF i = 0 THEN first_child[p] ELSE sibling[s[i]]
  BY <1>2, <1>7
<1>9. i # 0 => sibling'[s[i]] = n
  BY <1>2, <1>7
<1>10. \A m \in 1 .. Len(s) : m # i => sibling'[s[m]] = sibling[s[m]]
  <2> SUFFICES ASSUME NEW m \in 1 .. Len(s), m # i PROVE s[m] # a
    BY <1>2, <1>3
  <2> QED BY <1>1, <1>3, <1>7
<1>11. first_child'[p] = IF i = 0 THEN n ELSE first_child[p]
  BY <1>2, <1>7
<1>12. IsList(first_child'[p], sibling', InsertAt(s, i + 1, n))
  <2>1. IsList(IF i = 0 THEN n ELSE first_child[p], sibling', InsertAt(s, i + 1, n))
    BY <1>1, <1>3, <1>8, <1>9, <1>10, InsertList
  <2> QED BY <1>11, <2>1
<1>13. u = InsertAt(s, i + 1, n)
  BY <1>4, <1>12, ListUnique
<1> QED BY <1>13 DEF s, u, n

LEMMA InsertedView ==
  ASSUME DocumentInv, View, View', target = NIL, target' = NIL,
         NEW p, NEW a, Place(p, a), NEW t, NEW k, InsertNode(p, a, t, k)
  PROVE  /\ NextNode \in Node \ Live /\ Kept = Live /\ Kept' = Live \cup {NextNode}
         /\ \A x \in Live : ChildSeqs[x] = Lists[x]
         /\ Labels' = [x \in Live \cup {NextNode} |-> Labels'[x]]
         /\ \A x \in Live : Labels'[x] = Labels[x]
         /\ DOMAIN ChildSeqs' = Live \cup {NextNode}
         /\ ChildSeqs' = [x \in Live \cup {NextNode} |-> ChildSeqs'[x]]
         /\ ChildSeqs'[NextNode] = <<>>
         /\ \A x \in Live : x # p => ChildSeqs'[x] = ChildSeqs[x]
         /\ p # NIL => \E i \in 0 .. Len(ChildSeqs[p]) :
                          ChildSeqs'[p] = InsertAt(ChildSeqs[p], i + 1, NextNode)
         /\ root' = IF p = NIL THEN NextNode ELSE root
<1> DEFINE n == NextNode
<1>1. IInv /\ ListsOK /\ ListsOK' /\ SeqsOK /\ SeqsOK' /\ Going = {} /\ Going' = {}
  BY InvFacts DEF View, GoingOK
<1>2. /\ n \notin Live /\ n \in Node /\ Live' = Live \cup {n} /\ NIL \notin Live
      /\ type'[n] = t /\ key'[n] = k /\ first_child'[n] = NIL
      /\ root' = IF p = NIL THEN n ELSE root
      /\ \A m \in Live : type'[m] = type[m] /\ key'[m] = key[m]
      /\ \A m \in Live : m # p => first_child'[m] = first_child[m]
  BY <1>1, InsertFacts, LiveNodes DEF IInv, TreeShape
<1>3. Kept = Live /\ Kept' = Live \cup {n}
  BY <1>1, <1>2 DEF Kept
<1>4. /\ \A x \in Live : ChildSeqs[x] = Lists[x]
      /\ \A x \in Live \cup {n} : ChildSeqs'[x] = Lists'[x]
      /\ DOMAIN ChildSeqs' = Live \cup {n}
      /\ ChildSeqs' = [x \in Live \cup {n} |-> ChildSeqs'[x]]
  BY <1>1, <1>3 DEF SeqsOK
<1>5. /\ Labels' = [x \in Live \cup {n} |-> Labels'[x]]
      /\ \A x \in Live : Labels'[x] = Labels[x]
  BY <1>2, <1>3 DEF Labels
<1>6. Lists'[n] = <<>>
  <2> DEFINE u == Lists'[n]
  <2>1. IsList(NIL, sibling', u)
    BY <1>1, <1>2 DEF ListsOK
  <2> HIDE DEF u
  <2>2. u \in Seq(Node) /\ (u # <<>> => u[1] = NIL)
    BY <2>1 DEF IsList
  <2>3. u # <<>> => u[1] \in Node
    BY <2>2
  <2>4. u = <<>>
    BY <2>2, <2>3, NilAssumption
  <2> QED BY <2>4 DEF u
<1>7. ASSUME NEW x \in Live, x # p PROVE Lists'[x] = Lists[x]
  <2>1. \A m \in Live : parent[m] = x => sibling'[m] = sibling[m]
    <3> SUFFICES ASSUME NEW m \in Live, parent[m] = x PROVE sibling'[m] = sibling[m]
      OBVIOUS
    <3>1. p \in Live
      <4>1. p = NIL => Live = {}
        BY <1>1, RootInTree, LiveNodes DEF IInv, TreeShape, Place
      <4> QED BY <4>1 DEF Place
    <3>2. m # a
      BY <1>2, <1>7, <3>1 DEF Place
    <3> QED BY <1>1, <3>1, <3>2, InsertLinks
  <2> QED BY <1>1, <1>2, <1>7, <2>1, SameList
<1>8. p # NIL => \E i \in 0 .. Len(Lists[p]) : Lists'[p] = InsertAt(Lists[p], i + 1, n)
  BY <1>1, InsertedList DEF Place
<1>9. p # NIL => p \in Live
  BY DEF Place
<1> HIDE DEF n
<1>10. p # NIL => \E i \in 0 .. Len(ChildSeqs[p]) :
                     ChildSeqs'[p] = InsertAt(ChildSeqs[p], i + 1, n)
  <2> SUFFICES ASSUME p # NIL
               PROVE  \E i \in 0 .. Len(ChildSeqs[p]) :
                         ChildSeqs'[p] = InsertAt(ChildSeqs[p], i + 1, n)
    OBVIOUS
  <2>1. ChildSeqs[p] = Lists[p] /\ ChildSeqs'[p] = Lists'[p]
    BY <1>4, <1>9
  <2> QED BY <1>8, <2>1
<1> QED BY <1>2, <1>3, <1>4, <1>5, <1>6, <1>7, <1>10 DEF n

LEMMA RoomLemma ==
  ASSUME PoolInv, NEW n \in Node \ Live
  PROVE  Cardinality(Live) < Capacity
<1>1. Capacity \in Nat /\ Node = 0 .. Capacity - 1
  BY CapacityAssumption DEF Node
<1>2. IsFiniteSet(0 .. Capacity - 1) /\ Cardinality(0 .. Capacity - 1) = Capacity
  BY <1>1, FS_Interval, CapacityAssumption
<1>3. IsFiniteSet(Node) /\ Cardinality(Node) = Capacity /\ Live \in SUBSET Node /\ Live # Node
  BY <1>1, <1>2, LiveNodes
<1>4. /\ IsFiniteSet(Live) /\ Cardinality(Live) <= Cardinality(Node)
      /\ Cardinality(Node) = Cardinality(Live) => Node = Live
  BY <1>3, FS_Subset
<1>5. Cardinality(Live) \in Nat
  BY <1>4, FS_CardinalityType
<1> QED BY <1>1, <1>3, <1>4, <1>5

LEMMA EmptyList ==
  ASSUME ListsOK, NEW p \in Live, first_child[p] = NIL
  PROVE  Lists[p] = <<>>
<1> DEFINE s == Lists[p]
<1>1. IsList(NIL, sibling, s)
  BY DEF ListsOK
<1> HIDE DEF s
<1>2. s \in Seq(Node) /\ (s # <<>> => s[1] = NIL)
  BY <1>1 DEF IsList
<1>3. s # <<>> => s[1] \in Node
  BY <1>2
<1>4. s = <<>>
  BY <1>2, <1>3, NilAssumption
<1> QED BY <1>4 DEF s

(* The insertion as the document sees it.                                   *)
LEMMA InsertedNew ==
  ASSUME DocumentInv, View, View', target = NIL, target' = NIL,
         NEW p, NEW a, Place(p, a), NEW t, NEW k, InsertNode(p, a, t, k)
  PROVE  /\ Document!Elements = Live /\ NextNode \in (Node \ Live) \cap DOMAIN Labels'
         /\ Document!New(NextNode, Document!Label(t, k))
         /\ p # NIL => \E i \in 0 .. Len(ChildSeqs[p]) :
                          Document!AddChild(p, i, NextNode, Document!Label(t, k))
<1> DEFINE n == NextNode
<1>a. Labels' = [x \in Live \cup {n} |-> Labels'[x]]
  BY InsertedView, Zenon
<1>b. Labels'[n] = Document!Label(t, k)
  <2>1. type'[n] = t /\ key'[n] = k
    BY InvFacts, InsertFacts
  <2>2. n \in Kept'
    BY InsertedView, Zenon
  <2> QED BY <2>1, <2>2 DEF Labels, Document!Label
<1>c. \A x \in Live : Labels'[x] = Labels[x]
  BY InsertedView, Zenon
<1>1. /\ n \in Node \ Live /\ Kept = Live /\ Kept' = Live \cup {n}
      /\ ChildSeqs' = [x \in Live \cup {n} |-> ChildSeqs'[x]]
      /\ ChildSeqs'[n] = <<>>
      /\ \A x \in Live : x # p => ChildSeqs'[x] = ChildSeqs[x]
      /\ root' = IF p = NIL THEN n ELSE root
  BY InsertedView, Zenon
<1>8. p # NIL => \E i \in 0 .. Len(ChildSeqs[p]) : ChildSeqs'[p] = InsertAt(ChildSeqs[p], i + 1, n)
  BY InsertedView, Zenon
<1>2. PoolInv /\ TreeOK /\ NIL \notin Live /\ Live \subseteq Node
  BY InvFacts
<1> HIDE DEF n
<1>3. Document!Elements = Live
  BY <1>1 DEF Document!Elements, Labels
<1>9. DOMAIN Labels' = Live \cup {n}
  BY <1>a
<1>4. Document!Room
  BY <1>1, <1>2, <1>3, RoomLemma, SameCardinality DEF Document!Room
<1>5. Document!New(n, Document!Label(t, k))
  BY <1>1, <1>a, <1>b, <1>c, <1>3, <1>4 DEF Document!New
<1>6. n \in (Node \ Live) \cap DOMAIN Labels'
  BY <1>1, <1>9
<1>7. ASSUME p # NIL
      PROVE  \E i \in 0 .. Len(ChildSeqs[p]) : Document!AddChild(p, i, n, Document!Label(t, k))
  <2>1. PICK i \in 0 .. Len(ChildSeqs[p]) : ChildSeqs'[p] = InsertAt(ChildSeqs[p], i + 1, n)
    BY <1>7, <1>8
  <2>2. p \in Live /\ p # n
    BY <1>1, <1>7 DEF Place
  <2>3. ChildSeqs'[p] = Document!InsertAt(ChildSeqs[p], i + 1, n)
    BY <2>1, SameInsertAt
  <2>4. \A x \in Live \cup {n} :
           ChildSeqs'[x] = IF x = n THEN <<>>
                           ELSE IF x = p THEN Document!InsertAt(ChildSeqs[p], i + 1, n)
                           ELSE ChildSeqs[x]
    BY <1>1, <2>3
  <2>5. ChildSeqs' = [x \in Live \cup {n} |->
                        IF x = n THEN <<>>
                        ELSE IF x = p THEN Document!InsertAt(ChildSeqs[p], i + 1, n)
                        ELSE ChildSeqs[x]]
    BY <1>1, <2>4
  <2>6. ({root} \cap Kept)' = {root} \cap Kept
    <3>1. root \in Live
      BY <1>2, <2>2, RootInTree
    <3> QED BY <1>1, <1>7, <3>1
  <2>7. Document!AddChild(p, i, n, Document!Label(t, k))
    BY <1>3, <1>5, <2>5, <2>6 DEF Document!AddChild
  <2> QED BY <2>7
<1> QED BY <1>3, <1>5, <1>6, <1>7 DEF n

LEMMA InsertsValueStep ==
  ASSUME "grammar" \in Rules, DocumentInv, CallOK', View, View',
         NEW p, NEW a, NEW t, NEW k, InsertsValue(p, a, t, k)
  PROVE  Document!Next
<1> DEFINE n == NextNode
<1>1. /\ JsonShape /\ KeyUpdateOK /\ CallOK /\ NIL \notin Live /\ PoolInv /\ TreeOK
      /\ ListsOK
  BY InvFacts DEF View
<1>2. /\ Place(p, a) /\ InsertNode(p, a, t, k)
      /\ pc \in {"idle", "add"} /\ pc' \in {"idle", "add_key"}
  BY DEF InsertsValue
<1>3. target = NIL /\ target' = NIL
  BY <1>1, <1>2 DEF CallOK
<1>4. /\ t \in ValueType /\ k = NIL
      /\ p # NIL => type[p] = "ARRAY" \/ (type[p] = "KEY" /\ first_child[p] = NIL)
  <2>1. CASE pc = "idle" /\ Keeps("grammar", Fits(p, t)) /\ Labelled(t, k)
    BY <2>1 DEF Keeps, Fits, Labelled, ElementType
  <2>2. CASE pc = "add" /\ p = call.node /\ t = call.type /\ k = call.name
    BY <1>1, <2>2 DEF KeyUpdateOK, CallOK, Labelled, ElementType
  <2>3. CASE t = "OBJECT" /\ k = NIL /\ Fits(p, t)
    BY <2>3 DEF Fits, ValueType
  <2> QED BY <2>1, <2>2, <2>3 DEF InsertsValue
<1>5. /\ Document!Elements = Live /\ n \in (Node \ Live) \cap DOMAIN Labels'
      /\ Document!New(n, Document!Label(t, NIL))
      /\ p # NIL => \E i \in 0 .. Len(ChildSeqs[p]) :
                       Document!AddChild(p, i, n, Document!Label(t, NIL))
  BY <1>2, <1>3, <1>4, InsertedNew
<1>6. /\ Kept = Live /\ Kept' = Live \cup {n}
      /\ \A x \in Live : ChildSeqs[x] = Lists[x]
      /\ ChildSeqs' = [x \in Live \cup {n} |-> ChildSeqs'[x]] /\ ChildSeqs'[n] = <<>>
      /\ root' = IF p = NIL THEN n ELSE root
  BY <1>2, <1>3, InsertedView
<1>7. \A x \in Live : Labels[x].type = type[x]
  BY <1>6 DEF Labels
<1>8. t \in Document!ValueTypes
  BY <1>4 DEF ValueType, Document!ValueTypes
<1> HIDE DEF n
<1>9. CASE p = NIL
  <2>1. Live = {} /\ root = NIL
    BY <1>1, <1>2, <1>9, RootInTree DEF Place
  <2>2. {root} \cap Kept = {} /\ ({root} \cap Kept)' = {n}
    BY <1>6, <1>9, <2>1
  <2>3. ChildSeqs' = [x \in Live \cup {n} |-> IF x = n THEN <<>> ELSE ChildSeqs[x]]
    BY <1>6, <2>1
  <2>4. Document!AddRoot(n, t)
    BY <1>5, <2>2, <2>3 DEF Document!AddRoot
  <2> QED BY <1>5, <1>8, <2>4 DEF Document!Next
<1>10. CASE p # NIL
  <2>1. p \in Live
    BY <1>2, <1>10 DEF Place
  <2>2. PICK i \in 0 .. Len(ChildSeqs[p]) : Document!AddChild(p, i, n, Document!Label(t, NIL))
    BY <1>5, <1>10
  <2>3. first_child[p] = NIL => ChildSeqs[p] = <<>>
    BY <1>1, <1>6, <2>1, EmptyList
  <2>4. Document!AddValue(p, i, n, t)
    BY <1>4, <1>7, <1>10, <2>1, <2>2, <2>3 DEF Document!AddValue, Document!IsKey
  <2> QED BY <1>5, <1>8, <2>1, <2>4 DEF Document!Next
<1> QED BY <1>9, <1>10

LEMMA InsertsKeyStep ==
  ASSUME DocumentInv, CallOK', View, View', [Next]_vars,
         NEW o \in Live, NEW k \in Names, NEW a, InsertsKey(o, a, k)
  PROVE  Document!Next
<1> DEFINE n == NextNode
<1>1. /\ IInv /\ TreeShape /\ NodesOK /\ CallOK /\ NIL \notin Live
      /\ FindsKeys /\ ListsOK /\ TargetOK
  BY InvFacts DEF View
<1>2. /\ Place(o, a) /\ InsertNode(o, a, "KEY", k) /\ type[o] = "OBJECT" /\ FindKey(o, k) = NIL
      /\ pc' = "idle"
  BY DEF InsertsKey
<1>3. target = NIL /\ target' = NIL
  <2>1. ~RemoveTarget
    <3>1. NextNode \notin Live /\ NextNode \in Live'
      BY <1>1, <1>2, InsertFacts
    <3> QED BY <1>1, <3>1, RemoveTargetFacts DEF Removes
  <2>2. pc \notin {"search", "leaf", "aborted"}
    BY <1>2, <2>1, DeletionEnds
  <2> QED BY <1>1, <1>2, <2>2 DEF CallOK
<1>4. /\ Document!Elements = Live /\ n \in (Node \ Live) \cap DOMAIN Labels'
      /\ o # NIL => \E i \in 0 .. Len(ChildSeqs[o]) :
                       Document!AddChild(o, i, n, Document!Label("KEY", k))
  BY <1>2, <1>3, InsertedNew
<1>5. Kept = Live /\ \A x \in Live : ChildSeqs[x] = Lists[x]
  BY <1>2, <1>3, InsertedView
<1>6. \A x \in Live : Labels[x].type = type[x] /\ Labels[x].name = key[x]
  BY <1>5 DEF Labels
<1> HIDE DEF n
<1>7. k \notin Document!NamesIn(o)
  <2> SUFFICES ASSUME NEW c \in ToSet(Lists[o]) PROVE Labels[c].name # k
    BY <1>5 DEF Document!NamesIn, Document!ToSet, ToSet
  <2> DEFINE s == Lists[o]
  <2>1. /\ s \in Seq(Node) /\ \A i \in 1 .. Len(s) : s[i] \in Live /\ parent[s[i]] = o
    BY <1>1 DEF ListsOK, IsList
  <2>2. PICK i \in DOMAIN s : c = s[i]
    BY DEF ToSet
  <2>3. c \in Live /\ parent[c] = o
    BY <2>1, <2>2
  <2>4. type[c] = "KEY"
    BY <1>1, <1>2, <2>3, InvFacts DEF JsonShape
  <2>5. key[c] # k
    BY <1>1, <1>2, <2>3, <2>4 DEF FindsKeys
  <2> QED BY <1>6, <2>3, <2>5
<1>8. PICK i \in 0 .. Len(ChildSeqs[o]) : Document!AddChild(o, i, n, Document!Label("KEY", k))
  BY <1>1, <1>4
<1>9. Document!AddKey(o, i, n, k)
  BY <1>2, <1>6, <1>7, <1>8 DEF Document!AddKey
<1> QED BY <1>4, <1>9 DEF Document!Next

(* A value without children becomes another one in its place.               *)
LEMMA RetypesStep ==
  ASSUME "grammar" \in Rules, DocumentInv, CallOK', View, View',
         NEW n \in Live, NEW t, NEW k, Retypes(n, t, k)
  PROVE  Document!Next
<1>1. /\ IInv /\ CallOK /\ NIL \notin Live /\ NIL \notin Live /\ ListsOK /\ ListsOK'
      /\ SeqsOK /\ SeqsOK' /\ JsonShape /\ ArrayUpdateOK /\ Live \subseteq Node
  BY InvFacts DEF View
<1>2. /\ Retype(n, t, k) /\ pc \in {"idle", "retype"} /\ pc' = "idle" /\ target' = NIL
  BY DEF Retypes, Retype, Return
<1>3. target = NIL /\ Going = {} /\ Going' = {}
  <2>1. target = NIL
    BY <1>1, <1>2 DEF CallOK
  <2> QED BY <1>2, <2>1 DEF View, GoingOK
<1>4. /\ t \in ValueType /\ k = NIL /\ first_child[n] = NIL
      /\ parent[n] \in Live /\ type[parent[n]] = "ARRAY"
  <2>1. CASE pc = "idle"
    BY <2>1 DEF Retypes, Keeps, Labelled, ElementType
  <2>2. CASE pc = "retype" /\ n = call.node /\ t = call.type /\ k = call.name
    <3>1. call.op = "update_array_value"
      BY <1>1, <2>2 DEF IInv, FinishOK
    <3> QED BY <1>1, <2>2, <3>1 DEF ArrayUpdateOK, CallOK, Keeps, Labelled, ElementType
  <2> QED BY <1>2, <2>1, <2>2 DEF Retypes
<1>5. /\ type' = [type EXCEPT ![n] = t] /\ key' = [key EXCEPT ![n] = NIL]
      /\ parent' = parent /\ sibling' = sibling /\ first_child' = first_child /\ root' = root
      /\ Live' = Live
  BY <1>2, <1>4 DEF Retype, poolVars, Live
<1>6. /\ type \in [Node -> ElementType \cup {"UNKNOWN"}]
      /\ key \in [Node -> Names \cup {NIL}]
  BY <1>1 DEF IInv, NodesOK
<1>7. Kept = Live /\ Kept' = Live
  BY <1>3, <1>5 DEF Kept
<1>8. /\ Labels = [x \in Live |-> [type |-> type[x], name |-> key[x]]]
      /\ Labels' = [x \in Live |-> [type |-> type'[x], name |-> key'[x]]]
  BY <1>7 DEF Labels
<1>9. Labels' = [Labels EXCEPT ![n] = [type |-> t, name |-> NIL]]
  BY <1>1, <1>5, <1>6, <1>8
<1>10. \A x \in Live : Lists'[x] = Lists[x]
  BY <1>1, <1>5, SameList
<1>11. ChildSeqs' = ChildSeqs
  BY <1>1, <1>2, <1>3, <1>7, <1>10 DEF SeqsOK
<1>12. ChildSeqs[n] = <<>>
  BY <1>1, <1>3, <1>4, <1>7, EmptyList DEF SeqsOK
<1>13. ({root} \cap Kept)' = {root} \cap Kept
  BY <1>5, <1>7
<1>14. type[n] # "KEY"
  BY <1>1, <1>4 DEF JsonShape
<1>15. ~Document!IsKey(n)
  BY <1>8, <1>14 DEF Document!IsKey
<1>16. Document!Replace(n, t)
  BY <1>9, <1>11, <1>12, <1>13, <1>15 DEF Document!Replace, Document!Label
<1>17. Document!Elements = Live /\ t \in Document!ValueTypes
  BY <1>4, <1>8 DEF Document!Elements, Document!ValueTypes, ValueType
<1> QED BY <1>16, <1>17 DEF Document!Next

(* Everything is gone at once.                                              *)
LEMMA ResetStep ==
  ASSUME ResetTree, View'
  PROVE  Document!Clear
<1>1. Live' = {}
  BY ResetTreeLemma
<1>2. Kept' = {}
  BY <1>1 DEF Kept
<1>3. Labels' = <<>> /\ ChildSeqs' = <<>>
  BY <1>2 DEF Labels, View, SeqsOK
<1> QED BY <1>2, <1>3 DEF Document!Clear

(* A leaf that goes was gone for the document before.                       *)
LEMMA RemoveLeafStep ==
  ASSUME DocumentInv, View, View', RemoveLeaf
  PROVE  Document!Refused
<1>1. /\ IInv /\ TreeOK /\ LinkTypes /\ NIL \notin Live /\ Live \subseteq Node /\ ListsOK /\ ListsOK'
      /\ SeqsOK /\ SeqsOK'
  BY InvFacts DEF View
<1>2. /\ Removes(cur) /\ cur # target /\ target \in Live /\ target' = target
      /\ pc = "leaf" /\ parent[cur] \in Live
  BY <1>1, RemoveLeafFacts
<1>3. /\ cur \in Live /\ Live' = Live \ {cur} /\ root' = root
      /\ \A m \in Live : parent[m] # cur
      /\ \A m \in Live \ {cur} :
           /\ type'[m] = type[m] /\ key'[m] = key[m] /\ parent'[m] = parent[m]
           /\ m # parent[cur] => first_child'[m] = first_child[m]
  BY <1>2 DEF Removes
<1>4. \A m \in Live \ {cur} : sibling'[m] = sibling[m]
  BY <1>1, <1>3 DEF RemoveLeaf, LinkTypes
<1>5. IsBelow(Going, target)
  BY <1>1, <1>2 DEF View, GoingOK
<1>6. cur \in Going /\ parent[cur] \in Going
  <2>1. PICK P \in SUBSET Live : /\ cur \in P /\ \A x \in P : x = target \/ parent[x] \in P
    BY <1>1, <1>2 DEF IInv, DeletionOK, BelowTarget
  <2>2. P \subseteq Going
    BY <1>1, <1>5, <2>1, BelowLeast
  <2> QED BY <1>2, <2>1, <2>2
<1>7. Going' = Going \ {cur}
  <2>1. /\ Going' \subseteq Live' /\ target \in Going'
        /\ \A m \in Live' : parent'[m] \in Going' => m \in Going'
        /\ \A m \in Going' : m = target \/ parent'[m] \in Going'
    BY <1>1, <1>2 DEF View, GoingOK, IsBelow
  <2>2. IsBelow(Going' \cup {cur}, target)
    <3>1. parent[cur] \in Going'
      <4> DEFINE D == Going \ (Going' \cup {cur})
      <4> SUFFICES D = {}
        BY <1>2, <1>3, <1>6
      <4>1. ASSUME D # {} PROVE FALSE
        <5>1. D \in SUBSET Live
          BY <1>5 DEF IsBelow
        <5>2. PICK m \in D : parent[m] \notin D
          BY <1>1, <4>1, <5>1 DEF TreeOK, Acyclic
        <5>3. m # target /\ parent[m] \in Going
          BY <1>5, <2>1, <5>2 DEF IsBelow
        <5>4. m \in Live /\ m # cur /\ parent[m] # cur
          BY <1>3, <5>1, <5>2
        <5>5. parent[m] \in Going'
          BY <5>2, <5>3, <5>4
        <5> QED BY <1>3, <2>1, <5>2, <5>4, <5>5
      <4> QED BY <4>1
    <3>2. Going' \cup {cur} \subseteq Live /\ target \in Going' \cup {cur}
      BY <1>3, <2>1
    <3>3. \A m \in Live : parent[m] \in Going' \cup {cur} => m \in Going' \cup {cur}
      BY <1>3, <2>1
    <3>4. \A m \in Going' \cup {cur} : m = target \/ parent[m] \in Going' \cup {cur}
      BY <1>3, <2>1, <3>1
    <3> QED BY <3>2, <3>3, <3>4 DEF IsBelow
  <2>3. Going' \cup {cur} = Going
    BY <1>1, <1>5, <2>2, BelowUnique
  <2> QED BY <1>3, <2>1, <2>3
<1>8. Kept' = Kept /\ Kept \subseteq Live /\ Kept \subseteq Live' /\ cur \notin Kept /\ parent[cur] \notin Kept
  BY <1>3, <1>6, <1>7 DEF Kept
<1>9. \A n \in Kept : Lists'[n] = Lists[n]
  <2> SUFFICES ASSUME NEW n \in Kept PROVE Lists'[n] = Lists[n]
    OBVIOUS
  <2>1. n \in Live /\ n \in Live' /\ n # cur /\ n # parent[cur]
    BY <1>8
  <2>2. first_child'[n] = first_child[n]
    BY <1>3, <2>1
  <2>3. \A m \in Live : parent[m] = n => sibling'[m] = sibling[m]
    BY <1>4, <2>1
  <2> QED BY <1>1, <2>1, <2>2, <2>3, SameList
<1>10. \A n \in Kept : ChildSeqs'[n] = ChildSeqs[n]
  BY <1>1, <1>2, <1>8, <1>9 DEF SeqsOK
<1>11. \A n \in Kept : type'[n] = type[n] /\ key'[n] = key[n]
  BY <1>3, <1>8
<1>12. {root'} \cap Kept' = {root} \cap Kept
  BY <1>3, <1>8
<1> QED BY <1>1, <1>8, <1>10, <1>11, <1>12, RefusedLemma

(* How the target is taken out of its parent's list.                        *)
LEMMA UnlinkedList ==
  ASSUME IInv, RemoveTarget, ListsOK, ListsOK',
         NEW p, p = parent[target], p # NIL, p \in Live, p \in Live'
  PROVE  Lists'[p] = RemoveFirst(Lists[p], target)
<1> DEFINE s == Lists[p]
           u == Lists'[p]
           n == target
<1>1. /\ PoolInv /\ LinkTypes /\ TreeOK /\ NIL \notin Live /\ Live \subseteq Node /\ NIL \notin Node
      /\ n \in Live /\ n # p
  BY LiveNodes, NilAssumption, RemoveTargetFacts DEF IInv, TreeShape, Removes
<1>2. /\ \/ LeftSibling(n) = NIL /\ UnlinkFirst(n, p)
         \/ LeftSibling(n) # NIL /\ UnlinkBehind(LeftSibling(n), n, p)
  BY DEF RemoveTarget
<1>3. /\ LeftSibling(n) = NIL <=> first_child[p] = n
      /\ LeftSibling(n) # NIL => /\ LeftSibling(n) \in Live
                                 /\ parent[LeftSibling(n)] = p
                                 /\ sibling[LeftSibling(n)] = n
  BY <1>1, LeftSiblingLemma
<1>4. /\ IsList(first_child[p], sibling, s)
      /\ \A i \in 1 .. Len(s) : s[i] \in Live /\ parent[s[i]] = p
      /\ \A i, j \in 1 .. Len(s) : s[i] = s[j] => i = j
      /\ \A m \in Live : parent[m] = p => \E i \in 1 .. Len(s) : s[i] = m
  BY DEF ListsOK
<1>5. IsList(first_child'[p], sibling', u)
  BY DEF ListsOK
<1> HIDE DEF s, u, n
<1>6. s \in Seq(Node) /\ Len(s) \in Nat
  BY <1>4 DEF IsList
<1>7. PICK j \in 1 .. Len(s) : s[j] = n
  BY <1>1, <1>4 DEF n
<1>8. \A m \in 1 .. Len(s) - 1 : m \in 1 .. Len(s) /\ m + 1 \in 1 .. Len(s) /\ s[m + 1] = sibling[s[m]]
  BY <1>4, <1>6 DEF IsList
<1>9. j = 1 <=> first_child[p] = n
  <2>1. 1 \in 1 .. Len(s) /\ s # <<>>
    BY <1>6, <1>7
  <2>2. s[1] = first_child[p]
    BY <1>4, <2>1 DEF IsList
  <2> QED BY <1>4, <1>7, <2>1, <2>2
<1>10. IsList(first_child'[p], sibling', RemoveAt(s, j))
  <2>1. CASE LeftSibling(n) = NIL /\ UnlinkFirst(n, p)
    <3>1. j = 1
      BY <1>3, <1>9, <2>1
    <3>2. first_child'[p] = sibling[n] /\ \A m \in Live : m # n => sibling'[m] = sibling[m]
      BY <1>1, <2>1 DEF UnlinkFirst, LinkTypes
    <3>3. \A m \in 1 .. Len(s) : m # j /\ m # j - 1 => sibling'[s[m]] = sibling[s[m]]
      BY <1>4, <1>7, <3>2
    <3>4. ~(j > 1)
      BY <3>1
    <3>5. IsList(IF j = 1 THEN sibling[s[1]] ELSE first_child[p], sibling', RemoveAt(s, j))
      BY <1>4, <1>7, <3>3, <3>4, RemoveList
    <3> QED BY <1>7, <3>1, <3>2, <3>5
  <2>2. CASE LeftSibling(n) # NIL /\ UnlinkBehind(LeftSibling(n), n, p)
    <3>1. PICK l : l = LeftSibling(n)
      OBVIOUS
    <3>2. l \in Live /\ parent[l] = p /\ sibling[l] = n /\ j # 1 /\ l # n
      <4>1. l \in Live /\ parent[l] = p /\ sibling[l] = n /\ j # 1
        BY <1>3, <1>9, <2>2, <3>1
      <4>2. j - 1 \in 1 .. Len(s) - 1 /\ (j - 1) + 1 = j /\ j - 1 \in 1 .. Len(s) /\ j - 1 # j
        BY <1>6, <1>7, <4>1
      <4>3. s[j - 1] # n /\ sibling[s[j - 1]] = n /\ s[j - 1] \in Live
        BY <1>4, <1>7, <1>8, <4>2
      <4>4. l = s[j - 1]
        BY <1>1, <4>1, <4>3 DEF TreeOK, SiblingsOK, n
      <4> QED BY <4>1, <4>3, <4>4
    <3>3. /\ first_child'[p] = first_child[p]
          /\ sibling'[l] = sibling[n]
          /\ \A m \in Live : m # n /\ m # l => sibling'[m] = sibling[m]
      BY <1>1, <2>2, <3>1, <3>2 DEF UnlinkBehind, LinkTypes
    <3>4. /\ j - 1 \in 1 .. Len(s) - 1 /\ (j - 1) + 1 = j /\ j - 1 \in 1 .. Len(s) /\ j > 1
      BY <1>6, <1>7, <3>2
    <3>5. s[j - 1] = l
      <4>1. sibling[s[j - 1]] = n /\ s[j - 1] \in Live
        BY <1>4, <1>7, <1>8, <3>4
      <4> QED BY <1>1, <3>2, <4>1 DEF TreeOK, SiblingsOK, n
    <3>6. \A m \in 1 .. Len(s) : m # j /\ m # j - 1 => sibling'[s[m]] = sibling[s[m]]
      BY <1>4, <1>7, <3>3, <3>4, <3>5
    <3>7. sibling'[s[j - 1]] = sibling[s[j]]
      BY <1>7, <3>3, <3>5
    <3>8. IsList(IF j = 1 THEN sibling[s[1]] ELSE first_child[p], sibling', RemoveAt(s, j))
      BY <1>4, <1>7, <3>6, <3>7, RemoveList
    <3> QED BY <3>2, <3>3, <3>8
  <2> QED BY <1>2, <2>1, <2>2 DEF n
<1>11. u = RemoveAt(s, j)
  BY <1>5, <1>10, ListUnique
<1>12. RemoveFirst(s, n) = RemoveAt(s, j)
  BY <1>4, <1>6, <1>7, RemoveFirstLemma
<1> QED BY <1>11, <1>12 DEF s, u, n

(* The siblings that stay linked as they are when the target is taken out.  *)
LEMMA OtherLists ==
  ASSUME IInv, RemoveTarget, ListsOK, ListsOK',
         NEW x \in Live, x \in Live', x # parent[target]
  PROVE  Lists'[x] = Lists[x]
<1> DEFINE n == target
           p == parent[target]
<1>1. /\ PoolInv /\ LinkTypes /\ TreeOK /\ NIL \notin Live /\ Live \subseteq Node /\ n \in Live
      /\ Live' = Live \ {n}
      /\ \A m \in Live \ {n} : m # p => first_child'[m] = first_child[m]
  BY LiveNodes, RemoveTargetFacts DEF IInv, TreeShape, Removes
<1>2. \/ p = NIL /\ UNCHANGED <<sibling, first_child, last_child>>
      \/ p # NIL /\ LeftSibling(n) = NIL /\ UnlinkFirst(n, p)
      \/ p # NIL /\ LeftSibling(n) # NIL /\ UnlinkBehind(LeftSibling(n), n, p)
  BY DEF RemoveTarget
<1>3. ASSUME NEW m \in Live, parent[m] = x PROVE sibling'[m] = sibling[m]
  <2>1. m # n /\ m \in Node
    BY <1>1, <1>3
  <2>2. CASE p # NIL /\ LeftSibling(n) # NIL /\ UnlinkBehind(LeftSibling(n), n, p)
    <3>1. LeftSibling(n) # m
      BY <1>1, <1>3, <2>2, LeftSiblingLemma
    <3>2. sibling' = [sibling EXCEPT ![LeftSibling(n)] = sibling[n], ![n] = NIL]
      BY <2>2 DEF UnlinkBehind
    <3> HIDE DEF n
    <3> QED BY <1>1, <2>1, <3>1, <3>2 DEF LinkTypes
  <2>3. CASE p # NIL /\ LeftSibling(n) = NIL /\ UnlinkFirst(n, p)
    BY <1>1, <2>1, <2>3 DEF UnlinkFirst, LinkTypes
  <2> QED BY <1>2, <2>2, <2>3
<1>4. x # n /\ first_child'[x] = first_child[x]
  BY <1>1
<1> QED BY <1>3, <1>4, SameList

(* The target itself goes last, and the parent's list closes over it.       *)
LEMMA RemoveTargetStep ==
  ASSUME DocumentInv, View, View', RemoveTarget
  PROVE  Document!Refused
<1>1. /\ IInv /\ TreeOK /\ LinkTypes /\ NIL \notin Live /\ Live \subseteq Node /\ ListsOK /\ ListsOK'
      /\ SeqsOK /\ SeqsOK'
  BY InvFacts DEF View
<1>2. Removes(target) /\ target' = NIL
  BY <1>1, RemoveTargetFacts DEF RemoveTarget
<1>3. /\ target \in Live /\ target # NIL /\ Live' = Live \ {target} /\ root' = root
      /\ \A m \in Live : parent[m] # target
      /\ \A m \in Live \ {target} : type'[m] = type[m] /\ key'[m] = key[m]
  BY <1>1, <1>2 DEF Removes
<1>4. Going = {target} /\ Going' = {}
  <2>1. IsBelow(Going, target) /\ Going' = {}
    BY <1>2, <1>3 DEF View, GoingOK
  <2>2. IsBelow({target}, target)
    BY <1>3 DEF IsBelow
  <2> QED BY <1>1, <2>1, <2>2, BelowUnique
<1>5. Kept' = Kept /\ Kept = Live \ {target}
  BY <1>3, <1>4 DEF Kept
<1>6. ASSUME NEW x \in Kept PROVE ChildSeqs'[x] = ChildSeqs[x]
  <2>1. x \in Live /\ x \in Live' /\ x # target /\ x # NIL
    BY <1>1, <1>3, <1>5, <1>6
  <2>2. ChildSeqs'[x] = Lists'[x] /\ ChildSeqs[x] = RemoveFirst(Lists[x], target)
    BY <1>1, <1>2, <1>3, <1>5, <1>6 DEF SeqsOK
  <2>3. CASE x = parent[target]
    BY <1>1, <2>1, <2>2, <2>3, UnlinkedList
  <2>4. CASE x # parent[target]
    <3> DEFINE s == Lists[x]
    <3>1. /\ IsList(first_child[x], sibling, s)
          /\ \A i \in 1 .. Len(s) : parent[s[i]] = x
          /\ \A i, j \in 1 .. Len(s) : s[i] = s[j] => i = j
      BY <1>1, <2>1 DEF ListsOK
    <3>2. Lists'[x] = s
      BY <1>1, <2>1, <2>4, OtherLists
    <3> HIDE DEF s
    <3>3. \A j \in 1 .. Len(s) : s[j] # target
      BY <2>4, <3>1
    <3>4. s \in Seq(Node)
      BY <3>1 DEF IsList
    <3>5. RemoveFirst(s, target) = s
      BY <3>1, <3>3, <3>4, RemoveFirstLemma
    <3> QED BY <2>2, <3>2, <3>5 DEF s
  <2> QED BY <2>3, <2>4
<1>7. \A x \in Kept : type'[x] = type[x] /\ key'[x] = key[x] /\ ChildSeqs'[x] = ChildSeqs[x]
  BY <1>3, <1>5, <1>6
<1>8. {root'} \cap Kept' = {root} \cap Kept
  BY <1>3, <1>5
<1> QED BY <1>1, <1>5, <1>7, <1>8, RefusedLemma

----------------------------------------------------------------------------
(* The refinement.                                                          *)

(* A step that leaves the tree alone and starts nothing leaves the target   *)
(* alone, too.                                                              *)
LEMMA TargetIdles ==
  ASSUME DocumentInv, CallKept, [Next]_vars, Ends \/ Moves
  PROVE  Idles /\ target' = target
<1>1. Idles
  BY DEF Ends, Moves
<1>2. CASE Moves
  BY <1>1, <1>2 DEF Moves
<1>3. CASE pc' = "aborted"
  BY <1>1, <1>3 DEF CallKept
<1>4. CASE pc' = "idle" /\ pc \notin {"search", "leaf", "aborted"}
  BY <1>1, <1>4 DEF CallKept, CallOK, DocumentInv
<1>5. CASE pc' = "idle" /\ pc \in {"search", "leaf", "aborted"}
  <2>1. RemoveTarget
    BY <1>5, DeletionEnds
  <2>2. Live' = Live /\ Live' = Live \ {target} /\ target \in Live
    BY <1>1, <2>1, IdlesLemma, RemoveTargetFacts, InvFacts DEF Removes
  <2> QED BY <2>2
<1> QED BY <1>2, <1>3, <1>4, <1>5 DEF Ends

LEMMA DocumentStep ==
  ASSUME {"grammar", "shallow_update"} \subseteq Rules
  PROVE  DocumentInv /\ View /\ View' /\ [Next]_vars => [Document!Next]_(Document!vars)
<1> SUFFICES ASSUME DocumentInv, View, View', [Next]_vars
             PROVE  Document!Next \/ UNCHANGED Document!vars
  OBVIOUS
<1>1. CallKept /\ CallOK' /\ StepKind
  BY CallStep1, BaseStep DEF DocumentInv, NamesInv, ShapeInv, CallKept
<1>2. CASE Ends \/ Moves
  BY <1>1, <1>2, TargetIdles, IdlesStep DEF Document!Next
<1>3. CASE Starts
  <2>1. Idles /\ target = NIL /\ target' \in Live
    BY <1>3 DEF Starts, DocumentInv, CallOK
  <2> QED BY <2>1, StartsStep DEF Document!Next
<1>4. ASSUME NEW p, NEW a, NEW t, NEW k, InsertsValue(p, a, t, k)
      PROVE  Document!Next
  BY <1>1, <1>4, InsertsValueStep
<1>5. ASSUME NEW o \in Live, NEW k \in Names, NEW a, InsertsKey(o, a, k)
      PROVE  Document!Next
  BY <1>1, <1>5, InsertsKeyStep
<1>6. ASSUME NEW n \in Live, NEW t, NEW k, Retypes(n, t, k)
      PROVE  Document!Next
  BY <1>1, <1>6, RetypesStep
<1>7. CASE RemoveLeaf
  BY <1>7, RemoveLeafStep DEF Document!Next
<1>8. CASE RemoveTarget
  BY <1>8, RemoveTargetStep DEF Document!Next
<1>9. CASE ResetTree
  BY <1>9, ResetStep DEF Document!Next
<1> QED BY <1>1, <1>2, <1>3, <1>4, <1>5, <1>6, <1>7, <1>8, <1>9 DEF StepKind

(* At the start there is no element.                                        *)
LEMMA DocumentInit == Init => CallOK /\ TargetOK /\ Document!Init
<1> SUFFICES ASSUME Init PROVE CallOK /\ TargetOK /\ Document!Init
  OBVIOUS
<1>1. CallOK /\ TargetOK /\ Live = {}
  BY DEF Init, CallOK, NoCall, TargetOK, PoolInit, Live
<1>2. Kept = {}
  BY <1>1 DEF Kept
<1>3. Labels = <<>> /\ ChildSeqs = <<>> /\ {root} \cap Kept = {}
  BY <1>2, SeqsLemma DEF Labels, SeqsOK
<1> QED BY <1>1, <1>3 DEF Document!Init

(***************************************************************************)
(* The editing calls of jes.c implement the document of JsonDocument: after *)
(* every sequence of calls the elements, their types, names and order are   *)
(* what the calls, each taken as one step, make of an empty document.  For  *)
(* a client that passes elements of the grammar and updates no array value  *)
(* with more than one child below it, in either search mode.                *)
(***************************************************************************)
THEOREM TreeImplementsDocument ==
  ASSUME {"grammar", "shallow_update"} \subseteq Rules, Hashed => "table_room" \in Rules
  PROVE  Spec => ImplementsDocument
<1>1. Spec => []NamesInv
  BY NamesInvariant
<1>2. Init => CallOK /\ TargetOK /\ Document!Init
  BY DocumentInit
<1>3. NamesInv /\ NamesInv' /\ CallOK /\ TargetOK /\ [Next]_vars => DocumentInv'
  BY DocumentInvStep
<1>4. DocumentInv <=> NamesInv /\ CallOK /\ TargetOK
  BY DEF DocumentInv
<1>5. DocumentInv => View
  BY ViewLemma
<1>6. DocumentInv /\ View /\ View' /\ [Next]_vars => [Document!Next]_(Document!vars)
  BY DocumentStep
<1> QED BY <1>1, <1>2, <1>3, <1>4, <1>5, <1>6, PTL DEF Spec, ImplementsDocument, Document!Spec
============================================================================
