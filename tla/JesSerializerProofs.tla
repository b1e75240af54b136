------------------------ MODULE JesSerializerProofs ------------------------
(***************************************************************************)
(* Proofs about rendering what was loaded: the two passes over the tree do  *)
(* the same, and what the first one measures is what the second one writes; *)
(* and the walk that they share with jes_get_stat meets every element once. *)
(* The last part puts texts together and says what a writer has emitted.    *)
(***************************************************************************)
EXTENDS JesParserProofs

----------------------------------------------------------------------------
(* What the renderer puts.                                                  *)

Writer == [job : {"none", "render", "evaluate"}, compact : BOOLEAN,
           pass : {"evaluate", "write"}, length : Nat, indention : Nat, size : Nat,
           out : Seq(Token), written : Nat, result : Nat]

Putable == Token \cup {"string", "newline"}

LEMMA PutableCases ==
  ASSUME NEW t \in Putable
  PROVE  \/ t \in Punctuation /\ t \notin Names /\ t \notin {"string", "scalar", "newline"}
         \/ t \in Names /\ t \notin Punctuation /\ t \notin {"string", "scalar", "newline"}
         \/ t \in {"string", "scalar", "newline"} /\ t \notin Names /\ t \notin Punctuation
<1>1. CASE t \in Punctuation
  <2>1. t \notin {"string", "scalar", "newline"}
    BY <1>1, Zenon DEF Punctuation
  <2>2. t \notin Names
    BY <1>1, ParserAssumption, Zenon
  <2> QED BY <1>1, <2>1, <2>2, Zenon
<1>2. CASE t \in Names
  <2>1. t \notin {"string", "scalar", "newline"}
    BY <1>2, ParserAssumption, SerializerAssumption, Zenon
  <2>2. t \notin Punctuation
    BY <1>2, ParserAssumption, Zenon
  <2> QED BY <1>2, <2>1, <2>2, Zenon
<1>3. CASE t \in {"string", "scalar", "newline"}
  <2>1. t \notin Names
    BY <1>3, ParserAssumption, SerializerAssumption, Zenon
  <2>2. t \notin Punctuation
    BY <1>3, Zenon DEF Punctuation
  <2> QED BY <1>3, <2>1, <2>2, Zenon
<1> QED BY <1>1, <1>2, <1>3, Zenon DEF Putable, Token

(* Both passes agree about every length.                                    *)
LEMMA SameLength ==
  ASSUME NEW w \in Writer, NEW v \in Writer, NEW t \in Putable,
         v.compact = w.compact, v.indention = w.indention
  PROVE  Calculated(w, t) \in Nat /\ WrittenLength(v, t) = Calculated(w, t)
<1>0. TextLength \in Nat /\ w.indention \in Nat
  BY SerializerAssumption DEF Writer
<1>1. CASE t \in Punctuation /\ t \notin Names /\ t \notin {"string", "scalar", "newline"}
  <2>1. Calculated(w, t) = 1
    BY <1>1, Zenon DEF Calculated
  <2>2. WrittenLength(v, t) = 1
    BY <1>1, Zenon DEF WrittenLength
  <2> QED BY <2>1, <2>2
<1>2. CASE t \in Names /\ t \notin Punctuation /\ t \notin {"string", "scalar", "newline"}
  <2>1. Calculated(w, t) = TextLength + IF w.compact THEN 3 ELSE 4
    BY <1>2, Zenon DEF Calculated
  <2>2. WrittenLength(v, t) = 1 + TextLength + 1 + 1 + IF w.compact THEN 0 ELSE 1
    BY <1>2, Zenon DEF WrittenLength
  <2> QED BY <1>0, <2>1, <2>2
<1>3. CASE t \in {"string", "scalar", "newline"} /\ t \notin Names /\ t \notin Punctuation
  <2>1. CASE t = "string"
    <3>1. Calculated(w, t) = TextLength + 2
      BY <1>3, <2>1, Zenon DEF Calculated
    <3>2. WrittenLength(v, t) = 1 + TextLength + 1
      BY <1>3, <2>1, Zenon DEF WrittenLength
    <3> QED BY <1>0, <3>1, <3>2
  <2>2. CASE t = "scalar"
    <3>1. Calculated(w, t) = TextLength
      BY <1>3, <2>2, Zenon DEF Calculated
    <3>2. WrittenLength(v, t) = TextLength
      BY <1>3, <2>2, Zenon DEF WrittenLength
    <3> QED BY <1>0, <3>1, <3>2
  <2>3. CASE t = "newline"
    <3>1. Calculated(w, t) = IF w.compact THEN 0 ELSE w.indention + 1
      BY <1>3, <2>3, Zenon DEF Calculated
    <3>2. WrittenLength(v, t) = IF w.compact THEN 0 ELSE 1 + w.indention
      BY <1>3, <2>3, Zenon DEF WrittenLength
    <3> QED BY <1>0, <3>1, <3>2
  <2> QED BY <1>3, <2>1, <2>2, <2>3
<1> QED BY <1>1, <1>2, <1>3, PutableCases

LEMMA TokensType ==
  ASSUME NEW t \in Putable
  PROVE  Tokens(t) \in Seq(Token)
<1>1. \A S : \A a, b \in S : <<>> \in Seq(S) /\ <<a>> \in Seq(S) /\ <<a, b>> \in Seq(S)
  OBVIOUS
<1>2. ":" \in Token /\ "scalar" \in Token /\ Names \subseteq Token /\ Punctuation \subseteq Token
  BY Zenon DEF Token, Punctuation
<1>3. CASE t \in Punctuation /\ t \notin Names /\ t \notin {"string", "scalar", "newline"}
  <2>1. Tokens(t) = <<t>>
    BY <1>3, Zenon DEF Tokens
  <2> QED BY <1>1, <1>2, <1>3, <2>1, Zenon
<1>4. CASE t \in Names /\ t \notin Punctuation /\ t \notin {"string", "scalar", "newline"}
  <2>1. Tokens(t) = <<t, ":">>
    BY <1>4, Zenon DEF Tokens
  <2> QED BY <1>1, <1>2, <1>4, <2>1, Zenon
<1>5. CASE t \in {"string", "scalar", "newline"} /\ t \notin Names /\ t \notin Punctuation
  <2>1. Tokens(t) \in {<<"scalar">>, <<>>}
    <3>1. CASE t = "string"
      BY <1>5, <3>1, Zenon DEF Tokens
    <3>2. CASE t = "scalar"
      BY <1>5, <3>2, Zenon DEF Tokens
    <3>3. CASE t = "newline"
      BY <1>5, <3>3, Zenon DEF Tokens
    <3> QED BY <1>5, <3>1, <3>2, <3>3, Zenon
  <2> QED BY <1>1, <1>2, <2>1, Zenon
<1> QED BY <1>3, <1>4, <1>5, PutableCases

LEMMA WriterFields ==
  ASSUME NEW w \in Writer
  PROVE  /\ w.length \in Nat /\ w.indention \in Nat /\ w.written \in Nat
         /\ w.out \in Seq(Token)
BY Zenon DEF Writer

(* A writer further on in the same pass.                                    *)
Continues(w, v) ==
  /\ v \in Writer /\ v.pass = w.pass /\ v.compact = w.compact /\ v.size = w.size
  /\ w.pass = "evaluate" => v.written = w.written /\ w.length <= v.length
  /\ w.pass # "evaluate" => v.length = w.length

(* The first and the second pass at the same place.                         *)
Alike(w, v) ==
  /\ w.pass = "evaluate" /\ v.pass = "write" /\ w.compact = v.compact
  /\ w.indention = v.indention /\ w.length = v.written

LEMMA ContinuesOn ==
  ASSUME NEW u \in Writer, NEW v, NEW w, Continues(u, v), Continues(v, w)
  PROVE  Continues(u, w)
<1>1. u.length \in Nat /\ v.length \in Nat /\ w.length \in Nat
  BY WriterFields DEF Continues
<1> QED BY <1>1 DEF Continues

LEMMA PutFields ==
  ASSUME NEW w \in Writer, NEW t \in Putable
  PROVE  LET v == Put(w, t) IN
           /\ v \in Writer /\ v.indention = w.indention /\ v.pass = w.pass
           /\ v.compact = w.compact /\ v.size = w.size
           /\ w.pass = "evaluate" => /\ v.length = w.length + Calculated(w, t)
                                     /\ v.written = w.written
           /\ w.pass # "evaluate" => /\ v.written = w.written + WrittenLength(w, t)
                                     /\ v.length = w.length
<1>1. PICK l, m, o : /\ l = w.length + Calculated(w, t) /\ m = w.written + WrittenLength(w, t)
                     /\ o = w.out \o Tokens(t)
  OBVIOUS
<1>2. l \in Nat /\ m \in Nat
  BY <1>1, SameLength, WriterFields
<1>3. o \in Seq(Token)
  BY <1>1, TokensType, ConcatProperties, WriterFields
<1>4. CASE w.pass = "evaluate"
  <2>1. Put(w, t) = [w EXCEPT !.length = w.length + Calculated(w, t)]
    BY <1>4, Zenon DEF Put
  <2>2. Put(w, t) = [w EXCEPT !.length = l]
    BY <1>1, <2>1, Zenon
  <2>3. LET v == [w EXCEPT !.length = l] IN
          /\ v \in Writer /\ v.indention = w.indention /\ v.pass = w.pass
          /\ v.compact = w.compact /\ v.size = w.size /\ v.written = w.written /\ v.length = l
    BY <1>2, Zenon DEF Writer
  <2> QED BY <1>1, <1>4, <2>2, <2>3, Zenon
<1>5. CASE w.pass # "evaluate"
  <2>1. Put(w, t) = [w EXCEPT !.written = w.written + WrittenLength(w, t),
                              !.out = w.out \o Tokens(t)]
    BY <1>5, Zenon DEF Put
  <2>2. Put(w, t) = [w EXCEPT !.written = m, !.out = o]
    BY <1>1, <2>1, Zenon
  <2>3. LET v == [w EXCEPT !.written = m, !.out = o] IN
          /\ v \in Writer /\ v.indention = w.indention /\ v.pass = w.pass
          /\ v.compact = w.compact /\ v.size = w.size /\ v.written = m /\ v.length = w.length
    BY <1>2, <1>3, Zenon DEF Writer
  <2> QED BY <1>1, <1>5, <2>2, <2>3, Zenon
<1> QED BY <1>4, <1>5

LEMMA PutFacts ==
  ASSUME NEW w \in Writer, NEW t \in Putable
  PROVE  Continues(w, Put(w, t)) /\ Put(w, t).indention = w.indention
<1>1. Calculated(w, t) \in Nat /\ w.length \in Nat
  BY SameLength, WriterFields
<1> QED BY <1>1, PutFields DEF Continues

LEMMA AlikePut ==
  ASSUME NEW w \in Writer, NEW v \in Writer, Alike(w, v), NEW t \in Putable
  PROVE  Alike(Put(w, t), Put(v, t))
<1>1. WrittenLength(v, t) = Calculated(w, t)
  BY SameLength DEF Alike
<1> QED BY <1>1, PutFields DEF Alike

Indented(w, v, l) ==
  /\ v \in Writer /\ v.indention = l /\ v.pass = w.pass
  /\ v.compact = w.compact /\ v.size = w.size /\ v.written = w.written
  /\ v.length = w.length

LEMMA IndentFields ==
  ASSUME NEW w \in Writer
  PROVE  /\ Continues(w, Indent(w)) /\ Indent(w).indention = w.indention + TabSize
         /\ Indent(w).length = w.length /\ Indent(w).written = w.written
         /\ w.indention >= TabSize =>
              /\ Continues(w, Unindent(w)) /\ Unindent(w).indention = w.indention - TabSize
              /\ Unindent(w).length = w.length /\ Unindent(w).written = w.written
<1>1. /\ w.indention \in Nat /\ w.indention + TabSize \in Nat /\ w.length \in Nat
      /\ w.indention >= TabSize => w.indention - TabSize \in Nat
  BY WriterFields DEF TabSize
<1>2. \A l \in Nat : Indented(w, [w EXCEPT !.indention = l], l)
  BY Zenon DEF Writer, Indented
<1>3. Indent(w) = [w EXCEPT !.indention = w.indention + TabSize]
  BY Zenon DEF Indent
<1>4. Unindent(w) = [w EXCEPT !.indention = w.indention - TabSize]
  BY Zenon DEF Unindent
<1>5. PICK i, u : i = w.indention + TabSize /\ u = w.indention - TabSize
  OBVIOUS
<1>6. Indent(w) = [w EXCEPT !.indention = i] /\ Unindent(w) = [w EXCEPT !.indention = u]
  BY <1>3, <1>4, <1>5, Zenon
<1>7. i \in Nat /\ (w.indention >= TabSize => u \in Nat)
  BY <1>1, <1>5
<1>8. Indented(w, Indent(w), i)
  BY <1>2, <1>6, <1>7, Zenon
<1>9. u \in Nat => Indented(w, Unindent(w), u)
  BY <1>2, <1>6, Zenon
<1> QED BY <1>1, <1>5, <1>7, <1>8, <1>9 DEF Continues, Indented

LEMMA AlikeIndent ==
  ASSUME NEW w \in Writer, NEW v \in Writer, Alike(w, v)
  PROVE  /\ Alike(Indent(w), Indent(v))
         /\ w.indention >= TabSize => Alike(Unindent(w), Unindent(v))
BY IndentFields DEF Alike, Continues

LEMMA PutablePunctuation ==
  "{" \in Putable /\ "}" \in Putable /\ "[" \in Putable /\ "]" \in Putable
  /\ "," \in Putable /\ "newline" \in Putable /\ "string" \in Putable /\ "scalar" \in Putable
  /\ Names \subseteq Putable
BY Zenon DEF Putable, Token, Punctuation

----------------------------------------------------------------------------
(* How deep the elements are.                                               *)

Inside(n) == IF type[n] \in Container THEN 1 ELSE 0

IsDepth(d) ==
  /\ d \in [Live -> Nat]
  /\ \A n \in Live : d[n] = IF parent[n] = NIL THEN 0 ELSE d[parent[n]] + Inside(parent[n])

HasDepth == \E d : IsDepth(d)

LEMMA DepthKept ==
  ASSUME NEW d, IsDepth(d), Live' = Live, parent' = parent, type' = type
  PROVE  IsDepth(d)'
BY DEF IsDepth, Inside

LEMMA DepthGrows ==
  ASSUME LoadedTree, HasDepth, NEW n, n \notin Live, Live' = Live \cup {n},
         parent'[n] \in Live \cup {NIL},
         \A m \in Live : type'[m] = type[m] /\ parent'[m] = parent[m]
  PROVE  HasDepth'
<1>1. PICK d : IsDepth(d)
  BY DEF HasDepth
<1>2. NIL \notin Live /\ \A m \in Live : parent[m] \in Live \cup {NIL}
  BY LoadedFacts
<1>3. \A m \in Live : Inside(m)' = Inside(m) /\ Inside(m) \in Nat
  BY DEF Inside
<1>4. PICK p, L, deep : /\ p = parent'[n] /\ L = Live'
                        /\ deep = IF p = NIL THEN 0 ELSE d[p] + Inside(p)
  OBVIOUS
<1> DEFINE e == [m \in L |-> IF m = n THEN deep ELSE d[m]]
<1>5. d \in [Live -> Nat] /\ deep \in Nat
  BY <1>1, <1>2, <1>3, <1>4 DEF IsDepth
<1>6. e \in [L -> Nat] /\ e[n] = deep /\ \A m \in Live : e[m] = d[m]
  BY <1>4, <1>5
<1> HIDE DEF e
<1>7. ASSUME NEW m \in Live'
      PROVE  e[m] = IF parent'[m] = NIL THEN 0 ELSE e[parent'[m]] + Inside(parent[m])'
  <2>1. CASE m = n
    <3>1. p # NIL => Inside(parent[m])' = Inside(p) /\ e[p] = d[p]
      BY <1>3, <1>4, <1>6, <2>1 DEF Inside
    <3> QED BY <1>4, <1>6, <2>1, <3>1
  <2>2. CASE m \in Live
    <3>1. e[m] = d[m] /\ parent'[m] = parent[m] /\ parent[m] \in Live \cup {NIL}
      BY <1>2, <1>6, <2>2
    <3>2. parent[m] # NIL => /\ Inside(parent[m])' = Inside(parent[m])
                             /\ e[parent[m]] = d[parent[m]]
      BY <1>6, <3>1 DEF Inside
    <3> QED BY <1>1, <2>2, <3>1, <3>2 DEF IsDepth
  <2> QED BY <2>1, <2>2
<1>8. IsDepth(e)'
  BY <1>4, <1>6, <1>7 DEF IsDepth
<1> QED BY <1>8 DEF HasDepth

LEMMA DepthAbove ==
  ASSUME LoadedTree, NEW d, IsDepth(d), NEW n \in Live
  PROVE  \A k \in 1 .. Capacity : Ancestors(n)[k] # NIL => d[Ancestors(n)[k]] <= d[n]
<1> DEFINE up == Ancestors(n)
           D == {k \in 1 .. Capacity : up[k] # NIL /\ ~(d[up[k]] <= d[n])}
<1> SUFFICES ASSUME D # {} PROVE FALSE
  OBVIOUS
<1>1. D \subseteq Nat
  BY CapacityAssumption
<1>2. PICK k \in D : \A e \in D : k <= e
  <2> HIDE DEF D
  <2> QED BY <1>1, LeastLemma
<1>3. k \in 1 .. Capacity /\ up[k] # NIL /\ ~(d[up[k]] <= d[n])
  OBVIOUS
<1>4. TreeShape /\ NIL \notin Live /\ \A m \in Live : parent[m] \in Live \cup {NIL}
  BY LoadedFacts
<1>5. PICK m : m = IF k = 1 THEN n ELSE up[k - 1]
  OBVIOUS
<1>6. m \in Live \cup {NIL} /\ (m # NIL => d[m] <= d[n])
  <2>1. CASE k = 1
    BY <1>4, <1>5, <2>1 DEF IsDepth
  <2>2. CASE k # 1
    <3>1. k - 1 \in 1 .. Capacity /\ k - 1 < k /\ k - 1 \in Nat
      BY <1>3, <2>2, CapacityAssumption
    <3>2. k - 1 \notin D
      BY <1>1, <1>2, <3>1
    <3> QED BY <1>4, <1>5, <2>2, <3>1, <3>2, AncestorsLive
  <2> QED BY <2>1, <2>2
<1>7. up[k] = Above(m)
  BY <1>3, <1>5, AncestorsUp
<1> HIDE DEF up, D
<1>8. m \in Live /\ up[k] = parent[m] /\ parent[m] \in Live
  BY <1>3, <1>4, <1>6, <1>7 DEF Above
<1>9. d[parent[m]] <= d[m] /\ d[parent[m]] \in Nat /\ d[m] \in Nat /\ d[n] \in Nat
  BY <1>3, <1>4, <1>8 DEF IsDepth, Inside
<1> QED BY <1>3, <1>4, <1>6, <1>8, <1>9

(* The walk goes down by one container at most.                             *)
LEMMA DepthNext ==
  ASSUME LoadedTree, NEW d, IsDepth(d), NEW n \in Live, NextElement(n) # NIL
  PROVE  d[NextElement(n)] <= d[n] + (IF first_child[n] # NIL THEN Inside(n) ELSE 0)
<1>1. /\ TreeShape /\ TreeOK /\ NIL \notin Live /\ n # NIL
      /\ \A m \in Live : parent[m] \in Live \cup {NIL}
  BY LoadedFacts
<1>2. d \in [Live -> Nat] /\ Inside(n) \in Nat
  BY DEF IsDepth, Inside
<1>3. CASE first_child[n] # NIL
  <2>1. NextElement(n) = first_child[n]
    BY <1>1, <1>3 DEF NextElement
  <2>2. first_child[n] \in Live /\ parent[first_child[n]] = n
    BY <1>1, <1>3, LinkFacts DEF TreeOK, EndsOK
  <2> QED BY <1>1, <1>2, <1>3, <2>1, <2>2 DEF IsDepth
<1>4. \A m \in Live : sibling[m] # NIL => sibling[m] \in Live /\ d[sibling[m]] = d[m]
  BY <1>1, LinkFacts DEF TreeOK, SiblingsOK, IsDepth
<1>5. CASE first_child[n] = NIL /\ sibling[n] # NIL
  <2>1. NextElement(n) = sibling[n]
    BY <1>1, <1>5 DEF NextElement
  <2> QED BY <1>2, <1>4, <1>5, <2>1
<1>6. CASE first_child[n] = NIL /\ sibling[n] = NIL
  <2>1. NextElement(n) = BehindBranch(n)
    BY <1>1, <1>6 DEF NextElement
  <2>2. /\ TurningPoint(n) # NIL /\ NextElement(n) = sibling[TurningPoint(n)]
    BY <2>1 DEF BehindBranch
  <2>3. /\ TurningPoint(n) \in Live /\ sibling[TurningPoint(n)] # NIL
        /\ \E k \in 1 .. Capacity : Ancestors(n)[k] = TurningPoint(n)
    BY <1>1, <2>2, TurningPointLemma
  <2>4. d[TurningPoint(n)] <= d[n]
    BY <2>2, <2>3, DepthAbove
  <2> QED BY <1>2, <1>4, <1>6, <2>2, <2>3, <2>4
<1> QED BY <1>3, <1>5, <1>6

----------------------------------------------------------------------------
(* Containers that are closed on the way up.                                *)

CloseOne(w, m) ==
  CASE TypeOf(m) = "ARRAY" -> Put(PutNewLine(Unindent(w)), "]")
    [] TypeOf(m) = "OBJECT" -> Put(PutNewLine(Unindent(w)), "}")
    [] OTHER -> w

Closes(f, w, n, K) ==
  f = [k \in 0 .. K |-> IF k = 0 THEN w ELSE CloseOne(f[k - 1], Ancestors(n)[k])]

Height(stop, n) ==
  IF stop = NIL THEN Capacity
  ELSE IF stop = n THEN 0 ELSE CHOOSE k \in 1 .. Capacity : Ancestors(n)[k] = stop

LEMMA CloseUpToDef ==
  ASSUME NEW w, NEW stop, NEW n
  PROVE  CloseUpTo(w, stop, n) =
           (CHOOSE f : Closes(f, w, n, Height(stop, n)))[Height(stop, n)]
BY Zenon DEF CloseUpTo, Closes, CloseOne, Height

LEMMA ClosesExists ==
  ASSUME NEW w, NEW n, NEW K \in Nat
  PROVE  \E f : Closes(f, w, n, K)
<1> DEFINE D == {k \in Nat : ~ \E f : Closes(f, w, n, k)}
<1> SUFFICES ASSUME D # {} PROVE FALSE
  OBVIOUS
<1>1. PICK d \in D : \A e \in D : d <= e
  BY LeastLemma
<1>2. d \in Nat /\ ~ \E f : Closes(f, w, n, d)
  OBVIOUS
<1>3. CASE d = 0
  <2> DEFINE f == [k \in 0 .. 0 |-> w]
  <2>1. f = [k \in 0 .. 0 |-> IF k = 0 THEN w ELSE CloseOne(f[k - 1], Ancestors(n)[k])]
    OBVIOUS
  <2> QED BY <1>2, <1>3, <2>1 DEF Closes
<1>4. CASE d # 0
  <2>1. d - 1 \in Nat /\ d - 1 \notin D
    BY <1>1, <1>2, <1>4
  <2>2. PICK f : Closes(f, w, n, d - 1)
    BY <2>1
  <2> DEFINE top == CloseOne(f[d - 1], Ancestors(n)[d])
             g == [k \in 0 .. d |-> IF k < d THEN f[k] ELSE top]
  <2>3. ASSUME NEW k \in 0 .. d
        PROVE  g[k] = IF k = 0 THEN w ELSE CloseOne(g[k - 1], Ancestors(n)[k])
    <3>1. CASE k = 0
      <4>1. f[0] = w /\ 0 < d
        BY <1>2, <1>4, <2>1, <2>2 DEF Closes
      <4> QED BY <3>1, <4>1
    <3>2. CASE k = d
      <4>1. g[k] = CloseOne(f[d - 1], Ancestors(n)[d]) /\ g[k - 1] = f[d - 1]
        BY <1>2, <1>4, <3>2
      <4> QED BY <1>4, <3>2, <4>1
    <3>3. CASE k # 0 /\ k # d
      <4>1. k \in 0 .. d - 1 /\ k < d /\ k - 1 \in 0 .. d /\ k - 1 < d
        BY <1>2, <3>3
      <4>2. f[k] = CloseOne(f[k - 1], Ancestors(n)[k])
        BY <2>2, <3>3, <4>1 DEF Closes
      <4>3. g[k] = f[k] /\ g[k - 1] = f[k - 1]
        BY <3>3, <4>1
      <4> QED BY <3>3, <4>2, <4>3
    <3> QED BY <3>1, <3>2, <3>3
  <2>4. g = [k \in 0 .. d |-> IF k = 0 THEN w ELSE CloseOne(g[k - 1], Ancestors(n)[k])]
    <3>1. g = [k \in 0 .. d |-> g[k]]
      OBVIOUS
    <3> HIDE DEF g
    <3> QED BY <2>3, <3>1
  <2> QED BY <1>2, <2>4 DEF Closes
<1> QED BY <1>3, <1>4

(* What is closed on the way to an element, one level after the other.      *)
LEMMA ClosesUp ==
  ASSUME NEW w, NEW stop, NEW n, Height(stop, n) \in 0 .. Capacity
  PROVE  \E f : /\ f[0] = w /\ f[Height(stop, n)] = CloseUpTo(w, stop, n)
                /\ \A k \in 1 .. Height(stop, n) : f[k] = CloseOne(f[k - 1], Ancestors(n)[k])
<1> DEFINE K == Height(stop, n)
           f == CHOOSE g : Closes(g, w, n, K)
<1>1. K \in Nat
  BY CapacityAssumption
<1> HIDE DEF K
<1>2. Closes(f, w, n, K)
  BY <1>1, ClosesExists
<1>3. CloseUpTo(w, stop, n) = f[K]
  BY CloseUpToDef DEF K
<1> HIDE DEF f
<1>4. /\ f[0] = w
      /\ \A k \in 1 .. K : f[k] = CloseOne(f[k - 1], Ancestors(n)[k])
  BY <1>1, <1>2 DEF Closes
<1> QED BY <1>3, <1>4 DEF K

LEMMA HeightRange ==
  ASSUME NEW n \in Live, NEW stop, NIL \notin Live,
         \/ stop = NIL \/ stop = n \/ \E k \in 1 .. Capacity : Ancestors(n)[k] = stop
  PROVE  /\ Height(stop, n) \in 0 .. Capacity
         /\ stop # NIL =>
              stop = IF Height(stop, n) = 0 THEN n ELSE Ancestors(n)[Height(stop, n)]
<1>1. CASE stop = NIL
  BY <1>1, CapacityAssumption DEF Height
<1>2. CASE stop = n
  BY <1>2, CapacityAssumption DEF Height
<1>3. CASE stop # NIL /\ stop # n
  <2>1. Height(stop, n) = CHOOSE k \in 1 .. Capacity : Ancestors(n)[k] = stop
    BY <1>3 DEF Height
  <2>2. \E k \in 1 .. Capacity : Ancestors(n)[k] = stop
    BY <1>3
  <2>3. Height(stop, n) \in 1 .. Capacity /\ Ancestors(n)[Height(stop, n)] = stop
    BY <2>1, <2>2
  <2> QED BY <2>3, CapacityAssumption
<1> QED BY <1>1, <1>2, <1>3

LEMMA CloseOneCases ==
  ASSUME NEW w, NEW m
  PROVE  /\ \/ TypeOf(m) = "ARRAY" /\ CloseOne(w, m) = Put(PutNewLine(Unindent(w)), "]")
            \/ TypeOf(m) = "OBJECT" /\ CloseOne(w, m) = Put(PutNewLine(Unindent(w)), "}")
            \/ TypeOf(m) \notin Container /\ CloseOne(w, m) = w
BY Zenon DEF CloseOne, Container

LEMMA ClosingFacts ==
  ASSUME NEW w \in Writer, w.indention >= TabSize, NEW t \in Putable
  PROVE  /\ Continues(w, Put(PutNewLine(Unindent(w)), t))
         /\ Put(PutNewLine(Unindent(w)), t).indention = w.indention - TabSize
<1>1. Continues(w, Unindent(w)) /\ Unindent(w).indention = w.indention - TabSize
  BY IndentFields
<1>2. /\ Continues(Unindent(w), PutNewLine(Unindent(w)))
      /\ PutNewLine(Unindent(w)).indention = w.indention - TabSize
  BY <1>1, PutFacts, PutablePunctuation DEF PutNewLine, Continues
<1>3. /\ Continues(PutNewLine(Unindent(w)), Put(PutNewLine(Unindent(w)), t))
      /\ Put(PutNewLine(Unindent(w)), t).indention = w.indention - TabSize
  BY <1>2, PutFacts DEF Continues
<1>4. Unindent(w) \in Writer
  BY <1>1 DEF Continues
<1>5. Continues(w, PutNewLine(Unindent(w)))
  BY <1>1, <1>2, ContinuesOn
<1> QED BY <1>3, <1>5, ContinuesOn

LEMMA ClosingAlike ==
  ASSUME NEW w \in Writer, NEW v \in Writer, Alike(w, v), w.indention >= TabSize,
         NEW t \in Putable
  PROVE  Alike(Put(PutNewLine(Unindent(w)), t), Put(PutNewLine(Unindent(v)), t))
<1>1. Unindent(w) \in Writer /\ Unindent(v) \in Writer /\ Alike(Unindent(w), Unindent(v))
  BY AlikeIndent, IndentFields DEF Alike, Continues
<1>2. /\ PutNewLine(Unindent(w)) \in Writer /\ PutNewLine(Unindent(v)) \in Writer
      /\ Alike(PutNewLine(Unindent(w)), PutNewLine(Unindent(v)))
  BY <1>1, AlikePut, PutFacts, PutablePunctuation DEF PutNewLine, Continues
<1> QED BY <1>2, AlikePut

Level(n, k) == IF k = 0 THEN n ELSE Ancestors(n)[k]

LEMMA LevelsUp ==
  ASSUME LoadedTree, NEW n \in Live
  PROVE  /\ \A k \in 0 .. Capacity : Level(n, k) \in Live \cup {NIL}
         /\ \A k \in 1 .. Capacity : Level(n, k) = Above(Level(n, k - 1))
<1>1. TreeShape
  BY LoadedFacts
<1>2. ASSUME NEW k \in 0 .. Capacity
      PROVE  Level(n, k) \in Live \cup {NIL}
  <2>1. k # 0 => k \in 1 .. Capacity
    BY CapacityAssumption
  <2> QED BY <1>1, <2>1, AncestorsLive DEF Level
<1>3. ASSUME NEW k \in 1 .. Capacity
      PROVE  Level(n, k) = Above(Level(n, k - 1))
  <2>1. k # 0 /\ (k - 1 = 0 <=> k = 1)
    BY CapacityAssumption
  <2> QED BY <2>1, AncestorsUp DEF Level
<1> QED BY <1>2, <1>3

LEMMA CloseOneStep ==
  ASSUME LoadedTree, NEW d, IsDepth(d), NEW m \in Live \cup {NIL}, NEW x \in Writer,
         m # NIL => x.indention >= TabSize * d[m]
  PROVE  LET a == Above(m)
             y == CloseOne(x, a)
         IN /\ Continues(x, y)
            /\ a # NIL => y.indention >= TabSize * d[a]
            /\ \A v \in Writer : Alike(x, v) => Alike(y, CloseOne(v, a))
<1> DEFINE a == Above(m)
           y == CloseOne(x, a)
<1>1. /\ NIL \notin Live /\ d \in [Live -> Nat] /\ a \in Live \cup {NIL}
      /\ \A n \in Live : parent[n] \in Live \cup {NIL}
  BY LoadedFacts DEF Above, IsDepth
<1>2. a # NIL => /\ a \in Live /\ m \in Live
                 /\ d[m] = d[a] + Inside(a) /\ d[a] \in Nat
  BY <1>1 DEF Above, IsDepth
<1>3. Continues(x, x)
  BY WriterFields DEF Continues
<1>4. x.indention \in Nat
  BY WriterFields
<1>5. CASE TypeOf(a) \notin Container
  <2>1. \A z \in Writer : CloseOne(z, a) = z
    BY <1>5, CloseOneCases DEF Container
  <2>2. a # NIL => d[m] = d[a]
    BY <1>2, <1>5 DEF Inside, TypeOf
  <2>3. a # NIL => x.indention >= TabSize * d[a]
    BY <1>1, <1>2, <2>2
  <2>4. y = x
    BY <2>1
  <2>5. \A v \in Writer : Alike(x, v) => Alike(y, CloseOne(v, a))
    BY <2>1, <2>4
  <2> QED BY <1>3, <2>3, <2>4, <2>5
<1>6. CASE TypeOf(a) \in Container
  <2>1. a # NIL /\ Inside(a) = 1 /\ d[m] = d[a] + 1 /\ m # NIL
    BY <1>1, <1>2, <1>6 DEF TypeOf, Container, Inside
  <2>2. x.indention >= TabSize /\ x.indention - TabSize >= TabSize * d[a]
    BY <1>2, <1>4, <2>1 DEF TabSize
  <2>3. PICK t \in Putable : \A z \in Writer : CloseOne(z, a) = Put(PutNewLine(Unindent(z)), t)
    <3>1. CASE TypeOf(a) = "ARRAY"
      <4>1. "]" \in Putable /\ \A z \in Writer : CloseOne(z, a) = Put(PutNewLine(Unindent(z)), "]")
        BY <3>1, PutablePunctuation, Zenon DEF CloseOne
      <4> QED BY <4>1
    <3>2. CASE TypeOf(a) = "OBJECT"
      <4>1. "}" \in Putable /\ \A z \in Writer : CloseOne(z, a) = Put(PutNewLine(Unindent(z)), "}")
        BY <3>2, PutablePunctuation, Zenon DEF CloseOne
      <4> QED BY <4>1, Zenon
    <3> QED BY <1>6, <3>1, <3>2 DEF Container
  <2>4. y = Put(PutNewLine(Unindent(x)), t)
    BY <2>3
  <2>5. Continues(x, y) /\ y.indention = x.indention - TabSize
    BY <2>2, <2>4, ClosingFacts
  <2>6. \A v \in Writer : Alike(x, v) => Alike(y, CloseOne(v, a))
    BY <2>2, <2>3, <2>4, ClosingAlike
  <2> QED BY <2>2, <2>5, <2>6
<1> QED BY <1>5, <1>6

(* While containers are closed the indention suffices for those above.      *)
LEMMA ClosesFacts ==
  ASSUME LoadedTree, NEW d, IsDepth(d), NEW n \in Live, NEW stop,
         \/ stop = NIL \/ stop = n \/ \E k \in 1 .. Capacity : Ancestors(n)[k] = stop,
         NEW w \in Writer, w.indention >= TabSize * d[n]
  PROVE  \E f : /\ f[0] = w /\ f[Height(stop, n)] = CloseUpTo(w, stop, n)
                /\ \A k \in 1 .. Height(stop, n) : f[k] = CloseOne(f[k - 1], Level(n, k))
                /\ \A k \in 0 .. Height(stop, n) :
                     /\ Continues(w, f[k])
                     /\ Level(n, k) # NIL => f[k].indention >= TabSize * d[Level(n, k)]
<1> DEFINE K == Height(stop, n)
<1>1. NIL \notin Live /\ K \in 0 .. Capacity
  BY LoadedFacts, HeightRange
<1>2. PICK f : /\ f[0] = w /\ f[K] = CloseUpTo(w, stop, n)
               /\ \A k \in 1 .. K : f[k] = CloseOne(f[k - 1], Ancestors(n)[k])
  BY <1>1, ClosesUp
<1>3. \A k \in 1 .. K : f[k] = CloseOne(f[k - 1], Level(n, k)) /\ k # 0
  BY <1>1, <1>2, CapacityAssumption DEF Level
<1> HIDE DEF K
<1> DEFINE OK(k) == /\ Continues(w, f[k])
                    /\ Level(n, k) # NIL => f[k].indention >= TabSize * d[Level(n, k)]
           D == {k \in 0 .. K : ~OK(k)}
<1>4. ASSUME D # {} PROVE FALSE
  <2>1. D \subseteq Nat
    BY <1>1, CapacityAssumption
  <2>2. PICK k \in D : \A e \in D : k <= e
    <3> HIDE DEF D
    <3> QED BY <1>4, <2>1, LeastLemma
  <2>3. k \in 0 .. K /\ ~OK(k)
    OBVIOUS
  <2>4. OK(0)
    BY <1>2, WriterFields DEF Continues, Level
  <2>5. k # 0
    BY <2>3, <2>4
  <2>6. k \in 1 .. K /\ k \in 1 .. Capacity /\ k - 1 \in 0 .. K /\ k - 1 \in 0 .. Capacity /\ k - 1 < k
    BY <1>1, <2>3, <2>5, CapacityAssumption
  <2>7. OK(k - 1)
    <3>1. k - 1 \notin D
      <4>1. k \in Nat /\ k - 1 \in Nat
        BY <2>6, CapacityAssumption
      <4> HIDE DEF D
      <4> QED BY <2>2, <2>6, <4>1
    <3> QED BY <2>6, <3>1
  <2> HIDE DEF D
  <2>8. Level(n, k - 1) \in Live \cup {NIL} /\ Level(n, k) = Above(Level(n, k - 1))
    BY <2>6, LevelsUp
  <2>9. f[k - 1] \in Writer
    BY <2>7 DEF Continues
  <2>10. f[k] = CloseOne(f[k - 1], Above(Level(n, k - 1)))
    BY <1>3, <2>6, <2>8
  <2>11. /\ Continues(f[k - 1], f[k])
         /\ Level(n, k) # NIL => f[k].indention >= TabSize * d[Level(n, k)]
    BY <2>7, <2>8, <2>9, <2>10, CloseOneStep
  <2> QED BY <2>3, <2>7, <2>11, ContinuesOn
<1>5. \A k \in 0 .. K : OK(k)
  BY <1>4
<1> QED BY <1>2, <1>3, <1>5 DEF K

LEMMA CloseUpToFacts ==
  ASSUME LoadedTree, NEW d, IsDepth(d), NEW n \in Live, NEW stop,
         \/ stop = NIL \/ stop = n \/ \E k \in 1 .. Capacity : Ancestors(n)[k] = stop,
         NEW w \in Writer, w.indention >= TabSize * d[n]
  PROVE  /\ Continues(w, CloseUpTo(w, stop, n))
         /\ stop # NIL => CloseUpTo(w, stop, n).indention >= TabSize * d[stop]
<1> DEFINE K == Height(stop, n)
<1>1. /\ NIL \notin Live /\ K \in 0 .. Capacity
      /\ stop # NIL => stop = Level(n, K)
  BY LoadedFacts, HeightRange DEF Level
<1>2. PICK f : /\ f[K] = CloseUpTo(w, stop, n)
               /\ \A k \in 0 .. K :
                    /\ Continues(w, f[k])
                    /\ Level(n, k) # NIL => f[k].indention >= TabSize * d[Level(n, k)]
  BY ClosesFacts
<1> HIDE DEF K
<1>3. K \in 0 .. K
  BY <1>1, CapacityAssumption
<1> QED BY <1>1, <1>2, <1>3

LEMMA CloseUpToAlike ==
  ASSUME LoadedTree, NEW d, IsDepth(d), NEW n \in Live, NEW stop,
         \/ stop = NIL \/ stop = n \/ \E k \in 1 .. Capacity : Ancestors(n)[k] = stop,
         NEW w \in Writer, w.indention >= TabSize * d[n], NEW v \in Writer, Alike(w, v)
  PROVE  Alike(CloseUpTo(w, stop, n), CloseUpTo(v, stop, n))
<1> DEFINE K == Height(stop, n)
<1>1. NIL \notin Live /\ K \in 0 .. Capacity /\ v.indention >= TabSize * d[n]
  BY LoadedFacts, HeightRange DEF Alike
<1>2. PICK f : /\ f[0] = w /\ f[K] = CloseUpTo(w, stop, n)
               /\ \A k \in 1 .. K : f[k] = CloseOne(f[k - 1], Level(n, k))
               /\ \A k \in 0 .. K :
                    /\ Continues(w, f[k])
                    /\ Level(n, k) # NIL => f[k].indention >= TabSize * d[Level(n, k)]
  BY ClosesFacts
<1>3. PICK g : /\ g[0] = v /\ g[K] = CloseUpTo(v, stop, n)
               /\ \A k \in 1 .. K : g[k] = CloseOne(g[k - 1], Level(n, k))
               /\ \A k \in 0 .. K : Continues(v, g[k])
  BY <1>1, ClosesFacts
<1> HIDE DEF K
<1> DEFINE D == {k \in 0 .. K : ~Alike(f[k], g[k])}
<1>4. ASSUME D # {} PROVE FALSE
  <2>1. D \subseteq Nat
    BY <1>1, CapacityAssumption
  <2>2. PICK k \in D : \A e \in D : k <= e
    <3> HIDE DEF D
    <3> QED BY <1>4, <2>1, LeastLemma
  <2>3. k \in 0 .. K /\ ~Alike(f[k], g[k])
    OBVIOUS
  <2>4. k # 0
    BY <1>2, <1>3, <2>3
  <2>5. k \in 1 .. K /\ k \in 1 .. Capacity /\ k - 1 \in 0 .. K /\ k - 1 \in 0 .. Capacity /\ k - 1 < k
    BY <1>1, <2>3, <2>4, CapacityAssumption
  <2>6. Alike(f[k - 1], g[k - 1])
    <3>1. k - 1 \notin D
      <4>1. k \in Nat /\ k - 1 \in Nat
        BY <2>5, CapacityAssumption
      <4> HIDE DEF D
      <4> QED BY <2>2, <2>5, <4>1
    <3> QED BY <2>5, <3>1
  <2> HIDE DEF D
  <2>7. Level(n, k - 1) \in Live \cup {NIL} /\ Level(n, k) = Above(Level(n, k - 1))
    BY <2>5, LevelsUp
  <2>8. /\ f[k - 1] \in Writer /\ g[k - 1] \in Writer
        /\ Level(n, k - 1) # NIL => f[k - 1].indention >= TabSize * d[Level(n, k - 1)]
    BY <1>2, <1>3, <2>5 DEF Continues
  <2>9. Alike(f[k], g[k])
    BY <1>2, <1>3, <2>5, <2>6, <2>7, <2>8, CloseOneStep
  <2> QED BY <2>3, <2>9
<1>5. \A k \in 0 .. K : Alike(f[k], g[k])
  BY <1>4
<1>6. K \in 0 .. K
  BY <1>1, CapacityAssumption
<1> QED BY <1>2, <1>3, <1>5, <1>6

----------------------------------------------------------------------------
(* A turn of the loops, from one configuration to the next.                 *)

Here == [state |-> state, iter |-> iter, status |-> status, pc |-> pc, writer |-> writer]

To(s, n, st, w) ==
  [state |-> s, iter |-> n, status |-> st,
   pc |-> IF s = "END" \/ n = NIL \/ st # "NO_ERROR" THEN "pass_end" ELSE "render",
   writer |-> w]

Lost(c, n) ==
  To(IF n = NIL THEN "END" ELSE c.state, n, "UNEXPECTED_ELEMENT", c.writer)

KeyTurn(c, e) ==
  LET n == NextElement(c.iter) IN
  /\ c.state = "EXPECT_KEY"
  /\ \/ TypeOf(n) = "KEY" /\ e = To("EXPECT_VALUE", n, c.status, Put(c.writer, key[n]))
     \/ TypeOf(n) # "KEY" /\ e = Lost(c, n)

ScalarText(n) == IF n \in Quoted THEN "string" ELSE "scalar"
Opening(n) == IF TypeOf(n) = "OBJECT" THEN "{" ELSE "["
Closing(n) == IF TypeOf(n) = "OBJECT" THEN "}" ELSE "]"
Expected(n) == IF TypeOf(n) = "OBJECT" THEN "EXPECT_KEY" ELSE "EXPECT_VALUE"

ValueTurn(c, e) ==
  LET n == NextElement(c.iter) IN
  /\ c.state = "EXPECT_VALUE"
  /\ \/ TypeOf(n) = "SCALAR" /\ e = To("HAVE_VALUE", n, c.status, Put(c.writer, ScalarText(n)))
     \/ /\ TypeOf(n) \in Container /\ HasChild(n)
        /\ e = To(Expected(n), n, c.status, PutNewLine(Indent(Put(c.writer, Opening(n)))))
     \/ /\ TypeOf(n) \in Container /\ ~HasChild(n)
        /\ e = To("HAVE_VALUE", n, c.status, Put(Put(c.writer, Opening(n)), Closing(n)))
     \/ TypeOf(n) \in {"KEY", "UNKNOWN"} /\ e = Lost(c, n)

StopOf(n) == IF sibling[n] # NIL THEN n ELSE TurningPoint(n)

EndTurn(c, e) ==
  LET stop == StopOf(c.iter)
      w == CloseUpTo(c.writer, stop, c.iter)
  IN
  /\ c.state = "HAVE_VALUE"
  /\ \/ stop = NIL /\ e = To("END", c.iter, c.status, w)
     \/ /\ stop # NIL
        /\ e = To(IF TypeOf(parent[stop]) = "ARRAY" THEN "EXPECT_VALUE" ELSE "EXPECT_KEY",
                  c.iter, c.status, PutNewLine(Put(w, ",")))

Follows(c, e) == KeyTurn(c, e) \/ ValueTurn(c, e) \/ EndTurn(c, e)

LEMMA TurnTo ==
  ASSUME NEW s, NEW n, NEW st, NEW w, Turn(s, n, st, w)
  PROVE  Here' = To(s, n, st, w) /\ Keep
BY DEF Turn, Here, To

LEMMA HereFields ==
  /\ Here.state = state /\ Here.iter = iter /\ Here.status = status /\ Here.pc = pc
  /\ Here.writer = writer
BY DEF Here

(* Every turn is one from the configuration at hand.                        *)
LEMMA TurnsFollow ==
  ASSUME VisitKey \/ VisitValue \/ AfterValue
  PROVE  Follows(Here, Here') /\ Keep /\ pc = "render"
<1>1. PICK c, n : c = Here /\ n = NextElement(iter)
  OBVIOUS
<1>2. /\ c.state = state /\ c.iter = iter /\ c.status = status /\ c.writer = writer
  BY <1>1, HereFields
<1>3. CASE VisitKey
  <2>1. /\ pc = "render" /\ state = "EXPECT_KEY"
        /\ \/ TypeOf(n) = "KEY" /\ Turn("EXPECT_VALUE", n, status, Put(writer, key[n]))
           \/ TypeOf(n) # "KEY" /\ Misplaced(n)
    BY <1>1, <1>3, Zenon DEF VisitKey
  <2>2. /\ Keep
        /\ \/ TypeOf(n) = "KEY" /\ Here' = To("EXPECT_VALUE", n, status, Put(writer, key[n]))
           \/ TypeOf(n) # "KEY"
              /\ Here' = To(IF n = NIL THEN "END" ELSE state, n, "UNEXPECTED_ELEMENT", writer)
    BY <2>1, TurnTo DEF Misplaced
  <2>3. KeyTurn(c, Here')
    BY <1>1, <1>2, <2>1, <2>2 DEF KeyTurn, Lost
  <2> QED BY <1>1, <2>1, <2>2, <2>3 DEF Follows
<1>4. CASE VisitValue
  <2>1. /\ pc = "render" /\ state = "EXPECT_VALUE"
        /\ \/ TypeOf(n) = "SCALAR" /\ VisitScalar(n)
           \/ TypeOf(n) = "OBJECT" /\ VisitContainer(n, "{", "}", "EXPECT_KEY")
           \/ TypeOf(n) = "ARRAY" /\ VisitContainer(n, "[", "]", "EXPECT_VALUE")
           \/ TypeOf(n) \in {"KEY", "UNKNOWN"} /\ Misplaced(n)
    BY <1>1, <1>4, Zenon DEF VisitValue
  <2>2. \/ TypeOf(n) = "SCALAR" /\ VisitScalar(n)
        \/ TypeOf(n) \in Container /\ VisitContainer(n, Opening(n), Closing(n), Expected(n))
        \/ TypeOf(n) \in {"KEY", "UNKNOWN"} /\ Misplaced(n)
    <3>1. TypeOf(n) = "OBJECT" =>
            Opening(n) = "{" /\ Closing(n) = "}" /\ Expected(n) = "EXPECT_KEY"
      BY Zenon DEF Opening, Closing, Expected
    <3>2. TypeOf(n) = "ARRAY" =>
            Opening(n) = "[" /\ Closing(n) = "]" /\ Expected(n) = "EXPECT_VALUE"
      BY Zenon DEF Opening, Closing, Expected
    <3> QED BY <2>1, <3>1, <3>2, Zenon DEF Container
  <2>3. /\ Keep
        /\ \/ TypeOf(n) = "SCALAR"
              /\ Here' = To("HAVE_VALUE", n, status, Put(writer, ScalarText(n)))
           \/ /\ TypeOf(n) \in Container /\ HasChild(n)
              /\ Here' = To(Expected(n), n, status, PutNewLine(Indent(Put(writer, Opening(n)))))
           \/ /\ TypeOf(n) \in Container /\ ~HasChild(n)
              /\ Here' = To("HAVE_VALUE", n, status, Put(Put(writer, Opening(n)), Closing(n)))
           \/ /\ TypeOf(n) \in {"KEY", "UNKNOWN"}
              /\ Here' = To(IF n = NIL THEN "END" ELSE state, n, "UNEXPECTED_ELEMENT", writer)
    BY <2>2, TurnTo DEF Misplaced, VisitScalar, VisitContainer, ScalarText
  <2>4. ValueTurn(c, Here')
    BY <1>1, <1>2, <2>1, <2>3 DEF ValueTurn, Lost
  <2> QED BY <1>1, <2>1, <2>3, <2>4 DEF Follows
<1>5. CASE AfterValue
  <2>1. PICK stop, w, x : /\ stop = StopOf(iter) /\ w = CloseUpTo(writer, stop, iter)
                          /\ x = PutNewLine(Put(w, ","))
    BY Zenon
  <2>2. /\ pc = "render" /\ state = "HAVE_VALUE"
        /\ \/ stop = NIL /\ Turn("END", iter, status, w)
           \/ /\ stop # NIL
              /\ Turn(IF TypeOf(parent[stop]) = "ARRAY" THEN "EXPECT_VALUE" ELSE "EXPECT_KEY",
                      iter, status, x)
    BY <1>5, <2>1, Zenon DEF AfterValue, StopOf
  <2>3. /\ Keep
        /\ \/ stop = NIL /\ Here' = To("END", iter, status, w)
           \/ /\ stop # NIL
              /\ Here' = To(IF TypeOf(parent[stop]) = "ARRAY" THEN "EXPECT_VALUE"
                                                              ELSE "EXPECT_KEY",
                            iter, status, x)
    <3> PICK i, st : i = iter /\ st = status
      OBVIOUS
    <3>1. Turn("END", i, st, w) => Here' = To("END", i, st, w) /\ Keep
      BY TurnTo
    <3>2. \A s : Turn(s, i, st, x) => Here' = To(s, i, st, x) /\ Keep
      BY TurnTo
    <3> QED BY <2>2, <3>1, <3>2
  <2>4. EndTurn(c, Here')
    BY <1>1, <1>2, <2>1, <2>2, <2>3, Zenon DEF EndTurn
  <2> QED BY <1>1, <2>2, <2>3, <2>4 DEF Follows
<1> QED BY <1>3, <1>4, <1>5

(* The writer is indented enough for the element that comes next.           *)
WellIndented(d, c) ==
  /\ c.writer \in Writer /\ c.iter \in Live \cup {NIL} /\ c.state \in States
  /\ c.pc = "render" =>
       \/ /\ c.state \in {"EXPECT_KEY", "EXPECT_VALUE"}
          /\ NextElement(c.iter) # NIL =>
               c.writer.indention >= TabSize * d[NextElement(c.iter)]
       \/ /\ c.state = "HAVE_VALUE" /\ c.iter \in Live /\ first_child[c.iter] = NIL
          /\ c.writer.indention >= TabSize * d[c.iter]

LEMMA ToFields ==
  ASSUME NEW s, NEW n, NEW st, NEW w
  PROVE  LET e == To(s, n, st, w) IN
           /\ e.state = s /\ e.iter = n /\ e.status = st /\ e.writer = w
           /\ e.pc = IF s = "END" \/ n = NIL \/ st # "NO_ERROR" THEN "pass_end" ELSE "render"
BY DEF To

(* The walk goes on from an element whose indention there is.               *)
LEMMA IndentedNext ==
  ASSUME LoadedTree, NEW d, IsDepth(d), NEW n \in Live, NEW w \in Writer,
         w.indention >= TabSize * (d[n] + (IF first_child[n] # NIL THEN Inside(n) ELSE 0)),
         NEW s \in {"EXPECT_KEY", "EXPECT_VALUE"}, NEW st
  PROVE  WellIndented(d, To(s, n, st, w))
<1>1. CASE NextElement(n) = NIL
  BY <1>1, ToFields DEF WellIndented, States
<1>2. CASE NextElement(n) # NIL
  <2>1. NextElement(n) \in Live
    BY <1>2, NextElementLemma
  <2>2. d[NextElement(n)] <= d[n] + (IF first_child[n] # NIL THEN Inside(n) ELSE 0)
    BY <1>2, DepthNext
  <2>3. d[NextElement(n)] \in Nat /\ d[n] \in Nat /\ Inside(n) \in Nat /\ w.indention \in Nat
    BY <2>1, WriterFields DEF IsDepth, Inside
  <2>4. w.indention >= TabSize * d[NextElement(n)]
    BY <2>2, <2>3 DEF TabSize
  <2> QED BY <2>4, ToFields DEF WellIndented, States
<1> QED BY <1>1, <1>2

LEMMA IndentedValue ==
  ASSUME NEW d, NEW n \in Live, first_child[n] = NIL, NEW w \in Writer,
         w.indention >= TabSize * d[n], NEW st
  PROVE  WellIndented(d, To("HAVE_VALUE", n, st, w))
BY ToFields DEF WellIndented, States

LEMMA IndentedEnd ==
  ASSUME NEW d, NEW s \in States, NEW n \in Live \cup {NIL}, NEW w \in Writer, NEW st,
         s = "END" \/ n = NIL \/ st # "NO_ERROR"
  PROVE  WellIndented(d, To(s, n, st, w))
BY ToFields DEF WellIndented

LEMMA StopFacts ==
  ASSUME LoadedTree, NEW n \in Live, first_child[n] = NIL
  PROVE  LET stop == StopOf(n) IN
           /\ stop = NIL \/ stop = n \/ \E k \in 1 .. Capacity : Ancestors(n)[k] = stop
           /\ stop # NIL => stop \in Live /\ NextElement(n) = sibling[stop] /\ sibling[stop] \in Live
<1>1. TreeShape /\ NIL \notin Live /\ n # NIL
  BY LoadedFacts
<1>2. CASE sibling[n] # NIL
  BY <1>1, <1>2, LinkFacts DEF StopOf, NextElement
<1>3. CASE sibling[n] = NIL
  <2>1. StopOf(n) = TurningPoint(n)
    BY <1>3 DEF StopOf
  <2>2. NextElement(n) = BehindBranch(n)
    BY <1>1, <1>3 DEF NextElement
  <2> QED BY <1>1, <2>1, <2>2, TurningPointLemma DEF BehindBranch
<1> QED BY <1>2, <1>3

LEMMA OpeningClosing ==
  ASSUME NEW n
  PROVE  /\ Opening(n) \in Putable /\ Closing(n) \in Putable /\ ScalarText(n) \in Putable
         /\ Expected(n) \in {"EXPECT_KEY", "EXPECT_VALUE"}
<1>1. Opening(n) \in Putable /\ Closing(n) \in Putable
  BY PutablePunctuation, Zenon DEF Opening, Closing
<1>2. ScalarText(n) \in Putable
  BY PutablePunctuation, Zenon DEF ScalarText
<1>3. Expected(n) \in {"EXPECT_KEY", "EXPECT_VALUE"}
  BY DEF Expected
<1> QED BY <1>1, <1>2, <1>3

(* The writer after an opening and the first line behind it.                *)
LEMMA OpenedFacts ==
  ASSUME NEW w \in Writer, NEW o \in Putable
  PROVE  /\ Continues(w, PutNewLine(Indent(Put(w, o))))
         /\ PutNewLine(Indent(Put(w, o))).indention = w.indention + TabSize
<1>1. Continues(w, Put(w, o)) /\ Put(w, o).indention = w.indention /\ Put(w, o) \in Writer
  BY PutFacts DEF Continues
<1>2. /\ Continues(Put(w, o), Indent(Put(w, o))) /\ Indent(Put(w, o)) \in Writer
      /\ Indent(Put(w, o)).indention = w.indention + TabSize
  BY <1>1, IndentFields DEF Continues
<1>3. /\ Continues(Indent(Put(w, o)), PutNewLine(Indent(Put(w, o))))
      /\ PutNewLine(Indent(Put(w, o))).indention = w.indention + TabSize
  BY <1>2, PutFacts, PutablePunctuation DEF PutNewLine
<1>4. Continues(w, Indent(Put(w, o)))
  BY <1>1, <1>2, ContinuesOn
<1> QED BY <1>3, <1>4, ContinuesOn

LEMMA OpenedAlike ==
  ASSUME NEW w \in Writer, NEW v \in Writer, Alike(w, v), NEW o \in Putable
  PROVE  Alike(PutNewLine(Indent(Put(w, o))), PutNewLine(Indent(Put(v, o))))
<1>1. Put(w, o) \in Writer /\ Put(v, o) \in Writer /\ Alike(Put(w, o), Put(v, o))
  BY PutFacts, AlikePut DEF Continues
<1>2. /\ Indent(Put(w, o)) \in Writer /\ Indent(Put(v, o)) \in Writer
      /\ Alike(Indent(Put(w, o)), Indent(Put(v, o)))
  BY <1>1, IndentFields, AlikeIndent DEF Continues
<1> QED BY <1>2, AlikePut, PutablePunctuation DEF PutNewLine

LEMMA TwoPutFacts ==
  ASSUME NEW w \in Writer, NEW o \in Putable, NEW p \in Putable
  PROVE  /\ Continues(w, Put(Put(w, o), p)) /\ Put(Put(w, o), p).indention = w.indention
         /\ \A v \in Writer : Alike(w, v) => Alike(Put(Put(w, o), p), Put(Put(v, o), p))
<1>1. \A v \in Writer : /\ Continues(v, Put(v, o)) /\ Put(v, o).indention = v.indention
                        /\ Put(v, o) \in Writer
  BY PutFacts DEF Continues
<1>2. Continues(Put(w, o), Put(Put(w, o), p)) /\ Put(Put(w, o), p).indention = w.indention
  BY <1>1, PutFacts
<1>3. Continues(w, Put(Put(w, o), p))
  BY <1>1, <1>2, ContinuesOn
<1>4. \A v \in Writer : Alike(w, v) => Alike(Put(Put(w, o), p), Put(Put(v, o), p))
  BY <1>1, AlikePut
<1> QED BY <1>2, <1>3, <1>4

(* The configurations of two passes at the same place.                      *)
AlikeAt(c, x) ==
  /\ c.state = x.state /\ c.iter = x.iter /\ c.status = x.status /\ c.pc = x.pc
  /\ Alike(c.writer, x.writer)

LEMMA AlikeTo ==
  ASSUME NEW s, NEW n, NEW st, NEW w, NEW v, Alike(w, v)
  PROVE  AlikeAt(To(s, n, st, w), To(s, n, st, v))
BY ToFields DEF AlikeAt

(* A turn leaves room for the next, and two passes do the same in it.       *)
TurnDone(d, c, e) ==
  /\ WellIndented(d, e) /\ Continues(c.writer, e.writer)

LEMMA KeyTurnFacts ==
  ASSUME LoadedTree, NEW d, IsDepth(d), NEW c, WellIndented(d, c), c.pc = "render",
         NEW e, KeyTurn(c, e)
  PROVE  /\ TurnDone(d, c, e)
         /\ \A x, y : AlikeAt(c, x) /\ x.writer \in Writer /\ KeyTurn(x, y) => AlikeAt(e, y)
<1> DEFINE n == NextElement(c.iter)
<1>1. /\ n \in Live \cup {NIL} /\ c.writer \in Writer /\ c.state = "EXPECT_KEY" /\ NIL \notin Live
      /\ n # NIL => c.writer.indention >= TabSize * d[n]
  BY NextElementLemma, LoadedFacts DEF WellIndented, KeyTurn
<1>2. Continues(c.writer, c.writer)
  BY <1>1, WriterFields DEF Continues
<1> HIDE DEF n
<1>3. CASE TypeOf(n) = "KEY" /\ e = To("EXPECT_VALUE", n, c.status, Put(c.writer, key[n]))
  <2>1. n \in Live /\ type[n] = "KEY" /\ key[n] \in Names
    BY <1>1, <1>3, LoadedFacts DEF TypeOf
  <2>2. key[n] \in Putable
    BY <2>1, PutablePunctuation, Zenon
  <2>3. PICK w : w = Put(c.writer, key[n])
    OBVIOUS
  <2>4. Continues(c.writer, w) /\ w \in Writer /\ w.indention = c.writer.indention
    BY <1>1, <2>2, <2>3, PutFacts DEF Continues
  <2>5. Inside(n) = 0 /\ d[n] \in Nat
    BY <2>1 DEF Inside, Container, IsDepth
  <2>6. w.indention >= TabSize * (d[n] + (IF first_child[n] # NIL THEN Inside(n) ELSE 0))
    BY <1>1, <2>1, <2>4, <2>5
  <2>7. WellIndented(d, e)
    BY <1>3, <2>1, <2>3, <2>4, <2>6, IndentedNext
  <2>8. \A x, y : AlikeAt(c, x) /\ x.writer \in Writer /\ KeyTurn(x, y) => AlikeAt(e, y)
    <3> SUFFICES ASSUME NEW x, NEW y, AlikeAt(c, x), x.writer \in Writer, KeyTurn(x, y)
                 PROVE  AlikeAt(e, y)
      OBVIOUS
    <3>1. y = To("EXPECT_VALUE", n, c.status, Put(x.writer, key[n]))
      BY <1>3 DEF KeyTurn, AlikeAt, n
    <3>2. Alike(Put(c.writer, key[n]), Put(x.writer, key[n]))
      BY <1>1, <2>2, AlikePut DEF AlikeAt
    <3> QED BY <1>3, <3>1, <3>2, AlikeTo
  <2> QED BY <1>3, <2>3, <2>4, <2>7, <2>8, ToFields DEF TurnDone
<1>4. CASE TypeOf(n) # "KEY" /\ e = Lost(c, n)
  <2>1. PICK s \in States : s = IF n = NIL THEN "END" ELSE c.state
    BY <1>1 DEF States
  <2>2. e = To(s, n, "UNEXPECTED_ELEMENT", c.writer)
    BY <1>4, <2>1 DEF Lost
  <2>3. WellIndented(d, e)
    BY <1>1, <2>2, IndentedEnd
  <2>4. \A x, y : AlikeAt(c, x) /\ x.writer \in Writer /\ KeyTurn(x, y) => AlikeAt(e, y)
    <3> SUFFICES ASSUME NEW x, NEW y, AlikeAt(c, x), x.writer \in Writer, KeyTurn(x, y)
                 PROVE  AlikeAt(e, y)
      OBVIOUS
    <3>1. y = To(s, n, "UNEXPECTED_ELEMENT", x.writer)
      BY <1>4, <2>1 DEF KeyTurn, AlikeAt, Lost, n
    <3> QED BY <2>2, <3>1, AlikeTo DEF AlikeAt
  <2> QED BY <1>2, <2>2, <2>3, <2>4, ToFields DEF TurnDone
<1> QED BY <1>3, <1>4 DEF KeyTurn, n

LEMMA ValueTurnFacts ==
  ASSUME LoadedTree, NEW d, IsDepth(d), NEW c, WellIndented(d, c), c.pc = "render",
         NEW e, ValueTurn(c, e)
  PROVE  /\ TurnDone(d, c, e)
         /\ \A x, y : AlikeAt(c, x) /\ x.writer \in Writer /\ ValueTurn(x, y) => AlikeAt(e, y)
<1> DEFINE n == NextElement(c.iter)
<1>1. /\ n \in Live \cup {NIL} /\ c.writer \in Writer /\ c.state = "EXPECT_VALUE" /\ NIL \notin Live
      /\ n # NIL => c.writer.indention >= TabSize * d[n]
  BY NextElementLemma, LoadedFacts DEF WellIndented, ValueTurn
<1>2. Continues(c.writer, c.writer)
  BY <1>1, WriterFields DEF Continues
<1>3. /\ TypeOf(n) \in {"SCALAR"} \cup Container => n \in Live /\ TypeOf(n) = type[n]
      /\ TypeOf(n) = "SCALAR" => first_child[n] = NIL
      /\ n \in Live => (HasChild(n) <=> first_child[n] # NIL)
      /\ d \in [Live -> Nat]
  BY <1>1, LoadedFacts DEF TypeOf, Container, JsonShape, HasChild, IsDepth
<1>4. /\ TypeOf(n) = "SCALAR" => TypeOf(n) \notin Container /\ TypeOf(n) \notin {"KEY", "UNKNOWN"}
      /\ TypeOf(n) \in Container => TypeOf(n) \notin {"KEY", "UNKNOWN"}
  BY DEF Container
<1>5. /\ Opening(n) \in Putable /\ Closing(n) \in Putable /\ ScalarText(n) \in Putable
      /\ Expected(n) \in {"EXPECT_KEY", "EXPECT_VALUE"}
  BY OpeningClosing
<1>6. \A x, y : AlikeAt(c, x) /\ ValueTurn(x, y) =>
        \/ TypeOf(n) = "SCALAR" /\ y = To("HAVE_VALUE", n, c.status, Put(x.writer, ScalarText(n)))
        \/ /\ TypeOf(n) \in Container /\ HasChild(n)
           /\ y = To(Expected(n), n, c.status, PutNewLine(Indent(Put(x.writer, Opening(n)))))
        \/ /\ TypeOf(n) \in Container /\ ~HasChild(n)
           /\ y = To("HAVE_VALUE", n, c.status, Put(Put(x.writer, Opening(n)), Closing(n)))
        \/ TypeOf(n) \in {"KEY", "UNKNOWN"} /\ y = Lost(x, n)
  BY DEF ValueTurn, AlikeAt
<1>7. \/ TypeOf(n) = "SCALAR" /\ e = To("HAVE_VALUE", n, c.status, Put(c.writer, ScalarText(n)))
      \/ /\ TypeOf(n) \in Container /\ HasChild(n)
         /\ e = To(Expected(n), n, c.status, PutNewLine(Indent(Put(c.writer, Opening(n)))))
      \/ /\ TypeOf(n) \in Container /\ ~HasChild(n)
         /\ e = To("HAVE_VALUE", n, c.status, Put(Put(c.writer, Opening(n)), Closing(n)))
      \/ TypeOf(n) \in {"KEY", "UNKNOWN"} /\ e = Lost(c, n)
  BY DEF ValueTurn
<1> HIDE DEF n
<1>8. CASE TypeOf(n) = "SCALAR" /\ e = To("HAVE_VALUE", n, c.status, Put(c.writer, ScalarText(n)))
  <2>1. PICK w : w = Put(c.writer, ScalarText(n))
    OBVIOUS
  <2>2. Continues(c.writer, w) /\ w \in Writer /\ w.indention = c.writer.indention
    BY <1>1, <1>5, <2>1, PutFacts DEF Continues
  <2>3. WellIndented(d, e)
    BY <1>1, <1>3, <1>8, <2>1, <2>2, IndentedValue
  <2>4. \A x, y : AlikeAt(c, x) /\ x.writer \in Writer /\ ValueTurn(x, y) => AlikeAt(e, y)
    <3> SUFFICES ASSUME NEW x, NEW y, AlikeAt(c, x), x.writer \in Writer, ValueTurn(x, y)
                 PROVE  AlikeAt(e, y)
      OBVIOUS
    <3>1. y = To("HAVE_VALUE", n, c.status, Put(x.writer, ScalarText(n)))
      BY <1>4, <1>6, <1>8
    <3>2. Alike(Put(c.writer, ScalarText(n)), Put(x.writer, ScalarText(n)))
      BY <1>1, <1>5, AlikePut DEF AlikeAt
    <3> QED BY <1>8, <3>1, <3>2, AlikeTo
  <2> QED BY <1>8, <2>1, <2>2, <2>3, <2>4, ToFields DEF TurnDone
<1>9. CASE /\ TypeOf(n) \in Container /\ HasChild(n)
           /\ e = To(Expected(n), n, c.status, PutNewLine(Indent(Put(c.writer, Opening(n)))))
  <2>1. PICK w : w = PutNewLine(Indent(Put(c.writer, Opening(n))))
    OBVIOUS
  <2>2. Continues(c.writer, w) /\ w \in Writer /\ w.indention = c.writer.indention + TabSize
    BY <1>1, <1>5, <2>1, OpenedFacts DEF Continues
  <2>3. Inside(n) = 1 /\ n \in Live /\ d[n] \in Nat /\ c.writer.indention \in Nat
        /\ c.writer.indention >= TabSize * d[n]
    BY <1>1, <1>3, <1>9, WriterFields DEF Inside
  <2>4. w.indention >= TabSize * (d[n] + (IF first_child[n] # NIL THEN Inside(n) ELSE 0))
    BY <1>3, <1>9, <2>2, <2>3 DEF TabSize
  <2>5. WellIndented(d, e)
    BY <1>5, <1>9, <2>1, <2>2, <2>3, <2>4, IndentedNext
  <2>6. \A x, y : AlikeAt(c, x) /\ x.writer \in Writer /\ ValueTurn(x, y) => AlikeAt(e, y)
    <3> SUFFICES ASSUME NEW x, NEW y, AlikeAt(c, x), x.writer \in Writer, ValueTurn(x, y)
                 PROVE  AlikeAt(e, y)
      OBVIOUS
    <3>1. y = To(Expected(n), n, c.status, PutNewLine(Indent(Put(x.writer, Opening(n)))))
      BY <1>4, <1>6, <1>9
    <3>2. Alike(PutNewLine(Indent(Put(c.writer, Opening(n)))),
                PutNewLine(Indent(Put(x.writer, Opening(n)))))
      BY <1>1, <1>5, OpenedAlike DEF AlikeAt
    <3> QED BY <1>9, <3>1, <3>2, AlikeTo
  <2> QED BY <1>9, <2>1, <2>2, <2>5, <2>6, ToFields DEF TurnDone
<1>10. CASE /\ TypeOf(n) \in Container /\ ~HasChild(n)
            /\ e = To("HAVE_VALUE", n, c.status, Put(Put(c.writer, Opening(n)), Closing(n)))
  <2>1. PICK w : w = Put(Put(c.writer, Opening(n)), Closing(n))
    OBVIOUS
  <2>2. Continues(c.writer, w) /\ w \in Writer /\ w.indention = c.writer.indention
    BY <1>1, <1>5, <2>1, TwoPutFacts DEF Continues
  <2>3. WellIndented(d, e)
    BY <1>1, <1>3, <1>10, <2>1, <2>2, IndentedValue
  <2>4. \A x, y : AlikeAt(c, x) /\ x.writer \in Writer /\ ValueTurn(x, y) => AlikeAt(e, y)
    <3> SUFFICES ASSUME NEW x, NEW y, AlikeAt(c, x), x.writer \in Writer, ValueTurn(x, y)
                 PROVE  AlikeAt(e, y)
      OBVIOUS
    <3>1. y = To("HAVE_VALUE", n, c.status, Put(Put(x.writer, Opening(n)), Closing(n)))
      BY <1>4, <1>6, <1>10
    <3>2. Alike(Put(Put(c.writer, Opening(n)), Closing(n)),
                Put(Put(x.writer, Opening(n)), Closing(n)))
      BY <1>1, <1>5, TwoPutFacts DEF AlikeAt
    <3> QED BY <1>10, <3>1, <3>2, AlikeTo
  <2> QED BY <1>10, <2>1, <2>2, <2>3, <2>4, ToFields DEF TurnDone
<1>11. CASE TypeOf(n) \in {"KEY", "UNKNOWN"} /\ e = Lost(c, n)
  <2>1. PICK s \in States : s = IF n = NIL THEN "END" ELSE c.state
    BY <1>1 DEF States
  <2>2. e = To(s, n, "UNEXPECTED_ELEMENT", c.writer)
    BY <1>11, <2>1 DEF Lost
  <2>3. WellIndented(d, e)
    BY <1>1, <2>2, IndentedEnd
  <2>4. \A x, y : AlikeAt(c, x) /\ x.writer \in Writer /\ ValueTurn(x, y) => AlikeAt(e, y)
    <3> SUFFICES ASSUME NEW x, NEW y, AlikeAt(c, x), x.writer \in Writer, ValueTurn(x, y)
                 PROVE  AlikeAt(e, y)
      OBVIOUS
    <3>1. y = Lost(x, n)
      BY <1>4, <1>6, <1>11
    <3>2. y = To(s, n, "UNEXPECTED_ELEMENT", x.writer)
      BY <2>1, <3>1 DEF AlikeAt, Lost
    <3> QED BY <2>2, <3>2, AlikeTo DEF AlikeAt
  <2> QED BY <1>2, <2>2, <2>3, <2>4, ToFields DEF TurnDone
<1> QED BY <1>7, <1>8, <1>9, <1>10, <1>11

LEMMA EndTurnFacts ==
  ASSUME LoadedTree, NEW d, IsDepth(d), NEW c, WellIndented(d, c), c.pc = "render",
         NEW e, EndTurn(c, e)
  PROVE  /\ TurnDone(d, c, e)
         /\ \A x, y : AlikeAt(c, x) /\ x.writer \in Writer /\ EndTurn(x, y) => AlikeAt(e, y)
<1>1. PICK n, stop, w : n = c.iter /\ stop = StopOf(n) /\ w = CloseUpTo(c.writer, stop, n)
  OBVIOUS
<1>2. /\ n \in Live /\ first_child[n] = NIL /\ c.writer \in Writer /\ NIL \notin Live
      /\ c.writer.indention >= TabSize * d[n]
  BY <1>1, LoadedFacts DEF WellIndented, EndTurn
<1>3. /\ stop = NIL \/ stop = n \/ \E k \in 1 .. Capacity : Ancestors(n)[k] = stop
      /\ stop # NIL => stop \in Live /\ NextElement(n) = sibling[stop] /\ sibling[stop] \in Live
  BY <1>1, <1>2, StopFacts
<1>4. /\ Continues(c.writer, w) /\ w \in Writer
      /\ stop # NIL => w.indention >= TabSize * d[stop]
  BY <1>1, <1>2, <1>3, CloseUpToFacts DEF Continues
<1>5. \A x : AlikeAt(c, x) /\ x.writer \in Writer => Alike(w, CloseUpTo(x.writer, stop, n))
  BY <1>1, <1>2, <1>3, CloseUpToAlike DEF AlikeAt
<1>6. \A x : AlikeAt(c, x) /\ x.writer \in Writer => CloseUpTo(x.writer, stop, n) \in Writer
  BY <1>2, <1>3, CloseUpToFacts DEF AlikeAt, Alike, Continues
<1>7. \A x, y : AlikeAt(c, x) /\ EndTurn(x, y) =>
        \/ stop = NIL /\ y = To("END", n, c.status, CloseUpTo(x.writer, stop, n))
        \/ /\ stop # NIL
           /\ y = To(IF TypeOf(parent[stop]) = "ARRAY" THEN "EXPECT_VALUE" ELSE "EXPECT_KEY",
                     n, c.status, PutNewLine(Put(CloseUpTo(x.writer, stop, n), ",")))
  BY <1>1, Zenon DEF EndTurn, AlikeAt
<1>8. \/ stop = NIL /\ e = To("END", n, c.status, w)
      \/ /\ stop # NIL
         /\ e = To(IF TypeOf(parent[stop]) = "ARRAY" THEN "EXPECT_VALUE" ELSE "EXPECT_KEY",
                   n, c.status, PutNewLine(Put(w, ",")))
  BY <1>1, Zenon DEF EndTurn
<1>9. CASE stop = NIL
  <2>1. e = To("END", n, c.status, w)
    BY <1>8, <1>9
  <2>2. WellIndented(d, e)
    BY <1>2, <1>4, <2>1, IndentedEnd DEF States
  <2>3. \A x, y : AlikeAt(c, x) /\ x.writer \in Writer /\ EndTurn(x, y) => AlikeAt(e, y)
    BY <1>5, <1>7, <1>9, <2>1, AlikeTo
  <2> QED BY <1>4, <2>1, <2>2, <2>3, ToFields DEF TurnDone
<1>10. CASE stop # NIL
  <2>1. PICK comma \in Putable : comma = ","
    BY PutablePunctuation, Zenon
  <2>2. PICK s \in {"EXPECT_KEY", "EXPECT_VALUE"} :
          s = IF TypeOf(parent[stop]) = "ARRAY" THEN "EXPECT_VALUE" ELSE "EXPECT_KEY"
    OBVIOUS
  <2>3. e = To(s, n, c.status, PutNewLine(Put(w, comma)))
    BY <1>8, <1>10, <2>1, <2>2, Zenon
  <2>4. \A x, y : AlikeAt(c, x) /\ EndTurn(x, y) =>
          y = To(s, n, c.status, PutNewLine(Put(CloseUpTo(x.writer, stop, n), comma)))
    BY <1>7, <1>10, <2>1, <2>2, Zenon
  <2>5. PICK v : v = PutNewLine(Put(w, comma))
    OBVIOUS
  <2>6. /\ Continues(w, v) /\ v \in Writer /\ v.indention = w.indention
        /\ \A u \in Writer : Alike(w, u) => Alike(v, PutNewLine(Put(u, comma)))
    <3>1. PICK line \in Putable : line = "newline"
      BY PutablePunctuation, Zenon
    <3>2. \A u : PutNewLine(Put(u, comma)) = Put(Put(u, comma), line)
      BY <3>1, Zenon DEF PutNewLine
    <3>3. v = Put(Put(w, comma), line)
      BY <2>5, <3>2
    <3>4. /\ Continues(w, v) /\ v.indention = w.indention
          /\ \A u \in Writer : Alike(w, u) => Alike(v, Put(Put(u, comma), line))
      BY <1>4, <3>3, TwoPutFacts
    <3>5. \A u \in Writer : Alike(w, u) => Alike(v, PutNewLine(Put(u, comma)))
      BY <3>2, <3>4
    <3> QED BY <3>4, <3>5 DEF Continues
  <2>7. Continues(c.writer, v)
    BY <1>2, <1>4, <2>6, ContinuesOn
  <2>8. WellIndented(d, e)
    <3>1. NextElement(n) \in Live /\ d[NextElement(n)] = d[stop]
      <4>1. sibling[stop] \in Live /\ NIL \notin Live /\ parent[sibling[stop]] = parent[stop]
        BY <1>2, <1>3, <1>10, LoadedFacts DEF TreeOK, SiblingsOK
      <4> QED BY <1>3, <1>10, <4>1 DEF IsDepth
    <3>2. v.indention >= TabSize * d[NextElement(n)]
      BY <1>4, <1>10, <2>6, <3>1
    <3> QED BY <1>2, <2>3, <2>5, <2>6, <3>2, ToFields DEF WellIndented, States
  <2>9. \A x, y : AlikeAt(c, x) /\ x.writer \in Writer /\ EndTurn(x, y) => AlikeAt(e, y)
    <3> SUFFICES ASSUME NEW x, NEW y, AlikeAt(c, x), x.writer \in Writer, EndTurn(x, y)
                 PROVE  AlikeAt(e, y)
      OBVIOUS
    <3>1. Alike(v, PutNewLine(Put(CloseUpTo(x.writer, stop, n), comma)))
      BY <1>5, <1>6, <2>6
    <3> QED BY <2>3, <2>4, <2>5, <3>1, AlikeTo
  <2> QED BY <2>3, <2>5, <2>7, <2>8, <2>9, ToFields DEF TurnDone
<1> QED BY <1>9, <1>10

LEMMA FollowsFacts ==
  ASSUME LoadedTree, NEW d, IsDepth(d), NEW c, WellIndented(d, c), c.pc = "render",
         NEW e, Follows(c, e)
  PROVE  /\ WellIndented(d, e) /\ Continues(c.writer, e.writer)
         /\ \A x, y : AlikeAt(c, x) /\ x.writer \in Writer /\ Follows(x, y) => AlikeAt(e, y)
<1>1. CASE KeyTurn(c, e)
  <2>1. \A x, y : AlikeAt(c, x) /\ Follows(x, y) => KeyTurn(x, y)
    BY <1>1 DEF KeyTurn, ValueTurn, EndTurn, AlikeAt, Follows
  <2> QED BY <1>1, <2>1, KeyTurnFacts DEF TurnDone
<1>2. CASE ValueTurn(c, e)
  <2>1. \A x, y : AlikeAt(c, x) /\ Follows(x, y) => ValueTurn(x, y)
    BY <1>2 DEF KeyTurn, ValueTurn, EndTurn, AlikeAt, Follows
  <2> QED BY <1>2, <2>1, ValueTurnFacts DEF TurnDone
<1>3. CASE EndTurn(c, e)
  <2>1. c.state = "HAVE_VALUE"
    BY <1>3, Zenon DEF EndTurn
  <2>2. \A x, y : AlikeAt(c, x) /\ Follows(x, y) => EndTurn(x, y)
    BY <2>1 DEF KeyTurn, ValueTurn, AlikeAt, Follows
  <2> QED BY <1>3, <2>2, EndTurnFacts DEF TurnDone
<1> QED BY <1>1, <1>2, <1>3 DEF Follows

----------------------------------------------------------------------------
(* A pass is a sequence of turns, and the second follows the first.         *)

LEMMA WalkKept ==
  ASSUME LoadedTree, Keep, NEW n
  PROVE  /\ NextElement(n)' = NextElement(n) /\ StopOf(n)' = StopOf(n)
         /\ \A w, s : CloseUpTo(w, s, n)' = CloseUpTo(w, s, n)
<1>1. /\ type' = type /\ parent' = parent /\ sibling' = sibling
      /\ first_child' = first_child /\ root' = root
  BY KeepLemma
<1>2. Ancestors(n)' = Ancestors(n)
  BY <1>1 DEF Ancestors
<1>3. TurningPoint(n)' = TurningPoint(n)
  BY <1>1, <1>2 DEF TurningPoint
<1>4. \A w, s : CloseUpTo(w, s, n)' = CloseUpTo(w, s, n)
  BY <1>1, <1>2 DEF CloseUpTo, TypeOf
<1>5. NextElement(n)' = NextElement(n)
  BY <1>1, <1>3 DEF NextElement, BehindBranch
<1>6. StopOf(n)' = StopOf(n)
  BY <1>1, <1>3 DEF StopOf
<1> QED BY <1>4, <1>5, <1>6

LEMMA FollowsKept ==
  ASSUME LoadedTree, Keep, NEW c, NEW e
  PROVE  Follows(c, e)' <=> Follows(c, e)
<1>1. PICK n, s, w : n = NextElement(c.iter) /\ s = StopOf(c.iter) /\ w = CloseUpTo(c.writer, s, c.iter)
  OBVIOUS
<1>2. n = NextElement(c.iter)' /\ s = StopOf(c.iter)' /\ w = CloseUpTo(c.writer, s, c.iter)'
  BY <1>1, WalkKept
<1>3. type' = type /\ key' = key /\ parent' = parent /\ first_child' = first_child
  BY KeepLemma
<1>4. KeyTurn(c, e)' <=> KeyTurn(c, e)
  BY <1>1, <1>2, <1>3 DEF KeyTurn, TypeOf
<1>5. ValueTurn(c, e)' <=> ValueTurn(c, e)
  BY <1>1, <1>2, <1>3 DEF ValueTurn, TypeOf, HasChild, Opening, Closing, Expected
<1>6. EndTurn(c, e)' <=> EndTurn(c, e)
  BY <1>1, <1>2, <1>3 DEF EndTurn, TypeOf
<1> QED BY <1>4, <1>5, <1>6 DEF Follows

LEMMA WellIndentedKept ==
  ASSUME LoadedTree, Keep, NEW d, NEW c
  PROVE  WellIndented(d, c)' <=> WellIndented(d, c)
BY KeepLemma, WalkKept DEF WellIndented

Begins(c) ==
  /\ c.state = "EXPECT_VALUE" /\ c.iter = NIL /\ c.status = "NO_ERROR" /\ c.pc = "render"
  /\ c.writer \in Writer /\ c.writer.pass = "evaluate" /\ c.writer.length = 0
  /\ c.writer.indention = 0 /\ c.writer.written = 0

(* The first pass, from its start s[1] to s[m].                             *)
Passes(d, s, m) ==
  /\ m \in Nat /\ 1 <= m
  /\ Begins(s[1]) /\ Continues(s[1].writer, s[m].writer)
  /\ \A i \in 1 .. m : /\ WellIndented(d, s[i]) /\ s[i].writer.pass = "evaluate"
                       /\ s[i].writer.length <= s[m].writer.length
  /\ \A i \in 1 .. m : i # m => s[i].pc = "render" /\ Follows(s[i], s[i + 1])

LEMMA PassesKept ==
  ASSUME LoadedTree, Keep, NEW d, NEW s, NEW m
  PROVE  /\ Passes(d, s, m)' <=> Passes(d, s, m)
         /\ IsDepth(d) => IsDepth(d)'
<1>1. \A i : WellIndented(d, s[i])' <=> WellIndented(d, s[i])
  BY WellIndentedKept
<1>2. \A i : Follows(s[i], s[i + 1])' <=> Follows(s[i], s[i + 1])
  BY FollowsKept
<1>3. IsDepth(d) => IsDepth(d)'
  BY DepthKept, KeepLemma
<1> QED BY <1>1, <1>2, <1>3 DEF Passes

LEMMA PassBegins ==
  ASSUME LoadedTree, NEW d, IsDepth(d), NEW c, Begins(c)
  PROVE  \E s : Passes(d, s, 1) /\ s[1] = c
<1> DEFINE s == [i \in 1 .. 1 |-> c]
<1>1. s[1] = c /\ 1 .. 1 = {1}
  OBVIOUS
<1>2. NextElement(NIL) = root /\ root \in Live \cup {NIL} /\ NIL \notin Live
  BY LoadedFacts DEF NextElement, LoadedTree
<1>3. root # NIL => d[root] = 0
  BY <1>2, LoadedFacts DEF IsDepth
<1>4. WellIndented(d, c)
  BY <1>2, <1>3 DEF Begins, WellIndented, TabSize, States
<1>5. Continues(c.writer, c.writer)
  BY WriterFields DEF Begins, Continues
<1> HIDE DEF s
<1> QED BY <1>1, <1>4, <1>5 DEF Passes, Begins

LEMMA PassGoesOn ==
  ASSUME LoadedTree, NEW d, IsDepth(d), NEW s, NEW m, Passes(d, s, m), s[m].pc = "render",
         NEW e, Follows(s[m], e)
  PROVE  \E t : Passes(d, t, m + 1) /\ t[m + 1] = e
<1> DEFINE t == [i \in 1 .. m + 1 |-> IF i = m + 1 THEN e ELSE s[i]]
<1>1. m \in Nat /\ 1 <= m /\ m \in 1 .. m /\ 1 \in 1 .. m
  BY DEF Passes
<1>2. /\ t[m + 1] = e /\ \A i \in 1 .. m : t[i] = s[i]
      /\ \A i \in 1 .. m + 1 : i = m + 1 \/ i \in 1 .. m
      /\ \A i \in 1 .. m : i # m => i + 1 \in 1 .. m
  BY <1>1
<1> HIDE DEF t
<1>3. WellIndented(d, e) /\ Continues(s[m].writer, e.writer)
  BY <1>1, FollowsFacts DEF Passes
<1>4. e.writer.pass = "evaluate" /\ s[m].writer.length <= e.writer.length /\ e.writer \in Writer
  BY <1>1, <1>3 DEF Passes, Continues
<1>5. Continues(s[1].writer, e.writer)
  BY <1>3, ContinuesOn DEF Passes, Begins
<1>6. \A i \in 1 .. m : s[i].writer.length <= e.writer.length
  <2> TAKE i \in 1 .. m
  <2>1. s[i].writer.length \in Nat /\ s[m].writer.length \in Nat /\ e.writer.length \in Nat
    BY <1>1, <1>4, WriterFields DEF Passes, WellIndented
  <2>2. s[i].writer.length <= s[m].writer.length
    BY DEF Passes
  <2> QED BY <1>4, <2>1, <2>2
<1>7. e.writer.length <= e.writer.length
  BY <1>4, WriterFields
<1>8. \A i \in 1 .. m + 1 : /\ WellIndented(d, t[i]) /\ t[i].writer.pass = "evaluate"
                            /\ t[i].writer.length <= t[m + 1].writer.length
  BY <1>2, <1>3, <1>4, <1>6, <1>7 DEF Passes
<1>9. \A i \in 1 .. m + 1 : i # m + 1 => t[i].pc = "render" /\ Follows(t[i], t[i + 1])
  <2> SUFFICES ASSUME NEW i \in 1 .. m PROVE t[i].pc = "render" /\ Follows(t[i], t[i + 1])
    BY <1>2
  <2>1. CASE i = m
    BY <1>1, <1>2, <2>1
  <2>2. CASE i # m
    BY <1>2, <2>2 DEF Passes
  <2> QED BY <2>1, <2>2
<1>10. Begins(t[1]) /\ Continues(t[1].writer, t[m + 1].writer)
  BY <1>1, <1>2, <1>5 DEF Passes
<1>11. m + 1 \in Nat /\ 1 <= m + 1
  BY <1>1
<1> QED BY <1>2, <1>8, <1>9, <1>10, <1>11 DEF Passes

(* A second pass comes where the first one came, and not beyond.            *)
LEMMA PassFollowed ==
  ASSUME LoadedTree, NEW d, IsDepth(d), NEW s, NEW m, Passes(d, s, m), s[m].pc # "render",
         NEW i \in 1 .. m, NEW x, AlikeAt(s[i], x), x.writer \in Writer, x.pc = "render",
         NEW y, Follows(x, y)
  PROVE  /\ \E j \in 1 .. m : AlikeAt(s[j], y)
         /\ Continues(x.writer, y.writer)
<1>1. m \in Nat /\ i # m /\ s[i].pc = "render" /\ WellIndented(d, s[i]) /\ Follows(s[i], s[i + 1])
  BY DEF Passes, AlikeAt
<1>2. i + 1 \in 1 .. m
  BY <1>1
<1>3. AlikeAt(s[i + 1], y)
  BY <1>1, FollowsFacts
<1>4. WellIndented(d, x)
  BY <1>1 DEF WellIndented, AlikeAt, Alike
<1>5. Continues(x.writer, y.writer)
  BY <1>4, FollowsFacts
<1> QED BY <1>2, <1>3, <1>5

----------------------------------------------------------------------------
(* The invariant of sessions.                                               *)

SessionStatus == Status \cup Complaint \cup {"BUFFER_TOO_SMALL"}

Measuring == \E d, s, m : IsDepth(d) /\ Passes(d, s, m) /\ s[m] = Here

Writing ==
  \E d, s, m : /\ IsDepth(d) /\ Passes(d, s, m) /\ s[m].pc # "render"
               /\ \E i \in 1 .. m : AlikeAt(s[i], Here)
               /\ writer.length = s[m].writer.length + 1 /\ writer.length <= writer.size

PassInv ==
  /\ HasDepth /\ writer \in Writer
  /\ pc \in {"idle", "parse", "aborted", "render", "pass_end"} /\ status \in SessionStatus
  /\ pc \in {"render", "pass_end"} => Measuring \/ Writing

LEMMA DepthStays ==
  ASSUME LoadedTree, HasDepth, Keep
  PROVE  HasDepth'
BY DepthKept, KeepLemma DEF HasDepth

LEMMA ReadPass ==
  ASSUME LoadInv, PassInv, NEW t, Read(t)
  PROVE  HasDepth' /\ pc' \in {"parse", "idle", "aborted"} /\ status' \in SessionStatus
<1>1. /\ pc = "parse" /\ LoadedTree /\ HasDepth /\ status \in SessionStatus
      /\ EndsLoad \/ MovesOn \/ AddsValue \/ AddsKey
  BY ReadKind DEF LoadInv, PassInv
<1>2. TreeShape /\ NodesOK
  BY <1>1, LoadedFacts
<1>3. ASSUME NEW k, NEW name, Place(iter, LastChild(iter)), InsertNode(iter, LastChild(iter), k, name),
             iter \in Live \cup {NIL}
      PROVE  HasDepth'
  <2>1. /\ NextNode \notin Live /\ Live' = Live \cup {NextNode} /\ parent'[NextNode] = iter
        /\ \A m \in Live : type'[m] = type[m] /\ parent'[m] = parent[m]
    BY <1>2, <1>3, InsertFacts
  <2>2. PICK n : n = NextNode
    OBVIOUS
  <2> QED BY <1>1, <1>3, <2>1, <2>2, DepthGrows
<1>4. CASE EndsLoad \/ MovesOn
  BY <1>1, <1>4, DepthStays DEF EndsLoad, MovesOn, SessionStatus
<1>5. CASE AddsValue
  <2>1. ValuePlace(iter) /\ \E k, s : AppendValue(k, s)
    BY <1>5 DEF AddsValue
  <2>2. iter \in Live \cup {NIL} /\ Place(iter, LastChild(iter))
    <3>1. iter = NIL => LastChild(iter) = NIL
      BY DEF LastChild
    <3> QED BY <1>1, <1>2, <2>1, <3>1, PlaceLast, LoadedFacts DEF ValuePlace, Place
  <2>3. \/ UNCHANGED treeVars /\ pc' = "idle" /\ status' = "OUT_OF_MEMORY" /\ UNCHANGED tableVars
        \/ /\ \E k : InsertNode(iter, LastChild(iter), k, NIL)
           /\ UNCHANGED <<status, pc>>
    BY <2>1 DEF AppendValue
  <2> QED BY <1>1, <1>3, <2>2, <2>3, DepthStays DEF Keep, SessionStatus, Status
<1>6. CASE AddsKey
  <2>1. /\ iter \in Live /\ type[iter] = "OBJECT" /\ \E k : AppendKey(k)
    BY <1>6 DEF AddsKey
  <2>2. PICK k : AppendKey(k)
    BY <2>1
  <2>3. Place(iter, LastChild(iter))
    BY <1>1, <1>2, <2>1, PlaceLast, LoadedFacts
  <2>4. \/ Stop("DUPLICATE_KEY") /\ Keep
        \/ Stop("OUT_OF_MEMORY") /\ Keep
        \/ /\ InsertNode(iter, LastChild(iter), "KEY", k)
           /\ \/ StopIn("EXPECT_COLON", Table!AddStatus(<<iter, k>>))
              \/ GoOn("EXPECT_COLON", NextNode)
    BY <2>2 DEF AppendKey
  <2>5. \A h : Table!AddStatus(h) \in Status
    BY DEF Table!AddStatus, Status
  <2> QED BY <1>1, <1>3, <2>1, <2>3, <2>4, <2>5, DepthStays DEF Stop, StopIn, GoOn, SessionStatus, Status
<1> QED BY <1>1, <1>4, <1>5, <1>6

LEMMA FollowsStatus ==
  ASSUME NEW c, NEW e, Follows(c, e)
  PROVE  e.status \in {c.status, "UNEXPECTED_ELEMENT"} /\ e.pc \in {"render", "pass_end"}
<1>1. \E s, n, w : \E st \in {c.status, "UNEXPECTED_ELEMENT"} : e = To(s, n, st, w)
  <2>1. CASE KeyTurn(c, e)
    BY <2>1 DEF KeyTurn, Lost
  <2>2. CASE ValueTurn(c, e)
    BY <2>2 DEF ValueTurn, Lost
  <2>3. CASE EndTurn(c, e)
    BY <2>3, Zenon DEF EndTurn
  <2> QED BY <2>1, <2>2, <2>3 DEF Follows
<1> QED BY <1>1, ToFields

LEMMA TurnPass ==
  ASSUME LoadInv, PassInv, VisitKey \/ VisitValue \/ AfterValue
  PROVE  PassInv'
<1>1. /\ LoadedTree /\ HasDepth /\ writer \in Writer /\ status \in SessionStatus
      /\ Follows(Here, Here') /\ Keep /\ pc = "render" /\ (Measuring \/ Writing)
  BY TurnsFollow DEF LoadInv, PassInv
<1>2. PICK c, e : c = Here /\ e = Here'
  OBVIOUS
<1>3. /\ c.writer = writer /\ c.status = status /\ c.pc = "render"
      /\ e.writer = writer' /\ e.status = status' /\ e.pc = pc'
  BY <1>1, <1>2 DEF Here
<1>4. HasDepth' /\ status' \in SessionStatus /\ pc' \in {"render", "pass_end"} /\ Follows(c, e)
  BY <1>1, <1>2, <1>3, DepthStays, FollowsStatus DEF SessionStatus, Status
<1>5. CASE Measuring
  <2>1. PICK d, s, m : IsDepth(d) /\ Passes(d, s, m) /\ s[m] = c
    BY <1>2, <1>5 DEF Measuring
  <2>2. PICK t : Passes(d, t, m + 1) /\ t[m + 1] = e
    BY <1>1, <1>3, <1>4, <2>1, PassGoesOn
  <2>3. m + 1 \in Nat /\ 1 <= m + 1
    BY <2>2 DEF Passes
  <2>4. e.writer \in Writer
    BY <2>2, <2>3 DEF Passes, WellIndented
  <2>5. Passes(d, t, m + 1)' /\ IsDepth(d)'
    BY <1>1, <2>1, <2>2, PassesKept
  <2>6. Measuring'
    BY <1>2, <2>2, <2>5 DEF Measuring
  <2> QED BY <1>3, <1>4, <2>4, <2>6 DEF PassInv
<1>6. CASE Writing
  <2>1. PICK d, s, m, i : /\ IsDepth(d) /\ Passes(d, s, m) /\ s[m].pc # "render"
                          /\ i \in 1 .. m /\ AlikeAt(s[i], c)
                          /\ writer.length = s[m].writer.length + 1 /\ writer.length <= writer.size
    BY <1>2, <1>6 DEF Writing
  <2>2. Continues(c.writer, e.writer) /\ \E j \in 1 .. m : AlikeAt(s[j], e)
    BY <1>1, <1>3, <1>4, <2>1, PassFollowed
  <2>3. writer' \in Writer /\ writer'.length = writer.length /\ writer'.size = writer.size
    BY <1>3, <2>1, <2>2 DEF Continues, AlikeAt, Alike
  <2>4. Passes(d, s, m)' /\ IsDepth(d)'
    BY <1>1, <2>1, PassesKept
  <2>5. \E j \in 1 .. m : AlikeAt(s[j], Here')
    BY <1>2, <2>2
  <2>6. Writing'
    BY <2>1, <2>3, <2>4, <2>5 DEF Writing
  <2> QED BY <1>4, <2>3, <2>6 DEF PassInv
<1> QED BY <1>1, <1>5, <1>6

LEMMA WriterSets ==
  ASSUME NEW w \in Writer
  PROVE  /\ \A r \in Nat : [w EXCEPT !.result = r] \in Writer
         /\ \A l \in Nat : LET v == [w EXCEPT !.length = l] IN
              /\ v \in Writer /\ v.length = l /\ v.written = w.written
              /\ v.compact = w.compact
         /\ \A l \in Nat : [w EXCEPT !.size = l] \in Writer
         /\ \A l \in Nat : [w EXCEPT !.written = l] \in Writer
         /\ \A l \in Nat : LET v == [w EXCEPT !.size = l, !.pass = "write", !.indention = 0] IN
              /\ v \in Writer /\ v.size = l /\ v.pass = "write" /\ v.indention = 0
              /\ v.length = w.length /\ v.written = w.written /\ v.compact = w.compact
BY Zenon DEF Writer

LEMMA StartWriter ==
  /\ NoWriter \in Writer
  /\ \A job \in {"render", "evaluate"}, compact \in BOOLEAN :
       LET v == [NoWriter EXCEPT !.job = job, !.compact = compact] IN
         /\ v \in Writer /\ v.pass = "evaluate" /\ v.length = 0 /\ v.indention = 0 /\ v.written = 0
<1>1. <<>> \in Seq(Token) /\ 0 \in Nat
  OBVIOUS
<1> QED BY <1>1, Zenon DEF Writer, NoWriter

LEMMA StartPass ==
  ASSUME LoadInv, PassInv, NEW job \in {"render", "evaluate"}, NEW compact \in BOOLEAN,
         Start(job, compact)
  PROVE  PassInv'
<1>1. LoadedTree /\ HasDepth /\ status \in SessionStatus /\ Keep /\ pc = "idle"
  BY DEF LoadInv, PassInv, Start
<1>2. HasDepth'
  BY <1>1, DepthStays
<1>3. CASE root = NIL /\ writer' = NoWriter /\ UNCHANGED <<pc, status, state, iter>>
  BY <1>1, <1>2, <1>3, StartWriter DEF PassInv
<1>4. CASE /\ writer' = [NoWriter EXCEPT !.job = job, !.compact = compact]
           /\ pc' = "render" /\ status' = "NO_ERROR" /\ state' = "EXPECT_VALUE" /\ iter' = NIL
  <2>1. PICK c, d : c = Here' /\ IsDepth(d)
    BY <1>1 DEF HasDepth
  <2>2. /\ c.state = state' /\ c.iter = iter' /\ c.status = status' /\ c.pc = pc'
        /\ c.writer = writer'
    BY <2>1 DEF Here
  <2>3. /\ writer' \in Writer /\ writer'.pass = "evaluate" /\ writer'.length = 0
        /\ writer'.indention = 0 /\ writer'.written = 0
    BY <1>4, StartWriter, Zenon
  <2>4. Begins(c)
    BY <1>4, <2>2, <2>3 DEF Begins
  <2>5. PICK s : Passes(d, s, 1) /\ s[1] = c
    BY <1>1, <2>1, <2>4, PassBegins
  <2>6. Passes(d, s, 1)' /\ IsDepth(d)'
    BY <1>1, <2>1, <2>5, PassesKept
  <2>7. Measuring'
    BY <2>1, <2>5, <2>6 DEF Measuring
  <2> QED BY <1>2, <1>4, <2>3, <2>7 DEF PassInv, SessionStatus, Status
<1> QED BY <1>3, <1>4 DEF Start

LEMMA DonePass ==
  ASSUME LoadInv, PassInv, NEW w \in Writer, NEW st \in SessionStatus, Done(w, st)
  PROVE  PassInv'
<1>1. Keep /\ pc' = "idle" /\ status' = st
      /\ writer' = [w EXCEPT !.result = IF st = "NO_ERROR" THEN w.length ELSE 0]
  BY DEF Done
<1>2. PICK r \in Nat : r = IF st = "NO_ERROR" THEN w.length ELSE 0
  BY WriterFields
<1>3. writer' \in Writer
  BY <1>1, <1>2, WriterSets, Zenon
<1>4. HasDepth'
  BY <1>1, DepthStays DEF LoadInv, PassInv
<1> QED BY <1>1, <1>3, <1>4 DEF PassInv

LEMMA EvaluatedFields ==
  ASSUME writer \in Writer
  PROVE  /\ Evaluated \in Writer /\ Evaluated.length = writer.length + 1
         /\ Evaluated.written = writer.written /\ Evaluated.compact = writer.compact
<1>1. PICK l \in Nat : l = writer.length + 1
  BY WriterFields
<1>2. Evaluated = [writer EXCEPT !.length = writer.length + 1]
  BY Zenon DEF Evaluated
<1>3. Evaluated = [writer EXCEPT !.length = l]
  BY <1>1, <1>2, Zenon
<1> QED BY <1>1, <1>3, WriterSets, Zenon

(* The buffer is large enough: the second pass is where the first began.    *)
LEMMA SecondPassBegins ==
  ASSUME LoadInv, PassInv, pc = "pass_end", writer.pass = "evaluate",
         NEW size \in Nat, size >= Evaluated.length, status = "NO_ERROR",
         writer' = [Evaluated EXCEPT !.size = size, !.pass = "write", !.indention = 0],
         pc' = "render", state' = "EXPECT_VALUE", iter' = NIL, status' = status, Keep
  PROVE  PassInv'
<1>1. LoadedTree /\ HasDepth /\ writer \in Writer /\ status \in SessionStatus
  BY DEF LoadInv, PassInv
<1>2. ~Writing
  BY DEF Writing, AlikeAt, Alike, Here
<1>3. PICK d, s, m : IsDepth(d) /\ Passes(d, s, m) /\ s[m] = Here
  BY <1>2 DEF PassInv, Measuring
<1>4. /\ Begins(s[1]) /\ Continues(s[1].writer, writer) /\ 1 \in 1 .. m
      /\ s[m].pc # "render" /\ s[m].writer = writer
  BY <1>3 DEF Passes, Here
<1>5. /\ Evaluated \in Writer /\ Evaluated.length = writer.length + 1
      /\ Evaluated.written = writer.written /\ Evaluated.compact = writer.compact
  BY <1>1, EvaluatedFields
<1>6. /\ writer' \in Writer /\ writer'.size = size /\ writer'.pass = "write"
      /\ writer'.indention = 0 /\ writer'.length = Evaluated.length
      /\ writer'.written = Evaluated.written /\ writer'.compact = Evaluated.compact
  BY <1>5, WriterSets, Zenon
<1>7. Alike(s[1].writer, writer')
  BY <1>4, <1>5, <1>6 DEF Begins, Continues, Alike
<1>8. PICK e : e = Here'
  OBVIOUS
<1>9. /\ e.state = state' /\ e.iter = iter' /\ e.status = status' /\ e.pc = pc'
      /\ e.writer = writer'
  BY <1>8 DEF Here
<1>10. AlikeAt(s[1], e)
  BY <1>4, <1>7, <1>9 DEF Begins, AlikeAt
<1>11. \E i \in 1 .. m : AlikeAt(s[i], Here')
  BY <1>4, <1>8, <1>10
<1>12. Passes(d, s, m)' /\ IsDepth(d)'
  BY <1>1, <1>3, PassesKept
<1>13. Writing'
  BY <1>4, <1>5, <1>6, <1>11, <1>12 DEF Writing
<1>14. HasDepth'
  BY <1>1, DepthStays
<1> QED BY <1>1, <1>6, <1>13, <1>14 DEF PassInv

LEMMA PassEnds ==
  ASSUME LoadInv, PassInv, EvaluateDone \/ FirstPassDone \/ SecondPassDone
  PROVE  PassInv'
<1>1. /\ writer \in Writer /\ status \in SessionStatus /\ writer.written \in Nat
      /\ "BUFFER_TOO_SMALL" \in SessionStatus
  BY WriterFields DEF PassInv, SessionStatus
<1>2. Evaluated \in Writer /\ Evaluated.length = writer.length + 1 /\ writer.length \in Nat
  BY <1>1, EvaluatedFields, WriterFields
<1>3. CASE EvaluateDone
  BY <1>1, <1>2, <1>3, DonePass DEF EvaluateDone
<1>4. CASE FirstPassDone
  <2>1. /\ pc = "pass_end" /\ writer.pass = "evaluate"
        /\ \E size \in {Evaluated.length, Evaluated.length - 1} :
             \/ \E st \in {"BUFFER_TOO_SMALL", status} : Done([Evaluated EXCEPT !.size = size], st)
             \/ /\ size >= Evaluated.length /\ status = "NO_ERROR"
                /\ writer' = [Evaluated EXCEPT !.size = size, !.pass = "write", !.indention = 0]
                /\ pc' = "render" /\ state' = "EXPECT_VALUE" /\ iter' = NIL
                /\ Keep /\ status' = status
    BY <1>4, Zenon DEF FirstPassDone
  <2>2. Evaluated.length - 1 \in Nat /\ Evaluated.length \in Nat
    BY <1>2
  <2>3. PICK size \in Nat :
             \/ \E st \in {"BUFFER_TOO_SMALL", status} : Done([Evaluated EXCEPT !.size = size], st)
             \/ /\ size >= Evaluated.length /\ status = "NO_ERROR"
                /\ writer' = [Evaluated EXCEPT !.size = size, !.pass = "write", !.indention = 0]
                /\ pc' = "render" /\ state' = "EXPECT_VALUE" /\ iter' = NIL
                /\ Keep /\ status' = status
    BY <2>1, <2>2, Zenon
  <2>4. PICK w : w = [Evaluated EXCEPT !.size = size]
    OBVIOUS
  <2>5. w \in Writer
    BY <1>2, <2>4, WriterSets, Zenon
  <2>6. ASSUME NEW st \in {"BUFFER_TOO_SMALL", status}, Done([Evaluated EXCEPT !.size = size], st)
        PROVE  PassInv'
    <3>1. Done(w, st)
      BY <2>4, <2>6, Zenon
    <3> QED BY <1>1, <2>5, <3>1, DonePass
  <2> QED BY <2>1, <2>3, <2>6, SecondPassBegins, Zenon
<1>5. CASE SecondPassDone
  <2>1. PICK l \in Nat : l = writer.written + 1
    BY <1>1
  <2>2. PICK w : w = [writer EXCEPT !.written = l]
    OBVIOUS
  <2>3. w \in Writer
    BY <1>1, <2>2, WriterSets, Zenon
  <2>4. Done(writer, status) \/ Done([writer EXCEPT !.written = writer.written + 1], status)
    BY <1>5, Zenon DEF SecondPassDone
  <2>5. Done(writer, status) \/ Done(w, status)
    BY <2>1, <2>2, <2>4, Zenon
  <2> QED BY <1>1, <2>3, <2>5, DonePass
<1> QED BY <1>3, <1>4, <1>5

LEMMA PassStutters ==
  ASSUME LoadInv, PassInv, UNCHANGED sessionVars
  PROVE  PassInv'
<1>1. /\ Keep /\ state' = state /\ iter' = iter /\ pc' = pc /\ status' = status
      /\ writer' = writer
  BY DEF sessionVars, vars, parserVars, Keep
<1>2. Here' = Here /\ LoadedTree /\ HasDepth
  BY <1>1 DEF Here, LoadInv, PassInv
<1>3. HasDepth'
  BY <1>1, <1>2, DepthStays
<1>4. \A d, s, m : IsDepth(d) /\ Passes(d, s, m) => IsDepth(d)' /\ Passes(d, s, m)'
  BY <1>1, <1>2, PassesKept
<1>5. Measuring => Measuring'
  BY <1>2, <1>4 DEF Measuring
<1>6. Writing => Writing'
  <2> SUFFICES ASSUME Writing PROVE Writing'
    OBVIOUS
  <2>1. PICK d, s, m : /\ IsDepth(d) /\ Passes(d, s, m) /\ s[m].pc # "render"
                       /\ \E i \in 1 .. m : AlikeAt(s[i], Here)
                       /\ writer.length = s[m].writer.length + 1 /\ writer.length <= writer.size
    BY DEF Writing
  <2>2. \E i \in 1 .. m : AlikeAt(s[i], Here')
    BY <1>2, <2>1
  <2>3. IsDepth(d)' /\ Passes(d, s, m)'
    BY <1>4, <2>1
  <2> QED BY <1>1, <2>1, <2>2, <2>3 DEF Writing
<1> QED BY <1>1, <1>3, <1>5, <1>6 DEF PassInv

LEMMA PassInvStep == LoadInv /\ PassInv /\ [SessionNext]_sessionVars => PassInv'
<1> SUFFICES ASSUME LoadInv, PassInv, [SessionNext]_sessionVars
             PROVE  PassInv'
  OBVIOUS
<1>1. CASE Load /\ writer' = NoWriter
  <2>1. Live' = {} /\ pc' = "parse" /\ status' = "NO_ERROR"
    BY <1>1, ResetTreeLemma DEF Load
  <2>2. PICK d : d = [n \in {} |-> 0]
    OBVIOUS
  <2>3. IsDepth(d)'
    BY <2>1, <2>2 DEF IsDepth
  <2> QED BY <1>1, <2>1, <2>3, StartWriter DEF PassInv, HasDepth, SessionStatus, Status
<1>2. ASSUME NEW t, Read(t), UNCHANGED writer
      PROVE  PassInv'
  BY <1>2, ReadPass DEF PassInv
<1>3. CASE RenderStart \/ EvaluateStart
  BY <1>3, StartPass DEF RenderStart, EvaluateStart
<1>4. CASE VisitKey \/ VisitValue \/ AfterValue
  BY <1>4, TurnPass
<1>5. CASE EvaluateDone \/ FirstPassDone \/ SecondPassDone
  BY <1>5, PassEnds
<1>6. CASE GetStat
  BY <1>6, DepthStays DEF GetStat, LoadInv, PassInv
<1>7. CASE UNCHANGED sessionVars
  BY <1>7, PassStutters
<1> QED BY <1>1, <1>2, <1>3, <1>4, <1>5, <1>6, <1>7 DEF SessionNext, RenderStep

LEMMA PassInvariant == SessionSpec => []PassInv
<1>1. SessionInit => PassInv
  <2> SUFFICES ASSUME SessionInit PROVE PassInv
    OBVIOUS
  <2>1. Live = {} /\ pc = "idle" /\ status = "NO_ERROR" /\ writer = NoWriter
    BY InitLemma DEF SessionInit, ParserInit, Init
  <2>2. PICK d : d = [n \in {} |-> 0]
    OBVIOUS
  <2>3. IsDepth(d)
    BY <2>1, <2>2 DEF IsDepth
  <2> QED BY <2>1, <2>3, StartWriter DEF PassInv, HasDepth, SessionStatus, Status
<1> QED BY <1>1, PassInvStep, LoadInvariant, PTL DEF SessionSpec

(***************************************************************************)
(* The parser and the serializer keep their variables in their ranges: the  *)
(* indention, which is unsigned, does not go below zero, however the tree   *)
(* was broken off.                                                          *)
(***************************************************************************)
THEOREM SessionTypes == SessionSpec => []SessionTypeOK
<1>1. ASSUME LoadInv, PassInv
      PROVE  SessionTypeOK
  <2>1. /\ LoadedTree /\ Live \subseteq Node /\ root \in Live \cup {NIL} /\ state \in States
        /\ iter \in Live \cup {NIL} /\ TableOK /\ PoolInv
    BY <1>1, LoadedFacts DEF LoadInv, PlacesOK, LoadedTree
  <2>2. Table!HashTypeOK
    BY <2>1, TableTypesLemma
  <2>3. ParserTypeOK
    BY <2>1, <2>2 DEF ParserTypeOK, PoolInv, Link, States
  <2> QED BY <1>1, <2>3 DEF PassInv, SessionTypeOK, SessionStatus, Complaint, Writer
<1> QED BY <1>1, LoadInvariant, PassInvariant, PTL

(***************************************************************************)
(* The second pass takes the turns of the first, in their order, and writes *)
(* in each what the first had counted in it: it never leaves the buffer,    *)
(* whose size the first pass has asked for, and fills it to the last        *)
(* character.                                                               *)
(***************************************************************************)
THEOREM NothingIsWrittenPastTheBuffer == SessionSpec => []WritesWhatWasMeasured
<1>1. ASSUME PassInv
      PROVE  WritesWhatWasMeasured
  <2> SUFFICES ASSUME writer.pass = "write", pc \in {"render", "pass_end"}
               PROVE  /\ writer.written < writer.size
                      /\ pc = "pass_end" => writer.written + 1 = writer.length
    BY DEF WritesWhatWasMeasured
  <2>1. /\ Here.writer = writer /\ Here.pc = pc /\ writer.size \in Nat
    BY <1>1, Zenon DEF Here, PassInv, Writer
  <2>2. Writing
    <3>1. ~Measuring
      <4> SUFFICES ASSUME Measuring PROVE FALSE
        OBVIOUS
      <4>1. PICK d, s, m : Passes(d, s, m) /\ s[m] = Here
        BY DEF Measuring
      <4>2. m \in 1 .. m
        BY <4>1 DEF Passes
      <4> QED BY <2>1, <4>1, <4>2 DEF Passes
    <3> QED BY <1>1, <3>1 DEF PassInv
  <2>3. PICK d, s, m, i : /\ Passes(d, s, m) /\ s[m].pc # "render"
                          /\ i \in 1 .. m /\ AlikeAt(s[i], Here)
                          /\ writer.length = s[m].writer.length + 1 /\ writer.length <= writer.size
    BY <2>2 DEF Writing
  <2>4. m \in 1 .. m /\ s[i].writer.length \in Nat /\ s[m].writer.length \in Nat
    <3>1. m \in 1 .. m
      BY <2>3 DEF Passes
    <3> QED BY <2>3, <3>1, WriterFields DEF Passes, WellIndented
  <2>5. writer.written = s[i].writer.length /\ pc = s[i].pc
    BY <2>1, <2>3 DEF AlikeAt, Alike
  <2>6. s[i].writer.length <= s[m].writer.length /\ (i # m => s[i].pc = "render")
    BY <2>3 DEF Passes
  <2> QED BY <2>1, <2>3, <2>4, <2>5, <2>6
<1> QED BY <1>1, PassInvariant, PTL

----------------------------------------------------------------------------
(* The walk over the tree.                                                  *)

(* A set of numbers that has 0, and with each the next, has all.            *)
LEMMA SetInduction ==
  ASSUME NEW K \in Nat, NEW S, 0 \in S, \A k \in 0 .. K - 1 : k \in S => k + 1 \in S
  PROVE  0 .. K \subseteq S
<1> DEFINE D == (0 .. K) \ S
<1> SUFFICES ASSUME D # {} PROVE FALSE
  OBVIOUS
<1>1. D \subseteq Nat
  OBVIOUS
<1>2. PICK d \in D : \A e \in D : d <= e
  <2> HIDE DEF D
  <2> QED BY <1>1, LeastLemma
<1>3. d \in 1 .. K /\ d \notin S
  OBVIOUS
<1>4. d - 1 \in 0 .. K - 1 /\ d - 1 \notin D
  BY <1>2, <1>3
<1>5. d - 1 \in S
  BY <1>4
<1> QED BY <1>3, <1>4, <1>5

LEMMA LevelFacts ==
  ASSUME LoadedTree, NEW n \in Live
  PROVE  /\ Capacity \in Nat /\ Level(n, 0) = n
         /\ \A k \in 0 .. Capacity : Level(n, k) \in Live \cup {NIL}
         /\ \A k \in 0 .. Capacity - 1 : Level(n, k + 1) = Above(Level(n, k))
<1>1. Capacity \in Nat
  BY CapacityAssumption
<1>2. ASSUME NEW k \in 0 .. Capacity - 1
      PROVE  Level(n, k + 1) = Above(Level(n, k))
  <2>1. k + 1 \in 1 .. Capacity /\ (k + 1) - 1 = k
    BY <1>1
  <2> QED BY <2>1, LevelsUp
<1> QED BY <1>1, <1>2, LevelsUp DEF Level

(* Above the root there is nothing any more.                                *)
LEMMA LevelNil ==
  ASSUME LoadedTree, NEW n \in Live, NEW i \in 0 .. Capacity, Level(n, i) = NIL,
         NEW j \in i .. Capacity
  PROVE  Level(n, j) = NIL
<1> DEFINE S == {k \in Nat : Level(n, i + k) = NIL}
<1>1. Capacity \in Nat /\ i \in Nat /\ Capacity - i \in Nat
  BY LevelFacts
<1>2. 0 \in S
  BY <1>1
<1>3. ASSUME NEW k \in 0 .. (Capacity - i) - 1, k \in S
      PROVE  k + 1 \in S
  <2>1. i + k \in 0 .. Capacity - 1 /\ i + (k + 1) = (i + k) + 1 /\ k + 1 \in Nat
    BY <1>1
  <2>2. Level(n, (i + k) + 1) = Above(Level(n, i + k))
    BY <2>1, LevelFacts
  <2> QED BY <1>3, <2>1, <2>2 DEF Above
<1>4. 0 .. Capacity - i \subseteq S
  <2> HIDE DEF S
  <2> QED BY <1>1, <1>2, <1>3, SetInduction
<1>5. j - i \in S /\ i + (j - i) = j
  BY <1>1, <1>4
<1> QED BY <1>5

(* A level is that much above its child.                                    *)
LEMMA LevelShift ==
  ASSUME LoadedTree, NEW n \in Live, parent[n] # NIL
  PROVE  /\ parent[n] \in Live
         /\ \A k \in 0 .. Capacity - 1 : Level(n, k + 1) = Level(parent[n], k)
<1>1. parent[n] \in Live /\ NIL \notin Live
  BY LoadedFacts
<1>2. Capacity \in Nat /\ Capacity # 0
  BY CapacityAssumption
<1> DEFINE S == {k \in Nat : Level(n, k + 1) = Level(parent[n], k)}
<1>3. 0 \in S
  <2>1. Level(n, 0 + 1) = Above(Level(n, 0))
    BY <1>2, LevelFacts
  <2> QED BY <1>1, <2>1, LevelFacts DEF Above
<1>4. ASSUME NEW k \in 0 .. (Capacity - 1) - 1, k \in S
      PROVE  k + 1 \in S
  <2>1. k \in 0 .. Capacity - 1 /\ k + 1 \in 0 .. Capacity - 1 /\ k + 1 \in Nat
    BY <1>2
  <2>2. Level(n, (k + 1) + 1) = Above(Level(n, k + 1))
    BY <2>1, LevelFacts
  <2>3. Level(parent[n], k + 1) = Above(Level(parent[n], k))
    BY <1>1, <2>1, LevelFacts
  <2> QED BY <1>4, <2>1, <2>2, <2>3
<1>5. 0 .. Capacity - 1 \subseteq S
  <2> HIDE DEF S
  <2>1. Capacity - 1 \in Nat
    BY <1>2
  <2> QED BY <1>3, <1>4, <2>1, SetInduction
<1> QED BY <1>1, <1>5

LEMMA NodeCount == IsFiniteSet(Node) /\ Cardinality(Node) = Capacity
<1>1. Capacity - 1 \in Int /\ Capacity \in Nat /\ Capacity # 0
  BY CapacityAssumption
<1>2. /\ IsFiniteSet(0 .. Capacity - 1)
      /\ Cardinality(0 .. Capacity - 1) = IF 0 > Capacity - 1 THEN 0 ELSE (Capacity - 1) - 0 + 1
  BY <1>1, FS_Interval
<1> QED BY <1>1, <1>2 DEF Node

(* The tree is no deeper than it has nodes.                                 *)
LEMMA LevelsEnd ==
  ASSUME LoadedTree, NEW n \in Live
  PROVE  Level(n, Capacity) = NIL
<1> SUFFICES ASSUME Level(n, Capacity) # NIL PROVE FALSE
  OBVIOUS
<1>1. /\ Capacity \in Nat /\ Live \subseteq Node /\ NIL \notin Live /\ TreeOK
      /\ IsFiniteSet(Node) /\ Cardinality(Node) = Capacity
  BY NodeCount, CapacityAssumption, LoadedFacts
<1>2. \A k \in 0 .. Capacity : Level(n, k) \in Live
  <2> SUFFICES ASSUME NEW k \in 0 .. Capacity, Level(n, k) = NIL PROVE FALSE
    BY LevelFacts
  <2>1. Capacity \in k .. Capacity
    BY <1>1
  <2> QED BY <2>1, LevelNil
<1> DEFINE f == [k \in 0 .. Capacity |-> Level(n, k)]
<1>3. f \in [0 .. Capacity -> Node]
  BY <1>1, <1>2
<1>4. IsFiniteSet(0 .. Capacity) /\ Cardinality(0 .. Capacity) = Capacity + 1
  BY <1>1, FS_Interval
<1>5. \E x, y \in 0 .. Capacity : x # y /\ f[x] = f[y]
  <2> HIDE DEF f
  <2>1. Cardinality(Node) < Cardinality(0 .. Capacity)
    BY <1>1, <1>4
  <2> QED BY <1>1, <1>3, <1>4, <2>1, FS_PigeonHole
<1>6. PICK i \in 0 .. Capacity, j \in 0 .. Capacity : i < j /\ Level(n, i) = Level(n, j)
  <2>1. PICK x \in 0 .. Capacity, y \in 0 .. Capacity : x # y /\ f[x] = f[y]
    BY <1>5
  <2>2. CASE x < y
    BY <2>1, <2>2
  <2>3. CASE y < x
    BY <2>1, <2>3
  <2> QED BY <1>1, <2>1, <2>2, <2>3
<1> DEFINE S == {Level(n, k) : k \in i .. j - 1}
<1>7. S \in SUBSET Live /\ S # {}
  BY <1>1, <1>2, <1>6
<1>8. PICK m \in S : parent[m] \notin S
  BY <1>1, <1>7 DEF TreeOK, Acyclic
<1>9. PICK k \in i .. j - 1 : m = Level(n, k)
  OBVIOUS
<1>10. k \in 0 .. Capacity - 1 /\ k + 1 \in 0 .. Capacity
  BY <1>1, <1>9
<1>11. Level(n, k + 1) = parent[m]
  BY <1>1, <1>2, <1>9, <1>10, LevelFacts DEF Above
<1>12. CASE k = j - 1
  <2>1. parent[m] = Level(n, i) /\ i \in i .. j - 1
    BY <1>1, <1>6, <1>11, <1>12
  <2> QED BY <1>8, <2>1
<1>13. CASE k # j - 1
  <2>1. k + 1 \in i .. j - 1
    BY <1>1, <1>9, <1>13
  <2> QED BY <1>8, <1>11, <2>1
<1> QED BY <1>12, <1>13

(* Where the way up ends that the walk takes behind an element.             *)
LEMMA StopLevel ==
  ASSUME LoadedTree, NEW n \in Live
  PROVE  /\ StopOf(n) = NIL =>
              \A k \in 0 .. Capacity : Level(n, k) # NIL => sibling[Level(n, k)] = NIL
         /\ StopOf(n) # NIL =>
              \E k \in 0 .. Capacity :
                /\ Level(n, k) = StopOf(n) /\ StopOf(n) \in Live /\ sibling[StopOf(n)] # NIL
                /\ \A j \in 0 .. k - 1 : Level(n, j) \in Live /\ sibling[Level(n, j)] = NIL
<1> DEFINE H == {k \in 1 .. Capacity : Ancestors(n)[k] # NIL /\ sibling[Ancestors(n)[k]] # NIL}
<1>1. Capacity \in Nat /\ NIL \notin Live /\ n # NIL /\ TreeShape
  BY LoadedFacts, CapacityAssumption
<1>2. \A k \in 1 .. Capacity : Level(n, k) = Ancestors(n)[k] /\ k # 0
  BY <1>1 DEF Level
<1>3. Level(n, 0) = n /\ 0 \in 0 .. Capacity /\ \A k \in 0 .. Capacity : k = 0 \/ k \in 1 .. Capacity
  BY <1>1 DEF Level
<1>4. TurningPoint(n) = IF H = {} THEN NIL ELSE Ancestors(n)[Table!First(H)]
  BY DEF TurningPoint
<1>5. CASE sibling[n] # NIL
  <2>1. StopOf(n) = n
    BY <1>5 DEF StopOf
  <2>2. 0 .. 0 - 1 = {}
    OBVIOUS
  <2> QED BY <1>1, <1>3, <1>5, <2>1, <2>2
<1>6. CASE sibling[n] = NIL /\ H = {}
  <2>1. StopOf(n) = NIL
    BY <1>4, <1>6 DEF StopOf
  <2> QED BY <1>2, <1>3, <1>6, <2>1
<1>7. CASE sibling[n] = NIL /\ H # {}
  <2>1. StopOf(n) = Ancestors(n)[Table!First(H)]
    BY <1>4, <1>7 DEF StopOf
  <2>2. PICK k \in H : k = Table!First(H) /\ \A e \in H : k <= e
    BY <1>7, FirstLemma
  <2>3. k \in 1 .. Capacity /\ k \in 0 .. Capacity /\ k \in Nat
    BY <1>1
  <2>4. StopOf(n) = Level(n, k) /\ Level(n, k) # NIL /\ sibling[Level(n, k)] # NIL
    BY <1>2, <2>1, <2>2, <2>3
  <2>5. StopOf(n) \in Live
    BY <2>3, <2>4, LevelFacts
  <2>6. ASSUME NEW j \in 0 .. k - 1
        PROVE  Level(n, j) \in Live /\ sibling[Level(n, j)] = NIL
    <3>1. j \in 0 .. Capacity /\ k \in j .. Capacity /\ j < k
      BY <1>1, <2>3
    <3>2. Level(n, j) # NIL
      BY <2>3, <2>4, <3>1, LevelNil
    <3>3. Level(n, j) \in Live
      BY <3>1, <3>2, LevelFacts
    <3>4. CASE j = 0
      BY <1>3, <1>7, <3>3, <3>4
    <3>5. CASE j # 0
      <4>1. j \in 1 .. Capacity /\ j \notin H
        BY <2>2, <2>3, <3>1, <3>5
      <4> QED BY <1>2, <3>2, <3>3, <4>1
    <3> QED BY <3>4, <3>5
  <2> QED BY <2>3, <2>4, <2>5, <2>6
<1> QED BY <1>5, <1>6, <1>7

(* What comes next, by cases.                                               *)
LEMMA NextCases ==
  ASSUME LoadedTree, NEW n \in Live
  PROVE  /\ first_child[n] # NIL => NextElement(n) = first_child[n]
         /\ first_child[n] = NIL => NextElement(n) = IF StopOf(n) = NIL THEN NIL ELSE sibling[StopOf(n)]
         /\ NextElement(n) \in Live \cup {NIL}
<1>1. n # NIL /\ NIL \notin Live
  BY LoadedFacts
<1>2. CASE first_child[n] # NIL
  BY <1>1, <1>2, NextElementLemma DEF NextElement
<1>3. CASE first_child[n] = NIL /\ sibling[n] # NIL
  BY <1>1, <1>3, NextElementLemma DEF NextElement, StopOf
<1>4. CASE first_child[n] = NIL /\ sibling[n] = NIL
  BY <1>1, <1>4, NextElementLemma DEF NextElement, StopOf, BehindBranch
<1> QED BY <1>2, <1>3, <1>4

(* Levels above levels.                                                     *)
LEMMA LevelSum ==
  ASSUME LoadedTree, NEW n \in Live, NEW a \in 0 .. Capacity, Level(n, a) \in Live,
         NEW b \in 0 .. Capacity, a + b <= Capacity
  PROVE  Level(n, a + b) = Level(Level(n, a), b)
<1> DEFINE S == {k \in Nat : Level(n, a + k) = Level(Level(n, a), k)}
<1>1. Capacity \in Nat /\ a \in Nat /\ b \in Nat
  BY LevelFacts
<1>2. 0 \in S
  <2>1. a + 0 = a /\ Level(Level(n, a), 0) = Level(n, a)
    BY <1>1, LevelFacts
  <2> QED BY <2>1
<1>3. ASSUME NEW k \in 0 .. b - 1, k \in S
      PROVE  k + 1 \in S
  <2>1. /\ k \in 0 .. Capacity - 1 /\ a + k \in 0 .. Capacity - 1 /\ k + 1 \in Nat
        /\ a + (k + 1) = (a + k) + 1
    BY <1>1
  <2>2. Level(n, (a + k) + 1) = Above(Level(n, a + k))
    BY <2>1, LevelFacts
  <2>3. Level(Level(n, a), k + 1) = Above(Level(Level(n, a), k))
    BY <2>1, LevelFacts
  <2> QED BY <1>3, <2>1, <2>2, <2>3
<1>4. 0 .. b \subseteq S
  <2> HIDE DEF S
  <2> QED BY <1>1, <1>2, <1>3, SetInduction
<1> QED BY <1>1, <1>4

(* Two elements that are last all the way down from the same one.           *)
LEMMA LastLevels ==
  ASSUME LoadedTree, NEW m \in Live, NEW n \in Live,
         NEW a \in 0 .. Capacity, NEW b \in 0 .. Capacity, a <= b,
         Level(m, a) = Level(n, b), Level(m, a) \in Live,
         \A j \in 0 .. a - 1 : Level(m, j) \in Live /\ sibling[Level(m, j)] = NIL,
         \A j \in 0 .. b - 1 : Level(n, j) \in Live /\ sibling[Level(n, j)] = NIL
  PROVE  m = Level(n, b - a)
<1> DEFINE S == {k \in Nat : Level(m, a - k) = Level(n, b - k)}
<1>1. Capacity \in Nat /\ a \in Nat /\ b \in Nat /\ NIL \notin Live /\ SiblingsOK
  BY LevelFacts, LoadedFacts DEF TreeOK
<1>2. 0 \in S
  BY <1>1
<1>3. ASSUME NEW k \in 0 .. a - 1, k \in S
      PROVE  k + 1 \in S
  <2>1. /\ a - k - 1 \in 0 .. a - 1 /\ b - k - 1 \in 0 .. b - 1 /\ k + 1 \in Nat
        /\ a - k - 1 \in 0 .. Capacity - 1 /\ b - k - 1 \in 0 .. Capacity - 1
        /\ (a - k - 1) + 1 = a - k /\ (b - k - 1) + 1 = b - k
        /\ a - (k + 1) = a - k - 1 /\ b - (k + 1) = b - k - 1
    BY <1>1
  <2>2. PICK x \in Live : x = Level(m, a - k - 1) /\ sibling[x] = NIL
    BY <2>1
  <2>3. PICK y \in Live : y = Level(n, b - k - 1) /\ sibling[y] = NIL
    BY <2>1
  <2>4. Level(m, a - k) = parent[x] /\ Level(n, b - k) = parent[y]
    <3>1. Level(m, (a - k - 1) + 1) = Above(x) /\ Level(n, (b - k - 1) + 1) = Above(y)
      BY <2>1, <2>2, <2>3, LevelFacts
    <3> QED BY <1>1, <2>1, <3>1 DEF Above
  <2>5. parent[x] = parent[y]
    BY <1>3, <2>4
  <2>6. Level(m, a - k) \in Live
    <3>1. CASE k = 0
      <4>1. a - k = a
        BY <1>1, <3>1
      <4> QED BY <4>1
    <3>2. CASE k # 0
      <4>1. a - k \in 0 .. a - 1
        BY <1>1, <3>2
      <4> QED BY <4>1
    <3> QED BY <3>1, <3>2
  <2>7. x = last_child[parent[x]] /\ y = last_child[parent[y]]
    BY <1>1, <2>2, <2>3, <2>4, <2>5, <2>6 DEF SiblingsOK
  <2> QED BY <2>1, <2>2, <2>3, <2>5, <2>7
<1>4. 0 .. a \subseteq S
  <2> HIDE DEF S
  <2> QED BY <1>1, <1>2, <1>3, SetInduction
<1>5. a \in S /\ a - a = 0
  BY <1>1, <1>4
<1> QED BY <1>5, LevelFacts

(* Behind two elements without children there are two places.               *)
LEMMA LeavesApart ==
  ASSUME LoadedTree, NEW m \in Live, NEW n \in Live,
         first_child[m] = NIL,
         NEW a \in 0 .. Capacity, NEW b \in 0 .. Capacity, a <= b,
         Level(m, a) = Level(n, b), Level(m, a) \in Live,
         \A j \in 0 .. a - 1 : Level(m, j) \in Live /\ sibling[Level(m, j)] = NIL,
         \A j \in 0 .. b - 1 : Level(n, j) \in Live /\ sibling[Level(n, j)] = NIL
  PROVE  m = n
<1>1. Capacity \in Nat /\ a \in Nat /\ b \in Nat /\ NIL \notin Live /\ PoolInv /\ TreeOK
  BY LevelFacts, LoadedFacts
<1>2. m = Level(n, b - a)
  BY LastLevels
<1>3. CASE a = b
  <2>1. b - a = 0
    BY <1>1, <1>3
  <2> QED BY <1>2, <2>1, LevelFacts
<1>4. CASE a # b
  <2>1. /\ b - a - 1 \in 0 .. b - 1 /\ b - a - 1 \in 0 .. Capacity - 1
        /\ (b - a - 1) + 1 = b - a
    BY <1>1, <1>4
  <2>2. PICK x \in Live : x = Level(n, b - a - 1)
    BY <2>1
  <2>3. Level(n, (b - a - 1) + 1) = Above(x)
    BY <2>1, <2>2, LevelFacts
  <2>4. parent[x] = m
    BY <1>1, <1>2, <2>1, <2>3 DEF Above
  <2> QED BY <1>1, <2>4, ChildlessLemma
<1> QED BY <1>3, <1>4

(* What comes next behind an element without children is no first child.    *)
LEMMA NextBehind ==
  ASSUME LoadedTree, NEW n \in Live, first_child[n] = NIL, NextElement(n) # NIL
  PROVE  \E k \in 0 .. Capacity : \E s \in Live :
           /\ s = Level(n, k) /\ sibling[s] = NextElement(n)
           /\ \A j \in 0 .. k - 1 : Level(n, j) \in Live /\ sibling[Level(n, j)] = NIL
<1>1. StopOf(n) # NIL /\ NextElement(n) = sibling[StopOf(n)]
  BY NextCases
<1> QED BY <1>1, StopLevel

LEMMA NextDiffers ==
  ASSUME LoadedTree, NEW m \in Live, NEW n \in Live,
         NextElement(m) = NextElement(n), NextElement(m) # NIL
  PROVE  m = n
<1>1. TreeOK /\ NIL \notin Live /\ Capacity \in Nat
  BY LoadedFacts, LevelFacts
<1>2. CASE first_child[m] # NIL /\ first_child[n] # NIL
  <2>1. first_child[m] = first_child[n]
    BY <1>2, NextCases
  <2> QED BY <1>1, <1>2, <2>1 DEF TreeOK, EndsOK
<1>3. CASE first_child[m] # NIL /\ first_child[n] = NIL
  <2>1. NextElement(n) = first_child[m]
    BY <1>3, NextCases
  <2>2. \E s \in Live : sibling[s] = first_child[m]
    BY <1>3, <2>1, NextBehind
  <2> QED BY <1>1, <1>3, <2>2 DEF TreeOK, EndsOK
<1>4. CASE first_child[m] = NIL /\ first_child[n] # NIL
  <2>1. NextElement(m) = first_child[n]
    BY <1>4, NextCases
  <2>2. \E s \in Live : sibling[s] = first_child[n]
    BY <1>4, <2>1, NextBehind
  <2> QED BY <1>1, <1>4, <2>2 DEF TreeOK, EndsOK
<1>5. CASE first_child[m] = NIL /\ first_child[n] = NIL
  <2>1. PICK a \in 0 .. Capacity, s \in Live :
          /\ s = Level(m, a) /\ sibling[s] = NextElement(m)
          /\ \A j \in 0 .. a - 1 : Level(m, j) \in Live /\ sibling[Level(m, j)] = NIL
    BY <1>5, NextBehind
  <2>2. PICK b \in 0 .. Capacity, t \in Live :
          /\ t = Level(n, b) /\ sibling[t] = NextElement(n)
          /\ \A j \in 0 .. b - 1 : Level(n, j) \in Live /\ sibling[Level(n, j)] = NIL
    BY <1>5, NextBehind
  <2>3. s = t
    BY <1>1, <2>1, <2>2 DEF TreeOK, SiblingsOK
  <2>4. CASE a <= b
    BY <1>5, <2>1, <2>2, <2>3, <2>4, LeavesApart
  <2>5. CASE b <= a
    BY <1>5, <2>1, <2>2, <2>3, <2>5, LeavesApart
  <2> QED BY <1>1, <2>4, <2>5
<1> QED BY <1>2, <1>3, <1>4, <1>5

LEMMA RootFirst ==
  ASSUME LoadedTree, NEW n \in Live
  PROVE  NextElement(n) # root \/ root = NIL
<1>1. TreeOK /\ NIL \notin Live /\ root \in Live \cup {NIL}
  BY LoadedFacts DEF LoadedTree
<1> SUFFICES ASSUME NextElement(n) = root, root # NIL PROVE FALSE
  OBVIOUS
<1>2. root \in Live /\ parent[root] = NIL
  BY <1>1, LoadedFacts
<1>3. CASE first_child[n] # NIL
  BY <1>1, <1>2, <1>3, NextCases DEF TreeOK, EndsOK
<1>4. CASE first_child[n] = NIL
  <2>1. \E s \in Live : sibling[s] = root
    BY <1>4, NextBehind
  <2> QED BY <1>1, <1>2, <2>1 DEF TreeOK, SiblingsOK
<1> QED BY <1>3, <1>4

----------------------------------------------------------------------------
(* The walk of jes_get_stat.                                                *)

OneOn(n) == IF n = NIL THEN NIL ELSE NextElement(n)

Goes(f, K) == f = [k \in 1 .. K + 1 |-> IF k = 1 THEN root ELSE OneOn(f[k - 1])]

LEMMA WalkDef == Walk = CHOOSE f : Goes(f, Capacity)
BY DEF Walk, Goes, OneOn

LEMMA TourExists ==
  ASSUME NEW K \in Nat
  PROVE  \E f : Goes(f, K)
<1> DEFINE D == {k \in Nat : ~ \E f : Goes(f, k)}
<1> SUFFICES ASSUME D # {} PROVE FALSE
  OBVIOUS
<1>1. PICK d \in D : \A e \in D : d <= e
  BY LeastLemma
<1>2. d \in Nat /\ ~ \E f : Goes(f, d)
  OBVIOUS
<1>3. CASE d = 0
  <2> DEFINE f == [k \in 1 .. 0 + 1 |-> root]
  <2>1. f = [k \in 1 .. 0 + 1 |-> IF k = 1 THEN root ELSE OneOn(f[k - 1])]
    OBVIOUS
  <2> QED BY <1>2, <1>3, <2>1 DEF Goes
<1>4. CASE d # 0
  <2>1. d - 1 \in Nat /\ d - 1 \notin D /\ (d - 1) + 1 = d
    BY <1>1, <1>2, <1>4
  <2>2. PICK f : Goes(f, d - 1)
    BY <2>1
  <2>3. \A k \in 1 .. d : f[k] = IF k = 1 THEN root ELSE OneOn(f[k - 1])
    BY <2>1, <2>2 DEF Goes
  <2> DEFINE g == [k \in 1 .. d + 1 |-> IF k <= d THEN f[k] ELSE OneOn(f[d])]
  <2>4. ASSUME NEW k \in 1 .. d + 1
        PROVE  g[k] = IF k = 1 THEN root ELSE OneOn(g[k - 1])
    <3>1. CASE k = 1
      <4>1. f[1] = root /\ 1 <= d
        BY <1>2, <1>4, <2>3
      <4> QED BY <3>1, <4>1
    <3>2. CASE k = d + 1
      <4>1. g[k] = OneOn(f[d]) /\ g[k - 1] = f[d]
        BY <1>2, <1>4, <3>2
      <4> QED BY <1>2, <1>4, <3>2, <4>1
    <3>3. CASE k # 1 /\ k # d + 1
      <4>1. k \in 1 .. d /\ k - 1 \in 1 .. d + 1 /\ k - 1 <= d
        BY <1>2, <3>3
      <4>2. f[k] = OneOn(f[k - 1])
        BY <2>3, <3>3, <4>1
      <4>3. g[k] = f[k] /\ g[k - 1] = f[k - 1]
        BY <3>3, <4>1
      <4> QED BY <3>3, <4>2, <4>3
    <3> QED BY <3>1, <3>2, <3>3
  <2>5. g = [k \in 1 .. d + 1 |-> IF k = 1 THEN root ELSE OneOn(g[k - 1])]
    <3>1. g = [k \in 1 .. d + 1 |-> g[k]]
      OBVIOUS
    <3> HIDE DEF g
    <3> QED BY <2>4, <3>1
  <2> QED BY <1>2, <2>5 DEF Goes
<1> QED BY <1>3, <1>4

LEMMA WalkSteps ==
  ASSUME LoadedTree
  PROVE  /\ Capacity \in Nat /\ Capacity # 0
         /\ DOMAIN Walk = 1 .. Capacity + 1 /\ Walk[1] = root
         /\ \A k \in 1 .. Capacity : Walk[k + 1] = OneOn(Walk[k])
<1>1. Capacity \in Nat /\ Capacity # 0
  BY CapacityAssumption
<1>2. Goes(Walk, Capacity)
  BY <1>1, WalkDef, TourExists
<1>3. /\ DOMAIN Walk = 1 .. Capacity + 1
      /\ \A k \in 1 .. Capacity + 1 : Walk[k] = IF k = 1 THEN root ELSE OneOn(Walk[k - 1])
  <2> DEFINE w == Walk
  <2>1. w = [k \in 1 .. Capacity + 1 |-> IF k = 1 THEN root ELSE OneOn(w[k - 1])]
    BY <1>2 DEF Goes
  <2> HIDE DEF w
  <2>2. /\ DOMAIN w = 1 .. Capacity + 1
        /\ \A k \in 1 .. Capacity + 1 : w[k] = IF k = 1 THEN root ELSE OneOn(w[k - 1])
    BY <2>1
  <2> QED BY <2>2 DEF w
<1>4. Walk[1] = root
  BY <1>1, <1>3
<1>5. ASSUME NEW k \in 1 .. Capacity
      PROVE  Walk[k + 1] = OneOn(Walk[k])
  <2>1. k + 1 \in 1 .. Capacity + 1 /\ k + 1 # 1 /\ (k + 1) - 1 = k
    BY <1>1
  <2>2. Walk[k + 1] = OneOn(Walk[(k + 1) - 1])
    BY <1>3, <2>1
  <2> QED BY <2>1, <2>2
<1> QED BY <1>1, <1>3, <1>4, <1>5

LEMMA WalkLive ==
  ASSUME LoadedTree
  PROVE  \A k \in 1 .. Capacity + 1 : Walk[k] \in Live \cup {NIL}
<1> DEFINE S == {k \in Nat : Walk[k + 1] \in Live \cup {NIL}}
<1>1. Capacity \in Nat
  BY WalkSteps
<1>2. 0 \in S
  BY WalkSteps DEF LoadedTree
<1>3. ASSUME NEW k \in 0 .. Capacity - 1, k \in S
      PROVE  k + 1 \in S
  <2>1. k + 1 \in 1 .. Capacity /\ k + 1 \in Nat
    BY <1>1
  <2>2. Walk[(k + 1) + 1] = OneOn(Walk[k + 1])
    BY <2>1, WalkSteps
  <2>3. OneOn(Walk[k + 1]) \in Live \cup {NIL}
    BY <1>3, NextCases DEF OneOn
  <2> QED BY <2>1, <2>2, <2>3
<1>4. 0 .. Capacity \subseteq S
  <2> HIDE DEF S
  <2> QED BY <1>1, <1>2, <1>3, SetInduction
<1>5. ASSUME NEW k \in 1 .. Capacity + 1
      PROVE  Walk[k] \in Live \cup {NIL}
  <2>1. k - 1 \in 0 .. Capacity /\ (k - 1) + 1 = k
    BY <1>1
  <2>2. k - 1 \in S
    BY <1>4, <2>1
  <2> QED BY <2>1, <2>2
<1> QED BY <1>5

(* The walk comes to no element twice.                                      *)
LEMMA WalkOnce ==
  ASSUME LoadedTree, NEW i \in 1 .. Capacity + 1, NEW j \in 1 .. Capacity + 1,
         Walk[i] = Walk[j], Walk[i] # NIL
  PROVE  i = j
<1> DEFINE D == {k \in 1 .. Capacity + 1 :
                   Walk[k] # NIL /\ \E l \in 1 .. Capacity + 1 : k < l /\ Walk[k] = Walk[l]}
<1>1. Capacity \in Nat /\ NIL \notin Live
  BY WalkSteps, LoadedFacts
<1>2. D = {}
  <2> SUFFICES ASSUME D # {} PROVE FALSE
    OBVIOUS
  <2>1. D \subseteq Nat
    OBVIOUS
  <2>2. PICK d \in D : \A e \in D : d <= e
    <3> HIDE DEF D
    <3> QED BY <2>1, LeastLemma
  <2>3. PICK l \in 1 .. Capacity + 1 : d < l /\ Walk[d] = Walk[l]
    OBVIOUS
  <2>4. d \in 1 .. Capacity + 1 /\ Walk[d] # NIL
    OBVIOUS
  <2>5. l - 1 \in 1 .. Capacity /\ (l - 1) + 1 = l /\ l - 1 \in 1 .. Capacity + 1
    BY <1>1, <2>3, <2>4
  <2>6. Walk[l] = OneOn(Walk[l - 1])
    BY <2>5, WalkSteps
  <2>7. PICK n \in Live : n = Walk[l - 1] /\ Walk[l] = NextElement(n)
    BY <2>3, <2>4, <2>5, <2>6, WalkLive DEF OneOn
  <2>8. CASE d = 1
    BY <2>3, <2>4, <2>7, <2>8, WalkSteps, RootFirst
  <2>9. CASE d # 1
    <3>1. d - 1 \in 1 .. Capacity /\ (d - 1) + 1 = d /\ d - 1 \in 1 .. Capacity + 1
      BY <1>1, <2>4, <2>9
    <3>2. Walk[d] = OneOn(Walk[d - 1])
      BY <3>1, WalkSteps
    <3>3. PICK m \in Live : m = Walk[d - 1] /\ Walk[d] = NextElement(m)
      BY <2>4, <3>1, <3>2, WalkLive DEF OneOn
    <3>4. m = n
      BY <2>3, <2>4, <2>7, <3>3, NextDiffers
    <3>5. d - 1 < l - 1
      BY <1>1, <2>3, <2>4
    <3>6. Walk[d - 1] = Walk[l - 1] /\ Walk[d - 1] # NIL
      BY <1>1, <2>7, <3>3, <3>4
    <3>7. d - 1 \in D
      BY <2>5, <3>1, <3>5, <3>6
    <3>8. d <= d - 1
      BY <2>2, <3>7
    <3> QED BY <1>1, <2>4, <3>8
  <2> QED BY <2>8, <2>9
<1>3. i \notin D /\ j \notin D
  BY <1>2
<1> QED BY <1>1, <1>3

LEMMA WalkEnds ==
  ASSUME LoadedTree
  PROVE  Walk[Capacity + 1] = NIL
<1> SUFFICES ASSUME Walk[Capacity + 1] # NIL PROVE FALSE
  OBVIOUS
<1>1. /\ Capacity \in Nat /\ Live \subseteq Node /\ NIL \notin Live
      /\ IsFiniteSet(Node) /\ Cardinality(Node) = Capacity
  BY NodeCount, CapacityAssumption, LoadedFacts
<1> DEFINE S == {k \in Nat : Walk[(Capacity + 1) - k] # NIL}
<1>2. 0 \in S
  BY <1>1
<1>3. ASSUME NEW k \in 0 .. Capacity - 1, k \in S
      PROVE  k + 1 \in S
  <2>1. /\ Capacity - k \in 1 .. Capacity /\ (Capacity - k) + 1 = (Capacity + 1) - k
        /\ (Capacity + 1) - (k + 1) = Capacity - k /\ k + 1 \in Nat
    BY <1>1
  <2>2. Walk[(Capacity - k) + 1] = OneOn(Walk[Capacity - k])
    BY <2>1, WalkSteps
  <2> QED BY <1>3, <2>1, <2>2 DEF OneOn
<1>4. 0 .. Capacity \subseteq S
  <2> HIDE DEF S
  <2> QED BY <1>1, <1>2, <1>3, SetInduction
<1>5. ASSUME NEW k \in 1 .. Capacity + 1
      PROVE  Walk[k] \in Live /\ Walk[k] # NIL
  <2>1. (Capacity + 1) - k \in 0 .. Capacity /\ (Capacity + 1) - ((Capacity + 1) - k) = k
    BY <1>1
  <2>2. (Capacity + 1) - k \in S
    BY <1>4, <2>1
  <2> QED BY <2>1, <2>2, WalkLive
<1> DEFINE f == [k \in 1 .. Capacity + 1 |-> Walk[k]]
<1>6. f \in [1 .. Capacity + 1 -> Node]
  BY <1>1, <1>5
<1>7. IsFiniteSet(1 .. Capacity + 1) /\ Cardinality(1 .. Capacity + 1) = Capacity + 1
  BY <1>1, IntervalSize
<1>8. \E x, y \in 1 .. Capacity + 1 : x # y /\ f[x] = f[y]
  <2> HIDE DEF f
  <2>1. Cardinality(Node) < Cardinality(1 .. Capacity + 1)
    BY <1>1, <1>7
  <2> QED BY <1>1, <1>6, <1>7, <2>1, FS_PigeonHole
<1>9. PICK x \in 1 .. Capacity + 1, y \in 1 .. Capacity + 1 : x # y /\ f[x] = f[y]
  BY <1>8
<1>10. Walk[x] = Walk[y] /\ Walk[x] # NIL
  BY <1>5, <1>9
<1> QED BY <1>9, <1>10, WalkOnce

Visited(n) == \E k \in 1 .. Capacity : Walk[k] = n

LEMMA NextVisited ==
  ASSUME LoadedTree, NEW n \in Live, Visited(n), NextElement(n) # NIL
  PROVE  Visited(NextElement(n))
<1>1. PICK k \in 1 .. Capacity : Walk[k] = n
  BY DEF Visited
<1>2. Walk[k + 1] = NextElement(n)
  BY <1>1, WalkSteps, LoadedFacts DEF OneOn
<1>3. k + 1 # Capacity + 1
  BY <1>2, WalkEnds
<1>4. k + 1 \in 1 .. Capacity
  BY <1>3, WalkSteps
<1> QED BY <1>2, <1>4 DEF Visited

(* The walk stays below an element until it goes on at its right neighbour. *)
LEMMA StaysBelow ==
  ASSUME LoadedTree, NEW m \in Live, sibling[m] # NIL,
         NEW x \in Live, NEW l \in 0 .. Capacity, Level(x, l) = m, NextElement(x) # sibling[m]
  PROVE  NextElement(x) \in Live /\ \E k \in 0 .. Capacity : Level(NextElement(x), k) = m
<1>1. Capacity \in Nat /\ NIL \notin Live /\ TreeOK /\ l # Capacity
  BY LevelFacts, LoadedFacts, LevelsEnd
<1>2. CASE first_child[x] # NIL
  <2>1. PICK y \in Live : y = NextElement(x) /\ parent[y] = x
    BY <1>1, <1>2, NextCases DEF TreeOK, EndsOK, LinksLive
  <2>2. parent[y] # NIL /\ l \in 0 .. Capacity - 1 /\ l + 1 \in 0 .. Capacity
    BY <1>1, <2>1
  <2>3. Level(y, l + 1) = Level(x, l)
    BY <2>1, <2>2, LevelShift
  <2> QED BY <2>1, <2>2, <2>3
<1>3. CASE first_child[x] = NIL
  <2>1. StopOf(x) # NIL
    BY <1>1, StopLevel
  <2>2. PICK k \in 0 .. Capacity :
          /\ Level(x, k) = StopOf(x) /\ StopOf(x) \in Live /\ sibling[StopOf(x)] # NIL
          /\ \A j \in 0 .. k - 1 : Level(x, j) \in Live /\ sibling[Level(x, j)] = NIL
    BY <2>1, StopLevel
  <2>3. k <= l
    <3> SUFFICES ASSUME l < k PROVE FALSE
      BY <1>1
    <3>1. l \in 0 .. k - 1
      BY <1>1
    <3> QED BY <2>2, <3>1
  <2>4. k # l
    BY <1>3, <2>1, <2>2, NextCases
  <2>5. PICK s \in Live : s = StopOf(x) /\ s = Level(x, k) /\ sibling[s] # NIL
    BY <2>2
  <2>6. PICK y \in Live : y = NextElement(x) /\ y = sibling[s] /\ parent[y] = parent[s]
                          /\ parent[s] \in Live
    <3>1. NextElement(x) = sibling[s]
      BY <1>3, <2>1, <2>5, NextCases
    <3>2. sibling[s] \in Live /\ parent[s] # NIL /\ parent[sibling[s]] = parent[s]
      BY <1>1, <2>5, <3>1, NextCases DEF TreeOK, SiblingsOK
    <3>3. parent[s] \in Live
      BY <2>5, <3>2, LoadedFacts
    <3> QED BY <3>1, <3>2, <3>3
  <2>7. k \in 0 .. Capacity - 1 /\ l - k - 1 \in 0 .. Capacity - 1 /\ (l - k - 1) + 1 = l - k
        /\ l - k \in 0 .. Capacity /\ k + (l - k) = l
    BY <1>1, <2>3, <2>4
  <2>8. Level(x, l) = Level(s, l - k)
    BY <2>5, <2>7, LevelSum
  <2>9. Level(s, l - k) = Level(parent[s], l - k - 1)
    BY <1>1, <2>6, <2>7, LevelShift
  <2>10. Level(y, l - k) = Level(parent[s], l - k - 1)
    BY <1>1, <2>6, <2>7, LevelShift
  <2> QED BY <2>6, <2>7, <2>8, <2>9, <2>10
<1> QED BY <1>2, <1>3

LEMMA SiblingVisited ==
  ASSUME LoadedTree, NEW m \in Live, Visited(m), sibling[m] # NIL
  PROVE  Visited(sibling[m])
<1> SUFFICES ASSUME ~Visited(sibling[m]) PROVE FALSE
  OBVIOUS
<1>1. PICK i \in 1 .. Capacity : Walk[i] = m
  BY DEF Visited
<1> DEFINE Under(n) == n \in Live /\ \E k \in 0 .. Capacity : Level(n, k) = m
           S == {k \in Nat : Under(Walk[i + k])}
<1>2. Capacity \in Nat /\ i \in Nat /\ (Capacity + 1) - i \in Nat /\ NIL \notin Live
  BY WalkSteps, LoadedFacts
<1>3. 0 \in S
  <2>1. i + 0 = i /\ Level(m, 0) = m /\ 0 \in 0 .. Capacity
    BY <1>2, LevelFacts
  <2> QED BY <1>1, <2>1
<1>4. ASSUME NEW k \in 0 .. ((Capacity + 1) - i) - 1, k \in S
      PROVE  k + 1 \in S
  <2>1. i + k \in 1 .. Capacity /\ (i + k) + 1 = i + (k + 1) /\ k + 1 \in Nat
    BY <1>2
  <2>2. PICK x \in Live : x = Walk[i + k] /\ \E l \in 0 .. Capacity : Level(x, l) = m
    BY <1>4
  <2>3. Walk[i + (k + 1)] = NextElement(x)
    BY <1>2, <2>1, <2>2, WalkSteps DEF OneOn
  <2>4. Visited(x)
    BY <2>1, <2>2 DEF Visited
  <2>5. NextElement(x) # sibling[m]
    BY <2>4, NextVisited
  <2>6. NextElement(x) \in Live /\ \E l \in 0 .. Capacity : Level(NextElement(x), l) = m
    BY <2>2, <2>5, StaysBelow
  <2>7. Under(Walk[i + (k + 1)])
    BY <2>3, <2>6
  <2> QED BY <2>1, <2>7
<1>5. 0 .. (Capacity + 1) - i \subseteq S
  <2> HIDE DEF S
  <2> QED BY <1>2, <1>3, <1>4, SetInduction
<1>6. (Capacity + 1) - i \in S /\ i + ((Capacity + 1) - i) = Capacity + 1
  BY <1>2, <1>5
<1> QED BY <1>2, <1>6, WalkEnds

(* The walk comes to every element.                                         *)
LEMMA AllVisited ==
  ASSUME LoadedTree, NEW n \in Live
  PROVE  Visited(n)
<1> DEFINE U == {x \in Live : ~Visited(x)}
<1> SUFFICES ASSUME U # {} PROVE FALSE
  OBVIOUS
<1>1. TreeOK /\ NIL \notin Live /\ U \in SUBSET Live
  BY LoadedFacts
<1>2. PICK x \in U : parent[x] \notin U
  BY <1>1 DEF TreeOK, Acyclic
<1>3. x \in Live /\ ~Visited(x)
  OBVIOUS
<1>4. CASE parent[x] = NIL
  <2>1. x = root
    BY <1>3, <1>4, LoadedFacts
  <2>2. 1 \in 1 .. Capacity
    BY WalkSteps
  <2> QED BY <1>3, <2>1, <2>2, WalkSteps DEF Visited
<1>5. CASE parent[x] # NIL
  <2>1. PICK p \in Live : p = parent[x] /\ Visited(p)
    BY <1>2, <1>3, <1>5, LoadedFacts
  <2> DEFINE S == {y \in U : parent[y] = p}
  <2>2. S \in SUBSET Live /\ x \in S
    BY <2>1
  <2>3. PICK y \in S : \A z \in S : sibling[z] # y
    <3> HIDE DEF S
    <3> QED BY <1>1, <2>2 DEF TreeOK, Acyclic
  <2>4. y \in Live /\ ~Visited(y) /\ parent[y] = p
    OBVIOUS
  <2>5. CASE first_child[p] = y
    <3>1. NextElement(p) = y
      BY <1>1, <2>4, <2>5, NextCases
    <3> QED BY <1>1, <2>1, <2>4, <3>1, NextVisited
  <2>6. CASE first_child[p] # y
    <3>1. PICK z \in Live : sibling[z] = y
      BY <1>1, <2>1, <2>4, <2>6 DEF TreeOK, SiblingsOK
    <3>2. parent[z] = p
      BY <1>1, <2>4, <3>1 DEF TreeOK, SiblingsOK
    <3>3. Visited(z)
      BY <2>3, <3>1, <3>2
    <3> QED BY <1>1, <2>4, <3>1, <3>3, SiblingVisited
  <2> QED BY <2>5, <2>6
<1> QED BY <1>4, <1>5

(* The elements of a type are counted, each once.                           *)
LEMMA WalkCounts ==
  ASSUME LoadedTree, NEW t \in ElementType
  PROVE  Stat[t] = Cardinality({n \in Live : type[n] = t})
<1> DEFINE A == {k \in DOMAIN Walk : TypeOf(Walk[k]) = t}
           B == {n \in Live : type[n] = t}
           f == [k \in A |-> Walk[k]]
<1>1. /\ Capacity \in Nat /\ DOMAIN Walk = 1 .. Capacity + 1 /\ NIL \notin Live
      /\ t # "UNKNOWN"
  BY WalkSteps, LoadedFacts DEF ElementType, ValueType
<1>2. IsFiniteSet(A)
  <2>1. IsFiniteSet(1 .. Capacity + 1) /\ A \subseteq 1 .. Capacity + 1
    BY <1>1, IntervalSize
  <2> QED BY <2>1, FS_Subset
<1>3. \A k \in A : k \in 1 .. Capacity + 1 /\ Walk[k] # NIL /\ Walk[k] \in B
  BY <1>1, WalkLive DEF TypeOf
<1>4. f \in [A -> B]
  BY <1>3
<1>5. \A i, j \in A : f[i] = f[j] => i = j
  BY <1>3, WalkOnce
<1>6. \A n \in B : \E k \in A : f[k] = n
  <2> SUFFICES ASSUME NEW n \in B PROVE \E k \in A : f[k] = n
    OBVIOUS
  <2>1. n \in Live /\ type[n] = t /\ n # NIL
    BY <1>1
  <2>2. PICK k \in 1 .. Capacity : Walk[k] = n
    BY <2>1, AllVisited DEF Visited
  <2>3. k \in A
    BY <1>1, <2>1, <2>2 DEF TypeOf
  <2> QED BY <2>2, <2>3
<1>7. ExistsBijection(A, B)
  <2> HIDE DEF A, B, f
  <2> QED BY <1>4, <1>5, <1>6 DEF ExistsBijection, Bijection, Injection, IsInjective, Surjection
<1>8. Cardinality(B) = Cardinality(A)
  <2> HIDE DEF A, B, f
  <2> QED BY <1>2, <1>7, FS_Bijection
<1> QED BY <1>8 DEF Stat

(***************************************************************************)
(* What jes_get_stat counts are the elements of the tree, each once,        *)
(* whatever tree a load has left and for a pool of any size: CountsEvery-   *)
(* Element.                                                                 *)
(***************************************************************************)
THEOREM EveryElementIsCounted == SessionSpec => []CountsEveryElement
<1>1. LoadInv => CountsEveryElement
  BY WalkEnds, WalkCounts DEF LoadInv, CountsEveryElement
<1> QED BY <1>1, LoadInvariant, PTL

----------------------------------------------------------------------------
(* Texts of elements, put together.                                         *)

(* One text behind another, as an operator that the provers leave alone.    *)
a ++ b == a \o b

LEMMA CatFacts ==
  /\ <<>> \in Seq(Token)
  /\ \A a, b \in Seq(Token) : a ++ b \in Seq(Token)
  /\ \A a, b, c \in Seq(Token) : (a ++ b) ++ c = a ++ (b ++ c)
  /\ \A a \in Seq(Token) : a ++ <<>> = a /\ <<>> ++ a = a
<1>1. <<>> \in Seq(Token)
  OBVIOUS
<1>2. \A a, b \in Seq(Token) : a ++ b \in Seq(Token)
  BY ConcatProperties DEF ++
<1>3. \A a, b, c \in Seq(Token) : (a ++ b) ++ c = a ++ (b ++ c)
  BY ConcatAssociative DEF ++
<1>4. \A a \in Seq(Token) : a ++ <<>> = a /\ <<>> ++ a = a
  BY ConcatEmptySeq DEF ++
<1> QED BY <1>1, <1>2, <1>3, <1>4

(* What depends on what is above.                                           *)
AsAbove(f, s, n) == IF parent[n] = NIL THEN <<>> ELSE f[parent[n]] ++ s[n]

LEMMA DownwardExists ==
  ASSUME LoadedTree, NEW s \in [Live -> Seq(Token)]
  PROVE  \E f \in [Live -> Seq(Token)] : \A n \in Live : f[n] = AsAbove(f, s, n)
<1> DEFINE S == {k \in Nat : \E f \in [Live -> Seq(Token)] :
                               \A n \in Live : Level(n, k) = NIL => f[n] = AsAbove(f, s, n)}
<1>1. /\ Capacity \in Nat /\ NIL \notin Live /\ \A n \in Live : parent[n] \in Live \cup {NIL}
  BY CapacityAssumption, LoadedFacts
<1>2. 0 \in S
  <2>1. \A n \in Live : Level(n, 0) # NIL
    BY <1>1, LevelFacts
  <2>2. PICK f : f = [n \in Live |-> <<>>]
    OBVIOUS
  <2>3. f \in [Live -> Seq(Token)]
    BY <2>2, CatFacts
  <2>4. \E g \in [Live -> Seq(Token)] :
          \A n \in Live : Level(n, 0) = NIL => g[n] = AsAbove(g, s, n)
    BY <2>1, <2>3
  <2> QED BY <2>4
<1>3. ASSUME NEW k \in 0 .. Capacity - 1, k \in S
      PROVE  k + 1 \in S
  <2>1. PICK f \in [Live -> Seq(Token)] :
          \A n \in Live : Level(n, k) = NIL => f[n] = AsAbove(f, s, n)
    BY <1>3
  <2>2. PICK g : g = [n \in Live |-> AsAbove(f, s, n)]
    OBVIOUS
  <2>3. ASSUME NEW n \in Live
        PROVE  AsAbove(f, s, n) \in Seq(Token)
    <3>1. CASE parent[n] = NIL
      BY <3>1, CatFacts DEF AsAbove
    <3>2. CASE parent[n] # NIL
      <4>1. f[parent[n]] \in Seq(Token) /\ s[n] \in Seq(Token)
        BY <1>1, <3>2
      <4> QED BY <3>2, <4>1, CatFacts DEF AsAbove
    <3> QED BY <3>1, <3>2
  <2>4. g \in [Live -> Seq(Token)]
    BY <2>2, <2>3
  <2>5. ASSUME NEW n \in Live, Level(n, k + 1) = NIL
        PROVE  g[n] = AsAbove(g, s, n)
    <3>1. CASE parent[n] = NIL
      BY <2>2, <3>1 DEF AsAbove
    <3>2. CASE parent[n] # NIL
      <4>1. PICK p \in Live : p = parent[n]
        BY <1>1, <3>2
      <4>2. Level(p, k) = NIL
        BY <2>5, <3>2, <4>1, LevelShift
      <4>3. g[p] = f[p]
        BY <2>1, <2>2, <4>2
      <4> QED BY <2>2, <3>2, <4>1, <4>3 DEF AsAbove
    <3> QED BY <3>1, <3>2
  <2>6. k + 1 \in Nat /\ \E h \in [Live -> Seq(Token)] :
          \A n \in Live : Level(n, k + 1) = NIL => h[n] = AsAbove(h, s, n)
    BY <1>1, <2>4, <2>5
  <2> QED BY <2>6, Zenon
<1>4. 0 .. Capacity \subseteq S
  <2> HIDE DEF S
  <2> QED BY <1>1, <1>2, <1>3, SetInduction
<1>5. Capacity \in S
  <2> HIDE DEF S
  <2> QED BY <1>1, <1>4
<1>6. PICK f \in [Live -> Seq(Token)] :
        \A n \in Live : Level(n, Capacity) = NIL => f[n] = AsAbove(f, s, n)
  BY <1>5
<1> QED BY <1>6, LevelsEnd

LEMMA ChildOrder ==
  ASSUME LoadedTree, NEW p \in Live, NEW c, c = Children(p)
  PROVE  /\ Len(c) \in Nat /\ \A i \in 1 .. Len(c) : c[i] \in Live /\ parent[c[i]] = p
         /\ first_child[p] # NIL => 1 <= Len(c) /\ c[1] = first_child[p] /\ c[Len(c)] = last_child[p]
         /\ first_child[p] = NIL => c = <<>> /\ Len(c) = 0
         /\ \A n \in Live : parent[n] = p => \E i \in 1 .. Len(c) : c[i] = n
         /\ \A i, j \in 1 .. Len(c) : c[i] = c[j] => i = j
         /\ \A i \in 1 .. Len(c) : sibling[c[i]] # NIL =>
              i + 1 \in 1 .. Len(c) /\ sibling[c[i]] = c[i + 1]
<1>1. TreeShape /\ TreeOK /\ PoolInv /\ NIL \notin Live
  BY LoadedFacts
<1>2. /\ c \in Seq(Node) /\ Len(c) \in Nat
      /\ \A i \in 1 .. Len(c) : c[i] \in Live /\ parent[c[i]] = p
      /\ \A i, j \in 1 .. Len(c) : c[i] = c[j] => i = j
      /\ \A n \in Live : parent[n] = p => \E i \in 1 .. Len(c) : c[i] = n
      /\ c # <<>> => c[1] = first_child[p]
      /\ \A i \in 1 .. Len(c) - 1 : c[i + 1] = sibling[c[i]]
  BY <1>1, ChildrenFacts
<1>3. c # <<>> <=> Len(c) # 0
  BY <1>2, EmptySeq
<1>4. ASSUME first_child[p] # NIL
      PROVE  1 <= Len(c) /\ c[1] = first_child[p] /\ c[Len(c)] = last_child[p]
  <2>1. /\ first_child[p] \in Live /\ parent[first_child[p]] = p
        /\ last_child[p] \in Live /\ parent[last_child[p]] = p /\ p # NIL
    BY <1>1, <1>4, LinkFacts DEF TreeOK, EndsOK
  <2>2. PICK i \in 1 .. Len(c) : c[i] = last_child[p]
    BY <1>2, <2>1
  <2>3. sibling[c[i]] = NIL
    BY <1>1, <2>1, <2>2 DEF TreeOK, SiblingsOK
  <2>4. i = Len(c)
    <3> SUFFICES ASSUME i # Len(c) PROVE FALSE
      OBVIOUS
    <3>1. i \in 1 .. Len(c) - 1 /\ i + 1 \in 1 .. Len(c)
      BY <1>2
    <3>2. c[i + 1] = NIL
      BY <1>2, <2>3, <3>1
    <3> QED BY <1>1, <1>2, <3>1, <3>2
  <2>5. 1 <= Len(c)
    BY <1>2, <2>2
  <2>6. c # <<>>
    BY <1>2, <1>3, <2>5
  <2> QED BY <1>2, <2>2, <2>4, <2>5, <2>6
<1>5. ASSUME first_child[p] = NIL
      PROVE  c = <<>> /\ Len(c) = 0
  <2>1. \A n \in Live : parent[n] # p
    BY <1>1, <1>5, ChildlessLemma
  <2>2. 1 \notin 1 .. Len(c)
    BY <1>2, <2>1
  <2> QED BY <1>2, <1>3, <2>2
<1>6. ASSUME NEW i \in 1 .. Len(c), sibling[c[i]] # NIL
      PROVE  i + 1 \in 1 .. Len(c) /\ sibling[c[i]] = c[i + 1]
  <2>1. PICK n \in Live : n = sibling[c[i]] /\ parent[n] = p
    BY <1>1, <1>2, <1>6, LinkFacts DEF TreeOK, SiblingsOK
  <2>2. PICK j \in 1 .. Len(c) : c[j] = n
    BY <1>2, <2>1
  <2>3. j # 1
    <3> SUFFICES ASSUME j = 1 PROVE FALSE
      OBVIOUS
    <3>1. n = first_child[p] /\ n # NIL
      <4>1. Len(c) # 0 /\ c[1] = n
        BY <1>2, <2>2
      <4> QED BY <1>1, <1>2, <1>3, <2>1, <4>1
    <3>2. PICK l \in Live : l = c[i]
      BY <1>2
    <3>3. sibling[l] = first_child[p]
      BY <2>1, <3>1, <3>2
    <3> QED BY <1>1, <3>1, <3>3 DEF TreeOK, EndsOK
  <2>4. j - 1 \in 1 .. Len(c) - 1 /\ j - 1 \in 1 .. Len(c) /\ (j - 1) + 1 = j
    BY <1>2, <2>3
  <2>5. n = sibling[c[j - 1]]
    BY <1>2, <2>2, <2>4
  <2>6. c[j - 1] = c[i]
    <3>1. PICK m \in Live : m = c[j - 1]
      BY <1>2, <2>4
    <3>2. PICK l \in Live : l = c[i]
      BY <1>2
    <3>3. sibling[m] = n /\ sibling[l] = n /\ n # NIL
      BY <1>1, <2>1, <2>5, <3>1, <3>2
    <3>4. m = l
      BY <1>1, <3>3 DEF TreeOK, SiblingsOK
    <3> QED BY <3>1, <3>2, <3>4
  <2>7. j - 1 = i
    BY <1>2, <2>4, <2>6
  <2> QED BY <2>1, <2>2, <2>4, <2>7
<1> QED BY <1>2, <1>4, <1>5, <1>6

(* j[i] is the text of the first i children, sep[m] what is between m and   *)
(* its right neighbour.                                                     *)
Lead(j, c, sep, i) == IF i = 1 THEN <<>> ELSE j[i - 1] ++ sep[c[i - 1]]

Joins(j, c, sep, whole) ==
  /\ j \in [0 .. Len(c) -> Seq(Token)] /\ j[0] = <<>>
  /\ \A i \in 1 .. Len(c) : j[i] = Lead(j, c, sep, i) ++ whole[c[i]]

(* Behind op[n] come the children, and cl[n].                               *)
Wholes(op, cl, sep, whole) ==
  /\ op \in [Live -> Seq(Token)] /\ cl \in [Live -> Seq(Token)]
  /\ sep \in [Live -> Seq(Token)] /\ whole \in [Live -> Seq(Token)]
  /\ \A n \in Live : \E j : /\ Joins(j, Children(n), sep, whole)
                            /\ whole[n] = (op[n] ++ j[Len(Children(n))]) ++ cl[n]

(* What is in front of an element, and what up to its end.                  *)
Places(op, cl, sep, pre, upto) ==
  /\ pre \in [Live -> Seq(Token)] /\ upto \in [Live -> Seq(Token)]
  /\ root # NIL => pre[root] = <<>>
  /\ \A n \in Live :
       /\ first_child[n] # NIL => /\ pre[first_child[n]] = pre[n] ++ op[n]
                                  /\ upto[n] = upto[last_child[n]] ++ cl[n]
       /\ first_child[n] = NIL => upto[n] = (pre[n] ++ op[n]) ++ cl[n]
       /\ sibling[n] # NIL => pre[sibling[n]] = upto[n] ++ sep[n]

LEMMA PlacesExist ==
  ASSUME LoadedTree, NEW op, NEW cl, NEW sep, NEW whole, Wholes(op, cl, sep, whole)
  PROVE  \E pre, upto : /\ Places(op, cl, sep, pre, upto)
                        /\ root # NIL => upto[root] = whole[root]
<1> DEFINE jj(p) == CHOOSE j : /\ Joins(j, Children(p), sep, whole)
                               /\ whole[p] = (op[p] ++ j[Len(Children(p))]) ++ cl[p]
           Index(n) == CHOOSE i \in 1 .. Len(Children(parent[n])) : Children(parent[n])[i] = n
           Ahead(p, i) == Lead(jj(p), Children(p), sep, i)
           Leads(n) == op[parent[n]] ++ Ahead(parent[n], Index(n))
<1>1. /\ op \in [Live -> Seq(Token)] /\ cl \in [Live -> Seq(Token)]
      /\ sep \in [Live -> Seq(Token)] /\ whole \in [Live -> Seq(Token)]
  BY DEF Wholes
<1>2. /\ NIL \notin Live /\ TreeOK
      /\ \A n \in Live : parent[n] \in Live \cup {NIL} /\ (parent[n] = NIL <=> n = root)
  BY LoadedFacts
<1>3. ASSUME NEW p \in Live
      PROVE  /\ Joins(jj(p), Children(p), sep, whole)
             /\ whole[p] = (op[p] ++ jj(p)[Len(Children(p))]) ++ cl[p]
  BY DEF Wholes
<1> HIDE DEF jj
<1>4. ASSUME NEW p \in Live, NEW i \in 1 .. Len(Children(p))
      PROVE  Leads(Children(p)[i]) = op[p] ++ Ahead(p, i) /\ Ahead(p, i) \in Seq(Token)
  <2>1. PICK c : c = Children(p)
    OBVIOUS
  <2>2. Len(c) \in Nat /\ c[i] \in Live /\ parent[c[i]] = p
    BY <2>1, ChildOrder
  <2>3. \A k \in 1 .. Len(c) : c[k] = c[i] => k = i
    BY <2>1, <2>2, ChildOrder
  <2>4. Index(c[i]) = i
    BY <2>1, <2>2, <2>3
  <2>5. PICK j : j = jj(p)
    OBVIOUS
  <2>6. Lead(j, c, sep, i) \in Seq(Token)
    <3>1. CASE i = 1
      BY <3>1, CatFacts DEF Lead
    <3>2. CASE i # 1
      <4>1. i - 1 \in 0 .. Len(c) /\ i - 1 \in 1 .. Len(c)
        BY <2>1, <2>2, <3>2
      <4>2. c[i - 1] \in Live
        BY <2>1, <4>1, ChildOrder
      <4>3. j[i - 1] \in Seq(Token)
        BY <1>3, <2>1, <2>5, <4>1 DEF Joins
      <4>4. sep[c[i - 1]] \in Seq(Token)
        BY <1>1, <4>2
      <4> QED BY <3>2, <4>3, <4>4, CatFacts DEF Lead
    <3> QED BY <3>1, <3>2
  <2>7. Ahead(p, i) = Lead(j, c, sep, i)
    BY <2>1, <2>5
  <2> HIDE DEF Index, Ahead
  <2>8. Leads(c[i]) = op[p] ++ Ahead(p, i)
    BY <2>2, <2>4
  <2> QED BY <2>1, <2>6, <2>7, <2>8
<1> DEFINE s == [n \in Live |-> IF parent[n] = NIL THEN <<>> ELSE Leads(n)]
<1>5. s \in [Live -> Seq(Token)]
  <2>1. ASSUME NEW n \in Live, parent[n] # NIL
        PROVE  Leads(n) \in Seq(Token)
    <3>1. PICK p \in Live : p = parent[n]
      BY <1>2, <2>1
    <3>2. PICK i \in 1 .. Len(Children(p)) : Children(p)[i] = n
      BY <3>1, ChildOrder
    <3> HIDE DEF Leads, Ahead
    <3>3. op[p] \in Seq(Token) /\ Ahead(p, i) \in Seq(Token) /\ Leads(n) = op[p] ++ Ahead(p, i)
      BY <1>1, <1>4, <3>2
    <3> QED BY <3>3, CatFacts
  <2> HIDE DEF Leads
  <2> QED BY <2>1, CatFacts
<1>6. PICK pre \in [Live -> Seq(Token)] : \A n \in Live : pre[n] = AsAbove(pre, s, n)
  <2> HIDE DEF s
  <2> QED BY <1>5, DownwardExists
<1>7. PICK upto : upto = [n \in Live |-> pre[n] ++ whole[n]]
  OBVIOUS
<1>8. upto \in [Live -> Seq(Token)]
  <2>1. ASSUME NEW n \in Live
        PROVE  pre[n] ++ whole[n] \in Seq(Token)
    <3>1. pre[n] \in Seq(Token) /\ whole[n] \in Seq(Token)
      BY <1>1, <1>6
    <3> QED BY <3>1, CatFacts
  <2> QED BY <1>7, <2>1
<1>9. ASSUME NEW p \in Live, NEW i \in 1 .. Len(Children(p))
      PROVE  /\ pre[Children(p)[i]] = pre[p] ++ (op[p] ++ Ahead(p, i))
             /\ upto[Children(p)[i]] = pre[p] ++ (op[p] ++ jj(p)[i])
  <2>1. PICK m \in Live : m = Children(p)[i] /\ parent[m] = p
    BY ChildOrder
  <2>2. PICK l \in Seq(Token) : l = Ahead(p, i)
    BY <1>4
  <2>3. s[m] = op[p] ++ l
    <3>1. Leads(m) = op[p] ++ l
      <4> HIDE DEF Leads, Ahead
      <4> QED BY <1>4, <2>1, <2>2
    <3> HIDE DEF Leads
    <3> QED BY <1>2, <2>1, <3>1
  <2>4. jj(p)[i] = l ++ whole[m]
    BY <1>3, <2>1, <2>2 DEF Joins
  <2> HIDE DEF Ahead, s
  <2>5. PICK a, b, w : a = pre[p] /\ b = op[p] /\ w = whole[m]
    OBVIOUS
  <2>6. a \in Seq(Token) /\ b \in Seq(Token) /\ w \in Seq(Token)
    BY <1>1, <1>6, <2>5
  <2>7. pre[m] = a ++ (b ++ l)
    BY <1>2, <1>6, <2>1, <2>3, <2>5 DEF AsAbove
  <2>8. upto[m] = (a ++ (b ++ l)) ++ w
    BY <1>7, <2>5, <2>7
  <2>11. upto[m] = a ++ (b ++ (l ++ w))
    BY <2>6, <2>8, CatFacts
  <2> QED BY <2>1, <2>2, <2>4, <2>5, <2>7, <2>11
<1> HIDE DEF s, Ahead, Leads, Index
<1>10. root # NIL => pre[root] = <<>> /\ upto[root] = whole[root]
  <2> SUFFICES ASSUME root # NIL PROVE pre[root] = <<>> /\ upto[root] = whole[root]
    OBVIOUS
  <2>1. root \in Live /\ parent[root] = NIL
    BY <1>2 DEF LoadedTree
  <2>2. pre[root] = <<>>
    BY <1>6, <2>1 DEF AsAbove
  <2>3. whole[root] \in Seq(Token) /\ upto[root] = <<>> ++ whole[root]
    BY <1>1, <1>7, <2>1, <2>2
  <2> QED BY <2>2, <2>3, CatFacts
<1>11. ASSUME NEW n \in Live, first_child[n] # NIL
       PROVE  /\ pre[first_child[n]] = pre[n] ++ op[n]
              /\ upto[n] = upto[last_child[n]] ++ cl[n]
  <2>1. PICK c, j : c = Children(n) /\ j = jj(n)[Len(c)]
    OBVIOUS
  <2>2. /\ Len(c) \in Nat /\ 1 \in 1 .. Len(c) /\ Len(c) \in 1 .. Len(c) /\ Len(c) \in 0 .. Len(c)
        /\ c[1] = first_child[n] /\ c[Len(c)] = last_child[n]
    BY <1>11, <2>1, ChildOrder
  <2>3. PICK a, b, e : a = pre[n] /\ b = op[n] /\ e = cl[n]
    OBVIOUS
  <2>4. a \in Seq(Token) /\ b \in Seq(Token) /\ e \in Seq(Token) /\ j \in Seq(Token)
    BY <1>1, <1>3, <1>6, <2>1, <2>2, <2>3 DEF Joins
  <2>5. Ahead(n, 1) = <<>>
    BY DEF Ahead, Lead
  <2>6. pre[first_child[n]] = a ++ (b ++ <<>>)
    BY <1>9, <2>1, <2>2, <2>3, <2>5
  <2>7. b ++ <<>> = b
    BY <2>4, CatFacts
  <2>8. upto[last_child[n]] = a ++ (b ++ j)
    BY <1>9, <2>1, <2>2, <2>3
  <2>9. whole[n] = (b ++ j) ++ e
    BY <1>3, <2>1, <2>3
  <2>10. upto[n] = a ++ ((b ++ j) ++ e)
    BY <1>7, <2>3, <2>9
  <2>12. (a ++ (b ++ j)) ++ e = a ++ ((b ++ j) ++ e)
    BY <2>4, CatFacts
  <2> QED BY <2>3, <2>6, <2>7, <2>8, <2>10, <2>12
<1>12. ASSUME NEW n \in Live, first_child[n] = NIL
       PROVE  upto[n] = (pre[n] ++ op[n]) ++ cl[n]
  <2>1. Len(Children(n)) = 0
    BY <1>12, ChildOrder
  <2>2. PICK a, b, e : a = pre[n] /\ b = op[n] /\ e = cl[n]
    OBVIOUS
  <2>3. a \in Seq(Token) /\ b \in Seq(Token) /\ e \in Seq(Token)
    BY <1>1, <1>6, <2>2
  <2>4. whole[n] = (b ++ <<>>) ++ e
    BY <1>3, <2>1, <2>2 DEF Joins
  <2>5. b ++ <<>> = b
    BY <2>3, CatFacts
  <2>6. upto[n] = a ++ (b ++ e)
    BY <1>7, <2>2, <2>4, <2>5
  <2>7. (a ++ b) ++ e = a ++ (b ++ e)
    BY <2>3, CatFacts
  <2> QED BY <2>2, <2>6, <2>7
<1>13. ASSUME NEW n \in Live, sibling[n] # NIL
       PROVE  pre[sibling[n]] = upto[n] ++ sep[n]
  <2>1. PICK p \in Live : p = parent[n]
    BY <1>2, <1>13 DEF TreeOK, SiblingsOK
  <2>2. PICK c : c = Children(p)
    OBVIOUS
  <2>3. PICK i \in 1 .. Len(c) : c[i] = n
    BY <2>1, <2>2, ChildOrder
  <2>4. Len(c) \in Nat /\ i + 1 \in 1 .. Len(c) /\ sibling[n] = c[i + 1] /\ i \in 0 .. Len(c)
    BY <1>13, <2>2, <2>3, ChildOrder
  <2>5. PICK a, b, j, e : a = pre[p] /\ b = op[p] /\ j = jj(p)[i] /\ e = sep[n]
    OBVIOUS
  <2>6. a \in Seq(Token) /\ b \in Seq(Token) /\ j \in Seq(Token) /\ e \in Seq(Token)
    BY <1>1, <1>3, <1>6, <2>2, <2>4, <2>5 DEF Joins
  <2>7. upto[n] = a ++ (b ++ j)
    BY <1>9, <2>2, <2>3, <2>5
  <2>8. Ahead(p, i + 1) = j ++ e
    <3>1. i + 1 # 1 /\ (i + 1) - 1 = i
      BY <2>4
    <3> QED BY <2>2, <2>3, <2>5, <3>1 DEF Ahead, Lead
  <2>9. pre[sibling[n]] = a ++ (b ++ (j ++ e))
    BY <1>9, <2>2, <2>4, <2>5, <2>8
  <2>10. (a ++ (b ++ j)) ++ e = a ++ (b ++ (j ++ e))
    BY <2>6, CatFacts
  <2> QED BY <2>5, <2>7, <2>9, <2>10
<1>14. Places(op, cl, sep, pre, upto)
  BY <1>6, <1>8, <1>10, <1>11, <1>12, <1>13 DEF Places
<1> QED BY <1>10, <1>14

----------------------------------------------------------------------------
(* What a writer has emitted: the first pass counts only, so many marks.    *)

Marks(l) == [i \in 1 .. l |-> "scalar"]

LEMMA MarksFacts ==
  /\ Marks(0) = <<>>
  /\ \A l \in Nat : Marks(l) \in Seq(Token) /\ Len(Marks(l)) = l
  /\ \A k, l \in Nat : Marks(k) ++ Marks(l) = Marks(k + l)
<1>1. "scalar" \in Token
  BY Zenon DEF Token, Punctuation
<1>2. ASSUME NEW l \in Nat
      PROVE  Marks(l) \in Seq(Token) /\ Len(Marks(l)) = l /\ \A i \in 1 .. l : Marks(l)[i] = "scalar"
  <2>1. PICK m \in Token : m = "scalar"
    BY <1>1
  <2>2. [i \in 1 .. l |-> m] \in Seq(Token) /\ Len([i \in 1 .. l |-> m]) = l
    OBVIOUS
  <2> QED BY <2>1, <2>2 DEF Marks
<1>3. ASSUME NEW k \in Nat, NEW l \in Nat
      PROVE  Marks(k) ++ Marks(l) = Marks(k + l)
  <2>1. PICK a, b, c : a = Marks(k) /\ b = Marks(l) /\ c = Marks(k + l)
    OBVIOUS
  <2>2. /\ a \in Seq(Token) /\ b \in Seq(Token) /\ c \in Seq(Token)
        /\ Len(a) = k /\ Len(b) = l /\ Len(c) = k + l
        /\ \A i \in 1 .. k : a[i] = "scalar"
        /\ \A i \in 1 .. l : b[i] = "scalar"
        /\ \A i \in 1 .. k + l : c[i] = "scalar"
    BY <1>2, <2>1
  <2>3. /\ a \o b \in Seq(Token) /\ Len(a \o b) = k + l
        /\ \A i \in 1 .. k + l : (a \o b)[i] = IF i <= k THEN a[i] ELSE b[i - k]
    BY <2>2, ConcatProperties
  <2>4. \A i \in 1 .. k + l : (a \o b)[i] = "scalar"
    BY <2>2, <2>3
  <2>5. PICK x \in Seq(Token) : x = a \o b
    BY <2>3
  <2>6. Len(x) = Len(c) /\ \A i \in 1 .. Len(x) : x[i] = c[i]
    BY <2>2, <2>3, <2>4, <2>5
  <2>7. x = c
    BY <2>2, <2>5, <2>6, SeqEqual
  <2> QED BY <2>1, <2>5, <2>7 DEF ++
<1>4. Marks(0) = <<>>
  <2>1. Marks(0) \in Seq(Token) /\ Len(Marks(0)) = 0
    BY <1>2
  <2> QED BY <2>1, EmptySeq
<1> QED BY <1>2, <1>3, <1>4

Emitted(w) == IF w.pass = "evaluate" THEN Marks(w.length) ELSE w.out

(* What a token is in a pass, with or without white space, at an indention. *)
Piece(p, compact, l, t) ==
  IF p = "evaluate" THEN Marks(Calculated([compact |-> compact, indention |-> l], t))
  ELSE Tokens(t)

SameCall(w, v) ==
  /\ v \in Writer /\ v.job = w.job /\ v.pass = w.pass /\ v.compact = w.compact
  /\ w.pass = "evaluate" => v.out = w.out
  /\ w.pass # "evaluate" => v.length = w.length

(* v is w with e added, indented by l.                                      *)
Adds(w, v, e, l) ==
  SameCall(w, v) /\ Emitted(v) = Emitted(w) ++ e /\ v.indention = l /\ e \in Seq(Token)

LEMMA EmittedType ==
  ASSUME NEW w \in Writer
  PROVE  Emitted(w) \in Seq(Token) /\ w.length \in Nat /\ w.indention \in Nat
BY WriterFields, MarksFacts DEF Emitted

LEMMA AddsOn ==
  ASSUME NEW w \in Writer, NEW v, NEW e, NEW l, Adds(w, v, e, l),
         NEW x, NEW f, NEW m, Adds(v, x, f, m)
  PROVE  Adds(w, x, e ++ f, m)
<1>1. SameCall(w, x)
  BY DEF Adds, SameCall
<1>2. PICK a \in Seq(Token) : a = Emitted(w)
  BY EmittedType
<1>3. e \in Seq(Token) /\ f \in Seq(Token) /\ Emitted(x) = (a ++ e) ++ f /\ x.indention = m
  BY <1>2 DEF Adds
<1>4. (a ++ e) ++ f = a ++ (e ++ f) /\ e ++ f \in Seq(Token)
  BY <1>3, CatFacts
<1> QED BY <1>1, <1>2, <1>3, <1>4 DEF Adds

(* Only the format and the indention count.                                 *)
LEMMA CalculatedSame ==
  ASSUME NEW w \in Writer, NEW t \in Putable
  PROVE  /\ Calculated(w, t) \in Nat
         /\ Calculated([compact |-> w.compact, indention |-> w.indention], t) = Calculated(w, t)
<1>1. PICK u : u = [compact |-> w.compact, indention |-> w.indention]
  OBVIOUS
<1>2. u.compact = w.compact /\ u.indention = w.indention
  BY <1>1
<1>3. Calculated(u, t) = Calculated(w, t)
  <2>1. CASE t \in Punctuation /\ t \notin Names /\ t \notin {"string", "scalar", "newline"}
    BY <2>1, Zenon DEF Calculated
  <2>2. CASE t \in Names /\ t \notin Punctuation /\ t \notin {"string", "scalar", "newline"}
    <3>1. Calculated(u, t) = TextLength + (IF u.compact THEN 3 ELSE 4)
      BY <2>2, Zenon DEF Calculated
    <3>2. Calculated(w, t) = TextLength + (IF w.compact THEN 3 ELSE 4)
      BY <2>2, Zenon DEF Calculated
    <3> QED BY <1>2, <3>1, <3>2
  <2>3. CASE t \in {"string", "scalar", "newline"} /\ t \notin Names /\ t \notin Punctuation
    <3>1. CASE t = "string"
      BY <2>3, <3>1, Zenon DEF Calculated
    <3>2. CASE t = "scalar"
      BY <2>3, <3>2, Zenon DEF Calculated
    <3>3. CASE t = "newline"
      <4>1. Calculated(u, t) = IF u.compact THEN 0 ELSE u.indention + 1
        BY <2>3, <3>3, Zenon DEF Calculated
      <4>2. Calculated(w, t) = IF w.compact THEN 0 ELSE w.indention + 1
        BY <2>3, <3>3, Zenon DEF Calculated
      <4> QED BY <1>2, <4>1, <4>2
    <3> QED BY <2>3, <3>1, <3>2, <3>3
  <2> QED BY <2>1, <2>2, <2>3, PutableCases
<1> QED BY <1>1, <1>3, SameLength

LEMMA PutAdds ==
  ASSUME NEW w \in Writer, NEW t \in Putable
  PROVE  Adds(w, Put(w, t), Piece(w.pass, w.compact, w.indention, t), w.indention)
<1>1. PICK v, e : v = Put(w, t) /\ e = Piece(w.pass, w.compact, w.indention, t)
  OBVIOUS
<1>2. PICK l, m, o : /\ l = w.length + Calculated(w, t) /\ m = w.written + WrittenLength(w, t)
                     /\ o = w.out \o Tokens(t)
  OBVIOUS
<1>3. v \in Writer /\ v.indention = w.indention
  BY <1>1, PutFields
<1>4. CASE w.pass = "evaluate"
  <2>1. v = [w EXCEPT !.length = l]
    <3>1. v = [w EXCEPT !.length = w.length + Calculated(w, t)]
      BY <1>1, <1>4, Zenon DEF Put
    <3> QED BY <1>2, <3>1, Zenon
  <2>2. /\ v.job = w.job /\ v.pass = w.pass /\ v.compact = w.compact /\ v.out = w.out
        /\ v.length = l
    BY <2>1, Zenon DEF Writer
  <2>3. SameCall(w, v)
    BY <1>3, <1>4, <2>2 DEF SameCall
  <2>4. Calculated(w, t) \in Nat /\ w.length \in Nat /\ e = Marks(Calculated(w, t))
    BY <1>1, <1>4, CalculatedSame, WriterFields DEF Piece
  <2>5. e \in Seq(Token) /\ Marks(l) = Marks(w.length) ++ e
    BY <1>2, <2>4, MarksFacts
  <2>6. Emitted(v) = Emitted(w) ++ e
    BY <1>4, <2>2, <2>5 DEF Emitted
  <2> QED BY <1>1, <1>3, <2>3, <2>5, <2>6 DEF Adds
<1>5. CASE w.pass # "evaluate"
  <2>1. v = [w EXCEPT !.written = m, !.out = o]
    <3>1. v = [w EXCEPT !.written = w.written + WrittenLength(w, t), !.out = w.out \o Tokens(t)]
      BY <1>1, <1>5, Zenon DEF Put
    <3> QED BY <1>2, <3>1, Zenon
  <2>2. /\ v.job = w.job /\ v.pass = w.pass /\ v.compact = w.compact /\ v.out = o
        /\ v.length = w.length
    BY <2>1, Zenon DEF Writer
  <2>3. SameCall(w, v)
    BY <1>3, <1>5, <2>2 DEF SameCall
  <2>4. e = Tokens(t) /\ e \in Seq(Token)
    BY <1>1, <1>5, TokensType DEF Piece
  <2>5. Emitted(v) = Emitted(w) ++ e
    BY <1>2, <1>5, <2>2, <2>4 DEF Emitted, ++
  <2> QED BY <1>1, <1>3, <2>3, <2>4, <2>5 DEF Adds
<1> QED BY <1>4, <1>5

LEMMA IndentAdds ==
  ASSUME NEW w \in Writer
  PROVE  /\ Adds(w, Indent(w), <<>>, w.indention + TabSize)
         /\ w.indention >= TabSize => Adds(w, Unindent(w), <<>>, w.indention - TabSize)
<1>1. ASSUME NEW l \in Nat
      PROVE  Adds(w, [w EXCEPT !.indention = l], <<>>, l)
  <2>1. PICK v : v = [w EXCEPT !.indention = l]
    OBVIOUS
  <2>2. /\ v \in Writer /\ v.job = w.job /\ v.pass = w.pass /\ v.compact = w.compact
        /\ v.out = w.out /\ v.length = w.length /\ v.indention = l
    BY <2>1, Zenon DEF Writer
  <2>3. Emitted(v) = Emitted(w) /\ Emitted(w) \in Seq(Token)
    BY <2>2, EmittedType DEF Emitted
  <2> QED BY <2>1, <2>2, <2>3, CatFacts DEF Adds, SameCall
<1>2. /\ w.indention + TabSize \in Nat
      /\ w.indention >= TabSize => w.indention - TabSize \in Nat
  BY WriterFields DEF TabSize
<1>3. PICK i, u : i = w.indention + TabSize /\ u = w.indention - TabSize
  OBVIOUS
<1>4. Indent(w) = [w EXCEPT !.indention = i] /\ Unindent(w) = [w EXCEPT !.indention = u]
  <2>1. /\ Indent(w) = [w EXCEPT !.indention = w.indention + TabSize]
        /\ Unindent(w) = [w EXCEPT !.indention = w.indention - TabSize]
    BY Zenon DEF Indent, Unindent
  <2> QED BY <1>3, <2>1, Zenon
<1>5. i \in Nat /\ (w.indention >= TabSize => u \in Nat)
  BY <1>2, <1>3
<1>6. Adds(w, Indent(w), <<>>, i) /\ (u \in Nat => Adds(w, Unindent(w), <<>>, u))
  BY <1>1, <1>4, <1>5, Zenon
<1> QED BY <1>3, <1>5, <1>6

LEMMA PieceType ==
  ASSUME NEW p, NEW compact \in BOOLEAN, NEW l \in Nat, NEW t \in Putable
  PROVE  Piece(p, compact, l, t) \in Seq(Token)
<1>1. PICK w : w = [NoWriter EXCEPT !.compact = compact, !.indention = l]
  OBVIOUS
<1>2. w \in Writer /\ w.compact = compact /\ w.indention = l
  BY <1>1, StartWriter, Zenon DEF Writer
<1>3. Calculated([compact |-> compact, indention |-> l], t) \in Nat
  BY <1>2, CalculatedSame
<1> QED BY <1>3, MarksFacts, TokensType DEF Piece

============================================================================
