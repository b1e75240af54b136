------------------------- MODULE JesRenderingProofs ------------------------
(***************************************************************************)
(* Proofs about what rendering puts out and what a load reads.  Every       *)
(* element has its place in the text, which the structure of the tree alone *)
(* gives; every turn of a pass leads from one place to the next; and the    *)
(* text and the length that JesSerializer computes level by level are what  *)
(* is behind the last place.  The two passes are one proof: the first emits *)
(* marks, the second tokens.  The parser is in the same text: each token it *)
(* takes moves it on, whatever is appended to the tree on the way.          *)
(***************************************************************************)
EXTENDS JesSerializerProofs

----------------------------------------------------------------------------
(* Where a pass is in the text.                                             *)

(* What is in front of the children of an element, behind them, and between *)
(* the element and its right neighbour.                                     *)
Layout(p, compact, d, op, cl, sep) ==
  /\ op \in [Live -> Seq(Token)] /\ cl \in [Live -> Seq(Token)] /\ sep \in [Live -> Seq(Token)]
  /\ \A n \in Live :
       LET l == TabSize * d[n]
           One(t) == Piece(p, compact, l, t)
       IN
       /\ sep[n] = One(CommaToken) ++ One("newline")
       /\ type[n] = "KEY" => op[n] = One(key[n]) /\ cl[n] = <<>>
       /\ type[n] = "SCALAR" => op[n] = One(ScalarText(n)) /\ cl[n] = <<>>
       /\ type[n] \in Container /\ first_child[n] # NIL =>
            /\ op[n] = One(Opening(n)) ++ Piece(p, compact, l + TabSize, "newline")
            /\ cl[n] = One("newline") ++ One(Closing(n))
       /\ type[n] \in Container /\ first_child[n] = NIL =>
            op[n] = One(Opening(n)) /\ cl[n] = One(Closing(n))

LEMMA CommaPutable == CommaToken \in Putable /\ "newline" \in Putable
BY PutablePunctuation, Zenon DEF CommaToken

LEMMA LayoutExists ==
  ASSUME LoadedTree, NEW d, IsDepth(d), NEW p, NEW compact \in BOOLEAN
  PROVE  \E op, cl, sep : Layout(p, compact, d, op, cl, sep)
<1> DEFINE One(n, t) == Piece(p, compact, TabSize * d[n], t)
           Break(n) == Piece(p, compact, TabSize * d[n] + TabSize, "newline")
           Op(n) == IF type[n] = "KEY" THEN One(n, key[n])
                    ELSE IF type[n] = "SCALAR" THEN One(n, ScalarText(n))
                    ELSE IF first_child[n] # NIL THEN One(n, Opening(n)) ++ Break(n)
                    ELSE One(n, Opening(n))
           Cl(n) == IF type[n] \notin Container THEN <<>>
                    ELSE IF first_child[n] # NIL THEN One(n, "newline") ++ One(n, Closing(n))
                    ELSE One(n, Closing(n))
<1>1. ASSUME NEW n \in Live, NEW t \in Putable
      PROVE  One(n, t) \in Seq(Token) /\ Break(n) \in Seq(Token)
  <2>1. d[n] \in Nat
    BY DEF IsDepth
  <2>2. PICK l, m : l = TabSize * d[n] /\ m = TabSize * d[n] + TabSize
    OBVIOUS
  <2>3. l \in Nat /\ m \in Nat
    BY <2>1, <2>2 DEF TabSize
  <2> QED BY <2>2, <2>3, PieceType, CommaPutable
<1> HIDE DEF One, Break
<1>2. ASSUME NEW n \in Live
      PROVE  Op(n) \in Seq(Token) /\ Cl(n) \in Seq(Token) /\ One(n, CommaToken) ++ One(n, "newline") \in Seq(Token)
  <2>1. /\ Opening(n) \in Putable /\ Closing(n) \in Putable /\ ScalarText(n) \in Putable
        /\ CommaToken \in Putable /\ "newline" \in Putable
        /\ type[n] = "KEY" => key[n] \in Putable
    <3>1. type[n] = "KEY" => key[n] \in Putable
      BY LoadedFacts, PutablePunctuation, Zenon
    <3> QED BY <3>1, OpeningClosing, CommaPutable
  <2>2. /\ One(n, Opening(n)) \in Seq(Token) /\ One(n, Closing(n)) \in Seq(Token)
        /\ One(n, ScalarText(n)) \in Seq(Token) /\ One(n, CommaToken) \in Seq(Token)
        /\ One(n, "newline") \in Seq(Token) /\ Break(n) \in Seq(Token)
        /\ type[n] = "KEY" => One(n, key[n]) \in Seq(Token)
    BY <1>1, <2>1
  <2>3. /\ One(n, Opening(n)) ++ Break(n) \in Seq(Token)
        /\ One(n, "newline") ++ One(n, Closing(n)) \in Seq(Token)
        /\ One(n, CommaToken) ++ One(n, "newline") \in Seq(Token)
        /\ <<>> \in Seq(Token)
    BY <2>2, CatFacts
  <2> QED BY <2>2, <2>3
<1>3. PICK op, cl, sep : /\ op = [n \in Live |-> Op(n)] /\ cl = [n \in Live |-> Cl(n)]
                         /\ sep = [n \in Live |-> One(n, CommaToken) ++ One(n, "newline")]
  OBVIOUS
<1>4. op \in [Live -> Seq(Token)] /\ cl \in [Live -> Seq(Token)] /\ sep \in [Live -> Seq(Token)]
  <2> HIDE DEF Op, Cl
  <2> QED BY <1>2, <1>3
<1>5. ASSUME NEW n \in Live
      PROVE  /\ sep[n] = One(n, CommaToken) ++ One(n, "newline")
             /\ type[n] = "KEY" => op[n] = One(n, key[n]) /\ cl[n] = <<>>
             /\ type[n] = "SCALAR" => op[n] = One(n, ScalarText(n)) /\ cl[n] = <<>>
             /\ type[n] \in Container /\ first_child[n] # NIL =>
                  /\ op[n] = One(n, Opening(n)) ++ Break(n)
                  /\ cl[n] = One(n, "newline") ++ One(n, Closing(n))
             /\ type[n] \in Container /\ first_child[n] = NIL =>
                  op[n] = One(n, Opening(n)) /\ cl[n] = One(n, Closing(n))
  BY <1>3 DEF Container
<1>6. Layout(p, compact, d, op, cl, sep)
  BY <1>4, <1>5 DEF Layout, One, Break
<1> QED BY <1>6

Stands(w, e, l) == w \in Writer /\ Emitted(w) = e /\ w.indention = l

LEMMA StandsOn ==
  ASSUME NEW w, NEW e, NEW l, Stands(w, e, l), NEW v, NEW f, NEW m, Adds(w, v, f, m)
  PROVE  Stands(v, e ++ f, m) /\ SameCall(w, v)
BY DEF Stands, Adds, SameCall

(* A configuration of a pass that has met no error: in front of an element, *)
(* behind one, or at the end.  Behind a key without a value the pass goes   *)
(* on to an error.                                                          *)
Valueless(n) == TypeOf(n) = "KEY" /\ first_child[n] = NIL

Before(c, d, pre) ==
  LET n == NextElement(c.iter) IN
  /\ c.pc = "render" /\ c.state \in {"EXPECT_KEY", "EXPECT_VALUE"} /\ c.iter \in Live \cup {NIL}
  /\ c.state = "EXPECT_KEY" => TypeOf(c.iter) # "KEY"
  /\ ~Valueless(c.iter) /\ n # NIL => Stands(c.writer, pre[n], TabSize * d[n])

Behind(c, d, upto) ==
  /\ c.pc = "render" /\ c.state = "HAVE_VALUE" /\ c.iter \in Live
  /\ first_child[c.iter] = NIL /\ type[c.iter] # "KEY"
  /\ Stands(c.writer, upto[c.iter], TabSize * d[c.iter])

Over(c, upto) == c.pc = "pass_end" /\ Emitted(c.writer) = upto[root]

IsAt(c, d, pre, upto) ==
  /\ c.writer \in Writer /\ c.status = "NO_ERROR"
  /\ Before(c, d, pre) \/ Behind(c, d, upto) \/ Over(c, upto)

Placed(w, d, pre, upto) ==
  \E op, cl, sep : /\ Layout(w.pass, w.compact, d, op, cl, sep)
                   /\ Places(op, cl, sep, pre, upto)

(* Behind a key without a value comes a key, or nothing.                    *)
LEMMA ValuelessNext ==
  ASSUME LoadedTree, WellKnown, NEW n \in Live, Valueless(n)
  PROVE  TypeOf(NextElement(n)) \in {"KEY", "UNKNOWN"}
<1>1. /\ type[n] = "KEY" /\ first_child[n] = NIL /\ NIL \notin Live /\ JsonShape /\ TreeOK
      /\ parent[n] \in Live /\ type[parent[n]] = "OBJECT" /\ TreeShape
  BY LoadedFacts DEF Valueless, TypeOf
<1>2. CASE sibling[n] # NIL
  <2>1. PICK s \in Live : s = sibling[n] /\ NextElement(n) = s
    BY <1>1, <1>2, LinkFacts DEF NextElement
  <2>2. parent[s] = parent[n]
    BY <1>1, <1>2, <2>1 DEF TreeOK, SiblingsOK
  <2>3. type[s] = "KEY"
    BY <1>1, <2>1, <2>2 DEF JsonShape
  <2> QED BY <1>1, <2>1, <2>3 DEF TypeOf
<1>3. CASE sibling[n] = NIL
  <2>1. NextElement(n) = BehindBranch(n)
    BY <1>1, <1>3 DEF NextElement
  <2>2. TurningPoint(n) = NIL \/ type[BehindBranch(n)] = "KEY"
    BY <1>1, <1>3 DEF WellKnown, TakesForeignValue
  <2>3. TurningPoint(n) = NIL => BehindBranch(n) = NIL
    BY DEF BehindBranch
  <2> QED BY <1>1, <2>1, <2>2, <2>3 DEF TypeOf
<1> QED BY <1>2, <1>3

LEMMA KeyTurnGoes ==
  ASSUME LoadedTree, WellKnown, NEW d, IsDepth(d), NEW pre, NEW upto, NEW c, NEW e,
         Placed(c.writer, d, pre, upto), IsAt(c, d, pre, upto), c.pc = "render",
         KeyTurn(c, e), e.status = "NO_ERROR"
  PROVE  IsAt(e, d, pre, upto) /\ SameCall(c.writer, e.writer)
<1>1. PICK n : n = NextElement(c.iter)
  OBVIOUS
<1>2. /\ c.state = "EXPECT_KEY" /\ NIL \notin Live
      /\ TypeOf(n) = "KEY" /\ e = To("EXPECT_VALUE", n, c.status, Put(c.writer, key[n]))
  <2>1. Lost(c, n).status = "UNEXPECTED_ELEMENT"
    BY ToFields DEF Lost
  <2> QED BY <1>1, <2>1, LoadedFacts DEF KeyTurn
<1>3. /\ c.writer \in Writer /\ c.status = "NO_ERROR" /\ Before(c, d, pre)
  BY <1>2 DEF IsAt, Behind, Over
<1>4. n \in Live /\ type[n] = "KEY" /\ key[n] \in Names /\ n # NIL
  <2>1. n \in Live \cup {NIL}
    BY <1>1, <1>3, NextElementLemma DEF Before
  <2> QED BY <1>2, <2>1, LoadedFacts DEF TypeOf
<1>5. ~Valueless(c.iter)
  BY <1>2, <1>3 DEF Before, Valueless
<1>6. Stands(c.writer, pre[n], TabSize * d[n])
  BY <1>1, <1>3, <1>4, <1>5 DEF Before
<1>7. PICK op, cl, sep : /\ Layout(c.writer.pass, c.writer.compact, d, op, cl, sep)
                         /\ Places(op, cl, sep, pre, upto)
  BY DEF Placed
<1>8. PICK l, w : l = TabSize * d[n] /\ w = Put(c.writer, key[n])
  OBVIOUS
<1>9. op[n] = Piece(c.writer.pass, c.writer.compact, l, key[n])
  BY <1>4, <1>7, <1>8 DEF Layout
<1>10. Adds(c.writer, w, op[n], l)
  <2>1. key[n] \in Putable
    BY <1>4, PutablePunctuation, Zenon
  <2> QED BY <1>3, <1>6, <1>8, <1>9, <2>1, PutAdds DEF Stands
<1>11. Stands(w, pre[n] ++ op[n], l) /\ SameCall(c.writer, w)
  BY <1>6, <1>8, <1>10, StandsOn
<1>12. e.writer = w /\ e.iter = n /\ e.state = "EXPECT_VALUE" /\ e.pc = "render" /\ e.status = "NO_ERROR"
  BY <1>2, <1>3, <1>4, <1>8, ToFields
<1>13. ASSUME first_child[n] # NIL
       PROVE  Stands(w, pre[NextElement(n)], TabSize * d[NextElement(n)])
  <2>1. PICK m \in Live : m = first_child[n] /\ NextElement(n) = m /\ parent[m] = n
    BY <1>4, <1>13, NextCases, LoadedFacts DEF TreeOK, EndsOK
  <2>2. pre[m] = pre[n] ++ op[n]
    BY <1>4, <1>7, <1>13, <2>1 DEF Places
  <2>3. d[m] = d[n]
    <3>1. Inside(n) = 0 /\ d[n] \in Nat
      BY <1>4 DEF Inside, Container, IsDepth
    <3> QED BY <1>4, <2>1, <3>1 DEF IsDepth
  <2> QED BY <1>8, <1>11, <2>1, <2>2, <2>3
<1>14. Before(e, d, pre)
  <2>1. ~Valueless(n) => first_child[n] # NIL
    BY <1>2 DEF Valueless
  <2> QED BY <1>4, <1>12, <1>13, <2>1 DEF Before
<1> QED BY <1>11, <1>12, <1>14 DEF IsAt, Stands

(* What an opening, a line and an indention, and a closing add.             *)
LEMMA OpenedAdds ==
  ASSUME NEW w \in Writer, NEW l \in Nat, w.indention = l, NEW t \in Putable
  PROVE  Adds(w, PutNewLine(Indent(Put(w, t))),
              Piece(w.pass, w.compact, l, t) ++ Piece(w.pass, w.compact, l + TabSize, "newline"),
              l + TabSize)
<1>1. PICK u, v, m : u = Put(w, t) /\ v = Indent(u) /\ m = l + TabSize
  OBVIOUS
<1>2. PICK a, b : a = Piece(w.pass, w.compact, l, t) /\ b = Piece(w.pass, w.compact, m, "newline")
  OBVIOUS
<1>3. Adds(w, u, a, l) /\ u \in Writer /\ u.pass = w.pass /\ u.compact = w.compact
  BY <1>1, <1>2, PutAdds DEF Adds, SameCall
<1>4. Adds(u, v, <<>>, m)
  BY <1>1, <1>3, IndentAdds DEF Adds
<1>5. v \in Writer /\ v.pass = w.pass /\ v.compact = w.compact /\ v.indention = m
  BY <1>3, <1>4 DEF Adds, SameCall
<1>6. Adds(v, PutNewLine(v), b, m)
  BY <1>2, <1>5, PutAdds, CommaPutable DEF PutNewLine
<1>7. Adds(w, v, a ++ <<>>, m)
  BY <1>3, <1>4, AddsOn
<1>8. a ++ <<>> = a
  BY <1>3, CatFacts DEF Adds
<1>9. Adds(w, PutNewLine(v), a ++ b, m)
  BY <1>6, <1>7, <1>8, AddsOn
<1> QED BY <1>1, <1>2, <1>9

LEMMA TwoPutAdds ==
  ASSUME NEW w \in Writer, NEW l \in Nat, w.indention = l, NEW s \in Putable, NEW t \in Putable
  PROVE  Adds(w, Put(Put(w, s), t),
              Piece(w.pass, w.compact, l, s) ++ Piece(w.pass, w.compact, l, t), l)
<1>1. PICK u : u = Put(w, s)
  OBVIOUS
<1>2. PICK a, b : a = Piece(w.pass, w.compact, l, s) /\ b = Piece(w.pass, w.compact, l, t)
  OBVIOUS
<1>3. Adds(w, u, a, l) /\ u \in Writer /\ u.pass = w.pass /\ u.compact = w.compact /\ u.indention = l
  BY <1>1, <1>2, PutAdds DEF Adds, SameCall
<1>4. Adds(u, Put(u, t), b, l)
  BY <1>2, <1>3, PutAdds
<1>5. Adds(w, Put(u, t), a ++ b, l)
  BY <1>3, <1>4, AddsOn
<1> QED BY <1>1, <1>2, <1>5

LEMMA ClosingAdds ==
  ASSUME NEW w \in Writer, NEW l \in Nat, w.indention = l + TabSize, NEW t \in Putable
  PROVE  Adds(w, Put(PutNewLine(Unindent(w)), t),
              Piece(w.pass, w.compact, l, "newline") ++ Piece(w.pass, w.compact, l, t), l)
<1>1. PICK u : u = Unindent(w)
  OBVIOUS
<1>2. PICK e : e = Piece(w.pass, w.compact, l, "newline") ++ Piece(w.pass, w.compact, l, t)
  OBVIOUS
<1>3. w.indention >= TabSize /\ w.indention - TabSize = l
  BY DEF TabSize
<1>4. Adds(w, u, <<>>, l)
  BY <1>1, <1>3, IndentAdds
<1>5. u \in Writer /\ u.pass = w.pass /\ u.compact = w.compact /\ u.indention = l
  BY <1>4 DEF Adds, SameCall
<1>6. Adds(u, Put(PutNewLine(u), t), e, l)
  BY <1>2, <1>5, TwoPutAdds, CommaPutable DEF PutNewLine
<1>7. Adds(w, Put(PutNewLine(u), t), <<>> ++ e, l)
  BY <1>4, <1>6, AddsOn
<1>8. <<>> ++ e = e
  BY <1>6, CatFacts DEF Adds
<1> QED BY <1>1, <1>2, <1>7, <1>8

LEMMA ValueTurnGoes ==
  ASSUME LoadedTree, WellKnown, NEW d, IsDepth(d), NEW pre, NEW upto, NEW c, NEW e,
         Placed(c.writer, d, pre, upto), IsAt(c, d, pre, upto), c.pc = "render",
         ValueTurn(c, e), e.status = "NO_ERROR"
  PROVE  IsAt(e, d, pre, upto) /\ SameCall(c.writer, e.writer)
<1>1. PICK n, w : n = NextElement(c.iter) /\ w = c.writer
  OBVIOUS
<1>2. /\ c.state = "EXPECT_VALUE" /\ NIL \notin Live
      /\ \/ /\ TypeOf(n) = "SCALAR" /\ e = To("HAVE_VALUE", n, c.status, Put(w, ScalarText(n)))
         \/ /\ TypeOf(n) \in Container /\ HasChild(n)
            /\ e = To(Expected(n), n, c.status, PutNewLine(Indent(Put(w, Opening(n)))))
         \/ /\ TypeOf(n) \in Container /\ ~HasChild(n)
            /\ e = To("HAVE_VALUE", n, c.status, Put(Put(w, Opening(n)), Closing(n)))
  <2>1. Lost(c, n).status = "UNEXPECTED_ELEMENT"
    BY ToFields DEF Lost
  <2> QED BY <1>1, <2>1, LoadedFacts DEF ValueTurn
<1>3. /\ w \in Writer /\ c.status = "NO_ERROR" /\ Before(c, d, pre)
  BY <1>1, <1>2 DEF IsAt, Behind, Over
<1>4. TypeOf(n) \in {"SCALAR"} \cup Container /\ TypeOf(n) \notin {"KEY", "UNKNOWN"}
  BY <1>2 DEF Container
<1>5. n \in Live /\ TypeOf(n) = type[n] /\ n # NIL
  <2>1. n \in Live \cup {NIL}
    BY <1>1, <1>3, NextElementLemma DEF Before
  <2> QED BY <1>2, <1>4, <2>1, LoadedFacts DEF TypeOf
<1>6. ~Valueless(c.iter)
  <2> SUFFICES ASSUME Valueless(c.iter) PROVE FALSE
    OBVIOUS
  <2>1. c.iter \in Live
    BY <1>3 DEF Before, Valueless, TypeOf
  <2> QED BY <1>1, <1>4, <2>1, ValuelessNext
<1>7. Stands(w, pre[n], TabSize * d[n])
  BY <1>1, <1>3, <1>5, <1>6 DEF Before
<1>8. PICK op, cl, sep : /\ Layout(w.pass, w.compact, d, op, cl, sep)
                         /\ Places(op, cl, sep, pre, upto)
  BY <1>1 DEF Placed
<1>9. d[n] \in Nat /\ d \in [Live -> Nat]
  BY <1>5 DEF IsDepth
<1>10. PICK l \in Nat : l = TabSize * d[n]
  BY <1>9 DEF TabSize
<1>11. w.indention = l
  BY <1>7, <1>10 DEF Stands
<1>12. /\ Opening(n) \in Putable /\ Closing(n) \in Putable /\ ScalarText(n) \in Putable
       /\ Expected(n) \in {"EXPECT_KEY", "EXPECT_VALUE"}
       /\ Expected(n) = "EXPECT_KEY" => TypeOf(n) = "OBJECT"
  BY OpeningClosing DEF Expected
<1>13. HasChild(n) <=> first_child[n] # NIL
  BY <1>5 DEF HasChild
<1>14. /\ pre[n] \in Seq(Token) /\ op[n] \in Seq(Token) /\ cl[n] \in Seq(Token)
  BY <1>5, <1>8 DEF Layout, Places
<1>15. CASE TypeOf(n) = "SCALAR" /\ e = To("HAVE_VALUE", n, c.status, Put(w, ScalarText(n)))
  <2>1. PICK v : v = Put(w, ScalarText(n))
    OBVIOUS
  <2>2. op[n] = Piece(w.pass, w.compact, l, ScalarText(n)) /\ cl[n] = <<>>
    BY <1>5, <1>8, <1>10, <1>15 DEF Layout
  <2>3. Adds(w, v, op[n], l)
    BY <1>3, <1>11, <1>12, <2>1, <2>2, PutAdds
  <2>4. Stands(v, pre[n] ++ op[n], l) /\ SameCall(w, v)
    BY <1>7, <1>10, <2>3, StandsOn
  <2>5. first_child[n] = NIL
    BY <1>5, <1>15, LoadedFacts DEF JsonShape
  <2>6. upto[n] = pre[n] ++ op[n]
    <3>1. upto[n] = (pre[n] ++ op[n]) ++ <<>>
      BY <1>5, <1>8, <2>2, <2>5 DEF Places
    <3>2. pre[n] ++ op[n] \in Seq(Token)
      BY <1>14, CatFacts
    <3> QED BY <3>1, <3>2, CatFacts
  <2>7. /\ e.writer = v /\ e.iter = n /\ e.state = "HAVE_VALUE" /\ e.pc = "render"
        /\ e.status = "NO_ERROR"
    BY <1>3, <1>5, <1>15, <2>1, ToFields
  <2>8. Behind(e, d, upto)
    BY <1>4, <1>5, <1>10, <2>4, <2>5, <2>6, <2>7 DEF Behind
  <2> QED BY <1>1, <2>4, <2>7, <2>8 DEF IsAt, Stands
<1>16. CASE /\ TypeOf(n) \in Container /\ HasChild(n)
            /\ e = To(Expected(n), n, c.status, PutNewLine(Indent(Put(w, Opening(n)))))
  <2>1. PICK v : v = PutNewLine(Indent(Put(w, Opening(n))))
    OBVIOUS
  <2>2. op[n] = Piece(w.pass, w.compact, l, Opening(n))
                 ++ Piece(w.pass, w.compact, l + TabSize, "newline")
    BY <1>5, <1>8, <1>10, <1>13, <1>16 DEF Layout
  <2>3. Adds(w, v, op[n], l + TabSize)
    BY <1>3, <1>11, <1>12, <2>1, <2>2, OpenedAdds
  <2>4. Stands(v, pre[n] ++ op[n], l + TabSize) /\ SameCall(w, v)
    BY <1>7, <1>10, <2>3, StandsOn
  <2>5. PICK m \in Live : m = first_child[n] /\ NextElement(n) = m /\ parent[m] = n
    BY <1>5, <1>13, <1>16, NextCases, LoadedFacts DEF TreeOK, EndsOK
  <2>6. pre[m] = pre[n] ++ op[n]
    BY <1>5, <1>8, <1>13, <1>16, <2>5 DEF Places
  <2>7. TabSize * d[m] = l + TabSize
    <3>1. Inside(n) = 1
      BY <1>5, <1>16 DEF Inside
    <3>2. d[m] = d[n] + 1
      BY <1>5, <2>5, <3>1 DEF IsDepth
    <3> QED BY <1>9, <1>10, <3>2 DEF TabSize
  <2>8. /\ e.writer = v /\ e.iter = n /\ e.state = Expected(n) /\ e.pc = "render"
        /\ e.status = "NO_ERROR"
    BY <1>3, <1>5, <1>12, <1>16, <2>1, ToFields
  <2>9. Before(e, d, pre)
    BY <1>4, <1>5, <1>12, <2>4, <2>5, <2>6, <2>7, <2>8 DEF Before
  <2> QED BY <1>1, <2>4, <2>8, <2>9 DEF IsAt, Stands
<1>17. CASE /\ TypeOf(n) \in Container /\ ~HasChild(n)
            /\ e = To("HAVE_VALUE", n, c.status, Put(Put(w, Opening(n)), Closing(n)))
  <2>1. PICK v : v = Put(Put(w, Opening(n)), Closing(n))
    OBVIOUS
  <2>2. /\ op[n] = Piece(w.pass, w.compact, l, Opening(n))
        /\ cl[n] = Piece(w.pass, w.compact, l, Closing(n))
    BY <1>5, <1>8, <1>10, <1>13, <1>17 DEF Layout
  <2>3. Adds(w, v, op[n] ++ cl[n], l)
    BY <1>3, <1>11, <1>12, <2>1, <2>2, TwoPutAdds
  <2>4. Stands(v, pre[n] ++ (op[n] ++ cl[n]), l) /\ SameCall(w, v)
    BY <1>7, <1>10, <2>3, StandsOn
  <2>5. upto[n] = (pre[n] ++ op[n]) ++ cl[n]
    BY <1>5, <1>8, <1>13, <1>17 DEF Places
  <2>6. (pre[n] ++ op[n]) ++ cl[n] = pre[n] ++ (op[n] ++ cl[n])
    BY <1>14, CatFacts
  <2>7. /\ e.writer = v /\ e.iter = n /\ e.state = "HAVE_VALUE" /\ e.pc = "render"
        /\ e.status = "NO_ERROR"
    BY <1>3, <1>5, <1>17, <2>1, ToFields
  <2>8. Behind(e, d, upto)
    BY <1>4, <1>5, <1>10, <1>13, <1>17, <2>4, <2>5, <2>6, <2>7 DEF Behind
  <2> QED BY <1>1, <2>4, <2>7, <2>8 DEF IsAt, Stands
<1> QED BY <1>2, <1>15, <1>16, <1>17

LEMMA CallGoesOn ==
  ASSUME NEW w, NEW v, NEW x, SameCall(w, v), SameCall(v, x)
  PROVE  SameCall(w, x)
BY DEF SameCall

(* A container is closed behind its last child.                             *)
LEMMA CloseOneGoes ==
  ASSUME LoadedTree, NEW d, IsDepth(d), NEW pre, NEW upto, NEW w, Placed(w, d, pre, upto),
         NEW m \in Live, sibling[m] = NIL, parent[m] # NIL, Stands(w, upto[m], TabSize * d[m])
  PROVE  LET v == CloseOne(w, parent[m]) IN
           SameCall(w, v) /\ Stands(v, upto[parent[m]], TabSize * d[parent[m]])
<1>1. PICK a \in Live : a = parent[m]
  BY LoadedFacts
<1>2. TreeOK /\ JsonShape /\ NIL \notin Live /\ type[a] \in ElementType
  BY LoadedFacts
<1>3. last_child[a] = m /\ first_child[a] # NIL
  BY <1>1, <1>2 DEF TreeOK, SiblingsOK, EndsOK
<1>4. PICK op, cl, sep : /\ Layout(w.pass, w.compact, d, op, cl, sep)
                         /\ Places(op, cl, sep, pre, upto)
  BY DEF Placed
<1>5. upto[a] = upto[m] ++ cl[a] /\ upto[m] \in Seq(Token)
  BY <1>1, <1>3, <1>4 DEF Places
<1>6. w \in Writer /\ d[a] \in Nat /\ d[m] = d[a] + Inside(a) /\ a # NIL /\ TypeOf(a) = type[a]
  BY <1>1, <1>2 DEF Stands, IsDepth, TypeOf
<1>7. PICK l \in Nat : l = TabSize * d[a]
  BY <1>6 DEF TabSize
<1>8. type[a] # "SCALAR"
  BY <1>2, <1>3 DEF JsonShape
<1>9. PICK v : v = CloseOne(w, a)
  OBVIOUS
<1>10. CASE type[a] \in Container
  <2>1. w.indention = l + TabSize
    <3>1. d[m] = d[a] + 1
      BY <1>6, <1>10 DEF Inside
    <3> QED BY <1>6, <1>7, <3>1 DEF Stands, TabSize
  <2>2. Closing(a) \in Putable /\ v = Put(PutNewLine(Unindent(w)), Closing(a))
    <3>1. type[a] = "OBJECT" => Closing(a) = "}" /\ v = Put(PutNewLine(Unindent(w)), "}")
      BY <1>6, <1>9, Zenon DEF Closing, CloseOne
    <3>2. type[a] = "ARRAY" => Closing(a) = "]" /\ v = Put(PutNewLine(Unindent(w)), "]")
      BY <1>6, <1>9, Zenon DEF Closing, CloseOne
    <3>3. type[a] = "OBJECT" => v = Put(PutNewLine(Unindent(w)), Closing(a))
      BY <3>1, Zenon
    <3>4. type[a] = "ARRAY" => v = Put(PutNewLine(Unindent(w)), Closing(a))
      BY <3>2, Zenon
    <3> QED BY <1>10, <3>3, <3>4, OpeningClosing DEF Container
  <2>3. cl[a] = Piece(w.pass, w.compact, l, "newline") ++ Piece(w.pass, w.compact, l, Closing(a))
    BY <1>3, <1>4, <1>7, <1>10 DEF Layout
  <2>4. Adds(w, v, cl[a], l)
    BY <1>6, <2>1, <2>2, <2>3, ClosingAdds
  <2>5. Stands(v, upto[m] ++ cl[a], l) /\ SameCall(w, v)
    BY <2>4, StandsOn
  <2> QED BY <1>1, <1>5, <1>7, <1>9, <2>5
<1>11. CASE type[a] \notin Container
  <2>1. type[a] = "KEY"
    BY <1>2, <1>8, <1>11 DEF ElementType, ValueType, Container
  <2>2. v = w
    BY <1>6, <1>9, <1>11, CloseOneCases DEF Container
  <2>3. cl[a] = <<>>
    BY <1>4, <2>1 DEF Layout
  <2>4. upto[a] = upto[m]
    BY <1>5, <2>3, CatFacts
  <2>5. d[a] = d[m]
    BY <1>6, <1>11 DEF Inside
  <2> QED BY <1>1, <1>6, <1>9, <2>2, <2>4, <2>5 DEF SameCall
<1> QED BY <1>10, <1>11

(* No element is above itself.                                              *)
LEMMA LevelOnce ==
  ASSUME LoadedTree, NEW n \in Live, NEW a \in 0 .. Capacity, NEW b \in 0 .. Capacity,
         Level(n, a) = Level(n, b), Level(n, a) \in Live, a < b
  PROVE  FALSE
<1> DEFINE S == {k \in Nat : k <= Capacity /\ Level(n, k) = NIL}
<1>1. /\ Capacity \in Nat /\ NIL \notin Live /\ \A k \in 0 .. Capacity : Level(n, k) \in Live \cup {NIL}
  BY LevelFacts, LoadedFacts
<1>2. Capacity \in S
  BY <1>1, LevelsEnd
<1>3. PICK k \in S : \A j \in S : k <= j
  <2>1. S \subseteq Nat
    OBVIOUS
  <2> HIDE DEF S
  <2> QED BY <1>2, <2>1, LeastLemma
<1>4. k \in Nat /\ k <= Capacity /\ Level(n, k) = NIL
  OBVIOUS
<1>5. b < k
  <2> SUFFICES ASSUME k <= b PROVE FALSE
    BY <1>4
  <2>1. k \in 0 .. Capacity /\ b \in k .. Capacity
    BY <1>1, <1>4
  <2> QED BY <1>1, <1>4, <2>1, LevelNil
<1>6. k - 1 \in Nat /\ k - 1 <= Capacity /\ ~(k <= k - 1)
  <2>1. b \in Nat /\ 0 <= b
    BY <1>1
  <2> HIDE DEF S
  <2> QED BY <1>1, <1>4, <1>5, <2>1
<1>7. Level(n, k - 1) # NIL
  BY <1>3, <1>6
<1>8. PICK s \in Live : s = Level(n, a)
  OBVIOUS
<1>9. PICK i, j : i = (k - 1) - a /\ j = k - b
  OBVIOUS
<1>10. /\ i \in 0 .. Capacity /\ j \in 0 .. Capacity /\ i \in j .. Capacity
       /\ a + i = k - 1 /\ b + j = k /\ a + i <= Capacity /\ b + j <= Capacity
  BY <1>1, <1>4, <1>5, <1>9
<1> HIDE DEF S
<1>11. Level(s, i) = Level(n, k - 1)
  BY <1>8, <1>10, LevelSum
<1>12. Level(s, j) = Level(n, k)
  BY <1>8, <1>10, LevelSum
<1> QED BY <1>4, <1>7, <1>10, <1>11, <1>12, LevelNil

LEMMA CloseUpToGoes ==
  ASSUME LoadedTree, NEW d, IsDepth(d), NEW pre, NEW upto, NEW w, Placed(w, d, pre, upto),
         NEW n \in Live, first_child[n] = NIL, Stands(w, upto[n], TabSize * d[n])
  PROVE  LET v == CloseUpTo(w, StopOf(n), n) IN
           /\ SameCall(w, v)
           /\ StopOf(n) # NIL => Stands(v, upto[StopOf(n)], TabSize * d[StopOf(n)])
           /\ StopOf(n) = NIL => Emitted(v) = upto[root]
<1>1. PICK stop, K : stop = StopOf(n) /\ K = Height(stop, n)
  OBVIOUS
<1>2. /\ NIL \notin Live /\ Capacity \in Nat /\ w \in Writer
      /\ \A m \in Live : parent[m] \in Live \cup {NIL} /\ (parent[m] = NIL <=> m = root)
  BY LoadedFacts, CapacityAssumption DEF Stands
<1>3. /\ K \in 0 .. Capacity /\ (stop # NIL => stop = Level(n, K))
      /\ stop = NIL => K = Capacity
  BY <1>1, <1>2, StopFacts, HeightRange DEF Level, Height
<1>4. PICK f : /\ f[0] = w /\ f[K] = CloseUpTo(w, stop, n)
               /\ \A k \in 1 .. K : f[k] = CloseOne(f[k - 1], Ancestors(n)[k])
  BY <1>1, <1>3, ClosesUp
<1>5. ASSUME NEW k \in 0 .. K - 1, Level(n, k) # NIL
      PROVE  sibling[Level(n, k)] = NIL
  <2>1. k \in 0 .. Capacity
    BY <1>2, <1>3
  <2>2. CASE stop = NIL
    BY <1>1, <1>5, <2>1, <2>2, StopLevel
  <2>3. CASE stop # NIL
    <3>1. PICK i \in 0 .. Capacity :
            /\ Level(n, i) = stop /\ stop \in Live
            /\ \A j \in 0 .. i - 1 : Level(n, j) \in Live /\ sibling[Level(n, j)] = NIL
      BY <1>1, <2>3, StopLevel
    <3>2. ~(i < K) /\ ~(K < i)
      BY <1>3, <2>3, <3>1, LevelOnce
    <3>3. i = K
      BY <1>2, <1>3, <3>2
    <3> QED BY <3>1, <3>3
  <2> QED BY <2>2, <2>3
<1> DEFINE OK(k) == /\ SameCall(w, f[k])
                    /\ Level(n, k) # NIL => Stands(f[k], upto[Level(n, k)], TabSize * d[Level(n, k)])
                    /\ Level(n, k) = NIL => Emitted(f[k]) = upto[root]
           S == {k \in Nat : OK(k)}
<1>6. OK(0)
  BY <1>2, <1>4, LevelFacts DEF SameCall
<1>7. ASSUME NEW k \in 0 .. K - 1, OK(k)
      PROVE  OK(k + 1)
  <2>1. PICK m, x : m = Level(n, k) /\ x = f[k]
    OBVIOUS
  <2>2. /\ k + 1 \in 1 .. K /\ (k + 1) - 1 = k /\ k + 1 # 0
        /\ k \in 0 .. Capacity - 1 /\ k \in 0 .. Capacity
    BY <1>2, <1>3
  <2>3. m \in Live \cup {NIL} /\ Level(n, k + 1) = Above(m)
    BY <2>1, <2>2, LevelFacts
  <2>4. f[k + 1] = CloseOne(x, Above(m))
    BY <1>4, <2>1, <2>2, <2>3 DEF Level
  <2>5. /\ SameCall(w, x)
        /\ m # NIL => Stands(x, upto[m], TabSize * d[m])
        /\ m = NIL => Emitted(x) = upto[root]
    BY <1>7, <2>1
  <2>6. CASE Above(m) = NIL
    <3>1. f[k + 1] = x
      BY <1>2, <2>4, <2>6, CloseOneCases DEF TypeOf, Container
    <3>2. m # NIL => m = root
      BY <1>2, <2>3, <2>6 DEF Above
    <3>3. Emitted(x) = upto[root]
      BY <2>5, <3>2 DEF Stands
    <3> QED BY <2>3, <2>5, <2>6, <3>1, <3>3
  <2>7. CASE Above(m) # NIL
    <3>1. m \in Live /\ Above(m) = parent[m] /\ parent[m] # NIL /\ sibling[m] = NIL
      BY <1>2, <1>5, <2>1, <2>3, <2>7 DEF Above
    <3>2. Placed(x, d, pre, upto)
      BY <2>5 DEF Placed, SameCall
    <3>3. /\ SameCall(x, f[k + 1])
          /\ Stands(f[k + 1], upto[parent[m]], TabSize * d[parent[m]])
      BY <1>2, <2>4, <2>5, <3>1, <3>2, CloseOneGoes
    <3>4. SameCall(w, f[k + 1])
      BY <2>5, <3>3, CallGoesOn
    <3> QED BY <2>3, <2>7, <3>1, <3>3, <3>4
  <2> QED BY <2>6, <2>7
<1>8. 0 .. K \subseteq S
  <2>1. 0 \in S /\ K \in Nat
    BY <1>2, <1>3, <1>6
  <2>2. \A k \in 0 .. K - 1 : k \in S => k + 1 \in S
    <3> HIDE DEF OK
    <3> QED BY <1>7
  <2> HIDE DEF S
  <2> QED BY <2>1, <2>2, SetInduction
<1>9. OK(K)
  <2> HIDE DEF OK
  <2> QED BY <1>2, <1>3, <1>8
<1>10. stop = NIL => Level(n, K) = NIL
  BY <1>3, LevelsEnd
<1> QED BY <1>1, <1>2, <1>3, <1>4, <1>9, <1>10, StopFacts

LEMMA EndTurnGoes ==
  ASSUME LoadedTree, NEW d, IsDepth(d), NEW pre, NEW upto, NEW c, NEW e,
         Placed(c.writer, d, pre, upto), IsAt(c, d, pre, upto), c.pc = "render",
         EndTurn(c, e), e.status = "NO_ERROR"
  PROVE  IsAt(e, d, pre, upto) /\ SameCall(c.writer, e.writer)
<1>1. PICK n, w, stop, v : /\ n = c.iter /\ w = c.writer /\ stop = StopOf(n)
                           /\ v = CloseUpTo(w, stop, n)
  OBVIOUS
<1>2. /\ c.state = "HAVE_VALUE"
      /\ \/ stop = NIL /\ e = To("END", n, c.status, v)
         \/ /\ stop # NIL
            /\ e = To(IF TypeOf(parent[stop]) = "ARRAY" THEN "EXPECT_VALUE" ELSE "EXPECT_KEY",
                      n, c.status, PutNewLine(Put(v, CommaToken)))
  BY <1>1, Zenon DEF EndTurn, CommaToken
<1>3. w \in Writer /\ c.status = "NO_ERROR" /\ Behind(c, d, upto)
  BY <1>1, <1>2 DEF IsAt, Before, Over
<1>4. /\ n \in Live /\ first_child[n] = NIL /\ type[n] # "KEY" /\ NIL \notin Live
      /\ Stands(w, upto[n], TabSize * d[n])
  BY <1>1, <1>3, LoadedFacts DEF Behind
<1>5. /\ SameCall(w, v)
      /\ stop # NIL => Stands(v, upto[stop], TabSize * d[stop])
      /\ stop = NIL => Emitted(v) = upto[root]
  BY <1>1, <1>4, CloseUpToGoes
<1>6. CASE stop = NIL
  <2>1. e = To("END", n, c.status, v)
    BY <1>2, <1>6
  <2>2. e.writer = v /\ e.pc = "pass_end" /\ e.status = "NO_ERROR"
    BY <1>3, <2>1, ToFields
  <2> QED BY <1>1, <1>5, <1>6, <2>2 DEF IsAt, Over, SameCall
<1>7. CASE stop # NIL
  <2>1. PICK s \in {"EXPECT_KEY", "EXPECT_VALUE"} :
          s = IF TypeOf(parent[stop]) = "ARRAY" THEN "EXPECT_VALUE" ELSE "EXPECT_KEY"
    OBVIOUS
  <2>2. PICK x : x = PutNewLine(Put(v, CommaToken))
    OBVIOUS
  <2>3. e = To(s, n, c.status, x)
    BY <1>2, <1>7, <2>1, <2>2
  <2>4. /\ stop \in Live /\ sibling[stop] \in Live /\ NextElement(n) = sibling[stop]
        /\ parent[sibling[stop]] = parent[stop]
    BY <1>1, <1>4, <1>7, StopFacts, LoadedFacts DEF TreeOK, SiblingsOK
  <2>5. PICK op, cl, sep : /\ Layout(w.pass, w.compact, d, op, cl, sep)
                           /\ Places(op, cl, sep, pre, upto)
    BY <1>1 DEF Placed
  <2>6. d[stop] \in Nat /\ d[sibling[stop]] = d[stop]
    BY <2>4 DEF IsDepth
  <2>7. PICK l \in Nat : l = TabSize * d[stop]
    BY <2>6 DEF TabSize
  <2>8. /\ v \in Writer /\ v.pass = w.pass /\ v.compact = w.compact /\ v.indention = l
    BY <1>5, <1>7, <2>7 DEF SameCall, Stands
  <2>9. sep[stop] = Piece(v.pass, v.compact, l, CommaToken) ++ Piece(v.pass, v.compact, l, "newline")
    BY <2>4, <2>5, <2>7, <2>8 DEF Layout
  <2>10. Adds(v, x, sep[stop], l)
    BY <2>2, <2>8, <2>9, TwoPutAdds, CommaPutable DEF PutNewLine
  <2>11. Stands(x, upto[stop] ++ sep[stop], l) /\ SameCall(v, x)
    BY <1>5, <1>7, <2>7, <2>10, StandsOn
  <2>12. pre[sibling[stop]] = upto[stop] ++ sep[stop]
    BY <1>4, <2>4, <2>5 DEF Places
  <2>13. SameCall(w, x)
    BY <1>5, <2>11, CallGoesOn
  <2>14. /\ e.writer = x /\ e.iter = n /\ e.state = s /\ e.pc = "render" /\ e.status = "NO_ERROR"
    BY <1>3, <1>4, <2>1, <2>3, ToFields
  <2>15. TypeOf(n) # "KEY"
    BY <1>4 DEF TypeOf
  <2>16. Before(e, d, pre)
    BY <1>4, <2>1, <2>4, <2>6, <2>7, <2>11, <2>12, <2>14, <2>15 DEF Before
  <2> QED BY <1>1, <2>11, <2>13, <2>14, <2>16 DEF IsAt, Stands
<1> QED BY <1>2, <1>6, <1>7

(* Every turn that meets no error adds the text on the way.                 *)
LEMMA TurnGoes ==
  ASSUME LoadedTree, WellKnown, NEW d, IsDepth(d), NEW pre, NEW upto, NEW c, NEW e,
         Placed(c.writer, d, pre, upto), IsAt(c, d, pre, upto), c.pc = "render",
         Follows(c, e), e.status = "NO_ERROR"
  PROVE  /\ IsAt(e, d, pre, upto) /\ SameCall(c.writer, e.writer)
         /\ Placed(e.writer, d, pre, upto)
<1>1. IsAt(e, d, pre, upto) /\ SameCall(c.writer, e.writer)
  BY KeyTurnGoes, ValueTurnGoes, EndTurnGoes DEF Follows
<1> QED BY <1>1 DEF Placed, SameCall

----------------------------------------------------------------------------
(* How many levels there are above an element.                              *)

IsLevel(e) ==
  /\ e \in [Live -> 0 .. Capacity - 1]
  /\ \A n \in Live : e[n] = IF parent[n] = NIL THEN 0 ELSE e[parent[n]] + 1

LEMMA TopLevel ==
  ASSUME LoadedTree, NEW n \in Live
  PROVE  \E k \in 0 .. Capacity - 1 : Level(n, k) # NIL /\ Level(n, k + 1) = NIL
<1> DEFINE S == {k \in 0 .. Capacity : Level(n, k) = NIL}
<1>1. Capacity \in Nat /\ NIL \notin Live /\ Level(n, 0) = n /\ Capacity \in S
  BY LevelFacts, LoadedFacts, LevelsEnd
<1>2. S \subseteq Nat
  BY <1>1
<1>3. PICK k \in S : \A j \in S : k <= j
  <2> HIDE DEF S
  <2> QED BY <1>1, <1>2, LeastLemma
<1>4. k \in 0 .. Capacity /\ Level(n, k) = NIL /\ k # 0
  BY <1>1
<1>5. k - 1 \in 0 .. Capacity - 1 /\ k - 1 \in 0 .. Capacity /\ (k - 1) + 1 = k /\ ~(k <= k - 1)
  BY <1>1, <1>4
<1>6. Level(n, k - 1) # NIL
  BY <1>3, <1>5
<1> QED BY <1>4, <1>5, <1>6

LEMMA TopLevelOnce ==
  ASSUME LoadedTree, NEW n \in Live, NEW j \in 0 .. Capacity - 1, NEW k \in 0 .. Capacity - 1,
         Level(n, j) # NIL, Level(n, j + 1) = NIL, Level(n, k) # NIL, Level(n, k + 1) = NIL
  PROVE  j = k
<1>1. Capacity \in Nat
  BY LevelFacts
<1>2. ASSUME j < k PROVE FALSE
  <2>1. j + 1 \in 0 .. Capacity /\ k \in j + 1 .. Capacity
    BY <1>1, <1>2
  <2> QED BY <2>1, LevelNil
<1>3. ASSUME k < j PROVE FALSE
  <2>1. k + 1 \in 0 .. Capacity /\ j \in k + 1 .. Capacity
    BY <1>1, <1>3
  <2> QED BY <2>1, LevelNil
<1> QED BY <1>1, <1>2, <1>3

LEMMA IsLevelExists ==
  ASSUME LoadedTree
  PROVE  \E e : IsLevel(e)
<1> DEFINE Top(n, k) == Level(n, k) # NIL /\ Level(n, k + 1) = NIL
           e == [n \in Live |-> CHOOSE k \in 0 .. Capacity - 1 : Top(n, k)]
<1>1. Capacity \in Nat /\ NIL \notin Live /\ \A n \in Live : parent[n] \in Live \cup {NIL}
  BY CapacityAssumption, LoadedFacts
<1>2. ASSUME NEW n \in Live
      PROVE  e[n] \in 0 .. Capacity - 1 /\ Top(n, e[n])
  <2>1. \E k \in 0 .. Capacity - 1 : Top(n, k)
    BY TopLevel
  <2> HIDE DEF Top
  <2> QED BY <2>1
<1>3. ASSUME NEW n \in Live, NEW k \in 0 .. Capacity - 1, Top(n, k)
      PROVE  e[n] = k
  <2>1. PICK j \in 0 .. Capacity - 1 : j = e[n] /\ Top(n, j)
    BY <1>2
  <2> HIDE DEF e
  <2> QED BY <1>3, <2>1, TopLevelOnce
<1>4. e \in [Live -> 0 .. Capacity - 1]
  <2> HIDE DEF Top
  <2> QED BY <1>2
<1> HIDE DEF e
<1>5. ASSUME NEW n \in Live
      PROVE  e[n] = IF parent[n] = NIL THEN 0 ELSE e[parent[n]] + 1
  <2>1. CASE parent[n] = NIL
    <3>1. 0 \in 0 .. Capacity - 1
      BY <1>1, CapacityAssumption
    <3>2. Level(n, 0) = n /\ Level(n, 0 + 1) = Above(n)
      BY <3>1, LevelFacts
    <3>3. Top(n, 0)
      BY <1>1, <2>1, <3>2 DEF Above
    <3> QED BY <1>3, <2>1, <3>1, <3>3
  <2>2. CASE parent[n] # NIL
    <3>1. PICK p, k : p = parent[n] /\ k = e[p]
      OBVIOUS
    <3>2. p \in Live /\ k \in 0 .. Capacity - 1 /\ Level(p, k) # NIL /\ Level(p, k + 1) = NIL
      BY <1>1, <1>2, <2>2, <3>1
    <3>3. Level(n, k + 1) = Level(p, k)
      BY <2>2, <3>1, <3>2, LevelShift
    <3>4. k + 1 # Capacity
      BY <3>2, <3>3, LevelsEnd
    <3>5. k + 1 \in 0 .. Capacity - 1
      BY <1>1, <3>2, <3>4
    <3>6. Level(n, (k + 1) + 1) = Level(p, k + 1)
      BY <2>2, <3>1, <3>5, LevelShift
    <3>7. Top(n, k + 1)
      BY <3>2, <3>3, <3>6
    <3> QED BY <1>3, <2>2, <3>1, <3>5, <3>7
  <2> QED BY <2>1, <2>2
<1> QED BY <1>4, <1>5 DEF IsLevel

(* Not every level is a container.                                          *)
LEMMA DepthInLevel ==
  ASSUME LoadedTree, NEW d, IsDepth(d), NEW e, IsLevel(e), NEW n \in Live
  PROVE  d[n] \in 0 .. e[n]
<1> DEFINE S == {k \in Nat : \A m \in Live : e[m] = k => d[m] <= k}
<1>1. /\ Capacity \in Nat /\ Capacity - 1 \in Nat /\ NIL \notin Live
      /\ \A m \in Live : parent[m] \in Live \cup {NIL}
  BY CapacityAssumption, LoadedFacts
<1>2. \A m \in Live : e[m] \in 0 .. Capacity - 1 /\ d[m] \in Nat /\ Inside(m) \in 0 .. 1
  BY DEF IsLevel, IsDepth, Inside
<1>3. ASSUME NEW k \in Nat, NEW m \in Live, e[m] = k,
             k # 0 => \A p \in Live : e[p] = k - 1 => d[p] <= k - 1
      PROVE  d[m] <= k
  <2>1. CASE parent[m] = NIL
    BY <1>3, <2>1 DEF IsDepth
  <2>2. CASE parent[m] # NIL
    <3>1. PICK p \in Live : p = parent[m]
      BY <1>1, <2>2
    <3>2. e[m] = e[p] + 1 /\ d[m] = d[p] + Inside(p)
      BY <2>2, <3>1 DEF IsLevel, IsDepth
    <3>3. k # 0 /\ e[p] = k - 1
      BY <1>2, <1>3, <3>2
    <3>4. d[p] <= k - 1
      BY <1>3, <3>3
    <3> QED BY <1>2, <3>2, <3>4
  <2> QED BY <2>1, <2>2
<1>4. 0 \in S
  BY <1>3
<1>5. ASSUME NEW k \in 0 .. (Capacity - 1) - 1, k \in S
      PROVE  k + 1 \in S
  <2>1. k + 1 \in Nat /\ (k + 1) - 1 = k
    BY <1>1
  <2> QED BY <1>3, <1>5, <2>1
<1>6. 0 .. Capacity - 1 \subseteq S
  <2> HIDE DEF S
  <2> QED BY <1>1, <1>4, <1>5, SetInduction
<1>7. e[n] \in S
  BY <1>2, <1>6
<1> QED BY <1>2, <1>7

----------------------------------------------------------------------------
(* The recursive functions behind the texts and their lengths.              *)

Deeper(texts) == [x \in Node |-> TextAbove(x, texts)]
Longer(k, lengths) == [d \in 0 .. Capacity - k |-> [x \in Node |-> LengthAbove(x, d, lengths)]]
NoTexts == [x \in Node |-> <<>>]
NoLengths == [d \in 0 .. Capacity |-> [x \in Node |-> 0]]

Seed(what) ==
  CASE what = "joined" -> <<>> [] what = "inner" -> 0
    [] what = "text" -> NoTexts [] what = "length" -> NoLengths

After(what, c, f, v, i) ==
  CASE what = "joined" -> Joined(v, i, f[c[i]]) [] what = "inner" -> v + f[c[i]]
    [] what = "text" -> Deeper(v) [] what = "length" -> Longer(i, v)

Recurs(g, what, c, f, K) ==
  g = [i \in 0 .. K |-> IF i = 0 THEN Seed(what) ELSE After(what, c, f, g[i - 1], i)]

LEMMA RecursionExists ==
  ASSUME NEW what, NEW c, NEW f, NEW K \in Nat
  PROVE  \E g : Recurs(g, what, c, f, K)
<1> DEFINE S == {k \in Nat : \E g : Recurs(g, what, c, f, k)}
<1>1. 0 \in S
  <2> DEFINE g == [i \in 0 .. 0 |-> Seed(what)]
  <2>1. g = [i \in 0 .. 0 |-> IF i = 0 THEN Seed(what) ELSE After(what, c, f, g[i - 1], i)]
    OBVIOUS
  <2>2. Recurs(g, what, c, f, 0)
    BY <2>1 DEF Recurs
  <2> QED BY <2>2
<1>2. ASSUME NEW k \in 0 .. K - 1, k \in S
      PROVE  k + 1 \in S
  <2>1. PICK h : Recurs(h, what, c, f, k)
    BY <1>2
  <2>2. PICK top : top = After(what, c, f, h[k], k + 1)
    OBVIOUS
  <2> DEFINE g == [i \in 0 .. k + 1 |-> IF i = k + 1 THEN top ELSE h[i]]
  <2>3. ASSUME NEW i \in 0 .. k + 1
        PROVE  g[i] = IF i = 0 THEN Seed(what) ELSE After(what, c, f, g[i - 1], i)
    <3>1. CASE i = k + 1
      <4>1. i # 0 /\ g[i] = top /\ g[i - 1] = h[k]
        BY <3>1
      <4> QED BY <2>2, <3>1, <4>1
    <3>2. CASE i # k + 1 /\ i = 0
      <4>1. h[0] = Seed(what)
        BY <2>1 DEF Recurs
      <4> QED BY <3>2, <4>1
    <3>3. CASE i # k + 1 /\ i # 0
      <4>1. i \in 0 .. k /\ i - 1 \in 0 .. k + 1 /\ i - 1 # k + 1
        BY <3>3
      <4>2. h[i] = After(what, c, f, h[i - 1], i)
        BY <2>1, <3>3, <4>1 DEF Recurs
      <4>3. g[i] = h[i] /\ g[i - 1] = h[i - 1]
        BY <3>3, <4>1
      <4> QED BY <3>3, <4>2, <4>3
    <3> QED BY <3>1, <3>2, <3>3
  <2>4. g = [i \in 0 .. k + 1 |-> IF i = 0 THEN Seed(what) ELSE After(what, c, f, g[i - 1], i)]
    <3>1. g = [i \in 0 .. k + 1 |-> g[i]]
      OBVIOUS
    <3> HIDE DEF g
    <3> QED BY <2>3, <3>1
  <2>5. k + 1 \in Nat /\ Recurs(g, what, c, f, k + 1)
    BY <2>4 DEF Recurs
  <2> QED BY <2>5
<1>3. 0 .. K \subseteq S
  <2> HIDE DEF S
  <2> QED BY <1>1, <1>2, SetInduction
<1>4. K \in S
  <2> HIDE DEF S
  <2> QED BY <1>3
<1> QED BY <1>4

(* What it is at each number.                                               *)
LEMMA RecursionFacts ==
  ASSUME NEW what, NEW c, NEW f, NEW K \in Nat, NEW g, Recurs(g, what, c, f, K)
  PROVE  /\ g[0] = Seed(what)
         /\ \A i \in 1 .. K : g[i] = After(what, c, f, g[i - 1], i)
BY DEF Recurs

Joining(g, c, texts) ==
  g = [i \in 0 .. Len(c) |-> IF i = 0 THEN <<>> ELSE Joined(g[i - 1], i, texts[c[i]])]
Summing(g, c, lengths) ==
  g = [i \in 0 .. Len(c) |-> IF i = 0 THEN 0 ELSE g[i - 1] + lengths[c[i]]]
Texts(g) ==
  g = [k \in 0 .. Capacity |-> IF k = 0 THEN NoTexts ELSE Deeper(g[k - 1])]
Lengths(g) ==
  g = [k \in 0 .. Capacity |-> IF k = 0 THEN NoLengths ELSE Longer(k, g[k - 1])]

LEMMA RecursionsExist ==
  /\ \A c, t : Len(c) \in Nat => (\E g : Joining(g, c, t)) /\ (\E g : Summing(g, c, t))
  /\ \E g : Texts(g)
  /\ \E g : Lengths(g)
<1>1. ASSUME NEW c, NEW t, Len(c) \in Nat
      PROVE  (\E g : Joining(g, c, t)) /\ (\E g : Summing(g, c, t))
  <2>1. PICK g : Recurs(g, "joined", c, t, Len(c))
    BY <1>1, RecursionExists
  <2>2. Joining(g, c, t)
    <3>1. \A v, i : Seed("joined") = <<>> /\ After("joined", c, t, v, i) = Joined(v, i, t[c[i]])
      BY Zenon DEF Seed, After
    <3> QED BY <2>1, <3>1 DEF Joining, Recurs
  <2>3. PICK h : Recurs(h, "inner", c, t, Len(c))
    BY <1>1, RecursionExists
  <2>4. Summing(h, c, t)
    <3>1. \A v, i : Seed("inner") = 0 /\ After("inner", c, t, v, i) = v + t[c[i]]
      BY Zenon DEF Seed, After
    <3> QED BY <2>3, <3>1 DEF Summing, Recurs
  <2> QED BY <2>2, <2>4
<1>2. \E g : Texts(g)
  <2>1. PICK g : Recurs(g, "text", 0, 0, Capacity)
    BY CapacityAssumption, RecursionExists
  <2>2. \A v, i : Seed("text") = NoTexts /\ After("text", 0, 0, v, i) = Deeper(v)
    BY Zenon DEF Seed, After
  <2>3. g = [i \in 0 .. Capacity |-> IF i = 0 THEN Seed("text") ELSE After("text", 0, 0, g[i - 1], i)]
    BY <2>1 DEF Recurs
  <2>4. Seed("text") = NoTexts
    BY <2>2
  <2>5. \A i : After("text", 0, 0, g[i - 1], i) = Deeper(g[i - 1])
    BY <2>2
  <2>6. g = [i \in 0 .. Capacity |-> IF i = 0 THEN NoTexts ELSE Deeper(g[i - 1])]
    BY <2>3, <2>4, <2>5, Zenon
  <2> QED BY <2>6 DEF Texts
<1>3. \E g : Lengths(g)
  <2>1. PICK g : Recurs(g, "length", 0, 0, Capacity)
    BY CapacityAssumption, RecursionExists
  <2>2. \A v, i : Seed("length") = NoLengths /\ After("length", 0, 0, v, i) = Longer(i, v)
    BY Zenon DEF Seed, After
  <2>3. g = [i \in 0 .. Capacity |-> IF i = 0 THEN Seed("length") ELSE After("length", 0, 0, g[i - 1], i)]
    BY <2>1 DEF Recurs
  <2>4. Seed("length") = NoLengths
    BY <2>2
  <2>5. \A i : After("length", 0, 0, g[i - 1], i) = Longer(i, g[i - 1])
    BY <2>2
  <2>6. g = [i \in 0 .. Capacity |-> IF i = 0 THEN NoLengths ELSE Longer(i, g[i - 1])]
    BY <2>3, <2>4, <2>5, Zenon
  <2> QED BY <2>6 DEF Lengths
<1> QED BY <1>1, <1>2, <1>3

LineOf(l) == IF writer.compact THEN 0 ELSE 1 + TabSize * l
DepthBelow(x, d) == IF type[x] = "KEY" THEN d ELSE d + 1

Sized(x, d, all) ==
  LET c == Children(x) IN
  CASE type[x] = "KEY" -> TextLength + (IF writer.compact THEN 3 ELSE 4) + all
    [] type[x] = "SCALAR" -> TextLength + IF x \in Quoted THEN 2 ELSE 0
    [] OTHER -> IF c = <<>> THEN 2
                ELSE 2 + all + Len(c) - 1 + Len(c) * LineOf(d + 1) + LineOf(d)

LEMMA TextDefs ==
  /\ \A x, t : TextAbove(x, t) = Enclosed(type[x], key[x], (CHOOSE g : Joining(g, Children(x), t))[Len(Children(x))])
  /\ \A n : Text(n) = (CHOOSE g : Texts(g))[Capacity][n]
<1>1. \A x, t : TextAbove(x, t) = Enclosed(type[x], key[x], (CHOOSE g : Joining(g, Children(x), t))[Len(Children(x))])
  BY Zenon DEF TextAbove, Joining
<1>2. \A n : Text(n) = (CHOOSE g : Texts(g))[Capacity][n]
  BY Zenon DEF Text, Texts, NoTexts, Deeper
<1> QED BY <1>1, <1>2

LEMMA LengthDefs ==
  /\ \A x, d, l : LengthAbove(x, d, l) =
       Sized(x, d, (CHOOSE g : Summing(g, Children(x), l[DepthBelow(x, d)]))[Len(Children(x))])
  /\ \A n : TextLengthBelow(n) = (CHOOSE g : Lengths(g))[Capacity][0][n]
<1>1. \A x, d, l : LengthAbove(x, d, l) =
       Sized(x, d, (CHOOSE g : Summing(g, Children(x), l[DepthBelow(x, d)]))[Len(Children(x))])
  BY Zenon DEF LengthAbove, Sized, Summing, LineOf, DepthBelow
<1>2. \A n : TextLengthBelow(n) = (CHOOSE g : Lengths(g))[Capacity][0][n]
  BY Zenon DEF TextLengthBelow, Lengths, NoLengths, Longer
<1> QED BY <1>1, <1>2

----------------------------------------------------------------------------
(* The texts fill the layout of the second pass.                            *)

CommaText == <<",">>

LEMMA TokensAre ==
  /\ CommaText \in Seq(Token) /\ Tokens(CommaToken) = CommaText /\ Tokens("newline") = <<>>
  /\ \A n : Tokens(ScalarText(n)) = <<"scalar">>
  /\ \A k \in Names : Tokens(k) = <<k, ":">>
  /\ \A t \in {"{", "}", "[", "]"} : Tokens(t) = <<t>>
<1>1. \A t \in {"{", "}", "[", "]", ","} : t \in Punctuation /\ t \in Putable
  BY Zenon DEF Putable, Token, Punctuation
<1>2. \A t \in Punctuation \cap Putable : Tokens(t) = <<t>>
  <2> SUFFICES ASSUME NEW t \in Punctuation \cap Putable PROVE Tokens(t) = <<t>>
    OBVIOUS
  <2>1. t \notin Names /\ t \notin {"string", "scalar", "newline"}
    BY PutableCases
  <2> QED BY <2>1, Zenon DEF Tokens
<1>3. "string" \notin Names /\ "newline" \notin Names /\ "scalar" \notin Names
  BY ParserAssumption, SerializerAssumption, Zenon
<1>4. Tokens("string") = <<"scalar">> /\ Tokens("newline") = <<>> /\ Tokens("scalar") = <<"scalar">>
  BY <1>3, Zenon DEF Tokens
<1>5. \A n : Tokens(ScalarText(n)) = <<"scalar">>
  BY <1>4, Zenon DEF ScalarText
<1>6. ASSUME NEW k \in Names PROVE Tokens(k) = <<k, ":">>
  <2>1. k \notin {"string", "scalar", "newline"}
    BY ParserAssumption, SerializerAssumption, Zenon
  <2> QED BY <2>1, Zenon DEF Tokens
<1>7. \A t \in {"{", "}", "[", "]", ","} : Tokens(t) = <<t>>
  BY <1>1, <1>2, Zenon
<1>8. Tokens(CommaToken) = CommaText
  BY <1>7, Zenon DEF CommaToken, CommaText
<1>9. CommaText \in Seq(Token)
  BY <1>8, CommaPutable, TokensType, Zenon
<1> QED BY <1>4, <1>5, <1>6, <1>7, <1>8, <1>9, Zenon

(* The texts of the children, joined.                                       *)
LEMMA TextsJoin ==
  ASSUME LoadedTree, NEW n \in Live, NEW texts, \A m \in Live : texts[m] \in Seq(Token),
         NEW c, c = Children(n)
  PROVE  \E j : /\ j \in [0 .. Len(c) -> Seq(Token)] /\ j[0] = <<>>
                /\ \A i \in 1 .. Len(c) :
                     j[i] = (IF i = 1 THEN <<>> ELSE j[i - 1] ++ CommaText) ++ texts[c[i]]
                /\ TextAbove(n, texts) = Enclosed(type[n], key[n], j[Len(c)])
<1>1. Len(c) \in Nat /\ \A i \in 1 .. Len(c) : c[i] \in Live
  BY ChildOrder
<1>2. PICK j : j = CHOOSE g : Joining(g, c, texts)
  OBVIOUS
<1>3. Joining(j, c, texts)
  BY <1>1, <1>2, RecursionsExist
<1>4. TextAbove(n, texts) = Enclosed(type[n], key[n], j[Len(c)])
  BY <1>2, TextDefs
<1>5. \A a, i, b : Joined(a, i, b) = (IF i = 1 THEN <<>> ELSE a ++ CommaText) ++ b
  BY Zenon DEF Joined, ++, CommaText
<1>6. /\ j[0] = <<>>
      /\ \A i \in 1 .. Len(c) : j[i] = Joined(j[i - 1], i, texts[c[i]])
  BY <1>1, <1>3 DEF Joining
<1>7. \A i \in 1 .. Len(c) : j[i] = (IF i = 1 THEN <<>> ELSE j[i - 1] ++ CommaText) ++ texts[c[i]]
  BY <1>5, <1>6
<1> DEFINE S == {i \in Nat : j[i] \in Seq(Token)}
<1>8. 0 \in S
  BY <1>6, CatFacts
<1>9. ASSUME NEW i \in 0 .. Len(c) - 1, i \in S
      PROVE  i + 1 \in S
  <2>1. i + 1 \in 1 .. Len(c) /\ (i + 1) - 1 = i /\ i + 1 \in Nat
    BY <1>1
  <2>2. j[i + 1] = (IF i + 1 = 1 THEN <<>> ELSE j[i] ++ CommaText) ++ texts[c[i + 1]]
    BY <1>7, <2>1
  <2>3. texts[c[i + 1]] \in Seq(Token) /\ j[i] \in Seq(Token) /\ CommaText \in Seq(Token)
    BY <1>1, <1>9, <2>1, TokensAre
  <2>4. j[i] ++ CommaText \in Seq(Token) /\ <<>> \in Seq(Token)
    BY <2>3, CatFacts
  <2>5. (IF i + 1 = 1 THEN <<>> ELSE j[i] ++ CommaText) \in Seq(Token)
    BY <2>4
  <2>6. j[i + 1] \in Seq(Token)
    <3>1. PICK a \in Seq(Token) : a = IF i + 1 = 1 THEN <<>> ELSE j[i] ++ CommaText
      BY <2>5
    <3>2. PICK b \in Seq(Token) : b = texts[c[i + 1]]
      BY <2>3
    <3>3. j[i + 1] = a ++ b
      BY <2>2, <3>1, <3>2
    <3> QED BY <3>3, CatFacts
  <2> QED BY <2>1, <2>6
<1>10. 0 .. Len(c) \subseteq S
  <2> HIDE DEF S
  <2> QED BY <1>1, <1>8, <1>9, SetInduction
<1>11. j = [i \in 0 .. Len(c) |-> IF i = 0 THEN <<>> ELSE Joined(j[i - 1], i, texts[c[i]])]
  BY <1>3 DEF Joining
<1>12. j = [i \in 0 .. Len(c) |-> j[i]]
  BY <1>11
<1>13. j \in [0 .. Len(c) -> Seq(Token)]
  BY <1>10, <1>12
<1> QED BY <1>4, <1>6, <1>7, <1>13

LEMMA EnclosedFills ==
  ASSUME LoadedTree, NEW compact \in BOOLEAN, NEW d, NEW op, NEW cl, NEW sep,
         Layout("write", compact, d, op, cl, sep), NEW n \in Live, NEW t \in Seq(Token),
         first_child[n] = NIL => t = <<>>
  PROVE  Enclosed(type[n], key[n], t) = (op[n] ++ t) ++ cl[n] /\ sep[n] = CommaText
<1>1. \A l, x : Piece("write", compact, l, x) = Tokens(x)
  BY Zenon DEF Piece
<1>2. /\ sep[n] = Tokens(CommaToken) ++ Tokens("newline")
      /\ type[n] = "KEY" => op[n] = Tokens(key[n]) /\ cl[n] = <<>>
      /\ type[n] = "SCALAR" => op[n] = Tokens(ScalarText(n)) /\ cl[n] = <<>>
      /\ type[n] \in Container /\ first_child[n] # NIL =>
           /\ op[n] = Tokens(Opening(n)) ++ Tokens("newline")
           /\ cl[n] = Tokens("newline") ++ Tokens(Closing(n))
      /\ type[n] \in Container /\ first_child[n] = NIL =>
           op[n] = Tokens(Opening(n)) /\ cl[n] = Tokens(Closing(n))
  BY <1>1 DEF Layout
<1>3. sep[n] = CommaText
  BY <1>2, TokensAre, CatFacts
<1>4. type[n] \in ElementType /\ n # NIL
  BY LoadedFacts
<1>5. CASE type[n] = "KEY"
  <2>1. key[n] \in Names
    BY <1>5, LoadedFacts
  <2>2. PICK a : a = Tokens(key[n])
    OBVIOUS
  <2>3. a = <<key[n], ":">> /\ a \in Seq(Token)
    <3>1. key[n] \in Putable
      BY <2>1, PutablePunctuation
    <3> QED BY <2>1, <2>2, <3>1, TokensAre, TokensType
  <2>4. Enclosed(type[n], key[n], t) = a ++ t
    BY <1>5, <2>3, Zenon DEF Enclosed, ++
  <2>5. (a ++ t) ++ <<>> = a ++ t
    BY <2>3, CatFacts
  <2> QED BY <1>2, <1>3, <1>5, <2>2, <2>4, <2>5
<1>6. CASE type[n] = "SCALAR"
  <2>1. t = <<>>
    BY <1>6, LoadedFacts DEF JsonShape
  <2>2. PICK a : a = Tokens(ScalarText(n))
    OBVIOUS
  <2>3. a = <<"scalar">> /\ a \in Seq(Token)
    BY <2>2, TokensAre, TokensType, OpeningClosing
  <2>4. Enclosed(type[n], key[n], t) = a
    BY <1>6, <2>3, Zenon DEF Enclosed
  <2>5. (a ++ <<>>) ++ <<>> = a
    BY <2>3, CatFacts
  <2> QED BY <1>2, <1>3, <1>6, <2>1, <2>2, <2>4, <2>5
<1>7. CASE type[n] \in Container
  <2>1. PICK a, b : a = Tokens(Opening(n)) /\ b = Tokens(Closing(n))
    OBVIOUS
  <2>2. a \in Seq(Token) /\ b \in Seq(Token)
    BY <2>1, TokensType, OpeningClosing
  <2>3. op[n] = a /\ cl[n] = b
    <3>1. a ++ <<>> = a /\ <<>> ++ b = b
      BY <2>2, CatFacts
    <3> QED BY <1>2, <1>7, <2>1, <3>1, TokensAre
  <2>4. Enclosed(type[n], key[n], t) = (a ++ t) ++ b
    <3>1. CASE type[n] = "OBJECT"
      <4>1. Opening(n) = "{" /\ Closing(n) = "}"
        BY <1>4, <3>1, Zenon DEF Opening, Closing, TypeOf
      <4>2. a = <<"{">> /\ b = <<"}">>
        BY <2>1, <4>1, TokensAre, Zenon
      <4> QED BY <3>1, <4>2, Zenon DEF Enclosed, ++
    <3>2. CASE type[n] = "ARRAY"
      <4>1. Opening(n) = "[" /\ Closing(n) = "]"
        BY <1>4, <3>2, Zenon DEF Opening, Closing, TypeOf
      <4>2. a = <<"[">> /\ b = <<"]">>
        BY <2>1, <4>1, TokensAre, Zenon
      <4>3. Enclosed(type[n], key[n], t) = <<"[">> \o t \o <<"]">>
        BY <3>2, Zenon DEF Enclosed
      <4> QED BY <4>2, <4>3, Zenon DEF ++
    <3> QED BY <1>7, <3>1, <3>2 DEF Container
  <2> QED BY <1>3, <2>3, <2>4
<1> QED BY <1>4, <1>5, <1>6, <1>7 DEF ElementType, ValueType, Container

LEMMA WrittenWholes ==
  ASSUME LoadedTree, root # NIL, NEW compact \in BOOLEAN, NEW d, NEW op, NEW cl, NEW sep,
         Layout("write", compact, d, op, cl, sep)
  PROVE  \E whole : Wholes(op, cl, sep, whole) /\ whole[root] = Text(root)
<1>1. /\ Capacity \in Nat /\ Live \subseteq Node /\ NIL \notin Live /\ root \in Live
      /\ \A m \in Live : parent[m] \in Live \cup {NIL} /\ (parent[m] = NIL <=> m = root)
  BY CapacityAssumption, LoadedFacts DEF LoadedTree
<1>2. PICK e : IsLevel(e)
  BY IsLevelExists
<1>3. \A n \in Live : e[n] \in 0 .. Capacity - 1
  BY <1>2 DEF IsLevel
<1>4. PICK t : t = CHOOSE g : Texts(g)
  OBVIOUS
<1>5. Texts(t)
  BY <1>4, RecursionsExist
<1>6. /\ \A n \in Live : t[0][n] = <<>>
      /\ \A k \in 0 .. Capacity - 1 : \A n \in Live : t[k + 1][n] = TextAbove(n, t[k])
  <2>1. t[0] = NoTexts /\ \A i \in 1 .. Capacity : t[i] = Deeper(t[i - 1])
    BY <1>1, <1>5 DEF Texts
  <2>2. \A k \in 0 .. Capacity - 1 : t[k + 1] = Deeper(t[k])
    <3> TAKE k \in 0 .. Capacity - 1
    <3>1. k + 1 \in 1 .. Capacity /\ (k + 1) - 1 = k
      BY <1>1
    <3> QED BY <2>1, <3>1
  <2>3. \A x : \A n \in Live : Deeper(x)[n] = TextAbove(n, x) /\ NoTexts[n] = <<>>
    BY <1>1 DEF Deeper, NoTexts
  <2> QED BY <2>1, <2>2, <2>3
<1>7. ASSUME NEW n \in Live, NEW texts, \A m \in Live : texts[m] \in Seq(Token)
      PROVE  LET c == Children(n) IN
             \E j : /\ j \in [0 .. Len(c) -> Seq(Token)] /\ j[0] = <<>>
                    /\ \A i \in 1 .. Len(c) :
                         j[i] = (IF i = 1 THEN <<>> ELSE j[i - 1] ++ CommaText) ++ texts[c[i]]
                    /\ TextAbove(n, texts) = (op[n] ++ j[Len(c)]) ++ cl[n]
                    /\ TextAbove(n, texts) \in Seq(Token)
  <2>1. PICK c : c = Children(n)
    OBVIOUS
  <2>2. PICK j : /\ j \in [0 .. Len(c) -> Seq(Token)] /\ j[0] = <<>>
                 /\ \A i \in 1 .. Len(c) :
                      j[i] = (IF i = 1 THEN <<>> ELSE j[i - 1] ++ CommaText) ++ texts[c[i]]
                 /\ TextAbove(n, texts) = Enclosed(type[n], key[n], j[Len(c)])
    BY <1>7, <2>1, TextsJoin
  <2>3. Len(c) \in Nat /\ (first_child[n] = NIL => Len(c) = 0)
    BY <2>1, ChildOrder
  <2>4. PICK x \in Seq(Token) : x = j[Len(c)]
    BY <2>2, <2>3
  <2>5. first_child[n] = NIL => x = <<>>
    BY <2>2, <2>3, <2>4
  <2>6. TextAbove(n, texts) = (op[n] ++ x) ++ cl[n]
    BY <2>2, <2>4, <2>5, EnclosedFills
  <2>7. PICK a \in Seq(Token), b \in Seq(Token) : a = op[n] /\ b = cl[n]
    BY DEF Layout
  <2>8. (a ++ x) ++ b \in Seq(Token)
    BY CatFacts
  <2> QED BY <2>1, <2>2, <2>4, <2>6, <2>7, <2>8
<1> DEFINE S == {k \in Nat : \A n \in Live : t[k][n] \in Seq(Token)}
<1>8. 0 \in S
  BY <1>6, CatFacts
<1>9. ASSUME NEW k \in 0 .. Capacity - 1, k \in S
      PROVE  k + 1 \in S
  <2>1. \A n \in Live : TextAbove(n, t[k]) \in Seq(Token)
    BY <1>7, <1>9
  <2> QED BY <1>1, <1>6, <2>1
<1>10. 0 .. Capacity \subseteq S
  <2> HIDE DEF S
  <2> QED BY <1>1, <1>8, <1>9, SetInduction
<1>11. PICK whole : whole = [n \in Live |-> t[Capacity - e[n]][n]]
  OBVIOUS
<1>12. \A n \in Live : Capacity - e[n] \in S
  BY <1>1, <1>3, <1>10
<1>13. whole \in [Live -> Seq(Token)]
  BY <1>11, <1>12
<1> HIDE DEF S
<1>14. ASSUME NEW n \in Live
       PROVE  \E j : /\ Joins(j, Children(n), sep, whole)
                     /\ whole[n] = (op[n] ++ j[Len(Children(n))]) ++ cl[n]
  <2>1. PICK c, k : c = Children(n) /\ k = Capacity - e[n] - 1
    OBVIOUS
  <2>2. k \in 0 .. Capacity - 1 /\ k \in S /\ k + 1 = Capacity - e[n]
    <3>1. e[n] \in 0 .. Capacity - 1
      BY <1>3
    <3>2. k \in 0 .. Capacity - 1 /\ k \in 0 .. Capacity /\ k + 1 = Capacity - e[n]
      BY <1>1, <2>1, <3>1
    <3> QED BY <1>10, <3>2
  <2>3. PICK x : x = t[k]
    OBVIOUS
  <2>4. \A m \in Live : x[m] \in Seq(Token)
    BY <2>2, <2>3 DEF S
  <2>5. PICK j : /\ j \in [0 .. Len(c) -> Seq(Token)] /\ j[0] = <<>>
                 /\ \A i \in 1 .. Len(c) :
                      j[i] = (IF i = 1 THEN <<>> ELSE j[i - 1] ++ CommaText) ++ x[c[i]]
                 /\ TextAbove(n, x) = (op[n] ++ j[Len(c)]) ++ cl[n]
    BY <1>7, <2>1, <2>4
  <2>6. whole[n] = TextAbove(n, x)
    BY <1>6, <1>11, <2>2, <2>3
  <2>7. /\ Len(c) \in Nat
        /\ \A i \in 1 .. Len(c) : c[i] \in Live /\ parent[c[i]] = n
    BY <2>1, ChildOrder
  <2>8. ASSUME NEW i \in 1 .. Len(c)
        PROVE  j[i] = Lead(j, c, sep, i) ++ whole[c[i]]
    <3>1. PICK m \in Live : m = c[i] /\ parent[m] = n
      BY <2>7
    <3>2. e[m] = e[n] + 1
      BY <1>1, <1>2, <3>1 DEF IsLevel
    <3>3. Capacity - e[m] = k
      <4>1. e[n] \in 0 .. Capacity - 1
        BY <1>3
      <4> QED BY <1>1, <2>1, <3>2, <4>1
    <3>4. whole[m] = x[m]
      BY <1>11, <2>3, <3>3
    <3>5. j[i] = (IF i = 1 THEN <<>> ELSE j[i - 1] ++ CommaText) ++ x[m]
      BY <2>5, <3>1
    <3>6. Lead(j, c, sep, i) = IF i = 1 THEN <<>> ELSE j[i - 1] ++ CommaText
      <4>1. CASE i = 1
        BY <4>1 DEF Lead
      <4>2. CASE i # 1
        <5>1. i - 1 \in 1 .. Len(c)
          BY <2>7, <4>2
        <5>2. PICK p \in Live : p = c[i - 1]
          BY <2>7, <5>1
        <5>3. sep[p] = CommaText
          <6>1. PICK y \in Seq(Token) : y = <<>>
            BY CatFacts
          <6> QED BY <6>1, EnclosedFills
        <5> QED BY <4>2, <5>2, <5>3 DEF Lead
      <4> QED BY <4>1, <4>2
    <3> QED BY <3>1, <3>4, <3>5, <3>6
  <2>9. Joins(j, c, sep, whole)
    BY <2>5, <2>8 DEF Joins
  <2> QED BY <2>1, <2>5, <2>6, <2>9
<1>15. Wholes(op, cl, sep, whole)
  BY <1>13, <1>14 DEF Wholes, Layout
<1>16. whole[root] = Text(root)
  <2>1. e[root] = 0
    BY <1>1, <1>2 DEF IsLevel
  <2>2. whole[root] = t[Capacity - 0][root]
    BY <1>1, <1>11, <2>1
  <2>3. Capacity - 0 = Capacity
    BY <1>1
  <2>4. Text(root) = t[Capacity][root]
    BY <1>4, TextDefs
  <2> QED BY <2>2, <2>3, <2>4
<1> QED BY <1>15, <1>16

----------------------------------------------------------------------------
(* Their lengths fill that of the first.                                    *)

LEMMA LineLength ==
  ASSUME writer.compact \in BOOLEAN, NEW l \in Nat
  PROVE  /\ LineOf(l) \in Nat
         /\ Piece("evaluate", writer.compact, TabSize * l, "newline") = Marks(LineOf(l))
         /\ Piece("evaluate", writer.compact, TabSize * l, CommaToken) = Marks(1)
<1>1. PICK w : w = [compact |-> writer.compact, indention |-> TabSize * l]
  OBVIOUS
<1>2. w.compact = writer.compact /\ w.indention = TabSize * l
  BY <1>1
<1>3. \A x : Piece("evaluate", writer.compact, TabSize * l, x) = Marks(Calculated(w, x))
  BY <1>1, Zenon DEF Piece
<1>4. Calculated(w, "newline") = LineOf(l)
  <2>1. "newline" \notin Punctuation /\ "newline" \notin Names
    BY PutableCases, PutablePunctuation, Zenon
  <2>2. Calculated(w, "newline") = IF w.compact THEN 0 ELSE w.indention + 1
    BY <2>1, Zenon DEF Calculated
  <2> QED BY <1>2, <2>2 DEF LineOf, TabSize
<1>5. Calculated(w, CommaToken) = 1
  <2>1. CommaToken \in Punctuation
    BY Zenon DEF CommaToken, Punctuation
  <2>2. CommaToken \notin Names /\ CommaToken \notin {"string", "scalar", "newline"}
    BY <2>1, CommaPutable, PutableCases, Zenon
  <2> QED BY <2>1, <2>2, Zenon DEF Calculated
<1>6. LineOf(l) \in Nat
  BY DEF LineOf, TabSize
<1> QED BY <1>3, <1>4, <1>5, <1>6

LEMMA MarkLengths ==
  ASSUME writer.compact \in BOOLEAN, NEW n \in Live, NEW l \in Nat, type[n] = "KEY" => key[n] \in Names
  PROVE  LET One(x) == Piece("evaluate", writer.compact, l, x) IN
           /\ type[n] = "KEY" => One(key[n]) = Marks(TextLength + IF writer.compact THEN 3 ELSE 4)
           /\ One(ScalarText(n)) = Marks(TextLength + IF n \in Quoted THEN 2 ELSE 0)
           /\ One(Opening(n)) = Marks(1) /\ One(Closing(n)) = Marks(1)
<1>1. PICK w : w = [compact |-> writer.compact, indention |-> l]
  OBVIOUS
<1>2. w.compact = writer.compact
  BY <1>1
<1>3. \A x : Piece("evaluate", writer.compact, l, x) = Marks(Calculated(w, x))
  BY <1>1, Zenon DEF Piece
<1>4. type[n] = "KEY" => Calculated(w, key[n]) = TextLength + IF writer.compact THEN 3 ELSE 4
  <2> SUFFICES ASSUME type[n] = "KEY"
               PROVE  Calculated(w, key[n]) = TextLength + IF writer.compact THEN 3 ELSE 4
    OBVIOUS
  <2>1. PICK k \in Names : k = key[n]
    OBVIOUS
  <2>2. k \notin Punctuation /\ k \notin {"string", "scalar", "newline"}
    BY ParserAssumption, SerializerAssumption, Zenon
  <2>3. Calculated(w, k) = TextLength + IF w.compact THEN 3 ELSE 4
    BY <2>2, Zenon DEF Calculated
  <2> QED BY <1>2, <2>1, <2>3
<1>5. Calculated(w, ScalarText(n)) = TextLength + IF n \in Quoted THEN 2 ELSE 0
  <2>1. /\ "string" \notin Punctuation /\ "string" \notin Names
        /\ "scalar" \notin Punctuation /\ "scalar" \notin Names
    BY PutableCases, PutablePunctuation, Zenon
  <2>2. Calculated(w, "string") = TextLength + 2
    BY <2>1, Zenon DEF Calculated
  <2>3. Calculated(w, "scalar") = TextLength
    BY <2>1, Zenon DEF Calculated
  <2>4. TextLength \in Nat
    BY SerializerAssumption
  <2>5. CASE n \in Quoted
    BY <2>2, <2>5 DEF ScalarText
  <2>6. CASE n \notin Quoted
    BY <2>3, <2>4, <2>6 DEF ScalarText
  <2> QED BY <2>5, <2>6
<1>6. Calculated(w, Opening(n)) = 1 /\ Calculated(w, Closing(n)) = 1
  <2>1. ASSUME NEW x \in Putable, x \in Punctuation PROVE Calculated(w, x) = 1
    <3>1. x \notin Names /\ x \notin {"string", "scalar", "newline"}
      BY <2>1, PutableCases
    <3> QED BY <2>1, <3>1, Zenon DEF Calculated
  <2>2. Opening(n) \in Punctuation /\ Closing(n) \in Punctuation
    BY Zenon DEF Opening, Closing, Punctuation
  <2> QED BY <2>1, <2>2, OpeningClosing
<1> QED BY <1>3, <1>4, <1>5, <1>6

LEMMA LengthsSum ==
  ASSUME LoadedTree, NEW n \in Live, NEW l, NEW lengths,
         \A m \in Live : lengths[DepthBelow(n, l)][m] \in Nat,
         NEW c, c = Children(n)
  PROVE  \E s : /\ s \in [0 .. Len(c) -> Nat] /\ s[0] = 0
                /\ \A i \in 1 .. Len(c) : s[i] = s[i - 1] + lengths[DepthBelow(n, l)][c[i]]
                /\ LengthAbove(n, l, lengths) = Sized(n, l, s[Len(c)])
<1>1. Len(c) \in Nat /\ \A i \in 1 .. Len(c) : c[i] \in Live
  BY ChildOrder
<1>2. PICK x : x = lengths[DepthBelow(n, l)]
  OBVIOUS
<1>3. PICK s : s = CHOOSE g : Summing(g, c, x)
  OBVIOUS
<1>4. Summing(s, c, x)
  BY <1>1, <1>3, RecursionsExist
<1>5. LengthAbove(n, l, lengths) = Sized(n, l, s[Len(c)])
  BY <1>2, <1>3, LengthDefs
<1>6. s[0] = 0 /\ \A i \in 1 .. Len(c) : s[i] = s[i - 1] + x[c[i]]
  BY <1>1, <1>4 DEF Summing
<1> DEFINE S == {i \in Nat : s[i] \in Nat}
<1>7. 0 \in S
  BY <1>6
<1>8. ASSUME NEW i \in 0 .. Len(c) - 1, i \in S
      PROVE  i + 1 \in S
  <2>1. i + 1 \in 1 .. Len(c) /\ (i + 1) - 1 = i /\ i + 1 \in Nat
    BY <1>1
  <2>2. s[i + 1] = s[i] + x[c[i + 1]]
    BY <1>6, <2>1
  <2>3. x[c[i + 1]] \in Nat /\ s[i] \in Nat
    BY <1>1, <1>2, <1>8, <2>1
  <2> QED BY <2>1, <2>2, <2>3
<1>9. 0 .. Len(c) \subseteq S
  <2> HIDE DEF S
  <2> QED BY <1>1, <1>7, <1>8, SetInduction
<1>10. s = [i \in 0 .. Len(c) |-> IF i = 0 THEN 0 ELSE s[i - 1] + x[c[i]]]
  BY <1>4 DEF Summing
<1>11. s = [i \in 0 .. Len(c) |-> s[i]]
  BY <1>10
<1>12. s \in [0 .. Len(c) -> Nat]
  BY <1>9, <1>11
<1> QED BY <1>2, <1>5, <1>6, <1>12

(* The separators between the children count, and a container's lines.      *)
LEMMA SizedFills ==
  ASSUME LoadedTree, writer.compact \in BOOLEAN, NEW d, IsDepth(d), NEW op, NEW cl, NEW sep,
         Layout("evaluate", writer.compact, d, op, cl, sep), NEW n \in Live,
         NEW all \in Nat, first_child[n] = NIL => all = 0, NEW k, k = Len(Children(n))
  PROVE  /\ sep[n] = Marks(1 + LineOf(d[n])) /\ LineOf(d[n]) \in Nat
         /\ Sized(n, d[n], all) \in Nat
         /\ LET q == 1 + LineOf(DepthBelow(n, d[n]))
                rest == IF k = 0 THEN 0 ELSE (k - 1) * q
            IN Marks(Sized(n, d[n], all)) = (op[n] ++ Marks(all + rest)) ++ cl[n]
<1>1. /\ type[n] \in ElementType /\ TextLength \in Nat /\ d[n] \in Nat
      /\ type[n] = "KEY" => key[n] \in Names
  BY LoadedFacts, SerializerAssumption DEF IsDepth
<1>2. PICK l \in Nat : l = d[n]
  BY <1>1
<1>3. PICK a, b : a = LineOf(l) /\ b = LineOf(l + 1)
  OBVIOUS
<1>4. a \in Nat /\ b \in Nat
  BY <1>2, <1>3, LineLength
<1>5. PICK t \in Nat : t = TabSize * l
  BY DEF TabSize
<1>6. /\ Piece("evaluate", writer.compact, t, "newline") = Marks(a)
      /\ Piece("evaluate", writer.compact, t, CommaToken) = Marks(1)
      /\ Piece("evaluate", writer.compact, t + TabSize, "newline") = Marks(b)
  <2>1. t + TabSize = TabSize * (l + 1)
    BY <1>5 DEF TabSize
  <2> QED BY <1>3, <1>5, <2>1, LineLength
<1>7. sep[n] = Marks(1 + a)
  <2>1. sep[n] = Marks(1) ++ Marks(a)
    BY <1>2, <1>5, <1>6 DEF Layout
  <2> QED BY <1>4, <2>1, MarksFacts
<1>8. k \in Nat /\ (first_child[n] = NIL <=> k = 0)
  BY ChildOrder
<1>9. CASE type[n] = "KEY"
  <2>1. PICK u \in Nat : u = TextLength + IF writer.compact THEN 3 ELSE 4
    BY <1>1
  <2>2. op[n] = Marks(u) /\ cl[n] = Marks(0)
    <3>1. op[n] = Piece("evaluate", writer.compact, t, key[n]) /\ cl[n] = <<>>
      BY <1>2, <1>5, <1>9 DEF Layout
    <3> QED BY <1>1, <1>9, <2>1, <3>1, MarkLengths, MarksFacts
  <2>3. Sized(n, l, all) = u + all
    BY <1>9, <2>1, Zenon DEF Sized
  <2>4. k <= 1
    <3> SUFFICES ASSUME k # 0 PROVE k <= 1
      BY <1>8
    <3>1. PICK c : c = Children(n)
      OBVIOUS
    <3>2. first_child[n] # NIL /\ first_child[n] = last_child[n]
      BY <1>8, <1>9, LoadedFacts DEF JsonShape
    <3>3. 1 \in 1 .. k /\ k \in 1 .. k /\ c[1] = c[k]
      BY <1>8, <3>1, <3>2, ChildOrder
    <3> QED BY <1>8, <3>1, <3>3, ChildOrder
  <2>5. \A q : (IF k = 0 THEN 0 ELSE (k - 1) * (1 + q)) = 0 \/ q \notin Nat
    BY <1>8, <2>4
  <2>6. DepthBelow(n, l) = l
    BY <1>9 DEF DepthBelow
  <2>7. (Marks(u) ++ Marks(all + 0)) ++ Marks(0) = Marks(u + all)
    <3>1. PICK v \in Nat : v = u + all
      BY <2>1
    <3>2. all + 0 = all /\ v + 0 = v
      OBVIOUS
    <3>3. Marks(u) ++ Marks(all) = Marks(v) /\ Marks(v) ++ Marks(0) = Marks(v + 0)
      BY <2>1, <3>1, MarksFacts
    <3> QED BY <3>1, <3>2, <3>3
  <2>8. (IF k = 0 THEN 0 ELSE (k - 1) * (1 + LineOf(DepthBelow(n, l)))) = 0
    BY <1>3, <1>4, <2>5, <2>6
  <2>9. u + all \in Nat
    OBVIOUS
  <2> QED BY <1>2, <1>3, <1>4, <1>7, <2>2, <2>3, <2>7, <2>8, <2>9
<1>10. CASE type[n] = "SCALAR"
  <2>1. PICK u \in Nat : u = TextLength + IF n \in Quoted THEN 2 ELSE 0
    BY <1>1
  <2>2. op[n] = Marks(u) /\ cl[n] = Marks(0)
    <3>1. op[n] = Piece("evaluate", writer.compact, t, ScalarText(n)) /\ cl[n] = <<>>
      BY <1>2, <1>5, <1>10 DEF Layout
    <3> QED BY <1>1, <2>1, <3>1, MarkLengths, MarksFacts
  <2>3. Sized(n, l, all) = u
    BY <1>10, <2>1, Zenon DEF Sized
  <2>4. k = 0 /\ all = 0
    BY <1>8, <1>10, LoadedFacts DEF JsonShape
  <2>5. (Marks(u) ++ Marks(0)) ++ Marks(0) = Marks(u)
    <3>1. u + 0 = u
      BY <2>1
    <3>2. Marks(u) ++ Marks(0) = Marks(u + 0)
      BY <2>1, MarksFacts
    <3> QED BY <3>1, <3>2
  <2> QED BY <1>2, <1>3, <1>4, <1>7, <2>2, <2>3, <2>4, <2>5
<1>11. CASE type[n] \in Container
  <2>1. DepthBelow(n, l) = l + 1
    BY <1>11 DEF DepthBelow, Container
  <2>2. Children(n) = <<>> <=> k = 0
    BY ChildOrder, <1>8
  <2>3. Sized(n, l, all) = IF k = 0 THEN 2 ELSE 2 + all + k - 1 + k * b + a
    <3>1. type[n] # "KEY" /\ type[n] # "SCALAR"
      BY <1>11 DEF Container
    <3>2. Sized(n, l, all) = IF Children(n) = <<>> THEN 2
            ELSE 2 + all + Len(Children(n)) - 1 + Len(Children(n)) * LineOf(l + 1) + LineOf(l)
      BY <3>1, Zenon DEF Sized
    <3> QED BY <1>3, <2>2, <3>2
  <2>4. /\ Piece("evaluate", writer.compact, t, Opening(n)) = Marks(1)
        /\ Piece("evaluate", writer.compact, t, Closing(n)) = Marks(1)
    BY <1>1, MarkLengths
  <2>5. CASE k = 0
    <3>1. op[n] = Marks(1) /\ cl[n] = Marks(1) /\ all = 0
      BY <1>2, <1>5, <1>8, <1>11, <2>4, <2>5 DEF Layout
    <3>2. (Marks(1) ++ Marks(0)) ++ Marks(1) = Marks(2)
      <4>1. Marks(1) ++ Marks(0) = Marks(1) /\ Marks(1) ++ Marks(1) = Marks(2)
        BY MarksFacts
      <4> QED BY <4>1
    <3> QED BY <1>2, <1>3, <1>4, <1>7, <2>3, <2>5, <3>1, <3>2
  <2>6. CASE k # 0
    <3>1. op[n] = Marks(1) ++ Marks(b) /\ cl[n] = Marks(a) ++ Marks(1)
      BY <1>2, <1>5, <1>6, <1>8, <1>11, <2>4, <2>6 DEF Layout
    <3>2. op[n] = Marks(1 + b) /\ cl[n] = Marks(a + 1)
      BY <1>4, <3>1, MarksFacts
    <3>3. PICK r : r = (k - 1) * (1 + b)
      OBVIOUS
    <3>4. r \in Nat /\ k * b + k = r + b + 1 /\ k * b \in Nat
      <4>1. PICK i \in Nat : i = k - 1
        BY <1>8, <2>6
      <4>2. k = i + 1 /\ r = i * (1 + b)
        BY <1>8, <3>3, <4>1
      <4>3. i * (1 + b) \in Nat /\ (i + 1) * b + (i + 1) = i * (1 + b) + b + 1 /\ (i + 1) * b \in Nat
        BY <1>4, <4>1
      <4> QED BY <4>2, <4>3
    <3>5. PICK x \in Nat : x = k * b
      BY <3>4
    <3>6. Sized(n, l, all) = 2 + all + k - 1 + x + a
      BY <2>3, <2>6, <3>5
    <3>7. (1 + b) + (all + r) + (a + 1) = 2 + all + k - 1 + x + a /\ 2 + all + k - 1 + x + a \in Nat
      BY <1>4, <1>8, <2>6, <3>4, <3>5
    <3>8. (Marks(1 + b) ++ Marks(all + r)) ++ Marks(a + 1) = Marks((1 + b) + (all + r) + (a + 1))
      <4>1. 1 + b \in Nat /\ all + r \in Nat /\ a + 1 \in Nat /\ (1 + b) + (all + r) \in Nat
        BY <1>4, <3>4
      <4> QED BY <4>1, MarksFacts
    <3>9. (IF k = 0 THEN 0 ELSE (k - 1) * (1 + LineOf(DepthBelow(n, l)))) = r
      BY <1>3, <2>1, <2>6, <3>3
    <3> QED BY <1>2, <1>3, <1>4, <1>7, <3>2, <3>6, <3>7, <3>8, <3>9
  <2> QED BY <2>5, <2>6
<1> QED BY <1>1, <1>9, <1>10, <1>11 DEF ElementType, ValueType, Container

LEMMA MeasuredWholes ==
  ASSUME LoadedTree, root # NIL, writer.compact \in BOOLEAN, NEW d, IsDepth(d),
         NEW op, NEW cl, NEW sep, Layout("evaluate", writer.compact, d, op, cl, sep)
  PROVE  /\ \E whole : Wholes(op, cl, sep, whole) /\ whole[root] = Marks(TextLengthBelow(root))
         /\ TextLengthBelow(root) \in Nat
<1>1. /\ Capacity \in Nat /\ Live \subseteq Node /\ NIL \notin Live /\ root \in Live
      /\ \A m \in Live : parent[m] \in Live \cup {NIL} /\ (parent[m] = NIL <=> m = root)
  BY CapacityAssumption, LoadedFacts DEF LoadedTree
<1>2. PICK e : IsLevel(e)
  BY IsLevelExists
<1>3. \A n \in Live : e[n] \in 0 .. Capacity - 1 /\ d[n] \in 0 .. e[n] /\ d[n] \in Nat
  BY <1>2, DepthInLevel DEF IsLevel, IsDepth
<1>4. PICK t : t = CHOOSE g : Lengths(g)
  OBVIOUS
<1>5. Lengths(t)
  BY <1>4, RecursionsExist
<1>6. /\ \A l \in 0 .. Capacity : \A n \in Live : t[0][l][n] = 0
      /\ \A k \in 0 .. Capacity - 1 : \A l \in 0 .. Capacity - (k + 1) : \A n \in Live :
           t[k + 1][l][n] = LengthAbove(n, l, t[k])
  <2>1. t[0] = NoLengths /\ \A i \in 1 .. Capacity : t[i] = Longer(i, t[i - 1])
    BY <1>1, <1>5 DEF Lengths
  <2>2. \A k \in 0 .. Capacity - 1 : t[k + 1] = Longer(k + 1, t[k])
    <3> TAKE k \in 0 .. Capacity - 1
    <3>1. k + 1 \in 1 .. Capacity /\ (k + 1) - 1 = k
      BY <1>1
    <3> QED BY <2>1, <3>1
  <2>3. \A x, k : \A l \in 0 .. Capacity - k : \A n \in Live : Longer(k, x)[l][n] = LengthAbove(n, l, x)
    BY <1>1 DEF Longer
  <2>4. \A l \in 0 .. Capacity : \A n \in Live : NoLengths[l][n] = 0
    BY <1>1 DEF NoLengths
  <2> QED BY <2>1, <2>2, <2>3, <2>4
<1> DEFINE Sums(n, l, x, s) ==
             LET c == Children(n) IN
               /\ s \in [0 .. Len(c) -> Nat] /\ s[0] = 0
               /\ \A i \in 1 .. Len(c) : s[i] = s[i - 1] + x[DepthBelow(n, l)][c[i]]
               /\ LengthAbove(n, l, x) = Sized(n, l, s[Len(c)])
               /\ LengthAbove(n, l, x) \in Nat
<1>7. ASSUME NEW n \in Live, NEW l \in Nat, NEW x, \A m \in Live : x[DepthBelow(n, l)][m] \in Nat
      PROVE  \E s : Sums(n, l, x, s)
  <2>1. PICK c : c = Children(n)
    OBVIOUS
  <2>2. PICK s : /\ s \in [0 .. Len(c) -> Nat] /\ s[0] = 0
                 /\ \A i \in 1 .. Len(c) : s[i] = s[i - 1] + x[DepthBelow(n, l)][c[i]]
                 /\ LengthAbove(n, l, x) = Sized(n, l, s[Len(c)])
    BY <1>7, <2>1, LengthsSum
  <2>3. Len(c) \in Nat
    BY <2>1, ChildOrder
  <2>4. PICK all \in Nat : all = s[Len(c)]
    BY <2>2, <2>3
  <2>5. Sized(n, l, all) \in Nat
    <3>1. TextLength \in Nat /\ LineOf(l) \in Nat /\ LineOf(l + 1) \in Nat
      BY SerializerAssumption, LineLength
    <3>2. c = <<>> \/ Len(c) # 0
      BY <2>1, ChildOrder
    <3>3. PICK u \in Nat : u = Len(c) * LineOf(l + 1)
      BY <2>3, <3>1
    <3>4. CASE type[n] = "KEY"
      <4>1. Sized(n, l, all) = TextLength + (IF writer.compact THEN 3 ELSE 4) + all
        BY <3>4, Zenon DEF Sized
      <4> QED BY <3>1, <4>1
    <3>5. CASE type[n] = "SCALAR"
      <4>1. Sized(n, l, all) = TextLength + IF n \in Quoted THEN 2 ELSE 0
        BY <3>5, Zenon DEF Sized
      <4> QED BY <3>1, <4>1
    <3>6. CASE type[n] # "KEY" /\ type[n] # "SCALAR"
      <4>1. Sized(n, l, all) = IF c = <<>> THEN 2
               ELSE 2 + all + Len(c) - 1 + Len(c) * LineOf(l + 1) + LineOf(l)
        BY <2>1, <3>6, Zenon DEF Sized
      <4>2. Sized(n, l, all) = IF c = <<>> THEN 2 ELSE 2 + all + Len(c) - 1 + u + LineOf(l)
        BY <3>3, <4>1
      <4> QED BY <2>3, <3>1, <3>2, <3>3, <4>2
    <3> QED BY <3>4, <3>5, <3>6
  <2> QED BY <2>1, <2>2, <2>4, <2>5
<1> HIDE DEF Sums
<1> DEFINE S == {k \in Nat : \A l \in 0 .. Capacity - k : \A n \in Live : t[k][l][n] \in Nat}
<1>8. 0 \in S
  BY <1>1, <1>6
<1>9. ASSUME NEW k \in 0 .. Capacity - 1, k \in S
      PROVE  k + 1 \in S
  <2>1. ASSUME NEW l \in 0 .. Capacity - (k + 1), NEW n \in Live
        PROVE  t[k + 1][l][n] \in Nat
    <3>1. DepthBelow(n, l) \in 0 .. Capacity - k /\ l \in Nat
      BY <1>1 DEF DepthBelow
    <3>2. \A m \in Live : t[k][DepthBelow(n, l)][m] \in Nat
      BY <1>9, <3>1
    <3>3. LengthAbove(n, l, t[k]) \in Nat
      BY <1>7, <3>1, <3>2 DEF Sums
    <3> QED BY <1>6, <3>3
  <2> QED BY <1>1, <2>1
<1>10. 0 .. Capacity \subseteq S
  <2> HIDE DEF S
  <2> QED BY <1>1, <1>8, <1>9, SetInduction
<1>11. PICK size : size = [n \in Live |-> t[Capacity - e[n]][d[n]][n]]
  OBVIOUS
<1>12. size \in [Live -> Nat]
  <2>1. ASSUME NEW n \in Live PROVE t[Capacity - e[n]][d[n]][n] \in Nat
    <3>1. Capacity - e[n] \in 0 .. Capacity /\ d[n] \in 0 .. Capacity - (Capacity - e[n])
      BY <1>1, <1>3
    <3>2. Capacity - e[n] \in S
      BY <1>10, <3>1
    <3> QED BY <3>1, <3>2
  <2> QED BY <1>11, <2>1
<1>13. PICK whole : whole = [n \in Live |-> Marks(size[n])]
  OBVIOUS
<1>14. whole \in [Live -> Seq(Token)]
  BY <1>12, <1>13, MarksFacts
<1> HIDE DEF S
<1>15. ASSUME NEW n \in Live
       PROVE  \E j : /\ Joins(j, Children(n), sep, whole)
                     /\ whole[n] = (op[n] ++ j[Len(Children(n))]) ++ cl[n]
  <2>1. PICK c, k, l : c = Children(n) /\ k = Capacity - e[n] - 1 /\ l = d[n]
    OBVIOUS
  <2>2. /\ k \in 0 .. Capacity - 1 /\ k \in S /\ k + 1 = Capacity - e[n]
        /\ l \in 0 .. Capacity - (k + 1) /\ l \in Nat
    <3>1. e[n] \in 0 .. Capacity - 1 /\ l \in 0 .. e[n]
      BY <1>3, <2>1
    <3>2. /\ k \in 0 .. Capacity - 1 /\ k \in 0 .. Capacity /\ k + 1 = Capacity - e[n]
          /\ l \in 0 .. Capacity - (k + 1) /\ l \in Nat
      BY <1>1, <2>1, <3>1
    <3> QED BY <1>10, <3>2
  <2>3. PICK x, b : x = t[k] /\ b = DepthBelow(n, l)
    OBVIOUS
  <2>4. b \in 0 .. Capacity - k /\ b \in Nat
    BY <1>1, <2>2, <2>3 DEF DepthBelow
  <2>5. \A m \in Live : x[b][m] \in Nat
    BY <2>2, <2>3, <2>4 DEF S
  <2>6. PICK s : /\ s \in [0 .. Len(c) -> Nat] /\ s[0] = 0
                 /\ \A i \in 1 .. Len(c) : s[i] = s[i - 1] + x[b][c[i]]
                 /\ LengthAbove(n, l, x) = Sized(n, l, s[Len(c)])
    <3>1. \A m \in Live : x[DepthBelow(n, l)][m] \in Nat
      BY <2>3, <2>5
    <3>2. PICK s : Sums(n, l, x, s)
      BY <1>7, <2>2, <3>1
    <3> QED BY <2>1, <2>3, <3>2 DEF Sums
  <2>7. /\ Len(c) \in Nat /\ (first_child[n] = NIL => Len(c) = 0)
        /\ \A i \in 1 .. Len(c) : c[i] \in Live /\ parent[c[i]] = n
    BY <2>1, ChildOrder
  <2>8. PICK all \in Nat : all = s[Len(c)]
    BY <2>6, <2>7
  <2>9. size[n] = Sized(n, l, all)
    <3>1. size[n] = t[k + 1][l][n]
      BY <1>11, <2>1, <2>2
    <3> QED BY <1>6, <2>2, <2>3, <2>6, <2>8, <3>1
  <2>10. PICK q \in Nat : q = 1 + LineOf(b)
    BY <2>4, LineLength
  <2>11. PICK j : j = [i \in 0 .. Len(c) |-> Marks(s[i] + IF i = 0 THEN 0 ELSE (i - 1) * q)]
    OBVIOUS
  <2>12. \A i \in 0 .. Len(c) : (IF i = 0 THEN 0 ELSE (i - 1) * q) \in Nat /\ s[i] \in Nat
    <3> TAKE i \in 0 .. Len(c)
    <3>1. i # 0 => i - 1 \in Nat
      BY <2>7
    <3> QED BY <2>6, <3>1
  <2>13. j \in [0 .. Len(c) -> Seq(Token)] /\ j[0] = <<>>
    <3>1. \A i \in 0 .. Len(c) : Marks(s[i] + IF i = 0 THEN 0 ELSE (i - 1) * q) \in Seq(Token)
      <4> TAKE i \in 0 .. Len(c)
      <4>1. PICK u \in Nat : u = s[i] + IF i = 0 THEN 0 ELSE (i - 1) * q
        BY <2>12
      <4> QED BY <4>1, MarksFacts
    <3>2. 0 \in 0 .. Len(c) /\ s[0] + 0 = 0
      BY <2>6, <2>7
    <3>3. j[0] = Marks(0)
      BY <2>11, <3>2
    <3> QED BY <2>11, <3>1, <3>3, MarksFacts
  <2>14. ASSUME NEW i \in 1 .. Len(c)
         PROVE  j[i] = Lead(j, c, sep, i) ++ whole[c[i]]
    <3>1. PICK m \in Live : m = c[i] /\ parent[m] = n
      BY <2>7
    <3>2. e[m] = e[n] + 1 /\ d[m] = b
      <4>1. d[m] = d[n] + Inside(n)
        BY <1>1, <3>1 DEF IsDepth
      <4>2. DepthBelow(n, l) = l + Inside(n)
        <5>1. type[n] \in ElementType /\ type[n] # "SCALAR"
          <6>1. first_child[n] # NIL
            BY <2>7
          <6> QED BY <6>1, LoadedFacts DEF JsonShape
        <5> QED BY <2>2, <5>1 DEF DepthBelow, Inside, Container, ElementType, ValueType
      <4> QED BY <1>1, <1>2, <2>1, <2>3, <3>1, <4>1, <4>2 DEF IsLevel
    <3>3. Capacity - e[m] = k
      <4>1. e[n] \in 0 .. Capacity - 1
        BY <1>3
      <4> QED BY <1>1, <2>1, <3>2, <4>1
    <3>4. PICK z \in Nat : z = x[b][m]
      BY <2>5
    <3>5. whole[m] = Marks(z)
      BY <1>11, <1>13, <2>3, <3>2, <3>3, <3>4
    <3>6. i \in 0 .. Len(c) /\ i - 1 \in 0 .. Len(c) /\ i # 0
      BY <2>7
    <3>7. PICK v \in Nat : v = s[i - 1] /\ s[i] = v + z
      BY <2>6, <3>1, <3>4, <3>6
    <3>8. j[i] = Marks((v + z) + (i - 1) * q)
      BY <2>11, <3>6, <3>7
    <3>9. CASE i = 1
      <4>1. v = 0 /\ (v + z) + (i - 1) * q = z
        BY <2>6, <3>7, <3>9
      <4>2. Lead(j, c, sep, i) = <<>>
        BY <3>9 DEF Lead
      <4>3. Marks(z) \in Seq(Token)
        BY MarksFacts
      <4>4. <<>> ++ Marks(z) = Marks(z)
        BY <4>3, CatFacts
      <4> QED BY <3>1, <3>5, <3>8, <4>1, <4>2, <4>4
    <3>10. CASE i # 1
      <4>1. i - 1 \in 1 .. Len(c) /\ i - 1 # 0 /\ i - 2 \in Nat /\ (i - 1) - 1 = i - 2
        BY <2>7, <3>10
      <4>2. PICK p \in Live : p = c[i - 1] /\ parent[p] = n
        BY <2>7, <4>1
      <4>3. d[p] = b
        <5>1. d[p] = d[n] + Inside(n) /\ d[m] = d[n] + Inside(n)
          BY <1>1, <3>1, <4>2 DEF IsDepth
        <5> QED BY <3>2, <5>1
      <4>4. sep[p] = Marks(q)
        <5>1. PICK y, h : y \in Nat /\ y = 0 /\ h = Len(Children(p))
          OBVIOUS
        <5>2. sep[p] = Marks(1 + LineOf(d[p]))
          BY <5>1, SizedFills
        <5> QED BY <2>10, <4>3, <5>2
      <4>5. PICK g \in Nat : g = (i - 2) * q
        BY <4>1
      <4>6. (i - 1) * q = g + q
        <5>1. PICK h \in Nat : h = i - 2
          BY <4>1
        <5>2. i - 1 = h + 1 /\ g = h * q
          BY <4>5, <5>1
        <5>3. (h + 1) * q = h * q + q
          OBVIOUS
        <5> QED BY <5>2, <5>3
      <4>7. j[i - 1] = Marks(v + g)
        BY <2>11, <3>6, <3>7, <4>1, <4>5
      <4>8. j[i] = Marks((v + z) + (g + q))
        BY <3>8, <4>6
      <4>9. Lead(j, c, sep, i) = Marks(v + g) ++ Marks(q)
        BY <3>10, <4>2, <4>4, <4>7 DEF Lead
      <4>10. (Marks(v + g) ++ Marks(q)) ++ Marks(z) = Marks(((v + g) + q) + z)
        <5>1. v + g \in Nat /\ (v + g) + q \in Nat
          OBVIOUS
        <5> QED BY <5>1, MarksFacts
      <4>11. ((v + g) + q) + z = (v + z) + (g + q)
        OBVIOUS
      <4> QED BY <3>1, <3>5, <4>8, <4>9, <4>10, <4>11
    <3> QED BY <3>9, <3>10
  <2>15. Joins(j, c, sep, whole)
    BY <2>13, <2>14 DEF Joins
  <2>16. whole[n] = (op[n] ++ j[Len(c)]) ++ cl[n]
    <3>1. PICK r \in Nat : r = IF Len(c) = 0 THEN 0 ELSE (Len(c) - 1) * q
      <4>1. Len(c) \in 0 .. Len(c)
        BY <2>7
      <4> QED BY <2>12, <4>1
    <3>2. j[Len(c)] = Marks(all + r)
      BY <2>7, <2>8, <2>11, <3>1
    <3>3. first_child[n] = NIL => all = 0
      BY <2>6, <2>7, <2>8
    <3>4. Marks(Sized(n, l, all)) = (op[n] ++ Marks(all + r)) ++ cl[n]
      <4>1. PICK h : h = Len(Children(n))
        OBVIOUS
      <4>2. Marks(Sized(n, d[n], all)) =
              (op[n] ++ Marks(all + IF h = 0 THEN 0
                                    ELSE (h - 1) * (1 + LineOf(DepthBelow(n, d[n]))))) ++ cl[n]
        BY <3>3, <4>1, SizedFills
      <4>3. q = 1 + LineOf(DepthBelow(n, d[n])) /\ l = d[n] /\ h = Len(c)
        BY <2>1, <2>3, <2>10, <4>1
      <4>4. r = IF h = 0 THEN 0 ELSE (h - 1) * (1 + LineOf(DepthBelow(n, d[n])))
        BY <3>1, <4>3
      <4> QED BY <4>2, <4>3, <4>4
    <3> QED BY <1>13, <2>9, <3>2, <3>4
  <2> QED BY <2>1, <2>15, <2>16
<1>16. Wholes(op, cl, sep, whole)
  BY <1>14, <1>15 DEF Wholes, Layout
<1>17. size[root] = TextLengthBelow(root)
  <2>1. e[root] = 0 /\ d[root] = 0
    BY <1>1, <1>2 DEF IsLevel, IsDepth
  <2>2. size[root] = t[Capacity - 0][0][root]
    BY <1>1, <1>11, <2>1
  <2>3. Capacity - 0 = Capacity
    BY <1>1
  <2>4. TextLengthBelow(root) = t[Capacity][0][root]
    BY <1>4, LengthDefs
  <2> QED BY <2>2, <2>3, <2>4
<1> QED BY <1>1, <1>12, <1>13, <1>16, <1>17

(* What the passes put out at their ends.                                   *)
Rendered(p) == IF p = "evaluate" THEN Marks(TextLengthBelow(root)) ELSE Text(root)

LEMMA PlacedAnew ==
  ASSUME LoadedTree, root # NIL, NEW d, IsDepth(d), NEW w \in Writer, w.compact = writer.compact
  PROVE  \E pre, upto : /\ Placed(w, d, pre, upto) /\ pre[root] = <<>>
                        /\ upto[root] = Rendered(w.pass)
<1>1. w.compact \in BOOLEAN /\ w.pass \in {"evaluate", "write"}
  BY Zenon DEF Writer
<1>2. PICK op, cl, sep : Layout(w.pass, w.compact, d, op, cl, sep)
  BY <1>1, LayoutExists
<1>3. \E whole : Wholes(op, cl, sep, whole) /\ whole[root] = Rendered(w.pass)
  <2>1. CASE w.pass = "evaluate"
    BY <1>1, <1>2, <2>1, MeasuredWholes DEF Rendered
  <2>2. CASE w.pass = "write"
    BY <1>1, <1>2, <2>2, WrittenWholes DEF Rendered
  <2> QED BY <1>1, <2>1, <2>2
<1>4. PICK whole : Wholes(op, cl, sep, whole) /\ whole[root] = Rendered(w.pass)
  BY <1>3
<1>5. PICK pre, upto : Places(op, cl, sep, pre, upto) /\ upto[root] = whole[root]
  BY <1>4, PlacesExist
<1>6. Placed(w, d, pre, upto) /\ pre[root] = <<>>
  BY <1>2, <1>5 DEF Placed, Places
<1> QED BY <1>4, <1>5, <1>6

----------------------------------------------------------------------------
(* What the calls put out.                                                  *)

InText ==
  \E d, pre, upto : /\ IsDepth(d) /\ Placed(writer, d, pre, upto) /\ IsAt(Here, d, pre, upto)
                    /\ upto[root] = Rendered(writer.pass)

OutcomeInv ==
  /\ pc \in {"parse", "aborted"} => writer.job = "none"
  /\ WellKnown /\ status = "NO_ERROR" /\ pc \in {"render", "pass_end"} =>
       /\ root # NIL /\ InText
       /\ writer.pass = "evaluate" => writer.out = <<>>
       /\ writer.pass = "write" => /\ writer.job = "render"
                                   /\ writer.length = TextLengthBelow(root) + 1
  /\ WellKnown /\ Succeeded({"render", "evaluate"}) =>
       /\ writer.result = TextLengthBelow(root) + 1
       /\ writer.job = "render" => writer.out = Text(root)

LEMMA TextKept ==
  ASSUME LoadedTree, Keep
  PROVE  /\ WellKnown' <=> WellKnown
         /\ root' = root /\ Text(root)' = Text(root)
         /\ writer'.compact = writer.compact =>
              TextLengthBelow(root)' = TextLengthBelow(root) /\ \A p : Rendered(p)' = Rendered(p)
         /\ \A d : IsDepth(d) => IsDepth(d)'
         /\ \A w, d, pre, upto : Placed(w, d, pre, upto) => Placed(w, d, pre, upto)'
         /\ \A c, d, pre, upto : IsAt(c, d, pre, upto) => IsAt(c, d, pre, upto)'
<1>1. /\ type' = type /\ key' = key /\ parent' = parent /\ sibling' = sibling
      /\ first_child' = first_child /\ last_child' = last_child /\ root' = root /\ Live' = Live
  BY KeepLemma
<1>2. WellKnown' <=> WellKnown
  <2>1. \A n : Ancestors(n)' = Ancestors(n)
    BY <1>1 DEF Ancestors
  <2>2. \A n : TurningPoint(n)' = TurningPoint(n)
    BY <1>1, <2>1 DEF TurningPoint
  <2>3. \A n : BehindBranch(n)' = BehindBranch(n)
    BY <1>1, <2>2 DEF BehindBranch
  <2>4. \A n : TakesForeignValue(n)' <=> TakesForeignValue(n)
    BY <1>1, <2>2, <2>3 DEF TakesForeignValue
  <2> QED BY <1>1, <2>4 DEF WellKnown
<1>3. Text(root)' = Text(root)
  BY <1>1 DEF Text, TextAbove, Children
<1>4. ASSUME writer'.compact = writer.compact
      PROVE  TextLengthBelow(root)' = TextLengthBelow(root)
  BY <1>1, <1>4 DEF TextLengthBelow, LengthAbove, Children
<1>5. writer'.compact = writer.compact => \A p : Rendered(p)' = Rendered(p)
  BY <1>3, <1>4 DEF Rendered
<1>6. ASSUME NEW d, IsDepth(d) PROVE IsDepth(d)'
  BY <1>1, <1>6, DepthKept
<1>7. ASSUME NEW n
      PROVE  /\ Opening(n)' = Opening(n) /\ Closing(n)' = Closing(n)
             /\ NextElement(n)' = NextElement(n) /\ (Valueless(n)' <=> Valueless(n))
  BY <1>1, WalkKept DEF Opening, Closing, TypeOf, Valueless
<1>8. ASSUME NEW p, NEW b, NEW d, NEW op, NEW cl, NEW sep, Layout(p, b, d, op, cl, sep)
      PROVE  Layout(p, b, d, op, cl, sep)'
  BY <1>1, <1>7, <1>8 DEF Layout
<1>9. ASSUME NEW op, NEW cl, NEW sep, NEW pre, NEW upto, Places(op, cl, sep, pre, upto)
      PROVE  Places(op, cl, sep, pre, upto)'
  BY <1>1, <1>9 DEF Places
<1>10. ASSUME NEW w, NEW d, NEW pre, NEW upto, Placed(w, d, pre, upto)
       PROVE  Placed(w, d, pre, upto)'
  BY <1>8, <1>9, <1>10 DEF Placed
<1>11. ASSUME NEW c, NEW d, NEW pre, NEW upto, IsAt(c, d, pre, upto)
       PROVE  IsAt(c, d, pre, upto)'
  <2>1. Before(c, d, pre) => Before(c, d, pre)'
    BY <1>1, <1>7 DEF Before, TypeOf
  <2>2. Behind(c, d, upto) => Behind(c, d, upto)'
    BY <1>1 DEF Behind
  <2>3. Over(c, upto) => Over(c, upto)'
    BY <1>1 DEF Over
  <2> QED BY <1>11, <2>1, <2>2, <2>3 DEF IsAt
<1> QED BY <1>1, <1>2, <1>3, <1>4, <1>5, <1>6, <1>10, <1>11

PlacesFound ==
  LoadedTree /\ root # NIL =>
    \A d, w : IsDepth(d) /\ w \in Writer /\ w.compact = writer.compact =>
      \E pre, upto : /\ Placed(w, d, pre, upto) /\ pre[root] = <<>>
                     /\ upto[root] = Rendered(w.pass)

LEMMA AlwaysPlaced == PlacesFound
BY PlacedAnew DEF PlacesFound

(* A pass starts in front of the root.                                      *)
LEMMA PassStarts ==
  ASSUME LoadedTree, HasDepth, Keep, root # NIL,
         writer' \in Writer, Emitted(writer') = <<>>, writer'.indention = 0,
         state' = "EXPECT_VALUE", iter' = NIL, status' = "NO_ERROR", pc' = "render"
  PROVE  InText'
<1>1. LoadedTree' /\ root' = root /\ Live' = Live /\ NIL \notin Live /\ root \in Live
  BY KeepLemma, LoadedFacts DEF LoadedTree
<1>2. PICK d : IsDepth(d) /\ IsDepth(d)'
  BY TextKept DEF HasDepth
<1>3. PICK w, c : w = writer' /\ c = Here'
  OBVIOUS
<1>4. PlacesFound'
  BY AlwaysPlaced, PTL
<1>5. \E pre, upto : /\ Placed(w, d, pre, upto)' /\ pre[root'] = <<>>
                     /\ upto[root'] = Rendered(w.pass)'
  BY <1>1, <1>2, <1>3, <1>4 DEF PlacesFound
<1>6. PICK pre, upto : /\ Placed(w, d, pre, upto)' /\ pre[root] = <<>>
                       /\ upto[root] = Rendered(w.pass)'
  BY <1>1, <1>5
<1>7. /\ c.state = "EXPECT_VALUE" /\ c.iter = NIL /\ c.status = "NO_ERROR" /\ c.pc = "render"
      /\ c.writer = w
  BY <1>3 DEF Here
<1>8. d[root] = 0
  BY <1>1, <1>2, LoadedFacts DEF IsDepth
<1>9. NextElement(NIL) = root /\ TypeOf(NIL) # "KEY"
  BY DEF NextElement, TypeOf
<1>10. Before(c, d, pre)
  BY <1>1, <1>3, <1>6, <1>7, <1>8, <1>9 DEF Before, Stands, TabSize
<1>11. IsAt(c, d, pre, upto)
  BY <1>3, <1>7, <1>10 DEF IsAt
<1>12. IsAt(c, d, pre, upto)'
  BY <1>11, TextKept
<1> QED BY <1>1, <1>2, <1>3, <1>6, <1>12 DEF InText

(* A turn without an error leads to another place in the text.              *)
LEMMA TurnOutcome ==
  ASSUME LoadInv, PassInv, OutcomeInv, VisitKey \/ VisitValue \/ AfterValue
  PROVE  OutcomeInv'
<1>1. LoadedTree /\ Follows(Here, Here') /\ Keep /\ pc = "render" /\ writer \in Writer
  BY TurnsFollow DEF LoadInv, PassInv
<1>2. PICK c, e : c = Here /\ e = Here'
  OBVIOUS
<1>3. /\ c.writer = writer /\ c.status = status /\ c.pc = "render"
      /\ e.writer = writer' /\ e.status = status' /\ e.pc = pc'
  BY <1>1, <1>2 DEF Here
<1>4. Follows(c, e) /\ status' \in {status, "UNEXPECTED_ELEMENT"} /\ pc' \in {"render", "pass_end"}
  BY <1>1, <1>2, <1>3, FollowsStatus
<1>5. ~Succeeded({"render", "evaluate"})'
  BY <1>4 DEF Succeeded
<1> SUFFICES ASSUME WellKnown', status' = "NO_ERROR"
             PROVE  /\ root' # NIL /\ InText'
                    /\ writer'.pass = "evaluate" => writer'.out = <<>>
                    /\ writer'.pass = "write" => /\ writer'.job = "render"
                                                 /\ writer'.length = TextLengthBelow(root)' + 1
  BY <1>4, <1>5 DEF OutcomeInv
<1>6. WellKnown /\ status = "NO_ERROR" /\ root' = root
  BY <1>1, <1>4, TextKept
<1>7. /\ root # NIL /\ InText
      /\ writer.pass = "evaluate" => writer.out = <<>>
      /\ writer.pass = "write" => writer.job = "render" /\ writer.length = TextLengthBelow(root) + 1
  BY <1>1, <1>6 DEF OutcomeInv
<1>8. PICK d, pre, upto : /\ IsDepth(d) /\ Placed(c.writer, d, pre, upto) /\ IsAt(c, d, pre, upto)
                          /\ upto[root] = Rendered(c.writer.pass)
  BY <1>2, <1>3, <1>7 DEF InText
<1>9. IsAt(e, d, pre, upto) /\ SameCall(c.writer, e.writer) /\ Placed(e.writer, d, pre, upto)
  BY <1>1, <1>3, <1>4, <1>6, <1>8, TurnGoes
<1>10. /\ writer'.job = writer.job /\ writer'.pass = writer.pass /\ writer'.compact = writer.compact
       /\ writer.pass = "evaluate" => writer'.out = writer.out
       /\ writer.pass # "evaluate" => writer'.length = writer.length
  BY <1>3, <1>9 DEF SameCall
<1>11. IsDepth(d)' /\ IsAt(e, d, pre, upto)' /\ Placed(e.writer, d, pre, upto)'
  BY <1>1, <1>8, <1>9, TextKept
<1>12. PICK p, w : p = writer'.pass /\ w = writer'
  OBVIOUS
<1>13. upto[root]' = Rendered(p)'
  BY <1>1, <1>3, <1>6, <1>8, <1>10, <1>12, TextKept
<1>14. InText'
  BY <1>2, <1>3, <1>11, <1>12, <1>13 DEF InText
<1>15. TextLengthBelow(root)' = TextLengthBelow(root)
  BY <1>1, <1>10, TextKept
<1> QED BY <1>6, <1>7, <1>10, <1>14, <1>15

(* The fields of the writer that the calls set.                             *)
LEMMA NewWriter ==
  /\ NoWriter.job = "none"
  /\ \A job \in {"render", "evaluate"}, compact \in BOOLEAN :
       LET v == [NoWriter EXCEPT !.job = job, !.compact = compact] IN
         /\ v \in Writer /\ v.pass = "evaluate" /\ v.length = 0 /\ v.indention = 0 /\ v.out = <<>>
BY StartWriter, Zenon DEF NoWriter

LEMMA WriterKeeps ==
  ASSUME NEW w \in Writer
  PROVE  /\ \A r \in Nat : LET v == [w EXCEPT !.result = r] IN
              /\ v \in Writer /\ v.job = w.job /\ v.compact = w.compact /\ v.out = w.out /\ v.result = r
         /\ \A l \in Nat : LET v == [w EXCEPT !.length = l] IN
              /\ v \in Writer /\ v.job = w.job /\ v.compact = w.compact /\ v.out = w.out
              /\ v.pass = w.pass /\ v.length = l
         /\ \A l \in Nat : LET v == [w EXCEPT !.size = l] IN
              /\ v \in Writer /\ v.job = w.job /\ v.compact = w.compact /\ v.out = w.out
              /\ v.pass = w.pass /\ v.length = w.length
         /\ \A l \in Nat : LET v == [w EXCEPT !.written = l] IN
              /\ v \in Writer /\ v.job = w.job /\ v.compact = w.compact /\ v.out = w.out
              /\ v.pass = w.pass /\ v.length = w.length
         /\ \A l \in Nat : LET v == [w EXCEPT !.size = l, !.pass = "write", !.indention = 0] IN
              /\ v \in Writer /\ v.job = w.job /\ v.compact = w.compact /\ v.out = w.out
              /\ v.pass = "write" /\ v.length = w.length /\ v.indention = 0
BY Zenon DEF Writer

LEMMA EvaluatedKeeps ==
  ASSUME writer \in Writer
  PROVE  /\ Evaluated \in Writer /\ Evaluated.length = writer.length + 1
         /\ Evaluated.job = writer.job /\ Evaluated.compact = writer.compact
         /\ Evaluated.out = writer.out /\ Evaluated.pass = writer.pass
<1>1. PICK l \in Nat : l = writer.length + 1
  BY WriterFields
<1>2. Evaluated = [writer EXCEPT !.length = writer.length + 1]
  BY Zenon DEF Evaluated
<1>3. Evaluated = [writer EXCEPT !.length = l]
  BY <1>1, <1>2, Zenon
<1> QED BY <1>1, <1>3, WriterKeeps, Zenon

LEMMA StartOutcome ==
  ASSUME LoadInv, PassInv, NEW job \in {"render", "evaluate"}, NEW compact \in BOOLEAN,
         Start(job, compact)
  PROVE  OutcomeInv'
<1>1. LoadedTree /\ HasDepth /\ Keep /\ pc = "idle"
  BY DEF LoadInv, PassInv, Start
<1>2. CASE root = NIL /\ writer' = NoWriter /\ UNCHANGED <<pc, status, state, iter>>
  BY <1>1, <1>2, NewWriter DEF OutcomeInv, Succeeded
<1>3. CASE /\ root # NIL /\ writer' = [NoWriter EXCEPT !.job = job, !.compact = compact]
           /\ pc' = "render" /\ status' = "NO_ERROR" /\ state' = "EXPECT_VALUE" /\ iter' = NIL
  <2>1. /\ writer' \in Writer /\ writer'.pass = "evaluate" /\ writer'.length = 0
        /\ writer'.indention = 0 /\ writer'.out = <<>>
    BY <1>3, NewWriter, Zenon
  <2>2. PICK w : w = writer'
    OBVIOUS
  <2>3. Emitted(w) = <<>>
    BY <2>1, <2>2, MarksFacts DEF Emitted
  <2>4. InText'
    BY <1>1, <1>3, <2>1, <2>2, <2>3, PassStarts
  <2>5. root' = root
    BY <1>1, KeepLemma
  <2> QED BY <1>3, <2>1, <2>4, <2>5 DEF OutcomeInv, Succeeded
<1> QED BY <1>2, <1>3 DEF Start

(* At the end of a pass without an error all of the text is there.          *)
LEMMA PassIsOver ==
  ASSUME LoadInv, PassInv, OutcomeInv, pc = "pass_end", status = "NO_ERROR", WellKnown
  PROVE  /\ root # NIL /\ TextLengthBelow(root) \in Nat
         /\ writer.pass = "evaluate" => /\ writer.length = TextLengthBelow(root)
                                        /\ writer.out = <<>>
         /\ writer.pass = "write" => /\ writer.job = "render" /\ writer.out = Text(root)
                                     /\ writer.length = TextLengthBelow(root) + 1
<1>1. LoadedTree /\ writer \in Writer
  BY DEF LoadInv, PassInv
<1>2. /\ root # NIL /\ InText
      /\ writer.pass = "evaluate" => writer.out = <<>>
      /\ writer.pass = "write" => /\ writer.job = "render"
                                  /\ writer.length = TextLengthBelow(root) + 1
  BY DEF OutcomeInv
<1>3. PICK c : c = Here
  OBVIOUS
<1>4. c.writer = writer /\ c.pc = "pass_end"
  BY <1>3 DEF Here
<1>5. PICK d, pre, upto : /\ IsDepth(d) /\ IsAt(c, d, pre, upto)
                          /\ upto[root] = Rendered(writer.pass)
  BY <1>2, <1>3 DEF InText
<1>6. Emitted(writer) = Rendered(writer.pass)
  BY <1>4, <1>5 DEF IsAt, Before, Behind, Over
<1>7. writer.compact \in BOOLEAN /\ writer.length \in Nat
  BY <1>1, Zenon DEF Writer
<1>8. PICK op, cl, sep : Layout("evaluate", writer.compact, d, op, cl, sep)
  BY <1>1, <1>5, <1>7, LayoutExists
<1>9. TextLengthBelow(root) \in Nat
  BY <1>1, <1>2, <1>5, <1>7, <1>8, MeasuredWholes
<1>10. ASSUME writer.pass = "evaluate" PROVE writer.length = TextLengthBelow(root)
  <2>1. PICK k, l : k = writer.length /\ l = TextLengthBelow(root)
    OBVIOUS
  <2>2. Marks(k) = Marks(l)
    BY <1>6, <1>10, <2>1 DEF Emitted, Rendered
  <2>3. Len(Marks(k)) = k /\ Len(Marks(l)) = l
    BY <1>7, <1>9, <2>1, MarksFacts
  <2> QED BY <2>1, <2>2, <2>3
<1>11. writer.pass = "write" => writer.out = Text(root)
  BY <1>6 DEF Emitted, Rendered
<1> QED BY <1>2, <1>9, <1>10, <1>11

LEMMA DoneOutcome ==
  ASSUME LoadInv, PassInv, NEW w \in Writer, NEW st, Done(w, st), w.compact = writer.compact,
         WellKnown /\ st = "NO_ERROR" => /\ w.length = TextLengthBelow(root) + 1
                                         /\ w.job = "render" => w.out = Text(root)
  PROVE  OutcomeInv'
<1>1. /\ Keep /\ pc' = "idle" /\ status' = st /\ LoadedTree
      /\ writer' = [w EXCEPT !.result = IF st = "NO_ERROR" THEN w.length ELSE 0]
  BY DEF Done, LoadInv
<1>2. PICK r \in Nat : r = IF st = "NO_ERROR" THEN w.length ELSE 0
  BY WriterFields
<1>3. writer' = [w EXCEPT !.result = r]
  BY <1>1, <1>2, Zenon
<1>4. /\ writer'.job = w.job /\ writer'.compact = w.compact /\ writer'.out = w.out
      /\ writer'.result = r
  BY <1>3, WriterKeeps, Zenon
<1>5. /\ WellKnown' <=> WellKnown
      /\ Text(root)' = Text(root) /\ TextLengthBelow(root)' = TextLengthBelow(root)
  BY <1>1, <1>4, TextKept
<1> QED BY <1>1, <1>2, <1>4, <1>5 DEF OutcomeInv, Succeeded

LEMMA SecondPassOutcome ==
  ASSUME LoadInv, PassInv, OutcomeInv, pc = "pass_end", writer.pass = "evaluate",
         writer.job = "render", NEW size \in Nat, status = "NO_ERROR",
         writer' = [Evaluated EXCEPT !.size = size, !.pass = "write", !.indention = 0],
         pc' = "render", state' = "EXPECT_VALUE", iter' = NIL, status' = status, Keep
  PROVE  OutcomeInv'
<1>1. LoadedTree /\ HasDepth /\ writer \in Writer
  BY DEF LoadInv, PassInv
<1>2. /\ Evaluated \in Writer /\ Evaluated.length = writer.length + 1
      /\ Evaluated.job = writer.job /\ Evaluated.compact = writer.compact
      /\ Evaluated.out = writer.out /\ Evaluated.pass = writer.pass
  BY <1>1, EvaluatedKeeps
<1>3. /\ writer' \in Writer /\ writer'.job = Evaluated.job /\ writer'.compact = Evaluated.compact
      /\ writer'.out = Evaluated.out /\ writer'.pass = "write"
      /\ writer'.length = Evaluated.length /\ writer'.indention = 0
  BY <1>2, WriterKeeps, Zenon
<1>4. /\ WellKnown' <=> WellKnown
      /\ root' = root /\ TextLengthBelow(root)' = TextLengthBelow(root)
  BY <1>1, <1>2, <1>3, TextKept
<1> SUFFICES ASSUME WellKnown PROVE OutcomeInv'
  BY <1>4 DEF OutcomeInv, Succeeded
<1>5. root # NIL /\ writer.length = TextLengthBelow(root) /\ writer.out = <<>>
  BY PassIsOver
<1>6. PICK w : w = writer'
  OBVIOUS
<1>7. Emitted(w) = <<>>
  BY <1>2, <1>3, <1>5, <1>6 DEF Emitted
<1>8. InText'
  BY <1>1, <1>3, <1>5, <1>6, <1>7, PassStarts
<1> QED BY <1>2, <1>3, <1>4, <1>5, <1>8 DEF OutcomeInv, Succeeded

LEMMA PassEndOutcome ==
  ASSUME LoadInv, PassInv, OutcomeInv, EvaluateDone \/ FirstPassDone \/ SecondPassDone
  PROVE  OutcomeInv'
<1>1. /\ writer \in Writer /\ pc = "pass_end" /\ writer.written \in Nat
      /\ writer.pass \in {"evaluate", "write"}
  <2>1. writer \in Writer
    BY DEF PassInv
  <2>2. writer.pass \in {"evaluate", "write"}
    BY <2>1, Zenon DEF Writer
  <2>3. pc = "pass_end"
    BY Zenon DEF EvaluateDone, FirstPassDone, SecondPassDone
  <2> QED BY <2>1, <2>2, <2>3, WriterFields
<1>2. /\ Evaluated \in Writer /\ Evaluated.length = writer.length + 1 /\ writer.length \in Nat
      /\ Evaluated.job = writer.job /\ Evaluated.compact = writer.compact
      /\ Evaluated.out = writer.out /\ Evaluated.pass = writer.pass
  BY <1>1, EvaluatedKeeps, WriterFields
<1>3. status = "NO_ERROR" /\ WellKnown =>
        /\ writer.pass = "evaluate" => writer.length = TextLengthBelow(root)
        /\ writer.pass = "write" => /\ writer.job = "render" /\ writer.out = Text(root)
                                    /\ writer.length = TextLengthBelow(root) + 1
  BY <1>1, PassIsOver
<1>4. CASE EvaluateDone
  <2>1. Done(Evaluated, status) /\ writer.job = "evaluate"
    BY <1>4 DEF EvaluateDone
  <2>2. WellKnown /\ status = "NO_ERROR" => /\ Evaluated.length = TextLengthBelow(root) + 1
                                            /\ Evaluated.job = "render" => Evaluated.out = Text(root)
    BY <1>1, <1>2, <1>3, <2>1
  <2> QED BY <1>2, <2>1, <2>2, DoneOutcome
<1>5. CASE FirstPassDone
  <2>1. /\ writer.pass = "evaluate" /\ writer.job = "render"
        /\ \E size \in {Evaluated.length, Evaluated.length - 1} :
             \/ \E st \in {"BUFFER_TOO_SMALL", status} :
                  st # "NO_ERROR" /\ Done([Evaluated EXCEPT !.size = size], st)
             \/ /\ status = "NO_ERROR"
                /\ writer' = [Evaluated EXCEPT !.size = size, !.pass = "write", !.indention = 0]
                /\ pc' = "render" /\ state' = "EXPECT_VALUE" /\ iter' = NIL
                /\ Keep /\ status' = status
    BY <1>5, Zenon DEF FirstPassDone
  <2>2. Evaluated.length - 1 \in Nat /\ Evaluated.length \in Nat
    BY <1>2
  <2>3. PICK size \in Nat :
             \/ \E st \in {"BUFFER_TOO_SMALL", status} :
                  st # "NO_ERROR" /\ Done([Evaluated EXCEPT !.size = size], st)
             \/ /\ status = "NO_ERROR"
                /\ writer' = [Evaluated EXCEPT !.size = size, !.pass = "write", !.indention = 0]
                /\ pc' = "render" /\ state' = "EXPECT_VALUE" /\ iter' = NIL
                /\ Keep /\ status' = status
    BY <2>1, <2>2, Zenon
  <2>4. PICK w : w = [Evaluated EXCEPT !.size = size]
    OBVIOUS
  <2>5. w \in Writer /\ w.compact = Evaluated.compact
    BY <1>2, <2>4, WriterKeeps, Zenon
  <2>6. ASSUME NEW st, st # "NO_ERROR", Done([Evaluated EXCEPT !.size = size], st)
        PROVE  OutcomeInv'
    <3>1. Done(w, st)
      BY <2>4, <2>6, Zenon
    <3> QED BY <1>2, <2>5, <2>6, <3>1, DoneOutcome
  <2> QED BY <1>1, <2>1, <2>3, <2>6, SecondPassOutcome, Zenon
<1>6. CASE SecondPassDone
  <2>1. PICK l \in Nat : l = writer.written + 1
    BY <1>1
  <2>2. PICK w : w = [writer EXCEPT !.written = l]
    OBVIOUS
  <2>3. /\ w \in Writer /\ w.compact = writer.compact /\ w.length = writer.length
        /\ w.job = writer.job /\ w.out = writer.out
    BY <1>1, <2>2, WriterKeeps, Zenon
  <2>4. /\ writer.pass = "write"
        /\ \/ Done(writer, status)
           \/ Done([writer EXCEPT !.written = writer.written + 1], status)
    BY <1>6, Zenon DEF SecondPassDone
  <2>5. Done(writer, status) \/ Done(w, status)
    BY <2>1, <2>2, <2>4, Zenon
  <2>6. WellKnown /\ status = "NO_ERROR" => /\ writer.length = TextLengthBelow(root) + 1
                                            /\ writer.out = Text(root)
    BY <1>3, <2>4
  <2> QED BY <1>1, <2>3, <2>5, <2>6, DoneOutcome
<1> QED BY <1>4, <1>5, <1>6

(* The steps that leave the tree and the writer alone.                      *)
LEMMA OutcomeStutters ==
  ASSUME LoadInv, OutcomeInv, Keep, pc' = pc, status' = status, writer' = writer,
         pc \in {"render", "pass_end"} => state' = state /\ iter' = iter
  PROVE  OutcomeInv'
<1>1. LoadedTree
  BY DEF LoadInv
<1>2. /\ WellKnown' <=> WellKnown
      /\ root' = root /\ Text(root)' = Text(root) /\ TextLengthBelow(root)' = TextLengthBelow(root)
      /\ \A p : Rendered(p)' = Rendered(p)
      /\ \A d : IsDepth(d) => IsDepth(d)'
      /\ \A w, d, pre, upto : Placed(w, d, pre, upto) => Placed(w, d, pre, upto)'
      /\ \A c, d, pre, upto : IsAt(c, d, pre, upto) => IsAt(c, d, pre, upto)'
  BY <1>1, TextKept
<1>3. pc \in {"render", "pass_end"} /\ InText => InText'
  <2> SUFFICES ASSUME pc \in {"render", "pass_end"}, InText PROVE InText'
    OBVIOUS
  <2>1. PICK w, c, p : w = writer /\ c = Here /\ p = writer.pass
    OBVIOUS
  <2>2. w = writer' /\ c = Here' /\ p = writer'.pass
    BY <2>1 DEF Here
  <2>3. PICK d, pre, upto : /\ IsDepth(d) /\ Placed(w, d, pre, upto) /\ IsAt(c, d, pre, upto)
                            /\ upto[root] = Rendered(p)
    BY <2>1 DEF InText
  <2>4. /\ IsDepth(d)' /\ Placed(w, d, pre, upto)' /\ IsAt(c, d, pre, upto)'
        /\ upto[root]' = Rendered(p)'
    BY <1>2, <2>3
  <2> QED BY <2>2, <2>4 DEF InText
<1> QED BY <1>2, <1>3 DEF OutcomeInv, Succeeded

LEMMA OutcomeInvStep ==
  LoadInv /\ PassInv /\ OutcomeInv /\ [SessionNext]_sessionVars => OutcomeInv'
<1> SUFFICES ASSUME LoadInv, PassInv, OutcomeInv, [SessionNext]_sessionVars
             PROVE  OutcomeInv'
  OBVIOUS
<1>1. CASE Load /\ writer' = NoWriter
  BY <1>1, NewWriter DEF Load, OutcomeInv, Succeeded
<1>2. ASSUME NEW t, Read(t), UNCHANGED writer
      PROVE  OutcomeInv'
  <2>1. pc = "parse" /\ pc' \in {"parse", "idle", "aborted"}
    BY <1>2, ReadPass DEF Read
  <2> QED BY <1>2, <2>1 DEF OutcomeInv, Succeeded
<1>3. CASE RenderStart \/ EvaluateStart
  BY <1>3, StartOutcome DEF RenderStart, EvaluateStart
<1>4. CASE VisitKey \/ VisitValue \/ AfterValue
  BY <1>4, TurnOutcome
<1>5. CASE EvaluateDone \/ FirstPassDone \/ SecondPassDone
  BY <1>5, PassEndOutcome
<1>6. CASE GetStat
  BY <1>6, OutcomeStutters DEF GetStat
<1>7. CASE UNCHANGED sessionVars
  <2>1. /\ Keep /\ state' = state /\ iter' = iter /\ pc' = pc /\ status' = status
        /\ writer' = writer
    BY <1>7 DEF sessionVars, vars, parserVars, Keep
  <2> QED BY <2>1, OutcomeStutters
<1> QED BY <1>1, <1>2, <1>3, <1>4, <1>5, <1>6, <1>7 DEF SessionNext, RenderStep

LEMMA OutcomeInvariant == SessionSpec => []OutcomeInv
<1>1. SessionInit => OutcomeInv
  BY NewWriter DEF SessionInit, ParserInit, Init, OutcomeInv, Succeeded
<1> QED BY <1>1, OutcomeInvStep, LoadInvariant, PassInvariant, PTL DEF SessionSpec

(***************************************************************************)
(* What jes_render has written when it succeeds is the tree: every element, *)
(* in the order of the tree, with its brackets, commas and colons, and      *)
(* nothing else, whatever tree a load has left in which no key borrows the  *)
(* value of another element.                                                *)
(***************************************************************************)
THEOREM WrittenTextIsTheTree == SessionSpec => []RendersTheTree
<1>1. OutcomeInv => RendersTheTree
  BY DEF OutcomeInv, RendersTheTree, Succeeded
<1> QED BY <1>1, OutcomeInvariant, PTL

(***************************************************************************)
(* The size that jes_evaluate and jes_render return is the length of that   *)
(* text with its white space, two columns for each level, and the NUL.      *)
(***************************************************************************)
THEOREM SizeOfTheTextIsReturned == SessionSpec => []ResultIsTheSize
<1>1. OutcomeInv => ResultIsTheSize
  BY DEF OutcomeInv, ResultIsTheSize, Succeeded
<1> QED BY <1>1, OutcomeInvariant, PTL

----------------------------------------------------------------------------
(* The tokens read, as the tree shows them.                                 *)

Shown(t) == IF t \in Names THEN "scalar" ELSE t
IsNamed(s, i) == i < Len(s) /\ s[i + 1] = ColonToken

LEMMA NormalisedIs ==
  ASSUME NEW s \in Seq(Token)
  PROVE  /\ Normalised(s) \in Seq(Token) /\ Len(Normalised(s)) = Len(s)
         /\ \A i \in 1 .. Len(s) :
              Normalised(s)[i] = IF IsNamed(s, i) THEN s[i] ELSE Shown(s[i])
<1>1. Normalised(s) = [i \in DOMAIN s |-> IF s[i] \in Names /\ ~IsNamed(s, i) THEN "scalar" ELSE s[i]]
  BY Zenon DEF Normalised, IsNamed, ColonToken
<1>2. DOMAIN s = 1 .. Len(s) /\ Len(s) \in Nat /\ \A i \in 1 .. Len(s) : s[i] \in Token
  OBVIOUS
<1>3. "scalar" \in Token
  BY Zenon DEF Token, Punctuation
<1> QED BY <1>1, <1>2, <1>3 DEF Shown

LEMMA AppendedLast ==
  ASSUME NEW s \in Seq(Token), NEW t
  PROVE  SubSeq(Append(s, t), 1, Len(Append(s, t)) - 1) = s
<1>1. PICK T : s \in Seq(T) /\ t \in T
  <2>1. s \in Seq(Token \cup {t})
    OBVIOUS
  <2> QED BY <2>1
<1>2. PICK u : u = Append(s, t)
  OBVIOUS
<1>3. /\ u \in Seq(T) /\ Len(u) = Len(s) + 1 /\ Len(s) \in Nat
      /\ \A i \in 1 .. Len(s) : u[i] = s[i]
  BY <1>1, <1>2
<1>4. PICK l \in Nat : l = Len(s) /\ Len(u) - 1 = l
  BY <1>3
<1>5. PICK v : v = SubSeq(u, 1, l)
  OBVIOUS
<1>6. /\ v \in Seq(T) /\ Len(v) = l /\ \A i \in 1 .. l : v[i] = u[i]
  BY <1>3, <1>4, <1>5
<1>7. v = s
  BY <1>1, <1>3, <1>4, <1>6, SeqEqual
<1> QED BY <1>2, <1>4, <1>5, <1>7

LEMMA ColonFacts ==
  /\ ColonToken \in Token /\ Shown(ColonToken) = ColonToken /\ Names \subseteq Token
  /\ \A t \in Names : t # ColonToken /\ Shown(t) = "scalar"
  /\ \A t \in Token : Shown(t) \in Token
<1>1. ColonToken \in Token /\ Names \subseteq Token /\ "scalar" \in Token
  BY Zenon DEF ColonToken, Token, Punctuation
<1>2. ColonToken \notin Names
  BY ParserAssumption, Zenon DEF ColonToken, Punctuation
<1> QED BY <1>1, <1>2 DEF Shown

LEMMA NormalisedMore ==
  ASSUME NEW s \in Seq(Token), NEW t \in Token, t # ColonToken
  PROVE  Normalised(Append(s, t)) = Normalised(s) ++ <<Shown(t)>>
<1>1. PICK u, a, b : u = Append(s, t) /\ a = Normalised(s) /\ b = Normalised(u)
  OBVIOUS
<1>2. /\ u \in Seq(Token) /\ Len(u) = Len(s) + 1 /\ u[Len(s) + 1] = t /\ Len(s) \in Nat
      /\ \A i \in 1 .. Len(s) : u[i] = s[i]
  BY <1>1
<1>3. /\ a \in Seq(Token) /\ Len(a) = Len(s)
      /\ \A i \in 1 .. Len(s) : a[i] = IF IsNamed(s, i) THEN s[i] ELSE Shown(s[i])
  BY <1>1, NormalisedIs
<1>4. /\ b \in Seq(Token) /\ Len(b) = Len(s) + 1
      /\ \A i \in 1 .. Len(s) + 1 : b[i] = IF IsNamed(u, i) THEN u[i] ELSE Shown(u[i])
  BY <1>1, <1>2, NormalisedIs
<1>5. \A i \in 1 .. Len(s) : IsNamed(u, i) <=> IsNamed(s, i)
  BY <1>2 DEF IsNamed
<1>6. ~IsNamed(u, Len(s) + 1)
  BY <1>2 DEF IsNamed
<1>7. PICK x \in Token : x = Shown(t)
  BY ColonFacts
<1>8. \A i \in 1 .. Len(s) : b[i] = a[i]
  BY <1>2, <1>3, <1>4, <1>5
<1>9. b[Len(s) + 1] = x
  BY <1>2, <1>4, <1>6, <1>7
<1>10. b = a \o <<x>>
  <2>1. a \o <<x>> \in Seq(Token) /\ Len(a \o <<x>>) = Len(s) + 1
    BY <1>3
  <2>2. \A i \in 1 .. Len(s) + 1 : b[i] = (a \o <<x>>)[i]
    BY <1>3, <1>8, <1>9
  <2> QED BY <1>4, <2>1, <2>2, SeqEqual
<1> QED BY <1>1, <1>7, <1>10 DEF ++

LEMMA NormalisedKey ==
  ASSUME NEW s \in Seq(Token), NEW k \in Names
  PROVE  Normalised(Append(Append(s, k), ColonToken)) = Normalised(s) ++ <<k, ColonToken>>
<1>0. k \in Token /\ ColonToken \in Token /\ k # ColonToken /\ Shown(ColonToken) = ColonToken
  BY ColonFacts
<1>1. PICK c \in Token : c = ColonToken
  BY <1>0
<1>2. PICK u, a, b : u = Append(Append(s, k), c) /\ a = Normalised(s) /\ b = Normalised(u)
  OBVIOUS
<1>3. /\ u \in Seq(Token) /\ Len(u) = Len(s) + 2 /\ Len(s) \in Nat
      /\ u[Len(s) + 1] = k /\ u[Len(s) + 2] = c
      /\ \A i \in 1 .. Len(s) : u[i] = s[i]
  BY <1>0, <1>2
<1>4. /\ a \in Seq(Token) /\ Len(a) = Len(s)
      /\ \A i \in 1 .. Len(s) : a[i] = IF IsNamed(s, i) THEN s[i] ELSE Shown(s[i])
  BY <1>2, NormalisedIs
<1>5. /\ b \in Seq(Token) /\ Len(b) = Len(s) + 2
      /\ \A i \in 1 .. Len(s) + 2 : b[i] = IF IsNamed(u, i) THEN u[i] ELSE Shown(u[i])
  BY <1>2, <1>3, NormalisedIs
<1>6. \A i \in 1 .. Len(s) : IsNamed(u, i) <=> IsNamed(s, i)
  BY <1>0, <1>3 DEF IsNamed
<1>7. IsNamed(u, Len(s) + 1) /\ ~IsNamed(u, Len(s) + 2)
  BY <1>1, <1>3 DEF IsNamed
<1>8. /\ \A i \in 1 .. Len(s) : b[i] = a[i]
      /\ b[Len(s) + 1] = k /\ b[Len(s) + 2] = c
  BY <1>0, <1>1, <1>3, <1>4, <1>5, <1>6, <1>7
<1>9. b = a \o <<k, c>>
  <2>1. a \o <<k, c>> \in Seq(Token) /\ Len(a \o <<k, c>>) = Len(s) + 2
    BY <1>0, <1>4
  <2>2. \A i \in 1 .. Len(s) + 2 : b[i] = (a \o <<k, c>>)[i]
    BY <1>4, <1>8
  <2> QED BY <1>5, <2>1, <2>2, SeqEqual
<1> QED BY <1>1, <1>2, <1>9 DEF ++

----------------------------------------------------------------------------
(* The texts of elements without white space.                               *)

Starting(n) ==
  IF type[n] = "KEY" THEN Tokens(key[n])
  ELSE IF type[n] = "SCALAR" THEN Tokens("scalar") ELSE Tokens(Opening(n))

Ending(n) == IF type[n] \in Container THEN Tokens(Closing(n)) ELSE <<>>

LEMMA StartingType ==
  ASSUME LoadedTree, NEW n \in Live
  PROVE  Starting(n) \in Seq(Token) /\ Ending(n) \in Seq(Token)
<1>1. type[n] = "KEY" => key[n] \in Putable
  BY LoadedFacts, PutablePunctuation, Zenon
<1>2. "scalar" \in Putable
  BY Zenon DEF Putable, Token, Punctuation
<1>3. /\ Tokens("scalar") \in Seq(Token) /\ Tokens(Opening(n)) \in Seq(Token)
      /\ Tokens(Closing(n)) \in Seq(Token)
      /\ type[n] = "KEY" => Tokens(key[n]) \in Seq(Token)
  BY <1>1, <1>2, TokensType, OpeningClosing
<1> QED BY <1>3, CatFacts DEF Starting, Ending

LEMMA PlainLayout ==
  ASSUME LoadedTree, NEW compact \in BOOLEAN, NEW d, NEW op, NEW cl, NEW sep,
         Layout("write", compact, d, op, cl, sep), NEW n \in Live
  PROVE  op[n] = Starting(n) /\ cl[n] = Ending(n) /\ sep[n] = CommaText
<1>1. \A l, x : Piece("write", compact, l, x) = Tokens(x)
  BY Zenon DEF Piece
<1>2. /\ sep[n] = Tokens(CommaToken) ++ Tokens("newline")
      /\ type[n] = "KEY" => op[n] = Tokens(key[n]) /\ cl[n] = <<>>
      /\ type[n] = "SCALAR" => op[n] = Tokens(ScalarText(n)) /\ cl[n] = <<>>
      /\ type[n] \in Container /\ first_child[n] # NIL =>
           /\ op[n] = Tokens(Opening(n)) ++ Tokens("newline")
           /\ cl[n] = Tokens("newline") ++ Tokens(Closing(n))
      /\ type[n] \in Container /\ first_child[n] = NIL =>
           op[n] = Tokens(Opening(n)) /\ cl[n] = Tokens(Closing(n))
  BY <1>1 DEF Layout
<1>3. sep[n] = CommaText
  BY <1>2, TokensAre, CatFacts
<1>4. type[n] \in ElementType /\ n # NIL
  BY LoadedFacts
<1>5. CASE type[n] = "KEY"
  BY <1>2, <1>3, <1>5 DEF Starting, Ending, Container
<1>6. CASE type[n] = "SCALAR"
  <2>1. Tokens(ScalarText(n)) = Tokens("scalar")
    <3>1. "scalar" \notin Names
      BY ParserAssumption, Zenon
    <3>2. Tokens("scalar") = <<"scalar">>
      BY <3>1, Zenon DEF Tokens
    <3> QED BY <3>2, TokensAre, Zenon
  <2> QED BY <1>2, <1>3, <1>6, <2>1 DEF Starting, Ending, Container
<1>7. CASE type[n] \in Container
  <2>1. PICK a, b : a = Tokens(Opening(n)) /\ b = Tokens(Closing(n))
    OBVIOUS
  <2>2. a \in Seq(Token) /\ b \in Seq(Token)
    BY <2>1, TokensType, OpeningClosing
  <2>3. a ++ <<>> = a /\ <<>> ++ b = b
    BY <2>2, CatFacts
  <2>4. op[n] = a /\ cl[n] = b
    BY <1>2, <1>7, <2>1, <2>3, TokensAre
  <2>5. Starting(n) = a /\ Ending(n) = b
    BY <1>7, <2>1 DEF Starting, Ending, Container
  <2> QED BY <1>3, <2>4, <2>5
<1> QED BY <1>4, <1>5, <1>6, <1>7 DEF ElementType, ValueType, Container

(* Between its place and its end an element has its text.                   *)
LEMMA PlacesMeasure ==
  ASSUME LoadedTree, NEW op, NEW cl, NEW sep, NEW whole, NEW pre, NEW upto,
         Wholes(op, cl, sep, whole), Places(op, cl, sep, pre, upto)
  PROVE  \A n \in Live : upto[n] = pre[n] ++ whole[n]
<1>1. PICK e : IsLevel(e)
  BY IsLevelExists
<1>2. /\ Capacity \in Nat /\ NIL \notin Live
      /\ \A n \in Live : parent[n] \in Live \cup {NIL} /\ e[n] \in 0 .. Capacity - 1
  BY <1>1, CapacityAssumption, LoadedFacts DEF IsLevel
<1>3. /\ op \in [Live -> Seq(Token)] /\ cl \in [Live -> Seq(Token)]
      /\ sep \in [Live -> Seq(Token)] /\ whole \in [Live -> Seq(Token)]
      /\ pre \in [Live -> Seq(Token)] /\ upto \in [Live -> Seq(Token)]
  BY DEF Wholes, Places
<1> DEFINE Fills(n) == upto[n] = pre[n] ++ whole[n]
           S == {k \in Nat : \A n \in Live : e[n] >= Capacity - k => Fills(n)}
<1>4. 0 \in S
  <2>1. \A n \in Live : ~(e[n] >= Capacity - 0)
    BY <1>2
  <2> QED BY <2>1
<1>5. ASSUME NEW k \in 0 .. Capacity - 1, k \in S
      PROVE  k + 1 \in S
  <2>1. ASSUME NEW n \in Live, e[n] >= Capacity - (k + 1)
        PROVE  Fills(n)
    <3>1. PICK c : c = Children(n)
      OBVIOUS
    <3>2. PICK j : /\ Joins(j, c, sep, whole)
                   /\ whole[n] = (op[n] ++ j[Len(c)]) ++ cl[n]
      BY <3>1 DEF Wholes
    <3>3. PICK a \in Seq(Token), b \in Seq(Token), z \in Seq(Token) :
            a = pre[n] /\ b = op[n] /\ z = cl[n]
      BY <1>3
    <3>4. CASE first_child[n] = NIL
      <4>1. Len(c) = 0
        BY <3>1, <3>4, ChildOrder
      <4>2. whole[n] = (b ++ <<>>) ++ z
        BY <3>2, <3>3, <4>1 DEF Joins
      <4>3. upto[n] = (a ++ b) ++ z
        BY <3>3, <3>4 DEF Places
      <4>4. b ++ <<>> = b /\ (a ++ b) ++ z = a ++ (b ++ z)
        BY CatFacts
      <4> QED BY <3>3, <4>2, <4>3, <4>4
    <3>5. CASE first_child[n] # NIL
      <4>1. /\ Len(c) \in Nat /\ 1 <= Len(c) /\ c[1] = first_child[n] /\ c[Len(c)] = last_child[n]
            /\ \A i \in 1 .. Len(c) : c[i] \in Live /\ parent[c[i]] = n
        <5>1. 1 <= Len(c) /\ c[1] = first_child[n] /\ c[Len(c)] = last_child[n]
          BY <3>1, <3>5, ChildOrder
        <5>2. Len(c) \in Nat /\ \A i \in 1 .. Len(c) : c[i] \in Live /\ parent[c[i]] = n
          BY <3>1, ChildOrder
        <5> QED BY <5>1, <5>2
      <4>2. \A i \in 1 .. Len(c) : j[i] \in Seq(Token)
        <5>1. \A i \in 1 .. Len(c) : i \in 0 .. Len(c)
          BY <4>1
        <5> QED BY <3>2, <5>1 DEF Joins
      <4>3. \A i \in 1 .. Len(c) : Fills(c[i])
        <5> TAKE i \in 1 .. Len(c)
        <5>1. PICK m \in Live : m = c[i] /\ parent[m] = n
          BY <4>1
        <5>2. e[m] = e[n] + 1
          BY <1>1, <1>2, <5>1 DEF IsLevel
        <5>3. e[m] >= Capacity - k
          <6>1. e[n] \in 0 .. Capacity - 1
            BY <1>2
          <6> QED BY <1>2, <2>1, <5>2, <6>1
        <5> QED BY <1>5, <5>1, <5>3
      <4> DEFINE T == {i \in Nat : i # 0 => pre[c[i]] ++ whole[c[i]] = a ++ (b ++ j[i])}
      <4>4. 0 \in T
        OBVIOUS
      <4>5. ASSUME NEW i \in 0 .. Len(c) - 1, i \in T
            PROVE  i + 1 \in T
        <5>1. i + 1 \in 1 .. Len(c) /\ i \in Nat /\ (i + 1) - 1 = i /\ i + 1 # 0
          BY <4>1
        <5>2. PICK m \in Live : m = c[i + 1]
          BY <4>1, <5>1
        <5>0. PICK w \in Seq(Token) : w = whole[m]
          BY <1>3
        <5>3. PICK l : l = Lead(j, c, sep, i + 1)
          OBVIOUS
        <5>4. j[i + 1] = l ++ w
          BY <3>2, <5>0, <5>1, <5>2, <5>3 DEF Joins
        <5>5. pre[m] = a ++ (b ++ l) /\ l \in Seq(Token)
          <6>1. CASE i = 0
            <7>1. l = <<>>
              BY <5>3, <6>1 DEF Lead
            <7>2. pre[m] = a ++ b
              BY <3>3, <3>5, <4>1, <5>2, <6>1 DEF Places
            <7> QED BY <7>1, <7>2, CatFacts
          <6>2. CASE i # 0
            <7>1. i \in 1 .. Len(c) /\ i \in 0 .. Len(c)
              BY <4>1, <6>2
            <7>2. PICK p \in Live : p = c[i]
              BY <4>1, <7>1
            <7>3. PICK x \in Seq(Token), y \in Seq(Token) : x = j[i] /\ y = sep[p]
              BY <1>3, <4>2, <7>1
            <7>4. l = x ++ y
              BY <5>1, <5>3, <6>2, <7>2, <7>3 DEF Lead
            <7>5. sibling[p] = m
              <8>1. i \in 1 .. Len(c) - 1
                BY <4>1, <7>1
              <8> QED BY <3>1, <5>2, <7>2, <8>1, LoadedFacts, ChildrenFacts
            <7>6. m # NIL
              BY <1>2, <5>2
            <7>7. pre[m] = upto[p] ++ y
              BY <7>3, <7>5, <7>6 DEF Places
            <7>8. upto[p] = a ++ (b ++ x)
              BY <4>3, <4>5, <6>2, <7>1, <7>2, <7>3
            <7>9. (a ++ (b ++ x)) ++ y = a ++ (b ++ (x ++ y)) /\ x ++ y \in Seq(Token)
              <8>1. b ++ x \in Seq(Token)
                BY CatFacts
              <8> QED BY <8>1, CatFacts
            <7> QED BY <7>4, <7>7, <7>8, <7>9
          <6> QED BY <6>1, <6>2
        <5>6. (a ++ (b ++ l)) ++ w = a ++ (b ++ (l ++ w))
          <6>1. b ++ l \in Seq(Token)
            BY <5>5, CatFacts
          <6> QED BY <5>5, <6>1, CatFacts
        <5> QED BY <5>0, <5>1, <5>2, <5>4, <5>5, <5>6
      <4>6. 0 .. Len(c) \subseteq T
        <5> HIDE DEF T
        <5> QED BY <4>1, <4>4, <4>5, SetInduction
      <4>7. Len(c) \in T /\ Len(c) # 0 /\ Len(c) \in 1 .. Len(c)
        <5> HIDE DEF T
        <5> QED BY <4>1, <4>6
      <4>8. PICK x \in Seq(Token) : x = j[Len(c)]
        BY <4>2, <4>7
      <4>9. upto[last_child[n]] = a ++ (b ++ x)
        BY <4>1, <4>3, <4>7, <4>8
      <4>10. upto[n] = (a ++ (b ++ x)) ++ z
        BY <3>3, <3>5, <4>9 DEF Places
      <4>11. whole[n] = (b ++ x) ++ z
        BY <3>2, <3>3, <4>8
      <4>12. (a ++ (b ++ x)) ++ z = a ++ ((b ++ x) ++ z)
        <5>1. b ++ x \in Seq(Token)
          BY CatFacts
        <5> QED BY <5>1, CatFacts
      <4> QED BY <3>3, <4>10, <4>11, <4>12
    <3> QED BY <3>4, <3>5
  <2>2. k + 1 \in Nat
    BY <1>2
  <2> QED BY <2>1, <2>2
<1>6. 0 .. Capacity \subseteq S
  <2> HIDE DEF S
  <2> QED BY <1>2, <1>4, <1>5, SetInduction
<1>7. Capacity \in S
  <2> HIDE DEF S
  <2> QED BY <1>2, <1>6
<1>8. \A n \in Live : e[n] >= Capacity - Capacity
  BY <1>2
<1> QED BY <1>7, <1>8

----------------------------------------------------------------------------
(* Where the parser is in the text.  pre[n] is what is in front of n, and   *)
(* upto[n] what is read up to the end of n; open are the elements that have *)
(* not ended, one below the other.                                          *)

(* Up to the last thing that is read in n.                                  *)
UptoLast(n, pre, upto) ==
  IF first_child[n] = NIL THEN pre[n] ++ Starting(n) ELSE upto[last_child[n]]

ReadInto(pre, upto, open) ==
  /\ pre \in [Live -> Seq(Token)] /\ upto \in [Live -> Seq(Token)] /\ open \subseteq Live
  /\ root # NIL => pre[root] = <<>>
  /\ \A n \in Live :
       /\ first_child[n] # NIL => pre[first_child[n]] = pre[n] ++ Starting(n)
       /\ sibling[n] # NIL => n \notin open /\ pre[sibling[n]] = upto[n] ++ CommaText
       /\ n \notin open => upto[n] = UptoLast(n, pre, upto) ++ Ending(n)
       /\ n \in open /\ parent[n] # NIL => parent[n] \in open

(* The innermost open element is c, NIL if all is closed.                   *)
Innermost(open, c) ==
  /\ c = NIL => open = {}
  /\ c # NIL => c \in open /\ \A n \in open : parent[n] # c

(* What is in front of the next child of p.                                 *)
NextPlace(p, pre, upto) ==
  IF p = NIL THEN <<>>
  ELSE IF first_child[p] = NIL THEN pre[p] ++ Starting(p)
  ELSE upto[last_child[p]] ++ CommaText

(* Behind the last child of c, or the whole text.                           *)
UptoEnd(c, pre, upto) == IF c = NIL THEN upto[root] ELSE UptoLast(c, pre, upto)

LEMMA LastFacts ==
  ASSUME LoadedTree, NEW p \in Live, first_child[p] # NIL
  PROVE  /\ first_child[p] \in Live /\ parent[first_child[p]] = p
         /\ last_child[p] \in Live /\ parent[last_child[p]] = p /\ sibling[last_child[p]] = NIL
         /\ \A n \in Live : parent[n] = p /\ sibling[n] = NIL => n = last_child[p]
<1>1. TreeShape /\ TreeOK /\ NIL \notin Live
  BY LoadedFacts
<1>2. /\ first_child[p] \in Live /\ parent[first_child[p]] = p
      /\ last_child[p] \in Live /\ parent[last_child[p]] = p /\ p # NIL
  BY <1>1, LinkFacts DEF TreeOK, EndsOK
<1>3. \A n \in Live : parent[n] = p => (sibling[n] = NIL <=> last_child[p] = n)
  BY <1>1, <1>2 DEF TreeOK, SiblingsOK
<1> QED BY <1>2, <1>3

LEMMA ParentHasChild ==
  ASSUME LoadedTree, NEW n \in Live, parent[n] # NIL
  PROVE  parent[n] \in Live /\ first_child[parent[n]] # NIL /\ parent[n] # n
<1>1. PoolInv /\ TreeOK /\ parent[n] \in Live
  BY LoadedFacts
<1>2. first_child[parent[n]] # NIL
  BY <1>1, ChildlessLemma
<1>3. parent[n] # n
  <2>1. {n} \in SUBSET Live /\ {n} # {}
    OBVIOUS
  <2>2. \E m \in {n} : parent[m] \notin {n}
    BY <1>1, <2>1 DEF TreeOK, Acyclic
  <2> QED BY <2>2
<1> QED BY <1>1, <1>2, <1>3

LEMMA ReadType ==
  ASSUME LoadedTree, NEW pre, NEW upto, NEW open, ReadInto(pre, upto, open), NEW n \in Live
  PROVE  /\ pre[n] \in Seq(Token) /\ upto[n] \in Seq(Token)
         /\ UptoLast(n, pre, upto) \in Seq(Token) /\ NextPlace(n, pre, upto) \in Seq(Token)
<1>1. \A m \in Live : pre[m] \in Seq(Token) /\ upto[m] \in Seq(Token)
  BY DEF ReadInto
<1>2. Starting(n) \in Seq(Token) /\ CommaText \in Seq(Token) /\ n # NIL
  BY StartingType, TokensAre, LoadedFacts
<1>3. CASE first_child[n] = NIL
  BY <1>1, <1>2, <1>3, CatFacts DEF UptoLast, NextPlace
<1>4. CASE first_child[n] # NIL
  <2>1. last_child[n] \in Live
    BY <1>4, LastFacts
  <2> QED BY <1>1, <1>2, <1>4, <2>1, CatFacts DEF UptoLast, NextPlace
<1> QED BY <1>3, <1>4

(* The innermost element ends.                                              *)
LEMMA EndInnermost ==
  ASSUME LoadedTree, NEW pre, NEW upto, NEW open, ReadInto(pre, upto, open),
         NEW c \in Live, Innermost(open, c)
  PROVE  /\ sibling[c] = NIL
         /\ \E next : /\ ReadInto(pre, next, open \ {c}) /\ Innermost(open \ {c}, parent[c])
                      /\ next[c] = UptoLast(c, pre, upto) ++ Ending(c)
<1>0. PICK next : next = [upto EXCEPT ![c] = UptoLast(c, pre, upto) ++ Ending(c)]
  OBVIOUS
<1>1. /\ NIL \notin Live /\ TreeOK /\ \A n \in Live : parent[n] \in Live \cup {NIL}
      /\ \A n \in Live : parent[n] = NIL <=> n = root
  BY LoadedFacts
<1>2. c \in open /\ (\A n \in open : parent[n] # c) /\ open \subseteq Live /\ sibling[c] = NIL
  BY <1>1 DEF Innermost, ReadInto
<1>3. UptoLast(c, pre, upto) ++ Ending(c) \in Seq(Token)
  BY ReadType, StartingType, CatFacts
<1>4. /\ next \in [Live -> Seq(Token)] /\ next[c] = UptoLast(c, pre, upto) ++ Ending(c)
      /\ \A n \in Live : n # c => next[n] = upto[n]
  BY <1>0, <1>3 DEF ReadInto
<1>5. ASSUME NEW n \in Live, n = c \/ n \notin open
      PROVE  UptoLast(n, pre, next) = UptoLast(n, pre, upto)
  <2>1. CASE first_child[n] = NIL
    BY <2>1 DEF UptoLast
  <2>2. CASE first_child[n] # NIL
    <3>1. last_child[n] \in Live /\ parent[last_child[n]] = n /\ n # NIL
      BY <1>1, <2>2, LastFacts
    <3>2. last_child[n] # c
      <4>1. CASE n = c
        BY <3>1, <4>1, ParentHasChild
      <4>2. CASE n \notin open
        BY <1>2, <3>1, <4>2 DEF ReadInto
      <4> QED BY <1>5, <4>1, <4>2
    <3> QED BY <1>4, <2>2, <3>1, <3>2 DEF UptoLast
  <2> QED BY <2>1, <2>2
<1>6. ReadInto(pre, next, open \ {c})
  <2>1. ASSUME NEW n \in Live
        PROVE  /\ first_child[n] # NIL => pre[first_child[n]] = pre[n] ++ Starting(n)
               /\ sibling[n] # NIL => n \notin open \ {c} /\ pre[sibling[n]] = next[n] ++ CommaText
               /\ n \notin open \ {c} => next[n] = UptoLast(n, pre, next) ++ Ending(n)
               /\ n \in open \ {c} /\ parent[n] # NIL => parent[n] \in open \ {c}
    <3>1. first_child[n] # NIL => pre[first_child[n]] = pre[n] ++ Starting(n)
      BY DEF ReadInto
    <3>2. sibling[n] # NIL => n \notin open \ {c} /\ pre[sibling[n]] = next[n] ++ CommaText
      BY <1>2, <1>4 DEF ReadInto
    <3>3. n \notin open \ {c} => next[n] = UptoLast(n, pre, next) ++ Ending(n)
      <4>1. CASE n = c
        BY <1>4, <1>5, <4>1
      <4>2. CASE n # c /\ n \notin open
        <5>1. upto[n] = UptoLast(n, pre, upto) ++ Ending(n)
          BY <4>2 DEF ReadInto
        <5> QED BY <1>4, <1>5, <4>2, <5>1
      <4> QED BY <4>1, <4>2
    <3>4. n \in open \ {c} /\ parent[n] # NIL => parent[n] \in open \ {c}
      BY <1>2 DEF ReadInto
    <3> QED BY <3>1, <3>2, <3>3, <3>4
  <2>2. /\ pre \in [Live -> Seq(Token)] /\ (root # NIL => pre[root] = <<>>)
        /\ open \ {c} \subseteq Live
    BY <1>2 DEF ReadInto
  <2> QED BY <1>4, <2>1, <2>2 DEF ReadInto
<1>7. Innermost(open \ {c}, parent[c])
  <2>1. CASE parent[c] = NIL
    <3>1. SUFFICES ASSUME open \ {c} # {} PROVE FALSE
      BY <1>1, <2>1 DEF Innermost
    <3>2. PICK n \in open \ {c} : parent[n] \notin open \ {c}
      <4>1. open \ {c} \in SUBSET Live
        BY <1>2
      <4> QED BY <1>1, <3>1, <4>1 DEF TreeOK, Acyclic
    <3>3. parent[n] = NIL
      BY <1>2, <3>2 DEF ReadInto
    <3> QED BY <1>1, <1>2, <2>1, <3>2, <3>3
  <2>2. CASE parent[c] # NIL
    <3>1. parent[c] \in Live /\ first_child[parent[c]] # NIL /\ parent[c] # c
      BY <2>2, ParentHasChild
    <3>2. parent[c] \in open \ {c}
      BY <1>2, <2>2, <3>1 DEF ReadInto
    <3>3. ASSUME NEW n \in open \ {c} PROVE parent[n] # parent[c]
      <4>1. n \in Live /\ sibling[n] = NIL
        BY <1>2, <3>3 DEF ReadInto
      <4>2. parent[n] = parent[c] => n = last_child[parent[c]] /\ c = last_child[parent[c]]
        BY <1>2, <3>1, <4>1, LastFacts
      <4> QED BY <3>3, <4>2
    <3> QED BY <2>2, <3>2, <3>3 DEF Innermost
  <2> QED BY <2>1, <2>2
<1> QED BY <1>2, <1>4, <1>6, <1>7

(* A value has ended, and with it the key whose value it is.                *)
LEMMA ValueEnds ==
  ASSUME LoadedTree, NEW pre, NEW upto, NEW open, ReadInto(pre, upto, open),
         NEW v \in Live, Innermost(open, parent[v]), sibling[v] = NIL
  PROVE  \E next, left : /\ ReadInto(pre, next, left) /\ Innermost(left, Outer(v))
                         /\ UptoEnd(Outer(v), pre, next) = upto[v]
<1>1. /\ NIL \notin Live /\ parent[v] \in Live \cup {NIL}
      /\ \A n \in Live : parent[n] = NIL <=> n = root
      /\ \A n \in Live : type[n] = "KEY" => parent[n] \in Live
  BY LoadedFacts
<1>2. CASE parent[v] = NIL
  <2>1. Outer(v) = NIL /\ v = root
    BY <1>1, <1>2 DEF Outer
  <2>2. UptoEnd(Outer(v), pre, upto) = upto[v]
    BY <2>1 DEF UptoEnd
  <2> QED BY <1>2, <2>1, <2>2
<1>3. ASSUME NEW p \in Live, p = parent[v]
      PROVE  first_child[p] # NIL /\ last_child[p] = v
  <2>1. first_child[p] # NIL
    BY <1>1, <1>3, ParentHasChild
  <2> QED BY <1>3, <2>1, LastFacts
<1>4. CASE parent[v] # NIL /\ type[parent[v]] # "KEY"
  <2>1. Outer(v) = parent[v] /\ parent[v] \in Live
    BY <1>1, <1>4 DEF Outer
  <2>2. UptoEnd(Outer(v), pre, upto) = upto[v]
    BY <1>3, <1>4, <2>1 DEF UptoEnd, UptoLast
  <2> QED BY <2>1, <2>2
<1>5. CASE parent[v] # NIL /\ type[parent[v]] = "KEY"
  <2>1. PICK k \in Live : k = parent[v]
    BY <1>1, <1>5
  <2>2. PICK o \in Live : o = parent[k] /\ Outer(v) = o
    BY <1>1, <1>5, <2>1 DEF Outer
  <2>3. Innermost(open, k) /\ parent[k] = o
    BY <2>1, <2>2
  <2>4. PICK next : /\ ReadInto(pre, next, open \ {k}) /\ Innermost(open \ {k}, o)
                    /\ next[k] = UptoLast(k, pre, upto) ++ Ending(k) /\ sibling[k] = NIL
    <3>1. /\ sibling[k] = NIL
          /\ \E next : /\ ReadInto(pre, next, open \ {k}) /\ Innermost(open \ {k}, parent[k])
                       /\ next[k] = UptoLast(k, pre, upto) ++ Ending(k)
      BY <2>3, EndInnermost
    <3> QED BY <2>3, <3>1
  <2>5. next[k] = upto[v]
    <3>1. UptoLast(k, pre, upto) = upto[v] /\ Ending(k) = <<>>
      BY <1>3, <1>5, <2>1 DEF UptoLast, Ending, Container
    <3>2. upto[v] \in Seq(Token)
      BY ReadType
    <3> QED BY <2>4, <3>1, <3>2, CatFacts
  <2>6. first_child[o] # NIL /\ last_child[o] = k
    <3>1. first_child[o] # NIL
      BY <1>1, <2>2, ParentHasChild
    <3> QED BY <2>2, <2>4, <3>1, LastFacts
  <2>7. UptoEnd(o, pre, next) = upto[v]
    BY <1>1, <2>5, <2>6 DEF UptoEnd, UptoLast
  <2> QED BY <2>2, <2>4, <2>7
<1> QED BY <1>2, <1>4, <1>5

ValuesEnd ==
  \A pre, upto, open, v :
    /\ LoadedTree /\ ReadInto(pre, upto, open)
    /\ v \in Live /\ Innermost(open, parent[v]) /\ sibling[v] = NIL
    => \E next, left : /\ ReadInto(pre, next, left) /\ Innermost(left, Outer(v))
                       /\ UptoEnd(Outer(v), pre, next) = upto[v]

LEMMA ValuesEndAlways == ValuesEnd
BY ValueEnds DEF ValuesEnd

(* When all is closed what was read is the text of the tree.                *)
LEMMA AllIsRead ==
  ASSUME LoadedTree, HasDepth, root # NIL, NEW pre, NEW upto, ReadInto(pre, upto, {})
  PROVE  upto[root] = Text(root)
<1>1. PICK d : IsDepth(d)
  BY DEF HasDepth
<1>2. PICK compact \in BOOLEAN : compact = TRUE
  OBVIOUS
<1>3. PICK op, cl, sep : Layout("write", compact, d, op, cl, sep)
  BY <1>1, LayoutExists
<1>4. PICK whole : Wholes(op, cl, sep, whole) /\ whole[root] = Text(root)
  BY <1>3, WrittenWholes
<1>5. \A n \in Live : op[n] = Starting(n) /\ cl[n] = Ending(n) /\ sep[n] = CommaText
  BY <1>3, PlainLayout
<1>6. Places(op, cl, sep, pre, upto)
  <2>1. \A n \in Live : upto[n] = UptoLast(n, pre, upto) ++ Ending(n)
    BY DEF ReadInto
  <2> QED BY <1>5, <2>1 DEF ReadInto, Places, UptoLast
<1>7. root \in Live /\ upto[root] = pre[root] ++ whole[root]
  BY <1>4, <1>6, PlacesMeasure DEF LoadedTree
<1>8. pre[root] = <<>> /\ whole[root] \in Seq(Token)
  BY <1>4, <1>6, <1>7 DEF Places, Wholes
<1> QED BY <1>4, <1>7, <1>8, CatFacts

----------------------------------------------------------------------------
(* An element n is added behind the children of p.                          *)

Grows(n, p) ==
  /\ n \notin Live /\ n # NIL /\ n \in Node /\ Live' = Live \cup {n}
  /\ parent'[n] = p /\ first_child'[n] = NIL /\ sibling'[n] = NIL
  /\ root' = IF p = NIL THEN n ELSE root
  /\ p # NIL =>
       /\ p \in Live /\ last_child'[p] = n
       /\ first_child'[p] = IF first_child[p] = NIL THEN n ELSE first_child[p]
       /\ first_child[p] # NIL => sibling'[last_child[p]] = n
  /\ \A m \in Live :
       /\ type'[m] = type[m] /\ key'[m] = key[m] /\ parent'[m] = parent[m]
       /\ m # p => first_child'[m] = first_child[m] /\ last_child'[m] = last_child[m]
       /\ p = NIL \/ first_child[p] = NIL \/ m # last_child[p] => sibling'[m] = sibling[m]

LEMMA InsertGrows ==
  ASSUME LoadedTree, NEW p \in Live \cup {NIL}, p = NIL => root = NIL, NEW t, NEW k,
         InsertNode(p, LastChild(p), t, k), NEW n, n = NextNode
  PROVE  Grows(n, p) /\ type'[n] = t /\ key'[n] = k
<1>1. /\ TreeShape /\ NodesOK /\ NIL \notin Live /\ Live \subseteq Node /\ TreeOK
      /\ LinkTypes /\ NIL \notin Node
  BY LoadedFacts, NilAssumption DEF TreeShape
<1>2. Place(p, LastChild(p))
  <2>1. p = NIL => LastChild(p) = NIL
    BY DEF LastChild
  <2> QED BY <1>1, <2>1, PlaceLast DEF Place
<1>3. /\ n \notin Live /\ n \in Node /\ Live' = Live \cup {n}
      /\ type'[n] = t /\ key'[n] = k /\ parent'[n] = p
      /\ first_child'[n] = NIL /\ last_child'[n] = NIL
      /\ root' = IF p = NIL THEN n ELSE root
      /\ \A m \in Live : type'[m] = type[m] /\ key'[m] = key[m] /\ parent'[m] = parent[m]
      /\ \A m \in Live : m # p => /\ first_child'[m] = first_child[m]
                                  /\ last_child'[m] = last_child[m]
      /\ p # NIL /\ first_child[p] = NIL => first_child'[p] = n /\ last_child'[p] = n
  BY <1>1, <1>2, InsertFacts
<1>4. CASE p = NIL /\ InsertRoot(t, k)
  <2>1. sibling' = [sibling EXCEPT ![n] = NIL]
    BY <1>4 DEF InsertRoot
  <2>2. sibling'[n] = NIL /\ \A m \in Live : sibling'[m] = sibling[m]
    BY <1>1, <1>3, <2>1 DEF LinkTypes
  <2> QED BY <1>1, <1>3, <1>4, <2>2 DEF Grows
<1>5. CASE p # NIL /\ LastChild(p) = NIL /\ Prepend(p, t, k)
  <2>1. first_child[p] = NIL
    BY <1>1, <1>5 DEF LastChild, TreeOK, EndsOK
  <2>2. sibling' = [sibling EXCEPT ![n] = first_child[p]]
    BY <1>5 DEF Prepend
  <2>3. sibling'[n] = NIL /\ \A m \in Live : sibling'[m] = sibling[m]
    BY <1>1, <1>3, <2>1, <2>2 DEF LinkTypes
  <2> QED BY <1>1, <1>3, <1>5, <2>1, <2>3 DEF Grows
<1>6. CASE p # NIL /\ LastChild(p) # NIL /\ InsertAfter(p, LastChild(p), t, k)
  <2>1. first_child[p] # NIL /\ LastChild(p) = last_child[p]
    BY <1>6 DEF LastChild
  <2>2. PICK l \in Live : l = last_child[p] /\ sibling[l] = NIL
    BY <1>6, <2>1, LastFacts
  <2>3. /\ sibling' = [sibling EXCEPT ![n] = sibling[l], ![l] = n]
        /\ first_child' = [first_child EXCEPT ![n] = NIL]
        /\ last_child' = [last_child EXCEPT ![n] = NIL, ![p] = IF @ = l THEN n ELSE @]
    BY <1>6, <2>1, <2>2 DEF InsertAfter
  <2>4. /\ sibling'[n] = NIL /\ sibling'[l] = n
        /\ \A m \in Live : m # l => sibling'[m] = sibling[m]
        /\ first_child'[p] = first_child[p] /\ last_child'[p] = n
    BY <1>1, <1>3, <1>6, <2>2, <2>3 DEF LinkTypes
  <2> QED BY <1>1, <1>3, <1>6, <2>1, <2>2, <2>4 DEF Grows
<1> QED BY <1>4, <1>5, <1>6 DEF InsertNode

LEMMA StartingKept ==
  ASSUME NEW m, m # NIL, type'[m] = type[m], key'[m] = key[m]
  PROVE  Starting(m)' = Starting(m) /\ Ending(m)' = Ending(m)
<1>1. Opening(m)' = Opening(m) /\ Closing(m)' = Closing(m)
  BY Zenon DEF Opening, Closing, TypeOf
<1>2. Tokens(Opening(m))' = Tokens(Opening(m)) /\ Tokens(Closing(m))' = Tokens(Closing(m))
  BY <1>1, Zenon DEF Tokens
<1>3. Tokens(key[m])' = Tokens(key[m]) /\ Tokens("scalar")' = Tokens("scalar")
  BY Zenon DEF Tokens
<1> QED BY <1>2, <1>3 DEF Starting, Ending

StartingTyped ==
  LoadedTree => \A m \in Live : Starting(m) \in Seq(Token) /\ Ending(m) \in Seq(Token)

LEMMA StartingTypedAlways == StartingTyped
BY StartingType DEF StartingTyped

(* It starts where its parent's next child is, and is open or has ended.    *)
LEMMA ReadMore ==
  ASSUME LoadedTree, LoadedTree', NEW pre, NEW upto, NEW open, ReadInto(pre, upto, open),
         NEW n, NEW p \in Live \cup {NIL}, Grows(n, p), Innermost(open, p),
         NEW more \in SUBSET {n}
  PROVE  \E at, end : /\ ReadInto(at, end, open \cup more)'
                      /\ at[n] = NextPlace(p, pre, upto)
                      /\ n \notin more => end[n] = (at[n] ++ Starting(n)') ++ Ending(n)'
<1>1. /\ n \notin Live /\ n # NIL /\ n \in Node /\ Live' = Live \cup {n}
      /\ parent'[n] = p /\ first_child'[n] = NIL /\ sibling'[n] = NIL
      /\ root' = IF p = NIL THEN n ELSE root
      /\ p # NIL =>
           /\ p \in Live /\ last_child'[p] = n
           /\ first_child'[p] = IF first_child[p] = NIL THEN n ELSE first_child[p]
           /\ first_child[p] # NIL => sibling'[last_child[p]] = n
      /\ \A m \in Live :
           /\ type'[m] = type[m] /\ key'[m] = key[m] /\ parent'[m] = parent[m]
           /\ m # p => first_child'[m] = first_child[m] /\ last_child'[m] = last_child[m]
           /\ p = NIL \/ first_child[p] = NIL \/ m # last_child[p] => sibling'[m] = sibling[m]
  BY DEF Grows
<1>2. /\ NIL \notin Live /\ root \in Live \cup {NIL} /\ open \subseteq Live
      /\ \A m \in Live : m # NIL
  BY LoadedFacts DEF LoadedTree, ReadInto
<1>3. \A m \in Live : /\ first_child[m] # NIL => first_child[m] \in Live /\ last_child[m] \in Live
                      /\ sibling[m] # NIL => sibling[m] \in Live
  <2> TAKE m \in Live
  <2>1. first_child[m] # NIL => first_child[m] \in Live /\ last_child[m] \in Live
    BY LastFacts
  <2>2. sibling[m] # NIL => sibling[m] \in Live
    BY LoadedFacts, LinkFacts
  <2> QED BY <2>1, <2>2
<1>4. PICK s, e, x : s = Starting(n)' /\ e = Ending(n)' /\ x = NextPlace(p, pre, upto)
  OBVIOUS
<1>5. s \in Seq(Token) /\ e \in Seq(Token)
  <2>1. StartingTyped'
    BY StartingTypedAlways, PTL
  <2> QED BY <1>1, <1>4, <2>1 DEF StartingTyped
<1>6. x \in Seq(Token)
  <2>1. CASE p = NIL
    BY <1>4, <2>1, CatFacts DEF NextPlace
  <2>2. CASE p # NIL
    BY <1>4, <2>2, ReadType
  <2> QED BY <2>1, <2>2
<1>7. PICK y : y = (x ++ s) ++ e
  OBVIOUS
<1>8. y \in Seq(Token) /\ x ++ s \in Seq(Token)
  BY <1>5, <1>6, <1>7, CatFacts
<1>9. PICK at, end : /\ at = [m \in Live \cup {n} |-> IF m = n THEN x ELSE pre[m]]
                     /\ end = [m \in Live \cup {n} |-> IF m = n THEN y ELSE upto[m]]
  OBVIOUS
<1>10. /\ at \in [Live \cup {n} -> Seq(Token)] /\ end \in [Live \cup {n} -> Seq(Token)]
       /\ at[n] = x /\ end[n] = y
       /\ \A m \in Live : at[m] = pre[m] /\ end[m] = upto[m]
  <2>1. \A m \in Live : pre[m] \in Seq(Token) /\ upto[m] \in Seq(Token)
    BY DEF ReadInto
  <2> QED BY <1>1, <1>6, <1>8, <1>9, <2>1
<1>11. \A m \in Live : Starting(m)' = Starting(m) /\ Ending(m)' = Ending(m)
  BY <1>1, <1>2, StartingKept
<1>12. p # NIL => p \in open
  BY DEF Innermost
<1>13. root' # NIL => at[root'] = <<>>
  <2>1. CASE p = NIL
    BY <1>1, <1>4, <1>10, <2>1 DEF NextPlace
  <2>2. CASE p # NIL
    BY <1>1, <1>2, <1>10, <2>2 DEF ReadInto
  <2> QED BY <2>1, <2>2
<1>14. open \cup more \subseteq Live'
  BY <1>1, <1>2
<1>15. ASSUME NEW m \in Live'
       PROVE  /\ first_child'[m] # NIL => at[first_child'[m]] = at[m] ++ Starting(m)'
              /\ sibling'[m] # NIL => /\ m \notin open \cup more
                                     /\ at[sibling'[m]] = end[m] ++ CommaText
              /\ m \notin open \cup more => end[m] = UptoLast(m, at, end)' ++ Ending(m)'
              /\ m \in open \cup more /\ parent'[m] # NIL => parent'[m] \in open \cup more
  <2>1. CASE m = n
    <3>1. UptoLast(n, at, end)' = x ++ s
      BY <1>1, <1>4, <1>10 DEF UptoLast
    <3> QED BY <1>1, <1>4, <1>7, <1>10, <1>12, <2>1, <3>1
  <2>2. CASE m \in Live
    <3>0. m # n /\ n \notin Live
      BY <1>1, <2>2
    <3>1. first_child'[m] # NIL => at[first_child'[m]] = at[m] ++ Starting(m)'
      <4>1. CASE m = p /\ first_child[p] = NIL
        BY <1>1, <1>4, <1>2, <1>10, <1>11, <2>2, <4>1 DEF NextPlace
      <4>2. CASE m # p \/ first_child[p] # NIL
        <5>1. first_child'[m] = first_child[m]
          BY <1>1, <1>2, <2>2, <4>2
        <5> QED BY <1>3, <1>10, <1>11, <2>2, <5>1 DEF ReadInto
      <4> QED BY <4>1, <4>2
    <3>2. sibling'[m] # NIL => m \notin open \cup more /\ at[sibling'[m]] = end[m] ++ CommaText
      <4>1. CASE p # NIL /\ first_child[p] # NIL /\ m = last_child[p]
        <5>1. parent[m] = p
          BY <1>1, <4>1, LastFacts
        <5>2. m \notin open
          BY <4>1, <5>1 DEF Innermost
        <5>3. x = upto[m] ++ CommaText
          BY <1>4, <4>1 DEF NextPlace
        <5> QED BY <1>1, <1>10, <2>2, <3>0, <4>1, <5>2, <5>3
      <4>2. CASE p = NIL \/ first_child[p] = NIL \/ m # last_child[p]
        <5>1. sibling'[m] = sibling[m]
          BY <1>1, <2>2, <4>2
        <5> QED BY <1>3, <1>10, <2>2, <3>0, <5>1 DEF ReadInto
      <4> QED BY <4>1, <4>2
    <3>3. m \notin open \cup more => end[m] = UptoLast(m, at, end)' ++ Ending(m)'
      <4> SUFFICES ASSUME m \notin open \cup more
                   PROVE  end[m] = UptoLast(m, at, end)' ++ Ending(m)'
        OBVIOUS
      <4>1. m # p
        BY <1>2, <1>12, <2>2
      <4>2. first_child'[m] = first_child[m] /\ last_child'[m] = last_child[m]
        BY <1>1, <2>2, <4>1
      <4>3. UptoLast(m, at, end)' = UptoLast(m, pre, upto)
        BY <1>3, <1>10, <1>11, <2>2, <4>2 DEF UptoLast
      <4>4. upto[m] = UptoLast(m, pre, upto) ++ Ending(m)
        BY <2>2 DEF ReadInto
      <4> QED BY <1>10, <1>11, <2>2, <4>3, <4>4
    <3>4. m \in open \cup more /\ parent'[m] # NIL => parent'[m] \in open \cup more
      BY <1>1, <2>2, <3>0 DEF ReadInto
    <3> QED BY <3>1, <3>2, <3>3, <3>4
  <2> QED BY <1>1, <2>1, <2>2
<1>16. ReadInto(at, end, open \cup more)'
  BY <1>1, <1>10, <1>13, <1>14, <1>15 DEF ReadInto
<1> QED BY <1>4, <1>7, <1>10, <1>16

(* The element stays open, and is the innermost, ...                        *)
LEMMA ReadOpens ==
  ASSUME LoadedTree, LoadedTree', NEW pre, NEW upto, NEW open, ReadInto(pre, upto, open),
         NEW n, NEW p \in Live \cup {NIL}, Grows(n, p), Innermost(open, p)
  PROVE  \E at, end, left : /\ ReadInto(at, end, left)' /\ Innermost(left, n)'
                            /\ at[n] = NextPlace(p, pre, upto)
<1>1. PICK more \in SUBSET {n} : more = {n}
  OBVIOUS
<1>2. \E at, end : ReadInto(at, end, open \cup more)' /\ at[n] = NextPlace(p, pre, upto)
  BY ReadMore
<1>3. PICK left : left = open \cup more
  OBVIOUS
<1>4. /\ n \notin Live /\ n # NIL /\ parent'[n] = p
      /\ \A m \in Live : parent'[m] = parent[m]
  BY DEF Grows
<1>5. NIL \notin Live /\ open \subseteq Live /\ \A m \in Live : parent[m] \in Live \cup {NIL}
  BY LoadedFacts DEF ReadInto
<1>6. Innermost(left, n)'
  BY <1>1, <1>3, <1>4, <1>5 DEF Innermost
<1> QED BY <1>2, <1>3, <1>6

(* ... or it is all read, and its parent is the innermost again.            *)
LEMMA ReadEnds ==
  ASSUME LoadedTree, LoadedTree', NEW pre, NEW upto, NEW open, ReadInto(pre, upto, open),
         NEW n, NEW p \in Live \cup {NIL}, Grows(n, p), Innermost(open, p)
  PROVE  \E at, end, left :
           /\ ReadInto(at, end, left)' /\ Innermost(left, Outer(n))'
           /\ UptoEnd(Outer(n), at, end)' =
                (NextPlace(p, pre, upto) ++ Starting(n)') ++ Ending(n)'
<1>1. PICK more \in SUBSET {n} : n \notin more /\ more = {}
  <2>1. {} \in SUBSET {n} /\ n \notin {}
    OBVIOUS
  <2> QED BY <2>1
<1>2. PICK at, upon : /\ ReadInto(at, upon, open)'
                      /\ upon[n] = (NextPlace(p, pre, upto) ++ Starting(n)') ++ Ending(n)'
  <2>1. \E at, upon : /\ ReadInto(at, upon, open \cup more)'
                      /\ at[n] = NextPlace(p, pre, upto)
                      /\ n \notin more => upon[n] = (at[n] ++ Starting(n)') ++ Ending(n)'
    BY ReadMore
  <2>2. open \cup more = open
    BY <1>1
  <2> QED BY <1>1, <2>1, <2>2
<1>3. /\ n \in Live' /\ n # NIL /\ parent'[n] = p /\ sibling'[n] = NIL
      /\ \A m \in Live : parent'[m] = parent[m]
  BY DEF Grows
<1>4. NIL \notin Live /\ open \subseteq Live
  BY LoadedFacts DEF ReadInto
<1>5. Innermost(open, p)'
  BY <1>3, <1>4 DEF Innermost
<1>6. Innermost(open, parent[n])'
  BY <1>3, <1>5
<1>7. ValuesEnd'
  BY ValuesEndAlways, PTL
<1> QED BY <1>2, <1>3, <1>6, <1>7 DEF ValuesEnd

----------------------------------------------------------------------------
(* Where the parser is in what was read.                                    *)

Spot(pre, upto, open) ==
  /\ read \in Seq(Token)
  /\ state \in {"EXPECT_KEY", "EXPECT_VALUE"} =>
       Innermost(open, iter) /\ Normalised(read) = NextPlace(iter, pre, upto)
  /\ state = "EXPECT_COLON" =>
       /\ Innermost(open, iter)
       /\ \E s \in Seq(Token) : read = Append(s, key[iter]) /\ Normalised(s) = pre[iter]
  /\ state \in {"HAVE_VALUE", "EXPECT_EOF"} =>
       /\ Innermost(open, Around(iter)) /\ root # NIL
       /\ Normalised(read) = UptoEnd(Around(iter), pre, upto)

SpotFound == \E pre, upto, open : ReadInto(pre, upto, open) /\ Spot(pre, upto, open)

(* A load that does not go on has no tree to show for it.                   *)
Fails == pc' # "parse" /\ (pc' # "idle" \/ status' # "NO_ERROR")

ReadsOn == pc' = "parse" /\ SpotFound'

LEMMA RootThere ==
  ASSUME LoadedTree, NEW n \in Live
  PROVE  root # NIL
<1>1. NIL \notin Live /\ TreeOK /\ \A m \in Live : parent[m] \in Live \cup {NIL}
  BY LoadedFacts
<1>2. Live \in SUBSET Live /\ Live # {}
  OBVIOUS
<1>3. PICK m \in Live : parent[m] \notin Live
  BY <1>1, <1>2 DEF TreeOK, Acyclic
<1>4. m = root
  BY <1>1, <1>3 DEF TreeOK, OneRoot
<1> QED BY <1>1, <1>3, <1>4

RootsThere == LoadedTree => \A n \in Live : root # NIL

LEMMA RootsAlways == RootsThere
BY RootThere DEF RootsThere

LEMMA ReadKept ==
  ASSUME LoadedTree, Keep
  PROVE  /\ \A pre, upto, open : ReadInto(pre, upto, open) => ReadInto(pre, upto, open)'
         /\ \A open, c : Innermost(open, c) => Innermost(open, c)'
         /\ \A pre, upto : \A p \in Live \cup {NIL} :
              /\ NextPlace(p, pre, upto)' = NextPlace(p, pre, upto)
              /\ UptoEnd(p, pre, upto)' = UptoEnd(p, pre, upto)
         /\ \A n \in Live \cup {NIL} : Around(n)' = Around(n)
<1>1. /\ Live' = Live /\ type' = type /\ key' = key /\ parent' = parent /\ sibling' = sibling
      /\ first_child' = first_child /\ last_child' = last_child /\ root' = root
  BY KeepLemma
<1>2. \A m \in Live : m # NIL
  BY LoadedFacts
<1>3. \A m \in Live : Starting(m)' = Starting(m) /\ Ending(m)' = Ending(m)
  BY <1>1, <1>2, StartingKept
<1>4. \A pre, upto : \A n \in Live : UptoLast(n, pre, upto)' = UptoLast(n, pre, upto)
  BY <1>1, <1>3 DEF UptoLast
<1>5. ASSUME NEW pre, NEW upto, NEW open, ReadInto(pre, upto, open)
      PROVE  ReadInto(pre, upto, open)'
  BY <1>1, <1>3, <1>4, <1>5 DEF ReadInto
<1>6. \A open, c : Innermost(open, c) => Innermost(open, c)'
  BY <1>1 DEF Innermost
<1>7. \A pre, upto : \A p \in Live \cup {NIL} :
        /\ NextPlace(p, pre, upto)' = NextPlace(p, pre, upto)
        /\ UptoEnd(p, pre, upto)' = UptoEnd(p, pre, upto)
  BY <1>1, <1>3, <1>4 DEF NextPlace, UptoEnd
<1>8. \A n \in Live \cup {NIL} : Around(n)' = Around(n)
  BY <1>1 DEF Around, Outer
<1> QED BY <1>5, <1>6, <1>7, <1>8

----------------------------------------------------------------------------
(* The tokens.                                                              *)

LEMMA ShownTokens ==
  /\ CommaToken \in Token /\ CommaToken # ColonToken /\ CommaText = <<Shown(CommaToken)>>
  /\ \A kind : Opener(kind) \in Token /\ Opener(kind) # ColonToken
               /\ Closer(kind) \in Token /\ Closer(kind) # ColonToken
<1>1. /\ \A t \in {"{", "}", "[", "]", ","} : t \in Token /\ t # ":" /\ t \notin Names
  BY ParserAssumption, Zenon DEF Token, Punctuation
<1>2. Shown(CommaToken) = ","
  BY <1>1, Zenon DEF Shown, CommaToken
<1>3. /\ CommaToken \in Token /\ CommaToken # ColonToken /\ CommaText = <<Shown(CommaToken)>>
  BY <1>1, <1>2, Zenon DEF CommaToken, ColonToken, CommaText
<1>4. ASSUME NEW kind
      PROVE  /\ Opener(kind) \in Token /\ Opener(kind) # ColonToken
             /\ Closer(kind) \in Token /\ Closer(kind) # ColonToken
  <2>1. Opener(kind) \in {"{", "["} /\ Closer(kind) \in {"}", "]"}
    BY Zenon DEF Opener, Closer
  <2> QED BY <1>1, <2>1, Zenon DEF ColonToken
<1> QED BY <1>3, <1>4

(* What a container starts and ends with.                                   *)
BracketsShown ==
  \A n : n # NIL /\ type[n] \in Container =>
    /\ Starting(n) = <<Shown(Opener(type[n]))>>
    /\ Ending(n) = <<Shown(Closer(type[n]))>>

LEMMA BracketsAlways == BracketsShown
<1>1. \A t \in {"{", "}", "[", "]"} : Tokens(t) = <<Shown(t)>>
  <2>1. \A t \in {"{", "}", "[", "]"} : t \notin Names
    BY ParserAssumption, Zenon DEF Punctuation
  <2>2. \A t \in {"{", "}", "[", "]"} : Tokens(t) = <<t>>
    BY TokensAre, Zenon
  <2> QED BY <2>1, <2>2, Zenon DEF Shown
<1>2. SUFFICES ASSUME NEW n, n # NIL, type[n] \in Container
               PROVE  /\ Starting(n) = <<Shown(Opener(type[n]))>>
                      /\ Ending(n) = <<Shown(Closer(type[n]))>>
  BY DEF BracketsShown
<1>3. /\ Opening(n) = Opener(type[n]) /\ Opening(n) \in {"{", "["}
      /\ Closing(n) = Closer(type[n]) /\ Closing(n) \in {"}", "]"}
  BY <1>2, Zenon DEF Opening, Closing, Opener, Closer, TypeOf
<1>4. Tokens(Opening(n)) = <<Shown(Opening(n))>> /\ Tokens(Closing(n)) = <<Shown(Closing(n))>>
  BY <1>1, <1>3, Zenon
<1>5. Starting(n) = Tokens(Opening(n)) /\ Ending(n) = Tokens(Closing(n))
  BY <1>2 DEF Starting, Ending, Container
<1> QED BY <1>3, <1>4, <1>5, Zenon

ScalarsShown ==
  \A n : type[n] = "SCALAR" => Starting(n) = <<"scalar">> /\ Ending(n) = <<>>

LEMMA ScalarsAlways == ScalarsShown
<1>1. Tokens("scalar") = <<"scalar">>
  <2>1. "scalar" \notin Names
    BY ParserAssumption, Zenon
  <2> QED BY <2>1, Zenon DEF Tokens
<1> QED BY <1>1 DEF ScalarsShown, Starting, Ending, Container

----------------------------------------------------------------------------
(* A token leads to another spot in the text.                               *)

LEMMA OpeningRead ==
  ASSUME AtToken, LoadedTree', SpotFound, state = "EXPECT_VALUE", NEW t,
         NEW kind \in Container, t = Opener(kind),
         NEW s, <<kind, s>> \in {<<"ARRAY", "EXPECT_VALUE">>, <<"OBJECT", "EXPECT_KEY">>},
         AppendValue(kind, s), read' = Append(read, t)
  PROVE  Fails \/ ReadsOn
<1>1. /\ LoadedTree /\ pc = "parse" /\ iter \in Live \cup {NIL}
      /\ PlaceOf(state, iter) /\ NIL \notin Live
  BY AtTokenFacts
<1>2. CASE status' = "OUT_OF_MEMORY" /\ pc' = "idle"
  BY <1>2 DEF Fails
<1>3. CASE InsertNode(iter, LastChild(iter), kind, NIL) /\ iter' = NextNode /\ UNCHANGED <<status, pc>>
  <2>1. PICK pre, upto, open : ReadInto(pre, upto, open) /\ Spot(pre, upto, open)
    BY DEF SpotFound
  <2>2. PICK n, p : n = NextNode /\ p = iter
    OBVIOUS
  <2>3. /\ p \in Live \cup {NIL} /\ Innermost(open, p) /\ read \in Seq(Token)
        /\ Normalised(read) = NextPlace(p, pre, upto) /\ (p = NIL => root = NIL)
    BY <1>1, <2>1, <2>2 DEF Spot, PlaceOf
  <2>4. Grows(n, p) /\ type'[n] = kind
    BY <1>1, <1>3, <2>2, <2>3, InsertGrows
  <2>5. PICK at, end, left : /\ ReadInto(at, end, left)' /\ Innermost(left, n)'
                             /\ at[n] = NextPlace(p, pre, upto)
    BY <1>1, <2>1, <2>3, <2>4, ReadOpens
  <2>6. n # NIL /\ first_child'[n] = NIL
    BY <2>4 DEF Grows
  <2>7. Normalised(read') = at[n] ++ <<Shown(t)>>
    <3>1. t \in Token /\ t # ColonToken
      BY ShownTokens
    <3> QED BY <2>3, <2>5, <3>1, NormalisedMore
  <2>8. Starting(n)' = <<Shown(t)>>
    <3>1. BracketsShown'
      BY BracketsAlways, PTL
    <3> QED BY <2>4, <2>6, <3>1 DEF BracketsShown
  <2>9. NextPlace(n, at, end)' = at[n] ++ <<Shown(t)>>
    BY <2>6, <2>8 DEF NextPlace
  <2>10. /\ iter' = n /\ pc' = "parse" /\ state' = s /\ read' \in Seq(Token)
         /\ s \in {"EXPECT_VALUE", "EXPECT_KEY"}
    <3>1. t \in Token
      BY ShownTokens
    <3> QED BY <1>1, <1>3, <2>2, <2>3, <3>1 DEF AppendValue
  <2>11. Spot(at, end, left)'
    BY <2>5, <2>7, <2>9, <2>10 DEF Spot
  <2> QED BY <2>5, <2>10, <2>11 DEF ReadsOn, SpotFound
<1> QED BY <1>2, <1>3 DEF AppendValue

LEMMA ScalarRead ==
  ASSUME AtToken, LoadedTree', SpotFound, state = "EXPECT_VALUE",
         NEW t \in Names \cup {"scalar"},
         AppendValue("SCALAR", "HAVE_VALUE"), read' = Append(read, t)
  PROVE  Fails \/ ReadsOn
<1>1. /\ LoadedTree /\ pc = "parse" /\ iter \in Live \cup {NIL}
      /\ PlaceOf(state, iter) /\ NIL \notin Live
  BY AtTokenFacts
<1>2. CASE status' = "OUT_OF_MEMORY" /\ pc' = "idle"
  BY <1>2 DEF Fails
<1>3. CASE /\ InsertNode(iter, LastChild(iter), "SCALAR", NIL) /\ iter' = NextNode
           /\ UNCHANGED <<status, pc>>
  <2>1. PICK pre, upto, open : ReadInto(pre, upto, open) /\ Spot(pre, upto, open)
    BY DEF SpotFound
  <2>2. PICK n, p : n = NextNode /\ p = iter
    OBVIOUS
  <2>3. /\ p \in Live \cup {NIL} /\ Innermost(open, p) /\ read \in Seq(Token)
        /\ Normalised(read) = NextPlace(p, pre, upto) /\ (p = NIL => root = NIL)
    BY <1>1, <2>1, <2>2 DEF Spot, PlaceOf
  <2>4. Grows(n, p) /\ type'[n] = "SCALAR"
    BY <1>1, <1>3, <2>2, <2>3, InsertGrows
  <2>5. \E at, end, left :
          /\ ReadInto(at, end, left)' /\ Innermost(left, Outer(n))'
          /\ UptoEnd(Outer(n), at, end)' =
               (NextPlace(p, pre, upto) ++ Starting(n)') ++ Ending(n)'
    BY <1>1, <2>1, <2>3, <2>4, ReadEnds
  <2>6. PICK x \in Seq(Token) : x = Normalised(read)
    BY <2>3, NormalisedIs
  <2>7. Starting(n)' = <<"scalar">> /\ Ending(n)' = <<>>
    <3>1. ScalarsShown'
      BY ScalarsAlways, PTL
    <3> QED BY <2>4, <3>1 DEF ScalarsShown
  <2>8. t \in Token /\ t # ColonToken /\ Shown(t) = "scalar" /\ "scalar" \in Token
    <3>1. "scalar" \in Token /\ "scalar" # ColonToken
      BY Zenon DEF Token, ColonToken
    <3> QED BY <3>1, ColonFacts DEF Shown
  <2>9. Normalised(read') = x ++ <<"scalar">> /\ read' \in Seq(Token)
    BY <2>3, <2>6, <2>8, NormalisedMore
  <2>10. PICK y \in Seq(Token) : y = <<"scalar">>
    <3>1. PICK z \in Token : z = "scalar"
      BY <2>8
    <3>2. <<z>> \in Seq(Token)
      OBVIOUS
    <3> QED BY <3>1, <3>2
  <2>11. (x ++ y) ++ <<>> = x ++ y
    BY CatFacts
  <2>12. PICK at, end, left :
           /\ ReadInto(at, end, left)' /\ Innermost(left, Outer(n))'
           /\ UptoEnd(Outer(n), at, end)' = Normalised(read')
    BY <2>3, <2>5, <2>6, <2>7, <2>9, <2>10, <2>11
  <2>13. iter' = n /\ pc' = "parse" /\ state' = "HAVE_VALUE" /\ n # NIL /\ n \in Live'
    BY <1>1, <1>3, <2>2, <2>4 DEF AppendValue, Grows
  <2>14. Around(iter)' = Outer(n)'
    BY <2>4, <2>13 DEF Around, Container
  <2>15. root' # NIL
    <3>1. RootsThere'
      BY RootsAlways, PTL
    <3> QED BY <2>13, <3>1 DEF RootsThere
  <2>16. Spot(at, end, left)'
    BY <2>9, <2>12, <2>13, <2>14, <2>15 DEF Spot
  <2> QED BY <2>12, <2>13, <2>16 DEF ReadsOn, SpotFound
<1> QED BY <1>2, <1>3 DEF AppendValue

LEMMA KeyRead ==
  ASSUME AtToken, LoadedTree', SpotFound, state = "EXPECT_KEY", NEW t \in Names,
         AppendKey(t), read' = Append(read, t)
  PROVE  Fails \/ ReadsOn
<1>1. /\ LoadedTree /\ pc = "parse" /\ iter \in Live \cup {NIL}
      /\ PlaceOf(state, iter) /\ NIL \notin Live /\ iter # NIL
  BY AtTokenFacts DEF PlaceOf
<1>2. CASE \/ Stop("DUPLICATE_KEY") \/ Stop("OUT_OF_MEMORY")
           \/ Table!AddStatus(<<iter, t>>) # "NO_ERROR" /\ StopIn("EXPECT_COLON", Table!AddStatus(<<iter, t>>))
  BY <1>2 DEF Fails, Stop, StopIn
<1>3. CASE InsertNode(iter, LastChild(iter), "KEY", t) /\ GoOn("EXPECT_COLON", NextNode)
  <2>1. PICK pre, upto, open : ReadInto(pre, upto, open) /\ Spot(pre, upto, open)
    BY DEF SpotFound
  <2>2. PICK n, p, r : n = NextNode /\ p = iter /\ r = read
    OBVIOUS
  <2>3. /\ p \in Live \cup {NIL} /\ Innermost(open, p) /\ r \in Seq(Token)
        /\ Normalised(r) = NextPlace(p, pre, upto) /\ (p = NIL => root = NIL)
    BY <1>1, <2>1, <2>2 DEF Spot
  <2>4. Grows(n, p) /\ key'[n] = t
    BY <1>1, <1>3, <2>2, <2>3, InsertGrows
  <2>5. PICK at, end, left : /\ ReadInto(at, end, left)' /\ Innermost(left, n)'
                             /\ at[n] = NextPlace(p, pre, upto)
    BY <1>1, <2>1, <2>3, <2>4, ReadOpens
  <2>6. iter' = n /\ pc' = "parse" /\ state' = "EXPECT_COLON"
    BY <1>1, <1>3, <2>2 DEF GoOn
  <2>7. read' = Append(r, key'[n]) /\ Normalised(r) = at[n] /\ read' \in Seq(Token)
    BY <2>2, <2>3, <2>4, <2>5, ColonFacts
  <2>8. Spot(at, end, left)'
    BY <2>3, <2>5, <2>6, <2>7 DEF Spot
  <2> QED BY <2>5, <2>6, <2>8 DEF ReadsOn, SpotFound
<1> QED BY <1>2, <1>3 DEF AppendKey

LEMMA ColonRead ==
  ASSUME AtToken, SpotFound, state = "EXPECT_COLON", NEW t, t = ColonToken,
         GoOn("EXPECT_VALUE", iter), Keep, read' = Append(read, t)
  PROVE  ReadsOn
<1>1. /\ LoadedTree /\ pc = "parse" /\ NIL \notin Live
      /\ iter \in Live /\ type[iter] = "KEY" /\ first_child[iter] = NIL
  BY AtTokenFacts DEF PlaceOf
<1>2. PICK pre, upto, open : ReadInto(pre, upto, open) /\ Spot(pre, upto, open)
  BY DEF SpotFound
<1>3. PICK n, k : n = iter /\ k = key[iter]
  OBVIOUS
<1>4. k \in Names /\ n \in Live /\ n # NIL
  BY <1>1, <1>3, LoadedFacts
<1>5. PICK s \in Seq(Token) : read = Append(s, k) /\ Normalised(s) = pre[n]
  BY <1>2, <1>3 DEF Spot
<1>6. Normalised(read') = pre[n] ++ <<k, ColonToken>>
  BY <1>4, <1>5, NormalisedKey
<1>7. Starting(n) = <<k, ColonToken>>
  <2>1. Tokens(k) = <<k, ColonToken>>
    BY <1>4, TokensAre, Zenon DEF ColonToken
  <2> QED BY <1>1, <1>3, <2>1 DEF Starting
<1>8. NextPlace(n, pre, upto) = Normalised(read')
  BY <1>1, <1>3, <1>4, <1>6, <1>7 DEF NextPlace
<1>9. NextPlace(n, pre, upto)' = NextPlace(n, pre, upto)
  BY <1>1, <1>4, ReadKept
<1>10. ReadInto(pre, upto, open)' /\ Innermost(open, n)'
  <2>1. Innermost(open, n)
    BY <1>2, <1>3 DEF Spot
  <2> QED BY <1>1, <1>2, <2>1, ReadKept
<1>11. iter' = n /\ state' = "EXPECT_VALUE" /\ pc' = "parse" /\ read' \in Seq(Token)
  <2>1. read \in Seq(Token)
    BY <1>2 DEF Spot
  <2> QED BY <1>1, <1>3, <2>1, ColonFacts DEF GoOn
<1>12. Spot(pre, upto, open)'
  BY <1>8, <1>9, <1>10, <1>11 DEF Spot
<1> QED BY <1>10, <1>11, <1>12 DEF ReadsOn, SpotFound

(* Where a container may end all of it but the end has been read.           *)
LEMMA AtClosing ==
  ASSUME AtToken, NEW pre, NEW upto, NEW open, Spot(pre, upto, open),
         grammar.expects \in {"first_key", "first_value", "comma"}, Around(iter) # NIL
  PROVE  /\ Innermost(open, Around(iter))
         /\ Normalised(read) = UptoLast(Around(iter), pre, upto)
<1>1. /\ PlaceOf(state, iter) /\ state \in States /\ NIL \notin Live /\ iter # NIL
  BY AtTokenFacts DEF Around
<1>2. CASE state = "EXPECT_KEY"
  <2>1. iter \in Live /\ type[iter] = "OBJECT" /\ first_child[iter] = NIL
    BY <1>1, <1>2 DEF AtToken, Agrees, PlaceOf
  <2>2. Around(iter) = iter
    BY <1>1, <2>1 DEF Around, Container
  <2> QED BY <1>1, <1>2, <2>1, <2>2 DEF Spot, NextPlace, UptoLast
<1>3. CASE state = "EXPECT_VALUE"
  <2>1. type[iter] = "ARRAY" /\ first_child[iter] = NIL
    BY <1>1, <1>3 DEF AtToken, Agrees, TypeOf, HasChild
  <2>2. Around(iter) = iter
    BY <1>1, <2>1 DEF Around, Container
  <2> QED BY <1>1, <1>3, <2>1, <2>2 DEF Spot, NextPlace, UptoLast
<1>4. CASE state = "HAVE_VALUE"
  BY <1>4 DEF Spot, UptoEnd
<1>5. state # "EXPECT_COLON" /\ state # "EXPECT_EOF"
  BY DEF AtToken, Agrees
<1> QED BY <1>1, <1>2, <1>3, <1>4, <1>5 DEF States, PlaceOf

LEMMA CloseRead ==
  ASSUME AtToken, SpotFound, NEW kind \in Container, JSON!Innermost(grammar) = kind,
         grammar.expects \in {"first_key", "first_value", "comma"},
         Close(kind), NEW t, t = Closer(kind), read' = Append(read, t)
  PROVE  ReadsOn
<1>1. LoadedTree /\ pc = "parse" /\ NIL \notin Live
  BY AtTokenFacts
<1>2. PICK pre, upto, open : ReadInto(pre, upto, open) /\ Spot(pre, upto, open)
  BY DEF SpotFound
<1>3. PICK c, o : c = Around(iter) /\ o = Outer(c)
  OBVIOUS
<1>4. /\ c \in Live /\ type[c] = kind /\ c # NIL
      /\ GoOn(IF o = NIL THEN "EXPECT_EOF" ELSE "HAVE_VALUE", o) /\ Keep
  BY <1>3, CloseGoes
<1>5. Innermost(open, c) /\ Normalised(read) = UptoLast(c, pre, upto)
  BY <1>2, <1>3, <1>4, AtClosing
<1>6. sibling[c] = NIL
  BY <1>1, <1>2, <1>4, <1>5, EndInnermost
<1>7. \E next : /\ ReadInto(pre, next, open \ {c}) /\ Innermost(open \ {c}, parent[c])
                /\ next[c] = UptoLast(c, pre, upto) ++ Ending(c)
  BY <1>1, <1>2, <1>4, <1>5, EndInnermost
<1>8. PICK next, less : /\ ReadInto(pre, next, less) /\ Innermost(less, parent[c])
                        /\ next[c] = UptoLast(c, pre, upto) ++ Ending(c)
  BY <1>7
<1>9. \E end, left : /\ ReadInto(pre, end, left) /\ Innermost(left, Outer(c))
                     /\ UptoEnd(Outer(c), pre, end) = next[c]
  BY <1>1, <1>4, <1>6, <1>8, ValueEnds
<1>10. PICK end, left : /\ ReadInto(pre, end, left) /\ Innermost(left, o)
                        /\ UptoEnd(o, pre, end) = next[c]
  BY <1>3, <1>9
<1>11. read \in Seq(Token) /\ t \in Token /\ t # ColonToken
  BY <1>2, ShownTokens DEF Spot
<1>12. Normalised(read') = next[c] /\ read' \in Seq(Token)
  <2>1. Ending(c) = <<Shown(t)>>
    BY <1>4, BracketsAlways DEF BracketsShown
  <2>2. Normalised(read') = Normalised(read) ++ <<Shown(t)>>
    BY <1>11, NormalisedMore
  <2> QED BY <1>5, <1>8, <1>11, <2>1, <2>2
<1>13. o \in Live \cup {NIL} /\ Around(o) = o
  BY <1>1, <1>3, <1>4, OuterLemma DEF Around
<1>14. /\ ReadInto(pre, end, left)' /\ Innermost(left, o)'
       /\ UptoEnd(o, pre, end)' = UptoEnd(o, pre, end) /\ Around(o)' = Around(o)
  <2>1. ReadInto(pre, end, left)' /\ Innermost(left, o)'
    BY <1>1, <1>4, <1>10, ReadKept
  <2>2. UptoEnd(o, pre, end)' = UptoEnd(o, pre, end) /\ Around(o)' = Around(o)
    BY <1>1, <1>4, <1>13, ReadKept
  <2> QED BY <2>1, <2>2
<1>15. iter' = o /\ state' \in {"EXPECT_EOF", "HAVE_VALUE"} /\ pc' = "parse"
  BY <1>1, <1>4 DEF GoOn
<1>16. Around(iter)' = o
  BY <1>13, <1>14, <1>15 DEF Around, Outer
<1>17. root' # NIL
  BY <1>1, <1>4, RootThere, KeepLemma
<1>18. Spot(pre, end, left)'
  BY <1>10, <1>12, <1>14, <1>15, <1>16, <1>17 DEF Spot
<1> QED BY <1>14, <1>15, <1>18 DEF ReadsOn, SpotFound

LEMMA CommaRead ==
  ASSUME AtToken, SpotFound, state = "HAVE_VALUE", grammar.expects = "comma", Comma,
         NEW t, t = CommaToken, read' = Append(read, t)
  PROVE  ReadsOn
<1>1. LoadedTree /\ pc = "parse" /\ NIL \notin Live
  BY AtTokenFacts
<1>2. PICK pre, upto, open : ReadInto(pre, upto, open) /\ Spot(pre, upto, open)
  BY DEF SpotFound
<1>3. PICK c : c = Around(iter)
  OBVIOUS
<1>4. /\ c \in Live /\ c # NIL /\ first_child[c] # NIL
      /\ GoOn(IF type[c] = "ARRAY" THEN "EXPECT_VALUE" ELSE "EXPECT_KEY", c) /\ Keep
  BY <1>3, CommaGoes
<1>5. Innermost(open, c) /\ Normalised(read) = UptoLast(c, pre, upto)
  BY <1>2, <1>3, <1>4, AtClosing
<1>6. read \in Seq(Token) /\ t \in Token /\ t # ColonToken /\ CommaText = <<Shown(t)>>
  BY <1>2, ShownTokens DEF Spot
<1>7. Normalised(read') = NextPlace(c, pre, upto) /\ read' \in Seq(Token)
  <2>1. Normalised(read') = Normalised(read) ++ <<Shown(t)>>
    BY <1>6, NormalisedMore
  <2> QED BY <1>4, <1>5, <1>6, <2>1 DEF NextPlace, UptoLast
<1>8. ReadInto(pre, upto, open)' /\ Innermost(open, c)'
  BY <1>1, <1>2, <1>4, <1>5, ReadKept
<1>9. NextPlace(c, pre, upto)' = NextPlace(c, pre, upto)
  BY <1>1, <1>4, ReadKept
<1>10. iter' = c /\ state' \in {"EXPECT_VALUE", "EXPECT_KEY"} /\ pc' = "parse"
  BY <1>1, <1>4 DEF GoOn
<1>11. Spot(pre, upto, open)'
  BY <1>7, <1>8, <1>9, <1>10 DEF Spot
<1> QED BY <1>8, <1>10, <1>11 DEF ReadsOn, SpotFound

(* The text ends where the grammar says it may.                             *)
LEMMA FinishRead ==
  ASSUME AtToken, SpotFound, HasDepth, grammar.expects = "end", Finish,
         NEW t, read' = Append(read, t)
  PROVE  Text(root)' = TextRead'
<1>1. LoadedTree /\ Keep /\ PlaceOf(state, iter) /\ state \in States /\ NIL \notin Live
  BY AtTokenFacts DEF Finish
<1>2. PICK pre, upto, open : ReadInto(pre, upto, open) /\ Spot(pre, upto, open)
  BY DEF SpotFound
<1>3. state \in {"HAVE_VALUE", "EXPECT_EOF"} /\ grammar.open = <<>>
  <2>1. state \notin {"EXPECT_KEY", "EXPECT_COLON", "EXPECT_VALUE"}
    BY DEF AtToken, Agrees
  <2>2. grammar.open = <<>>
    BY <1>1, <2>1 DEF AtToken, Agrees, States, PlaceOf
  <2> QED BY <1>1, <2>1, <2>2 DEF States, PlaceOf
<1>4. Around(iter) = NIL
  BY <1>3, AtTokenFacts
<1>5. /\ open = {} /\ root # NIL /\ Normalised(read) = upto[root] /\ read \in Seq(Token)
  BY <1>2, <1>3, <1>4 DEF Spot, Innermost, UptoEnd
<1>6. Normalised(read) = Text(root)
  BY <1>1, <1>2, <1>5, AllIsRead
<1>7. Text(root)' = Text(root)
  BY <1>1, TextKept
<1>8. SubSeq(read', 1, Len(read') - 1) = read
  BY <1>5, AppendedLast
<1>9. PICK r, u : r = read /\ u = read'
  OBVIOUS
<1>10. TextRead' = Normalised(r)
  BY <1>8, <1>9 DEF TextRead
<1> QED BY <1>6, <1>7, <1>9, <1>10

(* What the grammar makes of the tokens that end something.                 *)
LEMMA EndsTaken ==
  /\ \A t : t = Closer("OBJECT") =>
       Taken(t) = IF FitsObjectEnd(grammar) THEN JSON!Closed(grammar) ELSE JSON!Wrong
  /\ \A t : t = Closer("ARRAY") =>
       Taken(t) = IF FitsArrayEnd(grammar) THEN JSON!Closed(grammar) ELSE JSON!Wrong
  /\ \A t : t = CommaToken /\ grammar.expects # "comma" => Taken(t) = JSON!Wrong
  /\ \A t : t = "EOF" => Taken(t) = grammar
<1>1. \A t \in {"}", "]", ","} : Taken(t) = JSON!Advance(grammar, t)
  BY TakenCases, Zenon DEF Punctuation
<1>2. /\ Taken("}") = IF FitsObjectEnd(grammar) THEN JSON!Closed(grammar) ELSE JSON!Wrong
      /\ Taken("]") = IF FitsArrayEnd(grammar) THEN JSON!Closed(grammar) ELSE JSON!Wrong
      /\ grammar.expects # "comma" => Taken(",") = JSON!Wrong
  BY <1>1, AdvanceCases, Zenon
<1>3. Closer("OBJECT") = "}" /\ Closer("ARRAY") = "]" /\ CommaToken = ","
  BY Zenon DEF Closer, CommaToken
<1>4. \A t : t = "EOF" => Taken(t) = grammar
  BY TakenCases
<1> QED BY <1>2, <1>3, <1>4, Zenon

(* The load fails, or the text is no JSON, or it is read further or was     *)
(* read to its end.                                                         *)
ReadOutcome ==
  \/ Fails \/ ReadsOn \/ grammar'.expects = "wrong"
  \/ pc' = "idle" /\ (grammar'.expects = "end" => Text(root)' = TextRead')

LEMMA BraceRead ==
  ASSUME AtToken, SpotFound, ClosingBrace, NEW t, t = Closer("OBJECT"),
         read' = Append(read, t), grammar' = Taken(t)
  PROVE  ReadOutcome
<1>1. CASE FitsObjectEnd(grammar)
  <2>1. Close("OBJECT") /\ JSON!Innermost(grammar) = "OBJECT"
    BY <1>1, BraceCloses
  <2>2. grammar.expects \in {"first_key", "first_value", "comma"} /\ "OBJECT" \in Container
    BY <1>1 DEF FitsObjectEnd, Container
  <2> QED BY <2>1, <2>2, CloseRead DEF ReadOutcome
<1>2. CASE ~FitsObjectEnd(grammar)
  <2>1. grammar' = JSON!Wrong
    BY <1>2, EndsTaken
  <2> QED BY <2>1 DEF ReadOutcome, JSON!Wrong
<1> QED BY <1>1, <1>2

LEMMA BracketRead ==
  ASSUME AtToken, SpotFound, ClosingBracket, NEW t, t = Closer("ARRAY"),
         read' = Append(read, t), grammar' = Taken(t)
  PROVE  ReadOutcome
<1>1. CASE FitsArrayEnd(grammar)
  <2>1. Close("ARRAY") /\ JSON!Innermost(grammar) = "ARRAY"
    BY <1>1, BracketCloses
  <2>2. grammar.expects \in {"first_key", "first_value", "comma"} /\ "ARRAY" \in Container
    BY <1>1 DEF FitsArrayEnd, Container
  <2> QED BY <2>1, <2>2, CloseRead DEF ReadOutcome
<1>2. CASE ~FitsArrayEnd(grammar)
  <2>1. grammar' = JSON!Wrong
    BY <1>2, EndsTaken
  <2> QED BY <2>1 DEF ReadOutcome, JSON!Wrong
<1> QED BY <1>1, <1>2

LEMMA EofRead ==
  ASSUME AtToken, SpotFound, HasDepth, Finish, NEW t, t = "EOF",
         read' = Append(read, t), grammar' = Taken(t)
  PROVE  ReadOutcome
<1>1. grammar' = grammar /\ pc' = "idle"
  BY EndsTaken DEF Finish
<1>2. CASE grammar.expects = "end"
  BY <1>1, <1>2, FinishRead DEF ReadOutcome
<1>3. CASE grammar.expects # "end"
  BY <1>1, <1>3 DEF ReadOutcome
<1> QED BY <1>2, <1>3

LEMMA TokenRead ==
  ASSUME AtToken, LoadedTree', SpotFound, HasDepth, NEW t, Read(t)
  PROVE  ReadOutcome
<1>1. read' = Append(read, t) /\ grammar' = Taken(t)
  BY Zenon DEF Read, Taken
<1>2. \/ Errs
      \/ state = "EXPECT_KEY" /\ ExpectKey(t)
      \/ state = "EXPECT_COLON" /\ ExpectColon(t)
      \/ state = "EXPECT_VALUE" /\ ExpectValue(t)
      \/ state = "HAVE_VALUE" /\ HaveValue(t)
      \/ state = "EXPECT_EOF" /\ ExpectEof(t)
  BY Complains, Zenon DEF Read
<1>3. Errs => ReadOutcome
  BY DEF Errs, Error, Stop, StopIn, Complaint, Fails, ReadOutcome
<1>4. t = Closer("OBJECT") /\ ClosingBrace => ReadOutcome
  BY <1>1, BraceRead
<1>5. t = Closer("ARRAY") /\ ClosingBracket => ReadOutcome
  BY <1>1, BracketRead
<1>6. t = "EOF" /\ Finish => ReadOutcome
  BY <1>1, EofRead
<1>7. CASE state = "EXPECT_KEY" /\ ExpectKey(t)
  <2>1. t \in Names /\ AppendKey(t) => Fails \/ ReadsOn
    BY <1>1, <1>7, KeyRead
  <2> QED BY <1>3, <1>4, <1>7, <2>1, TokenCases DEF ReadOutcome
<1>8. CASE state = "EXPECT_COLON" /\ ExpectColon(t)
  <2>1. t = ColonToken /\ GoOn("EXPECT_VALUE", iter) /\ Keep => ReadsOn
    BY <1>1, <1>8, ColonRead
  <2> QED BY <1>3, <1>8, <2>1, TokenCases DEF ReadOutcome
<1>9. CASE state = "EXPECT_VALUE" /\ ExpectValue(t)
  <2>1. t \in Names \cup {"scalar"} /\ AppendValue("SCALAR", "HAVE_VALUE") => Fails \/ ReadsOn
    BY <1>1, <1>9, ScalarRead
  <2>2. t = Opener("ARRAY") /\ AppendValue("ARRAY", "EXPECT_VALUE") => Fails \/ ReadsOn
    BY <1>1, <1>9, OpeningRead DEF Container
  <2>3. t = Opener("OBJECT") /\ AppendValue("OBJECT", "EXPECT_KEY") => Fails \/ ReadsOn
    BY <1>1, <1>9, OpeningRead DEF Container
  <2> QED BY <1>3, <1>4, <1>5, <1>9, <2>1, <2>2, <2>3, TokenCases DEF ReadOutcome
<1>10. CASE state = "HAVE_VALUE" /\ HaveValue(t)
  <2>1. t = CommaToken /\ Comma => ReadOutcome
    <3>1. CASE grammar.expects = "comma"
      BY <1>1, <1>10, <3>1, CommaRead DEF ReadOutcome
    <3>2. CASE t = CommaToken /\ grammar.expects # "comma"
      <4>1. grammar' = JSON!Wrong
        BY <1>1, <3>2, EndsTaken
      <4> QED BY <4>1 DEF ReadOutcome, JSON!Wrong
    <3> QED BY <3>1, <3>2
  <2> QED BY <1>3, <1>4, <1>5, <1>6, <1>10, <2>1, TokenCases
<1>11. CASE state = "EXPECT_EOF" /\ ExpectEof(t)
  BY <1>3, <1>6, <1>11, TokenCases
<1> QED BY <1>2, <1>3, <1>7, <1>8, <1>9, <1>10, <1>11

----------------------------------------------------------------------------
(* The invariant of a load.                                                 *)

ReadingInv ==
  /\ pc = "parse" /\ grammar.expects # "wrong" => SpotFound
  /\ LoadsWhatItReads

LEMMA ReadReadingInv ==
  ASSUME LoadInv, TextInv, HasDepth, ReadingInv, LoadInv', NEW t, Read(t)
  PROVE  ReadingInv'
<1>1. pc = "parse" /\ LoadedTree' /\ grammar \in TextType /\ grammar' = Taken(t)
  <2>1. pc = "parse" /\ grammar' = Taken(t)
    BY Zenon DEF Read, Taken
  <2> QED BY <2>1 DEF LoadInv, TextInv
<1>2. CASE grammar.expects = "wrong"
  <2>1. Taken(t) = JSON!Wrong \/ Taken(t) = grammar
    BY <1>2, WrongStays, Zenon DEF Taken
  <2>2. grammar'.expects = "wrong"
    BY <1>1, <1>2, <2>1 DEF JSON!Wrong
  <2> QED BY <2>2 DEF ReadingInv, LoadsWhatItReads
<1>3. CASE grammar.expects # "wrong"
  <2>1. AtToken /\ SpotFound
    BY <1>1, <1>3 DEF AtToken, TextInv, ReadingInv
  <2>2. ReadOutcome
    BY <1>1, <2>1, TokenRead
  <2>3. CASE Fails
    BY <2>3 DEF Fails, ReadingInv, LoadsWhatItReads, Loaded
  <2>4. CASE ReadsOn
    BY <2>4 DEF ReadsOn, ReadingInv, LoadsWhatItReads, Loaded
  <2>5. CASE grammar'.expects = "wrong"
    BY <2>5 DEF ReadingInv, LoadsWhatItReads
  <2>6. CASE pc' = "idle" /\ (grammar'.expects = "end" => Text(root)' = TextRead')
    BY <2>6 DEF ReadingInv, LoadsWhatItReads
  <2> QED BY <2>2, <2>3, <2>4, <2>5, <2>6 DEF ReadOutcome
<1> QED BY <1>2, <1>3

LEMMA LoadReadingInv ==
  ASSUME Load
  PROVE  ReadingInv'
<1>1. /\ Live' = {} /\ root' = NIL /\ read' = <<>> /\ pc' = "parse"
      /\ state' = "EXPECT_VALUE" /\ iter' = NIL
  BY ResetTreeLemma DEF Load, NewText, ResetTree
<1>2. PICK none : none = [n \in {} |-> <<>>]
  OBVIOUS
<1>3. ReadInto(none, none, {})'
  BY <1>1, <1>2 DEF ReadInto
<1>4. Normalised(read') = <<>> /\ read' \in Seq(Token)
  <2>1. PICK s \in Seq(Token) : s = <<>> /\ Len(s) = 0
    BY EmptySeq
  <2>2. Normalised(s) \in Seq(Token) /\ Len(Normalised(s)) = 0
    BY <2>1, NormalisedIs
  <2> QED BY <1>1, <2>1, <2>2, EmptySeq
<1>5. Spot(none, none, {})'
  BY <1>1, <1>4 DEF Spot, Innermost, NextPlace
<1> QED BY <1>1, <1>3, <1>5 DEF ReadingInv, SpotFound, LoadsWhatItReads, Loaded

LEMMA ReadingStutters ==
  ASSUME LoadedTree, ReadingInv, Keep, pc # "parse", pc' = pc, status' = status,
         UNCHANGED textVars
  PROVE  ReadingInv'
<1>1. Text(root)' = Text(root)
  BY TextKept
<1>2. read' = read /\ grammar' = grammar
  BY DEF textVars
<1>3. TextRead' = TextRead
  BY <1>2 DEF TextRead
<1> QED BY <1>1, <1>2, <1>3 DEF ReadingInv, LoadsWhatItReads, Loaded

LEMMA SpotStutters ==
  ASSUME LoadInv, Keep, state' = state, iter' = iter, read' = read, SpotFound
  PROVE  SpotFound'
<1>1. PICK pre, upto, open : ReadInto(pre, upto, open) /\ Spot(pre, upto, open)
  BY DEF SpotFound
<1>2. PICK n, a, r : n = iter /\ a = Around(iter) /\ r = read
  OBVIOUS
<1>3. /\ LoadedTree /\ n \in Live \cup {NIL} /\ NIL \notin Live
      /\ key' = key /\ root' = root
  BY <1>2, KeepLemma, LoadedFacts DEF LoadInv, PlacesOK
<1>4. a \in Live \cup {NIL} /\ Around(n)' = a
  <2>1. a \in Live \cup {NIL}
    BY <1>2, <1>3, OuterLemma DEF Around
  <2>2. Around(n)' = a
    BY <1>2, <1>3, ReadKept
  <2> QED BY <2>1, <2>2
<1>5. /\ ReadInto(pre, upto, open)'
      /\ NextPlace(n, pre, upto)' = NextPlace(n, pre, upto)
      /\ UptoEnd(a, pre, upto)' = UptoEnd(a, pre, upto)
  BY <1>1, <1>3, <1>4, ReadKept
<1>6. /\ Innermost(open, n) => Innermost(open, n)'
      /\ Innermost(open, a) => Innermost(open, a)'
  BY <1>3, ReadKept
<1>7. Around(iter)' = a
  BY <1>2, <1>4 DEF Around, Outer
<1>8. Spot(pre, upto, open)'
  BY <1>1, <1>2, <1>3, <1>5, <1>6, <1>7 DEF Spot
<1> QED BY <1>5, <1>8 DEF SpotFound

LEMMA ReadingInvStep ==
  LoadInv /\ LoadInv' /\ PassInv /\ TextInv /\ ReadingInv /\ [SessionNext]_sessionVars => ReadingInv'
<1> SUFFICES ASSUME LoadInv, LoadInv', PassInv, TextInv, ReadingInv, [SessionNext]_sessionVars
             PROVE  ReadingInv'
  OBVIOUS
<1>1. CASE Load
  BY <1>1, LoadReadingInv
<1>2. ASSUME NEW t, Read(t)
      PROVE  ReadingInv'
  BY <1>2, ReadReadingInv DEF PassInv
<1>3. CASE RenderStart \/ EvaluateStart \/ RenderStep
  <2>1. /\ pc' # "parse"
        /\ \/ NewText
           \/ /\ UNCHANGED textVars
              /\ \/ pc \in {"render", "pass_end"}
                 \/ pc = "idle" /\ pc' = pc /\ status' = status
    BY <1>3, RenderText
  <2>2. CASE RenderStart \/ EvaluateStart
    BY <2>1, <2>2 DEF RenderStart, EvaluateStart, Start, NewText, ReadingInv, LoadsWhatItReads,
                      Loaded
  <2>3. CASE RenderStep
    <3>1. VisitKey \/ VisitValue \/ AfterValue => pc # "idle"
      BY VisitTurnsText
    <3>2. pc # "idle"
      BY <2>3, <3>1 DEF RenderStep, EvaluateDone, FirstPassDone, SecondPassDone
    <3>3. read' = <<>>
      BY <2>1, <3>2 DEF NewText, TextInv, textVars
    <3> QED BY <2>1, <3>3 DEF ReadingInv, LoadsWhatItReads, Loaded
  <2> QED BY <1>3, <2>2, <2>3
<1>4. CASE GetStat
  <2>1. Keep /\ pc = "idle" /\ pc' = pc /\ status' = status /\ UNCHANGED textVars
    BY <1>4 DEF GetStat
  <2> QED BY <2>1, ReadingStutters DEF LoadInv
<1>5. CASE UNCHANGED sessionVars
  <2>1. /\ Keep /\ state' = state /\ iter' = iter /\ pc' = pc /\ status' = status
        /\ UNCHANGED textVars
    BY <1>5 DEF sessionVars, vars, parserVars, Keep
  <2>2. LoadedTree
    BY DEF LoadInv
  <2>3. CASE pc # "parse"
    BY <2>1, <2>2, <2>3, ReadingStutters
  <2>4. CASE pc = "parse"
    <3>1. read' = read /\ grammar' = grammar
      BY <2>1 DEF textVars
    <3>2. SpotFound => SpotFound'
      BY <2>1, <2>2, <3>1, SpotStutters
    <3> QED BY <2>1, <2>4, <3>1, <3>2 DEF ReadingInv, LoadsWhatItReads, Loaded
  <2> QED BY <2>3, <2>4
<1> QED BY <1>1, <1>2, <1>3, <1>4, <1>5 DEF SessionNext, RenderStep

LEMMA ReadingInvariant == SessionSpec => []ReadingInv
<1>1. SessionInit => ReadingInv
  BY DEF SessionInit, ParserInit, Init, ReadingInv, LoadsWhatItReads, Loaded
<1> QED BY <1>1, ReadingInvStep, LoadInvariant, PassInvariant, TextInvariant, PTL DEF SessionSpec

(***************************************************************************)
(* The tree that jes_load leaves when it succeeds on a JSON text is that    *)
(* text, token for token, whatever the text: as it is read, what was read   *)
(* is what is in front of the node the parser is at, and all the containers *)
(* around that node are still open in it.                                   *)
(***************************************************************************)
THEOREM LoadedTreeIsTheText == SessionSpec => []LoadsWhatItReads
<1>1. ReadingInv => LoadsWhatItReads
  BY DEF ReadingInv
<1> QED BY <1>1, ReadingInvariant, PTL

============================================================================
