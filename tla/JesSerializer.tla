---------------------------- MODULE JesSerializer --------------------------
(***************************************************************************)
(* jes_render and jes_evaluate (jes_serializer.c) on the trees that         *)
(* jes_load leaves behind, whole or broken off.  The serializer goes over   *)
(* the tree twice, first to compute the length of the text, then to write   *)
(* it; one action per turn of its loops.                                    *)
(*                                                                         *)
(* The text is a sequence of the tokens of JesParser; white space counts    *)
(* in the lengths only.  Texts of elements have the length TextLength, and  *)
(* Quoted is the set of nodes whose scalar, if they hold one, is a string.  *)
(***************************************************************************)
EXTENDS JesParser

CONSTANTS TextLength, Quoted

TabSize == 2                             \* JES_TAB_SIZE

ASSUME SerializerAssumption ==
  /\ TextLength \in Nat /\ Quoted \subseteq Node
  /\ Names \cap {"string", "newline"} = {}

(* struct jes_serializer, the arguments and the result of the call.         *)
VARIABLE writer

NoWriter ==
  [job |-> "none", compact |-> FALSE, pass |-> "evaluate", length |-> 0, indention |-> 0,
   size |-> 0, out |-> <<>>, written |-> 0, result |-> 0]

sessionVars == <<vars, parserVars, writer>>

SessionInit == ParserInit /\ writer = NoWriter

----------------------------------------------------------------------------
(* The renderer functions: jes_serializer_calculate_... in the first pass,  *)
(* jes_serializer_render_... in the second.                                 *)

CalculatedWithoutSpace(w, t) ==          \* faulty: the space behind the colon is forgotten
  CASE t \in Punctuation -> 1
    [] t = "string" -> TextLength + 2
    [] t = "scalar" -> TextLength
    [] t \in Names -> TextLength + 3
    [] t = "newline" -> IF w.compact THEN 0 ELSE w.indention + 1

Calculated(w, t) ==
  CASE t \in Punctuation -> 1
    [] t = "string" -> TextLength + 2
    [] t = "scalar" -> TextLength
    [] t \in Names -> TextLength + IF w.compact THEN 3 ELSE 4
    [] t = "newline" -> IF w.compact THEN 0 ELSE w.indention + 1

(* The tokens that are written, and how many characters.                    *)
Tokens(t) ==
  CASE t \in Names -> <<t, ":">>
    [] t = "string" -> <<"scalar">>
    [] t = "newline" -> <<>>
    [] OTHER -> <<t>>

WrittenLength(w, t) ==
  CASE t \in Names -> 1 + TextLength + 1 + 1 + IF w.compact THEN 0 ELSE 1
    [] t = "string" -> 1 + TextLength + 1
    [] t = "scalar" -> TextLength
    [] t = "newline" -> IF w.compact THEN 0 ELSE 1 + w.indention
    [] OTHER -> 1

Put(w, t) ==
  IF w.pass = "evaluate"
  THEN [w EXCEPT !.length = @ + Calculated(w, t)]
  ELSE [w EXCEPT !.written = @ + WrittenLength(w, t), !.out = @ \o Tokens(t)]

Indent(w) == [w EXCEPT !.indention = @ + TabSize]
UnindentNothing(w) == w                  \* faulty: the depth only grows
Unindent(w) == [w EXCEPT !.indention = @ - TabSize]

PutNewLine(w) == Put(w, "newline")

----------------------------------------------------------------------------
(* The walk over the tree.                                                  *)

TurningPointParent(n) ==                 \* faulty: looks one level up only
  IF parent[n] # NIL /\ sibling[parent[n]] # NIL THEN parent[n] ELSE NIL

(* The nearest element above n that has a right neighbour.                  *)
TurningPoint(n) ==
  LET up == Ancestors(n)
      hits == {k \in 1 .. Capacity : up[k] # NIL /\ sibling[up[k]] # NIL}
  IN IF hits = {} THEN NIL ELSE up[Table!First(hits)]

BehindBranchParent(n) == TurningPoint(n)     \* faulty: back to the element itself

BehindBranch(n) == IF TurningPoint(n) = NIL THEN NIL ELSE sibling[TurningPoint(n)]

(* jes_serializer_get_node.                                                 *)
NextElement(n) ==
  CASE n = NIL -> root
    [] n # NIL /\ first_child[n] # NIL -> first_child[n]
    [] n # NIL /\ first_child[n] = NIL /\ sibling[n] # NIL -> sibling[n]
    [] OTHER -> BehindBranch(n)

TurnPastEnd(s, n, st, w) ==              \* faulty: the end is not a reason to stop
  /\ state' = s /\ iter' = n /\ status' = st /\ writer' = w
  /\ pc' = IF n = NIL \/ st # "NO_ERROR" THEN "pass_end" ELSE "render"
  /\ Keep /\ UNCHANGED <<callVars, textVars>>

(* A turn of the loop: in state s at element n the pass goes on as long as  *)
(* there is an element and nothing is wrong.                                *)
Turn(s, n, st, w) ==
  /\ state' = s /\ iter' = n /\ status' = st /\ writer' = w
  /\ pc' = IF s = "END" \/ n = NIL \/ st # "NO_ERROR" THEN "pass_end" ELSE "render"
  /\ Keep /\ UNCHANGED <<callVars, textVars>>

Misplaced(n) == Turn(IF n = NIL THEN "END" ELSE state, n, "UNEXPECTED_ELEMENT", writer)

(* After a load nothing but keys is in an object: the error is for edited   *)
(* trees.                                                                   *)
VisitKey ==
  LET n == NextElement(iter) IN
  /\ pc = "render" /\ state = "EXPECT_KEY"
  /\ \/ TypeOf(n) = "KEY" /\ Turn("EXPECT_VALUE", n, status, Put(writer, key[n]))
     \/ TypeOf(n) # "KEY" /\ Misplaced(n)

VisitScalar(n) ==
  Turn("HAVE_VALUE", n, status, Put(writer, IF n \in Quoted THEN "string" ELSE "scalar"))

VisitContainer(n, opening, closing, inside) ==
  IF HasChild(n)
  THEN Turn(inside, n, status, PutNewLine(Indent(Put(writer, opening))))
  ELSE Turn("HAVE_VALUE", n, status, Put(Put(writer, opening), closing))

VisitValue ==
  LET n == NextElement(iter) IN
  /\ pc = "render" /\ state = "EXPECT_VALUE"
  /\ \/ TypeOf(n) = "SCALAR" /\ VisitScalar(n)
     \/ TypeOf(n) = "OBJECT" /\ VisitContainer(n, "{", "}", "EXPECT_KEY")
     \/ TypeOf(n) = "ARRAY" /\ VisitContainer(n, "[", "]", "EXPECT_VALUE")
     \/ TypeOf(n) \in {"KEY", "UNKNOWN"} /\ Misplaced(n)

(* Going up from the value that is complete, containers are closed, to the  *)
(* first element with a right neighbour, or the root.  ctx->serdes.iter     *)
(* stays where it is.                                                       *)
CloseUpTo(w, stop, n) ==
  LET up == Ancestors(n)
      last == IF stop = NIL THEN Capacity
              ELSE IF stop = n THEN 0 ELSE CHOOSE k \in 1 .. Capacity : up[k] = stop
      closed[k \in 0 .. last] ==
        IF k = 0 THEN w
        ELSE LET inside == closed[k - 1] IN
             CASE TypeOf(up[k]) = "ARRAY" -> Put(PutNewLine(Unindent(inside)), "]")
               [] TypeOf(up[k]) = "OBJECT" -> Put(PutNewLine(Unindent(inside)), "}")
               [] OTHER -> inside
  IN closed[last]

AfterValue ==
  LET stop == IF sibling[iter] # NIL THEN iter ELSE TurningPoint(iter)
      w == CloseUpTo(writer, stop, iter)
  IN
  /\ pc = "render" /\ state = "HAVE_VALUE"
  /\ \/ stop = NIL /\ Turn("END", iter, status, w)
     \/ /\ stop # NIL
        /\ Turn(IF TypeOf(parent[stop]) = "ARRAY" THEN "EXPECT_VALUE" ELSE "EXPECT_KEY",
                iter, status, PutNewLine(Put(w, ",")))

----------------------------------------------------------------------------
(* The calls.                                                               *)

(* An empty tree: nothing happens, the status stays.  What was read is of   *)
(* no interest from here on.                                                *)
Start(job, compact) ==
  /\ pc = "idle"
  /\ NewText
  /\ Keep /\ UNCHANGED callVars
  /\ \/ root = NIL /\ writer' = NoWriter /\ UNCHANGED <<pc, status, state, iter>>
     \/ /\ root # NIL
        /\ writer' = [NoWriter EXCEPT !.job = job, !.compact = compact]
        /\ pc' = "render" /\ status' = "NO_ERROR" /\ state' = "EXPECT_VALUE" /\ iter' = NIL

RenderStart == \E compact \in BOOLEAN : Start("render", compact)
EvaluateStart == \E compact \in BOOLEAN : Start("evaluate", compact)

Done(w, st) ==
  /\ pc' = "idle" /\ status' = st
  /\ writer' = [w EXCEPT !.result = IF st = "NO_ERROR" THEN w.length ELSE 0]
  /\ Keep /\ UNCHANGED <<callVars, parserVars>>

(* The NUL is part of the length.                                           *)
Evaluated == [writer EXCEPT !.length = @ + 1]

EvaluateDone ==
  /\ pc = "pass_end" /\ writer.job = "evaluate"
  /\ Done(Evaluated, status)

(* The caller's buffer has the size it needs, or is one too small.          *)
FirstPassDone ==
  /\ pc = "pass_end" /\ writer.job = "render" /\ writer.pass = "evaluate"
  /\ \E size \in {Evaluated.length, Evaluated.length - 1} :
       \/ size < Evaluated.length /\ Done([Evaluated EXCEPT !.size = size], "BUFFER_TOO_SMALL")
       \/ /\ size >= Evaluated.length /\ status # "NO_ERROR"
          /\ Done([Evaluated EXCEPT !.size = size], status)
       \/ /\ size >= Evaluated.length /\ status = "NO_ERROR"
          /\ writer' = [Evaluated EXCEPT !.size = size, !.pass = "write", !.indention = 0]
          /\ pc' = "render" /\ state' = "EXPECT_VALUE" /\ iter' = NIL
          /\ Keep /\ UNCHANGED <<status, callVars, textVars>>

(* The same walk again: what went well in the first pass does in this one.  *)
SecondPassDone ==
  /\ pc = "pass_end" /\ writer.pass = "write"
  /\ \/ status # "NO_ERROR" /\ Done(writer, status)
     \/ /\ status = "NO_ERROR" /\ writer.written + 1 = writer.length
        /\ Done([writer EXCEPT !.written = @ + 1], status)

(* jes_get_stat: the number of elements of each type on the same walk.      *)
Walk ==
  LET nth[k \in 1 .. Capacity + 1] ==
        IF k = 1 THEN root
        ELSE LET last == nth[k - 1] IN IF last = NIL THEN NIL ELSE NextElement(last)
  IN nth

Stat == [t \in ElementType |-> Cardinality({k \in DOMAIN Walk : TypeOf(Walk[k]) = t})]

GetStat ==
  /\ pc = "idle"
  /\ state' = "END" /\ iter' = NIL
  /\ Keep /\ UNCHANGED <<pc, status, callVars, textVars, writer>>

RenderStep == VisitKey \/ VisitValue \/ AfterValue \/ EvaluateDone \/ FirstPassDone \/ SecondPassDone

SessionNext ==
  \/ Load /\ writer' = NoWriter
  \/ (\E t \in Token \cup {"EOF", "INVALID"} : Read(t)) /\ UNCHANGED writer
  \/ RenderStart \/ EvaluateStart \/ RenderStep \/ GetStat

SessionSpec == SessionInit /\ [][SessionNext]_sessionVars /\ WF_sessionVars(RenderStep)

----------------------------------------------------------------------------

SessionTypeOK ==
  /\ ParserTypeOK
  /\ pc \in {"idle", "parse", "aborted", "render", "pass_end"}
  /\ status \in Status \cup {"UNEXPECTED_TOKEN", "UNEXPECTED_EOF", "UNEXPECTED_SYMBOL",
                          "BUFFER_TOO_SMALL"}
  /\ writer \in [job : {"none", "render", "evaluate"}, compact : BOOLEAN,
                 pass : {"evaluate", "write"}, length : Nat, indention : Nat, size : Nat,
                 out : Seq(Token), written : Nat, result : Nat]

Succeeded(jobs) == pc = "idle" /\ writer.job \in jobs /\ status = "NO_ERROR"

(* A key without a value behind which the walk comes to a value of an array *)
(* further up.                                                              *)
TakesForeignValue(k) ==
  /\ type[k] = "KEY" /\ first_child[k] = NIL /\ sibling[k] = NIL
  /\ TurningPoint(k) # NIL /\ type[BehindBranch(k)] # "KEY"

WellKnown == \A k \in Live : ~TakesForeignValue(k)

(***************************************************************************)
(* The text that is rendered is the tree, nothing missing and nothing in    *)
(* the wrong place; where a key has no value there is an error and no text. *)
(* Known exception: see TakesForeignValue and RendersOnlyTheTree.           *)
(***************************************************************************)
RendersTheTree == Succeeded({"render"}) /\ WellKnown => writer.out = Text(root)

(***************************************************************************)
(* A key that has not got its value yet is an error, wherever it is ("tree  *)
(* doesn't render after add_key", tests/test_jes_key.c): what is rendered   *)
(* is always the tree.                                                      *)
(***************************************************************************)
RendersOnlyTheTree == Succeeded({"render"}) => writer.out = Text(root)

(* The length of the text below x at depth d, when those of its children at *)
(* every depth are known.                                                   *)
LengthAbove(x, d, lengths) ==
  LET c == Children(x)
      Line(l) == IF writer.compact THEN 0 ELSE 1 + TabSize * l
      below == IF type[x] = "KEY" THEN d ELSE d + 1
      inner[i \in 0 .. Len(c)] == IF i = 0 THEN 0 ELSE inner[i - 1] + lengths[below][c[i]]
      all == inner[Len(c)]
  IN
  CASE type[x] = "KEY" -> TextLength + (IF writer.compact THEN 3 ELSE 4) + all
    [] type[x] = "SCALAR" -> TextLength + IF x \in Quoted THEN 2 ELSE 0
    [] OTHER -> IF c = <<>> THEN 2
                ELSE 2 + all + Len(c) - 1 + Len(c) * Line(d + 1) + Line(d)

(* The length of the text of the tree below n, which is at the depth 0.     *)
TextLengthBelow(n) ==
  LET length[k \in 0 .. Capacity] ==
        IF k = 0 THEN [d \in 0 .. Capacity |-> [x \in Node |-> 0]]
        ELSE LET lengths == length[k - 1] IN
             [d \in 0 .. Capacity - k |-> [x \in Node |-> LengthAbove(x, d, lengths)]]
  IN length[Capacity][0][n]

(***************************************************************************)
(* jes_evaluate and jes_render return the size of the text, formatted by    *)
(* depth, with the NUL: "Required byte count including the null terminator" *)
(* (jes.h).                                                                 *)
(***************************************************************************)
ResultIsTheSize ==
  Succeeded({"render", "evaluate"}) /\ writer.result > 0 /\ WellKnown =>
    writer.result = TextLengthBelow(root) + 1

(***************************************************************************)
(* The second pass stays inside the buffer that the first one measured, as  *)
(* the assertions in the renderer functions demand, and fills it exactly.   *)
(***************************************************************************)
WritesWhatWasMeasured ==
  writer.pass = "write" =>
    /\ pc \in {"render", "pass_end"} => writer.written < writer.size
    /\ pc = "pass_end" /\ status = "NO_ERROR" => writer.written + 1 = writer.length

(***************************************************************************)
(* The walk that jes_get_stat and the renderer share visits every element   *)
(* of the tree, and none twice, whatever tree a load has left: what is      *)
(* counted are the elements in use ("Element count summary, broken down by  *)
(* type", jes.h).                                                           *)
(***************************************************************************)
CountsEveryElement ==
  pc = "idle" =>
    /\ Walk[Capacity + 1] = NIL
    /\ \A t \in ElementType : Stat[t] = Cardinality({n \in Live : type[n] = t})

(***************************************************************************)
(* Rendering ends, whatever tree a load has left: the walk does not come    *)
(* back to an element.                                                      *)
(***************************************************************************)
RenderReturns == pc \in {"render", "pass_end"} ~> pc = "idle"
============================================================================
