------------------------------ MODULE JesParser ----------------------------
(***************************************************************************)
(* jes_load and the parser of jes_parser.c: a state machine that takes one  *)
(* token after the other and builds the tree of JesTree.  The tokens are    *)
(* those of JsonGrammar, a key name for a string, "EOF" at the end of the   *)
(* text and "INVALID" where the tokenizer reports an error.  The text is    *)
(* any sequence of tokens; read holds the ones taken so far, and grammar    *)
(* what the grammar of JSON, which the code does not have, makes of them.   *)
(*                                                                         *)
(* Where an assertion on the text can fail, both builds are modelled: with  *)
(* assertions the program ends, without (NDEBUG) it goes on.                *)
(***************************************************************************)
EXTENDS JesTreeDocument

CONSTANT MaxTokens     \* bound on the tokens in front of "EOF"

Punctuation == {"{", "}", "[", "]", ",", ":"}
Token == Punctuation \cup {"scalar"} \cup Names

ASSUME ParserAssumption ==
  /\ MaxTokens \in Nat
  /\ Names \cap (Punctuation \cup {"scalar", "EOF", "INVALID"}) = {}

VARIABLES
  state,    \* ctx->serdes.state
  iter,     \* ctx->serdes.iter: the node the parser is at
  read,
  grammar

textVars == <<read, grammar>>
parserVars == <<state, iter, textVars>>

JSON == INSTANCE JsonGrammar

ParserInit ==
  Init /\ state = "END" /\ iter = NIL /\ read = <<>> /\ grammar = JSON!Start

(* A new text starts.                                                       *)
NewText == read' = <<>> /\ grammar' = JSON!Start

(* jes_load: jes_reset, then the start of jes_parse.  A text that is NULL   *)
(* or of length zero is refused before; nothing but the status changes, and *)
(* that is left out here.                                                   *)
Load ==
  /\ pc = "idle"
  /\ ResetTree
  /\ pc' = "parse" /\ status' = "NO_ERROR"
  /\ state' = "EXPECT_VALUE" /\ iter' = NIL /\ NewText
  /\ UNCHANGED callVars

----------------------------------------------------------------------------
(* Moves and ends.                                                          *)

Keep == UNCHANGED <<treeVars, tableVars>>

(* The parser goes on in state s at node n.                                 *)
GoOn(s, n) ==
  /\ state' = s /\ iter' = n
  /\ UNCHANGED <<status, pc, callVars>>

(* The loop ends with a status.  What was built stays in the tree.          *)
StopIn(next, s) ==
  /\ pc' = "idle" /\ status' = s /\ state' = next
  /\ UNCHANGED callVars

Stop(s) == StopIn(state, s)

Error(s) == Stop(s) /\ Keep /\ UNCHANGED iter

AssertFails == Abort /\ UNCHANGED <<state, iter>>

(* The nodes above n.                                                       *)
Ancestors(n) ==
  LET up[k \in 0 .. Capacity] ==
        IF k = 0 THEN n ELSE LET m == up[k - 1] IN IF m = NIL THEN NIL ELSE parent[m]
  IN [k \in 1 .. Capacity |-> up[k]]

(* The nearest node above n whose type is one of types.                     *)
ParentOfType(n, types) ==
  LET up == Ancestors(n)
      hits == {k \in 1 .. Capacity : up[k] # NIL /\ type[up[k]] \in types}
  IN IF hits = {} THEN NIL ELSE up[Table!First(hits)]

ContainerParent(n) == ParentOfType(n, {"OBJECT", "ARRAY"})

TypeOf(n) == IF n = NIL THEN "UNKNOWN" ELSE type[n]
HasChild(n) == n # NIL /\ first_child[n] # NIL

(* A value is appended to the children of iter, and the parser goes on at   *)
(* it; the state has changed even if there is no node for it.               *)
AppendValue(t, next) ==
  /\ state' = next
  /\ UNCHANGED <<tableVars, callVars>>
  /\ \/ /\ Full
        /\ iter' = NIL /\ status' = "OUT_OF_MEMORY" /\ pc' = "idle"
        /\ UNCHANGED treeVars
     \/ /\ InsertNode(iter, LastChild(iter), t, NIL)
        /\ iter' = NextNode
        /\ UNCHANGED <<status, pc>>

(* The key table's error is the status the loop finds, although the key is  *)
(* in the tree.                                                             *)
AppendKey(k) ==
  \/ /\ FindKey(iter, k) # NIL
     /\ Stop("DUPLICATE_KEY") /\ Keep /\ iter' = NIL
  \/ /\ FindKey(iter, k) = NIL /\ Full
     /\ Stop("OUT_OF_MEMORY") /\ Keep /\ iter' = NIL
  \/ /\ FindKey(iter, k) = NIL
     /\ InsertNode(iter, LastChild(iter), "KEY", k)
     /\ IF Hashed THEN Table!HashAdd(<<iter, k>>, NextNode) ELSE UNCHANGED tableVars
     /\ IF Hashed /\ Table!AddStatus(<<iter, k>>) # "NO_ERROR"
        THEN StopIn("EXPECT_COLON", Table!AddStatus(<<iter, k>>)) /\ iter' = NextNode
        ELSE GoOn("EXPECT_COLON", NextNode)

----------------------------------------------------------------------------
(* Closing braces and brackets, and commas.                                 *)

(* The container to be closed is iter, or the nearest one above of the      *)
(* type; with the container it is in the parser goes on.                    *)
Close(container) ==
  LET closing == IF TypeOf(iter) = container THEN iter ELSE ParentOfType(iter, {container})
      outer == IF closing = NIL THEN NIL ELSE ContainerParent(closing)
  IN GoOn(IF outer = NIL THEN "EXPECT_EOF" ELSE "HAVE_VALUE", outer) /\ Keep

(* The open container may be closed in this state only if it is empty.      *)
TooEarlyAtAll(container, expecting) ==    \* faulty: not even then
  TypeOf(iter) = container /\ state = expecting

TooEarly(container, expecting) ==
  TypeOf(iter) = container /\ state = expecting /\ HasChild(iter)


ClosingBrace ==
  LET refused == TooEarly("OBJECT", "EXPECT_KEY") \/ TypeOf(iter) \in {"KEY", "ARRAY"}
      found == TypeOf(iter) = "OBJECT" \/ ParentOfType(iter, {"OBJECT"}) # NIL
  IN \/ refused /\ Error("UNEXPECTED_TOKEN")
     \/ ~refused /\ Close("OBJECT")
     \/ ~refused /\ ~found /\ AssertFails

ClosingBracket ==
  \/ TooEarly("ARRAY", "EXPECT_VALUE") /\ Error("UNEXPECTED_TOKEN")
  \/ ~TooEarly("ARRAY", "EXPECT_VALUE") /\ Close("ARRAY")

CommaInArray ==                           \* faulty: a value follows in an object, too
  LET container == IF TypeOf(iter) \in {"OBJECT", "ARRAY"} THEN iter ELSE ContainerParent(iter)
  IN container # NIL /\ GoOn("EXPECT_VALUE", container) /\ Keep

(* A member has been read into the container: it has a child, and the test  *)
(* for one that the code makes here never fails.                            *)
Comma ==
  LET container == IF TypeOf(iter) \in {"OBJECT", "ARRAY"} THEN iter ELSE ContainerParent(iter)
  IN \/ /\ container # NIL
        /\ GoOn(IF type[container] = "ARRAY" THEN "EXPECT_VALUE" ELSE "EXPECT_KEY", container)
        /\ Keep
     \/ container = NIL /\ AssertFails
     \/ container = NIL /\ iter' = NIL /\ Stop("UNEXPECTED_TOKEN") /\ Keep

----------------------------------------------------------------------------
(* The states.                                                              *)

Finish ==
  /\ state' = "END" /\ pc' = "idle"
  /\ Keep
  /\ UNCHANGED <<iter, status, callVars>>

Unexpected(t) == Error(IF t = "EOF" THEN "UNEXPECTED_EOF" ELSE "UNEXPECTED_TOKEN")

ExpectKey(t) ==
  \/ t \in Names /\ AppendKey(t)
  \/ t = "}" /\ ClosingBrace
  \/ t \notin Names \cup {"}"} /\ Unexpected(t)

ExpectColon(t) ==
  \/ t = ":" /\ GoOn("EXPECT_VALUE", iter) /\ Keep
  \/ t # ":" /\ Error("UNEXPECTED_TOKEN")

ExpectValue(t) ==
  \/ t \in Names \cup {"scalar"} /\ AppendValue("SCALAR", "HAVE_VALUE")
  \/ t = "[" /\ AppendValue("ARRAY", "EXPECT_VALUE")
  \/ t = "{" /\ AppendValue("OBJECT", "EXPECT_KEY")
  \/ t = "]" /\ iter # NIL /\ ClosingBracket
  \/ t = "}" /\ iter # NIL /\ ClosingBrace
  \/ t \in {"]", "}"} /\ iter = NIL /\ Error("UNEXPECTED_TOKEN")
  \/ t \in {",", ":", "EOF"} /\ Unexpected(t)

HaveValue(t) ==
  \/ t = "}" /\ ClosingBrace
  \/ t = "]" /\ ClosingBracket
  \/ t = "," /\ Comma
  \/ t = "EOF" /\ parent[iter] = NIL /\ ~HasChild(iter) /\ Finish
  \/ t = "EOF" /\ (parent[iter] # NIL \/ HasChild(iter)) /\ Error("UNEXPECTED_EOF")
  \/ t \notin {"}", "]", ",", "EOF"} /\ Error("UNEXPECTED_TOKEN")

ExpectEof(t) ==
  \/ t = "EOF" /\ Finish
  \/ t # "EOF" /\ Error("UNEXPECTED_TOKEN")

Read(t) ==
  /\ pc = "parse"
  /\ t \in Token => Len(read) < MaxTokens
  /\ read' = Append(read, t)
  /\ grammar' = IF t \in Token
                THEN JSON!Advance(grammar, IF t \in Names THEN "string" ELSE t)
                ELSE grammar
  /\ \/ t = "INVALID" /\ Error("UNEXPECTED_SYMBOL")
     \/ /\ t # "INVALID"
        /\ \/ state = "EXPECT_KEY" /\ ExpectKey(t)
           \/ state = "EXPECT_COLON" /\ ExpectColon(t)
           \/ state = "EXPECT_VALUE" /\ ExpectValue(t)
           \/ state = "HAVE_VALUE" /\ HaveValue(t)
           \/ state = "EXPECT_EOF" /\ ExpectEof(t)

ParserNext == Load \/ \E t \in Token \cup {"EOF", "INVALID"} : Read(t)

ParserSpec == ParserInit /\ [][ParserNext]_<<vars, parserVars>>

----------------------------------------------------------------------------

(* A text, with the strings that are values as "scalar": a key has a colon. *)
Normalised(tokens) ==
  LET IsKey(i) == i < Len(tokens) /\ tokens[i + 1] = ":"
  IN [i \in DOMAIN tokens |-> IF tokens[i] \in Names /\ ~IsKey(i) THEN "scalar" ELSE tokens[i]]

(* The text that was loaded: what was read before the "EOF".                *)
TextRead == Normalised(SubSeq(read, 1, Len(read) - 1))

(* The text of an element, with the texts of its children in it.            *)
Enclosed(kind, name, inner) ==
  CASE kind = "OBJECT" -> <<"{">> \o inner \o <<"}">>
    [] kind = "ARRAY" -> <<"[">> \o inner \o <<"]">>
    [] kind = "KEY" -> <<name, ":">> \o inner
    [] OTHER -> <<"scalar">>

(* The i-th text behind those before it.                                    *)
Joined(before, i, text) == (IF i = 1 THEN <<>> ELSE before \o <<",">>) \o text

(* The text of the tree below x, when the texts of its children are known.  *)
TextAbove(x, texts) ==
  LET c == Children(x)
      joined[i \in 0 .. Len(c)] ==
        IF i = 0 THEN <<>> ELSE Joined(joined[i - 1], i, texts[c[i]])
  IN Enclosed(type[x], key[x], joined[Len(c)])

(* The text of the tree below n, level by level: text[k] goes k levels down. *)
Text(n) ==
  LET text[k \in 0 .. Capacity] ==
        IF k = 0 THEN [x \in Node |-> <<>>]
        ELSE LET below == text[k - 1] IN [x \in Node |-> TextAbove(x, below)]
  IN text[Capacity][n]

Loaded == pc = "idle" /\ read # <<>> /\ status = "NO_ERROR"
Refused ==
  \/ pc = "aborted"
  \/ pc = "idle" /\ read # <<>>
     /\ status \in {"UNEXPECTED_TOKEN", "UNEXPECTED_EOF", "UNEXPECTED_SYMBOL"}

ParserTypeOK ==
  /\ PoolTypeOK /\ Table!HashTypeOK
  /\ root \in Link /\ iter \in Link
  /\ state \in {"EXPECT_KEY", "EXPECT_COLON", "EXPECT_VALUE", "HAVE_VALUE", "EXPECT_EOF", "END"}

(***************************************************************************)
(* The parser refuses no JSON text, nor fails an assertion on one: it is    *)
(* only when no JSON text begins with what was read, or the text ends too   *)
(* early, that it stops with an error of its own.                           *)
(***************************************************************************)
RefusesNoJson ==
  Refused => \/ Last(read) = "INVALID"
             \/ grammar.expects = "wrong"
             \/ Last(read) = "EOF" /\ grammar.expects # "end"

(***************************************************************************)
(* The tree loaded from a JSON text is that text: same elements, same       *)
(* names, same order, same nesting.                                         *)
(***************************************************************************)
LoadsWhatItReads == Loaded /\ grammar.expects = "end" => Text(root) = TextRead

(***************************************************************************)
(* Whatever text was read, and however the load ended, what it leaves is a  *)
(* tree in which the calls that edit can work.                              *)
(***************************************************************************)
LeavesTree == TreeOK /\ JsonShape /\ UniqueKeys /\ EntriesCurrent

LostKeys == {n \in Live : type[n] = "KEY" /\ FindKey(parent[n], key[n]) # n}

(***************************************************************************)
(* The keys of what was loaded are found by their names.  Only the key the  *)
(* load stopped at because the key table was full, which stays in the tree, *)
(* is not; it has no value.                                                 *)
(***************************************************************************)
LosesOneKey ==
  \A n \in LostKeys : LostKeys = {n} /\ first_child[n] = NIL /\ entry_count = HashCapacity

(***************************************************************************)
(* Only JSON texts are accepted ("full compliance with the ECMA-404 JSON    *)
(* standard", README.md).                                                   *)
(***************************************************************************)
AcceptsOnlyJson == Loaded => grammar.expects = "end"
============================================================================
