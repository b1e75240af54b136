----------------------------- MODULE JsonGrammar ---------------------------
(***************************************************************************)
(* The grammar of JSON texts (ECMA-404) over tokens, as a recogniser.  Its  *)
(* state holds the containers that are open and what may come next; a text  *)
(* is complete when nothing may.  The token "scalar" stands for a number,   *)
(* true, false or null, "string" for any string.                            *)
(***************************************************************************)
EXTENDS Integers, Sequences

Expectation ==
  {"value",              \* a value: the whole text, a key's, or after a comma in an array
   "first_value",        \* a value or the end of an array just opened
   "key", "first_key",   \* the same with the keys of an object
   "colon", "comma",     \* comma: or the end of the container
   "end",                \* the text is complete
   "wrong"}              \* the text is not JSON

Start == [open |-> <<>>, expects |-> "value"]

Wrong == [open |-> <<>>, expects |-> "wrong"]

Innermost(g) == IF g.open = <<>> THEN "none" ELSE g.open[Len(g.open)]

(* A value ends in the container that is open then.                         *)
Valued(open) == [open |-> open, expects |-> IF open = <<>> THEN "end" ELSE "comma"]

Closed(g) == Valued(SubSeq(g.open, 1, Len(g.open) - 1))

WantsValue(g) == g.expects \in {"value", "first_value"}
WantsKey(g) == g.expects \in {"key", "first_key"}

Opened(g, container, expects) == [open |-> Append(g.open, container), expects |-> expects]

Advance(g, token) ==
  CASE token = "scalar" /\ WantsValue(g) -> Valued(g.open)
    [] token = "string" /\ WantsValue(g) -> Valued(g.open)
    [] token = "string" /\ WantsKey(g) -> [g EXCEPT !.expects = "colon"]
    [] token = ":" /\ g.expects = "colon" -> [g EXCEPT !.expects = "value"]
    [] token = "{" /\ WantsValue(g) -> Opened(g, "OBJECT", "first_key")
    [] token = "[" /\ WantsValue(g) -> Opened(g, "ARRAY", "first_value")
    [] token = "}" /\ Innermost(g) = "OBJECT" /\ g.expects \in {"first_key", "comma"} -> Closed(g)
    [] token = "]" /\ Innermost(g) = "ARRAY" /\ g.expects \in {"first_value", "comma"} -> Closed(g)
    [] token = "," /\ g.expects = "comma" ->
         [g EXCEPT !.expects = IF Innermost(g) = "OBJECT" THEN "key" ELSE "value"]
    [] OTHER -> Wrong
============================================================================
