----------------------------- MODULE JsonLexicon ---------------------------
(***************************************************************************)
(* The tokens of JSON texts (ECMA-404) as a recogniser over classes of      *)
(* characters: Advance(s, c) is the state behind character c.  Escaped      *)
(* UTF-16 code units have to form Unicode characters, as jes_tokenizer.c    *)
(* demands (a high surrogate, then a low one).                              *)
(*                                                                         *)
(* Lax names what is let through beyond the standard:                       *)
(*   minus_zero        digits behind "-0"                                   *)
(*   bare_dot          no digit between the dot and the exponent            *)
(*   control           control characters in strings other than \b\f\n\r\t  *)
(*   form_feed         the form feed as white space                         *)
(*   low_first         a low surrogate in the place of the high one         *)
(*   nul_ends          the character NUL as the end of the text             *)
(***************************************************************************)
CONSTANT Lax

(* "0", "1" for 1-7 and "8" for 8-9; "A" for A, a and B, "b", "C" for C, c  *)
(* and F, "d" for D and d, "e" for E and e, "f" are the other hex digits.   *)
(* "n", "r", "t", "u" and "/" occur in escapes and literals; "mark" stands  *)
(* for the six structural characters, "tab" for \t, \n and \r, "bs" for \b, *)
(* "ff" for \f, "ctl" for the other control characters, "x" for any other.  *)
Digit == {"0", "1", "8"}
Hex == Digit \cup {"A", "b", "C", "d", "e", "f"}
HighSurrogate == {"8", "A", "b"}       \* the digit behind the D
LowSurrogate == {"C", "d", "e", "f"}
ShortEscape == {"quote", "backslash", "/", "b", "f", "n", "r", "t"}
Space == {"space", "tab"}
Control == {"nul", "tab", "bs", "ff", "ctl"}
Char == Hex \cup ShortEscape \cup Space \cup Control \cup {"u", "-", "+", ".", "mark", "x"}
END == "END"                           \* no character: behind the text

Start == "start"

AtStart(c) ==
  CASE c \in Space \/ (c = "ff" /\ "form_feed" \in Lax) -> Start
    [] c = "-" -> "minus"
    [] c = "0" -> "zero"
    [] c \in Digit \ {"0"} -> "integer"
    [] c = "quote" -> "string"
    [] c = "mark" -> "mark"
    [] c = END \/ (c = "nul" /\ "nul_ends" \in Lax) -> "end"
    [] OTHER -> "wrong"

InNumber(s, c) ==
  CASE s = "minus" /\ c = "0" -> IF "minus_zero" \in Lax THEN "integer" ELSE "zero"
    [] s = "minus" /\ c \in Digit \ {"0"} -> "integer"
    [] s = "integer" /\ c \in Digit -> "integer"
    [] s \in {"zero", "integer"} /\ c = "." -> "dot"
    [] s \in {"zero", "integer", "fraction"} /\ c = "e" -> "e"
    [] s = "dot" /\ c = "e" /\ "bare_dot" \in Lax -> "e"
    [] s \in {"dot", "fraction"} /\ c \in Digit -> "fraction"
    [] s = "e" /\ c \in {"-", "+"} -> "sign"
    [] s \in {"e", "sign", "exponent"} /\ c \in Digit -> "exponent"
    [] OTHER -> "wrong"

InString(c) ==
  CASE c = "quote" -> "closed"
    [] c = "backslash" -> "escape"
    [] c = "ctl" -> IF "control" \in Lax THEN "string" ELSE "wrong"
    [] c \in {END} \cup (Control \ {"ctl"}) -> "wrong"
    [] OTHER -> "string"

InEscape(c) == IF c \in ShortEscape THEN "string" ELSE IF c = "u" THEN "u" ELSE "wrong"

(* "u1" to "u3": so many digits of a code unit have been read; "d1": the    *)
(* first is a D; "high2", "high3": those of a high surrogate; "pair",       *)
(* "pair_u", "low0", "low1": the low one is read up to its second digit.    *)
InUnicode(s, c) ==
  CASE s = "u" /\ c = "d" -> "d1"
    [] s = "u" /\ c \in Hex \ {"d"} -> "u1"
    [] s = "u1" /\ c \in Hex -> "u2"
    [] s = "d1" /\ c \in HighSurrogate -> "high2"
    [] s = "d1" /\ c \in LowSurrogate -> IF "low_first" \in Lax THEN "high2" ELSE "wrong"
    [] s = "d1" /\ c \in {"0", "1"} -> "u2"
    [] s = "u2" /\ c \in Hex -> "u3"
    [] s = "u3" /\ c \in Hex -> "string"
    [] s = "high2" /\ c \in Hex -> "high3"
    [] s = "high3" /\ c \in Hex -> "pair"
    [] s = "pair" /\ c = "backslash" -> "pair_u"
    [] s = "pair_u" /\ c = "u" -> "low0"
    [] s = "low0" /\ c = "d" -> "low1"
    [] s = "low1" /\ c \in LowSurrogate -> "u2"
    [] c = END -> "behind"
    [] OTHER -> "wrong"

Number == {"zero", "integer", "fraction", "exponent"}      \* complete ones
NumberPart == Number \cup {"minus", "dot", "e", "sign"}
UnicodePart == {"u", "u1", "u2", "u3", "d1", "high2", "high3", "pair", "pair_u", "low0", "low1"}

Advance(s, c) ==
  CASE s = Start -> AtStart(c)
    [] s \in NumberPart -> InNumber(s, c)
    [] s = "string" -> InString(c)
    [] s = "escape" -> InEscape(c)
    [] s \in UnicodePart -> InUnicode(s, c)
    [] s = "behind" /\ c = END -> "behind"      \* the text ended in a code unit
    [] OTHER -> "wrong"                  \* a token has ended, or none began
============================================================================
