---------------------------- MODULE JesTokenizer ---------------------------
(***************************************************************************)
(* jes_tokenizer.c: jes_tokenizer_get_token, and the two checks that the    *)
(* editing calls make of numbers and strings.  One action per turn of a     *)
(* loop.  The text is any sequence of the classes of characters of          *)
(* JsonLexicon; only the character at the cursor and the one behind it are  *)
(* state, the others are chosen when the cursor gets there, and so is the   *)
(* end of the text.                                                         *)
(*                                                                         *)
(* Of the token only what the code decides by is kept: whether its length   *)
(* is 0, 1 or more, its first character, and its place relative to the      *)
(* cursor.  Lines and columns serve the diagnostics and are left out.       *)
(* Nothing reads the cursor once a status has been set, so it stays then.   *)
(***************************************************************************)
EXTENDS JsonLexicon, Integers

CONSTANT Known     \* how the two checks differ from get_token, see the properties

VARIABLES
  call,       \* the function called
  pc,         \* "idle", "ready", the loop that runs, or "returned"
  ch, next,   \* the characters at the cursor and behind it
  token,
  unit,       \* the escaped UTF-16 code units being read
  status,
  read        \* state of the recogniser behind the characters taken

cursor == <<ch, next, read>>
vars == <<call, pc, cursor, token, unit, status>>

EndOrChar == Char \cup {END}
IsNul(c) == c \in {"nul", END}           \* what jes_tokenizer_get_char returns

(* gap: the cursor's distance from the end of the token's text; begins: the *)
(* distance of that text from where the token starts.                       *)
Blank == [type |-> "none", length |-> 0, first |-> "none", begins |-> 0, gap |-> 0]

NoUnit == [n |-> 0, value |-> "none"]

Text == {w \in EndOrChar \X EndOrChar : w[1] = END => w[2] = END}

Init ==
  /\ call = "none" /\ pc = "idle" /\ token = Blank /\ unit = NoUnit
  /\ ch = END /\ next = END /\ status = "NO_ERROR" /\ read = Start

AnyText == \E w \in Text : ch' = w[1] /\ next' = w[2]

(* jes_tokenizer_reset_cursor on any text, or any value to be checked.      *)
NewText ==
  /\ pc = "idle" /\ pc' = "ready" /\ AnyText
  /\ UNCHANGED <<call, token, unit, status, read>>

(* The caller is done with the text.                                       *)
Leave ==
  /\ pc = "returned"
  /\ call' = "none" /\ pc' = "idle" /\ token' = Blank /\ unit' = NoUnit
  /\ ch' = END /\ next' = END /\ status' = "NO_ERROR" /\ read' = Start

----------------------------------------------------------------------------
(* Turns and returns.                                                       *)

Advanced ==
  /\ ch' = next
  /\ next' \in IF next = END THEN {END} ELSE EndOrChar
  /\ read' = Advance(read, ch)

NewToken(t, n) == [Blank EXCEPT !.type = t, !.first = ch, !.length = n, !.gap = -n]

Longer(t, n) ==
  [t EXCEPT !.length = IF @ + n > 2 THEN 2 ELSE @ + n, !.gap = @ - n]

(* The loop goes on (or goes over to another) at the next character.        *)
Turn(loop, t) ==
  /\ pc' = loop /\ Advanced
  /\ token' = [t EXCEPT !.gap = @ + 1]
  /\ unit' = NoUnit
  /\ UNCHANGED <<call, status>>

(* jes_tokenizer_get_token moves behind the token it delivers.              *)
Deliver(t) ==
  /\ pc' = "returned" /\ unit' = NoUnit
  /\ IF call = "get_token"
     THEN Advanced /\ token' = [t EXCEPT !.gap = @ + 1]
     ELSE token' = t /\ UNCHANGED cursor
  /\ UNCHANGED <<call, status>>

Refuse(s) ==
  /\ pc' = "returned" /\ status' = s /\ unit' = NoUnit
  /\ UNCHANGED <<call, cursor, token>>

----------------------------------------------------------------------------
(* Numbers have no terminator: the loops look ahead.                        *)

StartNumber ==
  IF ch = "-" /\ next \notin Digit
  THEN pc' = "returned" /\ status' = "UNEXPECTED_SYMBOL" /\ UNCHANGED <<cursor, token, unit>>
  ELSE /\ pc' = "integer" /\ token' = NewToken("NUMBER", 1)
       /\ UNCHANGED <<cursor, unit, status>>

Integer ==
  /\ pc = "integer"
  /\ \/ next \in Digit \cup {".", "e"} /\ Turn("symbol", token)
     \/ next \notin Digit \cup {".", "e"} /\ Deliver(token)

NoLeadingZero == FALSE                   \* faulty: 01 is a number

LeadingZero == token.length = 1 /\ token.first = "0"

(* The digit, dot or e that the loop has moved to.  A minus sign is never   *)
(* alone in front of it, as the code tests once more.                       *)
Symbol ==
  /\ pc = "symbol"
  /\ \/ ch = "." /\ Turn("fraction", Longer(token, 1))
     \/ ch = "e" /\ Turn("exponent", Longer(token, 1))
     \/ ch \in Digit /\ LeadingZero /\ Refuse("INVALID_NUMBER")
     \/ /\ ch \in Digit /\ ~LeadingZero
        /\ pc' = "integer" /\ token' = Longer(token, 1)
        /\ UNCHANGED <<call, cursor, unit, status>>

FractionOfDigits ==                      \* faulty: no exponent behind a fraction
  /\ pc = "fraction"
  /\ \/ ch \in Digit /\ next \in Digit /\ Turn("fraction", Longer(token, 1))
     \/ ch \in Digit /\ next \notin Digit /\ Deliver(Longer(token, 1))
     \/ ch \notin Digit /\ Refuse("UNEXPECTED_SYMBOL")

Fraction ==
  /\ pc = "fraction"
  /\ \/ ch \in Digit /\ next \in Digit \cup {"e"} /\ Turn("fraction", Longer(token, 1))
     \/ ch \in Digit /\ next \notin Digit \cup {"e"} /\ Deliver(Longer(token, 1))
     \/ ch = "e" /\ Turn("exponent", Longer(token, 1))
     \/ ch \notin Digit \cup {"e"} /\ Refuse("UNEXPECTED_SYMBOL")

ExponentSignUncounted ==                 \* faulty: the sign is not part of the token
  /\ pc = "exponent"
  /\ \/ next \in Digit /\ ch \in {"+", "-"} /\ Turn("exponent", token)
     \/ next \in Digit /\ ch \in Digit /\ Turn("exponent", Longer(token, 1))
     \/ ch \in Digit /\ next \notin Digit /\ Deliver(Longer(token, 1))
     \/ ch \in {"+", "-"} /\ next \notin Digit /\ Refuse("INVALID_NUMBER")
     \/ ch \notin Digit \cup {"+", "-"} /\ Refuse("INVALID_NUMBER")

Exponent ==
  /\ pc = "exponent"
  /\ \/ ch \in Digit \cup {"+", "-"} /\ next \in Digit /\ Turn("exponent", Longer(token, 1))
     \/ ch \in Digit /\ next \notin Digit /\ Deliver(Longer(token, 1))
     \/ ch \in {"+", "-"} /\ next \notin Digit /\ Refuse("INVALID_NUMBER")
     \/ ch \notin Digit \cup {"+", "-"} /\ Refuse("INVALID_NUMBER")

----------------------------------------------------------------------------
(* Strings.                                                                 *)

Unprintable == {"bs", "ff", "tab"}       \* \b \f \n \r \t

(* The text of a string starts behind its quotation mark: where the cursor  *)
(* is as long as the token has no characters.                               *)
Placed ==
  IF token.length = 0
  THEN [token EXCEPT !.begins = @ + token.gap, !.gap = 0] ELSE token

String ==
  /\ pc = "string"
  /\ \/ IsNul(ch) /\ Refuse("UNEXPECTED_EOF")
     \/ ch = "quote" /\ Deliver(Placed)
     \/ ch = "backslash" /\ Turn("escape", Longer(Placed, 1))
     \/ ch \in Unprintable /\ Refuse("UNEXPECTED_SYMBOL")
     \/ /\ ~IsNul(ch) /\ ch \notin Unprintable \cup {"quote", "backslash"}
        /\ Turn("string", Longer(Placed, 1))

Escape ==
  /\ pc = "escape"
  /\ \/ ch \in ShortEscape /\ Turn("string", Longer(token, 1))
     \/ ch = "u" /\ Turn("unicode", Longer(token, 1))
     \/ ch \notin ShortEscape \cup {"u"} /\ Refuse("INVALID_ESCAPED_SYMBOL")

(* What is known of the first code unit behind its next digit c, as         *)
(* jes_tokenizer_utf_16_str2hex finds it: D800 to DFFF is half a pair.      *)
FirstUnit(u, c) ==
  IF u.value = "bad" \/ c \notin Hex THEN "bad"
  ELSE CASE u.value = "none" -> IF c = "d" THEN "d" ELSE "plain"
         [] u.value = "d" -> IF c \in {"0", "1"} THEN "plain" ELSE "half"
         [] OTHER -> u.value

(* The six characters behind the first half of a pair.                      *)
SecondUnit == <<{"backslash"}, {"u"}, {"d"}, LowSurrogate, Hex, Hex>>

WithChar(u, c) ==
  [n |-> u.n + 1,
   value |-> IF u.n < 4 THEN FirstUnit(u, c)
             ELSE IF u.value = "half" /\ c \in SecondUnit[u.n - 3] THEN "half" ELSE "bad"]

CompleteAtFour(u) == u.n = 4 /\ u.value # "half"       \* faulty: pairs never end

(* A unit is judged behind four characters, a pair behind ten.              *)
Complete(u) == u.n = 10 \/ (u.n = 4 /\ u.value # "half")

ReadOn(u) ==
  /\ Advanced /\ unit' = u
  /\ token' = [Longer(token, 1) EXCEPT !.gap = @ + 1]
  /\ UNCHANGED <<call, pc, status>>

(* jes_tokenizer_process_escaped_utf_16_token.  At the end of the text the  *)
(* conversion reads the bytes that happen to be behind it.                  *)
Unicode ==
  LET caller == IF call = "get_token" THEN "string" ELSE "check" IN
  /\ pc = "unicode"
  /\ \/ ch \in Unprintable \cup {"quote"} /\ Refuse("UNEXPECTED_SYMBOL")
     \/ /\ ch \notin Unprintable \cup {"quote"}
        /\ \E c \in IF ch = END THEN Char ELSE {ch} :
             LET u == WithChar(unit, c) IN
             \/ ~Complete(u) /\ ReadOn(u)
             \/ Complete(u) /\ u.value # "bad" /\ Turn(caller, Longer(token, 1))
             \/ Complete(u) /\ u.value = "bad" /\ Refuse("INVALID_UNICODE")

----------------------------------------------------------------------------
(* jes_tokenizer_get_token.                                                 *)

IsSpace(c) == c \in Space \cup {"ff"}

GetToken ==
  /\ pc = "ready" \/ (pc = "returned" /\ call = "get_token" /\ status = "NO_ERROR")
  /\ call' = "get_token" /\ pc' = "token" /\ token' = Blank /\ read' = Start
  /\ UNCHANGED <<ch, next, unit, status>>

(* Whether the rest of true, false or null follows is decided in one step.  *)
Literal ==
  /\ pc = "token" /\ ch \in {"t", "f", "n"}
  /\ pc' = "returned"
  /\ \/ /\ next \in {"r", "A", "u"}
        /\ AnyText /\ read' = "literal"
        /\ token' = [Blank EXCEPT !.type = "LITERAL", !.length = 2]
        /\ UNCHANGED status
     \/ /\ status' = "UNEXPECTED_SYMBOL" /\ read' = "wrong"
        /\ UNCHANGED <<ch, next, token>>
  /\ UNCHANGED <<call, unit>>

OneChar(t) == token' = [Blank EXCEPT !.type = t, !.length = 1] /\ pc' = "returned" /\ Advanced

Token ==
  /\ pc = "token"
  /\ \/ IsSpace(ch) /\ Advanced /\ UNCHANGED <<pc, token, status>>
     \/ IsNul(ch) /\ OneChar("EOF") /\ UNCHANGED status
     \/ ch = "mark" /\ OneChar("MARK") /\ UNCHANGED status
     \/ ch = "quote" /\ Turn("string", NewToken("STRING", 0))
     \/ ch \in Digit \cup {"-"} /\ StartNumber
     \/ /\ ch \notin Digit \cup {"space", "tab", "ff", "nul", END, "mark", "quote", "-", "t", "f", "n"}
        /\ pc' = "returned" /\ status' = "UNEXPECTED_SYMBOL"
        /\ UNCHANGED <<cursor, token>>
  /\ UNCHANGED <<call, unit>>

----------------------------------------------------------------------------
(* jes_tokenizer_validate_number and jes_tokenizer_validate_string: the     *)
(* text is the value, without quotation marks.                              *)

ValidateNumber ==
  /\ pc = "ready" /\ call' = "validate_number"
  /\ \/ ch \in Digit \cup {"-"} /\ StartNumber
     \/ /\ ch \notin Digit \cup {"-"}
        /\ pc' = "returned" /\ status' = "INVALID_NUMBER"
        /\ UNCHANGED <<cursor, token, unit>>

(* For an empty value true is returned, which is JES_UNEXPECTED_SYMBOL.     *)
(* The loop tests a character before it has read one: it may not be entered.*)
ValidateString ==
  /\ pc = "ready" /\ call' = "validate_string"
  /\ token' = NewToken("STRING", 0)
  /\ \/ /\ ch = END
        /\ pc' = "returned" /\ status' = "UNEXPECTED_SYMBOL" /\ read' = "string"
     \/ /\ ch # END
        /\ pc' = "check" /\ read' = "string"
        /\ UNCHANGED status
     \/ /\ ch # END
        /\ pc' = "returned" /\ read' = "unread"
        /\ UNCHANGED status
  /\ UNCHANGED <<ch, next, unit>>

Check ==
  /\ pc = "check"
  /\ \/ ch = END /\ Deliver(token)
     \/ ch = "nul" /\ Refuse("UNEXPECTED_EOF")
     \/ ch = "backslash" /\ Turn("check_escape", Longer(token, 1))
     \/ ch \in Unprintable \cup {"quote"} /\ Refuse("UNEXPECTED_SYMBOL")
     \/ /\ ch \notin Unprintable \cup {"quote", "backslash", "nul", END}
        /\ Turn("check", Longer(token, 1))

CheckNoEscape ==                         \* faulty: whatever follows the backslash
  pc = "check_escape" /\ Turn("check", Longer(token, 1))

CheckEscape ==
  /\ pc = "check_escape"
  /\ \/ ch = "u" /\ Turn("unicode", Longer(token, 1))
     \/ ch # "u" /\ Refuse("UNEXPECTED_SYMBOL")

Next ==
  \/ NewText \/ Leave
  \/ GetToken \/ Token \/ Literal
  \/ Integer \/ Symbol \/ Fraction \/ Exponent
  \/ String \/ Escape \/ Unicode
  \/ ValidateNumber \/ ValidateString \/ Check \/ CheckEscape

Spec == Init /\ [][Next]_vars

----------------------------------------------------------------------------

TokenizerTypeOK ==
  /\ call \in {"none", "get_token", "validate_number", "validate_string"}
  /\ pc \in {"idle", "ready", "token", "integer", "symbol", "fraction", "exponent", "string", "escape",
            "unicode", "check", "check_escape", "returned"}
  /\ <<ch, next>> \in Text
  /\ token \in [type : {"none", "EOF", "MARK", "STRING", "NUMBER", "LITERAL"}, length : 0 .. 2,
               first : EndOrChar \cup {"none"}, begins : 0 .. 1, gap : -1 .. 1]
  /\ unit \in [n : 0 .. 9, value : {"none", "plain", "d", "half", "bad"}]
  /\ status \in {"NO_ERROR", "UNEXPECTED_SYMBOL", "INVALID_UNICODE", "INVALID_NUMBER",
                "INVALID_ESCAPED_SYMBOL", "UNEXPECTED_EOF"}

Accepted(function) == pc = "returned" /\ call = function /\ status = "NO_ERROR"

(***************************************************************************)
(* A token that is delivered is one of JSON (and of Lax), of the type that  *)
(* the parser is told, and a number is not cut short.                       *)
(***************************************************************************)
DeliversTokens ==
  Accepted("get_token") =>
    CASE token.type = "NUMBER" -> read \in Number /\ Advance(read, ch) = "wrong"
      [] token.type = "STRING" -> read = "closed"
      [] token.type = "LITERAL" -> read = "literal"
      [] token.type = "MARK" -> read = "mark"
      [] token.type = "EOF" -> read = "end"

(***************************************************************************)
(* The value and length of a token are exactly its text, a string's without *)
(* the quotation marks.  This is about the token; jes_tree.c:168 and 201    *)
(* keep only the lower 16 bits of its length when it becomes an element.    *)
(***************************************************************************)
TokenIsItsText ==
  Accepted("get_token") =>
    /\ token.begins = IF token.type = "STRING" THEN 1 ELSE 0
    /\ token.gap = IF token.type = "STRING" THEN 1 ELSE 0

(* No token, or no value for the check of strings, starts like this.        *)
Hopeless(s) == s \in {"wrong", "behind"} \/ (s = "closed" /\ call = "validate_string")

Unfinished(s) == s \notin Number \cup {"closed", "mark", "end", "literal"}

Ahead(s, c) == IF s = "string" /\ c = END /\ call = "validate_string" THEN s ELSE Advance(s, c)

(***************************************************************************)
(* No JSON token and no value that would be part of one is refused.  The    *)
(* check of strings is known to refuse the empty one ("empty_value") and    *)
(* every escape but \u ("short_escape").                                    *)
(***************************************************************************)
RefusesNoToken ==
  pc = "returned" /\ status # "NO_ERROR" =>
    LET s == Ahead(read, ch) IN
    \/ Hopeless(read) \/ Hopeless(s) \/ (Unfinished(s) /\ Hopeless(Ahead(s, next)))
    \/ call = "validate_number" /\ s \notin NumberPart
    \/ "empty_value" \in Known /\ call = "validate_string" /\ ch = END
    \/ "short_escape" \in Known /\ call = "validate_string" /\ read = "escape"

(***************************************************************************)
(* A value that passes the checks can be read back: the whole of it is a    *)
(* number, or a string between quotation marks.  The check of numbers is    *)
(* known to look at a prefix only ("number_prefix"), the one of strings to  *)
(* depend on an uninitialised variable ("unread") and on bytes behind the   *)
(* value ("behind_end").                                                    *)
(***************************************************************************)
PassesWhatIsReadBack ==
  /\ Accepted("validate_number") =>
       /\ Advance(read, ch) \in Number
       /\ next = END \/ ("number_prefix" \in Known /\ Advance(Advance(read, ch), next) = "wrong")
  /\ Accepted("validate_string") =>
       \/ read = "string" /\ ch = END
       \/ read = "unread" /\ "unread" \in Known
       \/ read = "behind" /\ "behind_end" \in Known
============================================================================
