------------------------- MODULE JesTokenizerProofs ------------------------
(***************************************************************************)
(* Proofs about the tokenizer, for every text: what it delivers is the      *)
(* token that stands there, and JSON is not refused.  The invariant says    *)
(* for the head of each loop how far the recogniser of JsonLexicon is, and  *)
(* where the text of the token ends.                                        *)
(***************************************************************************)
EXTENDS JesTokenizer, TLAPS

----------------------------------------------------------------------------
(* Characters and the states of the recogniser.                             *)

(* All that is known to be let through is let through by the recogniser.    *)
FullLax == {"minus_zero", "bare_dot", "control", "form_feed", "low_first", "nul_ends"} \subseteq Lax

(* The recogniser, being stricter than the code, has left it behind.        *)
Astray(s) == s = "wrong" /\ ~FullLax

LEMMA AdvanceBegins ==
  ASSUME NEW c
  PROVE  /\ c \in Digit => Advance(Start, c) = IF c = "0" THEN "zero" ELSE "integer"
         /\ c = "-" => Advance(Start, c) = "minus"
         /\ c = "quote" => Advance(Start, c) = "string"
         /\ c = "mark" => Advance(Start, c) = "mark"
         /\ c \in {"space", "tab"} => Advance(Start, c) = Start
         /\ c = "ff" => Advance(Start, c) = Start \/ Astray(Advance(Start, c))
         /\ IsNul(c) => Advance(Start, c) = "end" \/ Astray(Advance(Start, c))
         /\ c \notin Digit \cup {"space", "tab", "ff", "nul", END, "mark", "quote", "-"} =>
              Advance(Start, c) = "wrong"
  BY SMT DEF Advance, AtStart, InNumber, InString, InUnicode, Start, NumberPart, Number,
            InEscape, UnicodePart, Digit, Hex, HighSurrogate, LowSurrogate, ShortEscape,
            Space, Control, END, IsNul, FullLax, Astray

LEMMA AdvanceInNumber ==
  ASSUME NEW c
  PROVE  /\ Advance("minus", c) =
              IF c = "0" /\ "minus_zero" \notin Lax THEN "zero"
              ELSE IF c \in Digit THEN "integer" ELSE "wrong"
         /\ Advance("zero", c) = IF c = "." THEN "dot" ELSE IF c = "e" THEN "e" ELSE "wrong"
         /\ Advance("integer", c) =
              IF c \in Digit THEN "integer"
              ELSE IF c = "." THEN "dot" ELSE IF c = "e" THEN "e" ELSE "wrong"
         /\ Advance("dot", c) =
              IF c \in Digit THEN "fraction"
              ELSE IF c = "e" /\ "bare_dot" \in Lax THEN "e" ELSE "wrong"
         /\ Advance("fraction", c) =
              IF c \in Digit THEN "fraction" ELSE IF c = "e" THEN "e" ELSE "wrong"
         /\ Advance("e", c) =
              IF c \in Digit THEN "exponent" ELSE IF c \in {"+", "-"} THEN "sign" ELSE "wrong"
         /\ Advance("sign", c) = IF c \in Digit THEN "exponent" ELSE "wrong"
         /\ Advance("exponent", c) = IF c \in Digit THEN "exponent" ELSE "wrong"
  BY SMT DEF Advance, AtStart, InNumber, InString, InUnicode, Start, NumberPart, Number,
            InEscape, UnicodePart, Digit, Hex, HighSurrogate, LowSurrogate, ShortEscape,
            Space, Control, END, IsNul, FullLax, Astray

LEMMA AdvanceInString ==
  ASSUME NEW c
  PROVE  /\ Advance("escape", c) =
              IF c \in ShortEscape THEN "string" ELSE IF c = "u" THEN "u" ELSE "wrong"
         /\ c = "quote" => Advance("string", c) = "closed"
         /\ c = "backslash" => Advance("string", c) = "escape"
         /\ c \in {"nul", "bs", "ff", "tab", END} => Advance("string", c) = "wrong"
         /\ c = "ctl" => Advance("string", c) = "string" \/ Astray(Advance("string", c))
         /\ c \notin {"quote", "backslash", "nul", "bs", "ff", "tab", "ctl", END} =>
              Advance("string", c) = "string"
  BY SMT DEF Advance, AtStart, InNumber, InString, InUnicode, Start, NumberPart, Number,
            InEscape, UnicodePart, Digit, Hex, HighSurrogate, LowSurrogate, ShortEscape,
            Space, Control, END, IsNul, FullLax, Astray

LEMMA AdvanceInUnicode ==
  ASSUME NEW c
  PROVE  /\ c = END => \A s \in UnicodePart : Advance(s, c) = "behind"
         /\ c = "d" => Advance("u", c) = "d1"
         /\ c \in Hex \ {"d"} => Advance("u", c) = "u1"
         /\ c # END /\ c \notin Hex => Advance("u", c) = "wrong"
         /\ c # END => Advance("u1", c) = IF c \in Hex THEN "u2" ELSE "wrong"
         /\ c \in {"0", "1"} => Advance("d1", c) = "u2"
         /\ c \in HighSurrogate => Advance("d1", c) = "high2"
         /\ c \in LowSurrogate => Advance("d1", c) = "high2" \/ Astray(Advance("d1", c))
         /\ c # END /\ c \notin Hex => Advance("d1", c) = "wrong"
         /\ c # END => Advance("u2", c) = IF c \in Hex THEN "u3" ELSE "wrong"
         /\ c # END => Advance("u3", c) = IF c \in Hex THEN "string" ELSE "wrong"
         /\ c # END => Advance("high2", c) = IF c \in Hex THEN "high3" ELSE "wrong"
         /\ c # END => Advance("high3", c) = IF c \in Hex THEN "pair" ELSE "wrong"
         /\ c # END => Advance("pair", c) = IF c = "backslash" THEN "pair_u" ELSE "wrong"
         /\ c # END => Advance("pair_u", c) = IF c = "u" THEN "low0" ELSE "wrong"
         /\ c # END => Advance("low0", c) = IF c = "d" THEN "low1" ELSE "wrong"
         /\ c # END => Advance("low1", c) = IF c \in LowSurrogate THEN "u2" ELSE "wrong"
  BY SMT DEF Advance, AtStart, InNumber, InString, InUnicode, Start, NumberPart, Number,
            InEscape, UnicodePart, Digit, Hex, HighSurrogate, LowSurrogate, ShortEscape,
            Space, Control, END, IsNul, FullLax, Astray

LEMMA AdvanceEnded ==
  ASSUME NEW c
  PROVE  /\ Advance("wrong", c) = "wrong"
         /\ Advance("behind", c) = IF c = END THEN "behind" ELSE "wrong"
  BY SMT DEF Advance, AtStart, InNumber, InString, InUnicode, Start, NumberPart, Number,
            InEscape, UnicodePart, Digit, Hex, HighSurrogate, LowSurrogate, ShortEscape,
            Space, Control, END, IsNul, FullLax, Astray

----------------------------------------------------------------------------
(* What is known at the head of each loop.                                  *)

TokenType == [type : {"none", "EOF", "MARK", "STRING", "NUMBER", "LITERAL"}, length : 0 .. 2,
              first : EndOrChar \cup {"none"}, begins : 0 .. 1, gap : -1 .. 1]

Loops == {"token", "integer", "symbol", "fraction", "exponent", "string", "escape", "unicode",
          "check", "check_escape"}

Errors == {"UNEXPECTED_SYMBOL", "INVALID_UNICODE", "INVALID_NUMBER", "INVALID_ESCAPED_SYMBOL",
           "UNEXPECTED_EOF"}

(* A number, whose text ends as far behind the cursor as gap says.          *)
NumberToken(t, gap) ==
  /\ call \in {"get_token", "validate_number"}
  /\ t.type = "NUMBER" /\ t.length \in 1 .. 2 /\ t.begins = 0 /\ t.gap = gap

StringToken(t, gap) ==
  /\ call \in {"get_token", "validate_string"} /\ t.type = "STRING" /\ t.gap = gap
  /\ t.begins = IF call = "get_token" THEN 1 ELSE 0

(* Opened, but without a character so far.                                  *)
EmptyString(t) ==
  /\ call = "get_token" /\ t.type = "STRING"
  /\ t.length = 0 /\ t.begins = 0 /\ t.gap = 1

(* In front of the dot or the exponent, where s is the recogniser's state.  *)
Whole(t, s) ==
  /\ s \in {"minus", "zero", "integer"} \/ Astray(s)
  /\ t.length = 1 /\ t.first = "0" => s # "integer" /\ s # "minus"
  /\ s = "zero" => (t.length = 1 /\ t.first = "0") \/ "minus_zero" \notin Lax

(* How the digits counted in unit go with the recogniser's state.           *)
InStep(n, v, s) ==
  \/ n = 0 /\ v = "none" /\ s = "u"
  \/ n = 1 /\ v = "plain" /\ s = "u1"
  \/ n = 1 /\ v = "d" /\ s = "d1"
  \/ n = 2 /\ v = "plain" /\ s = "u2"
  \/ n = 3 /\ v = "plain" /\ s = "u3"
  \/ n = 2 /\ v = "half" /\ s = "high2"
  \/ n = 3 /\ v = "half" /\ s = "high3"
  \/ n = 4 /\ v = "half" /\ s = "pair"
  \/ n = 5 /\ v = "half" /\ s = "pair_u"
  \/ n = 6 /\ v = "half" /\ s = "low0"
  \/ n = 7 /\ v = "half" /\ s = "low1"
  \/ n = 8 /\ v = "half" /\ s = "u2"
  \/ n = 9 /\ v = "half" /\ s = "u3"

(* The text has ended inside an escape.                                     *)
Behind == read = "behind" /\ ch = END

AtInteger ==
  /\ NumberToken(token, -1) /\ Whole(token, Advance(read, ch))
  /\ Advance(read, ch) = "minus" => next \in Digit
AtSymbol ==
  /\ NumberToken(token, 0) /\ Whole(token, read) /\ ch \in Digit \cup {".", "e"}
  /\ read = "minus" => ch \in Digit
AtFraction == NumberToken(token, 0) /\ (read \in {"dot", "fraction"} \/ Astray(read))
AtExponent ==
  /\ NumberToken(token, 0) /\ (read \in {"e", "sign", "exponent"} \/ Astray(read))
  /\ read \in {"sign", "exponent"} => ch \in Digit
AtString ==
  /\ call = "get_token" /\ (read = "string" \/ Astray(read) \/ Behind)
  /\ EmptyString(token) \/ (StringToken(token, 0) /\ token.length # 0)
AtEscape ==
  /\ call = "get_token" /\ (read = "escape" \/ Astray(read))
  /\ StringToken(token, 0) /\ token.length # 0
AtUnicode ==
  /\ StringToken(token, 0) /\ token.length # 0
  /\ \/ read = "wrong" /\ (unit.value = "bad" \/ ~FullLax)
     \/ Behind
     \/ InStep(unit.n, unit.value, read)
AtCheck ==
  /\ call = "validate_string" /\ StringToken(token, 0)
  /\ read = "string" \/ Astray(read) \/ Behind
AtCheckEscape ==
  /\ call = "validate_string" /\ StringToken(token, 0)
  /\ read = "escape" \/ Astray(read)

AtLoop ==
  /\ pc \in {"idle", "ready"} => call = "none" /\ token = Blank /\ read = Start
  /\ pc = "token" => call = "get_token" /\ token = Blank /\ (read = Start \/ Astray(read))
  /\ pc = "integer" => AtInteger
  /\ pc = "symbol" => AtSymbol
  /\ pc = "fraction" => AtFraction
  /\ pc = "exponent" => AtExponent
  /\ pc = "string" => AtString
  /\ pc = "escape" => AtEscape
  /\ pc = "unicode" => AtUnicode
  /\ pc = "check" => AtCheck
  /\ pc = "check_escape" => AtCheckEscape
  /\ pc # "returned" => status = "NO_ERROR"
  /\ pc # "unicode" => unit = NoUnit

AtReturn ==
  /\ TokenIsItsText
  /\ FullLax => DeliversTokens
  /\ {"empty_value", "short_escape"} \subseteq Known => RefusesNoToken
  /\ FullLax /\ {"number_prefix", "unread", "behind_end"} \subseteq Known => PassesWhatIsReadBack

TokenizerInv == TokenizerTypeOK /\ AtLoop /\ AtReturn

LEMMA TypesAre ==
  TokenizerTypeOK <=>
    /\ call \in {"none", "get_token", "validate_number", "validate_string"}
    /\ pc \in Loops \cup {"idle", "ready", "returned"}
    /\ <<ch, next>> \in Text
    /\ token \in TokenType
    /\ unit \in [n : 0 .. 9, value : {"none", "plain", "d", "half", "bad"}]
    /\ status \in Errors \cup {"NO_ERROR"}
  BY SMT DEF TokenizerTypeOK, TokenType, Loops, Errors

LEMMA BlankType == Blank \in TokenType /\ NoUnit \in [n : 0 .. 9, value : {"none", "plain", "d", "half", "bad"}]
  BY SMT DEF TokenType, Blank, NoUnit

(* Fields of a token, changed one at a time.                                *)
LEMMA LengthSet ==
  ASSUME NEW t \in TokenType, NEW n \in 0 .. 2
  PROVE  [t EXCEPT !.length = n] \in TokenType
  BY SMT DEF TokenType

LEMMA GapSet ==
  ASSUME NEW t \in TokenType, NEW g \in -1 .. 1
  PROVE  [t EXCEPT !.gap = g] \in TokenType
  BY SMT DEF TokenType

LEMMA FirstSet ==
  ASSUME NEW t \in TokenType, NEW c \in EndOrChar
  PROVE  [t EXCEPT !.first = c] \in TokenType
  BY SMT DEF TokenType

Begun(x, c, n, g) == [Blank EXCEPT !.type = x, !.first = c, !.length = n, !.gap = g]

LEMMA BegunFacts ==
  ASSUME NEW x \in {"STRING", "NUMBER"}, NEW c \in EndOrChar, NEW n \in 0 .. 2, NEW g \in -1 .. 1
  PROVE  /\ Begun(x, c, n, g) \in TokenType /\ Begun(x, c, n, g).type = x
         /\ Begun(x, c, n, g).first = c /\ Begun(x, c, n, g).length = n
         /\ Begun(x, c, n, g).begins = 0 /\ Begun(x, c, n, g).gap = g
<1>0. PICK t : t = Begun(x, c, n, g)
  OBVIOUS
<1>1. PICK t1 : t1 = [Blank EXCEPT !.type = x]
  OBVIOUS
<1>2. PICK t2 : t2 = [t1 EXCEPT !.first = c]
  OBVIOUS
<1>3. PICK t3 : t3 = [t2 EXCEPT !.length = n]
  OBVIOUS
<1>4. t \in TokenType
  <2>1. t1 \in TokenType
    BY <1>1, BlankType, SMT DEF TokenType
  <2>2. t3 \in TokenType
    BY <1>2, <1>3, <2>1, FirstSet, LengthSet, Zenon
  <2>3. t = [t3 EXCEPT !.gap = g]
    BY <1>0, <1>1, <1>2, <1>3, SMT DEF Blank, Begun
  <2> QED BY <2>2, <2>3, GapSet
<1>5. t.type = x /\ t.first = c /\ t.length = n /\ t.begins = 0 /\ t.gap = g
  BY <1>0, SMT DEF Blank, Begun
<1> QED BY <1>0, <1>4, <1>5, Zenon

LEMMA NewTokenFacts ==
  ASSUME ch \in EndOrChar, NEW x \in {"STRING", "NUMBER"}, NEW n \in 0 .. 1
  PROVE  /\ NewToken(x, n) \in TokenType /\ NewToken(x, n).type = x /\ NewToken(x, n).first = ch
         /\ NewToken(x, n).length = n /\ NewToken(x, n).begins = 0 /\ NewToken(x, n).gap = -n
<1>1. PICK g : g = -n
  OBVIOUS
<1>2. PICK c : c = ch
  OBVIOUS
<1>3. NewToken(x, n) = Begun(x, c, n, g)
  BY <1>1, <1>2, Zenon DEF NewToken, Begun
<1>4. n \in 0 .. 2 /\ g \in -1 .. 1 /\ c \in EndOrChar
  BY <1>1, <1>2, SMT
<1>5. Begun(x, c, n, g) \in TokenType /\ Begun(x, c, n, g).type = x
  BY <1>4, BegunFacts, SMTT(30)
<1>6. Begun(x, c, n, g).first = c /\ Begun(x, c, n, g).length = n
  BY <1>4, BegunFacts, SMTT(30)
<1>7. Begun(x, c, n, g).begins = 0 /\ Begun(x, c, n, g).gap = g
  BY <1>4, BegunFacts, SMTT(30)
<1> QED BY <1>1, <1>2, <1>3, <1>5, <1>6, <1>7, Zenon

LEMMA LongerFacts ==
  ASSUME NEW t \in TokenType, t.gap # -1
  PROVE  /\ Longer(t, 1) \in TokenType /\ Longer(t, 1).type = t.type
         /\ Longer(t, 1).length = (IF t.length = 0 THEN 1 ELSE 2) /\ Longer(t, 1).first = t.first
         /\ Longer(t, 1).begins = t.begins /\ Longer(t, 1).gap = t.gap - 1
<1>1. PICK n \in 0 .. 2 : n = IF t.length = 0 THEN 1 ELSE 2
  BY SMT
<1>2. t.length \in 0 .. 2 /\ t.gap \in 0 .. 1
  BY SMT DEF TokenType
<1>3. n = IF t.length + 1 > 2 THEN 2 ELSE t.length + 1
  BY <1>1, <1>2, SMT
<1>4. Longer(t, 1) = [t EXCEPT !.length = n, !.gap = t.gap - 1]
  BY <1>3, Zenon DEF Longer
<1>5. PICK g \in -1 .. 0 : g = t.gap - 1
  BY <1>2, SMT
<1>6. PICK r : r = [t EXCEPT !.length = n, !.gap = g]
  OBVIOUS
<1>7. PICK u : u = [t EXCEPT !.length = n]
  OBVIOUS
<1>8. r \in TokenType
  <2>1. u \in TokenType
    BY <1>7, LengthSet
  <2>2. r = [u EXCEPT !.gap = g] /\ g \in -1 .. 1
    BY <1>5, <1>6, <1>7, SMT DEF TokenType
  <2> QED BY <2>1, <2>2, GapSet
<1>9. /\ r.type = t.type /\ r.length = n /\ r.first = t.first /\ r.begins = t.begins /\ r.gap = g
  BY <1>6, SMT DEF TokenType
<1> QED BY <1>1, <1>4, <1>5, <1>6, <1>8, <1>9, Zenon

LEMMA NextCharacter ==
  ASSUME TokenizerTypeOK, Advanced
  PROVE  /\ <<ch', next'>> \in Text /\ ch' = next /\ read' = Advance(read, ch)
         /\ ch = END => next = END
  BY SMT DEF TokenizerTypeOK, Advanced, Text, EndOrChar

LEMMA TextFacts ==
  ASSUME TokenizerTypeOK
  PROVE  ch \in EndOrChar /\ next \in EndOrChar /\ (ch = END => next = END)
  BY SMT DEF TokenizerTypeOK, Text

LEMMA TurnFacts ==
  ASSUME TokenizerTypeOK, NEW loop \in Loops, NEW t \in TokenType, t.gap # 1, Turn(loop, t)
  PROVE  /\ TokenizerTypeOK' /\ pc' = loop /\ call' = call /\ status' = status /\ unit' = NoUnit
         /\ ch' = next /\ read' = Advance(read, ch) /\ (ch = END => next = END)
         /\ token'.type = t.type /\ token'.length = t.length /\ token'.first = t.first
         /\ token'.begins = t.begins /\ token'.gap = t.gap + 1
<1>1. /\ pc' = loop /\ Advanced /\ token' = [t EXCEPT !.gap = @ + 1] /\ unit' = NoUnit
      /\ call' = call /\ status' = status
  BY DEF Turn
<1>2. <<ch', next'>> \in Text /\ ch' = next /\ read' = Advance(read, ch) /\ (ch = END => next = END)
  BY <1>1, NextCharacter
<1>3. /\ token' \in TokenType /\ token'.type = t.type /\ token'.length = t.length
      /\ token'.first = t.first /\ token'.begins = t.begins /\ token'.gap = t.gap + 1
  BY <1>1, SMT DEF TokenType
<1>4. TokenizerTypeOK'
  BY <1>1, <1>2, <1>3, BlankType, SMT DEF TokenizerTypeOK, TokenType, Loops
<1> QED BY <1>1, <1>2, <1>3, <1>4

LEMMA NotReturned ==
  ASSUME pc' # "returned"
  PROVE  AtReturn'
  BY DEF AtReturn, TokenIsItsText, DeliversTokens, RefusesNoToken, PassesWhatIsReadBack, Accepted

----------------------------------------------------------------------------
(* How a call returns.                                                      *)

(* What RefusesNoToken says where a call stops.                             *)
NoTokenHere ==
  LET s == Ahead(read, ch) IN
  \/ Hopeless(read) \/ Hopeless(s) \/ (Unfinished(s) /\ Hopeless(Ahead(s, next)))
  \/ call = "validate_number" /\ s \notin NumberPart
  \/ "empty_value" \in Known /\ call = "validate_string" /\ ch = END
  \/ "short_escape" \in Known /\ call = "validate_string" /\ read = "escape"

LEMMA ErrorReturned ==
  ASSUME pc' = "returned", status' # "NO_ERROR", unit' = NoUnit,
         {"empty_value", "short_escape"} \subseteq Known => NoTokenHere'
  PROVE  AtLoop' /\ AtReturn'
<1>1. AtLoop'
  BY DEF AtLoop
<1>2. AtReturn'
  BY DEF AtReturn, TokenIsItsText, DeliversTokens, RefusesNoToken, PassesWhatIsReadBack, Accepted,
         NoTokenHere
<1> QED BY <1>1, <1>2

LEMMA RefuseStep ==
  ASSUME TokenizerInv, NEW s \in Errors, Refuse(s),
         {"empty_value", "short_escape"} \subseteq Known => NoTokenHere
  PROVE  TokenizerInv'
<1>1. /\ pc' = "returned" /\ status' = s /\ unit' = NoUnit /\ call' = call
      /\ ch' = ch /\ next' = next /\ read' = read /\ token' = token
  BY DEF Refuse, cursor
<1>2. TokenizerTypeOK'
  BY <1>1, TypesAre, BlankType DEF TokenizerInv, TokenizerTypeOK, Errors
<1>3. NoTokenHere' = NoTokenHere
  BY <1>1 DEF NoTokenHere, Ahead, Hopeless, Unfinished
<1> QED BY <1>1, <1>2, <1>3, ErrorReturned DEF TokenizerInv, Errors

LEMMA NumberDelivered ==
  ASSUME TokenizerInv, NEW t \in TokenType, NumberToken(t, -1), Deliver(t), status = "NO_ERROR",
         Advance(read, ch) \in Number \/ Astray(Advance(read, ch)),
         Advance(Advance(read, ch), next) = "wrong"
  PROVE  TokenizerInv'
<1>1. pc' = "returned" /\ unit' = NoUnit /\ call' = call /\ status' = "NO_ERROR"
  BY DEF Deliver
<1>2. TokenizerTypeOK
  BY DEF TokenizerInv
<1>3. AtLoop'
  BY <1>1 DEF AtLoop
<1>4. CASE call = "get_token"
  <2>1. Advanced /\ token' = [t EXCEPT !.gap = @ + 1]
    BY <1>4 DEF Deliver
  <2>2. <<ch', next'>> \in Text /\ ch' = next /\ read' = Advance(read, ch)
    BY <1>2, <2>1, NextCharacter
  <2>3. token' \in TokenType /\ token'.type = "NUMBER" /\ token'.begins = 0 /\ token'.gap = 0
    BY <2>1, SMT DEF TokenType, NumberToken
  <2>4. TokenizerTypeOK'
    BY <1>1, <1>2, <2>2, <2>3, BlankType, TypesAre DEF TokenizerTypeOK, TokenType
  <2>5. AtReturn'
    BY <1>1, <1>4, <2>2, <2>3, SMT DEF AtReturn, TokenIsItsText, DeliversTokens, RefusesNoToken,
       PassesWhatIsReadBack, Accepted, Astray
  <2> QED BY <1>3, <2>4, <2>5 DEF TokenizerInv
<1>5. CASE call = "validate_number"
  <2>1. token' = t /\ ch' = ch /\ next' = next /\ read' = read
    BY <1>5 DEF Deliver, cursor
  <2>2. TokenizerTypeOK'
    BY <1>1, <1>2, <2>1, BlankType, TypesAre DEF TokenizerTypeOK, TokenType
  <2>3. AtReturn'
    BY <1>1, <1>5, <2>1, SMT DEF AtReturn, TokenIsItsText, DeliversTokens, RefusesNoToken,
       PassesWhatIsReadBack, Accepted, Astray
  <2> QED BY <1>3, <2>2, <2>3 DEF TokenizerInv
<1> QED BY <1>4, <1>5 DEF NumberToken

----------------------------------------------------------------------------
(* Numbers.                                                                 *)

LEMMA NewNumber ==
  ASSUME TokenizerInv, pc \in {"token", "ready"}, read = Start \/ Astray(read),
         call' \in {"get_token", "validate_number"}, ch \in Digit \cup {"-"}, StartNumber, unit' = unit
  PROVE  TokenizerInv'
<1>1. TokenizerTypeOK /\ status = "NO_ERROR" /\ unit = NoUnit /\ ch \in EndOrChar /\ token = Blank
  BY TextFacts DEF TokenizerInv, AtLoop
<1>2. CASE ch = "-" /\ next \notin Digit
  <2>1. /\ pc' = "returned" /\ status' = "UNEXPECTED_SYMBOL" /\ token' = token
        /\ ch' = ch /\ next' = next /\ read' = read
    BY <1>2 DEF StartNumber, cursor
  <2>2. TokenizerTypeOK'
    BY <1>1, <2>1, TypesAre DEF TokenizerTypeOK
  <2>3. NoTokenHere'
    <3>1. Advance(read, ch) = "minus" \/ read = "wrong"
      BY <1>2, AdvanceBegins DEF Astray
    <3>2. Advance("minus", next) = "wrong"
      BY <1>2, AdvanceInNumber DEF Digit
    <3>3. ch # END
      BY <1>2 DEF END
    <3> QED BY <2>1, <3>1, <3>2, <3>3, SMT DEF NoTokenHere, Ahead, Hopeless, Unfinished, Number
  <2> QED BY <1>1, <2>1, <2>2, <2>3, ErrorReturned DEF TokenizerInv
<1>3. CASE ~(ch = "-" /\ next \notin Digit)
  <2>1. /\ pc' = "integer" /\ token' = NewToken("NUMBER", 1) /\ status' = status
        /\ ch' = ch /\ next' = next /\ read' = read
    BY <1>3 DEF StartNumber, cursor
  <2>2. /\ token' \in TokenType /\ token'.type = "NUMBER" /\ token'.length = 1
        /\ token'.first = ch /\ token'.begins = 0 /\ token'.gap = -1
    BY <1>1, <2>1, NewTokenFacts, SMT
  <2>3. TokenizerTypeOK'
    BY <1>1, <2>1, <2>2, TypesAre, SMT DEF TokenizerTypeOK, TokenType
  <2>4. NumberToken(token, -1)'
    BY <2>2, SMT DEF NumberToken
  <2>5. Whole(token', Advance(read, ch)) /\ (Advance(read, ch) = "minus" => next \in Digit)
    BY <1>1, <1>3, <2>2, AdvanceBegins, AdvanceEnded, SMT DEF Whole, Astray, Digit
  <2>6. AtInteger'
    BY <2>1, <2>4, <2>5 DEF AtInteger, Whole, Astray
  <2> QED BY <1>1, <2>1, <2>3, <2>6, NotReturned DEF TokenizerInv, AtLoop
<1> QED BY <1>2, <1>3

LEMMA IntegerStep ==
  ASSUME TokenizerInv, Integer
  PROVE  TokenizerInv'
<1>1. /\ TokenizerTypeOK /\ pc = "integer" /\ AtInteger /\ status = "NO_ERROR"
      /\ token \in TokenType
  BY TypesAre DEF TokenizerInv, AtLoop, Integer
<1>2. PICK s : s = Advance(read, ch)
  OBVIOUS
<1>3. token.gap = -1 /\ Whole(token, s) /\ (s = "minus" => next \in Digit)
  BY <1>1, <1>2 DEF AtInteger, NumberToken
<1>4. CASE next \in Digit \cup {".", "e"} /\ Turn("symbol", token)
  <2>1. /\ TokenizerTypeOK' /\ pc' = "symbol" /\ call' = call /\ status' = status /\ unit' = NoUnit
        /\ ch' = next /\ read' = s
        /\ token'.type = token.type /\ token'.length = token.length
        /\ token'.first = token.first /\ token'.begins = token.begins /\ token'.gap = 0
    BY <1>1, <1>2, <1>3, <1>4, TurnFacts, SMT DEF Loops
  <2>2. AtSymbol'
    BY <1>1, <1>3, <1>4, <2>1 DEF AtSymbol, AtInteger, NumberToken, Whole, Astray
  <2> QED BY <1>1, <2>1, <2>2, NotReturned DEF TokenizerInv, AtLoop
<1>5. CASE next \notin Digit \cup {".", "e"} /\ Deliver(token)
  <2>1. s \in {"zero", "integer"} \/ Astray(s)
    BY <1>3, <1>5 DEF Whole
  <2>2. Advance(s, next) = "wrong"
    BY <1>5, <2>1, AdvanceInNumber, AdvanceEnded DEF Astray
  <2> QED BY <1>1, <1>2, <1>5, <2>1, <2>2, NumberDelivered DEF AtInteger, Number
<1> QED BY <1>4, <1>5 DEF Integer

LEMMA SymbolStep ==
  ASSUME TokenizerInv, Symbol
  PROVE  TokenizerInv'
<1>1. /\ TokenizerTypeOK /\ pc = "symbol" /\ AtSymbol /\ status = "NO_ERROR" /\ unit = NoUnit
      /\ token \in TokenType /\ token.gap = 0 /\ token.length \in 1 .. 2
  BY TypesAre DEF TokenizerInv, AtLoop, Symbol, AtSymbol, NumberToken
<1>2. PICK t : t = Longer(token, 1)
  OBVIOUS
<1>3. /\ t \in TokenType /\ t.type = token.type /\ t.length = 2 /\ t.first = token.first
      /\ t.begins = token.begins /\ t.gap = -1
  BY <1>1, <1>2, LongerFacts, SMT
<1>4. PICK s : s = Advance(read, ch)
  OBVIOUS
<1>5. CASE ch = "." /\ Turn("fraction", t)
  <2>1. /\ TokenizerTypeOK' /\ pc' = "fraction" /\ call' = call /\ status' = status /\ unit' = NoUnit
        /\ read' = s /\ token'.type = t.type /\ token'.length = t.length
        /\ token'.begins = t.begins /\ token'.gap = 0
    BY <1>1, <1>3, <1>4, <1>5, TurnFacts, SMT DEF Loops
  <2>2. s = "dot" \/ Astray(s)
    BY <1>1, <1>4, <1>5, AdvanceInNumber, AdvanceEnded DEF AtSymbol, Whole, Astray, Digit
  <2>3. AtFraction'
    BY <1>1, <1>3, <2>1, <2>2, SMT DEF AtFraction, AtSymbol, NumberToken, Astray
  <2> QED BY <1>1, <2>1, <2>3, NotReturned DEF TokenizerInv, AtLoop
<1>6. CASE ch = "e" /\ Turn("exponent", t)
  <2>1. /\ TokenizerTypeOK' /\ pc' = "exponent" /\ call' = call /\ status' = status /\ unit' = NoUnit
        /\ read' = s /\ token'.type = t.type /\ token'.length = t.length
        /\ token'.begins = t.begins /\ token'.gap = 0
    BY <1>1, <1>3, <1>4, <1>6, TurnFacts, SMT DEF Loops
  <2>2. s = "e" \/ Astray(s)
    BY <1>1, <1>4, <1>6, AdvanceInNumber, AdvanceEnded DEF AtSymbol, Whole, Astray, Digit
  <2>3. AtExponent'
    BY <1>1, <1>3, <2>1, <2>2, SMT DEF AtExponent, AtSymbol, NumberToken, Astray
  <2> QED BY <1>1, <2>1, <2>3, NotReturned DEF TokenizerInv, AtLoop
<1>7. CASE ch \in Digit /\ LeadingZero /\ Refuse("INVALID_NUMBER")
  <2>1. read \in {"zero", "wrong"}
    BY <1>1, <1>7 DEF AtSymbol, Whole, LeadingZero, Astray
  <2>2. s = "wrong" /\ ch # END
    BY <1>4, <1>7, <2>1, AdvanceInNumber, AdvanceEnded DEF Digit, END
  <2>3. NoTokenHere
    BY <1>4, <2>2 DEF NoTokenHere, Ahead, Hopeless
  <2> QED BY <1>7, <2>3, RefuseStep DEF Errors
<1>8. CASE /\ ch \in Digit /\ ~LeadingZero
           /\ pc' = "integer" /\ token' = t
           /\ UNCHANGED <<call, cursor, unit, status>>
  <2>1. ch' = ch /\ next' = next /\ read' = read /\ call' = call /\ unit' = unit /\ status' = status
    BY <1>8 DEF cursor
  <2>2. TokenizerTypeOK'
    BY <1>1, <1>3, <1>8, <2>1, TypesAre DEF TokenizerTypeOK, TokenType
  <2>3. s \in {"zero", "integer"} \/ Astray(s)
    BY <1>1, <1>4, <1>8, AdvanceInNumber, AdvanceEnded
       DEF AtSymbol, Whole, LeadingZero, Astray, FullLax, Digit
  <2>4. s = "zero" => "minus_zero" \notin Lax
    BY <1>1, <1>4, <1>8, AdvanceInNumber, AdvanceEnded DEF AtSymbol, Whole, Astray, Digit
  <2>5. AtInteger'
    BY <1>1, <1>3, <1>4, <1>8, <2>1, <2>3, <2>4, SMT
       DEF AtInteger, AtSymbol, NumberToken, Whole, Astray
  <2> QED BY <1>1, <1>8, <2>1, <2>2, <2>5, NotReturned DEF TokenizerInv, AtLoop
<1> QED BY <1>2, <1>5, <1>6, <1>7, <1>8 DEF Symbol

LEMMA FractionStep ==
  ASSUME TokenizerInv, Fraction
  PROVE  TokenizerInv'
<1>1. /\ TokenizerTypeOK /\ pc = "fraction" /\ AtFraction /\ status = "NO_ERROR"
      /\ token \in TokenType /\ token.gap = 0 /\ token.length \in 1 .. 2
  BY TypesAre DEF TokenizerInv, AtLoop, Fraction, AtFraction, NumberToken
<1>2. PICK t : t = Longer(token, 1)
  OBVIOUS
<1>3. /\ t \in TokenType /\ t.type = token.type /\ t.length = 2 /\ t.first = token.first
      /\ t.begins = token.begins /\ t.gap = -1 /\ NumberToken(t, -1)
  BY <1>1, <1>2, LongerFacts, SMT DEF AtFraction, NumberToken
<1>4. PICK s : s = Advance(read, ch)
  OBVIOUS
<1>5. /\ ch \in Digit => s = "fraction" \/ Astray(s)
      /\ ch = "e" => s = "e" \/ Astray(s)
      /\ ch \notin Digit \cup {"e"} => s = "wrong"
  BY <1>1, <1>4, AdvanceInNumber, AdvanceEnded DEF AtFraction, Astray, Digit, FullLax
<1>6. CASE ch \in Digit /\ next \in Digit \cup {"e"} /\ Turn("fraction", t)
  <2>1. /\ TokenizerTypeOK' /\ pc' = "fraction" /\ call' = call /\ status' = status /\ unit' = NoUnit
        /\ read' = s /\ token'.type = t.type /\ token'.length = t.length
        /\ token'.begins = t.begins /\ token'.gap = 0
    BY <1>1, <1>3, <1>4, <1>6, TurnFacts, SMT DEF Loops
  <2>2. AtFraction'
    BY <1>1, <1>3, <1>5, <1>6, <2>1, SMT DEF AtFraction, NumberToken, Astray
  <2> QED BY <1>1, <2>1, <2>2, NotReturned DEF TokenizerInv, AtLoop
<1>7. CASE ch \in Digit /\ next \notin Digit \cup {"e"} /\ Deliver(t)
  <2>1. Advance(s, next) = "wrong"
    BY <1>5, <1>7, AdvanceInNumber, AdvanceEnded DEF Astray
  <2> QED BY <1>1, <1>3, <1>4, <1>5, <1>7, <2>1, NumberDelivered DEF Number
<1>8. CASE ch = "e" /\ Turn("exponent", t)
  <2>1. /\ TokenizerTypeOK' /\ pc' = "exponent" /\ call' = call /\ status' = status /\ unit' = NoUnit
        /\ read' = s /\ token'.type = t.type /\ token'.length = t.length
        /\ token'.begins = t.begins /\ token'.gap = 0
    BY <1>1, <1>3, <1>4, <1>8, TurnFacts, SMT DEF Loops
  <2>2. AtExponent'
    BY <1>1, <1>3, <1>5, <1>8, <2>1, SMT DEF AtExponent, AtFraction, NumberToken, Astray
  <2> QED BY <1>1, <2>1, <2>2, NotReturned DEF TokenizerInv, AtLoop
<1>9. CASE ch \notin Digit \cup {"e"} /\ Refuse("UNEXPECTED_SYMBOL")
  <2>1. call # "validate_string"
    BY <1>1 DEF AtFraction, NumberToken
  <2>2. NoTokenHere
    BY <1>4, <1>5, <1>9, <2>1 DEF NoTokenHere, Ahead, Hopeless
  <2> QED BY <1>9, <2>2, RefuseStep DEF Errors
<1> QED BY <1>2, <1>6, <1>7, <1>8, <1>9 DEF Fraction

LEMMA ExponentStep ==
  ASSUME TokenizerInv, Exponent
  PROVE  TokenizerInv'
<1>1. /\ TokenizerTypeOK /\ pc = "exponent" /\ AtExponent /\ status = "NO_ERROR"
      /\ token \in TokenType /\ token.gap = 0 /\ token.length \in 1 .. 2 /\ call # "validate_string"
  BY TypesAre DEF TokenizerInv, AtLoop, Exponent, AtExponent, NumberToken
<1>2. PICK t : t = Longer(token, 1)
  OBVIOUS
<1>3. /\ t \in TokenType /\ t.type = token.type /\ t.length = 2 /\ t.first = token.first
      /\ t.begins = token.begins /\ t.gap = -1 /\ NumberToken(t, -1)
  BY <1>1, <1>2, LongerFacts, SMT DEF AtExponent, NumberToken
<1>4. PICK s : s = Advance(read, ch)
  OBVIOUS
<1>5. /\ ch \in Digit => s = "exponent" \/ Astray(s)
      /\ ch \in {"+", "-"} => s = "sign" \/ Astray(s)
      /\ ch \notin Digit \cup {"+", "-"} => s = "wrong"
  BY <1>1, <1>4, AdvanceInNumber, AdvanceEnded DEF AtExponent, Astray, Digit
<1>6. CASE ch \in Digit \cup {"+", "-"} /\ next \in Digit /\ Turn("exponent", t)
  <2>1. /\ TokenizerTypeOK' /\ pc' = "exponent" /\ call' = call /\ status' = status /\ unit' = NoUnit
        /\ ch' = next /\ read' = s /\ token'.type = t.type /\ token'.length = t.length
        /\ token'.begins = t.begins /\ token'.gap = 0
    BY <1>1, <1>3, <1>4, <1>6, TurnFacts, SMT DEF Loops
  <2>2. AtExponent'
    BY <1>1, <1>3, <1>5, <1>6, <2>1, SMT DEF AtExponent, NumberToken, Astray
  <2> QED BY <1>1, <2>1, <2>2, NotReturned DEF TokenizerInv, AtLoop
<1>7. CASE ch \in Digit /\ next \notin Digit /\ Deliver(t)
  <2>1. Advance(s, next) = "wrong"
    BY <1>5, <1>7, AdvanceInNumber, AdvanceEnded DEF Astray
  <2> QED BY <1>1, <1>3, <1>4, <1>5, <1>7, <2>1, NumberDelivered DEF Number
<1>8. CASE ch \in {"+", "-"} /\ next \notin Digit /\ Refuse("INVALID_NUMBER")
  <2>1. Advance("sign", next) = "wrong"
    BY <1>8, AdvanceInNumber
  <2>2. NoTokenHere
    BY <1>1, <1>4, <1>5, <1>8, <2>1, SMT DEF NoTokenHere, Ahead, Hopeless, Unfinished, Number, Astray
  <2> QED BY <1>8, <2>2, RefuseStep DEF Errors
<1>9. CASE ch \notin Digit \cup {"+", "-"} /\ Refuse("INVALID_NUMBER")
  <2>1. NoTokenHere
    BY <1>1, <1>4, <1>5, <1>9 DEF NoTokenHere, Ahead, Hopeless
  <2> QED BY <1>9, <2>1, RefuseStep DEF Errors
<1> QED BY <1>2, <1>6, <1>7, <1>8, <1>9 DEF Exponent

----------------------------------------------------------------------------
(* Strings.                                                                 *)

LEMMA PlacedFacts ==
  ASSUME TokenizerTypeOK, AtString
  PROVE  /\ Placed \in TokenType /\ StringToken(Placed, 0) /\ Placed.gap = 0
         /\ Placed.type = "STRING" /\ Placed.begins = 1
<1>1. token \in TokenType /\ call = "get_token"
  BY TypesAre DEF AtString
<1>2. CASE EmptyString(token)
  <2>1. PICK p : p = [token EXCEPT !.begins = 1, !.gap = 0]
    OBVIOUS
  <2>2. Placed = p
    BY <1>2, <2>1 DEF Placed, EmptyString
  <2>3. PICK q : q = [token EXCEPT !.begins = 1]
    OBVIOUS
  <2>4. q \in TokenType
    BY <1>1, <2>3, SMT DEF TokenType
  <2>5. p = [q EXCEPT !.gap = 0]
    BY <2>1, <2>3
  <2>6. p \in TokenType
    BY <2>4, <2>5, 0 \in -1 .. 1, GapSet
  <2>7. p.type = "STRING" /\ p.begins = 1 /\ p.gap = 0
    BY <1>1, <1>2, <2>1, SMT DEF TokenType, EmptyString
  <2> QED BY <1>1, <2>2, <2>6, <2>7 DEF StringToken
<1>3. CASE StringToken(token, 0) /\ token.length # 0
  BY <1>1, <1>3 DEF Placed, StringToken
<1> QED BY <1>2, <1>3 DEF AtString

(* One character more of a string.                                          *)
LEMMA LongerString ==
  ASSUME TokenizerTypeOK, NEW t \in TokenType, StringToken(t, 0), NEW loop \in Loops,
         Turn(loop, Longer(t, 1))
  PROVE  /\ TokenizerTypeOK' /\ pc' = loop /\ call' = call /\ status' = status /\ unit' = NoUnit
         /\ ch' = next /\ read' = Advance(read, ch) /\ (ch = END => ch' = END)
         /\ StringToken(token, 0)' /\ token'.length # 0
<1>1. t.gap = 0 /\ t.type = "STRING" /\ t.length \in 0 .. 2
  BY SMT DEF StringToken, TokenType
<1>2. PICK u : u = Longer(t, 1)
  OBVIOUS
<1>3. /\ u \in TokenType /\ u.type = "STRING" /\ u.length # 0 /\ u.begins = t.begins /\ u.gap = -1
  BY <1>1, <1>2, LongerFacts, SMT
<1>4. Turn(loop, u)
  BY <1>2
<1>5. /\ TokenizerTypeOK' /\ pc' = loop /\ call' = call /\ status' = status /\ unit' = NoUnit
      /\ ch' = next /\ read' = Advance(read, ch) /\ (ch = END => next = END)
      /\ token'.type = u.type /\ token'.length = u.length
      /\ token'.begins = u.begins /\ token'.gap = u.gap + 1
  BY <1>3, <1>4, TurnFacts, SMT
<1>6. StringToken(token, 0)'
  BY <1>3, <1>5, SMT DEF StringToken
<1> QED BY <1>3, <1>5, <1>6, SMT

LEMMA StringStep ==
  ASSUME TokenizerInv, String
  PROVE  TokenizerInv'
<1>1. TokenizerTypeOK /\ pc = "string" /\ AtString /\ status = "NO_ERROR" /\ call = "get_token"
  BY DEF TokenizerInv, AtLoop, String, AtString
<1>2. PICK p \in TokenType : p = Placed /\ StringToken(p, 0) /\ p.gap = 0 /\ p.type = "STRING" /\ p.begins = 1
  BY <1>1, PlacedFacts
<1>3. PICK s : s = Advance(read, ch)
  OBVIOUS
<1>4. read = "string" \/ (read = "wrong" /\ ~FullLax) \/ (read = "behind" /\ ch = END)
  BY <1>1 DEF AtString, Astray, Behind
<1>5. CASE IsNul(ch) /\ Refuse("UNEXPECTED_EOF")
  <2>1. s = "wrong" \/ read = "behind"
    BY <1>3, <1>4, <1>5, AdvanceInString, AdvanceEnded DEF IsNul
  <2>2. NoTokenHere
    BY <1>1, <1>3, <2>1 DEF NoTokenHere, Ahead, Hopeless
  <2> QED BY <1>5, <2>2, RefuseStep DEF Errors
<1>6. CASE ch \in Unprintable /\ Refuse("UNEXPECTED_SYMBOL")
  <2>1. s = "wrong" \/ read = "behind"
    BY <1>3, <1>4, <1>6, AdvanceInString, AdvanceEnded DEF Unprintable
  <2>2. NoTokenHere
    BY <1>1, <1>3, <2>1 DEF NoTokenHere, Ahead, Hopeless
  <2> QED BY <1>6, <2>2, RefuseStep DEF Errors
<1>7. CASE ch = "quote" /\ Deliver(p)
  <2>1. /\ pc' = "returned" /\ unit' = NoUnit /\ call' = call /\ status' = "NO_ERROR"
        /\ Advanced /\ token' = [p EXCEPT !.gap = @ + 1]
    BY <1>1, <1>7 DEF Deliver
  <2>2. <<ch', next'>> \in Text /\ ch' = next /\ read' = s
    BY <1>1, <1>3, <2>1, NextCharacter
  <2>3. s = "closed" \/ Astray(s)
    BY <1>3, <1>4, <1>7, AdvanceInString, AdvanceEnded DEF Astray, END
  <2>4. token' \in TokenType /\ token'.type = "STRING" /\ token'.begins = 1 /\ token'.gap = 1
    BY <1>2, <2>1, SMT DEF TokenType
  <2>5. TokenizerTypeOK'
    BY <1>1, <2>1, <2>2, <2>4, BlankType, TypesAre DEF TokenizerTypeOK, TokenType
  <2>6. AtLoop'
    BY <2>1 DEF AtLoop
  <2>7. AtReturn'
    BY <1>1, <2>1, <2>2, <2>3, <2>4 DEF AtReturn, TokenIsItsText, DeliversTokens, RefusesNoToken,
       PassesWhatIsReadBack, Accepted, Astray
  <2> QED BY <2>5, <2>6, <2>7 DEF TokenizerInv
<1>8. CASE ch = "backslash" /\ Turn("escape", Longer(p, 1))
  <2>1. /\ TokenizerTypeOK' /\ pc' = "escape" /\ call' = call /\ status' = status /\ unit' = NoUnit
        /\ read' = s /\ StringToken(token, 0)' /\ token'.length # 0
    BY <1>1, <1>2, <1>3, <1>8, LongerString DEF Loops
  <2>2. s = "escape" \/ Astray(s)
    BY <1>3, <1>4, <1>8, AdvanceInString, AdvanceEnded DEF Astray, END
  <2>3. AtEscape'
    BY <1>1, <2>1, <2>2 DEF AtEscape, Astray
  <2> QED BY <1>1, <2>1, <2>3, NotReturned DEF TokenizerInv, AtLoop
<1>9. CASE /\ ~IsNul(ch) /\ ch \notin Unprintable \cup {"quote", "backslash"}
           /\ Turn("string", Longer(p, 1))
  <2>1. /\ TokenizerTypeOK' /\ pc' = "string" /\ call' = call /\ status' = status /\ unit' = NoUnit
        /\ read' = s /\ StringToken(token, 0)' /\ token'.length # 0
    BY <1>1, <1>2, <1>3, <1>9, LongerString DEF Loops
  <2>2. s = "string" \/ Astray(s)
    BY <1>3, <1>4, <1>9, AdvanceInString, AdvanceEnded DEF Astray, IsNul, Unprintable
  <2>3. AtString'
    BY <1>1, <2>1, <2>2 DEF AtString, Astray
  <2> QED BY <1>1, <2>1, <2>3, NotReturned DEF TokenizerInv, AtLoop
<1> QED BY <1>2, <1>5, <1>6, <1>7, <1>8, <1>9 DEF String

LEMMA EscapeStep ==
  ASSUME TokenizerInv, Escape
  PROVE  TokenizerInv'
<1>1. /\ TokenizerTypeOK /\ pc = "escape" /\ AtEscape /\ status = "NO_ERROR" /\ call = "get_token"
      /\ token \in TokenType /\ StringToken(token, 0)
  BY TypesAre DEF TokenizerInv, AtLoop, Escape, AtEscape
<1>2. PICK s : s = Advance(read, ch)
  OBVIOUS
<1>3. CASE ch \in ShortEscape /\ Turn("string", Longer(token, 1))
  <2>1. /\ TokenizerTypeOK' /\ pc' = "string" /\ call' = call /\ status' = status /\ unit' = NoUnit
        /\ read' = s /\ StringToken(token, 0)' /\ token'.length # 0
    BY <1>1, <1>2, <1>3, LongerString DEF Loops
  <2>2. s = "string" \/ Astray(s)
    BY <1>1, <1>2, <1>3, AdvanceInString, AdvanceEnded DEF AtEscape, Astray
  <2>3. AtString'
    BY <1>1, <2>1, <2>2 DEF AtString, Astray
  <2> QED BY <1>1, <2>1, <2>3, NotReturned DEF TokenizerInv, AtLoop
<1>4. CASE ch = "u" /\ Turn("unicode", Longer(token, 1))
  <2>1. /\ TokenizerTypeOK' /\ pc' = "unicode" /\ call' = call /\ status' = status /\ unit' = NoUnit
        /\ read' = s /\ StringToken(token, 0)' /\ token'.length # 0
    BY <1>1, <1>2, <1>4, LongerString DEF Loops
  <2>2. s = "u" \/ Astray(s)
    BY <1>1, <1>2, <1>4, AdvanceInString, AdvanceEnded DEF AtEscape, Astray, ShortEscape
  <2>3. AtUnicode'
    BY <2>1, <2>2 DEF AtUnicode, Astray, FullLax, InStep, NoUnit
  <2> QED BY <1>1, <2>1, <2>3, NotReturned DEF TokenizerInv, AtLoop
<1>5. CASE ch \notin ShortEscape \cup {"u"} /\ Refuse("INVALID_ESCAPED_SYMBOL")
  <2>1. s = "wrong"
    BY <1>1, <1>2, <1>5, AdvanceInString, AdvanceEnded DEF AtEscape, Astray
  <2>2. NoTokenHere
    BY <1>1, <1>2, <2>1 DEF NoTokenHere, Ahead, Hopeless
  <2> QED BY <1>5, <2>2, RefuseStep DEF Errors
<1> QED BY <1>3, <1>4, <1>5 DEF Escape

(* What the code knows of the code unit behind one more character, and the  *)
(* state of the recogniser there.                                           *)
LEMMA FirstUnitFacts ==
  ASSUME NEW u, NEW c
  PROVE  /\ u.value = "bad" \/ c \notin Hex => FirstUnit(u, c) = "bad"
         /\ u.value = "none" /\ c \in Hex => FirstUnit(u, c) = IF c = "d" THEN "d" ELSE "plain"
         /\ u.value = "d" /\ c \in Hex =>
              FirstUnit(u, c) = IF c \in {"0", "1"} THEN "plain" ELSE "half"
         /\ u.value \in {"plain", "half"} /\ c \in Hex => FirstUnit(u, c) = u.value
  BY SMT DEF FirstUnit

LEMMA NextUnit ==
  ASSUME NEW u, NEW r, InStep(u.n, u.value, r), NEW c, NEW k, k = WithChar(u, c), c # END
  PROVE  /\ (k.n < 10 /\ (k.n # 4 \/ k.value = "half")) =>
              \/ InStep(k.n, k.value, Advance(r, c))
              \/ Advance(r, c) = "wrong" /\ (k.value = "bad" \/ ~FullLax)
         /\ (k.n = 10 \/ (k.n = 4 /\ k.value # "half")) =>
              Advance(r, c) = IF k.value = "bad" THEN "wrong" ELSE "string"
<1>1. PICK n, v : n = u.n /\ v = u.value
  OBVIOUS
<1>2. PICK s : s = Advance(r, c)
  OBVIOUS
<1>3. PICK f : f = FirstUnit(u, c)
  OBVIOUS
<1>4. PICK w : w = k.value
  OBVIOUS
<1>5. InStep(n, v, r) /\ k.n = n + 1 /\ n \in 0 .. 9
  BY <1>1, SMT DEF WithChar, InStep
<1>6. w = IF n < 4 THEN f ELSE IF v = "half" /\ c \in SecondUnit[n - 3] THEN "half" ELSE "bad"
  BY <1>1, <1>3, <1>4, SMT DEF WithChar
<1>7. /\ c \notin Hex => f = "bad"
      /\ v = "none" /\ c \in Hex => f = IF c = "d" THEN "d" ELSE "plain"
      /\ v = "d" /\ c \in Hex => f = IF c \in {"0", "1"} THEN "plain" ELSE "half"
      /\ v \in {"plain", "half"} /\ c \in Hex => f = v
  BY <1>1, <1>3, FirstUnitFacts
<1>8. SUFFICES /\ (n < 9 /\ (n # 3 \/ w = "half")) =>
                    InStep(n + 1, w, s) \/ (s = "wrong" /\ (w = "bad" \/ ~FullLax))
               /\ (n = 9 \/ (n = 3 /\ w # "half")) => s = IF w = "bad" THEN "wrong" ELSE "string"
  BY <1>2, <1>4, <1>5, SMT
<1>9. CASE n = 0
  <2>1. v = "none" /\ r = "u" /\ w = f
    BY <1>5, <1>6, <1>9, SMT DEF InStep
  <2>2. /\ c \notin Hex => w = "bad" /\ s = "wrong"
        /\ c \in Hex => (w = "d" /\ s = "d1") \/ (w = "plain" /\ s = "u1")
    BY <1>2, <1>7, <2>1, AdvanceInUnicode
  <2> QED BY <1>9, <2>2, SMT DEF InStep
<1>10. CASE n = 1 /\ v = "plain"
  <2>1. r = "u1" /\ w = f
    BY <1>5, <1>6, <1>10, SMT DEF InStep
  <2>2. /\ c \notin Hex => w = "bad" /\ s = "wrong"
        /\ c \in Hex => w = "plain" /\ s = "u2"
    BY <1>2, <1>7, <1>10, <2>1, AdvanceInUnicode
  <2> QED BY <1>10, <2>2, SMT DEF InStep
<1>11. CASE n = 1 /\ v = "d"
  <2>1. r = "d1" /\ w = f
    BY <1>5, <1>6, <1>11, SMT DEF InStep
  <2>2. c \in Hex => c \in {"0", "1"} \/ c \in HighSurrogate \/ c \in LowSurrogate
    BY DEF Hex, Digit, HighSurrogate, LowSurrogate
  <2>3. c \in HighSurrogate \cup LowSurrogate => c \in Hex /\ c \notin {"0", "1"}
    BY DEF Hex, Digit, HighSurrogate, LowSurrogate
  <2>4. c \in {"0", "1"} => c \in Hex
    BY DEF Hex, Digit
  <2>5. /\ c \notin Hex => w = "bad" /\ s = "wrong"
        /\ c \in {"0", "1"} => w = "plain" /\ s = "u2"
        /\ c \in HighSurrogate \cup LowSurrogate => w = "half" /\ (s = "high2" \/ Astray(s))
    BY <1>2, <1>7, <1>11, <2>1, <2>3, <2>4, AdvanceInUnicode
  <2> QED BY <1>11, <2>2, <2>5, SMT DEF InStep, Astray
<1>12. CASE n \in {2, 3}
  <2>1. /\ v \in {"plain", "half"} /\ w = f
        /\ r = IF v = "plain" THEN IF n = 2 THEN "u2" ELSE "u3"
               ELSE IF n = 2 THEN "high2" ELSE "high3"
    BY <1>5, <1>6, <1>12, SMT DEF InStep
  <2>2. /\ c \notin Hex => w = "bad" /\ s = "wrong"
        /\ c \in Hex => w = v /\ s = IF v = "plain" THEN IF n = 2 THEN "u3" ELSE "string"
                                    ELSE IF n = 2 THEN "high3" ELSE "pair"
    BY <1>2, <1>7, <2>1, AdvanceInUnicode
  <2> QED BY <1>12, <2>1, <2>2, SMT DEF InStep
<1>13. CASE n \in 4 .. 9
  <2>1. v = "half"
    BY <1>5, <1>13, SMT DEF InStep
  <2>2. w = IF c \in SecondUnit[n - 3] THEN "half" ELSE "bad"
    BY <1>6, <1>13, <2>1, SMT
  <2>3. /\ SecondUnit[1] = {"backslash"} /\ SecondUnit[2] = {"u"} /\ SecondUnit[3] = {"d"}
        /\ SecondUnit[4] = LowSurrogate /\ SecondUnit[5] = Hex /\ SecondUnit[6] = Hex
    BY SMT DEF SecondUnit
  <2>4. c \in SecondUnit[n - 3] => IF n = 9 THEN s = "string" ELSE InStep(n + 1, "half", s)
    BY <1>2, <1>5, <1>13, <2>3, AdvanceInUnicode, SMT DEF InStep
  <2>5. c \notin SecondUnit[n - 3] => s = "wrong"
    BY <1>2, <1>5, <1>13, <2>3, AdvanceInUnicode, SMT DEF InStep
  <2> QED BY <1>13, <2>2, <2>4, <2>5, SMT
<1> QED BY <1>5, <1>9, <1>10, <1>11, <1>12, <1>13, SMT DEF InStep

LEMMA BadStays ==
  ASSUME NEW c, unit.value = "bad"
  PROVE  WithChar(unit, c).value = "bad"
  BY SMT DEF WithChar, FirstUnit

LEMMA UnitType ==
  ASSUME unit \in [n : 0 .. 9, value : {"none", "plain", "d", "half", "bad"}], NEW c,
         ~Complete(WithChar(unit, c))
  PROVE  WithChar(unit, c) \in [n : 0 .. 9, value : {"none", "plain", "d", "half", "bad"}]
<1>1. FirstUnit(unit, c) \in {"none", "plain", "d", "half", "bad"}
  BY SMT DEF FirstUnit
<1> QED BY <1>1, SMT DEF WithChar, Complete

(* Behind the end of the text the conversion reads characters of any kind.  *)
LEMMA UnicodeStep ==
  ASSUME TokenizerInv, Unicode
  PROVE  TokenizerInv'
<1>1. /\ TokenizerTypeOK /\ pc = "unicode" /\ AtUnicode /\ status = "NO_ERROR"
      /\ token \in TokenType /\ StringToken(token, 0)
      /\ unit \in [n : 0 .. 9, value : {"none", "plain", "d", "half", "bad"}]
  BY TypesAre DEF TokenizerInv, AtLoop, Unicode, AtUnicode
<1>2. PICK s : s = Advance(read, ch)
  OBVIOUS
<1>3. read # "string" /\ call \in {"get_token", "validate_string"}
  BY <1>1 DEF AtUnicode, Behind, InStep, StringToken
<1>4. \/ read = "wrong" /\ (unit.value = "bad" \/ ~FullLax)
      \/ read = "behind" /\ ch = END
      \/ InStep(unit.n, unit.value, read)
  BY <1>1 DEF AtUnicode, Behind
<1>5. ch = END => s = "behind" \/ (read = "wrong" /\ s = "wrong")
  <2>1. InStep(unit.n, unit.value, read) => read \in UnicodePart
    BY DEF InStep, UnicodePart
  <2> QED BY <1>2, <1>4, <2>1, AdvanceInUnicode, AdvanceEnded
<1>6. CASE ch \in Unprintable \cup {"quote"} /\ Refuse("UNEXPECTED_SYMBOL")
  <2>1. ch # END /\ ch \notin Hex \cup {"backslash", "u", "d"} \cup LowSurrogate
    BY <1>6 DEF Unprintable, END, Hex, Digit, LowSurrogate
  <2>2. InStep(unit.n, unit.value, read) => s = "wrong"
    BY <1>2, <2>1, AdvanceInUnicode DEF InStep
  <2>3. NoTokenHere
    BY <1>2, <1>3, <1>4, <2>2 DEF NoTokenHere, Ahead, Hopeless
  <2> QED BY <1>6, <2>3, RefuseStep DEF Errors
<1>7. ASSUME NEW c \in IF ch = END THEN Char ELSE {ch}, NEW u, u = WithChar(unit, c),
             ~Complete(u), ReadOn(u)
      PROVE  TokenizerInv'
  <2>1. /\ Advanced /\ unit' = u /\ token' = [Longer(token, 1) EXCEPT !.gap = @ + 1]
        /\ call' = call /\ pc' = pc /\ status' = status
    BY <1>7 DEF ReadOn
  <2>3. PICK t : t = Longer(token, 1)
    OBVIOUS
  <2>4. /\ t \in TokenType /\ t.type = "STRING" /\ t.length # 0 /\ t.begins = token.begins /\ t.gap = -1
    <3>1. token.gap = 0 /\ token.type = "STRING" /\ token.length \in 0 .. 2
      BY <1>1, SMT DEF StringToken, TokenType
    <3> QED BY <1>1, <2>3, <3>1, LongerFacts, SMT
  <2>5. token' = [t EXCEPT !.gap = @ + 1]
    BY <2>1, <2>3
  <2>6. /\ token' \in TokenType /\ token'.type = "STRING" /\ token'.length # 0
        /\ token'.begins = token.begins /\ token'.gap = 0
    BY <2>4, <2>5, SMT DEF TokenType
  <2>7. <<ch', next'>> \in Text /\ ch' = next /\ read' = s /\ (ch = END => ch' = END)
    BY <1>1, <1>2, <2>1, NextCharacter
  <2>8. unit' \in [n : 0 .. 9, value : {"none", "plain", "d", "half", "bad"}]
    BY <1>1, <1>7, <2>1, UnitType
  <2>9. TokenizerTypeOK'
    BY <1>1, <2>1, <2>6, <2>7, <2>8 DEF TokenizerTypeOK, TokenType
  <2>10. StringToken(token, 0)'
    BY <1>1, <2>1, <2>6 DEF StringToken
  <2>11. \/ s = "wrong" /\ (u.value = "bad" \/ ~FullLax)
         \/ s = "behind" /\ ch' = END
         \/ InStep(u.n, u.value, s)
    <3>1. read = "wrong" => s = "wrong" /\ (u.value = "bad" \/ ~FullLax)
      <4>1. unit.value = "bad" => u.value = "bad"
        BY <1>7, BadStays
      <4>2. read = "wrong" => ~InStep(unit.n, unit.value, read)
        BY DEF InStep
      <4> QED BY <1>2, <1>4, <4>1, <4>2, AdvanceEnded
    <3>2. CASE ch = END
      BY <1>5, <2>7, <3>1, <3>2
    <3>3. CASE ch # END /\ InStep(unit.n, unit.value, read)
      <4>1. c = ch
        BY <3>3
      <4>2. u.n < 10 /\ (u.n # 4 \/ u.value = "half")
        BY <1>1, <1>7, SMT DEF WithChar, Complete
      <4> QED BY <1>2, <1>7, <3>3, <4>1, <4>2, NextUnit
    <3> QED BY <1>4, <3>1, <3>2, <3>3
  <2>12. AtUnicode'
    BY <2>1, <2>6, <2>7, <2>10, <2>11 DEF AtUnicode, Behind, FullLax
  <2> QED BY <1>1, <2>1, <2>9, <2>12, NotReturned DEF TokenizerInv, AtLoop
<1>8. ASSUME NEW c \in IF ch = END THEN Char ELSE {ch}, NEW u, u = WithChar(unit, c),
             Complete(u)
      PROVE  /\ u.value # "bad" => s = "string" \/ (s = "wrong" /\ ~FullLax) \/ (s = "behind" /\ ch = END)
             /\ u.value = "bad" => read \in {"wrong", "behind"} \/ s \in {"wrong", "behind"}
  <2>1. u.n = 10 \/ (u.n = 4 /\ u.value # "half")
    BY <1>8 DEF Complete
  <2>2. CASE ch = END
    <3>1. unit.value = "bad" => u.value = "bad"
      BY <1>8, BadStays
    <3>2. read = "wrong" => ~InStep(unit.n, unit.value, read)
      BY DEF InStep
    <3> QED BY <1>4, <1>5, <2>2, <3>1, <3>2 DEF END
  <2>3. CASE ch # END /\ read = "wrong"
    <3>1. unit.value = "bad" => u.value = "bad"
      BY <1>8, BadStays
    <3>2. read = "wrong" => ~InStep(unit.n, unit.value, read)
      BY DEF InStep
    <3> QED BY <1>2, <1>4, <2>3, <3>1, <3>2, AdvanceEnded
  <2>4. CASE ch # END /\ InStep(unit.n, unit.value, read)
    <3>1. c = ch
      BY <2>4
    <3> QED BY <1>2, <1>8, <2>1, <2>4, <3>1, NextUnit
  <2> QED BY <1>4, <2>2, <2>3, <2>4
<1>9. ASSUME NEW c \in IF ch = END THEN Char ELSE {ch}, NEW u, u = WithChar(unit, c),
             Complete(u), u.value # "bad", NEW loop, loop = (IF call = "get_token" THEN "string" ELSE "check"),
             Turn(loop, Longer(token, 1))
      PROVE  TokenizerInv'
  <2>1. /\ TokenizerTypeOK' /\ pc' = loop /\ call' = call /\ status' = status /\ unit' = NoUnit
        /\ read' = s /\ (ch = END => ch' = END) /\ StringToken(token, 0)' /\ token'.length # 0
    BY <1>1, <1>2, <1>9, LongerString DEF Loops
  <2>2. s = "string" \/ Astray(s) \/ (s = "behind" /\ ch = END)
    BY <1>8, <1>9 DEF Astray
  <2>3. call = "get_token" => AtString'
    BY <2>1, <2>2 DEF AtString, Astray, Behind, FullLax
  <2>4. call = "validate_string" => AtCheck'
    BY <2>1, <2>2 DEF AtCheck, Astray, Behind, FullLax
  <2> QED BY <1>1, <1>3, <1>9, <2>1, <2>3, <2>4, NotReturned DEF TokenizerInv, AtLoop
<1>10. ASSUME NEW c \in IF ch = END THEN Char ELSE {ch}, NEW u, u = WithChar(unit, c),
              Complete(u), u.value = "bad", Refuse("INVALID_UNICODE")
       PROVE  TokenizerInv'
  <2>1. NoTokenHere
    BY <1>2, <1>3, <1>8, <1>10 DEF NoTokenHere, Ahead, Hopeless
  <2> QED BY <1>10, <2>1, RefuseStep DEF Errors
<1> QED BY <1>6, <1>7, <1>9, <1>10 DEF Unicode

LEMMA CheckStep ==
  ASSUME TokenizerInv, Check
  PROVE  TokenizerInv'
<1>1. /\ TokenizerTypeOK /\ pc = "check" /\ AtCheck /\ status = "NO_ERROR" /\ call = "validate_string"
      /\ token \in TokenType /\ StringToken(token, 0) /\ unit = NoUnit
  BY TypesAre DEF TokenizerInv, AtLoop, Check, AtCheck
<1>2. PICK s : s = Advance(read, ch)
  OBVIOUS
<1>3. read = "string" \/ (read = "wrong" /\ ~FullLax) \/ (read = "behind" /\ ch = END)
  BY <1>1 DEF AtCheck, Astray, Behind
<1>4. CASE ch = END /\ Deliver(token)
  <2>1. /\ pc' = "returned" /\ unit' = NoUnit /\ call' = call /\ status' = status /\ token' = token
        /\ ch' = ch /\ next' = next /\ read' = read
    BY <1>1, <1>4 DEF Deliver, cursor
  <2>2. TokenizerTypeOK'
    BY <1>1, <2>1, TypesAre DEF TokenizerTypeOK
  <2>3. AtReturn'
    BY <1>1, <1>3, <1>4, <2>1 DEF AtReturn, TokenIsItsText, DeliversTokens, RefusesNoToken,
       PassesWhatIsReadBack, Accepted
  <2>4. AtLoop'
    BY <2>1 DEF AtLoop
  <2> QED BY <2>2, <2>3, <2>4 DEF TokenizerInv
<1>5. CASE ch = "nul" /\ Refuse("UNEXPECTED_EOF")
  <2>1. s = "wrong"
    BY <1>2, <1>3, <1>5, AdvanceInString, AdvanceEnded DEF END
  <2>2. NoTokenHere
    BY <1>2, <1>5, <2>1 DEF NoTokenHere, Ahead, Hopeless, END
  <2> QED BY <1>5, <2>2, RefuseStep DEF Errors
<1>6. CASE ch = "backslash" /\ Turn("check_escape", Longer(token, 1))
  <2>1. /\ TokenizerTypeOK' /\ pc' = "check_escape" /\ call' = call /\ status' = status /\ unit' = NoUnit
        /\ read' = s /\ StringToken(token, 0)'
    BY <1>1, <1>2, <1>6, LongerString DEF Loops
  <2>2. s = "escape" \/ Astray(s)
    BY <1>2, <1>3, <1>6, AdvanceInString, AdvanceEnded DEF Astray, END
  <2>3. AtCheckEscape'
    BY <1>1, <2>1, <2>2 DEF AtCheckEscape, Astray
  <2> QED BY <1>1, <2>1, <2>3, NotReturned DEF TokenizerInv, AtLoop
<1>7. CASE ch \in Unprintable \cup {"quote"} /\ Refuse("UNEXPECTED_SYMBOL")
  <2>1. s \in {"wrong", "closed"} /\ ch # END
    BY <1>2, <1>3, <1>7, AdvanceInString, AdvanceEnded DEF Unprintable, END
  <2>2. NoTokenHere
    BY <1>1, <1>2, <2>1 DEF NoTokenHere, Ahead, Hopeless
  <2> QED BY <1>7, <2>2, RefuseStep DEF Errors
<1>8. CASE /\ ch \notin Unprintable \cup {"quote", "backslash", "nul", END}
           /\ Turn("check", Longer(token, 1))
  <2>1. /\ TokenizerTypeOK' /\ pc' = "check" /\ call' = call /\ status' = status /\ unit' = NoUnit
        /\ read' = s /\ StringToken(token, 0)'
    BY <1>1, <1>2, <1>8, LongerString DEF Loops
  <2>2. s = "string" \/ Astray(s)
    BY <1>2, <1>3, <1>8, AdvanceInString, AdvanceEnded DEF Astray, Unprintable
  <2>3. AtCheck'
    BY <1>1, <2>1, <2>2 DEF AtCheck, Astray
  <2> QED BY <1>1, <2>1, <2>3, NotReturned DEF TokenizerInv, AtLoop
<1> QED BY <1>4, <1>5, <1>6, <1>7, <1>8 DEF Check

LEMMA CheckEscapeStep ==
  ASSUME TokenizerInv, CheckEscape
  PROVE  TokenizerInv'
<1>1. /\ TokenizerTypeOK /\ pc = "check_escape" /\ AtCheckEscape /\ status = "NO_ERROR"
      /\ call = "validate_string" /\ token \in TokenType /\ StringToken(token, 0)
  BY TypesAre DEF TokenizerInv, AtLoop, CheckEscape, AtCheckEscape
<1>2. PICK s : s = Advance(read, ch)
  OBVIOUS
<1>3. CASE ch = "u" /\ Turn("unicode", Longer(token, 1))
  <2>1. /\ TokenizerTypeOK' /\ pc' = "unicode" /\ call' = call /\ status' = status /\ unit' = NoUnit
        /\ read' = s /\ StringToken(token, 0)' /\ token'.length # 0
    BY <1>1, <1>2, <1>3, LongerString DEF Loops
  <2>2. s = "u" \/ Astray(s)
    BY <1>1, <1>2, <1>3, AdvanceInString, AdvanceEnded DEF AtCheckEscape, Astray, ShortEscape
  <2>3. AtUnicode'
    BY <2>1, <2>2 DEF AtUnicode, Astray, FullLax, InStep, NoUnit
  <2> QED BY <1>1, <2>1, <2>3, NotReturned DEF TokenizerInv, AtLoop
<1>4. CASE ch # "u" /\ Refuse("UNEXPECTED_SYMBOL")
  <2>1. read = "escape" \/ read = "wrong"
    BY <1>1 DEF AtCheckEscape, Astray
  <2>2. {"empty_value", "short_escape"} \subseteq Known => NoTokenHere
    BY <1>1, <2>1 DEF NoTokenHere, Hopeless
  <2> QED BY <1>4, <2>2, RefuseStep DEF Errors
<1> QED BY <1>3, <1>4 DEF CheckEscape

----------------------------------------------------------------------------
(* How the functions begin.                                                 *)

LEMMA NewTextStep ==
  ASSUME TokenizerInv, NewText
  PROVE  TokenizerInv'
<1>1. /\ TokenizerTypeOK /\ pc' = "ready" /\ call' = call /\ token' = token /\ unit' = unit
      /\ status' = status /\ read' = read /\ <<ch', next'>> \in Text
      /\ call = "none" /\ token = Blank /\ read = Start /\ status = "NO_ERROR" /\ unit = NoUnit
  BY DEF TokenizerInv, AtLoop, NewText, AnyText, Text
<1>2. TokenizerTypeOK'
  BY <1>1 DEF TokenizerTypeOK
<1> QED BY <1>1, <1>2, NotReturned DEF TokenizerInv, AtLoop

(* Where no function runs.                                                  *)
LEMMA IdleStep ==
  ASSUME /\ call' = "none" /\ pc' = "idle" /\ token' = Blank /\ unit' = NoUnit
         /\ ch' = END /\ next' = END /\ status' = "NO_ERROR" /\ read' = Start
  PROVE  TokenizerInv'
<1>1. <<ch', next'>> \in Text
  BY DEF Text, EndOrChar
<1>2. TokenizerTypeOK'
  BY <1>1, BlankType DEF TokenizerTypeOK, TokenType
<1> QED BY <1>2, NotReturned DEF TokenizerInv, AtLoop

LEMMA GetTokenStep ==
  ASSUME TokenizerInv, GetToken
  PROVE  TokenizerInv'
<1>1. /\ TokenizerTypeOK /\ call' = "get_token" /\ pc' = "token" /\ token' = Blank /\ read' = Start
      /\ ch' = ch /\ next' = next /\ unit' = unit /\ status' = status
      /\ status = "NO_ERROR" /\ unit = NoUnit
  BY DEF TokenizerInv, AtLoop, GetToken
<1>2. TokenizerTypeOK'
  BY <1>1, BlankType DEF TokenizerTypeOK, TokenType
<1> QED BY <1>1, <1>2, NotReturned DEF TokenizerInv, AtLoop

(* A token that is known at once.                                           *)
LEMMA OneCharDelivered ==
  ASSUME TokenizerInv, pc = "token", NEW x \in {"EOF", "MARK"}, OneChar(x),
         status' = status, call' = call, unit' = unit,
         FullLax => Advance(read, ch) = IF x = "EOF" THEN "end" ELSE "mark"
  PROVE  TokenizerInv'
<1>1. TokenizerTypeOK /\ call = "get_token" /\ status = "NO_ERROR" /\ unit = NoUnit
  BY DEF TokenizerInv, AtLoop
<1>2. pc' = "returned" /\ Advanced /\ token' = [Blank EXCEPT !.type = x, !.length = 1]
  BY DEF OneChar
<1>3. <<ch', next'>> \in Text /\ read' = Advance(read, ch)
  BY <1>1, <1>2, NextCharacter
<1>4. token' \in TokenType /\ token'.type = x /\ token'.begins = 0 /\ token'.gap = 0
  <2>1. PICK t : t = [Blank EXCEPT !.type = x]
    OBVIOUS
  <2>2. t \in TokenType
    BY <2>1, BlankType, SMT DEF TokenType
  <2>3. token' = [t EXCEPT !.length = 1]
    BY <1>2, <2>1
  <2>4. token' \in TokenType
    BY <2>2, <2>3, 1 \in 0 .. 2, LengthSet
  <2> QED BY <1>2, <2>4, SMT DEF Blank
<1>5. TokenizerTypeOK'
  BY <1>1, <1>2, <1>3, <1>4 DEF TokenizerTypeOK, TokenType
<1>6. AtLoop'
  BY <1>1, <1>2 DEF AtLoop
<1>7. AtReturn'
  BY <1>1, <1>2, <1>3, <1>4 DEF AtReturn, TokenIsItsText, DeliversTokens, RefusesNoToken,
     PassesWhatIsReadBack, Accepted
<1> QED BY <1>5, <1>6, <1>7 DEF TokenizerInv

LEMMA TokenStep ==
  ASSUME TokenizerInv, Token
  PROVE  TokenizerInv'
<1>1. /\ TokenizerTypeOK /\ pc = "token" /\ call = "get_token" /\ token = Blank /\ status = "NO_ERROR"
      /\ unit = NoUnit /\ call' = call /\ unit' = unit /\ ch \in EndOrChar
      /\ read = Start \/ Astray(read)
  BY TextFacts DEF TokenizerInv, AtLoop, Token
<1>2. PICK s : s = Advance(read, ch)
  OBVIOUS
<1>3. CASE IsSpace(ch) /\ Advanced /\ UNCHANGED <<pc, token, status>>
  <2>1. <<ch', next'>> \in Text /\ read' = s
    BY <1>1, <1>2, <1>3, NextCharacter
  <2>2. s = Start \/ Astray(s)
    BY <1>1, <1>2, <1>3, AdvanceBegins, AdvanceEnded DEF Astray, IsSpace, Space
  <2>3. TokenizerTypeOK'
    BY <1>1, <1>3, <2>1 DEF TokenizerTypeOK
  <2> QED BY <1>1, <1>3, <2>1, <2>2, <2>3, NotReturned DEF TokenizerInv, AtLoop, Astray, FullLax
<1>4. CASE IsNul(ch) /\ OneChar("EOF") /\ status' = status
  <2>1. FullLax => s = "end"
    BY <1>1, <1>2, <1>4, AdvanceBegins DEF Astray
  <2> QED BY <1>1, <1>2, <1>4, <2>1, OneCharDelivered
<1>5. CASE ch = "mark" /\ OneChar("MARK") /\ status' = status
  <2>1. FullLax => s = "mark"
    BY <1>1, <1>2, <1>5, AdvanceBegins DEF Astray
  <2> QED BY <1>1, <1>2, <1>5, <2>1, OneCharDelivered
<1>6. CASE ch = "quote" /\ Turn("string", NewToken("STRING", 0))
  <2>1. PICK t : t = NewToken("STRING", 0)
    OBVIOUS
  <2>2. t \in TokenType /\ t.type = "STRING" /\ t.length = 0 /\ t.begins = 0 /\ t.gap = 0
    BY <1>1, <2>1, NewTokenFacts, SMT
  <2>3. /\ TokenizerTypeOK' /\ pc' = "string" /\ status' = status /\ unit' = NoUnit
        /\ read' = s /\ token'.type = "STRING" /\ token'.length = 0 /\ token'.begins = 0
        /\ token'.gap = 1
    BY <1>1, <1>2, <1>6, <2>1, <2>2, TurnFacts, SMT DEF Loops
  <2>4. s = "string" \/ Astray(s)
    BY <1>1, <1>2, <1>6, AdvanceBegins, AdvanceEnded DEF Astray
  <2>5. AtString'
    BY <1>1, <2>3, <2>4 DEF AtString, EmptyString, Astray
  <2> QED BY <1>1, <2>3, <2>5, NotReturned DEF TokenizerInv, AtLoop
<1>7. CASE ch \in Digit \cup {"-"} /\ StartNumber
  BY <1>1, <1>7, NewNumber
<1>8. CASE /\ ch \notin Digit \cup {"space", "tab", "ff", "nul", END, "mark", "quote", "-", "t", "f", "n"}
           /\ pc' = "returned" /\ status' = "UNEXPECTED_SYMBOL" /\ UNCHANGED <<cursor, token>>
  <2>1. ch' = ch /\ next' = next /\ read' = read /\ token' = token
    BY <1>8 DEF cursor
  <2>2. TokenizerTypeOK'
    BY <1>1, <1>8, <2>1 DEF TokenizerTypeOK
  <2>3. s = "wrong"
    BY <1>1, <1>2, <1>8, AdvanceBegins, AdvanceEnded DEF Astray
  <2>4. NoTokenHere'
    BY <1>1, <1>2, <2>1, <2>3 DEF NoTokenHere, Ahead, Hopeless
  <2> QED BY <1>1, <1>8, <2>2, <2>4, ErrorReturned DEF TokenizerInv
<1> QED BY <1>3, <1>4, <1>5, <1>6, <1>7, <1>8 DEF Token

LEMMA LiteralStep ==
  ASSUME TokenizerInv, Literal
  PROVE  TokenizerInv'
<1>1. /\ TokenizerTypeOK /\ pc = "token" /\ call = "get_token" /\ token = Blank /\ status = "NO_ERROR"
      /\ unit = NoUnit /\ call' = call /\ unit' = unit /\ pc' = "returned"
  BY DEF TokenizerInv, AtLoop, Literal
<1>2. CASE /\ AnyText /\ read' = "literal" /\ status' = status
           /\ token' = [Blank EXCEPT !.type = "LITERAL", !.length = 2]
  <2>1. <<ch', next'>> \in Text
    BY <1>2 DEF AnyText, Text
  <2>2. token' \in TokenType /\ token'.type = "LITERAL" /\ token'.begins = 0 /\ token'.gap = 0
    <3>1. PICK t : t = [Blank EXCEPT !.type = "LITERAL"]
      OBVIOUS
    <3>2. t \in TokenType
      BY <3>1, BlankType, SMT DEF TokenType
    <3>3. token' = [t EXCEPT !.length = 2]
      BY <1>2, <3>1
    <3>4. token' \in TokenType
      BY <3>2, <3>3, 2 \in 0 .. 2, LengthSet
    <3> QED BY <1>2, <3>4, SMT DEF Blank
  <2>3. TokenizerTypeOK'
    BY <1>1, <1>2, <2>1, <2>2 DEF TokenizerTypeOK, TokenType
  <2>4. AtLoop'
    BY <1>1 DEF AtLoop
  <2>5. AtReturn'
    BY <1>1, <1>2, <2>2 DEF AtReturn, TokenIsItsText, DeliversTokens, RefusesNoToken,
       PassesWhatIsReadBack, Accepted
  <2> QED BY <2>3, <2>4, <2>5 DEF TokenizerInv
<1>3. CASE /\ status' = "UNEXPECTED_SYMBOL" /\ read' = "wrong"
           /\ ch' = ch /\ next' = next /\ token' = token
  <2>1. TokenizerTypeOK'
    BY <1>1, <1>3 DEF TokenizerTypeOK
  <2>2. NoTokenHere'
    BY <1>3 DEF NoTokenHere, Hopeless
  <2> QED BY <1>1, <1>3, <2>1, <2>2, ErrorReturned DEF TokenizerInv
<1> QED BY <1>2, <1>3 DEF Literal

LEMMA ValidateNumberStep ==
  ASSUME TokenizerInv, ValidateNumber
  PROVE  TokenizerInv'
<1>1. /\ TokenizerTypeOK /\ pc = "ready" /\ call' = "validate_number" /\ token = Blank
      /\ read = Start /\ status = "NO_ERROR" /\ unit = NoUnit
  BY DEF TokenizerInv, AtLoop, ValidateNumber
<1>2. CASE ch \in Digit \cup {"-"} /\ StartNumber
  <2>1. unit' = unit
    BY <1>2 DEF StartNumber
  <2> QED BY <1>1, <1>2, <2>1, NewNumber
<1>3. CASE /\ ch \notin Digit \cup {"-"} /\ pc' = "returned" /\ status' = "INVALID_NUMBER"
           /\ UNCHANGED <<cursor, token, unit>>
  <2>1. ch' = ch /\ next' = next /\ read' = read /\ token' = token /\ unit' = unit
    BY <1>3 DEF cursor
  <2>2. TokenizerTypeOK'
    BY <1>1, <1>3, <2>1 DEF TokenizerTypeOK
  <2>3. Advance(Start, ch) \notin NumberPart
    BY <1>3, AdvanceBegins DEF NumberPart, Number, Start, Astray, IsNul
  <2>4. NoTokenHere'
    BY <1>1, <2>1, <2>3 DEF NoTokenHere, Ahead
  <2> QED BY <1>1, <1>3, <2>1, <2>2, <2>4, ErrorReturned DEF TokenizerInv
<1> QED BY <1>2, <1>3 DEF ValidateNumber

LEMMA ValidateStringStep ==
  ASSUME TokenizerInv, ValidateString
  PROVE  TokenizerInv'
<1>1. /\ TokenizerTypeOK /\ pc = "ready" /\ call' = "validate_string" /\ status = "NO_ERROR"
      /\ unit = NoUnit /\ ch' = ch /\ next' = next /\ unit' = unit /\ ch \in EndOrChar
      /\ token' = NewToken("STRING", 0)
  BY TextFacts DEF TokenizerInv, AtLoop, ValidateString
<1>2. token' \in TokenType /\ token'.type = "STRING" /\ token'.begins = 0 /\ token'.gap = 0
  BY <1>1, NewTokenFacts, SMT
<1>3. CASE ch = END /\ pc' = "returned" /\ status' = "UNEXPECTED_SYMBOL" /\ read' = "string"
  <2>1. TokenizerTypeOK'
    BY <1>1, <1>2, <1>3 DEF TokenizerTypeOK, TokenType
  <2>2. {"empty_value", "short_escape"} \subseteq Known => NoTokenHere'
    BY <1>1, <1>3 DEF NoTokenHere
  <2> QED BY <1>1, <1>3, <2>1, <2>2, ErrorReturned DEF TokenizerInv
<1>4. CASE pc' = "check" /\ read' = "string" /\ status' = status
  <2>1. TokenizerTypeOK'
    BY <1>1, <1>2, <1>4 DEF TokenizerTypeOK, TokenType
  <2>2. AtCheck'
    BY <1>1, <1>2, <1>4 DEF AtCheck, StringToken
  <2> QED BY <1>1, <1>4, <2>1, <2>2, NotReturned DEF TokenizerInv, AtLoop
<1>5. CASE pc' = "returned" /\ read' = "unread" /\ status' = status
  <2>1. TokenizerTypeOK'
    BY <1>1, <1>2, <1>5 DEF TokenizerTypeOK, TokenType
  <2>2. AtLoop'
    BY <1>1, <1>5 DEF AtLoop
  <2>3. AtReturn'
    BY <1>1, <1>5 DEF AtReturn, TokenIsItsText, DeliversTokens, RefusesNoToken,
       PassesWhatIsReadBack, Accepted
  <2> QED BY <2>1, <2>2, <2>3 DEF TokenizerInv
<1> QED BY <1>3, <1>4, <1>5 DEF ValidateString

LEMMA StutterStep ==
  ASSUME TokenizerInv,
         /\ call' = call /\ pc' = pc /\ ch' = ch /\ next' = next /\ read' = read
         /\ token' = token /\ unit' = unit /\ status' = status
  PROVE  TokenizerInv'
<1>1. TokenizerTypeOK'
  BY DEF TokenizerInv, TokenizerTypeOK
<1>2. AtInteger' = AtInteger /\ AtSymbol' = AtSymbol /\ AtFraction' = AtFraction /\ AtExponent' = AtExponent
  BY DEF AtInteger, AtSymbol, AtFraction, AtExponent, NumberToken, Whole, Astray, FullLax
<1>3. AtString' = AtString /\ AtEscape' = AtEscape /\ AtUnicode' = AtUnicode
  BY DEF AtString, AtEscape, AtUnicode, StringToken, EmptyString, Astray, FullLax, Behind
<1>4. AtCheck' = AtCheck /\ AtCheckEscape' = AtCheckEscape
  BY DEF AtCheck, AtCheckEscape, StringToken, Astray, FullLax, Behind
<1>5. AtLoop'
  BY <1>2, <1>3, <1>4 DEF TokenizerInv, AtLoop, Astray, FullLax
<1>6. TokenIsItsText' = TokenIsItsText /\ DeliversTokens' = DeliversTokens
  BY DEF TokenIsItsText, DeliversTokens, Accepted
<1>7. RefusesNoToken' = RefusesNoToken
  BY DEF RefusesNoToken, Hopeless, Unfinished, Ahead
<1>8. PassesWhatIsReadBack' = PassesWhatIsReadBack
  BY DEF PassesWhatIsReadBack, Accepted
<1>9. AtReturn'
  BY <1>6, <1>7, <1>8 DEF TokenizerInv, AtReturn, FullLax
<1> QED BY <1>1, <1>5, <1>9 DEF TokenizerInv

----------------------------------------------------------------------------

THEOREM TokenizerIsInductive == Spec => []TokenizerInv
<1>1. Init => TokenizerInv
  <2> SUFFICES ASSUME Init PROVE TokenizerInv
    OBVIOUS
  <2>1. TokenizerTypeOK
    <3>1. <<ch, next>> \in Text
      BY DEF Init, Text, EndOrChar
    <3> QED BY <3>1, BlankType DEF Init, TokenizerTypeOK, TokenType
  <2>2. AtLoop /\ AtReturn
    BY DEF Init, AtLoop, AtReturn, TokenIsItsText, DeliversTokens, RefusesNoToken,
       PassesWhatIsReadBack, Accepted
  <2> QED BY <2>1, <2>2 DEF TokenizerInv
<1>2. TokenizerInv /\ [Next]_vars => TokenizerInv'
  <2> SUFFICES ASSUME TokenizerInv, [Next]_vars PROVE TokenizerInv'
    OBVIOUS
  <2>1. CASE NewText
    BY <2>1, NewTextStep
  <2>2. CASE Leave
    BY <2>2, IdleStep DEF Leave
  <2>3. CASE GetToken
    BY <2>3, GetTokenStep
  <2>4. CASE Token
    BY <2>4, TokenStep
  <2>5. CASE Literal
    BY <2>5, LiteralStep
  <2>6. CASE Integer
    BY <2>6, IntegerStep
  <2>7. CASE Symbol
    BY <2>7, SymbolStep
  <2>8. CASE Fraction
    BY <2>8, FractionStep
  <2>9. CASE Exponent
    BY <2>9, ExponentStep
  <2>10. CASE String
    BY <2>10, StringStep
  <2>11. CASE Escape
    BY <2>11, EscapeStep
  <2>12. CASE Unicode
    BY <2>12, UnicodeStep
  <2>13. CASE ValidateNumber
    BY <2>13, ValidateNumberStep
  <2>14. CASE ValidateString
    BY <2>14, ValidateStringStep
  <2>15. CASE Check
    BY <2>15, CheckStep
  <2>16. CASE CheckEscape
    BY <2>16, CheckEscapeStep
  <2>17. CASE UNCHANGED vars
    BY <2>17, StutterStep DEF vars, cursor
  <2> QED BY <2>1, <2>2, <2>3, <2>4, <2>5, <2>6, <2>7, <2>8, <2>9, <2>10, <2>11, <2>12, <2>13,
             <2>14, <2>15, <2>16, <2>17 DEF Next
<1> QED BY <1>1, <1>2, PTL DEF Spec

(***************************************************************************)
(* jes_tokenizer.c: whatever the text, the cursor, the token and the code   *)
(* units being read keep their types; no counter leaves its range.          *)
(***************************************************************************)
THEOREM TokenizerTypes == Spec => []TokenizerTypeOK
<1>1. TokenizerInv => TokenizerTypeOK
  BY DEF TokenizerInv
<1> QED BY <1>1, TokenizerIsInductive, PTL

(***************************************************************************)
(* jes_tokenizer_get_token on any text: value and length of the token it    *)
(* delivers are the token's text, a string's without its quotation marks.   *)
(***************************************************************************)
THEOREM TokensAreTheirText == Spec => []TokenIsItsText
<1>1. TokenizerInv => TokenIsItsText
  BY DEF TokenizerInv, AtReturn
<1> QED BY <1>1, TokenizerIsInductive, PTL

(***************************************************************************)
(* jes_tokenizer_get_token on any text: what it delivers is a token of      *)
(* JSON, read with the six indulgences that JsonLexicon names, and a number *)
(* ends only where no more of it follows.                                   *)
(***************************************************************************)
THEOREM OnlyTokensAreDelivered ==
  ASSUME FullLax
  PROVE  Spec => []DeliversTokens
<1>1. TokenizerInv => DeliversTokens
  BY DEF TokenizerInv, AtReturn
<1> QED BY <1>1, TokenizerIsInductive, PTL

(***************************************************************************)
(* Neither jes_tokenizer_get_token nor one of the two checks refuses JSON,  *)
(* the empty value and the short escapes of the check of strings aside:     *)
(* with any of the indulgences or none.                                     *)
(***************************************************************************)
THEOREM NoTokenIsRefused ==
  ASSUME {"empty_value", "short_escape"} \subseteq Known
  PROVE  Spec => []RefusesNoToken
<1>1. TokenizerInv => RefusesNoToken
  BY DEF TokenizerInv, AtReturn
<1> QED BY <1>1, TokenizerIsInductive, PTL

(***************************************************************************)
(* A value that jes_tokenizer_validate_number or _validate_string passes    *)
(* can be read back, but for the three ways that Known names.               *)
(***************************************************************************)
THEOREM WhatPassesIsReadBack ==
  ASSUME FullLax, {"number_prefix", "unread", "behind_end"} \subseteq Known
  PROVE  Spec => []PassesWhatIsReadBack
<1>1. TokenizerInv => PassesWhatIsReadBack
  BY DEF TokenizerInv, AtReturn
<1> QED BY <1>1, TokenizerIsInductive, PTL
============================================================================
