------------------------- MODULE JesStreamingProofs ------------------------
(***************************************************************************)
(* Proofs about the streaming serializer, for a buffer, a depth, counters   *)
(* and values of any size: types always hold, and a caller that keeps to    *)
(* the two rules on arrays and counters is given the beginning of a JSON    *)
(* text for as long as the buffer has room.                                 *)
(***************************************************************************)
EXTENDS JesStreaming, SequenceTheorems, TLAPS

ContainerType == {"OBJECT", "ARRAY"}
Text == [open : Seq(ContainerType), expects : JSON!Expectation]

(* What has been written agrees with what the grammar expects, one conjunct *)
(* per state of the serializer.                                             *)
InStep ==
  /\ state = "START" => stack = <<>> /\ text = JSON!Start
  /\ state = "EXPECT_KEY" =>
       /\ Container = "OBJECT"
       /\ text.expects = IF MemberCount = 0 THEN "first_key" ELSE "comma"
  /\ state = "EXPECT_VALUE" =>
       Container = "OBJECT" /\ MemberCount > 0 /\ text.expects = "value"
  /\ state = "EXPECT_ARRAY_VALUE" =>
       /\ Container = "ARRAY"
       /\ text.expects \in {"first_value", "comma"}
       /\ MemberCount > 0 => text.expects = "comma"
  /\ state = "END" => stack = <<>> /\ text.expects = "end"
  /\ state # "ABORTED"

(* The open containers are those of the text, and every object around the   *)
(* innermost container has a member: the one being written.                 *)
StackMatches ==
  /\ Len(stack) = Len(text.open)
  /\ \A i \in 1 .. Len(stack) :
       /\ stack[i].type = text.open[i]
       /\ i < Len(stack) /\ stack[i].type = "OBJECT" => stack[i].member_count > 0

(* The inductive invariant, with the types: once a call has found too       *)
(* little room only they are left, until the serializer is initialised      *)
(* again.                                                                   *)
Agrees == InStep /\ StackMatches

StreamInv == ~truncated => Agrees

KeepsRules == {"plain_arrays", "short_containers"} \subseteq Rules

----------------------------------------------------------------------------
(* The operators of the stack and of the grammar.                           *)

LEMMA PopLemma ==
  ASSUME NEW S, NEW s \in Seq(S)
  PROVE  /\ SubSeq(s, 1, Len(s) - 1) \in Seq(S)
         /\ s # <<>> =>
              /\ Len(s) > 0
              /\ Len(SubSeq(s, 1, Len(s) - 1)) = Len(s) - 1
              /\ \A i \in 1 .. Len(s) - 1 : SubSeq(s, 1, Len(s) - 1)[i] = s[i]
<1>1. Len(s) \in Nat /\ \A i \in 1 .. Len(s) : s[i] \in S
  BY ElementOfSeq, LenProperties
<1>2. CASE s = <<>>
  <2>1. Len(s) = 0
    BY <1>2, EmptySeq
  <2>2. \A i \in 1 .. Len(s) - 1 : s[i] \in S
    BY <1>1, <2>1
  <2>3. SubSeq(s, 1, Len(s) - 1) \in Seq(S)
    BY <1>1, <2>1, <2>2, SubSeqProperties
  <2> QED BY <1>2, <2>3
<1>3. CASE s # <<>>
  <2>1. Len(s) > 0
    BY <1>1, <1>3, EmptySeq
  <2> DEFINE m == Len(s) - 1
             rest == SubSeq(s, 1, m)
  <2>2. m \in Nat /\ \A i \in 1 .. m : s[i] \in S
    BY <1>1, <2>1
  <2> HIDE DEF m
  <2>3. /\ rest \in Seq(S) /\ Len(rest) = IF 1 <= m THEN m - 1 + 1 ELSE 0
        /\ \A i \in 1 .. m - 1 + 1 : rest[i] = s[1 + i - 1]
    BY <2>2, SubSeqProperties
  <2> HIDE DEF rest
  <2>4. Len(rest) = m /\ \A i \in 1 .. m : rest[i] = s[i]
    BY <2>2, <2>3
  <2> QED BY <2>1, <2>3, <2>4 DEF m, rest
<1> QED BY <1>2, <1>3

LEMMA OneMoreLemma ==
  ASSUME stack \in Seq(Frame), stack # <<>>
  PROVE  /\ OneMoreMember \in Seq(Frame)
         /\ Len(stack) \in Nat \ {0} /\ Len(OneMoreMember) = Len(stack)
         /\ \A i \in 1 .. Len(stack) :
              /\ OneMoreMember[i].type = stack[i].type
              /\ i < Len(stack) => OneMoreMember[i].member_count = stack[i].member_count
         /\ OneMoreMember[Len(stack)].member_count =
              (stack[Len(stack)].member_count + 1) % CountRange
<1> DEFINE n == Len(stack)
           more == [stack[n] EXCEPT !.member_count = (@ + 1) % CountRange]
<1>1. n \in Nat \ {0} /\ DOMAIN stack = 1 .. n
  BY EmptySeq, LenProperties
<1>2. n \in 1 .. n /\ stack[n] \in Frame
  BY <1>1, ElementOfSeq
<1>3. (stack[n].member_count + 1) % CountRange \in 0 .. CountRange - 1
  BY <1>2, StreamingAssumption DEF Frame
<1>4. /\ more \in Frame /\ more.type = stack[n].type
      /\ more.member_count = (stack[n].member_count + 1) % CountRange
  BY <1>2, <1>3, Zenon DEF Frame
<1>5. OneMoreMember = [stack EXCEPT ![n] = more]
  BY DEF OneMoreMember
<1> HIDE DEF n, more
<1>6. /\ OneMoreMember \in Seq(Frame) /\ Len(OneMoreMember) = Len(stack)
      /\ \A j \in 1 .. Len(stack) : OneMoreMember[j] = IF j = n THEN more ELSE stack[j]
  BY <1>2, <1>4, <1>5, ExceptSeq DEF n
<1>7. \A j \in 1 .. n : /\ OneMoreMember[j].type = stack[j].type
                        /\ j < n => OneMoreMember[j].member_count = stack[j].member_count
  <2> SUFFICES ASSUME NEW j \in 1 .. n
               PROVE  /\ OneMoreMember[j].type = stack[j].type
                      /\ j < n => OneMoreMember[j].member_count = stack[j].member_count
    OBVIOUS
  <2>1. CASE j = n
    <3>1. OneMoreMember[j] = more
      BY <1>6, <2>1 DEF n
    <3>2. ~(j < n)
      BY <1>1, <2>1
    <3> QED BY <1>4, <2>1, <3>1, <3>2
  <2>2. CASE j # n
    BY <1>6, <2>2 DEF n
  <2> QED BY <2>1, <2>2
<1>8. OneMoreMember[n].member_count = (stack[n].member_count + 1) % CountRange
  BY <1>2, <1>4, <1>6 DEF n
<1> QED BY <1>1, <1>6, <1>7, <1>8 DEF n

LEMMA AdvanceType ==
  ASSUME NEW g \in Text, NEW token
  PROVE  JSON!Advance(g, token) \in Text
<1>1. g.open \in Seq(ContainerType) /\ g.expects \in JSON!Expectation
  BY DEF Text
<1>2. \A open \in Seq(ContainerType) : JSON!Valued(open) \in Text
  BY DEF JSON!Valued, Text, JSON!Expectation
<1>3. JSON!Closed(g) \in Text
  BY <1>1, <1>2, PopLemma DEF JSON!Closed
<1>4. \A c \in ContainerType, e \in JSON!Expectation : JSON!Opened(g, c, e) \in Text
  BY <1>1 DEF JSON!Opened, Text
<1>5. \A e \in JSON!Expectation : [g EXCEPT !.expects = e] \in Text
  BY DEF Text
<1>6. JSON!Wrong \in Text
  BY EmptySeq DEF JSON!Wrong, Text, JSON!Expectation
<1> QED
  BY <1>1, <1>2, <1>3, <1>4, <1>5, <1>6 DEF JSON!Advance, ContainerType, JSON!Expectation

(* What the grammar makes of a token that fits.  (A leaf that shows the     *)
(* characters of the tokens is proved by Zenon: SMT has no name for them.)  *)
LEMMA OpensObject ==
  ASSUME NEW g, JSON!WantsValue(g)
  PROVE  JSON!Advance(g, "{") = JSON!Opened(g, "OBJECT", "first_key")
BY Zenon DEF JSON!Advance

LEMMA OpensArray ==
  ASSUME NEW g, JSON!WantsValue(g)
  PROVE  JSON!Advance(g, "[") = JSON!Opened(g, "ARRAY", "first_value")
BY Zenon DEF JSON!Advance

LEMMA ClosesObject ==
  ASSUME NEW g, JSON!Innermost(g) = "OBJECT", g.expects \in {"first_key", "comma"}
  PROVE  JSON!Advance(g, "}") = JSON!Closed(g)
BY Zenon DEF JSON!Advance

LEMMA ClosesArray ==
  ASSUME NEW g, JSON!Innermost(g) = "ARRAY", g.expects \in {"first_value", "comma"}
  PROVE  JSON!Advance(g, "]") = JSON!Closed(g)
BY Zenon DEF JSON!Advance

LEMMA Separates ==
  ASSUME NEW g, g.expects = "comma"
  PROVE  JSON!Advance(g, ",") =
           [g EXCEPT !.expects = IF JSON!Innermost(g) = "OBJECT" THEN "key" ELSE "value"]
BY Zenon DEF JSON!Advance

LEMMA TakesScalar ==
  ASSUME NEW g, JSON!WantsValue(g)
  PROVE  JSON!Advance(g, "scalar") = JSON!Valued(g.open)
BY Zenon DEF JSON!Advance

LEMMA TakesKey ==
  ASSUME NEW g \in Text, JSON!WantsKey(g)
  PROVE  JSON!Advance(JSON!Advance(g, "string"), ":") = [g EXCEPT !.expects = "value"]
<1>1. ~JSON!WantsValue(g)
  BY DEF JSON!WantsKey, JSON!WantsValue
<1>2. JSON!Advance(g, "string") = [g EXCEPT !.expects = "colon"]
  BY <1>1, Zenon DEF JSON!Advance
<1>3. [g EXCEPT !.expects = "colon"].expects = "colon"
  BY DEF Text
<1>4. JSON!Advance([g EXCEPT !.expects = "colon"], ":")
        = [[g EXCEPT !.expects = "colon"] EXCEPT !.expects = "value"]
  BY <1>3, Zenon DEF JSON!Advance
<1> QED BY <1>2, <1>4 DEF Text

----------------------------------------------------------------------------
(* Types.                                                                   *)

RoomOK == IF OutputSize = 0 THEN room = 0 ELSE room \in 1 .. OutputSize

Typed ==
  /\ state \in States /\ stack \in Seq(Frame) /\ RoomOK
  /\ sticky_error \in Errors /\ text \in Text /\ truncated \in BOOLEAN

LEMMA TypedLemma == TypeOK <=> Typed
BY DEF TypeOK, Typed, RoomOK, Text, ContainerType

LEMMA WriteRoom ==
  ASSUME RoomOK, NEW size \in Nat, Fits(size), room' = room - size
  PROVE  RoomOK'
BY StreamingAssumption DEF RoomOK, Fits

(* A call that is refused changes the error only, one that writes keeps the *)
(* buffer's bound.                                                          *)
LEMMA RefuseType ==
  ASSUME Typed, NEW s \in Errors, Refuse(s)
  PROVE  Typed'
BY DEF Typed, Refuse, Fail, RoomOK

LEMMA FailType ==
  ASSUME Typed, NEW s \in Errors, Fail(s)
  PROVE  sticky_error' \in Errors /\ truncated' \in BOOLEAN
BY DEF Typed, Fail

LEMMA WriteType ==
  ASSUME Typed, NEW size \in Nat, NEW tokens \in Text, NEW next \in States,
         Fits(size), Write(size, tokens, next), stack' \in Seq(Frame)
  PROVE  Typed'
BY WriteRoom DEF Typed, Write, Errors

LEMMA SeparatedType == Typed => Separated \in Text /\ CommaSize \in {0, 1}
BY AdvanceType DEF Typed, Separated, CommaSize

LEMMA MemberType ==
  ASSUME Typed, stack # <<>>, NEW size \in Nat, NEW tokens \in Text, NEW next \in States,
         Member(size, tokens, next)
  PROVE  Typed'
<1>1. CASE CommaSize = 1 /\ ~Fits(1) /\ Refuse("RENDER_FAILED")
  BY <1>1, RefuseType DEF Errors
<1>2. CASE /\ CommaSize = 1 => Fits(1)
           /\ stack' = OneMoreMember
           /\ Fits(CommaSize + size) /\ Write(CommaSize + size, tokens, next)
  <2>1. stack' \in Seq(Frame)
    BY <1>2, OneMoreLemma DEF Typed
  <2>2. CommaSize + size \in Nat
    BY SeparatedType
  <2> QED BY <1>2, <2>1, <2>2, WriteType
<1>3. CASE /\ CommaSize = 1 => Fits(1)
           /\ stack' = OneMoreMember
           /\ ~Fits(CommaSize + size) /\ Fail("RENDER_FAILED")
           /\ room' = room - CommaSize /\ text' = Separated /\ UNCHANGED state
  <2>1. stack' \in Seq(Frame)
    BY <1>3, OneMoreLemma DEF Typed
  <2>2. RoomOK'
    <3>1. CASE CommaSize = 1
      BY <1>3, <3>1, WriteRoom DEF Typed
    <3>2. CASE CommaSize = 0
      BY <1>3, <3>2, StreamingAssumption DEF Typed, RoomOK
    <3> QED BY <3>1, <3>2, SeparatedType
  <2>3. sticky_error' \in Errors /\ truncated' \in BOOLEAN
    BY <1>3, FailType DEF Errors
  <2> QED BY <1>3, <2>1, <2>2, <2>3, SeparatedType DEF Typed
<1> QED BY <1>1, <1>2, <1>3 DEF Member

LEMMA StartType ==
  ASSUME Typed, NEW container \in ContainerType, NEW token, NEW next \in States,
         ContainerStart(container, token, next)
  PROVE  Typed'
<1>1. CASE Refuse("UNEXPECTED_STATE") \/ Refuse("MAX_DEPTH_EXCEEDED")
  BY <1>1, RefuseType DEF Errors
<1>2. Append(stack, [type |-> container, member_count |-> 0]) \in Seq(Frame)
  BY AppendProperties, StreamingAssumption DEF Typed, Frame, ContainerType
<1>3. CASE /\ stack' = Append(stack, [type |-> container, member_count |-> 0])
           /\ Fits(1) /\ Write(1, JSON!Advance(text, token), next)
  BY <1>2, <1>3, WriteType, AdvanceType DEF Typed
<1>4. CASE /\ stack' = Append(stack, [type |-> container, member_count |-> 0])
           /\ Fail("RENDER_FAILED") /\ UNCHANGED <<state, room, text>>
  BY <1>2, <1>4, FailType DEF Typed, Errors, RoomOK
<1> QED BY <1>1, <1>3, <1>4 DEF ContainerStart

LEMMA EndType ==
  ASSUME Typed, NEW expected, NEW token, ContainerEnd(expected, token)
  PROVE  Typed'
<1> DEFINE next == IF Len(stack) <= 1 THEN "END" ELSE AfterValue(stack[Len(stack) - 1].type)
<1>1. CASE Refuse("UNEXPECTED_STATE")
  BY <1>1, RefuseType DEF Errors
<1>2. Pop \in Seq(Frame)
  BY PopLemma DEF Typed, Pop
<1>3. next \in States
  BY DEF AfterValue, States
<1>4. CASE stack' = Pop /\ Fits(1) /\ Write(1, JSON!Advance(text, token), next)
  BY <1>2, <1>3, <1>4, WriteType, AdvanceType DEF Typed
<1>5. CASE stack' = Pop /\ Fail("RENDER_FAILED") /\ UNCHANGED <<state, room, text>>
  BY <1>2, <1>5, FailType DEF Typed, Errors, RoomOK
<1> QED BY <1>1, <1>4, <1>5 DEF ContainerEnd

LEMMA KeyType ==
  ASSUME Typed, NEW size \in KeySizes, Key(size)
  PROVE  Typed'
<1>1. CASE Refuse("UNEXPECTED_STATE") \/ Refuse("INVALID_OPERATION")
  BY <1>1, RefuseType DEF Errors
<1> DEFINE tokens == JSON!Advance(JSON!Advance(Separated, "string"), ":")
<1>2. tokens \in Text
  BY SeparatedType, AdvanceType
<1>3. CASE stack # <<>> /\ Member(size, tokens, "EXPECT_VALUE")
  BY <1>2, <1>3, MemberType, StreamingAssumption DEF States
<1> QED BY <1>1, <1>3 DEF Key

LEMMA ValueType ==
  ASSUME Typed, NEW size \in ValueSizes, Value(size)
  PROVE  Typed'
<1>1. CASE Refuse("UNEXPECTED_STATE")
  BY <1>1, RefuseType DEF Errors
<1>2. CASE /\ Container = "ARRAY"
           /\ Member(size, JSON!Advance(Separated, "scalar"), "EXPECT_ARRAY_VALUE")
  <2>1. stack # <<>>
    BY <1>2 DEF Container
  <2>2. JSON!Advance(Separated, "scalar") \in Text
    BY SeparatedType, AdvanceType
  <2> QED BY <1>2, <2>1, <2>2, MemberType, StreamingAssumption DEF States
<1>3. CASE UNCHANGED <<stack, state, room, text>> /\ Fail("RENDER_FAILED")
  BY <1>3, FailType DEF Typed, Errors, RoomOK
<1>4. ASSUME UNCHANGED stack, Fits(size), NEW next \in AfterSingleValue,
             Write(size, JSON!Advance(text, "scalar"), next)
      PROVE  Typed'
  <2>1. next \in States
    BY <1>4 DEF AfterSingleValue, States, Typed
  <2> QED BY <1>4, <2>1, WriteType, AdvanceType, StreamingAssumption DEF Typed
<1> QED BY <1>1, <1>2, <1>3, <1>4 DEF Value

LEMMA InitType == Init => Typed
<1> SUFFICES ASSUME Init PROVE Typed
  OBVIOUS
<1>1. JSON!Start \in Text
  BY EmptySeq DEF JSON!Start, Text, JSON!Expectation
<1>2. stack \in Seq(Frame)
  BY EmptySeq DEF Init
<1>3. RoomOK
  BY StreamingAssumption DEF Init, RoomOK
<1> QED BY <1>1, <1>2, <1>3 DEF Init, Typed, States, Errors

LEMMA InitStreamingType ==
  ASSUME Typed, InitStreaming
  PROVE  Typed'
<1>1. JSON!Start \in Text
  BY EmptySeq DEF JSON!Start, Text, JSON!Expectation
<1>2. stack' \in Seq(Frame)
  BY EmptySeq DEF InitStreaming
<1>3. RoomOK'
  BY StreamingAssumption DEF InitStreaming, RoomOK
<1> QED BY <1>1, <1>2, <1>3 DEF InitStreaming, Typed, States, Errors

LEMMA StepType == Typed /\ [Next]_vars => Typed'
<1> SUFFICES ASSUME Typed, [Next]_vars PROVE Typed'
  OBVIOUS
<1>1. CASE ObjectStart
  BY <1>1, StartType DEF ObjectStart, ContainerType, States
<1>2. CASE ArrayStart
  BY <1>2, StartType DEF ArrayStart, ContainerType, States
<1>3. CASE ObjectEnd
  BY <1>3, EndType DEF ObjectEnd
<1>4. CASE ArrayEnd
  BY <1>4, EndType DEF ArrayEnd
<1>5. ASSUME NEW size \in KeySizes, Key(size) PROVE Typed'
  BY <1>5, KeyType
<1>6. ASSUME NEW size \in ValueSizes, Value(size) PROVE Typed'
  BY <1>6, ValueType
<1>7. CASE TakeStatus
  BY <1>7 DEF TakeStatus, Typed, RoomOK, Errors
<1>8. CASE InitStreaming
  BY <1>8, InitStreamingType
<1>9. CASE UNCHANGED vars
  BY <1>9 DEF vars, Typed, RoomOK
<1> QED BY <1>1, <1>2, <1>3, <1>4, <1>5, <1>6, <1>7, <1>8, <1>9 DEF Next

(***************************************************************************)
(* Whatever the caller does, with no rule to keep to: the counters stay in  *)
(* their width, no container is left below the bottom of the stack, and a   *)
(* byte of the buffer stays for the terminating NUL.                        *)
(***************************************************************************)
THEOREM StreamingTypes == Spec => []TypeOK
<1>1. Spec => []Typed
  BY InitType, StepType, PTL DEF Spec
<1> QED BY <1>1, TypedLemma, PTL

----------------------------------------------------------------------------
(* The text.                                                                *)

LEMMA RefuseKeeps ==
  ASSUME StreamInv, NEW s, Refuse(s)
  PROVE  StreamInv'
<1>1. Agrees => Agrees'
  BY DEF Refuse, Agrees, InStep, StackMatches, Container, MemberCount
<1> QED BY <1>1 DEF StreamInv, Refuse, Fail

(* A call that finds too little room leaves nothing to show.                *)
LEMMA Truncates ==
  ASSUME Fail("RENDER_FAILED")
  PROVE  StreamInv'
BY DEF Fail, StreamInv

LEMMA StartKeeps ==
  ASSUME Typed, StreamInv, KeepsRules,
         NEW container \in ContainerType, NEW token,
         NEW next, next = IF container = "OBJECT" THEN "EXPECT_KEY" ELSE "EXPECT_ARRAY_VALUE",
         NEW expects, expects = IF container = "OBJECT" THEN "first_key" ELSE "first_value",
         \A g : JSON!WantsValue(g) => JSON!Advance(g, token) = JSON!Opened(g, container, expects),
         ContainerStart(container, token, next)
  PROVE  StreamInv'
<1> DEFINE frame == [type |-> container, member_count |-> 0]
<1>1. CASE Refuse("UNEXPECTED_STATE") \/ Refuse("MAX_DEPTH_EXCEEDED")
  BY <1>1, RefuseKeeps
<1>2. CASE Fail("RENDER_FAILED")
  BY <1>2, Truncates
<1>3. CASE /\ state \in {"START", "EXPECT_VALUE", "EXPECT_ARRAY_VALUE"}
           /\ stack' = Append(stack, frame)
           /\ Write(1, JSON!Advance(text, token), next)
  <2> SUFFICES ASSUME Agrees PROVE InStep' /\ StackMatches'
    BY <1>3 DEF StreamInv, Agrees, Write
  <2>1. InStep /\ StackMatches
    BY DEF Agrees
  <2>2. frame \in Frame
    BY StreamingAssumption DEF Frame, ContainerType
  <2>3. /\ stack \in Seq(Frame) /\ Len(stack) \in Nat
        /\ text \in Text /\ text.open \in Seq(ContainerType) /\ container \in ContainerType
    BY LenProperties DEF Typed, Text, ContainerType
  <2>4. /\ Len(stack') = Len(stack) + 1 /\ stack' # <<>>
        /\ \A i \in 1 .. Len(stack) : stack'[i] = stack[i]
        /\ stack'[Len(stack) + 1] = frame
    BY <1>3, <2>2, <2>3, AppendProperties
  <2>5. JSON!WantsValue(text)
    BY <1>3, <2>1 DEF ContainerStart, Keeps, KeepsRules, ArrayEmpty, InStep,
                      JSON!WantsValue, JSON!Start
  <2>6. text' = [open |-> Append(text.open, container), expects |-> expects] /\ state' = next
    BY <1>3, <2>5 DEF Write, JSON!Opened
  <2>7. /\ Len(text'.open) = Len(stack) + 1
        /\ \A i \in 1 .. Len(stack) : text'.open[i] = text.open[i]
        /\ text'.open[Len(stack) + 1] = container
    BY <2>1, <2>3, <2>6, AppendProperties DEF StackMatches
  <2>8. stack # <<>> /\ stack[Len(stack)].type = "OBJECT" => stack[Len(stack)].member_count > 0
    BY <1>3, <2>1 DEF InStep, Container, MemberCount
  <2>9. StackMatches'
    <3> SUFFICES ASSUME NEW i \in 1 .. Len(stack) + 1
                 PROVE  /\ stack'[i].type = text'.open[i]
                        /\ i < Len(stack) + 1 /\ stack'[i].type = "OBJECT"
                             => stack'[i].member_count > 0
      BY <2>4, <2>7 DEF StackMatches
    <3>1. CASE i = Len(stack) + 1
      BY <2>3, <2>4, <2>7, <3>1
    <3>2. CASE i = Len(stack) /\ i # 0
      <4>1. stack # <<>>
        BY <3>2, EmptySeq
      <4> QED BY <2>1, <2>3, <2>4, <2>7, <2>8, <3>2, <4>1 DEF StackMatches
    <3>3. CASE i \in 1 .. Len(stack) /\ i < Len(stack)
      BY <2>1, <2>3, <2>4, <2>7, <3>3 DEF StackMatches
    <3> QED BY <2>3, <3>1, <3>2, <3>3
  <2>10. InStep'
    BY <2>3, <2>4, <2>6 DEF InStep, Container, MemberCount, ContainerType
  <2> QED BY <2>9, <2>10
<1> QED BY <1>1, <1>2, <1>3 DEF ContainerStart

LEMMA EndKeeps ==
  ASSUME Typed, StreamInv, NEW container \in ContainerType, NEW token,
         NEW expected, expected = AfterValue(container),
         NEW first, first = IF container = "OBJECT" THEN "first_key" ELSE "first_value",
         \A g : JSON!Innermost(g) = container /\ g.expects \in {first, "comma"}
                  => JSON!Advance(g, token) = JSON!Closed(g),
         ContainerEnd(expected, token)
  PROVE  StreamInv'
<1> DEFINE n == Len(stack)
           next == IF n <= 1 THEN "END" ELSE AfterValue(stack[n - 1].type)
<1>1. CASE Refuse("UNEXPECTED_STATE")
  BY <1>1, RefuseKeeps
<1>2. CASE Fail("RENDER_FAILED")
  BY <1>2, Truncates
<1>3. CASE /\ state = expected /\ stack' = Pop
           /\ Write(1, JSON!Advance(text, token), next)
  <2> SUFFICES ASSUME Agrees PROVE InStep' /\ StackMatches'
    BY <1>3 DEF StreamInv, Agrees, Write
  <2>1. InStep /\ StackMatches
    BY DEF Agrees
  <2>2. stack # <<>>
    BY <1>3, <2>1 DEF InStep, Container, AfterValue, ContainerType
  <2>3. /\ stack \in Seq(Frame) /\ n \in Nat \ {0}
        /\ text \in Text /\ text.open \in Seq(ContainerType)
        /\ n = Len(text.open) /\ text.open # <<>>
    <3>1. stack \in Seq(Frame) /\ n \in Nat /\ n > 0
      BY <2>2, PopLemma, LenProperties DEF Typed
    <3>2. text \in Text /\ text.open \in Seq(ContainerType) /\ n = Len(text.open)
      BY <2>1 DEF Typed, Text, StackMatches
    <3> QED BY <3>1, <3>2, EmptySeq
  <2> DEFINE rest == SubSeq(text.open, 1, Len(text.open) - 1)
  <2>4. /\ stack' \in Seq(Frame) /\ Len(stack') = n - 1
        /\ \A i \in 1 .. n - 1 : stack'[i] = stack[i]
    BY <1>3, <2>2, <2>3, PopLemma DEF Pop
  <2>5. /\ rest \in Seq(ContainerType) /\ Len(rest) = n - 1
        /\ \A i \in 1 .. n - 1 : rest[i] = text.open[i]
    BY <2>3, PopLemma
  <2>6. JSON!Innermost(text) = Container
    BY <2>1, <2>2, <2>3 DEF JSON!Innermost, Container, StackMatches
  <2>7. JSON!Advance(text, token) = JSON!Closed(text)
    BY <1>3, <2>1, <2>6 DEF InStep, AfterValue, ContainerType
  <2>8. /\ text'.open = rest /\ text'.expects = (IF rest = <<>> THEN "end" ELSE "comma")
        /\ state' = next
    BY <1>3, <2>7 DEF Write, JSON!Closed, JSON!Valued
  <2> HIDE DEF rest
  <2>9. StackMatches'
    <3>1. Len(stack') = Len(text'.open)
      BY <2>4, <2>5, <2>8
    <3> SUFFICES ASSUME NEW i \in 1 .. n - 1
                 PROVE  /\ stack'[i].type = text'.open[i]
                        /\ i < n - 1 /\ stack'[i].type = "OBJECT" => stack'[i].member_count > 0
      BY <2>4, <3>1 DEF StackMatches
    <3>2. i \in 1 .. n /\ i < n
      BY <2>3
    <3>3. stack'[i] = stack[i] /\ text'.open[i] = text.open[i]
      BY <2>4, <2>5, <2>8
    <3> QED BY <2>1, <3>2, <3>3 DEF StackMatches
  <2>10. InStep'
    <3>1. CASE n = 1
      <4>1. stack' = <<>> /\ rest = <<>>
        BY <2>4, <2>5, <3>1, EmptySeq
      <4> QED BY <2>8, <3>1, <4>1 DEF InStep
    <3>2. CASE n > 1
      <4>1. /\ stack' # <<>> /\ rest # <<>>
            /\ n - 1 \in 1 .. n - 1 /\ Container' = stack[n - 1].type
            /\ MemberCount' = stack[n - 1].member_count
        BY <2>3, <2>4, <2>5, <3>2, EmptySeq DEF Container, MemberCount
      <4>2. stack[n - 1] \in Frame
        BY <2>3, <3>2, ElementOfSeq
      <4>3. stack[n - 1].type \in {"OBJECT", "ARRAY"}
        BY <4>2 DEF Frame
      <4>4. stack[n - 1].type = "OBJECT" => stack[n - 1].member_count > 0
        BY <2>1, <2>3, <4>1 DEF StackMatches
      <4> QED BY <2>3, <2>8, <3>2, <4>1, <4>3, <4>4 DEF InStep, AfterValue
    <3>3. n = 1 \/ n > 1
      <4>1. n \in Nat \ {0}
        BY <2>3
      <4> HIDE DEF n
      <4> QED BY <4>1
    <3> QED BY <3>1, <3>2, <3>3
  <2> QED BY <2>9, <2>10
<1> QED BY <1>1, <1>2, <1>3 DEF ContainerEnd

(* A comma goes in front of a member but the first; then the grammar wants  *)
(* a key or a value.                                                        *)
LEMMA SeparatedLemma ==
  /\ ~(MemberCount > 0) => Separated = text
  /\ MemberCount > 0 /\ text.expects = "comma" =>
       Separated = [text EXCEPT !.expects = IF JSON!Innermost(text) = "OBJECT" THEN "key"
                                                                              ELSE "value"]
BY Separates, Zenon DEF Separated

LEMMA MemberCountType == Typed => MemberCount \in 0 .. CountRange - 1
<1> SUFFICES ASSUME Typed PROVE MemberCount \in 0 .. CountRange - 1
  OBVIOUS
<1>1. CASE stack = <<>>
  BY <1>1, StreamingAssumption DEF MemberCount
<1>2. CASE stack # <<>>
  <2>1. stack[Len(stack)] \in Frame
    BY <1>2, OneMoreLemma, ElementOfSeq DEF Typed
  <2> QED BY <1>2, <2>1 DEF MemberCount, Frame
<1> QED BY <1>1, <1>2

(* The container the text is in is the one on top of the stack.             *)
LEMMA InnermostLemma ==
  ASSUME Typed, Agrees, stack # <<>>
  PROVE  JSON!Innermost(text) = Container
<1>1. stack \in Seq(Frame) /\ Len(stack) \in Nat \ {0}
  BY OneMoreLemma DEF Typed
<1>2. Len(text.open) = Len(stack) /\ text.open[Len(stack)] = stack[Len(stack)].type
  BY <1>1 DEF Agrees, StackMatches
<1>3. text.open # <<>>
  BY <1>1, <1>2, EmptySeq
<1> QED BY <1>2, <1>3 DEF JSON!Innermost, Container

LEMMA SeparatedInObject ==
  ASSUME Typed, Agrees, stack # <<>>, state = "EXPECT_KEY"
  PROVE  Separated \in Text /\ Separated.open = text.open /\ JSON!WantsKey(Separated)
<1>1. /\ text \in Text /\ MemberCount \in 0 .. CountRange - 1
      /\ text.expects = IF MemberCount = 0 THEN "first_key" ELSE "comma"
      /\ JSON!Innermost(text) = "OBJECT"
  BY MemberCountType, InnermostLemma DEF Typed, Agrees, InStep
<1>2. CASE MemberCount = 0
  BY <1>1, <1>2, SeparatedLemma, SeparatedType DEF JSON!WantsKey
<1>3. CASE MemberCount > 0
  <2>1. text.expects = "comma"
    BY <1>1, <1>3
  <2>2. Separated = [text EXCEPT !.expects = "key"]
    BY <1>1, <1>3, <2>1, SeparatedLemma
  <2> QED BY <1>1, <2>2, SeparatedType DEF Text, JSON!WantsKey
<1> QED BY <1>1, <1>2, <1>3, StreamingAssumption

LEMMA SeparatedInArray ==
  ASSUME Typed, Agrees, stack # <<>>, state = "EXPECT_ARRAY_VALUE", ArrayCounted
  PROVE  Separated \in Text /\ Separated.open = text.open /\ JSON!WantsValue(Separated)
<1>1. /\ text \in Text /\ MemberCount \in 0 .. CountRange - 1
      /\ text.expects \in {"first_value", "comma"}
      /\ text.expects = "first_value" <=> MemberCount = 0
      /\ JSON!Innermost(text) = "ARRAY"
  BY MemberCountType, InnermostLemma DEF Typed, Agrees, InStep, ArrayCounted
<1>2. CASE MemberCount = 0
  BY <1>1, <1>2, SeparatedLemma, SeparatedType DEF JSON!WantsValue
<1>3. CASE MemberCount > 0
  <2>1. text.expects = "comma"
    BY <1>1, <1>3
  <2>2. Separated = [text EXCEPT !.expects = "value"]
    BY <1>1, <1>3, <2>1, SeparatedLemma
  <2> QED BY <1>1, <2>2, SeparatedType DEF Text, JSON!WantsValue
<1> QED BY <1>1, <1>2, <1>3, StreamingAssumption

(* The member that is written has its count.                                *)
LEMMA MemberKeeps ==
  ASSUME Typed, StreamInv, stack # <<>>, MemberCount + 1 < CountRange,
         NEW size, NEW tokens, NEW next,
         Agrees => /\ tokens.open = text.open
                   /\ \/ next = "EXPECT_VALUE" /\ Container = "OBJECT" /\ tokens.expects = "value"
                      \/ /\ next = "EXPECT_ARRAY_VALUE" /\ Container = "ARRAY"
                         /\ tokens.expects = "comma",
         Member(size, tokens, next)
  PROVE  StreamInv'
<1>1. CASE Refuse("RENDER_FAILED")
  BY <1>1, RefuseKeeps
<1>2. CASE Fail("RENDER_FAILED")
  BY <1>2, Truncates
<1>3. CASE stack' = OneMoreMember /\ Write(CommaSize + size, tokens, next)
  <2> SUFFICES ASSUME Agrees PROVE InStep' /\ StackMatches'
    BY <1>3 DEF StreamInv, Agrees, Write
  <2>1. InStep /\ StackMatches
    BY DEF Agrees
  <2>2. /\ stack \in Seq(Frame) /\ Len(stack) \in Nat \ {0} /\ Len(stack') = Len(stack)
        /\ \A i \in 1 .. Len(stack) :
             /\ stack'[i].type = stack[i].type
             /\ i < Len(stack) => stack'[i].member_count = stack[i].member_count
    BY <1>3, OneMoreLemma DEF Typed
  <2>3. stack' # <<>>
    BY <2>2, EmptySeq
  <2>4. Container' = Container
    BY <2>2, <2>3 DEF Container
  <2>5. MemberCount' = MemberCount + 1 /\ MemberCount \in Nat
    <3>1. MemberCount' = (MemberCount + 1) % CountRange
      BY <1>3, <2>2, <2>3, OneMoreLemma DEF Typed, MemberCount
    <3>2. MemberCount \in 0 .. CountRange - 1
      BY MemberCountType
    <3>3. (MemberCount + 1) % CountRange = MemberCount + 1
      BY <3>2, StreamingAssumption
    <3> QED BY <3>1, <3>2, <3>3, StreamingAssumption
  <2>6. state' = next /\ text' = tokens
    BY <1>3 DEF Write
  <2>7. StackMatches'
    BY <2>1, <2>2, <2>6 DEF StackMatches
  <2>8. InStep'
    BY <2>4, <2>5, <2>6 DEF InStep
  <2> QED BY <2>7, <2>8
<1> QED BY <1>1, <1>2, <1>3 DEF Member

LEMMA KeyKeeps ==
  ASSUME Typed, StreamInv, KeepsRules, NEW size, Key(size)
  PROVE  StreamInv'
<1>1. CASE Refuse("UNEXPECTED_STATE") \/ Refuse("INVALID_OPERATION")
  BY <1>1, RefuseKeeps
<1> DEFINE tokens == JSON!Advance(JSON!Advance(Separated, "string"), ":")
<1>2. CASE /\ state = "EXPECT_KEY" /\ stack # <<>>
           /\ Member(size, tokens, "EXPECT_VALUE")
  <2>1. MemberCount + 1 < CountRange
    BY DEF Key, Keeps, KeepsRules
  <2>2. ASSUME Agrees
        PROVE  tokens.open = text.open /\ Container = "OBJECT" /\ tokens.expects = "value"
    <3>1. Separated \in Text /\ Separated.open = text.open /\ JSON!WantsKey(Separated)
      BY <1>2, <2>2, SeparatedInObject
    <3>2. tokens = [Separated EXCEPT !.expects = "value"]
      BY <3>1, TakesKey
    <3>3. Container = "OBJECT"
      BY <1>2, <2>2 DEF Agrees, InStep
    <3> QED BY <3>1, <3>2, <3>3 DEF Text
  <2> HIDE DEF tokens
  <2> QED BY <1>2, <2>1, <2>2, MemberKeeps
<1> QED BY <1>1, <1>2 DEF Key

LEMMA ValueKeeps ==
  ASSUME Typed, StreamInv, KeepsRules, NEW size, Value(size)
  PROVE  StreamInv'
<1>1. CASE Refuse("UNEXPECTED_STATE")
  BY <1>1, RefuseKeeps
<1>2. CASE Fail("RENDER_FAILED")
  BY <1>2, Truncates
<1>3. CASE /\ state \in {"EXPECT_VALUE", "EXPECT_ARRAY_VALUE"} /\ Container = "ARRAY"
           /\ Member(size, JSON!Advance(Separated, "scalar"), "EXPECT_ARRAY_VALUE")
  <2> DEFINE tokens == JSON!Advance(Separated, "scalar")
  <2>1. stack # <<>>
    BY <1>3 DEF Container
  <2>2. MemberCount + 1 < CountRange /\ ArrayCounted
    BY DEF Value, Keeps, KeepsRules
  <2>3. ASSUME Agrees PROVE tokens.open = text.open /\ tokens.expects = "comma"
    <3>1. state = "EXPECT_ARRAY_VALUE"
      BY <1>3, <2>3 DEF Agrees, InStep
    <3>2. Separated.open = text.open /\ JSON!WantsValue(Separated)
      BY <2>1, <2>2, <2>3, <3>1, SeparatedInArray
    <3>3. tokens = JSON!Valued(text.open)
      BY <3>2, TakesScalar
    <3>4. text.open # <<>>
      BY <1>3, <2>1, <2>3, InnermostLemma DEF JSON!Innermost
    <3> QED BY <3>3, <3>4 DEF JSON!Valued
  <2> HIDE DEF tokens
  <2> QED BY <1>3, <2>1, <2>2, <2>3, MemberKeeps DEF tokens
<1>4. ASSUME state \in {"EXPECT_VALUE", "EXPECT_ARRAY_VALUE"}, Container # "ARRAY",
             UNCHANGED stack, NEW next \in AfterSingleValue,
             Write(size, JSON!Advance(text, "scalar"), next)
      PROVE  StreamInv'
  <2> SUFFICES ASSUME Agrees PROVE InStep' /\ StackMatches'
    BY <1>4 DEF StreamInv, Agrees, Write
  <2>1. InStep /\ StackMatches
    BY DEF Agrees
  <2>2. /\ state = "EXPECT_VALUE" /\ Container = "OBJECT" /\ MemberCount > 0
        /\ text.expects = "value" /\ stack # <<>> /\ next = "EXPECT_KEY"
    BY <1>4, <2>1 DEF InStep, Container, AfterSingleValue
  <2>3. text.open # <<>>
    BY <2>2, InnermostLemma DEF JSON!Innermost
  <2>4. text' = [open |-> text.open, expects |-> "comma"] /\ state' = next
    BY <1>4, <2>2, <2>3, TakesScalar DEF Write, JSON!Valued, JSON!WantsValue
  <2>5. Container' = Container /\ MemberCount' = MemberCount /\ MemberCount \in Nat
    BY <1>4, MemberCountType, StreamingAssumption DEF Container, MemberCount
  <2>6. StackMatches'
    BY <1>4, <2>1, <2>4 DEF StackMatches
  <2>7. InStep'
    BY <2>2, <2>4, <2>5 DEF InStep
  <2> QED BY <2>6, <2>7
<1> QED BY <1>1, <1>2, <1>3, <1>4 DEF Value

LEMMA InitKeeps == Init => StreamInv
<1> SUFFICES ASSUME Init PROVE Agrees
  BY DEF StreamInv
<1>1. Len(stack) = 0 /\ Len(text.open) = 0
  BY EmptySeq DEF Init, JSON!Start
<1> QED BY <1>1 DEF Init, Agrees, InStep, StackMatches

LEMMA InitStreamingKeeps == InitStreaming => StreamInv'
<1> SUFFICES ASSUME InitStreaming PROVE Agrees'
  BY DEF StreamInv
<1>1. Len(stack') = 0 /\ Len(text'.open) = 0
  BY EmptySeq DEF InitStreaming, JSON!Start
<1> QED BY <1>1 DEF InitStreaming, Agrees, InStep, StackMatches

LEMMA StepKeeps ==
  ASSUME KeepsRules
  PROVE  Typed /\ StreamInv /\ [Next]_vars => StreamInv'
<1> SUFFICES ASSUME Typed, StreamInv, [Next]_vars PROVE StreamInv'
  OBVIOUS
<1>1. CASE ObjectStart
  <2>1. \A g : JSON!WantsValue(g) => JSON!Advance(g, "{") = JSON!Opened(g, "OBJECT", "first_key")
    BY OpensObject, Zenon
  <2> QED BY <1>1, <2>1, StartKeeps, Zenon DEF ObjectStart, ContainerType
<1>2. CASE ArrayStart
  <2>1. \A g : JSON!WantsValue(g) => JSON!Advance(g, "[") = JSON!Opened(g, "ARRAY", "first_value")
    BY OpensArray, Zenon
  <2> QED BY <1>2, <2>1, StartKeeps, Zenon DEF ArrayStart, ContainerType
<1>3. CASE ObjectEnd
  <2>1. \A g : JSON!Innermost(g) = "OBJECT" /\ g.expects \in {"first_key", "comma"}
                 => JSON!Advance(g, "}") = JSON!Closed(g)
    BY ClosesObject, Zenon
  <2>2. "EXPECT_KEY" = AfterValue("OBJECT")
    BY DEF AfterValue
  <2> QED BY <1>3, <2>1, <2>2, EndKeeps, Zenon DEF ObjectEnd, ContainerType
<1>4. CASE ArrayEnd
  <2>1. \A g : JSON!Innermost(g) = "ARRAY" /\ g.expects \in {"first_value", "comma"}
                 => JSON!Advance(g, "]") = JSON!Closed(g)
    BY ClosesArray, Zenon
  <2>2. "EXPECT_ARRAY_VALUE" = AfterValue("ARRAY")
    BY DEF AfterValue
  <2> QED BY <1>4, <2>1, <2>2, EndKeeps, Zenon DEF ArrayEnd, ContainerType
<1>5. ASSUME NEW size \in KeySizes, Key(size) PROVE StreamInv'
  BY <1>5, KeyKeeps
<1>6. ASSUME NEW size \in ValueSizes, Value(size) PROVE StreamInv'
  BY <1>6, ValueKeeps
<1>7. CASE TakeStatus
  <2>1. UNCHANGED truncated /\ (Agrees => Agrees')
    BY <1>7 DEF TakeStatus, Agrees, InStep, StackMatches, Container, MemberCount
  <2> QED BY <2>1 DEF StreamInv
<1>8. CASE InitStreaming
  BY <1>8, InitStreamingKeeps
<1>9. CASE UNCHANGED vars
  <2>1. UNCHANGED truncated /\ (Agrees => Agrees')
    BY <1>9 DEF vars, Agrees, InStep, StackMatches, Container, MemberCount
  <2> QED BY <2>1 DEF StreamInv
<1> QED BY <1>1, <1>2, <1>3, <1>4, <1>5, <1>6, <1>7, <1>8, <1>9 DEF Next

(***************************************************************************)
(* The invariant holds of every behaviour of a caller that keeps its arrays *)
(* plain and its containers short.                                          *)
(***************************************************************************)
THEOREM StreamingInvariant ==
  ASSUME KeepsRules
  PROVE  Spec => [](Typed /\ StreamInv)
<1>1. Init => Typed /\ StreamInv
  BY InitType, InitKeeps
<1>2. (Typed /\ StreamInv) /\ [Next]_vars => (Typed /\ StreamInv)'
  BY StepType, StepKeeps
<1> QED BY <1>1, <1>2, PTL DEF Spec

(***************************************************************************)
(* For such a caller, in a buffer of any size and to any depth: whatever    *)
(* the order of the calls, and however many of them are refused and         *)
(* forgiven, what is written while there is room is the beginning of a JSON *)
(* text, complete just when the serializer says so.                         *)
(***************************************************************************)
THEOREM StreamingText ==
  ASSUME KeepsRules
  PROVE  Spec => []StreamsJson
<1>1. Typed /\ StreamInv => StreamsJson
  <2>1. Typed /\ Agrees => text.expects # "wrong" /\ (state = "END" <=> text.expects = "end")
    BY DEF Typed, States, Agrees, InStep, JSON!Start
  <2> QED BY <2>1 DEF StreamInv, StreamsJson
<1> QED BY <1>1, StreamingInvariant, PTL

(***************************************************************************)
(* The stack and the member counters, which are all that a later call goes  *)
(* by, know what has been written: no failed call leaves them out of step   *)
(* with the text, except one that found too little room.                    *)
(***************************************************************************)
THEOREM StreamingStack ==
  ASSUME KeepsRules
  PROVE  Spec => []StackMirrorsText
<1>1. Typed /\ StreamInv => StackMirrorsText
  <2>1. Typed => DOMAIN stack = 1 .. Len(stack)
    BY LenProperties DEF Typed
  <2>2. Typed /\ Agrees =>
          /\ Len(stack) = Len(text.open)
          /\ \A i \in DOMAIN stack : stack[i].type = text.open[i]
          /\ state = "EXPECT_KEY" =>
               /\ Container = "OBJECT"
               /\ text.expects = IF MemberCount = 0 THEN "first_key" ELSE "comma"
          /\ state = "EXPECT_ARRAY_VALUE" => Container = "ARRAY"
    BY <2>1 DEF Agrees, InStep, StackMatches
  <2> QED BY <2>2 DEF StreamInv, StackMirrorsText
<1> QED BY <1>1, StreamingInvariant, PTL
============================================================================
