----------------------------- MODULE JesStreaming --------------------------
(***************************************************************************)
(* The streaming serializer of jes_serializer.c: jes_render_... calls that  *)
(* write a JSON text into a buffer as they come, with a stack of the open   *)
(* containers and an error that sticks until the caller takes it.           *)
(*                                                                         *)
(* text is what the grammar of JSON makes of the bytes written so far.  A   *)
(* call that finds a sticky error does nothing and is left out.  Rules      *)
(* names the obligations the caller keeps to.                               *)
(***************************************************************************)
EXTENDS Integers, Sequences

CONSTANTS
  MaxDepth,        \* JES_STREAMING_SERIALIZER_MAX_DEPTH
  WorkspaceDepth,  \* containers the workspace has room for; jes_init_streaming asks for MaxDepth
  ContainerSize,   \* sizeof(struct jes_streaming_container)
  CountRange,      \* number of values of member_count (uint16_t: 65536)
  OutputSize,      \* size of the output buffer in bytes
  KeySizes,        \* bytes a key takes, with its quotes and colon
  ValueSizes,      \* bytes a value takes, the quotes of a string included
  Rules

RuleNames == {"depth", "plain_arrays", "short_containers"}

ASSUME StreamingAssumption ==
  /\ MaxDepth \in Nat \ {0} /\ WorkspaceDepth \in Nat /\ WorkspaceDepth >= MaxDepth
  /\ ContainerSize \in Nat \ {0} /\ OutputSize \in Nat
  /\ CountRange \in Nat /\ CountRange > 1
  /\ KeySizes \subseteq Nat \ {0} /\ ValueSizes \subseteq Nat \ {0}
  /\ Rules \subseteq RuleNames

VARIABLES
  state,           \* ctx->state; "ABORTED" after a failed assert()
  stack,           \* the open containers, the innermost last
  room,            \* ctx->out_buffer_size: what is left of the buffer
  sticky_error,
  text,            \* what JsonGrammar makes of the bytes written
  truncated        \* some call found too little room, and what it had done was not undone

vars == <<state, stack, room, sticky_error, text, truncated>>

JSON == INSTANCE JsonGrammar

Keeps(rule, condition) == rule \in Rules => condition

Running == state # "ABORTED"

(* jes_init_streaming sets everything but sticky_error, which has the value *)
(* the workspace happens to hold ("GARBAGE": any but NO_ERROR).             *)
Init ==
  /\ state = "START" /\ stack = <<>> /\ room = OutputSize
  /\ sticky_error \in {"NO_ERROR", "GARBAGE"}
  /\ text = JSON!Start /\ truncated = FALSE

InitStreaming ==      \* on the workspace as it is, or zeroed first
  /\ Running
  /\ state' = "START" /\ stack' = <<>> /\ room' = OutputSize
  /\ sticky_error' \in {sticky_error, "NO_ERROR"}
  /\ text' = JSON!Start /\ truncated' = FALSE

----------------------------------------------------------------------------
(* The stack.                                                               *)

(* stack_size is a number of bytes, and is compared with a number of        *)
(* containers.                                                              *)
StackFull == Len(stack) = MaxDepth * ContainerSize

Container == IF stack = <<>> THEN "UNKNOWN" ELSE stack[Len(stack)].type

MemberCount == IF stack = <<>> THEN 0 ELSE stack[Len(stack)].member_count

MemberUncounted == stack         \* faulty

OneMoreMember ==
  [stack EXCEPT ![Len(stack)].member_count = (@ + 1) % CountRange]

PopNothing == stack              \* faulty

Pop == SubSeq(stack, 1, Len(stack) - 1)

----------------------------------------------------------------------------
(* One call.                                                                *)

FitsWithoutNul(size) == size <= room     \* faulty: off by one

Fits(size) == size < room        \* a terminating NUL has to fit as well

Fail(s) == sticky_error' = s /\ truncated' = (truncated \/ s = "RENDER_FAILED")

Refuse(s) == Fail(s) /\ UNCHANGED <<state, stack, room, text>>

(* The bytes of the tokens are written, and the call is done.               *)
Write(size, tokens, next) ==
  /\ room' = room - size
  /\ text' = tokens
  /\ state' = next
  /\ sticky_error' = "NO_ERROR"
  /\ UNCHANGED truncated

(* The state after a value, by the container it is in.                      *)
AfterValue(container) == IF container = "OBJECT" THEN "EXPECT_KEY" ELSE "EXPECT_ARRAY_VALUE"

(* The state after the value of a key.  Without a container an assertion    *)
(* fails, or, in a build without assertions, the state stays.               *)
AfterSingleValue == IF Container = "OBJECT" THEN {"EXPECT_KEY"} ELSE {"ABORTED", state}

(* What the caller keeps to in an array: a container is its only element,   *)
(* for the serializer writes no comma in front of one, nor counts it.  (An  *)
(* array whose counter has wrapped round to zero looks the same.)           *)
ArrayCounted ==
  state = "EXPECT_ARRAY_VALUE" => (text.expects = "first_value" <=> MemberCount = 0)
ArrayEmpty == state = "EXPECT_ARRAY_VALUE" => text.expects = "first_value"

(* jes_render_object_start and jes_render_array_start.  The container is on *)
(* the stack even if its opening no longer fits.                            *)
ContainerStart(container, token, next) ==
  /\ Running /\ sticky_error = "NO_ERROR"
  /\ Keeps("depth", StackFull \/ Len(stack) < WorkspaceDepth)
  /\ Keeps("plain_arrays", ArrayEmpty)
  /\ \/ /\ state \notin {"START", "EXPECT_VALUE", "EXPECT_ARRAY_VALUE"}
        /\ Refuse("UNEXPECTED_STATE")
     \/ /\ state \in {"START", "EXPECT_VALUE", "EXPECT_ARRAY_VALUE"} /\ StackFull
        /\ Refuse("MAX_DEPTH_EXCEEDED")
     \/ /\ state \in {"START", "EXPECT_VALUE", "EXPECT_ARRAY_VALUE"} /\ ~StackFull
        /\ stack' = Append(stack, [type |-> container, member_count |-> 0])
        /\ \/ Fits(1) /\ Write(1, JSON!Advance(text, token), next)
           \/ ~Fits(1) /\ Fail("RENDER_FAILED") /\ UNCHANGED <<state, room, text>>

ObjectStart == ContainerStart("OBJECT", "{", "EXPECT_KEY")
ArrayStart == ContainerStart("ARRAY", "[", "EXPECT_ARRAY_VALUE")

(* jes_render_object_end and jes_render_array_end.                          *)
ContainerEnd(expected, token) ==
  /\ Running /\ sticky_error = "NO_ERROR"
  /\ \/ state # expected /\ Refuse("UNEXPECTED_STATE")
     \/ /\ state = expected
        /\ stack' = Pop
        /\ \/ Fits(1) /\ Write(1, JSON!Advance(text, token),
                              IF Len(stack) <= 1 THEN "END"
                              ELSE AfterValue(stack[Len(stack) - 1].type))
           \/ ~Fits(1) /\ Fail("RENDER_FAILED") /\ UNCHANGED <<state, room, text>>

ObjectEnd == ContainerEnd("EXPECT_KEY", "}")
ArrayEnd == ContainerEnd("EXPECT_ARRAY_VALUE", "]")

(* The comma in front of every member but the first, and the count of it.   *)
CommaSize == IF MemberCount > 0 THEN 1 ELSE 0
Separated == IF MemberCount > 0 THEN JSON!Advance(text, ",") ELSE text

(* The comma stays written and the member counted when the rest of the      *)
(* member no longer fits.                                                   *)
Member(size, tokens, next) ==
  \/ CommaSize = 1 /\ ~Fits(1) /\ Refuse("RENDER_FAILED")
  \/ /\ CommaSize = 1 => Fits(1)
     /\ stack' = OneMoreMember
     /\ \/ Fits(CommaSize + size) /\ Write(CommaSize + size, tokens, next)
        \/ /\ ~Fits(CommaSize + size) /\ Fail("RENDER_FAILED")
           /\ room' = room - CommaSize
           /\ text' = Separated
           /\ UNCHANGED state

(* jes_render_key.                                                          *)
Key(size) ==
  /\ Running /\ sticky_error = "NO_ERROR"
  /\ Keeps("short_containers", MemberCount + 1 < CountRange)
  /\ \/ state # "EXPECT_KEY" /\ Refuse("UNEXPECTED_STATE")
     \/ state = "EXPECT_KEY" /\ stack = <<>> /\ Refuse("INVALID_OPERATION")
     \/ /\ state = "EXPECT_KEY" /\ stack # <<>>
        /\ Member(size, JSON!Advance(JSON!Advance(Separated, "string"), ":"), "EXPECT_VALUE")

(* The calls that render a string, number or literal: the value of a key,   *)
(* or an element of an array.                                               *)
Value(size) ==
  /\ Running /\ sticky_error = "NO_ERROR"
  /\ Keeps("plain_arrays", ArrayCounted)
  /\ Keeps("short_containers", MemberCount + 1 < CountRange)
  /\ \/ /\ state \notin {"EXPECT_VALUE", "EXPECT_ARRAY_VALUE"}
        /\ Refuse("UNEXPECTED_STATE")
     \/ /\ state \in {"EXPECT_VALUE", "EXPECT_ARRAY_VALUE"} /\ Container = "ARRAY"
        /\ Member(size, JSON!Advance(Separated, "scalar"), "EXPECT_ARRAY_VALUE")
     \/ /\ state \in {"EXPECT_VALUE", "EXPECT_ARRAY_VALUE"} /\ Container # "ARRAY"
        /\ UNCHANGED stack
        /\ \/ ~Fits(size) /\ Fail("RENDER_FAILED") /\ UNCHANGED <<state, room, text>>
           \/ /\ Fits(size)
              /\ \E next \in AfterSingleValue : Write(size, JSON!Advance(text, "scalar"), next)

(* jes_take_streaming_status.                                               *)
TakeStatus ==
  /\ Running /\ sticky_error # "NO_ERROR"
  /\ sticky_error' = "NO_ERROR"
  /\ UNCHANGED <<state, stack, room, text, truncated>>

Next ==
  \/ ObjectStart
  \/ ObjectEnd
  \/ ArrayStart
  \/ ArrayEnd
  \/ \E size \in KeySizes : Key(size)
  \/ \E size \in ValueSizes : Value(size)
  \/ TakeStatus
  \/ InitStreaming

Spec == Init /\ [][Next]_vars

----------------------------------------------------------------------------

States == {"START", "EXPECT_KEY", "EXPECT_VALUE", "EXPECT_ARRAY_VALUE", "END", "ABORTED"}
Errors == {"NO_ERROR", "GARBAGE", "UNEXPECTED_STATE", "MAX_DEPTH_EXCEEDED",
           "RENDER_FAILED", "INVALID_OPERATION"}
Frame == [type : {"OBJECT", "ARRAY"}, member_count : 0 .. CountRange - 1]

TypeOK ==
  /\ state \in States
  /\ stack \in Seq(Frame)
  /\ IF OutputSize = 0 THEN room = 0 ELSE room \in 1 .. OutputSize    \* the NUL fits
  /\ sticky_error \in Errors
  /\ text \in [open : Seq({"OBJECT", "ARRAY"}), expects : JSON!Expectation]
  /\ truncated \in BOOLEAN

(***************************************************************************)
(* Whatever the order of the calls, and however many of them fail and are   *)
(* forgiven: as long as the buffer has room, the bytes written are the      *)
(* beginning of a JSON text, which is complete just when the serializer     *)
(* has reached its end state.                                               *)
(***************************************************************************)
StreamsJson == ~truncated => text.expects # "wrong" /\ (state = "END" <=> text.expects = "end")

(***************************************************************************)
(* The stack and the state know what has been written: the open containers  *)
(* are the stack's, and a member counter is zero just as long as nothing    *)
(* was written into its container.                                          *)
(***************************************************************************)
StackMirrorsText ==
  ~truncated /\ state # "END" =>
    /\ Len(stack) = Len(text.open)
    /\ \A i \in DOMAIN stack : stack[i].type = text.open[i]
    /\ state = "EXPECT_KEY" =>
         /\ Container = "OBJECT"
         /\ text.expects = IF MemberCount = 0 THEN "first_key" ELSE "comma"
    /\ state = "EXPECT_ARRAY_VALUE" => Container = "ARRAY"
============================================================================
