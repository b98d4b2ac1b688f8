------------------------------ MODULE Framing -------------------------------
(***************************************************************************)
(* Frames on the serial line: write_frame and FrameWriter on the sending   *)
(* side, Receiver and parse on the other, plain_text for what programs     *)
(* print (rustypi-core/src/link.rs), and Link::poll (src/link.rs).         *)
(*                                                                         *)
(* A byte is a one-character string.  Codes of the characters are three    *)
(* bits, which XOR like the real ones, so that one digit holds a checksum. *)
(* Either noise comes, as much as there may be, and then a frame that       *)
(* arrives undamaged; or a program prints.  The receive counters are left  *)
(* out.                                                                    *)
(***************************************************************************)
EXTENDS Naturals, Sequences, SequencesExt, Bitwise

CONSTANTS
    MaxLine,        \* MAX_LINE
    MaxPayload,     \* bound: characters of a payload
    Bytes           \* bound: the bytes of noise, and what programs print

VARIABLES
    payload,    \* what the frame carries, as its sender has it
    isText,     \* whether a program prints instead
    sending,    \* what is still to come of the frame
    printed,    \* history: characters of the program's last line, and whether it has ended
    buf,        \* Receiver.buf, as far as Receiver.len
    overflow,   \* Receiver.overflow
    event       \* the last event: a frame, a rejected line, or none

vars == <<payload, isText, sending, printed, buf, overflow, event>>

Digits == <<"0", "1", "2", "3", "4", "5", "6", "7">>
Chars == {"$", "\n", "\r", "*", ",", "a", "2"}
Kind == <<"a">>
Code(c) == CASE c = "," -> 1 [] c = "a" -> 2 [] c = "2" -> 4 [] c = "?" -> 7 [] c = "*" -> 6 [] OTHER -> 5

Sum(text) == FoldLeft(LAMBDA acc, c: acc ^^ Code(c), 0, text)
-----------------------------------------------------------------------------
(* write_frame: what would break the framing goes out as a question mark,  *)
(* and an empty payload has no comma.                                      *)
Breaking == {"$", "\r", "\n"}

(* Mutated form of Clean: everything goes out as it is.                    *)
CleanNot(text) == text

Clean(text) == [i \in DOMAIN text |-> IF text[i] \in Breaking THEN "?" ELSE text[i]]
Body(kind, text) == kind \o (IF text = <<>> THEN <<>> ELSE <<",">> \o Clean(text))

WriteFrame(kind, text) ==
    <<"$">> \o Body(kind, text) \o <<"*", Digits[Sum(Body(kind, text)) + 1], "\n">>

(* Mutated form of PlainText: everything goes out as it is.                *)
PlainTextNot(text) == text

(* plain_text: text that can't be mistaken for a frame.                    *)
PlainText(text) == [i \in DOMAIN text |-> IF text[i] = "$" THEN "?" ELSE text[i]]

(* parse: the layout, the checksum, and the split at the first comma.      *)
None == [kind |-> <<>>, payload |-> <<>>]
Rejected(reason) == [kind |-> <<"E", "R", "R">>, payload |-> <<reason>>]
BadFrame == Rejected("bad frame")
TooLong == Rejected("line too long")

Split(body) ==
    LET at == SelectInSeq(body, LAMBDA c: c = ",")
    IN IF at = 0 THEN [kind |-> body, payload |-> <<>>]
       ELSE [kind |-> SubSeq(body, 1, at - 1), payload |-> SubSeq(body, at + 1, Len(body))]

Parse(line) ==
    LET n == Len(line)
        body == SubSeq(line, 2, n - 2)
    IN IF n < 3 \/ line[1] # "$" \/ line[n - 1] # "*" THEN BadFrame
       ELSE IF line[n] # Digits[Sum(body) + 1] THEN BadFrame
       ELSE Split(body)
-----------------------------------------------------------------------------
(* dispatch, store, discard and push.                                      *)
Dispatch == IF buf[1] # "$" THEN None ELSE Parse(buf)

Store(line, byte) ==
    /\ buf' = IF Len(line) < MaxLine THEN Append(line, byte) ELSE line
    /\ overflow' = (Len(line) >= MaxLine)

Discard == buf' = <<>> /\ overflow' = FALSE

Line == IF overflow THEN TooLong ELSE IF buf # <<>> THEN Dispatch ELSE None

Push(byte) ==
    /\ event' = IF byte = "\n" THEN Line ELSE None
    /\ CASE byte = "\r" -> UNCHANGED <<buf, overflow>>
         [] byte = "\n" -> Discard
         [] byte = "$" -> Store(<<>>, byte)
         [] OTHER -> Store(buf, byte)

(* A byte the UART flagged as damaged throws its line away.                *)
PushDamaged == Discard /\ event' = None

Frame == WriteFrame(Kind, payload)

Init ==
    /\ isText \in BOOLEAN
    /\ payload \in IF isText THEN {<<>>} ELSE UNION {[1..n -> Chars] : n \in 0..MaxPayload}
    /\ sending = IF isText THEN <<>> ELSE Frame
    /\ printed = [length |-> 0, ended |-> FALSE]
    /\ buf = <<>> /\ overflow = FALSE /\ event = None

Noise ==
    /\ ~isText /\ sending = Frame
    /\ PushDamaged \/ \E byte \in Bytes : Push(byte)
    /\ UNCHANGED <<payload, isText, sending, printed>>

Receive ==
    /\ sending # <<>>
    /\ Push(Head(sending)) /\ sending' = Tail(sending)
    /\ UNCHANGED <<payload, isText, printed>>

(* A program prints a character more; a line's length counts as far as one *)
(* character too many.                                                     *)
PrintText ==
    /\ isText
    /\ \E byte \in Bytes :
          /\ Push(PlainText(<<byte>>)[1])
          /\ LET before == IF printed.ended THEN 0 ELSE printed.length
             IN printed' = [length |-> IF byte \in {"\r", "\n"} \/ before > MaxLine THEN before ELSE before + 1,
                            ended |-> byte = "\n"]
    /\ UNCHANGED <<payload, isText, sending>>

Next == Noise \/ Receive \/ PrintText

Spec == Init /\ [][Next]_vars
-----------------------------------------------------------------------------
(* Every variable holds a value of its kind.                               *)
TypeOK == Len(buf) <= MaxLine /\ overflow \in BOOLEAN /\ printed.length \in 0..MaxLine + 1

(* A frame that arrives undamaged comes out as it was written, whatever    *)
(* came before it, a line that was too long included (link.rs: "A `$`      *)
(* always starts a new frame, so line noise before a frame can't swallow   *)
(* it"), and whatever its payload.  A frame longer than MAX_LINE, which    *)
(* send_fmt does not refuse, is rejected for its length and never cut.     *)
FrameGetsThrough ==
    sending = <<>> /\ ~isText =>
        event = IF Len(Frame) - 1 <= MaxLine THEN [kind |-> Kind, payload |-> Clean(payload)] ELSE TooLong

(* What a program prints is never taken for a frame, whatever bytes it     *)
(* prints (plain_text).  Its lines are dropped without a word, but for the *)
(* ones longer than MAX_LINE, which are rejected as too long when they     *)
(* end.                                                                    *)
TextIsNoFrame ==
    isText => event = IF printed.ended /\ printed.length > MaxLine THEN TooLong ELSE None
=============================================================================
