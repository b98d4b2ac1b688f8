------------------------------ MODULE Keyboard ------------------------------
(***************************************************************************)
(* Typing on a USB boot keyboard: the reports it sends, the keys they say  *)
(* were just pressed, the layout, the dead keys (Composer), the repeat of  *)
(* a held key (Repeater), the line being typed (LineEditor) and what the   *)
(* screen shows of it (src/sys/usb.rs, rustypi-core keys.rs, line.rs and   *)
(* the keyboard part of usb/mod.rs).                                       *)
(*                                                                         *)
(* Only the current contents of the keyboard are reported, so what the     *)
(* user does between two polls is an action of its own.  A character is a  *)
(* tuple of names: <<"a">>, <<"acute">>, or <<"acute", "a">> for a letter  *)
(* with an accent.  Time is counted in polls' steps: Delay and Rate are    *)
(* DELAY_US and RATE_US.                                                   *)
(***************************************************************************)
EXTENDS Naturals, Integers, Sequences, FiniteSets, SequencesExt

CONSTANTS
    Keys,           \* the keys of the keyboard
    MaxHeld,        \* key slots of a report: more keys held give a rollover report
    MaxLine,        \* MAX_LINE, in bytes
    Delay, Rate,    \* DELAY_US and RATE_US, in units of time
    Steps,          \* how much time may pass between two polls
    MaxPresses      \* bound: presses of the user

VARIABLES
    down,       \* keys physically held, in the order they were pressed
    ctrl,       \* whether Ctrl is held
    changed,    \* the keyboard has something to report
    layout,     \* LAYOUT
    previous,   \* KeyboardState.previous: the keys of the last report
    line,       \* LineEditor.line
    accent,     \* Composer.accent, <<>> for None
    repeat,     \* Repeater.held: the key and the time left, NoKey for None
    screen,     \* what the echo put after the last newline
    input,      \* what the last poll handed to on_input
    presses,    \* presses so far
    typed,      \* per key, how often its present press was typed (repeats aside)
    rolled      \* a rollover report has been taken

user == <<down, ctrl, changed, presses>>
vars == <<down, ctrl, changed, layout, previous, line, accent, repeat, screen,
          input, presses, typed, rolled>>

NoKey == [key |-> "none", left |-> 0]
ROLLOVER == "rollover"
Accents == {"acute", "diaeresis"}

(* Layout::key and what it is made of: what a key types.                   *)
Letter(key) == IF key \in {"a", "c", "u", "l"} THEN {key} ELSE {}

Char(lay, key) ==
    CASE key = "enter" -> <<"newline">>
      [] key = "erase" -> <<"backspace">>
      [] key = "space" -> <<"space">>
      [] key = "acute" -> IF lay = "us" THEN <<"=">> ELSE <<"acute">>
      [] key = "diaeresis" -> IF lay = "us" THEN <<"]">> ELSE <<"diaeresis">>
      [] key = "shift" -> <<>>
      [] OTHER -> <<key>>

Key(lay, key, control) ==
    IF control
    THEN [kind |-> IF Letter(key) = {} THEN "none" ELSE "ctrl", of |-> <<key>>]
    ELSE IF Char(lay, key) = <<>> THEN [kind |-> "none", of |-> <<>>]
    ELSE [kind |-> IF lay = "sv" /\ key \in Accents THEN "dead" ELSE "char",
          of |-> Char(lay, key)]

(* compose: the letters Latin-1 has with an accent on.                     *)
Compose(mark, c) == IF c \in {<<"a">>, <<"u">>} THEN {mark \o c} ELSE {}

(* Composer::char and Composer::dead: the characters that come out.        *)
Composed(mark, c) ==
    CASE mark = <<>> -> <<c>>
      [] mark # <<>> /\ Compose(mark, c) # {} -> <<mark \o c>>
      [] mark # <<>> /\ c = <<"backspace">> -> <<>>
      [] mark # <<>> /\ c = <<"space">> -> <<mark>>
      [] OTHER -> <<mark, c>>

Dead(mark, new) ==
    [out |-> IF mark = <<>> THEN <<>> ELSE <<mark>>,
     accent |-> IF mark = new THEN <<>> ELSE new]

(* Bytes of a character in UTF-8, and of a line.                           *)
Width(c) == IF c[1] \in Accents THEN 2 ELSE 1
Bytes(l) == FoldLeft(LAMBDA sum, c: sum + Width(c), 0, l)

(* Mutated form of Fits: a byte to a character.                            *)
FitsByCount(l, c) == Len(l) < MaxLine

(* Mutated form of Erased: the screen keeps the character.                 *)
ErasedUnseen(ed) == [ed EXCEPT !.line = IF @ = <<>> THEN @ ELSE Front(@)]

(* Backspace, and the room left on the line.                               *)
Fits(l, c) == Bytes(l) + Width(c) <= MaxLine
Erased(ed) == IF ed.line = <<>> THEN ed ELSE [ed EXCEPT !.line = Front(@), !.screen = Front(@)]

(* LineEditor::feed, on the line, the screen and the lines handed on.      *)
Feed(ed, c) ==
    IF c = <<"newline">> THEN [line |-> <<>>, screen |-> <<>>, input |-> Append(ed.input, ed.line)]
    ELSE IF c = <<"backspace">> THEN Erased(ed)
    ELSE IF Fits(ed.line, c)
    THEN [ed EXCEPT !.line = Append(@, c), !.screen = Append(@, c)]
    ELSE ed

FeedAll(ed, chars) == FoldLeft(Feed, ed, chars)

(* type_key: the keyboard's state k after a key.  k.repeats says whether   *)
(* the key repeats when held.                                              *)
TypeKey(k, key, control) ==
    LET what == Key(k.layout, key, control)
        dead == Dead(k.accent, what.of)
    IN CASE what.kind = "char" ->
              [k EXCEPT !.ed = FeedAll(@, Composed(k.accent, what.of)), !.accent = <<>>, !.repeats = TRUE]
         [] what.kind = "dead" ->
              [k EXCEPT !.ed = FeedAll(@, dead.out), !.accent = dead.accent, !.repeats = FALSE]
         [] what.kind = "ctrl" /\ key = "c" ->
              [k EXCEPT !.ed = [line |-> <<>>, screen |-> <<>>, input |-> Append(@.input, "interrupt")],
                        !.accent = <<>>, !.repeats = FALSE]
         [] what.kind = "ctrl" /\ key = "u" ->
              [k EXCEPT !.ed = [@ EXCEPT !.line = <<>>,
                                         !.screen = SubSeq(@, 1, Len(@) - Len(k.ed.line))],
                        !.accent = <<>>, !.repeats = FALSE]
         [] what.kind = "ctrl" /\ key = "l" ->
              [k EXCEPT !.ed = [@ EXCEPT !.screen = k.ed.line], !.repeats = FALSE]
         [] OTHER -> [k EXCEPT !.repeats = FALSE]

(* The report of the keys held, and pressed_since.                         *)
Report == IF Len(down) > MaxHeld THEN [i \in 1..MaxHeld |-> ROLLOVER] ELSE down

(* Mutated form of PressedSince: every key of a report was just pressed.   *)
PressedAlready(report) == SelectSeq(report, LAMBDA key: key # ROLLOVER)

PressedSince(report) ==
    IF ROLLOVER \in ToSet(report) THEN <<>>
    ELSE SelectSeq(report, LAMBDA key: key \notin ToSet(previous))

(* Repeater::pressed and stop, for each key pressed; Repeater::due.        *)
Press1(k, key) ==
    LET after == TypeKey(k, key, ctrl)
    IN [after EXCEPT !.repeat = IF after.repeats THEN [key |-> key, left |-> Delay] ELSE NoKey]

Following(left) == IF left + Rate > 0 THEN left + Rate ELSE Rate

(* Mutated form of StillHeld: a key repeats until another is pressed.      *)
StillHeldAlways(k, keys) == TRUE

(* Whether the key that repeats is among those held.                       *)
StillHeld(k, keys) == k.repeat.key \in ToSet(keys)

Due(k, keys, control) ==
    IF k.repeat = NoKey THEN k
    ELSE IF ~StillHeld(k, keys) THEN [k EXCEPT !.repeat = NoKey]
    ELSE IF k.repeat.left > 0 THEN k
    ELSE TypeKey([k EXCEPT !.repeat = [key |-> @.key, left |-> Following(@.left)]],
                 k.repeat.key, control)

(* The keyboard's state, after d units of time.  A repeat that is late by  *)
(* a whole RATE_US or more is late by RATE_US: due treats them alike.      *)
Later(left, d) == IF left - d > 0 - Rate THEN left - d ELSE 0 - Rate

State(d) ==
    [layout |-> layout, accent |-> accent, repeats |-> FALSE,
     repeat |-> IF repeat = NoKey THEN NoKey ELSE [key |-> repeat.key, left |-> Later(repeat.left, d)],
     ed |-> [line |-> line, screen |-> screen, input |-> <<>>]]

Become(k) ==
    /\ line' = k.ed.line /\ screen' = k.ed.screen /\ input' = k.ed.input
    /\ accent' = k.accent /\ repeat' = k.repeat
-----------------------------------------------------------------------------
Init ==
    /\ down = <<>> /\ ctrl = FALSE /\ changed = FALSE /\ presses = 0
    /\ layout = "us"
    /\ previous = <<>> /\ line = <<>> /\ accent = <<>> /\ repeat = NoKey
    /\ screen = <<>> /\ input = <<>>
    /\ typed = [k \in Keys |-> 0] /\ rolled = FALSE

(* The user presses or lets go of a key, or of Ctrl.  A key pressed again  *)
(* before a report shows it was let go is the same press to the driver.    *)
PressKey(key) ==
    /\ presses < MaxPresses /\ key \notin ToSet(down)
    /\ presses' = presses + 1
    /\ down' = Append(down, key)
    /\ changed' = TRUE
    /\ typed' = [typed EXCEPT ![key] = IF key \in ToSet(previous) THEN @ ELSE 0]
    /\ UNCHANGED <<ctrl, layout, previous, line, accent, repeat, screen, input, rolled>>

ReleaseKey(key) ==
    /\ key \in ToSet(down)
    /\ down' = SelectSeq(down, LAMBDA k: k # key)
    /\ changed' = TRUE
    /\ UNCHANGED <<ctrl, layout, previous, line, accent, repeat, screen, input, presses, typed, rolled>>

HoldCtrl ==
    /\ ctrl' = ~ctrl
    /\ changed' = TRUE
    /\ UNCHANGED <<down, layout, previous, line, accent, repeat, screen, input, presses, typed, rolled>>

(* The shell's `keyboard` command: set_layout.                             *)
SetLayout ==
    /\ layout' \in {"us", "sv"} \ {layout}
    /\ UNCHANGED <<user, previous, line, accent, repeat, screen, input, typed, rolled>>

(* KeyboardState::poll with a report: the keys just pressed are typed, in  *)
(* the report's order, then a held key's repeat if it is due.              *)
PollReport(d) ==
    LET report == Report
        pressed == PressedSince(report)
        after == FoldLeft(Press1, State(d), pressed)
    IN /\ Become(Due(after, report, ctrl))
       /\ previous' = report
       /\ changed' = FALSE
       /\ typed' = [k \in Keys |-> IF k \in ToSet(pressed) THEN typed[k] + 1 ELSE typed[k]]
       /\ rolled' = (rolled \/ ROLLOVER \in ToSet(report))
       /\ UNCHANGED <<down, ctrl, layout, presses>>

(* With nothing new to report: only a repeat may be due.                   *)
PollNothing(d) ==
    /\ ~changed
    /\ Become(Due(State(d), previous, ctrl))
    /\ UNCHANGED <<user, layout, previous, typed, rolled>>

(* With an error: nothing at all, after a pause.                           *)
PollError(d) ==
    /\ Become(State(d))
    /\ UNCHANGED <<user, layout, previous, typed, rolled>>

(* The hot-plug poll drops the keyboard, and sets up another: a fresh      *)
(* KeyboardState, with no key known to be held.                            *)
Replace ==
    /\ line # <<>> \/ accent # <<>> \/ previous # <<>>
    /\ previous' = <<>> /\ line' = <<>> /\ accent' = <<>> /\ repeat' = NoKey
    /\ input' = <<>>
    /\ down' = <<>> /\ ctrl' = FALSE /\ changed' = FALSE
    /\ UNCHANGED <<layout, screen, presses, typed, rolled>>

Next ==
    \/ \E key \in Keys : PressKey(key) \/ ReleaseKey(key)
    \/ HoldCtrl \/ SetLayout \/ Replace
    \/ \E d \in Steps : PollReport(d) \/ PollNothing(d) \/ PollError(d)

Spec == Init /\ [][Next]_vars
-----------------------------------------------------------------------------
(* Every variable holds a value of its kind.                               *)
TypeOK ==
    /\ ToSet(down) \subseteq Keys /\ ctrl \in BOOLEAN /\ changed \in BOOLEAN
    /\ layout \in {"us", "sv"}
    /\ ToSet(previous) \subseteq Keys \cup {ROLLOVER} /\ Len(previous) <= MaxHeld
    /\ repeat = NoKey \/ (repeat.key \in Keys /\ repeat.left <= Delay)
    /\ accent \in {<<>>} \cup {<<a>> : a \in Accents}
    /\ presses \in 0..MaxPresses /\ rolled \in BOOLEAN

(* What is typed is what is seen: the line the editor holds is always the  *)
(* end of what the screen shows, through dead keys, backspace, lines that  *)
(* are full, Ctrl+C, Ctrl+U and Ctrl+L (LineEditor's echo).                *)
EchoShowsLine ==
    /\ Len(screen) >= Len(line)
    /\ SubSeq(screen, Len(screen) - Len(line) + 1, Len(screen)) = line

(* The line never outgrows MAX_LINE bytes, however many bytes the          *)
(* characters on it take.                                                  *)
LineFits == Bytes(line) <= MaxLine

(* A press is typed once: a key held, and reported as held, was typed      *)
(* exactly once since it was pressed, repeats aside (pressed_since against *)
(* the report before), as long as no rollover report came between.         *)
PressTypedOnce ==
    rolled \/ \A key \in ToSet(down) \cap ToSet(previous) : typed[key] = 1

(* Only a key that the last report holds may still repeat, and never       *)
(* sooner than RATE_US from when it last did (Repeater::due).              *)
OnlyHeldRepeatsStep ==
  \/ repeat' = NoKey
  \/ repeat' = repeat
  \/ repeat'.key \in ToSet(previous') /\ repeat'.left \in 1..Delay
  \/ repeat'.key = repeat.key /\ repeat'.left < repeat.left
OnlyHeldRepeats == [][OnlyHeldRepeatsStep]_vars
=============================================================================
