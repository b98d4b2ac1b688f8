------------------------------ MODULE FifoLock ------------------------------
(***************************************************************************)
(* What a sleeping lock promises: tasks stand in line, and the first of    *)
(* the line and no one else is inside.                                     *)
(***************************************************************************)
EXTENDS Sequences

CONSTANT Tasks

VARIABLES line,   \* the tasks that have asked for the lock, in order
          inside  \* the tasks running their closure

vars == <<line, inside>>

Init == line = <<>> /\ inside = {}

Join(t) ==
  /\ \A i \in DOMAIN line : line[i] # t
  /\ line' = Append(line, t)
  /\ \E first \in BOOLEAN : inside' = IF first /\ line = <<>> THEN {t} ELSE inside

Enter(t) ==
  /\ line # <<>> /\ Head(line) = t /\ inside = {}
  /\ inside' = {t}
  /\ UNCHANGED line

Leave(t) ==
  /\ inside = {t}
  /\ inside' = {}
  /\ line' = Tail(line)

Next == \E t \in Tasks : Join(t) \/ Enter(t) \/ Leave(t)

Spec == Init /\ [][Next]_vars
=============================================================================
