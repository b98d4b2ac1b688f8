----------------------------- MODULE FileStore ------------------------------
(***************************************************************************)
(* What the filesystem promises its callers, whatever the power and the    *)
(* card do: a call changes one file or directory, all at once or not at    *)
(* all; when it answers Ok the change has been made; nothing else changes. *)
(* The one thing a reader may see in between is a file being removed that  *)
(* has lost its long name and shows its 8.3 alias.                         *)
(***************************************************************************)
EXTENDS Integers, FiniteSets

VARIABLES files,   \* what is stored: [path, name, kind, body]
          op,      \* the call under way: [do, path, name, kind, body]
          settled  \* it is going to answer Ok

vars == <<files, op, settled>>

NoCall == [do |-> "none"]
Named(o) == {f \in files : f.path = o.path /\ f.name = o.name}
\* A removed long name's file may be left under its alias.
Aliased(o) == {f \in files : f.path = o.path /\ f.name.base = o.name.base /\ f.name.n > 0}
Stored(o) == [path |-> o.path, name |-> o.name, kind |-> o.kind, body |-> o.body]

Begin ==
  /\ op = NoCall \/ settled
  /\ op' # NoCall /\ ~settled'
  /\ UNCHANGED files

Put ==
  /\ op.do = "put" /\ ~settled
  /\ files' = (files \ Named(op)) \cup {Stored(op)}
  /\ UNCHANGED <<op, settled>>

Delete ==
  /\ op.do = "remove" /\ ~settled
  /\ \E f \in Named(op) \cup Aliased(op) : files' = files \ {f}
  /\ UNCHANGED <<op, settled>>

LoseName ==
  /\ op.do = "remove" /\ ~settled
  /\ \E f \in Named(op), n \in 1..Cardinality(files) :
       files' = (files \ {f}) \cup {[f EXCEPT !.name.n = n]}
  /\ UNCHANGED <<op, settled>>

Settle ==
  /\ op # NoCall /\ ~settled
  /\ IF op.do = "put" THEN Stored(op) \in files ELSE Named(op) = {}
  /\ settled'
  /\ UNCHANGED <<files, op>>

\* The call answers, or the power fails.
End ==
  /\ op # NoCall
  /\ op' = NoCall /\ ~settled'
  /\ UNCHANGED files

Next == Begin \/ Put \/ Delete \/ LoseName \/ Settle \/ End

Init == op = NoCall /\ ~settled

Spec == Init /\ [][Next]_vars
=============================================================================
