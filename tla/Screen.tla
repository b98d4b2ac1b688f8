------------------------------- MODULE Screen -------------------------------
(***************************************************************************)
(* The screen (sys::console): the console's text drawn on the framebuffer, *)
(* and programs that borrow the screen from it.  The screen is behind      *)
(* SCREEN, which another core spins for; whether it is lent is LENT, which *)
(* is read and changed outside that lock as well.                          *)
(*                                                                         *)
(* The console's cells change only under the lock, so a write works out at *)
(* once what it will draw; drawing a cell is then two steps, the look at   *)
(* LENT and the pixels.  A program's calls hold PROCESSES, a spinlock,     *)
(* while they use the screen; a lease is given back without it.            *)
(*                                                                         *)
(* A cell shows a character, or what a program or the test pattern drew.   *)
(***************************************************************************)
EXTENDS Integers, Sequences, SequencesExt

CONSTANTS Cols, Rows, TabWidth,
          Printers,        \* tasks that print, clear the screen and test it
          Programs,
          Texts,           \* what is printed: sequences of characters
          Bars,            \* what test_pattern draws
          MaxPrints        \* bound: texts printed

VARIABLES cells, col, row, \* Console
          shown,           \* the framebuffer, cell by cell
          lent,            \* LENT
          screen,          \* who has SCREEN
          processes,       \* who has PROCESSES
          at,              \* where everyone is
          work,            \* what the holder of SCREEN has still to draw: <<cell, character>>
          leases,          \* the programs that have a Lease
          prints,
          patterned        \* whether test_pattern has drawn since the last redraw

console == <<cells, col, row>>
vars == <<console, shown, lent, screen, processes, at, work, leases, prints, patterned>>

Nobody == "nobody"
Old == "old"  \* drawn by a program that has since given the screen back
Tasks == Printers \cup Programs
Cells == (0 .. Cols - 1) \X (0 .. Rows - 1)

Go(t, place) == at' = [at EXCEPT ![t] = place]
-----------------------------------------------------------------------------
(* Console.  A state of it is [cells, col, row, draws]: what it has drawn  *)
(* so far is part of what a write computes.                                *)

\* redraw: every cell, row by row.
Redrawn(text) ==
  [i \in 1 .. Cols * Rows |->
     LET cell == <<(i - 1) % Cols, (i - 1) \div Cols>> IN <<cell, text[cell]>>]

\* Mutated form of Newline: the rows that moved aren't drawn again.
NewlineQuietly(c) ==
  IF c.row + 1 < Rows THEN [c EXCEPT !.col = 0, !.row = @ + 1]
  ELSE [c EXCEPT !.col = 0,
                 !.cells = [cell \in Cells |-> IF cell[2] + 1 < Rows THEN @[<<cell[1], cell[2] + 1>>] ELSE " "]]

Newline(c) ==
  LET up == [cell \in Cells |-> IF cell[2] + 1 < Rows THEN c.cells[<<cell[1], cell[2] + 1>>] ELSE " "]
  IN  IF c.row + 1 < Rows THEN [c EXCEPT !.col = 0, !.row = @ + 1]
      ELSE [c EXCEPT !.col = 0, !.cells = up, !.draws = @ \o Redrawn(up)]

Put(c, char) ==
  LET d == IF c.col = Cols THEN Newline(c) ELSE c
      cell == <<d.col, d.row>>
  IN  [d EXCEPT !.cells[cell] = char, !.draws = Append(@, <<cell, char>>), !.col = @ + 1]

Least(m, n) == IF m <= n THEN m ELSE n

\* One character of write_str.
WriteChar(c, char) ==
  CASE char = "\n" -> Newline(c)
    [] char = "\r" -> [c EXCEPT !.col = 0]
    [] char = "back" -> [c EXCEPT !.col = IF @ = 0 THEN 0 ELSE @ - 1]
    [] char = "\t" -> [c EXCEPT !.col = Least((@ \div TabWidth + 1) * TabWidth, Cols)]
    [] char = "control" -> c
    [] OTHER -> Put(c, char)

Written(text) == FoldLeft(WriteChar, [cells |-> cells, col |-> col, row |-> row, draws |-> <<>>], text)
-----------------------------------------------------------------------------
Init ==
  /\ cells = [c \in Cells |-> " "] /\ col = 0 /\ row = 0
  /\ shown = cells
  /\ lent = FALSE
  /\ screen = Nobody /\ processes = Nobody
  /\ at = [t \in Tasks |-> "idle"]
  /\ work = <<>>
  /\ leases = {}
  /\ prints = 0
  /\ patterned = FALSE

Locked(t) == screen = Nobody /\ screen' = t

\* A program that redraws inside a call of its own holds PROCESSES until it is done.
Released(t) == processes' = IF processes = t THEN Nobody ELSE processes

\* console::write_fmt
WriteFmt(t, text) ==
  LET c == Written(text)
  IN  /\ t \in Printers /\ at[t] = "idle" /\ prints < MaxPrints
      /\ Locked(t)
      /\ cells' = c.cells /\ col' = c.col /\ row' = c.row
      /\ work' = c.draws
      /\ prints' = prints + 1
      /\ Go(t, "cell")
      /\ UNCHANGED <<shown, lent, processes, leases, patterned>>

\* console::clear
Clear(t) ==
  /\ t \in Printers /\ at[t] = "idle" /\ prints < MaxPrints
  /\ Locked(t)
  /\ cells' = [c \in Cells |-> " "] /\ col' = 0 /\ row' = 0
  /\ work' = Redrawn(cells')
  /\ prints' = prints + 1
  /\ Go(t, "cell")
  /\ UNCHANGED <<shown, lent, processes, leases, patterned>>

\* Mutated form of DrawCell: the console draws whether the screen is lent or not.
DrawCellAlways(t) ==
  /\ at[t] = "cell" /\ work # <<>>
  /\ Go(t, "pixels")
  /\ UNCHANGED <<console, shown, lent, screen, processes, work, leases, prints, patterned>>

\* Cells::draw_cell: nothing is drawn while the screen is lent ...
DrawCell(t) ==
  /\ at[t] = "cell" /\ work # <<>>
  /\ IF lent THEN work' = Tail(work) /\ UNCHANGED at
     ELSE Go(t, "pixels") /\ UNCHANGED work
  /\ UNCHANGED <<console, shown, lent, screen, processes, leases, prints, patterned>>

\* ... and else the character is (Framebuffer::draw_char).
DrawChar(t) ==
  /\ at[t] = "pixels"
  /\ shown' = [shown EXCEPT ![Head(work)[1]] = Head(work)[2]]
  /\ work' = Tail(work)
  /\ Go(t, "cell")
  /\ UNCHANGED <<console, lent, screen, processes, leases, prints, patterned>>

\* The lock is let go of.
Unlock(t) ==
  /\ at[t] = "cell" /\ work = <<>>
  /\ screen' = Nobody
  /\ Released(t)
  /\ Go(t, "idle")
  /\ UNCHANGED <<console, shown, lent, work, leases, prints, patterned>>
-----------------------------------------------------------------------------
(* redraw and test_pattern                                                 *)

\* redraw, for the shell or for a lease given back.
StartRedraw(t) ==
  /\ at[t] = "redraw"
  /\ screen = Nobody
  /\ IF lent THEN Go(t, "idle") /\ Released(t) /\ UNCHANGED screen
     ELSE Go(t, "wipe") /\ screen' = t /\ UNCHANGED processes
  /\ UNCHANGED <<console, shown, lent, work, leases, prints, patterned>>

\* Framebuffer::clear, then every cell.
Wipe(t) ==
  /\ at[t] = "wipe"
  /\ shown' = [c \in Cells |-> " "]
  /\ work' = Redrawn(cells)
  /\ patterned' = FALSE
  /\ Go(t, "cell")
  /\ UNCHANGED <<console, lent, screen, processes, leases, prints>>

Redraw(t) ==
  /\ t \in Printers /\ at[t] = "idle"
  /\ Go(t, "redraw")
  /\ UNCHANGED <<console, shown, lent, screen, processes, work, leases, prints, patterned>>

TestPattern(t) ==
  /\ t \in Printers /\ at[t] = "idle" /\ ~patterned
  /\ screen = Nobody /\ ~lent
  /\ screen' = t
  /\ Go(t, "bars")
  /\ UNCHANGED <<console, shown, lent, processes, work, leases, prints, patterned>>

DrawBars(t) ==
  /\ at[t] = "bars"
  /\ shown' = [c \in Cells |-> Bars]
  /\ patterned' = TRUE
  /\ screen' = Nobody
  /\ Go(t, "idle")
  /\ UNCHANGED <<console, lent, processes, work, leases, prints>>
-----------------------------------------------------------------------------
(* A program's screen                                                      *)

\* handles::open_screen takes PROCESSES, and lend SCREEN for the size.
OpenScreen(p) ==
  /\ p \in Programs /\ at[p] = "idle" /\ p \notin leases
  /\ processes = Nobody
  /\ processes' = p
  /\ Go(p, "size")
  /\ UNCHANGED <<console, shown, lent, screen, work, leases, prints, patterned>>

LendSize(p) ==
  /\ at[p] = "size" /\ screen = Nobody
  /\ Go(p, "swap")
  /\ UNCHANGED <<console, shown, lent, screen, processes, work, leases, prints, patterned>>

\* Mutated form of Lend: a screen that is lent is lent again.
LendTwice(p) ==
  /\ at[p] = "swap"
  /\ lent' = TRUE
  /\ leases' = leases \cup {p}
  /\ Go(p, "leased")
  /\ UNCHANGED <<console, shown, screen, processes, work, prints, patterned>>

\* LENT.swap; Busy when it was set already.
Lend(p) ==
  /\ at[p] = "swap"
  /\ lent' = TRUE
  /\ IF lent THEN processes' = Nobody /\ Go(p, "idle") /\ UNCHANGED leases
     ELSE leases' = leases \cup {p} /\ Go(p, "leased") /\ UNCHANGED processes
  /\ UNCHANGED <<console, shown, screen, work, prints, patterned>>

\* The size goes to the program's memory and the lease to its handles ...
Keep(p) ==
  /\ at[p] = "leased"
  /\ processes' = Nobody
  /\ Go(p, "idle")
  /\ UNCHANGED <<console, shown, lent, screen, work, leases, prints, patterned>>

\* ... or the address is bad: the lease is dropped there, with PROCESSES held.
Fault(p) ==
  /\ at[p] = "leased"
  /\ leases' = leases \ {p}
  /\ lent' = FALSE
  /\ Go(p, "redraw")
  /\ UNCHANGED <<console, shown, screen, processes, work, prints, patterned>>

\* One row of handles::draw: under PROCESSES, spinning for SCREEN.
Draw(p) ==
  /\ at[p] = "idle" /\ p \in leases
  /\ processes = Nobody
  /\ processes' = p
  /\ Go(p, "row")
  /\ UNCHANGED <<console, shown, lent, screen, work, leases, prints, patterned>>

DrawRow(p, r) ==
  /\ at[p] = "row" /\ screen = Nobody
  /\ shown' = [c \in Cells |-> IF c[2] = r THEN p ELSE shown[c]]
  /\ processes' = Nobody
  /\ Go(p, "idle")
  /\ UNCHANGED <<console, lent, screen, work, leases, prints, patterned>>

Relabelled(p) == shown' = [c \in Cells |-> IF shown[c] = p THEN Old ELSE shown[c]]

\* Lease::drop, by close or because the program ends; then redraw.
GiveBack(p) ==
  /\ at[p] = "idle" /\ p \in leases
  /\ leases' = leases \ {p}
  /\ lent' = FALSE
  /\ Relabelled(p)
  /\ Go(p, "redraw")
  /\ UNCHANGED <<console, screen, processes, work, prints, patterned>>
-----------------------------------------------------------------------------
Drawing(t) == DrawCell(t) \/ DrawChar(t) \/ Unlock(t) \/ StartRedraw(t) \/ Wipe(t) \/ DrawBars(t)

Borrowing(p) ==
  \/ OpenScreen(p) \/ LendSize(p) \/ Lend(p) \/ Keep(p) \/ Fault(p)
  \/ Draw(p) \/ (\E r \in 0 .. Rows - 1 : DrawRow(p, r))
  \/ GiveBack(p)

Next ==
  \/ \E t \in Tasks : Drawing(t)
  \/ \E t \in Printers : Clear(t) \/ Redraw(t) \/ TestPattern(t) \/ \E text \in Texts : WriteFmt(t, text)
  \/ \E p \in Programs : Borrowing(p)

Spec == Init /\ [][Next]_vars
-----------------------------------------------------------------------------
(* Properties.                                                             *)

\* The console's cursor stays in its grid (one past the last column, at most), and everyone is
\* somewhere.
TypeOK ==
  /\ col \in 0 .. Cols /\ row \in 0 .. Rows - 1
  /\ lent \in BOOLEAN /\ patterned \in BOOLEAN
  /\ screen \in Tasks \cup {Nobody} /\ processes \in Programs \cup {Nobody}
  /\ leases \subseteq Programs
  /\ at \in [Tasks -> {"idle", "cell", "pixels", "redraw", "wipe", "bars", "size", "swap", "leased", "row"}]

\* "draws it all again once the screen comes back": when nobody has the screen and nobody is at work
\* on it, it shows the console's text, whatever was printed, cleared or drawn by programs meanwhile,
\* and whichever programs passed the screen on (the test pattern stays until something is drawn).
TextComesBack ==
  ~lent /\ ~patterned /\ screen = Nobody /\ (\A t \in Tasks : at[t] # "redraw") => shown = cells

\* What the holder of the screen has drawn stays there until it draws over it or gives the screen
\* back, while others print, scroll, clear and redraw. This is less than Lease's comment says ("only
\* its holder draws on it"): lend sets LENT without SCREEN, so a cell, a redraw or a test pattern
\* that looked at LENT before that is still drawn on the screen that is lent. A row of the holder's
\* waits for SCREEN, though, and so comes after it.
HoldersPixelsStayStep ==
  \A p \in Programs, c \in Cells :
    p \in leases /\ p \in leases' /\ shown[c] = p => shown'[c] = p
HoldersPixelsStay == [][HoldersPixelsStayStep]_vars

\* One program has the screen at a time, and LENT says whether one has.
LentOnce == /\ \A p, q \in leases : p = q
            /\ lent <=> leases # {}
=============================================================================
