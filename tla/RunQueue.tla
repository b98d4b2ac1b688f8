------------------------------ MODULE RunQueue ------------------------------
(***************************************************************************)
(* The scheduling policy, rustypi_core::sched::RunQueue: which task each   *)
(* core runs next.  A run queue is a record and every method of the Rust   *)
(* type an operator from a run queue to the run queue it leaves behind, so *)
(* that the kernel's scheduler (module Sched), which calls several methods *)
(* under one hold of its lock, composes them the way the code does.        *)
(*                                                                         *)
(* Time is kept relative: a sleeping task carries the number of time units *)
(* until its `until_us`, so "until_us <= now_us" is "no units are left".   *)
(* CPU accounting (ticks, window_ticks, recent_ticks, window_elapsed) is   *)
(* read by nothing but the task listing and is left out.                   *)
(***************************************************************************)
EXTENDS Naturals

CONSTANTS MaxTasks,  \* bound: how many task ids are ever handed out
          Cores,     \* the cores, numbered from 0
          Events,    \* the events tasks wait for
          NoTask     \* Option::None for a task id

ASSUME RunQueueAssumption ==
  /\ MaxTasks \in Nat
  /\ MaxTasks >= 2
  /\ Cores \subseteq Nat
  /\ 0 \in Cores
  /\ Events \subseteq Nat
  /\ NoTask \notin Nat

TaskIds == 0 .. MaxTasks - 1
-----------------------------------------------------------------------------
(* Task states.  A reaped or never added task is Gone: Rust's None.        *)

Running == [is |-> "Running", of |-> 0]
Ready == [is |-> "Ready", of |-> 0]
Sleeping(left) == [is |-> "Sleeping", of |-> left]
Waiting(e) == [is |-> "Waiting", of |-> e]
Blocked == [is |-> "Blocked", of |-> 0]
Finished == [is |-> "Finished", of |-> 0]
Gone == [is |-> "Gone", of |-> 0]

StateNames == {"Running", "Ready", "Sleeping", "Waiting", "Blocked", "Finished", "Gone"}
State == [is : StateNames, of : Nat]

Queue == [state       : [TaskIds -> State],
          wakePending : [TaskIds -> BOOLEAN],
          intrPending : [TaskIds -> BOOLEAN],
          current     : [Cores -> TaskIds \cup {NoTask}],
          idle        : [Cores -> TaskIds \cup {NoTask}],
          generation  : [Events -> Nat],
          len         : 0 .. MaxTasks]

\* A queue whose only task is the code already running on core 0.
New ==
  [state       |-> [t \in TaskIds |-> IF t = 0 THEN Running ELSE Gone],
   wakePending |-> [t \in TaskIds |-> FALSE],
   intrPending |-> [t \in TaskIds |-> FALSE],
   current     |-> [c \in Cores |-> IF c = 0 THEN 0 ELSE NoTask],
   idle        |-> [c \in Cores |-> NoTask],
   generation  |-> [e \in Events |-> 0],
   len         |-> 1]

IsIdle(q, t) == \E c \in Cores : q.idle[c] = t

IsCurrent(q, t) == \E c \in Cores : q.current[c] = t

\* Started cores other than `except` that run their idle task.
IdleCores(q, except) ==
  {c \in Cores \ {except} : q.current[c] # NoTask /\ IsIdle(q, q.current[c])}
-----------------------------------------------------------------------------
(* Adding and removing tasks.  The id of an added task is q.len.           *)

Add(q) == [q EXCEPT !.state[q.len] = Ready, !.len = q.len + 1]

AddIdle(q, core) == [Add(q) EXCEPT !.idle[core] = q.len]

StartCore(q, core) ==
  [AddIdle(q, core) EXCEPT !.state[q.len] = Running, !.current[core] = q.len]

\* Mutated form of FinishedTasks: also those a core still runs.
FinishedEvenIfRunning(q) == {t \in TaskIds : q.state[t] = Finished}

\* Finished tasks no core is running.
FinishedTasks(q) == {t \in TaskIds : q.state[t] = Finished /\ ~IsCurrent(q, t)}

Remove(q, gone) ==
  [q EXCEPT !.state = [t \in TaskIds |-> IF t \in gone THEN Gone ELSE q.state[t]],
            !.wakePending = [t \in TaskIds |-> t \notin gone /\ q.wakePending[t]],
            !.intrPending = [t \in TaskIds |-> t \notin gone /\ q.intrPending[t]]]
-----------------------------------------------------------------------------
(* What the running task of a core asks for.                               *)

\* A pending interrupt is taken, and cancels the sleep or the wait.
TakeInterrupt(q, core, state) ==
  LET t == q.current[core]
  IN  [q EXCEPT !.intrPending[t] = FALSE,
                !.state[t] = IF q.intrPending[t] THEN q.state[t] ELSE state]

SleepCurrent(q, core, left) == TakeInterrupt(q, core, Sleeping(left))

\* Mutated form of WaitCurrent: the generation isn't compared.
WaitRegardless(q, core, e, seen) == TakeInterrupt(q, core, Waiting(e))

WaitCurrent(q, core, e, seen) ==
  TakeInterrupt(q, core, IF q.generation[e] = seen
                         THEN Waiting(e)
                         ELSE q.state[q.current[core]])

BlockCurrent(q, core) ==
  LET t == q.current[core]
  IN  [q EXCEPT !.wakePending[t] = FALSE,
                !.state[t] = IF q.wakePending[t] THEN q.state[t] ELSE Blocked]

FinishCurrent(q, core) == [q EXCEPT !.state[q.current[core]] = Finished]
-----------------------------------------------------------------------------
(* What makes tasks ready.                                                 *)

Wake(q, t) ==
  IF q.state[t] = Blocked
  THEN [q EXCEPT !.state[t] = Ready]
  ELSE [q EXCEPT !.wakePending[t] = @ \/ q.state[t] \notin {Finished, Gone}]

WakeReadies(q, t) == q.state[t] = Blocked

Interrupt(q, t) ==
  IF q.state[t].is \in {"Sleeping", "Waiting"}
  THEN [q EXCEPT !.state[t] = Ready]
  ELSE [q EXCEPT !.intrPending[t] = @ \/ q.state[t].is \in {"Running", "Ready"}]

InterruptReadies(q, t) == q.state[t].is \in {"Sleeping", "Waiting"}

Notify(q, e) ==
  [q EXCEPT !.generation[e] = @ + 1,
            !.state = [t \in TaskIds |-> IF q.state[t] = Waiting(e) THEN Ready ELSE q.state[t]]]

NotifyReadies(q, e) == \E t \in TaskIds : q.state[t] = Waiting(e)

\* Sleepers whose time has come become ready.
Tick(q) ==
  [q EXCEPT !.state = [t \in TaskIds |-> IF q.state[t] = Sleeping(0) THEN Ready ELSE q.state[t]]]
-----------------------------------------------------------------------------
(* Round robin: the first ready task after the current one, wrapping       *)
(* around; then the current one; then the core's idle task.  `busy` are    *)
(* the tasks other cores are still switching away from.                    *)

\* Mutated form of Pickable: idle tasks are picked like any other.
PickableIdleToo(q, busy) == {t \in TaskIds : q.state[t] = Ready /\ t \notin busy}

Pickable(q, busy) == {t \in TaskIds : q.state[t] = Ready /\ ~IsIdle(q, t) /\ t \notin busy}

\* Mutated form of Distance: the lowest id always comes first.
DistanceFromZero(q, from, t) == t

\* How far after `from` task t is, going round the q.len ids: 1 .. q.len.
Distance(q, from, t) == IF t > from THEN t - from ELSE t + q.len - from

FirstAfter(q, from, among) ==
  CHOOSE t \in among : \A u \in among : Distance(q, from, t) <= Distance(q, from, u)

Chosen(q, core, preempt, busy) ==
  LET cur == q.current[core]
      keep == q.state[cur] = Running /\ ~IsIdle(q, cur)
  IN  IF keep /\ ~preempt THEN cur
      ELSE IF Pickable(q, busy) # {} THEN FirstAfter(q, cur, Pickable(q, busy))
      ELSE IF keep \/ q.idle[core] = NoTask THEN cur
      ELSE q.idle[core]

PickNext(q, core, preempt, busy) ==
  LET cur == q.current[core]
      next == Chosen(q, core, preempt, busy)
  IN  [q EXCEPT !.current[core] = next,
                !.state = [t \in TaskIds |->
                             IF t = next THEN Running
                             ELSE IF t = cur /\ q.state[cur] = Running THEN Ready
                             ELSE q.state[t]]]
=============================================================================
