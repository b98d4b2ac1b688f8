---------------------------- MODULE SchedProofs -----------------------------
(***************************************************************************)
(* The run queue and what the scheduler keeps in every behaviour.          *)
(***************************************************************************)
EXTENDS Sched, TLAPS, WellFoundedInduction
-----------------------------------------------------------------------------
(***************************************************************************)
(* Facts about the run queue's operations: what each of them returns, and  *)
(* what pick_next may pick.                                                *)
(***************************************************************************)

\* The ids handed out are numbers, and none of them is NoTask.
LEMMA TaskIdsFacts ==
  /\ \A t \in TaskIds : t \in Nat /\ t # NoTask
  /\ NoTask \notin TaskIds
  /\ 0 \in TaskIds /\ 1 \in TaskIds
  BY RunQueueAssumption, SMT DEF TaskIds

\* The states the operations write are states.
LEMMA StateFacts ==
  /\ Running \in State /\ Ready \in State /\ Blocked \in State
  /\ Finished \in State /\ Gone \in State
  /\ \A n \in Nat : Sleeping(n) \in State /\ Waiting(n) \in State
  BY Zenon DEF Running, Ready, Blocked, Finished, Gone, Sleeping, Waiting, State, StateNames

\* A nonempty set of numbers has a least element.
LEMMA LeastNat ==
  ASSUME NEW S, S \subseteq Nat, S # {}
  PROVE  \E m \in S : \A n \in S : m <= n
<1>1. \E m \in S : \A n \in S : ~(<<n, m>> \in OpToRel(<, Nat))
  BY WFMin, NatLessThanWellFounded, Zenon
<1>2. PICK m \in S : \A n \in S : ~(<<n, m>> \in OpToRel(<, Nat))
  BY <1>1, Zenon
<1>3. \A n \in S : m <= n
  <2>1. ASSUME NEW n \in S, n < m PROVE FALSE
    <3>1. n \in Nat /\ m \in Nat
      BY Zenon
    <3>2. <<n, m>> \in OpToRel(<, Nat)
      BY <2>1, <3>1, Zenon DEF OpToRel
    <3> QED
      BY <1>2, <3>2, Zenon
  <2> QED
    BY <2>1, SMT
<1> QED
  BY <1>3, Zenon

\* The search of pick_next for the first task after the current one finds one of the tasks
\* it searches.
LEMMA FirstAfterIsFound ==
  ASSUME NEW q \in Queue, NEW from \in TaskIds, NEW among \in SUBSET TaskIds, among # {}
  PROVE  FirstAfter(q, from, among) \in among
<1> DEFINE D(t) == Distance(q, from, t) + MaxTasks
           S == {D(t) : t \in among}
<1>1. \A t \in among : D(t) \in Nat /\ Distance(q, from, t) \in Int
  BY RunQueueAssumption, SMT DEF Distance, TaskIds, Queue
<1>2. S \subseteq Nat /\ S # {}
  BY <1>1, Zenon
<1> HIDE DEF S
<1>3. PICK m \in S : \A n \in S : m <= n
  BY <1>2, LeastNat, Zenon
<1>4. PICK t \in among : m = D(t)
  BY <1>3, Zenon DEF S
<1>5. \A u \in among : Distance(q, from, t) <= Distance(q, from, u)
  <2> TAKE u \in among
  <2>1. D(u) \in S
    BY Zenon DEF S
  <2>2. D(t) <= D(u)
    BY <1>3, <1>4, <2>1, Zenon
  <2> QED
    BY <1>1, <2>2, RunQueueAssumption, SMT
<1> QED
  BY <1>5, Zenon DEF FirstAfter

\* sched::init leaves a run queue.
LEMMA NewType == AddIdle(New, 0) \in Queue
<1>1. New \in Queue
  <2>1. 1 \in 0 .. MaxTasks
    BY RunQueueAssumption
  <2> QED
    BY <2>1, TaskIdsFacts, StateFacts, RunQueueAssumption, Zenon DEF New, Queue
<1>2. New.len = 1 /\ 1 \in TaskIds /\ New.len + 1 \in 0 .. MaxTasks
  BY TaskIdsFacts, RunQueueAssumption DEF New
<1>3. Add(New) \in Queue
  BY <1>1, <1>2, StateFacts, Zenon DEF Queue, Add
<1> QED
  BY <1>2, <1>3, RunQueueAssumption, Zenon DEF Queue, AddIdle

\* add, add_idle and start_core return a run queue while there are ids left.
LEMMA AddType ==
  ASSUME NEW q \in Queue, NEW c \in Cores, q.len < MaxTasks
  PROVE  /\ q.len \in TaskIds
         /\ Add(q) \in Queue
         /\ AddIdle(q, c) \in Queue
         /\ StartCore(q, c) \in Queue
<1>1. q.len \in TaskIds /\ q.len + 1 \in 0 .. MaxTasks
  BY RunQueueAssumption, SMT DEF Queue, TaskIds
<1>2. Add(q) \in Queue
  BY <1>1, StateFacts, Zenon DEF Queue, Add
<1>3. AddIdle(q, c) \in Queue
  BY <1>1, <1>2, Zenon DEF Queue, AddIdle
<1>4. StartCore(q, c) \in Queue
  BY <1>1, <1>3, StateFacts, Zenon DEF Queue, StartCore
<1> QED
  BY <1>1, <1>2, <1>3, <1>4, Zenon

\* remove returns a run queue.
LEMMA RemoveType ==
  ASSUME NEW q \in Queue, NEW gone
  PROVE  Remove(q, gone) \in Queue
<1>1. \A t \in TaskIds : (IF t \in gone THEN Gone ELSE q.state[t]) \in State
  BY StateFacts, Zenon DEF Queue
<1>2. /\ [t \in TaskIds |-> t \notin gone /\ q.wakePending[t]] \in [TaskIds -> BOOLEAN]
      /\ [t \in TaskIds |-> t \notin gone /\ q.intrPending[t]] \in [TaskIds -> BOOLEAN]
  BY Zenon
<1> QED
  BY <1>1, <1>2, Zenon DEF Queue, Remove

\* So do the operations of the running task.
LEMMA CurrentOpsType ==
  ASSUME NEW q \in Queue, NEW c \in Cores, q.current[c] \in TaskIds
  PROVE  /\ \A n \in Nat : SleepCurrent(q, c, n) \in Queue
         /\ \A e \in Events, n \in Nat : WaitCurrent(q, c, e, n) \in Queue
         /\ BlockCurrent(q, c) \in Queue
         /\ FinishCurrent(q, c) \in Queue
<1> DEFINE t == q.current[c]
<1>1. q.state[t] \in State
  BY Zenon DEF Queue
<1>2. ASSUME NEW st \in State PROVE TakeInterrupt(q, c, st) \in Queue
  <2>1. (IF q.intrPending[t] THEN q.state[t] ELSE st) \in State
    BY <1>1, Zenon
  <2> QED
    BY <2>1, Zenon DEF Queue, TakeInterrupt
<1>3. \A n \in Nat : SleepCurrent(q, c, n) \in Queue
  BY <1>2, StateFacts, Zenon DEF SleepCurrent
<1>4. \A e \in Events, n \in Nat : WaitCurrent(q, c, e, n) \in Queue
  BY <1>1, <1>2, StateFacts, RunQueueAssumption, Zenon DEF WaitCurrent
<1>5. BlockCurrent(q, c) \in Queue
  <2>1. (IF q.wakePending[t] THEN q.state[t] ELSE Blocked) \in State
    BY <1>1, StateFacts, Zenon
  <2> QED
    BY <2>1, Zenon DEF Queue, BlockCurrent
<1>6. FinishCurrent(q, c) \in Queue
  BY StateFacts, Zenon DEF Queue, FinishCurrent
<1> QED
  BY <1>3, <1>4, <1>5, <1>6, Zenon

\* So do the operations that make tasks ready.
LEMMA WakingOpsType ==
  ASSUME NEW q \in Queue
  PROVE  /\ \A t \in TaskIds : Wake(q, t) \in Queue /\ Interrupt(q, t) \in Queue
         /\ \A e \in Events : Notify(q, e) \in Queue
         /\ Tick(q) \in Queue
<1>1. \A t \in TaskIds : Wake(q, t) \in Queue
  BY StateFacts, Zenon DEF Queue, Wake
<1>2. \A t \in TaskIds : Interrupt(q, t) \in Queue
  BY StateFacts, Zenon DEF Queue, Interrupt
<1>3. ASSUME NEW e \in Events PROVE Notify(q, e) \in Queue
  <2>1. \A t \in TaskIds : (IF q.state[t] = Waiting(e) THEN Ready ELSE q.state[t]) \in State
    BY StateFacts, Zenon DEF Queue
  <2>2. q.generation[e] + 1 \in Nat
    BY DEF Queue
  <2> QED
    BY <2>1, <2>2, Zenon DEF Queue, Notify
<1>4. Tick(q) \in Queue
  <2>1. \A t \in TaskIds : (IF q.state[t] = Sleeping(0) THEN Ready ELSE q.state[t]) \in State
    BY StateFacts, Zenon DEF Queue
  <2> QED
    BY <2>1, Zenon DEF Queue, Tick
<1> QED
  BY <1>1, <1>2, <1>3, <1>4, Zenon

\* pick_next picks the current task, the core's idle task, or a ready task that no other core
\* is leaving and that isn't an idle task.
LEMMA ChosenIs ==
  ASSUME NEW q \in Queue, NEW c \in Cores, q.current[c] \in TaskIds,
         NEW preempt \in BOOLEAN, NEW busy
  PROVE  /\ Chosen(q, c, preempt, busy) \in TaskIds
         /\ \/ Chosen(q, c, preempt, busy) = q.current[c]
            \/ Chosen(q, c, preempt, busy) = q.idle[c]
            \/ Chosen(q, c, preempt, busy) \in Pickable(q, busy)
<1>1. Pickable(q, busy) \in SUBSET TaskIds
  BY Zenon DEF Pickable
<1>2. Pickable(q, busy) # {} =>
        FirstAfter(q, q.current[c], Pickable(q, busy)) \in Pickable(q, busy)
  BY <1>1, FirstAfterIsFound, Zenon
<1>3. q.idle[c] \in TaskIds \cup {NoTask}
  BY SMT DEF Queue
<1> QED
  BY <1>1, <1>2, <1>3, Zenon DEF Chosen

\* pick_next returns a run queue.
LEMMA PickNextType ==
  ASSUME NEW q \in Queue, NEW c \in Cores, q.current[c] \in TaskIds,
         NEW preempt \in BOOLEAN, NEW busy
  PROVE  PickNext(q, c, preempt, busy) \in Queue
<1> DEFINE next == Chosen(q, c, preempt, busy)
           st == [t \in TaskIds |->
                    IF t = next THEN Running
                    ELSE IF t = q.current[c] /\ q.state[q.current[c]] = Running
                    THEN Ready ELSE q.state[t]]
<1>1. next \in TaskIds
  BY ChosenIs, Zenon
<1>2. PickNext(q, c, preempt, busy) = [q EXCEPT !.current[c] = next, !.state = st]
  BY Zenon DEF PickNext
<1> HIDE DEF next
<1>3. st \in [TaskIds -> State]
  BY StateFacts, Zenon DEF Queue
<1> HIDE DEF st
<1>4. [q EXCEPT !.current[c] = next, !.state = st] \in Queue
  BY <1>1, <1>3, Zenon DEF Queue
<1> QED
  BY <1>2, <1>4, Zenon

\* It differs from the queue it was given in the core's task and in the states of the task it
\* picks and the one it switches from.
LEMMA PickNextIs ==
  ASSUME NEW q \in Queue, NEW c \in Cores, q.current[c] \in TaskIds,
         NEW preempt \in BOOLEAN, NEW busy,
         NEW p, p = PickNext(q, c, preempt, busy),
         NEW next, next = Chosen(q, c, preempt, busy)
  PROVE  /\ p.current[c] = next
         /\ \A d \in Cores : d # c => p.current[d] = q.current[d]
         /\ p.state[next] = Running
         /\ \A t \in TaskIds : t # next =>
              p.state[t] = IF t = q.current[c] /\ q.state[t] = Running THEN Ready ELSE q.state[t]
         /\ p.idle = q.idle
         /\ p.wakePending = q.wakePending
         /\ p.intrPending = q.intrPending
         /\ p.generation = q.generation
         /\ p.len = q.len
<1> DEFINE st == [t \in TaskIds |->
                    IF t = next THEN Running
                    ELSE IF t = q.current[c] /\ q.state[q.current[c]] = Running
                    THEN Ready ELSE q.state[t]]
<1>1. next \in TaskIds
  BY ChosenIs, Zenon
<1>2. p = [q EXCEPT !.current[c] = next, !.state = st]
  BY Zenon DEF PickNext
<1>3. /\ st[next] = Running
      /\ \A t \in TaskIds : t # next =>
           st[t] = IF t = q.current[c] /\ q.state[t] = Running THEN Ready ELSE q.state[t]
  BY <1>1, Zenon
<1> HIDE DEF st
<1>4. /\ p.current = [q.current EXCEPT ![c] = next]
      /\ p.state = st
      /\ p.idle = q.idle
      /\ p.wakePending = q.wakePending
      /\ p.intrPending = q.intrPending
      /\ p.generation = q.generation
      /\ p.len = q.len
  BY <1>2, Zenon DEF Queue
<1>5. p.current[c] = next /\ \A d \in Cores : d # c => p.current[d] = q.current[d]
  BY <1>4, Zenon DEF Queue
<1> QED
  BY <1>3, <1>4, <1>5, Zenon
-----------------------------------------------------------------------------
(* What the run queue's operations do to the tasks in use.                 *)

StopStates == {"Sleeping", "Waiting", "Blocked"}

\* Core c's call turned q into r: tasks were woken, and the core's own may have stopped.
Called(q, r, c) ==
  /\ r.current = q.current /\ r.idle = q.idle /\ r.len = q.len
  /\ \A t \in TaskIds : t # q.current[c] =>
       \/ r.state[t].is = q.state[t].is
       \/ q.state[t].is \in StopStates /\ r.state[t].is = "Ready"

\* Waking leaves running and finished tasks alone.
LEMMA WakingOpsDo ==
  ASSUME NEW q \in Queue, NEW r,
         \/ r = q
         \/ \E t \in TaskIds : r = Wake(q, t) \/ r = Interrupt(q, t)
         \/ \E e \in Events : r = Notify(q, e)
         \/ r = Tick(q)
  PROVE  /\ r.current = q.current /\ r.idle = q.idle /\ r.len = q.len
         /\ \A t \in TaskIds : \/ r.state[t].is = q.state[t].is
                               \/ q.state[t].is \in StopStates /\ r.state[t].is = "Ready"
<1>1. CASE r = q
  BY <1>1, Zenon
<1>2. ASSUME NEW t \in TaskIds, r = Wake(q, t)
      PROVE  /\ r.current = q.current /\ r.idle = q.idle /\ r.len = q.len
             /\ r.state = IF q.state[t] = Blocked THEN [q.state EXCEPT ![t] = Ready] ELSE q.state
  BY <1>2, Zenon DEF Wake, Queue
<1>3. ASSUME NEW t \in TaskIds, r = Interrupt(q, t)
      PROVE  /\ r.current = q.current /\ r.idle = q.idle /\ r.len = q.len
             /\ r.state = IF q.state[t].is \in {"Sleeping", "Waiting"}
                          THEN [q.state EXCEPT ![t] = Ready] ELSE q.state
  BY <1>3, Zenon DEF Interrupt, Queue
<1>4. ASSUME NEW e \in Events, r = Notify(q, e)
      PROVE  /\ r.current = q.current /\ r.idle = q.idle /\ r.len = q.len
             /\ r.state = [t \in TaskIds |-> IF q.state[t] = Waiting(e) THEN Ready ELSE q.state[t]]
  BY <1>4, Zenon DEF Notify, Queue
<1>5. ASSUME r = Tick(q)
      PROVE  /\ r.current = q.current /\ r.idle = q.idle /\ r.len = q.len
             /\ r.state = [t \in TaskIds |-> IF q.state[t] = Sleeping(0) THEN Ready ELSE q.state[t]]
  BY <1>5, Zenon DEF Tick, Queue
<1>6. q.state \in [TaskIds -> State] /\ Ready.is = "Ready" /\ Blocked.is = "Blocked"
  BY Zenon DEF Queue, Ready, Blocked
<1>7. \A n : Waiting(n).is = "Waiting" /\ Sleeping(n).is = "Sleeping"
  BY Zenon DEF Waiting, Sleeping
<1>8. CASE \E t \in TaskIds : r = Wake(q, t)
  BY <1>2, <1>6, <1>8, Zenon DEF StopStates
<1>9. CASE \E t \in TaskIds : r = Interrupt(q, t)
  BY <1>3, <1>6, <1>9, Zenon DEF StopStates
<1>10. CASE \E e \in Events : r = Notify(q, e)
  <2>1. PICK e \in Events : r = Notify(q, e)
    BY <1>10, Zenon
  <2>2. \A t \in TaskIds : r.state[t] = IF q.state[t] = Waiting(e) THEN Ready ELSE q.state[t]
    BY <1>4, <2>1, ZenonT(30), Zenon
  <2>3. \A t \in TaskIds : q.state[t] = Waiting(e) => q.state[t].is = "Waiting"
    BY <1>7, Zenon
  <2> QED
    BY <1>4, <1>6, <2>1, <2>2, <2>3, Zenon DEF StopStates
<1>11. CASE r = Tick(q)
  BY <1>5, <1>6, <1>7, <1>11 DEF StopStates
<1> QED
  BY <1>1, <1>8, <1>9, <1>10, <1>11, Zenon

\* Sleeping, waiting, blocking and finishing change the core's own task.
LEMMA CurrentOpsDo ==
  ASSUME NEW q \in Queue, NEW c \in Cores, q.current[c] \in TaskIds, NEW r,
         \/ \E n \in Nat : r = SleepCurrent(q, c, n)
         \/ \E e \in Events, n \in Nat : r = WaitCurrent(q, c, e, n)
         \/ r = BlockCurrent(q, c)
         \/ r = FinishCurrent(q, c)
  PROVE  /\ Called(q, r, c)
         /\ \/ r.state[q.current[c]].is = q.state[q.current[c]].is
            \/ r.state[q.current[c]].is \in {"Sleeping", "Waiting", "Blocked", "Finished"}
<1> DEFINE t == q.current[c]
<1>1. \A n : /\ Waiting(n).is = "Waiting" /\ Sleeping(n).is = "Sleeping"
             /\ Blocked.is = "Blocked" /\ Finished.is = "Finished"
  BY Zenon DEF Waiting, Sleeping, Blocked, Finished
<1>2. ASSUME NEW st, r.state = [q.state EXCEPT ![t] = st],
             r.current = q.current, r.idle = q.idle, r.len = q.len,
             st = q.state[t] \/ st.is \in {"Sleeping", "Waiting", "Blocked", "Finished"}
      PROVE  /\ Called(q, r, c)
             /\ \/ r.state[t].is = q.state[t].is
                \/ r.state[t].is \in {"Sleeping", "Waiting", "Blocked", "Finished"}
  BY <1>2, Zenon DEF Called, Queue
<1>3. ASSUME NEW st, r = TakeInterrupt(q, c, st)
      PROVE  /\ r.state = [q.state EXCEPT ![t] = IF q.intrPending[t] THEN q.state[t] ELSE st]
             /\ r.current = q.current /\ r.idle = q.idle /\ r.len = q.len
  BY <1>3, Zenon DEF TakeInterrupt, Queue
<1>4. CASE \E n \in Nat : r = SleepCurrent(q, c, n)
  <2>1. PICK n \in Nat : r = TakeInterrupt(q, c, Sleeping(n))
    BY <1>4, Zenon DEF SleepCurrent
  <2> DEFINE st == IF q.intrPending[t] THEN q.state[t] ELSE Sleeping(n)
  <2>2. st = q.state[t] \/ st.is = "Sleeping"
    BY <1>1, Zenon
  <2>3. /\ r.state = [q.state EXCEPT ![t] = st]
        /\ r.current = q.current /\ r.idle = q.idle /\ r.len = q.len
    BY <1>3, <2>1, Zenon
  <2> HIDE DEF st, t
  <2> QED
    BY <1>2, <2>2, <2>3, Zenon DEF t
<1>5. CASE \E e \in Events, n \in Nat : r = WaitCurrent(q, c, e, n)
  <2>1. PICK e \in Events, n \in Nat :
          r = TakeInterrupt(q, c, IF q.generation[e] = n THEN Waiting(e) ELSE q.state[t])
    BY <1>5, Zenon DEF WaitCurrent
  <2> DEFINE wt == IF q.generation[e] = n THEN Waiting(e) ELSE q.state[t]
             st == IF q.intrPending[t] THEN q.state[t] ELSE wt
  <2>2. st = q.state[t] \/ st.is = "Waiting"
    BY <1>1, Zenon
  <2>3. r = TakeInterrupt(q, c, wt)
    BY <2>1, Zenon
  <2> HIDE DEF wt
  <2>4. /\ r.state = [q.state EXCEPT ![t] = st]
        /\ r.current = q.current /\ r.idle = q.idle /\ r.len = q.len
    BY <1>3, <2>3, ZenonT(30), Zenon
  <2> HIDE DEF st, t
  <2> QED
    BY <1>2, <2>2, <2>4, Zenon DEF t
<1>6. CASE r = BlockCurrent(q, c)
  <2>1. /\ r.state = [q.state EXCEPT ![t] = IF q.wakePending[t] THEN q.state[t] ELSE Blocked]
        /\ r.current = q.current /\ r.idle = q.idle /\ r.len = q.len
    BY <1>6, Zenon DEF BlockCurrent, Queue
  <2> DEFINE st == IF q.wakePending[t] THEN q.state[t] ELSE Blocked
  <2>2. st = q.state[t] \/ st.is = "Blocked"
    BY <1>1, Zenon
  <2>3. r.state = [q.state EXCEPT ![t] = st]
    BY <2>1, Zenon
  <2> HIDE DEF st, t
  <2> QED
    BY <1>2, <2>1, <2>2, <2>3, Zenon DEF t
<1>7. CASE r = FinishCurrent(q, c)
  <2>1. /\ r.state = [q.state EXCEPT ![t] = Finished]
        /\ r.current = q.current /\ r.idle = q.idle /\ r.len = q.len
    BY <1>7, Zenon DEF FinishCurrent, Queue
  <2> QED
    BY <1>1, <1>2, <2>1, Zenon
<1> QED
  BY <1>4, <1>5, <1>6, <1>7, Zenon

-----------------------------------------------------------------------------
(* What the run queue's operations do to each of its fields.               *)

\* r has the tasks of q, on the cores and with the idle tasks of q.
SameTasks(q, r) == r.current = q.current /\ r.idle = q.idle /\ r.len = q.len

\* notify: the event's generation, and every task that waits for it.
LEMMA NotifyIs ==
  ASSUME NEW q \in Queue, NEW e \in Events, NEW r, r = Notify(q, e)
  PROVE  /\ SameTasks(q, r) /\ r.intrPending = q.intrPending
         /\ \A f \in Events : r.generation[f] = IF f = e THEN q.generation[f] + 1 ELSE q.generation[f]
         /\ \A t \in TaskIds : r.state[t] = IF q.state[t] = Waiting(e) THEN Ready ELSE q.state[t]
<1>1. /\ r.current = q.current /\ r.idle = q.idle /\ r.len = q.len /\ r.intrPending = q.intrPending
      /\ r.generation = [q.generation EXCEPT ![e] = q.generation[e] + 1]
      /\ r.state = [t \in TaskIds |-> IF q.state[t] = Waiting(e) THEN Ready ELSE q.state[t]]
  BY Zenon DEF Notify, Queue
<1>2. q.generation \in [Events -> Nat]
  BY Zenon DEF Queue
<1> QED
  BY <1>1, <1>2, Zenon DEF SameTasks

\* tick: every sleeper whose time has come.
LEMMA TickIs ==
  ASSUME NEW q \in Queue, NEW r, r = Tick(q)
  PROVE  /\ SameTasks(q, r) /\ r.intrPending = q.intrPending /\ r.generation = q.generation
         /\ \A t \in TaskIds : r.state[t] = IF q.state[t] = Sleeping(0) THEN Ready ELSE q.state[t]
<1>1. /\ r.current = q.current /\ r.idle = q.idle /\ r.len = q.len /\ r.intrPending = q.intrPending
      /\ r.generation = q.generation
      /\ r.state = [t \in TaskIds |-> IF q.state[t] = Sleeping(0) THEN Ready ELSE q.state[t]]
  BY Zenon DEF Tick, Queue
<1> QED
  BY <1>1, Zenon DEF SameTasks

\* wake: a blocked task.
LEMMA WakeIs ==
  ASSUME NEW q \in Queue, NEW u \in TaskIds, NEW r, r = Wake(q, u)
  PROVE  /\ SameTasks(q, r) /\ r.intrPending = q.intrPending /\ r.generation = q.generation
         /\ \A t \in TaskIds :
              r.state[t] = IF t = u /\ q.state[t] = Blocked THEN Ready ELSE q.state[t]
<1>1. CASE q.state[u] = Blocked
  <2>1. r = [q EXCEPT !.state[u] = Ready]
    BY <1>1, Zenon DEF Wake
  <2> QED
    BY <1>1, <2>1, Zenon DEF Queue, SameTasks
<1>2. CASE q.state[u] # Blocked
  <2>1. \E w : r = [q EXCEPT !.wakePending[u] = w]
    BY <1>2, Zenon DEF Wake
  <2> QED
    BY <1>2, <2>1, Zenon DEF Queue, SameTasks
<1> QED
  BY <1>1, <1>2, Zenon

\* interrupt: a task that sleeps or waits, or the mark that its next sleep or wait is off.
LEMMA InterruptIs ==
  ASSUME NEW q \in Queue, NEW u \in TaskIds, NEW r, r = Interrupt(q, u)
  PROVE  /\ SameTasks(q, r) /\ r.generation = q.generation
         /\ \A t \in TaskIds : r.state[t] = IF t = u /\ q.state[t].is \in {"Sleeping", "Waiting"}
                                            THEN Ready ELSE q.state[t]
         /\ \A t \in TaskIds : t # u => r.intrPending[t] = q.intrPending[t]
         /\ q.intrPending[u] \/ q.state[u].is \in {"Running", "Ready"} => r.intrPending[u]
<1>0. Running.is = "Running" /\ Ready.is = "Ready"
  BY Zenon DEF Running, Ready
<1>1. CASE q.state[u].is \in {"Sleeping", "Waiting"}
  <2>1. r = [q EXCEPT !.state[u] = Ready]
    BY <1>1, Zenon DEF Interrupt
  <2>2. /\ r.current = q.current /\ r.idle = q.idle /\ r.len = q.len
        /\ r.intrPending = q.intrPending /\ r.generation = q.generation
        /\ r.state = [q.state EXCEPT ![u] = Ready] /\ q.state \in [TaskIds -> State]
    BY <2>1, Zenon DEF Queue
  <2>3. q.state[u].is \notin {"Running", "Ready"}
    BY <1>0, <1>1, Zenon
  <2> QED
    BY <1>1, <2>2, <2>3, Zenon DEF SameTasks
<1>2. CASE ~(q.state[u].is \in {"Sleeping", "Waiting"})
  <2> DEFINE w == q.intrPending[u] \/ q.state[u].is \in {"Running", "Ready"}
  <2>1. r = [q EXCEPT !.intrPending[u] = w]
    BY <1>2, Zenon DEF Interrupt
  <2> HIDE DEF w
  <2>2. /\ r.current = q.current /\ r.idle = q.idle /\ r.len = q.len
        /\ r.state = q.state /\ r.generation = q.generation
        /\ r.intrPending = [q.intrPending EXCEPT ![u] = w]
        /\ q.intrPending \in [TaskIds -> BOOLEAN]
    BY <2>1, Zenon DEF Queue
  <2> QED
    BY <1>2, <2>2, Zenon DEF SameTasks, w
<1> QED
  BY <1>1, <1>2, Zenon

\* sleep_current and wait_current: the running task's state, unless it was interrupted.
LEMMA TakeInterruptIs ==
  ASSUME NEW q \in Queue, NEW c \in Cores, q.current[c] \in TaskIds, NEW st, NEW r,
         r = TakeInterrupt(q, c, st)
  PROVE  /\ SameTasks(q, r) /\ r.generation = q.generation
         /\ \A t \in TaskIds : r.state[t] = IF t = q.current[c] /\ ~q.intrPending[t]
                                            THEN st ELSE q.state[t]
         /\ \A t \in TaskIds : t # q.current[c] => r.intrPending[t] = q.intrPending[t]
<1> DEFINE u == q.current[c]
           v == IF q.intrPending[u] THEN q.state[u] ELSE st
<1>1. r = [q EXCEPT !.intrPending[u] = FALSE, !.state[u] = v]
  BY Zenon DEF TakeInterrupt
<1> HIDE DEF v
<1>2. /\ r.current = q.current /\ r.idle = q.idle /\ r.len = q.len /\ r.generation = q.generation
      /\ r.intrPending = [q.intrPending EXCEPT ![u] = FALSE]
      /\ r.state = [q.state EXCEPT ![u] = v]
      /\ q.state \in [TaskIds -> State] /\ q.intrPending \in [TaskIds -> BOOLEAN]
  BY <1>1, Zenon DEF Queue
<1>3. \A t \in TaskIds : r.state[t] = IF t = u /\ ~q.intrPending[t] THEN st ELSE q.state[t]
  <2>1. u \in TaskIds /\ \A t \in TaskIds : r.state[t] = IF t = u THEN v ELSE q.state[t]
    BY <1>2, Zenon
  <2>2. v = IF q.intrPending[u] THEN q.state[u] ELSE st
    BY Zenon DEF v
  <2> HIDE DEF u
  <2> SUFFICES ASSUME NEW t \in TaskIds
               PROVE  r.state[t] = IF t = u /\ ~q.intrPending[t] THEN st ELSE q.state[t]
    BY Zenon
  <2>3. CASE t = u
    BY <2>1, <2>2, <2>3, Zenon
  <2>4. CASE t # u
    BY <2>1, <2>4, Zenon
  <2> QED
    BY <2>3, <2>4, Zenon
<1> QED
  BY <1>2, <1>3, Zenon DEF SameTasks

\* block_current and finish_current: the running task's state.
LEMMA StopCurrentIs ==
  ASSUME NEW q \in Queue, NEW c \in Cores, q.current[c] \in TaskIds, NEW r,
         r = BlockCurrent(q, c) \/ r = FinishCurrent(q, c)
  PROVE  /\ SameTasks(q, r) /\ r.generation = q.generation /\ r.intrPending = q.intrPending
         /\ \A t \in TaskIds : t # q.current[c] => r.state[t] = q.state[t]
         /\ r = FinishCurrent(q, c) => r.state[q.current[c]] = Finished
         /\ r.state[q.current[c]] \in {q.state[q.current[c]], Blocked, Finished}
<1> DEFINE u == q.current[c]
<1>1. CASE r = BlockCurrent(q, c)
  <2> DEFINE v == IF q.wakePending[u] THEN q.state[u] ELSE Blocked
  <2>1. r = [q EXCEPT !.wakePending[u] = FALSE, !.state[u] = v]
    BY <1>1, Zenon DEF BlockCurrent
  <2>2. v \in {q.state[u], Blocked}
    BY Zenon
  <2> HIDE DEF v
  <2>3. /\ r.current = q.current /\ r.idle = q.idle /\ r.len = q.len /\ r.generation = q.generation
        /\ r.intrPending = q.intrPending /\ r.state = [q.state EXCEPT ![u] = v]
        /\ q.state \in [TaskIds -> State]
    BY <2>1, Zenon DEF Queue
  <2>4. CASE r = FinishCurrent(q, c)
    <3>1. r.state = [q.state EXCEPT ![u] = Finished]
      BY <2>4, Zenon DEF FinishCurrent, Queue
    <3> QED
      BY <2>3, <3>1, Zenon DEF SameTasks
  <2>5. CASE r # FinishCurrent(q, c)
    BY <2>2, <2>3, <2>5, Zenon DEF SameTasks
  <2> QED
    BY <2>4, <2>5, Zenon
<1>2. CASE r = FinishCurrent(q, c)
  <2>1. /\ r.current = q.current /\ r.idle = q.idle /\ r.len = q.len /\ r.generation = q.generation
        /\ r.intrPending = q.intrPending /\ r.state = [q.state EXCEPT ![u] = Finished]
        /\ q.state \in [TaskIds -> State]
    BY <1>2, Zenon DEF FinishCurrent, Queue
  <2> QED
    BY <2>1, Zenon DEF SameTasks
<1> QED
  BY <1>1, <1>2, Zenon

\* add: one more task, which is ready.
LEMMA AddIs ==
  ASSUME NEW q \in Queue, q.len < MaxTasks, NEW r, r = Add(q)
  PROVE  /\ r.current = q.current /\ r.idle = q.idle /\ r.len = q.len + 1
         /\ r.generation = q.generation /\ r.intrPending = q.intrPending
         /\ \A t \in TaskIds : r.state[t] = IF t = q.len THEN Ready ELSE q.state[t]
<1>1. /\ r.current = q.current /\ r.idle = q.idle /\ r.len = q.len + 1
      /\ r.generation = q.generation /\ r.intrPending = q.intrPending
      /\ r.state = [q.state EXCEPT ![q.len] = Ready]
  BY Zenon DEF Add, Queue
<1> QED
  BY <1>1, Zenon DEF Queue

\* start_core: one more task, which core c runs, and which is its idle task.
LEMMA StartCoreIs ==
  ASSUME NEW q \in Queue, NEW c \in Cores, q.len < MaxTasks, NEW r, r = StartCore(q, c)
  PROVE  /\ r.len = q.len + 1 /\ r.generation = q.generation /\ r.intrPending = q.intrPending
         /\ \A d \in Cores : r.current[d] = IF d = c THEN q.len ELSE q.current[d]
         /\ \A d \in Cores : r.idle[d] = IF d = c THEN q.len ELSE q.idle[d]
         /\ \A t \in TaskIds : r.state[t] = IF t = q.len THEN Running ELSE q.state[t]
<1> DEFINE a == Add(q)
           b == AddIdle(q, c)
<1>1. a \in Queue /\ b \in Queue
  BY AddType, Zenon
<1>2. /\ a.current = q.current /\ a.idle = q.idle /\ a.len = q.len + 1
      /\ a.generation = q.generation /\ a.intrPending = q.intrPending
      /\ \A t \in TaskIds : a.state[t] = IF t = q.len THEN Ready ELSE q.state[t]
  BY AddIs
<1>3. b = [a EXCEPT !.idle[c] = q.len]
  BY Zenon DEF AddIdle
<1> HIDE DEF a
<1>4. /\ b.current = a.current /\ b.len = a.len /\ b.generation = a.generation
      /\ b.intrPending = a.intrPending /\ b.state = a.state
      /\ b.idle = [a.idle EXCEPT ![c] = q.len]
  BY <1>1, <1>3, Zenon DEF Queue
<1>5. r = [b EXCEPT !.state[q.len] = Running, !.current[c] = q.len]
  BY Zenon DEF StartCore
<1> HIDE DEF b
<1>6. /\ r.current = [b.current EXCEPT ![c] = q.len] /\ r.idle = b.idle /\ r.len = b.len
      /\ r.generation = b.generation /\ r.intrPending = b.intrPending
      /\ r.state = [b.state EXCEPT ![q.len] = Running]
  BY <1>1, <1>5, Zenon DEF Queue
<1>7. q.current \in [Cores -> TaskIds \cup {NoTask}] /\ q.idle \in [Cores -> TaskIds \cup {NoTask}]
  BY Zenon DEF Queue
<1>8. /\ \A d \in Cores : r.current[d] = IF d = c THEN q.len ELSE q.current[d]
      /\ \A d \in Cores : r.idle[d] = IF d = c THEN q.len ELSE q.idle[d]
  BY <1>2, <1>4, <1>6, <1>7
<1>9. \A t \in TaskIds : r.state[t] = IF t = q.len THEN Running ELSE q.state[t]
  <2>1. a.state \in [TaskIds -> State]
    BY <1>1, Zenon DEF Queue
  <2> QED
    BY <1>2, <1>4, <1>6, <2>1
<1> QED
  BY <1>2, <1>4, <1>6, <1>8, <1>9, Zenon

-----------------------------------------------------------------------------
(***************************************************************************)
(* What the scheduler keeps in every behaviour, for any number of cores,   *)
(* tasks and events and any workload: its types, and no_preempt.  The      *)
(* shapes that steps have come first: a core moving on, a call into the    *)
(* run queue, a switch.                                                    *)
(***************************************************************************)

\* What a position's `arg` and `n` are, by place.
GoodPosition(p) ==
  /\ p \in Position
  /\ p.at \in {"svcTop", "top", "look", "wait", "notify"} => p.arg \in Events
  /\ p.at = "kill" => p.arg \in TaskIds
  /\ p.at = "npEnd" => p.arg \in Cores /\ p.n = 0
  /\ p.at = "run" => p.n = 0
  /\ p.at = "np" => p.n > 0

\* The inductive invariant behind TypeOK and NoPreemptHolds: counting a section down stays in
\* Nat because the core's count is the nesting of the code it runs.
TypeInv ==
  /\ TypeOK
  /\ NoPreemptHolds
  /\ \A t \in TaskIds : GoodPosition(context[t])
  /\ \A c \in Cores : GoodPosition(pc[c])
-----------------------------------------------------------------------------
\* Plain positions are good, and so are those that carry what they have to.
LEMMA PositionFacts ==
  /\ \A place \in Places \ {"svcTop", "top", "look", "wait", "notify", "kill", "np", "npEnd"} :
       GoodPosition(At(place)) /\ At(place).at = place
  /\ \A place \in {"svcTop", "top", "look", "wait", "notify"}, e \in Events, n \in Nat :
       GoodPosition(AtWith(place, e, n)) /\ AtWith(place, e, n).at = place
  /\ \A t \in TaskIds :
       GoodPosition(AtWith("kill", t, 0)) /\ AtWith("kill", t, 0).at = "kill"
  /\ \A c \in Cores :
       GoodPosition(AtWith("npEnd", c, 0)) /\ AtWith("npEnd", c, 0).at = "npEnd"
  /\ \A c \in Cores, n \in Nat \ {0} :
       /\ GoodPosition(AtWith("np", c, n))
       /\ AtWith("np", c, n) = [at |-> "np", arg |-> c, n |-> n]
  BY RunQueueAssumption, TaskIdsFacts, SMT DEF GoodPosition, Position, Places, At, AtWith

\* Where a kill leaves its caller and its victim, and reaping a task.
LEMMA KillPositions ==
  /\ \A place \in {"run", "exit", "null"} :
       GoodPosition(At(place)) /\ At(place).at # "np" /\ At(place) \in Position
  /\ \A t \in TaskIds :
       GoodPosition(AtWith("kill", t, 0)) /\ AtWith("kill", t, 0).at # "np"
         /\ AtWith("kill", t, 0) \in Position
  BY PositionFacts DEF Places, GoodPosition

\* The operations on the FP state return an FP state.
LEMMA FpType ==
  /\ FpNew \in FpState
  /\ \A f \in FpState, c \in Cores, t \in TaskIds : TakeFpRegisters(f, c, t) \in FpState
  /\ \A f \in FpState, c \in Cores, v \in 0 .. FpVersions - 1 : FpCompute(f, c, v) \in FpState
  /\ \A f \in FpState, c \in Cores, t, u \in TaskIds, b \in BOOLEAN :
       FpSwitch(f, c, t, u, b) \in FpState
<1>0. 0 \in 0 .. FpVersions - 1
  BY SchedAssumption
<1>1. FpNew \in FpState
  BY <1>0, Zenon DEF FpNew, FpState, FpValue
<1>2. ASSUME NEW f \in FpState, NEW c \in Cores, NEW t \in TaskIds
      PROVE  TakeFpRegisters(f, c, t) \in FpState
  <2>1. f.saved[t] \in FpValue
    BY Zenon DEF FpState
  <2> QED
    BY <2>1, ZenonT(30) DEF TakeFpRegisters, FpState
<1>3. ASSUME NEW f \in FpState, NEW c \in Cores, NEW v \in 0 .. FpVersions - 1
      PROVE  FpCompute(f, c, v) \in FpState
  <2>1. [f.regs[c] EXCEPT !.v = v] \in FpValue
    BY DEF FpState, FpValue
  <2> QED
    BY <2>1, Zenon DEF FpCompute, FpState
<1>4. ASSUME NEW f \in FpState, NEW c \in Cores, NEW t \in TaskIds, NEW u \in TaskIds,
             NEW b \in BOOLEAN
      PROVE  FpSwitch(f, c, t, u, b) \in FpState
  <2> DEFINE s == IF u # t /\ f.owner[c] = t /\ b THEN f.regs[c] ELSE f.saved[t]
             g == [f EXCEPT !.saved[t] = s]
             a == f.owner[c] = u /\ f.loaded[u] = {c}
  <2>1. s \in FpValue
    BY Zenon DEF FpState
  <2> HIDE DEF s
  <2>2. g \in FpState
    BY <2>1, Zenon DEF FpState
  <2>3. FpSwitch(f, c, t, u, b) = [g EXCEPT !.allowed[c] = a]
    BY Zenon DEF FpSwitch, s
  <2>4. a \in BOOLEAN
    BY Zenon
  <2> HIDE DEF g, a
  <2>5. [g EXCEPT !.allowed[c] = a] \in FpState
    BY <2>2, <2>4, Zenon DEF FpState
  <2> QED
    BY <2>3, <2>5, Zenon
<1> QED
  BY <1>1, <1>2, <1>3, <1>4, Zenon
-----------------------------------------------------------------------------
(* The shapes steps have.                                                  *)

\* The code of a core outside no_preempt moves to another place outside it.
LEMMA GoKeeps ==
  ASSUME TypeInv, NEW c \in Cores, NEW p, GoodPosition(p), p.at # "np", pc[c].at # "np",
         Go(c, p), UNCHANGED <<context, PREEMPT_DISABLED>>
  PROVE  /\ pc' \in [Cores -> Position]
         /\ NoPreemptHolds'
         /\ \A t \in TaskIds : GoodPosition(context'[t])
         /\ \A d \in Cores : GoodPosition(pc'[d])
<1>1. pc' = [pc EXCEPT ![c] = p] /\ p \in Position /\ pc \in [Cores -> Position]
  BY Zenon DEF Go, GoodPosition, TypeInv, TypeOK
<1>2. pc' \in [Cores -> Position] /\ \A d \in Cores : pc'[d] = IF d = c THEN p ELSE pc[d]
  BY <1>1, Zenon
<1>3. NoPreemptHolds'
  BY <1>2, Zenon DEF TypeInv, NoPreemptHolds
<1>4. \A d \in Cores : GoodPosition(pc'[d])
  BY <1>2, Zenon DEF TypeInv
<1> QED
  BY <1>2, <1>3, <1>4, Zenon DEF TypeInv

\* Whoever is nudged is a core.
LEMMA KickedIsCore == \A c, r : Kicked(c, r) \subseteq Cores
  BY Zenon DEF Kicked, IdleCores

\* A call into the run queue.
LEMMA CallQueueKeeps ==
  ASSUME TypeInv, NEW c \in Cores, NEW q \in Queue, NEW r, NEW p,
         GoodPosition(p), p.at # "np", pc[c].at # "np", CallQueue(c, q, r, p)
  PROVE  TypeInv'
<1>1. /\ Go(c, p)
      /\ UNCHANGED <<context, LEAVING, cond, preemptVars, programVars, fpVars>>
      /\ queue' \in Queue
      /\ ipi' = ipi \cup Kicked(c, r)
  BY Zenon DEF CallQueue
<1>2. ipi' \subseteq Cores
  BY <1>1, KickedIsCore, Zenon DEF TypeInv, TypeOK
<1>3. UNCHANGED <<context, PREEMPT_DISABLED>>
  BY <1>1, Zenon DEF preemptVars
<1>4. /\ pc' \in [Cores -> Position]
      /\ NoPreemptHolds'
      /\ \A t \in TaskIds : GoodPosition(context'[t])
      /\ \A d \in Cores : GoodPosition(pc'[d])
  BY <1>1, <1>3, GoKeeps, Zenon
<1>5. TypeOK'
  BY <1>1, <1>2, <1>4, Zenon DEF TypeInv, TypeOK, preemptVars, programVars, fpVars
<1> QED
  BY <1>4, <1>5, Zenon DEF TypeInv

\* A step that moves the code of a core on and changes what is known of programs.
LEMMA MoveKeeps ==
  ASSUME TypeInv, NEW c \in Cores, NEW p,
         GoodPosition(p), p.at # "np", pc[c].at # "np", Move(c, p),
         program' \subseteq TaskIds, processes' \subseteq TaskIds, freed' \subseteq TaskIds,
         killed' \in [TaskIds -> BOOLEAN], redirect' \in [TaskIds -> BOOLEAN],
         space' \in [TaskIds -> TaskIds \cup {Kernel}],
         ttbr' \in [Cores -> TaskIds \cup {Kernel}]
  PROVE  TypeInv'
<1>1. Go(c, p) /\ UNCHANGED <<queue, context, LEAVING, ipi, cond, preemptVars, fpVars>>
  BY Zenon DEF Move
<1>2. UNCHANGED <<context, PREEMPT_DISABLED>>
  BY <1>1, Zenon DEF preemptVars
<1>3. /\ pc' \in [Cores -> Position]
      /\ NoPreemptHolds'
      /\ \A t \in TaskIds : GoodPosition(context'[t])
      /\ \A d \in Cores : GoodPosition(pc'[d])
  BY <1>1, <1>2, GoKeeps, Zenon
<1>4. TypeOK'
  BY <1>1, <1>3, Zenon DEF TypeInv, TypeOK, preemptVars, fpVars
<1> QED
  BY <1>3, <1>4, Zenon DEF TypeInv

\* Scheduler::switch, from code outside no_preempt.
LEMMA SwitchKeeps ==
  ASSUME TypeInv, NEW c \in Cores, NEW q \in Queue, q.current[c] \in TaskIds,
         NEW preempt \in BOOLEAN, NEW here, GoodPosition(here), here.at # "np", pc[c].at # "np",
         Switch(c, q, preempt, here),
         ipi' \subseteq Cores, cond' \in [Events -> BOOLEAN],
         SWITCH_PENDING' \in [Cores -> BOOLEAN]
  PROVE  TypeInv'
<1> DEFINE cur == q.current[c]
           redirected == Redirected(cur, here)
           saved == [context EXCEPT ![cur] = IF redirected THEN At("exit") ELSE here]
           picked == PickNext(q, c, preempt, LeavingElsewhere(c))
           next == picked.current[c]
           reaped == FinishedTasks(picked) \ ({cur} \cup LeavingElsewhere(c))
<1>1. /\ queue' = Remove(picked, reaped)
      /\ context' = [t \in TaskIds |-> IF t \in reaped THEN At("null") ELSE saved[t]]
      /\ redirect' = [t \in TaskIds |->
                        redirect[t] /\ t \notin reaped /\ ~(t = cur /\ redirected)]
      /\ pc' = [pc EXCEPT ![c] = saved[next]]
      /\ LEAVING' = [LEAVING EXCEPT ![c] = IF next # cur THEN cur ELSE @]
      /\ fp' = FpSwitch(fp, c, cur, next, cur \in program)
      /\ ttbr' = [ttbr EXCEPT ![c] = IF space[cur] # space[next] THEN space[next] ELSE @]
      /\ owed' = owed \ {c}
      /\ UNCHANGED <<PREEMPT_DISABLED, program, processes, killed, space, freed, computed>>
  BY ZenonT(60) DEF Switch, SwitchTo
<1>2. picked \in Queue /\ next \in TaskIds
  <2>1. picked \in Queue
    BY PickNextType, Zenon
  <2>2. next = Chosen(q, c, preempt, LeavingElsewhere(c))
    BY PickNextIs, SMT
  <2>3. next \in TaskIds
    BY <2>2, ChosenIs, Zenon
  <2> QED
    BY <2>1, <2>3, Zenon
<1> HIDE DEF picked, next, reaped, redirected
<1>3. queue' \in Queue
  BY <1>1, <1>2, RemoveType, Zenon
<1>4. /\ At("exit") \in Position /\ GoodPosition(At("exit")) /\ At("exit").at # "np"
      /\ At("null") \in Position /\ GoodPosition(At("null")) /\ At("null").at # "np"
      /\ here \in Position
  BY KillPositions, Zenon DEF GoodPosition
<1>5. /\ context \in [TaskIds -> Position]
      /\ \A t \in TaskIds : GoodPosition(context[t]) /\ context[t].at # "np"
  BY Zenon DEF TypeInv, TypeOK, NoPreemptHolds
<1>6. /\ saved \in [TaskIds -> Position]
      /\ \A t \in TaskIds : GoodPosition(saved[t]) /\ saved[t].at # "np"
  BY <1>4, <1>5, Zenon
<1> HIDE DEF saved
<1>7. /\ context' \in [TaskIds -> Position]
      /\ \A t \in TaskIds : GoodPosition(context'[t]) /\ context'[t].at # "np"
  BY <1>1, <1>4, <1>6, Zenon
<1>8. /\ pc' \in [Cores -> Position]
      /\ \A d \in Cores : pc'[d] = IF d = c THEN saved[next] ELSE pc[d]
  BY <1>1, <1>2, <1>6, Zenon DEF TypeInv, TypeOK
<1>9. \A d \in Cores : GoodPosition(pc'[d])
  BY <1>2, <1>6, <1>8, SMTT(30), Zenon DEF TypeInv
<1>10. NoPreemptHolds'
  BY <1>1, <1>2, <1>6, <1>7, <1>8, Zenon DEF TypeInv, NoPreemptHolds
<1>11. redirect' \in [TaskIds -> BOOLEAN]
  BY <1>1, Zenon
<1>12. LEAVING' \in [Cores -> TaskIds \cup {NoTask}] /\ owed' \subseteq Cores
  BY <1>1, Zenon DEF TypeInv, TypeOK
<1>13. ttbr' \in [Cores -> TaskIds \cup {Kernel}]
  BY <1>1, <1>2, Zenon DEF TypeInv, TypeOK
<1>14. fp' \in FpState
  <2>1. (cur \in program) \in BOOLEAN /\ fp \in FpState
    BY DEF TypeInv, TypeOK
  <2> HIDE DEF cur
  <2> QED
    BY <1>1, <1>2, <2>1, FpType, Zenon DEF cur
<1>15. TypeOK'
  BY <1>1, <1>3, <1>7, <1>8, <1>11, <1>12, <1>13, <1>14, Zenon DEF TypeInv, TypeOK
<1> QED
  BY <1>7, <1>9, <1>10, <1>15, Zenon DEF TypeInv
-----------------------------------------------------------------------------
(* Every step.                                                             *)

\* What sched::init leaves behind.
LEMMA InitTypes == Init => TypeInv
<1> SUFFICES ASSUME Init PROVE TypeInv
  BY Zenon
<1>1. /\ \A place \in {"run", "idle", "null"} :
           GoodPosition(At(place)) /\ At(place) \in Position /\ At(place).at # "np"
  BY PositionFacts DEF Places, GoodPosition, At
<1>2. /\ context \in [TaskIds -> Position]
      /\ \A t \in TaskIds : GoodPosition(context[t]) /\ context[t].at # "np"
  BY <1>1, Zenon DEF Init
<1>3. /\ pc \in [Cores -> Position]
      /\ \A c \in Cores : GoodPosition(pc[c]) /\ pc[c].at # "np"
  BY <1>1, Zenon DEF Init
<1>4. NoPreemptHolds
  BY <1>2, <1>3, Zenon DEF Init, NoPreemptHolds
<1>5. 0 \in 0 .. FpVersions - 1
  BY SchedAssumption
<1>6. /\ queue \in Queue
      /\ fp \in FpState
  BY NewType, FpType, Zenon DEF Init
<1>7. TypeOK
  BY <1>2, <1>3, <1>5, <1>6, Zenon DEF Init, TypeOK
<1> QED
  BY <1>2, <1>3, <1>4, <1>7, Zenon DEF TypeInv

\* Where code is when the kernel handles an svc or an interrupt.
LEMMA AfterSvcFacts ==
  ASSUME NEW p, GoodPosition(p), p.at \in {"svc", "svcTop", "svcGone"}
  PROVE  GoodPosition(AfterSvc(p)) /\ AfterSvc(p).at \in {"run", "top", "panic"}
<1>1. CASE p.at = "svc"
  BY <1>1, PositionFacts DEF AfterSvc, Places
<1>2. CASE p.at = "svcGone"
  BY <1>2, PositionFacts DEF AfterSvc, Places
<1>3. CASE p.at = "svcTop"
  <2>1. p.arg \in Events
    BY <1>3, Zenon DEF GoodPosition
  <2>2. GoodPosition(AtWith("top", p.arg, 0)) /\ AtWith("top", p.arg, 0).at = "top"
    BY <2>1, PositionFacts
  <2> QED
    BY <1>3, <2>2, Zenon DEF AfterSvc
<1> QED
  BY <1>1, <1>2, <1>3, Zenon

\* A core that executes runs a task.
LEMMA MeIsTask ==
  ASSUME TypeInv, NEW c \in Cores, Executing(c)
  PROVE  /\ Me(c) \in TaskIds
         /\ queue.current[c] \in TaskIds
         /\ queue \in Queue
         /\ GoodPosition(pc[c])
  BY Zenon DEF TypeInv, TypeOK, Queue, Executing, Me

\* on_yield keeps the types.
LEMMA OnYieldTypes ==
  ASSUME TypeInv, NEW c \in Cores, OnYield(c)
  PROVE  TypeInv'
<1>1. /\ Executing(c) /\ pc[c].at \in {"svc", "svcTop", "svcGone"}
      /\ Switch(c, queue, TRUE, AfterSvc(pc[c]))
      /\ UNCHANGED <<ipi, cond, SWITCH_PENDING>>
  BY Zenon DEF OnYield
<1>2. queue.current[c] \in TaskIds /\ queue \in Queue /\ GoodPosition(pc[c])
  BY <1>1, MeIsTask, Zenon
<1>3. GoodPosition(AfterSvc(pc[c])) /\ AfterSvc(pc[c]).at # "np" /\ pc[c].at # "np"
  BY <1>1, <1>2, AfterSvcFacts, Zenon
<1>4. /\ ipi' \subseteq Cores
      /\ cond' \in [Events -> BOOLEAN]
      /\ SWITCH_PENDING' \in [Cores -> BOOLEAN]
  BY <1>1, Zenon DEF TypeInv, TypeOK
<1> QED
  BY <1>1, <1>2, <1>3, <1>4, SwitchKeeps, Zenon

\* on_irq keeps the types, whether it switches or defers the switch.
LEMMA OnIrqTypes ==
  ASSUME TypeInv, NEW c \in Cores, NEW timer \in BOOLEAN, NEW uart \in BOOLEAN,
         OnIrq(c, timer, uart)
  PROVE  TypeInv'
<1> DEFINE q1 == IF uart THEN Notify(queue, Uart) ELSE queue
           q2 == IF timer THEN Tick(q1) ELSE q1
<1>1. /\ Executing(c)
      /\ uart => c = 0 /\ Uart \in Events /\ queue.generation[Uart] < MaxGeneration
      /\ cond' = IF uart THEN [cond EXCEPT ![Uart] = TRUE] ELSE cond
      /\ ipi' = (ipi \ {c}) \cup
               Kicked(c, uart /\ NotifyReadies(queue, Uart) /\ ~IsIdle(queue, Me(c)))
      /\ IF PREEMPT_DISABLED[c] > 0
         THEN /\ queue' = q2
              /\ SWITCH_PENDING' = [SWITCH_PENDING EXCEPT ![c] = @ \/ timer]
              /\ owed' = IF timer THEN owed \cup {c} ELSE owed
              /\ UNCHANGED <<context, pc, LEAVING, PREEMPT_DISABLED, programVars, fpVars>>
         ELSE /\ Switch(c, q2, timer, pc[c])
              /\ UNCHANGED SWITCH_PENDING
  BY Zenon DEF OnIrq
<1>2. queue.current[c] \in TaskIds /\ queue \in Queue /\ GoodPosition(pc[c])
  BY <1>1, MeIsTask, Zenon
<1>3. q1 \in Queue /\ q1.current = queue.current
  BY <1>1, <1>2, WakingOpsType, Zenon DEF Notify, Queue
<1>4. q2 \in Queue /\ q2.current = queue.current
  <2> HIDE DEF q1
  <2> QED
    BY <1>3, WakingOpsType, Zenon DEF Tick, Queue
<1>5. ipi' \subseteq Cores
  BY <1>1, KickedIsCore, Zenon DEF TypeInv, TypeOK
<1>6. cond' \in [Events -> BOOLEAN]
  BY <1>1, Zenon DEF TypeInv, TypeOK
<1> HIDE DEF q2
<1>7. CASE PREEMPT_DISABLED[c] > 0
  <2>1. SWITCH_PENDING' \in [Cores -> BOOLEAN]
    <3>1. SWITCH_PENDING' = [SWITCH_PENDING EXCEPT ![c] = @ \/ timer]
      BY <1>1, <1>7, ZenonT(30), Zenon
    <3> QED
      BY <3>1, Zenon DEF TypeInv, TypeOK
  <2>2. owed' \subseteq Cores /\ queue' \in Queue
    BY <1>1, <1>4, <1>7, SMTT(30), Zenon DEF TypeInv, TypeOK
  <2>3. UNCHANGED <<context, pc, LEAVING, PREEMPT_DISABLED, programVars, fpVars>>
    BY <1>1, <1>7, ZenonT(30), Zenon
  <2>4. TypeOK'
    BY <1>5, <1>6, <2>1, <2>2, <2>3, Zenon DEF TypeInv, TypeOK, programVars, fpVars
  <2>5. NoPreemptHolds'
    BY <2>3, Zenon DEF TypeInv, NoPreemptHolds
  <2> QED
    BY <2>3, <2>4, <2>5, Zenon DEF TypeInv
<1>8. CASE ~(PREEMPT_DISABLED[c] > 0)
  <2>1. Switch(c, q2, timer, pc[c]) /\ SWITCH_PENDING' \in [Cores -> BOOLEAN]
    BY <1>1, <1>8, Zenon DEF TypeInv, TypeOK
  <2>2. pc[c].at # "np"
    BY <1>2, <1>8, Zenon DEF TypeInv, NoPreemptHolds, GoodPosition
  <2>3. q2.current[c] \in TaskIds
    BY <1>2, <1>4, Zenon
  <2> QED
    BY <1>2, <1>4, <1>5, <1>6, <2>1, <2>2, <2>3, SwitchKeeps, Zenon
<1> QED
  BY <1>7, <1>8, Zenon

\* The calls into the run queue keep the types.
LEMMA QueueCallTypes ==
  ASSUME TypeInv, NEW c \in Cores,
         \/ YieldNow(c)
         \/ \E left \in 0 .. MaxSleep : Sleep(c, left)
         \/ Block(c)
         \/ \E t \in TaskIds : WakeTask(c, t)
         \/ \E e \in Events : WaitUntil(c, e)
         \/ SeeGeneration(c)
         \/ LookNotReady(c)
         \/ WaitForEvent(c)
         \/ NotifyEvent(c)
         \/ Exit(c)
         \/ ExitFinish(c)
         \/ KillInterrupt(c)
  PROVE  TypeInv'
<1>1. Executing(c) /\ pc[c].at # "np"
  BY Zenon DEF YieldNow, Sleep, Block, WakeTask, WaitUntil, SeeGeneration, LookNotReady, WaitForEvent,
         NotifyEvent, Exit, ExitFinish, KillInterrupt, May, IsAt
<1>2. queue.current[c] \in TaskIds /\ queue \in Queue /\ GoodPosition(pc[c])
  BY <1>1, MeIsTask, Zenon
<1>3. \A place \in {"run", "svc", "svcGone"} : GoodPosition(At(place)) /\ At(place).at # "np"
  BY PositionFacts DEF Places
<1>4. \A place \in {"svcTop", "top", "look", "wait", "notify"}, e \in Events, n \in Nat :
        GoodPosition(AtWith(place, e, n)) /\ AtWith(place, e, n).at # "np"
  BY PositionFacts, Zenon
<1>5. CASE YieldNow(c)
  BY <1>1, <1>2, <1>3, <1>5, CallQueueKeeps, Zenon DEF YieldNow
<1>6. CASE \E left \in 0 .. MaxSleep : Sleep(c, left)
  <2>1. PICK left \in 0 .. MaxSleep : CallQueue(c, SleepCurrent(queue, c, left), FALSE, At("svc"))
    BY <1>6, Zenon DEF Sleep
  <2>2. left \in Nat
    BY SchedAssumption
  <2>3. SleepCurrent(queue, c, left) \in Queue
    BY <1>2, <2>2, CurrentOpsType, Zenon
  <2> QED
    BY <1>1, <1>3, <2>1, <2>3, CallQueueKeeps, ZenonT(30), Zenon
<1>7. CASE Block(c)
  BY <1>1, <1>2, <1>3, <1>7, CurrentOpsType, CallQueueKeeps, ZenonT(30), Zenon DEF Block
<1>8. CASE \E t \in TaskIds : WakeTask(c, t)
  <2>1. PICK t \in TaskIds : CallQueue(c, Wake(queue, t), WakeReadies(queue, t), At("run"))
    BY <1>8, Zenon DEF WakeTask
  <2>2. Wake(queue, t) \in Queue
    BY <1>2, WakingOpsType, Zenon
  <2> QED
    BY <1>1, <1>3, <2>1, <2>2, CallQueueKeeps, ZenonT(30), Zenon
<1>9. CASE \E e \in Events : WaitUntil(c, e)
  <2>1. PICK e \in Events : CallQueue(c, queue, FALSE, AtWith("top", e, 0))
    BY <1>9, Zenon DEF WaitUntil
  <2> QED
    BY <1>1, <1>2, <1>4, <2>1, CallQueueKeeps, Zenon
<1>10. CASE SeeGeneration(c)
  <2>1. pc[c].arg \in Events
    BY <1>2, <1>10, Zenon DEF SeeGeneration, IsAt, GoodPosition
  <2>2. queue.generation[pc[c].arg] \in Nat
    BY <1>2, <2>1, Zenon DEF Queue
  <2> QED
    BY <1>1, <1>2, <1>4, <1>10, <2>1, <2>2, CallQueueKeeps, ZenonT(30), Zenon DEF SeeGeneration
<1>11. CASE LookNotReady(c)
  <2>1. pc[c].arg \in Events /\ pc[c].n \in Nat
    BY <1>2, <1>11, Zenon DEF LookNotReady, IsAt, GoodPosition, Position
  <2> QED
    BY <1>1, <1>2, <1>4, <1>11, <2>1, CallQueueKeeps, ZenonT(30), Zenon DEF LookNotReady
<1>12. CASE WaitForEvent(c)
  <2>1. pc[c].arg \in Events /\ pc[c].n \in Nat
    BY <1>2, <1>12, Zenon DEF WaitForEvent, IsAt, GoodPosition, Position
  <2>2. WaitCurrent(queue, c, pc[c].arg, pc[c].n) \in Queue
    BY <1>2, <2>1, CurrentOpsType, Zenon
  <2> QED
    BY <1>1, <1>4, <1>12, <2>1, <2>2, CallQueueKeeps, ZenonT(30), Zenon DEF WaitForEvent
<1>13. CASE NotifyEvent(c)
  <2>1. pc[c].arg \in Events
    BY <1>2, <1>13, Zenon DEF NotifyEvent, IsAt, GoodPosition
  <2>2. Notify(queue, pc[c].arg) \in Queue
    BY <1>2, <2>1, WakingOpsType, Zenon
  <2> QED
    BY <1>1, <1>3, <1>13, <2>2, CallQueueKeeps, Zenon DEF NotifyEvent
<1>14. CASE Exit(c) \/ ExitFinish(c)
  <2>1. FinishCurrent(queue, c) \in Queue
    BY <1>2, CurrentOpsType, Zenon
  <2> QED
    BY <1>1, <1>3, <1>14, <2>1, CallQueueKeeps, Zenon DEF Exit, ExitFinish
<1>15. CASE KillInterrupt(c)
  <2>1. pc[c].arg \in TaskIds
    BY <1>2, <1>15, Zenon DEF KillInterrupt, IsAt, GoodPosition
  <2>2. Interrupt(queue, pc[c].arg) \in Queue
    BY <1>2, <2>1, WakingOpsType, Zenon
  <2> QED
    BY <1>1, <1>3, <1>15, <2>2, CallQueueKeeps, Zenon DEF KillInterrupt
<1> QED
  BY <1>5, <1>6, <1>7, <1>8, <1>9, <1>10, <1>11, <1>12, <1>13, <1>14, <1>15, Zenon
-----------------------------------------------------------------------------
(* Programs, and every step together.                                      *)

\* The steps of programs, and the stages of process::exit, keep the types.
LEMMA ProgramStepTypes ==
  ASSUME TypeInv, NEW c \in Cores,
         \/ Syscall(c)
         \/ SyscallDone(c)
         \/ ReturnToUser(c)
         \/ UserExit(c)
         \/ ExitRemove(c)
         \/ ExitLeave(c)
         \/ ExitDrop(c)
  PROVE  TypeInv'
<1> USE DEF programVars
<1>1. Executing(c) /\ pc[c].at # "np"
  BY Zenon DEF Syscall, SyscallDone, ReturnToUser, UserExit, ExitRemove, ExitLeave, ExitDrop, IsAt
<1>2. Me(c) \in TaskIds
  BY <1>1, MeIsTask, Zenon
<1>3. \A place \in {"run", "exit", "ret", "user", "leave", "panic", "drop", "finish"} :
        GoodPosition(At(place)) /\ At(place).at # "np"
  BY PositionFacts DEF Places
<1>4. /\ program \subseteq TaskIds /\ processes \subseteq TaskIds /\ freed \subseteq TaskIds
      /\ killed \in [TaskIds -> BOOLEAN] /\ redirect \in [TaskIds -> BOOLEAN]
      /\ space \in [TaskIds -> TaskIds \cup {Kernel}]
      /\ ttbr \in [Cores -> TaskIds \cup {Kernel}]
  BY Zenon DEF TypeInv, TypeOK
<1>5. CASE Syscall(c) \/ ReturnToUser(c) \/ UserExit(c)
  BY <1>1, <1>3, <1>4, <1>5, MoveKeeps, Zenon DEF Syscall, ReturnToUser, UserExit
<1>6. CASE SyscallDone(c)
  BY <1>1, <1>3, <1>4, <1>6, MoveKeeps, Zenon DEF SyscallDone
<1>7. CASE ExitRemove(c)
  <2>1. /\ processes' \subseteq TaskIds
        /\ killed' \in [TaskIds -> BOOLEAN]
        /\ UNCHANGED <<program, redirect, space, ttbr, freed>>
    BY <1>4, <1>7, Zenon DEF ExitRemove
  <2>2. Move(c, At("leave")) \/ Move(c, At("panic"))
    BY <1>7, Zenon DEF ExitRemove
  <2> QED
    BY <1>1, <1>3, <1>4, <2>1, <2>2, MoveKeeps, Zenon
<1>8. CASE ExitLeave(c)
  BY <1>1, <1>2, <1>3, <1>4, <1>8, MoveKeeps, Zenon DEF ExitLeave
<1>9. CASE ExitDrop(c)
  BY <1>1, <1>2, <1>3, <1>4, <1>9, MoveKeeps, Zenon DEF ExitDrop
<1> QED
  BY <1>5, <1>6, <1>7, <1>8, <1>9, Zenon

\* no_preempt keeps the types: what its end counts down is the core's own count, which is at
\* least one.
LEMMA NoPreemptTypes ==
  ASSUME TypeInv, NEW c \in Cores, NoPreemptBegin(c) \/ NoPreemptCount(c) \/ NoPreemptEnd(c)
  PROVE  TypeInv'
<1> USE DEF programVars, fpVars
<1>1. Executing(c)
  BY Zenon DEF NoPreemptBegin, NoPreemptCount, NoPreemptEnd, IsAt
<1>2. /\ GoodPosition(pc[c]) /\ pc \in [Cores -> Position]
      /\ PREEMPT_DISABLED \in [Cores -> Nat] /\ SWITCH_PENDING \in [Cores -> BOOLEAN]
      /\ owed \subseteq Cores
  BY Zenon DEF TypeInv, TypeOK
<1>3. CASE NoPreemptBegin(c)
  <2> DEFINE p == AtWith("np", c, pc[c].n + 1)
  <2>1. /\ pc[c].at \in {"run", "np"}
        /\ PREEMPT_DISABLED' = [PREEMPT_DISABLED EXCEPT ![c] = @ + 1]
        /\ pc' = [pc EXCEPT ![c] = p]
        /\ UNCHANGED <<queue, context, LEAVING, ipi, cond, SWITCH_PENDING, owed, programVars, fpVars>>
    BY <1>3, Zenon DEF NoPreemptBegin, Go, IsAt
  <2>2. pc[c].n \in Nat /\ pc[c].n + 1 \in Nat \ {0}
    BY <1>2 DEF Position
  <2>3. GoodPosition(p) /\ p.at = "np" /\ p.arg = c /\ p.n = pc[c].n + 1
    BY <2>2, PositionFacts
  <2> HIDE DEF p
  <2>4. PREEMPT_DISABLED[c] = pc[c].n
    BY <1>2, <2>1, Zenon DEF TypeInv, NoPreemptHolds, GoodPosition
  <2>5. /\ PREEMPT_DISABLED' \in [Cores -> Nat]
        /\ \A d \in Cores : PREEMPT_DISABLED'[d] = IF d = c THEN pc[c].n + 1 ELSE PREEMPT_DISABLED[d]
    BY <1>2, <2>1, <2>4
  <2>6. /\ pc' \in [Cores -> Position]
        /\ \A d \in Cores : pc'[d] = IF d = c THEN p ELSE pc[d]
    BY <1>2, <2>1, <2>3, Zenon DEF GoodPosition
  <2>7. NoPreemptHolds'
    BY <2>1, <2>3, <2>5, <2>6, Zenon DEF TypeInv, NoPreemptHolds
  <2>8. TypeOK'
    BY <2>1, <2>5, <2>6, Zenon DEF TypeInv, TypeOK
  <2> QED
    BY <2>1, <2>3, <2>6, <2>7, <2>8, Zenon DEF TypeInv
<1>4. CASE NoPreemptCount(c)
  <2> DEFINE p == IF pc[c].n - 1 = 0 THEN AtWith("npEnd", c, 0) ELSE AtWith("np", c, pc[c].n - 1)
  <2>1. pc[c].at = "np" /\ pc[c].arg = c /\ PREEMPT_DISABLED[c] = pc[c].n
    BY <1>4, Zenon DEF NoPreemptCount, IsAt, TypeInv, NoPreemptHolds
  <2>2. pc[c].n \in Nat \ {0} /\ pc[c].n - 1 \in Nat
    BY <1>2, <2>1 DEF GoodPosition, Position
  <2>3. /\ PREEMPT_DISABLED' = [PREEMPT_DISABLED EXCEPT ![c] = pc[c].n - 1]
        /\ pc' = [pc EXCEPT ![c] = p]
        /\ UNCHANGED <<queue, context, LEAVING, ipi, cond, SWITCH_PENDING, owed, programVars, fpVars>>
    BY <1>4, <2>1, <2>2, Zenon DEF NoPreemptCount, Go, Inside
  <2>4. /\ GoodPosition(p)
        /\ IF p.at = "np" THEN p.arg = c /\ p.n = pc[c].n - 1 ELSE pc[c].n - 1 = 0
    BY <2>2, PositionFacts
  <2> HIDE DEF p
  <2>5. /\ PREEMPT_DISABLED' \in [Cores -> Nat]
        /\ \A d \in Cores : PREEMPT_DISABLED'[d] = IF d = c THEN pc[c].n - 1 ELSE PREEMPT_DISABLED[d]
    BY <1>2, <2>2, <2>3, Zenon
  <2>6. /\ pc' \in [Cores -> Position]
        /\ \A d \in Cores : pc'[d] = IF d = c THEN p ELSE pc[d]
    BY <1>2, <2>3, <2>4, Zenon DEF GoodPosition
  <2>7. NoPreemptHolds'
    BY <2>3, <2>4, <2>5, <2>6, Zenon DEF TypeInv, NoPreemptHolds
  <2>8. TypeOK'
    BY <2>3, <2>5, <2>6, Zenon DEF TypeInv, TypeOK
  <2> QED
    BY <2>3, <2>4, <2>6, <2>7, <2>8, Zenon DEF TypeInv
<1>5. CASE NoPreemptEnd(c)
  <2> DEFINE p == IF SWITCH_PENDING[pc[c].arg] THEN At("svc") ELSE At("run")
  <2>1. pc[c].at = "npEnd" /\ pc[c].arg \in Cores /\ pc[c].n = 0
    BY <1>2, <1>5, Zenon DEF NoPreemptEnd, IsAt, GoodPosition
  <2>2. /\ SWITCH_PENDING' = [SWITCH_PENDING EXCEPT ![pc[c].arg] = FALSE]
        /\ Go(c, p)
        /\ owed' = owed \ {c}
        /\ UNCHANGED <<queue, context, LEAVING, ipi, cond, PREEMPT_DISABLED, programVars, fpVars>>
    BY <1>5, <2>1, Zenon DEF NoPreemptEnd, Inside
  <2>3. GoodPosition(p) /\ p.at # "np"
    BY PositionFacts DEF Places
  <2> HIDE DEF p
  <2>4. /\ pc' \in [Cores -> Position]
        /\ NoPreemptHolds'
        /\ \A t \in TaskIds : GoodPosition(context'[t])
        /\ \A d \in Cores : GoodPosition(pc'[d])
    BY <2>1, <2>2, <2>3, GoKeeps, Zenon
  <2>5. SWITCH_PENDING' \in [Cores -> BOOLEAN] /\ owed' \subseteq Cores
    BY <1>2, <2>2, Zenon
  <2>6. TypeOK'
    BY <2>2, <2>4, <2>5, Zenon DEF TypeInv, TypeOK
  <2> QED
    BY <2>4, <2>6, Zenon DEF TypeInv
<1> QED
  BY <1>3, <1>4, <1>5, Zenon

\* spawn, start_core and the passing of time keep the types.
LEMMA LifeTypes ==
  ASSUME TypeInv,
         \/ \E c \in Cores : StartSecondary(c) \/ \E isProgram \in BOOLEAN : Spawn(c, isProgram)
         \/ Elapse
  PROVE  TypeInv'
<1> USE DEF programVars, fpVars, preemptVars
<1>0. queue \in Queue
  BY Zenon DEF TypeInv, TypeOK
<1>1. ASSUME NEW c \in Cores, StartSecondary(c) PROVE TypeInv'
  <2>1. /\ pc[c].at # "np"
        /\ queue.len < MaxTasks
        /\ queue' = StartCore(queue, c)
        /\ Go(c, At("idle"))
        /\ UNCHANGED <<context, LEAVING, ipi, cond, preemptVars, programVars, fpVars>>
    BY <1>1, Zenon DEF StartSecondary
  <2>2. queue' \in Queue
    BY <1>0, <2>1, AddType, Zenon
  <2>3. GoodPosition(At("idle")) /\ At("idle").at # "np"
    BY PositionFacts, SMTT(30), Zenon DEF Places
  <2>4. /\ pc' \in [Cores -> Position]
        /\ NoPreemptHolds'
        /\ \A t \in TaskIds : GoodPosition(context'[t])
        /\ \A d \in Cores : GoodPosition(pc'[d])
    BY <2>1, <2>3, GoKeeps, Zenon
  <2>5. TypeOK'
    BY <2>1, <2>2, <2>4, Zenon DEF TypeInv, TypeOK
  <2> QED
    BY <2>4, <2>5, Zenon DEF TypeInv
<1>2. ASSUME NEW c \in Cores, NEW isProgram \in BOOLEAN, Spawn(c, isProgram) PROVE TypeInv'
  <2> DEFINE t == queue.len
             p == At(IF isProgram THEN "user" ELSE "run")
  <2>1. /\ t < MaxTasks
        /\ queue' = Add(queue)
        /\ ipi' = ipi \cup Kicked(c, TRUE)
        /\ context' = [context EXCEPT ![t] = p]
        /\ IF isProgram
           THEN /\ program' = program \cup {t}
                /\ processes' = processes \cup {t}
                /\ space' = [space EXCEPT ![t] = t]
           ELSE UNCHANGED <<program, processes, space>>
        /\ UNCHANGED <<pc, LEAVING, cond, preemptVars, killed, redirect, ttbr, freed, fpVars>>
    BY <1>2, Zenon DEF Spawn
  <2>2. queue' \in Queue /\ t \in TaskIds
    BY <1>0, <2>1, AddType, SMTT(30), Zenon
  <2> HIDE DEF t
  <2>3. GoodPosition(p) /\ p.at # "np" /\ p \in Position
    BY PositionFacts DEF Places, GoodPosition
  <2> HIDE DEF p
  <2>4. /\ context' \in [TaskIds -> Position]
        /\ \A u \in TaskIds : GoodPosition(context'[u]) /\ context'[u].at # "np"
    BY <2>1, <2>2, <2>3, Zenon DEF TypeInv, TypeOK, NoPreemptHolds
  <2>5. ipi' \subseteq Cores
    BY <2>1, KickedIsCore, Zenon DEF TypeInv, TypeOK
  <2>6. /\ program' \subseteq TaskIds
        /\ processes' \subseteq TaskIds
        /\ space' \in [TaskIds -> TaskIds \cup {Kernel}]
    BY <2>1, <2>2, Zenon DEF TypeInv, TypeOK
  <2>7. NoPreemptHolds'
    BY <2>1, <2>4, Zenon DEF TypeInv, NoPreemptHolds
  <2>8. TypeOK'
    BY <2>1, <2>2, <2>4, <2>5, <2>6, Zenon DEF TypeInv, TypeOK
  <2> QED
    BY <2>1, <2>4, <2>7, <2>8, Zenon DEF TypeInv
<1>3. ASSUME Elapse PROVE TypeInv'
  <2> DEFINE st == [t \in TaskIds |->
                      IF queue.state[t].is = "Sleeping" /\ queue.state[t].of > 0
                      THEN Sleeping(queue.state[t].of - 1) ELSE queue.state[t]]
  <2>1. queue' = [queue EXCEPT !.state = st]
    BY <1>3, Zenon DEF Elapse
  <2>2. \A t \in TaskIds : queue.state[t] \in State /\ queue.state[t].of \in Nat
    BY <1>0, Zenon DEF Queue, State
  <2>3. st \in [TaskIds -> State]
    BY <2>2, StateFacts
  <2> HIDE DEF st
  <2>4. queue' \in Queue
    BY <1>0, <2>1, <2>3, Zenon DEF Queue
  <2>5. UNCHANGED <<context, pc, LEAVING, ipi, cond, preemptVars, programVars, fpVars>>
    BY <1>3, Zenon DEF Elapse
  <2>6. TypeOK'
    BY <2>4, <2>5, Zenon DEF TypeInv, TypeOK
  <2> QED
    BY <2>5, <2>6, Zenon DEF TypeInv, NoPreemptHolds
<1> QED
  BY <1>1, <1>2, <1>3, Zenon

\* The steps that change what is waited for, the step off a stack, the first half of kill
\* and the use of FP registers keep the types.
LEMMA OtherTypes ==
  ASSUME TypeInv, NEW c \in Cores,
         \/ LookReady(c)
         \/ \E e \in Events : Post(c, e)
         \/ FinishSwitch(c)
         \/ \E t \in TaskIds : Kill(c, t)
         \/ FpTrap(c)
         \/ \E v \in 0 .. FpVersions - 1 : FpInstruction(c, v)
  PROVE  TypeInv'
<1> USE DEF runVars, programVars, fpVars, preemptVars
<1>1. CASE LookReady(c)
  <2>1. PICK left \in BOOLEAN : cond' = [cond EXCEPT ![pc[c].arg] = @ /\ left]
    BY <1>1, Zenon DEF LookReady
  <2>2. cond' \in [Events -> BOOLEAN]
    BY <2>1, Zenon DEF TypeInv, TypeOK
  <2>3. /\ Go(c, At("run")) /\ pc[c].at # "np"
        /\ UNCHANGED <<queue, context, LEAVING, ipi, preemptVars, programVars, fpVars>>
    BY <1>1, Zenon DEF LookReady, IsAt
  <2>4. GoodPosition(At("run")) /\ At("run").at # "np"
    BY PositionFacts, SMTT(30), Zenon DEF Places
  <2>5. /\ pc' \in [Cores -> Position]
        /\ NoPreemptHolds'
        /\ \A t \in TaskIds : GoodPosition(context'[t])
        /\ \A d \in Cores : GoodPosition(pc'[d])
    BY <2>3, <2>4, GoKeeps, Zenon
  <2>6. TypeOK'
    BY <2>2, <2>3, <2>5, Zenon DEF TypeInv, TypeOK
  <2> QED
    BY <2>5, <2>6, Zenon DEF TypeInv
<1>2. CASE \E e \in Events : Post(c, e)
  <2>1. PICK e \in Events : Post(c, e)
    BY <1>2, Zenon
  <2>2. /\ cond' = [cond EXCEPT ![e] = TRUE]
        /\ Go(c, AtWith("notify", e, 0)) /\ pc[c].at # "np"
        /\ UNCHANGED <<queue, context, LEAVING, ipi, preemptVars, programVars, fpVars>>
    BY <2>1, Zenon DEF Post, May, IsAt
  <2>3. cond' \in [Events -> BOOLEAN]
    BY <2>2, Zenon DEF TypeInv, TypeOK
  <2>4. GoodPosition(AtWith("notify", e, 0)) /\ AtWith("notify", e, 0).at # "np"
    BY PositionFacts, Zenon
  <2>5. /\ pc' \in [Cores -> Position]
        /\ NoPreemptHolds'
        /\ \A t \in TaskIds : GoodPosition(context'[t])
        /\ \A d \in Cores : GoodPosition(pc'[d])
    BY <2>2, <2>4, GoKeeps, Zenon
  <2>6. TypeOK'
    BY <2>2, <2>3, <2>5, Zenon DEF TypeInv, TypeOK
  <2> QED
    BY <2>5, <2>6, Zenon DEF TypeInv
<1>3. CASE FinishSwitch(c)
  <2>1. LEAVING' \in [Cores -> TaskIds \cup {NoTask}]
    BY <1>3, Zenon DEF FinishSwitch, TypeInv, TypeOK
  <2>2. TypeOK'
    BY <1>3, <2>1, Zenon DEF FinishSwitch, TypeInv, TypeOK
  <2> QED
    BY <1>3, <2>2, Zenon DEF FinishSwitch, TypeInv, NoPreemptHolds
<1>4. CASE \E t \in TaskIds : Kill(c, t)
  <2>1. PICK t \in TaskIds : Kill(c, t)
    BY <1>4, Zenon
  <2> DEFINE running == IsCurrent(queue, t) \/ context[t].at = "null"
             sentToExit == ~running /\ context[t].at = "user"
             p == IF sentToExit THEN At("run") ELSE AtWith("kill", t, 0)
  <2>2. /\ pc[c].at # "np"
        /\ killed' = [killed EXCEPT ![t] = TRUE]
        /\ redirect' = [redirect EXCEPT ![t] = @ \/ running]
        /\ context' = [context EXCEPT ![t] = IF sentToExit THEN At("exit") ELSE @]
        /\ pc' = [pc EXCEPT ![c] = p]
        /\ UNCHANGED <<queue, LEAVING, ipi, cond, preemptVars, program, processes, space, ttbr,
                       freed, fpVars>>
    BY <2>1, Zenon DEF Kill, May, IsAt, Go
  <2>3. GoodPosition(p) /\ p.at # "np" /\ p \in Position
    BY KillPositions, Zenon
  <2>4. killed' \in [TaskIds -> BOOLEAN] /\ redirect' \in [TaskIds -> BOOLEAN]
    BY <2>2, Zenon DEF TypeInv, TypeOK
  <2> HIDE DEF sentToExit, p
  <2>5. GoodPosition(At("exit")) /\ At("exit").at # "np" /\ At("exit") \in Position
    BY KillPositions, ZenonT(30), Zenon
  <2>6. /\ context' \in [TaskIds -> Position]
        /\ \A u \in TaskIds : GoodPosition(context'[u]) /\ context'[u].at # "np"
    BY <2>2, <2>5, Zenon DEF TypeInv, TypeOK, NoPreemptHolds
  <2>7. /\ pc' \in [Cores -> Position]
        /\ \A d \in Cores : pc'[d] = IF d = c THEN p ELSE pc[d]
    BY <2>2, <2>3, Zenon DEF TypeInv, TypeOK
  <2>8. NoPreemptHolds' /\ \A d \in Cores : GoodPosition(pc'[d])
    BY <2>2, <2>3, <2>6, <2>7, ZenonT(30), Zenon DEF TypeInv, NoPreemptHolds
  <2>9. TypeOK'
    BY <2>2, <2>4, <2>6, <2>7, Zenon DEF TypeInv, TypeOK
  <2> QED
    BY <2>6, <2>8, <2>9, Zenon DEF TypeInv
<1>5. CASE FpTrap(c)
  <2>1. Me(c) \in TaskIds /\ fp \in FpState
    BY <1>5, MeIsTask, Zenon DEF FpTrap, IsAt, TypeInv, TypeOK
  <2>2. fp' \in FpState
    BY <1>5, <2>1, FpType, Zenon DEF FpTrap
  <2>3. TypeOK'
    BY <1>5, <2>2, Zenon DEF FpTrap, TypeInv, TypeOK
  <2> QED
    BY <1>5, <2>3, Zenon DEF FpTrap, TypeInv, NoPreemptHolds
<1>6. CASE \E v \in 0 .. FpVersions - 1 : FpInstruction(c, v)
  <2>1. PICK v \in 0 .. FpVersions - 1 : FpInstruction(c, v)
    BY <1>6, Zenon
  <2>2. Me(c) \in TaskIds /\ fp \in FpState
    BY <2>1, MeIsTask, Zenon DEF FpInstruction, IsAt, TypeInv, TypeOK
  <2>3. fp' \in FpState
    BY <2>1, <2>2, FpType, Zenon DEF FpInstruction
  <2>4. computed' \in [TaskIds -> 0 .. FpVersions - 1]
    BY <2>1, <2>2, Zenon DEF FpInstruction, TypeInv, TypeOK
  <2>5. TypeOK'
    BY <2>1, <2>3, <2>4, Zenon DEF FpInstruction, TypeInv, TypeOK
  <2> QED
    BY <2>1, <2>5, Zenon DEF FpInstruction, TypeInv, NoPreemptHolds
<1> QED
  BY <1>1, <1>2, <1>3, <1>4, <1>5, <1>6, Zenon

\* Every step keeps the inductive invariant.
LEMMA NextTypes == TypeInv /\ [Next]_vars => TypeInv'
<1> SUFFICES ASSUME TypeInv, [Next]_vars PROVE TypeInv'
  BY Zenon
<1>1. ASSUME NEW c \in Cores, KernelStep(c) PROVE TypeInv'
  BY <1>1, OnYieldTypes, QueueCallTypes, ProgramStepTypes, NoPreemptTypes, OtherTypes, Zenon
     DEF KernelStep
<1>2. ASSUME NEW c \in Cores, TaskStep(c) PROVE TypeInv'
  BY <1>2, QueueCallTypes, ProgramStepTypes, NoPreemptTypes, LifeTypes, OtherTypes, Zenon
     DEF TaskStep
<1>3. ASSUME NEW c \in Cores, StartSecondary(c) PROVE TypeInv'
  BY <1>3, LifeTypes, Zenon
<1>4. ASSUME NEW c \in Cores, \E timer, uart \in BOOLEAN : OnIrq(c, timer, uart) PROVE TypeInv'
  BY <1>4, OnIrqTypes, Zenon
<1>5. ASSUME Elapse PROVE TypeInv'
  BY <1>5, LifeTypes, Zenon
<1>6. ASSUME UNCHANGED vars PROVE TypeInv'
  BY <1>6, Zenon DEF vars, kernelVars, runVars, preemptVars, programVars, fpVars, TypeInv, TypeOK, NoPreemptHolds
<1> QED
  BY <1>1, <1>2, <1>3, <1>4, <1>5, <1>6, Zenon DEF Next, Step

\* The types of everything the scheduler keeps hold in every behaviour.
THEOREM TypeCorrect == Spec => []TypeOK
<1>1. TypeInv => TypeOK
  BY Zenon DEF TypeInv
<1> QED
  BY <1>1, InitTypes, NextTypes, PTL DEF Spec

\* no_preempt keeps the code inside it on its core in every behaviour, on any number of
\* cores and however deep the sections nest: even those in which a task is run twice.
THEOREM NoPreemptCorrect == Spec => []NoPreemptHolds
<1>1. TypeInv => NoPreemptHolds
  BY Zenon DEF TypeInv
<1> QED
  BY <1>1, InitTypes, NextTypes, PTL DEF Spec
=============================================================================
