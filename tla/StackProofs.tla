---------------------------- MODULE StackProofs -----------------------------
(***************************************************************************)
(* Who uses a stack, and where the code of a task is.                      *)
(***************************************************************************)
EXTENDS SchedProofs
-----------------------------------------------------------------------------
(***************************************************************************)
(* One stack, one core: in every behaviour in which no core wakes a task   *)
(* another core still runs (OrderedSpec; with one core, every behaviour),  *)
(* for any number of cores, tasks and events and any workload.             *)
(***************************************************************************)

SvcPlaces == {"svc", "svcTop", "svcGone"}

\* The states of a task that a core runs while its code is at p: Ready never, so that no
\* other core picks it; anything but Running only on the way to the svc.
RunsAs(p) == IF p.at \in SvcPlaces THEN StateNames \ {"Ready", "Gone"} ELSE {"Running"}

\* The inductive invariant behind OneStackUser: tasks in use aren't ready, idle tasks are used
\* by their own core only, and ids not handed out yet are nobody's.
StackInv ==
  /\ OneStackUser
  /\ \A c \in Cores : queue.current[c] # NoTask =>
       queue.state[queue.current[c]].is \in RunsAs(pc[c])
  /\ \A c \in Cores : LEAVING[c] # NoTask => queue.state[LEAVING[c]].is # "Gone"
  /\ \A t \in TaskIds : queue.state[t].is # "Gone" => t < queue.len
  /\ \A c \in Cores : queue.idle[c] # NoTask => queue.idle[c] < queue.len
  /\ \A c, d \in Cores :
       queue.idle[d] # NoTask
         /\ queue.idle[d] \in {queue.idle[c], queue.current[c], LEAVING[c]} => c = d
-----------------------------------------------------------------------------
(* The shapes steps have.                                                  *)

\* Any step of a core other than a switch: its task stays, and stops at most before an svc.
LEMMA CallStack ==
  ASSUME TypeInv, StackInv, NEW c \in Cores, Executing(c), NEW p,
         pc' = [pc EXCEPT ![c] = p], LEAVING' = LEAVING, Called(queue, queue', c),
         queue'.state[queue.current[c]].is \in RunsAs(p),
         \A d \in Cores \ {c} : NotWokenEarly(d)
  PROVE  StackInv'
<1>1. /\ queue'.current = queue.current /\ queue'.idle = queue.idle /\ queue'.len = queue.len
      /\ \A t \in TaskIds : t # queue.current[c] =>
           \/ queue'.state[t].is = queue.state[t].is
           \/ queue.state[t].is \in StopStates /\ queue'.state[t].is = "Ready"
  BY Zenon DEF Called
<1>2. \A d \in Cores : pc'[d] = IF d = c THEN p ELSE pc[d]
  BY Zenon DEF TypeInv, TypeOK
<1>3. /\ queue.current \in [Cores -> TaskIds \cup {NoTask}]
      /\ LEAVING \in [Cores -> TaskIds \cup {NoTask}]
  BY Zenon DEF TypeInv, TypeOK, Queue
<1>4. \A d \in Cores : queue'.current[d] # NoTask =>
        queue'.state[queue'.current[d]].is \in RunsAs(pc'[d])
  <2> SUFFICES ASSUME NEW d \in Cores, queue.current[d] # NoTask
               PROVE  queue'.state[queue.current[d]].is \in RunsAs(pc'[d])
    BY <1>1, Zenon
  <2>1. CASE d = c
    BY <1>2, <2>1, Zenon
  <2>2. CASE d # c
    <3> DEFINE t == queue.current[d]
    <3>1. t \in TaskIds /\ t # queue.current[c] /\ pc'[d] = pc[d]
      BY <1>2, <1>3, <2>2, Zenon DEF StackInv, OneStackUser
    <3>2. queue.state[t].is \in StopStates => queue'.state[t].is = queue.state[t].is
      BY <2>2, Zenon DEF NotWokenEarly, StopStates
    <3>3. queue'.state[t].is = queue.state[t].is
      BY <1>1, <3>1, <3>2, Zenon
    <3> QED
      BY <3>1, <3>3, Zenon DEF StackInv
  <2> QED
    BY <2>1, <2>2, Zenon
<1>5. ASSUME NEW d \in Cores, LEAVING[d] # NoTask PROVE queue'.state[LEAVING[d]].is # "Gone"
  <2>1. LEAVING[d] \in TaskIds /\ queue.state[LEAVING[d]].is # "Gone"
    BY <1>3, <1>5, Zenon DEF StackInv
  <2>2. queue'.state[queue.current[c]].is # "Gone"
    BY Zenon DEF RunsAs
  <2> QED
    BY <1>1, <2>1, <2>2, Zenon
<1>6. OneStackUser'
  BY <1>1, Zenon DEF StackInv, OneStackUser
<1>7. ASSUME NEW t \in TaskIds, queue'.state[t].is # "Gone" PROVE t < queue'.len
  <2>1. queue.state[t].is # "Gone"
    BY <1>1, <1>3, <1>7, SMTT(30), Zenon DEF StackInv, RunsAs, StopStates, Executing
  <2> QED
    BY <1>1, <2>1, Zenon DEF StackInv
<1> QED
  BY <1>1, <1>4, <1>5, <1>6, <1>7, Zenon DEF StackInv

\* Scheduler::switch: the task it picks is in no other core's use, the task it leaves is this
\* core's, and what it reaps is in no one's.
LEMMA SwitchStack ==
  ASSUME TypeInv, StackInv, NEW c \in Cores, Executing(c), NEW q \in Queue,
         q.current = queue.current, q.idle = queue.idle, q.len = queue.len,
         \A t \in TaskIds : \/ q.state[t].is = queue.state[t].is
                            \/ queue.state[t].is \in StopStates /\ q.state[t].is = "Ready",
         NEW preempt \in BOOLEAN, NEW here, Switch(c, q, preempt, here),
         \A d \in Cores \ {c} : NotWokenEarly(d)
  PROVE  StackInv'
<1> DEFINE cur == q.current[c]
           busy == LeavingElsewhere(c)
           picked == PickNext(q, c, preempt, busy)
           next == picked.current[c]
           reaped == FinishedTasks(picked) \ ({cur} \cup busy)
<1>1. /\ queue' = Remove(picked, reaped)
      /\ LEAVING' = [LEAVING EXCEPT ![c] = IF next # cur THEN cur ELSE @]
      /\ \A d \in Cores \ {c} : pc'[d] = pc[d]
  BY ZenonT(30) DEF Switch, SwitchTo, TypeInv, TypeOK
<1>2. /\ queue \in Queue /\ cur \in TaskIds /\ cur = queue.current[c] /\ LEAVING[c] = NoTask
      /\ LEAVING \in [Cores -> TaskIds \cup {NoTask}]
  BY MeIsTask, Zenon DEF Executing, TypeInv, TypeOK
<1>3. picked \in Queue
  BY <1>2, PickNextType, Zenon
<1>4. next = Chosen(q, c, preempt, busy)
  BY <1>2, PickNextIs, SMT
<1>5. /\ next \in TaskIds
      /\ next = cur \/ next = q.idle[c] \/ next \in Pickable(q, busy)
  BY <1>2, <1>4, ChosenIs, ZenonT(30)
<1>6. /\ picked.current[c] = next
      /\ \A d \in Cores : d # c => picked.current[d] = q.current[d]
      /\ picked.state[next] = Running
      /\ \A t \in TaskIds : t # next =>
           picked.state[t] = IF t = q.current[c] /\ q.state[t] = Running THEN Ready ELSE q.state[t]
      /\ picked.idle = q.idle
      /\ picked.len = q.len
  BY <1>2, <1>4, PickNextIs, SMT
<1> HIDE DEF picked, next
<1>7. \A t \in reaped : t \in TaskIds /\ picked.state[t] = Finished /\ t # cur /\ t \notin busy
                        /\ \A d \in Cores : t # picked.current[d]
  BY Zenon DEF FinishedTasks, IsCurrent
<1> HIDE DEF reaped
<1>8. /\ queue'.current = picked.current /\ queue'.idle = queue.idle /\ queue'.len = queue.len
      /\ \A t \in TaskIds : queue'.state[t] = IF t \in reaped THEN Gone ELSE picked.state[t]
  BY <1>1, <1>3, <1>6, Zenon DEF Remove, Queue
<1>9. \A d \in Cores : LEAVING'[d] = IF d = c THEN (IF next # cur THEN cur ELSE NoTask)
                                     ELSE LEAVING[d]
  BY <1>1, <1>2, Zenon
<1>10. \A d \in Cores : queue'.current[d] = IF d = c THEN next ELSE queue.current[d]
  BY <1>6, <1>8, Zenon
<1>11. /\ Running.is = "Running" /\ Ready.is = "Ready" /\ Gone.is = "Gone"
       /\ Finished.is = "Finished"
  BY Zenon DEF Running, Ready, Gone, Finished
<1> HIDE DEF cur
\* The other cores' tasks keep their states, and are not what was picked.
<1>12. ASSUME NEW d \in Cores \ {c}, queue.current[d] # NoTask
       PROVE  /\ queue.current[d] # next
              /\ queue'.state[queue.current[d]].is \in RunsAs(pc'[d])
  <2> DEFINE t == queue.current[d]
  <2>1. t \in TaskIds /\ t # cur
    BY <1>2, <1>12 DEF Queue, StackInv, OneStackUser
  <2>2. queue.state[t].is \in RunsAs(pc[d])
    BY <1>12, Zenon DEF StackInv
  <2>3. t \notin reaped
    BY <1>6, <1>7, <1>12, Zenon
  <2>4. queue'.state[t] = picked.state[t]
    BY <1>8, <2>1, <2>3, Zenon
  <2>5. queue.state[t].is \in StopStates => queue'.state[t].is = queue.state[t].is
    BY <1>12, Zenon DEF NotWokenEarly, StopStates
  <2>6. t # next
    <3> SUFFICES ASSUME t = next PROVE FALSE
      BY Zenon
    <3>1. queue'.state[t].is = "Running"
      BY <1>6, <1>11, <2>4, Zenon
    <3>2. queue.state[t].is \notin StopStates
      BY <2>5, <3>1, Zenon DEF StopStates
    <3>3. q.state[t].is # "Ready"
      BY <2>1, <2>2, <3>2, Zenon DEF RunsAs
    <3>4. next = q.idle[c]
      BY <1>5, <1>11, <2>1, <3>3, Zenon DEF Pickable
    <3>5. queue.idle[c] # NoTask /\ queue.idle[c] = queue.current[d]
      BY <1>12, <3>4, Zenon
    <3> QED
      BY <1>12, <3>5, Zenon DEF StackInv
  <2>7. picked.state[t] = q.state[t]
    BY <1>2, <1>6, <2>1, <2>6, SMTT(30), Zenon DEF cur
  <2>8. q.state[t].is = queue.state[t].is
    BY <2>1, <2>2, <2>4, <2>5, <2>7, Zenon DEF RunsAs, StopStates
  <2> QED
    BY <1>1, <1>12, <2>2, <2>4, <2>6, <2>7, <2>8, Zenon
<1>13. OneStackUser'
  <2> SUFFICES ASSUME NEW x \in Cores, NEW y \in Cores, x # y, queue'.current[x] # NoTask
               PROVE  queue'.current[x] \notin {queue'.current[y], LEAVING'[y]}
    BY Zenon DEF OneStackUser
  <2>1. CASE x = c
    <3>1. queue'.current[x] = next /\ LEAVING'[y] = LEAVING[y] /\ queue'.current[y] = queue.current[y]
      BY <1>9, <1>10, <2>1, Zenon
    <3>2. next # queue.current[y]
      BY <1>5, <1>12, <2>1, TaskIdsFacts, Zenon
    <3>3. next # LEAVING[y]
      <4>1. CASE next = cur
        BY <1>2, <2>1, <4>1, TaskIdsFacts, Zenon DEF StackInv, OneStackUser
      <4>2. CASE next = q.idle[c]
        BY <1>5, <2>1, <4>2, TaskIdsFacts, Zenon DEF StackInv
      <4>3. CASE next \in Pickable(q, busy)
        <5>1. next \notin busy /\ next # NoTask
          BY <1>5, <4>3, TaskIdsFacts, Zenon DEF Pickable
        <5> QED
          BY <2>1, <5>1, Zenon DEF LeavingElsewhere
      <4> QED
        BY <1>5, <4>1, <4>2, <4>3, Zenon
    <3> QED
      BY <3>1, <3>2, <3>3, Zenon
  <2>2. CASE x # c
    <3>1. queue'.current[x] = queue.current[x] /\ queue.current[x] # NoTask
      BY <1>10, <2>2, Zenon
    <3>2. queue.current[x] # next /\ queue.current[x] # cur
      BY <1>2, <1>12, <2>2, <3>1, Zenon DEF StackInv, OneStackUser
    <3>3. y # c => queue.current[x] \notin {queue.current[y], LEAVING[y]}
      BY <3>1, Zenon DEF StackInv, OneStackUser
    <3> QED
      BY <1>9, <1>10, <3>1, <3>2, <3>3, Zenon
  <2> QED
    BY <2>1, <2>2, Zenon
<1>14. ASSUME NEW d \in Cores, queue'.current[d] # NoTask
       PROVE  queue'.state[queue'.current[d]].is \in RunsAs(pc'[d])
  <2>1. CASE d = c
    <3>1. next \notin reaped
      BY <1>6, <1>7, Zenon
    <3>2. queue'.state[next].is = "Running"
      BY <1>5, <1>6, <1>8, <1>11, <3>1, Zenon
    <3> QED
      BY <1>10, <2>1, <3>2, Zenon DEF RunsAs, SvcPlaces, StateNames
  <2>2. CASE d # c
    BY <1>10, <1>12, <1>14, <2>2, Zenon
  <2> QED
    BY <2>1, <2>2, Zenon
<1>15. ASSUME NEW d \in Cores, LEAVING'[d] # NoTask PROVE queue'.state[LEAVING'[d]].is # "Gone"
  <2>1. CASE d = c
    <3>1. LEAVING'[d] = cur /\ next # cur
      BY <1>9, <1>15, <2>1, Zenon
    <3>2. q.state[cur].is # "Gone" /\ cur \notin reaped
      BY <1>2, <1>7, TaskIdsFacts, Zenon DEF StackInv, RunsAs
    <3>3. picked.state[cur].is # "Gone"
      BY <1>2, <1>6, <1>11, <3>1, <3>2, Zenon
    <3> QED
      BY <1>2, <1>8, <3>1, <3>2, <3>3, Zenon
  <2>2. CASE d # c
    <3> DEFINE t == LEAVING[d]
    <3>1. LEAVING'[d] = t /\ t \in TaskIds /\ t \in busy
      BY <1>2, <1>9, <1>15, <2>2, Zenon DEF LeavingElsewhere
    <3>2. queue.state[t].is # "Gone" /\ t \notin reaped
      BY <1>7, <1>15, <3>1, Zenon DEF StackInv
    <3>3. q.state[t].is # "Gone"
      BY <3>1, <3>2, Zenon
    <3>4. picked.state[t].is # "Gone"
      BY <1>6, <1>11, <3>1, <3>3, Zenon
    <3> QED
      BY <1>8, <3>1, <3>2, <3>4, Zenon
  <2> QED
    BY <2>1, <2>2, Zenon
<1>16. ASSUME NEW t \in TaskIds, queue'.state[t].is # "Gone" PROVE t < queue'.len
  <2>1. CASE t = next
    <3>1. queue.state[cur].is # "Gone"
      BY <1>2, TaskIdsFacts, Zenon DEF StackInv, RunsAs
    <3>2. next \in Pickable(q, busy) => queue.state[next].is # "Gone"
      BY <1>5, <1>11, Zenon DEF Pickable, StopStates
    <3>3. next = q.idle[c] => next < queue.len
      BY <1>5, TaskIdsFacts DEF StackInv
    <3> QED
      BY <1>2, <1>5, <1>8, <2>1, <3>1, <3>2, <3>3, Zenon DEF StackInv
  <2>2. CASE t # next
    <3>1. picked.state[t].is # "Gone"
      BY <1>8, <1>11, <1>16, Zenon
    <3>2. q.state[t].is # "Gone"
      BY <1>6, <1>11, <2>2, <3>1, Zenon
    <3>3. queue.state[t].is # "Gone"
      BY <3>2, Zenon DEF StopStates
    <3> QED
      BY <1>8, <3>3, Zenon DEF StackInv
  <2> QED
    BY <2>1, <2>2, Zenon
<1>17. ASSUME NEW x \in Cores, NEW y \in Cores, queue.idle[y] # NoTask,
              queue.idle[y] \in {queue.idle[x], queue'.current[x], LEAVING'[x]}
       PROVE  x = y
  <2>1. CASE queue.idle[y] = queue.idle[x] \/ x # c
    BY <1>9, <1>10, <1>17, <2>1, Zenon DEF StackInv
  <2>2. CASE x = c /\ queue.idle[y] = next
    <3>1. next \notin Pickable(q, busy)
      BY <2>2, Zenon DEF Pickable, IsIdle
    <3> QED
      BY <1>2, <1>5, <1>17, <2>2, <3>1, Zenon DEF StackInv
  <2>3. CASE x = c /\ queue.idle[y] = LEAVING'[c]
    BY <1>2, <1>9, <1>17, <2>3 DEF StackInv
  <2> QED
    BY <1>10, <1>17, <2>1, <2>2, <2>3, Zenon
<1> QED
  BY <1>8, <1>13, <1>14, <1>15, <1>16, <1>17 DEF StackInv
-----------------------------------------------------------------------------
(* Every step.                                                             *)

\* The run queue after sched::init: the shell on core 0, and core 0's idle task.
LEMMA InitQueueIs ==
  ASSUME Init
  PROVE  /\ queue.len = 2
         /\ \A t \in TaskIds : queue.state[t] = IF t = 0 THEN Running ELSE IF t = 1 THEN Ready ELSE Gone
         /\ \A c \in Cores : /\ queue.current[c] = IF c = 0 THEN 0 ELSE NoTask
                             /\ queue.idle[c] = IF c = 0 THEN 1 ELSE NoTask
                             /\ LEAVING[c] = NoTask
<1>1. /\ New.len = 1
      /\ New.state = [t \in TaskIds |-> IF t = 0 THEN Running ELSE Gone]
      /\ New.current = [c \in Cores |-> IF c = 0 THEN 0 ELSE NoTask]
      /\ New.idle = [c \in Cores |-> NoTask]
  BY Zenon DEF New
<1>2. /\ Add(New).len = 2
      /\ Add(New).state = [New.state EXCEPT ![1] = Ready]
      /\ Add(New).current = New.current
      /\ Add(New).idle = New.idle
  BY <1>1 DEF Add, New
<1>3. /\ AddIdle(New, 0).len = 2
      /\ AddIdle(New, 0).state = [New.state EXCEPT ![1] = Ready]
      /\ AddIdle(New, 0).current = New.current
      /\ AddIdle(New, 0).idle = [New.idle EXCEPT ![0] = 1]
  BY <1>1, <1>2, Zenon DEF AddIdle, Add, New
<1> QED
  BY <1>1, <1>3 DEF Init

\* After sched::init, core 0 runs task 0 and task 1 is its idle task.
LEMMA InitStack == Init => StackInv
<1> SUFFICES ASSUME Init PROVE StackInv
  BY Zenon
<1>1. /\ queue.len = 2
      /\ \A t \in TaskIds : queue.state[t] = IF t = 0 THEN Running ELSE IF t = 1 THEN Ready ELSE Gone
      /\ \A c \in Cores : /\ queue.current[c] = IF c = 0 THEN 0 ELSE NoTask
                          /\ queue.idle[c] = IF c = 0 THEN 1 ELSE NoTask
                          /\ LEAVING[c] = NoTask
  BY InitQueueIs, Zenon
<1>2. Running.is = "Running" /\ Ready.is = "Ready" /\ Gone.is = "Gone"
  BY Zenon DEF Running, Ready, Gone
<1>3. OneStackUser
  BY <1>1, RunQueueAssumption, Zenon DEF OneStackUser
<1>4. \A c \in Cores : queue.current[c] # NoTask => queue.state[queue.current[c]].is \in RunsAs(pc[c])
  BY <1>1, <1>2, TaskIdsFacts, Zenon DEF RunsAs, StateNames
<1> QED
  BY <1>1, <1>2, <1>3, <1>4, TaskIdsFacts, RunQueueAssumption DEF StackInv

\* A core whose code isn't about to svc runs a task that is Running.
LEMMA RunningTask ==
  ASSUME TypeInv, StackInv, NEW c \in Cores, Executing(c), pc[c].at \notin SvcPlaces
  PROVE  queue.state[queue.current[c]].is = "Running"
  BY Zenon DEF StackInv, RunsAs, Executing

\* The steps that don't touch the run queue: the core's code moves on, or stays.
LEMMA QuietStack ==
  ASSUME TypeInv, StackInv, NEW c \in Cores, Executing(c), pc[c].at \notin SvcPlaces, NEW p,
         pc' = [pc EXCEPT ![c] = p], UNCHANGED <<queue, LEAVING>>,
         \A d \in Cores \ {c} : NotWokenEarly(d)
  PROVE  StackInv'
<1>1. queue'.state[queue.current[c]].is \in RunsAs(p)
  BY RunningTask, Zenon DEF RunsAs, StateNames
<1>2. Called(queue, queue', c)
  BY Zenon DEF Called
<1> QED
  BY <1>1, <1>2, CallStack, Zenon

\* The calls into the run queue.
LEMMA QueueCallStack ==
  ASSUME TypeInv, StackInv, NEW c \in Cores,
         \A d \in Cores \ {c} : NotWokenEarly(d),
         \/ YieldNow(c)
         \/ \E left \in 0 .. MaxSleep : Sleep(c, left)
         \/ Block(c)
         \/ \E t \in TaskIds : WakeTask(c, t)
         \/ \E e \in Events : WaitUntil(c, e)
         \/ SeeGeneration(c)
         \/ LookNotReady(c)
         \/ WaitForEvent(c)
         \/ NotifyEvent(c)
         \/ Exit(c)
         \/ ExitFinish(c)
         \/ KillInterrupt(c)
  PROVE  StackInv'
<1> USE DEF May, IsAt, CallQueue, Go
<1>1. Executing(c) /\ pc[c].at \notin SvcPlaces
  BY Zenon DEF YieldNow, Sleep, Block, WakeTask, WaitUntil, SeeGeneration, LookNotReady, WaitForEvent,
         NotifyEvent, Exit, ExitFinish, KillInterrupt, SvcPlaces
<1>2. queue.current[c] \in TaskIds /\ queue \in Queue /\ GoodPosition(pc[c])
  BY <1>1, MeIsTask, Zenon
<1>3. queue.state[queue.current[c]].is = "Running"
  BY <1>1, RunningTask, Zenon
<1>4. CASE YieldNow(c) \/ (\E e \in Events : WaitUntil(c, e)) \/ SeeGeneration(c) \/ LookNotReady(c)
  BY <1>1, <1>4, QuietStack, Zenon DEF YieldNow, WaitUntil, SeeGeneration, LookNotReady
\* A wake-up leaves the core's own, running task alone.
<1>5. ASSUME NEW p, pc' = [pc EXCEPT ![c] = p], LEAVING' = LEAVING,
             \/ \E t \in TaskIds : queue' = Wake(queue, t) \/ queue' = Interrupt(queue, t)
             \/ \E e \in Events : queue' = Notify(queue, e)
      PROVE  StackInv'
  <2>1. /\ queue'.current = queue.current /\ queue'.idle = queue.idle /\ queue'.len = queue.len
        /\ \A t \in TaskIds : \/ queue'.state[t].is = queue.state[t].is
                              \/ queue.state[t].is \in StopStates /\ queue'.state[t].is = "Ready"
    BY <1>2, <1>5, WakingOpsDo, Zenon
  <2>2. Called(queue, queue', c)
    BY <2>1, Zenon DEF Called
  <2>3. queue'.state[queue.current[c]].is \in RunsAs(p)
    BY <1>2, <1>3, <2>1, Zenon DEF RunsAs, StateNames, StopStates
  <2> QED
    BY <1>1, <1>5, <2>2, <2>3, CallStack, Zenon
<1>6. CASE (\E t \in TaskIds : WakeTask(c, t)) \/ NotifyEvent(c) \/ KillInterrupt(c)
  <2>1. pc[c].at \in {"notify"} => pc[c].arg \in Events
    BY <1>2, Zenon DEF GoodPosition
  <2>2. pc[c].at = "kill" => pc[c].arg \in TaskIds
    BY <1>2, Zenon DEF GoodPosition
  <2>3. CASE \E t \in TaskIds : WakeTask(c, t)
    BY <1>5, <2>3, Zenon DEF WakeTask
  <2>4. CASE NotifyEvent(c)
    BY <1>5, <2>1, <2>4, Zenon DEF NotifyEvent
  <2>5. CASE KillInterrupt(c)
    BY <1>5, <2>2, <2>5, Zenon DEF KillInterrupt
  <2> QED
    BY <1>6, <2>3, <2>4, <2>5, Zenon
\* The core's task stops, and its code is about to svc.
<1>7. ASSUME NEW p, p.at \in SvcPlaces, pc' = [pc EXCEPT ![c] = p], LEAVING' = LEAVING,
             \/ \E n \in Nat : queue' = SleepCurrent(queue, c, n)
             \/ \E e \in Events, n \in Nat : queue' = WaitCurrent(queue, c, e, n)
             \/ queue' = BlockCurrent(queue, c)
             \/ queue' = FinishCurrent(queue, c)
      PROVE  StackInv'
  <2>1. /\ Called(queue, queue', c)
        /\ \/ queue'.state[queue.current[c]].is = queue.state[queue.current[c]].is
           \/ queue'.state[queue.current[c]].is \in {"Sleeping", "Waiting", "Blocked", "Finished"}
    BY <1>2, <1>7, CurrentOpsDo, Zenon
  <2>2. queue'.state[queue.current[c]].is \in RunsAs(p)
    BY <1>3, <1>7, <2>1, Zenon DEF RunsAs, StateNames
  <2> QED
    BY <1>1, <1>7, <2>1, <2>2, CallStack, Zenon
<1>8. /\ At("svc").at \in SvcPlaces /\ At("svcGone").at \in SvcPlaces
      /\ \A e, n : AtWith("svcTop", e, n).at \in SvcPlaces
  BY Zenon DEF At, AtWith, SvcPlaces
<1>9. CASE \E left \in 0 .. MaxSleep : Sleep(c, left)
  <2>1. PICK left \in 0 .. MaxSleep : Sleep(c, left)
    BY <1>9, Zenon
  <2>2. /\ queue' = SleepCurrent(queue, c, left) /\ LEAVING' = LEAVING
        /\ pc' = [pc EXCEPT ![c] = At("svc")] /\ left \in Nat
    BY <2>1, SchedAssumption DEF Sleep
  <2> QED
    BY <1>7, <1>8, <2>2, Zenon
<1>10. CASE Block(c)
  BY <1>7, <1>8, <1>10, Zenon DEF Block
<1>11. CASE WaitForEvent(c)
  <2>1. pc[c].arg \in Events /\ pc[c].n \in Nat
    BY <1>2, <1>11, Zenon DEF WaitForEvent, GoodPosition, Position
  <2> QED
    BY <1>7, <1>8, <1>11, <2>1, Zenon DEF WaitForEvent
<1>12. CASE Exit(c) \/ ExitFinish(c)
  BY <1>7, <1>8, <1>12, Zenon DEF Exit, ExitFinish
<1> QED
  BY <1>4, <1>6, <1>9, <1>10, <1>11, <1>12, Zenon
-----------------------------------------------------------------------------
(* Every step together.                                                    *)

\* The steps that leave the run queue alone.
LEMMA OtherStack ==
  ASSUME TypeInv, StackInv, NEW c \in Cores,
         \A d \in Cores \ {c} : NotWokenEarly(d),
         \/ Syscall(c) \/ SyscallDone(c) \/ ReturnToUser(c) \/ UserExit(c)
         \/ ExitRemove(c) \/ ExitLeave(c) \/ ExitDrop(c)
         \/ NoPreemptBegin(c) \/ NoPreemptCount(c) \/ NoPreemptEnd(c)
         \/ LookReady(c) \/ (\E e \in Events : Post(c, e)) \/ (\E t \in TaskIds : Kill(c, t))
         \/ FpTrap(c) \/ (\E v \in 0 .. FpVersions - 1 : FpInstruction(c, v))
  PROVE  StackInv'
<1> USE DEF May, IsAt, Go, Move
<1>1. Executing(c) /\ pc[c].at \notin SvcPlaces /\ UNCHANGED <<queue, LEAVING>>
  BY Zenon DEF Syscall, SyscallDone, ReturnToUser, UserExit, ExitRemove, ExitLeave, ExitDrop,
         NoPreemptBegin, NoPreemptCount, NoPreemptEnd, LookReady, Post, Kill, FpTrap, FpInstruction,
         runVars, SvcPlaces
<1>2. \E p : pc' = [pc EXCEPT ![c] = p]
  <2>1. CASE FpTrap(c) \/ \E v \in 0 .. FpVersions - 1 : FpInstruction(c, v)
    <3>1. pc' = [pc EXCEPT ![c] = pc[c]]
      BY <2>1, Zenon DEF FpTrap, FpInstruction, runVars, TypeInv, TypeOK
    <3> QED
      BY <3>1, Zenon
  <2>2. CASE Syscall(c) \/ SyscallDone(c) \/ ReturnToUser(c) \/ UserExit(c)
             \/ ExitRemove(c) \/ ExitLeave(c) \/ ExitDrop(c)
    BY <2>2, Zenon DEF Syscall, SyscallDone, ReturnToUser, UserExit, ExitRemove, ExitLeave, ExitDrop
  <2>3. CASE NoPreemptBegin(c) \/ NoPreemptCount(c) \/ NoPreemptEnd(c)
    BY <2>3, Zenon DEF NoPreemptBegin, NoPreemptCount, NoPreemptEnd
  <2>4. CASE LookReady(c) \/ (\E e \in Events : Post(c, e)) \/ (\E t \in TaskIds : Kill(c, t))
    BY <2>4, Zenon DEF LookReady, Post, Kill
  <2> QED
    BY <2>1, <2>2, <2>3, <2>4, Zenon
<1> QED
  BY <1>1, <1>2, QuietStack, Zenon

\* on_yield.
LEMMA OnYieldStack ==
  ASSUME TypeInv, StackInv, NEW c \in Cores, OnYield(c), \A d \in Cores \ {c} : NotWokenEarly(d)
  PROVE  StackInv'
<1>1. Executing(c) /\ Switch(c, queue, TRUE, AfterSvc(pc[c]))
  BY Zenon DEF OnYield
<1>2. queue \in Queue
  BY Zenon DEF TypeInv, TypeOK
<1> QED
  BY <1>1, <1>2, SwitchStack, Zenon

\* on_irq: what it defers is the switch of a task that is Running.
LEMMA OnIrqStack ==
  ASSUME TypeInv, StackInv, NEW c \in Cores, NEW timer \in BOOLEAN, NEW uart \in BOOLEAN,
         OnIrq(c, timer, uart), \A d \in Cores \ {c} : NotWokenEarly(d)
  PROVE  StackInv'
<1> DEFINE q1 == IF uart THEN Notify(queue, Uart) ELSE queue
           q2 == IF timer THEN Tick(q1) ELSE q1
<1>1. /\ Executing(c)
      /\ uart => Uart \in Events
      /\ IF PREEMPT_DISABLED[c] > 0
         THEN queue' = q2 /\ UNCHANGED <<pc, LEAVING>>
         ELSE Switch(c, q2, timer, pc[c])
  BY Zenon DEF OnIrq
<1>2. queue.current[c] \in TaskIds /\ queue \in Queue
  BY <1>1, MeIsTask, Zenon
<1>3. /\ q1 \in Queue
      /\ q1.current = queue.current /\ q1.idle = queue.idle /\ q1.len = queue.len
      /\ \A t \in TaskIds : \/ q1.state[t].is = queue.state[t].is
                            \/ queue.state[t].is \in StopStates /\ q1.state[t].is = "Ready"
  <2>1. CASE uart
    <3>1. q1 = Notify(queue, Uart) /\ Uart \in Events
      BY <1>1, <2>1, Zenon
    <3> HIDE DEF q1
    <3> QED
      BY <1>2, <3>1, WakingOpsType, WakingOpsDo
  <2>2. CASE ~uart
    BY <1>2, <2>2, Zenon
  <2> QED
    BY <2>1, <2>2, Zenon
<1> HIDE DEF q1
<1>4. /\ q2 \in Queue
      /\ q2.current = q1.current /\ q2.idle = q1.idle /\ q2.len = q1.len
      /\ \A t \in TaskIds : \/ q2.state[t].is = q1.state[t].is
                            \/ q1.state[t].is \in StopStates /\ q2.state[t].is = "Ready"
  <2>1. q2 = q1 \/ q2 = Tick(q1)
    BY Zenon
  <2> HIDE DEF q2
  <2> QED
    BY <1>3, <2>1, WakingOpsType, WakingOpsDo, Zenon
<1> HIDE DEF q2
<1>5. /\ q2.current = queue.current /\ q2.idle = queue.idle /\ q2.len = queue.len
      /\ \A t \in TaskIds : \/ q2.state[t].is = queue.state[t].is
                            \/ queue.state[t].is \in StopStates /\ q2.state[t].is = "Ready"
  BY <1>3, <1>4, Zenon DEF StopStates
<1>6. CASE PREEMPT_DISABLED[c] > 0
  <2>1. queue' = q2 /\ UNCHANGED <<pc, LEAVING>>
    BY <1>1, <1>6, Zenon
  <2>2. pc[c].at = "np"
    BY <1>6 DEF TypeInv, NoPreemptHolds
  <2>3. queue.state[queue.current[c]].is = "Running"
    BY <1>1, <2>2, RunningTask, Zenon DEF SvcPlaces
  <2>4. queue'.state[queue.current[c]].is \in RunsAs(pc[c])
    BY <1>2, <1>5, <2>1, <2>3, Zenon DEF RunsAs, StopStates, StateNames
  <2>5. pc' = [pc EXCEPT ![c] = pc[c]]
    BY <2>1, Zenon DEF TypeInv, TypeOK
  <2>6. Called(queue, queue', c)
    BY <1>5, <2>1, Zenon DEF Called
  <2> QED
    BY <1>1, <2>1, <2>4, <2>5, <2>6, CallStack, Zenon
<1>7. CASE ~(PREEMPT_DISABLED[c] > 0)
  BY <1>1, <1>4, <1>5, <1>7, SwitchStack, Zenon
<1> QED
  BY <1>6, <1>7, Zenon

\* sched_finish_switch.
LEMMA FinishSwitchStack ==
  ASSUME TypeInv, StackInv, NEW c \in Cores, FinishSwitch(c)
  PROVE  StackInv'
<1>1. \A d \in Cores : LEAVING'[d] = IF d = c THEN NoTask ELSE LEAVING[d]
  BY Zenon DEF FinishSwitch, TypeInv, TypeOK
<1>2. UNCHANGED <<queue, pc>>
  BY Zenon DEF FinishSwitch
<1>3. OneStackUser'
  BY <1>1, <1>2, SMTT(30), Zenon DEF StackInv, OneStackUser
<1> QED
  BY <1>1, <1>2, <1>3, Zenon DEF StackInv

\* spawn: the new task has an id no one used before.
LEMMA SpawnStack ==
  ASSUME TypeInv, StackInv, NEW c \in Cores, NEW isProgram \in BOOLEAN, Spawn(c, isProgram)
  PROVE  StackInv'
<1>1. /\ queue.len < MaxTasks
      /\ queue' = Add(queue)
      /\ UNCHANGED <<pc, LEAVING>>
  BY Zenon DEF Spawn
<1>2. queue \in Queue /\ queue.len \in TaskIds /\ queue.len \in Nat
  BY <1>1, AddType, TaskIdsFacts, Zenon DEF TypeInv, TypeOK
<1>3. /\ queue'.state = [queue.state EXCEPT ![queue.len] = Ready]
      /\ queue'.len = queue.len + 1
      /\ queue'.current = queue.current /\ queue'.idle = queue.idle
  BY <1>1, <1>2, Zenon DEF Add, Queue
<1>4. \A t \in TaskIds : queue'.state[t] = IF t = queue.len THEN Ready ELSE queue.state[t]
  BY <1>2, <1>3, Zenon DEF Queue
<1>5. queue.state[queue.len].is = "Gone"
  BY <1>2 DEF StackInv
<1>6. /\ queue.current \in [Cores -> TaskIds \cup {NoTask}]
      /\ queue.idle \in [Cores -> TaskIds \cup {NoTask}]
      /\ LEAVING \in [Cores -> TaskIds \cup {NoTask}]
  BY Zenon DEF TypeInv, TypeOK, Queue
<1>7. \A d \in Cores : queue.current[d] # queue.len /\ LEAVING[d] # queue.len
  BY <1>2, <1>5, TaskIdsFacts DEF StackInv, RunsAs
<1>8. OneStackUser'
  BY <1>1, <1>3, Zenon DEF StackInv, OneStackUser
<1>9. \A t \in TaskIds : queue'.state[t].is # "Gone" => t < queue'.len
  BY <1>2, <1>3, <1>4, TaskIdsFacts DEF StackInv
<1>10. \A d \in Cores : queue'.idle[d] # NoTask => queue'.idle[d] < queue'.len
  BY <1>2, <1>3, <1>6, TaskIdsFacts DEF StackInv
<1>11. /\ \A d \in Cores : queue'.current[d] # NoTask =>
            queue'.state[queue'.current[d]].is \in RunsAs(pc'[d])
       /\ \A d \in Cores : LEAVING'[d] # NoTask => queue'.state[LEAVING'[d]].is # "Gone"
  BY <1>1, <1>3, <1>4, <1>6, <1>7 DEF StackInv
<1> QED
  BY <1>1, <1>3, <1>8, <1>9, <1>10, <1>11 DEF StackInv

\* start_core: a core begins with an idle task of its own.
LEMMA StartSecondaryStack ==
  ASSUME TypeInv, StackInv, NEW c \in Cores, StartSecondary(c)
  PROVE  StackInv'
<1> DEFINE n == queue.len
<1>1. /\ n < MaxTasks /\ queue.current[c] = NoTask
      /\ queue' = StartCore(queue, c)
      /\ pc' = [pc EXCEPT ![c] = At("idle")]
      /\ LEAVING' = LEAVING
  BY Zenon DEF StartSecondary, Go
<1>2. queue \in Queue /\ n \in TaskIds /\ n \in Nat /\ n # NoTask
  BY <1>1, AddType, TaskIdsFacts, Zenon DEF TypeInv, TypeOK
<1>3. /\ Add(queue).state = [queue.state EXCEPT ![n] = Ready]
      /\ Add(queue).len = n + 1
      /\ Add(queue).current = queue.current /\ Add(queue).idle = queue.idle
  BY <1>2, Zenon DEF Add, Queue
<1>4. AddIdle(queue, c) = [Add(queue) EXCEPT !.idle[c] = n] /\ Add(queue) \in Queue
  BY <1>1, <1>2, AddType, Zenon DEF AddIdle
<1>5. /\ AddIdle(queue, c).state = Add(queue).state
      /\ AddIdle(queue, c).len = n + 1
      /\ AddIdle(queue, c).current = queue.current
      /\ AddIdle(queue, c).idle = [queue.idle EXCEPT ![c] = n]
      /\ AddIdle(queue, c) \in Queue
  <2>1. /\ AddIdle(queue, c).state = Add(queue).state
        /\ AddIdle(queue, c).len = Add(queue).len
        /\ AddIdle(queue, c).current = Add(queue).current
        /\ AddIdle(queue, c).idle = [Add(queue).idle EXCEPT ![c] = n]
    BY <1>4, Zenon DEF Queue
  <2>2. AddIdle(queue, c) \in Queue
    BY <1>1, <1>2, AddType, Zenon
  <2> QED
    BY <1>3, <2>1, <2>2, Zenon
<1>6. queue' = [AddIdle(queue, c) EXCEPT !.state[n] = Running, !.current[c] = n]
  BY <1>1, Zenon DEF StartCore
<1>7. /\ queue'.state = [Add(queue).state EXCEPT ![n] = Running]
      /\ queue'.len = n + 1
      /\ queue'.current = [queue.current EXCEPT ![c] = n]
      /\ queue'.idle = [queue.idle EXCEPT ![c] = n]
  BY <1>5, <1>6, Zenon DEF Queue
<1> HIDE DEF n
<1>8. /\ \A t \in TaskIds : queue'.state[t] = IF t = n THEN Running ELSE queue.state[t]
      /\ \A d \in Cores : queue'.current[d] = IF d = c THEN n ELSE queue.current[d]
      /\ \A d \in Cores : queue'.idle[d] = IF d = c THEN n ELSE queue.idle[d]
      /\ \A d \in Cores : LEAVING'[d] = LEAVING[d]
      /\ \A d \in Cores : pc'[d] = IF d = c THEN At("idle") ELSE pc[d]
  BY <1>1, <1>2, <1>3, <1>7 DEF Queue, TypeInv, TypeOK
<1>9. /\ queue.current \in [Cores -> TaskIds \cup {NoTask}]
      /\ queue.idle \in [Cores -> TaskIds \cup {NoTask}]
      /\ LEAVING \in [Cores -> TaskIds \cup {NoTask}]
  BY Zenon DEF TypeInv, TypeOK, Queue
<1>10. queue.state[n].is = "Gone"
  BY <1>2 DEF StackInv, n
<1>11. \A d \in Cores : queue.current[d] # n /\ LEAVING[d] # n /\ queue.idle[d] # n
  BY <1>2, <1>9, <1>10 DEF StackInv, RunsAs, n
<1>12. OneStackUser'
  BY <1>1, <1>8, <1>11 DEF StackInv, OneStackUser
<1>13. Running.is = "Running"
  BY Zenon DEF Running
<1>14. /\ \A d \in Cores : queue'.current[d] # NoTask =>
            queue'.state[queue'.current[d]].is \in RunsAs(pc'[d])
       /\ \A d \in Cores : LEAVING'[d] # NoTask => queue'.state[LEAVING'[d]].is # "Gone"
  <2>1. "Running" \in RunsAs(At("idle"))
    BY Zenon DEF RunsAs, StateNames
  <2>2. ASSUME NEW d \in Cores, queue'.current[d] # NoTask
        PROVE  queue'.state[queue'.current[d]].is \in RunsAs(pc'[d])
    <3>1. CASE d = c
      <4>1. queue'.current[d] = n /\ queue'.state[n] = Running /\ pc'[d] = At("idle")
        BY <1>2, <1>8, <3>1, Zenon
      <4> QED
        BY <1>13, <2>1, <4>1, Zenon
    <3>2. CASE d # c
      <4>1. queue'.current[d] = queue.current[d] /\ pc'[d] = pc[d] /\ queue.current[d] \in TaskIds
        BY <1>8, <1>9, <2>2, <3>2, Zenon
      <4>2. queue'.state[queue.current[d]] = queue.state[queue.current[d]]
        BY <1>8, <1>11, <4>1, Zenon
      <4> QED
        BY <2>2, <4>1, <4>2, Zenon DEF StackInv
    <3> QED
      BY <3>1, <3>2, Zenon
  <2>3. \A d \in Cores : LEAVING'[d] # NoTask => queue'.state[LEAVING'[d]].is # "Gone"
    BY <1>8, <1>9, <1>11 DEF StackInv
  <2> QED
    BY <2>2, <2>3, Zenon
<1>15. \A t \in TaskIds : queue'.state[t].is # "Gone" => t < queue'.len
  BY <1>2, <1>7, <1>8, TaskIdsFacts DEF StackInv, n
<1>16. \A d \in Cores : queue'.idle[d] # NoTask => queue'.idle[d] < queue'.len
  BY <1>2, <1>7, <1>8, <1>9, TaskIdsFacts DEF StackInv, n
<1>17. \A x, y \in Cores :
         queue'.idle[y] # NoTask
           /\ queue'.idle[y] \in {queue'.idle[x], queue'.current[x], LEAVING'[x]} => x = y
  BY <1>8, <1>11 DEF StackInv
<1> QED
  BY <1>12, <1>14, <1>15, <1>16, <1>17, Zenon DEF StackInv

\* Sleepers stay asleep while time passes.
LEMMA ElapseStack ==
  ASSUME TypeInv, StackInv, Elapse
  PROVE  StackInv'
<1>1. /\ queue'.state = [t \in TaskIds |->
                           IF queue.state[t].is = "Sleeping" /\ queue.state[t].of > 0
                           THEN Sleeping(queue.state[t].of - 1) ELSE queue.state[t]]
      /\ queue'.current = queue.current /\ queue'.idle = queue.idle /\ queue'.len = queue.len
      /\ UNCHANGED <<pc, LEAVING>>
  BY Zenon DEF Elapse, TypeInv, TypeOK, Queue
<1>2. \A t \in TaskIds : queue'.state[t].is = queue.state[t].is
  BY <1>1 DEF Sleeping
<1>3. /\ queue.current \in [Cores -> TaskIds \cup {NoTask}]
      /\ LEAVING \in [Cores -> TaskIds \cup {NoTask}]
  BY Zenon DEF TypeInv, TypeOK, Queue
<1>4. OneStackUser'
  BY <1>1, Zenon DEF StackInv, OneStackUser
<1>5. ASSUME NEW d \in Cores, queue'.current[d] # NoTask
      PROVE  queue'.state[queue'.current[d]].is \in RunsAs(pc'[d])
  <2>1. queue.current[d] \in TaskIds /\ queue'.current[d] = queue.current[d] /\ pc'[d] = pc[d]
    BY <1>1, <1>3, <1>5, Zenon
  <2>2. queue.state[queue.current[d]].is \in RunsAs(pc[d])
    BY <1>5, <2>1, Zenon DEF StackInv
  <2> QED
    BY <1>2, <2>1, <2>2, Zenon
<1>6. ASSUME NEW d \in Cores, LEAVING'[d] # NoTask
      PROVE  queue'.state[LEAVING'[d]].is # "Gone"
  <2>1. LEAVING[d] \in TaskIds /\ LEAVING'[d] = LEAVING[d]
    BY <1>1, <1>3, <1>6, Zenon
  <2>2. queue.state[LEAVING[d]].is # "Gone"
    BY <1>6, <2>1, Zenon DEF StackInv
  <2> QED
    BY <1>2, <2>1, <2>2, Zenon
<1>7. \A t \in TaskIds : queue'.state[t].is # "Gone" => t < queue'.len
  BY <1>1, <1>2, Zenon DEF StackInv
<1>8. /\ \A d \in Cores : queue'.idle[d] # NoTask => queue'.idle[d] < queue'.len
      /\ \A x, y \in Cores :
           queue'.idle[y] # NoTask
             /\ queue'.idle[y] \in {queue'.idle[x], queue'.current[x], LEAVING'[x]} => x = y
  BY <1>1, ZenonT(30) DEF StackInv
<1> QED
  BY <1>4, <1>5, <1>6, <1>7, <1>8, Zenon DEF StackInv

\* Every step that keeps to the order keeps the invariant.
LEMMA NextStack == TypeInv /\ StackInv /\ [OrderedNext]_vars => StackInv'
<1> SUFFICES ASSUME TypeInv, StackInv, [OrderedNext]_vars PROVE StackInv'
  BY Zenon
<1>1. ASSUME NEW c \in Cores, Step(c), \A d \in Cores \ {c} : NotWokenEarly(d)
      PROVE  StackInv'
  <2>1. CASE KernelStep(c)
    BY <1>1, <2>1, OnYieldStack, FinishSwitchStack, QueueCallStack, OtherStack, Zenon DEF KernelStep
  <2>2. CASE TaskStep(c)
    BY <1>1, <2>2, SpawnStack, QueueCallStack, OtherStack, Zenon DEF TaskStep
  <2>3. CASE StartSecondary(c)
    BY <2>3, StartSecondaryStack, Zenon
  <2>4. CASE \E timer, uart \in BOOLEAN : OnIrq(c, timer, uart)
    BY <1>1, <2>4, OnIrqStack, Zenon
  <2> QED
    BY <1>1, <2>1, <2>2, <2>3, <2>4, Zenon DEF Step
<1>2. CASE UNCHANGED vars
  BY <1>2, Zenon DEF vars, kernelVars, runVars, StackInv, OneStackUser
<1> QED
  BY <1>1, <1>2, ElapseStack, Zenon DEF OrderedNext

\* The invariant holds in every behaviour that keeps to the order.
THEOREM StackInvariant == OrderedSpec => [](TypeInv /\ StackInv)
<1>1. OrderedNext => Next
  BY Zenon DEF OrderedNext, Next
<1> QED
  BY <1>1, InitTypes, NextTypes, InitStack, NextStack, PTL DEF OrderedSpec

\* The stack of a task is never used by two cores (RunQueue::pick_next with `busy`, and
\* LEAVING), as long as no core wakes a task another core still runs.
THEOREM OneStackUserOrdered == OrderedSpec => []OneStackUser
<1>1. StackInv => OneStackUser
  BY Zenon DEF StackInv
<1> QED
  BY <1>1, StackInvariant, PTL

\* switch reaps no task whose stack is in use, under the same condition.
THEOREM ReapedOrdered == OrderedSpec => []NothingInUseIsReaped
<1>1. TypeInv /\ StackInv => NothingInUseIsReaped
  <2> SUFFICES ASSUME TypeInv, StackInv, NEW c \in Cores, NEW t \in TaskIds,
                      t \in {queue.current[c], LEAVING[c]}
               PROVE  queue.state[t] # Gone
    BY Zenon DEF NothingInUseIsReaped
  <2>1. queue.state[t].is # "Gone"
    BY TaskIdsFacts, Zenon DEF StackInv, RunsAs
  <2> QED
    BY <2>1 DEF Gone
<1> QED
  BY <1>1, StackInvariant, PTL

\* An idle task is run by its own core only, under the same condition.
THEOREM IdleOrdered == OrderedSpec => []IdleTasksStay
<1>1. StackInv => IdleTasksStay
  BY Zenon DEF StackInv, IdleTasksStay
<1> QED
  BY <1>1, StackInvariant, PTL

\* On one core the condition holds of itself, so that what the code does is safe: an svc or an
\* interrupt switches away from a task before anything else can wake it.
THEOREM OneCoreIsOrdered ==
  ASSUME Cores = {0}
  PROVE  Spec => [](OneStackUser /\ NothingInUseIsReaped /\ IdleTasksStay)
<1>1. Next => OrderedNext
  BY Zenon DEF Next, OrderedNext
<1>2. Spec => OrderedSpec
  BY <1>1, PTL DEF Spec, OrderedSpec
<1> QED
  BY <1>2, OneStackUserOrdered, ReapedOrdered, IdleOrdered, PTL

-----------------------------------------------------------------------------
(***************************************************************************)
(* Where the code of a task is, what its state and the stage of its        *)
(* program's life then are, what a switch or an interrupt does to them:    *)
(* the inductive invariants behind ResumesSavedCode, OwnLiveSpace and      *)
(* NoLostWakeup, which ResumeProofs and WakeProofs prove.  And a program   *)
(* finds its own FP values, in every behaviour.                            *)
(***************************************************************************)

\* Where a program is in its life: in PROCESSES, out of it but still in its address space, out of
\* both; or no program at all.
Stage(t) ==
  IF t \notin program THEN "kernel"
  ELSE IF t \in processes THEN "live"
  ELSE IF space[t] = t THEN "leaving"
  ELSE "left"

\* The stages in which code can be at a place.
StagesAt(place) ==
  IF place \in {"user", "ret", "exit"} THEN {"live"}
  ELSE IF place = "leave" THEN {"leaving"}
  ELSE IF place \in {"drop", "finish"} THEN {"left"}
  ELSE IF place \in {"svcGone", "panic", "null"} THEN {"kernel", "left"}
  ELSE IF place = "idle" THEN {"kernel"}
  ELSE {"kernel", "live"}

\* The states a task whose code is at a place can have: only what was reaped or never added has no
\* code, only what has finished is past its end, and only tasks at an svc, or past it, have stopped.
StatesAt(place) ==
  IF place = "null" THEN {"Gone"}
  ELSE IF place \in {"svcGone", "panic"} THEN {"Finished"}
  ELSE {"Running", "Ready"} \cup (IF place \in {"svc", "svcTop", "run", "top"} THEN StopStates ELSE {})

Fits(state, stage, place) == state \in StatesAt(place) /\ stage \in StagesAt(place)

\* The address spaces: a core is in its task's, and what is freed is no one's.
SpaceInv ==
  /\ processes \subseteq program
  /\ freed \subseteq program
  /\ \A t \in program : t < queue.len
  /\ \A t \in processes : space[t] = t
  /\ \A t \in TaskIds : space[t] = Kernel \/ (space[t] = t /\ t \in program)
  /\ \A t \in freed : space[t] = Kernel
  /\ \A c \in Cores : ttbr[c] = IF queue.current[c] = NoTask THEN Kernel ELSE space[queue.current[c]]

\* The inductive invariant behind ResumesSavedCode and OwnLiveSpace: where a task's code is, what
\* state the run queue has it in and how far a program's exit has come go together.
LifeInv ==
  /\ SpaceInv
  /\ \A t \in TaskIds : Fits(queue.state[t].is, Stage(t), Where(t).at)
  /\ \A t \in TaskIds : IsIdle(queue, t) <=> Where(t).at = "idle"
  /\ \A c \in Cores : queue.current[c] # NoTask <=> queue.idle[c] # NoTask

\* The inductive invariant behind FpOwnValues.
FpInv ==
  /\ \A t \in TaskIds : fp.saved[t].of = t
  /\ \A c \in Cores : fp.owner[c] # NoTask => fp.regs[c].of = fp.owner[c]
  /\ \A c \in Cores : fp.allowed[c] => fp.owner[c] # NoTask /\ fp.owner[c] = queue.current[c]

Notified(e) == \E u \in TaskIds : Where(u) = AtWith("notify", e, 0)
BeingKilled(t) == \E c \in Cores : pc[c] = AtWith("kill", t, 0)

Alert(t) ==
  LET p == Where(t)
  IN  /\ p.at \in {"look", "wait"} => p.n <= queue.generation[p.arg]
      /\ p.at = "wait" => /\ cond[p.arg] /\ queue.generation[p.arg] = p.n => Notified(p.arg)
                          /\ killed[t] => queue.intrPending[t] \/ BeingKilled(t)

WakeInv ==
  /\ NoLostWakeup
  /\ \A t \in TaskIds : Alert(t)
-----------------------------------------------------------------------------
(* What a switch does, and where code is.                                  *)

\* Scheduler::switch, from the run queue q the handler made: core c leaves its task at `here`,
\* goes on with `next`, and removes the tasks in `reaped`.
Switched(c, q, here, next, reaped) ==
  LET cur == q.current[c]
      left == IF Redirected(cur, here) THEN At("exit") ELSE here
  IN  /\ next \in TaskIds /\ reaped \subseteq TaskIds
      /\ \/ next = cur /\ (q.state[cur].is = "Running" \/ q.idle[c] = NoTask)
         \/ next = q.idle[c]
         \/ q.state[next] = Ready /\ ~IsIdle(q, next)
      /\ \A d \in Cores : queue'.current[d] = IF d = c THEN next ELSE q.current[d]
      /\ queue'.idle = q.idle /\ queue'.len = q.len /\ queue'.generation = q.generation
      /\ \A t \in TaskIds :
           queue'.state[t] = IF t \in reaped THEN Gone
                             ELSE IF t = next THEN Running
                             ELSE IF t = cur /\ q.state[t] = Running THEN Ready
                             ELSE q.state[t]
      /\ \A t \in TaskIds : queue'.intrPending[t] = (t \notin reaped /\ q.intrPending[t])
      /\ \A t \in reaped : /\ q.state[t] = Finished
                           /\ t # cur /\ t # next
                           /\ \A d \in Cores : t # queue'.current[d]
      /\ \A t \in TaskIds : context'[t] = IF t \in reaped THEN At("null")
                                          ELSE IF t = cur THEN left ELSE context[t]
      /\ \A d \in Cores : pc'[d] = IF d # c THEN pc[d]
                                   ELSE IF next = cur THEN left ELSE context[next]
      /\ \A d \in Cores : ttbr'[d] = IF d = c /\ space[cur] # space[next] THEN space[next] ELSE ttbr[d]
      /\ fp' = FpSwitch(fp, c, cur, next, cur \in program)
      /\ UNCHANGED <<program, processes, killed, space, freed>>

\* That is what switch does, with whatever pick_next picks.
LEMMA SwitchIs ==
  ASSUME TypeInv, NEW c \in Cores, NEW q \in Queue, q.current[c] \in TaskIds,
         NEW preempt \in BOOLEAN, NEW here, Switch(c, q, preempt, here)
  PROVE  \E next \in TaskIds, reaped \in SUBSET TaskIds : Switched(c, q, here, next, reaped)
<1> DEFINE cur == q.current[c]
           busy == LeavingElsewhere(c)
           left == IF Redirected(cur, here) THEN At("exit") ELSE here
           saved == [context EXCEPT ![cur] = left]
           picked == PickNext(q, c, preempt, busy)
           next == picked.current[c]
           reaped == FinishedTasks(picked) \ ({cur} \cup busy)
<1>1. /\ queue' = Remove(picked, reaped)
      /\ context' = [t \in TaskIds |-> IF t \in reaped THEN At("null") ELSE saved[t]]
      /\ pc' = [pc EXCEPT ![c] = saved[next]]
      /\ fp' = FpSwitch(fp, c, cur, next, cur \in program)
      /\ ttbr' = [ttbr EXCEPT ![c] = IF space[cur] # space[next] THEN space[next] ELSE @]
      /\ UNCHANGED <<program, processes, killed, space, freed>>
  BY ZenonT(60), Zenon DEF Switch, SwitchTo
<1>2. picked \in Queue
  BY PickNextType, Zenon
<1>3. next = Chosen(q, c, preempt, busy)
  BY PickNextIs, SMT
<1>4. next \in TaskIds
  BY <1>3, ChosenIs, ZenonT(30), Zenon
<1>5. \/ next = cur /\ (q.state[cur].is = "Running" \/ q.idle[c] = NoTask)
      \/ next = q.idle[c]
      \/ q.state[next] = Ready /\ ~IsIdle(q, next)
  <2>1. Pickable(q, busy) \in SUBSET TaskIds
    BY Zenon DEF Pickable
  <2>2. Pickable(q, busy) # {} => FirstAfter(q, cur, Pickable(q, busy)) \in Pickable(q, busy)
    BY <2>1, FirstAfterIsFound, Zenon
  <2>3. Running.is = "Running"
    BY Zenon DEF Running
  <2> QED
    BY <1>3, <2>2, <2>3, Zenon DEF Chosen, Pickable
<1>6. /\ \A d \in Cores : d # c => picked.current[d] = q.current[d]
      /\ picked.state[next] = Running
      /\ \A t \in TaskIds : t # next =>
           picked.state[t] = IF t = q.current[c] /\ q.state[t] = Running THEN Ready ELSE q.state[t]
      /\ picked.idle = q.idle
      /\ picked.intrPending = q.intrPending
      /\ picked.generation = q.generation
      /\ picked.len = q.len
  BY <1>3, PickNextIs, SMT
<1>7. next = picked.current[c]
  BY Zenon
<1> HIDE DEF picked, next
<1>8. \A t \in reaped : /\ t \in TaskIds /\ picked.state[t] = Finished /\ t # cur
                        /\ \A d \in Cores : t # picked.current[d]
  BY Zenon DEF FinishedTasks, IsCurrent
<1>9. reaped \subseteq TaskIds
  BY <1>8, Zenon
<1> HIDE DEF reaped
<1>10. /\ queue'.current = picked.current /\ queue'.idle = q.idle /\ queue'.len = q.len
       /\ queue'.generation = q.generation
       /\ \A t \in TaskIds : queue'.state[t] = IF t \in reaped THEN Gone ELSE picked.state[t]
       /\ \A t \in TaskIds : queue'.intrPending[t] = (t \notin reaped /\ q.intrPending[t])
  BY <1>1, <1>2, <1>6, Zenon DEF Remove, Queue
<1>11. \A t \in reaped : t # next /\ q.state[t] = Finished
  BY <1>6, <1>7, <1>8, Zenon
<1>12. \A t \in TaskIds : saved[t] = IF t = cur THEN left ELSE context[t]
  BY Zenon DEF TypeInv, TypeOK
<1> HIDE DEF saved, left
<1>13. /\ \A t \in TaskIds : context'[t] = IF t \in reaped THEN At("null")
                                           ELSE IF t = cur THEN left ELSE context[t]
       /\ \A d \in Cores : pc'[d] = IF d # c THEN pc[d]
                                    ELSE IF next = cur THEN left ELSE context[next]
       /\ \A d \in Cores : ttbr'[d] = IF d = c /\ space[cur] # space[next] THEN space[next]
                                      ELSE ttbr[d]
  BY <1>1, <1>4, <1>12, Zenon DEF TypeInv, TypeOK
<1>14. /\ \A d \in Cores : queue'.current[d] = IF d = c THEN next ELSE q.current[d]
       /\ \A t \in TaskIds :
           queue'.state[t] = IF t \in reaped THEN Gone
                             ELSE IF t = next THEN Running
                             ELSE IF t = cur /\ q.state[t] = Running THEN Ready
                             ELSE q.state[t]
  BY <1>6, <1>7, <1>10
<1>15. \A t \in reaped, d \in Cores : t # queue'.current[d]
  BY <1>8, <1>10, Zenon
<1>16. Switched(c, q, here, next, reaped)
  BY <1>1, <1>4, <1>5, <1>8, <1>9, <1>10, <1>11, <1>13, <1>14, <1>15, ZenonT(60) DEF Switched, left
<1> QED
  BY <1>4, <1>9, <1>16, Zenon

\* What an interrupt handler makes of the run queue before it switches: the sleepers whose time
\* has come and the tasks that wait for the UART are ready.
Interrupted(q, timer, uart) ==
  /\ SameTasks(queue, q) /\ q.intrPending = queue.intrPending
  /\ \A t \in TaskIds : \/ q.state[t] = queue.state[t]
                        \/ q.state[t] = Ready /\ queue.state[t].is \in {"Sleeping", "Waiting"}
  /\ \A e \in Events : queue.generation[e] <= q.generation[e]
  /\ uart => /\ Uart \in Events /\ queue.generation[Uart] < q.generation[Uart]
             /\ \A t \in TaskIds : q.state[t] # Waiting(Uart)

\* on_irq.
LEMMA IrqIs ==
  ASSUME TypeInv, NEW c \in Cores, NEW timer \in BOOLEAN, NEW uart \in BOOLEAN,
         OnIrq(c, timer, uart)
  PROVE  \E q \in Queue :
           /\ Executing(c) /\ queue.current[c] \in TaskIds /\ pc[c].at \notin {"kill", "panic"}
           /\ Interrupted(q, timer, uart)
           /\ cond' = IF uart THEN [cond EXCEPT ![Uart] = TRUE] ELSE cond
           /\ \/ /\ PREEMPT_DISABLED[c] > 0 /\ queue' = q
                 /\ UNCHANGED <<context, pc, LEAVING, programVars, fpVars>>
              \/ ~(PREEMPT_DISABLED[c] > 0) /\ Switch(c, q, timer, pc[c])
<1> DEFINE q1 == IF uart THEN Notify(queue, Uart) ELSE queue
           q2 == IF timer THEN Tick(q1) ELSE q1
<1>1. /\ Executing(c) /\ pc[c].at \notin {"kill", "panic"}
      /\ uart => Uart \in Events
      /\ cond' = IF uart THEN [cond EXCEPT ![Uart] = TRUE] ELSE cond
      /\ IF PREEMPT_DISABLED[c] > 0
         THEN queue' = q2 /\ UNCHANGED <<context, pc, LEAVING, programVars, fpVars>>
         ELSE Switch(c, q2, timer, pc[c])
  BY Zenon DEF OnIrq
<1>2. queue.current[c] \in TaskIds /\ queue \in Queue
  BY <1>1, MeIsTask, Zenon
<1>3. /\ \A n : Waiting(n).is = "Waiting" /\ Sleeping(n).is = "Sleeping"
      /\ Ready.is = "Ready"
      /\ \A e \in Events : queue.generation[e] \in Nat
  BY <1>2, Zenon DEF Waiting, Sleeping, Ready, Queue
<1>4. q1 \in Queue /\ Interrupted(q1, timer, uart)
  <2>1. CASE uart
    <3>1. q1 = Notify(queue, Uart) /\ Uart \in Events
      BY <1>1, <2>1, Zenon
    <3> HIDE DEF q1
    <3>2. q1 \in Queue
      BY <1>2, <3>1, WakingOpsType, Zenon
    <3>3. /\ SameTasks(queue, q1) /\ q1.intrPending = queue.intrPending
          /\ \A f \in Events : q1.generation[f] = IF f = Uart THEN queue.generation[f] + 1
                                                  ELSE queue.generation[f]
          /\ \A t \in TaskIds : q1.state[t] = IF queue.state[t] = Waiting(Uart) THEN Ready
                                              ELSE queue.state[t]
      BY <1>2, <3>1, NotifyIs
    <3>4. /\ queue.generation[Uart] < q1.generation[Uart]
          /\ \A e \in Events : queue.generation[e] <= q1.generation[e]
      BY <1>3, <3>1, <3>3
    <3>5. \A t \in TaskIds : /\ q1.state[t] # Waiting(Uart)
                             /\ \/ q1.state[t] = queue.state[t]
                                \/ q1.state[t] = Ready /\ queue.state[t].is \in {"Sleeping", "Waiting"}
      BY <1>3, <3>3, Zenon
    <3> QED
      BY <3>1, <3>2, <3>3, <3>4, <3>5, Zenon DEF Interrupted
  <2>2. CASE ~uart
    BY <1>2, <1>3, <2>2 DEF Interrupted, SameTasks
  <2> QED
    BY <2>1, <2>2, Zenon
<1> HIDE DEF q1
<1>5. q2 \in Queue /\ Interrupted(q2, timer, uart)
  <2>1. CASE timer
    <3>1. q2 = Tick(q1)
      BY <2>1, Zenon
    <3> HIDE DEF q2
    <3>2. q2 \in Queue
      BY <1>4, <3>1, WakingOpsType, Zenon
    <3>3. /\ SameTasks(q1, q2) /\ q2.intrPending = q1.intrPending /\ q2.generation = q1.generation
          /\ \A t \in TaskIds : q2.state[t] = IF q1.state[t] = Sleeping(0) THEN Ready ELSE q1.state[t]
      BY <1>4, <3>1, TickIs, Zenon
    <3>4. SameTasks(queue, q2)
      BY <1>4, <3>3, Zenon DEF Interrupted, SameTasks
    <3>5. ASSUME NEW t \in TaskIds
          PROVE  \/ q2.state[t] = queue.state[t]
                 \/ q2.state[t] = Ready /\ queue.state[t].is \in {"Sleeping", "Waiting"}
      <4>1. \/ q1.state[t] = queue.state[t]
            \/ q1.state[t] = Ready /\ queue.state[t].is \in {"Sleeping", "Waiting"}
        BY <1>4, Zenon DEF Interrupted
      <4> QED
        BY <1>3, <3>3, <4>1, Zenon
    <3>6. uart => \A t \in TaskIds : q2.state[t] # Waiting(Uart)
      <4>1. Ready # Waiting(Uart)
        BY <1>3, Zenon
      <4> QED
        BY <1>4, <3>3, <4>1, Zenon DEF Interrupted
    <3> QED
      BY <1>4, <3>2, <3>3, <3>4, <3>5, <3>6, Zenon DEF Interrupted
  <2>2. CASE ~timer
    BY <1>4, <2>2, Zenon
  <2> QED
    BY <2>1, <2>2, Zenon
<1> HIDE DEF q2
<1> QED
  BY <1>1, <1>2, <1>5, ZenonT(30), Zenon

\* Where code is, when no stack has two users: on the core that runs it, or where it was saved.
WhereFacts ==
  /\ \A c \in Cores : queue.current[c] # NoTask => Where(queue.current[c]) = pc[c]
  /\ \A t \in TaskIds : (\A c \in Cores : queue.current[c] # t) => Where(t) = context[t]

\* OneStackUser makes the core that runs a task unique.
LEMMA WhereIs == StackInv => WhereFacts
<1> SUFFICES ASSUME StackInv PROVE WhereFacts
  BY Zenon
<1>1. ASSUME NEW c \in Cores, queue.current[c] # NoTask PROVE Where(queue.current[c]) = pc[c]
  <2> DEFINE t == queue.current[c]
             d == CHOOSE x \in Cores : queue.current[x] = t
  <2>1. d \in Cores /\ queue.current[d] = t
    BY Zenon
  <2>2. d = c
    BY <1>1, <2>1, Zenon DEF StackInv, OneStackUser
  <2>3. IsCurrent(queue, t)
    BY Zenon DEF IsCurrent
  <2> QED
    BY <2>2, <2>3, Zenon DEF Where
<1>2. \A t \in TaskIds : (\A c \in Cores : queue.current[c] # t) => Where(t) = context[t]
  BY Zenon DEF Where, IsCurrent
<1> QED
  BY <1>1, <1>2, Zenon DEF WhereFacts

\* A step of core c that saves no task and switches none.
LEMMA WhereMoves ==
  ASSUME TypeInv, StackInv, StackInv', NEW c \in Cores, queue.current[c] \in TaskIds, NEW p,
         pc' = [pc EXCEPT ![c] = p], context' = context, queue'.current = queue.current
  PROVE  /\ Where(queue.current[c]) = pc[c]
         /\ \A t \in TaskIds : Where(t)' = IF t = queue.current[c] THEN p ELSE Where(t)
<1>1. WhereFacts /\ WhereFacts'
  BY WhereIs, PTL
<1>2. \A d \in Cores : pc'[d] = IF d = c THEN p ELSE pc[d]
  BY Zenon DEF TypeInv, TypeOK
<1>3. Where(queue.current[c]) = pc[c]
  BY <1>1, TaskIdsFacts, Zenon DEF WhereFacts
<1>4. ASSUME NEW t \in TaskIds PROVE Where(t)' = IF t = queue.current[c] THEN p ELSE Where(t)
  <2>1. CASE \A d \in Cores : queue.current[d] # t
    BY <1>1, <2>1, Zenon DEF WhereFacts
  <2>2. ASSUME NEW d \in Cores, queue.current[d] = t
        PROVE  Where(t)' = IF t = queue.current[c] THEN p ELSE Where(t)
    <3>1. Where(t) = pc[d] /\ queue'.current[d] = t /\ t # NoTask
      BY <1>1, <2>2, TaskIdsFacts, Zenon DEF WhereFacts
    <3>2. Where(t)' = pc'[d]
      BY <1>1, <3>1, Zenon DEF WhereFacts
    <3>3. t = queue.current[c] <=> d = c
      BY <2>2, <3>1, Zenon DEF StackInv, OneStackUser
    <3> QED
      BY <1>2, <3>1, <3>2, <3>3, Zenon
  <2> QED
    BY <2>1, <2>2, Zenon
<1> QED
  BY <1>3, <1>4, Zenon

\* A switch of core c: every task is where it was, but the one it leaves and the ones it reaps.
LEMMA WhereSwitches ==
  ASSUME TypeInv, StackInv, StackInv', NEW c \in Cores, NEW q, q.current = queue.current,
         queue.current[c] \in TaskIds,
         NEW here, NEW next, NEW reaped, Switched(c, q, here, next, reaped)
  PROVE  /\ Where(queue.current[c]) = pc[c]
         /\ \A t \in TaskIds :
              Where(t)' = IF t \in reaped THEN At("null")
                          ELSE IF t # queue.current[c] THEN Where(t)
                          ELSE IF Redirected(t, here) THEN At("exit") ELSE here
<1> DEFINE cur == queue.current[c]
           left == IF Redirected(cur, here) THEN At("exit") ELSE here
<1>1. WhereFacts /\ WhereFacts'
  BY WhereIs, PTL
<1>2. /\ next \in TaskIds /\ reaped \subseteq TaskIds
      /\ \A d \in Cores : queue'.current[d] = IF d = c THEN next ELSE queue.current[d]
      /\ \A t \in reaped : t # cur /\ t # next /\ \A d \in Cores : t # queue'.current[d]
      /\ \A t \in TaskIds : context'[t] = IF t \in reaped THEN At("null")
                                          ELSE IF t = cur THEN left ELSE context[t]
      /\ \A d \in Cores : pc'[d] = IF d # c THEN pc[d]
                                   ELSE IF next = cur THEN left ELSE context[next]
  BY DEF Switched
<1>3. Where(cur) = pc[c]
  BY <1>1, TaskIdsFacts, Zenon DEF WhereFacts
<1> HIDE DEF left
<1>4. ASSUME NEW t \in TaskIds
      PROVE  Where(t)' = IF t \in reaped THEN At("null") ELSE IF t # cur THEN Where(t) ELSE left
  <2>1. CASE \E d \in Cores : queue'.current[d] = t /\ d # c
    <3>1. PICK d \in Cores : queue'.current[d] = t /\ d # c
      BY <2>1, Zenon
    <3>2. queue.current[d] = t /\ t # NoTask /\ t # cur /\ t \notin reaped
      BY <1>2, <3>1, TaskIdsFacts DEF StackInv, OneStackUser
    <3>3. Where(t) = pc[d] /\ Where(t)' = pc'[d]
      BY <1>1, <3>1, <3>2, Zenon DEF WhereFacts
    <3> QED
      BY <1>2, <3>1, <3>2, <3>3, Zenon
  <2>2. CASE t = next
    <3>1. queue'.current[c] = t /\ t # NoTask /\ t \notin reaped
      BY <1>2, <2>2, TaskIdsFacts, Zenon
    <3>2. Where(t)' = pc'[c]
      BY <1>1, <3>1, Zenon DEF WhereFacts
    <3>3. CASE t = cur
      BY <1>2, <2>2, <3>1, <3>2, <3>3, Zenon
    <3>4. CASE t # cur
      <4>1. \A d \in Cores : queue.current[d] # t
        BY <1>2, <3>1, <3>4 DEF StackInv, OneStackUser
      <4> QED
        BY <1>1, <1>2, <2>2, <3>1, <3>2, <3>4, <4>1 DEF WhereFacts
    <3> QED
      BY <3>3, <3>4, Zenon
  <2>3. CASE t # next /\ \A d \in Cores : queue'.current[d] = t => d = c
    <3>1. \A d \in Cores : queue'.current[d] # t
      BY <1>2, <2>3, Zenon
    <3>2. Where(t)' = context'[t]
      BY <1>1, <3>1, Zenon DEF WhereFacts
    <3>3. t # cur => \A d \in Cores : queue.current[d] # t
      BY <1>2, <3>1, Zenon
    <3>4. t # cur => Where(t) = context[t]
      BY <1>1, <3>3, Zenon DEF WhereFacts
    <3> QED
      BY <1>2, <3>2, <3>4, Zenon
  <2> QED
    BY <2>1, <2>2, <2>3, Zenon
<1> QED
  BY <1>3, <1>4, Zenon DEF left

-----------------------------------------------------------------------------
(* FP registers.                                                           *)

\* After sched::init no core's FP registers are anyone's.
LEMMA InitFp == Init => FpInv
  BY DEF Init, FpInv, FpNew

\* Scheduler::switch: a program is let use the registers only on the core that has its values,
\* and what is saved for a program is what its core has for it.
LEMMA SwitchFp ==
  ASSUME TypeInv, FpInv, NEW c \in Cores, NEW q \in Queue, q.current = queue.current,
         queue.current[c] \in TaskIds, NEW preempt \in BOOLEAN, NEW here,
         Switch(c, q, preempt, here)
  PROVE  FpInv'
<1> DEFINE cur == queue.current[c]
<1>1. PICK next \in TaskIds, reaped \in SUBSET TaskIds : Switched(c, q, here, next, reaped)
  BY SwitchIs, Zenon
<1>2. /\ \A d \in Cores : queue'.current[d] = IF d = c THEN next ELSE queue.current[d]
      /\ fp' = FpSwitch(fp, c, cur, next, cur \in program)
  BY <1>1 DEF Switched
<1>3. fp \in FpState
  BY Zenon DEF TypeInv, TypeOK
<1> DEFINE s == IF next # cur /\ fp.owner[c] = cur /\ cur \in program THEN fp.regs[c] ELSE fp.saved[cur]
           g == [fp EXCEPT !.saved[cur] = s]
           a == fp.owner[c] = next /\ fp.loaded[next] = {c}
<1>4. fp' = [g EXCEPT !.allowed[c] = a]
  BY <1>2, Zenon DEF FpSwitch
<1>5. s.of = cur
  BY TaskIdsFacts, Zenon DEF FpInv
<1> HIDE DEF s, a
<1>6. /\ g.saved = [fp.saved EXCEPT ![cur] = s] /\ g.owner = fp.owner /\ g.regs = fp.regs
      /\ g.allowed = fp.allowed /\ g \in [owner : {fp.owner}, regs : {fp.regs}, allowed : {fp.allowed},
                                          saved : {g.saved}, loaded : {fp.loaded}]
  BY <1>3, Zenon DEF FpState
<1> HIDE DEF g
<1>7. /\ fp'.saved = g.saved /\ fp'.owner = fp.owner /\ fp'.regs = fp.regs
      /\ fp'.allowed = [fp.allowed EXCEPT ![c] = a]
  BY <1>4, <1>6, Zenon
<1>8. \A t \in TaskIds : fp'.saved[t].of = t
  BY <1>3, <1>5, <1>6, <1>7 DEF FpInv, FpState
<1>9. \A d \in Cores : fp'.allowed[d] = IF d = c THEN a ELSE fp.allowed[d]
  BY <1>3, <1>7, Zenon DEF FpState
<1>10. ASSUME NEW d \in Cores, fp'.allowed[d]
       PROVE  fp'.owner[d] # NoTask /\ fp'.owner[d] = queue'.current[d]
  <2>1. fp'.allowed[c] => fp.owner[c] = next
    BY <1>9, Zenon DEF a
  <2>2. next # NoTask
    BY TaskIdsFacts, Zenon
  <2>3. CASE d = c
    BY <1>2, <1>7, <1>10, <2>1, <2>2, <2>3, Zenon
  <2>4. CASE d # c
    <3>1. fp.allowed[d]
      BY <1>9, <1>10, <2>4, Zenon
    <3>2. fp.owner[d] # NoTask /\ fp.owner[d] = queue.current[d]
      BY <3>1, Zenon DEF FpInv
    <3> QED
      BY <1>2, <1>7, <2>4, <3>2, Zenon
  <2> QED
    BY <2>3, <2>4, Zenon
<1> QED
  BY <1>7, <1>8, <1>10, Zenon DEF FpInv

\* The steps that neither switch nor use the registers.
LEMMA QuietFp ==
  ASSUME FpInv, fp' = fp, queue'.current = queue.current
  PROVE  FpInv'
  BY Zenon DEF FpInv

\* A program that traps gets its own values; an instruction changes them in its registers.
LEMMA UseFp ==
  ASSUME TypeInv, FpInv, NEW c \in Cores,
         FpTrap(c) \/ \E v \in 0 .. FpVersions - 1 : FpInstruction(c, v)
  PROVE  FpInv'
<1>1. fp \in FpState /\ queue' = queue
  BY Zenon DEF TypeInv, TypeOK, FpTrap, FpInstruction, runVars
<1>2. CASE FpTrap(c)
  <2> DEFINE t == queue.current[c]
  <2>1. t \in TaskIds /\ fp' = TakeFpRegisters(fp, c, t)
    BY <1>2, MeIsTask, Zenon DEF FpTrap, IsAt, Me
  <2> HIDE DEF t
  <2>2. /\ fp'.saved = fp.saved
        /\ fp'.regs = [fp.regs EXCEPT ![c] = fp.saved[t]]
        /\ fp'.owner = [fp.owner EXCEPT ![c] = t]
        /\ fp'.allowed = [fp.allowed EXCEPT ![c] = TRUE]
    BY <1>1, <2>1, Zenon DEF TakeFpRegisters, FpState
  <2>3. \A d \in Cores : /\ fp'.regs[d] = IF d = c THEN fp.saved[t] ELSE fp.regs[d]
                         /\ fp'.owner[d] = IF d = c THEN t ELSE fp.owner[d]
                         /\ d # c => fp'.allowed[d] = fp.allowed[d]
    BY <1>1, <2>2, Zenon DEF FpState
  <2>4. queue.current[c] = t /\ t # NoTask
    BY <2>1, TaskIdsFacts, Zenon DEF t
  <2>5. \A d \in Cores : fp'.owner[d] # NoTask => fp'.regs[d].of = fp'.owner[d]
    BY <2>1, <2>3 DEF FpInv
  <2>6. ASSUME NEW d \in Cores, fp'.allowed[d]
        PROVE  fp'.owner[d] # NoTask /\ fp'.owner[d] = queue.current[d]
    <3>1. CASE d = c
      BY <2>3, <2>4, <3>1, Zenon
    <3>2. CASE d # c
      <4>1. fp.allowed[d]
        BY <2>3, <2>6, <3>2, Zenon
      <4>2. fp.owner[d] # NoTask /\ fp.owner[d] = queue.current[d]
        BY <4>1, Zenon DEF FpInv
      <4> QED
        BY <2>3, <3>2, <4>2, Zenon
    <3> QED
      BY <3>1, <3>2, Zenon
  <2> QED
    BY <1>1, <2>2, <2>5, <2>6, Zenon DEF FpInv
<1>3. ASSUME NEW v \in 0 .. FpVersions - 1, FpInstruction(c, v) PROVE FpInv'
  <2>1. fp' = FpCompute(fp, c, v)
    BY <1>3, Zenon DEF FpInstruction
  <2>2. /\ fp'.saved = fp.saved /\ fp'.owner = fp.owner /\ fp'.allowed = fp.allowed
        /\ fp'.regs = [fp.regs EXCEPT ![c].v = v]
    BY <1>1, <2>1, Zenon DEF FpCompute, FpState
  <2>3. fp.regs[c] \in FpValue /\ fp.regs \in [Cores -> FpValue]
    BY <1>1, Zenon DEF FpState
  <2>4. \A d \in Cores : fp'.regs[d].of = fp.regs[d].of
    BY <2>2, <2>3 DEF FpValue
  <2> QED
    BY <1>1, <2>2, <2>4 DEF FpInv
<1> QED
  BY <1>2, <1>3, Zenon

\* on_yield and on_irq, which switch, and the steps of cores that don't.
LEMMA YieldFp ==
  ASSUME TypeInv, FpInv, NEW c \in Cores, OnYield(c)
  PROVE  FpInv'
<1>1. Executing(c) /\ Switch(c, queue, TRUE, AfterSvc(pc[c]))
  BY Zenon DEF OnYield
<1>2. queue \in Queue /\ queue.current[c] \in TaskIds
  BY <1>1, MeIsTask, Zenon
<1> QED
  BY <1>1, <1>2, SwitchFp, Zenon

\* The interrupt handler changes states, and then switches unless no_preempt forbids it.
LEMMA IrqFp ==
  ASSUME TypeInv, FpInv, NEW c \in Cores, NEW timer \in BOOLEAN, NEW uart \in BOOLEAN,
         OnIrq(c, timer, uart)
  PROVE  FpInv'
<1>1. PICK q \in Queue :
        /\ Executing(c) /\ queue.current[c] \in TaskIds /\ q.current = queue.current
        /\ \/ queue' = q /\ UNCHANGED fpVars
           \/ Switch(c, q, timer, pc[c])
  BY IrqIs, ZenonT(30) DEF Interrupted, SameTasks
<1>2. CASE queue' = q /\ UNCHANGED fpVars
  BY <1>1, <1>2, QuietFp, Zenon DEF fpVars
<1>3. CASE Switch(c, q, timer, pc[c])
  BY <1>1, <1>3, SwitchFp, Zenon
<1> QED
  BY <1>1, <1>2, <1>3, Zenon

\* A call into the run queue leaves every core its task.
LEMMA CallsKeepTasks ==
  ASSUME TypeInv, NEW c \in Cores,
         \/ YieldNow(c)
         \/ \E left \in 0 .. MaxSleep : Sleep(c, left)
         \/ Block(c)
         \/ \E t \in TaskIds : WakeTask(c, t)
         \/ \E e \in Events : WaitUntil(c, e)
         \/ SeeGeneration(c)
         \/ LookNotReady(c)
         \/ WaitForEvent(c)
         \/ NotifyEvent(c)
         \/ Exit(c)
         \/ ExitFinish(c)
         \/ KillInterrupt(c)
  PROVE  /\ Executing(c) /\ queue.current[c] \in TaskIds
         /\ Called(queue, queue', c)
         /\ UNCHANGED <<context, LEAVING, cond, programVars, fpVars>>
<1> USE DEF May, IsAt, CallQueue
<1>1. Executing(c) /\ UNCHANGED <<context, LEAVING, cond, programVars, fpVars>>
  BY Zenon DEF YieldNow, Sleep, Block, WakeTask, WaitUntil, SeeGeneration, LookNotReady, WaitForEvent,
         NotifyEvent, Exit, ExitFinish, KillInterrupt
<1>2. queue.current[c] \in TaskIds /\ queue \in Queue /\ GoodPosition(pc[c])
  BY <1>1, MeIsTask, Zenon
<1>3. ASSUME \/ queue' = queue
             \/ \E t \in TaskIds : queue' = Wake(queue, t) \/ queue' = Interrupt(queue, t)
             \/ \E e \in Events : queue' = Notify(queue, e)
      PROVE  Called(queue, queue', c)
  BY <1>2, <1>3, WakingOpsDo, Zenon DEF Called
<1>4. ASSUME \/ \E n \in Nat : queue' = SleepCurrent(queue, c, n)
             \/ \E e \in Events, n \in Nat : queue' = WaitCurrent(queue, c, e, n)
             \/ queue' = BlockCurrent(queue, c)
             \/ queue' = FinishCurrent(queue, c)
      PROVE  Called(queue, queue', c)
  BY <1>2, <1>4, CurrentOpsDo, Zenon
<1>5. /\ pc[c].at \in {"notify", "wait"} => pc[c].arg \in Events /\ pc[c].n \in Nat
      /\ pc[c].at = "kill" => pc[c].arg \in TaskIds
  BY <1>2, Zenon DEF GoodPosition, Position
<1>6. CASE YieldNow(c) \/ (\E e \in Events : WaitUntil(c, e)) \/ SeeGeneration(c) \/ LookNotReady(c)
  BY <1>1, <1>2, <1>3, <1>6, Zenon DEF YieldNow, WaitUntil, SeeGeneration, LookNotReady
<1>7. CASE (\E t \in TaskIds : WakeTask(c, t)) \/ NotifyEvent(c) \/ KillInterrupt(c)
  BY <1>1, <1>2, <1>3, <1>5, <1>7, Zenon DEF WakeTask, NotifyEvent, KillInterrupt
<1>8. CASE \E left \in 0 .. MaxSleep : Sleep(c, left)
  <2>1. PICK left \in 0 .. MaxSleep : queue' = SleepCurrent(queue, c, left)
    BY <1>8, Zenon DEF Sleep
  <2>2. left \in Nat
    BY SchedAssumption
  <2> QED
    BY <1>1, <1>2, <1>4, <2>1, <2>2, Zenon
<1>9. CASE Block(c) \/ WaitForEvent(c) \/ Exit(c) \/ ExitFinish(c)
  BY <1>1, <1>2, <1>4, <1>5, <1>9, Zenon DEF Block, WaitForEvent, Exit, ExitFinish
<1> QED
  BY <1>6, <1>7, <1>8, <1>9, Zenon

\* Every step keeps the FP registers to their owners.
LEMMA NextFp == TypeInv /\ FpInv /\ [Next]_vars => FpInv'
<1> SUFFICES ASSUME TypeInv, FpInv, [Next]_vars PROVE FpInv'
  BY Zenon
<1> USE DEF fpVars
<1>1. ASSUME NEW c \in Cores,
             \/ YieldNow(c) \/ (\E left \in 0 .. MaxSleep : Sleep(c, left)) \/ Block(c)
             \/ (\E t \in TaskIds : WakeTask(c, t)) \/ (\E e \in Events : WaitUntil(c, e))
             \/ SeeGeneration(c) \/ LookNotReady(c) \/ WaitForEvent(c) \/ NotifyEvent(c)
             \/ Exit(c) \/ ExitFinish(c) \/ KillInterrupt(c)
      PROVE  FpInv'
  BY <1>1, CallsKeepTasks, QuietFp, Zenon DEF Called
<1>2. ASSUME NEW c \in Cores,
             \/ Syscall(c) \/ SyscallDone(c) \/ ReturnToUser(c) \/ UserExit(c)
             \/ ExitRemove(c) \/ ExitLeave(c) \/ ExitDrop(c)
             \/ NoPreemptBegin(c) \/ NoPreemptCount(c) \/ NoPreemptEnd(c)
             \/ LookReady(c) \/ (\E e \in Events : Post(c, e)) \/ (\E t \in TaskIds : Kill(c, t))
             \/ FinishSwitch(c)
      PROVE  FpInv'
  <2>1. UNCHANGED <<queue, fp>>
    BY <1>2, Zenon DEF Syscall, SyscallDone, ReturnToUser, UserExit, ExitRemove, ExitLeave, ExitDrop,
         NoPreemptBegin, NoPreemptCount, NoPreemptEnd, LookReady, Post, Kill, FinishSwitch, Move
  <2> QED
    BY <2>1, QuietFp, Zenon
<1>3. ASSUME NEW c \in Cores, NEW isProgram \in BOOLEAN, Spawn(c, isProgram) PROVE FpInv'
  <2>1. queue' = Add(queue) /\ fp' = fp /\ queue \in Queue
    BY <1>3, Zenon DEF Spawn, TypeInv, TypeOK
  <2>2. queue'.current = queue.current
    BY <2>1, Zenon DEF Add, Queue
  <2> QED
    BY <2>1, <2>2, QuietFp, Zenon
<1>4. ASSUME NEW c \in Cores, StartSecondary(c) PROVE FpInv'
  <2>1. /\ queue.current[c] = NoTask /\ queue' = StartCore(queue, c) /\ fp' = fp /\ queue \in Queue
        /\ queue.len < MaxTasks
    BY <1>4, Zenon DEF StartSecondary, TypeInv, TypeOK
  <2>2. \A d \in Cores : d # c => queue'.current[d] = queue.current[d]
    <3>1. AddIdle(queue, c) \in Queue
      BY <2>1, AddType, Zenon
    <3>2. AddIdle(queue, c).current = queue.current
      BY <2>1, Zenon DEF AddIdle, Add, Queue
    <3>3. queue'.current = [queue.current EXCEPT ![c] = queue.len]
      BY <2>1, <3>1, <3>2, Zenon DEF StartCore, Queue
    <3> QED
      BY <2>1, <3>3, Zenon DEF Queue
  <2>3. ASSUME NEW d \in Cores, fp.allowed[d]
        PROVE  fp.owner[d] # NoTask /\ fp.owner[d] = queue'.current[d]
    <3>1. fp.owner[d] # NoTask /\ fp.owner[d] = queue.current[d]
      BY <2>3, Zenon DEF FpInv
    <3> QED
      BY <2>1, <2>2, <3>1, Zenon
  <2> QED
    BY <2>1, <2>3, Zenon DEF FpInv
<1>5. CASE Elapse
  <2>1. queue'.current = queue.current /\ fp' = fp
    BY <1>5, Zenon DEF Elapse, TypeInv, TypeOK, Queue
  <2> QED
    BY <2>1, QuietFp, Zenon
<1>6. CASE UNCHANGED vars
  BY <1>6, QuietFp, Zenon DEF vars, kernelVars, runVars
<1>7. ASSUME NEW c \in Cores, KernelStep(c) PROVE FpInv'
  BY <1>1, <1>2, <1>7, YieldFp, Zenon DEF KernelStep
<1>8. ASSUME NEW c \in Cores, TaskStep(c) PROVE FpInv'
  BY <1>1, <1>2, <1>3, <1>8, UseFp, Zenon DEF TaskStep
<1> QED
  BY <1>4, <1>5, <1>6, <1>7, <1>8, IrqFp, Zenon DEF Next, Step

\* A program that may use the FP registers finds its own values in them, in every behaviour, on any
\* number of cores: the decision switch makes with fp::owner and fp_core is right.
THEOREM FpOwnValuesAlways == Spec => []FpOwnValues
<1>1. TypeInv /\ FpInv => FpOwnValues
  <2> SUFFICES ASSUME TypeInv, FpInv, NEW c \in Cores, fp.allowed[c] PROVE fp.regs[c].of = Me(c)
    BY Zenon DEF FpOwnValues
  <2> QED
    BY Zenon DEF FpInv, Me
<1> QED
  BY <1>1, InitTypes, NextTypes, InitFp, NextFp, PTL DEF Spec
=============================================================================
