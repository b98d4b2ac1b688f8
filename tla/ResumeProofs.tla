---------------------------- MODULE ResumeProofs ----------------------------
(***************************************************************************)
(* The life of tasks and programs, from spawn to reap, in every behaviour  *)
(* in which no core wakes a task another core still runs: what a core      *)
(* resumes was saved and hasn't ended, and a program at EL0 is in its own, *)
(* live address space.                                                     *)
(***************************************************************************)
EXTENDS StackProofs

\* How a state, a stage and a place that fit may change together.
LEMMA FitsFacts ==
  \A s, g, place : Fits(s, g, place) =>
    /\ s \in StopStates => Fits("Ready", g, place)
    /\ s \in {"Running", "Ready"} \/ place = "idle" => Fits("Running", g, place) /\ Fits("Ready", g, place)
    /\ s = "Finished" => Fits("Gone", g, "null") /\ place # "idle"
    /\ place = "user" => Fits(s, g, "exit")
    /\ place = "svc" => Fits(s, g, "run")
    /\ place = "svcTop" => Fits(s, g, "top")
    /\ place = "svcGone" => Fits(s, g, "panic")
  BY DEF Fits, StatesAt, StagesAt, StopStates

\* A step that changes no program's life leaves every program where it is in it.
LEMMA StagesStay ==
  ASSUME UNCHANGED <<program, processes, space>>
  PROVE  \A t \in TaskIds : Stage(t)' = Stage(t)
  BY Zenon DEF Stage

\* A step of core c that saves no task and switches none: only its own task's place changes, and
\* possibly its state and its stage.
LEMMA MoveLife ==
  ASSUME TypeInv, StackInv, StackInv', LifeInv, NEW c \in Cores, NEW me \in TaskIds,
         me = queue.current[c], NEW p, pc' = [pc EXCEPT ![c] = p], context' = context,
         Called(queue, queue', c), SpaceInv',
         \A t \in TaskIds : t # me => Stage(t)' = Stage(t),
         Fits(queue'.state[me].is, Stage(me)', p.at),
         p.at = "idle" <=> pc[c].at = "idle"
  PROVE  LifeInv'
<1>1. /\ queue'.current = queue.current /\ queue'.idle = queue.idle
      /\ \A t \in TaskIds : t # me =>
           \/ queue'.state[t].is = queue.state[t].is
           \/ queue.state[t].is \in StopStates /\ queue'.state[t].is = "Ready"
  BY Zenon DEF Called
<1>2. /\ Where(me) = pc[c]
      /\ \A t \in TaskIds : Where(t)' = IF t = me THEN p ELSE Where(t)
  BY <1>1, WhereMoves, Zenon
<1>3. ASSUME NEW t \in TaskIds PROVE Fits(queue'.state[t].is, Stage(t)', Where(t)'.at)
  <2>1. CASE t = me
    BY <1>2, <2>1, Zenon
  <2>2. CASE t # me
    <3>1. Fits(queue.state[t].is, Stage(t), Where(t).at)
      BY Zenon DEF LifeInv
    <3>2. Stage(t)' = Stage(t) /\ Where(t)' = Where(t)
      BY <1>2, <2>2, Zenon
    <3> QED
      BY <1>1, <2>2, <3>1, <3>2, FitsFacts, Zenon
  <2> QED
    BY <2>1, <2>2, Zenon
<1>4. ASSUME NEW t \in TaskIds PROVE IsIdle(queue, t)' <=> Where(t)'.at = "idle"
  <2>1. IsIdle(queue, t) <=> Where(t).at = "idle"
    BY Zenon DEF LifeInv
  <2>2. IsIdle(queue, t)' <=> IsIdle(queue, t)
    BY <1>1, Zenon DEF IsIdle
  <2> QED
    BY <1>2, <2>1, <2>2, Zenon
<1> QED
  BY <1>1, <1>3, <1>4, Zenon DEF LifeInv

\* ... and one that changes no program's life, either.
LEMMA CallLife ==
  ASSUME TypeInv, StackInv, StackInv', LifeInv, NEW c \in Cores, NEW me \in TaskIds,
         me = queue.current[c], NEW p, pc' = [pc EXCEPT ![c] = p], context' = context,
         Called(queue, queue', c), UNCHANGED programVars,
         Fits(queue'.state[me].is, Stage(me), p.at),
         p.at = "idle" <=> pc[c].at = "idle"
  PROVE  LifeInv'
<1>1. UNCHANGED <<program, processes, space, freed, ttbr>>
  BY Zenon DEF programVars
<1>2. SpaceInv'
  <2>1. queue'.current = queue.current /\ queue'.len = queue.len /\ SpaceInv
    BY Zenon DEF Called, LifeInv
  <2> QED
    BY <1>1, <2>1, Zenon DEF SpaceInv
<1>3. \A t \in TaskIds : Stage(t)' = Stage(t)
  BY <1>1, StagesStay, Zenon
<1> QED
  BY <1>2, <1>3, MoveLife, Zenon

\* The task a core executes: its state and its stage fit where the core is.
LEMMA MyLife ==
  ASSUME TypeInv, StackInv, LifeInv, NEW c \in Cores, Executing(c)
  PROVE  /\ queue.current[c] \in TaskIds /\ queue \in Queue
         /\ Fits(queue.state[queue.current[c]].is, Stage(queue.current[c]), pc[c].at)
         /\ pc[c].at \notin SvcPlaces => queue.state[queue.current[c]].is = "Running"
<1>1. queue.current[c] \in TaskIds /\ queue \in Queue
  BY MeIsTask, Zenon
<1>2. Where(queue.current[c]) = pc[c]
  BY WhereIs, Zenon DEF WhereFacts, Executing
<1>3. Fits(queue.state[queue.current[c]].is, Stage(queue.current[c]), pc[c].at)
  BY <1>1, <1>2, Zenon DEF LifeInv
<1> QED
  BY <1>1, <1>3, RunningTask, Zenon

\* r is what a call that wakes tasks, or stops core c's own, makes of the run queue q.
WakesOnly(q, r) ==
  \/ r = q
  \/ \E t \in TaskIds : r = Wake(q, t) \/ r = Interrupt(q, t)
  \/ \E e \in Events : r = Notify(q, e)

StopsOwn(q, r, c) ==
  \/ \E n \in Nat : r = SleepCurrent(q, c, n)
  \/ \E e \in Events, n \in Nat : r = WaitCurrent(q, c, e, n)
  \/ r = BlockCurrent(q, c)

\* What a call leaves the core's own task in.
LEMMA CallState ==
  ASSUME NEW q \in Queue, NEW c \in Cores, NEW me \in TaskIds, me = q.current[c],
         q.state[me].is = "Running", NEW r
  PROVE  /\ WakesOnly(q, r) => r.state[me].is = "Running"
         /\ StopsOwn(q, r, c) => r.state[me].is \in {"Running"} \cup StopStates
         /\ r = FinishCurrent(q, c) => r.state[me].is = "Finished"
<1>1. \A n : /\ Waiting(n).is \in StopStates /\ Sleeping(n).is \in StopStates
             /\ Blocked.is \in StopStates /\ Finished.is = "Finished"
  BY Zenon DEF Waiting, Sleeping, Blocked, Finished, StopStates
<1>2. ASSUME WakesOnly(q, r) PROVE r.state[me].is = "Running"
  <2>1. \/ r.state[me].is = q.state[me].is
        \/ q.state[me].is \in StopStates /\ r.state[me].is = "Ready"
    BY <1>2, WakingOpsDo, Zenon DEF WakesOnly
  <2> QED
    BY <2>1, Zenon DEF StopStates
<1>3. ASSUME NEW st, r = TakeInterrupt(q, c, st) PROVE r.state[me] \in {q.state[me], st}
  <2>1. r.state[me] = IF me = q.current[c] /\ ~q.intrPending[me] THEN st ELSE q.state[me]
    BY <1>3, TakeInterruptIs
  <2> QED
    BY <2>1, Zenon
<1>4. ASSUME NEW n \in Nat, r = SleepCurrent(q, c, n)
      PROVE  r.state[me].is \in {"Running"} \cup StopStates
  <2>1. r = TakeInterrupt(q, c, Sleeping(n))
    BY <1>4, Zenon DEF SleepCurrent
  <2> QED
    BY <1>1, <1>3, <2>1, Zenon
<1>5. ASSUME NEW e \in Events, NEW n \in Nat, r = WaitCurrent(q, c, e, n)
      PROVE  r.state[me].is \in {"Running"} \cup StopStates
  <2>1. r = TakeInterrupt(q, c, IF q.generation[e] = n THEN Waiting(e) ELSE q.state[me])
    BY <1>5, Zenon DEF WaitCurrent
  <2> QED
    BY <1>1, <1>3, <2>1, Zenon
<1>6. r = BlockCurrent(q, c) => r.state[me].is \in {"Running"} \cup StopStates
  <2> HAVE r = BlockCurrent(q, c)
  <2>1. PICK st \in {q.state[me], Blocked} : r.state = [q.state EXCEPT ![me] = st]
    BY Zenon DEF BlockCurrent, Queue
  <2>2. r.state[me] = st
    BY <2>1, Zenon DEF Queue
  <2> QED
    BY <1>1, <2>1, <2>2, Zenon
<1>7. r = FinishCurrent(q, c) => r.state[me].is = "Finished"
  BY <1>1, StopCurrentIs, Zenon
<1> QED
  BY <1>2, <1>4, <1>5, <1>6, <1>7, Zenon DEF StopsOwn

\* The calls into the run queue.
LEMMA QueueCallLife ==
  ASSUME TypeInv, StackInv, StackInv', LifeInv, NEW c \in Cores,
         \/ YieldNow(c)
         \/ \E left \in 0 .. MaxSleep : Sleep(c, left)
         \/ Block(c)
         \/ \E t \in TaskIds : WakeTask(c, t)
         \/ \E e \in Events : WaitUntil(c, e)
         \/ SeeGeneration(c)
         \/ LookNotReady(c)
         \/ WaitForEvent(c)
         \/ NotifyEvent(c)
         \/ Exit(c)
         \/ ExitFinish(c)
         \/ KillInterrupt(c)
  PROVE  LifeInv'
<1> DEFINE me == queue.current[c]
<1>1. /\ Executing(c) /\ me \in TaskIds /\ Called(queue, queue', c)
      /\ context' = context /\ UNCHANGED programVars
  BY CallsKeepTasks, Zenon
<1>2. /\ queue \in Queue /\ GoodPosition(pc[c])
      /\ Fits(queue.state[me].is, Stage(me), pc[c].at)
      /\ pc[c].at \notin SvcPlaces => queue.state[me].is = "Running"
  BY <1>1, MyLife, MeIsTask, Zenon
<1> HIDE DEF me
<1>3. /\ pc[c].at \in {"notify", "wait"} => pc[c].arg \in Events /\ pc[c].n \in Nat
      /\ pc[c].at = "kill" => pc[c].arg \in TaskIds
  BY <1>2, Zenon DEF GoodPosition, Position
<1>4. ASSUME NEW p, pc' = [pc EXCEPT ![c] = p], Fits(queue'.state[me].is, Stage(me), p.at),
             p.at # "idle", pc[c].at # "idle"
      PROVE  LifeInv'
  BY <1>1, <1>4, CallLife, Zenon DEF me
<1>5. queue.state[me].is = "Running" =>
        /\ WakesOnly(queue, queue') => queue'.state[me].is = "Running"
        /\ StopsOwn(queue, queue', c) => queue'.state[me].is \in {"Running"} \cup StopStates
        /\ queue' = FinishCurrent(queue, c) => queue'.state[me].is = "Finished"
  BY <1>1, <1>2, CallState DEF me
<1> USE DEF IsAt, May, CallQueue, Go
\* The places, by what they admit.
<1>6. \A g : /\ g \in {"kernel", "live"} =>
                  /\ \A place \in {"svc", "run", "top", "look", "wait"} : Fits("Running", g, place)
                  /\ \A s \in {"Running"} \cup StopStates, place \in {"svc", "svcTop"} : Fits(s, g, place)
             /\ g \in {"kernel", "left"} => Fits("Finished", g, "svcGone")
  BY Zenon DEF Fits, StatesAt, StagesAt, StopStates
<1>7. /\ pc[c].at \in {"run", "top", "look", "wait", "notify", "kill"} =>
           Stage(me) \in {"kernel", "live"} /\ queue.state[me].is = "Running" /\ pc[c].at # "idle"
      /\ pc[c].at = "finish" => Stage(me) = "left" /\ queue.state[me].is = "Running" /\ pc[c].at # "idle"
  BY <1>2, Zenon DEF Fits, StagesAt, SvcPlaces
<1>8. \A place, e, n : AtWith(place, e, n).at = place /\ At(place) = AtWith(place, 0, 0)
  BY Zenon DEF At, AtWith
<1>9. ASSUME NEW place, NEW e, NEW n, pc' = [pc EXCEPT ![c] = AtWith(place, e, n)],
             Fits(queue'.state[me].is, Stage(me), place), place # "idle", pc[c].at # "idle"
      PROVE  LifeInv'
  <2>1. AtWith(place, e, n).at = place
    BY <1>8, Zenon
  <2> HIDE DEF AtWith
  <2> QED
    BY <1>4, <1>9, <2>1, Zenon
<1>10. CASE YieldNow(c) \/ (\E e \in Events : WaitUntil(c, e)) \/ SeeGeneration(c) \/ LookNotReady(c)
  <2>1. queue' = queue /\ pc[c].at \in {"run", "top", "look"}
    BY <1>10, Zenon DEF YieldNow, WaitUntil, SeeGeneration, LookNotReady
  <2>2. PICK place \in {"svc", "top", "look", "wait"} : \E e, n : pc' = [pc EXCEPT ![c] = AtWith(place, e, n)]
    <3>1. CASE YieldNow(c)
      <4>1. pc' = [pc EXCEPT ![c] = AtWith("svc", 0, 0)]
        BY <1>8, <3>1, Zenon DEF YieldNow
      <4> QED
        BY <4>1, Zenon
    <3>2. CASE (\E e \in Events : WaitUntil(c, e)) \/ SeeGeneration(c) \/ LookNotReady(c)
      BY <3>2, Zenon DEF WaitUntil, SeeGeneration, LookNotReady
    <3> QED
      BY <1>10, <3>1, <3>2, Zenon
  <2>3. Fits(queue'.state[me].is, Stage(me), place)
    BY <1>6, <1>7, <2>1, <2>2, Zenon
  <2>4. PICK e, n : pc' = [pc EXCEPT ![c] = AtWith(place, e, n)]
    BY <2>2, Zenon
  <2> QED
    BY <1>7, <1>9, <2>1, <2>4, <2>3, Zenon
<1>11. CASE (\E t \in TaskIds : WakeTask(c, t)) \/ NotifyEvent(c) \/ KillInterrupt(c)
  <2>1. /\ pc[c].at \in {"run", "notify", "kill"} /\ pc' = [pc EXCEPT ![c] = AtWith("run", 0, 0)]
        /\ WakesOnly(queue, queue')
    BY <1>3, <1>8, <1>11, ZenonT(30) DEF WakeTask, NotifyEvent, KillInterrupt, WakesOnly
  <2>2. Fits(queue'.state[me].is, Stage(me), "run")
    BY <1>5, <1>6, <1>7, <2>1, Zenon
  <2> QED
    BY <1>7, <1>9, <2>1, <2>2, Zenon
<1>12. CASE (\E left \in 0 .. MaxSleep : Sleep(c, left)) \/ Block(c) \/ WaitForEvent(c)
  <2>1. /\ pc[c].at \in {"run", "wait"}
        /\ \E place \in {"svc", "svcTop"} : \E e : pc' = [pc EXCEPT ![c] = AtWith(place, e, 0)]
    BY <1>8, <1>12, ZenonT(30) DEF Sleep, Block, WaitForEvent
  <2>2. 0 .. MaxSleep \subseteq Nat
    BY SchedAssumption
  <2>3. StopsOwn(queue, queue', c)
    BY <1>3, <1>12, <2>2, ZenonT(30), Zenon DEF Sleep, Block, WaitForEvent, StopsOwn
  <2>4. PICK place \in {"svc", "svcTop"} : \E e : pc' = [pc EXCEPT ![c] = AtWith(place, e, 0)]
    BY <2>1, Zenon
  <2>5. Fits(queue'.state[me].is, Stage(me), place)
    BY <1>5, <1>6, <1>7, <2>1, <2>3, <2>4, Zenon
  <2>6. PICK e : pc' = [pc EXCEPT ![c] = AtWith(place, e, 0)]
    BY <2>4, Zenon
  <2> QED
    BY <1>7, <1>9, <2>1, <2>6, <2>5, Zenon
<1>13. CASE Exit(c) \/ ExitFinish(c)
  <2>1. /\ pc[c].at \in {"run", "finish"} /\ pc' = [pc EXCEPT ![c] = AtWith("svcGone", 0, 0)]
        /\ queue' = FinishCurrent(queue, c)
        /\ pc[c].at = "run" => me \notin program
    BY <1>8, <1>13, ZenonT(30), Zenon DEF Exit, ExitFinish, Me, me
  <2>2. Stage(me) \in {"kernel", "left"}
    BY <1>7, <2>1, Zenon DEF Stage
  <2>3. Fits(queue'.state[me].is, Stage(me), "svcGone")
    BY <1>5, <1>6, <1>7, <2>1, <2>2, Zenon
  <2> QED
    BY <1>7, <1>9, <2>1, <2>3, Zenon
<1> QED
  BY <1>10, <1>11, <1>12, <1>13, Zenon

\* System calls, no_preempt, and the ends of wait_until: the core's code moves on, and nothing else
\* of a task's life changes.
LEMMA MovesLife ==
  ASSUME TypeInv, StackInv, StackInv', LifeInv, NEW c \in Cores,
         \/ Syscall(c) \/ SyscallDone(c) \/ ReturnToUser(c) \/ UserExit(c)
         \/ NoPreemptBegin(c) \/ NoPreemptCount(c) \/ NoPreemptEnd(c)
         \/ LookReady(c) \/ (\E e \in Events : Post(c, e))
  PROVE  LifeInv'
<1> DEFINE me == queue.current[c]
<1> USE DEF IsAt, May, Move, Go
<1>1. Executing(c) /\ context' = context /\ queue' = queue /\ UNCHANGED programVars
  BY Zenon DEF Syscall, SyscallDone, ReturnToUser, UserExit, NoPreemptBegin, NoPreemptCount,
         NoPreemptEnd, LookReady, Post
<1>2. /\ me \in TaskIds /\ Fits(queue.state[me].is, Stage(me), pc[c].at)
      /\ pc[c].at \notin SvcPlaces => queue.state[me].is = "Running"
  BY <1>1, MyLife, Zenon
<1>3. Called(queue, queue', c)
  BY <1>1, Zenon DEF Called
<1> HIDE DEF me
<1>4. \A place, e, n : AtWith(place, e, n).at = place /\ At(place) = AtWith(place, 0, 0)
  BY Zenon DEF At, AtWith
<1>5. ASSUME NEW place, NEW e, NEW n, pc' = [pc EXCEPT ![c] = AtWith(place, e, n)],
             Fits("Running", Stage(me), place), place # "idle", pc[c].at # "idle",
             pc[c].at \notin SvcPlaces
      PROVE  LifeInv'
  <2>1. AtWith(place, e, n).at = place /\ queue'.state[me].is = "Running"
    BY <1>1, <1>2, <1>4, <1>5, Zenon
  <2> QED
    BY <1>1, <1>2, <1>3, <1>5, <2>1, CallLife, Zenon DEF me
<1>6. \A g : /\ g \in {"kernel", "live"} =>
                  /\ \A place \in {"svc", "run", "np", "npEnd", "notify"} : Fits("Running", g, place)
             /\ g = "live" => \A place \in {"user", "ret", "exit"} : Fits("Running", g, place)
  BY Zenon DEF Fits, StatesAt, StagesAt
<1>7. /\ pc[c].at \in {"run", "look", "np", "npEnd"} => Stage(me) \in {"kernel", "live"}
      /\ pc[c].at \in {"user", "ret"} => Stage(me) = "live"
  BY <1>2, Zenon DEF Fits, StagesAt
<1>8. CASE Syscall(c)
  <2>1. pc[c].at = "user" /\ pc' = [pc EXCEPT ![c] = AtWith("run", 0, 0)]
    BY <1>4, <1>8, Zenon DEF Syscall
  <2> QED
    BY <1>5, <1>6, <1>7, <2>1, Zenon DEF SvcPlaces
<1>9. CASE SyscallDone(c)
  <2> DEFINE place == IF killed[me] THEN "exit" ELSE "ret"
  <2>1. pc[c].at = "run" /\ me \in program /\ pc' = [pc EXCEPT ![c] = AtWith(place, 0, 0)]
    <3>1. pc' = [pc EXCEPT ![c] = At(place)] /\ pc[c].at = "run" /\ me \in program
      BY <1>9, Zenon DEF SyscallDone, Me, me
    <3> HIDE DEF place
    <3> QED
      BY <1>4, <3>1, Zenon
  <2>2. Stage(me) = "live"
    BY <1>7, <2>1, Zenon DEF Stage
  <2>3. place \in {"exit", "ret"}
    BY Zenon
  <2> HIDE DEF place
  <2>4. Fits("Running", Stage(me), place) /\ place # "idle" /\ pc[c].at # "idle" /\ pc[c].at \notin SvcPlaces
    BY <1>6, <2>1, <2>2, <2>3, Zenon DEF SvcPlaces
  <2> QED
    BY <1>5, <2>1, <2>4, Zenon
<1>10. CASE ReturnToUser(c) \/ UserExit(c)
  <2>1. /\ pc[c].at \in {"ret", "user"}
        /\ \E place \in {"exit", "user"} : pc' = [pc EXCEPT ![c] = AtWith(place, 0, 0)]
    BY <1>4, <1>10, Zenon DEF ReturnToUser, UserExit
  <2>2. PICK place \in {"exit", "user"} : pc' = [pc EXCEPT ![c] = AtWith(place, 0, 0)]
    BY <2>1, Zenon
  <2>3. Fits("Running", Stage(me), place) /\ place # "idle" /\ pc[c].at # "idle" /\ pc[c].at \notin SvcPlaces
    BY <1>6, <1>7, <2>1, <2>2, Zenon DEF SvcPlaces
  <2> QED
    BY <1>5, <2>2, <2>3, Zenon
<1>11. CASE NoPreemptBegin(c) \/ NoPreemptCount(c) \/ NoPreemptEnd(c)
  <2>1. pc[c].at \in {"run", "np", "npEnd"}
    BY <1>11, Zenon DEF NoPreemptBegin, NoPreemptCount, NoPreemptEnd
  <2>2. \A core, n : Inside(core, n) \in {AtWith("run", 0, 0), AtWith("np", core, n)}
    BY <1>4, Zenon DEF Inside
  <2>3. PICK place \in {"run", "np", "npEnd", "svc"} : \E e, n : pc' = [pc EXCEPT ![c] = AtWith(place, e, n)]
    <3>1. CASE NoPreemptBegin(c)
      BY <3>1, Zenon DEF NoPreemptBegin
    <3>2. CASE NoPreemptCount(c)
      <4>1. \/ pc' = [pc EXCEPT ![c] = AtWith("npEnd", pc[c].arg, pc[c].n - 1)]
            \/ pc' = [pc EXCEPT ![c] = Inside(pc[c].arg, pc[c].n - 1)]
        BY <3>2, Zenon DEF NoPreemptCount
      <4>2. CASE pc' = [pc EXCEPT ![c] = Inside(pc[c].arg, pc[c].n - 1)]
        BY <2>2, <4>2, Zenon
      <4> QED
        BY <4>1, <4>2, Zenon
    <3>3. CASE NoPreemptEnd(c)
      <4>1. \/ pc' = [pc EXCEPT ![c] = AtWith("svc", 0, 0)]
            \/ pc' = [pc EXCEPT ![c] = Inside(pc[c].arg, pc[c].n)]
        BY <1>4, <3>3, Zenon DEF NoPreemptEnd
      <4>2. CASE pc' = [pc EXCEPT ![c] = Inside(pc[c].arg, pc[c].n)]
        BY <2>2, <4>2, Zenon
      <4> QED
        BY <4>1, <4>2, Zenon
    <3> QED
      BY <1>11, <3>1, <3>2, <3>3, Zenon
  <2>4. Fits("Running", Stage(me), place) /\ place # "idle" /\ pc[c].at # "idle" /\ pc[c].at \notin SvcPlaces
    BY <1>6, <1>7, <2>1, <2>3, Zenon DEF SvcPlaces
  <2> QED
    BY <1>5, <2>3, <2>4, Zenon
<1>12. CASE LookReady(c) \/ \E e \in Events : Post(c, e)
  <2>1. pc[c].at \in {"run", "look"}
    BY <1>12, Zenon DEF LookReady, Post
  <2>2. PICK place \in {"run", "notify"} : \E e : pc' = [pc EXCEPT ![c] = AtWith(place, e, 0)]
    BY <1>4, <1>12, Zenon DEF LookReady, Post
  <2>3. Fits("Running", Stage(me), place) /\ place # "idle" /\ pc[c].at # "idle" /\ pc[c].at \notin SvcPlaces
    BY <1>6, <1>7, <2>1, <2>2, Zenon DEF SvcPlaces
  <2> QED
    BY <1>5, <2>2, <2>3, Zenon
<1> QED
  BY <1>8, <1>9, <1>10, <1>11, <1>12, Zenon

\* process::exit: out of PROCESSES, out of the address space, then freed.
LEMMA ExitLife ==
  ASSUME TypeInv, StackInv, StackInv', LifeInv, NEW c \in Cores,
         ExitRemove(c) \/ ExitLeave(c) \/ ExitDrop(c)
  PROVE  LifeInv'
<1> USE DEF IsAt, Move, Go
<1>1. Executing(c) /\ context' = context /\ queue' = queue
  BY Zenon DEF ExitRemove, ExitLeave, ExitDrop
<1>0. PICK me \in TaskIds : me = queue.current[c]
  BY <1>1, MeIsTask, Zenon
<1>2. /\ Fits(queue.state[me].is, Stage(me), pc[c].at)
      /\ pc[c].at \notin SvcPlaces => queue.state[me].is = "Running"
  BY <1>0, <1>1, MyLife, Zenon
<1>3. Called(queue, queue', c)
  BY <1>1, Zenon DEF Called
<1>4. /\ space \in [TaskIds -> TaskIds \cup {Kernel}] /\ ttbr \in [Cores -> TaskIds \cup {Kernel}]
      /\ Kernel \notin TaskIds /\ NoTask \notin TaskIds
      /\ queue.current \in [Cores -> TaskIds \cup {NoTask}]
  BY SchedAssumption, RunQueueAssumption, TaskIdsFacts, Zenon DEF TypeInv, TypeOK, Queue
<1>5. SpaceInv
  BY Zenon DEF LifeInv
<1>6. \A d \in Cores : d # c => queue.current[d] # me
  BY <1>0, <1>4, Zenon DEF StackInv, OneStackUser
<1>7. /\ Fits("Running", "leaving", "leave") /\ Fits("Running", "left", "drop")
      /\ Fits("Running", "left", "finish")
      /\ \A place : At(place).at = place
  BY Zenon DEF Fits, StatesAt, StagesAt, At
<1>8. ASSUME NEW place \in {"leave", "drop", "finish"}, NEW stage, Fits("Running", stage, place),
             pc' = [pc EXCEPT ![c] = At(place)], pc[c].at \in {"exit", "leave", "drop"},
             Stage(me)' = stage, SpaceInv', \A t \in TaskIds : t # me => Stage(t)' = Stage(t)
      PROVE  LifeInv'
  <2>1. queue'.state[me].is = "Running" /\ At(place).at = place /\ At(place).at # "idle"
    BY <1>1, <1>2, <1>7, <1>8, Zenon DEF SvcPlaces
  <2>2. pc[c].at # "idle"
    BY <1>8, Zenon
  <2> QED
    BY <1>1, <1>2, <1>3, <1>8, <2>1, <2>2, <1>0, MoveLife, Zenon
<1>9. CASE ExitRemove(c)
  <2>1. Stage(me) = "live"
    BY <1>2, <1>9, Zenon DEF ExitRemove, Fits, StagesAt
  <2>2. me \in processes /\ me \in program
    BY <2>1, Zenon DEF Stage
  <2>3. /\ pc[c].at = "exit" /\ pc' = [pc EXCEPT ![c] = At("leave")]
        /\ processes' = processes \ {me} /\ UNCHANGED <<program, space, ttbr, freed>>
    BY <1>9, <2>2, <1>0, Zenon DEF ExitRemove, Me
  <2>4. Stage(me)' = "leaving" /\ \A t \in TaskIds : t # me => Stage(t)' = Stage(t)
    BY <1>5, <2>2, <2>3, Zenon DEF Stage, SpaceInv
  <2>5. SpaceInv'
    BY <1>1, <1>5, <2>3, Zenon DEF SpaceInv
  <2> QED
    BY <1>7, <1>8, <2>3, <2>4, <2>5, Zenon
<1>10. CASE ExitLeave(c)
  <2>1. Stage(me) = "leaving"
    BY <1>2, <1>10, Zenon DEF ExitLeave, Fits, StagesAt
  <2>2. me \notin processes /\ me \in program
    BY <2>1, Zenon DEF Stage
  <2>3. /\ pc[c].at = "leave" /\ pc' = [pc EXCEPT ![c] = At("drop")]
        /\ space' = [space EXCEPT ![me] = Kernel] /\ ttbr' = [ttbr EXCEPT ![c] = Kernel]
        /\ UNCHANGED <<program, processes, freed>>
    BY <1>10, <1>0, Zenon DEF ExitLeave, Me
  <2>4. Stage(me)' = "left" /\ \A t \in TaskIds : t # me => Stage(t)' = Stage(t)
    BY <1>2, <1>4, <2>2, <2>3, Zenon DEF Stage
  <2>5. \A d \in Cores : ttbr'[d] = IF queue.current[d] = NoTask THEN Kernel ELSE space'[queue.current[d]]
    BY <1>0, <1>4, <1>5, <1>6, <2>3, Zenon DEF SpaceInv
  <2>6. SpaceInv'
    BY <1>1, <1>2, <1>4, <1>5, <2>2, <2>3, <2>5 DEF SpaceInv
  <2> QED
    BY <1>7, <1>8, <2>3, <2>4, <2>6, Zenon
<1>11. CASE ExitDrop(c)
  <2>1. Stage(me) = "left"
    BY <1>2, <1>11, Zenon DEF ExitDrop, Fits, StagesAt
  <2>2. me \in program /\ space[me] = Kernel
    BY <1>2, <1>5, <2>1, Zenon DEF Stage, SpaceInv
  <2>3. /\ pc[c].at = "drop" /\ pc' = [pc EXCEPT ![c] = At("finish")]
        /\ freed' = freed \cup {me} /\ UNCHANGED <<program, processes, space, ttbr>>
    BY <1>11, <1>0, Zenon DEF ExitDrop, Me
  <2>4. \A t \in TaskIds : Stage(t)' = Stage(t)
    BY <2>3, StagesStay, Zenon
  <2>5. SpaceInv'
    BY <1>1, <1>5, <2>2, <2>3, Zenon DEF SpaceInv
  <2> QED
    BY <1>2, <1>7, <1>8, <2>1, <2>3, <2>4, <2>5, Zenon
<1> QED
  BY <1>9, <1>10, <1>11, Zenon
-----------------------------------------------------------------------------
(* kill, and a switch.                                                     *)

\* process::kill: the killer's code moves on, and a program saved at EL0 is now at exit_killed.
LEMMA KillWhere ==
  ASSUME TypeInv, StackInv, StackInv', NEW c \in Cores, NEW u \in TaskIds, Kill(c, u),
         NEW me \in TaskIds, me = queue.current[c]
  PROVE  /\ Where(me) = pc[c] /\ (Where(me)' = At("run") \/ Where(me)' = AtWith("kill", u, 0))
         /\ \A d \in Cores : pc'[d] = IF d = c THEN Where(me)' ELSE pc[d]
         /\ \A t \in TaskIds : t # me =>
              \/ Where(t)' = Where(t)
              \/ t = u /\ Where(t).at = "user" /\ Where(t)' = At("exit")
         /\ Where(me)' = At("run") => Where(u).at = "user"
<1> DEFINE sentToExit == ~(IsCurrent(queue, u) \/ context[u].at = "null") /\ context[u].at = "user"
           p == IF sentToExit THEN At("run") ELSE AtWith("kill", u, 0)
<1>1. /\ context' = [context EXCEPT ![u] = IF sentToExit THEN At("exit") ELSE context[u]]
      /\ pc' = [pc EXCEPT ![c] = p] /\ queue' = queue
  BY Zenon DEF Kill, Go
<1>2. \A d \in Cores : pc'[d] = IF d = c THEN p ELSE pc[d]
  <2> HIDE DEF p
  <2> QED
    BY <1>1, Zenon DEF TypeInv, TypeOK
<1>3. \A t \in TaskIds : context'[t] = IF t = u /\ sentToExit THEN At("exit") ELSE context[t]
  <2> HIDE DEF sentToExit
  <2> QED
    BY <1>1, Zenon DEF TypeInv, TypeOK
<1>4. sentToExit => context[u].at = "user" /\ \A d \in Cores : queue.current[d] # u
  BY Zenon DEF IsCurrent
<1>5. /\ p = At("run") \/ p = AtWith("kill", u, 0)
      /\ p = At("run") => sentToExit
  BY Zenon DEF At, AtWith
<1> HIDE DEF sentToExit, p
<1>6. WhereFacts /\ WhereFacts'
  BY WhereIs, PTL
<1>7. me # NoTask /\ \A d \in Cores : d # c => queue.current[d] # me
  BY TaskIdsFacts, Zenon DEF StackInv, OneStackUser
<1>8. Where(me) = pc[c] /\ Where(me)' = p
  BY <1>1, <1>2, <1>6, <1>7 DEF WhereFacts
<1>9. ASSUME NEW t \in TaskIds, t # me
      PROVE  Where(t)' = Where(t) \/ (t = u /\ Where(t).at = "user" /\ Where(t)' = At("exit"))
  <2>1. CASE \E d \in Cores : queue.current[d] = t
    <3>1. PICK d \in Cores : queue.current[d] = t
      BY <2>1, Zenon
    <3>2. t # NoTask /\ d # c
      BY <1>9, <3>1, TaskIdsFacts, Zenon
    <3>3. Where(t) = pc[d] /\ Where(t)' = pc'[d]
      BY <1>1, <1>6, <3>1, <3>2, Zenon DEF WhereFacts
    <3> QED
      BY <1>2, <3>2, <3>3, Zenon
  <2>2. CASE ~\E d \in Cores : queue.current[d] = t
    <3>1. Where(t) = context[t] /\ Where(t)' = context'[t]
      BY <1>1, <1>6, <2>2, Zenon DEF WhereFacts
    <3> QED
      BY <1>3, <1>4, <3>1, Zenon
  <2> QED
    BY <2>1, <2>2, Zenon
<1>10. sentToExit => Where(u).at = "user"
  BY <1>4, <1>6, Zenon DEF WhereFacts
<1> QED
  BY <1>2, <1>5, <1>8, <1>9, <1>10, Zenon

\* ... which is still a live program.
LEMMA KillLife ==
  ASSUME TypeInv, StackInv, StackInv', LifeInv, NEW c \in Cores, NEW u \in TaskIds, Kill(c, u)
  PROVE  LifeInv'
<1>1. /\ Executing(c) /\ pc[c].at = "run"
      /\ UNCHANGED <<queue, program, processes, space, ttbr, freed>>
  BY Zenon DEF Kill, IsAt, May
<1>2. PICK me \in TaskIds : me = queue.current[c]
  BY <1>1, MeIsTask, Zenon
<1>3. /\ Fits(queue.state[me].is, Stage(me), "run") /\ queue.state[me].is = "Running"
  BY <1>1, <1>2, MyLife, Zenon DEF SvcPlaces
<1>4. /\ Where(me) = pc[c] /\ (Where(me)' = At("run") \/ Where(me)' = AtWith("kill", u, 0))
      /\ \A t \in TaskIds : t # me =>
           \/ Where(t)' = Where(t)
           \/ Where(t).at = "user" /\ Where(t)' = At("exit")
  BY <1>2, KillWhere
<1>5. /\ At("exit").at = "exit" /\ At("run").at = "run" /\ AtWith("kill", u, 0).at = "kill"
  BY Zenon DEF At, AtWith
<1>6. \A t \in TaskIds : Stage(t)' = Stage(t)
  BY <1>1, StagesStay, Zenon
<1>7. ASSUME NEW t \in TaskIds PROVE Fits(queue'.state[t].is, Stage(t)', Where(t)'.at)
  <2>1. CASE t = me
    <3>1. Fits("Running", Stage(me), "kill") /\ Fits("Running", Stage(me), "run")
      BY <1>3, Zenon DEF Fits, StatesAt, StagesAt
    <3> QED
      BY <1>1, <1>3, <1>4, <1>5, <1>6, <2>1, <3>1, Zenon
  <2>2. CASE t # me
    <3>1. Fits(queue.state[t].is, Stage(t), Where(t).at)
      BY Zenon DEF LifeInv
    <3> QED
      BY <1>1, <1>4, <1>5, <1>6, <2>2, <3>1, FitsFacts, Zenon
  <2> QED
    BY <2>1, <2>2, Zenon
<1>8. ASSUME NEW t \in TaskIds PROVE IsIdle(queue, t)' <=> Where(t)'.at = "idle"
  <2>1. IsIdle(queue, t) <=> Where(t).at = "idle"
    BY Zenon DEF LifeInv
  <2>2. IsIdle(queue, t)' <=> IsIdle(queue, t)
    BY <1>1, Zenon DEF IsIdle
  <2>3. Where(t).at = "idle" <=> Where(t)'.at = "idle"
    <3>1. CASE t = me
      BY <1>1, <1>4, <1>5, <3>1, Zenon
    <3>2. CASE t # me
      BY <1>4, <1>5, <3>2, Zenon
    <3> QED
      BY <3>1, <3>2, Zenon
  <2> QED
    BY <2>1, <2>2, <2>3, Zenon
<1>9. SpaceInv'
  <2>1. SpaceInv
    BY Zenon DEF LifeInv
  <2> QED
    BY <1>1, <2>1, Zenon DEF SpaceInv
<1> QED
  BY <1>1, <1>7, <1>8, <1>9, Zenon DEF LifeInv

\* Scheduler::switch: the task it leaves goes on after its svc or its interrupt, or in exit; the
\* task it picks can run; and the tasks it removes had ended.
LEMMA SwitchLife ==
  ASSUME TypeInv, StackInv, StackInv', LifeInv, NEW c \in Cores, Executing(c),
         NEW q, SameTasks(queue, q),
         \A t \in TaskIds : \/ q.state[t].is = queue.state[t].is
                            \/ queue.state[t].is \in StopStates /\ q.state[t].is = "Ready",
         NEW here, \A s, g : Fits(s, g, pc[c].at) => Fits(s, g, here.at),
         here.at = "idle" <=> pc[c].at = "idle",
         NEW next, NEW reaped, Switched(c, q, here, next, reaped)
  PROVE  LifeInv'
<1>1. q.current = queue.current /\ q.idle = queue.idle /\ q.len = queue.len
  BY Zenon DEF SameTasks
<1>2. PICK me \in TaskIds : me = queue.current[c]
  BY MeIsTask, Zenon
<1>3. /\ next \in TaskIds /\ reaped \subseteq TaskIds
      /\ \/ next = me /\ (q.state[me].is = "Running" \/ q.idle[c] = NoTask)
         \/ next = q.idle[c]
         \/ q.state[next] = Ready /\ ~IsIdle(q, next)
      /\ \A d \in Cores : queue'.current[d] = IF d = c THEN next ELSE queue.current[d]
      /\ queue'.idle = queue.idle /\ queue'.len = queue.len
  BY <1>1, <1>2, SMTT(30) DEF Switched
<1>4. \A t \in TaskIds :
        queue'.state[t] = IF t \in reaped THEN Gone
                          ELSE IF t = next THEN Running
                          ELSE IF t = me /\ q.state[t] = Running THEN Ready
                          ELSE q.state[t]
  BY <1>1, <1>2, SMTT(30), Zenon DEF Switched
<1>5. \A t \in reaped : q.state[t] = Finished /\ t # me /\ t # next
  BY <1>1, <1>2, Zenon DEF Switched
<1>6. /\ \A d \in Cores : ttbr'[d] = IF d = c /\ space[me] # space[next] THEN space[next] ELSE ttbr[d]
      /\ UNCHANGED <<program, processes, killed, space, freed>>
  BY <1>1, <1>2, Zenon DEF Switched
<1>7. /\ Where(me) = pc[c]
      /\ \A t \in TaskIds :
           Where(t)' = IF t \in reaped THEN At("null")
                       ELSE IF t # me THEN Where(t)
                       ELSE IF Redirected(t, here) THEN At("exit") ELSE here
  BY <1>1, <1>2, WhereSwitches
<1>8. /\ Ready.is = "Ready" /\ Running.is = "Running" /\ Gone.is = "Gone" /\ Finished.is = "Finished"
      /\ At("null").at = "null" /\ At("exit").at = "exit"
  BY Zenon DEF Ready, Running, Gone, Finished, At
<1>9. ASSUME NEW t \in TaskIds PROVE Fits(q.state[t].is, Stage(t), Where(t).at)
  <2>1. Fits(queue.state[t].is, Stage(t), Where(t).at)
    BY Zenon DEF LifeInv
  <2> QED
    BY <2>1, FitsFacts, Zenon
<1>10. \A t \in TaskIds : Stage(t)' = Stage(t)
  BY <1>6, StagesStay, Zenon
\* The task it goes on with is Running or Ready, or idle.
<1>11. q.state[next].is \in {"Running", "Ready"} \/ Where(next).at = "idle"
  <2>1. queue.idle[c] # NoTask
    BY Zenon DEF LifeInv, Executing
  <2>2. next = q.idle[c] => IsIdle(queue, next)
    BY <1>1, Zenon DEF IsIdle
  <2> QED
    BY <1>1, <1>3, <1>8, <2>1, <2>2, Zenon DEF LifeInv
\* A task that the switch leaves alive fits its new place in its new state.
<1>12. ASSUME NEW t \in TaskIds, t \notin reaped PROVE Fits(queue'.state[t].is, Stage(t), Where(t).at)
  <2>1. Fits(q.state[t].is, Stage(t), Where(t).at)
    BY <1>9, Zenon
  <2>2. CASE t = next
    <3>1. queue'.state[t] = Running
      BY <1>4, <1>12, <2>2, Zenon
    <3> QED
      BY <1>8, <1>11, <2>1, <2>2, <3>1, FitsFacts, Zenon
  <2>3. CASE t # next /\ t = me /\ q.state[t] = Running
    <3>1. queue'.state[t] = Ready
      BY <1>4, <1>12, <2>3, Zenon
    <3> QED
      BY <1>8, <2>1, <2>3, <3>1, FitsFacts, Zenon
  <2>4. CASE t # next /\ ~(t = me /\ q.state[t] = Running)
    <3>1. queue'.state[t] = q.state[t]
      BY <1>4, <1>12, <2>4, Zenon
    <3> QED
      BY <2>1, <3>1, Zenon
  <2> QED
    BY <2>2, <2>3, <2>4, Zenon
<1>13. ASSUME NEW t \in TaskIds PROVE Fits(queue'.state[t].is, Stage(t), Where(t)'.at)
  <2>1. CASE t \in reaped
    <3>1. queue'.state[t] = Gone /\ Where(t)' = At("null") /\ q.state[t] = Finished
      BY <1>4, <1>5, <1>7, <2>1, Zenon
    <3> QED
      BY <1>8, <1>9, <3>1, FitsFacts, Zenon
  <2>2. CASE t \notin reaped /\ t # me
    <3>1. Where(t)' = Where(t)
      BY <1>7, <2>2, Zenon
    <3> QED
      BY <1>12, <2>2, <3>1, Zenon
  <2>3. CASE t \notin reaped /\ t = me
    <3>1. Fits(queue'.state[t].is, Stage(t), here.at)
      BY <1>7, <1>12, <2>3, Zenon
    <3>2. CASE Redirected(t, here)
      <4>1. Where(t)' = At("exit") /\ here.at = "user"
        BY <1>7, <2>3, <3>2, Zenon DEF Redirected
      <4> QED
        BY <1>8, <3>1, <4>1, FitsFacts, Zenon
    <3>3. CASE ~Redirected(t, here)
      BY <1>7, <2>3, <3>1, <3>3, Zenon
    <3> QED
      BY <3>2, <3>3, Zenon
  <2> QED
    BY <2>1, <2>2, <2>3, Zenon
<1>14. ASSUME NEW t \in TaskIds PROVE IsIdle(queue, t)' <=> Where(t)'.at = "idle"
  <2>1. IsIdle(queue, t) <=> Where(t).at = "idle"
    BY Zenon DEF LifeInv
  <2>2. IsIdle(queue, t)' <=> IsIdle(queue, t)
    BY <1>3, Zenon DEF IsIdle
  <2>3. Where(t).at = "idle" <=> Where(t)'.at = "idle"
    <3>1. CASE t \in reaped
      <4>1. Where(t).at # "idle"
        BY <1>5, <1>8, <1>9, <3>1, FitsFacts, Zenon
      <4> QED
        BY <1>7, <1>8, <3>1, <4>1, Zenon
    <3>2. CASE t \notin reaped /\ t # me
      BY <1>7, <3>2, Zenon
    <3>3. CASE t \notin reaped /\ t = me
      <4>1. CASE Redirected(t, here)
        <5>1. Where(t)' = At("exit") /\ here.at = "user"
          BY <1>7, <3>3, <4>1, Zenon DEF Redirected
        <5> QED
          BY <1>7, <1>8, <3>3, <5>1, Zenon
      <4>2. CASE ~Redirected(t, here)
        BY <1>7, <3>3, <4>2, Zenon
      <4> QED
        BY <4>1, <4>2, Zenon
    <3> QED
      BY <3>1, <3>2, <3>3, Zenon
  <2> QED
    BY <2>1, <2>2, <2>3, Zenon
<1>15. SpaceInv'
  <2>1. SpaceInv
    BY Zenon DEF LifeInv
  <2>2. me # NoTask /\ next # NoTask
    BY <1>3, TaskIdsFacts, Zenon
  <2>3. \A d \in Cores : ttbr'[d] = IF queue'.current[d] = NoTask THEN Kernel ELSE space[queue'.current[d]]
    BY <1>2, <1>3, <1>6, <2>1, <2>2 DEF SpaceInv
  <2> QED
    BY <1>3, <1>6, <2>1, <2>3, Zenon DEF SpaceInv
<1>16. \A d \in Cores : queue'.current[d] # NoTask <=> queue'.idle[d] # NoTask
  BY <1>2, <1>3, TaskIdsFacts, Zenon DEF LifeInv
<1> QED
  BY <1>10, <1>13, <1>14, <1>15, <1>16, Zenon DEF LifeInv
-----------------------------------------------------------------------------
(* The steps of cores, and spawn.                                          *)

\* on_yield: the code goes on after its svc.
LEMMA YieldLife ==
  ASSUME TypeInv, StackInv, StackInv', LifeInv, NEW c \in Cores, OnYield(c)
  PROVE  LifeInv'
<1>1. /\ Executing(c) /\ pc[c].at \in {"svc", "svcTop", "svcGone"}
      /\ Switch(c, queue, TRUE, AfterSvc(pc[c]))
  BY Zenon DEF OnYield
<1>2. queue \in Queue /\ queue.current[c] \in TaskIds
  BY <1>1, MeIsTask, Zenon
<1>3. PICK next, reaped : Switched(c, queue, AfterSvc(pc[c]), next, reaped)
  BY <1>1, <1>2, SwitchIs, Zenon
<1>4. /\ pc[c].at = "svc" => AfterSvc(pc[c]).at = "run"
      /\ pc[c].at = "svcTop" => AfterSvc(pc[c]).at = "top"
      /\ pc[c].at = "svcGone" => AfterSvc(pc[c]).at = "panic"
  BY Zenon DEF AfterSvc, At, AtWith
<1>5. AfterSvc(pc[c]).at # "idle" /\ pc[c].at # "idle"
  BY <1>1, <1>4, Zenon
<1>6. \A s, g : Fits(s, g, pc[c].at) => Fits(s, g, AfterSvc(pc[c]).at)
  BY <1>1, <1>4, FitsFacts, Zenon
<1> QED
  BY <1>1, <1>3, <1>5, <1>6, SwitchLife, Zenon DEF SameTasks

\* on_irq: the code goes on where it was, now or when it runs again.
LEMMA IrqLife ==
  ASSUME TypeInv, StackInv, StackInv', LifeInv, NEW c \in Cores, NEW timer \in BOOLEAN,
         NEW uart \in BOOLEAN, OnIrq(c, timer, uart)
  PROVE  LifeInv'
<1>1. PICK q \in Queue :
        /\ Executing(c) /\ queue.current[c] \in TaskIds
        /\ Interrupted(q, timer, uart)
        /\ \/ queue' = q /\ UNCHANGED <<context, pc, programVars>>
           \/ Switch(c, q, timer, pc[c])
  BY IrqIs, ZenonT(30), Zenon
<1>2. Ready.is = "Ready"
  BY Zenon DEF Ready
<1>3. /\ SameTasks(queue, q)
      /\ \A t \in TaskIds : \/ q.state[t].is = queue.state[t].is
                            \/ queue.state[t].is \in StopStates /\ q.state[t].is = "Ready"
  BY <1>1, <1>2, Zenon DEF Interrupted, StopStates
<1>4. CASE queue' = q /\ UNCHANGED <<context, pc, programVars>>
  <2>1. PICK me \in TaskIds : me = queue.current[c]
    BY <1>1, Zenon
  <2>2. Fits(queue.state[me].is, Stage(me), pc[c].at)
    BY <1>1, <2>1, MyLife, Zenon
  <2>3. Fits(queue'.state[me].is, Stage(me), pc[c].at)
    BY <1>3, <1>4, <2>2, FitsFacts, Zenon
  <2>4. Called(queue, queue', c)
    BY <1>3, <1>4, Zenon DEF Called, SameTasks
  <2>5. pc' = [pc EXCEPT ![c] = pc[c]]
    BY <1>4, Zenon DEF TypeInv, TypeOK
  <2> QED
    BY <1>4, <2>1, <2>3, <2>4, <2>5, CallLife, Zenon
<1>5. CASE Switch(c, q, timer, pc[c])
  <2>1. q.current[c] \in TaskIds
    BY <1>1, <1>3, Zenon DEF SameTasks
  <2>2. PICK next, reaped : Switched(c, q, pc[c], next, reaped)
    BY <1>5, <2>1, SwitchIs, Zenon
  <2> QED
    BY <1>1, <1>3, <2>2, SwitchLife, Zenon
<1> QED
  BY <1>1, <1>4, <1>5, Zenon

\* The steps that change nothing of a task's life.
LEMMA QuietLife ==
  ASSUME LifeInv, UNCHANGED <<queue, context, pc, programVars>>
  PROVE  LifeInv'
<1>1. UNCHANGED <<program, processes, space, freed, ttbr>>
  BY Zenon DEF programVars
<1>2. SpaceInv'
  BY <1>1, Zenon DEF LifeInv, SpaceInv
<1>3. \A t \in TaskIds : Stage(t)' = Stage(t)
  BY <1>1, StagesStay, Zenon
<1>4. \A t \in TaskIds : Where(t)' = Where(t)
  BY Zenon DEF Where, IsCurrent
<1>5. \A t \in TaskIds : IsIdle(queue, t)' <=> IsIdle(queue, t)
  BY Zenon DEF IsIdle
<1> QED
  BY <1>2, <1>3, <1>4, <1>5, Zenon DEF LifeInv

\* Time passing changes how long a sleeper has left.
LEMMA ElapseLife ==
  ASSUME TypeInv, LifeInv, Elapse
  PROVE  LifeInv'
<1>1. /\ queue'.state = [t \in TaskIds |->
                           IF queue.state[t].is = "Sleeping" /\ queue.state[t].of > 0
                           THEN Sleeping(queue.state[t].of - 1) ELSE queue.state[t]]
      /\ queue'.current = queue.current /\ queue'.idle = queue.idle /\ queue'.len = queue.len
      /\ UNCHANGED <<pc, context, program, processes, space, freed, ttbr>>
  BY Zenon DEF Elapse, TypeInv, TypeOK, Queue, programVars
<1>2. \A t \in TaskIds : queue'.state[t].is = queue.state[t].is
  BY <1>1 DEF Sleeping
<1>3. SpaceInv'
  BY <1>1, Zenon DEF LifeInv, SpaceInv
<1>4. \A t \in TaskIds : Stage(t)' = Stage(t)
  BY <1>1, StagesStay, Zenon
<1>5. \A t \in TaskIds : Where(t)' = Where(t)
  BY <1>1, Zenon DEF Where, IsCurrent
<1>6. \A t \in TaskIds : IsIdle(queue, t)' <=> IsIdle(queue, t)
  BY <1>1, Zenon DEF IsIdle
<1> QED
  BY <1>1, <1>2, <1>3, <1>4, <1>5, <1>6, Zenon DEF LifeInv

\* Ids not handed out yet are no task's: not run, not idle, not a program.
LEMMA NewIdIsFree ==
  ASSUME TypeInv, StackInv, LifeInv, queue.len < MaxTasks
  PROVE  /\ queue.len \in TaskIds /\ queue.len # NoTask /\ queue \in Queue
         /\ queue.state[queue.len].is = "Gone"
         /\ \A d \in Cores : queue.current[d] # queue.len /\ queue.idle[d] # queue.len
         /\ queue.len \notin program /\ space[queue.len] = Kernel
<1>1. queue \in Queue /\ queue.len \in TaskIds /\ queue.len \in Nat /\ queue.len # NoTask
  <2>1. 0 \in Cores
    BY RunQueueAssumption, Zenon
  <2> QED
    BY <2>1, AddType, TaskIdsFacts, Zenon DEF TypeInv, TypeOK
<1>2. queue.state[queue.len].is = "Gone"
  BY <1>1 DEF StackInv
<1>3. \A d \in Cores : queue.current[d] # queue.len /\ queue.idle[d] # queue.len
  BY <1>1, <1>2 DEF StackInv, RunsAs
<1>4. queue.len \notin program /\ space[queue.len] = Kernel
  BY <1>1 DEF LifeInv, SpaceInv
<1> QED
  BY <1>1, <1>2, <1>3, <1>4, Zenon

\* spawn: the new task is at its entry point, every other task where it was.
LEMMA SpawnWhere ==
  ASSUME TypeInv, StackInv, StackInv', LifeInv, NEW c \in Cores, NEW isProgram \in BOOLEAN,
         Spawn(c, isProgram), NEW n \in TaskIds, n = queue.len
  PROVE  /\ Where(n)' = At(IF isProgram THEN "user" ELSE "run")
         /\ \A t \in TaskIds : t # n => Where(t)' = Where(t)
<1> DEFINE entry == At(IF isProgram THEN "user" ELSE "run")
<1>1. queue.len < MaxTasks /\ queue' = Add(queue) /\ pc' = pc
  BY Zenon DEF Spawn
<1>2. queue \in Queue /\ \A d \in Cores : queue.current[d] # n
  BY <1>1, NewIdIsFree, Zenon
<1>3. queue'.current = queue.current
  BY <1>1, <1>2, AddIs, Zenon
<1>4. context' = [context EXCEPT ![n] = entry]
  BY Zenon DEF Spawn
<1> HIDE DEF entry
<1>5. \A t \in TaskIds : context'[t] = IF t = n THEN entry ELSE context[t]
  BY <1>4, Zenon DEF TypeInv, TypeOK
<1>6. WhereFacts /\ WhereFacts'
  BY WhereIs, PTL
<1>7. Where(n)' = context'[n]
  BY <1>2, <1>3, <1>6, Zenon DEF WhereFacts
<1>8. ASSUME NEW t \in TaskIds, t # n PROVE Where(t)' = Where(t)
  <2>1. CASE \E d \in Cores : queue.current[d] = t
    BY <1>1, <1>3, <1>6, <2>1, TaskIdsFacts DEF WhereFacts
  <2>2. CASE ~\E d \in Cores : queue.current[d] = t
    BY <1>3, <1>5, <1>6, <1>8, <2>2 DEF WhereFacts
  <2> QED
    BY <2>1, <2>2, Zenon
<1> QED
  BY <1>5, <1>7, <1>8, Zenon DEF entry

\* start_core: the new task is at its core's idle loop, every other task where it was.
LEMMA StartWhere ==
  ASSUME TypeInv, StackInv, StackInv', LifeInv, NEW c \in Cores, StartSecondary(c),
         NEW n \in TaskIds, n = queue.len
  PROVE  /\ Where(n)' = At("idle") /\ \A t \in TaskIds : t # n => Where(t)' = Where(t)
         /\ \A d \in Cores : pc'[d] = IF d = c THEN At("idle") ELSE pc[d]
<1>1. /\ queue.len < MaxTasks /\ queue.current[c] = NoTask /\ queue' = StartCore(queue, c)
      /\ pc' = [pc EXCEPT ![c] = At("idle")] /\ context' = context
  BY Zenon DEF StartSecondary, Go
<1>2. n # NoTask /\ queue \in Queue /\ \A d \in Cores : queue.current[d] # n
  BY <1>1, NewIdIsFree, Zenon
<1>3. \A d \in Cores : queue'.current[d] = IF d = c THEN n ELSE queue.current[d]
  BY <1>1, <1>2, StartCoreIs
<1>4. \A d \in Cores : pc'[d] = IF d = c THEN At("idle") ELSE pc[d]
  BY <1>1, Zenon DEF TypeInv, TypeOK
<1>5. WhereFacts /\ WhereFacts'
  BY WhereIs, PTL
<1>6. Where(n)' = pc'[c]
  BY <1>2, <1>3, <1>5, Zenon DEF WhereFacts
<1>7. ASSUME NEW t \in TaskIds, t # n PROVE Where(t)' = Where(t)
  <2>1. CASE \E d \in Cores : queue.current[d] = t
    <3>1. PICK d \in Cores : queue.current[d] = t
      BY <2>1, Zenon
    <3>2. t # NoTask /\ d # c
      BY <1>1, <3>1, TaskIdsFacts, Zenon
    <3> QED
      BY <1>3, <1>4, <1>5, <3>1, <3>2, Zenon DEF WhereFacts
  <2>2. CASE ~\E d \in Cores : queue.current[d] = t
    BY <1>1, <1>3, <1>5, <1>7, <2>2 DEF WhereFacts
  <2> QED
    BY <2>1, <2>2, Zenon
<1> QED
  BY <1>4, <1>6, <1>7, Zenon

\* spawn and spawn_user: the new task is ready, at its entry point, a program in its own space.
LEMMA SpawnLife ==
  ASSUME TypeInv, StackInv, StackInv', LifeInv, NEW c \in Cores, NEW isProgram \in BOOLEAN,
         Spawn(c, isProgram)
  PROVE  LifeInv'
<1>1. queue.len < MaxTasks
  BY Zenon DEF Spawn
<1>2. PICK n \in TaskIds : n = queue.len
  BY <1>1, NewIdIsFree, Zenon
<1>3. /\ n # NoTask /\ queue \in Queue /\ queue.state[n].is = "Gone"
      /\ \A d \in Cores : queue.current[d] # n /\ queue.idle[d] # n
      /\ n \notin program /\ space[n] = Kernel
  BY <1>1, <1>2, NewIdIsFree, Zenon
<1>4. queue' = Add(queue) /\ UNCHANGED <<pc, ttbr, freed>>
  BY Zenon DEF Spawn
<1>5. /\ queue'.current = queue.current /\ queue'.idle = queue.idle /\ queue'.len = n + 1
      /\ \A t \in TaskIds : queue'.state[t] = IF t = n THEN Ready ELSE queue.state[t]
  BY <1>1, <1>2, <1>3, <1>4, AddIs
<1>6. /\ context' = [context EXCEPT ![n] = At(IF isProgram THEN "user" ELSE "run")]
      /\ isProgram => /\ program' = program \cup {n}
                      /\ processes' = processes \cup {n}
                      /\ space' = [space EXCEPT ![n] = n]
      /\ ~isProgram => UNCHANGED <<program, processes, space>>
  BY <1>2, Zenon DEF Spawn
<1>7. space \in [TaskIds -> TaskIds \cup {Kernel}] /\ context \in [TaskIds -> Position]
  BY Zenon DEF TypeInv, TypeOK
<1>8. \E place \in {"user", "run"} :
        /\ context' = [context EXCEPT ![n] = At(place)]
        /\ Stage(n)' = IF place = "user" THEN "live" ELSE "kernel"
        /\ SpaceInv'
        /\ \A t \in TaskIds : t # n => Stage(t)' = Stage(t)
  <2>1. SpaceInv
    BY Zenon DEF LifeInv
  <2>2. CASE isProgram
    <3>1. context' = [context EXCEPT ![n] = At("user")]
      BY <1>6, <2>2, Zenon
    <3>2. /\ program' = program \cup {n} /\ processes' = processes \cup {n}
          /\ space' = [space EXCEPT ![n] = n]
      BY <1>6, <2>2, Zenon
    <3>3. Stage(n)' = "live" /\ \A t \in TaskIds : t # n => Stage(t)' = Stage(t)
      BY <1>7, <3>2, Zenon DEF Stage
    <3>4. \A t \in TaskIds : space'[t] = IF t = n THEN n ELSE space[t]
      BY <1>7, <3>2, Zenon
    <3>5. \A t \in program' : t < queue'.len
      <4>1. \A t \in program : t < queue.len
        BY <2>1, Zenon DEF SpaceInv
      <4>2. program \subseteq TaskIds /\ n \in Nat /\ TaskIds \subseteq Nat
        BY TaskIdsFacts, Zenon DEF TypeInv, TypeOK
      <4> QED
        BY <1>2, <1>5, <3>2, <4>1, <4>2
    <3>6. \A d \in Cores : ttbr'[d] = IF queue'.current[d] = NoTask THEN Kernel ELSE space'[queue'.current[d]]
      <4>1. queue.current \in [Cores -> TaskIds \cup {NoTask}]
        BY <1>3, Zenon DEF Queue
      <4> QED
        BY <1>3, <1>4, <1>5, <2>1, <3>4, <4>1 DEF SpaceInv
    <3>7. processes \subseteq TaskIds /\ freed \subseteq TaskIds /\ n \notin freed
      BY <1>3, <2>1, Zenon DEF TypeInv, TypeOK, SpaceInv
    <3>8. SpaceInv'
      BY <1>4, <2>1, <3>2, <3>4, <3>5, <3>6, <3>7 DEF SpaceInv
    <3> QED
      BY <3>1, <3>3, <3>8, Zenon
  <2>3. CASE ~isProgram
    <3>1. context' = [context EXCEPT ![n] = At("run")] /\ UNCHANGED <<program, processes, space>>
      BY <1>6, <2>3, Zenon
    <3>2. \A t \in TaskIds : Stage(t)' = Stage(t)
      BY <3>1, StagesStay, Zenon
    <3>3. Stage(n) = "kernel"
      BY <1>3, Zenon DEF Stage
    <3>4. \A t \in program : t < queue'.len
      <4>1. \A t \in program : t < queue.len
        BY <2>1, Zenon DEF SpaceInv
      <4>2. program \subseteq TaskIds /\ n \in Nat /\ TaskIds \subseteq Nat
        BY TaskIdsFacts, Zenon DEF TypeInv, TypeOK
      <4> QED
        BY <1>2, <1>5, <4>1, <4>2
    <3>5. SpaceInv'
      BY <1>4, <1>5, <2>1, <3>1, <3>4, Zenon DEF SpaceInv
    <3> QED
      BY <3>1, <3>2, <3>3, <3>5, Zenon
  <2> QED
    BY <2>2, <2>3, Zenon
<1>9. PICK place \in {"user", "run"} :
        /\ context' = [context EXCEPT ![n] = At(place)]
        /\ Stage(n)' = IF place = "user" THEN "live" ELSE "kernel"
        /\ SpaceInv'
        /\ \A t \in TaskIds : t # n => Stage(t)' = Stage(t)
  BY <1>8, Zenon
<1>12. Where(n)' = At(place) /\ \A t \in TaskIds : t # n => Where(t)' = Where(t)
  <2>1. At(place) = context'[n]
    BY <1>7, <1>9, Zenon
  <2>2. At(IF isProgram THEN "user" ELSE "run") = context'[n]
    <3> DEFINE entry == At(IF isProgram THEN "user" ELSE "run")
    <3>1. context' = [context EXCEPT ![n] = entry]
      BY <1>6, Zenon
    <3> HIDE DEF entry
    <3>2. entry = context'[n]
      BY <1>7, <3>1, Zenon
    <3> QED
      BY <3>2, Zenon DEF entry
  <2> QED
    BY <1>2, <2>1, <2>2, SpawnWhere, Zenon
<1>13. Ready.is = "Ready" /\ At(place).at = place
  BY Zenon DEF Ready, At
<1>14. ASSUME NEW t \in TaskIds PROVE Fits(queue'.state[t].is, Stage(t)', Where(t)'.at)
  <2>1. CASE t = n
    <3>1. Fits("Ready", "live", "user") /\ Fits("Ready", "kernel", "run")
      BY Zenon DEF Fits, StatesAt, StagesAt
    <3> QED
      BY <1>5, <1>9, <1>12, <1>13, <2>1, <3>1, Zenon
  <2>2. CASE t # n
    BY <1>5, <1>9, <1>12, <2>2, Zenon DEF LifeInv
  <2> QED
    BY <2>1, <2>2, Zenon
<1>15. ASSUME NEW t \in TaskIds PROVE IsIdle(queue, t)' <=> Where(t)'.at = "idle"
  <2>1. IsIdle(queue, t)' <=> IsIdle(queue, t)
    BY <1>5, Zenon DEF IsIdle
  <2>2. CASE t = n
    <3>1. ~IsIdle(queue, t)
      BY <1>3, <2>2, Zenon DEF IsIdle
    <3>2. Where(t)'.at # "idle"
      BY <1>12, <1>13, <2>2, Zenon
    <3> QED
      BY <2>1, <3>1, <3>2, Zenon
  <2>3. CASE t # n
    BY <1>12, <2>1, <2>3, Zenon DEF LifeInv
  <2> QED
    BY <2>2, <2>3, Zenon
<1> QED
  BY <1>5, <1>9, <1>14, <1>15, Zenon DEF LifeInv

\* start_core: the core idles, in the kernel's space.
LEMMA StartSecondaryLife ==
  ASSUME TypeInv, StackInv, StackInv', LifeInv, NEW c \in Cores, StartSecondary(c)
  PROVE  LifeInv'
<1>1. /\ queue.len < MaxTasks /\ queue.current[c] = NoTask /\ queue' = StartCore(queue, c)
      /\ pc' = [pc EXCEPT ![c] = At("idle")]
      /\ UNCHANGED <<context, program, processes, space, freed, ttbr>>
  BY Zenon DEF StartSecondary, Go, programVars
<1>2. PICK n \in TaskIds : n = queue.len
  BY <1>1, NewIdIsFree, Zenon
<1>3. /\ n # NoTask /\ queue \in Queue /\ queue.state[n].is = "Gone"
      /\ \A d \in Cores : queue.current[d] # n /\ queue.idle[d] # n
      /\ n \notin program /\ space[n] = Kernel
  BY <1>1, <1>2, NewIdIsFree, Zenon
<1>4. /\ queue'.len = n + 1
      /\ \A d \in Cores : queue'.current[d] = IF d = c THEN n ELSE queue.current[d]
      /\ \A d \in Cores : queue'.idle[d] = IF d = c THEN n ELSE queue.idle[d]
      /\ \A t \in TaskIds : queue'.state[t] = IF t = n THEN Running ELSE queue.state[t]
  BY <1>1, <1>2, <1>3, StartCoreIs
<1>6. SpaceInv /\ \A t \in TaskIds : Stage(t)' = Stage(t)
  BY <1>1, StagesStay, Zenon DEF LifeInv
<1>8. Where(n)' = At("idle") /\ \A t \in TaskIds : t # n => Where(t)' = Where(t)
  BY <1>2, StartWhere, Zenon
<1>9. Running.is = "Running" /\ At("idle").at = "idle"
  BY Zenon DEF Running, At
<1>10. ASSUME NEW t \in TaskIds PROVE Fits(queue'.state[t].is, Stage(t)', Where(t)'.at)
  <2>1. CASE t = n
    <3>1. Fits("Running", "kernel", "idle") /\ Stage(n) = "kernel"
      BY <1>3, Zenon DEF Fits, StatesAt, StagesAt, Stage
    <3> QED
      BY <1>4, <1>6, <1>8, <1>9, <2>1, <3>1, Zenon
  <2>2. CASE t # n
    BY <1>4, <1>6, <1>8, <2>2, Zenon DEF LifeInv
  <2> QED
    BY <2>1, <2>2, Zenon
\* Core c had no idle task: it would be running one.
<1>11. ASSUME NEW t \in TaskIds PROVE IsIdle(queue, t)' <=> Where(t)'.at = "idle"
  <2>1. CASE t = n
    <3>1. IsIdle(queue, t)'
      BY <1>4, <2>1, Zenon DEF IsIdle
    <3> QED
      BY <1>8, <1>9, <2>1, <3>1, Zenon
  <2>2. CASE t # n
    <3>1. IsIdle(queue, t) <=> Where(t)'.at = "idle"
      BY <1>8, <2>2, Zenon DEF LifeInv
    <3>2. queue.idle[c] # t
      BY <1>1, TaskIdsFacts, Zenon DEF LifeInv
    <3> QED
      BY <1>4, <2>2, <3>1, <3>2, Zenon DEF IsIdle
  <2> QED
    BY <2>1, <2>2, Zenon
<1>12. SpaceInv'
  <2>1. \A d \in Cores : ttbr'[d] = IF queue'.current[d] = NoTask THEN Kernel ELSE space'[queue'.current[d]]
    BY <1>1, <1>3, <1>4, <1>6 DEF SpaceInv
  <2>2. program \subseteq TaskIds /\ n \in Nat /\ TaskIds \subseteq Nat
    BY TaskIdsFacts, Zenon DEF TypeInv, TypeOK
  <2> QED
    BY <1>1, <1>2, <1>4, <1>6, <2>1, <2>2 DEF SpaceInv
<1>13. \A d \in Cores : queue'.current[d] # NoTask <=> queue'.idle[d] # NoTask
  BY <1>3, <1>4, Zenon DEF LifeInv
<1> QED
  BY <1>10, <1>11, <1>12, <1>13, Zenon DEF LifeInv
-----------------------------------------------------------------------------
(* Every step together.                                                    *)

\* After sched::init: the shell runs, its core's idle task is ready, there are no other tasks.
LEMMA InitLife == Init => LifeInv
<1> SUFFICES ASSUME Init PROVE LifeInv
  BY Zenon
<1>1. TypeInv /\ StackInv
  BY InitTypes, InitStack, Zenon
<1>2. 0 \in Cores /\ 0 \in TaskIds /\ 1 \in TaskIds /\ NoTask \notin TaskIds
  BY RunQueueAssumption, TaskIdsFacts, Zenon DEF TaskIds
<1>3. /\ \A t \in TaskIds : queue.state[t] = IF t = 0 THEN Running ELSE IF t = 1 THEN Ready ELSE Gone
      /\ \A c \in Cores : /\ queue.current[c] = IF c = 0 THEN 0 ELSE NoTask
                          /\ queue.idle[c] = IF c = 0 THEN 1 ELSE NoTask
  BY InitQueueIs, Zenon
<1>4. /\ context = [t \in TaskIds |-> At(IF t = 1 THEN "idle" ELSE "null")]
      /\ pc = [c \in Cores |-> At(IF c = 0 THEN "run" ELSE "null")]
      /\ program = {} /\ processes = {} /\ freed = {}
      /\ space = [t \in TaskIds |-> Kernel] /\ ttbr = [c \in Cores |-> Kernel]
  BY Zenon DEF Init
<1>5. WhereFacts
  BY <1>1, WhereIs, Zenon
<1>6. \A t \in TaskIds : Where(t) = At(IF t = 0 THEN "run" ELSE IF t = 1 THEN "idle" ELSE "null")
  <2>1. Where(0) = At("run")
    BY <1>2, <1>3, <1>4, <1>5, Zenon DEF WhereFacts
  <2>2. ASSUME NEW t \in TaskIds, t # 0 PROVE Where(t) = context[t]
    BY <1>2, <1>3, <1>5, <2>2, Zenon DEF WhereFacts
  <2> QED
    BY <1>4, <2>1, <2>2, Zenon
<1>7. \A t \in TaskIds : Stage(t) = "kernel"
  BY <1>4, Zenon DEF Stage
<1>8. /\ Running.is = "Running" /\ Ready.is = "Ready" /\ Gone.is = "Gone"
      /\ \A place : At(place).at = place
  BY Zenon DEF Running, Ready, Gone, At
<1>9. /\ Fits("Running", "kernel", "run") /\ Fits("Ready", "kernel", "idle")
      /\ Fits("Gone", "kernel", "null")
  BY Zenon DEF Fits, StatesAt, StagesAt
<1>10. \A t \in TaskIds : Fits(queue.state[t].is, Stage(t), Where(t).at)
  BY <1>3, <1>6, <1>7, <1>8, <1>9
<1>11. \A t \in TaskIds : IsIdle(queue, t) <=> Where(t).at = "idle"
  <2>1. \A t \in TaskIds : IsIdle(queue, t) <=> t = 1
    BY <1>2, <1>3, Zenon DEF IsIdle
  <2> QED
    BY <1>6, <1>8, <2>1
<1>12. SpaceInv
  BY <1>2, <1>3, <1>4, Zenon DEF SpaceInv
<1>13. \A c \in Cores : queue.current[c] # NoTask <=> queue.idle[c] # NoTask
  BY <1>2, <1>3, Zenon
<1> QED
  BY <1>10, <1>11, <1>12, <1>13, Zenon DEF LifeInv

\* Every step keeps the invariant: the primed StackInv is what NextStack proves of it.
LEMMA NextLife == TypeInv /\ StackInv /\ LifeInv /\ [Next]_vars /\ StackInv' => LifeInv'
<1> SUFFICES ASSUME TypeInv, StackInv, LifeInv, [Next]_vars, StackInv' PROVE LifeInv'
  BY Zenon
<1>1. ASSUME NEW c \in Cores, Step(c) PROVE LifeInv'
  <2>1. CASE FinishSwitch(c) \/ FpTrap(c) \/ \E v \in 0 .. FpVersions - 1 : FpInstruction(c, v)
    <3>1. UNCHANGED <<queue, context, pc, programVars>>
      BY <2>1, Zenon DEF FinishSwitch, FpTrap, FpInstruction, runVars
    <3> QED
      BY <3>1, QuietLife, Zenon
  <2>2. CASE KernelStep(c) /\ ~FinishSwitch(c)
    BY <2>2, YieldLife, QueueCallLife, MovesLife, ExitLife, Zenon DEF KernelStep
  <2>3. CASE TaskStep(c) /\ ~(FpTrap(c) \/ \E v \in 0 .. FpVersions - 1 : FpInstruction(c, v))
    BY <2>3, SpawnLife, QueueCallLife, MovesLife, KillLife, Zenon DEF TaskStep
  <2>4. CASE StartSecondary(c)
    BY <2>4, StartSecondaryLife, Zenon
  <2>5. CASE \E timer, uart \in BOOLEAN : OnIrq(c, timer, uart)
    BY <2>5, IrqLife, Zenon
  <2> QED
    BY <1>1, <2>1, <2>2, <2>3, <2>4, <2>5, Zenon DEF Step
<1>2. CASE UNCHANGED vars
  BY <1>2, QuietLife, Zenon DEF vars, kernelVars, runVars
<1> QED
  BY <1>1, <1>2, ElapseLife, Zenon DEF Next

\* The invariant holds in every behaviour that keeps to the order.
THEOREM LifeInvariant == OrderedSpec => [](TypeInv /\ StackInv /\ LifeInv)
<1>1. OrderedNext => Next
  BY Zenon DEF OrderedNext, Next
<1> QED
  BY <1>1, InitTypes, NextTypes, InitStack, NextStack, InitLife, NextLife, PTL DEF OrderedSpec

\* Every core resumes code that was saved and hasn't ended (no null context in switch, neither
\* sched::exit's unreachable! nor process::exit's expect), as long as no core wakes a task another
\* core still runs.
THEOREM ResumesOrdered == OrderedSpec => []ResumesSavedCode
<1>1. TypeInv /\ StackInv /\ LifeInv => ResumesSavedCode
  <2> SUFFICES ASSUME TypeInv, StackInv, LifeInv, NEW c \in Cores, queue.current[c] # NoTask
               PROVE  pc[c].at \notin {"null", "panic"}
    BY Zenon DEF ResumesSavedCode
  <2>1. queue.current[c] \in TaskIds
    BY Zenon DEF TypeInv, TypeOK, Queue
  <2>2. Where(queue.current[c]) = pc[c]
    BY WhereIs, Zenon DEF WhereFacts
  <2>3. Fits(queue.state[queue.current[c]].is, Stage(queue.current[c]), pc[c].at)
    BY <2>1, <2>2, Zenon DEF LifeInv
  <2>4. queue.state[queue.current[c]].is \in RunsAs(pc[c])
    BY Zenon DEF StackInv
  <2> QED
    BY <2>3, <2>4, Zenon DEF Fits, StatesAt, RunsAs, SvcPlaces
<1> QED
  BY <1>1, LifeInvariant, PTL

\* A program at EL0 is in its own address space, and no core is in one that exit has freed, under
\* the same condition: switch, leave_user_space and drop keep TTBR0_EL1 in step with the tasks.
THEOREM SpaceOrdered == OrderedSpec => []OwnLiveSpace
<1>1. TypeInv /\ StackInv /\ LifeInv => OwnLiveSpace
  <2> SUFFICES ASSUME TypeInv, StackInv, LifeInv, NEW c \in Cores
               PROVE  ttbr[c] \notin freed /\ (IsAt(c, "user") => ttbr[c] = Me(c))
    BY Zenon DEF OwnLiveSpace
  <2>1. SpaceInv /\ Kernel \notin TaskIds /\ freed \subseteq TaskIds
    BY SchedAssumption, TaskIdsFacts, Zenon DEF LifeInv, TypeInv, TypeOK
  <2>2. queue.current[c] \in TaskIds \cup {NoTask}
    BY Zenon DEF TypeInv, TypeOK, Queue
  <2>3. ttbr[c] \notin freed
    BY <2>1, <2>2 DEF SpaceInv
  <2>4. ASSUME IsAt(c, "user") PROVE ttbr[c] = Me(c)
    <3>1. Fits(queue.state[queue.current[c]].is, Stage(queue.current[c]), "user")
      BY <2>4, MyLife, Zenon DEF IsAt
    <3>2. queue.current[c] \in processes /\ queue.current[c] # NoTask
      BY <2>4, <3>1, Zenon DEF Fits, StagesAt, Stage, IsAt, Executing
    <3> QED
      BY <2>1, <3>2, Zenon DEF SpaceInv, Me
  <2> QED
    BY <2>3, <2>4, Zenon
<1> QED
  BY <1>1, LifeInvariant, PTL
=============================================================================
