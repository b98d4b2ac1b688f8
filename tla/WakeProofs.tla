----------------------------- MODULE WakeProofs -----------------------------
(***************************************************************************)
(* No wake-up is lost, in every behaviour in which no core wakes a task    *)
(* another core still runs: wait_until against notify, and the wait of a   *)
(* program against kill.                                                   *)
(***************************************************************************)
EXTENDS ResumeProofs

\* Code is at a good position wherever it is.
LEMMA WhereGood == TypeInv => \A t \in TaskIds : GoodPosition(Where(t))
<1> SUFFICES ASSUME TypeInv, NEW t \in TaskIds PROVE GoodPosition(Where(t))
  BY Zenon
<1>1. CASE IsCurrent(queue, t)
  <2>1. \E c \in Cores : queue.current[c] = t
    BY <1>1, Zenon DEF IsCurrent
  <2> DEFINE d == CHOOSE c \in Cores : queue.current[c] = t
  <2>2. d \in Cores
    BY <2>1, Zenon
  <2>3. Where(t) = pc[d]
    BY <1>1, Zenon DEF Where
  <2> QED
    BY <2>2, <2>3, Zenon DEF TypeInv
<1>2. CASE ~IsCurrent(queue, t)
  BY <1>2, Zenon DEF Where, TypeInv
<1> QED
  BY <1>1, <1>2, Zenon

\* What a step may do without losing a wake-up.  An event: it raises its generation and leaves no
\* one waiting for it, or what is waited for holds because someone is about to notify.  A task: it
\* is no longer waiting, nor about to without noticing; or it is killed because its killer is about
\* to interrupt it.  A task starts to wait, or to look, only for what it saw.
KeepsWakeups ==
  /\ \A e \in Events :
       \/ queue.generation[e] < queue'.generation[e] /\ \A t \in TaskIds : queue'.state[t] # Waiting(e)
       \/ /\ queue.generation[e] <= queue'.generation[e]
          /\ cond'[e] => cond[e] \/ Notified(e)'
          /\ Notified(e) => Notified(e)'
  /\ \A t \in TaskIds :
       \/ queue'.state[t].is # "Waiting" /\ (Where(t)'.at = "wait" => queue'.intrPending[t])
       \/ /\ killed'[t] => killed[t] \/ BeingKilled(t)'
          /\ BeingKilled(t) => BeingKilled(t)'
          /\ queue.intrPending[t] => queue'.intrPending[t] \/ Where(t)'.at # "wait"
  /\ \A t \in TaskIds, e \in Events : queue'.state[t] = Waiting(e) =>
       \/ queue.state[t] = Waiting(e)
       \/ /\ Where(t).at = "wait" /\ Where(t).arg = e /\ Where(t).n = queue.generation[e]
          /\ ~queue.intrPending[t]
  /\ \A t \in TaskIds :
       \/ Where(t)' = Where(t)
       \/ Where(t)'.at \notin {"look", "wait"}
       \/ Where(t)'.at = "look" /\ Where(t)'.n <= queue'.generation[Where(t)'.arg]
       \/ /\ Where(t)'.at = "wait" /\ Where(t).at = "look"
          /\ Where(t)'.arg = Where(t).arg /\ Where(t)'.n = Where(t).n
          /\ ~cond'[Where(t).arg] /\ ~killed'[t]

\* Such a step loses none.
LEMMA KeepsWake ==
  ASSUME TypeInv, TypeInv', WakeInv, KeepsWakeups
  PROVE  WakeInv'
<1>1. /\ \A e \in Events : queue.generation[e] \in Nat /\ queue'.generation[e] \in Nat
      /\ \A n : Waiting(n).is = "Waiting"
  BY Zenon DEF TypeInv, TypeOK, Queue, Waiting
<1>2. /\ NoLostWakeup
      /\ \A t \in TaskIds : Alert(t)
  BY Zenon DEF WakeInv
<1>3. (\A t \in TaskIds : GoodPosition(Where(t))) /\ (\A t \in TaskIds : GoodPosition(Where(t)))'
  BY WhereGood, PTL
<1>4. ASSUME NEW t \in TaskIds, NEW e \in Events, queue'.state[t] = Waiting(e)
      PROVE  (cond'[e] => Notified(e)') /\ (killed'[t] => BeingKilled(t)')
  <2>1. queue'.state[t].is = "Waiting"
    BY <1>1, <1>4, Zenon
  <2>2. /\ cond'[e] => cond[e] \/ Notified(e)'
        /\ Notified(e) => Notified(e)'
        /\ killed'[t] => killed[t] \/ BeingKilled(t)'
        /\ BeingKilled(t) => BeingKilled(t)'
    BY <1>4, <2>1, Zenon DEF KeepsWakeups
  <2>3. CASE queue.state[t] = Waiting(e)
    <3>1. (cond[e] => Notified(e)) /\ (killed[t] => BeingKilled(t))
      BY <1>2, <2>3, Zenon DEF NoLostWakeup, Notified, BeingKilled
    <3> QED
      BY <2>2, <3>1, Zenon
  <2>4. CASE queue.state[t] # Waiting(e)
    <3>1. /\ Where(t).at = "wait" /\ Where(t).arg = e /\ Where(t).n = queue.generation[e]
          /\ ~queue.intrPending[t]
      BY <1>4, <2>4, Zenon DEF KeepsWakeups
    <3>2. (cond[e] => Notified(e)) /\ (killed[t] => BeingKilled(t))
      BY <1>2, <3>1, Zenon DEF Alert
    <3> QED
      BY <2>2, <3>2, Zenon
  <2> QED
    BY <2>3, <2>4, Zenon
<1>5. ASSUME NEW t \in TaskIds PROVE Alert(t)'
  <2> DEFINE p == Where(t)
  <2>1. p'.at \in {"look", "wait"} => p'.arg \in Events /\ p'.n \in Nat
    BY <1>3, Zenon DEF GoodPosition, Position
  <2>2. p.at \in {"look", "wait"} => p.arg \in Events /\ p.n \in Nat
    BY <1>3, Zenon DEF GoodPosition, Position
  <2>3. \A e \in Events : queue.generation[e] <= queue'.generation[e]
    <3> SUFFICES ASSUME NEW e \in Events PROVE queue.generation[e] <= queue'.generation[e]
      BY Zenon
    <3>1. queue.generation[e] < queue'.generation[e] \/ queue.generation[e] <= queue'.generation[e]
      BY Zenon DEF KeepsWakeups
    <3> QED
      BY <1>1, <3>1
  <2>4. CASE p'.at \notin {"look", "wait"}
    BY <2>4, Zenon DEF Alert
  <2>5. CASE p'.at = "look" /\ p'.n <= queue'.generation[p'.arg]
    BY <2>5, Zenon DEF Alert
  <2>6. CASE /\ p'.at = "wait" /\ p.at = "look" /\ p'.arg = p.arg /\ p'.n = p.n
             /\ ~cond'[p.arg] /\ ~killed'[t]
    <3>1. p.n <= queue.generation[p.arg]
      BY <1>2, <2>6, Zenon DEF Alert
    <3>2. p'.n <= queue'.generation[p'.arg]
      BY <1>1, <2>2, <2>3, <2>6, <3>1
    <3>3. ~cond'[p'.arg]
      BY <2>6, Zenon
    <3> QED
      BY <2>6, <3>2, <3>3, Zenon DEF Alert
  <2>7. CASE p' = p /\ p.at \in {"look", "wait"}
    <3>1. p.n <= queue.generation[p.arg]
      BY <1>2, <2>7, Zenon DEF Alert
    <3>2. p.n <= queue'.generation[p.arg]
      BY <1>1, <2>2, <2>3, <2>7, <3>1
    <3>3. ASSUME p.at = "wait", cond'[p.arg], queue'.generation[p.arg] = p.n PROVE Notified(p.arg)'
      <4>1. PICK e \in Events : e = p.arg
        BY <2>2, <3>3, Zenon
      <4>2. queue.generation[e] = p.n /\ ~(queue.generation[e] < queue'.generation[e])
        BY <1>1, <2>2, <2>3, <3>1, <3>3, <4>1
      <4>3. /\ cond[e] \/ Notified(e)'
            /\ Notified(e) => Notified(e)'
        BY <3>3, <4>1, <4>2, Zenon DEF KeepsWakeups
      <4>4. cond[e] => Notified(e)
        BY <1>2, <3>3, <4>1, <4>2, Zenon DEF Alert
      <4>5. Notified(e)' /\ p'.arg = e
        BY <2>7, <4>1, <4>3, <4>4, Zenon
      <4> QED
        BY <4>5, Zenon DEF Notified
    <3>4. ASSUME p.at = "wait", killed'[t] PROVE queue'.intrPending[t] \/ BeingKilled(t)'
      <4>1. killed[t] => queue.intrPending[t] \/ BeingKilled(t)
        BY <1>2, <3>4, Zenon DEF Alert
      <4>2. Where(t)'.at = "wait"
        BY <2>7, <3>4, Zenon
      <4> QED
        BY <3>4, <4>1, <4>2, Zenon DEF KeepsWakeups
    <3> QED
      BY <2>7, <3>2, <3>3, <3>4, Zenon DEF Alert
  <2>8. \/ p' = p
        \/ p'.at \notin {"look", "wait"}
        \/ p'.at = "look" /\ p'.n <= queue'.generation[p'.arg]
        \/ /\ p'.at = "wait" /\ p.at = "look" /\ p'.arg = p.arg /\ p'.n = p.n
           /\ ~cond'[p.arg] /\ ~killed'[t]
    BY Zenon DEF KeepsWakeups
  <2> QED
    BY <2>4, <2>5, <2>6, <2>7, <2>8, Zenon
<1>6. NoLostWakeup'
  BY <1>4, Zenon DEF NoLostWakeup, Notified, BeingKilled
<1> QED
  BY <1>5, <1>6, Zenon DEF WakeInv
-----------------------------------------------------------------------------
(* Steps that switch no task.                                              *)

\* Core c goes on at p, its task me with what it saw: it looks once it has seen the generation, and
\* waits when nothing it looked for was there.
Sees(c, me, p) ==
  \/ p.at \notin {"look", "wait"}
  \/ p.at = "look" /\ p.n <= queue'.generation[p.arg]
  \/ /\ p.at = "wait" /\ pc[c].at = "look" /\ p.arg = pc[c].arg /\ p.n = pc[c].n
     /\ ~cond'[p.arg] /\ ~killed'[me]

\* A step of core c that saves no task and switches none, and neither notifies nor interrupts.
MovesOn(c, me, p) ==
  /\ me = queue.current[c] /\ pc[c].at \notin {"notify", "kill"}
  /\ pc' = [pc EXCEPT ![c] = p] /\ context' = context
  /\ queue'.current = queue.current /\ queue'.generation = queue.generation
  /\ Sees(c, me, p)
  /\ \A e \in Events : cond'[e] => cond[e] \/ p = AtWith("notify", e, 0)
  /\ \A t \in TaskIds : killed'[t] => killed[t]
  /\ \A t \in TaskIds, e \in Events : queue'.state[t] = Waiting(e) =>
       \/ queue.state[t] = Waiting(e)
       \/ /\ t = me /\ pc[c].at = "wait" /\ pc[c].arg = e /\ pc[c].n = queue.generation[e]
          /\ ~queue.intrPending[t]
  /\ \A t \in TaskIds : queue.intrPending[t] => queue'.intrPending[t] \/ (t = me /\ p.at # "wait")

\* It loses no wake-up.
LEMMA MoveWake ==
  ASSUME TypeInv, TypeInv', StackInv, StackInv', WakeInv, NEW c \in Cores,
         NEW me \in TaskIds, NEW p, MovesOn(c, me, p)
  PROVE  WakeInv'
<1>0. /\ me = queue.current[c] /\ pc[c].at \notin {"notify", "kill"}
      /\ pc' = [pc EXCEPT ![c] = p] /\ context' = context
      /\ queue'.current = queue.current /\ queue'.generation = queue.generation
      /\ queue.current[c] \in TaskIds
  BY Zenon DEF MovesOn
<1>1. Where(me) = pc[c] /\ \A t \in TaskIds : Where(t)' = IF t = me THEN p ELSE Where(t)
  BY <1>0, WhereMoves, Zenon
<1>2. Where(me)' = p /\ \A t \in TaskIds : t # me => Where(t)' = Where(t)
  BY <1>1, Zenon
<1>3. \A d \in Cores : pc'[d] = IF d = c THEN p ELSE pc[d]
  BY <1>0, Zenon DEF TypeInv, TypeOK
<1>4. \A place, a, n : AtWith(place, a, n).at = place
  BY Zenon DEF AtWith
<1>5. \A e \in Events : Notified(e) => Notified(e)'
  <2> SUFFICES ASSUME NEW e \in Events, NEW u \in TaskIds, Where(u) = AtWith("notify", e, 0)
               PROVE  Notified(e)'
    BY Zenon DEF Notified
  <2>1. u # me
    BY <1>0, <1>1, <1>4
  <2> QED
    BY <1>2, <2>1, Zenon DEF Notified
<1>6. \A t \in TaskIds : BeingKilled(t) => BeingKilled(t)'
  <2> SUFFICES ASSUME NEW t \in TaskIds, NEW d \in Cores, pc[d] = AtWith("kill", t, 0)
               PROVE  BeingKilled(t)'
    BY Zenon DEF BeingKilled
  <2>1. d # c
    BY <1>0, <1>4
  <2>2. pc'[d] = AtWith("kill", t, 0)
    BY <1>3, <2>1, Zenon
  <2> QED
    BY <2>2, Zenon DEF BeingKilled
<1>7. \A e \in Events : queue.generation[e] <= queue'.generation[e]
  BY <1>0 DEF TypeInv, TypeOK, Queue
<1>8. \A e \in Events : p = AtWith("notify", e, 0) => Notified(e)'
  BY <1>2, Zenon DEF Notified
<1>9. \A t \in TaskIds :
        \/ Where(t)' = Where(t)
        \/ Where(t)'.at \notin {"look", "wait"}
        \/ Where(t)'.at = "look" /\ Where(t)'.n <= queue'.generation[Where(t)'.arg]
        \/ /\ Where(t)'.at = "wait" /\ Where(t).at = "look"
           /\ Where(t)'.arg = Where(t).arg /\ Where(t)'.n = Where(t).n
           /\ ~cond'[Where(t).arg] /\ ~killed'[t]
  <2> SUFFICES ASSUME NEW t \in TaskIds, Where(t)' # Where(t)
               PROVE  \/ Where(t)'.at \notin {"look", "wait"}
                      \/ Where(t)'.at = "look" /\ Where(t)'.n <= queue'.generation[Where(t)'.arg]
                      \/ /\ Where(t)'.at = "wait" /\ Where(t).at = "look"
                         /\ Where(t)'.arg = Where(t).arg /\ Where(t)'.n = Where(t).n
                         /\ ~cond'[Where(t).arg] /\ ~killed'[t]
    BY Zenon
  <2>1. t = me /\ Where(t) = pc[c] /\ Where(t)' = p
    BY <1>1, <1>2, Zenon
  <2> QED
    BY <2>1, Zenon DEF MovesOn, Sees
<1>10. \A t \in TaskIds : queue.intrPending[t] => queue'.intrPending[t] \/ Where(t)'.at # "wait"
  BY <1>2, Zenon DEF MovesOn
<1>11. \A t \in TaskIds, e \in Events : queue'.state[t] = Waiting(e) =>
         \/ queue.state[t] = Waiting(e)
         \/ /\ Where(t).at = "wait" /\ Where(t).arg = e /\ Where(t).n = queue.generation[e]
            /\ ~queue.intrPending[t]
  <2> SUFFICES ASSUME NEW t \in TaskIds, NEW e \in Events, queue'.state[t] = Waiting(e),
                      queue.state[t] # Waiting(e)
               PROVE  /\ Where(t).at = "wait" /\ Where(t).arg = e /\ Where(t).n = queue.generation[e]
                      /\ ~queue.intrPending[t]
    BY Zenon
  <2>1. /\ t = me /\ pc[c].at = "wait" /\ pc[c].arg = e /\ pc[c].n = queue.generation[e]
        /\ ~queue.intrPending[t]
    BY Zenon DEF MovesOn
  <2>2. Where(t) = pc[c]
    BY <1>1, <2>1, Zenon
  <2> QED
    BY <2>1, <2>2, Zenon
<1>12. /\ \A e \in Events : cond'[e] => cond[e] \/ Notified(e)'
       /\ \A t \in TaskIds : killed'[t] => killed[t]
  BY <1>8, Zenon DEF MovesOn
<1>13. KeepsWakeups
  BY <1>5, <1>6, <1>7, <1>9, <1>10, <1>11, <1>12, Zenon DEF KeepsWakeups
<1> QED
  BY <1>13, KeepsWake, Zenon

\* Calls into the run queue that make no one wait for an event, and wake no one who does.
LEMMA CallWake ==
  ASSUME TypeInv, TypeInv', StackInv, StackInv', WakeInv, NEW c \in Cores,
         \/ YieldNow(c)
         \/ \E left \in 0 .. MaxSleep : Sleep(c, left)
         \/ Block(c)
         \/ \E t \in TaskIds : WakeTask(c, t)
         \/ \E e \in Events : WaitUntil(c, e)
         \/ SeeGeneration(c)
         \/ Exit(c)
         \/ ExitFinish(c)
  PROVE  WakeInv'
<1> USE DEF IsAt, May, CallQueue, Go
<1>1. /\ Executing(c) /\ context' = context /\ cond' = cond /\ killed' = killed
      /\ pc[c].at \in {"run", "top", "finish"}
  BY Zenon DEF YieldNow, Sleep, Block, WakeTask, WaitUntil, SeeGeneration, Exit, ExitFinish, programVars
<1>2. queue \in Queue /\ queue.current[c] \in TaskIds /\ GoodPosition(pc[c])
  BY <1>1, MeIsTask, Zenon
<1> PICK me \in TaskIds : me = queue.current[c]
  BY <1>2, Zenon
<1>3. \A place, a, n : /\ AtWith(place, a, n).at = place /\ AtWith(place, a, n).n = n
                       /\ AtWith(place, a, n).arg = a
                       /\ At(place).at = place
  BY Zenon DEF At, AtWith
<1>4. \A n : /\ \A e : Sleeping(n) # Waiting(e) /\ Blocked # Waiting(e) /\ Ready # Waiting(e)
                         /\ Finished # Waiting(e)
  BY Zenon DEF Sleeping, Waiting, Blocked, Ready, Finished
<1>5. ASSUME NEW p, pc' = [pc EXCEPT ![c] = p],
             p.at \notin {"look", "wait"} \/ (p.at = "look" /\ p.n <= queue'.generation[p.arg]),
             SameTasks(queue, queue'), queue'.generation = queue.generation,
             \A t \in TaskIds, e \in Events : queue'.state[t] = Waiting(e) => queue.state[t] = Waiting(e),
             \A t \in TaskIds : queue.intrPending[t] => queue'.intrPending[t] \/ (t = me /\ p.at # "wait")
      PROVE  WakeInv'
  <2>1. pc[c].at \notin {"notify", "kill"} /\ queue'.current = queue.current
    BY <1>1, <1>5, Zenon DEF SameTasks
  <2>2. me \in TaskIds /\ me = queue.current[c]
    BY <1>2, Zenon
  <2>3. \A e \in Events : cond'[e] => cond[e] \/ p = AtWith("notify", e, 0)
    BY <1>1, Zenon
  <2>4. \A t \in TaskIds : killed'[t] => killed[t]
    BY <1>1, Zenon
  <2>5. \A t \in TaskIds, e \in Events : queue'.state[t] = Waiting(e) =>
           \/ queue.state[t] = Waiting(e)
           \/ /\ t = me /\ pc[c].at = "wait" /\ pc[c].arg = e /\ pc[c].n = queue.generation[e]
              /\ ~queue.intrPending[t]
    BY <1>5, Zenon
  <2>6. context' = context
    BY <1>1, Zenon
  <2>7. Sees(c, me, p)
    BY <1>5, Zenon DEF Sees
  <2>8. MovesOn(c, me, p)
    BY <1>5, <2>1, <2>2, <2>3, <2>4, <2>5, <2>6, <2>7, Zenon DEF MovesOn
  <2> QED
    BY <2>8, MoveWake, Zenon
<1>6. CASE YieldNow(c) \/ (\E e \in Events : WaitUntil(c, e)) \/ SeeGeneration(c)
  <2>1. queue' = queue /\ \E p : /\ pc' = [pc EXCEPT ![c] = p]
                                 /\ \/ p.at \notin {"look", "wait"}
                                    \/ /\ p.at = "look" /\ p.n = queue.generation[p.arg]
                                       /\ p.arg \in Events
    <3>1. CASE YieldNow(c)
      <4>1. queue' = queue /\ pc' = [pc EXCEPT ![c] = At("svc")]
        BY <3>1, Zenon DEF YieldNow
      <4>2. At("svc").at \notin {"look", "wait"}
        BY <1>3
      <4> QED
        BY <4>1, <4>2, Zenon
    <3>2. CASE \E e \in Events : WaitUntil(c, e)
      <4>1. PICK e \in Events : WaitUntil(c, e)
        BY <3>2, Zenon
      <4>2. queue' = queue /\ pc' = [pc EXCEPT ![c] = AtWith("top", e, 0)]
        BY <4>1, Zenon DEF WaitUntil
      <4>3. AtWith("top", e, 0).at \notin {"look", "wait"}
        BY <1>3
      <4> QED
        BY <4>2, <4>3, Zenon
    <3>3. CASE SeeGeneration(c)
      <4>1. pc[c].arg \in Events
        BY <1>2, <3>3, Zenon DEF SeeGeneration, GoodPosition
      <4>2. /\ queue' = queue
            /\ pc' = [pc EXCEPT ![c] = AtWith("look", pc[c].arg, queue.generation[pc[c].arg])]
        BY <3>3, Zenon DEF SeeGeneration
      <4>3. PICK p : p = AtWith("look", pc[c].arg, queue.generation[pc[c].arg])
        BY Zenon
      <4>4. p.at = "look" /\ p.n = queue.generation[p.arg] /\ p.arg \in Events
        BY <4>1, <4>3, Zenon DEF AtWith
      <4> QED
        BY <4>2, <4>3, <4>4, Zenon
    <3> QED
      BY <1>6, <3>1, <3>2, <3>3, Zenon
  <2>2. PICK p : /\ pc' = [pc EXCEPT ![c] = p]
                 /\ \/ p.at \notin {"look", "wait"}
                    \/ p.at = "look" /\ p.n = queue.generation[p.arg] /\ p.arg \in Events
    BY <2>1, Zenon
  <2>3. p.at = "look" => p.n <= queue'.generation[p.arg]
    BY <1>2, <2>1, <2>2 DEF Queue
  <2>4. SameTasks(queue, queue')
    BY <2>1, Zenon DEF SameTasks
  <2> QED
    BY <1>5, <2>1, <2>2, <2>3, <2>4, Zenon
<1>7. CASE \E left \in 0 .. MaxSleep : Sleep(c, left)
  <2>1. PICK left \in 0 .. MaxSleep : Sleep(c, left)
    BY <1>7, Zenon
  <2>2. queue' = TakeInterrupt(queue, c, Sleeping(left)) /\ pc' = [pc EXCEPT ![c] = At("svc")]
    BY <2>1, Zenon DEF Sleep, SleepCurrent
  <2>3. /\ SameTasks(queue, queue') /\ queue'.generation = queue.generation
        /\ \A t \in TaskIds : queue'.state[t] = IF t = me /\ ~queue.intrPending[t]
                                                THEN Sleeping(left) ELSE queue.state[t]
        /\ \A t \in TaskIds : t # me => queue'.intrPending[t] = queue.intrPending[t]
    BY <1>2, <2>2, TakeInterruptIs
  <2>4. \A t \in TaskIds, e \in Events : queue'.state[t] = Waiting(e) => queue.state[t] = Waiting(e)
    <3>1. \A t \in TaskIds : queue'.state[t] \in {Sleeping(left), queue.state[t]}
      BY <2>3, Zenon
    <3>2. \A e : Sleeping(left) # Waiting(e)
      BY <1>4, Zenon
    <3> QED
      BY <3>1, <3>2, Zenon
  <2>5. At("svc").at \notin {"look", "wait"} /\ At("svc").at # "wait"
    BY <1>3
  <2>6. \A t \in TaskIds : queue.intrPending[t] => queue'.intrPending[t] \/ (t = me /\ At("svc").at # "wait")
    BY <2>3, <2>5, Zenon
  <2> QED
    BY <1>5, <2>2, <2>3, <2>4, <2>5, <2>6, Zenon
<1>8. CASE Block(c) \/ Exit(c) \/ ExitFinish(c)
  <2>1. /\ queue' = BlockCurrent(queue, c) \/ queue' = FinishCurrent(queue, c)
        /\ \E place \in {"svc", "svcGone"} : pc' = [pc EXCEPT ![c] = At(place)]
    BY <1>8, Zenon DEF Block, Exit, ExitFinish
  <2>2. PICK place \in {"svc", "svcGone"} : pc' = [pc EXCEPT ![c] = At(place)]
    BY <2>1, Zenon
  <2>3. /\ SameTasks(queue, queue') /\ queue'.generation = queue.generation
        /\ queue'.intrPending = queue.intrPending
        /\ \A t \in TaskIds : t # me => queue'.state[t] = queue.state[t]
        /\ queue'.state[me] \in {queue.state[me], Blocked, Finished}
    BY <1>2, <2>1, StopCurrentIs
  <2>4. \A t \in TaskIds, e \in Events : queue'.state[t] = Waiting(e) => queue.state[t] = Waiting(e)
    BY <1>4, <2>3, Zenon
  <2>5. At(place).at \notin {"look", "wait"}
    BY <1>3, <2>2, Zenon
  <2> QED
    BY <1>5, <2>2, <2>3, <2>4, <2>5, Zenon
<1>9. CASE \E t \in TaskIds : WakeTask(c, t)
  <2>1. PICK u \in TaskIds : WakeTask(c, u)
    BY <1>9, Zenon
  <2>2. queue' = Wake(queue, u) /\ pc' = [pc EXCEPT ![c] = At("run")]
    BY <2>1, Zenon DEF WakeTask
  <2>3. /\ SameTasks(queue, queue') /\ queue'.generation = queue.generation
        /\ queue'.intrPending = queue.intrPending
        /\ \A t \in TaskIds :
             queue'.state[t] = IF t = u /\ queue.state[t] = Blocked THEN Ready ELSE queue.state[t]
    BY <1>2, <2>2, WakeIs
  <2>4. \A t \in TaskIds, e \in Events : queue'.state[t] = Waiting(e) => queue.state[t] = Waiting(e)
    BY <1>4, <2>3, Zenon
  <2>5. At("run").at \notin {"look", "wait"}
    BY <1>3
  <2>6. \A t \in TaskIds : queue.intrPending[t] => queue'.intrPending[t]
    BY <2>3, Zenon
  <2> QED
    BY <1>5, <2>2, <2>3, <2>4, <2>5, <2>6, Zenon
<1> QED
  BY <1>6, <1>7, <1>8, <1>9, Zenon

\* Steps that leave the run queue alone, and go on to neither look nor wait.
LEMMA PlainWake ==
  ASSUME TypeInv, TypeInv', StackInv, StackInv', WakeInv, NEW c \in Cores, Executing(c),
         NEW p, pc' = [pc EXCEPT ![c] = p], context' = context, queue' = queue,
         pc[c].at \notin {"notify", "kill"}, p.at \notin {"look", "wait"},
         \A e \in Events : cond'[e] => cond[e] \/ p = AtWith("notify", e, 0),
         \A t \in TaskIds : killed'[t] => killed[t]
  PROVE  WakeInv'
<1>1. PICK me \in TaskIds : me = queue.current[c]
  BY MeIsTask, Zenon
<1>2. queue'.current = queue.current /\ queue'.generation = queue.generation
  BY Zenon
<1>3. Sees(c, me, p)
  BY Zenon DEF Sees
<1>4. \A t \in TaskIds, e \in Events : queue'.state[t] = Waiting(e) =>
           \/ queue.state[t] = Waiting(e)
           \/ /\ t = me /\ pc[c].at = "wait" /\ pc[c].arg = e /\ pc[c].n = queue.generation[e]
              /\ ~queue.intrPending[t]
  BY Zenon
<1>5. \A t \in TaskIds : queue.intrPending[t] => queue'.intrPending[t] \/ (t = me /\ p.at # "wait")
  BY Zenon
<1>6. MovesOn(c, me, p)
  BY <1>1, <1>2, <1>3, <1>4, <1>5, Zenon DEF MovesOn
<1> QED
  BY <1>6, MoveWake, Zenon

\* Those that move the code of a core on, within a system call, no_preempt, exit or wait_until.
LEMMA MovesWake ==
  ASSUME TypeInv, TypeInv', StackInv, StackInv', WakeInv, NEW c \in Cores,
         \/ Syscall(c) \/ SyscallDone(c) \/ ReturnToUser(c) \/ UserExit(c)
         \/ NoPreemptBegin(c) \/ NoPreemptCount(c) \/ NoPreemptEnd(c)
         \/ ExitRemove(c) \/ ExitLeave(c) \/ ExitDrop(c)
         \/ LookReady(c) \/ (\E e \in Events : Post(c, e))
  PROVE  WakeInv'
<1> USE DEF IsAt, May, Move, Go
<1>1. /\ Executing(c) /\ context' = context /\ queue' = queue
      /\ pc[c].at \in {"user", "run", "ret", "np", "npEnd", "exit", "leave", "drop", "look"}
  BY Zenon DEF Syscall, SyscallDone, ReturnToUser, UserExit, NoPreemptBegin, NoPreemptCount,
         NoPreemptEnd, LookReady, Post, ExitRemove, ExitLeave, ExitDrop
<1>2. pc[c].at \notin {"notify", "kill"} /\ GoodPosition(pc[c])
  BY <1>1, Zenon DEF TypeInv
<1>3. \A place, e, n : AtWith(place, e, n).at = place /\ At(place).at = place
  BY Zenon DEF At, AtWith
<1>4. \A t \in TaskIds : killed'[t] => killed[t]
  <2>1. CASE ExitRemove(c)
    <3>1. killed' = [killed EXCEPT ![Me(c)] = FALSE] /\ killed \in [TaskIds -> BOOLEAN]
      BY <2>1, Zenon DEF ExitRemove, TypeInv, TypeOK
    <3> QED
      BY <3>1, Zenon
  <2>2. CASE ~ExitRemove(c)
    <3>1. killed' = killed
      BY <2>2, Zenon DEF Syscall, SyscallDone, ReturnToUser, UserExit, NoPreemptBegin,
         NoPreemptCount, NoPreemptEnd, LookReady, Post, ExitLeave, ExitDrop, programVars
    <3> QED
      BY <3>1, Zenon
  <2> QED
    BY <2>1, <2>2, Zenon
<1>5. ASSUME NEW p, pc' = [pc EXCEPT ![c] = p], p.at \notin {"look", "wait"},
             \A e \in Events : cond'[e] => cond[e] \/ p = AtWith("notify", e, 0)
      PROVE  WakeInv'
  BY <1>1, <1>2, <1>4, <1>5, PlainWake, Zenon
<1>6. CASE \/ Syscall(c) \/ SyscallDone(c) \/ ReturnToUser(c) \/ UserExit(c)
           \/ ExitRemove(c) \/ ExitLeave(c) \/ ExitDrop(c)
  <2>1. cond' = cond
    BY <1>6, Zenon DEF Syscall, SyscallDone, ReturnToUser, UserExit, ExitRemove, ExitLeave, ExitDrop
  <2>2. \A e \in Events : \A p : cond'[e] => cond[e] \/ p = AtWith("notify", e, 0)
    BY <2>1, Zenon
  <2>3. \E place \in {"run", "exit", "ret", "user", "leave", "panic", "drop", "finish"} :
          pc' = [pc EXCEPT ![c] = At(place)]
    <3>1. CASE SyscallDone(c)
      <4>1. PICK place : place = IF killed[Me(c)] THEN "exit" ELSE "ret"
        BY Zenon
      <4>2. pc' = [pc EXCEPT ![c] = At(place)]
        BY <3>1, <4>1, Zenon DEF SyscallDone
      <4> QED
        BY <4>1, <4>2, Zenon
    <3>2. CASE ExitRemove(c)
      <4>1. PICK place : place = IF Me(c) \in processes THEN "leave" ELSE "panic"
        BY Zenon
      <4>2. pc' = [pc EXCEPT ![c] = At(place)]
        BY <3>2, <4>1, Zenon DEF ExitRemove
      <4> QED
        BY <4>1, <4>2, Zenon
    <3>3. CASE Syscall(c) \/ ReturnToUser(c) \/ UserExit(c) \/ ExitLeave(c) \/ ExitDrop(c)
      BY <3>3, Zenon DEF Syscall, ReturnToUser, UserExit, ExitLeave, ExitDrop
    <3> QED
      BY <1>6, <3>1, <3>2, <3>3, Zenon
  <2>4. PICK place \in {"run", "exit", "ret", "user", "leave", "panic", "drop", "finish"} :
          pc' = [pc EXCEPT ![c] = At(place)]
    BY <2>3, Zenon
  <2>5. At(place).at \notin {"look", "wait"}
    BY <1>3, <2>4, Zenon
  <2> QED
    BY <1>5, <2>2, <2>4, <2>5, Zenon
<1>7. CASE NoPreemptBegin(c) \/ NoPreemptCount(c) \/ NoPreemptEnd(c)
  <2>1. cond' = cond
    BY <1>7, Zenon DEF NoPreemptBegin, NoPreemptCount, NoPreemptEnd
  <2>2. \A e \in Events : \A p : cond'[e] => cond[e] \/ p = AtWith("notify", e, 0)
    BY <2>1, Zenon
  <2>3. \A core, n : Inside(core, n).at \in {"run", "np"}
    BY <1>3, Zenon DEF Inside
  <2>4. CASE NoPreemptBegin(c)
    <3>1. pc' = [pc EXCEPT ![c] = AtWith("np", c, pc[c].n + 1)]
      BY <2>4, Zenon DEF NoPreemptBegin
    <3>2. AtWith("np", c, pc[c].n + 1).at \notin {"look", "wait"}
      BY <1>3
    <3> QED
      BY <1>5, <2>2, <3>1, <3>2, Zenon
  <2>5. CASE NoPreemptCount(c)
    <3>1. PICK p : p = IF PREEMPT_DISABLED[pc[c].arg] - 1 = 0
                       THEN AtWith("npEnd", pc[c].arg, pc[c].n - 1) ELSE Inside(pc[c].arg, pc[c].n - 1)
      BY Zenon
    <3>2. pc' = [pc EXCEPT ![c] = p]
      BY <2>5, <3>1, Zenon DEF NoPreemptCount
    <3>3. p.at \notin {"look", "wait"}
      <4> HIDE DEF Go
      <4> QED
        BY <1>3, <2>3, <3>1, Zenon
    <3> QED
      BY <1>5, <2>2, <3>2, <3>3, Zenon
  <2>6. CASE NoPreemptEnd(c)
    <3>1. PICK p : p = IF SWITCH_PENDING[pc[c].arg] THEN At("svc") ELSE Inside(pc[c].arg, pc[c].n)
      BY Zenon
    <3>2. pc' = [pc EXCEPT ![c] = p]
      BY <2>6, <3>1, Zenon DEF NoPreemptEnd
    <3>3. p = At("svc") \/ p = Inside(pc[c].arg, pc[c].n)
      BY <3>1, Zenon
    <3>4. p.at \notin {"look", "wait"}
      BY <1>3, <2>3, <3>3
    <3> QED
      BY <1>5, <2>2, <3>2, <3>4, Zenon
  <2> QED
    BY <1>7, <2>4, <2>5, <2>6, Zenon
<1>8. CASE LookReady(c)
  <2>1. PICK left \in BOOLEAN : /\ cond' = [cond EXCEPT ![pc[c].arg] = @ /\ left]
                                /\ pc' = [pc EXCEPT ![c] = At("run")]
    BY <1>8, Zenon DEF LookReady
  <2>2. cond \in [Events -> BOOLEAN]
    BY Zenon DEF TypeInv, TypeOK
  <2>3. \A e \in Events : cond'[e] => cond[e] \/ At("run") = AtWith("notify", e, 0)
    BY <2>1, <2>2, Zenon
  <2>4. At("run").at \notin {"look", "wait"}
    BY <1>3
  <2> QED
    BY <1>5, <2>1, <2>3, <2>4, Zenon
<1>9. CASE \E e \in Events : Post(c, e)
  <2>1. PICK e \in Events : Post(c, e)
    BY <1>9, Zenon
  <2>2. cond' = [cond EXCEPT ![e] = TRUE] /\ pc' = [pc EXCEPT ![c] = AtWith("notify", e, 0)]
    BY <2>1, Zenon DEF Post
  <2>3. cond \in [Events -> BOOLEAN]
    BY Zenon DEF TypeInv, TypeOK
  <2>4. \A f \in Events : cond'[f] => cond[f] \/ AtWith("notify", e, 0) = AtWith("notify", f, 0)
    BY <2>2, <2>3, Zenon
  <2>5. AtWith("notify", e, 0).at \notin {"look", "wait"}
    BY <1>3
  <2> QED
    BY <1>5, <2>2, <2>4, <2>5, Zenon
<1> QED
  BY <1>6, <1>7, <1>8, <1>9, Zenon

\* wait_until finds nothing, and goes on to wait for the generation it saw.
LEMMA LookWake ==
  ASSUME TypeInv, TypeInv', StackInv, StackInv', WakeInv, NEW c \in Cores, LookNotReady(c)
  PROVE  WakeInv'
<1> USE DEF IsAt, CallQueue, Go
<1>1. /\ Executing(c) /\ pc[c].at = "look" /\ ~cond[pc[c].arg] /\ ~killed[queue.current[c]]
      /\ queue' = queue /\ context' = context /\ cond' = cond /\ killed' = killed
      /\ pc' = [pc EXCEPT ![c] = AtWith("wait", pc[c].arg, pc[c].n)]
  BY Zenon DEF LookNotReady, Me, programVars
<1>2. PICK me \in TaskIds : me = queue.current[c]
  BY <1>1, MeIsTask, Zenon
<1>3. PICK p : p = AtWith("wait", pc[c].arg, pc[c].n)
  BY Zenon
<1>4. p.at = "wait" /\ p.arg = pc[c].arg /\ p.n = pc[c].n
  BY <1>3, Zenon DEF AtWith
<1>5. ~cond'[p.arg] /\ ~killed'[me]
  BY <1>1, <1>2, <1>4, Zenon
<1>6. Sees(c, me, p)
  BY <1>1, <1>4, <1>5, Zenon DEF Sees
<1>7. \A t \in TaskIds, e \in Events : queue'.state[t] = Waiting(e) =>
           \/ queue.state[t] = Waiting(e)
           \/ /\ t = me /\ pc[c].at = "wait" /\ pc[c].arg = e /\ pc[c].n = queue.generation[e]
              /\ ~queue.intrPending[t]
  BY <1>1, Zenon
<1>8. /\ \A t \in TaskIds : queue.intrPending[t] => queue'.intrPending[t] \/ (t = me /\ p.at # "wait")
      /\ \A e \in Events : cond'[e] => cond[e] \/ p = AtWith("notify", e, 0)
      /\ \A t \in TaskIds : killed'[t] => killed[t]
  BY <1>1, Zenon
<1>9. /\ pc[c].at \notin {"notify", "kill"} /\ queue'.current = queue.current
      /\ queue'.generation = queue.generation /\ pc' = [pc EXCEPT ![c] = p] /\ context' = context
  BY <1>1, <1>3, Zenon
<1>10. MovesOn(c, me, p)
  BY <1>2, <1>6, <1>7, <1>8, <1>9, Zenon DEF MovesOn
<1> QED
  BY <1>10, MoveWake, Zenon

\* wait_current: the task waits if the event's generation is the one it saw and no interrupt is due.
LEMMA WaitWake ==
  ASSUME TypeInv, TypeInv', StackInv, StackInv', WakeInv, NEW c \in Cores, WaitForEvent(c)
  PROVE  WakeInv'
<1> USE DEF IsAt, CallQueue, Go
<1>1. /\ Executing(c) /\ pc[c].at = "wait" /\ context' = context /\ cond' = cond /\ killed' = killed
      /\ queue' = WaitCurrent(queue, c, pc[c].arg, pc[c].n)
      /\ pc' = [pc EXCEPT ![c] = AtWith("svcTop", pc[c].arg, 0)]
  BY Zenon DEF WaitForEvent, programVars
<1>2. queue \in Queue /\ queue.current[c] \in TaskIds
  BY <1>1, MeIsTask, Zenon
<1>3. PICK me \in TaskIds : me = queue.current[c]
  BY <1>2, Zenon
<1>4. PICK p : p = AtWith("svcTop", pc[c].arg, 0)
  BY Zenon
<1>5. p.at = "svcTop"
  BY <1>4, Zenon DEF AtWith
<1>6. PICK st : st = IF queue.generation[pc[c].arg] = pc[c].n THEN Waiting(pc[c].arg) ELSE queue.state[me]
  BY Zenon
<1>7. queue' = TakeInterrupt(queue, c, st)
  BY <1>1, <1>3, <1>6, Zenon DEF WaitCurrent
<1>8. /\ SameTasks(queue, queue') /\ queue'.generation = queue.generation
      /\ \A t \in TaskIds : queue'.state[t] = IF t = me /\ ~queue.intrPending[t]
                                              THEN st ELSE queue.state[t]
      /\ \A t \in TaskIds : t # me => queue'.intrPending[t] = queue.intrPending[t]
  BY <1>2, <1>3, <1>7, TakeInterruptIs
<1>9. \A t \in TaskIds, e \in Events : queue'.state[t] = Waiting(e) =>
           \/ queue.state[t] = Waiting(e)
           \/ /\ t = me /\ pc[c].at = "wait" /\ pc[c].arg = e /\ pc[c].n = queue.generation[e]
              /\ ~queue.intrPending[t]
  <2> SUFFICES ASSUME NEW t \in TaskIds, NEW e \in Events, queue'.state[t] = Waiting(e),
                      queue.state[t] # Waiting(e)
               PROVE  /\ t = me /\ pc[c].at = "wait" /\ pc[c].arg = e /\ pc[c].n = queue.generation[e]
                      /\ ~queue.intrPending[t]
    BY Zenon
  <2>1. t = me /\ ~queue.intrPending[t] /\ queue'.state[t] = st
    BY <1>8, Zenon
  <2>2. st = Waiting(pc[c].arg) /\ queue.generation[pc[c].arg] = pc[c].n
    BY <1>6, <2>1, Zenon
  <2>3. pc[c].arg = e
    BY <2>1, <2>2 DEF Waiting
  <2> QED
    BY <1>1, <2>1, <2>2, <2>3, Zenon
<1>10. /\ \A t \in TaskIds : queue.intrPending[t] => queue'.intrPending[t] \/ (t = me /\ p.at # "wait")
       /\ \A e \in Events : cond'[e] => cond[e] \/ p = AtWith("notify", e, 0)
       /\ \A t \in TaskIds : killed'[t] => killed[t]
  <2>1. p.at # "wait"
    BY <1>5, Zenon
  <2> QED
    BY <1>1, <1>8, <2>1, Zenon
<1>11. /\ pc[c].at \notin {"notify", "kill"} /\ queue'.current = queue.current
       /\ queue'.generation = queue.generation /\ pc' = [pc EXCEPT ![c] = p] /\ context' = context
  BY <1>1, <1>4, <1>8, Zenon DEF SameTasks
<1>12. Sees(c, me, p)
  BY <1>5, Zenon DEF Sees
<1>13. MovesOn(c, me, p)
  BY <1>3, <1>9, <1>10, <1>11, <1>12, Zenon DEF MovesOn
<1> QED
  BY <1>13, MoveWake, Zenon

\* notify: the event's generation is raised, and no one is left waiting for it.
LEMMA NotifyWake ==
  ASSUME TypeInv, TypeInv', StackInv, StackInv', WakeInv, NEW c \in Cores, NotifyEvent(c)
  PROVE  WakeInv'
<1> USE DEF IsAt, CallQueue, Go
<1>1. /\ Executing(c) /\ pc[c].at = "notify" /\ context' = context /\ cond' = cond /\ killed' = killed
      /\ queue' = Notify(queue, pc[c].arg) /\ pc' = [pc EXCEPT ![c] = At("run")]
  BY Zenon DEF NotifyEvent, programVars
<1>2. queue \in Queue /\ queue.current[c] \in TaskIds /\ GoodPosition(pc[c])
  BY <1>1, MeIsTask, Zenon
<1>3. PICK me \in TaskIds : me = queue.current[c]
  BY <1>2, Zenon
<1>4. PICK e \in Events : e = pc[c].arg
  BY <1>1, <1>2, Zenon DEF GoodPosition
<1>5. /\ SameTasks(queue, queue') /\ queue'.intrPending = queue.intrPending
      /\ \A f \in Events : queue'.generation[f] = IF f = e THEN queue.generation[f] + 1
                                                           ELSE queue.generation[f]
      /\ \A t \in TaskIds : queue'.state[t] = IF queue.state[t] = Waiting(e) THEN Ready ELSE queue.state[t]
  BY <1>1, <1>2, <1>4, NotifyIs
<1>6. /\ queue'.current = queue.current /\ At("run").at = "run"
      /\ \A f \in Events : Ready # Waiting(f)
      /\ \A f \in Events : queue.generation[f] \in Nat
      /\ \A place, a, n : AtWith(place, a, n).at = place /\ AtWith(place, a, n).arg = a
  BY <1>2, <1>5, Zenon DEF SameTasks, At, AtWith, Ready, Waiting, Queue
<1>7. /\ Where(me) = pc[c] /\ Where(me)' = At("run")
      /\ \A t \in TaskIds : t # me => Where(t)' = Where(t)
  BY <1>1, <1>3, <1>6, WhereMoves, Zenon
<1>8. \A f \in Events : f # e /\ Notified(f) => Notified(f)'
  <2> SUFFICES ASSUME NEW f \in Events, f # e, NEW u \in TaskIds, Where(u) = AtWith("notify", f, 0)
               PROVE  Notified(f)'
    BY Zenon DEF Notified
  <2>1. u # me
    BY <1>4, <1>6, <1>7
  <2> QED
    BY <1>7, <2>1, Zenon DEF Notified
<1>9. \A t \in TaskIds : BeingKilled(t) => BeingKilled(t)'
  <2> SUFFICES ASSUME NEW t \in TaskIds, NEW d \in Cores, pc[d] = AtWith("kill", t, 0)
               PROVE  BeingKilled(t)'
    BY Zenon DEF BeingKilled
  <2>1. d # c
    BY <1>1, <1>6
  <2>2. pc'[d] = AtWith("kill", t, 0)
    BY <1>1, <2>1, Zenon DEF TypeInv, TypeOK
  <2> QED
    BY <2>2, Zenon DEF BeingKilled
<1>10. ASSUME NEW f \in Events
       PROVE  \/ /\ queue.generation[f] < queue'.generation[f]
                 /\ \A t \in TaskIds : queue'.state[t] # Waiting(f)
              \/ /\ queue.generation[f] <= queue'.generation[f]
                 /\ cond'[f] => cond[f] \/ Notified(f)'
                 /\ Notified(f) => Notified(f)'
  <2>1. CASE f = e
    <3>1. queue.generation[f] < queue'.generation[f]
      BY <1>5, <1>6, <2>1
    <3>2. \A t \in TaskIds : queue'.state[t] # Waiting(f)
      BY <1>5, <1>6, <2>1, Zenon
    <3> QED
      BY <3>1, <3>2, Zenon
  <2>2. CASE f # e
    <3>1. queue.generation[f] <= queue'.generation[f]
      BY <1>5, <1>6, <2>2
    <3> QED
      BY <1>1, <1>8, <2>2, <3>1, Zenon
  <2> QED
    BY <2>1, <2>2, Zenon
<1>11. \A t \in TaskIds, f \in Events : queue'.state[t] = Waiting(f) => queue.state[t] = Waiting(f)
  BY <1>5, <1>6, Zenon
<1>12. \A t \in TaskIds : \/ Where(t)' = Where(t)
                          \/ Where(t)'.at \notin {"look", "wait"}
  <2>1. Where(me)'.at \notin {"look", "wait"}
    BY <1>6, <1>7, Zenon
  <2> QED
    BY <1>7, <2>1, Zenon
<1>13. KeepsWakeups
  BY <1>1, <1>5, <1>9, <1>10, <1>11, <1>12, Zenon DEF KeepsWakeups
<1> QED
  BY <1>13, KeepsWake, Zenon

\* Steps that leave the tasks, their code and what they wait for alone.
LEMMA QuietWake ==
  ASSUME WakeInv, UNCHANGED <<queue, context, pc, cond, killed>>
  PROVE  WakeInv'
<1>1. queue' = queue /\ pc' = pc /\ cond' = cond /\ killed' = killed
  BY Zenon
<1>2. \A t \in TaskIds : Where(t)' = Where(t)
  BY Zenon DEF Where, IsCurrent
<1>3. /\ \A t \in TaskIds : BeingKilled(t)' <=> BeingKilled(t)
      /\ \A e : Notified(e)' <=> Notified(e)
  BY <1>1, <1>2, Zenon DEF BeingKilled, Notified
<1>4. NoLostWakeup'
  BY <1>1, <1>2, <1>3, Zenon DEF WakeInv, NoLostWakeup, Notified, BeingKilled
<1>5. \A t \in TaskIds : Alert(t)'
  BY <1>1, <1>2, <1>3, Zenon DEF WakeInv, Alert
<1> QED
  BY <1>4, <1>5, Zenon DEF WakeInv
-----------------------------------------------------------------------------
(* Time, spawn and kill.                                                   *)

\* Whoever is about to notify still is, when none of them moves.
LEMMA NotifiedStays ==
  ASSUME \A t \in TaskIds : Where(t).at = "notify" => Where(t)' = Where(t)
  PROVE  \A e \in Events : Notified(e) => Notified(e)'
<1> SUFFICES ASSUME NEW e \in Events, NEW u \in TaskIds, Where(u) = AtWith("notify", e, 0)
             PROVE  Notified(e)'
  BY Zenon DEF Notified
<1>1. Where(u).at = "notify"
  BY DEF AtWith
<1> QED
  BY <1>1, Zenon DEF Notified

\* And a killer about to interrupt.
LEMMA KillStays ==
  ASSUME \A d \in Cores : pc[d].at = "kill" => pc'[d] = pc[d]
  PROVE  \A t \in TaskIds : BeingKilled(t) => BeingKilled(t)'
<1> SUFFICES ASSUME NEW t \in TaskIds, NEW d \in Cores, pc[d] = AtWith("kill", t, 0)
             PROVE  BeingKilled(t)'
  BY Zenon DEF BeingKilled
<1>1. pc[d].at = "kill"
  BY DEF AtWith
<1> QED
  BY <1>1, Zenon DEF BeingKilled

\* Time passes: no one waits longer or less for an event.
LEMMA ElapseWake ==
  ASSUME TypeInv, TypeInv', WakeInv, Elapse
  PROVE  WakeInv'
<1>1. /\ queue'.state = [t \in TaskIds |->
                           IF queue.state[t].is = "Sleeping" /\ queue.state[t].of > 0
                           THEN Sleeping(queue.state[t].of - 1) ELSE queue.state[t]]
      /\ queue'.current = queue.current /\ queue'.generation = queue.generation
      /\ queue'.intrPending = queue.intrPending
      /\ pc' = pc /\ context' = context /\ killed' = killed /\ cond' = cond
  BY Zenon DEF Elapse, TypeInv, TypeOK, Queue, programVars
<1>2. \A t \in TaskIds, e \in Events : queue'.state[t] = Waiting(e) => queue.state[t] = Waiting(e)
  BY <1>1 DEF Sleeping, Waiting
<1>3. \A t \in TaskIds : Where(t)' = Where(t)
  BY <1>1, Zenon DEF Where, IsCurrent
<1>4. /\ \A e \in Events : Notified(e) => Notified(e)'
      /\ \A t \in TaskIds : BeingKilled(t) => BeingKilled(t)'
  BY <1>1, <1>3, NotifiedStays, KillStays, Zenon
<1>5. \A e \in Events : queue.generation[e] <= queue'.generation[e]
  BY <1>1 DEF TypeInv, TypeOK, Queue
<1>6. KeepsWakeups
  BY <1>1, <1>2, <1>3, <1>4, <1>5, Zenon DEF KeepsWakeups
<1> QED
  BY <1>6, KeepsWake, Zenon

\* spawn: the new task had no code yet, and starts with its own.
LEMMA SpawnWake ==
  ASSUME TypeInv, TypeInv', StackInv, StackInv', LifeInv, WakeInv, NEW c \in Cores,
         NEW isProgram \in BOOLEAN, Spawn(c, isProgram)
  PROVE  WakeInv'
<1>1. /\ queue.len < MaxTasks /\ queue' = Add(queue) /\ pc' = pc /\ cond' = cond /\ killed' = killed
  BY Zenon DEF Spawn
<1>2. queue \in Queue /\ queue.len \in TaskIds /\ queue.state[queue.len].is = "Gone"
  BY <1>1, NewIdIsFree, Zenon
<1>3. PICK n \in TaskIds : n = queue.len
  BY <1>2, Zenon
<1>4. /\ queue'.generation = queue.generation /\ queue'.intrPending = queue.intrPending
      /\ \A t \in TaskIds : queue'.state[t] = IF t = n THEN Ready ELSE queue.state[t]
  BY <1>1, <1>2, <1>3, AddIs
<1>5. /\ Where(n)' = At(IF isProgram THEN "user" ELSE "run")
      /\ \A t \in TaskIds : t # n => Where(t)' = Where(t)
  BY <1>3, SpawnWhere, Zenon
<1>6. Where(n)'.at \notin {"look", "wait"}
  BY <1>5 DEF At
<1>7. Where(n).at = "null"
  <2>1. Fits("Gone", Stage(n), Where(n).at)
    BY <1>2, <1>3, Zenon DEF LifeInv
  <2> QED
    BY <2>1, Zenon DEF Fits, StatesAt, StopStates
<1>8. /\ \A e \in Events : Notified(e) => Notified(e)'
      /\ \A t \in TaskIds : BeingKilled(t) => BeingKilled(t)'
  <2>1. \A t \in TaskIds : Where(t).at = "notify" => Where(t)' = Where(t)
    BY <1>5, <1>7, Zenon
  <2> QED
    BY <1>1, <2>1, NotifiedStays, KillStays, Zenon
<1>9. \A t \in TaskIds, e \in Events : queue'.state[t] = Waiting(e) => queue.state[t] = Waiting(e)
  BY <1>4 DEF Ready, Waiting
<1>10. \A e \in Events : queue.generation[e] <= queue'.generation[e]
  BY <1>2, <1>4 DEF Queue
<1>11. \A t \in TaskIds : Where(t)' = Where(t) \/ Where(t)'.at \notin {"look", "wait"}
  BY <1>5, <1>6, Zenon
<1>12. KeepsWakeups
  BY <1>1, <1>4, <1>8, <1>9, <1>10, <1>11, Zenon DEF KeepsWakeups
<1> QED
  BY <1>12, KeepsWake, Zenon

\* start_core: the core's idle task had no code yet either.
LEMMA StartSecondaryWake ==
  ASSUME TypeInv, TypeInv', StackInv, StackInv', LifeInv, WakeInv, NEW c \in Cores, StartSecondary(c)
  PROVE  WakeInv'
<1>1. /\ queue.len < MaxTasks /\ queue' = StartCore(queue, c) /\ cond' = cond /\ killed' = killed
      /\ pc[c].at = "null"
  BY Zenon DEF StartSecondary, programVars
<1>2. queue \in Queue /\ queue.len \in TaskIds /\ queue.state[queue.len].is = "Gone"
  BY <1>1, NewIdIsFree, Zenon
<1>3. PICK n \in TaskIds : n = queue.len
  BY <1>2, Zenon
<1>4. /\ queue'.generation = queue.generation /\ queue'.intrPending = queue.intrPending
      /\ \A t \in TaskIds : queue'.state[t] = IF t = n THEN Running ELSE queue.state[t]
  BY <1>1, <1>2, <1>3, StartCoreIs
<1>5. /\ Where(n)' = At("idle") /\ \A t \in TaskIds : t # n => Where(t)' = Where(t)
      /\ \A d \in Cores : pc'[d] = IF d = c THEN At("idle") ELSE pc[d]
  BY <1>3, StartWhere, Zenon
<1>6. Where(n)'.at \notin {"look", "wait"}
  BY <1>5 DEF At
<1>7. Where(n).at = "null"
  <2>1. Fits("Gone", Stage(n), Where(n).at)
    BY <1>2, <1>3, Zenon DEF LifeInv
  <2> QED
    BY <2>1, Zenon DEF Fits, StatesAt, StopStates
<1>8. /\ \A e \in Events : Notified(e) => Notified(e)'
      /\ \A t \in TaskIds : BeingKilled(t) => BeingKilled(t)'
  <2>1. \A t \in TaskIds : Where(t).at = "notify" => Where(t)' = Where(t)
    BY <1>5, <1>7, Zenon
  <2>2. \A d \in Cores : pc[d].at = "kill" => pc'[d] = pc[d]
    BY <1>1, <1>5, Zenon
  <2> QED
    BY <2>1, <2>2, NotifiedStays, KillStays, Zenon
<1>9. \A t \in TaskIds, e \in Events : queue'.state[t] = Waiting(e) => queue.state[t] = Waiting(e)
  BY <1>4 DEF Running, Waiting
<1>10. \A e \in Events : queue.generation[e] <= queue'.generation[e]
  BY <1>2, <1>4 DEF Queue
<1>11. \A t \in TaskIds : Where(t)' = Where(t) \/ Where(t)'.at \notin {"look", "wait"}
  BY <1>5, <1>6, Zenon
<1>12. KeepsWakeups
  BY <1>1, <1>4, <1>8, <1>9, <1>10, <1>11, Zenon DEF KeepsWakeups
<1> QED
  BY <1>12, KeepsWake, Zenon

\* kill: the program is sent to exit, or its killer is about to interrupt it.
LEMMA KillWake ==
  ASSUME TypeInv, TypeInv', StackInv, StackInv', LifeInv, WakeInv, NEW c \in Cores,
         NEW u \in TaskIds, Kill(c, u)
  PROVE  WakeInv'
<1>1. /\ Executing(c) /\ pc[c].at = "run" /\ queue' = queue /\ cond' = cond
      /\ killed' = [killed EXCEPT ![u] = TRUE] /\ killed \in [TaskIds -> BOOLEAN]
  BY Zenon DEF Kill, May, IsAt, TypeInv, TypeOK
<1>2. PICK me \in TaskIds : me = queue.current[c]
  BY <1>1, MeIsTask, Zenon
<1>3. /\ Where(me) = pc[c] /\ (Where(me)' = At("run") \/ Where(me)' = AtWith("kill", u, 0))
      /\ \A d \in Cores : pc'[d] = IF d = c THEN Where(me)' ELSE pc[d]
      /\ \A t \in TaskIds : t # me =>
           \/ Where(t)' = Where(t)
           \/ t = u /\ Where(t).at = "user" /\ Where(t)' = At("exit")
      /\ Where(me)' = At("run") => Where(u).at = "user"
  BY <1>2, KillWhere
<1>4. \A place, a, n : AtWith(place, a, n).at = place /\ At(place).at = place
  BY Zenon DEF At, AtWith
<1>5. /\ \A e \in Events : Notified(e) => Notified(e)'
      /\ \A t \in TaskIds : BeingKilled(t) => BeingKilled(t)'
  <2>1. \A t \in TaskIds : Where(t).at = "notify" => Where(t)' = Where(t)
    BY <1>1, <1>3, Zenon
  <2>2. \A d \in Cores : pc[d].at = "kill" => pc'[d] = pc[d]
    BY <1>1, <1>3, Zenon
  <2> QED
    BY <2>1, <2>2, NotifiedStays, KillStays, Zenon
<1>6. \A t \in TaskIds : Where(t)' = Where(t) \/ Where(t)'.at \notin {"look", "wait"}
  BY <1>3, <1>4
<1>7. \A e \in Events : queue.generation[e] <= queue'.generation[e]
  BY <1>1 DEF TypeInv, TypeOK, Queue
<1>8. ASSUME NEW t \in TaskIds
      PROVE  \/ queue'.state[t].is # "Waiting" /\ (Where(t)'.at = "wait" => queue'.intrPending[t])
             \/ /\ killed'[t] => killed[t] \/ BeingKilled(t)'
                /\ BeingKilled(t) => BeingKilled(t)'
                /\ queue.intrPending[t] => queue'.intrPending[t] \/ Where(t)'.at # "wait"
  <2>1. CASE t # u
    <3>1. killed'[t] = killed[t]
      BY <1>1, <2>1, Zenon
    <3> QED
      BY <1>1, <1>5, <3>1, Zenon
  <2>2. CASE Where(me)' = AtWith("kill", u, 0)
    <3>1. pc'[c] = AtWith("kill", u, 0)
      BY <1>3, <2>2, Zenon
    <3>2. BeingKilled(u)'
      BY <3>1, Zenon DEF BeingKilled
    <3>3. t = u => (queue.intrPending[t] => queue'.intrPending[t])
      BY <1>1, Zenon
    <3> QED
      BY <2>1, <3>2, <3>3, Zenon
  <2>3. CASE t = u /\ Where(me)' = At("run")
    <3>1. Where(t).at = "user"
      BY <1>3, <2>3, Zenon
    <3>2. Fits(queue.state[t].is, Stage(t), "user")
      BY <3>1, Zenon DEF LifeInv
    <3>3. queue'.state[t].is # "Waiting"
      BY <1>1, <3>2, Zenon DEF Fits, StatesAt
    <3>4. Where(t)'.at # "wait"
      BY <1>3, <1>4, <2>3, <3>1
    <3> QED
      BY <3>3, <3>4, Zenon
  <2> QED
    BY <1>3, <2>1, <2>2, <2>3, Zenon
<1>9. KeepsWakeups
  BY <1>1, <1>5, <1>6, <1>7, <1>8, Zenon DEF KeepsWakeups
<1> QED
  BY <1>9, KeepsWake, Zenon

\* sched::interrupt, at the end of kill: the program no longer waits, or will notice before it does.
LEMMA KillInterruptWake ==
  ASSUME TypeInv, TypeInv', StackInv, StackInv', LifeInv, WakeInv, NEW c \in Cores, KillInterrupt(c)
  PROVE  WakeInv'
<1>1. /\ Executing(c) /\ pc[c].at = "kill" /\ context' = context /\ cond' = cond /\ killed' = killed
      /\ queue' = Interrupt(queue, pc[c].arg) /\ pc' = [pc EXCEPT ![c] = At("run")]
  BY Zenon DEF KillInterrupt, IsAt, CallQueue, Go, programVars
<1>2. queue \in Queue /\ queue.current[c] \in TaskIds /\ GoodPosition(pc[c])
  BY <1>1, MeIsTask, Zenon
<1>3. PICK me \in TaskIds : me = queue.current[c]
  BY <1>2, Zenon
<1>4. PICK u \in TaskIds : u = pc[c].arg
  BY <1>1, <1>2, Zenon DEF GoodPosition
<1>5. /\ SameTasks(queue, queue') /\ queue'.generation = queue.generation
      /\ \A t \in TaskIds : queue'.state[t] = IF t = u /\ queue.state[t].is \in {"Sleeping", "Waiting"}
                                              THEN Ready ELSE queue.state[t]
      /\ \A t \in TaskIds : t # u => queue'.intrPending[t] = queue.intrPending[t]
      /\ queue.intrPending[u] \/ queue.state[u].is \in {"Running", "Ready"} => queue'.intrPending[u]
  BY <1>1, <1>2, <1>4, InterruptIs
<1>6. /\ queue'.current = queue.current /\ At("run").at = "run" /\ Ready.is = "Ready"
      /\ \A e : Waiting(e).is = "Waiting"
      /\ \A place, a, n : AtWith(place, a, n).at = place /\ AtWith(place, a, n).arg = a
  BY <1>5, Zenon DEF SameTasks, At, AtWith, Ready, Waiting
<1>7. /\ Where(me) = pc[c] /\ Where(me)' = At("run")
      /\ \A t \in TaskIds : t # me => Where(t)' = Where(t)
  BY <1>1, <1>3, <1>6, WhereMoves, Zenon
<1>8. \A e \in Events : Notified(e) => Notified(e)'
  <2>1. \A t \in TaskIds : Where(t).at = "notify" => Where(t)' = Where(t)
    BY <1>1, <1>7, Zenon
  <2> QED
    BY <2>1, NotifiedStays, Zenon
<1>9. \A t \in TaskIds : t # u /\ BeingKilled(t) => BeingKilled(t)'
  <2> SUFFICES ASSUME NEW t \in TaskIds, t # u, NEW d \in Cores, pc[d] = AtWith("kill", t, 0)
               PROVE  BeingKilled(t)'
    BY Zenon DEF BeingKilled
  <2>1. d # c
    BY <1>4, <1>6
  <2>2. pc'[d] = AtWith("kill", t, 0)
    BY <1>1, <2>1, Zenon DEF TypeInv, TypeOK
  <2> QED
    BY <2>2, Zenon DEF BeingKilled
<1>10. queue'.state[u].is # "Waiting" /\ (Where(u)'.at = "wait" => queue'.intrPending[u])
  <2>1. queue'.state[u].is # "Waiting"
    BY <1>5, <1>6, Zenon
  <2>2. ASSUME Where(u)'.at = "wait" PROVE queue'.intrPending[u]
    <3>1. Where(u).at = "wait"
      BY <1>6, <1>7, <2>2, Zenon
    <3>2. Fits(queue.state[u].is, Stage(u), "wait")
      BY <3>1, Zenon DEF LifeInv
    <3>3. queue.state[u].is \in {"Running", "Ready"}
      BY <3>2, Zenon DEF Fits, StatesAt
    <3> QED
      BY <1>5, <3>3, Zenon
  <2> QED
    BY <2>1, <2>2, Zenon
<1>11. ASSUME NEW t \in TaskIds
       PROVE  \/ queue'.state[t].is # "Waiting" /\ (Where(t)'.at = "wait" => queue'.intrPending[t])
              \/ /\ killed'[t] => killed[t] \/ BeingKilled(t)'
                 /\ BeingKilled(t) => BeingKilled(t)'
                 /\ queue.intrPending[t] => queue'.intrPending[t] \/ Where(t)'.at # "wait"
  BY <1>1, <1>5, <1>9, <1>10, Zenon
<1>12. \A t \in TaskIds, e \in Events : queue'.state[t] = Waiting(e) => queue.state[t] = Waiting(e)
  BY <1>5, <1>6
<1>13. \A t \in TaskIds : Where(t)' = Where(t) \/ Where(t)'.at \notin {"look", "wait"}
  <2>1. Where(me)'.at \notin {"look", "wait"}
    BY <1>6, <1>7, Zenon
  <2> QED
    BY <1>7, <2>1, Zenon
<1>14. \A e \in Events : queue.generation[e] <= queue'.generation[e]
  BY <1>2, <1>5 DEF Queue
<1>15. KeepsWakeups
  BY <1>1, <1>8, <1>11, <1>12, <1>13, <1>14, Zenon DEF KeepsWakeups
<1> QED
  BY <1>15, KeepsWake, Zenon

\* What an interrupt does before it switches, if it does: it may notify the UART's event.
\* Then a switch puts the code of one task away as it is, or past its svc, and takes up another's.
LEMMA SwitchWake ==
  ASSUME TypeInv, TypeInv', StackInv, StackInv', LifeInv, WakeInv, NEW c \in Cores,
         queue.current[c] \in TaskIds, pc[c].at # "kill",
         NEW q, NEW uart \in BOOLEAN, Interrupted(q, FALSE, uart) \/ Interrupted(q, TRUE, uart),
         cond' = IF uart THEN [cond EXCEPT ![Uart] = TRUE] ELSE cond,
         NEW here, here = pc[c] \/ (here.at \notin {"look", "wait"} /\ pc[c].at # "notify"),
         NEW next, NEW reaped, Switched(c, q, here, next, reaped)
  PROVE  WakeInv'
<1>1. PICK me \in TaskIds : me = queue.current[c]
  BY Zenon
<1>2. /\ q.current = queue.current /\ q.intrPending = queue.intrPending
      /\ \A t \in TaskIds : \/ q.state[t] = queue.state[t]
                            \/ q.state[t] = Ready /\ queue.state[t].is \in {"Sleeping", "Waiting"}
      /\ \A e \in Events : queue.generation[e] <= q.generation[e]
      /\ uart => /\ Uart \in Events /\ queue.generation[Uart] < q.generation[Uart]
                 /\ \A t \in TaskIds : q.state[t] # Waiting(Uart)
  BY Zenon DEF Interrupted, SameTasks
<1>3. /\ queue'.generation = q.generation /\ killed' = killed /\ next \in TaskIds
      /\ reaped \subseteq TaskIds
      /\ \A t \in TaskIds : queue'.state[t] \in {Gone, Running, Ready, q.state[t]}
      /\ \A t \in reaped : q.state[t] = Finished
      /\ \A d \in Cores : d # c => pc'[d] = pc[d]
  <2>1. \A t \in TaskIds : queue'.state[t] \in {Gone, Running, Ready, q.state[t]}
    BY Zenon DEF Switched
  <2>2. \A d \in Cores : d # c => pc'[d] = pc[d]
    BY Zenon DEF Switched
  <2> QED
    BY <2>1, <2>2, Zenon DEF Switched
<1>4. \A t \in TaskIds : t \notin reaped /\ q.intrPending[t] => queue'.intrPending[t]
  BY Zenon DEF Switched
<1>5. /\ \A e : Gone # Waiting(e) /\ Running # Waiting(e) /\ Ready # Waiting(e)
      /\ Ready # Finished /\ Finished.is = "Finished"
      /\ \A place : At(place).at = place
  BY Zenon DEF Gone, Running, Ready, Finished, Waiting, At
<1>6. /\ Where(me) = pc[c]
      /\ \A t \in TaskIds :
           Where(t)' = IF t \in reaped THEN At("null")
                       ELSE IF t # me THEN Where(t)
                       ELSE IF Redirected(t, here) THEN At("exit") ELSE here
  BY <1>1, <1>2, WhereSwitches
<1>7. ASSUME NEW t \in reaped PROVE Where(t).at \in {"svcGone", "panic"}
  <2>1. t \in TaskIds /\ queue.state[t].is = "Finished"
    BY <1>2, <1>3, <1>5, Zenon
  <2>2. Fits("Finished", Stage(t), Where(t).at)
    BY <2>1, Zenon DEF LifeInv
  <2> QED
    BY <2>2, Zenon DEF Fits, StatesAt, StopStates
<1>8. \A t \in TaskIds : Where(t).at = "notify" => Where(t)' = Where(t)
  <2> SUFFICES ASSUME NEW t \in TaskIds, Where(t).at = "notify" PROVE Where(t)' = Where(t)
    BY Zenon
  <2>1. t \notin reaped
    BY <1>7, Zenon
  <2>2. CASE t # me
    BY <1>6, <2>1, <2>2, Zenon
  <2>3. CASE t = me
    <3>1. here = pc[c] /\ here.at = "notify"
      BY <1>6, <2>3, Zenon
    <3>2. ~Redirected(t, here)
      BY <3>1, Zenon DEF Redirected
    <3> QED
      BY <1>6, <2>1, <2>3, <3>1, <3>2, Zenon
  <2> QED
    BY <2>2, <2>3, Zenon
<1>9. /\ \A e \in Events : Notified(e) => Notified(e)'
      /\ \A t \in TaskIds : BeingKilled(t) => BeingKilled(t)'
  <2>1. \A d \in Cores : pc[d].at = "kill" => pc'[d] = pc[d]
    BY <1>3, Zenon
  <2> QED
    BY <1>8, <2>1, NotifiedStays, KillStays, Zenon
<1>10. \A t \in TaskIds : Where(t)' = Where(t) \/ Where(t)'.at \notin {"look", "wait"}
  <2> SUFFICES ASSUME NEW t \in TaskIds, Where(t)' # Where(t) PROVE Where(t)'.at \notin {"look", "wait"}
    BY Zenon
  <2>1. Where(t)' = At("null") \/ Where(t)' = At("exit") \/ (Where(t)' = here /\ t = me)
    BY <1>6, Zenon
  <2> QED
    BY <1>5, <1>6, <2>1, Zenon
<1>11. \A t \in TaskIds : queue.intrPending[t] => queue'.intrPending[t] \/ Where(t)'.at # "wait"
  <2> SUFFICES ASSUME NEW t \in TaskIds, queue.intrPending[t], t \in reaped PROVE Where(t)'.at # "wait"
    BY <1>2, <1>4, Zenon
  <2>1. Where(t)' = At("null")
    BY <1>6, Zenon
  <2> QED
    BY <1>5, <2>1, Zenon
<1>12. \A t \in TaskIds, e \in Events : queue'.state[t] = Waiting(e) => queue.state[t] = Waiting(e)
  BY <1>2, <1>3, <1>5
<1>13. ASSUME NEW e \in Events
       PROVE  \/ /\ queue.generation[e] < queue'.generation[e]
                 /\ \A t \in TaskIds : queue'.state[t] # Waiting(e)
              \/ /\ queue.generation[e] <= queue'.generation[e]
                 /\ cond'[e] => cond[e] \/ Notified(e)'
                 /\ Notified(e) => Notified(e)'
  <2>1. CASE uart /\ e = Uart
    <3>1. queue.generation[e] < queue'.generation[e]
      BY <1>2, <1>3, <2>1, Zenon
    <3>2. \A t \in TaskIds : queue'.state[t] # Waiting(e)
      BY <1>2, <1>3, <1>5, <2>1, Zenon
    <3> QED
      BY <3>1, <3>2, Zenon
  <2>2. CASE ~(uart /\ e = Uart)
    <3>1. cond'[e] = cond[e]
      BY <2>2, Zenon DEF TypeInv, TypeOK
    <3>2. queue.generation[e] <= queue'.generation[e]
      BY <1>2, <1>3, Zenon
    <3> QED
      BY <1>9, <3>1, <3>2, Zenon
  <2> QED
    BY <2>1, <2>2, Zenon
<1>14. KeepsWakeups
  BY <1>3, <1>9, <1>10, <1>11, <1>12, <1>13, Zenon DEF KeepsWakeups
<1> QED
  BY <1>14, KeepsWake, Zenon

\* on_yield: the code goes on after its svc.
LEMMA YieldWake ==
  ASSUME TypeInv, TypeInv', StackInv, StackInv', LifeInv, WakeInv, NEW c \in Cores, OnYield(c)
  PROVE  WakeInv'
<1>1. /\ Executing(c) /\ pc[c].at \in {"svc", "svcTop", "svcGone"}
      /\ Switch(c, queue, TRUE, AfterSvc(pc[c])) /\ cond' = cond
  BY Zenon DEF OnYield
<1>2. queue \in Queue /\ queue.current[c] \in TaskIds
  BY <1>1, MeIsTask, Zenon
<1>3. PICK next, reaped : Switched(c, queue, AfterSvc(pc[c]), next, reaped)
  BY <1>1, <1>2, SwitchIs, Zenon
<1>4. AfterSvc(pc[c]).at \notin {"look", "wait"} /\ pc[c].at # "notify" /\ pc[c].at # "kill"
  BY <1>1, Zenon DEF AfterSvc, At, AtWith
<1>5. Interrupted(queue, FALSE, FALSE)
  BY <1>2 DEF Interrupted, SameTasks, Queue
<1>6. cond' = IF FALSE THEN [cond EXCEPT ![Uart] = TRUE] ELSE cond
  BY <1>1, Zenon
<1> QED
  BY <1>2, <1>3, <1>4, <1>5, <1>6, SwitchWake, Zenon

\* on_irq: the code goes on where it was, now or when it runs again.
LEMMA IrqWake ==
  ASSUME TypeInv, TypeInv', StackInv, StackInv', LifeInv, WakeInv, NEW c \in Cores,
         NEW timer \in BOOLEAN, NEW uart \in BOOLEAN, OnIrq(c, timer, uart)
  PROVE  WakeInv'
<1>1. PICK q \in Queue :
        /\ queue.current[c] \in TaskIds /\ pc[c].at # "kill"
        /\ Interrupted(q, timer, uart)
        /\ cond' = IF uart THEN [cond EXCEPT ![Uart] = TRUE] ELSE cond
        /\ \/ queue' = q /\ UNCHANGED <<context, pc, killed>>
           \/ Switch(c, q, timer, pc[c])
  <2>1. PICK q \in Queue :
           /\ Executing(c) /\ queue.current[c] \in TaskIds /\ pc[c].at \notin {"kill", "panic"}
           /\ Interrupted(q, timer, uart)
           /\ cond' = IF uart THEN [cond EXCEPT ![Uart] = TRUE] ELSE cond
           /\ \/ /\ PREEMPT_DISABLED[c] > 0 /\ queue' = q
                 /\ UNCHANGED <<context, pc, LEAVING, programVars, fpVars>>
              \/ ~(PREEMPT_DISABLED[c] > 0) /\ Switch(c, q, timer, pc[c])
    BY IrqIs, Zenon
  <2> QED
    BY <2>1, Zenon DEF programVars
<1>2. Interrupted(q, FALSE, uart) \/ Interrupted(q, TRUE, uart)
  BY <1>1, Zenon
<1>3. CASE queue' = q /\ UNCHANGED <<context, pc, killed>>
  <2>1. /\ queue'.current = queue.current /\ queue'.intrPending = queue.intrPending
        /\ \A t \in TaskIds : \/ queue'.state[t] = queue.state[t]
                              \/ queue'.state[t] = Ready
        /\ \A e \in Events : queue.generation[e] <= queue'.generation[e]
        /\ uart => /\ Uart \in Events /\ queue.generation[Uart] < queue'.generation[Uart]
                   /\ \A t \in TaskIds : queue'.state[t] # Waiting(Uart)
    BY <1>1, <1>3, Zenon DEF Interrupted, SameTasks
  <2>2. \A t \in TaskIds : Where(t)' = Where(t)
    BY <1>3, <2>1, Zenon DEF Where, IsCurrent
  <2>3. /\ \A e \in Events : Notified(e) => Notified(e)'
        /\ \A t \in TaskIds : BeingKilled(t) => BeingKilled(t)'
    BY <1>3, <2>2, NotifiedStays, KillStays, Zenon
  <2>4. \A t \in TaskIds, e \in Events : queue'.state[t] = Waiting(e) => queue.state[t] = Waiting(e)
    BY <2>1 DEF Ready, Waiting
  <2>5. ASSUME NEW e \in Events
        PROVE  \/ /\ queue.generation[e] < queue'.generation[e]
                  /\ \A t \in TaskIds : queue'.state[t] # Waiting(e)
               \/ /\ queue.generation[e] <= queue'.generation[e]
                  /\ cond'[e] => cond[e] \/ Notified(e)'
                  /\ Notified(e) => Notified(e)'
    <3>1. CASE uart /\ e = Uart
      BY <2>1, <3>1, Zenon
    <3>2. CASE ~(uart /\ e = Uart)
      <4>1. cond'[e] = cond[e]
        BY <1>1, <3>2, Zenon DEF TypeInv, TypeOK
      <4> QED
        BY <2>1, <2>3, <4>1, Zenon
    <3> QED
      BY <3>1, <3>2, Zenon
  <2>6. KeepsWakeups
    BY <1>3, <2>1, <2>2, <2>3, <2>4, <2>5, Zenon DEF KeepsWakeups
  <2> QED
    BY <2>6, KeepsWake, Zenon
<1>4. CASE Switch(c, q, timer, pc[c])
  <2>1. q.current[c] \in TaskIds
    BY <1>1, Zenon DEF Interrupted, SameTasks
  <2>2. PICK next, reaped : Switched(c, q, pc[c], next, reaped)
    BY <1>4, <2>1, SwitchIs, Zenon
  <2> QED
    BY <1>1, <1>2, <2>2, SwitchWake, Zenon
<1> QED
  BY <1>1, <1>3, <1>4, Zenon

\* At the start no one waits, and nothing is waited for.
LEMMA InitWake == Init => WakeInv
<1> SUFFICES ASSUME Init PROVE WakeInv
  BY Zenon
<1>1. /\ \A e \in Events : cond[e] = FALSE
      /\ \A t \in TaskIds : killed[t] = FALSE
  BY Zenon DEF Init
<1>2. LifeInv
  BY InitLife, Zenon
<1>3. \A t \in TaskIds : queue.state[t].is # "Waiting" /\ Where(t).at \notin {"look", "wait"}
  <2>1. \A t \in TaskIds : queue.state[t] = IF t = 0 THEN Running ELSE IF t = 1 THEN Ready ELSE Gone
    BY InitQueueIs, Zenon
  <2>2. \A place : At(place).at = place
    BY Zenon DEF At
  <2>3. \A t \in TaskIds : \E place \in {"run", "idle", "null"} : Where(t) = At(place)
    <3>1. /\ \A t \in TaskIds : \E place \in {"run", "idle", "null"} : context[t] = At(place)
          /\ \A c \in Cores : \E place \in {"run", "idle", "null"} : pc[c] = At(place)
      BY Zenon DEF Init
    <3> SUFFICES ASSUME NEW t \in TaskIds
                 PROVE  \E place \in {"run", "idle", "null"} : Where(t) = At(place)
      BY Zenon
    <3>2. CASE IsCurrent(queue, t)
      <4> DEFINE d == CHOOSE c \in Cores : queue.current[c] = t
      <4>1. \E c \in Cores : queue.current[c] = t
        BY <3>2, Zenon DEF IsCurrent
      <4>2. d \in Cores
        BY <4>1, Zenon
      <4>3. Where(t) = pc[d]
        BY <3>2, Zenon DEF Where
      <4> QED
        BY <3>1, <4>2, <4>3, Zenon
    <3>3. CASE ~IsCurrent(queue, t)
      BY <3>1, <3>3, Zenon DEF Where
    <3> QED
      BY <3>2, <3>3, Zenon
  <2> QED
    BY <2>1, <2>2, <2>3 DEF Running, Ready, Gone
<1>4. \A t \in TaskIds : Alert(t)
  BY <1>3, Zenon DEF Alert
<1>5. NoLostWakeup
  <2>1. \A e : Waiting(e).is = "Waiting"
    BY Zenon DEF Waiting
  <2>2. \A t \in TaskIds, e \in Events : queue.state[t] # Waiting(e)
    BY <1>3, <2>1, Zenon
  <2> QED
    BY <2>2, Zenon DEF NoLostWakeup
<1> QED
  BY <1>4, <1>5, Zenon DEF WakeInv

\* Every step keeps the invariant.
LEMMA NextWake ==
  /\ TypeInv /\ StackInv /\ LifeInv /\ WakeInv /\ [Next]_vars
  /\ TypeInv' /\ StackInv'
  => WakeInv'
<1> SUFFICES ASSUME TypeInv, StackInv, LifeInv, WakeInv, [Next]_vars, TypeInv', StackInv'
             PROVE  WakeInv'
  BY Zenon
<1>1. ASSUME NEW c \in Cores, Step(c) PROVE WakeInv'
  <2>1. CASE FinishSwitch(c) \/ FpTrap(c) \/ \E v \in 0 .. FpVersions - 1 : FpInstruction(c, v)
    <3>1. UNCHANGED <<queue, context, pc, cond, killed>>
      BY <2>1, Zenon DEF FinishSwitch, FpTrap, FpInstruction, runVars, programVars
    <3> QED
      BY <3>1, QuietWake, Zenon
  <2>2. CASE KernelStep(c) /\ ~FinishSwitch(c)
    BY <2>2, YieldWake, CallWake, MovesWake, LookWake, WaitWake, NotifyWake, KillInterruptWake, Zenon
       DEF KernelStep
  <2>3. CASE TaskStep(c) /\ ~(FpTrap(c) \/ \E v \in 0 .. FpVersions - 1 : FpInstruction(c, v))
    BY <2>3, SpawnWake, CallWake, MovesWake, KillWake, Zenon DEF TaskStep
  <2>4. CASE StartSecondary(c)
    BY <2>4, StartSecondaryWake, Zenon
  <2>5. CASE \E timer, uart \in BOOLEAN : OnIrq(c, timer, uart)
    BY <2>5, IrqWake, Zenon
  <2> QED
    BY <1>1, <2>1, <2>2, <2>3, <2>4, <2>5, Zenon DEF Step
<1>2. CASE UNCHANGED vars
  BY <1>2, QuietWake, Zenon DEF vars, kernelVars, runVars, programVars
<1> QED
  BY <1>1, <1>2, ElapseWake, Zenon DEF Next

\* wait_until and kill lose no wake-up, as long as no core wakes a task another core still runs: a
\* task that waits for what already holds is about to be notified, and a killed program that waits
\* is about to be interrupted.
THEOREM WakeupsOrdered == OrderedSpec => []NoLostWakeup
<1>1. Init => WakeInv
  BY InitWake, Zenon
<1>2. WakeInv => NoLostWakeup
  BY Zenon DEF WakeInv
<1>3. OrderedNext => Next
  BY Zenon DEF OrderedNext, Next
<1> QED
  BY <1>1, <1>2, <1>3, LifeInvariant, NextWake, PTL DEF OrderedSpec

\* On one core nothing of this needs the condition: what the code does is safe.
THEOREM OneCoreIsSafe ==
  ASSUME Cores = {0}
  PROVE  Spec => [](ResumesSavedCode /\ OwnLiveSpace /\ NoLostWakeup)
<1>1. Next => OrderedNext
  BY Zenon DEF Next, OrderedNext
<1>2. Spec => OrderedSpec
  BY <1>1, PTL DEF Spec, OrderedSpec
<1> QED
  BY <1>2, ResumesOrdered, SpaceOrdered, WakeupsOrdered, PTL
=============================================================================
