-------------------------------- MODULE Sched --------------------------------
(***************************************************************************)
(* The kernel's scheduler (src/sched.rs): the cores, what each of them     *)
(* executes, and how they switch between tasks.  SCHEDULER is a spinlock   *)
(* that masks interrupts, so one hold of it is one atomic step; what       *)
(* happens between two holds is where other cores and interrupts come in.  *)
(*                                                                         *)
(* What a core executes is a position, pc[c]; a task that isn't running is *)
(* the position it was saved at, context[t].  Switching saves the one and  *)
(* loads the other, so a task picked without having been saved resumes     *)
(* from a stale position, or from none.                                    *)
(*                                                                         *)
(* Tasks are arbitrary clients: at "run", kernel code does any of the      *)
(* operations in Ops next.  A behaviour keeps to one of the Workloads.     *)
(***************************************************************************)
EXTENDS RunQueue

CONSTANTS Workloads,      \* the sets of operations tasks may use
          Uart,           \* the event UART_RX
          MaxSleep,       \* bound: longest sleep, in time units
          MaxGeneration,  \* bound: how often an event is notified
          MaxNest,        \* bound: how deep no_preempt nests
          FpVersions,     \* bound: see module Fp
          Kernel          \* the kernel's address space

ASSUME SchedAssumption ==
  /\ Uart \in Nat
  /\ MaxSleep \in Nat
  /\ MaxGeneration \in Nat
  /\ MaxNest \in Nat
  /\ FpVersions \in Nat \ {0}
  /\ Kernel \notin Nat

VARIABLES Ops,               \* the operations tasks use in this behaviour
          queue,             \* Scheduler::queue
          context,           \* Task::context: where each task was saved
          pc,                \* where the code each core executes is
          LEAVING,           \* per core, the task it is switching away from
          ipi,               \* cores with a pending inter-processor interrupt
          cond,              \* per event, whether what its waiters wait for holds
          PREEMPT_DISABLED, SWITCH_PENDING,
          program,           \* the tasks that run programs at EL0
          processes,         \* PROCESSES: the programs that haven't exited
          killed,            \* Running::killed
          redirect,          \* Task::redirect
          space, ttbr,       \* Task::translation_base, and each core's TTBR0_EL1
          freed,             \* the programs whose page tables have been freed
          fp,                \* FP/SIMD registers and saved copies
          computed,          \* history: the values each program last computed
          owed               \* history: cores whose open no_preempt deferred a tick

INSTANCE Fp

runVars == <<queue, context, pc, LEAVING, ipi, cond>>
preemptVars == <<PREEMPT_DISABLED, SWITCH_PENDING, owed>>
programVars == <<program, processes, killed, redirect, space, ttbr, freed>>
fpVars == <<fp, computed>>
kernelVars == <<runVars, preemptVars, programVars, fpVars>>
vars == <<kernelVars, Ops>>
-----------------------------------------------------------------------------
(* Positions.  `arg` is the event of a wait or a notify, the core a        *)
(* no_preempt counted on, or the task of a kill; `n` the generation a wait *)
(* saw, or how deep a no_preempt is nested.                                *)
(*   null     no context: a null pointer, or a core that hasn't started    *)
(*   user     program code, at EL0                                         *)
(*   run      kernel code: a kernel task, or a system call                 *)
(*   idle     the idle loop                                                *)
(*   svc      about to `svc #0`, then run                                  *)
(*   svcTop   about to `svc #0`, then top                                  *)
(*   svcGone  about to `svc #0` for good                                   *)
(*   panic    a panic: "a finished task was scheduled again", or "a user   *)
(*            task has a process" that turns out to have none              *)
(*   top, look, wait   in wait_until: about to read the generation, to     *)
(*            call ready(), to call wait_current                           *)
(*   notify   has made the condition hold, about to notify                 *)
(*   np       inside no_preempt; npEnd: has counted down to zero           *)
(*   kill     has redirected, about to interrupt (holding PROCESSES)       *)
(*   ret      found itself not killed, about to return to EL0              *)
(*   exit, leave, drop, finish   the stages of process::exit               *)

Places == {"null", "user", "run", "idle", "svc", "svcTop", "svcGone", "panic", "top", "look", "wait",
           "notify", "np", "npEnd", "kill", "ret", "exit", "leave", "drop", "finish"}
Position == [at : Places, arg : Nat, n : Nat]

At(place) == [at |-> place, arg |-> 0, n |-> 0]
AtWith(place, arg, n) == [at |-> place, arg |-> arg, n |-> n]

\* Where the code is once its svc returns.
AfterSvc(p) == CASE p.at = "svc" -> At("run")
                 [] p.at = "svcTop" -> AtWith("top", p.arg, 0)
                 [] p.at = "svcGone" -> At("panic")

\* A core that is past boot and not in the middle of a switch.
Executing(c) == queue.current[c] # NoTask /\ LEAVING[c] = NoTask

IsAt(c, place) == Executing(c) /\ pc[c].at = place
Go(c, p) == pc' = [pc EXCEPT ![c] = p]
Me(c) == queue.current[c]

\* Whether some core is in PROCESSES.lock: others spin for it.
ProcessesHeld == \E c \in Cores : pc[c].at = "kill"

\* kick_idle_core: the first idling core, other than c, is nudged if a task became ready.
Kicked(c, readied) ==
  {i \in IdleCores(queue, c) : readied /\ \A j \in IdleCores(queue, c) : i <= j}
-----------------------------------------------------------------------------
(* Scheduler::switch, for code of core c that resumes at `here`.  q is the *)
(* run queue as the handler has left it so far, `picked` what pick_next    *)
(* makes of it.                                                            *)

\* Mutated form of LeavingElsewhere: LEAVING isn't looked at.
NobodyLeaving(c) == {}

LeavingElsewhere(c) == {LEAVING[d] : d \in Cores \ {c}} \ {NoTask}

\* Mutated form of Redirected: the redirect is never taken.
NeverRedirected(t, here) == FALSE

\* Mutated form of Redirected: taken inside the kernel, too.
RedirectedAnywhere(t, here) == redirect[t]

\* A kill that came while the task ran: if it was at EL0, it goes to exit now.
Redirected(t, here) == redirect[t] /\ here.at = "user"

SwitchTo(c, cur, picked, here) ==
  LET redirected == Redirected(cur, here)
      saved == [context EXCEPT ![cur] = IF redirected THEN At("exit") ELSE here]
      next == picked.current[c]
      reaped == FinishedTasks(picked) \ ({cur} \cup LeavingElsewhere(c))
  IN  /\ queue' = Remove(picked, reaped)
      /\ context' = [t \in TaskIds |-> IF t \in reaped THEN At("null") ELSE saved[t]]
      /\ redirect' = [t \in TaskIds |->
                        redirect[t] /\ t \notin reaped /\ ~(t = cur /\ redirected)]
      /\ pc' = [pc EXCEPT ![c] = saved[next]]
      /\ LEAVING' = [LEAVING EXCEPT ![c] = IF next # cur THEN cur ELSE @]
      /\ fp' = FpSwitch(fp, c, cur, next, cur \in program)
      /\ ttbr' = [ttbr EXCEPT ![c] = IF space[cur] # space[next] THEN space[next] ELSE @]
      /\ owed' = owed \ {c}
      /\ UNCHANGED <<PREEMPT_DISABLED, program, processes, killed, space, freed, computed>>

Switch(c, q, preempt, here) ==
  \E picked \in {PickNext(q, c, preempt, LeavingElsewhere(c))} : SwitchTo(c, q.current[c], picked, here)

\* on_yield: the svc of yield_now, and the one that ends sleep, block, wait_until and exit.
OnYield(c) ==
  /\ Executing(c) /\ pc[c].at \in {"svc", "svcTop", "svcGone"}
  /\ Switch(c, queue, TRUE, AfterSvc(pc[c]))
  /\ UNCHANGED <<ipi, cond, SWITCH_PENDING>>

\* on_irq: the timer, the UART (core 0 only) and another core's nudge, in any combination.
\* The received bytes are in the buffer before the handler notifies.
OnIrq(c, timer, uart) ==
  LET nudged == c \in ipi
      q1 == IF uart THEN Notify(queue, Uart) ELSE queue
      q2 == IF timer THEN Tick(q1) ELSE q1
  IN  /\ Executing(c) /\ pc[c].at \notin {"kill", "panic"}
      /\ timer \/ uart \/ nudged
      /\ uart => "uart" \in Ops /\ c = 0 /\ Uart \in Events /\ queue.generation[Uart] < MaxGeneration
      /\ cond' = IF uart THEN [cond EXCEPT ![Uart] = TRUE] ELSE cond
      /\ ipi' = (ipi \ {c}) \cup
               Kicked(c, uart /\ NotifyReadies(queue, Uart) /\ ~IsIdle(queue, Me(c)))
      /\ IF PREEMPT_DISABLED[c] > 0
         THEN /\ queue' = q2
              /\ SWITCH_PENDING' = [SWITCH_PENDING EXCEPT ![c] = @ \/ timer]
              /\ owed' = IF timer THEN owed \cup {c} ELSE owed
              /\ UNCHANGED <<context, pc, LEAVING, PREEMPT_DISABLED, programVars, fpVars>>
         ELSE /\ Switch(c, q2, timer, pc[c])
              /\ UNCHANGED SWITCH_PENDING

\* sched_finish_switch: the core is on the next task's stack.
FinishSwitch(c) ==
  /\ LEAVING[c] # NoTask
  /\ LEAVING' = [LEAVING EXCEPT ![c] = NoTask]
  /\ UNCHANGED <<queue, context, pc, ipi, cond, preemptVars, programVars, fpVars>>
-----------------------------------------------------------------------------
(* What kernel code does at "run".                                         *)

May(c, op) == op \in Ops /\ IsAt(c, "run")

\* The steps of a core's code that touch nothing but the queue, its position and the IPIs.
CallQueue(c, q, readied, p) ==
  /\ queue' = q
  /\ ipi' = ipi \cup Kicked(c, readied)
  /\ Go(c, p)
  /\ UNCHANGED <<context, LEAVING, cond, preemptVars, programVars, fpVars>>

YieldNow(c) == May(c, "yield") /\ CallQueue(c, queue, FALSE, At("svc"))

Sleep(c, left) == May(c, "sleep") /\ CallQueue(c, SleepCurrent(queue, c, left), FALSE, At("svc"))

Block(c) == May(c, "block") /\ CallQueue(c, BlockCurrent(queue, c), FALSE, At("svc"))

WakeTask(c, t) ==
  /\ May(c, "wake")
  /\ CallQueue(c, Wake(queue, t), WakeReadies(queue, t), At("run"))

\* wait_until(e, ready): ready() is cond[e], or having been killed.  What it waits for is
\* then the task's to use up, or not.
WaitUntil(c, e) == May(c, "wait") /\ CallQueue(c, queue, FALSE, AtWith("top", e, 0))

SeeGeneration(c) ==
  /\ IsAt(c, "top")
  /\ CallQueue(c, queue, FALSE, AtWith("look", pc[c].arg, queue.generation[pc[c].arg]))

LookReady(c) ==
  /\ IsAt(c, "look") /\ ~ProcessesHeld
  /\ cond[pc[c].arg] \/ killed[Me(c)]
  /\ \E left \in BOOLEAN : cond' = [cond EXCEPT ![pc[c].arg] = @ /\ left]
  /\ Go(c, At("run"))
  /\ UNCHANGED <<queue, context, LEAVING, ipi, preemptVars, programVars, fpVars>>

LookNotReady(c) ==
  /\ IsAt(c, "look") /\ ~ProcessesHeld
  /\ ~cond[pc[c].arg] /\ ~killed[Me(c)]
  /\ CallQueue(c, queue, FALSE, AtWith("wait", pc[c].arg, pc[c].n))

WaitForEvent(c) ==
  /\ IsAt(c, "wait")
  /\ CallQueue(c, WaitCurrent(queue, c, pc[c].arg, pc[c].n), FALSE, AtWith("svcTop", pc[c].arg, 0))

\* Making what others wait for hold, and then notifying them.
Post(c, e) ==
  /\ May(c, "post")
  /\ cond' = [cond EXCEPT ![e] = TRUE]
  /\ Go(c, AtWith("notify", e, 0))
  /\ UNCHANGED <<queue, context, LEAVING, ipi, preemptVars, programVars, fpVars>>

NotifyEvent(c) ==
  /\ IsAt(c, "notify")
  /\ queue.generation[pc[c].arg] < MaxGeneration
  /\ CallQueue(c, Notify(queue, pc[c].arg), NotifyReadies(queue, pc[c].arg), At("run"))

\* exit, for kernel tasks whose entry point returns; the shell, task 0, never does.
Exit(c) ==
  /\ May(c, "exit") /\ Me(c) # 0 /\ Me(c) \notin program
  /\ CallQueue(c, FinishCurrent(queue, c), FALSE, At("svcGone"))

\* spawn and spawn_user.
Spawn(c, isProgram) ==
  LET t == queue.len
  IN  /\ May(c, IF isProgram THEN "spawn_user" ELSE "spawn")
      /\ ~ProcessesHeld
      /\ t < MaxTasks
      /\ queue' = Add(queue)
      /\ ipi' = ipi \cup Kicked(c, TRUE)
      /\ context' = [context EXCEPT ![t] = At(IF isProgram THEN "user" ELSE "run")]
      /\ IF isProgram
         THEN /\ program' = program \cup {t}
              /\ processes' = processes \cup {t}
              /\ space' = [space EXCEPT ![t] = t]
         ELSE UNCHANGED <<program, processes, space>>
      /\ UNCHANGED <<pc, LEAVING, cond, preemptVars, killed, redirect, ttbr, freed, fpVars>>

\* sched::start_core on a secondary core.
StartSecondary(c) ==
  /\ queue.current[c] = NoTask /\ pc[c].at = "null"
  /\ queue.len < MaxTasks
  /\ queue' = StartCore(queue, c)
  /\ Go(c, At("idle"))
  /\ UNCHANGED <<context, LEAVING, ipi, cond, preemptVars, programVars, fpVars>>

\* Time passes for the sleepers.
Elapse ==
  /\ \E t \in TaskIds : queue.state[t].is = "Sleeping" /\ queue.state[t].of > 0
  /\ queue' = [queue EXCEPT !.state = [t \in TaskIds |->
                 IF queue.state[t].is = "Sleeping" /\ queue.state[t].of > 0
                 THEN Sleeping(queue.state[t].of - 1) ELSE queue.state[t]]]
  /\ UNCHANGED <<context, pc, LEAVING, ipi, cond, preemptVars, programVars, fpVars>>
-----------------------------------------------------------------------------
(* no_preempt.  Its end finds the core it counted on in `arg`.             *)

Inside(core, n) == IF n = 0 THEN At("run") ELSE AtWith("np", core, n)

NoPreemptBegin(c) ==
  /\ "no_preempt" \in Ops
  /\ IsAt(c, "run") \/ IsAt(c, "np")
  /\ pc[c].n < MaxNest
  /\ PREEMPT_DISABLED' = [PREEMPT_DISABLED EXCEPT ![c] = @ + 1]
  /\ Go(c, AtWith("np", c, pc[c].n + 1))
  /\ UNCHANGED <<queue, context, LEAVING, ipi, cond, SWITCH_PENDING, owed, programVars, fpVars>>

\* Mutated form of NoPreemptCount: the end of any section allows preemption again.
UncountAll(c) ==
  /\ IsAt(c, "np")
  /\ PREEMPT_DISABLED' = [PREEMPT_DISABLED EXCEPT ![pc[c].arg] = 0]
  /\ Go(c, AtWith("npEnd", pc[c].arg, pc[c].n - 1))
  /\ UNCHANGED <<queue, context, LEAVING, ipi, cond, SWITCH_PENDING, owed, programVars, fpVars>>

NoPreemptCount(c) ==
  LET core == pc[c].arg
      depth == PREEMPT_DISABLED[core] - 1
  IN  /\ IsAt(c, "np")
      /\ PREEMPT_DISABLED' = [PREEMPT_DISABLED EXCEPT ![core] = depth]
      /\ Go(c, IF depth = 0 THEN AtWith("npEnd", core, pc[c].n - 1) ELSE Inside(core, pc[c].n - 1))
      /\ UNCHANGED <<queue, context, LEAVING, ipi, cond, SWITCH_PENDING, owed, programVars, fpVars>>

\* Mutated form of NoPreemptEnd: the section is counted down once more.
UncountAgain(c) ==
  LET core == pc[c].arg
  IN  /\ IsAt(c, "npEnd")
      /\ PREEMPT_DISABLED' = [PREEMPT_DISABLED EXCEPT ![core] = @ - 1]
      /\ SWITCH_PENDING' = [SWITCH_PENDING EXCEPT ![core] = FALSE]
      /\ Go(c, IF SWITCH_PENDING[core] THEN At("svc") ELSE Inside(core, pc[c].n))
      /\ owed' = owed \ {c}
      /\ UNCHANGED <<queue, context, LEAVING, ipi, cond, programVars, fpVars>>

\* The swap of SWITCH_PENDING, and the yield if it was set.
NoPreemptEnd(c) ==
  LET core == pc[c].arg
  IN  /\ IsAt(c, "npEnd")
      /\ SWITCH_PENDING' = [SWITCH_PENDING EXCEPT ![core] = FALSE]
      /\ Go(c, IF SWITCH_PENDING[core] THEN At("svc") ELSE Inside(core, pc[c].n))
      /\ owed' = owed \ {c}
      /\ UNCHANGED <<queue, context, LEAVING, ipi, cond, PREEMPT_DISABLED, programVars, fpVars>>
-----------------------------------------------------------------------------
(* Programs: process::on_user_sync, exit and kill.                         *)

\* The steps that only move the code of a core on.
Move(c, p) == Go(c, p) /\ UNCHANGED <<queue, context, LEAVING, ipi, cond, preemptVars, fpVars>>

Syscall(c) == IsAt(c, "user") /\ Move(c, At("run")) /\ UNCHANGED programVars

\* The call is done: was_killed, asked before IRQs are masked for the return.
SyscallDone(c) ==
  /\ IsAt(c, "run") /\ Me(c) \in program
  /\ ~ProcessesHeld
  /\ Move(c, At(IF killed[Me(c)] THEN "exit" ELSE "ret"))
  /\ UNCHANGED programVars

\* irq_disable and the eret.
ReturnToUser(c) == IsAt(c, "ret") /\ Move(c, At("user")) /\ UNCHANGED programVars

\* A fault at EL0, or the Exit system call.
UserExit(c) ==
  /\ "exit" \in Ops
  /\ IsAt(c, "user")
  /\ Move(c, At("exit"))
  /\ UNCHANGED programVars

ExitRemove(c) ==
  /\ IsAt(c, "exit") /\ ~ProcessesHeld
  /\ Move(c, At(IF Me(c) \in processes THEN "leave" ELSE "panic"))
  /\ processes' = processes \ {Me(c)}
  /\ killed' = [killed EXCEPT ![Me(c)] = FALSE]
  /\ UNCHANGED <<program, redirect, space, ttbr, freed>>

\* Mutated form of ExitLeave: the core leaves, the task keeps its translation base.
LeaveCoreOnly(c) ==
  /\ IsAt(c, "leave")
  /\ Move(c, At("drop"))
  /\ ttbr' = [ttbr EXCEPT ![c] = Kernel]
  /\ UNCHANGED <<program, processes, killed, redirect, space, freed>>

\* leave_user_space
ExitLeave(c) ==
  /\ IsAt(c, "leave")
  /\ Move(c, At("drop"))
  /\ space' = [space EXCEPT ![Me(c)] = Kernel]
  /\ ttbr' = [ttbr EXCEPT ![c] = Kernel]
  /\ UNCHANGED <<program, processes, killed, redirect, freed>>

\* drop(running): its page tables and its memory are freed.
ExitDrop(c) ==
  /\ IsAt(c, "drop")
  /\ Move(c, At("finish"))
  /\ freed' = freed \cup {Me(c)}
  /\ UNCHANGED <<program, processes, killed, redirect, space, ttbr>>

ExitFinish(c) == IsAt(c, "finish") /\ CallQueue(c, FinishCurrent(queue, c), FALSE, At("svcGone"))

\* kill, by a kernel task, with redirect_to_kernel: a program that isn't running and was
\* saved at EL0 resumes in exit_killed.  Otherwise it is interrupted next, still under
\* PROCESSES; a program running just now is also redirected when it is switched away from.
Kill(c, t) ==
  LET running == IsCurrent(queue, t) \/ context[t].at = "null"
      sentToExit == ~running /\ context[t].at = "user"
  IN  /\ May(c, "kill") /\ Me(c) \notin program /\ ~ProcessesHeld
      /\ t \in processes
      /\ killed' = [killed EXCEPT ![t] = TRUE]
      /\ redirect' = [redirect EXCEPT ![t] = @ \/ running]
      /\ context' = [context EXCEPT ![t] = IF sentToExit THEN At("exit") ELSE @]
      /\ Go(c, IF sentToExit THEN At("run") ELSE AtWith("kill", t, 0))
      /\ UNCHANGED <<queue, LEAVING, ipi, cond, preemptVars, program, processes, space, ttbr,
                     freed, fpVars>>

\* sched::interrupt, the end of kill.
KillInterrupt(c) ==
  /\ IsAt(c, "kill")
  /\ CallQueue(c, Interrupt(queue, pc[c].arg), InterruptReadies(queue, pc[c].arg), At("run"))

\* A program uses FP: it traps until it has the registers, then the instruction runs.
FpTrap(c) ==
  /\ "fp" \in Ops
  /\ IsAt(c, "user") /\ ~fp.allowed[c]
  /\ fp' = TakeFpRegisters(fp, c, Me(c))
  /\ UNCHANGED <<runVars, preemptVars, programVars, computed>>

FpInstruction(c, v) ==
  /\ "fp" \in Ops
  /\ IsAt(c, "user") /\ fp.allowed[c]
  /\ fp' = FpCompute(fp, c, v)
  /\ computed' = [computed EXCEPT ![Me(c)] = v]
  /\ UNCHANGED <<runVars, preemptVars, programVars>>
-----------------------------------------------------------------------------
\* After sched::init: the boot code is task 0, the shell, and core 0 has its idle task, 1.
Init ==
  /\ Ops \in Workloads
  /\ queue = AddIdle(New, 0)
  /\ context = [t \in TaskIds |-> At(IF t = 1 THEN "idle" ELSE "null")]
  /\ pc = [c \in Cores |-> At(IF c = 0 THEN "run" ELSE "null")]
  /\ LEAVING = [c \in Cores |-> NoTask]
  /\ ipi = {}
  /\ cond = [e \in Events |-> FALSE]
  /\ PREEMPT_DISABLED = [c \in Cores |-> 0]
  /\ SWITCH_PENDING = [c \in Cores |-> FALSE]
  /\ owed = {}
  /\ program = {}
  /\ processes = {}
  /\ killed = [t \in TaskIds |-> FALSE]
  /\ redirect = [t \in TaskIds |-> FALSE]
  /\ space = [t \in TaskIds |-> Kernel]
  /\ ttbr = [c \in Cores |-> Kernel]
  /\ freed = {}
  /\ fp = FpNew
  /\ computed = [t \in TaskIds |-> 0]

\* What is the kernel's to do next once a core runs kernel code that isn't at "run".
KernelStep(c) ==
  \/ OnYield(c)
  \/ FinishSwitch(c)
  \/ SeeGeneration(c)
  \/ LookReady(c)
  \/ LookNotReady(c)
  \/ WaitForEvent(c)
  \/ NotifyEvent(c)
  \/ NoPreemptCount(c)
  \/ NoPreemptEnd(c)
  \/ SyscallDone(c)
  \/ ReturnToUser(c)
  \/ ExitRemove(c)
  \/ ExitLeave(c)
  \/ ExitDrop(c)
  \/ ExitFinish(c)
  \/ KillInterrupt(c)

\* What tasks may or may not do.
TaskStep(c) ==
  \/ YieldNow(c)
  \/ \E left \in 0 .. MaxSleep : Sleep(c, left)
  \/ Block(c)
  \/ \E t \in TaskIds : WakeTask(c, t)
  \/ \E e \in Events : WaitUntil(c, e)
  \/ \E e \in Events : Post(c, e)
  \/ Exit(c)
  \/ \E isProgram \in BOOLEAN : Spawn(c, isProgram)
  \/ NoPreemptBegin(c)
  \/ Syscall(c)
  \/ UserExit(c)
  \/ \E t \in TaskIds : Kill(c, t)
  \/ FpTrap(c)
  \/ \E v \in 0 .. FpVersions - 1 : FpInstruction(c, v)

Step(c) ==
  \/ KernelStep(c)
  \/ TaskStep(c)
  \/ StartSecondary(c)
  \/ \E timer, uart \in BOOLEAN : OnIrq(c, timer, uart)

Next == ((\E c \in Cores : Step(c)) \/ Elapse) /\ UNCHANGED Ops

Spec == Init /\ [][Next]_vars

\* A task that has asked to sleep, wait or block runs on until its svc.  The step doesn't
\* wake the task core d runs in that window.
NotWokenEarly(d) ==
  LET t == queue.current[d]
  IN  t # NoTask /\ queue.state[t].is \in {"Sleeping", "Waiting", "Blocked"} =>
        queue'.state[t].is = queue.state[t].is

\* The behaviours in which no core wakes a task another core still runs.  Nothing in the code
\* keeps to them on several cores; with one core they are all there is.
OrderedNext ==
  /\ (\E c \in Cores : Step(c) /\ \A d \in Cores \ {c} : NotWokenEarly(d)) \/ Elapse
  /\ UNCHANGED Ops

OrderedSpec == Init /\ [][OrderedNext]_vars

(* Fairness.  Interrupts are level-triggered, so a tick is taken once they *)
(* aren't masked; a core leaves the stack it switched away from; a task in *)
(* the middle of a kernel operation gets on with it when it runs.  Nothing *)
(* is assumed of program code, or of what tasks choose to do.              *)
Fairness ==
  /\ \A c \in Cores : SF_kernelVars(OnIrq(c, TRUE, FALSE)) /\ WF_kernelVars(FinishSwitch(c))
  /\ \A t \in TaskIds : SF_kernelVars(\E c \in Cores : Executing(c) /\ Me(c) = t /\ KernelStep(c))
  /\ WF_kernelVars(Elapse)

FairSpec == Spec /\ Fairness
-----------------------------------------------------------------------------
(* Properties.                                                             *)

\* Types of everything the scheduler keeps, and that no event or nesting exceeds its bound.
TypeOK ==
  /\ queue \in Queue
  /\ context \in [TaskIds -> Position]
  /\ pc \in [Cores -> Position]
  /\ LEAVING \in [Cores -> TaskIds \cup {NoTask}]
  /\ ipi \subseteq Cores
  /\ cond \in [Events -> BOOLEAN]
  /\ PREEMPT_DISABLED \in [Cores -> Nat]
  /\ SWITCH_PENDING \in [Cores -> BOOLEAN]
  /\ owed \subseteq Cores
  /\ processes \subseteq TaskIds
  /\ program \subseteq TaskIds
  /\ killed \in [TaskIds -> BOOLEAN]
  /\ redirect \in [TaskIds -> BOOLEAN]
  /\ space \in [TaskIds -> TaskIds \cup {Kernel}]
  /\ ttbr \in [Cores -> TaskIds \cup {Kernel}]
  /\ freed \subseteq TaskIds
  /\ fp \in FpState
  /\ computed \in [TaskIds -> 0 .. FpVersions - 1]

\* Where a task's code is: on the core that runs it, or where it was saved.
Where(t) == IF IsCurrent(queue, t) THEN pc[CHOOSE c \in Cores : queue.current[c] = t] ELSE context[t]

\* The stack of a task (Task::stack) is never used by two cores: the task a core runs is
\* neither run by another core nor one that another core is still switching away from
\* (LEAVING, sched.rs: "no other core may pick it").
OneStackUser ==
  \A c, d \in Cores : c # d /\ queue.current[c] # NoTask =>
    queue.current[c] \notin {queue.current[d], LEAVING[d]}

\* Every core resumes code that was really saved, and never code that has ended: no core
\* takes a null context, and neither panic of the life cycle is reached (`unreachable!("a
\* finished task was scheduled again")` in sched::exit, `expect("a user task has a
\* process")` in process::exit).
ResumesSavedCode ==
  \A c \in Cores : queue.current[c] # NoTask => pc[c].at \notin {"null", "panic"}

\* switch frees a finished task's stack and entry only once no core runs on it any more:
\* neither the task a core runs nor the one it is leaving has been removed.
NothingInUseIsReaped ==
  \A c \in Cores, t \in TaskIds :
    t \in {queue.current[c], LEAVING[c]} => queue.state[t] # Gone

\* An idle task is run by its own core only, so that every other core always has something
\* to run (RunQueue::pick_next).
IdleTasksStay ==
  \A c, d \in Cores : queue.idle[d] # NoTask /\ queue.current[c] = queue.idle[d] => c = d

\* wait_until loses no wake-up: a task waits for an event although what it waits for holds
\* only while the task that made it hold is still about to notify; and a killed program
\* waits only while its killer is still about to interrupt it.
NoLostWakeup ==
  \A t \in TaskIds, e \in Events : queue.state[t] = Waiting(e) =>
    /\ cond[e] => \E u \in TaskIds : Where(u) = AtWith("notify", e, 0)
    /\ killed[t] => \E c \in Cores : pc[c] = AtWith("kill", t, 0)

\* no_preempt keeps the code inside it on its core: no task is ever saved inside one, and a
\* core counts exactly the sections its own code is in.
NoPreemptHolds ==
  /\ \A t \in TaskIds : context[t].at # "np"
  /\ \A c \in Cores : IF pc[c].at = "np"
                      THEN pc[c].arg = c /\ PREEMPT_DISABLED[c] = pc[c].n
                      ELSE PREEMPT_DISABLED[c] = 0

\* A program at EL0 runs in its own address space (TTBR0_EL1), and no core's TTBR0_EL1 is one
\* whose page tables process::exit has freed.
OwnLiveSpace ==
  \A c \in Cores :
    /\ ttbr[c] \notin freed
    /\ IsAt(c, "user") => ttbr[c] = Me(c)

\* A program that may use the FP registers finds its own values in them, never another
\* program's (the decision switch makes with fp::owner and fp_core).
FpOwnValues == \A c \in Cores : IsAt(c, "user") /\ fp.allowed[c] => fp.regs[c].of = Me(c)

\* ... and they are the values it computed last: arch/fp.rs, "so the saved copy is always
\* current and a program can move to another core".
FpLatestValues ==
  \A c \in Cores : IsAt(c, "user") /\ fp.allowed[c] =>
    fp.regs[c] = [of |-> Me(c), v |-> computed[Me(c)]]

\* process::kill: "user code is sent straight to `exit`, and a system call exits instead of
\* returning": a killed program at EL0 is one that will be redirected at its next switch.
KilledUserIsRedirected ==
  \A t \in TaskIds : killed[t] /\ Where(t).at = "user" => redirect[t]

\* sched.rs: "a switch that falls due meanwhile happens when the outermost `no_preempt`
\* ends": code that leaves its section without yielding has had no tick deferred.  No run checks
\* this; the code doesn't keep it (README.md, "Where the code and its comments differ").
DeferredSwitchHappens ==
  [][\A c \in Cores : IsAt(c, "npEnd") /\ pc'[c] = At("run") /\ queue'.current[c] = Me(c) =>
       c \notin owed]_vars

\* Round robin starves no one: a task that is ready, or sleeps, runs again.
EveryoneRuns ==
  \A t \in TaskIds :
    queue.state[t].is \in {"Ready", "Sleeping"} /\ ~IsIdle(queue, t) ~> queue.state[t] = Running

\* A program that was running on a core when it was killed exits, whatever it does: at the
\* latest, a tick takes it from EL0 to process::exit ("at the latest, on its next tick").
KilledWhileRunningExits == \A t \in TaskIds : redirect[t] ~> t \notin processes
=============================================================================
