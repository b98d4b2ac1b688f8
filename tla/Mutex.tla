-------------------------------- MODULE Mutex --------------------------------
(***************************************************************************)
(* The kernel's sleeping lock (synchronization::Mutex over                 *)
(* rustypi_core::lock::LockState) and the two scheduler calls it is built  *)
(* on.  Its state is behind a spinlock and the scheduler's behind another, *)
(* so a task that finds the lock held queues in one step and blocks in a   *)
(* later one, and a task that hands it over wakes its successor in a step  *)
(* after the one that made it the owner.                                   *)
(*                                                                         *)
(* Locks has the system's locks (FS, USB, ...): what is pending for a task *)
(* is one flag for all of them.                                            *)
(***************************************************************************)
EXTENDS Naturals, Sequences

CONSTANTS Tasks, Locks,
          Nil   \* Option::None

\* There is a lock, and no task or lock is none.
ASSUME MutexAssumption == Nil \notin Tasks /\ Nil \notin Locks /\ Locks # {}

VARIABLES owner, waiters,  \* LockState, per lock
          blocked,         \* the tasks whose state is Blocked
          wakePending,     \* the tasks a wake-up is kept for
          pc,              \* what each task is doing
          of,              \* ... and with which lock
          next             \* the task it has handed the lock to and not yet woken

vars == <<owner, waiters, blocked, wakePending, pc, of, next>>
sched == <<blocked, wakePending>>

(*   out     not using a lock            queued   found it held, about to block *)
(*   asleep  in sched::block             in       running its closure           *)
(*   handed  has unlocked, about to wake its successor                          *)
(*   panic   "Mutex::unlock: NotOwner"                                          *)
Places == {"out", "queued", "asleep", "in", "handed", "panic"}

Go(t, place) == pc' = [pc EXCEPT ![t] = place]

\* Whether task t is the one to run code now: a blocked task isn't.
Runs(t, place) == pc[t] = place /\ t \notin blocked

Init ==
  /\ owner = [l \in Locks |-> Nil]
  /\ waiters = [l \in Locks |-> <<>>]
  /\ blocked = {}
  /\ wakePending = {}
  /\ pc = [t \in Tasks |-> "out"]
  /\ of = [t \in Tasks |-> Nil]
  /\ next = [t \in Tasks |-> Nil]

\* Mutated form of Acquire: a lock no one waits for is taken for free.
AcquireIfNoneWait(t, l) ==
  /\ Runs(t, "out")
  /\ IF waiters[l] = <<>>
     THEN owner' = [owner EXCEPT ![l] = t] /\ UNCHANGED waiters /\ Go(t, "in")
     ELSE waiters' = [waiters EXCEPT ![l] = Append(@, t)] /\ UNCHANGED owner /\ Go(t, "queued")
  /\ of' = [of EXCEPT ![t] = l]
  /\ UNCHANGED <<sched, next>>

\* LockState::lock, for a task that doesn't hold the lock already.
Acquire(t, l) ==
  /\ Runs(t, "out")
  /\ IF owner[l] = Nil
     THEN owner' = [owner EXCEPT ![l] = t] /\ UNCHANGED waiters /\ Go(t, "in")
     ELSE waiters' = [waiters EXCEPT ![l] = Append(@, t)] /\ UNCHANGED owner /\ Go(t, "queued")
  /\ of' = [of EXCEPT ![t] = l]
  /\ UNCHANGED <<sched, next>>

\* Mutated form of Block: the wake-up that came first isn't used up.
BlockKeepsPending(t) ==
  /\ Runs(t, "queued")
  /\ blocked' = IF t \in wakePending THEN blocked ELSE blocked \cup {t}
  /\ UNCHANGED wakePending
  /\ Go(t, "asleep")
  /\ UNCHANGED <<owner, waiters, of, next>>

\* sched::block, with RunQueue::block_current: a wake-up that came first is used up instead.
Block(t) ==
  /\ Runs(t, "queued")
  /\ blocked' = IF t \in wakePending THEN blocked ELSE blocked \cup {t}
  /\ wakePending' = wakePending \ {t}
  /\ Go(t, "asleep")
  /\ UNCHANGED <<owner, waiters, of, next>>

\* block returns: nothing is asked again, the task runs its closure.
Enter(t) ==
  /\ Runs(t, "asleep")
  /\ Go(t, "in")
  /\ UNCHANGED <<owner, waiters, sched, of, next>>

\* Mutated form of HandOver: the last waiter goes first.
HandToLast(t, l) ==
  LET n == Len(waiters[l])
  IN  /\ owner' = [owner EXCEPT ![l] = waiters[l][n]]
      /\ waiters' = [waiters EXCEPT ![l] = SubSeq(@, 1, n - 1)]
      /\ next' = [next EXCEPT ![t] = waiters[l][n]]
      /\ Go(t, "handed")

\* LockState::unlock with tasks waiting: the longest waiter is the owner now.
HandOver(t, l) ==
  /\ owner' = [owner EXCEPT ![l] = Head(waiters[l])]
  /\ waiters' = [waiters EXCEPT ![l] = Tail(waiters[l])]
  /\ next' = [next EXCEPT ![t] = Head(waiters[l])]
  /\ Go(t, "handed")

\* The end of lock.
Unlock(t) ==
  LET l == of[t]
  IN  /\ Runs(t, "in")
      /\ IF owner[l] # t THEN Go(t, "panic") /\ UNCHANGED <<owner, waiters, next>>
         ELSE IF waiters[l] # <<>> THEN HandOver(t, l)
         ELSE owner' = [owner EXCEPT ![l] = Nil] /\ Go(t, "out") /\ UNCHANGED <<waiters, next>>
      /\ UNCHANGED <<sched, of>>

\* sched::wake, with RunQueue::wake.
Wake(t) ==
  /\ Runs(t, "handed")
  /\ IF next[t] \in blocked
     THEN blocked' = blocked \ {next[t]} /\ UNCHANGED wakePending
     ELSE wakePending' = wakePending \cup {next[t]} /\ UNCHANGED blocked
  /\ next' = [next EXCEPT ![t] = Nil]
  /\ Go(t, "out")
  /\ UNCHANGED <<owner, waiters, of>>

Proceed(t) == Block(t) \/ Enter(t) \/ Unlock(t) \/ Wake(t)

Next == \E t \in Tasks : Proceed(t) \/ \E l \in Locks : Acquire(t, l)

Spec == Init /\ [][Next]_vars
-----------------------------------------------------------------------------
(* Properties.                                                             *)

\* Types of everything the locks keep.
TypeOK ==
  /\ owner \in [Locks -> Tasks \cup {Nil}]
  /\ waiters \in [Locks -> Seq(Tasks)]
  /\ blocked \subseteq Tasks
  /\ wakePending \subseteq Tasks
  /\ pc \in [Tasks -> Places]
  /\ of \in [Tasks -> Locks \cup {Nil}]
  /\ next \in [Tasks -> Tasks \cup {Nil}]

\* Mutex::lock gives exclusive access, although a task doesn't look whether it owns the lock
\* when block returns: two tasks are never in the closures of one lock.
Exclusion ==
  \A t, u \in Tasks : pc[t] = "in" /\ pc[u] = "in" /\ of[t] = of[u] => t = u

\* `debug_assert_eq!(self.state.lock(|state| state.owner()), Some(me))`: block returns only to
\* the owner, and so the unlock at the end of lock never finds another (LockError::NotOwner).
BlockReturnsToOwner ==
  \A t \in Tasks : Runs(t, "asleep") \/ pc[t] = "in" => owner[of[t]] = t

\* The locks are alike: any one of them is seen as a lock with a line.
Some == CHOOSE l \in Locks : TRUE

Line == INSTANCE FifoLock WITH
  line <- IF owner[Some] = Nil THEN <<>> ELSE <<owner[Some]>> \o waiters[Some],
  inside <- {t \in Tasks : pc[t] = "in" /\ of[t] = Some}

\* Mutex implements the abstract lock: hand-over is in the order of arrival, however often others
\* lock again.
ImplementsFifoLock == Line!Spec

\* A task that wants the lock and does not have it: "a task that keeps relocking can't starve the
\* others" says that this ends.
Waits(t) == pc[t] \in {"queued", "asleep"}
=============================================================================
