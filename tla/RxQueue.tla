------------------------------ MODULE RxQueue ------------------------------
(***************************************************************************)
(* The UART's receive queue (drivers::uart::RxQueue): a ring that the IRQ  *)
(* handler fills on one core and the link task empties on another without  *)
(* a lock between them, one load or store of shared memory per step.  With *)
(* it, the link task's loop around it: pop until there is nothing, then    *)
(* wait for UART_RX, which on_irq notifies once the handler is done.       *)
(*                                                                         *)
(* Bytes are numbered from 1 as the UART receives them.  Loads and stores  *)
(* take effect in program order: head and tail are released and acquired.  *)
(***************************************************************************)
EXTENDS Naturals, Sequences

CONSTANTS Length,   \* RX_QUEUE_LEN
          MaxBytes  \* bound: bytes received in all

VARIABLES entries, head, tail, overflowed,  \* RxQueue
          handler,                          \* where the IRQ handler is
          task, popped,                     \* where the link task is, and the entry it has read
          stale,                            \* whether UART_RX was notified since the task looked
          received, fit,                    \* how many bytes came; those that fit, in order
          unsaid,                           \* whether one was lost since the last was reported
          out                               \* the bytes receive_checked has returned, in order

ring == <<entries, head, tail, overflowed>>
vars == <<ring, handler, task, popped, stale, received, fit, unsaid, out>>

Slots == 0 .. Length - 1

Init ==
  /\ entries = [s \in Slots |-> 0]
  /\ head = 0 /\ tail = 0 /\ overflowed = FALSE
  /\ handler = "idle"
  /\ task = "pop" /\ popped = 0
  /\ stale = FALSE
  /\ received = 0 /\ fit = <<>> /\ unsaid = FALSE /\ out = <<>>
-----------------------------------------------------------------------------
(* The IRQ handler: push for every byte in the FIFO, then notify.          *)

\* Mutated form of Following: the ring doesn't wrap around.
FollowingOn(slot) == slot + 1

Following(slot) == (slot + 1) % Length

\* Mutated form of Receive: the last free slot is filled, too.
ReceiveAlways ==
  /\ handler \in {"idle", "handling"} /\ received < MaxBytes
  /\ received' = received + 1
  /\ handler' = "store" /\ fit' = Append(fit, received + 1)
  /\ UNCHANGED <<ring, task, popped, stale, unsaid, out>>

\* push takes the next byte, and loads tail to see whether it fits.
Receive ==
  /\ handler \in {"idle", "handling"} /\ received < MaxBytes
  /\ received' = received + 1
  /\ IF Following(head) = tail
     THEN handler' = "full" /\ unsaid' = TRUE /\ UNCHANGED fit
     ELSE handler' = "store" /\ fit' = Append(fit, received + 1) /\ UNCHANGED unsaid
  /\ UNCHANGED <<ring, task, popped, stale, out>>

Overflow ==
  /\ handler = "full"
  /\ overflowed' = TRUE
  /\ handler' = "handling"
  /\ UNCHANGED <<entries, head, tail, task, popped, stale, received, fit, unsaid, out>>

Store ==
  /\ handler = "store"
  /\ entries' = [entries EXCEPT ![head] = received]
  /\ handler' = "publish"
  /\ UNCHANGED <<head, tail, overflowed, task, popped, stale, received, fit, unsaid, out>>

Publish ==
  /\ handler = "publish"
  /\ head' = Following(head)
  /\ handler' = "handling"
  /\ UNCHANGED <<entries, tail, overflowed, task, popped, stale, received, fit, unsaid, out>>

\* on_irq: RunQueue::notify(UART_RX).
Notify ==
  /\ handler = "handling"
  /\ handler' = "idle"
  /\ stale' = TRUE
  /\ task' = IF task = "asleep" THEN "look" ELSE task
  /\ UNCHANGED <<ring, popped, received, fit, unsaid, out>>
-----------------------------------------------------------------------------
(* The link task: pop until it returns None, then wait_until(has_input).   *)

\* A byte lost is reported by one that is marked damaged, which the ring has no part in.
Swap ==
  /\ task = "pop"
  /\ overflowed' = FALSE
  /\ IF overflowed
     THEN unsaid' = FALSE /\ UNCHANGED task
     ELSE task' = "load" /\ UNCHANGED unsaid
  /\ UNCHANGED <<entries, head, tail, handler, popped, stale, received, fit, out>>

Load ==
  /\ task = "load"
  /\ task' = IF tail = head THEN "look" ELSE "read"
  /\ UNCHANGED <<ring, handler, popped, stale, received, fit, unsaid, out>>

ReadEntry ==
  /\ task = "read"
  /\ popped' = entries[tail]
  /\ task' = "release"
  /\ UNCHANGED <<ring, handler, stale, received, fit, unsaid, out>>

\* The slot is the handler's again, and receive_checked returns the byte.
Release ==
  /\ task = "release"
  /\ tail' = Following(tail)
  /\ out' = Append(out, popped)
  /\ popped' = 0
  /\ task' = "pop"
  /\ UNCHANGED <<entries, head, overflowed, handler, stale, received, fit, unsaid>>

Look ==
  /\ task = "look"
  /\ stale' = FALSE
  /\ task' = "check"
  /\ UNCHANGED <<ring, handler, popped, received, fit, unsaid, out>>

\* has_input: the flag, and then the ring.
Check ==
  /\ task = "check"
  /\ task' = IF overflowed THEN "pop" ELSE "checkRing"
  /\ UNCHANGED <<ring, handler, popped, stale, received, fit, unsaid, out>>

CheckRing ==
  /\ task = "checkRing"
  /\ task' = IF tail # head THEN "pop" ELSE "wait"
  /\ UNCHANGED <<ring, handler, popped, stale, received, fit, unsaid, out>>

\* Mutated form of Wait: a notify since the look is missed.
WaitRegardless ==
  /\ task = "wait"
  /\ task' = "asleep"
  /\ UNCHANGED <<ring, handler, popped, stale, received, fit, unsaid, out>>

\* RunQueue::wait_current; not waiting, wait_until looks again.
Wait ==
  /\ task = "wait"
  /\ task' = IF stale THEN "look" ELSE "asleep"
  /\ UNCHANGED <<ring, handler, popped, stale, received, fit, unsaid, out>>
-----------------------------------------------------------------------------
\* Once entered, the handler runs to its end: interrupts are masked.
Handler == Overflow \/ Store \/ Publish \/ Notify

Task == Swap \/ Load \/ ReadEntry \/ Release \/ Look \/ Check \/ CheckRing \/ Wait

Next == Receive \/ Handler \/ Task

Spec == Init /\ [][Next]_vars
-----------------------------------------------------------------------------
(* Properties.                                                             *)

\* Types of the ring's fields and of both its users.
TypeOK ==
  /\ entries \in [Slots -> 0 .. MaxBytes]
  /\ head \in Slots /\ tail \in Slots /\ overflowed \in BOOLEAN
  /\ handler \in {"idle", "handling", "full", "store", "publish"}
  /\ task \in {"pop", "load", "read", "release", "look", "check", "checkRing", "wait", "asleep"}
  /\ popped \in 0 .. MaxBytes /\ stale \in BOOLEAN
  /\ received \in 0 .. MaxBytes /\ fit \in Seq(1 .. MaxBytes)
  /\ out \in Seq(1 .. MaxBytes)

Queued == (head + Length - tail) % Length

InRing == [i \in 1 .. Queued |-> entries[(tail + i - 1) % Length]]

\* The bytes that fit and whose push is over.
Accepted == IF handler \in {"store", "publish"} THEN SubSeq(fit, 1, Len(fit) - 1) ELSE fit

\* "each slot is only written by the producer before it publishes `head`, and only read by the
\* consumer before it releases the slot through `tail`": every byte that fits comes out once,
\* in order, and none is overwritten in the ring.
BytesInOrder == out \o InRing = Accepted

\* Bytes that fit and must be returned, although the link task went to wait when it saw nothing.
Owed == {i \in DOMAIN fit : i > Len(out)}

\* A byte didn't fit, which must be reported: "Swapped, so an overflow the IRQ handler flags
\* meanwhile isn't lost."
Unreported == unsaid
-----------------------------------------------------------------------------
(* Why: what fits is what was returned, then what is queued, then the byte *)
(* that is being pushed; its slot is no queued one until it is published.  *)
Pushing == handler \in {"store", "publish"}

OutIsFirst ==
  /\ Len(fit) = Len(out) + Queued + (IF Pushing THEN 1 ELSE 0)
  /\ \A i \in 1 .. Len(out) : out[i] = fit[i]

QueuedIsNext == \A i \in 1 .. Queued : entries[(tail + i - 1) % Length] = fit[Len(out) + i]

PushIsLast ==
  /\ Pushing => Queued < Length - 1 /\ fit[Len(fit)] = received
  /\ handler = "publish" => entries[head] = received

PopIsFirst ==
  /\ task \in {"read", "release"} => Queued > 0
  /\ task = "release" => popped = entries[tail]

RingInv == TypeOK /\ OutIsFirst /\ QueuedIsNext /\ PushIsLast /\ PopIsFirst
=============================================================================
