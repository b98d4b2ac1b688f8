---------------------------- MODULE SerialLinks -----------------------------
(***************************************************************************)
(* What comes by the serial line: bytes (RxQueue), and requests of the     *)
(* Uno (Session).                                                          *)
(***************************************************************************)
EXTENDS Integers, Sequences, LinkVars

CONSTANTS Length, RxMaxBytes, InboxLimit, MaxBoots, MaxSeq, MaxWire, MaxOthers

\* A ring has a slot.
ASSUME RxAssumption == Length \in Nat \ {0} /\ RxMaxBytes \in Nat

\* The Uno starts, and has a request.
ASSUME SessionAssumption ==
  InboxLimit \in Nat /\ MaxBoots \in Nat \ {0} /\ MaxSeq \in Nat \ {0} /\ MaxWire \in Nat

Rx == INSTANCE RxQueue WITH
  MaxBytes <- RxMaxBytes, entries <- v1, head <- v2, tail <- v3, overflowed <- v4,
  handler <- v5, task <- v6, popped <- v7, stale <- v8, received <- v9, fit <- v10,
  unsaid <- v11, out <- v12
Session == INSTANCE Session WITH
  uno <- v1, toPi <- v2, toUno <- v3, link <- v4, pending <- v5, inbox <- v6, shell <- v7,
  lastSeq <- v8, cached <- v9, ran <- v10, lostHello <- v11, others <- v12
-----------------------------------------------------------------------------
\* However the handler and the link task take turns:
\*   - Every byte that fits in the ring comes out once and in order.
ReceivedInOrder ==
  part = "receiving" =>
    /\ Rx!TypeOK
    /\ Rx!BytesInOrder

\* Whatever frames are lost or sent again, and however often the Uno restarts:
\*   - No request of the Uno runs twice, however often it is sent again.
\*   - BUSY is said only of a request that waits for the shell or is handled by it.
\*   - A request is answered with its own reply, unless the HELLO before it was dropped.
\*   - The Uno takes the reply to the request it made, in its first start.
RequestsRunOnce ==
  part = "session" =>
    /\ Session!TypeOK
    /\ Session!RunOnce
    /\ Session!BusyIsTrue
    /\ Session!CacheIsOwn
    /\ Session!TakesOwnReply
=============================================================================
