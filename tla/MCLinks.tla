------------------------------- MODULE MCLinks -------------------------------
(***************************************************************************)
(* Two sides that go on at their own pace, and what they hand over to one  *)
(* another: bytes of the serial line (RxQueue) and requests of the Uno     *)
(* (Session), bytes of a pipe (Pipe), an address (Dhcp), the time          *)
(* (ClockSync), a new kernel (Update), and the stacks that the other cores *)
(* start on (Cores). Each behaviour is of one of them.                     *)
(***************************************************************************)
EXTENDS SerialLinks, NetLinks, LocalLinks

CONSTANTS maker, second, s1, s2,
          Parts  \* the components to look at

\* The images of the runs of deploy.py: two kernels as long as one another, and no kernel.
MCImage == <<<<1, 2>>, <<1, 3>>, <<0>>>>
MCIsKernel(image) == image[1] = 1

\* The variables a component has no use for.
Unused == 0

RxKeeps == UNCHANGED <<part>>
SessionKeeps == UNCHANGED <<part>>
PipeKeeps == UNCHANGED <<part>>
DhcpKeeps == UNCHANGED <<part, v8, v9, v10, v11, v12>>
ClockKeeps == UNCHANGED <<part, v6, v7, v8, v9, v10, v11, v12>>
UpdateKeeps == UNCHANGED <<part, v11, v12>>
CoresKeeps == UNCHANGED <<part, v11, v12>>

Starts ==
  \/ part = "receiving" /\ Rx!Init
  \/ part = "session" /\ Session!Init
  \/ part = "pipe" /\ Pipe!Init
  \/ part = "dhcp" /\ Dhcp!Init
     /\ v8 = Unused /\ v9 = Unused /\ v10 = Unused /\ v11 = Unused /\ v12 = Unused
  \/ part = "clock" /\ Clock!Init
     /\ v6 = Unused /\ v7 = Unused /\ v8 = Unused /\ v9 = Unused /\ v10 = Unused
     /\ v11 = Unused /\ v12 = Unused
  \/ part = "update" /\ Update!Init
     /\ v11 = Unused /\ v12 = Unused
  \/ part = "cores" /\ Cores!Init
     /\ v11 = Unused /\ v12 = Unused

Init == part \in Parts /\ Starts

Next ==
  \/ part = "receiving" /\ Rx!Next /\ RxKeeps
  \/ part = "session" /\ Session!Next /\ SessionKeeps
  \/ part = "pipe" /\ Pipe!Next /\ PipeKeeps
  \/ part = "dhcp" /\ Dhcp!Next /\ DhcpKeeps
  \/ part = "clock" /\ Clock!Next /\ ClockKeeps
  \/ part = "update" /\ Update!Next /\ UpdateKeeps
  \/ part = "cores" /\ Cores!Next /\ CoresKeeps

Spec == Init /\ [][Next]_vars
=============================================================================
