----------------------------- MODULE LocalLinks -----------------------------
(***************************************************************************)
(* What is handed over within the Pi: bytes of a pipe (Pipe), and the      *)
(* stacks that the other cores start on (Cores).                           *)
(***************************************************************************)
EXTENDS Integers, Sequences, LinkVars

CONSTANTS Programs, Maker, Readers, Writers, Killable, Capacity, PipeMaxBytes, CORES

\* A pipe holds at least a byte.
ASSUME PipeAssumption == Capacity \in Nat \ {0} /\ PipeMaxBytes \in Nat /\ Maker \in Programs

\* There are other cores to start.
ASSUME CoresAssumption == CORES \in Nat /\ CORES >= 2

Pipe == INSTANCE Pipe WITH
  MaxBytes <- PipeMaxBytes, bytes <- v1, readers <- v2, writers <- v3, ends <- v4, at <- v5,
  op <- v6, stale <- v7, interrupted <- v8, killed <- v9, exiting <- v10, put <- v11,
  got <- v12
Cores == INSTANCE Cores WITH
  memory <- v1, cache <- v2, dirty <- v3, start <- v4, at <- v5, sp <- v6, RUNNING <- v7,
  answer <- v8, cleaning <- v9, early <- v10
-----------------------------------------------------------------------------
\* However readers and writers take turns, and whoever is killed or exits:
\*   - A pipe is a queue, however many programs use it and are killed meanwhile.
\*   - No program waits for PIPE while its call could go on, unless someone is about to notify it.
\*   - A read of nothing means that no writers are left, that the reader was killed, or that another
\*     reader took what was there since this one looked.
PipeIsQueue ==
  [][part = "pipe" =>
       /\ Pipe!TypeOK'
       /\ Pipe!BytesInOrder'
       /\ Pipe!NobodyForgotten'
       /\ Pipe!ZeroMeansOverStep]_vars

\* In whatever order the lines that core 0 wrote reach memory, and whenever the other cores wake:
\*   - A core that starts with its caches off finds its own stack; one that wakes before the dsb may
\*     find none, and then goes no further.
\*   - cores::start counts cores that take tasks.
CoresStartRight ==
  part = "cores" =>
    /\ Cores!OwnStack
    /\ Cores!CountIsTrue
=============================================================================
