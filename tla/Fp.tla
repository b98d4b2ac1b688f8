--------------------------------- MODULE Fp ---------------------------------
(***************************************************************************)
(* The floating point and SIMD registers of the cores and the copies of    *)
(* them the scheduler keeps per program (arch::fp, and the fields `fp` and *)
(* `fp_core` of a task).  The state is a record and what the scheduler     *)
(* does to it are operators on that record.                                *)
(*                                                                         *)
(* What the 32 registers hold is abstracted to whose values they are and   *)
(* which of FpVersions values that program last computed.                  *)
(***************************************************************************)
EXTENDS Naturals

CONSTANTS TaskIds, Cores, NoTask,
          FpVersions  \* bound: how many different register contents are told apart

FpValue == [of : TaskIds \cup {NoTask}, v : 0 .. FpVersions - 1]

FpState == [owner   : [Cores -> TaskIds \cup {NoTask}], \* OWNER
            regs    : [Cores -> FpValue],               \* the registers themselves
            allowed : [Cores -> BOOLEAN],               \* CPACR_EL1.FPEN
            saved   : [TaskIds -> FpValue],             \* Task::fp
            loaded  : [TaskIds -> SUBSET Cores]]        \* Task::fp_core: at most one

FpNew ==
  [owner   |-> [c \in Cores |-> NoTask],
   regs    |-> [c \in Cores |-> [of |-> NoTask, v |-> 0]],
   allowed |-> [c \in Cores |-> FALSE],
   saved   |-> [t \in TaskIds |-> [of |-> t, v |-> 0]],
   loaded  |-> [t \in TaskIds |-> {}]]

\* Program t trapped on an FP instruction on core c: its values are loaded.
TakeFpRegisters(f, c, t) ==
  [f EXCEPT !.regs[c] = f.saved[t], !.owner[c] = t, !.loaded[t] = {c}, !.allowed[c] = TRUE]

\* Program t computes: the instruction runs on core c without trapping.
FpCompute(f, c, v) == [f EXCEPT !.regs[c].v = v]

\* Mutated form of FpSwitch: who used the registers last isn't looked at.
FpSwitchByCore(f, c, cur, next, isProgram) ==
  LET saves == next # cur /\ f.owner[c] = cur /\ isProgram
      g == [f EXCEPT !.saved[cur] = IF saves THEN f.regs[c] ELSE f.saved[cur]]
  IN  [g EXCEPT !.allowed[c] = f.loaded[next] = {c}]

\* Core c switches from task cur to task next.  Only programs have FP state.
FpSwitch(f, c, cur, next, isProgram) ==
  LET saves == next # cur /\ f.owner[c] = cur /\ isProgram
      g == [f EXCEPT !.saved[cur] = IF saves THEN f.regs[c] ELSE f.saved[cur]]
  IN  [g EXCEPT !.allowed[c] = f.owner[c] = next /\ f.loaded[next] = {c}]
=============================================================================
