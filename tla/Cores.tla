-------------------------------- MODULE Cores -------------------------------
(***************************************************************************)
(* Starting the other cores (sys::cores, and _secondary_start of boot.s).  *)
(* Core 0 has its caches on; the others have theirs off until they turn on *)
(* their MMU, so they see memory only.  The words that core 0 writes for   *)
(* them are in two cache lines: SECONDARY_STACK_TOPS and the spin table.   *)
(* A line that was written to may reach memory at any time, and one that   *)
(* is being cleaned does so by the next dsb: until then, not in any order. *)
(* A core in the firmware's loop wakes from its wfe at any event, not just *)
(* at this sev.                                                            *)
(***************************************************************************)
EXTENDS Integers

CONSTANT CORES

VARIABLES memory, cache,   \* the two lines: in each, a word for every core
          dirty,           \* the lines that were written to
          cleaning,        \* the lines that were cleaned since the last dsb
          start,           \* where core 0 is
          at, sp,          \* where the other cores are, and on which stack
          RUNNING,
          answer,          \* what start returned
          early            \* history: the cores that woke before the dsb

vars == <<memory, cache, dirty, cleaning, start, at, sp, RUNNING, answer, early>>
lines == <<memory, cache, dirty, cleaning>>
others == <<at, sp, RUNNING, answer, early>>

Others == 1 .. CORES - 1
Lines == {"tops", "slots"}
Unset == 0
EntryPoint == 1
StackOf(core) == 100 + core   \* the top of a stack allocated for it

Go(place, core) == start' = [at |-> place, core |-> core]

\* what core 0 sees of the lines
Seen == [line \in Lines |-> IF line \in dirty THEN cache[line] ELSE memory[line]]

\* core 0 writes a word; other words of the line are as it sees them
Store(line, core, value) ==
  /\ cache' = [cache EXCEPT ![line] = [Seen[line] EXCEPT ![core] = value]]
  /\ dirty' = dirty \cup {line}
  /\ UNCHANGED <<memory, cleaning>>

\* clean_to_memory: what is in the line now will be in memory by the next dsb.
CleanToMemory(line) ==
  /\ cleaning' = cleaning \cup {line}
  /\ UNCHANGED <<memory, cache, dirty>>

WriteBack(those) ==
  /\ memory' = [line \in Lines |-> IF line \in those THEN Seen[line] ELSE memory[line]]
  /\ dirty' = dirty \ those
  /\ UNCHANGED cache

-----------------------------------------------------------------------------
(* start, on core 0                                                        *)

StackTop ==
  /\ start.at = "tops"
  /\ Store("tops", start.core, StackOf(start.core))
  /\ IF start.core < CORES - 1 THEN Go("tops", start.core + 1) ELSE Go("cleanTops", 1)
  /\ UNCHANGED others

\* Mutated form of CleanTops: they stay in the cache.
CleanTopsNot ==
  /\ start.at = "cleanTops"
  /\ Go("slot", 1)
  /\ UNCHANGED <<lines, others>>

CleanTops ==
  /\ start.at = "cleanTops"
  /\ CleanToMemory("tops")
  /\ Go("slot", 1)
  /\ UNCHANGED others

Slot ==
  /\ start.at = "slot"
  /\ Store("slots", start.core, EntryPoint)
  /\ Go("cleanSlot", start.core)
  /\ UNCHANGED others

CleanSlot ==
  /\ start.at = "cleanSlot"
  /\ CleanToMemory("slots")
  /\ IF start.core < CORES - 1 THEN Go("slot", start.core + 1) ELSE Go("barrier", 0)
  /\ UNCHANGED others

\* dsb sy; sev: nobody needs the latter in order to wake (see Wake).
Barrier ==
  /\ start.at = "barrier"
  /\ WriteBack(cleaning)
  /\ cleaning' = {}
  /\ Go("wait", 0)
  /\ UNCHANGED others

\* All are there, or START_TIMEOUT is over.
Return ==
  /\ start.at = "wait"
  /\ Go("returned", 0)
  /\ answer' = RUNNING
  /\ UNCHANGED <<lines, at, sp, RUNNING, early>>
-----------------------------------------------------------------------------
(* The other cores                                                         *)

\* Firmware: a core that wakes and finds an address in its word goes there.
Wake(core) ==
  /\ at[core] = "spin" /\ memory["slots"][core] = EntryPoint
  /\ at' = [at EXCEPT ![core] = "started"]
  /\ early' = IF start.at \in {"wait", "returned"} THEN early ELSE early \cup {core}
  /\ UNCHANGED <<lines, start, sp, RUNNING, answer>>

\* _secondary_start, which reads memory
SecondaryStart(core) ==
  /\ at[core] = "started"
  /\ at' = [at EXCEPT ![core] = "main"]
  /\ sp' = [sp EXCEPT ![core] = memory["tops"][core]]
  /\ UNCHANGED <<lines, start, RUNNING, answer, early>>

\* Mutated form of After: a core reports in before it takes tasks.
AfterEarly(place) ==
  CASE place = "main" -> "mmuOn"
    [] place = "mmuOn" -> "counted"
    [] place = "counted" -> "scheduled"
    [] place = "scheduled" -> "ticking"
    [] OTHER -> "idle"

\* The calls of secondary_main: turn_on, start_core, start_tick, fetch_add, idle
After(place) ==
  CASE place = "main" -> "mmuOn"
    [] place = "mmuOn" -> "scheduled"
    [] place = "scheduled" -> "ticking"
    [] place = "ticking" -> "counted"
    [] OTHER -> "idle"

\* A core with no stack faults as soon as it needs one.
SecondaryMain(core) ==
  /\ at[core] \notin {"spin", "started", "idle"} /\ sp[core] # Unset
  /\ at' = [at EXCEPT ![core] = After(@)]
  /\ RUNNING' = IF at'[core] = "counted" THEN RUNNING + 1 ELSE RUNNING
  /\ UNCHANGED <<lines, start, sp, answer, early>>

\* Hardware: a line is evicted, or its cleaning completes.
Evict(line) ==
  /\ line \in dirty
  /\ WriteBack({line})
  /\ UNCHANGED <<cleaning, start, others>>
-----------------------------------------------------------------------------
Init ==
  /\ memory = [line \in Lines |-> [core \in Others |-> Unset]]
  /\ cache = memory
  /\ dirty = {} /\ cleaning = {}
  /\ start = [at |-> "tops", core |-> 1]
  /\ at = [core \in Others |-> "spin"]
  /\ sp = [core \in Others |-> Unset]
  /\ RUNNING = 1
  /\ answer = 0
  /\ early = {}

Core0 == StackTop \/ CleanTops \/ Slot \/ CleanSlot \/ Barrier \/ Return

Next ==
  \/ Core0
  \/ \E core \in Others : Wake(core) \/ SecondaryStart(core) \/ SecondaryMain(core)
  \/ \E line \in Lines : Evict(line)

Spec == Init /\ [][Next]_vars
-----------------------------------------------------------------------------
(* Properties.                                                             *)

\* "so they read their stack's top from memory: sys::cores cleans it there from its cache before
\* sending them": a core is on the stack that was allocated for it.  One dsb follows all the words, so
\* a core that another event wakes before it ("Everything in memory before the cores wake from their
\* wfe") may find no stack: then it goes no further, and nobody ever takes tasks on a stack that is
\* not its own.
OwnStack ==
  \A core \in Others : at[core] \notin {"spin", "started"} =>
    \/ sp[core] = StackOf(core)
    \/ core \in early /\ at[core] = "main" /\ sp[core] = Unset

\* "Returns how many cores are running": for each core that start counted, besides core 0, there is
\* one that takes tasks and has a tick, even if the time ran out while others were on their way.
CountIsTrue ==
  answer > 0 =>
    \E f \in [1 .. answer - 1 -> {core \in Others : at[core] \in {"ticking", "counted", "idle"}}] :
      \A i, j \in 1 .. answer - 1 : f[i] = f[j] => i = j
-----------------------------------------------------------------------------
(* Why, for any number of cores: a stack's top is written before any core  *)
(* is sent and not again, and by the dsb it is in memory.                  *)

StartTypes ==
  /\ memory \in [Lines -> [Others -> Nat]] /\ cache \in [Lines -> [Others -> Nat]]
  /\ dirty \subseteq Lines
  /\ start \in [at : {"tops", "cleanTops", "slot", "cleanSlot", "barrier", "wait", "returned"},
               core : 0 .. CORES - 1]
  /\ start.at \in {"tops", "slot", "cleanSlot"} => start.core \in Others
  /\ at \in [Others -> {"spin", "started", "main", "mmuOn", "scheduled", "ticking", "counted", "idle"}]
  /\ sp \in [Others -> Nat]
  /\ RUNNING \in Nat /\ answer \in Nat

Sent == start.at \in {"wait", "returned"}

TopsWritten ==
  \A core \in Others :
    /\ (start.at # "tops" \/ core < start.core) => Seen["tops"][core] = StackOf(core)
    /\ Seen["tops"][core] \in {Unset, StackOf(core)} /\ memory["tops"][core] \in {Unset, StackOf(core)}

TopsInMemory ==
  /\ start.at \in {"slot", "cleanSlot", "barrier"} => "tops" \in cleaning
  /\ Sent => "tops" \notin dirty

OthersWoke == \A core \in Others : at[core] = "spin" \/ core \in early \/ Sent

Counted == {core \in Others : at[core] \in {"counted", "idle"}}
\* A core for each that was counted, besides core 0.
Counting(n, cores) == \E f \in [1 .. n - 1 -> cores] : \A i, j \in 1 .. n - 1 : f[i] = f[j] => i = j

CountKept == Counting(RUNNING, Counted) /\ answer <= RUNNING /\ RUNNING >= 1

StartInv == StartTypes /\ TopsWritten /\ TopsInMemory /\ OthersWoke /\ OwnStack /\ CountKept
=============================================================================
