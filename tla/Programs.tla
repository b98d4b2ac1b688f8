------------------------------ MODULE Programs ------------------------------
(***************************************************************************)
(* Programs from start to end (process, process::handles and               *)
(* process::buffer): PROCESSES and what a program holds in it, its         *)
(* children, the ASIDs, and the file bytes the kernel keeps for programs.  *)
(*                                                                         *)
(* A system call is a sequence of holds of PROCESSES, of ASIDS and of      *)
(* steps on atomics, between which every other program and the shell may   *)
(* run.  Task numbers go up and are never used twice.  Files are as long   *)
(* as they need to be, and reading one may find any length.  Waiting for a *)
(* pipe is module Pipe, the screen module Screen, and how a kill reaches a *)
(* program module Sched.                                                   *)
(***************************************************************************)
EXTENDS Integers, Sequences, FiniteSets, SequencesExt, FiniteSetsExt

CONSTANTS MaxTasks,       \* bound: programs started in all
          MaxHandles,     \* MAX_HANDLES
          Asids,          \* 1 .. Asid::COUNT - 1
          MaxFile,        \* MAX_FILE
          Sizes,          \* bound: how long the files on the card are
          Budget,         \* BUDGET
          MaxInput        \* MAX_INPUT, in lines

VARIABLES processes,      \* PROCESSES: task -> Running
          at,             \* where each program, and the shell (task 0), is
          call,           \* the locals of its system call
          leaving,        \* the Running that exit has taken out of PROCESSES
          exit,           \* how it ended: Process::exit
          asids, held,    \* ASIDS, HELD
          tlb,            \* translations some core may have cached: <<asid, program>>
          printed,        \* the programs on their way out whose end was printed
          letGo           \* those whose parent stopped watching before they ended

vars == <<processes, at, call, leaving, exit, asids, held, tlb, printed, letGo>>
resources == <<asids, held, tlb>>
history == <<printed, letGo>>

Shell == 0
TaskIds == 1 .. MaxTasks
None == "none"

NoCall == [asid |-> 0, buffer |-> 0, child |-> 0, status |-> None]
Empty == [kind |-> "empty", n |-> 0]
Child(id) == [kind |-> "child", n |-> id]
File(capacity) == [kind |-> "file", n |-> capacity]
NewFile(capacity) == [kind |-> "new", n |-> capacity]

Started(parent, asid) ==
  [parent |-> parent, asid |-> asid, killed |-> FALSE, handles |-> [slot \in 1 .. MaxHandles |-> Empty],
   waiting_for |-> 0, input |-> 0]

Nothing == Started(Shell, 0)

InProcesses(p) == p \in DOMAIN processes

Go(p, place) == at' = [at EXCEPT ![p] = place]

\* Running, changed under PROCESSES.
Update(p, running) == processes' = [processes EXCEPT ![p] = running]

\* What the file buffers it has open hold together.
Buffers(running) ==
  FoldLeft(LAMBDA sum, open : IF open.kind \in {"file", "new"} THEN sum + open.n ELSE sum, 0, running.handles)

\* Handles::insert: the first free slot.
Room(p) == {slot \in 1 .. MaxHandles : processes[p].handles[slot] = Empty}

Inserted(p, open) == [processes[p] EXCEPT !.handles[Min(Room(p))] = open]

\* exit begins, with the status it is given.
Ending(p, how) == Go(p, "exit") /\ call' = [call EXCEPT ![p] = [NoCall EXCEPT !.status = how]]

\* The end of on_user_sync, as far as was_killed: back to the program, unless it was killed.  The
\* shell's calls are no system calls.
Returns(p) ==
  IF p # Shell /\ processes[p].killed THEN Ending(p, "Ended")
  ELSE Go(p, IF p = Shell THEN "user" ELSE "back") /\ call' = [call EXCEPT ![p] = NoCall]

\* The rest of it, and the return to EL0.
Back(p) ==
  /\ at[p] = "back"
  /\ Go(p, "user")
  /\ UNCHANGED <<processes, call, leaving, exit, resources, history>>

Init ==
  /\ processes = <<>>
  /\ at = [p \in 0 .. MaxTasks |-> IF p = Shell THEN "user" ELSE None]
  /\ call = [p \in 0 .. MaxTasks |-> NoCall]
  /\ leaving = [p \in TaskIds |-> Nothing]
  /\ exit = [p \in TaskIds |-> None]
  /\ asids = {} /\ held = 0 /\ tlb = {}
  /\ printed = {} /\ letGo = {}
-----------------------------------------------------------------------------
(* buffer                                                                  *)

\* Mutated form of Fits: what the new buffer takes isn't counted in.
FitsAlone(bytes) == bytes <= Budget

\* take
Fits(bytes) == held + bytes <= Budget
-----------------------------------------------------------------------------
(* handles::spawn and spawn_with.  The shell's `run` has no handle for the *)
(* program, and its file isn't counted.                                    *)

\* Room for the handle is checked first, then the child's streams; then fs::read_file, which may
\* fail, and FileBuffer::adopt.
Spawn(p, size) ==
  /\ at[p] = "user" /\ p # Shell
  /\ \/ Returns(p) /\ UNCHANGED held
     \/ /\ Room(p) # {} /\ Fits(size)
        /\ held' = held + size
        /\ call' = [call EXCEPT ![p].buffer = size]
        /\ Go(p, "asid")
  /\ UNCHANGED <<processes, leaving, exit, asids, tlb, history>>

ShellSpawn ==
  /\ at[Shell] = "user"
  /\ Go(Shell, "asid")
  /\ UNCHANGED <<processes, call, leaving, exit, resources, history>>

\* NotExecutable, TooManyPrograms or OutOfMemory: what was taken is dropped.
SpawnFails(p) ==
  /\ asids' = asids \ {call[p].asid}
  /\ held' = held - call[p].buffer
  /\ Returns(p)
  /\ UNCHANGED <<processes, leaving, exit, tlb, history>>

\* elf::parse and Asid::allocate
AllocateAsid(p) ==
  /\ at[p] = "asid"
  /\ \/ SpawnFails(p)
     \/ /\ asids # Asids
        /\ asids' = asids \cup {Min(Asids \ asids)}
        /\ call' = [call EXCEPT ![p].asid = Min(Asids \ asids)]
        /\ Go(p, "build")
        /\ UNCHANGED <<processes, leaving, exit, held, tlb, history>>

NextTask == Cardinality({p \in TaskIds : at[p] # None}) + 1

\* The address space is built; the program is registered and made a task in one hold.
Register(p) ==
  LET id == NextTask
  IN  /\ at[p] = "build"
      /\ \/ SpawnFails(p)
         \/ /\ id <= MaxTasks
            /\ processes' = [q \in DOMAIN processes \cup {id} |->
                               IF q = id THEN Started(p, call[p].asid) ELSE processes[q]]
            /\ at' = [at EXCEPT ![id] = "user", ![p] = IF p = Shell THEN "user" ELSE "insert"]
            /\ tlb' = tlb \cup {<<call[p].asid, id>>}
            /\ call' = [call EXCEPT ![p].asid = 0, ![p].child = IF p = Shell THEN 0 ELSE id]
            /\ UNCHANGED <<leaving, exit, asids, held, history>>

\* The child's handle; the file is dropped at the end of the call.
InsertChild(p) ==
  /\ at[p] = "insert"
  /\ Update(p, Inserted(p, Child(call[p].child)))
  /\ held' = held - call[p].buffer
  /\ Returns(p)
  /\ UNCHANGED <<leaving, exit, asids, tlb, history>>
-----------------------------------------------------------------------------
(* Files                                                                   *)

\* open: the file is read and counted, then gets a handle, or is dropped when there is none.
Open(p, size) ==
  /\ at[p] = "user" /\ p # Shell
  /\ IF Fits(size)
     THEN held' = held + size /\ call' = [call EXCEPT ![p].buffer = size] /\ Go(p, "opened")
     ELSE Returns(p) /\ UNCHANGED held
  /\ UNCHANGED <<processes, leaving, exit, asids, tlb, history>>

InsertFile(p) ==
  /\ at[p] = "opened"
  /\ IF Room(p) # {}
     THEN Update(p, Inserted(p, File(call[p].buffer))) /\ UNCHANGED held
     ELSE held' = held - call[p].buffer /\ UNCHANGED processes
  /\ Returns(p)
  /\ UNCHANGED <<leaving, exit, asids, tlb, history>>

Create(p) ==
  /\ at[p] = "user" /\ p # Shell /\ Room(p) # {}
  /\ Update(p, Inserted(p, NewFile(0)))
  /\ Returns(p)
  /\ UNCHANGED <<leaving, exit, resources, history>>

\* FileBuffer::extend's new capacity for a byte more than it holds.
Grown(capacity) == Min({Max({capacity + 1, capacity * 2}), MaxFile})

\* write, to a new file that is full; NoSpace past MAX_FILE, NoMemory past the budget.
Write(p, slot) ==
  LET open == processes[p].handles[slot]
  IN  /\ at[p] = "user" /\ p # Shell
      /\ open.kind = "new"
      /\ IF open.n < MaxFile /\ Fits(Grown(open.n) - open.n)
         THEN /\ held' = held + (Grown(open.n) - open.n)
              /\ Update(p, [processes[p] EXCEPT !.handles[slot] = NewFile(Grown(open.n))])
         ELSE UNCHANGED <<held, processes>>
      /\ Returns(p)
      /\ UNCHANGED <<leaving, exit, asids, tlb, history>>

\* The children a parent no longer watches, if they haven't ended.
LetGo(ids) == letGo' = letGo \cup {id \in ids : exit[id] = None}

\* close: what was open is dropped outside the lock (a new file is written to the card first).
Close(p, slot) ==
  LET open == processes[p].handles[slot]
  IN  /\ at[p] = "user" /\ p # Shell /\ open # Empty
      /\ Update(p, [processes[p] EXCEPT !.handles[slot] = Empty])
      /\ call' = [call EXCEPT ![p].buffer = IF open.kind = "child" THEN 0 ELSE open.n]
      /\ LetGo(IF open.kind = "child" THEN {open.n} ELSE {})
      /\ Go(p, "closing")
      /\ UNCHANGED <<leaving, exit, resources, printed>>

Closed(p) ==
  /\ at[p] = "closing"
  /\ held' = held - call[p].buffer
  /\ Returns(p)
  /\ UNCHANGED <<processes, leaving, exit, asids, tlb, history>>
-----------------------------------------------------------------------------
(* Waiting on a child, and reading what is typed                           *)

Wait(p, slot) ==
  LET open == processes[p].handles[slot]
  IN  /\ at[p] = "user" /\ p # Shell /\ open.kind = "child"
      /\ Update(p, [processes[p] EXCEPT !.handles[slot] = Empty, !.waiting_for = open.n])
      /\ call' = [call EXCEPT ![p].child = open.n]
      /\ Go(p, "poll")
      /\ UNCHANGED <<leaving, exit, resources, history>>

\* Process::exit
Poll(p) ==
  /\ at[p] = "poll"
  /\ Go(p, IF exit[call[p].child] # None THEN "waited" ELSE "ask")
  /\ UNCHANGED <<processes, call, leaving, exit, resources, history>>

\* Mutated form of Ask: a killed program waits on.
AskNothing(p) ==
  /\ at[p] = "ask"
  /\ Go(p, "poll")
  /\ UNCHANGED <<processes, call, leaving, exit, resources, history>>

\* was_killed, and else a sleep of WAIT_POLL.
Ask(p) ==
  /\ at[p] = "ask"
  /\ Go(p, IF processes[p].killed THEN "waited" ELSE "poll")
  /\ UNCHANGED <<processes, call, leaving, exit, resources, history>>

Waited(p) ==
  /\ at[p] = "waited"
  /\ Update(p, [processes[p] EXCEPT !.waiting_for = 0])
  /\ LetGo({call[p].child})
  /\ Returns(p)
  /\ UNCHANGED <<leaving, exit, resources, printed>>

\* read_typed
ReadTyped(p) ==
  /\ at[p] = "user" /\ p # Shell
  /\ Go(p, "typed")
  /\ UNCHANGED <<processes, call, leaving, exit, resources, history>>

\* wait_until: there is a line, or the program is killed; then as much as the program asked for is
\* taken, or nothing when its buffer is bad.
TakeTyped(p) ==
  /\ at[p] = "typed"
  /\ processes[p].killed \/ processes[p].input > 0
  /\ \E rest \in 0 .. processes[p].input : Update(p, [processes[p] EXCEPT !.input = rest])
  /\ Returns(p)
  /\ UNCHANGED <<leaving, exit, resources, history>>

\* Who gets a line: the child it waits on, or the child's child, and so on.
Target[p \in 0 .. MaxTasks] ==
  IF p \notin DOMAIN processes \/ processes[p].waiting_for \notin DOMAIN processes THEN p
  ELSE Target[processes[p].waiting_for]

SendLine(p) ==
  /\ at[Shell] = "user" /\ InProcesses(p)
  /\ processes[Target[p]].input < MaxInput
  /\ Update(Target[p], [processes[Target[p]] EXCEPT !.input = @ + 1])
  /\ UNCHANGED <<at, call, leaving, exit, resources, history>>
-----------------------------------------------------------------------------
(* The end of a program                                                    *)

\* A program exits, or faults.
Exit(p, how) ==
  /\ at[p] = "user" /\ p # Shell
  /\ Ending(p, how)
  /\ UNCHANGED <<processes, leaving, exit, resources, history>>

\* A program at EL0 is sent to exit_killed; any other looks at `killed` when its call returns.  One
\* that has looked already, and is on its way back, is sent to exit_killed once it is at EL0 if a
\* core runs it just now; if it was switched away from there, redirect leaves it alone.
Kill(p) ==
  /\ InProcesses(p)
  /\ Update(p, [processes[p] EXCEPT !.killed = TRUE])
  /\ \/ at[p] \in {"user", "back"} /\ Ending(p, "Ended")
     \/ at[p] # "user" /\ UNCHANGED <<at, call>>
  /\ UNCHANGED <<leaving, exit, resources, history>>

Leave(p) ==
  /\ at[p] = "exit"
  /\ leaving' = [leaving EXCEPT ![p] = processes[p]]
  /\ processes' = [q \in DOMAIN processes \ {p} |-> processes[q]]
  /\ LetGo({open.n : open \in {o \in ToSet(processes[p].handles) : o.kind = "child"}})
  /\ Go(p, "flush")
  /\ UNCHANGED <<call, exit, resources, printed>>

\* Mutated form of Flush: nothing is flushed.
FlushNothing(p) ==
  /\ at[p] = "flush"
  /\ Go(p, "set")
  /\ UNCHANGED <<processes, call, leaving, exit, resources, history>>

\* leave_user_space and flush_tlb: the others' translations are cached again at once.
Flush(p) ==
  /\ at[p] = "flush"
  /\ tlb' = {<<processes[q].asid, q>> : q \in DOMAIN processes}
              \cup {<<leaving[q].asid, q>> : q \in {r \in TaskIds \ {p} : at[r] = "flush"}}
  /\ Go(p, "set")
  /\ UNCHANGED <<processes, call, leaving, exit, asids, held, history>>

SetExit(p) ==
  /\ at[p] = "set"
  /\ exit' = [exit EXCEPT ![p] = call[p].status]
  /\ call' = [call EXCEPT ![p] = NoCall]
  /\ Go(p, "report")
  /\ UNCHANGED <<processes, leaving, resources, history>>

\* Mutated form of Watches: a child is watched for as long as its parent runs.
WatchesEver(parent, p) == parent # Shell /\ InProcesses(parent)

Watches(parent, p) ==
  /\ parent # Shell /\ InProcesses(parent)
  /\ processes[parent].waiting_for = p \/ Child(p) \in ToSet(processes[parent].handles)

\* The end is printed, unless a parent watches; crashes always are.
Report(p) ==
  /\ at[p] = "report"
  /\ printed' = IF Watches(leaving[p].parent, p) /\ exit[p] # "Crashed" THEN printed ELSE printed \cup {p}
  /\ Go(p, "drop")
  /\ UNCHANGED <<processes, call, leaving, exit, resources, letGo>>

\* Running is dropped, and the task ends.
Drop(p) ==
  /\ at[p] = "drop"
  /\ held' = held - Buffers(leaving[p])
  /\ asids' = asids \ {leaving[p].asid}
  /\ leaving' = [leaving EXCEPT ![p] = Nothing]
  /\ printed' = printed \ {p} /\ letGo' = letGo \ {p}
  /\ Go(p, "gone")
  /\ UNCHANGED <<processes, call, exit, tlb>>
-----------------------------------------------------------------------------
\* What the kernel does for a task once it has begun.
InKernel(p) ==
  \/ AllocateAsid(p) \/ Register(p) \/ InsertChild(p)
  \/ InsertFile(p) \/ Closed(p) \/ Back(p)
  \/ Poll(p) \/ Ask(p) \/ Waited(p) \/ TakeTyped(p)

Ends(p) == Leave(p) \/ Flush(p) \/ SetExit(p) \/ Report(p) \/ Drop(p)

Calls(p) ==
  \/ Create(p) \/ ReadTyped(p)
  \/ \E size \in Sizes : Spawn(p, size) \/ Open(p, size)
  \/ \E slot \in 1 .. MaxHandles : InProcesses(p) /\ (Write(p, slot) \/ Close(p, slot) \/ Wait(p, slot))
  \/ \E how \in {"Ended", "Crashed"} : Exit(p, how)

Next ==
  \/ ShellSpawn
  \/ InKernel(Shell)
  \/ \E p \in TaskIds : InKernel(p) \/ Ends(p) \/ Calls(p) \/ Kill(p) \/ SendLine(p)

Spec == Init /\ [][Next]_vars
-----------------------------------------------------------------------------
(* Properties.                                                             *)

\* The programs that have an address space: those registered, and those not done exiting.
Alive == DOMAIN processes \cup {p \in TaskIds : at[p] \in {"flush", "set", "report", "drop"}}

RunningOf(p) == IF InProcesses(p) THEN processes[p] ELSE leaving[p]

\* "An address space identifier ... Given back when dropped, which must come after flushing the TLB":
\* no two programs have the same one, none is lost, and no core has a translation cached under a
\* program's ASID that another program left behind.
AsidsOwn ==
  /\ \A p, q \in Alive : p # q => RunningOf(p).asid # RunningOf(q).asid
  /\ asids = {RunningOf(p).asid : p \in Alive} \cup ({call[p].asid : p \in 0 .. MaxTasks} \ {0})
  /\ \A p \in DOMAIN processes, q \in TaskIds : <<processes[p].asid, q>> \in tlb => p = q

\* "counted against the budget for as long as they exist": HELD is what the file buffers of all
\* programs hold together, those of calls under way and of programs on their way out included, so
\* that it comes back to zero, on every path, and never goes past the budget.
HeldExact ==
  /\ held = MapThenSumSet(LAMBDA p : call[p].buffer, 0 .. MaxTasks)
              + MapThenSumSet(LAMBDA p : Buffers(RunningOf(p)), Alive)
  /\ held <= Budget

\* "A parent still watching ... reports the exit itself; otherwise nobody would": a program's end is
\* printed unless its parent could still learn of it from the handle when it ended; a parent that
\* stops watching before then leaves the printing to the child, however the two interleave.
EndsReported ==
  \A p \in TaskIds : at[p] = "drop" /\ p \notin printed => p \notin letGo /\ exit[p] # "Crashed"

\* "A killed program stops waiting (and exits once the call returns)": it must end, whatever call
\* it is in.  A killed program outside a call is one that was killed just after it looked: it runs
\* on until it makes another call, or is killed again (module Sched, KilledUserIsRedirected).
Doomed(p) == p \in Alive /\ RunningOf(p).killed /\ at[p] \notin {"back", "user"}
=============================================================================
