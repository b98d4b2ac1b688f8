# A verification project for the kernel

TLA+ models of the multi-core Raspberry Pi kernel in `src/`, the TLC runs that
model-check them, and TLAPS proofs of what matters most. The code is the
reference: every definition is translated from the lines that `PROJECT.json`
gives for it under `map`.

To check a run: `tlc -config Sched.cfg Sched`. To check the proofs of a module:
`tlapm StackProofs.tla`.

## The system and its parts

The kernel (`src/src`) runs on up to four AArch64 cores. `rustypi-core` has the
parts that are testable on a host (policies, file system, protocols),
`rustypi-abi` the system call interface, `rustypi-user` the library of the
programs that run at EL0.

| Part | Code | Modules |
|---|---|---|
| Scheduling policy | `rustypi-core/src/sched.rs` | `RunQueue` |
| Kernel scheduler, interrupts | `src/sched.rs`, `src/arch/exception.*` | `Sched` |
| Starting the other cores | `src/sys/cores.rs`, `src/arch/boot.s` | `Cores`, `Sched` |
| Floating point registers | `src/arch/fp.rs`, `src/sched.rs` | `Fp` |
| Sleeping lock | `src/synchronization.rs`, `rustypi-core/src/lock.rs` | `Mutex`, `FifoLock` |
| Programs, handles, file buffers, ASIDs | `src/process/` | `Programs`, `Sched` |
| Pipes | `src/process/pipe.rs`, `handles.rs` | `Pipe` |
| Frames and address spaces | `rustypi-core/src/frames.rs`, `paging.rs` | `Paging` |
| Program loader | `rustypi-core/src/elf.rs`, `src/process/mod.rs` | `Loader` |
| Heap | `rustypi-core/src/heap.rs` | `Heap` |
| FAT file system, installing a kernel | `rustypi-core/src/fat/`, `src/sys/fs.rs` | `FatLayout`, `FatWrite`, `FileStore` |
| SD card | `src/drivers/sdcard.rs`, `rustypi-core/src/sd.rs` | `SdCard` |
| Serial line, frames, session of the Arduino | `src/drivers/uart.rs`, `link.rs`, `session.rs`, `src/main.rs` | `RxQueue`, `Framing`, `Session` |
| USB keyboard and line editing | `rustypi-core/src/keys.rs`, `line.rs`, `src/sys/usb.rs` | `Keyboard` |
| USB tree, USB host controller | `rustypi-core/src/usb/`, `src/sys/usb.rs`, `src/drivers/usb.rs` | `UsbTree`, `UsbHost` |
| Ethernet controller | `src/drivers/lan7800.rs`, `rustypi-core/src/net/lan7800.rs` | `Lan7800` |
| IP interface: DHCP, ARP, pings | `rustypi-core/src/net/` | `Dhcp`, `Neighbours` |
| Network task, DNS, SNTP | `src/sys/net/`, `src/sys/clock.rs` | `NetTask`, `ClockSync` |
| Network update | `rustypi-core/src/update.rs`, `src/sys/update.rs`, `tools/deploy.py` | `Update` |
| Mailbox to the GPU's firmware | `src/drivers/mailbox/`, `rustypi-core/src/mailbox/` | `Mailbox` |
| Console and screen | `src/sys/console.rs`, `rustypi-core/src/console.rs` | `Screen` |
| Dates and time zones | `rustypi-core/src/time.rs` | `Calendar` |

What is in neither column is under *Not modelled* below.

How they interact: every part runs as tasks of the scheduler. Interrupt handlers
(timer, UART, other cores) make tasks ready; tasks wait for *events* with
`sched::wait_until`; a `Mutex` puts tasks to sleep with `sched::block` and
`sched::wake`; pipes and the UART's queue are state behind a spinlock, or no
lock at all, with an event beside it; programs are tasks that also run at EL0
and can be killed from any core. Files go through `FatWrite` to the blocks of
`SdCard`; frames go from `Lan7800` over the transfers of `UsbHost` on the bus of
`UsbTree`; `Dhcp`, `Neighbours`, `NetTask`, `ClockSync` and `Update` are what
one network task does in turn.

## Modules

    RunQueue --- Sched --- SchedProofs --- StackProofs --- ResumeProofs --- WakeProofs
                   |
                  Fp
    FifoLock <== Mutex --- MutexProofs
    FileStore <== FatWrite --- FatLayout

    SerialLinks (RxQueue Session) --------- SerialProofs
    NetLinks (Dhcp ClockSync Update) ------ NetProofs
    LocalLinks (Pipe Cores) --------------- LocalProofs

    MCDevices:  SdCard FatWrite UsbTree UsbHost Keyboard Mailbox Lan7800 Framing
    MCLinks:    SerialLinks NetLinks LocalLinks
    MCServices: Programs Heap Paging Loader Screen Neighbours NetTask Calendar
    MCProgress: Mutex, and the liveness of SdCard UsbTree UsbHost RxQueue Dhcp Neighbours
                NetTask ClockSync Programs Pipe

(`---`: extended or instantiated by; `<==`: implemented by.)

Components that share no state with one another are checked side by side: an MC
module instantiates several, and each behaviour is of one of them (`part`). So
every component has its own constants in the run's `.cfg` and its own properties
(with a prefix in the MC module), and the state space is the sum of theirs, not
the product. Those of `MCLinks` are the ones that theorems are about: the modules
`SerialLinks`, `NetLinks` and `LocalLinks` instantiate them over the variables of
`LinkVars` and state their properties, `MCLinks` puts the three together for TLC, and
a proof module extends one of the three. Components that do share state are one module: the scheduler with
its redirects and floating point, the file system with the kernel's installation,
the USB tree with the task that walks it and the keyboard it serves, the session
with both its tasks and the Uno, programs with their parents and children.
### RunQueue and Fp: the data

A `RunQueue` is a record; each method of the Rust type is an operator from the
queue it finds to the queue it leaves. So the kernel's scheduler, which calls
several methods under one hold of its lock, composes operators exactly where the
code composes calls. Task ids are numbers handed out once (`len`), a reaped task
is `Gone`. Time is relative: `Sleeping(n)` has `n` units to go. `pick_next` is
`Chosen` (the first ready task after the current one, wrapping around) and
`PickNext`. CPU accounting is left out; only `ps` reads it.

`Fp` does the same for the registers, `OWNER`, `CPACR_EL1.FPEN` and the saved
copies: the contents are abstracted to *whose* values they are and a version.

### Sched: the cores

`SCHEDULER` is a spinlock that masks interrupts, so each hold of it is one
action. What happens between two holds is where others come in, and the model
keeps each of those gaps as a *position* (`pc[c]` for a core, `context[t]` for a
task that isn't running). The positions are listed in the module; the gaps that
matter:

* `svc`, `svcTop`, `svcGone`: the task has told the queue it sleeps, waits,
  blocks or has finished, and hasn't executed `svc #0` yet;
* `LEAVING[c]`: the core has switched but is still on the old stack;
* `top`, `look`, `wait`: `wait_until` has still to read the generation, evaluate
  the condition, or wait;
* `notify`: a task has made a condition true and hasn't notified yet;
* `np`, `npEnd`: inside `no_preempt`; between the two halves of its end;
* `ret`: a system call found its program not killed and hasn't masked interrupts;
* `kill`: between the redirect and the interrupt of a kill;
* `exit`, `leave`, `drop`, `finish`: the stages of `process::exit`.

`SwitchTo` is all of `Scheduler::switch`: redirect, save, pick, reap, FP, the
translation base, LEAVING. `OnYield`, `OnIrq`, `FinishSwitch`, `StartSecondary`
and the task's own operations are the actions; an interrupt handler handles the
timer, the UART and a nudge in any combination, as `on_irq` does. Tasks are
arbitrary clients: at `run`, kernel code may do any operation of its workload
next. `Ops` is chosen once, in `Init`, from the constant `Workloads`, so that one
run covers several workloads without the product of them. A panic of the life
cycle is a position of its own, so that reaching one is visible.

Three specifications:

* `Spec`: the code as it is;
* `OrderedSpec`: the same without the behaviours in which one core wakes a task
  that another core still executes between its call into the queue and its `svc`.
  Nothing in the code excludes them (this is the finding of `SchedEarlyWake`),
  and they break so much that nothing else could be checked beside them. On one
  core both specifications are the same (`OneCoreIsOrdered` uses it);
* `FairSpec`: `Spec` with fairness, below.

### Mutex and FifoLock

`Mutex` has the sleeping lock over `LockState` with the two scheduler calls it is
built on. The lock's state is behind one spinlock and the scheduler's behind
another: a task queues in one action and blocks in the next, an unlock makes the
successor the owner in one action and wakes it in the next. `wakePending` is one
flag per task for *all* locks, which is why there are several locks in the model.
`FifoLock` is what the lock promises: a line, the first of which is inside. `MCProgress`
extends `Mutex`, so that its run checks the properties the theorems are about.

### Files: FatLayout, FatWrite, FileStore, SdCard

`FatLayout` reads a volume: chains, directories with long names over two slots,
and the files they hold, as operators of the sectors. `FatWrite` has the calls of
`sys::fs` that change one. A call is a list of *phases*, a phase a list of sector
writes in the code's order; `WriteSector` does the next, and before any of them
the power may fail (`PowerCut`: memory is lost, the volume is mounted again) or the
device may report an error (`DeviceError`) of a sector that it has written or has
not: the driver's last waits come after the data has gone to the card. The variables
`miscounted` and `disowned` are history: what was left uncounted by an error, and that
an entry which did reach the card was taken for one that did not. The others beside
the sectors are
`fat_cache`, `free_count` and `next_free`. `FileStore` is what callers are promised:
one file changes, all at once or not at all; `FatWrite` implements it, with the set
of files the sectors hold as its refinement mapping. `SdCard` has the driver below:
scripts of commands and waits with timeouts, the controller's flags and FIFO, and
the card's state machine, which may answer late, wrongly or not at all.

### The serial line: RxQueue, Framing, Session

`RxQueue` has one action per load or store of shared memory of the ring that the
UART's interrupt handler fills on one core and the link task empties on another.
Loads and stores take effect in program order, which the acquire and release
orderings of `head` and `tail` justify. `Framing` has writer and receiver of frames
with damaged, lost and plain text in between, lines longer than `MAX_LINE` included;
`Session` the link task, the shell
task and the session between them, with the bounded inbox, `PENDING`, and a Uno that
retransmits, gives up and restarts (modelled from what `session.rs` says of it).

### USB and the keyboard: UsbTree, UsbHost, Keyboard, Lan7800

`UsbTree` has the enumerator's steps between two control transfers, beside a bus on
which devices are plugged in and pulled, reset and fail. Its recursion over hubs is
the variable `stack`. Two histories say what it misses: `overlooked` the ports whose
change it cleared without having seen it, `orphaned` that the keyboard in use was
forgotten with a hub above it. `UsbHost` has the transfers themselves with their toggles,
NAKs, split transactions and retries; device and transaction translator follow the
USB 2.0 rules the driver relies on. `Keyboard` goes from the reports of a keyboard
to the line that is typed and its echo. `Lan7800` has the Ethernet controller's
registers and PHY, calls that fail in the middle, and the unwrapping of frames.

### The network: Dhcp, Neighbours, NetTask, ClockSync, Update

A message once sent stays in a set: it may arrive late, twice, out of order or not
at all. Times are what is left of them. `Dhcp` and `Neighbours` are the two halves of
the interface; `NetTask` the rounds of the network task with the queues to and from
the commands that wait in `resolve`; `ClockSync` the setting of the clock; `Update`
both the receiver and `tools/deploy.py`, run several times while datagrams of its
earlier runs, their beginnings included, may still arrive.

### Programs: Programs, Pipe, Heap, Paging, Loader, Screen

`Programs` has `PROCESSES` and what a program holds: handles, files and their
buffers, children, its ASID, from each way starting can fail to each way of ending.
A call is a sequence of holds of locks, and kills fall between them, the one between
`was_killed` and the return to EL0 included (`Back`). `Pipe` has the
pipe's state, the counted ends, and programs that read, write, pass ends on to
children, close them, exit and are killed; a read or a write is `wait_until`'s loop
(`Look`, `Ask`, `Check`, `WaitCurrent`), then the hold that moves bytes, then the
notify. `Heap` and `Paging` keep the real data structures (the address-ordered list;
tables in frames, walked as the MMU does) at small sizes. `Loader` tries what
`elf::parse` accepts against what can be mapped. `Screen` has the console's cells, the
printing cores and the lease of the screen, with `LENT` read outside the lock.

### Mailbox, Cores, Calendar

`Mailbox` and `Cores` are about caches: the firmware, and a core that has just
woken, see memory only, and a line may be fetched or evicted at any time, so the
modules say what has to be cleaned and invalidated when. In `Cores` a `dc civac` only
starts the cleaning of a line: it is over at the `dsb` (`Barrier`), of which `start`
has one, after all words; before it lines reach memory in any order. `Calendar`
compares the arithmetic of `time.rs` with a calendar that is kept by hand, day by day,
and files are stamped with local time, in both zones.

## The runs

| Run | Spec | Distinct states | What it shows |
|---|---|---|---|
| `Sched` | `OrderedSpec`, 2 cores, 4 task ids, five workloads | 395 000 | the nine safety properties below |
| `SchedProgress` | `FairSpec`, 2 cores, 4 task ids, two workloads | 8 200 | round robin reaches every ready task; a program killed while running exits |
| `Devices` | `Spec` of `MCDevices` | 786 000 | nine properties of eight components |
| `Links` | `Spec` of `MCLinks` | 1 124 000 | seven properties of seven components |
| `Services` | `Spec` of `MCServices` | 1 237 000 | eight properties of eight components |
| `Progress` | `FairSpec` of `MCProgress` | 95 000 | every call that waits returns, and nothing noticed is forgotten; the sleeping lock's exclusion, its debug assertion and its order |
| `SchedEarlyWake` | `Spec`, 2 cores | | **violated**: `OneStackUser` |
| `SchedFpMoves` | `OrderedSpec`, 2 cores, 2 programs | | **violated**: `FpLatestValues` |
| `SchedKillReturning` | `Spec`, 1 core | | **violated**: `KilledUserIsRedirected` |
| `HelloDropped` | `Spec` of `Session` | | **violated**: `CacheIsOwnAlways` |
| `ResolveHangs` | `FairSpec` of `NetTask` | | **violated**: `ResolveEnds` |
| `FatErrorWritten` | `Spec` of `MCDevices`, files only | | **violated**: `FatEntriesOwnClusters` |

### Properties

`Sched`:
* `OneStackUser`: no stack is used by two cores, LEAVING included;
* `ResumesSavedCode`: no core resumes a null context, a finished task, or a
  program that has already exited;
* `NothingInUseIsReaped`: `switch` frees no task a core runs or is leaving;
* `IdleTasksStay`: an idle task is run by its own core only;
* `NoLostWakeup`: a task waits although its condition holds only while someone is
  still about to notify, and although it was killed only while its killer is
  still about to interrupt it;
* `NoPreemptHolds`: no task is saved inside `no_preempt`, and each core counts
  exactly the sections its own code is in;
* `OwnLiveSpace`: a program runs in its own address space, and no core's
  `TTBR0_EL1` is one that has been freed;
* `FpOwnValues`: registers a program may use hold its own values;
* `EveryoneRuns`, `KilledWhileRunningExits` (liveness).

`Mutex` (in `Progress`):
* `Exclusion`: no two tasks are in the closures of one lock;
* `BlockReturnsToOwner`: `block` returns only to the owner of the lock it was called
  for;
* `ImplementsFifoLock`: locks go to tasks in the order in which they came.

The properties of the MC modules are what a component promises, each a conjunction
of properties of its module (listed in its comment there) with the module's
`TypeOK`:

| Property | Of | In short |
|---|---|---|
| `CardKeepsItsWord` | `SdCard` | Ok means every block moved; blocks are addressed as the card wants; a failed transfer doesn't spoil the next |
| `FatVolumeSound` | `FatWrite` | no entry points at another's clusters, unless the code has given a new entry's back for an error of a sector that was written; the cached FAT sector is the card's; FSInfo's count is true but after errors of the FAT or of FSInfo |
| `FatChangesAreAtomic` | `FatWrite` | every step is one of `FileStore`, and the old kernel is kept (until clusters are given back as above) |
| `TreeMatchesBus` | `UsbTree` | addresses are exact, one device answers at each, the tree is the bus but for what `overlooked` names, an unplugged keyboard is dropped unless `orphaned` |
| `TransfersExact` | `UsbHost` | data once and in order, losses are reported |
| `MailboxAnswersRight` | `Mailbox` | the firmware reads what was asked, the caller what was answered |
| `CoresStartRight` | `Cores` | no core takes tasks on a stack that isn't its own, and one that finds none woke before the `dsb`; the count is true |
| `LanWorks` | `Lan7800` | up means configured; link tells of the line as it was; good frames are found |
| `TypingRight` | `Keyboard` | each press is typed once, only held keys repeat, the screen shows the line |
| `ReceivedInOrder` | `RxQueue` | no byte overwritten, repeated or reordered |
| `FramesGetThrough` | `Framing` | an undamaged frame gets through, unless it is too long, which is reported; text is no frame, and only lines that are too long are rejected |
| `RequestsRunOnce` | `Session` | at most once, BUSY is true, the reply is the request's own |
| `AddressIsGranted` | `Dhcp` | only what the current transaction granted; the task's view follows |
| `PacketsFindTheirHop` | `Neighbours` | each packet at most once and to its hop; a ping's answer is from the host that was pinged, with the number it was sent with |
| `LookupsAnswered` | `NetTask` | the answer is to the question; nobody waiting is forgotten |
| `ClockSetClose` | `ClockSync` | wrong by half the round trip at most |
| `UpdatesWhole` | `Update` | only a whole kernel, once per `update`, and the sender's own unless a begin of an earlier run overtook it |
| `DatesRight` | `Calendar` | dates, summer time, stamps of local time that go back only when summer time ends, by an hour |
| `NothingLeftBehind` | `Programs` | ASIDs, the buffers' budget and the ends of children on every path |
| `PipeIsQueue` | `Pipe` | bytes in order, no forgotten waiter; a zero means the end, a kill, or that another reader was faster |
| `HeapSound` | `Heap` | every byte once, blocks merged, null only when nothing fits |
| `MemoryIsOwn` | `Paging` | frames once, own memory only, read-only pages kept |
| `LoadsWhatRuns` | `Loader` | what is accepted can be mapped, and the other way round |
| `ScreenComesBack` | `Screen` | one holder, and what it has drawn stays; then the console's text again |
| `CallsReturn`, `NothingForgotten` | eleven modules | the liveness of the calls and of the notices, under fairness |

Those that also say what a step may do are action properties, and their state parts
are required of every state a step leads to.

For each property of a passing run, `PROJECT.json` names mutated definitions
("Mutated form of ..." in the modules) under which TLC finds it violated, in the MC
modules one for each conjunct other than `TypeOK`.
## Bounds, and why they are enough

Every bound is a constant, named in the module that uses it and given in the `.cfg`.
Those of the scheduler and of `Links` do not limit what is proved: the theorems hold
for every value of the constants.

| Run | Bounds | Why |
|---|---|---|
| `Sched` | 2 cores; 4 task ids: core 0's, the second core's idle task and two more; `MaxSleep` 1, `MaxGeneration` 2, `MaxNest` 2 | every hazard is between a task, the core it runs on and one other; a generation is only compared with a newer one; sections nest once |
| `SchedProgress` | `MaxSleep` 0, one nesting | time only matters through its ticks |
| `Progress`: lock | 3 tasks, 2 locks | an owner, its successor and one behind; `wakePending` is shared by two locks |
| `Devices`: card | 3 blocks, 2 to a transfer, calls of up to 3, 2 calls, 2 faults | a call of two chunks; the second call is the one a first that failed could spoil |
| `Devices`: files | 6 clusters, 3 calls, 1 fault | files of up to two clusters, short and long names, a directory and the kernel; the third call finds what a crash in the second left |
| `Devices`: tree | a high-speed and a full-speed hub, a low-speed keyboard; 2 changes of the bus, 1 fault | a keyboard behind a hub that is pulled, one plugged in where another was, and one behind a full-speed hub whose translator is the hub above |
| `Devices`: host | 2 packets, 3 faults, 3 NYETs | toggles alternate; the retry limit is reached |
| `Devices`: mailbox, Ethernet | 2 callers and a batch of two messages; 2 frames, 2 errors | a caller that finds the other's call in flight |
| `Devices`: frames | lines of 6, 2 payload bytes, noise and text without end | a byte of each kind that framing tells apart; lines, and a frame, that are too long |
| `Devices`: keyboard | 4 keys, 2 held, 3 presses | a dead key and what it combines with, erase, enter |
| `Links`: serial line | a ring of 3 and 6 bytes; 2 starts and 2 numbers of the Uno, an inbox of 2 | each index wraps around; a number is met again after a restart |
| `Links`: network | 2 servers, 3 transactions; images of up to 2 blocks and 2 retries | a stale answer to an older transaction; a late begin, block or end of an earlier run |
| `Links`: pipe, cores | 2 programs that both read and one that writes, a pipe of 2 bytes, 3 bytes written; all 4 cores | two readers between whose look and move the other takes the bytes; all of `CORES` |
| `Services`: network | 1 entry in the ARP cache, 2 packets; 2 callers | an entry evicted while a packet waits; an answer for the other caller |
| `Services`: calendar | every day from 1970 to 2108, three times of day | past the last year of a FAT stamp, 2107 |
| `Services`: programs | 2 programs, 2 ASIDs, 1 handle, a budget of 1 | each table is full with one entry; an ASID is given out again |
| `Services`: memory | a heap of 13 bytes that grows to 18; 5 frames, tables of 2 entries; 3 pages of program | splits and merges at both ends; mapping fails at each level |

One bound leaves something out on purpose: the devices of `UsbHost` answer with at most
`MaxNaks` NAKs. That a control transfer straight to a device returns (`CallsReturn`)
rests on it: `direct_transfer` (`drivers/usb.rs:370-387`) asks a device that isn't ready
again for as long as it takes, without a time limit. Split and bulk transfers have
theirs, and need no such bound to return.

## Fairness

`Sched`: `Fairness` says that a tick is taken again and again while interrupts are
not masked (strong: the timer's line stays raised, but tasks mask interrupts in
between), that a core leaves the stack it has switched away from, and that a task in
the middle of a kernel operation goes on when it runs. Nothing is assumed of program
code or of what tasks choose to do.

`MCProgress`: `Weak(i)` has, per component, what is done when it stays possible: tasks
that are ready run, devices answer or the driver's time runs out. Of the lock: a task
that isn't blocked goes on (`Proceed(t)`), which is what `EveryoneRuns` gives it,
and so a holder unlocks. `Strong(i)` is
time where something else may come in between again and again: the split
transaction that times out (`Host!SplitTimesOut`), the end of the network task's
round (`Dns!EndRound(1)`), the clock (`Clock!Tick`, `Clock!Resolved`). The hardware
counter advances whatever the program does, so these are justified; no fairness is
assumed of messages, of programs at EL0, or of people.
## What is proved

All nine invariants of `Sched`, the safety of `Mutex` and the seven properties of
`Links` are proved with TLAPS, for every number of cores, tasks and events, every set
of workloads and every value of the bounds. The assumptions on the constants are `RunQueueAssumption` and
`SchedAssumption` (cores and events are numbers, core 0 exists, there are at least
two task ids, `NoTask` and `Kernel` are no numbers), `MutexAssumption`, and one
for each component of `Links` (`RxAssumption` to `CoresAssumption`: the kinds of its
constants, and that limits the code has as constants above 0 are).

| Theorem | Of | States |
|---|---|---|
| `TypeCorrect`, `NoPreemptCorrect` | `Spec` | `TypeOK`, `NoPreemptHolds` |
| `FpOwnValuesAlways` | `Spec` | `FpOwnValues` |
| `OneStackUserOrdered`, `ReapedOrdered`, `IdleOrdered` | `OrderedSpec` | `OneStackUser`, `NothingInUseIsReaped`, `IdleTasksStay` |
| `ResumesOrdered`, `SpaceOrdered` | `OrderedSpec` | `ResumesSavedCode`, `OwnLiveSpace` |
| `WakeupsOrdered` | `OrderedSpec` | `NoLostWakeup` |
| `OneCoreIsOrdered`, `OneCoreIsSafe` | `Spec`, one core | the last six without the assumption |
| `MutexExcludes`, `MutexReturnsToOwner` | `Spec` of `Mutex` | `Exclusion`, `BlockReturnsToOwner` |
| `MutexImplements` | `Spec` of `Mutex` | `ImplementsFifoLock` |
| `ReceivedInOrderAlways`, `RequestsRunOnceAlways` | `Spec` of `RxQueue`, `Session` | `ReceivedInOrder`, `RequestsRunOnce` |
| `AddressIsGrantedAlways`, `ClockSetCloseAlways`, `UpdatesWholeAlways` | `Spec` of `Dhcp`, `ClockSync`, `Update` | `AddressIsGranted`, `ClockSetClose`, `UpdatesWhole` |
| `CoresStartRightAlways` | `Spec` of `Cores` | `CoresStartRight` |
| `PipeKeepsOrder` | `Spec` of `Pipe` | its `BytesInOrder` and `NobodyForgotten` |
| `PipeIsQueueAlways` | `Spec` of `Pipe` | `PipeIsQueue` |

A theorem about a component of `Links` is about the component's own specification, as
`SerialLinks`, `NetLinks` or `LocalLinks` instantiates it; a behaviour of `MCLinks` is
one of these, together with a `part` that says which and with variables that don't
change.

None of the properties is inductive alone. The argument, invariant by invariant:

* `TypeInv` (`SchedProofs`). That a count of `no_preempt` stays in `Nat` when a
  section ends follows from the count being the nesting of the code the core runs,
  and that from no task being saved inside a section. `TypeInv` is the two together
  with what each position carries.
* `StackInv` (`StackProofs`) adds to `OneStackUser` that a task a core runs isn't
  `Ready` (and is `Running` unless its core is about to `svc`), that a task being left
  isn't gone, that ids not handed out are nobody's, and that idle tasks are used by
  their own core only. `pick_next` takes a ready task that isn't LEAVING elsewhere, so
  it takes none in use. The step that needs the ordering assumption is a wake-up: it
  alone makes a task `Ready` that a core still runs.
* `FpInv` (`StackProofs`): each saved copy is its task's own, registers hold the values
  of their owner, and EL0 may use them only while the owner is the task the core runs.
  It needs no ordering: that two cores run one task spoils how recent the values are
  (`SchedFpMoves` shows that they may be old), never whose they are.
* `LifeInv` (`StackProofs`, proved in `ResumeProofs`) ties together three things kept in
  three places: where a task's code is (`Where`: on a core, or saved), the state the run
  queue has it in, and how far its program's life has come (`Stage`: in `PROCESSES`; out
  of it but still in its space; out of both). `Fits` says which combinations are
  possible, `SpaceInv` that a core's translation base is its task's and that what was
  freed is nobody's. The panics of `sched::exit` and `process::exit` are places at
  which only a finished task, or one whose program is over, fits, and no such task runs.
* `WakeInv` (`StackProofs`, proved in `WakeProofs`) adds `Alert`: a task between its
  look at the condition and its `wait_current` holds a generation that was current then;
  if the condition has become true since and the generation is still the same, the
  notify is yet to come, and if the task was killed, the interrupt is pending or yet to
  come. `KeepsWakeups` is what a step must do to keep that, and each action is shown to
  do it.

`SchedProofs` begins with what each operation of the run queue returns and what `pick_next`
may pick (a first task after the current one exists because distances are numbers,
whose order is well-founded). `Switched` and `Interrupted` in `StackProofs` say what a
whole switch and a whole interrupt do, so that each invariant is proved of them once.
The proof that a step keeps an invariant has one lemma per group of actions.

`MutexInv` says that a task is woken exactly once for each time it queues, by the task
that made it the owner: those in a line haven't been woken, what is pending belongs to
an owner on its way to block, and whoever has handed a lock over still owes one task
its wake-up. `MutexImplements` rests on it and on the algebra of the line
(`JoinLine`, `FrontOfLine`, `NextInLine`).

The components of `Links`, each with its inductive invariant at the end of its module:

* `RingInv` (`RxQueue`): what fits in the ring is what was returned, then what is
  queued, then the byte that is being pushed. The handler writes only to the slot at
  `head`, which is no queued one, and the task reads only the slot at `tail`, which is
  one as long as `Queued > 0`; both stay so whatever the other does in between. The
  arithmetic is that of `%` on at most one turn around the ring (`RingWraps`).
* `SessionInv` (`Session`): frames are in order wherever they are. Along the way from
  the Uno over the line, the link task, the inbox and the shell to the session, no frame
  is older than one in front of it (`InOrder`), and what has run is older than all of
  them or the last that was handled (`RanBefore`): so a request is recognised by being
  the last. `CacheInv` says of which start of the Uno the cached reply is, and that the
  next frame but a HELLO comes only from a start whose HELLO has been seen to, unless
  one was dropped; `PendingIsSomewhere` that a pending number is in the inbox or with
  the shell, so that BUSY is true.
* `LeaseInv` (`Dhcp`): each transaction asks one server, so two grants of one number are
  one server's; an address the interface has is from the transaction it counts as the
  last one, and what it says of it is what the events still to be taken lead to.
* `SyncInv` (`ClockSync`): a datagram with the cookie of the current round is no older
  than the round, so an accepted answer was sent within it.
* `UpdateInv` (`Update`): once the Pi has begun this run's transfer, no other is under
  way until it takes a begin of an earlier run (`overtaken`), and an end is sent only
  after that; being armed is worth one installation.
* `StartInv` (`Cores`): every stack's top is written before the first core is sent to
  the entry point, and none after; what is in memory of it is either nothing yet or
  that top, and the latter from the `dsb` on. So a core's stack is its own, or it is
  one that woke before the `dsb`, found none and got no further. That as many cores as
  `start` counts take tasks is stated with an injection, which a step that counts one more extends by one.
* `PipeInv` (`Pipe`): the counts are those of the ends that programs hold; what was read,
  then what is in the pipe, is what was written; a program that waits although it could
  go on is owed a notify by one that is on its way to it, or has a kill coming that
  interrupts it. A read that was promised bytes and finds none was promised them before
  another reader's move, which has notified since or is about to.

The step lemmas of these have one case per action, and one step per conjunct that an
action disturbs.

## What is only model-checked

* Liveness (`EveryoneRuns`, `KilledWhileRunningExits`, `CallsReturn`,
  `NothingForgotten`): temporal reasoning
  under fairness is out of the prover's reach.
* What recursive definitions and folds compute (`Heap`'s list, `FatLayout`'s chains,
  `Calendar`'s years, `UsbTree`'s walk, the tags of a batch in `Mailbox`, `Framing`'s
  checksums, `NetTask`'s answers to all lookups that time out at once): it takes
  induction over data, which the installed provers don't do. This leaves
  `FatVolumeSound`, `FatChangesAreAtomic`, `TreeMatchesBus`, `MailboxAnswersRight`,
  `HeapSound`, `LoadsWhatRuns`, `DatesRight`, `FramesGetThrough` and `LookupsAnswered`
  to TLC.
* `CardKeepsItsWord`, `TransfersExact`, `LanWorks`, `TypingRight`, `NothingLeftBehind`,
  `MemoryIsOwn`, `ScreenComesBack` and `PacketsFindTheirHop`: their invariants are not
  inductive by far (a driver's script against every state of a device, tables in frames
  that point at one another), and the strengthening was not attempted.
## Findings

Each is a run whose counterexample is a behaviour of the code, against what a comment
says; `PROJECT.json` quotes the lines.

* `SchedEarlyWake`: a task that waits, sleeps or blocks is put aside under the lock,
  but runs on until its `svc #0`. Woken in between, it is picked by another core with
  the context of an earlier switch: two cores on one stack.
* `SchedFpMoves`: a program that used floating point on core 0, then on core 1, and
  comes back to core 0 has its saved values overwritten by core 0's old ones.
* `SchedKillReturning`: a kill between `was_killed` and the return to EL0 leaves the
  program running until its next system call.
* `HelloDropped`: the HELLO of a restarted Uno is answered although the full inbox
  drops it, so a request may get the cached reply to an earlier start's.
* `ResolveHangs`: `resolve` waits for good when the network task has ended.
* `FatErrorWritten`: the card reports an error of the directory sector with a new
  entry, but has written it. `write_file` gives the entry's clusters back ("Nothing
  points at the new chain"), so a file points at clusters that are free.

## Where the code and its comments differ

Met while modelling, small, and without a run of their own:

* `src/sched.rs:15-16` says that a switch that falls due inside `no_preempt` happens when
  the outermost one ends. The end counts down first and looks at `SWITCH_PENDING` at
  `:388`; a task that moves to another core in between takes the flag of the core it
  was on, and a section that ends there meanwhile misses its switch
  (`DeferredSwitchHappens` in `Sched`). The next tick makes up for it.
* `pipe.rs:80`: with two readers, one that was promised data can find none and gets
  zero, which `rustypi-abi/src/lib.rs:148-149` reserves for the end of a pipe "once no
  writers are left". `ZeroMeansOver` allows it, and only when there are two.
* `uart.rs:233`: the marker of an overflow is handed out at the next `pop`, before bytes
  that were received before the loss; `:177-179` says bytes were lost before it.
* After an error of a FAT sector that was to be linked or freed, `free_count` may be too
  small or too large (`write.rs:416`), and after one of FSInfo that sector is: `:339`
  says "After a change, successful or not: brings FSInfo up to date". `miscounted` has
  both.
* `tree.rs:218-220` says that `poll_changes` "enumerates those that came". A device
  plugged in between its look at the port (`:340`) and the clear of the change (`:347`)
  has its change cleared too, and isn't found until it is plugged in again
  (`MirrorsBut({})` fails, `MirrorsBus` allows for it).
* `sys/usb.rs:311` says that unplugging a keyboard "is noticed by the hot-plug poll".
  The poll tells of the hub that went, not of what was behind it, and `:177` compares
  addresses: a keyboard that goes with its hub is polled on, and its address may go to
  another device (`KeyboardOnBus` fails, `UnpluggedKeyboardDropped` allows for it).
* `console.rs:120` says of a lease that "only its holder draws". `LENT` is swapped outside
  `SCREEN`, so a printer that has found it false (`:34`), a redraw or a test pattern
  draws after that, once. What the holder has drawn stays all the same: a row of the
  holder's waits for `SCREEN`, and so comes after it (`HoldersPixelsStay`).
* `sys/net/mod.rs:436-437` says that `ping` returns "the round trip". Each `ping` command
  begins at number 1 (`commands/net.rs:147`) with the same identifier
  (`interface.rs:184`), so a late answer to an earlier command's ping ends a new one,
  with a round trip that is too short (`PingFromTarget` has what is left: the host and
  the number are right).
* `cores.rs:59` says "Everything in memory before the cores wake from their `wfe`". A
  core that another event wakes may find its word of the spin table in memory before
  the `dsb`, and its stack's top not yet: it doesn't start (`OwnStack`).
* `tools/deploy.py` says "installed" when its end is acknowledged. A begin of an earlier
  run that arrives after its own has begun, with that run's blocks, makes it the earlier
  image (`InstalledIsMine`, unless `overtaken`); the version it asks for after the reboot
  tells.
* `link.rs:221-222`: a program's output "can't be mistaken for frames", and isn't, but a
  line of it that is longer than `MAX_LINE` is rejected as a frame would be (as the test
  at `:330-332` has it).
* `time.rs:119-120` says stamps are "clamped"; after 2107 the year is, month and day
  are not.

Behaviour that is worth knowing, as the models have it:

* A lost answer to ACMD6 leaves the card on four data lines and the host on one, until
  the card is identified again.
* A control OUT stage of three packets and more that is NAKed after its second packet
  would be restarted unnoticed; the kernel's are of one packet.
* A press that falls into a rollover report may be typed twice or not at all.
* A file written in the hour after summer time ended may be stamped earlier than one
  written before: `with_fs_writing` stamps local time, as it says. So may one written
  after the zone was switched.
* A program that was killed just after its call looked runs on until its next call, or
  until it is killed again (`SchedKillReturning`); `CallsReturn` promises the end of those
  that are in a call.
* The configuration of an expired lease is kept while renewals go unanswered.
* `write_user` has copied the earlier pieces when it refuses a later one.
* Between `spawn_with` and the insertion of the handle, the end of a child is printed
  and also reported by `wait` (`handles.rs:339`).
* `TakesOwnReply` of `Session` is about the Uno's first start; after a restart numbers
  repeat.
* `TryLock`: another core spins; only the holder's own core gives up.

## Not modelled

* Register layouts, clock rates, baud rates, GPIO, power, random numbers: single
  accesses without state of their own.
* Byte layouts and checksums of packets, the partition table, paths, ELF's and FAT's
  encodings: pure parsing of one input, unit-tested. What the fields decide is in the
  modules.
* Drawing, formatting, the shell and its commands: text in, text out.
* The system call interface and the user library: encodings and wrappers; programs are
  arbitrary clients of the models.
* Memory ordering below the level of the locks, except in `RxQueue` (program order, from
  the acquire and release of its indices) and in `Mailbox` and `Cores` (caches). That
  core 0 zeroes a new core's stack and may still have dirty lines of it while the core
  writes uncached is not in `Cores`.
* CPU accounting, stack canaries, register contents other than whose FP values they are.
