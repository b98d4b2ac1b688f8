----------------------------- MODULE MCServices ------------------------------
(***************************************************************************)
(* What the kernel does for programs and commands: starting and ending     *)
(* programs, and their calls (Programs), memory (Heap, Paging, Loader),    *)
(* the screen (Screen), packets to other hosts (Neighbours), name lookups  *)
(* (NetTask) and dates (Calendar). Each behaviour is of one of them.       *)
(***************************************************************************)
EXTENDS Integers, Sequences

CONSTANTS peer, gateway, far, c1, c2, n1, pool, bad, MaxTasks, MaxHandles, Asids, MaxFile,
          ProgSizes, Budget, MaxInput, BlockAlign, Start, HeapEnd, MoreEnd, HeapSizes, Aligns,
          Spaces, Count, WordBits, PagingEntries, PagingPageSize, Asked, CopyLen,
          LoaderPageSize, UserBase, ProgramEnd, StackBase, StackTop, FileLen, Headers,
          LoaderEntries, Growths, Cols, Rows, TabWidth, Printers, ScreenPrograms, Texts, Bars,
          MaxPrints, ArpLocal, Remote, Gateway, ArpCache, ArpRetry, ArpGiveUp, PingTimeout,
          PingWait, MaxPackets, MaxMoves, Callers, Names, Pool, Bad, IdMod, Seed, DnsTries,
          DnsRetry, MaxAnswers, UsbWait, MaxCalls, Times, LastYear,
          Parts  \* the components to look at

MCAsked == {<<1, 2>>, <<4, 1>>}

\* Segments of all accesses, inside and outside the file and the memory for programs.
MCHeaders ==
  {[load |-> TRUE, flags |-> flags, offset |-> data[1], file_size |-> data[2], address |-> address, size |-> size] :
     flags \in SUBSET {"W", "X"}, data \in {<<0, 0>>, <<0, 2>>, <<5, 2>>},
     address \in {0, 2, 3, 4, 6}, size \in {0, 1, 3}}
  \cup {[load |-> FALSE, flags |-> {"W", "X"}, offset |-> 9, file_size |-> 9, address |-> 1, size |-> 0]}

MCTexts == {<<"b", "\n">>, <<"\t", "back", "c">>}

VARIABLES part,  \* the component whose behaviour this is
          \* its variables, as the INSTANCE lists them
          v1, v2, v3, v4, v5, v6, v7, v8, v9, v10, v11, v12

Prog == INSTANCE Programs WITH
  Sizes <- ProgSizes, processes <- v1, at <- v2, call <- v3, leaving <- v4, exit <- v5,
  asids <- v6, held <- v7, tlb <- v8, printed <- v9, letGo <- v10
Heap == INSTANCE Heap WITH
  End <- HeapEnd, Sizes <- HeapSizes, list <- v1, total <- v2, used <- v3, live <- v4,
  null <- v5
Paging == INSTANCE Paging WITH
  Entries <- PagingEntries, PageSize <- PagingPageSize, used <- v1, free <- v2, next <- v3,
  mem <- v4, space <- v5, at <- v6, op <- v7, wrote <- v8
Loader == INSTANCE Loader WITH
  PageSize <- LoaderPageSize, Entries <- LoaderEntries, file <- v1, at <- v2, error <- v3,
  program <- v4, pages <- v5, heap_end <- v6, collided <- v7
Screen == INSTANCE Screen WITH
  Programs <- ScreenPrograms, cells <- v1, col <- v2, row <- v3, shown <- v4, lent <- v5,
  screen <- v6, processes <- v7, at <- v8, work <- v9, leases <- v10, prints <- v11,
  patterned <- v12
Arp == INSTANCE Neighbours WITH
  Local <- ArpLocal, config <- v1, cache <- v2, waiting <- v3, pings <- v4, asked <- v5,
  gone <- v6, packets <- v7, requests <- v8, answers <- v9, caller <- v10, mac <- v11,
  moves <- v12
Dns == INSTANCE NetTask WITH
  task <- v1, usb <- v2, waited <- v3, config <- v4, requests <- v5, answers <- v6,
  number <- v7, callers <- v8, nextId <- v9, pending <- v10, sync <- v11, asked <- v12
Cal == INSTANCE Calendar WITH
  unix <- v1, date <- v2, summer <- v3, stamp <- v4

vars == <<part, v1, v2, v3, v4, v5, v6, v7, v8, v9, v10, v11, v12>>

\* The variables a component has no use for.
Unused == 0

ProgKeeps == UNCHANGED <<part, v11, v12>>
HeapKeeps == UNCHANGED <<part, v6, v7, v8, v9, v10, v11, v12>>
PagingKeeps == UNCHANGED <<part, v9, v10, v11, v12>>
LoaderKeeps == UNCHANGED <<part, v8, v9, v10, v11, v12>>
ScreenKeeps == UNCHANGED <<part>>
ArpKeeps == UNCHANGED <<part>>
DnsKeeps == UNCHANGED <<part>>
CalKeeps == UNCHANGED <<part, v5, v6, v7, v8, v9, v10, v11, v12>>

Starts ==
  \/ part = "programs" /\ Prog!Init
     /\ v11 = Unused /\ v12 = Unused
  \/ part = "heap" /\ Heap!Init
     /\ v6 = Unused /\ v7 = Unused /\ v8 = Unused /\ v9 = Unused /\ v10 = Unused
     /\ v11 = Unused /\ v12 = Unused
  \/ part = "paging" /\ Paging!Init
     /\ v9 = Unused /\ v10 = Unused /\ v11 = Unused /\ v12 = Unused
  \/ part = "loader" /\ Loader!Init
     /\ v8 = Unused /\ v9 = Unused /\ v10 = Unused /\ v11 = Unused /\ v12 = Unused
  \/ part = "screen" /\ Screen!Init
  \/ part = "neighbours" /\ Arp!Init
  \/ part = "lookups" /\ Dns!Init
  \/ part = "calendar" /\ Cal!Init
     /\ v5 = Unused /\ v6 = Unused /\ v7 = Unused /\ v8 = Unused /\ v9 = Unused
     /\ v10 = Unused /\ v11 = Unused /\ v12 = Unused

Init == part \in Parts /\ Starts

Next ==
  \/ part = "programs" /\ Prog!Next /\ ProgKeeps
  \/ part = "heap" /\ Heap!Next /\ HeapKeeps
  \/ part = "paging" /\ Paging!Next /\ PagingKeeps
  \/ part = "loader" /\ Loader!Next /\ LoaderKeeps
  \/ part = "screen" /\ Screen!Next /\ ScreenKeeps
  \/ part = "neighbours" /\ Arp!Next /\ ArpKeeps
  \/ part = "lookups" /\ Dns!Next /\ DnsKeeps
  \/ part = "calendar" /\ Cal!Next /\ CalKeeps

Spec == Init /\ [][Next]_vars
-----------------------------------------------------------------------------
\* However a program starts, calls and ends, and whoever kills it when:
\*   - No two programs have one ASID, none is lost, and none comes with stale translations.
\*   - HELD counts what the file buffers of all programs hold, on every path.
\*   - The end of a program is printed, unless its parent still learns of it from its handle.
NothingLeftBehind ==
  part = "programs" =>
    /\ Prog!AsidsOwn
    /\ Prog!HeldExact
    /\ Prog!EndsReported

\* After any allocations and frees, and an extension of the heap:
\*   - Free blocks are in order, whole and merged with their neighbours.
\*   - Every byte of the heap is in one free block or in one allocation.
\*   - alloc returns memory aligned as asked, and null only when no place would do.
HeapSound ==
  part = "heap" =>
    /\ Heap!ListInOrder
    /\ Heap!EveryByteOnce
    /\ Heap!AllocRight

\* However address spaces are built and dropped side by side, and memory runs out:
\*   - No frame belongs to two address spaces, or is lost, when memory runs out or a space is dropped.
\*   - A program sees its own memory only, whoever had the frames before.
\*   - write_user never changes a page the program may only read.
\*   - Memory runs out only when no frame is free.
MemoryIsOwn ==
  part = "paging" =>
    /\ Paging!FramesOnce
    /\ Paging!OwnMemory
    /\ Paging!ReadOnlyKept
    /\ Paging!OutOnlyWhenFull

\* Whatever the headers of a file say:
\*   - A program that elf::parse accepts can be loaded and can use all its heap.
\*   - parse accepts exactly the files that can be run, before anything is mapped.
LoadsWhatRuns ==
  part = "loader" =>
    /\ Loader!LaidOut
    /\ Loader!AcceptsRunnable

\* However printing, drawing and lending interleave:
\*   - The screen shows the console's text again once no program has it.
\*   - One program has the screen at a time, and LENT says whether one has.
\*   - What the holder of the screen has drawn stays until it draws over it or gives the screen back.
ScreenComesBack ==
  [][part = "screen" =>
       /\ Screen!TypeOK'
       /\ Screen!TextComesBack'
       /\ Screen!LentOnce'
       /\ Screen!HoldersPixelsStayStep]_vars

\* Whoever answers, late, twice or never, and from whichever MAC:
\*   - A packet waits only for a hop that is not known (send_ip, learn), and one per hop.
\*   - A packet leaves at most once, and to its own next hop.
\*   - sys::net::ping succeeds only with an answer of the host it pings to a ping of that number,
\*     which may be one of an earlier call.
PacketsFindTheirHop ==
  part = "neighbours" =>
    /\ Arp!TypeOK
    /\ Arp!WaitingUnresolved
    /\ Arp!SentOnceToItsHop
    /\ Arp!PingFromTarget

\* Whatever answers are late, repeated or lost:
\*   - resolve returns the answer to the name it was called with.
\*   - A command that waits in resolve is queued, being looked up, or answered.
\*   - A lookup for the clock is under way exactly while the clock waits for one.
LookupsAnswered ==
  part = "lookups" =>
    /\ Dns!TypeOK
    /\ Dns!AnswerIsMine
    /\ Dns!NobodyForgotten
    /\ Dns!ClockLookup

\* From 1970 to 2108:
\*   - from_unix and days_from_civil agree with a calendar kept by hand, from 1970 to 2108.
\*   - Zone::offset switches at 01:00 UTC on the last Sundays of March and October.
\*   - The modification time of a file that is written later is not earlier, except by an hour at most
\*     when summer time has ended in between.
DatesRight ==
  part = "calendar" =>
    /\ Cal!DateIsRight
    /\ Cal!SummerTimeRight
    /\ Cal!StampsGoForward
=============================================================================
