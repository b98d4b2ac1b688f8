------------------------------- MODULE Loader -------------------------------
(***************************************************************************)
(* Laying out a program's memory: rustypi_core::elf checks the file and    *)
(* finds its segments, process::spawn_with maps them and the stack, and    *)
(* the Map call then grows the heap from the end of the last segment.      *)
(*                                                                         *)
(* Addresses are scaled down.  A file is what its headers say; whether its *)
(* fixed fields are right is one choice.  Frames are not short here        *)
(* (module Paging has that).                                               *)
(***************************************************************************)
EXTENDS Integers, Sequences, FiniteSets, SequencesExt

CONSTANTS PageSize,
          UserBase,       \* USER_BASE
          ProgramEnd,     \* PROGRAM_END, a page below the stack
          StackBase, StackTop,
          FileLen,        \* bytes of the file
          Headers,        \* program headers: [load, flags, offset, file_size, address, size]
          Entries,        \* entry points
          Growths         \* lengths asked of Map

VARIABLES file,           \* [fixed, entry, headers]
          at,
          error,          \* the ElfError, or None
          program,        \* elf::Program's segments
          pages,          \* what is mapped: page -> Access
          heap_end,
          collided        \* whether mapping found a page mapped already (an unreachable! in spawn_with)

vars == <<file, at, error, program, pages, heap_end, collided>>

None == "none"

next_multiple(value) == ((value + PageSize - 1) \div PageSize) * PageSize

SegmentEnd(segment) == segment.address + segment.size

AccessOf(flags) == IF "W" \in flags THEN "ReadWrite" ELSE IF "X" \in flags THEN "ReadExecute" ELSE "ReadOnly"

\* The checks of one PT_LOAD header, in order.
HeaderError(header) ==
  IF header.address % PageSize # 0 THEN "Unaligned"
  ELSE IF header.address < UserBase \/ SegmentEnd(header) > ProgramEnd THEN "OutsideProgramArea"
  ELSE IF header.file_size > header.size THEN "BadSize"
  ELSE IF header.offset + header.file_size > FileLen THEN "Truncated"
  ELSE IF {"W", "X"} \subseteq header.flags THEN "WritableAndExecutable"
  ELSE None

Loaded(headers) == SelectSeq(headers, LAMBDA h : h.load)

\* The segments, in address order.
Segments(headers) ==
  SortSeq(SelectSeq(Loaded(headers), LAMBDA h : h.size > 0), LAMBDA a, b : a.address < b.address)

\* Mutated form of Overlapping: not looked at.
OverlappingNever(segments) == FALSE

Overlapping(segments) ==
  \E i \in 1 .. Len(segments) - 1 : next_multiple(SegmentEnd(segments[i])) > segments[i + 1].address

RunsEntry(segments, entry) ==
  \E i \in DOMAIN segments :
    AccessOf(segments[i].flags) = "ReadExecute" /\ entry \in segments[i].address .. SegmentEnd(segments[i]) - 1

\* elf::parse: the first error, or None.
ParseError(f) ==
  LET wrong == SelectSeq(Loaded(f.headers), LAMBDA h : HeaderError(h) # None)
      segments == Segments(f.headers)
  IN  IF f.fixed # None THEN f.fixed
      ELSE IF wrong # <<>> THEN HeaderError(Head(wrong))
      ELSE IF segments = <<>> THEN "NoSegments"
      ELSE IF Overlapping(segments) THEN "Overlapping"
      ELSE IF ~RunsEntry(segments, f.entry) THEN "BadEntry"
      ELSE None

PagesOf(start, len) == {va \in start .. start + len - 1 : va % PageSize = 0}

Map(start, len, access) ==
  /\ pages' = [va \in DOMAIN pages \cup PagesOf(start, len) |->
                 IF va \in DOMAIN pages THEN pages[va] ELSE access]
  /\ collided' = (collided \/ PagesOf(start, len) \cap DOMAIN pages # {})

Init ==
  /\ file \in [fixed : {None}, entry : Entries, headers : [1 .. 2 -> Headers]]
              \cup [fixed : {"NotElf", "WrongArchitecture", "NotExecutable", "Truncated"},
                    entry : {UserBase}, headers : {<<>>}]
  /\ at = "parse"
  /\ error = None
  /\ program = <<>>
  /\ pages = <<>>
  /\ heap_end = 0
  /\ collided = FALSE

Parse ==
  /\ at = "parse"
  /\ error' = ParseError(file)
  /\ program' = IF error' = None THEN Segments(file.headers) ELSE <<>>
  /\ at' = IF error' = None THEN "load" ELSE "refused"
  /\ UNCHANGED <<file, pages, heap_end, collided>>

\* elf::Program::load, a segment at a time; `at` counts down in program.
LoadSegment ==
  /\ at = "load" /\ program # <<>>
  /\ Map(Head(program).address, Head(program).size, AccessOf(Head(program).flags))
  /\ heap_end' = next_multiple(SegmentEnd(Head(program)))
  /\ program' = Tail(program)
  /\ UNCHANGED <<file, at, error>>

\* The stack, with the arguments on top; then the program runs.
MapStack ==
  /\ at = "load" /\ program = <<>>
  /\ Map(StackBase, StackTop - StackBase, "ReadWrite")
  /\ at' = "runs"
  /\ UNCHANGED <<file, error, program, heap_end>>

\* Mutated form of Grow: the heap end moves by what was asked for.
GrowExactly(len) ==
  /\ at = "runs" /\ heap_end + len <= ProgramEnd
  /\ Map(heap_end, len, "ReadWrite")
  /\ heap_end' = heap_end + len
  /\ UNCHANGED <<file, at, error, program>>

\* process::map: whole pages, up to PROGRAM_END.
Grow(len) ==
  LET whole == next_multiple(len)
  IN  /\ at = "runs" /\ heap_end + whole <= ProgramEnd
      /\ Map(heap_end, whole, "ReadWrite")
      /\ heap_end' = heap_end + whole
      /\ UNCHANGED <<file, at, error, program>>

Next == Parse \/ LoadSegment \/ MapStack \/ \E len \in Growths : Grow(len)

Spec == Init /\ [][Next]_vars
-----------------------------------------------------------------------------
(* Properties.                                                             *)

\* A program that parse accepts can be loaded, and go on to use all its heap: no page is ever mapped
\* twice ("loading a mapped segment faulted" is unreachable), the page below the stack stays
\* unmapped so that running off it faults, and the program starts in code it can't write.
LaidOut ==
  /\ ~collided
  /\ \A va \in DOMAIN pages : va \in UserBase .. ProgramEnd - 1 \/ va \in StackBase .. StackTop - 1
  /\ at = "runs" => /\ pages[(file.entry \div PageSize) * PageSize] = "ReadExecute"
                    /\ heap_end % PageSize = 0

\* What a program needs to run, said of its pages rather than of sorted neighbours.
Runnable(f) ==
  LET load == {i \in DOMAIN f.headers : f.headers[i].load}
      H(i) == f.headers[i]
      touched(i) == {va \div PageSize : va \in H(i).address .. SegmentEnd(H(i)) - 1}
  IN  /\ f.fixed = None
      /\ \A i \in load : /\ H(i).address % PageSize = 0 /\ H(i).address >= UserBase
                         /\ SegmentEnd(H(i)) <= ProgramEnd
                         /\ H(i).file_size <= H(i).size /\ H(i).offset + H(i).file_size <= FileLen
                         /\ H(i).flags # {"W", "X"}
      /\ \A i, j \in load : i # j => touched(i) \cap touched(j) = {}
      /\ \E i \in load : H(i).flags = {"X"} /\ f.entry \in H(i).address .. SegmentEnd(H(i)) - 1

\* parse accepts exactly the files that can be run, and "Anything else is refused before a single
\* page is mapped".
AcceptsRunnable ==
  /\ at \in {"load", "runs"} => Runnable(file)
  /\ at = "refused" => ~Runnable(file) /\ pages = <<>>
=============================================================================
