-------------------------------- MODULE Heap --------------------------------
(***************************************************************************)
(* The kernel heap (rustypi_core::heap): a first-fit list of free blocks,  *)
(* in address order, over the region the linker reserves.  Every operation *)
(* runs under the allocator's lock (sys::heap), so each is one action.     *)
(*                                                                         *)
(* Addresses are numbers; the headers live in the free memory itself, so   *)
(* the list is the sequence of blocks a walk from the head meets.          *)
(***************************************************************************)
EXTENDS Integers, Sequences, FiniteSets, SequencesExt

CONSTANTS BlockAlign,      \* BLOCK_ALIGN
          Start, End,      \* what init is given
          MoreEnd,         \* extend adds the memory from End up to here
          Sizes, Aligns    \* of the layouts asked for

VARIABLES list,            \* the free blocks from head on: [start, size]
          total, used,     \* Heap::total, Heap::used
          live,            \* the allocations: [at, size, align]
          null             \* the layout of an alloc that just returned null, or None

vars == <<list, total, used, live, null>>

None == [size |-> -1, align |-> 0]

align_up(value, align) == ((value + align - 1) \div align) * align

align_down(value, align) == (value \div align) * align

LargerOf(m, n) == IF m >= n THEN m ELSE n

block_size(size) == align_up(LargerOf(size, 1), BlockAlign)

Block(start, size) == [start |-> start, size |-> size]

EndOf(block) == block.start + block.size

Bytes(start, size) == start .. start + size - 1

\* Mutated form of Released: a block that starts where the freed one ends stays on its own.
ReleasedUnmerged(start, size) ==
  LET before == SelectSeq(list, LAMBDA b : b.start < start)
      after == SelectSeq(list, LAMBDA b : b.start >= start)
      joins == before # <<>> /\ EndOf(Last(before)) = start
  IN  IF joins
      THEN Front(before) \o <<Block(Last(before).start, Last(before).size + size)>> \o after
      ELSE before \o <<Block(start, size)>> \o after

\* free: the list with start .. start + size back in it, merged with its neighbours.
Released(start, size) ==
  LET before == SelectSeq(list, LAMBDA b : b.start < start)
      after == SelectSeq(list, LAMBDA b : b.start >= start)
      joinsNext == after # <<>> /\ start + size = Head(after).start
      grown == IF joinsNext THEN size + Head(after).size ELSE size
      rest == IF joinsNext THEN Tail(after) ELSE after
      joinsPrev == before # <<>> /\ EndOf(Last(before)) = start
  IN  IF joinsPrev
      THEN Front(before) \o <<Block(Last(before).start, Last(before).size + grown)>> \o rest
      ELSE before \o <<Block(start, grown)>> \o rest

\* init, on the empty heap
Init ==
  LET start == align_up(Start, BlockAlign)
      end == align_down(End, BlockAlign)
  IN  /\ list = <<Block(start, end - start)>>
      /\ total = end - start
      /\ used = 0
      /\ live = {}
      /\ null = None

extend(from, to) ==
  LET start == align_up(from, BlockAlign)
      end == align_down(to, BlockAlign)
  IN  /\ end > start
      /\ \A b \in ToSet(list) : EndOf(b) <= start
      /\ \A a \in live : a.at + a.size <= start
      /\ total = align_down(End, BlockAlign) - align_up(Start, BlockAlign)
      /\ total' = total + (end - start)
      /\ list' = Released(start, end - start)
      /\ null' = None
      /\ UNCHANGED <<used, live>>

\* Where an allocation would go in a free block.
Fits(block, size, align) == align_up(block.start, align) + size <= EndOf(block)

\* Mutated form of Split: what aligning skipped isn't given back.
SplitSkipping(block, start, size) ==
  IF start + size < EndOf(block) THEN <<Block(start + size, EndOf(block) - start - size)>> ELSE <<>>

\* What is left of a block around the allocation start .. start + size.
Split(block, start, size) ==
  (IF start > block.start THEN <<Block(block.start, start - block.start)>> ELSE <<>>)
    \o (IF start + size < EndOf(block)
        THEN <<Block(start + size, EndOf(block) - (start + size))>> ELSE <<>>)

\* Mutated form of alloc: alignments below a block's are taken as they are, larger ones ignored.
AllocUnaligned(size, align) ==
  LET needed == block_size(size)
      fitting == {i \in DOMAIN list : Fits(list[i], needed, 1)}
      i == CHOOSE n \in fitting : \A m \in fitting : n <= m
  IN  IF fitting = {}
      THEN null' = [size |-> size, align |-> align] /\ UNCHANGED <<list, total, used, live>>
      ELSE /\ list' = SubSeq(list, 1, i - 1) \o Split(list[i], list[i].start, needed)
                        \o SubSeq(list, i + 1, Len(list))
           /\ used' = used + needed
           /\ live' = live \cup {[at |-> list[i].start, size |-> size, align |-> align]}
           /\ null' = None
           /\ UNCHANGED total

alloc(size, align) ==
  LET needed == block_size(size)
      aligned == LargerOf(align, BlockAlign)
      fitting == {i \in DOMAIN list : Fits(list[i], needed, aligned)}
      i == CHOOSE n \in fitting : \A m \in fitting : n <= m
      start == align_up(list[i].start, aligned)
  IN  IF fitting = {}
      THEN null' = [size |-> size, align |-> align] /\ UNCHANGED <<list, total, used, live>>
      ELSE /\ list' = SubSeq(list, 1, i - 1) \o Split(list[i], start, needed)
                        \o SubSeq(list, i + 1, Len(list))
           /\ used' = used + needed
           /\ live' = live \cup {[at |-> start, size |-> size, align |-> align]}
           /\ null' = None
           /\ UNCHANGED total

\* GlobalAlloc::dealloc gets the layout back; the block's size is worked out from it.
dealloc(a) ==
  /\ list' = Released(a.at, block_size(a.size))
  /\ used' = used - block_size(a.size)
  /\ live' = live \ {a}
  /\ null' = None
  /\ UNCHANGED total

Next ==
  \/ \E size \in Sizes, align \in Aligns : alloc(size, align)
  \/ \E a \in live : dealloc(a)
  \/ extend(End, MoreEnd)

Spec == Init /\ [][Next]_vars
-----------------------------------------------------------------------------
(* Properties.                                                             *)

\* The memory the heap has: whole blocks of the region.
Region == Bytes(align_up(Start, BlockAlign), total)

Owned(a) == Bytes(a.at, block_size(a.size))

\* "Free blocks form a singly linked list sorted by address ... Freed blocks are merged with free
\* neighbours": between two blocks of the list there is always something in use, and every block is
\* whole, so that its header fits.
ListInOrder ==
  /\ \A i \in 1 .. Len(list) - 1 : EndOf(list[i]) < list[i + 1].start
  /\ \A b \in ToSet(list) : b.size >= BlockAlign /\ b.start % BlockAlign = 0 /\ b.size % BlockAlign = 0

\* Nothing is handed out twice and nothing is lost: every byte of the region belongs to exactly one
\* free block or allocation, and `used` (which `mem` shows) counts the allocated ones.
EveryByteOnce ==
  /\ \A byte \in Region :
       Cardinality({b \in ToSet(list) : byte \in Bytes(b.start, b.size)})
         + Cardinality({a \in live : byte \in Owned(a)}) = 1
  /\ \A b \in ToSet(list) : Bytes(b.start, b.size) \subseteq Region
  /\ used = Cardinality(UNION {Owned(a) : a \in live})

\* What alloc returns is aligned as the layout asks, and long enough; and alloc returns null only
\* when no place in the free memory would do ("or returns null if none is free").
AllocRight ==
  /\ \A a \in live : a.at % a.align = 0 /\ Owned(a) \subseteq Region
  /\ null # None =>
       ~\E at \in Region :
          /\ at % LargerOf(null.align, BlockAlign) = 0
          /\ Bytes(at, block_size(null.size)) \subseteq Region \ UNION {Owned(a) : a \in live}
=============================================================================
