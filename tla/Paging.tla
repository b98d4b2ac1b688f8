------------------------------- MODULE Paging -------------------------------
(***************************************************************************)
(* Program memory: the page frames (rustypi_core::frames, behind the lock  *)
(* of sys::memory) and the address spaces built from them                  *)
(* (rustypi_core::paging).                                                 *)
(*                                                                         *)
(* Memory is there: a frame holds a table or a page, and an address is     *)
(* translated by walking the tables in it, like the MMU does.  Every       *)
(* frame is allocated and freed under a hold of the lock of its own, so    *)
(* that spaces being built and dropped on different cores take turns.      *)
(*                                                                         *)
(* The user window has Entries level 3 tables of Entries pages of PageSize *)
(* cells.                                                                  *)
(***************************************************************************)
EXTENDS Integers, Sequences, FiniteSets, SequencesExt, Functions

CONSTANTS Spaces,         \* the address spaces, numbers above 0
          Count,          \* frames
          WordBits,       \* bits of a word of the bitmap (64)
          Entries,        \* of a table (512)
          PageSize,       \* cells of a page; at most Entries
          Asked,          \* bound: the ranges mapped, as first page and number of pages
          CopyLen         \* bound: how many cells a copy is of

VARIABLES used, free, next,   \* Frames: the bits that are set, and its two counters
          mem,                \* what each frame holds
          space,              \* the AddressSpaces
          at, op,             \* what each space's owner is doing: map_range's page and end
          wrote               \* what was written to each address since it was mapped

frames == <<used, free, next>>
vars == <<frames, mem, space, at, op, wrote>>

Words == (Count + WordBits - 1) \div WordBits
Frames == 0 .. Count - 1
Padding == Count .. (Words * WordBits - 1)
Pages == 0 .. (Entries * Entries - 1)
Window == 0 .. (Entries * Entries * PageSize - 1)

\* A cell of memory: part of a table, or of a page.
Zero == <<"zero", 0, "none">>
Byte(value) == <<"byte", value, "none">>
TableAt(frame) == <<"table", frame, "none">>
PageAt(frame, access) == <<"page", frame, access>>

\* "Its contents are unspecified": what a frame nobody has is left with, here the worst of it.
Stale == [i \in 0 .. Entries - 1 |-> PageAt(0, "ReadWrite")]
Zeroed == [i \in 0 .. Entries - 1 |-> Zero]
Kernel == <<"block", 0, "none">>

NoFrame == -1
NoOp == [page |-> 0, end |-> 0, access |-> "none"]
NoSpace == [root |-> NoFrame, level2 |-> NoFrame, level3 |-> <<>>, frames |-> <<>>]

\* The level 1 entry of the user window; the others are the kernel's.
UserEntry == Entries - 1
-----------------------------------------------------------------------------
(* Frames                                                                  *)

BitsOf(word) == {word * WordBits + bit : bit \in 0 .. WordBits - 1}

FullWord(word) == BitsOf(word) \subseteq used

\* Mutated form of FreeWord: the search stops at the end of the bitmap.
FreeWordAhead ==
  LET ahead == {i \in 0 .. Words - 1 - next : ~FullWord(next + i)}
  IN  IF ahead = {} THEN NoFrame ELSE next + (CHOOSE i \in ahead : \A j \in ahead : i <= j)

\* The first word with a free frame, searching from the last one used, around the end.
FreeWord ==
  LET ahead == {i \in 0 .. Words - 1 : ~FullWord((next + i) % Words)}
  IN  IF ahead = {} THEN NoFrame
      ELSE (next + (CHOOSE i \in ahead : \A j \in ahead : i <= j)) % Words

\* The frame allocate would hand out.
Allocated ==
  IF FreeWord = NoFrame THEN NoFrame
  ELSE CHOOSE frame \in BitsOf(FreeWord) \ used : \A other \in BitsOf(FreeWord) \ used : frame <= other

\* FrameSource::allocate
Taken(frame) ==
  /\ used' = used \cup {frame}
  /\ free' = free - 1
  /\ next' = frame \div WordBits

\* FrameSource::free
Given(frame) ==
  /\ used' = used \ {frame}
  /\ free' = free + 1
  /\ mem' = [mem EXCEPT ![frame] = Stale]
  /\ UNCHANGED next

\* Mutated form of Wiped: a frame as it was left.
WipedNot(frame) == mem

\* zeroed_frame: memory with the frame just taken zeroed.
Wiped(frame) == [mem EXCEPT ![frame] = Zeroed]

With(f, x, y) == [z \in DOMAIN f \cup {x} |-> IF z = x THEN y ELSE f[z]]

Go(s, place) == at' = [at EXCEPT ![s] = place]
-----------------------------------------------------------------------------
(* AddressSpace::new                                                       *)

NewRoot(s) ==
  /\ at[s] = "none"
  /\ IF Allocated = NoFrame
     THEN /\ Go(s, "none")
          /\ UNCHANGED <<frames, mem, space, op, wrote>>
     ELSE /\ Taken(Allocated)
          /\ mem' = Wiped(Allocated)
          /\ space' = [space EXCEPT ![s].root = Allocated]
          /\ Go(s, "rooted")
          /\ UNCHANGED <<op, wrote>>

\* Mutated form of GiveRoot: without a second frame, the first stays allocated.
KeepRoot(s) == UNCHANGED <<frames, mem>>

GiveRoot(s) == Given(space[s].root)

NewLevel2(s) ==
  /\ at[s] = "rooted"
  /\ IF Allocated = NoFrame
     THEN /\ GiveRoot(s)
          /\ space' = [space EXCEPT ![s] = NoSpace]
          /\ Go(s, "none")
          /\ UNCHANGED <<op, wrote>>
     ELSE /\ Taken(Allocated)
          /\ mem' = [Wiped(Allocated) EXCEPT ![space[s].root] =
                       [i \in 0 .. Entries - 1 |-> IF i = UserEntry THEN TableAt(Allocated) ELSE Kernel]]
          /\ space' = [space EXCEPT ![s].level2 = Allocated]
          /\ Go(s, "idle")
          /\ UNCHANGED <<op, wrote>>
-----------------------------------------------------------------------------
(* map_range, a page at a time                                             *)

MapRange(s, range, access) ==
  /\ at[s] = "idle"
  /\ op' = [op EXCEPT ![s] = [page |-> range[1], end |-> range[1] + range[2], access |-> access]]
  /\ Go(s, "map")
  /\ UNCHANGED <<frames, mem, space, wrote>>

Level2Index(page) == page \div Entries

Level3Index(page) == page % Entries

\* Done, or refused: OutsideWindow, AlreadyMapped or OutOfMemory.
MapEnds(s) ==
  /\ Go(s, "idle")
  /\ op' = [op EXCEPT ![s] = NoOp]
  /\ UNCHANGED <<frames, mem, space, wrote>>

MapDone(s) ==
  /\ at[s] = "map" /\ op[s].page = op[s].end
  /\ MapEnds(s)

Mapping(s) == at[s] = "map" /\ op[s].page < op[s].end

MapRefused(s) ==
  /\ Mapping(s)
  /\ op[s].page \notin Pages \ DOMAIN space[s].frames
  /\ MapEnds(s)

Mappable(s) == Mapping(s) /\ op[s].page \in Pages \ DOMAIN space[s].frames

\* The level 3 table comes first, and stays when there is no frame for the page.
MapTable(s) ==
  LET index == Level2Index(op[s].page)
  IN  /\ Mappable(s) /\ index \notin DOMAIN space[s].level3
      /\ IF Allocated = NoFrame THEN MapEnds(s)
         ELSE /\ Taken(Allocated)
              /\ mem' = [Wiped(Allocated) EXCEPT ![space[s].level2][index] = TableAt(Allocated)]
              /\ space' = [space EXCEPT ![s].level3 = With(@, index, Allocated)]
              /\ UNCHANGED <<at, op, wrote>>

MapPage(s) ==
  LET page == op[s].page
  IN  /\ Mappable(s) /\ Level2Index(page) \in DOMAIN space[s].level3
      /\ IF Allocated = NoFrame THEN MapEnds(s)
         ELSE /\ Taken(Allocated)
              /\ mem' = [Wiped(Allocated) EXCEPT
                           ![space[s].level3[Level2Index(page)]][Level3Index(page)] =
                             PageAt(Allocated, op[s].access)]
              /\ space' = [space EXCEPT ![s].frames = With(@, page, Allocated)]
              /\ wrote' = [wrote EXCEPT ![s] =
                             [va \in Window |-> IF va \div PageSize = page THEN Zero ELSE @[va]]]
              /\ op' = [op EXCEPT ![s].page = page + 1]
              /\ UNCHANGED at
-----------------------------------------------------------------------------
(* Access                                                                  *)

\* The level 3 descriptor of an address, by walking the tables.
Descriptor(s, va) ==
  LET page == va \div PageSize
      level2 == mem[space[s].root][UserEntry]
      level3 == mem[level2[2]][Level2Index(page)]
  IN  IF va \notin Window \/ level3[1] # "table" THEN Zero ELSE mem[level3[2]][Level3Index(page)]

Translates(s, va) == Descriptor(s, va)[1] = "page"

\* Mutated form of Allowed: mapped is enough to write to it.
AllowedIfMapped(s, va, how) == Translates(s, va)

\* Whether the program may, or for load the kernel will, use the address.
Allowed(s, va, how) == Translates(s, va) /\ (how = "write_user" => Descriptor(s, va)[3] = "ReadWrite")

\* for_each_piece: how far a copy gets; a piece that isn't allowed ends it.
Reach(s, va, len, how) ==
  LET refused == {i \in 0 .. len - 1 : ~Allowed(s, va + i, how)}
  IN  IF refused = {} THEN len ELSE CHOOSE i \in refused : \A j \in refused : i <= j

\* load and write_user: the pieces before the first that is refused are copied.
Copy(s, va, len, how) ==
  LET reach == Reach(s, va, len, how)
      by == IF how = "load" THEN 0 ELSE s
      hit == {<<Descriptor(s, va + i)[2], (va + i) % PageSize>> : i \in 0 .. reach - 1}
  IN  /\ at[s] = "idle"
      /\ mem' = [f \in Frames |-> [i \in 0 .. Entries - 1 |-> IF <<f, i>> \in hit THEN Byte(by) ELSE mem[f][i]]]
      /\ wrote' = [wrote EXCEPT ![s] = [a \in Window |-> IF a \in va .. va + reach - 1 THEN Byte(by) ELSE @[a]]]
      /\ UNCHANGED <<frames, space, at, op>>
-----------------------------------------------------------------------------
(* Drop, a frame at a time: the pages first, then the tables               *)

StartDrop(s) ==
  /\ at[s] = "idle"
  /\ wrote' = [wrote EXCEPT ![s] = [va \in Window |-> Zero]]
  /\ Go(s, "drop")
  /\ UNCHANGED <<frames, mem, space, op>>

Lowest(f) == CHOOSE x \in DOMAIN f : \A y \in DOMAIN f : x <= y

Dropped(s, frame, rest) ==
  /\ Given(frame)
  /\ space' = [space EXCEPT ![s] = rest]
  /\ Go(s, IF rest = NoSpace THEN "none" ELSE "drop")
  /\ UNCHANGED <<op, wrote>>

DropFrame(s) ==
  LET mine == space[s]
      page == Lowest(mine.frames)
      index == Lowest(mine.level3)
  IN  /\ at[s] = "drop"
      /\ \/ /\ mine.frames # <<>>
            /\ Dropped(s, mine.frames[page],
                       [mine EXCEPT !.frames = Restrict(@, DOMAIN @ \ {page})])
         \/ /\ mine.frames = <<>> /\ mine.root # NoFrame
            /\ Dropped(s, mine.root, [mine EXCEPT !.root = NoFrame])
         \/ /\ mine.frames = <<>> /\ mine.root = NoFrame /\ mine.level2 # NoFrame
            /\ Dropped(s, mine.level2, [mine EXCEPT !.level2 = NoFrame])
         \/ /\ mine.frames = <<>> /\ mine.root = NoFrame /\ mine.level2 = NoFrame
            /\ Dropped(s, mine.level3[index],
                       [mine EXCEPT !.level3 = Restrict(@, DOMAIN @ \ {index})])
-----------------------------------------------------------------------------
Init ==
  /\ used = Padding
  /\ free = Count
  /\ next = 0
  /\ mem = [f \in Frames |-> Stale]
  /\ space = [s \in Spaces |-> NoSpace]
  /\ at = [s \in Spaces |-> "none"]
  /\ op = [s \in Spaces |-> NoOp]
  /\ wrote = [s \in Spaces |-> [va \in Window |-> Zero]]

Next ==
  \E s \in Spaces :
    \/ NewRoot(s) \/ NewLevel2(s)
    \/ \E range \in Asked, access \in {"ReadOnly", "ReadWrite"} : MapRange(s, range, access)
    \/ MapDone(s) \/ MapRefused(s) \/ MapTable(s) \/ MapPage(s)
    \/ \E va \in Window, how \in {"load", "write_user"} : Copy(s, va, CopyLen, how)
    \/ StartDrop(s) \/ DropFrame(s)

Spec == Init /\ [][Next]_vars
-----------------------------------------------------------------------------
(* Properties.                                                             *)

\* The frames a space holds, pages and tables.
Holds(s) ==
  ({space[s].root, space[s].level2} \ {NoFrame}) \cup Range(space[s].level3) \cup Range(space[s].frames)

\* No frame belongs to two spaces or is free while it belongs to one, and none is lost: not when
\* memory runs out half way through `new` or `map`, nor while another space is being dropped; and
\* `free`, which `mem` shows, counts the free ones.
FramesOnce ==
  /\ used \ Padding = UNION {Holds(s) : s \in Spaces}
  /\ \A s, t \in Spaces : s # t => Holds(s) \cap Holds(t) = {}
  /\ free = Count - Cardinality(used \ Padding)

\* A program sees its own memory only: every address it can reach reads back what was written to
\* it since it was mapped, and zero before that, whoever had the frame earlier; and walking the
\* tables finds the pages `frames` lists and no others.
OwnMemory ==
  \A s \in Spaces : at[s] \in {"idle", "map"} =>
    \A va \in Window :
      /\ Translates(s, va) <=> va \div PageSize \in DOMAIN space[s].frames
      /\ Translates(s, va) => mem[Descriptor(s, va)[2]][va % PageSize] = wrote[s][va]

\* "Copies `bytes` into program memory at `va`, if the program could write all of it": a system call
\* never changes a page the program may only read, whatever range it is given; only `load` does.
ReadOnlyKept ==
  \A s \in Spaces : at[s] \in {"idle", "map"} =>
    \A va \in Window :
      Descriptor(s, va)[3] = "ReadOnly" => mem[Descriptor(s, va)[2]][va % PageSize] \in {Zero, Byte(0)}

\* allocate says no only when there is no memory: a free frame is found wherever the last one was
\* ("the search resumes after the last frame handed out").
OutOnlyWhenFull == Allocated = NoFrame <=> free = 0
=============================================================================
