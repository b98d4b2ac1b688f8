----------------------------- MODULE FatLayout ------------------------------
(***************************************************************************)
(* How a FAT volume is read (rustypi-core fat/mod.rs): the file allocation *)
(* table as chains of clusters, directories as sequences of slots, and the *)
(* files they hold.  Everything is an operator of the sectors it reads:    *)
(* `view' is the FAT as fat_entry sees it, `sec' the contents of the data  *)
(* sectors.                                                                *)
(*                                                                         *)
(* A cluster is one sector.  A long name takes one long name entry before  *)
(* its 8.3 entry, so that the two may lie in two sectors.  A name is a     *)
(* base and a number: 0 for a name that is an 8.3 name as it stands, n > 0 *)
(* for the alias base~n, and LongTag for a long name.                      *)
(***************************************************************************)
EXTENDS Integers, Sequences, FiniteSets, SequencesExt, FiniteSetsExt

CONSTANTS ClusterCount,      \* data clusters of the volume
          EntriesPerSector,  \* FAT entries in a sector
          SlotsPerSector,    \* directory entries in a sector
          FixedRoot          \* sectors of FAT16's root directory

Clusters == 2..(ClusterCount + 1)
\* The sectors data and directories live in; those below 2 are the fixed root's.
Sectors == (2 - FixedRoot)..(ClusterCount + 1)

FREE == 0
BAD == 1000
END == 1001
FatValues == {FREE, BAD, END} \cup Clusters

FatSector(c) == c \div EntriesPerSector
FatSectors == {FatSector(c) : c \in Clusters}

LongTag == -1
Short(base) == [base |-> base, n |-> 0]
Tilde(base, n) == [base |-> base, n |-> n]

EndSlot == [slot |-> "end"]
DeletedSlot == [slot |-> "deleted"]
\* A long name piece carries the checksum of the 8.3 name it belongs to: here that name.
LongSlot(name, short) == [slot |-> "long", name |-> name, short |-> short]
EntrySlot(short, kind, first, size) ==
  [slot |-> "entry", short |-> short, kind |-> kind, first |-> first, size |-> size]
DotSlot == [slot |-> "dot"]

DirSector(slots) == [holds |-> "dir", slots |-> slots]
DataSector(id, i) == [holds |-> "data", id |-> id, i |-> i]
EmptyDir == DirSector([i \in 1..SlotsPerSector |-> EndSlot])

Root == 0
NoEntry == [slot |-> 0]

-----------------------------------------------------------------------------
\* Chains.

\* `chain': the clusters from `first', as far as the links lead to clusters of the volume.
\* One more than the volume has clusters means a loop.
Chain(view, first) ==
  LET follow[path \in Seq(Clusters)] ==
        IF Len(path) <= ClusterCount /\ view[Last(path)] \in Clusters
        THEN follow[Append(path, view[Last(path)])] ELSE path
  IN  follow[<<first>>]

\* ... which `check', `next' and the step limit accept: BadCluster and ChainLoop otherwise.
ChainOK(view, first) ==
  /\ first \in Clusters
  /\ LET chain == Chain(view, first)
     IN  Len(chain) <= ClusterCount /\ view[Last(chain)] = END

-----------------------------------------------------------------------------
\* Directories.

\* The sectors a directory is in; `rootFirst' is 0 for FAT16's fixed root.
DirSectors(view, rootFirst, dir) ==
  LET first == IF dir = Root THEN rootFirst ELSE dir
  IN  IF first = 0 THEN [i \in 1..FixedRoot |-> 1 - FixedRoot + i] ELSE Chain(view, first)

DirSlots(sec, sectors) ==
  FlattenSeq([i \in 1..Len(sectors) |->
                IF sec[sectors[i]].holds = "dir" THEN sec[sectors[i]].slots ELSE <<>>])

\* How many slots come before the end marker.
UsedSlots(slots) ==
  LET ends == {i \in 1..Len(slots) : slots[i] = EndSlot}
  IN  IF ends = {} THEN Len(slots) ELSE Min(ends) - 1

\* parse_located: the entries of a directory, and the slots each takes up.  A long name counts
\* when its piece is right before an entry whose 8.3 name it was made for.
Located(slots) ==
  LET entry(i) ==
        LET e == slots[i]
            long == /\ i > 1
                    /\ slots[i - 1].slot = "long"
                    /\ slots[i - 1].short = e.short
        IN  [slot |-> i, from |-> IF long THEN i - 1 ELSE i,
             name |-> IF long THEN slots[i - 1].name ELSE e.short,
             kind |-> e.kind, first |-> e.first, size |-> e.size]
  IN  {entry(i) : i \in {j \in 1..UsedSlots(slots) : slots[j].slot = "entry"}}

\* find_in: the first entry by that name.
Find(slots, name) ==
  LET found == {e \in Located(slots) : e.name = name}
  IN  IF found = {} THEN NoEntry ELSE CHOOSE e \in found : \A f \in found : e.slot <= f.slot

\* find_dir of a path: the root's cluster number is 0, as in a ".." entry.
NoDir == -1
FindDir(view, sec, rootFirst, path) ==
  IF path = <<>> THEN Root
  ELSE LET e == Find(DirSlots(sec, DirSectors(view, rootFirst, Root)), path[1])
       IN  IF e # NoEntry /\ e.kind = "dir" THEN e.first ELSE NoDir

\* read_chain: the sectors of a file, `size' of them.  Truncated, when its chain has fewer, is
\* left to Readable.
ReadChain(view, sec, first, size) ==
  LET chain == IF size = 0 THEN <<>> ELSE Chain(view, first)
  IN  [i \in 1..Min({size, Len(chain)}) |-> sec[chain[i]]]
Readable(view, first, size) ==
  \/ size = 0
  \/ ChainOK(view, first) /\ Len(Chain(view, first)) >= size

-----------------------------------------------------------------------------
\* What a volume holds.

\* Every entry a walk from the root finds, with the directory it is in.
Tree(view, sec, rootFirst) ==
  LET at(path, dir) == {[path |-> path, entry |-> e] :
                          e \in Located(DirSlots(sec, DirSectors(view, rootFirst, dir)))}
      top == at(<<>>, Root)
  IN  top \cup UNION {at(<<t.entry.name>>, t.entry.first) : t \in {u \in top : u.entry.kind = "dir"}}

\* The files and directories as a reader sees them: where, what, and the sectors read.
FilesOf(view, sec, rootFirst) ==
  {[path |-> t.path, name |-> t.entry.name, kind |-> t.entry.kind,
    body |-> IF t.entry.kind = "dir" THEN <<>>
             ELSE ReadChain(view, sec, t.entry.first, t.entry.size)] : t \in Tree(view, sec, rootFirst)}

\* The clusters an entry owns.
Owned(view, e) == IF e.first = 0 THEN {} ELSE Range(Chain(view, e.first))

\* Every chain ends, is as long as its file, and belongs to one entry alone.
SoundTree(view, sec, rootFirst) ==
  LET tree == Tree(view, sec, rootFirst)
      roots == IF rootFirst = 0 THEN {} ELSE Range(Chain(view, rootFirst))
  IN  /\ rootFirst # 0 => ChainOK(view, rootFirst)
      /\ \A t \in tree :
           /\ IF t.entry.kind = "dir" THEN ChainOK(view, t.entry.first)
              ELSE (t.entry.first = 0 /\ t.entry.size = 0) \/ Readable(view, t.entry.first, Max({1, t.entry.size}))
           /\ Owned(view, t.entry) \cap roots = {}
      /\ \A t, u \in tree : t # u => Owned(view, t.entry) \cap Owned(view, u.entry) = {}
=============================================================================
