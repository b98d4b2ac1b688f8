------------------------------ MODULE FatWrite ------------------------------
(***************************************************************************)
(* Changing a FAT volume (rustypi-core fat/write.rs, called through        *)
(* sys/fs.rs): files are written, replaced and removed, directories made,  *)
(* a kernel installed.  A change is a sequence of writes of one sector     *)
(* each; the power may fail before any of them, and the card may report an *)
(* error of any of them, whether it has done it or not.  The FS lock is    *)
(* held for a whole call, so calls do not overlap.                         *)
(*                                                                         *)
(* A change goes through phases, each a list `todo' of sector writes       *)
(* worked out when the phase starts (nothing else changes the volume       *)
(* meanwhile) and followed by what the code does when the last one is      *)
(* done.  The pending FAT sector (fat_dirty) is empty at every device      *)
(* access that can fail, so it is not a variable; fat_cache is.            *)
(***************************************************************************)
EXTENDS FatLayout

CONSTANTS Copies,          \* of the FAT
          Requests,        \* the calls made
          ProtectedNames,  \* what the Pi needs to boot
          CountSpan,       \* how many values the free count has (2^32 in the code)
          MaxOps,          \* bound: changes begun
          MaxFaults        \* bound: power cuts and device errors

VARIABLES fatType, fat, sec, info,  \* the volume: the FATs, the sectors, FSInfo's free count
          files,                    \* what a reader finds on it, worked out from fat and sec
          cache, free, next,        \* fat_cache, free_count, next_free
          phase, todo, op,          \* the change under way
          ops, faults,              \* how many changes were begun, how many faults met
          miscounted,               \* free_count was left wrong by an error, or FSInfo by one
          disowned                  \* an entry that did reach the card was taken for one that did not

disk == <<fatType, fat, sec, info, files>>
history == <<miscounted, disowned>>
vars == <<disk, cache, free, next, phase, todo, op, ops, faults, history>>

Uncounted == -1
NoCache == [sector |-> -1]
NoOp == [kind |-> "none"]
Idle == phase = "idle"

InSector(s) == {c \in Clusters : FatSector(c) = s}
RootFirst == IF fatType = "Fat32" THEN 2 ELSE 0
HasFsInfo == fatType = "Fat32"

\* fat_entry: the cached sector wins over the disk, which is read from the first FAT.
FatView == [c \in Clusters |-> IF FatSector(c) = cache.sector THEN cache.block[c] ELSE fat[1][c]]

\* fat_cache once the entries of `clusters' have been read in turn.
CacheAfter(clusters) ==
  IF \A c \in Range(clusters) : FatSector(c) = cache.sector THEN cache
  ELSE LET s == FatSector(Last(clusters))
       IN  [sector |-> s, block |-> [c \in InSector(s) |-> fat[1][c]]]

\* Mutated form of CountedBy: the count is never brought up to date.
CountedByNothing(by) == free

\* free_count, once counted, after `by' more clusters have become free.
CountedBy(by) == IF free = Uncounted THEN free ELSE (free + by) % CountSpan

FreeClusters == Cardinality({c \in Clusters : FatView[c] = FREE})

\* begin_change: the clusters whose entries are read to count the free ones, if that is to do.
Counting == IF HasFsInfo /\ free = Uncounted THEN [i \in 1..ClusterCount |-> i + 1] ELSE <<>>

-----------------------------------------------------------------------------
\* The writes a change consists of.

\* allocate: the first `count' free clusters from the hint on, around the volume.
ScanOrder ==
  LET start == IF next < 2 THEN 2 ELSE IF next > ClusterCount + 1 THEN ClusterCount + 1 ELSE next
  IN  [i \in 1..ClusterCount |-> 2 + ((start - 3 + i) % ClusterCount)]
FreeInOrder == SelectSeq(ScanOrder, LAMBDA c : FatView[c] = FREE)
Fits(count) == Len(FreeInOrder) >= count
Allocate(count) == SubSeq(FreeInOrder, 1, count)
\* The clusters looked at: up to the last one taken, or all of them.
Scanned(count) ==
  IF ~Fits(count) THEN ScanOrder
  ELSE IF count = 0 THEN <<>>
  ELSE SubSeq(ScanOrder, 1, CHOOSE i \in 1..ClusterCount : ScanOrder[i] = FreeInOrder[count])

\* write_clusters
DataWrites(clusters, contents) ==
  [i \in 1..Len(clusters) |-> [to |-> "sector", at |-> clusters[i], with |-> contents[i]]]

\* Mutated form of FatWrites: only the first copy of the FAT is kept up to date.
FatWritesFirst(updates) ==
  LET sectorOf(i) == FatSector(updates[i][1])
      ends == {i \in 1..Len(updates) : i = Len(updates) \/ sectorOf(i + 1) # sectorOf(i)}
      value(c, i) == LET hits == {j \in 1..i : updates[j][1] = c}
                     IN  IF hits = {} THEN FatView[c] ELSE updates[Max(hits)][2]
      flush(i) == [to |-> "fat", copy |-> 1, at |-> sectorOf(i),
                   with |-> [c \in InSector(sectorOf(i)) |-> value(c, i)]]
  IN  [g \in 1..Cardinality(ends) |-> flush(SetToSortSeq(ends, LAMBDA i, j : i < j)[g])]

\* set_fat_entry for each of `updates' (a cluster and its new value) and flush_fat: the changes
\* to one FAT sector are collected and written to every copy before the next sector's.
FatWrites(updates) ==
  LET sectorOf(i) == FatSector(updates[i][1])
      ends == {i \in 1..Len(updates) : i = Len(updates) \/ sectorOf(i + 1) # sectorOf(i)}
      value(c, i) == LET hits == {j \in 1..i : updates[j][1] = c}
                     IN  IF hits = {} THEN FatView[c] ELSE updates[Max(hits)][2]
      flush(i) == [copy \in 1..Copies |->
                     [to |-> "fat", copy |-> copy, at |-> sectorOf(i),
                      with |-> [c \in InSector(sectorOf(i)) |-> value(c, i)]]]
  IN  FlattenSeq([g \in 1..Cardinality(ends) |-> flush(SetToSortSeq(ends, LAMBDA i, j : i < j)[g])])

\* link: the clusters become a chain, in order.
LinkWrites(clusters) ==
  FatWrites([i \in 1..Len(clusters) |->
               <<clusters[i], IF i = Len(clusters) THEN END ELSE clusters[i + 1]>>])

\* free_chain's writes
FreeWrites(chain) == FatWrites([i \in 1..Len(chain) |-> <<chain[i], FREE>>])

\* Mutated form of StoreWrites: the last sector first.
StoreWritesBackwards(slots, sectors, from, to) ==
  LET first == (from - 1) \div SlotsPerSector
      last == (to - 1) \div SlotsPerSector
  IN  [i \in 1..(last - first + 1) |->
         [to |-> "sector", at |-> sectors[last + 2 - i],
          with |-> DirSector(SubSeq(slots, (last + 1 - i) * SlotsPerSector + 1, (last + 2 - i) * SlotsPerSector))]]

\* store_dir: the sectors that hold the slots from..to, in order.
StoreWrites(slots, sectors, from, to) ==
  LET first == (from - 1) \div SlotsPerSector
      last == (to - 1) \div SlotsPerSector
  IN  [i \in 1..(last - first + 1) |->
         [to |-> "sector", at |-> sectors[first + i],
          with |-> DirSector(SubSeq(slots, (first + i - 1) * SlotsPerSector + 1, (first + i) * SlotsPerSector))]]

\* finish_change: FSInfo is written when the free clusters have been counted.
InfoWrites(count) ==
  IF HasFsInfo /\ count # Uncounted THEN <<[to |-> "info", at |-> 0, with |-> count]>> ELSE <<>>
FinishWrites == InfoWrites(free)

-----------------------------------------------------------------------------
\* Directory images.

\* free_run: the first run of deleted slots, or the slots from the end marker on with the
\* deleted ones right before it; 0 when there is no room.
FreeRun(slots, count) ==
  LET used == UsedSlots(slots)
      deleted(a, b) == \A i \in a..b : slots[i] = DeletedSlot
      runs == {s \in 1..(used - count + 1) : deleted(s, s + count - 1)}
      tail == Min({s \in 1..(used + 1) : deleted(s, used)})
  IN  IF runs # {} THEN Min(runs)
      ELSE IF used < Len(slots) /\ tail - 1 + count <= Len(slots) THEN tail
      ELSE 0

\* short_names: the 8.3 names in use.
ShortNames(slots) ==
  {slots[i].short : i \in {j \in 1..UsedSlots(slots) : slots[j].slot = "entry"}}

\* alias: the first base~n that is not taken.
Alias(base, taken) == Tilde(base, CHOOSE n \in 1..(Cardinality(taken) + 1) :
                                    /\ Tilde(base, n) \notin taken
                                    /\ \A m \in 1..(n - 1) : Tilde(base, m) \in taken)

\* The slots add_entry writes: short_entry alone, or long_entries and the alias's.
NewEntries(o) ==
  IF o.name.n # LongTag THEN <<EntrySlot(o.name, o.kind, o.first, o.size)>>
  ELSE LET short == Alias(o.name.base, ShortNames(o.slots))
       IN  <<LongSlot(o.name, short), EntrySlot(short, o.kind, o.first, o.size)>>

Overwrite(slots, at, entries) ==
  [i \in 1..Len(slots) |-> IF i \in at..(at + Len(entries) - 1) THEN entries[i - at + 1] ELSE slots[i]]

-----------------------------------------------------------------------------
Content(id, size) == [i \in 1..size |-> DataSector(id, i)]

\* A volume with a kernel (one cluster, written as id 0) and nothing else.
Init ==
  /\ fatType \in {"Fat16", "Fat32"}
  /\ LET kernel == 3
         chains == [c \in Clusters |-> IF c = kernel \/ c = RootFirst THEN END ELSE FREE]
         boot == EntrySlot(Short("kernel8.img"), "file", kernel, 1)
         rootAt == DirSectors(chains, RootFirst, Root)
     IN  /\ fat = [copy \in 1..Copies |-> chains]
         /\ sec = [s \in Sectors |->
                     IF s = kernel THEN DataSector(0, 1)
                     ELSE IF s \notin Range(rootAt) THEN DataSector(0, 0)
                     ELSE IF s = rootAt[1] THEN DirSector(Overwrite(EmptyDir.slots, 1, <<boot>>))
                     ELSE EmptyDir]
         /\ info = Cardinality({c \in Clusters : chains[c] = FREE})
  /\ files = FilesOf(fat[1], sec, RootFirst)
  /\ cache = NoCache /\ free = Uncounted /\ next = 2
  /\ phase = "idle" /\ todo = <<>> /\ op = NoOp
  /\ ops = 0 /\ faults = 0 /\ miscounted = {} /\ disowned = FALSE

\* Mutated form of Enter: the cache stays while the sector is written.
EnterCached(p, writes, cached) == phase' = p /\ todo' = writes /\ cache' = cached

\* A phase begins.  Before a FAT sector is written, set_fat_entry has taken it from the cache.
Enter(p, writes, cached) ==
  /\ phase' = p /\ todo' = writes
  /\ cache' = IF writes # <<>> /\ Head(writes).to = "fat" THEN NoCache ELSE cached
Finish(o) == Enter("finish", FinishWrites, cache) /\ op' = o
Failed(o) == [o EXCEPT !.result = "error"]

\* free_chain(first) on the way out: nothing for an empty file, an error when the chain does
\* not check out.
Free(first, o) ==
  LET chain == IF first = 0 THEN <<>> ELSE Chain(FatView, first)
      cached == CacheAfter(chain)
  IN  IF first = 0 \/ ChainOK(FatView, first)
      THEN Enter("free", FreeWrites(chain), cached) /\ op' = [o EXCEPT !.freeing = chain]
      ELSE Enter("finish", FinishWrites, cached) /\ op' = Failed(o)

\* add_entry's store_dir, of the image with the new entries at `at'.
StoreEntries(o, at) ==
  LET entries == NewEntries(o)
      slots == Overwrite(o.slots, at, entries)
  IN  Enter("store", StoreWrites(slots, o.sectors, at, at + Len(entries) - 1), cache) /\ op' = o

\* create_dir: a directory's first cluster has "." and "..", then the end.
NewDir == DirSector([i \in 1..SlotsPerSector |-> IF i <= 2 THEN DotSlot ELSE EndSlot])

\* A call, and what it finds out on its way.  The sectors it writes carry its number.
Caller(r, id) == [call |-> r.call, path |-> r.path, name |-> r.name, kind |-> "file",
                  size |-> r.size, body |-> Content(id, r.size), image |-> Content(id, r.size),
                  dir |-> 0, slots |-> <<>>, sectors |-> <<>>, slot |-> 0,
                  first |-> 0, old |-> 0, chain |-> <<>>, freeing |-> <<>>, failing |-> FALSE, result |-> "ok"]

\* write_file_inner and create_dir_inner up to the first write.
BeginWrite(o) ==
  LET body == o.body
      dir == FindDir(FatView, sec, RootFirst, o.path)
      sectors == DirSectors(FatView, RootFirst, dir)
      slots == DirSlots(sec, sectors)
      existing == IF dir = NoDir THEN NoEntry ELSE Find(slots, o.name)
      refused == \/ dir = NoDir
                 \/ existing # NoEntry /\ (o.kind = "dir" \/ existing.kind = "dir")
      chain == Allocate(Len(body))
      free1 == IF Counting # <<>> THEN FreeClusters ELSE free
      opened == [o EXCEPT !.dir = dir, !.slots = slots, !.sectors = sectors,
                          !.slot = existing.slot, !.old = IF existing = NoEntry THEN 0 ELSE existing.first]
  IN  \/ /\ refused
         /\ Finish(Failed(o))
         /\ UNCHANGED <<free, next>>
      \/ /\ ~refused /\ ~Fits(Len(body))
         /\ free' = free1
         /\ Enter("finish", InfoWrites(free1), CacheAfter(Counting \o Scanned(Len(body))))
         /\ op' = Failed(o)
         /\ UNCHANGED next
      \/ /\ ~refused /\ Fits(Len(body))
         /\ free' = free1
         /\ next' = IF body = <<>> THEN next ELSE Last(chain) + 1
         /\ Enter("link", DataWrites(chain, body) \o LinkWrites(chain), CacheAfter(Counting \o Scanned(Len(body))))
         /\ op' = [opened EXCEPT !.chain = chain, !.first = IF body = <<>> THEN 0 ELSE chain[1]]

IsProtected(r) == r.path = <<>> /\ r.name.base \in ProtectedNames

\* sys::fs::write_file and create_dir
WriteFile(r) ==
  /\ Idle /\ ops < MaxOps
  /\ r.call \in {"write", "mkdir"} /\ ~IsProtected(r)
  /\ ops' = ops + 1
  /\ BeginWrite(IF r.call = "mkdir" THEN [Caller(r, ops') EXCEPT !.kind = "dir", !.body = <<NewDir>>]
                 ELSE Caller(r, ops'))
  /\ UNCHANGED <<disk, faults, history>>

\* sys::fs::install_kernel: /kernel8.img, if there is one, goes to /kernel8.bak first.
Kernel == Find(DirSlots(sec, DirSectors(FatView, RootFirst, Root)), Short("kernel8.img"))

\* Mutated form of InstallKernel: without the backup.
InstallKernelOver(r) ==
  /\ Idle /\ ops < MaxOps
  /\ r.call = "install"
  /\ ops' = ops + 1
  /\ BeginWrite(Caller(r, ops'))
  /\ UNCHANGED <<disk, faults, history>>

InstallKernel(r) ==
  /\ Idle /\ ops < MaxOps
  /\ r.call = "install"
  /\ ops' = ops + 1
  /\ BeginWrite(IF Kernel = NoEntry THEN Caller(r, ops')
                 ELSE [Caller(r, ops') EXCEPT !.name = Short("kernel8.bak"), !.size = Kernel.size,
                          !.body = ReadChain(FatView, sec, Kernel.first, Kernel.size)])
  /\ UNCHANGED <<disk, faults, history>>

\* sys::fs::remove, up to the first write.
RemovePath(r) ==
  /\ Idle /\ ops < MaxOps
  /\ r.call = "remove" /\ ~IsProtected(r)
  /\ ops' = ops + 1
  /\ LET dir == FindDir(FatView, sec, RootFirst, r.path)
         sectors == DirSectors(FatView, RootFirst, dir)
         slots == DirSlots(sec, sectors)
         e == IF dir = NoDir THEN NoEntry ELSE Find(slots, r.name)
         notEmpty == e.kind = "dir" /\ Located(DirSlots(sec, DirSectors(FatView, RootFirst, e.first))) # {}
         refused == e = NoEntry \/ (e # NoEntry /\ notEmpty)
         o == Caller(r, ops')
         marked == [i \in 1..Len(slots) |-> IF i \in e.from..e.slot THEN DeletedSlot ELSE slots[i]]
     IN  \/ /\ refused
            /\ Finish(Failed(o))
            /\ UNCHANGED free
         \/ /\ ~refused
            /\ free' = IF Counting # <<>> THEN FreeClusters ELSE free
            /\ Enter("store", StoreWrites(marked, sectors, e.from, e.slot), CacheAfter(Counting))
            /\ op' = [o EXCEPT !.old = e.first, !.slot = e.slot]
  /\ UNCHANGED <<disk, next, faults, history>>

-----------------------------------------------------------------------------
\* What follows the last write of a phase.

Done(p) == phase = p /\ todo = <<>> /\ ~op.failing

\* link is done: point the existing entry at the chain, or add an entry, growing the directory
\* (grow_dir) when it has no room.
Linked ==
  /\ Done("link")
  /\ free' = CountedBy(-Len(op.chain))
  /\ LET needed == Len(NewEntries(op))
         at == FreeRun(op.slots, needed)
         freeAtEnd == Len(op.slots) - UsedSlots(op.slots)
         grown == (needed - freeAtEnd + SlotsPerSector - 1) \div SlotsPerSector
         new == Allocate(grown)
     IN  \/ /\ op.slot # 0
            /\ LET entry == [op.slots[op.slot] EXCEPT !.first = op.first, !.size = op.size]
               IN  Enter("store", StoreWrites([op.slots EXCEPT ![op.slot] = entry], op.sectors, op.slot, op.slot), cache)
            /\ UNCHANGED <<op, next>>
         \/ /\ op.slot = 0 /\ at # 0
            /\ StoreEntries(op, at)
            /\ UNCHANGED next
         \/ \* DirectoryFull, or no space to grow
            /\ op.slot = 0 /\ at = 0
            /\ (op.dir = Root /\ RootFirst = 0) \/ ~Fits(grown)
            /\ Free(op.first, Failed(op))
            /\ UNCHANGED next
         \/ /\ op.slot = 0 /\ at = 0
            /\ ~(op.dir = Root /\ RootFirst = 0) /\ Fits(grown)
            /\ Enter("grow", DataWrites(new, [i \in 1..grown |-> EmptyDir]) \o LinkWrites(new),
                     CacheAfter(Scanned(grown)))
            /\ op' = [op EXCEPT !.chain = new]
            /\ next' = Last(new) + 1
  /\ UNCHANGED <<disk, ops, faults, history>>

\* grow_dir's clusters are linked: hook them onto the directory's last one.
Grown ==
  /\ Done("grow")
  /\ free' = CountedBy(-Len(op.chain))
  /\ Enter("hook", FatWrites(<<<<Last(op.sectors), op.chain[1]>>>>), cache)
  /\ UNCHANGED <<disk, next, op, ops, faults, history>>

\* ... and the entries go to the first slots that were free at the directory's end.
Hooked ==
  /\ Done("hook")
  /\ StoreEntries([op EXCEPT !.sectors = @ \o op.chain,
                             !.slots = @ \o [i \in 1..(Len(op.chain) * SlotsPerSector) |-> EndSlot]],
           UsedSlots(op.slots) + 1)
  /\ UNCHANGED <<disk, free, next, ops, faults, history>>

\* The directory says so: old clusters may go.
Stored ==
  /\ Done("store")
  /\ IF op.slot # 0 THEN Free(op.old, op) ELSE Finish(op)
  /\ UNCHANGED <<disk, free, next, ops, faults, history>>

Freed ==
  /\ Done("free")
  /\ LET count == Len(op.freeing)
     IN  /\ free' = CountedBy(count)
         /\ next' = IF count = 0 THEN next ELSE Min({next} \cup Range(op.freeing))
         /\ Enter("finish", InfoWrites(CountedBy(count)), cache)
  /\ UNCHANGED <<disk, op, ops, faults, history>>

\* The call returns; install_kernel's first write_file is followed by its second.
Return ==
  /\ Done("finish")
  /\ IF op.call = "install" /\ op.name # Short("kernel8.img") /\ op.result = "ok"
     THEN BeginWrite([op EXCEPT !.name = Short("kernel8.img"), !.size = Len(op.image), !.body = op.image])
     ELSE Enter("idle", <<>>, cache) /\ op' = NoOp /\ UNCHANGED <<free, next>>
  /\ UNCHANGED <<disk, ops, faults, history>>

-----------------------------------------------------------------------------
\* The device.

Apply(w) ==
  /\ \/ /\ w.to = "sector"
        /\ sec' = [sec EXCEPT ![w.at] = w.with]
        /\ UNCHANGED <<fat, info>>
     \/ /\ w.to = "fat"
        /\ fat' = [fat EXCEPT ![w.copy] = [c \in Clusters |-> IF c \in DOMAIN w.with THEN w.with[c] ELSE @[c]]]
        /\ UNCHANGED <<sec, info>>
     \/ /\ w.to = "info"
        /\ info' = w.with
        /\ UNCHANGED <<fat, sec>>
  /\ files' = FilesOf(fat'[1], sec', RootFirst)
  /\ UNCHANGED fatType

\* flush_fat: once every copy has it, the sector is the cached one.
CacheWritten ==
  IF Head(todo).to = "fat" /\ Head(todo).copy = Copies
  THEN [sector |-> Head(todo).at, block |-> Head(todo).with] ELSE cache

\* A sector is written.
WriteSector ==
  /\ todo # <<>>
  /\ Apply(Head(todo))
  /\ Enter(phase, Tail(todo), CacheWritten)
  /\ miscounted' = IF Head(todo).to = "info" THEN miscounted \ {"info"} ELSE miscounted
  /\ UNCHANGED <<free, next, op, ops, faults, disowned>>

\* An error the counts do not follow: at a FAT sector of clusters being linked or freed, or at FSInfo.
Miscounts ==
  IF Head(todo).to = "info" THEN {"info"}
  ELSE IF Head(todo).to = "fat" /\ phase # "hook" THEN {"fat"} ELSE {}

\* The sector to be written has a new entry, whose clusters are given back if it fails (Abandon).
WillDisown == phase = "store" /\ op.slot = 0 /\ op.first # 0 /\ Len(todo) = 1

\* The card reports an error, having written the sector or not.
DeviceError ==
  /\ todo # <<>> /\ faults < MaxFaults
  /\ faults' = faults + 1
  /\ \/ UNCHANGED <<disk, disowned>>
     \/ Apply(Head(todo)) /\ disowned' = (disowned \/ WillDisown)
  /\ miscounted' = miscounted \cup Miscounts
  /\ todo' = <<>> /\ op' = [op EXCEPT !.failing = TRUE]
  /\ UNCHANGED <<cache, free, next, phase, ops>>

\* What a call does about it: an entry that could not be added gives its chain back, any other
\* error ends the call; finish_change still writes FSInfo, unless that is what failed.
Abandon ==
  /\ op # NoOp /\ op.failing
  /\ LET o == [op EXCEPT !.failing = FALSE, !.result = "error"]
     IN  \/ /\ phase \in {"grow", "hook", "store"} /\ op.slot = 0
            /\ Free(op.first, o)
         \/ /\ phase \in {"link", "free"} \/ (phase = "store" /\ op.slot # 0)
            /\ Finish(o)
         \/ /\ phase = "finish"
            /\ Enter("idle", <<>>, cache) /\ op' = NoOp
  /\ UNCHANGED <<disk, free, next, ops, faults, history>>

\* The power fails, and the volume is mounted again.
PowerCut ==
  /\ faults < MaxFaults
  /\ faults' = faults + 1
  /\ free' = Uncounted /\ next' = 2
  /\ Enter("idle", <<>>, NoCache) /\ op' = NoOp
  /\ miscounted' = {}
  /\ UNCHANGED <<disk, ops, disowned>>

Next ==
  \/ \E r \in Requests : WriteFile(r) \/ InstallKernel(r) \/ RemovePath(r)
  \/ Linked \/ Grown \/ Hooked \/ Stored \/ Freed \/ Return
  \/ WriteSector \/ DeviceError \/ Abandon \/ PowerCut

Spec == Init /\ [][Next]_vars

-----------------------------------------------------------------------------
\* The variables hold what their code counterparts can.
TypeOK ==
  /\ fatType \in {"Fat16", "Fat32"}
  /\ fat \in [1..Copies -> [Clusters -> FatValues]]
  /\ info \in 0..(CountSpan - 1)
  /\ free \in {Uncounted} \cup 0..(CountSpan - 1)
  /\ next \in 2..(ClusterCount + 2)
  /\ cache = NoCache \/ cache.sector \in FatSectors
  /\ phase \in {"idle", "link", "grow", "hook", "store", "free", "finish"}

\* fat/write.rs's promise, at every write of every change, whichever copy of the FAT a reader
\* trusts: never "a file pointing at clusters that aren't its own", or that are free.
EntriesOwnClusters == \A copy \in 1..Copies : SoundTree(fat[copy], sec, RootFirst)

\* The promise is kept through power cuts and device errors, those of a sector that was written
\* all the same included, except where the code gives a new entry's clusters back because of an
\* error at the sector with the entry: that sector may have been written.
NeverAnothersClusters == ~disowned => EntriesOwnClusters

\* The FAT sector kept in memory is the one on the card, whatever failed before.
CacheCoherent == \A c \in Clusters : FatView[c] = fat[1][c]

\* FSInfo's count is the number of free clusters after a change, "successful or not", unless the
\* card failed at FSInfo itself or, since the volume was mounted, at a FAT sector while clusters
\* were linked or freed: free_count changes only after the last sector of a chain.
FsInfoExact ==
  Idle /\ miscounted = {} /\ free # Uncounted => info = Cardinality({c \in Clusters : fat[1][c] = FREE})

\* The call, as the change it asks for.
Request ==
  IF op = NoOp THEN [do |-> "none"]
  ELSE [do |-> IF op.call = "remove" THEN "remove" ELSE "put", path |-> op.path, name |-> op.name,
        kind |-> op.kind, body |-> IF op.kind = "dir" THEN <<>> ELSE op.body]
Store == INSTANCE FileStore WITH op <- Request,
                                 settled <- phase = "finish" /\ op.result = "ok"

\* Every call takes effect at one sector write or not at all, and an Ok means it has.  (A call that
\* reports an error may have taken effect; for a new entry see NeverAnothersClusters.)
ChangesAreAtomicStep == ~disowned => Store!Next \/ UNCHANGED Store!vars
ChangesAreAtomic == [][ChangesAreAtomicStep]_vars

\* install_kernel never leaves the Pi without a kernel, and has the previous one in
\* /kernel8.bak before it replaces it (likewise).
BodyOf(name) == {f.body : f \in {g \in files : g.path = <<>> /\ g.name = Short(name)}}
OldKernelKeptStep ==
  ~disowned /\ BodyOf("kernel8.img") # BodyOf("kernel8.img")' =>
    BodyOf("kernel8.img")' # {} /\ BodyOf("kernel8.bak") = BodyOf("kernel8.img")
OldKernelKept == [][OldKernelKeptStep]_vars
=============================================================================
