---------------------------- MODULE LocalProofs -----------------------------
(***************************************************************************)
(* What is handed over within the Pi, proved for every value of the        *)
(* constants: the stacks of the cores, and the bytes of a pipe.            *)
(***************************************************************************)
EXTENDS LocalLinks, TLAPS
-----------------------------------------------------------------------------
(* The stacks that the other cores start on (Cores).                       *)

(* All cores but core 0 are in the firmware's loop at first.               *)
LEMMA CoresInit == Cores!Init => Cores!StartInv
<1> SUFFICES ASSUME Cores!Init PROVE Cores!StartInv
  BY Zenon
<1>1. Cores!StartTypes
  BY CoresAssumption DEF Cores!Init, Cores!StartTypes, Cores!Others, Cores!Lines, Cores!Unset
<1>2. Cores!TopsInMemory /\ Cores!OwnStack /\ Cores!OthersWoke
  BY DEF Cores!Init, Cores!TopsInMemory, Cores!Sent, Cores!OwnStack, Cores!OthersWoke
<1>3. Cores!TopsWritten
  <2>1. \A core \in Cores!Others : v1["tops"][core] = Cores!Unset /\ Cores!Seen["tops"][core] = Cores!Unset
    BY Zenon DEF Cores!Init, Cores!Seen, Cores!Lines
  <2>2. v4.at = "tops" /\ \A core \in Cores!Others : ~(core < v4.core)
    BY CoresAssumption DEF Cores!Init, Cores!Others
  <2> QED
    BY <2>1, <2>2, Zenon DEF Cores!TopsWritten
<1>4. Cores!Counted = {}
  BY Zenon DEF Cores!Init, Cores!Counted
<1>5. Cores!CountKept
  <2>1. v7 = 1 /\ v8 = 0 /\ 1 .. v7 - 1 = {}
    BY DEF Cores!Init
  <2>2. PICK f : f = [i \in 1 .. v7 - 1 |-> 0]
    BY Zenon
  <2>3. f \in [1 .. v7 - 1 -> Cores!Counted] /\ \A i, j \in 1 .. v7 - 1 : f[i] = f[j] => i = j
    BY <2>1, <2>2, Zenon
  <2>4. Cores!Counting(v7, Cores!Counted)
    BY <2>3, Zenon DEF Cores!Counting
  <2> QED
    BY <2>1, <2>4 DEF Cores!CountKept
<1> QED
  BY <1>1, <1>2, <1>3, <1>5, Zenon DEF Cores!StartInv

(* A word that core 0 stores is what it sees then, and nothing else is.    *)
LEMMA CoresStore ==
  ASSUME Cores!StartTypes, NEW line \in Cores!Lines, NEW core \in Cores!Others, NEW value \in Nat,
         Cores!Store(line, core, value)
  PROVE  /\ v1' = v1 /\ v2' \in [Cores!Lines -> [Cores!Others -> Nat]] /\ v3' = v3 \cup {line} /\ v9' = v9
         /\ Cores!Seen'[line][core] = value
         /\ \A c \in Cores!Others : c # core => Cores!Seen'[line][c] = Cores!Seen[line][c]
         /\ \A l \in Cores!Lines : l # line => Cores!Seen'[l] = Cores!Seen[l]
<1>1. Cores!Seen[line] \in [Cores!Others -> Nat]
  BY Zenon DEF Cores!Seen, Cores!StartTypes
<1>2. /\ v2' = [v2 EXCEPT ![line] = [Cores!Seen[line] EXCEPT ![core] = value]]
      /\ v1' = v1 /\ v3' = v3 \cup {line} /\ v9' = v9
  BY Zenon DEF Cores!Store
<1>3. [Cores!Seen[line] EXCEPT ![core] = value] \in [Cores!Others -> Nat]
  BY <1>1, Zenon
<1>4. v2' \in [Cores!Lines -> [Cores!Others -> Nat]] /\ v2'[line] = [Cores!Seen[line] EXCEPT ![core] = value]
  BY <1>2, <1>3, Zenon DEF Cores!StartTypes
<1>5. \A l \in Cores!Lines : l # line => v2'[l] = v2[l]
  BY <1>2, Zenon DEF Cores!StartTypes
<1>6. Cores!Seen'[line] = v2'[line]
  BY <1>2, Zenon DEF Cores!Seen
<1>7. \A l \in Cores!Lines : l # line => Cores!Seen'[l] = Cores!Seen[l]
  BY <1>2, <1>5, Zenon DEF Cores!Seen
<1> QED
  BY <1>1, <1>2, <1>4, <1>6, <1>7, Zenon

(* Lines that are written back, asked for or not, look the same to core 0  *)
(* and now also to the others.                                             *)
LEMMA CoresWriteBack ==
  ASSUME Cores!StartTypes, NEW those \in SUBSET Cores!Lines, Cores!WriteBack(those)
  PROVE  /\ v1' \in [Cores!Lines -> [Cores!Others -> Nat]] /\ v2' = v2 /\ v3' = v3 \ those
         /\ \A l \in Cores!Lines : Cores!Seen'[l] = Cores!Seen[l] /\ v1'[l] \in {v1[l], Cores!Seen[l]}
<1>1. \A l \in Cores!Lines : Cores!Seen[l] \in [Cores!Others -> Nat]
  BY Zenon DEF Cores!Seen, Cores!StartTypes
<1>2. /\ v1' = [l \in Cores!Lines |-> IF l \in those THEN Cores!Seen[l] ELSE v1[l]]
      /\ v2' = v2 /\ v3' = v3 \ those
  BY Zenon DEF Cores!WriteBack
<1>3. /\ v1' \in [Cores!Lines -> [Cores!Others -> Nat]]
      /\ \A l \in Cores!Lines : v1'[l] = IF l \in those THEN Cores!Seen[l] ELSE v1[l]
  BY <1>1, <1>2, Zenon DEF Cores!StartTypes
<1>4. \A l \in Cores!Lines : Cores!Seen'[l] = Cores!Seen[l]
  BY <1>2, <1>3, Zenon DEF Cores!Seen
<1> QED
  BY <1>2, <1>3, <1>4, Zenon

(* A line that is being cleaned is not in memory yet.                      *)
LEMMA CoresClean ==
  ASSUME Cores!StartInv, NEW line \in Cores!Lines, Cores!CleanToMemory(line)
  PROVE  v9' = v9 \cup {line} /\ UNCHANGED <<v1, v2, v3>> /\ Cores!Seen' = Cores!Seen
BY Zenon DEF Cores!CleanToMemory, Cores!Seen

(* The tops are as good as they were where core 0 sees no others and what  *)
(* is in memory is what was there or what it sees.                         *)
LEMMA CoresTops ==
  ASSUME Cores!StartInv, Cores!Seen'["tops"] = Cores!Seen["tops"],
         v1'["tops"] \in {v1["tops"], Cores!Seen["tops"]}, v4'.at = "tops" => v4' = v4
  PROVE  v4.at # "tops" \/ v4' = v4 => Cores!TopsWritten'
BY Zenon DEF Cores!StartInv, Cores!TopsWritten

(* What the other cores count is kept where none of them moves on.         *)
LEMMA CoresCountKept ==
  ASSUME Cores!StartInv, v5' = v5, v7' = v7, v8' = v8 \/ v8' = v7
  PROVE  Cores!CountKept'
<1>1. Cores!Counted' = Cores!Counted
  BY Zenon DEF Cores!Counted
<1> QED
  BY <1>1 DEF Cores!StartInv, Cores!StartTypes, Cores!CountKept

(* start writes the stacks' tops one after another.                        *)
LEMMA CoresStackTop ==
  ASSUME Cores!StartInv, Cores!StackTop
  PROVE  Cores!StartInv'
<1>1. PICK core : core = v4.core
  BY Zenon
<1>2. /\ v4.at = "tops" /\ core \in Cores!Others /\ core \in 1 .. CORES - 1 /\ Cores!StackOf(core) \in Nat
      /\ Cores!Store("tops", core, Cores!StackOf(core)) /\ "tops" \in Cores!Lines /\ "slots" \in Cores!Lines
  BY <1>1, CoresAssumption
  DEF Cores!StackTop, Cores!StartInv, Cores!StartTypes, Cores!Others, Cores!StackOf, Cores!Lines
<1>3. /\ v1' = v1 /\ v2' \in [Cores!Lines -> [Cores!Others -> Nat]] /\ v3' = v3 \cup {"tops"} /\ v9' = v9
      /\ Cores!Seen'["tops"][core] = Cores!StackOf(core)
      /\ \A c \in Cores!Others : c # core => Cores!Seen'["tops"][c] = Cores!Seen["tops"][c]
  BY <1>2, CoresStore DEF Cores!StartInv
<1>4. v4' = IF core < CORES - 1 THEN [at |-> "tops", core |-> core + 1] ELSE [at |-> "cleanTops", core |-> 1]
  BY <1>1, Zenon DEF Cores!StackTop, Cores!Go
<1>5. v5' = v5 /\ v6' = v6 /\ v7' = v7 /\ v8' = v8 /\ v10' = v10
  BY Zenon DEF Cores!StackTop, Cores!others
<1>6. Cores!StartTypes'
  <2>1. /\ v4' \in [at : {"tops", "cleanTops", "slot", "cleanSlot", "barrier", "wait", "returned"}, core : 0 .. CORES - 1]
        /\ v4'.at \in {"tops", "slot", "cleanSlot"} => v4'.core \in Cores!Others
    BY <1>2, <1>4, CoresAssumption DEF Cores!Others
  <2> QED
    BY <1>2, <1>3, <1>5, <2>1, Zenon DEF Cores!StartInv, Cores!StartTypes
<1>7. Cores!TopsWritten'
  <2>1. ASSUME NEW c \in Cores!Others, v4'.at # "tops" \/ c < v4'.core
        PROVE  c = core \/ c < core
    BY <1>2, <1>4, <2>1, CoresAssumption DEF Cores!Others
  <2>2. \A c \in Cores!Others : c < core => Cores!Seen["tops"][c] = Cores!StackOf(c)
    BY <1>1, Zenon DEF Cores!StartInv, Cores!TopsWritten
  <2>3. ASSUME NEW c \in Cores!Others, v4'.at # "tops" \/ c < v4'.core
        PROVE  Cores!Seen'["tops"][c] = Cores!StackOf(c)
    BY <1>3, <2>1, <2>2, <2>3, Zenon
  <2>4. ASSUME NEW c \in Cores!Others
        PROVE  /\ Cores!Seen'["tops"][c] \in {Cores!Unset, Cores!StackOf(c)}
               /\ v1'["tops"][c] \in {Cores!Unset, Cores!StackOf(c)}
    BY <1>3, Zenon DEF Cores!StartInv, Cores!TopsWritten
  <2> QED
    BY <2>3, <2>4, Zenon DEF Cores!TopsWritten
<1>8. Cores!TopsInMemory'
  BY <1>4, Zenon DEF Cores!TopsInMemory, Cores!Sent
<1>9. Cores!OthersWoke' /\ Cores!OwnStack'
  BY <1>2, <1>5, Zenon DEF Cores!StartInv, Cores!OthersWoke, Cores!Sent, Cores!OwnStack
<1>10. Cores!CountKept'
  BY <1>5, CoresCountKept, Zenon
<1> QED
  BY <1>6, <1>7, <1>8, <1>9, <1>10, Zenon DEF Cores!StartInv

(* Then it cleans their line.                                              *)
LEMMA CoresCleanTops ==
  ASSUME Cores!StartInv, Cores!CleanTops
  PROVE  Cores!StartInv'
<1>1. v9' = v9 \cup {"tops"} /\ UNCHANGED <<v1, v2, v3>> /\ Cores!Seen' = Cores!Seen
  BY CoresClean, Zenon DEF Cores!CleanTops, Cores!Lines
<1>2. v4' = [at |-> "slot", core |-> 1] /\ v4.at = "cleanTops" /\ UNCHANGED <<v5, v6, v7, v8, v10>>
  BY Zenon DEF Cores!CleanTops, Cores!Go, Cores!others
<1>3. Cores!StartTypes'
  BY <1>1, <1>2, CoresAssumption DEF Cores!StartInv, Cores!StartTypes, Cores!Others
<1>4. Cores!TopsWritten'
  BY <1>1, <1>2, CoresTops, Zenon
<1>5. Cores!TopsInMemory' /\ Cores!OthersWoke' /\ Cores!OwnStack'
  BY <1>1, <1>2, Zenon DEF Cores!StartInv, Cores!TopsInMemory, Cores!OthersWoke, Cores!Sent, Cores!OwnStack
<1>6. Cores!CountKept'
  BY <1>2, CoresCountKept, Zenon
<1> QED
  BY <1>3, <1>4, <1>5, <1>6, Zenon DEF Cores!StartInv

(* Sending a core leaves the stacks' tops alone.                           *)
LEMMA CoresSlot ==
  ASSUME Cores!StartInv, Cores!Slot
  PROVE  Cores!StartInv'
<1>1. PICK core : core = v4.core
  BY Zenon
<1>2. /\ v4.at = "slot" /\ core \in Cores!Others /\ Cores!EntryPoint \in Nat
      /\ Cores!Store("slots", core, Cores!EntryPoint) /\ "tops" \in Cores!Lines /\ "slots" \in Cores!Lines
  BY <1>1, Zenon DEF Cores!Slot, Cores!StartInv, Cores!StartTypes, Cores!EntryPoint, Cores!Lines
<1>3. /\ v1' = v1 /\ v2' \in [Cores!Lines -> [Cores!Others -> Nat]] /\ v3' = v3 \cup {"slots"} /\ v9' = v9
      /\ Cores!Seen'["tops"] = Cores!Seen["tops"]
  BY <1>2, CoresStore DEF Cores!StartInv
<1>4. v4' = [at |-> "cleanSlot", core |-> core] /\ UNCHANGED <<v5, v6, v7, v8, v10>>
  BY <1>1, Zenon DEF Cores!Slot, Cores!Go, Cores!others
<1>5. Cores!StartTypes'
  BY <1>1, <1>2, <1>3, <1>4, Zenon DEF Cores!StartInv, Cores!StartTypes
<1>6. Cores!TopsWritten'
  BY <1>2, <1>3, <1>4, CoresTops, Zenon
<1>7. Cores!TopsInMemory' /\ Cores!OthersWoke' /\ Cores!OwnStack'
  BY <1>2, <1>3, <1>4, Zenon
  DEF Cores!StartInv, Cores!TopsInMemory, Cores!OthersWoke, Cores!Sent, Cores!OwnStack
<1>8. Cores!CountKept'
  BY <1>4, CoresCountKept, Zenon
<1> QED
  BY <1>5, <1>6, <1>7, <1>8, Zenon DEF Cores!StartInv

(* So does cleaning the line of the core's word.                           *)
LEMMA CoresCleanSlot ==
  ASSUME Cores!StartInv, Cores!CleanSlot
  PROVE  Cores!StartInv'
<1>1. v9' = v9 \cup {"slots"} /\ UNCHANGED <<v1, v2, v3>> /\ Cores!Seen' = Cores!Seen
  BY CoresClean, Zenon DEF Cores!CleanSlot, Cores!Lines
<1>2. v4.at = "cleanSlot" /\ v4.core \in 1 .. CORES - 1 /\ UNCHANGED <<v5, v6, v7, v8, v10>>
  BY Zenon DEF Cores!CleanSlot, Cores!StartInv, Cores!StartTypes, Cores!Others, Cores!others
<1>3. v4' = IF v4.core < CORES - 1 THEN [at |-> "slot", core |-> v4.core + 1] ELSE [at |-> "barrier", core |-> 0]
  BY Zenon DEF Cores!CleanSlot, Cores!Go
<1>4. Cores!StartTypes'
  <2>1. /\ v4' \in [at : {"tops", "cleanTops", "slot", "cleanSlot", "barrier", "wait", "returned"}, core : 0 .. CORES - 1]
        /\ v4'.at \in {"tops", "slot", "cleanSlot"} => v4'.core \in Cores!Others
    BY <1>2, <1>3, CoresAssumption DEF Cores!Others
  <2> QED
    BY <1>1, <1>2, <2>1, Zenon DEF Cores!StartInv, Cores!StartTypes
<1>5. v4'.at \in {"slot", "barrier"}
  BY <1>3, Zenon
<1>6. Cores!TopsWritten'
  BY <1>1, <1>2, <1>5, CoresTops, Zenon
<1>7. Cores!TopsInMemory' /\ Cores!OthersWoke' /\ Cores!OwnStack'
  BY <1>1, <1>2, <1>5, Zenon
  DEF Cores!StartInv, Cores!TopsInMemory, Cores!OthersWoke, Cores!Sent, Cores!OwnStack
<1>8. Cores!CountKept'
  BY <1>2, CoresCountKept, Zenon
<1> QED
  BY <1>4, <1>6, <1>7, <1>8, Zenon DEF Cores!StartInv

(* By the dsb everything is in memory, the stacks' tops included.          *)
LEMMA CoresBarrier ==
  ASSUME Cores!StartInv, Cores!Barrier
  PROVE  Cores!StartInv'
<1>1. PICK those : those = v9 \cap Cores!Lines
  BY Zenon
<1>2. "tops" \in Cores!Lines /\ "tops" \in those /\ those \in SUBSET Cores!Lines
  BY <1>1, Zenon DEF Cores!Barrier, Cores!StartInv, Cores!TopsInMemory, Cores!Lines
<1>3. Cores!WriteBack(those)
  <2>1. v3 \ v9 = v3 \ those
    BY <1>1, Zenon DEF Cores!StartInv, Cores!StartTypes
  <2>2. \A l \in Cores!Lines : l \in v9 <=> l \in those
    BY <1>1, Zenon
  <2>3. /\ v1' = [l \in Cores!Lines |-> IF l \in v9 THEN Cores!Seen[l] ELSE v1[l]]
        /\ v3' = v3 \ v9 /\ v2' = v2
    BY Zenon DEF Cores!Barrier, Cores!WriteBack
  <2>4. v1' = [l \in Cores!Lines |-> IF l \in those THEN Cores!Seen[l] ELSE v1[l]]
    BY <2>2, <2>3, Zenon
  <2> QED
    BY <2>1, <2>3, <2>4, Zenon DEF Cores!WriteBack
<1>4. /\ v1' \in [Cores!Lines -> [Cores!Others -> Nat]] /\ v2' = v2 /\ v3' = v3 \ those
      /\ Cores!Seen'["tops"] = Cores!Seen["tops"] /\ v1'["tops"] \in {v1["tops"], Cores!Seen["tops"]}
  BY <1>2, <1>3, CoresWriteBack, Zenon DEF Cores!StartInv
<1>5. v4' = [at |-> "wait", core |-> 0] /\ v4.at = "barrier" /\ UNCHANGED <<v5, v6, v7, v8, v10>>
  BY Zenon DEF Cores!Barrier, Cores!Go, Cores!others
<1>6. Cores!StartTypes'
  BY <1>4, <1>5, CoresAssumption DEF Cores!StartInv, Cores!StartTypes
<1>7. Cores!TopsWritten'
  BY <1>4, <1>5, CoresTops, Zenon
<1>8. Cores!TopsInMemory' /\ Cores!OthersWoke' /\ Cores!OwnStack'
  BY <1>2, <1>4, <1>5, Zenon
  DEF Cores!StartInv, Cores!TopsInMemory, Cores!OthersWoke, Cores!Sent, Cores!OwnStack
<1>9. Cores!CountKept'
  BY <1>5, CoresCountKept, Zenon
<1> QED
  BY <1>6, <1>7, <1>8, <1>9, Zenon DEF Cores!StartInv

(* start returns what the others have counted by then.                     *)
LEMMA CoresReturn ==
  ASSUME Cores!StartInv, Cores!Return
  PROVE  Cores!StartInv'
<1>1. /\ v4' = [at |-> "returned", core |-> 0] /\ v4.at = "wait" /\ v8' = v7
      /\ UNCHANGED <<v1, v2, v3, v5, v6, v7, v9, v10>>
  BY Zenon DEF Cores!Return, Cores!Go, Cores!lines
<1>2. Cores!StartTypes'
  BY <1>1, CoresAssumption DEF Cores!StartInv, Cores!StartTypes
<1>3. Cores!Seen'["tops"] = Cores!Seen["tops"]
  BY <1>1, Zenon DEF Cores!Seen
<1>4. Cores!TopsWritten'
  BY <1>1, <1>3, CoresTops, Zenon
<1>5. Cores!TopsInMemory' /\ Cores!OthersWoke' /\ Cores!OwnStack'
  BY <1>1, Zenon DEF Cores!StartInv, Cores!TopsInMemory, Cores!OthersWoke, Cores!Sent, Cores!OwnStack
<1>6. Cores!CountKept'
  BY <1>1, CoresCountKept, Zenon
<1> QED
  BY <1>2, <1>4, <1>5, <1>6, Zenon DEF Cores!StartInv

(* A line may reach memory at any time.                                    *)
LEMMA CoresEvict ==
  ASSUME Cores!StartInv, NEW line \in Cores!Lines, Cores!Evict(line)
  PROVE  Cores!StartInv'
<1>1. /\ v1' \in [Cores!Lines -> [Cores!Others -> Nat]] /\ v2' = v2 /\ v3' = v3 \ {line}
      /\ \A l \in Cores!Lines : Cores!Seen'[l] = Cores!Seen[l] /\ v1'[l] \in {v1[l], Cores!Seen[l]}
  BY CoresWriteBack, Zenon DEF Cores!Evict, Cores!StartInv
<1>2. UNCHANGED <<v4, v5, v6, v7, v8, v9, v10>> /\ "tops" \in Cores!Lines
  BY Zenon DEF Cores!Evict, Cores!others, Cores!Lines
<1>3. Cores!StartTypes'
  BY <1>1, <1>2, Zenon DEF Cores!StartInv, Cores!StartTypes
<1>4. Cores!TopsWritten'
  BY <1>1, <1>2, CoresTops, Zenon
<1>5. Cores!TopsInMemory' /\ Cores!OthersWoke' /\ Cores!OwnStack'
  BY <1>1, <1>2, Zenon DEF Cores!StartInv, Cores!TopsInMemory, Cores!OthersWoke, Cores!Sent, Cores!OwnStack
<1>6. Cores!CountKept'
  BY <1>2, CoresCountKept, Zenon
<1> QED
  BY <1>3, <1>4, <1>5, <1>6, Zenon DEF Cores!StartInv

(* A core that wakes after the dsb finds its stack's top in memory; one    *)
(* that wakes before it finds that or nothing.                             *)
LEMMA CoresWake ==
  ASSUME Cores!StartInv, NEW core \in Cores!Others, Cores!Wake(core) \/ Cores!SecondaryStart(core)
  PROVE  Cores!StartInv'
<1>1. UNCHANGED <<v1, v2, v3, v4, v7, v8, v9>>
  BY Zenon DEF Cores!Wake, Cores!SecondaryStart, Cores!lines
<1>2. Cores!Seen'["tops"] = Cores!Seen["tops"]
  BY <1>1, Zenon DEF Cores!Seen
<1>3. v1["tops"][core] \in {Cores!Unset, Cores!StackOf(core)} /\ (Cores!Sent => v1["tops"][core] = Cores!StackOf(core))
  <2>1. ASSUME Cores!Sent
        PROVE  v1["tops"][core] = Cores!StackOf(core)
    <3>1. "tops" \notin v3 /\ Cores!Seen["tops"][core] = Cores!StackOf(core)
      BY <2>1, Zenon DEF Cores!StartInv, Cores!TopsInMemory, Cores!TopsWritten, Cores!Sent
    <3> QED
      BY <3>1, Zenon DEF Cores!Seen, Cores!Lines
  <2> QED
    BY <2>1, Zenon DEF Cores!StartInv, Cores!TopsWritten
<1>4. /\ v5' \in [Cores!Others -> {"spin", "started", "main", "mmuOn", "scheduled", "ticking", "counted", "idle"}]
      /\ v5[core] \in {"spin", "started"} /\ v5'[core] \in {"started", "main"}
      /\ \A c \in Cores!Others : c # core => v5'[c] = v5[c]
  BY Zenon DEF Cores!Wake, Cores!SecondaryStart, Cores!StartInv, Cores!StartTypes
<1>5. v10 \subseteq v10' /\ (core \in v10' \/ Cores!Sent)
  BY Zenon DEF Cores!Wake, Cores!SecondaryStart, Cores!StartInv, Cores!OthersWoke, Cores!Sent
<1>6. /\ v6' \in [Cores!Others -> Nat] /\ \A c \in Cores!Others : c # core => v6'[c] = v6[c]
      /\ v5'[core] = "main" => v6'[core] = v1["tops"][core]
  <2>1. v1["tops"][core] \in Nat /\ v6 \in [Cores!Others -> Nat]
    BY Zenon DEF Cores!StartInv, Cores!StartTypes, Cores!Lines
  <2>2. v5 \in [Cores!Others -> {"spin", "started", "main", "mmuOn", "scheduled", "ticking", "counted", "idle"}]
    BY Zenon DEF Cores!StartInv, Cores!StartTypes
  <2>3. CASE Cores!Wake(core)
    BY <2>1, <2>2, <2>3 DEF Cores!Wake
  <2>4. CASE Cores!SecondaryStart(core)
    BY <2>1, <2>2, <2>4, Zenon DEF Cores!SecondaryStart
  <2> QED
    BY <2>3, <2>4
<1>7. Cores!StartTypes'
  BY <1>1, <1>4, <1>6, Zenon DEF Cores!StartInv, Cores!StartTypes
<1>8. Cores!TopsWritten' /\ Cores!TopsInMemory'
  <2>1. Cores!TopsWritten'
    BY <1>1, <1>2, CoresTops, Zenon
  <2> QED
    BY <1>1, <2>1, Zenon DEF Cores!StartInv, Cores!TopsInMemory, Cores!Sent
<1>9. Cores!OthersWoke'
  BY <1>1, <1>4, <1>5, Zenon DEF Cores!StartInv, Cores!OthersWoke, Cores!Sent
<1>10. Cores!OwnStack'
  BY <1>3, <1>4, <1>5, <1>6, Zenon DEF Cores!StartInv, Cores!OwnStack
<1>11. Cores!Counted' = Cores!Counted
  BY <1>4, Zenon DEF Cores!Counted
<1>12. Cores!CountKept'
  BY <1>1, <1>11, Zenon DEF Cores!StartInv, Cores!CountKept
<1> QED
  BY <1>7, <1>8, <1>9, <1>10, <1>12, Zenon DEF Cores!StartInv

(* secondary_main counts a core once, when it takes tasks and has a tick.  *)
LEMMA CoresMain ==
  ASSUME Cores!StartInv, NEW core \in Cores!Others, Cores!SecondaryMain(core)
  PROVE  Cores!StartInv'
<1>1. UNCHANGED <<v1, v2, v3, v4, v6, v8, v9, v10>>
  BY Zenon DEF Cores!SecondaryMain, Cores!lines
<1>2. Cores!Seen'["tops"] = Cores!Seen["tops"]
  BY <1>1, Zenon DEF Cores!Seen
<1>3. v6[core] = Cores!StackOf(core)
  BY Zenon DEF Cores!SecondaryMain, Cores!StartInv, Cores!OwnStack
<1>4. /\ v5' \in [Cores!Others -> {"spin", "started", "main", "mmuOn", "scheduled", "ticking", "counted", "idle"}]
      /\ v5[core] \notin {"spin", "started", "idle"} /\ v5'[core] \notin {"spin", "started"}
      /\ v5'[core] = "idle" <=> v5[core] = "counted"
      /\ \A c \in Cores!Others : c # core => v5'[c] = v5[c]
  BY Zenon DEF Cores!SecondaryMain, Cores!After, Cores!StartInv, Cores!StartTypes
<1>5. v7' = IF v5'[core] = "counted" THEN v7 + 1 ELSE v7
  BY Zenon DEF Cores!SecondaryMain
<1>6. Cores!StartTypes'
  BY <1>1, <1>4, <1>5 DEF Cores!StartInv, Cores!StartTypes
<1>7. Cores!TopsWritten' /\ Cores!TopsInMemory' /\ Cores!OthersWoke' /\ Cores!OwnStack'
  <2>1. Cores!TopsWritten'
    BY <1>1, <1>2, CoresTops, Zenon
  <2> QED
    BY <1>1, <1>3, <1>4, <2>1, Zenon
    DEF Cores!StartInv, Cores!TopsInMemory, Cores!OthersWoke, Cores!Sent, Cores!OwnStack
<1>8. Cores!CountKept'
  <2>1. CASE v5'[core] = "counted"
    <3>1. Cores!Counted' = Cores!Counted \cup {core} /\ core \notin Cores!Counted
      BY <1>4, <2>1, Zenon DEF Cores!Counted
    <3>2. v7 \in Nat /\ v8 \in Nat /\ v8 <= v7 /\ v7 >= 1 /\ v7' = v7 + 1
      BY <1>5, <2>1, Zenon DEF Cores!StartInv, Cores!StartTypes, Cores!CountKept
    <3>3. PICK f \in [1 .. v7 - 1 -> Cores!Counted] : \A i, j \in 1 .. v7 - 1 : f[i] = f[j] => i = j
      BY Zenon DEF Cores!StartInv, Cores!CountKept, Cores!Counting
    <3> DEFINE g == [i \in 1 .. v7' - 1 |-> IF i = v7 THEN core ELSE f[i]]
    <3>4. g \in [1 .. v7' - 1 -> Cores!Counted'] /\ \A i, j \in 1 .. v7' - 1 : g[i] = g[j] => i = j
      BY <3>1, <3>2, <3>3
    <3>5. Cores!Counting(v7, Cores!Counted)'
      BY <3>4, Zenon DEF Cores!Counting
    <3> QED
      BY <1>1, <3>2, <3>5 DEF Cores!CountKept
  <2>2. CASE v5'[core] # "counted"
    <3>1. Cores!Counted' = Cores!Counted
      BY <1>4, <2>2, Zenon DEF Cores!Counted
    <3> QED
      BY <1>1, <1>5, <2>2, <3>1, Zenon DEF Cores!StartInv, Cores!CountKept
  <2> QED
    BY <2>1, <2>2, Zenon
<1> QED
  BY <1>6, <1>7, <1>8, Zenon DEF Cores!StartInv

(* Every step of the component keeps its invariant.                        *)
LEMMA CoresNext ==
  ASSUME Cores!StartInv, [Cores!Next]_(Cores!vars)
  PROVE  Cores!StartInv'
<1>1. CASE UNCHANGED Cores!vars
  <2>1. Cores!Seen'["tops"] = Cores!Seen["tops"] /\ Cores!Counted' = Cores!Counted /\ UNCHANGED <<v1, v2, v3, v4, v5, v6, v7, v8, v9, v10>>
    BY <1>1, Zenon DEF Cores!vars, Cores!Seen, Cores!Counted
  <2> QED
    BY <2>1, Zenon
    DEF Cores!StartInv, Cores!StartTypes, Cores!TopsWritten, Cores!TopsInMemory,
        Cores!OthersWoke, Cores!Sent, Cores!OwnStack, Cores!CountKept
<1> QED
  BY <1>1, CoresStackTop, CoresCleanTops, CoresSlot, CoresCleanSlot, CoresBarrier, CoresReturn, CoresEvict,
      CoresWake, CoresMain, Zenon
  DEF Cores!Next, Cores!Core0

(* Who was counted takes tasks and has a tick.                             *)
LEMMA CoresCounted == Cores!StartInv => Cores!OwnStack /\ Cores!CountIsTrue
<1> DEFINE Ticking == {core \in Cores!Others : v5[core] \in {"ticking", "counted", "idle"}}
<1>1. Cores!Counted \subseteq Ticking /\ Ticking \subseteq Cores!Others
  BY Zenon DEF Cores!Counted
<1>2. ASSUME Cores!StartInv, v8 > 0
      PROVE  \E f \in [1 .. v8 - 1 -> Ticking] : \A i, j \in 1 .. v8 - 1 : f[i] = f[j] => i = j
  <2>1. v7 \in Nat /\ v8 \in Nat /\ v8 <= v7
    BY <1>2, Zenon DEF Cores!StartInv, Cores!StartTypes, Cores!CountKept
  <2>2. PICK f \in [1 .. v7 - 1 -> Cores!Counted] : \A i, j \in 1 .. v7 - 1 : f[i] = f[j] => i = j
    BY <1>2, Zenon DEF Cores!StartInv, Cores!CountKept, Cores!Counting
  <2> DEFINE g == [i \in 1 .. v8 - 1 |-> f[i]]
  <2>3. g \in [1 .. v8 - 1 -> Ticking] /\ \A i, j \in 1 .. v8 - 1 : g[i] = g[j] => i = j
    BY <1>1, <2>1, <2>2
  <2> QED
    BY <2>3, Zenon
<1> QED
  BY <1>2, Zenon DEF Cores!StartInv, Cores!CountIsTrue

(* Every core that wakes after the dsb starts on the stack that was        *)
(* allocated for it, one that wakes before it does so or goes no further,  *)
(* and start counts only cores that take tasks and have a tick: for any    *)
(* number of cores, in whatever order lines reach memory and whenever      *)
(* cores wake (cores.rs, boot.s).                                          *)
THEOREM CoresStartRightAlways == Cores!Spec => []CoresStartRight
<1>1. Cores!Init => Cores!StartInv
  BY CoresInit, Zenon
<1>2. Cores!StartInv /\ [Cores!Next]_(Cores!vars) => Cores!StartInv'
  BY CoresNext, Zenon
<1>3. Cores!StartInv => Cores!OwnStack /\ Cores!CountIsTrue
  BY CoresCounted, Zenon
<1>4. Cores!StartInv => CoresStartRight
  BY <1>3, Zenon DEF CoresStartRight
<1> QED
  BY <1>1, <1>2, <1>4, PTL DEF Cores!Spec
-----------------------------------------------------------------------------
(* Bytes of a pipe (Pipe).                                                 *)

(* One more in a set is one more number.                                   *)
LEMMA NumberedAdd ==
  ASSUME NEW n \in Nat, NEW set, NEW x, x \notin set, Pipe!Numbered(n, set)
  PROVE  Pipe!Numbered(n + 1, set \cup {x})
<1>1. PICK f \in [1 .. n -> set] : /\ \A i, j \in 1 .. n : f[i] = f[j] => i = j
                                   /\ \A p \in set : \E i \in 1 .. n : f[i] = p
  BY Zenon DEF Pipe!Numbered
<1> DEFINE g == [i \in 1 .. n + 1 |-> IF i = n + 1 THEN x ELSE f[i]]
<1>2. g \in [1 .. n + 1 -> set \cup {x}] /\ \A i, j \in 1 .. n + 1 : g[i] = g[j] => i = j
  BY <1>1
<1>3. \A p \in set \cup {x} : \E i \in 1 .. n + 1 : g[i] = p
  <2>1. n + 1 \in 1 .. n + 1 /\ g[n + 1] = x
    OBVIOUS
  <2>2. \A i \in 1 .. n : i \in 1 .. n + 1 /\ g[i] = f[i]
    OBVIOUS
  <2> QED
    BY <1>1, <2>1, <2>2, Zenon
<1> QED
  BY <1>2, <1>3, Zenon DEF Pipe!Numbered

(* One less is one number less: the last number takes the place of its.    *)
LEMMA NumberedRemove ==
  ASSUME NEW n \in Nat, NEW set, NEW x \in set, Pipe!Numbered(n, set)
  PROVE  n > 0 /\ Pipe!Numbered(n - 1, set \ {x})
<1>1. PICK f \in [1 .. n -> set] : /\ \A i, j \in 1 .. n : f[i] = f[j] => i = j
                                   /\ \A p \in set : \E i \in 1 .. n : f[i] = p
  BY Zenon DEF Pipe!Numbered
<1>2. PICK k \in 1 .. n : f[k] = x
  BY <1>1, Zenon
<1>3. n > 0 /\ n \in 1 .. n
  BY <1>2
<1> DEFINE g == [i \in 1 .. n - 1 |-> IF i = k THEN f[n] ELSE f[i]]
<1>4. g \in [1 .. n - 1 -> set \ {x}]
  BY <1>1, <1>2, <1>3
<1>5. \A i, j \in 1 .. n - 1 : g[i] = g[j] => i = j
  BY <1>1, <1>2, <1>3
<1>6. ASSUME NEW p \in set \ {x}
      PROVE  \E i \in 1 .. n - 1 : g[i] = p
  <2>1. PICK i \in 1 .. n : f[i] = p
    BY <1>1, Zenon
  <2>2. i # k
    BY <1>2, <2>1, Zenon
  <2>3. CASE i = n
    <3>1. k \in 1 .. n - 1 /\ g[k] = p
      BY <1>2, <2>1, <2>2, <2>3
    <3> QED
      BY <3>1, Zenon
  <2>4. CASE i # n
    <3>1. i \in 1 .. n - 1 /\ g[i] = p
      BY <2>1, <2>2, <2>4
    <3> QED
      BY <3>1, Zenon
  <2> QED
    BY <2>3, <2>4, Zenon
<1>7. Pipe!Numbered(n - 1, set \ {x})
  BY <1>4, <1>5, <1>6, Zenon DEF Pipe!Numbered
<1> QED
  BY <1>3, <1>7, Zenon

(* Nobody has an end that is counted zero times.                           *)
LEMMA NumberedZero == ASSUME NEW set, Pipe!Numbered(0, set) PROVE set = {}
  BY DEF Pipe!Numbered

(* The maker has both ends of an empty pipe at first.                      *)
LEMMA PipeInit == Pipe!Init => Pipe!PipeInv
<1> SUFFICES ASSUME Pipe!Init PROVE Pipe!PipeInv
  BY Zenon
<1>1. Pipe!TypeOK
  <2>1. v1 = <<>> /\ v12 = <<>> /\ v11 = 0 /\ v2 = 1 /\ v3 = 1
    BY Zenon DEF Pipe!Init
  <2>2. v1 \in Seq(1 .. PipeMaxBytes) /\ v12 \in Seq(1 .. PipeMaxBytes) /\ Len(v1) = 0 /\ v11 \in 0 .. PipeMaxBytes
    BY <2>1, PipeAssumption
  <2>3. v4 \in [Programs -> SUBSET Pipe!Kinds] /\ v5 \in [Programs -> Pipe!Places] /\ v6 \in [Programs -> Pipe!Kinds]
    BY Zenon DEF Pipe!Init, Pipe!Kinds, Pipe!Places
  <2>4. v7 = {} /\ v8 = {} /\ v9 = {} /\ v10 = {}
    BY Zenon DEF Pipe!Init
  <2> QED
    BY <2>1, <2>2, <2>3, <2>4, PipeAssumption DEF Pipe!TypeOK
<1>2. Pipe!InOrder
  BY DEF Pipe!Init, Pipe!InOrder
<1>3. Pipe!EndsCounted
  <2>1. Pipe!CanRead = {Maker} /\ Pipe!CanWrite = {Maker}
    BY PipeAssumption, Zenon DEF Pipe!Init, Pipe!CanRead, Pipe!CanWrite, Pipe!Kinds
  <2>2. Pipe!Numbered(1, {Maker})
    <3>1. PICK f : f = [i \in 1 .. 1 |-> Maker]
      BY Zenon
    <3>2. /\ f \in [1 .. 1 -> {Maker}] /\ 1 \in 1 .. 1 /\ f[1] = Maker
          /\ \A i, j \in 1 .. 1 : f[i] = f[j] => i = j
      BY <3>1
    <3> QED
      BY <3>2, Zenon DEF Pipe!Numbered
  <2>3. v2 = 1 /\ v3 = 1 /\ \A p \in Programs : v5[p] = "unborn" => v4[p] = {}
    BY Zenon DEF Pipe!Init
  <2> QED
    BY <2>1, <2>2, <2>3, Zenon DEF Pipe!EndsCounted
<1>4. Pipe!CallsAllowed /\ Pipe!KillsSeen /\ Pipe!NotifyComing /\ Pipe!MovePossible
  <2>1. v9 = {} /\ \A p \in Programs : v5[p] \in {"user", "unborn"}
    BY Zenon DEF Pipe!Init
  <2> QED
    BY <2>1, Zenon DEF Pipe!CallsAllowed, Pipe!KillsSeen, Pipe!NotifyComing, Pipe!MovePossible
<1> QED
  BY <1>1, <1>2, <1>3, <1>4, Zenon DEF Pipe!PipeInv

(* A step that leaves the pipe alone and moves one program on, from where  *)
(* no notify is due: what it needs of the place the program goes to.       *)
MovesTo(p, place) ==
  /\ place \in Pipe!Places \ {"unborn"} /\ v5' = [v5 EXCEPT ![p] = place] /\ v5[p] # "notify"
  /\ UNCHANGED <<v1, v2, v3, v4, v6, v9, v11, v12>>
  /\ v7' \subseteq Programs /\ v8' \subseteq Programs /\ v10' \subseteq Programs
  /\ \A q \in Programs \ {p} : (q \in v7' <=> q \in v7) /\ (q \in v8' <=> q \in v8)
  /\ place \in {"look", "ask", "check", "wait", "asleep", "move"} => v5[p] \in {"look", "ask", "check", "wait", "asleep", "move"}
  /\ p \in v9 => place # "asleep" /\ (place \in {"check", "wait"} => p \in v8')
  /\ Pipe!Possible(v6[p]) /\ (place = "asleep" \/ (place = "wait" /\ p \notin v7')) =>
       \E q \in Programs : v5[q] = "notify"
  /\ place = "move" /\ p \notin v9 => Pipe!Possible(v6[p])

(* Such a step keeps the invariant.                                        *)
LEMMA PipeLocal ==
  ASSUME Pipe!PipeInv, NEW p \in Programs, NEW place, MovesTo(p, place)
  PROVE  Pipe!PipeInv'
<1> USE DEF MovesTo
<1>1. v5' \in [Programs -> Pipe!Places] /\ v5'[p] = place /\ \A q \in Programs \ {p} : v5'[q] = v5[q]
  BY Zenon DEF Pipe!PipeInv, Pipe!TypeOK
<1>2. Pipe!TypeOK'
  BY <1>1, Zenon DEF Pipe!PipeInv, Pipe!TypeOK
<1>3. Pipe!InOrder'
  BY Zenon DEF Pipe!PipeInv, Pipe!InOrder
<1>4. Pipe!EndsCounted'
  <2>1. Pipe!CanRead' = Pipe!CanRead /\ Pipe!CanWrite' = Pipe!CanWrite
    BY Zenon DEF Pipe!CanRead, Pipe!CanWrite
  <2>2. \A q \in Programs : v5'[q] = "unborn" => v4'[q] = {}
    BY <1>1, Zenon DEF Pipe!PipeInv, Pipe!EndsCounted
  <2> QED
    BY <2>1, <2>2, Zenon DEF Pipe!PipeInv, Pipe!EndsCounted
<1>5. Pipe!CallsAllowed'
  BY <1>1, Zenon DEF Pipe!PipeInv, Pipe!CallsAllowed
<1>6. Pipe!KillsSeen'
  BY <1>1, Zenon DEF Pipe!PipeInv, Pipe!TypeOK, Pipe!KillsSeen
<1>7. \A q \in Programs : v5[q] = "notify" => v5'[q] = "notify"
  BY <1>1, Zenon
<1>8. \A q \in Programs : Pipe!Possible(v6[q])' <=> Pipe!Possible(v6[q])
  BY Zenon DEF Pipe!Possible
<1>9. Pipe!NotifyComing'
  BY <1>1, <1>7, <1>8, Zenon DEF Pipe!PipeInv, Pipe!NotifyComing
<1>10. \A q \in Programs \ {p} : Pipe!Shares(q) /\ Pipe!MovedOn(q) => Pipe!Shares(q)' /\ Pipe!MovedOn(q)'
  BY <1>7, Zenon DEF Pipe!Shares, Pipe!MovedOn
<1>11. Pipe!MovePossible'
  BY <1>1, <1>8, <1>10, Zenon DEF Pipe!PipeInv, Pipe!MovePossible
<1> QED
  BY <1>2, <1>3, <1>4, <1>5, <1>6, <1>9, <1>11, Zenon DEF Pipe!PipeInv

(* Around wait_until's loop, out of a broken pipe, and to a program's end. *)
LEMMA PipeWaits ==
  ASSUME Pipe!PipeInv, NEW p \in Programs,
         Pipe!Look(p) \/ Pipe!Ask(p) \/ Pipe!Check(p) \/ Pipe!WaitCurrent(p) \/ Pipe!BrokenPipe(p) \/ Pipe!Finish(p) \/ Pipe!Exit(p)
  PROVE  Pipe!PipeInv' /\ Pipe!ZeroMeansOverStep
<1>1. /\ v5 \in [Programs -> Pipe!Places] /\ v6 \in [Programs -> Pipe!Kinds]
      /\ v7 \subseteq Programs /\ v8 \subseteq Programs /\ v10 \subseteq Programs
  BY Zenon DEF Pipe!PipeInv, Pipe!TypeOK
<1>2. CASE Pipe!Look(p)
  <2>1. v5' = [v5 EXCEPT ![p] = "ask"] /\ v5[p] = "look" /\ v7' = v7 \ {p}
    BY <1>2, Zenon DEF Pipe!Look, Pipe!Go
  <2>2. UNCHANGED <<v1, v2, v3, v4, v6, v8, v9, v10, v11, v12>>
    BY <1>2, Zenon DEF Pipe!Look, Pipe!pipe, Pipe!history
  <2>3. Pipe!PipeInv'
    <3>1. MovesTo(p, "ask")
      BY <1>1, <2>1, <2>2, Zenon DEF MovesTo, Pipe!Places
    <3> QED
      BY <3>1, PipeLocal, Zenon
  <2> QED
    BY <1>1, <2>1, <2>3, Zenon DEF Pipe!ZeroMeansOverStep
<1>3. CASE Pipe!Ask(p)
  <2>1. v5' = [v5 EXCEPT ![p] = IF p \in v9 THEN "move" ELSE "check"] /\ v5[p] = "ask"
    BY <1>3, Zenon DEF Pipe!Ask, Pipe!Go
  <2>2. UNCHANGED <<v1, v2, v3, v4, v6, v7, v8, v9, v10, v11, v12>>
    BY <1>3, Zenon DEF Pipe!Ask, Pipe!pipe, Pipe!history
  <2>3. Pipe!PipeInv'
    <3>1. CASE p \in v9
      <4>1. MovesTo(p, "move")
        BY <1>1, <2>1, <2>2, <3>1, Zenon DEF MovesTo, Pipe!Places
      <4> QED
        BY <4>1, PipeLocal, Zenon
    <3>2. CASE p \notin v9
      <4>1. MovesTo(p, "check")
        BY <1>1, <2>1, <2>2, <3>2, Zenon DEF MovesTo, Pipe!Places
      <4> QED
        BY <4>1, PipeLocal, Zenon
    <3> QED
      BY <3>1, <3>2, Zenon
  <2> QED
    BY <1>1, <2>1, <2>3, Zenon DEF Pipe!ZeroMeansOverStep
<1>4. CASE Pipe!Check(p)
  <2>1. v5' = [v5 EXCEPT ![p] = IF Pipe!Possible(v6[p]) THEN "move" ELSE "wait"] /\ v5[p] = "check"
    BY <1>4, Zenon DEF Pipe!Check, Pipe!Go
  <2>2. UNCHANGED <<v1, v2, v3, v4, v6, v7, v8, v9, v10, v11, v12>>
    BY <1>4, Zenon DEF Pipe!Check, Pipe!pipe, Pipe!history
  <2>3. p \in v9 => p \in v8
    BY <2>1, Zenon DEF Pipe!PipeInv, Pipe!KillsSeen
  <2>4. Pipe!PipeInv'
    <3>1. CASE Pipe!Possible(v6[p])
      <4>1. MovesTo(p, "move")
        BY <1>1, <2>1, <2>2, <3>1, Zenon DEF MovesTo, Pipe!Places
      <4> QED
        BY <4>1, PipeLocal, Zenon
    <3>2. CASE ~Pipe!Possible(v6[p])
      <4>1. MovesTo(p, "wait")
        BY <1>1, <2>1, <2>2, <2>3, <3>2, Zenon DEF MovesTo, Pipe!Places
      <4> QED
        BY <4>1, PipeLocal, Zenon
    <3> QED
      BY <3>1, <3>2, Zenon
  <2> QED
    BY <1>1, <2>1, <2>4, Zenon DEF Pipe!ZeroMeansOverStep
<1>5. CASE Pipe!WaitCurrent(p)
  <2>1. v5' = [v5 EXCEPT ![p] = IF p \in v8 \/ p \in v7 THEN "look" ELSE "asleep"] /\ v5[p] = "wait" /\ v8' = v8 \ {p}
    BY <1>5, Zenon DEF Pipe!WaitCurrent, Pipe!Go
  <2>2. UNCHANGED <<v1, v2, v3, v4, v6, v7, v9, v10, v11, v12>>
    BY <1>5, Zenon DEF Pipe!WaitCurrent, Pipe!pipe, Pipe!history
  <2>3. Pipe!PipeInv'
    <3>1. CASE p \in v8 \/ p \in v7
      <4>1. MovesTo(p, "look")
        BY <1>1, <2>1, <2>2, <3>1, Zenon DEF MovesTo, Pipe!Places
      <4> QED
        BY <4>1, PipeLocal, Zenon
    <3>2. CASE ~(p \in v8 \/ p \in v7)
      <4>1. p \notin v9 /\ (Pipe!Possible(v6[p]) => \E q \in Programs : v5[q] = "notify")
        BY <2>1, <3>2, Zenon DEF Pipe!PipeInv, Pipe!KillsSeen, Pipe!NotifyComing
      <4> QED
        <5>1. MovesTo(p, "asleep")
          BY <1>1, <2>1, <2>2, <3>2, <4>1, Zenon DEF MovesTo, Pipe!Places
        <5> QED
          BY <5>1, PipeLocal, Zenon
    <3> QED
      BY <3>1, <3>2, Zenon
  <2> QED
    BY <1>1, <2>1, <2>3, Zenon DEF Pipe!ZeroMeansOverStep
<1>6. CASE Pipe!BrokenPipe(p)
  <2>1. v5' = [v5 EXCEPT ![p] = "user"] /\ v5[p] = "move" /\ v6[p] = "Write" /\ v2 = 0
    BY <1>6, Zenon DEF Pipe!BrokenPipe, Pipe!Go
  <2>2. UNCHANGED <<v1, v2, v3, v4, v6, v7, v8, v9, v10, v11, v12>>
    BY <1>6, Zenon DEF Pipe!BrokenPipe, Pipe!pipe, Pipe!history
  <2>3. Pipe!PipeInv'
    <3>1. MovesTo(p, "user")
      BY <1>1, <2>1, <2>2, Zenon DEF MovesTo, Pipe!Places
    <3> QED
      BY <3>1, PipeLocal, Zenon
  <2> QED
    BY <1>1, <2>1, <2>3, Zenon DEF Pipe!ZeroMeansOverStep
<1>7. CASE Pipe!Finish(p)
  <2>1. v5' = [v5 EXCEPT ![p] = "gone"] /\ v5[p] = "user"
    BY <1>7, Zenon DEF Pipe!Finish, Pipe!Go
  <2>2. UNCHANGED <<v1, v2, v3, v4, v6, v7, v8, v9, v10, v11, v12>>
    BY <1>7, Zenon DEF Pipe!Finish, Pipe!pipe, Pipe!history
  <2>3. Pipe!PipeInv'
    <3>1. MovesTo(p, "gone")
      BY <1>1, <2>1, <2>2, Zenon DEF MovesTo, Pipe!Places
    <3> QED
      BY <3>1, PipeLocal, Zenon
  <2> QED
    BY <1>1, <2>1, <2>3, Zenon DEF Pipe!ZeroMeansOverStep
<1>8. CASE Pipe!Exit(p)
  <2>1. v5' = [v5 EXCEPT ![p] = "user"] /\ v5' = v5 /\ v5[p] = "user" /\ v10' = v10 \cup {p}
    BY <1>1, <1>8, Zenon DEF Pipe!Exit
  <2>2. UNCHANGED <<v1, v2, v3, v4, v6, v7, v8, v9, v11, v12>>
    BY <1>8, Zenon DEF Pipe!Exit, Pipe!pipe, Pipe!history
  <2>3. Pipe!PipeInv'
    <3>1. MovesTo(p, "user")
      BY <1>1, <2>1, <2>2, Zenon DEF MovesTo, Pipe!Places
    <3> QED
      BY <3>1, PipeLocal, Zenon
  <2> QED
    BY <1>1, <2>1, <2>3, Zenon DEF Pipe!ZeroMeansOverStep
<1> QED
  BY <1>2, <1>3, <1>4, <1>5, <1>6, <1>7, <1>8, Zenon

(* A call begins, of a program that has the end.                           *)
LEMMA PipeCall ==
  ASSUME Pipe!PipeInv, NEW p \in Programs, NEW kind \in Pipe!Kinds, Pipe!Call(p, kind)
  PROVE  Pipe!PipeInv' /\ Pipe!ZeroMeansOverStep
<1>1. /\ v5' = [v5 EXCEPT ![p] = "look"] /\ v6' = [v6 EXCEPT ![p] = kind] /\ v5[p] = "user"
      /\ v5 \in [Programs -> Pipe!Places] /\ v6 \in [Programs -> Pipe!Kinds]
  BY Zenon DEF Pipe!Call, Pipe!Go, Pipe!Free, Pipe!PipeInv, Pipe!TypeOK
<1>2. UNCHANGED <<v1, v2, v3, v4, v7, v8, v9, v10, v11, v12>>
  BY Zenon DEF Pipe!Call, Pipe!pipe, Pipe!history
<1>3. /\ v5' \in [Programs -> Pipe!Places] /\ v5'[p] = "look" /\ \A q \in Programs \ {p} : v5'[q] = v5[q]
      /\ v6' \in [Programs -> Pipe!Kinds] /\ v6'[p] = kind /\ \A q \in Programs \ {p} : v6'[q] = v6[q]
  BY <1>1, Zenon DEF Pipe!Places
<1>4. Pipe!TypeOK'
  BY <1>2, <1>3, Zenon DEF Pipe!PipeInv, Pipe!TypeOK
<1>5. Pipe!InOrder'
  BY <1>2, Zenon DEF Pipe!PipeInv, Pipe!InOrder
<1>6. Pipe!EndsCounted'
  <2>1. Pipe!CanRead' = Pipe!CanRead /\ Pipe!CanWrite' = Pipe!CanWrite
    BY <1>2, Zenon DEF Pipe!CanRead, Pipe!CanWrite
  <2>2. \A q \in Programs : v5'[q] = "unborn" => v4'[q] = {}
    BY <1>2, <1>3, Zenon DEF Pipe!PipeInv, Pipe!EndsCounted
  <2> QED
    BY <1>2, <2>1, <2>2, Zenon DEF Pipe!PipeInv, Pipe!EndsCounted
<1>7. Pipe!CallsAllowed'
  BY <1>3, Zenon DEF Pipe!Call, Pipe!PipeInv, Pipe!CallsAllowed, Pipe!Kinds
<1>8. Pipe!KillsSeen'
  BY <1>2, <1>3, Zenon DEF Pipe!PipeInv, Pipe!TypeOK, Pipe!KillsSeen
<1>9. \A q \in Programs \ {p} : Pipe!Possible(v6[q])' <=> Pipe!Possible(v6[q])
  BY <1>2, <1>3, Zenon DEF Pipe!Possible
<1>10. Pipe!NotifyComing'
  BY <1>1, <1>2, <1>3, <1>9, Zenon DEF Pipe!PipeInv, Pipe!NotifyComing
<1>11. \A q \in Programs \ {p} : Pipe!Shares(q) /\ Pipe!MovedOn(q) => Pipe!Shares(q)' /\ Pipe!MovedOn(q)'
  BY <1>1, <1>2, <1>3, Zenon DEF Pipe!Shares, Pipe!MovedOn
<1>12. Pipe!MovePossible'
  BY <1>2, <1>3, <1>9, <1>11, Zenon DEF Pipe!PipeInv, Pipe!MovePossible
<1>13. Pipe!ZeroMeansOverStep
  BY <1>1, <1>3, Zenon DEF Pipe!ZeroMeansOverStep
<1> QED
  BY <1>4, <1>5, <1>6, <1>7, <1>8, <1>10, <1>12, <1>13, Zenon DEF Pipe!PipeInv

(* Bytes are moved: whoever moves some is about to notify, and takes only  *)
(* what a program that shares its end with others may need.                *)
LEMMA PipeMoved ==
  ASSUME Pipe!PipeInv, NEW p \in Programs, NEW count \in Nat, v5[p] = "move",
         v5' = [v5 EXCEPT ![p] = IF count > 0 THEN "notify" ELSE "user"],
         UNCHANGED <<v2, v3, v4, v6, v7, v8, v9, v10>>, Pipe!TypeOK', Pipe!InOrder', count = 0 => v1' = v1,
         \A q \in Programs \ {p} : v5[q] = "move" /\ Pipe!Possible(v6[q]) => Pipe!Possible(v6[q])' \/ Pipe!Shares(q)
  PROVE  Pipe!PipeInv'
<1>1. /\ v5'[p] \in {"notify", "user"} /\ (count > 0 => v5'[p] = "notify")
      /\ \A q \in Programs \ {p} : v5'[q] = v5[q]
  BY Zenon DEF Pipe!PipeInv, Pipe!TypeOK
<1>2. Pipe!EndsCounted'
  <2>1. Pipe!CanRead' = Pipe!CanRead /\ Pipe!CanWrite' = Pipe!CanWrite
    BY Zenon DEF Pipe!CanRead, Pipe!CanWrite
  <2>2. \A q \in Programs : v5'[q] = "unborn" => v4'[q] = {}
    BY <1>1, Zenon DEF Pipe!PipeInv, Pipe!EndsCounted
  <2> QED
    BY <2>1, <2>2, Zenon DEF Pipe!PipeInv, Pipe!EndsCounted
<1>3. Pipe!CallsAllowed' /\ Pipe!KillsSeen'
  BY <1>1, Zenon DEF Pipe!PipeInv, Pipe!TypeOK, Pipe!CallsAllowed, Pipe!KillsSeen
<1>4. Pipe!NotifyComing'
  <2>1. CASE count > 0
    BY <1>1, <2>1, Zenon DEF Pipe!NotifyComing
  <2>2. CASE count = 0
    <3>1. \A q \in Programs : Pipe!Possible(v6[q])' <=> Pipe!Possible(v6[q])
      BY <2>2, Zenon DEF Pipe!Possible
    <3> QED
      BY <1>1, <3>1, Zenon DEF Pipe!PipeInv, Pipe!NotifyComing
  <2> QED
    BY <2>1, <2>2
<1>5. Pipe!MovePossible'
  <2>1. \A q \in Programs \ {p} : Pipe!Shares(q)' <=> Pipe!Shares(q)
    BY Zenon DEF Pipe!Shares
  <2>2. CASE count > 0
    <3>1. \A q \in Programs : Pipe!MovedOn(q)'
      BY <1>1, <2>2, Zenon DEF Pipe!MovedOn
    <3> QED
      BY <1>1, <2>1, <3>1, Zenon DEF Pipe!PipeInv, Pipe!MovePossible
  <2>3. CASE count = 0
    <3>1. \A q \in Programs : (Pipe!Possible(v6[q])' <=> Pipe!Possible(v6[q])) /\ (Pipe!MovedOn(q) => Pipe!MovedOn(q)')
      BY <1>1, <2>3, Zenon DEF Pipe!Possible, Pipe!MovedOn
    <3> QED
      BY <1>1, <2>1, <3>1, Zenon DEF Pipe!PipeInv, Pipe!MovePossible
  <2> QED
    BY <2>2, <2>3
<1> QED
  BY <1>2, <1>3, <1>4, <1>5, Zenon DEF Pipe!PipeInv

(* The bytes that are left behind.                                         *)
LEMMA PipeRest ==
  ASSUME NEW set, NEW s \in Seq(set), NEW count \in Nat, count <= Len(s),
         NEW rest, rest = SubSeq(s, count + 1, Len(s))
  PROVE  /\ rest \in Seq(set) /\ Len(rest) = Len(s) - count
         /\ \A i \in 1 .. Len(s) - count : rest[i] = s[count + i]
<1>1. SubSeq(s, count + 1, Len(s)) \in Seq(set)
  OBVIOUS
<1>2. Len(SubSeq(s, count + 1, Len(s))) = Len(s) - count
  OBVIOUS
<1>3. \A i \in 1 .. Len(s) - count : SubSeq(s, count + 1, Len(s))[i] = s[count + i]
  OBVIOUS
<1> QED
  BY <1>1, <1>2, <1>3, Zenon

(* The bytes that are taken.                                               *)
LEMMA PipeFront ==
  ASSUME NEW set, NEW s \in Seq(set), NEW count \in Nat, count <= Len(s),
         NEW front, front = SubSeq(s, 1, count)
  PROVE  front \in Seq(set) /\ Len(front) = count /\ \A i \in 1 .. count : front[i] = s[i]
<1>1. SubSeq(s, 1, count) \in Seq(set)
  OBVIOUS
<1>2. Len(SubSeq(s, 1, count)) = count
  OBVIOUS
<1>3. \A i \in 1 .. count : SubSeq(s, 1, count)[i] = s[i]
  OBVIOUS
<1> QED
  BY <1>1, <1>2, <1>3, Zenon

(* read takes bytes from the front, and none only where there are none.    *)
LEMMA PipeRead ==
  ASSUME Pipe!PipeInv, NEW p \in Programs, NEW len \in 1 .. Capacity, Pipe!Read(p, len)
  PROVE  Pipe!PipeInv' /\ Pipe!ZeroMeansOverStep
<1>1. PICK count : count = Pipe!Least(len, Len(v1))
  BY Zenon
<1>2. /\ v1 \in Seq(1 .. PipeMaxBytes) /\ v12 \in Seq(1 .. PipeMaxBytes) /\ Len(v1) \in Nat /\ Len(v12) \in Nat
      /\ Len(v1) <= Capacity /\ v5 \in [Programs -> Pipe!Places] /\ v6 \in [Programs -> Pipe!Kinds]
  BY DEF Pipe!PipeInv, Pipe!TypeOK
<1>3. count \in Nat /\ count <= Len(v1) /\ (count = 0 => Len(v1) = 0)
  BY <1>1, <1>2, PipeAssumption DEF Pipe!Least
<1>4. /\ v5[p] = "move" /\ v6[p] = "Read" /\ v1' = SubSeq(v1, count + 1, Len(v1))
      /\ v12' = v12 \o SubSeq(v1, 1, count)
      /\ v5' = [v5 EXCEPT ![p] = IF count > 0 THEN "notify" ELSE "user"]
      /\ UNCHANGED <<v2, v3, v4, v6, v7, v8, v9, v10, v11>>
  BY <1>1, Zenon DEF Pipe!Read, Pipe!Returns, Pipe!Go
<1>5. /\ v1' \in Seq(1 .. PipeMaxBytes) /\ Len(v1') = Len(v1) - count
      /\ \A i \in 1 .. Len(v1) - count : v1'[i] = v1[count + i]
  <2>1. PICK set, s, rest : set = 1 .. PipeMaxBytes /\ s = v1 /\ rest = v1'
    BY Zenon
  <2>2. s \in Seq(set) /\ count \in Nat /\ count <= Len(s) /\ rest = SubSeq(s, count + 1, Len(s))
    BY <1>2, <1>3, <1>4, <2>1, Zenon
  <2>3. /\ rest \in Seq(set) /\ Len(rest) = Len(s) - count
        /\ \A i \in 1 .. Len(s) - count : rest[i] = s[count + i]
    BY <2>2, PipeRest
  <2> QED
    BY <2>1, <2>3, Zenon
<1>6. PICK front : front = SubSeq(v1, 1, count)
  BY Zenon
<1>7. front \in Seq(1 .. PipeMaxBytes) /\ Len(front) = count /\ \A i \in 1 .. count : front[i] = v1[i]
  <2>1. PICK set, s : set = 1 .. PipeMaxBytes /\ s = v1
    BY Zenon
  <2>2. s \in Seq(set) /\ count \in Nat /\ count <= Len(s) /\ front = SubSeq(s, 1, count)
    BY <1>2, <1>3, <1>6, <2>1, Zenon
  <2>3. front \in Seq(set) /\ Len(front) = count /\ \A i \in 1 .. count : front[i] = s[i]
    BY <2>2, PipeFront
  <2> QED
    BY <2>1, <2>3, Zenon
<1>8. /\ v12' \in Seq(1 .. PipeMaxBytes) /\ Len(v12') = Len(v12) + count
      /\ \A i \in 1 .. Len(v12) : v12'[i] = v12[i]
      /\ \A i \in 1 .. count : v12'[Len(v12) + i] = v1[i]
  BY <1>2, <1>3, <1>4, <1>6, <1>7
<1>9. Pipe!TypeOK'
  <2>1. v5' \in [Programs -> Pipe!Places]
    BY <1>2, <1>4, Zenon DEF Pipe!Places
  <2>2. Len(v1') <= Capacity
    BY <1>2, <1>3, <1>5, PipeAssumption
  <2> QED
    BY <1>4, <1>5, <1>8, <2>1, <2>2, Zenon DEF Pipe!PipeInv, Pipe!TypeOK
<1>10. Pipe!InOrder'
  <2>1. /\ Len(v12) + Len(v1) = v11 /\ \A i \in 1 .. Len(v12) : v12[i] = i
        /\ \A i \in 1 .. Len(v1) : v1[i] = Len(v12) + i
    BY Zenon DEF Pipe!PipeInv, Pipe!InOrder
  <2>2. Len(v12') + Len(v1') = v11
    BY <1>2, <1>3, <1>5, <1>8, <2>1
  <2>3. \A i \in 1 .. Len(v1') : v1'[i] = Len(v12') + i
    BY <1>2, <1>3, <1>5, <1>8, <2>1
  <2>4. ASSUME NEW i \in 1 .. Len(v12')
        PROVE  v12'[i] = i
    <3>1. CASE i \in 1 .. Len(v12)
      BY <1>8, <2>1, <3>1, Zenon
    <3>2. CASE i \notin 1 .. Len(v12)
      <4>1. PICK j : j = i - Len(v12)
        BY Zenon
      <4>2. j \in 1 .. count /\ j \in 1 .. Len(v1) /\ i = Len(v12) + j
        BY <1>2, <1>3, <1>8, <3>2, <4>1
      <4> QED
        BY <1>8, <2>1, <4>2, Zenon
    <3> QED
      BY <3>1, <3>2, Zenon
  <2> QED
    BY <1>4, <2>2, <2>3, <2>4, Zenon DEF Pipe!InOrder
<1>11. v1 = <<>> <=> Len(v1) = 0
  BY <1>2
<1>12. count = 0 => v1' = v1
  BY <1>2, <1>3, <1>4, <1>5
<1>13. ASSUME NEW q \in Programs \ {p}, v5[q] = "move", Pipe!Possible(v6[q])
       PROVE  Pipe!Possible(v6[q])' \/ Pipe!Shares(q)
  <2>1. CASE v6[q] = "Write"
    BY <1>2, <1>3, <1>4, <1>5, <1>13, <2>1, PipeAssumption DEF Pipe!Possible
  <2>2. CASE v6[q] = "Read"
    BY <1>4, <2>2, Zenon DEF Pipe!PipeInv, Pipe!CallsAllowed, Pipe!Shares
  <2> QED
    BY <1>2, <2>1, <2>2, Zenon DEF Pipe!Kinds
<1>14. Pipe!PipeInv'
  BY <1>3, <1>4, <1>9, <1>10, <1>12, <1>13, PipeMoved, Zenon
<1>15. Pipe!ZeroMeansOverStep
  <2>1. count = 0 /\ p \notin v9 => v3 = 0 \/ (Pipe!Shares(p) /\ Pipe!MovedOn(p))
    BY <1>3, <1>4, <1>11, Zenon DEF Pipe!PipeInv, Pipe!MovePossible, Pipe!Possible
  <2>2. v5'[p] = "user" => count = 0
    BY <1>2, <1>3, <1>4
  <2>3. \A q \in Programs \ {p} : v5'[q] = v5[q]
    BY <1>2, <1>4, Zenon
  <2> QED
    BY <1>4, <2>1, <2>2, <2>3, Zenon DEF Pipe!ZeroMeansOverStep
<1> QED
  BY <1>14, <1>15, Zenon

(* write adds bytes at the back, and none only where there is no room.     *)
LEMMA PipeWrite ==
  ASSUME Pipe!PipeInv, NEW p \in Programs, NEW len \in 1 .. PipeMaxBytes - v11, Pipe!Write(p, len)
  PROVE  Pipe!PipeInv' /\ Pipe!ZeroMeansOverStep
<1>1. PICK count : count = Pipe!Least(len, Capacity - Len(v1))
  BY Zenon
<1>2. /\ v1 \in Seq(1 .. PipeMaxBytes) /\ v12 \in Seq(1 .. PipeMaxBytes) /\ Len(v1) \in Nat /\ Len(v12) \in Nat
      /\ Len(v1) <= Capacity /\ v5 \in [Programs -> Pipe!Places] /\ v6 \in [Programs -> Pipe!Kinds] /\ v11 \in Nat
  BY DEF Pipe!PipeInv, Pipe!TypeOK
<1>3. /\ count \in Nat /\ count <= Capacity - Len(v1) /\ v11 + count <= PipeMaxBytes
      /\ (count = 0 => Len(v1) = Capacity)
  BY <1>1, <1>2, PipeAssumption DEF Pipe!Least
<1>4. /\ v5[p] = "move" /\ v6[p] = "Write" /\ v2 # 0 /\ v1' = v1 \o [i \in 1 .. count |-> v11 + i]
      /\ v11' = v11 + count
      /\ v5' = [v5 EXCEPT ![p] = IF count > 0 THEN "notify" ELSE "user"]
      /\ UNCHANGED <<v2, v3, v4, v6, v7, v8, v9, v10, v12>>
  BY <1>1, Zenon DEF Pipe!Write, Pipe!Returns, Pipe!Go
<1>5. PICK back : back = [i \in 1 .. count |-> v11 + i]
  BY Zenon
<1>6. back \in Seq(1 .. PipeMaxBytes) /\ Len(back) = count /\ \A i \in 1 .. count : back[i] = v11 + i
  BY <1>2, <1>3, <1>5, PipeAssumption
<1>7. /\ v1' \in Seq(1 .. PipeMaxBytes) /\ Len(v1') = Len(v1) + count
      /\ \A i \in 1 .. Len(v1) : v1'[i] = v1[i]
      /\ \A i \in 1 .. count : v1'[Len(v1) + i] = v11 + i
  BY <1>2, <1>3, <1>4, <1>5, <1>6
<1>8. Pipe!TypeOK'
  <2>1. v5' \in [Programs -> Pipe!Places]
    BY <1>2, <1>4, Zenon DEF Pipe!Places
  <2>2. Len(v1') <= Capacity /\ v11' \in 0 .. PipeMaxBytes
    BY <1>2, <1>3, <1>4, <1>7, PipeAssumption
  <2> QED
    BY <1>4, <1>7, <2>1, <2>2, Zenon DEF Pipe!PipeInv, Pipe!TypeOK
<1>9. Pipe!InOrder'
  <2>1. /\ Len(v12) + Len(v1) = v11 /\ \A i \in 1 .. Len(v12) : v12[i] = i
        /\ \A i \in 1 .. Len(v1) : v1[i] = Len(v12) + i
    BY Zenon DEF Pipe!PipeInv, Pipe!InOrder
  <2>2. Len(v12) + Len(v1') = v11'
    <3>1. v11' = v11 + count
      BY <1>4, Zenon
    <3>2. Len(v1') = Len(v1) + count /\ Len(v12) + Len(v1) = v11 /\ count \in Nat
      BY <1>3, <1>7, <2>1, Zenon
    <3>3. Len(v1) \in Nat /\ Len(v12) \in Nat /\ v11 \in Nat
      BY <1>2, Zenon
    <3> QED
      BY <3>1, <3>2, <3>3
  <2>3. ASSUME NEW i \in 1 .. Len(v1')
        PROVE  v1'[i] = Len(v12) + i
    <3>1. CASE i \in 1 .. Len(v1)
      BY <1>7, <2>1, <3>1, Zenon
    <3>2. CASE i \notin 1 .. Len(v1)
      <4>1. PICK j : j = i - Len(v1)
        BY Zenon
      <4>2. j \in 1 .. count /\ i = Len(v1) + j
        BY <1>2, <1>3, <1>7, <3>2, <4>1
      <4>3. v1'[i] = v11 + j
        BY <1>7, <4>2, Zenon
      <4> QED
        <5>1. Len(v12) + Len(v1) = v11 /\ count \in Nat /\ Len(v1) \in Nat /\ Len(v12) \in Nat
          BY <1>2, <1>3, <2>1, Zenon
        <5> QED
          BY <4>2, <4>3, <5>1
    <3> QED
      BY <3>1, <3>2, Zenon
  <2> QED
    BY <1>4, <2>1, <2>2, <2>3, Zenon DEF Pipe!InOrder
<1>10. count = 0 => v1' = v1
  BY <1>2, <1>3, <1>4, <1>7
<1>11. ASSUME NEW q \in Programs \ {p}, v5[q] = "move", Pipe!Possible(v6[q])
       PROVE  Pipe!Possible(v6[q])' \/ Pipe!Shares(q)
  <2>1. v1 # <<>> => v1' # <<>>
    BY <1>2, <1>3, <1>7
  <2>2. CASE v6[q] = "Read"
    BY <1>4, <1>11, <2>1, <2>2, Zenon DEF Pipe!Possible
  <2>3. CASE v6[q] = "Write"
    <3>1. p \in Writers /\ p # q /\ v6[q] # "Read"
      BY <1>4, <2>3, Zenon DEF Pipe!PipeInv, Pipe!CallsAllowed
    <3> QED
      BY <3>1, Zenon DEF Pipe!Shares
  <2> QED
    BY <1>2, <2>2, <2>3, Zenon DEF Pipe!Kinds
<1>12. Pipe!PipeInv'
  BY <1>3, <1>4, <1>8, <1>9, <1>10, <1>11, PipeMoved, Zenon
<1>13. Pipe!ZeroMeansOverStep
  <2>1. count = 0 => p \in v9 \/ (Pipe!Shares(p) /\ Pipe!MovedOn(p))
    <3>1. count = 0 => ~Pipe!Possible(v6[p])
      BY <1>2, <1>3, <1>4, PipeAssumption DEF Pipe!Possible
    <3> QED
      BY <1>4, <3>1, Zenon DEF Pipe!PipeInv, Pipe!MovePossible
  <2>2. v5'[p] = "user" => count = 0
    BY <1>2, <1>3, <1>4
  <2>3. \A q \in Programs \ {p} : v5'[q] = v5[q]
    BY <1>2, <1>4, Zenon
  <2> QED
    BY <2>1, <2>2, <2>3, Zenon DEF Pipe!ZeroMeansOverStep
<1> QED
  BY <1>12, <1>13, Zenon

(* notify: nobody waits for PIPE any longer, or is about to.               *)
LEMMA PipeNotify ==
  ASSUME Pipe!PipeInv, NEW p \in Programs, Pipe!Notify(p)
  PROVE  Pipe!PipeInv' /\ Pipe!ZeroMeansOverStep
<1>1. /\ v5[p] = "notify" /\ v7' = Programs /\ v5 \in [Programs -> Pipe!Places]
      /\ v5' = [q \in Programs |-> IF q = p THEN "user" ELSE IF v5[q] = "asleep" THEN "look" ELSE v5[q]]
  BY Zenon DEF Pipe!Notify, Pipe!PipeInv, Pipe!TypeOK
<1>2. UNCHANGED <<v1, v2, v3, v4, v6, v8, v9, v10, v11, v12>>
  BY Zenon DEF Pipe!Notify, Pipe!pipe, Pipe!history
<1>3. /\ v5' \in [Programs -> Pipe!Places] /\ v5'[p] = "user"
      /\ \A q \in Programs : q # p => (v5[q] = "asleep" /\ v5'[q] = "look") \/ (v5[q] # "asleep" /\ v5'[q] = v5[q])
  BY <1>1, Zenon DEF Pipe!Places
<1>4. Pipe!TypeOK'
  BY <1>1, <1>2, <1>3, Zenon DEF Pipe!PipeInv, Pipe!TypeOK
<1>5. Pipe!InOrder'
  BY <1>2, Zenon DEF Pipe!PipeInv, Pipe!InOrder
<1>6. Pipe!EndsCounted'
  <2>1. Pipe!CanRead' = Pipe!CanRead /\ Pipe!CanWrite' = Pipe!CanWrite
    BY <1>2, Zenon DEF Pipe!CanRead, Pipe!CanWrite
  <2>2. \A q \in Programs : v5'[q] = "unborn" => v4'[q] = {}
    BY <1>2, <1>3, Zenon DEF Pipe!PipeInv, Pipe!EndsCounted
  <2> QED
    BY <1>2, <2>1, <2>2, Zenon DEF Pipe!PipeInv, Pipe!EndsCounted
<1>7. Pipe!CallsAllowed'
  BY <1>2, <1>3, Zenon DEF Pipe!PipeInv, Pipe!CallsAllowed
<1>8. Pipe!KillsSeen'
  BY <1>2, <1>3, Zenon DEF Pipe!PipeInv, Pipe!TypeOK, Pipe!KillsSeen
<1>9. Pipe!NotifyComing'
  BY <1>1, <1>3, Zenon DEF Pipe!NotifyComing
<1>10. \A q \in Programs : Pipe!Possible(v6[q])' <=> Pipe!Possible(v6[q])
  BY <1>2, Zenon DEF Pipe!Possible
<1>11. Pipe!MovePossible'
  <2>1. \A q \in Programs : (Pipe!Shares(q)' <=> Pipe!Shares(q)) /\ Pipe!MovedOn(q)'
    BY <1>1, <1>2, Zenon DEF Pipe!Shares, Pipe!MovedOn
  <2> QED
    BY <1>2, <1>3, <1>10, <2>1, Zenon DEF Pipe!PipeInv, Pipe!MovePossible
<1>12. Pipe!ZeroMeansOverStep
  BY <1>1, <1>3, Zenon DEF Pipe!ZeroMeansOverStep
<1> QED
  BY <1>4, <1>5, <1>6, <1>7, <1>8, <1>9, <1>11, <1>12, Zenon DEF Pipe!PipeInv

(* drop: an end that someone has was counted, and whoever lets go of it is *)
(* about to notify.                                                        *)
LEMMA PipeDrop ==
  ASSUME Pipe!PipeInv, NEW p \in Programs, NEW kind \in Pipe!Kinds, Pipe!Drop(p, kind)
  PROVE  Pipe!PipeInv' /\ Pipe!ZeroMeansOverStep
<1>1. /\ v5' = [v5 EXCEPT ![p] = "notify"] /\ v5[p] = "user" /\ kind \in v4[p]
      /\ v4' = [v4 EXCEPT ![p] = v4[p] \ {kind}]
      /\ v2' = (IF kind = "Read" THEN v2 - 1 ELSE v2) /\ v3' = (IF kind = "Write" THEN v3 - 1 ELSE v3)
  BY Zenon DEF Pipe!Drop, Pipe!Go
<1>2. UNCHANGED <<v1, v6, v7, v8, v9, v10, v11, v12>>
  BY Zenon DEF Pipe!Drop, Pipe!history
<1>3. /\ v5 \in [Programs -> Pipe!Places] /\ v4 \in [Programs -> SUBSET Pipe!Kinds] /\ v2 \in Nat /\ v3 \in Nat
      /\ Pipe!Numbered(v2, Pipe!CanRead) /\ Pipe!Numbered(v3, Pipe!CanWrite)
  BY Zenon DEF Pipe!PipeInv, Pipe!TypeOK, Pipe!EndsCounted
<1>4. /\ v5' \in [Programs -> Pipe!Places] /\ v5'[p] = "notify" /\ \A q \in Programs \ {p} : v5'[q] = v5[q]
      /\ v4' \in [Programs -> SUBSET Pipe!Kinds] /\ v4'[p] = v4[p] \ {kind} /\ \A q \in Programs \ {p} : v4'[q] = v4[q]
  BY <1>1, <1>3, Zenon DEF Pipe!Places
<1>5. PICK r, w, canRead, canWrite : r = v2 /\ w = v3 /\ canRead = Pipe!CanRead /\ canWrite = Pipe!CanWrite
  BY Zenon
<1>6. /\ v2' \in Nat /\ v3' \in Nat /\ (v2 = 0 => v2' = 0) /\ (v3 = 0 => v3' = 0)
      /\ Pipe!Numbered(v2', Pipe!CanRead') /\ Pipe!Numbered(v3', Pipe!CanWrite')
  <2>1. CASE kind = "Read"
    <3>1. Pipe!CanRead' = canRead \ {p} /\ p \in canRead /\ Pipe!CanWrite' = canWrite
      BY <1>1, <1>4, <1>5, <2>1, Zenon DEF Pipe!CanRead, Pipe!CanWrite
    <3>2. r > 0 /\ Pipe!Numbered(r - 1, canRead \ {p})
      BY <1>3, <1>5, <3>1, NumberedRemove, Zenon
    <3>3. v2' = r - 1 /\ v3' = w /\ r \in Nat /\ w \in Nat
      BY <1>1, <1>3, <1>5, <2>1, Zenon
    <3>4. Pipe!Numbered(v2', Pipe!CanRead') /\ Pipe!Numbered(v3', Pipe!CanWrite')
      BY <1>3, <1>5, <3>1, <3>2, <3>3, Zenon
    <3>5. v2' \in Nat /\ v3' \in Nat /\ (v2 = 0 => v2' = 0) /\ (v3 = 0 => v3' = 0)
      BY <1>5, <3>2, <3>3
    <3> QED
      BY <3>4, <3>5, Zenon
  <2>2. CASE kind = "Write"
    <3>1. Pipe!CanWrite' = canWrite \ {p} /\ p \in canWrite /\ Pipe!CanRead' = canRead
      BY <1>1, <1>4, <1>5, <2>2, Zenon DEF Pipe!CanRead, Pipe!CanWrite
    <3>2. w > 0 /\ Pipe!Numbered(w - 1, canWrite \ {p})
      BY <1>3, <1>5, <3>1, NumberedRemove, Zenon
    <3>3. v3' = w - 1 /\ v2' = r /\ r \in Nat /\ w \in Nat
      BY <1>1, <1>3, <1>5, <2>2, Zenon
    <3>4. Pipe!Numbered(v2', Pipe!CanRead') /\ Pipe!Numbered(v3', Pipe!CanWrite')
      BY <1>3, <1>5, <3>1, <3>2, <3>3, Zenon
    <3>5. v2' \in Nat /\ v3' \in Nat /\ (v2 = 0 => v2' = 0) /\ (v3 = 0 => v3' = 0)
      BY <1>5, <3>2, <3>3
    <3> QED
      BY <3>4, <3>5, Zenon
  <2> QED
    BY <2>1, <2>2, Zenon DEF Pipe!Kinds
<1>7. Pipe!TypeOK'
  BY <1>2, <1>4, <1>6, Zenon DEF Pipe!PipeInv, Pipe!TypeOK
<1>8. Pipe!InOrder'
  BY <1>2, Zenon DEF Pipe!PipeInv, Pipe!InOrder
<1>9. Pipe!EndsCounted'
  <2>1. \A q \in Programs : v5'[q] = "unborn" => v4'[q] = {}
    BY <1>4, Zenon DEF Pipe!PipeInv, Pipe!EndsCounted
  <2> QED
    BY <1>6, <2>1, Zenon DEF Pipe!EndsCounted
<1>10. Pipe!CallsAllowed'
  BY <1>2, <1>4, Zenon DEF Pipe!PipeInv, Pipe!CallsAllowed
<1>11. Pipe!KillsSeen'
  BY <1>2, <1>4, Zenon DEF Pipe!PipeInv, Pipe!TypeOK, Pipe!KillsSeen
<1>12. Pipe!NotifyComing'
  BY <1>4, Zenon DEF Pipe!NotifyComing
<1>13. \A q \in Programs : Pipe!Possible(v6[q]) => Pipe!Possible(v6[q])'
  BY <1>2, <1>6, Zenon DEF Pipe!Possible
<1>14. Pipe!MovePossible'
  <2>1. \A q \in Programs : (Pipe!Shares(q)' <=> Pipe!Shares(q)) /\ Pipe!MovedOn(q)'
    BY <1>2, <1>4, Zenon DEF Pipe!Shares, Pipe!MovedOn
  <2> QED
    BY <1>2, <1>4, <1>13, <2>1, Zenon DEF Pipe!PipeInv, Pipe!MovePossible
<1>15. Pipe!ZeroMeansOverStep
  BY <1>1, <1>4, Zenon DEF Pipe!ZeroMeansOverStep
<1> QED
  BY <1>7, <1>8, <1>9, <1>10, <1>11, <1>12, <1>14, <1>15, Zenon DEF Pipe!PipeInv

(* A set's count goes up by one when one more is in it.                    *)
LEMMA PipeCounts ==
  ASSUME NEW n \in Nat, NEW m, NEW set, NEW more, NEW q, q \notin set, Pipe!Numbered(n, set),
         \/ more = set /\ m = n
         \/ more = set \cup {q} /\ m = n + 1 /\ set # {}
  PROVE  m \in Nat /\ Pipe!Numbered(m, more) /\ (m = 0 <=> n = 0)
<1>1. CASE more = set /\ m = n
  BY <1>1, Zenon
<1>2. CASE more = set \cup {q} /\ m = n + 1 /\ set # {}
  <2>1. Pipe!Numbered(n + 1, set \cup {q})
    BY NumberedAdd, Zenon
  <2>2. n # 0
    BY <1>2, NumberedZero, Zenon
  <2> QED
    BY <1>2, <2>1, <2>2
<1> QED
  BY <1>1, <1>2, Zenon

(* spawn: nobody gets an end that no one has.                              *)
LEMMA PipeDuplicate ==
  ASSUME Pipe!PipeInv, NEW p \in Programs, NEW q \in Programs, NEW kinds \in SUBSET Pipe!Kinds, Pipe!Duplicate(p, q, kinds)
  PROVE  Pipe!PipeInv' /\ Pipe!ZeroMeansOverStep
<1>1. /\ v5' = [v5 EXCEPT ![q] = "user"] /\ v5[p] = "user" /\ v5[q] = "unborn" /\ kinds \subseteq v4[p]
      /\ v4' = [v4 EXCEPT ![q] = kinds]
      /\ v2' = (IF "Read" \in kinds THEN v2 + 1 ELSE v2) /\ v3' = (IF "Write" \in kinds THEN v3 + 1 ELSE v3)
  BY Zenon DEF Pipe!Duplicate, Pipe!Go, Pipe!Free
<1>2. UNCHANGED <<v1, v6, v7, v8, v9, v10, v11, v12>>
  BY Zenon DEF Pipe!Duplicate, Pipe!history
<1>3. /\ v5 \in [Programs -> Pipe!Places] /\ v4 \in [Programs -> SUBSET Pipe!Kinds] /\ v2 \in Nat /\ v3 \in Nat
      /\ Pipe!Numbered(v2, Pipe!CanRead) /\ Pipe!Numbered(v3, Pipe!CanWrite) /\ v4[q] = {}
  BY <1>1, Zenon DEF Pipe!PipeInv, Pipe!TypeOK, Pipe!EndsCounted
<1>4. /\ v5' \in [Programs -> Pipe!Places] /\ v5'[q] = "user" /\ \A r \in Programs \ {q} : v5'[r] = v5[r]
      /\ v4' \in [Programs -> SUBSET Pipe!Kinds] /\ v4'[q] = kinds /\ \A r \in Programs \ {q} : v4'[r] = v4[r]
  BY <1>1, <1>3, Zenon DEF Pipe!Places
<1>5. /\ q \notin Pipe!CanRead /\ q \notin Pipe!CanWrite
      /\ \/ Pipe!CanRead' = Pipe!CanRead /\ v2' = v2
         \/ Pipe!CanRead' = Pipe!CanRead \cup {q} /\ v2' = v2 + 1 /\ Pipe!CanRead # {}
      /\ \/ Pipe!CanWrite' = Pipe!CanWrite /\ v3' = v3
         \/ Pipe!CanWrite' = Pipe!CanWrite \cup {q} /\ v3' = v3 + 1 /\ Pipe!CanWrite # {}
  <2>1. q \notin Pipe!CanRead /\ q \notin Pipe!CanWrite
    BY <1>3, Zenon DEF Pipe!CanRead, Pipe!CanWrite
  <2>2. \/ Pipe!CanRead' = Pipe!CanRead /\ v2' = v2
        \/ Pipe!CanRead' = Pipe!CanRead \cup {q} /\ v2' = v2 + 1 /\ Pipe!CanRead # {}
    <3>1. Pipe!CanRead \subseteq Programs /\ Pipe!CanRead' \subseteq Programs /\ q \notin Pipe!CanRead
      BY <2>1, Zenon DEF Pipe!CanRead
    <3>2. \A r \in Programs \ {q} : r \in Pipe!CanRead' <=> r \in Pipe!CanRead
      BY <1>4, Zenon DEF Pipe!CanRead
    <3>3. q \in Pipe!CanRead' <=> "Read" \in kinds
      BY <1>4, Zenon DEF Pipe!CanRead
    <3>4. CASE "Read" \in kinds
      <4>1. p \in Pipe!CanRead
        BY <1>1, <3>4, Zenon DEF Pipe!CanRead
      <4>2. Pipe!CanRead' = Pipe!CanRead \cup {q}
        BY <3>1, <3>2, <3>3, <3>4, Zenon
      <4> QED
        BY <1>1, <3>4, <4>1, <4>2, Zenon
    <3>5. CASE "Read" \notin kinds
      <4>1. Pipe!CanRead' = Pipe!CanRead
        BY <3>1, <3>2, <3>3, <3>5
      <4>2. v2' = v2
        BY <1>1, <3>5, Zenon
      <4> QED
        BY <4>1, <4>2, Zenon
    <3> QED
      BY <3>4, <3>5, Zenon
  <2>3. \/ Pipe!CanWrite' = Pipe!CanWrite /\ v3' = v3
        \/ Pipe!CanWrite' = Pipe!CanWrite \cup {q} /\ v3' = v3 + 1 /\ Pipe!CanWrite # {}
    <3>1. Pipe!CanWrite \subseteq Programs /\ Pipe!CanWrite' \subseteq Programs /\ q \notin Pipe!CanWrite
      BY <2>1, Zenon DEF Pipe!CanWrite
    <3>2. \A r \in Programs \ {q} : r \in Pipe!CanWrite' <=> r \in Pipe!CanWrite
      BY <1>4, Zenon DEF Pipe!CanWrite
    <3>3. q \in Pipe!CanWrite' <=> "Write" \in kinds
      BY <1>4, Zenon DEF Pipe!CanWrite
    <3>4. CASE "Write" \in kinds
      <4>1. p \in Pipe!CanWrite
        BY <1>1, <3>4, Zenon DEF Pipe!CanWrite
      <4>2. Pipe!CanWrite' = Pipe!CanWrite \cup {q}
        BY <3>1, <3>2, <3>3, <3>4, Zenon
      <4> QED
        BY <1>1, <3>4, <4>1, <4>2, Zenon
    <3>5. CASE "Write" \notin kinds
      <4>1. Pipe!CanWrite' = Pipe!CanWrite
        BY <3>1, <3>2, <3>3, <3>5
      <4>2. v3' = v3
        BY <1>1, <3>5, Zenon
      <4> QED
        BY <4>1, <4>2, Zenon
    <3> QED
      BY <3>4, <3>5, Zenon
  <2> QED
    BY <2>1, <2>2, <2>3, Zenon
<1>6. /\ v2' \in Nat /\ v3' \in Nat /\ (v2' = 0 <=> v2 = 0) /\ (v3' = 0 <=> v3 = 0)
      /\ Pipe!Numbered(v2', Pipe!CanRead') /\ Pipe!Numbered(v3', Pipe!CanWrite')
  <2>1. PICK n, m, set, more : n = v2 /\ m = v2' /\ set = Pipe!CanRead /\ more = Pipe!CanRead'
    BY Zenon
  <2>2. m \in Nat /\ Pipe!Numbered(m, more) /\ (m = 0 <=> n = 0)
    BY <1>3, <1>5, <2>1, PipeCounts, Zenon
  <2>3. PICK k, j, some, all : k = v3 /\ j = v3' /\ some = Pipe!CanWrite /\ all = Pipe!CanWrite'
    BY Zenon
  <2>4. j \in Nat /\ Pipe!Numbered(j, all) /\ (j = 0 <=> k = 0)
    BY <1>3, <1>5, <2>3, PipeCounts, Zenon
  <2> QED
    BY <2>1, <2>2, <2>3, <2>4, Zenon
<1>7. Pipe!TypeOK'
  BY <1>2, <1>4, <1>6, Zenon DEF Pipe!PipeInv, Pipe!TypeOK
<1>8. Pipe!InOrder'
  BY <1>2, Zenon DEF Pipe!PipeInv, Pipe!InOrder
<1>9. Pipe!EndsCounted'
  <2>1. \A r \in Programs : v5'[r] = "unborn" => v4'[r] = {}
    BY <1>4, Zenon DEF Pipe!PipeInv, Pipe!EndsCounted
  <2> QED
    BY <1>6, <2>1, Zenon DEF Pipe!EndsCounted
<1>10. Pipe!CallsAllowed'
  BY <1>2, <1>4, Zenon DEF Pipe!PipeInv, Pipe!CallsAllowed
<1>11. Pipe!KillsSeen'
  BY <1>2, <1>4, Zenon DEF Pipe!PipeInv, Pipe!TypeOK, Pipe!KillsSeen
<1>12. \A r \in Programs : Pipe!Possible(v6[r])' <=> Pipe!Possible(v6[r])
  BY <1>2, <1>6, Zenon DEF Pipe!Possible
<1>13. Pipe!NotifyComing'
  BY <1>1, <1>2, <1>4, <1>12, Zenon DEF Pipe!PipeInv, Pipe!NotifyComing
<1>14. Pipe!MovePossible'
  <2>1. \A r \in Programs : (Pipe!Shares(r)' <=> Pipe!Shares(r)) /\ (Pipe!MovedOn(r) => Pipe!MovedOn(r)')
    BY <1>1, <1>2, <1>4, Zenon DEF Pipe!Shares, Pipe!MovedOn
  <2> QED
    BY <1>2, <1>4, <1>12, <2>1, Zenon DEF Pipe!PipeInv, Pipe!MovePossible
<1>15. Pipe!ZeroMeansOverStep
  BY <1>1, <1>4, Zenon DEF Pipe!ZeroMeansOverStep
<1> QED
  BY <1>7, <1>8, <1>9, <1>10, <1>11, <1>13, <1>14, <1>15, Zenon DEF Pipe!PipeInv

(* kill: a program that waits is woken, and one about to wait won't.       *)
LEMMA PipeKill ==
  ASSUME Pipe!PipeInv, NEW p \in Programs, Pipe!Kill(p)
  PROVE  Pipe!PipeInv' /\ Pipe!ZeroMeansOverStep
<1>1. /\ v9' = v9 \cup {p} /\ v5[p] \notin {"unborn", "gone"}
      /\ v5' = (IF v5[p] = "asleep" THEN [v5 EXCEPT ![p] = "look"] ELSE v5)
      /\ v8' = (IF v5[p] \in {"user", "asleep"} THEN v8 ELSE v8 \cup {p})
      /\ v5 \in [Programs -> Pipe!Places] /\ v8 \subseteq Programs /\ v9 \subseteq Programs
  BY Zenon DEF Pipe!Kill, Pipe!PipeInv, Pipe!TypeOK
<1>2. UNCHANGED <<v1, v2, v3, v4, v6, v7, v10, v11, v12>>
  BY Zenon DEF Pipe!Kill, Pipe!pipe, Pipe!history
<1>3. /\ v5' \in [Programs -> Pipe!Places] /\ \A q \in Programs \ {p} : v5'[q] = v5[q]
      /\ (v5[p] = "asleep" /\ v5'[p] = "look") \/ (v5[p] # "asleep" /\ v5'[p] = v5[p])
  BY <1>1, Zenon DEF Pipe!Places
<1>4. /\ v8 \subseteq v8' /\ v8' \subseteq Programs /\ v9' \subseteq Programs
      /\ v5[p] \in {"check", "wait"} => p \in v8'
  BY <1>1, Zenon
<1>5. Pipe!TypeOK'
  BY <1>2, <1>3, <1>4, Zenon DEF Pipe!PipeInv, Pipe!TypeOK
<1>6. Pipe!InOrder'
  BY <1>2, Zenon DEF Pipe!PipeInv, Pipe!InOrder
<1>7. Pipe!EndsCounted'
  <2>1. Pipe!CanRead' = Pipe!CanRead /\ Pipe!CanWrite' = Pipe!CanWrite
    BY <1>2, Zenon DEF Pipe!CanRead, Pipe!CanWrite
  <2>2. \A q \in Programs : v5'[q] = "unborn" => v4'[q] = {}
    BY <1>2, <1>3, Zenon DEF Pipe!PipeInv, Pipe!EndsCounted
  <2> QED
    BY <1>2, <2>1, <2>2, Zenon DEF Pipe!PipeInv, Pipe!EndsCounted
<1>8. Pipe!CallsAllowed'
  BY <1>2, <1>3, Zenon DEF Pipe!PipeInv, Pipe!CallsAllowed
<1>9. Pipe!KillsSeen'
  <2>1. v5'[p] # "asleep" /\ (v5'[p] \in {"check", "wait"} => p \in v8')
    BY <1>3, <1>4, Zenon
  <2>2. \A q \in v9 \ {p} : v5'[q] # "asleep" /\ (v5'[q] \in {"check", "wait"} => q \in v8')
    BY <1>1, <1>3, <1>4, Zenon DEF Pipe!PipeInv, Pipe!KillsSeen
  <2> QED
    BY <1>1, <2>1, <2>2, Zenon DEF Pipe!KillsSeen
<1>10. \A q \in Programs : Pipe!Possible(v6[q])' <=> Pipe!Possible(v6[q])
  BY <1>2, Zenon DEF Pipe!Possible
<1>11. Pipe!NotifyComing'
  BY <1>2, <1>3, <1>10, Zenon DEF Pipe!PipeInv, Pipe!NotifyComing
<1>12. Pipe!MovePossible'
  <2>1. \A q \in Programs : (Pipe!Shares(q)' <=> Pipe!Shares(q)) /\ (Pipe!MovedOn(q) => Pipe!MovedOn(q)')
    BY <1>2, <1>3, Zenon DEF Pipe!Shares, Pipe!MovedOn
  <2> QED
    BY <1>1, <1>2, <1>3, <1>10, <2>1, Zenon DEF Pipe!PipeInv, Pipe!MovePossible
<1>13. Pipe!ZeroMeansOverStep
  BY <1>3, Zenon DEF Pipe!ZeroMeansOverStep
<1> QED
  BY <1>5, <1>6, <1>7, <1>8, <1>9, <1>11, <1>12, <1>13, Zenon DEF Pipe!PipeInv

(* Every step of the component keeps its invariant.                        *)
LEMMA PipeNext ==
  ASSUME Pipe!PipeInv, [Pipe!Next]_(Pipe!vars)
  PROVE  Pipe!PipeInv' /\ Pipe!ZeroMeansOverStep
<1>1. ASSUME NEW p \in Programs, Pipe!InCall(p)
      PROVE  Pipe!PipeInv' /\ Pipe!ZeroMeansOverStep
  BY <1>1, PipeWaits, PipeRead, PipeWrite, PipeNotify, Zenon DEF Pipe!InCall
<1>2. CASE UNCHANGED Pipe!vars
  <2>1. UNCHANGED <<v1, v2, v3, v4, v5, v6, v7, v8, v9, v10, v11, v12>>
    BY <1>2, Zenon DEF Pipe!vars, Pipe!pipe, Pipe!history
  <2>2. Pipe!CanRead' = Pipe!CanRead /\ Pipe!CanWrite' = Pipe!CanWrite /\ \A q \in Programs : Pipe!Possible(v6[q])' <=> Pipe!Possible(v6[q])
    BY <2>1, Zenon DEF Pipe!CanRead, Pipe!CanWrite, Pipe!Possible
  <2>6. \A q \in Programs : (Pipe!Shares(q)' <=> Pipe!Shares(q)) /\ (Pipe!MovedOn(q)' <=> Pipe!MovedOn(q))
    BY <2>1, Zenon DEF Pipe!Shares, Pipe!MovedOn
  <2>3. Pipe!TypeOK' /\ Pipe!InOrder' /\ Pipe!CallsAllowed' /\ Pipe!KillsSeen'
    BY <2>1, Zenon DEF Pipe!PipeInv, Pipe!TypeOK, Pipe!InOrder, Pipe!CallsAllowed, Pipe!KillsSeen
  <2>4. Pipe!EndsCounted' /\ Pipe!NotifyComing' /\ Pipe!MovePossible'
    BY <2>1, <2>2, <2>6, Zenon DEF Pipe!PipeInv, Pipe!EndsCounted, Pipe!NotifyComing, Pipe!MovePossible
  <2>5. Pipe!ZeroMeansOverStep
    BY <2>1, Zenon DEF Pipe!ZeroMeansOverStep
  <2> QED
    BY <2>3, <2>4, <2>5, Zenon DEF Pipe!PipeInv
<1> QED
  BY <1>1, <1>2, PipeWaits, PipeCall, PipeDrop, PipeDuplicate, PipeKill, Zenon DEF Pipe!Next

(* What was read, followed by what is in the pipe, is what was written.    *)
LEMMA PipeOrder == Pipe!PipeInv => Pipe!TypeOK /\ Pipe!BytesInOrder /\ Pipe!NobodyForgotten
<1> SUFFICES ASSUME Pipe!PipeInv PROVE Pipe!TypeOK /\ Pipe!BytesInOrder /\ Pipe!NobodyForgotten
  BY Zenon
<1>1. PICK b, g, put, set : b = v1 /\ g = v12 /\ put = v11 /\ set = 1 .. PipeMaxBytes
  BY Zenon
<1>2. /\ b \in Seq(set) /\ g \in Seq(set) /\ put \in Nat /\ put <= PipeMaxBytes /\ Len(g) + Len(b) = put
      /\ \A i \in 1 .. Len(g) : g[i] = i
      /\ \A i \in 1 .. Len(b) : b[i] = Len(g) + i
  BY <1>1, PipeAssumption DEF Pipe!PipeInv, Pipe!TypeOK, Pipe!InOrder
<1>3. PICK whole : whole = g \o b
  BY Zenon
<1>4. /\ whole \in Seq(set) /\ Len(whole) = put
      /\ \A i \in 1 .. Len(g) : whole[i] = g[i]
      /\ \A i \in 1 .. Len(b) : whole[Len(g) + i] = b[i]
  BY <1>2, <1>3
<1>5. ASSUME NEW i \in 1 .. put
      PROVE  whole[i] = i
  <2>1. CASE i \in 1 .. Len(g)
    BY <1>2, <1>4, <2>1, Zenon
  <2>2. CASE i \notin 1 .. Len(g)
    <3>1. PICK j : j = i - Len(g)
      BY Zenon
    <3>2. j \in 1 .. Len(b) /\ i = Len(g) + j
      BY <1>2, <2>2, <3>1
    <3> QED
      BY <1>2, <1>4, <3>2, Zenon
  <2> QED
    BY <2>1, <2>2, Zenon
<1>6. whole = [i \in 1 .. put |-> i]
  BY <1>4, <1>5
<1>7. Pipe!BytesInOrder
  BY <1>1, <1>3, <1>6, Zenon DEF Pipe!BytesInOrder
<1>8. Pipe!NobodyForgotten
  BY Zenon DEF Pipe!PipeInv, Pipe!TypeOK, Pipe!KillsSeen, Pipe!NotifyComing, Pipe!NobodyForgotten
<1> QED
  BY <1>7, <1>8, Zenon DEF Pipe!PipeInv

(* A pipe is a queue, and no program waits for it in vain: for any         *)
(* programs that have its ends, pass them on and are killed meanwhile      *)
(* (pipe.rs).                                                              *)
THEOREM PipeKeepsOrder == Pipe!Spec => [](Pipe!BytesInOrder /\ Pipe!NobodyForgotten)
<1>1. Pipe!Init => Pipe!PipeInv
  BY PipeInit, Zenon
<1>2. Pipe!PipeInv /\ [Pipe!Next]_(Pipe!vars) => Pipe!PipeInv'
  BY PipeNext, Zenon
<1>3. Pipe!PipeInv => Pipe!BytesInOrder /\ Pipe!NobodyForgotten
  BY PipeOrder, Zenon
<1> QED
  BY <1>1, <1>2, <1>3, PTL DEF Pipe!Spec

(* And a read of nothing means that no writers are left, that the reader   *)
(* was killed, or, where others read the pipe as well, that it has changed *)
(* since this one looked (pipe.rs; Pipe::read): for any programs that read *)
(* and write, any capacity, and whoever is killed meanwhile.               *)
THEOREM PipeIsQueueAlways == Pipe!Spec => PipeIsQueue
<1> DEFINE Queue == Pipe!TypeOK /\ Pipe!BytesInOrder /\ Pipe!NobodyForgotten
<1>1. Pipe!Init => Pipe!PipeInv
  BY PipeInit, Zenon
<1>2. Pipe!PipeInv /\ [Pipe!Next]_(Pipe!vars) => Pipe!PipeInv' /\ Pipe!ZeroMeansOverStep
  BY PipeNext, Zenon
<1>3. Pipe!PipeInv => Queue
  BY PipeOrder, Zenon
<1>4. Queue' /\ Pipe!ZeroMeansOverStep
        => (part = "pipe" => /\ Pipe!TypeOK'
                             /\ Pipe!BytesInOrder'
                             /\ Pipe!NobodyForgotten'
                             /\ Pipe!ZeroMeansOverStep)
  BY Zenon
<1> QED
  BY <1>1, <1>2, <1>3, <1>4, PTL DEF Pipe!Spec, PipeIsQueue
=============================================================================
