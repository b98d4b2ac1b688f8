----------------------------- MODULE MutexProofs -----------------------------
(***************************************************************************)
(* The sleeping lock, for any number of tasks and locks: it excludes, and  *)
(* it serves its waiters in the order they came.                           *)
(***************************************************************************)
EXTENDS Mutex, TLAPS

\* A task in the line of the lock it asked for.
InLine(t, l) == pc[t] \in {"queued", "asleep"} /\ of[t] = l

\* A task that hasn't been woken since it queued: it is asleep, or on its way to.
NotYetWoken(t) == t \notin wakePending /\ (pc[t] = "asleep" => t \in blocked)

\* The inductive invariant behind Exclusion: a task is woken exactly once for every time it
\* queues, by the task that made it the owner, so that a block that returns has the lock.
MutexInv ==
  /\ TypeOK
  /\ \A t \in Tasks : pc[t] \in {"queued", "asleep", "in"} => of[t] \in Locks
  /\ \A t \in Tasks : pc[t] = "in" \/ Runs(t, "asleep") => owner[of[t]] = t
  /\ \A t \in Tasks : pc[t] # "panic"
  /\ \A l \in Locks : owner[l] # Nil =>
       pc[owner[l]] \in {"queued", "asleep", "in"} /\ of[owner[l]] = l
  /\ \A l \in Locks : \A i \in 1 .. Len(waiters[l]) :
       /\ InLine(waiters[l][i], l)
       /\ NotYetWoken(waiters[l][i])
       /\ owner[l] # waiters[l][i]
  /\ \A l \in Locks : \A i, j \in 1 .. Len(waiters[l]) : waiters[l][i] = waiters[l][j] => i = j
  /\ \A t \in blocked : pc[t] = "asleep"
  /\ \A t \in wakePending : pc[t] = "queued" /\ owner[of[t]] = t
  /\ \A t \in Tasks : pc[t] = "handed" =>
       /\ next[t] \in Tasks
       /\ pc[next[t]] \in {"queued", "asleep"}
       /\ owner[of[next[t]]] = next[t]
       /\ NotYetWoken(next[t])
  /\ \A t, u \in Tasks : pc[t] = "handed" /\ pc[u] = "handed" /\ next[t] = next[u] => t = u
-----------------------------------------------------------------------------
\* What a line of waiters looks like after one more joins, and after the first leaves.
LEMMA LineFacts ==
  ASSUME NEW S, NEW s \in Seq(S)
  PROVE  /\ \A x \in S : /\ Append(s, x) \in Seq(S)
                         /\ Len(Append(s, x)) = Len(s) + 1
                         /\ \A i \in 1 .. Len(s) : Append(s, x)[i] = s[i]
                         /\ Append(s, x)[Len(s) + 1] = x
         /\ s # <<>> => /\ Len(s) > 0
                        /\ Head(s) = s[1] /\ Head(s) \in S
                        /\ Tail(s) \in Seq(S)
                        /\ Len(Tail(s)) = Len(s) - 1
                        /\ \A i \in 1 .. Len(s) - 1 : Tail(s)[i] = s[i + 1]
         /\ Len(s) \in Nat
  OBVIOUS

\* Nobody uses a lock at first.
LEMMA MutexInit == Init => MutexInv
  BY MutexAssumption DEF Init, MutexInv, TypeOK, Places, Runs

\* Who waits for a lock is a task in its line that hasn't been woken and doesn't own it.
LEMMA WaitersFacts ==
  ASSUME MutexInv
  PROVE  \A l \in Locks : \A i \in 1 .. Len(waiters[l]) :
           /\ waiters[l][i] \in Tasks
           /\ InLine(waiters[l][i], l)
           /\ NotYetWoken(waiters[l][i])
           /\ owner[l] # waiters[l][i]
<1> SUFFICES ASSUME NEW l \in Locks, NEW i \in 1 .. Len(waiters[l])
             PROVE  /\ waiters[l][i] \in Tasks
                    /\ InLine(waiters[l][i], l)
                    /\ NotYetWoken(waiters[l][i])
                    /\ owner[l] # waiters[l][i]
  BY Zenon
<1>1. waiters[l] \in Seq(Tasks)
  BY DEF MutexInv, TypeOK
<1>2. waiters[l][i] \in Tasks
  BY <1>1
<1> QED
  BY <1>2 DEF MutexInv

\* Asking for a lock.
LEMMA AcquireKeeps ==
  ASSUME MutexInv, NEW t \in Tasks, NEW l \in Locks, Acquire(t, l)
  PROVE  MutexInv'
<1>1. /\ pc[t] = "out" /\ t \notin blocked
      /\ of' = [of EXCEPT ![t] = l]
      /\ UNCHANGED <<blocked, wakePending, next>>
  BY Zenon DEF Acquire, Runs, sched
<1>2. TypeOK
  BY Zenon DEF MutexInv
<1>3. of'[t] = l /\ \A u \in Tasks : u # t => of'[u] = of[u]
  BY <1>1, <1>2, Zenon DEF TypeOK
<1>4. \A k \in Locks : \A i \in 1 .. Len(waiters[k]) : waiters[k][i] \in Tasks /\ waiters[k][i] # t
  BY <1>1, WaitersFacts DEF InLine
<1>5. t \notin wakePending /\ \A u \in Tasks : pc[u] = "handed" => next[u] # t
  BY <1>1, Zenon DEF MutexInv
<1>6. CASE owner[l] = Nil
  <2>1. owner' = [owner EXCEPT ![l] = t] /\ pc' = [pc EXCEPT ![t] = "in"] /\ UNCHANGED waiters
    BY <1>6, Zenon DEF Acquire, Go
  <2>2. /\ owner'[l] = t /\ \A k \in Locks : k # l => owner'[k] = owner[k]
        /\ pc'[t] = "in" /\ \A u \in Tasks : u # t => pc'[u] = pc[u]
    BY <1>2, <2>1, Zenon DEF TypeOK
  <2>3. TypeOK'
    BY <1>1, <1>2, <2>1, Zenon DEF TypeOK, Places
  <2>4. \A u \in Tasks : owner[l] # u
    BY <1>6, MutexAssumption, Zenon
  <2>5. \A k \in Locks : \A i \in 1 .. Len(waiters'[k]) :
          /\ InLine(waiters[k][i], k)'
          /\ NotYetWoken(waiters[k][i])'
          /\ owner'[k] # waiters'[k][i]
    BY <1>1, <1>3, <1>4, <2>1, <2>2 DEF MutexInv, InLine, NotYetWoken
  <2>6. \A u \in Tasks : pc'[u] = "handed" =>
          /\ next'[u] \in Tasks
          /\ pc'[next'[u]] \in {"queued", "asleep"}
          /\ owner'[of'[next'[u]]] = next'[u]
          /\ NotYetWoken(next[u])'
    BY <1>1, <1>3, <1>5, <2>2, <2>4 DEF MutexInv, NotYetWoken
  <2>7. \A k \in Locks : owner'[k] # Nil =>
          pc'[owner'[k]] \in {"queued", "asleep", "in"} /\ of'[owner'[k]] = k
    <3> SUFFICES ASSUME NEW k \in Locks, owner'[k] # Nil
                 PROVE  pc'[owner'[k]] \in {"queued", "asleep", "in"} /\ of'[owner'[k]] = k
      BY Zenon
    <3>1. CASE k = l
      BY <1>3, <2>2, <3>1, Zenon
    <3>2. CASE k # l
      <4>1. /\ owner'[k] = owner[k] /\ owner[k] \in Tasks
            /\ pc[owner[k]] \in {"queued", "asleep", "in"} /\ of[owner[k]] = k
        BY <1>2, <2>2, <3>2 DEF MutexInv, TypeOK
      <4> QED
        BY <1>1, <1>3, <2>2, <4>1
    <3> QED
      BY <3>1, <3>2, Zenon
  <2>8. \A u \in wakePending' : pc'[u] = "queued" /\ owner'[of'[u]] = u
    BY <1>1, <1>2, <1>3, <1>5, <2>2, <2>4 DEF MutexInv, TypeOK
  <2>9. \A u \in Tasks : pc'[u] = "in" \/ Runs(u, "asleep")' => owner'[of'[u]] = u
    BY <1>1, <1>3, <2>2, <2>4 DEF MutexInv, Runs
  <2>10. \A u \in Tasks : pc'[u] \in {"queued", "asleep", "in"} => of'[u] \in Locks
    BY <1>3, <2>2, Zenon DEF MutexInv
  <2>11. \A u \in Tasks : pc'[u] # "panic"
    BY <2>2 DEF MutexInv
  <2>12. \A k \in Locks : \A i, j \in 1 .. Len(waiters'[k]) : waiters'[k][i] = waiters'[k][j] => i = j
    BY <2>1 DEF MutexInv
  <2>13. \A u \in blocked' : pc'[u] = "asleep"
    BY <1>1, <1>2, <2>2 DEF MutexInv, TypeOK
  <2>14. \A u, v \in Tasks : pc'[u] = "handed" /\ pc'[v] = "handed" /\ next'[u] = next'[v] => u = v
    BY <1>1, <2>2 DEF MutexInv
  <2> QED
    BY <2>3, <2>5, <2>6, <2>7, <2>8, <2>9, <2>10, <2>11, <2>12, <2>13, <2>14, Zenon DEF MutexInv
<1>7. CASE owner[l] # Nil
  <2>1. /\ waiters' = [waiters EXCEPT ![l] = Append(waiters[l], t)]
        /\ pc' = [pc EXCEPT ![t] = "queued"] /\ UNCHANGED owner
    BY <1>7, Zenon DEF Acquire, Go
  <2>2. waiters[l] \in Seq(Tasks)
    BY <1>2, Zenon DEF TypeOK
  <2>3. /\ Append(waiters[l], t) \in Seq(Tasks)
        /\ Len(Append(waiters[l], t)) = Len(waiters[l]) + 1
        /\ \A i \in 1 .. Len(waiters[l]) : Append(waiters[l], t)[i] = waiters[l][i]
        /\ Append(waiters[l], t)[Len(waiters[l]) + 1] = t
        /\ Len(waiters[l]) \in Nat
    BY <2>2, LineFacts
  <2>4. /\ waiters'[l] = Append(waiters[l], t) /\ \A k \in Locks : k # l => waiters'[k] = waiters[k]
        /\ pc'[t] = "queued" /\ \A u \in Tasks : u # t => pc'[u] = pc[u]
    BY <1>2, <2>1, Zenon DEF TypeOK
  <2>5. TypeOK'
    BY <1>1, <1>2, <2>1, <2>3, Zenon DEF TypeOK, Places
  <2>6. owner[l] # t
    BY <1>1, <1>7, Zenon DEF MutexInv
  <2>7. ASSUME NEW k \in Locks, NEW i \in 1 .. Len(waiters'[k])
        PROVE  /\ InLine(waiters[k][i], k)'
               /\ NotYetWoken(waiters[k][i])'
               /\ owner'[k] # waiters'[k][i]
    <3>1. CASE k = l /\ i = Len(waiters[l]) + 1
      BY <1>1, <1>3, <1>5, <2>1, <2>3, <2>4, <2>6, <3>1 DEF InLine, NotYetWoken
    <3>2. CASE ~(k = l /\ i = Len(waiters[l]) + 1)
      <4>1. i \in 1 .. Len(waiters[k]) /\ waiters'[k][i] = waiters[k][i]
        BY <2>3, <2>4, <3>2
      <4>2. PICK u \in Tasks : u = waiters[k][i] /\ u # t
        BY <1>4, <4>1, Zenon
      <4>3. InLine(u, k) /\ NotYetWoken(u) /\ owner[k] # u
        BY <4>1, <4>2 DEF MutexInv
      <4> QED
        BY <1>1, <1>3, <2>1, <2>4, <4>1, <4>2, <4>3 DEF InLine, NotYetWoken
    <3> QED
      BY <3>1, <3>2, Zenon
  <2>8. ASSUME NEW k \in Locks, NEW i \in 1 .. Len(waiters'[k]), NEW j \in 1 .. Len(waiters'[k]),
               waiters'[k][i] = waiters'[k][j]
        PROVE  i = j
    <3>1. CASE k = l
      <4>1. /\ i \in 1 .. Len(waiters[l]) + 1 /\ j \in 1 .. Len(waiters[l]) + 1
            /\ Append(waiters[l], t)[i] = Append(waiters[l], t)[j]
        BY <2>3, <2>4, <2>8, <3>1, Zenon
      <4>2. \A m, n \in 1 .. Len(waiters[l]) : waiters[l][m] = waiters[l][n] => m = n
        BY Zenon DEF MutexInv
      <4> QED
        BY <1>4, <2>3, <4>1, <4>2
    <3>2. CASE k # l
      <4>1. waiters'[k] = waiters[k]
        BY <2>4, <3>2, Zenon
      <4>2. \A m, n \in 1 .. Len(waiters[k]) : waiters[k][m] = waiters[k][n] => m = n
        BY Zenon DEF MutexInv
      <4> QED
        BY <2>8, <4>1, <4>2, Zenon
    <3> QED
      BY <3>1, <3>2, Zenon
  <2>9. \A u \in Tasks : pc'[u] = "handed" =>
          /\ next'[u] \in Tasks
          /\ pc'[next'[u]] \in {"queued", "asleep"}
          /\ owner'[of'[next'[u]]] = next'[u]
          /\ NotYetWoken(next[u])'
    BY <1>1, <1>3, <1>5, <2>1, <2>4 DEF MutexInv, NotYetWoken
  <2>10. ASSUME NEW k \in Locks, owner'[k] # Nil
         PROVE  pc'[owner'[k]] \in {"queued", "asleep", "in"} /\ of'[owner'[k]] = k
    <3>1. /\ owner'[k] = owner[k] /\ owner[k] \in Tasks
          /\ pc[owner[k]] \in {"queued", "asleep", "in"} /\ of[owner[k]] = k
      BY <1>2, <2>1, <2>10 DEF MutexInv, TypeOK
    <3> QED
      BY <1>1, <1>3, <2>4, <3>1
  <2>11. \A u \in wakePending' : pc'[u] = "queued" /\ owner'[of'[u]] = u
    BY <1>1, <1>2, <1>3, <1>5, <2>1, <2>4 DEF MutexInv, TypeOK
  <2>12. \A u \in Tasks : pc'[u] = "in" \/ Runs(u, "asleep")' => owner'[of'[u]] = u
    BY <1>1, <1>3, <2>1, <2>4 DEF MutexInv, Runs
  <2>13. \A u \in Tasks : pc'[u] \in {"queued", "asleep", "in"} => of'[u] \in Locks
    BY <1>3, <2>4, Zenon DEF MutexInv
  <2>14. \A u \in Tasks : pc'[u] # "panic"
    BY <2>4 DEF MutexInv
  <2>15. \A u \in blocked' : pc'[u] = "asleep"
    BY <1>1, <1>2, <2>4 DEF MutexInv, TypeOK
  <2>16. \A u, v \in Tasks : pc'[u] = "handed" /\ pc'[v] = "handed" /\ next'[u] = next'[v] => u = v
    BY <1>1, <2>4 DEF MutexInv
  <2> QED
    BY <2>5, <2>7, <2>8, <2>9, <2>10, <2>11, <2>12, <2>13, <2>14, <2>15, <2>16, Zenon DEF MutexInv
<1> QED
  BY <1>6, <1>7, Zenon

\* sched::block: what was kept for the task is used up, or the task sleeps.
LEMMA BlockKeeps ==
  ASSUME MutexInv, NEW t \in Tasks, Block(t)
  PROVE  MutexInv'
<1>1. /\ pc[t] = "queued" /\ t \notin blocked
      /\ blocked' = IF t \in wakePending THEN blocked ELSE blocked \cup {t}
      /\ wakePending' = wakePending \ {t}
      /\ pc' = [pc EXCEPT ![t] = "asleep"]
      /\ UNCHANGED <<owner, waiters, of, next>>
  BY Zenon DEF Block, Runs, Go
<1>2. TypeOK
  BY Zenon DEF MutexInv
<1>3. pc'[t] = "asleep" /\ \A u \in Tasks : u # t => pc'[u] = pc[u]
  BY <1>1, <1>2, Zenon DEF TypeOK
<1>4. TypeOK'
  BY <1>1, <1>2, Zenon DEF TypeOK, Places
<1>5. \A k \in Locks : \A i \in 1 .. Len(waiters[k]) : waiters[k][i] \in Tasks
  BY <1>2 DEF TypeOK
<1>6. \A k \in Locks : \A i \in 1 .. Len(waiters'[k]) :
        /\ InLine(waiters[k][i], k)'
        /\ NotYetWoken(waiters[k][i])'
        /\ owner'[k] # waiters'[k][i]
  BY <1>1, <1>3, <1>5 DEF MutexInv, InLine, NotYetWoken
<1>7. \A u \in Tasks : pc'[u] = "handed" =>
        /\ next'[u] \in Tasks
        /\ pc'[next'[u]] \in {"queued", "asleep"}
        /\ owner'[of'[next'[u]]] = next'[u]
        /\ NotYetWoken(next[u])'
  BY <1>1, <1>3 DEF MutexInv, NotYetWoken
<1>8. ASSUME NEW k \in Locks, owner'[k] # Nil
      PROVE  pc'[owner'[k]] \in {"queued", "asleep", "in"} /\ of'[owner'[k]] = k
  <2>1. /\ owner'[k] = owner[k] /\ owner[k] \in Tasks
        /\ pc[owner[k]] \in {"queued", "asleep", "in"} /\ of[owner[k]] = k
    BY <1>1, <1>2, <1>8 DEF MutexInv, TypeOK
  <2> QED
    BY <1>1, <1>3, <2>1, Zenon
<1>9. \A u \in wakePending' : pc'[u] = "queued" /\ owner'[of'[u]] = u
  BY <1>1, <1>2, <1>3 DEF MutexInv, TypeOK
<1>10. \A u \in Tasks : pc'[u] = "in" \/ Runs(u, "asleep")' => owner'[of'[u]] = u
  BY <1>1, <1>3 DEF MutexInv, Runs
<1>11. \A u \in blocked' : pc'[u] = "asleep"
  BY <1>1, <1>2, <1>3 DEF MutexInv, TypeOK
<1>12. /\ \A u \in Tasks : pc'[u] \in {"queued", "asleep", "in"} => of'[u] \in Locks
       /\ \A u \in Tasks : pc'[u] # "panic"
       /\ \A k \in Locks : \A i, j \in 1 .. Len(waiters'[k]) : waiters'[k][i] = waiters'[k][j] => i = j
       /\ \A u, v \in Tasks : pc'[u] = "handed" /\ pc'[v] = "handed" /\ next'[u] = next'[v] => u = v
  BY <1>1, <1>3 DEF MutexInv
<1> QED
  BY <1>4, <1>6, <1>7, <1>8, <1>9, <1>10, <1>11, <1>12, Zenon DEF MutexInv

\* block returns.
LEMMA EnterKeeps ==
  ASSUME MutexInv, NEW t \in Tasks, Enter(t)
  PROVE  MutexInv'
<1>1. /\ pc[t] = "asleep" /\ t \notin blocked
      /\ pc' = [pc EXCEPT ![t] = "in"]
      /\ UNCHANGED <<owner, waiters, blocked, wakePending, of, next>>
  BY Zenon DEF Enter, Runs, Go, sched
<1>2. TypeOK
  BY Zenon DEF MutexInv
<1>3. pc'[t] = "in" /\ \A u \in Tasks : u # t => pc'[u] = pc[u]
  BY <1>1, <1>2, Zenon DEF TypeOK
<1>4. TypeOK'
  BY <1>1, <1>2, Zenon DEF TypeOK, Places
<1>5. \A k \in Locks : \A i \in 1 .. Len(waiters[k]) : waiters[k][i] \in Tasks /\ waiters[k][i] # t
  BY <1>1, WaitersFacts, Zenon DEF NotYetWoken
<1>6. \A u \in Tasks : pc[u] = "handed" => next[u] # t
  BY <1>1 DEF MutexInv, NotYetWoken
<1> QED
  BY <1>1, <1>2, <1>3, <1>4, <1>5, <1>6, MutexAssumption, SMTT(30), Zenon
     DEF MutexInv, InLine, NotYetWoken, Runs, TypeOK

\* The end of lock: it never finds another owner, and hands the lock to the first in line.
LEMMA UnlockKeeps ==
  ASSUME MutexInv, NEW t \in Tasks, Unlock(t)
  PROVE  MutexInv'
<1>1. /\ pc[t] = "in" /\ t \notin blocked
      /\ UNCHANGED <<blocked, wakePending, of>>
  BY Zenon DEF Unlock, Runs, sched
<1>2. TypeOK
  BY Zenon DEF MutexInv
<1>3. PICK l \in Locks : l = of[t] /\ owner[l] = t
  BY <1>1 DEF MutexInv
<1>4. \A k \in Locks : \A i \in 1 .. Len(waiters[k]) : waiters[k][i] \in Tasks /\ waiters[k][i] # t
  BY <1>1, WaitersFacts DEF InLine
<1>5. t \notin wakePending /\ \A u \in Tasks : pc[u] = "handed" => next[u] # t
  BY <1>1, Zenon DEF MutexInv
<1>6. CASE waiters[l] = <<>>
  <2>1. /\ owner' = [owner EXCEPT ![l] = Nil] /\ pc' = [pc EXCEPT ![t] = "out"]
        /\ UNCHANGED <<waiters, next>>
    BY <1>3, <1>6, Zenon DEF Unlock, Go
  <2>2. /\ owner'[l] = Nil /\ \A k \in Locks : k # l => owner'[k] = owner[k]
        /\ pc'[t] = "out" /\ \A u \in Tasks : u # t => pc'[u] = pc[u]
    BY <1>2, <1>3, <2>1, Zenon DEF TypeOK
  <2>3. TypeOK'
    BY <1>1, <1>2, <2>1, Zenon DEF TypeOK, Places
  <2> QED
    BY <1>1, <1>2, <1>3, <1>4, <1>5, <2>1, <2>2, <2>3, MutexAssumption
       DEF MutexInv, InLine, NotYetWoken, Runs, TypeOK
<1>7. CASE waiters[l] # <<>>
  <2>1. /\ owner' = [owner EXCEPT ![l] = Head(waiters[l])]
        /\ pc' = [pc EXCEPT ![t] = "handed"]
        /\ waiters' = [waiters EXCEPT ![l] = Tail(waiters[l])]
        /\ next' = [next EXCEPT ![t] = Head(waiters[l])]
    BY <1>3, <1>7, Zenon DEF Unlock, HandOver, Go
  <2>2. waiters[l] \in Seq(Tasks)
    BY <1>2, <1>3, Zenon DEF TypeOK
  <2>u. PICK u \in Tasks : u = Head(waiters[l])
    BY <1>7, <2>2, LineFacts, Zenon
  <2>3. /\ Len(waiters[l]) > 0 /\ Len(waiters[l]) \in Nat
        /\ u = waiters[l][1] /\ u \in Tasks
        /\ Tail(waiters[l]) \in Seq(Tasks)
        /\ Len(Tail(waiters[l])) = Len(waiters[l]) - 1
        /\ \A i \in 1 .. Len(waiters[l]) - 1 : Tail(waiters[l])[i] = waiters[l][i + 1]
    BY <1>7, <2>2, <2>u, LineFacts, Zenon
  <2>4. /\ owner'[l] = u /\ \A k \in Locks : k # l => owner'[k] = owner[k]
        /\ waiters'[l] = Tail(waiters[l]) /\ \A k \in Locks : k # l => waiters'[k] = waiters[k]
        /\ next'[t] = u /\ \A v \in Tasks : v # t => next'[v] = next[v]
        /\ pc'[t] = "handed" /\ \A v \in Tasks : v # t => pc'[v] = pc[v]
    BY <1>2, <1>3, <2>1, <2>u, Zenon DEF TypeOK
  <2>5. TypeOK'
    BY <1>1, <1>2, <1>3, <2>1, <2>3 DEF TypeOK, Places
  <2>6. u # t /\ InLine(u, l) /\ NotYetWoken(u)
    BY <1>3, <1>4, <2>3 DEF MutexInv
  <2>7. \A i \in 1 .. Len(waiters[l]) - 1 : waiters[l][i + 1] # u
    BY <1>3, <2>3 DEF MutexInv
  <2>8. ASSUME NEW k \in Locks, NEW i \in 1 .. Len(waiters'[k])
        PROVE  /\ InLine(waiters[k][i], k)'
               /\ NotYetWoken(waiters[k][i])'
               /\ owner'[k] # waiters'[k][i]
    <3>1. CASE k = l
      <4>0. waiters'[k] = Tail(waiters[l])
        BY <2>4, <3>1, Zenon
      <4>1. waiters'[k][i] = waiters[l][i + 1] /\ i + 1 \in 1 .. Len(waiters[l])
        BY <2>3, <4>0
      <4>2. i \in 1 .. Len(waiters[l]) - 1
        BY <2>3, <4>0, Zenon
      <4>3. PICK v \in Tasks : v = waiters[l][i + 1]
        BY <1>4, <4>1, Zenon
      <4>4. v # t /\ v # u /\ InLine(v, l) /\ NotYetWoken(v)
        BY <1>4, <2>7, <4>1, <4>2, <4>3 DEF MutexInv
      <4>5. waiters'[k][i] = v
        BY <4>1, <4>3, Zenon
      <4> QED
        BY <1>1, <2>4, <3>1, <4>4, <4>5 DEF InLine, NotYetWoken
    <3>2. CASE k # l
      BY <1>1, <1>4, <2>4, <3>2, SMTT(30), Zenon DEF MutexInv, InLine, NotYetWoken
    <3> QED
      BY <3>1, <3>2, Zenon
  <2>9. \A k \in Locks : \A i, j \in 1 .. Len(waiters'[k]) : waiters'[k][i] = waiters'[k][j] => i = j
    <3> SUFFICES ASSUME NEW k \in Locks, NEW i \in 1 .. Len(waiters'[k]),
                        NEW j \in 1 .. Len(waiters'[k]), waiters'[k][i] = waiters'[k][j]
                 PROVE  i = j
      BY Zenon
    <3>1. CASE k = l
      <4>0. waiters'[k] = Tail(waiters[l])
        BY <2>4, <3>1, Zenon
      <4>1. /\ i + 1 \in 1 .. Len(waiters[l]) /\ j + 1 \in 1 .. Len(waiters[l])
            /\ waiters[l][i + 1] = waiters[l][j + 1]
        BY <2>3, <4>0
      <4>2. \A m, n \in 1 .. Len(waiters[l]) : waiters[l][m] = waiters[l][n] => m = n
        BY <1>3, Zenon DEF MutexInv
      <4>3. i + 1 = j + 1
        BY <4>1, <4>2, Zenon
      <4> QED
        BY <2>3, <4>0, <4>3
    <3>2. CASE k # l
      BY <2>4, <3>2, SMTT(30) DEF MutexInv
    <3> QED
      BY <3>1, <3>2, Zenon
  <2>10. ASSUME NEW v \in Tasks, pc'[v] = "handed"
         PROVE  /\ next'[v] \in Tasks
                /\ pc'[next'[v]] \in {"queued", "asleep"}
                /\ owner'[of'[next'[v]]] = next'[v]
                /\ NotYetWoken(next[v])'
                /\ v # t => next'[v] # u
    <3>1. CASE v = t
      BY <1>1, <2>3, <2>4, <2>6, <3>1, Zenon DEF InLine, NotYetWoken
    <3>2. CASE v # t
      <4>1. /\ pc[v] = "handed" /\ next'[v] = next[v] /\ next[v] \in Tasks /\ next[v] # t
            /\ pc[next[v]] \in {"queued", "asleep"} /\ owner[of[next[v]]] = next[v]
            /\ NotYetWoken(next[v]) /\ of[next[v]] \in Locks
        BY <1>5, <2>4, <2>10, <3>2 DEF MutexInv
      <4>2. of[next[v]] # l
        BY <1>3, <4>1, Zenon
      <4>3. next[v] # u
        BY <2>6, <4>2, Zenon DEF InLine
      <4> QED
        BY <1>1, <2>4, <4>1, <4>2, <4>3, Zenon DEF NotYetWoken
    <3> QED
      BY <3>1, <3>2, Zenon
  <2>11. \A v, w \in Tasks : pc'[v] = "handed" /\ pc'[w] = "handed" /\ next'[v] = next'[w] => v = w
    BY <2>4, <2>10, SMTT(60), Zenon DEF MutexInv
  <2>12. \A v \in Tasks : pc'[v] \in {"queued", "asleep", "in"} => of'[v] \in Locks
    BY <1>1, <2>4, SMTT(30), Zenon DEF MutexInv
  <2>13. ASSUME NEW v \in Tasks, pc'[v] = "in" \/ Runs(v, "asleep")' PROVE owner'[of'[v]] = v
    <3>1. v # t /\ (pc[v] = "in" \/ Runs(v, "asleep"))
      BY <1>1, <2>4, <2>13, Zenon DEF Runs
    <3>2. of[v] \in Locks /\ owner[of[v]] = v
      BY <3>1, Zenon DEF MutexInv, Runs
    <3> QED
      BY <1>1, <1>3, <2>4, <3>1, <3>2, Zenon
  <2>14. \A v \in Tasks : pc'[v] # "panic"
    BY <2>4, SMTT(30), Zenon DEF MutexInv
  <2>15. ASSUME NEW k \in Locks, owner'[k] # Nil
         PROVE  pc'[owner'[k]] \in {"queued", "asleep", "in"} /\ of'[owner'[k]] = k
    <3>1. CASE k = l
      BY <1>1, <2>4, <2>6, <3>1, Zenon DEF InLine
    <3>2. CASE k # l
      <4>1. owner'[k] = owner[k] /\ owner[k] \in Tasks
        BY <1>2, <2>4, <2>15, <3>2 DEF TypeOK
      <4>2. pc[owner[k]] \in {"queued", "asleep", "in"} /\ of[owner[k]] = k
        BY <2>15, <4>1, Zenon DEF MutexInv
      <4>3. owner[k] # t
        BY <1>3, <3>2, <4>2, Zenon
      <4> QED
        BY <1>1, <2>4, <4>1, <4>2, <4>3, Zenon
    <3> QED
      BY <3>1, <3>2, Zenon
  <2>16. \A v \in blocked' : pc'[v] = "asleep"
    BY <1>1, <1>2, <2>4 DEF MutexInv, TypeOK
  <2>17. ASSUME NEW v \in wakePending' PROVE pc'[v] = "queued" /\ owner'[of'[v]] = v
    <3>1. v \in Tasks /\ v # t /\ pc[v] = "queued" /\ of[v] \in Locks /\ owner[of[v]] = v
      BY <1>1, <1>2, <1>5, Zenon DEF MutexInv, TypeOK
    <3> QED
      BY <1>1, <1>3, <2>4, <3>1, Zenon
  <2> QED
    BY <2>5, <2>8, <2>9, <2>10, <2>11, <2>12, <2>13, <2>14, <2>15, <2>16, <2>17, Zenon DEF MutexInv
<1> QED
  BY <1>6, <1>7, Zenon

\* sched::wake: the one wake-up of the task that was handed the lock.
LEMMA WakeKeeps ==
  ASSUME MutexInv, NEW t \in Tasks, Wake(t)
  PROVE  MutexInv'
<1> DEFINE u == next[t]
<1>1. /\ pc[t] = "handed" /\ t \notin blocked
      /\ IF u \in blocked
         THEN blocked' = blocked \ {u} /\ UNCHANGED wakePending
         ELSE wakePending' = wakePending \cup {u} /\ UNCHANGED blocked
      /\ next' = [next EXCEPT ![t] = Nil]
      /\ pc' = [pc EXCEPT ![t] = "out"]
      /\ UNCHANGED <<owner, waiters, of>>
  BY Zenon DEF Wake, Runs, Go
<1>2. TypeOK
  BY Zenon DEF MutexInv
<1>3. /\ u \in Tasks /\ pc[u] \in {"queued", "asleep"} /\ owner[of[u]] = u /\ NotYetWoken(u)
      /\ of[u] \in Locks /\ u # t
  BY <1>1, Zenon DEF MutexInv
<1> HIDE DEF u
<1>4. /\ pc'[t] = "out" /\ \A v \in Tasks : v # t => pc'[v] = pc[v] /\ next'[v] = next[v]
  BY <1>1, <1>2, Zenon DEF TypeOK
<1>5. TypeOK'
  BY <1>1, <1>2, <1>3, Zenon DEF TypeOK, Places
<1>6. \A k \in Locks : \A i \in 1 .. Len(waiters[k]) :
        waiters[k][i] \in Tasks /\ waiters[k][i] # t /\ waiters[k][i] # u
  BY <1>1, <1>3, WaitersFacts DEF InLine
<1>7. \A v \in Tasks : pc[v] = "handed" => next[v] # t /\ (v # t => next[v] # u)
  BY <1>1, <1>3 DEF MutexInv, u
<1>8. IF pc[u] = "asleep" THEN blocked' = blocked \ {u} /\ wakePending' = wakePending
      ELSE wakePending' = wakePending \cup {u} /\ blocked' = blocked
  BY <1>1, <1>3, Zenon DEF MutexInv, NotYetWoken
<1>9. \A k \in Locks : \A i \in 1 .. Len(waiters'[k]) :
        /\ InLine(waiters[k][i], k)'
        /\ NotYetWoken(waiters[k][i])'
        /\ owner'[k] # waiters'[k][i]
  BY <1>1, <1>4, <1>6, <1>8, SMTT(30), Zenon DEF MutexInv, InLine, NotYetWoken
<1>10. \A v \in Tasks : pc'[v] = "handed" =>
         /\ next'[v] \in Tasks
         /\ pc'[next'[v]] \in {"queued", "asleep"}
         /\ owner'[of'[next'[v]]] = next'[v]
         /\ NotYetWoken(next[v])'
  BY <1>1, <1>4, <1>7, <1>8 DEF MutexInv, NotYetWoken
<1>11. ASSUME NEW k \in Locks, owner'[k] # Nil
       PROVE  pc'[owner'[k]] \in {"queued", "asleep", "in"} /\ of'[owner'[k]] = k
  <2>1. /\ owner'[k] = owner[k] /\ owner[k] \in Tasks
        /\ pc[owner[k]] \in {"queued", "asleep", "in"} /\ of[owner[k]] = k
    BY <1>1, <1>2, <1>11, SMTT(30), Zenon DEF MutexInv, TypeOK
  <2> QED
    BY <1>1, <1>4, <2>1, Zenon
<1>12. \A v \in wakePending' : pc'[v] = "queued" /\ owner'[of'[v]] = v
  BY <1>1, <1>2, <1>3, <1>4, <1>8, SMTT(30), Zenon DEF MutexInv, TypeOK
<1>13. \A v \in Tasks : pc'[v] = "in" \/ Runs(v, "asleep")' => owner'[of'[v]] = v
  BY <1>1, <1>3, <1>4, <1>8, SMTT(30), Zenon DEF MutexInv, Runs
<1>14. \A v \in blocked' : pc'[v] = "asleep"
  BY <1>1, <1>2, <1>3, <1>4, <1>8, SMTT(30), Zenon DEF MutexInv, TypeOK
<1>15. /\ \A v \in Tasks : pc'[v] \in {"queued", "asleep", "in"} => of'[v] \in Locks
       /\ \A v \in Tasks : pc'[v] # "panic"
       /\ \A k \in Locks : \A i, j \in 1 .. Len(waiters'[k]) : waiters'[k][i] = waiters'[k][j] => i = j
       /\ \A v, w \in Tasks : pc'[v] = "handed" /\ pc'[w] = "handed" /\ next'[v] = next'[w] => v = w
  BY <1>1, <1>4, SMTT(30), Zenon DEF MutexInv
<1> QED
  BY <1>5, <1>9, <1>10, <1>11, <1>12, <1>13, <1>14, <1>15, Zenon DEF MutexInv

\* Every step keeps the invariant.
LEMMA MutexNext == MutexInv /\ [Next]_vars => MutexInv'
<1> SUFFICES ASSUME MutexInv, [Next]_vars PROVE MutexInv'
  BY Zenon
<1>1. CASE Next
  BY <1>1, AcquireKeeps, BlockKeeps, EnterKeeps, UnlockKeeps, WakeKeeps, Zenon DEF Next, Proceed
<1>2. CASE UNCHANGED vars
  BY <1>2 DEF vars, MutexInv, TypeOK, InLine, NotYetWoken, Runs
<1> QED
  BY <1>1, <1>2, Zenon

\* The invariant holds in every behaviour.
THEOREM MutexInvariant == Spec => []MutexInv
  BY MutexInit, MutexNext, PTL DEF Spec

\* Mutex::lock excludes, for any number of tasks and locks.
THEOREM MutexExcludes == Spec => []Exclusion
<1>1. MutexInv => Exclusion
  BY SMTT(30), Zenon DEF MutexInv, Exclusion
<1> QED
  BY <1>1, MutexInvariant, PTL

\* The debug_assert of Mutex::lock holds, and its unlock is always the owner's.
THEOREM MutexReturnsToOwner == Spec => []BlockReturnsToOwner
<1>1. MutexInv => BlockReturnsToOwner
  BY Zenon DEF MutexInv, BlockReturnsToOwner
<1> QED
  BY <1>1, MutexInvariant, PTL
-----------------------------------------------------------------------------
(* The sleeping lock implements the lock with a line.                      *)

\* No one waits for a lock no one has.
LineInv == \A l \in Locks : owner[l] = Nil => waiters[l] = <<>>

\* The lock with a line, seen from Mutex.
TheLine == IF owner[Some] = Nil THEN <<>> ELSE <<owner[Some]>> \o waiters[Some]
TheInside == {t \in Tasks : pc[t] = "in" /\ of[t] = Some}

\* Joining a line at its end.
LEMMA JoinLine ==
  \A S : \A w \in Seq(S), o, t \in S : Append(<<o>> \o w, t) = <<o>> \o Append(w, t)
  OBVIOUS

\* The front of a line, and what is behind it.
LEMMA FrontOfLine ==
  \A S : \A w \in Seq(S), o \in S :
    Head(<<o>> \o w) = o /\ Tail(<<o>> \o w) = w /\ <<o>> \o w # <<>>
  OBVIOUS

\* The next in line becomes its front.
LEMMA NextInLine == \A S : \A w \in Seq(S) : w # <<>> => <<Head(w)>> \o Tail(w) = w
  OBVIOUS

\* Who is in a line: its front, or someone behind it.
LEMMA WhoIsInLine ==
  \A S : \A w \in Seq(S), o \in S : \A i \in DOMAIN (<<o>> \o w) :
    (<<o>> \o w)[i] = o \/ \E j \in 1 .. Len(w) : (<<o>> \o w)[i] = w[j]
  OBVIOUS

\* No one waits for a lock no one has, after any step.
LEMMA LineInvKept == MutexInv /\ LineInv /\ [Next]_vars => LineInv'
<1> SUFFICES ASSUME MutexInv, LineInv, [Next]_vars PROVE LineInv'
  BY Zenon
<1>0. TypeOK
  BY Zenon DEF MutexInv
<1>1. ASSUME NEW t \in Tasks, NEW l \in Locks, Acquire(t, l) PROVE LineInv'
  BY <1>0, <1>1, MutexAssumption, Zenon DEF Acquire, LineInv, TypeOK
<1>2. ASSUME NEW t \in Tasks, Unlock(t) PROVE LineInv'
  <2>1. of[t] \in Locks /\ waiters[of[t]] \in Seq(Tasks)
    BY <1>0, <1>2 DEF MutexInv, Unlock, Runs, TypeOK
  <2>2. waiters[of[t]] # <<>> => Head(waiters[of[t]]) # Nil
    BY <2>1, LineFacts, MutexAssumption, SMTT(30), Zenon
  <2> QED
    BY <1>0, <1>2, <2>1, <2>2, Zenon DEF Unlock, HandOver, LineInv, TypeOK
<1>3. ASSUME NEW t \in Tasks, Block(t) \/ Enter(t) \/ Wake(t) PROVE LineInv'
  BY <1>3, Zenon DEF Block, Enter, Wake, LineInv
<1>4. CASE UNCHANGED vars
  BY <1>4, Zenon DEF vars, LineInv
<1> QED
  BY <1>1, <1>2, <1>3, <1>4, Zenon DEF Next, Proceed

\* Every step is a step of the lock with a line, or none.
LEMMA StepImplements ==
  MutexInv /\ LineInv /\ [Next]_vars => [Line!Next]_(Line!vars)
<1> SUFFICES ASSUME MutexInv, LineInv, [Next]_vars
             PROVE  Line!Next \/ (TheLine' = TheLine /\ TheInside' = TheInside)
  BY Zenon DEF Line!vars, TheLine, TheInside
<1>0. TypeOK /\ Some \in Locks
  BY MutexAssumption, Zenon DEF MutexInv, Some
<1>1. \A t \in Tasks : pc[t] = "in" /\ of[t] = Some => owner[Some] = t
  BY DEF MutexInv
<1>2. ASSUME NEW t \in Tasks, NEW l \in Locks, Acquire(t, l)
      PROVE  Line!Next \/ (TheLine' = TheLine /\ TheInside' = TheInside)
  <2>1. pc[t] = "out" /\ of' = [of EXCEPT ![t] = l]
    BY <1>2, Zenon DEF Acquire, Runs
  <2>2. CASE l # Some
    <3>1. owner'[Some] = owner[Some] /\ waiters'[Some] = waiters[Some]
      BY <1>0, <1>2, <2>2, Zenon DEF Acquire, TypeOK
    <3>2. TheInside' = TheInside
      BY <1>0, <1>2, <2>1, <2>2, SMTT(30), Zenon DEF Acquire, Go, TheInside, TypeOK
    <3> QED
      BY <3>1, <3>2, Zenon DEF TheLine
  <2>3. CASE l = Some /\ owner[Some] = Nil
    <3>1. TheLine = <<>> /\ TheInside = {}
      BY <1>1, <2>3, MutexAssumption, Zenon DEF TheLine, TheInside
    <3>2. owner'[Some] = t /\ waiters'[Some] = <<>>
      BY <1>0, <1>2, <2>3 DEF Acquire, TypeOK, LineInv
    <3>3. TheLine' = Append(TheLine, t)
      <4>1. TheLine' = <<t>> \o <<>>
        BY <3>2, MutexAssumption, Zenon DEF TheLine
      <4>2. <<t>> \o <<>> = Append(<<>>, t)
        OBVIOUS
      <4> QED
        BY <3>1, <4>1, <4>2, Zenon
    <3>4. TheInside' = {t}
      <4>1. /\ \A u \in Tasks : u # t => pc'[u] = pc[u] /\ of'[u] = of[u]
            /\ pc'[t] = "in" /\ of'[t] = Some
        BY <1>0, <1>2, <2>1, <2>3, Zenon DEF Acquire, Go, TypeOK
      <4> QED
        BY <3>1, <4>1, Zenon DEF TheInside
    <3>5. \A i \in DOMAIN TheLine : TheLine[i] # t
      BY <3>1
    <3>6. \E first \in BOOLEAN :
            TheInside' = IF first /\ TheLine = <<>> THEN {t} ELSE TheInside
      <4>1. TheInside' = IF TRUE /\ TheLine = <<>> THEN {t} ELSE TheInside
        BY <3>1, <3>4, Zenon
      <4> QED
        BY <4>1, Zenon
    <3>7. Line!Join(t)
      BY <3>3, <3>5, <3>6, Zenon DEF TheLine, TheInside, Line!Join
    <3> QED
      BY <3>7, Zenon DEF Line!Next
  <2>4. CASE l = Some /\ owner[Some] # Nil
    <3>1. /\ waiters[Some] \in Seq(Tasks) /\ owner[Some] \in Tasks
          /\ owner'[Some] = owner[Some] /\ waiters'[Some] = Append(waiters[Some], t)
      BY <1>0, <1>2, <2>4, Zenon DEF Acquire, TypeOK
    <3>2. TheLine' = Append(TheLine, t)
      <4>1. TheLine = <<owner[Some]>> \o waiters[Some]
        BY <2>4, Zenon DEF TheLine
      <4>2. TheLine' = <<owner[Some]>> \o Append(waiters[Some], t)
        BY <2>4, <3>1, Zenon DEF TheLine
      <4> QED
        BY <3>1, <4>1, <4>2, JoinLine, Zenon
    <3>3. TheInside' = TheInside
      <4>1. /\ \A u \in Tasks : u # t => pc'[u] = pc[u] /\ of'[u] = of[u]
            /\ pc'[t] = "queued"
        BY <1>0, <1>2, <2>1, <2>4, Zenon DEF Acquire, Go, TypeOK
      <4> QED
        BY <2>1, <4>1, Zenon DEF TheInside
    <3>4. owner[Some] # t /\ \A j \in 1 .. Len(waiters[Some]) : waiters[Some][j] # t
      BY <1>0, <2>1, <2>4, SMTT(30), Zenon DEF MutexInv, InLine
    <3>5. \A i \in DOMAIN TheLine : TheLine[i] # t
      <4> DEFINE o == owner[Some]
                 w == waiters[Some]
      <4>1. TheLine = <<o>> \o w /\ w \in Seq(Tasks) /\ o \in Tasks
        BY <2>4, <3>1, Zenon DEF TheLine
      <4>2. o # t /\ \A j \in 1 .. Len(w) : w[j] # t
        BY <3>4, Zenon
      <4> HIDE DEF o, w
      <4>3. \A i \in DOMAIN (<<o>> \o w) :
              (<<o>> \o w)[i] = o \/ \E j \in 1 .. Len(w) : (<<o>> \o w)[i] = w[j]
        BY <4>1, WhoIsInLine
      <4> HIDE DEF TheLine
      <4> QED
        BY <4>1, <4>2, <4>3, Zenon
    <3>6. Line!Join(t)
      BY <3>2, <3>3, <3>5, Zenon DEF TheLine, TheInside, Line!Join
    <3> QED
      BY <3>6, Zenon DEF Line!Next
  <2> QED
    BY <2>2, <2>3, <2>4, Zenon
<1>3. ASSUME NEW t \in Tasks, Block(t) \/ Wake(t)
      PROVE  TheLine' = TheLine /\ TheInside' = TheInside
  <2>1. UNCHANGED <<owner, waiters, of>>
    BY <1>3, Zenon DEF Block, Wake
  <2>2. \A u \in Tasks : pc'[u] = "in" <=> pc[u] = "in"
    BY <1>0, <1>3, Zenon DEF Block, Wake, Go, Runs, TypeOK
  <2> QED
    BY <2>1, <2>2, Zenon DEF TheLine, TheInside
<1>4. ASSUME NEW t \in Tasks, Enter(t)
      PROVE  Line!Next \/ (TheLine' = TheLine /\ TheInside' = TheInside)
  <2>1. /\ pc[t] = "asleep" /\ owner[of[t]] = t /\ UNCHANGED <<owner, waiters, of>>
        /\ pc'[t] = "in" /\ \A u \in Tasks : u # t => pc'[u] = pc[u]
    BY <1>0, <1>4, SMTT(30), Zenon DEF Enter, Go, Runs, MutexInv, TypeOK
  <2>2. TheLine' = TheLine
    BY <2>1, Zenon DEF TheLine
  <2>3. CASE of[t] # Some
    BY <2>1, <2>2, <2>3, Zenon DEF TheInside
  <2>4. CASE of[t] = Some
    <3>1. TheInside = {} /\ TheInside' = {t}
      BY <1>1, <2>1, <2>4, SMTT(30), Zenon DEF TheInside
    <3>2. TheLine # <<>> /\ Head(TheLine) = t
      <4>1. owner[Some] = t /\ waiters[Some] \in Seq(Tasks)
        BY <1>0, <2>1, <2>4, Zenon DEF TypeOK
      <4> QED
        <5>1. TheLine = <<t>> \o waiters[Some]
          BY <4>1, MutexAssumption, Zenon DEF TheLine
        <5> QED
          BY <4>1, <5>1, FrontOfLine, Zenon
    <3>3. Line!Enter(t)
      BY <2>2, <3>1, <3>2, Zenon DEF TheLine, TheInside, Line!Enter
    <3> QED
      BY <3>3, Zenon DEF Line!Next
  <2> QED
    BY <2>3, <2>4, Zenon
<1>5. ASSUME NEW t \in Tasks, Unlock(t)
      PROVE  Line!Next \/ (TheLine' = TheLine /\ TheInside' = TheInside)
  <2>1. PICK l \in Locks : l = of[t] /\ owner[l] = t /\ pc[t] = "in"
    BY <1>5, Zenon DEF Unlock, Runs, MutexInv
  <2>2. waiters[l] \in Seq(Tasks)
    BY <1>0, Zenon DEF TypeOK
  <2>3. /\ of' = of
        /\ \A u \in Tasks : u # t => pc'[u] = pc[u]
        /\ pc'[t] # "in"
    BY <1>0, <1>5, <2>1, Zenon DEF Unlock, HandOver, Go, TypeOK
  <2>4. IF waiters[l] # <<>>
        THEN owner' = [owner EXCEPT ![l] = Head(waiters[l])]
             /\ waiters' = [waiters EXCEPT ![l] = Tail(waiters[l])]
        ELSE owner' = [owner EXCEPT ![l] = Nil] /\ waiters' = waiters
    BY <1>5, <2>1, Zenon DEF Unlock, HandOver
  <2>5. CASE l # Some
    <3>1. owner'[Some] = owner[Some] /\ waiters'[Some] = waiters[Some]
      BY <1>0, <2>4, <2>5, Zenon DEF TypeOK
    <3>2. TheInside' = TheInside
      BY <2>1, <2>3, <2>5, Zenon DEF TheInside
    <3> QED
      BY <3>1, <3>2, Zenon DEF TheLine
  <2>6. CASE l = Some
    <3>1. TheLine = <<t>> \o waiters[Some]
      BY <2>1, <2>6, MutexAssumption, SMTT(30), Zenon DEF TheLine
    <3>2. Tail(TheLine) = waiters[Some]
      BY <2>2, <2>6, <3>1, FrontOfLine, Zenon
    <3>3. TheLine' = waiters[Some]
      <4>1. CASE waiters[Some] = <<>>
        BY <1>0, <2>4, <2>6, <4>1, Zenon DEF TheLine, TypeOK
      <4>2. CASE waiters[Some] # <<>>
        <5>1. owner'[Some] = Head(waiters[Some]) /\ waiters'[Some] = Tail(waiters[Some])
          BY <1>0, <2>4, <2>6, <4>2, Zenon DEF TypeOK
        <5>2. Head(waiters[Some]) \in Tasks /\ Head(waiters[Some]) # Nil
          BY <2>2, <2>6, <4>2, LineFacts, MutexAssumption, SMTT(30), Zenon
        <5>3. <<Head(waiters[Some])>> \o Tail(waiters[Some]) = waiters[Some]
          BY <2>2, <2>6, <4>2, NextInLine, Zenon
        <5> QED
          BY <5>1, <5>2, <5>3, Zenon DEF TheLine
      <4> QED
        BY <4>1, <4>2, Zenon
    <3>4. TheInside = {t} /\ TheInside' = {}
      BY <1>1, <2>1, <2>3, <2>6, Zenon DEF TheInside
    <3>5. Line!Leave(t)
      BY <3>2, <3>3, <3>4, Zenon DEF TheLine, TheInside, Line!Leave
    <3> QED
      BY <3>5, Zenon DEF Line!Next
  <2> QED
    BY <2>5, <2>6, Zenon
<1>6. CASE UNCHANGED vars
  BY <1>6, Zenon DEF vars, TheLine, TheInside
<1> QED
  BY <1>2, <1>3, <1>4, <1>5, <1>6, Zenon DEF Next, Proceed

\* Mutex implements the abstract lock, its safety: one task inside at a time, in the order
\* they came.
THEOREM MutexImplements == Spec => ImplementsFifoLock
<1>1. Init => Line!Init /\ LineInv
  BY MutexAssumption, Zenon DEF Init, Line!Init, LineInv, Some
<1> QED
  BY <1>1, MutexInvariant, LineInvKept, StepImplements, PTL DEF Spec, ImplementsFifoLock, Line!Spec
=============================================================================
