----------------------- MODULE SyncReaderwriterProofs -----------------------
(***************************************************************************)
(* Proofs about the reader-writer lock, for any number of processes, any   *)
(* number of calls and any waiting times.                                  *)
(***************************************************************************)
EXTENDS SyncReaderwriter, FiniteSetTheorems, TLAPS

(***************************************************************************)
(* The tables of the waits, entry by entry.                                *)
(***************************************************************************)
Waits == {"rW", "rR", "uR", "wW", "wE"}

\* The table of the waits has five entries, with these values.
LEMMA WaitTables ==
  /\ DOMAIN WaitsFor = Waits
  /\ WaitsFor["rW"] = "W" /\ WaitsFor["wW"] = "W"
  /\ WaitsFor["rR"] = "R" /\ WaitsFor["uR"] = "R"
  /\ WaitsFor["wE"] = "E"
  /\ Then["rW"] = "rR" /\ Then["wW"] = "wE"
  /\ Then["rR"] = "rReset" /\ Then["uR"] = "uDec"
  /\ Then["wE"] = "idle"
  /\ Else["rW"] = "idle" /\ Else["wW"] = "idle"
  /\ Else["rR"] = "giveW" /\ Else["uR"] = "idle"
  /\ Else["wE"] = "giveW"
  BY DEF WaitsFor, Then, Else, Waits

\* A step of a process that waits leads to a place of the program.
LEMMA WaitPlaces ==
  ASSUME NEW l \in Waits
  PROVE  WaitsFor[l] \in Conds /\ Then[l] \in Places /\ Else[l] \in Places
  BY WaitTables DEF Waits, Conds, Places

-----------------------------------------------------------------------------
(***************************************************************************)
(* Types and the semaphore R.  The count of readers is a natural number    *)
(* because a process that takes one off has found it positive and has kept *)
(* everybody else away since: so the types, the ownership of R and what    *)
(* the processes remember of the count are one invariant.                  *)
(***************************************************************************)
RPath == {"rReset", "rInc", "rStore", "rGiveR", "uDec", "uLoad", "uStore",
          "uTest", "uFire", "giveR"}
HasR(p) == pc[p] \in RPath

\* While a process has R the semaphore is taken, and it is the only one.
OwnersR ==
  /\ \A p \in Procs : HasR(p) => count["R"] = 0
  /\ \A p, q \in Procs : HasR(p) /\ HasR(q) => p = q

\* What a process has read of the count is what the count is, until it writes.
Loaded ==
  \A p \in Procs :
    /\ pc[p] \in {"rStore", "uStore"} => temp[p] = RCount
    /\ pc[p] \in {"uLoad", "uStore"} => RCount > 0

RInv == RWTypeOK /\ OwnersR /\ Loaded

\* Releasing a semaphore keeps the types of what it changes.
LEMMA ReleaseTyped ==
  ASSUME RWTypeOK, NEW s \in Sems, dao_semaphore_release(s)
  PROVE  /\ count' \in [Sems -> 0..1]
         /\ asleep' \in [Conds -> SUBSET Procs]
         /\ woken' \subseteq Procs
         /\ missed' \subseteq Sems
  <1>1. count' \in [Sems -> 0..1] /\ missed' \subseteq Sems
    BY DEF RWTypeOK, dao_semaphore_release
  <1>2. s \in Conds
    BY DEF Sems, Conds
  <1>3. CASE UNCHANGED <<asleep, woken>>
    BY <1>1, <1>3 DEF RWTypeOK
  <1>4. CASE \E q \in asleep[s] :
               /\ asleep' = [asleep EXCEPT ![s] = @ \ {q}]
               /\ woken' = woken \cup {q}
    BY <1>1, <1>2, <1>4 DEF RWTypeOK
  <1> QED
    BY <1>3, <1>4 DEF dao_semaphore_release

\* The steps inside of a wait: where they lead.
LEMMA WaitStep ==
  ASSUME RWTypeOK, NEW p \in Procs,
         \/ dao_semaphore_wait(p) \/ dao_event_wait(p) \/ CondWait(p)
         \/ WaitFails(p) \/ Timeout(p) \/ SpuriousWakeup(p)
  PROVE  /\ Waiting(p) /\ pc[p] \in Waits /\ Cond(p) \in Conds
         /\ Then[pc[p]] \in Places /\ Else[pc[p]] \in Places
         /\ UNCHANGED <<RCount, temp, ReadLocks, held, calls>>
  <1>1. Waiting(p)
    BY DEF dao_semaphore_wait, dao_event_wait, CondWait, WaitFails, Timeout,
           SpuriousWakeup, Awake
  <1>2. UNCHANGED <<RCount, temp, ReadLocks, held, calls>>
    BY DEF dao_semaphore_wait, dao_event_wait, CondWait, WaitFails, Timeout,
           SpuriousWakeup
  <1> QED
    BY <1>1, <1>2, WaitTables, WaitPlaces DEF Waiting, Cond

\* Every step keeps the types.
LEMMA StepTyped ==
  ASSUME RWTypeOK, Loaded, [Next]_vars
  PROVE  RWTypeOK'
  <1> USE ReaderwriterAssumption
  <1>1. CASE UNCHANGED vars
    BY <1>1 DEF RWTypeOK, vars
  <1>2. ASSUME NEW p \in Procs,
               \/ dao_semaphore_wait(p) \/ dao_event_wait(p) \/ CondWait(p)
               \/ WaitFails(p) \/ Timeout(p) \/ SpuriousWakeup(p)
        PROVE  RWTypeOK'
    <2>1. /\ pc[p] \in Waits /\ Cond(p) \in Conds /\ Then[pc[p]] \in Places
          /\ Else[pc[p]] \in Places
      BY <1>2, WaitStep
    <2>2. CASE dao_semaphore_wait(p)
      BY <2>1, <2>2 DEF dao_semaphore_wait, Goto, RWTypeOK, Sems
    <2>3. CASE dao_event_wait(p)
      BY <2>1, <2>3 DEF dao_event_wait, Goto, RWTypeOK
    <2>4. CASE CondWait(p)
      BY <2>1, <2>4 DEF CondWait, RWTypeOK
    <2>5. CASE WaitFails(p)
      BY <2>1, <2>5 DEF WaitFails, Goto, RWTypeOK
    <2>6. CASE Timeout(p)
      BY <2>1, <2>6 DEF Timeout, Goto, RWTypeOK
    <2>7. CASE SpuriousWakeup(p)
      BY <2>1, <2>7 DEF SpuriousWakeup, RWTypeOK
    <2> QED
      BY <1>2, <2>2, <2>3, <2>4, <2>5, <2>6, <2>7
  <1>3. ASSUME NEW p \in Procs, NEW place \in {"rW", "wW"},
               NEW w \in Amounts[p], LockCall(p, place, w)
        PROVE  RWTypeOK'
    <2>1. w \in {"INFINITE", "some", "none"} /\ place \in Places
      BY <1>3 DEF Places
    <2> QED
      BY <1>3, <2>1 DEF LockCall, Goto, RWTypeOK
  <1>4. ASSUME NEW p \in Procs,
               \/ dao_event_reset(p) \/ readunlock(p) \/ ReadunlockOwn(p)
               \/ LastReader(p) \/ LoadCount(p)
        PROVE  RWTypeOK'
    <2>1. CASE dao_event_reset(p) \/ readunlock(p)
      BY <2>1 DEF dao_event_reset, readunlock, Goto, RWTypeOK, Places
    <2>2. CASE ReadunlockOwn(p)
      BY <2>2 DEF ReadunlockOwn, Goto, RWTypeOK, Places
    <2>3. CASE LastReader(p)
      BY <2>3 DEF LastReader, Goto, RWTypeOK, Places
    <2>4. CASE LoadCount(p)
      BY <2>4 DEF LoadCount, Goto, RWTypeOK, Places
    <2> QED
      BY <1>4, <2>1, <2>2, <2>3, <2>4
  <1>5. ASSUME NEW p \in Procs, ReadlockCounts(p)
        PROVE  RWTypeOK'
    BY <1>5 DEF ReadlockCounts, Goto, RWTypeOK, Places
  <1>6. ASSUME NEW p \in Procs, ReadunlockCounts(p)
        PROVE  RWTypeOK'
    <2>1. temp[p] \in Nat /\ temp[p] > 0
      BY <1>6 DEF ReadunlockCounts, Loaded, RWTypeOK
    <2> QED
      BY <1>6, <2>1 DEF ReadunlockCounts, Goto, RWTypeOK, Places
  <1>7. ASSUME NEW p \in Procs, ReleaseW(p) \/ ReleaseR(p) \/ writeunlock(p)
        PROVE  RWTypeOK'
    <2>1. /\ count' \in [Sems -> 0..1] /\ woken' \subseteq Procs
          /\ asleep' \in [Conds -> SUBSET Procs] /\ missed' \subseteq Sems
      BY <1>7, ReleaseTyped DEF ReleaseW, ReleaseR, writeunlock, Sems
    <2>2. CASE ReleaseW(p)
      BY <2>1, <2>2 DEF ReleaseW, Goto, RWTypeOK, Places
    <2>3. CASE ReleaseR(p)
      BY <2>1, <2>3 DEF ReleaseR, Goto, RWTypeOK, Places
    <2>4. CASE writeunlock(p)
      BY <2>1, <2>4 DEF writeunlock, RWTypeOK
    <2> QED
      BY <1>7, <2>2, <2>3, <2>4
  <1>8. ASSUME NEW p \in Procs, dao_event_fire(p)
        PROVE  RWTypeOK'
    BY <1>8 DEF dao_event_fire, Goto, RWTypeOK, Places, Conds
  <1>9. ASSUME NEW p \in Procs, free_handler(p)
        PROVE  RWTypeOK'
    BY <1>9 DEF free_handler, Goto, RWTypeOK, Places
  <1> QED
    BY <1>1, <1>2, <1>3, <1>4, <1>5, <1>6, <1>7, <1>8, <1>9 DEF Next, Proc

\* Every step keeps the ownership of R: it is taken by a process that found it
\* free, and released by the one that has it - unlocking without a lock, too,
\* waits for R first.
LEMMA StepOwnersR ==
  ASSUME RWTypeOK, OwnersR, [Next]_vars
  PROVE  OwnersR'
  <1> USE DEF HasR, RPath
  <1>1. CASE UNCHANGED vars
    BY <1>1 DEF OwnersR, vars
  <1>2. ASSUME NEW p \in Procs, dao_semaphore_wait(p)
        PROVE  OwnersR'
    <2>1. /\ pc[p] \in {"rW", "wW", "rR", "uR"} /\ Cond(p) \in Sems
          /\ pc[p] \in {"rW", "wW"} => Cond(p) = "W" /\ Then[pc[p]] \in {"rR", "wE"}
          /\ pc[p] \in {"rR", "uR"} => Cond(p) = "R"
      BY <1>2, WaitTables
         DEF dao_semaphore_wait, Awake, Waiting, Cond, Sems, Waits
    <2>2. count[Cond(p)] > 0 /\ count' = [count EXCEPT ![Cond(p)] = @ - 1]
          /\ pc' = [pc EXCEPT ![p] = Then[pc[p]]]
      BY <1>2 DEF dao_semaphore_wait, Goto
    <2>3. CASE pc[p] \in {"rW", "wW"}
      <3>1. count'["R"] = count["R"]
        BY <2>1, <2>2, <2>3 DEF RWTypeOK, Sems
      <3> QED
        BY <2>1, <2>2, <2>3, <3>1 DEF OwnersR, RWTypeOK
    <2>4. CASE pc[p] \in {"rR", "uR"}
      <3>1. \A q \in Procs : ~HasR(q)
        BY <2>1, <2>2, <2>4 DEF OwnersR, RWTypeOK
      <3>2. count'["R"] = 0
        BY <2>1, <2>2, <2>4 DEF RWTypeOK, Sems
      <3>3. \A q \in Procs : q # p => pc'[q] = pc[q]
        BY <2>2 DEF RWTypeOK
      <3> QED
        BY <3>1, <3>2, <3>3 DEF OwnersR
    <2> QED
      BY <2>1, <2>3, <2>4
  <1>3. ASSUME NEW p \in Procs,
               dao_event_wait(p) \/ WaitFails(p) \/ Timeout(p)
        PROVE  OwnersR'
    <2>1. /\ pc[p] \in {"rW", "wW", "rR", "wE"}
          /\ Else[pc[p]] \in {"idle", "giveW"}
          /\ pc[p] = "wE" => Then[pc[p]] = "idle"
          /\ dao_event_wait(p) => pc[p] = "wE"
      BY <1>3, WaitTables
         DEF dao_event_wait, WaitFails, Timeout, Awake, Waiting, Cond, Infinite,
             Waits
    <2>2. /\ \/ pc' = [pc EXCEPT ![p] = Else[pc[p]]]
             \/ pc[p] = "wE" /\ pc' = [pc EXCEPT ![p] = Then[pc[p]]]
          /\ UNCHANGED count
      BY <1>3, <2>1 DEF dao_event_wait, WaitFails, Timeout, Goto
    <2> QED
      BY <2>1, <2>2 DEF OwnersR, RWTypeOK
  <1>4. ASSUME NEW p \in Procs, CondWait(p) \/ SpuriousWakeup(p)
        PROVE  OwnersR'
    BY <1>4 DEF CondWait, SpuriousWakeup, OwnersR
  <1>5. ASSUME NEW p \in Procs, NEW place \in {"rW", "wW"},
               NEW w \in Amounts[p], LockCall(p, place, w)
        PROVE  OwnersR'
    BY <1>5 DEF LockCall, Goto, OwnersR, RWTypeOK
  <1>6. ASSUME NEW p \in Procs,
               \/ dao_event_reset(p) \/ LoadCount(p) \/ ReadlockCounts(p)
               \/ ReadunlockOwn(p) \/ ReadunlockCounts(p) \/ LastReader(p)
               \/ dao_event_fire(p)
        PROVE  OwnersR'
    <2>1. HasR(p) /\ UNCHANGED count /\ \A q \in Procs : q # p => pc'[q] = pc[q]
      BY <1>6 DEF dao_event_reset, LoadCount, ReadlockCounts, ReadunlockOwn,
                  ReadunlockCounts, LastReader, dao_event_fire, Goto, RWTypeOK
    <2> QED
      BY <2>1 DEF OwnersR
  <1>7. ASSUME NEW p \in Procs,
               readunlock(p) \/ free_handler(p) \/ ReleaseW(p) \/ writeunlock(p)
        PROVE  OwnersR'
    <2>1. /\ \/ pc' = pc \/ pc' = [pc EXCEPT ![p] = "uR"]
             \/ pc' = [pc EXCEPT ![p] = "gone"] \/ pc' = [pc EXCEPT ![p] = "idle"]
          /\ count' = count \/ count' = [count EXCEPT !["W"] = 1]
      BY <1>7 DEF readunlock, free_handler, ReleaseW, writeunlock, Goto,
                  dao_semaphore_release
    <2>2. count'["R"] = count["R"]
      BY <2>1 DEF RWTypeOK, Sems
    <2> QED
      BY <2>1, <2>2 DEF OwnersR, RWTypeOK
  <1>8. ASSUME NEW p \in Procs, ReleaseR(p)
        PROVE  OwnersR'
    <2>1. /\ HasR(p)
          /\ \/ pc' = [pc EXCEPT ![p] = "idle"] \/ pc' = [pc EXCEPT ![p] = "giveW"]
      BY <1>8 DEF ReleaseR, Goto
    <2>2. \A q \in Procs : ~HasR(q)'
      BY <2>1 DEF OwnersR, RWTypeOK
    <2> QED
      BY <2>2 DEF OwnersR
  <1> QED
    BY <1>1, <1>2, <1>3, <1>4, <1>5, <1>6, <1>7, <1>8 DEF Next, Proc

\* A step that writes neither the count nor what was read of it, and leads to
\* no place between read and write, keeps Loaded.
LEMMA MoveLoaded ==
  ASSUME RWTypeOK, Loaded, NEW p \in Procs, NEW place,
         place \notin {"rStore", "uLoad", "uStore"},
         pc' = pc \/ pc' = [pc EXCEPT ![p] = place],
         UNCHANGED <<RCount, temp>>
  PROVE  Loaded'
  BY DEF Loaded, RWTypeOK

\* Every step keeps what the processes have read equal to the count: who
\* writes it has R, and so has who read it.
LEMMA StepLoaded ==
  ASSUME RInv, [Next]_vars
  PROVE  Loaded'
  <1> USE DEF RInv
  <1>1. CASE UNCHANGED vars
    BY <1>1 DEF Loaded, vars
  <1>2. ASSUME NEW p \in Procs,
               \/ dao_semaphore_wait(p) \/ dao_event_wait(p) \/ CondWait(p)
               \/ WaitFails(p) \/ Timeout(p) \/ SpuriousWakeup(p)
        PROVE  Loaded'
    <2>1. pc[p] \in Waits /\ UNCHANGED <<RCount, temp>>
      BY <1>2, WaitStep
    <2>2. /\ Then[pc[p]] \notin {"rStore", "uLoad", "uStore"}
          /\ Else[pc[p]] \notin {"rStore", "uLoad", "uStore"}
      BY <2>1, WaitTables DEF Waits
    <2>3. \/ pc' = pc \/ pc' = [pc EXCEPT ![p] = Then[pc[p]]]
          \/ pc' = [pc EXCEPT ![p] = Else[pc[p]]]
      BY <1>2 DEF dao_semaphore_wait, dao_event_wait, CondWait, WaitFails,
                  Timeout, SpuriousWakeup, Goto
    <2> QED
      BY <2>1, <2>2, <2>3, MoveLoaded
  <1>3. ASSUME NEW p \in Procs, NEW place \in {"rW", "wW"},
               NEW w \in Amounts[p], LockCall(p, place, w)
        PROVE  Loaded'
    BY <1>3, MoveLoaded DEF LockCall, Goto
  <1>4. ASSUME NEW p \in Procs,
               \/ dao_event_reset(p) \/ ReleaseW(p) \/ readunlock(p)
               \/ LastReader(p) \/ dao_event_fire(p) \/ ReleaseR(p)
               \/ writeunlock(p) \/ free_handler(p)
        PROVE  Loaded'
    <2>1. /\ \E place \in {"rInc", "idle", "uR", "uFire", "giveR", "giveW", "gone"} :
               pc' = pc \/ pc' = [pc EXCEPT ![p] = place]
          /\ UNCHANGED <<RCount, temp>>
      BY <1>4 DEF dao_event_reset, ReleaseW, readunlock, LastReader,
                  dao_event_fire, ReleaseR, writeunlock, free_handler, Goto
    <2> QED
      BY <2>1, MoveLoaded
  <1>5. ASSUME NEW p \in Procs, LoadCount(p)
        PROVE  Loaded'
    BY <1>5 DEF LoadCount, Goto, Loaded, RWTypeOK
  <1>6. ASSUME NEW p \in Procs, ReadunlockOwn(p)
        PROVE  Loaded'
    BY <1>6 DEF ReadunlockOwn, Goto, Loaded, RWTypeOK
  <1>7. ASSUME NEW p \in Procs, ReadlockCounts(p) \/ ReadunlockCounts(p)
        PROVE  Loaded'
    <2>1. /\ HasR(p)
          /\ \/ pc' = [pc EXCEPT ![p] = "rGiveR"] \/ pc' = [pc EXCEPT ![p] = "uTest"]
      BY <1>7 DEF ReadlockCounts, ReadunlockCounts, Goto, HasR, RPath
    <2>2. \A q \in Procs : q # p => ~HasR(q)
      BY <2>1 DEF OwnersR
    <2>3. \A q \in Procs : pc'[q] \notin {"rStore", "uLoad", "uStore"}
      BY <2>1, <2>2 DEF HasR, RPath, RWTypeOK
    <2> QED
      BY <2>3 DEF Loaded
  <1> QED
    BY <1>1, <1>2, <1>3, <1>4, <1>5, <1>6, <1>7 DEF Next, Proc

\* The initial state satisfies the first invariant.
LEMMA InitRInv == Init => RInv
  BY ReaderwriterAssumption
     DEF Init, RInv, RWTypeOK, OwnersR, Loaded, HasR, RPath, Sems, Conds, Places

\* Every step keeps the first invariant.
LEMMA StepRInv ==
  ASSUME RInv, [Next]_vars
  PROVE  RInv'
  BY StepTyped, StepOwnersR, StepLoaded DEF RInv

\* The counts of the semaphores stay 0 or 1 and the shared reader count never
\* goes below 0, whatever the processes call, with or without holding a lock:
\* between the test of the count and the write of the decrement nobody else
\* writes it.
THEOREM RWTypeCorrect == Spec => []RWTypeOK
  <1>1. RInv => RWTypeOK
    BY DEF RInv
  <1> QED
    BY <1>1, InitRInv, StepRInv, PTL DEF Spec

-----------------------------------------------------------------------------
(***************************************************************************)
(* Exclusion.  Here nobody unlocks what it does not hold.  The invariant   *)
(* says who has W too, how the event and the count of readers depend on    *)
(* each other, and that the counts are those of the locks given.           *)
(***************************************************************************)
WPath == {"rR", "rReset", "rInc", "rStore", "rGiveR", "giveW", "wE"}

HasW(p) == WriteLock[p] \/ pc[p] \in WPath

\* The same of W; a process with the write lock is not inside of a lock call
\* that got W.
OwnersW ==
  /\ \A p \in Procs : HasW(p) => count["W"] = 0
  /\ \A p, q \in Procs : HasW(p) /\ HasW(q) => p = q
  /\ \A p \in Procs : WriteLock[p] => pc[p] \notin WPath

\* The event is signalled only while there is no reader, and the stretches
\* of readlock and readunlock between count and event are safe.
Readers ==
  /\ signaled => RCount = 0
  /\ \A p \in Procs : pc[p] \in {"rInc", "rStore"} => ~signaled
  /\ \A p \in Procs : pc[p] = "uFire" => RCount = 0
  /\ \A p \in Procs : WriteLock[p] => RCount = 0

\* Places of readlock where the lock is not yet given.
Asking == {"rW", "rR", "rReset", "rInc", "rStore"}

\* The locks given are numbered by the calls that got them, and a process
\* that is about to return one has one.
Tokens ==
  /\ held \subseteq Procs \X Nat
  /\ IsFiniteSet(held)
  /\ \A t \in held :
       /\ t[2] <= calls[t[1]]
       /\ pc[t[1]] \in Asking => t[2] < calls[t[1]]
  /\ \A p \in Procs : pc[p] \in {"uR", "uDec"} => ReadLocks[p] > 0
  /\ ReadersCounted

\* Every step keeps the ownership of W.
LEMMA StepOwnersW ==
  ASSUME Careless = {}, RWTypeOK, OwnersW, [Next]_vars
  PROVE  OwnersW'
  <1> USE DEF HasW, WPath
  <1>1. CASE UNCHANGED vars
    BY <1>1 DEF OwnersW, vars
  <1>2. ASSUME NEW p \in Procs, dao_semaphore_wait(p)
        PROVE  OwnersW'
    <2>1. /\ pc[p] \in {"rW", "wW", "rR", "uR"} /\ Cond(p) \in Sems
          /\ pc[p] \in {"rW", "wW"} => Cond(p) = "W" /\ Then[pc[p]] \in {"rR", "wE"}
          /\ pc[p] = "rR" => Cond(p) = "R" /\ Then[pc[p]] = "rReset"
          /\ pc[p] = "uR" => Cond(p) = "R" /\ Then[pc[p]] = "uDec"
      BY <1>2, WaitTables
         DEF dao_semaphore_wait, Awake, Waiting, Cond, Sems, Waits
    <2>2. count[Cond(p)] > 0 /\ count' = [count EXCEPT ![Cond(p)] = @ - 1]
          /\ pc' = [pc EXCEPT ![p] = Then[pc[p]]] /\ UNCHANGED WriteLock
      BY <1>2 DEF dao_semaphore_wait, Goto
    <2>3. CASE pc[p] \in {"rW", "wW"}
      <3>1. \A q \in Procs : ~HasW(q)
        BY <2>1, <2>2, <2>3 DEF OwnersW, RWTypeOK
      <3>2. count'["W"] = 0
        BY <2>1, <2>2, <2>3 DEF RWTypeOK, Sems
      <3>3. \A q \in Procs : q # p => pc'[q] = pc[q]
        BY <2>2 DEF RWTypeOK
      <3> QED
        BY <2>2, <3>1, <3>2, <3>3 DEF OwnersW
    <2>4. CASE pc[p] \in {"rR", "uR"}
      <3>1. count'["W"] = count["W"]
        BY <2>1, <2>2, <2>4 DEF RWTypeOK, Sems
      <3>2. \A q \in Procs : q # p => pc'[q] = pc[q]
        BY <2>2 DEF RWTypeOK
      <3>3. pc'[p] \in {"rReset", "uDec"} /\ (pc'[p] = "rReset" <=> pc[p] = "rR")
        BY <2>1, <2>2, <2>4 DEF RWTypeOK
      <3> QED
        BY <2>2, <2>4, <3>1, <3>2, <3>3 DEF OwnersW
    <2> QED
      BY <2>1, <2>3, <2>4
  <1>3. ASSUME NEW p \in Procs, dao_event_wait(p)
        PROVE  OwnersW'
    <2>1. pc[p] = "wE" /\ Then[pc[p]] = "idle"
      BY <1>3, WaitTables DEF dao_event_wait, Awake, Waiting, Cond, Waits
    <2> QED
      BY <1>3, <2>1 DEF dao_event_wait, Goto, OwnersW, RWTypeOK
  <1>4. ASSUME NEW p \in Procs, WaitFails(p) \/ Timeout(p)
        PROVE  OwnersW'
    <2>1. /\ pc[p] \in {"rW", "wW", "rR", "wE"}
          /\ pc[p] \in {"rW", "wW"} => Else[pc[p]] = "idle"
          /\ pc[p] \in {"rR", "wE"} => Else[pc[p]] = "giveW"
      BY <1>4, WaitTables
         DEF WaitFails, Timeout, Awake, Waiting, Infinite, Waits
    <2>2. pc' = [pc EXCEPT ![p] = Else[pc[p]]] /\ UNCHANGED <<count, WriteLock>>
      BY <1>4 DEF WaitFails, Timeout, Goto
    <2> QED
      BY <2>1, <2>2 DEF OwnersW, RWTypeOK
  <1>5. ASSUME NEW p \in Procs, CondWait(p) \/ SpuriousWakeup(p)
        PROVE  OwnersW'
    BY <1>5 DEF CondWait, SpuriousWakeup, OwnersW
  <1>6. ASSUME NEW p \in Procs, NEW place \in {"rW", "wW"},
               NEW w \in Amounts[p], LockCall(p, place, w)
        PROVE  OwnersW'
    BY <1>6 DEF LockCall, Goto, OwnersW, RWTypeOK
  <1>7. ASSUME NEW p \in Procs,
               \/ dao_event_reset(p) \/ LoadCount(p) \/ ReadlockCounts(p)
               \/ readunlock(p) \/ ReadunlockOwn(p) \/ ReadunlockCounts(p)
               \/ LastReader(p) \/ dao_event_fire(p) \/ free_handler(p)
        PROVE  OwnersW'
    <2>1. /\ UNCHANGED <<count, WriteLock>>
          /\ \A q \in Procs : q # p => pc'[q] = pc[q]
          /\ pc'[p] \in WPath <=> pc[p] \in WPath
      BY <1>7 DEF dao_event_reset, LoadCount, ReadlockCounts, readunlock,
                  ReadunlockOwn, ReadunlockCounts, LastReader, dao_event_fire,
                  free_handler, Goto, RWTypeOK
    <2> QED
      BY <2>1 DEF OwnersW
  <1>8. ASSUME NEW p \in Procs, ReleaseR(p)
        PROVE  OwnersW'
    <2>1. /\ pc[p] \in {"rGiveR", "giveR"}
          /\ pc' = [pc EXCEPT ![p] = IF pc[p] = "rGiveR" THEN "giveW" ELSE "idle"]
          /\ UNCHANGED WriteLock
          /\ count' = [count EXCEPT !["R"] = 1]
      BY <1>8 DEF ReleaseR, Goto, dao_semaphore_release
    <2>2. count'["W"] = count["W"]
      BY <2>1 DEF RWTypeOK, Sems
    <2> QED
      BY <2>1, <2>2 DEF OwnersW, RWTypeOK
  <1>9. ASSUME NEW p \in Procs, ReleaseW(p) \/ writeunlock(p)
        PROVE  OwnersW'
    <2>1. /\ HasW(p)
          /\ \A q \in Procs : q # p => pc'[q] = pc[q] /\ WriteLock'[q] = WriteLock[q]
          /\ ~WriteLock'[p] /\ pc'[p] = "idle"
      <3>1. CASE ReleaseW(p)
        BY <3>1 DEF ReleaseW, Goto, OwnersW, RWTypeOK
      <3>2. CASE writeunlock(p)
        BY <3>2 DEF writeunlock, RWTypeOK
      <3> QED
        BY <1>9, <3>1, <3>2
    <2>2. \A q \in Procs : ~HasW(q)'
      BY <2>1 DEF OwnersW
    <2> QED
      BY <2>2 DEF OwnersW
  <1> QED
    BY <1>1, <1>2, <1>3, <1>4, <1>5, <1>6, <1>7, <1>8, <1>9 DEF Next, Proc

\* Steps that leave the counts, the event and the write locks alone, and move
\* a process to a place without a promise about them, keep Readers.
LEMMA MoveReaders ==
  ASSUME RWTypeOK, Readers, NEW p \in Procs, NEW place,
         place \in {"rInc", "rStore"} => pc[p] \in {"rInc", "rStore"},
         place = "uFire" => RCount = 0,
         pc' = pc \/ pc' = [pc EXCEPT ![p] = place],
         UNCHANGED <<signaled, RCount, WriteLock>>
  PROVE  Readers'
  BY DEF Readers, RWTypeOK

\* Every step keeps the relation of the event and the count of readers.
LEMMA StepReaders ==
  ASSUME RInv, OwnersW, Readers, [Next]_vars
  PROVE  Readers'
  <1> USE DEF RInv, HasR, HasW, RPath, WPath
  <1>1. CASE UNCHANGED vars
    BY <1>1 DEF Readers, vars
  <1>2. ASSUME NEW p \in Procs,
               \/ dao_semaphore_wait(p) \/ CondWait(p) \/ WaitFails(p)
               \/ Timeout(p) \/ SpuriousWakeup(p)
        PROVE  Readers'
    <2>1. pc[p] \in Waits
      BY <1>2, WaitStep
    <2>2. /\ Then[pc[p]] \notin {"rInc", "rStore", "uFire"}
          /\ Else[pc[p]] \notin {"rInc", "rStore", "uFire"}
      BY <2>1, WaitTables DEF Waits
    <2>3. \/ pc' = pc
          \/ pc' = [pc EXCEPT ![p] = Then[pc[p]]]
          \/ pc' = [pc EXCEPT ![p] = Else[pc[p]]]
      BY <1>2 DEF dao_semaphore_wait, CondWait, WaitFails, Timeout,
                  SpuriousWakeup, Goto
    <2>4. UNCHANGED <<signaled, RCount, WriteLock>>
      BY <1>2 DEF dao_semaphore_wait, CondWait, WaitFails, Timeout,
                  SpuriousWakeup
    <2> QED
      BY <2>2, <2>3, <2>4, MoveReaders
  <1>3. ASSUME NEW p \in Procs, dao_event_wait(p)
        PROVE  Readers'
    <2>1. pc[p] = "wE" /\ Then[pc[p]] = "idle"
      BY <1>3, WaitTables DEF dao_event_wait, Awake, Waiting, Cond, Waits
    <2> QED
      BY <1>3, <2>1 DEF dao_event_wait, Goto, Readers, RWTypeOK
  <1>4. ASSUME NEW p \in Procs,
               \/ ReleaseW(p) \/ ReleaseR(p) \/ readunlock(p) \/ ReadunlockOwn(p)
               \/ free_handler(p)
        PROVE  Readers'
    <2>1. /\ \E place \in {"idle", "giveW", "uR", "uLoad", "giveR", "gone"} :
               pc' = pc \/ pc' = [pc EXCEPT ![p] = place]
          /\ UNCHANGED <<signaled, RCount, WriteLock>>
      BY <1>4 DEF ReleaseW, ReleaseR, readunlock, ReadunlockOwn, free_handler,
                  Goto
    <2> QED
      BY <2>1, MoveReaders
  <1>5. ASSUME NEW p \in Procs, NEW place \in {"rW", "wW"},
               NEW w \in Amounts[p], LockCall(p, place, w)
        PROVE  Readers'
    BY <1>5, MoveReaders DEF LockCall, Goto
  <1>6. ASSUME NEW p \in Procs, dao_event_reset(p)
        PROVE  Readers'
    BY <1>6 DEF dao_event_reset, Goto, Readers, RWTypeOK
  <1>7. ASSUME NEW p \in Procs, LoadCount(p) \/ LastReader(p)
        PROVE  Readers'
    <2>1. CASE LoadCount(p)
      <3> DEFINE place == IF pc[p] = "rInc" THEN "rStore" ELSE "uStore"
      <3>1. /\ pc' = [pc EXCEPT ![p] = place]
            /\ place \in {"rInc", "rStore"} => pc[p] \in {"rInc", "rStore"}
            /\ place # "uFire" /\ UNCHANGED <<signaled, RCount, WriteLock>>
        BY <2>1 DEF LoadCount, Goto
      <3> QED
        BY <3>1, MoveReaders
    <2>2. CASE LastReader(p)
      <3> DEFINE place == IF RCount = 0 THEN "uFire" ELSE "giveR"
      <3>1. /\ pc' = [pc EXCEPT ![p] = place]
            /\ place \notin {"rInc", "rStore"} /\ (place = "uFire" => RCount = 0)
            /\ UNCHANGED <<signaled, RCount, WriteLock>>
        BY <2>2 DEF LastReader, Goto
      <3> QED
        BY <3>1, MoveReaders
    <2> QED
      BY <1>7, <2>1, <2>2
  <1>8. ASSUME NEW p \in Procs, ReadlockCounts(p)
        PROVE  Readers'
    <2>1. /\ pc[p] = "rStore" /\ pc' = [pc EXCEPT ![p] = "rGiveR"]
          /\ UNCHANGED <<signaled, WriteLock>>
      BY <1>8 DEF ReadlockCounts, Goto
    <2>2. ~signaled
      BY <2>1 DEF Readers
    <2>3. \A q \in Procs : ~WriteLock[q]
      BY <2>1 DEF OwnersW
    <2>4. \A q \in Procs : pc[q] # "uFire"
      BY <2>1 DEF OwnersR
    <2> QED
      BY <2>1, <2>2, <2>3, <2>4 DEF Readers, RWTypeOK
  <1>9. ASSUME NEW p \in Procs, ReadunlockCounts(p)
        PROVE  Readers'
    <2>1. /\ pc[p] = "uStore" /\ pc' = [pc EXCEPT ![p] = "uTest"]
          /\ UNCHANGED <<signaled, WriteLock>>
      BY <1>9 DEF ReadunlockCounts, Goto
    <2>2. RCount # 0
      BY <2>1 DEF Loaded, RWTypeOK
    <2> QED
      BY <2>1, <2>2 DEF Readers, RWTypeOK
  <1>10. ASSUME NEW p \in Procs, dao_event_fire(p)
        PROVE  Readers'
    <2>1. /\ pc[p] = "uFire" /\ pc' = [pc EXCEPT ![p] = "giveR"]
          /\ UNCHANGED <<RCount, WriteLock>>
      BY <1>10 DEF dao_event_fire, Goto
    <2>2. RCount = 0 /\ \A q \in Procs : pc[q] \notin {"rInc", "rStore"}
      BY <2>1 DEF Readers, OwnersR
    <2> QED
      BY <2>1, <2>2 DEF Readers, RWTypeOK
  <1>11. ASSUME NEW p \in Procs, writeunlock(p)
         PROVE  Readers'
    BY <1>11 DEF writeunlock, Readers, RWTypeOK
  <1> QED
    BY <1>1, <1>2, <1>3, <1>4, <1>5, <1>6, <1>7, <1>8, <1>9, <1>10, <1>11
       DEF Next, Proc

\* Steps that leave the locks given and the counts alone keep Tokens, if the
\* process they move does not begin to return a lock that it does not have.
LEMMA MoveTokens ==
  ASSUME RWTypeOK, Tokens, NEW p \in Procs, NEW place,
         pc' = pc \/ pc' = [pc EXCEPT ![p] = place],
         place \in {"uR", "uDec"} => ReadLocks[p] > 0,
         place \in {"uLoad", "uStore"} <=> pc[p] \in {"uLoad", "uStore"},
         place \in Asking => calls'[p] > calls[p] \/ pc[p] \in Asking,
         calls' = calls \/ calls' = [calls EXCEPT ![p] = @ + 1],
         UNCHANGED <<RCount, ReadLocks, held>>
  PROVE  Tokens'
  <1>1. \A q \in Procs : calls'[q] >= calls[q] /\ calls'[q] \in Nat
    BY DEF RWTypeOK
  <1>2. ReadersCounted'
    <2>1. \A q \in Procs : Mine(q)' = Mine(q)
      BY DEF Mine
    <2>2. \A q \in Procs :
            pc'[q] \in {"uLoad", "uStore"} <=> pc[q] \in {"uLoad", "uStore"}
      BY DEF RWTypeOK
    <2> QED
      BY <2>1, <2>2 DEF Tokens, ReadersCounted
  <1>3. \A q \in Procs : pc'[q] \in {"uR", "uDec"} => ReadLocks'[q] > 0
    BY DEF Tokens, RWTypeOK
  <1>4. ASSUME NEW t \in held
        PROVE  /\ t[2] <= calls'[t[1]]
               /\ pc'[t[1]] \in Asking => t[2] < calls'[t[1]]
    <2>1. t[1] \in Procs /\ t[2] \in Nat /\ t[2] <= calls[t[1]]
          /\ (pc[t[1]] \in Asking => t[2] < calls[t[1]])
      BY <1>4 DEF Tokens
    <2>2. CASE t[1] = p
      BY <2>1, <2>2, <1>1 DEF RWTypeOK
    <2>3. CASE t[1] # p
      BY <2>1, <2>3, <1>1 DEF RWTypeOK
    <2> QED
      BY <2>2, <2>3
  <1> QED
    BY <1>2, <1>3, <1>4 DEF Tokens

\* A reader is counted.  What it read of the count is still the count, because
\* it has had R since (Loaded): so its increment undoes no other change.
LEMMA CountedTokens ==
  ASSUME RInv, Tokens, NEW p \in Procs, ReadlockCounts(p)
  PROVE  Tokens'
  <1> USE DEF RInv
  <1> DEFINE t == <<p, calls[p]>>
  <1>1. /\ pc[p] = "rStore" /\ pc' = [pc EXCEPT ![p] = "rGiveR"]
        /\ RCount' = temp[p] + 1 /\ UNCHANGED calls
        /\ ReadLocks' = [ReadLocks EXCEPT ![p] = @ + 1]
        /\ held' = held \cup {t}
    BY DEF ReadlockCounts, Goto
  <1>2. RCount' = RCount + 1
    BY <1>1 DEF Loaded
  <1>3. t \in Procs \X Nat /\ t \notin held
    BY <1>1 DEF Tokens, Asking, RWTypeOK
  <1>4. IsFiniteSet(held') /\ Cardinality(held') = Cardinality(held) + 1
    BY <1>1, <1>3, FS_AddElement DEF Tokens
  <1>5. ASSUME NEW q \in Procs
        PROVE  Cardinality(Mine(q)') =
                 ReadLocks'[q] + (IF pc'[q] \in {"uLoad", "uStore"} THEN 1 ELSE 0)
    <2>1. CASE q = p
      <3>1. Mine(p)' = Mine(p) \cup {t} /\ t \notin Mine(p)
        BY <1>1, <1>3 DEF Mine
      <3>2. IsFiniteSet(Mine(p))
        BY FS_Subset DEF Mine, Tokens
      <3>3. Cardinality(Mine(p)') = Cardinality(Mine(p)) + 1
        BY <3>1, <3>2, FS_AddElement
      <3>4. Cardinality(Mine(p)) = ReadLocks[p]
        BY <1>1 DEF Tokens, ReadersCounted, RWTypeOK
      <3> QED
        BY <1>1, <2>1, <3>3, <3>4 DEF RWTypeOK
    <2>2. CASE q # p
      <3>1. Mine(q)' = Mine(q)
        BY <1>1, <2>2 DEF Mine
      <3> QED
        BY <1>1, <2>2, <3>1 DEF Tokens, ReadersCounted, RWTypeOK
    <2> QED
      BY <2>1, <2>2
  <1>6. ReadersCounted'
    BY <1>2, <1>4, <1>5 DEF ReadersCounted, Tokens
  <1>7. ASSUME NEW u \in held'
        PROVE  /\ u[2] <= calls'[u[1]]
               /\ pc'[u[1]] \in Asking => u[2] < calls'[u[1]]
    <2>1. CASE u = t
      BY <1>1, <1>3, <2>1 DEF RWTypeOK, Asking
    <2>2. CASE u \in held
      BY <1>1, <2>2 DEF Tokens, RWTypeOK, Asking
    <2> QED
      BY <1>1, <2>1, <2>2
  <1>8. \A q \in Procs : pc'[q] \in {"uR", "uDec"} => ReadLocks'[q] > 0
    BY <1>1 DEF Tokens, RWTypeOK
  <1>9. held' \subseteq Procs \X Nat
    BY <1>1, <1>3 DEF Tokens
  <1> QED
    BY <1>4, <1>6, <1>7, <1>8, <1>9 DEF Tokens

\* A process that has a lock finds a reader counted, and forgets its own first.
LEMMA OwnTokens ==
  ASSUME RWTypeOK, Tokens, NEW p \in Procs, ReadunlockOwn(p)
  PROVE  Tokens'
  <1>1. pc[p] = "uDec" /\ ReadLocks[p] > 0 /\ Cardinality(Mine(p)) = ReadLocks[p]
    BY DEF ReadunlockOwn, Tokens, ReadersCounted, RWTypeOK
  <1>2. RCount > 0
    <2>1. held # {}
      <3>1. Cardinality(Mine(p)) # 0
        BY <1>1
      <3>2. Cardinality({}) = 0
        BY FS_EmptySet
      <3>3. held = {} => Mine(p) = {}
        BY DEF Mine
      <3> QED
        BY <3>1, <3>2, <3>3, Zenon
    <2>2. Cardinality(held) # 0
      BY <2>1, FS_EmptySet DEF Tokens
    <2> QED
      BY <2>2 DEF Tokens, ReadersCounted, RWTypeOK
  <1>3. /\ pc' = [pc EXCEPT ![p] = "uLoad"]
        /\ ReadLocks' = [ReadLocks EXCEPT ![p] = @ - 1]
        /\ UNCHANGED <<RCount, held, calls>>
    BY <1>1, <1>2 DEF ReadunlockOwn, Goto, RWTypeOK
  <1>4. \A q \in Procs : q # p => pc'[q] = pc[q] /\ ReadLocks'[q] = ReadLocks[q]
    BY <1>3 DEF RWTypeOK
  <1>5. \A q \in Procs : Mine(q)' = Mine(q)
    BY <1>3 DEF Mine
  <1>6. Cardinality(Mine(p)') = ReadLocks'[p] + 1 /\ pc'[p] = "uLoad"
    BY <1>1, <1>3, <1>5 DEF RWTypeOK
  <1>7. ReadersCounted'
    BY <1>3, <1>4, <1>5, <1>6 DEF Tokens, ReadersCounted
  <1>8. \A u \in held' : /\ u[2] <= calls'[u[1]]
                         /\ pc'[u[1]] \in Asking => u[2] < calls'[u[1]]
    BY <1>3, <1>4, <1>6 DEF Tokens, Asking
  <1>9. \A q \in Procs : pc'[q] \in {"uR", "uDec"} => ReadLocks'[q] > 0
    BY <1>4, <1>6 DEF Tokens
  <1> QED
    BY <1>3, <1>7, <1>8, <1>9 DEF Tokens

\* A reader is taken off the count, which is still what the process read.
LEMMA UncountedTokens ==
  ASSUME RInv, Tokens, NEW p \in Procs, ReadunlockCounts(p)
  PROVE  Tokens'
  <1> USE DEF RInv
  <1> DEFINE t == CHOOSE u \in Mine(p) : TRUE
  <1>1. IsFiniteSet(Mine(p)) /\ IsFiniteSet(held)
    BY FS_Subset DEF Mine, Tokens
  <1>2. /\ pc[p] = "uStore" /\ pc' = [pc EXCEPT ![p] = "uTest"]
        /\ RCount' = temp[p] - 1 /\ UNCHANGED <<ReadLocks, calls>>
    BY DEF ReadunlockCounts, Goto
  <1>3. temp[p] = RCount
    BY <1>2 DEF Loaded
  <1>4. Cardinality(Mine(p)) = ReadLocks[p] + 1
    BY <1>2 DEF Tokens, ReadersCounted
  <1>5. Mine(p) # {}
    <2>1. Cardinality({}) = 0
      BY FS_EmptySet
    <2>2. Cardinality(Mine(p)) # 0
      BY <1>4 DEF RWTypeOK
    <2> QED
      BY <2>1, <2>2, Zenon
  <1>6. t \in Mine(p) /\ t \in held /\ t[1] = p
    BY <1>5 DEF Mine
  <1>7. held' = held \ {t}
    BY <1>5 DEF ReadunlockCounts
  <1> HIDE DEF t
  <1>8. Cardinality(held \ {t}) = Cardinality(held) - 1 /\ IsFiniteSet(held \ {t})
    BY <1>1, <1>6, FS_RemoveElement
  <1>9. Cardinality(Mine(p) \ {t}) = Cardinality(Mine(p)) - 1
    BY <1>1, <1>6, FS_RemoveElement
  <1>10. \A q \in Procs : q # p => pc'[q] = pc[q] /\ Mine(q)' = Mine(q)
    BY <1>2, <1>6, <1>7 DEF RWTypeOK, Mine
  <1>11. Mine(p)' = Mine(p) \ {t} /\ pc'[p] = "uTest"
    BY <1>2, <1>7 DEF RWTypeOK, Mine
  <1>12. Cardinality(Mine(p)') = ReadLocks'[p]
    BY <1>2, <1>4, <1>9, <1>11 DEF RWTypeOK
  <1>13. RCount' = Cardinality(held')
    BY <1>2, <1>3, <1>7, <1>8 DEF Tokens, ReadersCounted
  <1>14. ReadersCounted'
    <2>1. ASSUME NEW q \in Procs
          PROVE  Cardinality(Mine(q)') =
                   ReadLocks'[q] + (IF pc'[q] \in {"uLoad", "uStore"} THEN 1 ELSE 0)
      <3>1. CASE q = p
        <4>1. pc'[p] \notin {"uLoad", "uStore"}
          BY <1>11
        <4>2. ReadLocks'[p] + 0 = ReadLocks'[p]
          BY <1>2 DEF RWTypeOK
        <4>3. Cardinality(Mine(p)') = ReadLocks'[p] + 0
          BY <1>12, <4>2
        <4> QED
          BY <3>1, <4>1, <4>3
      <3>2. CASE q # p
        BY <1>2, <1>10, <3>2 DEF Tokens, ReadersCounted
      <3> QED
        BY <3>1, <3>2
    <2> QED
      BY <1>13, <2>1 DEF ReadersCounted
  <1>15. \A u \in held' : /\ u[2] <= calls'[u[1]]
                          /\ pc'[u[1]] \in Asking => u[2] < calls'[u[1]]
    BY <1>2, <1>7, <1>10, <1>11 DEF Tokens, Asking
  <1>16. \A q \in Procs : pc'[q] \in {"uR", "uDec"} => ReadLocks'[q] > 0
    BY <1>2, <1>10, <1>11 DEF Tokens
  <1> QED
    BY <1>7, <1>8, <1>14, <1>15, <1>16 DEF Tokens

\* Every step keeps the counts exact.
LEMMA StepTokens ==
  ASSUME Careless = {}, RInv, Tokens, [Next]_vars
  PROVE  Tokens'
  <1> USE DEF RInv, Asking
  <1>1. CASE UNCHANGED vars
    BY <1>1 DEF Tokens, ReadersCounted, Mine, vars
  <1>2. ASSUME NEW p \in Procs,
               \/ dao_semaphore_wait(p) \/ dao_event_wait(p) \/ CondWait(p)
               \/ WaitFails(p) \/ Timeout(p) \/ SpuriousWakeup(p)
        PROVE  Tokens'
    <2>1. pc[p] \in Waits /\ UNCHANGED <<RCount, ReadLocks, held, calls>>
      BY <1>2, WaitStep
    <2>2. /\ Then[pc[p]] \in {"uR", "uDec"} => pc[p] = "uR"
          /\ Then[pc[p]] \in Asking => pc[p] \in Asking
          /\ Else[pc[p]] \in {"idle", "giveW"}
          /\ {pc[p], Then[pc[p]]} \cap {"uLoad", "uStore"} = {}
      BY <2>1, WaitTables DEF Waits
    <2>3. \/ pc' = pc \/ pc' = [pc EXCEPT ![p] = Then[pc[p]]]
          \/ pc' = [pc EXCEPT ![p] = Else[pc[p]]]
      BY <1>2
         DEF dao_semaphore_wait, dao_event_wait, CondWait, WaitFails, Timeout,
             SpuriousWakeup, Goto
    <2>4. pc[p] = "uR" => ReadLocks[p] > 0
      BY DEF Tokens
    <2>5. CASE pc' = pc
      BY <2>1, <2>4, <2>5, MoveTokens DEF Waits
    <2>6. CASE pc' = [pc EXCEPT ![p] = Then[pc[p]]]
      BY <2>1, <2>2, <2>4, <2>6, MoveTokens
    <2>7. CASE pc' = [pc EXCEPT ![p] = Else[pc[p]]]
      BY <2>1, <2>2, <2>7, MoveTokens
    <2> QED
      BY <2>3, <2>5, <2>6, <2>7
  <1>3. ASSUME NEW p \in Procs,
               \/ ReleaseW(p) \/ ReleaseR(p) \/ free_handler(p)
               \/ dao_event_fire(p) \/ writeunlock(p) \/ LastReader(p)
        PROVE  Tokens'
    <2>1. /\ \E place \in {"idle", "giveR", "giveW", "uFire", "gone"} :
               pc' = pc \/ pc' = [pc EXCEPT ![p] = place]
          /\ pc[p] \notin {"uLoad", "uStore"}
          /\ UNCHANGED <<RCount, ReadLocks, held, calls>>
      BY <1>3 DEF ReleaseW, ReleaseR, free_handler, dao_event_fire,
                  writeunlock, LastReader, Goto
    <2> QED
      BY <2>1, MoveTokens
  <1>4. ASSUME NEW p \in Procs, NEW place \in {"rW", "wW"},
               NEW w \in Amounts[p], LockCall(p, place, w)
        PROVE  Tokens'
    <2>1. /\ pc[p] = "idle" /\ pc' = [pc EXCEPT ![p] = place]
          /\ calls' = [calls EXCEPT ![p] = @ + 1]
          /\ UNCHANGED <<RCount, ReadLocks, held>>
      BY <1>4 DEF LockCall, Goto
    <2>2. calls'[p] > calls[p]
      BY <2>1 DEF RWTypeOK
    <2> QED
      BY <2>1, <2>2, MoveTokens
  <1>5. ASSUME NEW p \in Procs, dao_event_reset(p) \/ LoadCount(p)
        PROVE  Tokens'
    <2>1. /\ \E place \in {"rInc", "rStore", "uStore"} :
               /\ pc' = [pc EXCEPT ![p] = place]
               /\ place \in {"uLoad", "uStore"} <=> pc[p] \in {"uLoad", "uStore"}
               /\ place \in Asking => pc[p] \in Asking
          /\ UNCHANGED <<RCount, ReadLocks, held, calls>>
      BY <1>5 DEF dao_event_reset, LoadCount, Goto
    <2> QED
      BY <2>1, MoveTokens
  <1>6. ASSUME NEW p \in Procs, readunlock(p)
        PROVE  Tokens'
    <2>1. /\ ReadLocks[p] > 0 /\ pc[p] = "idle" /\ pc' = [pc EXCEPT ![p] = "uR"]
          /\ UNCHANGED <<RCount, ReadLocks, held, calls>>
      BY <1>6 DEF readunlock, Goto
    <2> QED
      BY <2>1, MoveTokens
  <1> QED
    BY <1>1, <1>2, <1>3, <1>4, <1>5, <1>6, CountedTokens, OwnTokens,
       UncountedTokens DEF Next, Proc

-----------------------------------------------------------------------------
Inv == RInv /\ OwnersW /\ Readers /\ Tokens

\* The initial state satisfies the invariant.
LEMMA InitInv == Init => Inv
  <1> SUFFICES ASSUME Init PROVE Inv
    OBVIOUS
  <1>1. OwnersW /\ Readers
    BY DEF Init, OwnersW, Readers, HasW, WPath
  <1>2. Cardinality({}) = 0 /\ IsFiniteSet({})
    BY FS_EmptySet
  <1>3. \A p \in Procs : Mine(p) = {} /\ pc[p] = "idle" /\ ReadLocks[p] = 0
    BY DEF Init, Mine
  <1>4. Tokens
    BY <1>2, <1>3 DEF Init, Tokens, ReadersCounted
  <1> QED
    BY <1>1, <1>4, InitRInv DEF Inv

\* Every step keeps the invariant.
LEMMA StepInv ==
  ASSUME Careless = {}, Inv, [Next]_vars
  PROVE  Inv'
  BY StepRInv, StepOwnersW, StepReaders, StepTokens DEF Inv, RInv

\* The invariant excludes a reader next to a writer, and two writers.
LEMMA InvExcludes == Inv => Exclusion
  <1> SUFFICES ASSUME Inv, NEW p \in Procs, NEW q \in Procs, WriteLock[p]
               PROVE  ReadLocks[q] = 0 /\ (q # p => ~WriteLock[q])
    BY DEF Exclusion
  <1>1. RCount = 0
    BY DEF Inv, Readers
  <1>2. held = {}
    BY <1>1, FS_EmptySet DEF Inv, Tokens, ReadersCounted
  <1>3. Cardinality(Mine(q)) = 0
    BY <1>2, FS_EmptySet DEF Mine
  <1>4. ReadLocks[q] = 0
    BY <1>3 DEF Inv, RInv, RWTypeOK, Tokens, ReadersCounted
  <1>5. q # p => ~WriteLock[q]
    BY DEF Inv, OwnersW, HasW
  <1> QED
    BY <1>4, <1>5

\* Among processes that unlock only what they hold, a writer is alone, through
\* timeouts, failed calls, spurious wake-ups and automatic unlocking.
THEOREM WriterIsAlone == ASSUME Careless = {} PROVE Spec => []Exclusion
  <1>1. Init => Inv
    BY InitInv
  <1>2. Inv /\ [Next]_vars => Inv'
    BY StepInv
  <1>3. Inv => Exclusion
    BY InvExcludes
  <1> QED
    BY <1>1, <1>2, <1>3, PTL DEF Spec

\* The shared count of readers and the count of each object are exact: no
\* increment or decrement of one process is lost to that of another, because
\* between its read and its write of the count a process has R.
THEOREM ReaderCountExact == ASSUME Careless = {} PROVE Spec => []ReadersCounted
  <1>1. Init => Inv
    BY InitInv
  <1>2. Inv /\ [Next]_vars => Inv'
    BY StepInv
  <1>3. Inv => ReadersCounted
    BY DEF Inv, Tokens
  <1> QED
    BY <1>1, <1>2, <1>3, PTL DEF Spec

\* No step lets a reader in while a writer waits for the readers to leave or
\* has its lock: the count grows only in the hands of a process that has W.
LEMMA StepNoOvertaking ==
  ASSUME Inv, [Next]_vars, NEW p \in Procs, pc[p] = "wE" \/ WriteLock[p]
  PROVE  RCount' <= RCount
  <1>1. RCount \in Nat
    BY DEF Inv, RInv, RWTypeOK
  <1>2. ASSUME NEW q \in Procs, ReadlockCounts(q)
        PROVE  FALSE
    <2>1. HasW(q) /\ HasW(p) /\ pc[q] = "rStore"
      BY <1>2 DEF ReadlockCounts, HasW, WPath
    <2>2. p = q
      BY <2>1 DEF Inv, OwnersW
    <2> QED
      BY <2>1, <2>2 DEF Inv, OwnersW, WPath
  <1>3. ASSUME NEW q \in Procs, ReadunlockCounts(q)
        PROVE  RCount' <= RCount
    BY <1>1, <1>3 DEF ReadunlockCounts, Inv, RInv, Loaded
  <1>4. ASSUME NEW q \in Procs,
               Proc(q) \/ SpuriousWakeup(q), ~ReadlockCounts(q),
               ~ReadunlockCounts(q)
        PROVE  RCount' = RCount
    BY <1>4 DEF Proc, SpuriousWakeup, LockCall, dao_semaphore_wait,
       dao_event_wait, CondWait, WaitFails, Timeout, dao_event_reset, LoadCount,
       ReleaseW, readunlock, ReadunlockOwn, LastReader, dao_event_fire,
       ReleaseR, writeunlock, free_handler
  <1> QED
    BY <1>1, <1>2, <1>3, <1>4 DEF Next, vars

\* Readers cannot starve a writer that has W.
THEOREM ReadersNeverOvertake == ASSUME Careless = {} PROVE Spec => NoOvertaking
  <1>1. Init => Inv
    BY InitInv
  <1>2. Inv /\ [Next]_vars => Inv'
    BY StepInv
  <1>3. Inv /\ [Next]_vars =>
          [(\E p \in Procs : pc[p] = "wE" \/ WriteLock[p])
             => RCount' <= RCount]_vars
    BY StepNoOvertaking
  <1> QED
    BY <1>1, <1>2, <1>3, PTL DEF Spec, NoOvertaking

-----------------------------------------------------------------------------
(***************************************************************************)
(* Wake-ups.  Nothing is assumed here about who unlocks what.              *)
(***************************************************************************)

\* Who sleeps on a condition waits for its object and has not been woken, and
\* who was woken is still in its wait.
Sleepers ==
  /\ \A c \in Conds : \A q \in asleep[c] :
       Waiting(q) /\ Cond(q) = c /\ q \notin woken
  /\ \A q \in woken : Awake(q)

\* The process that was woken and will look at semaphore s.
Looks(q, s) == Awake(q) /\ Cond(q) = s /\ q \in woken

\* A step of a process that does not wait, which neither releases a semaphore
\* nor fires the event, leaves the sleepers alone.
LEMMA OutsideSleepers ==
  ASSUME RWTypeOK, Sleepers, NoSleeperForgotten,
         NEW p \in Procs, ~Waiting(p), NEW place,
         pc' = pc \/ pc' = [pc EXCEPT ![p] = place],
         signaled' => signaled, UNCHANGED <<count, asleep, woken, missed>>
  PROVE  (Sleepers /\ NoSleeperForgotten)'
  <1>1. \A q \in Procs : q # p => /\ pc'[q] = pc[q]
                                  /\ Waiting(q)' <=> Waiting(q)
                                  /\ Cond(q)' = Cond(q)
                                  /\ Awake(q)' <=> Awake(q)
    BY DEF RWTypeOK, Waiting, Cond, Awake
  <1>2. p \notin woken /\ \A c \in Conds : p \notin asleep[c]
    BY DEF Sleepers, Awake
  <1>3. Sleepers'
    BY <1>1, <1>2 DEF Sleepers, RWTypeOK
  <1>4. ASSUME NEW s \in Sems, asleep[s] # {}, count[s] = 1, s \notin missed
        PROVE  \E q \in Procs : Looks(q, s)'
    <2>1. PICK q \in Procs : Looks(q, s)
      BY <1>4 DEF NoSleeperForgotten, Looks
    <2> QED
      BY <1>1, <1>2, <2>1 DEF Looks
  <1> QED
    BY <1>3, <1>4 DEF NoSleeperForgotten, Looks

\* A process that does not wait releases a semaphore: whoever sleeps on it, one
\* of them is woken and looks.
LEMMA ReleaseSleepers ==
  ASSUME RWTypeOK, Sleepers, NoSleeperForgotten,
         NEW p \in Procs, ~Waiting(p), NEW place,
         pc' = pc \/ pc' = [pc EXCEPT ![p] = place],
         NEW s \in Sems, dao_semaphore_release(s), UNCHANGED signaled
  PROVE  (Sleepers /\ NoSleeperForgotten)'
  <1>1. /\ \A q \in Procs : q # p => /\ pc'[q] = pc[q]
                                     /\ Waiting(q)' <=> Waiting(q)
                                     /\ Cond(q)' = Cond(q)
    BY DEF RWTypeOK, Waiting, Cond
  <1>2. p \notin woken /\ \A c \in Conds : p \notin asleep[c]
    BY DEF Sleepers, Awake
  <1>3. s \in Conds /\ s # "E" /\ Sems \subseteq Conds /\ "E" \in Conds
    BY DEF Sems, Conds
  <1>4. count' = [count EXCEPT ![s] = 1] /\ missed' = missed \ {s}
    BY DEF dao_semaphore_release
  <1>5. CASE asleep[s] = {} /\ UNCHANGED <<asleep, woken>>
    <2>1. Sleepers'
      BY <1>1, <1>2, <1>5 DEF Sleepers, RWTypeOK, Awake
    <2>2. ASSUME NEW z \in Sems, asleep'[z] # {}, count'[z] = 1,
               z \notin missed'
          PROVE  \E q \in Procs : Looks(q, z)'
      <3>1. z # s /\ count[z] = 1 /\ z \notin missed
        BY <1>4, <1>5, <2>2 DEF RWTypeOK
      <3>2. PICK q \in Procs : Looks(q, z)
        BY <1>5, <2>2, <3>1 DEF NoSleeperForgotten, Looks
      <3> QED
        BY <1>1, <1>2, <1>5, <3>2 DEF Looks, Awake
    <2> QED
      BY <1>5, <2>1, <2>2 DEF NoSleeperForgotten, Looks
  <1>6. ASSUME NEW w \in asleep[s],
               asleep' = [asleep EXCEPT ![s] = @ \ {w}],
               woken' = woken \cup {w}
        PROVE  (Sleepers /\ NoSleeperForgotten)'
    <2>1. w \in Procs /\ w # p /\ Waiting(w) /\ Cond(w) = s
      BY <1>2, <1>3, <1>6 DEF Sleepers, RWTypeOK
    <2>2. /\ asleep'[s] = asleep[s] \ {w}
          /\ \A c \in Conds : c # s => asleep'[c] = asleep[c]
          /\ \A c \in Conds : asleep'[c] \subseteq asleep[c]
          /\ w \notin asleep'[s]
      BY <1>3, <1>6 DEF RWTypeOK
    <2>3. \A c \in Conds : w \notin asleep'[c]
      BY <1>3, <2>1, <2>2 DEF Sleepers
    <2>4. Awake(w)' /\ Cond(w)' = s
      BY <1>1, <1>3, <2>1, <2>3 DEF Awake
    <2>5. \A q \in woken : q \in Procs /\ q # p /\ Awake(q)' /\ Cond(q)' = Cond(q)
      <3>1. SUFFICES ASSUME NEW q \in woken
                     PROVE  q \in Procs /\ q # p /\ Awake(q)' /\ Cond(q)' = Cond(q)
        OBVIOUS
      <3>2. q \in Procs /\ q # p /\ Awake(q)
        BY <1>2 DEF Sleepers, RWTypeOK
      <3>3. Cond(q) \in Conds
        BY <3>2, WaitTables, WaitPlaces DEF Awake, Waiting, Cond
      <3> QED
        BY <1>1, <2>2, <3>2, <3>3 DEF Awake
    <2>6. Sleepers'
      <3>1. \A q \in woken' : Awake(q)'
        BY <1>6, <2>4, <2>5
      <3>2. ASSUME NEW c \in Conds, NEW q \in asleep'[c]
            PROVE  Waiting(q)' /\ Cond(q)' = c /\ q \notin woken'
        <4>1. q \in asleep[c] /\ q \in Procs /\ q # p /\ q # w
          BY <1>2, <2>2, <2>3, <3>2 DEF RWTypeOK
        <4> QED
          BY <1>1, <1>6, <4>1 DEF Sleepers
      <3> QED
        BY <3>1, <3>2 DEF Sleepers
    <2>7. ASSUME NEW z \in Sems, asleep'[z] # {}, count'[z] = 1,
               z \notin missed'
          PROVE  \E q \in Procs : Looks(q, z)'
      <3>1. CASE z = s
        BY <1>6, <2>1, <2>4, <3>1 DEF Looks
      <3>2. CASE z # s
        <4>1. asleep[z] # {} /\ count[z] = 1 /\ z \notin missed
          BY <1>3, <1>4, <2>2, <2>7, <3>2 DEF RWTypeOK
        <4>2. PICK q \in Procs : Looks(q, z)
          BY <4>1 DEF NoSleeperForgotten, Looks
        <4> QED
          BY <1>6, <2>5, <4>2 DEF Looks
      <3> QED
        BY <3>1, <3>2
    <2>8. signaled' => asleep'["E"] = {}
      BY <1>3, <2>2 DEF NoSleeperForgotten
    <2> QED
      BY <2>6, <2>7, <2>8 DEF NoSleeperForgotten, Looks
  <1> QED
    BY <1>5, <1>6 DEF dao_semaphore_release

\* A step of a process in its wait: it takes the semaphore or sees the event,
\* goes to sleep, wakes up or gives up.
LEMMA WaitSleepers ==
  ASSUME RWTypeOK, Sleepers, NoSleeperForgotten, NEW p \in Procs,
         \/ dao_semaphore_wait(p) \/ dao_event_wait(p) \/ CondWait(p)
         \/ WaitFails(p) \/ Timeout(p) \/ SpuriousWakeup(p)
  PROVE  (Sleepers /\ NoSleeperForgotten)'
  <1> DEFINE k == Cond(p)
  <1>1. Waiting(p)
    BY DEF dao_semaphore_wait, dao_event_wait, CondWait, WaitFails, Timeout,
           SpuriousWakeup, Awake
  <1>2. pc[p] \in Waits /\ k \in Conds /\ Sems \subseteq Conds /\ "E" \in Conds
        /\ "E" \notin Sems
    BY <1>1, WaitTables, WaitPlaces DEF Waiting, Cond, Sems, Conds
  <1>3. /\ \A q \in Procs : q # p => pc'[q] = pc[q]
        /\ UNCHANGED signaled
        /\ missed \subseteq missed'
    BY DEF dao_semaphore_wait, dao_event_wait, CondWait, WaitFails, Timeout,
           SpuriousWakeup, Goto, RWTypeOK
  <1>4. \A q \in Procs : q # p =>
          (Waiting(q)' <=> Waiting(q)) /\ Cond(q)' = Cond(q)
    BY <1>3 DEF Waiting, Cond
  <1>5. \A c \in Conds : c # k => p \notin asleep[c]
    BY DEF Sleepers
  <1>6. \A q \in woken : q \in Procs /\ Waiting(q) /\ Cond(q) \in Conds
                         /\ q \notin asleep[Cond(q)]
    BY WaitTables, WaitPlaces DEF Sleepers, Awake, Waiting, Cond, RWTypeOK
  <1>7. ASSUME p \notin asleep'[k], p \notin woken',
               \A c \in Conds : asleep'[c] \ {p} = asleep[c] \ {p},
               \A c \in Conds : c # k => asleep'[c] = asleep[c],
               woken' = woken \ {p},
               \A s \in Sems : count'[s] = 1 => count[s] = 1,
               p \in woken /\ k \in Sems => count'[k] # 1 \/ k \in missed'
        PROVE  (Sleepers /\ NoSleeperForgotten)'
    <2>1. \A c \in Conds : p \notin asleep'[c]
      BY <1>5, <1>7
    <2>2. \A c \in Conds : asleep'[c] \subseteq asleep[c]
      BY <1>7, <2>1
    <2>3. \A q \in woken' : q \in woken /\ q # p /\ Awake(q)' /\ Cond(q)' = Cond(q)
      BY <1>4, <1>6, <1>7, <2>2 DEF Awake
    <2>4. Sleepers'
      <3>1. ASSUME NEW c \in Conds, NEW q \in asleep'[c]
            PROVE  Waiting(q)' /\ Cond(q)' = c /\ q \notin woken'
        <4>1. q \in asleep[c] /\ q \in Procs /\ q # p
          BY <2>1, <2>2, <3>1 DEF RWTypeOK
        <4> QED
          BY <1>4, <1>7, <4>1 DEF Sleepers
      <3> QED
        BY <2>3, <3>1 DEF Sleepers
    <2>5. ASSUME NEW s \in Sems, asleep'[s] # {}, count'[s] = 1,
               s \notin missed'
          PROVE  \E q \in Procs : Looks(q, s)'
      <3>1. asleep[s] # {} /\ count[s] = 1 /\ s \notin missed
        BY <1>2, <1>3, <1>7, <2>2, <2>5
      <3>2. PICK q \in Procs : Looks(q, s)
        BY <3>1 DEF NoSleeperForgotten, Looks
      <3>3. q # p
        BY <1>7, <2>5, <3>2 DEF Looks
      <3>4. q \in woken'
        BY <1>7, <3>2, <3>3 DEF Looks
      <3> QED
        BY <2>3, <3>2, <3>4 DEF Looks
    <2>6. signaled' => asleep'["E"] = {}
      BY <1>2, <1>3, <2>2 DEF NoSleeperForgotten
    <2> QED
      BY <2>4, <2>5, <2>6 DEF NoSleeperForgotten, Looks
  <1>8. CASE dao_semaphore_wait(p)
    <2>1. /\ p \notin asleep[k] /\ k \in Sems
          /\ count' = [count EXCEPT ![k] = @ - 1]
          /\ woken' = woken \ {p} /\ asleep' = asleep
      BY <1>8 DEF dao_semaphore_wait, Awake
    <2>2. count'[k] # 1 /\ \A s \in Sems : count'[s] = 1 => count[s] = 1
      BY <2>1 DEF RWTypeOK
    <2> QED
      BY <1>7, <2>1, <2>2
  <1>9. CASE dao_event_wait(p)
    <2>1. /\ p \notin asleep[k] /\ k = "E" /\ count' = count
          /\ woken' = woken \ {p} /\ asleep' = asleep
      BY <1>9 DEF dao_event_wait, Awake
    <2> QED
      BY <1>2, <1>7, <2>1
  <1>10. CASE WaitFails(p)
    <2>1. /\ p \notin asleep[k] /\ p \notin woken /\ count' = count
          /\ woken' = woken /\ asleep' = asleep
      BY <1>10 DEF WaitFails, Awake
    <2>2. woken' = woken \ {p}
      BY <2>1
    <2> QED
      BY <1>7, <2>1, <2>2
  <1>11. CASE Timeout(p)
    <2>1. /\ p \in asleep[k] \cup woken
          /\ p \in woken /\ k \in Sems => k \in missed'
          /\ count' = count /\ woken' = woken \ {p}
          /\ asleep' = [asleep EXCEPT ![k] = @ \ {p}]
      BY <1>11 DEF Timeout
    <2>2. p \in woken /\ k \in Sems => count'[k] # 1 \/ k \in missed'
      BY <2>1
    <2>3. /\ asleep'[k] = asleep[k] \ {p}
          /\ \A c \in Conds : c # k => asleep'[c] = asleep[c]
      BY <1>2, <2>1 DEF RWTypeOK
    <2>4. \A c \in Conds : asleep'[c] \ {p} = asleep[c] \ {p}
      BY <2>3
    <2>5. p \notin asleep'[k] /\ p \notin woken'
      BY <2>1, <2>3
    <2> QED
      BY <1>7, <2>1, <2>2, <2>3, <2>4, <2>5
  <1>12. CASE CondWait(p)
    <2>1. /\ p \notin asleep[k] /\ ~Available(k) /\ pc' = pc /\ count' = count
          /\ woken' = woken \ {p}
          /\ asleep' = [asleep EXCEPT ![k] = @ \cup {p}]
      BY <1>12 DEF CondWait, Awake
    <2>2. /\ asleep'[k] = asleep[k] \cup {p}
          /\ \A c \in Conds : c # k => asleep'[c] = asleep[c]
      BY <1>2, <2>1 DEF RWTypeOK
    <2>3. \A q : (Waiting(q)' <=> Waiting(q)) /\ Cond(q)' = Cond(q)
      BY <2>1 DEF Waiting, Cond
    <2>4. \A q \in woken' : q \in woken /\ q # p /\ Awake(q)'
      BY <1>6, <2>1, <2>2, <2>3 DEF Awake
    <2>5. Sleepers'
      <3>1. ASSUME NEW c \in Conds, NEW q \in asleep'[c]
            PROVE  Waiting(q)' /\ Cond(q)' = c /\ q \notin woken'
        <4>1. CASE q = p
          BY <1>1, <1>5, <2>1, <2>2, <2>3, <3>1, <4>1
        <4>2. CASE q # p
          <5>1. q \in asleep[c]
            BY <2>2, <3>1, <4>2
          <5> QED
            BY <2>1, <2>3, <5>1 DEF Sleepers
        <4> QED
          BY <4>1, <4>2
      <3> QED
        BY <2>4, <3>1 DEF Sleepers
    <2>6. ASSUME NEW s \in Sems, asleep'[s] # {}, count'[s] = 1,
               s \notin missed'
          PROVE  \E q \in Procs : Looks(q, s)'
      <3>1. s # k
        BY <1>2, <2>1, <2>6 DEF Available
      <3>2. asleep[s] # {} /\ count[s] = 1 /\ s \notin missed
        BY <1>2, <1>3, <2>1, <2>2, <2>6, <3>1
      <3>3. PICK q \in Procs : Looks(q, s)
        BY <3>2 DEF NoSleeperForgotten, Looks
      <3>4. q \in woken'
        BY <2>1, <3>1, <3>3 DEF Looks
      <3> QED
        BY <2>3, <2>4, <3>3, <3>4 DEF Looks
    <2>7. signaled' => asleep'["E"] = {}
      BY <1>2, <1>3, <2>1, <2>2 DEF Available, NoSleeperForgotten
    <2> QED
      BY <2>5, <2>6, <2>7 DEF NoSleeperForgotten, Looks
  <1>13. CASE SpuriousWakeup(p)
    <2>1. /\ pc' = pc /\ count' = count /\ woken' = woken \cup {p}
          /\ asleep' = [asleep EXCEPT ![k] = @ \ {p}]
      BY <1>13 DEF SpuriousWakeup
    <2>2. /\ asleep'[k] = asleep[k] \ {p}
          /\ \A c \in Conds : c # k => asleep'[c] = asleep[c]
      BY <1>2, <2>1 DEF RWTypeOK
    <2>3. \A q : (Waiting(q)' <=> Waiting(q)) /\ Cond(q)' = Cond(q)
      BY <2>1 DEF Waiting, Cond
    <2>4. \A c \in Conds : asleep'[c] \subseteq asleep[c] /\ p \notin asleep'[c]
      BY <1>5, <2>2
    <2>5. \A q \in woken' : Awake(q)'
      BY <1>1, <1>2, <1>6, <2>1, <2>3, <2>4 DEF Awake
    <2>6. Sleepers'
      BY <2>1, <2>3, <2>4, <2>5 DEF Sleepers
    <2>7. ASSUME NEW s \in Sems, asleep'[s] # {}, count'[s] = 1,
               s \notin missed'
          PROVE  \E q \in Procs : Looks(q, s)'
      <3>1. asleep[s] # {} /\ count[s] = 1 /\ s \notin missed
        BY <1>2, <1>3, <2>1, <2>4, <2>7
      <3>2. PICK q \in Procs : Looks(q, s)
        BY <3>1 DEF NoSleeperForgotten, Looks
      <3> QED
        BY <2>1, <2>3, <2>5, <3>2 DEF Looks
    <2>8. signaled' => asleep'["E"] = {}
      BY <1>2, <1>3, <2>4 DEF NoSleeperForgotten
    <2> QED
      BY <2>6, <2>7, <2>8 DEF NoSleeperForgotten, Looks
  <1> QED
    BY <1>8, <1>9, <1>10, <1>11, <1>12, <1>13

\* The event is fired: everybody who slept on it is woken.
LEMMA FireSleepers ==
  ASSUME RWTypeOK, Sleepers, NoSleeperForgotten, NEW p \in Procs,
         dao_event_fire(p)
  PROVE  (Sleepers /\ NoSleeperForgotten)'
  <1>1. /\ pc[p] = "uFire" /\ pc' = [pc EXCEPT ![p] = "giveR"]
        /\ asleep' = [asleep EXCEPT !["E"] = {}]
        /\ woken' = woken \cup asleep["E"] /\ UNCHANGED <<count, missed>>
    BY DEF dao_event_fire, Goto
  <1>2. ~Waiting(p) /\ "E" \in Conds /\ "E" \notin Sems /\ Sems \subseteq Conds
    BY <1>1, WaitTables DEF Waiting, Waits, Conds, Sems
  <1>3. \A q \in Procs : q # p => (Waiting(q)' <=> Waiting(q)) /\ Cond(q)' = Cond(q)
    BY <1>1 DEF RWTypeOK, Waiting, Cond
  <1>4. p \notin woken /\ \A c \in Conds : p \notin asleep[c]
    BY <1>2 DEF Sleepers, Awake
  <1>5. /\ asleep'["E"] = {}
        /\ \A c \in Conds : c # "E" => asleep'[c] = asleep[c]
        /\ \A c \in Conds : asleep'[c] \subseteq asleep[c]
    BY <1>1, <1>2 DEF RWTypeOK
  <1>6. \A q \in woken : /\ q \in Procs /\ q # p /\ Waiting(q)
                         /\ Cond(q) \in Conds /\ q \notin asleep[Cond(q)]
    BY <1>4, WaitTables, WaitPlaces DEF Sleepers, Awake, Waiting, Cond, RWTypeOK
  <1>7. \A q \in asleep["E"] : q \in Procs /\ q # p /\ Waiting(q) /\ Cond(q) = "E"
    BY <1>2, <1>4 DEF Sleepers, RWTypeOK
  <1>8. \A q \in woken' : Awake(q)'
    <2>1. SUFFICES ASSUME NEW q \in woken' PROVE Awake(q)'
      OBVIOUS
    <2>2. CASE q \in woken
      BY <1>3, <1>5, <1>6, <2>2 DEF Awake
    <2>3. CASE q \in asleep["E"]
      BY <1>3, <1>5, <1>7, <2>3 DEF Awake
    <2> QED
      BY <1>1, <2>1, <2>2, <2>3
  <1>9. Sleepers'
    <2>1. ASSUME NEW c \in Conds, NEW q \in asleep'[c]
          PROVE  Waiting(q)' /\ Cond(q)' = c /\ q \notin woken'
      <3>1. q \in asleep[c] /\ q \in Procs /\ q # p /\ c # "E"
        BY <1>4, <1>5, <2>1 DEF RWTypeOK
      <3>2. Waiting(q) /\ Cond(q) = c /\ q \notin woken
        BY <3>1 DEF Sleepers
      <3>3. q \notin asleep["E"]
        BY <1>7, <3>1, <3>2
      <3> QED
        BY <1>1, <1>3, <3>1, <3>2, <3>3
    <2> QED
      BY <1>8, <2>1 DEF Sleepers
  <1>10. ASSUME NEW s \in Sems, asleep'[s] # {}, count'[s] = 1,
               s \notin missed'
         PROVE  \E q \in Procs : Looks(q, s)'
    <2>1. asleep[s] # {} /\ count[s] = 1 /\ s \notin missed
      BY <1>1, <1>2, <1>5, <1>10
    <2>2. PICK q \in Procs : Looks(q, s)
      BY <2>1 DEF NoSleeperForgotten, Looks
    <2> QED
      BY <1>1, <1>3, <1>4, <1>8, <2>2 DEF Looks
  <1> QED
    BY <1>5, <1>9, <1>10 DEF NoSleeperForgotten, Looks

\* Every step keeps them.
LEMMA StepSleepers ==
  ASSUME RWTypeOK, Sleepers, NoSleeperForgotten, [Next]_vars
  PROVE  (Sleepers /\ NoSleeperForgotten)'
  <1>1. CASE UNCHANGED vars
    BY <1>1 DEF vars, Sleepers, NoSleeperForgotten, Waiting, Cond, Awake
  <1>2. \A p \in Procs : pc[p] \notin Waits => ~Waiting(p)
    BY WaitTables DEF Waiting
  <1>3. ASSUME NEW p \in Procs, NEW place \in {"rW", "wW"},
               NEW w \in Amounts[p], LockCall(p, place, w)
        PROVE  (Sleepers /\ NoSleeperForgotten)'
    BY <1>2, <1>3, OutsideSleepers DEF LockCall, Goto, Waits
  <1>4. ASSUME NEW p \in Procs,
               \/ dao_event_reset(p) \/ LoadCount(p) \/ ReadlockCounts(p)
               \/ readunlock(p) \/ ReadunlockOwn(p) \/ ReadunlockCounts(p)
               \/ LastReader(p) \/ free_handler(p)
        PROVE  (Sleepers /\ NoSleeperForgotten)'
    <2>1. /\ pc[p] \notin Waits /\ (signaled' => signaled)
          /\ UNCHANGED <<count, asleep, woken, missed>>
      BY <1>4
         DEF dao_event_reset, LoadCount, ReadlockCounts, readunlock,
             ReadunlockOwn, ReadunlockCounts, LastReader, free_handler, Waits
    <2>2. \E place : pc' = pc \/ pc' = [pc EXCEPT ![p] = place]
      BY <1>4
         DEF dao_event_reset, LoadCount, ReadlockCounts, readunlock,
             ReadunlockOwn, ReadunlockCounts, LastReader, free_handler, Goto
    <2> QED
      BY <1>2, <2>1, <2>2, OutsideSleepers
  <1>5. ASSUME NEW p \in Procs, ReleaseW(p) \/ ReleaseR(p) \/ writeunlock(p)
        PROVE  (Sleepers /\ NoSleeperForgotten)'
    <2>1. pc[p] \notin Waits /\ UNCHANGED signaled
      BY <1>5 DEF ReleaseW, ReleaseR, writeunlock, Waits
    <2>2. \E s \in Sems : dao_semaphore_release(s)
      BY <1>5 DEF ReleaseW, ReleaseR, writeunlock, Sems
    <2>3. \E place : pc' = pc \/ pc' = [pc EXCEPT ![p] = place]
      BY <1>5 DEF ReleaseW, ReleaseR, writeunlock, Goto
    <2> QED
      BY <1>2, <2>1, <2>2, <2>3, ReleaseSleepers
  <1> QED
    BY <1>1, <1>3, <1>4, <1>5, WaitSleepers, FireSleepers DEF Next, Proc

\* Nobody sleeps on a free semaphore or on a signalled event unless somebody
\* who was woken is about to look at it, or a wait that timed out consumed the
\* signal.  It holds whatever is unlocked by whom and with spurious wake-ups.
THEOREM NobodySleepsForever == Spec => []NoSleeperForgotten
  <1>1. Init => Sleepers /\ NoSleeperForgotten
    BY DEF Init, Sleepers, NoSleeperForgotten, Sems, Conds
  <1>2. RInv => RWTypeOK
    BY DEF RInv
  <1> QED
    BY <1>1, <1>2, InitRInv, StepRInv, StepSleepers, PTL DEF Spec

\* Who waits without limit, or not at all, consumes no signal for nothing: when
\* nobody passes a waiting time, no wake-up is lost at all.
THEOREM NothingMissed ==
  ASSUME \A p \in Procs : "some" \notin Amounts[p]
  PROVE  Spec => [](missed = {} /\ NoSleeperForgotten)
  <1> DEFINE Untimed == missed = {} /\ \A p \in Procs : wait[p] # "some"
  <1>1. Init => Untimed
    BY DEF Init
  <1>2. ASSUME RWTypeOK, Untimed, [Next]_vars
        PROVE  Untimed'
    <2>1. CASE UNCHANGED vars
      BY <1>2, <2>1 DEF vars
    <2>2. ASSUME NEW p \in Procs, Timeout(p)
          PROVE  FALSE
      BY <1>2, <2>2 DEF Timeout
    <2>3. ASSUME NEW p \in Procs, NEW place \in {"rW", "wW"},
                 NEW w \in Amounts[p], LockCall(p, place, w)
          PROVE  Untimed'
      BY <1>2, <2>3 DEF LockCall, RWTypeOK
    <2>4. ASSUME NEW p \in Procs,
                 \/ dao_semaphore_wait(p) \/ dao_event_wait(p) \/ CondWait(p)
                 \/ WaitFails(p) \/ SpuriousWakeup(p) \/ dao_event_reset(p)
                 \/ LoadCount(p) \/ ReadlockCounts(p) \/ readunlock(p)
                 \/ ReadunlockOwn(p) \/ ReadunlockCounts(p) \/ LastReader(p)
                 \/ dao_event_fire(p) \/ free_handler(p)
          PROVE  Untimed'
      <3>1. UNCHANGED <<missed, wait>>
        BY <2>4
           DEF dao_semaphore_wait, dao_event_wait, CondWait, WaitFails,
               SpuriousWakeup, dao_event_reset, LoadCount, ReadlockCounts,
               readunlock, ReadunlockOwn, ReadunlockCounts, LastReader,
               dao_event_fire, free_handler
      <3> QED
        BY <1>2, <3>1
    <2>5. ASSUME NEW p \in Procs, ReleaseW(p) \/ ReleaseR(p) \/ writeunlock(p)
          PROVE  Untimed'
      <3>1. UNCHANGED wait /\ missed' \subseteq missed
        BY <2>5 DEF ReleaseW, ReleaseR, writeunlock, dao_semaphore_release
      <3> QED
        BY <1>2, <3>1
    <2> QED
      BY <1>2, <2>1, <2>2, <2>3, <2>4, <2>5 DEF Next, Proc
  <1>3. RInv => RWTypeOK
    BY DEF RInv
  <1>4. Spec => []Untimed
    BY <1>1, <1>2, <1>3, InitRInv, StepRInv, PTL DEF Spec
  <1>5. Untimed => missed = {}
    OBVIOUS
  <1> QED
    BY <1>4, <1>5, NobodySleepsForever, PTL

=============================================================================
