-------------------------- MODULE SyncReaderwriter --------------------------
(***************************************************************************)
(* Dao\Sync\Readerwriter (ext/sync/readerwriter.c and .h) on top of the    *)
(* semaphores and the event of ext/sync/common.h: processes that have      *)
(* opened one named object share two binary semaphores W                   *)
(* (MxPthreadWWaitMutex) and R (MxPthreadRCountMutex), a manual event E    *)
(* (MxPthreadRWaitEvent) and a count of readers.                           *)
(*                                                                         *)
(* A semaphore or event operation runs under the pthread mutex of its      *)
(* object and blocks only in pthread_cond_wait, which gives the mutex      *)
(* away; each stretch between is one step.  A sleeper that was signalled,  *)
(* or woke up for no reason, competes for the mutex again with everybody   *)
(* else.                                                                   *)
(***************************************************************************)
EXTENDS Naturals, FiniteSets

CONSTANTS
  Procs,       \* processes, with one object each that maps the shared memory
  MaxCalls,    \* MaxCalls[p] bounds the lock calls of p
  Amounts,     \* Amounts[p]: the wait amounts that p passes
  Nesting,     \* processes that wait without limit for a second lock
  Careless,    \* processes that unlock what they do not hold
  AutoUnlock   \* processes whose object has MxAutoUnlock

ASSUME ReaderwriterAssumption ==
  /\ IsFiniteSet(Procs)
  /\ MaxCalls \in [Procs -> Nat]
  /\ Amounts \in [Procs -> SUBSET {"INFINITE", "some", "none"}]
  /\ Nesting \subseteq Procs
  /\ Careless \subseteq Procs
  /\ AutoUnlock \subseteq Procs

VARIABLES
  count,      \* MxCount[0] of the semaphores W and R
  signaled,   \* MxSignaled[0] of the event
  asleep,     \* who sleeps in pthread_cond_wait of W, R or E
  RCount,     \* MxRCount[0]
  ReadLocks,  \* MxReadLocks of each object
  WriteLock,  \* MxWriteLock of each object
  pc,         \* where each process is
  wait,       \* the wait amount of its call: INFINITE, some or no time
  woken,      \* who has left pthread_cond_wait and not yet looked again
  dying,      \* objects that are being freed
  temp,       \* what a process read of MxRCount[0] and will write changed
  calls,      \* lock calls made so far (bound)
  held,       \* history: read locks that were given and not returned
  missed      \* history: semaphores whose signal went to a wait that timed out

vars == <<count, signaled, asleep, RCount, ReadLocks, WriteLock, pc, wait,
          woken, dying, temp, calls, held, missed>>

Sems  == {"W", "R"}
Conds == {"W", "R", "E"}

\* The waits a process can be in, with the object it waits for, and where it
\* goes on when the wait succeeds and when it fails.
WaitsFor == [rW |-> "W", rR |-> "R", uR |-> "R", wW |-> "W", wE |-> "E"]
Then     == [rW |-> "rR", rR |-> "rReset", uR |-> "uDec", wW |-> "wE",
             wE |-> "idle"]
Else     == [rW |-> "idle", rR |-> "giveW", wW |-> "idle", wE |-> "giveW",
             uR |-> "idle"]

Places == {"idle", "rW", "rR", "rReset", "rInc", "rStore", "rGiveR", "giveW",
           "uR", "uDec", "uLoad", "uStore", "uTest", "uFire", "giveR",
           "wW", "wE", "gone"}

RWTypeOK ==
  /\ count \in [Sems -> 0..1]
  /\ signaled \in BOOLEAN
  /\ asleep \in [Conds -> SUBSET Procs]
  /\ RCount \in Nat
  /\ ReadLocks \in [Procs -> Nat]
  /\ WriteLock \in [Procs -> BOOLEAN]
  /\ pc \in [Procs -> Places]
  /\ wait \in [Procs -> {"INFINITE", "some", "none"}]
  /\ woken \subseteq Procs
  /\ dying \subseteq Procs
  /\ temp \in [Procs -> Nat]
  /\ calls \in [Procs -> Nat]
  /\ missed \subseteq Sems

\* The constructor of the first process that opened the object.
Init ==
  /\ count = [s \in Sems |-> 1]
  /\ signaled = TRUE
  /\ asleep = [c \in Conds |-> {}]
  /\ RCount = 0
  /\ ReadLocks = [p \in Procs |-> 0]
  /\ WriteLock = [p \in Procs |-> FALSE]
  /\ pc = [p \in Procs |-> "idle"]
  /\ wait = [p \in Procs |-> "INFINITE"]
  /\ woken = {}
  /\ dying = {}
  /\ temp = [p \in Procs |-> 0]
  /\ calls = [p \in Procs |-> 0]
  /\ held = {}
  /\ missed = {}

-----------------------------------------------------------------------------
(***************************************************************************)
(* Semaphores and events.                                                  *)
(***************************************************************************)
Goto(p, place) == pc' = [pc EXCEPT ![p] = place]

Waiting(p) == pc[p] \in DOMAIN WaitsFor
Cond(p)    == WaitsFor[pc[p]]
Awake(p)   == Waiting(p) /\ p \notin asleep[Cond(p)]

\* readunlock always waits without limit.
Infinite(p) == wait[p] = "INFINITE" \/ pc[p] = "uR"

\* Mutant: a writer does not keep W while it waits for the readers.
WriterLeavesW(p) ==
  /\ Awake(p) /\ Cond(p) \in Sems /\ count[Cond(p)] > 0
  /\ count' = [count EXCEPT ![Cond(p)] = IF pc[p] = "wW" THEN @ ELSE @ - 1]
  /\ woken' = woken \ {p}
  /\ Goto(p, Then[pc[p]])
  /\ UNCHANGED <<signaled, asleep, RCount, ReadLocks, WriteLock, wait, dying,
                 temp, calls, held, missed>>

\* dao_semaphore_wait finds the count positive, at once or after a sleep.
dao_semaphore_wait(p) ==
  /\ Awake(p) /\ Cond(p) \in Sems /\ count[Cond(p)] > 0
  /\ count' = [count EXCEPT ![Cond(p)] = @ - 1]
  /\ woken' = woken \ {p}
  /\ Goto(p, Then[pc[p]])
  /\ UNCHANGED <<signaled, asleep, RCount, ReadLocks, WriteLock, wait, dying,
                 temp, calls, held, missed>>

\* dao_event_wait finds the event signalled: the writer has its lock.
dao_event_wait(p) ==
  /\ Awake(p) /\ Cond(p) = "E" /\ signaled
  /\ WriteLock' = [WriteLock EXCEPT ![p] = TRUE]
  /\ woken' = woken \ {p}
  /\ Goto(p, Then[pc[p]])
  /\ UNCHANGED <<count, signaled, asleep, RCount, ReadLocks, wait, dying,
                 temp, calls, held, missed>>

Available(c) == IF c = "E" THEN signaled ELSE count[c] > 0

\* Neither: the process sleeps, for the first time or once more.
CondWait(p) ==
  /\ Awake(p) /\ ~Available(Cond(p))
  /\ Infinite(p) \/ wait[p] = "some"
  /\ asleep' = [asleep EXCEPT ![Cond(p)] = @ \cup {p}]
  /\ woken' = woken \ {p}
  /\ UNCHANGED <<count, signaled, RCount, ReadLocks, WriteLock, pc, wait,
                 dying, temp, calls, held, missed>>

\* pthread_cond_wait may return without a signal.
SpuriousWakeup(p) ==
  /\ Waiting(p) /\ p \in asleep[Cond(p)]
  /\ asleep' = [asleep EXCEPT ![Cond(p)] = @ \ {p}]
  /\ woken' = woken \cup {p}
  /\ UNCHANGED <<count, signaled, RCount, ReadLocks, WriteLock, pc, wait,
                 dying, temp, calls, held, missed>>

\* The wait ends without success: the mutex of the object is taken (try-lock)
\* or the count is 0 for a call without waiting time, or nothing is left of
\* the waiting time when the second wait begins.
WaitFails(p) ==
  /\ Awake(p) /\ ~Infinite(p) /\ p \notin woken
  /\ wait[p] = "none" \/ pc[p] \in {"rR", "wE"}
  /\ Goto(p, Else[pc[p]])
  /\ UNCHANGED <<count, signaled, asleep, RCount, ReadLocks, WriteLock, wait,
                 woken, dying, temp, calls, held, missed>>

\* pthread_cond_timedwait reaches its deadline.  The process does not look at
\* the object again, also when the deadline passed while it was being woken:
\* POSIX lets such a wait consume the signal.
Timeout(p) ==
  /\ Waiting(p) /\ wait[p] = "some" /\ ~Infinite(p)
  /\ p \in asleep[Cond(p)] \cup woken
  /\ asleep' = [asleep EXCEPT ![Cond(p)] = @ \ {p}]
  /\ woken' = woken \ {p}
  /\ missed' = missed \cup (IF p \in woken THEN {Cond(p)} \cap Sems ELSE {})
  /\ Goto(p, Else[pc[p]])
  /\ UNCHANGED <<count, signaled, RCount, ReadLocks, WriteLock, wait, dying,
                 temp, calls, held>>

\* Mutant: nobody is signalled.
ReleaseSilently(s) ==
  /\ count' = [count EXCEPT ![s] = 1]
  /\ missed' = missed \ {s}
  /\ UNCHANGED <<asleep, woken>>

\* The count goes up to its maximum, 1, and one sleeper is signalled.
dao_semaphore_release(s) ==
  /\ count' = [count EXCEPT ![s] = 1]
  /\ missed' = missed \ {s}
  /\ \/ asleep[s] = {} /\ UNCHANGED <<asleep, woken>>
     \/ \E q \in asleep[s] :
          /\ asleep' = [asleep EXCEPT ![s] = @ \ {q}]
          /\ woken' = woken \cup {q}

-----------------------------------------------------------------------------
(***************************************************************************)
(* The methods of the object.                                              *)
(***************************************************************************)
Holds(p) == ReadLocks[p] > 0 \/ WriteLock[p]

\* readlock (place rW) and writelock (place wW) up to the wait for W.
LockCall(p, place, w) ==
  /\ pc[p] = "idle" /\ p \notin dying /\ calls[p] < MaxCalls[p]
  /\ w = "INFINITE" /\ Holds(p) => p \in Nesting
  /\ calls' = [calls EXCEPT ![p] = @ + 1]
  /\ wait' = [wait EXCEPT ![p] = w]
  /\ Goto(p, place)
  /\ UNCHANGED <<count, signaled, asleep, RCount, ReadLocks, WriteLock, woken,
                 dying, temp, held, missed>>

\* readlock with both semaphores: the event is reset ...
dao_event_reset(p) ==
  /\ pc[p] = "rReset"
  /\ signaled' = FALSE
  /\ Goto(p, "rInc")
  /\ UNCHANGED <<count, asleep, RCount, ReadLocks, WriteLock, wait, woken,
                 dying, temp, calls, held, missed>>

\* ... and the reader is counted, by a plain increment of the shared count:
\* a read, and a write of what was read and changed.  The decrement in
\* readunlock begins with such a read too.
LoadCount(p) ==
  /\ pc[p] \in {"rInc", "uLoad"}
  /\ temp' = [temp EXCEPT ![p] = RCount]
  /\ Goto(p, IF pc[p] = "rInc" THEN "rStore" ELSE "uStore")
  /\ UNCHANGED <<count, signaled, asleep, RCount, ReadLocks, WriteLock, wait,
                 woken, dying, calls, held, missed>>

ReadlockCounts(p) ==
  /\ pc[p] = "rStore"
  /\ RCount' = temp[p] + 1
  /\ ReadLocks' = [ReadLocks EXCEPT ![p] = @ + 1]
  /\ held' = held \cup {<<p, calls[p]>>}
  /\ temp' = [temp EXCEPT ![p] = 0]
  /\ Goto(p, "rGiveR")
  /\ UNCHANGED <<count, signaled, asleep, WriteLock, wait, woken, dying, calls,
                 missed>>

\* Mutant: W is not given back.
ReturnKeepsW(p) ==
  /\ pc[p] = "giveW"
  /\ Goto(p, "idle")
  /\ UNCHANGED <<count, signaled, asleep, RCount, ReadLocks, WriteLock, wait,
                 woken, dying, temp, calls, held, missed>>

\* readlock returns, and readlock or writelock fails, after releasing W.
ReleaseW(p) ==
  /\ pc[p] = "giveW"
  /\ dao_semaphore_release("W")
  /\ Goto(p, "idle")
  /\ UNCHANGED <<signaled, RCount, ReadLocks, WriteLock, wait, dying, temp,
                 calls, held>>

\* Mutant: the counts are changed without waiting for R.
ReadunlockWithoutR(p) ==
  /\ pc[p] = "idle"
  /\ IF p \in dying THEN p \in AutoUnlock /\ ReadLocks[p] > 0
                    ELSE p \in Careless \/ ReadLocks[p] > 0
  /\ Goto(p, "uDec")
  /\ UNCHANGED <<count, signaled, asleep, RCount, ReadLocks, WriteLock, wait,
                 woken, dying, temp, calls, held, missed>>

\* readunlock, called by the program or by the destructor of the object.
readunlock(p) ==
  /\ pc[p] = "idle"
  /\ IF p \in dying THEN p \in AutoUnlock /\ ReadLocks[p] > 0
                    ELSE p \in Careless \/ ReadLocks[p] > 0
  /\ Goto(p, "uR")
  /\ UNCHANGED <<count, signaled, asleep, RCount, ReadLocks, WriteLock, wait,
                 woken, dying, temp, calls, held, missed>>

\* Read locks that process p holds.
Mine(p) == {t \in held : t[1] = p}

\* With R: the object forgets the lock, and the call fails when no reader is
\* counted.
ReadunlockOwn(p) ==
  /\ pc[p] = "uDec"
  /\ ReadLocks' = [ReadLocks EXCEPT ![p] = IF @ > 0 THEN @ - 1 ELSE 0]
  /\ Goto(p, IF RCount > 0 THEN "uLoad" ELSE "giveR")
  /\ UNCHANGED <<count, signaled, asleep, RCount, WriteLock, wait, woken,
                 dying, temp, calls, held, missed>>

\* The write of the decrement, after LoadCount.
ReadunlockCounts(p) ==
  /\ pc[p] = "uStore"
  /\ RCount' = temp[p] - 1
  /\ held' = IF Mine(p) = {} THEN held ELSE held \ {CHOOSE t \in Mine(p) : TRUE}
  /\ temp' = [temp EXCEPT ![p] = 0]
  /\ Goto(p, "uTest")
  /\ UNCHANGED <<count, signaled, asleep, ReadLocks, WriteLock, wait, woken,
                 dying, calls, missed>>

\* Mutant: the event fires for the last lock of the process.
LastOfProcess(p) ==
  /\ pc[p] = "uTest"
  /\ Goto(p, IF ReadLocks[p] = 0 THEN "uFire" ELSE "giveR")
  /\ UNCHANGED <<count, signaled, asleep, RCount, ReadLocks, WriteLock, wait,
                 woken, dying, temp, calls, held, missed>>

\* Was it the last reader?
LastReader(p) ==
  /\ pc[p] = "uTest"
  /\ Goto(p, IF RCount = 0 THEN "uFire" ELSE "giveR")
  /\ UNCHANGED <<count, signaled, asleep, RCount, ReadLocks, WriteLock, wait,
                 woken, dying, temp, calls, held, missed>>

\* The last reader fires the event: everybody who sleeps on it is woken.
dao_event_fire(p) ==
  /\ pc[p] = "uFire"
  /\ signaled' = TRUE
  /\ asleep' = [asleep EXCEPT !["E"] = {}]
  /\ woken' = woken \cup asleep["E"]
  /\ Goto(p, "giveR")
  /\ UNCHANGED <<count, RCount, ReadLocks, WriteLock, wait, dying, temp, calls,
                 held, missed>>

\* readlock goes on to release W, readunlock returns.
ReleaseR(p) ==
  /\ pc[p] \in {"rGiveR", "giveR"}
  /\ dao_semaphore_release("R")
  /\ Goto(p, IF pc[p] = "rGiveR" THEN "giveW" ELSE "idle")
  /\ UNCHANGED <<signaled, RCount, ReadLocks, WriteLock, wait, dying, temp,
                 calls, held>>

writeunlock(p) ==
  /\ pc[p] = "idle"
  /\ IF p \in dying THEN p \in AutoUnlock /\ ReadLocks[p] = 0 /\ WriteLock[p]
                    ELSE p \in Careless \/ WriteLock[p]
  /\ WriteLock' = [WriteLock EXCEPT ![p] = FALSE]
  /\ dao_semaphore_release("W")
  /\ UNCHANGED <<signaled, RCount, ReadLocks, pc, wait, dying, temp, calls,
                 held>>

\* The object is freed: its destructor first returns every lock it has, if
\* it unlocks automatically, and then unmaps the memory.
free_handler(p) ==
  /\ pc[p] = "idle"
  /\ \/ /\ p \notin dying
        /\ dying' = dying \cup {p}
        /\ UNCHANGED pc
     \/ /\ p \in dying
        /\ p \in AutoUnlock => ~Holds(p)
        /\ Goto(p, "gone")
        /\ UNCHANGED dying
  /\ UNCHANGED <<count, signaled, asleep, RCount, ReadLocks, WriteLock, wait,
                 woken, temp, calls, held, missed>>

-----------------------------------------------------------------------------
Proc(p) ==
  \/ \E place \in {"rW", "wW"}, w \in Amounts[p] : LockCall(p, place, w)
  \/ dao_semaphore_wait(p) \/ dao_event_wait(p) \/ CondWait(p)
  \/ WaitFails(p) \/ Timeout(p)
  \/ dao_event_reset(p) \/ LoadCount(p) \/ ReadlockCounts(p) \/ ReleaseW(p)
  \/ readunlock(p) \/ ReadunlockOwn(p) \/ ReadunlockCounts(p) \/ LastReader(p)
  \/ dao_event_fire(p) \/ ReleaseR(p)
  \/ writeunlock(p)
  \/ free_handler(p)

Next == \E p \in Procs : Proc(p) \/ SpuriousWakeup(p)

Spec == Init /\ [][Next]_vars

\* Each process is scheduled, and a deadline is absolute: a process that
\* keeps waking up for no reason still reaches it.
FairSpec ==
  /\ Spec
  /\ \A p \in Procs : WF_vars(Proc(p)) /\ WF_vars(Timeout(p))

-----------------------------------------------------------------------------
(***************************************************************************)
(* Properties.                                                             *)
(***************************************************************************)

\* A writer is alone: nobody, not even the writer itself, holds a read lock,
\* and no second writer has the lock.  Nothing but the order of the steps
\* around the two semaphores and the event makes it so.
Exclusion ==
  \A p, q \in Procs :
    WriteLock[p] => ReadLocks[q] = 0 /\ (q # p => ~WriteLock[q])

\* The shared count is the number of read locks given and not returned, and
\* each object knows its own: between the read and the write of a process
\* that changes the count no other process writes it, so no increment or
\* decrement is lost.  Nothing but the ownership of R makes it so.
ReadersCounted ==
  /\ RCount = Cardinality(held)
  /\ \A p \in Procs :
       Cardinality(Mine(p)) =
         ReadLocks[p] + (IF pc[p] \in {"uLoad", "uStore"} THEN 1 ELSE 0)

\* Nobody sleeps on a semaphore that is free unless somebody is on the way to
\* take it or the last signal went to a wait that timed out, and nobody sleeps
\* on an event that is signalled.  So a wake-up is lost in that one case (a
\* defect: dao_semaphore_wait does not look at the count again), and never
\* between the check and the sleep, by a spurious wake-up or to a process that
\* overtakes the one that was woken.
NoSleeperForgotten ==
  /\ signaled => asleep["E"] = {}
  /\ \A s \in Sems :
       asleep[s] # {} /\ count[s] = 1 =>
         \/ s \in missed
         \/ \E q \in Procs : Awake(q) /\ Cond(q) = s /\ q \in woken

\* "Guarantees that readers can't starve the writer" (readlock): while a
\* writer has W and waits for the readers to leave, or has its lock, no reader
\* comes in.
NoOvertaking ==
  [][(\E p \in Procs : pc[p] = "wE" \/ WriteLock[p]) => RCount' <= RCount]_vars

\* Sleeps on a free semaphore whose signal a timed-out wait has consumed.
Forgotten(p) ==
  \E s \in missed : Waiting(p) /\ p \in asleep[s] /\ count[s] = 1

\* Every call returns, unless somebody sleeps on a semaphore whose signal a
\* timed-out wait consumed: that process, and whoever waits for its lock, may
\* wait for ever.  Otherwise a writer gets the lock once the readers have left,
\* and the semaphores are released on every path of failure too.  A program
\* makes finitely many calls here; under an endless flow of readers that take
\* W before a writer that was woken, a writer need not get W.
CallsReturn ==
  \A p \in Procs :
    pc[p] # "idle" ~>
      pc[p] \in {"idle", "gone"} \/ \E q \in Procs : Forgotten(q)
=============================================================================
