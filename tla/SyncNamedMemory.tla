-------------------------- MODULE SyncNamedMemory --------------------------
(***************************************************************************)
(* The life of a named object of ext/sync (common.h): the shared memory of *)
(* a name is created by the first process that opens it and never removed. *)
(* It starts with a status byte, a mutex and a count of the processes that *)
(* have it open; the semaphores and events behind it are initialised by    *)
(* the constructor of the object when dao_namedmem_init returns 0.         *)
(***************************************************************************)
EXTENDS Naturals

CONSTANTS
  Procs,
  NoProc,     \* nobody
  MaxOpens    \* bound on the openings of each process

VARIABLES
  exists,     \* the shared memory object has been created
  status,     \* its first byte
  mutex,      \* who has locked the mutex in front
  RefCount,   \* the reference count in front
  built,      \* the object behind is initialised
  pc,         \* where each process is
  opens       \* openings so far (bound)

vars == <<exists, status, mutex, RefCount, built, pc, opens>>

Init ==
  /\ exists = FALSE
  /\ status = 0
  /\ mutex = NoProc
  /\ RefCount = 0
  /\ built = FALSE
  /\ pc = [p \in Procs |-> "closed"]
  /\ opens = [p \in Procs |-> 0]

-----------------------------------------------------------------------------
Goto(p, place) == pc' = [pc EXCEPT ![p] = place]

\* shm_open with O_CREAT | O_EXCL succeeds for one process, the others attach.
shm_open(p) ==
  /\ pc[p] = "closed" /\ opens[p] < MaxOpens
  /\ opens' = [opens EXCEPT ![p] = @ + 1]
  /\ exists' = TRUE
  /\ Goto(p, IF exists THEN "attach" ELSE "create")
  /\ UNCHANGED <<status, mutex, RefCount, built>>

\* The creator initialises and keeps the mutex, and then sets the byte.
CreateMutex(p) ==
  /\ pc[p] = "create"
  /\ mutex' = p
  /\ status' = 1
  /\ RefCount' = 1
  /\ Goto(p, "construct")
  /\ UNCHANGED <<exists, built, opens>>

\* A process that attaches waits for the byte and then for the mutex.  If it
\* is the only one, it clears the memory so that its constructor builds the
\* object again, but gives the mutex away before.
Attach(p) ==
  /\ pc[p] = "attach" /\ status # 0 /\ mutex = NoProc
  /\ RefCount' = RefCount + 1
  /\ built' = (RefCount > 0 /\ built)
  /\ Goto(p, IF RefCount > 0 THEN "open" ELSE "construct")
  /\ UNCHANGED <<exists, status, mutex, opens>>

\* The constructor initialises the object of a process that is the first.
Construct(p) ==
  /\ pc[p] = "construct"
  /\ built' = TRUE
  /\ Goto(p, "ready")
  /\ UNCHANGED <<exists, status, mutex, RefCount, opens>>

\* The mutex is unlocked, by a process that opened the memory again without
\* having it.
dao_namedmem_ready(p) ==
  /\ pc[p] = "ready"
  /\ mutex' = NoProc
  /\ Goto(p, "open")
  /\ UNCHANGED <<exists, status, RefCount, built, opens>>

dao_namedmem_unmap(p) ==
  /\ pc[p] = "open" /\ mutex = NoProc
  /\ RefCount' = IF RefCount > 0 THEN RefCount - 1 ELSE 0
  /\ Goto(p, "closed")
  /\ UNCHANGED <<exists, status, mutex, built, opens>>

Next ==
  \E p \in Procs :
    \/ shm_open(p) \/ CreateMutex(p) \/ Attach(p) \/ Construct(p)
    \/ dao_namedmem_ready(p) \/ dao_namedmem_unmap(p)

Spec == Init /\ [][Next]_vars

-----------------------------------------------------------------------------
\* "First byte indicates initialization status (0 = completely uninitialized,
\* 1 = first mutex initialized, 2 = ready)": a process that has opened the
\* object finds it ready, that is, initialised.
OpenIsReady == \A p \in Procs : pc[p] = "open" => built
=============================================================================
