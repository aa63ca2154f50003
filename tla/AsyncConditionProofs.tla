------------------------ MODULE AsyncConditionProofs ------------------------
(***************************************************************************)
(* Theorems of AsyncCondition for any tasks, contexts and bounds on the    *)
(* number of calls: no fiber is ever in two places or lost, the deferred   *)
(* wake-ups are counted exactly, the program ends cleanly, a settled       *)
(* outcome is never overwritten and waiters return in the order in which   *)
(* they were woken.                                                        *)
(***************************************************************************)
EXTENDS AsyncCondition, AsyncSchedulerProofs

-----------------------------------------------------------------------------
(***************************************************************************)
(* The inductive invariant.                                                *)
(***************************************************************************)

\* Where the code of each fiber is, and what that says of its place.
Library == {"run", "cancel", "close", "dispose", "shutdown"}
Places  == Library \cup {"wait", "drain", "done"}

PlacedAt(f) ==
  /\ pc[f] \in Library => f \in Active \/ f \in Range(ready)
  /\ pc[f] = "wait" =>
       /\ op[f] = "RUNNING" => f \notin Active /\ f \notin Range(ready)
       /\ op[f] # "RUNNING" => Settled(f) /\ (f = cur \/ f \in Range(ready))
  /\ pc[f] # "wait" => op[f] = "PENDING"
  /\ pc[f] \in {"drain", "dispose", "shutdown"} => f = Root
  /\ pc[f] = "dispose" => f = cur
  /\ pc[f] = "drain" => f \notin Active /\ f \notin Range(ready)
  /\ f \in Tasks /\ pc[f] = "done" => f \notin Active /\ f \notin Range(ready)
  /\ f \in Range(fibers) => pc[f] \in {"run", "cancel", "close", "shutdown"}
  /\ f \in Range(ready) => pc[f] \in {"run", "wait"}

Placed ==
  /\ pc[Runner] \in {"run", "cancel"}
  /\ \A f \in Fibers : PlacedAt(f)

\* The waiting list holds exactly the operations that are still running, and
\* the one that was cancelled until its fiber, which runs, unlinks it.
Listed ==
  /\ IsInjective(waiting)
  /\ \A f \in Range(waiting) :
       /\ pc[f] = "wait"
       /\ op[f] = "RUNNING" \/ (f = cur /\ op[f] = "FAILED")
  /\ \A f \in Fibers :
       op[f] = "RUNNING" => f \in Range(waiting) /\ status[f] = "SUSPENDED"

\* A deferred wake-up is one that broadcast, or signal behind it, resolved.
Deferred ==
  /\ \A f \in defer : op[f] = "RESOLVED"
  /\ broadcast = Cardinality(defer)

\* The callbacks of the cancellation scope are those of blocked fibers.
Registered ==
  /\ IsInjective(callbacks)
  /\ \A f \in Range(callbacks) : pc[f] = "wait"

\* Somebody is in the loop of shutdown_cond_cb while it has something to do,
\* and the disposal does not drain the loop before the condition is closed.
Closing ==
  /\ closed /\ waiting # <<>> =>
       \E f \in Fibers : pc[f] \in {"close", "shutdown"}
  /\ disposed => pc[Root] \in {"dispose", "shutdown", "drain", "done"}
  /\ pc[Root] \in {"dispose", "shutdown", "done"} => disposed
  /\ disposed /\ pc[Root] = "drain" => closed

\* The program has ended.
Ended ==
  pc[Root] = "done" =>
    /\ cur = Root /\ fibers = <<>> /\ ready = <<>> /\ callbacks = <<>>
    /\ \A t \in Tasks : pc[t] = "done"

\* The woken waiters that have not returned: the first may run, the others are
\* on the ready list in the order in which they were woken.
Ordered ==
  /\ IsInjective(woken)
  /\ \A f \in Range(woken) : op[f] = "RESOLVED" /\ (f = cur \/ f \in defer)
  /\ \A i, j \in 1..Len(woken) :
       i < j => \E b \in 1..Len(ready) :
                  /\ ready[b] = woken[j]
                  /\ \/ woken[i] = cur
                     \/ \E a \in 1..Len(ready) : a < b /\ ready[a] = woken[i]

CondTypes ==
  /\ pc \in [Fibers \cup {Runner} -> Places]
  /\ callbacks \in Seq(Fibers)
  /\ waiting \in Seq(Fibers)
  /\ broadcast \in Nat
  /\ closed \in BOOLEAN
  /\ woken \in Seq(Fibers)

IInv ==
  /\ FiberLists /\ Bookkeeping /\ CondTypes /\ BusyExact
  /\ Single
  /\ Placed
  /\ Listed
  /\ Deferred
  /\ Registered
  /\ Closing
  /\ Ended
  /\ Ordered

-----------------------------------------------------------------------------
(***************************************************************************)
(* The three ways in which a step moves fibers.                            *)
(***************************************************************************)

\* The current fiber goes on elsewhere in the code.
LEMMA Moves ==
  ASSUME IInv, NEW l \in Library,
         pc' = [pc EXCEPT ![cur] = l], pc[cur] \in Library,
         cur = Runner => l \in {"run", "cancel"},
         l \in {"dispose", "shutdown"} => cur = Root,
         UNCHANGED <<cur, fibers, ready, op>>
  PROVE  Single' /\ Placed'
<1>1. Single' /\ Active' = Active /\ cur \in Active /\ cur \notin Range(ready)
  BY DEF IInv, Single, Active
<1>2. Placed'
  BY <1>1 DEF IInv, Placed, PlacedAt, CondTypes, FiberLists, Settled, Library, Active, Single
<1> QED
  BY <1>1, <1>2

\* The current fiber suspends: it blocks, runs the loop or ends.
LEMMA Suspends ==
  ASSUME IInv, cur \in Fibers, pc[cur] \in {"run", "dispose"}, NEW l,
         pc' = [pc EXCEPT ![cur] = l], async_fiber_suspend, UNCHANGED ready,
         \/ l = "wait" /\ op' = [op EXCEPT ![cur] = "RUNNING"]
         \/ l = "drain" /\ cur = Root /\ UNCHANGED op
         \/ l = "done" /\ cur \in Tasks /\ UNCHANGED op
  PROVE  Single' /\ Placed'
<1>1. /\ Single' /\ cur \notin Active'
      /\ \A g \in Fibers : g # cur => (g \in Active' <=> g \in Active)
  BY SuspendPlaces DEF IInv
<1>2. cur \notin Range(ready) /\ cur # Runner
  BY SchedulerAssumption DEF IInv, Single, Active
<1>3. /\ \A g \in Fibers : g = cur' \/ g \in Range(fibers') <=> g \in Active'
      /\ \A g \in Fibers : g = cur \/ g \in Range(fibers) <=> g \in Active
  BY DEF Active
<1>4. pc'[Runner] \in {"run", "cancel"}
  BY <1>2 DEF IInv, Placed, CondTypes
<1>5. ASSUME NEW g \in Fibers PROVE PlacedAt(g)'
  <2>1. CASE g = cur
    BY <1>1, <1>2, <1>3, <2>1 DEF IInv, Placed, PlacedAt, CondTypes, FiberLists, Settled, Library
  <2>2. CASE g # cur
    BY <1>1, <1>2, <1>3, <2>2 DEF IInv, Placed, PlacedAt, CondTypes, FiberLists, Settled, Library
  <2> QED
    BY <2>1, <2>2
<1> QED
  BY <1>1, <1>4, <1>5 DEF Placed

\* The operation of a blocked fiber is finished and the fiber resumed at once.
LEMMA Resumes ==
  ASSUME IInv, pc[cur] \in {"run", "cancel", "close", "shutdown"},
         NEW w \in Fibers, op[w] = "RUNNING",
         NEW o \in {"RESOLVED", "FAILED"}, op' = [op EXCEPT ![w] = o],
         async_fiber_switch(w), UNCHANGED <<ready, pc>>
  PROVE  /\ Single' /\ Placed' /\ cur' = w
         /\ w \notin Active /\ w \notin Range(ready) /\ pc[w] = "wait"
<1>1. pc[w] = "wait" /\ w \notin Active /\ w \notin Range(ready)
  BY DEF IInv, Placed, PlacedAt
<1>2. Single' /\ cur' = w /\ Active' = Active \cup {w}
  BY <1>1, SwitchPlaces DEF IInv, FiberLists, Single
<1>3. Range(fibers') = Active
  <2>1. fibers' = <<cur>> \o fibers
    BY DEF async_fiber_switch
  <2>2. Range(fibers') = Range(fibers) \cup {cur}
    BY <2>1, PrependList, SMTT(30) DEF IInv, FiberLists
  <2> QED
    BY <2>2 DEF Active
<1>4. \A g : g \in Active <=> g = cur \/ g \in Range(fibers)
  BY DEF Active
<1>5. ASSUME NEW g \in Fibers PROVE PlacedAt(g)'
  <2>1. CASE g = w
    BY <1>1, <1>2, <1>3, <1>4, <2>1 DEF IInv, Placed, PlacedAt, CondTypes, FiberLists, Settled, Library
  <2>2. CASE g # w
    BY <1>1, <1>2, <1>3, <1>4, <2>2 DEF IInv, Placed, PlacedAt, CondTypes, FiberLists, Settled, Library
  <2> QED
    BY <2>1, <2>2
<1>6. Placed'
  BY <1>5 DEF IInv, Placed
<1> QED
  BY <1>1, <1>2, <1>6

\* The program has not ended while some fiber has something to do.
LEMMA NotEnded ==
  ASSUME IInv, pc[cur] # "done"
  PROVE  pc[Root] # "done"
  BY DEF IInv, Ended

\* A step of a fiber that is not among the woken waiters keeps their order if
\* it leaves them and the ready list alone.
LEMMA OrderKept ==
  ASSUME IInv, cur \notin Range(woken), UNCHANGED <<ready, woken>>,
         \A g \in Range(woken) :
           op'[g] = op[g] /\ (g \in defer => g \in defer')
  PROVE  Ordered'
<1>1. \A i \in 1..Len(woken) : woken[i] \in Range(woken)
  BY InList DEF IInv, CondTypes
<1>2. \A g \in Range(woken) : g \in defer
  BY DEF IInv, Ordered
<1>3. \A i, j \in 1..Len(woken) :
        i < j => \E b \in 1..Len(ready) :
                   /\ ready[b] = woken[j]
                   /\ \E a \in 1..Len(ready) : a < b /\ ready[a] = woken[i]
  BY <1>1 DEF IInv, Ordered
<1>4. \A g \in Range(woken) : op[g] = "RESOLVED"
  BY DEF IInv, Ordered
<1>5. IsInjective(woken)
  BY DEF IInv, Ordered
<1> QED
  BY <1>2, <1>3, <1>4, <1>5 DEF Ordered

\* A fiber that is not blocked is not among the woken or deferred ones.
LEMMA NotWoken ==
  ASSUME IInv, NEW f \in Fibers \cup {Runner}, f = Runner \/ pc[f] # "wait"
  PROVE  /\ f \notin Range(woken) /\ f \notin defer /\ f \notin Range(waiting)
         /\ f \notin Range(callbacks)
<1>1. /\ Range(woken) \subseteq Fibers /\ defer \subseteq Fibers
      /\ Range(waiting) \subseteq Fibers /\ Range(callbacks) \subseteq Fibers
  BY InList DEF IInv, CondTypes, Bookkeeping
<1>2. CASE f = Runner
  BY <1>1, <1>2, SchedulerAssumption
<1>3. CASE f \in Fibers /\ pc[f] # "wait"
  <2>1. op[f] = "PENDING"
    BY <1>3 DEF IInv, Placed, PlacedAt
  <2> QED
    BY <1>3, <2>1 DEF IInv, Ordered, Deferred, Listed, Registered
<1> QED
  BY <1>2, <1>3

\* Otherwise they all are on the ready list.
LEMMA WokenReady ==
  ASSUME IInv, cur \notin Range(woken)
  PROVE  \A g \in Range(woken) : g \in defer /\ g \in Range(ready)
<1>1. Range(woken) \subseteq Fibers
  BY InList DEF IInv, CondTypes
<1> QED
  BY <1>1 DEF IInv, Ordered, Placed, PlacedAt

\* A woken waiter that runs is the first of them.
LEMMA WokenFirst ==
  ASSUME IInv, cur \in Range(woken)
  PROVE  woken # <<>> /\ woken[1] = cur /\ Head(woken) = cur
<1>1. /\ Len(woken) \in Nat /\ woken # <<>>
      /\ \E k \in 1..Len(woken) : woken[k] = cur
  BY InList DEF IInv, CondTypes
<1>2. \A b \in 1..Len(ready) : ready[b] # cur
  BY InList DEF IInv, FiberLists, Single, Active
<1>3. PICK k \in 1..Len(woken) : woken[k] = cur
  BY <1>1
<1>4. 1 < k => \E b \in 1..Len(ready) : ready[b] = woken[k]
  BY <1>1, <1>3 DEF IInv, Ordered
<1> QED
  BY <1>1, <1>2, <1>3, <1>4

\* Waiters woken together go behind the others, on both lists.
LEMMA OrderExtended ==
  ASSUME IInv, cur \notin Range(woken), UNCHANGED cur,
         NEW s \in Seq(Fibers), IsInjective(s), Range(s) \cap Range(woken) = {},
         ready' = ready \o s, woken' = woken \o s,
         \A g \in Range(s) : op'[g] = "RESOLVED" /\ g \in defer',
         \A g \in Range(woken) :
           op'[g] = op[g] /\ (g \in defer => g \in defer')
  PROVE  Ordered'
<1>1. /\ Range(woken') = Range(woken) \cup Range(s)
      /\ IsInjective(woken')
  BY ConcatList DEF IInv, CondTypes, Ordered
<1>2. \A g \in Range(woken') : op'[g] = "RESOLVED" /\ g \in defer'
  BY <1>1, WokenReady DEF IInv, Ordered
<1>3. /\ Len(woken) \in Nat /\ Len(ready) \in Nat /\ Len(s) \in Nat
      /\ Len(woken') = Len(woken) + Len(s) /\ Len(ready') = Len(ready) + Len(s)
      /\ \A k \in 1..Len(woken) + Len(s) :
           woken'[k] = IF k <= Len(woken) THEN woken[k] ELSE s[k - Len(woken)]
      /\ \A k \in 1..Len(ready) + Len(s) :
           ready'[k] = IF k <= Len(ready) THEN ready[k] ELSE s[k - Len(ready)]
  BY ConcatProperties, LenProperties DEF IInv, CondTypes, FiberLists
<1>4. \A i \in 1..Len(woken) : \E a \in 1..Len(ready) : ready[a] = woken[i]
  BY WokenReady, InList DEF IInv, CondTypes, FiberLists
<1>5. \A i \in 1..Len(woken') : i <= Len(woken) \/ i > Len(woken)
  BY <1>3
<1>6. ASSUME NEW i \in 1..Len(woken'), NEW j \in 1..Len(woken'), i < j
      PROVE  \E b \in 1..Len(ready') :
               /\ ready'[b] = woken'[j]
               /\ \E a \in 1..Len(ready') : a < b /\ ready'[a] = woken'[i]
  <2>1. CASE j <= Len(woken)
    <3>1. i \in 1..Len(woken) /\ j \in 1..Len(woken) /\ woken[i] # cur
      BY <1>3, <1>6, <2>1, InList DEF IInv, CondTypes
    <3>2. PICK b \in 1..Len(ready) :
            /\ ready[b] = woken[j]
            /\ \E a \in 1..Len(ready) : a < b /\ ready[a] = woken[i]
      BY <1>6, <3>1 DEF IInv, Ordered
    <3>3. PICK a \in 1..Len(ready) : a < b /\ ready[a] = woken[i]
      BY <3>2
    <3>4. /\ a \in 1..Len(ready') /\ b \in 1..Len(ready')
          /\ ready'[a] = ready[a] /\ ready'[b] = ready[b]
          /\ woken'[i] = woken[i] /\ woken'[j] = woken[j]
      BY <1>3, <3>1
    <3> QED
      BY <3>2, <3>3, <3>4
  <2>2. CASE j > Len(woken)
    <3> DEFINE b == Len(ready) + (j - Len(woken))
    <3>1. /\ b \in 1..Len(ready') /\ b > Len(ready)
          /\ ready'[b] = s[j - Len(woken)] /\ woken'[j] = s[j - Len(woken)]
      <4>1. b - Len(ready) = j - Len(woken)
        BY <1>3
      <4>2. b \in 1..Len(ready) + Len(s) /\ b > Len(ready)
        BY <1>3, <2>2
      <4>3. ready'[b] = s[b - Len(ready)]
        BY <1>3, <4>2
      <4> QED
        BY <1>3, <2>2, <4>1, <4>2, <4>3
    <3> HIDE DEF b
    <3>2. CASE i <= Len(woken)
      <4>1. PICK a \in 1..Len(ready) : ready[a] = woken[i]
        BY <1>3, <1>4, <3>2
      <4>2. a \in 1..Len(ready') /\ a < b /\ ready'[a] = woken'[i]
        BY <1>3, <3>1, <3>2, <4>1
      <4> QED
        BY <3>1, <4>2
    <3>3. CASE i > Len(woken)
      <4> DEFINE a == Len(ready) + (i - Len(woken))
      <4>1. a - Len(ready) = i - Len(woken) /\ a < b
        BY <1>3, <1>6 DEF b
      <4>2. a \in 1..Len(ready) + Len(s) /\ a > Len(ready)
        BY <1>3, <3>3
      <4>3. ready'[a] = s[a - Len(ready)] /\ woken'[i] = s[i - Len(woken)]
        BY <1>3, <3>3, <4>2
      <4>4. a \in 1..Len(ready') /\ a < b /\ ready'[a] = woken'[i]
        BY <1>3, <4>1, <4>2, <4>3
      <4> HIDE DEF a
      <4> QED
        BY <3>1, <4>4
    <3> QED
      BY <1>5, <3>2, <3>3
  <2> QED
    BY <1>5, <2>1, <2>2
<1>7. \A i, j \in 1..Len(woken') :
        i < j => \E b \in 1..Len(ready') :
                   /\ ready'[b] = woken'[j]
                   /\ \/ woken'[i] = cur'
                      \/ \E a \in 1..Len(ready') : a < b /\ ready'[a] = woken'[i]
  <2>1. SUFFICES ASSUME NEW i \in 1..Len(woken'), NEW j \in 1..Len(woken'), i < j
                 PROVE  \E b \in 1..Len(ready') :
                          /\ ready'[b] = woken'[j]
                          /\ \/ woken'[i] = cur'
                             \/ \E a \in 1..Len(ready') :
                                  a < b /\ ready'[a] = woken'[i]
    BY Zenon
  <2>2. PICK b \in 1..Len(ready') :
          /\ ready'[b] = woken'[j]
          /\ \E a \in 1..Len(ready') : a < b /\ ready'[a] = woken'[i]
    BY <1>6, <2>1, Zenon
  <2> QED
    BY <2>2, Zenon
<1> QED
  BY <1>1, <1>2, <1>7, Zenon DEF Ordered

\* A call that returns at once.
LEMMA CallOnly ==
  ASSUME IInv, Bookkeeping',
         UNCHANGED <<cur, fibers, ready, status, pc, op, defer, busy, callbacks,
                     triggered, disposed, waiting, broadcast, closed, woken>>
  PROVE  IInv'
<1>1. FiberLists' /\ CondTypes' /\ BusyExact'
  BY DEF IInv, FiberLists, CondTypes, BusyExact
<1>2. Single' /\ Placed'
  BY DEF IInv, Single, Active, Placed, PlacedAt, Settled
<1>3. Listed' /\ Deferred' /\ Registered'
  BY DEF IInv, Listed, Deferred, Registered
<1>4. Closing' /\ Ended' /\ Ordered'
  BY DEF IInv, Closing, Ended, Ordered
<1> QED
  BY <1>1, <1>2, <1>3, <1>4 DEF IInv

-----------------------------------------------------------------------------
(***************************************************************************)
(* The actions.                                                            *)
(***************************************************************************)

\* wait, refused or up to the suspension.
LEMMA WaitStep ==
  ASSUME IInv, NEW f \in Fibers, wait(f)
  PROVE  IInv'
<1>1. /\ cur = f /\ pc[f] = "run" /\ Bookkeeping'
      /\ UNCHANGED <<ready, defer, triggered, disposed, broadcast, closed, woken>>
  BY CallFlags DEF IInv, wait, MayCall
<1>2. CASE closed \/ AwaitRefused(f)
  BY <1>1, <1>2, CallOnly DEF wait
<1>3. CASE ~(closed \/ AwaitRefused(f))
  <2>1. waiting' = Append(waiting, f) /\ AwaitOp(f, "wait") /\ ~closed /\ ~disposed
    BY <1>3 DEF wait, AwaitRefused
  <2>2. /\ op' = [op EXCEPT ![f] = "RUNNING"]
        /\ status' = [status EXCEPT ![f] = "SUSPENDED"]
        /\ callbacks' = IF f \in Cancellable THEN Append(callbacks, f) ELSE callbacks
        /\ pc' = [pc EXCEPT ![f] = "wait"]
        /\ busy' = IF f \in Background THEN busy ELSE busy + 1
        /\ async_fiber_suspend
    BY <2>1 DEF AwaitOp, AwaitSuspend
  <2>3. FiberLists'
    BY <1>1, <2>2, SuspendType DEF IInv, FiberLists, OpStatus, TaskStatus
  <2>4. /\ waiting' \in Seq(Fibers) /\ Range(waiting') = Range(waiting) \cup {f}
        /\ IsInjective(waiting')
    BY <1>1, <2>1, AppendList, NotWoken DEF IInv, CondTypes, Listed
  <2>5. /\ callbacks' \in Seq(Fibers) /\ IsInjective(callbacks')
        /\ Range(callbacks') \subseteq Range(callbacks) \cup {f}
    BY <1>1, <2>2, AppendList, NotWoken DEF IInv, CondTypes, Registered
  <2>6. CondTypes'
    BY <1>1, <2>2, <2>4, <2>5 DEF IInv, CondTypes, Places
  <2>7. BusyExact'
    BY <1>1, <2>2, BusyUp DEF IInv, CondTypes, Awaiting
  <2>8. Single' /\ Placed'
    BY <1>1, <2>2, Suspends
  <2>9. Listed'
    BY <1>1, <2>2, <2>4 DEF IInv, Listed, CondTypes, FiberLists
  <2>10. Deferred' /\ Registered'
    BY <1>1, <2>2, <2>5, NotWoken DEF IInv, Deferred, Registered, CondTypes, FiberLists
  <2>11. Closing'
    BY <1>1, <2>1, <2>2 DEF IInv, Closing, CondTypes
  <2>12. Ended'
    BY <1>1, <2>2, NotEnded DEF Ended, IInv, CondTypes
  <2>13. Ordered'
    BY <1>1, <2>2, NotWoken, OrderKept DEF IInv, FiberLists
  <2> QED
    BY <1>1, <2>3, <2>6, <2>7, <2>8, <2>9, <2>10, <2>11, <2>12, <2>13 DEF IInv
<1> QED
  BY <1>2, <1>3

\* The rest of wait.
LEMMA WaitReturnsStep ==
  ASSUME IInv, NEW f \in Fibers, WaitReturns(f)
  PROVE  IInv'
<1>1. /\ cur = f /\ pc[f] = "wait" /\ Settled(f)
      /\ op' = [op EXCEPT ![f] = "PENDING"]
      /\ callbacks' = ASYNC_LIST_REMOVE(callbacks, f)
      /\ pc' = [pc EXCEPT ![f] = "run"]
      /\ busy' = IF f \in Background THEN busy ELSE busy - 1
      /\ broadcast' = IF f \in defer THEN broadcast - 1 ELSE broadcast
      /\ defer' = defer \ {f}
      /\ waiting' = ASYNC_LIST_REMOVE(waiting, f)
      /\ woken' = ASYNC_LIST_REMOVE(woken, f)
      /\ UNCHANGED <<cur, fibers, ready, status, triggered, disposed, calls, closed>>
  BY DEF WaitReturns, AwaitDone, AwaitResume
<1>2. FiberLists' /\ Bookkeeping'
  BY <1>1 DEF IInv, FiberLists, Bookkeeping, OpStatus
<1>3. /\ callbacks' \in Seq(Fibers) /\ IsInjective(callbacks')
      /\ Range(callbacks') = Range(callbacks) \ {f}
  BY <1>1, RemoveList DEF IInv, CondTypes, Registered
<1>4. /\ waiting' \in Seq(Fibers) /\ IsInjective(waiting')
      /\ Range(waiting') = Range(waiting) \ {f}
      /\ waiting = <<>> => waiting' = <<>>
  BY <1>1, RemoveList DEF IInv, CondTypes, Listed
<1>5. /\ woken' \in Seq(Fibers) /\ IsInjective(woken')
      /\ Range(woken') = Range(woken) \ {f}
  BY <1>1, RemoveList DEF IInv, CondTypes, Ordered
<1>6. broadcast' = Cardinality(defer') /\ broadcast' \in Nat
  <2>1. IsFiniteSet(Fibers)
    BY SchedulerAssumption, FS_AddElement DEF Fibers
  <2>2. IsFiniteSet(defer)
    BY <2>1, FS_Subset DEF IInv, Bookkeeping
  <2>3. CASE f \in defer
    <3>1. /\ IsFiniteSet(defer') /\ Cardinality(defer') = Cardinality(defer) - 1
      BY <1>1, <2>2, <2>3, FS_RemoveElement
    <3>2. Cardinality(defer') \in Nat
      BY <3>1, FS_CardinalityType
    <3> QED
      BY <1>1, <2>3, <3>1, <3>2 DEF IInv, Deferred
  <2>4. CASE f \notin defer
    <3>1. defer' = defer
      BY <1>1, <2>4
    <3> QED
      BY <1>1, <2>2, <2>4, <3>1, FS_CardinalityType DEF IInv, Deferred
  <2> QED
    BY <2>3, <2>4
<1>7. CondTypes'
  BY <1>1, <1>3, <1>4, <1>5, <1>6 DEF IInv, CondTypes, Places, Library
<1>8. BusyExact'
  <2>1. "run" \notin Awaiting /\ "wait" \in Awaiting
    BY DEF Awaiting
  <2> QED
    BY <1>1, <2>1, BusyDown DEF IInv, CondTypes
<1>9. Single' /\ Active' = Active /\ cur \in Active /\ cur \notin Range(ready)
      /\ cur \notin Range(fibers)
  BY <1>1 DEF IInv, Single, Active
<1>10. Placed'
  <2>1. ASSUME NEW g \in Fibers PROVE PlacedAt(g)'
    <3>1. CASE g = f
      BY <1>1, <1>9, <3>1 DEF IInv, Placed, PlacedAt, CondTypes, FiberLists, Settled, Library
    <3>2. CASE g # f
      BY <1>1, <1>9, <3>2 DEF IInv, Placed, PlacedAt, CondTypes, FiberLists, Settled, Library
    <3> QED
      BY <3>1, <3>2
  <2>2. pc'[Runner] = pc[Runner]
    BY <1>1, SchedulerAssumption DEF IInv, CondTypes
  <2> QED
    BY <2>1, <2>2 DEF IInv, Placed
<1>11. Listed'
  BY <1>1, <1>4 DEF IInv, Listed, CondTypes, FiberLists
<1>12. Deferred'
  BY <1>1, <1>6 DEF IInv, Deferred, Bookkeeping, FiberLists
<1>13. Registered'
  BY <1>1, <1>3 DEF IInv, Registered, CondTypes
<1>14. Closing'
  BY <1>1, <1>4 DEF IInv, Closing, CondTypes
<1>15. Ended'
  BY <1>1, NotEnded DEF Ended, IInv, CondTypes
<1>16. Ordered'
  <2>1. CASE f \notin Range(woken)
    <3>1. woken' = woken
      BY <1>1, <2>1, RemoveList DEF IInv, CondTypes
    <3> QED
      BY <1>1, <2>1, <3>1, OrderKept DEF IInv, FiberLists
  <2>2. CASE f \in Range(woken)
    <3>1. /\ Len(woken) \in Nat
          /\ \E k \in 1..Len(woken) : woken[k] = f
          /\ \A k, l \in 1..Len(woken) : woken[k] = woken[l] => k = l
          /\ woken # <<>>
      BY <2>2, InList DEF IInv, CondTypes, Ordered
    <3>2. woken[1] = f
      BY <1>1, <2>2, WokenFirst
    <3>3. woken' = Tail(woken)
      BY <1>1, <3>1, <3>2, RemoveList DEF IInv, CondTypes, Ordered
    <3>4. /\ Len(woken') = Len(woken) - 1
          /\ \A i \in 1..Len(woken') : woken'[i] = woken[i + 1]
      BY <3>1, <3>3, HeadTailProperties DEF IInv, CondTypes
    <3>5. ASSUME NEW i \in 1..Len(woken'), NEW j \in 1..Len(woken'), i < j
          PROVE  \E b \in 1..Len(ready) :
                   /\ ready[b] = woken'[j]
                   /\ \E a \in 1..Len(ready) : a < b /\ ready[a] = woken'[i]
      <4>1. i + 1 \in 1..Len(woken) /\ j + 1 \in 1..Len(woken) /\ i + 1 < j + 1
        BY <3>1, <3>4, <3>5
      <4>2. woken[i + 1] # cur
        BY <1>1, <3>1, <3>2, <3>5, <4>1
      <4>3. \E b \in 1..Len(ready) :
              /\ ready[b] = woken[j + 1]
              /\ \/ woken[i + 1] = cur
                 \/ \E a \in 1..Len(ready) : a < b /\ ready[a] = woken[i + 1]
        BY <4>1 DEF IInv, Ordered
      <4> QED
        BY <3>4, <4>2, <4>3
    <3>6. \A g \in Range(woken') : op'[g] = "RESOLVED" /\ g \in defer'
      BY <1>1, <1>5 DEF IInv, Ordered, FiberLists
    <3> QED
      BY <1>1, <1>5, <3>5, <3>6 DEF Ordered
  <2> QED
    BY <2>1, <2>2
<1> QED
  BY <1>2, <1>7, <1>8, <1>9, <1>10, <1>11, <1>12, <1>13, <1>14, <1>15, <1>16 DEF IInv

\* The first waiter, seen by a fiber that finishes it.
LEMMA FirstWaiter ==
  ASSUME IInv, pc[cur] # "wait", waiting # <<>>
  PROVE  /\ Head(waiting) \in Fibers
         /\ op[Head(waiting)] = "RUNNING" /\ status[Head(waiting)] = "SUSPENDED"
         /\ pc[Head(waiting)] = "wait"
         /\ Head(waiting) \notin defer /\ Head(waiting) \notin Range(woken)
         /\ Tail(waiting) \in Seq(Fibers) /\ IsInjective(Tail(waiting))
         /\ Range(Tail(waiting)) = Range(waiting) \ {Head(waiting)}
<1>1. /\ Head(waiting) \in Fibers /\ Head(waiting) \in Range(waiting)
      /\ Tail(waiting) \in Seq(Fibers) /\ IsInjective(Tail(waiting))
      /\ Range(Tail(waiting)) = Range(waiting) \ {Head(waiting)}
  BY TailList DEF IInv, CondTypes, Listed
<1>2. op[Head(waiting)] = "RUNNING" /\ pc[Head(waiting)] = "wait"
  BY <1>1 DEF IInv, Listed
<1> QED
  BY <1>1, <1>2 DEF IInv, Listed, Deferred, Ordered

\* The number of deferred wake-ups is a natural number, and zero only when
\* there is none.
LEMMA DeferFinite ==
  ASSUME IInv
  PROVE  IsFiniteSet(defer) /\ (broadcast = 0 => defer = {})
<1>1. IsFiniteSet(Fibers)
  BY SchedulerAssumption, FS_AddElement DEF Fibers
<1>2. IsFiniteSet(defer)
  BY <1>1, FS_Subset DEF IInv, Bookkeeping
<1> QED
  BY <1>2, FS_EmptySet DEF IInv, Deferred

\* signal, at once or deferred behind an unfinished broadcast.
LEMMA SignalStep ==
  ASSUME IInv, NEW f \in Fibers, signal(f)
  PROVE  IInv'
<1> DEFINE w == Head(waiting)
<1>1. /\ cur = f /\ pc[f] = "run" /\ ~closed /\ waiting # <<>>
      /\ waiting' = Tail(waiting) /\ woken' = Append(woken, w)
      /\ op' = [op EXCEPT ![w] = "RESOLVED"]
      /\ UNCHANGED <<pc, busy, callbacks, triggered, disposed, closed>>
      /\ MayCall(f) /\ Call(f)
  BY DEF signal, MayCall
<1>2. /\ w \in Fibers /\ op[w] = "RUNNING" /\ status[w] = "SUSPENDED"
      /\ pc[w] = "wait" /\ w \notin defer /\ w \notin Range(woken)
      /\ waiting' \in Seq(Fibers) /\ IsInjective(waiting')
      /\ Range(waiting') = Range(waiting) \ {w}
  BY <1>1, FirstWaiter
<1>3. \/ /\ broadcast > 0 /\ broadcast' = broadcast + 1
         /\ defer' = defer \cup {w}
         /\ ready' = IF CanEnqueue(w) THEN Append(ready, w) ELSE ready
         /\ UNCHANGED <<cur, fibers, status>>
      \/ /\ ~(broadcast > 0) /\ status' = [status EXCEPT ![w] = "RUNNING"]
         /\ async_fiber_switch(w)
         /\ UNCHANGED <<ready, broadcast, defer>>
  BY DEF signal
<1> HIDE DEF w
<1>4. Bookkeeping'
  <2>1. /\ calls' \in [Fibers -> Nat]
        /\ \A g \in Fibers : calls'[g] <= MaxCalls[g]
    BY <1>1, CallBound DEF IInv
  <2>2. defer' \subseteq Fibers
    BY <1>2, <1>3 DEF IInv, Bookkeeping
  <2> QED
    BY <1>1, <2>1, <2>2 DEF IInv, Bookkeeping
<1>5. /\ woken' \in Seq(Fibers) /\ IsInjective(woken')
      /\ Range(woken') = Range(woken) \cup {w}
  BY <1>1, <1>2, AppendList DEF IInv, CondTypes, Ordered
<1>6. op' \in [Fibers -> OpStatus]
  BY <1>1, <1>2 DEF IInv, FiberLists, OpStatus
<1>7. CondTypes'
  BY <1>1, <1>2, <1>3, <1>5 DEF IInv, CondTypes
<1>8. BusyExact'
  BY <1>1, BusyStays DEF IInv
<1>9. Listed'
  <2>1. \A g \in Fibers : op'[g] = "RUNNING" => status'[g] = status[g] /\ g # w
    BY <1>1, <1>2, <1>3 DEF IInv, FiberLists
  <2>2. f \notin Range(waiting)
    BY <1>1, NotWoken
  <2>3. \A g \in Fibers : g # w => op'[g] = op[g]
    BY <1>1, <1>2 DEF IInv, FiberLists
  <2>4. Range(waiting) \subseteq Fibers
    BY InList DEF IInv, CondTypes
  <2> QED
    BY <1>1, <1>2, <2>1, <2>2, <2>3, <2>4 DEF IInv, Listed
<1>10. Registered'
  BY <1>1 DEF IInv, Registered
<1>11. Closing'
  BY <1>1 DEF IInv, Closing
<1>12. Ended'
  BY <1>1, NotEnded DEF Ended
<1>13. f \notin Range(woken)
  BY <1>1, NotWoken
<1>14. CASE broadcast > 0 /\ defer' = defer \cup {w}
  <2>1. /\ broadcast' = broadcast + 1
        /\ ready' = Append(ready, w) /\ UNCHANGED <<cur, fibers, status>>
    BY <1>2, <1>3, <1>14 DEF CanEnqueue
  <2>2. w \notin Active /\ w \notin Range(ready)
    BY <1>2 DEF IInv, Placed, PlacedAt
  <2>3. Single' /\ Active' = Active /\ Range(ready') = Range(ready) \cup {w}
    BY <1>2, <2>1, <2>2, EnqueuePlaces DEF IInv
  <2>4. FiberLists'
    BY <1>2, <1>6, <2>1 DEF IInv, FiberLists
  <2>5. ASSUME NEW g \in Fibers PROVE PlacedAt(g)'
    <3>1. CASE g = w
      BY <1>1, <1>2, <2>1, <2>2, <2>3, <3>1 DEF IInv, Placed, PlacedAt, FiberLists, Settled, Library, Active
    <3>2. CASE g # w
      BY <1>1, <1>2, <2>1, <2>3, <3>2 DEF IInv, Placed, PlacedAt, FiberLists, Settled, Library
    <3> QED
      BY <3>1, <3>2
  <2>6. Placed'
    BY <1>1, <2>5 DEF IInv, Placed
  <2>7. Deferred'
    <3>1. Cardinality(defer') = Cardinality(defer) + 1
      BY <1>2, <1>14, DeferFinite, FS_AddElement
    <3> QED
      BY <1>1, <1>2, <1>14, <2>1, <3>1 DEF IInv, Deferred, FiberLists, Bookkeeping
  <2>8. Ordered'
    <3> DEFINE s == <<w>>
    <3>1. s \in Seq(Fibers) /\ Len(s) = 1 /\ s[1] = w
      BY <1>2
    <3>2. ready' = ready \o s /\ woken' = woken \o s
      BY <1>1, <1>2, <2>1, AppendIsConcat DEF IInv, FiberLists, CondTypes
    <3> HIDE DEF s
    <3>3. Range(s) = {w} /\ IsInjective(s)
      BY <3>1, InList
    <3>4. Range(woken) \subseteq Fibers
      BY InList DEF IInv, CondTypes
    <3>5. \A g \in Range(s) : op'[g] = "RESOLVED" /\ g \in defer'
      BY <1>1, <1>2, <1>14, <3>3 DEF IInv, FiberLists
    <3>6. \A g \in Range(woken) : op'[g] = op[g] /\ (g \in defer => g \in defer')
      BY <1>1, <1>2, <1>14, <3>4 DEF IInv, FiberLists
    <3>7. Range(s) \cap Range(woken) = {}
      BY <1>2, <3>3
    <3> QED
      BY <1>1, <1>13, <2>1, <3>1, <3>2, <3>3, <3>5, <3>6, <3>7, OrderExtended
  <2> QED
    BY <1>4, <1>7, <1>8, <1>9, <1>10, <1>11, <1>12, <2>3, <2>4, <2>6, <2>7, <2>8 DEF IInv
<1>15. CASE ~(broadcast > 0)
  <2>1. /\ status' = [status EXCEPT ![w] = "RUNNING"] /\ async_fiber_switch(w)
        /\ UNCHANGED <<ready, broadcast, defer>>
    BY <1>3, <1>15
  <2>2. Single' /\ Placed' /\ cur' = w
    BY <1>1, <1>2, <2>1, Resumes
  <2>3. FiberLists'
    BY <1>2, <1>6, <2>1, SwitchType DEF IInv, FiberLists, TaskStatus
  <2>4. Deferred'
    BY <1>1, <1>2, <2>1 DEF IInv, Deferred, FiberLists, Bookkeeping
  <2>5. woken = <<>>
    <3>1. defer = {}
      BY <1>15, DeferFinite DEF IInv, CondTypes
    <3>2. Range(woken) = {}
      BY <1>1, <1>13, <3>1, WokenReady
    <3> QED
      BY <3>2, InList DEF IInv, CondTypes
  <2>6. Len(woken') = 1
    BY <1>1, <1>2, <2>5
  <2>7. \A i, j \in 1..Len(woken') : ~(i < j)
    BY <2>6
  <2>8. \A g \in Range(woken') : g = w
    BY <1>5, <2>5, EmptyList
  <2>9. op'[w] = "RESOLVED"
    BY <1>1, <1>2 DEF IInv, FiberLists
  <2>10. Ordered'
    BY <1>5, <2>2, <2>7, <2>8, <2>9 DEF Ordered
  <2> QED
    BY <1>4, <1>7, <1>8, <1>9, <1>10, <1>11, <1>12, <2>2, <2>3, <2>4, <2>10 DEF IInv
<1> QED
  BY <1>3, <1>14, <1>15

\* broadcast: all waiters are deferred, and become ready in their order.
LEMMA BroadcastStep ==
  ASSUME IInv, NEW f \in Fibers, broadcastAll(f)
  PROVE  IInv'
<1>1. /\ cur = f /\ pc[f] = "run" /\ ~closed /\ waiting # <<>>
      /\ broadcast' = broadcast + Len(waiting)
      /\ defer' = defer \cup Range(waiting)
      /\ op' = [g \in Fibers |-> IF g \in Range(waiting) THEN "RESOLVED" ELSE op[g]]
      /\ ready' = EnqueueAll(waiting)
      /\ woken' = woken \o waiting
      /\ waiting' = <<>>
      /\ UNCHANGED <<cur, fibers, status, pc, busy, callbacks, triggered, disposed, closed>>
      /\ MayCall(f) /\ Call(f)
  BY DEF broadcastAll, MayCall
<1>2. /\ waiting \in Seq(Fibers) /\ IsInjective(waiting)
      /\ Range(waiting) \subseteq Fibers /\ Len(waiting) \in Nat
  BY InList DEF IInv, CondTypes, Listed
<1>3. f \notin Range(waiting) /\ f \notin Range(woken)
  BY <1>1, NotWoken
<1>4. \A g \in Range(waiting) :
        /\ op[g] = "RUNNING" /\ pc[g] = "wait" /\ status[g] = "SUSPENDED"
        /\ g \notin Active /\ g \notin Range(ready)
        /\ g \notin defer /\ g \notin Range(woken)
  <2>1. ASSUME NEW g \in Range(waiting)
        PROVE  op[g] = "RUNNING" /\ pc[g] = "wait" /\ g \in Fibers
    BY <1>1, <1>2, <1>3 DEF IInv, Listed
  <2> QED
    BY <2>1 DEF IInv, Listed, Placed, PlacedAt, Deferred, Ordered
<1>5. ready' = ready \o waiting
  BY <1>1, <1>4 DEF EnqueueAll, CanEnqueue
<1>6. /\ ready' \in Seq(Fibers) /\ IsInjective(ready')
      /\ Range(ready') = Range(ready) \cup Range(waiting)
  BY <1>2, <1>4, <1>5, ConcatList DEF IInv, FiberLists, Single
<1>7. woken' \in Seq(Fibers)
  BY <1>1, <1>2 DEF IInv, CondTypes
<1>8. FiberLists'
  BY <1>1, <1>2, <1>6 DEF IInv, FiberLists, OpStatus
<1>9. Bookkeeping'
  <2>1. defer' \subseteq Fibers
    BY <1>1, <1>2 DEF IInv, Bookkeeping
  <2> QED
    BY <1>1, <2>1, CallBound DEF IInv, Bookkeeping
<1>10. CondTypes'
  BY <1>1, <1>2, <1>7 DEF IInv, CondTypes
<1>11. BusyExact'
  BY <1>1, BusyStays DEF IInv
<1>12. Active' = Active /\ Single'
  BY <1>1, <1>4, <1>6 DEF IInv, Single, Active
<1>13. ASSUME NEW g \in Fibers PROVE PlacedAt(g)'
  <2>1. CASE g \in Range(waiting)
    BY <1>1, <1>4, <1>6, <1>12, <2>1 DEF IInv, Placed, PlacedAt, Settled, Library, Active
  <2>2. CASE g \notin Range(waiting)
    BY <1>1, <1>6, <1>12, <2>2 DEF IInv, Placed, PlacedAt, Settled, Library
  <2> QED
    BY <2>1, <2>2
<1>14. Placed'
  BY <1>1, <1>13 DEF IInv, Placed
<1>15. Listed'
  <2>1. Range(waiting') = {} /\ IsInjective(waiting')
    BY <1>1, EmptyList
  <2> QED
    BY <1>1, <2>1 DEF IInv, Listed
<1>16. Deferred'
  <2>1. IsFiniteSet(Range(waiting)) /\ Cardinality(Range(waiting)) = Len(waiting)
    BY <1>2, ListCardinality
  <2>2. defer \cap Range(waiting) = {}
    BY <1>4
  <2>3. Cardinality(defer \cap Range(waiting)) = 0
    BY <2>2, FS_EmptySet
  <2>4. Cardinality(defer') = Cardinality(defer) + Len(waiting)
    <3>1. Cardinality(defer') = Cardinality(defer) + Cardinality(Range(waiting))
                                  - Cardinality(defer \cap Range(waiting))
      BY <1>1, <2>1, DeferFinite, FS_Union
    <3>2. Cardinality(defer) \in Nat
      BY DeferFinite, FS_CardinalityType
    <3> QED
      BY <1>2, <2>1, <2>3, <3>1, <3>2
  <2> QED
    BY <1>1, <1>2, <2>4 DEF IInv, Deferred, Bookkeeping
<1>17. Registered'
  BY <1>1 DEF IInv, Registered
<1>18. Closing'
  BY <1>1 DEF IInv, Closing
<1>19. Ended'
  BY <1>1, NotEnded DEF Ended
<1>20. Ordered'
  <2>1. \A g \in Range(waiting) : op'[g] = "RESOLVED" /\ g \in defer'
    BY <1>1, <1>2
  <2>2. Range(woken) \subseteq Fibers
    BY InList DEF IInv, CondTypes
  <2>3. \A g \in Range(woken) : op'[g] = op[g] /\ (g \in defer => g \in defer')
    BY <1>1, <1>4, <2>2
  <2>4. Range(waiting) \cap Range(woken) = {}
    BY <1>4
  <2> QED
    BY <1>1, <1>2, <1>3, <1>5, <2>1, <2>3, <2>4, OrderExtended
<1> QED
  BY <1>8, <1>9, <1>10, <1>11, <1>12, <1>14, <1>15, <1>16, <1>17, <1>18, <1>19, <1>20 DEF IInv

\* A step that moves one fiber outside wait, and touches no operation.
LEMMA Quiet ==
  ASSUME IInv, cur = Runner \/ pc[cur] # "wait",
         NEW x \in Fibers \cup {Runner}, x = Runner \/ pc[x] # "wait",
         NEW l \in Places \ {"wait"}, pc' = [pc EXCEPT ![x] = l],
         closed' \in BOOLEAN,
         \A g \in Fibers : op[g] = "RUNNING" => status'[g] = status[g],
         UNCHANGED <<op, defer, busy, callbacks, waiting, broadcast, woken>>
  PROVE  /\ CondTypes' /\ BusyExact' /\ Listed' /\ Deferred' /\ Registered'
         /\ UNCHANGED ready => Ordered'
<1>1. CondTypes'
  BY DEF IInv, CondTypes
<1>2. pc[x] # "wait"
  BY DEF IInv, Placed
<1>3. \A g \in Fibers \cup {Runner} : g # x => pc'[g] = pc[g]
  BY DEF IInv, CondTypes
<1>4. BusyExact'
  <2>1. ~(pc[x] \in Awaiting) /\ ~(pc'[x] \in Awaiting)
    BY <1>2 DEF IInv, CondTypes, Places, Library, Awaiting
  <2>2. \A g \in Fibers \ Background : pc'[g] \in Awaiting <=> pc[g] \in Awaiting
    BY <1>3, <2>1
  <2> QED
    BY <2>2, BusyStays DEF IInv
<1>5. /\ x \notin Range(waiting) /\ x \notin Range(callbacks)
      /\ cur \notin Range(waiting) /\ cur \notin Range(woken)
  BY <1>2, NotWoken DEF IInv, FiberLists
<1>6. Range(waiting) \subseteq Fibers /\ Range(callbacks) \subseteq Fibers
  BY InList DEF IInv, CondTypes
<1>7. Listed' /\ Registered'
  BY <1>3, <1>5, <1>6 DEF IInv, Listed, Registered
<1>8. Deferred'
  BY DEF IInv, Deferred
<1>9. UNCHANGED ready => Ordered'
  BY <1>5, OrderKept
<1> QED
  BY <1>1, <1>4, <1>7, <1>8, <1>9

\* close, or the start of the shutdown callback.
LEMMA CloseStep ==
  ASSUME IInv, NEW f \in Fibers, close(f)
  PROVE  IInv'
<1>1. /\ ~closed /\ closed' = TRUE
      /\ UNCHANGED <<cur, fibers, ready, status, op, defer, busy, callbacks,
                     triggered, disposed, waiting, broadcast, woken>>
  BY DEF close
<1>2. /\ f = cur /\ Bookkeeping'
      /\ \/ pc[f] = "run" /\ pc' = [pc EXCEPT ![f] = "close"]
         \/ f = Root /\ pc[f] = "dispose" /\ pc' = [pc EXCEPT ![f] = "shutdown"]
  <2>1. CASE MayCall(f) /\ Call(f) /\ pc' = [pc EXCEPT ![f] = "close"]
    BY <1>1, <2>1, CallBound DEF IInv, Bookkeeping
  <2>2. CASE /\ f = Root /\ cur = Root /\ pc[Root] = "dispose"
             /\ pc' = [pc EXCEPT ![Root] = "shutdown"] /\ UNCHANGED calls
    BY <1>1, <2>2 DEF IInv, Bookkeeping
  <2> QED
    BY <2>1, <2>2 DEF close
<1>3. /\ FiberLists'
      /\ f # Runner
  BY <1>1, SchedulerAssumption DEF IInv, FiberLists
<1>4. PICK l \in {"close", "shutdown"} :
        /\ pc' = [pc EXCEPT ![f] = l]
        /\ l = "close" => pc[f] = "run"
        /\ l = "shutdown" => f = Root /\ pc[f] = "dispose"
  BY <1>2
<1>5. /\ CondTypes' /\ BusyExact' /\ Listed' /\ Deferred' /\ Registered'
      /\ Ordered'
  BY <1>1, <1>2, <1>4, Quiet DEF Places, Library
<1>6. Single' /\ Placed'
  BY <1>1, <1>2, <1>3, <1>4, Moves DEF Library
<1>7. pc'[f] = l /\ \A g \in Fibers : g # f => pc'[g] = pc[g]
  BY <1>4 DEF IInv, CondTypes
<1>8. Closing'
  <2>1. \E g \in Fibers : pc'[g] \in {"close", "shutdown"}
    BY <1>7
  <2>2. Root \in Fibers
    BY DEF Fibers
  <2> QED
    BY <1>1, <1>2, <1>4, <1>7, <2>1, <2>2 DEF IInv, Closing
<1>9. Ended'
  BY <1>2, <1>4, <1>7, NotEnded DEF Ended, Fibers
<1> QED
  BY <1>2, <1>3, <1>5, <1>6, <1>8, <1>9 DEF IInv

\* One turn of the loop that fails the waiters.
LEMMA ShutdownStep ==
  ASSUME IInv, shutdown_cond_cb
  PROVE  IInv'
<1>1. /\ pc[cur] \in {"close", "shutdown"}
      /\ UNCHANGED <<defer, busy, callbacks, triggered, disposed, calls, broadcast, closed, woken>>
  BY DEF shutdown_cond_cb
<1>2. cur \in Fibers /\ cur # Runner /\ Bookkeeping' /\ Root \in Fibers
  BY <1>1 DEF IInv, FiberLists, Placed, Bookkeeping, Fibers
<1>3. CASE waiting = <<>>
  <2>1. /\ pc' = [pc EXCEPT ![cur] = IF @ = "close" THEN "run" ELSE "dispose"]
        /\ UNCHANGED <<cur, fibers, ready, status, op, waiting>>
    BY <1>3 DEF shutdown_cond_cb
  <2>2. PICK l \in {"run", "dispose"} :
          /\ pc' = [pc EXCEPT ![cur] = l]
          /\ l = "run" <=> pc[cur] = "close"
          /\ l = "dispose" <=> pc[cur] = "shutdown"
    <3>1. CASE pc[cur] = "close"
      <4>1. pc' = [pc EXCEPT ![cur] = "run"]
        BY <2>1, <3>1 DEF IInv, CondTypes
      <4> QED
        BY <3>1, <4>1
    <3>2. CASE pc[cur] = "shutdown"
      <4>1. pc' = [pc EXCEPT ![cur] = "dispose"]
        BY <2>1, <3>2 DEF IInv, CondTypes
      <4> QED
        BY <3>2, <4>1
    <3> QED
      BY <1>1, <3>1, <3>2
  <2>3. FiberLists'
    BY <2>1 DEF IInv, FiberLists
  <2>4. /\ CondTypes' /\ BusyExact' /\ Listed' /\ Deferred' /\ Registered'
        /\ Ordered'
    BY <1>1, <1>2, <2>1, <2>2, Quiet DEF Places, Library, IInv, CondTypes
  <2>5. l = "dispose" => cur = Root
    BY <1>2, <2>2 DEF IInv, Placed, PlacedAt
  <2>6. Single' /\ Placed'
    BY <1>1, <1>2, <2>1, <2>2, <2>5, Moves DEF Library
  <2>7. pc'[cur] = l /\ \A g \in Fibers : g # cur => pc'[g] = pc[g]
    BY <1>2, <2>2 DEF IInv, CondTypes
  <2>8. Closing'
    BY <1>1, <1>2, <1>3, <2>1, <2>2, <2>5, <2>7 DEF IInv, Closing
  <2>9. Ended'
    BY <1>1, <1>2, <2>7, NotEnded DEF Ended
  <2> QED
    BY <1>2, <2>3, <2>4, <2>6, <2>8, <2>9 DEF IInv
<1>4. CASE waiting # <<>>
  <2> DEFINE w == Head(waiting)
  <2>1. waiting' = Tail(waiting) /\ reschedule_task(w, "FAILED") /\ UNCHANGED pc
    BY <1>4 DEF shutdown_cond_cb
  <2>2. /\ w \in Fibers /\ op[w] = "RUNNING" /\ status[w] = "SUSPENDED"
        /\ pc[w] = "wait" /\ w \notin defer /\ w \notin Range(woken)
        /\ waiting' \in Seq(Fibers) /\ IsInjective(waiting')
        /\ Range(waiting') = Range(waiting) \ {w}
    BY <1>1, <1>4, <2>1, FirstWaiter
  <2> HIDE DEF w
  <2>3. /\ op' = [op EXCEPT ![w] = "FAILED"]
        /\ status' = [status EXCEPT ![w] = "RUNNING"]
        /\ async_fiber_switch(w) /\ UNCHANGED ready
    BY <2>1, <2>2 DEF reschedule_task
  <2>4. Single' /\ Placed' /\ cur' = w
    BY <1>1, <2>1, <2>2, <2>3, Resumes
  <2>5. FiberLists'
    BY <2>1, <2>2, RescheduleType DEF IInv, OpStatus
  <2>6. CondTypes'
    BY <1>1, <2>1, <2>2 DEF IInv, CondTypes
  <2>7. BusyExact'
    BY <1>1, <2>1, BusyStays DEF IInv
  <2>8. \A g \in Fibers : g # w => op'[g] = op[g] /\ status'[g] = status[g]
    BY <2>2, <2>3 DEF IInv, FiberLists
  <2>9. op'[w] = "FAILED"
    BY <2>2, <2>3 DEF IInv, FiberLists
  <2>10. /\ cur \notin Range(waiting) /\ cur \notin Range(woken)
         /\ Range(waiting) \subseteq Fibers /\ Range(woken) \subseteq Fibers
    BY <1>1, <1>2, NotWoken, InList DEF IInv, CondTypes
  <2>11. Listed'
    BY <2>1, <2>2, <2>8, <2>9, <2>10 DEF IInv, Listed
  <2>12. Deferred'
    BY <1>1, <2>2, <2>8 DEF IInv, Deferred, Bookkeeping
  <2>13. Registered' /\ Closing'
    BY <1>1, <1>4, <2>1 DEF IInv, Registered, Closing
  <2>14. Ended'
    BY <1>1, <2>1, NotEnded DEF Ended
  <2>15. Ordered'
    BY <1>1, <2>2, <2>3, <2>8, <2>10, OrderKept
  <2> QED
    BY <1>2, <2>4, <2>5, <2>6, <2>7, <2>11, <2>12, <2>13, <2>14, <2>15 DEF IInv
<1> QED
  BY <1>3, <1>4

\* The loop dispatches the first ready task.
LEMMA DispatchStep ==
  ASSUME IInv, dispatch_tasks, UNCHANGED condVars
  PROVE  IInv'
<1> DEFINE h == Head(ready)
<1>1. /\ cur = Runner /\ pc[Runner] = "run" /\ ready # <<>>
      /\ ready' = Tail(ready) /\ status' = [status EXCEPT ![h] = "RUNNING"]
      /\ async_fiber_switch(h)
      /\ UNCHANGED <<pc, op, defer, busy, callbacks, triggered, disposed, calls,
                     waiting, broadcast, closed, woken>>
  BY DEF dispatch_tasks, condVars
<1>2. /\ h \in Fibers /\ h \in Range(ready) /\ ready' \in Seq(Fibers)
      /\ IsInjective(ready') /\ Range(ready') = Range(ready) \ {h}
  BY <1>1, TailList DEF IInv, FiberLists, Single
<1>3. /\ Len(ready) \in Nat /\ Len(ready) > 0 /\ Len(ready') = Len(ready) - 1
      /\ \A k \in 1..Len(ready') : ready'[k] = ready[k + 1]
      /\ h = ready[1]
  BY <1>1, HeadTailProperties, EmptySeq DEF IInv, FiberLists
<1> HIDE DEF h
<1>4. h \notin Active /\ op[h] # "RUNNING" /\ h # Runner /\ fibers = <<>>
  BY <1>1, <1>2, SchedulerAssumption DEF IInv, Single, Active, Placed, PlacedAt
<1>5. Single' /\ cur' = h /\ Active' = Active \cup {h}
  BY <1>1, <1>2, <1>4, SwitchPlaces DEF IInv
<1>6. FiberLists'
  BY <1>1, <1>2, SwitchType DEF IInv, FiberLists, TaskStatus
<1>7. Bookkeeping' /\ CondTypes'
  BY <1>1 DEF IInv, Bookkeeping, CondTypes
<1>8. BusyExact'
  BY <1>1, BusyStays DEF IInv
<1>9. /\ \A g \in Fibers : g \in Active' <=> g = h
      /\ \A g \in Fibers : g \notin Range(fibers')
  <2>1. Active = {Runner}
    BY <1>1, <1>4, EmptyList DEF Active
  <2>2. Range(fibers') \subseteq Active' /\ cur' \notin Range(fibers')
    BY <1>5 DEF Active, Single
  <2> QED
    BY <1>4, <1>5, <2>1, <2>2, SchedulerAssumption
<1>10. ASSUME NEW g \in Fibers PROVE PlacedAt(g)'
  <2>1. g \notin Active /\ g # cur
    BY <1>1, <1>4, EmptyList, SchedulerAssumption DEF Active
  <2>2. CASE g = h
    BY <1>1, <1>2, <1>5, <1>9, <2>1, <2>2 DEF IInv, Placed, PlacedAt, Settled, Library
  <2>3. CASE g # h
    BY <1>1, <1>2, <1>5, <1>9, <2>1, <2>3 DEF IInv, Placed, PlacedAt, Settled, Library
  <2> QED
    BY <2>2, <2>3
<1>11. Placed'
  BY <1>1, <1>10 DEF IInv, Placed
<1>12. Runner \notin Range(waiting) /\ Runner \notin Range(woken)
  BY NotWoken
<1>13. Listed'
  <2>1. \A g \in Fibers : op[g] = "RUNNING" => status'[g] = status[g]
    BY <1>1, <1>4 DEF IInv, FiberLists
  <2> QED
    BY <1>1, <1>12, <2>1 DEF IInv, Listed
<1>14. Deferred' /\ Registered' /\ Closing'
  BY <1>1 DEF IInv, Deferred, Registered, Closing
<1>15. Ended'
  BY <1>1, NotEnded DEF Ended
<1>16. Ordered'
  <2>1. \A i \in 1..Len(woken) : woken[i] # cur
    BY <1>1, <1>12, InList DEF IInv, CondTypes
  <2>2. ASSUME NEW i \in 1..Len(woken), NEW j \in 1..Len(woken), i < j
        PROVE  \E b \in 1..Len(ready') :
                 /\ ready'[b] = woken[j]
                 /\ \/ woken[i] = h
                    \/ \E a \in 1..Len(ready') : a < b /\ ready'[a] = woken[i]
    <3>1. PICK b \in 1..Len(ready), a \in 1..Len(ready) :
            ready[b] = woken[j] /\ a < b /\ ready[a] = woken[i]
      BY <2>1, <2>2 DEF IInv, Ordered
    <3>2. b - 1 \in 1..Len(ready') /\ ready'[b - 1] = woken[j]
      <4>1. b - 1 \in 1..Len(ready') /\ (b - 1) + 1 = b
        BY <1>3, <3>1
      <4> QED
        BY <1>3, <3>1, <4>1
    <3>3. CASE a = 1
      BY <1>3, <3>1, <3>2, <3>3
    <3>4. CASE a # 1
      <4>1. a - 1 \in 1..Len(ready') /\ (a - 1) + 1 = a /\ a - 1 < b - 1
        BY <1>3, <3>1, <3>4
      <4>2. ready'[a - 1] = woken[i]
        BY <1>3, <3>1, <4>1
      <4> QED
        BY <3>2, <4>1, <4>2
    <3> QED
      BY <3>3, <3>4
  <2>3. \A g \in Range(woken) : op[g] = "RESOLVED" /\ g \in defer
    BY <1>1, <1>12 DEF IInv, Ordered
  <2>4. \A i, j \in 1..Len(woken') :
          i < j => \E b \in 1..Len(ready') :
                     /\ ready'[b] = woken'[j]
                     /\ \/ woken'[i] = cur'
                        \/ \E a \in 1..Len(ready') : a < b /\ ready'[a] = woken'[i]
    <3>1. woken' = woken /\ cur' = h
      BY <1>1, <1>5
    <3> QED
      BY <2>2, <3>1
  <2>5. IsInjective(woken)
    BY DEF IInv, Ordered
  <2> QED
    BY <1>1, <2>3, <2>4, <2>5 DEF Ordered
<1> QED
  BY <1>5, <1>6, <1>7, <1>8, <1>11, <1>13, <1>14, <1>15, <1>16 DEF IInv

\* A task ends.
LEMMA TaskEndStep ==
  ASSUME IInv, NEW t \in Tasks, run_task_fiber(t), UNCHANGED condVars
  PROVE  IInv'
<1>1. /\ cur = t /\ t \in Fibers /\ pc[t] = "run"
      /\ status' = [status EXCEPT ![t] = "FINISHED"]
      /\ pc' = [pc EXCEPT ![t] = "done"] /\ async_fiber_suspend
      /\ UNCHANGED <<ready, op, defer, busy, callbacks, triggered, disposed, calls,
                     waiting, broadcast, closed, woken>>
  BY DEF run_task_fiber, condVars, Fibers
<1>2. op[t] # "RUNNING"
  BY <1>1 DEF IInv, Placed, PlacedAt
<1>3. FiberLists' /\ Bookkeeping'
  BY <1>1, SuspendType DEF IInv, FiberLists, TaskStatus, Bookkeeping
<1>4. Single' /\ Placed'
  BY <1>1, Suspends
<1>5. \A g \in Fibers : op[g] = "RUNNING" => status'[g] = status[g]
  BY <1>1, <1>2 DEF IInv, FiberLists
<1>6. /\ CondTypes' /\ BusyExact' /\ Listed' /\ Deferred' /\ Registered'
      /\ Ordered'
  BY <1>1, <1>5, Quiet DEF Places, IInv, CondTypes
<1>7. /\ t # Root /\ Root \in Fibers /\ pc'[Root] = pc[Root]
      /\ \A g \in Fibers : pc[g] \in {"close", "shutdown"} => pc'[g] = pc[g]
  BY <1>1, SchedulerAssumption DEF IInv, CondTypes, Fibers
<1>8. Closing'
  BY <1>1, <1>7 DEF IInv, Closing
<1>9. Ended'
  BY <1>1, <1>7, NotEnded DEF Ended
<1> QED
  BY <1>3, <1>4, <1>6, <1>8, <1>9 DEF IInv

\* The main script ends, or the disposal has called the shutdown callbacks.
LEMMA DrainStep ==
  ASSUME IInv, cur = Root,
         \/ pc[Root] = "run"
         \/ pc[Root] = "dispose" /\ closed,
         pc' = [pc EXCEPT ![Root] = "drain"], async_fiber_suspend,
         UNCHANGED <<ready, status, op, defer, busy, callbacks, triggered,
                     disposed, calls, waiting, broadcast, closed, woken>>
  PROVE  IInv'
<1>1. Root \in Fibers
  BY DEF Fibers
<1>2. FiberLists' /\ Bookkeeping'
  BY SuspendType DEF IInv, FiberLists, Bookkeeping
<1>3. Single' /\ Placed'
  BY <1>1, Suspends
<1>4. /\ CondTypes' /\ BusyExact' /\ Listed' /\ Deferred' /\ Registered'
      /\ Ordered'
  BY <1>1, Quiet DEF Places, IInv, CondTypes
<1>5. /\ pc'[Root] = "drain"
      /\ \A g \in Fibers : pc[g] \in {"close", "shutdown"} => pc'[g] = pc[g]
  BY <1>1 DEF IInv, CondTypes
<1>6. Closing'
  BY <1>5 DEF IInv, Closing
<1>7. Ended'
  BY <1>5 DEF Ended
<1> QED
  BY <1>2, <1>3, <1>4, <1>6, <1>7 DEF IInv

\* When the loop returns to the disposal for the second time, nobody is left.
LEMMA NobodyWaits ==
  ASSUME IInv, cur = Runner, pc[Runner] = "run", ready = <<>>,
         disposed, pc[Root] = "drain"
  PROVE  /\ callbacks = <<>> /\ \A t \in Tasks : pc[t] = "done"
<1>1. fibers = <<>> /\ Active = {Runner} /\ Range(ready) = {}
  BY EmptyList DEF IInv, Single, Active
<1>2. \A g \in Fibers : g \notin Active /\ g \notin Range(ready) /\ g # cur
  BY <1>1, SchedulerAssumption
<1>3. \A g \in Fibers : pc[g] \notin Library
  BY <1>2 DEF IInv, Placed, PlacedAt
<1>4. waiting = <<>>
  BY <1>3 DEF IInv, Closing, Library
<1>5. \A g \in Fibers : pc[g] # "wait"
  <2>1. Range(waiting) = {}
    BY <1>4, EmptyList
  <2>2. \A g \in Fibers : op[g] # "RUNNING"
    BY <2>1 DEF IInv, Listed
  <2> QED
    BY <1>2, <2>2 DEF IInv, Placed, PlacedAt
<1>6. \A t \in Tasks : t \in Fibers /\ t # Root
  BY SchedulerAssumption DEF Fibers
<1>7. \A t \in Tasks : pc[t] = "done"
  BY <1>3, <1>5, <1>6 DEF IInv, Placed, PlacedAt, CondTypes, Places
<1>8. callbacks = <<>>
  <2>1. Range(callbacks) \subseteq Fibers
    BY InList DEF IInv, CondTypes
  <2>2. Range(callbacks) = {}
    BY <1>5, <2>1 DEF IInv, Registered
  <2> QED
    BY <2>2, InList DEF IInv, CondTypes
<1> QED
  BY <1>7, <1>8

\* The loop returns to the disposal.
LEMMA LoopReturnsStep ==
  ASSUME IInv, run_scheduler_fiber({}), UNCHANGED condVars
  PROVE  IInv'
<1>1. /\ cur = Runner /\ pc[Runner] = "run" /\ pc[Root] = "drain"
      /\ ready = <<>> /\ cur' = Root /\ disposed' = TRUE
      /\ pc' = [pc EXCEPT ![Root] = IF disposed THEN "done" ELSE "dispose"]
      /\ UNCHANGED <<fibers, ready, status, op, defer, busy, callbacks, triggered,
                     calls, waiting, broadcast, closed, woken>>
  BY DEF run_scheduler_fiber, condVars
<1>2. Root \in Fibers /\ Root # Runner
  BY SchedulerAssumption DEF Fibers
<1>3. FiberLists' /\ Bookkeeping'
  BY <1>1, <1>2 DEF IInv, FiberLists, Bookkeeping
<1>4. PICK l \in {"done", "dispose"} :
        pc' = [pc EXCEPT ![Root] = l] /\ (l = "done" <=> disposed)
  BY <1>1
<1>5. /\ fibers = <<>> /\ Active = {Runner} /\ Active' = {Root}
      /\ Range(ready) = {} /\ Range(fibers) = {}
  BY <1>1, EmptyList DEF IInv, Single, Active
<1>6. Single'
  BY <1>1, <1>2, <1>5, EmptyList DEF IInv, Single
<1>7. /\ pc'[Root] = l /\ pc'[Runner] = pc[Runner]
      /\ \A g \in Fibers : g # Root => pc'[g] = pc[g]
  BY <1>2, <1>4 DEF IInv, CondTypes
<1>8. ASSUME NEW g \in Fibers PROVE PlacedAt(g)'
  <2>1. g # Runner
    BY SchedulerAssumption
  <2>2. CASE g = Root
    BY <1>1, <1>2, <1>4, <1>5, <1>7, <2>2, SchedulerAssumption DEF IInv, Placed, PlacedAt, Settled, Library
  <2>3. CASE g # Root
    BY <1>1, <1>5, <1>7, <2>1, <2>3 DEF IInv, Placed, PlacedAt, Settled, Library
  <2> QED
    BY <2>2, <2>3
<1>9. Placed'
  BY <1>7, <1>8 DEF IInv, Placed
<1>10. /\ CondTypes' /\ BusyExact' /\ Listed' /\ Deferred' /\ Registered'
       /\ Ordered'
  <2>1. l \in Places \ {"wait"} /\ pc[Root] # "wait" /\ closed' \in BOOLEAN
    BY <1>1, <1>4 DEF Places, Library, IInv, CondTypes
  <2>2. UNCHANGED <<ready, status, op, defer, busy, callbacks, waiting, broadcast, woken>>
    BY <1>1
  <2> QED
    BY <1>1, <1>2, <1>4, <2>1, <2>2, Quiet
<1>11. Closing'
  BY <1>1, <1>2, <1>4, <1>7 DEF IInv, Closing
<1>12. Ended'
  <2>1. CASE l = "done"
    <3>1. \A t \in Tasks : pc'[t] = "done" /\ callbacks = <<>>
      BY <1>1, <1>4, <1>7, <2>1, NobodyWaits, SchedulerAssumption DEF Fibers
    <3>2. callbacks = <<>>
      BY <1>1, <1>4, <2>1, NobodyWaits
    <3> QED
      BY <1>1, <1>5, <3>1, <3>2 DEF Ended
  <2>2. CASE l = "dispose"
    BY <1>7, <2>2 DEF Ended
  <2> QED
    BY <2>1, <2>2
<1> QED
  BY <1>3, <1>6, <1>9, <1>10, <1>11, <1>12 DEF IInv

\* The cancellation scope is triggered.
LEMMA CancelInvokeStep ==
  ASSUME IInv, NEW f \in Fibers \cup {Runner}, CancelInvoke(f), UNCHANGED condVars
  PROVE  IInv'
<1>1. /\ pc' = [pc EXCEPT ![f] = "cancel"] /\ triggered' = TRUE
      /\ UNCHANGED <<cur, fibers, ready, status, op, defer, busy, callbacks,
                     disposed, waiting, broadcast, closed, woken>>
  BY DEF CancelInvoke, condVars
<1>2. cur = f /\ pc[f] = "run" /\ Bookkeeping'
  <2>1. CASE MayCall(f) /\ Call(f)
    BY <1>1, <2>1, CallBound DEF IInv, Bookkeeping
  <2>2. CASE f = Runner /\ cur = Runner /\ pc[Runner] = "run" /\ UNCHANGED calls
    BY <1>1, <2>2 DEF IInv, Bookkeeping
  <2> QED
    BY <2>1, <2>2 DEF CancelInvoke
<1>3. FiberLists'
  BY <1>1 DEF IInv, FiberLists
<1>4. Single' /\ Placed'
  BY <1>1, <1>2, Moves DEF Library
<1>5. /\ CondTypes' /\ BusyExact' /\ Listed' /\ Deferred' /\ Registered'
      /\ Ordered'
  BY <1>1, <1>2, Quiet DEF Places, Library, IInv, CondTypes
<1>6. /\ \A g \in Fibers : g # f => pc'[g] = pc[g]
      /\ pc'[f] = "cancel" /\ Root \in Fibers
  BY <1>1 DEF IInv, CondTypes, Fibers
<1>7. Closing'
  BY <1>1, <1>2, <1>6 DEF IInv, Closing
<1>8. Ended'
  BY <1>2, <1>6, NotEnded DEF Ended
<1> QED
  BY <1>2, <1>3, <1>4, <1>5, <1>7, <1>8 DEF IInv

\* One turn of the loop over the cancel callbacks.
LEMMA CancelLoopStep ==
  ASSUME IInv, CancelLoop, UNCHANGED condVars
  PROVE  IInv'
<1>1. /\ pc[cur] = "cancel"
      /\ UNCHANGED <<defer, busy, triggered, disposed, calls, waiting, broadcast, closed, woken>>
  BY DEF CancelLoop, condVars
<1>2. Bookkeeping' /\ Root \in Fibers /\ cur \in Fibers \cup {Runner}
  BY <1>1 DEF IInv, Bookkeeping, Fibers, FiberLists
<1>3. CASE callbacks = <<>>
  <2>1. /\ pc' = [pc EXCEPT ![cur] = "run"]
        /\ UNCHANGED <<cur, fibers, ready, status, op, callbacks>>
    BY <1>3 DEF CancelLoop
  <2>2. FiberLists'
    BY <2>1 DEF IInv, FiberLists
  <2>3. Single' /\ Placed'
    BY <1>1, <2>1, Moves DEF Library
  <2>4. /\ CondTypes' /\ BusyExact' /\ Listed' /\ Deferred' /\ Registered'
        /\ Ordered'
    BY <1>1, <1>2, <2>1, Quiet DEF Places, Library, IInv, CondTypes
  <2>5. /\ \A g \in Fibers : g # cur => pc'[g] = pc[g]
        /\ pc'[cur] = "run"
    BY <1>2, <2>1 DEF IInv, CondTypes
  <2>6. Closing'
    BY <1>1, <1>2, <2>1, <2>5 DEF IInv, Closing
  <2>7. Ended'
    BY <1>1, <1>2, <2>5, NotEnded DEF Ended
  <2> QED
    BY <1>2, <2>2, <2>3, <2>4, <2>6, <2>7 DEF IInv
<1>4. CASE callbacks # <<>>
  <2> DEFINE w == Head(callbacks)
  <2>1. callbacks' = Tail(callbacks) /\ UNCHANGED pc
    BY <1>4 DEF CancelLoop
  <2>2. /\ w \in Fibers /\ callbacks' \in Seq(Fibers) /\ IsInjective(callbacks')
        /\ Range(callbacks') \subseteq Range(callbacks)
    BY <1>4, <2>1, TailList DEF IInv, CondTypes, Registered
  <2>3. IF op[w] = "RUNNING" THEN reschedule_task(w, "FAILED")
                             ELSE UNCHANGED <<cur, fibers, ready, status, op>>
    BY <1>4 DEF CancelLoop
  <2> HIDE DEF w
  <2>4. CondTypes' /\ Registered'
    BY <1>1, <2>1, <2>2 DEF IInv, CondTypes, Registered
  <2>5. BusyExact'
    BY <1>1, <2>1, BusyStays DEF IInv
  <2>6. Closing'
    BY <1>1, <2>1 DEF IInv, Closing
  <2>7. Ended'
    BY <1>1, <2>1, NotEnded DEF Ended
  <2>8. /\ cur \notin Range(waiting) /\ cur \notin Range(woken)
        /\ Range(waiting) \subseteq Fibers /\ Range(woken) \subseteq Fibers
    BY <1>1, <1>2, NotWoken, InList DEF IInv, CondTypes
  <2>9. CASE op[w] = "RUNNING"
    <3>1. w \notin defer /\ w \notin Range(woken)
      BY <2>9 DEF IInv, Deferred, Ordered
    <3>2. /\ op' = [op EXCEPT ![w] = "FAILED"]
          /\ status' = [status EXCEPT ![w] = "RUNNING"]
          /\ async_fiber_switch(w) /\ UNCHANGED ready
      BY <2>3, <2>9, <3>1 DEF reschedule_task
    <3>3. Single' /\ Placed' /\ cur' = w
      BY <1>1, <2>1, <2>2, <2>9, <3>2, Resumes
    <3>4. FiberLists'
      BY <2>2, <2>3, <2>9, RescheduleType DEF IInv, OpStatus
    <3>5. /\ \A g \in Fibers : g # w => op'[g] = op[g] /\ status'[g] = status[g]
          /\ op'[w] = "FAILED"
      BY <2>2, <3>2 DEF IInv, FiberLists
    <3>6. Listed'
      BY <1>1, <2>1, <2>8, <2>9, <3>3, <3>5 DEF IInv, Listed
    <3>7. Deferred'
      BY <1>1, <3>1, <3>5 DEF IInv, Deferred, Bookkeeping
    <3>8. Ordered'
      BY <1>1, <2>8, <3>1, <3>2, <3>5, OrderKept
    <3> QED
      BY <1>2, <2>4, <2>5, <2>6, <2>7, <3>3, <3>4, <3>6, <3>7, <3>8 DEF IInv
  <2>10. CASE op[w] # "RUNNING"
    <3>1. UNCHANGED <<cur, fibers, ready, status, op>>
      BY <2>3, <2>10
    <3>2. FiberLists' /\ Single' /\ Placed'
      BY <2>1, <3>1 DEF IInv, FiberLists, Single, Active, Placed, PlacedAt, Settled
    <3>3. Listed' /\ Deferred' /\ Ordered'
      BY <1>1, <2>1, <3>1 DEF IInv, Listed, Deferred, Ordered
    <3> QED
      BY <1>2, <2>4, <2>5, <2>6, <2>7, <3>2, <3>3 DEF IInv
  <2> QED
    BY <2>9, <2>10
<1> QED
  BY <1>3, <1>4

-----------------------------------------------------------------------------
(***************************************************************************)
(* The theorems.                                                           *)
(***************************************************************************)

\* The initial states satisfy the invariant.
LEMMA InitInv == Init => IInv
<1> SUFFICES ASSUME Init PROVE IInv
  OBVIOUS
<1>1. /\ cur = Root /\ fibers = <<>> /\ op = [f \in Fibers |-> "PENDING"]
      /\ status = [f \in Fibers |-> IF f = Root THEN "SUSPENDED" ELSE "INIT"]
      /\ pc = [f \in Fibers \cup {Runner} |-> "run"]
      /\ defer = {} /\ busy = 0 /\ callbacks = <<>> /\ triggered = FALSE
      /\ disposed = FALSE /\ calls = [f \in Fibers |-> 0]
      /\ waiting = <<>> /\ broadcast = 0 /\ closed = FALSE /\ woken = <<>>
      /\ ready \in [1..Cardinality(Tasks) -> Tasks] /\ IsInjective(ready)
  BY DEF Init, SchedInit
<1>2. Root \in Fibers /\ Runner \notin Fibers /\ Root \notin Tasks
  BY SchedulerAssumption DEF Fibers
<1>3. Cardinality(Tasks) \in Nat
  BY SchedulerAssumption, FS_CardinalityType
<1>4. ready \in Seq(Tasks)
  BY <1>1, <1>3, SeqDef
<1>5. Len(ready) = Cardinality(Tasks) /\ Range(ready) = Tasks
  <2>1. Len(ready) = Cardinality(Tasks)
    BY <1>1, <1>3, <1>4, LenProperties
  <2>2. IsFiniteSet(Range(ready)) /\ Cardinality(Range(ready)) = Len(ready)
    BY <1>1, <1>4, ListCardinality
  <2>3. Range(ready) \subseteq Tasks
    BY <1>4, InList
  <2> QED
    BY <2>1, <2>2, <2>3, FS_Subset, SchedulerAssumption
<1>6. ready \in Seq(Fibers)
  BY <1>4, SeqMonotonic DEF Fibers
<1>7. FiberLists /\ Bookkeeping
  <2>1. status \in [Fibers -> TaskStatus] /\ op \in [Fibers -> OpStatus]
    BY <1>1 DEF TaskStatus, OpStatus
  <2>2. /\ calls \in [Fibers -> Nat]
        /\ \A f \in Fibers : calls[f] <= MaxCalls[f]
    BY <1>1, SchedulerAssumption
  <2>3. cur \in Fibers \cup {Runner} /\ fibers \in Seq(Fibers \cup {Runner})
    BY <1>1, <1>2, EmptyList
  <2>4. FiberLists
    BY <1>6, <2>1, <2>3 DEF FiberLists
  <2> QED
    BY <1>1, <2>2, <2>4 DEF Bookkeeping
<1>8. CondTypes
  <2>1. pc \in [Fibers \cup {Runner} -> Places]
    BY <1>1 DEF Places, Library
  <2> QED
    BY <1>1, <2>1, EmptyList DEF CondTypes
<1>9. BusyExact
  <2>1. {f \in Fibers \ Background : pc[f] \in Awaiting} = {}
    BY <1>1 DEF Awaiting
  <2> QED
    BY <1>1, <2>1, FS_EmptySet DEF BusyExact
<1>10. Range(fibers) = {} /\ IsInjective(fibers) /\ Active = {Root}
  BY <1>1, EmptyList DEF Active
<1>11. Single
  BY <1>1, <1>2, <1>5, <1>10 DEF Single
<1>12. Placed
  BY <1>1, <1>2, <1>5, <1>10 DEF Placed, PlacedAt, Library, Fibers
<1>13. Range(waiting) = {} /\ Range(callbacks) = {} /\ Range(woken) = {} /\ Len(woken) = 0
  BY <1>1, EmptyList
<1>14. Listed /\ Registered /\ Ordered
  BY <1>1, <1>13, EmptyList DEF Listed, Registered, Ordered
<1>15. Deferred
  BY <1>1, FS_EmptySet DEF Deferred
<1>16. Closing /\ Ended
  BY <1>1, <1>2 DEF Closing, Ended
<1> QED
  BY <1>7, <1>8, <1>9, <1>11, <1>12, <1>14, <1>15, <1>16 DEF IInv

\* Every step preserves it.
LEMMA StepInv == IInv /\ [Next]_vars => IInv'
<1> SUFFICES ASSUME IInv, [Next]_vars PROVE IInv'
  OBVIOUS
<1>1. ASSUME NEW f \in Fibers, wait(f) PROVE IInv'
  BY <1>1, WaitStep
<1>2. ASSUME NEW f \in Fibers, WaitReturns(f) PROVE IInv'
  BY <1>2, WaitReturnsStep
<1>3. ASSUME NEW f \in Fibers, signal(f) PROVE IInv'
  BY <1>3, SignalStep
<1>4. ASSUME NEW f \in Fibers, broadcastAll(f) PROVE IInv'
  BY <1>4, BroadcastStep
<1>5. ASSUME NEW f \in Fibers, close(f) PROVE IInv'
  BY <1>5, CloseStep
<1>6. CASE shutdown_cond_cb
  BY <1>6, ShutdownStep
<1>7. ASSUME dispatch_tasks, UNCHANGED condVars PROVE IInv'
  BY <1>7, DispatchStep
<1>8. ASSUME NEW t \in Tasks, run_task_fiber(t), UNCHANGED condVars PROVE IInv'
  BY <1>8, TaskEndStep
<1>9. ASSUME async_task_scheduler_dispose, UNCHANGED condVars PROVE IInv'
  BY <1>9, DrainStep DEF async_task_scheduler_dispose, condVars
<1>10. ASSUME run_scheduler_fiber({}), UNCHANGED condVars PROVE IInv'
  BY <1>10, LoopReturnsStep
<1>11. ASSUME DisposeDrain({s \in {"shutdown"} : ~closed}), UNCHANGED condVars
       PROVE  IInv'
  <2>1. closed
    BY <1>11 DEF DisposeDrain, IInv, CondTypes
  <2> QED
    BY <1>11, <2>1, DrainStep DEF DisposeDrain, condVars
<1>12. ASSUME NEW f \in Fibers \cup {Runner}, CancelInvoke(f), UNCHANGED condVars
       PROVE  IInv'
  BY <1>12, CancelInvokeStep
<1>13. ASSUME CancelLoop, UNCHANGED condVars PROVE IInv'
  BY <1>13, CancelLoopStep
<1>14. CASE UNCHANGED vars
  <2>1. Bookkeeping'
    BY <1>14 DEF IInv, Bookkeeping, vars
  <2> QED
    BY <1>14, <2>1, CallOnly DEF vars
<1> QED
  BY <1>1, <1>2, <1>3, <1>4, <1>5, <1>6, <1>7, <1>8, <1>9, <1>10, <1>11, <1>12,
     <1>13, <1>14 DEF Next

\* The inductive invariant is an invariant.
THEOREM Invariant == Spec => []IInv
  BY InitInv, StepInv, PTL DEF Spec

\* The types.
THEOREM TypesHold == Spec => []TypeOK
<1>1. IInv => TypeOK
  BY BusyNat DEF IInv, TypeOK, SchedTypeOK, FiberLists, Bookkeeping, CondTypes, Places, Library
<1> QED
  BY <1>1, Invariant, PTL

\* A fiber is in exactly one place of the scheduler at any time: it is never
\* resumed twice on one native stack (async_fiber_switch), and never lost after
\* its operation completed (async_task_scheduler_enqueue).
THEOREM FibersInOnePlace == Spec => []OnePlace
<1>1. ASSUME IInv, NEW f \in Fibers PROVE Cardinality(Residence(f)) = 1
  <2>1. PlacedAt(f) /\ pc[f] \in Places
    BY <1>1 DEF IInv, Placed, CondTypes
  <2>2. /\ f \in Active <=> f = cur \/ f \in Range(fibers)
        /\ cur \notin Range(fibers) /\ Active \cap Range(ready) = {}
    BY <1>1 DEF IInv, Single, Active
  <2>3. CASE f = cur
    <3>1. f \notin Range(fibers) /\ f \notin Range(ready)
      BY <2>2, <2>3
    <3>2. Residence(f) = {"cur"}
      BY <2>3, <3>1 DEF Residence
    <3> QED
      BY <3>2, FS_Singleton
  <2>4. CASE f \in Range(fibers)
    <3>1. /\ f # cur /\ f \notin Range(ready) /\ op[f] # "RUNNING"
          /\ pc[f] # "drain" /\ pc[f] # "done"
      BY <2>1, <2>2, <2>4 DEF PlacedAt
    <3>2. Residence(f) = {"fibers"}
      BY <2>4, <3>1 DEF Residence
    <3> QED
      BY <3>2, FS_Singleton
  <2>5. CASE f \in Range(ready)
    <3>1. f # cur /\ f \notin Range(fibers) /\ pc[f] # "done"
      BY <2>1, <2>2, <2>5 DEF PlacedAt
    <3>2. Residence(f) = {"ready"}
      BY <2>5, <3>1 DEF Residence
    <3> QED
      BY <3>2, FS_Singleton
  <2>6. CASE f # cur /\ f \notin Range(fibers) /\ f \notin Range(ready)
    <3>1. \/ pc[f] = "wait" /\ op[f] = "RUNNING"
          \/ pc[f] = "drain"
          \/ pc[f] = "done" /\ op[f] # "RUNNING"
      BY <2>1, <2>2, <2>6 DEF PlacedAt, Places
    <3>2. CASE pc[f] = "done" /\ op[f] # "RUNNING"
      <4>1. Residence(f) = {"ended"}
        BY <2>6, <3>2 DEF Residence
      <4> QED
        BY <4>1, FS_Singleton
    <3>3. CASE (pc[f] = "wait" /\ op[f] = "RUNNING") \/ pc[f] = "drain"
      <4>1. Residence(f) = {"waits"}
        BY <2>6, <3>3 DEF Residence
      <4> QED
        BY <4>1, FS_Singleton
    <3> QED
      BY <3>1, <3>2, <3>3
  <2> QED
    BY <2>3, <2>4, <2>5, <2>6
<1>2. IInv => \A i \in DOMAIN fibers : fibers[i] = Runner => i = Len(fibers)
  BY LenProperties DEF IInv, Single, FiberLists
<1>3. IInv => OnePlace
  BY <1>1, <1>2 DEF OnePlace, IInv, Single
<1> QED
  BY <1>3, Invariant, PTL

\* cond->broadcast is the number of deferred wake-ups not yet taken, so it never
\* wraps below zero and returns to zero (signal and broadcast of sync.c).
THEOREM BroadcastCounted == Spec => []BroadcastCount
<1>1. IInv => BroadcastCount
  <2> SUFFICES ASSUME IInv PROVE BroadcastCount
    OBVIOUS
  <2>1. \A f \in defer : f \in Fibers /\ op[f] = "RESOLVED"
    BY DEF IInv, Deferred, Bookkeeping
  <2>2. \A f \in defer : f = cur \/ f \in Range(ready)
    BY <2>1 DEF IInv, Placed, PlacedAt
  <2> QED
    BY <2>1, <2>2 DEF BroadcastCount, IInv, Deferred
<1> QED
  BY <1>1, Invariant, PTL

\* The program ends with nothing ready, interrupted or registered and with every
\* task finished (the assertions of async_task_scheduler_object_destroy).
THEOREM EndsClean == Spec => []CleanEnd
<1>1. IInv => CleanEnd
  BY DEF IInv, Ended, CleanEnd
<1> QED
  BY <1>1, Invariant, PTL

\* A settled operation keeps its outcome until its fiber has taken it: neither
\* a late cancellation nor a second completion overwrites it (cancel_op,
\* ASYNC_FINISH_OP and ASYNC_FAIL_OP of task.c and sync.c).
THEOREM OutcomesStable == Spec => OutcomeStable
<1> DEFINE A == \A f \in Fibers : Settled(f) => op'[f] \in {op[f], "PENDING"}
<1>1. ASSUME IInv, NEW w \in Fibers, op[w] \in {"RUNNING", "PENDING"}, NEW o,
             op' = [op EXCEPT ![w] = o]
      PROVE  A
  BY <1>1 DEF Settled, IInv, FiberLists
<1>2. IInv /\ UNCHANGED op => A
  BY DEF Settled
<1>3. IInv /\ Next => A
  <2> SUFFICES ASSUME IInv, Next PROVE A
    OBVIOUS
  <2> HIDE DEF A
  <2>1. ASSUME NEW f \in Fibers, wait(f) PROVE A
    <3>1. op[f] = "PENDING"
      BY <2>1 DEF wait, MayCall, IInv, Placed, PlacedAt
    <3> QED
      BY <1>1, <1>2, <2>1, <3>1 DEF wait, AwaitOp, AwaitSuspend
  <2>2. ASSUME NEW f \in Fibers, WaitReturns(f) PROVE A
    BY <2>2 DEF WaitReturns, AwaitDone, AwaitResume, A, Settled, IInv, FiberLists
  <2>3. ASSUME NEW f \in Fibers, signal(f) PROVE A
    <3>1. /\ pc[cur] # "wait" /\ waiting # <<>>
          /\ op' = [op EXCEPT ![Head(waiting)] = "RESOLVED"]
      BY <2>3 DEF signal, MayCall
    <3> QED
      BY <1>1, <3>1, FirstWaiter
  <2>4. ASSUME NEW f \in Fibers, broadcastAll(f) PROVE A
    <3>1. /\ cur = f /\ pc[f] = "run"
          /\ op' = [g \in Fibers |-> IF g \in Range(waiting) THEN "RESOLVED" ELSE op[g]]
      BY <2>4 DEF broadcastAll, MayCall
    <3>2. \A g \in Range(waiting) : op[g] = "RUNNING"
      BY <3>1, NotWoken DEF IInv, Listed
    <3> QED
      BY <3>1, <3>2 DEF A, Settled
  <2>5. ASSUME NEW f \in Fibers, close(f) PROVE A
    BY <1>2, <2>5 DEF close
  <2>6. CASE shutdown_cond_cb
    <3>1. CASE waiting = <<>>
      BY <1>2, <2>6, <3>1 DEF shutdown_cond_cb
    <3>2. CASE waiting # <<>>
      <4>1. pc[cur] # "wait" /\ op' = [op EXCEPT ![Head(waiting)] = "FAILED"]
        BY <2>6, <3>2 DEF shutdown_cond_cb, reschedule_task
      <4> QED
        BY <1>1, <3>2, <4>1, FirstWaiter
    <3> QED
      BY <3>1, <3>2
  <2>7. CASE CancelLoop
    <3>1. CASE callbacks # <<>> /\ op[Head(callbacks)] = "RUNNING"
      <4>1. op' = [op EXCEPT ![Head(callbacks)] = "FAILED"]
        BY <2>7, <3>1 DEF CancelLoop, reschedule_task
      <4>2. Head(callbacks) \in Fibers
        BY <3>1, TailList DEF IInv, CondTypes
      <4> QED
        BY <1>1, <3>1, <4>1, <4>2
    <3>2. CASE callbacks = <<>> \/ op[Head(callbacks)] # "RUNNING"
      BY <1>2, <2>7, <3>2 DEF CancelLoop
    <3> QED
      BY <3>1, <3>2
  <2>8. CASE \/ dispatch_tasks \/ async_task_scheduler_dispose
             \/ \E t \in Tasks : run_task_fiber(t)
             \/ run_scheduler_fiber({})
             \/ DisposeDrain({s \in {"shutdown"} : ~closed})
             \/ \E f \in Fibers \cup {Runner} : CancelInvoke(f)
    <3>1. UNCHANGED op
      BY <2>8 DEF dispatch_tasks, async_task_scheduler_dispose, run_task_fiber,
                  run_scheduler_fiber, DisposeDrain, CancelInvoke
    <3> QED
      BY <1>2, <3>1
  <2> QED
    BY <2>1, <2>2, <2>3, <2>4, <2>5, <2>6, <2>7, <2>8 DEF Next
<1>4. IInv /\ UNCHANGED vars => UNCHANGED schedVars
  BY DEF vars, schedVars
<1>5. IInv /\ [Next]_vars => [A]_schedVars
  BY <1>3, <1>4
<1> QED
  BY <1>5, Invariant, PTL DEF Spec, OutcomeStable

\* Waiters return from wait in the order in which signal and broadcast chose
\* them: the deferred ones of a broadcast are not overtaken by a later signal.
THEOREM WokenInOrder == Spec => WakeOrder
<1> DEFINE A == \A f \in Fibers :
                  f \in Range(woken) /\ f \notin Range(woken') => f = Head(woken)
<1>1. IInv /\ Range(woken) \subseteq Range(woken') => A
  OBVIOUS
<1>2. IInv /\ Next => A
  <2> SUFFICES ASSUME IInv, Next PROVE A
    OBVIOUS
  <2>1. ASSUME NEW f \in Fibers, WaitReturns(f) PROVE A
    <3>1. cur = f /\ woken' = ASYNC_LIST_REMOVE(woken, f)
      BY <2>1 DEF WaitReturns
    <3>2. Range(woken') = Range(woken) \ {f}
      BY <3>1, RemoveList DEF IInv, CondTypes, Ordered
    <3> QED
      BY <3>1, <3>2, WokenFirst
  <2> HIDE DEF A
  <2>2. ASSUME NEW f \in Fibers, signal(f) PROVE A
    <3>1. woken' = Append(woken, Head(waiting)) /\ pc[cur] # "wait" /\ waiting # <<>>
      BY <2>2 DEF signal, MayCall
    <3>2. Range(woken') = Range(woken) \cup {Head(waiting)}
      BY <3>1, FirstWaiter, AppendList DEF IInv, CondTypes
    <3> QED
      BY <1>1, <3>2
  <2>3. ASSUME NEW f \in Fibers, broadcastAll(f) PROVE A
    <3>1. woken' = woken \o waiting
      BY <2>3 DEF broadcastAll
    <3>2. Range(woken') = Range(woken) \cup Range(waiting)
      BY <3>1, ConcatList DEF IInv, CondTypes
    <3> QED
      BY <1>1, <3>2
  <2>4. CASE UNCHANGED woken
    BY <1>1, <2>4
  <2> QED
    BY <2>1, <2>2, <2>3, <2>4 DEF Next, wait, close, shutdown_cond_cb, condVars
<1>3. IInv /\ [Next]_vars => [A]_vars
  BY <1>2
<1> QED
  BY <1>3, Invariant, PTL DEF Spec, WakeOrder

=============================================================================
