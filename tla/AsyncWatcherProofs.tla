------------------------- MODULE AsyncWatcherProofs -------------------------
(***************************************************************************)
(* Theorems of AsyncWatcher for any fibers, watchers and bounds on the     *)
(* number of calls: who is listed is observed, a callback forgets nobody   *)
(* and completes nobody twice, and a handle is referenced exactly while a  *)
(* foreground fiber waits for it, as long as the 8-bit count cannot wrap.  *)
(***************************************************************************)
EXTENDS AsyncWatcher, AsyncSchedulerProofs

-----------------------------------------------------------------------------
(***************************************************************************)
(* The inductive invariant.                                                *)
(***************************************************************************)

\* A list holds fibers inside a call on that watcher and side, each once.
Listed ==
  /\ defer = {}
  /\ \A w \in Watchers, s \in Sides :
       /\ IsInjective(waiters[w][s])
       /\ \A f \in Range(waiters[w][s]) : pc[f] = "watch" /\ on[f] = <<w, s>>
       /\ s \notin SidesOf(w) => waiters[w][s] = <<>>
  /\ \A f \in Fibers :
       pc[f] \in {"watch", "close", "shutdown"} => on[f] \in Watchers \X Sides

\* A handle that is not a Poll's is active while somebody is listed.  A Poll's
\* mask has the sides on which somebody is listed, and its handle observes the
\* mask or is stopped.
Observed ==
  \A w \in Watchers :
    IF Kind[w] = "poll"
    THEN /\ {s \in Sides : waiters[w][s] # <<>>} \subseteq mask[w]
         /\ active[w] \in {mask[w], {}}
    ELSE waiters[w]["read"] # <<>> /\ ~closed[w] /\ w \notin OneShot =>
           "read" \in active[w]

\* The sides whose loop has not met the remembered operation.
Open == {s \in trigger.todo : s = Side => trigger.cont}

\* What a callback still has to do.
Callback ==
  /\ pc[Runner] \in {"run", "cancel", "trigger"}
  /\ pc[Runner] # "trigger" => due = {} /\ trigger = NoTrigger
  /\ pc[Runner] = "trigger" => trigger.w \in Watchers
  /\ \A s \in Sides : trigger.mark[s] \in Fibers =>
       pc[trigger.mark[s]] = "watch" /\ on[trigger.mark[s]] = <<trigger.w, s>>
  /\ \A f \in due :
       /\ pc[f] = "watch" /\ on[f][1] = trigger.w /\ on[f][2] \in Open
       /\ f = cur \/ f \in Range(waiters[trigger.w][on[f][2]])
  /\ pc[Runner] = "trigger" => \A s \in Open :
       LET l == waiters[trigger.w][s] IN
       \A i, j \in 1..Len(l) : l[j] = trigger.mark[s] =>
         /\ l[i] \in due => i <= j
         /\ ~trigger.stray /\ i <= j => l[i] \in due
  /\ \A s \in Open : ~trigger.stray => trigger.mark[s] \in due \cup {None}

\* The foreground fibers that are inside an await on a watcher.
Inside(w) == {f \in Fibers : pc[f] = "watch" /\ on[f][1] = w /\ Counts(f, w)}

Counted ==
  \A w \in Watchers :
    /\ refs[w] = Cardinality(Inside(w))
    /\ w \in held <=> refs[w] > 0

Places ==
  {"run", "watch", "sleep", "trigger", "cancel", "close", "shutdown", "drain",
   "dispose", "done"}

\* The conjuncts of the type invariant, grouped by what changes them.
SchedTypes ==
  /\ FiberLists /\ Bookkeeping
  /\ busy \in Nat
  /\ callbacks \in Seq(Fibers)
  /\ pc \in [Fibers \cup {Runner} -> Places]

Triggers == [w : Watchers \cup {None}, todo : SUBSET Sides, cont : BOOLEAN,
             mark : [Sides -> Fibers \cup {None, Freed}], stray : BOOLEAN]

ListTypes ==
  /\ waiters \in [Watchers -> [Sides -> Seq(Fibers)]]
  /\ on \in [Fibers -> (Watchers \X Sides) \cup {<<None, "read">>}]
  /\ trigger \in Triggers
  /\ due \subseteq Fibers

HandleTypes ==
  /\ active \in [Watchers -> SUBSET Sides]
  /\ mask \in [Watchers -> SUBSET Sides]
  /\ closed \in [Watchers -> BOOLEAN]

CountTypes ==
  /\ refs \in [Watchers -> 0..(RefModulus - 1)]
  /\ held \subseteq Watchers

SleepTypes ==
  /\ sleepers \in Seq(Fibers)
  /\ alarms \subseteq Fibers

Types == SchedTypes /\ ListTypes /\ HandleTypes /\ CountTypes /\ SleepTypes

IInv == Types /\ Listed /\ Observed /\ Callback

\* They are those of WatchTypeOK.
LEMMA TypesAre == Types <=> WatchTypeOK
  BY DEF Types, SchedTypes, ListTypes, HandleTypes, CountTypes, SleepTypes,
         Triggers, Places, WatchTypeOK, SchedTypeOK, FiberLists, Bookkeeping

-----------------------------------------------------------------------------
(***************************************************************************)
(* Steps that leave the lists alone.                                       *)
(***************************************************************************)

\* The fibers in a list, remembered or due are inside an await, so the step of
\* a fiber elsewhere does not move them.
LEMMA NotInside ==
  ASSUME IInv, NEW f \in Fibers \cup {Runner}, f = Runner \/ pc[f] # "watch"
  PROVE  /\ f \notin due
         /\ \A w \in Watchers, s \in Sides : f \notin Range(waiters[w][s])
         /\ \A s \in Sides : trigger.mark[s] \in Fibers => trigger.mark[s] # f
<1>1. CASE f = Runner
  <2>1. Runner \notin Fibers
    BY SchedulerAssumption
  <2>2. \A w \in Watchers, s \in Sides : Range(waiters[w][s]) \subseteq Fibers
    <3>1. \A w \in Watchers, s \in Sides : waiters[w][s] \in Seq(Fibers)
      BY DEF IInv, Types, ListTypes
    <3> QED
      BY <3>1, InList
  <2> QED
    BY <1>1, <2>1, <2>2 DEF IInv, Types, ListTypes
<1>2. CASE pc[f] # "watch"
  BY <1>2 DEF IInv, Listed, Callback
<1> QED
  BY <1>1, <1>2

\* Who is inside an await, on which watcher, stays, and the loop does not enter
\* or leave a callback.
Still ==
  /\ \A f \in Fibers : pc[f] = "watch" => pc'[f] = "watch" /\ on'[f] = on[f]
  /\ \A f \in Fibers : pc'[f] \in {"watch", "close", "shutdown"} =>
       on'[f] \in Watchers \X Sides
  /\ pc'[Runner] \in {"run", "cancel", "trigger"}
  /\ pc'[Runner] = "trigger" <=> pc[Runner] = "trigger"

\* Such a step keeps what is known of the lists and of the callback.
LEMMA StillLists ==
  ASSUME IInv, cur = Runner \/ pc[cur] # "watch", Still,
         UNCHANGED <<waiters, trigger, due, defer>>
  PROVE  Listed' /\ Callback'
<1>1. cur \notin due
  BY NotInside DEF IInv, Types, SchedTypes, FiberLists
<1>2. \A w \in Watchers, s \in Sides : Range(waiters[w][s]) \subseteq Fibers
  <2>1. \A w \in Watchers, s \in Sides : waiters[w][s] \in Seq(Fibers)
    BY DEF IInv, Types, ListTypes
  <2> QED
    BY <2>1, InList
<1>3. Listed'
  BY <1>2 DEF IInv, Listed, Still
<1>4. Callback'
  <2>1. Open' = Open
    BY DEF Open, Side
  <2>2. \A f \in due : f \in Fibers /\ f # cur
    BY <1>1 DEF IInv, Types, ListTypes
  <2>3. \A s \in Sides : trigger.mark[s] \in Fibers =>
          pc'[trigger.mark[s]] = "watch" /\ on'[trigger.mark[s]] = <<trigger.w, s>>
    BY DEF IInv, Callback, Still
  <2>4. \A f \in due :
          /\ pc'[f] = "watch" /\ on'[f] = on[f]
          /\ f \in Range(waiters[trigger.w][on[f][2]])
    BY <2>2 DEF IInv, Callback, Still
  <2> QED
    BY <2>1, <2>2, <2>3, <2>4 DEF IInv, Callback, Still
<1> QED
  BY <1>3, <1>4

\* A step that touches neither the lists nor the handles.
LEMMA Elsewhere ==
  ASSUME IInv, cur = Runner \/ pc[cur] # "watch", Still,
         UNCHANGED <<waiters, active, mask, closed, refs, held, trigger, due, defer>>,
         SchedTypes', SleepTypes',
         on' \in [Fibers -> (Watchers \X Sides) \cup {<<None, "read">>}]
  PROVE  IInv'
<1>1. Listed' /\ Callback'
  BY StillLists
<1>2. Types'
  BY DEF IInv, Types, ListTypes, HandleTypes, CountTypes
<1>3. Observed'
  BY DEF IInv, Observed
<1> QED
  BY <1>1, <1>2, <1>3 DEF IInv

\* A step of the scheduler moves no fiber into an await or out of one.
LEMMA SchedulerStep ==
  ASSUME IInv, UNCHANGED watchVars,
         \/ dispatch_tasks
         \/ \E t \in Tasks : run_task_fiber(t)
         \/ async_task_scheduler_dispose
         \/ run_scheduler_fiber(Alive)
         \/ DisposeDrain({w \in Watchers : ~closed[w]} \cup Range(sleepers))
         \/ \E f \in Fibers \cup {Runner} : CancelInvoke(f)
         \/ CancelLoop
  PROVE  IInv'
<1> USE DEF IInv, Types
<1>1. /\ on' \in [Fibers -> (Watchers \X Sides) \cup {<<None, "read">>}]
      /\ SleepTypes'
      /\ UNCHANGED <<waiters, active, mask, closed, refs, held, trigger, due, on>>
  BY DEF watchVars, ListTypes, SleepTypes
<1>2. Runner \notin Fibers /\ Root \in Fibers /\ Tasks \subseteq Fibers
  BY SchedulerAssumption DEF Fibers
<1>3. SUFFICES /\ cur = Runner \/ pc[cur] # "watch"
               /\ Still /\ SchedTypes' /\ UNCHANGED defer
  BY <1>1, Elsewhere
<1>4. ASSUME NEW f \in Fibers \cup {Runner}, NEW x \in Places \ {"trigger", "watch",
                                                  "close", "shutdown"},
             pc' = [pc EXCEPT ![f] = x], f \in Fibers => pc[f] # "watch",
             f = Runner => pc[f] # "trigger" /\ x \in {"run", "cancel"}
      PROVE  Still /\ pc' \in [Fibers \cup {Runner} -> Places]
  <2>1. pc' \in [Fibers \cup {Runner} -> Places]
    BY <1>4 DEF SchedTypes
  <2>2. Still
    BY <1>1, <1>2, <1>4 DEF SchedTypes, Listed, Callback, Still
  <2> QED
    BY <2>1, <2>2
<1>5. ASSUME UNCHANGED pc
      PROVE  Still /\ pc' \in [Fibers \cup {Runner} -> Places]
  BY <1>1, <1>5 DEF SchedTypes, Listed, Callback, Still
<1>6. CASE dispatch_tasks
  <2>1. Head(ready) \in Fibers /\ Tail(ready) \in Seq(Fibers)
    BY <1>6, TailList DEF dispatch_tasks, SchedTypes, FiberLists
  <2>2. FiberLists'
    <3>1. cur' \in Fibers \cup {Runner} /\ fibers' \in Seq(Fibers \cup {Runner})
      BY <1>6, <2>1, SwitchType DEF dispatch_tasks, SchedTypes
    <3> QED
      BY <1>6, <2>1, <3>1 DEF dispatch_tasks, SchedTypes, FiberLists, TaskStatus
  <2> QED
    BY <1>5, <1>6, <2>2 DEF dispatch_tasks, SchedTypes, Bookkeeping
<1>7. ASSUME NEW t \in Tasks, run_task_fiber(t)
      PROVE  /\ cur = Runner \/ pc[cur] # "watch"
             /\ Still /\ SchedTypes' /\ UNCHANGED defer
  <2>1. Still /\ pc' \in [Fibers \cup {Runner} -> Places]
    BY <1>2, <1>4, <1>7 DEF run_task_fiber, Places
  <2>2. cur' \in Fibers \cup {Runner} /\ fibers' \in Seq(Fibers \cup {Runner})
    BY <1>7, SuspendType DEF run_task_fiber, SchedTypes
  <2>3. FiberLists'
    BY <1>2, <1>7, <2>2 DEF run_task_fiber, SchedTypes, FiberLists, TaskStatus
  <2> QED
    BY <1>7, <2>1, <2>3 DEF run_task_fiber, SchedTypes, Bookkeeping
<1>8. ASSUME async_task_scheduler_dispose
             \/ DisposeDrain({w \in Watchers : ~closed[w]} \cup Range(sleepers))
      PROVE  /\ cur = Runner \/ pc[cur] # "watch"
             /\ Still /\ SchedTypes' /\ UNCHANGED defer
  <2>0. /\ async_fiber_suspend /\ pc' = [pc EXCEPT ![Root] = "drain"]
        /\ cur = Root /\ pc[Root] \in {"run", "dispose"}
        /\ UNCHANGED <<ready, status, op, defer, busy, callbacks, triggered,
                       disposed, calls>>
    BY <1>8 DEF async_task_scheduler_dispose, DisposeDrain
  <2>1. Still /\ pc' \in [Fibers \cup {Runner} -> Places]
    BY <1>2, <1>4, <2>0 DEF Places
  <2>2. cur' \in Fibers \cup {Runner} /\ fibers' \in Seq(Fibers \cup {Runner})
    BY <2>0, SuspendType DEF SchedTypes
  <2>3. FiberLists'
    BY <2>0, <2>2 DEF SchedTypes, FiberLists
  <2> QED
    BY <2>0, <2>1, <2>3 DEF SchedTypes, Bookkeeping
<1>9. CASE run_scheduler_fiber(Alive)
  <2>1. Still /\ pc' \in [Fibers \cup {Runner} -> Places]
    <3>1. PICK x \in {"done", "dispose"} : pc' = [pc EXCEPT ![Root] = x]
      BY <1>9 DEF run_scheduler_fiber
    <3>2. pc[Root] # "watch" /\ Root # Runner
      BY <1>2, <1>9 DEF run_scheduler_fiber
    <3> QED
      BY <1>2, <1>4, <3>1, <3>2 DEF Places
  <2> QED
    BY <1>2, <1>9, <2>1 DEF run_scheduler_fiber, SchedTypes, Bookkeeping, FiberLists
<1>10. ASSUME NEW f \in Fibers \cup {Runner}, CancelInvoke(f)
       PROVE  /\ cur = Runner \/ pc[cur] # "watch"
              /\ Still /\ SchedTypes' /\ UNCHANGED defer
  <2>1. /\ pc[f] = "run" /\ cur = f /\ calls' \in [Fibers -> Nat]
        /\ \A g \in Fibers : calls'[g] <= MaxCalls[g]
    <3>1. CASE MayCall(f) /\ Call(f)
      BY <3>1, CallBound DEF SchedTypes
    <3>2. CASE ~(MayCall(f) /\ Call(f))
      BY <1>10, <3>2 DEF CancelInvoke, SchedTypes, Bookkeeping
    <3> QED
      BY <3>1, <3>2
  <2>2. Still /\ pc' \in [Fibers \cup {Runner} -> Places]
    BY <1>4, <1>10, <2>1 DEF CancelInvoke, Places
  <2> QED
    BY <1>10, <2>1, <2>2 DEF CancelInvoke, SchedTypes, Bookkeeping, FiberLists
<1>11. CASE CancelLoop
  <2>1. cur \in Fibers \cup {Runner} /\ pc[cur] = "cancel"
    BY <1>11 DEF CancelLoop, SchedTypes, FiberLists
  <2>2. CASE callbacks = <<>>
    <3>1. Still /\ pc' \in [Fibers \cup {Runner} -> Places]
      BY <1>4, <1>11, <2>1, <2>2 DEF CancelLoop, Places
    <3> QED
      BY <1>11, <2>1, <2>2, <3>1 DEF CancelLoop, SchedTypes, Bookkeeping, FiberLists
  <2>3. CASE callbacks # <<>>
    <3>1. Head(callbacks) \in Fibers /\ Tail(callbacks) \in Seq(Fibers)
      BY <2>3, TailList DEF SchedTypes
    <3>2. FiberLists'
      <4>1. CASE op[Head(callbacks)] = "RUNNING"
        BY <1>11, <2>3, <3>1, <4>1, RescheduleType
           DEF CancelLoop, SchedTypes, OpStatus
      <4>2. CASE op[Head(callbacks)] # "RUNNING"
        BY <1>11, <2>3, <4>2 DEF CancelLoop, SchedTypes, FiberLists
      <4> QED
        BY <4>1, <4>2
    <3>3. Still /\ pc' \in [Fibers \cup {Runner} -> Places]
      BY <1>5, <1>11, <2>3 DEF CancelLoop
    <3>4. callbacks' \in Seq(Fibers) /\ UNCHANGED <<defer, busy, triggered, disposed, calls>>
      BY <1>11, <2>3, <3>1 DEF CancelLoop
    <3> QED
      BY <2>1, <3>2, <3>3, <3>4 DEF SchedTypes, Bookkeeping
  <2> QED
    BY <2>2, <2>3
<1> QED
  BY <1>6, <1>7, <1>8, <1>9, <1>10, <1>11

\* sleep() has an operation and a timer of its own.
LEMMA SleepStep ==
  ASSUME IInv,
         \/ \E f \in Fibers : asyncsleep(f) \/ sleep_cb(f) \/ SleepReturns(f)
         \/ DisposeSleeper
  PROVE  IInv'
<1> USE DEF IInv, Types
<1>1. Runner \notin Fibers
  BY SchedulerAssumption
<1>2. ASSUME UNCHANGED <<pc, on>>
      PROVE  Still /\ pc' \in [Fibers \cup {Runner} -> Places]
  BY <1>2 DEF SchedTypes, Listed, Callback, Still
<1>3. ASSUME NEW f \in Fibers, asyncsleep(f)
      PROVE  IInv'
  <2>1. /\ cur = f /\ pc[f] = "run" /\ Bookkeeping'
        /\ UNCHANGED <<waiters, active, mask, closed, refs, held, on, trigger, due,
                       defer, busy, ready>>
        /\ pc' = [pc EXCEPT ![f] = "sleep"]
    BY <1>3, CallFlags DEF asyncsleep, AwaitSuspend, MayCall, SchedTypes
  <2>2. Still /\ pc' \in [Fibers \cup {Runner} -> Places]
    BY <1>1, <2>1 DEF SchedTypes, Listed, Callback, Still, Places
  <2>3. cur' \in Fibers \cup {Runner} /\ fibers' \in Seq(Fibers \cup {Runner})
    BY <1>3, SuspendType DEF asyncsleep, AwaitSuspend, SchedTypes
  <2>4. FiberLists'
    BY <1>3, <2>1, <2>3 DEF asyncsleep, AwaitSuspend, SchedTypes, FiberLists,
                            TaskStatus, OpStatus
  <2>5. callbacks' \in Seq(Fibers)
    BY <1>3 DEF asyncsleep, AwaitSuspend, SchedTypes
  <2>6. SleepTypes'
    BY <1>3 DEF asyncsleep, SleepTypes
  <2>7. on' \in [Fibers -> (Watchers \X Sides) \cup {<<None, "read">>}]
    BY <2>1 DEF ListTypes
  <2>8. SchedTypes'
    BY <2>1, <2>2, <2>4, <2>5 DEF SchedTypes
  <2> QED
    BY <2>1, <2>2, <2>6, <2>7, <2>8, Elsewhere
<1>4. ASSUME NEW f \in Fibers, NEW o \in OpStatus, reschedule_task(f, o),
             cur = Runner \/ pc[cur] # "watch", SleepTypes',
             UNCHANGED <<pc, defer, busy, callbacks, triggered, disposed, calls,
                         waiters, active, mask, closed, refs, held, on, trigger, due>>
      PROVE  IInv'
  <2>1. FiberLists'
    BY <1>4, RescheduleType DEF SchedTypes
  <2>2. SchedTypes'
    BY <1>2, <1>4, <2>1 DEF SchedTypes, Bookkeeping
  <2>3. on' \in [Fibers -> (Watchers \X Sides) \cup {<<None, "read">>}]
    BY <1>4 DEF ListTypes
  <2> QED
    BY <1>2, <1>4, <2>2, <2>3, Elsewhere
<1>5. ASSUME NEW f \in Fibers, sleep_cb(f)
      PROVE  IInv'
  <2>1. SleepTypes'
    BY <1>5, RemoveList DEF sleep_cb, SleepTypes
  <2> QED
    BY <1>4, <1>5, <2>1 DEF sleep_cb, OpStatus
<1>6. ASSUME NEW f \in Fibers, SleepReturns(f)
      PROVE  IInv'
  <2>1. /\ cur = f /\ pc[f] = "sleep"
        /\ UNCHANGED <<waiters, active, mask, closed, refs, held, on, trigger, due,
                       defer, busy, ready, cur, fibers, status, triggered,
                       disposed, calls>>
        /\ pc' = [pc EXCEPT ![f] = "run"]
    BY <1>6 DEF SleepReturns, AwaitResume
  <2>2. Still /\ pc' \in [Fibers \cup {Runner} -> Places]
    BY <1>1, <2>1 DEF SchedTypes, Listed, Callback, Still, Places
  <2>3. FiberLists'
    BY <1>6, <2>1 DEF SleepReturns, AwaitResume, SchedTypes, FiberLists, OpStatus
  <2>4. callbacks' \in Seq(Fibers)
    BY <1>6, RemoveList DEF SleepReturns, AwaitResume, SchedTypes
  <2>5. SleepTypes'
    BY <1>6, RemoveList DEF SleepReturns, SleepTypes
  <2>6. SchedTypes'
    BY <2>1, <2>2, <2>3, <2>4 DEF SchedTypes, Bookkeeping
  <2>7. on' \in [Fibers -> (Watchers \X Sides) \cup {<<None, "read">>}]
    BY <2>1 DEF ListTypes
  <2> QED
    BY <2>1, <2>2, <2>5, <2>6, <2>7, Elsewhere
<1>7. ASSUME DisposeSleeper
      PROVE  IInv'
  <2>1. Head(sleepers) \in Fibers /\ SleepTypes'
    BY <1>7, TailList DEF DisposeSleeper, SleepTypes
  <2> QED
    BY <1>4, <1>7, <2>1 DEF DisposeSleeper, OpStatus
<1> QED
  BY <1>3, <1>5, <1>6, <1>7

-----------------------------------------------------------------------------
(***************************************************************************)
(* Steps that change a list.                                               *)
(***************************************************************************)

\* Assigning one list of one watcher leaves the others alone.
LEMMA ListChange ==
  ASSUME ListTypes, NEW w \in Watchers, NEW s \in Sides, NEW l \in Seq(Fibers),
         waiters' = [waiters EXCEPT ![w][s] = l]
  PROVE  /\ waiters' \in [Watchers -> [Sides -> Seq(Fibers)]]
         /\ waiters'[w][s] = l
         /\ \A v \in Watchers, t \in Sides :
              v # w \/ t # s => waiters'[v][t] = waiters[v][t]
<1> DEFINE m == [waiters[w] EXCEPT ![s] = l]
<1>1. waiters[w] \in [Sides -> Seq(Fibers)]
  BY DEF ListTypes
<1>2. /\ m \in [Sides -> Seq(Fibers)] /\ m[s] = l
      /\ \A t \in Sides : t # s => m[t] = waiters[w][t]
  BY <1>1
<1>3. waiters' = [waiters EXCEPT ![w] = m]
  OBVIOUS
<1> HIDE DEF m
<1>4. waiters'[w] = m /\ \A v \in Watchers : v # w => waiters'[v] = waiters[v]
  BY <1>3 DEF ListTypes
<1>5. waiters' \in [Watchers -> [Sides -> Seq(Fibers)]]
  BY <1>2, <1>3 DEF ListTypes
<1> QED
  BY <1>2, <1>4, <1>5

\* Unlinking keeps the lists proper and everybody who is left observed.
LEMMA Shrunk ==
  ASSUME IInv, NEW w \in Watchers, NEW s \in Sides, NEW m \in Seq(Fibers),
         waiters' = [waiters EXCEPT ![w][s] = m],
         IsInjective(m), Range(m) \subseteq Range(waiters[w][s]),
         UNCHANGED <<defer, active, mask, closed>>,
         \A g \in Fibers : pc[g] = "watch" =>
           \/ pc'[g] = "watch" /\ on'[g] = on[g]
           \/ on[g] = <<w, s>> /\ g \notin Range(m),
         \A g \in Fibers : pc'[g] \in {"watch", "close", "shutdown"} =>
           on'[g] \in Watchers \X Sides
  PROVE  /\ Listed' /\ Observed' /\ HandleTypes'
         /\ waiters' \in [Watchers -> [Sides -> Seq(Fibers)]]
<1> USE DEF IInv, Types
<1>1. /\ waiters' \in [Watchers -> [Sides -> Seq(Fibers)]]
      /\ waiters'[w][s] = m
      /\ \A v \in Watchers, t \in Sides :
           v # w \/ t # s => waiters'[v][t] = waiters[v][t]
  BY ListChange, ZenonT(40)
<1>2. \A v \in Watchers, t \in Sides :
        /\ waiters[v][t] \in Seq(Fibers)
        /\ Range(waiters[v][t]) \subseteq Fibers
  <2>1. \A v \in Watchers, t \in Sides : waiters[v][t] \in Seq(Fibers)
    BY DEF ListTypes
  <2> QED
    BY <2>1, InList
<1>3. waiters[w][s] = <<>> => m = <<>>
  <2>1. waiters[w][s] = <<>> => Range(m) = {}
    BY <1>2, InList
  <2> QED
    BY <2>1, InList
<1>4. \A v \in Watchers, t \in Sides : waiters[v][t] = <<>> => waiters'[v][t] = <<>>
  BY <1>1, <1>3
<1>5. ASSUME NEW v \in Watchers, NEW t \in Sides
      PROVE  /\ IsInjective(waiters'[v][t])
             /\ \A g \in Range(waiters'[v][t]) : pc'[g] = "watch" /\ on'[g] = <<v, t>>
             /\ t \notin SidesOf(v) => waiters'[v][t] = <<>>
  <2>1. t \notin SidesOf(v) => waiters'[v][t] = <<>>
    BY <1>4 DEF Listed
  <2>2. CASE v = w /\ t = s
    BY <1>1, <1>2, <2>1, <2>2 DEF Listed
  <2>3. CASE v # w \/ t # s
    <3>1. waiters'[v][t] = waiters[v][t] /\ <<v, t>> # <<w, s>>
      BY <1>1, <2>3
    <3> QED
      BY <1>2, <2>1, <3>1 DEF Listed
  <2> QED
    BY <2>2, <2>3
<1>6. Listed'
  BY <1>5 DEF Listed
<1>7. Observed'
  <2>1. ASSUME NEW v \in Watchers
        PROVE  {t \in Sides : waiters'[v][t] # <<>>} \subseteq
                 {t \in Sides : waiters[v][t] # <<>>}
    BY <1>4
  <2>2. "read" \in Sides
    BY DEF Sides
  <2>3. \A v \in Watchers : waiters'[v]["read"] # <<>> => waiters[v]["read"] # <<>>
    BY <1>4, <2>2
  <2> QED
    BY <2>1, <2>3 DEF Observed
<1> QED
  BY <1>1, <1>6, <1>7 DEF HandleTypes

\* The order of the remembered operation and those due, after operations have
\* been unlinked from a list: those due may have become fewer, as long as they
\* are not linked any more, and the remembered one is the same.
LEMMA MarkAfter ==
  ASSUME IInv, pc[Runner] = "trigger", NEW s \in Open, NEW m \in Seq(Fibers),
         Left(waiters[trigger.w][s], m), NEW D,
         \A g \in Range(m) : g \in D <=> g \in due
  PROVE  \A i, j \in 1..Len(m) : m[j] = trigger.mark[s] =>
           /\ m[i] \in D => i <= j
           /\ ~trigger.stray /\ i <= j => m[i] \in D
<1> DEFINE l == waiters[trigger.w][s]
<1>1. \A i, j \in 1..Len(l) : l[j] = trigger.mark[s] =>
        /\ l[i] \in due => i <= j
        /\ ~trigger.stray /\ i <= j => l[i] \in due
  BY DEF IInv, Callback
<1> HIDE DEF l
<1>2. SUFFICES ASSUME NEW a \in 1..Len(m), NEW b \in 1..Len(m), m[b] = trigger.mark[s]
               PROVE  /\ m[a] \in D => a <= b
                      /\ ~trigger.stray /\ a <= b => m[a] \in D
  OBVIOUS
<1>3. PICK i \in 1..Len(l), j \in 1..Len(l) :
        l[i] = m[a] /\ l[j] = m[b] /\ (i <= j <=> a <= b)
  BY DEF Left, l
<1>4. m[a] \in D <=> m[a] \in due
  BY InList
<1> QED
  BY <1>1, <1>2, <1>3, <1>4

\* What holds inside a callback whose loop over a side is not over.
LEMMA SideFacts ==
  ASSUME IInv, InTrigger, trigger.todo # {}
  PROVE  /\ Side \in trigger.todo /\ Side \in Sides
         /\ trigger.w \in Watchers /\ cur = Runner /\ pc[Runner] = "trigger"
         /\ Runner \notin Fibers /\ cur \notin due
         /\ Queue \in Seq(Fibers) /\ IsInjective(Queue)
         /\ Queue = waiters[trigger.w][Side]
<1>1. trigger.todo \subseteq Sides
  BY DEF IInv, Types, ListTypes, Triggers
<1>2. Side \in trigger.todo /\ Side \in Sides
  BY <1>1 DEF Side, Sides
<1>3. trigger.w \in Watchers /\ cur = Runner /\ pc[Runner] = "trigger"
  BY DEF IInv, Callback, InTrigger
<1>4. Runner \notin Fibers /\ cur \notin due
  BY <1>3, SchedulerAssumption DEF IInv, Types, ListTypes
<1>5. Queue \in Seq(Fibers) /\ IsInjective(Queue)
  BY <1>2, <1>3 DEF IInv, Types, ListTypes, Listed, Queue
<1> QED
  BY <1>2, <1>3, <1>4, <1>5 DEF Queue

\* Completing the first operation of a side.
LEMMA TurnStep ==
  ASSUME IInv, TriggerTurn
  PROVE  IInv'
<1> USE DEF IInv, Types
<1> DEFINE w == trigger.w
           s == Side
           e == Head(Queue)
           m == Tail(Queue)
<1>1. /\ InTrigger /\ trigger.todo # {} /\ trigger.cont /\ Queue # <<>>
      /\ waiters' = [waiters EXCEPT ![w][s] = m]
      /\ trigger' = [trigger EXCEPT !.cont = e # trigger.mark[s]]
      /\ due' = due \ {e}
      /\ reschedule_task(e, "RESOLVED")
      /\ UNCHANGED <<pc, defer, busy, callbacks, triggered, disposed, calls, active,
                     mask, closed, refs, held, on, sleepers, alarms>>
  BY DEF TriggerTurn, Queue
<1>2. /\ s \in trigger.todo /\ s \in Sides
      /\ w \in Watchers /\ cur = Runner /\ pc[Runner] = "trigger"
      /\ Runner \notin Fibers /\ cur \notin due
      /\ Queue \in Seq(Fibers) /\ IsInjective(Queue)
      /\ Queue = waiters[w][s]
  BY <1>1, SideFacts
<1>3. /\ m \in Seq(Fibers) /\ e \in Fibers /\ e \in Range(Queue)
      /\ Range(Queue) = Range(m) \cup {e}
      /\ IsInjective(m) /\ e \notin Range(m)
  BY <1>1, <1>2, TailList
<1>4. Left(Queue, m)
  BY <1>1, <1>2, TailLeft
<1>5. /\ Len(Queue) \in Nat /\ Len(Queue) > 0 /\ e = Queue[1]
  BY <1>1, <1>2, InList, EmptySeq
<1>6. pc[e] = "watch" /\ on[e] = <<w, s>>
  BY <1>2, <1>3 DEF Listed
<1> HIDE DEF w, s, e, m
<1>7. Listed' /\ Observed' /\ HandleTypes'
      /\ waiters' \in [Watchers -> [Sides -> Seq(Fibers)]]
  BY <1>1, <1>2, <1>3, Shrunk DEF Listed
<1>8. /\ trigger' \in Triggers /\ trigger'.w = w /\ trigger'.todo = trigger.todo
      /\ trigger'.mark = trigger.mark /\ trigger'.stray = trigger.stray
      /\ trigger'.cont = (e # trigger.mark[s])
  BY <1>1 DEF ListTypes, Triggers, w
<1>9. Types'
  <2>1. FiberLists'
    BY <1>1, <1>3, RescheduleType DEF SchedTypes, OpStatus
  <2>2. SchedTypes'
    BY <1>1, <2>1 DEF SchedTypes, Bookkeeping
  <2>3. ListTypes'
    BY <1>1, <1>7, <1>8 DEF ListTypes
  <2> QED
    BY <1>1, <1>7, <2>2, <2>3 DEF CountTypes, SleepTypes
<1>10. /\ waiters'[w][s] = m
       /\ \A t \in Sides : t # s => waiters'[w][t] = waiters[w][t]
  <2>1. ListTypes
    OBVIOUS
  <2>2. waiters' = [waiters EXCEPT ![w][s] = m]
    BY <1>1
  <2> HIDE DEF IInv, Types
  <2> QED
    BY <1>2, <1>3, <2>1, <2>2, ListChange, ZenonT(30)
<1>11. Side' = s
  BY <1>8 DEF Side, s
<1>12. Open' = IF e = trigger.mark[s] THEN Open \ {s} ELSE Open
  BY <1>1, <1>2, <1>8, <1>11 DEF Open, s
<1>13. Open \subseteq Sides /\ s \in Open
  BY <1>1, <1>2 DEF ListTypes, Triggers, Open, s
\* Nobody else on this side is due when the remembered one has been completed.
<1>14. ASSUME e = trigger.mark[s], NEW f \in due, on[f][2] = s
       PROVE  f = e
  <2>1. f \in Range(Queue)
    BY <1>2, <1>14 DEF Callback, w
  <2>2. PICK i \in 1..Len(Queue) : Queue[i] = f
    BY <1>2, <2>1, InList
  <2>3. \A k, j \in 1..Len(Queue) :
          Queue[j] = trigger.mark[s] => (Queue[k] \in due => k <= j)
    BY <1>2, <1>13 DEF Callback, w
  <2>4. 1 \in 1..Len(Queue) /\ Queue[1] = trigger.mark[s] /\ Queue[i] \in due
    BY <1>5, <1>14, <2>2
  <2>5. i <= 1
    BY <2>2, <2>3, <2>4
  <2> QED
    BY <1>5, <2>2, <2>5
<1>15. ASSUME NEW f \in due'
       PROVE  /\ pc'[f] = "watch" /\ on'[f][1] = trigger'.w /\ on'[f][2] \in Open'
              /\ f = cur' \/ f \in Range(waiters'[trigger'.w][on'[f][2]])
  <2>1. f \in due /\ f # e /\ f # cur
    BY <1>1, <1>2, <1>15
  <2>2. /\ pc[f] = "watch" /\ on[f][1] = w /\ on[f][2] \in Open
        /\ f \in Range(waiters[w][on[f][2]])
    BY <2>1 DEF Callback, w
  <2>3. on[f][2] \in Open'
    BY <1>12, <1>14, <2>1, <2>2
  <2>4. f \in Range(waiters'[w][on[f][2]])
    BY <1>2, <1>3, <1>10, <1>13, <2>1, <2>2
  <2> QED
    BY <1>1, <1>8, <2>2, <2>3, <2>4
<1>16. ASSUME NEW t \in Open'
       PROVE  \A i, j \in 1..Len(waiters'[w][t]) :
                waiters'[w][t][j] = trigger.mark[t] =>
                  /\ waiters'[w][t][i] \in due' => i <= j
                  /\ ~trigger.stray /\ i <= j => waiters'[w][t][i] \in due'
  <2>1. t \in Open /\ t \in Sides
    BY <1>12, <1>13
  <2>2. waiters'[w][t] \in Seq(Fibers)
    BY <1>2, <1>7, <2>1
  <2>3. Left(waiters[w][t], waiters'[w][t])
    <3>1. CASE t = s
      BY <1>2, <1>4, <1>10, <3>1
    <3>2. CASE t # s
      BY <1>10, <2>1, <3>2 DEF Left
    <3> QED
      BY <3>1, <3>2
  <2>4. e \notin Range(waiters'[w][t])
    BY <1>2, <1>3, <1>6, <1>10, <2>1 DEF Listed
  <2>5. \A g \in Range(waiters'[w][t]) : g \in due' <=> g \in due
    BY <1>1, <2>4
  <2> HIDE DEF IInv, Types
  <2> QED
    BY <1>2, <2>1, <2>2, <2>3, <2>5, MarkAfter DEF w
<1>17. ASSUME NEW t \in Open', ~trigger.stray
       PROVE  trigger.mark[t] \in due' \cup {None}
  <2>1. t \in Open /\ t \in Sides /\ (t = s => e # trigger.mark[s])
    BY <1>12, <1>13
  <2>2. trigger.mark[t] \in due \cup {None}
    BY <1>17, <2>1 DEF Callback
  <2>3. trigger.mark[t] # e
    <3>1. CASE t = s
      BY <2>1, <3>1
    <3>2. CASE t # s
      BY <1>3, <1>6, <2>1, <3>2 DEF Callback
    <3> QED
      BY <3>1, <3>2
  <2> QED
    BY <1>1, <2>2, <2>3
<1>18. Callback'
  <2>1. pc'[Runner] \in {"run", "cancel", "trigger"} /\ pc'[Runner] = "trigger"
    BY <1>1, <1>2
  <2>2. trigger'.w \in Watchers
    BY <1>2, <1>8
  <2>3. \A t \in Sides : trigger'.mark[t] \in Fibers =>
          pc'[trigger'.mark[t]] = "watch" /\ on'[trigger'.mark[t]] = <<trigger'.w, t>>
    BY <1>1, <1>8 DEF Callback, w
  <2>4. \A t \in Open' :
          \A i, j \in 1..Len(waiters'[trigger'.w][t]) :
            waiters'[trigger'.w][t][j] = trigger'.mark[t] =>
              /\ waiters'[trigger'.w][t][i] \in due' => i <= j
              /\ ~trigger'.stray /\ i <= j => waiters'[trigger'.w][t][i] \in due'
    BY <1>8, <1>16
  <2>5. \A t \in Open' : ~trigger'.stray => trigger'.mark[t] \in due' \cup {None}
    BY <1>8, <1>17
  <2> HIDE DEF IInv, Types
  <2> QED
    BY <1>15, <2>1, <2>2, <2>3, <2>4, <2>5, Zenon DEF Callback
<1> QED
  BY <1>7, <1>9, <1>18

\* The rest of an await unlinks the operation, and forgets it if a callback
\* remembers it.
LEMMA ReturnStep ==
  ASSUME IInv, NEW f \in Fibers, AwaitReturns(f)
  PROVE  IInv'
<1> USE DEF IInv, Types
<1> DEFINE w == on[f][1]
           s == on[f][2]
           m == ASYNC_LIST_REMOVE(waiters[w][s], f)
           forgets == trigger.w = w /\ trigger.mark[s] = f
<1>1. /\ cur = f /\ pc[f] = "watch"
      /\ op' = [op EXCEPT ![f] = "PENDING"]
      /\ callbacks' = ASYNC_LIST_REMOVE(callbacks, f)
      /\ pc' = [pc EXCEPT ![f] = "run"]
      /\ waiters' = [waiters EXCEPT ![w][s] = m]
      /\ trigger' = IF forgets
                    THEN [trigger EXCEPT !.mark[s] = Freed, !.stray = @ \/ f \in due]
                    ELSE trigger
      /\ on' = [on EXCEPT ![f] = <<None, "read">>]
      /\ due' = due \ {f}
      /\ ASYNC_UNREF_EXIT(f, w)
      /\ UNCHANGED <<cur, fibers, ready, status, defer, busy, triggered, disposed,
                     calls, active, mask, closed, sleepers, alarms>>
  BY DEF AwaitReturns, AwaitResume
<1>2. w \in Watchers /\ s \in Sides /\ on[f] = <<w, s>> /\ Runner \notin Fibers
  <2>1. on[f] \in Watchers \X Sides
    BY <1>1 DEF Listed
  <2> QED
    BY <2>1, SchedulerAssumption
<1>3. /\ waiters[w][s] \in Seq(Fibers)
      /\ m \in Seq(Fibers) /\ IsInjective(m) /\ Range(m) = Range(waiters[w][s]) \ {f}
      /\ Left(waiters[w][s], m)
  <2>1. waiters[w][s] \in Seq(Fibers) /\ IsInjective(waiters[w][s])
    BY <1>2 DEF ListTypes, Listed
  <2> QED
    BY <2>1, RemoveList, RemoveLeft
<1>4. /\ Freed \notin Fibers /\ None \notin Fibers /\ None # Freed
      /\ None \notin Watchers
  BY WatcherAssumption
<1> HIDE DEF w, s, m
<1>5. /\ \A g \in Fibers : g # f => pc'[g] = pc[g] /\ on'[g] = on[g]
      /\ pc'[Runner] = pc[Runner] /\ pc'[f] = "run"
      /\ pc' \in [Fibers \cup {Runner} -> Places]
      /\ on' \in [Fibers -> (Watchers \X Sides) \cup {<<None, "read">>}]
  BY <1>1, <1>2 DEF SchedTypes, ListTypes, Places
<1>6. Listed' /\ Observed' /\ HandleTypes'
      /\ waiters' \in [Watchers -> [Sides -> Seq(Fibers)]]
  <2>1. \A g \in Fibers : pc'[g] \in {"watch", "close", "shutdown"} =>
          on'[g] \in Watchers \X Sides
    BY <1>5 DEF Listed
  <2>2. \A g \in Fibers : pc[g] = "watch" =>
          \/ pc'[g] = "watch" /\ on'[g] = on[g]
          \/ on[g] = <<w, s>> /\ g \notin Range(m)
    BY <1>2, <1>3, <1>5
  <2> HIDE DEF IInv, Types
  <2> QED
    BY <1>1, <1>2, <1>3, <2>1, <2>2, Shrunk
<1>7. /\ trigger' \in Triggers
      /\ trigger'.w = trigger.w /\ trigger'.todo = trigger.todo
      /\ trigger'.cont = trigger.cont
      /\ \A t \in Sides :
           trigger'.mark[t] = IF forgets /\ t = s THEN Freed ELSE trigger.mark[t]
      /\ trigger'.stray = (trigger.stray \/ (forgets /\ f \in due))
  <2>1. trigger \in Triggers
    BY DEF ListTypes
  <2>2. CASE ~forgets
    BY <1>1, <2>1, <2>2 DEF Triggers
  <2>3. CASE forgets
    <3>1. trigger' = [trigger EXCEPT !.mark[s] = Freed, !.stray = @ \/ f \in due]
      BY <1>1, <2>3
    <3>2. trigger.mark \in [Sides -> Fibers \cup {None, Freed}]
      BY <2>1 DEF Triggers
    <3>3. /\ trigger'.mark = [trigger.mark EXCEPT ![s] = Freed]
          /\ trigger'.stray = (trigger.stray \/ f \in due)
          /\ trigger'.w = trigger.w /\ trigger'.todo = trigger.todo
          /\ trigger'.cont = trigger.cont
      BY <2>1, <3>1 DEF Triggers
    <3>4. trigger' \in Triggers
      BY <2>1, <3>1, <3>2 DEF Triggers
    <3> QED
      BY <1>2, <2>3, <3>2, <3>3, <3>4
  <2> QED
    BY <2>2, <2>3
<1>8. CountTypes'
  BY <1>1, <1>2, WatcherAssumption DEF ASYNC_UNREF_EXIT, CountTypes
<1>9. Types'
  <2>1. FiberLists'
    BY <1>1 DEF SchedTypes, FiberLists, OpStatus
  <2>2. callbacks' \in Seq(Fibers)
    BY <1>1, RemoveList DEF SchedTypes
  <2>3. SchedTypes'
    BY <1>1, <1>5, <2>1, <2>2 DEF SchedTypes, Bookkeeping
  <2>4. ListTypes'
    BY <1>1, <1>5, <1>6, <1>7 DEF ListTypes
  <2> QED
    BY <1>1, <1>6, <1>8, <2>3, <2>4 DEF SleepTypes
<1>10. /\ waiters'[w][s] = m
       /\ \A v \in Watchers, t \in Sides : v # w \/ t # s => waiters'[v][t] = waiters[v][t]
  <2>1. ListTypes
    OBVIOUS
  <2>2. waiters' = [waiters EXCEPT ![w][s] = m]
    BY <1>1
  <2> HIDE DEF IInv, Types
  <2> QED
    BY <1>2, <1>3, <2>1, <2>2, ListChange, ZenonT(30)
<1>11. Open' = Open /\ Open \subseteq Sides
  BY <1>7 DEF Open, Side, ListTypes, Triggers
\* Only the side of f may have remembered it.
<1>12. \A t \in Sides : trigger.mark[t] = f => forgets /\ t = s
  BY <1>2 DEF Callback
<1>13. ASSUME pc[Runner] # "trigger"
       PROVE  Callback'
  <2>1. due = {} /\ trigger = NoTrigger
    BY <1>13 DEF Callback
  <2>2. ~forgets
    BY <1>2, <1>4, <2>1 DEF NoTrigger
  <2>3. due' = {} /\ trigger' = NoTrigger
    BY <1>1, <2>1, <2>2
  <2>4. Open' = {} /\ \A t \in Sides : trigger'.mark[t] \notin Fibers
    BY <1>4, <2>3 DEF NoTrigger, Open
  <2> QED
    BY <1>5, <1>13, <2>3, <2>4 DEF Callback
<1>14. ASSUME pc[Runner] = "trigger"
       PROVE  Callback'
  <2>0. trigger.w \in Watchers
    BY <1>14 DEF Callback
  <2>1. pc'[Runner] \in {"run", "cancel", "trigger"} /\ pc'[Runner] = "trigger"
        /\ trigger'.w \in Watchers
    BY <1>5, <1>7, <1>14, <2>0
  <2>2. ASSUME NEW t \in Sides, trigger'.mark[t] \in Fibers
        PROVE  pc'[trigger'.mark[t]] = "watch" /\ on'[trigger'.mark[t]] = <<trigger'.w, t>>
    <3>1. trigger'.mark[t] = trigger.mark[t] /\ trigger.mark[t] # f
      BY <1>4, <1>7, <1>12, <2>2
    <3> QED
      BY <1>5, <1>7, <2>2, <3>1 DEF Callback
  <2>3. ASSUME NEW g \in due'
        PROVE  /\ pc'[g] = "watch" /\ on'[g][1] = trigger'.w /\ on'[g][2] \in Open'
               /\ g = cur' \/ g \in Range(waiters'[trigger'.w][on'[g][2]])
    <3>1. g \in due /\ g # f /\ g # cur /\ g \in Fibers
      BY <1>1, <2>3 DEF ListTypes
    <3>2. /\ pc[g] = "watch" /\ on[g][1] = trigger.w /\ on[g][2] \in Open
          /\ g \in Range(waiters[trigger.w][on[g][2]])
      BY <3>1 DEF Callback
    <3>3. g \in Range(waiters'[trigger.w][on[g][2]])
      <4>1. CASE trigger.w = w /\ on[g][2] = s
        BY <1>3, <1>10, <3>1, <3>2, <4>1
      <4>2. CASE ~(trigger.w = w /\ on[g][2] = s)
        BY <1>10, <1>11, <2>0, <3>2, <4>2
      <4> QED
        BY <4>1, <4>2
    <3> QED
      BY <1>5, <1>7, <1>11, <3>1, <3>2, <3>3
  <2>4. ASSUME NEW t \in Open', NEW i \in 1..Len(waiters'[trigger'.w][t]),
               NEW j \in 1..Len(waiters'[trigger'.w][t]),
               waiters'[trigger'.w][t][j] = trigger'.mark[t]
        PROVE  /\ waiters'[trigger'.w][t][i] \in due' => i <= j
               /\ ~trigger'.stray /\ i <= j => waiters'[trigger'.w][t][i] \in due'
    <3> DEFINE n == waiters'[trigger.w][t]
    <3>1. t \in Open /\ t \in Sides /\ trigger'.w = trigger.w
      BY <1>7, <1>11
    <3>2. n \in Seq(Fibers)
      BY <1>6, <2>0, <3>1
    <3>3. Left(waiters[trigger.w][t], n) /\ f \notin Range(n)
      <4>1. CASE trigger.w = w /\ t = s
        BY <1>3, <1>10, <4>1
      <4>2. CASE ~(trigger.w = w /\ t = s)
        <5>1. n = waiters[trigger.w][t]
          BY <1>10, <2>0, <3>1, <4>2
        <5>2. f \notin Range(waiters[trigger.w][t])
          BY <1>2, <2>0, <3>1, <4>2 DEF Listed
        <5> QED
          BY <5>1, <5>2 DEF Left
      <4> QED
        BY <4>1, <4>2
    <3> HIDE DEF n
    <3>4. \A g \in Range(n) : g \in due' <=> g \in due
      BY <1>1, <3>3
    <3>5. n[j] \in Fibers /\ n[j] = trigger.mark[t]
      <4>1. n[j] \in Fibers /\ n[j] = trigger'.mark[t]
        BY <2>4, <3>1, <3>2, InList DEF n
      <4> QED
        BY <1>4, <1>7, <3>1, <4>1
    <3>6. \A a, b \in 1..Len(n) : n[b] = trigger.mark[t] =>
            /\ n[a] \in due' => a <= b
            /\ ~trigger.stray /\ a <= b => n[a] \in due'
      <4> HIDE DEF IInv, Types
      <4> QED
        BY <1>14, <3>1, <3>2, <3>3, <3>4, MarkAfter
    <3>7. /\ n[i] \in due' => i <= j
          /\ ~trigger.stray /\ i <= j => n[i] \in due'
      BY <3>1, <3>5, <3>6 DEF n
    <3> QED
      BY <1>7, <3>1, <3>7 DEF n
  <2>5. ASSUME NEW t \in Open', ~trigger'.stray
        PROVE  trigger'.mark[t] \in due' \cup {None}
    <3>1. t \in Open /\ t \in Sides /\ ~trigger.stray
      BY <1>7, <1>11, <2>5
    <3>2. trigger.mark[t] \in due \cup {None}
      BY <3>1 DEF Callback
    <3>3. trigger.mark[t] # f
      BY <1>4, <1>7, <1>12, <2>5, <3>1, <3>2
    <3>4. trigger'.mark[t] = trigger.mark[t]
      BY <1>7, <3>1, <3>3
    <3> QED
      BY <1>1, <3>2, <3>3, <3>4
  <2>6. \A t \in Open' :
          \A i, j \in 1..Len(waiters'[trigger'.w][t]) :
            waiters'[trigger'.w][t][j] = trigger'.mark[t] =>
              /\ waiters'[trigger'.w][t][i] \in due' => i <= j
              /\ ~trigger'.stray /\ i <= j => waiters'[trigger'.w][t][i] \in due'
    BY <2>4
  <2> HIDE DEF IInv, Types
  <2> QED
    BY <2>1, <2>2, <2>3, <2>5, <2>6, Zenon DEF Callback
<1> QED
  BY <1>6, <1>9, <1>13, <1>14

\* Closing fails the first operation of a list, which may be due: its fiber is
\* the one that runs next.
LEMMA ShutdownStep ==
  ASSUME IInv, shutdown
  PROVE  IInv'
<1> USE DEF IInv, Types
<1> DEFINE w == on[cur][1]
           s == IF waiters[w]["read"] # <<>> THEN "read" ELSE "write"
           e == Head(waiters[w][s])
           m == Tail(waiters[w][s])
<1>1. /\ cur \in Fibers /\ pc[cur] \in {"close", "shutdown"} /\ pc[cur] # "watch"
      /\ w \in Watchers /\ s \in Sides /\ Runner \notin Fibers
  <2>1. cur \in Fibers \cup {Runner} /\ pc[cur] \in {"close", "shutdown"}
    BY DEF shutdown, SchedTypes, FiberLists
  <2>2. cur \in Fibers
    BY <2>1 DEF Callback
  <2>3. on[cur] \in Watchers \X Sides
    BY <2>1, <2>2 DEF Listed
  <2> QED
    BY <2>1, <2>2, <2>3, SchedulerAssumption DEF Sides
<1>2. UNCHANGED <<defer, busy, callbacks, triggered, disposed, calls, active,
                  mask, closed, refs, held, trigger, sleepers, alarms, due>>
  BY DEF shutdown
<1>3. cur \notin due
  <2> HIDE DEF IInv, Types
  <2> QED
    BY <1>1, NotInside
<1>4. CASE waiters[w][s] = <<>>
  <2>1. /\ pc' = [pc EXCEPT ![cur] = IF @ = "close" THEN "run" ELSE "dispose"]
        /\ on' = [on EXCEPT ![cur] = <<None, "read">>]
        /\ UNCHANGED <<cur, fibers, ready, status, op, waiters>>
    BY <1>4 DEF shutdown
  <2>2. PICK x \in {"run", "dispose"} : pc' = [pc EXCEPT ![cur] = x]
    BY <2>1
  <2>3. Still /\ pc' \in [Fibers \cup {Runner} -> Places]
    BY <1>1, <2>1, <2>2 DEF SchedTypes, ListTypes, Listed, Callback, Still, Places
  <2>4. on' \in [Fibers -> (Watchers \X Sides) \cup {<<None, "read">>}]
    BY <2>1 DEF ListTypes
  <2>5. SchedTypes'
    BY <1>2, <2>1, <2>3 DEF SchedTypes, FiberLists, Bookkeeping
  <2>6. SleepTypes'
    BY <1>2 DEF SleepTypes
  <2> HIDE DEF IInv, Types
  <2> QED
    BY <1>1, <1>2, <2>1, <2>3, <2>4, <2>5, <2>6, Elsewhere
<1>5. CASE waiters[w][s] # <<>>
  <2>1. /\ waiters' = [waiters EXCEPT ![w][s] = m]
        /\ reschedule_task(e, "FAILED")
        /\ UNCHANGED <<pc, on>>
    BY <1>5 DEF shutdown
  <2>2. waiters[w][s] \in Seq(Fibers) /\ IsInjective(waiters[w][s])
    BY <1>1 DEF ListTypes, Listed
  <2>3. /\ m \in Seq(Fibers) /\ e \in Fibers /\ e \in Range(waiters[w][s])
        /\ Range(waiters[w][s]) = Range(m) \cup {e}
        /\ IsInjective(m) /\ e \notin Range(m) /\ Left(waiters[w][s], m)
    <3>1. PICK l : l = waiters[w][s] /\ l # <<>> /\ m = Tail(l) /\ e = Head(l)
      BY <1>5
    <3>2. l \in Seq(Fibers) /\ IsInjective(l) /\ l # <<>>
      BY <2>2, <3>1
    <3>3. /\ Tail(l) \in Seq(Fibers) /\ Head(l) \in Fibers /\ Head(l) \in Range(l)
          /\ Range(l) = Range(Tail(l)) \cup {Head(l)}
          /\ IsInjective(Tail(l)) /\ Head(l) \notin Range(Tail(l))
      BY ONLY <3>2, TailList
    <3>4. Left(l, Tail(l))
      BY ONLY <3>2, TailLeft
    <3> QED
      BY <3>1, <3>3, <3>4
  <2>4. cur' = e
    BY <2>1, <2>3 DEF reschedule_task, async_fiber_switch, Listed
  <2>5. pc[e] = "watch" /\ on[e] = <<w, s>>
    BY <1>1, <2>3 DEF Listed
  <2> HIDE DEF w, s, e, m
  <2>6. Listed' /\ Observed' /\ HandleTypes'
        /\ waiters' \in [Watchers -> [Sides -> Seq(Fibers)]]
    BY <1>1, <1>2, <2>1, <2>3, Shrunk DEF Listed
  <2>7. /\ waiters'[w][s] = m
        /\ \A v \in Watchers, t \in Sides :
             v # w \/ t # s => waiters'[v][t] = waiters[v][t]
    <3>1. ListTypes
      OBVIOUS
    <3>2. w \in Watchers /\ s \in Sides /\ m \in Seq(Fibers)
      BY <1>1, <2>3
    <3>3. waiters' = [waiters EXCEPT ![w][s] = m]
      BY <2>1
    <3> HIDE DEF IInv, Types
    <3> QED
      BY <3>1, <3>2, <3>3, ListChange, ZenonT(30)
  <2>8. Types'
    <3>1. FiberLists'
      BY <2>1, <2>3, RescheduleType DEF SchedTypes, OpStatus
    <3>2. SchedTypes'
      BY <1>2, <2>1, <3>1 DEF SchedTypes, Bookkeeping
    <3>3. ListTypes'
      BY <1>2, <2>1, <2>6 DEF ListTypes
    <3> QED
      BY <1>2, <2>6, <3>2, <3>3 DEF CountTypes, SleepTypes
  <2>9. Open' = Open /\ Open \subseteq Sides
    BY <1>2 DEF Open, Side, ListTypes, Triggers
  <2>10. ASSUME pc[Runner] # "trigger"
         PROVE  Callback'
    <3>1. due = {} /\ trigger = NoTrigger
      BY <2>10 DEF Callback
    <3>2. Open = {}
      BY <3>1 DEF NoTrigger, Open
    <3> QED
      BY <1>2, <2>1, <2>9, <2>10, <3>1, <3>2 DEF Callback
  <2>11. ASSUME pc[Runner] = "trigger"
         PROVE  Callback'
    <3>0. trigger.w \in Watchers
      BY <2>11 DEF Callback
    <3>1. ASSUME NEW g \in due
          PROVE  /\ pc[g] = "watch" /\ on[g][1] = trigger.w /\ on[g][2] \in Open
                 /\ g = cur' \/ g \in Range(waiters'[trigger.w][on[g][2]])
      <4>1. /\ pc[g] = "watch" /\ on[g][1] = trigger.w /\ on[g][2] \in Open
            /\ g \in Range(waiters[trigger.w][on[g][2]])
        BY <1>3 DEF Callback
      <4>2. CASE trigger.w = w /\ on[g][2] = s
        BY <2>3, <2>4, <2>7, <4>1, <4>2
      <4>3. CASE ~(trigger.w = w /\ on[g][2] = s)
        BY <2>7, <2>9, <3>0, <4>1, <4>3
      <4> QED
        BY <4>1, <4>2, <4>3
    <3>2. ASSUME NEW t \in Open
          PROVE  \A i, j \in 1..Len(waiters'[trigger.w][t]) :
                   waiters'[trigger.w][t][j] = trigger.mark[t] =>
                     /\ waiters'[trigger.w][t][i] \in due => i <= j
                     /\ ~trigger.stray /\ i <= j => waiters'[trigger.w][t][i] \in due
      <4>1. t \in Sides /\ waiters'[trigger.w][t] \in Seq(Fibers)
        BY <2>6, <2>9, <3>0
      <4>2. Left(waiters[trigger.w][t], waiters'[trigger.w][t])
        <5>1. CASE trigger.w = w /\ t = s
          BY <2>3, <2>7, <5>1
        <5>2. CASE ~(trigger.w = w /\ t = s)
          BY <2>7, <3>0, <4>1, <5>2 DEF Left
        <5> QED
          BY <5>1, <5>2
      <4> HIDE DEF IInv, Types
      <4> QED
        BY <2>11, <4>1, <4>2, MarkAfter
    <3>3. /\ pc'[Runner] \in {"run", "cancel", "trigger"} /\ pc'[Runner] = "trigger"
          /\ trigger'.w \in Watchers
      BY <1>2, <2>1, <2>11, <3>0
    <3>4. \A t \in Sides : trigger'.mark[t] \in Fibers =>
            pc'[trigger'.mark[t]] = "watch" /\ on'[trigger'.mark[t]] = <<trigger'.w, t>>
      BY <1>2, <2>1 DEF Callback
    <3>5. \A t \in Open' : ~trigger'.stray => trigger'.mark[t] \in due' \cup {None}
      BY <1>2, <2>9 DEF Callback
    <3>6. \A g \in due' :
            /\ pc'[g] = "watch" /\ on'[g][1] = trigger'.w /\ on'[g][2] \in Open'
            /\ g = cur' \/ g \in Range(waiters'[trigger'.w][on'[g][2]])
      BY <1>2, <2>1, <2>9, <3>1
    <3>7. \A t \in Open' :
            \A i, j \in 1..Len(waiters'[trigger'.w][t]) :
              waiters'[trigger'.w][t][j] = trigger'.mark[t] =>
                /\ waiters'[trigger'.w][t][i] \in due' => i <= j
                /\ ~trigger'.stray /\ i <= j => waiters'[trigger'.w][t][i] \in due'
      BY <1>2, <2>9, <3>2
    <3> HIDE DEF IInv, Types
    <3> QED
      BY <3>3, <3>4, <3>5, <3>6, <3>7, Zenon DEF Callback
  <2> QED
    BY <2>6, <2>8, <2>10, <2>11
<1> QED
  BY <1>4, <1>5

-----------------------------------------------------------------------------
(***************************************************************************)
(* The callback of a handle.                                               *)
(***************************************************************************)

\* The loop over a side ends when its remembered operation has been completed
\* or nobody is listed: nobody on that side is due.
LEMMA SideStep ==
  ASSUME IInv, TriggerSide
  PROVE  IInv'
<1> USE DEF IInv, Types
<1>1. /\ InTrigger /\ trigger.todo # {} /\ (~trigger.cont \/ Queue = <<>>)
      /\ trigger' = [trigger EXCEPT !.todo = @ \ {Side}, !.cont = TRUE]
      /\ UNCHANGED <<schedVars, waiters, active, mask, closed, refs, held, on,
                     sleepers, alarms, due>>
  BY DEF TriggerSide
<1>2. /\ Side \in trigger.todo /\ Side \in Sides
      /\ trigger.w \in Watchers /\ cur = Runner /\ pc[Runner] = "trigger"
      /\ Runner \notin Fibers /\ cur \notin due
      /\ Queue \in Seq(Fibers) /\ Queue = waiters[trigger.w][Side]
  BY <1>1, SideFacts
<1>3. UNCHANGED <<cur, fibers, ready, status, pc, op, defer, busy, callbacks,
                  triggered, disposed, calls>>
  BY <1>1 DEF schedVars
<1>4. /\ trigger' \in Triggers /\ trigger'.w = trigger.w
      /\ trigger'.todo = trigger.todo \ {Side} /\ trigger'.cont
      /\ trigger'.mark = trigger.mark /\ trigger'.stray = trigger.stray
  BY <1>1 DEF ListTypes, Triggers
<1>5. Open' = trigger.todo \ {Side} /\ Open' \subseteq Open
  BY <1>4 DEF Open
<1>6. ASSUME NEW g \in due PROVE on[g][2] # Side
  <2>1. on[g][2] \in Open /\ g \in Range(waiters[trigger.w][on[g][2]])
    BY <1>2 DEF Callback
  <2>2. CASE ~trigger.cont
    BY <2>1, <2>2 DEF Open
  <2>3. CASE Queue = <<>>
    <3>1. Range(Queue) = {}
      BY <2>3, EmptyList
    <3> QED
      BY <1>2, <2>1, <3>1
  <2> QED
    BY <1>1, <2>2, <2>3
<1>7. Types'
  BY <1>1, <1>3, <1>4 DEF SchedTypes, FiberLists, Bookkeeping, ListTypes, HandleTypes,
                          CountTypes, SleepTypes
<1>8. Listed' /\ Observed'
  BY <1>1, <1>3 DEF Listed, Observed
<1>9. Callback'
  <2>1. /\ pc'[Runner] \in {"run", "cancel", "trigger"} /\ pc'[Runner] = "trigger"
        /\ trigger'.w \in Watchers
    BY <1>2, <1>3, <1>4
  <2>2. \A t \in Sides : trigger'.mark[t] \in Fibers =>
          pc'[trigger'.mark[t]] = "watch" /\ on'[trigger'.mark[t]] = <<trigger'.w, t>>
    BY <1>1, <1>3, <1>4 DEF Callback
  <2>3. \A t \in Open' : ~trigger'.stray => trigger'.mark[t] \in due' \cup {None}
    BY <1>1, <1>4, <1>5 DEF Callback
  <2>4. \A g \in due' :
          /\ pc'[g] = "watch" /\ on'[g][1] = trigger'.w /\ on'[g][2] \in Open'
          /\ g = cur' \/ g \in Range(waiters'[trigger'.w][on'[g][2]])
    <3>1. \A g \in due : on[g][2] \in Open'
      BY <1>5, <1>6 DEF Callback, Open
    <3> QED
      BY <1>1, <1>3, <1>4, <3>1 DEF Callback
  <2>5. \A t \in Open' :
          \A i, j \in 1..Len(waiters'[trigger'.w][t]) :
            waiters'[trigger'.w][t][j] = trigger'.mark[t] =>
              /\ waiters'[trigger'.w][t][i] \in due' => i <= j
              /\ ~trigger'.stray /\ i <= j => waiters'[trigger'.w][t][i] \in due'
    BY <1>1, <1>2, <1>4, <1>5 DEF Callback
  <2> HIDE DEF IInv, Types
  <2> QED
    BY <2>1, <2>2, <2>3, <2>4, <2>5, Zenon DEF Callback
<1> QED
  BY <1>7, <1>8, <1>9

\* The callback returns when nobody is due.
LEMMA NobodyDue ==
  ASSUME IInv, InTrigger, trigger.todo = {}
  PROVE  due = {}
  BY DEF IInv, Callback, Open

\* Its handle stays active if somebody is listed.
LEMMA EndStep ==
  ASSUME IInv, TriggerEnds
  PROVE  IInv'
<1> USE DEF IInv, Types
<1> DEFINE w == trigger.w
<1>1. /\ InTrigger /\ trigger.todo = {} /\ trigger' = NoTrigger /\ due' = {}
      /\ pc' = [pc EXCEPT ![Runner] = "run"]
      /\ UNCHANGED <<cur, fibers, ready, status, op, defer, busy, callbacks,
                     triggered, disposed, calls, waiters, closed, refs, held, on,
                     sleepers, alarms>>
  BY DEF TriggerEnds
<1>2. w \in Watchers /\ Runner \notin Fibers
  BY <1>1, SchedulerAssumption DEF Callback, InTrigger
<1>3. NoTrigger \in Triggers /\ NoTrigger.todo = {}
      /\ \A t \in Sides : NoTrigger.mark[t] \notin Fibers
  BY WatcherAssumption DEF NoTrigger, Triggers
<1>4. HandleTypes' /\ Observed'
  <2>1. CASE Kind[w] = "poll" /\ ~closed[w] /\ sync_poll(w, waiters[w])
    <3>1. CASE UNCHANGED <<active, mask>>
      BY <1>1, <3>1 DEF Observed, HandleTypes
    <3>2. CASE ~UNCHANGED <<active, mask>>
      <4> DEFINE wanted == {s \in Sides : waiters[w][s] # <<>>}
      <4>1. active' = [active EXCEPT ![w] = wanted] /\ mask' = [mask EXCEPT ![w] = wanted]
        BY <2>1, <3>2 DEF sync_poll
      <4>2. wanted \in SUBSET Sides
        OBVIOUS
      <4>3. HandleTypes'
        BY <1>1, <4>1, <4>2 DEF HandleTypes
      <4>4. active'[w] = wanted /\ mask'[w] = wanted
            /\ \A v \in Watchers : v # w => active'[v] = active[v] /\ mask'[v] = mask[v]
        BY <1>2, <4>1 DEF HandleTypes
      <4>5. wanted = {s \in Sides : waiters'[w][s] # <<>>}
        BY <1>1
      <4> HIDE DEF wanted
      <4>6. ASSUME NEW v \in Watchers
            PROVE  IF Kind[v] = "poll"
                   THEN /\ {s \in Sides : waiters'[v][s] # <<>>} \subseteq mask'[v]
                        /\ active'[v] \in {mask'[v], {}}
                   ELSE waiters'[v]["read"] # <<>> /\ ~closed'[v] /\ v \notin OneShot =>
                          "read" \in active'[v]
        <5>1. CASE v = w
          BY <2>1, <4>4, <4>5, <5>1
        <5>2. CASE v # w
          BY <1>1, <4>4, <5>2 DEF Observed
        <5> QED
          BY <5>1, <5>2
      <4> QED
        BY <4>3, <4>6 DEF Observed
    <3> QED
      BY <3>1, <3>2
  <2>2. CASE UNCHANGED <<active, mask>>
    BY <1>1, <2>2 DEF Observed, HandleTypes
  <2>3. CASE /\ Kind[w] # "poll" /\ UNCHANGED mask
             /\ active' = [active EXCEPT ![w] = IF waiters[w]["read"] = <<>> THEN {} ELSE @]
    <3>1. /\ active'[w] = IF waiters[w]["read"] = <<>> THEN {} ELSE active[w]
          /\ \A v \in Watchers : v # w => active'[v] = active[v]
          /\ active' \in [Watchers -> SUBSET Sides]
      BY <1>2, <2>3 DEF HandleTypes
    <3> QED
      BY <1>1, <2>3, <3>1 DEF Observed, HandleTypes
  <2> QED
    BY <2>1, <2>2, <2>3 DEF TriggerEnds
<1>5. Types'
  <2>1. SchedTypes'
    BY <1>1 DEF SchedTypes, FiberLists, Bookkeeping, Places
  <2> QED
    BY <1>1, <1>3, <1>4, <2>1 DEF ListTypes, CountTypes, SleepTypes
<1>6. \A f \in Fibers : pc'[f] = pc[f]
  BY <1>1, <1>2 DEF SchedTypes
<1>7. Listed'
  <2>1. \A v \in Watchers, t \in Sides : Range(waiters[v][t]) \subseteq Fibers
    <3>1. \A v \in Watchers, t \in Sides : waiters[v][t] \in Seq(Fibers)
      BY DEF ListTypes
    <3> QED
      BY <3>1, InList
  <2> QED
    BY <1>1, <1>6, <2>1 DEF Listed
<1>8. Callback'
  <2>1. pc'[Runner] = "run"
    BY <1>1 DEF SchedTypes
  <2>2. Open' = {}
    BY <1>1, <1>3 DEF Open
  <2> QED
    BY <1>1, <1>3, <2>1, <2>2 DEF Callback
<1> QED
  BY <1>4, <1>5, <1>7, <1>8

\* The remembered operation is the last one of those to be completed.
LEMMA MarkedFacts ==
  ASSUME IInv, NEW w \in Watchers, NEW s \in Sides
  PROVE  /\ UpTo(w, s) \subseteq Range(waiters[w][s])
         /\ Marked(w, s) \in UpTo(w, s) \cup {None}
         /\ \A i, j \in 1..Len(waiters[w][s]) : waiters[w][s][j] = Marked(w, s) =>
              (waiters[w][s][i] \in UpTo(w, s) <=> i <= j)
<1> DEFINE l == waiters[w][s]
           k == Marked(w, s)
<1>1. l \in Seq(Fibers) /\ IsInjective(l) /\ None \notin Fibers
  BY WatcherAssumption DEF IInv, Types, ListTypes, Listed
<1>2. /\ Len(l) \in Nat /\ \A i \in 1..Len(l) : l[i] \in Range(l) /\ l[i] \in Fibers
      /\ \A i, j \in 1..Len(l) : l[i] = l[j] => i = j
      /\ l # <<>> => Len(l) > 0
  BY <1>1, InList, EmptySeq
<1>3. CASE l = <<>>
  <2>1. k = None /\ UpTo(w, s) \subseteq Range(l)
    BY <1>3, EmptyList DEF Marked, UpTo
  <2> QED
    BY <1>2, <1>3, <2>1
<1>4. CASE l # <<>> /\ Kind[w] \in {"timer", "signal"}
  <2>1. k = l[Len(l)] /\ UpTo(w, s) = Range(l)
    BY <1>4 DEF Marked, UpTo, Last
  <2>2. Len(l) \in 1..Len(l)
    BY <1>2, <1>4
  <2> HIDE DEF l, k
  <2>3. ASSUME NEW i \in 1..Len(l), NEW j \in 1..Len(l), l[j] = k
        PROVE  l[i] \in UpTo(w, s) <=> i <= j
    <3>1. j = Len(l)
      BY <1>2, <2>1, <2>2, <2>3
    <3> QED
      BY <1>2, <2>1, <3>1
  <2> QED
    BY <1>2, <2>1, <2>2, <2>3 DEF l, k
<1>5. CASE l # <<>> /\ Kind[w] \notin {"timer", "signal"}
  <2>1. k = l[1]
    BY <1>5 DEF Marked
  <2>2. 1 \in 1..Len(l) /\ k \in Fibers
    BY <1>2, <1>5, <2>1
  <2>3. UpTo(w, s) = {k}
    BY <1>1, <1>5, <2>2 DEF UpTo
  <2> HIDE DEF l, k
  <2>4. ASSUME NEW i \in 1..Len(l), NEW j \in 1..Len(l), l[j] = k
        PROVE  l[i] \in UpTo(w, s) <=> i <= j
    <3>1. j = 1
      BY <1>2, <2>1, <2>2, <2>4
    <3>2. l[i] = k <=> i = 1
      BY <1>2, <2>1, <2>2
    <3> QED
      BY <2>3, <3>1, <3>2
  <2> QED
    BY <1>2, <2>1, <2>2, <2>3, <2>4 DEF l, k
<1> QED
  BY <1>3, <1>4, <1>5

\* The loop calls back: those up to the remembered operations become due.
LEMMA TriggerStep ==
  ASSUME IInv, NEW w \in Watchers, NEW events \in SUBSET Sides, Trigger(w, events)
  PROVE  IInv'
<1> USE DEF IInv, Types
<1>1. /\ cur = Runner /\ pc[Runner] = "run"
      /\ active' = [active EXCEPT ![w] = IF events = {} \/ w \in OneShot THEN {} ELSE @]
      /\ trigger' = [w |-> w, todo |-> events, cont |-> TRUE,
                     mark |-> [s \in Sides |-> Marked(w, s)], stray |-> FALSE]
      /\ due' = UNION {UpTo(w, s) : s \in events}
      /\ pc' = [pc EXCEPT ![Runner] = "trigger"]
      /\ UNCHANGED <<cur, fibers, ready, status, op, defer, busy, callbacks,
                     triggered, disposed, calls, waiters, mask, closed, refs, held,
                     on, sleepers, alarms>>
  BY DEF Trigger
<1>2. events # {} \/ Kind[w] = "poll"
  BY DEF Trigger
<1>3. /\ \A f \in Fibers : pc'[f] = pc[f]
      /\ pc'[Runner] = "trigger" /\ pc' \in [Fibers \cup {Runner} -> Places]
      /\ Runner \notin Fibers
  BY <1>1, SchedulerAssumption DEF SchedTypes, Places
<1>4. \A v \in Watchers, t \in Sides : Range(waiters[v][t]) \subseteq Fibers
  <2>1. \A v \in Watchers, t \in Sides : waiters[v][t] \in Seq(Fibers)
    BY DEF ListTypes
  <2> QED
    BY <2>1, InList
<1>5. \A s \in Sides :
        /\ UpTo(w, s) \subseteq Range(waiters[w][s])
        /\ Marked(w, s) \in UpTo(w, s) \cup {None}
        /\ \A i, j \in 1..Len(waiters[w][s]) : waiters[w][s][j] = Marked(w, s) =>
             (waiters[w][s][i] \in UpTo(w, s) <=> i <= j)
  <2> HIDE DEF IInv, Types
  <2> QED
    BY MarkedFacts
<1>6. /\ trigger'.w = w /\ trigger'.todo = events /\ trigger'.cont
      /\ \A s \in Sides : trigger'.mark[s] = Marked(w, s)
      /\ trigger' \in Triggers
  <2>1. \A s \in Sides : Marked(w, s) \in Fibers \cup {None, Freed}
    BY <1>4, <1>5
  <2>2. [s \in Sides |-> Marked(w, s)] \in [Sides -> Fibers \cup {None, Freed}]
    BY <2>1
  <2> QED
    BY <1>1, <2>2 DEF Triggers
\* The operations of two sides are different.
<1>7. ASSUME NEW s \in Sides, NEW g \in Range(waiters[w][s])
      PROVE  g \in due' <=> s \in events /\ g \in UpTo(w, s)
  <2>1. ASSUME NEW t \in events, g \in UpTo(w, t)
        PROVE  t = s
    <3>1. g \in Range(waiters[w][t])
      BY <1>5, <2>1
    <3>2. on[g] = <<w, t>> /\ on[g] = <<w, s>>
      BY <3>1 DEF Listed
    <3> QED
      BY <3>2
  <2> QED
    BY <1>1, <2>1
<1>8. Open' = events
  BY <1>6 DEF Open
<1>9. Listed'
  BY <1>1, <1>3, <1>4 DEF Listed
<1>10. HandleTypes' /\ Observed'
  <2>1. /\ active'[w] = IF events = {} \/ w \in OneShot THEN {} ELSE active[w]
        /\ \A v \in Watchers : v # w => active'[v] = active[v]
        /\ active' \in [Watchers -> SUBSET Sides]
    BY <1>1 DEF HandleTypes
  <2> QED
    BY <1>1, <1>2, <2>1 DEF Observed, HandleTypes
<1>11. due' \subseteq Fibers
  BY <1>1, <1>4, <1>5
<1>12. Types'
  <2>1. SchedTypes'
    BY <1>1, <1>3 DEF SchedTypes, FiberLists, Bookkeeping
  <2> QED
    BY <1>1, <1>6, <1>10, <1>11, <2>1 DEF ListTypes, CountTypes, SleepTypes
<1>13. Callback'
  <2>1. /\ pc'[Runner] \in {"run", "cancel", "trigger"} /\ pc'[Runner] = "trigger"
        /\ trigger'.w \in Watchers
    BY <1>3, <1>6
  <2>2. ASSUME NEW t \in Sides, trigger'.mark[t] \in Fibers
        PROVE  pc'[trigger'.mark[t]] = "watch" /\ on'[trigger'.mark[t]] = <<trigger'.w, t>>
    <3>1. trigger'.mark[t] \in Range(waiters[w][t])
      BY <1>5, <1>6, <2>2, WatcherAssumption
    <3> QED
      BY <1>1, <1>3, <1>6, <2>2, <3>1 DEF Listed
  <2>3. \A t \in Open' : ~trigger'.stray => trigger'.mark[t] \in due' \cup {None}
    BY <1>1, <1>5, <1>6, <1>8
  <2>4. ASSUME NEW g \in due'
        PROVE  /\ pc'[g] = "watch" /\ on'[g][1] = trigger'.w /\ on'[g][2] \in Open'
               /\ g = cur' \/ g \in Range(waiters'[trigger'.w][on'[g][2]])
    <3>1. PICK t \in events : g \in UpTo(w, t)
      BY <1>1, <2>4
    <3>2. g \in Range(waiters[w][t]) /\ g \in Fibers
      BY <1>4, <1>5, <3>1
    <3>3. pc[g] = "watch" /\ on[g] = <<w, t>>
      BY <3>2 DEF Listed
    <3> QED
      BY <1>1, <1>3, <1>6, <1>8, <3>1, <3>2, <3>3
  <2>5. ASSUME NEW t \in Open', NEW i \in 1..Len(waiters'[trigger'.w][t]),
               NEW j \in 1..Len(waiters'[trigger'.w][t]),
               waiters'[trigger'.w][t][j] = trigger'.mark[t]
        PROVE  /\ waiters'[trigger'.w][t][i] \in due' => i <= j
               /\ ~trigger'.stray /\ i <= j => waiters'[trigger'.w][t][i] \in due'
    <3> DEFINE n == waiters[w][t]
    <3>1. t \in events /\ t \in Sides /\ waiters'[trigger'.w][t] = n
      BY <1>1, <1>6, <1>8
    <3>2. n \in Seq(Fibers)
      BY <3>1 DEF ListTypes
    <3>3. n[i] \in UpTo(w, t) <=> i <= j
      BY <1>5, <1>6, <2>5, <3>1
    <3>4. n[i] \in Range(n)
      BY <2>5, <3>1, <3>2, InList
    <3> QED
      BY <1>7, <3>1, <3>3, <3>4
  <2>6. \A t \in Open' :
          \A i, j \in 1..Len(waiters'[trigger'.w][t]) :
            waiters'[trigger'.w][t][j] = trigger'.mark[t] =>
              /\ waiters'[trigger'.w][t][i] \in due' => i <= j
              /\ ~trigger'.stray /\ i <= j => waiters'[trigger'.w][t][i] \in due'
    BY <2>5
  <2> HIDE DEF IInv, Types
  <2> QED
    BY <2>1, <2>2, <2>3, <2>4, <2>6, Zenon DEF Callback
<1> QED
  BY <1>9, <1>10, <1>12, <1>13

-----------------------------------------------------------------------------
(***************************************************************************)
(* Calls.                                                                  *)
(***************************************************************************)

\* Closing stops the handle; the lists are failed in later turns.
LEMMA CloseStep ==
  ASSUME IInv, NEW f \in Fibers, NEW w \in Watchers, close(f, w)
  PROVE  IInv'
<1> USE DEF IInv, Types
<1>1. /\ closed' = [closed EXCEPT ![w] = TRUE]
      /\ active' = [active EXCEPT ![w] = {}]
      /\ on' = [on EXCEPT ![f] = <<w, "read">>]
      /\ UNCHANGED <<cur, fibers, ready, status, op, defer, busy, callbacks,
                     triggered, disposed, waiters, mask, refs, held, trigger,
                     sleepers, alarms, due>>
  BY DEF close
<1>2. PICK x \in {"close", "shutdown"} :
        /\ pc' = [pc EXCEPT ![f] = x] /\ cur = f /\ pc[f] \in {"run", "dispose"}
        /\ calls' \in [Fibers -> Nat] /\ \A g \in Fibers : calls'[g] <= MaxCalls[g]
  <2>1. CASE MayCall(f) /\ Call(f) /\ pc' = [pc EXCEPT ![f] = "close"]
    BY <2>1, CallBound DEF SchedTypes
  <2>2. CASE /\ f = Root /\ cur = Root /\ pc[Root] = "dispose"
             /\ pc' = [pc EXCEPT ![Root] = "shutdown"] /\ UNCHANGED calls
    BY <2>2 DEF SchedTypes, Bookkeeping
  <2> QED
    BY <2>1, <2>2 DEF close
<1>3. Runner \notin Fibers /\ "read" \in Sides
  BY SchedulerAssumption DEF Sides
<1>4. /\ pc' \in [Fibers \cup {Runner} -> Places]
      /\ on' \in [Fibers -> (Watchers \X Sides) \cup {<<None, "read">>}]
  BY <1>1, <1>2, <1>3 DEF SchedTypes, ListTypes, Places
<1>5. Still
  <2>1. pc'[Runner] = pc[Runner] /\ pc'[f] = x /\ on'[f] = <<w, "read">>
        /\ \A g \in Fibers : g # f => pc'[g] = pc[g] /\ on'[g] = on[g]
    BY <1>1, <1>2, <1>3 DEF SchedTypes, ListTypes
  <2>2. <<w, "read">> \in Watchers \X Sides
    BY <1>3
  <2>3. pc[f] # "watch" /\ x # "watch"
    BY <1>2
  <2> QED
    BY <2>1, <2>2, <2>3 DEF Listed, Callback, Still
<1>6. Listed' /\ Callback'
  <2>1. cur = Runner \/ pc[cur] # "watch"
    BY <1>2
  <2> HIDE DEF IInv, Types
  <2> QED
    BY <1>1, <1>5, <2>1, StillLists
<1>7. HandleTypes' /\ Observed'
  <2>1. /\ active'[w] = {} /\ closed'[w]
        /\ \A v \in Watchers : v # w => active'[v] = active[v] /\ closed'[v] = closed[v]
        /\ active' \in [Watchers -> SUBSET Sides] /\ closed' \in [Watchers -> BOOLEAN]
    BY <1>1 DEF HandleTypes
  <2> QED
    BY <1>1, <2>1 DEF Observed, HandleTypes
<1>8. Types'
  BY <1>1, <1>2, <1>4, <1>7 DEF SchedTypes, FiberLists, Bookkeeping, ListTypes, CountTypes,
                                SleepTypes
<1> QED
  BY <1>6, <1>7, <1>8

\* The handle is started for the side that is asked for, whether the caller is
\* then suspended or refused.
LEMMA StartObserves ==
  ASSUME IInv, NEW w \in Watchers, NEW s \in SidesOf(w), NEW f \in Fibers,
         Start(w, [waiters[w] EXCEPT ![s] = Append(@, f)]), UNCHANGED closed,
         \A v \in Watchers, t \in Sides :
           v # w \/ t # s => waiters'[v][t] = waiters[v][t]
  PROVE  HandleTypes' /\ Observed'
<1> USE DEF IInv, Types
<1>1. s \in Sides /\ (Kind[w] # "poll" => s = "read") /\ "read" \in Sides
  BY DEF SidesOf, Sides
<1> DEFINE lists == [waiters[w] EXCEPT ![s] = Append(@, f)]
           wanted == {t \in Sides : lists[t] # <<>>}
<1>2. /\ waiters[w] \in [Sides -> Seq(Fibers)]
      /\ lists[s] # <<>> /\ \A t \in Sides : t # s => lists[t] = waiters[w][t]
  <2>1. waiters[w] \in [Sides -> Seq(Fibers)]
    BY DEF ListTypes
  <2>2. waiters[w][s] \in Seq(Fibers)
    BY <1>1, <2>1
  <2>3. Append(waiters[w][s], f) # <<>>
    BY <2>2, AppendProperties
  <2> QED
    BY <1>1, <2>1, <2>3
<1>3. /\ {t \in Sides : waiters[w][t] # <<>>} \subseteq wanted
      /\ {t \in Sides : waiters'[w][t] # <<>>} \subseteq wanted
      /\ wanted \in SUBSET Sides
  BY <1>1, <1>2
<1> HIDE DEF lists, wanted
<1>4. CASE Kind[w] = "poll" /\ sync_poll(w, lists)
  <2>1. /\ mask'[w] = wanted /\ active'[w] \in {wanted, {}} /\ HandleTypes'
        /\ \A v \in Watchers : v # w => active'[v] = active[v] /\ mask'[v] = mask[v]
    <3>1. CASE wanted = mask[w]
      <4>1. UNCHANGED <<active, mask>>
        BY <1>4, <3>1 DEF sync_poll, wanted
      <4> QED
        BY <1>4, <3>1, <4>1 DEF HandleTypes, Observed
    <3>2. CASE wanted # mask[w]
      <4>1. active' = [active EXCEPT ![w] = wanted] /\ mask' = [mask EXCEPT ![w] = wanted]
        BY <1>4, <3>2 DEF sync_poll, wanted
      <4> QED
        BY <1>3, <4>1 DEF HandleTypes
    <3> QED
      BY <3>1, <3>2
  <2>2. ASSUME NEW v \in Watchers
        PROVE  IF Kind[v] = "poll"
               THEN /\ {t \in Sides : waiters'[v][t] # <<>>} \subseteq mask'[v]
                    /\ active'[v] \in {mask'[v], {}}
               ELSE waiters'[v]["read"] # <<>> /\ ~closed'[v] /\ v \notin OneShot =>
                      "read" \in active'[v]
    <3>1. CASE v = w
      BY <1>3, <1>4, <2>1, <3>1
    <3>2. CASE v # w
      <4>1. \A t \in Sides : waiters'[v][t] = waiters[v][t]
        BY <3>2
      <4> QED
        BY <1>1, <2>1, <3>2, <4>1 DEF Observed
    <3> QED
      BY <3>1, <3>2
  <2> QED
    BY <2>1, <2>2 DEF Observed
<1>5. CASE /\ Kind[w] # "poll" /\ UNCHANGED mask
           /\ active' = [active EXCEPT ![w] =
                IF Kind[w] = "monitor" \/ waiters[w]["read"] = <<>> THEN {"read"} ELSE @]
  <2>1. /\ active' \in [Watchers -> SUBSET Sides]
        /\ active'[w] = IF Kind[w] = "monitor" \/ waiters[w]["read"] = <<>>
                        THEN {"read"} ELSE active[w]
        /\ \A v \in Watchers : v # w => active'[v] = active[v]
    BY <1>1, <1>5 DEF HandleTypes
  <2>2. ASSUME NEW v \in Watchers
        PROVE  IF Kind[v] = "poll"
               THEN /\ {t \in Sides : waiters'[v][t] # <<>>} \subseteq mask'[v]
                    /\ active'[v] \in {mask'[v], {}}
               ELSE waiters'[v]["read"] # <<>> /\ ~closed'[v] /\ v \notin OneShot =>
                      "read" \in active'[v]
    <3>1. CASE v = w
      BY <1>5, <2>1, <3>1 DEF Observed
    <3>2. CASE v # w
      <4>1. \A t \in Sides : waiters'[v][t] = waiters[v][t]
        BY <3>2
      <4> QED
        BY <1>1, <1>5, <2>1, <3>2, <4>1 DEF Observed
    <3> QED
      BY <3>1, <3>2
  <2> QED
    BY <1>5, <2>1, <2>2 DEF Observed, HandleTypes
<1> QED
  BY <1>4, <1>5 DEF Start, lists

\* A call that is refused only starts the handle; one that waits is listed last,
\* perhaps at the address of the operation that a callback remembers.
LEMMA AwaitStep ==
  ASSUME IInv, NEW f \in Fibers, NEW w \in Watchers, NEW s \in Sides, await(f, w, s)
  PROVE  IInv'
<1> USE DEF IInv, Types
<1> DEFINE l == waiters[w][s]
           m == Append(waiters[w][s], f)
<1>1. /\ MayCall(f) /\ Call(f) /\ s \in SidesOf(w)
      /\ Start(w, [waiters[w] EXCEPT ![s] = Append(@, f)])
      /\ UNCHANGED <<ready, defer, busy, triggered, disposed, closed, sleepers,
                     alarms, due>>
  BY DEF await
<1>2. cur = f /\ pc[f] = "run" /\ Bookkeeping' /\ Runner \notin Fibers
  BY <1>1, CallFlags, SchedulerAssumption DEF MayCall, SchedTypes
<1>3. /\ f \notin due
      /\ \A v \in Watchers, t \in Sides : f \notin Range(waiters[v][t])
      /\ \A t \in Sides : trigger.mark[t] # f
  <2>1. pc[f] # "watch"
    BY <1>2
  <2> HIDE DEF IInv, Types
  <2> QED
    BY <2>1, NotInside
<1>4. CASE AwaitRefused(f)
  <2>1. UNCHANGED <<cur, fibers, status, pc, op, callbacks, waiters, refs,
                    held, on, trigger>>
    BY <1>4 DEF await
  <2>2. Still
    BY <2>1 DEF Listed, Callback, Still
  <2>3. cur = Runner \/ pc[cur] # "watch"
    BY <1>2
  <2>4. HandleTypes' /\ Observed'
    <3> HIDE DEF IInv, Types
    <3> QED
      BY <1>1, <2>1, StartObserves
  <2>5. Listed' /\ Callback'
    <3> HIDE DEF IInv, Types
    <3> QED
      BY <1>1, <2>1, <2>2, <2>3, StillLists
  <2>6. Types'
    BY <1>1, <1>2, <2>1, <2>4 DEF SchedTypes, FiberLists, ListTypes, CountTypes,
                                  SleepTypes
  <2> QED
    BY <2>4, <2>5, <2>6
<1>5. CASE ~AwaitRefused(f)
  <2>1. /\ waiters' = [waiters EXCEPT ![w] = [waiters[w] EXCEPT ![s] = Append(@, f)]]
        /\ on' = [on EXCEPT ![f] = <<w, s>>]
        /\ ASYNC_UNREF_ENTER(f, w) /\ Reallocate(f, w, s)
        /\ op' = [op EXCEPT ![f] = "RUNNING"]
        /\ status' = [status EXCEPT ![f] = "SUSPENDED"]
        /\ callbacks' = IF f \in Cancellable THEN Append(callbacks, f) ELSE callbacks
        /\ pc' = [pc EXCEPT ![f] = "watch"]
        /\ async_fiber_suspend
    BY <1>5 DEF await, AwaitSuspend
  <2>2. l \in Seq(Fibers) /\ IsInjective(l)
    BY DEF ListTypes, Listed
  <2>3. m \in Seq(Fibers) /\ Range(m) = Range(l) \cup {f} /\ IsInjective(m)
    BY <1>3, <2>2, AppendList
  <2>4. /\ waiters' \in [Watchers -> [Sides -> Seq(Fibers)]]
        /\ waiters'[w][s] = m
        /\ \A v \in Watchers, t \in Sides :
             v # w \/ t # s => waiters'[v][t] = waiters[v][t]
    <3>1. waiters' = [waiters EXCEPT ![w][s] = m]
      BY <2>1
    <3>2. ListTypes
      OBVIOUS
    <3> HIDE DEF m, IInv, Types
    <3> QED
      BY <2>3, <3>1, <3>2, ListChange, Zenon
  <2>5. /\ \A g \in Fibers : g # f => pc'[g] = pc[g] /\ on'[g] = on[g]
        /\ pc'[Runner] = pc[Runner] /\ pc'[f] = "watch" /\ on'[f] = <<w, s>>
        /\ pc' \in [Fibers \cup {Runner} -> Places]
        /\ on' \in [Fibers -> (Watchers \X Sides) \cup {<<None, "read">>}]
    BY <1>2, <2>1 DEF SchedTypes, ListTypes, Places
  <2>6. HandleTypes' /\ Observed'
    <3> HIDE DEF IInv, Types, m
    <3> QED
      BY <1>1, <2>4, StartObserves
  <2>7. \A v \in Watchers, t \in Sides : Range(waiters[v][t]) \subseteq Fibers
    <3>1. \A v \in Watchers, t \in Sides : waiters[v][t] \in Seq(Fibers)
      BY DEF ListTypes
    <3> QED
      BY <3>1, InList
  <2> HIDE DEF l, m
  <2>8. Listed'
    <3>1. ASSUME NEW v \in Watchers, NEW t \in Sides
          PROVE  /\ IsInjective(waiters'[v][t])
                 /\ \A g \in Range(waiters'[v][t]) : pc'[g] = "watch" /\ on'[g] = <<v, t>>
                 /\ t \notin SidesOf(v) => waiters'[v][t] = <<>>
      <4>1. CASE v = w /\ t = s
        BY <1>1, <2>3, <2>4, <2>5, <2>7, <4>1 DEF Listed, l
      <4>2. CASE v # w \/ t # s
        <5>1. waiters'[v][t] = waiters[v][t]
          BY <2>4, <4>2
        <5>2. \A g \in Range(waiters[v][t]) : pc'[g] = pc[g] /\ on'[g] = on[g]
          BY <1>3, <2>5, <2>7
        <5> QED
          BY <5>1, <5>2 DEF Listed
      <4> QED
        BY <4>1, <4>2
    <3>2. \A g \in Fibers : pc'[g] \in {"watch", "close", "shutdown"} =>
            on'[g] \in Watchers \X Sides
      BY <2>5 DEF Listed
    <3> QED
      BY <1>1, <3>1, <3>2 DEF Listed
  <2>9. /\ trigger' \in Triggers
        /\ trigger'.w = trigger.w /\ trigger'.todo = trigger.todo
        /\ trigger'.cont = trigger.cont /\ trigger'.stray = trigger.stray
        /\ \A t \in Sides : trigger'.mark[t] # trigger.mark[t] =>
             /\ t = s /\ trigger.w = w
             /\ trigger.mark[t] = Freed /\ trigger'.mark[t] = f
    <3>1. trigger \in Triggers
      BY DEF ListTypes
    <3>2. CASE UNCHANGED trigger
      BY <3>1, <3>2
    <3>3. CASE /\ trigger.w = w /\ trigger.mark[s] = Freed
               /\ trigger' = [trigger EXCEPT !.mark[s] = f]
      <4>1. trigger.mark \in [Sides -> Fibers \cup {None, Freed}]
        BY <3>1 DEF Triggers
      <4>2. /\ trigger'.mark = [trigger.mark EXCEPT ![s] = f]
            /\ trigger'.stray = trigger.stray
            /\ trigger'.w = trigger.w /\ trigger'.todo = trigger.todo
            /\ trigger'.cont = trigger.cont
        BY <3>1, <3>3 DEF Triggers
      <4>3. trigger' \in Triggers
        BY <3>1, <3>3, <4>1 DEF Triggers
      <4> QED
        BY <3>3, <4>1, <4>2, <4>3
    <3> QED
      BY <2>1, <3>2, <3>3 DEF Reallocate
  <2>10. Types'
    <3>1. cur' \in Fibers \cup {Runner} /\ fibers' \in Seq(Fibers \cup {Runner})
      BY <2>1, SuspendType DEF SchedTypes
    <3>2. FiberLists'
      BY <1>1, <2>1, <3>1 DEF SchedTypes, FiberLists, TaskStatus, OpStatus
    <3>3. callbacks' \in Seq(Fibers)
      BY <2>1 DEF SchedTypes
    <3>4. SchedTypes'
      BY <1>1, <1>2, <2>5, <3>2, <3>3 DEF SchedTypes
    <3>5. ListTypes'
      BY <1>1, <2>4, <2>5, <2>9 DEF ListTypes
    <3>6. CountTypes'
      <4>1. RefModulus \in Nat \ {0} /\ refs[w] \in Nat
        BY WatcherAssumption DEF CountTypes
      <4>2. (refs[w] + 1) % RefModulus \in 0..(RefModulus - 1)
        BY <4>1
      <4> QED
        BY <2>1, <4>2 DEF ASYNC_UNREF_ENTER, CountTypes
    <3> QED
      BY <1>1, <2>6, <3>4, <3>5, <3>6 DEF SleepTypes
  <2>11. Open' = Open /\ Open \subseteq Sides
    BY <2>9 DEF Open, Side, ListTypes, Triggers
  <2>12. ASSUME pc[Runner] # "trigger"
         PROVE  Callback'
    <3>1. due = {} /\ trigger = NoTrigger
      BY <2>12 DEF Callback
    <3>2. trigger' = trigger
      BY <2>1, <3>1, WatcherAssumption DEF Reallocate, NoTrigger
    <3>3. Open = {} /\ \A t \in Sides : trigger.mark[t] \notin Fibers
      BY <3>1, WatcherAssumption DEF NoTrigger, Open
    <3> QED
      BY <1>1, <2>5, <2>11, <2>12, <3>1, <3>2, <3>3 DEF Callback
  <2>13. ASSUME pc[Runner] = "trigger"
         PROVE  Callback'
    <3>0. trigger.w \in Watchers
      BY <2>13 DEF Callback
    <3>1. /\ pc'[Runner] \in {"run", "cancel", "trigger"} /\ pc'[Runner] = "trigger"
          /\ trigger'.w \in Watchers
      BY <2>5, <2>9, <2>13, <3>0
    <3>2. ASSUME NEW t \in Sides, trigger'.mark[t] \in Fibers
          PROVE  /\ pc'[trigger'.mark[t]] = "watch"
                 /\ on'[trigger'.mark[t]] = <<trigger'.w, t>>
      <4>1. CASE trigger'.mark[t] = trigger.mark[t]
        BY <1>3, <2>5, <2>9, <3>2, <4>1 DEF Callback
      <4>2. CASE trigger'.mark[t] # trigger.mark[t]
        BY <2>5, <2>9, <4>2
      <4> QED
        BY <4>1, <4>2
    <3>3. \A t \in Open : ~trigger.stray => trigger.mark[t] # Freed
      BY <2>13, WatcherAssumption DEF Callback, ListTypes
    <3>4. \A t \in Open' : ~trigger'.stray => trigger'.mark[t] \in due' \cup {None}
      BY <1>1, <2>9, <2>11, <3>3 DEF Callback
    <3>5. ASSUME NEW g \in due'
          PROVE  /\ pc'[g] = "watch" /\ on'[g][1] = trigger'.w /\ on'[g][2] \in Open'
                 /\ g = cur' \/ g \in Range(waiters'[trigger'.w][on'[g][2]])
      <4>1. g \in due /\ g # f /\ g \in Fibers
        BY <1>1, <1>3 DEF ListTypes
      <4>2. /\ pc[g] = "watch" /\ on[g][1] = trigger.w /\ on[g][2] \in Open
            /\ g \in Range(waiters[trigger.w][on[g][2]])
        BY <1>2, <4>1 DEF Callback
      <4>3. g \in Range(waiters'[trigger.w][on[g][2]])
        <5>1. CASE trigger.w = w /\ on[g][2] = s
          BY <2>3, <2>4, <4>2, <5>1 DEF l
        <5>2. CASE ~(trigger.w = w /\ on[g][2] = s)
          BY <2>4, <2>11, <3>0, <4>2, <5>2
        <5> QED
          BY <5>1, <5>2
      <4> QED
        BY <2>5, <2>9, <2>11, <4>1, <4>2, <4>3
    <3>6. ASSUME NEW t \in Open
          PROVE  \A i, j \in 1..Len(waiters'[trigger.w][t]) :
                   waiters'[trigger.w][t][j] = trigger'.mark[t] =>
                     /\ waiters'[trigger.w][t][i] \in due => i <= j
                     /\ ~trigger.stray /\ i <= j => waiters'[trigger.w][t][i] \in due
      <4> DEFINE n == waiters'[trigger.w][t]
                 k == waiters[trigger.w][t]
      <4>1. t \in Sides /\ n \in Seq(Fibers) /\ k \in Seq(Fibers)
        BY <2>4, <2>11, <3>0 DEF ListTypes
      <4>2. \A i, j \in 1..Len(k) : k[j] = trigger.mark[t] =>
              /\ k[i] \in due => i <= j
              /\ ~trigger.stray /\ i <= j => k[i] \in due
        BY <2>13 DEF Callback
      <4>3. f \notin Range(k)
        BY <1>3, <3>0, <4>1
      <4>4. CASE trigger.w = w /\ t = s
        <5>1. n = Append(k, f)
          BY <2>4, <4>4 DEF m
        <5>2. /\ Len(k) \in Nat /\ Len(n) = Len(k) + 1 /\ n[Len(k) + 1] = f
              /\ \A i \in 1..Len(k) : n[i] = k[i]
          BY <4>1, <5>1, AppendAt
        <5>3. \A i \in 1..Len(k) : k[i] # f
          BY <4>1, <4>3, InList
        <5> HIDE DEF n, k
        <5>4. ASSUME NEW i \in 1..Len(n), NEW j \in 1..Len(n), n[j] = trigger'.mark[t]
              PROVE  /\ n[i] \in due => i <= j
                     /\ ~trigger.stray /\ i <= j => n[i] \in due
          <6>1. CASE trigger'.mark[t] = trigger.mark[t]
            <7>1. n[j] # f
              BY <1>3, <4>1, <5>4, <6>1
            <7>2. j \in 1..Len(k) /\ k[j] = trigger.mark[t]
              BY <5>2, <5>4, <6>1, <7>1
            <7>3. CASE i \in 1..Len(k)
              BY <4>2, <5>2, <7>2, <7>3
            <7>4. CASE i = Len(k) + 1
              BY <1>3, <5>2, <7>2, <7>4
            <7> QED
              BY <5>2, <7>3, <7>4
          <6>2. CASE trigger'.mark[t] # trigger.mark[t]
            <7>1. trigger.mark[t] = Freed /\ n[j] = f
              BY <2>9, <4>1, <5>4, <6>2
            <7>2. j = Len(k) + 1
              BY <5>2, <5>3, <7>1
            <7>3. trigger.stray
              BY <3>3, <7>1
            <7> QED
              BY <5>2, <7>2, <7>3
          <6> QED
            BY <6>1, <6>2
        <5> QED
          BY <5>4 DEF n
      <4>5. CASE ~(trigger.w = w /\ t = s)
        <5>1. n = k
          BY <2>4, <3>0, <4>1, <4>5
        <5>2. trigger'.mark[t] = trigger.mark[t]
          BY <2>9, <4>1, <4>5
        <5> QED
          BY <4>2, <5>1, <5>2
      <4> QED
        BY <4>4, <4>5
    <3>7. \A t \in Open' :
            \A i, j \in 1..Len(waiters'[trigger'.w][t]) :
              waiters'[trigger'.w][t][j] = trigger'.mark[t] =>
                /\ waiters'[trigger'.w][t][i] \in due' => i <= j
                /\ ~trigger'.stray /\ i <= j => waiters'[trigger'.w][t][i] \in due'
      BY <1>1, <2>9, <2>11, <3>6
    <3> HIDE DEF IInv, Types
    <3> QED
      BY <3>1, <3>2, <3>4, <3>5, <3>7, Zenon DEF Callback
  <2> QED
    BY <2>6, <2>8, <2>10, <2>12, <2>13
<1> QED
  BY <1>4, <1>5

-----------------------------------------------------------------------------
(***************************************************************************)
(* Theorems.                                                               *)
(***************************************************************************)

\* Before the script goes on nobody waits.
LEMMA InitHolds ==
  ASSUME Init
  PROVE  IInv
<1> USE DEF Init, SchedInit
<1>1. Runner \notin Fibers /\ Tasks \subseteq Fibers /\ Root \in Fibers
      /\ IsFiniteSet(Tasks) /\ None \notin Fibers
  BY SchedulerAssumption, WatcherAssumption DEF Fibers
<1>2. SchedInit
  BY DEF Init
<1>3. FiberLists /\ Bookkeeping /\ busy \in Nat /\ callbacks \in Seq(Fibers)
  <2> HIDE DEF SchedInit
  <2> QED
    BY <1>2, SchedStart
<1>4. SchedTypes
  BY <1>3 DEF SchedTypes, Places
<1>5. NoTrigger \in Triggers
  BY DEF NoTrigger, Triggers
<1>6. \A w \in Watchers, s \in Sides : waiters[w][s] = <<>>
  OBVIOUS
<1>7. ListTypes
  BY <1>5, <1>6 DEF ListTypes
<1>8. Types
  BY <1>4, <1>7, WatcherAssumption DEF Types, HandleTypes, CountTypes, SleepTypes
<1>9. Listed
  BY <1>1, <1>6, EmptyList DEF Listed
<1>10. Observed
  <2>1. \A w \in Watchers : waiters[w]["read"] = <<>>
    BY <1>6 DEF Sides
  <2>2. \A w \in Watchers : {s \in Sides : waiters[w][s] # <<>>} = {}
    BY <1>6
  <2> QED
    BY <2>1, <2>2 DEF Observed
<1>11. Callback
  <2>1. Open = {} /\ \A s \in Sides : trigger.mark[s] \notin Fibers
    BY <1>1 DEF NoTrigger, Open
  <2> QED
    BY <2>1 DEF Callback
<1> QED
  BY <1>8, <1>9, <1>10, <1>11 DEF IInv

\* Every step of the specification keeps the invariant.
LEMMA NextHolds ==
  ASSUME IInv, [Next]_vars
  PROVE  IInv'
<1>1. CASE UNCHANGED vars
  BY <1>1 DEF vars, schedVars, watchVars, IInv, Types, SchedTypes, FiberLists,
     Bookkeeping, ListTypes, HandleTypes, CountTypes, SleepTypes, Listed, Observed,
     Callback, Open, Side
<1>2. ASSUME NEW f \in Fibers, NEW w \in Watchers, NEW s \in Sides, await(f, w, s)
      PROVE  IInv'
  BY <1>2, AwaitStep
<1>3. ASSUME NEW f \in Fibers, NEW w \in Watchers, close(f, w)
      PROVE  IInv'
  BY <1>3, CloseStep
<1>4. ASSUME NEW f \in Fibers, AwaitReturns(f)
      PROVE  IInv'
  BY <1>4, ReturnStep
<1>5. ASSUME NEW w \in Watchers, NEW events \in SUBSET Sides, Trigger(w, events)
      PROVE  IInv'
  BY <1>5, TriggerStep
<1>6. {"read"} \in SUBSET Sides /\ External \subseteq Watchers
  BY DEF Sides, External
<1> QED
  BY <1>1, <1>2, <1>3, <1>4, <1>5, <1>6, SleepStep, TurnStep, SideStep, EndStep,
     ShutdownStep, SchedulerStep DEF Next, Internal

\* The inductive invariant holds in every reachable state.
THEOREM Invariant == Spec => []IInv
  BY InitHolds, NextHolds, PTL DEF Spec

\* Every variable keeps its type, for any number of fibers, watchers and calls.
THEOREM TypesHold == Spec => []WatchTypeOK
<1>1. IInv => WatchTypeOK
  BY TypesAre DEF IInv
<1> QED
  BY <1>1, Invariant, PTL

\* Whoever is listed with an open watcher is observed by its handle (Start and
\* sync_poll), whatever waiters do inside the callback that stops it.
THEOREM EverybodyObserved == Spec => []WaitersObserved
<1>1. IInv => WaitersObserved
  <2>1. SUFFICES ASSUME IInv, NEW w \in Watchers, NEW s \in Sides,
                        waiters[w][s] # <<>>, ~closed[w], w \notin OneShot
                 PROVE  s \in active[w] \/ (active[w] = {} /\ s \in mask[w])
    BY DEF WaitersObserved
  <2>2. s \in SidesOf(w)
    BY <2>1 DEF IInv, Listed
  <2>3. CASE Kind[w] = "poll"
    BY <2>1, <2>3 DEF IInv, Observed
  <2>4. CASE Kind[w] # "poll"
    BY <2>1, <2>2, <2>4 DEF IInv, Observed, SidesOf
  <2> QED
    BY <2>3, <2>4
<1> QED
  BY <1>1, Invariant, PTL

\* A callback returns only when everybody who was to be completed has been, or
\* has left, also when the remembered operation was freed under it.
THEOREM CallbackComplete == Spec => []NobodyForgotten
<1>1. IInv => NobodyForgotten
  BY NobodyDue DEF NobodyForgotten
<1> QED
  BY <1>1, Invariant, PTL

\* A callback completes only fibers that waited when it began, unless one of
\* the operations that it remembers has left by itself.
THEOREM CompletedOnce == Spec => OncePerEvent
<1>1. ASSUME IInv, [Next]_vars, InTrigger, cur' # cur
      PROVE  cur' \in due \/ trigger.stray \/ trigger.mark[Side] = None
  <2>1. cur = Runner /\ pc[Runner] = "trigger" /\ Runner \notin Fibers
    BY <1>1, SchedulerAssumption DEF InTrigger
  <2>2. TriggerTurn
    <3>1. ~UNCHANGED vars
      BY <1>1 DEF vars, schedVars
    <3>2. \A f \in Fibers, w \in Watchers, s \in Sides : ~await(f, w, s)
      BY <2>1 DEF await, MayCall
    <3>3. \A f \in Fibers, w \in Watchers : ~close(f, w)
      BY <2>1 DEF close, MayCall, Fibers
    <3>4. \A f \in Fibers : ~AwaitReturns(f) /\ ~asyncsleep(f) /\ ~sleep_cb(f)
                            /\ ~SleepReturns(f)
      BY <2>1 DEF AwaitReturns, asyncsleep, sleep_cb, SleepReturns, MayCall
    <3>5. \A w \in Watchers, events \in SUBSET Sides : ~Trigger(w, events)
      BY <2>1 DEF Trigger
    <3>6. ~TriggerSide /\ ~TriggerEnds
      BY <1>1 DEF TriggerSide, TriggerEnds, schedVars
    <3>7. ~shutdown /\ ~DisposeSleeper /\ ~CancelLoop
      BY <2>1 DEF shutdown, DisposeSleeper, CancelLoop, Fibers
    <3>8. ~dispatch_tasks /\ ~async_task_scheduler_dispose
          /\ ~run_scheduler_fiber(Alive)
          /\ ~DisposeDrain({w \in Watchers : ~closed[w]} \cup Range(sleepers))
      BY <2>1 DEF dispatch_tasks, async_task_scheduler_dispose, run_scheduler_fiber,
                  DisposeDrain, Fibers
    <3>9. /\ \A t \in Tasks : ~run_task_fiber(t)
          /\ \A f \in Fibers \cup {Runner} : ~CancelInvoke(f)
      BY <2>1 DEF run_task_fiber, CancelInvoke, MayCall, Fibers
    <3>10. {"read"} \in SUBSET Sides /\ External \subseteq Watchers
      BY DEF Sides, External
    <3> QED
      BY <1>1, <3>1, <3>2, <3>3, <3>4, <3>5, <3>6, <3>7, <3>8, <3>9, <3>10
         DEF Next, Internal
  <2>3. /\ InTrigger /\ trigger.todo # {} /\ trigger.cont /\ Queue # <<>>
        /\ reschedule_task(Head(Queue), "RESOLVED")
    BY <2>2 DEF TriggerTurn
  <2>4. /\ Side \in trigger.todo /\ Side \in Sides /\ cur \notin due
        /\ Queue \in Seq(Fibers) /\ Queue = waiters[trigger.w][Side]
    BY <1>1, <2>3, SideFacts
  <2>5. cur' = Head(Queue)
    BY <1>1, <2>3 DEF reschedule_task, async_fiber_switch
  <2>6. SUFFICES ASSUME ~trigger.stray, trigger.mark[Side] # None
                 PROVE  Head(Queue) \in due
    BY <2>5
  <2>7. Side \in Open
    BY <2>3, <2>4 DEF Open
  <2>8. trigger.mark[Side] \in due
    BY <1>1, <2>6, <2>7 DEF IInv, Callback
  <2>9. /\ on[trigger.mark[Side]] = <<trigger.w, Side>>
        /\ trigger.mark[Side] \in Range(waiters[trigger.w][on[trigger.mark[Side]][2]])
    BY <1>1, <2>4, <2>8 DEF IInv, Types, ListTypes, Callback
  <2>10. PICK j \in 1..Len(Queue) : Queue[j] = trigger.mark[Side]
    BY <2>4, <2>9, InList
  <2>11. \A i, k \in 1..Len(Queue) : Queue[k] = trigger.mark[Side] =>
           (~trigger.stray /\ i <= k => Queue[i] \in due)
    BY <1>1, <2>1, <2>4, <2>7 DEF IInv, Callback
  <2>12. Len(Queue) \in Nat /\ 1 \in 1..Len(Queue) /\ 1 <= j /\ Head(Queue) = Queue[1]
    BY <2>3, <2>4, <2>10, InList, EmptySeq
  <2> QED
    BY <2>6, <2>10, <2>11, <2>12
<1>2. IInv /\ [Next]_vars =>
        [InTrigger /\ cur' # cur =>
           cur' \in due \/ trigger.stray \/ trigger.mark[Side] = None]_vars
  BY <1>1
<1> QED
  BY <1>2, Invariant, PTL DEF Spec, OncePerEvent

-----------------------------------------------------------------------------
(***************************************************************************)
(* References of handles.                                                  *)
(***************************************************************************)

\* There are finitely many fibers inside an await.
LEMMA InsideFinite ==
  ASSUME NEW w
  PROVE  /\ IsFiniteSet(Inside(w)) /\ Cardinality(Inside(w)) \in Nat
         /\ Cardinality(Inside(w)) <= Cardinality(Fibers) /\ Cardinality(Fibers) \in Nat
<1>1. IsFiniteSet(Fibers)
  BY SchedulerAssumption, FS_AddElement DEF Fibers
<1>2. Inside(w) \in SUBSET Fibers
  BY DEF Inside
<1> QED
  BY <1>1, <1>2, FS_Subset, FS_CardinalityType

\* A step after which the same fibers are inside the same calls.
LEMMA InsideStays ==
  ASSUME Counted, UNCHANGED <<refs, held>>,
         \A f \in Fibers : pc'[f] = "watch" <=> pc[f] = "watch",
         \A f \in Fibers : pc[f] = "watch" => on'[f] = on[f]
  PROVE  Counted'
<1>1. \A w \in Watchers : Inside(w)' = Inside(w)
  BY DEF Inside, Counts
<1> QED
  BY <1>1 DEF Counted

\* Entering an await takes one reference: the count does not wrap because it is
\* below the number of fibers.
LEMMA EnterCounts ==
  ASSUME Types, Counted, Cardinality(Fibers) < RefModulus,
         NEW f \in Fibers, NEW w \in Watchers, NEW s \in Sides,
         pc[f] # "watch", pc' = [pc EXCEPT ![f] = "watch"],
         on' = [on EXCEPT ![f] = <<w, s>>], ASYNC_UNREF_ENTER(f, w)
  PROVE  Counted'
<1>1. /\ pc'[f] = "watch" /\ on'[f] = <<w, s>>
      /\ \A g \in Fibers : g # f => pc'[g] = pc[g] /\ on'[g] = on[g]
  BY DEF Types, SchedTypes, ListTypes
<1>2. \A v \in Watchers : Inside(v)' = IF v = w /\ Counts(f, w) THEN Inside(v) \cup {f}
                                       ELSE Inside(v)
  BY <1>1 DEF Inside, Counts
<1>3. f \notin Inside(w) /\ RefModulus \in Nat \ {0}
  BY WatcherAssumption DEF Inside
<1>4. CASE Counts(f, w)
  <2> DEFINE n == (refs[w] + 1) % RefModulus
  <2>1. Cardinality(Inside(w)') = Cardinality(Inside(w)) + 1
    BY <1>2, <1>3, <1>4, InsideFinite, FS_AddElement
  <2>2. Cardinality(Inside(w)') <= Cardinality(Fibers)
    BY InsideFinite, FS_Subset, SchedulerAssumption, FS_AddElement DEF Inside, Fibers
  <2>3. refs[w] = Cardinality(Inside(w)) /\ refs[w] \in Nat /\ Cardinality(Fibers) \in Nat
    BY InsideFinite DEF Counted
  <2>4. n = refs[w] + 1
    BY <1>3, <2>1, <2>2, <2>3
  <2>5. refs' = [refs EXCEPT ![w] = n] /\ held' = IF n = 1 THEN held \cup {w} ELSE held
    BY <1>4 DEF ASYNC_UNREF_ENTER
  <2> HIDE DEF n
  <2>6. /\ refs'[w] = Cardinality(Inside(w)') /\ w \in held' /\ refs'[w] > 0
    BY <2>1, <2>3, <2>4, <2>5 DEF Types, CountTypes, Counted
  <2>7. ASSUME NEW v \in Watchers, v # w
        PROVE  /\ refs'[v] = Cardinality(Inside(v)')
               /\ v \in held' <=> refs'[v] > 0
    <3>1. refs'[v] = refs[v] /\ (v \in held' <=> v \in held) /\ Inside(v)' = Inside(v)
      BY <1>2, <2>5, <2>7 DEF Types, CountTypes
    <3> QED
      BY <3>1 DEF Counted
  <2> QED
    BY <2>6, <2>7 DEF Counted
<1>5. CASE ~Counts(f, w)
  <2>1. UNCHANGED <<refs, held>> /\ \A v \in Watchers : Inside(v)' = Inside(v)
    BY <1>2, <1>5 DEF ASYNC_UNREF_ENTER
  <2> QED
    BY <2>1 DEF Counted
<1> QED
  BY <1>4, <1>5

\* Leaving it gives the reference back.
LEMMA ExitCounts ==
  ASSUME Types, Counted, Cardinality(Fibers) < RefModulus,
         NEW f \in Fibers, NEW w \in Watchers,
         pc[f] = "watch", on[f][1] = w, pc' = [pc EXCEPT ![f] = "run"],
         on' = [on EXCEPT ![f] = <<None, "read">>], ASYNC_UNREF_EXIT(f, w)
  PROVE  Counted'
<1>1. /\ pc'[f] = "run"
      /\ \A g \in Fibers : g # f => pc'[g] = pc[g] /\ on'[g] = on[g]
  BY DEF Types, SchedTypes, ListTypes
<1>2. \A v \in Watchers : Inside(v)' = IF v = w /\ Counts(f, w) THEN Inside(v) \ {f}
                                       ELSE Inside(v)
  BY <1>1 DEF Inside, Counts
<1>3. RefModulus \in Nat \ {0}
  BY WatcherAssumption
<1>4. CASE Counts(f, w)
  <2> DEFINE n == (refs[w] + RefModulus - 1) % RefModulus
  <2>0. f \in Inside(w)
    BY <1>4 DEF Inside
  <2>1. Cardinality(Inside(w)') = Cardinality(Inside(w)) - 1
    BY <1>2, <1>4, <2>0, InsideFinite, FS_RemoveElement
  <2>2. Cardinality(Inside(w)') \in Nat
    <3>1. IsFiniteSet(Inside(w)')
      BY <1>2, InsideFinite, FS_RemoveElement
    <3> QED
      BY <3>1, FS_CardinalityType
  <2>3. /\ refs[w] = Cardinality(Inside(w)) /\ refs[w] \in Nat
        /\ refs[w] <= Cardinality(Fibers) /\ Cardinality(Fibers) \in Nat
    BY InsideFinite DEF Counted
  <2>4. refs[w] >= 1 /\ refs[w] < RefModulus
    BY <1>3, <2>1, <2>2, <2>3
  <2>5. n = refs[w] - 1
    BY <1>3, <2>3, <2>4
  <2>6. refs' = [refs EXCEPT ![w] = n] /\ held' = IF n = 0 THEN held \ {w} ELSE held
    BY <1>4 DEF ASYNC_UNREF_EXIT
  <2> HIDE DEF n
  <2>7. refs'[w] = Cardinality(Inside(w)') /\ (w \in held' <=> refs'[w] > 0)
    BY <2>1, <2>3, <2>4, <2>5, <2>6 DEF Types, CountTypes, Counted
  <2>8. ASSUME NEW v \in Watchers, v # w
        PROVE  /\ refs'[v] = Cardinality(Inside(v)')
               /\ v \in held' <=> refs'[v] > 0
    <3>1. refs'[v] = refs[v] /\ (v \in held' <=> v \in held) /\ Inside(v)' = Inside(v)
      BY <1>2, <2>6, <2>8 DEF Types, CountTypes
    <3> QED
      BY <3>1 DEF Counted
  <2> QED
    BY <2>7, <2>8 DEF Counted
<1>5. CASE ~Counts(f, w)
  <2>1. UNCHANGED <<refs, held>> /\ \A v \in Watchers : Inside(v)' = Inside(v)
    BY <1>2, <1>5 DEF ASYNC_UNREF_EXIT
  <2> QED
    BY <2>1 DEF Counted
<1> QED
  BY <1>4, <1>5

\* Only await and its return move a fiber into or out of the counted calls.
LEMMA CountedNext ==
  ASSUME IInv, Counted, Cardinality(Fibers) < RefModulus, [Next]_vars
  PROVE  Counted'
<1>0. /\ Runner \notin Fibers /\ Root \in Fibers /\ Tasks \subseteq Fibers
      /\ pc \in [Fibers \cup {Runner} -> Places] /\ cur \in Fibers \cup {Runner}
      /\ on \in [Fibers -> (Watchers \X Sides) \cup {<<None, "read">>}]
      /\ pc[Runner] \notin {"watch", "close", "shutdown"}
  BY SchedulerAssumption DEF Fibers, IInv, Types, SchedTypes, FiberLists, ListTypes,
                             Callback
<1>1. SUFFICES ASSUME /\ \A f \in Fibers, w \in Watchers, s \in Sides :
                           await(f, w, s) => AwaitRefused(f)
                      /\ \A f \in Fibers : ~AwaitReturns(f)
               PROVE  Counted'
  <2>1. ASSUME NEW f \in Fibers, NEW w \in Watchers, NEW s \in Sides,
               await(f, w, s), ~AwaitRefused(f)
        PROVE  Counted'
    <3>1. /\ pc[f] # "watch" /\ pc' = [pc EXCEPT ![f] = "watch"]
          /\ on' = [on EXCEPT ![f] = <<w, s>>] /\ ASYNC_UNREF_ENTER(f, w)
      BY <2>1 DEF await, AwaitSuspend, MayCall
    <3> QED
      BY <3>1, EnterCounts DEF IInv
  <2>2. ASSUME NEW f \in Fibers, AwaitReturns(f)
        PROVE  Counted'
    <3>1. /\ pc[f] = "watch" /\ pc' = [pc EXCEPT ![f] = "run"]
          /\ on' = [on EXCEPT ![f] = <<None, "read">>]
          /\ ASYNC_UNREF_EXIT(f, on[f][1])
      BY <2>2 DEF AwaitReturns, AwaitResume
    <3>2. on[f][1] \in Watchers
      BY <3>1 DEF IInv, Listed
    <3> QED
      BY <3>1, <3>2, ExitCounts DEF IInv
  <2> QED
    BY <2>1, <2>2
\* Every other step leaves the counts, and who is inside, alone.
<1>2. SUFFICES /\ UNCHANGED <<refs, held>>
               /\ \A f \in Fibers : pc'[f] = "watch" <=> pc[f] = "watch"
               /\ \A f \in Fibers : pc[f] = "watch" => on'[f] = on[f]
  BY InsideStays
<1>3. CASE UNCHANGED vars
  BY <1>3 DEF vars, schedVars, watchVars
<1>4. ASSUME NEW f \in Fibers, NEW w \in Watchers, NEW s \in Sides, await(f, w, s)
      PROVE  /\ UNCHANGED <<refs, held>>
             /\ \A g \in Fibers : pc'[g] = "watch" <=> pc[g] = "watch"
             /\ \A g \in Fibers : pc[g] = "watch" => on'[g] = on[g]
  <2>1. UNCHANGED <<pc, on, refs, held>>
    BY <1>1, <1>4 DEF await
  <2> QED
    BY <2>1
<1>5. ASSUME NEW f \in Fibers, NEW w \in Watchers, close(f, w)
      PROVE  /\ UNCHANGED <<refs, held>>
             /\ \A g \in Fibers : pc'[g] = "watch" <=> pc[g] = "watch"
             /\ \A g \in Fibers : pc[g] = "watch" => on'[g] = on[g]
  <2>1. /\ UNCHANGED <<refs, held>> /\ on' = [on EXCEPT ![f] = <<w, "read">>]
        /\ pc[f] # "watch" /\ \E x \in {"close", "shutdown"} : pc' = [pc EXCEPT ![f] = x]
    BY <1>5 DEF close, MayCall
  <2> QED
    BY <1>0, <2>1
<1>6. ASSUME NEW f \in Fibers \cup {Runner}, NEW x \in Places \ {"watch"}, pc[f] # "watch",
             UNCHANGED <<refs, held, on>>, pc' = [pc EXCEPT ![f] = x] \/ pc' = pc
      PROVE  /\ UNCHANGED <<refs, held>>
             /\ \A g \in Fibers : pc'[g] = "watch" <=> pc[g] = "watch"
             /\ \A g \in Fibers : pc[g] = "watch" => on'[g] = on[g]
  BY <1>0, <1>6
<1>7. ASSUME NEW f \in Fibers, asyncsleep(f) \/ sleep_cb(f) \/ SleepReturns(f)
      PROVE  /\ UNCHANGED <<refs, held>>
             /\ \A g \in Fibers : pc'[g] = "watch" <=> pc[g] = "watch"
             /\ \A g \in Fibers : pc[g] = "watch" => on'[g] = on[g]
  <2>1. UNCHANGED <<refs, held, on>>
    BY <1>7 DEF asyncsleep, sleep_cb, SleepReturns
  <2>2. \/ pc' = pc
        \/ pc[f] # "watch" /\ \E x \in {"sleep", "run"} : pc' = [pc EXCEPT ![f] = x]
    BY <1>7 DEF asyncsleep, sleep_cb, SleepReturns, AwaitSuspend, AwaitResume, MayCall
  <2> QED
    BY <1>0, <2>1, <2>2
<1>8. ASSUME \/ \E w \in Watchers, events \in SUBSET Sides : Trigger(w, events)
             \/ TriggerTurn \/ TriggerSide \/ TriggerEnds \/ DisposeSleeper
      PROVE  /\ UNCHANGED <<refs, held>>
             /\ \A g \in Fibers : pc'[g] = "watch" <=> pc[g] = "watch"
             /\ \A g \in Fibers : pc[g] = "watch" => on'[g] = on[g]
  <2>1. UNCHANGED <<refs, held, on>>
    BY <1>8 DEF Trigger, TriggerTurn, TriggerSide, TriggerEnds, DisposeSleeper
  <2>2. pc' = pc \/ \E x \in {"trigger", "run"} : pc' = [pc EXCEPT ![Runner] = x]
    BY <1>8 DEF Trigger, TriggerTurn, TriggerSide, TriggerEnds, DisposeSleeper, schedVars
  <2> QED
    BY <1>0, <2>1, <2>2
<1>9. ASSUME shutdown
      PROVE  /\ UNCHANGED <<refs, held>>
             /\ \A g \in Fibers : pc'[g] = "watch" <=> pc[g] = "watch"
             /\ \A g \in Fibers : pc[g] = "watch" => on'[g] = on[g]
  <2>1. UNCHANGED <<refs, held>> /\ pc[cur] \in {"close", "shutdown"} /\ cur \in Fibers
    BY <1>0, <1>9 DEF shutdown
  <2>2. \/ UNCHANGED <<pc, on>>
        \/ /\ on' = [on EXCEPT ![cur] = <<None, "read">>]
           /\ \E x \in {"run", "dispose"} : pc' = [pc EXCEPT ![cur] = x]
    BY <1>9 DEF shutdown
  <2> QED
    BY <1>0, <2>1, <2>2
<1>10. ASSUME UNCHANGED watchVars,
              \/ dispatch_tasks
              \/ \E t \in Tasks : run_task_fiber(t)
              \/ async_task_scheduler_dispose
              \/ run_scheduler_fiber(Alive)
              \/ DisposeDrain({w \in Watchers : ~closed[w]} \cup Range(sleepers))
              \/ \E f \in Fibers \cup {Runner} : CancelInvoke(f)
              \/ CancelLoop
       PROVE  /\ UNCHANGED <<refs, held>>
              /\ \A g \in Fibers : pc'[g] = "watch" <=> pc[g] = "watch"
              /\ \A g \in Fibers : pc[g] = "watch" => on'[g] = on[g]
  <2>1. UNCHANGED <<refs, held, on>>
    BY <1>10 DEF watchVars
  <2>2. \/ pc' = pc
        \/ \E f \in Fibers \cup {Runner} : /\ pc[f] # "watch"
                       /\ \E x \in Places \ {"watch"} : pc' = [pc EXCEPT ![f] = x]
    <3>1. CASE dispatch_tasks
      BY <3>1 DEF dispatch_tasks
    <3>2. CASE \E t \in Tasks : run_task_fiber(t)
      BY <1>0, <3>2 DEF run_task_fiber, Places
    <3>3. CASE async_task_scheduler_dispose
      BY <1>0, <3>3 DEF async_task_scheduler_dispose, Places
    <3>4. CASE run_scheduler_fiber(Alive)
      <4>1. pc[Root] # "watch" /\ \E x \in {"done", "dispose"} : pc' = [pc EXCEPT ![Root] = x]
        BY <3>4 DEF run_scheduler_fiber
      <4> QED
        BY <1>0, <4>1 DEF Places
    <3>5. CASE DisposeDrain({w \in Watchers : ~closed[w]} \cup Range(sleepers))
      BY <1>0, <3>5 DEF DisposeDrain, Places
    <3>6. CASE \E f \in Fibers \cup {Runner} : CancelInvoke(f)
      <4>1. PICK f \in Fibers \cup {Runner} : CancelInvoke(f)
        BY <3>6
      <4>2. pc[f] # "watch" /\ pc' = [pc EXCEPT ![f] = "cancel"]
        BY <4>1 DEF CancelInvoke, MayCall
      <4> QED
        BY <4>2 DEF Places
    <3>7. CASE CancelLoop
      <4>1. pc[cur] # "watch" /\ (pc' = pc \/ pc' = [pc EXCEPT ![cur] = "run"])
        BY <3>7 DEF CancelLoop
      <4> QED
        BY <1>0, <4>1 DEF Places
    <3> QED
      BY <1>10, <3>1, <3>2, <3>3, <3>4, <3>5, <3>6, <3>7
  <2> QED
    BY <1>6, <2>1, <2>2 DEF Places
<1>11. {"read"} \in SUBSET Sides /\ External \subseteq Watchers
  BY DEF Sides, External
<1> QED
  BY <1>1, <1>3, <1>4, <1>5, <1>7, <1>8, <1>9, <1>10, <1>11 DEF Next, Internal

\* With fewer fibers than the count can tell apart (ref_count is a zend_uchar)
\* a handle is referenced exactly while a foreground fiber awaits on it.
THEOREM ReferencesExact ==
  ASSUME Cardinality(Fibers) < RefModulus
  PROVE  Spec => []HeldByForeground
<1>1. Init => Counted
  <2>1. SUFFICES ASSUME Init PROVE Counted
    OBVIOUS
  <2>2. \A w \in Watchers : Inside(w) = {}
    BY <2>1 DEF Init, SchedInit, Inside
  <2>3. \A w \in Watchers : refs[w] = 0 /\ w \notin held
    BY <2>1 DEF Init
  <2> QED
    BY <2>2, <2>3, FS_EmptySet DEF Counted
<1>2. IInv /\ Counted /\ [Next]_vars => Counted'
  BY CountedNext
<1>3. IInv /\ Counted => HeldByForeground
  <2>1. SUFFICES ASSUME Counted, NEW w \in Watchers
                 PROVE  w \in held <=> Inside(w) # {}
    BY DEF HeldByForeground, Inside
  <2>2. Cardinality(Inside(w)) = 0 <=> Inside(w) = {}
    BY InsideFinite, FS_EmptySet
  <2>3. Cardinality(Inside(w)) \in Nat
    BY InsideFinite
  <2> QED
    BY <2>1, <2>2, <2>3 DEF Counted
<1> QED
  BY <1>1, <1>2, <1>3, Invariant, PTL DEF Spec

=============================================================================
