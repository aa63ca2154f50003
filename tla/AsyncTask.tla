----------------------------- MODULE AsyncTask -----------------------------
(***************************************************************************)
(* Dao\Async\Task (ext/async/task.c): Task::await and the two ways a task  *)
(* is executed.  A task that is dispatched by the loop gets a native fiber *)
(* of its own.  A task that is awaited before it has one is executed       *)
(* inline: its callback is called on the stack of the awaiting fiber, and  *)
(* an await made by the callback suspends that whole fiber.  When the      *)
(* callback returns a task, the inlined task awaits that one before it     *)
(* settles.                                                                *)
(*                                                                         *)
(* A task settles once its callback returns and then completes the         *)
(* operations of those who await it, in order, resuming each at once.      *)
(* What makes a task take time is a timer (watcher/timer.c) of its own.    *)
(***************************************************************************)
EXTENDS AsyncScheduler

CONSTANTS
  Handles,     \* Handles[b]: the tasks that the code of b holds and may await
  MaxAwaits,   \* bound on the awaits of one task
  Chained      \* the tasks whose callback may return a task

ASSUME TaskAssumption ==
  /\ Handles \in [Fibers -> SUBSET Tasks]
  /\ MaxAwaits \in Nat
  /\ Chained \subseteq Tasks

VARIABLES
  operations,  \* task->operations: whose operation awaits the task
  target,      \* the task that each fiber, or inlined task, awaits
  stack,       \* the tasks executed inline on each fiber, innermost last
  returned,    \* the positions of stack[f] whose callback has returned a task
  native,      \* the tasks with task->fiber # NULL
  gone,        \* the inlined tasks with ASYNC_TASK_FLAG_DISPOSED
  runs,        \* history: how often the callback of each task was called
  awaits       \* history: how often each task was awaited

taskVars == <<operations, target, stack, returned, native, gone, runs, awaits>>
vars == <<schedVars, taskVars>>

Done(t) == status[t] \in {"FINISHED", "FAILED"}

TaskTypeOK ==
  /\ cur \in Fibers \cup {Runner}
  /\ fibers \in Seq(Fibers \cup {Runner})
  /\ ready \in Seq(Tasks)
  /\ status \in [Fibers -> TaskStatus]
  /\ pc \in [Fibers \cup {Runner} -> {"run", "sleep", "await", "chain", "nested",
                                      "return", "throw", "trigger", "null",
                                      "drain", "dispose", "done"}]
  /\ op \in [Fibers -> OpStatus]
  /\ busy \in Nat
  /\ operations \in [Tasks -> Seq(Fibers)]
  /\ target \in [Fibers -> Tasks \cup {Root}]
  /\ stack \in [Fibers -> Seq(Tasks)]
  /\ returned \in [Fibers -> SUBSET Nat]
  /\ native \subseteq Tasks
  /\ gone \subseteq Tasks

Init ==
  /\ SchedInit
  /\ operations = [t \in Tasks |-> <<>>]
  /\ target = [f \in Fibers |-> Root]
  /\ stack = [f \in Fibers |-> <<>>]
  /\ returned = [f \in Fibers |-> {}]
  /\ native = {}
  /\ gone = {}
  /\ runs = [t \in Tasks |-> 0]
  /\ awaits = [t \in Tasks |-> 0]

-----------------------------------------------------------------------------

\* The code that fiber f executes: its own, or that of the innermost task
\* inlined on it, whose context is then the current one.
Body(f) == IF stack[f] = <<>> THEN f ELSE Last(stack[f])

Enter(b) == busy' = IF b \in Background THEN busy ELSE busy + 1
Exit(b)  == busy' = IF b \in Background THEN busy ELSE busy - 1

MayAwait(f, t) ==
  /\ MayCall(f) /\ Call(f)
  /\ ~disposed
  /\ t \in Handles[Body(f)]
  /\ awaits[t] < MaxAwaits

Awaited(t) == awaits' = [awaits EXCEPT ![t] = @ + 1]

\* Mutant: the inlined task stays on the ready list.
InlineKeepsReady(f, t) ==
  /\ t \notin native
  /\ ready' = ready
  /\ status' = [status EXCEPT ![t] = "RUNNING"]
  /\ stack' = [stack EXCEPT ![f] = Append(@, t)]
  /\ runs' = [runs EXCEPT ![t] = @ + 1]
  /\ Enter(Body(f))
  /\ Awaited(t)
  /\ UNCHANGED <<cur, fibers, op, defer, callbacks, triggered, disposed,
                 operations, target, returned, native, gone>>

\* async_task_execute_inline up to the call of the callback.  The only guard
\* is that the task has no fiber, which stays true while and after it runs.
async_task_execute_inline(f, t) ==
  /\ t \notin native
  /\ ready' = ASYNC_LIST_REMOVE(ready, t)
  /\ status' = [status EXCEPT ![t] = "RUNNING"]
  /\ stack' = [stack EXCEPT ![f] = Append(@, t)]
  /\ runs' = [runs EXCEPT ![t] = @ + 1]
  /\ Enter(Body(f))
  /\ Awaited(t)
  /\ UNCHANGED <<cur, fibers, op, defer, callbacks, triggered, disposed,
                 operations, target, returned, native, gone>>

AwaitInlines(f, t) ==
  /\ MayAwait(f, t)
  /\ async_task_execute_inline(f, t)
  /\ UNCHANGED pc

\* The code that awaits the i-th task inlined on fiber f.
Caller(f, i) == IF i = 1 THEN f ELSE stack[f][i - 1]

\* The innermost task inlined on fiber f settles and leaves the stack.  The
\* await below it returns or throws: to the code that called await, or to the
\* task whose callback returned the one that settles.
InlineSettles(f, outcome) ==
  /\ status' = [status EXCEPT ![Last(stack[f])] = outcome]
  /\ gone' = gone \cup {Last(stack[f])}
  /\ stack' = [stack EXCEPT ![f] = Front(@)]
  /\ pc' = [pc EXCEPT ![f] = IF Len(stack[f]) - 1 \notin returned[f] THEN "run"
                             ELSE IF outcome = "FINISHED" THEN "return" ELSE "throw"]
  /\ UNCHANGED <<cur, fibers, ready, op, defer, callbacks, triggered, disposed,
                 calls, operations, target, native, runs, awaits>>

\* The callback of the innermost inlined task returns something else than a
\* task, or throws (as does the await of a task that has settled before).
InlineReturns(f, outcome) ==
  /\ cur = f /\ pc[f] = "run" /\ stack[f] # <<>>
  /\ InlineSettles(f, outcome)
  /\ Exit(Caller(f, Len(stack[f])))
  /\ UNCHANGED returned

\* It returns task u.  The busy count of the code below is released before u
\* is awaited.
InlineReturnsTask(f, u) ==
  /\ MayAwait(f, u)
  /\ stack[f] # <<>>
  /\ LET t == Last(stack[f]) IN
     /\ t \in Chained \ gone
     /\ target' = [target EXCEPT ![t] = u]
  /\ returned' = [returned EXCEPT ![f] = @ \cup {Len(stack[f])}]
  /\ Exit(Caller(f, Len(stack[f])))
  /\ pc' = [pc EXCEPT ![f] = "chain"]
  /\ UNCHANGED <<cur, fibers, ready, status, op, defer, callbacks, triggered,
                 disposed, operations, stack, native, gone, runs, awaits>>

\* The await of the returned task.  One without a fiber is executed inline, too.
ChainInlines(f) ==
  /\ cur = f /\ pc[f] = "chain"
  /\ async_task_execute_inline(f, target[Last(stack[f])])
  /\ pc' = [pc EXCEPT ![f] = "run"]
  /\ UNCHANGED calls

ChainSettled(f) ==
  /\ cur = f /\ pc[f] = "chain"
  /\ LET u == target[Last(stack[f])] IN
     /\ u \in native /\ Done(u)
     /\ Awaited(u)
     /\ pc' = [pc EXCEPT ![f] = IF status[u] = "FINISHED" THEN "return" ELSE "throw"]
  /\ UNCHANGED <<cur, fibers, ready, status, op, defer, busy, callbacks,
                 triggered, disposed, calls, operations, target, stack,
                 returned, native, gone, runs>>

\* await is called for the inlined task t itself, so the operation that
\* suspends fiber f is to be continued on the fiber of t.
ChainSuspends(f) ==
  /\ cur = f /\ pc[f] = "chain"
  /\ LET t == Last(stack[f])
         u == target[t] IN
     /\ u \in native /\ ~Done(u)
     /\ Awaited(u)
     /\ op' = [op EXCEPT ![t] = "RUNNING"]
     /\ operations' = [operations EXCEPT ![u] = Append(@, t)]
  /\ Enter(Body(f))
  /\ pc' = [pc EXCEPT ![f] = "nested"]
  /\ async_fiber_suspend
  /\ UNCHANGED <<ready, status, defer, callbacks, triggered, disposed, calls,
                 target, stack, returned, native, gone, runs>>

\* The await of the returned task ends, and the inlined task settles with it.
ChainReturns(f) ==
  /\ cur = f /\ pc[f] \in {"return", "throw"}
  /\ InlineSettles(f, IF pc[f] = "return" THEN "FINISHED" ELSE "FAILED")
  /\ returned' = [returned EXCEPT ![f] = @ \ {Len(stack[f])}]
  /\ UNCHANGED busy

\* A settled task has its result at hand.
AwaitSettled(f, t) ==
  /\ MayAwait(f, t) /\ Awaited(t)
  /\ t \in native /\ Done(t)
  /\ UNCHANGED <<cur, fibers, ready, status, pc, op, defer, busy, callbacks,
                 triggered, disposed, operations, target, stack, returned,
                 native, gone, runs>>

\* Otherwise the fiber registers with the task and suspends; the status of
\* its own task stays RUNNING, and no cancellation is registered.
AwaitSuspends(f, t) ==
  /\ MayAwait(f, t) /\ Awaited(t)
  /\ t \in native /\ ~Done(t)
  /\ op' = [op EXCEPT ![f] = "RUNNING"]
  /\ target' = [target EXCEPT ![f] = t]
  /\ operations' = [operations EXCEPT ![t] = Append(@, f)]
  /\ Enter(Body(f))
  /\ pc' = [pc EXCEPT ![f] = "await"]
  /\ async_fiber_suspend
  /\ UNCHANGED <<ready, status, defer, callbacks, triggered, disposed, stack,
                 returned, native, gone, runs>>

\* Mutant: the busy count is released for the fiber, not for the context.
AwaitExitsFiber(f) ==
  /\ cur = f /\ pc[f] = "await" /\ Settled(f)
  /\ op' = [op EXCEPT ![f] = "PENDING"]
  /\ pc' = [pc EXCEPT ![f] = "run"]
  /\ Exit(f)
  /\ UNCHANGED <<cur, fibers, ready, status, defer, callbacks, triggered,
                 disposed, calls, taskVars>>

AwaitReturns(f) ==
  /\ cur = f /\ pc[f] = "await" /\ Settled(f)
  /\ op' = [op EXCEPT ![f] = "PENDING"]
  /\ pc' = [pc EXCEPT ![f] = "run"]
  /\ Exit(Body(f))
  /\ UNCHANGED <<cur, fibers, ready, status, defer, callbacks, triggered,
                 disposed, calls, taskVars>>

\* Timer::awaitTimeout: the fiber waits for the loop.
Sleeping == {f \in Fibers : pc[f] = "sleep"}

awaitTimeout(f) ==
  /\ MayCall(f) /\ Call(f)
  /\ ~disposed
  /\ op' = [op EXCEPT ![f] = "RUNNING"]
  /\ status' = [status EXCEPT ![f] = "SUSPENDED"]
  /\ pc' = [pc EXCEPT ![f] = "sleep"]
  /\ async_fiber_suspend
  /\ UNCHANGED <<ready, defer, busy, callbacks, triggered, disposed, taskVars>>

\* The loop fires the timer, or the disposal of the scheduler closes it.
trigger_timer(f) ==
  /\ f \in Sleeping /\ op[f] = "RUNNING"
  /\ \/ cur = Runner /\ pc[Runner] = "run" /\ reschedule_task(f, "RESOLVED")
     \/ cur = Root /\ pc[Root] = "dispose" /\ reschedule_task(f, "FAILED")
  /\ UNCHANGED <<pc, defer, busy, callbacks, triggered, disposed, calls, taskVars>>

TimeoutReturns(f) ==
  /\ cur = f /\ pc[f] = "sleep" /\ Settled(f)
  /\ op' = [op EXCEPT ![f] = "PENDING"]
  /\ pc' = [pc EXCEPT ![f] = "run"]
  /\ UNCHANGED <<cur, fibers, ready, status, defer, busy, callbacks, triggered,
                 disposed, calls, taskVars>>

\* The loop gives the first ready task a fiber.
DispatchNew ==
  /\ dispatch_tasks
  /\ native' = native \cup {Head(ready)}
  /\ runs' = [runs EXCEPT ![Head(ready)] = @ + 1]
  /\ UNCHANGED <<operations, target, stack, returned, gone, awaits>>

\* The callback of a dispatched task returns or throws.
TaskReturns(t, outcome) ==
  /\ cur = t /\ pc[t] = "run" /\ stack[t] = <<>>
  /\ status' = [status EXCEPT ![t] = outcome]
  /\ pc' = [pc EXCEPT ![t] = "trigger"]
  /\ UNCHANGED <<cur, fibers, ready, op, defer, busy, callbacks, triggered,
                 disposed, calls, taskVars>>

OutcomeOf(t) == IF status[t] = "FINISHED" THEN "RESOLVED" ELSE "FAILED"

\* Mutant: only the first operation is completed.
TriggerFirst(t) ==
  /\ cur = t /\ pc[t] = "trigger"
  /\ pc' = [pc EXCEPT ![t] = "done"]
  /\ IF operations[t] = <<>> \/ Head(operations[t]) \notin native \cup {Root}
     THEN async_fiber_suspend /\ UNCHANGED <<ready, status, op, operations>>
     ELSE /\ operations' = [operations EXCEPT ![t] = Tail(@)]
          /\ op' = [op EXCEPT ![Head(operations[t])] = OutcomeOf(t)]
          /\ cur' = Head(operations[t])
          /\ UNCHANGED <<fibers, ready, status>>
  /\ UNCHANGED <<defer, busy, callbacks, triggered, disposed, calls, target,
                 stack, returned, native, gone, runs, awaits>>

\* Mutant: a failed task resolves those who await it.
TriggerResolves(t) ==
  /\ cur = t /\ pc[t] = "trigger" /\ operations[t] # <<>>
  /\ Head(operations[t]) \in native \cup {Root}
  /\ operations' = [operations EXCEPT ![t] = Tail(@)]
  /\ reschedule_task(Head(operations[t]), "RESOLVED")
  /\ UNCHANGED <<pc, defer, busy, callbacks, triggered, disposed, calls, target,
                 stack, returned, native, gone, runs, awaits>>

\* One turn of the loop of trigger_ops; after the last the fiber leaves.  The
\* operation of an inlined task is continued on a fiber that does not exist.
trigger_ops(t) ==
  /\ cur = t /\ pc[t] = "trigger"
  /\ IF operations[t] = <<>>
     THEN /\ pc' = [pc EXCEPT ![t] = "done"]
          /\ async_fiber_suspend
          /\ UNCHANGED <<ready, status, op, operations>>
     ELSE /\ operations' = [operations EXCEPT ![t] = Tail(@)]
          /\ IF Head(operations[t]) \in native \cup {Root}
             THEN /\ reschedule_task(Head(operations[t]), OutcomeOf(t))
                  /\ UNCHANGED pc
             ELSE /\ pc' = [pc EXCEPT ![t] = "null"]
                  /\ UNCHANGED <<cur, fibers, ready, status, op>>
  /\ UNCHANGED <<defer, busy, callbacks, triggered, disposed, calls, target,
                 stack, returned, native, gone, runs, awaits>>

Next ==
  \/ \E f \in Fibers, t \in Tasks : \/ AwaitInlines(f, t)
                                    \/ InlineReturnsTask(f, t)
                                    \/ AwaitSettled(f, t)
                                    \/ AwaitSuspends(f, t)
  \/ \E f \in Fibers : \/ ChainInlines(f) \/ ChainSettled(f)
                       \/ ChainSuspends(f) \/ ChainReturns(f)
                       \/ AwaitReturns(f)
                       \/ awaitTimeout(f) \/ trigger_timer(f) \/ TimeoutReturns(f)
  \/ \E f \in Fibers, o \in {"FINISHED", "FAILED"} : InlineReturns(f, o)
  \/ \E t \in Tasks, o \in {"FINISHED", "FAILED"} : TaskReturns(t, o)
  \/ \E t \in Tasks : trigger_ops(t)
  \/ DispatchNew
  \/ /\ \/ stack[Root] = <<>> /\ async_task_scheduler_dispose
        \/ run_scheduler_fiber({f \in Sleeping : Body(f) \notin Background})
        \/ DisposeDrain(Sleeping)
     /\ UNCHANGED taskVars

Spec == Init /\ [][Next]_vars

\* The fiber that has the CPU always goes on.
FairSpec == Spec /\ WF_vars(Next)

-----------------------------------------------------------------------------
(***************************************************************************)
(* Properties.                                                             *)
(***************************************************************************)
\* Where task t is executed inline: the fiber and the position in its stack.
Inlined(t) ==
  UNION {{f} \X {i \in DOMAIN stack[f] : stack[f][i] = t} : f \in Fibers}

\* A task that is awaited at most once is executed in exactly one place: it
\* is ready, or it has a fiber, or it is on the stack of one other fiber, or
\* it was executed inline and settled.  Only the inline execution of a task
\* that is awaited again adds a place, and a callback only ever runs again for
\* such a task.
OneExecution ==
  \A t \in Tasks :
    /\ Cardinality(Inlined(t)) + (IF t \in Range(ready) THEN 1 ELSE 0)
         + (IF t \in native THEN 1 ELSE 0) <= IF awaits[t] > 1 THEN awaits[t] ELSE 1
    /\ t \in native => runs[t] = 1 /\ Inlined(t) = {}
    /\ runs[t] > 1 => awaits[t] > 1

\* Whoever is suspended in await is registered exactly once, with the task it
\* awaits, and that task has not yet left its trigger loop; so nobody waits
\* for a task that is over.
NoLostAwaiter ==
  \A f \in Fibers :
    (pc[f] = "await" /\ op[f] = "RUNNING") =>
      /\ Cardinality({i \in DOMAIN operations[target[f]] :
                        operations[target[f]][i] = f}) = 1
      /\ target[f] \in native /\ pc[target[f]] # "done"

\* The outcome that an awaiter takes is that of the task it awaits.
AwaitedOutcome ==
  \A f \in Fibers :
    pc[f] = "await" /\ Settled(f) =>
      Done(target[f]) /\ op[f] = OutcomeOf(target[f])

\* The fibers that wait, and the bodies below an inlined task whose callback
\* has not returned, in a foreground context.
Suspended == {f \in Fibers : pc[f] \in {"await", "nested"} /\ Body(f) \notin Background}
Calling ==
  UNION {{f} \X {i \in DOMAIN stack[f] \ returned[f] : Caller(f, i) \notin Background} :
           f \in Fibers}

\* The busy count is the number of foreground bodies that wait in an await, or
\* for the callback of a task that is executed inline on top of them.  A body
\* below an inlined task that awaits the task its callback returned is not
\* counted any more, although it waits: then only the context of the inlined
\* task counts, and for one in the background nothing does.
BusyBalanced == busy = Cardinality(Suspended) + Cardinality(Calling)

\* "Mark task fiber as suspended to avoid duplicate inlining attempts"
\* (async_task_execute_inline): the callback of a task is called once.
RunsOnce == \A t \in Tasks : runs[t] <= 1

\* Every await returns when the tasks do not await each other in a circle
\* (unless the program ends in the switch to a missing fiber).
AwaitEnds ==
  \A f \in Fibers :
    pc[f] = "await" ~> (pc[f] # "await" \/ \E t \in Tasks : pc[t] = "null")
=============================================================================
