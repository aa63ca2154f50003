--------------------------- MODULE AsyncScheduler ---------------------------
(***************************************************************************)
(* The cooperative scheduler of ext/async (task.c, fiber/asm.c, and the    *)
(* cancellation half of context.c): one OS thread, one native fiber per    *)
(* task, the fiber of the main script (Root) and the fiber that runs the   *)
(* libuv loop (Runner).                                                    *)
(*                                                                         *)
(* Exactly one fiber runs at a time.  Completing an operation resumes the  *)
(* fiber that awaits it AT ONCE, inside the call that completed it: the    *)
(* completing fiber is pushed on scheduler->fibers and continues only when *)
(* the resumed one suspends again.  A library loop ("while the list is not *)
(* empty, complete its first operation") is therefore interrupted after    *)
(* every element, and arbitrary user code runs in the middle of it.        *)
(*                                                                         *)
(* A component (Condition, Channel, ...) extends this module, adds its own *)
(* state and uses the operators below; pc[f] is where fiber f continues:   *)
(* "run" is user code, any other value is the library code that follows a  *)
(* call of async_await_op or a turn of a loop.  Each fiber awaits at most  *)
(* one operation, so the operation is identified with the fiber.           *)
(***************************************************************************)
EXTENDS Naturals, FiniteSets, SequencesExt

CONSTANTS
  Tasks,        \* the tasks, already created with Task::async and enqueued
  Root,         \* the fiber of the main script
  Runner,       \* the fiber that runs the event loop
  Background,   \* the tasks whose context is a background context
  Cancellable,  \* the fibers whose context carries the one cancellation scope
  MaxCalls      \* MaxCalls[f] bounds the library calls fiber f makes

Fibers == Tasks \cup {Root}

ASSUME SchedulerAssumption ==
  /\ IsFiniteSet(Tasks)
  /\ Root \notin Tasks
  /\ Runner \notin Fibers
  /\ Background \subseteq Tasks
  /\ Cancellable \subseteq Fibers
  /\ MaxCalls \in [Fibers -> Nat]

VARIABLES
  cur,        \* ASYNC_G(fiber), the fiber that has the CPU
  fibers,     \* scheduler->fibers: interrupted fibers, innermost first
  ready,      \* scheduler->ready: tasks to dispatch, in order
  status,     \* task->status (nothing reads the one of the root fiber)
  pc,         \* where each fiber continues
  op,         \* status of the operation each fiber awaits
  defer,      \* the fibers whose operation carries ASYNC_OP_FLAG_DEFER
  busy,       \* scheduler->busy_count
  callbacks,  \* cancel->callbacks of the cancellation scope
  triggered,  \* ASYNC_CONTEXT_CANCELLATION_FLAG_TRIGGERED
  disposed,   \* ASYNC_TASK_SCHEDULER_FLAG_DISPOSED
  calls       \* library calls made so far by each fiber (bound)

schedVars == <<cur, fibers, ready, status, pc, op, defer, busy, callbacks,
               triggered, disposed, calls>>

TaskStatus == {"INIT", "SUSPENDED", "RUNNING", "FINISHED", "FAILED"}
OpStatus   == {"PENDING", "RUNNING", "RESOLVED", "FAILED"}

Settled(f) == op[f] \in {"RESOLVED", "FAILED"}

SchedTypeOK ==
  /\ cur \in Fibers \cup {Runner}
  /\ fibers \in Seq(Fibers \cup {Runner})
  /\ ready \in Seq(Fibers)
  /\ status \in [Fibers -> TaskStatus]
  /\ op \in [Fibers -> OpStatus]
  /\ defer \subseteq Fibers
  /\ busy \in Nat
  /\ callbacks \in Seq(Fibers)
  /\ triggered \in BOOLEAN
  /\ disposed \in BOOLEAN
  /\ calls \in [Fibers -> Nat]
  /\ \A f \in Fibers : calls[f] <= MaxCalls[f]

(***************************************************************************)
(* The main script has created the tasks, in some order, and still runs.   *)
(***************************************************************************)
SchedInit ==
  /\ cur = Root
  /\ fibers = <<>>
  /\ ready \in [1..Cardinality(Tasks) -> Tasks] /\ IsInjective(ready)
  /\ status = [f \in Fibers |-> IF f = Root THEN "SUSPENDED" ELSE "INIT"]
  /\ pc = [f \in Fibers \cup {Runner} |-> "run"]
  /\ op = [f \in Fibers |-> "PENDING"]
  /\ defer = {}
  /\ busy = 0
  /\ callbacks = <<>>
  /\ triggered = FALSE
  /\ disposed = FALSE
  /\ calls = [f \in Fibers |-> 0]

-----------------------------------------------------------------------------
\* Unlinks an element, which has no effect when it is not linked.  No list
\* of the library links an element twice.
ASYNC_LIST_REMOVE(list, e) ==
  IF e \in Range(list)
  THEN RemoveAt(list, CHOOSE i \in DOMAIN list : list[i] = e)
  ELSE list

(***************************************************************************)
(* Fiber switching.                                                        *)
(***************************************************************************)

\* The current fiber is prepended to the interrupted ones and f runs.
async_fiber_switch(f) ==
  /\ cur' = f
  /\ fibers' = <<cur>> \o fibers

\* The most recently interrupted fiber continues, or else the event loop.
async_fiber_suspend ==
  /\ cur' = IF fibers = <<>> THEN Runner ELSE Head(fibers)
  /\ fibers' = IF fibers = <<>> THEN fibers ELSE Tail(fibers)

\* Only a task that is new or suspended is enqueued; the root fiber always is.
CanEnqueue(f) == f = Root \/ status[f] \in {"INIT", "SUSPENDED"}

\* Completion of the operation of f: a deferred one puts the task on the
\* ready list, any other switches to its fiber at once.
reschedule_task(f, outcome) ==
  /\ op' = [op EXCEPT ![f] = outcome]
  /\ IF f \in defer
     THEN /\ ready' = IF CanEnqueue(f) THEN Append(ready, f) ELSE ready
          /\ UNCHANGED <<cur, fibers, status>>
     ELSE /\ status' = [status EXCEPT ![f] = "RUNNING"]
          /\ async_fiber_switch(f)
          /\ UNCHANGED ready

\* What makes async_await_op fail without suspending.
AwaitRefused(f) == disposed \/ (f \in Cancellable /\ triggered)

\* async_await_op up to the suspension.
AwaitSuspend(f, where) ==
  /\ op' = [op EXCEPT ![f] = "RUNNING"]
  /\ status' = [status EXCEPT ![f] = "SUSPENDED"]
  /\ callbacks' = IF f \in Cancellable THEN Append(callbacks, f) ELSE callbacks
  /\ pc' = [pc EXCEPT ![f] = where]
  /\ async_fiber_suspend

\* The same with the busy count that most callers in a foreground context keep
\* while they wait.
AwaitOp(f, where) ==
  /\ AwaitSuspend(f, where)
  /\ busy' = IF f \in Background THEN busy ELSE busy + 1

\* Mutant: the busy count is not released.
DoneKeepsBusy(f) ==
  /\ op' = [op EXCEPT ![f] = "PENDING"]
  /\ callbacks' = ASYNC_LIST_REMOVE(callbacks, f)
  /\ pc' = [pc EXCEPT ![f] = "run"]
  /\ UNCHANGED busy

\* Mutant: the cancel callback stays registered.
DoneKeepsCallback(f) ==
  /\ op' = [op EXCEPT ![f] = "PENDING"]
  /\ busy' = IF f \in Background THEN busy ELSE busy - 1
  /\ pc' = [pc EXCEPT ![f] = "run"]
  /\ UNCHANGED callbacks

\* async_await_op after the suspension, up to the release of the operation.
AwaitResume(f) ==
  /\ op' = [op EXCEPT ![f] = "PENDING"]
  /\ callbacks' = ASYNC_LIST_REMOVE(callbacks, f)
  /\ pc' = [pc EXCEPT ![f] = "run"]

AwaitDone(f) ==
  /\ AwaitResume(f)
  /\ busy' = IF f \in Background THEN busy ELSE busy - 1

\* User code of f has the CPU and may make one more library call.
MayCall(f) == cur = f /\ f \in Fibers /\ pc[f] = "run" /\ calls[f] < MaxCalls[f]
Call(f)    == calls' = [calls EXCEPT ![f] = @ + 1]

-----------------------------------------------------------------------------
(***************************************************************************)
(* Steps of the scheduler itself.                                          *)
(***************************************************************************)

\* Mutant: the dispatched task stays on the ready list.
DispatchKeeps ==
  /\ cur = Runner /\ pc[Runner] = "run" /\ ready # <<>>
  /\ status' = [status EXCEPT ![Head(ready)] = "RUNNING"]
  /\ async_fiber_switch(Head(ready))
  /\ UNCHANGED <<ready, pc, op, defer, busy, callbacks, triggered, disposed,
                 calls>>

\* The idle callback of the loop takes the first ready task and switches to
\* its fiber, which is created when the task is new.
dispatch_tasks ==
  /\ cur = Runner /\ pc[Runner] = "run" /\ ready # <<>>
  /\ ready' = Tail(ready)
  /\ status' = [status EXCEPT ![Head(ready)] = "RUNNING"]
  /\ async_fiber_switch(Head(ready))
  /\ UNCHANGED <<pc, op, defer, busy, callbacks, triggered, disposed, calls>>

\* The callback of a task returns: the task is settled and its fiber leaves
\* for good.
run_task_fiber(t) ==
  /\ cur = t /\ t \in Tasks /\ pc[t] = "run"
  /\ status' = [status EXCEPT ![t] = "FINISHED"]
  /\ pc' = [pc EXCEPT ![t] = "done"]
  /\ async_fiber_suspend
  /\ UNCHANGED <<ready, op, defer, busy, callbacks, triggered, disposed, calls>>

\* The main script ends: the scheduler is disposed, which first runs the loop
\* until nothing keeps it alive.
async_task_scheduler_dispose ==
  /\ cur = Root /\ pc[Root] = "run"
  /\ pc' = [pc EXCEPT ![Root] = "drain"]
  /\ async_fiber_suspend
  /\ UNCHANGED <<ready, status, op, defer, busy, callbacks, triggered,
                 disposed, calls>>

\* uv_run returns because nothing is ready, no foreground operation is pending
\* and no timer of the component is armed: the loop fiber switches back to the
\* caller without queueing itself.  The first return marks the scheduler as
\* disposed and starts the shutdown callbacks, the second ends the program.
run_scheduler_fiber(timers) ==
  /\ cur = Runner /\ pc[Runner] = "run" /\ pc[Root] = "drain"
  /\ ready = <<>> /\ busy = 0 /\ timers = {}
  /\ cur' = Root
  /\ disposed' = TRUE
  /\ pc' = [pc EXCEPT ![Root] = IF disposed THEN "done" ELSE "dispose"]
  /\ UNCHANGED <<fibers, ready, status, op, defer, busy, callbacks, triggered,
                 calls>>

\* No shutdown callback is left to call: the loop runs once more.
DisposeDrain(shutdown) ==
  /\ cur = Root /\ pc[Root] = "dispose" /\ shutdown = {}
  /\ pc' = [pc EXCEPT ![Root] = "drain"]
  /\ async_fiber_suspend
  /\ UNCHANGED <<ready, status, op, defer, busy, callbacks, triggered,
                 disposed, calls>>

\* CancellationHandler::__invoke called by a fiber, or the timeout of the
\* context fired by the loop; a scope is triggered once.
CancelInvoke(f) ==
  /\ \/ MayCall(f) /\ Call(f)
     \/ f = Runner /\ cur = Runner /\ pc[Runner] = "run" /\ UNCHANGED calls
  /\ ~triggered
  /\ triggered' = TRUE
  /\ pc' = [pc EXCEPT ![f] = "cancel"]
  /\ UNCHANGED <<cur, fibers, ready, status, op, defer, busy, callbacks,
                 disposed>>

\* Mutant: an operation is cancelled whatever its status.
CancelsSettled ==
  /\ pc[cur] = "cancel" /\ callbacks # <<>>
  /\ callbacks' = Tail(callbacks)
  /\ op' = [op EXCEPT ![Head(callbacks)] = "FAILED"]
  /\ UNCHANGED <<cur, fibers, ready, status, pc, defer, busy, triggered,
                 disposed, calls>>

\* One turn of the loop over cancel->callbacks; cancel_op ignores an operation
\* that is no longer running.
CancelLoop ==
  /\ pc[cur] = "cancel"
  /\ UNCHANGED <<defer, busy, triggered, disposed, calls>>
  /\ IF callbacks = <<>>
     THEN /\ pc' = [pc EXCEPT ![cur] = "run"]
          /\ UNCHANGED <<cur, fibers, ready, status, op, callbacks>>
     ELSE /\ callbacks' = Tail(callbacks)
          /\ UNCHANGED pc
          /\ IF op[Head(callbacks)] = "RUNNING"
             THEN reschedule_task(Head(callbacks), "FAILED")
             ELSE UNCHANGED <<cur, fibers, ready, status, op>>

-----------------------------------------------------------------------------
(***************************************************************************)
(* Properties every component's specification has.                         *)
(***************************************************************************)

\* Where a fiber can be: it runs, it was interrupted, it is on the ready list,
\* it waits for an operation that is still running (the root fiber also while
\* it runs the loop), or it has ended.
Residence(f) ==
  {p \in {"cur", "fibers", "ready", "waits", "ended"} :
     \/ p = "cur"    /\ cur = f
     \/ p = "fibers" /\ f \in Range(fibers)
     \/ p = "ready"  /\ f \in Range(ready)
     \/ p = "waits"  /\ f \notin Range(ready) /\ f # cur
                     /\ (op[f] = "RUNNING" \/ pc[f] = "drain")
     \/ p = "ended"  /\ pc[f] = "done" /\ cur # f}

\* A fiber is in exactly one place.  In two it would be resumed twice on one
\* native stack (async_fiber_switch); in none it is lost although its operation
\* completed.  The loop fiber is interrupted below every other one, so the loop
\* only continues when every interrupted fiber has continued before (the
\* destructor of the scheduler asserts fibers.first == NULL).
OnePlace ==
  /\ IsInjective(fibers) /\ IsInjective(ready)
  /\ \A f \in Fibers : Cardinality(Residence(f)) = 1
  /\ cur = Runner => fibers = <<>>
  /\ \A i \in DOMAIN fibers : fibers[i] = Runner => i = Len(fibers)

\* scheduler->busy_count is the number of foreground fibers that are inside a
\* blocking call.  If it drifted up the loop would never end, if it drifted
\* down the loop would end under a fiber that still waits (and wrap below 0).
Awaiting == {"wait", "send", "recv", "select", "gsend"}

BusyExact ==
  busy = Cardinality({f \in Fibers \ Background : pc[f] \in Awaiting})

\* The program ends with nothing ready, interrupted or registered (assertions
\* of async_task_scheduler_object_destroy), and with every task finished: the
\* disposal fails whoever still waits in the background, and those tasks run
\* to their end in the second turn of the loop.
CleanEnd ==
  pc[Root] = "done" =>
    /\ ready = <<>> /\ fibers = <<>> /\ callbacks = <<>>
    /\ \A t \in Tasks : pc[t] = "done"

\* Once an operation is settled its outcome stays until the awaiting fiber has
\* taken it: a late cancellation never overwrites a result.
OutcomeStable ==
  [][\A f \in Fibers :
       Settled(f) => op'[f] \in {op[f], "PENDING"}]_schedVars
=============================================================================
