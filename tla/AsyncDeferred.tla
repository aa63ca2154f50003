--------------------------- MODULE AsyncDeferred ----------------------------
(***************************************************************************)
(* Deferred (deferred.c): a state that fibers await and that is settled by *)
(* resolve, fail, the destruction of the Deferred or the disposal of the   *)
(* scheduler; combine and transform, whose awaitables are settled by a     *)
(* continuation that is called when an input is settled; and the handler   *)
(* that a cancellation of the context calls.                               *)
(*                                                                         *)
(* trigger_ops completes the operations of a state one by one, on the      *)
(* stack of whoever settled it.  Completing the operation of a fiber runs  *)
(* that fiber at once, completing one of combine or transform calls its    *)
(* continuation, which may settle further states.  The loops are nested:   *)
(* stack[f] holds the calls that fiber f is inside of, innermost last.     *)
(*                                                                         *)
(* combine and transform take any awaitable.  Tasks are settled by their   *)
(* own loop when they end, which the disposal of the scheduler does not    *)
(* wait for, and are not on its shutdown list.                             *)
(***************************************************************************)
EXTENDS AsyncScheduler

CONSTANTS
  Plain,        \* the states of the Deferred objects of the main script
  Combined,     \* the states of awaitables made by combine
  Transformed,  \* the states of awaitables made by transform
  Outside,      \* the states of the tasks that are combined and transformed
  Inputs,       \* Inputs[c]: the awaitables that c combines, in order
  Source,       \* Source[x]: the awaitable that x transforms
  Handled       \* the Deferred objects with a cancellation handler, in order

States == Plain \cup Combined \cup Transformed \cup Outside

ASSUME DeferredAssumption ==
  /\ IsFiniteSet(States)
  /\ Plain \cap (Combined \cup Transformed) = {}
  /\ Combined \cap Transformed = {}
  /\ Outside \cap (Plain \cup Combined \cup Transformed) = {}
  /\ States \cap (Fibers \cup {Runner}) = {}
  /\ Inputs \in [Combined -> Seq(States) \ {<<>>}]
  /\ Source \in [Transformed -> States]
  /\ Handled \in Seq(Plain) /\ IsInjective(Handled)

VARIABLES
  state,      \* state->status, or "none" before the state is created
  ops,        \* state->operations: fibers, and the operations of combine and
              \* transform, each named after the state it settles
  counter,    \* combined->counter
  started,    \* combined->started
  shutdown,   \* scheduler->shutdown, in order
  handlers,   \* the handlers on cancel->callbacks (their order among the
              \* operations of fibers is left open)
  dropped,    \* the Deferred objects that have been destroyed
  on,         \* the state each fiber awaits
  stack,      \* the calls each fiber is inside of
  settled     \* history: who settled each state, "disposal" or another "call"

deferVars == <<state, ops, counter, started, shutdown, handlers, dropped, on,
               stack, settled>>
vars == <<schedVars, deferVars>>

Frames ==
  [at : {"trigger", "combine", "countdown", "transform", "handler"}, d : States]
  \cup [at : {"combining"}, d : Combined, i : Nat \ {0}]

DeferTypeOK ==
  /\ SchedTypeOK
  /\ pc \in [Fibers \cup {Runner} ->
               {"run", "await", "cancel", "drain", "dispose", "done"}]
  /\ state \in [States -> {"none", "PENDING", "RESOLVED", "FAILED"}]
  /\ ops \in [States -> Seq(Fibers \cup Combined \cup Transformed)]
  /\ counter \in [Combined -> Nat]
  /\ started \in [Combined -> Nat]
  /\ shutdown \in Seq(States) /\ IsInjective(shutdown)
  /\ handlers \in Seq(Plain)
  /\ dropped \subseteq Plain
  /\ on \in [Fibers -> States \cup {"none"}]
  /\ stack \in [Fibers -> Seq(Frames)]
  /\ settled \in [States -> Seq({"call", "disposal"})]

\* The main script has created the Deferred objects and the tasks.
Init ==
  /\ SchedInit
  /\ state = [d \in States |-> IF d \in Plain \cup Outside THEN "PENDING"
                               ELSE "none"]
  /\ ops = [d \in States |-> <<>>]
  /\ counter = [c \in Combined |-> Len(Inputs[c])]
  /\ started = counter
  /\ shutdown \in [1..Cardinality(Plain) -> Plain] /\ IsInjective(shutdown)
  /\ handlers = Handled
  /\ dropped = {}
  /\ on = [f \in Fibers |-> "none"]
  /\ stack = [f \in Fibers |-> <<>>]
  /\ settled = [d \in States |-> <<>>]

-----------------------------------------------------------------------------
(***************************************************************************)
(* The stack of library calls of a fiber.                                  *)
(***************************************************************************)
InCall(f, at) == cur = f /\ f \in Fibers /\ stack[f] # <<>> /\ Last(stack[f]).at = at
Callee(f)     == Last(stack[f]).d

Push(f, at, d)    == stack' = [stack EXCEPT ![f] = Append(@, [at |-> at, d |-> d])]
Pop(f)            == stack' = [stack EXCEPT ![f] = Front(@)]
Replace(f, at, d) == stack' = [stack EXCEPT ![f] = Append(Front(@), [at |-> at, d |-> d])]
Above(f, at, d)   == stack' = [stack EXCEPT ![f] =
                       Front(@) \o <<[at |-> at, d |-> d], [at |-> "trigger", d |-> d]>>]

\* User code has the CPU: the body of the fiber, or a continuation or a handler
\* that the library has called.
UserCode(f) ==
  /\ cur = f /\ f \in Fibers
  /\ \/ pc[f] = "run" /\ stack[f] = <<>>
     \/ stack[f] # <<>> /\ Last(stack[f]).at \in {"combine", "transform", "handler"}

CallFrom(f) == UserCode(f) /\ calls[f] < MaxCalls[f] /\ Call(f)

\* The scheduler goes on only when the library calls of the fiber are over.
Idle == cur \in Fibers => stack[cur] = <<>>

-----------------------------------------------------------------------------
(***************************************************************************)
(* Settling.                                                               *)
(***************************************************************************)

\* Mutant: the state stays on the shutdown list of the scheduler.
SettleListed(d, outcome) ==
  /\ state' = [state EXCEPT ![d] = outcome]
  /\ settled' = [settled EXCEPT ![d] = Append(@, "call")]
  /\ UNCHANGED shutdown

\* The status is set and trigger_ops begins, which takes the state off the
\* shutdown list; the caller pushes the loop.
Settle(d, outcome) ==
  /\ state' = [state EXCEPT ![d] = outcome]
  /\ settled' = [settled EXCEPT ![d] = Append(@, "call")]
  /\ shutdown' = ASYNC_LIST_REMOVE(shutdown, d)

\* Mutant: the handler stays registered.
CleanupNothing(d) == d \in States /\ UNCHANGED handlers

cleanup_cancel(d) == handlers' = ASYNC_LIST_REMOVE(handlers, d)

\* The Deferred is at hand: the object of a combine is passed to its
\* continuation.
Reachable(d) ==
  \/ d \in Plain \ dropped
  \/ d \in Combined /\ state[d] # "none" /\ started[d] < Len(Inputs[d])

\* Deferred::resolve and Deferred::fail.
resolve(f, d, outcome) ==
  /\ CallFrom(f) /\ Reachable(d)
  /\ IF state[d] # "PENDING"
     THEN UNCHANGED <<state, settled, shutdown, handlers, stack>>
     ELSE Settle(d, outcome) /\ cleanup_cancel(d) /\ Push(f, "trigger", d)
  /\ UNCHANGED <<cur, fibers, ready, status, pc, op, defer, busy, callbacks,
                 triggered, disposed, ops, counter, started, dropped, on>>

\* The last reference to a Deferred is released.
async_deferred_object_destroy(f, d) ==
  /\ CallFrom(f) /\ d \in Plain \ dropped
  /\ dropped' = dropped \cup {d}
  /\ cleanup_cancel(d)
  /\ IF state[d] # "PENDING" THEN UNCHANGED <<state, settled, shutdown, stack>>
     ELSE Settle(d, "FAILED") /\ Push(f, "trigger", d)
  /\ UNCHANGED <<cur, fibers, ready, status, pc, op, defer, busy, callbacks,
                 triggered, disposed, ops, counter, started, on>>

\* The task that fiber f executes ends (task_run_opcode_handler,
\* async_task_execute_inline) and resumes its operations with the same loop.
TaskEnds(f, u, outcome) ==
  /\ CallFrom(f) /\ stack[f] = <<>> /\ state[u] = "PENDING"
  /\ Settle(u, outcome) /\ Push(f, "trigger", u)
  /\ UNCHANGED <<cur, fibers, ready, status, pc, op, defer, busy, callbacks,
                 triggered, disposed, ops, counter, started, handlers, dropped,
                 on>>

\* One turn of the loop of trigger_ops.
trigger_ops(f) ==
  /\ InCall(f, "trigger")
  /\ LET d == Callee(f)
         e == Head(ops[d]) IN
     IF ops[d] = <<>>
     THEN /\ Pop(f)
          /\ UNCHANGED <<cur, fibers, ready, status, op, ops, started>>
     ELSE /\ ops' = [ops EXCEPT ![d] = Tail(@)]
          /\ \/ /\ e \in Fibers
                /\ reschedule_task(e, state[d])
                /\ UNCHANGED <<stack, started>>
             \/ /\ e \in Combined
                /\ started' = [started EXCEPT ![e] = @ - 1]
                /\ Push(f, "combine", e)
                /\ UNCHANGED <<cur, fibers, ready, status, op>>
             \/ /\ e \in Transformed
                /\ Push(f, "transform", e)
                /\ UNCHANGED <<cur, fibers, ready, status, op, started>>
  /\ UNCHANGED <<pc, defer, busy, callbacks, triggered, disposed, calls, state,
                 counter, shutdown, handlers, dropped, on, settled>>

-----------------------------------------------------------------------------
(***************************************************************************)
(* combine and transform.                                                  *)
(***************************************************************************)

combine(f, c) ==
  /\ CallFrom(f)
  /\ state[c] = "none" /\ \A d \in Range(Inputs[c]) : state[d] # "none"
  /\ state' = [state EXCEPT ![c] = "PENDING"]
  /\ shutdown' = Append(shutdown, c)
  /\ stack' = [stack EXCEPT ![f] = Append(@, [at |-> "combining", d |-> c, i |-> 1])]
  /\ UNCHANGED <<cur, fibers, ready, status, pc, op, defer, busy, callbacks,
                 triggered, disposed, ops, counter, started, handlers, dropped,
                 on, settled>>

\* One turn of the loop over the inputs: the continuation of a settled one is
\* called at once.
CombineInput(f) ==
  /\ InCall(f, "combining")
  /\ LET c == Callee(f)
         i == Last(stack[f]).i
         d == Inputs[c][i]
         next == Append(Front(stack[f]), [at |-> "combining", d |-> c, i |-> i + 1]) IN
     IF i > Len(Inputs[c])
     THEN Pop(f) /\ UNCHANGED <<ops, started>>
     ELSE IF state[d] = "PENDING"
     THEN /\ ops' = [ops EXCEPT ![d] = Append(@, c)]
          /\ stack' = [stack EXCEPT ![f] = next]
          /\ UNCHANGED started
     ELSE /\ started' = [started EXCEPT ![c] = @ - 1]
          /\ stack' = [stack EXCEPT ![f] = Append(next, [at |-> "combine", d |-> c])]
          /\ UNCHANGED ops
  /\ UNCHANGED <<schedVars, state, counter, shutdown, handlers, dropped, on,
                 settled>>

\* combine_cb after the continuation: an error fails a pending state.
ContinuationReturns(f, throws) ==
  /\ InCall(f, "combine")
  /\ LET c == Callee(f) IN
     IF throws /\ state[c] = "PENDING"
     THEN Settle(c, "FAILED") /\ Above(f, "countdown", c)
     ELSE Replace(f, "countdown", c) /\ UNCHANGED <<state, settled, shutdown>>
  /\ UNCHANGED <<schedVars, ops, counter, started, handlers, dropped, on>>

\* Mutant: the state stays pending after the last input.
CountdownKeeps(f) ==
  /\ InCall(f, "countdown")
  /\ counter' = [counter EXCEPT ![Callee(f)] = @ - 1]
  /\ Pop(f)
  /\ UNCHANGED <<schedVars, state, ops, started, shutdown, handlers, dropped, on,
                 settled>>

\* Mutant: the input is not counted when the continuation has settled the state.
CountdownSkips(f) ==
  /\ InCall(f, "countdown")
  /\ LET c == Callee(f)
         n == counter[c] - 1 IN
     IF state[c] # "PENDING"
     THEN Pop(f) /\ UNCHANGED <<counter, state, settled, shutdown>>
     ELSE /\ counter' = [counter EXCEPT ![c] = n]
          /\ IF n = 0
             THEN Settle(c, "FAILED") /\ Replace(f, "trigger", c)
             ELSE Pop(f) /\ UNCHANGED <<state, settled, shutdown>>
  /\ UNCHANGED <<schedVars, ops, started, handlers, dropped, on>>

\* The last input to be counted fails a state that is still pending.
CombineCountdown(f) ==
  /\ InCall(f, "countdown")
  /\ LET c == Callee(f)
         n == counter[c] - 1 IN
     /\ counter' = [counter EXCEPT ![c] = n]
     /\ IF n = 0 /\ state[c] = "PENDING"
        THEN Settle(c, "FAILED") /\ Replace(f, "trigger", c)
        ELSE Pop(f) /\ UNCHANGED <<state, settled, shutdown>>
  /\ UNCHANGED <<schedVars, ops, started, handlers, dropped, on>>

transform(f, x) ==
  /\ CallFrom(f)
  /\ state[x] = "none" /\ state[Source[x]] # "none"
  /\ state' = [state EXCEPT ![x] = "PENDING"]
  /\ shutdown' = Append(shutdown, x)
  /\ IF state[Source[x]] = "PENDING"
     THEN ops' = [ops EXCEPT ![Source[x]] = Append(@, x)] /\ UNCHANGED stack
     ELSE Push(f, "transform", x) /\ UNCHANGED ops
  /\ UNCHANGED <<cur, fibers, ready, status, pc, op, defer, busy, callbacks,
                 triggered, disposed, counter, started, handlers, dropped, on,
                 settled>>

\* transform_cb after the continuation: the status is set without a look at it.
TransformReturns(f, throws) ==
  /\ InCall(f, "transform")
  /\ Settle(Callee(f), IF throws THEN "FAILED" ELSE "RESOLVED")
  /\ Replace(f, "trigger", Callee(f))
  /\ UNCHANGED <<schedVars, ops, counter, started, handlers, dropped, on>>

-----------------------------------------------------------------------------
(***************************************************************************)
(* Task::await, cancellation handlers and the disposal of the scheduler.   *)
(***************************************************************************)

\* Mutant: the status is not looked at.
AwaitAnyway(f, d) ==
  /\ CallFrom(f) /\ stack[f] = <<>> /\ ~disposed /\ state[d] # "none"
  /\ op' = [op EXCEPT ![f] = "RUNNING"]
  /\ ops' = [ops EXCEPT ![d] = Append(@, f)]
  /\ on' = [on EXCEPT ![f] = d]
  /\ busy' = IF f \in Background THEN busy ELSE busy + 1
  /\ pc' = [pc EXCEPT ![f] = "await"]
  /\ async_fiber_suspend
  /\ UNCHANGED <<ready, status, defer, callbacks, triggered, disposed, state,
                 counter, started, shutdown, handlers, dropped, stack, settled>>

\* Not inside a continuation or a handler, not after the disposal, and not for
\* what is settled already.
await(f, d) ==
  /\ CallFrom(f) /\ stack[f] = <<>> /\ ~disposed /\ state[d] = "PENDING"
  /\ op' = [op EXCEPT ![f] = "RUNNING"]
  /\ ops' = [ops EXCEPT ![d] = Append(@, f)]
  /\ on' = [on EXCEPT ![f] = d]
  /\ busy' = IF f \in Background THEN busy ELSE busy + 1
  /\ pc' = [pc EXCEPT ![f] = "await"]
  /\ async_fiber_suspend
  /\ UNCHANGED <<ready, status, defer, callbacks, triggered, disposed, state,
                 counter, started, shutdown, handlers, dropped, stack, settled>>

AwaitReturns(f) ==
  /\ cur = f /\ pc[f] = "await" /\ Settled(f)
  /\ op' = [op EXCEPT ![f] = "PENDING"]
  /\ busy' = IF f \in Background THEN busy ELSE busy - 1
  /\ pc' = [pc EXCEPT ![f] = "run"]
  /\ on' = [on EXCEPT ![f] = "none"]
  /\ UNCHANGED <<cur, fibers, ready, status, defer, callbacks, triggered,
                 disposed, calls, state, ops, counter, started, shutdown,
                 handlers, dropped, stack, settled>>

\* The cancellation loop calls the handler of a Deferred.
cancel_defer(f) ==
  /\ cur = f /\ pc[f] = "cancel" /\ stack[f] = <<>>
  /\ handlers # <<>>
  /\ handlers' = Tail(handlers)
  /\ Push(f, "handler", Head(handlers))
  /\ UNCHANGED <<schedVars, state, ops, counter, started, shutdown, dropped, on,
                 settled>>

HandlerReturns(f) ==
  /\ InCall(f, "handler") /\ Pop(f)
  /\ UNCHANGED <<schedVars, state, ops, counter, started, shutdown, handlers,
                 dropped, on, settled>>

\* The disposal of the scheduler fails a state that is still listed.
shutdown_state ==
  /\ cur = Root /\ pc[Root] = "dispose" /\ stack[Root] = <<>> /\ shutdown # <<>>
  /\ state' = [state EXCEPT ![Head(shutdown)] = "FAILED"]
  /\ settled' = [settled EXCEPT ![Head(shutdown)] = Append(@, "disposal")]
  /\ shutdown' = Tail(shutdown)
  /\ Push(Root, "trigger", Head(shutdown))
  /\ UNCHANGED <<schedVars, ops, counter, started, handlers, dropped, on>>

-----------------------------------------------------------------------------
FiberStep(f) ==
  \/ \E d \in States \ Outside : \/ resolve(f, d, "RESOLVED") \/ resolve(f, d, "FAILED")
                                 \/ await(f, d)
  \/ \E u \in Outside : TaskEnds(f, u, "RESOLVED") \/ TaskEnds(f, u, "FAILED")
  \/ \E d \in Plain : async_deferred_object_destroy(f, d)
  \/ \E c \in Combined : combine(f, c)
  \/ \E x \in Transformed : transform(f, x)
  \/ \E throws \in BOOLEAN : ContinuationReturns(f, throws) \/ TransformReturns(f, throws)
  \/ trigger_ops(f) \/ CombineInput(f) \/ CombineCountdown(f)
  \/ AwaitReturns(f) \/ cancel_defer(f) \/ HandlerReturns(f)

SchedulerStep ==
  /\ Idle
  /\ \/ dispatch_tasks
     \/ \E t \in Tasks : run_task_fiber(t)
     \/ async_task_scheduler_dispose
     \/ run_scheduler_fiber({})
     \/ DisposeDrain(Range(shutdown))
     \/ \E f \in Fibers : CancelInvoke(f)
     \/ CancelLoop /\ handlers = <<>>
  /\ UNCHANGED deferVars

Next == (\E f \in Fibers : FiberStep(f)) \/ shutdown_state \/ SchedulerStep

Spec == Init /\ [][Next]_vars

\* The running fiber goes on: its user code, continuations and handlers end.
FairSpec == Spec /\ WF_vars(Next)

-----------------------------------------------------------------------------
(***************************************************************************)
(* Properties.                                                             *)
(***************************************************************************)
Calling(at, d) ==
  UNION {{<<f, i>> : i \in {j \in DOMAIN stack[f] :
                              stack[f][j].at = at /\ stack[f][j].d = d}} : f \in Fibers}

\* A task is not behind its source, or before it, on the shutdown list.
Exposed(x) == x \in Transformed /\ Source[x] \in Outside

\* A state is settled once: whoever asks later gets what the first one got,
\* although transform_cb and shutdown_state do not look at the status they
\* overwrite.  The exception is the transform of a task: the disposal fails it
\* while the task still runs, and when the task ends transform_cb calls the
\* continuation after all and overwrites the failure, once.
SettledOnce ==
  \A d \in States :
    Len(settled[d]) <= 1 \/ (Exposed(d) /\ settled[d] = <<"disposal", "call">>)

\* When the loop over the operations of a settled state is over nobody is left
\* on it (the assertion of release_state), whatever was appended while it ran.
NobodyLeft ==
  \A d \in States :
    state[d] \in {"RESOLVED", "FAILED"} /\ Calling("trigger", d) = {} => ops[d] = <<>>

\* The two counters of a combine agree with the operations that are still listed,
\* to be listed and running, also when an awaitable is given twice and when a
\* continuation settles another input of the same combine: combined is freed
\* with the last of them and not before.
\* When all inputs have been counted the combine is settled, also when its
\* continuation never settled it.
CombineSound ==
  \A c \in Combined :
    LET listed  == UNION {{<<d, i>> : i \in {j \in DOMAIN ops[d] : ops[d][j] = c}} : d \in States}
        toList  == UNION {(stack[p[1]][p[2]].i)..Len(Inputs[c]) : p \in Calling("combining", c)}
        running == Calling("combine", c) \cup Calling("countdown", c) IN
    state[c] # "none" =>
      /\ started[c] = Cardinality(listed) + Cardinality(toList)
      /\ counter[c] = started[c] + Cardinality(running)
      /\ counter[c] = 0 => state[c] # "PENDING"

\* The handler of a Deferred is registered only as long as the Deferred is
\* pending, alive and not cancelled: a settled one is not cancelled any more.
\* (After the disposal the handlers stay where they are.)
HandlersPending ==
  ~disposed => \A d \in Range(handlers) : state[d] = "PENDING" /\ d \notin dropped

\* Whoever awaits a state that is settled goes on.
SettledReleases ==
  \A f \in Fibers :
    pc[f] = "await" /\ state[on[f]] # "PENDING" ~> pc[f] = "run"
=============================================================================
