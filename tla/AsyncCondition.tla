--------------------------- MODULE AsyncCondition ---------------------------
(***************************************************************************)
(* Dao\Async\Sync\Condition (ext/async/sync.c): a condition variable for   *)
(* tasks.  signal resumes the first waiter inside the call; broadcast      *)
(* defers all waiters to the ready list and counts them, so that a signal  *)
(* made while deferred waiters are outstanding is deferred behind them.    *)
(***************************************************************************)
EXTENDS AsyncScheduler

VARIABLES
  waiting,    \* cond->waiting, in the order of the wait calls
  broadcast,  \* cond->broadcast: deferred wake-ups not yet taken
  closed,     \* cond->error is set and cond->shutdown.func is NULL
  woken       \* history: waiters finished by signal or broadcast, in order,
              \* that have not yet returned from wait

condVars == <<waiting, broadcast, closed, woken>>
vars == <<cur, fibers, ready, status, pc, op, defer, busy, callbacks,
          triggered, disposed, calls, waiting, broadcast, closed, woken>>

TypeOK ==
  /\ SchedTypeOK
  /\ pc \in [Fibers \cup {Runner} ->
               {"run", "wait", "cancel", "close", "drain", "dispose",
                "shutdown", "done"}]
  /\ waiting \in Seq(Fibers)
  /\ broadcast \in Nat
  /\ closed \in BOOLEAN
  /\ woken \in Seq(Fibers)

Init ==
  /\ SchedInit
  /\ waiting = <<>>
  /\ broadcast = 0
  /\ closed = FALSE
  /\ woken = <<>>

-----------------------------------------------------------------------------

\* wait: throws when the condition is closed, and when the await is refused;
\* otherwise the operation is appended to the waiting list.
wait(f) ==
  /\ MayCall(f) /\ Call(f)
  /\ IF closed \/ AwaitRefused(f)
     THEN UNCHANGED <<cur, fibers, status, pc, op, busy, callbacks, waiting>>
     ELSE /\ waiting' = Append(waiting, f)
          /\ AwaitOp(f, "wait")
  /\ UNCHANGED <<ready, defer, triggered, disposed, broadcast, closed, woken>>

\* Mutant: the deferred wake-up is not taken off the counter.
WaitNeverCounts(f) ==
  /\ cur = f /\ pc[f] = "wait" /\ Settled(f)
  /\ AwaitDone(f)
  /\ broadcast' = broadcast
  /\ defer' = defer \ {f}
  /\ waiting' = ASYNC_LIST_REMOVE(waiting, f)
  /\ woken' = ASYNC_LIST_REMOVE(woken, f)
  /\ UNCHANGED <<cur, fibers, ready, status, triggered, disposed, calls, closed>>

\* The rest of wait: a deferred wake-up is taken off the broadcast counter and
\* the operation is freed, which unlinks it if it is still listed.
WaitReturns(f) ==
  /\ cur = f /\ pc[f] = "wait" /\ Settled(f)
  /\ AwaitDone(f)
  /\ broadcast' = IF f \in defer THEN broadcast - 1 ELSE broadcast
  /\ defer' = defer \ {f}
  /\ waiting' = ASYNC_LIST_REMOVE(waiting, f)
  /\ woken' = ASYNC_LIST_REMOVE(woken, f)
  /\ UNCHANGED <<cur, fibers, ready, status, triggered, disposed, calls, closed>>

\* Mutant: a signal does not queue behind an unfinished broadcast.
SignalOvertakes(f) ==
  /\ MayCall(f) /\ Call(f)
  /\ ~closed /\ waiting # <<>>
  /\ waiting' = Tail(waiting)
  /\ woken' = Append(woken, Head(waiting))
  /\ reschedule_task(Head(waiting), "RESOLVED")
  /\ UNCHANGED <<pc, defer, busy, callbacks, triggered, disposed, broadcast,
                 closed>>

\* signal: finishes the first operation; behind an unfinished broadcast the
\* operation is deferred and counted too.
signal(f) ==
  /\ MayCall(f) /\ Call(f)
  /\ ~closed /\ waiting # <<>>
  /\ LET w == Head(waiting) IN
     /\ waiting' = Tail(waiting)
     /\ woken' = Append(woken, w)
     /\ op' = [op EXCEPT ![w] = "RESOLVED"]
     /\ IF broadcast > 0
        THEN /\ broadcast' = broadcast + 1
             /\ defer' = defer \cup {w}
             /\ ready' = IF CanEnqueue(w) THEN Append(ready, w) ELSE ready
             /\ UNCHANGED <<cur, fibers, status>>
        ELSE /\ status' = [status EXCEPT ![w] = "RUNNING"]
             /\ async_fiber_switch(w)
             /\ UNCHANGED <<ready, broadcast, defer>>
  /\ UNCHANGED <<pc, busy, callbacks, triggered, disposed, closed>>

\* The tasks of a list are enqueued in order, except those that are neither
\* new nor suspended.  (With none of the latter SelectSeq is the identity; the
\* case is written out for the proofs, in which SelectSeq has no meaning.)
EnqueueAll(list) ==
  IF \A f \in Range(list) : CanEnqueue(f)
  THEN ready \o list
  ELSE ready \o SelectSeq(list, CanEnqueue)

\* broadcast: every waiting operation is deferred and finished; no fiber
\* switch happens, so the loop runs without interruption.
broadcastAll(f) ==
  /\ MayCall(f) /\ Call(f)
  /\ ~closed /\ waiting # <<>>
  /\ broadcast' = broadcast + Len(waiting)
  /\ defer' = defer \cup Range(waiting)
  /\ op' = [g \in Fibers |-> IF g \in Range(waiting) THEN "RESOLVED" ELSE op[g]]
  /\ ready' = EnqueueAll(waiting)
  /\ woken' = woken \o waiting
  /\ waiting' = <<>>
  /\ UNCHANGED <<cur, fibers, status, pc, busy, callbacks, triggered,
                 disposed, closed>>

\* close, and the shutdown callback run by the scheduler's disposal: the
\* error is set first, then the loop of shutdown_cond_cb fails the waiters.
close(f) ==
  /\ ~closed
  /\ \/ /\ MayCall(f) /\ Call(f)
        /\ pc' = [pc EXCEPT ![f] = "close"]
     \/ /\ f = Root /\ cur = Root /\ pc[Root] = "dispose"
        /\ pc' = [pc EXCEPT ![Root] = "shutdown"]
        /\ UNCHANGED calls
  /\ closed' = TRUE
  /\ UNCHANGED <<cur, fibers, ready, status, op, defer, busy, callbacks,
                 triggered, disposed, waiting, broadcast, woken>>

\* Mutant: only the first waiter is failed.
ShutdownFirst ==
  /\ pc[cur] \in {"close", "shutdown"}
  /\ pc' = [pc EXCEPT ![cur] = IF @ = "close" THEN "run" ELSE "dispose"]
  /\ IF waiting = <<>>
     THEN UNCHANGED <<cur, fibers, ready, status, op, waiting>>
     ELSE /\ waiting' = Tail(waiting)
          /\ reschedule_task(Head(waiting), "FAILED")
  /\ UNCHANGED <<defer, busy, callbacks, triggered, disposed, calls, broadcast,
                 closed, woken>>

\* One turn of the loop of shutdown_cond_cb.
shutdown_cond_cb ==
  /\ pc[cur] \in {"close", "shutdown"}
  /\ UNCHANGED <<defer, busy, callbacks, triggered, disposed, calls, broadcast,
                 closed, woken>>
  /\ IF waiting = <<>>
     THEN /\ pc' = [pc EXCEPT ![cur] = IF @ = "close" THEN "run" ELSE "dispose"]
          /\ UNCHANGED <<cur, fibers, ready, status, op, waiting>>
     ELSE /\ waiting' = Tail(waiting)
          /\ reschedule_task(Head(waiting), "FAILED")
          /\ UNCHANGED pc

Next ==
  \/ \E f \in Fibers : \/ wait(f) \/ WaitReturns(f)
                       \/ signal(f) \/ broadcastAll(f) \/ close(f)
  \/ shutdown_cond_cb
  \/ /\ \/ dispatch_tasks
        \/ \E t \in Tasks : run_task_fiber(t)
        \/ async_task_scheduler_dispose
        \/ run_scheduler_fiber({})
        \/ DisposeDrain({s \in {"shutdown"} : ~closed})
        \/ \E f \in Fibers \cup {Runner} : CancelInvoke(f)
        \/ CancelLoop
     /\ UNCHANGED condVars

Spec == Init /\ [][Next]_vars

\* The running fiber always goes on: user code makes MaxCalls calls at most
\* and then returns, and the loop dispatches what is ready.
FairSpec == Spec /\ WF_vars(Next)

-----------------------------------------------------------------------------
(***************************************************************************)
(* Properties.                                                             *)
(***************************************************************************)

\* cond->broadcast counts exactly the deferred wake-ups that have not been
\* taken: those are the woken waiters on the ready list and the one being
\* resumed.  If it drifted up, every later signal would be deferred for ever;
\* if it drifted down, the unsigned counter would wrap.
BroadcastCount ==
  /\ broadcast = Cardinality(defer)
  /\ \A f \in defer : op[f] = "RESOLVED" /\ (f = cur \/ f \in Range(ready))

\* Waiters return from wait in the order in which signal and broadcast chose
\* them: a signal does not overtake an earlier broadcast.
WakeOrder ==
  [][\A f \in Fibers :
       (f \in Range(woken) /\ f \notin Range(woken')) => f = Head(woken)]_vars

\* close releases whoever waits, although its loop is interrupted by every
\* waiter it fails; and a waiter that was signalled, cancelled or failed, at
\* once or deferred to the ready list, returns from wait.
ClosedReleases ==
  \A f \in Fibers :
    /\ (closed /\ op[f] = "RUNNING") ~> op[f] # "RUNNING"
    /\ Settled(f) ~> ~Settled(f)
=============================================================================
