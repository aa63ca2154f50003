---------------------------- MODULE AsyncWatcher ----------------------------
(***************************************************************************)
(* The watchers of ext/async/watcher (Timer, Signal, Poll, Monitor) shared *)
(* by several fibers, and sleep().  A watcher has a libuv handle and lists *)
(* of waiting operations: one, or two for a Poll (reads and writes).       *)
(*                                                                         *)
(* The callback of a handle remembers an operation by its address before   *)
(* it starts: the last one of a Timer and a Signal, the first one of a     *)
(* Poll and a Monitor.  It then completes operations from the front until  *)
(* it has completed that one or the list is empty.  Every completion       *)
(* resumes a fiber inside the callback, which may wait again, cancel or    *)
(* close.  The remembered operation may so be freed before it is its turn, *)
(* and an operation allocated later may have its address.                  *)
(*                                                                         *)
(* A handle keeps the loop alive only while it is active and referenced;   *)
(* the references of foreground waiters are counted in 8 bits.             *)
(***************************************************************************)
EXTENDS AsyncScheduler

CONSTANTS
  Watchers,
  Kind,         \* the class of each watcher
  OneShot,      \* the timers of delay 0, which libuv stops when they expire
  RefModulus,   \* 2^8: ref_count is a zend_uchar
  None,         \* no watcher, no operation (NULL)
  Freed         \* the address of an operation that has been freed

ASSUME WatcherAssumption ==
  /\ Kind \in [Watchers -> {"timer", "signal", "poll", "monitor"}]
  /\ OneShot \subseteq {w \in Watchers : Kind[w] = "timer"}
  /\ RefModulus \in Nat \ {0}
  /\ None \notin Watchers \cup Fibers
  /\ Freed \notin Fibers \cup {None}

VARIABLES
  waiters,    \* waiters[w][s]: the operations listed with side s of w
  active,     \* active[w]: the sides of w that its started handle observes
  mask,       \* poll->events: the sides a Poll believes its handle observes
  closed,     \* closed[w]: error is set, cancel.func is NULL
  refs,       \* ref_count of each watcher
  held,       \* the watchers whose handle is referenced (uv_ref)
  on,         \* the watcher and the side each fiber's call is about
  trigger,    \* the running callback: its watcher, the sides to do, cont, the
              \* remembered operations; stray (history): one of them has left
  sleepers,   \* scheduler->operations: the fibers inside sleep()
  alarms,     \* the sleeping fibers whose timer is armed
  due         \* history: who waited when the callback began, was to be
              \* completed by it and has not left since

watchVars == <<waiters, active, mask, closed, refs, held, on, trigger, sleepers,
               alarms, due>>
vars == <<schedVars, watchVars>>

Sides    == {"read", "write"}
SidesOf(w) == IF Kind[w] = "poll" THEN Sides ELSE {"read"}
NoTrigger == [w |-> None, todo |-> {}, cont |-> FALSE,
              mark |-> [s \in Sides |-> None], stray |-> FALSE]

WatchTypeOK ==
  /\ SchedTypeOK
  /\ pc \in [Fibers \cup {Runner} ->
               {"run", "watch", "sleep", "trigger", "cancel", "close",
                "shutdown", "drain", "dispose", "done"}]
  /\ waiters \in [Watchers -> [Sides -> Seq(Fibers)]]
  /\ active \in [Watchers -> SUBSET Sides]
  /\ mask \in [Watchers -> SUBSET Sides]
  /\ closed \in [Watchers -> BOOLEAN]
  /\ refs \in [Watchers -> 0..(RefModulus - 1)]
  /\ held \subseteq Watchers
  /\ on \in [Fibers -> (Watchers \X Sides) \cup {<<None, "read">>}]
  /\ trigger \in [w : Watchers \cup {None}, todo : SUBSET Sides, cont : BOOLEAN,
                  mark : [Sides -> Fibers \cup {None, Freed}], stray : BOOLEAN]
  /\ sleepers \in Seq(Fibers)
  /\ alarms \subseteq Fibers
  /\ due \subseteq Fibers

\* Some watchers may have been closed before the script goes on.
Init ==
  /\ SchedInit
  /\ waiters = [w \in Watchers |-> [s \in Sides |-> <<>>]]
  /\ active = [w \in Watchers |-> {}]
  /\ mask = [w \in Watchers |-> {}]
  /\ closed \in [Watchers -> BOOLEAN]
  /\ refs = [w \in Watchers |-> 0]
  /\ held = {}
  /\ on = [f \in Fibers |-> <<None, "read">>]
  /\ trigger = NoTrigger
  /\ sleepers = <<>>
  /\ alarms = {}
  /\ due = {}

-----------------------------------------------------------------------------
(***************************************************************************)
(* References of foreground waiters.  A Monitor does not count: its handle *)
(* is referenced whenever it is active.                                    *)
(***************************************************************************)
Counts(f, w) == f \notin Background /\ Kind[w] # "monitor"

ASYNC_UNREF_ENTER(f, w) ==
  IF Counts(f, w)
  THEN LET n == (refs[w] + 1) % RefModulus IN
       /\ refs' = [refs EXCEPT ![w] = n]
       /\ held' = IF n = 1 THEN held \cup {w} ELSE held
  ELSE UNCHANGED <<refs, held>>

\* Mutant: the handle is released with the first waiter that returns.
ExitReleases(f, w) ==
  IF Counts(f, w)
  THEN /\ refs' = [refs EXCEPT ![w] = (@ + RefModulus - 1) % RefModulus]
       /\ held' = held \ {w}
  ELSE UNCHANGED <<refs, held>>

ASYNC_UNREF_EXIT(f, w) ==
  IF Counts(f, w)
  THEN LET n == (refs[w] + RefModulus - 1) % RefModulus IN
       /\ refs' = [refs EXCEPT ![w] = n]
       /\ held' = IF n = 0 THEN held \ {w} ELSE held
  ELSE UNCHANGED <<refs, held>>

\* The handles that keep the loop alive.
Alive ==
  {w \in Watchers : active[w] # {} /\ (w \in held \/ Kind[w] = "monitor")}
  \cup (alarms \ Background)

-----------------------------------------------------------------------------
(***************************************************************************)
(* Waiting.                                                                *)
(***************************************************************************)

\* Mutant: the handle of a Poll that is active is not restarted.
SyncOnce(w, lists) ==
  LET wanted == {s \in Sides : lists[s] # <<>>} IN
  /\ active' = [active EXCEPT ![w] = IF @ = {} THEN wanted ELSE @]
  /\ mask' = [mask EXCEPT ![w] = wanted]

\* The handle is restarted, or stopped, when the lists ask for other sides than
\* those recorded in poll->events.
sync_poll(w, lists) ==
  LET wanted == {s \in Sides : lists[s] # <<>>} IN
  IF wanted = mask[w] THEN UNCHANGED <<active, mask>>
  ELSE /\ active' = [active EXCEPT ![w] = wanted]
       /\ mask' = [mask EXCEPT ![w] = wanted]

\* Timer and Signal start their handle with the first waiter, a Poll when it is
\* asked for a new side, a Monitor in every call.
Start(w, lists) ==
  \/ Kind[w] = "poll" /\ sync_poll(w, lists)
  \/ /\ Kind[w] # "poll"
     /\ active' = [active EXCEPT ![w] =
          IF Kind[w] = "monitor" \/ waiters[w]["read"] = <<>> THEN {"read"} ELSE @]
     /\ UNCHANGED mask

\* A new operation may be allocated where the remembered one was freed.
Reallocate(f, w, s) ==
  \/ UNCHANGED trigger
  \/ /\ trigger.w = w /\ trigger.mark[s] = Freed
     /\ trigger' = [trigger EXCEPT !.mark[s] = f]

\* awaitTimeout, awaitSignal, awaitReadable, awaitWritable (suspend) and
\* awaitEvent, which alone does not look whether its watcher is closed.
await(f, w, s) ==
  /\ MayCall(f) /\ Call(f)
  /\ s \in SidesOf(w)
  /\ closed[w] => Kind[w] = "monitor"
  /\ LET lists == [waiters[w] EXCEPT ![s] = Append(@, f)] IN
     /\ Start(w, lists)
     /\ IF AwaitRefused(f)
        THEN UNCHANGED <<cur, fibers, status, pc, op, callbacks, waiters, refs,
                         held, on, trigger>>
        ELSE /\ waiters' = [waiters EXCEPT ![w] = lists]
             /\ on' = [on EXCEPT ![f] = <<w, s>>]
             /\ ASYNC_UNREF_ENTER(f, w)
             /\ AwaitSuspend(f, "watch")
             /\ Reallocate(f, w, s)
  /\ UNCHANGED <<ready, defer, busy, triggered, disposed, closed, sleepers,
                 alarms, due>>

\* The rest of the call: the operation is freed, which unlinks it if it was
\* cancelled.
AwaitReturns(f) ==
  /\ cur = f /\ pc[f] = "watch" /\ Settled(f)
  /\ AwaitResume(f)
  /\ LET w == on[f][1]
         s == on[f][2] IN
     /\ waiters' = [waiters EXCEPT ![w][s] = ASYNC_LIST_REMOVE(@, f)]
     /\ ASYNC_UNREF_EXIT(f, w)
     /\ trigger' = IF trigger.w = w /\ trigger.mark[s] = f
                   THEN [trigger EXCEPT !.mark[s] = Freed, !.stray = @ \/ f \in due]
                   ELSE trigger
  /\ on' = [on EXCEPT ![f] = <<None, "read">>]
  /\ due' = due \ {f}
  /\ UNCHANGED <<cur, fibers, ready, status, defer, busy, triggered, disposed,
                 calls, active, mask, closed, sleepers, alarms>>

-----------------------------------------------------------------------------
(***************************************************************************)
(* The callback of a handle: trigger_timer, trigger_signal, trigger_poll   *)
(* and event_cb.                                                           *)
(***************************************************************************)

\* The operation that is remembered, and those up to it.
Marked(w, s) ==
  IF waiters[w][s] = <<>> THEN None
  ELSE IF Kind[w] \in {"timer", "signal"} THEN Last(waiters[w][s])
  ELSE Head(waiters[w][s])

UpTo(w, s) ==
  IF Kind[w] \in {"timer", "signal"} THEN Range(waiters[w][s])
  ELSE {Marked(w, s)} \ {None}

\* The loop calls back for the sides in events, a Poll that is disconnected for
\* both.  On an error libuv stops the handle of a Poll and calls back for none;
\* it also stops a timer without a repetition.  Only a Monitor can be started
\* again after it was closed.
Trigger(w, events) ==
  /\ cur = Runner /\ pc[Runner] = "run"
  /\ active[w] # {} /\ (closed[w] => Kind[w] = "monitor")
  /\ \/ events # {} /\ events \subseteq active[w]
     \/ Kind[w] = "poll" /\ events \in {Sides, {}}
  /\ active' = [active EXCEPT ![w] = IF events = {} \/ w \in OneShot THEN {} ELSE @]
  /\ trigger' = [w |-> w, todo |-> events, cont |-> TRUE,
                 mark |-> [s \in Sides |-> Marked(w, s)], stray |-> FALSE]
  /\ due' = UNION {UpTo(w, s) : s \in events}
  /\ pc' = [pc EXCEPT ![Runner] = "trigger"]
  /\ UNCHANGED <<cur, fibers, ready, status, op, defer, busy, callbacks,
                 triggered, disposed, calls, waiters, mask, closed, refs, held,
                 on, sleepers, alarms>>

InTrigger == cur = Runner /\ pc[Runner] = "trigger"
Side      == IF "read" \in trigger.todo THEN "read" ELSE "write"
Queue     == waiters[trigger.w][Side]

\* Mutant: the loop goes on until the list is empty.
TriggerAll ==
  /\ InTrigger /\ trigger.todo # {}
  /\ Queue # <<>>
  /\ waiters' = [waiters EXCEPT ![trigger.w][Side] = Tail(@)]
  /\ due' = due \ {Head(Queue)}
  /\ reschedule_task(Head(Queue), "RESOLVED")
  /\ UNCHANGED <<pc, defer, busy, callbacks, triggered, disposed, calls, active,
                 mask, closed, refs, held, on, trigger, sleepers, alarms>>

\* One turn of the loop over the operations of a side.
TriggerTurn ==
  /\ InTrigger /\ trigger.todo # {}
  /\ trigger.cont /\ Queue # <<>>
  /\ waiters' = [waiters EXCEPT ![trigger.w][Side] = Tail(@)]
  /\ trigger' = [trigger EXCEPT !.cont = Head(Queue) # trigger.mark[Side]]
  /\ due' = due \ {Head(Queue)}
  /\ reschedule_task(Head(Queue), "RESOLVED")
  /\ UNCHANGED <<pc, defer, busy, callbacks, triggered, disposed, calls, active,
                 mask, closed, refs, held, on, sleepers, alarms>>

\* Mutant: the loop ends in front of the remembered operation.
SideEndsShort ==
  /\ InTrigger /\ trigger.todo # {}
  /\ Queue = <<>> \/ Head(Queue) = trigger.mark[Side]
  /\ trigger' = [trigger EXCEPT !.todo = @ \ {Side}, !.cont = TRUE]
  /\ UNCHANGED <<schedVars, waiters, active, mask, closed, refs, held, on,
                 sleepers, alarms, due>>

\* The loop over a side is over.
TriggerSide ==
  /\ InTrigger /\ trigger.todo # {}
  /\ ~trigger.cont \/ Queue = <<>>
  /\ trigger' = [trigger EXCEPT !.todo = @ \ {Side}, !.cont = TRUE]
  /\ UNCHANGED <<schedVars, waiters, active, mask, closed, refs, held, on,
                 sleepers, alarms, due>>

\* Mutant: the handle is stopped whoever waits.
TriggerStops ==
  /\ InTrigger /\ trigger.todo = {}
  /\ active' = [active EXCEPT ![trigger.w] = {}]
  /\ trigger' = NoTrigger
  /\ due' = {}
  /\ pc' = [pc EXCEPT ![Runner] = "run"]
  /\ UNCHANGED <<cur, fibers, ready, status, op, defer, busy, callbacks,
                 triggered, disposed, calls, waiters, mask, closed, refs, held,
                 on, sleepers, alarms>>

\* The callback returns: a handle nobody waits for is stopped, the mask of a
\* Poll is synchronised with its lists.
TriggerEnds ==
  /\ InTrigger /\ trigger.todo = {}
  /\ LET w == trigger.w IN
     \/ Kind[w] = "poll" /\ ~closed[w] /\ sync_poll(w, waiters[w])
     \/ Kind[w] = "poll" /\ closed[w] /\ UNCHANGED <<active, mask>>
     \/ /\ Kind[w] # "poll"
        /\ active' = [active EXCEPT ![w] = IF waiters[w]["read"] = <<>> THEN {} ELSE @]
        /\ UNCHANGED mask
  /\ trigger' = NoTrigger
  /\ due' = {}
  /\ pc' = [pc EXCEPT ![Runner] = "run"]
  /\ UNCHANGED <<cur, fibers, ready, status, op, defer, busy, callbacks,
                 triggered, disposed, calls, waiters, closed, refs, held, on,
                 sleepers, alarms>>

-----------------------------------------------------------------------------
(***************************************************************************)
(* Closing: close(), or the shutdown callback called by the disposal of    *)
(* the scheduler after it has failed its own operations.                   *)
(***************************************************************************)
close(f, w) ==
  /\ ~closed[w]
  /\ \/ /\ MayCall(f) /\ Call(f)
        /\ pc' = [pc EXCEPT ![f] = "close"]
     \/ /\ f = Root /\ cur = Root /\ pc[Root] = "dispose" /\ sleepers = <<>>
        /\ pc' = [pc EXCEPT ![Root] = "shutdown"]
        /\ UNCHANGED calls
  /\ closed' = [closed EXCEPT ![w] = TRUE]
  /\ active' = [active EXCEPT ![w] = {}]
  /\ on' = [on EXCEPT ![f] = <<w, "read">>]
  /\ UNCHANGED <<cur, fibers, ready, status, op, defer, busy, callbacks,
                 triggered, disposed, waiters, mask, refs, held, trigger,
                 sleepers, alarms, due>>

\* One turn of the loops of shutdown_timer, shutdown_signal, shutdown_poll and
\* shutdown_cb: the readers are failed, then the writers.
shutdown ==
  /\ pc[cur] \in {"close", "shutdown"}
  /\ LET w == on[cur][1]
         s == IF waiters[w]["read"] # <<>> THEN "read" ELSE "write" IN
     IF waiters[w][s] = <<>>
     THEN /\ pc' = [pc EXCEPT ![cur] = IF @ = "close" THEN "run" ELSE "dispose"]
          /\ on' = [on EXCEPT ![cur] = <<None, "read">>]
          /\ UNCHANGED <<cur, fibers, ready, status, op, waiters>>
     ELSE /\ waiters' = [waiters EXCEPT ![w][s] = Tail(@)]
          /\ reschedule_task(Head(waiters[w][s]), "FAILED")
          /\ UNCHANGED <<pc, on>>
  /\ UNCHANGED <<defer, busy, callbacks, triggered, disposed, calls, active,
                 mask, closed, refs, held, trigger, sleepers, alarms, due>>

-----------------------------------------------------------------------------
(***************************************************************************)
(* sleep(): a timer of its own, and an operation on scheduler->operations. *)
(***************************************************************************)
asyncsleep(f) ==
  /\ MayCall(f) /\ Call(f)
  /\ ~AwaitRefused(f)
  /\ sleepers' = Append(sleepers, f)
  /\ alarms' = alarms \cup {f}
  /\ AwaitSuspend(f, "sleep")
  /\ UNCHANGED <<ready, defer, busy, triggered, disposed, waiters, active,
                 mask, closed, refs, held, on, trigger, due>>

sleep_cb(f) ==
  /\ cur = Runner /\ pc[Runner] = "run" /\ f \in alarms
  /\ alarms' = alarms \ {f}
  /\ sleepers' = ASYNC_LIST_REMOVE(sleepers, f)
  /\ reschedule_task(f, "RESOLVED")
  /\ UNCHANGED <<pc, defer, busy, callbacks, triggered, disposed, calls,
                 waiters, active, mask, closed, refs, held, on, trigger, due>>

\* The rest of sleep: the operation is freed and the timer closed.
SleepReturns(f) ==
  /\ cur = f /\ pc[f] = "sleep" /\ Settled(f)
  /\ AwaitResume(f)
  /\ sleepers' = ASYNC_LIST_REMOVE(sleepers, f)
  /\ alarms' = alarms \ {f}
  /\ UNCHANGED <<cur, fibers, ready, status, defer, busy, triggered, disposed,
                 calls, waiters, active, mask, closed, refs, held, on, trigger, due>>

\* The disposal of the scheduler fails its operations, one per turn.
DisposeSleeper ==
  /\ cur = Root /\ pc[Root] = "dispose" /\ sleepers # <<>>
  /\ sleepers' = Tail(sleepers)
  /\ reschedule_task(Head(sleepers), "FAILED")
  /\ UNCHANGED <<pc, defer, busy, callbacks, triggered, disposed, calls,
                 waiters, active, mask, closed, refs, held, on, trigger, alarms, due>>

-----------------------------------------------------------------------------
\* A timer expires by itself, everything else comes from outside.
External == {w \in Watchers : Kind[w] # "timer"}

Internal ==
  \/ \E f \in Fibers, w \in Watchers :
       (\E s \in Sides : await(f, w, s)) \/ close(f, w)
  \/ \E f \in Fibers : \/ AwaitReturns(f) \/ asyncsleep(f) \/ sleep_cb(f)
                       \/ SleepReturns(f)
  \/ \E w \in Watchers \ External : Trigger(w, {"read"})
  \/ TriggerTurn \/ TriggerSide \/ TriggerEnds
  \/ shutdown
  \/ DisposeSleeper
  \/ /\ \/ dispatch_tasks
        \/ \E t \in Tasks : run_task_fiber(t)
        \/ async_task_scheduler_dispose
        \/ run_scheduler_fiber(Alive)
        \/ DisposeDrain({w \in Watchers : ~closed[w]} \cup Range(sleepers))
        \/ \E f \in Fibers \cup {Runner} : CancelInvoke(f)
        \/ CancelLoop
     /\ UNCHANGED watchVars

Next ==
  \/ Internal
  \/ \E w \in External, events \in SUBSET Sides : Trigger(w, events)

Spec == Init /\ [][Next]_vars

\* The running fiber goes on and the loop fires its timers; no signal, no
\* readiness of a socket and no change of a file is assumed ever to come.
FairSpec == Spec /\ WF_vars(Internal)

-----------------------------------------------------------------------------
(***************************************************************************)
(* Properties.                                                             *)
(***************************************************************************)

\* The handle of a watcher is referenced exactly while a foreground fiber is
\* inside an await on it: the loop neither ends under a foreground waiter nor
\* is kept alive by background ones (ASYNC_UNREF_ENTER, ASYNC_UNREF_EXIT).
HeldByForeground ==
  \A w \in Watchers :
    w \in held <=> \E f \in Fibers : pc[f] = "watch" /\ on[f][1] = w /\ Counts(f, w)

\* Whoever waits is observed: the handle of an open watcher is active for the
\* side of every listed operation, although waiters come and go inside the
\* callback that stops it, and a cancelled one leaves without stopping it.  The
\* exceptions are a timer of delay 0, and a Poll that had an error: its handle
\* is stopped, and sync_poll goes by poll->events alone.
WaitersObserved ==
  \A w \in Watchers, s \in Sides :
    waiters[w][s] # <<>> /\ ~closed[w] /\ w \notin OneShot =>
      s \in active[w] \/ (active[w] = {} /\ s \in mask[w])

\* A callback does not forget anybody: whoever waited when it began and was to
\* be completed has been completed, or has left, when it ends, also when the
\* operation that it remembered was freed in between or its address was given
\* to another one.
NobodyForgotten ==
  InTrigger /\ trigger.todo = {} => due = {}

\* A callback completes only those who waited when it began: a fiber that waits
\* again at once is not completed twice by one expiry or signal.  Not so when a
\* remembered operation has left by itself, nor on a side of a Poll where
\* nobody waited.
OncePerEvent ==
  [][InTrigger /\ cur' # cur =>
       cur' \in due \/ trigger.stray \/ trigger.mark[Side] = None]_vars

\* Whoever waits for a timer or sleeps goes on: the timer expires, is closed or
\* the scheduler is disposed, which also ends the waiting of background fibers.
TimersReturn ==
  \A f \in Fibers :
    (\/ pc[f] = "sleep"
     \/ pc[f] = "watch" /\ Kind[on[f][1]] = "timer") ~> pc[f] = "run"
=============================================================================
