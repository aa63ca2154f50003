------------------------- MODULE AsyncChannelProofs -------------------------
(***************************************************************************)
(* Theorems of AsyncChannel for any tasks, channels, capacities and bounds *)
(* on the number of calls: the types, the exactness of the busy count and  *)
(* the absence of stranded pairs, as invariants of Spec, and that Spec     *)
(* implements the queue of FifoChannel; and theorems of AsyncChannelGroup  *)
(* for any groups besides: the types, the busy count, that no call leaves  *)
(* an entry on a channel, that a select that waits can end, and that every *)
(* message is delivered at most once and never lost.                       *)
(***************************************************************************)
EXTENDS AsyncChannelGroup, AsyncSchedulerProofs

-----------------------------------------------------------------------------
(***************************************************************************)
(* The busy count.                                                         *)
(***************************************************************************)

Places ==
  {"run", "send", "recv", "gsend", "select", "wild", "cancel",
   "close", "drain", "dispose", "shutdown", "done"}

\* What the helpers below preserve besides FiberLists.
Counting ==
  /\ pc \in [Fibers \cup {Runner} -> Places]
  /\ callbacks \in Seq(Fibers)
  /\ busy = Cardinality(Waiting)

\* A move between two places outside a blocking call leaves the count alone.
LEMMA MoveCounting ==
  ASSUME Counting, NEW f \in Fibers \cup {Runner}, NEW l \in Places,
         pc[f] \notin Awaiting, l \notin Awaiting,
         pc' = [pc EXCEPT ![f] = l], UNCHANGED <<callbacks, busy>>
  PROVE  Counting'
<1>1. Waiting' = Waiting
  BY SchedulerAssumption DEF Counting, Waiting
<1> QED
  BY <1>1 DEF Counting

\* Entering a blocking call (AwaitOp) counts the caller.
LEMMA AwaitOpCounting ==
  ASSUME FiberLists, Counting, NEW f \in Fibers, NEW l \in Places,
         pc[f] \notin Awaiting, l \in Awaiting, AwaitOp(f, l), UNCHANGED ready
  PROVE  FiberLists' /\ Counting'
<1>1. FiberLists'
  BY SuspendType DEF FiberLists, AwaitOp, AwaitSuspend, OpStatus, TaskStatus
<1>2. pc' \in [Fibers \cup {Runner} -> Places] /\ callbacks' \in Seq(Fibers)
  BY DEF Counting, AwaitOp, AwaitSuspend
<1>3. BusyExact'
  BY BusyUp DEF Counting, AwaitOp, AwaitSuspend, BusyExact, Waiting
<1> QED
  BY <1>1, <1>2, <1>3 DEF Counting, BusyExact, Waiting

\* Leaving one (AwaitDone) discounts it.
LEMMA AwaitDoneCounting ==
  ASSUME FiberLists, Counting, NEW f \in Fibers, pc[f] \in Awaiting,
         AwaitDone(f), UNCHANGED <<cur, fibers, ready, status>>
  PROVE  FiberLists' /\ Counting'
<1>1. FiberLists'
  BY DEF FiberLists, AwaitDone, AwaitResume, OpStatus
<1>2. pc' \in [Fibers \cup {Runner} -> Places]
  BY DEF Counting, AwaitDone, AwaitResume, Places
<1>3. callbacks' \in Seq(Fibers)
  BY RemoveList DEF Counting, AwaitDone, AwaitResume
<1>4. BusyExact'
  <2>1. "run" \notin Awaiting
    BY DEF Awaiting
  <2> QED
    BY <2>1, BusyDown DEF Counting, AwaitDone, AwaitResume, BusyExact, Waiting
<1> QED
  BY <1>1, <1>2, <1>3, <1>4 DEF Counting, BusyExact, Waiting

-----------------------------------------------------------------------------
(***************************************************************************)
(* The ring buffer.                                                        *)
(***************************************************************************)

\* Writing a slot of a buffer with a slot yields a buffer of the capacity.
LEMMA WriteType ==
  ASSUME NEW c \in Channels, Size[c] > 0, NEW b \in Buffers(c),
         NEW m \in Messages
  PROVE  Write(c, b, m) \in Buffers(c) /\ Write(c, b, m).len = b.len
<1>1. Size[c] \in Nat /\ b.wpos \in 0..(Size[c] - 1)
  BY ChannelAssumption DEF Buffers
<1>2. (b.wpos + 1) % Size[c] \in 0..(Size[c] - 1)
  BY <1>1
<1>3. [b.data EXCEPT ![b.wpos] = m]
        \in [0..(Size[c] - 1) -> Messages \cup {NoMsg}]
  BY <1>1 DEF Buffers
<1> DEFINE d == [b EXCEPT !.data = [@ EXCEPT ![b.wpos] = m]]
<1>4. d \in Buffers(c) /\ d.len = b.len /\ d.wpos = b.wpos
  BY <1>3 DEF Buffers
<1>5. Write(c, b, m) = [d EXCEPT !.wpos = (b.wpos + 1) % Size[c]]
  BY DEF Write, Buffers
<1> HIDE DEF d
<1> QED
  BY <1>2, <1>4, <1>5 DEF Buffers

\* Writing a message where there is room yields a buffer of the capacity.
LEMMA PutType ==
  ASSUME NEW c \in Channels, buffer[c] \in Buffers(c),
         buffer[c].len < Size[c], NEW m \in Messages
  PROVE  Put(c, m) \in Buffers(c)
<1>1. Size[c] \in Nat /\ buffer[c].len \in Nat /\ Size[c] > 0
  BY ChannelAssumption DEF Buffers
<1>2. /\ Write(c, buffer[c], m) \in Buffers(c)
      /\ Write(c, buffer[c], m).len = buffer[c].len
  BY <1>1, WriteType
<1>3. ASSUME NEW b \in Buffers(c), b.len = buffer[c].len
      PROVE  [b EXCEPT !.len = @ + 1] \in Buffers(c)
  <2>1. b.len + 1 \in 0..Size[c]
    BY <1>1, <1>3
  <2> QED
    BY <2>1 DEF Buffers
<1> QED
  BY <1>2, <1>3 DEF Put

\* So does taking the oldest message, with or without a refill.
LEMMA FetchType ==
  ASSUME NEW c \in Channels, buffer[c] \in Buffers(c),
         buffer[c].len > 0
  PROVE  /\ [Advance(c) EXCEPT !.len = @ - 1] \in Buffers(c)
         /\ \A m \in Messages :
              /\ Write(c, Advance(c), m) \in Buffers(c)
              /\ Write(c, Advance(c), m).len = buffer[c].len
<1>1. /\ Size[c] \in Nat /\ buffer[c].len \in 0..Size[c] /\ Size[c] > 0
      /\ buffer[c].rpos \in 0..(Size[c] - 1)
  BY ChannelAssumption DEF Buffers
<1>2. (buffer[c].rpos + 1) % Size[c] \in 0..(Size[c] - 1)
  BY <1>1
<1>3. Advance(c) \in Buffers(c) /\ Advance(c).len = buffer[c].len
  BY <1>2 DEF Advance, Buffers
<1>4. [Advance(c) EXCEPT !.len = @ - 1] \in Buffers(c)
  BY <1>1, <1>3 DEF Buffers
<1> QED
  BY <1>1, <1>3, <1>4, WriteType

-----------------------------------------------------------------------------
(***************************************************************************)
(* TypeOK and BusyExact hold together: only the exact count shows that the *)
(* busy count does not go below zero.  For the proof their conjuncts are   *)
(* regrouped by what the helpers above change.                             *)
(***************************************************************************)
ChannelTypes ==
  /\ DOMAIN buffer = Channels
  /\ \A c \in Channels : buffer[c] \in Buffers(c)
  /\ senders \in [Channels -> Seq(Messages)]
  /\ receivers \in [Channels -> Seq(Fibers)]
  /\ closed \in [Channels -> BOOLEAN]
  /\ error \in [Channels -> BOOLEAN]
  /\ on \in [Fibers -> Channels \cup {NoChan}]
  /\ value \in [Fibers -> Messages \cup {NoMsg}]
  /\ result \in [Fibers -> Messages \cup {NoMsg}]
  /\ timers \subseteq Fibers

Closers ==
  \A f \in Fibers : pc[f] \in {"close", "shutdown"} => on[f] \in Channels

Typed == FiberLists /\ Counting /\ Bookkeeping /\ ChannelTypes /\ Closers

\* The regrouped conjuncts are those of TypeOK and BusyExact.
LEMMA Regroup ==
  /\ TypeOK /\ BusyExact => Typed
  /\ Typed' => TypeOK' /\ BusyExact'
<1>1. TypeOK /\ BusyExact => Typed
  BY DEF TypeOK, SchedTypeOK, BusyExact, Typed, FiberLists, Counting, Waiting,
         Places, Bookkeeping, ChannelTypes, Closers
<1>2. Counting' => busy' \in Nat
  BY WaitingFinite DEF Counting
<1>3. Typed' => TypeOK' /\ BusyExact'
  BY <1>2 DEF TypeOK, SchedTypeOK, BusyExact, Typed, FiberLists, Counting,
         Waiting, Places, Bookkeeping, ChannelTypes, Closers
<1> QED
  BY <1>1, <1>3

\* A step that leaves pc, the callbacks and the busy count alone.
LEMMA StayCounting ==
  ASSUME Counting, UNCHANGED <<pc, callbacks, busy>>
  PROVE  Counting'
  BY DEF Counting, Waiting

\* A fiber that moves elsewhere than into the loops of dispose_state, and
\* changes no other fiber's channel, keeps Closers.
LEMMA MoveClosers ==
  ASSUME Counting, Closers, NEW f, NEW l,
         l \notin {"close", "shutdown"}, pc' = [pc EXCEPT ![f] = l],
         \A g \in Fibers \ {f} : on'[g] = on[g]
  PROVE  Closers'
  BY DEF Counting, Closers

\* A send call names its message by the caller and the call's number.
LEMMA MsgType ==
  ASSUME Bookkeeping, NEW f \in Fibers
  PROVE  Msg(f) \in Messages
  BY DEF Bookkeeping, Msg, Messages

\* CompleteSend resumes the fiber that awaits a send operation, if any.
LEMMA CompleteType ==
  ASSUME FiberLists, NEW m \in Messages, NEW c, NEW o \in OpStatus,
         CompleteSend(m, c, o)
  PROVE  FiberLists'
<1>1. Owner(m) \in Fibers
  BY DEF Messages, Owner
<1>2. CASE Dead(m)
  BY <1>2 DEF CompleteSend, FiberLists
<1>3. CASE ~Dead(m)
  BY <1>1, <1>3, RescheduleType DEF CompleteSend, OpStatus
<1> QED
  BY <1>2, <1>3

\* The scheduler's own steps.
LEMMA SchedStepTyped ==
  ASSUME FiberLists, Counting, Bookkeeping, SchedStep
  PROVE  FiberLists' /\ Counting' /\ Bookkeeping'
<1>1. CASE dispatch_tasks
  <2>1. Head(ready) \in Fibers /\ Tail(ready) \in Seq(Fibers)
    BY <1>1, HeadTailProperties DEF dispatch_tasks, FiberLists
  <2>2. FiberLists'
    BY <1>1, <2>1, SwitchType DEF dispatch_tasks, FiberLists, TaskStatus
  <2> QED
    BY <1>1, <2>2, StayCounting DEF dispatch_tasks, Bookkeeping
<1>2. ASSUME NEW t \in Tasks, run_task_fiber(t)
      PROVE  FiberLists' /\ Counting' /\ Bookkeeping'
  <2>1. FiberLists'
    BY <1>2, SuspendType DEF run_task_fiber, FiberLists, TaskStatus
  <2>2. Counting'
    BY <1>2, MoveCounting DEF run_task_fiber, Fibers, Places, Awaiting
  <2> QED
    BY <1>2, <2>1, <2>2 DEF run_task_fiber, Bookkeeping
<1>3. CASE async_task_scheduler_dispose
  <2>1. FiberLists'
    BY <1>3, SuspendType DEF async_task_scheduler_dispose, FiberLists
  <2>2. Counting'
    BY <1>3, MoveCounting
       DEF async_task_scheduler_dispose, Fibers, Places, Awaiting
  <2> QED
    BY <1>3, <2>1, <2>2 DEF async_task_scheduler_dispose, Bookkeeping
<1>4. CASE run_scheduler_fiber(Handles)
  <2>1. FiberLists' /\ Bookkeeping'
    BY <1>4 DEF run_scheduler_fiber, FiberLists, Bookkeeping, Fibers
  <2>2. Counting'
    BY <1>4, MoveCounting DEF run_scheduler_fiber, Fibers, Places, Awaiting
  <2> QED
    BY <2>1, <2>2
<1>5. CASE DisposeDrain({c \in Channels : ~closed[c]})
  <2>1. FiberLists'
    BY <1>5, SuspendType DEF DisposeDrain, FiberLists
  <2>2. Counting'
    BY <1>5, MoveCounting DEF DisposeDrain, Fibers, Places, Awaiting
  <2> QED
    BY <1>5, <2>1, <2>2 DEF DisposeDrain, Bookkeeping
<1>6. ASSUME NEW f \in Fibers \cup {Runner}, CancelInvoke(f)
      PROVE  FiberLists' /\ Counting' /\ Bookkeeping'
  <2>1. pc[f] = "run" /\ FiberLists'
    BY <1>6 DEF CancelInvoke, MayCall, FiberLists
  <2>2. Counting'
    BY <1>6, <2>1, MoveCounting DEF CancelInvoke, Places, Awaiting
  <2>3. Bookkeeping'
    BY <1>6, SchedulerAssumption DEF CancelInvoke, MayCall, Call, Bookkeeping
  <2> QED
    BY <2>1, <2>2, <2>3
<1>7. CASE CancelLoop
  <2>1. CASE callbacks = <<>>
    <3>1. Counting'
      BY <1>7, <2>1, MoveCounting DEF CancelLoop, FiberLists, Places, Awaiting
    <3> QED
      BY <1>7, <2>1, <3>1 DEF CancelLoop, FiberLists, Bookkeeping
  <2>2. CASE callbacks # <<>>
    <3>1. Head(callbacks) \in Fibers /\ Tail(callbacks) \in Seq(Fibers)
      BY <2>2, HeadTailProperties DEF Counting
    <3>2. FiberLists'
      BY <1>7, <2>2, <3>1, RescheduleType DEF CancelLoop, OpStatus, FiberLists
    <3>3. Counting'
      BY <1>7, <2>2, <3>1 DEF CancelLoop, Counting, Waiting
    <3> QED
      BY <1>7, <3>2, <3>3 DEF CancelLoop, Bookkeeping
  <2> QED
    BY <2>1, <2>2
<1> QED
  BY <1>1, <1>2, <1>3, <1>4, <1>5, <1>6, <1>7 DEF SchedStep

\* Every step of the channel keeps the types and the exact count.
LEMMA StepTyped ==
  ASSUME Typed, [Next]_vars
  PROVE  Typed'
<1> USE DEF Typed
<1>1. ASSUME NEW f \in Fibers, NEW c \in Channels, SendToReceiver(f, c)
      PROVE  Typed'
  <2> DEFINE r == Head(receivers[c])
  <2>1. r \in Fibers /\ Tail(receivers[c]) \in Seq(Fibers)
    BY <1>1, HeadTailProperties DEF SendToReceiver, ChannelTypes
  <2>2. Bookkeeping' /\ Msg(f) \in Messages
    BY <1>1, CallFlags, MsgType DEF SendToReceiver, MaySend
  <2>3. FiberLists'
    BY <1>1, <2>1, RescheduleType DEF SendToReceiver, OpStatus
  <2>4. ChannelTypes'
    BY <1>1, <2>1, <2>2 DEF SendToReceiver, ChannelTypes
  <2> QED
    BY <1>1, <2>2, <2>3, <2>4, StayCounting DEF SendToReceiver, Closers
<1>2. ASSUME NEW f \in Fibers, NEW c \in Channels, SendToBuffer(f, c)
      PROVE  Typed'
  <2>1. Bookkeeping' /\ Msg(f) \in Messages
    BY <1>2, CallFlags, MsgType DEF SendToBuffer, MaySend
  <2>2. Put(c, Msg(f)) \in Buffers(c)
    BY <1>2, <2>1, PutType DEF SendToBuffer, ChannelTypes
  <2>3. ChannelTypes'
    BY <1>2, <2>2 DEF SendToBuffer, ChannelTypes
  <2> QED
    BY <1>2, <2>1, <2>3, StayCounting DEF SendToBuffer, FiberLists, Closers
<1>3. ASSUME NEW f \in Fibers, NEW c \in Channels, NEW timed \in BOOLEAN,
             SendBlocks(f, c, timed)
      PROVE  Typed'
  <2>1. Bookkeeping' /\ Msg(f) \in Messages /\ pc[f] = "run"
    BY <1>3, CallFlags, MsgType DEF SendBlocks, MaySend
  <2>2. FiberLists' /\ Counting'
    BY <1>3, <2>1, AwaitOpCounting DEF SendBlocks, Places, Awaiting
  <2>3. ChannelTypes'
    BY <1>3, <2>1 DEF SendBlocks, ChannelTypes
  <2>4. Closers'
    BY <1>3, MoveClosers DEF SendBlocks, AwaitOp, AwaitSuspend, ChannelTypes
  <2> QED
    BY <2>1, <2>2, <2>3, <2>4
<1>4. ASSUME NEW f \in Fibers, NEW c \in Channels, SendRefused(f, c)
      PROVE  Typed'
  <2>1. Bookkeeping' /\ Msg(f) \in Messages
    BY <1>4, CallFlags, MsgType DEF SendRefused, MaySend
  <2>2. ChannelTypes'
    BY <1>4, <2>1 DEF SendRefused, ChannelTypes
  <2> QED
    BY <1>4, <2>1, <2>2, StayCounting DEF SendRefused, FiberLists, Closers
<1>5. ASSUME NEW f \in Fibers, NEW c \in Channels, NextFetches(f, c)
      PROVE  Typed'
  <2>1. Bookkeeping'
    BY <1>5, CallFlags DEF NextFetches
  <2>2. fetch_noblock(c) /\ buffer[c] \in Buffers(c)
    BY <1>5 DEF NextFetches, ChannelTypes
  <2>3. senders[c] # <<>> => /\ Head(senders[c]) \in Messages
                             /\ Tail(senders[c]) \in Seq(Messages)
    BY HeadTailProperties DEF ChannelTypes
  <2>4. FiberLists'
    BY <2>2, <2>3, CompleteType DEF fetch_noblock, FiberLists, OpStatus
  <2>5. /\ DOMAIN buffer' = Channels
        /\ \A d \in Channels : buffer'[d] \in Buffers(d)
    <3>1. CASE buffer[c].len > 0
      <4> DEFINE b == IF senders[c] # <<>>
                      THEN Write(c, Advance(c), Head(senders[c]))
                      ELSE [Advance(c) EXCEPT !.len = @ - 1]
      <4>1. b \in Buffers(c)
        BY <2>2, <2>3, <3>1, FetchType
      <4>2. buffer' = [buffer EXCEPT ![c] = b]
        BY <2>2, <3>1 DEF fetch_noblock
      <4> HIDE DEF b
      <4> QED
        BY <4>1, <4>2 DEF ChannelTypes
    <3>2. CASE ~(buffer[c].len > 0)
      BY <2>2, <3>2 DEF fetch_noblock, ChannelTypes
    <3> QED
      BY <3>1, <3>2
  <2>6. senders' \in [Channels -> Seq(Messages)]
    BY <2>2, <2>3 DEF fetch_noblock, ChannelTypes
  <2>7. ChannelTypes'
    BY <1>5, <2>5, <2>6 DEF NextFetches, ChannelTypes
  <2> QED
    BY <1>5, <2>1, <2>4, <2>7, StayCounting DEF NextFetches, Closers
<1>6. ASSUME NEW f \in Fibers, NEW c \in Channels, NextBlocks(f, c)
      PROVE  Typed'
  <2>1. Bookkeeping' /\ pc[f] = "run"
    BY <1>6, CallFlags DEF NextBlocks
  <2>2. FiberLists' /\ Counting'
    BY <1>6, <2>1, AwaitOpCounting DEF NextBlocks, Places, Awaiting
  <2>3. ChannelTypes'
    BY <1>6, <2>1 DEF NextBlocks, ChannelTypes
  <2>4. Closers'
    BY <1>6, MoveClosers DEF NextBlocks, AwaitOp, AwaitSuspend, ChannelTypes
  <2> QED
    BY <2>1, <2>2, <2>3, <2>4
<1>7. ASSUME NEW f \in Fibers, NEW c \in Channels, NEW err \in BOOLEAN,
             close(f, c, err)
      PROVE  Typed'
  <2>1. ChannelTypes'
    BY <1>7 DEF close, ChannelTypes
  <2>2. Closers'
    BY <1>7 DEF close, Closers, Counting, ChannelTypes
  <2>3. CASE MayCall(f) /\ Call(f) /\ pc' = [pc EXCEPT ![f] = "close"]
    <3>1. Bookkeeping' /\ pc[f] = "run"
      BY <1>7, <2>3, CallFlags DEF close
    <3>2. Counting'
      BY <1>7, <2>3, <3>1, MoveCounting DEF close, Places, Awaiting
    <3> QED
      BY <1>7, <2>1, <2>2, <3>1, <3>2 DEF close, FiberLists
  <2>4. CASE /\ f = Root /\ pc[Root] = "dispose"
             /\ pc' = [pc EXCEPT ![Root] = "shutdown"] /\ UNCHANGED calls
    <3>1. Counting'
      BY <1>7, <2>4, MoveCounting DEF close, Places, Awaiting
    <3> QED
      BY <1>7, <2>1, <2>2, <2>4, <3>1 DEF close, FiberLists, Bookkeeping
  <2> QED
    BY <1>7, <2>3, <2>4 DEF close
<1>8. ASSUME NEW f \in Fibers, SendReturns(f)
      PROVE  Typed'
  <2>1. FiberLists' /\ Counting'
    BY <1>8, AwaitDoneCounting DEF SendReturns, Awaiting
  <2>2. senders' \in [Channels -> Seq(Messages)]
    BY <1>8, RemoveList DEF SendReturns, ChannelTypes
  <2>3. ChannelTypes'
    BY <1>8, <2>2 DEF SendReturns, ChannelTypes
  <2>4. Closers'
    BY <1>8, MoveClosers DEF SendReturns, AwaitDone, AwaitResume, ChannelTypes
  <2> QED
    BY <1>8, <2>1, <2>3, <2>4 DEF SendReturns, Bookkeeping
<1>9. ASSUME NEW f \in Fibers, NextReturns(f)
      PROVE  Typed'
  <2>1. FiberLists' /\ Counting'
    BY <1>9, AwaitDoneCounting DEF NextReturns, Awaiting
  <2>2. receivers' \in [Channels -> Seq(Fibers)]
    BY <1>9, RemoveList DEF NextReturns, ChannelTypes
  <2>3. ChannelTypes'
    BY <1>9, <2>2 DEF NextReturns, ChannelTypes
  <2>4. Closers'
    BY <1>9, MoveClosers DEF NextReturns, AwaitDone, AwaitResume, ChannelTypes
  <2> QED
    BY <1>9, <2>1, <2>3, <2>4 DEF NextReturns, Bookkeeping
<1>10. ASSUME NEW f \in Fibers, timeout_channel_send_cb(f)
       PROVE  Typed'
  <2>1. FiberLists'
    BY <1>10, RescheduleType DEF timeout_channel_send_cb, OpStatus
  <2>2. senders' \in [Channels -> Seq(Messages)]
    BY <1>10, RemoveList DEF timeout_channel_send_cb, ChannelTypes
  <2>3. ChannelTypes'
    BY <1>10, <2>2 DEF timeout_channel_send_cb, ChannelTypes
  <2> QED
    BY <1>10, <2>1, <2>3, StayCounting
       DEF timeout_channel_send_cb, Bookkeeping, Closers
<1>11. ASSUME NEW c \in Channels, dispose_channel_send_timer_cb(c)
       PROVE  Typed'
  <2>1. senders' \in [Channels -> Seq(Messages)]
    BY <1>11, RemoveList DEF dispose_channel_send_timer_cb, ChannelTypes
  <2>2. ChannelTypes'
    BY <1>11, <2>1 DEF dispose_channel_send_timer_cb, ChannelTypes
  <2> QED
    BY <1>11, <2>2, StayCounting
       DEF dispose_channel_send_timer_cb, schedVars, FiberLists, Bookkeeping,
           Closers
<1>12. CASE DisposeReceiver
  <2> DEFINE c == on[cur]
             r == Head(receivers[c])
  <2>1. c \in Channels
    BY <1>12 DEF DisposeReceiver, Closing, Closers
  <2>2. r \in Fibers /\ Tail(receivers[c]) \in Seq(Fibers)
    BY <1>12, <2>1, HeadTailProperties DEF DisposeReceiver, ChannelTypes
  <2>3. FiberLists'
    BY <1>12, <2>2, RescheduleType
       DEF DisposeReceiver, CloseOutcome, OpStatus
  <2>4. ChannelTypes'
    BY <1>12, <2>2 DEF DisposeReceiver, ChannelTypes
  <2> QED
    BY <1>12, <2>3, <2>4, StayCounting
       DEF DisposeReceiver, Bookkeeping, Closers
<1>13. CASE DisposeSender
  <2> DEFINE c == on[cur]
             m == Head(senders[c])
  <2>1. c \in Channels
    BY <1>13 DEF DisposeSender, Closing, Closers
  <2>2. m \in Messages /\ Tail(senders[c]) \in Seq(Messages)
    BY <1>13, <2>1, HeadTailProperties DEF DisposeSender, ChannelTypes
  <2>3. FiberLists'
    BY <1>13, <2>2, CompleteType DEF DisposeSender, CloseOutcome, OpStatus
  <2>4. ChannelTypes'
    BY <1>13, <2>2 DEF DisposeSender, ChannelTypes
  <2> QED
    BY <1>13, <2>3, <2>4, StayCounting DEF DisposeSender, Bookkeeping, Closers
<1>14. CASE DisposeEnds
  <2>1. Counting'
    BY <1>14, MoveCounting
       DEF DisposeEnds, Closing, FiberLists, Places, Awaiting
  <2>2. ChannelTypes'
    BY <1>14 DEF DisposeEnds, Closing, ChannelTypes
  <2>3. Closers'
    <3> DEFINE l == IF pc[cur] = "close" THEN "run" ELSE "dispose"
    <3>1. l \notin {"close", "shutdown"}
      OBVIOUS
    <3>2. pc' = [pc EXCEPT ![cur] = l]
      BY <1>14 DEF DisposeEnds
    <3>3. \A g \in Fibers \ {cur} : on'[g] = on[g]
      BY <1>14 DEF DisposeEnds, ChannelTypes
    <3> HIDE DEF l
    <3> QED
      BY <3>1, <3>2, <3>3, MoveClosers
  <2> QED
    BY <1>14, <2>1, <2>2, <2>3 DEF DisposeEnds, FiberLists, Bookkeeping
<1>15. CASE SchedStep /\ UNCHANGED chanVars
  <2>1. FiberLists' /\ Counting' /\ Bookkeeping'
    BY <1>15, SchedStepTyped
  <2>2. \A f \in Fibers :
          pc'[f] \in {"close", "shutdown"} => pc[f] \in {"close", "shutdown"}
    BY <1>15
       DEF SchedStep, dispatch_tasks, run_task_fiber, run_scheduler_fiber,
           async_task_scheduler_dispose, DisposeDrain, CancelInvoke,
           CancelLoop, Counting
  <2> QED
    BY <1>15, <2>1, <2>2 DEF chanVars, ChannelTypes, Closers
<1>16. CASE UNCHANGED vars
  BY <1>16 DEF vars, FiberLists, Counting, Waiting, Bookkeeping, ChannelTypes,
         Closers
<1> QED
  BY <1>1, <1>2, <1>3, <1>4, <1>5, <1>6, <1>7, <1>8, <1>9, <1>10, <1>11,
     <1>12, <1>13, <1>14, <1>15, <1>16
     DEF Next, ChannelStep

\* The initial states are typed: nobody waits and the busy count is zero.
LEMMA InitTyped == Init => TypeOK /\ BusyExact
<1> SUFFICES ASSUME Init PROVE TypeOK /\ BusyExact
  OBVIOUS
<1> USE DEF Init, SchedInit
<1>1. ready \in Seq(Fibers)
  <2>1. Cardinality(Tasks) \in Nat
    BY SchedulerAssumption, FS_CardinalityType
  <2>2. ready \in Seq(Tasks)
    BY <2>1, SeqDef, Zenon
  <2> QED
    BY <2>2, SeqMonotonic DEF Fibers
<1>2. BusyExact
  <2>1. {f \in Fibers \ Background : pc[f] \in Awaiting} = {}
    BY DEF Awaiting
  <2> QED
    BY <2>1, FS_EmptySet DEF BusyExact
<1>3. SchedTypeOK
  <2>1. cur \in Fibers \cup {Runner}
    BY DEF Fibers
  <2>2. /\ status \in [Fibers -> TaskStatus] /\ op \in [Fibers -> OpStatus]
        /\ fibers \in Seq(Fibers \cup {Runner}) /\ callbacks \in Seq(Fibers)
    BY DEF TaskStatus, OpStatus
  <2>3. /\ calls \in [Fibers -> Nat] /\ busy \in Nat
        /\ \A f \in Fibers : calls[f] <= MaxCalls[f]
    BY SchedulerAssumption
  <2> QED
    BY <1>1, <2>1, <2>2, <2>3 DEF SchedTypeOK
<1>4. \A c \in Channels : buffer[c] \in Buffers(c)
  BY ChannelAssumption DEF Buffers
<1> QED
  BY <1>2, <1>3, <1>4 DEF TypeOK

\* Types, and the positions and lengths of every ring buffer, for any number
\* of tasks and channels and any capacities.
THEOREM TypeCorrect == Spec => []TypeOK
<1>1. Init => TypeOK /\ BusyExact
  BY InitTyped
<1>2. TypeOK /\ BusyExact /\ [Next]_vars => (TypeOK /\ BusyExact)'
  BY Regroup, StepTyped
<1> QED
  BY <1>1, <1>2, PTL DEF Spec

\* scheduler->busy_count is exactly the number of foreground fibers inside a
\* blocking call of a channel, through every interleaving of sends, receives,
\* closes, timeouts and cancellations: the loop neither hangs nor ends early.
THEOREM BusyCountExact == Spec => []BusyExact
<1>1. Init => TypeOK /\ BusyExact
  BY InitTyped
<1>2. TypeOK /\ BusyExact /\ [Next]_vars => (TypeOK /\ BusyExact)'
  BY Regroup, StepTyped
<1> QED
  BY <1>1, <1>2, PTL DEF Spec

-----------------------------------------------------------------------------
(***************************************************************************)
(* Blocked senders and blocked receivers.                                  *)
(***************************************************************************)

\* Lists that only lose elements, and buffers that stay, keep NoStrandedPair.
LEMMA ShrinkNoPair ==
  ASSUME NoStrandedPair, UNCHANGED buffer,
         \A c \in Channels : senders[c] = <<>> => senders'[c] = <<>>,
         \A c \in Channels : receivers[c] = <<>> => receivers'[c] = <<>>
  PROVE  NoStrandedPair'
  BY DEF NoStrandedPair

\* Every step keeps a blocked sender and a blocked receiver apart.
LEMMA StepNoPair ==
  ASSUME Typed, NoStrandedPair, [Next]_vars
  PROVE  NoStrandedPair'
<1> USE DEF Typed
<1>1. ASSUME NEW f \in Fibers, NEW c \in Channels, SendToReceiver(f, c)
      PROVE  NoStrandedPair'
  BY <1>1, ShrinkNoPair DEF SendToReceiver, ChannelTypes
<1>2. ASSUME NEW f \in Fibers, NEW c \in Channels, SendToBuffer(f, c)
      PROVE  NoStrandedPair'
  <2>1. receivers[c] = <<>> /\ senders[c] = <<>>
    BY <1>2, ChannelAssumption DEF SendToBuffer, NoStrandedPair
  <2> QED
    BY <1>2, <2>1 DEF SendToBuffer, NoStrandedPair, ChannelTypes
<1>3. ASSUME NEW f \in Fibers, NEW c \in Channels,
             SendRefused(f, c) \/ \E timed \in BOOLEAN : SendBlocks(f, c, timed)
      PROVE  NoStrandedPair'
  <2>1. receivers[c] = <<>> /\ buffer[c].len = Size[c]
    BY <1>3, ChannelAssumption
       DEF SendRefused, SendBlocks, ChannelTypes, Buffers
  <2>2. /\ \A d \in Channels \ {c} : senders'[d] = senders[d]
        /\ UNCHANGED <<receivers, buffer>>
    BY <1>3 DEF SendRefused, SendBlocks, ChannelTypes
  <2> QED
    BY <2>1, <2>2 DEF NoStrandedPair
<1>4. ASSUME NEW f \in Fibers, NEW c \in Channels, NextFetches(f, c)
      PROVE  NoStrandedPair'
  <2>1. fetch_noblock(c) /\ UNCHANGED receivers /\ buffer[c] \in Buffers(c)
    BY <1>4 DEF NextFetches, ChannelTypes
  <2>2. /\ buffer[c].len \in Nat
        /\ senders[c] # <<>> => /\ Head(senders[c]) \in Messages
                                /\ buffer[c].len = Size[c]
    BY <2>1, HeadTailProperties, ChannelAssumption
       DEF ChannelTypes, Buffers, NoStrandedPair
  <2>3. receivers[c] = <<>>
    BY <2>1, <2>2 DEF fetch_noblock, NoStrandedPair
  <2>4. senders'[c] # <<>> => buffer'[c].len = Size[c]
    <3>1. CASE senders[c] = <<>>
      BY <2>1, <3>1 DEF fetch_noblock
    <3>2. CASE senders[c] # <<>> /\ buffer[c].len > 0
      <4>1. buffer' = [buffer EXCEPT ![c] =
                         Write(c, Advance(c), Head(senders[c]))]
        BY <2>1, <3>2 DEF fetch_noblock
      <4> QED
        BY <2>1, <2>2, <3>2, <4>1, FetchType DEF ChannelTypes
    <3>3. CASE senders[c] # <<>> /\ ~(buffer[c].len > 0)
      BY <2>1, <2>2, <3>3 DEF fetch_noblock
    <3> QED
      BY <3>1, <3>2, <3>3
  <2>5. \A d \in Channels \ {c} :
          senders'[d] = senders[d] /\ buffer'[d] = buffer[d]
    BY <2>1 DEF fetch_noblock, ChannelTypes
  <2> QED
    BY <2>1, <2>3, <2>4, <2>5 DEF NoStrandedPair
<1>5. ASSUME NEW f \in Fibers, NEW c \in Channels, NextBlocks(f, c)
      PROVE  NoStrandedPair'
  BY <1>5 DEF NextBlocks, NoStrandedPair, ChannelTypes
<1>6. ASSUME NEW f \in Fibers, NEW c \in Channels, NEW err \in BOOLEAN,
             close(f, c, err)
      PROVE  NoStrandedPair'
  BY <1>6 DEF close, NoStrandedPair
<1>7. ASSUME NEW f \in Fibers, SendReturns(f)
      PROVE  NoStrandedPair'
  BY <1>7, ShrinkNoPair, RemoveList DEF SendReturns, ChannelTypes
<1>8. ASSUME NEW f \in Fibers, NextReturns(f)
      PROVE  NoStrandedPair'
  BY <1>8, ShrinkNoPair, RemoveList DEF NextReturns, ChannelTypes
<1>9. ASSUME NEW f \in Fibers, timeout_channel_send_cb(f)
      PROVE  NoStrandedPair'
  BY <1>9, ShrinkNoPair, RemoveList DEF timeout_channel_send_cb, ChannelTypes
<1>10. ASSUME NEW c \in Channels, dispose_channel_send_timer_cb(c)
       PROVE  NoStrandedPair'
  BY <1>10, ShrinkNoPair, RemoveList
     DEF dispose_channel_send_timer_cb, ChannelTypes
<1>11. CASE DisposeReceiver
  BY <1>11, ShrinkNoPair DEF DisposeReceiver, ChannelTypes
<1>12. CASE DisposeSender
  BY <1>12, ShrinkNoPair DEF DisposeSender, ChannelTypes
<1>13. CASE DisposeEnds
  BY <1>13 DEF DisposeEnds, NoStrandedPair
<1>14. CASE UNCHANGED chanVars \/ UNCHANGED vars
  BY <1>14 DEF chanVars, vars, NoStrandedPair
<1> QED
  BY <1>1, <1>2, <1>3, <1>4, <1>5, <1>6, <1>7, <1>8, <1>9, <1>10, <1>11,
     <1>12, <1>13, <1>14
     DEF Next, ChannelStep

\* A blocked sender and a blocked receiver never face each other on a channel
\* of any capacity, and a sender only blocks on a full buffer: no close,
\* timeout, cancellation or refused send leaves a message that a receiver
\* waits for unseen.
THEOREM NeverStranded == Spec => []NoStrandedPair
<1>1. Init => TypeOK /\ BusyExact /\ NoStrandedPair
  BY InitTyped DEF Init, NoStrandedPair
<1>2. TypeOK /\ BusyExact /\ NoStrandedPair /\ [Next]_vars
        => (TypeOK /\ BusyExact /\ NoStrandedPair)'
  BY Regroup, StepTyped, StepNoPair
<1> QED
  BY <1>1, <1>2, PTL DEF Spec

-----------------------------------------------------------------------------
(***************************************************************************)
(* Lists in two parts, and the removal of an element at its place.         *)
(***************************************************************************)

\* Positions in a concatenation.
LEMMA ConcatAt ==
  ASSUME NEW S, NEW s \in Seq(S), NEW t \in Seq(S)
  PROVE  /\ s \o t \in Seq(S) /\ Len(s) \in Nat /\ Len(t) \in Nat
         /\ Len(s \o t) = Len(s) + Len(t)
         /\ \A i \in 1..Len(s) : (s \o t)[i] = s[i]
         /\ \A i \in 1..Len(t) : (s \o t)[Len(s) + i] = t[i]
<1> DEFINE a == s \o t
<1>1. /\ a \in Seq(S) /\ Len(a) = Len(s) + Len(t)
      /\ \A i \in 1..Len(s) + Len(t) :
           a[i] = IF i <= Len(s) THEN s[i] ELSE t[i - Len(s)]
  BY ConcatProperties
<1> HIDE DEF a
<1>2. Len(s) \in Nat /\ Len(t) \in Nat
  BY InList
<1>3. \A i \in 1..Len(s) : a[i] = s[i]
  BY <1>1, <1>2
<1>4. ASSUME NEW i \in 1..Len(t) PROVE a[Len(s) + i] = t[i]
  <2>1. /\ Len(s) + i \in 1..Len(s) + Len(t) /\ ~(Len(s) + i <= Len(s))
        /\ (Len(s) + i) - Len(s) = i
    BY <1>2
  <2> QED
    BY <1>1, <2>1
<1> QED
  BY <1>1, <1>2, <1>3, <1>4 DEF a

\* A message behind a queue of which the rear part was extended.
LEMMA ConcatAppend ==
  ASSUME NEW S, NEW s \in Seq(S), NEW t \in Seq(S), NEW m \in S
  PROVE  s \o Append(t, m) = Append(s \o t, m)
<1>1. PICK u : u = Append(t, m)
  OBVIOUS
<1>2. PICK a : a = s \o t
  OBVIOUS
<1>3. u \in Seq(S) /\ Len(u) = Len(t) + 1 /\ u[Len(t) + 1] = m
      /\ \A i \in 1..Len(t) : u[i] = t[i]
  BY <1>1, AppendAt, AppendList
<1>4. /\ a \in Seq(S) /\ Len(a) = Len(s) + Len(t)
      /\ Len(s) \in Nat /\ Len(t) \in Nat
      /\ \A i \in 1..Len(s) : a[i] = s[i]
      /\ \A i \in 1..Len(t) : a[Len(s) + i] = t[i]
  BY <1>2, ConcatAt
<1>5. PICK d : d = Append(a, m)
  OBVIOUS
<1>6. PICK b : b = s \o u
  OBVIOUS
<1>7. d \in Seq(S) /\ Len(d) = Len(a) + 1 /\ d[Len(a) + 1] = m
      /\ \A i \in 1..Len(a) : d[i] = a[i]
  <2>1. a \in Seq(S)
    BY <1>4
  <2> QED
    BY <1>5, <2>1, AppendAt, AppendList
<1>8. /\ b \in Seq(S) /\ Len(b) = Len(s) + Len(u)
      /\ \A i \in 1..Len(s) : b[i] = s[i]
      /\ \A i \in 1..Len(u) : b[Len(s) + i] = u[i]
  <2>1. u \in Seq(S)
    BY <1>3
  <2> QED
    BY <1>6, <2>1, ConcatAt
<1>9. ASSUME NEW i \in 1..Len(b) PROVE b[i] = d[i]
  <2>1. CASE i <= Len(s)
    BY <1>3, <1>4, <1>7, <1>8, <2>1
  <2>2. CASE i > Len(s)
    <3>1. PICK k \in 1..Len(u) : i = Len(s) + k
      <4>1. i - Len(s) \in 1..Len(u) /\ i = Len(s) + (i - Len(s))
        BY <1>3, <1>4, <1>8, <2>2
      <4> QED
        BY <4>1
    <3>2. CASE k = Len(t) + 1
      <4>1. i = Len(a) + 1
        BY <1>4, <3>1, <3>2
      <4> QED
        BY <1>3, <1>7, <1>8, <3>1, <3>2, <4>1
    <3>3. CASE k # Len(t) + 1
      <4>1. k \in 1..Len(t) /\ i \in 1..Len(a)
        BY <1>3, <1>4, <3>1, <3>3
      <4> QED
        BY <1>3, <1>4, <1>7, <1>8, <3>1, <4>1
    <3> QED
      BY <3>2, <3>3
  <2> QED
    BY <1>4, <2>1, <2>2
<1>10. Len(b) = Len(d)
  BY <1>3, <1>4, <1>7, <1>8
<1>11. b = d
  BY <1>7, <1>8, <1>9, <1>10, SeqEqual
<1> QED
  BY <1>1, <1>2, <1>5, <1>6, <1>11, Zenon

\* The first message of a queue in two parts is that of the front part.
LEMMA ConcatTail ==
  ASSUME NEW S, NEW s \in Seq(S), NEW t \in Seq(S), s # <<>>
  PROVE  /\ s \o t # <<>> /\ Head(s \o t) = Head(s)
         /\ Tail(s \o t) = Tail(s) \o t
<1>1. PICK a : a = s \o t
  OBVIOUS
<1>2. PICK r : r = Tail(s)
  OBVIOUS
<1>3. /\ a \in Seq(S) /\ Len(a) = Len(s) + Len(t)
      /\ Len(s) \in Nat /\ Len(t) \in Nat
      /\ \A i \in 1..Len(s) : a[i] = s[i]
      /\ \A i \in 1..Len(t) : a[Len(s) + i] = t[i]
  BY <1>1, ConcatAt
<1>4. Len(s) > 0
  BY <1>3, EmptySeq
<1>5. r \in Seq(S) /\ Len(r) = Len(s) - 1 /\ \A i \in 1..Len(r) : r[i] = s[i + 1]
  BY <1>2, HeadTailProperties
<1>6. a # <<>> /\ Head(a) = a[1] /\ Head(s) = s[1]
  BY <1>3, <1>4, EmptySeq
<1>7. PICK d : d = Tail(a)
  OBVIOUS
<1>8. PICK b : b = r \o t
  OBVIOUS
<1>9. d \in Seq(S) /\ Len(d) = Len(a) - 1 /\ \A i \in 1..Len(d) : d[i] = a[i + 1]
  BY <1>3, <1>6, <1>7, HeadTailProperties
<1>10. /\ b \in Seq(S) /\ Len(b) = Len(r) + Len(t)
       /\ \A i \in 1..Len(r) : b[i] = r[i]
       /\ \A i \in 1..Len(t) : b[Len(r) + i] = t[i]
  BY <1>5, <1>8, ConcatAt
<1>11. Len(b) = Len(d)
  BY <1>3, <1>5, <1>9, <1>10
<1>12. ASSUME NEW i \in 1..Len(b) PROVE b[i] = d[i]
  <2>1. CASE i <= Len(r)
    BY <1>3, <1>5, <1>9, <1>10, <1>11, <2>1
  <2>2. CASE i > Len(r)
    <3>1. i - Len(r) \in 1..Len(t) /\ i = Len(r) + (i - Len(r))
          /\ i + 1 = Len(s) + (i - Len(r))
      BY <1>3, <1>5, <1>10, <2>2
    <3>2. b[i] = t[i - Len(r)] /\ a[i + 1] = t[i - Len(r)]
      BY <1>3, <1>10, <3>1
    <3> QED
      BY <1>9, <1>11, <3>2
  <2> QED
    BY <1>3, <1>5, <2>1, <2>2
<1>13. b = d
  BY <1>9, <1>10, <1>11, <1>12, SeqEqual
<1>14. Head(a) = Head(s)
  BY <1>3, <1>4, <1>6
<1> QED
  BY <1>1, <1>2, <1>6, <1>7, <1>8, <1>13, <1>14, Zenon

\* Moving the first message of the rear part behind the front part changes
\* nothing.
LEMMA ConcatMove ==
  ASSUME NEW S, NEW s \in Seq(S), NEW t \in Seq(S), t # <<>>
  PROVE  Append(s, Head(t)) \o Tail(t) = s \o t
<1>1. PICK e, u, r, b : /\ e = Head(t) /\ u = Append(s, e) /\ r = Tail(t)
                        /\ b = s \o t
  OBVIOUS
<1>2. e \in S /\ e = t[1] /\ Len(t) > 0
  BY <1>1, HeadTailProperties, EmptySeq, InList
<1>3. u \in Seq(S) /\ Len(u) = Len(s) + 1 /\ u[Len(s) + 1] = e
      /\ \A i \in 1..Len(s) : u[i] = s[i]
  BY <1>1, <1>2, AppendAt, AppendList
<1>4. r \in Seq(S) /\ Len(r) = Len(t) - 1 /\ \A i \in 1..Len(r) : r[i] = t[i + 1]
  BY <1>1, HeadTailProperties
<1>5. /\ b \in Seq(S) /\ Len(b) = Len(s) + Len(t)
      /\ Len(s) \in Nat /\ Len(t) \in Nat
      /\ \A i \in 1..Len(s) : b[i] = s[i]
      /\ \A i \in 1..Len(t) : b[Len(s) + i] = t[i]
  BY <1>1, ConcatAt
<1>6. PICK a : a = u \o r
  OBVIOUS
<1>7. /\ a \in Seq(S) /\ Len(a) = Len(u) + Len(r)
      /\ \A i \in 1..Len(u) : a[i] = u[i]
      /\ \A i \in 1..Len(r) : a[Len(u) + i] = r[i]
  <2>1. u \in Seq(S) /\ r \in Seq(S)
    BY <1>3, <1>4
  <2> QED
    BY <1>6, <2>1, ConcatAt
<1>8. Len(a) = Len(b)
  BY <1>3, <1>4, <1>5, <1>7
<1>9. ASSUME NEW i \in 1..Len(a) PROVE a[i] = b[i]
  <2>1. CASE i <= Len(s)
    BY <1>3, <1>5, <1>7, <2>1
  <2>2. CASE i = Len(s) + 1
    <3>1. 1 \in 1..Len(t) /\ i \in 1..Len(u)
      BY <1>2, <1>3, <1>5, <2>2
    <3> QED
      BY <1>2, <1>3, <1>5, <1>7, <2>2, <3>1
  <2>3. CASE i > Len(s) + 1
    <3>1. PICK j : j = i - Len(u)
      OBVIOUS
    <3>2. j \in 1..Len(r) /\ i = Len(u) + j
          /\ i = Len(s) + (j + 1) /\ j + 1 \in 1..Len(t)
      <4>1. /\ Len(s) \in Nat /\ Len(t) \in Nat /\ Len(u) = Len(s) + 1
            /\ Len(r) = Len(t) - 1 /\ Len(a) = Len(u) + Len(r) /\ i \in 1..Len(a)
        BY <1>3, <1>4, <1>5, <1>7
      <4> QED
        BY ONLY <2>3, <3>1, <4>1
    <3>3. a[i] = r[j] /\ b[i] = t[j + 1] /\ r[j] = t[j + 1]
      BY <1>4, <1>5, <1>7, <3>2
    <3> QED
      BY <3>3
  <2> QED
    BY <1>5, <2>1, <2>2, <2>3
<1>10. a = b
  BY <1>5, <1>7, <1>8, <1>9, SeqEqual
<1> QED
  BY <1>1, <1>6, <1>10, Zenon

\* The positions after an element was removed.
LEMMA RemoveAtList ==
  ASSUME NEW S, NEW s \in Seq(S), NEW i \in 1..Len(s)
  PROVE  /\ RemoveAt(s, i) \in Seq(S) /\ Len(RemoveAt(s, i)) = Len(s) - 1
         /\ \A k \in 1..(Len(s) - 1) :
              RemoveAt(s, i)[k] = IF k < i THEN s[k] ELSE s[k + 1]
<1>1. Len(s) \in Nat /\ \A k \in 1..Len(s) : s[k] \in S
  BY LenProperties
<1>2. PICK a, b : a = SubSeq(s, 1, i - 1) /\ b = SubSeq(s, i + 1, Len(s))
  OBVIOUS
<1>3. /\ a \in Seq(S) /\ Len(a) = i - 1
      /\ \A k \in 1..(i - 1) : a[k] = s[k]
  <2>1. /\ a \in Seq(S) /\ Len(a) = IF 1 <= i - 1 THEN i - 1 - 1 + 1 ELSE 0
        /\ \A k \in 1..(i - 1) - 1 + 1 : a[k] = s[1 + k - 1]
    BY <1>1, <1>2, SubSeqProperties
  <2> QED
    BY <1>1, <2>1
<1>4. /\ b \in Seq(S) /\ Len(b) = Len(s) - i
      /\ \A k \in 1..(Len(s) - i) : b[k] = s[i + k]
  <2>1. /\ b \in Seq(S)
        /\ Len(b) = IF i + 1 <= Len(s) THEN Len(s) - (i + 1) + 1 ELSE 0
        /\ \A k \in 1..Len(s) - (i + 1) + 1 : b[k] = s[(i + 1) + k - 1]
    BY <1>1, <1>2, SubSeqProperties
  <2>2. ASSUME NEW k \in 1..(Len(s) - i) PROVE b[k] = s[i + k]
    <3>1. k \in 1..Len(s) - (i + 1) + 1 /\ (i + 1) + k - 1 = i + k
      BY <1>1
    <3>2. b[k] = s[(i + 1) + k - 1]
      BY <2>1, <3>1
    <3> QED
      BY <3>1, <3>2
  <2>3. Len(b) = Len(s) - i
    <3>1. \A n \in Nat : \A j \in 1..n :
            (IF j + 1 <= n THEN n - (j + 1) + 1 ELSE 0) = n - j
      OBVIOUS
    <3> QED
      BY <1>1, <2>1, <3>1, Zenon
  <2> QED
    BY <2>1, <2>2, <2>3, Zenon
<1>5. PICK d : d = a \o b
  OBVIOUS
<1>6. /\ d \in Seq(S) /\ Len(d) = Len(a) + Len(b)
      /\ \A k \in 1..Len(a) : d[k] = a[k]
      /\ \A k \in 1..Len(b) : d[Len(a) + k] = b[k]
  <2>1. a \in Seq(S) /\ b \in Seq(S)
    BY <1>3, <1>4
  <2> QED
    BY <1>5, <2>1, ConcatAt
<1>7. ASSUME NEW k \in 1..(Len(s) - 1)
      PROVE  d[k] = IF k < i THEN s[k] ELSE s[k + 1]
  <2>1. CASE k < i
    BY <1>1, <1>3, <1>6, <2>1
  <2>2. CASE k >= i
    <3>1. PICK h : h = k - (i - 1)
      OBVIOUS
    <3>2. h \in 1..Len(b) /\ k = Len(a) + h
          /\ i + h = k + 1 /\ h \in 1..(Len(s) - i)
      BY <1>1, <1>3, <1>4, <2>2, <3>1
    <3>3. d[k] = b[h] /\ b[h] = s[i + h]
      BY <1>4, <1>6, <3>2
    <3>4. d[k] = s[k + 1] /\ ~(k < i)
      BY <2>2, <3>2, <3>3
    <3> QED
      BY <3>4, Zenon
  <2> QED
    BY <1>1, <2>1, <2>2
<1>8. RemoveAt(s, i) = d
  BY <1>2, <1>5 DEF RemoveAt
<1>9. Len(d) = Len(s) - 1
  BY <1>1, <1>3, <1>4, <1>6
<1> QED
  BY <1>6, <1>7, <1>8, <1>9

\* Removing an element of the rear part.
LEMMA ConcatRemove ==
  ASSUME NEW S, NEW s \in Seq(S), NEW t \in Seq(S), NEW j \in 1..Len(t)
  PROVE  /\ Len(s) + j \in 1..Len(s \o t) /\ (s \o t)[Len(s) + j] = t[j]
         /\ s \o RemoveAt(t, j) = RemoveAt(s \o t, Len(s) + j)
<1>1. PICK a, r : a = s \o t /\ r = RemoveAt(t, j)
  OBVIOUS
<1>2. /\ a \in Seq(S) /\ Len(a) = Len(s) + Len(t)
      /\ Len(s) \in Nat /\ Len(t) \in Nat
      /\ \A k \in 1..Len(s) : a[k] = s[k]
      /\ \A k \in 1..Len(t) : a[Len(s) + k] = t[k]
  BY <1>1, ConcatAt
<1>3. /\ r \in Seq(S) /\ Len(r) = Len(t) - 1
      /\ \A k \in 1..(Len(t) - 1) : r[k] = IF k < j THEN t[k] ELSE t[k + 1]
  BY <1>1, RemoveAtList
<1>4. PICK i : i = Len(s) + j
  OBVIOUS
<1>5. i \in 1..Len(a) /\ a[i] = t[j]
  BY <1>2, <1>4
<1>6. PICK b, d : b = s \o r /\ d = RemoveAt(a, i)
  OBVIOUS
<1>7. /\ d \in Seq(S) /\ Len(d) = Len(a) - 1
      /\ \A k \in 1..(Len(a) - 1) : d[k] = IF k < i THEN a[k] ELSE a[k + 1]
  BY <1>2, <1>5, <1>6, RemoveAtList
<1>8. /\ b \in Seq(S) /\ Len(b) = Len(s) + Len(r)
      /\ \A k \in 1..Len(s) : b[k] = s[k]
      /\ \A k \in 1..Len(r) : b[Len(s) + k] = r[k]
  BY <1>3, <1>6, ConcatAt
<1>9. Len(b) = Len(d)
  BY <1>2, <1>3, <1>7, <1>8
<1>10. ASSUME NEW k \in 1..Len(b) PROVE b[k] = d[k]
  <2>0. k \in 1..(Len(a) - 1)
    BY <1>2, <1>3, <1>8
  <2>1. CASE k <= Len(s)
    <3>1. k \in 1..Len(s) /\ k < i
      BY <1>2, <1>4, <2>1
    <3> QED
      BY <1>2, <1>7, <1>8, <2>0, <3>1
  <2>2. CASE k > Len(s)
    <3>1. PICK h : h = k - Len(s)
      OBVIOUS
    <3>2. /\ h \in 1..Len(r) /\ k = Len(s) + h /\ h \in 1..Len(t)
          /\ h + 1 \in 1..Len(t) /\ (h < j <=> k < i)
          /\ k + 1 = Len(s) + (h + 1) /\ h \in 1..(Len(t) - 1)
      BY <1>2, <1>3, <1>4, <1>8, <2>2, <3>1
    <3>3. b[k] = IF h < j THEN t[h] ELSE t[h + 1]
      BY <1>3, <1>8, <3>2
    <3>4. a[k] = t[h] /\ a[k + 1] = t[h + 1]
      BY <1>2, <3>2
    <3>5. d[k] = IF k < i THEN a[k] ELSE a[k + 1]
      BY <1>7, <2>0
    <3> QED
      BY <3>2, <3>3, <3>4, <3>5, Zenon
  <2> QED
    BY <1>2, <2>1, <2>2
<1>11. b = d
  BY <1>7, <1>8, <1>9, <1>10, SeqEqual
<1> QED
  BY <1>1, <1>4, <1>5, <1>6, <1>11, Zenon

-----------------------------------------------------------------------------
(***************************************************************************)
(* The invariant from which the refinement follows.                        *)
(***************************************************************************)

\* The messages of the calls made so far, and the content of an empty slot.
Old == {m \in Messages \cup {NoMsg} : m # NoMsg => m[2] < calls[m[1]]}

\* The places inside a call that blocks.
Blocking == {"send", "recv", "gsend", "select"}

\* Nothing is listed, buffered, handed over or delivered but what was sent.
Named ==
  /\ senders \in [Channels -> Seq(Old)]
  /\ got \in [Channels -> Seq(Old)]
  /\ result \in [Fibers -> Old]
  /\ \A c \in Channels : buffer[c].data \in [0..(Size[c] - 1) -> Old]

\* The write position lies behind the buffered messages.
Rings ==
  \A c \in Channels :
    Size[c] > 0 => buffer[c].wpos = (buffer[c].rpos + buffer[c].len) % Size[c]

\* A blocked call on one channel has its channel, and whoever is not blocked
\* any more runs.
Suspended ==
  /\ defer = {}
  /\ \A f \in Fibers :
       /\ pc[f] \in Blocking => op[f] = "RUNNING" \/ f = cur
       /\ pc[f] \in {"send", "recv"} => on[f] \in Channels
       /\ pc[f] \in {"close", "shutdown"} => closed[on[f]]

\* A send operation is listed as long as it is pending; one that nobody awaits
\* has been given up, and the message of a send on one channel is listed there.
Sending ==
  /\ \A f \in Fibers :
       /\ value[f] # NoMsg => pc[f] \in {"send", "gsend"} /\ Owner(value[f]) = f
       /\ pc[f] = "send" /\ op[f] = "RUNNING" =>
            value[f] \in Range(senders[on[f]])
  /\ \A c \in Channels : \A m \in Range(senders[c]) :
       IF Dead(m) THEN m \in dropped
       ELSE pc[Owner(m)] = "gsend" \/ on[Owner(m)] = c

\* Receivers are listed with the channel they read, unless they select, and
\* have a message only between the send that resumed them and their return.
Receiving ==
  /\ \A c \in Channels :
       /\ IsInjective(receivers[c])
       /\ \A r \in Range(receivers[c]) :
            pc[r] = "select" \/ (pc[r] = "recv" /\ on[r] = c)
  /\ \A f \in Fibers :
       /\ result[f] # NoMsg =>
            /\ f = cur /\ pc[f] \in {"recv", "select"} /\ op[f] = "RESOLVED"
            /\ on[f] \in Channels /\ (pc[f] = "recv" => ~closed[on[f]])
       /\ pc[f] = "recv" /\ op[f] = "RESOLVED" /\ ~closed[on[f]] =>
            result[f] # NoMsg
       /\ pc[f] = "select" /\ op[f] = "RESOLVED" /\ on[f] # NoChan =>
            result[f] # NoMsg
       /\ pc[f] = "select" /\ op[f] = "RUNNING" => on[f] = NoChan

\* Without groups nobody waits for several channels.
Ungrouped == \A f \in Fibers : pc[f] \notin {"gsend", "select", "wild"}

Orderly == Named /\ Rings /\ Suspended /\ Sending /\ Receiving /\ Ungrouped

\* A message stays one that was sent.
LEMMA OldGrows ==
  ASSUME Bookkeeping, UNCHANGED calls \/ \E f \in Fibers : Call(f)
  PROVE  Old \subseteq Old'
<1>1. \A f \in Fibers : calls[f] \in Nat /\ calls'[f] \in Nat /\ calls[f] <= calls'[f]
  BY DEF Bookkeeping, Call
<1>2. ASSUME NEW m \in Messages, m[2] < calls[m[1]] PROVE m[2] < calls'[m[1]]
  <2>1. m[1] \in Fibers /\ m[2] \in Nat
    BY DEF Messages
  <2> QED
    BY <1>1, <1>2, <2>1
<1> QED
  BY <1>2 DEF Old, Messages

\* The message of a new call is none of those.
LEMMA NewMessage ==
  ASSUME Bookkeeping, NEW f \in Fibers, Call(f)
  PROVE  /\ Msg(f) \in Messages /\ Msg(f) # NoMsg /\ Owner(Msg(f)) = f
         /\ Msg(f) \notin Old /\ Msg(f) \in Old'
<1>1. calls[f] \in Nat /\ calls'[f] = calls[f] + 1
  BY DEF Bookkeeping, Call
<1>2. /\ Msg(f) \in Messages /\ Msg(f) # NoMsg
      /\ Msg(f)[1] = f /\ Msg(f)[2] = calls[f]
  BY <1>1 DEF Msg, Messages, NoMsg
<1>3. ~(calls[f] < calls[f]) /\ calls[f] < calls'[f]
  BY <1>1
<1> QED
  BY <1>2, <1>3 DEF Old, Owner, Messages

\* Unlinking leaves the other elements listed.
LEMMA UnlinkKeeps ==
  ASSUME NEW S, NEW s \in Seq(S), NEW e
  PROVE  Range(s) \ {e} \subseteq Range(ASYNC_LIST_REMOVE(s, e))
<1>1. CASE e \notin Range(s)
  BY <1>1 DEF ASYNC_LIST_REMOVE
<1>2. CASE e \in Range(s)
  <2>1. PICK u : u = ASYNC_LIST_REMOVE(s, e)
    OBVIOUS
  <2>2. PICK i \in 1..Len(s) :
          /\ s[i] = e /\ u \in Seq(S) /\ Len(u) = Len(s) - 1
          /\ \A k \in 1..(Len(s) - 1) : u[k] = IF k < i THEN s[k] ELSE s[k + 1]
    BY <1>2, <2>1, Unlink
  <2>3. ASSUME NEW x \in Range(s), x # e PROVE x \in Range(u)
    <3>1. PICK j \in 1..Len(s) : s[j] = x
      BY InList
    <3>2. j # i /\ Len(s) \in Nat
      BY <2>2, <2>3, <3>1, InList
    <3>3. CASE j < i
      <4>1. j \in 1..Len(u) /\ u[j] = s[j]
        BY <2>2, <3>2, <3>3
      <4> QED
        BY <2>2, <3>1, <4>1, InList
    <3>4. CASE j > i
      <4>1. PICK k : k = j - 1
        OBVIOUS
      <4>2. k \in 1..Len(u) /\ k \in 1..(Len(s) - 1) /\ ~(k < i) /\ k + 1 = j
        BY <2>2, <3>2, <3>4, <4>1
      <4>3. u[k] = s[j]
        BY <2>2, <4>2
      <4> QED
        BY <2>2, <3>1, <4>2, <4>3, InList
    <3> QED
      BY <3>2, <3>3, <3>4
  <2> QED
    BY <2>1, <2>3
<1> QED
  BY <1>1, <1>2

\* Every call of the library counts.
LEMMA StepCalls ==
  ASSUME [Next]_vars
  PROVE  UNCHANGED calls \/ \E f \in Fibers : Call(f)
<1>1. CASE SchedStep
  BY <1>1 DEF SchedStep, dispatch_tasks, run_task_fiber,
     async_task_scheduler_dispose, run_scheduler_fiber, DisposeDrain,
     CancelInvoke, CancelLoop, MayCall
<1>2. ASSUME NEW f \in Fibers, NEW c \in Channels, ChannelStep(f, c)
      PROVE  UNCHANGED calls \/ Call(f)
  BY <1>2 DEF ChannelStep, SendToReceiver, SendToBuffer, SendBlocks,
     SendRefused, NextFetches, NextBlocks, close, MaySend
<1> QED
  BY <1>1, <1>2 DEF Next, vars, SendReturns, NextReturns,
     timeout_channel_send_cb, dispose_channel_send_timer_cb, schedVars,
     DisposeReceiver, DisposeSender, DisposeEnds

\* Every step keeps Named.
LEMMA StepNamed ==
  ASSUME Typed, Named, [Next]_vars
  PROVE  Named'
<1> USE DEF Typed
<1>1. PICK S : S = Old' /\ Old \subseteq S
  BY StepCalls, OldGrows
<1>2. Seq(Old) \subseteq Seq(S)
  BY <1>1, SeqMonotonic
<1>3. /\ senders \in [Channels -> Seq(S)] /\ got \in [Channels -> Seq(S)]
      /\ result \in [Fibers -> S]
      /\ \A c \in Channels : buffer[c].data \in [0..(Size[c] - 1) -> S]
  BY <1>1, <1>2 DEF Named
<1>4. /\ senders' \in [Channels -> Seq(S)] /\ got' \in [Channels -> Seq(S)]
      /\ result' \in [Fibers -> S]
      /\ \A c \in Channels : buffer'[c].data \in [0..(Size[c] - 1) -> S]
      => Named'
  BY <1>1 DEF Named
<1>5. NoMsg \in S
  BY <1>1 DEF Old
<1> HIDE DEF Typed
<1>6. ASSUME NEW f \in Fibers, NEW c \in Channels, SendToReceiver(f, c)
      PROVE  Named'
  <2>1. Msg(f) \in S
    BY <1>1, <1>6, NewMessage DEF SendToReceiver, MaySend, Typed
  <2>2. result' = [result EXCEPT ![Head(receivers[c])] = Msg(f)]
        /\ UNCHANGED <<senders, got, buffer>>
    BY <1>6 DEF SendToReceiver
  <2> QED
    BY <1>3, <1>4, <2>1, <2>2
<1>7. ASSUME NEW f \in Fibers, NEW c \in Channels, SendToBuffer(f, c)
      PROVE  Named'
  <2>1. Msg(f) \in S
    BY <1>1, <1>7, NewMessage DEF SendToBuffer, MaySend, Typed
  <2>2. /\ buffer' = [buffer EXCEPT ![c] = Put(c, Msg(f))]
        /\ UNCHANGED <<senders, got, result>>
    BY <1>7 DEF SendToBuffer
  <2>3. /\ Put(c, Msg(f)).data = [buffer[c].data EXCEPT ![buffer[c].wpos] = Msg(f)]
        /\ \A d \in Channels : buffer'[d] = IF d = c THEN Put(c, Msg(f)) ELSE buffer[d]
    <3>1. buffer[c] \in Buffers(c) /\ DOMAIN buffer = Channels
      BY DEF Typed, ChannelTypes
    <3>2. Put(c, Msg(f)).data = [buffer[c].data EXCEPT ![buffer[c].wpos] = Msg(f)]
      BY <3>1 DEF Put, Write, Buffers
    <3> QED
      BY <2>2, <3>1, <3>2
  <2>4. \A d \in Channels : buffer'[d].data \in [0..(Size[d] - 1) -> S]
    <3>1. buffer[c].data \in [0..(Size[c] - 1) -> S]
      BY <1>3
    <3>2. Put(c, Msg(f)).data \in [0..(Size[c] - 1) -> S]
      BY <2>1, <2>3, <3>1
    <3> QED
      BY <1>3, <2>3, <3>2
  <2> QED
    BY <1>3, <1>4, <2>2, <2>4
<1>8. ASSUME NEW f \in Fibers, NEW c \in Channels,
             SendRefused(f, c) \/ \E timed \in BOOLEAN : SendBlocks(f, c, timed)
      PROVE  Named'
  <2>1. Msg(f) \in S
    BY <1>1, <1>8, NewMessage DEF SendBlocks, SendRefused, MaySend, Typed
  <2>2. /\ senders' = [senders EXCEPT ![c] = Append(@, Msg(f))]
        /\ UNCHANGED <<buffer, got, result>>
    BY <1>8 DEF SendBlocks, SendRefused
  <2>3. Append(senders[c], Msg(f)) \in Seq(S)
    BY <1>3, <2>1
  <2> QED
    BY <1>3, <1>4, <2>2, <2>3
<1>9. ASSUME NEW f \in Fibers, NEW c \in Channels, NextFetches(f, c)
      PROVE  Named'
  <2>1. fetch_noblock(c) /\ UNCHANGED result
    BY <1>9 DEF NextFetches
  <2>2. senders[c] # <<>> => /\ Head(senders[c]) \in S
                             /\ Tail(senders[c]) \in Seq(S)
    BY <1>3, HeadTailProperties
  <2>3. buffer[c] \in Buffers(c) /\ Size[c] \in Nat
    BY ChannelAssumption DEF Typed, ChannelTypes
  <2>4. buffer[c].len > 0 => Oldest(c) \in S
    <3>1. buffer[c].len > 0 => buffer[c].rpos \in 0..(Size[c] - 1)
      BY <2>3 DEF Buffers
    <3> QED
      BY <1>3, <3>1 DEF Oldest
  <2>5. \E m \in S : got' = [got EXCEPT ![c] = Append(@, m)]
    BY <2>1, <2>2, <2>4 DEF fetch_noblock
  <2>6. got' \in [Channels -> Seq(S)]
    BY <1>3, <2>5
  <2>7. senders' \in [Channels -> Seq(S)]
    BY <1>3, <2>1, <2>2 DEF fetch_noblock
  <2>8. \A d \in Channels : buffer'[d].data \in [0..(Size[d] - 1) -> S]
    <3>1. CASE buffer[c].len > 0
      <4>1. PICK b : b = IF senders[c] # <<>>
                         THEN Write(c, Advance(c), Head(senders[c]))
                         ELSE [Advance(c) EXCEPT !.len = @ - 1]
        OBVIOUS
      <4>2. buffer' = [buffer EXCEPT ![c] = b]
        BY <2>1, <3>1, <4>1 DEF fetch_noblock
      <4>3. b.data \in [0..(Size[c] - 1) -> S]
        <5>1. buffer[c].data \in [0..(Size[c] - 1) -> S]
          BY <1>3
        <5>2. Advance(c).data = buffer[c].data
          BY <2>3 DEF Advance, Buffers
        <5>3. CASE senders[c] # <<>>
          <6>1. b.data = [Advance(c).data EXCEPT ![Advance(c).wpos] = Head(senders[c])]
            BY <2>3, <4>1, <5>3 DEF Write, Advance, Buffers
          <6> QED
            BY <2>2, <5>1, <5>2, <5>3, <6>1
        <5>4. CASE senders[c] = <<>>
          <6>1. b.data = Advance(c).data
            BY <2>3, <4>1, <5>4 DEF Advance, Buffers
          <6> QED
            BY <5>1, <5>2, <6>1
        <5> QED
          BY <5>3, <5>4
      <4> QED
        BY <1>3, <4>2, <4>3 DEF Typed, ChannelTypes
    <3>2. CASE ~(buffer[c].len > 0)
      BY <1>3, <2>1, <3>2 DEF fetch_noblock
    <3> QED
      BY <3>1, <3>2
  <2> QED
    BY <1>3, <1>4, <2>1, <2>6, <2>7, <2>8
<1>10. ASSUME NEW f \in Fibers, NextReturns(f)
       PROVE  Named'
  <2>1. result[f] \in S /\ UNCHANGED <<senders, buffer>>
        /\ result' = [result EXCEPT ![f] = NoMsg]
    BY <1>3, <1>10 DEF NextReturns
  <2>2. got' = got \/ got' = [got EXCEPT ![on[f]] = Append(@, result[f])]
    BY <1>10 DEF NextReturns
  <2>3. got' \in [Channels -> Seq(S)]
    <3>1. \A d \in Channels : Append(got[d], result[f]) \in Seq(S)
      BY <1>3, <2>1
    <3>2. CASE got' = got
      BY <1>3, <3>2
    <3>3. CASE got' = [got EXCEPT ![on[f]] = Append(@, result[f])]
      <4>1. \A d \in Channels :
              got'[d] = IF d = on[f] THEN Append(got[d], result[f]) ELSE got[d]
        BY <1>3, <3>3
      <4>2. \A d \in Channels : got'[d] \in Seq(S)
        BY <1>3, <3>1, <4>1
      <4> QED
        BY <1>3, <3>3, <4>2
    <3> QED
      BY <2>2, <3>2, <3>3
  <2> QED
    BY <1>3, <1>4, <1>5, <2>1, <2>3
<1>11. ASSUME UNCHANGED <<got, result, buffer>>,
              \E c : senders' = [senders EXCEPT ![c] = Tail(@)] /\ senders[c] # <<>>
       PROVE  Named'
  <2>1. PICK c : senders' = [senders EXCEPT ![c] = Tail(@)] /\ senders[c] # <<>>
    BY <1>11
  <2>2. c \in Channels => Tail(senders[c]) \in Seq(S)
    BY <1>3, <2>1, HeadTailProperties
  <2> QED
    BY <1>3, <1>4, <1>11, <2>1, <2>2
<1>12. ASSUME UNCHANGED <<got, result, buffer>>,
              \E c, e : senders' = [senders EXCEPT ![c] = ASYNC_LIST_REMOVE(@, e)]
       PROVE  Named'
  <2>1. PICK c, e : senders' = [senders EXCEPT ![c] = ASYNC_LIST_REMOVE(@, e)]
    BY <1>12
  <2>2. c \in Channels => ASYNC_LIST_REMOVE(senders[c], e) \in Seq(S)
    BY <1>3, RemoveList
  <2> QED
    BY <1>3, <1>4, <1>12, <2>1, <2>2
<1>13. ASSUME UNCHANGED <<senders, got, result, buffer>>
       PROVE  Named'
  BY <1>3, <1>4, <1>13
<1>14. ASSUME NEW f \in Fibers,
              SendReturns(f) \/ timeout_channel_send_cb(f)
       PROVE  Named'
  BY <1>12, <1>13, <1>14 DEF SendReturns, timeout_channel_send_cb
<1>15. ASSUME NEW c \in Channels, dispose_channel_send_timer_cb(c)
       PROVE  Named'
  BY <1>12, <1>15 DEF dispose_channel_send_timer_cb
<1>16. CASE DisposeSender
  BY <1>11, <1>16 DEF DisposeSender
<1>17. ASSUME NEW f \in Fibers, NEW c \in Channels,
              NextBlocks(f, c) \/ \E err \in BOOLEAN : close(f, c, err)
       PROVE  Named'
  BY <1>13, <1>17 DEF NextBlocks, close
<1>18. CASE DisposeReceiver \/ DisposeEnds \/ UNCHANGED chanVars \/ UNCHANGED vars
  BY <1>13, <1>18 DEF DisposeReceiver, DisposeEnds, chanVars, vars
<1> QED
  BY <1>6, <1>7, <1>8, <1>9, <1>10, <1>14, <1>15, <1>16, <1>17, <1>18
     DEF Next, ChannelStep

-----------------------------------------------------------------------------
(***************************************************************************)
(* The ring buffer: what it holds as a list, and what a write, a read and  *)
(* a refill make of that list.                                             *)
(***************************************************************************)

\* The slot n behind another one of a ring is found by subtracting n.
LEMMA Modulo ==
  ASSUME NEW n \in Nat, n > 0, NEW k \in 0..(2 * n - 1)
  PROVE  k % n = IF k < n THEN k ELSE k - n
  OBVIOUS

\* The positions of l messages from r on in a ring of n slots, where w is the
\* slot behind them and x the one behind the first.
Positions(n, r, l, w, x) ==
  /\ w \in 0..(n - 1) /\ x \in 0..(n - 1)
  /\ (w + 1) % n = (r + (l + 1)) % n
  /\ \A i \in 1..l : (r + i - 1) % n \in 0..(n - 1)
  /\ l < n => \A i \in 1..l : (r + i - 1) % n # w
  /\ l > 0 => /\ (x + (l - 1)) % n = w
              /\ \A i \in 1..(l - 1) : (x + i - 1) % n = (r + (i + 1) - 1) % n
  /\ l = n => /\ w = r /\ (x + n - 1) % n = w
              /\ \A i \in 1..(l - 1) : (r + (i + 1) - 1) % n # w

\* They are what send and fetch_noblock take them for, wrap-around included.
LEMMA RingPositions ==
  ASSUME NEW n \in Nat, n > 0, NEW r \in 0..(n - 1), NEW l \in 0..n,
         NEW w, w = (r + l) % n, NEW x, x = (r + 1) % n
  PROVE  Positions(n, r, l, w, x)
<1> DEFINE W(k) == IF k < n THEN k ELSE k - n
<1>1. \A k \in 0..(2 * n - 1) : k % n = W(k)
  BY Modulo
<1>2. w = W(r + l) /\ (r + 1) % n = W(r + 1) /\ r + l \in 0..(2 * n - 1)
  BY <1>1
<1>3. w \in 0..(n - 1)
  BY <1>2
<1>4. (w + 1) % n = W(w + 1)
  BY <1>1, <1>3
<1>5. (r + (l + 1)) % n = W(w + 1)
  <2>1. CASE r + (l + 1) < 2 * n
    BY <1>1, <1>2, <2>1
  <2>2. CASE r + (l + 1) >= 2 * n
    <3>1. r = n - 1 /\ l = n
      BY <2>2
    <3>2. r + (l + 1) = 2 * n /\ w = n - 1
      BY <1>2, <3>1
    <3>3. (2 * n) % n = 0
      OBVIOUS
    <3> QED
      BY <3>2, <3>3
  <2> QED
    BY <2>1, <2>2
<1>6. ASSUME NEW i \in 1..l
      PROVE  /\ (r + i - 1) % n = W(r + i - 1) /\ W(r + i - 1) \in 0..(n - 1)
             /\ l < n => W(r + i - 1) # w
  <2>1. r + i - 1 \in 0..(2 * n - 1)
    OBVIOUS
  <2> QED
    BY <1>1, <1>2, <2>1
<1>7. ASSUME l > 0
      PROVE  /\ W(r + 1) + (l - 1) \in 0..(2 * n - 1)
             /\ W(W(r + 1) + (l - 1)) = w
  BY <1>2, <1>7
<1>8. ASSUME l > 0, NEW i \in 1..(l - 1)
      PROVE  (W(r + 1) + i - 1) % n = (r + (i + 1) - 1) % n
  <2>1. W(r + 1) + i - 1 \in 0..(2 * n - 1) /\ r + (i + 1) - 1 \in 0..(2 * n - 1)
    BY <1>8
  <2>2. W(W(r + 1) + i - 1) = W(r + (i + 1) - 1)
    BY <1>8
  <2> QED
    BY <1>1, <2>1, <2>2
<1>9. ASSUME l = n
      PROVE  w = r /\ (W(r + 1) + n - 1) % n = w
  <2>1. w = r /\ W(r + 1) + n - 1 \in 0..(2 * n - 1)
    BY <1>2, <1>9
  <2>2. W(W(r + 1) + n - 1) = r
    OBVIOUS
  <2> QED
    BY <1>1, <2>1, <2>2
<1>10. ASSUME l = n, NEW i \in 1..(l - 1)
       PROVE  (r + (i + 1) - 1) % n # w
  <2>1. r + (i + 1) - 1 \in 0..(2 * n - 1) /\ W(r + (i + 1) - 1) # r
    BY <1>10
  <2> QED
    BY <1>1, <1>9, <1>10, <2>1
<1>11. ASSUME l > 0
       PROVE  /\ W(r + 1) + (l - 1) \in Nat
              /\ (W(r + 1) + (l - 1)) % n = w
              /\ \A i \in 1..(l - 1) :
                   (W(r + 1) + i - 1) % n = (r + (i + 1) - 1) % n
  <2> HIDE DEF W
  <2>1. W(r + 1) + (l - 1) \in Nat
    BY <1>7, <1>11
  <2>2. (W(r + 1) + (l - 1)) % n = w
    BY <1>1, <1>7, <1>11
  <2> QED
    BY <1>8, <1>11, <2>1, <2>2
<1> HIDE DEF W
<1>12. \A i \in 1..l : (r + i - 1) % n \in 0..(n - 1)
  BY <1>6
<1>13. l < n => \A i \in 1..l : (r + i - 1) % n # w
  BY <1>6
<1>14. (w + 1) % n = (r + (l + 1)) % n
  BY <1>4, <1>5
<1>15. x = W(r + 1)
  BY <1>2
<1>18. x \in 0..(n - 1)
  OBVIOUS
<1>16. l > 0 => /\ (x + (l - 1)) % n = w
                /\ \A i \in 1..(l - 1) : (x + i - 1) % n = (r + (i + 1) - 1) % n
  BY <1>11, <1>15
<1>17. l = n => /\ w = r /\ (x + n - 1) % n = w
                /\ \A i \in 1..(l - 1) : (r + (i + 1) - 1) % n # w
  BY <1>9, <1>10, <1>15
<1> QED
  BY <1>3, <1>12, <1>13, <1>14, <1>16, <1>17, <1>18, Zenon DEF Positions

\* A ring buffer whose messages come from S.
Sound(c, b, S) ==
  /\ b \in [len : 0..Size[c],
            rpos : {0} \cup 0..(Size[c] - 1),
            wpos : {0} \cup 0..(Size[c] - 1),
            data : [0..(Size[c] - 1) -> S]]
  /\ Size[c] > 0 => b.wpos = (b.rpos + b.len) % Size[c]

\* What it holds, oldest first.
Ring(c, b) == [i \in 1..b.len |-> b.data[(b.rpos + i - 1) % Size[c]]]

\* The sequence q is that of the l messages from slot r on.
Lists(q, S, n, l, r, data) ==
  /\ q \in Seq(S) /\ Len(q) = l /\ (q = <<>> <=> l = 0)
  /\ \A i \in 1..l : q[i] = data[(r + i - 1) % n]

\* The messages of a ring are a list.
LEMMA RingList ==
  ASSUME NEW S, NEW c \in Channels, NEW b, Sound(c, b, S)
  PROVE  Lists(Ring(c, b), S, Size[c], b.len, b.rpos, b.data)
<1>1. Size[c] \in Nat /\ b.len \in Nat
  BY ChannelAssumption DEF Sound
<1>2. ASSUME NEW i \in 1..b.len
      PROVE  b.data[(b.rpos + i - 1) % Size[c]] \in S
  <2>1. PICK n, r, l, w : n = Size[c] /\ r = b.rpos /\ l = b.len /\ w = (r + l) % n
    OBVIOUS
  <2>2. n \in Nat /\ n > 0 /\ r \in 0..(n - 1) /\ l \in 0..n
    BY <1>1, <1>2, <2>1 DEF Sound
  <2>3. (r + i - 1) % n \in 0..(n - 1)
    <3>1. Positions(n, r, l, w, (r + 1) % n)
      BY <2>1, <2>2, RingPositions, Zenon
    <3> QED
      BY <2>1, <3>1 DEF Positions
  <2> QED
    BY <2>1, <2>3 DEF Sound
<1>3. PICK q : q = Ring(c, b)
  OBVIOUS
<1>4. q \in [1..b.len -> S] /\ \A i \in 1..b.len : q[i] = b.data[(b.rpos + i - 1) % Size[c]]
  BY <1>2, <1>3 DEF Ring
<1>5. q \in Seq(S) /\ Len(q) = b.len
  BY <1>1, <1>4, SeqDef, LenProperties
<1>6. q = <<>> <=> b.len = 0
  BY <1>5, EmptySeq
<1> QED
  BY <1>3, <1>4, <1>5, <1>6, Zenon DEF Lists

\* The buffer with a message more, with one less, and past its oldest one.
Longer(b)    == [b EXCEPT !.len = @ + 1]
Shorter(b)   == [b EXCEPT !.len = @ - 1]
Passed(c, b) == [b EXCEPT !.rpos = (@ + 1) % Size[c]]

\* A ring given by its parts.
LEMMA SoundRing ==
  ASSUME NEW S, NEW c, NEW l \in 0..Size[c], NEW r \in 0..(Size[c] - 1),
         NEW w \in 0..(Size[c] - 1), w = (r + l) % Size[c],
         NEW m \in [0..(Size[c] - 1) -> S]
  PROVE  Sound(c, [len |-> l, rpos |-> r, wpos |-> w, data |-> m], S)
  BY DEF Sound

\* Writing behind the last message where there is room appends it.
LEMMA RingPut ==
  ASSUME NEW S, NEW c \in Channels, NEW b, Sound(c, b, S), NEW m \in S,
         b.len < Size[c]
  PROVE  /\ Sound(c, Longer(Write(c, b, m)), S)
         /\ Ring(c, Longer(Write(c, b, m))) = Append(Ring(c, b), m)
<1>0. PICK d : d = Longer(Write(c, b, m))
  OBVIOUS
<1>1. PICK n, r, l, w, x : /\ n = Size[c] /\ r = b.rpos /\ l = b.len /\ w = b.wpos
                           /\ x = (r + 1) % n
  OBVIOUS
<1>2. /\ n \in Nat /\ n > 0 /\ r \in 0..(n - 1) /\ l \in 0..n /\ l < n
      /\ w = (r + l) % n /\ b.data \in [0..(n - 1) -> S]
  <2>1. n \in Nat
    BY <1>1, ChannelAssumption
  <2>2. /\ l \in 0..n /\ l < n /\ r \in {0} \cup 0..(n - 1)
        /\ b.data \in [0..(n - 1) -> S]
    BY <1>1 DEF Sound
  <2>3. n > 0 /\ r \in 0..(n - 1)
    BY <2>1, <2>2
  <2>4. w = (r + l) % n
    BY <1>1, <2>3 DEF Sound
  <2> QED
    BY <2>1, <2>2, <2>3, <2>4
<1>3. /\ w \in 0..(n - 1) /\ (w + 1) % n = (r + (l + 1)) % n
      /\ \A i \in 1..l : (r + i - 1) % n \in 0..(n - 1) /\ (r + i - 1) % n # w
  <2>1. Positions(n, r, l, w, x)
    BY <1>1, <1>2, RingPositions, Zenon
  <2> QED
    BY <1>2, <2>1 DEF Positions
<1>4. d = [len |-> l + 1, rpos |-> r, wpos |-> (w + 1) % n,
           data |-> [b.data EXCEPT ![w] = m]]
  BY <1>0, <1>1 DEF Longer, Write, Sound
<1>5. /\ d.len = l + 1 /\ d.rpos = r /\ d.wpos = (w + 1) % n
      /\ d.data = [b.data EXCEPT ![w] = m]
  BY <1>4
<1>6. (w + 1) % n \in 0..(n - 1) /\ l + 1 \in 0..n
  BY <1>2, <1>3
<1>7. [b.data EXCEPT ![w] = m] \in [0..(n - 1) -> S]
  BY <1>2, <1>3
<1>8. Sound(c, d, S)
  BY <1>1, <1>2, <1>3, <1>4, <1>6, <1>7, SoundRing, Zenon
<1>9. PICK p, q, a : p = Ring(c, b) /\ q = Ring(c, d) /\ a = Append(p, m)
  OBVIOUS
<1>10. /\ p \in Seq(S) /\ Len(p) = l
       /\ \A i \in 1..l : p[i] = b.data[(r + i - 1) % n]
  <2>1. Lists(p, S, n, l, r, b.data)
    BY <1>1, <1>9, RingList, Zenon
  <2> QED
    BY <2>1, Zenon DEF Lists
<1>11. /\ q \in Seq(S) /\ Len(q) = l + 1
       /\ \A i \in 1..(l + 1) : q[i] = d.data[(r + i - 1) % n]
  <2>1. Lists(q, S, n, d.len, d.rpos, d.data)
    BY <1>1, <1>8, <1>9, RingList, Zenon
  <2> QED
    BY <1>5, <2>1, Zenon DEF Lists
<1>12. /\ a \in Seq(S) /\ Len(a) = l + 1 /\ a[l + 1] = m
       /\ \A i \in 1..l : a[i] = p[i]
  <2>1. p \in Seq(S) /\ Len(p) = l
    BY <1>10
  <2> QED
    BY <1>9, <2>1, AppendAt, AppendList
<1>13. ASSUME NEW i \in 1..(l + 1) PROVE q[i] = a[i]
  <2>1. CASE i = l + 1
    <3>1. r + i - 1 = r + l
      BY <1>2, <2>1
    <3>2. d.data[w] = m
      BY <1>2, <1>3, <1>5
    <3> QED
      BY <1>2, <1>11, <1>12, <2>1, <3>1, <3>2
  <2>2. CASE i # l + 1
    <3>1. i \in 1..l
      BY <1>2, <2>2
    <3>2. d.data[(r + i - 1) % n] = b.data[(r + i - 1) % n]
      BY <1>2, <1>3, <1>5, <3>1
    <3> QED
      BY <1>10, <1>11, <1>12, <3>1, <3>2
  <2> QED
    BY <2>1, <2>2
<1>14. q = a
  BY <1>11, <1>12, <1>13, SeqEqual
<1> QED
  BY <1>0, <1>8, <1>9, <1>14, Zenon

\* Passing over the oldest message removes it.
LEMMA RingTake ==
  ASSUME NEW S, NEW c \in Channels, NEW b, Sound(c, b, S), b.len > 0
  PROVE  /\ Ring(c, b) # <<>> /\ Head(Ring(c, b)) = b.data[b.rpos]
         /\ Sound(c, Shorter(Passed(c, b)), S)
         /\ Ring(c, Shorter(Passed(c, b))) = Tail(Ring(c, b))
<1>0. PICK d : d = Shorter(Passed(c, b))
  OBVIOUS
<1>1. PICK n, r, l, w, x : /\ n = Size[c] /\ r = b.rpos /\ l = b.len /\ w = b.wpos
                           /\ x = (r + 1) % n
  OBVIOUS
<1>2. /\ n \in Nat /\ n > 0 /\ r \in 0..(n - 1) /\ l \in 0..n /\ l > 0
      /\ w = (r + l) % n /\ b.data \in [0..(n - 1) -> S]
  <2>1. n \in Nat
    BY <1>1, ChannelAssumption
  <2>2. /\ l \in 0..n /\ l > 0 /\ r \in {0} \cup 0..(n - 1)
        /\ b.data \in [0..(n - 1) -> S]
    BY <1>1 DEF Sound
  <2>3. n > 0 /\ r \in 0..(n - 1)
    BY <2>1, <2>2
  <2>4. w = (r + l) % n
    BY <1>1, <2>3 DEF Sound
  <2> QED
    BY <2>1, <2>2, <2>3, <2>4
<1>3. /\ w \in 0..(n - 1) /\ x \in 0..(n - 1) /\ (x + (l - 1)) % n = w
      /\ \A i \in 1..(l - 1) : (x + i - 1) % n = (r + (i + 1) - 1) % n
  <2>1. Positions(n, r, l, w, x)
    BY <1>1, <1>2, RingPositions, Zenon
  <2> QED
    BY <1>2, <2>1, Zenon DEF Positions
<1>4. d = [len |-> l - 1, rpos |-> x, wpos |-> w, data |-> b.data]
  <2>1. b = [len |-> l, rpos |-> r, wpos |-> w, data |-> b.data]
    BY <1>1 DEF Sound
  <2> QED
    BY <1>0, <1>1, <2>1 DEF Shorter, Passed
<1>5. d.len = l - 1 /\ d.rpos = x /\ d.wpos = w /\ d.data = b.data
  BY <1>4, Zenon
<1>6. l - 1 \in 0..n
  BY <1>2
<1>7. Sound(c, d, S)
  BY <1>1, <1>2, <1>3, <1>4, <1>6, SoundRing, Zenon
<1>8. PICK p, q, t : p = Ring(c, b) /\ q = Ring(c, d) /\ t = Tail(p)
  OBVIOUS
<1>9. /\ p \in Seq(S) /\ Len(p) = l /\ p # <<>>
      /\ \A i \in 1..l : p[i] = b.data[(r + i - 1) % n]
  <2>1. Lists(p, S, n, l, r, b.data) /\ l # 0
    BY <1>1, <1>2, <1>8, RingList
  <2> QED
    BY <2>1, Zenon DEF Lists
<1>10. /\ q \in Seq(S) /\ Len(q) = l - 1
       /\ \A i \in 1..(l - 1) : q[i] = b.data[(x + i - 1) % n]
  <2>1. Lists(q, S, n, d.len, d.rpos, d.data)
    BY <1>1, <1>7, <1>8, RingList, Zenon
  <2> QED
    BY <1>5, <2>1, Zenon DEF Lists
<1>11. /\ t \in Seq(S) /\ Len(t) = l - 1 /\ \A i \in 1..(l - 1) : t[i] = p[i + 1]
  <2>1. p \in Seq(S) /\ Len(p) = l /\ p # <<>>
    BY <1>9
  <2> QED
    BY <1>8, <2>1, HeadTailProperties
<1>12. ASSUME NEW i \in 1..(l - 1) PROVE q[i] = t[i]
  <2>1. i + 1 \in 1..l
    BY <1>2
  <2> QED
    BY <1>3, <1>9, <1>10, <1>11, <2>1
<1>13. q = t
  BY <1>10, <1>11, <1>12, SeqEqual
<1>14. Head(p) = b.data[r]
  <2>1. Head(p) = p[1] /\ 1 \in 1..l /\ r + 1 - 1 = r
    BY <1>2, <1>9
  <2>2. r % n = r
    BY <1>2, Modulo
  <2> QED
    BY <1>9, <2>1, <2>2
<1> QED
  BY <1>0, <1>1, <1>7, <1>8, <1>9, <1>13, <1>14, Zenon

\* A full ring is refilled where the oldest message was.
LEMMA RingRefill ==
  ASSUME NEW S, NEW c \in Channels, NEW b, Sound(c, b, S), NEW m \in S,
         b.len > 0, b.len = Size[c]
  PROVE  /\ Sound(c, Write(c, Passed(c, b), m), S)
         /\ Ring(c, Write(c, Passed(c, b), m)) = Append(Tail(Ring(c, b)), m)
<1>0. PICK d : d = Write(c, Passed(c, b), m)
  OBVIOUS
<1>1. PICK n, r, w, x : /\ n = Size[c] /\ r = b.rpos /\ w = b.wpos
                        /\ x = (r + 1) % n
  OBVIOUS
<1>2. /\ n \in Nat /\ n > 0 /\ r \in 0..(n - 1) /\ n \in 0..n /\ b.len = n
      /\ w = (r + n) % n /\ b.data \in [0..(n - 1) -> S]
  <2>1. n \in Nat /\ n > 0 /\ b.len = n
    BY <1>1, ChannelAssumption
  <2>2. r \in {0} \cup 0..(n - 1) /\ b.data \in [0..(n - 1) -> S]
    BY <1>1 DEF Sound
  <2>3. w = (r + n) % n
    BY <1>1, <2>1, Zenon DEF Sound
  <2> QED
    BY <2>1, <2>2, <2>3
<1>3. /\ w \in 0..(n - 1) /\ x \in 0..(n - 1) /\ w = r /\ (x + n - 1) % n = w
      /\ \A i \in 1..(n - 1) : /\ (x + i - 1) % n = (r + (i + 1) - 1) % n
                               /\ (r + (i + 1) - 1) % n # w
      /\ \A i \in 1..n : (r + i - 1) % n \in 0..(n - 1)
  <2>1. Positions(n, r, n, w, x)
    BY <1>1, <1>2, RingPositions, Zenon
  <2> QED
    BY <1>2, <2>1, Zenon DEF Positions
<1>4. d = [len |-> n, rpos |-> x, wpos |-> (w + 1) % n,
           data |-> [b.data EXCEPT ![w] = m]]
  BY <1>0, <1>1, <1>2 DEF Write, Passed, Sound
<1>5. /\ d.len = n /\ d.rpos = x /\ d.wpos = (w + 1) % n
      /\ d.data = [b.data EXCEPT ![w] = m]
  BY <1>4
<1>6. [b.data EXCEPT ![w] = m] \in [0..(n - 1) -> S]
  BY <1>2, <1>3
<1>7. (w + 1) % n = (x + n) % n
  <2>0. n \in Nat /\ x \in 0..(n - 1)
    BY <1>2, <1>3, Zenon
  <2>1. x + n \in 0..(2 * n - 1) /\ ~(x + n < n) /\ (x + n) - n = x
    BY <2>0
  <2>2. (x + n) % n = x
    BY <1>2, <2>1, Modulo
  <2> QED
    BY <1>1, <1>3, <2>2
<1>8. Sound(c, d, S)
  <2>1. (w + 1) % n \in 0..(n - 1)
    BY <1>1, <1>3
  <2> QED
    BY <1>1, <1>2, <1>3, <1>4, <1>6, <1>7, <2>1, SoundRing, Zenon
<1>9. PICK p, q, t, a : p = Ring(c, b) /\ q = Ring(c, d) /\ t = Tail(p) /\ a = Append(t, m)
  OBVIOUS
<1>10. /\ p \in Seq(S) /\ Len(p) = n /\ p # <<>>
       /\ \A i \in 1..n : p[i] = b.data[(r + i - 1) % n]
  <2>1. Lists(p, S, n, n, r, b.data)
    BY <1>1, <1>2, <1>9, RingList, Zenon
  <2>2. n # 0
    BY <1>2
  <2> QED
    BY <2>1, <2>2, Zenon DEF Lists
<1>11. /\ q \in Seq(S) /\ Len(q) = n
       /\ \A i \in 1..n : q[i] = d.data[(x + i - 1) % n]
  <2>1. Lists(q, S, n, d.len, d.rpos, d.data)
    BY <1>1, <1>8, <1>9, RingList, Zenon
  <2> QED
    BY <1>5, <2>1, Zenon DEF Lists
<1>12. /\ t \in Seq(S) /\ Len(t) = n - 1 /\ \A i \in 1..(n - 1) : t[i] = p[i + 1]
  <2>1. p \in Seq(S) /\ Len(p) = n /\ p # <<>>
    BY <1>10
  <2> QED
    BY <1>9, <2>1, HeadTailProperties
<1>13. /\ a \in Seq(S) /\ Len(a) = n /\ a[n] = m
       /\ \A i \in 1..(n - 1) : a[i] = t[i]
  <2>1. t \in Seq(S) /\ Len(t) = n - 1 /\ (n - 1) + 1 = n
    BY <1>2, <1>12
  <2> QED
    BY <1>9, <2>1, AppendAt, AppendList
<1>14. ASSUME NEW i \in 1..n PROVE q[i] = a[i]
  <2>1. CASE i = n
    <3>1. d.data[w] = m
      BY <1>2, <1>3, <1>5
    <3> QED
      BY <1>3, <1>11, <1>13, <2>1, <3>1
  <2>2. CASE i # n
    <3>1. i \in 1..(n - 1) /\ i + 1 \in 1..n
      BY <1>2, <2>2
    <3>2. d.data[(x + i - 1) % n] = b.data[(r + (i + 1) - 1) % n]
      BY <1>2, <1>3, <1>5, <3>1
    <3> QED
      BY <1>10, <1>11, <1>12, <1>13, <3>1, <3>2
  <2> QED
    BY <2>1, <2>2
<1>15. q = a
  BY <1>11, <1>13, <1>14, SeqEqual
<1> QED
  BY <1>0, <1>8, <1>9, <1>15, Zenon

\* The channels' buffers are such rings.
LEMMA BufferSound ==
  ASSUME Typed, Named, Rings, NEW c \in Channels, NEW S, Old \subseteq S
  PROVE  Sound(c, buffer[c], S) /\ Buffered(c) = Ring(c, buffer[c])
<1>1. /\ buffer[c] \in Buffers(c)
      /\ buffer[c].data \in [0..(Size[c] - 1) -> S]
  BY DEF Typed, ChannelTypes, Named
<1>2. Size[c] > 0 => buffer[c].wpos = (buffer[c].rpos + buffer[c].len) % Size[c]
  BY DEF Rings
<1>3. buffer[c] \in [len : 0..Size[c],
                     rpos : {0} \cup 0..(Size[c] - 1),
                     wpos : {0} \cup 0..(Size[c] - 1),
                     data : [0..(Size[c] - 1) -> S]]
  BY <1>1 DEF Buffers
<1> QED
  BY <1>2, <1>3, Zenon DEF Sound, Ring, Buffered

\* So are the new ones, if they are.
LEMMA NewBuffers ==
  ASSUME Rings, NEW S, NEW c \in Channels,
         \A d \in Channels \ {c} : buffer'[d] = buffer[d],
         Sound(c, buffer'[c], S)
  PROVE  /\ Rings'
         /\ Buffered(c)' = Ring(c, buffer'[c])
         /\ \A d \in Channels \ {c} : Buffered(d)' = Buffered(d)
<1>1. Rings'
  BY DEF Rings, Sound
<1>2. Buffered(c)' = Ring(c, buffer'[c])
  BY DEF Buffered, Ring
<1>3. \A d \in Channels \ {c} : Buffered(d)' = Buffered(d)
  BY DEF Buffered
<1> QED
  BY <1>1, <1>2, <1>3

\* send appends to what is buffered.
LEMMA SendBuffers ==
  ASSUME Typed, Named, Rings, NEW f \in Fibers, NEW c \in Channels,
         SendToBuffer(f, c)
  PROVE  /\ Rings' /\ Buffered(c)' = Append(Buffered(c), Msg(f))
         /\ \A d \in Channels \ {c} : Buffered(d)' = Buffered(d)
<1>0. Old \subseteq Old \cup {Msg(f)} /\ Msg(f) \in Old \cup {Msg(f)}
  OBVIOUS
<1>1. PICK S : Old \subseteq S /\ Msg(f) \in S
  BY <1>0, Zenon
<1>2. Sound(c, buffer[c], S) /\ Buffered(c) = Ring(c, buffer[c])
  BY <1>1, BufferSound
<1>3. /\ buffer[c].len < Size[c] /\ buffer' = [buffer EXCEPT ![c] = Put(c, Msg(f))]
  BY DEF SendToBuffer
<1>4. Put(c, Msg(f)) = Longer(Write(c, buffer[c], Msg(f)))
  BY DEF Put, Longer
<1>5. /\ Sound(c, Longer(Write(c, buffer[c], Msg(f))), S)
      /\ Ring(c, Longer(Write(c, buffer[c], Msg(f)))) = Append(Ring(c, buffer[c]), Msg(f))
  BY <1>1, <1>2, <1>3, RingPut
<1>6. /\ \A d \in Channels \ {c} : buffer'[d] = buffer[d]
      /\ buffer'[c] = Put(c, Msg(f))
  BY <1>3 DEF Typed, ChannelTypes
<1>7. Sound(c, buffer'[c], S)
  BY <1>4, <1>5, <1>6
<1> QED
  BY <1>2, <1>4, <1>5, <1>6, <1>7, NewBuffers

\* A sender waits only when the buffer is full.
Full == \A c \in Channels : senders[c] # <<>> => buffer[c].len = Size[c]

\* The list B from which next takes a message, refilled from the senders s.
Refilled(B, s) == IF s = <<>> THEN Tail(B) ELSE Append(Tail(B), Head(s))

\* next takes the first of what is buffered, and puts the message of the first
\* sender behind it; when nothing is buffered it takes that message.
LEMMA FetchLists ==
  ASSUME Typed, Named, Rings, Full, NEW f \in Fibers,
         NEW c \in Channels, NextFetches(f, c)
  PROVE  /\ Rings'
         /\ \A d \in Channels \ {c} :
              Buffered(d)' = Buffered(d) /\ senders'[d] = senders[d]
         /\ Buffered(c) \in Seq(Old) /\ senders[c] \in Seq(Old)
         /\ senders'[c] = IF senders[c] # <<>> THEN Tail(senders[c]) ELSE senders[c]
         /\ Buffered(c) # <<>> =>
              /\ Buffered(c)' = Refilled(Buffered(c), senders[c])
              /\ got' = [got EXCEPT ![c] = Append(@, Head(Buffered(c)))]
         /\ Buffered(c) = <<>> =>
              /\ senders[c] # <<>> /\ Buffered(c)' = Buffered(c)
              /\ got' = [got EXCEPT ![c] = Append(@, Head(senders[c]))]
<1>1. PICK b, s : b = buffer[c] /\ s = senders[c]
  OBVIOUS
<1>2. PICK B : B = Buffered(c)
  OBVIOUS
<1>3. Sound(c, b, Old) /\ B = Ring(c, b) /\ s \in Seq(Old)
  BY <1>1, <1>2, BufferSound DEF Named
<1>4. B \in Seq(Old) /\ (B = <<>> <=> b.len = 0)
  BY <1>3, RingList DEF Lists
<1>5. fetch_noblock(c) /\ Advance(c) = Passed(c, b) /\ Oldest(c) = b.data[b.rpos]
  BY <1>1 DEF NextFetches, Advance, Passed, Oldest
<1>6. /\ b.len \in Nat /\ DOMAIN buffer = Channels /\ DOMAIN senders = Channels
      /\ s # <<>> => b.len = Size[c] /\ Head(s) \in Old /\ Tail(s) \in Seq(Old)
  <2>1. buffer[c] \in Buffers(c)
    BY DEF Typed, ChannelTypes
  <2>2. b.len \in Nat /\ DOMAIN buffer = Channels /\ DOMAIN senders = Channels
    BY <1>1, <2>1, ChannelAssumption DEF Typed, ChannelTypes, Buffers
  <2>3. s # <<>> => b.len = Size[c]
    BY <1>1 DEF Full
  <2> QED
    BY <1>3, <2>2, <2>3, HeadTailProperties
<1>7. senders' = [senders EXCEPT ![c] = IF s # <<>> THEN Tail(s) ELSE s]
  BY <1>1, <1>5, <1>6 DEF fetch_noblock, Named
<1>8. /\ \A d \in Channels \ {c} : senders'[d] = senders[d]
      /\ senders'[c] = IF s # <<>> THEN Tail(s) ELSE s
  BY <1>6, <1>7
<1>9. CASE b.len > 0
  <2>1. PICK e : e = IF s # <<>> THEN Write(c, Passed(c, b), Head(s))
                     ELSE Shorter(Passed(c, b))
    OBVIOUS
  <2>2. buffer' = [buffer EXCEPT ![c] = e]
    BY <1>1, <1>5, <1>9, <2>1 DEF fetch_noblock, Shorter
  <2>3. buffer'[c] = e /\ \A d \in Channels \ {c} : buffer'[d] = buffer[d]
    BY <1>6, <2>2
  <2>4. /\ B # <<>> /\ Head(B) = b.data[b.rpos]
        /\ Sound(c, Shorter(Passed(c, b)), Old)
        /\ Ring(c, Shorter(Passed(c, b))) = Tail(B)
    BY <1>3, <1>9, RingTake, Zenon
  <2>5. got' = [got EXCEPT ![c] = Append(@, Head(B))]
    BY <1>1, <1>5, <1>9, <2>4 DEF fetch_noblock
  <2>7. CASE s = <<>>
    <3>1. e = Shorter(Passed(c, b)) /\ senders'[c] = s
      BY <1>8, <2>1, <2>7
    <3>2. Sound(c, buffer'[c], Old) /\ Ring(c, buffer'[c]) = Tail(B)
      BY <2>3, <2>4, <3>1
    <3>3. /\ Rings' /\ Buffered(c)' = Tail(B)
          /\ \A d \in Channels \ {c} : Buffered(d)' = Buffered(d)
      BY <2>3, <3>2, NewBuffers
    <3>4. Buffered(c)' = Refilled(B, s)
      BY <2>7, <3>3 DEF Refilled
    <3> QED
      BY <1>1, <1>2, <1>3, <1>4, <1>8, <2>4, <2>5, <3>3, <3>4, Zenon
  <2>8. CASE s # <<>>
    <3>1. e = Write(c, Passed(c, b), Head(s)) /\ senders'[c] = Tail(s)
      BY <1>8, <2>1, <2>8
    <3>2. /\ Sound(c, Write(c, Passed(c, b), Head(s)), Old)
          /\ Ring(c, Write(c, Passed(c, b), Head(s))) = Append(Tail(B), Head(s))
      <4>1. b.len = Size[c] /\ Head(s) \in Old
        BY <1>6, <2>8, Zenon
      <4>2. /\ Sound(c, Write(c, Passed(c, b), Head(s)), Old)
            /\ Ring(c, Write(c, Passed(c, b), Head(s)))
                 = Append(Tail(Ring(c, b)), Head(s))
        <5>1. PICK m : m = Head(s) /\ m \in Old
          BY <4>1
        <5>2. /\ Sound(c, Write(c, Passed(c, b), m), Old)
              /\ Ring(c, Write(c, Passed(c, b), m)) = Append(Tail(Ring(c, b)), m)
          <6>1. PICK S : S = Old
            OBVIOUS
          <6>2. Sound(c, b, S) /\ b.len > 0 /\ b.len = Size[c] /\ m \in S
            BY <1>3, <1>9, <4>1, <5>1, <6>1
          <6>3. /\ Sound(c, Write(c, Passed(c, b), m), S)
                /\ Ring(c, Write(c, Passed(c, b), m)) = Append(Tail(Ring(c, b)), m)
            BY <6>2, RingRefill, Zenon
          <6> QED
            BY <6>1, <6>3, Zenon
        <5> QED
          BY <5>1, <5>2, Zenon
      <4> QED
        BY <1>3, <4>2, Zenon
    <3>3. Sound(c, buffer'[c], Old) /\ Ring(c, buffer'[c]) = Append(Tail(B), Head(s))
      BY <2>3, <3>1, <3>2
    <3>4. /\ Rings' /\ Buffered(c)' = Append(Tail(B), Head(s))
          /\ \A d \in Channels \ {c} : Buffered(d)' = Buffered(d)
      BY <2>3, <3>3, NewBuffers
    <3>5. Buffered(c)' = Refilled(B, s)
      BY <2>8, <3>4 DEF Refilled
    <3> QED
      BY <1>1, <1>2, <1>3, <1>4, <1>8, <2>4, <2>5, <3>4, <3>5, Zenon
  <2> QED
    BY <2>7, <2>8
<1>10. CASE ~(b.len > 0)
  <2>1. /\ UNCHANGED buffer /\ s # <<>>
        /\ got' = [got EXCEPT ![c] = Append(@, Head(s))]
    BY <1>1, <1>5, <1>10 DEF fetch_noblock
  <2>2. B = <<>>
    BY <1>4, <1>6, <1>10
  <2>3. Rings' /\ \A d \in Channels : Buffered(d)' = Buffered(d)
    BY <2>1 DEF Rings, Buffered
  <2> QED
    BY <1>1, <1>2, <1>3, <1>4, <1>8, <2>1, <2>2, <2>3, Zenon
<1> QED
  BY <1>9, <1>10

\* So it takes the first message of what is buffered and what the senders carry.
LEMMA FetchQueue ==
  ASSUME Typed, Named, Rings, Full, NEW f \in Fibers,
         NEW c \in Channels, NextFetches(f, c)
  PROVE  /\ \A d \in Channels \ {c} :
              Buffered(d)' = Buffered(d) /\ senders'[d] = senders[d]
         /\ Buffered(c) \o senders[c] # <<>>
         /\ Buffered(c)' \o senders'[c] = Tail(Buffered(c) \o senders[c])
         /\ got' = [got EXCEPT ![c] = Append(@, Head(Buffered(c) \o senders[c]))]
<1>1. PICK B, s, e, r : /\ B = Buffered(c) /\ s = senders[c]
                        /\ e = Buffered(c)' /\ r = senders'[c]
  OBVIOUS
<1>2. /\ B \in Seq(Old) /\ s \in Seq(Old)
      /\ r = IF s # <<>> THEN Tail(s) ELSE s
      /\ B # <<>> => /\ e = Refilled(B, s)
                     /\ got' = [got EXCEPT ![c] = Append(@, Head(B))]
      /\ B = <<>> => /\ s # <<>> /\ e = B
                     /\ got' = [got EXCEPT ![c] = Append(@, Head(s))]
      /\ \A d \in Channels \ {c} :
           Buffered(d)' = Buffered(d) /\ senders'[d] = senders[d]
  BY <1>1, FetchLists, Zenon
<1>3. CASE B = <<>>
  <2>1. Tail(s) \in Seq(Old)
    BY <1>2, <1>3, HeadTailProperties
  <2>2. B \o s = s /\ B \o Tail(s) = Tail(s)
    BY <1>2, <1>3, <2>1, ConcatEmptySeq
  <2> QED
    BY <1>1, <1>2, <1>3, <2>2, Zenon
<1>4. CASE B # <<>>
  <2>1. /\ B \o s # <<>> /\ Head(B \o s) = Head(B) /\ Tail(B \o s) = Tail(B) \o s
    BY <1>2, <1>4, ConcatTail
  <2>2. e \o r = Tail(B) \o s
    <3>1. CASE s = <<>>
      BY <1>2, <1>4, <3>1 DEF Refilled
    <3>2. CASE s # <<>>
      <4>1. Tail(B) \in Seq(Old)
        BY <1>2, <1>4, HeadTailProperties
      <4>2. Append(Tail(B), Head(s)) \o Tail(s) = Tail(B) \o s
        BY <1>2, <3>2, <4>1, ConcatMove
      <4>3. e = Append(Tail(B), Head(s)) /\ r = Tail(s)
        BY <1>2, <1>4, <3>2 DEF Refilled
      <4> QED
        BY <4>2, <4>3
    <3> QED
      BY <3>1, <3>2
  <2> QED
    BY <1>1, <1>2, <1>4, <2>1, <2>2, Zenon
<1> QED
  BY <1>3, <1>4

\* Every step keeps the write positions.
LEMMA StepRings ==
  ASSUME Typed, Named, Rings, Full, [Next]_vars
  PROVE  Rings'
<1>1. ASSUME UNCHANGED buffer PROVE Rings'
  BY <1>1 DEF Rings
<1>2. ASSUME NEW f \in Fibers, NEW c \in Channels, ChannelStep(f, c)
      PROVE  Rings'
  BY <1>1, <1>2, SendBuffers, FetchLists
     DEF ChannelStep, SendToReceiver, SendBlocks, SendRefused, NextBlocks, close
<1> QED
  BY <1>1, <1>2
     DEF Next, SendReturns, NextReturns, timeout_channel_send_cb,
         dispose_channel_send_timer_cb, DisposeReceiver, DisposeSender,
         DisposeEnds, chanVars, vars

-----------------------------------------------------------------------------
(***************************************************************************)
(* Blocked fibers and the operations they wait for.                        *)
(***************************************************************************)

\* No operation is deferred, so completing one resumes its fiber at once.
LEMMA Resumed ==
  ASSUME FiberLists, defer = {}, NEW f \in Fibers, NEW o, reschedule_task(f, o)
  PROVE  cur' = f /\ op' = [op EXCEPT ![f] = o]
  BY DEF reschedule_task, async_fiber_switch

\* The fiber that awaits a listed send operation, if any, is resumed with it.
LEMMA Completed ==
  ASSUME Typed, Suspended, Sending, NEW m \in Messages, NEW c, NEW o,
         CompleteSend(m, c, o)
  PROVE  /\ Owner(m) \in Fibers
         /\ IF Dead(m) THEN UNCHANGED <<cur, op>>
            ELSE /\ cur' = Owner(m) /\ pc[Owner(m)] \in {"send", "gsend"}
                 /\ \E p \in {o, "FAILED"} : op' = [op EXCEPT ![Owner(m)] = p]
<1>1. Owner(m) \in Fibers /\ m # NoMsg
  BY DEF Messages, Owner, NoMsg
<1>2. CASE Dead(m)
  BY <1>1, <1>2 DEF CompleteSend
<1>3. CASE ~Dead(m)
  <2>1. pc[Owner(m)] \in {"send", "gsend"}
    BY <1>1, <1>3 DEF Dead, Sending
  <2>2. PICK p \in {o, "FAILED"} : reschedule_task(Owner(m), p)
    BY <1>3 DEF CompleteSend
  <2>3. cur' = Owner(m) /\ op' = [op EXCEPT ![Owner(m)] = p]
    BY <1>1, <2>2, Resumed DEF Typed, Suspended
  <2> QED
    BY <1>1, <1>3, <2>1, <2>3
<1> QED
  BY <1>2, <1>3

\* A step that changes the call of one fiber g, and gives the CPU away only
\* outside a blocking call.
LEMMA KeepSuspended ==
  ASSUME Typed, Suspended, UNCHANGED defer, NEW g,
         \A c \in Channels : closed[c] => closed'[c],
         \A f \in Fibers \ {g} :
           /\ pc'[f] = pc[f] /\ on'[f] = on[f] /\ op'[f] = op[f]
           /\ f = cur => f = cur' \/ pc[f] \notin Blocking,
         g \in Fibers =>
           /\ pc'[g] \in Blocking => op'[g] = "RUNNING" \/ g = cur'
           /\ pc'[g] \in {"send", "recv"} => on'[g] \in Channels
           /\ pc'[g] \in {"close", "shutdown"} =>
                on'[g] \in Channels /\ closed'[on'[g]]
  PROVE  Suspended'
  BY DEF Suspended, Typed, Closers

\* Every step keeps Suspended.
LEMMA StepSuspended ==
  ASSUME Typed, Suspended, Sending, Receiving, [Next]_vars
  PROVE  Suspended'
<1>1. /\ pc \in [Fibers \cup {Runner} -> Places] /\ op \in [Fibers -> OpStatus]
      /\ on \in [Fibers -> Channels \cup {NoChan}]
      /\ closed \in [Channels -> BOOLEAN] /\ defer = {} /\ FiberLists
      /\ Runner \notin Fibers
  BY SchedulerAssumption
     DEF Typed, Counting, FiberLists, ChannelTypes, Suspended
<1>2. \A f \in Fibers :
        /\ pc[f] \in Blocking => op[f] = "RUNNING" \/ f = cur
        /\ pc[f] \in {"send", "recv"} => on[f] \in Channels
        /\ pc[f] \in {"close", "shutdown"} => on[f] \in Channels /\ closed[on[f]]
  BY DEF Suspended, Typed, Closers
<1> USE DEF Blocking
<1>3. ASSUME NEW f \in Fibers, NEW c \in Channels, SendToReceiver(f, c)
      PROVE  Suspended'
  <2>1. PICK r : r = Head(receivers[c]) /\ r \in Fibers /\ pc[r] = "recv"
    BY <1>3, HeadTailProperties DEF SendToReceiver, Typed, ChannelTypes
  <2>2. cur' = r /\ op' = [op EXCEPT ![r] = "RESOLVED"]
    BY <1>1, <1>3, <2>1, Resumed DEF SendToReceiver
  <2>3. cur = f /\ pc[f] = "run" /\ UNCHANGED <<defer, pc, on, closed>>
    BY <1>3 DEF SendToReceiver, MaySend, MayCall
  <2> QED
    BY <1>1, <1>2, <2>1, <2>2, <2>3, KeepSuspended
<1>4. ASSUME NEW f \in Fibers, NEW c \in Channels,
             SendToBuffer(f, c) \/ SendRefused(f, c)
      PROVE  Suspended'
  BY <1>4 DEF SendToBuffer, SendRefused, Suspended
<1>5. ASSUME NEW f \in Fibers, NEW c \in Channels,
             NextBlocks(f, c) \/ \E timed \in BOOLEAN : SendBlocks(f, c, timed)
      PROVE  Suspended'
  <2>1. /\ cur = f /\ pc[f] = "run" /\ UNCHANGED <<defer, closed>>
        /\ on' = [on EXCEPT ![f] = c] /\ op' = [op EXCEPT ![f] = "RUNNING"]
        /\ \E l \in {"send", "recv"} : pc' = [pc EXCEPT ![f] = l]
    BY <1>5 DEF NextBlocks, SendBlocks, MaySend, MayCall, AwaitOp, AwaitSuspend
  <2> QED
    BY <1>1, <1>2, <2>1, KeepSuspended
<1>6. ASSUME NEW f \in Fibers, NEW c \in Channels, NextFetches(f, c)
      PROVE  Suspended'
  <2>1. /\ cur = f /\ pc[f] = "run" /\ UNCHANGED <<pc, defer, on, closed>>
        /\ fetch_noblock(c)
    BY <1>6 DEF NextFetches, MayCall
  <2>2. CASE senders[c] = <<>>
    <3>1. UNCHANGED <<cur, op>>
      BY <2>1, <2>2 DEF fetch_noblock
    <3> QED
      BY <2>1, <3>1 DEF Suspended
  <2>3. CASE senders[c] # <<>>
    <3>1. PICK m : m = Head(senders[c]) /\ m \in Messages
      BY <2>3, HeadTailProperties DEF Typed, ChannelTypes
    <3>2. CompleteSend(m, c, "RESOLVED")
      BY <2>1, <2>3, <3>1 DEF fetch_noblock
    <3>3. PICK g : g = Owner(m)
      OBVIOUS
    <3>4. /\ g \in Fibers
          /\ \/ UNCHANGED <<cur, op>>
             \/ /\ cur' = g /\ pc[g] \in {"send", "gsend"}
                /\ \E p : op' = [op EXCEPT ![g] = p]
      BY <3>1, <3>2, <3>3, Completed
    <3> QED
      BY <1>1, <1>2, <2>1, <3>4, KeepSuspended
  <2> QED
    BY <2>2, <2>3
<1>7. ASSUME NEW f \in Fibers, NEW c \in Channels, NEW err \in BOOLEAN,
             close(f, c, err)
      PROVE  Suspended'
  <2>1. /\ UNCHANGED <<cur, defer, op>> /\ closed' = [closed EXCEPT ![c] = TRUE]
        /\ on' = [on EXCEPT ![f] = c]
        /\ \E l \in {"close", "shutdown"} : pc' = [pc EXCEPT ![f] = l]
    BY <1>7 DEF close
  <2> QED
    BY <1>1, <1>2, <2>1, KeepSuspended
<1>8. ASSUME NEW f \in Fibers, SendReturns(f) \/ NextReturns(f)
      PROVE  Suspended'
  <2>1. /\ UNCHANGED <<cur, defer, closed>> /\ op' = [op EXCEPT ![f] = "PENDING"]
        /\ on' = [on EXCEPT ![f] = NoChan] /\ pc' = [pc EXCEPT ![f] = "run"]
    BY <1>8 DEF SendReturns, NextReturns, AwaitDone, AwaitResume
  <2> QED
    BY <1>1, <1>2, <2>1, KeepSuspended
<1>9. ASSUME NEW f \in Fibers, timeout_channel_send_cb(f)
      PROVE  Suspended'
  <2>1. cur' = f /\ op' = [op EXCEPT ![f] = "RESOLVED"]
    BY <1>1, <1>9, Resumed DEF timeout_channel_send_cb
  <2>2. cur = Runner /\ UNCHANGED <<pc, defer, closed, on>>
    BY <1>9 DEF timeout_channel_send_cb
  <2> QED
    BY <1>1, <1>2, <2>1, <2>2, KeepSuspended
<1>10. ASSUME NEW c \in Channels, dispose_channel_send_timer_cb(c)
       PROVE  Suspended'
  BY <1>10 DEF dispose_channel_send_timer_cb, schedVars, Suspended
<1>11. CASE DisposeReceiver
  <2>1. PICK c, r : c = on[cur] /\ r = Head(receivers[c])
    OBVIOUS
  <2>2. c \in Channels /\ cur \in Fibers /\ pc[cur] \in {"close", "shutdown"}
    BY <1>11, <2>1 DEF DisposeReceiver, Closing, Typed, Closers
  <2>3. r \in Fibers /\ pc[r] = "recv"
    BY <1>11, <2>1, <2>2, HeadTailProperties
       DEF DisposeReceiver, Typed, ChannelTypes
  <2>4. cur' = r /\ op' = [op EXCEPT ![r] = CloseOutcome(c)]
    BY <1>1, <1>11, <2>1, <2>3, Resumed DEF DisposeReceiver
  <2>5. UNCHANGED <<pc, defer, closed, on>>
    BY <1>11 DEF DisposeReceiver
  <2> QED
    BY <1>1, <1>2, <2>2, <2>3, <2>4, <2>5, KeepSuspended
<1>12. CASE DisposeSender
  <2>1. PICK c, m : c = on[cur] /\ m = Head(senders[c])
    OBVIOUS
  <2>2. c \in Channels /\ cur \in Fibers /\ pc[cur] \in {"close", "shutdown"}
    BY <1>12, <2>1 DEF DisposeSender, Closing, Typed, Closers
  <2>3. m \in Messages
    BY <1>12, <2>1, <2>2, HeadTailProperties DEF DisposeSender, Typed, ChannelTypes
  <2>4. CompleteSend(m, c, CloseOutcome(c)) /\ UNCHANGED <<pc, defer, closed, on>>
    BY <1>12, <2>1 DEF DisposeSender
  <2>5. PICK g : g = Owner(m)
    OBVIOUS
  <2>6. /\ g \in Fibers
        /\ \/ UNCHANGED <<cur, op>>
           \/ /\ cur' = g /\ pc[g] \in {"send", "gsend"}
              /\ \E p : op' = [op EXCEPT ![g] = p]
    BY <2>3, <2>4, <2>5, Completed
  <2> QED
    BY <1>1, <1>2, <2>2, <2>4, <2>6, KeepSuspended
<1>13. CASE DisposeEnds
  <2>1. /\ cur \in Fibers /\ UNCHANGED <<cur, op, defer, closed>>
        /\ on' = [on EXCEPT ![cur] = NoChan]
        /\ \E l \in {"run", "dispose"} : pc' = [pc EXCEPT ![cur] = l]
    BY <1>13 DEF DisposeEnds, Closing
  <2> QED
    BY <1>1, <1>2, <2>1, KeepSuspended
<1>14. CASE SchedStep /\ UNCHANGED chanVars
  <2>1. UNCHANGED <<defer, closed, on>>
    BY <1>14 DEF chanVars, SchedStep, dispatch_tasks, run_task_fiber,
       async_task_scheduler_dispose, run_scheduler_fiber, DisposeDrain,
       CancelInvoke, CancelLoop
  <2>2. CASE dispatch_tasks
    BY <1>1, <1>2, <2>1, <2>2, KeepSuspended DEF dispatch_tasks
  <2>3. ASSUME NEW t \in Tasks, run_task_fiber(t) PROVE Suspended'
    BY <1>1, <1>2, <2>1, <2>3, KeepSuspended DEF run_task_fiber, Fibers
  <2>4. CASE async_task_scheduler_dispose \/ DisposeDrain({c \in Channels : ~closed[c]})
    BY <1>1, <1>2, <2>1, <2>4, KeepSuspended
       DEF async_task_scheduler_dispose, DisposeDrain, Fibers
  <2>5. CASE run_scheduler_fiber(Handles)
    BY <1>1, <1>2, <2>1, <2>5, KeepSuspended DEF run_scheduler_fiber, Fibers
  <2>6. ASSUME NEW f \in Fibers \cup {Runner}, CancelInvoke(f) PROVE Suspended'
    BY <1>1, <1>2, <2>1, <2>6, KeepSuspended DEF CancelInvoke
  <2>7. CASE CancelLoop
    <3>1. CASE callbacks = <<>>
      BY <1>1, <1>2, <2>1, <2>7, <3>1, KeepSuspended DEF CancelLoop
    <3>2. CASE callbacks # <<>> /\ op[Head(callbacks)] = "RUNNING"
      <4>1. PICK g : g = Head(callbacks) /\ g \in Fibers
        BY <3>2, HeadTailProperties DEF Typed, Counting
      <4>2. cur' = g /\ op' = [op EXCEPT ![g] = "FAILED"] /\ UNCHANGED pc
        BY <1>1, <2>7, <3>2, <4>1, Resumed DEF CancelLoop
      <4>3. pc[cur] = "cancel"
        BY <2>7 DEF CancelLoop
      <4> QED
        BY <1>1, <1>2, <2>1, <4>1, <4>2, <4>3, KeepSuspended
    <3>3. CASE callbacks # <<>> /\ op[Head(callbacks)] # "RUNNING"
      BY <2>1, <2>7, <3>3 DEF CancelLoop, Suspended
    <3> QED
      BY <3>1, <3>2, <3>3
  <2> QED
    BY <1>14, <2>2, <2>3, <2>4, <2>5, <2>6, <2>7 DEF SchedStep
<1>15. CASE UNCHANGED vars
  BY <1>15 DEF vars, Suspended
<1> QED
  BY <1>3, <1>4, <1>5, <1>6, <1>7, <1>8, <1>9, <1>10, <1>11, <1>12, <1>13,
     <1>14, <1>15
     DEF Next, ChannelStep

\* A message is never the empty content, and names its sender.
LEMMA MessageNamed ==
  /\ NoMsg \notin Messages
  /\ \A m \in Messages : m # NoMsg /\ Owner(m) \in Fibers
  BY DEF Messages, NoMsg, Owner

\* A step of the scheduler neither begins nor ends a blocking call, and leaves
\* the operations alone but for those it cancels.
LEMMA SchedulerMoves ==
  ASSUME Typed, Suspended, SchedStep
  PROVE  /\ pc[cur] \in {"run", "dispose", "cancel"}
         /\ \A f \in Fibers :
              /\ \A l \in Blocking : pc[f] = l <=> pc'[f] = l
              /\ op'[f] = op[f] \/ op'[f] = "FAILED"
<1>1. /\ pc \in [Fibers \cup {Runner} -> Places] /\ op \in [Fibers -> OpStatus]
      /\ defer = {} /\ FiberLists /\ Runner \notin Fibers
      /\ cur \in Fibers \cup {Runner}
  BY SchedulerAssumption DEF Typed, Counting, FiberLists, Suspended
<1> USE DEF Blocking
<1>2. CASE dispatch_tasks
  BY <1>1, <1>2 DEF dispatch_tasks
<1>3. ASSUME NEW t \in Tasks, run_task_fiber(t)
      PROVE  /\ cur = t /\ pc[t] = "run" /\ UNCHANGED op
             /\ pc' = [pc EXCEPT ![t] = "done"]
  BY <1>3 DEF run_task_fiber
<1>4. CASE async_task_scheduler_dispose \/ DisposeDrain({c \in Channels : ~closed[c]})
  BY <1>1, <1>4 DEF async_task_scheduler_dispose, DisposeDrain, Fibers
<1>5. CASE run_scheduler_fiber(Handles)
  BY <1>1, <1>5 DEF run_scheduler_fiber, Fibers
<1>6. ASSUME NEW f \in Fibers \cup {Runner}, CancelInvoke(f)
      PROVE  /\ cur = f /\ pc[f] = "run" /\ UNCHANGED op
             /\ pc' = [pc EXCEPT ![f] = "cancel"]
  BY <1>6 DEF CancelInvoke, MayCall
<1>7. CASE CancelLoop
  <2>1. CASE callbacks = <<>>
    BY <1>1, <1>7, <2>1 DEF CancelLoop
  <2>2. CASE callbacks # <<>> /\ op[Head(callbacks)] = "RUNNING"
    <3>1. op' = [op EXCEPT ![Head(callbacks)] = "FAILED"] /\ UNCHANGED pc
          /\ pc[cur] = "cancel"
      BY <1>7, <2>2 DEF CancelLoop, reschedule_task
    <3> QED
      BY <1>1, <3>1
  <2>3. CASE callbacks # <<>> /\ op[Head(callbacks)] # "RUNNING"
    BY <1>7, <2>3 DEF CancelLoop
  <2> QED
    BY <2>1, <2>2, <2>3
<1> QED
  BY <1>1, <1>2, <1>3, <1>4, <1>5, <1>6, <1>7 DEF SchedStep, Fibers

\* A step in which no send begins or returns, and after which nothing is
\* unlinked but the operation of m, keeps Sending when nobody is left waiting
\* for m.
LEMMA KeepSending ==
  ASSUME Typed, Sending, UNCHANGED value, dropped \subseteq dropped',
         \A f \in Fibers :
           /\ \A l \in {"send", "gsend"} : pc[f] = l <=> pc'[f] = l
           /\ pc[f] = "send" =>
                on'[f] = on[f] /\ (op'[f] = "RUNNING" => op[f] = "RUNNING"),
         \/ UNCHANGED senders
         \/ \E m :
              /\ \A c \in Channels :
                   /\ Range(senders'[c]) \subseteq Range(senders[c])
                   /\ Range(senders[c]) \ {m} \subseteq Range(senders'[c])
              /\ \A f \in Fibers :
                   pc[f] = "send" /\ value[f] = m => op'[f] # "RUNNING"
         , \A f \in Fibers : pc[f] = "send" => on[f] \in Channels
  PROVE  Sending'
<1>1. ASSUME NEW f \in Fibers
      PROVE  /\ value'[f] # NoMsg =>
                  pc'[f] \in {"send", "gsend"} /\ Owner(value'[f]) = f
             /\ pc'[f] = "send" /\ op'[f] = "RUNNING" =>
                  value'[f] \in Range(senders'[on'[f]])
  BY DEF Sending
<1>2. ASSUME NEW c \in Channels, NEW m \in Range(senders'[c])
      PROVE  /\ m \in Range(senders[c])
             /\ IF value'[Owner(m)] # m THEN m \in dropped'
                ELSE pc'[Owner(m)] = "gsend" \/ on'[Owner(m)] = c
  <2>1. m \in Range(senders[c])
    BY <1>2
  <2>2. m \in Messages
    BY <2>1, InList DEF Typed, ChannelTypes
  <2>3. m # NoMsg /\ Owner(m) \in Fibers
    BY <2>2, MessageNamed
  <2> QED
    BY <2>1, <2>3 DEF Sending, Dead
<1> QED
  BY <1>1, <1>2 DEF Sending, Dead

\* Every step keeps Sending.
LEMMA StepSending ==
  ASSUME Typed, Named, Suspended, Sending, Receiving, [Next]_vars
  PROVE  Sending'
<1>1. /\ pc \in [Fibers \cup {Runner} -> Places] /\ op \in [Fibers -> OpStatus]
      /\ on \in [Fibers -> Channels \cup {NoChan}]
      /\ value \in [Fibers -> Messages \cup {NoMsg}]
      /\ senders \in [Channels -> Seq(Messages)]
      /\ closed \in [Channels -> BOOLEAN] /\ defer = {} /\ FiberLists
      /\ Bookkeeping
  BY DEF Typed, Counting, FiberLists, ChannelTypes, Suspended
<1>2. \A f \in Fibers : pc[f] = "send" => on[f] \in Channels
  BY DEF Suspended
<1>3. ASSUME NEW f \in Fibers, NEW c \in Channels, SendToReceiver(f, c)
      PROVE  Sending'
  <2>1. PICK r : r = Head(receivers[c]) /\ r \in Fibers /\ pc[r] = "recv"
    BY <1>3, HeadTailProperties DEF SendToReceiver, Typed, ChannelTypes
  <2>2. op' = [op EXCEPT ![r] = "RESOLVED"]
    BY <1>1, <1>3, <2>1, Resumed DEF SendToReceiver
  <2>3. UNCHANGED <<pc, on, value, senders, dropped>>
    BY <1>3 DEF SendToReceiver
  <2> QED
    BY <1>1, <1>2, <2>1, <2>2, <2>3, KeepSending
<1>4. ASSUME NEW f \in Fibers, NEW c \in Channels, SendToBuffer(f, c)
      PROVE  Sending'
  BY <1>4 DEF SendToBuffer, Sending, Dead
<1>5. ASSUME NEW f \in Fibers, NEW c \in Channels, NextBlocks(f, c)
      PROVE  Sending'
  <2>1. /\ cur = f /\ pc[f] = "run" /\ UNCHANGED <<value, senders, dropped>>
        /\ on' = [on EXCEPT ![f] = c] /\ op' = [op EXCEPT ![f] = "RUNNING"]
        /\ pc' = [pc EXCEPT ![f] = "recv"]
    BY <1>5 DEF NextBlocks, MayCall, AwaitOp, AwaitSuspend
  <2> QED
    BY <1>1, <1>2, <2>1, KeepSending
<1>6. ASSUME NEW f \in Fibers, NEW c \in Channels, NEW err \in BOOLEAN,
             close(f, c, err)
      PROVE  Sending'
  <2>1. /\ UNCHANGED <<value, senders, dropped, op>>
        /\ on' = [on EXCEPT ![f] = c] /\ pc[f] \in {"run", "dispose"}
        /\ \E l \in {"close", "shutdown"} : pc' = [pc EXCEPT ![f] = l]
    BY <1>6 DEF close, MayCall
  <2> QED
    BY <1>1, <1>2, <2>1, KeepSending
<1>7. ASSUME NEW f \in Fibers, NextReturns(f) PROVE Sending'
  <2>1. /\ UNCHANGED <<value, senders, dropped>> /\ op' = [op EXCEPT ![f] = "PENDING"]
        /\ on' = [on EXCEPT ![f] = NoChan] /\ pc' = [pc EXCEPT ![f] = "run"]
        /\ pc[f] = "recv"
    BY <1>7 DEF NextReturns, AwaitDone, AwaitResume
  <2> QED
    BY <1>1, <1>2, <2>1, KeepSending
<1>8. CASE DisposeReceiver
  <2>1. PICK c, r : c = on[cur] /\ r = Head(receivers[c])
    OBVIOUS
  <2>2. c \in Channels
    BY <1>8, <2>1 DEF DisposeReceiver, Closing, Typed, Closers
  <2>3. r \in Fibers /\ pc[r] = "recv"
    BY <1>8, <2>1, <2>2, HeadTailProperties
       DEF DisposeReceiver, Typed, ChannelTypes
  <2>4. op' = [op EXCEPT ![r] = CloseOutcome(c)]
    BY <1>1, <1>8, <2>1, <2>3, Resumed DEF DisposeReceiver
  <2>5. UNCHANGED <<pc, on, value, senders, dropped>>
    BY <1>8 DEF DisposeReceiver
  <2> QED
    BY <1>1, <1>2, <2>3, <2>4, <2>5, KeepSending
<1>9. CASE DisposeEnds
  <2>1. /\ cur \in Fibers /\ UNCHANGED <<op, value, senders, dropped>>
        /\ on' = [on EXCEPT ![cur] = NoChan]
        /\ pc[cur] \in {"close", "shutdown"}
        /\ \E l \in {"run", "dispose"} : pc' = [pc EXCEPT ![cur] = l]
    BY <1>9 DEF DisposeEnds, Closing
  <2> QED
    BY <1>1, <1>2, <2>1, KeepSending
<1>10. CASE SchedStep /\ UNCHANGED chanVars
  <2>1. UNCHANGED <<on, value, senders, dropped>>
    BY <1>10 DEF chanVars
  <2> QED
    BY <1>2, <1>10, <2>1, SchedulerMoves, KeepSending DEF Blocking
<1>11. CASE UNCHANGED vars
  BY <1>11 DEF vars, Sending, Dead
<1>12. ASSUME NEW f \in Fibers, NEW c \in Channels, NextFetches(f, c)
       PROVE  Sending'
  <2>1. UNCHANGED <<pc, on, value, dropped>> /\ fetch_noblock(c)
    BY <1>12 DEF NextFetches
  <2>2. CASE senders[c] = <<>>
    BY <1>2, <2>1, <2>2, KeepSending DEF fetch_noblock
  <2>3. CASE senders[c] # <<>>
    <3>1. PICK m : m = Head(senders[c]) /\ m \in Messages
      BY <2>3, HeadTailProperties DEF Typed, ChannelTypes
    <3>2. CompleteSend(m, c, "RESOLVED") /\ senders' = [senders EXCEPT ![c] = Tail(@)]
      BY <2>1, <2>3, <3>1 DEF fetch_noblock
    <3>3. PICK g : g = Owner(m)
      OBVIOUS
    <3>4. /\ g \in Fibers
          /\ IF value[g] # m THEN UNCHANGED <<cur, op>>
             ELSE \E p \in {"RESOLVED", "FAILED"} : op' = [op EXCEPT ![g] = p]
      BY <3>1, <3>2, <3>3, Completed DEF Dead
    <3>5. \A d \in Channels :
            /\ Range(senders'[d]) \subseteq Range(senders[d])
            /\ Range(senders[d]) \ {m} \subseteq Range(senders'[d])
      BY <1>1, <2>3, <3>1, <3>2, TailList
    <3>6. \A h \in Fibers : value[h] = m => h = g
      BY <3>1, <3>3 DEF Sending, Messages, NoMsg
    <3>7. \A h \in Fibers :
            /\ op'[h] = "RUNNING" => op[h] = "RUNNING"
            /\ pc[h] = "send" /\ value[h] = m => op'[h] # "RUNNING"
      BY <1>1, <3>4, <3>6
    <3> QED
      BY <1>1, <1>2, <2>1, <3>5, <3>7, KeepSending
  <2> QED
    BY <2>2, <2>3
<1>13. CASE DisposeSender
  <2>1. PICK c, m : c = on[cur] /\ m = Head(senders[c])
    OBVIOUS
  <2>2. c \in Channels
    BY <1>13, <2>1 DEF DisposeSender, Closing, Typed, Closers
  <2>3. m \in Messages /\ senders[c] # <<>>
    BY <1>13, <2>1, <2>2, HeadTailProperties DEF DisposeSender, Typed, ChannelTypes
  <2>4. /\ CompleteSend(m, c, CloseOutcome(c)) /\ UNCHANGED <<pc, on, value>>
        /\ senders' = [senders EXCEPT ![c] = Tail(@)]
        /\ dropped \subseteq dropped'
    BY <1>13, <2>1 DEF DisposeSender
  <2>5. PICK g : g = Owner(m)
    OBVIOUS
  <2>6. /\ g \in Fibers
        /\ IF value[g] # m THEN UNCHANGED <<cur, op>>
           ELSE \E p \in {CloseOutcome(c), "FAILED"} : op' = [op EXCEPT ![g] = p]
    BY <2>3, <2>4, <2>5, Completed DEF Dead
  <2>7. \A d \in Channels :
          /\ Range(senders'[d]) \subseteq Range(senders[d])
          /\ Range(senders[d]) \ {m} \subseteq Range(senders'[d])
    BY <1>1, <2>1, <2>2, <2>3, <2>4, TailList
  <2>8. \A h \in Fibers : value[h] = m => h = g
    BY <2>3, <2>5 DEF Sending, Messages, NoMsg
  <2>9. \A h \in Fibers :
          /\ op'[h] = "RUNNING" => op[h] = "RUNNING"
          /\ pc[h] = "send" /\ value[h] = m => op'[h] # "RUNNING"
    BY <1>1, <2>6, <2>8 DEF CloseOutcome
  <2> QED
    BY <1>1, <1>2, <2>4, <2>7, <2>9, KeepSending
<1>14. ASSUME NEW c \in Channels, dispose_channel_send_timer_cb(c)
       PROVE  Sending'
  <2>1. PICK m \in Range(senders[c]) :
          Dead(m) /\ senders' = [senders EXCEPT ![c] = ASYNC_LIST_REMOVE(@, m)]
    BY <1>14 DEF dispose_channel_send_timer_cb
  <2>2. UNCHANGED <<pc, op, on, value, dropped>>
    BY <1>14 DEF dispose_channel_send_timer_cb, schedVars
  <2>3. \A d \in Channels :
          /\ Range(senders'[d]) \subseteq Range(senders[d])
          /\ Range(senders[d]) \ {m} \subseteq Range(senders'[d])
    BY <1>1, <2>1, RemoveList, UnlinkKeeps
  <2>4. \A h \in Fibers : value[h] # m
    <3>1. m \in Messages
      BY <1>1, <2>1, InList
    <3> QED
      BY <2>1, <3>1 DEF Sending, Dead, Messages, NoMsg
  <2> QED
    BY <1>2, <2>2, <2>3, <2>4, KeepSending
<1>15. ASSUME NEW f \in Fibers, timeout_channel_send_cb(f)
       PROVE  Sending'
  <2>1. /\ op' = [op EXCEPT ![f] = "RESOLVED"] /\ UNCHANGED <<pc, on, value>>
        /\ pc[f] = "send" /\ dropped \subseteq dropped'
        /\ senders' = [senders EXCEPT ![on[f]] = ASYNC_LIST_REMOVE(@, value[f])]
    BY <1>15 DEF timeout_channel_send_cb, reschedule_task
  <2>2. PICK c, m : c = on[f] /\ m = value[f] /\ c \in Channels
    BY <1>2, <2>1
  <2>3. \A d \in Channels :
          /\ Range(senders'[d]) \subseteq Range(senders[d])
          /\ Range(senders[d]) \ {m} \subseteq Range(senders'[d])
    BY <1>1, <2>1, <2>2, RemoveList, UnlinkKeeps
  <2>4. \A h \in Fibers :
          /\ op'[h] = "RUNNING" => op[h] = "RUNNING"
    BY <1>1, <2>1
  <2>5. CASE m = NoMsg
    <3>1. UNCHANGED senders
      <4>1. m \notin Range(senders[c])
        BY <1>1, <2>2, <2>5, InList, MessageNamed
      <4> QED
        BY <1>1, <2>1, <2>2, <4>1 DEF ASYNC_LIST_REMOVE
    <3> QED
      BY <1>2, <2>1, <2>4, <3>1, KeepSending
  <2>6. CASE m # NoMsg
    <3>1. \A h \in Fibers : value[h] = m => h = f
      BY <2>2, <2>6 DEF Sending
    <3>2. \A h \in Fibers : pc[h] = "send" /\ value[h] = m => op'[h] # "RUNNING"
      BY <1>1, <2>1, <3>1
    <3> QED
      <4>1. \E k :
              /\ \A d \in Channels :
                   /\ Range(senders'[d]) \subseteq Range(senders[d])
                   /\ Range(senders[d]) \ {k} \subseteq Range(senders'[d])
              /\ \A h \in Fibers :
                   pc[h] = "send" /\ value[h] = k => op'[h] # "RUNNING"
        BY <2>3, <3>2, Zenon
      <4>2. /\ UNCHANGED value /\ dropped \subseteq dropped'
            /\ \A h \in Fibers :
                 /\ \A l \in {"send", "gsend"} : pc[h] = l <=> pc'[h] = l
                 /\ pc[h] = "send" =>
                      on'[h] = on[h] /\ (op'[h] = "RUNNING" => op[h] = "RUNNING")
        BY <2>1, <2>4
      <4> QED
        BY <1>2, <4>1, <4>2, KeepSending
  <2> QED
    BY <2>5, <2>6
<1>16. ASSUME NEW f \in Fibers, NEW c \in Channels, SendRefused(f, c)
       PROVE  Sending'
  <2>1. /\ UNCHANGED <<pc, op, on, value>> /\ dropped' = dropped \cup {Msg(f)}
        /\ senders' = [senders EXCEPT ![c] = Append(@, Msg(f))] /\ Call(f)
    BY <1>16 DEF SendRefused, MaySend
  <2>2. Msg(f) \in Messages /\ Owner(Msg(f)) = f /\ Msg(f) # NoMsg
    BY <1>1, <2>1, NewMessage
  <2>3. \A d \in Channels : \A m \in Range(senders'[d]) :
          m \in Range(senders[d]) \/ (m = Msg(f) /\ d = c)
    BY <1>1, <2>1, <2>2, AppendList
  <2>4. \A d \in Channels : Range(senders[d]) \subseteq Range(senders'[d])
    BY <1>1, <2>1, <2>2, AppendList
  <2>5. value[f] # Msg(f)
    <3>1. cur = f /\ pc[f] = "run"
      BY <1>16 DEF SendRefused, MaySend, MayCall
    <3> QED
      BY <2>2, <3>1 DEF Sending
  <2>6. \A h \in Fibers :
          /\ value'[h] # NoMsg => pc'[h] \in {"send", "gsend"} /\ Owner(value'[h]) = h
          /\ pc'[h] = "send" /\ op'[h] = "RUNNING" =>
               value'[h] \in Range(senders'[on'[h]])
    BY <1>2, <2>1, <2>4 DEF Sending
  <2>7. ASSUME NEW d \in Channels, NEW m \in Range(senders'[d])
        PROVE  IF Dead(m)' THEN m \in dropped'
               ELSE pc'[Owner(m)] = "gsend" \/ on'[Owner(m)] = d
    <3>1. CASE m \in Range(senders[d])
      BY <2>1, <3>1 DEF Sending, Dead
    <3>2. CASE m = Msg(f) /\ d = c
      BY <2>1, <2>2, <2>5, <3>2 DEF Dead
    <3> QED
      BY <2>3, <2>7, <3>1, <3>2
  <2> QED
    BY <2>6, <2>7 DEF Sending
<1>17. ASSUME NEW f \in Fibers, NEW c \in Channels, NEW timed \in BOOLEAN,
              SendBlocks(f, c, timed)
       PROVE  Sending'
  <2>1. /\ pc' = [pc EXCEPT ![f] = "send"] /\ op' = [op EXCEPT ![f] = "RUNNING"]
        /\ on' = [on EXCEPT ![f] = c] /\ value' = [value EXCEPT ![f] = Msg(f)]
        /\ senders' = [senders EXCEPT ![c] = Append(@, Msg(f))]
        /\ pc[f] = "run" /\ Call(f) /\ UNCHANGED dropped
    BY <1>17 DEF SendBlocks, MaySend, MayCall, AwaitOp, AwaitSuspend
  <2>2. PICK n : n = Msg(f)
    OBVIOUS
  <2>3. n \in Messages /\ Owner(n) = f /\ n # NoMsg /\ n \notin Old
    BY <1>1, <2>1, <2>2, NewMessage
  <2>4. \A d \in Channels : \A m \in Range(senders'[d]) :
          m \in Range(senders[d]) \/ (m = n /\ d = c)
    BY <1>1, <2>1, <2>2, <2>3, AppendList
  <2>5. /\ \A d \in Channels : Range(senders[d]) \subseteq Range(senders'[d])
        /\ n \in Range(senders'[c])
    BY <1>1, <2>1, <2>2, <2>3, AppendList
  <2>6. value[f] = NoMsg
    BY <2>1 DEF Sending
  <2>7. ASSUME NEW g \in Fibers
        PROVE  /\ value'[g] # NoMsg =>
                    pc'[g] \in {"send", "gsend"} /\ Owner(value'[g]) = g
               /\ pc'[g] = "send" /\ op'[g] = "RUNNING" =>
                    value'[g] \in Range(senders'[on'[g]])
    <3>1. CASE g = f
      BY <1>1, <2>1, <2>2, <2>3, <2>5, <3>1
    <3>2. CASE g # f
      <4>1. pc'[g] = pc[g] /\ value'[g] = value[g] /\ op'[g] = op[g] /\ on'[g] = on[g]
        BY <1>1, <2>1, <3>2
      <4> QED
        BY <1>2, <2>5, <4>1 DEF Sending
    <3> QED
      BY <3>1, <3>2
  <2>8. ASSUME NEW d \in Channels, NEW m \in Range(senders'[d])
        PROVE  IF value'[Owner(m)] # m THEN m \in dropped'
               ELSE pc'[Owner(m)] = "gsend" \/ on'[Owner(m)] = d
    <3>1. CASE m = n /\ d = c
      BY <1>1, <2>1, <2>2, <2>3, <3>1
    <3>2. CASE m \in Range(senders[d]) /\ m # n
      <4>1. m \in Messages
        BY <1>1, <3>2, InList
      <4>2. m # NoMsg /\ Owner(m) \in Fibers
        BY <4>1, MessageNamed
      <4>3. IF value[Owner(m)] # m THEN m \in dropped
            ELSE pc[Owner(m)] = "gsend" \/ on[Owner(m)] = d
        BY <3>2 DEF Sending, Dead
      <4> QED
        BY <1>1, <2>1, <2>2, <2>6, <3>2, <4>2, <4>3
    <3>3. n \notin Range(senders[d])
      BY <2>3, InList DEF Named
    <3> QED
      BY <2>4, <3>1, <3>2, <3>3
  <2> QED
    BY <2>7, <2>8 DEF Sending, Dead
<1>18. ASSUME NEW f \in Fibers, SendReturns(f)
       PROVE  Sending'
  <2>1. /\ pc' = [pc EXCEPT ![f] = "run"] /\ op' = [op EXCEPT ![f] = "PENDING"]
        /\ on' = [on EXCEPT ![f] = NoChan] /\ value' = [value EXCEPT ![f] = NoMsg]
        /\ pc[f] = "send"
        /\ dropped' = IF value[f] \in Range(senders[on[f]])
                      THEN dropped \cup {value[f]} ELSE dropped
        /\ senders' = IF f \in timers THEN senders
             ELSE [senders EXCEPT ![on[f]] = ASYNC_LIST_REMOVE(@, value[f])]
    BY <1>18 DEF SendReturns, AwaitDone, AwaitResume
  <2>2. PICK c, n : c = on[f] /\ n = value[f] /\ c \in Channels
    BY <1>2, <2>1
  <2>3. \A d \in Channels :
          /\ Range(senders'[d]) \subseteq Range(senders[d])
          /\ Range(senders[d]) \ {n} \subseteq Range(senders'[d])
    <3>1. CASE f \in timers
      BY <2>1, <3>1
    <3>2. CASE f \notin timers
      <4>1. senders' = [senders EXCEPT ![c] = ASYNC_LIST_REMOVE(@, n)]
        BY <2>1, <2>2, <3>2
      <4> QED
        BY <1>1, <2>2, <4>1, RemoveList, UnlinkKeeps
    <3> QED
      BY <3>1, <3>2
  <2>4. ASSUME NEW g \in Fibers
        PROVE  /\ value'[g] # NoMsg =>
                    pc'[g] \in {"send", "gsend"} /\ Owner(value'[g]) = g
               /\ pc'[g] = "send" /\ op'[g] = "RUNNING" =>
                    value'[g] \in Range(senders'[on'[g]])
    <3>1. CASE g = f
      BY <1>1, <2>1, <3>1
    <3>2. CASE g # f
      <4>1. pc'[g] = pc[g] /\ value'[g] = value[g] /\ op'[g] = op[g] /\ on'[g] = on[g]
        BY <1>1, <2>1, <3>2
      <4>2. ASSUME pc[g] = "send", op[g] = "RUNNING"
            PROVE  value[g] \in Range(senders'[on[g]])
        <5>1. on[g] \in Channels /\ value[g] \in Range(senders[on[g]])
          BY <1>2, <4>2 DEF Sending
        <5>2. value[g] # NoMsg
          BY <1>1, <5>1, InList, MessageNamed
        <5>3. value[g] # n
          BY <2>2, <3>2, <5>2 DEF Sending
        <5> QED
          BY <2>3, <5>1, <5>3
      <4> QED
        BY <4>1, <4>2 DEF Sending
    <3> QED
      BY <3>1, <3>2
  <2>5. ASSUME NEW d \in Channels, NEW m \in Range(senders'[d])
        PROVE  IF value'[Owner(m)] # m THEN m \in dropped'
               ELSE pc'[Owner(m)] = "gsend" \/ on'[Owner(m)] = d
    <3>1. m \in Range(senders[d])
      BY <2>3
    <3>2. m \in Messages
      BY <1>1, <3>1, InList
    <3>3. m # NoMsg /\ Owner(m) \in Fibers
      BY <3>2, MessageNamed
    <3>4. IF value[Owner(m)] # m THEN m \in dropped
          ELSE pc[Owner(m)] = "gsend" \/ on[Owner(m)] = d
      BY <3>1 DEF Sending, Dead
    <3>5. CASE Owner(m) = f /\ value[f] = m
      <4>1. d = c /\ m = n
        BY <2>1, <2>2, <3>4, <3>5
      <4> QED
        BY <1>1, <2>1, <2>2, <3>1, <3>3, <3>5, <4>1
    <3>6. CASE Owner(m) = f /\ value[f] # m
      BY <1>1, <2>1, <3>3, <3>4, <3>6
    <3>7. CASE Owner(m) # f
      BY <1>1, <2>1, <3>3, <3>4, <3>7
    <3> QED
      BY <3>5, <3>6, <3>7
  <2> QED
    BY <2>4, <2>5 DEF Sending, Dead
<1> QED
  BY <1>3, <1>4, <1>5, <1>6, <1>7, <1>8, <1>9, <1>10, <1>11, <1>12, <1>13,
     <1>14, <1>15, <1>16, <1>17, <1>18
     DEF Next, ChannelStep

\* A step in which no receive begins or returns and no message is handed over
\* keeps Receiving, when the current fiber holds none.
LEMMA KeepReceiving ==
  ASSUME Typed, Receiving, UNCHANGED result, pc[cur] \notin {"recv", "select"},
         \A f \in Fibers :
           /\ \A l \in {"recv", "select"} : pc[f] = l <=> pc'[f] = l
           /\ pc[f] = "recv" =>
                /\ on'[f] = on[f] /\ on[f] \in Channels
                /\ op'[f] = "RESOLVED" => op[f] = "RESOLVED" \/ closed[on[f]]
           /\ pc[f] = "select" => on'[f] = on[f] /\ op'[f] \in {op[f], "FAILED"},
         \A c \in Channels : closed[c] => closed'[c],
         \A c \in Channels :
           \/ receivers'[c] = receivers[c]
           \/ receivers[c] # <<>> /\ receivers'[c] = Tail(receivers[c])
  PROVE  Receiving'
<1>1. ASSUME NEW c \in Channels
      PROVE  /\ IsInjective(receivers'[c])
             /\ \A r \in Range(receivers'[c]) :
                  pc'[r] = "select" \/ (pc'[r] = "recv" /\ on'[r] = c)
  <2>1. receivers[c] \in Seq(Fibers) /\ IsInjective(receivers[c])
    BY DEF Typed, ChannelTypes, Receiving
  <2>2. /\ IsInjective(receivers'[c])
        /\ Range(receivers'[c]) \subseteq Range(receivers[c])
    BY <2>1, TailList
  <2>3. \A r \in Range(receivers[c]) :
          r \in Fibers /\ (pc[r] = "select" \/ (pc[r] = "recv" /\ on[r] = c))
    BY <2>1, InList DEF Receiving
  <2> QED
    BY <2>2, <2>3
<1>2. ASSUME NEW f \in Fibers
      PROVE  /\ result'[f] = NoMsg
             /\ pc'[f] = "recv" /\ op'[f] = "RESOLVED" => closed'[on'[f]]
             /\ pc'[f] = "select" /\ op'[f] = "RESOLVED" => on'[f] = NoChan
             /\ pc'[f] = "select" /\ op'[f] = "RUNNING" => on'[f] = NoChan
  <2>1. result[f] = NoMsg
    BY DEF Receiving
  <2> QED
    BY <2>1 DEF Receiving
<1> QED
  BY <1>1, <1>2 DEF Receiving

\* Every step keeps Receiving.
LEMMA StepReceiving ==
  ASSUME Typed, Named, Suspended, Sending, Receiving, [Next]_vars
  PROVE  Receiving'
<1>1. /\ pc \in [Fibers \cup {Runner} -> Places] /\ op \in [Fibers -> OpStatus]
      /\ on \in [Fibers -> Channels \cup {NoChan}]
      /\ result \in [Fibers -> Messages \cup {NoMsg}]
      /\ receivers \in [Channels -> Seq(Fibers)]
      /\ closed \in [Channels -> BOOLEAN] /\ defer = {} /\ FiberLists
      /\ Bookkeeping
  BY DEF Typed, Counting, FiberLists, ChannelTypes, Suspended
<1>2. \A f \in Fibers : pc[f] = "recv" => on[f] \in Channels
  BY DEF Suspended
<1>3. ASSUME NEW f \in Fibers, NEW c \in Channels,
             SendToBuffer(f, c) \/ SendRefused(f, c)
      PROVE  Receiving'
  BY <1>3 DEF SendToBuffer, SendRefused, Receiving
<1>4. ASSUME NEW f \in Fibers, NEW c \in Channels, NEW timed \in BOOLEAN,
             SendBlocks(f, c, timed)
      PROVE  Receiving'
  <2>1. /\ pc' = [pc EXCEPT ![f] = "send"] /\ op' = [op EXCEPT ![f] = "RUNNING"]
        /\ on' = [on EXCEPT ![f] = c] /\ cur = f /\ pc[f] = "run"
        /\ UNCHANGED <<result, receivers, closed>>
    BY <1>4 DEF SendBlocks, MaySend, MayCall, AwaitOp, AwaitSuspend
  <2> QED
    BY <1>1, <1>2, <2>1, KeepReceiving
<1>5. ASSUME NEW f \in Fibers, NEW c \in Channels, NextFetches(f, c)
      PROVE  Receiving'
  <2>1. /\ cur = f /\ pc[f] = "run" /\ fetch_noblock(c)
        /\ UNCHANGED <<pc, on, result, receivers, closed>>
    BY <1>5 DEF NextFetches, MayCall
  <2>2. CASE senders[c] = <<>>
    <3>1. UNCHANGED op
      BY <2>1, <2>2 DEF fetch_noblock
    <3> QED
      BY <1>2, <2>1, <3>1, KeepReceiving
  <2>3. CASE senders[c] # <<>>
    <3>1. PICK m : m = Head(senders[c]) /\ m \in Messages
      BY <2>3, HeadTailProperties DEF Typed, ChannelTypes
    <3>2. CompleteSend(m, c, "RESOLVED")
      BY <2>1, <2>3, <3>1 DEF fetch_noblock
    <3>3. PICK g : g = Owner(m)
      OBVIOUS
    <3>4. /\ g \in Fibers
          /\ \/ UNCHANGED op
             \/ /\ pc[g] \in {"send", "gsend"}
                /\ \E p : op' = [op EXCEPT ![g] = p]
      BY <3>1, <3>2, <3>3, Completed
    <3>5. \A h \in Fibers : pc[h] \in {"recv", "select"} => op'[h] = op[h]
      BY <1>1, <3>4
    <3> QED
      BY <1>2, <2>1, <3>5, KeepReceiving
  <2> QED
    BY <2>2, <2>3
<1>6. ASSUME NEW f \in Fibers, NEW c \in Channels, NEW err \in BOOLEAN,
             close(f, c, err)
      PROVE  Receiving'
  <2>1. /\ cur = f /\ pc[f] \in {"run", "dispose"}
        /\ UNCHANGED <<result, receivers, op>>
        /\ closed' = [closed EXCEPT ![c] = TRUE]
        /\ on' = [on EXCEPT ![f] = c]
        /\ \E l \in {"close", "shutdown"} : pc' = [pc EXCEPT ![f] = l]
    BY <1>6 DEF close, MayCall
  <2> QED
    BY <1>1, <1>2, <2>1, KeepReceiving
<1>7. ASSUME NEW f \in Fibers, SendReturns(f) PROVE Receiving'
  <2>1. /\ UNCHANGED <<result, receivers, closed>>
        /\ op' = [op EXCEPT ![f] = "PENDING"] /\ cur = f /\ pc[f] = "send"
        /\ on' = [on EXCEPT ![f] = NoChan] /\ pc' = [pc EXCEPT ![f] = "run"]
    BY <1>7 DEF SendReturns, AwaitDone, AwaitResume
  <2> QED
    BY <1>1, <1>2, <2>1, KeepReceiving
<1>8. ASSUME NEW f \in Fibers, timeout_channel_send_cb(f) PROVE Receiving'
  <2>1. /\ UNCHANGED <<pc, on, result, receivers, closed>>
        /\ op' = [op EXCEPT ![f] = "RESOLVED"]
        /\ pc[cur] = "run" /\ pc[f] = "send"
    BY <1>8 DEF timeout_channel_send_cb, reschedule_task
  <2> QED
    BY <1>1, <1>2, <2>1, KeepReceiving
<1>9. ASSUME NEW c \in Channels, dispose_channel_send_timer_cb(c)
      PROVE  Receiving'
  BY <1>9 DEF dispose_channel_send_timer_cb, schedVars, Receiving
<1>10. CASE DisposeReceiver
  <2>1. PICK c, r : c = on[cur] /\ r = Head(receivers[c])
    OBVIOUS
  <2>2. /\ c \in Channels /\ cur \in Fibers /\ closed[c]
        /\ pc[cur] \in {"close", "shutdown"}
    BY <1>10, <2>1 DEF DisposeReceiver, Closing, Typed, Closers, Suspended
  <2>3. r \in Fibers /\ receivers[c] # <<>> /\ on[r] = c /\ pc[r] = "recv"
    <3>1. receivers[c] # <<>> /\ pc[r] = "recv"
      BY <1>10, <2>1 DEF DisposeReceiver
    <3>2. r \in Fibers /\ r \in Range(receivers[c])
      BY <1>1, <2>1, <2>2, <3>1, TailList
    <3> QED
      BY <2>2, <3>1, <3>2 DEF Receiving
  <2>4. op' = [op EXCEPT ![r] = CloseOutcome(c)]
    BY <1>1, <1>10, <2>1, <2>3, Resumed DEF DisposeReceiver
  <2>5. /\ UNCHANGED <<pc, on, result, closed>>
        /\ receivers' = [receivers EXCEPT ![c] = Tail(@)]
    BY <1>10, <2>1 DEF DisposeReceiver
  <2>6. \A h \in Fibers :
          /\ op'[h] = "RESOLVED" => op[h] = "RESOLVED" \/ closed[on[h]]
          /\ pc[h] = "select" => op'[h] = op[h]
    BY <1>1, <2>2, <2>3, <2>4
  <2>7. \A d \in Channels :
          \/ receivers'[d] = receivers[d]
          \/ receivers[d] # <<>> /\ receivers'[d] = Tail(receivers[d])
    BY <1>1, <2>2, <2>3, <2>5
  <2> QED
    BY <1>2, <2>2, <2>5, <2>6, <2>7, KeepReceiving
<1>11. CASE DisposeSender
  <2>1. PICK c, m : c = on[cur] /\ m = Head(senders[c])
    OBVIOUS
  <2>2. c \in Channels /\ cur \in Fibers /\ pc[cur] \in {"close", "shutdown"}
    BY <1>11, <2>1 DEF DisposeSender, Closing, Typed, Closers
  <2>3. m \in Messages
    BY <1>11, <2>1, <2>2, HeadTailProperties DEF DisposeSender, Typed, ChannelTypes
  <2>4. /\ CompleteSend(m, c, CloseOutcome(c))
        /\ UNCHANGED <<pc, on, result, receivers, closed>>
    BY <1>11, <2>1 DEF DisposeSender
  <2>5. PICK g : g = Owner(m)
    OBVIOUS
  <2>6. /\ g \in Fibers
        /\ \/ UNCHANGED op
           \/ /\ pc[g] \in {"send", "gsend"}
              /\ \E p : op' = [op EXCEPT ![g] = p]
    BY <2>3, <2>4, <2>5, Completed
  <2>7. \A h \in Fibers : pc[h] \in {"recv", "select"} => op'[h] = op[h]
    BY <1>1, <2>6
  <2> QED
    BY <1>2, <2>2, <2>4, <2>7, KeepReceiving
<1>12. CASE DisposeEnds
  <2>1. /\ cur \in Fibers /\ UNCHANGED <<op, result, receivers, closed>>
        /\ on' = [on EXCEPT ![cur] = NoChan] /\ pc[cur] \in {"close", "shutdown"}
        /\ \E l \in {"run", "dispose"} : pc' = [pc EXCEPT ![cur] = l]
    BY <1>12 DEF DisposeEnds, Closing
  <2> QED
    BY <1>1, <1>2, <2>1, KeepReceiving
<1>13. CASE SchedStep /\ UNCHANGED chanVars
  <2>1. UNCHANGED <<on, result, receivers, closed>>
    BY <1>13 DEF chanVars
  <2> QED
    BY <1>2, <1>13, <2>1, SchedulerMoves, KeepReceiving DEF Blocking
<1>14. CASE UNCHANGED vars
  BY <1>14 DEF vars, Receiving
<1>15. ASSUME NEW f \in Fibers, NEW c \in Channels, SendToReceiver(f, c)
       PROVE  Receiving'
  <2>1. PICK r : r = Head(receivers[c])
    OBVIOUS
  <2>2. /\ receivers[c] # <<>> /\ receivers' = [receivers EXCEPT ![c] = Tail(@)]
        /\ result' = [result EXCEPT ![r] = Msg(f)] /\ pc[r] = "recv"
        /\ reschedule_task(r, "RESOLVED") /\ ~closed[c]
        /\ UNCHANGED <<pc, on, closed>> /\ cur = f /\ pc[f] = "run" /\ Call(f)
    BY <1>15, <2>1 DEF SendToReceiver, MaySend, MayCall
  <2>3. r \in Fibers /\ r \in Range(receivers[c])
    BY <1>1, <2>1, <2>2, TailList
  <2>4. cur' = r /\ op' = [op EXCEPT ![r] = "RESOLVED"] /\ on[r] = c
    BY <1>1, <2>2, <2>3, Resumed DEF Receiving
  <2>5. Msg(f) # NoMsg
    BY <1>1, <2>2, NewMessage
  <2>6. ASSUME NEW d \in Channels
        PROVE  /\ IsInjective(receivers'[d])
               /\ \A h \in Range(receivers'[d]) :
                    pc'[h] = "select" \/ (pc'[h] = "recv" /\ on'[h] = d)
    <3>1. /\ IsInjective(receivers'[d])
          /\ Range(receivers'[d]) \subseteq Range(receivers[d])
      BY <1>1, <2>2, TailList DEF Receiving
    <3> QED
      BY <2>2, <3>1 DEF Receiving
  <2>7. ASSUME NEW h \in Fibers
        PROVE  /\ result'[h] # NoMsg =>
                    /\ h = cur' /\ pc'[h] = "recv" /\ op'[h] = "RESOLVED"
                    /\ on'[h] \in Channels /\ ~closed'[on'[h]]
               /\ pc'[h] = "recv" /\ op'[h] = "RESOLVED" /\ ~closed'[on'[h]] =>
                    result'[h] # NoMsg
               /\ pc'[h] = "select" /\ op'[h] = "RESOLVED" => on'[h] = NoChan
               /\ pc'[h] = "select" /\ op'[h] = "RUNNING" => on'[h] = NoChan
    <3>1. CASE h = r
      BY <1>1, <2>2, <2>3, <2>4, <2>5, <3>1
    <3>2. CASE h # r
      <4>1. result'[h] = result[h] /\ op'[h] = op[h] /\ result[h] = NoMsg
        BY <1>1, <2>2, <2>4, <3>2 DEF Receiving
      <4> QED
        BY <2>2, <4>1 DEF Receiving
    <3> QED
      BY <3>1, <3>2
  <2> QED
    BY <2>6, <2>7 DEF Receiving
<1>16. ASSUME NEW f \in Fibers, NEW c \in Channels, NextBlocks(f, c)
       PROVE  Receiving'
  <2>1. /\ cur = f /\ pc[f] = "run" /\ UNCHANGED <<result, closed>>
        /\ on' = [on EXCEPT ![f] = c] /\ op' = [op EXCEPT ![f] = "RUNNING"]
        /\ pc' = [pc EXCEPT ![f] = "recv"]
        /\ receivers' = [receivers EXCEPT ![c] = Append(@, f)]
    BY <1>16 DEF NextBlocks, MayCall, AwaitOp, AwaitSuspend
  <2>2. \A d \in Channels : f \notin Range(receivers[d])
    BY <1>1, <2>1 DEF Receiving
  <2>3. ASSUME NEW d \in Channels
        PROVE  /\ IsInjective(receivers'[d])
               /\ \A h \in Range(receivers'[d]) :
                    pc'[h] = "select" \/ (pc'[h] = "recv" /\ on'[h] = d)
    <3>1. /\ IsInjective(receivers'[d])
          /\ Range(receivers'[d]) \subseteq
               IF d = c THEN Range(receivers[d]) \cup {f} ELSE Range(receivers[d])
      BY <1>1, <2>1, <2>2, AppendList DEF Receiving
    <3>2. \A h \in Range(receivers[d]) :
            pc'[h] = "select" \/ (pc'[h] = "recv" /\ on'[h] = d)
      <4>1. \A h \in Range(receivers[d]) :
              /\ h \in Fibers /\ h # f
              /\ pc[h] = "select" \/ (pc[h] = "recv" /\ on[h] = d)
        BY <1>1, <2>2, InList DEF Receiving
      <4> QED
        BY <1>1, <2>1, <4>1
    <3>3. pc'[f] = "recv" /\ on'[f] = c
      BY <1>1, <2>1
    <3> QED
      BY <3>1, <3>2, <3>3
  <2>4. ASSUME NEW h \in Fibers
        PROVE  /\ result'[h] = NoMsg
               /\ ~(pc'[h] = "recv" /\ op'[h] = "RESOLVED" /\ ~closed'[on'[h]])
               /\ pc'[h] = "select" /\ op'[h] = "RESOLVED" => on'[h] = NoChan
               /\ pc'[h] = "select" /\ op'[h] = "RUNNING" => on'[h] = NoChan
    <3>1. result[h] = NoMsg
      BY <2>1 DEF Receiving
    <3>2. CASE h = f
      BY <1>1, <2>1, <3>1, <3>2
    <3>3. CASE h # f
      <4>1. pc'[h] = pc[h] /\ op'[h] = op[h] /\ on'[h] = on[h]
        BY <1>1, <2>1, <3>3
      <4> QED
        BY <2>1, <3>1, <4>1 DEF Receiving
    <3> QED
      BY <3>2, <3>3
  <2> QED
    BY <2>3, <2>4 DEF Receiving
<1>17. ASSUME NEW f \in Fibers, NextReturns(f) PROVE Receiving'
  <2>1. /\ UNCHANGED <<cur, closed>> /\ op' = [op EXCEPT ![f] = "PENDING"]
        /\ on' = [on EXCEPT ![f] = NoChan] /\ pc' = [pc EXCEPT ![f] = "run"]
        /\ pc[f] = "recv" /\ cur = f /\ result' = [result EXCEPT ![f] = NoMsg]
        /\ receivers' = [receivers EXCEPT ![on[f]] = ASYNC_LIST_REMOVE(@, f)]
    BY <1>17 DEF NextReturns, AwaitDone, AwaitResume
  <2>2. PICK c : c = on[f] /\ c \in Channels
    BY <1>2, <2>1
  <2>3. ASSUME NEW d \in Channels
        PROVE  /\ IsInjective(receivers'[d])
               /\ \A h \in Range(receivers'[d]) :
                    pc'[h] = "select" \/ (pc'[h] = "recv" /\ on'[h] = d)
    <3>1. /\ IsInjective(receivers'[d])
          /\ Range(receivers'[d]) \subseteq Range(receivers[d]) \ {f}
      <4>1. CASE d = c
        BY <1>1, <2>1, <2>2, <4>1, RemoveList DEF Receiving
      <4>2. CASE d # c
        <5>1. receivers'[d] = receivers[d]
          BY <1>1, <2>1, <2>2, <4>2
        <5>2. f \notin Range(receivers[d])
          BY <2>1, <2>2, <4>2 DEF Receiving
        <5> QED
          BY <5>1, <5>2 DEF Receiving
      <4> QED
        BY <4>1, <4>2
    <3>2. \A h \in Range(receivers[d]) :
            h \in Fibers /\ (pc[h] = "select" \/ (pc[h] = "recv" /\ on[h] = d))
      BY <1>1, InList DEF Receiving
    <3> QED
      BY <1>1, <2>1, <3>1, <3>2
  <2>4. ASSUME NEW h \in Fibers
        PROVE  /\ result'[h] = NoMsg
               /\ ~(pc'[h] = "recv" /\ op'[h] = "RESOLVED" /\ ~closed'[on'[h]])
               /\ pc'[h] = "select" /\ op'[h] = "RESOLVED" => on'[h] = NoChan
               /\ pc'[h] = "select" /\ op'[h] = "RUNNING" => on'[h] = NoChan
    <3>2. CASE h = f
      BY <1>1, <2>1, <3>2
    <3>3. CASE h # f
      <4>1. /\ pc'[h] = pc[h] /\ op'[h] = op[h] /\ on'[h] = on[h]
            /\ result'[h] = result[h]
        BY <1>1, <2>1, <3>3
      <4> QED
        BY <2>1, <3>3, <4>1 DEF Receiving
    <3> QED
      BY <3>2, <3>3
  <2> QED
    BY <2>3, <2>4 DEF Receiving
<1> QED
  BY <1>3, <1>4, <1>5, <1>6, <1>7, <1>8, <1>9, <1>10, <1>11, <1>12, <1>13,
     <1>14, <1>15, <1>16, <1>17
     DEF Next, ChannelStep

-----------------------------------------------------------------------------
(***************************************************************************)
(* The channel as a queue.                                                 *)
(***************************************************************************)

\* The queue the refinement mapping gives a channel, and the names of messages.
Queue(c) == Handed(c) \o Buffered(c) \o senders[c]
Names == UNION {{f} \X (0..MaxCalls[f]) : f \in Fibers}

\* A step that adds a new message at the end of one queue is a Send.
LEMMA AbstractSend ==
  ASSUME NEW c \in Channels, NEW m \in Names, ~closed[c],
         \A d \in Channels : m \notin Range(Queue(d)) \cup Range(got[d]),
         Queue(c)' = Append(Queue(c), m),
         \A d \in Channels \ {c} : Queue(d)' = Queue(d),
         dropped' \in {dropped, dropped \cup {m}}, UNCHANGED <<got, closed>>
  PROVE  Fifo!FifoNext
<1> DEFINE q == [d \in Channels |-> Queue(d)]
<1>1. q' = [q EXCEPT ![c] = Append(@, m)]
  OBVIOUS
<1>2. \A d \in Channels : m \notin Range(q[d]) \cup Range(got[d])
  OBVIOUS
<1>3. Fifo!Send(c, m)
  BY <1>1, <1>2 DEF Fifo!Send, Fifo!Fresh, Queue, Range, Fifo!Range
<1> QED
  BY <1>3 DEF Fifo!FifoNext, Names

\* One that moves the first message of a queue to the delivered is a Deliver.
LEMMA AbstractDeliver ==
  ASSUME NEW c \in Channels, Queue(c) # <<>>,
         Queue(c)' = Tail(Queue(c)),
         \A d \in Channels \ {c} : Queue(d)' = Queue(d),
         got' = [got EXCEPT ![c] = Append(@, Head(Queue(c)))],
         UNCHANGED <<dropped, closed>>
  PROVE  Fifo!FifoNext
<1> DEFINE q == [d \in Channels |-> Queue(d)]
<1>1. q' = [q EXCEPT ![c] = Tail(@)] /\ q[c] = Queue(c)
  OBVIOUS
<1>3. Fifo!Deliver(c)
  BY <1>1 DEF Fifo!Deliver, Queue
<1> QED
  BY <1>3 DEF Fifo!FifoNext

\* One that gives up a queued message, and may remove it, is a Revoke.
LEMMA AbstractRevoke ==
  ASSUME NEW c \in Channels, NEW m \in Names, NEW i \in DOMAIN Queue(c),
         Queue(c)[i] = m,
         Queue(c)' = Queue(c) \/ Queue(c)' = RemoveAt(Queue(c), i),
         \A d \in Channels \ {c} : Queue(d)' = Queue(d),
         dropped' = dropped \cup {m}, UNCHANGED <<got, closed>>
  PROVE  Fifo!FifoNext
<1> DEFINE q == [d \in Channels |-> Queue(d)]
<1>1. /\ q' = q \/ q' = [q EXCEPT ![c] = RemoveAt(@, i)]
      /\ i \in DOMAIN q[c] /\ q[c][i] = m
  OBVIOUS
<1>3. Fifo!Revoke(c, m)
  BY <1>1 DEF Fifo!Revoke, Queue, Fifo!RemoveAt, RemoveAt
<1> QED
  BY <1>3 DEF Fifo!FifoNext, Names

\* One that only closes a channel is a Close.
LEMMA AbstractClose ==
  ASSUME NEW c \in Channels, ~closed[c], closed' = [closed EXCEPT ![c] = TRUE],
         \A d \in Channels : Queue(d)' = Queue(d), UNCHANGED <<got, dropped>>
  PROVE  Fifo!FifoNext
<1> DEFINE q == [d \in Channels |-> Queue(d)]
<1>1. q' = q
  OBVIOUS
<1>3. Fifo!Close(c)
  BY <1>1 DEF Fifo!Close, Queue
<1> QED
  BY <1>3 DEF Fifo!FifoNext

\* One that leaves the queues and the histories alone is a stuttering step.
LEMMA AbstractStutter ==
  ASSUME \A d \in Channels : Queue(d)' = Queue(d), UNCHANGED <<got, dropped, closed>>
  PROVE  UNCHANGED Fifo!fifoVars
<1> DEFINE q == [d \in Channels |-> Queue(d)]
<1>1. q' = q
  OBVIOUS
<1> QED
  BY <1>1 DEF Fifo!fifoVars, Queue

\* What a slot of a buffer can hold.
Contents == Messages \cup {NoMsg}

\* A list of some messages is a list of more.
LEMMA WiderList ==
  ASSUME NEW S, NEW T, S \subseteq T
  PROVE  Seq(S) \subseteq Seq(T)
  OBVIOUS

\* The parts of the queue are lists of messages that were sent.
QueueListed ==
  \A c \in Channels :
    /\ Handed(c) \in Seq(Old) /\ Buffered(c) \in Seq(Old) /\ senders[c] \in Seq(Old)
    /\ Queue(c) \in Seq(Old) /\ got[c] \in Seq(Old)
    /\ Buffered(c) = <<>> <=> buffer[c].len = 0

\* What Named and Rings say of the parts of the queue.
LEMMA QueueLists == Typed /\ Named /\ Rings => QueueListed
<1> SUFFICES ASSUME Typed, Named, Rings, NEW c \in Channels
             PROVE  /\ Handed(c) \in Seq(Old) /\ Buffered(c) \in Seq(Old)
                    /\ senders[c] \in Seq(Old)
                    /\ Queue(c) \in Seq(Old) /\ got[c] \in Seq(Old)
                    /\ Buffered(c) = <<>> <=> buffer[c].len = 0
  BY DEF QueueListed
<1>1. PICK q, s, h : q = Buffered(c) /\ s = senders[c] /\ h = Handed(c)
  OBVIOUS
<1>2. q \in Seq(Old) /\ (q = <<>> <=> buffer[c].len = 0)
  <2>1. Sound(c, buffer[c], Old) /\ q = Ring(c, buffer[c])
    BY <1>1, BufferSound
  <2>2. Lists(q, Old, Size[c], buffer[c].len, buffer[c].rpos, buffer[c].data)
    BY <2>1, RingList, Zenon
  <2> QED
    BY <2>2 DEF Lists
<1>3. s \in Seq(Old) /\ got[c] \in Seq(Old)
  BY <1>1 DEF Named
<1>4. h \in Seq(Old)
  <2>1. cur \in Fibers => result[cur] \in Old
    BY DEF Named
  <2> QED
    BY <1>1, <2>1 DEF Handed
<1>5. h \o q \in Seq(Old)
  BY <1>2, <1>4, ConcatList
<1>6. (h \o q) \o s \in Seq(Old)
  BY <1>3, <1>5, ConcatList
<1> QED
  BY <1>1, <1>2, <1>3, <1>4, <1>6 DEF Queue

\* The same after a step.
LEMMA QueueListsNext == (Typed /\ Named /\ Rings)' => QueueListed'
  BY QueueLists, PTL

\* A message that was sent has a name of the abstract queue.
LEMMA OldContents ==
  ASSUME Bookkeeping
  PROVE  /\ Old \subseteq Contents
         /\ \A m \in Old : m # NoMsg => m \in Names
<1>1. ASSUME NEW m \in Old, m # NoMsg PROVE m \in Names
  <2>1. m \in Messages /\ m[2] < calls[m[1]]
    BY <1>1 DEF Old
  <2>2. m[1] \in Fibers /\ m[2] \in Nat /\ m = <<m[1], m[2]>>
    BY <2>1 DEF Messages
  <2>3. calls[m[1]] \in Nat /\ calls[m[1]] <= MaxCalls[m[1]] /\ MaxCalls[m[1]] \in Nat
    BY <2>2, SchedulerAssumption DEF Bookkeeping
  <2>4. m[2] \in 0..MaxCalls[m[1]]
    BY <2>1, <2>2, <2>3
  <2>5. m \in {m[1]} \X (0..MaxCalls[m[1]])
    BY <2>2, <2>4
  <2> QED
    BY <2>2, <2>5 DEF Names
<1> QED
  BY <1>1 DEF Old, Contents

\* Nothing is handed over in a step of a fiber that is not inside next.
LEMMA Unhanded ==
  ASSUME Receiving, QueueListed, QueueListed',
         pc[cur] \notin {"recv", "select"}, UNCHANGED result
  PROVE  \A c \in Channels :
           /\ Queue(c) = Buffered(c) \o senders[c]
           /\ Queue(c)' = Buffered(c)' \o senders'[c]
<1> SUFFICES ASSUME NEW c \in Channels
             PROVE  /\ Queue(c) = Buffered(c) \o senders[c]
                    /\ Queue(c)' = Buffered(c)' \o senders'[c]
  OBVIOUS
<1>1. \A f \in Fibers : result[f] = NoMsg /\ result'[f] = NoMsg
  BY DEF Receiving
<1>2. Handed(c) = <<>> /\ Handed(c)' = <<>>
  BY <1>1 DEF Handed
<1>3. Buffered(c) \in Seq(Old) /\ Buffered(c)' \in Seq(Old')
  BY DEF QueueListed
<1>4. <<>> \o Buffered(c) = Buffered(c)
  BY <1>3, ConcatEmptySeq
<1>5. <<>> \o Buffered(c)' = Buffered(c)'
  BY <1>3, ConcatEmptySeq
<1> QED
  BY <1>2, <1>4, <1>5 DEF Queue

\* What is buffered depends on the buffers alone.
LEMMA SameBuffered ==
  ASSUME UNCHANGED buffer
  PROVE  \A c \in Channels : Buffered(c)' = Buffered(c)
  BY DEF Buffered

\* Unlinking an operation removes it from its place.
LEMMA UnlinkAt ==
  ASSUME NEW S, NEW s \in Seq(S), NEW e \in Range(s)
  PROVE  \E j \in 1..Len(s) : s[j] = e /\ ASYNC_LIST_REMOVE(s, e) = RemoveAt(s, j)
<1>1. DOMAIN s = 1..Len(s) /\ \E i \in DOMAIN s : s[i] = e
  BY InList
<1>2. PICK j : j = CHOOSE i \in DOMAIN s : s[i] = e
  OBVIOUS
<1>3. j \in DOMAIN s /\ s[j] = e
  BY <1>1, <1>2
<1> QED
  BY <1>1, <1>2, <1>3 DEF ASYNC_LIST_REMOVE

\* Taking the first element removes it from its place.
LEMMA TailAt ==
  ASSUME NEW S, NEW s \in Seq(S), s # <<>>
  PROVE  1 \in 1..Len(s) /\ s[1] = Head(s) /\ Tail(s) = RemoveAt(s, 1)
<1>1. PICK t, u : t = Tail(s) /\ u = RemoveAt(s, 1)
  OBVIOUS
<1>2. Len(s) \in Nat /\ Len(s) > 0
  BY LenProperties, EmptySeq
<1>3. /\ t \in Seq(S) /\ Len(t) = Len(s) - 1 /\ s[1] = Head(s)
      /\ \A i \in 1..Len(t) : t[i] = s[i + 1]
  BY <1>1, HeadTailProperties
<1>4. 1 \in 1..Len(s)
  BY <1>2
<1>5. /\ u \in Seq(S) /\ Len(u) = Len(s) - 1
      /\ \A k \in 1..(Len(s) - 1) : u[k] = IF k < 1 THEN s[k] ELSE s[k + 1]
  BY <1>1, <1>4, RemoveAtList
<1>6. \A k \in 1..Len(t) : t[k] = u[k]
  BY <1>2, <1>3, <1>5
<1>7. t = u
  BY <1>3, <1>5, <1>6, SeqEqual
<1> QED
  BY <1>1, <1>3, <1>4, <1>7

\* A step that gives up a message which is still among the senders.
LEMMA RevokeListed ==
  ASSUME Bookkeeping, Receiving, QueueListed, QueueListed',
         pc[cur] \notin {"recv", "select"},
         NEW c \in Channels, NEW j \in 1..Len(senders[c]), NEW m \in Messages,
         senders[c][j] = m, DOMAIN senders = Channels,
         \/ UNCHANGED senders
         \/ senders' = [senders EXCEPT ![c] = RemoveAt(@, j)],
         dropped' = dropped \cup {m}, UNCHANGED <<buffer, result, got, closed>>
  PROVE  Fifo!FifoNext
<1>1. PICK b, s : b = Buffered(c) /\ s = senders[c]
  OBVIOUS
<1>2. b \in Seq(Old) /\ s \in Seq(Old)
  BY <1>1 DEF QueueListed
<1>3. \A d \in Channels :
        Queue(d) = Buffered(d) \o senders[d] /\ Queue(d)' = Buffered(d) \o senders'[d]
  BY Unhanded, SameBuffered
<1>4. /\ Len(b) + j \in 1..Len(b \o s) /\ (b \o s)[Len(b) + j] = m
      /\ b \o RemoveAt(s, j) = RemoveAt(b \o s, Len(b) + j)
  <2>1. j \in 1..Len(s) /\ s[j] = m
    BY <1>1
  <2>2. /\ Len(b) + j \in 1..Len(b \o s) /\ (b \o s)[Len(b) + j] = s[j]
        /\ b \o RemoveAt(s, j) = RemoveAt(b \o s, Len(b) + j)
    BY ONLY <1>2, <2>1, ConcatRemove
  <2> QED
    BY <2>1, <2>2
<1>5. PICK i : i = Len(b) + j
  OBVIOUS
<1>6. Queue(c) = b \o s /\ Queue(c) \in Seq(Old)
  BY <1>1, <1>3 DEF QueueListed
<1>7. i \in DOMAIN Queue(c) /\ Queue(c)[i] = m
  BY <1>4, <1>5, <1>6, InList
<1>8. Queue(c)' = Queue(c) \/ Queue(c)' = RemoveAt(Queue(c), i)
  BY <1>1, <1>3, <1>4, <1>5, <1>6
<1>9. \A d \in Channels \ {c} : Queue(d)' = Queue(d)
  BY <1>3
<1>10. m \in Names
  <2>1. m \in Old
    BY <1>1, <1>2, InList
  <2> QED
    BY <2>1, OldContents, MessageNamed
<1> QED
  BY <1>7, <1>8, <1>9, <1>10, AbstractRevoke

\* A send that neither finds a receiver nor room, and one that finds room, add
\* their message at the end of the queue.
LEMMA SendAppends ==
  ASSUME Bookkeeping, Receiving, QueueListed, QueueListed',
         pc[cur] \notin {"recv", "select"},
         NEW f \in Fibers, NEW c \in Channels, MaySend(f, c),
         UNCHANGED <<result, got, closed>>,
         dropped' \in {dropped, dropped \cup {Msg(f)}},
         Buffered(c)' \o senders'[c] = Append(Buffered(c) \o senders[c], Msg(f)),
         \A d \in Channels \ {c} :
           Buffered(d)' = Buffered(d) /\ senders'[d] = senders[d]
  PROVE  Fifo!FifoNext
<1>1. \A d \in Channels :
        /\ Queue(d) = Buffered(d) \o senders[d]
        /\ Queue(d)' = Buffered(d)' \o senders'[d]
  BY Unhanded
<1>2. Call(f) /\ ~closed[c]
  BY DEF MaySend
<1>3. Msg(f) \notin Old
  BY <1>2, NewMessage
<1>4. \A d \in Channels : Msg(f) \notin Range(Queue(d)) \cup Range(got[d])
  <2>1. \A d \in Channels : Queue(d) \in Seq(Old) /\ got[d] \in Seq(Old)
    BY DEF QueueListed
  <2> QED
    BY <1>3, <2>1, InList
<1>5. Msg(f) \in Names
  <2>1. calls[f] \in 0..MaxCalls[f]
    BY SchedulerAssumption DEF Bookkeeping
  <2> QED
    BY <2>1 DEF Msg, Names
<1>6. Queue(c)' = Append(Queue(c), Msg(f))
  BY <1>1
<1>7. \A d \in Channels \ {c} : Queue(d)' = Queue(d)
  BY <1>1
<1> QED
  BY <1>2, <1>4, <1>5, <1>6, <1>7, AbstractSend

\* A step that moves no message.
LEMMA QueueStays ==
  ASSUME Receiving, QueueListed, QueueListed',
         pc[cur] \notin {"recv", "select"},
         UNCHANGED <<result, buffer, senders, got, dropped, closed>>
  PROVE  UNCHANGED Fifo!fifoVars
<1>1. \A d \in Channels : Queue(d)' = Queue(d)
  BY Unhanded, SameBuffered
<1> QED
  BY <1>1, AbstractStutter

\* Every step of the channel is one of the queue, or leaves it alone.
LEMMA StepFifo ==
  ASSUME Typed, NoStrandedPair, Orderly, QueueListed, QueueListed', [Next]_vars
  PROVE  Fifo!FifoNext \/ UNCHANGED Fifo!fifoVars
<1>1. /\ pc \in [Fibers \cup {Runner} -> Places] /\ op \in [Fibers -> OpStatus]
      /\ on \in [Fibers -> Channels \cup {NoChan}]
      /\ value \in [Fibers -> Messages \cup {NoMsg}]
      /\ result \in [Fibers -> Messages \cup {NoMsg}]
      /\ senders \in [Channels -> Seq(Messages)]
      /\ receivers \in [Channels -> Seq(Fibers)]
      /\ DOMAIN buffer = Channels /\ \A c \in Channels : buffer[c] \in Buffers(c)
      /\ closed \in [Channels -> BOOLEAN] /\ defer = {} /\ FiberLists
      /\ Bookkeeping /\ Runner \notin Fibers
  BY SchedulerAssumption
     DEF Typed, Counting, FiberLists, ChannelTypes, Orderly, Suspended
<1>2. Named /\ Rings /\ Full /\ Suspended /\ Sending /\ Receiving
  BY DEF Orderly, NoStrandedPair, Full
<1>3. \A c \in Channels :
        /\ Buffered(c) \in Seq(Old) /\ senders[c] \in Seq(Old)
        /\ Buffered(c)' \in Seq(Old')
        /\ Buffered(c) = <<>> <=> buffer[c].len = 0
  BY DEF QueueListed
<1>4. \A f \in Fibers : pc[f] \in {"send", "recv"} => on[f] \in Channels
  BY <1>2 DEF Suspended
<1>5. ASSUME NEW f \in Fibers, NEW c \in Channels, SendToBuffer(f, c)
      PROVE  Fifo!FifoNext
  <2>1. /\ MaySend(f, c) /\ pc[cur] = "run" /\ buffer[c].len < Size[c]
        /\ UNCHANGED <<result, got, closed, dropped, senders>>
    BY <1>5 DEF SendToBuffer, MaySend, MayCall
  <2>2. senders[c] = <<>>
    BY <1>1, <2>1, ChannelAssumption DEF NoStrandedPair, Buffers
  <2>3. /\ Buffered(c)' = Append(Buffered(c), Msg(f))
        /\ \A d \in Channels \ {c} : Buffered(d)' = Buffered(d)
    BY <1>2, <1>5, SendBuffers
  <2>4. Buffered(c) \o <<>> = Buffered(c) /\ Buffered(c)' \o <<>> = Buffered(c)'
    BY <1>3, ConcatEmptySeq
  <2>5. Buffered(c)' \o senders'[c] = Append(Buffered(c) \o senders[c], Msg(f))
    BY <2>1, <2>2, <2>3, <2>4
  <2> QED
    BY <1>1, <1>2, <2>1, <2>3, <2>5, SendAppends
<1>6. ASSUME NEW f \in Fibers, NEW c \in Channels,
             SendRefused(f, c) \/ \E timed \in BOOLEAN : SendBlocks(f, c, timed)
      PROVE  Fifo!FifoNext
  <2>1. /\ MaySend(f, c) /\ pc[cur] = "run" /\ UNCHANGED <<result, got, closed, buffer>>
        /\ senders' = [senders EXCEPT ![c] = Append(@, Msg(f))]
        /\ dropped' \in {dropped, dropped \cup {Msg(f)}}
    BY <1>6 DEF SendRefused, SendBlocks, MaySend, MayCall
  <2>2. \A d \in Channels : Buffered(d)' = Buffered(d)
    BY <2>1, SameBuffered
  <2>3. Buffered(c) \o Append(senders[c], Msg(f))
          = Append(Buffered(c) \o senders[c], Msg(f))
    <3>1. PICK b, s, m : b = Buffered(c) /\ s = senders[c] /\ m = Msg(f)
      OBVIOUS
    <3>2. /\ Old \subseteq Contents /\ m \in Contents
      BY <1>1, <3>1, OldContents, MsgType DEF Contents
    <3>3. b \in Seq(Contents) /\ s \in Seq(Contents)
      BY <1>3, <3>1, <3>2, WiderList
    <3>4. b \o Append(s, m) = Append(b \o s, m)
      BY ONLY <3>2, <3>3, ConcatAppend
    <3> QED
      BY <3>1, <3>4
  <2>4. \A d \in Channels \ {c} : senders'[d] = senders[d]
    BY <1>1, <2>1
  <2>5. senders'[c] = Append(senders[c], Msg(f))
    BY <1>1, <2>1
  <2>6. Buffered(c)' \o senders'[c] = Append(Buffered(c) \o senders[c], Msg(f))
    BY <2>2, <2>3, <2>5
  <2> QED
    BY <1>1, <1>2, <2>1, <2>2, <2>4, <2>6, SendAppends
<1>7. ASSUME NEW f \in Fibers, NEW c \in Channels, SendToReceiver(f, c)
      PROVE  Fifo!FifoNext
  <2>1. PICK r, m : r = Head(receivers[c]) /\ m = Msg(f)
    OBVIOUS
  <2>2. /\ receivers[c] # <<>> /\ pc[r] = "recv" /\ reschedule_task(r, "RESOLVED")
        /\ result' = [result EXCEPT ![r] = m] /\ MaySend(f, c)
        /\ UNCHANGED <<pc, on, buffer, senders, closed, got, dropped>>
    BY <1>7, <2>1 DEF SendToReceiver
  <2>3. r \in Fibers /\ on[r] = c /\ cur' = r
    <3>1. r \in Fibers /\ r \in Range(receivers[c])
      BY <1>1, <2>1, <2>2, TailList
    <3> QED
      BY <1>1, <1>2, <2>2, <3>1, Resumed DEF Receiving
  <2>4. /\ pc[cur] = "run" /\ Call(f) /\ ~closed[c]
        /\ m \in Messages /\ m # NoMsg /\ m \notin Old
    BY <1>1, <2>1, <2>2, NewMessage DEF MaySend, MayCall
  <2>5. senders[c] = <<>> /\ Buffered(c) = <<>>
    BY <1>3, <2>2 DEF NoStrandedPair
  <2>6. \A d \in Channels : Buffered(d)' = Buffered(d)
    BY <2>2, SameBuffered
  <2>7. \A d \in Channels : Handed(d) = <<>>
    BY <1>2, <2>4 DEF Handed, Receiving
  <2>8. Handed(c)' = <<m>> /\ \A d \in Channels \ {c} : Handed(d)' = <<>>
    BY <1>1, <2>2, <2>3, <2>4 DEF Handed
  <2>9. Queue(c) = <<>> /\ Queue(c)' = <<m>>
    <3>1. <<m>> \in Seq(Messages) /\ <<>> \in Seq(Messages)
      BY <2>4
    <3>2. <<m>> \o <<>> = <<m>> /\ <<>> \o <<>> = <<>>
      BY <3>1, ConcatEmptySeq
    <3> QED
      BY <2>2, <2>5, <2>6, <2>7, <2>8, <3>2 DEF Queue
  <2>10. \A d \in Channels \ {c} : Queue(d)' = Queue(d)
    BY <2>2, <2>6, <2>7, <2>8 DEF Queue
  <2>11. Queue(c)' = Append(Queue(c), m)
    BY <2>4, <2>9
  <2>12. m \in Names
    <3>1. calls[f] \in 0..MaxCalls[f]
      BY <1>1, SchedulerAssumption DEF Bookkeeping
    <3> QED
      BY <2>1, <3>1 DEF Msg, Names
  <2>13. \A d \in Channels : m \notin Range(Queue(d)) \cup Range(got[d])
    <3>1. \A d \in Channels : Queue(d) \in Seq(Old) /\ got[d] \in Seq(Old)
      BY DEF QueueListed
    <3> QED
      BY <2>4, <3>1, InList
  <2> QED
    BY <2>2, <2>4, <2>10, <2>11, <2>12, <2>13, AbstractSend
<1>8. ASSUME NEW f \in Fibers, NEW c \in Channels, NextFetches(f, c)
      PROVE  Fifo!FifoNext
  <2>1. pc[cur] = "run" /\ UNCHANGED <<result, dropped, closed>>
    BY <1>8 DEF NextFetches, MayCall
  <2>2. \A d \in Channels :
          /\ Queue(d) = Buffered(d) \o senders[d]
          /\ Queue(d)' = Buffered(d)' \o senders'[d]
    BY <1>2, <2>1, Unhanded
  <2>3. /\ \A d \in Channels \ {c} :
             Buffered(d)' = Buffered(d) /\ senders'[d] = senders[d]
        /\ Buffered(c) \o senders[c] # <<>>
        /\ Buffered(c)' \o senders'[c] = Tail(Buffered(c) \o senders[c])
        /\ got' = [got EXCEPT ![c] = Append(@, Head(Buffered(c) \o senders[c]))]
    BY <1>2, <1>8, FetchQueue
  <2>4. Queue(c) # <<>> /\ Queue(c)' = Tail(Queue(c))
    BY <2>2, <2>3
  <2>5. got' = [got EXCEPT ![c] = Append(@, Head(Queue(c)))]
    BY <2>2, <2>3
  <2>6. \A d \in Channels \ {c} : Queue(d)' = Queue(d)
    BY <2>2, <2>3
  <2> QED
    BY <2>1, <2>4, <2>5, <2>6, AbstractDeliver
<1>9. ASSUME NEW f \in Fibers, NextReturns(f)
      PROVE  Fifo!FifoNext \/ UNCHANGED Fifo!fifoVars
  <2>1. PICK c : c = on[f]
    OBVIOUS
  <2>2. /\ cur = f /\ pc[f] = "recv" /\ result' = [result EXCEPT ![f] = NoMsg]
        /\ got' = IF op[f] = "RESOLVED" /\ ~closed[c]
                  THEN [got EXCEPT ![c] = Append(@, result[f])] ELSE got
        /\ UNCHANGED <<cur, buffer, senders, dropped, closed>>
    BY <1>9, <2>1 DEF NextReturns
  <2>3. c \in Channels
    BY <1>4, <2>1, <2>2
  <2>4. \A d \in Channels : Handed(d)' = <<>> /\ Buffered(d)' = Buffered(d)
    BY <1>1, <2>2, SameBuffered DEF Handed
  <2>5. CASE result[f] = NoMsg
    <3>1. UNCHANGED got
      BY <1>2, <2>1, <2>2, <2>5 DEF Receiving
    <3>2. \A d \in Channels : Handed(d) = <<>>
      BY <2>2, <2>5 DEF Handed
    <3>3. \A d \in Channels : Queue(d)' = Queue(d)
      BY <2>2, <2>4, <3>2 DEF Queue
    <3> QED
      BY <2>2, <3>1, <3>3, AbstractStutter
  <2>6. CASE result[f] # NoMsg
    <3>1. PICK x, b, s : x = result[f] /\ b = Buffered(c) /\ s = senders[c]
      OBVIOUS
    <3>2. got' = [got EXCEPT ![c] = Append(@, x)]
      BY <1>2, <2>1, <2>2, <2>6, <3>1 DEF Receiving
    <3>3. Handed(c) = <<x>> /\ \A d \in Channels \ {c} : Handed(d) = <<>>
      BY <2>1, <2>2, <2>6, <3>1 DEF Handed
    <3>4. \A d \in Channels \ {c} : Queue(d)' = Queue(d)
      BY <2>2, <2>4, <3>3 DEF Queue
    <3>5. b \in Seq(Old) /\ s \in Seq(Old) /\ x \in Old
      BY <1>2, <1>3, <2>3, <3>1 DEF Named
    <3>6. PICK h, q : h = <<x>> /\ q = h \o b
      OBVIOUS
    <3>7. h \in Seq(Old) /\ h # <<>> /\ Head(h) = x /\ Tail(h) = <<>>
      BY <3>5, <3>6
    <3>8. q # <<>> /\ Head(q) = x /\ Tail(q) = <<>> \o b /\ q \in Seq(Old)
      <4>1. h \o b # <<>> /\ Head(h \o b) = Head(h) /\ Tail(h \o b) = Tail(h) \o b
        BY ONLY <3>5, <3>7, ConcatTail
      <4>2. h \o b \in Seq(Old)
        BY ONLY <3>5, <3>7, ConcatList
      <4> QED
        BY <3>6, <3>7, <4>1, <4>2
    <3>9. q \o s # <<>> /\ Head(q \o s) = Head(q) /\ Tail(q \o s) = Tail(q) \o s
      BY ONLY <3>5, <3>8, ConcatTail
    <3>10. Queue(c) = q \o s /\ Queue(c)' = (<<>> \o b) \o s
      BY <2>2, <2>3, <2>4, <3>1, <3>3, <3>6 DEF Queue
    <3>11. Queue(c) # <<>> /\ Queue(c)' = Tail(Queue(c)) /\ Head(Queue(c)) = x
      BY <3>8, <3>9, <3>10
    <3> QED
      BY <2>2, <2>3, <3>2, <3>4, <3>11, AbstractDeliver
  <2> QED
    BY <2>5, <2>6
<1>10. ASSUME NEW f \in Fibers, SendReturns(f)
       PROVE  Fifo!FifoNext \/ UNCHANGED Fifo!fifoVars
  <2>1. PICK c, m : c = on[f] /\ m = value[f]
    OBVIOUS
  <2>2. /\ cur = f /\ pc[f] = "send" /\ UNCHANGED <<buffer, result, got, closed>>
        /\ dropped' = IF m \in Range(senders[c]) THEN dropped \cup {m} ELSE dropped
        /\ senders' = IF f \in timers THEN senders
             ELSE [senders EXCEPT ![c] = ASYNC_LIST_REMOVE(@, m)]
    BY <1>10, <2>1 DEF SendReturns
  <2>3. c \in Channels
    BY <1>4, <2>1, <2>2
  <2>4. CASE m \in Range(senders[c])
    <3>1. m \in Messages
      BY <1>1, <2>3, <2>4, InList
    <3>2. PICK j \in 1..Len(senders[c]) :
            /\ senders[c][j] = m
            /\ ASYNC_LIST_REMOVE(senders[c], m) = RemoveAt(senders[c], j)
      BY <1>1, <2>3, <2>4, UnlinkAt
    <3>3. senders' = senders \/ senders' = [senders EXCEPT ![c] = RemoveAt(@, j)]
      BY <1>1, <2>2, <2>3, <3>2
    <3> QED
      BY <1>1, <1>2, <2>2, <2>3, <2>4, <3>1, <3>2, <3>3, RevokeListed
  <2>5. CASE m \notin Range(senders[c])
    <3>1. UNCHANGED senders
      BY <1>1, <2>2, <2>3, <2>5 DEF ASYNC_LIST_REMOVE
    <3> QED
      BY <1>2, <2>2, <2>5, <3>1, QueueStays
  <2> QED
    BY <2>4, <2>5
<1>11. ASSUME NEW f \in Fibers, timeout_channel_send_cb(f)
       PROVE  Fifo!FifoNext
  <2>1. PICK c, m : c = on[f] /\ m = value[f]
    OBVIOUS
  <2>2. /\ cur = Runner /\ pc[Runner] = "run" /\ pc[f] = "send"
        /\ UNCHANGED <<buffer, result, got, closed>>
        /\ dropped' = dropped \cup {m}
        /\ senders' = [senders EXCEPT ![c] = ASYNC_LIST_REMOVE(@, m)]
    BY <1>11, <2>1 DEF timeout_channel_send_cb
  <2>3. c \in Channels
    BY <1>4, <2>1, <2>2
  <2>4. m \in Range(senders[c])
    <3>1. op[f] = "RUNNING"
      BY <1>1, <1>2, <2>2 DEF Suspended, Blocking
    <3> QED
      BY <1>2, <2>1, <2>2, <3>1 DEF Sending
  <2>5. m \in Messages
    BY <1>1, <2>3, <2>4, InList
  <2>6. PICK j \in 1..Len(senders[c]) :
          /\ senders[c][j] = m
          /\ ASYNC_LIST_REMOVE(senders[c], m) = RemoveAt(senders[c], j)
    BY <1>1, <2>3, <2>4, UnlinkAt
  <2>7. senders' = [senders EXCEPT ![c] = RemoveAt(@, j)]
    BY <1>1, <2>2, <2>3, <2>6
  <2> QED
    BY <1>1, <1>2, <2>2, <2>3, <2>5, <2>6, <2>7, RevokeListed
<1>12. ASSUME NEW c \in Channels, dispose_channel_send_timer_cb(c)
       PROVE  Fifo!FifoNext
  <2>1. PICK m \in Range(senders[c]) :
          Dead(m) /\ senders' = [senders EXCEPT ![c] = ASYNC_LIST_REMOVE(@, m)]
    BY <1>12 DEF dispose_channel_send_timer_cb
  <2>2. pc[cur] = "run" /\ UNCHANGED <<buffer, result, got, closed, dropped>>
    BY <1>12 DEF dispose_channel_send_timer_cb
  <2>3. dropped' = dropped \cup {m}
    BY <1>2, <2>1, <2>2 DEF Sending
  <2>4. m \in Messages
    BY <1>1, <2>1, InList
  <2>5. PICK j \in 1..Len(senders[c]) :
          /\ senders[c][j] = m
          /\ ASYNC_LIST_REMOVE(senders[c], m) = RemoveAt(senders[c], j)
    BY <1>1, <2>1, UnlinkAt
  <2>6. senders' = [senders EXCEPT ![c] = RemoveAt(@, j)]
    BY <1>1, <2>1, <2>5
  <2> QED
    BY <1>1, <1>2, <2>2, <2>3, <2>4, <2>5, <2>6, RevokeListed
<1>13. CASE DisposeSender
  <2>1. PICK c, m : c = on[cur] /\ m = Head(senders[c])
    OBVIOUS
  <2>2. /\ c \in Channels /\ pc[cur] \in {"close", "shutdown"} /\ senders[c] # <<>>
        /\ senders' = [senders EXCEPT ![c] = Tail(@)] /\ dropped' = dropped \cup {m}
        /\ UNCHANGED <<buffer, result, got, closed>>
    BY <1>13, <2>1 DEF DisposeSender, Closing, Typed, Closers
  <2>3. /\ 1 \in 1..Len(senders[c]) /\ senders[c][1] = m
        /\ Tail(senders[c]) = RemoveAt(senders[c], 1)
    BY <1>1, <2>1, <2>2, TailAt
  <2>4. m \in Messages
    BY <1>1, <2>1, <2>2, TailList
  <2>5. senders' = [senders EXCEPT ![c] = RemoveAt(@, 1)]
    BY <1>1, <2>2, <2>3
  <2> QED
    BY <1>1, <1>2, <2>2, <2>3, <2>4, <2>5, RevokeListed
<1>14. ASSUME NEW f \in Fibers, NEW c \in Channels, NEW err \in BOOLEAN,
              close(f, c, err)
       PROVE  Fifo!FifoNext
  <2>1. /\ pc[cur] \in {"run", "dispose"} /\ ~closed[c]
        /\ closed' = [closed EXCEPT ![c] = TRUE]
        /\ UNCHANGED <<result, buffer, senders, got, dropped>>
    BY <1>14 DEF close, MayCall
  <2>2. \A d \in Channels : Queue(d)' = Queue(d)
    BY <1>2, <2>1, Unhanded, SameBuffered
  <2> QED
    BY <2>1, <2>2, AbstractClose
<1>15. ASSUME NEW f \in Fibers, NEW c \in Channels, NextBlocks(f, c)
       PROVE  UNCHANGED Fifo!fifoVars
  <2>1. pc[cur] = "run"
        /\ UNCHANGED <<result, buffer, senders, got, dropped, closed>>
    BY <1>15 DEF NextBlocks, MayCall
  <2> QED
    BY <1>2, <2>1, QueueStays
<1>16. CASE DisposeReceiver \/ DisposeEnds
  <2>1. pc[cur] \in {"close", "shutdown"}
        /\ UNCHANGED <<result, buffer, senders, got, dropped, closed>>
    BY <1>16 DEF DisposeReceiver, DisposeEnds, Closing
  <2> QED
    BY <1>2, <2>1, QueueStays
<1>17. CASE SchedStep /\ UNCHANGED chanVars
  <2>1. UNCHANGED <<result, buffer, senders, got, dropped, closed>>
    BY <1>17 DEF chanVars
  <2>2. pc[cur] \notin {"recv", "select"}
    BY <1>2, <1>17, SchedulerMoves
  <2> QED
    BY <1>2, <2>1, <2>2, QueueStays
<1>18. CASE UNCHANGED vars
  <2>1. UNCHANGED <<cur, pc, on, result, buffer, senders, got, dropped, closed>>
    BY <1>18 DEF vars
  <2>2. \A d \in Channels : Queue(d)' = Queue(d)
    BY <2>1 DEF Queue, Handed, Buffered
  <2> QED
    BY <2>1, <2>2, AbstractStutter
<1> QED
  BY <1>5, <1>6, <1>7, <1>8, <1>9, <1>10, <1>11, <1>12, <1>13, <1>14, <1>15,
     <1>16, <1>17, <1>18
     DEF Next, ChannelStep

\* No step without groups makes a fiber wait for several channels.
LEMMA StepUngrouped ==
  ASSUME Typed, Suspended, Ungrouped, [Next]_vars
  PROVE  Ungrouped'
<1> USE DEF Ungrouped
<1>1. pc \in [Fibers \cup {Runner} -> Places]
  BY DEF Typed, Counting
<1>2. CASE SchedStep
  <2>1. \A f \in Fibers : pc'[f] \in {pc[f], "run", "drain", "dispose", "done", "cancel"}
    BY <1>1, <1>2 DEF SchedStep, dispatch_tasks, run_task_fiber,
       async_task_scheduler_dispose, run_scheduler_fiber, DisposeDrain,
       CancelInvoke, CancelLoop, Fibers
  <2> QED
    BY <2>1
<1>3. ASSUME NEW f \in Fibers, NEW c \in Channels, ChannelStep(f, c)
      PROVE  Ungrouped'
  BY <1>1, <1>3 DEF ChannelStep, SendToReceiver, SendToBuffer, SendBlocks,
     SendRefused, NextFetches, NextBlocks, close, AwaitOp, AwaitSuspend
<1>4. ASSUME NEW f \in Fibers,
             SendReturns(f) \/ NextReturns(f) \/ timeout_channel_send_cb(f)
      PROVE  Ungrouped'
  BY <1>1, <1>4 DEF SendReturns, NextReturns, timeout_channel_send_cb,
     AwaitDone, AwaitResume
<1>5. CASE DisposeReceiver \/ DisposeSender \/ DisposeEnds
  BY <1>1, <1>5 DEF DisposeReceiver, DisposeSender, DisposeEnds
<1> QED
  BY <1>2, <1>3, <1>4, <1>5
     DEF Next, vars, dispose_channel_send_timer_cb, schedVars

\* The channels start empty.
LEMMA InitOrderly == Init => Orderly
<1> SUFFICES ASSUME Init PROVE Orderly
  OBVIOUS
<1>1. NoMsg \in Old
  BY DEF Old
<1>2. /\ senders = [c \in Channels |-> <<>>] /\ receivers = [c \in Channels |-> <<>>]
      /\ got = [c \in Channels |-> <<>>] /\ value = [f \in Fibers |-> NoMsg]
      /\ result = [f \in Fibers |-> NoMsg] /\ defer = {}
      /\ pc = [f \in Fibers \cup {Runner} |-> "run"]
      /\ buffer = [c \in Channels |-> [len |-> 0, rpos |-> 0, wpos |-> 0,
                     data |-> [i \in 0..(Size[c] - 1) |-> NoMsg]]]
  BY DEF Init, SchedInit
<1>3. Named
  BY <1>1, <1>2, EmptyList DEF Named
<1>4. Rings
  BY <1>2, ChannelAssumption DEF Rings
<1>5. Suspended
  BY <1>2 DEF Suspended, Blocking
<1>6. Sending
  BY <1>2, EmptyList DEF Sending
<1>7. Receiving
  BY <1>2, EmptyList DEF Receiving
<1>8. Ungrouped
  BY <1>2 DEF Ungrouped
<1> QED
  BY <1>3, <1>4, <1>5, <1>6, <1>7, <1>8 DEF Orderly

\* So does the queue.
LEMMA InitFifo == Init => Fifo!FifoInit
<1> SUFFICES ASSUME Init PROVE Fifo!FifoInit
  OBVIOUS
<1>1. /\ senders = [c \in Channels |-> <<>>] /\ dropped = {}
      /\ got = [c \in Channels |-> <<>>] /\ closed \in [Channels -> BOOLEAN]
      /\ result = [f \in Fibers |-> NoMsg] /\ \A c \in Channels : buffer[c].len = 0
  BY DEF Init
<1>2. QueueListed
  BY InitTyped, InitOrderly, Regroup, QueueLists DEF Orderly
<1>3. ASSUME NEW c \in Channels PROVE Handed(c) \o Buffered(c) \o senders[c] = <<>>
  <2>1. Handed(c) = <<>> /\ Buffered(c) = <<>> /\ senders[c] = <<>>
    BY <1>1, <1>2 DEF QueueListed, Handed
  <2>2. <<>> \o <<>> = <<>>
    BY ConcatEmptySeq, EmptyList
  <2> QED
    BY <2>1, <2>2
<1> QED
  BY <1>1, <1>3 DEF Fifo!FifoInit

\* Every step keeps Orderly.
LEMMA StepOrderly ==
  ASSUME Typed, NoStrandedPair, Orderly, [Next]_vars
  PROVE  Orderly'
<1>1. Full
  BY DEF NoStrandedPair, Full
<1> QED
  BY <1>1, StepNamed, StepRings, StepSuspended, StepSending, StepReceiving,
     StepUngrouped DEF Orderly

\* A channel is a queue: whatever its capacity, messages are delivered once and
\* in the order of the send calls, and none is lost that was not given up by a
\* timeout, a cancellation or a close, through buffer wrap-around, refill from
\* a blocked sender, direct hand-over to a waiting receiver, resumption inside
\* the call, and the dead operations that linger among the senders.
THEOREM ChannelIsFifo == Spec => ImplementsFifo
<1> DEFINE Inv == TypeOK /\ BusyExact /\ NoStrandedPair /\ Orderly
<1>1. Init => Inv
  BY InitTyped, InitOrderly DEF Init, NoStrandedPair
<1>2. Inv /\ [Next]_vars => Inv'
  BY Regroup, StepTyped, StepNoPair, StepOrderly
<1>3. Inv /\ Inv' /\ [Next]_vars => [Fifo!FifoNext]_Fifo!fifoVars
  <2> SUFFICES ASSUME Inv, Inv', [Next]_vars
               PROVE  Fifo!FifoNext \/ UNCHANGED Fifo!fifoVars
    OBVIOUS
  <2>1. Typed /\ Typed'
    BY Regroup, StepTyped
  <2>2. QueueListed /\ QueueListed'
    BY <2>1, QueueLists, QueueListsNext DEF Orderly
  <2> QED
    BY <2>1, <2>2, StepFifo
<1>4. Init => Fifo!FifoInit
  BY InitFifo
<1> QED
  BY <1>1, <1>2, <1>3, <1>4, PTL DEF Spec, ImplementsFifo, Fifo!FifoSpec

-----------------------------------------------------------------------------
(***************************************************************************)
(* Numbers in order, and lists in which some of the elements are kept.     *)
(***************************************************************************)

\* A set of naturals has a least element.
LEMMA LeastNatural ==
  ASSUME NEW K \in SUBSET Nat, K # {}
  PROVE  \E n \in K : \A m \in K : n <= m
<1>1. PICK R : R = OpToRel(<, Nat)
  OBVIOUS
<1>2. \A m, n \in Nat : <<m, n>> \in R <=> m < n
  BY <1>1 DEF OpToRel
<1>3. PICK n \in K : \A m \in K : ~(<<m, n>> \in R)
  BY <1>1, NatLessThanWellFounded, WFMin
<1>4. \A m \in K : m \in Nat /\ n \in Nat /\ ~(m < n)
  BY <1>2, <1>3
<1> QED
  BY <1>4

\* The elements of K can be listed in their order.
Listable(K) ==
  \E p \in [1..Cardinality(K) -> K] : \A i, j \in DOMAIN p : i < j => p[i] < p[j]

\* A finite set of numbers has its list, in order.
LEMMA OrderExists ==
  ASSUME NEW K \in SUBSET Nat, IsFiniteSet(K)
  PROVE  Listable(K)
<1> DEFINE T == {n \in Nat : \E L \in SUBSET Nat : IsFiniteSet(L) /\ Cardinality(L) = n /\ ~Listable(L)}
<1>1. ASSUME T # {} PROVE FALSE
  <2>1. PICK n \in T : \A m \in T : n <= m
    <3>1. T \in SUBSET Nat
      OBVIOUS
    <3> QED
      BY <1>1, <3>1, LeastNatural
  <2>2. PICK L \in SUBSET Nat : IsFiniteSet(L) /\ Cardinality(L) = n /\ ~Listable(L)
    BY <2>1
  <2>3. L # {}
    <3>1. ASSUME L = {} PROVE Listable(L)
      <4>1. 1..Cardinality(L) = {}
        BY <3>1, FS_EmptySet
      <4>2. [i \in {} |-> 0] \in [{} -> {}]
        OBVIOUS
      <4> QED
        BY <3>1, <4>1, <4>2 DEF Listable
    <3> QED
      BY <2>2, <3>1
  <2>4. PICK x \in L : \A y \in L : x <= y
    BY <2>2, <2>3, LeastNatural
  <2> DEFINE M == L \ {x}
  <2>5. IsFiniteSet(M) /\ Cardinality(M) = n - 1 /\ n \in Nat /\ n - 1 \in Nat
    <3>1. n # 0
      BY <2>2, <2>3, FS_EmptySet
    <3> QED
      BY <2>1, <2>2, <2>4, <3>1, FS_RemoveElement
  <2>6. Listable(M)
    <3>1. n - 1 \notin T
      BY <2>1, <2>5
    <3> QED
      BY <2>2, <2>5, <3>1
  <2>7. PICK q \in [1..(n - 1) -> M] : \A i, j \in 1..(n - 1) : i < j => q[i] < q[j]
    BY <2>5, <2>6 DEF Listable
  <2> DEFINE p == [i \in 1..n |-> IF i = 1 THEN x ELSE q[i - 1]]
  <2>8. ASSUME NEW i \in 1..n
        PROVE  /\ p[i] \in L
               /\ i # 1 => i - 1 \in 1..(n - 1) /\ p[i] = q[i - 1] /\ q[i - 1] \in L /\ x < q[i - 1]
    <3>1. CASE i = 1
      BY <2>4, <3>1
    <3>2. CASE i # 1
      <4>1. i - 1 \in 1..(n - 1)
        BY <2>5, <3>2
      <4>2. q[i - 1] \in L /\ q[i - 1] # x
        BY <2>7, <4>1
      <4>3. x \in Nat /\ q[i - 1] \in Nat /\ x <= q[i - 1]
        BY <2>2, <2>4, <4>2
      <4>4. x < q[i - 1]
        BY <4>2, <4>3
      <4> QED
        BY <3>2, <4>1, <4>2, <4>4
    <3> QED
      BY <3>1, <3>2
  <2>9. p \in [1..n -> L]
    BY <2>8
  <2>10. ASSUME NEW i \in 1..n, NEW j \in 1..n, i < j PROVE p[i] < p[j]
    <3>1. j # 1 /\ i \in Nat /\ j \in Nat
      BY <2>5, <2>10
    <3>2. CASE i = 1
      BY <2>8, <3>1, <3>2
    <3>3. CASE i # 1
      <4>1. i - 1 < j - 1
        BY <2>10, <3>1
      <4> QED
        BY <2>7, <2>8, <3>1, <3>3, <4>1
    <3> QED
      BY <3>2, <3>3
  <2> HIDE DEF p
  <2>11. Listable(L)
    <3>1. DOMAIN p = 1..n
      BY <2>9
    <3> QED
      BY <2>2, <2>9, <2>10, <3>1 DEF Listable
  <2> QED
    BY <2>2, <2>11
<1>2. Cardinality(K) \in Nat
  BY FS_CardinalityType
<1> QED
  BY <1>1, <1>2

\* The kept entries of a list, in their order, are a list of some of them.
LEMMA KeptList ==
  ASSUME NEW S, NEW g \in Seq(S), NEW K \in SUBSET DOMAIN g
  PROVE  /\ Kept(g, K) \in Seq(S) /\ Len(Kept(g, K)) = Cardinality(K)
         /\ Range(Kept(g, K)) \subseteq Range(g)
         /\ IsInjective(g) => IsInjective(Kept(g, K))
<1>1. Len(g) \in Nat /\ DOMAIN g = 1..Len(g)
  BY InList
<1>2. IsFiniteSet(K) /\ K \in SUBSET Nat /\ Cardinality(K) \in Nat
  <2>1. IsFiniteSet(1..Len(g))
    BY <1>1, FS_Interval
  <2>2. IsFiniteSet(K)
    BY <1>1, <2>1, FS_Subset
  <2> QED
    BY <1>1, <2>2, FS_CardinalityType
<1>3. /\ InOrder(K) \in [1..Cardinality(K) -> K]
      /\ \A i, j \in DOMAIN InOrder(K) : i < j => InOrder(K)[i] < InOrder(K)[j]
  <2>1. Listable(K)
    BY <1>2, OrderExists
  <2> QED
    BY <2>1 DEF Listable, InOrder
<1>4. PICK p, n : p = InOrder(K) /\ n = Cardinality(K)
  OBVIOUS
<1>5. p \in [1..n -> K] /\ \A i, j \in 1..n : i < j => p[i] < p[j]
  BY <1>3, <1>4
<1>6. \A i, j \in 1..n : p[i] = p[j] => i = j
  <2>1. \A i, j \in 1..n : i \in Nat /\ j \in Nat /\ (i = j \/ i < j \/ j < i)
    BY <1>2, <1>4
  <2>2. \A i \in 1..n : p[i] \in Nat
    BY <1>2, <1>5
  <2> QED
    BY <1>5, <2>1, <2>2
<1>7. PICK k : k = Kept(g, K)
  OBVIOUS
<1>8. k = [i \in 1..n |-> g[p[i]]]
  BY <1>4, <1>7 DEF Kept
<1>9. \A i \in 1..n : k[i] \in S /\ k[i] \in Range(g) /\ p[i] \in 1..Len(g) /\ k[i] = g[p[i]]
  BY <1>1, <1>5, <1>8, InList
<1>10. k \in Seq(S) /\ Len(k) = n
  <2>1. n \in Nat
    BY <1>2, <1>4
  <2>2. k \in [1..n -> S]
    BY <1>8, <1>9
  <2> QED
    BY <2>1, <2>2
<1>11. Range(k) \subseteq Range(g)
  BY <1>9, <1>10, InList
<1>12. ASSUME IsInjective(g) PROVE IsInjective(k)
  <2>1. \A i, j \in 1..n : k[i] = k[j] => p[i] = p[j]
    BY <1>9, <1>12, InList
  <2> QED
    BY <1>6, <1>10, <2>1, InList
<1> QED
  BY <1>4, <1>7, <1>10, <1>11, <1>12

\* A scan goes over the entries of the group, each once.
LEMMA ScanList ==
  ASSUME NEW f \in Fibers, group[f] \in Seq(Channels), IsInjective(group[f]),
         NEW g \in Scan(f)
  PROVE  /\ g \in Seq(Channels) /\ IsInjective(g)
         /\ Len(g) = Len(group[f]) /\ Range(g) = Range(group[f])
<1>1. CASE g = group[f]
  BY <1>1
<1>2. CASE g \in [DOMAIN group[f] -> Range(group[f])] /\ IsInjective(g)
  <2>1. /\ Len(group[f]) \in Nat /\ DOMAIN group[f] = 1..Len(group[f])
        /\ Range(group[f]) \subseteq Channels
    BY InList
  <2>2. g \in [1..Len(group[f]) -> Channels]
    BY <1>2, <2>1
  <2>3. g \in Seq(Channels) /\ Len(g) = Len(group[f])
    BY <2>1, <2>2
  <2>4. IsFiniteSet(Range(group[f])) /\ Cardinality(Range(group[f])) = Len(group[f])
    BY ListCardinality
  <2>5. IsFiniteSet(Range(g)) /\ Cardinality(Range(g)) = Len(g)
    BY <1>2, <2>3, ListCardinality
  <2>6. Range(g) \subseteq Range(group[f])
    <3>1. \A i \in 1..Len(g) : g[i] \in Range(group[f])
      BY <1>2, <2>1, <2>3
    <3>2. \A e \in Range(g) : \E i \in 1..Len(g) : g[i] = e
      BY <2>3, InList
    <3> QED
      BY <3>1, <3>2
  <2>7. Range(g) = Range(group[f])
    BY <2>3, <2>4, <2>5, <2>6, FS_Subset
  <2> QED
    BY <1>2, <2>3, <2>7
<1> QED
  BY <1>1, <1>2 DEF Scan

\* Every step of a channel keeps Full.
LEMMA StepFull ==
  ASSUME Typed, Full, [Next]_vars
  PROVE  Full'
<1> USE DEF Typed
<1>1. ASSUME UNCHANGED buffer,
             \A c \in Channels : senders[c] = <<>> => senders'[c] = <<>>
      PROVE  Full'
  BY <1>1 DEF Full
<1>2. ASSUME NEW f \in Fibers, NEW c \in Channels, SendToBuffer(f, c)
      PROVE  Full'
  <2>1. senders[c] = <<>>
    BY <1>2, ChannelAssumption DEF SendToBuffer, Full
  <2> QED
    BY <1>2, <2>1 DEF SendToBuffer, Full, ChannelTypes
<1>3. ASSUME NEW f \in Fibers, NEW c \in Channels,
             SendRefused(f, c) \/ \E timed \in BOOLEAN : SendBlocks(f, c, timed)
      PROVE  Full'
  <2>1. buffer[c].len = Size[c]
    BY <1>3, ChannelAssumption
       DEF SendRefused, SendBlocks, ChannelTypes, Buffers
  <2>2. /\ \A d \in Channels \ {c} : senders'[d] = senders[d]
        /\ UNCHANGED buffer
    BY <1>3 DEF SendRefused, SendBlocks, ChannelTypes
  <2> QED
    BY <2>1, <2>2 DEF Full
<1>4. ASSUME NEW f \in Fibers, NEW c \in Channels, NextFetches(f, c)
      PROVE  Full'
  <2>1. fetch_noblock(c) /\ buffer[c] \in Buffers(c)
    BY <1>4 DEF NextFetches, ChannelTypes
  <2>2. /\ buffer[c].len \in Nat
        /\ senders[c] # <<>> => /\ Head(senders[c]) \in Messages
                                /\ buffer[c].len = Size[c]
    BY <2>1, HeadTailProperties, ChannelAssumption
       DEF ChannelTypes, Buffers, Full
  <2>3. senders'[c] # <<>> => buffer'[c].len = Size[c]
    <3>1. CASE senders[c] = <<>>
      BY <2>1, <3>1 DEF fetch_noblock
    <3>2. CASE senders[c] # <<>> /\ buffer[c].len > 0
      <4>1. buffer' = [buffer EXCEPT ![c] =
                         Write(c, Advance(c), Head(senders[c]))]
        BY <2>1, <3>2 DEF fetch_noblock
      <4> QED
        BY <2>1, <2>2, <3>2, <4>1, FetchType DEF ChannelTypes
    <3>3. CASE senders[c] # <<>> /\ ~(buffer[c].len > 0)
      BY <2>1, <2>2, <3>3 DEF fetch_noblock
    <3> QED
      BY <3>1, <3>2, <3>3
  <2>4. \A d \in Channels \ {c} :
          senders'[d] = senders[d] /\ buffer'[d] = buffer[d]
    BY <2>1 DEF fetch_noblock, ChannelTypes
  <2> QED
    BY <2>3, <2>4 DEF Full
<1>5. ASSUME NEW f \in Fibers, NEW c \in Channels,
             \/ SendToReceiver(f, c) \/ NextBlocks(f, c)
             \/ \E err \in BOOLEAN : close(f, c, err)
      PROVE  Full'
  BY <1>1, <1>5 DEF SendToReceiver, NextBlocks, close
<1>6. ASSUME NEW f \in Fibers,
             SendReturns(f) \/ NextReturns(f) \/ timeout_channel_send_cb(f)
      PROVE  Full'
  BY <1>1, <1>6, RemoveList
     DEF SendReturns, NextReturns, timeout_channel_send_cb, ChannelTypes
<1>7. ASSUME NEW c \in Channels, dispose_channel_send_timer_cb(c)
      PROVE  Full'
  BY <1>1, <1>7, RemoveList DEF dispose_channel_send_timer_cb, ChannelTypes
<1>8. CASE DisposeReceiver \/ DisposeSender \/ DisposeEnds
  BY <1>1, <1>8 DEF DisposeReceiver, DisposeSender, DisposeEnds, ChannelTypes
<1>9. CASE UNCHANGED chanVars \/ UNCHANGED vars
  BY <1>9 DEF chanVars, vars, Full
<1> QED
  BY <1>2, <1>3, <1>4, <1>5, <1>6, <1>7, <1>8, <1>9 DEF Next, ChannelStep

-----------------------------------------------------------------------------
(***************************************************************************)
(* Groups.                                                                 *)
(***************************************************************************)

\* A group lists channels, each once.
GroupLists ==
  /\ group \in [Fibers -> Seq(Channels)]
  /\ \A f \in Fibers : IsInjective(group[f])

\* The list g is one of channels, each of which is in the group of f.
Within(f, g) ==
  g \in Seq(Channels) /\ IsInjective(g) /\ Range(g) \subseteq Range(group[f])

\* Only the fiber that runs changes a group, and only its own; channels go.
Regrouped ==
  \/ UNCHANGED group
  \/ \E f \in Fibers, g \in Seq(Channels) :
       /\ f = cur /\ pc[f] = "run" /\ Within(f, g)
       /\ group' = [group EXCEPT ![f] = g]

\* A call that does nothing but to remove channels from the group.
OnlyRegroups(f) ==
  /\ MayCall(f) /\ Call(f) /\ Regrouped
  /\ UNCHANGED <<cur, fibers, ready, status, pc, op, defer, busy, callbacks,
                 triggered, disposed, chanVars, pending, check, offered>>

\* What Kept keeps of a scan is within the group.
LEMMA KeptWithin ==
  ASSUME GroupLists, NEW f \in Fibers, NEW g \in Scan(f),
         NEW K \in SUBSET DOMAIN g
  PROVE  /\ Within(f, g) /\ Within(f, Kept(g, K))
         /\ Range(g) = Range(group[f]) /\ Len(g) = Len(group[f])
<1>1. group[f] \in Seq(Channels) /\ IsInjective(group[f])
  BY DEF GroupLists
<1>2. /\ g \in Seq(Channels) /\ IsInjective(g)
      /\ Len(g) = Len(group[f]) /\ Range(g) = Range(group[f])
  BY <1>1, ScanList
<1>3. /\ Kept(g, K) \in Seq(Channels) /\ IsInjective(Kept(g, K))
      /\ Range(Kept(g, K)) \subseteq Range(g)
  BY <1>2, KeptList
<1> QED
  BY <1>2, <1>3 DEF Within

\* The least position of a set of positions is one of them.
LEMMA LeastPosition ==
  ASSUME NEW S, NEW g \in Seq(S), NEW K \in SUBSET DOMAIN g, K # {}
  PROVE  Min(K) \in K /\ g[Min(K)] \in S
<1>1. Len(g) \in Nat /\ DOMAIN g = 1..Len(g) /\ \A i \in 1..Len(g) : g[i] \in S
  BY InList
<1>2. K \in SUBSET Nat
  BY <1>1
<1>3. PICK n \in K : \A m \in K : n <= m
  BY <1>2, LeastNatural
<1>4. Min(K) \in K
  BY <1>3 DEF Min
<1> QED
  BY <1>1, <1>4

\* The steps of the groups: those of a channel, those that only change a group
\* and those that begin, decide and end a call for several channels.
GroupMove(f) ==
  \/ ShuffleEmpty(f)
  \/ SelectBlocks(f)
  \/ SelectReturns(f)
  \/ timeout_select(f)
  \/ \E timed \in BOOLEAN : GroupSendBlocks(f, timed)
  \/ timeout_send_cb(f)
  \/ GroupSendReturns(f)

\* The steps of the groups: one that regroups at most, the blocking and the
\* return of a select or a group send, a message to a select, and the disposal.
LEMMA GroupCases ==
  ASSUME GroupLists, [GroupNext]_allVars
  PROVE  \/ [Next]_vars /\ Regrouped /\ UNCHANGED <<pending, check, offered>>
         \/ \E f \in Fibers : OnlyRegroups(f) \/ GroupMove(f)
         \/ \E f \in Fibers, c \in Channels : SendToSelector(f, c) /\ Regrouped
         \/ DisposeSelector
<1> DEFINE Goal ==
      \/ [Next]_vars /\ Regrouped /\ UNCHANGED <<pending, check, offered>>
      \/ \E f \in Fibers : OnlyRegroups(f) \/ GroupMove(f)
      \/ \E f \in Fibers, c \in Channels : SendToSelector(f, c) /\ Regrouped
      \/ DisposeSelector
<1>1. ASSUME NEW f \in Fibers, NEW g \in Scan(f), NEW K \in SUBSET DOMAIN g,
             MayCall(f), group' = [group EXCEPT ![f] = Kept(g, K)]
      PROVE  Regrouped
  <2>1. f = cur /\ pc[f] = "run"
    BY <1>1 DEF MayCall
  <2>2. Within(f, Kept(g, K))
    BY <1>1, KeptWithin
  <2> QED
    BY <1>1, <2>1, <2>2 DEF Regrouped, Within
<1>2. ASSUME NEW f \in Fibers, NEW g \in Scan(f),
             MayCall(f), group' = [group EXCEPT ![f] = g]
      PROVE  Regrouped
  <2>1. f = cur /\ pc[f] = "run"
    BY <1>2 DEF MayCall
  <2>2. Within(f, g)
    <3>1. {} \in SUBSET DOMAIN g
      OBVIOUS
    <3> QED
      BY <1>2, <3>1, KeptWithin
  <2> QED
    BY <1>2, <2>1, <2>2 DEF Regrouped, Within
<1>3. ASSUME NEW f \in Fibers, SelectThrows(f) \/ SelectGivesUp(f)
      PROVE  OnlyRegroups(f)
  <2>1. /\ MayCall(f) /\ Call(f)
        /\ UNCHANGED <<cur, fibers, ready, status, pc, op, defer, busy, callbacks,
                       triggered, disposed, chanVars, pending, check, offered>>
    BY <1>3 DEF SelectThrows, SelectGivesUp, MayScan
  <2>2. PICK g \in Scan(f) : \E K \in SUBSET DOMAIN g :
          group' = [group EXCEPT ![f] = Kept(g, K)]
    <3>1. CASE SelectThrows(f)
      <4>1. PICK g \in Scan(f) : group' = [group EXCEPT ![f] =
              Kept(g, {i \in DOMAIN g : i <= Min(Failing(g)) => ~Spent(g[i])})]
        BY <3>1 DEF SelectThrows
      <4>2. PICK K : K = {i \in DOMAIN g : i <= Min(Failing(g)) => ~Spent(g[i])}
        OBVIOUS
      <4> QED
        BY <4>1, <4>2
    <3>2. CASE SelectGivesUp(f)
      <4>1. PICK g \in Scan(f) : group' = [group EXCEPT ![f] =
              Kept(g, {i \in DOMAIN g : ~Spent(g[i])})]
        BY <3>2 DEF SelectGivesUp, Alive
      <4>2. PICK K : K = {i \in DOMAIN g : ~Spent(g[i])}
        OBVIOUS
      <4> QED
        BY <4>1, <4>2
    <3> QED
      BY <1>3, <3>1, <3>2
  <2>3. PICK K \in SUBSET DOMAIN g : group' = [group EXCEPT ![f] = Kept(g, K)]
    BY <2>2
  <2> QED
    BY <1>1, <2>1, <2>3 DEF OnlyRegroups
<1>4. ASSUME NEW f \in Fibers, GroupSendThrows(f)
      PROVE  OnlyRegroups(f)
  <2>1. /\ MayCall(f) /\ Call(f)
        /\ UNCHANGED <<cur, fibers, ready, status, pc, op, defer, busy, callbacks,
                       triggered, disposed, chanVars, pending, check, offered>>
    BY <1>4 DEF GroupSendThrows, MayScan
  <2>2. PICK g \in Scan(f) : group' = [group EXCEPT ![f] =
          Kept(g, DOMAIN g \ {Min(ClosedIn(g))})]
    BY <1>4 DEF GroupSendThrows
  <2>3. PICK K \in SUBSET DOMAIN g : K = DOMAIN g \ {Min(ClosedIn(g))}
    OBVIOUS
  <2> QED
    BY <1>1, <2>1, <2>2, <2>3 DEF OnlyRegroups
<1>5. ASSUME NEW f \in Fibers, SelectFetches(f)
      PROVE  Next /\ Regrouped /\ UNCHANGED <<pending, check, offered>>
  <2>1. PICK g \in Scan(f) :
          /\ Readable(g) # {} /\ group' = [group EXCEPT ![f] = Alive(g)]
          /\ fetch_noblock(Candidate(g))
    BY <1>5 DEF SelectFetches, TakesNow
  <2>2. PICK K \in SUBSET DOMAIN g : K = {i \in DOMAIN g : ~Spent(g[i])}
    OBVIOUS
  <2>3. MayCall(f) /\ Call(f) /\ group' = [group EXCEPT ![f] = Kept(g, K)]
    BY <1>5, <2>1, <2>2 DEF SelectFetches, MayScan, Alive
  <2>4. PICK c : c = Candidate(g)
    OBVIOUS
  <2>5. c \in Channels /\ READABLE(c)
    <3>1. g \in Seq(Channels)
      BY <2>2, KeptWithin DEF Within
    <3>2. Min(Readable(g)) \in Readable(g) /\ g[Min(Readable(g))] \in Channels
      BY <2>1, <3>1, LeastPosition DEF Readable
    <3> QED
      BY <2>4, <3>2 DEF Candidate, Readable, READABLE
  <2>6. NextFetches(f, c)
    BY <1>5, <2>1, <2>3, <2>4, <2>5 DEF NextFetches, SelectFetches
  <2>7. Next
    BY <2>5, <2>6 DEF Next, ChannelStep
  <2>8. Regrouped
    BY <1>1, <2>3
  <2> QED
    BY <1>5, <2>7, <2>8 DEF SelectFetches
<1>6. ASSUME NEW f \in Fibers, GroupSendGives(f)
      PROVE  Goal
  <2>1. PICK g \in Scan(f) :
          /\ Accepting(g) # {} /\ group' = [group EXCEPT ![f] = g]
          /\ LET c == g[Min(Accepting(g))] IN
             \/ SendToReceiver(f, c) /\ UNCHANGED <<pending, check, offered>>
             \/ SendToBuffer(f, c) /\ UNCHANGED <<pending, check, offered>>
             \/ SendToSelector(f, c)
    BY <1>6 DEF GroupSendGives
  <2>2. PICK c : c = g[Min(Accepting(g))]
    OBVIOUS
  <2>3. c \in Channels
    <3>1. {} \in SUBSET DOMAIN g
      OBVIOUS
    <3>2. g \in Seq(Channels)
      BY <3>1, KeptWithin DEF Within
    <3> QED
      BY <2>1, <2>2, <3>2, LeastPosition DEF Accepting
  <2>4. \/ SendToReceiver(f, c) /\ UNCHANGED <<pending, check, offered>>
        \/ SendToBuffer(f, c) /\ UNCHANGED <<pending, check, offered>>
        \/ SendToSelector(f, c)
    BY <2>1, <2>2
  <2>5. MayCall(f)
    BY <2>4 DEF SendToReceiver, SendToBuffer, SendToSelector, MaySend
  <2>6. Regrouped
    BY <1>2, <2>1, <2>5
  <2> QED
    BY <2>3, <2>4, <2>6 DEF Next, ChannelStep
<1>7. ASSUME NEW f \in Fibers, GroupSendGivesUp(f)
      PROVE  OnlyRegroups(f)
  <2>1. PICK g \in Scan(f) : group' = [group EXCEPT ![f] = g]
    BY <1>7 DEF GroupSendGivesUp
  <2>2. MayCall(f) /\ Call(f)
    BY <1>7 DEF GroupSendGivesUp, MayScan
  <2> QED
    BY <1>2, <1>7, <2>1, <2>2 DEF OnlyRegroups, GroupSendGivesUp
<1>8. ASSUME UNCHANGED group PROVE Regrouped
  BY <1>8 DEF Regrouped
<1>9. CASE UNCHANGED allVars
  BY <1>8, <1>9 DEF allVars
<1>10. CASE Next /\ UNCHANGED groupVars
  BY <1>8, <1>10 DEF groupVars
<1>11. ASSUME NEW f \in Fibers, GroupStep(f) PROVE Goal
  <2>1. \/ SelectThrows(f) \/ SelectGivesUp(f) \/ GroupSendThrows(f)
        \/ SelectFetches(f) \/ GroupSendGives(f) \/ GroupSendGivesUp(f)
        \/ GroupMove(f)
        \/ \E c \in Channels : SendToSelector(f, c) /\ UNCHANGED group
    BY <1>11 DEF GroupStep, GroupMove
  <2> QED
    BY <1>3, <1>4, <1>5, <1>6, <1>7, <1>8, <2>1
<1> QED
  BY <1>9, <1>10, <1>11 DEF GroupNext

-----------------------------------------------------------------------------
(***************************************************************************)
(* The order of the lists of senders and receivers under the steps of the  *)
(* groups.                                                                 *)
(***************************************************************************)

\* No send operation is listed twice on a channel.
Unique == \A c \in Channels : IsInjective(senders[c])

\* What the steps of the groups preserve besides the types.
GroupOrderly ==
  /\ Named /\ Rings /\ Full /\ Suspended /\ Sending /\ Receiving
  /\ Unique /\ GroupLists

\* A step that takes no message from a buffer keeps Named, when what it adds
\* elsewhere was sent.
LEMMA KeepNamed ==
  ASSUME Typed, Named, UNCHANGED calls \/ \E f \in Fibers : Call(f),
         UNCHANGED buffer,
         UNCHANGED senders \/ senders' \in [Channels -> Seq(Old')],
         UNCHANGED got \/ got' \in [Channels -> Seq(Old')],
         UNCHANGED result \/ result' \in [Fibers -> Old']
  PROVE  Named'
<1>1. PICK S : S = Old' /\ Old \subseteq S
  BY OldGrows DEF Typed
<1>2. Seq(Old) \subseteq Seq(S)
  BY <1>1, SeqMonotonic
<1> QED
  BY <1>1, <1>2 DEF Named

\* A step that only lists fewer senders keeps the buffers and their senders.
LEMMA KeepFull ==
  ASSUME Full, UNCHANGED buffer,
         \A c \in Channels : senders[c] = <<>> => senders'[c] = <<>>
  PROVE  Full'
  BY DEF Full

\* So do the rings, when no buffer changes.
LEMMA KeepRings ==
  ASSUME Rings, UNCHANGED buffer
  PROVE  Rings'
  BY DEF Rings

\* So do the groups, as channels only go.
LEMMA KeepLists ==
  ASSUME GroupLists, Regrouped
  PROVE  GroupLists'
<1>1. CASE UNCHANGED group
  BY <1>1 DEF GroupLists
<1>2. ASSUME NEW f \in Fibers, NEW g \in Seq(Channels), Within(f, g),
             group' = [group EXCEPT ![f] = g]
      PROVE  GroupLists'
  BY <1>2 DEF GroupLists, Within
<1> QED
  BY <1>1, <1>2 DEF Regrouped

\* A call that only changes the group, or that ends in the loop of
\* shuffle_group, keeps all of it.
LEMMA RegroupOrderly ==
  ASSUME Typed, GroupOrderly, NEW f \in Fibers, OnlyRegroups(f) \/ ShuffleEmpty(f)
  PROVE  Typed' /\ GroupOrderly'
<1> USE DEF GroupOrderly
<1>1. /\ MayCall(f) /\ Call(f) /\ Regrouped
      /\ UNCHANGED <<cur, fibers, ready, status, op, defer, busy, callbacks,
                     triggered, disposed, chanVars>>
      /\ \E l \in {"run", "wild"} : pc' = [pc EXCEPT ![f] = l]
  <2>1. CASE OnlyRegroups(f)
    <3>1. MayCall(f) /\ UNCHANGED pc
      BY <2>1 DEF OnlyRegroups
    <3>2. pc' = [pc EXCEPT ![f] = "run"]
      BY <3>1 DEF MayCall, Typed, Counting
    <3> QED
      BY <2>1, <3>2 DEF OnlyRegroups
  <2>2. CASE ShuffleEmpty(f)
    BY <2>2 DEF ShuffleEmpty, Regrouped, groupVars
  <2> QED
    BY <2>1, <2>2
<1>2. PICK l \in {"run", "wild"} : pc' = [pc EXCEPT ![f] = l]
  BY <1>1
<1>3. cur = f /\ pc[f] = "run" /\ Bookkeeping'
  BY <1>1, CallFlags DEF Typed, MayCall
<1>4. Typed'
  <2>1. FiberLists' /\ ChannelTypes'
    BY <1>1 DEF Typed, FiberLists, ChannelTypes, chanVars
  <2>2. Counting'
    BY <1>1, <1>2, <1>3, MoveCounting DEF Typed, Places, Awaiting
  <2>3. Closers'
    BY <1>1, <1>2, MoveClosers DEF Typed, chanVars
  <2> QED
    BY <1>3, <2>1, <2>2, <2>3 DEF Typed
<1>5. UNCHANGED <<buffer, senders, receivers, closed, error, on, value, result,
                  timers, sent, got, dropped, op, cur, defer>>
  BY <1>1 DEF chanVars
<1>6. pc \in [Fibers \cup {Runner} -> Places]
  BY DEF Typed, Counting
<1>7. Named' /\ Rings' /\ Full' /\ Unique' /\ GroupLists'
  BY <1>1, <1>5, KeepNamed, KeepRings, KeepFull, KeepLists DEF Unique
<1>8. Suspended'
  BY <1>2, <1>3, <1>5, <1>6, KeepSuspended DEF Blocking
<1>9. Sending'
  BY <1>2, <1>3, <1>5, <1>6, KeepSending DEF Suspended
<1>10. Receiving'
  BY <1>2, <1>3, <1>5, <1>6, KeepReceiving DEF Suspended
<1> QED
  BY <1>4, <1>7, <1>8, <1>9, <1>10

\* The timer of a group completes the operation of a blocked group call.
LEMMA TimeoutOrderly ==
  ASSUME Typed, GroupOrderly, NEW f \in Fibers,
         timeout_select(f) \/ timeout_send_cb(f)
  PROVE  Typed' /\ GroupOrderly'
<1> USE DEF GroupOrderly
<1>1. /\ cur = Runner /\ pc[Runner] = "run" /\ reschedule_task(f, "RESOLVED")
      /\ UNCHANGED <<pc, defer, busy, callbacks, triggered, disposed, calls,
                     buffer, senders, receivers, closed, error, on, value,
                     result, sent, got, dropped, group>>
      /\ pc[f] \in {"select", "gsend"} /\ (pc[f] = "select" => op[f] = "RUNNING")
      /\ timers' \subseteq timers
  BY DEF timeout_select, timeout_send_cb, chanVars, groupVars
<1>2. cur' = f /\ op' = [op EXCEPT ![f] = "RESOLVED"]
  BY <1>1, Resumed DEF Typed, Suspended
<1>3. /\ pc \in [Fibers \cup {Runner} -> Places] /\ op \in [Fibers -> OpStatus]
      /\ Runner \notin Fibers
  BY SchedulerAssumption DEF Typed, Counting, FiberLists
<1>4. Typed'
  <2>1. FiberLists'
    BY <1>1, RescheduleType DEF Typed, OpStatus
  <2>2. ChannelTypes' /\ Bookkeeping' /\ Closers'
    BY <1>1 DEF Typed, ChannelTypes, Bookkeeping, Closers
  <2>3. Counting'
    BY <1>1, StayCounting DEF Typed
  <2> QED
    BY <2>1, <2>2, <2>3 DEF Typed
<1>5. Named' /\ Rings' /\ Full' /\ Unique' /\ GroupLists'
  BY <1>1, KeepNamed, KeepRings, KeepFull DEF Unique, GroupLists
<1>6. Suspended'
  BY <1>1, <1>2, <1>3, KeepSuspended DEF Suspended
<1>7. Sending'
  BY <1>1, <1>2, <1>3, KeepSending DEF Suspended
<1>8. Receiving'
  <2>1. ASSUME NEW h \in Fibers
        PROVE  /\ result'[h] = NoMsg
               /\ ~(pc'[h] = "recv" /\ op'[h] = "RESOLVED" /\ ~closed'[on'[h]])
               /\ pc'[h] = "select" /\ op'[h] \in {"RUNNING", "RESOLVED"} =>
                    on'[h] = NoChan
    <3>1. result[h] = NoMsg
      BY <1>1, <1>3 DEF Receiving
    <3>2. CASE h = f
      BY <1>1, <1>2, <1>3, <3>1, <3>2 DEF Receiving
    <3>3. CASE h # f
      BY <1>1, <1>2, <1>3, <3>1, <3>3 DEF Receiving
    <3> QED
      BY <3>2, <3>3
  <2>2. ASSUME NEW d \in Channels
        PROVE  /\ IsInjective(receivers'[d])
               /\ \A r \in Range(receivers'[d]) :
                    pc'[r] = "select" \/ (pc'[r] = "recv" /\ on'[r] = d)
    BY <1>1 DEF Receiving
  <2> QED
    BY <2>1, <2>2 DEF Receiving
<1> QED
  BY <1>4, <1>5, <1>6, <1>7, <1>8

\* What a select that blocks does: it is listed on the channels left, once on
\* each.
LEMMA SelectListed ==
  ASSUME GroupLists, NEW f \in Fibers, SelectBlocks(f)
  PROVE  \E a \in Seq(Channels) :
           /\ a # <<>> /\ IsInjective(a) /\ Within(f, a)
           /\ group' = [group EXCEPT ![f] = a]
           /\ pending' = [pending EXCEPT ![f] = Len(a)]
           /\ receivers' = [c \in Channels |->
                IF c \in Range(a) THEN Append(receivers[c], f) ELSE receivers[c]]
<1>1. PICK g \in Scan(f) :
        /\ Alive(g) # <<>>
        /\ group' = [group EXCEPT ![f] = Alive(g)]
        /\ pending' = [pending EXCEPT ![f] = Len(Alive(g))]
        /\ receivers' = [c \in Channels |->
             IF c \in Range(Alive(g)) THEN Append(receivers[c], f)
             ELSE receivers[c]]
  BY DEF SelectBlocks
<1>2. PICK K \in SUBSET DOMAIN g : K = {i \in DOMAIN g : ~Spent(g[i])}
  OBVIOUS
<1>3. Within(f, Alive(g))
  BY <1>2, KeptWithin DEF Alive
<1> QED
  BY <1>1, <1>3 DEF Within

\* A select that blocks keeps the types and the order of the groups.
LEMMA SelectBlocksOrderly ==
  ASSUME Typed, GroupOrderly, NEW f \in Fibers, SelectBlocks(f)
  PROVE  Typed' /\ GroupOrderly'
<1> USE DEF GroupOrderly
<1>1. PICK a \in Seq(Channels) :
        /\ a # <<>> /\ IsInjective(a) /\ Within(f, a)
        /\ group' = [group EXCEPT ![f] = a]
        /\ receivers' = [c \in Channels |->
             IF c \in Range(a) THEN Append(receivers[c], f) ELSE receivers[c]]
  BY SelectListed
<1>2. /\ MayCall(f) /\ Call(f) /\ cur = f /\ AwaitOp(f, "select")
      /\ on' = [on EXCEPT ![f] = NoChan]
      /\ UNCHANGED <<ready, defer, triggered, disposed, buffer, senders, closed,
                     error, value, result, timers, sent, got, dropped>>
  BY DEF SelectBlocks, MayScan, MayCall
<1>3. pc[f] = "run" /\ Bookkeeping'
  BY <1>2, CallFlags DEF Typed
<1>4. /\ pc' = [pc EXCEPT ![f] = "select"] /\ op' = [op EXCEPT ![f] = "RUNNING"]
  BY <1>2 DEF AwaitOp, AwaitSuspend
<1>5. /\ pc \in [Fibers \cup {Runner} -> Places] /\ op \in [Fibers -> OpStatus]
      /\ on \in [Fibers -> Channels \cup {NoChan}]
      /\ result \in [Fibers -> Messages \cup {NoMsg}]
      /\ receivers \in [Channels -> Seq(Fibers)] /\ defer = {}
  BY DEF Typed, Counting, FiberLists, ChannelTypes, Suspended
<1>6. \A c \in Channels : Append(receivers[c], f) \in Seq(Fibers)
  BY <1>5, AppendList
<1>7. Typed'
  <2>1. FiberLists' /\ Counting'
    BY <1>2, <1>3, AwaitOpCounting DEF Typed, Places, Awaiting
  <2>2. ChannelTypes'
    BY <1>1, <1>2, <1>6 DEF Typed, ChannelTypes
  <2>3. Closers'
    BY <1>2, <1>4, <1>5, MoveClosers DEF Typed
  <2> QED
    BY <1>3, <2>1, <2>2, <2>3 DEF Typed
<1>8. Named' /\ Rings' /\ Full' /\ Unique' /\ GroupLists'
  <2>1. Regrouped
    BY <1>1, <1>2, <1>3 DEF Regrouped
  <2> QED
    BY <1>2, <2>1, KeepNamed, KeepRings, KeepFull, KeepLists DEF Unique
<1>9. Suspended'
  BY <1>2, <1>3, <1>4, <1>5, KeepSuspended DEF Blocking
<1>10. Sending'
  BY <1>2, <1>3, <1>4, <1>5, KeepSending DEF Suspended
<1>11. Receiving'
  <2>1. \A d \in Channels : f \notin Range(receivers[d])
    BY <1>3 DEF Receiving
  <2>2. ASSUME NEW d \in Channels
        PROVE  /\ IsInjective(receivers'[d])
               /\ \A h \in Range(receivers'[d]) :
                    pc'[h] = "select" \/ (pc'[h] = "recv" /\ on'[h] = d)
    <3>1. IsInjective(receivers'[d])
          /\ Range(receivers'[d]) \subseteq Range(receivers[d]) \cup {f}
      <4>1. receivers[d] \in Seq(Fibers) /\ IsInjective(receivers[d])
        BY <1>5 DEF Receiving
      <4>2. PICK s : s = receivers[d]
        OBVIOUS
      <4>3. IsInjective(Append(s, f)) /\ Range(Append(s, f)) = Range(s) \cup {f}
        BY <2>1, <4>1, <4>2, AppendList
      <4>4. receivers'[d] = s \/ receivers'[d] = Append(s, f)
        BY <1>1, <4>2
      <4> QED
        BY <4>1, <4>2, <4>3, <4>4
    <3>2. \A h \in Range(receivers[d]) :
            /\ h \in Fibers /\ h # f
            /\ pc[h] = "select" \/ (pc[h] = "recv" /\ on[h] = d)
      BY <1>5, <2>1, InList DEF Receiving
    <3>3. \A h \in Range(receivers[d]) \cup {f} :
            pc'[h] = "select" \/ (pc'[h] = "recv" /\ on'[h] = d)
      BY <1>2, <1>4, <1>5, <3>2
    <3> QED
      BY <3>1, <3>3
  <2>3. ASSUME NEW h \in Fibers
        PROVE  /\ result'[h] = NoMsg
               /\ ~(pc'[h] = "recv" /\ op'[h] = "RESOLVED" /\ ~closed'[on'[h]])
               /\ pc'[h] = "select" /\ op'[h] \in {"RUNNING", "RESOLVED"} =>
                    on'[h] = NoChan
    <3>1. result[h] = NoMsg
      BY <1>2, <1>3 DEF Receiving
    <3>2. CASE h = f
      BY <1>2, <1>4, <1>5, <3>1, <3>2
    <3>3. CASE h # f
      BY <1>2, <1>4, <1>5, <3>1, <3>3 DEF Receiving
    <3> QED
      BY <3>2, <3>3
  <2> QED
    BY <2>2, <2>3 DEF Receiving
<1> QED
  BY <1>7, <1>8, <1>9, <1>10, <1>11

\* The channels compact_group keeps are a part of the group.
LEMMA CompactWithin ==
  ASSUME GroupLists, NEW f \in Fibers, NEW n
  PROVE  Within(f, compact_group(group[f], n))
<1>1. group[f] \in Seq(Channels) /\ IsInjective(group[f])
  BY DEF GroupLists
<1>2. PICK g : g = group[f]
  OBVIOUS
<1> DEFINE open     == {i \in DOMAIN g : ~closed[g[i]] \/ error[g[i]]}
           place(i) == Cardinality({j \in open : j <= i})
           keep     == {i \in open :
             n \in 1..place(i) =>
               \E j \in open : place(j) \in n..place(i) /\ ~closed[g[j]]}
<1>3. keep \in SUBSET DOMAIN g
  OBVIOUS
<1>4. compact_group(g, n) = Kept(g, keep)
  BY DEF compact_group
<1> HIDE DEF open, place, keep
<1>5. /\ Kept(g, keep) \in Seq(Channels) /\ IsInjective(Kept(g, keep))
      /\ Range(Kept(g, keep)) \subseteq Range(g)
  BY <1>1, <1>2, <1>3, KeptList
<1> QED
  BY <1>2, <1>4, <1>5 DEF Within

\* So does its return, which unlists it everywhere.
LEMMA SelectReturnsOrderly ==
  ASSUME Typed, GroupOrderly, NEW f \in Fibers, SelectReturns(f)
  PROVE  Typed' /\ GroupOrderly'
<1> USE DEF GroupOrderly
<1>1. /\ cur = f /\ pc[f] = "select" /\ AwaitDone(f)
      /\ got' = IF op[f] = "RESOLVED" /\ on[f] # NoChan
                THEN [got EXCEPT ![on[f]] = Append(@, result[f])] ELSE got
      /\ receivers' = [c \in Channels |-> ASYNC_LIST_REMOVE(receivers[c], f)]
      /\ result' = [result EXCEPT ![f] = NoMsg]
      /\ on' = [on EXCEPT ![f] = NoChan]
      /\ UNCHANGED <<cur, fibers, ready, status, defer, triggered, disposed,
                     calls, buffer, senders, closed, error, value, timers,
                     sent, dropped>>
  BY DEF SelectReturns
<1>2. /\ pc' = [pc EXCEPT ![f] = "run"] /\ op' = [op EXCEPT ![f] = "PENDING"]
  BY <1>1 DEF AwaitDone, AwaitResume
<1>3. /\ pc \in [Fibers \cup {Runner} -> Places] /\ op \in [Fibers -> OpStatus]
      /\ on \in [Fibers -> Channels \cup {NoChan}]
      /\ result \in [Fibers -> Messages \cup {NoMsg}]
      /\ receivers \in [Channels -> Seq(Fibers)] /\ defer = {}
  BY DEF Typed, Counting, FiberLists, ChannelTypes, Suspended
<1>4. \A c \in Channels :
        /\ receivers'[c] \in Seq(Fibers) /\ IsInjective(receivers'[c])
        /\ Range(receivers'[c]) = Range(receivers[c]) \ {f}
  BY <1>1, <1>3, RemoveList DEF Receiving
<1>5. Typed'
  <2>1. FiberLists' /\ Counting'
    BY <1>1, AwaitDoneCounting DEF Typed, Awaiting
  <2>2. receivers' \in [Channels -> Seq(Fibers)]
    BY <1>1, <1>4
  <2>3. ChannelTypes'
    BY <1>1, <2>2 DEF Typed, ChannelTypes
  <2>4. Closers'
    BY <1>1, <1>2, <1>3, MoveClosers DEF Typed
  <2> QED
    BY <1>1, <2>1, <2>3, <2>4 DEF Typed, Bookkeeping
<1>6. Named' /\ Rings' /\ Full' /\ Unique'
  <2>1. Old' = Old /\ NoMsg \in Old
    BY <1>1 DEF Old
  <2>2. got' \in [Channels -> Seq(Old)]
    <3>1. CASE op[f] = "RESOLVED" /\ on[f] # NoChan
      <4>1. on[f] \in Channels /\ result[f] \in Old
        BY <1>3, <3>1 DEF Named
      <4>2. Append(got[on[f]], result[f]) \in Seq(Old)
        BY <4>1, AppendList DEF Named
      <4> QED
        BY <1>1, <3>1, <4>1, <4>2 DEF Named
    <3>2. CASE ~(op[f] = "RESOLVED" /\ on[f] # NoChan)
      BY <1>1, <3>2 DEF Named
    <3> QED
      BY <3>1, <3>2
  <2>3. result' \in [Fibers -> Old]
    BY <1>1, <2>1 DEF Named
  <2>4. Named'
    BY <1>1, <2>1, <2>2, <2>3, KeepNamed
  <2> QED
    BY <1>1, <2>4, KeepRings, KeepFull DEF Unique
<1>7. GroupLists'
  <2>1. CASE UNCHANGED group
    BY <2>1 DEF GroupLists
  <2>2. CASE group' = [group EXCEPT ![f] = compact_group(@, Position(@, on[f]))]
    <3>1. PICK g : /\ g = compact_group(group[f], Position(group[f], on[f]))
                   /\ Within(f, g)
      BY CompactWithin
    <3> QED
      BY <2>2, <3>1 DEF GroupLists, Within
  <2> QED
    BY <2>1, <2>2 DEF SelectReturns
<1>8. Suspended'
  BY <1>1, <1>2, <1>3, KeepSuspended DEF Blocking
<1>9. Sending'
  BY <1>1, <1>2, <1>3, KeepSending DEF Suspended
<1>10. Receiving'
  <2>1. ASSUME NEW d \in Channels, NEW h \in Range(receivers'[d])
        PROVE  pc'[h] = "select" \/ (pc'[h] = "recv" /\ on'[h] = d)
    <3>1. h \in Range(receivers[d]) /\ h # f
      BY <1>4
    <3>2. h \in Fibers /\ (pc[h] = "select" \/ (pc[h] = "recv" /\ on[h] = d))
      BY <1>3, <3>1, InList DEF Receiving
    <3> QED
      BY <1>1, <1>2, <1>3, <3>1, <3>2
  <2>2. ASSUME NEW h \in Fibers
        PROVE  /\ result'[h] = NoMsg
               /\ ~(pc'[h] = "recv" /\ op'[h] = "RESOLVED" /\ ~closed'[on'[h]])
               /\ pc'[h] = "select" /\ op'[h] \in {"RUNNING", "RESOLVED"} =>
                    on'[h] = NoChan
    <3>1. CASE h = f
      BY <1>1, <1>2, <1>3, <3>1
    <3>2. CASE h # f
      <4>1. result[h] = NoMsg
        BY <1>1, <3>2 DEF Receiving
      <4> QED
        BY <1>1, <1>2, <1>3, <3>2, <4>1 DEF Receiving
    <3> QED
      BY <3>1, <3>2
  <2> QED
    BY <1>4, <2>1, <2>2 DEF Receiving
<1> QED
  BY <1>5, <1>6, <1>7, <1>8, <1>9, <1>10

\* A group send that blocks lists its message on every channel of the group;
\* the message is new.
GroupListed(f) ==
  /\ MayCall(f) /\ Call(f) /\ Regrouped /\ Range(group'[f]) = Range(group[f])
  /\ group[f] # <<>>
  /\ \A c \in Channels :
       senders'[c] = IF c \in Range(group[f]) THEN Append(senders[c], Msg(f))
                     ELSE senders[c]
  /\ \A c \in Range(group[f]) : buffer[c].len = Size[c]
  /\ value' = [value EXCEPT ![f] = Msg(f)]
  /\ offered' = offered \cup {Msg(f)}
  /\ pc' = [pc EXCEPT ![f] = "gsend"] /\ op' = [op EXCEPT ![f] = "RUNNING"]
  /\ UNCHANGED <<defer, triggered, disposed, buffer, receivers, closed, error,
                 on, result, sent, got, dropped, pending, check>>

\* A group send that blocks finds its group full.
LEMMA GroupSendListed ==
  ASSUME Typed, GroupLists, NEW f \in Fibers, NEW timed \in BOOLEAN,
         GroupSendBlocks(f, timed)
  PROVE  GroupListed(f)
<1>1. PICK g : g = group[f]
  OBVIOUS
<1>2. g \in Seq(Channels) /\ IsInjective(g) /\ Accepting(g) = {}
  BY <1>1 DEF GroupLists, GroupSendBlocks
<1>3. ASSUME NEW c \in Range(g) PROVE buffer[c].len = Size[c]
  <2>1. PICK i \in 1..Len(g) : g[i] = c
    BY <1>2, InList
  <2>2. i \in DOMAIN g /\ c \in Channels
    BY <1>2, <2>1, InList
  <2>3. ~Writable(c)
    BY <1>2, <2>1, <2>2 DEF Accepting
  <2>4. buffer[c] \in Buffers(c) /\ Size[c] \in Nat
    BY <2>2, ChannelAssumption DEF Typed, ChannelTypes
  <2>5. buffer[c].len \in 0..Size[c] /\ ~(buffer[c].len < Size[c])
    BY <2>3, <2>4 DEF Writable, Buffers
  <2> QED
    BY <2>4, <2>5
<1>4. PICK s \in Scan(f) : group' = [group EXCEPT ![f] = s]
  BY DEF GroupSendBlocks
<1>5. Within(f, s) /\ Range(s) = Range(group[f])
  <2>1. {} \in SUBSET DOMAIN s
    OBVIOUS
  <2> QED
    BY <2>1, KeptWithin
<1>6. MayCall(f) /\ Call(f) /\ cur = f /\ pc[f] = "run"
  BY DEF GroupSendBlocks, MayScan, MayCall
<1>7. Regrouped /\ Range(group'[f]) = Range(group[f])
  BY <1>4, <1>5, <1>6 DEF Regrouped, Within, GroupLists
<1>8. /\ group[f] # <<>>
      /\ senders' = [c \in Channels |->
           IF c \in Range(group[f]) THEN Append(senders[c], Msg(f))
           ELSE senders[c]]
      /\ value' = [value EXCEPT ![f] = Msg(f)]
      /\ offered' = offered \cup {Msg(f)}
      /\ pc' = [pc EXCEPT ![f] = "gsend"] /\ op' = [op EXCEPT ![f] = "RUNNING"]
      /\ UNCHANGED <<defer, triggered, disposed, buffer, receivers, closed,
                     error, on, result, sent, got, dropped, pending, check>>
  BY DEF GroupSendBlocks, AwaitOp, AwaitSuspend
<1> QED
  BY <1>1, <1>3, <1>6, <1>7, <1>8 DEF GroupListed

\* A group send that blocks keeps the types and the order of the groups.
LEMMA GroupSendBlocksOrderly ==
  ASSUME Typed, GroupOrderly, NEW f \in Fibers, NEW timed \in BOOLEAN,
         GroupSendBlocks(f, timed)
  PROVE  Typed' /\ GroupOrderly'
<1> USE DEF GroupOrderly
<1>1. GroupListed(f)
  BY GroupSendListed
<1>2. /\ MayCall(f) /\ Call(f) /\ cur = f /\ AwaitOp(f, "gsend")
      /\ timers' \in {timers, timers \cup {f}}
      /\ senders' = [c \in Channels |-> senders'[c]]
      /\ UNCHANGED <<ready, defer, triggered, disposed>>
  BY DEF GroupSendBlocks, MayScan, MayCall
<1>3. PICK n : n = Msg(f)
  OBVIOUS
<1>4. /\ pc' = [pc EXCEPT ![f] = "gsend"] /\ op' = [op EXCEPT ![f] = "RUNNING"]
      /\ value' = [value EXCEPT ![f] = n]
      /\ \A c \in Channels :
           senders'[c] = IF c \in Range(group[f]) THEN Append(senders[c], n)
                         ELSE senders[c]
      /\ UNCHANGED <<buffer, receivers, closed, error, on, result, sent, got,
                     dropped, defer>>
  BY <1>1, <1>3 DEF GroupListed
<1>5. pc[f] = "run" /\ Bookkeeping'
  BY <1>2, CallFlags DEF Typed
<1>6. n \in Messages /\ n # NoMsg /\ Owner(n) = f /\ n \notin Old /\ n \in Old'
  BY <1>2, <1>3, NewMessage DEF Typed
<1>7. /\ pc \in [Fibers \cup {Runner} -> Places] /\ op \in [Fibers -> OpStatus]
      /\ on \in [Fibers -> Channels \cup {NoChan}]
      /\ value \in [Fibers -> Messages \cup {NoMsg}]
      /\ senders \in [Channels -> Seq(Messages)] /\ defer = {}
      /\ senders \in [Channels -> Seq(Old)]
  BY DEF Typed, Counting, FiberLists, ChannelTypes, Suspended, Named
<1>8. \A c \in Channels :
        /\ senders'[c] \in Seq(Messages) /\ IsInjective(senders'[c])
        /\ Range(senders[c]) \subseteq Range(senders'[c])
        /\ Range(senders'[c]) \subseteq Range(senders[c]) \cup {n}
        /\ c \notin Range(group[f]) => senders'[c] = senders[c]
        /\ n \notin Range(senders[c])
  <2>1. ASSUME NEW c \in Channels PROVE n \notin Range(senders[c])
    BY <1>6, <1>7, InList
  <2>2. ASSUME NEW c \in Channels, NEW s \in Seq(Messages), s = senders[c]
        PROVE  /\ Append(s, n) \in Seq(Messages) /\ IsInjective(Append(s, n))
               /\ Range(Append(s, n)) = Range(s) \cup {n}
    BY <1>6, <2>1, <2>2, AppendList DEF Unique
  <2>3. ASSUME NEW c \in Channels
        PROVE  /\ senders'[c] = IF c \in Range(group[f])
                                THEN Append(senders[c], n) ELSE senders[c]
               /\ senders[c] \in Seq(Messages) /\ IsInjective(senders[c])
    BY <1>4, <1>7 DEF Unique
  <2> QED
    BY <2>1, <2>2, <2>3
<1>9. Typed'
  <2>1. FiberLists' /\ Counting'
    BY <1>2, <1>5, AwaitOpCounting DEF Typed, Places, Awaiting
  <2>2. senders' \in [Channels -> Seq(Messages)]
    BY <1>2, <1>8
  <2>3. ChannelTypes'
    BY <1>2, <1>4, <1>6, <2>2 DEF Typed, ChannelTypes
  <2>4. Closers'
    BY <1>4, <1>7, MoveClosers DEF Typed
  <2> QED
    BY <1>5, <2>1, <2>3, <2>4 DEF Typed
<1>10. Named' /\ Rings' /\ Full' /\ Unique' /\ GroupLists'
  <2>1. senders' \in [Channels -> Seq(Old')]
    <3>1. PICK S : S = Old' /\ Old \subseteq S
      BY <1>2, OldGrows DEF Typed
    <3>2. \A c \in Channels : senders[c] \in Seq(S)
      BY <1>7, <3>1, SeqMonotonic
    <3>3. \A s \in Seq(S) : Append(s, n) \in Seq(S)
      BY <1>6, <3>1
    <3>4. \A c \in Channels : senders'[c] \in Seq(S)
      BY <1>4, <3>2, <3>3
    <3> QED
      BY <1>2, <3>1, <3>4
  <2>2. Named'
    BY <1>2, <1>4, <2>1, KeepNamed
  <2>3. Full'
    BY <1>1, <1>4 DEF GroupListed, Full
  <2>4. GroupLists'
    BY <1>1, KeepLists DEF GroupListed
  <2> QED
    BY <1>4, <1>8, <2>2, <2>3, <2>4, KeepRings DEF Unique
<1>11. Suspended'
  BY <1>2, <1>4, <1>5, <1>7, KeepSuspended DEF Blocking
<1>12. Sending'
  <2>1. ASSUME NEW g \in Fibers
        PROVE  /\ value'[g] # NoMsg =>
                    pc'[g] \in {"send", "gsend"} /\ Owner(value'[g]) = g
               /\ pc'[g] = "send" /\ op'[g] = "RUNNING" =>
                    value'[g] \in Range(senders'[on'[g]])
    <3>1. CASE g = f
      BY <1>4, <1>6, <1>7, <3>1
    <3>2. CASE g # f
      <4>1. /\ pc'[g] = pc[g] /\ value'[g] = value[g] /\ op'[g] = op[g]
            /\ on'[g] = on[g] /\ (pc[g] = "send" => on[g] \in Channels)
        BY <1>4, <1>7, <3>2 DEF Suspended
      <4> QED
        BY <1>8, <4>1 DEF Sending
    <3> QED
      BY <3>1, <3>2
  <2>2. value[f] = NoMsg
    BY <1>5 DEF Sending
  <2>3. ASSUME NEW d \in Channels, NEW m \in Range(senders'[d])
        PROVE  IF value'[Owner(m)] # m THEN m \in dropped'
               ELSE pc'[Owner(m)] = "gsend" \/ on'[Owner(m)] = d
    <3>1. CASE m = n
      BY <1>4, <1>6, <1>7, <3>1
    <3>2. CASE m \in Range(senders[d]) /\ m # n
      <4>1. m \in Messages
        BY <1>7, <3>2, InList
      <4>2. m # NoMsg /\ Owner(m) \in Fibers
        BY <4>1, MessageNamed
      <4>3. IF value[Owner(m)] # m THEN m \in dropped
            ELSE pc[Owner(m)] = "gsend" \/ on[Owner(m)] = d
        BY <3>2 DEF Sending, Dead
      <4> QED
        BY <1>4, <1>7, <2>2, <3>2, <4>2, <4>3
    <3> QED
      BY <1>8, <3>1, <3>2
  <2> QED
    BY <2>1, <2>3 DEF Sending, Dead
<1>13. Receiving'
  BY <1>2, <1>4, <1>5, <1>7, KeepReceiving DEF Suspended
<1> QED
  BY <1>9, <1>10, <1>11, <1>12, <1>13

\* A group send that returns is unlinked from every channel.
GroupUnlisted(f) ==
  /\ cur = f /\ pc[f] = "gsend" /\ Settled(f)
  /\ dropped' = IF Completer(f) = {} THEN dropped \cup {value[f]} ELSE dropped
  /\ senders' = [c \in Channels |-> ASYNC_LIST_REMOVE(senders[c], value[f])]
  /\ value' = [value EXCEPT ![f] = NoMsg]
  /\ pc' = [pc EXCEPT ![f] = "run"] /\ op' = [op EXCEPT ![f] = "PENDING"]
  /\ UNCHANGED <<cur, fibers, ready, status, defer, triggered, disposed, calls,
                 buffer, receivers, closed, error, on, result, sent, got,
                 pending, check, offered>>

\* So does its return, and no channel lists its message any more.
LEMMA GroupSendReturnsOrderly ==
  ASSUME Typed, GroupOrderly, NEW f \in Fibers, GroupSendReturns(f)
  PROVE  /\ Typed' /\ GroupOrderly' /\ GroupUnlisted(f)
         /\ \A c \in Channels : Range(senders'[c]) = Range(senders[c]) \ {value[f]}
<1> USE DEF GroupOrderly
<1>1. GroupUnlisted(f) /\ AwaitDone(f) /\ timers' = timers \ {f}
  BY DEF GroupSendReturns, GroupUnlisted, AwaitDone, AwaitResume
<1>2. PICK n : n = value[f]
  OBVIOUS
<1>3. /\ cur = f /\ pc[f] = "gsend" /\ dropped \subseteq dropped'
      /\ senders' = [c \in Channels |-> ASYNC_LIST_REMOVE(senders[c], n)]
      /\ value' = [value EXCEPT ![f] = NoMsg]
      /\ pc' = [pc EXCEPT ![f] = "run"] /\ op' = [op EXCEPT ![f] = "PENDING"]
      /\ UNCHANGED <<cur, fibers, ready, status, defer, triggered, disposed,
                     calls, buffer, receivers, closed, error, on, result,
                     sent, got>>
  BY <1>1, <1>2 DEF GroupUnlisted
<1>4. /\ pc \in [Fibers \cup {Runner} -> Places] /\ op \in [Fibers -> OpStatus]
      /\ on \in [Fibers -> Channels \cup {NoChan}]
      /\ value \in [Fibers -> Messages \cup {NoMsg}]
      /\ senders \in [Channels -> Seq(Messages)] /\ defer = {}
      /\ senders \in [Channels -> Seq(Old)]
  BY DEF Typed, Counting, FiberLists, ChannelTypes, Suspended, Named
<1>5. \A c \in Channels :
        /\ senders'[c] \in Seq(Messages) /\ senders'[c] \in Seq(Old)
        /\ IsInjective(senders'[c])
        /\ Range(senders'[c]) = Range(senders[c]) \ {n}
        /\ senders[c] = <<>> => senders'[c] = <<>>
  BY <1>3, <1>4, RemoveList DEF Unique
<1>6. Typed'
  <2>1. FiberLists' /\ Counting'
    BY <1>1, <1>3, AwaitDoneCounting DEF Typed, Awaiting
  <2>2. senders' \in [Channels -> Seq(Messages)]
    BY <1>3, <1>5
  <2>3. ChannelTypes'
    BY <1>1, <1>3, <2>2 DEF Typed, ChannelTypes
  <2>4. Closers'
    BY <1>3, <1>4, MoveClosers DEF Typed
  <2> QED
    BY <1>3, <2>1, <2>3, <2>4 DEF Typed, Bookkeeping
<1>7. Named' /\ Rings' /\ Full' /\ Unique'
  <2>1. Old' = Old
    BY <1>3 DEF Old
  <2>2. senders' \in [Channels -> Seq(Old)]
    BY <1>3, <1>5
  <2>3. Named'
    BY <1>3, <2>1, <2>2, KeepNamed
  <2> QED
    BY <1>3, <1>5, <2>3, KeepRings, KeepFull DEF Unique
<1>8. GroupLists'
  <2>1. PICK g : group' = [group EXCEPT ![f] = g] /\ Within(f, g)
    <3>1. CASE \E c \in Completer(f) : closed[c]
      <4>1. PICK c : c = CHOOSE d \in Completer(f) : TRUE
        OBVIOUS
      <4>2. PICK i : i = IF error[c] /\ value[f] \in dropped
                         THEN Position(group[f], c) ELSE 0
        OBVIOUS
      <4>3. group' = [group EXCEPT ![f] = compact_group(group[f], i)]
        BY <3>1, <4>1, <4>2 DEF GroupSendReturns, GroupLists
      <4> QED
        BY <4>3, CompactWithin
    <3>2. CASE ~\E c \in Completer(f) : closed[c]
      <4>1. group' = [group EXCEPT ![f] = group[f]]
        BY <3>2 DEF GroupSendReturns, GroupLists
      <4> QED
        BY <4>1 DEF Within, GroupLists
    <3> QED
      BY <3>1, <3>2
  <2> QED
    BY <2>1 DEF GroupLists, Within
<1>9. Suspended'
  BY <1>3, <1>4, KeepSuspended DEF Blocking
<1>10. Sending'
  <2>1. ASSUME NEW g \in Fibers
        PROVE  /\ value'[g] # NoMsg =>
                    pc'[g] \in {"send", "gsend"} /\ Owner(value'[g]) = g
               /\ pc'[g] = "send" /\ op'[g] = "RUNNING" =>
                    value'[g] \in Range(senders'[on'[g]])
    <3>1. CASE g = f
      BY <1>3, <1>4, <3>1
    <3>2. CASE g # f
      <4>1. pc'[g] = pc[g] /\ value'[g] = value[g] /\ op'[g] = op[g] /\ on'[g] = on[g]
        BY <1>3, <1>4, <3>2
      <4>2. ASSUME pc[g] = "send", op[g] = "RUNNING"
            PROVE  value[g] \in Range(senders'[on[g]])
        <5>1. on[g] \in Channels /\ value[g] \in Range(senders[on[g]])
          BY <4>2 DEF Sending, Suspended
        <5>2. value[g] # NoMsg
          BY <1>4, <5>1, InList, MessageNamed
        <5>3. value[g] # n
          BY <1>2, <3>2, <5>2 DEF Sending
        <5> QED
          BY <1>5, <5>1, <5>3
      <4> QED
        BY <4>1, <4>2 DEF Sending
    <3> QED
      BY <3>1, <3>2
  <2>2. ASSUME NEW d \in Channels, NEW m \in Range(senders'[d])
        PROVE  IF value'[Owner(m)] # m THEN m \in dropped'
               ELSE pc'[Owner(m)] = "gsend" \/ on'[Owner(m)] = d
    <3>1. m \in Range(senders[d]) /\ m # n
      BY <1>5
    <3>2. m \in Messages
      BY <1>4, <3>1, InList
    <3>3. m # NoMsg /\ Owner(m) \in Fibers
      BY <3>2, MessageNamed
    <3>4. IF value[Owner(m)] # m THEN m \in dropped
          ELSE pc[Owner(m)] = "gsend" \/ on[Owner(m)] = d
      BY <3>1 DEF Sending, Dead
    <3>5. CASE Owner(m) = f
      BY <1>2, <1>3, <1>4, <3>1, <3>3, <3>4, <3>5
    <3>6. CASE Owner(m) # f
      BY <1>3, <1>4, <3>3, <3>4, <3>6
    <3> QED
      BY <3>5, <3>6
  <2> QED
    BY <2>1, <2>2 DEF Sending, Dead
<1>11. Receiving'
  BY <1>3, <1>4, KeepReceiving DEF Suspended
<1> QED
  BY <1>1, <1>2, <1>5, <1>6, <1>7, <1>8, <1>9, <1>10, <1>11

\* What a message does to the first select that is listed on a channel.
HandsOver(f, c, r) ==
  /\ cur = f /\ pc[f] = "run" /\ MayCall(f) /\ Call(f) /\ ~closed[c]
  /\ r \in Fibers /\ receivers[c] # <<>> /\ r = Head(receivers[c])
  /\ r \in Range(receivers[c]) /\ pc[r] = "select" /\ op[r] = "RUNNING"
  /\ receivers' = [receivers EXCEPT ![c] = Tail(@)]
  /\ pending' = [pending EXCEPT ![r] = @ - 1]
  /\ on' = [on EXCEPT ![r] = c]
  /\ result' = [result EXCEPT ![r] = Msg(f)]
  /\ cur' = r /\ op' = [op EXCEPT ![r] = "RESOLVED"]
  /\ sent' = [sent EXCEPT ![c] = Append(@, Msg(f))]
  /\ UNCHANGED <<pc, defer, busy, callbacks, triggered, disposed, buffer,
                 senders, closed, error, value, timers, got, dropped, check,
                 offered>>

\* That is what SendToSelector does, when a select is first in the list.
LEMMA SelectorHandsOver ==
  ASSUME Typed, Suspended, NEW f \in Fibers, NEW c \in Channels,
         SendToSelector(f, c)
  PROVE  \E r \in Fibers : HandsOver(f, c, r) /\ reschedule_task(r, "RESOLVED")
<1>1. PICK r : r = Head(receivers[c])
  OBVIOUS
<1>2. /\ receivers[c] # <<>> /\ pc[r] = "select" /\ MayCall(f) /\ Call(f) /\ ~closed[c]
      /\ reschedule_task(r, "RESOLVED")
      /\ receivers' = [receivers EXCEPT ![c] = Tail(@)]
      /\ pending' = [pending EXCEPT ![r] = @ - 1]
      /\ on' = [on EXCEPT ![r] = c]
      /\ result' = [result EXCEPT ![r] = Msg(f)]
      /\ sent' = [sent EXCEPT ![c] = Append(@, Msg(f))]
      /\ UNCHANGED <<pc, defer, busy, callbacks, triggered, disposed, buffer,
                     senders, closed, error, value, timers, got, dropped, check,
                     offered>>
  BY <1>1 DEF SendToSelector, MaySend
<1>3. r \in Fibers /\ r \in Range(receivers[c])
  BY <1>1, <1>2, TailList DEF Typed, ChannelTypes
<1>4. cur = f /\ pc[f] = "run"
  BY <1>2 DEF MayCall
<1>5. op[r] = "RUNNING"
  BY <1>2, <1>3, <1>4 DEF Suspended, Blocking
<1>6. cur' = r /\ op' = [op EXCEPT ![r] = "RESOLVED"]
  BY <1>2, <1>3, Resumed DEF Typed, Suspended
<1> QED
  BY <1>1, <1>2, <1>3, <1>4, <1>5, <1>6 DEF HandsOver

\* A message to a select keeps the types and the order of the groups.
LEMMA SelectorOrderly ==
  ASSUME Typed, GroupOrderly, NEW f \in Fibers, NEW c \in Channels,
         SendToSelector(f, c), Regrouped
  PROVE  Typed' /\ GroupOrderly'
<1> USE DEF GroupOrderly
<1>1. PICK r \in Fibers : HandsOver(f, c, r) /\ reschedule_task(r, "RESOLVED")
  BY SelectorHandsOver
<1>2. /\ cur = f /\ pc[f] = "run" /\ MayCall(f) /\ Call(f) /\ ~closed[c]
      /\ receivers[c] # <<>> /\ r = Head(receivers[c])
      /\ r \in Range(receivers[c]) /\ pc[r] = "select" /\ op[r] = "RUNNING"
      /\ receivers' = [receivers EXCEPT ![c] = Tail(@)]
      /\ on' = [on EXCEPT ![r] = c]
      /\ result' = [result EXCEPT ![r] = Msg(f)]
      /\ cur' = r /\ op' = [op EXCEPT ![r] = "RESOLVED"]
      /\ UNCHANGED <<pc, defer, busy, callbacks, triggered, disposed, buffer,
                     senders, closed, error, value, timers, got, dropped>>
  BY <1>1 DEF HandsOver
<1>3. Bookkeeping'
  BY <1>2, CallFlags DEF Typed
<1>4. Msg(f) \in Messages /\ Msg(f) # NoMsg /\ Msg(f) \in Old'
  BY <1>2, NewMessage DEF Typed
<1>5. /\ pc \in [Fibers \cup {Runner} -> Places] /\ op \in [Fibers -> OpStatus]
      /\ on \in [Fibers -> Channels \cup {NoChan}]
      /\ result \in [Fibers -> Messages \cup {NoMsg}]
      /\ receivers \in [Channels -> Seq(Fibers)] /\ defer = {}
  BY DEF Typed, Counting, FiberLists, ChannelTypes, Suspended
<1>6. Tail(receivers[c]) \in Seq(Fibers)
  BY <1>2, <1>5, TailList
<1>7. Typed'
  <2>1. FiberLists'
    BY <1>1, RescheduleType DEF Typed, OpStatus
  <2>2. ChannelTypes'
    BY <1>2, <1>4, <1>6 DEF Typed, ChannelTypes
  <2>3. Closers'
    BY <1>2, <1>5 DEF Typed, Closers
  <2> QED
    BY <1>2, <1>3, <2>1, <2>2, <2>3, StayCounting DEF Typed
<1>8. Named' /\ Rings' /\ Full' /\ Unique' /\ GroupLists'
  <2>1. result' \in [Fibers -> Old']
    <3>1. PICK S : S = Old' /\ Old \subseteq S
      BY <1>2, OldGrows DEF Typed
    <3> QED
      BY <1>2, <1>4, <3>1 DEF Named
  <2>2. Named'
    BY <1>2, <2>1, KeepNamed
  <2> QED
    BY <1>2, <2>2, KeepRings, KeepFull, KeepLists DEF Unique
<1>9. Suspended'
  BY <1>2, <1>5, KeepSuspended DEF Suspended, Blocking
<1>10. Sending'
  BY <1>2, <1>5, KeepSending DEF Suspended
<1>11. Receiving'
  <2>1. ASSUME NEW d \in Channels
        PROVE  /\ IsInjective(receivers'[d])
               /\ \A h \in Range(receivers'[d]) :
                    pc'[h] = "select" \/ (pc'[h] = "recv" /\ on'[h] = d)
    <3>1. /\ IsInjective(receivers'[d])
          /\ Range(receivers'[d]) \subseteq Range(receivers[d])
      BY <1>2, <1>5, TailList DEF Receiving
    <3>2. \A h \in Range(receivers[d]) :
            h \in Fibers /\ (pc[h] = "select" \/ (pc[h] = "recv" /\ on[h] = d))
      BY <1>5, InList DEF Receiving
    <3> QED
      BY <1>2, <1>5, <3>1, <3>2
  <2>2. ASSUME NEW h \in Fibers
        PROVE  /\ result'[h] # NoMsg =>
                    /\ h = cur' /\ pc'[h] \in {"recv", "select"}
                    /\ op'[h] = "RESOLVED" /\ on'[h] \in Channels
                    /\ (pc'[h] = "recv" => ~closed'[on'[h]])
               /\ pc'[h] = "recv" /\ op'[h] = "RESOLVED" /\ ~closed'[on'[h]] =>
                    result'[h] # NoMsg
               /\ pc'[h] = "select" /\ op'[h] = "RESOLVED" /\ on'[h] # NoChan =>
                    result'[h] # NoMsg
               /\ pc'[h] = "select" /\ op'[h] = "RUNNING" => on'[h] = NoChan
    <3>1. CASE h = r
      BY <1>2, <1>4, <1>5, <3>1
    <3>2. CASE h # r
      <4>1. /\ result'[h] = result[h] /\ op'[h] = op[h] /\ on'[h] = on[h]
            /\ pc'[h] = pc[h] /\ result[h] = NoMsg
        BY <1>2, <1>5, <3>2 DEF Receiving
      <4> QED
        BY <1>2, <4>1 DEF Receiving
    <3> QED
      BY <3>1, <3>2
  <2> QED
    BY <2>1, <2>2 DEF Receiving
<1> QED
  BY <1>7, <1>8, <1>9, <1>10, <1>11

\* What the loop of dispose_state does to such a select.
CountsOff(c, r) ==
  /\ cur \in Fibers /\ pc[cur] \in {"close", "shutdown"} /\ c \in Channels
  /\ c = on[cur] /\ closed[c]
  /\ r \in Fibers /\ receivers[c] # <<>> /\ r = Head(receivers[c])
  /\ r \in Range(receivers[c]) /\ pc[r] = "select" /\ op[r] = "RUNNING"
  /\ receivers' = [receivers EXCEPT ![c] = Tail(@)]
  /\ pending' = [pending EXCEPT ![r] = @ - 1]
  /\ check' = check \cup {r}
  /\ \/ /\ error[c] /\ on' = [on EXCEPT ![r] = c]
        /\ cur' = r /\ op' = [op EXCEPT ![r] = "FAILED"]
     \/ /\ pending[r] = 1 /\ UNCHANGED on
        /\ cur' = r /\ op' = [op EXCEPT ![r] = "RESOLVED"]
     \/ pending[r] # 1 /\ UNCHANGED <<on, cur, op>>
  /\ UNCHANGED <<pc, defer, busy, callbacks, triggered, disposed, calls,
                 buffer, senders, closed, error, value, result, timers, sent,
                 got, dropped, group, offered>>

\* That is what DisposeSelector does.
LEMMA SelectorCountsOff ==
  ASSUME Typed, Suspended, DisposeSelector
  PROVE  \E c \in Channels, r \in Fibers :
           /\ CountsOff(c, r)
           /\ \/ \E o \in OpStatus : reschedule_task(r, o)
              \/ UNCHANGED <<cur, fibers, ready, status, op>>
<1>1. PICK c, r : c = on[cur] /\ r = Head(receivers[c])
  OBVIOUS
<1>2. /\ receivers[c] # <<>> /\ pc[r] = "select"
      /\ cur \in Fibers /\ pc[cur] \in {"close", "shutdown"}
      /\ receivers' = [receivers EXCEPT ![c] = Tail(@)]
      /\ pending' = [pending EXCEPT ![r] = @ - 1]
      /\ check' = check \cup {r}
      /\ on' = IF error[c] THEN [on EXCEPT ![r] = c] ELSE on
      /\ IF error[c] \/ pending[r] = 1
         THEN reschedule_task(r, CloseOutcome(c))
         ELSE UNCHANGED <<cur, fibers, ready, status, op>>
      /\ UNCHANGED <<pc, defer, busy, callbacks, triggered, disposed, calls,
                     buffer, senders, closed, error, value, result, timers,
                     sent, got, dropped, group, offered>>
  BY <1>1 DEF DisposeSelector, Closing
<1>3. c \in Channels /\ closed[c]
  BY <1>1, <1>2 DEF Typed, Closers, Suspended
<1>4. r \in Fibers /\ r \in Range(receivers[c])
  BY <1>1, <1>2, <1>3, TailList DEF Typed, ChannelTypes
<1>5. op[r] = "RUNNING"
  BY <1>2, <1>4 DEF Suspended, Blocking
<1>6. PICK o : o = CloseOutcome(c)
  OBVIOUS
<1>7. o = (IF error[c] THEN "FAILED" ELSE "RESOLVED") /\ o \in OpStatus
  BY <1>6 DEF CloseOutcome, OpStatus
<1>8. reschedule_task(r, o) => cur' = r /\ op' = [op EXCEPT ![r] = o]
  BY <1>4, Resumed DEF Typed, Suspended
<1>9. CountsOff(c, r)
  BY <1>1, <1>2, <1>3, <1>4, <1>5, <1>6, <1>7, <1>8 DEF CountsOff
<1> QED
  BY <1>2, <1>3, <1>4, <1>6, <1>7, <1>9

\* The disposal of a listed select keeps the types and the order of the groups.
LEMMA DisposeSelectorOrderly ==
  ASSUME Typed, GroupOrderly, DisposeSelector
  PROVE  Typed' /\ GroupOrderly'
<1> USE DEF GroupOrderly
<1>1. PICK c \in Channels, r \in Fibers :
        /\ CountsOff(c, r)
        /\ \/ \E o \in OpStatus : reschedule_task(r, o)
           \/ UNCHANGED <<cur, fibers, ready, status, op>>
  BY SelectorCountsOff
<1>2. /\ cur \in Fibers /\ pc[cur] \in {"close", "shutdown"}
      /\ receivers[c] # <<>> /\ r = Head(receivers[c])
      /\ r \in Range(receivers[c]) /\ pc[r] = "select" /\ op[r] = "RUNNING"
      /\ receivers' = [receivers EXCEPT ![c] = Tail(@)]
      /\ UNCHANGED <<pc, defer, busy, callbacks, triggered, disposed, calls,
                     buffer, senders, closed, error, value, result, timers,
                     sent, got, dropped, group>>
  BY <1>1 DEF CountsOff
<1>3. \/ on' = [on EXCEPT ![r] = c] /\ cur' = r /\ op' = [op EXCEPT ![r] = "FAILED"]
      \/ UNCHANGED on /\ cur' = r /\ op' = [op EXCEPT ![r] = "RESOLVED"]
      \/ UNCHANGED <<on, cur, op>>
  BY <1>1 DEF CountsOff
<1>4. /\ pc \in [Fibers \cup {Runner} -> Places] /\ op \in [Fibers -> OpStatus]
      /\ on \in [Fibers -> Channels \cup {NoChan}]
      /\ result \in [Fibers -> Messages \cup {NoMsg}]
      /\ receivers \in [Channels -> Seq(Fibers)] /\ defer = {}
  BY DEF Typed, Counting, FiberLists, ChannelTypes, Suspended
<1>5. \A h \in Fibers \ {r} : on'[h] = on[h] /\ op'[h] = op[h]
  BY <1>3, <1>4
<1>6. Typed'
  <2>1. FiberLists'
    BY <1>1, RescheduleType DEF Typed, FiberLists
  <2>2. on' \in [Fibers -> Channels \cup {NoChan}]
    BY <1>3, <1>4
  <2>3. Tail(receivers[c]) \in Seq(Fibers)
    BY <1>2, <1>4, TailList
  <2>4. ChannelTypes'
    BY <1>2, <2>2, <2>3 DEF Typed, ChannelTypes
  <2>5. Closers'
    BY <1>2, <1>5 DEF Typed, Closers
  <2> QED
    BY <1>2, <2>1, <2>4, <2>5, StayCounting DEF Typed, Bookkeeping
<1>7. Named' /\ Rings' /\ Full' /\ Unique' /\ GroupLists'
  BY <1>2, KeepNamed, KeepRings, KeepFull DEF Unique, GroupLists
<1>8. Suspended'
  BY <1>2, <1>3, <1>4, KeepSuspended DEF Suspended, Blocking
<1>9. Sending'
  BY <1>2, <1>4, <1>5, KeepSending DEF Suspended
<1>10. Receiving'
  <2>1. ASSUME NEW d \in Channels
        PROVE  /\ IsInjective(receivers'[d])
               /\ \A h \in Range(receivers'[d]) :
                    pc'[h] = "select" \/ (pc'[h] = "recv" /\ on'[h] = d)
    <3>1. /\ IsInjective(receivers'[d])
          /\ Range(receivers'[d]) \subseteq Range(receivers[d])
      BY <1>2, <1>4, TailList DEF Receiving
    <3>2. \A h \in Range(receivers[d]) :
            h \in Fibers /\ (pc[h] = "select" \/ (pc[h] = "recv" /\ on[h] = d))
      BY <1>4, InList DEF Receiving
    <3> QED
      BY <1>2, <1>4, <1>5, <3>1, <3>2
  <2>2. ASSUME NEW h \in Fibers
        PROVE  /\ result'[h] = NoMsg
               /\ ~(pc'[h] = "recv" /\ op'[h] = "RESOLVED" /\ ~closed'[on'[h]])
               /\ pc'[h] = "select" /\ op'[h] \in {"RUNNING", "RESOLVED"} =>
                    on'[h] = NoChan
    <3>1. result[h] = NoMsg
      BY <1>2 DEF Receiving
    <3>2. CASE h = r
      BY <1>2, <1>3, <1>4, <3>1, <3>2 DEF Receiving
    <3>3. CASE h # r
      BY <1>2, <1>5, <3>1, <3>3 DEF Receiving
    <3> QED
      BY <3>2, <3>3
  <2> QED
    BY <2>1, <2>2 DEF Receiving
<1> QED
  BY <1>6, <1>7, <1>8, <1>9, <1>10

\* A step of a channel lists a send operation only once.
LEMMA StepUnique ==
  ASSUME Typed, Named, Unique, [Next]_vars
  PROVE  Unique'
<1>1. /\ senders \in [Channels -> Seq(Messages)]
      /\ senders \in [Channels -> Seq(Old)] /\ Bookkeeping
      /\ \A c \in Channels : IsInjective(senders[c])
  BY DEF Typed, ChannelTypes, Named, Unique
<1>2. ASSUME UNCHANGED senders PROVE Unique'
  BY <1>2 DEF Unique
<1>3. ASSUME NEW c \in Channels,
             \/ \E m : senders' = [senders EXCEPT ![c] = ASYNC_LIST_REMOVE(@, m)]
             \/ senders[c] # <<>> /\ senders' = [senders EXCEPT ![c] = Tail(@)]
      PROVE  Unique'
  <2>1. \A m : IsInjective(ASYNC_LIST_REMOVE(senders[c], m))
    BY <1>1, RemoveList
  <2>2. senders[c] # <<>> => IsInjective(Tail(senders[c]))
    BY <1>1, TailList
  <2> QED
    BY <1>1, <1>3, <2>1, <2>2 DEF Unique
<1>4. ASSUME NEW f \in Fibers, NEW c \in Channels, Call(f),
             senders' = [senders EXCEPT ![c] = Append(@, Msg(f))]
      PROVE  Unique'
  <2>1. Msg(f) \in Messages /\ Msg(f) \notin Range(senders[c])
    BY <1>1, <1>4, NewMessage, InList
  <2>2. IsInjective(Append(senders[c], Msg(f)))
    BY <1>1, <2>1, AppendList
  <2> QED
    BY <1>1, <1>4, <2>2 DEF Unique
<1>5. ASSUME NEW f \in Fibers, NEW c \in Channels, ChannelStep(f, c)
      PROVE  Unique'
  BY <1>2, <1>3, <1>4, <1>5
     DEF ChannelStep, SendToReceiver, SendToBuffer, SendBlocks, SendRefused,
         MaySend, NextFetches, fetch_noblock, NextBlocks, close
<1>6. ASSUME NEW f \in Fibers,
             SendReturns(f) \/ NextReturns(f) \/ timeout_channel_send_cb(f)
      PROVE  Unique'
  <2>1. CASE NextReturns(f)
    BY <1>2, <2>1 DEF NextReturns
  <2>2. CASE SendReturns(f) \/ timeout_channel_send_cb(f)
    <3>1. \/ UNCHANGED senders
          \/ senders' = [senders EXCEPT ![on[f]] = ASYNC_LIST_REMOVE(@, value[f])]
      BY <2>2 DEF SendReturns, timeout_channel_send_cb
    <3>2. on[f] \in Channels \/ (on[f] \notin DOMAIN senders)
      BY <1>1
    <3> QED
      BY <1>1, <1>2, <1>3, <3>1, <3>2
  <2> QED
    BY <1>6, <2>1, <2>2
<1>7. ASSUME NEW c \in Channels, dispose_channel_send_timer_cb(c)
      PROVE  Unique'
  BY <1>3, <1>7 DEF dispose_channel_send_timer_cb
<1>8. CASE DisposeSender
  <2>1. on[cur] \in Channels
    BY <1>8 DEF DisposeSender, Closing, Typed, Closers
  <2> QED
    BY <1>3, <1>8, <2>1 DEF DisposeSender
<1>9. CASE DisposeReceiver \/ DisposeEnds \/ UNCHANGED chanVars \/ UNCHANGED vars
  BY <1>2, <1>9 DEF DisposeReceiver, DisposeEnds, chanVars, vars
<1> QED
  BY <1>5, <1>6, <1>7, <1>8, <1>9 DEF Next

\* Every step of the groups and their channels keeps all of it.
LEMMA StepGroupOrderly ==
  ASSUME Typed, GroupOrderly, [GroupNext]_allVars
  PROVE  Typed' /\ GroupOrderly'
<1>1. ASSUME [Next]_vars, Regrouped PROVE Typed' /\ GroupOrderly'
  BY <1>1, StepTyped, StepNamed, StepRings, StepFull, StepSuspended,
     StepSending, StepReceiving, StepUnique, KeepLists DEF GroupOrderly
<1>2. ASSUME NEW f \in Fibers, OnlyRegroups(f) \/ GroupMove(f)
      PROVE  Typed' /\ GroupOrderly'
  BY <1>2, RegroupOrderly, TimeoutOrderly, SelectBlocksOrderly,
     SelectReturnsOrderly, GroupSendBlocksOrderly, GroupSendReturnsOrderly
     DEF GroupMove
<1> QED
  BY <1>1, <1>2, GroupCases, SelectorOrderly, DisposeSelectorOrderly
     DEF GroupOrderly

-----------------------------------------------------------------------------
(***************************************************************************)
(* The count of a select that waits.                                       *)
(***************************************************************************)

\* The channels that list a fiber as a receiver.
Listens(f) == {c \in Channels : f \in Range(receivers[c])}

\* A select that waits is counted by the channels that list it.
Counted ==
  /\ pending \in [Fibers -> 0..Cardinality(Channels)]
  /\ check \subseteq Fibers
  /\ \A f \in Fibers :
       pc[f] = "select" /\ op[f] = "RUNNING" =>
         pending[f] = Cardinality(Listens(f)) /\ Listens(f) # {}

\* A step of a channel neither begins nor unlinks a select.
LEMMA StepListens ==
  ASSUME Typed, Suspended, Sending, Receiving, [Next]_vars, NEW f \in Fibers
  PROVE  pc'[f] = "select" =>
           /\ pc[f] = "select" /\ (op'[f] = "RUNNING" => op[f] = "RUNNING")
           /\ \A c \in Channels : f \in Range(receivers'[c]) <=> f \in Range(receivers[c])
<1>1. /\ pc \in [Fibers \cup {Runner} -> Places] /\ op \in [Fibers -> OpStatus]
      /\ receivers \in [Channels -> Seq(Fibers)] /\ defer = {} /\ FiberLists
      /\ on \in [Fibers -> Channels \cup {NoChan}]
  BY DEF Typed, Counting, FiberLists, ChannelTypes, Suspended
<1> SUFFICES ASSUME pc'[f] = "select"
             PROVE  /\ pc[f] = "select" /\ (op'[f] = "RUNNING" => op[f] = "RUNNING")
                    /\ \A c \in Channels :
                         f \in Range(receivers'[c]) <=> f \in Range(receivers[c])
  OBVIOUS
<1> DEFINE Same == /\ pc[f] = "select" /\ (op'[f] = "RUNNING" => op[f] = "RUNNING")
                   /\ \A c \in Channels :
                        f \in Range(receivers'[c]) <=> f \in Range(receivers[c])
<1>2. ASSUME NEW c \in Channels, NEW r, r = Head(receivers[c]), pc[r] = "recv",
             receivers[c] # <<>>, UNCHANGED pc, NEW o, o # "RUNNING",
             receivers' = [receivers EXCEPT ![c] = Tail(@)],
             op' = [op EXCEPT ![r] = o]
      PROVE  Same
  <2>1. Range(receivers[c]) = Range(Tail(receivers[c])) \cup {r}
    BY <1>1, <1>2, TailList
  <2> QED
    BY <1>1, <1>2, <2>1
<1>3. ASSUME UNCHANGED receivers, pc[f] = "select",
             \/ UNCHANGED op
             \/ \E g, o : o # "RUNNING" /\ op' = [op EXCEPT ![g] = o]
      PROVE  Same
  BY <1>1, <1>3
<1>4. ASSUME NEW g \in Fibers, NEW l, l # "select", pc' = [pc EXCEPT ![g] = l]
      PROVE  g # f /\ pc[f] = "select"
  BY <1>1, <1>4
<1>5. ASSUME NEW g \in Fibers, NEW c \in Channels, SendToReceiver(g, c)
      PROVE  Same
  BY <1>2, <1>5 DEF SendToReceiver, reschedule_task
<1>6. ASSUME NEW g \in Fibers, NEW c \in Channels,
             SendToBuffer(g, c) \/ SendRefused(g, c)
      PROVE  Same
  BY <1>3, <1>6 DEF SendToBuffer, SendRefused
<1>7. ASSUME NEW g \in Fibers, NEW c \in Channels, NEW err \in BOOLEAN,
             close(g, c, err)
      PROVE  Same
  <2>1. UNCHANGED <<op, receivers>>
        /\ \E l \in {"close", "shutdown"} : pc' = [pc EXCEPT ![g] = l]
    BY <1>7 DEF close
  <2> QED
    BY <1>3, <1>4, <2>1
<1>8. ASSUME NEW g \in Fibers, NEW c \in Channels, NEW timed \in BOOLEAN,
             SendBlocks(g, c, timed)
      PROVE  Same
  <2>1. UNCHANGED receivers /\ op' = [op EXCEPT ![g] = "RUNNING"]
        /\ pc' = [pc EXCEPT ![g] = "send"]
    BY <1>8 DEF SendBlocks, AwaitOp, AwaitSuspend
  <2> QED
    BY <1>1, <1>4, <2>1
<1>9. ASSUME NEW c \in Channels, fetch_noblock(c), UNCHANGED <<pc, receivers>>
      PROVE  Same
  BY <1>3, <1>9 DEF fetch_noblock, CompleteSend, reschedule_task
<1>10. ASSUME NEW g \in Fibers, NEW c \in Channels, NextBlocks(g, c)
       PROVE  Same
  <2>1. /\ receivers' = [receivers EXCEPT ![c] = Append(@, g)]
        /\ op' = [op EXCEPT ![g] = "RUNNING"] /\ pc' = [pc EXCEPT ![g] = "recv"]
    BY <1>10 DEF NextBlocks, AwaitOp, AwaitSuspend
  <2>2. g # f /\ pc[f] = "select"
    BY <1>4, <2>1
  <2>3. Range(Append(receivers[c], g)) = Range(receivers[c]) \cup {g}
    BY <1>1, AppendList
  <2> QED
    BY <1>1, <2>1, <2>2, <2>3
<1>11. ASSUME NEW g \in Fibers, NextReturns(g)
       PROVE  Same
  <2>1. /\ receivers' = [receivers EXCEPT ![on[g]] = ASYNC_LIST_REMOVE(@, g)]
        /\ op' = [op EXCEPT ![g] = "PENDING"] /\ pc' = [pc EXCEPT ![g] = "run"]
        /\ pc[g] = "recv"
    BY <1>11 DEF NextReturns, AwaitDone, AwaitResume
  <2>2. g # f /\ pc[f] = "select"
    BY <1>4, <2>1
  <2>3. PICK d : d = on[g] /\ d \in Channels
    BY <2>1 DEF Suspended
  <2>4. /\ Range(ASYNC_LIST_REMOVE(receivers[d], g)) \subseteq Range(receivers[d])
        /\ Range(receivers[d]) \ {g} \subseteq Range(ASYNC_LIST_REMOVE(receivers[d], g))
    BY <1>1, <2>3, RemoveList, UnlinkKeeps
  <2>5. PICK R : R = ASYNC_LIST_REMOVE(receivers[d], g)
    OBVIOUS
  <2>6. /\ receivers' = [receivers EXCEPT ![d] = R]
        /\ f \in Range(R) <=> f \in Range(receivers[d])
    BY <2>1, <2>2, <2>3, <2>4, <2>5
  <2>7. op'[f] = op[f]
    BY <2>1, <2>2
  <2> QED
    BY <1>1, <2>2, <2>3, <2>6, <2>7
<1>12. ASSUME NEW g \in Fibers, SendReturns(g)
       PROVE  Same
  <2>1. /\ UNCHANGED receivers /\ op' = [op EXCEPT ![g] = "PENDING"]
        /\ pc' = [pc EXCEPT ![g] = "run"]
    BY <1>12 DEF SendReturns, AwaitDone, AwaitResume
  <2> QED
    BY <1>3, <1>4, <2>1
<1>13. ASSUME NEW g \in Fibers, timeout_channel_send_cb(g)
       PROVE  Same
  BY <1>3, <1>13 DEF timeout_channel_send_cb, reschedule_task
<1>14. CASE DisposeReceiver
  <2>1. PICK c, r : c = on[cur] /\ r = Head(receivers[c])
    OBVIOUS
  <2>2. c \in Channels
    BY <1>14, <2>1 DEF DisposeReceiver, Closing, Typed, Closers
  <2>3. /\ receivers[c] # <<>> /\ pc[r] = "recv" /\ UNCHANGED pc
        /\ receivers' = [receivers EXCEPT ![c] = Tail(@)]
        /\ op' = [op EXCEPT ![r] = CloseOutcome(c)]
    BY <1>14, <2>1 DEF DisposeReceiver, reschedule_task
  <2>4. PICK o : o = CloseOutcome(c) /\ o # "RUNNING"
    BY DEF CloseOutcome
  <2>5. PICK R : R = Tail(receivers[c]) /\ Range(receivers[c]) = Range(R) \cup {r}
    <3>1. receivers[c] \in Seq(Fibers) /\ r = Head(receivers[c])
      BY <1>1, <2>1, <2>2
    <3>2. Range(receivers[c]) = Range(Tail(receivers[c])) \cup {r}
      BY <2>3, <3>1, TailList
    <3> QED
      BY <3>2
  <2>6. receivers' = [receivers EXCEPT ![c] = R] /\ op' = [op EXCEPT ![r] = o]
    <3>1. receivers' = [receivers EXCEPT ![c] = R]
      BY <1>1, <2>2, <2>3, <2>5
    <3>2. op' = [op EXCEPT ![r] = o]
      BY <2>3, <2>4
    <3> QED
      BY <3>1, <3>2
  <2>7. r # f /\ pc[f] = "select"
    BY <2>3
  <2> QED
    BY <1>1, <2>2, <2>4, <2>5, <2>6, <2>7
<1>15. CASE DisposeSender
  <2>1. UNCHANGED receivers /\ pc[f] = "select"
    BY <1>15 DEF DisposeSender
  <2>2. PICK c, n : c = on[cur] /\ n = Head(senders[c]) /\ CompleteSend(n, c, CloseOutcome(c))
    BY <1>15 DEF DisposeSender
  <2>3. \/ UNCHANGED op
        \/ \E g, o : o # "RUNNING" /\ op' = [op EXCEPT ![g] = o]
    BY <2>2 DEF CompleteSend, reschedule_task, CloseOutcome
  <2> QED
    BY <1>3, <2>1, <2>3
<1>16. CASE DisposeEnds
  <2>1. UNCHANGED <<op, receivers>> /\ cur \in Fibers
        /\ \E l \in {"run", "dispose"} : pc' = [pc EXCEPT ![cur] = l]
    BY <1>16 DEF DisposeEnds, Closing
  <2> QED
    BY <1>3, <1>4, <2>1
<1>17. CASE SchedStep /\ UNCHANGED chanVars
  <2>1. UNCHANGED receivers
    BY <1>17 DEF chanVars
  <2> QED
    BY <1>17, <2>1, SchedulerMoves DEF Blocking
<1>18. CASE UNCHANGED vars
  BY <1>18 DEF vars
<1>19. ASSUME NEW c \in Channels, dispose_channel_send_timer_cb(c)
       PROVE  Same
  BY <1>3, <1>19 DEF dispose_channel_send_timer_cb, schedVars
<1>20. ASSUME NEW g \in Fibers, NEW c \in Channels, NextFetches(g, c)
       PROVE  Same
  BY <1>9, <1>20 DEF NextFetches
<1> QED
  BY <1>5, <1>6, <1>7, <1>8, <1>10, <1>11, <1>12, <1>13, <1>14, <1>15, <1>16,
     <1>17, <1>18, <1>19, <1>20
     DEF Next, ChannelStep

\* A step that neither lists nor unlinks a select that goes on waiting.
LEMMA KeepCounted ==
  ASSUME Counted, UNCHANGED pending, check' \subseteq Fibers,
         \A f \in Fibers : pc'[f] = "select" /\ op'[f] = "RUNNING" =>
           /\ pc[f] = "select" /\ op[f] = "RUNNING"
           /\ \A c \in Channels : f \in Range(receivers'[c]) <=> f \in Range(receivers[c])
  PROVE  Counted'
<1>1. ASSUME NEW f \in Fibers, pc'[f] = "select", op'[f] = "RUNNING"
      PROVE  pending'[f] = Cardinality(Listens(f)') /\ Listens(f)' # {}
  <2>1. Listens(f)' = Listens(f)
    BY <1>1 DEF Listens
  <2> QED
    BY <1>1, <2>1 DEF Counted
<1> QED
  BY <1>1 DEF Counted

\* The channels that list a fiber are finitely many.
LEMMA ListensFinite ==
  ASSUME NEW f
  PROVE  /\ IsFiniteSet(Listens(f)) /\ Cardinality(Listens(f)) \in Nat
         /\ Cardinality(Channels) \in Nat
         /\ Cardinality(Listens(f)) <= Cardinality(Channels)
         /\ Listens(f) # {} => Cardinality(Listens(f)) >= 1
<1>1. IsFiniteSet(Channels) /\ Listens(f) \subseteq Channels
  BY GroupAssumption DEF Listens
<1>2. IsFiniteSet(Listens(f)) /\ Cardinality(Listens(f)) <= Cardinality(Channels)
  BY <1>1, FS_Subset
<1>3. Cardinality(Listens(f)) \in Nat /\ Cardinality(Channels) \in Nat
  BY <1>1, <1>2, FS_CardinalityType
<1>4. Cardinality(Listens(f)) = 0 <=> Listens(f) = {}
  BY <1>2, FS_EmptySet
<1> QED
  BY <1>2, <1>3, <1>4

\* The first select of a list of receivers is taken from it.
LEMMA SelectTaken ==
  ASSUME Typed, Receiving, Counted, NEW c \in Channels, NEW r \in Fibers,
         receivers[c] # <<>>, r = Head(receivers[c]), pc[r] = "select",
         op[r] = "RUNNING", receivers' = [receivers EXCEPT ![c] = Tail(@)],
         pending' = [pending EXCEPT ![r] = @ - 1]
  PROVE  /\ pending[r] \in Nat /\ pending[r] >= 1
         /\ pending' \in [Fibers -> 0..Cardinality(Channels)]
         /\ Listens(r)' = Listens(r) \ {c} /\ c \in Listens(r)
         /\ Cardinality(Listens(r)') = pending'[r]
         /\ \A h \in Fibers \ {r} : Listens(h)' = Listens(h) /\ pending'[h] = pending[h]
<1>1. /\ receivers \in [Channels -> Seq(Fibers)] /\ IsInjective(receivers[c])
  BY DEF Typed, ChannelTypes, Receiving
<1>2. /\ Range(receivers[c]) = Range(Tail(receivers[c])) \cup {r}
      /\ r \notin Range(Tail(receivers[c]))
  BY <1>1, TailList
<1>3. c \in Listens(r)
  BY <1>2 DEF Listens
<1>4. Listens(r)' = Listens(r) \ {c}
  BY <1>1, <1>2 DEF Listens
<1>5. \A h \in Fibers \ {r} : Listens(h)' = Listens(h)
  BY <1>1, <1>2 DEF Listens
<1>6. pending[r] = Cardinality(Listens(r)) /\ pending \in [Fibers -> 0..Cardinality(Channels)]
  BY DEF Counted
<1>7. /\ IsFiniteSet(Listens(r)) /\ Cardinality(Listens(r)) \in Nat
      /\ Cardinality(Listens(r)) >= 1 /\ Cardinality(Channels) \in Nat
  BY <1>3, ListensFinite
<1>8. Cardinality(Listens(r) \ {c}) = Cardinality(Listens(r)) - 1
  BY <1>3, <1>7, FS_RemoveElement
<1>9. pending[r] - 1 \in 0..Cardinality(Channels)
  BY <1>6, <1>7
<1> QED
  BY <1>3, <1>4, <1>5, <1>6, <1>7, <1>8, <1>9

\* Every step keeps the count of a select that waits.
LEMMA StepCounted ==
  ASSUME Typed, GroupOrderly, Counted, [GroupNext]_allVars
  PROVE  Counted'
<1> USE DEF GroupOrderly
<1>1. /\ pc \in [Fibers \cup {Runner} -> Places] /\ op \in [Fibers -> OpStatus]
      /\ receivers \in [Channels -> Seq(Fibers)] /\ check \subseteq Fibers
      /\ pending \in [Fibers -> 0..Cardinality(Channels)]
  BY DEF Typed, Counting, FiberLists, ChannelTypes, Counted
<1>2. ASSUME [Next]_vars, UNCHANGED <<pending, check>> PROVE Counted'
  BY <1>1, <1>2, StepListens, KeepCounted
<1>3. ASSUME NEW f \in Fibers, OnlyRegroups(f) PROVE Counted'
  BY <1>1, <1>3, KeepCounted DEF OnlyRegroups, chanVars
<1>4. ASSUME NEW f \in Fibers, ShuffleEmpty(f) PROVE Counted'
  BY <1>1, <1>4, KeepCounted DEF ShuffleEmpty, chanVars, groupVars
<1>5. ASSUME NEW f \in Fibers, timeout_select(f) \/ timeout_send_cb(f)
      PROVE  Counted'
  BY <1>1, <1>5, KeepCounted
     DEF timeout_select, timeout_send_cb, chanVars, groupVars, reschedule_task
<1>6. ASSUME NEW f \in Fibers, NEW timed \in BOOLEAN, GroupSendBlocks(f, timed)
      PROVE  Counted'
  <2>1. /\ UNCHANGED <<pending, check, receivers>>
        /\ pc' = [pc EXCEPT ![f] = "gsend"] /\ op' = [op EXCEPT ![f] = "RUNNING"]
    BY <1>6 DEF GroupSendBlocks, AwaitOp, AwaitSuspend
  <2> QED
    BY <1>1, <2>1, KeepCounted
<1>7. ASSUME NEW f \in Fibers, GroupSendReturns(f) PROVE Counted'
  <2>1. /\ UNCHANGED <<pending, check, receivers>>
        /\ pc' = [pc EXCEPT ![f] = "run"] /\ op' = [op EXCEPT ![f] = "PENDING"]
    BY <1>7 DEF GroupSendReturns, AwaitDone, AwaitResume
  <2> QED
    BY <1>1, <2>1, KeepCounted
<1>8. ASSUME NEW f \in Fibers, SelectReturns(f) PROVE Counted'
  <2>1. /\ UNCHANGED pending /\ check' \subseteq Fibers
        /\ receivers' = [c \in Channels |-> ASYNC_LIST_REMOVE(receivers[c], f)]
        /\ pc' = [pc EXCEPT ![f] = "run"] /\ op' = [op EXCEPT ![f] = "PENDING"]
    BY <1>1, <1>8 DEF SelectReturns, AwaitDone, AwaitResume
  <2>2. \A c \in Channels : Range(receivers'[c]) = Range(receivers[c]) \ {f}
    BY <1>1, <2>1, RemoveList DEF Receiving
  <2>3. \A h \in Fibers : pc'[h] = "select" => h # f
    BY <1>1, <2>1
  <2> QED
    BY <1>1, <2>1, <2>2, <2>3, KeepCounted
<1>9. ASSUME NEW f \in Fibers, SelectBlocks(f) PROVE Counted'
  <2>1. PICK a \in Seq(Channels) :
          /\ a # <<>> /\ IsInjective(a)
          /\ pending' = [pending EXCEPT ![f] = Len(a)]
          /\ receivers' = [c \in Channels |->
               IF c \in Range(a) THEN Append(receivers[c], f) ELSE receivers[c]]
    BY <1>9, SelectListed
  <2>2. /\ pc[f] = "run" /\ UNCHANGED check
        /\ pc' = [pc EXCEPT ![f] = "select"] /\ op' = [op EXCEPT ![f] = "RUNNING"]
    BY <1>9 DEF SelectBlocks, MayScan, MayCall, AwaitOp, AwaitSuspend
  <2>3. Range(a) \subseteq Channels /\ Range(a) # {}
    BY <2>1, InList
  <2>4. ASSUME NEW c \in Channels
        PROVE  Range(receivers'[c]) = IF c \in Range(a) THEN Range(receivers[c]) \cup {f}
                                      ELSE Range(receivers[c])
    <3>1. Range(Append(receivers[c], f)) = Range(receivers[c]) \cup {f}
      BY <1>1, AppendList
    <3> QED
      BY <2>1, <3>1
  <2>5. \A c \in Channels : f \notin Range(receivers[c])
    BY <2>2 DEF Receiving
  <2>6. Listens(f)' = Range(a)
    BY <2>3, <2>4, <2>5 DEF Listens
  <2>7. \A h \in Fibers \ {f} : Listens(h)' = Listens(h)
    BY <2>4 DEF Listens
  <2>8. Cardinality(Range(a)) = Len(a) /\ Len(a) \in 0..Cardinality(Channels)
    <3>1. IsFiniteSet(Range(a)) /\ Cardinality(Range(a)) = Len(a)
      BY <2>1, ListCardinality
    <3>2. Cardinality(Range(a)) <= Cardinality(Channels)
      BY <2>3, GroupAssumption, FS_Subset
    <3>3. Cardinality(Range(a)) \in Nat /\ Cardinality(Channels) \in Nat
      BY <3>1, GroupAssumption, FS_CardinalityType
    <3> QED
      BY <3>1, <3>2, <3>3
  <2>9. pending' \in [Fibers -> 0..Cardinality(Channels)]
    BY <1>1, <2>1, <2>8
  <2>10. ASSUME NEW h \in Fibers, pc'[h] = "select", op'[h] = "RUNNING"
         PROVE  pending'[h] = Cardinality(Listens(h)') /\ Listens(h)' # {}
    <3>1. CASE h = f
      BY <1>1, <2>1, <2>3, <2>6, <2>8, <3>1
    <3>2. CASE h # f
      <4>1. pc[h] = "select" /\ op[h] = "RUNNING" /\ pending'[h] = pending[h]
        BY <1>1, <2>1, <2>2, <2>10, <3>2
      <4> QED
        BY <2>7, <3>2, <4>1 DEF Counted
    <3> QED
      BY <3>1, <3>2
  <2> QED
    BY <1>1, <2>2, <2>9, <2>10 DEF Counted
<1>10. ASSUME NEW f \in Fibers, NEW c \in Channels, SendToSelector(f, c)
       PROVE  Counted'
  <2>1. PICK r \in Fibers : HandsOver(f, c, r)
    BY <1>10, SelectorHandsOver
  <2>2. /\ receivers[c] # <<>> /\ r = Head(receivers[c])
        /\ pc[r] = "select" /\ op[r] = "RUNNING" /\ UNCHANGED <<pc, check>>
        /\ receivers' = [receivers EXCEPT ![c] = Tail(@)]
        /\ pending' = [pending EXCEPT ![r] = @ - 1]
        /\ op' = [op EXCEPT ![r] = "RESOLVED"]
    BY <2>1 DEF HandsOver
  <2>3. /\ pending' \in [Fibers -> 0..Cardinality(Channels)]
        /\ \A h \in Fibers \ {r} : Listens(h)' = Listens(h) /\ pending'[h] = pending[h]
    BY <2>2, SelectTaken
  <2>4. ASSUME NEW h \in Fibers, pc'[h] = "select", op'[h] = "RUNNING"
        PROVE  pending'[h] = Cardinality(Listens(h)') /\ Listens(h)' # {}
    <3>1. h # r /\ pc[h] = "select" /\ op[h] = "RUNNING"
      BY <1>1, <2>2, <2>4
    <3> QED
      BY <2>3, <3>1 DEF Counted
  <2> QED
    BY <1>1, <2>2, <2>3, <2>4 DEF Counted
<1>11. CASE DisposeSelector
  <2>1. PICK c \in Channels, r \in Fibers : CountsOff(c, r)
    BY <1>11, SelectorCountsOff
  <2>2. /\ receivers[c] # <<>> /\ r = Head(receivers[c])
        /\ pc[r] = "select" /\ op[r] = "RUNNING" /\ UNCHANGED pc
        /\ check' = check \cup {r}
        /\ receivers' = [receivers EXCEPT ![c] = Tail(@)]
        /\ pending' = [pending EXCEPT ![r] = @ - 1]
        /\ \/ \E o \in {"FAILED", "RESOLVED"} : op' = [op EXCEPT ![r] = o]
           \/ pending[r] # 1 /\ UNCHANGED op
    BY <2>1 DEF CountsOff
  <2>3. /\ pending' \in [Fibers -> 0..Cardinality(Channels)]
        /\ pending[r] \in Nat /\ pending[r] >= 1
        /\ Cardinality(Listens(r)') = pending'[r]
        /\ \A h \in Fibers \ {r} : Listens(h)' = Listens(h) /\ pending'[h] = pending[h]
    BY <2>2, SelectTaken
  <2>4. ASSUME NEW h \in Fibers, pc'[h] = "select", op'[h] = "RUNNING"
        PROVE  pending'[h] = Cardinality(Listens(h)') /\ Listens(h)' # {}
    <3>1. CASE h = r
      <4>1. pending[r] # 1 /\ pending'[r] = pending[r] - 1
        BY <1>1, <2>2, <2>4, <3>1
      <4>2. pending'[r] # 0
        BY <2>3, <4>1
      <4>3. Listens(r)' # {}
        BY <2>3, <4>2, FS_EmptySet
      <4> QED
        BY <2>3, <3>1, <4>3
    <3>2. CASE h # r
      <4>1. pc[h] = "select" /\ op[h] = "RUNNING"
        BY <1>1, <2>2, <2>4, <3>2
      <4> QED
        BY <2>3, <3>2, <4>1 DEF Counted
    <3> QED
      BY <3>1, <3>2
  <2> QED
    BY <1>1, <2>2, <2>3, <2>4 DEF Counted
<1> QED
  BY <1>2, <1>3, <1>4, <1>5, <1>6, <1>7, <1>8, <1>9, <1>10, <1>11, GroupCases
     DEF GroupMove

-----------------------------------------------------------------------------
(***************************************************************************)
(* The messages of group sends.                                            *)
(***************************************************************************)

\* The messages of group sends are apart from those of sends on one channel,
\* and a listed operation that nobody awaits is none of theirs.
Offering ==
  /\ offered \subseteq Old \cap Messages
  /\ \A f \in Fibers : /\ pc[f] = "send" => value[f] \notin offered
                       /\ pc[f] = "gsend" => value[f] \in offered
  /\ \A c \in Channels : \A m \in Range(senders[c]) : Dead(m) => m \notin offered

\* What a step of a channel does to the operations of the senders.
LEMMA StepValues ==
  ASSUME Typed, Named, Suspended, [Next]_vars
  PROVE  /\ \A f \in Fibers :
              /\ pc'[f] = "gsend" <=> pc[f] = "gsend"
              /\ \/ value'[f] = value[f] /\ (pc'[f] = "send" => pc[f] = "send")
                 \/ pc[f] = "send" /\ pc'[f] = "run" /\ value'[f] = NoMsg
                 \/ pc[f] = "run" /\ pc'[f] = "send" /\ value'[f] \in Messages \ Old
         /\ \A c \in Channels : \A m \in Range(senders'[c]) :
              m \in Range(senders[c]) \/ m \notin Old
<1>1. /\ pc \in [Fibers \cup {Runner} -> Places] /\ op \in [Fibers -> OpStatus]
      /\ value \in [Fibers -> Messages \cup {NoMsg}] /\ Bookkeeping
      /\ senders \in [Channels -> Seq(Messages)]
      /\ on \in [Fibers -> Channels \cup {NoChan}]
  BY DEF Typed, Counting, FiberLists, ChannelTypes
<1> DEFINE Values == \A f \in Fibers :
             /\ pc'[f] = "gsend" <=> pc[f] = "gsend"
             /\ \/ value'[f] = value[f] /\ (pc'[f] = "send" => pc[f] = "send")
                \/ pc[f] = "send" /\ pc'[f] = "run" /\ value'[f] = NoMsg
                \/ pc[f] = "run" /\ pc'[f] = "send" /\ value'[f] \in Messages \ Old
           Fewer == \A c \in Channels : \A m \in Range(senders'[c]) :
             m \in Range(senders[c]) \/ m \notin Old
<1>2. UNCHANGED senders => Fewer
  OBVIOUS
<1>3. ASSUME NEW c \in Channels,
             \/ \E m : senders' = [senders EXCEPT ![c] = ASYNC_LIST_REMOVE(@, m)]
             \/ senders[c] # <<>> /\ senders' = [senders EXCEPT ![c] = Tail(@)]
      PROVE  Fewer
  <2>1. \A m : Range(ASYNC_LIST_REMOVE(senders[c], m)) \subseteq Range(senders[c])
    BY <1>1, RemoveList
  <2>2. senders[c] # <<>> => Range(Tail(senders[c])) \subseteq Range(senders[c])
    BY <1>1, TailList
  <2> QED
    BY <1>1, <1>3, <2>1, <2>2
<1>4. ASSUME NEW f \in Fibers, NEW c \in Channels, Call(f),
             senders' = [senders EXCEPT ![c] = Append(@, Msg(f))]
      PROVE  Fewer
  <2>1. Msg(f) \in Messages /\ Msg(f) \notin Old
    BY <1>1, <1>4, NewMessage
  <2>2. Range(Append(senders[c], Msg(f))) = Range(senders[c]) \cup {Msg(f)}
    BY <1>1, <2>1, AppendList
  <2> QED
    BY <1>1, <1>4, <2>1, <2>2
<1>5. ASSUME UNCHANGED value, NEW g,
             UNCHANGED pc \/ \E l : /\ l \notin {"send", "gsend"}
                                    /\ pc[g] # "gsend" /\ pc' = [pc EXCEPT ![g] = l]
      PROVE  Values
  BY <1>1, <1>5
<1>6. ASSUME NEW f \in Fibers, NEW c \in Channels,
             SendToReceiver(f, c) \/ SendToBuffer(f, c)
      PROVE  Values /\ Fewer
  BY <1>2, <1>6 DEF SendToReceiver, SendToBuffer
<1>7. ASSUME NEW f \in Fibers, NEW c \in Channels, SendRefused(f, c)
      PROVE  Values /\ Fewer
  BY <1>4, <1>7 DEF SendRefused, MaySend
<1>8. ASSUME NEW f \in Fibers, NEW c \in Channels, NEW timed \in BOOLEAN,
             SendBlocks(f, c, timed)
      PROVE  Values /\ Fewer
  <2>1. /\ Call(f) /\ senders' = [senders EXCEPT ![c] = Append(@, Msg(f))]
        /\ pc[f] = "run" /\ pc' = [pc EXCEPT ![f] = "send"]
        /\ value' = [value EXCEPT ![f] = Msg(f)]
    BY <1>8 DEF SendBlocks, MaySend, MayCall, AwaitOp, AwaitSuspend
  <2>2. Msg(f) \in Messages \ Old
    BY <1>1, <2>1, NewMessage
  <2> QED
    BY <1>1, <1>4, <2>1, <2>2
<1>9. ASSUME NEW f \in Fibers, NEW c \in Channels, NextFetches(f, c)
      PROVE  Values /\ Fewer
  <2>1. fetch_noblock(c) /\ UNCHANGED <<pc, value>>
    BY <1>9 DEF NextFetches
  <2> QED
    BY <1>2, <1>3, <2>1 DEF fetch_noblock
<1>10. ASSUME NEW f \in Fibers, NEW c \in Channels, NextBlocks(f, c)
       PROVE  Values /\ Fewer
  <2>1. /\ pc[f] = "run" /\ pc' = [pc EXCEPT ![f] = "recv"]
        /\ UNCHANGED <<value, senders>>
    BY <1>10 DEF NextBlocks, MayCall, AwaitOp, AwaitSuspend
  <2> QED
    BY <1>2, <1>5, <2>1
<1>11. ASSUME NEW f \in Fibers, NEW c \in Channels, NEW err \in BOOLEAN,
              close(f, c, err)
       PROVE  Values /\ Fewer
  <2>1. /\ pc[f] \in {"run", "dispose"} /\ UNCHANGED <<value, senders>>
        /\ \E l \in {"close", "shutdown"} : pc' = [pc EXCEPT ![f] = l]
    BY <1>11 DEF close, MayCall
  <2> QED
    BY <1>2, <1>5, <2>1
<1>12. ASSUME NEW f \in Fibers, NextReturns(f)
       PROVE  Values /\ Fewer
  <2>1. /\ pc[f] = "recv" /\ pc' = [pc EXCEPT ![f] = "run"]
        /\ UNCHANGED <<value, senders>>
    BY <1>12 DEF NextReturns, AwaitDone, AwaitResume
  <2> QED
    BY <1>2, <1>5, <2>1
<1>13. ASSUME NEW f \in Fibers, SendReturns(f)
       PROVE  Values /\ Fewer
  <2>1. /\ pc[f] = "send" /\ pc' = [pc EXCEPT ![f] = "run"]
        /\ value' = [value EXCEPT ![f] = NoMsg]
        /\ \/ UNCHANGED senders
           \/ senders' = [senders EXCEPT ![on[f]] = ASYNC_LIST_REMOVE(@, value[f])]
    BY <1>13 DEF SendReturns, AwaitDone, AwaitResume
  <2>2. on[f] \in Channels
    BY <2>1 DEF Suspended
  <2>3. Values
    BY <1>1, <2>1
  <2>4. Fewer
    BY <1>2, <1>3, <2>1, <2>2
  <2> QED
    BY <2>3, <2>4
<1>14. ASSUME NEW f \in Fibers, timeout_channel_send_cb(f)
       PROVE  Values /\ Fewer
  <2>1. /\ pc[f] = "send" /\ UNCHANGED <<pc, value>>
        /\ senders' = [senders EXCEPT ![on[f]] = ASYNC_LIST_REMOVE(@, value[f])]
    BY <1>14 DEF timeout_channel_send_cb
  <2>2. on[f] \in Channels
    BY <2>1 DEF Suspended
  <2> QED
    BY <1>3, <2>1, <2>2
<1>15. ASSUME NEW c \in Channels, dispose_channel_send_timer_cb(c)
       PROVE  Values /\ Fewer
  BY <1>3, <1>15 DEF dispose_channel_send_timer_cb, schedVars
<1>16. CASE DisposeReceiver
  BY <1>2, <1>16 DEF DisposeReceiver
<1>17. CASE DisposeSender
  <2>1. on[cur] \in Channels
    BY <1>17 DEF DisposeSender, Closing, Typed, Closers
  <2> QED
    BY <1>3, <1>17, <2>1 DEF DisposeSender
<1>18. CASE DisposeEnds
  <2>1. /\ pc[cur] \in {"close", "shutdown"} /\ UNCHANGED <<value, senders>>
        /\ \E l \in {"run", "dispose"} : pc' = [pc EXCEPT ![cur] = l]
    BY <1>18 DEF DisposeEnds, Closing
  <2> QED
    BY <1>2, <1>5, <2>1
<1>19. CASE SchedStep /\ UNCHANGED chanVars
  <2>1. UNCHANGED <<value, senders>>
    BY <1>19 DEF chanVars
  <2> QED
    BY <1>2, <1>19, <2>1, SchedulerMoves DEF Blocking
<1>20. CASE UNCHANGED vars
  BY <1>2, <1>20 DEF vars
<1> QED
  BY <1>6, <1>7, <1>8, <1>9, <1>10, <1>11, <1>12, <1>13, <1>14, <1>15, <1>16,
     <1>17, <1>18, <1>19, <1>20
     DEF Next, ChannelStep

\* A step that begins and ends no send keeps Offering.
LEMMA KeepOffering ==
  ASSUME Typed, Offering, UNCHANGED calls \/ \E f \in Fibers : Call(f),
         UNCHANGED <<offered, value, senders>>,
         \A f \in Fibers : \A l \in {"send", "gsend"} : pc'[f] = l => pc[f] = l
  PROVE  Offering'
<1>1. Old \subseteq Old'
  BY OldGrows DEF Typed
<1> QED
  BY <1>1 DEF Offering, Dead

\* Every step keeps Offering.
LEMMA StepOffering ==
  ASSUME Typed, GroupOrderly, Offering, [GroupNext]_allVars
  PROVE  Offering'
<1> USE DEF GroupOrderly
<1>1. /\ pc \in [Fibers \cup {Runner} -> Places] /\ op \in [Fibers -> OpStatus]
      /\ value \in [Fibers -> Messages \cup {NoMsg}] /\ Bookkeeping
      /\ senders \in [Channels -> Seq(Messages)]
  BY DEF Typed, Counting, FiberLists, ChannelTypes
<1>2. ASSUME [Next]_vars, UNCHANGED offered PROVE Offering'
  <2>1. Old \subseteq Old'
    BY <1>1, <1>2, StepCalls, OldGrows
  <2>2. \A f \in Fibers :
          /\ pc'[f] = "gsend" <=> pc[f] = "gsend"
          /\ \/ value'[f] = value[f] /\ (pc'[f] = "send" => pc[f] = "send")
             \/ pc[f] = "send" /\ pc'[f] = "run" /\ value'[f] = NoMsg
             \/ pc[f] = "run" /\ pc'[f] = "send" /\ value'[f] \in Messages \ Old
    BY <1>2, StepValues
  <2>3. ASSUME NEW f \in Fibers
        PROVE  /\ pc'[f] = "send" => value'[f] \notin offered
               /\ pc'[f] = "gsend" => value'[f] \in offered
    BY <2>2 DEF Offering
  <2>4. ASSUME NEW c \in Channels, NEW m \in Range(senders'[c]),
               value'[Owner(m)] # m
        PROVE  m \notin offered
    <3>1. m \in Range(senders[c]) \/ m \notin Old
      BY <1>2, StepValues
    <3>2. CASE m \notin Old
      BY <3>2 DEF Offering
    <3>3. CASE m \in Range(senders[c])
      <4>1. m \in Messages
        BY <1>1, <3>3, InList
      <4>2. Owner(m) \in Fibers /\ m # NoMsg
        BY <4>1, MessageNamed
      <4>3. CASE value[Owner(m)] # m
        BY <3>3, <4>3 DEF Offering, Dead
      <4>4. CASE value[Owner(m)] = m
        <5>1. pc[Owner(m)] = "send"
          BY <2>2, <2>4, <4>2, <4>4 DEF Sending
        <5> QED
          BY <4>2, <4>4, <5>1 DEF Offering
      <4> QED
        BY <4>3, <4>4
    <3> QED
      BY <3>1, <3>2, <3>3
  <2> QED
    BY <1>2, <2>1, <2>3, <2>4 DEF Offering, Dead
<1>3. ASSUME NEW f \in Fibers, OnlyRegroups(f) PROVE Offering'
  BY <1>1, <1>3, KeepOffering DEF OnlyRegroups, chanVars
<1>4. ASSUME NEW f \in Fibers, ShuffleEmpty(f) PROVE Offering'
  <2>1. /\ UNCHANGED <<offered, value, senders>> /\ Call(f)
        /\ pc' = [pc EXCEPT ![f] = "wild"]
    BY <1>4 DEF ShuffleEmpty, chanVars, groupVars
  <2>2. \A h \in Fibers : \A l \in {"send", "gsend"} : pc'[h] = l => pc[h] = l
    BY <1>1, <2>1
  <2> QED
    BY <2>1, <2>2, KeepOffering
<1>5. ASSUME NEW f \in Fibers, timeout_select(f) \/ timeout_send_cb(f)
      PROVE  Offering'
  BY <1>5, KeepOffering
     DEF timeout_select, timeout_send_cb, chanVars, groupVars
<1>6. ASSUME NEW f \in Fibers, SelectBlocks(f) PROVE Offering'
  <2>1. /\ UNCHANGED <<offered, value, senders>> /\ Call(f)
        /\ pc' = [pc EXCEPT ![f] = "select"]
    BY <1>6 DEF SelectBlocks, MayScan, AwaitOp, AwaitSuspend
  <2>2. \A h \in Fibers : \A l \in {"send", "gsend"} : pc'[h] = l => pc[h] = l
    BY <1>1, <2>1
  <2> QED
    BY <2>1, <2>2, KeepOffering
<1>7. ASSUME NEW f \in Fibers, SelectReturns(f) PROVE Offering'
  <2>1. /\ UNCHANGED <<offered, value, senders, calls>>
        /\ pc' = [pc EXCEPT ![f] = "run"]
    BY <1>7 DEF SelectReturns, AwaitDone, AwaitResume
  <2>2. \A h \in Fibers : \A l \in {"send", "gsend"} : pc'[h] = l => pc[h] = l
    BY <1>1, <2>1
  <2> QED
    BY <2>1, <2>2, KeepOffering
<1>8. ASSUME NEW f \in Fibers, NEW timed \in BOOLEAN, GroupSendBlocks(f, timed)
      PROVE  Offering'
  <2>1. PICK n : n = Msg(f)
    OBVIOUS
  <2>2. /\ MayCall(f) /\ Call(f) /\ pc' = [pc EXCEPT ![f] = "gsend"]
        /\ value' = [value EXCEPT ![f] = n] /\ offered' = offered \cup {n}
        /\ \A c \in Channels :
             senders'[c] = IF c \in Range(group[f]) THEN Append(senders[c], n)
                           ELSE senders[c]
    BY <1>8, <2>1, GroupSendListed DEF GroupListed
  <2>3. n \in Messages /\ n # NoMsg /\ Owner(n) = f /\ n \notin Old /\ n \in Old'
    BY <1>1, <2>1, <2>2, NewMessage
  <2>4. Old \subseteq Old'
    BY <1>1, <2>2, OldGrows
  <2>5. pc[f] = "run" /\ value[f] = NoMsg
    BY <2>2 DEF MayCall, Sending
  <2>6. ASSUME NEW h \in Fibers
        PROVE  /\ pc'[h] = "send" => value'[h] \notin offered'
               /\ pc'[h] = "gsend" => value'[h] \in offered'
    <3>1. CASE h = f
      BY <1>1, <2>2, <3>1
    <3>2. CASE h # f
      <4>1. pc'[h] = pc[h] /\ value'[h] = value[h]
        BY <1>1, <2>2, <3>2
      <4>2. value[h] # n
        BY <2>3, <3>2 DEF Sending
      <4> QED
        BY <2>2, <4>1, <4>2 DEF Offering
    <3> QED
      BY <3>1, <3>2
  <2>7. ASSUME NEW c \in Channels, NEW m \in Range(senders'[c]),
               value'[Owner(m)] # m
        PROVE  m \notin offered'
    <3>1. Range(Append(senders[c], n)) = Range(senders[c]) \cup {n}
      BY <1>1, <2>3, AppendList
    <3>2. m = n \/ m \in Range(senders[c])
      BY <2>2, <3>1
    <3>3. m # n
      BY <1>1, <2>2, <2>3, <2>7
    <3>4. m \in Messages
      BY <1>1, <3>2, <3>3, InList
    <3>5. value[Owner(m)] # m
      BY <1>1, <2>2, <2>5, <2>7, <3>3, <3>4, MessageNamed
    <3> QED
      BY <2>2, <3>2, <3>3, <3>5 DEF Offering, Dead
  <2> QED
    BY <2>2, <2>3, <2>4, <2>6, <2>7 DEF Offering, Dead
<1>9. ASSUME NEW f \in Fibers, GroupSendReturns(f) PROVE Offering'
  <2>1. /\ value' = [value EXCEPT ![f] = NoMsg] /\ UNCHANGED <<calls, offered>>
        /\ pc' = [pc EXCEPT ![f] = "run"]
        /\ \A c \in Channels : Range(senders'[c]) = Range(senders[c]) \ {value[f]}
    BY <1>9, GroupSendReturnsOrderly DEF GroupUnlisted
  <2>2. ASSUME NEW c \in Channels, NEW m \in Range(senders'[c]),
               value'[Owner(m)] # m
        PROVE  m \notin offered
    <3>1. m \in Range(senders[c]) /\ m # value[f]
      BY <2>1
    <3>2. m \in Messages
      BY <1>1, <3>1, InList
    <3>3. value[Owner(m)] # m
      BY <1>1, <2>1, <2>2, <3>1, <3>2, MessageNamed
    <3> QED
      BY <3>1, <3>3 DEF Offering, Dead
  <2>3. ASSUME NEW h \in Fibers
        PROVE  /\ pc'[h] = "send" => value'[h] \notin offered
               /\ pc'[h] = "gsend" => value'[h] \in offered
    BY <1>1, <2>1 DEF Offering
  <2>4. Old' = Old
    BY <2>1 DEF Old
  <2> QED
    BY <2>1, <2>2, <2>3, <2>4 DEF Offering, Dead
<1>10. ASSUME NEW f \in Fibers, NEW c \in Channels, SendToSelector(f, c)
       PROVE  Offering'
  BY <1>10, KeepOffering DEF SendToSelector, MaySend
<1>11. CASE DisposeSelector
  BY <1>11, KeepOffering DEF DisposeSelector
<1> QED
  BY <1>2, <1>3, <1>4, <1>5, <1>6, <1>7, <1>8, <1>9, <1>10, <1>11, GroupCases
     DEF GroupMove

-----------------------------------------------------------------------------
(***************************************************************************)
(* What holds of the groups.                                               *)
(***************************************************************************)

\* The invariant.
GroupInv ==
  TypeOK /\ BusyExact /\ GroupOrderly /\ Counted /\ Offering

\* The initial states satisfy GroupInv.
LEMMA InitGroupInv == GroupInit => GroupInv
<1> SUFFICES ASSUME GroupInit PROVE GroupInv
  OBVIOUS
<1>1. /\ Init /\ group = Entries /\ pending = [f \in Fibers |-> 0]
      /\ check = {} /\ offered = {}
  BY DEF GroupInit
<1>2. TypeOK /\ BusyExact /\ Orderly
  BY <1>1, InitTyped, InitOrderly
<1>3. /\ senders = [c \in Channels |-> <<>>]
      /\ pc = [f \in Fibers \cup {Runner} |-> "run"]
  BY <1>1 DEF Init, SchedInit
<1>4. Full /\ Unique
  BY <1>3, EmptyList DEF Full, Unique
<1>5. GroupLists
  BY <1>1, GroupAssumption DEF GroupLists
<1>6. Counted
  <2>1. Cardinality(Channels) \in Nat
    BY GroupAssumption, FS_CardinalityType
  <2> QED
    BY <1>1, <1>3, <2>1 DEF Counted
<1>7. Offering
  BY <1>1, <1>3, EmptyList DEF Offering
<1> QED
  BY <1>2, <1>4, <1>5, <1>6, <1>7 DEF GroupInv, GroupOrderly, Orderly

\* Every step keeps GroupInv.
LEMMA StepGroupInv == GroupInv /\ [GroupNext]_allVars => GroupInv'
<1> SUFFICES ASSUME GroupInv, [GroupNext]_allVars PROVE GroupInv'
  OBVIOUS
<1>1. Typed
  BY Regroup DEF GroupInv
<1>2. Typed' /\ GroupOrderly'
  BY <1>1, StepGroupOrderly DEF GroupInv
<1>3. Counted' /\ Offering'
  BY <1>1, StepCounted, StepOffering DEF GroupInv
<1> QED
  BY <1>2, <1>3, Regroup DEF GroupInv

\* Types, for any tasks, channels, capacities, groups and bounds on the number
\* of calls: with select and send on groups, the positions and lengths of the
\* ring buffers stay in range, and so does the count of a select.
THEOREM GroupTypeCorrect == GroupSpec => []GroupTypeOK
<1>1. GroupInv => GroupTypeOK
  BY DEF GroupInv, GroupTypeOK, GroupOrderly, GroupLists, Counted, Offering
<1> QED
  BY <1>1, InitGroupInv, StepGroupInv, PTL DEF GroupSpec

\* scheduler->busy_count is exactly the number of foreground fibers inside a
\* blocking call of a channel or a group.
THEOREM GroupBusyExact == GroupSpec => []BusyExact
<1>1. GroupInv => BusyExact
  BY DEF GroupInv
<1> QED
  BY <1>1, InitGroupInv, StepGroupInv, PTL DEF GroupSpec

\* Whoever is listed on a channel waits in the library for it: every return
\* from a select or a group send unlinks the entries on all the other
\* channels, whichever channel, timer or cancellation ended the call.
THEOREM GhostFree == GroupSpec => []NoGhostEntry
<1>1. GroupInv => NoGhostEntry
  <2> SUFFICES ASSUME GroupInv, NEW f \in Fibers, NEW c \in Channels
               PROVE  /\ f \in Range(receivers[c]) =>
                           /\ pc[f] \in {"recv", "select"}
                           /\ op[f] = "RUNNING" \/ f = cur
                      /\ \A m \in Range(senders[c]) : Owner(m) = f =>
                           \/ m \in dropped /\ m \notin offered
                           \/ /\ pc[f] \in {"send", "gsend"}
                              /\ op[f] = "RUNNING" \/ f = cur
    BY DEF NoGhostEntry
  <2>1. pc[f] \in Blocking => op[f] = "RUNNING" \/ f = cur
    BY DEF GroupInv, GroupOrderly, Suspended
  <2>2. f \in Range(receivers[c]) => pc[f] \in {"recv", "select"}
    BY DEF GroupInv, GroupOrderly, Receiving
  <2>3. ASSUME NEW m \in Range(senders[c]), Owner(m) = f
        PROVE  (m \in dropped /\ m \notin offered) \/ pc[f] \in {"send", "gsend"}
    <3>1. CASE value[f] # m
      BY <2>3, <3>1 DEF GroupInv, GroupOrderly, Sending, Offering, Dead
    <3>2. CASE value[f] = m
      <4>1. m \in Messages
        BY InList, Regroup DEF GroupInv, Typed, ChannelTypes
      <4>2. m # NoMsg
        BY <4>1, MessageNamed
      <4> QED
        BY <3>2, <4>2 DEF GroupInv, GroupOrderly, Sending
    <3> QED
      BY <3>1, <3>2
  <2> QED
    BY <2>1, <2>2, <2>3 DEF Blocking
<1> QED
  BY <1>1, InitGroupInv, StepGroupInv, PTL DEF GroupSpec

\* group->select.pending is exactly the number of channels that still list a
\* blocked select, and there is one: a select never waits for channels that
\* are all closed, however many channels are closed, fire or are cancelled in
\* between.
THEOREM SelectEnds == GroupSpec => []SelectCanEnd
<1>1. GroupInv => SelectCanEnd
  BY DEF GroupInv, Counted, Listens, SelectCanEnd
<1> QED
  BY <1>1, InitGroupInv, StepGroupInv, PTL DEF GroupSpec

-----------------------------------------------------------------------------
(***************************************************************************)
(* The messages the channels hold or have delivered.                       *)
(***************************************************************************)

\* What a channel has delivered, hands over or buffers.
Items(c) == Range(got[c]) \cup Range(Handed(c)) \cup Range(Buffered(c))
Stock    == UNION {Items(c) : c \in Channels}

\* A channel has each of them in one place.
Distinct(c) ==
  /\ IsInjective(got[c]) /\ IsInjective(Handed(c)) /\ IsInjective(Buffered(c))
  /\ Range(got[c]) \cap Range(Buffered(c)) = {}
  /\ Range(Handed(c)) \cap (Range(got[c]) \cup Range(Buffered(c))) = {}

\* So have all channels together.
Holding ==
  /\ \A c \in Channels : Distinct(c)
  /\ \A c, d \in Channels : c # d => Items(c) \cap Items(d) = {}

\* A step that moves messages at most within a channel.
Stays == \A c \in Channels : Items(c)' = Items(c) /\ Distinct(c)'

\* A step that brings one message to a channel.
Gains(c, m) ==
  /\ \A d \in Channels : Distinct(d)'
  /\ Items(c)' = Items(c) \cup {m}
  /\ \A d \in Channels \ {c} : Items(d)' = Items(d)

\* Channels that keep what they have keep the stock.
LEMMA StayHolding == Holding /\ Stays => Holding' /\ Stock' = Stock
  BY DEF Holding, Stays, Stock

\* A new message that one channel gains makes the stock larger by it.
LEMMA GainHolding ==
  ASSUME Holding, NEW c \in Channels, NEW m, m \notin Stock, Gains(c, m)
  PROVE  Holding' /\ Stock' = Stock \cup {m}
<1>1. \A d \in Channels : m \notin Items(d)
  BY DEF Stock
<1>2. ASSUME NEW a \in Channels, NEW b \in Channels, a # b
      PROVE  Items(a)' \cap Items(b)' = {}
  <2>1. Items(a) \cap Items(b) = {}
    BY <1>2 DEF Holding
  <2>2. CASE a = c
    BY <1>1, <1>2, <2>1, <2>2 DEF Gains
  <2>3. CASE b = c
    BY <1>1, <1>2, <2>1, <2>3 DEF Gains
  <2>4. CASE a # c /\ b # c
    BY <2>1, <2>4 DEF Gains
  <2> QED
    BY <2>2, <2>3, <2>4
<1>3. Holding'
  BY <1>2 DEF Holding, Gains
<1>4. Stock' = Stock \cup {m}
  BY DEF Stock, Gains
<1> QED
  BY <1>3, <1>4

\* All of them were sent.
LEMMA StockOld == QueueListed => Stock \subseteq Old
<1> SUFFICES ASSUME QueueListed, NEW c \in Channels PROVE Items(c) \subseteq Old
  BY DEF Stock
<1>1. got[c] \in Seq(Old) /\ Handed(c) \in Seq(Old) /\ Buffered(c) \in Seq(Old)
  BY DEF QueueListed
<1> QED
  BY <1>1, InList DEF Items

\* Nobody holds a message that was handed over when the current fiber is not
\* inside a receive.
LEMMA NoneHanded ==
  ASSUME Receiving, pc[cur] \notin {"recv", "select"}
  PROVE  /\ \A f \in Fibers : result[f] = NoMsg
         /\ \A c \in Channels : Handed(c) = <<>>
         /\ UNCHANGED result => \A c \in Channels : Handed(c)' = <<>>
<1>1. \A f \in Fibers : result[f] = NoMsg
  BY DEF Receiving
<1> QED
  BY <1>1 DEF Handed

\* A step that neither delivers, hands over nor buffers.
LEMMA QuietStays ==
  ASSUME Holding, Receiving, pc[cur] \notin {"recv", "select"},
         UNCHANGED <<result, buffer, got>>
  PROVE  Stays
<1>1. \A c \in Channels : Handed(c)' = Handed(c) /\ Buffered(c)' = Buffered(c)
  BY NoneHanded, SameBuffered
<1> QED
  BY <1>1 DEF Holding, Stays, Distinct, Items

\* The return of the receiver delivers what was handed over.
LEMMA ReturnStays ==
  ASSUME Holding, QueueListed, NEW f \in Fibers, cur = f, UNCHANGED <<cur, buffer>>,
         pc[f] \in {"recv", "select"}, pc'[f] = "run",
         IF result[f] = NoMsg THEN UNCHANGED got
         ELSE /\ on[f] \in Channels
              /\ got' = [got EXCEPT ![on[f]] = Append(@, result[f])],
         DOMAIN got = Channels
  PROVE  Stays
<1>1. \A c \in Channels : Handed(c)' = <<>> /\ Buffered(c)' = Buffered(c)
  BY SameBuffered DEF Handed
<1>2. CASE result[f] = NoMsg
  <2>1. \A c \in Channels : Handed(c) = <<>>
    BY <1>2 DEF Handed
  <2> QED
    BY <1>1, <1>2, <2>1 DEF Holding, Stays, Distinct, Items
<1>3. CASE result[f] # NoMsg
  <2>1. PICK c, x, g : c = on[f] /\ x = result[f] /\ g = got[c]
    OBVIOUS
  <2>2. /\ c \in Channels /\ got'[c] = Append(g, x)
        /\ \A d \in Channels \ {c} : got'[d] = got[d]
    BY <1>3, <2>1
  <2>3. Handed(c) = <<x>> /\ \A d \in Channels \ {c} : Handed(d) = <<>>
    BY <1>3, <2>1 DEF Handed
  <2>4. g \in Seq(Old) /\ <<x>> \in Seq(Old)
    BY <2>1, <2>2, <2>3 DEF QueueListed
  <2>5. x \in Old /\ Range(<<x>>) = {x}
    <3>1. Len(<<x>>) = 1 /\ <<x>>[1] = x
      OBVIOUS
    <3>2. x \in Old
      BY <2>4, <3>1, InList
    <3>3. Range(<<x>>) = {<<x>>[i] : i \in 1..1}
      BY <3>1 DEF Range
    <3> QED
      BY <3>1, <3>2, <3>3
  <2>6. x \notin Range(g) /\ x \notin Range(Buffered(c)) /\ Distinct(c)
    BY <2>1, <2>2, <2>3, <2>5 DEF Holding, Distinct
  <2>7. /\ Range(Append(g, x)) = Range(g) \cup {x}
        /\ IsInjective(g) => IsInjective(Append(g, x))
    BY <2>4, <2>5, <2>6, AppendList
  <2>8. Range(<<>>) = {} /\ IsInjective(<<>>)
    BY EmptyList
  <2>9. Items(c)' = Items(c)
    BY <1>1, <2>1, <2>2, <2>3, <2>5, <2>7, <2>8 DEF Items
  <2>10. Distinct(c)'
    BY <1>1, <2>1, <2>2, <2>6, <2>7, <2>8 DEF Distinct
  <2>11. ASSUME NEW d \in Channels \ {c} PROVE Items(d)' = Items(d) /\ Distinct(d)'
    BY <1>1, <2>2, <2>3, <2>11 DEF Items, Distinct, Holding
  <2> QED
    BY <2>9, <2>10, <2>11 DEF Stays
<1> QED
  BY <1>2, <1>3

\* A send gives its message to a receiver.
LEMMA HandGains ==
  ASSUME Holding, Receiving, pc[cur] \notin {"recv", "select"},
         UNCHANGED <<buffer, got>>, NEW c \in Channels, NEW r \in Fibers, NEW m,
         m # NoMsg, m \notin Stock, cur' = r, on'[r] = c,
         pc'[r] \in {"recv", "select"}, result' = [result EXCEPT ![r] = m],
         DOMAIN result = Fibers
  PROVE  Gains(c, m)
<1>1. \A d \in Channels : Handed(d) = <<>> /\ Buffered(d)' = Buffered(d)
  BY NoneHanded, SameBuffered
<1>2. Handed(c)' = <<m>> /\ \A d \in Channels \ {c} : Handed(d)' = <<>>
  BY DEF Handed
<1>3. Range(<<m>>) = {m} /\ IsInjective(<<m>>) /\ Range(<<>>) = {}
  <2>1. <<>> \in Seq({m}) /\ m \in {m} /\ <<m>> = Append(<<>>, m)
    OBVIOUS
  <2>2. /\ Range(Append(<<>>, m)) = Range(<<>>) \cup {m}
        /\ IsInjective(<<>>) /\ m \notin Range(<<>>) => IsInjective(Append(<<>>, m))
    BY <2>1, AppendList
  <2> QED
    BY <2>1, <2>2, EmptyList
<1>4. m \notin Items(c)
  BY DEF Stock
<1>5. Items(c)' = Items(c) \cup {m}
  BY <1>1, <1>2, <1>3 DEF Items
<1>6. Distinct(c)'
  BY <1>1, <1>2, <1>3, <1>4 DEF Distinct, Items, Holding
<1>7. ASSUME NEW d \in Channels \ {c} PROVE Items(d)' = Items(d) /\ Distinct(d)'
  BY <1>1, <1>2, <1>7 DEF Items, Distinct, Holding
<1> QED
  BY <1>5, <1>6, <1>7 DEF Gains

\* Or puts it into the buffer.
LEMMA BufferGains ==
  ASSUME Typed, Named, Rings, Receiving, Holding, QueueListed,
         NEW f \in Fibers, NEW c \in Channels, SendToBuffer(f, c)
  PROVE  Gains(c, Msg(f)) /\ Msg(f) \notin Stock
<1>1. PICK m, b : m = Msg(f) /\ b = Buffered(c)
  OBVIOUS
<1>2. /\ pc[cur] = "run" /\ Call(f) /\ UNCHANGED <<result, got>>
  BY DEF SendToBuffer, MaySend, MayCall
<1>3. m \in Messages /\ m # NoMsg /\ m \notin Old
  BY <1>1, <1>2, NewMessage DEF Typed
<1>4. m \notin Stock
  BY <1>3, StockOld
<1>5. Buffered(c)' = Append(b, m) /\ \A d \in Channels \ {c} : Buffered(d)' = Buffered(d)
  BY <1>1, SendBuffers
<1>6. \A d \in Channels : Handed(d) = <<>> /\ Handed(d)' = <<>>
  BY <1>2, NoneHanded
<1>7. /\ Range(Append(b, m)) = Range(b) \cup {m}
      /\ IsInjective(b) /\ m \notin Range(b) => IsInjective(Append(b, m))
  <2>1. PICK S : S = Old \cup {m}
    OBVIOUS
  <2>2. b \in Seq(Old)
    BY <1>1 DEF QueueListed
  <2>3. b \in Seq(S) /\ m \in S
    BY <2>1, <2>2, WiderList
  <2> QED
    BY <2>3, AppendList
<1>8. m \notin Items(c) /\ Distinct(c) /\ Range(<<>>) = {}
  BY <1>4, EmptyList DEF Stock, Holding
<1>9. Items(c)' = Items(c) \cup {m}
  BY <1>1, <1>2, <1>5, <1>6, <1>7 DEF Items
<1>10. Distinct(c)'
  BY <1>1, <1>2, <1>5, <1>6, <1>7, <1>8 DEF Distinct, Items
<1>11. ASSUME NEW d \in Channels \ {c} PROVE Items(d)' = Items(d) /\ Distinct(d)'
  BY <1>2, <1>5, <1>6, <1>11 DEF Items, Distinct, Holding
<1> QED
  BY <1>1, <1>4, <1>9, <1>10, <1>11 DEF Gains

\* A fetch delivers the first of what is buffered or, when nothing is, the
\* message of the first sender, which otherwise goes into the buffer.
LEMMA FetchGains ==
  ASSUME Typed, Named, Rings, Full, Receiving, Holding, QueueListed,
         NEW f \in Fibers, NEW c \in Channels, NextFetches(f, c),
         senders[c] # <<>> => Head(senders[c]) \notin Stock
  PROVE  IF senders[c] = <<>> THEN Stays ELSE Gains(c, Head(senders[c]))
<1>1. PICK b, e, s, g : b = Buffered(c) /\ e = Buffered(c)' /\ s = senders[c] /\ g = got[c]
  OBVIOUS
<1>2. pc[cur] = "run" /\ UNCHANGED result
  BY DEF NextFetches, MayCall
<1>3. \A d \in Channels : Handed(d) = <<>> /\ Handed(d)' = <<>>
  BY <1>2, NoneHanded
<1>4. /\ b \in Seq(Old) /\ s \in Seq(Old) /\ g \in Seq(Old) /\ got \in [Channels -> Seq(Old)]
  BY <1>1 DEF QueueListed, Named
<1>5. /\ b # <<>> => /\ e = Refilled(b, s)
                     /\ got' = [got EXCEPT ![c] = Append(@, Head(b))]
      /\ b = <<>> => /\ s # <<>> /\ e = b
                     /\ got' = [got EXCEPT ![c] = Append(@, Head(s))]
      /\ \A d \in Channels \ {c} : Buffered(d)' = Buffered(d)
  BY <1>1, FetchLists, Zenon
<1>6. \A d \in Channels \ {c} : got'[d] = got[d]
  BY <1>4, <1>5
<1>7. /\ IsInjective(g) /\ IsInjective(b) /\ Range(g) \cap Range(b) = {}
      /\ Items(c) = Range(g) \cup Range(b) /\ Range(<<>>) = {}
  BY <1>1, <1>3, EmptyList DEF Holding, Distinct, Items
<1>8. s # <<>> => /\ Head(s) \in Old /\ Head(s) \notin Range(g) /\ Head(s) \notin Range(b)
  BY <1>1, <1>4, <1>7, TailList DEF Stock
<1>9. \A d \in Channels \ {c} : Items(d)' = Items(d) /\ Distinct(d)'
  BY <1>3, <1>5, <1>6 DEF Items, Distinct, Holding
<1>10. PICK N : N = IF s = <<>> THEN {} ELSE {Head(s)}
  OBVIOUS
<1>11. /\ IsInjective(got'[c]) /\ IsInjective(e) /\ Range(got'[c]) \cap Range(e) = {}
       /\ Range(got'[c]) \cup Range(e) = Range(g) \cup Range(b) \cup N
  <2>1. CASE b = <<>>
    <3>1. got'[c] = Append(g, Head(s)) /\ e = b /\ s # <<>>
      BY <1>1, <1>4, <1>5, <2>1
    <3>2. PICK x : x = Head(s)
      OBVIOUS
    <3>3. Range(Append(g, x)) = Range(g) \cup {x} /\ IsInjective(Append(g, x))
      BY <1>4, <1>7, <1>8, <3>1, <3>2, AppendList
    <3> QED
      BY <1>7, <1>8, <1>10, <3>1, <3>2, <3>3
  <2>2. CASE b # <<>>
    <3>1. PICK x, t : x = Head(b) /\ t = Tail(b)
      OBVIOUS
    <3>2. /\ t \in Seq(Old) /\ x \in Old /\ x \in Range(b) /\ Range(b) = Range(t) \cup {x}
          /\ IsInjective(t) /\ x \notin Range(t)
      BY <1>4, <1>7, <2>2, <3>1, TailList
    <3>3. got'[c] = Append(g, x)
      BY <1>1, <1>4, <1>5, <2>2, <3>1
    <3>4. Range(Append(g, x)) = Range(g) \cup {x} /\ IsInjective(Append(g, x))
      BY <1>4, <1>7, <3>2, AppendList
    <3>5. Range(e) = Range(t) \cup N /\ IsInjective(e)
      <4>1. CASE s = <<>>
        BY <1>5, <1>10, <2>2, <3>1, <3>2, <4>1 DEF Refilled
      <4>2. CASE s # <<>>
        <5>1. PICK y : y = Head(s)
          OBVIOUS
        <5>2. y \in Old /\ y \notin Range(t) /\ e = Append(t, y)
          BY <1>5, <1>8, <2>2, <3>1, <3>2, <4>2, <5>1 DEF Refilled
        <5>3. Range(Append(t, y)) = Range(t) \cup {y} /\ IsInjective(Append(t, y))
          BY <3>2, <5>2, AppendList
        <5> QED
          BY <1>10, <4>2, <5>1, <5>2, <5>3
      <4> QED
        BY <4>1, <4>2
    <3>6. \A n \in N : n \notin Range(g) /\ n \notin Range(b)
      BY <1>8, <1>10
    <3> QED
      BY <1>7, <3>2, <3>3, <3>4, <3>5, <3>6
  <2> QED
    BY <2>1, <2>2
<1>12. Distinct(c)' /\ Items(c)' = Items(c) \cup N
  <2>1. Handed(c)' = <<>> /\ IsInjective(<<>>) /\ Range(<<>>) = {}
    BY <1>3, EmptyList
  <2> QED
    BY <1>1, <1>7, <1>11, <2>1 DEF Distinct, Items
<1> QED
  BY <1>1, <1>9, <1>10, <1>12 DEF Stays, Gains

-----------------------------------------------------------------------------
(***************************************************************************)
(* Where an accepted message is.                                           *)
(***************************************************************************)

\* The channels that list the send operation of m.
Listing(m) == {c \in Channels : m \in Range(senders[c])}

\* A blocked group send offers m, to the channels of its group.
Offers(m)  == value[Owner(m)] = m /\ pc[Owner(m)] = "gsend"
Targets(m) == Range(group[Owner(m)])

\* The sender waits and no channel has taken m.
Waits(m) ==
  /\ value[Owner(m)] = m
  /\ IF pc[Owner(m)] = "gsend" THEN Targets(m) \subseteq Listing(m)
     ELSE on[Owner(m)] \in Listing(m)

\* All channels of the group list m until one completes the operation; the
\* message of a send on one channel is listed at most there.  A message some
\* channel has is listed only by a group send that has been completed.  An
\* accepted message is with a channel, given up or still waits; one that was
\* offered and given up is nowhere.
Placed(m) ==
  /\ Offers(m) =>
       /\ Targets(m) # {} /\ Listing(m) \subseteq Targets(m)
       /\ op[Owner(m)] = "RUNNING" => Targets(m) \subseteq Listing(m)
  /\ m \notin offered => \A c, d \in Listing(m) : c = d
  /\ m \in Stock => Listing(m) = {} \/ (Offers(m) /\ Listing(m) # Targets(m))
  /\ m \in Accepted => m \in Stock \/ m \in dropped \/ Waits(m)
  /\ m \in dropped \cap offered => m \notin Stock /\ ~Waits(m)

Accounted ==
  /\ Holding
  /\ dropped \subseteq Old
  /\ sent \in [Channels -> Seq(Old \cap Messages)]
  /\ \A m \in Messages : Placed(m)

\* A step touches the operation of no other message than m.
Steady(m) ==
  \A f \in Fibers : value[f] \notin {m, NoMsg} =>
    /\ pc'[f] = pc[f] /\ group'[f] = group[f]
    /\ pc[f] = "send" => on'[f] = on[f]
    /\ op'[f] = "RUNNING" => op[f] = "RUNNING"

\* A step that is about the message n leaves the others in their places.
LEMMA OthersPlaced ==
  ASSUME NEW n, \A m \in Messages : Placed(m), Steady(n),
         \A f \in Fibers : value[f] # NoMsg => pc[f] \in {"send", "gsend"},
         \A c \in Channels : Range(senders'[c]) \ {n} = Range(senders[c]) \ {n},
         Stock' \ {n} = Stock \ {n}, dropped' \ {n} = dropped \ {n},
         offered' \ {n} = offered \ {n}, Accepted' \ {n} \subseteq Accepted,
         \A f \in Fibers :
           value'[f] = value[f] \/ {value[f], value'[f]} \subseteq {n, NoMsg}
  PROVE  \A m \in Messages \ {n} : Placed(m)'
<1> SUFFICES ASSUME NEW m \in Messages \ {n} PROVE Placed(m)'
  OBVIOUS
<1>1. m # n /\ m # NoMsg /\ Owner(m) \in Fibers /\ Placed(m)
  BY MessageNamed
<1>2. value'[Owner(m)] = m <=> value[Owner(m)] = m
  BY <1>1
<1>3. Listing(m)' = Listing(m)
  BY <1>1 DEF Listing
<1>4. value[Owner(m)] = m =>
        /\ pc[Owner(m)] \in {"send", "gsend"}
        /\ pc'[Owner(m)] = pc[Owner(m)] /\ Targets(m)' = Targets(m)
        /\ pc[Owner(m)] = "send" => on'[Owner(m)] = on[Owner(m)]
        /\ op'[Owner(m)] = "RUNNING" => op[Owner(m)] = "RUNNING"
  BY <1>1 DEF Steady, Targets
<1>5. /\ m \in Stock' <=> m \in Stock
      /\ m \in dropped' <=> m \in dropped
      /\ m \in offered' <=> m \in offered
      /\ m \in Accepted' => m \in Accepted
  BY <1>1
<1>6. Offers(m)' <=> Offers(m)
  BY <1>2, <1>4 DEF Offers
<1>7. Waits(m)' <=> Waits(m)
  BY <1>2, <1>3, <1>4 DEF Waits
<1>8. Offers(m) => value[Owner(m)] = m
  BY DEF Offers
<1> QED
  BY <1>1, <1>3, <1>4, <1>5, <1>6, <1>7, <1>8 DEF Placed

\* Accepted after a step that appends a message to what was sent.
LEMMA SentAccepted ==
  ASSUME NEW c \in Channels, NEW m \in Old' \cap Messages, Old \subseteq Old',
         sent \in [Channels -> Seq(Old \cap Messages)],
         sent' = [sent EXCEPT ![c] = Append(@, m)], UNCHANGED offered
  PROVE  /\ sent' \in [Channels -> Seq(Old' \cap Messages)]
         /\ Accepted' \ {m} \subseteq Accepted
<1>1. PICK S : S = Old' \cap Messages
  OBVIOUS
<1>2. Old \cap Messages \subseteq S /\ m \in S
  BY <1>1
<1>3. sent \in [Channels -> Seq(S)]
  BY <1>2, WiderList
<1>4. PICK s : s = sent[c]
  OBVIOUS
<1>5. Append(s, m) \in Seq(S) /\ Range(Append(s, m)) = Range(s) \cup {m}
  BY <1>2, <1>3, <1>4, AppendList
<1>6. sent'[c] = Append(s, m) /\ \A d \in Channels \ {c} : sent'[d] = sent[d]
  BY <1>3, <1>4
<1>7. sent' \in [Channels -> Seq(S)]
  BY <1>3, <1>4, <1>5
<1>8. \A d \in Channels : Range(sent'[d]) \subseteq Range(sent[d]) \cup {m}
  BY <1>4, <1>5, <1>6
<1>9. Accepted' \ {m} \subseteq Accepted
  BY <1>8 DEF Accepted
<1> QED
  BY <1>1, <1>7, <1>9

\* A step about n keeps Accounted if it leaves n in its place.
LEMMA KeepAccounted ==
  ASSUME Accounted, NEW n, Steady(n), Old \subseteq Old',
         \A f \in Fibers : value[f] # NoMsg => pc[f] \in {"send", "gsend"},
         \A c \in Channels : Range(senders'[c]) \ {n} = Range(senders[c]) \ {n},
         Holding', Stock' \ {n} = Stock \ {n}, dropped' \ {n} = dropped \ {n},
         offered' \ {n} = offered \ {n}, dropped' \subseteq Old',
         \/ UNCHANGED sent
         \/ \E c \in Channels : /\ n \in Old' \cap Messages /\ UNCHANGED offered
                                /\ sent' = [sent EXCEPT ![c] = Append(@, n)],
         \A f \in Fibers :
           value'[f] = value[f] \/ {value[f], value'[f]} \subseteq {n, NoMsg},
         n \in Messages => Placed(n)'
  PROVE  Accounted'
<1>1. /\ sent' \in [Channels -> Seq(Old' \cap Messages)]
      /\ Accepted' \ {n} \subseteq Accepted
  <2>1. CASE UNCHANGED sent
    <3>1. PICK S : S = Old' \cap Messages
      OBVIOUS
    <3>2. sent \in [Channels -> Seq(S)]
      BY <3>1, WiderList DEF Accounted
    <3>3. Accepted' \ {n} \subseteq Accepted
      BY <2>1 DEF Accepted
    <3> QED
      BY <2>1, <3>1, <3>2, <3>3
  <2>2. ASSUME NEW c \in Channels, n \in Old' \cap Messages, UNCHANGED offered,
               sent' = [sent EXCEPT ![c] = Append(@, n)]
        PROVE  /\ sent' \in [Channels -> Seq(Old' \cap Messages)]
               /\ Accepted' \ {n} \subseteq Accepted
    BY <2>2, SentAccepted DEF Accounted
  <2> QED
    BY <2>1, <2>2
<1>2. \A m \in Messages \ {n} : Placed(m)'
  BY <1>1, OthersPlaced DEF Accounted
<1>3. \A m \in Messages : Placed(m)'
  BY <1>2
<1> QED
  BY <1>1, <1>3 DEF Accounted

\* A step about no message.
LEMMA QuietAccounted ==
  ASSUME Accounted, Steady(NoMsg), Sending, Stays,
         Bookkeeping, UNCHANGED calls \/ \E f \in Fibers : Call(f),
         UNCHANGED <<senders, value, offered, dropped, sent>>
  PROVE  Accounted'
<1>1. Old \subseteq Old' /\ Holding' /\ Stock' = Stock
  BY OldGrows, StayHolding DEF Accounted
<1>2. /\ NoMsg \notin Messages /\ dropped' \subseteq Old'
      /\ \A f \in Fibers : value[f] # NoMsg => pc[f] \in {"send", "gsend"}
  BY <1>1, MessageNamed DEF Accounted, Sending
<1> QED
  BY <1>1, <1>2, KeepAccounted

\* The message of a new call is nowhere.
LEMMA FreshMessage ==
  ASSUME Typed, Named, Sending, Offering, Accounted, QueueListed,
         NEW f \in Fibers, MayCall(f), Call(f)
  PROVE  /\ Msg(f) \in Messages /\ Msg(f) # NoMsg /\ Owner(Msg(f)) = f
         /\ Msg(f) \in Old' /\ Old \subseteq Old' /\ Listing(Msg(f)) = {}
         /\ Msg(f) \notin Stock /\ Msg(f) \notin dropped
         /\ Msg(f) \notin offered /\ Msg(f) \notin Accepted
         /\ value[f] = NoMsg /\ pc[f] = "run" /\ f = cur
<1>1. PICK n : n = Msg(f)
  OBVIOUS
<1>2. /\ n \in Messages /\ n # NoMsg /\ Owner(n) = f
      /\ n \notin Old /\ n \in Old' /\ Old \subseteq Old'
  BY <1>1, NewMessage, OldGrows DEF Typed
<1>3. pc[f] = "run" /\ f = cur /\ value[f] = NoMsg
  BY DEF MayCall, Sending
<1>4. n \notin Stock /\ n \notin dropped /\ n \notin offered
  BY <1>2, StockOld DEF Accounted, Offering
<1>5. ASSUME NEW c \in Channels PROVE n \notin Range(senders[c]) /\ n \notin Range(sent[c])
  <2>1. senders[c] \in Seq(Old) /\ sent[c] \in Seq(Old \cap Messages)
    BY DEF Named, Accounted
  <2> QED
    BY <1>2, <2>1, InList
<1>6. Listing(n) = {} /\ n \notin Accepted
  BY <1>4, <1>5 DEF Listing, Accepted
<1> QED
  BY <1>1, <1>2, <1>3, <1>4, <1>6

\* What is listed while no sender returns is with no channel: either a group
\* send offers it to all channels of its group, or it is listed once.
LEMMA ListedFree ==
  ASSUME Typed, Suspended, Sending, Offering, Accounted,
         pc[cur] \notin {"send", "gsend"},
         NEW c \in Channels, NEW m \in Range(senders[c])
  PROVE  /\ m \in Messages /\ Owner(m) \in Fibers /\ m # NoMsg /\ m \notin Stock
         /\ c \in Listing(m)
         /\ IF Offers(m)
            THEN /\ Listing(m) = Targets(m) /\ m \in offered /\ m \notin dropped
                 /\ op[Owner(m)] = "RUNNING"
            ELSE Listing(m) = {c} /\ m \notin offered
<1>1. m \in Messages /\ Owner(m) \in Fibers /\ m # NoMsg /\ c \in Listing(m)
  <2>1. m \in Messages
    BY InList DEF Typed, ChannelTypes
  <2> QED
    BY <2>1, MessageNamed DEF Listing
<1>2. Placed(m)
  BY <1>1 DEF Accounted
<1>3. CASE Offers(m)
  <2>1. op[Owner(m)] = "RUNNING" /\ m \in offered
    BY <1>1, <1>3 DEF Offers, Suspended, Blocking, Offering
  <2>2. Listing(m) = Targets(m)
    BY <1>2, <1>3, <2>1 DEF Placed
  <2>3. Waits(m)
    BY <1>3, <2>2 DEF Waits, Offers
  <2> QED
    BY <1>1, <1>2, <1>3, <2>1, <2>2, <2>3 DEF Placed
<1>4. CASE ~Offers(m)
  <2>1. m \notin offered
    <3>1. CASE value[Owner(m)] = m
      BY <1>1, <1>4, <3>1 DEF Offers, Sending, Offering
    <3>2. CASE value[Owner(m)] # m
      BY <3>2 DEF Offering, Dead
    <3> QED
      BY <3>1, <3>2
  <2> QED
    BY <1>1, <1>2, <1>4, <2>1 DEF Placed
<1> QED
  BY <1>3, <1>4

\* When one channel completes a listed operation, by taking its message or by
\* giving it up, the message stays accounted for.
LEMMA TakenPlaced ==
  ASSUME Typed, Suspended, Sending, Offering, Accounted,
         pc[cur] \notin {"send", "gsend"},
         NEW c \in Channels, NEW m \in Range(senders[c]),
         Listing(m)' = Listing(m) \ {c}, UNCHANGED <<value, offered>>,
         value[Owner(m)] = m =>
           /\ pc'[Owner(m)] = pc[Owner(m)] /\ group'[Owner(m)] = group[Owner(m)]
           /\ op'[Owner(m)] # "RUNNING",
         \/ m \in Stock' /\ UNCHANGED dropped
         \/ Stock' = Stock /\ dropped' = dropped \cup {m}
  PROVE  Placed(m)'
<1>1. /\ m \in Messages /\ Owner(m) \in Fibers /\ m # NoMsg /\ m \notin Stock
      /\ c \in Listing(m)
      /\ IF Offers(m)
         THEN /\ Listing(m) = Targets(m) /\ m \in offered /\ m \notin dropped
              /\ op[Owner(m)] = "RUNNING"
         ELSE Listing(m) = {c} /\ m \notin offered
  BY ListedFree
<1>2. /\ Offers(m)' <=> Offers(m)
      /\ Offers(m) => Targets(m)' = Targets(m) /\ op'[Owner(m)] # "RUNNING"
  BY DEF Offers, Targets
<1>3. CASE Offers(m)
  <2>1. /\ Listing(m)' = Targets(m)' \ {c} /\ c \in Targets(m)'
        /\ Listing(m)' # Targets(m)' /\ Targets(m)' # {}
    BY <1>1, <1>2, <1>3
  <2>2. ~Waits(m)'
    BY <1>2, <1>3, <2>1 DEF Waits, Offers
  <2> QED
    BY <1>1, <1>2, <1>3, <2>1, <2>2 DEF Placed
<1>4. CASE ~Offers(m)
  <2>1. Listing(m)' = {} /\ m \notin offered'
    BY <1>1, <1>4
  <2> QED
    BY <1>1, <1>2, <1>4, <2>1 DEF Placed
<1> QED
  BY <1>3, <1>4

\* A step that moves no other sender than that of m, and changes at most the
\* group of a fiber that runs.
LEMMA MoveSteady ==
  ASSUME GroupLists, Sending, Regrouped, NEW m,
         \A f \in Fibers : pc[f] \in {"send", "gsend"} /\ value[f] # m =>
           /\ pc'[f] = pc[f]
           /\ pc[f] = "send" => on'[f] = on[f]
           /\ op'[f] = "RUNNING" => op[f] = "RUNNING"
  PROVE  Steady(m)
<1>1. \A f \in Fibers : pc[f] # "run" => group'[f] = group[f]
  BY DEF Regrouped, GroupLists
<1>2. \A f \in Fibers : value[f] # NoMsg => pc[f] \in {"send", "gsend"}
  BY DEF Sending
<1> QED
  BY <1>1, <1>2 DEF Steady

\* A message that is given to a channel at once.
LEMMA GivenAccounted ==
  ASSUME Typed, GroupOrderly, Offering, Accounted, QueueListed,
         NEW f \in Fibers, NEW c \in Channels, MayCall(f), Call(f), Regrouped,
         Gains(c, Msg(f)), sent' = [sent EXCEPT ![c] = Append(@, Msg(f))],
         UNCHANGED <<pc, senders, value, dropped, offered>>,
         \A g \in Fibers : pc[g] \in {"send", "gsend"} =>
           on'[g] = on[g] /\ (op'[g] = "RUNNING" => op[g] = "RUNNING")
  PROVE  Accounted'
<1> USE DEF GroupOrderly
<1>1. PICK n : n = Msg(f)
  OBVIOUS
<1>2. /\ n \in Messages /\ n # NoMsg /\ Owner(n) = f /\ n \in Old' /\ Old \subseteq Old'
      /\ Listing(n) = {} /\ n \notin Stock /\ n \notin dropped /\ n \notin offered
      /\ value[f] = NoMsg
  BY <1>1, FreshMessage
<1>3. Holding' /\ Stock' = Stock \cup {n}
  BY <1>1, <1>2, GainHolding DEF Accounted
<1>4. Steady(n)
  BY MoveSteady
<1>5. Placed(n)'
  <2>1. Listing(n)' = {} /\ ~Offers(n)' /\ n \in Stock'
        /\ n \notin dropped' /\ n \notin offered'
    BY <1>2, <1>3 DEF Listing, Offers
  <2> QED
    BY <2>1 DEF Placed
<1>6. \A g \in Fibers : value[g] # NoMsg => pc[g] \in {"send", "gsend"}
  BY DEF Sending
<1>7. sent' = [sent EXCEPT ![c] = Append(@, n)] /\ dropped' \subseteq Old'
  BY <1>1, <1>2 DEF Accounted
<1> QED
  BY <1>2, <1>3, <1>4, <1>5, <1>6, <1>7, KeepAccounted

\* A send that blocks, or is refused, is listed with its channel.
LEMMA ListedAccounted ==
  ASSUME Typed, GroupOrderly, Offering, Accounted, QueueListed,
         NEW f \in Fibers, NEW c \in Channels, Regrouped, UNCHANGED offered,
         SendRefused(f, c) \/ \E timed \in BOOLEAN : SendBlocks(f, c, timed)
  PROVE  Accounted'
<1> USE DEF GroupOrderly
<1>1. PICK n, s : n = Msg(f) /\ s = senders[c]
  OBVIOUS
<1>2. /\ MayCall(f) /\ Call(f) /\ UNCHANGED <<buffer, result, got>>
      /\ senders' = [senders EXCEPT ![c] = Append(@, n)]
      /\ \/ /\ dropped' = dropped \cup {n} /\ UNCHANGED <<pc, op, on, value, sent>>
         \/ /\ UNCHANGED dropped /\ value' = [value EXCEPT ![f] = n]
            /\ sent' = [sent EXCEPT ![c] = Append(@, n)]
            /\ pc' = [pc EXCEPT ![f] = "send"] /\ on' = [on EXCEPT ![f] = c]
            /\ op' = [op EXCEPT ![f] = "RUNNING"]
  BY <1>1 DEF SendRefused, SendBlocks, MaySend, AwaitOp, AwaitSuspend
<1>3. /\ n \in Messages /\ n # NoMsg /\ Owner(n) = f /\ n \in Old' /\ Old \subseteq Old'
      /\ Listing(n) = {} /\ n \notin Stock /\ n \notin dropped /\ n \notin offered
      /\ n \notin Accepted /\ value[f] = NoMsg /\ pc[f] = "run" /\ f = cur
  BY <1>1, <1>2, FreshMessage
<1>4. Stays
  BY <1>2, <1>3, QuietStays DEF Accounted
<1>5. Holding' /\ Stock' = Stock
  BY <1>4, StayHolding DEF Accounted
<1>6. /\ pc \in [Fibers \cup {Runner} -> Places] /\ op \in [Fibers -> OpStatus]
      /\ value \in [Fibers -> Messages \cup {NoMsg}]
      /\ on \in [Fibers -> Channels \cup {NoChan}]
      /\ senders \in [Channels -> Seq(Messages)]
  BY DEF Typed, Counting, FiberLists, ChannelTypes
<1>7. /\ Range(senders'[c]) = Range(s) \cup {n}
      /\ \A d \in Channels \ {c} : senders'[d] = senders[d]
  <2>1. Range(Append(s, n)) = Range(s) \cup {n}
    BY <1>1, <1>3, <1>6, AppendList
  <2> QED
    BY <1>1, <1>2, <1>6, <2>1
<1>8. Steady(n)
  BY <1>2, <1>3, <1>6, MoveSteady
<1>9. Listing(n)' = {c}
  BY <1>1, <1>3, <1>7 DEF Listing
<1>10. Placed(n)'
  <2>1. ~Offers(n)' /\ n \notin offered' /\ n \notin Stock'
    BY <1>2, <1>3, <1>5, <1>6 DEF Offers
  <2>2. n \in dropped' \/ Waits(n)'
    BY <1>2, <1>3, <1>6, <1>9 DEF Waits
  <2> QED
    BY <1>9, <2>1, <2>2 DEF Placed
<1>11. dropped' \subseteq Old' /\ dropped' \ {n} = dropped \ {n}
  BY <1>2, <1>3 DEF Accounted
<1>12. \A g \in Fibers :
         /\ value[g] # NoMsg => pc[g] \in {"send", "gsend"}
         /\ value'[g] = value[g] \/ {value[g], value'[g]} \subseteq {n, NoMsg}
  BY <1>2, <1>3, <1>6 DEF Sending
<1>13. \A d \in Channels : Range(senders'[d]) \ {n} = Range(senders[d]) \ {n}
  BY <1>1, <1>7
<1>14. \/ UNCHANGED sent
       \/ /\ n \in Old' \cap Messages
          /\ sent' = [sent EXCEPT ![c] = Append(@, n)]
  BY <1>2, <1>3
<1> QED
  BY <1>3, <1>5, <1>8, <1>10, <1>11, <1>12, <1>13, <1>14, KeepAccounted

\* The first sender of a channel is completed: its message is taken or, by the
\* close of the channel, given up.
LEMMA CompletedAccounted ==
  ASSUME Typed, GroupOrderly, Offering, Accounted, Regrouped,
         UNCHANGED calls \/ \E f \in Fibers : Call(f),
         pc[cur] \notin {"send", "gsend"}, NEW c \in Channels, senders[c] # <<>>,
         senders' = [senders EXCEPT ![c] = Tail(@)],
         NEW o \in {"RESOLVED", "FAILED"}, CompleteSend(Head(senders[c]), c, o),
         UNCHANGED <<pc, on, value, offered, sent>>, Holding',
         \/ Stock' = Stock \cup {Head(senders[c])} /\ UNCHANGED dropped
         \/ Stock' = Stock /\ dropped' = dropped \cup {Head(senders[c])}
  PROVE  Accounted'
<1> USE DEF GroupOrderly
<1>1. PICK s, t, n : s = senders[c] /\ t = Tail(s) /\ n = Head(s)
  OBVIOUS
<1>2. /\ senders \in [Channels -> Seq(Messages)] /\ op \in [Fibers -> OpStatus]
      /\ s \in Seq(Old) /\ s \in Seq(Messages) /\ IsInjective(s)
  BY <1>1 DEF Typed, FiberLists, ChannelTypes, Named, Unique
<1>3. /\ n \in Old /\ n \in Messages /\ n \in Range(s)
      /\ Range(s) = Range(t) \cup {n} /\ n \notin Range(t)
  BY <1>1, <1>2, TailList
<1>4. /\ senders'[c] = t /\ \A d \in Channels \ {c} : senders'[d] = senders[d]
  BY <1>1, <1>2
<1>5. Old \subseteq Old'
  BY OldGrows DEF Typed
<1>6. /\ Owner(n) \in Fibers
      /\ IF Dead(n) THEN UNCHANGED <<cur, op>>
         ELSE /\ cur' = Owner(n) /\ pc[Owner(n)] \in {"send", "gsend"}
              /\ \E p \in {o, "FAILED"} : op' = [op EXCEPT ![Owner(n)] = p]
  BY <1>1, <1>3, Completed
<1>7. \A f \in Fibers : op'[f] = "RUNNING" => op[f] = "RUNNING"
  BY <1>2, <1>6
<1>8. Steady(n)
  BY <1>7, MoveSteady
<1>9. value[Owner(n)] = n =>
        /\ pc'[Owner(n)] = pc[Owner(n)] /\ group'[Owner(n)] = group[Owner(n)]
        /\ op'[Owner(n)] # "RUNNING"
  <2> SUFFICES ASSUME value[Owner(n)] = n
               PROVE  group'[Owner(n)] = group[Owner(n)] /\ op'[Owner(n)] # "RUNNING"
    OBVIOUS
  <2>1. pc[Owner(n)] # "run" /\ op'[Owner(n)] # "RUNNING"
    BY <1>2, <1>6 DEF Dead
  <2> QED
    BY <1>6, <2>1 DEF Regrouped, GroupLists
<1>10. Listing(n)' = Listing(n) \ {c}
  BY <1>1, <1>3, <1>4 DEF Listing
<1>11. Placed(n)'
  BY <1>1, <1>3, <1>9, <1>10, TakenPlaced
<1>12. dropped' \subseteq Old' /\ dropped' \ {n} = dropped \ {n} /\ Stock' \ {n} = Stock \ {n}
  BY <1>1, <1>3, <1>5 DEF Accounted
<1>13. \A d \in Channels : Range(senders'[d]) \ {n} = Range(senders[d]) \ {n}
  BY <1>1, <1>3, <1>4
<1>14. \A g \in Fibers : value[g] # NoMsg => pc[g] \in {"send", "gsend"}
  BY DEF Sending
<1> QED
  BY <1>5, <1>8, <1>11, <1>12, <1>13, <1>14, KeepAccounted

\* A send on one channel that returns, whose timer fires, or whose operation
\* is freed after it gave up, leaves its message with the channel or given up.
LEMMA EndedAccounted ==
  ASSUME Typed, GroupOrderly, Offering, Accounted, Regrouped, UNCHANGED calls,
         NEW m \in Messages, ~Offers(m), m \notin offered, NEW c \in Channels,
         Listing(m) \subseteq {c}, Stays, UNCHANGED <<offered, sent>>,
         \A d \in Channels : Range(senders'[d]) \ {m} = Range(senders[d]) \ {m},
         \A d \in Channels : m \in Range(senders'[d]) => d \in Listing(m),
         dropped' \in {dropped, dropped \cup {m}},
         m \in dropped' \/ ~Waits(m), dropped' \subseteq Old,
         \A f \in Fibers :
           /\ \/ value'[f] = value[f]
              \/ value[f] = m /\ value'[f] = NoMsg
           /\ pc[f] \in {"send", "gsend"} /\ value[f] # m =>
                /\ pc'[f] = pc[f]
                /\ pc[f] = "send" => on'[f] = on[f]
                /\ op'[f] = "RUNNING" => op[f] = "RUNNING"
           /\ pc'[f] = "gsend" => pc[f] = "gsend"
  PROVE  Accounted'
<1> USE DEF GroupOrderly
<1>1. Holding' /\ Stock' = Stock /\ Old' = Old
  BY StayHolding DEF Accounted, Old
<1>2. Steady(m)
  BY MoveSteady
<1>3. Listing(m)' \subseteq Listing(m)
  BY DEF Listing
<1>4. m # NoMsg /\ Owner(m) \in Fibers /\ Placed(m)
  BY MessageNamed DEF Accounted
<1>5. ~Offers(m)'
  BY <1>4 DEF Offers
<1>6. Placed(m)'
  <2>1. m \in Stock => Listing(m)' = {}
    BY <1>3, <1>4 DEF Placed
  <2>2. m \in Accepted' => m \in Accepted
    BY DEF Accepted
  <2>3. m \in Accepted' => m \in Stock \/ m \in dropped'
    BY <1>4, <2>2 DEF Placed
  <2> QED
    BY <1>1, <1>3, <1>5, <2>1, <2>3 DEF Placed
<1>7. \A g \in Fibers :
        /\ value[g] # NoMsg => pc[g] \in {"send", "gsend"}
        /\ value'[g] = value[g] \/ {value[g], value'[g]} \subseteq {m, NoMsg}
  BY DEF Sending
<1>8. dropped' \subseteq Old' /\ dropped' \ {m} = dropped \ {m}
  BY <1>1 DEF Accounted
<1> QED
  BY <1>1, <1>2, <1>6, <1>7, <1>8, KeepAccounted

\* A step in which no message moves.
LEMMA IdleAccounted ==
  ASSUME Typed, GroupOrderly, Accounted, Regrouped,
         UNCHANGED calls \/ \E f \in Fibers : Call(f),
         Stays, UNCHANGED <<senders, value, offered, dropped, sent>>,
         \A f \in Fibers : pc[f] \in {"send", "gsend"} =>
           /\ pc'[f] = pc[f]
           /\ pc[f] = "send" => on'[f] = on[f]
           /\ op'[f] = "RUNNING" => op[f] = "RUNNING"
  PROVE  Accounted'
<1> USE DEF GroupOrderly
<1>1. Steady(NoMsg)
  BY MoveSteady
<1> QED
  BY <1>1, QuietAccounted DEF Typed

\* A step of the current fiber, which is not inside a receive.
LEMMA OutsideAccounted ==
  ASSUME Typed, GroupOrderly, Accounted, Regrouped,
         UNCHANGED calls \/ \E f \in Fibers : Call(f),
         pc[cur] \notin {"recv", "select"}, UNCHANGED <<buffer, result, got>>,
         UNCHANGED <<senders, value, offered, dropped, sent>>,
         \A f \in Fibers : pc[f] \in {"send", "gsend"} =>
           /\ pc'[f] = pc[f]
           /\ pc[f] = "send" => on'[f] = on[f]
           /\ op'[f] = "RUNNING" => op[f] = "RUNNING"
  PROVE  Accounted'
  BY QuietStays, IdleAccounted DEF GroupOrderly, Accounted

\* The steps of the channels, whatever becomes of the groups.
LEMMA StepAccounted ==
  ASSUME Typed, GroupOrderly, Offering, Accounted, QueueListed,
         [Next]_vars, Regrouped, UNCHANGED offered
  PROVE  Accounted'
<1> USE DEF GroupOrderly
<1>1. /\ pc \in [Fibers \cup {Runner} -> Places] /\ op \in [Fibers -> OpStatus]
      /\ on \in [Fibers -> Channels \cup {NoChan}]
      /\ value \in [Fibers -> Messages \cup {NoMsg}]
      /\ result \in [Fibers -> Messages \cup {NoMsg}]
      /\ senders \in [Channels -> Seq(Messages)]
      /\ receivers \in [Channels -> Seq(Fibers)]
      /\ got \in [Channels -> Seq(Old)] /\ senders \in [Channels -> Seq(Old)]
      /\ FiberLists /\ defer = {} /\ Runner \notin Fibers
  BY SchedulerAssumption
     DEF Typed, Counting, FiberLists, ChannelTypes, Named, Suspended
<1>2. UNCHANGED calls \/ \E f \in Fibers : Call(f)
  BY StepCalls
<1>3. \A f \in Fibers : pc[f] \in {"send", "recv"} => on[f] \in Channels
  BY DEF Suspended
<1>4. ASSUME NEW f \in Fibers, NEW c \in Channels, SendToReceiver(f, c)
      PROVE  Accounted'
  <2>1. PICK r, n : r = Head(receivers[c]) /\ n = Msg(f)
    OBVIOUS
  <2>2. /\ MayCall(f) /\ Call(f) /\ pc[cur] = "run"
        /\ receivers[c] # <<>> /\ pc[r] = "recv" /\ reschedule_task(r, "RESOLVED")
        /\ result' = [result EXCEPT ![r] = n]
        /\ sent' = [sent EXCEPT ![c] = Append(@, n)]
        /\ UNCHANGED <<pc, on, buffer, senders, value, got, dropped>>
    BY <1>4, <2>1 DEF SendToReceiver, MaySend, MayCall
  <2>3. r \in Fibers /\ on[r] = c /\ cur' = r /\ op' = [op EXCEPT ![r] = "RESOLVED"]
    <3>1. r \in Fibers /\ r \in Range(receivers[c])
      BY <1>1, <2>1, <2>2, TailList
    <3> QED
      BY <1>1, <2>2, <3>1, Resumed DEF Receiving
  <2>4. n # NoMsg /\ n \notin Stock
    BY <2>1, <2>2, FreshMessage
  <2>5. Gains(c, n)
    BY <1>1, <2>2, <2>3, <2>4, HandGains DEF Accounted
  <2> QED
    BY <1>1, <2>1, <2>2, <2>3, <2>5, GivenAccounted
<1>5. ASSUME NEW f \in Fibers, NEW c \in Channels, SendToBuffer(f, c)
      PROVE  Accounted'
  <2>1. Gains(c, Msg(f))
    BY <1>5, BufferGains DEF Accounted
  <2> QED
    BY <1>5, <2>1, GivenAccounted DEF SendToBuffer, MaySend
<1>6. ASSUME NEW f \in Fibers, NEW c \in Channels,
             SendRefused(f, c) \/ \E timed \in BOOLEAN : SendBlocks(f, c, timed)
      PROVE  Accounted'
  BY <1>6, ListedAccounted
<1>7. ASSUME NEW f \in Fibers, NEW c \in Channels, NextFetches(f, c)
      PROVE  Accounted'
  <2>1. pc[cur] = "run" /\ UNCHANGED <<pc, on, value, result, sent, dropped>>
    BY <1>7 DEF NextFetches, MayCall
  <2>2. CASE senders[c] = <<>>
    <3>1. Stays
      BY <1>7, <2>2, FetchGains DEF Accounted
    <3>2. UNCHANGED <<senders, op>>
      BY <1>7, <2>2 DEF NextFetches, fetch_noblock
    <3> QED
      BY <1>2, <2>1, <3>1, <3>2, IdleAccounted
  <2>3. CASE senders[c] # <<>>
    <3>1. Head(senders[c]) \in Range(senders[c])
      BY <1>1, <2>3, TailList
    <3>2. Head(senders[c]) \notin Stock
      BY <2>1, <3>1, ListedFree
    <3>3. Gains(c, Head(senders[c]))
      BY <1>7, <2>3, <3>2, FetchGains DEF Accounted
    <3>4. Holding' /\ Stock' = Stock \cup {Head(senders[c])}
      BY <3>2, <3>3, GainHolding DEF Accounted
    <3>5. /\ senders' = [senders EXCEPT ![c] = Tail(@)]
          /\ CompleteSend(Head(senders[c]), c, "RESOLVED")
      BY <1>7, <2>3 DEF NextFetches, fetch_noblock
    <3> QED
      BY <1>2, <2>1, <2>3, <3>4, <3>5, CompletedAccounted
  <2> QED
    BY <2>2, <2>3
<1>8. ASSUME NEW f \in Fibers, NEW c \in Channels, NextBlocks(f, c)
      PROVE  Accounted'
  <2>1. /\ pc[cur] = "run" /\ pc[f] = "run" /\ UNCHANGED <<buffer, result, got>>
        /\ UNCHANGED <<senders, value, dropped, sent>>
        /\ pc' = [pc EXCEPT ![f] = "recv"] /\ on' = [on EXCEPT ![f] = c]
        /\ op' = [op EXCEPT ![f] = "RUNNING"]
    BY <1>8 DEF NextBlocks, MayCall, AwaitOp, AwaitSuspend
  <2> QED
    BY <1>1, <1>2, <2>1, OutsideAccounted
<1>9. ASSUME NEW f \in Fibers, NEW c \in Channels, NEW err \in BOOLEAN,
             close(f, c, err)
      PROVE  Accounted'
  <2>1. /\ pc[cur] \in {"run", "dispose"} /\ pc[f] \in {"run", "dispose"}
        /\ UNCHANGED <<buffer, result, got, senders, value, dropped, sent, op>>
        /\ \E l \in {"close", "shutdown"} : pc' = [pc EXCEPT ![f] = l]
        /\ on' = [on EXCEPT ![f] = c]
    BY <1>9 DEF close, MayCall
  <2> QED
    BY <1>1, <1>2, <2>1, OutsideAccounted
<1>10. ASSUME NEW f \in Fibers, NextReturns(f) PROVE Accounted'
  <2>1. /\ cur = f /\ pc[f] = "recv" /\ pc' = [pc EXCEPT ![f] = "run"]
        /\ op' = [op EXCEPT ![f] = "PENDING"]
        /\ got' = IF op[f] = "RESOLVED" /\ ~closed[on[f]]
                  THEN [got EXCEPT ![on[f]] = Append(@, result[f])] ELSE got
        /\ on' = [on EXCEPT ![f] = NoChan]
        /\ UNCHANGED <<cur, buffer, senders, value, dropped, sent>>
    BY <1>10 DEF NextReturns, AwaitDone, AwaitResume
  <2>2. IF result[f] = NoMsg THEN UNCHANGED got
        ELSE /\ on[f] \in Channels
             /\ got' = [got EXCEPT ![on[f]] = Append(@, result[f])]
    BY <2>1 DEF Receiving
  <2>3. pc'[f] = "run" /\ DOMAIN got = Channels
    BY <1>1, <2>1
  <2>4. Stays
    BY <2>1, <2>2, <2>3, ReturnStays DEF Accounted
  <2> QED
    BY <1>1, <1>2, <2>1, <2>4, IdleAccounted
<1>11. ASSUME NEW f \in Fibers, SendReturns(f) PROVE Accounted'
  <2>1. PICK c, m : c = on[f] /\ m = value[f]
    OBVIOUS
  <2>2. /\ cur = f /\ pc[f] = "send" /\ UNCHANGED <<buffer, result, got, calls, sent>>
        /\ pc' = [pc EXCEPT ![f] = "run"] /\ op' = [op EXCEPT ![f] = "PENDING"]
        /\ dropped' = IF m \in Range(senders[c]) THEN dropped \cup {m} ELSE dropped
        /\ senders' = IF f \in timers THEN senders
             ELSE [senders EXCEPT ![c] = ASYNC_LIST_REMOVE(@, m)]
        /\ value' = [value EXCEPT ![f] = NoMsg] /\ on' = [on EXCEPT ![f] = NoChan]
    BY <1>11, <2>1 DEF SendReturns, AwaitDone, AwaitResume
  <2>3. c \in Channels
    BY <1>3, <2>1, <2>2
  <2>4. /\ \A d \in Channels : Range(senders'[d]) \subseteq Range(senders[d])
        /\ \A d \in Channels : Range(senders[d]) \ {m} \subseteq Range(senders'[d])
        /\ m \notin Range(senders[c]) => UNCHANGED senders
    <3>1. /\ Range(ASYNC_LIST_REMOVE(senders[c], m)) \subseteq Range(senders[c])
          /\ Range(senders[c]) \ {m} \subseteq Range(ASYNC_LIST_REMOVE(senders[c], m))
          /\ m \notin Range(senders[c]) =>
               ASYNC_LIST_REMOVE(senders[c], m) = senders[c]
      BY <1>1, <2>3, RemoveList, UnlinkKeeps
    <3> QED
      BY <1>1, <2>2, <2>3, <3>1
  <2>5. Stays
    BY <2>2, QuietStays DEF Accounted
  <2>6. CASE m = NoMsg
    <3>1. m \notin Range(senders[c])
      BY <1>1, <2>3, <2>6, InList, MessageNamed
    <3>2. UNCHANGED <<senders, dropped, value>>
      BY <1>1, <2>1, <2>2, <2>4, <2>6, <3>1
    <3>3. \A h \in Fibers : value[h] # NoMsg =>
            h # f /\ pc'[h] = pc[h] /\ on'[h] = on[h] /\ op'[h] = op[h]
      BY <1>1, <2>1, <2>2, <2>6
    <3>4. Steady(NoMsg)
      BY <3>3, MoveSteady
    <3> QED
      BY <1>2, <2>2, <2>5, <3>2, <3>4, QuietAccounted DEF Typed
  <2>7. CASE m # NoMsg
    <3>1. m \in Messages /\ Owner(m) = f
      BY <1>1, <2>1, <2>7 DEF Sending
    <3>2. ~Offers(m) /\ m \notin offered
      BY <2>1, <2>2, <3>1 DEF Offers, Offering
    <3>3. Listing(m) \subseteq {c}
      BY <2>1, <2>2, <3>1 DEF Listing, Sending, Dead
    <3>4. m \in dropped' \/ ~Waits(m)
      BY <2>1, <2>2, <3>1 DEF Waits, Listing
    <3>5. dropped' \in {dropped, dropped \cup {m}} /\ dropped' \subseteq Old
      <4>1. m \in Range(senders[c]) => m \in Old
        BY <1>1, <2>3, InList
      <4> QED
        BY <2>2, <4>1 DEF Accounted
    <3>6. \A h \in Fibers :
            /\ value'[h] = value[h] \/ (value[h] = m /\ value'[h] = NoMsg)
            /\ value[h] # m =>
                 pc'[h] = pc[h] /\ on'[h] = on[h] /\ op'[h] = op[h]
            /\ pc'[h] = "gsend" => pc[h] = "gsend"
      <4> SUFFICES ASSUME NEW h \in Fibers
                   PROVE  /\ value'[h] = value[h] \/ (value[h] = m /\ value'[h] = NoMsg)
                          /\ value[h] # m =>
                               pc'[h] = pc[h] /\ on'[h] = on[h] /\ op'[h] = op[h]
                          /\ pc'[h] = "gsend" => pc[h] = "gsend"
        OBVIOUS
      <4>1. CASE h = f
        BY <1>1, <2>1, <2>2, <4>1
      <4>2. CASE h # f
        BY <1>1, <2>2, <4>2
      <4> QED
        BY <4>1, <4>2
    <3>7. /\ \A d \in Channels : Range(senders'[d]) \ {m} = Range(senders[d]) \ {m}
          /\ \A d \in Channels : m \in Range(senders'[d]) => d \in Listing(m)
      BY <2>4 DEF Listing
    <3> QED
      BY <2>2, <2>3, <2>5, <3>1, <3>2, <3>3, <3>4, <3>5, <3>6, <3>7, EndedAccounted
  <2> QED
    BY <2>6, <2>7
<1>12. ASSUME NEW f \in Fibers, timeout_channel_send_cb(f) PROVE Accounted'
  <2>1. PICK c, m : c = on[f] /\ m = value[f]
    OBVIOUS
  <2>2. /\ cur = Runner /\ pc[Runner] = "run" /\ pc[f] = "send"
        /\ UNCHANGED <<pc, on, value, buffer, result, got, calls, sent>>
        /\ dropped' = dropped \cup {m}
        /\ senders' = [senders EXCEPT ![c] = ASYNC_LIST_REMOVE(@, m)]
        /\ reschedule_task(f, "RESOLVED")
    BY <1>12, <2>1 DEF timeout_channel_send_cb
  <2>3. c \in Channels /\ op[f] = "RUNNING" /\ op' = [op EXCEPT ![f] = "RESOLVED"]
    BY <1>1, <1>3, <2>1, <2>2, Resumed DEF Suspended, Blocking
  <2>4. m \in Range(senders[c])
    BY <2>1, <2>2, <2>3 DEF Sending
  <2>5. m \in Messages /\ m \in Old /\ m # NoMsg
    BY <1>1, <2>3, <2>4, InList, MessageNamed
  <2>6. /\ \A d \in Channels : Range(senders'[d]) \subseteq Range(senders[d])
        /\ \A d \in Channels : Range(senders[d]) \ {m} \subseteq Range(senders'[d])
    <3>1. /\ Range(ASYNC_LIST_REMOVE(senders[c], m)) \subseteq Range(senders[c])
          /\ Range(senders[c]) \ {m} \subseteq Range(ASYNC_LIST_REMOVE(senders[c], m))
      BY <1>1, <2>3, RemoveList, UnlinkKeeps
    <3> QED
      BY <1>1, <2>2, <2>3, <3>1
  <2>7. Stays
    BY <2>2, QuietStays DEF Accounted
  <2>8. Owner(m) = f /\ ~Offers(m) /\ m \notin offered
    BY <2>1, <2>2, <2>5 DEF Offers, Offering, Sending
  <2>9. Listing(m) \subseteq {c}
    BY <2>1, <2>2, <2>8 DEF Listing, Sending, Dead
  <2>10. \A h \in Fibers : op'[h] = "RUNNING" => op[h] = "RUNNING"
    BY <1>1, <2>3
  <2>11. /\ \A d \in Channels : Range(senders'[d]) \ {m} = Range(senders[d]) \ {m}
         /\ \A d \in Channels : m \in Range(senders'[d]) => d \in Listing(m)
    BY <2>6 DEF Listing
  <2>12. m \in dropped' /\ dropped' \subseteq Old
    BY <2>2, <2>5 DEF Accounted
  <2> QED
    BY <2>2, <2>3, <2>5, <2>7, <2>8, <2>9, <2>10, <2>11, <2>12, EndedAccounted
<1>13. ASSUME NEW c \in Channels, dispose_channel_send_timer_cb(c) PROVE Accounted'
  <2>1. PICK m \in Range(senders[c]) :
          Dead(m) /\ senders' = [senders EXCEPT ![c] = ASYNC_LIST_REMOVE(@, m)]
    BY <1>13 DEF dispose_channel_send_timer_cb
  <2>2. /\ pc[cur] = "run"
        /\ UNCHANGED <<pc, op, on, value, buffer, result, got, calls, sent, dropped>>
    BY <1>13 DEF dispose_channel_send_timer_cb, schedVars
  <2>3. ~Offers(m)
    BY <2>1 DEF Offers, Dead
  <2>4. m \in Messages /\ m \notin offered /\ Listing(m) = {c}
    BY <2>1, <2>2, <2>3, ListedFree
  <2>5. m \in dropped /\ dropped \subseteq Old
    BY <2>1 DEF Sending, Accounted
  <2>6. /\ \A d \in Channels : Range(senders'[d]) \subseteq Range(senders[d])
        /\ \A d \in Channels : Range(senders[d]) \ {m} \subseteq Range(senders'[d])
    <3>1. /\ Range(ASYNC_LIST_REMOVE(senders[c], m)) \subseteq Range(senders[c])
          /\ Range(senders[c]) \ {m} \subseteq Range(ASYNC_LIST_REMOVE(senders[c], m))
      BY <1>1, RemoveList, UnlinkKeeps
    <3> QED
      BY <1>1, <2>1, <3>1
  <2>7. Stays
    BY <2>2, QuietStays DEF Accounted
  <2>8. /\ \A d \in Channels : Range(senders'[d]) \ {m} = Range(senders[d]) \ {m}
        /\ \A d \in Channels : m \in Range(senders'[d]) => d \in Listing(m)
    BY <2>6 DEF Listing
  <2> QED
    BY <2>2, <2>3, <2>4, <2>5, <2>7, <2>8, EndedAccounted
<1>14. CASE DisposeReceiver
  <2>1. PICK r : r = Head(receivers[on[cur]])
    OBVIOUS
  <2>2. /\ cur \in Fibers /\ pc[cur] \in {"close", "shutdown"}
        /\ receivers[on[cur]] # <<>> /\ pc[r] = "recv"
        /\ reschedule_task(r, CloseOutcome(on[cur]))
        /\ UNCHANGED <<pc, on, buffer, result, got, senders, value, dropped, sent>>
    BY <1>14, <2>1 DEF DisposeReceiver, Closing
  <2>3. r \in Fibers
    <3>1. on[cur] \in Channels
      BY <2>2 DEF Typed, Closers
    <3> QED
      BY <1>1, <2>1, <2>2, <3>1, TailList
  <2>4. op' = [op EXCEPT ![r] = CloseOutcome(on[cur])]
    BY <1>1, <2>2, <2>3, Resumed
  <2> QED
    BY <1>1, <1>2, <2>2, <2>3, <2>4, OutsideAccounted
<1>15. CASE DisposeSender
  <2>1. PICK c : c = on[cur]
    OBVIOUS
  <2>2. /\ c \in Channels /\ pc[cur] \in {"close", "shutdown"} /\ senders[c] # <<>>
        /\ senders' = [senders EXCEPT ![c] = Tail(@)]
        /\ dropped' = dropped \cup {Head(senders[c])}
        /\ CompleteSend(Head(senders[c]), c, CloseOutcome(c))
        /\ UNCHANGED <<pc, on, buffer, result, got, value, sent>>
    BY <1>15, <2>1 DEF DisposeSender, Closing, Typed, Closers
  <2>3. Stays
    BY <2>2, QuietStays DEF Accounted
  <2>4. Holding' /\ Stock' = Stock
    BY <2>3, StayHolding DEF Accounted
  <2>5. CloseOutcome(c) \in {"RESOLVED", "FAILED"}
    BY DEF CloseOutcome
  <2> QED
    BY <1>2, <2>2, <2>4, <2>5, CompletedAccounted
<1>16. CASE DisposeEnds
  <2>1. /\ cur \in Fibers /\ pc[cur] \in {"close", "shutdown"}
        /\ pc' = [pc EXCEPT ![cur] = IF @ = "close" THEN "run" ELSE "dispose"]
        /\ on' = [on EXCEPT ![cur] = NoChan]
        /\ UNCHANGED <<op, buffer, result, got, senders, value, dropped, sent>>
    BY <1>16 DEF DisposeEnds, Closing
  <2> QED
    BY <1>1, <1>2, <2>1, OutsideAccounted
<1>17. CASE SchedStep /\ UNCHANGED chanVars
  <2>1. UNCHANGED <<on, buffer, result, got, senders, value, dropped, sent>>
    BY <1>17 DEF chanVars
  <2>2. /\ pc[cur] \notin {"recv", "select"}
        /\ \A f \in Fibers : pc[f] \in {"send", "gsend"} =>
             pc'[f] = pc[f] /\ (op'[f] = "RUNNING" => op[f] = "RUNNING")
    BY <1>17, SchedulerMoves DEF Blocking
  <2> QED
    BY <1>2, <2>1, <2>2, OutsideAccounted
<1>18. CASE UNCHANGED vars
  <2>1. UNCHANGED <<cur, pc, op, on, buffer, result, got, senders, value, dropped, sent>>
    BY <1>18 DEF vars
  <2>2. \A c \in Channels : Handed(c)' = Handed(c) /\ Buffered(c)' = Buffered(c)
    BY <2>1 DEF Handed, Buffered
  <2>3. Stays
    BY <2>1, <2>2 DEF Stays, Items, Distinct, Accounted, Holding
  <2> QED
    BY <1>2, <2>1, <2>3, IdleAccounted
<1> QED
  BY <1>4, <1>5, <1>6, <1>7, <1>8, <1>9, <1>10, <1>11, <1>12, <1>13, <1>14,
     <1>15, <1>16, <1>17, <1>18
     DEF Next, ChannelStep

\* A group send that blocks is listed with every channel of its group.
LEMMA OfferAccounted ==
  ASSUME Typed, GroupOrderly, Offering, Accounted, QueueListed,
         NEW f \in Fibers, NEW timed \in BOOLEAN, GroupSendBlocks(f, timed)
  PROVE  Accounted'
<1> USE DEF GroupOrderly
<1>1. PICK n : n = Msg(f)
  OBVIOUS
<1>2. /\ MayCall(f) /\ Call(f) /\ Regrouped /\ Range(group'[f]) = Range(group[f])
      /\ group[f] # <<>>
      /\ \A c \in Channels :
           senders'[c] = IF c \in Range(group[f]) THEN Append(senders[c], n)
                         ELSE senders[c]
      /\ value' = [value EXCEPT ![f] = n] /\ offered' = offered \cup {n}
      /\ pc' = [pc EXCEPT ![f] = "gsend"] /\ op' = [op EXCEPT ![f] = "RUNNING"]
      /\ UNCHANGED <<buffer, on, result, sent, got, dropped>>
  BY <1>1, GroupSendListed DEF GroupListed
<1>3. /\ n \in Messages /\ n # NoMsg /\ Owner(n) = f /\ n \in Old' /\ Old \subseteq Old'
      /\ Listing(n) = {} /\ n \notin Stock /\ n \notin dropped /\ n \notin offered
      /\ n \notin Accepted /\ value[f] = NoMsg /\ pc[f] = "run" /\ f = cur
  BY <1>1, <1>2, FreshMessage
<1>4. /\ pc \in [Fibers \cup {Runner} -> Places] /\ op \in [Fibers -> OpStatus]
      /\ value \in [Fibers -> Messages \cup {NoMsg}]
      /\ senders \in [Channels -> Seq(Messages)]
      /\ group[f] \in Seq(Channels)
  BY DEF Typed, Counting, FiberLists, ChannelTypes, GroupLists
<1>5. Stays
  BY <1>2, <1>3, QuietStays DEF Accounted
<1>6. Holding' /\ Stock' = Stock
  BY <1>5, StayHolding DEF Accounted
<1>7. \A c \in Channels :
        Range(senders'[c]) = Range(senders[c])
                               \cup (IF c \in Range(group[f]) THEN {n} ELSE {})
  <2> SUFFICES ASSUME NEW c \in Channels, c \in Range(group[f])
               PROVE  Range(Append(senders[c], n)) = Range(senders[c]) \cup {n}
    BY <1>2
  <2> QED
    BY <1>3, <1>4, AppendList
<1>8. Steady(n)
  BY <1>2, <1>3, <1>4, MoveSteady
<1>9. Range(group[f]) # {} /\ Range(group[f]) \subseteq Channels
  BY <1>2, <1>4, InList
<1>10. Listing(n)' = Range(group[f]) /\ Targets(n)' = Range(group[f])
  BY <1>2, <1>3, <1>7, <1>9 DEF Listing, Targets
<1>11. Waits(n)'
  BY <1>2, <1>3, <1>4, <1>10 DEF Waits
<1>12. Placed(n)'
  BY <1>2, <1>3, <1>6, <1>9, <1>10, <1>11 DEF Placed
<1>13. \A g \in Fibers :
         /\ value[g] # NoMsg => pc[g] \in {"send", "gsend"}
         /\ value'[g] = value[g] \/ {value[g], value'[g]} \subseteq {n, NoMsg}
  BY <1>2, <1>3, <1>4 DEF Sending
<1>14. \A c \in Channels : Range(senders'[c]) \ {n} = Range(senders[c]) \ {n}
  BY <1>7
<1>15. dropped' \subseteq Old' /\ offered' \ {n} = offered \ {n}
  BY <1>2, <1>3 DEF Accounted
<1> QED
  BY <1>2, <1>3, <1>6, <1>8, <1>12, <1>13, <1>14, <1>15, KeepAccounted

\* One that returns is listed nowhere any more; its message is with the channel
\* that completed it, or given up.
LEMMA OfferEndsAccounted ==
  ASSUME Typed, GroupOrderly, Offering, Accounted, NEW f \in Fibers,
         GroupSendReturns(f)
  PROVE  Accounted'
<1> USE DEF GroupOrderly
<1>1. PICK n : n = value[f]
  OBVIOUS
<1>2. /\ cur = f /\ pc[f] = "gsend" /\ n \in Messages /\ n # NoMsg /\ Owner(n) = f
      /\ n \in Old
  <2>1. cur = f /\ pc[f] = "gsend"
    BY DEF GroupSendReturns
  <2>2. n \in offered
    BY <1>1, <2>1 DEF Offering
  <2> QED
    BY <1>1, <2>1, <2>2, MessageNamed DEF Offering, Sending
<1>3. /\ dropped' = IF Completer(f) = {} THEN dropped \cup {n} ELSE dropped
      /\ value' = [value EXCEPT ![f] = NoMsg]
      /\ pc' = [pc EXCEPT ![f] = "run"] /\ op' = [op EXCEPT ![f] = "PENDING"]
      /\ \E g : group' = [group EXCEPT ![f] = g]
      /\ UNCHANGED <<calls, buffer, on, result, sent, got, offered>>
  BY <1>1 DEF GroupSendReturns, AwaitDone, AwaitResume
<1>4. \A c \in Channels : Range(senders'[c]) = Range(senders[c]) \ {n}
  BY <1>1, GroupSendReturnsOrderly
<1>5. /\ pc \in [Fibers \cup {Runner} -> Places] /\ op \in [Fibers -> OpStatus]
      /\ value \in [Fibers -> Messages \cup {NoMsg}]
      /\ group \in [Fibers -> Seq(Channels)]
  BY DEF Typed, Counting, FiberLists, ChannelTypes, GroupLists
<1>6. Stays
  BY <1>2, <1>3, QuietStays DEF Accounted
<1>7. Holding' /\ Stock' = Stock /\ Old' = Old
  BY <1>3, <1>6, StayHolding DEF Accounted, Old
<1>8. Steady(n)
  <2> SUFFICES ASSUME NEW h \in Fibers, value[h] # n
               PROVE  /\ pc'[h] = pc[h] /\ group'[h] = group[h]
                      /\ on'[h] = on[h] /\ op'[h] = op[h]
    BY DEF Steady
  <2>1. h # f
    BY <1>1
  <2> QED
    BY <1>3, <1>5, <2>1
<1>9. Range(group[f]) \subseteq Channels
  BY <1>5, InList
<1>10. Completer(f) = {} <=> Targets(n) \subseteq Listing(n)
  BY <1>1, <1>2, <1>9 DEF Completer, Targets, Listing
<1>11. Offers(n) /\ (Waits(n) <=> Completer(f) = {}) /\ Placed(n)
  BY <1>1, <1>2, <1>10 DEF Offers, Waits, Accounted
<1>12. Listing(n)' = {} /\ ~Offers(n)' /\ ~Waits(n)'
  BY <1>2, <1>3, <1>4, <1>5 DEF Listing, Offers, Waits
<1>13. Completer(f) = {} => n \notin Stock
  BY <1>10, <1>11 DEF Placed
<1>14. n \in Accepted' => n \in Accepted
  BY <1>3 DEF Accepted
<1>15. Placed(n)'
  BY <1>3, <1>7, <1>11, <1>12, <1>13, <1>14 DEF Placed
<1>16. dropped' \subseteq Old' /\ dropped' \ {n} = dropped \ {n}
  BY <1>2, <1>3, <1>7 DEF Accounted
<1>17. \A g \in Fibers :
         /\ value[g] # NoMsg => pc[g] \in {"send", "gsend"}
         /\ value'[g] = value[g] \/ {value[g], value'[g]} \subseteq {n, NoMsg}
  BY <1>1, <1>3, <1>5 DEF Sending
<1>18. \A c \in Channels : Range(senders'[c]) \ {n} = Range(senders[c]) \ {n}
  BY <1>4
<1> QED
  BY <1>3, <1>7, <1>8, <1>15, <1>16, <1>17, <1>18, KeepAccounted

\* A select that returns delivers at most what was handed to it.
LEMMA SelectReturnsAccounted ==
  ASSUME Typed, GroupOrderly, Accounted, QueueListed, NEW f \in Fibers,
         SelectReturns(f)
  PROVE  Accounted'
<1> USE DEF GroupOrderly
<1>1. /\ cur = f /\ pc[f] = "select" /\ pc' = [pc EXCEPT ![f] = "run"]
      /\ op' = [op EXCEPT ![f] = "PENDING"] /\ on' = [on EXCEPT ![f] = NoChan]
      /\ got' = IF op[f] = "RESOLVED" /\ on[f] # NoChan
                THEN [got EXCEPT ![on[f]] = Append(@, result[f])] ELSE got
      /\ \E g : group' = [group EXCEPT ![f] = g]
      /\ UNCHANGED <<cur, calls, buffer, senders, value, dropped, sent, offered>>
  <2>1. \E g : group' = [group EXCEPT ![f] = g]
    <3>1. CASE f \in check
      BY <3>1 DEF SelectReturns
    <3>2. CASE f \notin check
      <4>1. group' = group
        BY <3>2 DEF SelectReturns
      <4>2. group' = [group EXCEPT ![f] = group[f]]
        BY <4>1 DEF GroupLists
      <4> QED
        BY <4>2
    <3> QED
      BY <3>1, <3>2
  <2> QED
    BY <2>1 DEF SelectReturns, AwaitDone, AwaitResume
<1>2. /\ pc \in [Fibers \cup {Runner} -> Places] /\ op \in [Fibers -> OpStatus]
      /\ on \in [Fibers -> Channels \cup {NoChan}]
      /\ got \in [Channels -> Seq(Old)] /\ group \in [Fibers -> Seq(Channels)]
  BY DEF Typed, Counting, FiberLists, ChannelTypes, Named, GroupLists
<1>3. IF result[f] = NoMsg THEN UNCHANGED got
      ELSE /\ on[f] \in Channels
           /\ got' = [got EXCEPT ![on[f]] = Append(@, result[f])]
  BY <1>1, ChannelAssumption DEF Receiving
<1>4. pc'[f] = "run" /\ DOMAIN got = Channels
  BY <1>1, <1>2
<1>5. Stays
  BY <1>1, <1>3, <1>4, ReturnStays DEF Accounted
<1>6. Steady(NoMsg)
  <2> SUFFICES ASSUME NEW h \in Fibers, value[h] # NoMsg
               PROVE  /\ pc'[h] = pc[h] /\ group'[h] = group[h]
                      /\ on'[h] = on[h] /\ op'[h] = op[h]
    BY DEF Steady
  <2>1. h # f
    BY <1>1 DEF Sending
  <2> QED
    BY <1>1, <1>2, <2>1
<1> QED
  BY <1>1, <1>5, <1>6, QuietAccounted DEF Typed

\* Every step keeps Accounted.
LEMMA StepGroupAccounted ==
  ASSUME Typed, GroupOrderly, Offering, Accounted, QueueListed,
         [GroupNext]_allVars
  PROVE  Accounted'
<1> USE DEF GroupOrderly
<1>1. /\ pc \in [Fibers \cup {Runner} -> Places] /\ op \in [Fibers -> OpStatus]
      /\ on \in [Fibers -> Channels \cup {NoChan}]
      /\ result \in [Fibers -> Messages \cup {NoMsg}]
      /\ FiberLists /\ defer = {} /\ Runner \notin Fibers
  BY SchedulerAssumption DEF Typed, Counting, FiberLists, ChannelTypes, Suspended
<1>2. CASE [Next]_vars /\ Regrouped /\ UNCHANGED <<pending, check, offered>>
  BY <1>2, StepAccounted
<1>3. ASSUME NEW f \in Fibers, OnlyRegroups(f) \/ ShuffleEmpty(f)
      PROVE  Accounted'
  <2>1. /\ pc[cur] = "run" /\ pc[f] = "run" /\ Call(f) /\ Regrouped
        /\ UNCHANGED <<op, on, buffer, result, got, senders, value, offered,
                       dropped, sent>>
        /\ UNCHANGED pc \/ pc' = [pc EXCEPT ![f] = "wild"]
    BY <1>3 DEF OnlyRegroups, ShuffleEmpty, MayCall, Regrouped, chanVars, groupVars
  <2> QED
    BY <1>1, <2>1, OutsideAccounted
<1>4. ASSUME NEW f \in Fibers, SelectBlocks(f) PROVE Accounted'
  <2>1. /\ pc[cur] = "run" /\ pc[f] = "run" /\ f = cur /\ Call(f)
        /\ pc' = [pc EXCEPT ![f] = "select"] /\ op' = [op EXCEPT ![f] = "RUNNING"]
        /\ on' = [on EXCEPT ![f] = NoChan]
        /\ UNCHANGED <<buffer, result, got, senders, value, offered, dropped, sent>>
    BY <1>4 DEF SelectBlocks, MayScan, MayCall, AwaitOp, AwaitSuspend
  <2>2. Regrouped
    BY <1>4, <2>1, SelectListed DEF Regrouped
  <2> QED
    BY <1>1, <2>1, <2>2, OutsideAccounted
<1>5. ASSUME NEW f \in Fibers, SelectReturns(f) PROVE Accounted'
  BY <1>5, SelectReturnsAccounted
<1>6. ASSUME NEW f \in Fibers, timeout_select(f) \/ timeout_send_cb(f)
      PROVE  Accounted'
  <2>1. /\ pc[cur] = "run" /\ reschedule_task(f, "RESOLVED") /\ Regrouped
        /\ UNCHANGED <<pc, on, calls, buffer, result, got, senders, value,
                       offered, dropped, sent>>
    BY <1>6 DEF timeout_select, timeout_send_cb, Regrouped, chanVars, groupVars
  <2>2. op' = [op EXCEPT ![f] = "RESOLVED"]
    BY <1>1, <2>1, Resumed
  <2> QED
    BY <1>1, <2>1, <2>2, OutsideAccounted
<1>7. ASSUME NEW f \in Fibers, NEW timed \in BOOLEAN, GroupSendBlocks(f, timed)
      PROVE  Accounted'
  BY <1>7, OfferAccounted
<1>8. ASSUME NEW f \in Fibers, GroupSendReturns(f) PROVE Accounted'
  BY <1>8, OfferEndsAccounted
<1>9. ASSUME NEW f \in Fibers, NEW c \in Channels, SendToSelector(f, c), Regrouped
      PROVE  Accounted'
  <2>1. PICK r \in Fibers : HandsOver(f, c, r)
    BY <1>9, SelectorHandsOver
  <2>2. PICK n : n = Msg(f)
    OBVIOUS
  <2>3. /\ pc[cur] = "run" /\ MayCall(f) /\ Call(f) /\ pc[r] = "select" /\ cur' = r
        /\ on' = [on EXCEPT ![r] = c] /\ result' = [result EXCEPT ![r] = n]
        /\ op' = [op EXCEPT ![r] = "RESOLVED"]
        /\ sent' = [sent EXCEPT ![c] = Append(@, n)]
        /\ UNCHANGED <<pc, buffer, senders, value, got, dropped, offered>>
    BY <2>1, <2>2 DEF HandsOver
  <2>4. n # NoMsg /\ n \notin Stock
    BY <2>2, <2>3, FreshMessage
  <2>5. Gains(c, n)
    BY <1>1, <2>3, <2>4, HandGains DEF Accounted
  <2>6. \A g \in Fibers : pc[g] \in {"send", "gsend"} =>
          on'[g] = on[g] /\ (op'[g] = "RUNNING" => op[g] = "RUNNING")
    BY <1>1, <2>3
  <2> QED
    BY <1>9, <2>2, <2>3, <2>5, <2>6, GivenAccounted
<1>10. CASE DisposeSelector
  <2>1. PICK c \in Channels, r \in Fibers : CountsOff(c, r)
    BY <1>10, SelectorCountsOff
  <2>2. /\ pc[cur] \in {"close", "shutdown"} /\ pc[r] = "select" /\ Regrouped
        /\ UNCHANGED <<pc, calls, buffer, result, got, senders, value, offered,
                       dropped, sent>>
        /\ UNCHANGED on \/ on' = [on EXCEPT ![r] = c]
        /\ UNCHANGED op \/ \E o \in OpStatus : op' = [op EXCEPT ![r] = o]
    BY <2>1 DEF CountsOff, Regrouped, OpStatus
  <2> QED
    BY <1>1, <2>2, OutsideAccounted
<1> QED
  BY <1>2, <1>3, <1>4, <1>5, <1>6, <1>7, <1>8, <1>9, <1>10, GroupCases
     DEF GroupMove

\* Nothing has been sent at the start.
LEMMA InitAccounted == GroupInit => Accounted
<1> SUFFICES ASSUME GroupInit PROVE Accounted
  OBVIOUS
<1>1. /\ Init /\ offered = {} /\ sent = [c \in Channels |-> <<>>] /\ dropped = {}
      /\ senders = [c \in Channels |-> <<>>] /\ got = [c \in Channels |-> <<>>]
      /\ result = [f \in Fibers |-> NoMsg] /\ value = [f \in Fibers |-> NoMsg]
      /\ \A c \in Channels : buffer[c].len = 0
  BY DEF GroupInit, Init
<1>2. QueueListed
  BY <1>1, InitTyped, InitOrderly, Regroup, QueueLists DEF Orderly
<1>3. \A c \in Channels : Handed(c) = <<>> /\ Buffered(c) = <<>> /\ got[c] = <<>>
  BY <1>1, <1>2 DEF QueueListed, Handed
<1>4. \A c \in Channels : Items(c) = {} /\ Distinct(c)
  BY <1>3, EmptyList DEF Items, Distinct
<1>5. Holding /\ Stock = {}
  BY <1>4 DEF Holding, Stock
<1>6. sent \in [Channels -> Seq(Old \cap Messages)] /\ Accepted = {}
  BY <1>1, EmptyList DEF Accepted
<1>7. ASSUME NEW m \in Messages PROVE Placed(m)
  <2>1. Listing(m) = {} /\ ~Offers(m)
    BY <1>1, EmptyList, MessageNamed DEF Listing, Offers
  <2> QED
    BY <1>1, <1>5, <1>6, <2>1 DEF Placed
<1> QED
  BY <1>1, <1>5, <1>6, <1>7 DEF Accounted

\* A channel has one copy of what it has.
LEMMA OneCopy ==
  ASSUME NEW c \in Channels, NEW m, Distinct(c)
  PROVE  /\ Copy(c, m) # {} <=> m \in Items(c)
         /\ \A x, y \in Copy(c, m) : x = y
<1>1. PICK g, h, b : g = got[c] /\ h = Handed(c) /\ b = Buffered(c)
  OBVIOUS
<1>2. PICK G, H, B : /\ G = {j \in DOMAIN g : g[j] = m}
                     /\ H = {j \in DOMAIN h : h[j] = m}
                     /\ B = {j \in DOMAIN b : b[j] = m}
  OBVIOUS
<1>3. /\ G # {} <=> m \in Range(g)
      /\ H # {} <=> m \in Range(h)
      /\ B # {} <=> m \in Range(b)
  BY <1>2 DEF Range
<1>4. /\ \A i, j \in G : i = j
      /\ \A i, j \in H : i = j
      /\ \A i, j \in B : i = j
  BY <1>1, <1>2 DEF Distinct, IsInjective
<1>5. /\ G = {} \/ H = {}
      /\ G = {} \/ B = {}
      /\ H = {} \/ B = {}
  BY <1>1, <1>3 DEF Distinct
<1>6. Copy(c, m) = {<<"got", c, i>> : i \in G} \cup {<<"handed", c, i>> : i \in H}
                     \cup {<<"buffered", c, i>> : i \in B}
  BY <1>1, <1>2 DEF Copy
<1>7. Copy(c, m) # {} <=> m \in Items(c)
  BY <1>1, <1>3, <1>6 DEF Items
<1>8. \A x, y \in Copy(c, m) : x = y
  BY <1>4, <1>5, <1>6
<1> QED
  BY <1>7, <1>8

\* The operation of a message waits, or is unlinked or given up.
LEMMA OneWaiter ==
  ASSUME Sending, Suspended, GroupLists, NEW m \in Messages
  PROVE  Waiter(m) = IF Waits(m) THEN {Owner(m)} ELSE {}
<1>1. m # NoMsg /\ Owner(m) \in Fibers
  BY MessageNamed
<1>2. \A f \in Fibers : value[f] = m => f = Owner(m) /\ pc[f] \in {"send", "gsend"}
  BY <1>1 DEF Sending
<1>3. PICK f : f = Owner(m) /\ f \in Fibers
  BY <1>1
<1>4. Range(group[f]) \subseteq Channels
  <2>1. group[f] \in Seq(Channels)
    BY <1>3 DEF GroupLists
  <2> QED
    BY <2>1, InList
<1>5. value[f] = m => (Completer(f) = {} <=> Targets(m) \subseteq Listing(m))
  BY <1>3, <1>4 DEF Completer, Targets, Listing
<1>6. pc[f] = "send" => (m \in Range(senders[on[f]]) <=> on[f] \in Listing(m))
  BY <1>3 DEF Listing, Suspended
<1>7. f \in Waiter(m) <=> Waits(m)
  BY <1>2, <1>3, <1>5, <1>6 DEF Waiter, Waits
<1>8. Waiter(m) \subseteq {f}
  BY <1>2, <1>3 DEF Waiter
<1> QED
  BY <1>3, <1>7, <1>8

\* A message that is accounted for is in one place.
LEMMA AccountedOnce == GroupInv /\ Accounted => ExactlyOnce
<1> SUFFICES ASSUME GroupInv, Accounted, NEW m \in Accepted
             PROVE  /\ Cardinality(Copies(m)) <= 1
                    /\ m \notin dropped => Copies(m) # {}
                    /\ m \in dropped \cap offered => Copies(m) = {}
  BY DEF ExactlyOnce
<1>1. m \in Messages
  <2>1. CASE m \in offered
    BY <2>1 DEF GroupInv, Offering
  <2>2. ASSUME NEW c \in Channels, m \in Range(sent[c]) PROVE m \in Messages
    <3>1. sent[c] \in Seq(Old \cap Messages)
      BY DEF Accounted
    <3> QED
      BY <2>2, <3>1, InList
  <2> QED
    BY <2>1, <2>2 DEF Accepted
<1>2. Placed(m) /\ Holding
  BY <1>1 DEF Accounted
<1>3. PICK P : P = {"pending"} \X Waiter(m)
  OBVIOUS
<1>4. PICK U : U = UNION {Copy(c, m) : c \in Channels}
  OBVIOUS
<1>5. Copies(m) = U \cup P
  BY <1>3, <1>4 DEF Copies
<1>6. P = IF Waits(m) THEN {<<"pending", Owner(m)>>} ELSE {}
  <2>1. Waiter(m) = IF Waits(m) THEN {Owner(m)} ELSE {}
    BY <1>1, OneWaiter DEF GroupInv, GroupOrderly
  <2> QED
    BY <1>3, <2>1
<1>7. \A c \in Channels : /\ Copy(c, m) # {} <=> m \in Items(c)
                          /\ \A x, y \in Copy(c, m) : x = y
  BY <1>2, OneCopy DEF Holding
<1>8. U # {} <=> m \in Stock
  BY <1>4, <1>7 DEF Stock
<1>9. Waits(m) => m \notin Stock
  <2>1. CASE Offers(m)
    BY <1>2, <2>1 DEF Placed, Waits, Offers
  <2>2. CASE ~Offers(m)
    BY <1>2, <2>2 DEF Placed, Waits, Offers
  <2> QED
    BY <2>1, <2>2
<1>10. ASSUME NEW x \in Copies(m), NEW y \in Copies(m) PROVE x = y
  <2>1. CASE Waits(m)
    BY <1>5, <1>6, <1>8, <1>9, <2>1
  <2>2. CASE ~Waits(m)
    <3>1. PICK c \in Channels, d \in Channels : x \in Copy(c, m) /\ y \in Copy(d, m)
      BY <1>5, <1>4, <1>6, <2>2
    <3>2. c = d
      BY <1>2, <1>7, <3>1 DEF Holding
    <3> QED
      BY <1>7, <3>1, <3>2
  <2> QED
    BY <2>1, <2>2
<1>11. Cardinality(Copies(m)) <= 1
  <2>1. CASE Copies(m) = {}
    BY <2>1, FS_EmptySet
  <2>2. ASSUME NEW x \in Copies(m) PROVE Cardinality(Copies(m)) <= 1
    <3>1. Copies(m) = {x}
      BY <1>10
    <3>2. Cardinality({x}) = 1
      BY FS_Singleton
    <3> QED
      BY <3>1, <3>2
  <2> QED
    BY <2>1, <2>2
<1>12. Copies(m) = {} <=> m \notin Stock /\ ~Waits(m)
  BY <1>5, <1>6, <1>8
<1> QED
  BY <1>2, <1>11, <1>12 DEF Placed

\* A message that is offered to several channels, and a fiber that listens to
\* several, still make for one delivery, for any number of channels, fibers and
\* calls: an accepted message is in exactly one place until it is given up, and
\* in none when a group send gave it up.
THEOREM DeliveredOnce == GroupSpec => []ExactlyOnce
<1> DEFINE Inv == GroupInv /\ Accounted
<1>1. GroupInit => Inv
  BY InitGroupInv, InitAccounted
<1>2. Inv /\ [GroupNext]_allVars => Inv'
  <2> SUFFICES ASSUME Inv, [GroupNext]_allVars PROVE Inv'
    OBVIOUS
  <2>1. Typed /\ GroupOrderly /\ Offering
    BY Regroup DEF GroupInv
  <2>2. QueueListed
    BY <2>1, QueueLists DEF GroupOrderly
  <2> QED
    BY <2>1, <2>2, StepGroupInv, StepGroupAccounted
<1>3. Inv => ExactlyOnce
  BY AccountedOnce
<1> QED
  BY <1>1, <1>2, <1>3, PTL DEF GroupSpec
=============================================================================
