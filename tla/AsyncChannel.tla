---------------------------- MODULE AsyncChannel ----------------------------
(***************************************************************************)
(* Dao\Async\Channel and its iterators (ext/async/channel.c): a ring       *)
(* buffer with a list of pending send operations and one of pending        *)
(* receive operations.  Channel groups are added by AsyncChannelGroup.     *)
(*                                                                         *)
(* A send operation is named by its message.  An operation that carries a  *)
(* timer is freed by the close callback of the timer, a turn of the loop   *)
(* after send returned: one that was cancelled or refused stays on the     *)
(* list of senders until then, with nobody waiting for it (Dead).          *)
(*                                                                         *)
(* Each fiber iterates a channel with an iterator of its own.  next,       *)
(* rewind, valid, current and key all fetch through fetch_next_entry;      *)
(* advance_iterator only does so under a stronger condition than next, so  *)
(* the model has the one action next.                                      *)
(***************************************************************************)
EXTENDS AsyncScheduler

CONSTANTS
  Channels,
  Size,       \* Size[c] is the capacity given to the constructor of c
  NoChan      \* no channel

ASSUME ChannelAssumption ==
  /\ Size \in [Channels -> Nat]
  /\ NoChan \notin Channels

VARIABLES
  buffer,     \* state->buffer: [len, rpos, wpos, data]
  senders,    \* state->senders: the messages of the pending operations
  receivers,  \* state->receivers
  closed,     \* ASYNC_CHANNEL_FLAG_CLOSED
  error,      \* state->error is set
  on,         \* the channel each fiber's pending call is about
  value,      \* the send operation each fiber awaits
  result,     \* op->result of each fiber's receive operation
  timers,     \* the fibers whose send timer is armed
  sent,       \* history: messages a send call has accepted, in order
  got,        \* history: messages returned by iterators, in order
  dropped     \* history: messages given up by a timeout, cancel or close

chanVars == <<buffer, senders, receivers, closed, error, on, value, result,
              timers, sent, got, dropped>>
vars == <<cur, fibers, ready, status, pc, op, defer, busy, callbacks,
          triggered, disposed, calls, buffer, senders, receivers, closed,
          error, on, value, result, timers, sent, got, dropped>>

\* A message is named by its sender and the number of the sender's call.
Messages == Fibers \X Nat
NoMsg    == <<>>

\* A channel of capacity 0 has no slots and never moves its positions.
Buffers(c) ==
  [len : 0..Size[c],
   rpos : {0} \cup 0..(Size[c] - 1),
   wpos : {0} \cup 0..(Size[c] - 1),
   data : [0..(Size[c] - 1) -> Messages \cup {NoMsg}]]

TypeOK ==
  /\ SchedTypeOK
  /\ pc \in [Fibers \cup {Runner} ->
               {"run", "send", "recv", "gsend", "select", "wild", "cancel",
                "close", "drain", "dispose", "shutdown", "done"}]
  /\ DOMAIN buffer = Channels
  /\ \A c \in Channels : buffer[c] \in Buffers(c)
  /\ senders \in [Channels -> Seq(Messages)]
  /\ receivers \in [Channels -> Seq(Fibers)]
  /\ closed \in [Channels -> BOOLEAN]
  /\ error \in [Channels -> BOOLEAN]
  /\ on \in [Fibers -> Channels \cup {NoChan}]
  /\ value \in [Fibers -> Messages \cup {NoMsg}]
  /\ result \in [Fibers -> Messages \cup {NoMsg}]
  /\ timers \subseteq Fibers
  /\ \A f \in Fibers : pc[f] \in {"close", "shutdown"} => on[f] \in Channels

\* The channels exist; the main script may have closed some of them already.
Init ==
  /\ SchedInit
  /\ buffer = [c \in Channels |-> [len |-> 0, rpos |-> 0, wpos |-> 0,
                                   data |-> [i \in 0..(Size[c] - 1) |-> NoMsg]]]
  /\ senders = [c \in Channels |-> <<>>]
  /\ receivers = [c \in Channels |-> <<>>]
  /\ closed \in [Channels -> BOOLEAN]
  /\ error = [c \in Channels |-> FALSE]
  /\ on = [f \in Fibers |-> NoChan]
  /\ value = [f \in Fibers |-> NoMsg]
  /\ result = [f \in Fibers |-> NoMsg]
  /\ timers = {}
  /\ sent = [c \in Channels |-> <<>>]
  /\ got = [c \in Channels |-> <<>>]
  /\ dropped = {}

-----------------------------------------------------------------------------
(***************************************************************************)
(* The ring buffer.                                                        *)
(***************************************************************************)
Write(c, b, m) == [b EXCEPT !.data = [@ EXCEPT ![b.wpos] = m],
                            !.wpos = (@ + 1) % Size[c]]
Put(c, m)   == [Write(c, buffer[c], m) EXCEPT !.len = @ + 1]
Oldest(c)   == buffer[c].data[buffer[c].rpos]
Advance(c)  == [buffer[c] EXCEPT !.rpos = (@ + 1) % Size[c]]

\* The test the code uses for "a value can be read without blocking".
READABLE_NONBLOCK(c) == receivers[c] # <<>> \/ buffer[c].len > 0
READABLE(c)          == ~closed[c] \/ READABLE_NONBLOCK(c)

-----------------------------------------------------------------------------
(***************************************************************************)
(* send.                                                                   *)
(***************************************************************************)
Msg(f) == <<f, calls[f]>>

\* The fiber that awaits the send operation of message m, if it still does.
Owner(m) == m[1]
Dead(m)  == value[Owner(m)] # m

MaySend(f, c) == MayCall(f) /\ Call(f) /\ ~closed[c]

\* A waiting receiver is given the message and resumed at once.
SendToReceiver(f, c) ==
  /\ MaySend(f, c)
  /\ receivers[c] # <<>>
  /\ LET r == Head(receivers[c]) IN
     /\ pc[r] = "recv"
     /\ receivers' = [receivers EXCEPT ![c] = Tail(@)]
     /\ result' = [result EXCEPT ![r] = Msg(f)]
     /\ reschedule_task(r, "RESOLVED")
  /\ sent' = [sent EXCEPT ![c] = Append(@, Msg(f))]
  /\ UNCHANGED <<pc, defer, busy, callbacks, triggered, disposed, buffer,
                 senders, closed, error, on, value, timers, got, dropped>>

\* Mutant: a full buffer is written once more.
SendOverfills(f, c) ==
  /\ MaySend(f, c)
  /\ receivers[c] = <<>> /\ buffer[c].len <= Size[c] /\ Size[c] > 0
  /\ buffer' = [buffer EXCEPT ![c] = Put(c, Msg(f))]
  /\ sent' = [sent EXCEPT ![c] = Append(@, Msg(f))]
  /\ UNCHANGED <<cur, fibers, ready, status, pc, op, defer, busy, callbacks,
                 triggered, disposed, senders, receivers, closed, error, on,
                 value, result, timers, got, dropped>>

\* There is room in the buffer.
SendToBuffer(f, c) ==
  /\ MaySend(f, c)
  /\ receivers[c] = <<>> /\ buffer[c].len < Size[c]
  /\ buffer' = [buffer EXCEPT ![c] = Put(c, Msg(f))]
  /\ sent' = [sent EXCEPT ![c] = Append(@, Msg(f))]
  /\ UNCHANGED <<cur, fibers, ready, status, pc, op, defer, busy, callbacks,
                 triggered, disposed, senders, receivers, closed, error, on,
                 value, result, timers, got, dropped>>

\* Neither: the operation is appended to the pending senders, with a timer
\* when a timeout is given.  (With timeout 0 send returns without an effect.)
SendBlocks(f, c, timed) ==
  /\ MaySend(f, c)
  /\ receivers[c] = <<>> /\ buffer[c].len >= Size[c]
  /\ ~AwaitRefused(f)
  /\ senders' = [senders EXCEPT ![c] = Append(@, Msg(f))]
  /\ value' = [value EXCEPT ![f] = Msg(f)]
  /\ on' = [on EXCEPT ![f] = c]
  /\ timers' = IF timed THEN timers \cup {f} ELSE timers
  /\ sent' = [sent EXCEPT ![c] = Append(@, Msg(f))]
  /\ AwaitOp(f, "send")
  /\ UNCHANGED <<ready, defer, triggered, disposed, buffer, receivers, closed,
                 error, result, got, dropped>>

\* The same when the await is refused: send throws, but an operation with a
\* timer stays listed.  (Without one it is unlinked before send returns.)
SendRefused(f, c) ==
  /\ MaySend(f, c)
  /\ receivers[c] = <<>> /\ buffer[c].len >= Size[c]
  /\ AwaitRefused(f)
  /\ senders' = [senders EXCEPT ![c] = Append(@, Msg(f))]
  /\ dropped' = dropped \cup {Msg(f)}
  /\ UNCHANGED <<cur, fibers, ready, status, pc, op, defer, busy, callbacks,
                 triggered, disposed, buffer, receivers, closed, error, on,
                 value, result, timers, sent, got>>

\* Mutant: the timer is not closed.
SendKeepsTimer(f) ==
  /\ cur = f /\ pc[f] = "send" /\ Settled(f)
  /\ AwaitDone(f)
  /\ senders' = [senders EXCEPT ![on[f]] = ASYNC_LIST_REMOVE(@, value[f])]
  /\ value' = [value EXCEPT ![f] = NoMsg]
  /\ on' = [on EXCEPT ![f] = NoChan]
  /\ UNCHANGED <<cur, fibers, ready, status, defer, triggered, disposed, calls,
                 buffer, receivers, closed, error, result, timers, sent, got,
                 dropped>>

\* The rest of a blocking send.  A send that was cancelled is still listed
\* and gives its message up: without a timer the operation is freed and so
\* unlinked, with one the timer is closed and the operation stays.
SendReturns(f) ==
  /\ cur = f /\ pc[f] = "send" /\ Settled(f)
  /\ AwaitDone(f)
  /\ dropped' = IF value[f] \in Range(senders[on[f]])
                THEN dropped \cup {value[f]} ELSE dropped
  /\ senders' = IF f \in timers THEN senders
                ELSE [senders EXCEPT ![on[f]] = ASYNC_LIST_REMOVE(@, value[f])]
  /\ value' = [value EXCEPT ![f] = NoMsg]
  /\ on' = [on EXCEPT ![f] = NoChan]
  /\ timers' = timers \ {f}
  /\ UNCHANGED <<cur, fibers, ready, status, defer, triggered, disposed, calls,
                 buffer, receivers, closed, error, result, sent, got>>

\* The close callback of its timer frees an operation, which unlinks it.
dispose_channel_send_timer_cb(c) ==
  /\ cur = Runner /\ pc[Runner] = "run"
  /\ \E m \in Range(senders[c]) :
       /\ Dead(m)
       /\ senders' = [senders EXCEPT ![c] = ASYNC_LIST_REMOVE(@, m)]
  /\ UNCHANGED <<schedVars, buffer, receivers, closed, error, on, value,
                 result, timers, sent, got, dropped>>

\* The loop fires the send timer of f: the operation finishes, send returns
\* as if the message had been taken.
timeout_channel_send_cb(f) ==
  /\ cur = Runner /\ pc[Runner] = "run" /\ f \in timers /\ pc[f] = "send"
  /\ timers' = timers \ {f}
  /\ senders' = [senders EXCEPT ![on[f]] = ASYNC_LIST_REMOVE(@, value[f])]
  /\ dropped' = dropped \cup {value[f]}
  /\ reschedule_task(f, "RESOLVED")
  /\ UNCHANGED <<pc, defer, busy, callbacks, triggered, disposed, calls,
                 buffer, receivers, closed, error, on, value, result, sent, got>>

-----------------------------------------------------------------------------
(***************************************************************************)
(* Receiving.                                                              *)
(***************************************************************************)

\* The callback of a pending send operation resumes the fiber that awaits it;
\* that of a group send (pc "gsend") fails the group's operation when the
\* channel is closed, however it completed.
CompleteSend(m, c, outcome) ==
  IF Dead(m)
  THEN UNCHANGED <<cur, fibers, ready, status, op>>
  ELSE reschedule_task(Owner(m),
         IF pc[Owner(m)] = "gsend" /\ closed[c] THEN "FAILED" ELSE outcome)

\* Mutant: a pending sender is resumed, its operation stays listed.
FetchKeepsSender(c) ==
  /\ senders[c] # <<>> /\ buffer[c].len = 0
  /\ got' = [got EXCEPT ![c] = Append(@, Head(senders[c]))]
  /\ CompleteSend(Head(senders[c]), c, "RESOLVED")
  /\ UNCHANGED <<buffer, senders>>

\* Mutant: a pending sender is resumed, its message is not put in the slot.
FetchSkipsRefill(c) ==
  /\ buffer[c].len > 0
  /\ got' = [got EXCEPT ![c] = Append(@, Oldest(c))]
  /\ buffer' = [buffer EXCEPT ![c] = [Advance(c) EXCEPT !.len = @ - 1]]
  /\ IF senders[c] # <<>>
     THEN /\ senders' = [senders EXCEPT ![c] = Tail(@)]
          /\ CompleteSend(Head(senders[c]), c, "RESOLVED")
     ELSE UNCHANGED <<cur, fibers, ready, status, op, senders>>

\* fetch_noblock: the first buffered message, whose slot is
\* refilled from the first pending sender, or that sender's message itself.
\* The sender is resumed inside the call.
fetch_noblock(c) ==
  /\ IF buffer[c].len > 0
     THEN /\ got' = [got EXCEPT ![c] = Append(@, Oldest(c))]
          /\ buffer' = [buffer EXCEPT ![c] =
               IF senders[c] # <<>>
               THEN Write(c, Advance(c), Head(senders[c]))
               ELSE [Advance(c) EXCEPT !.len = @ - 1]]
     ELSE /\ senders[c] # <<>>
          /\ got' = [got EXCEPT ![c] = Append(@, Head(senders[c]))]
          /\ UNCHANGED buffer
  /\ IF senders[c] # <<>>
     THEN /\ senders' = [senders EXCEPT ![c] = Tail(@)]
          /\ CompleteSend(Head(senders[c]), c, "RESOLVED")
     ELSE UNCHANGED <<cur, fibers, ready, status, op, senders>>

\* next on a readable channel that has a message.
NextFetches(f, c) ==
  /\ MayCall(f) /\ Call(f)
  /\ READABLE(c)
  /\ fetch_noblock(c)
  /\ UNCHANGED <<pc, defer, busy, callbacks, triggered, disposed, receivers,
                 closed, error, on, value, result, timers, sent, dropped>>

\* next on a readable channel that has none.
NextBlocks(f, c) ==
  /\ MayCall(f) /\ Call(f)
  /\ READABLE(c) /\ buffer[c].len = 0 /\ senders[c] = <<>>
  /\ ~AwaitRefused(f)
  /\ receivers' = [receivers EXCEPT ![c] = Append(@, f)]
  /\ on' = [on EXCEPT ![f] = c]
  /\ AwaitOp(f, "recv")
  /\ UNCHANGED <<ready, defer, triggered, disposed, buffer, senders, closed,
                 error, value, result, timers, sent, got, dropped>>

\* The rest of fetch_next_entry: the result is taken unless the channel has
\* been closed.
NextReturns(f) ==
  /\ cur = f /\ pc[f] = "recv" /\ Settled(f)
  /\ AwaitDone(f)
  /\ got' = IF op[f] = "RESOLVED" /\ ~closed[on[f]]
            THEN [got EXCEPT ![on[f]] = Append(@, result[f])]
            ELSE got
  /\ receivers' = [receivers EXCEPT ![on[f]] = ASYNC_LIST_REMOVE(@, f)]
  /\ result' = [result EXCEPT ![f] = NoMsg]
  /\ on' = [on EXCEPT ![f] = NoChan]
  /\ UNCHANGED <<cur, fibers, ready, status, defer, triggered, disposed, calls,
                 buffer, senders, closed, error, value, timers, sent, dropped>>

-----------------------------------------------------------------------------
(***************************************************************************)
(* Closing.                                                                *)
(***************************************************************************)

\* close with or without an error, and the shutdown callback called by the
\* disposal of the scheduler, which always passes an error.
close(f, c, err) ==
  /\ ~closed[c]
  /\ \/ /\ MayCall(f) /\ Call(f)
        /\ pc' = [pc EXCEPT ![f] = "close"]
     \/ /\ f = Root /\ cur = Root /\ pc[Root] = "dispose" /\ err
        /\ pc' = [pc EXCEPT ![Root] = "shutdown"]
        /\ UNCHANGED calls
  /\ closed' = [closed EXCEPT ![c] = TRUE]
  /\ error' = [error EXCEPT ![c] = err]
  /\ on' = [on EXCEPT ![f] = c]
  /\ UNCHANGED <<cur, fibers, ready, status, op, defer, busy, callbacks,
                 triggered, disposed, buffer, senders, receivers, value,
                 result, timers, sent, got, dropped>>

Closing == cur \in Fibers /\ pc[cur] \in {"close", "shutdown"}
CloseOutcome(c) == IF error[c] THEN "FAILED" ELSE "RESOLVED"

\* dispose_state first completes the receivers, one per turn of its loop ...
DisposeReceiver ==
  /\ Closing
  /\ LET c == on[cur]
         r == Head(receivers[c]) IN
     /\ receivers[c] # <<>> /\ pc[r] = "recv"
     /\ receivers' = [receivers EXCEPT ![c] = Tail(@)]
     /\ reschedule_task(r, CloseOutcome(c))
  /\ UNCHANGED <<pc, defer, busy, callbacks, triggered, disposed, calls,
                 buffer, senders, closed, error, on, value, result, timers,
                 sent, got, dropped>>

\* ... then the senders, whose messages are given up ...
DisposeSender ==
  /\ Closing
  /\ LET c == on[cur] IN
     /\ receivers[c] = <<>> /\ senders[c] # <<>>
     /\ senders' = [senders EXCEPT ![c] = Tail(@)]
     /\ dropped' = dropped \cup {Head(senders[c])}
     /\ CompleteSend(Head(senders[c]), c, CloseOutcome(c))
  /\ UNCHANGED <<pc, defer, busy, callbacks, triggered, disposed, calls,
                 buffer, receivers, closed, error, on, value, result, timers,
                 sent, got>>

\* Mutant: the senders are not completed.
DisposeEndsEarly ==
  /\ Closing
  /\ receivers[on[cur]] = <<>>
  /\ pc' = [pc EXCEPT ![cur] = IF @ = "close" THEN "run" ELSE "dispose"]
  /\ on' = [on EXCEPT ![cur] = NoChan]
  /\ UNCHANGED <<cur, fibers, ready, status, op, defer, busy, callbacks,
                 triggered, disposed, calls, buffer, senders, receivers,
                 closed, error, value, result, timers, sent, got, dropped>>

\* ... and returns.
DisposeEnds ==
  /\ Closing
  /\ receivers[on[cur]] = <<>> /\ senders[on[cur]] = <<>>
  /\ pc' = [pc EXCEPT ![cur] = IF @ = "close" THEN "run" ELSE "dispose"]
  /\ on' = [on EXCEPT ![cur] = NoChan]
  /\ UNCHANGED <<cur, fibers, ready, status, op, defer, busy, callbacks,
                 triggered, disposed, calls, buffer, senders, receivers,
                 closed, error, value, result, timers, sent, got, dropped>>

-----------------------------------------------------------------------------

ChannelStep(f, c) ==
  \/ SendToReceiver(f, c)
  \/ SendToBuffer(f, c)
  \/ \E timed \in BOOLEAN : SendBlocks(f, c, timed)
  \/ SendRefused(f, c)
  \/ NextFetches(f, c)
  \/ NextBlocks(f, c)
  \/ \E err \in BOOLEAN : close(f, c, err)

\* The handles that keep the loop alive: armed timers and timers being closed.
Handles ==
  timers \cup {m \in UNION {Range(senders[c]) : c \in Channels} : Dead(m)}

SchedStep ==
  \/ dispatch_tasks
  \/ \E t \in Tasks : run_task_fiber(t)
  \/ async_task_scheduler_dispose
  \/ run_scheduler_fiber(Handles)
  \/ DisposeDrain({c \in Channels : ~closed[c]})
  \/ \E f \in Fibers \cup {Runner} : CancelInvoke(f)
  \/ CancelLoop

Next ==
  \/ \E f \in Fibers, c \in Channels : ChannelStep(f, c)
  \/ \E f \in Fibers : \/ SendReturns(f)
                       \/ NextReturns(f)
                       \/ timeout_channel_send_cb(f)
  \/ \E c \in Channels : dispose_channel_send_timer_cb(c)
  \/ DisposeReceiver
  \/ DisposeSender
  \/ DisposeEnds
  \/ SchedStep /\ UNCHANGED chanVars

Spec == Init /\ [][Next]_vars

\* The fiber that has the CPU always goes on, and the loop fires its timers.
FairSpec == Spec /\ WF_vars(Next)

-----------------------------------------------------------------------------
(***************************************************************************)
(* Properties.                                                             *)
(***************************************************************************)

Buffered(c) ==
  [i \in 1..buffer[c].len |->
     buffer[c].data[(buffer[c].rpos + i - 1) % Size[c]]]

\* A message handed to a receiver that has not yet returned from next.
Handed(c) ==
  IF /\ cur \in Fibers /\ pc[cur] \in {"recv", "select"}
     /\ on[cur] = c /\ result[cur] # NoMsg
  THEN <<result[cur]>> ELSE <<>>

\* The channel seen as a queue: what was handed over, what is buffered and what
\* the pending send operations carry, in this order.
Fifo ==
  INSTANCE FifoChannel WITH
    queue     <- [c \in Channels |-> Handed(c) \o Buffered(c) \o senders[c]],
    delivered <- got,
    revoked   <- dropped,
    Messages  <- UNION {{f} \X (0..MaxCalls[f]) : f \in Fibers}

\* The channel implements the abstract queue: messages are delivered once and in
\* the order of the send calls, and none is lost that was not given up by a
\* timeout, a cancellation or a close, across buffer wrap-around, refill from a
\* blocked sender, direct hand-over and the dead operations that linger among
\* the senders.
ImplementsFifo == Fifo!FifoSpec

\* A receiver blocks only on a channel that has nothing to give, a sender only
\* on one that is full and has no receiver: a blocked sender and a blocked
\* receiver never face each other.
NoStrandedPair ==
  \A c \in Channels :
    /\ receivers[c] # <<>> => senders[c] = <<>> /\ buffer[c].len = 0
    /\ senders[c] # <<>> => buffer[c].len = Size[c]

\* close releases whoever is blocked on the channel, although its loops are
\* interrupted by every fiber they resume, and a send with a timeout ends, as
\* its timer is fired or closed.
BlockedReturn ==
  \A f \in Fibers :
    /\ \A c \in Channels :
         (closed[c] /\ on[f] = c /\ op[f] = "RUNNING") ~> op[f] # "RUNNING"
    /\ f \in timers ~> f \notin timers
=============================================================================
