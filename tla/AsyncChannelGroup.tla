------------------------- MODULE AsyncChannelGroup -------------------------
(***************************************************************************)
(* Dao\Async\ChannelGroup (ext/async/channel.c): select receives from the  *)
(* first of several channels that has a message, send gives a message to   *)
(* the first that takes it.  A blocked group operation is listed on every  *)
(* channel of the group; the channel that completes it resumes the fiber   *)
(* at once, and the fiber unlinks the other entries.  Each fiber has one   *)
(* group of its own, in which closed channels do not stay.                 *)
(***************************************************************************)
EXTENDS AsyncChannel

CONSTANTS
  Entries,   \* Entries[f]: the channels fiber f builds its group from
  Shuffled   \* the fibers whose group has the SHUFFLE flag

ASSUME GroupAssumption ==
  /\ IsFiniteSet(Channels)
  /\ Entries \in [Fibers -> Seq(Channels)]
  /\ \A f \in Fibers : IsInjective(Entries[f])
  /\ Shuffled \subseteq Fibers

VARIABLES
  group,      \* group->entries, compacted
  pending,    \* group->select.pending
  check,      \* the fibers whose group has the CHECK_CLOSED flag
  offered     \* history: messages of blocked group sends

groupVars == <<group, pending, check, offered>>
allVars == <<vars, group, pending, check, offered>>

GroupTypeOK ==
  /\ TypeOK
  /\ group \in [Fibers -> Seq(Channels)]
  /\ pending \in [Fibers -> 0..Cardinality(Channels)]
  /\ check \subseteq Fibers
  /\ offered \subseteq Messages

GroupInit ==
  /\ Init
  /\ group = Entries
  /\ pending = [f \in Fibers |-> 0]
  /\ check = {}
  /\ offered = {}

-----------------------------------------------------------------------------

HasMessage(c) == buffer[c].len > 0 \/ senders[c] # <<>>

\* The orders in which a group may be scanned: its own, or any order when it
\* is shuffled first.
Scan(f) == IF f \in Shuffled
           THEN {g \in [DOMAIN group[f] -> Range(group[f])] : IsInjective(g)}
           ELSE {group[f]}

\* The entries at the positions K, in their order.
InOrder(K) == CHOOSE p \in [1..Cardinality(K) -> K] :
                \A i, j \in DOMAIN p : i < j => p[i] < p[j]
Kept(g, K) == [i \in 1..Cardinality(K) |-> g[InOrder(K)[i]]]

\* shuffle_group on an empty group: count - 1 wraps around, and the loop swaps
\* entries far outside of the array.
ShuffleEmpty(f) ==
  /\ MayCall(f) /\ Call(f)
  /\ f \in Shuffled /\ group[f] = <<>>
  /\ pc' = [pc EXCEPT ![f] = "wild"]
  /\ UNCHANGED <<cur, fibers, ready, status, op, defer, busy, callbacks,
                 triggered, disposed, chanVars, groupVars>>

MayScan(f) == MayCall(f) /\ Call(f) /\ ~(f \in Shuffled /\ group[f] = <<>>)

\* compact_group removes the channels that were closed, one that has an error
\* only at the position `selected'.  Positions are compared after entries were
\* moved: a failed channel that moves there is removed as well.
compact_group(g, selected) ==
  LET open     == {i \in DOMAIN g : ~closed[g[i]] \/ error[g[i]]}
      place(i) == Cardinality({j \in open : j <= i})
  IN Kept(g, {i \in open :
       selected \in 1..place(i) =>
         \E j \in open : place(j) \in selected..place(i) /\ ~closed[g[j]]})

Position(g, c) == IF c \in Range(g) THEN CHOOSE i \in DOMAIN g : g[i] = c ELSE 0

-----------------------------------------------------------------------------
(***************************************************************************)
(* select.                                                                 *)
(***************************************************************************)
Spent(c)  == closed[c] /\ ~READABLE_NONBLOCK(c)
Alive(g) == Kept(g, {i \in DOMAIN g : ~Spent(g[i])})
Failing(g) == {i \in DOMAIN g : Spent(g[i]) /\ error[g[i]]}

\* The scan meets a channel that was closed with an error: it is removed, and
\* so are the dead ones before it; the error is thrown.
SelectThrows(f) ==
  /\ MayScan(f)
  /\ \E g \in Scan(f) :
       /\ Failing(g) # {}
       /\ group' = [group EXCEPT ![f] =
            Kept(g, {i \in DOMAIN g : i <= Min(Failing(g)) => ~Spent(g[i])})]
  /\ UNCHANGED <<cur, fibers, ready, status, pc, op, defer, busy, callbacks,
                 triggered, disposed, chanVars, pending, check, offered>>

\* The first channel that passes the readability test, if the test is right.
Readable(g)  == {i \in DOMAIN g : READABLE_NONBLOCK(g[i])}
Candidate(g) == g[Min(Readable(g))]
TakesNow(g)  == Readable(g) # {} /\ HasMessage(Candidate(g))

SelectFetches(f) ==
  /\ MayScan(f)
  /\ \E g \in Scan(f) :
       /\ Failing(g) = {} /\ TakesNow(g)
       /\ group' = [group EXCEPT ![f] = Alive(g)]
       /\ fetch_noblock(Candidate(g))
  /\ UNCHANGED <<pc, defer, busy, callbacks, triggered, disposed, receivers,
                 closed, error, on, value, result, timers, sent, dropped,
                 pending, check, offered>>

\* No channel is left, or the timeout is 0.
SelectGivesUp(f) ==
  /\ MayScan(f)
  /\ \E g \in Scan(f) :
       /\ Failing(g) = {} /\ ~TakesNow(g)
       /\ group' = [group EXCEPT ![f] = Alive(g)]
  /\ UNCHANGED <<cur, fibers, ready, status, pc, op, defer, busy, callbacks,
                 triggered, disposed, chanVars, pending, check, offered>>

\* A receive entry is registered with every channel and the fiber suspends.
SelectBlocks(f) ==
  /\ MayScan(f)
  /\ ~AwaitRefused(f)
  /\ \E g \in Scan(f) :
       /\ Failing(g) = {} /\ ~TakesNow(g) /\ Alive(g) # <<>>
       /\ group' = [group EXCEPT ![f] = Alive(g)]
       /\ pending' = [pending EXCEPT ![f] = Len(Alive(g))]
       /\ receivers' = [c \in Channels |->
            IF c \in Range(Alive(g)) THEN Append(receivers[c], f)
            ELSE receivers[c]]
  /\ on' = [on EXCEPT ![f] = NoChan]
  /\ AwaitOp(f, "select")
  /\ UNCHANGED <<ready, defer, triggered, disposed, buffer, senders, closed,
                 error, value, result, timers, sent, got, dropped, check,
                 offered>>

\* continue_select_cb for a message: the race is decided.
SendToSelector(f, c) ==
  /\ MaySend(f, c)
  /\ receivers[c] # <<>>
  /\ LET r == Head(receivers[c]) IN
     /\ pc[r] = "select"
     /\ receivers' = [receivers EXCEPT ![c] = Tail(@)]
     /\ pending' = [pending EXCEPT ![r] = @ - 1]
     /\ on' = [on EXCEPT ![r] = c]
     /\ result' = [result EXCEPT ![r] = Msg(f)]
     /\ reschedule_task(r, "RESOLVED")
  /\ sent' = [sent EXCEPT ![c] = Append(@, Msg(f))]
  /\ UNCHANGED <<pc, defer, busy, callbacks, triggered, disposed, buffer,
                 senders, closed, error, value, timers, got, dropped, check,
                 offered>>

\* Mutant: the closed channel is not counted off.
DisposeKeepsPending ==
  /\ Closing
  /\ LET c == on[cur]
         r == Head(receivers[c]) IN
     /\ receivers[c] # <<>> /\ pc[r] = "select"
     /\ receivers' = [receivers EXCEPT ![c] = Tail(@)]
     /\ check' = check \cup {r}
     /\ on' = IF error[c] THEN [on EXCEPT ![r] = c] ELSE on
     /\ IF error[c]
        THEN reschedule_task(r, CloseOutcome(c))
        ELSE UNCHANGED <<cur, fibers, ready, status, op>>
  /\ UNCHANGED <<pc, defer, busy, callbacks, triggered, disposed, calls,
                 buffer, senders, closed, error, value, result, timers, sent,
                 got, dropped, group, pending, offered>>

\* continue_select_cb for a closed channel: an error ends the select, a plain
\* close only if no other channel is pending.
DisposeSelector ==
  /\ Closing
  /\ LET c == on[cur]
         r == Head(receivers[c]) IN
     /\ receivers[c] # <<>> /\ pc[r] = "select"
     /\ receivers' = [receivers EXCEPT ![c] = Tail(@)]
     /\ pending' = [pending EXCEPT ![r] = @ - 1]
     /\ check' = check \cup {r}
     /\ on' = IF error[c] THEN [on EXCEPT ![r] = c] ELSE on
     /\ IF error[c] \/ pending[r] = 1
        THEN reschedule_task(r, CloseOutcome(c))
        ELSE UNCHANGED <<cur, fibers, ready, status, op>>
  /\ UNCHANGED <<pc, defer, busy, callbacks, triggered, disposed, calls,
                 buffer, senders, closed, error, value, result, timers, sent,
                 got, dropped, group, offered>>

\* The loop fires the timer of the group (which does not keep the loop alive).
timeout_select(f) ==
  /\ cur = Runner /\ pc[Runner] = "run" /\ pc[f] = "select" /\ op[f] = "RUNNING"
  /\ reschedule_task(f, "RESOLVED")
  /\ UNCHANGED <<pc, defer, busy, callbacks, triggered, disposed, calls,
                 chanVars, groupVars>>

\* Mutant: the entries on the other channels are not unlinked.
SelectKeepsOthers(f) ==
  /\ cur = f /\ pc[f] = "select" /\ Settled(f)
  /\ AwaitDone(f)
  /\ got' = IF op[f] = "RESOLVED" /\ on[f] # NoChan
            THEN [got EXCEPT ![on[f]] = Append(@, result[f])] ELSE got
  /\ check' = check \ {f}
  /\ result' = [result EXCEPT ![f] = NoMsg]
  /\ on' = [on EXCEPT ![f] = NoChan]
  /\ UNCHANGED <<cur, fibers, ready, status, defer, triggered, disposed, calls,
                 buffer, senders, receivers, closed, error, value, timers,
                 sent, dropped, group, pending, offered>>

\* The rest of select: the remaining entries are unlinked and closed channels
\* are removed from the group.
SelectReturns(f) ==
  /\ cur = f /\ pc[f] = "select" /\ Settled(f)
  /\ AwaitDone(f)
  /\ got' = IF op[f] = "RESOLVED" /\ on[f] # NoChan
            THEN [got EXCEPT ![on[f]] = Append(@, result[f])] ELSE got
  /\ receivers' = [c \in Channels |-> ASYNC_LIST_REMOVE(receivers[c], f)]
  /\ group' = IF f \in check
              THEN [group EXCEPT ![f] = compact_group(@, Position(@, on[f]))]
              ELSE group
  /\ check' = check \ {f}
  /\ result' = [result EXCEPT ![f] = NoMsg]
  /\ on' = [on EXCEPT ![f] = NoChan]
  /\ UNCHANGED <<cur, fibers, ready, status, defer, triggered, disposed, calls,
                 buffer, senders, closed, error, value, timers, sent, dropped,
                 pending, offered>>

-----------------------------------------------------------------------------
(***************************************************************************)
(* send on a group.                                                        *)
(***************************************************************************)
Writable(c)   == receivers[c] # <<>> \/ buffer[c].len < Size[c]
ClosedIn(g)   == {i \in DOMAIN g : closed[g[i]]}
Accepting(g)  == {i \in DOMAIN g : Writable(g[i])}

\* The first closed channel is removed from the group and send throws.
GroupSendThrows(f) ==
  /\ MayScan(f)
  /\ \E g \in Scan(f) :
       /\ ClosedIn(g) # {}
       /\ group' = [group EXCEPT ![f] = Kept(g, DOMAIN g \ {Min(ClosedIn(g))})]
  /\ UNCHANGED <<cur, fibers, ready, status, pc, op, defer, busy, callbacks,
                 triggered, disposed, chanVars, pending, check, offered>>

\* The first channel with a receiver or with room takes the message.
GroupSendGives(f) ==
  /\ \E g \in Scan(f) :
       /\ ClosedIn(g) = {} /\ Accepting(g) # {}
       /\ group' = [group EXCEPT ![f] = g]
       /\ LET c == g[Min(Accepting(g))] IN
          \/ SendToReceiver(f, c) /\ UNCHANGED <<pending, check, offered>>
          \/ SendToBuffer(f, c) /\ UNCHANGED <<pending, check, offered>>
          \/ SendToSelector(f, c)

\* No channel is left, or none accepts and the timeout is 0.
GroupSendGivesUp(f) ==
  /\ MayScan(f)
  /\ \E g \in Scan(f) :
       /\ ClosedIn(g) = {} /\ Accepting(g) = {}
       /\ group' = [group EXCEPT ![f] = g]
  /\ UNCHANGED <<cur, fibers, ready, status, pc, op, defer, busy, callbacks,
                 triggered, disposed, chanVars, pending, check, offered>>

\* A send operation is registered with every channel and the fiber suspends.
GroupSendBlocks(f, timed) ==
  /\ MayScan(f)
  /\ ~AwaitRefused(f)
  /\ group[f] # <<>> /\ ClosedIn(group[f]) = {} /\ Accepting(group[f]) = {}
  /\ \E g \in Scan(f) : group' = [group EXCEPT ![f] = g]
  /\ senders' = [c \in Channels |->
       IF c \in Range(group[f]) THEN Append(senders[c], Msg(f)) ELSE senders[c]]
  /\ value' = [value EXCEPT ![f] = Msg(f)]
  /\ offered' = offered \cup {Msg(f)}
  /\ timers' = IF timed THEN timers \cup {f} ELSE timers
  /\ AwaitOp(f, "gsend")
  /\ UNCHANGED <<ready, defer, triggered, disposed, buffer, receivers, closed,
                 error, on, result, sent, got, dropped, pending, check>>

\* The loop fires the timer of a group send.
timeout_send_cb(f) ==
  /\ cur = Runner /\ pc[Runner] = "run" /\ f \in timers /\ pc[f] = "gsend"
  /\ timers' = timers \ {f}
  /\ reschedule_task(f, "RESOLVED")
  /\ UNCHANGED <<pc, defer, busy, callbacks, triggered, disposed, calls,
                 buffer, senders, receivers, closed, error, on, value, result,
                 sent, got, dropped, groupVars>>

\* The channel that completed the group send of f is the one that no longer
\* lists it; none did when the send timed out or was cancelled.
Completer(f) == {c \in Range(group[f]) : value[f] \notin Range(senders[c])}

\* Mutant: the operations on the other channels are not unlinked.
GroupSendKeepsOthers(f) ==
  /\ cur = f /\ pc[f] = "gsend" /\ Settled(f)
  /\ AwaitDone(f)
  /\ dropped' = IF Completer(f) = {} THEN dropped \cup {value[f]} ELSE dropped
  /\ value' = [value EXCEPT ![f] = NoMsg]
  /\ timers' = timers \ {f}
  /\ UNCHANGED <<cur, fibers, ready, status, defer, triggered, disposed, calls,
                 buffer, senders, receivers, closed, error, on, result, sent,
                 got, group, pending, check, offered>>

\* The rest of a blocked group send: the other operations are unlinked, and
\* the group is compacted when the completing channel is closed.
GroupSendReturns(f) ==
  /\ cur = f /\ pc[f] = "gsend" /\ Settled(f)
  /\ AwaitDone(f)
  /\ dropped' = IF Completer(f) = {} THEN dropped \cup {value[f]} ELSE dropped
  /\ senders' = [c \in Channels |-> ASYNC_LIST_REMOVE(senders[c], value[f])]
  /\ group' = [group EXCEPT ![f] =
       IF \E c \in Completer(f) : closed[c]
       THEN LET c == CHOOSE d \in Completer(f) : TRUE IN
            compact_group(@, IF error[c] /\ value[f] \in dropped
                             THEN Position(@, c) ELSE 0)
       ELSE @]
  /\ value' = [value EXCEPT ![f] = NoMsg]
  /\ timers' = timers \ {f}
  /\ UNCHANGED <<cur, fibers, ready, status, defer, triggered, disposed, calls,
                 buffer, receivers, closed, error, on, result, sent, got,
                 pending, check, offered>>

-----------------------------------------------------------------------------

GroupStep(f) ==
  \/ ShuffleEmpty(f)
  \/ SelectThrows(f)
  \/ SelectFetches(f)
  \/ SelectGivesUp(f)
  \/ SelectBlocks(f)
  \/ SelectReturns(f)
  \/ timeout_select(f)
  \/ GroupSendThrows(f)
  \/ GroupSendGives(f)
  \/ GroupSendGivesUp(f)
  \/ \E timed \in BOOLEAN : GroupSendBlocks(f, timed)
  \/ timeout_send_cb(f)
  \/ GroupSendReturns(f)
  \/ \E c \in Channels : SendToSelector(f, c) /\ UNCHANGED group

GroupNext ==
  \/ Next /\ UNCHANGED groupVars
  \/ \E f \in Fibers : GroupStep(f)
  \/ DisposeSelector

GroupSpec == GroupInit /\ [][GroupNext]_allVars

-----------------------------------------------------------------------------
(***************************************************************************)
(* Properties.                                                             *)
(***************************************************************************)
Accepted == offered \cup UNION {Range(sent[c]) : c \in Channels}

\* The copies of a message that a channel has, and the operation that waits.
Copy(c, m) ==
  {<<"got", c, i>> : i \in {j \in DOMAIN got[c] : got[c][j] = m}}
  \cup {<<"handed", c, i>> : i \in {j \in DOMAIN Handed(c) : Handed(c)[j] = m}}
  \cup {<<"buffered", c, i>> : i \in {j \in DOMAIN Buffered(c) : Buffered(c)[j] = m}}
Waiter(m) ==
  {f \in Fibers : value[f] = m /\
     \/ Completer(f) = {} /\ pc[f] = "gsend"
     \/ pc[f] = "send" /\ m \in Range(senders[on[f]])}
Copies(m) ==
  (UNION {Copy(c, m) : c \in Channels}) \cup ({"pending"} \X Waiter(m))

\* A message offered to several channels, and a fiber listed on several
\* channels, still make for one delivery: every accepted message is in exactly
\* one place, whichever channel wins the race; one that was given up is in at
\* most one, and in none if it was sent through a group.
ExactlyOnce ==
  \A m \in Accepted :
    /\ Cardinality(Copies(m)) <= 1
    /\ m \notin dropped => Copies(m) # {}
    /\ m \in dropped \cap offered => Copies(m) = {}

\* Whoever is listed on a channel waits in the library for it; no entry of a
\* select or a group send outlives the call.
NoGhostEntry ==
  \A f \in Fibers, c \in Channels :
    /\ f \in Range(receivers[c]) =>
         pc[f] \in {"recv", "select"} /\ (op[f] = "RUNNING" \/ f = cur)
    /\ \A m \in Range(senders[c]) : Owner(m) = f =>
         \/ m \in dropped /\ m \notin offered
         \/ pc[f] \in {"send", "gsend"} /\ (op[f] = "RUNNING" \/ f = cur)

\* A blocked select counts the channels that list it, and there is one: closes
\* never unlink a select from all of its channels without ending it.
SelectCanEnd ==
  \A f \in Fibers :
    pc[f] = "select" /\ op[f] = "RUNNING" =>
      LET listed == {c \in Channels : f \in Range(receivers[c])} IN
      pending[f] = Cardinality(listed) /\ listed # {}

\* "Perform a non-blocking select if a channel is ready": a select blocks
\* only if no channel of its group has a buffered message or a blocked sender.
SelectTakesReady ==
  [][\A f \in Fibers :
       pc[f] = "run" /\ pc'[f] = "select" =>
         \A c \in Range(group'[f]) : ~HasMessage(c)]_allVars
=============================================================================
