---------------------------- MODULE FifoChannel ----------------------------
(***************************************************************************)
(* What Dao\Async\Channel promises to those who use it, without fibers,    *)
(* buffers, timers and lists of operations: a queue of the messages that   *)
(* were sent and have not yet been delivered.  Messages are delivered from *)
(* its front, each once.  A message leaves the queue in another way only   *)
(* when it was revoked, by a timeout, a cancellation or a close; one that  *)
(* was revoked may linger in the queue and may even be delivered.  Nothing *)
(* is sent to a channel that is closed; what was buffered may still be     *)
(* read.                                                                   *)
(***************************************************************************)
EXTENDS SequencesExt

CONSTANTS Channels, Messages

VARIABLES
  queue,      \* queue[c]: the messages under way, oldest first
  delivered,  \* delivered[c]: the messages given to readers, in order
  revoked,    \* the messages given up by a timeout, a cancellation, a close
  closed      \* closed[c]: close has been called

fifoVars == <<queue, delivered, revoked, closed>>

FifoInit ==
  /\ queue = [c \in Channels |-> <<>>]
  /\ delivered = [c \in Channels |-> <<>>]
  /\ revoked = {}
  /\ closed \in [Channels -> BOOLEAN]

Fresh(m) ==
  \A c \in Channels : m \notin Range(queue[c]) \cup Range(delivered[c])

\* A send that is refused at once has its message revoked from the start.
Send(c, m) ==
  /\ ~closed[c]
  /\ Fresh(m)
  /\ queue' = [queue EXCEPT ![c] = Append(@, m)]
  /\ revoked' \in {revoked, revoked \cup {m}}
  /\ UNCHANGED <<delivered, closed>>

Deliver(c) ==
  /\ queue[c] # <<>>
  /\ delivered' = [delivered EXCEPT ![c] = Append(@, Head(queue[c]))]
  /\ queue' = [queue EXCEPT ![c] = Tail(@)]
  /\ UNCHANGED <<revoked, closed>>

\* A message is revoked and leaves the queue, now or later.
Revoke(c, m) ==
  /\ \E i \in DOMAIN queue[c] :
       /\ queue[c][i] = m
       /\ queue' \in {queue, [queue EXCEPT ![c] = RemoveAt(@, i)]}
  /\ revoked' = revoked \cup {m}
  /\ UNCHANGED <<delivered, closed>>

Close(c) ==
  /\ ~closed[c]
  /\ closed' = [closed EXCEPT ![c] = TRUE]
  /\ UNCHANGED <<queue, delivered, revoked>>

FifoNext ==
  \E c \in Channels :
    \/ \E m \in Messages : Send(c, m) \/ Revoke(c, m)
    \/ Deliver(c)
    \/ Close(c)

FifoSpec == FifoInit /\ [][FifoNext]_fifoVars
=============================================================================
