---------------------------- MODULE AsyncStream -----------------------------
(***************************************************************************)
(* A duplex stream of ext/async/stream.c (TCP socket, pipe, console) that  *)
(* several fibers read, write, flush, shut down and close, without TLS and *)
(* without passing handles over a pipe.                                    *)
(*                                                                         *)
(* Reading: libuv fills the ring buffer while the handle reads; one read   *)
(* operation at a time waits for bytes, the end of the stream, an error, a *)
(* timeout or a close.  Writing: an operation is given to libuv at once    *)
(* when none is queued, or else queued; write_cb completes one operation   *)
(* and starts the next.  flush() waits for an empty queue, and a shutdown  *)
(* of the write side is delayed until then.                                *)
(*                                                                         *)
(* Every completion resumes a fiber inside the callback, and what that     *)
(* fiber does to the stream is what the callback finds when it continues.  *)
(***************************************************************************)
EXTENDS AsyncScheduler, AsyncRingBuffer

CONSTANTS
  May,        \* May[f]: the calls fiber f makes
  Low,        \* 4096: libuv reads only while so many cells are free
  MaxBytes,   \* bound: the bytes the peer sends
  None

ASSUME StreamAssumption ==
  /\ May \in [Fibers -> SUBSET {"read", "timedread", "write", "asyncwrite",
                                "flush", "shutrd", "shutwr", "close"}]
  /\ Low \in 1..BufSize
  /\ MaxBytes \in Nat
  /\ None \notin Fibers

VARIABLES
  flags,      \* stream->flags
  ring,       \* stream->buffer
  arrived,    \* the bytes the peer has sent so far; they are numbered from 1
  taken,      \* history: the bytes the reads have returned
  reader,     \* the fiber whose read operation is in stream->read
  want,       \* read.req->in.len
  alarm,      \* stream->timer is armed
  reading,    \* libuv reads from the handle
  writes,     \* stream->writes
  started,    \* the write operations with ASYNC_STREAM_WRITE_OP_FLAG_STARTED
  detached,   \* the write operations nobody waits for
  wire,       \* the write requests libuv has, oldest first
  sent,       \* history: the numbers of the writes libuv has completed
  issued,     \* history: the number of writes so far
  stale,      \* the detached operations whose callback still resumes a fiber
  flush,      \* stream->flush
  shutreq,    \* libuv has the shutdown request
  handle,     \* "open", "closing" after uv_close, "closed"
  retried,    \* history: a read was started while read_cb reported an error
  late        \* history: a write was queued while write_cb woke the flushers

streamVars == <<flags, ring, arrived, taken, reader, want, alarm, reading,
                writes, started, detached, stale, wire, sent, issued, flush,
                shutreq, handle, retried, late>>
readVars  == <<ring, arrived, taken, reader, want, alarm, retried>>
writeVars == <<writes, started, detached, stale, wire, sent, issued, flush, late>>
vars == <<schedVars, streamVars>>

\* A write operation: its number and the fiber that made it.
WriteOps == [n : Nat, f : Fibers]

Flags == {"EOF", "CLOSED", "SHUT_RD", "SHUT_WR", "READING", "SHUTDOWN",
          "DELAY_SHUTDOWN", "WRITING"}

StreamTypeOK ==
  /\ SchedTypeOK
  /\ flags \subseteq Flags
  /\ ring.rpos \in Cells /\ ring.wpos \in Cells /\ ring.len \in 0..BufSize
  /\ ring.mem \in [Cells -> 0..MaxBytes]
  /\ arrived \in 0..MaxBytes
  /\ taken \in Seq(1..MaxBytes)
  /\ reader \in Fibers \cup {None} /\ want \in Nat
  /\ alarm \in BOOLEAN /\ reading \in BOOLEAN /\ shutreq \in BOOLEAN
  /\ writes \in Seq(WriteOps) /\ wire \in Seq(WriteOps)
  /\ sent \in Seq(Nat) /\ issued \in Nat
  /\ started \subseteq WriteOps /\ detached \subseteq WriteOps
  /\ stale \subseteq detached
  /\ flush \in Seq(Fibers)
  /\ handle \in {"open", "closing", "closed"}
  /\ retried \in BOOLEAN /\ late \in BOOLEAN

Init ==
  /\ SchedInit
  /\ flags = {} /\ ring = EmptyRing
  /\ arrived = 0 /\ taken = <<>>
  /\ reader = None /\ want = 0
  /\ alarm = FALSE /\ reading = FALSE
  /\ writes = <<>> /\ started = {} /\ detached = {} /\ stale = {}
  /\ wire = <<>> /\ sent = <<>> /\ issued = 0
  /\ flush = <<>> /\ shutreq = FALSE
  /\ handle = "open"
  /\ retried = FALSE /\ late = FALSE

-----------------------------------------------------------------------------
ReadRunning == reader # None /\ op[reader] = "RUNNING"

\* should_start_read and should_continue_read, which agree without IPC.
ShouldRead(b) == BufSize - b.len >= Low

\* A foreground read or write references the handle (await_op), which keeps
\* the loop alive while the handle is active; so do requests and a closing
\* handle.
Held == \E f \in Fibers \ Background : pc[f] \in {"read", "write"}

Alive == \/ wire # <<>> \/ shutreq \/ handle = "closing"
         \/ Held /\ reading

\* ASYNC_FINISH_OP of the read operation, and pc' of the fiber that does it.
FinishRead(where) ==
  /\ reschedule_task(reader, "RESOLVED")
  /\ pc' = [pc EXCEPT ![cur] = where]

\* The same when a read is running; otherwise the caller just continues.
FinishIfReading(condition, where) ==
  IF condition /\ ReadRunning
  THEN FinishRead(where)
  ELSE /\ pc' = [pc EXCEPT ![cur] = where]
       /\ UNCHANGED <<cur, fibers, ready, status, op>>

-----------------------------------------------------------------------------
(***************************************************************************)
(* Reading.                                                                *)
(***************************************************************************)

\* Moves up to n bytes from the buffer to a reader.
Take(n) ==
  LET r == async_ring_buffer_read(ring, AtMost(n, ring.len))
  IN /\ ring' = r.ring
     /\ taken' = taken \o r.out

\* A read that returns at once: the read side is shut, another read is
\* pending, or the stream has ended and the buffer is empty.
ReadAtOnce ==
  /\ \/ "SHUT_RD" \in flags
     \/ ReadRunning
     \/ ring.len = 0 /\ "EOF" \in flags
  /\ UNCHANGED <<cur, fibers, ready, status, pc, op, callbacks, streamVars>>

\* Buffered bytes are returned at once.  The test of the flags is
\* !(flags && EOF), so reading ahead is resumed only when no flag is set.
ReadBuffered(n) ==
  /\ "SHUT_RD" \notin flags /\ ~ReadRunning /\ ring.len > 0
  /\ Take(n)
  /\ LET ahead == flags = {} /\ ShouldRead(ring')
     IN /\ flags' = IF ahead THEN flags \cup {"READING"} ELSE flags
        /\ reading' = (reading \/ ahead)
  /\ UNCHANGED <<cur, fibers, ready, status, pc, op, callbacks, arrived, reader,
                 want, alarm, retried, writeVars, shutreq, handle>>

\* The read waits: libuv is told to read unless it was told before.
ReadWaits(f, n, timed) ==
  /\ flags \cap {"SHUT_RD", "EOF"} = {} /\ ~ReadRunning /\ ring.len = 0
  /\ flags' = flags \cup {"READING"}
  /\ reading' = (reading \/ "READING" \notin flags)
  /\ retried' = (retried \/ pc[Runner] = "readerror")
  /\ IF AwaitRefused(f)
     THEN UNCHANGED <<cur, fibers, ready, status, pc, op, callbacks, reader,
                      want, alarm>>
     ELSE /\ AwaitSuspend(f, "read")
          /\ reader' = f /\ want' = n
          /\ alarm' = timed
          /\ UNCHANGED ready
  /\ UNCHANGED <<ring, arrived, taken, writeVars, shutreq, handle>>

async_stream_read(f) ==
  /\ MayCall(f) /\ Call(f)
  /\ \E n \in {1, BufSize}, timed \in BOOLEAN :
       /\ (IF timed THEN "timedread" ELSE "read") \in May[f]
       /\ ReadAtOnce \/ ReadBuffered(n) \/ ReadWaits(f, n, timed)
  /\ UNCHANGED <<defer, busy, triggered, disposed>>

\* async_stream_read after the wait: the timer is stopped and the operation
\* reset.
ReadReturns(f) ==
  /\ cur = f /\ pc[f] = "read" /\ Settled(f)
  /\ AwaitResume(f)
  /\ reader' = None /\ want' = 0 /\ alarm' = FALSE
  /\ UNCHANGED <<cur, fibers, ready, status, defer, busy, triggered, disposed,
                 calls, flags, ring, arrived, taken, retried, reading,
                 writeVars, shutreq, handle>>

\* libuv calls read_cb with bytes it wrote into the buffer.
ReadData ==
  /\ cur = Runner /\ pc[Runner] = "run" /\ reading
  /\ \E k \in 1..async_ring_buffer_write_len(ring) :
       /\ arrived + k <= MaxBytes
       /\ arrived' = arrived + k
       /\ ring' = async_ring_buffer_write_move(ring, [i \in 1..k |-> arrived + i])
  /\ pc' = [pc EXCEPT ![Runner] = "readcb"]
  /\ UNCHANGED <<cur, fibers, ready, status, op, defer, busy, callbacks,
                 triggered, disposed, calls, flags, taken, reader, want, alarm,
                 retried, reading, writeVars, shutreq, handle>>

\* libuv calls read_cb at the end of the stream, or when the peer has reset the
\* connection; it has stopped reading.
ReadEnd ==
  /\ cur = Runner /\ pc[Runner] = "run" /\ reading
  /\ flags' = flags \cup {"EOF"}
  /\ reading' = FALSE
  /\ pc' = [pc EXCEPT ![Runner] = "readcb"]
  /\ UNCHANGED <<cur, fibers, ready, status, op, defer, busy, callbacks,
                 triggered, disposed, calls, readVars, writeVars, shutreq, handle>>

\* libuv calls read_cb with any other error; without room for a single byte
\* that is what it does (UV_ENOBUFS).
ReadFails ==
  /\ cur = Runner /\ pc[Runner] = "run" /\ reading
  /\ flags' = flags \ {"READING"}
  /\ reading' = FALSE
  /\ pc' = [pc EXCEPT ![Runner] = "readerror"]
  /\ UNCHANGED <<cur, fibers, ready, status, op, defer, busy, callbacks,
                 triggered, disposed, calls, readVars, writeVars, shutreq, handle>>

\* The loop of read_cb that ends the pending read with the error.  Back in
\* libuv, a reading that was started meanwhile is stopped.
ReadErrorTurn ==
  /\ cur = Runner /\ pc[Runner] = "readerror"
  /\ FinishIfReading(TRUE, IF ReadRunning THEN "readerror" ELSE "run")
  /\ reading' = (reading /\ ReadRunning)
  /\ UNCHANGED <<defer, busy, callbacks, triggered, disposed, calls, flags,
                 readVars, writeVars, shutreq, handle>>

\* One turn of the loop of read_cb that hands out the buffered bytes.
read_cb ==
  /\ cur = Runner /\ pc[Runner] = "readcb"
  /\ ReadRunning /\ ring.len > 0
  /\ Take(want)
  /\ FinishRead("readcb")
  /\ UNCHANGED <<defer, busy, callbacks, triggered, disposed, calls, flags,
                 arrived, reader, want, alarm, retried, reading, writeVars,
                 shutreq, handle>>

\* Mutant: reading is not stopped when the buffer is full.
StopsAtEnd ==
  /\ cur = Runner /\ pc[Runner] = "readcb"
  /\ ~(ReadRunning /\ ring.len > 0)
  /\ LET stop == "EOF" \in flags
     IN /\ flags' = IF stop THEN flags \ {"READING"} ELSE flags
        /\ reading' = (reading /\ ~stop)
  /\ pc' = [pc EXCEPT ![Runner] = IF "EOF" \in flags THEN "readeof" ELSE "run"]
  /\ UNCHANGED <<cur, fibers, ready, status, op, defer, busy, callbacks,
                 triggered, disposed, calls, readVars, writeVars, shutreq, handle>>

\* The rest of read_cb: reading stops at the end of the stream and when the
\* buffer is nearly full.
ReadCbEnds ==
  /\ cur = Runner /\ pc[Runner] = "readcb"
  /\ ~(ReadRunning /\ ring.len > 0)
  /\ LET stop == "EOF" \in flags \/ ~ShouldRead(ring)
     IN /\ flags' = IF stop THEN flags \ {"READING"} ELSE flags
        /\ reading' = (reading /\ ~stop)
  /\ pc' = [pc EXCEPT ![Runner] = IF "EOF" \in flags THEN "readeof" ELSE "run"]
  /\ UNCHANGED <<cur, fibers, ready, status, op, defer, busy, callbacks,
                 triggered, disposed, calls, readVars, writeVars, shutreq, handle>>

\* At the end of the stream the pending read returns without bytes.
ReadEofTurn ==
  /\ cur = Runner /\ pc[Runner] = "readeof"
  /\ FinishIfReading(TRUE, IF ReadRunning THEN "readeof" ELSE "run")
  /\ UNCHANGED <<defer, busy, callbacks, triggered, disposed, calls, flags,
                 readVars, writeVars, reading, shutreq, handle>>

timeout_read ==
  /\ cur = Runner /\ pc[Runner] = "run" /\ alarm
  /\ alarm' = FALSE
  /\ FinishIfReading(TRUE, "run")
  /\ UNCHANGED <<defer, busy, callbacks, triggered, disposed, calls, flags, ring,
                 arrived, taken, reader, want, retried, reading, writeVars,
                 shutreq, handle>>

-----------------------------------------------------------------------------
(***************************************************************************)
(* Writing.                                                                *)
(***************************************************************************)

\* The write side is shut, or uv_try_write reports an error: nothing is kept.
WriteRefused ==
  /\ "SHUT_WR" \in flags \/ (writes = <<>> /\ "WRITING" \notin flags)
  /\ UNCHANGED <<cur, fibers, ready, status, pc, op, callbacks, streamVars>>

\* uv_try_write takes all the data.
WriteAtOnce(o) ==
  /\ "SHUT_WR" \notin flags /\ writes = <<>> /\ "WRITING" \notin flags
  /\ sent' = Append(sent, o.n)
  /\ issued' = o.n
  /\ UNCHANGED <<cur, fibers, ready, status, pc, op, callbacks, flags, readVars,
                 reading, writes, started, detached, stale, wire, flush, late,
                 shutreq, handle>>

\* The operation is listed, and given to libuv if nothing is listed before it.
\* An operation whose wait is refused is dropped, unless libuv has it: it then
\* goes on like an asynchronous one.
WriteListed(f, o, async) ==
  /\ "SHUT_WR" \notin flags
  /\ LET start  == writes = <<>> /\ "WRITING" \notin flags
         nowait == async \/ AwaitRefused(f)
         drop   == ~async /\ AwaitRefused(f) /\ ~start
     IN /\ writes' = IF drop THEN writes ELSE Append(writes, o)
        /\ started' = IF start THEN started \cup {o} ELSE started
        /\ wire' = IF start THEN Append(wire, o) ELSE wire
        /\ detached' = IF nowait /\ ~drop THEN detached \cup {o} ELSE detached
        /\ late' = (late \/ (pc[Runner] = "writeflush" /\ ~drop))
        /\ IF nowait
           THEN UNCHANGED <<cur, fibers, status, pc, op, callbacks>>
           ELSE AwaitSuspend(f, "write")
  /\ issued' = o.n
  /\ UNCHANGED <<ready, flags, readVars, reading, stale, sent, flush, shutreq,
                 handle>>

async_stream_write(f) ==
  /\ MayCall(f) /\ Call(f)
  /\ \E async \in BOOLEAN :
       LET o == [n |-> issued + 1, f |-> f]
       IN /\ (IF async THEN "asyncwrite" ELSE "write") \in May[f]
          /\ WriteRefused \/ WriteAtOnce(o) \/ WriteListed(f, o, async)
  /\ UNCHANGED <<defer, busy, triggered, disposed>>

\* The operation fiber f waits for, as long as it is listed.
MineListed(f) == {o \in Range(writes) : o.f = f /\ o \notin detached}

\* async_stream_write after the wait.  A cancelled operation is still listed
\* (cancel_op does not unlink it): it is dropped if libuv does not have it, and
\* otherwise put first and left to itself, with the callback of the wait.
WriteReturns(f) ==
  /\ cur = f /\ pc[f] = "write" /\ Settled(f)
  /\ AwaitResume(f)
  /\ IF op[f] = "RESOLVED"
     THEN UNCHANGED <<writes, detached, stale>>
     ELSE LET o == CHOOSE x \in MineListed(f) : TRUE
              rest == ASYNC_LIST_REMOVE(writes, o)
          IN IF o \in started
             THEN /\ writes' = <<o>> \o rest
                  /\ detached' = detached \cup {o}
                  /\ stale' = stale \cup {o}
             ELSE /\ writes' = rest
                  /\ UNCHANGED <<detached, stale>>
  /\ UNCHANGED <<cur, fibers, ready, status, defer, busy, triggered, disposed,
                 calls, flags, readVars, reading, started, wire, sent, issued,
                 flush, late, shutreq, handle>>

\* libuv reports the end of a write: all are done in order, and when the handle
\* is closing all have failed.  The operation is completed, which resumes the
\* fiber that waits for it, and freed.
write_cb ==
  /\ cur = Runner /\ pc[Runner] = "run" /\ wire # <<>>
  /\ LET o == Head(wire)
     IN /\ wire' = Tail(wire)
        /\ \/ handle = "open" /\ sent' = Append(sent, o.n)
           \/ UNCHANGED sent
        /\ writes' = ASYNC_LIST_REMOVE(writes, o)
        /\ started' = started \ {o}
        /\ detached' = detached \ {o}
        /\ stale' = stale \ {o}
        /\ CASE o \notin detached -> reschedule_task(o.f, "RESOLVED")
             [] o \in stale -> /\ async_fiber_switch(o.f)
                               /\ status' = [status EXCEPT ![o.f] = "RUNNING"]
                               /\ UNCHANGED <<ready, op>>
             [] OTHER -> UNCHANGED <<cur, fibers, ready, status, op>>
  /\ flags' = flags \cup {"WRITING"}
  /\ pc' = [pc EXCEPT ![Runner] = "writecb"]
  /\ UNCHANGED <<defer, busy, callbacks, triggered, disposed, calls, readVars,
                 reading, issued, flush, late, shutreq, handle>>

\* Mutant: the next operation is not started.
StartsNothing ==
  /\ cur = Runner /\ pc[Runner] = "writecb"
  /\ UNCHANGED <<started, wire>>
  /\ IF writes = <<>>
     THEN pc' = [pc EXCEPT ![Runner] = "writeflush"] /\ UNCHANGED flags
     ELSE pc' = [pc EXCEPT ![Runner] = "run"] /\ flags' = flags \ {"WRITING"}
  /\ UNCHANGED <<cur, fibers, ready, status, op, defer, busy, callbacks,
                 triggered, disposed, calls, readVars, reading, writes, detached,
                 stale, sent, issued, flush, late, shutreq, handle>>

\* The next operation, unless libuv has it, is given to libuv, which refuses it
\* when the handle is closing: the result of uv_write is not looked at.
process_write ==
  /\ cur = Runner /\ pc[Runner] = "writecb"
  /\ IF writes # <<>> /\ Head(writes) \notin started
     THEN /\ started' = started \cup {Head(writes)}
          /\ wire' = IF handle = "open" THEN Append(wire, Head(writes)) ELSE wire
     ELSE UNCHANGED <<started, wire>>
  /\ IF writes = <<>>
     THEN pc' = [pc EXCEPT ![Runner] = "writeflush"] /\ UNCHANGED flags
     ELSE pc' = [pc EXCEPT ![Runner] = "run"] /\ flags' = flags \ {"WRITING"}
  /\ UNCHANGED <<cur, fibers, ready, status, op, defer, busy, callbacks,
                 triggered, disposed, calls, readVars, reading, writes, detached,
                 stale, sent, issued, flush, late, shutreq, handle>>

\* uv_shutdown, which fails when the handle is closing.
trigger_shutdown_wr(base) ==
  /\ shutreq' = (handle = "open")
  /\ flags' = IF handle = "open" THEN base \cup {"SHUTDOWN"} ELSE base

\* Mutant: only the first fiber in flush() is resumed.
FlushesFirst ==
  /\ cur = Runner /\ pc[Runner] = "writeflush"
  /\ IF flush # <<>>
     THEN /\ flush' = Tail(flush)
          /\ reschedule_task(Head(flush), "RESOLVED")
     ELSE UNCHANGED <<cur, fibers, ready, status, op, flush>>
  /\ IF "DELAY_SHUTDOWN" \in flags
     THEN trigger_shutdown_wr(flags \ {"WRITING"})
     ELSE flags' = flags \ {"WRITING"} /\ UNCHANGED shutreq
  /\ pc' = [pc EXCEPT ![Runner] = "run"]
  /\ UNCHANGED <<defer, busy, callbacks, triggered, disposed, calls, readVars,
                 reading, writes, started, detached, stale, wire, sent, issued,
                 late, handle>>

\* The queue is empty: everyone in flush() is resumed and the delayed shutdown
\* is made.
WriteFlushTurn ==
  /\ cur = Runner /\ pc[Runner] = "writeflush"
  /\ IF flush # <<>>
     THEN /\ flush' = Tail(flush)
          /\ reschedule_task(Head(flush), "RESOLVED")
          /\ UNCHANGED <<pc, flags, shutreq>>
     ELSE /\ IF "DELAY_SHUTDOWN" \in flags
             THEN trigger_shutdown_wr(flags \ {"WRITING"})
             ELSE flags' = flags \ {"WRITING"} /\ UNCHANGED shutreq
          /\ pc' = [pc EXCEPT ![Runner] = "run"]
          /\ UNCHANGED <<cur, fibers, ready, status, op, flush>>
  /\ UNCHANGED <<defer, busy, callbacks, triggered, disposed, calls, readVars,
                 reading, writes, started, detached, stale, wire, sent, issued,
                 late, handle>>

async_stream_flush(f) ==
  /\ MayCall(f) /\ Call(f) /\ "flush" \in May[f]
  /\ IF writes = <<>> \/ AwaitRefused(f)
     THEN UNCHANGED <<cur, fibers, status, pc, op, callbacks, flush>>
     ELSE AwaitSuspend(f, "flush") /\ flush' = Append(flush, f)
  /\ UNCHANGED <<ready, defer, busy, triggered, disposed, flags, readVars,
                 reading, writes, started, detached, stale, wire, sent, issued,
                 late, shutreq, handle>>

FlushReturns(f) ==
  /\ cur = f /\ pc[f] = "flush" /\ Settled(f)
  /\ AwaitResume(f)
  /\ flush' = ASYNC_LIST_REMOVE(flush, f)
  /\ UNCHANGED <<cur, fibers, ready, status, defer, busy, triggered, disposed,
                 calls, flags, readVars, reading, writes, started, detached,
                 stale, wire, sent, issued, late, shutreq, handle>>

-----------------------------------------------------------------------------
(***************************************************************************)
(* Shutting down and closing.                                              *)
(***************************************************************************)

\* async_stream_shutdown up to the completion of the pending read, which a
\* shutdown of the read side ends.
async_stream_shutdown(f) ==
  /\ MayCall(f) /\ Call(f)
  /\ \E how \in (SUBSET {"SHUT_RD", "SHUT_WR"}) \ {{}} :
       /\ "SHUT_RD" \in how => "shutrd" \in May[f]
       /\ "SHUT_WR" \in how => "shutwr" \in May[f]
       /\ LET new == how \ flags
              rd  == "SHUT_RD" \in new
          IN /\ flags' = (flags \cup how \cup {x \in {"EOF"} : "SHUT_RD" \in how})
                           \ {x \in {"READING"} : rd}
             /\ reading' = (reading /\ ~rd)
             /\ FinishIfReading(rd, IF "SHUT_WR" \in new THEN "shutwr" ELSE "shut")
  /\ UNCHANGED <<defer, busy, callbacks, triggered, disposed, readVars, writeVars,
                 shutreq, handle>>

\* Mutant: the write side is shut down although writes are pending.
ShutdownAtOnce(f) ==
  /\ cur = f /\ pc[f] \in {"shutwr", "shut"}
  /\ IF pc[f] = "shut" THEN UNCHANGED <<flags, shutreq>>
     ELSE trigger_shutdown_wr(flags)
  /\ LET failed == pc[f] = "shutwr" /\ handle # "open"
         both   == {"SHUT_RD", "SHUT_WR"} \subseteq flags /\ "SHUTDOWN" \notin flags'
     IN pc' = [pc EXCEPT ![f] = IF failed \/ both THEN "close" ELSE "run"]
  /\ UNCHANGED <<cur, fibers, ready, status, op, defer, busy, callbacks,
                 triggered, disposed, calls, readVars, writeVars, reading, handle>>

\* The rest of it: the write side is shut down, now or after the last write,
\* and a stream that is shut on both sides is closed.
ShutdownEnds(f) ==
  /\ cur = f /\ pc[f] \in {"shutwr", "shut"}
  /\ CASE pc[f] = "shut" -> UNCHANGED <<flags, shutreq>>
       [] pc[f] = "shutwr" /\ writes = <<>> -> trigger_shutdown_wr(flags)
       [] OTHER -> /\ flags' = flags \cup {"SHUTDOWN", "DELAY_SHUTDOWN"}
                   /\ UNCHANGED shutreq
  /\ LET failed == pc[f] = "shutwr" /\ writes = <<>> /\ handle # "open"
         both   == {"SHUT_RD", "SHUT_WR"} \subseteq flags /\ "SHUTDOWN" \notin flags'
     IN pc' = [pc EXCEPT ![f] = IF failed \/ both THEN "close" ELSE "run"]
  /\ UNCHANGED <<cur, fibers, ready, status, op, defer, busy, callbacks,
                 triggered, disposed, calls, readVars, writeVars, reading, handle>>

\* Mutant: the shutdown leaves the stream open.
ShutdownLeavesOpen ==
  /\ cur = Runner /\ pc[Runner] = "run" /\ shutreq /\ wire = <<>>
  /\ shutreq' = FALSE
  /\ flags' = flags \ {"SHUTDOWN", "DELAY_SHUTDOWN"}
  /\ UNCHANGED <<cur, fibers, ready, status, pc, op, defer, busy, callbacks,
                 triggered, disposed, calls, readVars, writeVars, reading, handle>>

\* libuv reports the end of the shutdown, after every write.
shutdown_cb ==
  /\ cur = Runner /\ pc[Runner] = "run" /\ shutreq /\ wire = <<>>
  /\ shutreq' = FALSE
  /\ flags' = flags \ {"SHUTDOWN", "DELAY_SHUTDOWN"}
  /\ pc' = [pc EXCEPT ![Runner] = IF "SHUT_RD" \in flags THEN "close" ELSE "run"]
  /\ UNCHANGED <<cur, fibers, ready, status, op, defer, busy, callbacks,
                 triggered, disposed, calls, readVars, writeVars, reading, handle>>

\* Where the fiber that closes the stream continues.
AfterClose(f) == IF f = Root /\ disposed THEN "dispose" ELSE "run"

\* The user closes the stream.
close(f) ==
  /\ MayCall(f) /\ Call(f) /\ "close" \in May[f]
  /\ pc' = [pc EXCEPT ![f] = "close"]
  /\ UNCHANGED <<cur, fibers, ready, status, op, defer, busy, callbacks,
                 triggered, disposed, streamVars>>

\* async_stream_close, called or reached from a shutdown, first ends the pending
\* read.
async_stream_close(f) ==
  /\ cur = f /\ pc[f] = "close"
  /\ IF "CLOSED" \in flags
     THEN /\ pc' = [pc EXCEPT ![f] = AfterClose(f)]
          /\ UNCHANGED <<cur, fibers, ready, status, op, flags, reading, alarm>>
     ELSE /\ flags' = (flags \cup {"CLOSED", "EOF", "SHUT_RD", "SHUT_WR"})
                        \ {"READING"}
          /\ reading' = FALSE /\ alarm' = FALSE
          /\ FinishIfReading(TRUE, "uvclose")
  /\ UNCHANGED <<defer, busy, callbacks, triggered, disposed, calls, ring,
                 arrived, taken, reader, want, retried, writeVars, shutreq,
                 handle>>

\* ... and then closes the handle.
CloseEnds(f) ==
  /\ cur = f /\ pc[f] = "uvclose"
  /\ handle' = IF handle = "open" THEN "closing" ELSE handle
  /\ pc' = [pc EXCEPT ![f] = AfterClose(f)]
  /\ UNCHANGED <<cur, fibers, ready, status, op, defer, busy, callbacks,
                 triggered, disposed, calls, flags, readVars, writeVars, reading,
                 shutreq>>

\* libuv has reported the end of every request of a closing handle.
close_stream_cb ==
  /\ cur = Runner /\ pc[Runner] = "run"
  /\ handle = "closing" /\ wire = <<>> /\ ~shutreq
  /\ handle' = "closed"
  /\ UNCHANGED <<schedVars, flags, readVars, writeVars, reading, shutreq>>

\* The disposal of the scheduler fails the pending read (scheduler->operations)
\* and then closes the stream (scheduler->shutdown).
Dispose ==
  /\ cur = Root /\ pc[Root] = "dispose"
  /\ \/ /\ ReadRunning
        /\ reschedule_task(reader, "FAILED")
        /\ UNCHANGED pc
     \/ /\ ~ReadRunning /\ "CLOSED" \notin flags
        /\ pc' = [pc EXCEPT ![Root] = "close"]
        /\ UNCHANGED <<cur, fibers, ready, status, op>>
  /\ UNCHANGED <<defer, busy, callbacks, triggered, disposed, calls, streamVars>>

-----------------------------------------------------------------------------
Scheduler ==
  /\ \/ dispatch_tasks
     \/ \E t \in Tasks : run_task_fiber(t)
     \/ async_task_scheduler_dispose
     \/ run_scheduler_fiber({x \in {"alive"} : Alive})
     \/ DisposeDrain({x \in {"stream"} : "CLOSED" \notin flags})
     \/ CancelLoop
  /\ UNCHANGED streamVars

Cancel == (\E f \in Fibers \cup {Runner} : CancelInvoke(f)) /\ UNCHANGED streamVars

UserCode ==
  \E f \in Fibers :
    \/ async_stream_read(f) \/ async_stream_write(f) \/ async_stream_flush(f)
    \/ async_stream_shutdown(f) \/ close(f)

\* What the library and libuv do by themselves once it is possible, whatever
\* the peer does.
Internal ==
  \/ Scheduler
  \/ \E f \in Fibers : ReadReturns(f) \/ WriteReturns(f) \/ FlushReturns(f)
  \/ \E f \in Fibers \cup {Runner} :
       ShutdownEnds(f) \/ async_stream_close(f) \/ CloseEnds(f)
  \/ ReadErrorTurn \/ read_cb \/ ReadCbEnds \/ ReadEofTurn
  \/ process_write \/ WriteFlushTurn
  \/ shutdown_cb \/ close_stream_cb \/ Dispose

\* What the peer and the clock do.  A write is over when the peer has made room
\* for it, which it need not do.
External == write_cb \/ ReadData \/ ReadEnd \/ ReadFails \/ timeout_read

\* libuv itself ends the writes of a handle that closes (UV_ECANCELED).
WriteCancelled == handle # "open" /\ write_cb

Next == Internal \/ External \/ UserCode \/ Cancel

Spec == /\ Init /\ [][Next]_vars
        /\ WF_vars(Internal) /\ WF_vars(timeout_read) /\ WF_vars(WriteCancelled)

-----------------------------------------------------------------------------
(***************************************************************************)
(* Properties.                                                             *)
(***************************************************************************)

\* The event loop is between two callbacks, so no library code is interrupted.
AtRest == cur = Runner /\ pc[Runner] = "run"

\* What the reads have returned, followed by what is buffered, is what the peer
\* has sent: no byte is lost, repeated or reordered when a read times out, is
\* cancelled or is made inside read_cb, or when the ring buffer wraps.
BytesInOrder == taken \o Contents(ring) = [i \in 1..arrived |-> i]

\* A read that waits has libuv reading for it: the READING flag, by which
\* async_stream_read decides not to start again, is never stale.  The one
\* exception is a read retried while read_cb reported an error: libuv stops
\* reading afterwards and the flag stays.  And libuv reads only while it can be
\* given room for a byte: otherwise it reports UV_ENOBUFS, which read_cb takes
\* for a broken stream.
ReaderServed ==
  AtRest => /\ ReadRunning => (reading \/ retried)
            /\ reading => async_ring_buffer_write_len(ring) > 0

\* The data goes out in the order of the calls, libuv has the first of the
\* listed operations at most, once, and the write side is shut down only when
\* every accepted write is done.  The exception is a write that is listed while
\* write_cb resumes the fibers in flush(): write_cb has looked at the list before
\* and makes a shutdown that was delayed meanwhile.
WritesOrderly ==
  /\ \A i, j \in DOMAIN sent : i < j => sent[i] < sent[j]
  /\ wire # <<>> => (writes # <<>> /\ wire = <<Head(writes)>>)
  /\ shutreq => (writes = <<>> \/ late)

\* Listed writes are being written, and nobody stays in flush() when none is
\* left.  The exceptions are a closed stream, whose listed writes libuv refuses,
\* and a write that is listed while write_cb resumes the fibers in flush():
\* nothing starts it, and when it is cancelled nothing completes the flush.
QueueMoves ==
  AtRest => /\ writes # <<>> => (wire # <<>> \/ handle # "open" \/ late)
            /\ flush # <<>> => (writes # <<>> \/ handle # "open" \/ late)

\* A fiber is resumed only by the operation it waits for ("Suspend the current
\* execution until the async operation has been resolved or cancelled.",
\* async_await_op).
NoSpuriousWake ==
  /\ cur \in Tasks => pc[cur] # "done"
  /\ (cur \in Fibers /\ pc[cur] \in {"read", "write", "flush"}) => Settled(cur)

\* A stream that is shut on both sides is closed, or something that is under way
\* will close it: libuv has the shutdown request, or writes are listed and the
\* last of them makes the delayed shutdown.  The exception is the late write of
\* QueueMoves, which write_cb never sees.
ShutdownMoves ==
  AtRest =>
    /\ {"SHUT_RD", "SHUT_WR"} \subseteq flags =>
         flags \cap {"CLOSED", "SHUTDOWN"} # {}
    /\ "SHUTDOWN" \in flags =>
         \/ shutreq \/ "CLOSED" \in flags
         \/ "DELAY_SHUTDOWN" \in flags /\ writes # <<>>
         \/ late

\* The peer takes what libuv has: no write stays with libuv for ever.  Nothing in
\* stream.c sees to it, a write has no timeout.
PeerTakes == []<>(wire = <<>>)

\* A read with a timeout returns, whatever the peer does.  If the peer takes what
\* it is sent, whoever waits for a write or for a flush returns too, with the two
\* exceptions of QueueMoves: a late write, and a stream that is closed before the
\* end of the program.  The end of the program, which closes the stream under
\* those who still wait, is not an exception.  A peer that takes nothing keeps
\* the write, the flush behind it and the program for ever.
CallsEnd ==
  /\ \A f \in Fibers : (pc[f] = "read" /\ alarm) ~> pc[f] # "read"
  /\ PeerTakes =>
       \A f \in Fibers :
         (~disposed /\ pc[f] \in {"write", "flush"})
           ~> \/ pc[f] \notin {"write", "flush"}
              \/ late
              \/ "CLOSED" \in flags /\ ~disposed
=============================================================================
