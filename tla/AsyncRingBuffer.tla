-------------------------- MODULE AsyncRingBuffer ---------------------------
(***************************************************************************)
(* The ring buffer of ext/async/async_buffer.h: a block of BufSize cells,  *)
(* a read and a write position and the number of buffered bytes.  Data is  *)
(* written by libuv straight into the cells from wpos on, so what it may   *)
(* write is bounded by the cells that are free AND contiguous there.       *)
(***************************************************************************)
EXTENDS Naturals, Sequences

CONSTANT BufSize

ASSUME BufSizeAssumption == BufSize \in Nat \ {0}

Cells == 0..(BufSize - 1)

EmptyRing == [mem |-> [i \in Cells |-> 0], rpos |-> 0, wpos |-> 0, len |-> 0]

AtMost(a, b) == IF a <= b THEN a ELSE b

\* Mutant: the end of the block is not taken into account.
WriteLenFree(b) == BufSize - b.len

\* The free cells from the write position on, up to the end of the block or to
\* the first unread byte.
async_ring_buffer_write_len(b) ==
  CASE b.len = BufSize  -> 0
    [] b.len # BufSize /\ b.wpos >= b.rpos -> BufSize - b.wpos
    [] OTHER            -> b.rpos - b.wpos

\* libuv has written the bytes at the write position, which moves behind them.
async_ring_buffer_write_move(b, bytes) ==
  [b EXCEPT !.mem = [i \in Cells |->
                       IF i \in b.wpos..(b.wpos + Len(bytes) - 1)
                       THEN bytes[i - b.wpos + 1] ELSE b.mem[i]],
            !.wpos = (b.wpos + Len(bytes)) % BufSize,
            !.len = b.len + Len(bytes)]

\* One turn of the copy loop: at most the bytes up to the end of the block.
CopyCount(b, n) ==
  AtMost(n, IF BufSize - b.rpos > b.len THEN b.len ELSE BufSize - b.rpos)

CopyTurn(r, n) ==
  LET b == r.ring
      count == CopyCount(b, n - Len(r.out))
  IN [out  |-> r.out \o [i \in 1..count |-> b.mem[b.rpos + i - 1]],
      ring |-> [b EXCEPT !.rpos = IF b.rpos + count = BufSize THEN 0
                                  ELSE b.rpos + count,
                         !.len = b.len - count]]

\* n bytes, or what is buffered when that is less.  The loop makes one turn, or
\* two when the bytes wrap round the end of the block.
async_ring_buffer_read(b, n) ==
  CopyTurn(CopyTurn([out |-> <<>>, ring |-> b], n), n)

\* The unread bytes, oldest first.
Contents(b) == [i \in 1..b.len |-> b.mem[(b.rpos + i - 1) % BufSize]]
=============================================================================
