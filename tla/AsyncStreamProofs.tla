-------------------------- MODULE AsyncStreamProofs --------------------------
(***************************************************************************)
(* The stream, for every number of fibers, every size of the buffer, every *)
(* number of bytes and calls: no byte is lost, repeated or reordered, a    *)
(* read that waits is served, writes leave in order, and listed writes,    *)
(* flushes and shutdowns are under way whenever the loop is at rest.       *)
(***************************************************************************)
EXTENDS AsyncStream, AsyncSchedulerProofs

\* Where a fiber can be.
Labels == {"run", "read", "write", "flush", "shut", "shutwr", "close",
           "uvclose", "readcb", "readerror", "readeof", "writecb",
           "writeflush", "cancel", "drain", "dispose", "done"}

Sched ==
  /\ FiberLists /\ Bookkeeping
  /\ busy \in Nat /\ callbacks \in Seq(Fibers)
  /\ pc \in [Fibers \cup {Runner} -> Labels]

Kept ==
  /\ flags \subseteq Flags
  /\ reader \in Fibers \cup {None} /\ want \in Nat
  /\ alarm \in BOOLEAN /\ reading \in BOOLEAN /\ shutreq \in BOOLEAN
  /\ writes \in Seq(WriteOps) /\ wire \in Seq(WriteOps)
  /\ sent \in Seq(Nat) /\ issued \in Nat
  /\ started \subseteq WriteOps /\ detached \subseteq WriteOps
  /\ stale \subseteq detached
  /\ flush \in Seq(Fibers)
  /\ handle \in {"open", "closing", "closed"}
  /\ retried \in BOOLEAN /\ late \in BOOLEAN

\* A ring buffer with the bytes that follow the first k.
Rings == [mem : [Cells -> 0..MaxBytes], rpos : Cells, wpos : Cells,
          len : 0..BufSize]

Wrap(k) == IF k < BufSize THEN k ELSE k - BufSize

Holds(b, k) ==
  /\ b \in Rings
  /\ b.wpos = Wrap(b.rpos + b.len)
  /\ \A i \in 1..b.len : b.mem[Wrap(b.rpos + i - 1)] = k + i

Ringed ==
  /\ arrived \in 0..MaxBytes
  /\ taken \in Seq(1..MaxBytes)
  /\ arrived = Len(taken) + ring.len
  /\ Holds(ring, Len(taken))
  /\ \A i \in 1..Len(taken) : taken[i] = i

\* The listed writes are in the order of the calls and follow the sent ones;
\* libuv has at most the first, and a fiber that waits has its write listed.
Queued ==
  /\ \A i, j \in 1..Len(writes) : i < j => writes[i].n < writes[j].n
  /\ \A i \in 1..Len(writes) : writes[i].n <= issued
  /\ \A o \in started \cup detached : o.n <= issued
  /\ \A i \in 1..Len(sent) : sent[i] <= issued
  /\ \A i \in 1..Len(sent), j \in 1..Len(writes) : sent[i] < writes[j].n
  /\ \A i, j \in 1..Len(sent) : i < j => sent[i] < sent[j]
  /\ \A i \in 1..Len(writes) : writes[i] \in started => i = 1
  /\ wire # <<>> =>
       writes # <<>> /\ wire = <<writes[1]>> /\ writes[1] \in started

Mine ==
  \A f \in Fibers :
    pc[f] = "write" /\ op[f] # "RESOLVED" =>
      \E i \in 1..Len(writes) : writes[i].f = f /\ writes[i] \notin detached

\* write_cb is between the completion of an operation and its end.
InWriteCb == pc[Runner] \in {"writecb", "writeflush"}

Stuck == handle # "open" \/ late

Moving ==
  /\ "WRITING" \in flags <=> InWriteCb
  /\ pc[Runner] = "writeflush" => writes = <<>> \/ late
  /\ writes # <<>> /\ writes[1] \in started => wire # <<>> \/ handle # "open"
  /\ ~InWriteCb /\ writes # <<>> => wire # <<>> \/ Stuck
  /\ ~InWriteCb /\ flush # <<>> => writes # <<>> \/ Stuck

InShutdown == {"shut", "shutwr", "close"}

Closing ==
  /\ handle # "open" => "CLOSED" \in flags
  /\ \A f \in Fibers \cup {Runner} : pc[f] = "uvclose" => "CLOSED" \in flags
  /\ \A f \in Fibers \cup {Runner} : pc[f] = "shutwr" => "SHUT_WR" \in flags
  /\ shutreq \/ "DELAY_SHUTDOWN" \in flags => "SHUT_WR" \in flags
  /\ shutreq => writes = <<>> \/ late
  /\ "SHUTDOWN" \in flags =>
       shutreq \/ "CLOSED" \in flags \/ "DELAY_SHUTDOWN" \in flags
  /\ ~InWriteCb /\ "SHUTDOWN" \in flags =>
       \/ shutreq \/ "CLOSED" \in flags \/ late
       \/ "DELAY_SHUTDOWN" \in flags /\ writes # <<>>
  /\ {"SHUT_RD", "SHUT_WR"} \subseteq flags =>
       \/ flags \cap {"CLOSED", "SHUTDOWN"} # {}
       \/ \E f \in Fibers \cup {Runner} : pc[f] \in InShutdown

Served ==
  /\ reader # None => pc[reader] = "read"
  /\ "SHUT_RD" \in flags => "EOF" \in flags
  /\ "READING" \in flags => reading \/ "EOF" \in flags \/ retried
  /\ pc[Runner] = "readerror" /\ "READING" \in flags => retried
  /\ pc[Runner] = "readerror" /\ cur # Runner => ring.len = 0
  /\ ReadRunning /\ "EOF" \in flags => pc[Runner] \in {"readcb", "readeof"}
  /\ ReadRunning /\ "EOF" \notin flags =>
       "READING" \in flags \/ pc[Runner] = "readerror"
  /\ ReadRunning /\ pc[Runner] # "readcb" => ring.len = 0
  /\ reading /\ pc[Runner] # "readcb" => ShouldRead(ring)

Stacked ==
  /\ cur = Runner => fibers = <<>>
  /\ \A i \in 1..Len(fibers) : fibers[i] = Runner => i = Len(fibers)
  /\ \A f \in Fibers : pc[f] \in InShutdown => f \in Active

IInv == /\ Sched /\ Kept /\ Ringed /\ Queued /\ Mine /\ Moving /\ Closing
        /\ Served /\ Stacked

-----------------------------------------------------------------------------
(***************************************************************************)
(* The ring buffer.                                                        *)
(***************************************************************************)

\* Positions wrap round the end of the block at most once.
LEMMA Wraps ==
  ASSUME NEW k \in Nat, k < 2 * BufSize
  PROVE  k % BufSize = Wrap(k)
  BY BufSizeAssumption DEF Wrap

\* The read position p after c bytes up to the end of the block were copied from
\* position R, of L buffered ones.
Passed(R, L, c, p) ==
  /\ p = Wrap(R + c) /\ p \in Cells /\ L - c \in 0..BufSize
  /\ Wrap(p + (L - c)) = Wrap(R + L)
  /\ \A i \in 1..(L - c) :
       /\ c + i \in 1..L
       /\ Wrap(p + i - 1) = Wrap(R + (c + i) - 1)
  /\ \A i \in 1..c :
       /\ i \in 1..L /\ R + i - 1 \in Cells
       /\ Wrap(R + i - 1) = R + i - 1

\* That is how the code moves it.
LEMMA Around ==
  ASSUME NEW R \in Cells, NEW L \in 0..BufSize, NEW c \in Nat,
         c <= L, c <= BufSize - R,
         NEW p, p = IF R + c = BufSize THEN 0 ELSE R + c
  PROVE  Passed(R, L, c, p)
<1>1. BufSize \in Nat /\ BufSize > 0 /\ R \in Nat /\ R < BufSize /\ L \in Nat
  BY BufSizeAssumption DEF Cells
<1>2. R + c <= BufSize
  BY <1>1
<1>3. CASE R + c = BufSize
  <2>1. Wrap(R + c) = 0 /\ p = 0
    BY <1>1, <1>3 DEF Wrap
  <2> QED
    BY <1>1, <1>3, <2>1 DEF Wrap, Cells, Passed
<1>4. CASE R + c < BufSize
  <2>1. Wrap(R + c) = R + c /\ p = R + c
    BY <1>1, <1>4 DEF Wrap
  <2> QED
    BY <1>1, <1>4, <2>1 DEF Wrap, Cells, Passed
<1> QED
  BY <1>1, <1>2, <1>3, <1>4

\* A turn copies neither more than it is asked for, nor more than is buffered,
\* nor past the end of the block.
LEMMA Counts ==
  ASSUME NEW b \in Rings, NEW m \in Nat
  PROVE  /\ CopyCount(b, m) \in Nat /\ CopyCount(b, m) <= m
         /\ CopyCount(b, m) <= b.len /\ CopyCount(b, m) <= BufSize - b.rpos
         /\ CopyCount(b, m) \in {m, b.len, BufSize - b.rpos}
<1>1. PICK R, L \in Nat : R = b.rpos /\ L = b.len /\ R < BufSize
  BY BufSizeAssumption DEF Rings, Cells
<1>2. CopyCount(b, m) = AtMost(m, IF BufSize - R > L THEN L ELSE BufSize - R)
  BY <1>1 DEF CopyCount
<1>3. BufSize \in Nat
  BY BufSizeAssumption
<1> QED
  BY <1>1, <1>2, <1>3 DEF AtMost

\* What a turn that copies c of m bytes makes of the bytes o already copied.
Copied(b, k, m, o, c, r) ==
  /\ c \in Nat /\ c <= m - Len(o) /\ c <= b.len
  /\ Holds(r.ring, k + c) /\ r.ring.len = b.len - c
  /\ r.ring.rpos = Wrap(b.rpos + c)
  /\ r.out \in Seq(1..MaxBytes) /\ Len(r.out) = Len(o) + c
  /\ \A i \in 1..Len(o) : r.out[i] = o[i]
  /\ \A i \in 1..c : r.out[Len(o) + i] = k + i

\* One turn of the copy loop takes the next bytes and leaves those behind them.
LEMMA Turn ==
  ASSUME NEW k \in Nat, NEW b, Holds(b, k), NEW m \in Nat,
         NEW o \in Seq(1..MaxBytes), Len(o) <= m,
         NEW c, c = CopyCount(b, m - Len(o)),
         NEW r, r = CopyTurn([out |-> o, ring |-> b], m)
  PROVE  Copied(b, k, m, o, c, r)
<1>0. PICK p : p = IF b.rpos + c = BufSize THEN 0 ELSE b.rpos + c
  OBVIOUS
<1> DEFINE d == [i \in 1..c |-> b.mem[b.rpos + i - 1]]
<1>1. /\ b \in Rings /\ b.mem \in [Cells -> 0..MaxBytes]
      /\ b.rpos \in Cells /\ b.wpos \in Cells /\ b.len \in 0..BufSize
      /\ Len(o) \in Nat /\ m - Len(o) \in Nat /\ MaxBytes \in Nat
  BY StreamAssumption, InList DEF Holds, Rings
<1>2. c \in Nat /\ c <= m - Len(o) /\ c <= b.len /\ c <= BufSize - b.rpos
  BY <1>1, Counts
<1>3. r.out = o \o d /\ r.ring = [b EXCEPT !.rpos = p, !.len = b.len - c]
  BY <1>0 DEF CopyTurn
<1>4. /\ p = Wrap(b.rpos + c) /\ p \in Cells /\ b.len - c \in 0..BufSize
      /\ Wrap(p + (b.len - c)) = Wrap(b.rpos + b.len)
      /\ \A i \in 1..(b.len - c) :
           /\ c + i \in 1..b.len
           /\ Wrap(p + i - 1) = Wrap(b.rpos + (c + i) - 1)
      /\ \A i \in 1..c :
           /\ i \in 1..b.len /\ b.rpos + i - 1 \in Cells
           /\ Wrap(b.rpos + i - 1) = b.rpos + i - 1
  <2>1. Passed(b.rpos, b.len, c, p)
    BY <1>0, <1>1, <1>2, Around
  <2> QED
    BY <2>1, Zenon DEF Passed
<1>5. /\ r.ring.mem = b.mem /\ r.ring.rpos = p /\ r.ring.wpos = b.wpos
      /\ r.ring.len = b.len - c /\ r.ring \in Rings
  BY <1>1, <1>3, <1>4 DEF Rings
<1>6. ASSUME NEW i \in 1..c
      PROVE  b.mem[b.rpos + i - 1] = k + i /\ k + i \in 1..MaxBytes
  <2>1. b.mem[b.rpos + i - 1] = k + i
    BY <1>4 DEF Holds
  <2>2. b.mem[b.rpos + i - 1] \in 0..MaxBytes
    BY <1>1, <1>4
  <2> QED
    BY <1>1, <1>2, <2>1, <2>2
<1>7. d \in Seq(1..MaxBytes) /\ Len(d) = c /\ \A i \in 1..c : d[i] = k + i
  <2>1. d \in [1..c -> 1..MaxBytes] /\ \A i \in 1..c : d[i] = k + i
    BY <1>6
  <2>2. Len(d) = c
    BY <1>2
  <2> HIDE DEF d
  <2>3. d \in Seq(1..MaxBytes)
    BY <1>2, <2>1, SeqDef
  <2> QED
    BY <2>1, <2>2, <2>3
<1> HIDE DEF d
<1>8. /\ r.out \in Seq(1..MaxBytes) /\ Len(r.out) = Len(o) + c
      /\ \A i \in 1..Len(o) + c :
           r.out[i] = IF i <= Len(o) THEN o[i] ELSE d[i - Len(o)]
  <2>1. /\ o \o d \in Seq(1..MaxBytes) /\ Len(o \o d) = Len(o) + Len(d)
        /\ \A i \in 1..Len(o) + Len(d) :
             (o \o d)[i] = IF i <= Len(o) THEN o[i] ELSE d[i - Len(o)]
    BY <1>7, ConcatProperties
  <2> QED
    BY <1>3, <1>7, <2>1, Zenon
<1>9. \A i \in 1..Len(o) : r.out[i] = o[i]
  <2>1. \A i \in 1..Len(o) : i \in 1..Len(o) + c /\ i <= Len(o)
    BY <1>1, <1>2
  <2> QED
    BY <1>8, <2>1, Zenon
<1>10. ASSUME NEW i \in 1..c PROVE r.out[Len(o) + i] = k + i
  <2>1. PICK j : j = Len(o) + i /\ j \in 1..Len(o) + c /\ ~(j <= Len(o))
                 /\ j - Len(o) = i
    BY <1>1, <1>2
  <2>2. r.out[j] = IF j <= Len(o) THEN o[j] ELSE d[j - Len(o)]
    BY <1>8, <2>1, Zenon
  <2>3. r.out[j] = d[i]
    BY <2>1, <2>2, Zenon
  <2> QED
    BY <1>7, <2>1, <2>3, Zenon
<1>11. Holds(r.ring, k + c)
  <2>1. b.wpos = Wrap(p + (b.len - c))
    BY <1>4 DEF Holds
  <2>2. ASSUME NEW i \in 1..(b.len - c)
        PROVE  b.mem[Wrap(p + i - 1)] = k + c + i
    <3>1. b.mem[Wrap(b.rpos + (c + i) - 1)] = k + (c + i)
      BY <1>4 DEF Holds
    <3>2. k + (c + i) = k + c + i
      BY <1>1, <1>2
    <3> QED
      BY <1>4, <3>1, <3>2, Zenon
  <2> QED
    BY <1>5, <2>1, <2>2, Zenon DEF Holds
<1> QED
  BY <1>2, <1>4, <1>5, <1>8, <1>9, <1>10, <1>11, Zenon DEF Copied

\* async_ring_buffer_read returns the bytes it was asked for, in order, and
\* leaves those behind them.
LEMMA ReadsNext ==
  ASSUME NEW k \in Nat, NEW b, Holds(b, k), NEW m \in Nat, m <= b.len,
         NEW r, r = async_ring_buffer_read(b, m)
  PROVE  /\ r.out \in Seq(1..MaxBytes) /\ Len(r.out) = m
         /\ \A i \in 1..m : r.out[i] = k + i
         /\ Holds(r.ring, k + m) /\ r.ring.len = b.len - m
<1>0. <<>> \in Seq(1..MaxBytes) /\ Len(<<>>) = 0 /\ 0 <= m
  OBVIOUS
<1>1. PICK o : o = <<>> /\ o \in Seq(1..MaxBytes) /\ Len(o) = 0 /\ Len(o) <= m
  BY <1>0, Zenon
<1>2. PICK c, t : c = CopyCount(b, m - Len(o))
                  /\ t = CopyTurn([out |-> o, ring |-> b], m)
  OBVIOUS
<1>3. /\ c \in Nat /\ c <= m - Len(o) /\ c <= b.len
      /\ Holds(t.ring, k + c) /\ t.ring.len = b.len - c
      /\ t.ring.rpos = Wrap(b.rpos + c)
      /\ t.out \in Seq(1..MaxBytes) /\ Len(t.out) = Len(o) + c
      /\ \A i \in 1..c : t.out[Len(o) + i] = k + i
  <2>1. Copied(b, k, m, o, c, t)
    BY <1>1, <1>2, Turn, Zenon
  <2> QED
    BY <2>1, Zenon DEF Copied
<1>4. c <= m /\ Len(t.out) = c /\ \A i \in 1..c : t.out[i] = k + i
  BY <1>1, <1>3
<1>5. c = CopyCount(b, m) /\ k + c \in Nat
  BY <1>1, <1>2, <1>3
<1>6. r = CopyTurn([out |-> t.out, ring |-> t.ring], m)
  <2>1. t = [out |-> t.out, ring |-> t.ring]
    BY <1>2 DEF CopyTurn
  <2> QED
    BY <1>1, <1>2, <2>1 DEF async_ring_buffer_read
<1>7. PICK e : e = CopyCount(t.ring, m - Len(t.out))
  OBVIOUS
<1>70. Len(t.out) <= m
  BY <1>3, <1>4
<1>8. /\ e \in Nat /\ e <= m - Len(t.out) /\ e <= t.ring.len
      /\ Holds(r.ring, k + c + e) /\ r.ring.len = t.ring.len - e
      /\ r.out \in Seq(1..MaxBytes) /\ Len(r.out) = Len(t.out) + e
      /\ \A i \in 1..Len(t.out) : r.out[i] = t.out[i]
      /\ \A i \in 1..e : r.out[Len(t.out) + i] = k + c + i
  <2>1. Copied(t.ring, k + c, m, t.out, e, r)
    BY <1>3, <1>5, <1>6, <1>7, <1>70, Turn, Zenon
  <2> QED
    BY <2>1, Zenon DEF Copied
<1>9. PICK R, L \in Nat : R = b.rpos /\ L = b.len /\ R < BufSize /\ L <= BufSize
  BY BufSizeAssumption DEF Holds, Rings, Cells
<1>10. c + e = m
  <2>1. BufSize \in Nat /\ b \in Rings /\ t.ring \in Rings
    BY BufSizeAssumption, <1>3 DEF Holds
  <2>2. CASE c = m
    BY <1>4, <1>8, <2>2
  <2>3. CASE c # m
    <3>1. c \in {m, b.len, BufSize - b.rpos}
      BY <1>5, <2>1, Counts
    <3>2. c = BufSize - R
      BY <1>3, <1>4, <1>9, <2>3, <3>1
    <3>3. t.ring.rpos = 0
      <4>1. R + c = BufSize
        BY <1>9, <2>1, <3>2
      <4>2. t.ring.rpos = Wrap(BufSize)
        BY <1>3, <1>9, <4>1, Zenon
      <4> QED
        BY <2>1, <4>2 DEF Wrap
    <3>4. m - Len(t.out) \in Nat
      BY <1>3, <1>4
    <3>5. e \in {m - Len(t.out), t.ring.len, BufSize - t.ring.rpos}
      BY <1>7, <2>1, <3>4, Counts
    <3>6. e \in {m - c, L - c, BufSize}
      <4>1. t.ring.len = L - c /\ m - Len(t.out) = m - c
        BY <1>3, <1>4, <1>9, Zenon
      <4>2. BufSize - t.ring.rpos = BufSize
        BY <2>1, <3>3
      <4> QED
        BY <3>5, <4>1, <4>2, Zenon
    <3>7. e <= m - c /\ m <= L
      BY <1>4, <1>8, <1>9
    <3>8. c \in Nat /\ e \in Nat /\ L <= BufSize
      BY <1>3, <1>8, <1>9, Zenon
    <3>9. CASE e = m - c
      BY <3>8, <3>9
    <3>10. CASE e = L - c
      BY <3>7, <3>8, <3>10
    <3>11. CASE e = BufSize
      <4>1. m >= BufSize + c /\ m <= BufSize
        BY <2>1, <3>7, <3>8, <3>11
      <4> QED
        BY <2>1, <3>8, <3>11, <4>1
    <3> QED
      BY <3>6, <3>9, <3>10, <3>11, Zenon
  <2> QED
    BY <2>2, <2>3
<1>11. ASSUME NEW i \in 1..m PROVE r.out[i] = k + i
  <2>1. CASE i <= c
    <3>1. i \in 1..c /\ i \in 1..Len(t.out)
      BY <1>3, <1>4, <2>1
    <3> QED
      BY <1>4, <1>8, <3>1, Zenon
  <2>2. CASE i > c
    <3>1. i - c \in 1..e /\ c + (i - c) = i /\ k + c + (i - c) = k + i
      BY <1>3, <1>8, <1>10, <2>2
    <3> QED
      BY <1>4, <1>8, <3>1, Zenon
  <2> QED
    BY <1>3, <2>1, <2>2
<1>12. k + c + e = k + m /\ Len(t.out) + e = m /\ t.ring.len - e = b.len - m
  <2>1. \A x, y, z, w \in Nat :
          x + y = z => w + x + y = w + z /\ (w - x) - y = w - z
    OBVIOUS
  <2>2. c \in Nat /\ e \in Nat /\ L \in Nat
    BY <1>3, <1>8, <1>9, Zenon
  <2>3. k + c + e = k + m /\ (L - c) - e = L - m
    BY <1>10, <2>1, <2>2
  <2> QED
    BY <1>3, <1>4, <1>9, <1>10, <2>3, Zenon
<1> QED
  BY <1>8, <1>11, <1>12, Zenon

\* The cells behind the write position W that libuv may fill with j bytes.
Fits(R, L, W, j) ==
  /\ L + j \in 0..BufSize /\ (W + j) % BufSize = Wrap(R + (L + j))
  /\ Wrap(R + (L + j)) \in Cells
  /\ \A i \in 1..L :
       /\ Wrap(R + i - 1) \in Cells
       /\ ~(Wrap(R + i - 1) \in W..(W + j - 1))
  /\ \A i \in 1..j :
       /\ Wrap(R + (L + i) - 1) = W + i - 1
       /\ W + i - 1 \in W..(W + j - 1) /\ W + i - 1 \in Cells
       /\ W + i - 1 - W + 1 = i

\* async_ring_buffer_write_len offers no others.
LEMMA Room ==
  ASSUME NEW R \in Cells, NEW L \in 0..BufSize, NEW W, W = Wrap(R + L),
         L # BufSize, NEW j \in Nat, 0 < j,
         j <= IF W >= R THEN BufSize - W ELSE R - W
  PROVE  Fits(R, L, W, j)
<1>1. BufSize \in Nat /\ BufSize > 0 /\ R \in Nat /\ R < BufSize /\ L \in Nat
      /\ L < BufSize
  BY BufSizeAssumption DEF Cells
<1>2. CASE R + L < BufSize
  <2>1. W = R + L /\ W \in Nat /\ j <= BufSize - W
    BY <1>1, <1>2 DEF Wrap
  <2>2. L + j \in 0..BufSize /\ R + (L + j) = W + j /\ W + j < 2 * BufSize
        /\ W + j \in Nat
    BY <1>1, <2>1
  <2>3. (W + j) % BufSize = Wrap(R + (L + j))
    BY <2>2, Wraps
  <2>4. Wrap(R + (L + j)) \in Cells
    BY <1>1, <2>1, <2>2 DEF Wrap, Cells
  <2>5. \A i \in 1..L : Wrap(R + i - 1) = R + i - 1
    BY <1>1, <1>2 DEF Wrap
  <2>6. \A i \in 1..j : Wrap(R + (L + i) - 1) = W + i - 1
    BY <1>1, <2>1 DEF Wrap
  <2>7. \A i \in 1..L : R + i - 1 \in Cells /\ ~(R + i - 1 \in W..(W + j - 1))
    BY <1>1, <1>2, <2>1 DEF Cells
  <2>8. \A i \in 1..j : /\ W + i - 1 \in W..(W + j - 1) /\ W + i - 1 \in Cells
                        /\ W + i - 1 - W + 1 = i
    BY <1>1, <2>1 DEF Cells
  <2>9. \A i \in 1..L : /\ Wrap(R + i - 1) \in Cells
                        /\ ~(Wrap(R + i - 1) \in W..(W + j - 1))
    BY <2>5, <2>7
  <2> QED
    BY <2>2, <2>3, <2>4, <2>6, <2>8, <2>9, Zenon DEF Fits
<1>3. CASE R + L >= BufSize
  <2>1. W = R + L - BufSize /\ W \in Nat /\ W < R /\ j <= R - W
    BY <1>1, <1>3 DEF Wrap
  <2>2. L + j \in 0..BufSize /\ W + j < BufSize /\ W + j \in Nat
    BY <1>1, <2>1
  <2>3. Wrap(W + j) = W + j /\ Wrap(R + (L + j)) = W + j
    BY <1>1, <1>3, <2>1, <2>2 DEF Wrap
  <2>4. (W + j) % BufSize = Wrap(W + j)
    BY <1>1, <2>2, Wraps
  <2>5. ASSUME NEW i \in 1..L
        PROVE  /\ Wrap(R + i - 1) \in Cells
               /\ ~(Wrap(R + i - 1) \in W..(W + j - 1))
    <3>1. CASE R + i - 1 < BufSize
      BY <1>1, <2>1, <2>2, <3>1 DEF Wrap, Cells
    <3>2. CASE R + i - 1 >= BufSize
      BY <1>1, <2>1, <2>2, <3>2 DEF Wrap, Cells
    <3> QED
      BY <1>1, <3>1, <3>2
  <2>6. \A i \in 1..j : Wrap(R + (L + i) - 1) = W + i - 1
    BY <1>1, <1>3, <2>1 DEF Wrap
  <2>7. \A i \in 1..j : /\ W + i - 1 \in W..(W + j - 1) /\ W + i - 1 \in Cells
                        /\ W + i - 1 - W + 1 = i
    BY <1>1, <2>1, <2>2 DEF Cells
  <2>8. W + j \in Cells
    BY <1>1, <2>2 DEF Cells
  <2> QED
    BY <2>2, <2>3, <2>4, <2>5, <2>6, <2>7, <2>8, Zenon DEF Fits
<1> QED
  BY <1>1, <1>2, <1>3

\* What libuv writes follows what is buffered.
LEMMA WritesNext ==
  ASSUME NEW k \in Nat, NEW b, Holds(b, k),
         NEW j \in 1..async_ring_buffer_write_len(b), k + b.len + j <= MaxBytes,
         NEW y, y = [i \in 1..j |-> k + b.len + i],
         NEW r, r = async_ring_buffer_write_move(b, y)
  PROVE  Holds(r, k) /\ r.len = b.len + j /\ j \in Nat
<1>1. PICK R \in Cells, L \in 0..BufSize, W \in Cells :
        R = b.rpos /\ L = b.len /\ W = b.wpos /\ W = Wrap(R + L)
  BY DEF Holds, Rings
<1>2. /\ BufSize \in Nat /\ R \in Nat /\ L \in Nat /\ W \in Nat
      /\ MaxBytes \in Nat
  BY <1>1, BufSizeAssumption, StreamAssumption DEF Cells
<1>3. /\ L # BufSize /\ j \in Nat /\ 0 < j
      /\ j <= IF W >= R THEN BufSize - W ELSE R - W
  <2>1. CASE L = BufSize
    BY <1>1, <2>1 DEF async_ring_buffer_write_len
  <2>2. CASE L # BufSize /\ W >= R
    BY <1>1, <1>2, <2>2 DEF async_ring_buffer_write_len
  <2>3. CASE L # BufSize /\ ~(W >= R)
    BY <1>1, <1>2, <2>3 DEF async_ring_buffer_write_len
  <2> QED
    BY <2>1, <2>2, <2>3
<1>4. Fits(R, L, W, j)
  BY <1>1, <1>3, Room
<1>5. Len(y) = j /\ \A i \in 1..j : y[i] = k + L + i /\ y[i] \in 0..MaxBytes
  <2>1. Len(y) = j
    BY <1>3
  <2>2. \A i \in 1..j : y[i] = k + L + i
    BY <1>1
  <2>3. \A i \in 1..j : k + L + i \in 0..MaxBytes
    <3>1. k + L + j <= MaxBytes
      BY <1>1
    <3> QED
      BY <1>2, <1>3, <3>1
  <2> QED
    BY <2>1, <2>2, <2>3
<1> DEFINE m == [i \in Cells |-> IF i \in b.wpos..(b.wpos + Len(y) - 1)
                                 THEN y[i - b.wpos + 1] ELSE b.mem[i]]
<1>6. r = [b EXCEPT !.mem = m, !.wpos = (b.wpos + Len(y)) % BufSize,
                    !.len = b.len + Len(y)]
  BY DEF async_ring_buffer_write_move
<1>60. \A x \in Cells : m[x] = IF x \in W..(W + j - 1) THEN y[x - W + 1]
                               ELSE b.mem[x]
  BY <1>1, <1>5
<1> HIDE DEF m
<1>7. m \in [Cells -> 0..MaxBytes]
  <2>0. m = [x \in Cells |-> m[x]]
    BY DEF m
  <2>1. ASSUME NEW i \in Cells, i \in W..(W + j - 1)
        PROVE  y[i - W + 1] \in 0..MaxBytes
    <3>1. i - W + 1 \in 1..j
      BY <1>2, <1>3, <2>1
    <3> QED
      BY <1>5, <3>1
  <2>2. b.mem \in [Cells -> 0..MaxBytes]
    BY DEF Holds, Rings
  <2>3. \A x \in Cells : m[x] \in 0..MaxBytes
    BY <1>60, <2>1, <2>2
  <2> QED
    BY <2>0, <2>3
<1>8. ASSUME NEW i \in 1..(L + j) PROVE m[Wrap(R + i - 1)] = k + i
  <2>1. CASE i <= L
    <3>1. i \in 1..L
      BY <1>2, <2>1
    <3>2. m[Wrap(R + i - 1)] = b.mem[Wrap(R + i - 1)]
      BY <1>4, <1>60, <3>1 DEF Fits
    <3>3. b.mem[Wrap(b.rpos + i - 1)] = k + i
      BY <1>1, <3>1 DEF Holds
    <3> QED
      BY <1>1, <3>2, <3>3
  <2>2. CASE i > L
    <3>1. PICK h \in 1..j : i = L + h
      BY <1>2, <1>3, <2>2
    <3>2. /\ Wrap(R + i - 1) = W + h - 1 /\ W + h - 1 \in W..(W + j - 1)
          /\ W + h - 1 \in Cells /\ W + h - 1 - W + 1 = h
      BY <1>4, <3>1 DEF Fits
    <3>3. m[W + h - 1] = y[W + h - 1 - W + 1]
      <4>1. PICK x \in Cells : x = W + h - 1 /\ x \in W..(W + j - 1)
        BY <3>2, Zenon
      <4>2. m[x] = y[x - W + 1]
        BY <1>60, <4>1, Zenon
      <4> QED
        BY <4>1, <4>2
    <3>4. m[Wrap(R + i - 1)] = k + L + h
      BY <1>5, <3>2, <3>3, Zenon
    <3> QED
      BY <1>2, <3>1, <3>4
  <2> QED
    BY <1>2, <2>1, <2>2
<1>9. /\ r.mem = m /\ r.rpos = R /\ r.len = L + j
      /\ r.wpos = Wrap(R + (L + j)) /\ r \in Rings
  <2>1. /\ (W + j) % BufSize = Wrap(R + (L + j)) /\ Wrap(R + (L + j)) \in Cells
        /\ L + j \in 0..BufSize
    BY <1>4 DEF Fits
  <2>2. b \in Rings
    BY DEF Holds
  <2> QED
    <3>1. PICK w \in Cells, l \in 0..BufSize :
            /\ w = Wrap(R + (L + j)) /\ l = L + j
            /\ (b.wpos + Len(y)) % BufSize = w /\ b.len + Len(y) = l
      BY <1>1, <1>5, <2>1, Zenon
    <3>2. r = [b EXCEPT !.mem = m, !.wpos = w, !.len = l]
      BY <1>6, <3>1, Zenon
    <3>3. r.mem = m /\ r.rpos = b.rpos /\ r.len = l /\ r.wpos = w /\ r \in Rings
      BY <1>7, <2>2, <3>1, <3>2 DEF Rings
    <3> QED
      BY <1>1, <3>1, <3>3, Zenon
<1>10. Holds(r, k)
  BY <1>8, <1>9, Zenon DEF Holds
<1> QED
  BY <1>1, <1>3, <1>9, <1>10

\* What a read takes from the buffer are the next bytes.
LEMMA TakeNext ==
  ASSUME Ringed, NEW n \in Nat, Take(n)
  PROVE  (UNCHANGED arrived => Ringed') /\ ring'.len <= ring.len
<1>1. /\ Len(taken) \in Nat /\ ring.len \in Nat /\ Holds(ring, Len(taken))
      /\ taken \in Seq(1..MaxBytes)
  BY BufSizeAssumption, InList DEF Ringed, Holds, Rings
<1>2. PICK m, r : /\ m = AtMost(n, ring.len)
                  /\ r = async_ring_buffer_read(ring, m)
                  /\ ring' = r.ring /\ taken' = taken \o r.out
  BY DEF Take
<1>3. m \in Nat /\ m <= ring.len
  BY <1>1, <1>2 DEF AtMost
<1>4. /\ r.out \in Seq(1..MaxBytes) /\ Len(r.out) = m
      /\ \A i \in 1..m : r.out[i] = Len(taken) + i
      /\ Holds(r.ring, Len(taken) + m) /\ r.ring.len = ring.len - m
  BY <1>1, <1>2, <1>3, ReadsNext
<1>5. /\ taken' \in Seq(1..MaxBytes) /\ Len(taken') = Len(taken) + m
      /\ \A i \in 1..Len(taken) + m :
           taken'[i] = IF i <= Len(taken) THEN taken[i] ELSE r.out[i - Len(taken)]
  BY <1>1, <1>2, <1>4, ConcatProperties
<1>6. ASSUME NEW i \in 1..Len(taken') PROVE taken'[i] = i
  <2>1. CASE i <= Len(taken)
    <3>1. i \in 1..Len(taken) /\ i \in 1..Len(taken) + m
      BY <1>1, <1>3, <2>1
    <3> QED
      BY <1>5, <2>1, <3>1 DEF Ringed
  <2>2. CASE ~(i <= Len(taken))
    <3>0. i \in 1..Len(taken) + m
      BY <1>5, Zenon
    <3>1. PICK h \in 1..m : i - Len(taken) = h /\ Len(taken) + h = i
      BY <1>1, <1>3, <2>2, <3>0
    <3>2. taken'[i] = r.out[h]
      BY <1>5, <2>2, <3>0, <3>1, Zenon
    <3> QED
      BY <1>4, <3>1, <3>2, Zenon
  <2> QED
    BY <2>1, <2>2
<1>7. ring'.len = ring.len - m /\ Holds(ring', Len(taken'))
  BY <1>2, <1>4, <1>5, Zenon
<1>8. ASSUME UNCHANGED arrived PROVE Ringed'
  <2>1. arrived = Len(taken) + ring.len /\ arrived \in 0..MaxBytes
    BY DEF Ringed
  <2>2. arrived = (Len(taken) + m) + (ring.len - m)
    BY <1>1, <1>3, <2>1
  <2>3. arrived' = Len(taken') + ring'.len
    BY <1>5, <1>7, <1>8, <2>2, Zenon
  <2> QED
    BY <1>5, <1>6, <1>7, <1>8, <2>1, <2>3 DEF Ringed
<1> QED
  BY <1>1, <1>3, <1>7, <1>8

\* The bytes libuv has read are buffered behind the others.
LEMMA DataNext ==
  ASSUME Ringed, ReadData
  PROVE  Ringed' /\ ring' \in Rings
<1>1. PICK j \in 1..async_ring_buffer_write_len(ring) :
        /\ arrived + j <= MaxBytes
        /\ arrived' = arrived + j
        /\ ring' = async_ring_buffer_write_move(ring,
                                                [i \in 1..j |-> arrived + i])
  BY DEF ReadData
<1>2. taken' = taken
  BY DEF ReadData
<1>3. PICK k \in Nat : k = Len(taken) /\ arrived = k + ring.len
  BY InList DEF Ringed
<1>4. Holds(ring', k) /\ ring'.len = ring.len + j /\ j \in Nat
  <2>1. Holds(ring, k)
    BY <1>3 DEF Ringed
  <2>2. k + ring.len + j <= MaxBytes
        /\ ring' = async_ring_buffer_write_move(ring,
                                          [i \in 1..j |-> k + ring.len + i])
    BY <1>1, <1>3
  <2> QED
    BY <2>1, <2>2, WritesNext
<1>5. arrived' \in 0..MaxBytes /\ arrived' = k + ring'.len
  <2>1. ring.len \in Nat /\ MaxBytes \in Nat
    BY BufSizeAssumption, StreamAssumption DEF Ringed, Holds, Rings
  <2>2. k + ring.len + j = k + (ring.len + j) /\ k + ring.len + j \in Nat
    BY <1>4, <2>1
  <2> QED
    BY <1>1, <1>3, <1>4, <2>1, <2>2
<1>6. Ringed'
  BY <1>2, <1>3, <1>4, <1>5 DEF Ringed
<1> QED
  BY <1>4, <1>6 DEF Holds

-----------------------------------------------------------------------------
(***************************************************************************)
(* Fibers.                                                                 *)
(***************************************************************************)

\* The current fiber goes on at l.
Goes(l) ==
  /\ pc' = [pc EXCEPT ![cur] = l]
  /\ UNCHANGED <<cur, fibers, ready, status, op>>

\* It completes the operation of g and will go on at l.
Resumes(g, outcome, l) ==
  /\ pc' = [pc EXCEPT ![cur] = l]
  /\ reschedule_task(g, outcome)
  /\ outcome \in {"RESOLVED", "FAILED"}
  /\ outcome = "FAILED" => op[g] = "RUNNING"

\* It suspends and will go on at l.
Leaves(l) ==
  /\ cur \in Fibers
  /\ pc' = [pc EXCEPT ![cur] = l]
  /\ async_fiber_suspend
  /\ status' \in [Fibers -> TaskStatus]
  /\ \/ UNCHANGED op
     \/ op' = [op EXCEPT ![cur] = "RUNNING"]
  /\ UNCHANGED ready

\* The bookkeeping of a step that is not a library call stays as it is.
LEMMA SameBookkeeping ==
  ASSUME Sched, UNCHANGED <<defer, busy, callbacks, triggered, disposed, calls>>
  PROVE  Bookkeeping' /\ busy' \in Nat /\ callbacks' \in Seq(Fibers)
  BY DEF Sched, Bookkeeping

\* Where the fibers are after one of these steps.
LEMMA NextLabel ==
  ASSUME Sched, NEW l, pc' = [pc EXCEPT ![cur] = l]
  PROVE  /\ cur \in Fibers \cup {Runner} /\ pc'[cur] = l
         /\ \A f \in Fibers \cup {Runner} : f # cur => pc'[f] = pc[f]
         /\ l \in Labels => pc' \in [Fibers \cup {Runner} -> Labels]
  BY DEF Sched, FiberLists

\* A fiber that goes on keeps its place on the stack.
LEMMA GoesOn ==
  ASSUME Sched, Stacked, NEW l \in Labels, Goes(l),
         Bookkeeping', busy' \in Nat, callbacks' \in Seq(Fibers)
  PROVE  Sched' /\ Stacked'
<1>1. Sched'
  BY NextLabel DEF Sched, FiberLists, Goes
<1>2. Active' = Active /\ cur \in Active
  BY DEF Active, Goes
<1>3. \A f \in Fibers : pc'[f] \in InShutdown => f \in Active'
  BY <1>2, NextLabel DEF Stacked, Goes
<1> QED
  BY <1>1, <1>3 DEF Stacked, Goes

\* A fiber that resumes another stays on the stack below it.
LEMMA ResumesOn ==
  ASSUME Sched, Stacked, NEW g \in Fibers, NEW o, NEW l \in Labels,
         Resumes(g, o, l),
         Bookkeeping', busy' \in Nat, callbacks' \in Seq(Fibers)
  PROVE  Sched' /\ Stacked'
<1>1. FiberLists'
  BY RescheduleType DEF Sched, Resumes, OpStatus
<1>2. Sched'
  BY <1>1, NextLabel DEF Sched, Resumes
<1>3. CASE g \in defer
  <2>1. UNCHANGED <<cur, fibers>>
    BY <1>3 DEF Resumes, reschedule_task
  <2>2. Active' = Active /\ cur \in Active
    BY <2>1 DEF Active
  <2>3. \A f \in Fibers : pc'[f] \in InShutdown => f \in Active'
    BY <2>2, NextLabel DEF Stacked, Resumes
  <2> QED
    BY <1>2, <2>1, <2>3 DEF Stacked
<1>4. CASE g \notin defer
  <2>1. cur' = g /\ fibers' = <<cur>> \o fibers
    BY <1>4 DEF Resumes, reschedule_task, async_fiber_switch
  <2>2. /\ Range(fibers') = Range(fibers) \cup {cur}
        /\ Len(fibers) \in Nat /\ Len(fibers') = 1 + Len(fibers)
        /\ fibers'[1] = cur
        /\ \A i \in 2..(1 + Len(fibers)) : fibers'[i] = fibers[i - 1]
    BY <2>1, PrependList, PrependAt DEF Sched, FiberLists
  <2>3. cur' # Runner
    BY <2>1, SchedulerAssumption
  <2>4. Active \subseteq Active' /\ cur \in Active
    BY <2>2 DEF Active
  <2>5. \A f \in Fibers : pc'[f] \in InShutdown => f \in Active'
    BY <2>4, NextLabel DEF Stacked, Resumes
  <2>6. ASSUME NEW i \in 1..Len(fibers'), fibers'[i] = Runner
        PROVE  i = Len(fibers')
    <3>1. CASE i = 1
      <4>1. cur = Runner
        BY <2>2, <2>6, <3>1
      <4>2. Len(fibers) = 0
        BY <4>1 DEF Stacked
      <4> QED
        BY <2>2, <3>1, <4>2
    <3>2. CASE i # 1
      <4>1. i - 1 \in 1..Len(fibers) /\ fibers[i - 1] = Runner
        BY <2>2, <2>6, <3>2
      <4>2. i - 1 = Len(fibers)
        BY <4>1 DEF Stacked
      <4> QED
        BY <2>2, <4>2
    <3> QED
      BY <3>1, <3>2
  <2> QED
    BY <1>2, <2>3, <2>5, <2>6 DEF Stacked
<1> QED
  BY <1>3, <1>4

\* When a fiber suspends, the others keep their places.
LEMMA LeavesOn ==
  ASSUME Sched, Stacked, NEW l \in Labels \ InShutdown, Leaves(l),
         Bookkeeping', busy' \in Nat, callbacks' \in Seq(Fibers)
  PROVE  Sched' /\ Stacked'
<1>1. /\ cur' \in Fibers \cup {Runner}
      /\ fibers' \in Seq(Fibers \cup {Runner})
  BY SuspendType DEF Sched, Leaves
<1>2. op' \in [Fibers -> OpStatus]
  BY DEF Leaves, Sched, FiberLists, OpStatus
<1>3. Sched'
  BY <1>1, <1>2, NextLabel DEF Sched, FiberLists, Leaves
<1>4. CASE fibers = <<>>
  <2>1. cur' = Runner /\ fibers' = <<>>
    BY <1>4 DEF Leaves, async_fiber_suspend
  <2>2. Active = {cur}
    BY <1>4, EmptyList DEF Active
  <2>3. Len(fibers') = 0
    BY <2>1
  <2>4. \A f \in Fibers : pc'[f] \notin InShutdown
    BY <2>2, NextLabel DEF Stacked, Leaves
  <2> QED
    BY <1>3, <2>1, <2>3, <2>4 DEF Stacked
<1>5. CASE fibers # <<>>
  <2>1. cur' = Head(fibers) /\ fibers' = Tail(fibers)
    BY <1>5 DEF Leaves, async_fiber_suspend
  <2>2. Range(fibers) = Range(fibers') \cup {cur'}
    BY <1>5, <2>1, TailList DEF Sched, FiberLists
  <2>3. \A f \in Active : f # cur => f \in Active'
    BY <2>2 DEF Active
  <2>4. \A f \in Fibers : pc'[f] \in InShutdown => f \in Active'
    BY <2>3, NextLabel DEF Stacked, Leaves
  <2>5. /\ Len(fibers) \in Nat /\ Len(fibers) > 0
        /\ Len(fibers') = Len(fibers) - 1
        /\ \A i \in 1..Len(fibers') : fibers'[i] = fibers[i + 1]
        /\ cur' = fibers[1]
    BY <1>5, <2>1, HeadTailProperties, EmptySeq DEF Sched, FiberLists
  <2>6. /\ \A i \in 1..Len(fibers') : fibers'[i] = Runner => i = Len(fibers')
        /\ cur' = Runner => Len(fibers') = 0
    BY <2>5 DEF Stacked
  <2>7. cur' = Runner => fibers' = <<>>
    BY <1>1, <2>6, EmptySeq
  <2> QED
    BY <1>3, <2>4, <2>6, <2>7 DEF Stacked
<1> QED
  BY <1>4, <1>5

-----------------------------------------------------------------------------
(***************************************************************************)
(* What a step that leaves a part of the stream alone preserves.           *)
(***************************************************************************)

\* The places of the runner inside a callback.
Callbacks == {"readcb", "readerror", "readeof", "writecb", "writeflush"}

\* The fiber goes from a to l without entering or leaving a callback, and
\* without entering or leaving a shutdown.
Plain(a, l) ==
  \/ a = l
  \/ /\ a \notin Callbacks /\ l \notin Callbacks
     /\ a \notin InShutdown /\ l \notin {"uvclose", "shutwr"}

\* No fiber waits for a write that is not listed: after a step that lets nobody
\* wait for one.
LEMMA MineStays ==
  ASSUME Sched, Mine, NEW l, l # "write", pc' = [pc EXCEPT ![cur] = l],
         UNCHANGED <<writes, detached>>,
         \A f \in Fibers : op'[f] # "RESOLVED" => op[f] # "RESOLVED" \/ f = cur
  PROVE  Mine'
  BY NextLabel, ZenonT(40) DEF Mine

\* Completing an operation is such a step.
LEMMA ResumesMine ==
  ASSUME Sched, Mine, NEW g \in Fibers, NEW o, NEW l, l # "write",
         Resumes(g, o, l), UNCHANGED <<writes, detached>>
  PROVE  Mine'
<1>1. op' = [op EXCEPT ![g] = o] /\ op \in [Fibers -> OpStatus]
  BY DEF Resumes, reschedule_task, Sched, FiberLists
<1>2. \A f \in Fibers : op'[f] # "RESOLVED" => op[f] # "RESOLVED"
  BY <1>1 DEF Resumes
<1> QED
  BY <1>2, MineStays DEF Resumes

\* The write side.
LEMMA MovingStays ==
  ASSUME Sched, Moving, NEW l, pc' = [pc EXCEPT ![cur] = l], Plain(pc[cur], l),
         UNCHANGED <<writes, started, wire, late, handle, flush>>,
         "WRITING" \in flags' <=> "WRITING" \in flags
  PROVE  Moving'
<1>1. pc'[Runner] = pc[Runner] \/ {pc[Runner], pc'[Runner]} \cap Callbacks = {}
  BY NextLabel DEF Plain
<1>2. /\ InWriteCb' <=> InWriteCb
      /\ pc'[Runner] = "writeflush" => pc[Runner] = "writeflush"
  BY <1>1 DEF InWriteCb, Callbacks
<1> QED
  BY <1>2 DEF Moving, Stuck

\* The shutdown.
LEMMA ClosingStays ==
  ASSUME Sched, Closing, NEW l, pc' = [pc EXCEPT ![cur] = l],
         Plain(pc[cur], l), UNCHANGED <<writes, late, handle, shutreq>>,
         \A x \in {"CLOSED", "SHUT_RD", "SHUT_WR", "SHUTDOWN", "DELAY_SHUTDOWN"} :
           x \in flags' <=> x \in flags
  PROVE  Closing'
<1>1. pc'[Runner] = pc[Runner] \/ {pc[Runner], pc'[Runner]} \cap Callbacks = {}
  BY NextLabel DEF Plain
<1>2. InWriteCb' <=> InWriteCb
  BY <1>1 DEF InWriteCb, Callbacks
<1>3. \A f \in Fibers \cup {Runner} :
        /\ pc'[f] \in {"uvclose", "shutwr"} => pc'[f] = pc[f]
        /\ pc[f] \in InShutdown => pc'[f] \in InShutdown
  BY NextLabel DEF Plain
<1> QED
  BY <1>2, <1>3 DEF Closing

\* The read side.
LEMMA ServedStays ==
  ASSUME Sched, Kept, Served, NEW l, pc' = [pc EXCEPT ![cur] = l],
         Plain(pc[cur], l), pc[cur] # "read",
         UNCHANGED <<reader, retried, reading, ring>>,
         ReadRunning' => ReadRunning,
         cur' # Runner => cur # Runner \/ pc[Runner] # "readerror",
         \A x \in {"READING", "EOF", "SHUT_RD"} : x \in flags' <=> x \in flags
  PROVE  Served'
<1>1. pc'[Runner] = pc[Runner] \/ {pc[Runner], pc'[Runner]} \cap Callbacks = {}
  BY NextLabel DEF Plain
<1>2. \A x \in Callbacks : pc'[Runner] = x <=> pc[Runner] = x
  BY <1>1
<1>3. reader # None => pc'[reader] = "read"
  BY NextLabel DEF Served, Kept
<1> QED
  BY <1>2, <1>3 DEF Served, Callbacks, ShouldRead

\* A step that leaves the stream alone.
LEMMA StreamStays ==
  ASSUME Sched, Kept, Ringed, Queued, Moving, Closing, Served,
         UNCHANGED streamVars, NEW l, pc' = [pc EXCEPT ![cur] = l],
         Plain(pc[cur], l), pc[cur] # "read", ReadRunning' => ReadRunning,
         cur' # Runner => cur # Runner \/ pc[Runner] # "readerror"
  PROVE  Kept' /\ Ringed' /\ Queued' /\ Moving' /\ Closing' /\ Served'
<1>1. /\ UNCHANGED <<flags, ring, arrived, taken, reader, want, alarm, reading>>
      /\ UNCHANGED <<writes, started, detached, stale, wire, sent, issued, flush>>
      /\ UNCHANGED <<shutreq, handle, retried, late>>
  BY DEF streamVars
<1>2. Kept' /\ Ringed' /\ Queued'
  BY <1>1 DEF Kept, Ringed, Queued
<1>3. Moving' /\ Closing'
  BY <1>1, MovingStays, ClosingStays
<1>4. Served'
  BY <1>1, ServedStays
<1> QED
  BY <1>2, <1>3, <1>4

\* Completing an operation lets no read wait.
LEMMA ResumesNoRead ==
  ASSUME Sched, Kept, UNCHANGED reader, NEW g, NEW o, NEW l, Resumes(g, o, l)
  PROVE  ReadRunning' => ReadRunning /\ reader # g
<1>1. op' = [op EXCEPT ![g] = o] /\ op \in [Fibers -> OpStatus]
  BY DEF Resumes, reschedule_task, Sched, FiberLists
<1> QED
  BY <1>1 DEF Resumes, ReadRunning, Kept

-----------------------------------------------------------------------------
(***************************************************************************)
(* The scheduler's steps.                                                  *)
(***************************************************************************)

\* A step in which the current fiber goes on in the same part of the code.
LEMMA GoesStep ==
  ASSUME IInv, NEW l \in Labels, Goes(l), UNCHANGED streamVars,
         Plain(pc[cur], l), pc[cur] # "read", l # "write",
         Bookkeeping', busy' \in Nat, callbacks' \in Seq(Fibers)
  PROVE  IInv'
<1>1. Sched' /\ Stacked'
  BY GoesOn DEF IInv
<1>2. Mine'
  BY MineStays DEF IInv, Goes, streamVars
<1>3. ReadRunning' => ReadRunning
  BY DEF ReadRunning, Goes, streamVars
<1>4. Kept' /\ Ringed' /\ Queued' /\ Moving' /\ Closing' /\ Served'
  BY <1>3, StreamStays DEF IInv, Goes
<1> QED
  BY <1>1, <1>2, <1>4 DEF IInv

\* A step in which it suspends there.
LEMMA LeavesStep ==
  ASSUME IInv, NEW l \in Labels \ InShutdown, Leaves(l), UNCHANGED streamVars,
         UNCHANGED op, Plain(pc[cur], l), pc[cur] # "read", l # "write",
         Bookkeeping', busy' \in Nat, callbacks' \in Seq(Fibers)
  PROVE  IInv'
<1>1. Sched' /\ Stacked'
  BY LeavesOn DEF IInv
<1>2. Mine'
  BY MineStays DEF IInv, Leaves, streamVars
<1>3. ReadRunning' => ReadRunning
  BY DEF ReadRunning, streamVars
<1>4. cur # Runner
  BY SchedulerAssumption DEF Leaves
<1>5. Kept' /\ Ringed' /\ Queued' /\ Moving' /\ Closing' /\ Served'
  BY <1>3, <1>4, StreamStays DEF IInv, Leaves
<1> QED
  BY <1>1, <1>2, <1>5 DEF IInv

\* A step in which it completes an operation there.
LEMMA ResumesStep ==
  ASSUME IInv, NEW g \in Fibers, NEW o, NEW l \in Labels, Resumes(g, o, l),
         UNCHANGED streamVars, Plain(pc[cur], l), pc[cur] # "read",
         pc[cur] # "readerror", l # "write",
         Bookkeeping', busy' \in Nat, callbacks' \in Seq(Fibers)
  PROVE  IInv'
<1>1. Sched' /\ Stacked'
  BY ResumesOn DEF IInv
<1>2. Mine'
  BY ResumesMine DEF IInv, streamVars
<1>3. ReadRunning' => ReadRunning
  BY ResumesNoRead DEF IInv, streamVars
<1>4. Kept' /\ Ringed' /\ Queued' /\ Moving' /\ Closing' /\ Served'
  BY <1>3, StreamStays DEF IInv, Resumes
<1> QED
  BY <1>1, <1>2, <1>4 DEF IInv

\* dispatch_tasks.
LEMMA DispatchStep ==
  ASSUME IInv, dispatch_tasks, UNCHANGED streamVars
  PROVE  IInv'
<1>1. /\ cur = Runner /\ pc[Runner] = "run" /\ ready # <<>>
      /\ ready' = Tail(ready)
      /\ status' = [status EXCEPT ![Head(ready)] = "RUNNING"]
      /\ async_fiber_switch(Head(ready))
      /\ UNCHANGED <<pc, op, defer, busy, callbacks, triggered, disposed, calls>>
  BY DEF dispatch_tasks
<1>2. PICK g \in Fibers : g = Head(ready) /\ Tail(ready) \in Seq(Fibers)
  BY <1>1, TailList DEF IInv, Sched, FiberLists
<1>3. fibers = <<>> /\ cur' = g /\ fibers' = <<Runner>>
  <2>1. fibers = <<>>
    BY <1>1 DEF IInv, Stacked
  <2>2. fibers' = <<Runner>> \o <<>>
    BY <1>1, <2>1 DEF async_fiber_switch
  <2> QED
    BY <1>1, <1>2, <2>1, <2>2 DEF async_fiber_switch
<1>4. FiberLists'
  <2>1. status' \in [Fibers -> TaskStatus]
    BY <1>1, <1>2 DEF IInv, Sched, FiberLists, TaskStatus
  <2> QED
    BY <1>1, <1>2, <1>3, <2>1 DEF IInv, Sched, FiberLists
<1>5. Sched'
  BY <1>1, <1>4, SameBookkeeping DEF IInv, Sched
<1>6. Stacked'
  <2>1. Active = {Runner}
    BY <1>1, <1>3, EmptyList DEF Active
  <2>2. \A f \in Fibers : pc[f] \notin InShutdown
    BY <2>1, SchedulerAssumption DEF IInv, Stacked
  <2>3. cur' # Runner
    BY <1>3, SchedulerAssumption
  <2>4. Len(fibers') = 1
    BY <1>3
  <2> QED
    BY <1>1, <2>2, <2>3, <2>4 DEF Stacked
<1>7. pc' = [pc EXCEPT ![cur] = "run"]
  BY <1>1 DEF IInv, Sched
<1>8. Mine'
  BY <1>1, <1>7, MineStays DEF IInv, streamVars
<1>9. ReadRunning' => ReadRunning
  BY <1>1 DEF ReadRunning, streamVars
<1>10. Kept' /\ Ringed' /\ Queued' /\ Moving' /\ Closing' /\ Served'
  BY <1>1, <1>7, <1>9, StreamStays DEF IInv, Plain
<1> QED
  BY <1>5, <1>6, <1>8, <1>10 DEF IInv

\* run_task_fiber, async_task_scheduler_dispose and the end of the disposal:
\* the fiber suspends.
LEMMA SuspendStep ==
  ASSUME IInv, UNCHANGED streamVars,
         \/ \E t \in Tasks : run_task_fiber(t)
         \/ async_task_scheduler_dispose
         \/ \E s : DisposeDrain(s)
  PROVE  IInv'
<1>1. CASE \E t \in Tasks : run_task_fiber(t)
  <2>1. PICK t \in Tasks : run_task_fiber(t)
    BY <1>1
  <2>2. /\ cur = t /\ t \in Fibers /\ pc[t] = "run"
        /\ status' = [status EXCEPT ![t] = "FINISHED"]
        /\ pc' = [pc EXCEPT ![t] = "done"]
        /\ async_fiber_suspend
        /\ UNCHANGED <<ready, op, defer, busy, callbacks, triggered, disposed,
                       calls>>
    BY <2>1 DEF run_task_fiber, Fibers
  <2>3. Leaves("done") /\ UNCHANGED op
    BY <2>2 DEF Leaves, IInv, Sched, FiberLists, TaskStatus
  <2>4. "done" \in Labels \ InShutdown /\ Plain(pc[cur], "done")
    BY <2>2 DEF Labels, InShutdown, Plain, Callbacks
  <2> QED
    BY <2>2, <2>3, <2>4, SameBookkeeping, LeavesStep DEF IInv
<1>2. CASE async_task_scheduler_dispose \/ \E s : DisposeDrain(s)
  <2>1. /\ cur = Root /\ Root \in Fibers /\ pc[Root] \in {"run", "dispose"}
        /\ pc' = [pc EXCEPT ![Root] = "drain"]
        /\ async_fiber_suspend
        /\ UNCHANGED <<ready, status, op, defer, busy, callbacks, triggered,
                       disposed, calls>>
    BY <1>2 DEF async_task_scheduler_dispose, DisposeDrain, Fibers
  <2>2. Leaves("drain") /\ UNCHANGED op
    BY <2>1 DEF Leaves, IInv, Sched, FiberLists
  <2>3. "drain" \in Labels \ InShutdown /\ Plain(pc[cur], "drain")
    BY <2>1 DEF Labels, InShutdown, Plain, Callbacks
  <2> QED
    BY <2>1, <2>2, <2>3, SameBookkeeping, LeavesStep DEF IInv
<1> QED
  BY <1>1, <1>2

\* run_scheduler_fiber: the loop has nothing to do and the main script goes on.
LEMMA LoopEndsStep ==
  ASSUME IInv, UNCHANGED streamVars, NEW s, run_scheduler_fiber(s)
  PROVE  IInv'
<1>1. /\ cur = Runner /\ pc[Runner] = "run" /\ pc[Root] = "drain"
      /\ cur' = Root /\ disposed' = TRUE
      /\ UNCHANGED <<fibers, ready, status, op, defer, busy, callbacks,
                     triggered, calls>>
  BY DEF run_scheduler_fiber
<1>2. PICK l \in {"done", "dispose"} : pc' = [pc EXCEPT ![Root] = l]
  BY DEF run_scheduler_fiber
<1>3. Root \in Fibers /\ Root # Runner
  BY SchedulerAssumption DEF Fibers
<1>4. /\ pc' \in [Fibers \cup {Runner} -> Labels]
      /\ pc'[Root] = l
      /\ \A f \in Fibers \cup {Runner} : f # Root => pc'[f] = pc[f]
  BY <1>2, <1>3 DEF IInv, Sched, Labels
<1>5. Sched'
  BY <1>1, <1>3, <1>4 DEF IInv, Sched, FiberLists, Bookkeeping
<1>6. Stacked'
  <2>1. fibers = <<>> /\ Len(fibers) = 0
    BY <1>1 DEF IInv, Stacked
  <2>2. Active = {Runner}
    BY <1>1, <2>1, EmptyList DEF Active
  <2>3. \A f \in Fibers : pc'[f] \notin InShutdown
    BY <1>2, <1>3, <1>4, <2>2, SchedulerAssumption DEF IInv, Stacked, InShutdown
  <2> QED
    BY <1>1, <1>3, <2>1, <2>3 DEF Stacked
<1>7. /\ UNCHANGED <<flags, ring, arrived, taken, reader, want, alarm, reading>>
      /\ UNCHANGED <<writes, started, detached, stale, wire, sent, issued, flush>>
      /\ UNCHANGED <<shutreq, handle, retried, late>>
  BY DEF streamVars
<1>8. Kept' /\ Ringed' /\ Queued'
  BY <1>7 DEF IInv, Kept, Ringed, Queued
<1>9. Mine'
  BY <1>1, <1>2, <1>4, <1>7 DEF IInv, Mine
<1>10. Moving'
  BY <1>3, <1>4, <1>7 DEF IInv, Moving, InWriteCb, Stuck
<1>11. Closing'
  <2>1. \A f \in Fibers \cup {Runner} :
          /\ pc'[f] \in {"uvclose", "shutwr"} => pc'[f] = pc[f]
          /\ pc[f] \in InShutdown => pc'[f] \in InShutdown
    BY <1>1, <1>2, <1>4 DEF InShutdown
  <2> QED
    BY <1>3, <1>4, <1>7, <2>1 DEF IInv, Closing, InWriteCb
<1>12. Served'
  BY <1>1, <1>3, <1>4, <1>7 DEF IInv, Served, ReadRunning, Kept, ShouldRead
<1> QED
  BY <1>5, <1>6, <1>8, <1>9, <1>10, <1>11, <1>12 DEF IInv

\* CancelInvoke.
LEMMA CancelStep ==
  ASSUME IInv, UNCHANGED streamVars, NEW f, CancelInvoke(f)
  PROVE  IInv'
<1>1. /\ \/ MayCall(f) /\ Call(f)
         \/ f = Runner /\ cur = Runner /\ pc[Runner] = "run" /\ UNCHANGED calls
      /\ triggered' = TRUE
      /\ pc' = [pc EXCEPT ![f] = "cancel"]
      /\ UNCHANGED <<cur, fibers, ready, status, op, defer, busy, callbacks,
                     disposed>>
  BY DEF CancelInvoke
<1>2. cur = f /\ pc[f] = "run"
  BY <1>1 DEF MayCall
<1>3. Bookkeeping'
  <2>1. CASE MayCall(f) /\ Call(f)
    BY <1>1, <2>1, CallBound DEF IInv, Sched, Bookkeeping
  <2>2. CASE UNCHANGED calls
    BY <1>1, <2>2 DEF IInv, Sched, Bookkeeping
  <2> QED
    BY <1>1, <2>1, <2>2
<1>4. busy' \in Nat /\ callbacks' \in Seq(Fibers)
  BY <1>1 DEF IInv, Sched
<1>5. Goes("cancel") /\ "cancel" \in Labels /\ Plain(pc[cur], "cancel")
  BY <1>1, <1>2 DEF Goes, Labels, Plain, Callbacks, InShutdown
<1> QED
  BY <1>2, <1>3, <1>4, <1>5, GoesStep

\* CancelLoop.
LEMMA CancelLoopStep ==
  ASSUME IInv, UNCHANGED streamVars, CancelLoop
  PROVE  IInv'
<1>1. pc[cur] = "cancel" /\ UNCHANGED <<defer, busy, triggered, disposed, calls>>
  BY DEF CancelLoop
<1>2. Bookkeeping' /\ busy' \in Nat
  BY <1>1 DEF IInv, Sched, Bookkeeping
<1>3. CASE callbacks = <<>>
  <2>1. Goes("run") /\ UNCHANGED callbacks
    BY <1>3 DEF CancelLoop, Goes
  <2>2. "run" \in Labels /\ Plain(pc[cur], "run") /\ callbacks' \in Seq(Fibers)
    BY <1>1, <2>1 DEF Labels, Plain, Callbacks, InShutdown, IInv, Sched
  <2> QED
    BY <1>1, <1>2, <2>1, <2>2, GoesStep
<1>4. CASE callbacks # <<>>
  <2>1. /\ callbacks' = Tail(callbacks) /\ UNCHANGED pc
        /\ IF op[Head(callbacks)] = "RUNNING"
           THEN reschedule_task(Head(callbacks), "FAILED")
           ELSE UNCHANGED <<cur, fibers, ready, status, op>>
    BY <1>4 DEF CancelLoop
  <2>2. Head(callbacks) \in Fibers /\ callbacks' \in Seq(Fibers)
    BY <1>4, <2>1, TailList DEF IInv, Sched
  <2>3. pc' = [pc EXCEPT ![cur] = "cancel"]
    BY <1>1, <2>1 DEF IInv, Sched
  <2>4. "cancel" \in Labels /\ Plain(pc[cur], "cancel")
    BY <1>1 DEF Labels, Plain
  <2>5. CASE op[Head(callbacks)] = "RUNNING"
    <3>1. Resumes(Head(callbacks), "FAILED", "cancel")
      BY <2>1, <2>3, <2>5 DEF Resumes
    <3> QED
      BY <1>1, <1>2, <2>2, <2>4, <3>1, ResumesStep
  <2>6. CASE op[Head(callbacks)] # "RUNNING"
    <3>1. Goes("cancel")
      BY <2>1, <2>3, <2>6 DEF Goes
    <3> QED
      BY <1>1, <1>2, <2>2, <2>4, <3>1, GoesStep
  <2> QED
    BY <2>5, <2>6
<1> QED
  BY <1>3, <1>4

-----------------------------------------------------------------------------
(***************************************************************************)
(* Reading.                                                                *)
(***************************************************************************)

\* A library call that changes nothing.
LEMMA RefusedStep ==
  ASSUME IInv, NEW f, MayCall(f), Call(f),
         UNCHANGED <<cur, fibers, ready, status, pc, op, callbacks, streamVars,
                     defer, busy, triggered, disposed>>
  PROVE  IInv'
<1>1. f \in Fibers /\ cur = f /\ pc[f] = "run" /\ Bookkeeping'
  BY CallBound, CallFlags DEF IInv, Sched
<1>2. busy' \in Nat /\ callbacks' \in Seq(Fibers)
  BY DEF IInv, Sched
<1>3. Goes("run") /\ "run" \in Labels /\ Plain(pc[cur], "run")
  BY <1>1 DEF Goes, IInv, Sched, Labels, Plain
<1> QED
  BY <1>1, <1>2, <1>3, GoesStep

\* What a library call that returns at once leaves alone: f goes on in user
\* code.
LEMMA UserGoes ==
  ASSUME IInv, NEW f, MayCall(f), Call(f),
         UNCHANGED <<cur, fibers, ready, status, pc, op, callbacks,
                     defer, busy, triggered, disposed>>
  PROVE  /\ f \in Fibers /\ cur = f /\ pc[f] = "run" /\ f # Runner
         /\ pc' = [pc EXCEPT ![cur] = "run"] /\ Plain(pc[cur], "run")
         /\ Sched' /\ Stacked'
<1>1. f \in Fibers /\ cur = f /\ pc[f] = "run" /\ Bookkeeping'
  BY CallBound, CallFlags DEF IInv, Sched
<1>2. busy' \in Nat /\ callbacks' \in Seq(Fibers)
  BY DEF IInv, Sched
<1>3. Goes("run") /\ "run" \in Labels /\ Plain(pc[cur], "run")
  BY <1>1 DEF Goes, IInv, Sched, Labels, Plain
<1> QED
  BY <1>1, <1>2, <1>3, GoesOn, SchedulerAssumption DEF IInv, Goes

\* Buffered bytes are returned at once.
LEMMA BufferedStep ==
  ASSUME IInv, NEW f, MayCall(f), Call(f), NEW n \in Nat, ReadBuffered(n),
         UNCHANGED <<defer, busy, triggered, disposed>>
  PROVE  IInv'
<1>1. /\ "SHUT_RD" \notin flags /\ ~ReadRunning /\ ring.len > 0 /\ Take(n)
      /\ UNCHANGED <<cur, fibers, ready, status, pc, op, callbacks, arrived>>
      /\ UNCHANGED <<reader, want, alarm, retried, writeVars, shutreq, handle>>
  BY DEF ReadBuffered
<1>2. PICK ahead \in BOOLEAN :
        /\ ahead => flags = {} /\ ShouldRead(ring')
        /\ flags' = IF ahead THEN flags \cup {"READING"} ELSE flags
        /\ reading' = (reading \/ ahead)
  BY DEF ReadBuffered
<1>3. UNCHANGED <<writes, started, detached, stale, wire, sent, issued, flush,
                  late>>
  BY <1>1 DEF writeVars
<1>4. /\ f \in Fibers /\ cur = f /\ pc[f] = "run" /\ f # Runner
      /\ pc' = [pc EXCEPT ![cur] = "run"] /\ Plain(pc[cur], "run")
      /\ Sched' /\ Stacked'
  BY <1>1, UserGoes
<1>5. Ringed' /\ ring'.len <= ring.len
  BY <1>1, TakeNext DEF IInv
<1>6. Kept'
  BY <1>1, <1>2, <1>3 DEF IInv, Kept, Flags
<1>7. Queued' /\ Mine'
  BY <1>1, <1>3 DEF IInv, Queued, Mine
<1>8. \A x : x # "READING" => (x \in flags' <=> x \in flags)
  BY <1>2
<1>9. Moving' /\ Closing'
  BY <1>1, <1>3, <1>4, <1>8, MovingStays, ClosingStays DEF IInv
<1>10. Served'
  <2>1. pc[Runner] # "readerror"
    BY <1>1, <1>4 DEF IInv, Served
  <2>2. ~ReadRunning'
    BY <1>1 DEF ReadRunning
  <2>3. "READING" \in flags' => reading' \/ "EOF" \in flags' \/ retried'
    BY <1>1, <1>2 DEF IInv, Served
  <2>4. reading' /\ pc'[Runner] # "readcb" => ShouldRead(ring')
    <3>1. ring.len \in Nat /\ ring'.len \in Nat /\ BufSize \in Nat /\ Low \in Nat
      BY <1>5, BufSizeAssumption, StreamAssumption
         DEF IInv, Ringed, Holds, Rings
    <3>2. ShouldRead(ring) => ShouldRead(ring')
      BY <1>5, <3>1 DEF ShouldRead
    <3> QED
      BY <1>1, <1>2, <3>2 DEF IInv, Served
  <2> QED
    BY <1>1, <1>8, <2>1, <2>2, <2>3, <2>4 DEF IInv, Served
<1> QED
  BY <1>4, <1>5, <1>6, <1>7, <1>9, <1>10 DEF IInv

\* An empty buffer has room.
LEMMA EmptyReads ==
  ASSUME ring.len = 0
  PROVE  ShouldRead(ring)
  BY BufSizeAssumption, StreamAssumption DEF ShouldRead

\* Suspending in a library call.
LEMMA UserLeaves ==
  ASSUME IInv, NEW f, MayCall(f), Call(f), NEW l \in {"read", "write", "flush"},
         AwaitSuspend(f, l), UNCHANGED <<ready, defer, busy, triggered, disposed>>
  PROVE  /\ f \in Fibers /\ cur = f /\ pc[f] = "run" /\ f # Runner
         /\ pc' = [pc EXCEPT ![cur] = l] /\ Plain(pc[cur], l)
         /\ pc'[f] = l /\ pc'[Runner] = pc[Runner]
         /\ op' = [op EXCEPT ![f] = "RUNNING"]
         /\ Sched' /\ Stacked'
<1>1. f \in Fibers /\ cur = f /\ pc[f] = "run" /\ Bookkeeping'
  BY CallBound, CallFlags DEF IInv, Sched
<1>2. busy' \in Nat
  BY DEF IInv, Sched
<1>3. callbacks' \in Seq(Fibers)
  BY <1>1, AppendList DEF AwaitSuspend, IInv, Sched
<1>4. Leaves(l) /\ l \in Labels \ InShutdown /\ Plain(pc[cur], l)
  BY <1>1 DEF AwaitSuspend, Leaves, IInv, Sched, FiberLists, TaskStatus, Labels,
              InShutdown, Plain, Callbacks
<1>5. Sched' /\ Stacked'
  BY <1>2, <1>1, <1>3, <1>4, LeavesOn DEF IInv
<1>6. f # Runner /\ pc' = [pc EXCEPT ![cur] = l]
  BY <1>1, SchedulerAssumption DEF AwaitSuspend
<1>7. pc'[f] = l /\ pc'[Runner] = pc[Runner]
  BY <1>1, <1>6, NextLabel DEF IInv
<1> QED
  BY <1>1, <1>4, <1>5, <1>6, <1>7 DEF AwaitSuspend

\* The read waits.
LEMMA WaitsStep ==
  ASSUME IInv, NEW f, MayCall(f), Call(f), NEW n \in Nat, NEW timed \in BOOLEAN,
         ReadWaits(f, n, timed), UNCHANGED <<defer, busy, triggered, disposed>>
  PROVE  IInv'
<1>1. /\ "SHUT_RD" \notin flags /\ "EOF" \notin flags
      /\ ~ReadRunning /\ ring.len = 0
      /\ flags' = flags \cup {"READING"}
      /\ reading' = (reading \/ "READING" \notin flags)
      /\ retried' = (retried \/ pc[Runner] = "readerror")
      /\ UNCHANGED <<ring, arrived, taken, writeVars, shutreq, handle>>
  BY DEF ReadWaits
<1>2. UNCHANGED <<writes, started, detached, stale, wire, sent, issued, flush,
                  late>>
  BY <1>1 DEF writeVars
<1>3. Ringed' /\ Queued'
  BY <1>1, <1>2 DEF IInv, Ringed, Queued
<1>4. \A x : x # "READING" => (x \in flags' <=> x \in flags)
  BY <1>1
<1>5. /\ "READING" \in flags' => reading' \/ "EOF" \in flags' \/ retried'
      /\ ShouldRead(ring') /\ ring'.len = 0
      /\ pc[Runner] = "readerror" => retried'
  BY <1>1, EmptyReads DEF IInv, Served, ShouldRead
<1>6. CASE AwaitRefused(f)
  <2>1. UNCHANGED <<cur, fibers, ready, status, pc, op, callbacks, reader, want,
                    alarm>>
    BY <1>6 DEF ReadWaits
  <2>2. /\ f \in Fibers /\ cur = f /\ pc[f] = "run" /\ f # Runner
        /\ pc' = [pc EXCEPT ![cur] = "run"] /\ Plain(pc[cur], "run")
        /\ Sched' /\ Stacked'
    BY <2>1, UserGoes
  <2>3. Kept' /\ Mine'
    BY <1>1, <1>2, <2>1 DEF IInv, Kept, Flags, Mine
  <2>4. Moving' /\ Closing'
    BY <1>1, <1>2, <1>4, <2>2, MovingStays, ClosingStays DEF IInv
  <2>5. ~ReadRunning'
    BY <1>1, <2>1 DEF ReadRunning
  <2>6. Served'
    BY <1>1, <1>4, <1>5, <2>1, <2>5 DEF IInv, Served
  <2> QED
    BY <1>3, <2>2, <2>3, <2>4, <2>6 DEF IInv
<1>7. CASE ~AwaitRefused(f)
  <2>1. /\ AwaitSuspend(f, "read") /\ UNCHANGED ready
        /\ reader' = f /\ want' = n /\ alarm' = timed
    BY <1>7 DEF ReadWaits
  <2>2. /\ f \in Fibers /\ cur = f /\ pc[f] = "run" /\ f # Runner
        /\ pc' = [pc EXCEPT ![cur] = "read"] /\ Plain(pc[cur], "read")
        /\ pc'[f] = "read" /\ pc'[Runner] = pc[Runner]
        /\ op' = [op EXCEPT ![f] = "RUNNING"]
        /\ Sched' /\ Stacked'
    BY <2>1, UserLeaves
  <2>3. Kept'
    BY <1>1, <1>2, <2>1, <2>2 DEF IInv, Kept, Flags
  <2>4. Mine'
    <3>1. \A g \in Fibers : g # f => op'[g] = op[g]
      BY <2>2 DEF IInv, Sched, FiberLists
    <3> QED
      BY <1>2, <2>2, <3>1, MineStays DEF IInv
  <2>5. Moving' /\ Closing'
    BY <1>1, <1>2, <1>4, <2>2, MovingStays, ClosingStays DEF IInv
  <2>6. Served'
    BY <1>1, <1>4, <1>5, <2>1, <2>2 DEF IInv, Served
  <2> QED
    BY <1>3, <2>2, <2>3, <2>4, <2>5, <2>6 DEF IInv
<1> QED
  BY <1>6, <1>7

\* async_stream_read.
LEMMA ReadStep ==
  ASSUME IInv, NEW f, async_stream_read(f)
  PROVE  IInv'
<1>1. /\ MayCall(f) /\ Call(f)
      /\ UNCHANGED <<defer, busy, triggered, disposed>>
  BY DEF async_stream_read
<1>2. PICK n \in {1, BufSize}, timed \in BOOLEAN :
        ReadAtOnce \/ ReadBuffered(n) \/ ReadWaits(f, n, timed)
  BY DEF async_stream_read
<1>3. n \in Nat
  BY <1>2, BufSizeAssumption
<1>4. CASE ReadAtOnce
  BY <1>1, <1>4, RefusedStep DEF ReadAtOnce
<1>5. CASE ReadBuffered(n)
  BY <1>1, <1>3, <1>5, BufferedStep
<1>6. CASE ReadWaits(f, n, timed)
  BY <1>1, <1>3, <1>6, WaitsStep
<1> QED
  BY <1>2, <1>4, <1>5, <1>6

\* A fiber returns from a wait.
LEMMA Returns ==
  ASSUME IInv, NEW f \in Fibers, NEW l \in {"read", "write", "flush"},
         cur = f, pc[f] = l, AwaitResume(f),
         UNCHANGED <<cur, fibers, ready, status, defer, busy, triggered,
                     disposed, calls>>
  PROVE  /\ Sched' /\ Stacked' /\ f # Runner
         /\ pc' = [pc EXCEPT ![cur] = "run"] /\ Plain(pc[cur], "run")
         /\ op' = [op EXCEPT ![f] = "PENDING"]
         /\ pc'[Runner] = pc[Runner]
<1>1. /\ op' = [op EXCEPT ![f] = "PENDING"]
      /\ callbacks' = ASYNC_LIST_REMOVE(callbacks, f)
      /\ pc' = [pc EXCEPT ![cur] = "run"]
  BY DEF AwaitResume
<1>2. callbacks' \in Seq(Fibers)
  BY <1>1, RemoveList DEF IInv, Sched
<1>3. "run" \in Labels /\ Plain(pc[cur], "run")
  BY DEF Labels, Plain, Callbacks, InShutdown
<1>4. Sched'
  BY <1>1, <1>2, <1>3, NextLabel DEF IInv, Sched, FiberLists, OpStatus,
                                     Bookkeeping
<1>5. Active' = Active /\ cur \in Active
  BY DEF Active
<1>6. \A g \in Fibers : pc'[g] \in InShutdown => g \in Active'
  BY <1>1, <1>5, NextLabel DEF IInv, Stacked
<1>7. Stacked'
  BY <1>6 DEF IInv, Stacked
<1>8. f # Runner /\ pc'[Runner] = pc[Runner]
  BY <1>1, SchedulerAssumption, NextLabel DEF IInv
<1> QED
  BY <1>1, <1>3, <1>4, <1>7, <1>8

\* async_stream_read after the wait.
LEMMA ReadReturnsStep ==
  ASSUME IInv, NEW f \in Fibers, ReadReturns(f)
  PROVE  IInv'
<1>1. /\ cur = f /\ pc[f] = "read" /\ AwaitResume(f)
      /\ reader' = None /\ want' = 0 /\ alarm' = FALSE
      /\ UNCHANGED <<cur, fibers, ready, status, defer, busy, triggered,
                     disposed, calls>>
      /\ UNCHANGED <<flags, ring, arrived, taken, retried, reading, writeVars,
                     shutreq, handle>>
  BY DEF ReadReturns
<1>2. UNCHANGED <<writes, started, detached, stale, wire, sent, issued, flush,
                  late>>
  BY <1>1 DEF writeVars
<1>3. /\ Sched' /\ Stacked' /\ f # Runner
      /\ pc' = [pc EXCEPT ![cur] = "run"] /\ Plain(pc[cur], "run")
      /\ op' = [op EXCEPT ![f] = "PENDING"]
      /\ pc'[Runner] = pc[Runner]
  BY <1>1, Returns
<1>4. Kept' /\ Ringed' /\ Queued'
  BY <1>1, <1>2 DEF IInv, Kept, Ringed, Queued
<1>5. Mine'
  <2>1. \A g \in Fibers : g # f => op'[g] = op[g]
    BY <1>3 DEF IInv, Sched, FiberLists
  <2> QED
    BY <1>1, <1>2, <1>3, <2>1, MineStays DEF IInv
<1>6. Moving' /\ Closing'
  BY <1>1, <1>2, <1>3, MovingStays, ClosingStays DEF IInv
<1>7. Served'
  BY <1>1, <1>3 DEF IInv, Served, ReadRunning, ShouldRead
<1> QED
  BY <1>3, <1>4, <1>5, <1>6, <1>7 DEF IInv

\* The completion of a pending read: afterwards none waits, and the fiber that
\* completed it goes on at l later, or at once when none did.
LEMMA Finishes ==
  ASSUME IInv, NEW c \in BOOLEAN, NEW l \in Labels, l # "write",
         FinishIfReading(c, l), Bookkeeping',
         UNCHANGED <<busy, callbacks, reader, writes, detached>>
  PROVE  /\ Sched' /\ Stacked' /\ Mine'
         /\ pc' = [pc EXCEPT ![cur] = l]
         /\ ReadRunning' => ReadRunning /\ ~c
         /\ cur' # cur => ReadRunning
<1>1. busy' \in Nat /\ callbacks' \in Seq(Fibers)
  BY DEF IInv, Sched
<1>2. CASE c /\ ReadRunning
  <2>1. reader \in Fibers /\ Resumes(reader, "RESOLVED", l)
    BY <1>2 DEF FinishIfReading, FinishRead, Resumes, ReadRunning, IInv, Kept
  <2>2. Sched' /\ Stacked'
    BY <1>1, <2>1, ResumesOn DEF IInv
  <2>3. Mine'
    BY <2>1, ResumesMine DEF IInv
  <2>4. ~ReadRunning'
    BY <2>1, ResumesNoRead DEF IInv
  <2> QED
    BY <1>2, <2>1, <2>2, <2>3, <2>4 DEF Resumes
<1>3. CASE ~(c /\ ReadRunning)
  <2>1. Goes(l)
    BY <1>3 DEF FinishIfReading, Goes
  <2>2. Sched' /\ Stacked'
    BY <1>1, <2>1, GoesOn DEF IInv
  <2>3. Mine'
    BY <2>1, MineStays DEF IInv, Goes
  <2>4. ReadRunning' <=> ReadRunning
    BY <2>1 DEF ReadRunning, Goes
  <2> QED
    BY <1>3, <2>1, <2>2, <2>3, <2>4 DEF Goes
<1> QED
  BY <1>2, <1>3

\* A callback of libuv begins: the runner goes from user code to l.
LEMMA Begins ==
  ASSUME IInv, cur = Runner, pc[Runner] = "run", NEW l \in Labels,
         pc' = [pc EXCEPT ![Runner] = l],
         UNCHANGED <<cur, fibers, ready, status, op, defer, busy, callbacks,
                     triggered, disposed, calls>>
  PROVE  /\ Sched' /\ Stacked' /\ pc'[Runner] = l /\ Runner \notin Fibers
         /\ \A f \in Fibers : pc'[f] = pc[f]
<1>1. Goes(l)
  BY DEF Goes
<1>2. Sched' /\ Stacked'
  BY <1>1, SameBookkeeping, GoesOn DEF IInv
<1>3. Runner \notin Fibers
  BY SchedulerAssumption
<1> QED
  BY <1>2, <1>3, NextLabel DEF IInv

\* The parts of the write side in a step of read_cb or of its callers.
LEMMA ReadCallback ==
  ASSUME IInv, NEW l, pc' = [pc EXCEPT ![Runner] = l], cur = Runner,
         pc[Runner] \in {"run", "readcb", "readerror", "readeof"},
         l \in {"run", "readcb", "readerror", "readeof"},
         UNCHANGED <<writeVars, shutreq, handle>>,
         \A x : x \notin {"READING", "EOF"} => (x \in flags' <=> x \in flags)
  PROVE  Queued' /\ Moving' /\ Closing'
<1>1. UNCHANGED <<writes, started, detached, stale, wire, sent, issued, flush,
                  late>>
  BY DEF writeVars
<1>2. Queued'
  BY <1>1 DEF IInv, Queued
<1>3. /\ pc'[Runner] = l
      /\ \A f \in Fibers \cup {Runner} : f # Runner => pc'[f] = pc[f]
  BY NextLabel DEF IInv
<1>4. ~InWriteCb /\ ~InWriteCb'
  BY <1>3 DEF InWriteCb
<1>5. Moving'
  BY <1>1, <1>3, <1>4 DEF IInv, Moving, Stuck
<1>6. \A f \in Fibers \cup {Runner} :
        /\ pc'[f] \in {"uvclose", "shutwr"} => pc'[f] = pc[f]
        /\ pc[f] \in InShutdown => pc'[f] \in InShutdown
  BY <1>3 DEF InShutdown
<1>7. Closing'
  BY <1>1, <1>4, <1>6 DEF IInv, Closing
<1> QED
  BY <1>2, <1>5, <1>7

\* read_cb with bytes.
LEMMA ReadDataStep ==
  ASSUME IInv, ReadData
  PROVE  IInv'
<1>1. /\ cur = Runner /\ pc[Runner] = "run" /\ reading
      /\ pc' = [pc EXCEPT ![Runner] = "readcb"]
      /\ UNCHANGED <<cur, fibers, ready, status, op, defer, busy, callbacks,
                     triggered, disposed, calls>>
      /\ UNCHANGED <<flags, taken, reader, want, alarm, retried, reading>>
      /\ UNCHANGED <<writeVars, shutreq, handle>>
  BY DEF ReadData
<1>2. "readcb" \in Labels
  BY DEF Labels
<1>3. /\ Sched' /\ Stacked' /\ pc'[Runner] = "readcb" /\ Runner \notin Fibers
      /\ \A f \in Fibers : pc'[f] = pc[f]
  BY <1>1, <1>2, Begins
<1>4. Queued' /\ Moving' /\ Closing'
  BY <1>1, ReadCallback
<1>5. Ringed'
  BY DataNext DEF IInv
<1>6. Kept' /\ Mine'
  BY <1>1, <1>3 DEF IInv, Kept, Mine, writeVars
<1>7. Served'
  BY <1>1, <1>3 DEF IInv, Served, Kept, ReadRunning
<1> QED
  BY <1>3, <1>4, <1>5, <1>6, <1>7 DEF IInv

\* read_cb at the end of the stream or with an error.
LEMMA ReadStopsStep ==
  ASSUME IInv, ReadEnd \/ ReadFails
  PROVE  IInv'
<1>1. /\ cur = Runner /\ pc[Runner] = "run" /\ reading' = FALSE
      /\ UNCHANGED <<cur, fibers, ready, status, op, defer, busy, callbacks,
                     triggered, disposed, calls>>
      /\ UNCHANGED <<readVars, writeVars, shutreq, handle>>
  BY DEF ReadEnd, ReadFails
<1>2. UNCHANGED <<ring, arrived, taken, reader, want, alarm, retried>>
  BY <1>1 DEF readVars
<1>3. PICK l \in {"readcb", "readerror"} :
        /\ pc' = [pc EXCEPT ![Runner] = l]
        /\ l = "readcb" => flags' = flags \cup {"EOF"}
        /\ l = "readerror" => flags' = flags \ {"READING"}
  BY DEF ReadEnd, ReadFails
<1>4. l \in Labels
  BY <1>3 DEF Labels
<1>5. /\ Sched' /\ Stacked' /\ pc'[Runner] = l /\ Runner \notin Fibers
      /\ \A f \in Fibers : pc'[f] = pc[f]
  BY <1>1, <1>3, <1>4, Begins
<1>6. \A x : x \notin {"READING", "EOF"} => (x \in flags' <=> x \in flags)
  BY <1>3
<1>7. Queued' /\ Moving' /\ Closing'
  BY <1>1, <1>3, <1>6, ReadCallback
<1>8. Ringed' /\ Mine'
  BY <1>1, <1>2, <1>5 DEF IInv, Ringed, Mine, writeVars
<1>9. Kept'
  <2>1. flags' \subseteq Flags
    BY <1>3 DEF IInv, Kept, Flags
  <2> QED
    BY <1>1, <1>2, <2>1 DEF IInv, Kept, writeVars
<1>10. Served'
  <2>1. ReadRunning' <=> ReadRunning
    BY <1>1, <1>2 DEF ReadRunning
  <2>2. reader # None => pc'[reader] = "read"
    BY <1>5 DEF IInv, Served, Kept
  <2>3. CASE l = "readcb"
    BY <1>1, <1>2, <1>3, <1>5, <2>1, <2>2, <2>3 DEF IInv, Served
  <2>4. CASE l = "readerror"
    BY <1>1, <1>2, <1>3, <1>5, <2>1, <2>2, <2>4 DEF IInv, Served
  <2> QED
    BY <1>3, <2>3, <2>4
<1> QED
  BY <1>5, <1>7, <1>8, <1>9, <1>10 DEF IInv

\* The loop of read_cb that reports an error.
LEMMA ErrorStep ==
  ASSUME IInv, ReadErrorTurn
  PROVE  IInv'
<1>1. PICK l \in {"readerror", "run"} :
        /\ FinishIfReading(TRUE, l)
        /\ l = "readerror" <=> ReadRunning
  BY DEF ReadErrorTurn
<1>2. /\ cur = Runner /\ pc[Runner] = "readerror"
      /\ reading' = (reading /\ ReadRunning)
      /\ UNCHANGED <<defer, busy, callbacks, triggered, disposed, calls, flags>>
      /\ UNCHANGED <<readVars, writeVars, shutreq, handle>>
  BY DEF ReadErrorTurn
<1>3. UNCHANGED <<ring, arrived, taken, reader, want, alarm, retried>>
  BY <1>2 DEF readVars
<1>4. l \in Labels /\ l # "write"
  BY <1>1 DEF Labels
<1>5. /\ Sched' /\ Stacked' /\ Mine'
      /\ pc' = [pc EXCEPT ![cur] = l]
      /\ ~ReadRunning'
      /\ cur' # cur => ReadRunning
  BY <1>1, <1>2, <1>3, <1>4, Finishes, SameBookkeeping DEF IInv, writeVars
<1>6. Queued' /\ Moving' /\ Closing'
  BY <1>1, <1>2, <1>5, ReadCallback
<1>7. Kept' /\ Ringed'
  BY <1>2, <1>3 DEF IInv, Kept, Ringed, writeVars
<1>8. /\ pc'[Runner] = l
      /\ \A f \in Fibers \cup {Runner} : f # Runner => pc'[f] = pc[f]
  BY <1>2, <1>5, NextLabel DEF IInv
<1>9. Served'
  <2>1. reader # None => pc'[reader] = "read"
    BY <1>8, SchedulerAssumption DEF IInv, Served, Kept
  <2>2. "READING" \in flags => retried
    BY <1>2 DEF IInv, Served
  <2>3. ReadRunning => ring.len = 0
    BY <1>2 DEF IInv, Served
  <2>4. reading' => ShouldRead(ring)
    BY <1>2 DEF IInv, Served
  <2> QED
    BY <1>1, <1>2, <1>3, <1>5, <1>8, <2>1, <2>2, <2>3, <2>4
       DEF IInv, Served, ShouldRead
<1> QED
  BY <1>5, <1>6, <1>7, <1>9 DEF IInv

\* A turn of the loop of read_cb that hands out bytes.
LEMMA HandOutStep ==
  ASSUME IInv, read_cb
  PROVE  IInv'
<1>1. /\ cur = Runner /\ pc[Runner] = "readcb"
      /\ ReadRunning /\ ring.len > 0 /\ Take(want)
      /\ FinishIfReading(TRUE, "readcb")
      /\ UNCHANGED <<defer, busy, callbacks, triggered, disposed, calls, flags>>
      /\ UNCHANGED <<arrived, reader, want, alarm, retried, reading, writeVars,
                     shutreq, handle>>
  BY DEF read_cb, FinishIfReading
<1>2. "readcb" \in Labels
  BY DEF Labels
<1>3. /\ Sched' /\ Stacked' /\ Mine'
      /\ pc' = [pc EXCEPT ![cur] = "readcb"]
      /\ ~ReadRunning'
  BY <1>1, <1>2, Finishes, SameBookkeeping DEF IInv, writeVars
<1>4. Queued' /\ Moving' /\ Closing'
  BY <1>1, <1>3, ReadCallback
<1>5. Ringed'
  BY <1>1, TakeNext DEF IInv, Kept
<1>6. Kept'
  BY <1>1 DEF IInv, Kept, writeVars
<1>7. /\ pc'[Runner] = "readcb"
      /\ \A f \in Fibers \cup {Runner} : f # Runner => pc'[f] = pc[f]
  BY <1>1, <1>3, NextLabel DEF IInv
<1>8. Served'
  <2>1. reader # None => pc'[reader] = "read"
    BY <1>7, SchedulerAssumption DEF IInv, Served, Kept
  <2> QED
    BY <1>1, <1>3, <1>7, <2>1 DEF IInv, Served
<1> QED
  BY <1>3, <1>4, <1>5, <1>6, <1>8 DEF IInv

\* The end of read_cb.
LEMMA ReadCbEndsStep ==
  ASSUME IInv, ReadCbEnds
  PROVE  IInv'
<1>1. /\ cur = Runner /\ pc[Runner] = "readcb"
      /\ ReadRunning => ~(ring.len > 0)
      /\ UNCHANGED <<cur, fibers, ready, status, op, defer, busy, callbacks,
                     triggered, disposed, calls>>
      /\ UNCHANGED <<readVars, writeVars, shutreq, handle>>
  BY DEF ReadCbEnds
<1>2. UNCHANGED <<ring, arrived, taken, reader, want, alarm, retried>>
  BY <1>1 DEF readVars
<1>3. PICK stop \in BOOLEAN :
        /\ stop <=> "EOF" \in flags \/ ~ShouldRead(ring)
        /\ flags' = IF stop THEN flags \ {"READING"} ELSE flags
        /\ reading' = (reading /\ ~stop)
  BY DEF ReadCbEnds
<1>4. PICK l \in {"readeof", "run"} :
        /\ pc' = [pc EXCEPT ![Runner] = l]
        /\ l = "readeof" <=> "EOF" \in flags
  BY DEF ReadCbEnds
<1>5. l \in Labels /\ Goes(l)
  BY <1>1, <1>4 DEF Labels, Goes
<1>6. Sched' /\ Stacked'
  BY <1>1, <1>5, GoesOn, SameBookkeeping DEF IInv
<1>7. \A x : x \notin {"READING", "EOF"} => (x \in flags' <=> x \in flags)
  BY <1>3
<1>8. Queued' /\ Moving' /\ Closing'
  BY <1>1, <1>4, <1>7, ReadCallback
<1>9. /\ pc'[Runner] = l
      /\ \A f \in Fibers \cup {Runner} : f # Runner => pc'[f] = pc[f]
  BY <1>1, <1>4, NextLabel DEF IInv
<1>10. Kept' /\ Ringed' /\ Mine'
  <2>1. flags' \subseteq Flags /\ reading' \in BOOLEAN
    BY <1>3 DEF IInv, Kept
  <2>2. Mine'
    BY <1>1, <1>9, SchedulerAssumption DEF IInv, Mine, writeVars
  <2> QED
    BY <1>1, <1>2, <2>1, <2>2 DEF IInv, Kept, Ringed, writeVars
<1>11. Served'
  <2>1. reader # None => pc'[reader] = "read"
    BY <1>9, SchedulerAssumption DEF IInv, Served, Kept
  <2>2. ReadRunning' <=> ReadRunning
    BY <1>1, <1>2 DEF ReadRunning
  <2>3. ReadRunning => ring.len = 0 /\ ShouldRead(ring)
    <3>1. ring.len \in Nat
      BY BufSizeAssumption DEF IInv, Ringed, Holds, Rings
    <3> QED
      BY <1>1, <3>1, EmptyReads
  <2>4. ShouldRead(ring') <=> ShouldRead(ring)
    BY <1>2 DEF ShouldRead
  <2>5. CASE stop
    BY <1>1, <1>2, <1>3, <1>4, <1>9, <2>1, <2>2, <2>3, <2>4, <2>5
       DEF IInv, Served
  <2>6. CASE ~stop
    BY <1>1, <1>2, <1>3, <1>4, <1>9, <2>1, <2>2, <2>3, <2>4, <2>6
       DEF IInv, Served
  <2> QED
    BY <2>5, <2>6
<1> QED
  BY <1>6, <1>8, <1>10, <1>11 DEF IInv

\* The read that is pending at the end of the stream returns.
LEMMA EofStep ==
  ASSUME IInv, ReadEofTurn
  PROVE  IInv'
<1>1. PICK l \in {"readeof", "run"} :
        /\ FinishIfReading(TRUE, l)
        /\ l = "readeof" <=> ReadRunning
  BY DEF ReadEofTurn
<1>2. /\ cur = Runner /\ pc[Runner] = "readeof"
      /\ UNCHANGED <<defer, busy, callbacks, triggered, disposed, calls, flags>>
      /\ UNCHANGED <<readVars, writeVars, reading, shutreq, handle>>
  BY DEF ReadEofTurn
<1>3. UNCHANGED <<ring, arrived, taken, reader, want, alarm, retried>>
  BY <1>2 DEF readVars
<1>4. l \in Labels /\ l # "write"
  BY <1>1 DEF Labels
<1>5. /\ Sched' /\ Stacked' /\ Mine'
      /\ pc' = [pc EXCEPT ![cur] = l]
      /\ ~ReadRunning'
  BY <1>1, <1>2, <1>3, <1>4, Finishes, SameBookkeeping DEF IInv, writeVars
<1>6. Queued' /\ Moving' /\ Closing'
  BY <1>1, <1>2, <1>5, ReadCallback
<1>7. Kept' /\ Ringed'
  BY <1>2, <1>3 DEF IInv, Kept, Ringed, writeVars
<1>8. /\ pc'[Runner] = l
      /\ \A f \in Fibers \cup {Runner} : f # Runner => pc'[f] = pc[f]
  BY <1>2, <1>5, NextLabel DEF IInv
<1>9. Served'
  <2>1. reader # None => pc'[reader] = "read"
    BY <1>8, SchedulerAssumption DEF IInv, Served, Kept
  <2> QED
    BY <1>1, <1>2, <1>3, <1>5, <1>8, <2>1 DEF IInv, Served, ShouldRead
<1> QED
  BY <1>5, <1>6, <1>7, <1>9 DEF IInv

\* The timer of a read.
LEMMA TimeoutStep ==
  ASSUME IInv, timeout_read
  PROVE  IInv'
<1>1. /\ cur = Runner /\ pc[Runner] = "run" /\ alarm' = FALSE
      /\ FinishIfReading(TRUE, "run")
      /\ UNCHANGED <<defer, busy, callbacks, triggered, disposed, calls, flags>>
      /\ UNCHANGED <<ring, arrived, taken, reader, want, retried, reading,
                     writeVars, shutreq, handle>>
  BY DEF timeout_read
<1>2. "run" \in Labels
  BY DEF Labels
<1>3. /\ Sched' /\ Stacked' /\ Mine'
      /\ pc' = [pc EXCEPT ![cur] = "run"]
      /\ ~ReadRunning'
  BY <1>1, <1>2, Finishes, SameBookkeeping DEF IInv, writeVars
<1>4. Queued' /\ Moving' /\ Closing'
  BY <1>1, <1>3, ReadCallback
<1>5. Kept' /\ Ringed'
  BY <1>1 DEF IInv, Kept, Ringed, writeVars
<1>6. Plain(pc[cur], "run")
  BY <1>1 DEF Plain
<1>7. Served'
  BY <1>1, <1>3, <1>6, ServedStays DEF IInv
<1> QED
  BY <1>3, <1>4, <1>5, <1>7 DEF IInv

-----------------------------------------------------------------------------
(***************************************************************************)
(* Writing.                                                                *)
(***************************************************************************)

\* No operation is listed twice.
LEMMA WritesInjective ==
  ASSUME Kept, Queued
  PROVE  /\ IsInjective(writes) /\ Len(writes) \in Nat
         /\ \A i \in 1..Len(writes) : writes[i] \in WriteOps
         /\ \A i, j \in 1..Len(writes) : writes[i] = writes[j] => i = j
         /\ writes # <<>> => Head(writes) = writes[1] /\ 1 \in 1..Len(writes)
<1>1. writes \in Seq(WriteOps)
  BY DEF Kept
<1>2. /\ Len(writes) \in Nat /\ \A i \in 1..Len(writes) : writes[i] \in WriteOps
      /\ IsInjective(writes) <=>
           \A i, j \in 1..Len(writes) : writes[i] = writes[j] => i = j
  BY <1>1, InList
<1>3. ASSUME NEW i \in 1..Len(writes), NEW j \in 1..Len(writes),
             writes[i] = writes[j]
      PROVE  i = j
  <2>1. \A k \in 1..Len(writes) : writes[k].n \in Nat
    BY <1>2 DEF WriteOps
  <2>2. ~(i < j) /\ ~(j < i)
    BY <1>3, <2>1 DEF Queued
  <2> QED
    BY <1>2, <2>2
<1>4. writes # <<>> => Head(writes) = writes[1] /\ 1 \in 1..Len(writes)
  BY <1>1, <1>2, EmptySeq, HeadTailProperties
<1> QED
  BY <1>2, <1>3, <1>4

\* How a call of write() changes the lists: the operation o is listed or not,
\* and started or not.
Lists(o, drop, start) ==
  /\ writes' = IF drop THEN writes ELSE Append(writes, o)
  /\ started' = IF start THEN started \cup {o} ELSE started
  /\ wire' = IF start THEN Append(wire, o) ELSE wire
  /\ start <=> writes = <<>> /\ "WRITING" \notin flags
  /\ drop => ~start
  /\ late' = (late \/ (pc[Runner] = "writeflush" /\ ~drop))
  /\ issued' = o.n
  /\ UNCHANGED <<flags, sent, flush, shutreq, handle>>

\* The list stays in order.
LEMMA ListsQueued ==
  ASSUME Kept, Queued, NEW o \in WriteOps, o.n = issued + 1,
         NEW drop \in BOOLEAN, NEW start \in BOOLEAN, Lists(o, drop, start),
         detached' \subseteq detached \cup {o}
  PROVE  Queued'
<1>1. /\ writes \in Seq(WriteOps) /\ wire \in Seq(WriteOps) /\ issued \in Nat
      /\ issued' = issued + 1 /\ sent' = sent /\ sent \in Seq(Nat)
  BY DEF Lists, Kept
<1>2. /\ Len(writes) \in Nat /\ \A i \in 1..Len(writes) : writes[i] \in WriteOps
      /\ Len(sent) \in Nat /\ \A i \in 1..Len(sent) : sent[i] \in Nat
      /\ \A x \in WriteOps : x.n \in Nat
  <2>1. Len(writes) \in Nat /\ \A i \in 1..Len(writes) : writes[i] \in WriteOps
    BY <1>1, InList
  <2>2. Len(sent) \in Nat /\ \A i \in 1..Len(sent) : sent[i] \in Nat
    BY <1>1, InList
  <2>3. \A x \in WriteOps : x.n \in Nat
    BY DEF WriteOps
  <2> QED
    BY <2>1, <2>2, <2>3
<1>3. /\ \A i \in 1..Len(sent) : sent'[i] <= issued'
      /\ \A i, j \in 1..Len(sent) : i < j => sent'[i] < sent'[j]
      /\ \A x \in started' \cup detached' : x.n <= issued'
      /\ o \notin started
  BY <1>1, <1>2 DEF Queued, Lists, Kept
<1>4. CASE drop
  <2>1. UNCHANGED <<writes, started, wire>>
    BY <1>4 DEF Lists
  <2>2. \A i \in 1..Len(writes) : writes[i].n <= issued'
    BY <1>1, <1>2 DEF Queued
  <2> QED
    BY <1>1, <1>3, <2>1, <2>2 DEF Queued
<1>5. CASE ~drop
  <2>1. /\ writes' = Append(writes, o) /\ Len(writes') = Len(writes) + 1
        /\ writes'[Len(writes) + 1] = o
        /\ \A i \in 1..Len(writes) : writes'[i] = writes[i]
    BY <1>1, <1>5, AppendAt DEF Lists
  <2>2. \A i \in 1..Len(writes') : i \in 1..Len(writes) \/ i = Len(writes) + 1
    BY <1>2, <2>1
  <2>3. \A i \in 1..Len(writes) : writes[i].n <= issued
    BY DEF Queued
  <2>4. \A i \in 1..Len(writes') : writes'[i].n <= issued'
    BY <1>1, <1>2, <2>1, <2>2, <2>3
  <2>5. \A i, j \in 1..Len(writes') : i < j => writes'[i].n < writes'[j].n
    <3>1. ASSUME NEW i \in 1..Len(writes'), NEW j \in 1..Len(writes'), i < j
          PROVE  writes'[i].n < writes'[j].n
      <4>1. i \in 1..Len(writes)
        BY <1>2, <2>1, <3>1
      <4>2. CASE j \in 1..Len(writes)
        BY <2>1, <3>1, <4>1, <4>2 DEF Queued
      <4>3. CASE j = Len(writes) + 1
        BY <1>1, <1>2, <2>1, <2>3, <4>1, <4>3
      <4> QED
        BY <2>2, <4>2, <4>3
    <3> QED
      BY <3>1
  <2>6. \A i \in 1..Len(sent), j \in 1..Len(writes') : sent[i] < writes'[j].n
    <3>1. ASSUME NEW i \in 1..Len(sent), NEW j \in 1..Len(writes')
          PROVE  sent[i] < writes'[j].n
      <4>1. CASE j \in 1..Len(writes)
        BY <2>1, <4>1 DEF Queued
      <4>2. CASE j = Len(writes) + 1
        BY <1>1, <1>2, <2>1, <4>2, SMTT(30) DEF Queued
      <4> QED
        BY <2>2, <4>1, <4>2
    <3> QED
      BY <3>1
  <2>7. CASE start
    <3>1. writes = <<>> /\ wire = <<>> /\ Len(writes) = 0
      BY <2>7 DEF Lists, Queued
    <3>2. wire' = <<o>> /\ o \in started' /\ writes'[1] = o /\ Len(writes') = 1
      BY <2>1, <2>7, <3>1 DEF Lists
    <3>3. writes' # <<>>
      BY <3>2
    <3>4. \A i \in 1..Len(writes') : i = 1
      BY <3>2
    <3> QED
      BY <1>1, <1>3, <2>4, <2>5, <2>6, <3>2, <3>3, <3>4 DEF Queued
  <2>8. CASE ~start
    <3>1. UNCHANGED <<started, wire>>
      BY <2>8 DEF Lists
    <3>2. \A i \in 1..Len(writes') : writes'[i] \in started' => i = 1
      BY <1>3, <2>1, <2>2, <3>1 DEF Queued
    <3>3. wire' # <<>> =>
            writes' # <<>> /\ wire' = <<writes'[1]>> /\ writes'[1] \in started'
      <4>1. SUFFICES ASSUME wire # <<>>
                     PROVE  writes' # <<>> /\ wire = <<writes'[1]>>
                            /\ writes'[1] \in started
        BY <3>1
      <4>2. writes # <<>> /\ wire = <<writes[1]>> /\ writes[1] \in started
        BY <4>1 DEF Queued
      <4>3. 1 \in 1..Len(writes)
        BY <1>1, <1>2, <4>2, EmptySeq
      <4>4. writes'[1] = writes[1] /\ writes' # <<>>
        BY <2>1, <4>3
      <4> QED
        BY <4>2, <4>4
    <3> QED
      BY <1>1, <1>3, <2>4, <2>5, <2>6, <3>2, <3>3 DEF Queued
  <2> QED
    BY <2>7, <2>8
<1> QED
  BY <1>4, <1>5

\* What is listed is written, and a shutdown goes on waiting.
LEMMA ListsMoving ==
  ASSUME Sched, Kept, Queued, Moving, Closing, NEW o \in WriteOps,
         o.n = issued + 1,
         NEW drop \in BOOLEAN, NEW start \in BOOLEAN, Lists(o, drop, start),
         "SHUT_WR" \notin flags, cur # Runner, pc[cur] = "run",
         NEW l \in {"run", "write"}, pc' = [pc EXCEPT ![cur] = l]
  PROVE  Moving' /\ Closing'
<1>1. /\ pc'[cur] = l
      /\ \A f \in Fibers \cup {Runner} : f # cur => pc'[f] = pc[f]
  BY NextLabel
<1>2. pc'[Runner] = pc[Runner] /\ (InWriteCb' <=> InWriteCb)
  BY <1>1 DEF InWriteCb
<1>3. \A f \in Fibers \cup {Runner} :
        /\ pc'[f] \in {"uvclose", "shutwr"} => pc'[f] = pc[f]
        /\ pc[f] \in InShutdown => pc'[f] \in InShutdown
  BY <1>1 DEF InShutdown
<1>4. writes \in Seq(WriteOps) /\ wire \in Seq(WriteOps) /\ Len(writes) \in Nat
  BY InList DEF Kept
<1>5. writes # <<>> => writes' # <<>> /\ writes'[1] = writes[1]
  <2>1. ASSUME writes # <<>> PROVE writes' # <<>> /\ writes'[1] = writes[1]
    <3>1. 1 \in 1..Len(writes)
      BY <1>4, <2>1, EmptySeq
    <3>2. CASE drop
      BY <2>1, <3>2 DEF Lists
    <3>3. CASE ~drop
      <4>1. writes' = Append(writes, o) /\ Len(writes') = Len(writes) + 1
            /\ writes'[1] = writes[1]
        BY <1>4, <3>1, <3>3, AppendAt DEF Lists
      <4> QED
        BY <1>4, <4>1
    <3> QED
      BY <3>2, <3>3
  <2> QED
    BY <2>1
<1>6. writes = <<>> /\ ~drop => writes' # <<>> /\ writes'[1] = o
  <2>1. ASSUME writes = <<>>, ~drop PROVE writes' # <<>> /\ writes'[1] = o
    <3>1. Len(writes) = 0
      BY <2>1
    <3>2. writes' = Append(writes, o) /\ Len(writes') = 1 /\ writes'[1] = o
      BY <1>4, <2>1, <3>1, AppendAt DEF Lists
    <3> QED
      BY <3>2
  <2> QED
    BY <2>1
<1>7. o \notin started /\ (start => wire' # <<>>) /\ (~start => UNCHANGED wire)
  <2>1. o \notin started
    BY DEF Queued, Kept
  <2>2. ASSUME start PROVE wire' # <<>>
    <3>1. Len(wire') = Len(wire) + 1 /\ Len(wire) \in Nat
      BY <1>4, <2>2, AppendAt, InList DEF Lists
    <3> QED
      BY <3>1
  <2> QED
    BY <2>1, <2>2 DEF Lists
<1>8. /\ UNCHANGED <<flags, flush, shutreq, handle>> /\ (late => late')
      /\ (drop => UNCHANGED <<writes, started, wire>>)
      /\ (~start => UNCHANGED started)
      /\ (pc[Runner] = "writeflush" /\ ~drop => late')
      /\ (start <=> writes = <<>> /\ "WRITING" \notin flags)
  BY DEF Lists
<1>9. Moving'
  <2>1. /\ "WRITING" \in flags' <=> InWriteCb'
        /\ pc'[Runner] = "writeflush" => writes' = <<>> \/ late'
    BY <1>2, <1>8 DEF Moving
  <2>2. writes' # <<>> /\ writes'[1] \in started' =>
          wire' # <<>> \/ handle' # "open"
    <3>1. CASE start
      BY <1>7, <3>1
    <3>2. CASE ~start
      BY <1>5, <1>6, <1>7, <1>8, <3>2 DEF Moving
    <3> QED
      BY <3>1, <3>2
  <2>3. ~InWriteCb' /\ writes' # <<>> => wire' # <<>> \/ Stuck'
    <3>1. CASE start
      BY <1>7, <3>1
    <3>2. CASE ~start
      BY <1>2, <1>7, <1>8, <3>2 DEF Moving, Stuck
    <3> QED
      BY <3>1, <3>2
  <2>4. ~InWriteCb' /\ flush' # <<>> => writes' # <<>> \/ Stuck'
    BY <1>2, <1>5, <1>8 DEF Moving, Stuck
  <2> QED
    BY <2>1, <2>2, <2>3, <2>4 DEF Moving
<1>10. Closing'
  <2>1. ~shutreq
    BY DEF Closing
  <2> QED
    BY <1>2, <1>3, <1>5, <1>8, <2>1 DEF Closing
<1> QED
  BY <1>9, <1>10

\* uv_try_write takes all the data.
LEMMA AtOnceStep ==
  ASSUME IInv, NEW f, MayCall(f), Call(f), NEW o \in WriteOps, o.n = issued + 1,
         WriteAtOnce(o), UNCHANGED <<defer, busy, triggered, disposed>>
  PROVE  IInv'
<1>1. /\ writes = <<>> /\ sent' = Append(sent, o.n) /\ issued' = issued + 1
      /\ UNCHANGED <<cur, fibers, ready, status, pc, op, callbacks>>
      /\ UNCHANGED <<flags, readVars, reading, writes, started, detached, stale,
                     wire, flush, late, shutreq, handle>>
  BY DEF WriteAtOnce
<1>2. UNCHANGED <<ring, arrived, taken, reader, want, alarm, retried>>
  BY <1>1 DEF readVars
<1>3. /\ f \in Fibers /\ cur = f /\ pc[f] = "run" /\ f # Runner
      /\ pc' = [pc EXCEPT ![cur] = "run"] /\ Plain(pc[cur], "run")
      /\ Sched' /\ Stacked'
  BY <1>1, UserGoes
<1>4. /\ issued \in Nat /\ issued + 1 \in Nat /\ sent \in Seq(Nat)
      /\ started \subseteq WriteOps /\ detached \subseteq WriteOps
      /\ \A x \in WriteOps : x.n \in Nat
  BY DEF IInv, Kept, WriteOps
<1>5. /\ sent' \in Seq(Nat) /\ Len(sent') = Len(sent) + 1 /\ Len(sent) \in Nat
      /\ sent'[Len(sent) + 1] = issued + 1
      /\ \A i \in 1..Len(sent) : sent'[i] = sent[i] /\ sent[i] \in Nat
  BY <1>1, <1>4, AppendAt, AppendList, InList
<1>6. \A i \in 1..Len(sent') : i \in 1..Len(sent) \/ i = Len(sent) + 1
  BY <1>5
<1>7. \A i \in 1..Len(sent) : sent[i] <= issued
  BY DEF IInv, Queued
<1>8. \A i \in 1..Len(sent') : sent'[i] <= issued'
  BY <1>1, <1>4, <1>5, <1>6, <1>7
<1>9. ASSUME NEW i \in 1..Len(sent'), NEW j \in 1..Len(sent'), i < j
      PROVE  sent'[i] < sent'[j]
  <2>1. i \in 1..Len(sent)
    BY <1>5, <1>9
  <2>2. CASE j \in 1..Len(sent)
    BY <1>5, <1>9, <2>1, <2>2 DEF IInv, Queued
  <2>3. CASE j = Len(sent) + 1
    BY <1>4, <1>5, <1>7, <2>1, <2>3
  <2> QED
    BY <1>6, <2>2, <2>3
<1>10. \A x \in started \cup detached : x.n <= issued'
  BY <1>1, <1>4 DEF IInv, Queued
<1>11. Queued'
  <2>1. Len(writes') = 0 /\ wire = <<>>
    BY <1>1 DEF IInv, Queued
  <2> QED
    BY <1>1, <1>8, <1>9, <1>10, <2>1 DEF Queued
<1>12. Kept' /\ Ringed' /\ Mine'
  BY <1>1, <1>2, <1>4, <1>5 DEF IInv, Kept, Ringed, Mine
<1>13. Moving' /\ Closing'
  BY <1>1, <1>3, MovingStays, ClosingStays DEF IInv
<1>14. Served'
  <2>1. ReadRunning' => ReadRunning
    BY <1>1, <1>2 DEF ReadRunning
  <2> QED
    BY <1>1, <1>2, <1>3, <2>1, ServedStays DEF IInv
<1> QED
  BY <1>3, <1>11, <1>12, <1>13, <1>14 DEF IInv

\* The operation is listed.
LEMMA ListedStep ==
  ASSUME IInv, NEW f, MayCall(f), Call(f), NEW async \in BOOLEAN,
         NEW o \in WriteOps, o.n = issued + 1, o.f = f,
         WriteListed(f, o, async), UNCHANGED <<defer, busy, triggered, disposed>>
  PROVE  IInv'
<1>1. PICK start, nowait, drop \in BOOLEAN :
        /\ Lists(o, drop, start)
        /\ detached' = IF nowait /\ ~drop THEN detached \cup {o} ELSE detached
        /\ drop => nowait
        /\ nowait => UNCHANGED <<cur, fibers, status, pc, op, callbacks>>
        /\ ~nowait => AwaitSuspend(f, "write")
  <2> DEFINE start  == writes = <<>> /\ "WRITING" \notin flags
             nowait == async \/ AwaitRefused(f)
             drop   == ~async /\ AwaitRefused(f) /\ ~start
  <2>1. /\ writes' = IF drop THEN writes ELSE Append(writes, o)
        /\ started' = IF start THEN started \cup {o} ELSE started
        /\ wire' = IF start THEN Append(wire, o) ELSE wire
        /\ detached' = IF nowait /\ ~drop THEN detached \cup {o} ELSE detached
        /\ late' = (late \/ (pc[Runner] = "writeflush" /\ ~drop))
        /\ IF nowait
           THEN UNCHANGED <<cur, fibers, status, pc, op, callbacks>>
           ELSE AwaitSuspend(f, "write")
        /\ issued' = o.n
        /\ UNCHANGED <<flags, sent, flush, shutreq, handle>>
    BY DEF WriteListed
  <2>2. drop => nowait /\ ~start
    OBVIOUS
  <2>3. start \in BOOLEAN /\ nowait \in BOOLEAN /\ drop \in BOOLEAN
    BY DEF AwaitRefused
  <2>4. start <=> writes = <<>> /\ "WRITING" \notin flags
    OBVIOUS
  <2> HIDE DEF start, nowait, drop
  <2>5. Lists(o, drop, start)
    BY <2>1, <2>2, <2>4 DEF Lists
  <2> QED
    BY <2>1, <2>2, <2>3, <2>5
<1>2. /\ "SHUT_WR" \notin flags
      /\ UNCHANGED <<ready, readVars, reading, stale>>
  BY DEF WriteListed
<1>3. UNCHANGED <<ring, arrived, taken, reader, want, alarm, retried>>
  BY <1>2 DEF readVars
<1>4. /\ UNCHANGED <<flags, sent, flush, shutreq, handle>> /\ issued' = o.n
      /\ late' = (late \/ (pc[Runner] = "writeflush" /\ ~drop))
      /\ writes' = IF drop THEN writes ELSE Append(writes, o)
      /\ started' = IF start THEN started \cup {o} ELSE started
      /\ wire' = IF start THEN Append(wire, o) ELSE wire
  BY <1>1 DEF Lists
<1>5. Queued'
  BY <1>1, ListsQueued DEF IInv
<1>6. Kept'
  <2>1. /\ writes \in Seq(WriteOps) /\ wire \in Seq(WriteOps)
        /\ started \subseteq WriteOps /\ detached \subseteq WriteOps
    BY DEF IInv, Kept
  <2>2. writes' \in Seq(WriteOps) /\ wire' \in Seq(WriteOps)
    BY <1>4, <2>1, AppendList
  <2>3. /\ started' \subseteq WriteOps /\ detached' \subseteq WriteOps
        /\ detached \subseteq detached'
    BY <1>1, <1>4, <2>1
  <2>4. issued' \in Nat
    BY <1>4 DEF WriteOps
  <2>5. late' \in BOOLEAN
    BY <1>4 DEF IInv, Kept
  <2>6. stale' \subseteq detached'
    BY <1>2, <2>3 DEF IInv, Kept
  <2> QED
    BY <1>2, <1>3, <1>4, <2>2, <2>3, <2>4, <2>5, <2>6 DEF IInv, Kept
<1>7. Ringed'
  BY <1>3 DEF IInv, Ringed
<1>8. /\ Len(writes) \in Nat /\ Len(writes') \in Nat
      /\ \A i \in 1..Len(writes) :
           i \in 1..Len(writes') /\ writes'[i] = writes[i] /\ writes[i] # o
      /\ ~drop => Len(writes) + 1 \in 1..Len(writes')
                  /\ writes'[Len(writes) + 1] = o
  <2>1. writes \in Seq(WriteOps) /\ Len(writes) \in Nat
    BY InList DEF IInv, Kept
  <2>2. \A i \in 1..Len(writes) : writes[i].n <= issued /\ issued \in Nat
    BY DEF IInv, Kept, Queued
  <2>3. \A i \in 1..Len(writes) : writes[i] # o
    BY <2>2
  <2>4. CASE drop
    BY <1>4, <2>1, <2>3, <2>4
  <2>5. CASE ~drop
    BY <1>4, <2>1, <2>3, <2>5, AppendAt
  <2> QED
    BY <2>4, <2>5
<1>9. o \notin detached
  <2>1. \A x \in detached : x.n <= issued
    BY DEF IInv, Queued
  <2> QED
    BY <2>1 DEF IInv, Kept
<1>10. CASE nowait
  <2>1. /\ f \in Fibers /\ cur = f /\ pc[f] = "run" /\ f # Runner
        /\ pc' = [pc EXCEPT ![cur] = "run"] /\ Plain(pc[cur], "run")
        /\ Sched' /\ Stacked'
    BY <1>1, <1>2, <1>10, UserGoes
  <2>2. Moving' /\ Closing'
    BY <1>1, <1>2, <2>1, ListsMoving DEF IInv
  <2>3. UNCHANGED <<pc, op>>
    BY <1>1, <1>10
  <2>4. Mine'
    BY <1>1, <1>8, <2>3 DEF IInv, Mine
  <2>5. Served'
    <3>1. ReadRunning' => ReadRunning
      BY <1>3, <2>3 DEF ReadRunning
    <3> QED
      BY <1>2, <1>3, <1>4, <2>1, <3>1, ServedStays DEF IInv
  <2> QED
    BY <1>5, <1>6, <1>7, <2>1, <2>2, <2>4, <2>5 DEF IInv
<1>11. CASE ~nowait
  <2>1. /\ f \in Fibers /\ cur = f /\ pc[f] = "run" /\ f # Runner
        /\ pc' = [pc EXCEPT ![cur] = "write"] /\ Plain(pc[cur], "write")
        /\ pc'[f] = "write" /\ pc'[Runner] = pc[Runner]
        /\ op' = [op EXCEPT ![f] = "RUNNING"]
        /\ Sched' /\ Stacked'
    BY <1>1, <1>2, <1>11, UserLeaves
  <2>2. Moving' /\ Closing'
    BY <1>1, <1>2, <2>1, ListsMoving DEF IInv
  <2>3. /\ \A g \in Fibers : g # f => pc'[g] = pc[g] /\ op'[g] = op[g]
        /\ UNCHANGED detached /\ ~drop
    BY <1>1, <1>11, <2>1 DEF IInv, Sched, FiberLists
  <2>4. Mine'
    <3>1. ASSUME NEW g \in Fibers, pc'[g] = "write", op'[g] # "RESOLVED"
          PROVE  \E i \in 1..Len(writes') :
                   writes'[i].f = g /\ writes'[i] \notin detached'
      <4>1. CASE g = f
        BY <1>8, <1>9, <2>3, <4>1
      <4>2. CASE g # f
        <5>1. PICK i \in 1..Len(writes) :
                writes[i].f = g /\ writes[i] \notin detached
          BY <2>3, <3>1, <4>2 DEF IInv, Mine
        <5> QED
          BY <1>8, <2>3, <5>1
      <4> QED
        BY <4>1, <4>2
    <3> QED
      BY <3>1 DEF Mine
  <2>5. Served'
    <3>1. reader # f
      BY <2>1, StreamAssumption DEF IInv, Served
    <3>2. ReadRunning' => ReadRunning
      BY <1>3, <2>3, <3>1 DEF ReadRunning, IInv, Kept
    <3> QED
      BY <1>2, <1>3, <1>4, <2>1, <3>2, ServedStays DEF IInv
  <2> QED
    BY <1>5, <1>6, <1>7, <2>1, <2>2, <2>4, <2>5 DEF IInv
<1> QED
  BY <1>10, <1>11

\* async_stream_write.
LEMMA WriteStep ==
  ASSUME IInv, NEW f, async_stream_write(f)
  PROVE  IInv'
<1>1. /\ MayCall(f) /\ Call(f) /\ f \in Fibers
      /\ UNCHANGED <<defer, busy, triggered, disposed>>
  BY DEF async_stream_write, MayCall
<1>2. PICK o : o = [n |-> issued + 1, f |-> f]
  OBVIOUS
<1>3. PICK async \in BOOLEAN :
        WriteRefused \/ WriteAtOnce(o) \/ WriteListed(f, o, async)
  BY <1>2 DEF async_stream_write
<1>4. o \in WriteOps /\ o.n = issued + 1 /\ o.f = f
  BY <1>1, <1>2 DEF WriteOps, IInv, Kept
<1>5. CASE WriteRefused
  BY <1>1, <1>5, RefusedStep DEF WriteRefused
<1>6. CASE WriteAtOnce(o)
  BY <1>1, <1>4, <1>6, AtOnceStep
<1>7. CASE WriteListed(f, o, async)
  BY <1>1, <1>4, <1>7, ListedStep
<1> QED
  BY <1>3, <1>5, <1>6, <1>7

\* Putting back the first of a list makes the same list.
LEMMA PutBack ==
  ASSUME NEW S, NEW s \in Seq(S), s # <<>>
  PROVE  <<Head(s)>> \o Tail(s) = s
<1>1. /\ Tail(s) \in Seq(S) /\ Len(Tail(s)) = Len(s) - 1
      /\ \A i \in 1..Len(Tail(s)) : Tail(s)[i] = s[i + 1]
      /\ Head(s) = s[1] /\ Head(s) \in S /\ Len(s) \in Nat /\ Len(s) > 0
  BY HeadTailProperties, InList, EmptySeq
<1>2. PICK t : t = <<Head(s)>> \o Tail(s) /\ t \in Seq(S)
  BY <1>1, PrependList
<1>3. /\ Len(t) = Len(s) /\ t[1] = s[1]
      /\ \A i \in 2..Len(s) : t[i] = Tail(s)[i - 1]
  BY <1>1, <1>2, PrependAt
<1>4. \A i \in 1..Len(s) : t[i] = s[i]
  <2>1. ASSUME NEW i \in 1..Len(s), i # 1 PROVE t[i] = s[i]
    <3>1. i \in 2..Len(s) /\ i - 1 \in 1..Len(Tail(s)) /\ i - 1 + 1 = i
      BY <1>1, <2>1
    <3>2. t[i] = Tail(s)[i - 1] /\ Tail(s)[i - 1] = s[i - 1 + 1]
      BY <1>1, <1>3, <3>1
    <3> QED
      BY <3>1, <3>2
  <2> QED
    BY <1>3, <2>1
<1>5. t = s
  BY <1>2, <1>3, <1>4, SeqEqual
<1> QED
  BY <1>2, <1>5

\* The list of writes without the k-th.
Without(k) ==
  /\ k \in 1..Len(writes) /\ writes' \in Seq(WriteOps)
  /\ Len(writes') = Len(writes) - 1
  /\ \A i \in 1..(Len(writes) - 1) :
       writes'[i] = IF i < k THEN writes[i] ELSE writes[i + 1]

\* The others stay listed, in their order.
LEMMA WithoutOne ==
  ASSUME Kept, Queued, NEW k, Without(k)
  PROVE  /\ \A i \in 1..Len(writes) : i # k =>
              \E j \in 1..Len(writes') : writes'[j] = writes[i]
         /\ \A i \in 1..Len(writes') :
              \E j \in 1..Len(writes) :
                /\ writes'[i] = writes[j] /\ j # k
                /\ j = IF i < k THEN i ELSE i + 1
         /\ \A i, j \in 1..Len(writes') : i < j => writes'[i].n < writes'[j].n
<1>1. Len(writes) \in Nat /\ k \in 1..Len(writes) /\ Len(writes') = Len(writes) - 1
  BY WritesInjective DEF Without
<1>2. ASSUME NEW i \in 1..Len(writes), i # k
      PROVE  \E j \in 1..Len(writes') : writes'[j] = writes[i]
  <2>1. CASE i < k
    <3>1. i \in 1..(Len(writes) - 1)
      BY <1>1, <2>1
    <3> QED
      BY <1>1, <2>1, <3>1 DEF Without
  <2>2. CASE i > k
    <3>1. i - 1 \in 1..(Len(writes) - 1) /\ ~(i - 1 < k) /\ i - 1 + 1 = i
      BY <1>1, <2>2
    <3>2. writes'[i - 1] = writes[i - 1 + 1]
      BY <3>1 DEF Without
    <3> QED
      BY <1>1, <3>1, <3>2
  <2> QED
    BY <1>1, <1>2, <2>1, <2>2
<1>3. ASSUME NEW i \in 1..Len(writes')
      PROVE  \E j \in 1..Len(writes) :
               /\ writes'[i] = writes[j] /\ j # k
               /\ j = IF i < k THEN i ELSE i + 1
  <2>1. i \in 1..(Len(writes) - 1) /\ i \in 1..Len(writes) /\ i + 1 \in 1..Len(writes)
    BY <1>1
  <2>2. CASE i < k
    BY <1>1, <2>1, <2>2 DEF Without
  <2>3. CASE ~(i < k)
    <3>1. i + 1 # k
      BY <1>1, <2>3
    <3> QED
      BY <2>1, <2>3, <3>1 DEF Without
  <2> QED
    BY <2>2, <2>3
<1>4. ASSUME NEW i \in 1..Len(writes'), NEW j \in 1..Len(writes'), i < j
      PROVE  writes'[i].n < writes'[j].n
  <2>1. PICK a \in 1..Len(writes) :
          writes'[i] = writes[a] /\ a = IF i < k THEN i ELSE i + 1
    BY <1>3
  <2>2. PICK b \in 1..Len(writes) :
          writes'[j] = writes[b] /\ b = IF j < k THEN j ELSE j + 1
    BY <1>3
  <2>3. a < b
    BY <1>1, <1>4, <2>1, <2>2
  <2> QED
    BY <2>1, <2>2, <2>3 DEF Queued
<1> QED
  BY <1>2, <1>3, <1>4

\* Dropping an operation that libuv does not have.
LEMMA DropQueued ==
  ASSUME Kept, Queued, NEW k, Without(k), writes[k] \notin started,
         UNCHANGED <<started, detached, wire, sent, issued>>
  PROVE  /\ Queued' /\ writes # <<>>
         /\ writes' # <<>> /\ writes'[1] \in started => writes[1] \in started
         /\ writes' = <<>> => wire = <<>>
<1>1. /\ \A i \in 1..Len(writes') :
           \E j \in 1..Len(writes) :
             /\ writes'[i] = writes[j] /\ j # k
             /\ j = IF i < k THEN i ELSE i + 1
      /\ \A i, j \in 1..Len(writes') : i < j => writes'[i].n < writes'[j].n
  BY WithoutOne
<1>2. /\ Len(writes) \in Nat /\ k \in 1..Len(writes)
      /\ Len(writes') = Len(writes) - 1 /\ writes # <<>>
      /\ writes' \in Seq(WriteOps) /\ 1 \in 1..Len(writes)
  BY WritesInjective DEF Without
<1>3. /\ \A i \in 1..Len(writes') : writes'[i].n <= issued
      /\ \A i \in 1..Len(sent), j \in 1..Len(writes') : sent[i] < writes'[j].n
  BY <1>1 DEF Queued
<1>4. ASSUME NEW i \in 1..Len(writes'), writes'[i] \in started
      PROVE  i = 1 /\ writes'[i] = writes[1]
  <2>1. PICK j \in 1..Len(writes) : /\ writes'[i] = writes[j]
                                    /\ j = IF i < k THEN i ELSE i + 1
    BY <1>1
  <2>2. j = 1
    BY <1>4, <2>1 DEF Queued
  <2> QED
    BY <1>2, <2>1, <2>2
<1>5. writes' # <<>> => 1 \in 1..Len(writes')
  BY <1>2, EmptySeq
<1>6. ASSUME wire # <<>>
      PROVE  writes' # <<>> /\ wire = <<writes'[1]>> /\ writes'[1] \in started
  <2>1. wire = <<writes[1]>> /\ writes[1] \in started
    BY <1>6 DEF Queued
  <2>2. k # 1
    BY <2>1
  <2>3. 1 < k /\ 1 \in 1..(Len(writes) - 1)
    BY <1>2, <2>2
  <2>4. writes'[1] = writes[1]
    BY <2>3 DEF Without
  <2>5. writes' # <<>>
    BY <1>2, <2>3
  <2> QED
    BY <2>1, <2>4, <2>5
<1>7. Queued'
  BY <1>1, <1>3, <1>4, <1>6 DEF Queued
<1> QED
  BY <1>2, <1>4, <1>5, <1>6, <1>7

\* async_stream_write after the wait.
LEMMA WriteReturnsStep ==
  ASSUME IInv, NEW f \in Fibers, WriteReturns(f)
  PROVE  IInv'
<1>1. /\ cur = f /\ pc[f] = "write" /\ AwaitResume(f)
      /\ UNCHANGED <<cur, fibers, ready, status, defer, busy, triggered,
                     disposed, calls>>
      /\ UNCHANGED <<flags, readVars, reading, started, wire, sent, issued,
                     flush, late, shutreq, handle>>
  BY DEF WriteReturns
<1>2. UNCHANGED <<ring, arrived, taken, reader, want, alarm, retried>>
  BY <1>1 DEF readVars
<1>3. /\ Sched' /\ Stacked' /\ f # Runner
      /\ pc' = [pc EXCEPT ![cur] = "run"] /\ Plain(pc[cur], "run")
      /\ op' = [op EXCEPT ![f] = "PENDING"]
      /\ pc'[Runner] = pc[Runner]
  BY <1>1, Returns
<1>4. /\ \A g \in Fibers : g # f => op'[g] = op[g]
      /\ \A g \in Fibers \cup {Runner} : g # f => pc'[g] = pc[g]
      /\ pc'[f] = "run" /\ op'[f] = "PENDING"
  BY <1>1, <1>3, NextLabel DEF IInv, Sched, FiberLists
<1>5. Ringed'
  BY <1>2 DEF IInv, Ringed
<1>6. Served'
  <2>1. ReadRunning' => ReadRunning
    BY <1>2, <1>4 DEF ReadRunning, IInv, Kept
  <2> QED
    BY <1>1, <1>2, <1>3, <2>1, ServedStays DEF IInv
<1>7. CASE op[f] = "RESOLVED"
  <2>1. UNCHANGED <<writes, detached, stale>>
    BY <1>7 DEF WriteReturns
  <2>2. Kept' /\ Queued'
    BY <1>1, <1>2, <2>1 DEF IInv, Kept, Queued
  <2>3. Mine'
    BY <1>1, <1>3, <1>4, <2>1, MineStays DEF IInv
  <2>4. Moving' /\ Closing'
    BY <1>1, <1>3, <2>1, MovingStays, ClosingStays DEF IInv
  <2> QED
    BY <1>3, <1>5, <1>6, <2>2, <2>3, <2>4 DEF IInv
<1>8. CASE op[f] # "RESOLVED"
  <2>1. PICK o : o = CHOOSE x \in MineListed(f) : TRUE
    OBVIOUS
  <2>2. IF o \in started
        THEN /\ writes' = <<o>> \o ASYNC_LIST_REMOVE(writes, o)
             /\ detached' = detached \cup {o}
             /\ stale' = stale \cup {o}
        ELSE /\ writes' = ASYNC_LIST_REMOVE(writes, o)
             /\ UNCHANGED <<detached, stale>>
    BY <1>8, <2>1 DEF WriteReturns
  <2>3. writes \in Seq(WriteOps)
    BY DEF IInv, Kept
  <2>4. o \in Range(writes) /\ o.f = f /\ o \notin detached
    <3>1. PICK i \in 1..Len(writes) : writes[i].f = f /\ writes[i] \notin detached
      BY <1>1, <1>8 DEF IInv, Mine
    <3>2. writes[i] \in MineListed(f)
      BY <2>3, <3>1, InList DEF MineListed
    <3>3. o \in MineListed(f)
      BY <2>1, <3>2
    <3> QED
      BY <3>3 DEF MineListed
  <2>5. PICK k \in 1..Len(writes) :
          /\ writes[k] = o
          /\ ASYNC_LIST_REMOVE(writes, o) \in Seq(WriteOps)
          /\ Len(ASYNC_LIST_REMOVE(writes, o)) = Len(writes) - 1
          /\ \A i \in 1..(Len(writes) - 1) :
               ASYNC_LIST_REMOVE(writes, o)[i] =
                 IF i < k THEN writes[i] ELSE writes[i + 1]
    BY <2>3, <2>4, Unlink
  <2>6. /\ IsInjective(writes) /\ Len(writes) \in Nat /\ writes # <<>>
        /\ Head(writes) = writes[1] /\ o \in WriteOps /\ o.n <= issued
    BY <2>5, WritesInjective DEF IInv, Queued
  <2>7. CASE o \in started
    <3>1. k = 1 /\ o = Head(writes)
      BY <2>5, <2>6, <2>7 DEF IInv, Queued
    <3>2. writes' = writes
      <4>1. ASYNC_LIST_REMOVE(writes, o) = Tail(writes)
        BY <2>3, <2>6, <3>1, RemoveList
      <4> QED
        BY <2>2, <2>3, <2>6, <2>7, <3>1, <4>1, PutBack
    <3>3. detached' = detached \cup {o} /\ stale' = stale \cup {o}
      BY <2>2, <2>7
    <3>4. Kept'
      <4>1. stale' \subseteq detached' /\ detached' \subseteq WriteOps
        BY <2>6, <3>3 DEF IInv, Kept
      <4> QED
        BY <1>1, <1>2, <3>2, <4>1 DEF IInv, Kept
    <3>5. Queued'
      <4>1. \A x \in started' \cup detached' : x.n <= issued'
        BY <1>1, <2>6, <3>3 DEF IInv, Queued
      <4> QED
        BY <1>1, <3>2, <4>1 DEF IInv, Queued
    <3>6. Mine'
      BY <1>4, <2>4, <3>2, <3>3 DEF IInv, Mine
    <3>7. Moving' /\ Closing'
      BY <1>1, <1>3, <3>2, MovingStays, ClosingStays DEF IInv
    <3> QED
      BY <1>3, <1>5, <1>6, <3>4, <3>5, <3>6, <3>7 DEF IInv
  <2>8. CASE o \notin started
    <3>1. Without(k) /\ UNCHANGED <<detached, stale>> /\ writes[k] \notin started
      BY <2>2, <2>5, <2>8 DEF Without
    <3>2. /\ Queued' /\ writes # <<>>
          /\ writes' # <<>> /\ writes'[1] \in started => writes[1] \in started
          /\ writes' = <<>> => wire = <<>>
      BY <1>1, <3>1, DropQueued DEF IInv
    <3>3. \A i \in 1..Len(writes) : i # k =>
            \E j \in 1..Len(writes') : writes'[j] = writes[i]
      BY <3>1, WithoutOne DEF IInv
    <3>4. Kept'
      BY <1>1, <1>2, <3>1 DEF IInv, Kept, Without
    <3>5. Mine'
      <4>1. ASSUME NEW g \in Fibers, pc'[g] = "write", op'[g] # "RESOLVED"
            PROVE  \E i \in 1..Len(writes') :
                     writes'[i].f = g /\ writes'[i] \notin detached'
        <5>1. g # f
          BY <1>4, <4>1
        <5>2. PICK i \in 1..Len(writes) :
                writes[i].f = g /\ writes[i] \notin detached
          BY <1>4, <4>1, <5>1 DEF IInv, Mine
        <5>3. i # k
          BY <2>4, <2>5, <5>1, <5>2
        <5>4. PICK j \in 1..Len(writes') : writes'[j] = writes[i]
          BY <3>3, <5>3
        <5> QED
          BY <3>1, <5>2, <5>4
      <4> QED
        BY <4>1 DEF Mine
    <3>6. InWriteCb' <=> InWriteCb
      BY <1>3 DEF InWriteCb
    <3>7. ~InWriteCb /\ writes' = <<>> => Stuck
      BY <3>2 DEF IInv, Moving
    <3>8. Moving'
      <4>1. pc'[Runner] = "writeflush" => late'
        BY <1>1, <1>3, <3>2 DEF IInv, Moving
      <4>2. writes' # <<>> /\ writes'[1] \in started' =>
              wire' # <<>> \/ handle' # "open"
        BY <1>1, <3>2 DEF IInv, Moving
      <4>3. ~InWriteCb' /\ writes' # <<>> => wire' # <<>> \/ Stuck'
        BY <1>1, <3>2, <3>6 DEF IInv, Moving, Stuck
      <4>4. ~InWriteCb' /\ flush' # <<>> => writes' # <<>> \/ Stuck'
        BY <1>1, <3>6, <3>7 DEF Stuck
      <4> QED
        BY <1>1, <3>6, <4>1, <4>2, <4>3, <4>4 DEF IInv, Moving
    <3>9. Closing'
      <4>1. \A g \in Fibers \cup {Runner} :
              /\ pc'[g] \in {"uvclose", "shutwr"} => pc'[g] = pc[g]
              /\ pc[g] \in InShutdown => pc'[g] \in InShutdown
        BY <1>1, <1>4 DEF InShutdown
      <4>2. shutreq' => late'
        BY <1>1, <3>2 DEF IInv, Closing
      <4>3. ~InWriteCb' /\ "SHUTDOWN" \in flags' =>
              \/ shutreq' \/ "CLOSED" \in flags' \/ late'
              \/ "DELAY_SHUTDOWN" \in flags' /\ writes' # <<>>
        BY <1>1, <3>6, <3>7 DEF IInv, Closing, Stuck
      <4> QED
        BY <1>1, <4>1, <4>2, <4>3 DEF IInv, Closing
    <3> QED
      BY <1>3, <1>5, <1>6, <3>2, <3>4, <3>5, <3>8, <3>9 DEF IInv
  <2> QED
    BY <2>7, <2>8
<1> QED
  BY <1>7, <1>8

\* The lists when the first operation has ended, and its number may have been
\* sent.
LEMMA DoneQueued ==
  ASSUME Kept, Queued, NEW o, wire # <<>>, o = Head(wire),
         wire' = Tail(wire),
         sent' = Append(sent, o.n) \/ UNCHANGED sent,
         writes' = ASYNC_LIST_REMOVE(writes, o), started' = started \ {o},
         detached' \subseteq detached, UNCHANGED issued
  PROVE  /\ Queued' /\ wire' = <<>> /\ sent' \in Seq(Nat)
         /\ writes # <<>> /\ o = writes[1] /\ o \in WriteOps
         /\ writes' \in Seq(WriteOps)
         /\ \A i \in 1..Len(writes') : writes'[i] \notin started'
         /\ \A i \in 1..Len(writes) : i # 1 =>
              \E j \in 1..Len(writes') : writes'[j] = writes[i]
<1>1. /\ writes # <<>> /\ wire = <<writes[1]>> /\ writes[1] \in started
      /\ writes \in Seq(WriteOps) /\ sent \in Seq(Nat)
  BY DEF Queued, Kept
<1>2. o = writes[1] /\ wire' = <<>>
  BY <1>1
<1>3. /\ Len(writes) \in Nat /\ Head(writes) = o /\ IsInjective(writes)
      /\ 1 \in 1..Len(writes) /\ o \in WriteOps /\ o.n \in Nat
  BY <1>1, <1>2, WritesInjective DEF WriteOps
<1>4. writes' = Tail(writes)
  BY <1>1, <1>3, RemoveList
<1>5. /\ writes' \in Seq(WriteOps) /\ Len(writes') = Len(writes) - 1
      /\ \A i \in 1..Len(writes') : writes'[i] = writes[i + 1]
  BY <1>1, <1>4, HeadTailProperties
<1>6. \A i \in 1..Len(writes') : i + 1 \in 1..Len(writes) /\ i + 1 # 1 /\ 1 < i + 1
  BY <1>3, <1>5
<1>7. \A i \in 1..Len(writes') : writes'[i] \notin started'
  BY <1>5, <1>6 DEF Queued
<1>8. ASSUME NEW i \in 1..Len(writes), i # 1
      PROVE  \E j \in 1..Len(writes') : writes'[j] = writes[i]
  <2>1. i - 1 \in 1..Len(writes') /\ i - 1 + 1 = i
    BY <1>3, <1>5, <1>8
  <2>2. writes'[i - 1] = writes[i - 1 + 1]
    BY <1>5, <2>1
  <2> QED
    BY <2>1, <2>2
<1>9. /\ \A i, j \in 1..Len(writes') : i < j => writes'[i].n < writes'[j].n
      /\ \A i \in 1..Len(writes') : writes'[i].n <= issued /\ o.n < writes'[i].n
      /\ \A i \in 1..Len(sent), j \in 1..Len(writes') : sent[i] < writes'[j].n
      /\ \A i \in 1..Len(sent) : sent[i] < o.n
      /\ o.n <= issued
  <2>1. ASSUME NEW i \in 1..Len(writes'), NEW j \in 1..Len(writes'), i < j
        PROVE  writes'[i].n < writes'[j].n
    <3>1. i + 1 < j + 1
      BY <1>3, <1>5, <2>1
    <3> QED
      BY <1>5, <1>6, <3>1 DEF Queued
  <2>2. \A i \in 1..Len(writes') : writes'[i].n <= issued /\ o.n < writes'[i].n
    BY <1>2, <1>3, <1>5, <1>6 DEF Queued
  <2>3. \A i \in 1..Len(sent), j \in 1..Len(writes') : sent[i] < writes'[j].n
    BY <1>5, <1>6 DEF Queued
  <2>4. (\A i \in 1..Len(sent) : sent[i] < o.n) /\ o.n <= issued
    BY <1>2, <1>3 DEF Queued
  <2> QED
    BY <2>1, <2>2, <2>3, <2>4
<1>10. \A x \in started' \cup detached' : x.n <= issued'
  BY DEF Queued
<1>11. /\ sent' \in Seq(Nat)
       /\ \A i \in 1..Len(sent') : sent'[i] <= issued'
       /\ \A i \in 1..Len(sent'), j \in 1..Len(writes') : sent'[i] < writes'[j].n
       /\ \A i, j \in 1..Len(sent') : i < j => sent'[i] < sent'[j]
  <2>1. CASE UNCHANGED sent
    BY <1>1, <1>9, <2>1 DEF Queued
  <2>2. CASE sent' = Append(sent, o.n)
    <3>1. /\ sent' \in Seq(Nat) /\ Len(sent') = Len(sent) + 1 /\ Len(sent) \in Nat
          /\ sent'[Len(sent) + 1] = o.n
          /\ \A i \in 1..Len(sent) : sent'[i] = sent[i]
      BY <1>1, <1>3, <2>2, AppendAt, AppendList
    <3>2. \A i \in 1..Len(sent') : i \in 1..Len(sent) \/ i = Len(sent) + 1
      BY <3>1
    <3>3. \A i \in 1..Len(sent') : sent'[i] <= issued'
      BY <1>9, <3>1, <3>2 DEF Queued
    <3>4. \A i \in 1..Len(sent'), j \in 1..Len(writes') : sent'[i] < writes'[j].n
      BY <1>9, <3>1, <3>2
    <3>5. ASSUME NEW i \in 1..Len(sent'), NEW j \in 1..Len(sent'), i < j
          PROVE  sent'[i] < sent'[j]
      <4>1. i \in 1..Len(sent)
        BY <3>1, <3>5
      <4>2. CASE j \in 1..Len(sent)
        BY <3>1, <3>5, <4>1, <4>2 DEF Queued
      <4>3. CASE j = Len(sent) + 1
        BY <1>9, <3>1, <4>1, <4>3
      <4> QED
        BY <3>2, <4>2, <4>3
    <3> QED
      BY <3>1, <3>3, <3>4, <3>5
  <2> QED
    BY <2>1, <2>2
<1>12. Queued'
  BY <1>2, <1>7, <1>9, <1>10, <1>11 DEF Queued
<1> QED
  BY <1>1, <1>2, <1>3, <1>5, <1>7, <1>8, <1>11, <1>12

\* Whom the callback of libuv resumes.
Switches(o) ==
  CASE o \notin detached -> reschedule_task(o.f, "RESOLVED")
    [] o \in stale -> /\ async_fiber_switch(o.f)
                      /\ status' = [status EXCEPT ![o.f] = "RUNNING"]
                      /\ UNCHANGED <<ready, op>>
    [] OTHER -> UNCHANGED <<cur, fibers, ready, status, op>>

\* What becomes of the stacks.
LEMMA WriteCbSwitch ==
  ASSUME IInv, NEW o \in WriteOps, cur = Runner, pc[Runner] = "run",
         pc' = [pc EXCEPT ![Runner] = "writecb"],
         UNCHANGED <<defer, busy, callbacks, triggered, disposed, calls>>,
         Switches(o)
  PROVE  /\ Sched' /\ Stacked'
         /\ op' = op \/ op' = [op EXCEPT ![o.f] = "RESOLVED"]
         /\ o \notin detached => op' = [op EXCEPT ![o.f] = "RESOLVED"]
<1>1. o.f \in Fibers /\ "writecb" \in Labels /\ stale \subseteq detached
  BY DEF WriteOps, Labels, IInv, Kept
<1>2. Bookkeeping' /\ busy' \in Nat /\ callbacks' \in Seq(Fibers)
  BY SameBookkeeping DEF IInv
<1>3. CASE o \notin detached
  <2>1. reschedule_task(o.f, "RESOLVED")
    BY <1>1, <1>3 DEF Switches
  <2>2. Resumes(o.f, "RESOLVED", "writecb")
    BY <2>1 DEF Resumes
  <2>3. Sched' /\ Stacked'
    BY <1>1, <1>2, <2>2, ResumesOn DEF IInv
  <2> QED
    BY <2>1, <2>3 DEF reschedule_task
<1>4. CASE o \in stale
  <2>1. /\ async_fiber_switch(o.f)
        /\ status' = [status EXCEPT ![o.f] = "RUNNING"]
        /\ UNCHANGED <<ready, op>>
    BY <1>1, <1>4 DEF Switches
  <2>2. fibers = <<>> /\ cur' = o.f /\ fibers' = <<Runner>>
    <3>1. fibers = <<>>
      BY DEF IInv, Stacked
    <3>2. cur' = o.f /\ fibers' = <<Runner>> \o <<>>
      BY <2>1, <3>1 DEF async_fiber_switch
    <3> QED
      BY <3>1, <3>2
  <2>3. FiberLists'
    <3>1. status' \in [Fibers -> TaskStatus]
      BY <1>1, <2>1 DEF IInv, Sched, FiberLists, TaskStatus
    <3> QED
      BY <1>1, <2>1, <2>2, <3>1 DEF IInv, Sched, FiberLists
  <2>4. Sched'
    BY <1>1, <1>2, <2>3, NextLabel DEF IInv, Sched
  <2>5. Stacked'
    <3>1. Active = {Runner}
      BY <2>2, EmptyList DEF Active
    <3>2. \A f \in Fibers : pc[f] \notin InShutdown
      BY <3>1, SchedulerAssumption DEF IInv, Stacked
    <3>3. \A f \in Fibers : pc'[f] = pc[f]
      BY NextLabel, SchedulerAssumption DEF IInv
    <3>4. cur' # Runner /\ Len(fibers') = 1
      BY <1>1, <2>2, SchedulerAssumption
    <3> QED
      BY <3>2, <3>3, <3>4 DEF Stacked
  <2> QED
    BY <1>1, <1>4, <2>1, <2>4, <2>5
<1>5. CASE o \in detached /\ o \notin stale
  <2>1. Goes("writecb")
    BY <1>5 DEF Goes, Switches
  <2>2. Sched' /\ Stacked'
    BY <1>1, <1>2, <2>1, GoesOn DEF IInv
  <2> QED
    BY <1>5, <2>1, <2>2 DEF Goes
<1> QED
  BY <1>3, <1>4, <1>5

\* libuv reports the end of a write.
LEMMA WriteCbStep ==
  ASSUME IInv, write_cb
  PROVE  IInv'
<1>1. PICK o : o = Head(wire)
  OBVIOUS
<1>2. /\ cur = Runner /\ pc[Runner] = "run" /\ wire # <<>>
      /\ wire' = Tail(wire)
      /\ sent' = Append(sent, o.n) \/ UNCHANGED sent
      /\ writes' = ASYNC_LIST_REMOVE(writes, o)
      /\ started' = started \ {o}
      /\ detached' = detached \ {o}
      /\ stale' = stale \ {o}
      /\ flags' = flags \cup {"WRITING"}
      /\ pc' = [pc EXCEPT ![Runner] = "writecb"]
  BY <1>1 DEF write_cb
<1>3. /\ UNCHANGED <<defer, busy, callbacks, triggered, disposed, calls>>
      /\ UNCHANGED <<readVars, reading, issued, flush, late, shutreq, handle>>
  BY DEF write_cb
<1>4. Switches(o)
  BY <1>1 DEF write_cb, Switches
<1>5. UNCHANGED <<ring, arrived, taken, reader, want, alarm, retried>>
  BY <1>3 DEF readVars
<1>6. /\ Queued' /\ wire' = <<>> /\ sent' \in Seq(Nat)
      /\ writes # <<>> /\ o = writes[1] /\ o \in WriteOps
      /\ writes' \in Seq(WriteOps)
      /\ \A i \in 1..Len(writes') : writes'[i] \notin started'
      /\ \A i \in 1..Len(writes) : i # 1 =>
           \E j \in 1..Len(writes') : writes'[j] = writes[i]
  <2>1. detached' \subseteq detached /\ UNCHANGED issued
    BY <1>2, <1>3
  <2> QED
    BY <1>1, <1>2, <2>1, DoneQueued DEF IInv
<1>7. /\ Sched' /\ Stacked'
      /\ op' = op \/ op' = [op EXCEPT ![o.f] = "RESOLVED"]
      /\ o \notin detached => op' = [op EXCEPT ![o.f] = "RESOLVED"]
  BY <1>2, <1>3, <1>4, <1>6, WriteCbSwitch
<1>8. /\ pc'[Runner] = "writecb" /\ o.f \in Fibers /\ op \in [Fibers -> OpStatus]
      /\ \A f \in Fibers \cup {Runner} : f # Runner => pc'[f] = pc[f]
      /\ \A f \in Fibers : f # Runner
  BY <1>2, <1>6, NextLabel, SchedulerAssumption
     DEF IInv, WriteOps, Sched, FiberLists
<1>9. Kept'
  <2>1. flags' \subseteq Flags
    BY <1>2 DEF IInv, Kept, Flags
  <2>2. /\ started' \subseteq WriteOps /\ detached' \subseteq WriteOps
        /\ stale' \subseteq detached'
    BY <1>2 DEF IInv, Kept
  <2> QED
    BY <1>3, <1>5, <1>6, <2>1, <2>2 DEF IInv, Kept
<1>10. Ringed'
  BY <1>5 DEF IInv, Ringed
<1>11. Mine'
  <2>1. ASSUME NEW g \in Fibers, pc'[g] = "write", op'[g] # "RESOLVED"
        PROVE  \E i \in 1..Len(writes') :
                 writes'[i].f = g /\ writes'[i] \notin detached'
    <3>1. pc[g] = "write" /\ op[g] # "RESOLVED"
      BY <1>7, <1>8, <2>1
    <3>2. PICK i \in 1..Len(writes) :
            writes[i].f = g /\ writes[i] \notin detached
      BY <3>1 DEF IInv, Mine
    <3>3. i # 1
      BY <1>6, <1>7, <1>8, <2>1, <3>2
    <3>4. PICK j \in 1..Len(writes') : writes'[j] = writes[i]
      BY <1>6, <3>3
    <3> QED
      BY <1>2, <3>2, <3>4
  <2> QED
    BY <2>1 DEF Mine
<1>12. Moving'
  <2>1. InWriteCb' /\ "WRITING" \in flags'
    BY <1>2, <1>8 DEF InWriteCb
  <2>2. writes' # <<>> => writes'[1] \notin started'
    <3>1. writes' # <<>> => 1 \in 1..Len(writes')
      BY <1>6, InList, EmptySeq
    <3> QED
      BY <1>6, <3>1
  <2> QED
    BY <1>8, <2>1, <2>2 DEF Moving
<1>13. Closing'
  <2>1. \A f \in Fibers \cup {Runner} :
          /\ pc'[f] \in {"uvclose", "shutwr"} => pc'[f] = pc[f]
          /\ pc[f] \in InShutdown => pc'[f] \in InShutdown
    BY <1>2, <1>8 DEF InShutdown
  <2>2. shutreq' => late'
    BY <1>3, <1>6 DEF IInv, Closing
  <2>3. InWriteCb'
    BY <1>8 DEF InWriteCb
  <2> QED
    BY <1>2, <1>3, <2>1, <2>2, <2>3 DEF IInv, Closing
<1>14. Served'
  <2>1. reader # None => pc'[reader] = "read"
    BY <1>5, <1>8 DEF IInv, Served, Kept
  <2>2. ReadRunning' => ReadRunning
    BY <1>5, <1>7, <1>8 DEF ReadRunning, IInv, Kept
  <2> QED
    BY <1>2, <1>3, <1>5, <1>8, <2>1, <2>2 DEF IInv, Served, ShouldRead
<1> QED
  BY <1>6, <1>7, <1>9, <1>10, <1>11, <1>12, <1>13, <1>14 DEF IInv

\* The next operation is started.
LEMMA ProcessStep ==
  ASSUME IInv, process_write
  PROVE  IInv'
<1>1. /\ cur = Runner /\ pc[Runner] = "writecb"
      /\ UNCHANGED <<cur, fibers, ready, status, op>>
      /\ UNCHANGED <<defer, busy, callbacks, triggered, disposed, calls>>
      /\ UNCHANGED <<readVars, reading, writes, detached, stale, sent, issued,
                     flush, late, shutreq, handle>>
      /\ IF writes # <<>> /\ Head(writes) \notin started
         THEN /\ started' = started \cup {Head(writes)}
              /\ wire' = IF handle = "open" THEN Append(wire, Head(writes))
                         ELSE wire
         ELSE UNCHANGED <<started, wire>>
  BY DEF process_write
<1>2. PICK l \in {"writeflush", "run"} :
        /\ pc' = [pc EXCEPT ![Runner] = l]
        /\ l = "writeflush" <=> writes = <<>>
        /\ l = "writeflush" => UNCHANGED flags
        /\ l = "run" => flags' = flags \ {"WRITING"}
  BY DEF process_write
<1>3. UNCHANGED <<ring, arrived, taken, reader, want, alarm, retried>>
  BY <1>1 DEF readVars
<1>4. Goes(l) /\ l \in Labels
  BY <1>1, <1>2 DEF Goes, Labels
<1>5. Sched' /\ Stacked'
  BY <1>1, <1>4, SameBookkeeping, GoesOn DEF IInv
<1>6. /\ pc'[Runner] = l
      /\ \A f \in Fibers \cup {Runner} : f # Runner => pc'[f] = pc[f]
      /\ \A f \in Fibers : f # Runner
  BY <1>1, <1>2, NextLabel, SchedulerAssumption DEF IInv
<1>7. /\ IsInjective(writes) /\ writes \in Seq(WriteOps)
      /\ \A i \in 1..Len(writes) : writes[i] \in WriteOps
      /\ \A i, j \in 1..Len(writes) : writes[i] = writes[j] => i = j
      /\ writes # <<>> => Head(writes) = writes[1] /\ 1 \in 1..Len(writes)
  BY WritesInjective DEF IInv, Kept
<1>8. /\ Queued' /\ wire' \in Seq(WriteOps) /\ started' \subseteq WriteOps
      /\ writes # <<>> => wire' # <<>> \/ handle' # "open"
  <2>1. CASE writes # <<>> /\ writes[1] \notin started
    <3>1. /\ started' = started \cup {writes[1]} /\ wire = <<>>
          /\ wire' = IF handle = "open" THEN Append(wire, writes[1]) ELSE wire
      BY <1>1, <1>7, <2>1 DEF IInv, Queued
    <3>2. wire' = IF handle = "open" THEN <<writes[1]>> ELSE <<>>
      BY <3>1
    <3>3. /\ wire' \in Seq(WriteOps) /\ started' \subseteq WriteOps
          /\ \A x \in started' \cup detached' : x.n <= issued'
          /\ \A i \in 1..Len(writes) : writes[i] \in started' => i = 1
      BY <1>1, <1>7, <2>1, <3>1, <3>2 DEF IInv, Kept, Queued
    <3>4. wire' # <<>> => wire' = <<writes[1]>> /\ writes[1] \in started'
      BY <3>1, <3>2
    <3>5. Queued'
      BY <1>1, <2>1, <3>3, <3>4 DEF IInv, Queued
    <3>6. wire' # <<>> \/ handle' # "open"
      BY <1>1, <3>2
    <3> QED
      BY <3>3, <3>5, <3>6
  <2>2. CASE ~(writes # <<>> /\ writes[1] \notin started)
    <3>1. UNCHANGED <<started, wire>>
      BY <1>1, <1>7, <2>2
    <3>2. Queued'
      BY <1>1, <3>1 DEF IInv, Queued
    <3> QED
      BY <1>1, <2>2, <3>1, <3>2 DEF IInv, Kept, Moving
  <2> QED
    BY <2>1, <2>2
<1>9. Kept'
  <2>1. flags' \subseteq Flags
    BY <1>2 DEF IInv, Kept
  <2> QED
    BY <1>1, <1>3, <1>8, <2>1 DEF IInv, Kept
<1>10. Ringed' /\ Mine'
  BY <1>1, <1>3, <1>6 DEF IInv, Ringed, Mine
<1>11. Moving'
  <2>1. "WRITING" \in flags
    BY <1>1 DEF IInv, Moving, InWriteCb
  <2>2. writes' = writes /\ (writes' # <<>> => wire' # <<>> \/ handle' # "open")
    BY <1>1, <1>8
  <2>3. CASE l = "writeflush"
    <3>1. writes' = <<>> /\ "WRITING" \in flags' /\ InWriteCb'
      BY <1>1, <1>2, <1>6, <2>1, <2>3 DEF InWriteCb
    <3> QED
      BY <3>1 DEF Moving
  <2>4. CASE l = "run"
    <3>1. "WRITING" \notin flags' /\ ~InWriteCb' /\ writes' # <<>>
          /\ pc'[Runner] # "writeflush"
      BY <1>2, <1>6, <2>2, <2>4 DEF InWriteCb
    <3> QED
      BY <2>2, <3>1 DEF Moving, Stuck
  <2> QED
    BY <1>2, <2>3, <2>4
<1>12. Closing'
  <2>1. \A f \in Fibers \cup {Runner} :
          /\ pc'[f] \in {"uvclose", "shutwr"} => pc'[f] = pc[f]
          /\ pc[f] \in InShutdown => pc'[f] \in InShutdown
    BY <1>1, <1>6 DEF InShutdown
  <2>2. \A x : x # "WRITING" => (x \in flags' <=> x \in flags)
    BY <1>2
  <2>3. ~InWriteCb' => writes # <<>>
    BY <1>2, <1>6 DEF InWriteCb
  <2> QED
    BY <1>1, <2>1, <2>2, <2>3 DEF IInv, Closing
<1>13. Served'
  <2>1. reader # None => pc'[reader] = "read"
    BY <1>3, <1>6 DEF IInv, Served, Kept
  <2>2. ReadRunning' <=> ReadRunning
    BY <1>1, <1>3 DEF ReadRunning
  <2>3. \A x : x # "WRITING" => (x \in flags' <=> x \in flags)
    BY <1>2
  <2> QED
    BY <1>1, <1>3, <1>6, <2>1, <2>2, <2>3 DEF IInv, Served, ShouldRead
<1> QED
  BY <1>5, <1>8, <1>9, <1>10, <1>11, <1>12, <1>13 DEF IInv

\* uv_shutdown when the last write is done, or when there is none: what is left
\* to show of a shutdown.
LEMMA Shuts ==
  ASSUME IInv, NEW base, trigger_shutdown_wr(base), base \subseteq flags,
         flags \ {"WRITING"} \subseteq base, UNCHANGED handle
  PROVE  /\ "CLOSED" \in flags' <=> "CLOSED" \in flags
         /\ shutreq' => handle = "open" /\ "SHUTDOWN" \in flags'
         /\ ~shutreq' => handle # "open" /\ "CLOSED" \in flags'
         /\ \A x : x \notin {"WRITING", "SHUTDOWN"} =>
              (x \in flags' <=> x \in flags)
         /\ "SHUTDOWN" \in flags => "SHUTDOWN" \in flags'
         /\ "WRITING" \in flags' <=> "WRITING" \in base
         /\ flags' \subseteq Flags /\ shutreq' \in BOOLEAN
<1>1. /\ shutreq' = (handle = "open")
      /\ flags' = IF handle = "open" THEN base \cup {"SHUTDOWN"} ELSE base
  BY DEF trigger_shutdown_wr
<1>2. flags \subseteq Flags /\ (handle # "open" => "CLOSED" \in flags)
  BY DEF IInv, Kept, Closing
<1>3. CASE handle = "open"
  BY <1>1, <1>2, <1>3 DEF Flags
<1>4. CASE handle # "open"
  BY <1>1, <1>2, <1>4
<1> QED
  BY <1>3, <1>4

\* The loop of write_cb that resumes the fibers in flush().
LEMMA FlushTurnStep ==
  ASSUME IInv, WriteFlushTurn
  PROVE  IInv'
<1>1. /\ cur = Runner /\ pc[Runner] = "writeflush"
      /\ UNCHANGED <<defer, busy, callbacks, triggered, disposed, calls>>
      /\ UNCHANGED <<readVars, reading, writes, started, detached, stale, wire,
                     sent, issued, late, handle>>
  BY DEF WriteFlushTurn
<1>2. UNCHANGED <<ring, arrived, taken, reader, want, alarm, retried>>
  BY <1>1 DEF readVars
<1>3. Ringed' /\ Queued'
  BY <1>1, <1>2 DEF IInv, Ringed, Queued
<1>4. /\ "WRITING" \in flags /\ (writes = <<>> \/ late)
      /\ writes # <<>> /\ writes[1] \in started => wire # <<>> \/ handle # "open"
      /\ flush \in Seq(Fibers)
  BY <1>1 DEF IInv, Moving, InWriteCb, Kept
<1>5. CASE flush # <<>>
  <2>1. /\ flush' = Tail(flush) /\ reschedule_task(Head(flush), "RESOLVED")
        /\ UNCHANGED <<pc, flags, shutreq>>
    BY <1>5 DEF WriteFlushTurn
  <2>2. Head(flush) \in Fibers /\ flush' \in Seq(Fibers)
    BY <1>4, <1>5, <2>1, TailList
  <2>3. pc' = [pc EXCEPT ![cur] = "writeflush"]
    BY <1>1, <2>1 DEF IInv, Sched
  <2>4. /\ Resumes(Head(flush), "RESOLVED", "writeflush")
        /\ "writeflush" \in Labels /\ Plain(pc[cur], "writeflush")
    BY <1>1, <2>1, <2>3 DEF Resumes, Labels, Plain
  <2>5. Sched' /\ Stacked'
    BY <1>1, <2>2, <2>4, ResumesOn, SameBookkeeping DEF IInv
  <2>6. Mine'
    BY <1>1, <2>2, <2>4, ResumesMine DEF IInv
  <2>7. Kept'
    BY <1>1, <1>2, <2>1, <2>2 DEF IInv, Kept
  <2>8. Moving'
    BY <1>1, <1>4, <2>1 DEF Moving, InWriteCb
  <2>9. Closing'
    BY <1>1, <2>1, <2>3, <2>4, ClosingStays DEF IInv
  <2>10. Served'
    <3>1. ReadRunning' => ReadRunning
      BY <1>2, <2>4, ResumesNoRead DEF IInv
    <3> QED
      BY <1>1, <1>2, <2>1, <2>3, <2>4, <3>1, ServedStays DEF IInv
  <2> QED
    BY <1>3, <2>5, <2>6, <2>7, <2>8, <2>9, <2>10 DEF IInv
<1>6. CASE flush = <<>>
  <2>1. /\ pc' = [pc EXCEPT ![Runner] = "run"]
        /\ UNCHANGED <<cur, fibers, ready, status, op, flush>>
        /\ IF "DELAY_SHUTDOWN" \in flags
           THEN trigger_shutdown_wr(flags \ {"WRITING"})
           ELSE flags' = flags \ {"WRITING"} /\ UNCHANGED shutreq
    BY <1>6 DEF WriteFlushTurn
  <2>2. Goes("run") /\ "run" \in Labels
    BY <1>1, <2>1 DEF Goes, Labels
  <2>3. Sched' /\ Stacked'
    BY <1>1, <2>2, SameBookkeeping, GoesOn DEF IInv
  <2>4. /\ pc'[Runner] = "run"
        /\ \A f \in Fibers \cup {Runner} : f # Runner => pc'[f] = pc[f]
        /\ \A f \in Fibers : f # Runner
    BY <1>1, <2>1, NextLabel, SchedulerAssumption DEF IInv
  <2>5. /\ "CLOSED" \in flags' <=> "CLOSED" \in flags
        /\ \A x : x \notin {"WRITING", "SHUTDOWN"} =>
             (x \in flags' <=> x \in flags)
        /\ "SHUTDOWN" \in flags => "SHUTDOWN" \in flags'
        /\ "WRITING" \notin flags'
        /\ flags' \subseteq Flags /\ shutreq' \in BOOLEAN
        /\ shutreq' => shutreq \/ "DELAY_SHUTDOWN" \in flags
        /\ "SHUTDOWN" \in flags' => shutreq' \/ "CLOSED" \in flags'
    <3>1. CASE "DELAY_SHUTDOWN" \in flags
      <4>1. trigger_shutdown_wr(flags \ {"WRITING"})
        BY <2>1, <3>1
      <4>2. /\ flags \ {"WRITING"} \subseteq flags
            /\ "WRITING" \notin flags \ {"WRITING"}
        OBVIOUS
      <4>3. /\ "CLOSED" \in flags' <=> "CLOSED" \in flags
            /\ ~shutreq' => handle # "open" /\ "CLOSED" \in flags'
            /\ \A x : x \notin {"WRITING", "SHUTDOWN"} =>
                 (x \in flags' <=> x \in flags)
            /\ "SHUTDOWN" \in flags => "SHUTDOWN" \in flags'
            /\ "WRITING" \in flags' <=> "WRITING" \in flags \ {"WRITING"}
            /\ flags' \subseteq Flags /\ shutreq' \in BOOLEAN
        BY <1>1, <4>1, <4>2, Shuts
      <4> QED
        BY <3>1, <4>2, <4>3
    <3>2. CASE "DELAY_SHUTDOWN" \notin flags
      <4>1. flags' = flags \ {"WRITING"} /\ UNCHANGED shutreq
        BY <2>1, <3>2
      <4> QED
        BY <3>2, <4>1 DEF IInv, Closing, Kept
    <3> QED
      BY <3>1, <3>2
  <2>6. Kept' /\ Mine'
    BY <1>1, <1>2, <2>1, <2>4, <2>5 DEF IInv, Kept, Mine
  <2>7. Moving'
    BY <1>1, <1>4, <1>6, <2>1, <2>4, <2>5 DEF Moving, InWriteCb, Stuck
  <2>8. Closing'
    <3>1. \A f \in Fibers \cup {Runner} :
            /\ pc'[f] \in {"uvclose", "shutwr"} => pc'[f] = pc[f]
            /\ pc[f] \in InShutdown => pc'[f] \in InShutdown
      BY <1>1, <2>4 DEF InShutdown
    <3> QED
      BY <1>1, <1>4, <2>5, <3>1 DEF IInv, Closing
  <2>9. Served'
    <3>1. reader # None => pc'[reader] = "read"
      BY <1>2, <2>4 DEF IInv, Served, Kept
    <3>2. ReadRunning' <=> ReadRunning
      BY <1>2, <2>1 DEF ReadRunning
    <3> QED
      BY <1>1, <1>2, <2>4, <2>5, <3>1, <3>2 DEF IInv, Served, ShouldRead
  <2> QED
    BY <1>3, <2>3, <2>6, <2>7, <2>8, <2>9 DEF IInv
<1> QED
  BY <1>5, <1>6

\* async_stream_flush.
LEMMA FlushStep ==
  ASSUME IInv, NEW f, async_stream_flush(f)
  PROVE  IInv'
<1>1. /\ MayCall(f) /\ Call(f)
      /\ UNCHANGED <<ready, defer, busy, triggered, disposed>>
      /\ UNCHANGED <<flags, readVars, reading, writes, started, detached, stale,
                     wire, sent, issued, late, shutreq, handle>>
  BY DEF async_stream_flush
<1>2. UNCHANGED <<ring, arrived, taken, reader, want, alarm, retried>>
  BY <1>1 DEF readVars
<1>3. CASE writes = <<>> \/ AwaitRefused(f)
  <2>1. UNCHANGED <<cur, fibers, status, pc, op, callbacks, flush>>
    BY <1>3 DEF async_stream_flush
  <2>2. UNCHANGED streamVars
    BY <1>1, <1>2, <2>1 DEF streamVars
  <2> QED
    BY <1>1, <2>1, <2>2, RefusedStep
<1>4. CASE ~(writes = <<>> \/ AwaitRefused(f))
  <2>1. AwaitSuspend(f, "flush") /\ flush' = Append(flush, f) /\ writes # <<>>
    BY <1>4 DEF async_stream_flush
  <2>2. /\ f \in Fibers /\ cur = f /\ pc[f] = "run" /\ f # Runner
        /\ pc' = [pc EXCEPT ![cur] = "flush"] /\ Plain(pc[cur], "flush")
        /\ pc'[f] = "flush" /\ pc'[Runner] = pc[Runner]
        /\ op' = [op EXCEPT ![f] = "RUNNING"]
        /\ Sched' /\ Stacked'
    BY <1>1, <2>1, UserLeaves
  <2>3. flush' \in Seq(Fibers)
    BY <2>1, <2>2, AppendList DEF IInv, Kept
  <2>4. Kept' /\ Ringed' /\ Queued'
    BY <1>1, <1>2, <2>3 DEF IInv, Kept, Ringed, Queued
  <2>5. \A g \in Fibers : g # f => op'[g] = op[g]
    BY <2>2 DEF IInv, Sched, FiberLists
  <2>6. Mine'
    BY <1>1, <2>2, <2>5, MineStays DEF IInv
  <2>7. Moving'
    BY <1>1, <2>1, <2>2 DEF IInv, Moving, InWriteCb, Stuck
  <2>8. Closing'
    BY <1>1, <2>2, ClosingStays DEF IInv
  <2>9. Served'
    <3>1. reader # f
      BY <2>2, StreamAssumption DEF IInv, Served
    <3>2. ReadRunning' => ReadRunning
      BY <1>2, <2>5, <3>1 DEF ReadRunning, IInv, Kept
    <3> QED
      BY <1>1, <1>2, <2>2, <3>2, ServedStays DEF IInv
  <2> QED
    BY <2>2, <2>4, <2>6, <2>7, <2>8, <2>9 DEF IInv
<1> QED
  BY <1>3, <1>4

\* async_stream_flush after the wait.
LEMMA FlushReturnsStep ==
  ASSUME IInv, NEW f \in Fibers, FlushReturns(f)
  PROVE  IInv'
<1>1. /\ cur = f /\ pc[f] = "flush" /\ AwaitResume(f)
      /\ flush' = ASYNC_LIST_REMOVE(flush, f)
      /\ UNCHANGED <<cur, fibers, ready, status, defer, busy, triggered,
                     disposed, calls>>
      /\ UNCHANGED <<flags, readVars, reading, writes, started, detached, stale,
                     wire, sent, issued, late, shutreq, handle>>
  BY DEF FlushReturns
<1>2. UNCHANGED <<ring, arrived, taken, reader, want, alarm, retried>>
  BY <1>1 DEF readVars
<1>3. /\ Sched' /\ Stacked' /\ f # Runner
      /\ pc' = [pc EXCEPT ![cur] = "run"] /\ Plain(pc[cur], "run")
      /\ op' = [op EXCEPT ![f] = "PENDING"]
      /\ pc'[Runner] = pc[Runner]
  BY <1>1, Returns
<1>4. \A g \in Fibers : g # f => op'[g] = op[g]
  BY <1>3 DEF IInv, Sched, FiberLists
<1>5. flush' \in Seq(Fibers) /\ (flush = <<>> => flush' = <<>>)
  BY <1>1, RemoveList DEF IInv, Kept
<1>6. Kept' /\ Ringed' /\ Queued'
  BY <1>1, <1>2, <1>5 DEF IInv, Kept, Ringed, Queued
<1>7. Mine'
  BY <1>1, <1>3, <1>4, MineStays DEF IInv
<1>8. Moving'
  BY <1>1, <1>3, <1>5 DEF IInv, Moving, InWriteCb, Stuck
<1>9. Closing'
  BY <1>1, <1>3, ClosingStays DEF IInv
<1>10. Served'
  <2>1. ReadRunning' => ReadRunning
    BY <1>2, <1>3, <1>4 DEF ReadRunning, IInv, Kept, Sched, FiberLists
  <2> QED
    BY <1>1, <1>2, <1>3, <2>1, ServedStays DEF IInv
<1> QED
  BY <1>3, <1>6, <1>7, <1>8, <1>9, <1>10 DEF IInv

-----------------------------------------------------------------------------
(***************************************************************************)
(* Shutting down and closing.                                              *)
(***************************************************************************)

\* A fiber that is in no callback goes on outside of them: the write side.
LEMMA MovingOutside ==
  ASSUME Sched, Moving, NEW l, pc' = [pc EXCEPT ![cur] = l],
         pc[cur] \notin Callbacks, l \notin Callbacks,
         UNCHANGED <<writes, started, wire, late, flush>>,
         handle' # "open" \/ UNCHANGED handle,
         "WRITING" \in flags' <=> "WRITING" \in flags
  PROVE  Moving' /\ (InWriteCb' <=> InWriteCb)
<1>1. \A x \in Callbacks : pc'[Runner] = x <=> pc[Runner] = x
  BY NextLabel
<1>2. InWriteCb' <=> InWriteCb
  BY <1>1 DEF InWriteCb, Callbacks
<1>3. pc'[Runner] = "writeflush" <=> pc[Runner] = "writeflush"
  BY <1>1 DEF Callbacks
<1> QED
  BY <1>2, <1>3 DEF Moving, Stuck

\* The read side.
LEMMA ServedOutside ==
  ASSUME Sched, Kept, Served, NEW l, pc' = [pc EXCEPT ![cur] = l],
         pc[cur] \notin Callbacks \cup {"read"}, l \notin Callbacks,
         UNCHANGED <<reader, retried, reading, ring>>,
         ReadRunning' => ReadRunning, UNCHANGED cur,
         \A x \in {"READING", "EOF", "SHUT_RD"} : x \in flags' <=> x \in flags
  PROVE  Served'
<1>1. \A x \in Callbacks : pc'[Runner] = x <=> pc[Runner] = x
  BY NextLabel
<1>2. reader # None => pc'[reader] = "read"
  BY NextLabel DEF Served, Kept
<1> QED
  BY <1>1, <1>2 DEF Served, Callbacks, ShouldRead

\* async_stream_shutdown up to the completion of the pending read.
LEMMA ShutdownStep ==
  ASSUME IInv, NEW f, async_stream_shutdown(f)
  PROVE  IInv'
<1>1. /\ MayCall(f) /\ Call(f)
      /\ UNCHANGED <<defer, busy, callbacks, triggered, disposed>>
      /\ UNCHANGED <<readVars, writeVars, shutreq, handle>>
  BY DEF async_stream_shutdown
<1>2. PICK how \in SUBSET {"SHUT_RD", "SHUT_WR"}, rd \in BOOLEAN,
           l \in {"shutwr", "shut"} :
        /\ rd <=> "SHUT_RD" \in how \ flags
        /\ l = "shutwr" => "SHUT_WR" \in how
        /\ flags' = (flags \cup how \cup {x \in {"EOF"} : "SHUT_RD" \in how})
                      \ {x \in {"READING"} : rd}
        /\ reading' = (reading /\ ~rd)
        /\ FinishIfReading(rd, l)
  <2>1. PICK how \in SUBSET {"SHUT_RD", "SHUT_WR"} :
          /\ flags' = (flags \cup how \cup {x \in {"EOF"} : "SHUT_RD" \in how})
                        \ {x \in {"READING"} : "SHUT_RD" \in how \ flags}
          /\ reading' = (reading /\ ~("SHUT_RD" \in how \ flags))
          /\ FinishIfReading("SHUT_RD" \in how \ flags,
               IF "SHUT_WR" \in how \ flags THEN "shutwr" ELSE "shut")
    BY DEF async_stream_shutdown
  <2>2. PICK l \in {"shutwr", "shut"} :
          /\ l = (IF "SHUT_WR" \in how \ flags THEN "shutwr" ELSE "shut")
          /\ l = "shutwr" => "SHUT_WR" \in how
    OBVIOUS
  <2>3. CASE "SHUT_RD" \in how \ flags
    <3>1. FinishIfReading(TRUE, l)
      BY <2>1, <2>2, <2>3 DEF FinishIfReading
    <3>2. /\ flags' = (flags \cup how \cup {x \in {"EOF"} : "SHUT_RD" \in how})
                        \ {x \in {"READING"} : TRUE}
          /\ reading' = (reading /\ ~TRUE)
      BY <2>1, <2>3
    <3> QED
      BY <2>2, <2>3, <3>1, <3>2
  <2>4. CASE "SHUT_RD" \notin how \ flags
    <3>1. FinishIfReading(FALSE, l)
      BY <2>1, <2>2, <2>4 DEF FinishIfReading
    <3>2. /\ flags' = (flags \cup how \cup {x \in {"EOF"} : "SHUT_RD" \in how})
                        \ {x \in {"READING"} : FALSE}
          /\ reading' = (reading /\ ~FALSE)
      BY <2>1, <2>4
    <3> QED
      BY <2>2, <2>4, <3>1, <3>2
  <2> QED
    BY <2>3, <2>4
<1>3. /\ UNCHANGED <<ring, arrived, taken, reader, want, alarm, retried>>
      /\ UNCHANGED <<writes, started, detached, stale, wire, sent, issued, flush,
                     late>>
  BY <1>1 DEF readVars, writeVars
<1>4. f \in Fibers /\ cur = f /\ pc[f] = "run" /\ Bookkeeping' /\ f # Runner
  BY <1>1, CallBound, CallFlags, SchedulerAssumption DEF IInv, Sched
<1>5. l \in Labels /\ l # "write"
  BY <1>2 DEF Labels
<1>6. /\ Sched' /\ Stacked' /\ Mine'
      /\ pc' = [pc EXCEPT ![cur] = l]
      /\ ReadRunning' => ReadRunning /\ ~rd
  BY <1>1, <1>2, <1>3, <1>4, <1>5, Finishes
<1>7. /\ \A x : x \notin {"READING", "EOF", "SHUT_RD", "SHUT_WR"} =>
           (x \in flags' <=> x \in flags)
      /\ "SHUT_WR" \in flags \/ "SHUT_WR" \in how => "SHUT_WR" \in flags'
      /\ "EOF" \in flags' <=> "EOF" \in flags \/ "SHUT_RD" \in how
      /\ "SHUT_RD" \in flags' <=> "SHUT_RD" \in flags \/ "SHUT_RD" \in how
      /\ "READING" \in flags' <=> "READING" \in flags /\ ~rd
      /\ flags' \subseteq Flags
  BY <1>2 DEF IInv, Kept, Flags
<1>8. /\ pc'[f] = l /\ pc'[Runner] = pc[Runner]
      /\ \A g \in Fibers \cup {Runner} : g # f => pc'[g] = pc[g]
  BY <1>4, <1>6, NextLabel DEF IInv
<1>9. Kept'
  BY <1>1, <1>2, <1>3, <1>7 DEF IInv, Kept
<1>10. Ringed' /\ Queued'
  BY <1>3 DEF IInv, Ringed, Queued
<1>11. Moving' /\ (InWriteCb' <=> InWriteCb)
  BY <1>1, <1>3, <1>7, <1>8 DEF IInv, Moving, InWriteCb, Stuck
<1>12. Closing'
  <2>1. \A g \in Fibers \cup {Runner} :
          /\ pc'[g] = "uvclose" => pc[g] = "uvclose"
          /\ pc'[g] = "shutwr" => pc[g] = "shutwr" \/ "SHUT_WR" \in how
    BY <1>2, <1>8
  <2>2. pc'[f] \in InShutdown
    BY <1>2, <1>8 DEF InShutdown
  <2> QED
    BY <1>1, <1>3, <1>4, <1>7, <1>11, <2>1, <2>2 DEF IInv, Closing
<1>13. Served'
  <2>1. reader # None => pc'[reader] = "read"
    BY <1>3, <1>4, <1>8 DEF IInv, Served, Kept
  <2>2. rd <=> "SHUT_RD" \in how /\ "SHUT_RD" \notin flags
    BY <1>2
  <2> QED
    BY <1>2, <1>3, <1>4, <1>6, <1>7, <1>8, <2>1, <2>2
       DEF IInv, Served, ShouldRead
<1> QED
  BY <1>6, <1>9, <1>10, <1>11, <1>12, <1>13 DEF IInv

\* The rest of async_stream_shutdown.
LEMMA ShutdownEndsStep ==
  ASSUME IInv, NEW f \in Fibers \cup {Runner}, ShutdownEnds(f)
  PROVE  IInv'
<1>1. /\ cur = f /\ pc[f] \in {"shutwr", "shut"}
      /\ UNCHANGED <<cur, fibers, ready, status, op>>
      /\ UNCHANGED <<defer, busy, callbacks, triggered, disposed, calls>>
      /\ UNCHANGED <<readVars, writeVars, reading, handle>>
  BY DEF ShutdownEnds
<1>2. PICK l \in {"close", "run"} :
        /\ pc' = [pc EXCEPT ![f] = l]
        /\ {"SHUT_RD", "SHUT_WR"} \subseteq flags /\ "SHUTDOWN" \notin flags'
             => l = "close"
  BY DEF ShutdownEnds
<1>3. /\ UNCHANGED <<ring, arrived, taken, reader, want, alarm, retried>>
      /\ UNCHANGED <<writes, started, detached, stale, wire, sent, issued, flush,
                     late>>
  BY <1>1 DEF readVars, writeVars
<1>4. /\ \A x : x \notin {"SHUTDOWN", "DELAY_SHUTDOWN"} =>
           (x \in flags' <=> x \in flags)
      /\ flags' \subseteq Flags /\ shutreq' \in BOOLEAN
      /\ shutreq' \/ "DELAY_SHUTDOWN" \in flags' => "SHUT_WR" \in flags'
      /\ shutreq' => writes' = <<>> \/ late'
      /\ "SHUTDOWN" \in flags' =>
           shutreq' \/ "CLOSED" \in flags' \/ "DELAY_SHUTDOWN" \in flags'
      /\ ~InWriteCb /\ "SHUTDOWN" \in flags' =>
           \/ shutreq' \/ "CLOSED" \in flags' \/ late'
           \/ "DELAY_SHUTDOWN" \in flags' /\ writes' # <<>>
  <2>1. CASE pc[f] = "shut"
    <3>1. UNCHANGED <<flags, shutreq>>
      BY <2>1 DEF ShutdownEnds
    <3> QED
      BY <1>3, <3>1 DEF IInv, Kept, Closing
  <2>2. CASE pc[f] = "shutwr" /\ writes = <<>>
    <3>1. trigger_shutdown_wr(flags) /\ "SHUT_WR" \in flags
      BY <1>1, <2>2 DEF ShutdownEnds, IInv, Closing
    <3>2. /\ "CLOSED" \in flags' <=> "CLOSED" \in flags
          /\ ~shutreq' => handle # "open" /\ "CLOSED" \in flags'
          /\ \A x : x \notin {"WRITING", "SHUTDOWN"} =>
               (x \in flags' <=> x \in flags)
          /\ "WRITING" \in flags' <=> "WRITING" \in flags
          /\ flags' \subseteq Flags /\ shutreq' \in BOOLEAN
      <4>1. flags \ {"WRITING"} \subseteq flags /\ flags \subseteq flags
        OBVIOUS
      <4> QED
        BY <1>1, <3>1, <4>1, Shuts
    <3> QED
      BY <1>3, <2>2, <3>1, <3>2
  <2>3. CASE pc[f] = "shutwr" /\ writes # <<>>
    <3>1. /\ flags' = flags \cup {"SHUTDOWN", "DELAY_SHUTDOWN"}
          /\ UNCHANGED shutreq /\ "SHUT_WR" \in flags
      BY <1>1, <2>3 DEF ShutdownEnds, IInv, Closing
    <3> QED
      BY <1>3, <2>3, <3>1 DEF IInv, Kept, Closing, Flags
  <2> QED
    BY <1>1, <2>1, <2>2, <2>3
<1>5. Goes(l) /\ l \in Labels /\ pc' = [pc EXCEPT ![cur] = l]
  BY <1>1, <1>2 DEF Goes, Labels
<1>6. Sched' /\ Stacked'
  BY <1>1, <1>5, SameBookkeeping, GoesOn DEF IInv
<1>7. /\ pc'[f] = l
      /\ \A g \in Fibers \cup {Runner} : g # f => pc'[g] = pc[g]
  BY <1>1, <1>5, NextLabel DEF IInv
<1>8. Kept'
  BY <1>1, <1>3, <1>4 DEF IInv, Kept
<1>9. Ringed' /\ Queued'
  BY <1>3 DEF IInv, Ringed, Queued
<1>10. Mine'
  BY <1>1, <1>2, <1>3, <1>5, MineStays DEF IInv
<1>11. pc[cur] \notin Callbacks \cup {"read"} /\ l \notin Callbacks
  BY <1>1, <1>2 DEF Callbacks
<1>12. Moving' /\ (InWriteCb' <=> InWriteCb)
  BY <1>1, <1>3, <1>4, <1>5, <1>11, MovingOutside DEF IInv
<1>13. Closing'
  <2>1. \A g \in Fibers \cup {Runner} :
          pc'[g] \in {"uvclose", "shutwr"} => pc'[g] = pc[g]
    BY <1>2, <1>7
  <2>2. {"SHUT_RD", "SHUT_WR"} \subseteq flags' =>
          \/ flags' \cap {"CLOSED", "SHUTDOWN"} # {}
          \/ \E g \in Fibers \cup {Runner} : pc'[g] \in InShutdown
    BY <1>2, <1>4, <1>7 DEF InShutdown
  <2> QED
    BY <1>1, <1>4, <1>12, <2>1, <2>2 DEF IInv, Closing
<1>14. Served'
  <2>1. ReadRunning' => ReadRunning
    BY <1>1, <1>3 DEF ReadRunning
  <2> QED
    BY <1>1, <1>3, <1>4, <1>5, <1>11, <2>1, ServedOutside DEF IInv
<1> QED
  BY <1>6, <1>8, <1>9, <1>10, <1>12, <1>13, <1>14 DEF IInv

\* libuv reports the end of the shutdown.
LEMMA ShutdownCbStep ==
  ASSUME IInv, shutdown_cb
  PROVE  IInv'
<1>1. /\ cur = Runner /\ pc[Runner] = "run" /\ shutreq' = FALSE
      /\ flags' = flags \ {"SHUTDOWN", "DELAY_SHUTDOWN"}
      /\ UNCHANGED <<cur, fibers, ready, status, op>>
      /\ UNCHANGED <<defer, busy, callbacks, triggered, disposed, calls>>
      /\ UNCHANGED <<readVars, writeVars, reading, handle>>
  BY DEF shutdown_cb
<1>2. PICK l \in {"close", "run"} :
        /\ pc' = [pc EXCEPT ![Runner] = l]
        /\ "SHUT_RD" \in flags => l = "close"
  BY DEF shutdown_cb
<1>3. /\ UNCHANGED <<ring, arrived, taken, reader, want, alarm, retried>>
      /\ UNCHANGED <<writes, started, detached, stale, wire, sent, issued, flush,
                     late>>
  BY <1>1 DEF readVars, writeVars
<1>4. Goes(l) /\ l \in Labels /\ pc' = [pc EXCEPT ![cur] = l]
  BY <1>1, <1>2 DEF Goes, Labels
<1>5. Sched' /\ Stacked'
  BY <1>1, <1>4, SameBookkeeping, GoesOn DEF IInv
<1>6. /\ pc'[Runner] = l
      /\ \A g \in Fibers \cup {Runner} : g # Runner => pc'[g] = pc[g]
  BY <1>1, <1>4, NextLabel DEF IInv
<1>7. Kept'
  BY <1>1, <1>3 DEF IInv, Kept
<1>8. Ringed' /\ Queued'
  BY <1>3 DEF IInv, Ringed, Queued
<1>9. Mine'
  BY <1>1, <1>2, <1>3, <1>4, MineStays DEF IInv
<1>10. pc[cur] \notin Callbacks \cup {"read"} /\ l \notin Callbacks
  BY <1>1, <1>2 DEF Callbacks
<1>11. \A x : x \notin {"SHUTDOWN", "DELAY_SHUTDOWN"} =>
         (x \in flags' <=> x \in flags)
  BY <1>1
<1>12. Moving' /\ (InWriteCb' <=> InWriteCb)
  BY <1>1, <1>3, <1>4, <1>10, <1>11, MovingOutside DEF IInv
<1>13. Closing'
  <2>1. \A g \in Fibers \cup {Runner} :
          pc'[g] \in {"uvclose", "shutwr"} => pc'[g] = pc[g]
    BY <1>2, <1>6
  <2>2. "SHUT_RD" \in flags' => pc'[Runner] \in InShutdown
    BY <1>2, <1>6, <1>11 DEF InShutdown
  <2>3. "SHUTDOWN" \notin flags' /\ "DELAY_SHUTDOWN" \notin flags'
    BY <1>1
  <2> QED
    BY <1>1, <1>11, <2>1, <2>2, <2>3 DEF IInv, Closing
<1>14. Served'
  <2>1. ReadRunning' => ReadRunning
    BY <1>1, <1>3 DEF ReadRunning
  <2> QED
    BY <1>1, <1>3, <1>4, <1>10, <1>11, <2>1, ServedOutside DEF IInv
<1> QED
  BY <1>5, <1>7, <1>8, <1>9, <1>12, <1>13, <1>14 DEF IInv

\* The user closes the stream.
LEMMA CloseStep ==
  ASSUME IInv, NEW f, close(f)
  PROVE  IInv'
<1>1. /\ MayCall(f) /\ Call(f) /\ pc' = [pc EXCEPT ![f] = "close"]
      /\ UNCHANGED <<cur, fibers, ready, status, op, defer, busy, callbacks,
                     triggered, disposed>>
      /\ UNCHANGED streamVars
  BY DEF close
<1>2. f \in Fibers /\ cur = f /\ pc[f] = "run" /\ Bookkeeping'
  BY <1>1, CallBound, CallFlags DEF IInv, Sched
<1>3. busy' \in Nat /\ callbacks' \in Seq(Fibers)
  BY <1>1 DEF IInv, Sched
<1>4. Goes("close") /\ "close" \in Labels /\ Plain(pc[cur], "close")
  BY <1>1, <1>2 DEF Goes, Labels, Plain, Callbacks, InShutdown
<1> QED
  BY <1>1, <1>2, <1>3, <1>4, GoesStep

\* async_stream_close.
LEMMA StreamCloseStep ==
  ASSUME IInv, NEW f \in Fibers \cup {Runner}, async_stream_close(f)
  PROVE  IInv'
<1>1. /\ cur = f /\ pc[f] = "close"
      /\ UNCHANGED <<defer, busy, callbacks, triggered, disposed, calls>>
      /\ UNCHANGED <<ring, arrived, taken, reader, want, retried, writeVars,
                     shutreq, handle>>
  BY DEF async_stream_close
<1>2. UNCHANGED <<writes, started, detached, stale, wire, sent, issued, flush,
                  late>>
  BY <1>1 DEF writeVars
<1>3. Ringed' /\ Queued'
  BY <1>1, <1>2 DEF IInv, Ringed, Queued
<1>4. CASE "CLOSED" \in flags
  <2>1. /\ pc' = [pc EXCEPT ![cur] = AfterClose(f)]
        /\ UNCHANGED <<cur, fibers, ready, status, op, flags, reading, alarm>>
    BY <1>1, <1>4 DEF async_stream_close
  <2>2. PICK l \in {"dispose", "run"} : l = AfterClose(f)
    BY DEF AfterClose
  <2>3. Goes(l) /\ l \in Labels /\ pc' = [pc EXCEPT ![cur] = l]
    BY <2>1, <2>2 DEF Goes, Labels
  <2>4. Sched' /\ Stacked'
    BY <1>1, <2>3, SameBookkeeping, GoesOn DEF IInv
  <2>5. Kept'
    BY <1>1, <1>2, <2>1 DEF IInv, Kept
  <2>6. Mine'
    BY <1>2, <2>1, <2>2, <2>3, MineStays DEF IInv
  <2>7. pc[cur] \notin Callbacks \cup {"read"} /\ l \notin Callbacks
    BY <1>1, <2>2 DEF Callbacks
  <2>8. Moving' /\ (InWriteCb' <=> InWriteCb)
    BY <1>1, <1>2, <2>1, <2>3, <2>7, MovingOutside DEF IInv
  <2>9. Closing'
    <3>1. \A g \in Fibers \cup {Runner} :
            pc'[g] \in {"uvclose", "shutwr"} => pc'[g] = pc[g]
      BY <1>1, <2>2, <2>3, NextLabel DEF IInv
    <3> QED
      BY <1>1, <1>2, <1>4, <2>1, <3>1 DEF IInv, Closing
  <2>10. Served'
    <3>1. ReadRunning' => ReadRunning
      BY <1>1, <2>1 DEF ReadRunning
    <3> QED
      BY <1>1, <2>1, <2>3, <2>7, <3>1, ServedOutside DEF IInv
  <2> QED
    BY <1>3, <2>4, <2>5, <2>6, <2>8, <2>9, <2>10 DEF IInv
<1>5. CASE "CLOSED" \notin flags
  <2>1. /\ flags' = (flags \cup {"CLOSED", "EOF", "SHUT_RD", "SHUT_WR"})
                      \ {"READING"}
        /\ reading' = FALSE /\ alarm' = FALSE
        /\ FinishIfReading(TRUE, "uvclose")
    BY <1>5 DEF async_stream_close
  <2>2. "uvclose" \in Labels
    BY DEF Labels
  <2>3. /\ Sched' /\ Stacked' /\ Mine'
        /\ pc' = [pc EXCEPT ![cur] = "uvclose"]
        /\ ~ReadRunning'
    BY <1>1, <1>2, <2>1, <2>2, SameBookkeeping, Finishes DEF IInv
  <2>4. /\ pc'[f] = "uvclose"
        /\ \A g \in Fibers \cup {Runner} : g # f => pc'[g] = pc[g]
    BY <1>1, <2>3, NextLabel DEF IInv
  <2>5. /\ {"CLOSED", "EOF", "SHUT_RD", "SHUT_WR"} \subseteq flags'
        /\ "READING" \notin flags' /\ flags' \subseteq Flags
        /\ "WRITING" \in flags' <=> "WRITING" \in flags
    BY <2>1 DEF IInv, Kept, Flags
  <2>6. Kept'
    BY <1>1, <1>2, <2>1, <2>5 DEF IInv, Kept
  <2>7. pc[cur] \notin Callbacks /\ "uvclose" \notin Callbacks
    BY <1>1 DEF Callbacks
  <2>8. Moving'
    BY <1>1, <1>2, <2>3, <2>5, <2>7, MovingOutside DEF IInv
  <2>9. Closing'
    BY <1>1, <1>2, <2>5 DEF IInv, Closing
  <2>10. Served'
    <3>1. reader # None => pc'[reader] = "read"
      BY <1>1, <2>4 DEF IInv, Served, Kept
    <3>2. pc'[Runner] = "readerror" => pc[Runner] = "readerror" /\ cur # Runner
      BY <1>1, <2>4
    <3>3. pc'[Runner] = "readerror" => ring'.len = 0
      BY <1>1, <3>2 DEF IInv, Served
    <3> QED
      BY <1>1, <2>1, <2>3, <2>5, <3>1, <3>3 DEF Served
  <2> QED
    BY <1>3, <2>3, <2>6, <2>8, <2>9, <2>10 DEF IInv
<1> QED
  BY <1>4, <1>5

\* uv_close.
LEMMA CloseEndsStep ==
  ASSUME IInv, NEW f \in Fibers \cup {Runner}, CloseEnds(f)
  PROVE  IInv'
<1>1. /\ cur = f /\ pc[f] = "uvclose"
      /\ handle' = IF handle = "open" THEN "closing" ELSE handle
      /\ pc' = [pc EXCEPT ![cur] = AfterClose(f)]
      /\ UNCHANGED <<cur, fibers, ready, status, op>>
      /\ UNCHANGED <<defer, busy, callbacks, triggered, disposed, calls>>
      /\ UNCHANGED <<flags, readVars, writeVars, reading, shutreq>>
  BY DEF CloseEnds
<1>2. PICK l \in {"dispose", "run"} : l = AfterClose(f)
  BY DEF AfterClose
<1>3. /\ UNCHANGED <<ring, arrived, taken, reader, want, alarm, retried>>
      /\ UNCHANGED <<writes, started, detached, stale, wire, sent, issued, flush,
                     late>>
  BY <1>1 DEF readVars, writeVars
<1>4. Goes(l) /\ l \in Labels /\ pc' = [pc EXCEPT ![cur] = l]
  BY <1>1, <1>2 DEF Goes, Labels
<1>5. Sched' /\ Stacked'
  BY <1>1, <1>4, SameBookkeeping, GoesOn DEF IInv
<1>6. handle' # "open" /\ handle' \in {"open", "closing", "closed"}
      /\ "CLOSED" \in flags
  BY <1>1 DEF IInv, Kept, Closing
<1>7. Kept'
  BY <1>1, <1>3, <1>6 DEF IInv, Kept
<1>8. Ringed' /\ Queued'
  BY <1>3 DEF IInv, Ringed, Queued
<1>9. Mine'
  BY <1>1, <1>2, <1>3, <1>4, MineStays DEF IInv
<1>10. pc[cur] \notin Callbacks \cup {"read"} /\ l \notin Callbacks
  BY <1>1, <1>2 DEF Callbacks
<1>11. Moving' /\ (InWriteCb' <=> InWriteCb)
  BY <1>1, <1>3, <1>4, <1>6, <1>10, MovingOutside DEF IInv
<1>12. Closing'
  <2>1. \A g \in Fibers \cup {Runner} :
          pc'[g] \in {"uvclose", "shutwr"} => pc'[g] = pc[g]
    BY <1>2, <1>4, NextLabel DEF IInv
  <2> QED
    BY <1>1, <1>3, <1>6, <2>1 DEF IInv, Closing
<1>13. Served'
  <2>1. ReadRunning' => ReadRunning
    BY <1>1, <1>3 DEF ReadRunning
  <2> QED
    BY <1>1, <1>3, <1>4, <1>10, <2>1, ServedOutside DEF IInv
<1> QED
  BY <1>5, <1>7, <1>8, <1>9, <1>11, <1>12, <1>13 DEF IInv

\* The handle is closed.
LEMMA ClosedStep ==
  ASSUME IInv, close_stream_cb
  PROVE  IInv'
<1>1. /\ handle = "closing" /\ handle' = "closed"
      /\ UNCHANGED <<schedVars, flags, readVars, writeVars, reading, shutreq>>
  BY DEF close_stream_cb
<1>2. /\ UNCHANGED <<ring, arrived, taken, reader, want, alarm, retried>>
      /\ UNCHANGED <<writes, started, detached, stale, wire, sent, issued, flush,
                     late>>
      /\ UNCHANGED <<cur, fibers, ready, status, pc, op, defer, busy, callbacks,
                     triggered, disposed, calls>>
  BY <1>1 DEF readVars, writeVars, schedVars
<1>3. Sched' /\ Stacked'
  <2>1. Active' = Active
    BY <1>2 DEF Active
  <2> QED
    BY <1>2, <2>1 DEF IInv, Sched, FiberLists, Bookkeeping, Stacked
<1>4. Kept' /\ Ringed' /\ Queued' /\ Mine'
  BY <1>1, <1>2 DEF IInv, Kept, Ringed, Queued, Mine
<1>5. Moving' /\ Closing'
  BY <1>1, <1>2 DEF IInv, Moving, Closing, InWriteCb, Stuck
<1>6. Served'
  BY <1>1, <1>2 DEF IInv, Served, ReadRunning, ShouldRead
<1> QED
  BY <1>3, <1>4, <1>5, <1>6 DEF IInv

\* The disposal of the scheduler.
LEMMA DisposeStep ==
  ASSUME IInv, Dispose
  PROVE  IInv'
<1>1. /\ cur = Root /\ pc[Root] = "dispose" /\ UNCHANGED streamVars
      /\ UNCHANGED <<defer, busy, callbacks, triggered, disposed, calls>>
  BY DEF Dispose
<1>2. Bookkeeping' /\ busy' \in Nat /\ callbacks' \in Seq(Fibers)
  BY <1>1, SameBookkeeping DEF IInv
<1>3. CASE ReadRunning /\ reschedule_task(reader, "FAILED") /\ UNCHANGED pc
  <2>1. pc' = [pc EXCEPT ![cur] = "dispose"] /\ reader \in Fibers
    BY <1>1, <1>3 DEF IInv, Sched, Kept, ReadRunning
  <2>2. /\ Resumes(reader, "FAILED", "dispose") /\ "dispose" \in Labels
        /\ Plain(pc[cur], "dispose")
    BY <1>1, <1>3, <2>1 DEF Resumes, ReadRunning, Labels, Plain
  <2> QED
    BY <1>1, <1>2, <2>1, <2>2, ResumesStep
<1>4. CASE /\ pc' = [pc EXCEPT ![Root] = "close"]
           /\ UNCHANGED <<cur, fibers, ready, status, op>>
  <2>1. Goes("close") /\ "close" \in Labels /\ Plain(pc[cur], "close")
    BY <1>1, <1>4 DEF Goes, Labels, Plain, Callbacks, InShutdown
  <2> QED
    BY <1>1, <1>2, <2>1, GoesStep
<1> QED
  BY <1>3, <1>4 DEF Dispose

-----------------------------------------------------------------------------
(***************************************************************************)
(* The theorems.                                                           *)
(***************************************************************************)

\* The stream is opened.
LEMMA Start ==
  ASSUME Init
  PROVE  IInv
<1>1. /\ SchedInit /\ flags = {} /\ ring = EmptyRing
      /\ arrived = 0 /\ taken = <<>> /\ reader = None /\ want = 0
      /\ alarm = FALSE /\ reading = FALSE
      /\ writes = <<>> /\ started = {} /\ detached = {} /\ stale = {}
      /\ wire = <<>> /\ sent = <<>> /\ issued = 0
      /\ flush = <<>> /\ shutreq = FALSE /\ handle = "open"
      /\ retried = FALSE /\ late = FALSE
  BY DEF Init
<1>2. /\ cur = Root /\ fibers = <<>> /\ pc = [f \in Fibers \cup {Runner} |-> "run"]
      /\ Root \in Fibers /\ Root # Runner
  BY <1>1, SchedulerAssumption DEF SchedInit, Fibers
<1>3. /\ \A f \in Fibers \cup {Runner} : pc[f] = "run"
      /\ pc \in [Fibers \cup {Runner} -> Labels]
  BY <1>2 DEF Labels
<1>4. Sched
  BY <1>1, <1>3, SchedStart DEF Sched
<1>5. /\ Len(writes) = 0 /\ Len(sent) = 0 /\ Len(taken) = 0 /\ Len(fibers) = 0
  BY <1>1, <1>2
<1>6. Kept
  <2>1. /\ writes \in Seq(WriteOps) /\ wire \in Seq(WriteOps)
        /\ sent \in Seq(Nat) /\ flush \in Seq(Fibers)
    BY <1>1, EmptyList
  <2> QED
    BY <1>1, <2>1 DEF Kept
<1>7. Ringed
  <2>1. /\ ring.mem = [i \in Cells |-> 0] /\ ring.rpos = 0 /\ ring.wpos = 0
        /\ ring.len = 0
    BY <1>1 DEF EmptyRing
  <2>2. BufSize \in Nat /\ 0 \in Cells /\ 0 \in 0..BufSize /\ MaxBytes \in Nat
    BY BufSizeAssumption, StreamAssumption DEF Cells
  <2>3. ring \in Rings
    BY <1>1, <2>2 DEF Rings, EmptyRing
  <2>4. Wrap(0 + 0) = 0
    BY BufSizeAssumption DEF Wrap
  <2>5. Holds(ring, 0)
    BY <2>1, <2>3, <2>4 DEF Holds
  <2> QED
    BY <1>1, <1>5, <2>1, <2>2, <2>5 DEF Ringed
<1>8. Queued /\ Mine
  BY <1>1, <1>3, <1>5 DEF Queued, Mine
<1>9. Moving
  BY <1>1, <1>3 DEF Moving, InWriteCb
<1>10. Closing
  BY <1>1, <1>3 DEF Closing
<1>11. Served
  BY <1>1, <1>3 DEF Served, ReadRunning
<1>12. Stacked
  BY <1>2, <1>3, <1>5 DEF Stacked, InShutdown
<1> QED
  BY <1>4, <1>6, <1>7, <1>8, <1>9, <1>10, <1>11, <1>12 DEF IInv

\* A step that changes nothing.
LEMMA Stutters ==
  ASSUME IInv, UNCHANGED vars
  PROVE  IInv'
<1>1. /\ UNCHANGED <<cur, fibers, ready, status, pc, op, defer, busy, callbacks,
                     triggered, disposed, calls>>
      /\ UNCHANGED <<flags, ring, arrived, taken, reader, want, alarm, reading>>
      /\ UNCHANGED <<writes, started, detached, stale, wire, sent, issued, flush>>
      /\ UNCHANGED <<shutreq, handle, retried, late>>
  BY DEF vars, schedVars, streamVars
<1>2. Active' = Active
  BY <1>1 DEF Active
<1>3. Sched' /\ Stacked'
  BY <1>1, <1>2 DEF IInv, Sched, FiberLists, Bookkeeping, Stacked
<1>4. Kept' /\ Ringed' /\ Queued' /\ Mine'
  BY <1>1 DEF IInv, Kept, Ringed, Queued, Mine
<1>5. Moving' /\ Closing'
  BY <1>1 DEF IInv, Moving, Closing, InWriteCb, Stuck
<1>6. Served'
  BY <1>1 DEF IInv, Served, ReadRunning, ShouldRead
<1> QED
  BY <1>3, <1>4, <1>5, <1>6 DEF IInv

\* Every step preserves the invariant.
LEMMA Steps ==
  ASSUME IInv, [Next]_vars
  PROVE  IInv'
<1>1. CASE Scheduler
  <2>1. UNCHANGED streamVars
    BY <1>1 DEF Scheduler
  <2>2. CASE dispatch_tasks
    BY <2>1, <2>2, DispatchStep
  <2>3. CASE \E t \in Tasks : run_task_fiber(t)
    BY <2>1, <2>3, SuspendStep
  <2>4. CASE async_task_scheduler_dispose
    BY <2>1, <2>4, SuspendStep
  <2>5. CASE run_scheduler_fiber({x \in {"alive"} : Alive})
    BY <2>1, <2>5, LoopEndsStep
  <2>6. CASE DisposeDrain({x \in {"stream"} : "CLOSED" \notin flags})
    <3>1. \E s : DisposeDrain(s)
      BY <2>6
    <3> QED
      BY <2>1, <3>1, SuspendStep
  <2>7. CASE CancelLoop
    BY <2>1, <2>7, CancelLoopStep
  <2> QED
    BY <1>1, <2>2, <2>3, <2>4, <2>5, <2>6, <2>7 DEF Scheduler
<1>2. CASE Internal
  <2>1. CASE \E f \in Fibers : ReadReturns(f) \/ WriteReturns(f) \/ FlushReturns(f)
    BY <2>1, ReadReturnsStep, WriteReturnsStep, FlushReturnsStep
  <2>2. CASE \E f \in Fibers \cup {Runner} :
               ShutdownEnds(f) \/ async_stream_close(f) \/ CloseEnds(f)
    BY <2>2, ShutdownEndsStep, StreamCloseStep, CloseEndsStep
  <2>3. CASE ReadErrorTurn \/ read_cb \/ ReadCbEnds \/ ReadEofTurn
    BY <2>3, ErrorStep, HandOutStep, ReadCbEndsStep, EofStep
  <2>4. CASE process_write \/ WriteFlushTurn
    BY <2>4, ProcessStep, FlushTurnStep
  <2>5. CASE shutdown_cb \/ close_stream_cb \/ Dispose
    BY <2>5, ShutdownCbStep, ClosedStep, DisposeStep
  <2> QED
    BY <1>1, <1>2, <2>1, <2>2, <2>3, <2>4, <2>5 DEF Internal
<1>3. CASE External
  BY <1>3, WriteCbStep, ReadDataStep, ReadStopsStep, TimeoutStep DEF External
<1>4. CASE UserCode
  BY <1>4, ReadStep, WriteStep, FlushStep, ShutdownStep, CloseStep DEF UserCode
<1>5. CASE Cancel
  BY <1>5, CancelStep DEF Cancel
<1>6. CASE UNCHANGED vars
  BY <1>6, Stutters
<1> QED
  BY <1>2, <1>3, <1>4, <1>5, <1>6 DEF Next

\* The inductive invariant holds throughout.
THEOREM StreamInvariant == Spec => []IInv
  BY Start, Steps, PTL DEF Spec

\* Every variable keeps its type, for every number of fibers, size of the buffer
\* and number of bytes and calls; in particular the positions of the ring buffer
\* stay inside its block.
THEOREM StreamTypes == Spec => []StreamTypeOK
<1>1. ASSUME IInv PROVE StreamTypeOK
  <2>1. SchedTypeOK
    BY <1>1 DEF IInv, Sched, FiberLists, Bookkeeping, SchedTypeOK
  <2>2. ring.rpos \in Cells /\ ring.wpos \in Cells /\ ring.len \in 0..BufSize
        /\ ring.mem \in [Cells -> 0..MaxBytes]
    BY <1>1 DEF IInv, Ringed, Holds, Rings
  <2>3. arrived \in 0..MaxBytes /\ taken \in Seq(1..MaxBytes)
    BY <1>1 DEF IInv, Ringed
  <2> QED
    BY <1>1, <2>1, <2>2, <2>3 DEF IInv, Kept, StreamTypeOK
<1> QED
  BY <1>1, StreamInvariant, PTL

\* No byte is lost, repeated or reordered by read_cb, async_stream_read and the
\* ring buffer, whatever times out, is cancelled, ends or is closed meanwhile.
THEOREM StreamBytes == Spec => []BytesInOrder
<1>1. ASSUME IInv PROVE BytesInOrder
  <2>1. PICK t, k, n : t = taken /\ k = Len(taken) /\ n = ring.len
    OBVIOUS
  <2>2. /\ k \in Nat /\ n \in Nat /\ n <= BufSize /\ BufSize \in Nat
        /\ ring.rpos \in Nat /\ ring.rpos < BufSize
        /\ arrived = k + n /\ t \in Seq(1..MaxBytes)
    BY <1>1, <2>1, BufSizeAssumption, InList DEF IInv, Ringed, Holds, Rings, Cells
  <2> DEFINE c == Contents(ring)
  <2>3. /\ Len(c) = n /\ \A i \in 1..n : c[i] = k + i
        /\ c = [i \in 1..n |-> c[i]]
    <3>1. c = [i \in 1..n |-> ring.mem[(ring.rpos + i - 1) % BufSize]]
      BY <2>1 DEF Contents
    <3>2. ASSUME NEW i \in 1..n
          PROVE  ring.mem[(ring.rpos + i - 1) % BufSize] = k + i
      <4>1. ring.rpos + i - 1 \in Nat /\ ring.rpos + i - 1 < 2 * BufSize
        BY <2>2
      <4>2. (ring.rpos + i - 1) % BufSize = Wrap(ring.rpos + i - 1)
        BY <4>1, Wraps
      <4>3. ring.mem[Wrap(ring.rpos + i - 1)] = k + i
        BY <1>1, <2>1 DEF IInv, Ringed, Holds
      <4> QED
        BY <4>2, <4>3, Zenon
    <3> HIDE DEF c
    <3> QED
      BY <2>2, <3>1, <3>2
  <2> HIDE DEF c
  <2>4. c \in Seq(Nat)
    <3>1. \A i \in 1..n : c[i] \in Nat
      BY <2>2, <2>3
    <3>2. c \in [1..n -> Nat]
      BY <2>3, <3>1
    <3> QED
      BY <2>2, <3>2, SeqDef
  <2>5. t \in Seq(Nat)
    <3>1. \A i \in 1..Len(t) : t[i] \in Nat
      <4>1. \A i \in 1..Len(t) : t[i] \in 1..MaxBytes
        BY <2>2, InList
      <4> QED
        BY <4>1
    <3>2. Len(t) \in Nat /\ t \in [1..Len(t) -> Nat]
      BY <2>2, <3>1, LenProperties
    <3> QED
      BY <3>2, SeqDef
  <2>6. /\ t \o c \in Seq(Nat) /\ Len(t \o c) = k + n
        /\ \A i \in 1..(k + n) :
             (t \o c)[i] = IF i <= k THEN t[i] ELSE c[i - k]
    <3>1. /\ t \o c \in Seq(Nat) /\ Len(t \o c) = Len(t) + Len(c)
          /\ \A i \in 1..Len(t) + Len(c) :
               (t \o c)[i] = IF i <= Len(t) THEN t[i] ELSE c[i - Len(t)]
      BY <2>4, <2>5, ConcatProperties
    <3>2. Len(t) = k /\ Len(c) = n
      BY <2>1, <2>3
    <3> QED
      BY <3>1, <3>2, Zenon
  <2>7. \A i \in 1..(k + n) : (t \o c)[i] = i
    <3>1. ASSUME NEW i \in 1..(k + n) PROVE (t \o c)[i] = i
      <4>1. CASE i <= k
        <5>1. i \in 1..Len(taken)
          BY <2>1, <2>2, <4>1
        <5>2. taken[i] = i
          BY <1>1, <5>1 DEF IInv, Ringed
        <5> QED
          BY <2>1, <2>6, <4>1, <5>2
      <4>2. CASE ~(i <= k)
        <5>1. i - k \in 1..n /\ k + (i - k) = i
          BY <2>2, <4>2
        <5> QED
          BY <2>3, <2>6, <4>2, <5>1
      <4> QED
        BY <4>1, <4>2
    <3> QED
      BY <3>1
  <2>8. t \o c = [i \in 1..(k + n) |-> i]
    <3>1. PICK u : u = t \o c
      OBVIOUS
    <3>2. u = [i \in 1..(k + n) |-> u[i]]
      BY <2>6, <3>1, LenProperties
    <3>3. \A i \in 1..(k + n) : u[i] = i
      BY <2>7, <3>1
    <3> QED
      BY <3>1, <3>2, <3>3
  <2> QED
    BY <2>1, <2>2, <2>8 DEF BytesInOrder, c
<1> QED
  BY <1>1, StreamInvariant, PTL

\* A read that waits while the loop is at rest has libuv reading for it, unless
\* it was retried while read_cb reported an error; and libuv never reads into a
\* full buffer, which read_cb would take for a broken stream.
THEOREM StreamReaderServed == Spec => []ReaderServed
<1>1. ASSUME IInv PROVE ReaderServed
  <2>1. SUFFICES ASSUME AtRest
                 PROVE  /\ ReadRunning => (reading \/ retried)
                        /\ reading => async_ring_buffer_write_len(ring) > 0
    BY DEF ReaderServed
  <2>2. pc[Runner] = "run"
    BY <2>1 DEF AtRest
  <2>3. ReadRunning => (reading \/ retried)
    BY <1>1, <2>2 DEF IInv, Served
  <2>4. ASSUME reading PROVE async_ring_buffer_write_len(ring) > 0
    <3>1. PICK R, L \in Nat : R = ring.rpos /\ L = ring.len /\ R < BufSize
                              /\ L <= BufSize /\ ring.wpos = Wrap(R + L)
      BY <1>1, BufSizeAssumption DEF IInv, Ringed, Holds, Rings, Cells
    <3>2. BufSize - ring.len >= Low
      BY <1>1, <2>2, <2>4 DEF IInv, Served, ShouldRead
    <3>3. BufSize \in Nat /\ Low \in Nat /\ Low > 0
      BY BufSizeAssumption, StreamAssumption
    <3>4. L < BufSize
      BY <3>1, <3>2, <3>3
    <3>5. PICK W \in Nat : W = ring.wpos /\ W < BufSize /\ W = Wrap(R + L)
      BY <3>1, <3>3, <3>4 DEF Wrap
    <3>6. async_ring_buffer_write_len(ring) = IF W >= R THEN BufSize - W ELSE R - W
      BY <3>1, <3>3, <3>4, <3>5 DEF async_ring_buffer_write_len
    <3> QED
      BY <3>1, <3>3, <3>5, <3>6
  <2> QED
    BY <2>3, <2>4
<1> QED
  BY <1>1, StreamInvariant, PTL

\* The data of the writes leaves in the order of the calls, libuv has at most
\* the first listed operation, and the write side is shut down only when every
\* accepted write is done (or one was listed while write_cb woke the flushers).
THEOREM StreamWrites == Spec => []WritesOrderly
<1>1. ASSUME IInv PROVE WritesOrderly
  <2>1. sent \in Seq(Nat) /\ DOMAIN sent = 1..Len(sent)
    BY <1>1, InList DEF IInv, Kept
  <2>2. \A i, j \in DOMAIN sent : i < j => sent[i] < sent[j]
    BY <1>1, <2>1 DEF IInv, Queued
  <2>3. wire # <<>> => (writes # <<>> /\ wire = <<Head(writes)>>)
    BY <1>1, WritesInjective DEF IInv, Queued
  <2>4. shutreq => (writes = <<>> \/ late)
    BY <1>1 DEF IInv, Closing
  <2> QED
    BY <2>2, <2>3, <2>4 DEF WritesOrderly
<1> QED
  BY <1>1, StreamInvariant, PTL

\* When the loop is at rest listed writes are being written and nobody stays in
\* flush() without one, on a stream that is not closed and when no write was
\* listed while write_cb woke the flushers.
THEOREM StreamQueue == Spec => []QueueMoves
<1>1. ASSUME IInv PROVE QueueMoves
  <2>1. AtRest => ~InWriteCb
    BY DEF AtRest, InWriteCb
  <2> QED
    BY <1>1, <2>1 DEF IInv, Moving, Stuck, QueueMoves
<1> QED
  BY <1>1, StreamInvariant, PTL

\* When the loop is at rest a stream that is shut on both sides is closed, or
\* the shutdown request or the last write that will close it is under way.
THEOREM StreamShutdown == Spec => []ShutdownMoves
<1>1. ASSUME IInv PROVE ShutdownMoves
  <2>1. SUFFICES ASSUME AtRest
                 PROVE  /\ {"SHUT_RD", "SHUT_WR"} \subseteq flags =>
                             flags \cap {"CLOSED", "SHUTDOWN"} # {}
                        /\ "SHUTDOWN" \in flags =>
                             \/ shutreq \/ "CLOSED" \in flags
                             \/ "DELAY_SHUTDOWN" \in flags /\ writes # <<>>
                             \/ late
    BY DEF ShutdownMoves
  <2>2. cur = Runner /\ pc[Runner] = "run" /\ ~InWriteCb
    BY <2>1 DEF AtRest, InWriteCb
  <2>3. Active = {Runner}
    BY <1>1, <2>2, EmptyList DEF IInv, Stacked, Active
  <2>4. \A f \in Fibers \cup {Runner} : pc[f] \notin InShutdown
    BY <1>1, <2>2, <2>3, SchedulerAssumption DEF IInv, Stacked, InShutdown
  <2> QED
    BY <1>1, <2>2, <2>4 DEF IInv, Closing
<1> QED
  BY <1>1, StreamInvariant, PTL

=============================================================================
