------------------------ MODULE AsyncDeferredProofs -------------------------
(***************************************************************************)
(* Theorems of AsyncDeferred for any fibers, any Deferred objects, any     *)
(* tasks and any network of combines and transforms: a state is settled    *)
(* once, but for a transform of a task that the disposal has failed;       *)
(* nobody is left on a settled one, only a pending Deferred can be         *)
(* cancelled, and the counters of a combine agree with its operations.     *)
(***************************************************************************)
EXTENDS AsyncDeferred, AsyncSchedulerProofs

-----------------------------------------------------------------------------
(***************************************************************************)
(* The inductive invariant.                                                *)
(***************************************************************************)

Places   == {"run", "await", "cancel", "drain", "dispose", "done"}
Final    == {"RESOLVED", "FAILED"}
Awaiters == Fibers \cup Combined \cup Transformed

SchedTypes ==
  /\ FiberLists /\ Single
  /\ pc \in [Fibers \cup {Runner} -> Places] /\ pc[Runner] = "run"
  /\ callbacks = <<>> /\ defer = {}
  /\ disposed \in BOOLEAN

StateTypes ==
  /\ state \in [States -> {"none", "PENDING"} \cup Final]
  /\ ops \in [States -> Seq(Awaiters)]
  /\ shutdown \in Seq(States)
  /\ settled \in [States -> Seq({"call", "disposal"})]

CallTypes ==
  /\ handlers \in Seq(Plain)
  /\ dropped \subseteq Plain
  /\ on \in [Fibers -> States \cup {"none"}]
  /\ stack \in [Fibers -> Seq(Frames)]

\* A fiber is inside a library call only while it runs or is interrupted, and
\* the fiber that disposes the scheduler lies below every other one.
Stacked ==
  /\ \A f \in Fibers : stack[f] # <<>> =>
       f \in Active /\ pc[f] \in {"run", "cancel", "dispose"}
  /\ pc[Root] = "dispose" =>
       /\ disposed /\ Root \in Active
       /\ cur = Root => fibers = <<>>
       /\ \A i \in 1..Len(fibers) : fibers[i] = Root => i = Len(fibers)

\* Somebody is inside that call.
Framed(at, d) ==
  \E f \in Fibers : \E r \in Range(stack[f]) : r.at = at /\ r.d = d

\* The continuation of transform x is to be called: x is pending, or waits for a
\* task and was failed by the disposal.
Due(x) ==
  \/ state[x] = "PENDING"
  \/ Exposed(x) /\ state[x] \in Final /\ settled[x] = <<"disposal">>

\* The calls that settle a state are about states of the right kind: a loop of
\* trigger_ops about a settled one, a transform about one that is due and whose
\* source is settled.
FrameAt(r) ==
  /\ r.at = "trigger" => state[r.d] \in Final
  /\ r.at \in {"combine", "countdown", "combining"} => r.d \in Combined
  /\ r.at = "transform" =>
       r.d \in Transformed /\ Due(r.d) /\ state[Source[r.d]] \in Final

Framing == \A f \in Fibers : \A r \in Range(stack[f]) : FrameAt(r)

\* The continuation of a transform is called at most once.
OneTransform ==
  \A f, g \in Fibers : \A i \in 1..Len(stack[f]), j \in 1..Len(stack[g]) :
    /\ stack[f][i].at = "transform" /\ stack[g][j].at = "transform"
    /\ stack[f][i].d = stack[g][j].d
    => f = g /\ i = j

\* A listed operation is that of a suspended fiber, or of a transform whose
\* continuation has not been called; neither is listed twice.
ListedAt(d, e) ==
  /\ e \in Fibers =>
       e \notin Active /\ e \notin Range(ready) /\ pc[e] = "await" /\ on[e] = d
  /\ e \in Transformed =>
       d = Source[e] /\ Due(e) /\ ~Framed("transform", e)

Once(l) == \A i, j \in 1..Len(l) : l[i] = l[j] /\ l[i] \notin Combined => i = j

Listed ==
  \A d \in States : Once(ops[d]) /\ \A e \in Range(ops[d]) : ListedAt(d, e)

\* Operations are listed with a pending state, or with one whose loop runs.
Served ==
  \A d \in States : ops[d] # <<>> => state[d] = "PENDING" \/ Framed("trigger", d)

\* A pending transform will be called, or is being called.
Transforms ==
  \A x \in Transformed : state[x] = "PENDING" =>
    x \in Range(ops[Source[x]]) \/ Framed("transform", x)

\* The shutdown list has the pending states, but for the tasks, each once, and a
\* transform behind its source.
Shutting ==
  /\ IsInjective(shutdown)
  /\ \A d \in States : d \in Range(shutdown) <=> state[d] = "PENDING" /\ d \notin Outside
  /\ \A x \in Transformed : \A i, j \in 1..Len(shutdown) :
       shutdown[i] = Source[x] /\ shutdown[j] = x => i < j

\* A state is settled when it has been settled once, or twice in the one way.
CountedAt(d) ==
  \/ state[d] \notin Final /\ settled[d] = <<>>
  \/ state[d] \in Final /\ settled[d] \in {<<"call">>, <<"disposal">>}
  \/ state[d] \in Final /\ Exposed(d) /\ settled[d] = <<"disposal", "call">>

Counted == \A d \in States : CountedAt(d)

Handlers == IsInjective(handlers) /\ HandlersPending

Network ==
  /\ StateTypes /\ CallTypes
  /\ Framing /\ OneTransform
  /\ Listed /\ Served /\ Transforms
  /\ Shutting /\ Counted

IInv == SchedTypes /\ Stacked /\ Network /\ Handlers

-----------------------------------------------------------------------------
(***************************************************************************)
(* Stacks of library calls.                                                *)
(***************************************************************************)

\* The stack t has the lower frames of s and above them frames of the set N.
Rebuilt(s, t, N) ==
  \E k \in 0..Len(s) :
    /\ k <= Len(t)
    /\ \A i \in 1..k : t[i] = s[i]
    /\ \A i \in (k + 1)..Len(t) : t[i] \in N

\* A stack is rebuilt from itself, and by popping its last frame.
LEMMA RebuiltPop ==
  ASSUME NEW s \in Seq(Frames)
  PROVE  /\ Rebuilt(s, s, {})
         /\ s # <<>> => Rebuilt(s, Front(s), {})
<1>1. Len(s) \in Nat
  BY InList
<1>2. Rebuilt(s, s, {})
  <2>1. Len(s) \in 0..Len(s) /\ Len(s) <= Len(s) /\ (Len(s) + 1)..Len(s) = {}
    BY <1>1
  <2> QED
    BY <2>1 DEF Rebuilt
<1>3. ASSUME s # <<>> PROVE Rebuilt(s, Front(s), {})
  <2> DEFINE t == Front(s)
  <2>1. Len(t) = Len(s) - 1 /\ Len(s) > 0 /\ \A i \in 1..(Len(s) - 1) : t[i] = s[i]
    BY <1>3, FrontList
  <2> HIDE DEF t
  <2>2. Len(t) \in 0..Len(s) /\ Len(t) <= Len(t) /\ (Len(t) + 1)..Len(t) = {}
    BY <1>1, <2>1
  <2>3. Rebuilt(s, t, {})
    BY <2>1, <2>2 DEF Rebuilt
  <2> QED
    BY <2>3 DEF t
<1> QED
  BY <1>2, <1>3

\* Pushing a frame.
LEMMA RebuiltPush ==
  ASSUME NEW s \in Seq(Frames), NEW t \in Seq(Frames), NEW N, NEW r \in Frames,
         Rebuilt(s, t, N)
  PROVE  Rebuilt(s, Append(t, r), N \cup {r})
<1> DEFINE u == Append(t, r)
<1>1. /\ Len(t) \in Nat /\ Len(u) = Len(t) + 1 /\ u[Len(t) + 1] = r
      /\ \A i \in 1..Len(t) : u[i] = t[i]
  BY AppendAt
<1>2. Len(s) \in Nat
  BY InList
<1> HIDE DEF u
<1>3. PICK k \in 0..Len(s) :
        /\ k <= Len(t)
        /\ \A i \in 1..k : t[i] = s[i]
        /\ \A i \in (k + 1)..Len(t) : t[i] \in N
  BY DEF Rebuilt
<1>4. k <= Len(u) /\ \A i \in 1..k : u[i] = s[i]
  BY <1>1, <1>2, <1>3
<1>5. ASSUME NEW i \in (k + 1)..Len(u) PROVE u[i] \in N \cup {r}
  <2>1. CASE i = Len(t) + 1
    BY <1>1, <2>1
  <2>2. CASE i # Len(t) + 1
    <3>1. i \in 1..Len(t) /\ i \in (k + 1)..Len(t)
      BY <1>1, <1>2, <1>3, <2>2
    <3> QED
      BY <1>1, <1>3, <3>1
  <2> QED
    BY <2>1, <2>2
<1>6. Rebuilt(s, u, N \cup {r})
  BY <1>3, <1>4, <1>5 DEF Rebuilt
<1> QED
  BY <1>6 DEF u

\* A stack with one frame pushed, popped or replaced.
LEMMA StackShapes ==
  ASSUME NEW s \in Seq(Frames), NEW r \in Frames
  PROVE  /\ Append(s, r) \in Seq(Frames) /\ Append(s, r) # <<>>
         /\ Range(Append(s, r)) = Range(s) \cup {r}
         /\ Rebuilt(s, Append(s, r), {r})
         /\ s # <<>> =>
              /\ Last(s) \in Frames /\ Last(s) \in Range(s)
              /\ Front(s) \in Seq(Frames)
              /\ Range(s) = Range(Front(s)) \cup {Last(s)}
              /\ Rebuilt(s, Front(s), {})
              /\ Append(Front(s), r) \in Seq(Frames) /\ Append(Front(s), r) # <<>>
              /\ Range(Append(Front(s), r)) = Range(Front(s)) \cup {r}
              /\ Rebuilt(s, Append(Front(s), r), {r})
<1>1. \A t \in Seq(Frames) : /\ Append(t, r) \in Seq(Frames) /\ Append(t, r) # <<>>
                             /\ Range(Append(t, r)) = Range(t) \cup {r}
  <2>1. SUFFICES ASSUME NEW t \in Seq(Frames)
                 PROVE  /\ Append(t, r) \in Seq(Frames) /\ Append(t, r) # <<>>
                        /\ Range(Append(t, r)) = Range(t) \cup {r}
    OBVIOUS
  <2>2. Append(t, r) # <<>>
    BY AppendProperties
  <2> QED
    BY <2>2, AppendList
<1>2. Rebuilt(s, Append(s, r), {} \cup {r}) /\ {} \cup {r} = {r}
  BY RebuiltPop, RebuiltPush
<1>3. ASSUME s # <<>>
      PROVE  /\ Last(s) \in Frames /\ Last(s) \in Range(s)
             /\ Front(s) \in Seq(Frames)
             /\ Range(s) = Range(Front(s)) \cup {Last(s)}
             /\ Rebuilt(s, Front(s), {})
             /\ Rebuilt(s, Append(Front(s), r), {r})
  <2>1. /\ Last(s) \in Frames /\ Last(s) \in Range(s)
        /\ Front(s) \in Seq(Frames) /\ Range(s) = Range(Front(s)) \cup {Last(s)}
    BY <1>3, FrontList
  <2>2. Rebuilt(s, Front(s), {})
    BY <1>3, RebuiltPop
  <2>3. Rebuilt(s, Append(Front(s), r), {} \cup {r})
    BY <2>1, <2>2, RebuiltPush
  <2> QED
    BY <1>2, <2>1, <2>2, <2>3
<1> QED
  BY <1>1, <1>2, <1>3

\* No second call of a continuation comes from frames that are not calls of
\* continuations of transforms.
LEMMA TransformKept ==
  ASSUME CallTypes, OneTransform, NEW f \in Fibers, NEW t \in Seq(Frames), NEW N,
         stack' = [stack EXCEPT ![f] = t], Rebuilt(stack[f], t, N),
         \A n \in N : n.at # "transform"
  PROVE  OneTransform'
<1>1. stack'[f] = t /\ \A g \in Fibers : g # f => stack'[g] = stack[g]
  BY DEF CallTypes
<1>2. Len(stack[f]) \in Nat /\ Len(t) \in Nat
  BY InList DEF CallTypes
<1>3. PICK k \in 0..Len(stack[f]) :
        /\ k <= Len(t)
        /\ \A i \in 1..k : t[i] = stack[f][i]
        /\ \A i \in (k + 1)..Len(t) : t[i] \in N
  BY DEF Rebuilt
<1>4. ASSUME NEW i \in 1..Len(t), t[i].at = "transform"
      PROVE  i \in 1..Len(stack[f]) /\ t[i] = stack[f][i]
  <2>1. i \notin (k + 1)..Len(t)
    BY <1>3, <1>4
  <2>2. i \in 1..k
    BY <1>2, <1>3, <2>1
  <2> QED
    BY <1>2, <1>3, <2>2
<1>5. ASSUME NEW g \in Fibers, NEW i \in 1..Len(stack'[g]), stack'[g][i].at = "transform"
      PROVE  i \in 1..Len(stack[g]) /\ stack'[g][i] = stack[g][i]
  BY <1>1, <1>4, <1>5
<1> QED
  BY <1>5 DEF OneTransform

\* Nor does it when the continuation was not being called.
LEMMA TransformPushed ==
  ASSUME CallTypes, OneTransform, NEW f \in Fibers, NEW x \in Transformed,
         ~Framed("transform", x), [at |-> "transform", d |-> x] \in Frames,
         stack' = [stack EXCEPT ![f] = Append(@, [at |-> "transform", d |-> x])]
  PROVE  OneTransform'
<1> DEFINE n == [at |-> "transform", d |-> x]
           t == Append(stack[f], n)
<1>1. stack[f] \in Seq(Frames)
  BY DEF CallTypes
<1>2. stack'[f] = t /\ \A g \in Fibers : g # f => stack'[g] = stack[g]
  BY DEF CallTypes
<1>3. n.at = "transform" /\ n.d = x /\ n \in Frames
  OBVIOUS
<1> HIDE DEF n
<1>4. /\ Len(stack[f]) \in Nat /\ Len(t) = Len(stack[f]) + 1 /\ t[Len(stack[f]) + 1] = n
      /\ \A i \in 1..Len(stack[f]) : t[i] = stack[f][i]
  BY <1>1, <1>3, AppendAt
<1> HIDE DEF t
<1>5. \A g \in Fibers : \A i \in 1..Len(stack[g]) :
        stack[g][i].at = "transform" => stack[g][i].d # x
  <2>1. ASSUME NEW g \in Fibers, NEW i \in 1..Len(stack[g]), stack[g][i].at = "transform"
        PROVE  stack[g][i].d # x
    <3>1. stack[g] \in Seq(Frames)
      BY DEF CallTypes
    <3>2. stack[g][i] \in Range(stack[g])
      BY <3>1, InList
    <3> QED
      BY <2>1, <3>2 DEF Framed
  <2> QED
    BY <2>1
<1>6. ASSUME NEW g \in Fibers, NEW i \in 1..Len(stack'[g]), stack'[g][i].at = "transform"
      PROVE  \/ i \in 1..Len(stack[g]) /\ stack'[g][i] = stack[g][i]
             \/ g = f /\ i = Len(stack[f]) + 1 /\ stack'[g][i].d = x
  BY <1>2, <1>3, <1>4
<1> QED
  BY <1>5, <1>6 DEF OneTransform

-----------------------------------------------------------------------------
(***************************************************************************)
(* Lists of operations.                                                    *)
(***************************************************************************)

\* Linking an operation.
LEMMA OnceAppend ==
  ASSUME NEW l \in Seq(Awaiters), NEW e \in Awaiters, Once(l),
         e \in Combined \/ e \notin Range(l)
  PROVE  /\ Append(l, e) \in Seq(Awaiters) /\ Once(Append(l, e))
         /\ Range(Append(l, e)) = Range(l) \cup {e}
<1> DEFINE m == Append(l, e)
<1>1. /\ Len(l) \in Nat /\ Len(m) = Len(l) + 1 /\ m[Len(l) + 1] = e
      /\ \A i \in 1..Len(l) : m[i] = l[i]
  BY AppendAt
<1>2. m \in Seq(Awaiters) /\ Range(m) = Range(l) \cup {e}
  BY AppendList
<1> HIDE DEF m
<1>3. \A i \in 1..Len(l) : l[i] \in Range(l)
  BY InList
<1>4. \A i \in 1..Len(m) : i \in 1..Len(l) \/ i = Len(l) + 1
  BY <1>1
<1>5. Once(m)
  BY <1>1, <1>3, <1>4 DEF Once
<1> QED
  BY <1>2, <1>5 DEF m

\* Taking the first operation.
LEMMA OnceTail ==
  ASSUME NEW l \in Seq(Awaiters), l # <<>>, Once(l)
  PROVE  /\ Tail(l) \in Seq(Awaiters) /\ Once(Tail(l))
         /\ Head(l) \in Awaiters /\ Head(l) \in Range(l)
         /\ Range(l) = Range(Tail(l)) \cup {Head(l)}
         /\ Head(l) \notin Combined => Head(l) \notin Range(Tail(l))
<1> DEFINE m == Tail(l)
<1>1. /\ m \in Seq(Awaiters) /\ Head(l) \in Awaiters /\ Head(l) \in Range(l)
      /\ Range(l) = Range(m) \cup {Head(l)}
  BY TailList
<1>2. /\ Len(l) \in Nat /\ Len(l) > 0 /\ Len(m) = Len(l) - 1
      /\ \A i \in 1..Len(m) : m[i] = l[i + 1]
      /\ Head(l) = l[1]
  BY HeadTailProperties, EmptySeq
<1> HIDE DEF m
<1>3. \A i \in 1..Len(m) : i + 1 \in 1..Len(l) /\ i + 1 # 1
  BY <1>2
<1>4. Once(m)
  <2>1. ASSUME NEW i \in 1..Len(m), NEW j \in 1..Len(m), m[i] = m[j], m[i] \notin Combined
        PROVE  i = j
    <3>1. i + 1 = j + 1
      BY <1>2, <1>3, <2>1 DEF Once
    <3> QED
      BY <3>1
  <2> QED
    BY <2>1 DEF Once
<1>5. ASSUME Head(l) \notin Combined PROVE Head(l) \notin Range(m)
  <2>1. SUFFICES ASSUME Head(l) \in Range(m) PROVE FALSE
    OBVIOUS
  <2>2. PICK i \in 1..Len(m) : m[i] = Head(l)
    BY <1>1, <2>1, InList
  <2>3. l[i + 1] = l[1] /\ 1 \in 1..Len(l)
    BY <1>2, <2>2
  <2> QED
    BY <1>2, <1>3, <1>5, <2>3 DEF Once
<1> QED
  BY <1>1, <1>4, <1>5 DEF m

-----------------------------------------------------------------------------
(***************************************************************************)
(* The network of states.                                                  *)
(***************************************************************************)

\* Settle by one of the two.
SettleBy(d, o, by) ==
  /\ state' = [state EXCEPT ![d] = o]
  /\ settled' = [settled EXCEPT ![d] = Append(@, by)]
  /\ shutdown' = ASYNC_LIST_REMOVE(shutdown, d)

\* The shutdown list after a state was taken off.
LEMMA ShutdownRemoved ==
  ASSUME StateTypes, Shutting, NEW d \in States, NEW o \in Final,
         NEW by, SettleBy(d, o, by)
  PROVE  shutdown' \in Seq(States) /\ Shutting'
<1>1. /\ shutdown' \in Seq(States) /\ IsInjective(shutdown')
      /\ Range(shutdown') = Range(shutdown) \ {d}
  BY RemoveList DEF StateTypes, Shutting, SettleBy
<1>2. \A e \in States : e \in Range(shutdown') <=> state'[e] = "PENDING" /\ e \notin Outside
  <2>1. SUFFICES ASSUME NEW e \in States
                 PROVE  e \in Range(shutdown') <=> state'[e] = "PENDING" /\ e \notin Outside
    OBVIOUS
  <2>2. state'[d] = o /\ o # "PENDING" /\ (e # d => state'[e] = state[e])
    BY DEF StateTypes, SettleBy, Final
  <2> QED
    BY <1>1, <2>2 DEF Shutting
<1>3. Left(shutdown, shutdown')
  BY RemoveLeft DEF StateTypes, SettleBy
<1>4. ASSUME NEW x \in Transformed, NEW i \in 1..Len(shutdown'), NEW j \in 1..Len(shutdown'),
             shutdown'[i] = Source[x], shutdown'[j] = x
      PROVE  i < j
  <2>1. PICK p \in 1..Len(shutdown), q \in 1..Len(shutdown) :
          shutdown[p] = shutdown'[i] /\ shutdown[q] = shutdown'[j] /\ (p <= q <=> i <= j)
    BY <1>3 DEF Left
  <2>2. p < q
    BY <1>4, <2>1 DEF Shutting
  <2>3. i # j
    <3>1. SUFFICES ASSUME i = j PROVE FALSE
      OBVIOUS
    <3>2. shutdown[p] = x /\ shutdown[p] = Source[x]
      BY <1>4, <2>1, <3>1
    <3>3. p < p
      BY <3>2 DEF Shutting
    <3> QED
      BY <3>3
  <2> QED
    BY <2>1, <2>2, <2>3
<1> QED
  BY <1>1, <1>2, <1>4 DEF Shutting

\* A list of two.
LEMMA AppendSecond ==
  ASSUME NEW S, NEW a \in S, NEW b \in S
  PROVE  Append(<<a>>, b) = <<a, b>>
<1>1. PICK one : one = <<a>>
  OBVIOUS
<1>2. PICK two : two = <<a, b>>
  OBVIOUS
<1>3. /\ one \in Seq(S) /\ Len(one) = 1 /\ one[1] = a
      /\ two \in Seq(S) /\ Len(two) = 2 /\ two[1] = a /\ two[2] = b
  BY <1>1, <1>2
<1>4. PICK app : app = Append(one, b)
  OBVIOUS
<1>5. /\ app \in Seq(S) /\ Len(app) = Len(one) + 1 /\ app[Len(one) + 1] = b
      /\ \A i \in 1..Len(one) : app[i] = one[i]
  <2>1. one \in Seq(S)
    BY <1>3
  <2>2. Append(one, b) \in Seq(S)
    BY <2>1, AppendProperties
  <2>3. /\ Len(Append(one, b)) = Len(one) + 1 /\ Append(one, b)[Len(one) + 1] = b
        /\ \A i \in 1..Len(one) : Append(one, b)[i] = one[i]
    BY <2>1, AppendAt
  <2> QED
    BY ONLY <1>4, <2>2, <2>3
<1>6. Len(app) = Len(two) /\ \A i \in 1..Len(app) : app[i] = two[i]
  BY <1>3, <1>5
<1>7. app = two
  BY <1>3, <1>5, <1>6, SeqEqual
<1> QED
  BY <1>1, <1>2, <1>4, <1>7

\* The history of a state that is settled, by the disposal only when it is
\* pending.
LEMMA CountedOnce ==
  ASSUME StateTypes, NEW d \in States, NEW o \in Final, NEW by \in {"call", "disposal"},
         CountedAt(d), Due(d), by = "disposal" => state[d] = "PENDING",
         SettleBy(d, o, by)
  PROVE  /\ settled' \in [States -> Seq({"call", "disposal"})]
         /\ CountedAt(d)'
         /\ state[d] = "PENDING" => settled'[d] = <<by>>
<1>1. state'[d] = o /\ settled'[d] = Append(settled[d], by)
  BY DEF StateTypes, SettleBy
<1>2. settled[d] \in Seq({"call", "disposal"}) /\ "PENDING" \notin Final
  BY DEF StateTypes, Final
<1>3. settled' \in [States -> Seq({"call", "disposal"})]
  BY <1>2 DEF StateTypes, SettleBy
<1>4. CASE state[d] = "PENDING"
  <2>1. settled[d] = <<>>
    BY <1>2, <1>4 DEF CountedAt
  <2>2. settled'[d] = <<by>>
    BY <1>1, <2>1
  <2>3. <<by>> \in {<<"call">>, <<"disposal">>}
    OBVIOUS
  <2> QED
    BY <1>1, <1>3, <2>2, <2>3 DEF CountedAt
<1>5. CASE state[d] # "PENDING"
  <2>1. Exposed(d) /\ settled[d] = <<"disposal">> /\ by = "call"
    BY <1>5 DEF Due
  <2>2. settled'[d] = <<"disposal", "call">>
    <3>1. "call" \in {"call", "disposal"} /\ "disposal" \in {"call", "disposal"}
      OBVIOUS
    <3>2. Append(<<"disposal">>, "call") = <<"disposal", "call">>
      BY <3>1, AppendSecond
    <3> QED
      BY <1>1, <2>1, <3>2
  <2> QED
    BY <1>1, <1>3, <1>5, <2>1, <2>2 DEF CountedAt, Exposed
<1> QED
  BY <1>4, <1>5

\* A state that is due is settled and its loop begins: the frames N are new, the
\* frames G are left.
LEMMA SettleStep ==
  ASSUME Network, NEW f \in Fibers, NEW d \in States, NEW o \in Final,
         NEW t \in Seq(Frames), NEW N, NEW G, NEW by \in {"call", "disposal"},
         Due(d), by = "disposal" => state[d] = "PENDING", SettleBy(d, o, by),
         UNCHANGED <<cur, fibers, ready, pc, ops, on>>,
         handlers' \in Seq(Plain), dropped' \subseteq Plain,
         stack' = [stack EXCEPT ![f] = t], Rebuilt(stack[f], t, N),
         Range(stack[f]) \subseteq Range(t) \cup G,
         Range(t) \subseteq Range(stack[f]) \cup N,
         \A n \in N : n.at # "transform" /\ FrameAt(n)',
         \A n \in G : n.at # "trigger" /\ (n.at = "transform" => n.d = d),
         Framed("trigger", d)', ~Framed("transform", d)',
         d \in Transformed => d \notin Range(ops[Source[d]]) \/ Due(d)'
  PROVE  Network'
<1> USE DEF Network
<1>1. /\ state' = [state EXCEPT ![d] = o] /\ settled' = [settled EXCEPT ![d] = Append(@, by)]
      /\ o \in Final /\ o # "PENDING"
  BY DEF SettleBy, Final
<1>16. settled' \in [States -> Seq({"call", "disposal"})] /\ CountedAt(d)'
  BY CountedOnce DEF Counted
<1>2. /\ state'[d] = o
      /\ \A e \in States : e # d => state'[e] = state[e] /\ settled'[e] = settled[e]
      /\ state' \in [States -> {"none", "PENDING"} \cup Final]
  BY <1>1 DEF StateTypes
<1>17. ASSUME NEW e \in States, e # d, Due(e)
       PROVE  Due(e)'
  BY <1>2, <1>17 DEF Due, Exposed
<1>3. shutdown' \in Seq(States) /\ Shutting'
  BY ShutdownRemoved
<1>4. StateTypes'
  BY <1>2, <1>3, <1>16 DEF StateTypes
<1>5. /\ stack' \in [Fibers -> Seq(Frames)]
      /\ \A g \in Fibers : \A r \in Range(stack'[g]) :
           r \in N \/ \E h \in Fibers : r \in Range(stack[h])
      /\ \A g \in Fibers : \A r \in Range(stack[g]) :
           r \in G \/ \E h \in Fibers : r \in Range(stack'[h])
  <2>1. /\ stack' \in [Fibers -> Seq(Frames)]
        /\ stack'[f] = t /\ \A g \in Fibers : g # f => stack'[g] = stack[g]
    BY DEF CallTypes
  <2> QED
    BY <2>1
<1>6. CallTypes'
  BY <1>5 DEF CallTypes
<1>7. \A e \in States : state[e] \in Final => state'[e] \in Final
  BY <1>1, <1>2
<1>8. Framing'
  <2>1. ASSUME NEW g \in Fibers, NEW r \in Range(stack'[g])
        PROVE  FrameAt(r)'
    <3>1. CASE r \in N
      BY <3>1
    <3>2. CASE r \notin N
      <4>1. PICK h \in Fibers : r \in Range(stack[h])
        BY <1>5, <3>2
      <4>2. FrameAt(r)
        BY <4>1 DEF Framing
      <4>3. r \in Frames /\ r.d \in States
        <5>1. r \in Frames
          BY <4>1, InList DEF CallTypes
        <5> QED
          BY <5>1 DEF Frames, States
      <4>4. r.at = "transform" => r.d # d
        BY DEF Framed
      <4>5. r.at = "trigger" => state'[r.d] \in Final
        BY <1>7, <4>2, <4>3 DEF FrameAt
      <4>6. r.at = "transform" =>
              r.d \in Transformed /\ Due(r.d)' /\ state'[Source[r.d]] \in Final
        <5>1. r.at = "transform" => r.d \in Transformed /\ Source[r.d] \in States
          BY <4>2, DeferredAssumption DEF FrameAt
        <5> QED
          BY <1>7, <1>17, <4>2, <4>3, <4>4, <5>1 DEF FrameAt
      <4> QED
        BY <4>2, <4>5, <4>6 DEF FrameAt
    <3> QED
      BY <3>1, <3>2
  <2> QED
    BY <2>1 DEF Framing
<1>9. OneTransform'
  BY TransformKept
<1>10. ASSUME NEW x \in Transformed
       PROVE  /\ Framed("transform", x)' => Framed("transform", x)
              /\ x # d /\ Framed("transform", x) => Framed("transform", x)'
  <2> HIDE DEF Network
  <2> QED
    BY <1>5, Zenon DEF Framed
<1>15. ASSUME NEW e \in States, Framed("trigger", e)
       PROVE  Framed("trigger", e)'
  <2> HIDE DEF Network
  <2> QED
    BY <1>5, <1>15, Zenon DEF Framed
<1>11. Listed'
  <2>1. ASSUME NEW c \in States, NEW e \in Range(ops[c])
        PROVE  ListedAt(c, e)'
    <3>1. ListedAt(c, e)
      BY DEF Listed
    <3>3. Active' = Active
      BY DEF Active
    <3>4. e \in Transformed => e \in States
      BY DEF States
    <3>5. e \in Fibers => /\ e \notin Active' /\ e \notin Range(ready')
                           /\ pc'[e] = "await" /\ on'[e] = c
      BY <3>1, <3>3 DEF ListedAt
    <3>6. ASSUME e \in Transformed
          PROVE  c = Source[e] /\ Due(e)' /\ ~Framed("transform", e)'
      <4>1. c = Source[e] /\ Due(e) /\ ~Framed("transform", e)
        BY <3>1, <3>6 DEF ListedAt
      <4>2. CASE e = d
        BY <3>6, <4>1, <4>2
      <4>3. CASE e # d
        BY <1>10, <1>17, <3>4, <3>6, <4>1, <4>3
      <4> QED
        BY <4>2, <4>3
    <3> QED
      BY <3>5, <3>6 DEF ListedAt
  <2>2. ops' = ops
    OBVIOUS
  <2> QED
    BY <2>1, <2>2 DEF Listed
<1>12. Served'
  <2>1. ASSUME NEW c \in States, ops'[c] # <<>>
        PROVE  state'[c] = "PENDING" \/ Framed("trigger", c)'
    <3>1. CASE c = d
      BY <3>1
    <3>2. CASE c # d
      BY <1>2, <1>15, <2>1, <3>2 DEF Served
    <3> QED
      BY <3>1, <3>2
  <2> QED
    BY <2>1 DEF Served
<1>13. Transforms'
  <2>1. ASSUME NEW x \in Transformed, state'[x] = "PENDING"
        PROVE  x \in Range(ops'[Source[x]]) \/ Framed("transform", x)'
    <3>1. x # d /\ state[x] = "PENDING"
      BY <1>1, <1>2, <2>1 DEF States
    <3>2. x \in Range(ops[Source[x]]) \/ Framed("transform", x)
      BY <3>1 DEF Transforms
    <3> QED
      BY <1>10, <3>1, <3>2
  <2> QED
    BY <2>1 DEF Transforms
<1>14. Counted'
  <2>1. ASSUME NEW e \in States PROVE CountedAt(e)'
    <3>1. CASE e = d
      BY <1>16, <3>1
    <3>2. CASE e # d
      BY <1>2, <3>2 DEF Counted, CountedAt, Exposed
    <3> QED
      BY <3>1, <3>2
  <2> QED
    BY <2>1 DEF Counted
<1> QED
  BY <1>3, <1>4, <1>6, <1>8, <1>9, <1>11, <1>12, <1>13, <1>14

\* No state is settled: frames come and go, and operations of combines are
\* listed with pending states or taken.
LEMMA FrameStep ==
  ASSUME Network, NEW f \in Fibers, NEW t \in Seq(Frames), NEW N, NEW G,
         UNCHANGED <<cur, fibers, ready, pc, on, state, shutdown, settled>>,
         handlers' \in Seq(Plain), dropped' \subseteq Plain,
         stack' = [stack EXCEPT ![f] = t], Rebuilt(stack[f], t, N),
         Range(stack[f]) \subseteq Range(t) \cup G,
         Range(t) \subseteq Range(stack[f]) \cup N,
         \A n \in N : n.at # "transform" /\ FrameAt(n),
         \A n \in G : /\ n.at # "transform"
                      /\ n.at = "trigger" => ops'[n.d] = <<>>,
         ops' \in [States -> Seq(Awaiters)],
         \A d \in States :
           /\ Once(ops'[d])
           /\ \A e : e \notin Combined => (e \in Range(ops'[d]) <=> e \in Range(ops[d]))
           /\ ops'[d] # <<>> => ops[d] # <<>> \/ state[d] = "PENDING"
  PROVE  Network'
<1> USE DEF Network
<1>1. StateTypes'
  BY DEF StateTypes
<1>2. /\ stack' \in [Fibers -> Seq(Frames)]
      /\ \A g \in Fibers : \A r \in Range(stack'[g]) :
           r \in N \/ \E h \in Fibers : r \in Range(stack[h])
      /\ \A g \in Fibers : \A r \in Range(stack[g]) :
           r \in G \/ \E h \in Fibers : r \in Range(stack'[h])
  <2>1. /\ stack' \in [Fibers -> Seq(Frames)]
        /\ stack'[f] = t /\ \A g \in Fibers : g # f => stack'[g] = stack[g]
    BY DEF CallTypes
  <2> QED
    BY <2>1
<1>3. CallTypes'
  BY <1>2 DEF CallTypes
<1>4. Framing'
  <2>1. \A r : FrameAt(r)' <=> FrameAt(r)
    BY DEF FrameAt, Due, Exposed
  <2>2. ASSUME NEW g \in Fibers, NEW r \in Range(stack'[g])
        PROVE  FrameAt(r)
    BY <1>2 DEF Framing
  <2> QED
    BY <2>1, <2>2 DEF Framing
<1>5. OneTransform'
  BY TransformKept
<1>6. ASSUME NEW x \in Transformed
      PROVE  Framed("transform", x)' <=> Framed("transform", x)
  <2> HIDE DEF Network
  <2> QED
    BY <1>2, Zenon DEF Framed
<1>7. ASSUME NEW e \in States, Framed("trigger", e), ops'[e] # <<>>
      PROVE  Framed("trigger", e)'
  <2> HIDE DEF Network
  <2>0. PICK h \in Fibers : \E r \in Range(stack[h]) : r.at = "trigger" /\ r.d = e
    BY <1>7, Zenon DEF Framed
  <2>1. PICK r \in Range(stack[h]) : r.at = "trigger" /\ r.d = e
    BY <2>0
  <2>2. r \notin G
    <3>1. \A n \in G : n.at = "trigger" => ops'[n.d] = <<>>
      OBVIOUS
    <3> QED
      BY ONLY <1>7, <2>1, <3>1
  <2>3. \E k \in Fibers : r \in Range(stack'[k])
    BY <1>2, <2>1, <2>2, Zenon
  <2> QED
    BY <2>1, <2>3, Zenon DEF Framed
<1>8. \A x \in Transformed : x \notin Combined /\ Source[x] \in States
  BY DeferredAssumption
<1>9. \A g \in Fibers : g \notin Combined
  BY DeferredAssumption DEF States
<1>10. Listed'
  <2>1. ASSUME NEW c \in States, NEW e \in Range(ops'[c])
        PROVE  ListedAt(c, e)'
    <3>1. Active' = Active
      BY DEF Active
    <3>2. CASE e \in Combined
      <4>1. e \notin Fibers /\ e \notin Transformed
        BY <1>8, <1>9, <3>2
      <4> QED
        BY <4>1 DEF ListedAt
    <3>3. CASE e \notin Combined
      <4>1. ListedAt(c, e)
        BY <3>3 DEF Listed
      <4>2. Due(e)' <=> Due(e)
        BY DEF Due, Exposed
      <4> QED
        BY <1>6, <3>1, <4>1, <4>2 DEF ListedAt
    <3> QED
      BY <3>2, <3>3
  <2> QED
    BY <2>1 DEF Listed
<1>11. Served'
  <2>1. ASSUME NEW c \in States, ops'[c] # <<>>
        PROVE  state'[c] = "PENDING" \/ Framed("trigger", c)'
    BY <1>7, <2>1 DEF Served
  <2> QED
    BY <2>1 DEF Served
<1>12. Transforms'
  <2>1. ASSUME NEW x \in Transformed, state'[x] = "PENDING"
        PROVE  x \in Range(ops'[Source[x]]) \/ Framed("transform", x)'
    BY <1>6, <1>8, <2>1 DEF Transforms
  <2> QED
    BY <2>1 DEF Transforms
<1>13. Shutting' /\ Counted'
  BY DEF Shutting, Counted, CountedAt, Exposed
<1> QED
  BY <1>1, <1>3, <1>4, <1>5, <1>10, <1>11, <1>12, <1>13

\* No call begins or ends: fibers move, wait or go on.
LEMMA MoveStep ==
  ASSUME Network, UNCHANGED <<state, shutdown, settled, stack, handlers, dropped>>,
         on' \in [Fibers -> States \cup {"none"}],
         ops' \in [States -> Seq(Awaiters)],
         \A d \in States :
           /\ Once(ops'[d])
           /\ \A e \in Fibers : e \in Range(ops'[d]) =>
                e \notin Active' /\ e \notin Range(ready') /\ pc'[e] = "await" /\ on'[e] = d
           /\ \A e : e \notin Fibers => (e \in Range(ops'[d]) <=> e \in Range(ops[d]))
           /\ ops'[d] # <<>> => ops[d] # <<>> \/ state[d] = "PENDING"
  PROVE  Network'
<1> USE DEF Network
<1>1. StateTypes' /\ CallTypes'
  BY DEF StateTypes, CallTypes
<1>2. Framing' /\ OneTransform' /\ Shutting' /\ Counted'
  BY DEF Framing, FrameAt, Due, OneTransform, Shutting, Counted, CountedAt, Exposed
<1>3. ASSUME NEW at, NEW e PROVE Framed(at, e)' <=> Framed(at, e)
  BY DEF Framed
<1>4. \A x \in Transformed : x \notin Fibers /\ Source[x] \in States
  BY DeferredAssumption DEF States
<1>5. Listed'
  <2>1. ASSUME NEW c \in States, NEW e \in Range(ops'[c])
        PROVE  ListedAt(c, e)'
    <3>1. CASE e \in Fibers
      BY <1>4, <3>1 DEF ListedAt
    <3>2. CASE e \notin Fibers
      <4>1. ListedAt(c, e)
        BY <3>2 DEF Listed
      <4>2. Due(e)' <=> Due(e)
        BY DEF Due, Exposed
      <4> QED
        BY <1>3, <3>2, <4>1, <4>2 DEF ListedAt
    <3> QED
      BY <3>1, <3>2
  <2> QED
    BY <2>1 DEF Listed
<1>6. Served'
  <2>1. ASSUME NEW c \in States, ops'[c] # <<>>
        PROVE  state'[c] = "PENDING" \/ Framed("trigger", c)'
    BY <1>3, <2>1 DEF Served
  <2> QED
    BY <2>1 DEF Served
<1>7. Transforms'
  <2>1. ASSUME NEW x \in Transformed, state'[x] = "PENDING"
        PROVE  x \in Range(ops'[Source[x]]) \/ Framed("transform", x)'
    BY <1>3, <1>4, <2>1 DEF Transforms
  <2> QED
    BY <2>1 DEF Transforms
<1> QED
  BY <1>1, <1>2, <1>5, <1>6, <1>7

\* The loop of a settled state calls the continuation of a transform.
LEMMA TransformCalled ==
  ASSUME Network, NEW f \in Fibers, NEW d \in States, NEW x \in Transformed,
         state[d] \in Final, ops[d] # <<>>, x = Head(ops[d]), Framed("trigger", d),
         UNCHANGED <<cur, fibers, ready, pc, on, state, shutdown, settled,
                     handlers, dropped>>,
         ops' = [ops EXCEPT ![d] = Tail(@)],
         Push(f, "transform", x)
  PROVE  Network'
<1> USE DEF Network
<1> DEFINE n == [at |-> "transform", d |-> x]
           t == Append(stack[f], n)
<1>1. n \in Frames /\ n.at = "transform" /\ n.d = x
  BY DEF Frames, States
<1>2. /\ ops[d] \in Seq(Awaiters) /\ Once(ops[d])
      /\ x \in Range(ops[d])
      /\ Tail(ops[d]) \in Seq(Awaiters) /\ Once(Tail(ops[d]))
      /\ Range(ops[d]) = Range(Tail(ops[d])) \cup {x}
      /\ x \notin Range(Tail(ops[d]))
  <2>1. ops[d] \in Seq(Awaiters) /\ Once(ops[d]) /\ x \notin Combined
    BY DeferredAssumption DEF StateTypes, Listed
  <2> QED
    BY <2>1, OnceTail
<1>3. d = Source[x] /\ Due(x) /\ ~Framed("transform", x)
  BY <1>2 DEF Listed, ListedAt
<1>4. /\ ops' \in [States -> Seq(Awaiters)] /\ ops'[d] = Tail(ops[d])
      /\ \A c \in States : c # d => ops'[c] = ops[c]
  BY <1>2 DEF StateTypes
<1>5. StateTypes'
  BY <1>4 DEF StateTypes
<1>6. stack[f] \in Seq(Frames)
  BY DEF CallTypes
<1>7. t \in Seq(Frames) /\ Range(t) = Range(stack[f]) \cup {n}
  BY <1>1, <1>6, AppendList
<1>8. stack' = [stack EXCEPT ![f] = t]
  BY DEF Push
<1> HIDE DEF t, n
<1>9. /\ stack' \in [Fibers -> Seq(Frames)]
      /\ stack'[f] = t /\ \A g \in Fibers : g # f => stack'[g] = stack[g]
  BY <1>7, <1>8 DEF CallTypes
<1>10. CallTypes'
  BY <1>9 DEF CallTypes
<1>11. /\ \A g \in Fibers : \A r \in Range(stack'[g]) :
            r = n \/ \E h \in Fibers : r \in Range(stack[h])
       /\ \A g \in Fibers : Range(stack[g]) \subseteq Range(stack'[g])
       /\ n \in Range(stack'[f])
  BY <1>7, <1>9
<1>12. Framing'
  <2>1. \A r : FrameAt(r)' <=> FrameAt(r)
    BY DEF FrameAt, Due, Exposed
  <2>2. FrameAt(n)
    BY <1>1, <1>3 DEF FrameAt
  <2>3. ASSUME NEW g \in Fibers, NEW r \in Range(stack'[g])
        PROVE  FrameAt(r)
    BY <1>11, <2>2 DEF Framing
  <2> QED
    BY <2>1, <2>3 DEF Framing
<1>13. OneTransform'
  <2>1. /\ [at |-> "transform", d |-> x] \in Frames
        /\ stack' = [stack EXCEPT ![f] = Append(@, [at |-> "transform", d |-> x])]
    BY <1>1 DEF n, Push
  <2> QED
    BY <1>3, <2>1, TransformPushed
<1>14. ASSUME NEW y \in Transformed
       PROVE  /\ Framed("transform", y)' <=> Framed("transform", y) \/ y = x
  <2> HIDE DEF Network
  <2>1. Framed("transform", x)'
    BY <1>1, <1>11, Zenon DEF Framed
  <2>2. ASSUME Framed("transform", y) PROVE Framed("transform", y)'
    BY <1>11, <2>2 DEF Framed
  <2>3. ASSUME Framed("transform", y)', y # x PROVE Framed("transform", y)
    BY <1>1, <1>11, <2>3, Zenon DEF Framed
  <2> QED
    BY <2>1, <2>2, <2>3
<1>15. ASSUME NEW e \in States, Framed("trigger", e)
       PROVE  Framed("trigger", e)'
  BY <1>11, <1>15 DEF Framed
<1>16. Listed'
  <2>1. ASSUME NEW c \in States, NEW e \in Range(ops'[c])
        PROVE  ListedAt(c, e)'
    <3>1. Active' = Active
      BY DEF Active
    <3>2. e \in Range(ops[c]) /\ (c = d => e # x)
      BY <1>2, <1>4
    <3>3. ListedAt(c, e)
      BY <3>2 DEF Listed
    <3>4. e # x
      BY <1>3, <3>2, <3>3 DEF ListedAt
    <3>5. Due(e)' <=> Due(e)
      BY DEF Due, Exposed
    <3> QED
      BY <1>14, <3>1, <3>3, <3>4, <3>5 DEF ListedAt
  <2>2. \A c \in States : Once(ops'[c])
    BY <1>2, <1>4 DEF Listed
  <2> QED
    BY <2>1, <2>2 DEF Listed
<1>17. Served'
  <2>1. ASSUME NEW c \in States, ops'[c] # <<>>
        PROVE  state'[c] = "PENDING" \/ Framed("trigger", c)'
    BY <1>4, <1>15, <2>1 DEF Served
  <2> QED
    BY <2>1 DEF Served
<1>18. Transforms'
  <2>1. ASSUME NEW y \in Transformed, state'[y] = "PENDING"
        PROVE  y \in Range(ops'[Source[y]]) \/ Framed("transform", y)'
    <3>1. CASE y = x
      BY <1>14, <3>1
    <3>2. CASE y # x
      <4>1. y \in Range(ops[Source[y]]) \/ Framed("transform", y)
        BY <2>1 DEF Transforms
      <4>2. Source[y] \in States
        BY DeferredAssumption
      <4> QED
        BY <1>2, <1>4, <1>14, <3>2, <4>1, <4>2
    <3> QED
      BY <3>1, <3>2
  <2> QED
    BY <2>1 DEF Transforms
<1>19. Shutting' /\ Counted'
  BY DEF Shutting, Counted, CountedAt, Exposed
<1> QED
  BY <1>5, <1>10, <1>12, <1>13, <1>16, <1>17, <1>18, <1>19

\* A state is created: nothing refers to it yet, and it is the last to be shut
\* down.
LEMMA Created ==
  ASSUME Network, NEW d \in States \ Outside, state[d] = "none",
         d \in Transformed => Source[d] # d,
         state' = [state EXCEPT ![d] = "PENDING"],
         shutdown' = Append(shutdown, d), UNCHANGED settled
  PROVE  /\ state' \in [States -> {"none", "PENDING"} \cup Final]
         /\ state'[d] = "PENDING" /\ \A e \in States : e # d => state'[e] = state[e]
         /\ shutdown' \in Seq(States) /\ Shutting' /\ Counted'
         /\ ~Framed("transform", d)
         /\ d \in Transformed => \A c \in States : d \notin Range(ops[c])
<1> USE DEF Network
<1>1. /\ state' \in [States -> {"none", "PENDING"} \cup Final]
      /\ state'[d] = "PENDING" /\ \A e \in States : e # d => state'[e] = state[e]
  BY DEF StateTypes
<1>2. Counted'
  <2>1. \A e \in States : state'[e] \in Final <=> state[e] \in Final
    BY <1>1 DEF Final
  <2> QED
    BY <2>1 DEF Counted, CountedAt, Exposed
<1>12. ~Due(d)
  BY DEF Due, Final
<1>3. ~Framed("transform", d)
  BY <1>12 DEF Framed, Framing, FrameAt
<1>4. ASSUME d \in Transformed, NEW c \in States PROVE d \notin Range(ops[c])
  BY <1>4, <1>12 DEF Listed, ListedAt
<1>5. /\ shutdown' \in Seq(States) /\ IsInjective(shutdown')
      /\ Range(shutdown') = Range(shutdown) \cup {d}
  <2>1. d \notin Range(shutdown) /\ IsInjective(shutdown) /\ shutdown \in Seq(States)
    BY DEF Shutting, StateTypes
  <2> QED
    BY <2>1, AppendList
<1>6. \A e \in States : e \in Range(shutdown') <=> state'[e] = "PENDING" /\ e \notin Outside
  BY <1>1, <1>5 DEF Shutting
<1>7. ~Framed("trigger", d)
  BY DEF Framed, Framing, FrameAt, Final
<1>8. ops[d] = <<>>
  BY <1>7 DEF Served
<1>9. ASSUME NEW x \in Transformed, Source[x] = d, x # d PROVE x \notin Range(shutdown)
  <2>1. SUFFICES ASSUME x \in Range(shutdown) PROVE FALSE
    OBVIOUS
  <2>2. x \in States
    BY DEF States
  <2>3. state[x] = "PENDING"
    BY <2>1, <2>2 DEF Shutting
  <2>4. x \notin Range(ops[d])
    BY <1>8, EmptyList
  <2>5. Framed("transform", x)
    BY <1>9, <2>3, <2>4 DEF Transforms
  <2>6. state[d] \in Final
    BY <1>9, <2>5 DEF Framed, Framing, FrameAt
  <2> QED
    BY <2>6 DEF Final
<1>10. ASSUME NEW x \in Transformed, NEW i \in 1..Len(shutdown'), NEW j \in 1..Len(shutdown'),
              shutdown'[i] = Source[x], shutdown'[j] = x
       PROVE  i < j
  <2>1. shutdown \in Seq(States)
    BY DEF StateTypes
  <2>2. /\ Len(shutdown) \in Nat /\ Len(shutdown') = Len(shutdown) + 1
        /\ shutdown'[Len(shutdown) + 1] = d
        /\ \A k \in 1..Len(shutdown) : shutdown'[k] = shutdown[k]
    BY <2>1, AppendAt
  <2>3. \A k \in 1..Len(shutdown) : shutdown[k] \in Range(shutdown)
    BY <2>1, InList
  <2>4. CASE j \in 1..Len(shutdown) /\ i \in 1..Len(shutdown)
    BY <1>10, <2>2, <2>4 DEF Shutting
  <2>5. CASE j \notin 1..Len(shutdown)
    <3>1. j = Len(shutdown) + 1 /\ x = d
      BY <1>10, <2>2, <2>5
    <3>2. i # Len(shutdown) + 1
      BY <1>10, <2>2, <3>1
    <3> QED
      BY <2>2, <3>1, <3>2
  <2>6. CASE j \in 1..Len(shutdown) /\ i \notin 1..Len(shutdown)
    <3>1. i = Len(shutdown) + 1 /\ Source[x] = d
      BY <1>10, <2>2, <2>6
    <3>2. x \in Range(shutdown)
      BY <1>10, <2>2, <2>3, <2>6
    <3>3. x # d
      <4>1. d \notin Range(shutdown)
        BY DEF Shutting
      <4> QED
        BY <3>2, <4>1
    <3> QED
      BY <1>9, <3>1, <3>2, <3>3
  <2> QED
    BY <2>4, <2>5, <2>6
<1>11. Shutting'
  BY <1>5, <1>6, <1>10 DEF Shutting
<1> QED
  BY <1>1, <1>2, <1>3, <1>4, <1>5, <1>11

\* The rest of the network after that: a frame n may be pushed, and a transform
\* is listed or called.
LEMMA CreateStep ==
  ASSUME Network, NEW f \in Fibers, NEW d \in States \ Outside, NEW t \in Seq(Frames), NEW n,
         state[d] = "none", d \in Transformed => Source[d] # d,
         state' = [state EXCEPT ![d] = "PENDING"], shutdown' = Append(shutdown, d),
         UNCHANGED <<cur, fibers, ready, pc, on, settled, handlers, dropped>>,
         stack' = [stack EXCEPT ![f] = t],
         Range(stack[f]) \subseteq Range(t), Range(t) \subseteq Range(stack[f]) \cup {n},
         FrameAt(n)', n.at = "transform" => n.d = d, OneTransform',
         ops' \in [States -> Seq(Awaiters)],
         \A c \in States :
           /\ Once(ops'[c])
           /\ \A e : e # d \/ e \in Combined => (e \in Range(ops'[c]) <=> e \in Range(ops[c]))
           /\ d \in Transformed /\ d \in Range(ops'[c])
                => c = Source[d] /\ ~Framed("transform", d)'
           /\ ops'[c] # <<>> => ops[c] # <<>> \/ state'[c] = "PENDING",
         d \in Transformed => d \in Range(ops'[Source[d]]) \/ Framed("transform", d)'
  PROVE  Network'
<1> USE DEF Network
<1>1. /\ state' \in [States -> {"none", "PENDING"} \cup Final]
      /\ state'[d] = "PENDING" /\ \A e \in States : e # d => state'[e] = state[e]
      /\ shutdown' \in Seq(States) /\ Shutting' /\ Counted'
      /\ d \in Transformed => \A c \in States : d \notin Range(ops[c])
  BY Created
<1>2. StateTypes'
  BY <1>1 DEF StateTypes
<1>3. /\ stack' \in [Fibers -> Seq(Frames)]
      /\ \A g \in Fibers : \A r \in Range(stack'[g]) :
           r = n \/ \E h \in Fibers : r \in Range(stack[h])
      /\ \A g \in Fibers : Range(stack[g]) \subseteq Range(stack'[g])
  <2>1. /\ stack' \in [Fibers -> Seq(Frames)]
        /\ stack'[f] = t /\ \A g \in Fibers : g # f => stack'[g] = stack[g]
    BY DEF CallTypes
  <2> QED
    BY <2>1
<1>4. CallTypes'
  BY <1>3 DEF CallTypes
<1>5. Framing'
  <2>1. ASSUME NEW g \in Fibers, NEW r \in Range(stack'[g])
        PROVE  FrameAt(r)'
    <3>1. CASE r = n
      BY <3>1
    <3>2. CASE r # n
      <4>1. PICK h \in Fibers : r \in Range(stack[h])
        BY <1>3, <3>2
      <4>2. FrameAt(r)
        BY <4>1 DEF Framing
      <4>3. r \in Frames /\ r.d \in States
        <5>1. r \in Frames
          BY <4>1, InList DEF CallTypes
        <5> QED
          BY <5>1 DEF Frames, States
      <4>4. \A e \in States : state[e] \in Final \/ state[e] = "PENDING" => state'[e] = state[e]
        BY <1>1 DEF Final
      <4>5. r.at = "transform" => r.d \in Transformed /\ Source[r.d] \in States
        BY <4>2, DeferredAssumption DEF FrameAt
      <4>6. Due(r.d) => Due(r.d)'
        BY <4>3, <4>4 DEF Due, Exposed
      <4> QED
        BY <4>2, <4>3, <4>4, <4>5, <4>6 DEF FrameAt
    <3> QED
      BY <3>1, <3>2
  <2> QED
    BY <2>1 DEF Framing
<1>6. ASSUME NEW x \in Transformed, x # d
      PROVE  Framed("transform", x)' <=> Framed("transform", x)
  <2> HIDE DEF Network
  <2>1. ASSUME Framed("transform", x) PROVE Framed("transform", x)'
    BY <1>3, <2>1 DEF Framed
  <2>2. ASSUME Framed("transform", x)' PROVE Framed("transform", x)
    <3>0. PICK g \in Fibers : \E r \in Range(stack'[g]) : r.at = "transform" /\ r.d = x
      BY <2>2, Zenon DEF Framed
    <3>1. PICK r \in Range(stack'[g]) : r.at = "transform" /\ r.d = x
      BY <3>0
    <3>2. r # n
      BY <1>6, <3>1
    <3> QED
      BY <1>3, <3>1, <3>2, Zenon DEF Framed
  <2> QED
    BY <2>1, <2>2
<1>7. ASSUME NEW e \in States, Framed("trigger", e)
      PROVE  Framed("trigger", e)'
  BY <1>3, <1>7 DEF Framed
<1>8. /\ \A x \in Transformed : x \in States /\ x \notin Combined /\ x \notin Fibers /\ Source[x] \in States
      /\ d \notin Fibers
  BY DeferredAssumption DEF States
<1>9. Listed'
  <2>1. ASSUME NEW c \in States, NEW e \in Range(ops'[c])
        PROVE  ListedAt(c, e)'
    <3>1. Active' = Active
      BY DEF Active
    <3>2. CASE e = d
      BY <1>1, <1>8, <3>2 DEF ListedAt, Due
    <3>3. CASE e # d
      <4>1. ListedAt(c, e)
        BY <3>3 DEF Listed
      <4>2. e \in Transformed => (Due(e) => Due(e)')
        BY <1>1, <1>8, <3>3 DEF Due, Exposed
      <4> QED
        BY <1>1, <1>6, <1>8, <3>1, <3>3, <4>1, <4>2 DEF ListedAt
    <3> QED
      BY <3>2, <3>3
  <2> QED
    BY <2>1 DEF Listed
<1>10. Served'
  <2>1. ASSUME NEW c \in States, ops'[c] # <<>>
        PROVE  state'[c] = "PENDING" \/ Framed("trigger", c)'
    <3>1. ops[c] # <<>> \/ state'[c] = "PENDING"
      BY <2>1
    <3>2. ops[c] # <<>> => state[c] = "PENDING" \/ Framed("trigger", c)
      BY DEF Served
    <3>3. state[c] = "PENDING" => state'[c] = "PENDING"
      BY <1>1
    <3> QED
      BY <1>7, <3>1, <3>2, <3>3
  <2> QED
    BY <2>1 DEF Served
<1>11. Transforms'
  <2>1. ASSUME NEW x \in Transformed, state'[x] = "PENDING"
        PROVE  x \in Range(ops'[Source[x]]) \/ Framed("transform", x)'
    <3>1. CASE x = d
      BY <3>1
    <3>2. CASE x # d
      <4>1. state[x] = "PENDING"
        BY <1>1, <1>8, <2>1, <3>2
      <4>2. x \in Range(ops[Source[x]]) \/ Framed("transform", x)
        BY <4>1 DEF Transforms
      <4> QED
        BY <1>6, <1>8, <3>2, <4>2
    <3> QED
      BY <3>1, <3>2
  <2> QED
    BY <2>1 DEF Transforms
<1> QED
  BY <1>1, <1>2, <1>4, <1>5, <1>9, <1>10, <1>11

\* Settling a state that no transform makes.
LEMMA SettleDirect ==
  ASSUME Network, NEW f \in Fibers, NEW d \in States, NEW o \in Final,
         NEW t \in Seq(Frames), NEW N, NEW G,
         d \notin Transformed, state[d] = "PENDING", Settle(d, o),
         UNCHANGED <<cur, fibers, ready, pc, ops, on>>,
         handlers' \in Seq(Plain), dropped' \subseteq Plain,
         stack' = [stack EXCEPT ![f] = t], Rebuilt(stack[f], t, N),
         Range(stack[f]) \subseteq Range(t) \cup G,
         Range(t) \subseteq Range(stack[f]) \cup N,
         \E r \in Range(t) : r.at = "trigger" /\ r.d = d,
         \A n \in N : \/ n.at = "trigger" /\ n.d = d
                      \/ n.at = "countdown" /\ n.d \in Combined,
         \A n \in G : n.at \notin {"trigger", "transform"}
  PROVE  Network'
<1>7. SettleBy(d, o, "call") /\ Due(d)
  BY DEF Settle, SettleBy, Due
<1>1. state'[d] \in Final
  BY DEF Network, StateTypes, Settle
<1>2. \A n \in N : n.at # "transform" /\ FrameAt(n)'
  BY <1>1 DEF FrameAt
<1>3. stack'[f] = t /\ \A g \in Fibers : g # f => stack'[g] = stack[g]
  BY DEF Network, CallTypes
<1>4. Framed("trigger", d)'
  BY <1>3 DEF Framed
<1>5. ~Framed("transform", d)'
  <2>1. SUFFICES ASSUME NEW g \in Fibers, NEW m \in Range(stack'[g]),
                        m.at = "transform", m.d = d
                 PROVE  FALSE
    BY DEF Framed
  <2>2. m \in Range(stack[g])
    BY <1>2, <1>3, <2>1
  <2> QED
    BY <2>1, <2>2 DEF Network, Framing, FrameAt
<1>6. \A n \in G : n.at # "trigger" /\ (n.at = "transform" => n.d = d)
  OBVIOUS
<1> QED
  BY <1>2, <1>4, <1>5, <1>6, <1>7, SettleStep

-----------------------------------------------------------------------------
(***************************************************************************)
(* The scheduler's part of the invariant.                                  *)
(***************************************************************************)

\* A step that moves no fiber.
LEMMA SchedSame ==
  ASSUME SchedTypes, UNCHANGED <<cur, fibers, ready, status, pc, op, defer,
                                 callbacks, disposed>>
  PROVE  SchedTypes' /\ Active' = Active
  BY DEF SchedTypes, FiberLists, Single, Active

\* The calls of the running fiber change.
LEMMA StackedCall ==
  ASSUME SchedTypes, CallTypes, Stacked, NEW f \in Fibers, NEW t, cur = f,
         pc[f] \in {"run", "cancel", "dispose"},
         UNCHANGED <<cur, fibers, pc, disposed>>,
         stack' = [stack EXCEPT ![f] = t]
  PROVE  Stacked'
<1>1. \A g \in Fibers : g # f => stack'[g] = stack[g]
  BY DEF CallTypes
<1>2. f \in Active /\ Active' = Active
  BY DEF Active
<1> QED
  BY <1>1, <1>2 DEF Stacked

\* The running fiber is inside a call, or about to make one.
LEMMA CallerRuns ==
  ASSUME SchedTypes, CallTypes, Stacked, NEW f \in Fibers, cur = f,
         stack[f] # <<>> \/ pc[f] = "run"
  PROVE  pc[f] \in {"run", "cancel", "dispose"} /\ stack[f] \in Seq(Frames)
  BY DEF Stacked, CallTypes

\* No handler is concerned.
LEMMA HandlersKept ==
  ASSUME Handlers, handlers \in Seq(Plain), UNCHANGED <<handlers, dropped, disposed>>,
         disposed \/ \A d \in Plain : state[d] = "PENDING" => state'[d] = "PENDING"
  PROVE  Handlers'
<1>1. Range(handlers) \subseteq Plain
  BY InList
<1> QED
  BY <1>1 DEF Handlers, HandlersPending

\* The handler of a Deferred is removed when the Deferred is settled or
\* destroyed.
LEMMA HandlerRemoved ==
  ASSUME Handlers, handlers \in Seq(Plain), NEW d, cleanup_cancel(d),
         UNCHANGED disposed, dropped' \subseteq dropped \cup {d},
         \A e \in Plain : e # d => state'[e] = state[e]
  PROVE  Handlers' /\ handlers' \in Seq(Plain)
<1>1. /\ handlers' \in Seq(Plain) /\ IsInjective(handlers')
      /\ Range(handlers') = Range(handlers) \ {d} /\ Range(handlers) \subseteq Plain
  BY RemoveList, InList DEF Handlers, cleanup_cancel
<1> QED
  BY <1>1 DEF Handlers, HandlersPending

-----------------------------------------------------------------------------
(***************************************************************************)
(* Each operation preserves the invariant: settling.                       *)
(***************************************************************************)

\* Frames without a position.
LEMMA SimpleFrame ==
  ASSUME NEW at \in {"trigger", "combine", "countdown", "transform", "handler"},
         NEW d \in States
  PROVE  /\ [at |-> at, d |-> d] \in Frames
         /\ [at |-> at, d |-> d].at = at /\ [at |-> at, d |-> d].d = d
  BY DEF Frames

\* Whoever makes a library call runs.
LEMMA CallRuns ==
  ASSUME IInv, NEW f, CallFrom(f)
  PROVE  /\ f \in Fibers /\ cur = f
         /\ pc[f] \in {"run", "cancel", "dispose"} /\ stack[f] \in Seq(Frames)
<1>1. f \in Fibers /\ cur = f /\ (pc[f] = "run" \/ stack[f] # <<>>)
  BY DEF CallFrom, UserCode
<1> QED
  BY <1>1, CallerRuns DEF IInv, Network

\* A pending Deferred, or a task, is settled by a call of user code.
LEMMA CallSettles ==
  ASSUME IInv, NEW f, NEW d \in States, NEW o \in Final, CallFrom(f),
         d \notin Transformed, state[d] = "PENDING", Settle(d, o),
         Push(f, "trigger", d),
         UNCHANGED <<cur, fibers, ready, status, pc, op, defer, callbacks, disposed, ops, on>>,
         dropped' \subseteq Plain, Handlers', handlers' \in Seq(Plain)
  PROVE  IInv'
<1> DEFINE n == [at |-> "trigger", d |-> d]
           t == Append(stack[f], n)
<1>1. /\ f \in Fibers /\ cur = f
      /\ pc[f] \in {"run", "cancel", "dispose"} /\ stack[f] \in Seq(Frames)
  BY CallRuns
<1>2. n \in Frames /\ n.at = "trigger" /\ n.d = d
  BY SimpleFrame
<1>3. stack' = [stack EXCEPT ![f] = t]
  BY DEF Push
<1>5. Handlers' /\ handlers' \in Seq(Plain)
  OBVIOUS
<1> HIDE DEF n
<1>7. /\ t \in Seq(Frames) /\ Range(t) = Range(stack[f]) \cup {n}
      /\ Rebuilt(stack[f], t, {n})
  BY <1>1, <1>2, StackShapes
<1> HIDE DEF t
<1>8. Network'
  <2> DEFINE N == {n}
             G == {}
  <2>1. \A m : m \in N <=> m = n
    OBVIOUS
  <2>2. \A m : m \notin G
    OBVIOUS
  <2>3. Rebuilt(stack[f], t, N)
    BY <1>7
  <2> HIDE DEF N, G
  <2>4. Range(stack[f]) \subseteq Range(t) \cup G /\ Range(t) \subseteq Range(stack[f]) \cup N
    BY <1>7, <2>1
  <2>5. \E r \in Range(t) : r.at = "trigger" /\ r.d = d
    BY <1>2, <1>7
  <2>6. \A m \in N : \/ m.at = "trigger" /\ m.d = d
                     \/ m.at = "countdown" /\ m.d \in Combined
    BY <1>2, <2>1
  <2>7. \A m \in G : m.at \notin {"trigger", "transform"}
    BY <2>2
  <2>8. Network /\ UNCHANGED <<cur, fibers, ready, pc, ops, on>>
    BY DEF IInv
  <2> HIDE DEF IInv
  <2> QED
    BY <1>1, <1>3, <1>5, <1>7, <2>3, <2>4, <2>5, <2>6, <2>7, <2>8, SettleDirect
<1>9. Stacked'
  BY <1>1, <1>3, StackedCall DEF IInv, Network
<1>10. SchedTypes'
  BY SchedSame DEF IInv
<1> QED
  BY <1>5, <1>8, <1>9, <1>10 DEF IInv

\* Nothing but the bounds changes.
LEMMA NothingSettled ==
  ASSUME IInv, UNCHANGED <<cur, fibers, ready, status, pc, op, defer, callbacks,
                           disposed, state, ops, shutdown, on, stack, settled>>,
         handlers' \in Seq(Plain), dropped' \subseteq Plain, Handlers'
  PROVE  IInv'
<1>1. SchedTypes' /\ Active' = Active
  BY SchedSame DEF IInv
<1>2. Stacked'
  BY <1>1 DEF IInv, Stacked
<1>3. Network'
  <2>1. StateTypes' /\ CallTypes' /\ OneTransform'
    BY DEF IInv, Network, StateTypes, CallTypes, OneTransform
  <2>3. Shutting' /\ Counted'
    BY DEF IInv, Network, Shutting, Counted, CountedAt, Exposed
  <2>4. Framing'
    <3>1. \A r : FrameAt(r)' <=> FrameAt(r)
      BY DEF FrameAt, Due, Exposed
    <3> QED
      BY <3>1 DEF IInv, Network, Framing
  <2>2. Listed' /\ Served' /\ Transforms'
    BY <1>1 DEF IInv, Network, Listed, ListedAt, Due, Exposed, Served, Transforms, Framed
  <2> QED
    BY <2>1, <2>2, <2>3, <2>4 DEF Network
<1> QED
  BY <1>1, <1>2, <1>3 DEF IInv

\* Deferred::resolve and Deferred::fail.
LEMMA ResolveInv ==
  ASSUME IInv, NEW f \in Fibers, NEW d \in States, NEW o \in Final, resolve(f, d, o)
  PROVE  IInv'
<1>1. d \notin Transformed /\ dropped' \subseteq dropped \cup {d} /\ dropped' \subseteq Plain
  BY DeferredAssumption DEF resolve, Reachable, IInv, Network, CallTypes
<1>2. CASE state[d] = "PENDING"
  <2>1. Settle(d, o) /\ cleanup_cancel(d) /\ UNCHANGED disposed
    BY <1>2 DEF resolve
  <2>2. \A e \in Plain : e # d => state'[e] = state[e]
    BY <2>1 DEF Settle, IInv, Network, StateTypes, States
  <2>3. Handlers' /\ handlers' \in Seq(Plain)
    BY <1>1, <2>1, <2>2, HandlerRemoved DEF IInv, Network, CallTypes
  <2> QED
    BY <1>1, <1>2, <2>1, <2>3, CallSettles DEF resolve
<1>3. CASE state[d] # "PENDING"
  <2>1. UNCHANGED <<cur, fibers, ready, status, pc, op, defer, callbacks, disposed,
                    state, ops, shutdown, on, stack, settled, handlers, dropped>>
    BY <1>3 DEF resolve
  <2>2. Handlers' /\ handlers' \in Seq(Plain)
    BY <2>1, HandlersKept DEF IInv, Network, CallTypes
  <2> QED
    BY <1>1, <2>1, <2>2, NothingSettled
<1> QED
  BY <1>2, <1>3

\* The destruction of a Deferred.
LEMMA DestroyInv ==
  ASSUME IInv, NEW f \in Fibers, NEW d \in Plain, async_deferred_object_destroy(f, d)
  PROVE  IInv'
<1>1. /\ d \in States /\ d \notin Transformed
      /\ dropped' \subseteq dropped \cup {d} /\ dropped' \subseteq Plain
  BY DeferredAssumption DEF async_deferred_object_destroy, IInv, Network, CallTypes, States
<1>2. CASE state[d] = "PENDING"
  <2>1. "FAILED" \in Final
    BY DEF Final
  <2>2. Settle(d, "FAILED") /\ cleanup_cancel(d) /\ UNCHANGED disposed
    BY <1>2 DEF async_deferred_object_destroy
  <2>3. \A e \in Plain : e # d => state'[e] = state[e]
    BY <2>2 DEF Settle, IInv, Network, StateTypes, States
  <2>4. Handlers' /\ handlers' \in Seq(Plain)
    BY <1>1, <2>2, <2>3, HandlerRemoved DEF IInv, Network, CallTypes
  <2> QED
    BY <1>1, <1>2, <2>1, <2>2, <2>4, CallSettles DEF async_deferred_object_destroy
<1>3. CASE state[d] # "PENDING"
  <2>1. UNCHANGED <<cur, fibers, ready, status, pc, op, defer, callbacks, disposed,
                    state, ops, shutdown, on, stack, settled>>
    BY <1>3 DEF async_deferred_object_destroy
  <2>2. cleanup_cancel(d) /\ \A e \in Plain : e # d => state'[e] = state[e]
    BY <2>1 DEF async_deferred_object_destroy
  <2>3. Handlers' /\ handlers' \in Seq(Plain)
    BY <1>1, <2>1, <2>2, HandlerRemoved DEF IInv, Network, CallTypes
  <2> QED
    BY <1>1, <2>1, <2>3, NothingSettled
<1> QED
  BY <1>2, <1>3

\* The end of a task.
LEMMA TaskEndsInv ==
  ASSUME IInv, NEW f \in Fibers, NEW u \in Outside, NEW o \in Final, TaskEnds(f, u, o)
  PROVE  IInv'
<1>1. /\ u \in States /\ u \notin Transformed /\ u \notin Plain
      /\ CallFrom(f) /\ state[u] = "PENDING" /\ Settle(u, o) /\ Push(f, "trigger", u)
      /\ UNCHANGED <<cur, fibers, ready, status, pc, op, defer, callbacks, disposed,
                     ops, on, handlers, dropped>>
  BY DeferredAssumption DEF TaskEnds, States
<1>2. \A e \in Plain : state'[e] = state[e]
  BY <1>1 DEF Settle, IInv, Network, StateTypes, States
<1>3. handlers' \in Seq(Plain) /\ dropped' \subseteq Plain /\ Handlers'
  BY <1>1, <1>2, HandlersKept DEF IInv, Network, CallTypes
<1> QED
  BY <1>1, <1>3, CallSettles

\* The running call is about the state it was made for.
LEMMA InCallFrame ==
  ASSUME IInv, NEW f \in Fibers, NEW at, InCall(f, at)
  PROVE  /\ cur = f /\ stack[f] # <<>> /\ stack[f] \in Seq(Frames)
         /\ Last(stack[f]) \in Frames /\ Last(stack[f]) \in Range(stack[f])
         /\ Last(stack[f]).at = at /\ Callee(f) = Last(stack[f]).d
         /\ Callee(f) \in States /\ FrameAt(Last(stack[f]))
<1>1. cur = f /\ stack[f] # <<>> /\ stack[f] \in Seq(Frames)
  BY DEF InCall, IInv, Network, CallTypes
<1>2. Last(stack[f]) \in Frames /\ Last(stack[f]) \in Range(stack[f])
  BY <1>1, FrontList
<1>3. Last(stack[f]).at = at /\ Callee(f) = Last(stack[f]).d
  BY DEF InCall, Callee
<1>4. Callee(f) \in States
  BY <1>2, <1>3 DEF Frames, States
<1>5. FrameAt(Last(stack[f]))
  BY <1>2 DEF IInv, Network, Framing
<1> QED
  BY <1>1, <1>2, <1>3, <1>4, <1>5

\* A step of a library call keeps the scheduler's part and the handlers.
LEMMA LibraryStep ==
  ASSUME IInv, NEW f \in Fibers, NEW t, cur = f, stack[f] # <<>>,
         UNCHANGED <<cur, fibers, ready, status, pc, op, defer, callbacks, disposed,
                     handlers, dropped>>,
         stack' = [stack EXCEPT ![f] = t],
         \A d \in Plain : state[d] = "PENDING" => state'[d] = "PENDING",
         Network'
  PROVE  IInv'
<1>1. pc[f] \in {"run", "cancel", "dispose"}
  BY CallerRuns DEF IInv, Network
<1>2. Stacked'
  BY <1>1, StackedCall DEF IInv, Network
<1>3. SchedTypes'
  BY SchedSame DEF IInv
<1>4. Handlers'
  BY HandlersKept DEF IInv, Network, CallTypes
<1> QED
  BY <1>2, <1>3, <1>4 DEF IInv

\* combine_cb settles the state of its combine.
LEMMA CombineSettles ==
  ASSUME IInv, NEW f \in Fibers, NEW c \in Combined, cur = f, stack[f] # <<>>,
         state[c] = "PENDING", Settle(c, "FAILED"),
         UNCHANGED <<schedVars, ops, handlers, dropped, on>>,
         NEW t \in Seq(Frames), NEW N, NEW G,
         stack' = [stack EXCEPT ![f] = t], Rebuilt(stack[f], t, N),
         Range(stack[f]) \subseteq Range(t) \cup G,
         Range(t) \subseteq Range(stack[f]) \cup N,
         \E r \in Range(t) : r.at = "trigger" /\ r.d = c,
         \A n \in N : \/ n.at = "trigger" /\ n.d = c
                      \/ n.at = "countdown" /\ n.d \in Combined,
         \A n \in G : n.at \notin {"trigger", "transform"}
  PROVE  IInv'
<1>1. /\ c \in States /\ c \notin Transformed /\ "FAILED" \in Final
      /\ Network /\ handlers' \in Seq(Plain) /\ dropped' \subseteq Plain
  BY DeferredAssumption DEF States, Final, IInv, Network, CallTypes
<1>2. UNCHANGED <<cur, fibers, ready, pc, ops, on>>
  BY DEF schedVars
<1> HIDE DEF IInv
<1>3. Network'
  BY <1>1, <1>2, SettleDirect
<1>4. \A d \in Plain : state[d] = "PENDING" => state'[d] = "PENDING"
  BY <1>1, DeferredAssumption DEF Settle, Network, StateTypes, States
<1>5. UNCHANGED <<cur, fibers, ready, status, pc, op, defer, callbacks, disposed,
                  handlers, dropped>>
  BY DEF schedVars
<1> QED
  BY <1>3, <1>4, <1>5, LibraryStep

\* combine_cb or transform_cb leaves or replaces its frame without settling.
LEMMA FrameLeft ==
  ASSUME IInv, NEW f \in Fibers, cur = f, stack[f] # <<>>,
         UNCHANGED <<schedVars, handlers, dropped, on, state, shutdown, settled>>,
         NEW t \in Seq(Frames), NEW N, NEW G,
         stack' = [stack EXCEPT ![f] = t], Rebuilt(stack[f], t, N),
         Range(stack[f]) \subseteq Range(t) \cup G,
         Range(t) \subseteq Range(stack[f]) \cup N,
         \A n \in N : n.at # "transform" /\ FrameAt(n),
         \A n \in G : n.at # "transform" /\ (n.at = "trigger" => ops'[n.d] = <<>>),
         ops' \in [States -> Seq(Awaiters)],
         \A d \in States :
           /\ Once(ops'[d])
           /\ \A e : e \notin Combined => (e \in Range(ops'[d]) <=> e \in Range(ops[d]))
           /\ ops'[d] # <<>> => ops[d] # <<>> \/ state[d] = "PENDING"
  PROVE  IInv'
<1>1. Network /\ handlers' \in Seq(Plain) /\ dropped' \subseteq Plain
  BY DEF IInv, Network, CallTypes
<1>2. UNCHANGED <<cur, fibers, ready, pc, on, state, shutdown, settled>>
  BY DEF schedVars
<1> HIDE DEF IInv
<1>3. Network'
  BY <1>1, <1>2, FrameStep
<1>4. \A d \in Plain : state[d] = "PENDING" => state'[d] = "PENDING"
  OBVIOUS
<1>5. UNCHANGED <<cur, fibers, ready, status, pc, op, defer, callbacks, disposed,
                  handlers, dropped>>
  BY DEF schedVars
<1> QED
  BY <1>3, <1>4, <1>5, LibraryStep

\* The lists of operations do not change.
LEMMA OpsSame ==
  ASSUME IInv, UNCHANGED ops
  PROVE  /\ ops' \in [States -> Seq(Awaiters)]
         /\ \A d \in States :
              /\ Once(ops'[d])
              /\ \A e : e \notin Combined => (e \in Range(ops'[d]) <=> e \in Range(ops[d]))
              /\ ops'[d] # <<>> => ops[d] # <<>> \/ state[d] = "PENDING"
  BY DEF IInv, Network, StateTypes, Listed

\* The innermost call returns.
LEMMA PopInv ==
  ASSUME IInv, NEW f \in Fibers, NEW at, InCall(f, at), at # "transform", Pop(f),
         at = "trigger" => ops[Callee(f)] = <<>>,
         UNCHANGED <<schedVars, ops, handlers, dropped, on, state, shutdown, settled>>
  PROVE  IInv'
<1> DEFINE t == Front(stack[f])
           N == {}
           G == {Last(stack[f])}
<1>1. /\ cur = f /\ stack[f] # <<>> /\ stack[f] \in Seq(Frames)
      /\ Last(stack[f]).at = at /\ Callee(f) = Last(stack[f]).d
  BY InCallFrame
<1>2. /\ t \in Seq(Frames) /\ Range(stack[f]) = Range(t) \cup {Last(stack[f])}
      /\ Rebuilt(stack[f], t, N)
  BY <1>1, FrontList, RebuiltPop
<1>3. stack' = [stack EXCEPT ![f] = t]
  BY DEF Pop
<1>4. \A n \in N : n.at # "transform" /\ FrameAt(n)
  OBVIOUS
<1>5. \A n \in G : n.at # "transform" /\ (n.at = "trigger" => ops'[n.d] = <<>>)
  BY <1>1
<1>6. /\ Range(stack[f]) \subseteq Range(t) \cup G
      /\ Range(t) \subseteq Range(stack[f]) \cup N
  BY <1>2
<1>7. /\ ops' \in [States -> Seq(Awaiters)]
      /\ \A d \in States :
           /\ Once(ops'[d])
           /\ \A e : e \notin Combined => (e \in Range(ops'[d]) <=> e \in Range(ops[d]))
           /\ ops'[d] # <<>> => ops[d] # <<>> \/ state[d] = "PENDING"
  BY OpsSame
<1> HIDE DEF t, N, G
<1> QED
  BY <1>1, <1>2, <1>3, <1>4, <1>5, <1>6, <1>7, FrameLeft

\* combine_cb after the continuation.
LEMMA ContinuationInv ==
  ASSUME IInv, NEW f \in Fibers, NEW throws \in BOOLEAN, ContinuationReturns(f, throws)
  PROVE  IInv'
<1> DEFINE c == Callee(f)
           s == stack[f]
           a == [at |-> "countdown", d |-> c]
           b == [at |-> "trigger", d |-> c]
           G == {Last(s)}
<1>1. /\ cur = f /\ s # <<>> /\ s \in Seq(Frames)
      /\ Last(s).at = "combine" /\ Last(s).d = c /\ c \in States /\ c \in Combined
  BY InCallFrame DEF ContinuationReturns, FrameAt
<1>2. /\ a \in Frames /\ a.at = "countdown" /\ a.d = c
      /\ b \in Frames /\ b.at = "trigger" /\ b.d = c
  BY <1>1, SimpleFrame
<1>3. UNCHANGED <<schedVars, ops, handlers, dropped, on>>
  BY DEF ContinuationReturns
<1>4. \A n \in G : n.at \notin {"trigger", "transform"}
  BY <1>1
<1>5. CASE throws /\ state[c] = "PENDING"
  <2> DEFINE u == Append(Front(s), a)
             t == Append(u, b)
             N == {a} \cup {b}
  <2>1. Settle(c, "FAILED") /\ stack' = [stack EXCEPT ![f] = Front(s) \o <<a, b>>]
    BY <1>5 DEF ContinuationReturns, Above
  <2>2. Front(s) \in Seq(Frames)
    BY <1>1, FrontList
  <2> HIDE DEF a, b, c
  <2>3. Front(s) \o <<a, b>> = t
    BY <1>2, <2>2
  <2>4. /\ u \in Seq(Frames) /\ Range(u) = Range(Front(s)) \cup {a}
        /\ Range(s) = Range(Front(s)) \cup {Last(s)} /\ Rebuilt(s, u, {a})
    BY <1>1, <1>2, StackShapes
  <2> HIDE DEF u, s
  <2>5. t \in Seq(Frames) /\ Range(t) = Range(u) \cup {b}
    BY <1>2, <2>4, AppendList
  <2>6. Rebuilt(s, t, N)
    BY <1>1, <1>2, <2>4, RebuiltPush
  <2>7. \A n \in N : \/ n.at = "trigger" /\ n.d = c
                     \/ n.at = "countdown" /\ n.d \in Combined
    BY <1>1, <1>2
  <2>8. /\ Range(s) \subseteq Range(t) \cup G /\ Range(t) \subseteq Range(s) \cup N
        /\ \E r \in Range(t) : r.at = "trigger" /\ r.d = c
    BY <1>2, <2>4, <2>5
  <2>9. stack' = [stack EXCEPT ![f] = t]
    BY <2>1, <2>3
  <2> HIDE DEF t, N, G
  <2>10. /\ c \in Combined /\ cur = f /\ state[c] = "PENDING" /\ t \in Seq(Frames)
         /\ stack[f] # <<>> /\ Rebuilt(stack[f], t, N)
         /\ Range(stack[f]) \subseteq Range(t) \cup G
         /\ Range(t) \subseteq Range(stack[f]) \cup N
         /\ stack' = [stack EXCEPT ![f] = t]
         /\ \E r \in Range(t) : r.at = "trigger" /\ r.d = c
    BY <1>1, <1>5, <2>5, <2>6, <2>8, <2>9 DEF s
  <2> QED
    BY <1>3, <1>4, <2>1, <2>7, <2>10, CombineSettles
<1>6. CASE ~(throws /\ state[c] = "PENDING")
  <2> DEFINE t == Append(Front(s), a)
             N == {a}
  <2>1. UNCHANGED <<state, settled, shutdown>> /\ stack' = [stack EXCEPT ![f] = t]
    BY <1>6 DEF ContinuationReturns, Replace
  <2>2. /\ ops' \in [States -> Seq(Awaiters)]
        /\ \A d \in States :
             /\ Once(ops'[d])
             /\ \A e : e \notin Combined => (e \in Range(ops'[d]) <=> e \in Range(ops[d]))
             /\ ops'[d] # <<>> => ops[d] # <<>> \/ state[d] = "PENDING"
    BY <1>3, OpsSame
  <2> HIDE DEF a, b, c
  <2>3. /\ t \in Seq(Frames) /\ Range(t) = Range(Front(s)) \cup {a}
        /\ Range(s) = Range(Front(s)) \cup {Last(s)} /\ Rebuilt(s, t, {a})
    BY <1>1, <1>2, StackShapes
  <2> HIDE DEF s
  <2>4. \A n \in N : n.at # "transform" /\ FrameAt(n)
    BY <1>1, <1>2 DEF FrameAt
  <2>5. \A n \in G : n.at # "transform" /\ (n.at = "trigger" => ops'[n.d] = <<>>)
    BY <1>4
  <2>6. Range(s) \subseteq Range(t) \cup G /\ Range(t) \subseteq Range(s) \cup N
    BY <2>3
  <2>7. Rebuilt(s, t, N)
    BY <2>3
  <2>8. UNCHANGED <<schedVars, handlers, dropped, on, state, shutdown, settled>>
    BY <1>3, <2>1
  <2> HIDE DEF t, N, G
  <2> QED
    BY <1>1, <2>1, <2>2, <2>3, <2>4, <2>5, <2>6, <2>7, <2>8, FrameLeft DEF s
<1> QED
  BY <1>5, <1>6

\* The last input to be counted.
LEMMA CountdownInv ==
  ASSUME IInv, NEW f \in Fibers, CombineCountdown(f)
  PROVE  IInv'
<1> DEFINE c == Callee(f)
           s == stack[f]
           b == [at |-> "trigger", d |-> c]
           t == Append(Front(s), b)
           N == {b}
           G == {Last(s)}
<1>1. /\ cur = f /\ s # <<>> /\ s \in Seq(Frames)
      /\ Last(s).at = "countdown" /\ Last(s).d = c /\ c \in States /\ c \in Combined
  BY InCallFrame DEF CombineCountdown, FrameAt
<1>2. b \in Frames /\ b.at = "trigger" /\ b.d = c
  BY <1>1, SimpleFrame
<1>3. UNCHANGED <<schedVars, ops, handlers, dropped, on>> /\ InCall(f, "countdown")
  BY DEF CombineCountdown
<1>4. CASE counter[c] - 1 = 0 /\ state[c] = "PENDING"
  <2>1. Settle(c, "FAILED") /\ stack' = [stack EXCEPT ![f] = t]
    BY <1>4 DEF CombineCountdown, Replace
  <2> HIDE DEF b, c
  <2>2. /\ t \in Seq(Frames) /\ Range(t) = Range(Front(s)) \cup {b}
        /\ Range(s) = Range(Front(s)) \cup {Last(s)} /\ Rebuilt(s, t, {b})
    BY <1>1, <1>2, StackShapes
  <2> HIDE DEF s
  <2>3. \A n \in N : \/ n.at = "trigger" /\ n.d = c
                     \/ n.at = "countdown" /\ n.d \in Combined
    BY <1>2
  <2>4. \A n \in G : n.at \notin {"trigger", "transform"}
    BY <1>1
  <2>5. /\ Range(s) \subseteq Range(t) \cup G /\ Range(t) \subseteq Range(s) \cup N
        /\ \E r \in Range(t) : r.at = "trigger" /\ r.d = c
        /\ Rebuilt(s, t, N)
    BY <1>2, <2>2
  <2> HIDE DEF t, N, G
  <2>10. /\ c \in Combined /\ cur = f /\ state[c] = "PENDING" /\ t \in Seq(Frames)
         /\ stack[f] # <<>> /\ Rebuilt(stack[f], t, N)
         /\ Range(stack[f]) \subseteq Range(t) \cup G
         /\ Range(t) \subseteq Range(stack[f]) \cup N
         /\ stack' = [stack EXCEPT ![f] = t]
         /\ \E r \in Range(t) : r.at = "trigger" /\ r.d = c
    BY <1>1, <1>4, <2>1, <2>2, <2>5 DEF s
  <2> QED
    BY <1>3, <2>1, <2>3, <2>4, <2>10, CombineSettles
<1>5. CASE ~(counter[c] - 1 = 0 /\ state[c] = "PENDING")
  <2>1. Pop(f) /\ UNCHANGED <<state, settled, shutdown>>
    BY <1>5 DEF CombineCountdown
  <2>2. UNCHANGED <<schedVars, ops, handlers, dropped, on, state, shutdown, settled>>
    BY <1>3, <2>1
  <2> QED
    BY <1>3, <2>1, <2>2, PopInv
<1> QED
  BY <1>4, <1>5

\* transform_cb after the continuation: the state it overwrites is due.
LEMMA TransformReturnsInv ==
  ASSUME IInv, NEW f \in Fibers, NEW throws \in BOOLEAN, TransformReturns(f, throws)
  PROVE  IInv'
<1>0. PICK x \in States : x = Callee(f)
  BY InCallFrame DEF TransformReturns
<1> DEFINE s == stack[f]
           o == IF throws THEN "FAILED" ELSE "RESOLVED"
           b == [at |-> "trigger", d |-> x]
           t == Append(Front(s), b)
           N == {b}
           G == {Last(s)}
<1>1. /\ cur = f /\ s # <<>> /\ s \in Seq(Frames)
      /\ Last(s).at = "transform" /\ Last(s).d = x /\ Last(s) \in Range(s) /\ x \in States
      /\ x \in Transformed /\ Due(x)
  BY <1>0, InCallFrame DEF TransformReturns, FrameAt
<1>2. b \in Frames /\ b.at = "trigger" /\ b.d = x
  BY <1>1, SimpleFrame
<1>3. /\ UNCHANGED <<schedVars, ops, handlers, dropped, on>>
      /\ Settle(x, o) /\ o \in Final
      /\ stack' = [stack EXCEPT ![f] = t]
  BY <1>0 DEF TransformReturns, Replace, Final
<1> HIDE DEF b, o
<1>4. /\ t \in Seq(Frames) /\ Range(t) = Range(Front(s)) \cup {b}
      /\ Range(s) = Range(Front(s)) \cup {Last(s)} /\ Rebuilt(s, t, {b})
  BY <1>1, <1>2, StackShapes
<1>5. /\ Len(s) \in Nat /\ Len(s) > 0 /\ Last(s) = s[Len(s)]
      /\ Len(Front(s)) = Len(s) - 1 /\ Front(s) \in Seq(Frames)
      /\ \A i \in 1..(Len(s) - 1) : Front(s)[i] = s[i]
  BY <1>1, FrontList
<1>6. stack'[f] = t /\ \A g \in Fibers : g # f => stack'[g] = stack[g]
  BY <1>3 DEF IInv, Network, CallTypes
<1>7. x \notin Range(ops[Source[x]])
  <2>1. Framed("transform", x)
    BY <1>1 DEF Framed
  <2>2. Source[x] \in States
    BY <1>1, DeferredAssumption
  <2> QED
    BY <1>1, <2>1, <2>2 DEF IInv, Network, Listed, ListedAt
<1>8. ASSUME NEW g \in Fibers, NEW j \in 1..Len(stack[g]),
             stack[g][j].at = "transform", stack[g][j].d = x
      PROVE  g = f /\ j = Len(s)
  <2>1. Len(s) \in 1..Len(stack[f]) /\ stack[f][Len(s)].at = "transform" /\ stack[f][Len(s)].d = x
    BY <1>1, <1>5
  <2> HIDE DEF s
  <2> QED
    BY <1>8, <2>1 DEF IInv, Network, OneTransform
<1> HIDE DEF s
<1>9. ~Framed("transform", x)'
  <2>1. SUFFICES ASSUME NEW g \in Fibers, NEW m \in Range(stack'[g]),
                        m.at = "transform", m.d = x
                 PROVE  FALSE
    BY DEF Framed
  <2>2. CASE g = f
    <3>1. m \in Range(Front(s))
      BY <1>2, <1>4, <1>6, <2>1, <2>2
    <3>2. PICK i \in 1..Len(Front(s)) : Front(s)[i] = m
      BY <1>5, <3>1, InList
    <3>3. i \in 1..Len(s) /\ i # Len(s) /\ s[i] = m
      BY <1>5, <3>2
    <3>4. i \in 1..Len(stack[f]) /\ stack[f][i] = m
      BY <3>3 DEF s
    <3> QED
      BY <1>8, <2>1, <3>3, <3>4
  <2>3. CASE g # f
    <3>1. m \in Range(stack[g]) /\ stack[g] \in Seq(Frames)
      BY <1>6, <2>3 DEF IInv, Network, CallTypes
    <3>2. PICK j \in 1..Len(stack[g]) : stack[g][j] = m
      BY <3>1, InList
    <3> QED
      BY <1>8, <2>1, <2>3, <3>2
  <2> QED
    BY <2>2, <2>3
<1>10. Framed("trigger", x)'
  BY <1>2, <1>4, <1>6 DEF Framed
<1>11. state'[x] \in Final
  BY <1>1, <1>3 DEF Settle, IInv, Network, StateTypes
<1>12. \A n \in N : n.at # "transform" /\ FrameAt(n)'
  BY <1>2, <1>11 DEF FrameAt
<1>13. \A n \in G : n.at # "trigger" /\ (n.at = "transform" => n.d = x)
  BY <1>1
<1>14. /\ Network /\ handlers' \in Seq(Plain) /\ dropped' \subseteq Plain
       /\ UNCHANGED <<cur, fibers, ready, pc, ops, on>>
  BY <1>3 DEF IInv, Network, CallTypes, schedVars
<1>15. Rebuilt(s, t, N) /\ Range(s) \subseteq Range(t) \cup G /\ Range(t) \subseteq Range(s) \cup N
  BY <1>4
<1> HIDE DEF t, N, G
<1>16. /\ Rebuilt(stack[f], t, N) /\ Range(stack[f]) \subseteq Range(t) \cup G
       /\ Range(t) \subseteq Range(stack[f]) \cup N /\ stack[f] # <<>>
  BY <1>1, <1>15 DEF s
<1>17. Network'
  <2>1. SettleBy(x, o, "call")
    BY <1>3 DEF Settle, SettleBy
  <2>2. "call" \in {"call", "disposal"} /\ ("call" = "disposal" => state[x] = "PENDING")
    OBVIOUS
  <2> HIDE DEF IInv
  <2> QED
    BY <1>1, <1>3, <1>4, <1>7, <1>9, <1>10, <1>12, <1>13, <1>14, <1>16, <2>1, <2>2, SettleStep,
       ZenonT(40)
<1>18. \A d \in Plain : state[d] = "PENDING" => state'[d] = "PENDING"
  BY <1>1, <1>3, DeferredAssumption DEF Settle, IInv, Network, StateTypes, States
<1>19. UNCHANGED <<cur, fibers, ready, status, pc, op, defer, callbacks, disposed,
                   handlers, dropped>>
  BY <1>3 DEF schedVars
<1> QED
  BY <1>1, <1>3, <1>16, <1>17, <1>18, <1>19, LibraryStep

\* A handler returns.
LEMMA HandlerReturnsInv ==
  ASSUME IInv, NEW f \in Fibers, HandlerReturns(f)
  PROVE  IInv'
  BY PopInv DEF HandlerReturns

\* The cancellation loop calls a handler.
LEMMA CancelDeferInv ==
  ASSUME IInv, NEW f \in Fibers, cancel_defer(f)
  PROVE  IInv'
<1> DEFINE h == Head(handlers)
           n == [at |-> "handler", d |-> h]
           s == stack[f]
           t == Append(s, n)
           N == {n}
           G == {}
<1>1. /\ cur = f /\ pc[f] = "cancel" /\ handlers \in Seq(Plain) /\ handlers # <<>>
      /\ handlers' = Tail(handlers) /\ stack' = [stack EXCEPT ![f] = t]
      /\ UNCHANGED <<schedVars, state, ops, shutdown, dropped, on, settled>>
      /\ s \in Seq(Frames)
  BY DEF cancel_defer, Push, IInv, Network, CallTypes
<1>2. /\ handlers' \in Seq(Plain) /\ h \in Plain
      /\ Range(handlers') \subseteq Range(handlers) /\ IsInjective(handlers')
  BY <1>1, TailList DEF IInv, Handlers
<1>3. n \in Frames /\ n.at = "handler"
  BY <1>2, SimpleFrame DEF States
<1> HIDE DEF n
<1>4. t \in Seq(Frames) /\ Range(t) = Range(s) \cup {n} /\ Rebuilt(s, t, {n})
  BY <1>1, <1>3, StackShapes
<1>5. /\ Rebuilt(stack[f], t, N) /\ Range(stack[f]) \subseteq Range(t) \cup G
      /\ Range(t) \subseteq Range(stack[f]) \cup N
      /\ \A m \in N : m.at # "transform" /\ FrameAt(m)
      /\ \A m \in G : m.at # "transform" /\ (m.at = "trigger" => ops'[m.d] = <<>>)
  BY <1>3, <1>4 DEF FrameAt
<1>6. /\ ops' \in [States -> Seq(Awaiters)]
      /\ \A d \in States :
           /\ Once(ops'[d])
           /\ \A e : e \notin Combined => (e \in Range(ops'[d]) <=> e \in Range(ops[d]))
           /\ ops'[d] # <<>> => ops[d] # <<>> \/ state[d] = "PENDING"
  BY <1>1, OpsSame
<1>7. Network /\ dropped' \subseteq Plain /\ UNCHANGED <<cur, fibers, ready, pc, on, state, shutdown, settled>>
  BY <1>1 DEF IInv, Network, CallTypes, schedVars
<1> HIDE DEF t, N, G
<1>8. Network'
  BY <1>1, <1>2, <1>4, <1>5, <1>6, <1>7, FrameStep
<1>9. /\ UNCHANGED <<cur, fibers, ready, status, pc, op, defer, callbacks, disposed>>
      /\ pc[f] \in {"run", "cancel", "dispose"}
  BY <1>1 DEF schedVars
<1>10. Stacked'
  BY <1>1, <1>9, StackedCall DEF IInv, Network
<1>11. SchedTypes'
  BY <1>9, SchedSame DEF IInv
<1>12. Handlers'
  BY <1>1, <1>2, <1>9 DEF IInv, Handlers, HandlersPending
<1> QED
  BY <1>8, <1>10, <1>11, <1>12 DEF IInv

\* While the scheduler is disposed and its callbacks are called no other call is
\* under way, and the first state of the shutdown list is not that of a transform,
\* unless it is that of a task.
LEMMA ShutdownFirst ==
  ASSUME IInv, cur = Root, pc[Root] = "dispose", stack[Root] = <<>>, shutdown # <<>>
  PROVE  /\ disposed /\ Head(shutdown) \in States /\ state[Head(shutdown)] = "PENDING"
         /\ Head(shutdown) \in Transformed => Exposed(Head(shutdown))
         /\ \A f \in Fibers : stack[f] = <<>>
         /\ Tail(shutdown) = ASYNC_LIST_REMOVE(shutdown, Head(shutdown))
<1> DEFINE d == Head(shutdown)
<1>1. disposed /\ fibers = <<>>
  BY DEF IInv, Stacked
<1>2. \A f \in Fibers : stack[f] = <<>>
  BY <1>1, EmptyList DEF IInv, Stacked, Active
<1>3. ASSUME NEW at, NEW e PROVE ~Framed(at, e)
  BY <1>2, EmptyList DEF Framed
<1>4. /\ shutdown \in Seq(States) /\ d \in States /\ d \in Range(shutdown)
      /\ Len(shutdown) \in Nat /\ 1 \in 1..Len(shutdown) /\ d = shutdown[1]
  BY TailList, EmptySeq, HeadTailProperties DEF IInv, Network, StateTypes
<1>5. state[d] = "PENDING"
  BY <1>4 DEF IInv, Network, Shutting
<1>6. Tail(shutdown) = ASYNC_LIST_REMOVE(shutdown, d)
  BY <1>4, RemoveList DEF IInv, Network, Shutting
<1>7. d \in Transformed => Exposed(d)
  <2>1. SUFFICES ASSUME d \in Transformed, Source[d] \notin Outside PROVE FALSE
    BY DEF Exposed
  <2>2. d \in Range(ops[Source[d]])
    BY <1>3, <1>5, <2>1 DEF IInv, Network, Transforms
  <2>3. Source[d] \in States
    BY <2>1, DeferredAssumption
  <2>4. ops[Source[d]] # <<>>
    BY <2>2, EmptyList
  <2>5. state[Source[d]] = "PENDING"
    BY <1>3, <2>3, <2>4 DEF IInv, Network, Served
  <2>6. Source[d] \in Range(shutdown)
    BY <2>1, <2>3, <2>5 DEF IInv, Network, Shutting
  <2>7. PICK i \in 1..Len(shutdown) : shutdown[i] = Source[d]
    BY <1>4, <2>6, InList
  <2>8. i < 1
    BY <1>4, <2>1, <2>7 DEF IInv, Network, Shutting
  <2> QED
    BY <1>4, <2>8
<1> QED
  BY <1>1, <1>2, <1>4, <1>5, <1>6, <1>7

\* The disposal fails a state that is still listed.
LEMMA ShutdownInv ==
  ASSUME IInv, shutdown_state
  PROVE  IInv'
<1>20. PICK d \in States : d = Head(shutdown)
  BY ShutdownFirst DEF shutdown_state
<1> DEFINE n == [at |-> "trigger", d |-> d]
           f == Root
           t == Append(stack[f], n)
           N == {n}
           G == {}
<1>1. /\ disposed /\ state[d] = "PENDING"
      /\ d \in Transformed => Exposed(d)
      /\ \A g \in Fibers : stack[g] = <<>>
      /\ Tail(shutdown) = ASYNC_LIST_REMOVE(shutdown, d)
  BY <1>20, ShutdownFirst DEF shutdown_state
<1>2. /\ SettleBy(d, "FAILED", "disposal") /\ "FAILED" \in Final
      /\ cur = f /\ f \in Fibers /\ pc[f] = "dispose" /\ stack' = [stack EXCEPT ![f] = t]
      /\ UNCHANGED <<schedVars, ops, handlers, dropped, on>>
      /\ stack[f] \in Seq(Frames)
  BY <1>1, <1>20 DEF shutdown_state, SettleBy, Final, Push, Fibers, IInv, Network, CallTypes
<1>3. n \in Frames /\ n.at = "trigger" /\ n.d = d
  BY SimpleFrame
<1> HIDE DEF n, f
<1>4. /\ t \in Seq(Frames) /\ Range(t) = Range(stack[f]) \cup {n}
      /\ Rebuilt(stack[f], t, {n})
  BY <1>2, <1>3, StackShapes
<1> HIDE DEF t
<1>5. /\ Rebuilt(stack[f], t, N) /\ Range(stack[f]) \subseteq Range(t) \cup G
      /\ Range(t) \subseteq Range(stack[f]) \cup N
      /\ \A m \in G : m.at # "trigger" /\ (m.at = "transform" => m.d = d)
  BY <1>3, <1>4
<1>13. state'[d] = "FAILED" /\ CountedAt(d) /\ Due(d)
  BY <1>1, <1>2 DEF SettleBy, Due, IInv, Network, StateTypes, Counted
<1>14. settled'[d] = <<"disposal">>
  BY <1>1, <1>2, <1>13, CountedOnce DEF IInv, Network
<1>15. d \in Transformed => d \notin Range(ops[Source[d]]) \/ Due(d)'
  BY <1>1, <1>2, <1>13, <1>14 DEF Due, Exposed
<1>6. \A m \in N : m.at # "transform" /\ FrameAt(m)'
  BY <1>2, <1>3, <1>13 DEF FrameAt
<1> HIDE DEF N, G
<1>16. stack'[f] = t /\ \A g \in Fibers : g # f => stack'[g] = <<>>
  BY <1>1, <1>2 DEF IInv, Network, CallTypes
<1>17. Framed("trigger", d)'
  BY <1>2, <1>3, <1>4, <1>16 DEF Framed
<1>18. ~Framed("transform", d)'
  <2>1. SUFFICES ASSUME NEW g \in Fibers, NEW m \in Range(stack'[g]), m.at = "transform"
                 PROVE  FALSE
    BY DEF Framed
  <2>2. Range(<<>>) = {}
    BY EmptyList
  <2>3. g = f /\ m \in Range(t)
    BY <1>16, <2>1, <2>2
  <2>4. m = n
    BY <1>1, <1>2, <1>4, <2>2, <2>3
  <2> QED
    BY <1>3, <2>1, <2>4
<1>7. /\ Network /\ UNCHANGED <<cur, fibers, ready, pc, ops, on>>
      /\ handlers' \in Seq(Plain) /\ dropped' \subseteq Plain
  BY <1>2 DEF IInv, Network, CallTypes, schedVars
<1>8. Network'
  <2>1. "disposal" \in {"call", "disposal"}
    OBVIOUS
  <2> HIDE DEF IInv
  <2> QED
    BY <1>1, <1>2, <1>4, <1>5, <1>6, <1>7, <1>13, <1>15, <1>17, <1>18, <2>1, SettleStep
<1>9. /\ UNCHANGED <<cur, fibers, ready, status, pc, op, defer, callbacks, disposed, handlers, dropped>>
      /\ pc[f] \in {"run", "cancel", "dispose"}
  BY <1>2 DEF schedVars
<1>10. Stacked'
  BY <1>2, <1>9, StackedCall DEF IInv, Network
<1>11. SchedTypes'
  BY <1>9, SchedSame DEF IInv
<1>12. Handlers'
  BY <1>1, <1>9, HandlersKept DEF IInv, Network, CallTypes
<1> QED
  BY <1>8, <1>10, <1>11, <1>12 DEF IInv

-----------------------------------------------------------------------------
(***************************************************************************)
(* Fibers that are resumed and fibers that suspend.                        *)
(***************************************************************************)

\* A fiber is resumed above the others.
LEMMA SwitchStacked ==
  ASSUME SchedTypes, Stacked, NEW e \in Fibers, e \notin Active, async_fiber_switch(e),
         UNCHANGED <<pc, disposed, stack>>, Active' = Active \cup {e}
  PROVE  Stacked'
<1>1. \A f \in Fibers : stack'[f] # <<>> =>
        f \in Active' /\ pc'[f] \in {"run", "cancel", "dispose"}
  BY DEF Stacked
<1>2. ASSUME pc'[Root] = "dispose"
      PROVE  /\ disposed' /\ Root \in Active'
             /\ cur' = Root => fibers' = <<>>
             /\ \A i \in 1..Len(fibers') : fibers'[i] = Root => i = Len(fibers')
  <2>1. /\ disposed /\ Root \in Active /\ (cur = Root => fibers = <<>>)
        /\ \A i \in 1..Len(fibers) : fibers[i] = Root => i = Len(fibers)
    BY <1>2 DEF Stacked
  <2>2. cur' # Root
    BY <2>1 DEF async_fiber_switch
  <2>3. /\ Len(fibers) \in Nat /\ Len(fibers') = 1 + Len(fibers) /\ fibers'[1] = cur
        /\ \A i \in 2..(1 + Len(fibers)) : fibers'[i] = fibers[i - 1]
    BY PrependAt DEF async_fiber_switch, SchedTypes, FiberLists
  <2>4. ASSUME NEW i \in 1..Len(fibers'), fibers'[i] = Root PROVE i = Len(fibers')
    <3>1. CASE i = 1
      <4>1. Len(fibers) = 0
        BY <2>1, <2>3, <2>4, <3>1
      <4> QED
        BY <2>3, <3>1, <4>1
    <3>2. CASE i # 1
      <4>1. i - 1 \in 1..Len(fibers) /\ fibers[i - 1] = Root
        BY <2>3, <2>4, <3>2
      <4>2. i - 1 = Len(fibers)
        BY <2>1, <4>1
      <4> QED
        BY <2>3, <4>2
    <3> QED
      BY <3>1, <3>2
  <2> QED
    BY <2>1, <2>2, <2>4
<1> QED
  BY <1>1, <1>2 DEF Stacked

\* A fiber suspends outside any call.
LEMMA SuspendStacked ==
  ASSUME SchedTypes, Stacked, cur \in Fibers, stack[cur] = <<>>, async_fiber_suspend,
         NEW p \in Places \ {"dispose"}, pc' = [pc EXCEPT ![cur] = p],
         UNCHANGED <<disposed, stack, ready>>
  PROVE  /\ Stacked' /\ Single' /\ cur \notin Active'
         /\ \A g \in Fibers : g # cur => pc'[g] = pc[g] /\ (g \in Active' <=> g \in Active)
         /\ pc'[cur] = p /\ pc' \in [Fibers \cup {Runner} -> Places] /\ pc'[Runner] = pc[Runner]
<1>1. /\ Single' /\ cur \notin Active'
      /\ \A g \in Fibers : g # cur => (g \in Active' <=> g \in Active)
  BY SuspendPlaces DEF SchedTypes
<1>2. /\ pc'[cur] = p /\ pc' \in [Fibers \cup {Runner} -> Places]
      /\ \A g \in Fibers : g # cur => pc'[g] = pc[g]
      /\ pc'[Runner] = pc[Runner]
  BY SchedulerAssumption DEF SchedTypes
<1>3. \A f \in Fibers : stack'[f] # <<>> =>
        f \in Active' /\ pc'[f] \in {"run", "cancel", "dispose"}
  BY <1>1, <1>2 DEF Stacked
<1>4. ASSUME pc'[Root] = "dispose"
      PROVE  /\ disposed' /\ Root \in Active'
             /\ cur' = Root => fibers' = <<>>
             /\ \A i \in 1..Len(fibers') : fibers'[i] = Root => i = Len(fibers')
  <2>1. Root \in Fibers /\ cur # Root /\ pc[Root] = "dispose"
    BY <1>2, <1>4 DEF Fibers
  <2>2. /\ disposed /\ Root \in Active
        /\ \A i \in 1..Len(fibers) : fibers[i] = Root => i = Len(fibers)
    BY <2>1 DEF Stacked
  <2>3. fibers # <<>>
    BY <2>1, <2>2, EmptyList DEF Active
  <2>4. /\ Len(fibers) \in Nat /\ Len(fibers) > 0 /\ fibers' \in Seq(Fibers \cup {Runner})
        /\ Len(fibers') = Len(fibers) - 1 /\ cur' = fibers[1]
        /\ \A i \in 1..Len(fibers') : fibers'[i] = fibers[i + 1]
    BY <2>3, HeadTailProperties, EmptySeq DEF async_fiber_suspend, SchedTypes, FiberLists
  <2>5. cur' = Root => fibers' = <<>>
    <3>1. SUFFICES ASSUME cur' = Root PROVE fibers' = <<>>
      OBVIOUS
    <3>2. 1 \in 1..Len(fibers)
      BY <2>4
    <3>3. fibers[1] = Root
      BY <2>4, <3>1
    <3>4. 1 = Len(fibers)
      BY <2>2, <3>2, <3>3
    <3>5. Len(fibers') = 0
      <4>1. Len(fibers') = Len(fibers) - 1 /\ Len(fibers) \in Nat
        BY <2>4
      <4> DEFINE n == Len(fibers)
                 m == Len(fibers')
      <4>2. m = n - 1 /\ n = 1
        BY <3>4, <4>1
      <4> HIDE DEF n, m
      <4>3. m = 0
        BY <4>2
      <4> QED
        BY <4>3 DEF m
    <3> QED
      BY <2>4, <3>5, EmptySeq
  <2>6. ASSUME NEW i \in 1..Len(fibers'), fibers'[i] = Root PROVE i = Len(fibers')
    <3>1. i + 1 \in 1..Len(fibers) /\ fibers[i + 1] = Root
      BY <2>4, <2>6
    <3>2. i + 1 = Len(fibers)
      BY <2>2, <3>1
    <3> QED
      BY <2>4, <3>2
  <2> QED
    BY <1>1, <2>1, <2>2, <2>5, <2>6
<1> QED
  BY <1>1, <1>2, <1>3, <1>4 DEF Stacked

\* The scheduler moves fibers that await nothing.
LEMMA SchedulerMove ==
  ASSUME IInv, UNCHANGED deferVars, SchedTypes', Stacked', disposed => disposed',
         \A e \in Fibers : pc[e] = "await" /\ e \notin Active /\ e \notin Range(ready)
                             => pc'[e] = "await" /\ e \notin Active' /\ e \notin Range(ready')
  PROVE  IInv'
<1>1. UNCHANGED <<state, ops, shutdown, settled, stack, handlers, dropped, on>>
  BY DEF deferVars
<1>2. Network
  BY DEF IInv
<1>3. on' \in [Fibers -> States \cup {"none"}] /\ ops' \in [States -> Seq(Awaiters)]
  BY <1>1, <1>2 DEF Network, CallTypes, StateTypes
<1>4. ASSUME NEW d \in States
      PROVE  /\ Once(ops'[d])
             /\ \A e \in Fibers : e \in Range(ops'[d]) =>
                  e \notin Active' /\ e \notin Range(ready') /\ pc'[e] = "await" /\ on'[e] = d
             /\ \A e : e \notin Fibers => (e \in Range(ops'[d]) <=> e \in Range(ops[d]))
             /\ ops'[d] # <<>> => ops[d] # <<>> \/ state[d] = "PENDING"
  BY <1>1, <1>2 DEF Network, Listed, ListedAt
<1>5. Network'
  <2> HIDE DEF Network
  <2> QED
    BY <1>1, <1>2, <1>3, <1>4, MoveStep
<1>6. Handlers'
  BY <1>1 DEF IInv, Handlers, HandlersPending
<1> QED
  BY <1>5, <1>6 DEF IInv

\* A turn of the loop of trigger_ops that resumes a fiber.
LEMMA TriggerFiber ==
  ASSUME IInv, NEW d \in States, state[d] \in Final, ops[d] # <<>>,
         NEW e \in Fibers, e = Head(ops[d]), reschedule_task(e, state[d]),
         ops' = [ops EXCEPT ![d] = Tail(@)],
         UNCHANGED <<pc, defer, callbacks, disposed, state, shutdown, handlers,
                     dropped, on, stack, settled>>
  PROVE  IInv'
<1>1. /\ ops[d] \in Seq(Awaiters) /\ Once(ops[d]) /\ e \notin Combined
  BY DeferredAssumption DEF IInv, Network, StateTypes, Listed, States
<1>2. /\ Tail(ops[d]) \in Seq(Awaiters) /\ Once(Tail(ops[d])) /\ e \in Range(ops[d])
      /\ Range(ops[d]) = Range(Tail(ops[d])) \cup {e} /\ e \notin Range(Tail(ops[d]))
  BY <1>1, OnceTail
<1>3. e \notin Active /\ e \notin Range(ready) /\ pc[e] = "await" /\ on[e] = d
  BY <1>2 DEF IInv, Network, Listed, ListedAt
<1>4. /\ ops' \in [States -> Seq(Awaiters)] /\ ops'[d] = Tail(ops[d])
      /\ \A c \in States : c # d => ops'[c] = ops[c]
  BY <1>2 DEF IInv, Network, StateTypes
<1>5. async_fiber_switch(e) /\ UNCHANGED ready
  BY DEF reschedule_task, IInv, SchedTypes
<1>6. FiberLists'
  <2>1. state[d] \in OpStatus
    BY DEF Final, OpStatus
  <2> QED
    BY <2>1, RescheduleType DEF IInv, SchedTypes
<1>7. Single' /\ cur' = e /\ Active' = Active \cup {e}
  <2>1. ready' \in Seq(Fibers) /\ IsInjective(ready') /\ Range(ready') \subseteq Range(ready) \ {e}
    BY <1>3, <1>5 DEF IInv, SchedTypes, FiberLists, Single
  <2> QED
    BY <1>3, <1>5, <2>1, SwitchPlaces DEF IInv, SchedTypes
<1>8. SchedTypes'
  BY <1>6, <1>7 DEF IInv, SchedTypes
<1>9. Stacked'
  BY <1>3, <1>5, <1>7, SwitchStacked DEF IInv
<1>10. ASSUME NEW c \in States
       PROVE  /\ Once(ops'[c])
              /\ \A g \in Fibers : g \in Range(ops'[c]) =>
                   g \notin Active' /\ g \notin Range(ready') /\ pc'[g] = "await" /\ on'[g] = c
              /\ \A g : g \notin Fibers => (g \in Range(ops'[c]) <=> g \in Range(ops[c]))
              /\ ops'[c] # <<>> => ops[c] # <<>> \/ state[c] = "PENDING"
  <2>1. Once(ops[c]) /\ \A g \in Range(ops[c]) : ListedAt(c, g)
    BY DEF IInv, Network, Listed
  <2>2. CASE c = d
    <3>1. ops'[c] = Tail(ops[d])
      BY <1>4, <2>2
    <3> QED
      BY <1>2, <1>5, <1>7, <2>1, <2>2, <3>1 DEF ListedAt
  <2>3. CASE c # d
    <3>1. ops'[c] = ops[c]
      BY <1>4, <2>3
    <3> QED
      BY <1>3, <1>5, <1>7, <2>1, <2>3, <3>1 DEF ListedAt
  <2> QED
    BY <2>2, <2>3
<1>11. Network'
  <2>1. /\ Network /\ on' \in [Fibers -> States \cup {"none"}]
        /\ UNCHANGED <<state, shutdown, settled, stack, handlers, dropped>>
    BY DEF IInv, Network, CallTypes
  <2> HIDE DEF IInv
  <2> QED
    BY <1>4, <1>10, <2>1, MoveStep
<1>12. Handlers'
  BY DEF IInv, Handlers, HandlersPending
<1> QED
  BY <1>8, <1>9, <1>11, <1>12 DEF IInv

\* One that calls the continuation of a combine.
LEMMA TriggerCombine ==
  ASSUME IInv, NEW f \in Fibers, cur = f, stack[f] # <<>>,
         NEW d \in States, ops[d] # <<>>, NEW e \in Combined, e = Head(ops[d]),
         ops' = [ops EXCEPT ![d] = Tail(@)], Push(f, "combine", e),
         UNCHANGED <<schedVars, handlers, dropped, on, state, shutdown, settled>>
  PROVE  IInv'
<1> DEFINE n == [at |-> "combine", d |-> e]
           t == Append(stack[f], n)
           N == {n}
           G == {}
<1>1. n \in Frames /\ n.at = "combine" /\ n.d = e
  BY SimpleFrame DEF States
<1>2. stack' = [stack EXCEPT ![f] = t] /\ stack[f] \in Seq(Frames)
  BY DEF Push, IInv, Network, CallTypes
<1> HIDE DEF n
<1>3. t \in Seq(Frames) /\ Range(t) = Range(stack[f]) \cup {n} /\ Rebuilt(stack[f], t, {n})
  BY <1>1, <1>2, StackShapes
<1>4. /\ Rebuilt(stack[f], t, N) /\ Range(stack[f]) \subseteq Range(t) \cup G
      /\ Range(t) \subseteq Range(stack[f]) \cup N
      /\ \A m \in N : m.at # "transform" /\ FrameAt(m)
      /\ \A m \in G : m.at # "transform" /\ (m.at = "trigger" => ops'[m.d] = <<>>)
  BY <1>1, <1>3 DEF FrameAt
<1>5. /\ Tail(ops[d]) \in Seq(Awaiters) /\ Once(Tail(ops[d]))
      /\ Range(ops[d]) = Range(Tail(ops[d])) \cup {e}
  BY OnceTail DEF IInv, Network, StateTypes, Listed
<1>6. /\ ops' \in [States -> Seq(Awaiters)] /\ ops'[d] = Tail(ops[d])
      /\ \A c \in States : c # d => ops'[c] = ops[c]
  BY <1>5 DEF IInv, Network, StateTypes
<1>7. ASSUME NEW c \in States
      PROVE  /\ Once(ops'[c])
             /\ \A g : g \notin Combined => (g \in Range(ops'[c]) <=> g \in Range(ops[c]))
             /\ ops'[c] # <<>> => ops[c] # <<>> \/ state[c] = "PENDING"
  BY <1>5, <1>6 DEF IInv, Network, Listed
<1> HIDE DEF t, N, G
<1> QED
  BY <1>2, <1>3, <1>4, <1>6, <1>7, FrameLeft

\* One turn of the loop of trigger_ops.
LEMMA TriggerInv ==
  ASSUME IInv, NEW f \in Fibers, trigger_ops(f)
  PROVE  IInv'
<1>0. PICK d \in States : d = Callee(f)
  BY InCallFrame DEF trigger_ops
<1>1. /\ cur = f /\ stack[f] # <<>> /\ state[d] \in Final /\ Framed("trigger", d)
      /\ InCall(f, "trigger")
  BY <1>0, InCallFrame DEF trigger_ops, FrameAt, Framed
<1>2. CASE ops[d] = <<>>
  <2>1. /\ Pop(f)
        /\ UNCHANGED <<schedVars, ops, handlers, dropped, on, state, shutdown, settled>>
    BY <1>0, <1>2 DEF trigger_ops, schedVars
  <2> QED
    BY <1>0, <1>1, <1>2, <2>1, PopInv
<1>3. CASE ops[d] # <<>>
  <2>0. PICK e : e = Head(ops[d])
    OBVIOUS
  <2>1. /\ ops' = [ops EXCEPT ![d] = Tail(@)]
        /\ UNCHANGED <<pc, defer, busy, callbacks, triggered, disposed, calls, state,
                       counter, shutdown, handlers, dropped, on, settled>>
        /\ \/ /\ e \in Fibers /\ reschedule_task(e, state[d]) /\ UNCHANGED stack
           \/ /\ e \in Combined /\ Push(f, "combine", e)
              /\ UNCHANGED <<cur, fibers, ready, status, op>>
           \/ /\ e \in Transformed /\ Push(f, "transform", e)
              /\ UNCHANGED <<cur, fibers, ready, status, op>>
    BY <1>0, <1>3, <2>0 DEF trigger_ops
  <2>2. CASE e \in Fibers /\ reschedule_task(e, state[d]) /\ UNCHANGED stack
    BY <1>1, <1>3, <2>0, <2>1, <2>2, TriggerFiber
  <2>3. CASE /\ e \in Combined /\ Push(f, "combine", e)
             /\ UNCHANGED <<cur, fibers, ready, status, op>>
    BY <1>1, <1>3, <2>0, <2>1, <2>3, TriggerCombine DEF schedVars
  <2>4. CASE /\ e \in Transformed /\ Push(f, "transform", e)
             /\ UNCHANGED <<cur, fibers, ready, status, op>>
    <3>1. Network /\ UNCHANGED <<cur, fibers, ready, pc, on, state, shutdown, settled, handlers, dropped>>
      BY <2>1, <2>4 DEF IInv
    <3>2. Network'
      BY <1>1, <1>3, <2>0, <2>1, <2>4, <3>1, TransformCalled
    <3>3. stack' = [stack EXCEPT ![f] = Append(stack[f], [at |-> "transform", d |-> e])]
      BY <2>4 DEF Push
    <3> QED
      BY <1>1, <2>1, <2>4, <3>2, <3>3, LibraryStep
  <2> QED
    BY <2>1, <2>2, <2>3, <2>4
<1> QED
  BY <1>2, <1>3

-----------------------------------------------------------------------------
(***************************************************************************)
(* Each operation preserves the invariant: combine and transform.          *)
(***************************************************************************)

\* One turn of the loop over the inputs.
LEMMA CombineInputInv ==
  ASSUME IInv, NEW f \in Fibers, CombineInput(f)
  PROVE  IInv'
<1> DEFINE s == stack[f]
           c == Callee(f)
           i == Last(s).i
           d == Inputs[c][i]
           a == [at |-> "combining", d |-> c, i |-> i + 1]
           b == [at |-> "combine", d |-> c]
           u == Append(Front(s), a)
           G == {Last(s)}
<1>1. /\ cur = f /\ s # <<>> /\ s \in Seq(Frames) /\ InCall(f, "combining")
      /\ Last(s) \in Frames /\ Last(s).at = "combining" /\ c \in Combined /\ c \in States
  BY InCallFrame DEF CombineInput, FrameAt
<1>2. i \in Nat \ {0}
  BY <1>1 DEF Frames
<1>3. a \in Frames /\ a.at = "combining" /\ a.d = c
  <2>1. i + 1 \in Nat \ {0}
    BY <1>2
  <2> QED
    BY <1>1, <2>1 DEF Frames
<1>4. b \in Frames /\ b.at = "combine" /\ b.d = c
  BY <1>1, SimpleFrame
<1>5. UNCHANGED <<schedVars, handlers, dropped, on, state, shutdown, settled>>
  BY DEF CombineInput
<1>6. CASE i > Len(Inputs[c])
  <2>1. Pop(f) /\ UNCHANGED ops
    BY <1>6 DEF CombineInput
  <2>2. UNCHANGED <<schedVars, ops, handlers, dropped, on, state, shutdown, settled>>
    BY <1>5, <2>1
  <2> QED
    BY <1>1, <2>1, <2>2, PopInv
<1>7. CASE ~(i > Len(Inputs[c]))
  <2>0. d \in States
    <3>1. Inputs[c] \in Seq(States)
      BY <1>1, DeferredAssumption
    <3>2. i \in 1..Len(Inputs[c])
      BY <1>2, <1>7, <3>1, InList
    <3> QED
      BY <3>1, <3>2, InList
  <2>1. \/ /\ state[d] = "PENDING" /\ ops' = [ops EXCEPT ![d] = Append(@, c)]
           /\ stack' = [stack EXCEPT ![f] = u]
        \/ ops' = ops /\ stack' = [stack EXCEPT ![f] = Append(u, b)]
    BY <1>7 DEF CombineInput
  <2>2. \A m \in G : m.at # "transform" /\ (m.at = "trigger" => ops'[m.d] = <<>>)
    BY <1>1
  <2> HIDE DEF a, b, c, d, i
  <2>3. /\ u \in Seq(Frames) /\ Range(u) = Range(Front(s)) \cup {a}
        /\ Range(s) = Range(Front(s)) \cup {Last(s)} /\ Rebuilt(s, u, {a})
    BY <1>1, <1>3, StackShapes
  <2>4. FrameAt(a) /\ FrameAt(b)
    BY <1>1, <1>3, <1>4 DEF FrameAt
  <2>5. CASE /\ state[d] = "PENDING" /\ ops' = [ops EXCEPT ![d] = Append(@, c)]
             /\ stack' = [stack EXCEPT ![f] = u]
    <3> DEFINE N == {a}
    <3>1. /\ \A m \in N : m.at # "transform" /\ FrameAt(m)
          /\ Rebuilt(s, u, N) /\ Range(s) \subseteq Range(u) \cup G /\ Range(u) \subseteq Range(s) \cup N
      BY <1>3, <2>3, <2>4
    <3>2. /\ Append(ops[d], c) \in Seq(Awaiters) /\ Once(Append(ops[d], c))
          /\ Range(Append(ops[d], c)) = Range(ops[d]) \cup {c}
      BY <1>1, <2>0, OnceAppend DEF IInv, Network, StateTypes, Listed, Awaiters
    <3>3. /\ ops' \in [States -> Seq(Awaiters)] /\ ops'[d] = Append(ops[d], c)
          /\ \A e \in States : e # d => ops'[e] = ops[e]
      BY <2>0, <2>5, <3>2 DEF IInv, Network, StateTypes
    <3>4. ASSUME NEW e \in States
          PROVE  /\ Once(ops'[e])
                 /\ \A g : g \notin Combined => (g \in Range(ops'[e]) <=> g \in Range(ops[e]))
                 /\ ops'[e] # <<>> => ops[e] # <<>> \/ state[e] = "PENDING"
      BY <1>1, <2>5, <3>2, <3>3 DEF IInv, Network, Listed
    <3>5. /\ Rebuilt(stack[f], u, N) /\ Range(stack[f]) \subseteq Range(u) \cup G
          /\ Range(u) \subseteq Range(stack[f]) \cup N /\ stack[f] # <<>>
      BY <1>1, <3>1
    <3> HIDE DEF N, G, s, u
    <3> QED
      BY <1>1, <1>5, <2>2, <2>3, <2>5, <3>1, <3>3, <3>4, <3>5, FrameLeft
  <2>6. CASE ops' = ops /\ stack' = [stack EXCEPT ![f] = Append(u, b)]
    <3> DEFINE t == Append(u, b)
               N == {a} \cup {b}
    <3> HIDE DEF u
    <3>1. /\ t \in Seq(Frames) /\ Range(t) = Range(u) \cup {b} /\ Rebuilt(s, t, N)
      BY <1>1, <1>4, <2>3, AppendList, RebuiltPush
    <3>2. /\ \A m \in N : m.at # "transform" /\ FrameAt(m)
          /\ Range(s) \subseteq Range(t) \cup G /\ Range(t) \subseteq Range(s) \cup N
      BY <1>3, <1>4, <2>3, <2>4, <3>1
    <3>3. /\ ops' \in [States -> Seq(Awaiters)]
          /\ \A e \in States :
               /\ Once(ops'[e])
               /\ \A g : g \notin Combined => (g \in Range(ops'[e]) <=> g \in Range(ops[e]))
               /\ ops'[e] # <<>> => ops[e] # <<>> \/ state[e] = "PENDING"
      BY <2>6, OpsSame
    <3>4. /\ Rebuilt(stack[f], t, N) /\ Range(stack[f]) \subseteq Range(t) \cup G
          /\ Range(t) \subseteq Range(stack[f]) \cup N /\ stack[f] # <<>>
          /\ stack' = [stack EXCEPT ![f] = t]
      BY <1>1, <2>6, <3>1, <3>2
    <3> HIDE DEF N, G, s, t
    <3> QED
      BY <1>1, <1>5, <2>2, <3>1, <3>2, <3>3, <3>4, FrameLeft
  <2> QED
    BY <2>1, <2>5, <2>6
<1> QED
  BY <1>6, <1>7

\* What a call that creates a state leaves alone.
LEMMA CreateCall ==
  ASSUME IInv, NEW f, CallFrom(f), NEW t,
         UNCHANGED <<cur, fibers, ready, status, pc, op, defer, callbacks, disposed,
                     handlers, dropped>>,
         stack' = [stack EXCEPT ![f] = t],
         NEW d \in States, state' = [state EXCEPT ![d] = "PENDING"], Network'
  PROVE  IInv'
<1>1. f \in Fibers /\ cur = f /\ pc[f] \in {"run", "cancel", "dispose"}
  BY CallRuns
<1>2. Stacked'
  BY <1>1, StackedCall DEF IInv, Network
<1>3. SchedTypes'
  BY SchedSame DEF IInv
<1>4. \A e \in Plain : state[e] = "PENDING" => state'[e] = "PENDING"
  BY DEF IInv, Network, StateTypes, States
<1>5. Handlers'
  BY <1>4, HandlersKept DEF IInv, Network, CallTypes
<1> QED
  BY <1>2, <1>3, <1>5 DEF IInv

\* combine.
LEMMA CombineInv ==
  ASSUME IInv, NEW f \in Fibers, NEW c \in Combined, combine(f, c)
  PROVE  IInv'
<1> DEFINE n == [at |-> "combining", d |-> c, i |-> 1]
           t == Append(stack[f], n)
           N == {n}
<1>1. /\ c \in States \ Outside /\ c \notin Transformed
      /\ CallFrom(f) /\ state[c] = "none" /\ state' = [state EXCEPT ![c] = "PENDING"]
      /\ shutdown' = Append(shutdown, c) /\ stack' = [stack EXCEPT ![f] = t]
      /\ UNCHANGED <<cur, fibers, ready, status, pc, op, defer, callbacks, disposed,
                     ops, handlers, dropped, on, settled>>
  BY DeferredAssumption DEF combine, States
<1>2. n \in Frames /\ n.at = "combining" /\ n.d = c
  BY DEF Frames
<1>3. stack[f] \in Seq(Frames)
  BY DEF IInv, Network, CallTypes
<1> HIDE DEF n
<1>4. t \in Seq(Frames) /\ Range(t) = Range(stack[f]) \cup {n} /\ Rebuilt(stack[f], t, N)
  BY <1>2, <1>3, StackShapes
<1>5. \A m \in N : m.at # "transform"
  BY <1>2
<1> HIDE DEF t, N
<1>6. OneTransform'
  BY <1>1, <1>4, <1>5, TransformKept DEF IInv, Network
<1>7. FrameAt(n)' /\ (n.at = "transform" => n.d = c)
  BY <1>2 DEF FrameAt
<1>8. /\ ops' \in [States -> Seq(Awaiters)]
      /\ \A d \in States : Once(ops'[d])
  BY <1>1 DEF IInv, Network, StateTypes, Listed
<1>9. ASSUME NEW d \in States
      PROVE  /\ Once(ops'[d])
             /\ \A e : e # c \/ e \in Combined => (e \in Range(ops'[d]) <=> e \in Range(ops[d]))
             /\ c \in Transformed /\ c \in Range(ops'[d])
                  => d = Source[c] /\ ~Framed("transform", c)'
             /\ ops'[d] # <<>> => ops[d] # <<>> \/ state'[d] = "PENDING"
  BY <1>1, <1>8
<1>10. Network'
  <2>1. /\ Network /\ UNCHANGED <<cur, fibers, ready, pc, on, settled, handlers, dropped>>
        /\ c \in Transformed => Source[c] # c
        /\ c \in Transformed => c \in Range(ops'[Source[c]]) \/ Framed("transform", c)'
        /\ Range(stack[f]) \subseteq Range(t) /\ Range(t) \subseteq Range(stack[f]) \cup {n}
    BY <1>1, <1>4 DEF IInv
  <2> HIDE DEF IInv
  <2> QED
    BY <1>1, <1>4, <1>6, <1>7, <1>8, <1>9, <2>1, CreateStep
<1> QED
  BY <1>1, <1>10, CreateCall

\* transform.
LEMMA TransformInv ==
  ASSUME IInv, NEW f \in Fibers, NEW x \in Transformed, transform(f, x)
  PROVE  IInv'
<1> DEFINE s == stack[f]
           d == Source[x]
           n == [at |-> "transform", d |-> x]
<1>1. /\ x \in States \ Outside /\ x \notin Combined /\ d \in States /\ d # x
      /\ CallFrom(f) /\ state[x] = "none" /\ state' = [state EXCEPT ![x] = "PENDING"]
      /\ shutdown' = Append(shutdown, x)
      /\ UNCHANGED <<cur, fibers, ready, status, pc, op, defer, callbacks, disposed,
                     handlers, dropped, on, settled>>
  BY DeferredAssumption DEF transform, States
<1>2. n \in Frames /\ n.at = "transform" /\ n.d = x
  BY <1>1, SimpleFrame
<1>3. /\ s \in Seq(Frames) /\ stack \in [Fibers -> Seq(Frames)]
      /\ ops \in [States -> Seq(Awaiters)] /\ \A e \in States : Once(ops[e])
  BY DEF IInv, Network, CallTypes, StateTypes, Listed
<1>4. /\ state'[x] = "PENDING" /\ ~Framed("transform", x)
      /\ \A e \in States : x \notin Range(ops[e])
      /\ \A e \in States : e # x => state'[e] = state[e]
  BY <1>1, Created DEF IInv
<1>5. CASE state[d] = "PENDING"
  <2> DEFINE r == [at |-> "handler", d |-> x]
  <2>1. ops' = [ops EXCEPT ![d] = Append(@, x)] /\ stack' = stack
    BY <1>5 DEF transform
  <2>2. stack' = [stack EXCEPT ![f] = s]
    BY <1>3, <2>1
  <2>3. /\ Append(ops[d], x) \in Seq(Awaiters) /\ Once(Append(ops[d], x))
        /\ Range(Append(ops[d], x)) = Range(ops[d]) \cup {x}
    BY <1>1, <1>3, <1>4, OnceAppend DEF Awaiters
  <2>4. /\ ops' \in [States -> Seq(Awaiters)] /\ ops'[d] = Append(ops[d], x)
        /\ \A e \in States : e # d => ops'[e] = ops[e]
    BY <1>1, <1>3, <2>1, <2>3
  <2>5. OneTransform'
    BY <2>1 DEF IInv, Network, OneTransform
  <2>6. ~Framed("transform", x)'
    BY <1>4, <2>1 DEF Framed
  <2>7. r.at = "handler"
    OBVIOUS
  <2> HIDE DEF r
  <2>8. FrameAt(r)' /\ (r.at = "transform" => r.d = x)
    BY <2>7 DEF FrameAt
  <2>9. ASSUME NEW c \in States
        PROVE  /\ Once(ops'[c])
               /\ \A e : e # x \/ e \in Combined => (e \in Range(ops'[c]) <=> e \in Range(ops[c]))
               /\ x \in Transformed /\ x \in Range(ops'[c])
                    => c = Source[x] /\ ~Framed("transform", x)'
               /\ ops'[c] # <<>> => ops[c] # <<>> \/ state'[c] = "PENDING"
    <3>1. CASE c = d
      <4>1. /\ Once(ops'[c]) /\ Range(ops'[c]) = Range(ops[c]) \cup {x}
            /\ state'[c] = "PENDING"
        BY <1>1, <1>4, <1>5, <2>3, <2>4, <3>1
      <4> QED
        BY <1>1, <2>6, <3>1, <4>1
    <3>2. CASE c # d
      <4>1. ops'[c] = ops[c] /\ Once(ops[c]) /\ x \notin Range(ops[c])
        BY <1>3, <1>4, <2>4, <3>2
      <4> QED
        BY <4>1
    <3> QED
      BY <3>1, <3>2
  <2>10. /\ Network /\ UNCHANGED <<cur, fibers, ready, pc, on, settled, handlers, dropped>>
         /\ x \in Transformed => Source[x] # x
         /\ x \in Transformed => x \in Range(ops'[Source[x]]) \/ Framed("transform", x)'
         /\ Range(stack[f]) \subseteq Range(s) /\ Range(s) \subseteq Range(stack[f]) \cup {r}
    BY <1>1, <2>3, <2>4 DEF IInv
  <2> HIDE DEF IInv, s, d
  <2>11. Network'
    BY <1>1, <1>3, <2>2, <2>4, <2>5, <2>8, <2>9, <2>10, CreateStep
  <2> QED
    BY <1>1, <2>2, <2>11, CreateCall
<1>6. CASE state[d] # "PENDING"
  <2> DEFINE t == Append(s, n)
  <2>1. ops' = ops /\ Push(f, "transform", x) /\ state[d] # "none"
    BY <1>6 DEF transform
  <2>2. stack' = [stack EXCEPT ![f] = t]
    BY <2>1 DEF Push
  <2>3. OneTransform'
    <3>1. /\ n \in Frames
          /\ stack' = [stack EXCEPT ![f] = Append(@, [at |-> "transform", d |-> x])]
      BY <1>2, <2>1 DEF Push
    <3> QED
      BY <1>4, <3>1, TransformPushed DEF IInv, Network
  <2> HIDE DEF n
  <2>4. t \in Seq(Frames) /\ Range(t) = Range(s) \cup {n}
    BY <1>2, <1>3, AppendList
  <2> HIDE DEF t
  <2>5. state'[d] \in Final
    <3>1. state[d] \in {"none", "PENDING"} \cup Final
      BY <1>1 DEF IInv, Network, StateTypes
    <3> QED
      BY <1>1, <1>4, <1>6, <2>1, <3>1
  <2>6. FrameAt(n)'
    BY <1>2, <1>4, <2>5 DEF FrameAt, Due
  <2>7. Framed("transform", x)'
    <3>1. stack'[f] = t
      BY <1>3, <2>2
    <3> QED
      BY <1>2, <2>4, <3>1 DEF Framed
  <2>8. ASSUME NEW c \in States
        PROVE  /\ Once(ops'[c])
               /\ \A e : e # x \/ e \in Combined => (e \in Range(ops'[c]) <=> e \in Range(ops[c]))
               /\ x \in Transformed /\ x \in Range(ops'[c])
                    => c = Source[x] /\ ~Framed("transform", x)'
               /\ ops'[c] # <<>> => ops[c] # <<>> \/ state'[c] = "PENDING"
    BY <1>3, <1>4, <2>1
  <2>9. /\ Network /\ UNCHANGED <<cur, fibers, ready, pc, on, settled, handlers, dropped>>
        /\ x \in Transformed => Source[x] # x
        /\ x \in Transformed => x \in Range(ops'[Source[x]]) \/ Framed("transform", x)'
        /\ Range(stack[f]) \subseteq Range(t) /\ Range(t) \subseteq Range(stack[f]) \cup {n}
        /\ ops' \in [States -> Seq(Awaiters)]
    BY <1>1, <1>3, <2>1, <2>4, <2>7 DEF IInv
  <2> HIDE DEF IInv, s, d
  <2>10. Network'
    BY <1>1, <1>2, <2>2, <2>3, <2>4, <2>6, <2>8, <2>9, CreateStep
  <2> QED
    BY <1>1, <2>2, <2>10, CreateCall
<1> QED
  BY <1>5, <1>6

-----------------------------------------------------------------------------
(***************************************************************************)
(* Each operation preserves the invariant: await and the scheduler.        *)
(***************************************************************************)

\* A fiber awaits a pending state.
LEMMA AwaitInv ==
  ASSUME IInv, NEW f \in Fibers, NEW d \in States, await(f, d)
  PROVE  IInv'
<1>1. /\ cur = f /\ stack[f] = <<>> /\ state[d] = "PENDING" /\ async_fiber_suspend
      /\ op' = [op EXCEPT ![f] = "RUNNING"] /\ pc' = [pc EXCEPT ![f] = "await"]
      /\ ops' = [ops EXCEPT ![d] = Append(@, f)] /\ on' = [on EXCEPT ![f] = d]
      /\ UNCHANGED <<ready, status, defer, callbacks, disposed, state, shutdown,
                     handlers, dropped, stack, settled>>
  BY DEF await, CallFrom, UserCode
<1>2. f \in Active /\ f \notin Range(ready)
  BY <1>1 DEF Active, IInv, SchedTypes, Single
<1>3. "await" \in Places \ {"dispose"} /\ "await" \in Places
  BY DEF Places
<1>4. /\ Stacked' /\ Single' /\ f \notin Active'
      /\ \A g \in Fibers : g # f => pc'[g] = pc[g] /\ (g \in Active' <=> g \in Active)
      /\ pc'[f] = "await" /\ pc' \in [Fibers \cup {Runner} -> Places] /\ pc'[Runner] = pc[Runner]
  BY <1>1, <1>3, SuspendStacked DEF IInv
<1>5. FiberLists'
  <2>1. cur' \in Fibers \cup {Runner} /\ fibers' \in Seq(Fibers \cup {Runner})
    BY <1>1, SuspendType DEF IInv, SchedTypes
  <2>2. op' \in [Fibers -> OpStatus]
    BY <1>1 DEF IInv, SchedTypes, FiberLists, OpStatus
  <2> QED
    BY <1>1, <2>1, <2>2 DEF IInv, SchedTypes, FiberLists
<1>6. SchedTypes'
  BY <1>1, <1>4, <1>5 DEF IInv, SchedTypes
<1>7. ops \in [States -> Seq(Awaiters)] /\ on \in [Fibers -> States \cup {"none"}]
  BY DEF IInv, Network, StateTypes, CallTypes
<1>8. \A c \in States : /\ f \notin Range(ops[c]) /\ Once(ops[c])
                        /\ \A e \in Range(ops[c]) : ListedAt(c, e)
  BY <1>2 DEF IInv, Network, Listed, ListedAt
<1>9. /\ Append(ops[d], f) \in Seq(Awaiters) /\ Once(Append(ops[d], f))
      /\ Range(Append(ops[d], f)) = Range(ops[d]) \cup {f}
  BY <1>7, <1>8, OnceAppend DEF Awaiters
<1>10. /\ ops' \in [States -> Seq(Awaiters)] /\ ops'[d] = Append(ops[d], f)
       /\ \A c \in States : c # d => ops'[c] = ops[c]
       /\ on' \in [Fibers -> States \cup {"none"}] /\ on'[f] = d
       /\ \A g \in Fibers : g # f => on'[g] = on[g]
  BY <1>1, <1>7, <1>9
<1>11. ASSUME NEW c \in States
       PROVE  /\ Once(ops'[c])
              /\ \A e \in Fibers : e \in Range(ops'[c]) =>
                   e \notin Active' /\ e \notin Range(ready') /\ pc'[e] = "await" /\ on'[e] = c
              /\ \A e : e \notin Fibers => (e \in Range(ops'[c]) <=> e \in Range(ops[c]))
              /\ ops'[c] # <<>> => ops[c] # <<>> \/ state[c] = "PENDING"
  <2>1. \A e \in Fibers : e \in Range(ops[c]) =>
          e # f /\ e \notin Active' /\ e \notin Range(ready') /\ pc'[e] = "await" /\ on'[e] = c
    BY <1>1, <1>4, <1>8, <1>10 DEF ListedAt
  <2>2. CASE c = d
    <3>1. Once(ops'[c]) /\ Range(ops'[c]) = Range(ops[c]) \cup {f}
      BY <1>9, <1>10, <2>2
    <3> QED
      BY <1>1, <1>2, <1>4, <1>10, <2>1, <2>2, <3>1
  <2>3. CASE c # d
    <3>1. ops'[c] = ops[c]
      BY <1>10, <2>3
    <3> QED
      BY <1>8, <2>1, <3>1
  <2> QED
    BY <2>2, <2>3
<1>12. Network'
  <2>1. Network /\ UNCHANGED <<state, shutdown, settled, stack, handlers, dropped>>
    BY <1>1 DEF IInv
  <2> HIDE DEF IInv
  <2> QED
    BY <1>10, <1>11, <2>1, MoveStep
<1>13. Handlers'
  BY <1>1 DEF IInv, Handlers, HandlersPending
<1> QED
  BY <1>4, <1>6, <1>12, <1>13 DEF IInv

\* await returns.
LEMMA AwaitReturnsInv ==
  ASSUME IInv, NEW f \in Fibers, AwaitReturns(f)
  PROVE  IInv'
<1>1. /\ cur = f /\ pc[f] = "await"
      /\ op' = [op EXCEPT ![f] = "PENDING"] /\ pc' = [pc EXCEPT ![f] = "run"]
      /\ on' = [on EXCEPT ![f] = "none"]
      /\ UNCHANGED <<cur, fibers, ready, status, defer, callbacks, disposed, state, ops,
                     shutdown, handlers, dropped, stack, settled>>
  BY DEF AwaitReturns
<1>2. Active' = Active /\ f \in Active
  BY <1>1 DEF Active
<1>3. /\ pc' \in [Fibers \cup {Runner} -> Places] /\ pc'[Runner] = pc[Runner]
      /\ pc'[f] = "run" /\ \A g \in Fibers : g # f => pc'[g] = pc[g]
  BY <1>1, SchedulerAssumption DEF IInv, SchedTypes, Places
<1>4. FiberLists' /\ Single'
  BY <1>1, <1>2 DEF IInv, SchedTypes, FiberLists, Single, OpStatus
<1>5. SchedTypes'
  BY <1>1, <1>3, <1>4 DEF IInv, SchedTypes
<1>6. Stacked'
  BY <1>1, <1>2, <1>3 DEF IInv, Stacked, Fibers
<1>7. /\ ops' \in [States -> Seq(Awaiters)] /\ on' \in [Fibers -> States \cup {"none"}]
      /\ \A g \in Fibers : g # f => on'[g] = on[g]
  BY <1>1 DEF IInv, Network, StateTypes, CallTypes
<1>8. ASSUME NEW c \in States
      PROVE  /\ Once(ops'[c])
             /\ \A e \in Fibers : e \in Range(ops'[c]) =>
                  e \notin Active' /\ e \notin Range(ready') /\ pc'[e] = "await" /\ on'[e] = c
             /\ \A e : e \notin Fibers => (e \in Range(ops'[c]) <=> e \in Range(ops[c]))
             /\ ops'[c] # <<>> => ops[c] # <<>> \/ state[c] = "PENDING"
  <2>1. ops'[c] = ops[c] /\ Once(ops[c]) /\ \A e \in Range(ops[c]) : ListedAt(c, e)
    BY <1>1 DEF IInv, Network, Listed
  <2> QED
    BY <1>1, <1>2, <1>3, <1>7, <2>1 DEF ListedAt
<1>9. Network'
  <2>1. Network /\ UNCHANGED <<state, shutdown, settled, stack, handlers, dropped>>
    BY <1>1 DEF IInv
  <2> HIDE DEF IInv
  <2> QED
    BY <1>7, <1>8, <2>1, MoveStep
<1>10. Handlers'
  BY <1>1 DEF IInv, Handlers, HandlersPending
<1> QED
  BY <1>5, <1>6, <1>9, <1>10 DEF IInv

\* The running fiber suspends or leaves, outside any library call.
LEMMA SuspendInv ==
  ASSUME IInv, Idle, UNCHANGED deferVars, cur \in Fibers, pc[cur] # "await",
         async_fiber_suspend, NEW p \in Places \ {"dispose"},
         pc' = [pc EXCEPT ![cur] = p], status' \in [Fibers -> TaskStatus],
         UNCHANGED <<ready, op, defer, callbacks, disposed>>
  PROVE  IInv'
<1>1. stack[cur] = <<>> /\ UNCHANGED stack
  BY DEF Idle, deferVars
<1>2. /\ Stacked' /\ Single' /\ cur \notin Active'
      /\ \A g \in Fibers : g # cur => pc'[g] = pc[g] /\ (g \in Active' <=> g \in Active)
      /\ pc' \in [Fibers \cup {Runner} -> Places] /\ pc'[Runner] = pc[Runner]
  BY <1>1, SuspendStacked DEF IInv
<1>3. FiberLists'
  <2>1. cur' \in Fibers \cup {Runner} /\ fibers' \in Seq(Fibers \cup {Runner})
    BY SuspendType DEF IInv, SchedTypes
  <2> QED
    BY <2>1 DEF IInv, SchedTypes, FiberLists
<1>4. SchedTypes'
  BY <1>2, <1>3 DEF IInv, SchedTypes
<1>5. \A e \in Fibers : pc[e] = "await" /\ e \notin Active /\ e \notin Range(ready)
        => pc'[e] = "await" /\ e \notin Active' /\ e \notin Range(ready')
  BY <1>2
<1> QED
  BY <1>2, <1>4, <1>5, SchedulerMove

\* The loop dispatches a task.
LEMMA DispatchInv ==
  ASSUME IInv, dispatch_tasks, UNCHANGED deferVars
  PROVE  IInv'
<1> DEFINE e == Head(ready)
<1>1. /\ ready # <<>> /\ ready' = Tail(ready) /\ async_fiber_switch(e)
      /\ status' = [status EXCEPT ![e] = "RUNNING"]
      /\ UNCHANGED <<pc, op, defer, callbacks, disposed, stack>>
  BY DEF dispatch_tasks, deferVars
<1>2. /\ ready \in Seq(Fibers) /\ IsInjective(ready) /\ Active \cap Range(ready) = {}
  BY DEF IInv, SchedTypes, FiberLists, Single
<1>3. /\ ready' \in Seq(Fibers) /\ e \in Fibers /\ e \in Range(ready)
      /\ Range(ready) = Range(ready') \cup {e} /\ IsInjective(ready') /\ e \notin Range(ready')
  BY <1>1, <1>2, TailList
<1>4. e \notin Active /\ Range(ready') \subseteq Range(ready) \ {e}
  BY <1>2, <1>3
<1>5. Single' /\ Active' = Active \cup {e}
  BY <1>1, <1>3, <1>4, SwitchPlaces DEF IInv, SchedTypes
<1>6. Stacked'
  BY <1>1, <1>3, <1>4, <1>5, SwitchStacked DEF IInv
<1>7. FiberLists'
  <2>1. cur' \in Fibers \cup {Runner} /\ fibers' \in Seq(Fibers \cup {Runner})
    BY <1>1, <1>3, SwitchType DEF IInv, SchedTypes
  <2>2. status' \in [Fibers -> TaskStatus]
    BY <1>1 DEF IInv, SchedTypes, FiberLists, TaskStatus
  <2> QED
    BY <1>1, <1>3, <2>1, <2>2 DEF IInv, SchedTypes, FiberLists
<1>8. SchedTypes'
  BY <1>1, <1>5, <1>7 DEF IInv, SchedTypes
<1>9. \A g \in Fibers : pc[g] = "await" /\ g \notin Active /\ g \notin Range(ready)
        => pc'[g] = "await" /\ g \notin Active' /\ g \notin Range(ready')
  BY <1>1, <1>3, <1>5
<1> QED
  BY <1>1, <1>6, <1>8, <1>9, SchedulerMove

\* The loop ends and the disposal goes on.
LEMMA LoopEndsInv ==
  ASSUME IInv, run_scheduler_fiber({}), UNCHANGED deferVars
  PROVE  IInv'
<1>1. /\ cur = Runner /\ pc[Root] = "drain" /\ ready = <<>> /\ cur' = Root /\ disposed' = TRUE
      /\ pc' = [pc EXCEPT ![Root] = IF disposed THEN "done" ELSE "dispose"]
      /\ UNCHANGED <<fibers, ready, status, op, defer, callbacks, stack>>
  BY DEF run_scheduler_fiber, deferVars
<1>2. /\ Root \in Fibers /\ Root # Runner /\ Runner \notin Fibers
      /\ fibers = <<>> /\ Active = {Runner} /\ Active' = {Root}
  BY <1>1, SchedulerAssumption, EmptyList DEF Fibers, IInv, SchedTypes, Single, Active
<1>3. \A f \in Fibers : stack[f] = <<>>
  BY <1>2 DEF IInv, Stacked
<1>4. /\ pc' \in [Fibers \cup {Runner} -> Places] /\ pc'[Runner] = "run"
      /\ \A g \in Fibers : g # Root => pc'[g] = pc[g]
  BY <1>1, <1>2 DEF IInv, SchedTypes, Places
<1>5. Single'
  <2>1. Len(fibers') = 0 /\ Range(fibers') = {} /\ Range(ready') = {}
    BY <1>1, <1>2, EmptyList
  <2> QED
    BY <1>1, <1>2, <2>1 DEF IInv, SchedTypes, Single
<1>6. SchedTypes'
  BY <1>1, <1>2, <1>4, <1>5 DEF IInv, SchedTypes, FiberLists
<1>7. Stacked'
  <2>1. Len(fibers') = 0
    BY <1>1, <1>2
  <2> QED
    BY <1>1, <1>2, <1>3, <2>1 DEF Stacked
<1>8. \A g \in Fibers : pc[g] = "await" /\ g \notin Active /\ g \notin Range(ready)
        => pc'[g] = "await" /\ g \notin Active' /\ g \notin Range(ready')
  BY <1>1, <1>2, <1>4
<1> QED
  BY <1>1, <1>6, <1>7, <1>8, SchedulerMove

\* The running fiber begins or ends a cancellation.
LEMMA CancelInv ==
  ASSUME IInv, UNCHANGED deferVars, cur \in Fibers, pc[cur] \in {"run", "cancel"},
         NEW p \in {"run", "cancel"}, pc' = [pc EXCEPT ![cur] = p],
         UNCHANGED <<cur, fibers, ready, status, op, defer, callbacks, disposed>>
  PROVE  IInv'
<1>1. /\ pc' \in [Fibers \cup {Runner} -> Places] /\ pc'[Runner] = pc[Runner]
      /\ pc'[cur] = p /\ \A g \in Fibers : g # cur => pc'[g] = pc[g]
  BY SchedulerAssumption DEF IInv, SchedTypes, Places
<1>2. Active' = Active /\ cur \in Active /\ UNCHANGED stack
  BY DEF Active, deferVars
<1>3. SchedTypes'
  BY <1>1, <1>2 DEF IInv, SchedTypes, FiberLists, Single
<1>4. Stacked'
  <2>1. \A f \in Fibers : stack'[f] # <<>> =>
          f \in Active' /\ pc'[f] \in {"run", "cancel", "dispose"}
    BY <1>1, <1>2 DEF IInv, Stacked
  <2>2. pc'[Root] = "dispose" => pc[Root] = "dispose"
    BY <1>1 DEF Fibers
  <2> QED
    BY <1>2, <2>1, <2>2 DEF IInv, Stacked
<1>5. \A g \in Fibers : pc[g] = "await" /\ g \notin Active /\ g \notin Range(ready)
        => pc'[g] = "await" /\ g \notin Active' /\ g \notin Range(ready')
  BY <1>1, <1>2
<1> QED
  BY <1>3, <1>4, <1>5, SchedulerMove

\* The steps of the scheduler.
LEMMA SchedulerInv ==
  ASSUME IInv, SchedulerStep
  PROVE  IInv'
<1>1. Idle /\ UNCHANGED deferVars
  BY DEF SchedulerStep
<1>2. /\ "drain" \in Places \ {"dispose"} /\ "done" \in Places \ {"dispose"}
      /\ Root \in Fibers /\ pc[Runner] = "run" /\ cur \in Fibers \cup {Runner}
      /\ status \in [Fibers -> TaskStatus] /\ callbacks = <<>> /\ Tasks \subseteq Fibers
  BY DEF Places, Fibers, IInv, SchedTypes, FiberLists
<1>3. CASE dispatch_tasks
  BY <1>1, <1>3, DispatchInv
<1>4. ASSUME NEW t \in Tasks, run_task_fiber(t) PROVE IInv'
  <2>1. /\ cur = t /\ pc[t] = "run" /\ pc' = [pc EXCEPT ![cur] = "done"] /\ async_fiber_suspend
        /\ status' = [status EXCEPT ![t] = "FINISHED"] /\ t \in Fibers
        /\ UNCHANGED <<ready, op, defer, callbacks, disposed>>
    BY <1>2, <1>4 DEF run_task_fiber
  <2>2. status' \in [Fibers -> TaskStatus]
    BY <1>2, <2>1 DEF TaskStatus
  <2> QED
    BY <1>1, <1>2, <2>1, <2>2, SuspendInv
<1>5. CASE async_task_scheduler_dispose
  <2>1. /\ cur = Root /\ pc[Root] = "run" /\ pc' = [pc EXCEPT ![cur] = "drain"] /\ async_fiber_suspend
        /\ UNCHANGED <<ready, status, op, defer, callbacks, disposed>>
    BY <1>5 DEF async_task_scheduler_dispose
  <2> QED
    BY <1>1, <1>2, <2>1, SuspendInv
<1>6. CASE run_scheduler_fiber({})
  BY <1>1, <1>6, LoopEndsInv
<1>7. CASE DisposeDrain(Range(shutdown))
  <2>1. /\ cur = Root /\ pc[Root] = "dispose" /\ pc' = [pc EXCEPT ![cur] = "drain"] /\ async_fiber_suspend
        /\ UNCHANGED <<ready, status, op, defer, callbacks, disposed>>
    BY <1>7 DEF DisposeDrain
  <2> QED
    BY <1>1, <1>2, <2>1, SuspendInv
<1>8. ASSUME NEW f \in Fibers, CancelInvoke(f) PROVE IInv'
  <2>1. f # Runner
    BY SchedulerAssumption
  <2>2. /\ cur = f /\ pc[f] = "run" /\ pc' = [pc EXCEPT ![cur] = "cancel"]
        /\ UNCHANGED <<cur, fibers, ready, status, op, defer, callbacks, disposed>>
    BY <1>8, <2>1 DEF CancelInvoke, MayCall
  <2> QED
    BY <1>1, <2>2, CancelInv
<1>9. CASE CancelLoop
  <2>1. /\ pc[cur] = "cancel" /\ pc' = [pc EXCEPT ![cur] = "run"]
        /\ UNCHANGED <<cur, fibers, ready, status, op, defer, callbacks, disposed>>
    BY <1>2, <1>9 DEF CancelLoop
  <2>2. cur \in Fibers
    BY <1>2, <2>1
  <2> QED
    BY <1>1, <2>1, <2>2, CancelInv
<1> QED
  BY <1>3, <1>4, <1>5, <1>6, <1>7, <1>8, <1>9 DEF SchedulerStep

-----------------------------------------------------------------------------
(***************************************************************************)
(* The theorems.                                                           *)
(***************************************************************************)

\* The invariant holds when the tasks start.
LEMMA InitInv ==
  ASSUME Init
  PROVE  IInv
<1>1. /\ SchedInit /\ FiberLists /\ ready \in Seq(Tasks) /\ IsInjective(ready)
  BY SchedStart DEF Init
<1>2. /\ cur = Root /\ fibers = <<>> /\ pc = [f \in Fibers \cup {Runner} |-> "run"]
      /\ defer = {} /\ callbacks = <<>> /\ disposed = FALSE /\ Root \in Fibers
  BY <1>1 DEF SchedInit, Fibers
<1>3. Active = {Root} /\ Range(ready) \subseteq Tasks /\ Range(fibers) = {} /\ Len(fibers) = 0
  BY <1>1, <1>2, EmptyList, InList DEF Active
<1>4. Single
  BY <1>1, <1>2, <1>3, EmptyList, SchedulerAssumption DEF Single, Fibers
<1>5. SchedTypes
  BY <1>1, <1>2, <1>4 DEF SchedTypes, Places
<1>6. /\ state = [d \in States |-> IF d \in Plain \cup Outside THEN "PENDING" ELSE "none"]
      /\ ops = [d \in States |-> <<>>] /\ handlers = Handled /\ dropped = {}
      /\ on = [f \in Fibers |-> "none"] /\ stack = [f \in Fibers |-> <<>>]
      /\ settled = [d \in States |-> <<>>]
      /\ shutdown \in [1..Cardinality(Plain) -> Plain] /\ IsInjective(shutdown)
  BY DEF Init
<1>7. Stacked
  BY <1>2, <1>6 DEF Stacked
<1>8. /\ Plain \subseteq States /\ Plain \cap Outside = {}
      /\ \A x \in Transformed : x \in States /\ x \notin Plain /\ x \notin Outside
      /\ IsFiniteSet(Plain) /\ Cardinality(Plain) \in Nat
  <2>1. /\ Plain \subseteq States /\ Plain \cap Outside = {}
        /\ \A x \in Transformed : x \in States /\ x \notin Plain /\ x \notin Outside
    BY DeferredAssumption DEF States
  <2> QED
    BY <2>1, DeferredAssumption, FS_Subset, FS_CardinalityType
<1>9. \A f \in Fibers : Range(stack[f]) = {} /\ Len(stack[f]) = 0
  BY <1>6, EmptyList
<1>10. \A d \in States : Range(ops[d]) = {} /\ Len(ops[d]) = 0 /\ ops[d] = <<>>
  BY <1>6, EmptyList
<1>11. shutdown \in Seq(Plain) /\ shutdown \in Seq(States)
  BY <1>6, <1>8
<1>12. StateTypes /\ CallTypes
  <2>1. StateTypes
    BY <1>6, <1>11, EmptyList DEF StateTypes
  <2>2. CallTypes
    BY <1>6, EmptyList, DeferredAssumption DEF CallTypes
  <2> QED
    BY <2>1, <2>2
<1>13. Framing /\ OneTransform
  BY <1>9 DEF Framing, OneTransform
<1>14. Listed /\ Served
  <2>1. \A d \in States : Once(ops[d])
    BY <1>10 DEF Once
  <2> QED
    BY <1>10, <2>1 DEF Listed, Served
<1>15. Transforms
  BY <1>6, <1>8 DEF Transforms
<1>16. Range(shutdown) = Plain
  <2>1. IsFiniteSet(Range(shutdown)) /\ Cardinality(Range(shutdown)) = Len(shutdown)
    BY <1>6, <1>11, ListCardinality
  <2>2. Len(shutdown) = Cardinality(Plain) /\ Range(shutdown) \subseteq Plain
    BY <1>6, <1>8, <1>11, InList
  <2> QED
    BY <1>8, <2>1, <2>2, FS_Subset
<1>17. Shutting
  <2>1. \A d \in States : d \in Range(shutdown) <=> state[d] = "PENDING" /\ d \notin Outside
    BY <1>6, <1>8, <1>16
  <2>2. \A x \in Transformed : x \notin Range(shutdown)
    BY <1>8, <1>16
  <2>3. \A i \in 1..Len(shutdown) : shutdown[i] \in Range(shutdown)
    BY <1>11, InList
  <2> QED
    BY <1>6, <2>1, <2>2, <2>3 DEF Shutting
<1>18. Counted
  BY <1>6 DEF Counted, CountedAt, Final
<1>19. Handlers
  <2>1. Range(handlers) \subseteq Plain /\ IsInjective(handlers)
    BY <1>6, DeferredAssumption, InList
  <2> QED
    BY <1>6, <1>8, <2>1 DEF Handlers, HandlersPending
<1> QED
  BY <1>5, <1>7, <1>12, <1>13, <1>14, <1>15, <1>17, <1>18, <1>19 DEF IInv, Network

\* Every step preserves it.
LEMMA NextInv ==
  ASSUME IInv, Next
  PROVE  IInv'
<1>1. ASSUME NEW f \in Fibers, FiberStep(f) PROVE IInv'
  <2>1. "RESOLVED" \in Final /\ "FAILED" \in Final
    BY DEF Final
  <2> QED
    BY <1>1, <2>1, ResolveInv, AwaitInv, TaskEndsInv, DestroyInv, CombineInv, TransformInv,
       ContinuationInv, TransformReturnsInv, TriggerInv, CombineInputInv, CountdownInv,
       AwaitReturnsInv, CancelDeferInv, HandlerReturnsInv
    DEF FiberStep
<1> QED
  BY <1>1, ShutdownInv, SchedulerInv DEF Next

\* In every reachable state of any program with any number of fibers, Deferred
\* objects, tasks, combines and transforms the inductive invariant holds.
THEOREM Invariant == Spec => []IInv
<1>1. IInv /\ UNCHANGED vars => IInv'
  <2>1. SUFFICES ASSUME IInv, UNCHANGED vars PROVE IInv'
    OBVIOUS
  <2>2. UNCHANGED <<cur, fibers, ready, status, pc, op, defer, callbacks, disposed, state,
                    ops, shutdown, on, stack, settled, handlers, dropped>>
    BY <2>1 DEF vars, schedVars, deferVars
  <2>3. handlers' \in Seq(Plain) /\ dropped' \subseteq Plain /\ Handlers'
    BY <2>1, <2>2 DEF IInv, Network, CallTypes, Handlers, HandlersPending
  <2> QED
    BY <2>1, <2>2, <2>3, NothingSettled
<1>2. Init => IInv
  BY InitInv
<1>3. IInv /\ [Next]_vars => IInv'
  BY <1>1, NextInv
<1> QED
  BY <1>2, <1>3, PTL DEF Spec

\* A state is settled at most once: transform_cb and shutdown_state, which do
\* not look at the status they overwrite, meet a pending one.  The one exception
\* is a transform of a task, which may be settled first by the disposal and then,
\* when the task ends, by its own continuation; never a third time.
THEOREM SettledAtMostOnce == Spec => []SettledOnce
<1>1. IInv => SettledOnce
  <2>1. SUFFICES ASSUME IInv, NEW d \in States
                 PROVE  \/ Len(settled[d]) <= 1
                        \/ Exposed(d) /\ settled[d] = <<"disposal", "call">>
    BY DEF SettledOnce
  <2>2. CountedAt(d)
    BY <2>1 DEF IInv, Network, Counted
  <2>3. Len(<<>>) <= 1 /\ Len(<<"call">>) <= 1 /\ Len(<<"disposal">>) <= 1
    OBVIOUS
  <2> QED
    BY <2>2, <2>3 DEF CountedAt
<1> QED
  BY <1>1, Invariant, PTL

\* Nobody is left on a settled state once trigger_ops has gone through it (the
\* assertion of release_state).
THEOREM NobodyLeftBehind == Spec => []NobodyLeft
<1>1. IInv => NobodyLeft
  <2>1. SUFFICES ASSUME IInv, NEW d \in States, state[d] \in {"RESOLVED", "FAILED"},
                        Calling("trigger", d) = {}
                 PROVE  ops[d] = <<>>
    BY DEF NobodyLeft
  <2>2. ~Framed("trigger", d)
    <3>1. SUFFICES ASSUME NEW f \in Fibers, NEW r \in Range(stack[f]),
                          r.at = "trigger", r.d = d
                   PROVE  FALSE
      BY DEF Framed
    <3>2. stack[f] \in Seq(Frames)
      BY <2>1 DEF IInv, Network, CallTypes
    <3>3. PICK i \in 1..Len(stack[f]) : stack[f][i] = r
      BY <3>2, InList
    <3>4. i \in {j \in DOMAIN stack[f] : stack[f][j].at = "trigger" /\ stack[f][j].d = d}
      BY <3>1, <3>2, <3>3, InList
    <3>5. <<f, i>> \in Calling("trigger", d)
      BY <3>4 DEF Calling
    <3> QED
      BY <2>1, <3>5
  <2>3. state[d] # "PENDING"
    BY <2>1
  <2> QED
    BY <2>1, <2>2, <2>3 DEF IInv, Network, Served
<1> QED
  BY <1>1, Invariant, PTL

\* Only a pending Deferred that has not been destroyed can be cancelled.
THEOREM CancelledWhilePending == Spec => []HandlersPending
<1>1. IInv => HandlersPending
  BY DEF IInv, Handlers
<1> QED
  BY <1>1, Invariant, PTL

-----------------------------------------------------------------------------
(***************************************************************************)
(* The counters of a combine.                                              *)
(***************************************************************************)
Stacks == [Fibers -> Seq(Frames)]

\* The stacks st with a call of f pushed, or its innermost one popped.
Pushed(st, f, r) == [st EXCEPT ![f] = Append(@, r)]
Popped(st, f)    == [st EXCEPT ![f] = Front(@)]

\* The frames of st at one of the places A that are about c.
Holds(st, A, c, f, i) ==
  i <= Len(st[f]) /\ st[f][i].at \in A /\ st[f][i].d = c
CallsOf(st, A, c) == {p \in Fibers \X (Nat \ {0}) : Holds(st, A, c, p[1], p[2])}

\* The operations of c on the lists os.
OperationsOf(os, c) ==
  {p \in States \X (Nat \ {0}) : p[2] <= Len(os[p[1]]) /\ os[p[1]][p[2]] = c}

Listing == {"combining"}
Running == {"combine", "countdown"}

\* combine still has n inputs to go through, or is over (n = 0).
LeftAt(st, c, p, n) ==
  /\ CallsOf(st, Listing, c) = {p}
  /\ st[p[1]][p[2]].i \in 1..(Len(Inputs[c]) + 1)
  /\ n = Len(Inputs[c]) + 1 - st[p[1]][p[2]].i
Remaining(st, c, n) ==
  \/ CallsOf(st, Listing, c) = {} /\ n = 0
  \/ \E p \in Fibers \X (Nat \ {0}) : LeftAt(st, c, p, n)

Calls(st, c, n) ==
  IsFiniteSet(CallsOf(st, Running, c)) /\ Cardinality(CallsOf(st, Running, c)) = n
Operations(os, c, n) ==
  IsFiniteSet(OperationsOf(os, c)) /\ Cardinality(OperationsOf(os, c)) = n

\* The counters agree with l listed, n unlisted and r running operations.
Agree(c, l, n, r) ==
  /\ started[c] = l + n
  /\ counter[c] = l + n + r
  /\ counter[c] = 0 => state[c] # "PENDING"

Balanced(c) ==
  \E l, r \in Nat :
    /\ Operations(ops, c, l) /\ Calls(stack, c, r)
    /\ IF state[c] = "none"
       THEN /\ l = 0 /\ r = 0 /\ CallsOf(stack, Listing, c) = {}
            /\ started[c] = Len(Inputs[c]) /\ counter[c] = Len(Inputs[c])
       ELSE \E n \in Nat : Remaining(stack, c, n) /\ Agree(c, l, n, r)

Balance ==
  /\ started \in [Combined -> Nat] /\ counter \in [Combined -> Nat]
  /\ \A c \in Combined : Balanced(c)

-----------------------------------------------------------------------------
\* What pushing a call changes.
PushEffect(st, f, r, A, c) ==
  LET n == Len(st[f]) + 1
      S == CallsOf(st, A, c)
      T == CallsOf(Pushed(st, f, r), A, c) IN
  /\ Pushed(st, f, r) \in Stacks
  /\ <<f, n>> \in Fibers \X (Nat \ {0}) /\ <<f, n>> \notin S
  /\ Pushed(st, f, r)[f][n] = r
  /\ r.at \in A /\ r.d = c => T = S \cup {<<f, n>>}
  /\ ~(r.at \in A /\ r.d = c) => T = S
  /\ \A p \in S : Pushed(st, f, r)[p[1]][p[2]] = st[p[1]][p[2]]

\* A call is pushed.
LEMMA PushedCalls ==
  ASSUME NEW st \in Stacks, NEW f \in Fibers, NEW r \in Frames, NEW A, NEW c
  PROVE  PushEffect(st, f, r, A, c)
<1> DEFINE n == Len(st[f]) + 1
           u == Pushed(st, f, r)
           t == Append(st[f], r)
<1>0. st[f] \in Seq(Frames) /\ \A g \in Fibers : st[g] \in Seq(Frames) /\ Len(st[g]) \in Nat
  BY InList DEF Stacks
<1>1. /\ t \in Seq(Frames) /\ Len(t) = n /\ t[n] = r /\ n \in Nat \ {0}
      /\ \A i \in 1..Len(st[f]) : t[i] = st[f][i]
  BY <1>0, AppendAt, AppendList
<1>2. u \in Stacks /\ u[f] = t /\ \A g \in Fibers : g # f => u[g] = st[g]
  BY <1>1 DEF Pushed, Stacks
<1> HIDE DEF u, t
<1>3. ASSUME NEW g \in Fibers, NEW i \in Nat \ {0}, <<g, i>> # <<f, n>>
      PROVE  /\ Holds(u, A, c, g, i) <=> Holds(st, A, c, g, i)
             /\ i <= Len(st[g]) => u[g][i] = st[g][i]
  <2>1. CASE g # f
    BY <1>2, <2>1 DEF Holds
  <2>2. CASE g = f
    <3>1. i # n
      BY <1>3, <2>2
    <3>2. i <= Len(u[f]) <=> i <= Len(st[f])
      BY <1>0, <1>1, <1>2, <3>1
    <3>3. i <= Len(st[f]) => u[f][i] = st[f][i]
      BY <1>0, <1>1, <1>2
    <3> QED
      BY <2>2, <3>2, <3>3 DEF Holds
  <2> QED
    BY <2>1, <2>2
<1>4. ~Holds(st, A, c, f, n)
  BY <1>0 DEF Holds
<1>5. Holds(u, A, c, f, n) <=> r.at \in A /\ r.d = c
  BY <1>1, <1>2 DEF Holds
<1> HIDE DEF n
<1>6. <<f, n>> \in Fibers \X (Nat \ {0}) /\ <<f, n>> \notin CallsOf(st, A, c)
  BY <1>1, <1>4 DEF CallsOf
<1>7. ASSUME NEW p \in Fibers \X (Nat \ {0}), p # <<f, n>>
      PROVE  /\ p \in CallsOf(u, A, c) <=> p \in CallsOf(st, A, c)
             /\ p \in CallsOf(st, A, c) => u[p[1]][p[2]] = st[p[1]][p[2]]
  <2>1. PICK g \in Fibers, i \in Nat \ {0} : p = <<g, i>>
    OBVIOUS
  <2>2. <<g, i>> # <<f, n>>
    BY <1>7, <2>1
  <2> QED
    BY <1>3, <2>1, <2>2 DEF CallsOf, Holds
<1>8. <<f, n>> \in CallsOf(u, A, c) <=> r.at \in A /\ r.d = c
  BY <1>5, <1>6 DEF CallsOf
<1>9. CallsOf(u, A, c) \subseteq Fibers \X (Nat \ {0}) /\ CallsOf(st, A, c) \subseteq Fibers \X (Nat \ {0})
  BY DEF CallsOf
<1>10. u[f][n] = r
  BY <1>1, <1>2
<1>11. \A p \in CallsOf(st, A, c) : u[p[1]][p[2]] = st[p[1]][p[2]]
  BY <1>6, <1>7, <1>9
<1>12. r.at \in A /\ r.d = c => CallsOf(u, A, c) = CallsOf(st, A, c) \cup {<<f, n>>}
  BY <1>6, <1>7, <1>8, <1>9
<1>13. ~(r.at \in A /\ r.d = c) => CallsOf(u, A, c) = CallsOf(st, A, c)
  BY <1>6, <1>7, <1>8, <1>9
<1> QED
  BY <1>2, <1>6, <1>10, <1>11, <1>12, <1>13 DEF u, n, PushEffect

\* What popping the innermost call changes.
PopEffect(st, f, A, c) ==
  LET n == Len(st[f])
      S == CallsOf(st, A, c)
      T == CallsOf(Popped(st, f), A, c) IN
  /\ Popped(st, f) \in Stacks
  /\ <<f, n>> \in Fibers \X (Nat \ {0}) /\ st[f][n] = Last(st[f])
  /\ T = S \ {<<f, n>>}
  /\ <<f, n>> \in S <=> Last(st[f]).at \in A /\ Last(st[f]).d = c
  /\ \A p \in T : Popped(st, f)[p[1]][p[2]] = st[p[1]][p[2]]

\* The innermost call is popped.
LEMMA PoppedCalls ==
  ASSUME NEW st \in Stacks, NEW f \in Fibers, NEW A, NEW c, st[f] # <<>>
  PROVE  PopEffect(st, f, A, c)
<1> DEFINE n == Len(st[f])
           u == Popped(st, f)
           t == Front(st[f])
<1>0. st[f] \in Seq(Frames) /\ \A g \in Fibers : st[g] \in Seq(Frames) /\ Len(st[g]) \in Nat
  BY InList DEF Stacks
<1>1. /\ t \in Seq(Frames) /\ Len(t) = n - 1 /\ n \in Nat \ {0}
      /\ \A i \in 1..(n - 1) : t[i] = st[f][i]
  BY <1>0, FrontList
<1>2. u \in Stacks /\ u[f] = t /\ \A g \in Fibers : g # f => u[g] = st[g]
  BY <1>1 DEF Popped, Stacks
<1>21. st[f][n] = Last(st[f])
  BY <1>0, FrontList
<1> HIDE DEF u, t
<1>3. ASSUME NEW g \in Fibers, NEW i \in Nat \ {0}, <<g, i>> # <<f, n>>
      PROVE  /\ Holds(u, A, c, g, i) <=> Holds(st, A, c, g, i)
             /\ i <= Len(u[g]) => u[g][i] = st[g][i]
  <2>1. CASE g # f
    BY <1>2, <2>1 DEF Holds
  <2>2. CASE g = f
    <3>1. i # n
      BY <1>3, <2>2
    <3>2. i <= Len(u[f]) <=> i <= Len(st[f])
      BY <1>0, <1>1, <1>2, <3>1
    <3>3. i <= Len(u[f]) => u[f][i] = st[f][i]
      BY <1>0, <1>1, <1>2
    <3> QED
      BY <2>2, <3>2, <3>3 DEF Holds
  <2> QED
    BY <2>1, <2>2
<1>4. ~Holds(u, A, c, f, n)
  BY <1>0, <1>1, <1>2 DEF Holds
<1>5. Holds(st, A, c, f, n) <=> Last(st[f]).at \in A /\ Last(st[f]).d = c
  BY <1>0, <1>1, <1>21 DEF Holds
<1> HIDE DEF n
<1>6. <<f, n>> \in Fibers \X (Nat \ {0}) /\ <<f, n>> \notin CallsOf(u, A, c)
  BY <1>1, <1>4 DEF CallsOf
<1>7. ASSUME NEW p \in Fibers \X (Nat \ {0}), p # <<f, n>>
      PROVE  /\ p \in CallsOf(u, A, c) <=> p \in CallsOf(st, A, c)
             /\ p \in CallsOf(u, A, c) => u[p[1]][p[2]] = st[p[1]][p[2]]
  <2>1. PICK g \in Fibers, i \in Nat \ {0} : p = <<g, i>>
    OBVIOUS
  <2>2. <<g, i>> # <<f, n>>
    BY <1>7, <2>1
  <2> QED
    BY <1>3, <2>1, <2>2 DEF CallsOf, Holds
<1>8. <<f, n>> \in CallsOf(st, A, c) <=> Last(st[f]).at \in A /\ Last(st[f]).d = c
  BY <1>5, <1>6 DEF CallsOf
<1>9. CallsOf(u, A, c) \subseteq Fibers \X (Nat \ {0}) /\ CallsOf(st, A, c) \subseteq Fibers \X (Nat \ {0})
  BY DEF CallsOf
<1>11. \A p \in CallsOf(u, A, c) : u[p[1]][p[2]] = st[p[1]][p[2]]
  BY <1>6, <1>7, <1>9
<1>12. CallsOf(u, A, c) = CallsOf(st, A, c) \ {<<f, n>>}
  BY <1>6, <1>7, <1>9
<1> QED
  BY <1>2, <1>6, <1>8, <1>11, <1>12, <1>21 DEF u, n, PopEffect

\* Neither the loop of combine nor combine_cb.
Neutral(r, c) == r.at \in Listing \cup Running => r.d # c

\* The stacks u and st are alike for the combine c, and the lists v and os.
SameLeft(st, u, c) ==
  /\ CallsOf(u, Listing, c) = CallsOf(st, Listing, c)
  /\ \A n : Remaining(st, c, n) => Remaining(u, c, n)
SameCalls(st, u, c) == SameLeft(st, u, c) /\ \A n : Calls(st, c, n) => Calls(u, c, n)
SameOperations(os, v, c) == \A l \in Nat : Operations(os, c, l) => Operations(v, c, l)

\* What is left and what runs does not change when another call is pushed or
\* popped.
LEMMA PushNeutral ==
  ASSUME NEW st \in Stacks, NEW f \in Fibers, NEW r \in Frames, NEW c, Neutral(r, c)
  PROVE  Pushed(st, f, r) \in Stacks /\ SameCalls(st, Pushed(st, f, r), c)
<1> DEFINE u == Pushed(st, f, r)
<1>0. PushEffect(st, f, r, Listing, c) /\ PushEffect(st, f, r, Running, c)
  BY PushedCalls
<1>1. ~(r.at \in Listing /\ r.d = c) /\ ~(r.at \in Running /\ r.d = c)
  BY DEF Neutral
<1>2. /\ u \in Stacks /\ CallsOf(u, Listing, c) = CallsOf(st, Listing, c)
      /\ \A p \in CallsOf(st, Listing, c) : u[p[1]][p[2]] = st[p[1]][p[2]]
  BY <1>1, <1>0 DEF PushEffect
<1>3. CallsOf(u, Running, c) = CallsOf(st, Running, c)
  BY <1>1, <1>0 DEF PushEffect
<1> HIDE DEF u
<1>4. ASSUME NEW n, Remaining(st, c, n) PROVE Remaining(u, c, n)
  <2>1. CASE CallsOf(st, Listing, c) = {}
    BY <1>2, <1>4, <2>1 DEF Remaining, LeftAt
  <2>2. CASE CallsOf(st, Listing, c) # {}
    <3>1. PICK p \in Fibers \X (Nat \ {0}) : LeftAt(st, c, p, n)
      BY <1>4, <2>2 DEF Remaining
    <3>2. LeftAt(u, c, p, n)
      BY <1>2, <3>1 DEF LeftAt
    <3> QED
      BY <3>2 DEF Remaining
  <2> QED
    BY <2>1, <2>2
<1> QED
  BY <1>2, <1>3, <1>4 DEF u, Calls, SameCalls, SameLeft

LEMMA PopNeutral ==
  ASSUME NEW st \in Stacks, NEW f \in Fibers, st[f] # <<>>, NEW c,
         Neutral(Last(st[f]), c)
  PROVE  Popped(st, f) \in Stacks /\ SameCalls(st, Popped(st, f), c)
<1> DEFINE u == Popped(st, f)
           r == Last(st[f])
<1>0. PopEffect(st, f, Listing, c) /\ PopEffect(st, f, Running, c)
  BY PoppedCalls
<1>1. ~(r.at \in Listing /\ r.d = c) /\ ~(r.at \in Running /\ r.d = c)
  BY DEF Neutral
<1>2. /\ u \in Stacks /\ CallsOf(u, Listing, c) = CallsOf(st, Listing, c)
      /\ \A p \in CallsOf(u, Listing, c) : u[p[1]][p[2]] = st[p[1]][p[2]]
  BY <1>1, <1>0 DEF PopEffect
<1>3. CallsOf(u, Running, c) = CallsOf(st, Running, c)
  BY <1>1, <1>0 DEF PopEffect
<1> HIDE DEF u
<1>4. ASSUME NEW n, Remaining(st, c, n) PROVE Remaining(u, c, n)
  <2>1. CASE CallsOf(st, Listing, c) = {}
    BY <1>2, <1>4, <2>1 DEF Remaining, LeftAt
  <2>2. CASE CallsOf(st, Listing, c) # {}
    <3>1. PICK p \in Fibers \X (Nat \ {0}) : LeftAt(st, c, p, n)
      BY <1>4, <2>2 DEF Remaining
    <3>2. LeftAt(u, c, p, n)
      BY <1>2, <3>1 DEF LeftAt
    <3> QED
      BY <3>2 DEF Remaining
  <2> QED
    BY <2>1, <2>2
<1> QED
  BY <1>2, <1>3, <1>4 DEF u, Calls, SameCalls, SameLeft

\* combine_cb begins: one more runs; and nothing is left differently.
LEMMA PushRunning ==
  ASSUME NEW st \in Stacks, NEW f \in Fibers, NEW r \in Frames, NEW c,
         r.at \in Running, r.d = c
  PROVE  LET u == Pushed(st, f, r) IN
         /\ u \in Stacks
         /\ SameLeft(st, u, c)
         /\ \A n \in Nat : Calls(st, c, n) => Calls(u, c, n + 1)
<1> DEFINE u == Pushed(st, f, r)
           q == <<f, Len(st[f]) + 1>>
<1>0. PushEffect(st, f, r, Listing, c) /\ PushEffect(st, f, r, Running, c)
  BY PushedCalls
<1>1. r.at \notin Listing
  BY DEF Running, Listing
<1>2. /\ u \in Stacks /\ CallsOf(u, Listing, c) = CallsOf(st, Listing, c)
      /\ \A p \in CallsOf(st, Listing, c) : u[p[1]][p[2]] = st[p[1]][p[2]]
  BY <1>1, <1>0 DEF PushEffect
<1>3. CallsOf(u, Running, c) = CallsOf(st, Running, c) \cup {q} /\ q \notin CallsOf(st, Running, c)
  BY <1>0 DEF PushEffect
<1> HIDE DEF u, q
<1>4. ASSUME NEW n, Remaining(st, c, n) PROVE Remaining(u, c, n)
  <2>1. CASE CallsOf(st, Listing, c) = {}
    BY <1>2, <1>4, <2>1 DEF Remaining, LeftAt
  <2>2. CASE CallsOf(st, Listing, c) # {}
    <3>1. PICK p \in Fibers \X (Nat \ {0}) : LeftAt(st, c, p, n)
      BY <1>4, <2>2 DEF Remaining
    <3>2. LeftAt(u, c, p, n)
      BY <1>2, <3>1 DEF LeftAt
    <3> QED
      BY <3>2 DEF Remaining
  <2> QED
    BY <2>1, <2>2
<1>5. ASSUME NEW n \in Nat, Calls(st, c, n) PROVE Calls(u, c, n + 1)
  BY <1>3, <1>5, FS_AddElement DEF Calls
<1> QED
  BY <1>2, <1>4, <1>5 DEF u, SameLeft

LEMMA PopRunning ==
  ASSUME NEW st \in Stacks, NEW f \in Fibers, st[f] # <<>>, NEW c,
         Last(st[f]).at \in Running, Last(st[f]).d = c
  PROVE  LET u == Popped(st, f) IN
         /\ u \in Stacks
         /\ SameLeft(st, u, c)
         /\ \A n \in Nat : Calls(st, c, n) => n > 0 /\ Calls(u, c, n - 1)
<1> DEFINE u == Popped(st, f)
           q == <<f, Len(st[f])>>
<1>0. PopEffect(st, f, Listing, c) /\ PopEffect(st, f, Running, c)
  BY PoppedCalls
<1>1. Last(st[f]).at \notin Listing
  BY DEF Running, Listing
<1>2. /\ u \in Stacks /\ CallsOf(u, Listing, c) = CallsOf(st, Listing, c)
      /\ \A p \in CallsOf(u, Listing, c) : u[p[1]][p[2]] = st[p[1]][p[2]]
  BY <1>1, <1>0 DEF PopEffect
<1>3. CallsOf(u, Running, c) = CallsOf(st, Running, c) \ {q} /\ q \in CallsOf(st, Running, c)
  BY <1>0 DEF PopEffect
<1> HIDE DEF u, q
<1>4. ASSUME NEW n, Remaining(st, c, n) PROVE Remaining(u, c, n)
  <2>1. CASE CallsOf(st, Listing, c) = {}
    BY <1>2, <1>4, <2>1 DEF Remaining, LeftAt
  <2>2. CASE CallsOf(st, Listing, c) # {}
    <3>1. PICK p \in Fibers \X (Nat \ {0}) : LeftAt(st, c, p, n)
      BY <1>4, <2>2 DEF Remaining
    <3>2. LeftAt(u, c, p, n)
      BY <1>2, <3>1 DEF LeftAt
    <3> QED
      BY <3>2 DEF Remaining
  <2> QED
    BY <2>1, <2>2
<1>5. ASSUME NEW n \in Nat, Calls(st, c, n) PROVE n > 0 /\ Calls(u, c, n - 1)
  <2>1. n # 0
    BY <1>3, <1>5, FS_EmptySet DEF Calls
  <2>2. Calls(u, c, n - 1)
    <3>1. /\ IsFiniteSet(CallsOf(st, Running, c))
          /\ Cardinality(CallsOf(st, Running, c)) = n
      BY <1>5 DEF Calls
    <3>2. /\ IsFiniteSet(CallsOf(st, Running, c) \ {q})
          /\ Cardinality(CallsOf(st, Running, c) \ {q}) = n - 1
      BY ONLY <1>3, <3>1, FS_RemoveElement
    <3> QED
      BY ONLY <1>3, <3>2 DEF Calls
  <2> QED
    BY <2>1, <2>2
<1> QED
  BY <1>2, <1>4, <1>5 DEF u, SameLeft

\* The loop of combine begins, goes on, or ends.
LEMMA PushListing ==
  ASSUME NEW st \in Stacks, NEW f \in Fibers, NEW r \in Frames, NEW c,
         r.at = "combining", r.d = c, r.i \in 1..(Len(Inputs[c]) + 1),
         CallsOf(st, Listing, c) = {}
  PROVE  LET u == Pushed(st, f, r) IN
         /\ u \in Stacks
         /\ Remaining(u, c, Len(Inputs[c]) + 1 - r.i)
         /\ \A n : Calls(st, c, n) => Calls(u, c, n)
<1> DEFINE u == Pushed(st, f, r)
           q == <<f, Len(st[f]) + 1>>
<1>0. PushEffect(st, f, r, Listing, c) /\ PushEffect(st, f, r, Running, c)
  BY PushedCalls
<1>1. r.at \in Listing /\ r.at \notin Running
  BY DEF Running, Listing
<1>2. /\ u \in Stacks /\ CallsOf(u, Listing, c) = CallsOf(st, Listing, c) \cup {q}
      /\ q \in Fibers \X (Nat \ {0}) /\ u[f][Len(st[f]) + 1] = r
  BY <1>1, <1>0 DEF PushEffect
<1>3. CallsOf(u, Running, c) = CallsOf(st, Running, c)
  BY <1>1, <1>0 DEF PushEffect
<1>4. q[1] = f /\ q[2] = Len(st[f]) + 1
  OBVIOUS
<1> HIDE DEF u, q
<1>5. LeftAt(u, c, q, Len(Inputs[c]) + 1 - r.i)
  BY <1>2, <1>4 DEF LeftAt
<1> QED
  BY <1>2, <1>3, <1>5 DEF u, Remaining, Calls

LEMMA PopListing ==
  ASSUME NEW st \in Stacks, NEW f \in Fibers, st[f] # <<>>, NEW c,
         Last(st[f]).at = "combining", Last(st[f]).d = c
  PROVE  LET u == Popped(st, f) IN
         /\ u \in Stacks
         /\ \A n : Remaining(st, c, n) =>
              /\ CallsOf(u, Listing, c) = {}
              /\ Last(st[f]).i \in 1..(Len(Inputs[c]) + 1)
              /\ n = Len(Inputs[c]) + 1 - Last(st[f]).i
         /\ \A n : Calls(st, c, n) => Calls(u, c, n)
<1> DEFINE u == Popped(st, f)
           q == <<f, Len(st[f])>>
<1>0. PopEffect(st, f, Listing, c) /\ PopEffect(st, f, Running, c)
  BY PoppedCalls
<1>1. Last(st[f]).at \in Listing /\ Last(st[f]).at \notin Running
  BY DEF Running, Listing
<1>2. /\ u \in Stacks /\ CallsOf(u, Listing, c) = CallsOf(st, Listing, c) \ {q}
      /\ q \in CallsOf(st, Listing, c) /\ st[f][Len(st[f])] = Last(st[f])
  BY <1>1, <1>0 DEF PopEffect
<1>3. CallsOf(u, Running, c) = CallsOf(st, Running, c)
  BY <1>1, <1>0 DEF PopEffect
<1>4. q[1] = f /\ q[2] = Len(st[f])
  OBVIOUS
<1> HIDE DEF u, q
<1>5. ASSUME NEW n, Remaining(st, c, n)
      PROVE  /\ CallsOf(u, Listing, c) = {}
             /\ Last(st[f]).i \in 1..(Len(Inputs[c]) + 1)
             /\ n = Len(Inputs[c]) + 1 - Last(st[f]).i
  <2>1. PICK p \in Fibers \X (Nat \ {0}) : LeftAt(st, c, p, n)
    BY <1>2, <1>5 DEF Remaining
  <2>2. p = q
    BY <1>2, <2>1 DEF LeftAt
  <2> QED
    BY <1>2, <1>4, <2>1, <2>2 DEF LeftAt
<1> QED
  BY <1>2, <1>3, <1>5 DEF u, Calls

-----------------------------------------------------------------------------
Lists == [States -> Seq(Awaiters)]

\* The lists os with e appended to that of d, or without its first operation.
Appended(os, d, e) == [os EXCEPT ![d] = Append(@, e)]
Taken(os, d)       == [os EXCEPT ![d] = Tail(@)]

\* An operation is appended.
LEMMA AppendOperation ==
  ASSUME NEW os \in Lists, NEW d \in States, NEW e \in Awaiters, NEW c, NEW l \in Nat,
         Operations(os, c, l)
  PROVE  LET u == Appended(os, d, e) IN
         /\ e # c => Operations(u, c, l)
         /\ e = c => Operations(u, c, l + 1)
<1> DEFINE u == Appended(os, d, e)
           n == Len(os[d]) + 1
           t == Append(os[d], e)
           D == States \X (Nat \ {0})
<1>0. os[d] \in Seq(Awaiters) /\ \A x \in States : os[x] \in Seq(Awaiters) /\ Len(os[x]) \in Nat
  BY InList DEF Lists
<1>1. /\ Len(t) = n /\ t[n] = e /\ n \in Nat \ {0} /\ Len(os[d]) = n - 1
      /\ \A i \in 1..Len(os[d]) : t[i] = os[d][i]
  BY <1>0, AppendAt
<1>2. u[d] = t /\ \A x \in States : x # d => u[x] = os[x]
  BY DEF Lists, Appended
<1> HIDE DEF u, t, n
<1>3. ASSUME NEW x \in States, NEW i \in Nat \ {0}, <<x, i>> # <<d, n>>
      PROVE  <<x, i>> \in OperationsOf(u, c) <=> <<x, i>> \in OperationsOf(os, c)
  <2>1. CASE x # d
    BY <1>2, <2>1 DEF OperationsOf
  <2>2. CASE x = d
    <3>1. i # n
      BY <1>3, <2>2
    <3>2. i <= Len(u[d]) <=> i <= Len(os[d])
      BY <1>0, <1>1, <1>2, <3>1
    <3>3. i <= Len(os[d]) => u[d][i] = os[d][i]
      BY <1>0, <1>1, <1>2
    <3> QED
      BY <2>2, <3>2, <3>3 DEF OperationsOf
  <2> QED
    BY <2>1, <2>2
<1>4. <<d, n>> \notin OperationsOf(os, c) /\ (<<d, n>> \in OperationsOf(u, c) <=> e = c)
  BY <1>0, <1>1, <1>2 DEF OperationsOf
<1>5. OperationsOf(u, c) \subseteq D /\ OperationsOf(os, c) \subseteq D
  BY DEF OperationsOf
<1>6. ASSUME NEW p \in D, p # <<d, n>>
      PROVE  p \in OperationsOf(u, c) <=> p \in OperationsOf(os, c)
  <2>1. PICK x \in States, i \in Nat \ {0} : p = <<x, i>>
    OBVIOUS
  <2> QED
    BY <1>3, <1>6, <2>1
<1>7. ASSUME e # c PROVE Operations(u, c, l)
  <2>1. OperationsOf(u, c) = OperationsOf(os, c)
    BY <1>4, <1>5, <1>6, <1>7
  <2> QED
    BY <2>1 DEF Operations
<1>8. ASSUME e = c PROVE Operations(u, c, l + 1)
  <2>0. <<d, n>> \in D
    BY <1>1
  <2>1. OperationsOf(u, c) = OperationsOf(os, c) \cup {<<d, n>>}
    BY <1>4, <1>5, <1>6, <1>8, <2>0
  <2> QED
    BY <1>4, <2>1, FS_AddElement DEF Operations
<1> QED
  BY <1>7, <1>8 DEF u

\* The first operation is taken: those behind it move one place forward.
LEMMA TakeOperation ==
  ASSUME NEW os \in Lists, NEW d \in States, os[d] # <<>>, NEW c, NEW l \in Nat,
         Operations(os, c, l)
  PROVE  LET u == Taken(os, d) IN
         /\ Head(os[d]) # c => Operations(u, c, l)
         /\ Head(os[d]) = c => l > 0 /\ Operations(u, c, l - 1)
<1> DEFINE u == Taken(os, d)
           t == Tail(os[d])
           D == States \X (Nat \ {0})
           S == OperationsOf(os, c)
           T == OperationsOf(u, c)
           Moved == [p \in T |-> <<p[1], IF p[1] = d THEN p[2] + 1 ELSE p[2]>>]
<1>0. os[d] \in Seq(Awaiters) /\ \A x \in States : os[x] \in Seq(Awaiters) /\ Len(os[x]) \in Nat
  BY InList DEF Lists
<1>1. /\ Len(t) = Len(os[d]) - 1 /\ Len(os[d]) > 0 /\ os[d][1] = Head(os[d])
      /\ \A i \in 1..(Len(os[d]) - 1) : t[i] = os[d][i + 1]
  <2>1. Len(os[d]) > 0
    BY <1>0, EmptySeq
  <2> QED
    BY <1>0, <2>1, HeadTailProperties
<1>2. u[d] = t /\ \A x \in States : x # d => u[x] = os[x]
  BY DEF Lists, Taken
<1> HIDE DEF u, t
<1>3. ASSUME NEW x \in States, NEW i \in Nat \ {0}, x # d
      PROVE  <<x, i>> \in T <=> <<x, i>> \in S
  BY <1>2, <1>3 DEF OperationsOf
<1>4. ASSUME NEW i \in Nat \ {0}
      PROVE  <<d, i>> \in T <=> <<d, i + 1>> \in S
  <2>1. i <= Len(u[d]) <=> i + 1 <= Len(os[d])
    BY <1>0, <1>1, <1>2
  <2>2. i <= Len(u[d]) => u[d][i] = os[d][i + 1]
    BY <1>0, <1>1, <1>2
  <2>3. i + 1 \in Nat \ {0}
    OBVIOUS
  <2> QED
    BY <2>1, <2>2, <2>3 DEF OperationsOf
<1>5. <<d, 1>> \in S <=> Head(os[d]) = c
  BY <1>0, <1>1 DEF OperationsOf
<1>6. T \subseteq D /\ S \subseteq D
  BY DEF OperationsOf
<1> HIDE DEF S, T
<1>7. Moved \in Bijection(T, S \ {<<d, 1>>})
  <2>1. ASSUME NEW p \in T PROVE Moved[p] \in S \ {<<d, 1>>}
    <3>1. PICK x \in States, i \in Nat \ {0} : p = <<x, i>>
      BY <1>6, <2>1
    <3>2. CASE x = d
      <4>1. Moved[p] = <<d, i + 1>>
        BY <2>1, <3>1, <3>2
      <4>2. <<d, i + 1>> \in S
        BY <1>4, <2>1, <3>1, <3>2
      <4> QED
        BY <4>1, <4>2
    <3>3. CASE x # d
      <4>1. Moved[p] = <<x, i>>
        BY <2>1, <3>1, <3>3
      <4> QED
        BY <1>3, <2>1, <3>1, <3>3, <4>1
    <3> QED
      BY <3>2, <3>3
  <2>2. ASSUME NEW p \in T, NEW q \in T, Moved[p] = Moved[q] PROVE p = q
    <3>1. PICK x \in States, i \in Nat \ {0} : p = <<x, i>>
      BY <1>6, <2>2
    <3>2. PICK y \in States, j \in Nat \ {0} : q = <<y, j>>
      BY <1>6, <2>2
    <3>3. Moved[p] = <<x, IF x = d THEN i + 1 ELSE i>>
      BY <3>1
    <3>4. Moved[q] = <<y, IF y = d THEN j + 1 ELSE j>>
      BY <3>2
    <3>5. x = y /\ (IF x = d THEN i + 1 ELSE i) = (IF y = d THEN j + 1 ELSE j)
      BY <2>2, <3>3, <3>4
    <3> QED
      BY <3>1, <3>2, <3>5
  <2>3. ASSUME NEW q \in S \ {<<d, 1>>} PROVE \E p \in T : Moved[p] = q
    <3>1. PICK x \in States, i \in Nat \ {0} : q = <<x, i>>
      BY <1>6, <2>3
    <3>2. CASE x = d
      <4>1. i # 1 /\ i - 1 \in Nat \ {0} /\ (i - 1) + 1 = i
        BY <2>3, <3>1, <3>2
      <4>2. <<d, i - 1>> \in T
        BY <1>4, <2>3, <3>1, <3>2, <4>1
      <4>3. Moved[<<d, i - 1>>] = <<d, (i - 1) + 1>>
        BY <4>2
      <4> QED
        BY <3>1, <3>2, <4>1, <4>2, <4>3
    <3>3. CASE x # d
      <4>1. <<x, i>> \in T
        BY <1>3, <2>3, <3>1, <3>3
      <4>2. Moved[<<x, i>>] = <<x, i>>
        BY <3>3, <4>1
      <4> QED
        BY <3>1, <4>1, <4>2
    <3> QED
      BY <3>2, <3>3
  <2>4. Moved \in [T -> S \ {<<d, 1>>}]
    BY <2>1
  <2> HIDE DEF Moved
  <2>5. Moved \in Injection(T, S \ {<<d, 1>>})
    BY <2>2, <2>4 DEF Injection, IsInjective
  <2>6. Moved \in Surjection(T, S \ {<<d, 1>>})
    BY <2>3, <2>4 DEF Surjection
  <2> QED
    BY <2>5, <2>6 DEF Bijection
<1> HIDE DEF Moved
<1>8. IsFiniteSet(S) /\ Cardinality(S) = l
  BY DEF Operations, S
<1>9. /\ IsFiniteSet(S \ {<<d, 1>>})
      /\ Cardinality(S \ {<<d, 1>>}) = IF <<d, 1>> \in S THEN l - 1 ELSE l
  BY <1>8, FS_RemoveElement
<1>10. IsFiniteSet(T) /\ Cardinality(T) = Cardinality(S \ {<<d, 1>>})
  <2>1. /\ Moved \in Injection(T, S \ {<<d, 1>>})
        /\ Moved \in Surjection(T, S \ {<<d, 1>>})
    BY <1>7 DEF Bijection
  <2> QED
    BY <1>9, <2>1, FS_Injection
<1>11. <<d, 1>> \in S => l # 0
  BY <1>8, FS_EmptySet
<1>12. Head(os[d]) # c => Operations(u, c, l)
  BY <1>5, <1>9, <1>10 DEF Operations, T
<1>13. Head(os[d]) = c => l > 0 /\ Operations(u, c, l - 1)
  BY <1>5, <1>9, <1>10, <1>11 DEF Operations, T
<1> QED
  BY <1>12, <1>13 DEF u

\* The status of c is settled or stays as it is.
StatusKept(c) ==
  /\ state'[c] = "none" <=> state[c] = "none"
  /\ state'[c] = "PENDING" => state[c] = "PENDING"

\* The counters of a combine stay right when nothing of it moves.
LEMMA BalancedSame ==
  ASSUME NEW c \in Combined, Balanced(c),
         SameCalls(stack, stack', c), SameOperations(ops, ops', c), StatusKept(c),
         started'[c] = started[c], counter'[c] = counter[c]
  PROVE  Balanced(c)'
<1>1. PICK l \in Nat, r \in Nat :
        /\ Operations(ops, c, l) /\ Calls(stack, c, r)
        /\ IF state[c] = "none"
           THEN /\ l = 0 /\ r = 0 /\ CallsOf(stack, Listing, c) = {}
                /\ started[c] = Len(Inputs[c]) /\ counter[c] = Len(Inputs[c])
           ELSE \E n \in Nat : Remaining(stack, c, n) /\ Agree(c, l, n, r)
  BY DEF Balanced
<1>2. Operations(ops', c, l) /\ Calls(stack', c, r)
  BY <1>1 DEF SameCalls, SameOperations
<1>3. CASE state[c] = "none"
  <2>1. CallsOf(stack', Listing, c) = {} /\ state'[c] = "none"
    BY <1>1, <1>3 DEF SameCalls, SameLeft, StatusKept
  <2> QED
    BY <1>1, <1>2, <1>3, <2>1 DEF Balanced
<1>4. CASE state[c] # "none"
  <2>1. PICK n \in Nat : Remaining(stack, c, n) /\ Agree(c, l, n, r)
    BY <1>1, <1>4
  <2>2. Remaining(stack', c, n) /\ state'[c] # "none"
    BY <1>4, <2>1 DEF SameCalls, SameLeft, StatusKept
  <2>3. Agree(c, l, n, r)'
    BY <2>1 DEF Agree, StatusKept
  <2> QED
    BY <1>2, <2>2, <2>3 DEF Balanced
<1> QED
  BY <1>3, <1>4

\* Nothing of any combine moves.
LEMMA BalanceSame ==
  ASSUME Balance, UNCHANGED <<started, counter>>,
         \A c \in Combined : SameCalls(stack, stack', c) /\ SameOperations(ops, ops', c)
                             /\ StatusKept(c)
  PROVE  Balance'
<1>1. ASSUME NEW c \in Combined PROVE Balanced(c)'
  <2>1. Balanced(c) /\ started'[c] = started[c] /\ counter'[c] = counter[c]
    BY DEF Balance
  <2> QED
    BY <2>1, BalancedSame
<1> QED
  BY <1>1 DEF Balance

\* Likeness is reflexive and transitive.
LEMMA SameAgain ==
  ASSUME NEW st, NEW c
  PROVE  SameCalls(st, st, c)
  BY DEF SameCalls, SameLeft

LEMMA SameChain ==
  ASSUME NEW st, NEW u, NEW v, NEW c, SameCalls(st, u, c), SameCalls(u, v, c)
  PROVE  SameCalls(st, v, c)
  BY DEF SameCalls, SameLeft

LEMMA SameLists ==
  ASSUME NEW os, NEW c
  PROVE  SameOperations(os, os, c)
  BY DEF SameOperations

LEMMA SameStatus ==
  ASSUME UNCHANGED state, NEW c
  PROVE  StatusKept(c)
  BY DEF StatusKept

\* The stacks and the lists have their types.
LEMMA StackTypes ==
  ASSUME IInv
  PROVE  stack \in Stacks /\ ops \in Lists /\ state \in [States -> {"none", "PENDING"} \cup Final]
  BY DEF IInv, Network, CallTypes, StateTypes, Stacks, Lists

\* A state that is not created is not settled.
LEMMA SettleKeeps ==
  ASSUME IInv, NEW d \in States, NEW o \in Final, Settle(d, o),
         d \in Combined => state[d] = "PENDING", NEW c \in Combined
  PROVE  StatusKept(c)
<1>1. c \in States /\ state \in [States -> {"none", "PENDING"} \cup Final]
  BY StackTypes DEF States
<1>2. CASE c = d
  <2>1. state'[c] = o /\ state[c] = "PENDING" /\ o # "none" /\ o # "PENDING"
    BY <1>1, <1>2 DEF Settle, Final
  <2> QED
    BY <2>1 DEF StatusKept
<1>3. CASE c # d
  BY <1>1, <1>3 DEF Settle, StatusKept
<1> QED
  BY <1>2, <1>3

\* A frame of another library call.
Other == {"trigger", "transform", "handler"}

LEMMA OtherNeutral ==
  ASSUME NEW at \in Other, NEW d \in States, NEW c
  PROVE  [at |-> at, d |-> d] \in Frames /\ Neutral([at |-> at, d |-> d], c)
<1>1. [at |-> at, d |-> d] \in Frames
  BY DEF Frames, Other
<1>2. at \notin Listing \cup Running
  BY DEF Other, Listing, Running
<1> QED
  BY <1>1, <1>2 DEF Neutral

LEMMA PushOther ==
  ASSUME IInv, NEW f \in Fibers, NEW at \in Other, NEW d \in States, Push(f, at, d),
         NEW c \in Combined
  PROVE  SameCalls(stack, stack', c)
<1> DEFINE r == [at |-> at, d |-> d]
<1>1. stack \in Stacks /\ r \in Frames /\ Neutral(r, c)
  BY StackTypes, OtherNeutral
<1>2. stack' = Pushed(stack, f, r)
  BY <1>1 DEF Push, Pushed, Stacks
<1> HIDE DEF r
<1> QED
  BY <1>1, <1>2, PushNeutral

\* A call settles a Deferred and pushes the loop over its operations.
LEMMA CallBalance ==
  ASSUME IInv, Balance, NEW f \in Fibers, NEW d \in States, NEW o \in Final, Settle(d, o),
         Push(f, "trigger", d), d \in Combined => state[d] = "PENDING",
         UNCHANGED <<ops, counter, started>>
  PROVE  Balance'
<1>1. "trigger" \in Other
  BY DEF Other
<1>2. ASSUME NEW c \in Combined
      PROVE  SameCalls(stack, stack', c) /\ SameOperations(ops, ops', c) /\ StatusKept(c)
  BY <1>1, PushOther, SettleKeeps, SameLists
<1> QED
  BY <1>2, BalanceSame

\* Nothing happens to the states.
LEMMA QuietBalance ==
  ASSUME Balance, UNCHANGED <<state, ops, stack, counter, started>>
  PROVE  Balance'
<1>1. ASSUME NEW c \in Combined
      PROVE  SameCalls(stack, stack', c) /\ SameOperations(ops, ops', c) /\ StatusKept(c)
  BY SameAgain, SameLists, SameStatus
<1> QED
  BY <1>1, BalanceSame

LEMMA ResolveBalance ==
  ASSUME IInv, Balance, NEW f \in Fibers, NEW d \in States, NEW o \in Final, resolve(f, d, o)
  PROVE  Balance'
<1>1. UNCHANGED <<ops, counter, started>>
  BY DEF resolve
<1>2. CASE state[d] # "PENDING"
  <2>1. UNCHANGED <<state, stack>>
    BY <1>2 DEF resolve
  <2> QED
    BY <1>1, <2>1, QuietBalance
<1>3. CASE state[d] = "PENDING"
  <2>1. Settle(d, o) /\ Push(f, "trigger", d)
    BY <1>3 DEF resolve
  <2> QED
    BY <1>1, <1>3, <2>1, CallBalance
<1> QED
  BY <1>2, <1>3

LEMMA TaskEndsBalance ==
  ASSUME IInv, Balance, NEW f \in Fibers, NEW u \in Outside, NEW o \in Final, TaskEnds(f, u, o)
  PROVE  Balance'
<1>1. /\ u \in States /\ u \notin Combined /\ Settle(u, o) /\ Push(f, "trigger", u)
      /\ UNCHANGED <<ops, counter, started>>
  BY DeferredAssumption DEF TaskEnds, States
<1> QED
  BY <1>1, CallBalance

LEMMA DestroyBalance ==
  ASSUME IInv, Balance, NEW f \in Fibers, NEW d \in Plain, async_deferred_object_destroy(f, d)
  PROVE  Balance'
<1>1. UNCHANGED <<ops, counter, started>>
  BY DEF async_deferred_object_destroy
<1>2. CASE state[d] # "PENDING"
  <2>1. UNCHANGED <<state, stack>>
    BY <1>2 DEF async_deferred_object_destroy
  <2> QED
    BY <1>1, <2>1, QuietBalance
<1>3. CASE state[d] = "PENDING"
  <2>1. Settle(d, "FAILED") /\ Push(f, "trigger", d) /\ d \in States /\ "FAILED" \in Final
    BY <1>3 DEF async_deferred_object_destroy, States, Final
  <2> QED
    BY <1>1, <1>3, <2>1, CallBalance
<1> QED
  BY <1>2, <1>3

LEMMA ShutdownBalance ==
  ASSUME IInv, Balance, shutdown_state
  PROVE  Balance'
<1> DEFINE d == Head(shutdown)
<1>1. Root \in Fibers /\ shutdown \in Seq(States) /\ shutdown # <<>>
  BY DEF shutdown_state, IInv, Network, StateTypes, Fibers
<1>2. d \in States /\ d \in Range(shutdown)
  BY <1>1, TailList
<1>3. state[d] = "PENDING"
  BY <1>2 DEF IInv, Network, Shutting
<1>4. /\ state' = [state EXCEPT ![d] = "FAILED"] /\ Push(Root, "trigger", d)
      /\ UNCHANGED <<ops, counter, started>>
  BY DEF shutdown_state
<1> HIDE DEF d
<1>5. ASSUME NEW c \in Combined PROVE StatusKept(c)
  <2>1. c \in States /\ state \in [States -> {"none", "PENDING"} \cup Final]
    BY StackTypes DEF States
  <2> QED
    BY <1>2, <1>3, <1>4, <2>1 DEF StatusKept
<1>6. "trigger" \in Other
  BY DEF Other
<1>7. ASSUME NEW c \in Combined
      PROVE  SameCalls(stack, stack', c) /\ SameOperations(ops, ops', c)
  BY <1>1, <1>2, <1>4, <1>6, PushOther, SameLists
<1> QED
  BY <1>4, <1>5, <1>7, BalanceSame

\* The counters and what they count, for a combine that has been created.
LEMMA BalancedFrom ==
  ASSUME NEW c \in Combined, state[c] # "none",
         NEW l \in Nat, NEW n \in Nat, NEW r \in Nat,
         Operations(ops, c, l), Calls(stack, c, r), Remaining(stack, c, n), Agree(c, l, n, r)
  PROVE  Balanced(c)
  BY DEF Balanced

LEMMA BalancedFromNext ==
  ASSUME NEW c \in Combined, state'[c] # "none",
         NEW l \in Nat, NEW n \in Nat, NEW r \in Nat,
         Operations(ops', c, l), Calls(stack', c, r), Remaining(stack', c, n), Agree(c, l, n, r)'
  PROVE  Balanced(c)'
  BY DEF Balanced

\* The innermost call is replaced by one or two others.
Replaced(st, f, r)    == [st EXCEPT ![f] = Append(Front(@), r)]
Covered(st, f, r, q)  == [st EXCEPT ![f] = Front(@) \o <<r, q>>]
Doubled(st, f, r, q)  == [st EXCEPT ![f] = Append(Append(Front(@), r), q)]

LEMMA ReplaceStacks ==
  ASSUME NEW st \in Stacks, NEW f \in Fibers, st[f] # <<>>, NEW r \in Frames
  PROVE  /\ Popped(st, f) \in Stacks
         /\ Replaced(st, f, r) = Pushed(Popped(st, f), f, r)
<1>1. st[f] \in Seq(Frames) /\ Front(st[f]) \in Seq(Frames)
  BY FrontList DEF Stacks
<1>2. Popped(st, f) \in Stacks
  BY <1>1 DEF Popped, Stacks
<1>3. Append(Front(st[f]), r) \in Seq(Frames)
  BY <1>1, AppendList
<1> QED
  BY <1>1, <1>2, <1>3 DEF Popped, Pushed, Replaced, Stacks

LEMMA CoverStacks ==
  ASSUME NEW st \in Stacks, NEW f \in Fibers, st[f] # <<>>, NEW r \in Frames, NEW q \in Frames
  PROVE  /\ Covered(st, f, r, q) = Pushed(Pushed(Popped(st, f), f, r), f, q)
         /\ Doubled(st, f, r, q) = Pushed(Pushed(Popped(st, f), f, r), f, q)
<1>1. st[f] \in Seq(Frames) /\ Front(st[f]) \in Seq(Frames)
  BY FrontList DEF Stacks
<1>3. Append(Front(st[f]), r) \in Seq(Frames)
  BY <1>1, AppendList
<1>4. Append(Append(Front(st[f]), r), q) = Front(st[f]) \o <<r, q>>
  BY <1>1
<1>5. Doubled(st, f, r, q) = Pushed(Pushed(Popped(st, f), f, r), f, q)
  BY <1>1, <1>3 DEF Popped, Pushed, Stacks, Doubled
<1>6. Covered(st, f, r, q) = Doubled(st, f, r, q)
  BY <1>4 DEF Covered, Doubled
<1> QED
  BY <1>5, <1>6

\* A call other than those of combine is popped, and pushed.
LEMMA PopOther ==
  ASSUME IInv, NEW f \in Fibers, NEW at \in Other, InCall(f, at), NEW c
  PROVE  Popped(stack, f) \in Stacks /\ SameCalls(stack, Popped(stack, f), c)
<1>1. stack \in Stacks /\ stack[f] # <<>> /\ Last(stack[f]).at = at
  BY StackTypes, InCallFrame
<1>2. Neutral(Last(stack[f]), c)
  BY <1>1 DEF Neutral, Other, Listing, Running
<1> QED
  BY <1>1, <1>2, PopNeutral

LEMMA HandlerReturnsBalance ==
  ASSUME IInv, Balance, NEW f \in Fibers, HandlerReturns(f)
  PROVE  Balance'
<1>1. /\ InCall(f, "handler") /\ "handler" \in Other
      /\ UNCHANGED <<state, ops, counter, started>>
      /\ stack' = Popped(stack, f)
  BY DEF HandlerReturns, Other, Pop, Popped
<1>2. ASSUME NEW c \in Combined
      PROVE  SameCalls(stack, stack', c) /\ SameOperations(ops, ops', c) /\ StatusKept(c)
  BY <1>1, PopOther, SameLists, SameStatus
<1> QED
  BY <1>1, <1>2, BalanceSame

LEMMA CancelDeferBalance ==
  ASSUME IInv, Balance, NEW f \in Fibers, cancel_defer(f)
  PROVE  Balance'
<1> DEFINE d == Head(handlers)
<1>1. /\ handlers \in Seq(Plain) /\ handlers # <<>> /\ Push(f, "handler", d)
      /\ UNCHANGED <<state, ops, counter, started>>
  BY DEF cancel_defer, IInv, Network, CallTypes
<1>2. d \in States /\ "handler" \in Other
  BY <1>1, TailList DEF States, Other
<1> HIDE DEF d
<1>3. ASSUME NEW c \in Combined
      PROVE  SameCalls(stack, stack', c) /\ SameOperations(ops, ops', c) /\ StatusKept(c)
  BY <1>1, <1>2, PushOther, SameLists, SameStatus
<1> QED
  BY <1>1, <1>3, BalanceSame

LEMMA TransformReturnsBalance ==
  ASSUME IInv, Balance, NEW f \in Fibers, NEW throws \in BOOLEAN, TransformReturns(f, throws)
  PROVE  Balance'
<1> DEFINE x == Callee(f)
           r == [at |-> "trigger", d |-> x]
           o == IF throws THEN "FAILED" ELSE "RESOLVED"
<1>1. /\ InCall(f, "transform") /\ "transform" \in Other /\ "trigger" \in Other
      /\ Settle(x, o) /\ o \in Final
      /\ stack' = Replaced(stack, f, r)
      /\ UNCHANGED <<ops, counter, started>>
  BY DEF TransformReturns, Other, Replace, Replaced, Final
<1>2. /\ stack[f] # <<>> /\ stack \in Stacks /\ x \in States /\ x \in Transformed
  BY <1>1, InCallFrame, StackTypes DEF FrameAt
<1>3. x \notin Combined
  BY <1>2, DeferredAssumption
<1>4. r \in Frames /\ \A c : Neutral(r, c)
  BY <1>1, <1>2, OtherNeutral
<1> HIDE DEF x, r, o
<1>5. stack' = Pushed(Popped(stack, f), f, r)
  BY <1>1, <1>2, <1>4, ReplaceStacks
<1>6. ASSUME NEW c \in Combined PROVE SameCalls(stack, stack', c)
  <2>1. Popped(stack, f) \in Stacks /\ SameCalls(stack, Popped(stack, f), c)
    BY <1>1, PopOther
  <2>2. SameCalls(Popped(stack, f), stack', c)
    BY <1>4, <1>5, <2>1, PushNeutral
  <2> QED
    BY <2>1, <2>2, SameChain
<1>7. ASSUME NEW c \in Combined
      PROVE  SameCalls(stack, stack', c) /\ SameOperations(ops, ops', c) /\ StatusKept(c)
  BY <1>1, <1>2, <1>3, <1>6, SettleKeeps, SameLists
<1> QED
  BY <1>1, <1>7, BalanceSame

\* A frame of combine_cb.
LEMMA RunningFrame ==
  ASSUME NEW at \in Running, NEW d \in Combined
  PROVE  /\ [at |-> at, d |-> d] \in Frames
         /\ [at |-> at, d |-> d].at = at /\ [at |-> at, d |-> d].d = d
         /\ \A c : c # d => Neutral([at |-> at, d |-> d], c)
  BY DEF Running, Frames, States, Neutral

LEMMA ContinuationBalance ==
  ASSUME IInv, Balance, NEW f \in Fibers, NEW throws \in BOOLEAN, ContinuationReturns(f, throws)
  PROVE  Balance'
<1>0. PICK e \in Combined : e = Callee(f)
  BY InCallFrame DEF FrameAt, ContinuationReturns
<1> DEFINE a == [at |-> "countdown", d |-> e]
           b == [at |-> "trigger", d |-> e]
           u == Popped(stack, f)
           v == Pushed(u, f, a)
<1>1. /\ stack[f] # <<>> /\ stack \in Stacks /\ e \in States /\ e \in Combined
      /\ Last(stack[f]).at = "combine" /\ Last(stack[f]).d = e
      /\ UNCHANGED <<ops, counter, started>>
  BY <1>0, InCallFrame, StackTypes DEF FrameAt, ContinuationReturns
<1>2. "combine" \in Running /\ "countdown" \in Running /\ "trigger" \in Other /\ "FAILED" \in Final
  BY DEF Running, Other, Final
<1>3. a \in Frames /\ a.at = "countdown" /\ a.d = e /\ \A c : c # e => Neutral(a, c)
  BY <1>1, <1>2, RunningFrame
<1>4. b \in Frames /\ \A c : Neutral(b, c)
  BY <1>1, <1>2, OtherNeutral
<1>5. \/ Settle(e, "FAILED") /\ state[e] = "PENDING" /\ stack' = Covered(stack, f, a, b)
      \/ UNCHANGED state /\ stack' = Replaced(stack, f, a)
  BY <1>0 DEF ContinuationReturns, Above, Replace, Covered, Replaced
<1> HIDE DEF a, b
<1>6. \/ Settle(e, "FAILED") /\ state[e] = "PENDING" /\ stack' = Pushed(v, f, b)
      \/ UNCHANGED state /\ stack' = v
  BY <1>1, <1>3, <1>4, <1>5, ReplaceStacks, CoverStacks
<1>7. u \in Stacks
  BY <1>1, <1>3, ReplaceStacks
<1> HIDE DEF u
<1>8. ASSUME NEW c \in Combined PROVE v \in Stacks /\ SameCalls(stack, v, c)
  <2>1. CASE c # e
    <3>1. Neutral(Last(stack[f]), c)
      BY <1>1, <2>1 DEF Neutral
    <3>2. SameCalls(stack, u, c)
      BY <1>1, <3>1, PopNeutral DEF u
    <3>3. v \in Stacks /\ SameCalls(u, v, c)
      BY <1>3, <1>7, <2>1, PushNeutral
    <3> QED
      BY <3>2, <3>3, SameChain
  <2>2. CASE c = e
    <3>1. /\ SameLeft(stack, u, c)
          /\ \A n \in Nat : Calls(stack, c, n) => n > 0 /\ Calls(u, c, n - 1)
      BY <1>1, <1>2, <2>2, PopRunning DEF u
    <3>2. /\ v \in Stacks /\ SameLeft(u, v, c)
          /\ \A n \in Nat : Calls(u, c, n) => Calls(v, c, n + 1)
      BY <1>2, <1>3, <1>7, <2>2, PushRunning
    <3>3. ASSUME NEW n, Calls(stack, c, n) PROVE Calls(v, c, n)
      <4>1. n \in Nat
        BY <3>3, FS_CardinalityType DEF Calls
      <4>2. n > 0 /\ Calls(u, c, n - 1)
        BY <3>1, <3>3, <4>1
      <4>3. n - 1 \in Nat /\ (n - 1) + 1 = n
        BY <4>1, <4>2
      <4> QED
        BY <3>2, <4>2, <4>3
    <3> QED
      BY <3>1, <3>2, <3>3 DEF SameCalls, SameLeft
  <2> QED
    BY <2>1, <2>2
<1> HIDE DEF v
<1>9. ASSUME NEW c \in Combined PROVE SameCalls(stack, stack', c)
  <2>1. v \in Stacks /\ SameCalls(stack, v, c)
    BY <1>8
  <2>2. SameCalls(v, Pushed(v, f, b), c)
    BY <1>4, <2>1, PushNeutral
  <2> QED
    BY <1>6, <2>1, <2>2, SameChain
<1>10. ASSUME NEW c \in Combined PROVE StatusKept(c)
  BY <1>1, <1>2, <1>6, SettleKeeps, SameStatus
<1>11. ASSUME NEW c \in Combined
       PROVE  SameCalls(stack, stack', c) /\ SameOperations(ops, ops', c) /\ StatusKept(c)
  BY <1>1, <1>9, <1>10, SameLists
<1> QED
  BY <1>1, <1>11, BalanceSame

\* combine_cb has counted an input.
LEMMA CountdownBalance ==
  ASSUME IInv, Balance, NEW f \in Fibers, CombineCountdown(f)
  PROVE  Balance'
<1>0. PICK e \in Combined : e = Callee(f)
  BY InCallFrame DEF FrameAt, CombineCountdown
<1> DEFINE b == [at |-> "trigger", d |-> e]
           u == Popped(stack, f)
           m == counter[e] - 1
<1>1. /\ stack[f] # <<>> /\ stack \in Stacks /\ e \in States /\ e \in Combined
      /\ Last(stack[f]).at = "countdown" /\ Last(stack[f]).d = e
      /\ UNCHANGED <<ops, started>> /\ counter' = [counter EXCEPT ![e] = m]
  BY <1>0, InCallFrame, StackTypes DEF FrameAt, CombineCountdown
<1>2. "countdown" \in Running /\ "trigger" \in Other /\ "FAILED" \in Final
  BY DEF Running, Other, Final
<1>3. b \in Frames /\ \A c : Neutral(b, c)
  BY <1>1, <1>2, OtherNeutral
<1>4. \/ /\ m = 0 /\ state[e] = "PENDING" /\ Settle(e, "FAILED")
         /\ stack' = Replaced(stack, f, b)
      \/ ~(m = 0 /\ state[e] = "PENDING") /\ UNCHANGED state /\ stack' = u
  BY <1>0 DEF CombineCountdown, Replace, Replaced, Pop, Popped
<1> HIDE DEF b
<1>5. \/ m = 0 /\ state[e] = "PENDING" /\ Settle(e, "FAILED") /\ stack' = Pushed(u, f, b)
      \/ ~(m = 0 /\ state[e] = "PENDING") /\ UNCHANGED state /\ stack' = u
  BY <1>1, <1>3, <1>4, ReplaceStacks
<1>6. u \in Stacks
  BY <1>1, <1>3, ReplaceStacks
<1> HIDE DEF u
<1>7. ASSUME NEW c \in Combined PROVE SameCalls(u, stack', c)
  BY <1>3, <1>5, <1>6, PushNeutral, SameAgain
<1>8. ASSUME NEW c \in Combined PROVE StatusKept(c)
  BY <1>1, <1>2, <1>5, SettleKeeps, SameStatus
<1>9. started \in [Combined -> Nat] /\ counter \in [Combined -> Nat]
      /\ \A c \in Combined : Balanced(c)
  BY DEF Balance
<1>10. ASSUME NEW c \in Combined, c # e PROVE Balanced(c)'
  <2>1. Neutral(Last(stack[f]), c)
    BY <1>1, <1>10 DEF Neutral
  <2>2. SameCalls(stack, u, c)
    BY <1>1, <2>1, PopNeutral DEF u
  <2>3. SameCalls(stack, stack', c)
    BY <1>7, <2>2, SameChain
  <2>4. started'[c] = started[c] /\ counter'[c] = counter[c] /\ SameOperations(ops, ops', c)
    BY <1>1, <1>9, <1>10, SameLists
  <2> QED
    BY <1>8, <1>9, <2>3, <2>4, BalancedSame
<1>11. /\ SameLeft(stack, u, e)
       /\ \A n \in Nat : Calls(stack, e, n) => n > 0 /\ Calls(u, e, n - 1)
  BY <1>1, <1>2, PopRunning DEF u
<1>12. PICK l \in Nat, r \in Nat :
        /\ Operations(ops, e, l) /\ Calls(stack, e, r)
        /\ IF state[e] = "none"
           THEN /\ l = 0 /\ r = 0 /\ CallsOf(stack, Listing, e) = {}
                /\ started[e] = Len(Inputs[e]) /\ counter[e] = Len(Inputs[e])
           ELSE \E n \in Nat : Remaining(stack, e, n) /\ Agree(e, l, n, r)
  BY <1>1, <1>9 DEF Balanced
<1>13. r > 0 /\ Calls(u, e, r - 1) /\ r - 1 \in Nat
  <2>1. r > 0 /\ Calls(u, e, r - 1)
    BY <1>11, <1>12
  <2> QED
    BY <2>1
<1>14. PICK n \in Nat : Remaining(stack, e, n) /\ Agree(e, l, n, r)
  BY <1>12, <1>13
<1>15. state[e] # "none" /\ state'[e] # "none"
  BY <1>1, <1>8, <1>12, <1>13 DEF StatusKept
<1>16. Remaining(stack', e, n) /\ Calls(stack', e, r - 1) /\ Operations(ops', e, l)
  BY <1>1, <1>7, <1>11, <1>12, <1>13, <1>14 DEF SameCalls, SameLeft
<1>17. counter'[e] = m /\ started'[e] = started[e] /\ m = l + n + (r - 1) /\ m \in Nat
  BY <1>1, <1>9, <1>13, <1>14 DEF Agree
<1>18. m = 0 => state'[e] # "PENDING"
  <2>1. CASE state[e] = "PENDING" /\ m = 0
    <3>1. state' = [state EXCEPT ![e] = "FAILED"] /\ state \in [States -> {"none", "PENDING"} \cup Final]
      BY <1>5, <2>1, StackTypes DEF Settle
    <3> QED
      BY <1>1, <3>1
  <2>2. CASE ~(state[e] = "PENDING" /\ m = 0)
    BY <1>5, <2>2
  <2> QED
    BY <2>1, <2>2
<1>19. Agree(e, l, n, r - 1)'
  BY <1>14, <1>17, <1>18 DEF Agree
<1>20. Balanced(e)'
  BY <1>1, <1>13, <1>15, <1>16, <1>19, BalancedFromNext
<1>21. counter' \in [Combined -> Nat] /\ started' \in [Combined -> Nat]
  BY <1>1, <1>9, <1>17
<1> QED
  BY <1>10, <1>20, <1>21 DEF Balance

\* The counts of a combine that is waited for, or whose continuation runs.
LEMMA BalancedAt ==
  ASSUME NEW c \in Combined, Balanced(c)
  PROVE  \E l, r \in Nat :
           /\ Operations(ops, c, l) /\ Calls(stack, c, r)
           /\ l > 0 \/ CallsOf(stack, Listing, c) # {} =>
                state[c] # "none" /\ \E n \in Nat : Remaining(stack, c, n) /\ Agree(c, l, n, r)
<1>1. PICK l \in Nat, r \in Nat :
        /\ Operations(ops, c, l) /\ Calls(stack, c, r)
        /\ IF state[c] = "none"
           THEN /\ l = 0 /\ r = 0 /\ CallsOf(stack, Listing, c) = {}
                /\ started[c] = Len(Inputs[c]) /\ counter[c] = Len(Inputs[c])
           ELSE \E n \in Nat : Remaining(stack, c, n) /\ Agree(c, l, n, r)
  BY DEF Balanced
<1>2. l > 0 \/ CallsOf(stack, Listing, c) # {} => state[c] # "none"
  BY <1>1
<1> QED
  BY <1>1, <1>2

\* An operation other than that of c is listed or taken.
LEMMA AppendSame ==
  ASSUME NEW os \in Lists, NEW d \in States, NEW e \in Awaiters, NEW c, e # c
  PROVE  SameOperations(os, Appended(os, d, e), c)
  BY AppendOperation DEF SameOperations

LEMMA TakeSame ==
  ASSUME NEW os \in Lists, NEW d \in States, os[d] # <<>>, NEW c, Head(os[d]) # c
  PROVE  SameOperations(os, Taken(os, d), c)
  BY TakeOperation DEF SameOperations

\* One turn of trigger_ops.
LEMMA TriggerBalance ==
  ASSUME IInv, Balance, NEW f \in Fibers, trigger_ops(f)
  PROVE  Balance'
<1>0. PICK d \in States : d = Callee(f)
  BY InCallFrame DEF trigger_ops
<1>1. /\ InCall(f, "trigger") /\ "trigger" \in Other
      /\ UNCHANGED <<state, counter>>
  BY DEF trigger_ops, Other
<1>2. stack \in Stacks /\ ops \in Lists /\ stack[f] # <<>>
  BY <1>1, InCallFrame, StackTypes
<1>3. started \in [Combined -> Nat] /\ counter \in [Combined -> Nat]
      /\ \A c \in Combined : Balanced(c)
  BY DEF Balance
<1>4. CASE ops[d] = <<>>
  <2>1. stack' = Popped(stack, f) /\ UNCHANGED <<ops, started>>
    BY <1>0, <1>4 DEF trigger_ops, Pop, Popped
  <2>2. ASSUME NEW c \in Combined
        PROVE  SameCalls(stack, stack', c) /\ SameOperations(ops, ops', c) /\ StatusKept(c)
    BY <1>1, <2>1, PopOther, SameLists, SameStatus
  <2> QED
    BY <1>1, <2>1, <2>2, BalanceSame
<1>5. CASE ops[d] # <<>>
  <2>0. PICK e \in Awaiters : e = Head(ops[d])
    <3>1. ops[d] \in Seq(Awaiters)
      BY <1>2 DEF Lists
    <3> QED
      BY <1>5, <3>1, TailList
  <2> DEFINE v == Taken(ops, d)
  <2>1. /\ ops' = v
        /\ \/ e \in Fibers /\ UNCHANGED <<stack, started>>
           \/ e \in Combined /\ started' = [started EXCEPT ![e] = @ - 1] /\ Push(f, "combine", e)
           \/ e \in Transformed /\ Push(f, "transform", e) /\ UNCHANGED started
    BY <1>0, <1>5, <2>0 DEF trigger_ops, Taken
  <2>2. ASSUME NEW c \in Combined, c # e PROVE SameOperations(ops, ops', c)
    BY <1>2, <1>5, <2>0, <2>1, <2>2, TakeSame
  <2>3. CASE e \in Fibers \cup Transformed
    <3>1. e \notin Combined
      BY <2>3, DeferredAssumption DEF States
    <3>2. UNCHANGED started /\ (UNCHANGED stack \/ (e \in States /\ Push(f, "transform", e)))
      BY <2>1, <3>1 DEF States
    <3>3. "transform" \in Other
      BY DEF Other
    <3>4. ASSUME NEW c \in Combined
          PROVE  SameCalls(stack, stack', c) /\ SameOperations(ops, ops', c) /\ StatusKept(c)
      <4>1. c # e
        BY <3>1
      <4>2. SameCalls(stack, stack', c)
        BY <3>2, <3>3, PushOther, SameAgain
      <4> QED
        BY <1>1, <2>2, <4>1, <4>2, SameStatus
    <3> QED
      BY <1>1, <3>2, <3>4, BalanceSame
  <2>4. CASE e \in Combined
    <3> DEFINE r == [at |-> "combine", d |-> e]
    <3>1. started' = [started EXCEPT ![e] = @ - 1] /\ Push(f, "combine", e)
      BY <2>1, <2>4, DeferredAssumption DEF States
    <3>2. "combine" \in Running
      BY DEF Running
    <3>3. r \in Frames /\ r.at = "combine" /\ r.d = e /\ \A c : c # e => Neutral(r, c)
      BY <2>4, <3>2, RunningFrame
    <3>4. stack' = Pushed(stack, f, r)
      BY <3>1 DEF Push, Pushed
    <3> HIDE DEF r, v
    <3>5. ASSUME NEW c \in Combined, c # e PROVE Balanced(c)'
      <4>1. SameCalls(stack, stack', c)
        BY <1>2, <3>3, <3>4, <3>5, PushNeutral
      <4>2. started'[c] = started[c] /\ counter'[c] = counter[c] /\ StatusKept(c)
        BY <1>1, <1>3, <3>1, <3>5, SameStatus
      <4> QED
        BY <1>3, <2>2, <3>5, <4>1, <4>2, BalancedSame
    <3>6. PICK l \in Nat, m \in Nat :
            /\ Operations(ops, e, l) /\ Calls(stack, e, m)
            /\ l > 0 \/ CallsOf(stack, Listing, e) # {} =>
                 state[e] # "none" /\ \E n \in Nat : Remaining(stack, e, n) /\ Agree(e, l, n, m)
      BY <1>3, <2>4, BalancedAt
    <3>7. l > 0 /\ Operations(v, e, l - 1) /\ l - 1 \in Nat
      <4>1. l > 0 /\ Operations(v, e, l - 1)
        BY <1>2, <1>5, <2>0, <3>6, TakeOperation DEF v
      <4> QED
        BY <4>1
    <3>8. PICK n \in Nat : Remaining(stack, e, n) /\ Agree(e, l, n, m)
      BY <3>6, <3>7
    <3>9. state[e] # "none" /\ state'[e] # "none"
      BY <1>1, <3>6, <3>7
    <3>10. Remaining(stack', e, n) /\ Calls(stack', e, m + 1)
      BY <1>2, <3>2, <3>3, <3>4, <3>6, <3>8, PushRunning DEF SameLeft
    <3>11. /\ started[e] = l + n /\ started'[e] = (l - 1) + n
           /\ counter'[e] = (l - 1) + n + (m + 1)
      BY <1>1, <1>3, <2>4, <3>1, <3>8 DEF Agree
    <3>12. Agree(e, l - 1, n, m + 1)'
      BY <1>1, <3>8, <3>11 DEF Agree
    <3>13. Balanced(e)'
      <4>1. m + 1 \in Nat
        OBVIOUS
      <4> QED
        BY <2>1, <2>4, <3>7, <3>9, <3>10, <3>12, <4>1, BalancedFromNext
    <3>14. started' \in [Combined -> Nat] /\ counter' \in [Combined -> Nat]
      <4>1. (l - 1) + n \in Nat
        BY <3>7
      <4>2. started[e] - 1 \in Nat
        BY <3>11, <4>1
      <4> QED
        BY <1>1, <1>3, <3>1, <4>2
    <3> QED
      BY <3>5, <3>13, <3>14 DEF Balance
  <2> QED
    BY <2>1, <2>3, <2>4
<1> QED
  BY <1>4, <1>5

\* A frame of the loop of combine.
LEMMA ListingFrame ==
  ASSUME NEW d \in Combined, NEW i \in Nat \ {0}
  PROVE  LET r == [at |-> "combining", d |-> d, i |-> i] IN
         /\ r \in Frames /\ r.at = "combining" /\ r.d = d /\ r.i = i
         /\ \A c : c # d => Neutral(r, c)
  BY DEF Frames, Neutral

LEMMA CombineBalance ==
  ASSUME IInv, Balance, NEW f \in Fibers, NEW e \in Combined, combine(f, e)
  PROVE  Balance'
<1> DEFINE r == [at |-> "combining", d |-> e, i |-> 1]
           k == Len(Inputs[e])
<1>1. /\ state[e] = "none" /\ state' = [state EXCEPT ![e] = "PENDING"]
      /\ stack' = Pushed(stack, f, r) /\ UNCHANGED <<ops, counter, started>>
  BY DEF combine, Pushed
<1>2. /\ stack \in Stacks /\ e \in States
      /\ state \in [States -> {"none", "PENDING"} \cup Final]
  BY StackTypes DEF States
<1>3. r \in Frames /\ r.at = "combining" /\ r.d = e /\ r.i = 1 /\ \A c : c # e => Neutral(r, c)
  BY ListingFrame
<1>4. k \in Nat /\ k > 0
  <2>1. Inputs[e] \in Seq(States) /\ Inputs[e] # <<>>
    BY DeferredAssumption
  <2> QED
    BY <2>1, EmptySeq, InList
<1>5. started \in [Combined -> Nat] /\ counter \in [Combined -> Nat]
      /\ \A c \in Combined : Balanced(c)
  BY DEF Balance
<1> HIDE DEF r
<1>6. ASSUME NEW c \in Combined, c # e PROVE Balanced(c)'
  <2>1. SameCalls(stack, stack', c)
    BY <1>1, <1>2, <1>3, <1>6, PushNeutral
  <2>2. started'[c] = started[c] /\ counter'[c] = counter[c] /\ SameOperations(ops, ops', c)
    BY <1>1, SameLists
  <2>3. StatusKept(c)
    BY <1>1, <1>2, <1>6 DEF StatusKept, States
  <2> QED
    BY <1>5, <2>1, <2>2, <2>3, BalancedSame
<1>7. /\ Operations(ops, e, 0) /\ Calls(stack, e, 0) /\ CallsOf(stack, Listing, e) = {}
      /\ started[e] = k /\ counter[e] = k
  BY <1>1, <1>5 DEF Balanced
<1>8. Remaining(stack', e, k) /\ Calls(stack', e, 0)
  <2>1. r.i \in 1..(Len(Inputs[e]) + 1) /\ k + 1 - r.i = k
    BY <1>3, <1>4
  <2> QED
    BY <1>1, <1>2, <1>3, <1>7, <2>1, PushListing
<1>9. Agree(e, 0, k, 0)' /\ state'[e] # "none"
  BY <1>1, <1>2, <1>4, <1>7 DEF Agree
<1>10. Balanced(e)'
  BY <1>1, <1>4, <1>7, <1>8, <1>9, BalancedFromNext
<1>11. started' \in [Combined -> Nat] /\ counter' \in [Combined -> Nat]
  BY <1>1, <1>5
<1> QED
  BY <1>6, <1>10, <1>11 DEF Balance

\* One turn of the loop of combine.
LEMMA CombineInputBalance ==
  ASSUME IInv, Balance, NEW f \in Fibers, CombineInput(f)
  PROVE  Balance'
<1>0. PICK e \in Combined : e = Callee(f)
  BY InCallFrame DEF FrameAt, CombineInput
<1>1. /\ stack[f] # <<>> /\ stack \in Stacks /\ ops \in Lists
      /\ Last(stack[f]) \in Frames /\ Last(stack[f]).at = "combining" /\ Last(stack[f]).d = e
      /\ UNCHANGED <<state, counter>>
  BY <1>0, InCallFrame, StackTypes DEF CombineInput
<1>2. PICK i \in Nat \ {0} : i = Last(stack[f]).i
  BY <1>1 DEF Frames
<1> DEFINE k == Len(Inputs[e])
           u == Popped(stack, f)
           a == [at |-> "combining", d |-> e, i |-> i + 1]
           b == [at |-> "combine", d |-> e]
           d == Inputs[e][i]
<1>3. started \in [Combined -> Nat] /\ counter \in [Combined -> Nat]
      /\ \A c \in Combined : Balanced(c)
  BY DEF Balance
<1>4. a \in Frames /\ a.at = "combining" /\ a.d = e /\ a.i = i + 1 /\ \A c : c # e => Neutral(a, c)
  <2>1. i + 1 \in Nat \ {0}
    OBVIOUS
  <2> QED
    BY <2>1, ListingFrame
<1>5. b \in Frames /\ b.at = "combine" /\ b.d = e /\ \A c : c # e => Neutral(b, c)
  <2>1. "combine" \in Running
    BY DEF Running
  <2> QED
    BY <2>1, RunningFrame
<1>6. \/ i > k /\ stack' = u /\ UNCHANGED <<ops, started>>
      \/ /\ ~(i > k) /\ ops' = Appended(ops, d, e)
         /\ stack' = Replaced(stack, f, a) /\ UNCHANGED started
      \/ /\ ~(i > k) /\ started' = [started EXCEPT ![e] = @ - 1]
         /\ stack' = Doubled(stack, f, a, b) /\ UNCHANGED ops
  BY <1>0, <1>2 DEF CombineInput, Pop, Popped, Replaced, Doubled, Appended
<1> HIDE DEF a, b
<1>7. \/ i > k /\ stack' = u /\ UNCHANGED <<ops, started>>
      \/ /\ ~(i > k) /\ ops' = Appended(ops, d, e)
         /\ stack' = Pushed(u, f, a) /\ UNCHANGED started
      \/ /\ ~(i > k) /\ started' = [started EXCEPT ![e] = @ - 1]
         /\ stack' = Pushed(Pushed(u, f, a), f, b) /\ UNCHANGED ops
  BY <1>1, <1>4, <1>5, <1>6, ReplaceStacks, CoverStacks
<1>8. k \in Nat
  BY DeferredAssumption, InList
<1>9. ~(i > k) => d \in States
  <2>1. Inputs[e] \in Seq(States)
    BY DeferredAssumption
  <2> QED
    BY <1>8, <2>1, InList
<1>10. e \in Awaiters
  BY DEF Awaiters
<1>11. ASSUME NEW c \in Combined, c # e PROVE Balanced(c)'
  <2>1. Neutral(Last(stack[f]), c)
    BY <1>1, <1>11 DEF Neutral
  <2>2. u \in Stacks /\ SameCalls(stack, u, c)
    BY <1>1, <2>1, PopNeutral
  <2> HIDE DEF u, d
  <2>3. Pushed(u, f, a) \in Stacks /\ SameCalls(stack, Pushed(u, f, a), c)
    <3>1. Pushed(u, f, a) \in Stacks /\ SameCalls(u, Pushed(u, f, a), c)
      BY <1>4, <1>11, <2>2, PushNeutral
    <3> QED
      BY <2>2, <3>1, SameChain
  <2>4. SameCalls(stack, Pushed(Pushed(u, f, a), f, b), c)
    <3>1. SameCalls(Pushed(u, f, a), Pushed(Pushed(u, f, a), f, b), c)
      BY <1>5, <1>11, <2>3, PushNeutral
    <3> QED
      BY <2>3, <3>1, SameChain
  <2>5. SameCalls(stack, stack', c)
    BY <1>7, <2>2, <2>3, <2>4
  <2>6. SameOperations(ops, ops', c)
    BY <1>1, <1>7, <1>9, <1>10, <1>11, AppendSame, SameLists
  <2>7. started'[c] = started[c] /\ counter'[c] = counter[c] /\ StatusKept(c)
    BY <1>1, <1>3, <1>7, <1>11, SameStatus
  <2> QED
    BY <1>3, <2>5, <2>6, <2>7, BalancedSame
<1>12. CallsOf(stack, Listing, e) # {}
  <2>1. PopEffect(stack, f, Listing, e) /\ "combining" \in Listing
    BY <1>1, PoppedCalls DEF Listing
  <2> QED
    BY <1>1, <2>1 DEF PopEffect
<1>13. PICK l \in Nat, m \in Nat :
        /\ Operations(ops, e, l) /\ Calls(stack, e, m)
        /\ l > 0 \/ CallsOf(stack, Listing, e) # {} =>
             state[e] # "none" /\ \E n \in Nat : Remaining(stack, e, n) /\ Agree(e, l, n, m)
  BY <1>3, BalancedAt
<1>14. PICK n \in Nat : Remaining(stack, e, n) /\ Agree(e, l, n, m)
  BY <1>12, <1>13
<1>15. state[e] # "none" /\ state'[e] # "none"
  BY <1>1, <1>12, <1>13
<1>16. /\ u \in Stacks /\ CallsOf(u, Listing, e) = {} /\ Calls(u, e, m)
       /\ i \in 1..(k + 1) /\ n = k + 1 - i
  BY <1>1, <1>2, <1>13, <1>14, PopListing
<1> HIDE DEF u, d
<1>17. CASE i > k
  <2>1. n = 0 /\ Remaining(stack', e, n) /\ stack' = u
    BY <1>7, <1>8, <1>16, <1>17 DEF Remaining
  <2>2. Agree(e, l, n, m)' /\ UNCHANGED <<started, ops>>
    BY <1>1, <1>7, <1>14, <1>17 DEF Agree
  <2>3. Balanced(e)'
    BY <1>13, <1>15, <1>16, <2>1, <2>2, BalancedFromNext
  <2>4. started' \in [Combined -> Nat] /\ counter' \in [Combined -> Nat]
    BY <1>1, <1>3, <2>2
  <2> QED
    BY <1>11, <2>3, <2>4 DEF Balance
<1>18. CASE ~(i > k)
  <2>1. n > 0 /\ n - 1 \in Nat /\ i + 1 \in 1..(k + 1) /\ k + 1 - (i + 1) = n - 1
    <3> HIDE DEF k
    <3> QED
      BY <1>8, <1>16, <1>18
  <2>2. /\ Pushed(u, f, a) \in Stacks /\ Remaining(Pushed(u, f, a), e, n - 1)
        /\ Calls(Pushed(u, f, a), e, m)
    BY <1>4, <1>16, <2>1, PushListing
  <2>3. CASE ops' = Appended(ops, d, e) /\ stack' = Pushed(u, f, a) /\ UNCHANGED started
    <3>1. Operations(ops', e, l + 1) /\ l + 1 \in Nat
      BY <1>1, <1>9, <1>10, <1>13, <1>18, <2>3, AppendOperation
    <3>2. Agree(e, l + 1, n - 1, m)'
      BY <1>1, <1>14, <2>1, <2>3 DEF Agree
    <3>3. Balanced(e)'
      BY <1>15, <2>1, <2>2, <2>3, <3>1, <3>2, BalancedFromNext
    <3>4. started' \in [Combined -> Nat] /\ counter' \in [Combined -> Nat]
      BY <1>1, <1>3, <2>3
    <3> QED
      BY <1>11, <3>3, <3>4 DEF Balance
  <2>4. CASE /\ started' = [started EXCEPT ![e] = @ - 1] /\ UNCHANGED ops
             /\ stack' = Pushed(Pushed(u, f, a), f, b)
    <3>1. Remaining(stack', e, n - 1) /\ Calls(stack', e, m + 1) /\ m + 1 \in Nat
      <4>1. b.at \in Running
        BY <1>5 DEF Running
      <4> QED
        BY <1>5, <2>2, <2>4, <4>1, PushRunning DEF SameLeft
    <3>2. /\ started[e] = l + n /\ started'[e] = l + (n - 1)
          /\ counter'[e] = l + (n - 1) + (m + 1)
      BY <1>1, <1>3, <1>14, <2>4 DEF Agree
    <3>3. Agree(e, l, n - 1, m + 1)'
      BY <1>1, <1>14, <3>2 DEF Agree
    <3>4. Balanced(e)'
      BY <1>13, <1>15, <2>1, <2>4, <3>1, <3>3, BalancedFromNext
    <3>5. started' \in [Combined -> Nat] /\ counter' \in [Combined -> Nat]
      <4>1. started[e] - 1 \in Nat
        BY <2>1, <3>2
      <4> QED
        BY <1>1, <1>3, <2>4, <4>1
    <3> QED
      BY <1>11, <3>4, <3>5 DEF Balance
  <2> QED
    BY <1>7, <1>18, <2>3, <2>4
<1> QED
  BY <1>17, <1>18

\* A transform and an await list an operation of their own.
LEMMA TransformBalance ==
  ASSUME IInv, Balance, NEW f \in Fibers, NEW x \in Transformed, transform(f, x)
  PROVE  Balance'
<1> DEFINE d == Source[x]
<1>1. /\ state' = [state EXCEPT ![x] = "PENDING"] /\ UNCHANGED <<counter, started>>
      /\ \/ ops' = Appended(ops, d, x) /\ UNCHANGED stack
         \/ Push(f, "transform", x) /\ UNCHANGED ops
  BY DEF transform, Appended
<1>2. /\ ops \in Lists /\ state \in [States -> {"none", "PENDING"} \cup Final]
      /\ x \in States /\ x \in Awaiters /\ "transform" \in Other
  BY StackTypes DEF States, Awaiters, Other
<1>3. d \in States /\ x \notin Combined
  BY DeferredAssumption
<1> HIDE DEF d
<1>4. ASSUME NEW c \in Combined
      PROVE  SameCalls(stack, stack', c) /\ SameOperations(ops, ops', c) /\ StatusKept(c)
  <2>1. c # x
    BY <1>3
  <2>2. SameCalls(stack, stack', c)
    BY <1>1, <1>2, PushOther, SameAgain
  <2>3. SameOperations(ops, ops', c)
    BY <1>1, <1>2, <1>3, <2>1, AppendSame, SameLists
  <2>4. StatusKept(c)
    BY <1>1, <1>2, <2>1 DEF StatusKept, States
  <2> QED
    BY <2>2, <2>3, <2>4
<1> QED
  BY <1>1, <1>4, BalanceSame

LEMMA AwaitBalance ==
  ASSUME IInv, Balance, NEW f \in Fibers, NEW d \in States, await(f, d)
  PROVE  Balance'
<1>1. /\ ops' = Appended(ops, d, f)
      /\ UNCHANGED <<state, stack, counter, started>>
  BY DEF await, Appended
<1>2. ops \in Lists /\ f \in Awaiters /\ f \notin Combined
  BY StackTypes, DeferredAssumption DEF Awaiters, States
<1>3. ASSUME NEW c \in Combined
      PROVE  SameCalls(stack, stack', c) /\ SameOperations(ops, ops', c) /\ StatusKept(c)
  <2>1. c # f
    BY <1>2
  <2> QED
    BY <1>1, <1>2, <2>1, AppendSame, SameAgain, SameStatus
<1> QED
  BY <1>1, <1>3, BalanceSame

\* Every step keeps the counters right.
LEMMA NextBalance ==
  ASSUME IInv, Balance, Next
  PROVE  Balance'
<1>1. ASSUME NEW f \in Fibers, FiberStep(f) PROVE Balance'
  <2>1. "RESOLVED" \in Final /\ "FAILED" \in Final
    BY DEF Final
  <2>2. ASSUME AwaitReturns(f) PROVE Balance'
    BY <2>2, QuietBalance DEF AwaitReturns
  <2> QED
    BY <1>1, <2>1, <2>2, ResolveBalance, TaskEndsBalance, AwaitBalance, DestroyBalance, CombineBalance,
       TransformBalance, ContinuationBalance, TransformReturnsBalance, TriggerBalance,
       CombineInputBalance, CountdownBalance, CancelDeferBalance, HandlerReturnsBalance
    DEF FiberStep
<1>2. ASSUME SchedulerStep PROVE Balance'
  BY <1>2, QuietBalance DEF SchedulerStep, deferVars
<1> QED
  BY <1>1, <1>2, ShutdownBalance DEF Next

LEMMA InitBalance ==
  ASSUME Init
  PROVE  Balance
<1>1. ASSUME NEW c \in Combined PROVE Balanced(c)
  <2>1. \A f \in Fibers : Len(stack[f]) = 0
    BY DEF Init
  <2>2. \A d \in States : Len(ops[d]) = 0
    BY DEF Init
  <2>3. \A A : CallsOf(stack, A, c) = {}
    BY <2>1 DEF CallsOf, Holds
  <2>4. OperationsOf(ops, c) = {}
    BY <2>2 DEF OperationsOf
  <2>5. Operations(ops, c, 0) /\ Calls(stack, c, 0)
    BY <2>3, <2>4, FS_EmptySet DEF Operations, Calls
  <2>6. state[c] = "none"
    BY DeferredAssumption DEF Init, States
  <2>7. started[c] = Len(Inputs[c]) /\ counter[c] = Len(Inputs[c])
    BY DEF Init
  <2> QED
    BY <2>3, <2>5, <2>6, <2>7 DEF Balanced
<1>2. \A c \in Combined : Len(Inputs[c]) \in Nat
  BY DeferredAssumption, InList
<1>3. started \in [Combined -> Nat] /\ counter \in [Combined -> Nat]
  BY <1>2 DEF Init
<1> QED
  BY <1>1, <1>3 DEF Balance

\* What the property counts.
LEMMA CountsAreThose ==
  ASSUME IInv, NEW c \in Combined
  PROVE  /\ UNION {{<<d, i>> : i \in {j \in DOMAIN ops[d] : ops[d][j] = c}} : d \in States}
              = OperationsOf(ops, c)
         /\ \A at : Calling(at, c) = CallsOf(stack, {at}, c)
         /\ Calling("combine", c) \cup Calling("countdown", c) = CallsOf(stack, Running, c)
<1>1. /\ \A d \in States : DOMAIN ops[d] = 1..Len(ops[d]) /\ Len(ops[d]) \in Nat
      /\ \A f \in Fibers : DOMAIN stack[f] = 1..Len(stack[f]) /\ Len(stack[f]) \in Nat
  BY StackTypes, InList, LenProperties DEF Stacks, Lists
<1>2. UNION {{<<d, i>> : i \in {j \in DOMAIN ops[d] : ops[d][j] = c}} : d \in States}
        = OperationsOf(ops, c)
  BY <1>1 DEF OperationsOf
<1>3. ASSUME NEW at PROVE Calling(at, c) = CallsOf(stack, {at}, c)
  BY <1>1 DEF Calling, CallsOf, Holds
<1>4. CallsOf(stack, {"combine"}, c) \cup CallsOf(stack, {"countdown"}, c)
        = CallsOf(stack, Running, c)
  BY DEF CallsOf, Holds, Running
<1> QED
  BY <1>2, <1>3, <1>4

\* The loop of combine has as many inputs to go through as are not listed.
LEMMA LeftCounts ==
  ASSUME NEW c \in Combined, NEW n \in Nat, Remaining(stack, c, n)
  PROVE  Cardinality(UNION {(stack[p[1]][p[2]].i)..Len(Inputs[c]) :
                            p \in CallsOf(stack, Listing, c)}) = n
<1> DEFINE k == Len(Inputs[c])
           T == UNION {(stack[p[1]][p[2]].i)..k : p \in CallsOf(stack, Listing, c)}
<1>0. k \in Nat
  BY DeferredAssumption, InList
<1>1. CASE CallsOf(stack, Listing, c) = {}
  <2>1. n = 0
    BY <1>1 DEF Remaining, LeftAt
  <2>2. T = {}
    BY <1>1
  <2> QED
    BY <2>1, <2>2, FS_EmptySet
<1>2. CASE CallsOf(stack, Listing, c) # {}
  <2>1. PICK p \in Fibers \X (Nat \ {0}) : LeftAt(stack, c, p, n)
    BY <1>2 DEF Remaining
  <2>2. PICK i \in 1..(k + 1) : i = stack[p[1]][p[2]].i /\ n = k + 1 - i
    BY <2>1 DEF LeftAt
  <2>3. CallsOf(stack, Listing, c) = {p}
    BY <2>1 DEF LeftAt
  <2>4. T = i..k
    BY <2>2, <2>3
  <2> HIDE DEF k
  <2>5. Cardinality(i..k) = IF i > k THEN 0 ELSE k - i + 1
    <3>1. i \in Int /\ k \in Int
      BY <1>0
    <3> QED
      BY <3>1, FS_Interval
  <2> HIDE DEF T
  <2>6. Cardinality(i..k) = n
    BY <1>0, <2>2, <2>5
  <2> QED
    BY <2>4, <2>6 DEF T, k
<1> QED
  BY <1>1, <1>2

\* The two counters of every combine agree with the operations that are listed,
\* still to be listed and running, whatever awaitables it was given and whatever
\* its continuations settle, so combined is freed with the last of them; and a
\* combine whose inputs have all been counted is settled.
THEOREM CombineCounts == Spec => []CombineSound
<1>1. IInv /\ Balance => CombineSound
  <2>1. SUFFICES ASSUME IInv, Balance, NEW c \in Combined, state[c] # "none"
                 PROVE  LET listed  == UNION {{<<d, i>> : i \in {j \in DOMAIN ops[d] : ops[d][j] = c}} : d \in States}
                            toList  == UNION {(stack[p[1]][p[2]].i)..Len(Inputs[c]) : p \in Calling("combining", c)}
                            running == Calling("combine", c) \cup Calling("countdown", c) IN
                        /\ started[c] = Cardinality(listed) + Cardinality(toList)
                        /\ counter[c] = started[c] + Cardinality(running)
                        /\ counter[c] = 0 => state[c] # "PENDING"
    BY DEF CombineSound
  <2>2. PICK l \in Nat, r \in Nat, n \in Nat :
          /\ Operations(ops, c, l) /\ Calls(stack, c, r)
          /\ Remaining(stack, c, n) /\ Agree(c, l, n, r)
    BY <2>1 DEF Balance, Balanced
  <2>3. Calling("combining", c) = CallsOf(stack, Listing, c)
    BY <2>1, CountsAreThose DEF Listing
  <2>4. Cardinality(UNION {(stack[p[1]][p[2]].i)..Len(Inputs[c]) : p \in Calling("combining", c)}) = n
    BY <2>2, <2>3, LeftCounts
  <2>5. Cardinality(UNION {{<<d, i>> : i \in {j \in DOMAIN ops[d] : ops[d][j] = c}} : d \in States}) = l
    BY <2>1, <2>2, CountsAreThose DEF Operations
  <2>6. Cardinality(Calling("combine", c) \cup Calling("countdown", c)) = r
    BY <2>1, <2>2, CountsAreThose DEF Calls
  <2> QED
    BY <2>2, <2>4, <2>5, <2>6 DEF Agree
<1>2. Init => Balance
  BY InitBalance
<1>3. IInv /\ Balance /\ [Next]_vars => Balance'
  <2>1. ASSUME Balance, UNCHANGED vars PROVE Balance'
    BY <2>1, QuietBalance DEF vars, deferVars
  <2> QED
    BY <2>1, NextBalance
<1> QED
  BY <1>1, <1>2, <1>3, Invariant, PTL DEF Spec

=============================================================================
