--------------------------- MODULE AsyncTaskProofs ---------------------------
(***************************************************************************)
(* Theorems about AsyncTask, for any number of tasks, any handles, any     *)
(* bounds on awaits and calls.                                             *)
(*                                                                         *)
(* The invariant speaks of two kinds of code that can wait: a fiber (the   *)
(* main script, or a task in native), and a task that is executed inline.  *)
(* What is proved about awaiters is about fibers; of an inlined task that  *)
(* is listed it is only kept that it never gets a fiber.                   *)
(***************************************************************************)
EXTENDS AsyncTask, AsyncSchedulerProofs

\* The fibers that exist.
Living == native \cup {Root}

\* The types, with what the model never changes.
Types ==
  /\ FiberLists
  /\ ready \in Seq(Tasks) /\ IsInjective(ready)
  /\ pc \in [Fibers \cup {Runner} -> {"run", "sleep", "await", "chain", "nested",
                                      "return", "throw", "trigger", "null",
                                      "drain", "dispose", "done"}]
  /\ operations \in [Tasks -> Seq(Fibers)]
  /\ target \in [Fibers -> Tasks \cup {Root}]
  /\ stack \in [Fibers -> Seq(Tasks)]
  /\ returned \in [Fibers -> SUBSET Nat]
  /\ native \subseteq Tasks
  /\ gone \subseteq Tasks
  /\ runs \in [Tasks -> Nat]
  /\ awaits \in [Tasks -> Nat]
  /\ defer = {}

\* Only a fiber that exists runs, waits or executes other tasks.
Fibered ==
  /\ Active \subseteq Living \cup {Runner}
  /\ \A f \in Fibers \ Living : pc[f] = "run" /\ stack[f] = <<>>

\* Where a task is executed, and how often.
Executed ==
  \A t \in Tasks :
    /\ t \in Range(ready) => t \notin native /\ runs[t] = 0 /\ Inlined(t) = {}
    /\ t \in native => runs[t] = 1 /\ Inlined(t) = {}
    /\ t \notin native => runs[t] <= awaits[t]
    /\ IsFiniteSet(Inlined(t)) /\ Cardinality(Inlined(t)) <= awaits[t]

\* A listed operation is that of a fiber that awaits this task, or that of an
\* inlined task, which never gets a fiber.
Listed ==
  \A t \in Tasks : \A i \in 1..Len(operations[t]) :
    LET b == operations[t][i] IN
      /\ b \notin Range(ready)
      /\ b \in Living => op[b] = "RUNNING" /\ pc[b] = "await" /\ target[b] = t

\* A fiber that awaits a task is listed there once.
Registered ==
  \A f \in Fibers : pc[f] = "await" /\ op[f] = "RUNNING" =>
    /\ target[f] \in native
    /\ \E i \in 1..Len(operations[target[f]]) : operations[target[f]][i] = f
    /\ \A i, j \in 1..Len(operations[target[f]]) :
         operations[target[f]][i] = f /\ operations[target[f]][j] = f => i = j

\* A task at or behind its trigger loop is settled; behind it nobody is listed.
Leaving == {"trigger", "null", "done"}

Over ==
  \A t \in Tasks : /\ pc[t] \in Leaving => Done(t)
                   /\ pc[t] = "done" => operations[t] = <<>>

\* An outcome comes from a task at or behind its trigger loop.
Outcomes ==
  \A f \in Fibers : pc[f] = "await" /\ Settled(f) =>
    /\ target[f] \in Tasks /\ pc[target[f]] \in Leaving
    /\ op[f] = OutcomeOf(target[f])

\* Where a callback has returned a task, a task is inlined.  The innermost task
\* is such a one exactly between the return and the end of the await for it.
Chains == {"chain", "nested", "return", "throw"}

Passing ==
  \A f \in Fibers :
    /\ returned[f] \subseteq 1..Len(stack[f])
    /\ Len(stack[f]) \in returned[f] => pc[f] \in Chains
    /\ pc[f] \in {"chain", "return", "throw"} => Len(stack[f]) \in returned[f]
    /\ pc[f] = "chain" => target[Last(stack[f])] \in Tasks

\* The busy count, whose set of callers is finite.
Balanced == IsFiniteSet(Calling) /\ BusyBalanced

IInv == /\ Types /\ Fibered /\ Executed /\ Listed /\ Registered /\ Over
        /\ Outcomes /\ Passing /\ Balanced

-----------------------------------------------------------------------------
(***************************************************************************)
(* Positions in the stacks of the fibers, as pairs.                        *)
(***************************************************************************)
Pairs(S) == UNION {{f} \X S[f] : f \in Fibers}

\* One more position on one fiber.
LEMMA PairsAdd ==
  ASSUME NEW S, NEW T, NEW f \in Fibers, NEW n, n \notin S[f],
         T[f] = S[f] \cup {n}, \A g \in Fibers \ {f} : T[g] = S[g],
         IsFiniteSet(Pairs(S))
  PROVE  /\ IsFiniteSet(Pairs(T))
         /\ Cardinality(Pairs(T)) = Cardinality(Pairs(S)) + 1
<1>1. Pairs(T) = Pairs(S) \cup {<<f, n>>}
  <2>1. ASSUME NEW p \in Pairs(T) PROVE p \in Pairs(S) \cup {<<f, n>>}
    <3>1. PICK g \in Fibers : p \in {g} \X T[g]
      BY <2>1, Zenon DEF Pairs
    <3>2. PICK i \in T[g] : p = <<g, i>>
      BY <3>1
    <3>3. CASE i \in S[g]
      <4>1. p \in {g} \X S[g]
        BY <3>2, <3>3
      <4> QED
        BY <4>1, Zenon DEF Pairs
    <3>4. CASE i \notin S[g]
      <4>1. g = f /\ i = n
        BY <3>2, <3>4
      <4> QED
        BY <3>2, <4>1
    <3> QED
      BY <3>3, <3>4
  <2>2. ASSUME NEW p \in Pairs(S) PROVE p \in Pairs(T)
    <3>1. PICK g \in Fibers : p \in {g} \X S[g]
      BY <2>2, Zenon DEF Pairs
    <3>2. S[g] \subseteq T[g]
      BY <3>1
    <3>3. p \in {g} \X T[g]
      BY <3>1, <3>2
    <3> QED
      BY <3>3, Zenon DEF Pairs
  <2>3. <<f, n>> \in {f} \X T[f]
    OBVIOUS
  <2>4. <<f, n>> \in Pairs(T)
    BY <2>3, Zenon DEF Pairs
  <2> QED
    BY <2>1, <2>2, <2>4
<1>2. <<f, n>> \notin Pairs(S)
  <2>1. SUFFICES ASSUME NEW g \in Fibers, <<f, n>> \in {g} \X S[g] PROVE FALSE
    BY Zenon DEF Pairs
  <2>2. g = f /\ n \in S[g]
    BY <2>1
  <2> QED
    BY <2>2
<1> DEFINE A == Pairs(S)
           x == <<f, n>>
<1>3. IsFiniteSet(A) /\ x \notin A /\ Pairs(T) = A \cup {x}
  BY <1>1, <1>2
<1> HIDE DEF A, x
<1>4. IsFiniteSet(A \cup {x}) /\ Cardinality(A \cup {x}) = Cardinality(A) + 1
  BY <1>3, FS_AddElement
<1> QED
  BY <1>3, <1>4 DEF A

\* One position less.
LEMMA PairsRemove ==
  ASSUME NEW S, NEW T, NEW f \in Fibers, NEW n, n \notin T[f],
         S[f] = T[f] \cup {n}, \A g \in Fibers \ {f} : T[g] = S[g],
         IsFiniteSet(Pairs(S))
  PROVE  /\ IsFiniteSet(Pairs(T)) /\ Cardinality(Pairs(T)) \in Nat
         /\ Cardinality(Pairs(S)) = Cardinality(Pairs(T)) + 1
<1>1. Pairs(T) \subseteq Pairs(S)
  <2>1. ASSUME NEW p \in Pairs(T) PROVE p \in Pairs(S)
    <3>1. PICK g \in Fibers : p \in {g} \X T[g]
      BY <2>1, Zenon DEF Pairs
    <3>2. T[g] \subseteq S[g]
      BY <3>1
    <3>3. p \in {g} \X S[g]
      BY <3>1, <3>2
    <3> QED
      BY <3>3, Zenon DEF Pairs
  <2> QED
    BY <2>1
<1>2. IsFiniteSet(Pairs(T))
  BY <1>1, FS_Subset
<1>3. Cardinality(Pairs(S)) = Cardinality(Pairs(T)) + 1
  BY <1>2, PairsAdd
<1> QED
  BY <1>2, <1>3, FS_CardinalityType

\* The positions of a task, and those with a foreground caller that waits for
\* the callback.
At(t) == [f \in Fibers |-> {i \in DOMAIN stack[f] : stack[f][i] = t}]
Foreground ==
  [f \in Fibers |-> {i \in DOMAIN stack[f] \ returned[f] : Caller(f, i) \notin Background}]

\* Both sets of positions are such pairs.
LEMMA PairsAre ==
  Calling = Pairs(Foreground) /\ \A t : Inlined(t) = Pairs(At(t))
<1>1. Calling = Pairs(Foreground)
  <2> DEFINE G(f) == {i \in DOMAIN stack[f] \ returned[f] : Caller(f, i) \notin Background}
             F == [f \in Fibers |-> G(f)]
  <2>1. \A f \in Fibers : F[f] = G(f)
    OBVIOUS
  <2> HIDE DEF F
  <2>2. {{f} \X F[f] : f \in Fibers} = {{f} \X G(f) : f \in Fibers}
    <3> HIDE DEF G
    <3> QED
      BY <2>1, Zenon
  <2>3. Foreground = F
    BY DEF F, Foreground
  <2> QED
    BY <2>2, <2>3, Zenon DEF Calling, Pairs
<1>2. ASSUME NEW t PROVE Inlined(t) = Pairs(At(t))
  <2> DEFINE F == [f \in Fibers |-> {i \in DOMAIN stack[f] : stack[f][i] = t}]
  <2>1. \A f \in Fibers : F[f] = {i \in DOMAIN stack[f] : stack[f][i] = t}
    OBVIOUS
  <2> HIDE DEF F
  <2>2. {{f} \X F[f] : f \in Fibers}
          = {{f} \X {i \in DOMAIN stack[f] : stack[f][i] = t} : f \in Fibers}
    <3> DEFINE G(f) == {i \in DOMAIN stack[f] : stack[f][i] = t}
    <3>1. \A f \in Fibers : F[f] = G(f)
      BY <2>1
    <3> HIDE DEF G
    <3>2. {{f} \X F[f] : f \in Fibers} = {{f} \X G(f) : f \in Fibers}
      BY <3>1, Zenon
    <3> QED
      BY <3>2 DEF G
  <2>3. At(t) = F
    BY DEF F, At
  <2> QED
    BY <2>2, <2>3, Zenon DEF Inlined, Pairs
<1> QED
  BY <1>1, <1>2

\* The same after a step.
LEMMA PairsWillBe ==
  Calling' = Pairs(Foreground') /\ \A t : Inlined(t)' = Pairs(At(t)')
<1>1. (Calling = Pairs(Foreground) /\ \A t : Inlined(t) = Pairs(At(t)))'
  BY PairsAre, PTL
<1> QED
  BY <1>1 DEF Pairs

\* A task is inlined on top of the stack of fiber f: it gets one position more,
\* whose caller is the code that f executed.
LEMMA Push ==
  ASSUME stack \in [Fibers -> Seq(Tasks)], NEW f \in Fibers, NEW t \in Tasks,
         stack' = [stack EXCEPT ![f] = Append(@, t)],
         UNCHANGED returned, returned[f] \subseteq 1..Len(stack[f])
  PROVE  /\ IsFiniteSet(Inlined(t)) =>
              /\ IsFiniteSet(Inlined(t)')
              /\ Cardinality(Inlined(t)') = Cardinality(Inlined(t)) + 1
         /\ \A u \in Tasks : u # t => Inlined(u)' = Inlined(u)
         /\ IsFiniteSet(Calling) =>
              /\ IsFiniteSet(Calling')
              /\ Body(f) \in Background => Cardinality(Calling') = Cardinality(Calling)
              /\ Body(f) \notin Background =>
                   Cardinality(Calling') = Cardinality(Calling) + 1
         /\ \A g \in Fibers \ {f} : Body(g)' = Body(g)
<1> DEFINE s == stack[f]
           s1 == Append(s, t)
<1>n. PICK n : n = Len(stack[f]) + 1
  OBVIOUS
<1>0. /\ s \in Seq(Tasks) /\ stack'[f] = s1
      /\ \A g \in Fibers \ {f} : stack'[g] = stack[g]
      /\ stack' \in [Fibers -> Seq(Tasks)]
  BY AppendList
<1>1. /\ Len(s) \in Nat /\ DOMAIN s = 1..Len(s) /\ DOMAIN s1 = 1..(Len(s) + 1)
      /\ s1[Len(s) + 1] = t /\ \A i \in 1..Len(s) : s1[i] = s[i]
  BY <1>0, AppendAt, AppendList, InList
<1> HIDE DEF s1
<1>2. /\ DOMAIN s1 = DOMAIN s \cup {n} /\ n \notin DOMAIN s
      /\ n = Len(s) + 1
  BY <1>1, <1>n
<1>3. ASSUME NEW u \in Tasks
      PROVE  /\ n \notin At(u)[f]
             /\ At(u)'[f] = At(u)[f] \cup (IF u = t THEN {n} ELSE {})
             /\ \A g \in Fibers \ {f} : At(u)'[g] = At(u)[g]
  <2>1. /\ At(u)'[f] = {i \in DOMAIN s1 : s1[i] = u}
        /\ At(u)[f] = {i \in DOMAIN s : s[i] = u}
    BY <1>0 DEF At
  <2>2. \A g \in Fibers \ {f} : At(u)'[g] = At(u)[g]
    BY <1>0 DEF At
  <2>3. {i \in DOMAIN s1 : s1[i] = u}
          = {i \in DOMAIN s : s[i] = u} \cup (IF u = t THEN {n} ELSE {})
    BY <1>1, <1>2
  <2> QED
    BY <1>2, <2>1, <2>2, <2>3
<1>4. ASSUME IsFiniteSet(Inlined(t))
      PROVE  /\ IsFiniteSet(Inlined(t)')
             /\ Cardinality(Inlined(t)') = Cardinality(Inlined(t)) + 1
  <2> DEFINE A == At(t)
             B == At(t)'
  <2>1. /\ n \notin A[f] /\ B[f] = A[f] \cup {n}
        /\ \A g \in Fibers \ {f} : B[g] = A[g]
    BY <1>3
  <2>2. Inlined(t) = Pairs(A) /\ Inlined(t)' = Pairs(B)
    BY PairsAre, PairsWillBe
  <2> HIDE DEF A, B
  <2>3. /\ IsFiniteSet(Pairs(B))
        /\ Cardinality(Pairs(B)) = Cardinality(Pairs(A)) + 1
    BY <1>4, <2>1, <2>2, PairsAdd
  <2> QED
    BY <2>2, <2>3
<1>5. ASSUME NEW u \in Tasks, u # t PROVE Inlined(u)' = Inlined(u)
  <2>1. \A g \in Fibers : At(u)'[g] = At(u)[g]
    BY <1>3, <1>5
  <2>2. At(u)' = At(u)
    BY <2>1 DEF At
  <2>3. Inlined(u) = Pairs(At(u)) /\ Inlined(u)' = Pairs(At(u)')
    BY PairsAre, PairsWillBe
  <2> QED
    BY <2>2, <2>3
<1>6. /\ n \notin Foreground[f]
      /\ Foreground'[f] = Foreground[f] \cup (IF Body(f) \in Background THEN {} ELSE {n})
      /\ \A g \in Fibers \ {f} : Foreground'[g] = Foreground[g]
  <2>1. /\ Foreground'[f] = {i \in DOMAIN s1 \ returned[f] : Caller(f, i)' \notin Background}
        /\ Foreground[f] = {i \in DOMAIN s \ returned[f] : Caller(f, i) \notin Background}
        /\ n \notin returned[f]
    BY <1>0, <1>1, <1>2 DEF Foreground
  <2>2. \A g \in Fibers \ {f} : Foreground'[g] = Foreground[g]
    BY <1>0 DEF Foreground, Caller
  <2>3. \A i \in DOMAIN s : Caller(f, i)' = Caller(f, i)
    BY <1>0, <1>1 DEF Caller
  <2>4. Caller(f, n)' = Body(f)
    <3>1. CASE s = <<>>
      BY <1>0, <1>2, <3>1 DEF Caller, Body
    <3>2. CASE s # <<>>
      <4>1. Last(s) = s[Len(s)] /\ Len(s) > 0
        BY <1>0, <3>2, FrontList
      <4>2. n # 1 /\ n - 1 = Len(s) /\ Len(s) \in 1..Len(s)
        BY <1>1, <1>2, <4>1
      <4>3. Caller(f, n)' = stack'[f][Len(s)]
        BY <4>2 DEF Caller
      <4> QED
        BY <1>0, <1>1, <3>2, <4>1, <4>2, <4>3 DEF Body
    <3> QED
      BY <3>1, <3>2
  <2> QED
    BY <1>2, <2>1, <2>2, <2>3, <2>4
<1>7. ASSUME IsFiniteSet(Calling)
      PROVE  /\ IsFiniteSet(Calling')
             /\ Body(f) \in Background => Cardinality(Calling') = Cardinality(Calling)
             /\ Body(f) \notin Background =>
                  Cardinality(Calling') = Cardinality(Calling) + 1
  <2> DEFINE A == Foreground
             B == Foreground'
  <2>1. /\ n \notin A[f]
        /\ B[f] = A[f] \cup (IF Body(f) \in Background THEN {} ELSE {n})
        /\ \A g \in Fibers \ {f} : B[g] = A[g]
    BY <1>6
  <2>2. Calling = Pairs(A) /\ Calling' = Pairs(B)
    BY PairsAre, PairsWillBe
  <2>3. CASE Body(f) \in Background
    <3>1. B = A
      BY <2>1, <2>3 DEF Foreground
    <3> QED
      BY <1>7, <2>2, <2>3, <3>1
  <2>4. CASE Body(f) \notin Background
    <3>1. B[f] = A[f] \cup {n}
      BY <2>1, <2>4
    <3> HIDE DEF A, B
    <3>2. /\ IsFiniteSet(Pairs(B))
          /\ Cardinality(Pairs(B)) = Cardinality(Pairs(A)) + 1
      BY <1>7, <2>1, <2>2, <3>1, PairsAdd
    <3> QED
      BY <2>2, <2>4, <3>2
  <2> QED
    BY <2>3, <2>4
<1>8. \A g \in Fibers \ {f} : Body(g)' = Body(g)
  BY <1>0 DEF Body
<1> QED
  BY <1>4, <1>5, <1>7, <1>8

\* The innermost task inlined on fiber f settles: its position goes, and with
\* it the call of the code below, unless that was released when the callback
\* returned a task.
LEMMA Pop ==
  ASSUME stack \in [Fibers -> Seq(Tasks)], NEW f \in Fibers, stack[f] # <<>>,
         stack' = [stack EXCEPT ![f] = Front(@)],
         returned \in [Fibers -> SUBSET Nat],
         \/ Len(stack[f]) \notin returned[f] /\ UNCHANGED returned
         \/ /\ Len(stack[f]) \in returned[f]
            /\ returned' = [returned EXCEPT ![f] = @ \ {Len(stack[f])}]
  PROVE  /\ \A t \in Tasks : IsFiniteSet(Inlined(t)) =>
              /\ IsFiniteSet(Inlined(t)')
              /\ Cardinality(Inlined(t)') <= Cardinality(Inlined(t))
         /\ \A t \in Tasks : Inlined(t) = {} => Inlined(t)' = {}
         /\ IsFiniteSet(Calling) =>
              /\ IsFiniteSet(Calling')
              /\ Len(stack[f]) \in returned[f] \/ Caller(f, Len(stack[f])) \in Background =>
                   Cardinality(Calling') = Cardinality(Calling)
              /\ Len(stack[f]) \notin returned[f] /\ Caller(f, Len(stack[f])) \notin Background =>
                   /\ Cardinality(Calling') \in Nat
                   /\ Cardinality(Calling) = Cardinality(Calling') + 1
         /\ \A g \in Fibers \ {f} : Body(g)' = Body(g)
<1> DEFINE s == stack[f]
           s1 == Front(s)
<1>n. PICK n : n = Len(stack[f])
  OBVIOUS
<1>0. /\ s \in Seq(Tasks) /\ stack'[f] = s1 /\ s1 \in Seq(Tasks)
      /\ \A g \in Fibers \ {f} : stack'[g] = stack[g]
      /\ stack' \in [Fibers -> Seq(Tasks)]
  BY FrontList
<1>1. /\ n \in Nat /\ n > 0 /\ n = Len(s)
      /\ DOMAIN s = 1..n /\ DOMAIN s1 = 1..(n - 1) /\ Len(s1) = n - 1
      /\ \A i \in 1..(n - 1) : s1[i] = s[i]
  <2>1. /\ Len(s1) = Len(s) - 1 /\ Len(s) \in Nat /\ Len(s) > 0
        /\ \A i \in 1..(Len(s) - 1) : s1[i] = s[i]
    <3>1. s \in Seq(Tasks) /\ s # <<>>
      BY <1>0
    <3> HIDE DEF s
    <3> QED
      BY <3>1, FrontList, Zenon
  <2>2. DOMAIN s = 1..Len(s) /\ DOMAIN s1 = 1..Len(s1)
    BY <1>0, InList
  <2> HIDE DEF s, s1
  <2>3. n = Len(s)
    BY <1>n DEF s
  <2> QED
    BY <2>1, <2>2, <2>3
<1> HIDE DEF s1
<1>2. DOMAIN s = DOMAIN s1 \cup {n} /\ n \notin DOMAIN s1
  BY <1>1
<1>3. ASSUME NEW u \in Tasks
      PROVE  /\ Inlined(u)' \subseteq Inlined(u)
             /\ IsFiniteSet(Inlined(u)) =>
                  /\ IsFiniteSet(Inlined(u)')
                  /\ Cardinality(Inlined(u)') <= Cardinality(Inlined(u))
  <2>1. /\ At(u)'[f] = {i \in DOMAIN s1 : s1[i] = u}
        /\ At(u)[f] = {i \in DOMAIN s : s[i] = u}
    BY <1>0 DEF At
  <2>2. \A g \in Fibers \ {f} : At(u)'[g] = At(u)[g]
    BY <1>0 DEF At
  <2>3. \A g \in Fibers : At(u)'[g] \subseteq At(u)[g]
    BY <1>1, <1>2, <2>1, <2>2
  <2> DEFINE A == At(u)
             B == At(u)'
  <2>4. Inlined(u) = Pairs(A) /\ Inlined(u)' = Pairs(B)
    BY PairsAre, PairsWillBe
  <2>5. \A g \in Fibers : B[g] \subseteq A[g]
    BY <2>3
  <2> HIDE DEF A, B
  <2>6. ASSUME NEW p \in Pairs(B) PROVE p \in Pairs(A)
    <3>1. PICK g \in Fibers : p \in {g} \X B[g]
      BY <2>6, Zenon DEF Pairs
    <3>2. p \in {g} \X A[g]
      BY <2>5, <3>1
    <3> QED
      BY <3>2, Zenon DEF Pairs
  <2> QED
    BY <2>4, <2>6, FS_Subset
<1>4. PICK K : K = {i \in {n} : n \notin returned[f] /\ Caller(f, n) \notin Background}
  OBVIOUS
<1>5. /\ \A g \in Fibers \ {f} : returned'[g] = returned[g]
      /\ \A i \in 1..(n - 1) : i \in returned'[f] <=> i \in returned[f]
  <2>1. returned' = returned \/ returned' = [returned EXCEPT ![f] = @ \ {n}]
    BY <1>n
  <2>2. returned \in [Fibers -> SUBSET Nat] /\ n \in Nat
    BY <1>1
  <2>3. \A i \in 1..(n - 1) : i # n
    BY <2>2
  <2> HIDE DEF s
  <2> QED
    BY <2>1, <2>2, <2>3
<1>6. /\ n \notin Foreground'[f]
      /\ Foreground[f] = Foreground'[f] \cup K
      /\ \A g \in Fibers \ {f} : Foreground'[g] = Foreground[g]
  <2>1. /\ Foreground'[f] = {i \in DOMAIN s1 \ returned'[f] : Caller(f, i)' \notin Background}
        /\ Foreground[f] = {i \in DOMAIN s \ returned[f] : Caller(f, i) \notin Background}
    BY <1>0 DEF Foreground
  <2>2. \A g \in Fibers \ {f} : Foreground'[g] = Foreground[g]
    BY <1>0, <1>5 DEF Foreground, Caller
  <2>3. \A i \in DOMAIN s1 : Caller(f, i)' = Caller(f, i)
    BY <1>0, <1>1 DEF Caller
  <2>4. DOMAIN s1 \ returned'[f] = DOMAIN s1 \ returned[f]
    BY <1>1, <1>5
  <2> QED
    BY <1>2, <1>4, <2>1, <2>2, <2>3, <2>4
<1>7. ASSUME IsFiniteSet(Calling)
      PROVE  /\ IsFiniteSet(Calling')
             /\ n \in returned[f] \/ Caller(f, n) \in Background =>
                  Cardinality(Calling') = Cardinality(Calling)
             /\ n \notin returned[f] /\ Caller(f, n) \notin Background =>
                  /\ Cardinality(Calling') \in Nat
                  /\ Cardinality(Calling) = Cardinality(Calling') + 1
  <2> DEFINE A == Foreground
             B == Foreground'
  <2>1. /\ n \notin B[f]
        /\ A[f] = B[f] \cup K
        /\ \A g \in Fibers \ {f} : B[g] = A[g]
    BY <1>6
  <2>2. Calling = Pairs(A) /\ Calling' = Pairs(B)
    BY PairsAre, PairsWillBe
  <2>3. CASE n \in returned[f] \/ Caller(f, n) \in Background
    <3>1. K = {}
      BY <1>4, <2>3
    <3>2. B = A
      BY <2>1, <3>1 DEF Foreground
    <3> QED
      BY <1>7, <2>2, <2>3, <3>2
  <2>4. CASE n \notin returned[f] /\ Caller(f, n) \notin Background
    <3>1. A[f] = B[f] \cup {n}
      BY <1>4, <2>1, <2>4
    <3> HIDE DEF A, B
    <3>2. /\ IsFiniteSet(Pairs(B)) /\ Cardinality(Pairs(B)) \in Nat
          /\ Cardinality(Pairs(A)) = Cardinality(Pairs(B)) + 1
      BY <1>7, <2>1, <2>2, <3>1, PairsRemove
    <3> QED
      BY <2>2, <2>4, <3>2
  <2> QED
    BY <2>3, <2>4
<1>8. \A g \in Fibers \ {f} : Body(g)' = Body(g)
  BY <1>0 DEF Body
<1>9. \A u \in Tasks : Inlined(u) = {} => Inlined(u)' = {}
  BY <1>3
<1> QED
  BY <1>n, <1>3, <1>7, <1>8, <1>9

\* The callback of the innermost task returns a task: the call of the code
\* below is released.
LEMMA Release ==
  ASSUME stack \in [Fibers -> Seq(Tasks)], NEW f \in Fibers, stack[f] # <<>>,
         UNCHANGED stack, returned \in [Fibers -> SUBSET Nat],
         Len(stack[f]) \notin returned[f],
         returned' = [returned EXCEPT ![f] = @ \cup {Len(stack[f])}],
         IsFiniteSet(Calling)
  PROVE  /\ IsFiniteSet(Calling')
         /\ Caller(f, Len(stack[f])) \in Background =>
              Cardinality(Calling') = Cardinality(Calling)
         /\ Caller(f, Len(stack[f])) \notin Background =>
              /\ Cardinality(Calling') \in Nat
              /\ Cardinality(Calling) = Cardinality(Calling') + 1
<1>1. PICK n : n = Len(stack[f])
  OBVIOUS
<1>2. n \in DOMAIN stack[f]
  <2>1. stack[f] \in Seq(Tasks) /\ stack[f] # <<>>
    OBVIOUS
  <2>2. Len(stack[f]) \in Nat /\ Len(stack[f]) > 0 /\ DOMAIN stack[f] = 1..Len(stack[f])
    BY <2>1, FrontList, InList
  <2> QED
    BY <1>1, <2>2
<1>3. PICK K : K = {i \in {n} : Caller(f, n) \notin Background}
  OBVIOUS
<1> DEFINE A == Foreground
           B == Foreground'
<1>4. /\ n \notin B[f]
      /\ A[f] = B[f] \cup K
      /\ \A g \in Fibers \ {f} : B[g] = A[g]
  <2>1. /\ B[f] = {i \in DOMAIN stack[f] \ (returned[f] \cup {n}) : Caller(f, i) \notin Background}
        /\ A[f] = {i \in DOMAIN stack[f] \ returned[f] : Caller(f, i) \notin Background}
    BY <1>1 DEF Foreground, Caller
  <2>2. \A g \in Fibers \ {f} : B[g] = A[g]
    BY DEF Foreground, Caller
  <2> HIDE DEF A, B
  <2> QED
    BY <1>1, <1>2, <1>3, <2>1, <2>2
<1>5. Calling = Pairs(A) /\ Calling' = Pairs(B)
  BY PairsAre, PairsWillBe
<1>6. CASE Caller(f, n) \in Background
  <2>1. K = {}
    BY <1>3, <1>6
  <2>2. B = A
    BY <1>4, <2>1 DEF Foreground
  <2> QED
    BY <1>1, <1>5, <1>6, <2>2
<1>7. CASE Caller(f, n) \notin Background
  <2>1. A[f] = B[f] \cup {n}
    BY <1>3, <1>4, <1>7
  <2> HIDE DEF A, B
  <2>2. /\ IsFiniteSet(Pairs(B)) /\ Cardinality(Pairs(B)) \in Nat
        /\ Cardinality(Pairs(A)) = Cardinality(Pairs(B)) + 1
    BY <1>4, <1>5, <2>1, PairsRemove
  <2> QED
    BY <1>1, <1>5, <1>7, <2>2
<1> QED
  BY <1>6, <1>7

\* A step that leaves the stacks alone.
LEMMA StackStays ==
  ASSUME UNCHANGED <<stack, returned>>
  PROVE  /\ \A t : Inlined(t)' = Inlined(t)
         /\ Calling' = Calling
         /\ \A f : Body(f)' = Body(f)
  BY DEF Inlined, Calling, Caller, Body

-----------------------------------------------------------------------------
(***************************************************************************)
(* What steps of several kinds leave alone.                                *)
(***************************************************************************)

\* Nobody begins to await, whoever is listed goes on waiting, and a task only
\* comes to its trigger loop settled.
LEMMA AwaitersStay ==
  ASSUME Types, Listed, Registered, Over, Outcomes,
         UNCHANGED operations,
         \A g \in Fibers : pc[g] = "await" \/ g \in Living => target'[g] = target[g],
         native \subseteq native', native' \subseteq native \cup Range(ready),
         Range(ready') \subseteq Range(ready),
         \A f \in Fibers :
           /\ pc'[f] = "await" => pc[f] = "await" /\ op'[f] = op[f]
           /\ pc[f] = "await" /\ op[f] = "RUNNING" => pc'[f] = "await",
         \A t \in Tasks :
           /\ pc[t] \in Leaving => pc'[t] \in Leaving /\ status'[t] = status[t]
           /\ pc'[t] \in Leaving /\ pc[t] \notin Leaving => Done(t)'
           /\ pc'[t] = "done" => pc[t] = "done" \/ operations[t] = <<>>
  PROVE  Listed' /\ Registered' /\ Over' /\ Outcomes'
<1>0. /\ Tasks \subseteq Fibers
      /\ \A t \in Tasks : \A i \in 1..Len(operations[t]) : operations[t][i] \in Fibers
  BY InList DEF Types, Fibers
<1>1. Listed'
  <2>1. SUFFICES ASSUME NEW t \in Tasks, NEW i \in 1..Len(operations[t])
                 PROVE  /\ operations[t][i] \notin Range(ready')
                        /\ operations[t][i] \in Living' =>
                             /\ op'[operations[t][i]] = "RUNNING"
                             /\ pc'[operations[t][i]] = "await"
                             /\ target'[operations[t][i]] = t
    BY DEF Listed
  <2> DEFINE b == operations[t][i]
  <2>2. /\ b \in Fibers /\ b \notin Range(ready)
        /\ b \in Living => op[b] = "RUNNING" /\ pc[b] = "await" /\ target[b] = t
    BY <1>0 DEF Listed
  <2> HIDE DEF b
  <2>3. b \notin Range(ready') /\ (b \in Living' => b \in Living)
    BY <2>2 DEF Living
  <2>4. b \in Living => op'[b] = "RUNNING" /\ pc'[b] = "await" /\ target'[b] = target[b]
    BY <2>2
  <2> QED
    BY <2>2, <2>3, <2>4 DEF b
<1>2. Registered'
  BY DEF Registered
<1>3. Over'
  BY DEF Over, Done
<1>4. Outcomes'
  <2>1. SUFFICES ASSUME NEW f \in Fibers, pc'[f] = "await", Settled(f)'
                 PROVE  /\ target'[f] \in Tasks /\ pc'[target'[f]] \in Leaving
                        /\ op'[f] = OutcomeOf(target[f])'
    BY DEF Outcomes
  <2>2. pc[f] = "await" /\ op'[f] = op[f] /\ Settled(f) /\ target'[f] = target[f]
    BY <2>1 DEF Settled
  <2>3. /\ target[f] \in Tasks /\ pc[target[f]] \in Leaving
        /\ op[f] = OutcomeOf(target[f])
    BY <2>2 DEF Outcomes
  <2> QED
    BY <2>2, <2>3 DEF OutcomeOf
<1> QED
  BY <1>1, <1>2, <1>3, <1>4

\* No task is executed or left, although one may be awaited.
LEMMA ExecutedStays ==
  ASSUME Types, Executed, UNCHANGED <<stack, native, runs, ready>>,
         awaits' \in [Tasks -> Nat], \A t \in Tasks : awaits[t] <= awaits'[t]
  PROVE  Executed'
<1>1. \A t : Inlined(t)' = Inlined(t)
  BY DEF Inlined
<1>2. ASSUME NEW t \in Tasks
      PROVE  /\ t \in Range(ready) => t \notin native /\ runs[t] = 0 /\ Inlined(t) = {}
             /\ t \in native => runs[t] = 1 /\ Inlined(t) = {}
             /\ t \notin native => runs[t] <= awaits'[t]
             /\ IsFiniteSet(Inlined(t)) /\ Cardinality(Inlined(t)) <= awaits'[t]
  <2>1. /\ t \in Range(ready) => t \notin native /\ runs[t] = 0 /\ Inlined(t) = {}
        /\ t \in native => runs[t] = 1 /\ Inlined(t) = {}
        /\ t \notin native => runs[t] <= awaits[t]
        /\ IsFiniteSet(Inlined(t)) /\ Cardinality(Inlined(t)) <= awaits[t]
    BY DEF Executed
  <2>2. Cardinality(Inlined(t)) \in Nat
    BY <2>1, FS_CardinalityType
  <2>3. awaits[t] \in Nat /\ awaits'[t] \in Nat /\ runs[t] \in Nat /\ awaits[t] <= awaits'[t]
    BY DEF Types
  <2> QED
    BY <2>1, <2>2, <2>3
<1> QED
  BY <1>1, <1>2 DEF Executed

\* The stacks stay, and a fiber at most goes from the return of a task to the
\* await for it, or from that to its end.
LEMMA PassingStays ==
  ASSUME Types, Passing, UNCHANGED <<stack, returned>>,
         \A f \in Fibers :
           \/ pc'[f] = pc[f]
           \/ pc[f] \notin Chains /\ pc'[f] \notin Chains
           \/ pc[f] = "chain" /\ pc'[f] \in {"nested", "return", "throw"},
         \A t \in Tasks : target'[t] \in Tasks \/ target'[t] = target[t]
  PROVE  Passing'
<1>1. SUFFICES ASSUME NEW f \in Fibers
               PROVE  /\ returned[f] \subseteq 1..Len(stack[f])
                      /\ Len(stack[f]) \in returned[f] => pc'[f] \in Chains
                      /\ pc'[f] \in {"chain", "return", "throw"} =>
                           Len(stack[f]) \in returned[f]
                      /\ pc'[f] = "chain" => target'[Last(stack[f])] \in Tasks
  BY DEF Passing, Chains
<1>2. /\ returned[f] \subseteq 1..Len(stack[f])
      /\ Len(stack[f]) \in returned[f] => pc[f] \in Chains
      /\ pc[f] \in {"chain", "return", "throw"} => Len(stack[f]) \in returned[f]
      /\ pc[f] = "chain" => target[Last(stack[f])] \in Tasks
  BY DEF Passing
<1>3. ASSUME pc'[f] = "chain" PROVE target'[Last(stack[f])] \in Tasks
  <2>1. pc[f] = "chain"
    BY <1>3 DEF Chains
  <2>2. stack[f] \in Seq(Tasks) /\ stack[f] # <<>>
    BY <1>2, <2>1, EmptySeq DEF Types
  <2>3. Last(stack[f]) \in Tasks
    BY <2>2, FrontList
  <2> QED
    BY <1>2, <2>1, <2>3
<1> QED
  BY <1>2, <1>3 DEF Chains

\* The fibers that wait are finitely many.
LEMMA SuspendedFinite ==
  /\ IsFiniteSet(Suspended) /\ Cardinality(Suspended) \in Nat
  /\ IsFiniteSet(Suspended') /\ Cardinality(Suspended') \in Nat
<1>1. IsFiniteSet(Fibers)
  BY SchedulerAssumption, FS_AddElement DEF Fibers
<1>2. Suspended \in SUBSET Fibers /\ Suspended' \in SUBSET Fibers
  BY DEF Suspended
<1>3. IsFiniteSet(Suspended) /\ IsFiniteSet(Suspended')
  BY <1>1, <1>2, FS_Subset
<1> QED
  BY <1>3, FS_CardinalityType

\* The same code waits.
LEMMA BalancedStays ==
  ASSUME Balanced, UNCHANGED <<busy, stack, returned>>,
         \A f \in Fibers : pc'[f] \in {"await", "nested"} <=> pc[f] \in {"await", "nested"}
  PROVE  Balanced'
<1>1. Calling' = Calling /\ \A f : Body(f)' = Body(f)
  BY StackStays
<1>2. Suspended' = Suspended
  BY <1>1 DEF Suspended
<1> QED
  BY <1>1, <1>2 DEF Balanced, BusyBalanced

\* A fiber begins to wait.
LEMMA BalancedUp ==
  ASSUME Types, Balanced, UNCHANGED <<stack, returned>>, NEW f \in Fibers,
         NEW w \in {"await", "nested"}, pc[f] \in {"run", "chain"}, pc' = [pc EXCEPT ![f] = w], Enter(Body(f))
  PROVE  Balanced'
<1>1. Calling' = Calling /\ \A g : Body(g)' = Body(g)
  BY StackStays
<1>2. \A g \in Fibers : pc'[g] = IF g = f THEN w ELSE pc[g]
  BY DEF Types
<1>3. IsFiniteSet(Calling) /\ Cardinality(Calling) \in Nat
  BY FS_CardinalityType DEF Balanced
<1>4. CASE Body(f) \in Background
  <2>1. Suspended' = Suspended
    BY <1>1, <1>2, <1>4 DEF Suspended
  <2> QED
    BY <1>1, <1>4, <2>1 DEF Balanced, BusyBalanced, Enter
<1>5. CASE Body(f) \notin Background
  <2>1. Suspended' = Suspended \cup {f} /\ f \notin Suspended
    BY <1>1, <1>2, <1>5 DEF Suspended
  <2>2. Cardinality(Suspended') = Cardinality(Suspended) + 1
    BY <2>1, SuspendedFinite, FS_AddElement
  <2> QED
    BY <1>1, <1>3, <1>5, <2>2, SuspendedFinite DEF Balanced, BusyBalanced, Enter
<1> QED
  BY <1>4, <1>5

\* A fiber returns from an await.
LEMMA BalancedDown ==
  ASSUME Types, Balanced, UNCHANGED <<stack, returned>>, NEW f \in Fibers,
         pc[f] = "await", pc' = [pc EXCEPT ![f] = "run"], Exit(Body(f))
  PROVE  Balanced'
<1>1. Calling' = Calling /\ \A g : Body(g)' = Body(g)
  BY StackStays
<1>2. \A g \in Fibers : pc'[g] = IF g = f THEN "run" ELSE pc[g]
  BY DEF Types
<1>3. IsFiniteSet(Calling) /\ Cardinality(Calling) \in Nat
  BY FS_CardinalityType DEF Balanced
<1>4. CASE Body(f) \in Background
  <2>1. Suspended' = Suspended
    BY <1>1, <1>2, <1>4 DEF Suspended
  <2> QED
    BY <1>1, <1>4, <2>1 DEF Balanced, BusyBalanced, Exit
<1>5. CASE Body(f) \notin Background
  <2>1. Suspended' = Suspended \ {f} /\ f \in Suspended
    BY <1>1, <1>2, <1>5 DEF Suspended
  <2>2. Cardinality(Suspended') = Cardinality(Suspended) - 1
    BY <2>1, SuspendedFinite, FS_RemoveElement
  <2> QED
    BY <1>1, <1>3, <1>5, <2>2, SuspendedFinite DEF Balanced, BusyBalanced, Exit
<1> QED
  BY <1>4, <1>5

\* The fiber that runs exists; a suspension keeps that.
LEMMA SuspendLives ==
  ASSUME Types, Fibered, async_fiber_suspend, native \subseteq native'
  PROVE  /\ cur' \in Fibers \cup {Runner}
         /\ fibers' \in Seq(Fibers \cup {Runner})
         /\ Active' \subseteq Living' \cup {Runner}
<1>1. /\ cur' \in Fibers \cup {Runner}
      /\ fibers' \in Seq(Fibers \cup {Runner})
  BY SuspendType DEF Types
<1>2. Active' \subseteq Active \cup {Runner}
  <2>1. CASE fibers = <<>>
    BY <2>1 DEF async_fiber_suspend, Active
  <2>2. CASE fibers # <<>>
    <3>1. Range(fibers) = Range(Tail(fibers)) \cup {Head(fibers)}
      BY <2>2, TailList DEF Types, FiberLists
    <3> QED
      BY <2>2, <3>1 DEF async_fiber_suspend, Active
  <2> QED
    BY <2>1, <2>2
<1> QED
  BY <1>1, <1>2 DEF Fibered, Living

\* A switch to a fiber that exists keeps that, too.
LEMMA SwitchLives ==
  ASSUME Types, Fibered, NEW f \in Living', f \in Fibers, async_fiber_switch(f),
         native \subseteq native'
  PROVE  /\ cur' \in Fibers \cup {Runner}
         /\ fibers' \in Seq(Fibers \cup {Runner})
         /\ Active' \subseteq Living' \cup {Runner}
<1>1. /\ cur' \in Fibers \cup {Runner}
      /\ fibers' \in Seq(Fibers \cup {Runner})
  BY SwitchType DEF Types
<1>2. Active' = Active \cup {f}
  <2>1. cur' = f /\ fibers' = <<cur>> \o fibers
    BY DEF async_fiber_switch
  <2>2. Range(<<cur>> \o fibers) = Range(fibers) \cup {cur}
    <3>1. cur \in Fibers \cup {Runner} /\ fibers \in Seq(Fibers \cup {Runner})
      BY DEF Types, FiberLists
    <3> DEFINE S == Fibers \cup {Runner}
    <3>2. cur \in S /\ fibers \in Seq(S)
      BY <3>1
    <3> HIDE DEF S
    <3> QED
      BY <3>2, PrependList
  <2>3. Range(fibers') = Range(fibers) \cup {cur}
    BY <2>1, <2>2, Zenon
  <2> QED
    BY <2>1, <2>3 DEF Active
<1> QED
  BY <1>1, <1>2 DEF Fibered, Living

-----------------------------------------------------------------------------
(***************************************************************************)
(* The steps, one by one.                                                  *)
(***************************************************************************)

\* The places where a fiber can be.
Places == {"run", "sleep", "await", "chain", "nested", "return", "throw",
           "trigger", "null", "drain", "dispose", "done"}

\* What the invariant says that every such step starts from.
LEMMA Before ==
  ASSUME IInv
  PROVE  /\ cur \in Fibers \cup {Runner} /\ fibers \in Seq(Fibers \cup {Runner})
         /\ status \in [Fibers -> TaskStatus] /\ op \in [Fibers -> OpStatus]
         /\ pc \in [Fibers \cup {Runner} -> Places] /\ awaits \in [Tasks -> Nat]
         /\ cur \in Living \cup {Runner} /\ Active \subseteq Living \cup {Runner}
         /\ \A t \in Tasks : awaits[t] <= awaits[t]
         /\ Runner \notin Fibers /\ Root \in Fibers /\ Root \in Living
         /\ Tasks \subseteq Fibers
  BY SchedulerAssumption DEF IInv, Types, FiberLists, Fibered, Active, Places, Fibers, Living

\* What an await of task t by fiber f starts from.
LEMMA Awaits ==
  ASSUME IInv, NEW f \in Fibers, NEW t \in Tasks, MayAwait(f, t)
  PROVE  cur = f /\ pc[f] = "run" /\ f \in Living
<1>1. cur = f /\ pc[f] = "run"
  BY DEF MayAwait, MayCall
<1>2. f \in Living
  BY <1>1, SchedulerAssumption DEF IInv, Fibered, Active
<1> QED
  BY <1>1, <1>2

\* The await is counted.
LEMMA Counted ==
  ASSUME IInv, NEW t \in Tasks, Awaited(t)
  PROVE  /\ awaits' \in [Tasks -> Nat] /\ awaits'[t] = awaits[t] + 1
         /\ \A u \in Tasks : awaits[u] <= awaits'[u]
<1>1. awaits' = [awaits EXCEPT ![t] = @ + 1] /\ awaits \in [Tasks -> Nat]
  BY DEF Awaited, IInv, Types
<1> QED
  BY <1>1

\* A task is executed inline: it leaves the ready list, gets no fiber, and the
\* code that awaits it counts as busy.
LEMMA InlineStep ==
  ASSUME IInv, NEW f \in Fibers, NEW t \in Tasks, async_task_execute_inline(f, t),
         cur = f, pc[f] \in {"run", "chain"}, pc' = [pc EXCEPT ![f] = "run"]
  PROVE  IInv'
<1>1. /\ Awaited(t) /\ t \notin native
      /\ ready' = ASYNC_LIST_REMOVE(ready, t)
      /\ status' = [status EXCEPT ![t] = "RUNNING"]
      /\ stack' = [stack EXCEPT ![f] = Append(@, t)]
      /\ runs' = [runs EXCEPT ![t] = @ + 1]
      /\ Enter(Body(f))
      /\ UNCHANGED <<cur, fibers, op, defer, operations, target, returned, native, gone>>
  BY DEF async_task_execute_inline
<1>2. /\ f \in Living /\ \A g \in Fibers : pc'[g] = IF g = f THEN "run" ELSE pc[g]
      /\ pc' \in [Fibers \cup {Runner} -> Places]
      /\ awaits' \in [Tasks -> Nat] /\ awaits'[t] = awaits[t] + 1
      /\ \A u \in Tasks : awaits[u] <= awaits'[u]
  BY <1>1, Before, Counted DEF Places
<1>3. t \in Fibers /\ t # Root /\ t \notin Living /\ pc[t] = "run"
  BY <1>1, SchedulerAssumption DEF Fibers, Living, IInv, Fibered
<1>4. /\ ready' \in Seq(Tasks) /\ IsInjective(ready')
      /\ Range(ready') = Range(ready) \ {t}
  BY <1>1, RemoveList DEF IInv, Types
<1>5. /\ ready' \in Seq(Fibers)
      /\ status' \in [Fibers -> TaskStatus]
      /\ stack' \in [Fibers -> Seq(Tasks)]
      /\ runs' \in [Tasks -> Nat] /\ runs'[t] = runs[t] + 1
      /\ \A u \in Tasks : u # t => runs'[u] = runs[u]
  <2>1. ready' \in Seq(Fibers)
    BY <1>4 DEF Fibers
  <2>2. status' \in [Fibers -> TaskStatus]
    BY <1>1, <1>3 DEF IInv, Types, FiberLists, TaskStatus
  <2>3. stack' \in [Fibers -> Seq(Tasks)]
    BY <1>1, AppendList DEF IInv, Types
  <2>4. /\ runs' \in [Tasks -> Nat] /\ runs'[t] = runs[t] + 1
        /\ \A u \in Tasks : u # t => runs'[u] = runs[u]
    BY <1>1 DEF IInv, Types
  <2> QED
    BY <2>1, <2>2, <2>3, <2>4
<1>6. Types'
  BY <1>1, <1>2, <1>4, <1>5 DEF IInv, Types, FiberLists, Places
<1>7. Fibered'
  <2>1. Active' = Active /\ Living' = Living
    BY <1>1 DEF Active, Living
  <2>2. \A g \in Fibers \ Living : stack'[g] = stack[g]
    BY <1>1, <1>2 DEF IInv, Types
  <2> QED
    BY <1>1, <1>2, <2>1, <2>2 DEF IInv, Fibered
<1>8. /\ IsFiniteSet(Inlined(t)) =>
           /\ IsFiniteSet(Inlined(t)')
           /\ Cardinality(Inlined(t)') = Cardinality(Inlined(t)) + 1
      /\ \A u \in Tasks : u # t => Inlined(u)' = Inlined(u)
      /\ IsFiniteSet(Calling) =>
           /\ IsFiniteSet(Calling')
           /\ Body(f) \in Background => Cardinality(Calling') = Cardinality(Calling)
           /\ Body(f) \notin Background => Cardinality(Calling') = Cardinality(Calling) + 1
      /\ \A g \in Fibers \ {f} : Body(g)' = Body(g)
  BY <1>1, Push DEF IInv, Types, Passing
<1>9. Executed'
  <2>1. SUFFICES ASSUME NEW u \in Tasks
                 PROVE  /\ u \in Range(ready') => u \notin native /\ runs'[u] = 0 /\ Inlined(u)' = {}
                        /\ u \in native => runs'[u] = 1 /\ Inlined(u)' = {}
                        /\ u \notin native => runs'[u] <= awaits'[u]
                        /\ IsFiniteSet(Inlined(u)') /\ Cardinality(Inlined(u)') <= awaits'[u]
    BY <1>1 DEF Executed
  <2>2. /\ u \in Range(ready) => u \notin native /\ runs[u] = 0 /\ Inlined(u) = {}
        /\ u \in native => runs[u] = 1 /\ Inlined(u) = {}
        /\ u \notin native => runs[u] <= awaits[u]
        /\ IsFiniteSet(Inlined(u)) /\ Cardinality(Inlined(u)) <= awaits[u]
    BY DEF IInv, Executed
  <2>3. /\ Cardinality(Inlined(u)) \in Nat /\ runs[u] \in Nat
        /\ awaits[u] \in Nat /\ awaits'[u] \in Nat /\ awaits[u] <= awaits'[u]
    BY <1>2, <2>2, FS_CardinalityType DEF IInv, Types
  <2>4. CASE u = t
    BY <1>1, <1>2, <1>4, <1>5, <1>8, <2>2, <2>3, <2>4
  <2>5. CASE u # t
    <3>1. /\ Inlined(u)' = Inlined(u) /\ runs'[u] = runs[u]
          /\ u \in Range(ready') => u \in Range(ready)
      BY <1>4, <1>5, <1>8, <2>5
    <3> QED
      BY <2>2, <2>3, <3>1
  <2> QED
    BY <2>4, <2>5
<1>10. Listed' /\ Registered' /\ Over' /\ Outcomes'
  <2>1. \A g \in Fibers : /\ pc'[g] = "await" => pc[g] = "await" /\ op'[g] = op[g]
                          /\ pc[g] = "await" /\ op[g] = "RUNNING" => pc'[g] = "await"
    BY <1>1, <1>2
  <2>2. \A u \in Tasks :
          /\ pc[u] \in Leaving => pc'[u] \in Leaving /\ status'[u] = status[u]
          /\ pc'[u] \in Leaving /\ pc[u] \notin Leaving => Done(u)'
          /\ pc'[u] = "done" => pc[u] = "done"
    BY <1>1, <1>2, <1>3 DEF Leaving, IInv, Types, FiberLists
  <2>3. /\ native \subseteq native' /\ native' \subseteq native \cup Range(ready)
        /\ Range(ready') \subseteq Range(ready) /\ UNCHANGED <<operations, target>>
    BY <1>1, <1>4
  <2> QED
    BY <2>1, <2>2, <2>3, AwaitersStay DEF IInv
<1>11. Balanced'
  <2>1. Suspended' = Suspended
    BY <1>1, <1>2, <1>8 DEF Suspended
  <2>2. /\ IsFiniteSet(Calling) /\ Cardinality(Calling) \in Nat
        /\ Cardinality(Suspended) \in Nat /\ busy = Cardinality(Suspended) + Cardinality(Calling)
    BY SuspendedFinite, FS_CardinalityType DEF IInv, Balanced, BusyBalanced
  <2>3. busy' = IF Body(f) \in Background THEN busy ELSE busy + 1
    BY <1>1 DEF Enter
  <2>4. busy' = Cardinality(Suspended) + Cardinality(Calling')
    BY <1>8, <2>2, <2>3
  <2> QED
    BY <1>8, <2>1, <2>2, <2>4 DEF Balanced, BusyBalanced
<1>12. Passing'
  <2>1. SUFFICES ASSUME NEW g \in Fibers
                 PROVE  /\ returned[g] \subseteq 1..Len(stack'[g])
                        /\ Len(stack'[g]) \in returned[g] => pc'[g] \in Chains
                        /\ pc'[g] \in {"chain", "return", "throw"} =>
                             Len(stack'[g]) \in returned[g]
                        /\ pc'[g] = "chain" => target[Last(stack'[g])] \in Tasks
    BY <1>1 DEF Passing, Chains
  <2>2. /\ returned[g] \subseteq 1..Len(stack[g])
        /\ Len(stack[g]) \in returned[g] => pc[g] \in Chains
        /\ pc[g] \in {"chain", "return", "throw"} => Len(stack[g]) \in returned[g]
        /\ pc[g] = "chain" => target[Last(stack[g])] \in Tasks
    BY DEF IInv, Passing
  <2>3. CASE g = f
    <3>1. stack[f] \in Seq(Tasks) /\ stack'[f] = Append(stack[f], t)
      BY <1>1 DEF IInv, Types
    <3>2. Len(stack[f]) \in Nat /\ Len(stack'[f]) = Len(stack[f]) + 1
      BY <3>1, AppendList
    <3>3. Len(stack'[f]) \notin returned[f] /\ returned[f] \subseteq 1..Len(stack'[f])
      BY <2>2, <2>3, <3>2
    <3> QED
      BY <1>2, <2>3, <3>3
  <2>4. CASE g # f
    <3>1. stack'[g] = stack[g] /\ pc'[g] = pc[g]
      BY <1>1, <1>2, <2>4 DEF IInv, Types
    <3> QED
      BY <2>2, <3>1
  <2> QED
    BY <2>3, <2>4
<1> QED
  BY <1>6, <1>7, <1>9, <1>10, <1>11, <1>12 DEF IInv

\* A task that is awaited is executed inline.
LEMMA AwaitInlinesStep ==
  ASSUME IInv, NEW f \in Fibers, NEW t \in Tasks, AwaitInlines(f, t)
  PROVE  IInv'
<1>1. /\ async_task_execute_inline(f, t) /\ UNCHANGED pc
      /\ cur = f /\ pc[f] = "run"
  BY Awaits DEF AwaitInlines
<1>2. pc' = [pc EXCEPT ![f] = "run"]
  BY <1>1, Before
<1> HIDE DEF IInv
<1> QED
  BY <1>1, <1>2, InlineStep

\* So is one that an inlined task has returned.
LEMMA ChainInlinesStep ==
  ASSUME IInv, NEW f \in Fibers, ChainInlines(f)
  PROVE  IInv'
<1>1. /\ cur = f /\ pc[f] = "chain"
      /\ async_task_execute_inline(f, target[Last(stack[f])])
      /\ pc' = [pc EXCEPT ![f] = "run"]
  BY DEF ChainInlines
<1>2. target[Last(stack[f])] \in Tasks
  BY <1>1 DEF IInv, Passing
<1> HIDE DEF IInv
<1> QED
  BY <1>1, <1>2, InlineStep

\* An inlined task settles and the code below it goes on.
LEMMA InlineSettlesStep ==
  ASSUME IInv, NEW f \in Fibers, NEW o \in {"FINISHED", "FAILED"}, InlineSettles(f, o),
         cur = f, stack[f] # <<>>,
         \/ /\ pc[f] = "run" /\ Exit(Caller(f, Len(stack[f]))) /\ UNCHANGED returned
         \/ /\ pc[f] \in {"return", "throw"} /\ UNCHANGED busy
            /\ returned' = [returned EXCEPT ![f] = @ \ {Len(stack[f])}]
  PROVE  IInv'
<1> DEFINE t == Last(stack[f])
<1>0. PICK p \in {"run", "return", "throw"} :
        /\ pc' = [pc EXCEPT ![f] = p]
        /\ p # "run" <=> Len(stack[f]) - 1 \in returned[f]
  BY DEF InlineSettles
<1>1. /\ cur = f /\ pc[f] \in {"run", "return", "throw"} /\ stack[f] # <<>>
      /\ status' = [status EXCEPT ![t] = o]
      /\ gone' = gone \cup {t}
      /\ stack' = [stack EXCEPT ![f] = Front(@)]
      /\ UNCHANGED <<cur, fibers, ready, op, defer, operations, target, native,
                     runs, awaits>>
  BY DEF InlineSettles
<1>p. /\ \A g \in Fibers : pc'[g] = IF g = f THEN p ELSE pc[g]
      /\ pc' \in [Fibers \cup {Runner} -> Places]
  BY <1>0, Before DEF Places
<1>r. \/ /\ Len(stack[f]) \notin returned[f] /\ UNCHANGED returned
         /\ Exit(Caller(f, Len(stack[f])))
      \/ /\ Len(stack[f]) \in returned[f] /\ UNCHANGED busy
         /\ returned' = [returned EXCEPT ![f] = @ \ {Len(stack[f])}]
  BY DEF IInv, Passing, Chains
<1>2. /\ stack[f] \in Seq(Tasks) /\ Front(stack[f]) \in Seq(Tasks) /\ t \in Tasks
      /\ \E i \in 1..Len(stack[f]) : stack[f][i] = t
  <2>1. /\ stack[f] \in Seq(Tasks) /\ Front(stack[f]) \in Seq(Tasks)
        /\ t \in Tasks /\ t \in Range(stack[f])
    BY <1>1, FrontList DEF IInv, Types
  <2> HIDE DEF t
  <2> QED
    BY <2>1, InList
<1>3. f \in Living
  BY <1>1, Before
<1>4. t \notin native /\ pc[t] = "run"
  <2> HIDE DEF t
  <2>1. PICK i \in 1..Len(stack[f]) : stack[f][i] = t
    BY <1>2
  <2>2. i \in At(t)[f]
    BY <1>2, <2>1, InList DEF At
  <2>3. <<f, i>> \in {f} \X At(t)[f]
    BY <2>2
  <2>4. <<f, i>> \in Pairs(At(t))
    BY <2>3, Zenon DEF Pairs
  <2>5. Inlined(t) # {}
    BY <2>4, PairsAre
  <2>6. t \notin native
    BY <1>2, <2>5 DEF IInv, Executed
  <2> QED
    BY <1>2, <2>6, SchedulerAssumption DEF Fibers, Living, IInv, Fibered
<1> HIDE DEF t
<1>5. /\ status' \in [Fibers -> TaskStatus]
      /\ stack' \in [Fibers -> Seq(Tasks)]
      /\ returned' \in [Fibers -> SUBSET Nat]
      /\ gone' \subseteq Tasks
  <2>1. status' \in [Fibers -> TaskStatus]
    BY <1>1, <1>2 DEF IInv, Types, FiberLists, TaskStatus, Fibers
  <2>2. stack' \in [Fibers -> Seq(Tasks)]
    BY <1>1, <1>2 DEF IInv, Types
  <2>3. returned' \in [Fibers -> SUBSET Nat]
    BY <1>r DEF IInv, Types
  <2> QED
    BY <1>1, <1>2, <2>1, <2>2, <2>3 DEF IInv, Types
<1>6. Types'
  BY <1>1, <1>p, <1>5 DEF IInv, Types, FiberLists, Places
<1>7. Fibered'
  <2>1. Active' = Active /\ Living' = Living
    BY <1>1 DEF Active, Living
  <2>2. \A g \in Fibers \ Living : stack'[g] = stack[g]
    BY <1>1, <1>3 DEF IInv, Types
  <2> QED
    BY <1>1, <1>3, <1>p, <2>1, <2>2 DEF IInv, Fibered
<1>8. /\ \A u \in Tasks : IsFiniteSet(Inlined(u)) =>
           /\ IsFiniteSet(Inlined(u)')
           /\ Cardinality(Inlined(u)') <= Cardinality(Inlined(u))
      /\ \A u \in Tasks : Inlined(u) = {} => Inlined(u)' = {}
      /\ IsFiniteSet(Calling) =>
           /\ IsFiniteSet(Calling')
           /\ Len(stack[f]) \in returned[f] \/ Caller(f, Len(stack[f])) \in Background =>
                Cardinality(Calling') = Cardinality(Calling)
           /\ Len(stack[f]) \notin returned[f] /\ Caller(f, Len(stack[f])) \notin Background =>
                /\ Cardinality(Calling') \in Nat
                /\ Cardinality(Calling) = Cardinality(Calling') + 1
      /\ \A g \in Fibers \ {f} : Body(g)' = Body(g)
  BY <1>1, <1>r, Pop DEF IInv, Types
<1>9. Executed'
  <2>1. SUFFICES ASSUME NEW u \in Tasks
                 PROVE  /\ u \in Range(ready) => u \notin native /\ runs[u] = 0 /\ Inlined(u)' = {}
                        /\ u \in native => runs[u] = 1 /\ Inlined(u)' = {}
                        /\ u \notin native => runs[u] <= awaits[u]
                        /\ IsFiniteSet(Inlined(u)') /\ Cardinality(Inlined(u)') <= awaits[u]
    BY <1>1 DEF Executed
  <2>2. /\ u \in Range(ready) => u \notin native /\ runs[u] = 0 /\ Inlined(u) = {}
        /\ u \in native => runs[u] = 1 /\ Inlined(u) = {}
        /\ u \notin native => runs[u] <= awaits[u]
        /\ IsFiniteSet(Inlined(u)) /\ Cardinality(Inlined(u)) <= awaits[u]
    BY DEF IInv, Executed
  <2>3. Cardinality(Inlined(u)) \in Nat /\ awaits[u] \in Nat
    BY <2>2, FS_CardinalityType DEF IInv, Types
  <2>4. /\ IsFiniteSet(Inlined(u)') /\ Cardinality(Inlined(u)') <= Cardinality(Inlined(u))
        /\ Inlined(u) = {} => Inlined(u)' = {}
    BY <1>8, <2>2
  <2>5. Cardinality(Inlined(u)') \in Nat
    BY <2>4, FS_CardinalityType
  <2>6. Cardinality(Inlined(u)') <= awaits[u]
    BY <2>2, <2>3, <2>4, <2>5
  <2> QED
    BY <2>2, <2>4, <2>6
<1>10. Listed' /\ Registered' /\ Over' /\ Outcomes'
  <2>1. \A g \in Fibers : /\ pc'[g] = "await" => pc[g] = "await" /\ op'[g] = op[g]
                          /\ pc[g] = "await" /\ op[g] = "RUNNING" => pc'[g] = "await"
    BY <1>1, <1>p
  <2>2. \A u \in Tasks :
          /\ pc[u] \in Leaving => pc'[u] \in Leaving /\ status'[u] = status[u]
          /\ pc'[u] \in Leaving /\ pc[u] \notin Leaving => Done(u)'
          /\ pc'[u] = "done" => pc[u] = "done"
    <3>1. SUFFICES ASSUME NEW u \in Tasks
                   PROVE  /\ pc[u] \in Leaving => pc'[u] \in Leaving /\ status'[u] = status[u]
                          /\ pc'[u] \in Leaving /\ pc[u] \notin Leaving => Done(u)'
                          /\ pc'[u] = "done" => pc[u] = "done"
      OBVIOUS
    <3>2. u \in Fibers /\ status \in [Fibers -> TaskStatus]
      BY Before
    <3>3. u # f => pc'[u] = pc[u]
      BY <1>p, <3>2
    <3>4. u = f => pc[u] \notin Leaving /\ pc'[u] \notin Leaving
      BY <1>1, <1>p, <3>2 DEF Leaving
    <3>5. u # t => status'[u] = status[u]
      BY <1>1, <3>2
    <3> QED
      BY <1>4, <3>3, <3>4, <3>5 DEF Leaving
  <2>3. /\ native \subseteq native' /\ native' \subseteq native \cup Range(ready)
        /\ Range(ready') \subseteq Range(ready) /\ UNCHANGED <<operations, target>>
    BY <1>1
  <2> QED
    BY <2>1, <2>2, <2>3, AwaitersStay DEF IInv
<1>11. Balanced'
  <2>1. Suspended' = Suspended
    BY <1>1, <1>8, <1>p DEF Suspended
  <2>2. /\ IsFiniteSet(Calling) /\ Cardinality(Calling) \in Nat
        /\ Cardinality(Suspended) \in Nat /\ busy = Cardinality(Suspended) + Cardinality(Calling)
    BY SuspendedFinite, FS_CardinalityType DEF IInv, Balanced, BusyBalanced
  <2>3. CASE Len(stack[f]) \in returned[f] \/ Caller(f, Len(stack[f])) \in Background
    <3>1. busy' = busy
      BY <1>r, <2>3 DEF Exit
    <3> QED
      BY <1>8, <2>1, <2>2, <2>3, <3>1 DEF Balanced, BusyBalanced
  <2>4. CASE Len(stack[f]) \notin returned[f] /\ Caller(f, Len(stack[f])) \notin Background
    <3>1. busy' = busy - 1
      BY <1>r, <2>4 DEF Exit
    <3> QED
      BY <1>8, <2>1, <2>2, <2>4, <3>1 DEF Balanced, BusyBalanced
  <2> QED
    BY <2>3, <2>4
<1>12. Passing'
  <2>1. SUFFICES ASSUME NEW g \in Fibers
                 PROVE  /\ returned'[g] \subseteq 1..Len(stack'[g])
                        /\ Len(stack'[g]) \in returned'[g] => pc'[g] \in Chains
                        /\ pc'[g] \in {"chain", "return", "throw"} =>
                             Len(stack'[g]) \in returned'[g]
                        /\ pc'[g] = "chain" => target[Last(stack'[g])] \in Tasks
    BY <1>1 DEF Passing, Chains
  <2>2. /\ returned[g] \subseteq 1..Len(stack[g])
        /\ Len(stack[g]) \in returned[g] => pc[g] \in Chains
        /\ pc[g] \in {"chain", "return", "throw"} => Len(stack[g]) \in returned[g]
        /\ pc[g] = "chain" => target[Last(stack[g])] \in Tasks
    BY DEF IInv, Passing
  <2>3. returned \in [Fibers -> SUBSET Nat]
    BY DEF IInv, Types
  <2>4. CASE g = f
    <3>1. stack'[f] = Front(stack[f])
      BY <1>1 DEF IInv, Types
    <3>2. /\ Len(stack[f]) \in Nat /\ Len(stack[f]) > 0
          /\ Len(stack'[f]) = Len(stack[f]) - 1
      BY <1>1, <1>2, <3>1, FrontList
    <3>3. /\ returned'[f] = returned[f] \ {Len(stack[f])}
      BY <1>r, <2>3
    <3>4. returned'[f] \subseteq 1..Len(stack'[f])
      BY <2>2, <2>4, <3>2, <3>3
    <3>5. Len(stack'[f]) \in returned'[f] <=> p # "run"
      BY <1>0, <3>2, <3>3
    <3> QED
      BY <1>p, <2>4, <3>4, <3>5 DEF Chains
  <2>5. CASE g # f
    <3>1. stack'[g] = stack[g] /\ pc'[g] = pc[g] /\ returned'[g] = returned[g]
      BY <1>1, <1>p, <1>r, <2>3, <2>5 DEF IInv, Types
    <3> QED
      BY <2>2, <3>1
  <2> QED
    BY <2>4, <2>5
<1> QED
  BY <1>6, <1>7, <1>9, <1>10, <1>11, <1>12 DEF IInv

\* The callback of an inlined task returns, or throws.
LEMMA InlineReturnsStep ==
  ASSUME IInv, NEW f \in Fibers, NEW o \in {"FINISHED", "FAILED"}, InlineReturns(f, o)
  PROVE  IInv'
  BY InlineSettlesStep DEF InlineReturns

\* The await for the task that it returned ends.
LEMMA ChainReturnsStep ==
  ASSUME IInv, NEW f \in Fibers, ChainReturns(f)
  PROVE  IInv'
<1>1. PICK o \in {"FINISHED", "FAILED"} : InlineSettles(f, o)
  BY DEF ChainReturns
<1>2. /\ cur = f /\ pc[f] \in {"return", "throw"} /\ UNCHANGED busy
      /\ returned' = [returned EXCEPT ![f] = @ \ {Len(stack[f])}]
  BY DEF ChainReturns
<1>3. stack[f] # <<>>
  <2>1. Len(stack[f]) \in 1..Len(stack[f])
    BY <1>2 DEF IInv, Passing
  <2> QED
    BY <2>1, EmptySeq
<1> HIDE DEF IInv
<1> QED
  BY <1>1, <1>2, <1>3, InlineSettlesStep

\* A step that executes and registers nothing.
LEMMA PlainStep ==
  ASSUME IInv,
         UNCHANGED <<operations, target, stack, returned, native, gone, runs, ready, defer>>,
         cur' \in Fibers \cup {Runner}, fibers' \in Seq(Fibers \cup {Runner}),
         Active' \subseteq Living' \cup {Runner},
         status' \in [Fibers -> TaskStatus], op' \in [Fibers -> OpStatus],
         awaits' \in [Tasks -> Nat], \A t \in Tasks : awaits[t] <= awaits'[t],
         NEW f \in Living \cup {Runner}, NEW p \in Places, pc' = [pc EXCEPT ![f] = p],
         p # "await", pc[f] = "await" => op[f] # "RUNNING",
         \/ pc[f] \notin Chains /\ p \notin Chains
         \/ pc[f] = "chain" /\ p \in {"return", "throw"},
         \A g \in Fibers : g # f /\ pc[g] = "await" => op'[g] = op[g],
         f \in Tasks => /\ pc[f] \in Leaving => p \in Leaving
                        /\ p \in Leaving => Done(f)'
                        /\ p = "done" => operations[f] = <<>>,
         \A t \in Tasks : pc[t] \in Leaving => status'[t] = status[t],
         Balanced'
  PROVE  IInv'
<1>0. f \in Fibers \cup {Runner} /\ Tasks \subseteq Fibers /\ Runner \notin Fibers
  BY SchedulerAssumption DEF Living, Fibers, IInv, Types
<1>1. /\ pc' \in [Fibers \cup {Runner} -> Places]
      /\ \A g \in Fibers : pc'[g] = IF g = f THEN p ELSE pc[g]
  BY <1>0 DEF IInv, Types, Places
<1>2. Types'
  BY <1>1 DEF IInv, Types, FiberLists, Places
<1>3. Fibered'
  <2>1. Living' = Living /\ Runner \notin Fibers
    BY <1>0 DEF Living
  <2>2. \A g \in Fibers \ Living : g # f /\ pc'[g] = pc[g] /\ stack'[g] = stack[g]
    BY <1>1, <2>1
  <2> QED
    BY <2>1, <2>2 DEF IInv, Fibered
<1>4. Executed'
  BY ExecutedStays DEF IInv
<1>5. Listed' /\ Registered' /\ Over' /\ Outcomes'
  <2>1. \A g \in Fibers : /\ pc'[g] = "await" => pc[g] = "await" /\ op'[g] = op[g]
                          /\ pc[g] = "await" /\ op[g] = "RUNNING" => pc'[g] = "await"
    BY <1>1
  <2>2. \A u \in Tasks :
          /\ pc[u] \in Leaving => pc'[u] \in Leaving /\ status'[u] = status[u]
          /\ pc'[u] \in Leaving /\ pc[u] \notin Leaving => Done(u)'
          /\ pc'[u] = "done" => pc[u] = "done" \/ operations[u] = <<>>
    BY <1>0, <1>1 DEF Leaving
  <2>3. /\ native \subseteq native' /\ native' \subseteq native \cup Range(ready)
        /\ Range(ready') \subseteq Range(ready) /\ UNCHANGED <<operations, target>>
    OBVIOUS
  <2> QED
    BY <2>1, <2>2, <2>3, AwaitersStay DEF IInv
<1>6. Passing'
  BY <1>1, PassingStays DEF IInv
<1> QED
  BY <1>2, <1>3, <1>4, <1>5, <1>6 DEF IInv

\* The await of a settled task takes nothing but the result.
LEMMA AwaitSettledStep ==
  ASSUME IInv, NEW f \in Fibers, NEW t \in Tasks, AwaitSettled(f, t)
  PROVE  IInv'
<1>1. /\ MayAwait(f, t) /\ Awaited(t)
      /\ UNCHANGED <<cur, fibers, ready, status, pc, op, defer, busy, operations, target,
                     stack, returned, native, gone, runs>>
  BY DEF AwaitSettled
<1>2. /\ cur = f /\ pc[f] = "run" /\ f \in Living
      /\ awaits' \in [Tasks -> Nat] /\ \A u \in Tasks : awaits[u] <= awaits'[u]
  BY <1>1, Awaits, Counted
<1>3. Balanced'
  BY <1>1, BalancedStays DEF IInv
<1>4. Active' \subseteq Living' \cup {Runner} /\ pc' = [pc EXCEPT ![f] = "run"]
  BY <1>1, <1>2, Before DEF Active, Living
<1> HIDE DEF IInv
<1> QED
  BY <1>1, <1>2, <1>3, <1>4, Before, PlainStep DEF Leaving, Places, Chains

\* The task that an inlined task returned is settled.
LEMMA ChainSettledStep ==
  ASSUME IInv, NEW f \in Fibers, ChainSettled(f)
  PROVE  IInv'
<1> DEFINE u == target[Last(stack[f])]
<1>1. /\ cur = f /\ pc[f] = "chain" /\ Awaited(u) /\ u \in native
      /\ UNCHANGED <<cur, fibers, ready, status, op, defer, busy, operations, target,
                     stack, returned, native, gone, runs>>
  BY DEF ChainSettled
<1>2. PICK p \in {"return", "throw"} : pc' = [pc EXCEPT ![f] = p]
  BY DEF ChainSettled
<1>3. /\ f \in Living
      /\ awaits' \in [Tasks -> Nat] /\ \A v \in Tasks : awaits[v] <= awaits'[v]
  <2> HIDE DEF u
  <2>1. u \in Tasks
    BY <1>1 DEF IInv, Types
  <2> QED
    BY <1>1, <2>1, Before, Counted
<1> HIDE DEF u
<1>4. \A g \in Fibers : pc'[g] = IF g = f THEN p ELSE pc[g]
  BY <1>2, Before
<1>5. Balanced'
  BY <1>1, <1>4, BalancedStays DEF IInv
<1>6. Active' \subseteq Living' \cup {Runner}
  BY <1>1, Before DEF Active, Living
<1> HIDE DEF IInv
<1> QED
  BY <1>1, <1>2, <1>3, <1>5, <1>6, Before, PlainStep DEF Leaving, Places, Chains

\* A fiber takes the outcome of what it awaited.
LEMMA AwaitReturnsStep ==
  ASSUME IInv, NEW f \in Fibers, AwaitReturns(f)
  PROVE  IInv'
<1>1. /\ cur = f /\ pc[f] = "await" /\ Settled(f)
      /\ op' = [op EXCEPT ![f] = "PENDING"]
      /\ pc' = [pc EXCEPT ![f] = "run"]
      /\ Exit(Body(f))
      /\ UNCHANGED <<cur, fibers, ready, status, defer, taskVars>>
  BY DEF AwaitReturns
<1>2. Balanced'
  BY <1>1, BalancedDown DEF IInv, taskVars
<1>3. Active' \subseteq Living' \cup {Runner} /\ f \in Living
  BY <1>1, Before DEF Active, Living, taskVars
<1>4. /\ op' \in [Fibers -> OpStatus] /\ \A g \in Fibers : g # f => op'[g] = op[g]
      /\ op[f] # "RUNNING"
  BY <1>1, Before DEF OpStatus, Settled
<1> HIDE DEF IInv
<1> QED
  BY <1>1, <1>2, <1>3, <1>4, Before, PlainStep DEF Leaving, Places, Chains, taskVars

\* A fiber goes to sleep.
LEMMA awaitTimeoutStep ==
  ASSUME IInv, NEW f \in Fibers, awaitTimeout(f)
  PROVE  IInv'
<1>1. /\ cur = f /\ pc[f] = "run"
      /\ op' = [op EXCEPT ![f] = "RUNNING"]
      /\ status' = [status EXCEPT ![f] = "SUSPENDED"]
      /\ pc' = [pc EXCEPT ![f] = "sleep"]
      /\ async_fiber_suspend
      /\ UNCHANGED <<ready, defer, busy, taskVars>>
  BY DEF awaitTimeout, MayCall
<1>2. \A g \in Fibers : pc'[g] = IF g = f THEN "sleep" ELSE pc[g]
  BY <1>1, Before
<1>3. Balanced'
  BY <1>1, <1>2, BalancedStays DEF IInv, taskVars
<1>4. /\ cur' \in Fibers \cup {Runner} /\ fibers' \in Seq(Fibers \cup {Runner})
      /\ Active' \subseteq Living' \cup {Runner}
  BY <1>1, SuspendLives DEF IInv, taskVars
<1>5. /\ op' \in [Fibers -> OpStatus] /\ \A g \in Fibers : g # f => op'[g] = op[g]
      /\ status' \in [Fibers -> TaskStatus]
      /\ \A g \in Fibers : g # f => status'[g] = status[g]
      /\ f \in Living
  BY <1>1, Before DEF OpStatus, TaskStatus
<1> HIDE DEF IInv
<1> QED
  BY <1>1, <1>3, <1>4, <1>5, Before, PlainStep DEF Leaving, Places, Chains, taskVars

\* A fiber returns from its timer.
LEMMA TimeoutReturnsStep ==
  ASSUME IInv, NEW f \in Fibers, TimeoutReturns(f)
  PROVE  IInv'
<1>1. /\ cur = f /\ pc[f] = "sleep"
      /\ op' = [op EXCEPT ![f] = "PENDING"]
      /\ pc' = [pc EXCEPT ![f] = "run"]
      /\ UNCHANGED <<cur, fibers, ready, status, defer, busy, taskVars>>
  BY DEF TimeoutReturns
<1>2. \A g \in Fibers : pc'[g] = IF g = f THEN "run" ELSE pc[g]
  BY <1>1, Before
<1>3. Balanced'
  BY <1>1, <1>2, BalancedStays DEF IInv, taskVars
<1>4. Active' \subseteq Living' \cup {Runner} /\ f \in Living
  BY <1>1, Before DEF Active, Living, taskVars
<1>5. op' \in [Fibers -> OpStatus] /\ \A g \in Fibers : g # f => op'[g] = op[g]
  BY <1>1, Before DEF OpStatus
<1> HIDE DEF IInv
<1> QED
  BY <1>1, <1>3, <1>4, <1>5, Before, PlainStep DEF Leaving, Places, Chains, taskVars

\* Completing the operation of a fiber switches to it.
LEMMA Rescheduled ==
  ASSUME IInv, NEW f \in Living, NEW o \in OpStatus, reschedule_task(f, o),
         UNCHANGED native
  PROVE  /\ cur' \in Fibers \cup {Runner} /\ fibers' \in Seq(Fibers \cup {Runner})
         /\ Active' \subseteq Living' \cup {Runner}
         /\ op' = [op EXCEPT ![f] = o] /\ op' \in [Fibers -> OpStatus]
         /\ status' = [status EXCEPT ![f] = "RUNNING"] /\ status' \in [Fibers -> TaskStatus]
         /\ f \in Fibers /\ UNCHANGED ready
<1>1. f \in Fibers /\ f \notin defer /\ f \in Living'
  BY DEF Living, Fibers, IInv, Types
<1>2. /\ op' = [op EXCEPT ![f] = o]
      /\ status' = [status EXCEPT ![f] = "RUNNING"]
      /\ async_fiber_switch(f) /\ UNCHANGED ready
  BY <1>1 DEF reschedule_task
<1>3. /\ cur' \in Fibers \cup {Runner} /\ fibers' \in Seq(Fibers \cup {Runner})
      /\ Active' \subseteq Living' \cup {Runner}
  BY <1>1, <1>2, SwitchLives DEF IInv
<1> QED
  BY <1>1, <1>2, <1>3, Before DEF OpStatus, TaskStatus

\* A timer resumes its fiber.
LEMMA trigger_timerStep ==
  ASSUME IInv, NEW f \in Fibers, trigger_timer(f)
  PROVE  IInv'
<1>1. /\ pc[f] = "sleep"
      /\ \E o \in OpStatus : reschedule_task(f, o)
      /\ UNCHANGED <<pc, defer, busy, taskVars>>
  BY DEF trigger_timer, Sleeping, OpStatus
<1>2. PICK o \in OpStatus : reschedule_task(f, o)
  BY <1>1
<1>3. f \in Living
  BY <1>1 DEF IInv, Fibered
<1>4. /\ cur' \in Fibers \cup {Runner} /\ fibers' \in Seq(Fibers \cup {Runner})
      /\ Active' \subseteq Living' \cup {Runner}
      /\ op' = [op EXCEPT ![f] = o] /\ op' \in [Fibers -> OpStatus]
      /\ status' = [status EXCEPT ![f] = "RUNNING"] /\ status' \in [Fibers -> TaskStatus]
      /\ UNCHANGED ready
  BY <1>1, <1>2, <1>3, Rescheduled DEF taskVars
<1>5. Balanced'
  BY <1>1, BalancedStays DEF IInv, taskVars
<1>6. /\ \A g \in Fibers : g # f => op'[g] = op[g] /\ status'[g] = status[g]
      /\ pc' = [pc EXCEPT ![f] = "sleep"]
  BY <1>1, <1>4, Before
<1> HIDE DEF IInv
<1> QED
  BY <1>1, <1>3, <1>4, <1>5, <1>6, Before, PlainStep DEF Leaving, Places, Chains, taskVars

\* The callback of a task with a fiber returns.
LEMMA TaskReturnsStep ==
  ASSUME IInv, NEW t \in Tasks, NEW o \in {"FINISHED", "FAILED"}, TaskReturns(t, o)
  PROVE  IInv'
<1>1. /\ cur = t /\ pc[t] = "run"
      /\ status' = [status EXCEPT ![t] = o]
      /\ pc' = [pc EXCEPT ![t] = "trigger"]
      /\ UNCHANGED <<cur, fibers, ready, op, defer, busy, taskVars>>
  BY DEF TaskReturns
<1>2. \A g \in Fibers : pc'[g] = IF g = t THEN "trigger" ELSE pc[g]
  BY <1>1, Before
<1>3. Balanced'
  BY <1>1, <1>2, BalancedStays DEF IInv, taskVars
<1>4. Active' \subseteq Living' \cup {Runner} /\ t \in Living /\ t \in Fibers
  BY <1>1, Before DEF Active, Living, taskVars
<1>5. /\ status' \in [Fibers -> TaskStatus] /\ Done(t)'
      /\ \A g \in Fibers : g # t => status'[g] = status[g]
  BY <1>1, <1>4, Before DEF TaskStatus, Done
<1> HIDE DEF IInv
<1> QED
  BY <1>1, <1>3, <1>4, <1>5, Before, PlainStep DEF Leaving, Places, Chains, taskVars

\* The end of the main script and both returns of the loop.
LEMMA SchedulerStep ==
  ASSUME IInv, UNCHANGED taskVars,
         \/ async_task_scheduler_dispose
         \/ run_scheduler_fiber({f \in Sleeping : Body(f) \notin Background})
         \/ DisposeDrain(Sleeping)
  PROVE  IInv'
<1>1. /\ \E p \in {"drain", "dispose", "done"} : pc' = [pc EXCEPT ![Root] = p]
      /\ pc[Root] \in {"run", "drain", "dispose"}
      /\ UNCHANGED <<ready, status, op, defer, busy>>
  BY DEF async_task_scheduler_dispose, run_scheduler_fiber, DisposeDrain
<1>2. PICK p \in {"drain", "dispose", "done"} : pc' = [pc EXCEPT ![Root] = p]
  BY <1>1
<1>3. \A g \in Fibers : pc'[g] = IF g = Root THEN p ELSE pc[g]
  BY <1>2, Before
<1>4. Balanced'
  BY <1>1, <1>3, BalancedStays DEF IInv, taskVars
<1>5. /\ cur' \in Fibers \cup {Runner} /\ fibers' \in Seq(Fibers \cup {Runner})
      /\ Active' \subseteq Living' \cup {Runner}
  <2>1. CASE async_fiber_suspend
    BY <2>1, SuspendLives DEF IInv, taskVars
  <2>2. CASE cur' = Root /\ UNCHANGED fibers
    BY <2>2, Before DEF Active, Living, taskVars
  <2> QED
    BY <2>1, <2>2 DEF async_task_scheduler_dispose, run_scheduler_fiber, DisposeDrain
<1>6. Root \notin Tasks
  BY SchedulerAssumption
<1> HIDE DEF IInv
<1> QED
  BY <1>1, <1>2, <1>4, <1>5, <1>6, Before, PlainStep DEF Leaving, Places, Chains, taskVars

\* The first ready task gets a fiber; it was not executed anywhere before.
LEMMA DispatchNewStep ==
  ASSUME IInv, DispatchNew
  PROVE  IInv'
<1> DEFINE h == Head(ready)
<1>1. /\ cur = Runner /\ ready # <<>> /\ ready' = Tail(ready)
      /\ status' = [status EXCEPT ![h] = "RUNNING"]
      /\ async_fiber_switch(h)
      /\ native' = native \cup {h}
      /\ runs' = [runs EXCEPT ![h] = @ + 1]
      /\ UNCHANGED <<pc, op, defer, busy, operations, target, stack, returned, gone, awaits>>
  BY DEF DispatchNew, dispatch_tasks
<1>2. /\ h \in Tasks /\ h \in Range(ready) /\ ready' \in Seq(Tasks) /\ IsInjective(ready')
      /\ Range(ready) = Range(ready') \cup {h} /\ h \notin Range(ready')
  BY <1>1, TailList DEF IInv, Types
<1> HIDE DEF h
<1>3. h \notin native /\ runs[h] = 0 /\ Inlined(h) = {}
  BY <1>2 DEF IInv, Executed
<1>4. h \notin Living /\ h \in Fibers /\ pc[h] = "run" /\ h \in Living'
  BY <1>1, <1>2, <1>3, SchedulerAssumption DEF Living, Fibers, IInv, Fibered
<1>5. /\ cur' \in Fibers \cup {Runner} /\ fibers' \in Seq(Fibers \cup {Runner})
      /\ Active' \subseteq Living' \cup {Runner}
  BY <1>1, <1>4, SwitchLives DEF IInv
<1>6. Types'
  <2>1. ready' \in Seq(Fibers)
    BY <1>2 DEF Fibers
  <2>2. status' \in [Fibers -> TaskStatus]
    BY <1>1, <1>4, Before DEF TaskStatus
  <2>3. runs' \in [Tasks -> Nat] /\ native' \subseteq Tasks
    BY <1>1, <1>2 DEF IInv, Types
  <2> QED
    BY <1>1, <1>2, <1>5, <2>1, <2>2, <2>3 DEF IInv, Types, FiberLists
<1>7. Fibered'
  <2>1. Fibers \ Living' \subseteq Fibers \ Living
    BY <1>1 DEF Living
  <2> QED
    BY <1>1, <1>5, <2>1 DEF IInv, Fibered
<1>8. Executed'
  <2>1. \A u : Inlined(u)' = Inlined(u)
    BY <1>1, StackStays
  <2>2. runs'[h] = 1 /\ \A u \in Tasks : u # h => runs'[u] = runs[u]
    BY <1>1, <1>2, <1>3 DEF IInv, Types
  <2>3. SUFFICES ASSUME NEW u \in Tasks
                 PROVE  /\ u \in Range(ready') => u \notin native' /\ runs'[u] = 0 /\ Inlined(u) = {}
                        /\ u \in native' => runs'[u] = 1 /\ Inlined(u) = {}
                        /\ u \notin native' => runs'[u] <= awaits[u]
                        /\ IsFiniteSet(Inlined(u)) /\ Cardinality(Inlined(u)) <= awaits[u]
    BY <1>1, <2>1 DEF Executed
  <2>4. /\ u \in Range(ready) => u \notin native /\ runs[u] = 0 /\ Inlined(u) = {}
        /\ u \in native => runs[u] = 1 /\ Inlined(u) = {}
        /\ u \notin native => runs[u] <= awaits[u]
        /\ IsFiniteSet(Inlined(u)) /\ Cardinality(Inlined(u)) <= awaits[u]
    BY DEF IInv, Executed
  <2> QED
    BY <1>1, <1>2, <1>3, <2>2, <2>4
<1>9. Listed' /\ Registered' /\ Over' /\ Outcomes'
  <2>1. \A g \in Fibers : /\ pc'[g] = "await" => pc[g] = "await" /\ op'[g] = op[g]
                          /\ pc[g] = "await" /\ op[g] = "RUNNING" => pc'[g] = "await"
    BY <1>1
  <2>2. \A u \in Tasks :
          /\ pc[u] \in Leaving => pc'[u] \in Leaving /\ status'[u] = status[u]
          /\ pc'[u] \in Leaving /\ pc[u] \notin Leaving => Done(u)'
          /\ pc'[u] = "done" => pc[u] = "done"
    BY <1>1, <1>4, Before DEF Leaving
  <2>3. /\ native \subseteq native' /\ native' \subseteq native \cup Range(ready)
        /\ Range(ready') \subseteq Range(ready) /\ UNCHANGED <<operations, target>>
    BY <1>1, <1>2
  <2> QED
    BY <2>1, <2>2, <2>3, AwaitersStay DEF IInv
<1>10. Balanced' /\ Passing'
  BY <1>1, BalancedStays, PassingStays DEF IInv
<1> QED
  BY <1>6, <1>7, <1>8, <1>9, <1>10 DEF IInv

\* A fiber, or the task inlined on it, is listed with a task under way and the
\* fiber suspends.
LEMMA Enlist ==
  ASSUME IInv, NEW f \in Living, NEW b \in Fibers, NEW u \in native,
         NEW w \in {"await", "nested"},
         b \notin Range(ready), ~Done(u),
         \/ w = "await" /\ b = f /\ pc[f] = "run"
         \/ w = "nested" /\ b \notin Living /\ pc[f] = "chain",
         op' = [op EXCEPT ![b] = "RUNNING"],
         target' = [target EXCEPT ![b] = u],
         operations' = [operations EXCEPT ![u] = Append(@, b)],
         pc' = [pc EXCEPT ![f] = w],
         Enter(Body(f)), async_fiber_suspend,
         awaits' \in [Tasks -> Nat], \A t \in Tasks : awaits[t] <= awaits'[t],
         UNCHANGED <<ready, status, defer, stack, returned, native, gone, runs>>
  PROVE  IInv'
<1>0. /\ f \in Fibers /\ u \in Tasks /\ Tasks \subseteq Fibers
      /\ operations[u] \in Seq(Fibers) /\ Living \subseteq Fibers
  BY Before DEF Living, IInv, Types
<1>1. /\ Len(operations[u]) \in Nat /\ Append(operations[u], b) \in Seq(Fibers)
      /\ Len(Append(operations[u], b)) = Len(operations[u]) + 1
      /\ Append(operations[u], b)[Len(operations[u]) + 1] = b
      /\ \A i \in 1..Len(operations[u]) : Append(operations[u], b)[i] = operations[u][i]
  BY <1>0, AppendAt, AppendList
<1>2. PICK n \in Nat : n = Len(operations[u])
  BY <1>1
<1>3. /\ operations' \in [Tasks -> Seq(Fibers)]
      /\ Len(operations'[u]) = n + 1 /\ operations'[u][n + 1] = b
      /\ \A i \in 1..n : operations'[u][i] = operations[u][i]
      /\ \A t \in Tasks : t # u => operations'[t] = operations[t]
  <2>1. operations \in [Tasks -> Seq(Fibers)]
    BY DEF IInv, Types
  <2>2. operations'[u] = Append(operations[u], b)
    BY <1>0, <2>1
  <2> QED
    BY <1>0, <1>1, <1>2, <2>1, <2>2
<1>4. /\ \A g \in Fibers : pc'[g] = IF g = f THEN w ELSE pc[g]
      /\ pc' \in [Fibers \cup {Runner} -> Places]
      /\ \A g \in Fibers : g # b => op'[g] = op[g] /\ target'[g] = target[g]
      /\ op'[b] = "RUNNING" /\ target'[b] = u
      /\ op' \in [Fibers -> OpStatus] /\ target' \in [Fibers -> Tasks \cup {Root}]
  <2>1. target \in [Fibers -> Tasks \cup {Root}]
    BY DEF IInv, Types
  <2> QED
    BY <1>0, <2>1, Before DEF OpStatus, Places
<1>5. /\ cur' \in Fibers \cup {Runner} /\ fibers' \in Seq(Fibers \cup {Runner})
      /\ Active' \subseteq Living' \cup {Runner}
  BY SuspendLives DEF IInv
<1>6. Types'
  BY <1>3, <1>4, <1>5 DEF IInv, Types, FiberLists, Places
<1>7. Fibered'
  BY <1>4, <1>5 DEF IInv, Fibered, Living
<1>8. Executed'
  BY ExecutedStays DEF IInv
<1>9. b \in Living => b = f
  OBVIOUS
<1>10. ASSUME NEW t \in Tasks, NEW i \in 1..Len(operations[t])
       PROVE  /\ operations[t][i] \in Fibers /\ operations[t][i] \notin Range(ready)
              /\ operations[t][i] # f
              /\ operations[t][i] \in Living =>
                   /\ op'[operations[t][i]] = "RUNNING"
                   /\ pc'[operations[t][i]] = "await"
                   /\ target'[operations[t][i]] = t
  <2> DEFINE c == operations[t][i]
  <2>1. /\ c \notin Range(ready)
        /\ c \in Living => op[c] = "RUNNING" /\ pc[c] = "await" /\ target[c] = t
    BY DEF IInv, Listed
  <2>2. c \in Fibers
    BY InList DEF IInv, Types
  <2> HIDE DEF c
  <2>3. c # f /\ (c \in Living => c # b)
    BY <1>9, <2>1
  <2> QED
    BY <1>4, <2>1, <2>2, <2>3 DEF c
<1>11. Listed'
  <2>1. SUFFICES ASSUME NEW t \in Tasks, NEW i \in 1..Len(operations'[t])
                 PROVE  /\ operations'[t][i] \notin Range(ready)
                        /\ operations'[t][i] \in Living =>
                             /\ op'[operations'[t][i]] = "RUNNING"
                             /\ pc'[operations'[t][i]] = "await"
                             /\ target'[operations'[t][i]] = t
    BY DEF Listed, Living
  <2>2. CASE t = u /\ i = n + 1
    BY <1>0, <1>3, <1>4, <1>9, <2>2
  <2>3. CASE ~(t = u /\ i = n + 1)
    <3>1. i \in 1..Len(operations[t]) /\ operations'[t][i] = operations[t][i]
      BY <1>2, <1>3, <2>1, <2>3
    <3> QED
      BY <1>10, <3>1
  <2> QED
    BY <2>2, <2>3
<1>12. Registered'
  <2>1. SUFFICES ASSUME NEW g \in Fibers, pc'[g] = "await", op'[g] = "RUNNING"
                 PROVE  /\ target'[g] \in native
                        /\ \E i \in 1..Len(operations'[target'[g]]) :
                             operations'[target'[g]][i] = g
                        /\ \A i, j \in 1..Len(operations'[target'[g]]) :
                             /\ operations'[target'[g]][i] = g
                             /\ operations'[target'[g]][j] = g
                             => i = j
    BY DEF Registered
  <2>2. CASE g = f
    <3>1. w = "await" /\ b = f
      BY <1>4, <2>1, <2>2
    <3>2. target'[g] = u
      BY <1>4, <2>2, <3>1
    <3>3. n + 1 \in 1..(n + 1) /\ operations'[u][n + 1] = g
      BY <1>3, <2>2, <3>1
    <3>4. \A i \in 1..n : operations'[u][i] # g
      <4>1. \A i \in 1..Len(operations[u]) : operations[u][i] # f
        BY <1>0, <1>10
      <4> QED
        BY <1>2, <1>3, <2>2, <4>1
    <3>5. \A i \in 1..(n + 1) : operations'[u][i] = g => i = n + 1
      <4>1. \A i \in 1..(n + 1) : i \in 1..n \/ i = n + 1
        OBVIOUS
      <4> QED
        BY <3>4, <4>1
    <3> QED
      BY <1>3, <3>2, <3>3, <3>5
  <2>3. CASE g # f
    <3>1. pc[g] = "await" /\ g \in Living
      BY <1>4, <2>1, <2>3 DEF IInv, Fibered
    <3>2. g # b /\ op[g] = "RUNNING" /\ target'[g] = target[g]
      BY <1>4, <1>9, <2>1, <2>3, <3>1
    <3> DEFINE v == target[g]
    <3>3. /\ v \in native
          /\ \E i \in 1..Len(operations[v]) : operations[v][i] = g
          /\ \A i, j \in 1..Len(operations[v]) :
               operations[v][i] = g /\ operations[v][j] = g => i = j
      BY <3>1, <3>2 DEF IInv, Registered
    <3>4. v \in Tasks
      BY <3>3 DEF IInv, Types
    <3> HIDE DEF v
    <3>5. CASE v # u
      <4>1. operations'[v] = operations[v]
        BY <1>3, <3>4, <3>5
      <4> QED
        BY <3>2, <3>3, <4>1 DEF v
    <3>6. CASE v = u
      <4>1. \E i \in 1..(n + 1) : operations'[u][i] = g
        BY <1>2, <1>3, <3>3, <3>6
      <4>2. \A i \in 1..(n + 1) : operations'[u][i] = g => i \in 1..n /\ operations[u][i] = g
        BY <1>3, <3>2
      <4>3. \A i, j \in 1..(n + 1) : operations'[u][i] = g /\ operations'[u][j] = g => i = j
        BY <1>2, <3>3, <3>6, <4>2
      <4>4. target'[g] = u /\ Len(operations'[u]) = n + 1
        BY <1>3, <3>2, <3>6 DEF v
      <4> QED
        BY <4>1, <4>3, <4>4
    <3> QED
      BY <3>5, <3>6
  <2> QED
    BY <2>2, <2>3
<1>13. Over'
  <2>1. SUFFICES ASSUME NEW t \in Tasks
                 PROVE  /\ pc'[t] \in Leaving => Done(t)
                        /\ pc'[t] = "done" => operations'[t] = <<>>
    BY DEF Over, Done
  <2>2. /\ pc[t] \in Leaving => Done(t)
        /\ pc[t] = "done" => operations[t] = <<>>
    BY DEF IInv, Over
  <2>3. pc'[t] \in Leaving => pc'[t] = pc[t]
    BY <1>0, <1>4 DEF Leaving
  <2>4. ASSUME pc'[t] = "done" PROVE operations'[t] = operations[t]
    <3>1. Done(t)
      BY <2>2, <2>3, <2>4 DEF Leaving
    <3> QED
      BY <1>3, <3>1
  <2> QED
    BY <2>2, <2>3, <2>4 DEF Leaving
<1>14. Outcomes'
  <2>1. SUFFICES ASSUME NEW g \in Fibers, pc'[g] = "await", Settled(g)'
                 PROVE  /\ target'[g] \in Tasks /\ pc'[target'[g]] \in Leaving
                        /\ op'[g] = OutcomeOf(target'[g])
    BY DEF Outcomes, OutcomeOf
  <2>2. g # b
    BY <1>4, <2>1 DEF Settled
  <2>3. g # f
    BY <1>4, <2>1, <2>2
  <2>4. /\ pc[g] = "await" /\ Settled(g) /\ op'[g] = op[g] /\ target'[g] = target[g]
    BY <1>4, <2>1, <2>2, <2>3 DEF Settled
  <2>5. /\ target[g] \in Tasks /\ pc[target[g]] \in Leaving
        /\ op[g] = OutcomeOf(target[g])
    BY <2>4 DEF IInv, Outcomes
  <2>6. target[g] # f
    BY <2>5 DEF Leaving
  <2>7. pc'[target[g]] = pc[target[g]]
    BY <1>0, <1>4, <2>5, <2>6
  <2> QED
    BY <2>4, <2>5, <2>7
<1>15. Balanced'
  BY <1>0, BalancedUp DEF IInv
<1>16. Passing'
  <2>1. \A t \in Tasks : target'[t] \in Tasks \/ target'[t] = target[t]
    BY <1>0, <1>4
  <2> QED
    BY <1>4, <2>1, PassingStays DEF IInv, Chains
<1> QED
  BY <1>6, <1>7, <1>8, <1>11, <1>12, <1>13, <1>14, <1>15, <1>16 DEF IInv

\* A fiber awaits a task under way.
LEMMA AwaitSuspendsStep ==
  ASSUME IInv, NEW f \in Fibers, NEW t \in Tasks, AwaitSuspends(f, t)
  PROVE  IInv'
<1>1. /\ MayAwait(f, t) /\ Awaited(t) /\ t \in native /\ ~Done(t)
      /\ op' = [op EXCEPT ![f] = "RUNNING"]
      /\ target' = [target EXCEPT ![f] = t]
      /\ operations' = [operations EXCEPT ![t] = Append(@, f)]
      /\ Enter(Body(f))
      /\ pc' = [pc EXCEPT ![f] = "await"]
      /\ async_fiber_suspend
      /\ UNCHANGED <<ready, status, defer, stack, returned, native, gone, runs>>
  BY DEF AwaitSuspends
<1>2. /\ pc[f] = "run" /\ f \in Living
      /\ awaits' \in [Tasks -> Nat] /\ \A u \in Tasks : awaits[u] <= awaits'[u]
  BY <1>1, Awaits, Counted
<1>3. f \notin Range(ready)
  <2>1. Range(ready) \subseteq Tasks
    BY InList DEF IInv, Types
  <2> QED
    BY <1>2, <2>1, SchedulerAssumption DEF Living, IInv, Executed
<1> HIDE DEF IInv
<1> QED
  BY <1>1, <1>2, <1>3, Enlist

\* A task on a stack is neither ready nor does it have a fiber.
LEMMA InnermostTask ==
  ASSUME IInv, NEW f \in Fibers, stack[f] # <<>>
  PROVE  /\ Last(stack[f]) \in Tasks /\ Last(stack[f]) \notin Range(ready)
         /\ Last(stack[f]) \notin native
<1> DEFINE t == Last(stack[f])
<1>1. stack[f] \in Seq(Tasks) /\ t \in Tasks /\ t \in Range(stack[f])
  BY FrontList DEF IInv, Types
<1> HIDE DEF t
<1>2. PICK i \in 1..Len(stack[f]) : stack[f][i] = t
  BY <1>1, InList
<1>3. i \in At(t)[f]
  BY <1>1, <1>2, InList DEF At
<1>4. <<f, i>> \in {f} \X At(t)[f]
  BY <1>3
<1>5. <<f, i>> \in Pairs(At(t))
  BY <1>4, Zenon DEF Pairs
<1>6. Inlined(t) # {}
  BY <1>5, PairsAre
<1> QED
  BY <1>1, <1>6 DEF IInv, Executed, t

\* An inlined task returns a task: the code below it is released.
LEMMA InlineReturnsTaskStep ==
  ASSUME IInv, NEW f \in Fibers, NEW u \in Tasks, InlineReturnsTask(f, u)
  PROVE  IInv'
<1> DEFINE t == Last(stack[f])
<1>1. /\ MayAwait(f, u) /\ stack[f] # <<>>
      /\ target' = [target EXCEPT ![t] = u]
      /\ returned' = [returned EXCEPT ![f] = @ \cup {Len(stack[f])}]
      /\ Exit(Caller(f, Len(stack[f])))
      /\ pc' = [pc EXCEPT ![f] = "chain"]
      /\ UNCHANGED <<cur, fibers, ready, status, op, defer, operations, stack,
                     native, gone, runs, awaits>>
  BY DEF InlineReturnsTask
<1>2. pc[f] = "run" /\ f \in Living
  BY <1>1, Awaits
<1>3. t \in Tasks /\ t \notin native
  BY <1>1, InnermostTask
<1>4. Len(stack[f]) \in Nat /\ Len(stack[f]) > 0 /\ Len(stack[f]) \notin returned[f]
  <2>1. stack[f] \in Seq(Tasks) /\ stack[f] # <<>>
    BY <1>1 DEF IInv, Types
  <2>2. Len(stack[f]) \in Nat /\ Len(stack[f]) > 0
    BY <2>1, FrontList
  <2> QED
    BY <1>2, <2>2 DEF IInv, Passing, Chains
<1>5. /\ \A g \in Fibers : pc'[g] = IF g = f THEN "chain" ELSE pc[g]
      /\ pc' \in [Fibers \cup {Runner} -> Places]
  BY <1>1, Before DEF Places
<1>6. /\ t \in Fibers /\ t \notin Living /\ pc[t] = "run"
      /\ target' \in [Fibers -> Tasks \cup {Root}] /\ target'[t] = u
      /\ \A g \in Fibers : g # t => target'[g] = target[g]
      /\ returned' \in [Fibers -> SUBSET Nat]
      /\ returned'[f] = returned[f] \cup {Len(stack[f])}
      /\ \A g \in Fibers : g # f => returned'[g] = returned[g]
  <2> HIDE DEF t
  <2>1. t \in Fibers /\ t \notin Living
    BY <1>3, SchedulerAssumption DEF Living, Fibers
  <2>2. pc[t] = "run"
    BY <2>1 DEF IInv, Fibered
  <2>3. target \in [Fibers -> Tasks \cup {Root}] /\ returned \in [Fibers -> SUBSET Nat]
    BY DEF IInv, Types
  <2>4. /\ target' \in [Fibers -> Tasks \cup {Root}] /\ target'[t] = u
        /\ \A g \in Fibers : g # t => target'[g] = target[g]
    BY <1>1, <2>1, <2>3
  <2>5. /\ returned' \in [Fibers -> SUBSET Nat]
        /\ returned'[f] = returned[f] \cup {Len(stack[f])}
        /\ \A g \in Fibers : g # f => returned'[g] = returned[g]
    BY <1>1, <1>4, <2>3
  <2> QED
    BY <2>1, <2>2, <2>4, <2>5
<1>7. Types'
  BY <1>1, <1>5, <1>6 DEF IInv, Types, FiberLists, Places
<1>8. Fibered'
  <2>1. Active' = Active /\ Living' = Living
    BY <1>1 DEF Active, Living
  <2> QED
    BY <1>1, <1>2, <1>5, <2>1 DEF IInv, Fibered
<1>9. Executed'
  BY <1>1, Before, ExecutedStays DEF IInv
<1>10. Listed' /\ Registered' /\ Over' /\ Outcomes'
  <2> HIDE DEF t
  <2>1. \A g \in Fibers : /\ pc'[g] = "await" => pc[g] = "await" /\ op'[g] = op[g]
                          /\ pc[g] = "await" /\ op[g] = "RUNNING" => pc'[g] = "await"
                          /\ pc[g] = "await" \/ g \in Living => target'[g] = target[g]
    BY <1>1, <1>2, <1>5, <1>6
  <2>2. \A v \in Tasks :
          /\ pc[v] \in Leaving => pc'[v] \in Leaving /\ status'[v] = status[v]
          /\ pc'[v] \in Leaving /\ pc[v] \notin Leaving => Done(v)'
          /\ pc'[v] = "done" => pc[v] = "done"
    BY <1>1, <1>2, <1>5, Before DEF Leaving
  <2>3. /\ native \subseteq native' /\ native' \subseteq native \cup Range(ready)
        /\ Range(ready') \subseteq Range(ready) /\ UNCHANGED operations
    BY <1>1
  <2> QED
    BY <2>1, <2>2, <2>3, AwaitersStay DEF IInv
<1>11. Balanced'
  <2> HIDE DEF t
  <2>1. Suspended' = Suspended
    <3>1. \A g \in Fibers : Body(g)' = Body(g)
      BY <1>1 DEF Body
    <3> QED
      BY <1>2, <1>5, <3>1 DEF Suspended
  <2>2. /\ IsFiniteSet(Calling) /\ Cardinality(Calling) \in Nat
        /\ Cardinality(Suspended) \in Nat /\ busy = Cardinality(Suspended) + Cardinality(Calling)
    BY SuspendedFinite, FS_CardinalityType DEF IInv, Balanced, BusyBalanced
  <2>3. /\ IsFiniteSet(Calling')
        /\ Caller(f, Len(stack[f])) \in Background =>
             Cardinality(Calling') = Cardinality(Calling)
        /\ Caller(f, Len(stack[f])) \notin Background =>
             /\ Cardinality(Calling') \in Nat
             /\ Cardinality(Calling) = Cardinality(Calling') + 1
    BY <1>1, <1>4, <2>2, Release DEF IInv, Types
  <2>4. busy' = IF Caller(f, Len(stack[f])) \in Background THEN busy ELSE busy - 1
    BY <1>1 DEF Exit
  <2>5. busy' = Cardinality(Suspended) + Cardinality(Calling')
    BY <2>2, <2>3, <2>4
  <2> QED
    BY <2>1, <2>3, <2>5 DEF Balanced, BusyBalanced
<1>12. Passing'
  <2>1. SUFFICES ASSUME NEW g \in Fibers
                 PROVE  /\ returned'[g] \subseteq 1..Len(stack[g])
                        /\ Len(stack[g]) \in returned'[g] => pc'[g] \in Chains
                        /\ pc'[g] \in {"chain", "return", "throw"} =>
                             Len(stack[g]) \in returned'[g]
                        /\ pc'[g] = "chain" => target'[Last(stack[g])] \in Tasks
    BY <1>1 DEF Passing, Chains
  <2>2. /\ returned[g] \subseteq 1..Len(stack[g])
        /\ Len(stack[g]) \in returned[g] => pc[g] \in Chains
        /\ pc[g] \in {"chain", "return", "throw"} => Len(stack[g]) \in returned[g]
        /\ pc[g] = "chain" => target[Last(stack[g])] \in Tasks
    BY DEF IInv, Passing
  <2>3. CASE g = f
    <3>1. returned'[f] \subseteq 1..Len(stack[f]) /\ Len(stack[f]) \in returned'[f]
      BY <1>4, <1>6, <2>2, <2>3
    <3>2. target'[Last(stack[f])] \in Tasks
      BY <1>6
    <3> QED
      BY <1>5, <2>3, <3>1, <3>2 DEF Chains
  <2>4. CASE g # f
    <3>1. pc'[g] = pc[g] /\ returned'[g] = returned[g]
      BY <1>5, <1>6, <2>4
    <3>2. ASSUME pc[g] = "chain" PROVE target'[Last(stack[g])] \in Tasks
      <4>1. Len(stack[g]) \in 1..Len(stack[g])
        BY <2>2, <3>2
      <4>2. stack[g] \in Seq(Tasks) /\ stack[g] # <<>>
        BY <4>1, EmptySeq DEF IInv, Types
      <4>3. Last(stack[g]) \in Tasks /\ Tasks \subseteq Fibers
        BY <4>2, FrontList, Before
      <4> HIDE DEF t
      <4> QED
        BY <1>6, <2>2, <3>2, <4>3
    <3> QED
      BY <2>2, <3>1, <3>2
  <2> QED
    BY <2>3, <2>4
<1> QED
  BY <1>7, <1>8, <1>9, <1>10, <1>11, <1>12 DEF IInv

\* The task that was returned is under way: the inlined task is listed with it.
LEMMA ChainSuspendsStep ==
  ASSUME IInv, NEW f \in Fibers, ChainSuspends(f)
  PROVE  IInv'
<1> DEFINE t == Last(stack[f])
           u == target[t]
<1>1. /\ cur = f /\ pc[f] = "chain" /\ u \in native /\ ~Done(u) /\ Awaited(u)
      /\ op' = [op EXCEPT ![t] = "RUNNING"]
      /\ operations' = [operations EXCEPT ![u] = Append(@, t)]
      /\ Enter(Body(f))
      /\ pc' = [pc EXCEPT ![f] = "nested"]
      /\ async_fiber_suspend
      /\ UNCHANGED <<ready, status, defer, target, stack, returned, native, gone, runs>>
  BY DEF ChainSuspends
<1>2. stack[f] # <<>>
  <2>1. Len(stack[f]) \in 1..Len(stack[f])
    BY <1>1 DEF IInv, Passing
  <2> QED
    BY <2>1, EmptySeq
<1>3. t \in Tasks /\ t \notin Range(ready) /\ t \notin native
  BY <1>2, InnermostTask
<1>4. target' = [target EXCEPT ![t] = u]
  <2>1. target \in [Fibers -> Tasks \cup {Root}]
    BY DEF IInv, Types
  <2> QED
    BY <1>1, <2>1
<1> HIDE DEF u
<1>5. u \in Tasks
  BY <1>1 DEF IInv, Types
<1> HIDE DEF t
<1>6. t \in Fibers /\ t \notin Living /\ f \in Living
  BY <1>1, <1>3, SchedulerAssumption, Before DEF Living, Fibers
<1>7. awaits' \in [Tasks -> Nat] /\ \A v \in Tasks : awaits[v] <= awaits'[v]
  BY <1>1, <1>5, Counted
<1> HIDE DEF IInv
<1> QED
  BY <1>1, <1>3, <1>4, <1>6, <1>7, Enlist

\* The first operation of a task leaves its list: that of a fiber is completed
\* with the outcome of the task, that of an inlined task ends the program.
LEMMA Delist ==
  ASSUME IInv, NEW t \in Tasks, NEW h, operations[t] # <<>>, h = Head(operations[t]),
         pc[t] = "trigger", cur' \in Fibers \cup {Runner},
         fibers' \in Seq(Fibers \cup {Runner}), Active' \subseteq Living' \cup {Runner},
         operations' = [operations EXCEPT ![t] = Tail(@)],
         \/ /\ h \in Living /\ op' = [op EXCEPT ![h] = OutcomeOf(t)]
            /\ status' = [status EXCEPT ![h] = "RUNNING"] /\ UNCHANGED pc
         \/ /\ h \notin Living /\ pc' = [pc EXCEPT ![t] = "null"]
            /\ UNCHANGED <<op, status>>,
         UNCHANGED <<ready, defer, busy, target, stack, returned, native, gone, runs, awaits>>
  PROVE  IInv'
<1> DEFINE o == operations[t]
           m == Tail(o)
<1>0. /\ o \in Seq(Fibers) /\ operations \in [Tasks -> Seq(Fibers)]
      /\ t \in Fibers /\ Tasks \subseteq Fibers
  BY Before DEF IInv, Types
<1>1. /\ Len(o) \in Nat /\ Len(o) > 0 /\ h = o[1] /\ h \in Fibers
      /\ m \in Seq(Fibers) /\ Len(m) = Len(o) - 1
      /\ \A i \in 1..Len(m) : m[i] = o[i + 1]
  BY <1>0, HeadTailProperties, InList, EmptySeq
<1>2. /\ operations' \in [Tasks -> Seq(Fibers)] /\ operations'[t] = m
      /\ \A u \in Tasks : u # t => operations'[u] = operations[u]
  BY <1>0, <1>1
<1> HIDE DEF m
<1>3. h \in Living => op[h] = "RUNNING" /\ pc[h] = "await" /\ target[h] = t
  <2>1. 1 \in 1..Len(o) /\ o[1] = h
    BY <1>1
  <2> QED
    BY <2>1 DEF IInv, Listed
<1>4. h # t
  <2>1. CASE h \in Living
    BY <1>3, <2>1
  <2>2. CASE h \notin Living
    BY <1>1, <2>2 DEF IInv, Fibered
  <2> QED
    BY <2>1, <2>2
<1>5. /\ \A g \in Fibers : g # h => op'[g] = op[g] /\ status'[g] = status[g]
      /\ h \in Living => op'[h] = OutcomeOf(t) /\ op'[h] \in {"RESOLVED", "FAILED"}
      /\ h \notin Living => UNCHANGED <<op, status>>
      /\ op' \in [Fibers -> OpStatus] /\ status' \in [Fibers -> TaskStatus]
  <2>1. OutcomeOf(t) \in {"RESOLVED", "FAILED"}
    BY DEF OutcomeOf
  <2> HIDE DEF o
  <2>2. CASE h \in Living
    <3>1. /\ op' = [op EXCEPT ![h] = OutcomeOf(t)]
          /\ status' = [status EXCEPT ![h] = "RUNNING"]
      BY <2>2
    <3> HIDE DEF Living
    <3> QED
      BY <1>1, <2>1, <2>2, <3>1, Before DEF OpStatus, TaskStatus
  <2>3. CASE h \notin Living
    BY <2>3, Before
  <2> QED
    BY <2>2, <2>3
<1>6. /\ pc' \in [Fibers \cup {Runner} -> Places]
      /\ \A g \in Fibers : /\ pc'[g] = "await" <=> pc[g] = "await"
                           /\ pc'[g] \in Leaving <=> pc[g] \in Leaving
                           /\ pc'[g] = "done" <=> pc[g] = "done"
                           /\ pc'[g] = "nested" <=> pc[g] = "nested"
                           /\ g # t => pc'[g] = pc[g]
  <2> HIDE DEF o
  <2>1. CASE h \in Living
    BY <2>1, Before
  <2>2. CASE h \notin Living
    <3>1. pc' = [pc EXCEPT ![t] = "null"]
      BY <2>2
    <3> QED
      BY <1>0, <3>1, Before DEF Leaving, Places
  <2> QED
    BY <2>1, <2>2
<1>7. Types'
  BY <1>2, <1>5, <1>6 DEF IInv, Types, FiberLists, Places
<1>8. Fibered'
  <2>1. t \in Living
    BY <1>0 DEF IInv, Fibered
  <2> QED
    BY <1>6, <2>1 DEF IInv, Fibered, Living
<1>9. Executed'
  BY ExecutedStays, Before DEF IInv
<1>10. ASSUME NEW u \in Tasks, NEW i \in 1..Len(operations'[u])
       PROVE  \E j \in 1..Len(operations[u]) :
                /\ operations[u][j] = operations'[u][i]
                /\ operations'[u][i] \in Living => operations'[u][i] # h
  <2>1. CASE u = t
    <3>1. i \in 1..Len(m) /\ i + 1 \in 1..Len(o) /\ m[i] = o[i + 1] /\ 1 \in 1..Len(o)
      BY <1>1, <1>2, <2>1
    <3>2. ASSUME m[i] \in Living, m[i] = h PROVE FALSE
      <4>1. \A k, l \in 1..Len(o) : o[k] = h /\ o[l] = h => k = l
        BY <1>1, <1>3, <3>2 DEF IInv, Registered
      <4> QED
        BY <1>1, <3>1, <3>2, <4>1
    <3> QED
      BY <1>2, <2>1, <3>1, <3>2
  <2>2. CASE u # t
    <3>1. operations'[u] = operations[u]
      BY <1>2, <2>2
    <3>2. operations[u][i] \in Living => target[operations[u][i]] = u
      BY <3>1 DEF IInv, Listed
    <3> QED
      BY <1>3, <2>2, <3>1, <3>2
  <2> QED
    BY <2>1, <2>2
<1>11. Listed'
  <2>0. target' = target /\ Living' = Living /\ ready' = ready
    BY DEF Living
  <2>a. SUFFICES ASSUME NEW u \in Tasks, NEW i \in 1..Len(operations'[u])
                 PROVE  /\ operations'[u][i] \notin Range(ready')
                        /\ operations'[u][i] \in Living' =>
                             /\ op'[operations'[u][i]] = "RUNNING"
                             /\ pc'[operations'[u][i]] = "await"
                             /\ target'[operations'[u][i]] = u
    BY Zenon DEF Listed
  <2>1. SUFFICES /\ operations'[u][i] \notin Range(ready)
                 /\ operations'[u][i] \in Living =>
                      /\ op'[operations'[u][i]] = "RUNNING"
                      /\ pc'[operations'[u][i]] = "await"
                      /\ target[operations'[u][i]] = u
    BY <2>0, Zenon
  <2>2. PICK j \in 1..Len(operations[u]) :
          /\ operations[u][j] = operations'[u][i]
          /\ operations'[u][i] \in Living => operations'[u][i] # h
    BY <1>10
  <2> DEFINE c == operations'[u][i]
  <2>3. /\ c \notin Range(ready)
        /\ c \in Living => op[c] = "RUNNING" /\ pc[c] = "await" /\ target[c] = u
    BY <2>2 DEF IInv, Listed
  <2>4. c \in Fibers
    <3>1. operations[u] \in Seq(Fibers) /\ operations[u][j] = c
      BY <1>0, <2>2
    <3> HIDE DEF c
    <3> QED
      BY <3>1, InList
  <2> HIDE DEF c
  <2>5. c \in Living => op'[c] = op[c] /\ pc'[c] = "await"
    BY <1>5, <1>6, <2>2, <2>3, <2>4 DEF c
  <2> QED
    BY <2>3, <2>5 DEF c
<1>12. Registered'
  <2>0. target' = target /\ native' = native
    OBVIOUS
  <2>1. SUFFICES ASSUME NEW g \in Fibers, pc'[g] = "await", op'[g] = "RUNNING"
                 PROVE  /\ target'[g] \in native'
                        /\ \E i \in 1..Len(operations'[target'[g]]) :
                             operations'[target'[g]][i] = g
                        /\ \A i, j \in 1..Len(operations'[target'[g]]) :
                             operations'[target'[g]][i] = g /\ operations'[target'[g]][j] = g
                             => i = j
    BY Zenon DEF Registered
  <2>b. SUFFICES /\ target[g] \in native
                 /\ \E i \in 1..Len(operations'[target[g]]) :
                      operations'[target[g]][i] = g
                 /\ \A i, j \in 1..Len(operations'[target[g]]) :
                      operations'[target[g]][i] = g /\ operations'[target[g]][j] = g
                      => i = j
    BY <2>0, Zenon
  <2>2. pc[g] = "await" /\ g \in Living
    BY <1>6, <2>1 DEF IInv, Fibered
  <2>3. g # h /\ op[g] = "RUNNING"
    BY <1>5, <2>1, <2>2
  <2> DEFINE v == target[g]
  <2>4. /\ v \in native
        /\ \E i \in 1..Len(operations[v]) : operations[v][i] = g
        /\ \A i, j \in 1..Len(operations[v]) :
             operations[v][i] = g /\ operations[v][j] = g => i = j
    BY <2>2, <2>3 DEF IInv, Registered
  <2>5. v \in Tasks
    BY <2>4 DEF IInv, Types
  <2> HIDE DEF v
  <2>6. CASE v # t
    <3>1. operations'[v] = operations[v]
      BY <1>2, <2>5, <2>6
    <3> QED
      BY <2>4, <3>1 DEF v
  <2>7. CASE v = t
    <3>1. PICK i \in 1..Len(o) : o[i] = g
      BY <2>4, <2>7
    <3>2. i # 1
      BY <1>1, <2>3, <3>1
    <3>3. i - 1 \in 1..Len(m) /\ m[i - 1] = g
      <4>1. i - 1 \in 1..Len(m) /\ (i - 1) + 1 = i
        BY <1>1, <3>2
      <4> QED
        BY <1>1, <3>1, <4>1
    <3>4. \A j, k \in 1..Len(m) : m[j] = g /\ m[k] = g => j = k
      <4>1. \A j \in 1..Len(m) : j + 1 \in 1..Len(o) /\ m[j] = o[j + 1]
        BY <1>1
      <4>2. \A j, k \in 1..Len(o) : o[j] = g /\ o[k] = g => j = k
        BY <2>4, <2>7
      <4>3. \A j, k \in 1..Len(m) : m[j] = g /\ m[k] = g => j + 1 = k + 1
        BY <4>1, <4>2
      <4> QED
        BY <1>1, <4>3
    <3>5. operations'[v] = m
      BY <1>2, <2>7
    <3> QED
      BY <2>4, <3>3, <3>4, <3>5 DEF v
  <2> QED
    BY <2>6, <2>7
<1>13. Over'
  <2>1. SUFFICES ASSUME NEW u \in Tasks
                 PROVE  /\ pc'[u] \in Leaving => Done(u)'
                        /\ pc'[u] = "done" => operations'[u] = <<>>
    BY DEF Over
  <2>2. /\ pc[u] \in Leaving => Done(u)
        /\ pc[u] = "done" => operations[u] = <<>>
    BY DEF IInv, Over
  <2>3. ASSUME pc[u] \in Leaving PROVE status'[u] = status[u]
    <3>1. u = h => h \notin Living
      BY <1>3, <2>3 DEF Leaving
    <3> QED
      BY <1>0, <1>5, <3>1
  <2> QED
    BY <1>0, <1>2, <1>6, <2>2, <2>3 DEF Done
<1>14. Outcomes'
  <2>1. SUFFICES ASSUME NEW g \in Fibers, pc'[g] = "await", Settled(g)'
                 PROVE  /\ target[g] \in Tasks /\ pc'[target[g]] \in Leaving
                        /\ op'[g] = OutcomeOf(target[g])'
    BY DEF Outcomes
  <2>2. pc[g] = "await" /\ g \in Living
    BY <1>6, <2>1 DEF IInv, Fibered
  <2>3. CASE g = h
    <3>1. target[g] = t /\ op'[g] = OutcomeOf(t) /\ status'[t] = status[t]
      BY <1>0, <1>3, <1>4, <1>5, <2>2, <2>3
    <3>2. OutcomeOf(t)' = OutcomeOf(t)
      BY <3>1 DEF OutcomeOf
    <3>3. pc'[t] \in Leaving
      BY <1>0, <1>6 DEF Leaving
    <3> QED
      BY <3>1, <3>2, <3>3
  <2>4. CASE g # h
    <3>1. op'[g] = op[g] /\ Settled(g)
      BY <1>5, <2>1, <2>4 DEF Settled
    <3> DEFINE v == target[g]
    <3>2. /\ v \in Tasks /\ pc[v] \in Leaving /\ op[g] = OutcomeOf(v)
      BY <2>2, <3>1 DEF IInv, Outcomes
    <3> HIDE DEF v
    <3>3. v = h => h \notin Living
      BY <1>3, <3>2 DEF Leaving
    <3>4. status'[v] = status[v]
      BY <1>0, <1>5, <3>2, <3>3
    <3>5. OutcomeOf(v)' = OutcomeOf(v)
      BY <3>4 DEF OutcomeOf, v
    <3> QED
      BY <1>0, <1>6, <3>1, <3>2, <3>5 DEF v
  <2> QED
    BY <2>3, <2>4
<1>15. Balanced'
  BY <1>6, BalancedStays DEF IInv
<1>16. Passing'
  <2>1. \A g \in Fibers : pc'[g] = pc[g] \/ (pc[g] \notin Chains /\ pc'[g] \notin Chains)
    BY <1>0, <1>6, Before DEF Leaving, Chains
  <2> QED
    BY <2>1, PassingStays DEF IInv
<1> QED
  BY <1>7, <1>8, <1>9, <1>11, <1>12, <1>13, <1>14, <1>15, <1>16 DEF IInv

\* One turn of the trigger loop.
LEMMA trigger_opsStep ==
  ASSUME IInv, NEW t \in Tasks, trigger_ops(t)
  PROVE  IInv'
<1>1. /\ cur = t /\ pc[t] = "trigger"
      /\ UNCHANGED <<defer, busy, target, stack, returned, native, gone, runs, awaits>>
  BY DEF trigger_ops
<1>2. t \in Fibers /\ t \in Living
  BY <1>1, Before
<1>3. CASE operations[t] = <<>>
  <2>1. /\ pc' = [pc EXCEPT ![t] = "done"]
        /\ async_fiber_suspend
        /\ UNCHANGED <<ready, status, op, operations>>
    BY <1>3 DEF trigger_ops
  <2>2. \A g \in Fibers : pc'[g] = IF g = t THEN "done" ELSE pc[g]
    BY <2>1, Before
  <2>3. Balanced'
    BY <1>1, <2>2, BalancedStays DEF IInv
  <2>4. /\ cur' \in Fibers \cup {Runner} /\ fibers' \in Seq(Fibers \cup {Runner})
        /\ Active' \subseteq Living' \cup {Runner}
    BY <1>1, <2>1, SuspendLives DEF IInv
  <2>5. Done(t)'
    BY <1>1, <2>1 DEF IInv, Over, Leaving, Done
  <2> HIDE DEF IInv
  <2> QED
    BY <1>1, <1>2, <1>3, <2>1, <2>3, <2>4, <2>5, Before, PlainStep DEF Leaving, Places, Chains
<1>4. CASE operations[t] # <<>>
  <2> DEFINE h == Head(operations[t])
  <2>1. operations' = [operations EXCEPT ![t] = Tail(@)]
    BY <1>4 DEF trigger_ops
  <2>3. CASE h \in Living
    <3>1. reschedule_task(h, OutcomeOf(t)) /\ UNCHANGED pc
      BY <1>4, <2>3 DEF trigger_ops, Living
    <3>2. OutcomeOf(t) \in OpStatus
      BY DEF OutcomeOf, OpStatus
    <3> HIDE DEF h, IInv
    <3>3. /\ cur' \in Fibers \cup {Runner} /\ fibers' \in Seq(Fibers \cup {Runner})
          /\ Active' \subseteq Living' \cup {Runner}
          /\ op' = [op EXCEPT ![h] = OutcomeOf(t)]
          /\ status' = [status EXCEPT ![h] = "RUNNING"] /\ UNCHANGED ready
      BY <1>1, <2>3, <3>1, <3>2, Rescheduled
    <3>4. h = Head(operations[t])
      BY DEF h
    <3> QED
      BY <1>1, <1>4, <2>1, <2>3, <3>1, <3>3, <3>4, Delist
  <2>4. CASE h \notin Living
    <3>1. pc' = [pc EXCEPT ![t] = "null"] /\ UNCHANGED <<cur, fibers, ready, status, op>>
      BY <1>4, <2>4 DEF trigger_ops, Living
    <3>2. Active' \subseteq Living' \cup {Runner}
      BY <1>1, <3>1, Before DEF Active, Living
    <3>3. h = Head(operations[t])
      OBVIOUS
    <3>4. cur' \in Fibers \cup {Runner} /\ fibers' \in Seq(Fibers \cup {Runner})
      BY <3>1, Before
    <3> HIDE DEF h, IInv
    <3> QED
      BY <1>1, <1>4, <2>1, <2>4, <3>1, <3>2, <3>3, <3>4, Delist
  <2> QED
    BY <2>3, <2>4
<1> QED
  BY <1>3, <1>4

-----------------------------------------------------------------------------
(***************************************************************************)
(* The invariant.                                                          *)
(***************************************************************************)
\* The invariant holds when the tasks are created.
LEMMA InitIInv ==
  ASSUME Init
  PROVE  IInv
<1>1. FiberLists /\ ready \in Seq(Tasks) /\ IsInjective(ready)
  BY SchedStart DEF Init
<1>2. /\ cur = Root /\ fibers = <<>> /\ defer = {} /\ busy = 0
      /\ pc = [f \in Fibers \cup {Runner} |-> "run"]
      /\ op = [f \in Fibers |-> "PENDING"]
      /\ operations = [t \in Tasks |-> <<>>]
      /\ target = [f \in Fibers |-> Root]
      /\ stack = [f \in Fibers |-> <<>>]
      /\ returned = [f \in Fibers |-> {}]
      /\ native = {} /\ gone = {}
      /\ runs = [t \in Tasks |-> 0]
      /\ awaits = [t \in Tasks |-> 0]
  BY DEF Init, SchedInit
<1>3. Types
  <2>1. operations \in [Tasks -> Seq(Fibers)] /\ stack \in [Fibers -> Seq(Tasks)]
    BY <1>2, EmptyList
  <2> QED
    BY <1>1, <1>2, <2>1 DEF Types
<1>4. Fibered
  <2>1. Active = {Root}
    BY <1>2, EmptyList DEF Active
  <2> QED
    BY <1>2, <2>1 DEF Fibered, Living
<1>5. ASSUME NEW S, \A f \in Fibers : S[f] = {} PROVE Pairs(S) = {}
  <2>1. SUFFICES ASSUME NEW f \in Fibers, NEW p \in {f} \X S[f] PROVE FALSE
    BY Zenon DEF Pairs
  <2> QED
    BY <1>5, <2>1
<1>6. \A f \in Fibers : stack[f] = <<>> /\ DOMAIN stack[f] = {}
  BY <1>2
<1>7. Calling = {} /\ \A t : Inlined(t) = {}
  <2>1. \A f \in Fibers : Foreground[f] = {}
    BY <1>6 DEF Foreground
  <2>2. \A t : \A f \in Fibers : At(t)[f] = {}
    BY <1>6 DEF At
  <2> QED
    BY <1>5, <2>1, <2>2, PairsAre
<1>8. IsFiniteSet({}) /\ Cardinality({}) = 0
  BY FS_EmptySet
<1>9. Executed
  <2>1. ASSUME NEW t \in Tasks
        PROVE  /\ t \notin native /\ runs[t] = 0 /\ awaits[t] = 0 /\ runs[t] <= awaits[t]
               /\ Inlined(t) = {} /\ IsFiniteSet(Inlined(t))
               /\ Cardinality(Inlined(t)) <= awaits[t]
    <3>1. t \notin native /\ runs[t] = 0 /\ awaits[t] = 0 /\ 0 <= 0
      BY <1>2
    <3>2. Inlined(t) = {}
      BY <1>7, Zenon
    <3>3. IsFiniteSet(Inlined(t)) /\ Cardinality(Inlined(t)) = 0
      BY <1>8, <3>2, Zenon
    <3> QED
      BY <3>1, <3>2, <3>3, Zenon
  <2> QED
    BY <2>1 DEF Executed
<1>10. Listed /\ Registered /\ Over /\ Outcomes
  BY <1>2 DEF Listed, Registered, Over, Outcomes, Leaving, Fibers
<1>11. Passing
  <2>1. \A f \in Fibers : returned[f] = {} /\ pc[f] = "run"
    BY <1>2
  <2> QED
    BY <2>1 DEF Passing
<1>12. Balanced
  <2>1. Suspended = {}
    BY <1>2 DEF Suspended
  <2> QED
    BY <1>2, <1>7, <1>8, <2>1 DEF Balanced, BusyBalanced
<1> QED
  BY <1>3, <1>4, <1>9, <1>10, <1>11, <1>12 DEF IInv

\* It stays when nothing changes.
LEMMA StutterStep ==
  ASSUME IInv, UNCHANGED vars
  PROVE  IInv'
<1>1. UNCHANGED <<cur, fibers, ready, status, pc, op, defer, busy, operations, target,
                  stack, returned, native, gone, runs, awaits>>
  BY DEF vars, schedVars, taskVars
<1>2. Types' /\ Fibered' /\ Executed'
  <2>1. Types' /\ Fibered'
    BY <1>1 DEF IInv, Types, FiberLists, Fibered, Active, Living
  <2>2. Executed'
    BY <1>1, ExecutedStays, Before DEF IInv
  <2> QED
    BY <2>1, <2>2
<1>3. Listed' /\ Registered' /\ Over' /\ Outcomes'
  BY <1>1 DEF IInv, Listed, Registered, Over, Outcomes, Living, Done, Settled, OutcomeOf
<1>4. Balanced' /\ Passing'
  BY <1>1, BalancedStays, PassingStays DEF IInv
<1> QED
  BY <1>2, <1>3, <1>4 DEF IInv

\* The invariant holds in every reachable state.
THEOREM Invariant == Spec => []IInv
<1>1. Init => IInv
  BY InitIInv
<1>2. IInv /\ [Next]_vars => IInv'
  <2>1. SUFFICES ASSUME IInv, [Next]_vars PROVE IInv'
    OBVIOUS
  <2> HIDE DEF IInv
  <2>2. CASE \E f \in Fibers, t \in Tasks : \/ AwaitInlines(f, t)
                                            \/ InlineReturnsTask(f, t)
                                            \/ AwaitSettled(f, t)
                                            \/ AwaitSuspends(f, t)
    BY <2>1, <2>2, AwaitInlinesStep, InlineReturnsTaskStep, AwaitSettledStep, AwaitSuspendsStep
  <2>3. CASE \E f \in Fibers : \/ ChainInlines(f) \/ ChainSettled(f)
                               \/ ChainSuspends(f) \/ ChainReturns(f)
                               \/ AwaitReturns(f)
                               \/ awaitTimeout(f) \/ trigger_timer(f) \/ TimeoutReturns(f)
    BY <2>1, <2>3, ChainInlinesStep, ChainSettledStep, ChainSuspendsStep, ChainReturnsStep,
       AwaitReturnsStep, awaitTimeoutStep, trigger_timerStep, TimeoutReturnsStep
  <2>4. CASE \E f \in Fibers, o \in {"FINISHED", "FAILED"} : InlineReturns(f, o)
    BY <2>1, <2>4, InlineReturnsStep
  <2>5. CASE \E t \in Tasks, o \in {"FINISHED", "FAILED"} : TaskReturns(t, o)
    BY <2>1, <2>5, TaskReturnsStep
  <2>6. CASE \E t \in Tasks : trigger_ops(t)
    BY <2>1, <2>6, trigger_opsStep
  <2>7. CASE DispatchNew
    BY <2>1, <2>7, DispatchNewStep
  <2>8. CASE /\ \/ stack[Root] = <<>> /\ async_task_scheduler_dispose
                \/ run_scheduler_fiber({f \in Sleeping : Body(f) \notin Background})
                \/ DisposeDrain(Sleeping)
             /\ UNCHANGED taskVars
    BY <2>1, <2>8, SchedulerStep
  <2>9. CASE UNCHANGED vars
    BY <2>1, <2>9, StutterStep
  <2> QED
    BY <2>1, <2>2, <2>3, <2>4, <2>5, <2>6, <2>7, <2>8, <2>9, Zenon DEF Next
<1> QED
  BY <1>1, <1>2, PTL DEF Spec

\* Every variable keeps its type; in particular the busy count does not wrap
\* below zero over any nesting of inline execution.
THEOREM TypesHold == Spec => []TaskTypeOK
<1>1. IInv => TaskTypeOK
  <2>1. SUFFICES ASSUME IInv PROVE TaskTypeOK
    OBVIOUS
  <2>2. busy \in Nat
    BY <2>1, SuspendedFinite, FS_CardinalityType DEF IInv, Balanced, BusyBalanced
  <2> QED
    BY <2>1, <2>2 DEF IInv, Types, FiberLists, TaskTypeOK
<1> QED
  BY <1>1, Invariant, PTL

\* A task that is awaited once is executed in one place (dispatch_tasks and
\* async_task_execute_inline never take the same task).
THEOREM ExecutedInOnePlace == Spec => []OneExecution
<1>1. IInv => OneExecution
  <2>1. SUFFICES ASSUME IInv, NEW t \in Tasks
                 PROVE  /\ Cardinality(Inlined(t)) + (IF t \in Range(ready) THEN 1 ELSE 0)
                             + (IF t \in native THEN 1 ELSE 0)
                               <= IF awaits[t] > 1 THEN awaits[t] ELSE 1
                        /\ t \in native => runs[t] = 1 /\ Inlined(t) = {}
                        /\ runs[t] > 1 => awaits[t] > 1
    BY DEF OneExecution
  <2>2. /\ t \in Range(ready) => t \notin native /\ Inlined(t) = {}
        /\ t \in native => runs[t] = 1 /\ Inlined(t) = {}
        /\ t \notin native => runs[t] <= awaits[t]
        /\ IsFiniteSet(Inlined(t)) /\ Cardinality(Inlined(t)) <= awaits[t]
    BY <2>1 DEF IInv, Executed
  <2>3. /\ Cardinality(Inlined(t)) \in Nat /\ awaits[t] \in Nat /\ runs[t] \in Nat
        /\ Inlined(t) = {} => Cardinality(Inlined(t)) = 0
    BY <2>1, <2>2, FS_CardinalityType, FS_EmptySet DEF IInv, Types
  <2> QED
    BY <2>2, <2>3
<1> QED
  BY <1>1, Invariant, PTL

\* Whoever is suspended in await is listed once with a task that has not left
\* its trigger loop.
THEOREM NoAwaiterLost == Spec => []NoLostAwaiter
<1>1. IInv => NoLostAwaiter
  <2>1. SUFFICES ASSUME IInv, NEW f \in Fibers, pc[f] = "await", op[f] = "RUNNING"
                 PROVE  /\ Cardinality({i \in DOMAIN operations[target[f]] :
                                          operations[target[f]][i] = f}) = 1
                        /\ target[f] \in native /\ pc[target[f]] # "done"
    BY DEF NoLostAwaiter
  <2> DEFINE o == operations[target[f]]
             A == {i \in DOMAIN o : o[i] = f}
  <2>2. /\ target[f] \in native
        /\ \E i \in 1..Len(o) : o[i] = f
        /\ \A i, j \in 1..Len(o) : o[i] = f /\ o[j] = f => i = j
    BY <2>1 DEF IInv, Registered
  <2>3. target[f] \in Tasks /\ o \in Seq(Fibers)
    BY <2>1, <2>2 DEF IInv, Types
  <2>4. DOMAIN o = 1..Len(o)
    BY <2>3, InList
  <2>5. pc[target[f]] # "done"
    <3>1. o # <<>>
      BY <2>2, <2>3, EmptySeq
    <3> QED
      BY <2>1, <2>3, <3>1 DEF IInv, Over
  <2> HIDE DEF o
  <2>6. PICK i \in 1..Len(o) : o[i] = f
    BY <2>2
  <2>7. A = {i}
    BY <2>2, <2>4, <2>6
  <2>8. Cardinality({i}) = 1
    BY FS_Singleton
  <2>9. Cardinality(A) = 1
    BY <2>7, <2>8
  <2> QED
    BY <2>2, <2>5, <2>9 DEF o
<1> QED
  BY <1>1, Invariant, PTL

\* An awaiter takes the outcome of the task that it awaits.
THEOREM OutcomeOfAwaited == Spec => []AwaitedOutcome
<1>1. IInv => AwaitedOutcome
  BY DEF IInv, Outcomes, Over, AwaitedOutcome
<1> QED
  BY <1>1, Invariant, PTL

\* The busy count is the number of foreground bodies that wait in an await, or
\* for the callback of a task executed inline on top of them; bodies below an
\* inlined task that awaits what its callback returned are not in it.
THEOREM BusyCountBalanced == Spec => []BusyBalanced
<1>1. IInv => BusyBalanced
  BY DEF IInv, Balanced
<1> QED
  BY <1>1, Invariant, PTL

=============================================================================
