------------------------ MODULE AsyncSchedulerProofs ------------------------
(***************************************************************************)
(* Lemmas about the scheduler's operators that the proofs of several       *)
(* components use: what the operations on linked lists do to the set of    *)
(* linked elements and to the absence of double links, and what suspending *)
(* and resuming a fiber does to the fibers that have a place.              *)
(***************************************************************************)
EXTENDS AsyncScheduler, SequenceTheorems, FiniteSetTheorems, TLAPS

-----------------------------------------------------------------------------
(***************************************************************************)
(* Lists.                                                                  *)
(***************************************************************************)

\* The elements of a list are those at its positions.
LEMMA InList ==
  ASSUME NEW S, NEW s \in Seq(S)
  PROVE  /\ Len(s) \in Nat /\ DOMAIN s = 1..Len(s)
         /\ \A e : e \in Range(s) <=> \E i \in 1..Len(s) : s[i] = e
         /\ \A i \in 1..Len(s) : s[i] \in Range(s) /\ s[i] \in S
         /\ IsInjective(s) <=> \A i, j \in 1..Len(s) : s[i] = s[j] => i = j
         /\ Range(s) \subseteq S
         /\ s = <<>> <=> Range(s) = {}
<1>1. Len(s) \in Nat /\ DOMAIN s = 1..Len(s) /\ s \in [1..Len(s) -> S]
  BY LenProperties
<1>2. \A e : e \in Range(s) <=> \E i \in 1..Len(s) : s[i] = e
  BY <1>1, Zenon DEF Range
<1>3. \A i \in 1..Len(s) : s[i] \in Range(s) /\ s[i] \in S
  BY <1>1, <1>2
<1>4. IsInjective(s) <=> \A i, j \in 1..Len(s) : s[i] = s[j] => i = j
  BY <1>1, Zenon DEF IsInjective
<1>5. Range(s) \subseteq S
  BY <1>2, <1>3
<1>6. s = <<>> <=> Range(s) = {}
  <2>1. s = <<>> => Len(s) = 0
    OBVIOUS
  <2>2. s # <<>> => Len(s) > 0
    BY EmptySeq
  <2>3. s = <<>> => Range(s) = {}
    BY <1>2, <2>1
  <2>4. s # <<>> => s[1] \in Range(s)
    BY <1>1, <1>2, <2>2
  <2> QED
    BY <2>3, <2>4
<1> QED
  BY <1>1, <1>2, <1>3, <1>4, <1>5, <1>6

\* The empty list.
LEMMA EmptyList ==
  /\ Range(<<>>) = {} /\ IsInjective(<<>>)
  /\ \A S : <<>> \in Seq(S)
<1>1. <<>> \in Seq({})
  OBVIOUS
<1>2. Range(<<>>) = {}
  BY <1>1, InList
<1>3. IsInjective(<<>>)
  BY <1>1 DEF IsInjective
<1> QED
  BY <1>2, <1>3

\* Linking an element at the end (ASYNC_LIST_APPEND).
LEMMA AppendList ==
  ASSUME NEW S, NEW s \in Seq(S), NEW e \in S
  PROVE  /\ Append(s, e) \in Seq(S)
         /\ Range(Append(s, e)) = Range(s) \cup {e}
         /\ IsInjective(s) /\ e \notin Range(s) => IsInjective(Append(s, e))
<1> DEFINE a == Append(s, e)
<1>1. /\ a \in Seq(S) /\ Len(a) = Len(s) + 1
      /\ \A i \in 1..Len(s) : a[i] = s[i]
      /\ a[Len(s) + 1] = e
  BY AppendProperties
<1> HIDE DEF a
<1>2. Len(s) \in Nat
  BY InList
<1>3. ASSUME NEW x PROVE x \in Range(a) <=> x \in Range(s) \/ x = e
  <2>1. /\ x \in Range(a) <=> \E i \in 1..Len(a) : a[i] = x
        /\ x \in Range(s) <=> \E i \in 1..Len(s) : s[i] = x
    BY <1>1, InList
  <2> QED
    BY <1>1, <1>2, <2>1
<1>4. Range(a) = Range(s) \cup {e}
  BY <1>3
<1>5. ASSUME IsInjective(s), e \notin Range(s) PROVE IsInjective(a)
  <2>1. /\ \A i, j \in 1..Len(s) : s[i] = s[j] => i = j
        /\ \A i \in 1..Len(s) : s[i] # e
    BY <1>5, InList
  <2>2. \A i, j \in 1..Len(a) : a[i] = a[j] => i = j
    BY <1>1, <1>2, <2>1
  <2> QED
    BY <1>1, <2>2, InList
<1> QED
  BY <1>1, <1>4, <1>5 DEF a

\* Linking a list behind another.
LEMMA ConcatList ==
  ASSUME NEW S, NEW s \in Seq(S), NEW t \in Seq(S)
  PROVE  /\ s \o t \in Seq(S)
         /\ Range(s \o t) = Range(s) \cup Range(t)
         /\ IsInjective(s) /\ IsInjective(t) /\ Range(s) \cap Range(t) = {}
              => IsInjective(s \o t)
<1> DEFINE a == s \o t
<1>1. /\ a \in Seq(S) /\ Len(a) = Len(s) + Len(t)
      /\ \A i \in 1..Len(s) + Len(t) :
           a[i] = IF i <= Len(s) THEN s[i] ELSE t[i - Len(s)]
  BY ConcatProperties
<1> HIDE DEF a
<1>2. Len(s) \in Nat /\ Len(t) \in Nat
  BY InList
<1>3. Range(s \o t) = Range(s) \cup Range(t)
  BY RangeConcatenation
<1>4. ASSUME IsInjective(s), IsInjective(t), Range(s) \cap Range(t) = {}
      PROVE  IsInjective(a)
  <2>1. /\ \A i, j \in 1..Len(s) : s[i] = s[j] => i = j
        /\ \A i, j \in 1..Len(t) : t[i] = t[j] => i = j
        /\ \A i \in 1..Len(s), j \in 1..Len(t) : s[i] # t[j]
    BY <1>4, InList
  <2>2. ASSUME NEW i \in 1..Len(a), NEW j \in 1..Len(a), a[i] = a[j]
        PROVE  i = j
    <3>1. CASE i <= Len(s) /\ j <= Len(s)
      BY <1>1, <1>2, <2>1, <2>2, <3>1
    <3>2. CASE i > Len(s) /\ j > Len(s)
      <4>1. /\ i - Len(s) \in 1..Len(t) /\ j - Len(s) \in 1..Len(t)
            /\ t[i - Len(s)] = t[j - Len(s)]
        BY <1>1, <1>2, <2>2, <3>2
      <4> QED
        BY <1>1, <1>2, <2>1, <4>1
    <3>3. CASE i <= Len(s) /\ j > Len(s)
      <4>1. /\ i \in 1..Len(s) /\ j - Len(s) \in 1..Len(t)
            /\ s[i] = t[j - Len(s)]
        BY <1>1, <1>2, <2>2, <3>3
      <4> QED
        BY <2>1, <4>1
    <3>4. CASE i > Len(s) /\ j <= Len(s)
      <4>1. /\ j \in 1..Len(s) /\ i - Len(s) \in 1..Len(t)
            /\ s[j] = t[i - Len(s)]
        BY <1>1, <1>2, <2>2, <3>4
      <4> QED
        BY <2>1, <4>1
    <3> QED
      BY <1>1, <1>2, <3>1, <3>2, <3>3, <3>4
  <2> QED
    BY <1>1, <2>2, InList
<1> QED
  BY <1>1, <1>3, <1>4 DEF a

\* Linking an element at the front (ASYNC_LIST_PREPEND).
LEMMA PrependList ==
  ASSUME NEW S, NEW s \in Seq(S), NEW e \in S
  PROVE  /\ <<e>> \o s \in Seq(S)
         /\ Range(<<e>> \o s) = Range(s) \cup {e}
         /\ IsInjective(s) /\ e \notin Range(s) => IsInjective(<<e>> \o s)
<1> DEFINE o == <<e>>
<1>1. o \in Seq(S) /\ Len(o) = 1 /\ o[1] = e
  OBVIOUS
<1> HIDE DEF o
<1>2. Range(o) = {e} /\ IsInjective(o)
  BY <1>1, InList
<1>3. /\ o \o s \in Seq(S)
      /\ Range(o \o s) = Range(s) \cup {e}
      /\ IsInjective(s) /\ e \notin Range(s) => IsInjective(o \o s)
  BY <1>1, <1>2, ConcatList
<1> QED
  BY <1>3 DEF o

\* The positions in a list after that.
LEMMA PrependAt ==
  ASSUME NEW S, NEW s \in Seq(S), NEW e \in S
  PROVE  /\ Len(s) \in Nat /\ Len(<<e>> \o s) = 1 + Len(s)
         /\ (<<e>> \o s)[1] = e
         /\ \A i \in 2..(1 + Len(s)) : (<<e>> \o s)[i] = s[i - 1]
<1> DEFINE o == <<e>>
           a == o \o s
<1>1. o \in Seq(S) /\ Len(o) = 1 /\ o[1] = e
  OBVIOUS
<1> HIDE DEF o
<1>2. /\ Len(a) = Len(o) + Len(s)
      /\ \A i \in 1..Len(o) + Len(s) :
           a[i] = IF i <= Len(o) THEN o[i] ELSE s[i - Len(o)]
  BY <1>1, ConcatProperties
<1>3. Len(s) \in Nat
  BY LenProperties
<1> HIDE DEF a
<1>4. /\ Len(a) = 1 + Len(s)
      /\ \A i \in 1..1 + Len(s) : a[i] = IF i <= 1 THEN o[i] ELSE s[i - 1]
  BY <1>1, <1>2, Zenon
<1>5. a[1] = e
  BY <1>1, <1>3, <1>4
<1>6. \A i \in 2..(1 + Len(s)) : a[i] = s[i - 1]
  BY <1>3, <1>4
<1> QED
  BY <1>3, <1>4, <1>5, <1>6 DEF a, o

\* Taking the first element (ASYNC_LIST_EXTRACT_FIRST).
LEMMA TailList ==
  ASSUME NEW S, NEW s \in Seq(S), s # <<>>
  PROVE  /\ Tail(s) \in Seq(S) /\ Head(s) \in S
         /\ Head(s) \in Range(s)
         /\ Range(s) = Range(Tail(s)) \cup {Head(s)}
         /\ IsInjective(s)
              => IsInjective(Tail(s)) /\ Head(s) \notin Range(Tail(s))
<1> DEFINE t == Tail(s)
<1>1. /\ t \in Seq(S) /\ Len(t) = Len(s) - 1
      /\ \A i \in 1..Len(t) : t[i] = s[i + 1]
      /\ Head(s) \in S
  BY HeadTailProperties
<1> HIDE DEF t
<1>2. Head(s) = s[1] /\ Len(s) \in Nat /\ Len(s) > 0
  BY InList, EmptySeq
<1>3. ASSUME NEW x PROVE x \in Range(s) <=> x \in Range(t) \/ x = Head(s)
  <2>1. /\ x \in Range(t) <=> \E i \in 1..Len(t) : t[i] = x
        /\ x \in Range(s) <=> \E i \in 1..Len(s) : s[i] = x
    BY <1>1, InList
  <2>2. ASSUME NEW i \in 1..Len(s), s[i] = x, i # 1
        PROVE  x \in Range(t)
    <3>1. i - 1 \in 1..Len(t) /\ t[i - 1] = s[i]
      BY <1>1, <1>2, <2>2
    <3> QED
      BY <2>1, <2>2, <3>1
  <2> QED
    BY <1>1, <1>2, <2>1, <2>2
<1>4. Range(s) = Range(t) \cup {Head(s)}
  BY <1>3
<1>5. ASSUME IsInjective(s) PROVE IsInjective(t) /\ Head(s) \notin Range(t)
  <2>1. \A i, j \in 1..Len(s) : s[i] = s[j] => i = j
    BY <1>5, InList
  <2>2. \A i, j \in 1..Len(t) : t[i] = t[j] => i = j
    BY <1>1, <1>2, <2>1
  <2>3. \A i \in 1..Len(t) : t[i] # Head(s)
    BY <1>1, <1>2, <2>1
  <2> QED
    BY <1>1, <2>2, <2>3, InList
<1> QED
  BY <1>1, <1>4, <1>5 DEF t

\* Unlinking a linked element: what the list holds afterwards.
LEMMA Unlink ==
  ASSUME NEW S, NEW s \in Seq(S), NEW e \in Range(s)
  PROVE  \E i \in 1..Len(s) :
           /\ s[i] = e
           /\ ASYNC_LIST_REMOVE(s, e) \in Seq(S)
           /\ Len(ASYNC_LIST_REMOVE(s, e)) = Len(s) - 1
           /\ \A k \in 1..(Len(s) - 1) :
                ASYNC_LIST_REMOVE(s, e)[k] = IF k < i THEN s[k] ELSE s[k + 1]
<1> DEFINE i == CHOOSE j \in DOMAIN s : s[j] = e
<1>1. DOMAIN s = 1..Len(s) /\ Len(s) \in Nat
  BY LenProperties
<1>2. i \in 1..Len(s) /\ s[i] = e
  BY <1>1, Zenon DEF Range
<1>3. ASYNC_LIST_REMOVE(s, e) = RemoveAt(s, i)
  BY Zenon DEF ASYNC_LIST_REMOVE
<1> HIDE DEF i
<1> DEFINE a == SubSeq(s, 1, i - 1)
           b == SubSeq(s, i + 1, Len(s))
<1>4. \A k \in 1..Len(s) : s[k] \in S
  BY LenProperties
<1>5. /\ a \in Seq(S) /\ Len(a) = i - 1
      /\ \A k \in 1..(i - 1) : a[k] = s[k]
  <2>1. /\ a \in Seq(S) /\ Len(a) = IF 1 <= i - 1 THEN i - 1 - 1 + 1 ELSE 0
        /\ \A k \in 1..(i - 1) - 1 + 1 : a[k] = s[1 + k - 1]
    BY <1>1, <1>2, <1>4, SubSeqProperties
  <2> QED
    BY <1>1, <1>2, <2>1
<1>6. /\ b \in Seq(S) /\ Len(b) = Len(s) - i
      /\ \A k \in 1..(Len(s) - i) : b[k] = s[i + k]
  <2>1. /\ b \in Seq(S)
        /\ Len(b) = IF i + 1 <= Len(s) THEN Len(s) - (i + 1) + 1 ELSE 0
        /\ \A k \in 1..Len(s) - (i + 1) + 1 : b[k] = s[(i + 1) + k - 1]
    BY <1>1, <1>2, <1>4, SubSeqProperties
  <2> HIDE DEF b
  <2>2. ASSUME NEW k \in 1..(Len(s) - i) PROVE b[k] = s[i + k]
    <3>1. k \in 1..Len(s) - (i + 1) + 1 /\ (i + 1) + k - 1 = i + k
      BY <1>1, <1>2
    <3> QED
      BY <2>1, <3>1
  <2>3. b \in Seq(S) /\ Len(b) = Len(s) - i
    <3>1. Len(b) = IF i + 1 <= Len(s) THEN Len(s) - (i + 1) + 1 ELSE 0
      BY <2>1, Zenon
    <3>2. \A n \in Nat : \A j \in 1..n :
            (IF j + 1 <= n THEN n - (j + 1) + 1 ELSE 0) = n - j
      OBVIOUS
    <3>3. Len(b) = Len(s) - i
      BY <1>1, <1>2, <3>1, <3>2, Zenon
    <3> QED
      BY <2>1, <3>3, Zenon
  <2> QED
    BY <2>2, <2>3, Zenon
<1>7. RemoveAt(s, i) = a \o b
  BY DEF RemoveAt
<1> HIDE DEF a, b
<1>8. /\ a \o b \in Seq(S) /\ Len(a \o b) = Len(a) + Len(b)
      /\ \A k \in 1..Len(a) + Len(b) :
           (a \o b)[k] = IF k <= Len(a) THEN a[k] ELSE b[k - Len(a)]
  BY <1>5, <1>6, ConcatProperties
<1>9. ASSUME NEW k \in 1..(Len(s) - 1)
      PROVE  (a \o b)[k] = IF k < i THEN s[k] ELSE s[k + 1]
  <2>1. CASE k < i
    BY <1>1, <1>2, <1>5, <1>6, <1>8, <2>1
  <2>2. CASE k >= i
    <3>1. (a \o b)[k] = b[k - (i - 1)]
      BY <1>1, <1>2, <1>5, <1>6, <1>8, <2>2
    <3>2. b[k - (i - 1)] = s[i + (k - (i - 1))]
      BY <1>1, <1>2, <1>6, <2>2
    <3> QED
      BY <1>1, <1>2, <2>2, <3>1, <3>2
  <2>3. k < i \/ k >= i
    BY <1>1, <1>2
  <2> QED
    BY <2>1, <2>2, <2>3, Zenon
<1>10. /\ ASYNC_LIST_REMOVE(s, e) \in Seq(S)
       /\ Len(ASYNC_LIST_REMOVE(s, e)) = Len(s) - 1
  BY <1>1, <1>2, <1>3, <1>5, <1>6, <1>7, <1>8
<1> QED
  BY <1>2, <1>3, <1>7, <1>9, <1>10, Zenon

\* Unlinking an element from a list that links no element twice.
LEMMA RemoveList ==
  ASSUME NEW S, NEW s \in Seq(S), NEW e
  PROVE  /\ ASYNC_LIST_REMOVE(s, e) \in Seq(S)
         /\ Range(ASYNC_LIST_REMOVE(s, e)) \subseteq Range(s)
         /\ e \notin Range(s) => ASYNC_LIST_REMOVE(s, e) = s
         /\ s = <<>> => ASYNC_LIST_REMOVE(s, e) = <<>>
         /\ IsInjective(s) =>
              /\ IsInjective(ASYNC_LIST_REMOVE(s, e))
              /\ Range(ASYNC_LIST_REMOVE(s, e)) = Range(s) \ {e}
              /\ s # <<>> /\ e = Head(s) => ASYNC_LIST_REMOVE(s, e) = Tail(s)
<1>1. CASE e \notin Range(s)
  <2>1. ASYNC_LIST_REMOVE(s, e) = s
    BY <1>1 DEF ASYNC_LIST_REMOVE
  <2>2. s # <<>> => e # Head(s)
    BY <1>1, TailList
  <2> QED
    BY <1>1, <2>1, <2>2
<1>2. CASE e \in Range(s)
  <2> DEFINE r == ASYNC_LIST_REMOVE(s, e)
  <2>1. PICK i \in 1..Len(s) :
          /\ s[i] = e
          /\ r \in Seq(S)
          /\ Len(r) = Len(s) - 1
          /\ \A k \in 1..(Len(s) - 1) :
               r[k] = IF k < i THEN s[k] ELSE s[k + 1]
    BY <1>2, Unlink
  <2> HIDE DEF r
  <2>2. Len(s) \in Nat
    BY InList
  <2>3. ASSUME NEW x \in Range(r)
        PROVE  \E j \in 1..Len(s) : j # i /\ s[j] = x
    <3>1. PICK k \in 1..Len(r) : r[k] = x
      BY <2>1, InList
    <3> QED
      BY <2>1, <2>2, <3>1
  <2>4. ASSUME NEW j \in 1..Len(s), j # i
        PROVE  s[j] \in Range(r)
    <3>1. CASE j < i
      <4>1. j \in 1..Len(r) /\ r[j] = s[j]
        BY <2>1, <2>2, <3>1
      <4> QED
        BY <2>1, <4>1, InList
    <3>2. CASE j > i
      <4>1. j - 1 \in 1..Len(r) /\ r[j - 1] = s[j]
        BY <2>1, <2>2, <3>2
      <4> QED
        BY <2>1, <4>1, InList
    <3> QED
      BY <2>4, <2>2, <3>1, <3>2
  <2>5. Range(r) \subseteq Range(s)
    BY <2>3, InList
  <2>6. s # <<>>
    BY <1>2, InList
  <2>7. ASSUME IsInjective(s)
        PROVE  /\ IsInjective(r)
               /\ Range(r) = Range(s) \ {e}
               /\ e = Head(s) => r = Tail(s)
    <3>1. \A j, k \in 1..Len(s) : s[j] = s[k] => j = k
      BY <2>7, InList
    <3>2. ASSUME NEW j \in 1..Len(r), NEW k \in 1..Len(r), r[j] = r[k]
          PROVE  j = k
      BY <2>1, <2>2, <3>1, <3>2
    <3>3. IsInjective(r)
      BY <2>1, <3>2, InList
    <3>4. Range(r) = Range(s) \ {e}
      <4>1. e \notin Range(r)
        BY <2>1, <2>3, <3>1
      <4>2. \A x \in Range(s) : x # e => x \in Range(r)
        BY <2>1, <2>4, InList
      <4> QED
        BY <2>5, <4>1, <4>2
    <3>5. ASSUME e = Head(s) PROVE r = Tail(s)
      <4>1. e = s[1] /\ i = 1
        BY <2>1, <2>2, <2>6, <3>1, <3>5, EmptySeq
      <4>2. /\ Tail(s) \in Seq(S) /\ Len(Tail(s)) = Len(s) - 1
            /\ \A k \in 1..Len(Tail(s)) : Tail(s)[k] = s[k + 1]
        BY <2>6, HeadTailProperties
      <4>3. \A k \in 1..Len(r) : r[k] = Tail(s)[k]
        BY <2>1, <2>2, <4>1, <4>2
      <4> QED
        BY <2>1, <4>2, <4>3, SeqEqual
    <3> QED
      BY <3>3, <3>4, <3>5
  <2> QED
    BY <1>2, <2>1, <2>5, <2>6, <2>7 DEF r
<1> QED
  BY <1>1, <1>2

\* The positions in a list after an element was linked at its end.
LEMMA AppendAt ==
  ASSUME NEW S, NEW l \in Seq(S), NEW e \in S
  PROVE  /\ Len(l) \in Nat /\ Len(Append(l, e)) = Len(l) + 1
         /\ Append(l, e)[Len(l) + 1] = e
         /\ \A i \in 1..Len(l) : Append(l, e)[i] = l[i]
  BY AppendProperties, InList

\* The last element of a list and those in front of it.
LEMMA FrontList ==
  ASSUME NEW S, NEW s \in Seq(S), s # <<>>
  PROVE  /\ Front(s) \in Seq(S) /\ Len(Front(s)) = Len(s) - 1
         /\ Len(s) \in Nat /\ Len(s) > 0
         /\ \A i \in 1..(Len(s) - 1) : Front(s)[i] = s[i]
         /\ Last(s) = s[Len(s)] /\ Last(s) \in S /\ Last(s) \in Range(s)
         /\ Range(s) = Range(Front(s)) \cup {Last(s)}
<1> DEFINE a == Front(s)
<1>1. Len(s) \in Nat /\ Len(s) > 0 /\ \A k \in 1..Len(s) : s[k] \in S
  BY LenProperties, EmptySeq
<1>2. /\ a \in Seq(S) /\ Len(a) = Len(s) - 1
      /\ \A k \in 1..(Len(s) - 1) : a[k] = s[k]
  <2>1. /\ a \in Seq(S)
        /\ Len(a) = IF 1 <= Len(s) - 1 THEN Len(s) - 1 - 1 + 1 ELSE 0
        /\ \A k \in 1..(Len(s) - 1) - 1 + 1 : a[k] = s[1 + k - 1]
    BY <1>1, SubSeqProperties DEF Front
  <2> HIDE DEF a
  <2>2. Len(a) = Len(s) - 1
    <3>1. Len(a) = IF 1 <= Len(s) - 1 THEN Len(s) - 1 - 1 + 1 ELSE 0
      BY <2>1, Zenon
    <3>2. \A n \in Nat : n > 0 =>
            (IF 1 <= n - 1 THEN n - 1 - 1 + 1 ELSE 0) = n - 1
      OBVIOUS
    <3> QED
      BY <1>1, <3>1, <3>2, Zenon
  <2>3. ASSUME NEW k \in 1..(Len(s) - 1) PROVE a[k] = s[k]
    <3>1. k \in 1..(Len(s) - 1) - 1 + 1 /\ 1 + k - 1 = k
      BY <1>1
    <3> QED
      BY <2>1, <3>1
  <2> QED
    BY <2>1, <2>2, <2>3
<1>3. Last(s) = s[Len(s)]
  BY DEF Last
<1> HIDE DEF a
<1>4. Last(s) \in S /\ Last(s) \in Range(s)
  BY <1>1, <1>3, InList
<1>5. ASSUME NEW x PROVE x \in Range(s) <=> x \in Range(a) \/ x = Last(s)
  <2>1. /\ x \in Range(s) <=> \E i \in 1..Len(s) : s[i] = x
        /\ x \in Range(a) <=> \E i \in 1..Len(a) : a[i] = x
    BY <1>2, InList
  <2> QED
    BY <1>1, <1>2, <1>3, <2>1
<1> QED
  BY <1>1, <1>2, <1>3, <1>4, <1>5 DEF a

\* The list m has what is left of l, in the same order.
Left(l, m) ==
  \A a, b \in 1..Len(m) : \E i, j \in 1..Len(l) :
    l[i] = m[a] /\ l[j] = m[b] /\ (i <= j <=> a <= b)

\* Unlinking the first element does that.
LEMMA TailLeft ==
  ASSUME NEW S, NEW l \in Seq(S), l # <<>>
  PROVE  Left(l, Tail(l))
<1> DEFINE m == Tail(l)
<1>1. /\ Len(m) = Len(l) - 1 /\ Len(l) \in Nat
      /\ \A i \in 1..Len(m) : m[i] = l[i + 1]
  BY HeadTailProperties, InList
<1> HIDE DEF m
<1>2. ASSUME NEW a \in 1..Len(m), NEW b \in 1..Len(m)
      PROVE  \E i, j \in 1..Len(l) : l[i] = m[a] /\ l[j] = m[b] /\ (i <= j <=> a <= b)
  <2>1. a + 1 \in 1..Len(l) /\ b + 1 \in 1..Len(l) /\ (a + 1 <= b + 1 <=> a <= b)
    BY <1>1
  <2> QED
    BY <1>1, <2>1
<1> QED
  BY <1>2 DEF Left, m

\* So does unlinking any other.
LEMMA RemoveLeft ==
  ASSUME NEW S, NEW l \in Seq(S), NEW f
  PROVE  Left(l, ASYNC_LIST_REMOVE(l, f))
<1> DEFINE m == ASYNC_LIST_REMOVE(l, f)
<1>0. Len(l) \in Nat
  BY InList
<1>1. CASE f \notin Range(l)
  <2>1. m = l
    BY <1>1 DEF ASYNC_LIST_REMOVE
  <2> QED
    BY <2>1 DEF Left
<1>2. CASE f \in Range(l)
  <2>1. PICK n \in 1..Len(l) :
          /\ Len(m) = Len(l) - 1
          /\ \A k \in 1..(Len(l) - 1) : m[k] = IF k < n THEN l[k] ELSE l[k + 1]
    BY <1>2, Unlink
  <2> HIDE DEF m
  <2>2. ASSUME NEW a \in 1..Len(m), NEW b \in 1..Len(m)
        PROVE  \E i, j \in 1..Len(l) : l[i] = m[a] /\ l[j] = m[b] /\ (i <= j <=> a <= b)
    <3> DEFINE p(k) == IF k < n THEN k ELSE k + 1
    <3>1. \A k \in 1..Len(m) : p(k) \in 1..Len(l) /\ m[k] = l[p(k)]
      BY <1>0, <2>1
    <3>2. p(a) <= p(b) <=> a <= b
      BY <1>0, <2>1
    <3> HIDE DEF p
    <3> QED
      BY <3>1, <3>2
  <2> QED
    BY <2>2 DEF Left, m
<1> QED
  BY <1>1, <1>2

\* A list that links no element twice has as many elements as positions.
LEMMA ListCardinality ==
  ASSUME NEW S, NEW s \in Seq(S), IsInjective(s)
  PROVE  IsFiniteSet(Range(s)) /\ Cardinality(Range(s)) = Len(s)
<1>1. DOMAIN s = 1..Len(s) /\ Len(s) \in Nat
  BY LenProperties
<1>2. s \in [1..Len(s) -> Range(s)]
  BY SeqOfRange, LenProperties
<1>3. s \in Surjection(1..Len(s), Range(s))
  BY <1>2, InList DEF Surjection
<1>4. s \in Injection(1..Len(s), Range(s))
  BY <1>1, <1>2 DEF Injection, IsInjective
<1>5. s \in Bijection(1..Len(s), Range(s))
  BY <1>3, <1>4 DEF Bijection
<1>6. IsFiniteSet(1..Len(s)) /\ Cardinality(1..Len(s)) = Len(s)
  BY <1>1, FS_Interval
<1> QED
  BY <1>5, <1>6, FS_Bijection DEF ExistsBijection

-----------------------------------------------------------------------------
(***************************************************************************)
(* Fibers.                                                                 *)
(***************************************************************************)

\* The types that fiber switching and completion preserve.
FiberLists ==
  /\ cur \in Fibers \cup {Runner}
  /\ fibers \in Seq(Fibers \cup {Runner})
  /\ ready \in Seq(Fibers)
  /\ status \in [Fibers -> TaskStatus]
  /\ op \in [Fibers -> OpStatus]

\* async_fiber_suspend resumes a fiber and keeps the list of interrupted ones.
LEMMA SuspendType ==
  ASSUME FiberLists, async_fiber_suspend
  PROVE  /\ cur' \in Fibers \cup {Runner}
         /\ fibers' \in Seq(Fibers \cup {Runner})
  BY HeadTailProperties DEF FiberLists, async_fiber_suspend

\* So does async_fiber_switch.
LEMMA SwitchType ==
  ASSUME FiberLists, NEW f \in Fibers, async_fiber_switch(f)
  PROVE  /\ cur' \in Fibers \cup {Runner}
         /\ fibers' \in Seq(Fibers \cup {Runner})
  BY DEF FiberLists, async_fiber_switch

\* Completing the operation of a fiber keeps the scheduler's lists, whether
\* the fiber is resumed at once or deferred to the ready list.
LEMMA RescheduleType ==
  ASSUME FiberLists, NEW f \in Fibers, NEW o \in OpStatus,
         reschedule_task(f, o)
  PROVE  FiberLists'
<1>1. op' \in [Fibers -> OpStatus]
  BY DEF FiberLists, reschedule_task
<1>2. CASE f \in defer
  BY <1>1, <1>2 DEF FiberLists, reschedule_task
<1>3. CASE f \notin defer
  <2>1. /\ cur' \in Fibers \cup {Runner}
        /\ fibers' \in Seq(Fibers \cup {Runner})
    BY <1>3, SwitchType DEF reschedule_task
  <2>2. ready' \in Seq(Fibers) /\ status' \in [Fibers -> TaskStatus]
    BY <1>3 DEF FiberLists, reschedule_task, TaskStatus
  <2> QED
    BY <1>1, <2>1, <2>2 DEF FiberLists
<1> QED
  BY <1>2, <1>3

\* The bounded counters and the flags.
Bookkeeping ==
  /\ defer \subseteq Fibers
  /\ triggered \in BOOLEAN
  /\ disposed \in BOOLEAN
  /\ calls \in [Fibers -> Nat]
  /\ \A f \in Fibers : calls[f] <= MaxCalls[f]

\* A library call stays within the caller's bound.
LEMMA CallBound ==
  ASSUME Bookkeeping, NEW f, MayCall(f), Call(f)
  PROVE  /\ f \in Fibers /\ cur = f /\ pc[f] = "run"
         /\ calls' \in [Fibers -> Nat]
         /\ \A g \in Fibers : calls'[g] <= MaxCalls[g]
<1>1. f \in Fibers /\ cur = f /\ pc[f] = "run" /\ calls[f] < MaxCalls[f]
  BY DEF MayCall
<1>2. calls[f] + 1 \in Nat /\ calls[f] + 1 <= MaxCalls[f]
  BY <1>1, SchedulerAssumption DEF Bookkeeping
<1> QED
  BY <1>1, <1>2 DEF Bookkeeping, Call

\* One that leaves the flags alone.
LEMMA CallFlags ==
  ASSUME Bookkeeping, NEW f, MayCall(f), Call(f),
         UNCHANGED <<defer, triggered, disposed>>
  PROVE  f \in Fibers /\ pc[f] = "run" /\ Bookkeeping'
  BY CallBound DEF Bookkeeping

\* The lists and the flags before the tasks run.
LEMMA SchedStart ==
  ASSUME SchedInit
  PROVE  /\ FiberLists /\ Bookkeeping
         /\ busy \in Nat /\ callbacks \in Seq(Fibers)
         /\ ready \in Seq(Tasks) /\ IsInjective(ready)
<1>1. /\ cur = Root /\ fibers = <<>> /\ op = [f \in Fibers |-> "PENDING"]
      /\ status = [f \in Fibers |-> IF f = Root THEN "SUSPENDED" ELSE "INIT"]
      /\ defer = {} /\ busy = 0 /\ callbacks = <<>> /\ triggered = FALSE
      /\ disposed = FALSE /\ calls = [f \in Fibers |-> 0]
      /\ ready \in [1..Cardinality(Tasks) -> Tasks] /\ IsInjective(ready)
  BY DEF SchedInit
<1>2. Root \in Fibers /\ Tasks \subseteq Fibers
  BY DEF Fibers
<1>3. Cardinality(Tasks) \in Nat
  BY SchedulerAssumption, FS_CardinalityType
<1>4. ready \in Seq(Tasks)
  BY <1>1, <1>3, SeqDef
<1>5. ready \in Seq(Fibers)
  <2>1. ready \in [1..Cardinality(Tasks) -> Fibers]
    BY <1>1, <1>2
  <2> QED
    BY <1>3, <2>1, SeqDef
<1>6. FiberLists
  BY <1>1, <1>2, <1>5 DEF FiberLists, TaskStatus, OpStatus
<1>7. \A f \in Fibers : calls[f] = 0 /\ MaxCalls[f] \in Nat
  BY <1>1, SchedulerAssumption
<1>8. Bookkeeping
  <2>1. calls \in [Fibers -> Nat] /\ \A f \in Fibers : calls[f] <= MaxCalls[f]
    BY <1>1, <1>7
  <2>2. defer \subseteq Fibers /\ triggered \in BOOLEAN /\ disposed \in BOOLEAN
    BY <1>1, Zenon
  <2> QED
    BY <2>1, <2>2 DEF Bookkeeping
<1> QED
  BY <1>1, <1>4, <1>6, <1>8

\* The fibers the busy count counts.
Waiting == {f \in Fibers \ Background : pc[f] \in Awaiting}

\* Their number is a natural number.
LEMMA WaitingFinite ==
  /\ IsFiniteSet(Waiting) /\ Cardinality(Waiting) \in Nat
  /\ Cardinality(Waiting)' \in Nat
<1>1. IsFiniteSet(Fibers)
  BY SchedulerAssumption, FS_AddElement DEF Fibers
<1>2. Waiting \in SUBSET Fibers /\ Waiting' \in SUBSET Fibers
  BY DEF Waiting
<1>3. IsFiniteSet(Waiting) /\ IsFiniteSet(Waiting')
  BY <1>1, <1>2, FS_Subset
<1> QED
  BY <1>3, FS_CardinalityType

\* A step after which the same fibers are inside a blocking call leaves the
\* busy count exact.
LEMMA BusyStays ==
  ASSUME BusyExact, UNCHANGED busy,
         \A f \in Fibers \ Background : pc'[f] \in Awaiting <=> pc[f] \in Awaiting
  PROVE  BusyExact'
<1>1. Waiting' = Waiting
  BY DEF Waiting
<1> QED
  BY <1>1 DEF BusyExact, Waiting

\* Entering a blocking call counts the caller, unless it is in a background
\* context.
LEMMA BusyUp ==
  ASSUME BusyExact, NEW P, pc \in [Fibers \cup {Runner} -> P],
         NEW f \in Fibers, NEW l, pc[f] \notin Awaiting, l \in Awaiting,
         pc' = [pc EXCEPT ![f] = l],
         busy' = IF f \in Background THEN busy ELSE busy + 1
  PROVE  BusyExact'
<1>1. CASE f \in Background
  <2>1. Waiting' = Waiting
    BY <1>1 DEF Waiting
  <2> QED
    BY <1>1, <2>1 DEF BusyExact, Waiting
<1>2. CASE f \notin Background
  <2>1. Waiting' = Waiting \cup {f} /\ f \notin Waiting
    BY <1>2 DEF Waiting
  <2>2. Cardinality(Waiting') = Cardinality(Waiting) + 1
    BY <2>1, WaitingFinite, FS_AddElement
  <2> QED
    BY <1>2, <2>2 DEF BusyExact, Waiting
<1> QED
  BY <1>1, <1>2

\* Leaving one discounts it.
LEMMA BusyDown ==
  ASSUME BusyExact, NEW P, pc \in [Fibers \cup {Runner} -> P],
         NEW f \in Fibers, NEW l, pc[f] \in Awaiting, l \notin Awaiting,
         pc' = [pc EXCEPT ![f] = l],
         busy' = IF f \in Background THEN busy ELSE busy - 1
  PROVE  BusyExact'
<1>1. CASE f \in Background
  <2>1. Waiting' = Waiting
    BY <1>1 DEF Waiting
  <2> QED
    BY <1>1, <2>1 DEF BusyExact, Waiting
<1>2. CASE f \notin Background
  <2>1. Waiting' = Waiting \ {f} /\ f \in Waiting
    BY <1>2 DEF Waiting
  <2>2. Cardinality(Waiting') = Cardinality(Waiting) - 1
    BY <2>1, WaitingFinite, FS_RemoveElement
  <2> QED
    BY <1>2, <2>2 DEF BusyExact, Waiting
<1> QED
  BY <1>1, <1>2

\* The busy count is a natural number.
LEMMA BusyNat ==
  ASSUME BusyExact
  PROVE  busy \in Nat
  BY WaitingFinite DEF BusyExact, Waiting

\* The fibers that run or are interrupted: their native stack is in use.
Active == {cur} \cup Range(fibers)

\* No fiber is in two places of the scheduler, and the loop fiber lies below
\* every other one.
Single ==
  /\ IsInjective(fibers) /\ IsInjective(ready)
  /\ cur \notin Range(fibers)
  /\ Active \cap Range(ready) = {}
  /\ cur = Runner => fibers = <<>>
  /\ \A i \in 1..Len(fibers) : fibers[i] = Runner => i = Len(fibers)

\* A fiber that suspends leaves its place and no other fiber moves to another
\* list: the most recently interrupted one, or the loop, goes on.
LEMMA SuspendPlaces ==
  ASSUME FiberLists, Single, cur \in Fibers, async_fiber_suspend,
         UNCHANGED ready
  PROVE  /\ Single'
         /\ cur \notin Active'
         /\ \A g \in Fibers : g # cur => (g \in Active' <=> g \in Active)
<1>0. /\ Runner \notin Fibers /\ Runner \notin Range(ready)
      /\ cur # Runner
  BY SchedulerAssumption, InList DEF FiberLists
<1>1. CASE fibers = <<>>
  <2>1. cur' = Runner /\ fibers' = <<>>
    BY <1>1 DEF async_fiber_suspend
  <2>2. Active' = {Runner} /\ Active = {cur}
    BY <1>1, <2>1, EmptyList DEF Active
  <2>3. Len(fibers') = 0 /\ IsInjective(fibers') /\ cur' \notin Range(fibers')
    BY <2>1, EmptyList
  <2>4. Single'
    BY <1>0, <2>1, <2>2, <2>3 DEF Single
  <2> QED
    BY <1>0, <2>2, <2>4
<1>2. CASE fibers # <<>>
  <2>1. cur' = Head(fibers) /\ fibers' = Tail(fibers)
    BY <1>2 DEF async_fiber_suspend
  <2>2. /\ Range(fibers) = Range(fibers') \cup {cur'}
        /\ IsInjective(fibers') /\ cur' \notin Range(fibers')
    BY <1>2, <2>1, TailList DEF FiberLists, Single
  <2>3. Active' = Range(fibers) /\ cur \notin Active'
    BY <2>2 DEF Active, Single
  <2>4. /\ Len(fibers) \in Nat /\ Len(fibers) > 0
        /\ Len(fibers') = Len(fibers) - 1
        /\ \A i \in 1..Len(fibers') : fibers'[i] = fibers[i + 1]
        /\ cur' = fibers[1]
    BY <1>2, <2>1, HeadTailProperties, EmptySeq DEF FiberLists
  <2>5. /\ \A i \in 1..Len(fibers') : fibers'[i] = Runner => i = Len(fibers')
        /\ cur' = Runner => Len(fibers') = 0
    BY <2>4 DEF Single
  <2>6. cur' = Runner => fibers' = <<>>
    BY <2>5, SuspendType, EmptySeq
  <2>7. Single'
    BY <2>2, <2>3, <2>5, <2>6 DEF Single, Active
  <2> QED
    BY <2>3, <2>7 DEF Active
<1> QED
  BY <1>1, <1>2

\* A fiber that has no other place is resumed above the current one.
LEMMA SwitchPlaces ==
  ASSUME FiberLists, Single, NEW f \in Fibers, f \notin Active,
         async_fiber_switch(f), ready' \in Seq(Fibers), IsInjective(ready'),
         Range(ready') \subseteq Range(ready) \ {f}
  PROVE  /\ Single'
         /\ cur' = f /\ Active' = Active \cup {f}
<1>1. cur' = f /\ fibers' = <<cur>> \o fibers
  BY DEF async_fiber_switch
<1>2. /\ Range(fibers') = Range(fibers) \cup {cur}
      /\ IsInjective(fibers')
  BY <1>1, PrependList DEF FiberLists, Single
<1>3. Active' = Active \cup {f} /\ cur' \notin Range(fibers')
  BY <1>1, <1>2 DEF Active
<1>4. Active' \cap Range(ready') = {}
  BY <1>3 DEF Single
<1>5. cur' # Runner
  BY <1>1, SchedulerAssumption
<1>6. \A i \in 1..Len(fibers') : fibers'[i] = Runner => i = Len(fibers')
  <2>2. /\ Len(fibers) \in Nat /\ Len(fibers') = 1 + Len(fibers)
        /\ fibers'[1] = cur
        /\ \A i \in 2..(1 + Len(fibers)) : fibers'[i] = fibers[i - 1]
    BY <1>1, PrependAt DEF FiberLists
  <2>3. ASSUME NEW i \in 1..Len(fibers'), fibers'[i] = Runner
        PROVE  i = Len(fibers')
    <3>1. CASE i = 1
      <4>1. cur = Runner
        BY <2>2, <2>3, <3>1
      <4>2. Len(fibers) = 0
        BY <4>1 DEF Single
      <4> QED
        BY <2>2, <3>1, <4>2
    <3>2. CASE i # 1
      <4>1. i - 1 \in 1..Len(fibers) /\ fibers[i - 1] = Runner
        BY <2>2, <2>3, <3>2
      <4>2. i - 1 = Len(fibers)
        BY <4>1 DEF Single
      <4> QED
        BY <2>2, <4>2
    <3> QED
      BY <3>1, <3>2
  <2> QED
    BY <2>3
<1> QED
  BY <1>1, <1>2, <1>3, <1>4, <1>5, <1>6 DEF Single

\* A fiber that has no other place is put on the ready list.
LEMMA EnqueuePlaces ==
  ASSUME FiberLists, Single, NEW f \in Fibers,
         f \notin Active, f \notin Range(ready),
         ready' = Append(ready, f), UNCHANGED <<cur, fibers>>
  PROVE  /\ Single'
         /\ Active' = Active
         /\ Range(ready') = Range(ready) \cup {f}
<1>1. Range(ready') = Range(ready) \cup {f} /\ IsInjective(ready')
  BY AppendList DEF FiberLists, Single
<1> QED
  BY <1>1 DEF Single, Active

=============================================================================
