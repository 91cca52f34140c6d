---------------------------- MODULE QueueCounting ----------------------------
(***************************************************************************)
(* Queues that change at their ends, and how many of their elements are of *)
(* some sort.  The sort is given as the set E of such elements.            *)
(***************************************************************************)
EXTENDS Integers, Sequences, FiniteSetTheorems, TLAPS

LEMMA TakeHead ==
    ASSUME NEW S, NEW s \in Seq(S), s # << >>
    PROVE  /\ Len(s) \in Nat \ {0}
           /\ Head(s) = s[1] /\ Head(s) \in S
           /\ Tail(s) \in Seq(S)
           /\ Len(Tail(s)) = Len(s) - 1
           /\ \A i \in 1..Len(Tail(s)) : i + 1 \in 1..Len(s) /\ Tail(s)[i] = s[i + 1]
OBVIOUS

LEMMA AddLast ==
    ASSUME NEW S, NEW s \in Seq(S), NEW e \in S
    PROVE  /\ Append(s, e) \in Seq(S)
           /\ Len(s) \in Nat
           /\ Len(Append(s, e)) = Len(s) + 1
           /\ \A i \in 1..Len(s) : Append(s, e)[i] = s[i]
           /\ Append(s, e)[Len(s) + 1] = e
OBVIOUS

LEMMA AddAny ==
    ASSUME NEW S, NEW s \in Seq(S), NEW e
    PROVE  /\ Len(s) \in Nat
           /\ Len(Append(s, e)) = Len(s) + 1
           /\ \A i \in 1..Len(s) : i \in 1..Len(Append(s, e)) /\ Append(s, e)[i] = s[i]
           /\ Len(s) + 1 \in 1..Len(Append(s, e)) /\ Append(s, e)[Len(s) + 1] = e
<1>1. s \in Seq(S \cup {e})
  OBVIOUS
<1> QED BY <1>1, AddLast

LEMMA EmptyQueue ==
    ASSUME NEW S
    PROVE  << >> \in Seq(S)
OBVIOUS

LEMMA WiderQueue ==
    ASSUME NEW S, NEW T, S \subseteq T, NEW s \in Seq(S)
    PROVE  s \in Seq(T)
OBVIOUS

-----------------------------------------------------------------------------
(* Counting.                                                                *)

Places(s, E) == {i \in 1..Len(s) : s[i] \in E}

Count(s, E) == Cardinality(Places(s, E))

One(P) == IF P THEN 1 ELSE 0

\* There are only so many places in a queue.
LEMMA CountType ==
    ASSUME NEW S, NEW s \in Seq(S), NEW E
    PROVE  IsFiniteSet(Places(s, E)) /\ Count(s, E) \in Nat
<1>1. IsFiniteSet(1..Len(s))
  BY FS_Interval
<1>2. Places(s, E) \subseteq 1..Len(s)
  BY DEF Places
<1>3. IsFiniteSet(Places(s, E))
  BY <1>1, <1>2, FS_Subset
<1> QED BY <1>3, FS_CardinalityType DEF Count

LEMMA CountNone ==
    ASSUME NEW S, NEW s \in Seq(S), NEW E
    PROVE  Count(s, E) = 0 <=> \A i \in 1..Len(s) : s[i] \notin E
<1>1. IsFiniteSet(Places(s, E))
  BY CountType
<1>2. Count(s, E) = 0 <=> Places(s, E) = {}
  BY <1>1, FS_EmptySet DEF Count
<1> QED BY <1>2 DEF Places

LEMMA CountEmpty ==
    ASSUME NEW E
    PROVE  Count(<< >>, E) = 0
<1>1. Places(<< >>, E) = {}
  BY DEF Places
<1> QED BY <1>1, FS_EmptySet DEF Count

\* Posting an element.
LEMMA CountAppend ==
    ASSUME NEW S, NEW s \in Seq(S), NEW e \in S, NEW E
    PROVE  Count(Append(s, e), E) = Count(s, E) + One(e \in E)
<1> DEFINE n == Len(s) + 1
<1>1. /\ Len(s) \in Nat /\ Len(Append(s, e)) = n
      /\ \A i \in 1..Len(s) : Append(s, e)[i] = s[i]
      /\ Append(s, e)[n] = e
  OBVIOUS
<1>2. IsFiniteSet(Places(s, E)) /\ Count(s, E) \in Nat
  BY CountType
<1>3. n \notin Places(s, E)
  BY <1>1 DEF Places
<1>4. CASE e \in E
  <2>1. Places(Append(s, e), E) = Places(s, E) \cup {n}
    BY <1>1, <1>4 DEF Places
  <2>2. Cardinality(Places(s, E) \cup {n}) = Cardinality(Places(s, E)) + 1
    BY <1>2, <1>3, FS_AddElement
  <2> QED BY <1>4, <2>1, <2>2 DEF Count, One
<1>5. CASE e \notin E
  <2>1. Places(Append(s, e), E) = Places(s, E)
    BY <1>1, <1>5 DEF Places
  <2> QED BY <1>2, <1>5, <2>1 DEF Count, One
<1> QED BY <1>4, <1>5

\* Taking the first element.
LEMMA CountTail ==
    ASSUME NEW S, NEW s \in Seq(S), s # << >>, NEW E
    PROVE  Count(Tail(s), E) = Count(s, E) - One(Head(s) \in E)
<1> DEFINE T == Places(s, E) \ {1}
           f == [i \in Places(Tail(s), E) |-> i + 1]
<1>1. /\ Len(s) \in Nat \ {0} /\ Tail(s) \in Seq(S) /\ Len(Tail(s)) = Len(s) - 1
      /\ \A i \in 1..(Len(s) - 1) : Tail(s)[i] = s[i + 1]
      /\ Head(s) = s[1]
  OBVIOUS
<1>2. IsFiniteSet(Places(s, E)) /\ Count(s, E) \in Nat /\ IsFiniteSet(Places(Tail(s), E))
  BY <1>1, CountType
<1>3. f \in Bijection(Places(Tail(s), E), T)
  <2>1. f \in [Places(Tail(s), E) -> T]
    BY <1>1 DEF Places
  <2>2. \A i, j \in Places(Tail(s), E) : f[i] = f[j] => i = j
    BY DEF Places
  <2>3. \A j \in T : \E i \in Places(Tail(s), E) : f[i] = j
    <3> SUFFICES ASSUME NEW j \in T PROVE j - 1 \in Places(Tail(s), E) /\ f[j - 1] = j
      OBVIOUS
    <3>1. j \in 2..Len(s) /\ s[j] \in E
      BY <1>1 DEF Places
    <3>2. j - 1 \in 1..(Len(s) - 1) /\ j - 1 + 1 = j
      BY <1>1, <3>1
    <3> QED BY <1>1, <3>1, <3>2 DEF Places
  <2> HIDE DEF f, T
  <2> QED BY <2>1, <2>2, <2>3 DEF Bijection, Injection, Surjection, IsInjective
<1>4. Cardinality(T) = Count(Tail(s), E)
  BY <1>2, <1>3, FS_Bijection DEF ExistsBijection, Count
<1> HIDE DEF T, f
<1>5. CASE Head(s) \in E
  <2>1. 1 \in Places(s, E)
    BY <1>1, <1>5 DEF Places
  <2>2. Cardinality(T) = Cardinality(Places(s, E)) - 1
    BY <1>2, <2>1, FS_RemoveElement DEF T
  <2> QED BY <1>4, <1>5, <2>2 DEF Count, One
<1>6. CASE Head(s) \notin E
  <2>1. T = Places(s, E)
    BY <1>1, <1>6 DEF Places, T
  <2>2. Count(Tail(s), E) = Count(s, E)
    BY <1>4, <2>1 DEF Count
  <2> QED BY <1>2, <1>6, <2>2 DEF One
<1> QED BY <1>5, <1>6

\* Elements of the queue itself need not be told apart from the new one.
LEMMA CountAppendAny ==
    ASSUME NEW S, NEW s \in Seq(S), NEW e, NEW E
    PROVE  Count(Append(s, e), E) = Count(s, E) + One(e \in E)
<1>1. s \in Seq(S \cup {e})
  BY WiderQueue
<1> QED BY <1>1, CountAppend

\* Some of the elements, however they are told.
LEMMA PlacesBound ==
    ASSUME NEW S, NEW s \in Seq(S), NEW T, T \subseteq 1..Len(s)
    PROVE  Cardinality(T) \in Nat /\ Cardinality(T) <= Len(s)
<1>1. Len(s) \in Nat
  OBVIOUS
<1>2. IsFiniteSet(1..Len(s)) /\ Cardinality(1..Len(s)) = Len(s)
  <2>1. CASE Len(s) = 0
    BY <2>1, FS_Interval, FS_EmptySet
  <2>2. CASE Len(s) # 0
    BY <1>1, <2>2, FS_Interval
  <2> QED BY <2>1, <2>2
<1>3. IsFiniteSet(T) /\ Cardinality(T) <= Cardinality(1..Len(s))
  BY <1>2, FS_Subset
<1> QED BY <1>2, <1>3, FS_CardinalityType

LEMMA SomePlace ==
    ASSUME NEW S, NEW s \in Seq(S), NEW T, T \subseteq 1..Len(s), T # {}
    PROVE  Cardinality(T) # 0
<1>1. Len(s) \in Nat
  OBVIOUS
<1>2. IsFiniteSet(1..Len(s))
  BY <1>1, FS_Interval
<1>3. IsFiniteSet(T)
  BY <1>2, FS_Subset
<1> QED BY <1>3, FS_EmptySet

\* Some of the elements counted, however they are told.
LEMMA CountBounds ==
    ASSUME NEW S, NEW s \in Seq(S), NEW E, NEW T, T \subseteq Places(s, E)
    PROVE  Cardinality(T) \in Nat /\ Cardinality(T) <= Count(s, E)
<1>1. IsFiniteSet(Places(s, E))
  BY CountType
<1>2. IsFiniteSet(T) /\ Cardinality(T) <= Cardinality(Places(s, E))
  BY <1>1, FS_Subset
<1> QED BY <1>2, FS_CardinalityType DEF Count
=============================================================================
