---------------------------- MODULE ChunksProofs ----------------------------
(***************************************************************************)
(* What divideIntoChunks returns, for every width of int.  The invariant   *)
(* counts the numbers that are left: the chunks so far end, and the next   *)
(* one starts, where that many numbers remain before x_to.  Then, what the *)
(* tasks' results are once they are joined: the points, the sorted array   *)
(* and the primes of the whole range.                                      *)
(***************************************************************************)
EXTENDS TaskMath, SequenceTheorems, FiniteSetTheorems, WellFoundedInduction, TLAPS

-----------------------------------------------------------------------------
(* Arithmetic.                                                              *)

\* Induction for a set of numbers: the least number outside of it has one before.
LEMMA EveryNumber ==
    ASSUME NEW T, 0 \in T, \A n \in Nat : n \in T => n + 1 \in T
    PROVE  Nat \subseteq T
<1> SUFFICES ASSUME Nat \ T # {} PROVE FALSE
  OBVIOUS
<1>1. PICK x \in Nat \ T : \A y \in Nat \ T : <<y, x>> \notin OpToRel(<, Nat)
  BY NatLessThanWellFounded, WFMin, Zenon
<1>2. \A y \in Nat \ T : ~(y < x)
  BY <1>1 DEF OpToRel
<1>3. x # 0 /\ x - 1 \in Nat /\ x - 1 < x /\ (x - 1) + 1 = x
  OBVIOUS
<1>4. x - 1 \in T
  BY <1>2, <1>3
<1> QED BY <1>3, <1>4

LEMMA Division ==
    ASSUME NEW n \in Nat, NEW d \in Nat \ {0}
    PROVE  /\ n \div d \in Nat
           /\ n % d \in 0..(d - 1)
           /\ n = (n \div d) * d + (n % d)
<1>1. n \div d \in Int /\ n \div d >= 0
  OBVIOUS
<1>2. n % d \in 0..(d - 1)
  OBVIOUS
<1>3. n = (n \div d) * d + (n % d)
  OBVIOUS
<1> QED BY <1>1, <1>2, <1>3

LEMMA OneLess ==
    ASSUME NEW m \in Int, NEW d \in Int
    PROVE  (m - 1) * d = m * d - d
OBVIOUS

LEMMA AtLeastOne ==
    ASSUME NEW m \in Nat \ {0}, NEW d \in Nat
    PROVE  m * d >= d
OBVIOUS

LEMMA Monotonic ==
    ASSUME NEW m \in Nat, NEW n \in Nat, NEW d \in Nat, m <= n
    PROVE  m * d <= n * d
OBVIOUS

LEMMA NarrowType ==
    ASSUME ChunksAssumption, NEW n \in Int
    PROVE  Narrow(n) \in Ints
<1> DEFINE m == MaxInt - MinInt + 1
<1>1. m \in Nat \ {0} /\ MinInt \in Int
  BY DEF ChunksAssumption, MinInt
<1>2. \A k \in Int : k % m \in 0..(m - 1)
  BY <1>1
<1>3. (n - MinInt) % m \in 0..(m - 1)
  BY <1>1, <1>2
<1> QED BY <1>1, <1>3 DEF Narrow, Ints, ChunksAssumption, MinInt

LEMMA NarrowFits ==
    ASSUME ChunksAssumption, NEW n \in Ints
    PROVE  Narrow(n) = n
<1> DEFINE m == MaxInt - MinInt + 1
<1>1. m \in Nat \ {0} /\ MinInt \in Int /\ n \in Int
  BY DEF ChunksAssumption, MinInt, Ints
<1>2. n - MinInt \in 0..(m - 1)
  BY DEF ChunksAssumption, MinInt, Ints
<1>3. \A k \in 0..(m - 1) : k % m = k
  BY <1>1
<1>4. (n - MinInt) % m = n - MinInt
  BY <1>2, <1>3
<1> QED BY <1>1, <1>4 DEF Narrow

-----------------------------------------------------------------------------
(* Type correctness.                                                        *)

LEMMA AppendChunk ==
    ASSUME NEW s \in Seq([first : Ints, last : Ints]),
           NEW first \in Ints, NEW last \in Ints
    PROVE  Append(s, Chunk(first, last)) \in Seq([first : Ints, last : Ints])
BY DEF Chunk

LEMMA TypeStep ==
    ASSUME ChunksAssumption, TypeOK, [Next]_vars
    PROVE  TypeOK'
<1>0. Ints \subseteq Int /\ Counts \subseteq Ints /\ Sizes \subseteq Ints
  BY DEF ChunksAssumption, Ints, MinInt
<1>1. CASE UNCHANGED vars
  BY <1>1 DEF vars, args, plan, TypeOK
<1>2. CASE Reject
  BY <1>2 DEF Reject, args, plan, TypeOK
<1>3. CASE TakeWhole
  <2>1. chunks' \in Seq([first : Ints, last : Ints])
    BY <1>3 DEF TakeWhole, Chunk, TypeOK
  <2> QED BY <1>3, <2>1 DEF TakeWhole, args, plan, TypeOK
<1>4. CASE Plan
  <2>1. total \in Nat \ {0} /\ min_chunk_size \in Nat \ {0} /\ max_chunk_count \in Nat \ {0}
    BY <1>0, <1>4 DEF Plan, Usable, total, TypeOK
  <2>2. /\ Narrow(total \div min_chunk_size) \in Ints
        /\ Narrow(total % min_chunk_size) \in Ints
        /\ Narrow(total \div max_chunk_count) \in Ints
        /\ Narrow(total % max_chunk_count) \in Ints
    BY <2>1, Division, NarrowType
  <2>3. max_chunk_count \in Ints /\ min_chunk_size \in Ints
    BY <1>0 DEF TypeOK
  <2>4. /\ pc' \in {"start", "minimal", "even", "done"}
        /\ chunk_count' \in Ints /\ remainder' \in Ints /\ base' \in Ints
    BY <1>4, <2>2, <2>3 DEF Plan
  <2> QED BY <1>4, <2>4 DEF Plan, args, TypeOK
<1>5. CASE Emit
  <2> DEFINE end == Narrow(current + Size - 1)
  <2>1. Size \in Int /\ current \in Int
    BY <1>0 DEF Size, TypeOK
  <2>2. end \in Ints
    BY <2>1, NarrowType
  <2>3. chunks' = Append(chunks, Chunk(current, end)) /\ current' = Narrow(end + 1)
    BY <1>5 DEF Emit
  <2> HIDE DEF end
  <2>4. Narrow(end + 1) \in Ints
    BY <1>0, <2>2, NarrowType
  <2>5. chunks' \in Seq([first : Ints, last : Ints])
    BY <2>2, <2>3, AppendChunk DEF TypeOK
  <2>6. i' \in Nat
    BY <1>5 DEF Emit, TypeOK
  <2> QED BY <1>5, <2>3, <2>4, <2>5, <2>6 DEF Emit, args, plan, TypeOK
<1>6. CASE Finish
  <2>1. Narrow(current + remainder - 1) \in Ints
    BY <1>0, NarrowType DEF TypeOK
  <2>2. chunks' \in Seq([first : Ints, last : Ints])
    BY <1>6, <2>1, AppendChunk DEF Finish, TypeOK
  <2> QED BY <1>6, <2>2 DEF Finish, args, plan, TypeOK
<1> QED BY <1>1, <1>2, <1>3, <1>4, <1>5, <1>6 DEF Next

\* Every value divideIntoChunks stores is of its type.
THEOREM ChunksTypeCorrect == ChunksAssumption => (Spec => []TypeOK)
<1> SUFFICES ASSUME ChunksAssumption PROVE Spec => []TypeOK
  OBVIOUS
<1>1. Init => TypeOK
  <2>1. 0 \in Ints
    BY DEF ChunksAssumption, Ints, MinInt
  <2> QED BY <2>1 DEF Init, TypeOK
<1>2. TypeOK /\ [Next]_vars => TypeOK'
  BY TypeStep
<1> QED BY <1>1, <1>2, PTL DEF Spec

-----------------------------------------------------------------------------
(* The partition.                                                           *)

InLoop == pc \in {"minimal", "even"}

\* The numbers that no chunk holds yet.
Left == (chunk_count - i) * base
           + (IF pc = "minimal" THEN remainder
              ELSE IF i < remainder THEN remainder - i ELSE 0)

\* The chunks of s hold the range up to its last n numbers.
Covers(s, n) ==
    /\ Joined(s)
    /\ s = << >> => n = total
    /\ s # << >> => s[1].first = x_from /\ s[Len(s)].last = x_to - n

Worth(c) == c.last - c.first + 1 >= min_chunk_size

Extra == IF remainder # 0 THEN 1 ELSE 0

Started == pc = "start" => chunks = << >> /\ i = 0 /\ current = x_from

Planned ==
    /\ Usable /\ max_chunk_count > 1
    /\ chunk_count \in Nat /\ remainder \in Nat /\ base \in Nat
    /\ base >= min_chunk_size
    /\ pc = "minimal" => chunk_count + Extra <= max_chunk_count
    /\ pc = "even" => chunk_count = max_chunk_count /\ remainder < chunk_count

Looping ==
    (InLoop /\ QuotientsFit) =>
        /\ Planned
        /\ i <= chunk_count /\ Len(chunks) = i
        /\ Left \in 0..total
        /\ current = Narrow(x_to - Left + 1)
        /\ Covers(chunks, Left)
        /\ \A k \in 1..Len(chunks) : Worth(chunks[k])

Done ==
    (pc = "done" /\ Usable /\ QuotientsFit) =>
        /\ IsPartition(chunks)
        /\ Len(chunks) <= max_chunk_count
        /\ \A k \in 1..(Len(chunks) - 1) : Worth(chunks[k])

DivisionInv == Started /\ Looping /\ Done

LEMMA ArgsAreInts ==
    ASSUME ChunksAssumption, TypeOK
    PROVE  /\ x_from \in Int /\ x_to \in Int /\ total \in Int
           /\ max_chunk_count \in Int /\ min_chunk_size \in Int
           /\ Usable => total \in Nat \ {0}
BY DEF ChunksAssumption, TypeOK, Usable, total, Ints, MinInt

\* The next m numbers, in a chunk of their own.
LEMMA AppendCovers ==
    ASSUME ChunksAssumption, TypeOK, NEW s \in Seq([first : Ints, last : Ints]),
           NEW n \in 1..total, NEW m \in 1..n, Covers(s, n)
    PROVE  Covers(Append(s, Chunk(x_to - n + 1, x_to - n + m)), n - m)
<1> DEFINE c == Chunk(x_to - n + 1, x_to - n + m)
           t == Append(s, c)
<1>0. x_from \in Int /\ x_to \in Int /\ total \in Int /\ total = x_to - x_from + 1
  BY ArgsAreInts DEF total
<1>1. /\ Len(t) = Len(s) + 1 /\ Len(s) \in Nat
      /\ t[Len(s) + 1] = c
      /\ \A k \in 1..Len(s) : t[k] = s[k]
  OBVIOUS
<1>2. c.first = x_to - n + 1 /\ c.last = x_to - n + m /\ c.first <= c.last
  BY <1>0 DEF Chunk
<1>3. s = << >> <=> Len(s) = 0
  OBVIOUS
<1> HIDE DEF c, t
<1>4. \A k \in 1..Len(t) : t[k].first <= t[k].last
  BY <1>1, <1>2 DEF Covers, Joined
<1>5. \A k \in 1..(Len(t) - 1) : t[k + 1].first = t[k].last + 1
  <2> SUFFICES ASSUME NEW k \in 1..Len(s) PROVE t[k + 1].first = t[k].last + 1
    BY <1>1
  <2>1. CASE k = Len(s)
    <3>1. s # << >> /\ s[k].last = x_to - n
      BY <1>3, <2>1 DEF Covers
    <3> QED BY <1>0, <1>1, <1>2, <2>1, <3>1
  <2>2. CASE k # Len(s)
    <3>1. k \in 1..(Len(s) - 1) /\ k + 1 \in 1..Len(s)
      BY <1>1, <2>2
    <3>2. s[k + 1].first = s[k].last + 1
      BY <3>1 DEF Covers, Joined
    <3> QED BY <1>1, <3>1, <3>2
  <2> QED BY <2>1, <2>2
<1>6. t # << >> /\ t[1].first = x_from
  <2>1. CASE s = << >>
    <3>1. n = total /\ t[1] = c
      BY <1>1, <1>3, <2>1 DEF Covers
    <3> QED BY <1>0, <1>1, <1>2, <3>1
  <2>2. CASE s # << >>
    <3>1. s[1].first = x_from /\ t[1] = s[1]
      BY <1>1, <1>3, <2>2 DEF Covers
    <3> QED BY <1>1, <3>1
  <2> QED BY <2>1, <2>2
<1>7. t[Len(t)].last = x_to - (n - m)
  BY <1>0, <1>1, <1>2
<1> QED BY <1>4, <1>5, <1>6, <1>7 DEF Covers, Joined, t, c

\* Where the next chunk starts, the arithmetic does not wrap.
LEMMA NextStart ==
    ASSUME ChunksAssumption, TypeOK, Usable, NEW n \in 1..total
    PROVE  Narrow(x_to - n + 1) = x_to - n + 1
<1>1. x_to - n + 1 \in Ints
  BY DEF ChunksAssumption, TypeOK, Usable, total, Ints, MinInt
<1> QED BY <1>1, NarrowFits

\* What the plan computes is exact if the quotients fit.
LEMMA QuotientsAreExact ==
    ASSUME ChunksAssumption, TypeOK, Usable, QuotientsFit, max_chunk_count > 1
    PROVE  LET q == total \div min_chunk_size
               r == total % min_chunk_size
           IN  /\ Narrow(q) = q /\ Narrow(r) = r
               /\ Needed(q, r) = q + (IF r # 0 THEN 1 ELSE 0)
               /\ Narrow(total \div max_chunk_count) = total \div max_chunk_count
               /\ Narrow(total % max_chunk_count) = total % max_chunk_count
<1> DEFINE q == total \div min_chunk_size
           r == total % min_chunk_size
           b == total \div max_chunk_count
           m == total % max_chunk_count
<1>1. /\ total \in Nat \ {0}
      /\ min_chunk_size \in Nat \ {0} /\ min_chunk_size <= MaxInt
      /\ max_chunk_count \in Nat \ {0} /\ max_chunk_count <= MaxInt
      /\ MaxInt \in Nat \ {0}
  BY ArgsAreInts DEF ChunksAssumption, TypeOK, Usable, Ints
<1>2. /\ q \in Nat /\ r \in 0..(min_chunk_size - 1) /\ total = q * min_chunk_size + r
      /\ b \in Nat /\ m \in 0..(max_chunk_count - 1) /\ total = b * max_chunk_count + m
  BY <1>1, Division
<1> HIDE DEF q, r, b, m
<1>3. total <= 2 * MaxInt + 2
  BY DEF ChunksAssumption, TypeOK, total, Ints, MinInt
<1>4. ASSUME NEW k \in Nat, NEW d \in Nat \ {0}, NEW rest \in Nat,
             total = k * d + rest, total <= MaxInt \/ d > 2, d <= MaxInt
      PROVE  k <= MaxInt /\ (rest # 0 /\ d > 1 => k + 1 <= MaxInt)
  <2>1. CASE d > 2
    <3>1. 3 * k <= d * k /\ d * k = k * d
      BY <2>1, <1>4, Monotonic
    <3>2. 3 * k + rest <= 2 * MaxInt + 2 /\ MaxInt >= 3
      BY <1>1, <1>3, <1>4, <2>1, <3>1
    <3> QED BY <1>1, <3>2
  <2>2. CASE d <= 2 /\ total <= MaxInt
    <3>1. CASE d = 1
      BY <1>1, <1>4, <2>2, <3>1
    <3>2. CASE d = 2
      BY <1>1, <1>4, <2>2, <3>2
    <3> QED BY <1>4, <2>2, <3>1, <3>2
  <2> QED BY <1>4, <2>1, <2>2
<1>5. /\ q <= MaxInt /\ (r # 0 => q + 1 <= MaxInt)
      /\ b <= MaxInt
  <2>1. q <= MaxInt /\ (r # 0 /\ min_chunk_size > 1 => q + 1 <= MaxInt)
    BY <1>1, <1>2, <1>4 DEF QuotientsFit
  <2>2. b <= MaxInt
    BY <1>1, <1>2, <1>4 DEF QuotientsFit
  <2>3. r # 0 => min_chunk_size > 1
    BY <1>1, <1>2
  <2> QED BY <2>1, <2>2, <2>3
<1>6. q \in Ints /\ r \in Ints /\ b \in Ints /\ m \in Ints
      /\ (r # 0 => q + 1 \in Ints)
  BY <1>1, <1>2, <1>5 DEF Ints, MinInt
<1>7. Narrow(q) = q /\ Narrow(r) = r /\ Narrow(b) = b /\ Narrow(m) = m
      /\ (r # 0 => Narrow(q + 1) = q + 1)
  BY <1>6, NarrowFits
<1>8. Needed(q, r) = q + (IF r # 0 THEN 1 ELSE 0)
  <2>1. CASE r # 0
    BY <1>7, <2>1 DEF Needed
  <2>2. CASE r = 0
    <3>1. q + 0 = q
      BY <1>2
    <3> QED BY <1>7, <2>2, <3>1 DEF Needed
  <2> QED BY <2>1, <2>2
<1> QED BY <1>7, <1>8 DEF q, r, b, m

LEMMA PlanStep ==
    ASSUME ChunksAssumption, TypeOK, TypeOK', DivisionInv, Plan
    PROVE  DivisionInv'
<1>1. Started' /\ Done'
  BY DEF Plan, Started, Done
<1>2. ASSUME InLoop', QuotientsFit'
      PROVE  /\ Planned'
             /\ (i <= chunk_count /\ Len(chunks) = i)'
             /\ (Left \in 0..total)'
             /\ (current = Narrow(x_to - Left + 1))'
             /\ Covers(chunks, Left)'
             /\ (\A k \in 1..Len(chunks) : Worth(chunks[k]))'
  <2> DEFINE q == total \div min_chunk_size
             r == total % min_chunk_size
             b == total \div max_chunk_count
             m == total % max_chunk_count
  <2>1. QuotientsFit /\ Usable /\ max_chunk_count > 1
    BY <1>2 DEF QuotientsFit, Plan, total, args
  <2>2. /\ Narrow(q) = q /\ Narrow(r) = r /\ Narrow(b) = b /\ Narrow(m) = m
        /\ Needed(q, r) = q + (IF r # 0 THEN 1 ELSE 0)
    BY <2>1, QuotientsAreExact
  <2>3. /\ total \in Nat \ {0} /\ x_from \in Int /\ x_to \in Int
        /\ min_chunk_size \in Nat \ {0} /\ max_chunk_count \in Nat \ {0}
    BY <2>1, ArgsAreInts DEF Usable
  <2>4. /\ q \in Nat /\ r \in 0..(min_chunk_size - 1) /\ total = q * min_chunk_size + r
        /\ b \in Nat /\ m \in 0..(max_chunk_count - 1) /\ total = b * max_chunk_count + m
    BY <2>3, Division
  <2>5. \/ /\ pc' = "minimal" /\ chunk_count' = q /\ remainder' = r
           /\ base' = min_chunk_size
           /\ q + (IF r # 0 THEN 1 ELSE 0) <= max_chunk_count
        \/ /\ pc' = "even" /\ chunk_count' = max_chunk_count /\ remainder' = m
           /\ base' = b
           /\ ~(q + (IF r # 0 THEN 1 ELSE 0) <= max_chunk_count)
    BY <2>2 DEF Plan
  <2> HIDE DEF q, r, b, m
  <2>6. /\ UNCHANGED <<x_from, x_to, max_chunk_count, min_chunk_size, i, current, chunks>>
        /\ chunks = << >> /\ i = 0 /\ current = x_from
    BY DEF Plan, args, DivisionInv, Started
  <2>7. total' = total /\ total = x_to - x_from + 1
    BY <2>6 DEF total
  <2>8. pc' = "even" => b >= min_chunk_size
    <3> SUFFICES ASSUME pc' = "even", b + 1 <= min_chunk_size PROVE FALSE
      BY <2>3, <2>4
    <3>1. q >= max_chunk_count /\ (q = max_chunk_count => r # 0)
      BY <2>3, <2>4, <2>5
    <3>2. max_chunk_count * min_chunk_size <= q * min_chunk_size
      BY <2>3, <2>4, <3>1, Monotonic
    <3>3. (b + 1) * max_chunk_count <= min_chunk_size * max_chunk_count
      BY <2>3, <2>4, Monotonic
    <3>4. /\ (b + 1) * max_chunk_count = b * max_chunk_count + max_chunk_count
          /\ min_chunk_size * max_chunk_count = max_chunk_count * min_chunk_size
      BY <2>3, <2>4
    <3> QED BY <2>3, <2>4, <3>2, <3>3, <3>4
  <2>9. Planned'
    <3>1. Usable'
      BY <2>1, <2>6 DEF Usable
    <3>2. (chunk_count \in Nat /\ remainder \in Nat /\ base \in Nat
             /\ base >= min_chunk_size)'
      BY <2>3, <2>4, <2>5, <2>6, <2>8
    <3>3. (pc = "minimal" => chunk_count + Extra <= max_chunk_count)'
      BY <2>5, <2>6 DEF Extra
    <3>4. (pc = "even" => chunk_count = max_chunk_count /\ remainder < chunk_count)'
      BY <2>3, <2>4, <2>5, <2>6
    <3> QED BY <2>1, <2>6, <3>1, <3>2, <3>3, <3>4 DEF Planned
  <2>10. Left' = total
    <3>1. CASE pc' = "minimal"
      <4>1. Left' = (q - 0) * min_chunk_size + r
        BY <2>5, <2>6, <3>1 DEF Left
      <4>2. q - 0 = q
        BY <2>4
      <4> QED BY <2>4, <4>1, <4>2
    <3>2. CASE pc' = "even"
      <4>1. Left' = (max_chunk_count - 0) * b
                       + (IF 0 < m THEN m - 0 ELSE 0)
        BY <2>5, <2>6, <3>2 DEF Left
      <4>2. max_chunk_count - 0 = max_chunk_count /\ max_chunk_count * b = b * max_chunk_count
            /\ (IF 0 < m THEN m - 0 ELSE 0) = m
        BY <2>3, <2>4
      <4> QED BY <2>4, <4>1, <4>2
    <3> QED BY <2>5, <3>1, <3>2
  <2>11. x_to - total + 1 = x_from
    BY <2>3, <2>7
  <2>12. current' = Narrow(x_to - Left + 1)'
    <3>1. Narrow(x_from) = x_from
      BY NarrowFits DEF TypeOK
    <3> QED BY <2>6, <2>10, <2>11, <3>1 DEF Narrow
  <2>13. Covers(chunks, Left)' /\ (\A k \in 1..Len(chunks) : Worth(chunks[k]))'
    BY <2>6, <2>7, <2>10 DEF Covers, Joined
  <2>14. (i <= chunk_count /\ Len(chunks) = i)'
    BY <2>6, <2>9 DEF Planned
  <2>15. (Left \in 0..total)'
    BY <2>3, <2>7, <2>10
  <2> QED BY <2>9, <2>12, <2>13, <2>14, <2>15
<1> QED BY <1>1, <1>2 DEF DivisionInv, Looping

LEMMA EmitStep ==
    ASSUME ChunksAssumption, TypeOK, TypeOK', DivisionInv, Emit
    PROVE  DivisionInv'
<1>1. Started' /\ Done'
  BY DEF Emit, Started, Done
<1>2. ASSUME QuotientsFit'
      PROVE  /\ Planned'
             /\ (i <= chunk_count /\ Len(chunks) = i)'
             /\ (Left \in 0..total)'
             /\ (current = Narrow(x_to - Left + 1))'
             /\ Covers(chunks, Left)'
             /\ (\A k \in 1..Len(chunks) : Worth(chunks[k]))'
  <2>1. /\ UNCHANGED <<x_from, x_to, max_chunk_count, min_chunk_size, pc,
                       chunk_count, remainder, base>>
        /\ i' = i + 1 /\ i < chunk_count /\ pc \in {"minimal", "even"}
    BY DEF Emit, args, plan
  <2>2. /\ Planned /\ Len(chunks) = i
        /\ Left \in 0..total /\ current = Narrow(x_to - Left + 1)
        /\ Covers(chunks, Left) /\ \A k \in 1..Len(chunks) : Worth(chunks[k])
    BY <1>2, <2>1 DEF DivisionInv, Looping, InLoop, QuotientsFit, total
  <2>3. /\ x_from \in Int /\ x_to \in Int /\ total \in Int
        /\ min_chunk_size \in Nat \ {0}
        /\ chunk_count \in Nat /\ remainder \in Nat /\ base \in Nat
        /\ base >= min_chunk_size /\ i \in Nat
    <3>1. Usable /\ min_chunk_size >= 1
      BY <2>2 DEF Planned, Usable
    <3>2. /\ chunk_count \in Nat /\ remainder \in Nat /\ base \in Nat
          /\ base >= min_chunk_size
      BY <2>2 DEF Planned
    <3>3. i \in Nat
      BY DEF TypeOK
    <3> QED BY <3>1, <3>2, <3>3, ArgsAreInts
  <2>4. PICK n \in 0..total : n = Left
    BY <2>2
  <2>5. PICK m \in Nat \ {0} : m = Size
    BY <2>3 DEF Size
  <2>6. m >= base
    BY <2>3, <2>5 DEF Size
  <2>7. Left' = n - m /\ m <= n
    <3> DEFINE whole == (chunk_count - i) * base
               rest == IF pc = "minimal" THEN remainder
                       ELSE IF i < remainder THEN remainder - i ELSE 0
    <3>1. ((chunk_count - i) - 1) * base = whole - base
      BY <2>3, OneLess
    <3>2. chunk_count - (i + 1) = (chunk_count - i) - 1
      BY <2>3
    <3>3. whole >= base
      <4>1. chunk_count - i \in Nat \ {0}
        BY <2>1, <2>3
      <4> QED BY <2>3, <4>1, AtLeastOne
    <3>4. whole \in Int
      BY <2>3
    <3>5. n = whole + rest
      BY <2>4 DEF Left
    <3>6. Left' = (whole - base) + (IF pc = "minimal" THEN remainder
                       ELSE IF i + 1 < remainder THEN remainder - (i + 1) ELSE 0)
      BY <2>1, <3>1, <3>2 DEF Left
    <3> HIDE DEF whole
    <3>7. CASE pc = "minimal"
      <4>1. m = base
        BY <2>3, <2>5, <3>7 DEF Size
      <4> QED BY <2>3, <3>3, <3>4, <3>5, <3>6, <3>7, <4>1
    <3>8. CASE pc = "even" /\ i < remainder
      <4>1. m = base + 1
        BY <2>5, <3>8 DEF Size
      <4>2. rest = remainder - i
        BY <3>8
      <4>3. Left' = (whole - base) + (remainder - (i + 1))
        <5>1. i + 1 < remainder \/ remainder - (i + 1) = 0
          BY <2>3, <3>8
        <5> QED BY <3>6, <3>8, <5>1
      <4> QED BY <2>3, <3>3, <3>4, <3>5, <3>8, <4>1, <4>2, <4>3
    <3>9. CASE pc = "even" /\ ~(i < remainder)
      <4>1. m = base
        BY <2>3, <2>5, <3>9 DEF Size
      <4>2. rest = 0 /\ ~(i + 1 < remainder)
        BY <2>3, <3>9
      <4> QED BY <2>3, <3>3, <3>4, <3>5, <3>6, <3>9, <4>1, <4>2
    <3> QED BY <2>1, <3>7, <3>8, <3>9
  <2>8. n \in 1..total /\ m \in 1..n
    BY <2>3, <2>4, <2>5, <2>7
  <2>9. current = x_to - n + 1
    BY <2>2, <2>4, <2>8, NextStart DEF Planned
  <2>10. Narrow(current + Size - 1) = x_to - n + m
    <3>1. x_to - n + m \in Ints
      <4>1. /\ x_from \in Ints /\ x_to \in Ints /\ MaxInt \in Int
            /\ total = x_to - x_from + 1
        BY DEF ChunksAssumption, TypeOK, total
      <4>2. n \in Int /\ m \in Int /\ 1 <= m /\ m <= n /\ n <= total
        BY <2>8, <4>1 DEF Ints, MinInt
      <4> QED BY <4>1, <4>2 DEF Ints, MinInt
    <3>2. current + Size - 1 = x_to - n + m
      BY <2>3, <2>5, <2>8, <2>9
    <3> QED BY <3>1, <3>2, NarrowFits
  <2>11. /\ chunks' = Append(chunks, Chunk(x_to - n + 1, x_to - n + m))
         /\ current' = Narrow(x_to - n + m + 1)
    BY <2>9, <2>10 DEF Emit
  <2>12. Planned'
    BY <2>1, <2>2 DEF Planned, Usable, Extra
  <2>13. (i <= chunk_count /\ Len(chunks) = i)'
    <3>1. Len(chunks') = Len(chunks) + 1
      BY <2>11 DEF TypeOK
    <3> QED BY <2>1, <2>2, <2>3, <3>1
  <2>14. total' = total
    BY <2>1 DEF total
  <2>15. (Left \in 0..total)'
    BY <2>3, <2>7, <2>8, <2>14
  <2>16. current' = Narrow(x_to - Left + 1)'
    <3>1. x_to - n + m + 1 = x_to - Left' + 1
      BY <2>3, <2>7, <2>8
    <3> QED BY <2>1, <2>11, <3>1 DEF Narrow
  <2>17. Covers(chunks', n - m)
    BY <2>2, <2>4, <2>8, <2>11, AppendCovers DEF TypeOK
  <2>18. Covers(chunks, Left)'
    BY <2>1, <2>7, <2>14, <2>17 DEF Covers, Joined
  <2>19. (\A k \in 1..Len(chunks) : Worth(chunks[k]))'
    <3>1. ASSUME NEW k \in 1..Len(chunks')
          PROVE  chunks'[k].last - chunks'[k].first + 1 >= min_chunk_size'
      <4>1. CASE k \in 1..Len(chunks)
        <5>1. chunks'[k] = chunks[k]
          BY <2>11, <4>1 DEF TypeOK
        <5> QED BY <2>1, <2>2, <4>1, <5>1 DEF Worth
      <4>2. CASE k = Len(chunks) + 1
        <5>1. chunks'[k] = Chunk(x_to - n + 1, x_to - n + m)
          BY <2>11, <4>2 DEF TypeOK
        <5>2. /\ chunks'[k].last = x_to - n + m /\ chunks'[k].first = x_to - n + 1
              /\ n \in Int /\ m \in Int /\ x_to \in Int
          BY <2>3, <2>8, <5>1 DEF Chunk
        <5>3. chunks'[k].last - chunks'[k].first + 1 = m
          BY <5>2
        <5> QED BY <2>1, <2>3, <2>6, <5>3
      <4> QED BY <2>11, <4>1, <4>2 DEF TypeOK
    <3> QED BY <3>1 DEF Worth
  <2> QED BY <2>12, <2>13, <2>15, <2>16, <2>18, <2>19
<1> QED BY <1>1, <1>2 DEF DivisionInv, Looping

LEMMA FinishStep ==
    ASSUME ChunksAssumption, TypeOK, TypeOK', DivisionInv, Finish
    PROVE  DivisionInv'
<1>1. Started' /\ Looping'
  BY DEF Finish, Started, Looping, InLoop
<1>2. ASSUME QuotientsFit'
      PROVE  /\ IsPartition(chunks)'
             /\ (Len(chunks) <= max_chunk_count)'
             /\ (\A k \in 1..(Len(chunks) - 1) : Worth(chunks[k]))'
  <2>1. /\ UNCHANGED <<x_from, x_to, max_chunk_count, min_chunk_size,
                       chunk_count, remainder, base, i, current>>
        /\ i >= chunk_count /\ pc \in {"minimal", "even"}
    BY DEF Finish, args, plan
  <2>2. /\ Planned /\ i <= chunk_count /\ Len(chunks) = i
        /\ Left \in 0..total /\ current = Narrow(x_to - Left + 1)
        /\ Covers(chunks, Left) /\ \A k \in 1..Len(chunks) : Worth(chunks[k])
    BY <1>2, <2>1 DEF DivisionInv, Looping, InLoop, QuotientsFit, total
  <2>3. /\ x_from \in Int /\ x_to \in Int /\ total \in Nat \ {0}
        /\ max_chunk_count \in Nat
        /\ chunk_count \in Nat /\ remainder \in Nat /\ base \in Nat /\ i \in Nat
    <3>1. Usable /\ max_chunk_count > 0
      BY <2>2 DEF Planned, Usable
    <3>2. chunk_count \in Nat /\ remainder \in Nat /\ base \in Nat
      BY <2>2 DEF Planned
    <3>3. i \in Nat
      BY DEF TypeOK
    <3> QED BY <3>1, <3>2, <3>3, ArgsAreInts
  <2>4. i = chunk_count /\ (chunk_count - i) * base = 0
    <3>1. i = chunk_count /\ chunk_count - i = 0
      BY <2>1, <2>2, <2>3
    <3>2. 0 * base = 0
      BY <2>3
    <3> QED BY <3>1, <3>2
  <2>5. Left = IF pc = "minimal" THEN remainder ELSE 0
    BY <2>1, <2>2, <2>3, <2>4 DEF Left, Planned
  <2>6. CASE pc = "minimal" /\ remainder # 0
    <3>1. remainder \in 1..total /\ remainder \in 1..remainder /\ Left = remainder
      BY <2>2, <2>3, <2>5, <2>6
    <3>2. current = x_to - remainder + 1
      BY <2>2, <3>1, NextStart DEF Planned
    <3>3. current + remainder - 1 = x_to - remainder + remainder
          /\ x_to - remainder + remainder = x_to
      BY <2>3, <3>2
    <3>4. Narrow(current + remainder - 1) = x_to - remainder + remainder
      BY <3>3, NarrowFits DEF TypeOK
    <3>5. chunks' = Append(chunks, Chunk(x_to - remainder + 1, x_to - remainder + remainder))
      BY <2>6, <3>2, <3>4 DEF Finish
    <3>6. Covers(chunks', remainder - remainder)
      BY <2>2, <3>1, <3>5, AppendCovers DEF TypeOK
    <3>7. Len(chunks') = Len(chunks) + 1 /\ chunks' # << >>
          /\ \A k \in 1..Len(chunks) : chunks'[k] = chunks[k]
      BY <3>5 DEF TypeOK
    <3>8. IsPartition(chunks)'
      <4>1. x_to - (remainder - remainder) = x_to
        BY <2>3
      <4> QED BY <2>1, <3>6, <3>7, <4>1 DEF IsPartition, Covers, Joined
    <3>9. (Len(chunks) <= max_chunk_count)'
      BY <2>1, <2>2, <2>4, <2>6, <3>7 DEF Planned, Extra
    <3>10. (\A k \in 1..(Len(chunks) - 1) : Worth(chunks[k]))'
      BY <2>1, <2>2, <2>3, <3>7 DEF Worth
    <3> QED BY <3>8, <3>9, <3>10
  <2>7. CASE ~(pc = "minimal" /\ remainder # 0)
    <3>1. chunks' = chunks /\ Left = 0
      BY <2>1, <2>5, <2>7 DEF Finish
    <3>2. chunks # << >>
      BY <2>2, <2>3, <3>1 DEF Covers
    <3>3. x_to - 0 = x_to
      BY <2>3
    <3>4. IsPartition(chunks)'
      BY <2>1, <2>2, <3>1, <3>2, <3>3 DEF IsPartition, Covers, Joined
    <3>5. chunk_count <= max_chunk_count
      BY <2>1, <2>2, <2>3 DEF Planned, Extra
    <3>6. (\A k \in 1..(Len(chunks) - 1) : Worth(chunks[k]))'
      BY <2>1, <2>2, <2>3, <3>1 DEF Worth
    <3> QED BY <2>1, <2>2, <2>4, <3>1, <3>4, <3>5, <3>6
  <2> QED BY <2>6, <2>7
<1> QED BY <1>1, <1>2 DEF DivisionInv, Done

LEMMA DivisionStep ==
    ASSUME ChunksAssumption, TypeOK, DivisionInv, [Next]_vars
    PROVE  DivisionInv'
<1>0. TypeOK'
  BY TypeStep
<1>1. CASE UNCHANGED vars
  BY <1>1 DEF vars, args, plan, DivisionInv, Started, Looping, Done, InLoop,
     QuotientsFit, total, Planned, Usable, Extra, Left, Narrow, MinInt, Covers,
     Joined, Worth, IsPartition
<1>2. CASE Reject
  <2>1. ~Usable'
    BY <1>2 DEF Reject, Usable, args
  <2> QED BY <1>2, <2>1 DEF Reject, DivisionInv, Started, Looping, Done, InLoop
<1>3. CASE TakeWhole
  <2>1. chunks' = <<Chunk(x_from, x_to)>> /\ UNCHANGED <<x_from, x_to, max_chunk_count>>
    BY <1>3 DEF TakeWhole, args
  <2>2. /\ Len(chunks') = 1 /\ chunks' # << >>
        /\ chunks'[1].first = x_from /\ chunks'[1].last = x_to
    BY <2>1 DEF Chunk
  <2>3. x_from <= x_to /\ max_chunk_count = 1
    BY <1>3 DEF TakeWhole, Usable
  <2>4. Done'
    BY <2>1, <2>2, <2>3 DEF Done, IsPartition, Joined
  <2> QED BY <1>3, <2>4 DEF TakeWhole, DivisionInv, Started, Looping, InLoop
<1> QED BY <1>0, <1>1, <1>2, <1>3, PlanStep, EmitStep, FinishStep DEF Next

LEMMA DivisionHolds == ChunksAssumption => (Spec => []DivisionInv)
<1> SUFFICES ASSUME ChunksAssumption PROVE Spec => []DivisionInv
  OBVIOUS
<1>1. Init => DivisionInv
  BY DEF Init, DivisionInv, Started, Looping, Done, InLoop
<1>2. TypeOK /\ DivisionInv /\ [Next]_vars => DivisionInv'
  BY DivisionStep
<1>3. Spec => []TypeOK
  BY ChunksTypeCorrect
<1> QED BY <1>1, <1>2, <1>3, PTL DEF Spec

\* Whatever the width of int: if the quotients fit one, the chunks returned hold
\* every number of the range once, in order, up to both ends of the type.
THEOREM RangeIsPartitioned == ChunksAssumption => (Spec => []PartitionsRange)
<1> SUFFICES ASSUME ChunksAssumption PROVE Spec => []PartitionsRange
  OBVIOUS
<1>1. DivisionInv => PartitionsRange
  BY DEF DivisionInv, Done, PartitionsRange
<1> QED BY <1>1, DivisionHolds, PTL

\* At no time are there more chunks than allowed, or a chunk below the least
\* size that another one follows.
THEOREM ChunksAreWorthTheirThreads == ChunksAssumption => (Spec => []WorthTheirThreads)
<1> SUFFICES ASSUME ChunksAssumption PROVE Spec => []WorthTheirThreads
  OBVIOUS
<1>1. TypeOK /\ DivisionInv => WorthTheirThreads
  <2> SUFFICES ASSUME TypeOK, DivisionInv, Usable, QuotientsFit
               PROVE  /\ Len(chunks) <= max_chunk_count
                      /\ \A k \in 1..(Len(chunks) - 1) : Worth(chunks[k])
    BY DEF WorthTheirThreads, Worth
  <2>1. CASE pc = "start"
    BY <2>1, ArgsAreInts DEF DivisionInv, Started, Usable
  <2>2. CASE InLoop
    <3>1. Planned /\ i <= chunk_count /\ Len(chunks) = i
          /\ \A k \in 1..Len(chunks) : Worth(chunks[k])
      BY <2>2 DEF DivisionInv, Looping
    <3>2. chunk_count <= max_chunk_count /\ i \in Nat /\ max_chunk_count \in Int
      BY <2>2, <3>1, ArgsAreInts DEF Planned, Extra, InLoop, TypeOK
    <3> QED BY <3>1, <3>2, ArgsAreInts DEF Planned
  <2>3. CASE pc = "done"
    BY <2>3 DEF DivisionInv, Done
  <2> QED BY <2>1, <2>2, <2>3 DEF TypeOK, InLoop
<1>2. Spec => []TypeOK
  BY ChunksTypeCorrect
<1> QED BY <1>1, <1>2, DivisionHolds, PTL

-----------------------------------------------------------------------------
(* The loops of the tasks.                                                  *)

\* There is one way to divide.
LEMMA Quotient ==
    ASSUME NEW n \in Nat, NEW d \in Nat \ {0}, NEW q \in Nat, NEW r \in 0..(d - 1),
           n = q * d + r
    PROVE  n \div d = q /\ n % d = r
<1> DEFINE p == n \div d
           s == n % d
<1>1. p \in Nat /\ s \in 0..(d - 1) /\ n = p * d + s
  BY Division
<1> HIDE DEF p, s
<1>2. q * d \in Nat /\ p * d \in Nat
  BY <1>1
<1>3. CASE p > q
  <2>1. (q + 1) * d <= p * d
    BY <1>1, <1>3, Monotonic
  <2>2. (q + 1) * d = q * d + d
    OBVIOUS
  <2> QED BY <1>1, <1>2, <2>1, <2>2
<1>4. CASE q > p
  <2>1. (p + 1) * d <= q * d
    BY <1>1, <1>4, Monotonic
  <2>2. (p + 1) * d = p * d + d
    BY <1>1
  <2> QED BY <1>1, <1>2, <2>1, <2>2
<1>5. CASE p = q
  BY <1>1, <1>2, <1>5 DEF p, s
<1> QED BY <1>1, <1>3, <1>4, <1>5

\* The turns of a loop.
Turns(from, to, step) == (to - from) \div step + 1

\* The numbers of m turns from a on.
GoesThrough(t, a, step, m) ==
    /\ t \in Seq(Int) /\ Len(t) = m
    /\ \A k \in 1..m : t[k] = a + (k - 1) * step

LEMMA LoopType ==
    ASSUME NEW a \in Int, NEW b \in Int, NEW step \in Nat \ {0}, a <= b
    PROVE  /\ Turns(a, b, step) \in Nat \ {0}
           /\ GoesThrough(Loop(a, b, step), a, step, Turns(a, b, step))
<1>1. Turns(a, b, step) \in Nat \ {0}
  <2>1. b - a \in Nat
    OBVIOUS
  <2>2. (b - a) \div step \in Nat
    BY <2>1, Division
  <2> QED BY <2>2 DEF Turns
<1>2. Loop(a, b, step) = [k \in 1..Turns(a, b, step) |-> a + (k - 1) * step]
  BY DEF Loop, Turns
<1> DEFINE n == Turns(a, b, step)
<1> HIDE DEF n
<1>3. \A k \in 1..n : a + (k - 1) * step \in Int
  <2> TAKE k \in 1..n
  <2>1. (k - 1) * step \in Int
    OBVIOUS
  <2> QED BY <2>1
<1>4. [k \in 1..n |-> a + (k - 1) * step] \in Seq(Int)
  BY <1>1, <1>3 DEF n
<1> QED BY <1>1, <1>2, <1>4 DEF n, GoesThrough

\* As many numbers as some whole turns pass.
WholeTurns(n, step) == \E q \in Nat \ {0} : n = q * step

\* A loop that ends where another one would go on, and the other one.
LEMMA LoopJoins ==
    ASSUME NEW a \in Int, NEW b \in Int, NEW c \in Int, NEW step \in Nat \ {0},
           a <= b, b < c, WholeTurns(b - a + 1, step)
    PROVE  Loop(a, b, step) \o Loop(b + 1, c, step) = Loop(a, c, step)
<1>0. PICK q \in Nat \ {0} : b - a + 1 = q * step
  BY DEF WholeTurns
<1> DEFINE s == Loop(a, b, step)
           t == Loop(b + 1, c, step)
           u == Loop(a, c, step)
           m == Turns(b + 1, c, step)
<1>1. (q - 1) * step = q * step - step /\ q * step \in Nat
  OBVIOUS
<1>2. Turns(a, b, step) = q
  <2>1. b - a \in Nat /\ b - a = (q - 1) * step + (step - 1)
    BY <1>0, <1>1
  <2>2. (b - a) \div step = q - 1
    <3>1. q - 1 \in Nat /\ step - 1 \in 0..(step - 1)
      OBVIOUS
    <3> QED BY <2>1, <3>1, Quotient, Zenon
  <2> QED BY <2>2 DEF Turns
<1>3. m \in Nat \ {0} /\ Turns(a, c, step) = q + m
  <2> DEFINE n == c - (b + 1)
             e == n \div step
             r == n % step
  <2>1. n \in Nat
    OBVIOUS
  <2>2. e \in Nat /\ r \in 0..(step - 1) /\ n = e * step + r
    BY <2>1, Division
  <2>3. m = e + 1
    BY DEF Turns
  <2> HIDE DEF e, r, m
  <2>4. (q + e) * step = q * step + e * step
    BY <2>2
  <2>5. c - a = (q + e) * step + r
    <3>1. c - a = n + q * step
      BY <1>0, <1>1
    <3> HIDE DEF n
    <3>2. e * step \in Nat
      BY <2>2
    <3> QED BY <1>1, <2>2, <2>4, <3>1, <3>2
  <2>6. (c - a) \div step = q + e
    <3>1. c - a \in Nat /\ q + e \in Nat
      BY <2>2
    <3> QED BY <2>2, <2>5, <3>1, Quotient, Zenon
  <2> QED BY <2>2, <2>3, <2>6 DEF Turns
<1>a. a <= c /\ b + 1 \in Int /\ b + 1 <= c
  OBVIOUS
<1>b. /\ GoesThrough(s, a, step, q) /\ GoesThrough(t, b + 1, step, m)
      /\ GoesThrough(u, a, step, q + m)
  BY <1>2, <1>3, <1>a, LoopType
<1>4. /\ s \in Seq(Int) /\ Len(s) = q
      /\ \A k \in 1..q : s[k] = a + (k - 1) * step
  BY <1>b, Zenon DEF GoesThrough
<1>5. /\ t \in Seq(Int) /\ Len(t) = m
      /\ \A k \in 1..m : t[k] = b + 1 + (k - 1) * step
  BY <1>b, Zenon DEF GoesThrough
<1>6. /\ u \in Seq(Int) /\ Len(u) = q + m
      /\ \A k \in 1..(q + m) : u[k] = a + (k - 1) * step
  BY <1>b, Zenon DEF GoesThrough
<1> HIDE DEF s, t, u, m
<1>7. s \o t \in Seq(Int) /\ Len(s \o t) = q + m
  BY <1>3, <1>4, <1>5, ConcatProperties
<1>8. \A k \in 1..(q + m) : (s \o t)[k] = u[k]
  <2> TAKE k \in 1..(q + m)
  <2>1. CASE k <= q
    <3>1. k \in 1..q /\ (s \o t)[k] = s[k]
      BY <1>3, <1>4, <1>5, <2>1
    <3> QED BY <1>4, <1>6, <3>1
  <2>2. CASE k > q
    <3>a. k - q \in 1..m /\ k \in 1..(q + m)
      BY <1>3, <2>2
    <3>b. (s \o t)[k] = IF k <= q THEN s[k] ELSE t[k - q]
      BY <1>4, <1>5, <3>a, ConcatProperties, Zenon
    <3>1. k - q \in 1..m /\ (s \o t)[k] = t[k - q]
      BY <2>2, <3>a, <3>b
    <3>2. (s \o t)[k] = b + 1 + ((k - q) - 1) * step
      BY <1>5, <3>1
    <3>3. b + 1 = a + q * step
      BY <1>0, <1>1
    <3>4. q * step + ((k - q) - 1) * step = (k - 1) * step
      <4>1. q + ((k - q) - 1) = k - 1 /\ (k - q) - 1 \in Int /\ k \in Int
        BY <1>3
      <4>2. \A x, y \in Int : x * step + y * step = (x + y) * step
        OBVIOUS
      <4> QED BY <4>1, <4>2
    <3> DEFINE x == q * step
               y == ((k - q) - 1) * step
               z == (k - 1) * step
    <3>5. x \in Int /\ y \in Int /\ z \in Int
      BY <1>3
    <3>6. (s \o t)[k] = b + 1 + y /\ b + 1 = a + x /\ x + y = z /\ u[k] = a + z
      BY <1>6, <3>2, <3>3, <3>4
    <3> HIDE DEF x, y, z
    <3> QED BY <3>5, <3>6
  <2>3. k <= q \/ k > q
    BY <1>3
  <2> QED BY <2>1, <2>2, <2>3
<1>9. s \o t = u
  BY <1>6, <1>7, <1>8, SeqEqual
<1> QED BY <1>9 DEF s, t, u

\* What the loop of FlattenSeq has joined after each of its first m turns.
Joins(seqs, m, f) ==
    /\ f \in [1..m -> Seq(Int)]
    /\ f[1] = seqs[1]
    /\ \A k \in 2..m : f[k] = f[k - 1] \o seqs[k]

LEMMA JoinsExist ==
    ASSUME NEW n \in Nat \ {0}, NEW seqs, \A k \in 1..n : seqs[k] \in Seq(Int)
    PROVE  \E f : Joins(seqs, n, f)
<1> DEFINE T == {m \in Nat : m + 1 <= n => \E f : Joins(seqs, m + 1, f)}
<1>1. 0 \in T
  <2> DEFINE f == [k \in 1..1 |-> seqs[1]]
  <2>1. Joins(seqs, 1, f)
    BY DEF Joins
  <2> QED BY <2>1
<1>2. ASSUME NEW m \in Nat, m \in T PROVE m + 1 \in T
  <2> DEFINE x == (m + 1) + 1
  <2> SUFFICES ASSUME x <= n PROVE \E f : Joins(seqs, x, f)
    OBVIOUS
  <2>1. PICK f : Joins(seqs, m + 1, f)
    BY <1>2
  <2> DEFINE v == f[m + 1] \o seqs[x]
             g == [k \in 1..x |-> IF k = x THEN v ELSE f[k]]
  <2>2. v \in Seq(Int)
    <3>1. f[m + 1] \in Seq(Int) /\ seqs[x] \in Seq(Int)
      BY <2>1 DEF Joins
    <3> QED BY <3>1, ConcatProperties
  <2>3. /\ m + 1 \in 1..x /\ m + 1 # x /\ 1 \in 1..(m + 1) /\ 1 \in 1..x /\ 1 # x /\ x \in 1..x
        /\ x - 1 = m + 1
        /\ \A k \in 2..x : k = x \/ (/\ k \in 2..(m + 1) /\ k \in 1..x /\ k # x
                                    /\ k - 1 \in 1..x /\ k - 1 # x)
    OBVIOUS
  <2>4. g \in [1..x -> Seq(Int)]
    <3>1. \A k \in 1..x : k # x => k \in 1..(m + 1)
      OBVIOUS
    <3>2. \A k \in 1..(m + 1) : f[k] \in Seq(Int)
      BY <2>1 DEF Joins
    <3> HIDE DEF x, v
    <3> QED BY <2>2, <3>1, <3>2
  <2>5. v = f[m + 1] \o seqs[x]
    OBVIOUS
  <2> HIDE DEF v
  <2>6. g[x] = v /\ \A k \in 1..x : k # x => g[k] = f[k]
    BY <2>3
  <2> HIDE DEF x, g
  <2>7. g[1] = seqs[1]
    BY <2>1, <2>3, <2>6 DEF Joins
  <2>8. ASSUME NEW k \in 2..x PROVE g[k] = g[k - 1] \o seqs[k]
    <3>1. CASE k = x
      <4>1. g[k - 1] = f[m + 1]
        BY <2>3, <2>6, <3>1
      <4> QED BY <2>5, <2>6, <3>1, <4>1, Zenon
    <3>2. CASE k # x
      <4>1. k \in 2..(m + 1) /\ g[k] = f[k] /\ g[k - 1] = f[k - 1]
        BY <2>3, <2>6, <3>2
      <4>2. f[k] = f[k - 1] \o seqs[k]
        BY <2>1, <4>1, Zenon DEF Joins
      <4> QED BY <4>1, <4>2, Zenon
    <3> QED BY <3>1, <3>2
  <2>9. Joins(seqs, x, g)
    BY <2>4, <2>7, <2>8, Zenon DEF Joins
  <2> QED BY <2>9
<1> HIDE DEF T
<1>3. Nat \subseteq T
  BY <1>1, <1>2, EveryNumber
<1>4. n - 1 \in T /\ (n - 1) + 1 = n /\ n <= n
  BY <1>3
<1> QED BY <1>4 DEF T

LEMMA FlattenJoins ==
    ASSUME NEW seqs \in Seq(Seq(Int)), seqs # << >>
    PROVE  \E f : Joins(seqs, Len(seqs), f) /\ FlattenSeq(seqs) = f[Len(seqs)]
<1> DEFINE n == Len(seqs)
           Is(f) == f = [k \in 1..n |-> IF k = 1 THEN seqs[k] ELSE f[k - 1] \o seqs[k]]
           h == CHOOSE f : Is(f)
<1>1. n \in Nat \ {0} /\ \A k \in 1..n : seqs[k] \in Seq(Int)
  OBVIOUS
<1>2. FlattenSeq(seqs) = h[n]
  BY <1>1 DEF FlattenSeq
<1> HIDE DEF n
<1>3. PICK f : Joins(seqs, n, f)
  BY <1>1, JoinsExist
<1>4. Is(f)
  <2>1. \A k \in 1..n : k = 1 \/ k \in 2..n
    BY <1>1
  <2>2. \A k \in 1..n : f[k] = IF k = 1 THEN seqs[k] ELSE f[k - 1] \o seqs[k]
    BY <1>3, <2>1, Zenon DEF Joins
  <2>3. f = [k \in 1..n |-> f[k]]
    BY <1>3 DEF Joins
  <2> QED BY <2>2, <2>3, Zenon
<1>5. Is(h)
  BY <1>4
<1> HIDE DEF h
<1>6. DOMAIN h = 1..n
  BY <1>5
<1>7. \A k \in 1..n : h[k] = IF k = 1 THEN seqs[k] ELSE h[k - 1] \o seqs[k]
  BY <1>5, Zenon
<1>8. h[1] = seqs[1]
  BY <1>1, <1>7
<1>9. \A k \in 2..n : h[k] = h[k - 1] \o seqs[k]
  <2>1. \A k \in 2..n : k \in 1..n /\ k # 1
    BY <1>1
  <2> QED BY <1>7, <2>1, Zenon
<1> DEFINE T == {k \in Nat : k + 1 <= n => h[k + 1] \in Seq(Int)}
<1>10. 0 \in T
  BY <1>1, <1>8
<1>11. ASSUME NEW k \in Nat, k \in T PROVE k + 1 \in T
  <2> DEFINE x == (k + 1) + 1
  <2> SUFFICES ASSUME x <= n PROVE h[x] \in Seq(Int)
    OBVIOUS
  <2>1. h[k + 1] \in Seq(Int) /\ x \in 2..n /\ x - 1 = k + 1 /\ seqs[x] \in Seq(Int)
    BY <1>1, <1>11
  <2>2. h[x] = h[x - 1] \o seqs[x]
    BY <1>9, <2>1, Zenon
  <2> HIDE DEF x
  <2> QED BY <2>1, <2>2, ConcatProperties
<1> HIDE DEF T
<1>12. Nat \subseteq T
  BY <1>10, <1>11, EveryNumber
<1>13. \A k \in 1..n : h[k] \in Seq(Int)
  <2> TAKE k \in 1..n
  <2>1. k - 1 \in T /\ (k - 1) + 1 = k /\ k <= n
    BY <1>1, <1>12
  <2> QED BY <2>1 DEF T
<1>14. h \in [1..n -> Seq(Int)]
  <2>1. h = [k \in 1..n |-> h[k]]
    BY <1>5, <1>6, Zenon
  <2> QED BY <1>13, <2>1
<1>15. Joins(seqs, n, h)
  BY <1>8, <1>9, <1>14, Zenon DEF Joins
<1> QED BY <1>2, <1>15 DEF n

-----------------------------------------------------------------------------
(* What is computed by chunks.                                              *)

\* The ends of a chunk are numbers of the type.
LEMMA ChunkNumbers ==
    ASSUME TypeOK, NEW k \in 1..Len(chunks)
    PROVE  chunks[k].first \in Ints /\ chunks[k].last \in Ints
<1> DEFINE S == [first : Ints, last : Ints]
<1>1. chunks \in Seq(S)
  BY DEF TypeOK
<1> HIDE DEF S
<1>2. chunks[k] \in S
  BY <1>1
<1> QED BY <1>2 DEF S

\* No chunk is outside of the range.
LEMMA ChunksAreInside ==
    ASSUME ChunksAssumption, TypeOK, IsPartition(chunks)
    PROVE  /\ Len(chunks) \in Nat \ {0}
           /\ \A k \in 1..Len(chunks) :
                 /\ chunks[k].first \in Int /\ chunks[k].last \in Int
                 /\ x_from <= chunks[k].first /\ chunks[k].first <= chunks[k].last
                 /\ chunks[k].last <= x_to
<1> DEFINE n == Len(chunks)
           T == {k \in Nat : k + 1 <= n => x_from <= chunks[k + 1].first}
           U == {k \in Nat : k < n => chunks[n - k].last <= x_to}
<1>1. chunks \in Seq([first : Ints, last : Ints]) /\ Ints \subseteq Int
      /\ x_from \in Int /\ x_to \in Int
  BY DEF TypeOK, ChunksAssumption, Ints, MinInt
<1>2. n \in Nat \ {0}
  BY <1>1 DEF IsPartition
<1>3. \A k \in 1..n : chunks[k].first \in Int /\ chunks[k].last \in Int
  BY <1>1, ChunkNumbers, Zenon
<1>4. /\ chunks[1].first = x_from /\ chunks[n].last = x_to
      /\ \A k \in 1..n : chunks[k].first <= chunks[k].last
      /\ \A k \in 1..(n - 1) : chunks[k + 1].first = chunks[k].last + 1
  BY DEF IsPartition, Joined
<1> HIDE DEF n
<1>5. Nat \subseteq T
  <2>1. 0 \in T
    BY <1>1, <1>4
  <2>2. ASSUME NEW k \in Nat, k \in T PROVE k + 1 \in T
    <3> DEFINE x == k + 1
    <3> SUFFICES ASSUME x + 1 <= n PROVE x_from <= chunks[x + 1].first
      OBVIOUS
    <3>1. x_from <= chunks[x].first /\ x \in 1..(n - 1) /\ x \in 1..n
      BY <1>2, <2>2
    <3> HIDE DEF x
    <3>2. chunks[x + 1].first = chunks[x].last + 1 /\ chunks[x].first <= chunks[x].last
      BY <1>4, <3>1
    <3> QED BY <1>1, <1>3, <3>1, <3>2
  <2> HIDE DEF T
  <2> QED BY <2>1, <2>2, EveryNumber
<1>6. Nat \subseteq U
  <2>1. 0 \in U
    <3>1. n - 0 = n
      BY <1>2
    <3> QED BY <1>1, <1>4, <3>1
  <2>2. ASSUME NEW k \in Nat, k \in U PROVE k + 1 \in U
    <3> DEFINE x == n - (k + 1)
    <3> SUFFICES ASSUME k + 1 < n PROVE chunks[x].last <= x_to
      OBVIOUS
    <3>1. x + 1 = n - k /\ x \in 1..(n - 1) /\ x \in 1..n /\ x + 1 \in 1..n
      BY <1>2
    <3>2. chunks[n - k].last <= x_to
      BY <1>2, <2>2
    <3> HIDE DEF x
    <3>3. chunks[x + 1].last <= x_to
      BY <3>1, <3>2
    <3>4. chunks[x + 1].first = chunks[x].last + 1 /\ chunks[x + 1].first <= chunks[x + 1].last
      BY <1>4, <3>1
    <3>5. chunks[x].last \in Int /\ chunks[x + 1].first \in Int /\ chunks[x + 1].last \in Int
      BY <1>3, <3>1
    <3> QED BY <1>1, <3>3, <3>4, <3>5
  <2> HIDE DEF U
  <2> QED BY <2>1, <2>2, EveryNumber
<1> HIDE DEF T, U
<1>7. ASSUME NEW k \in 1..n PROVE x_from <= chunks[k].first /\ chunks[k].last <= x_to
  <2>1. k - 1 \in T /\ (k - 1) + 1 = k /\ k <= n
    BY <1>2, <1>5
  <2>2. n - k \in U /\ n - k < n /\ n - (n - k) = k
    BY <1>2, <1>6
  <2>3. x_from <= chunks[k].first
    BY <2>1 DEF T
  <2>4. chunks[k].last <= x_to
    BY <2>2 DEF U
  <2> QED BY <2>3, <2>4
<1> QED BY <1>2, <1>3, <1>4, <1>7 DEF n

\* A loop with room for a step behind its end is over after its last turn.
LEMMA LoopIsOver ==
    ASSUME ChunksAssumption, NEW a \in Ints, NEW b \in Ints, a <= b,
           NEW step \in Nat \ {0}, b <= MaxInt - step
    PROVE  LoopEnds(a, b, step)
<1> DEFINE q == (b - a) \div step
           r == (b - a) % step
           p == q * step
<1>1. a \in Int /\ b \in Int /\ MaxInt \in Int /\ MinInt \in Int /\ a >= MinInt
  BY DEF ChunksAssumption, Ints, MinInt
<1>2. q \in Nat /\ r \in 0..(step - 1) /\ b - a = p + r
  <2>1. b - a \in Nat
    BY <1>1
  <2> QED BY <2>1, Division
<1> HIDE DEF q, r
<1>3. (q + 1) * step = p + step /\ p \in Nat
  BY <1>2
<1> HIDE DEF p
<1>4. a + (q + 1) * step > b /\ a + (q + 1) * step \in MinInt..MaxInt
  <2> DEFINE v == (q + 1) * step
  <2>1. v = p + step
    BY <1>3
  <2> HIDE DEF v
  <2> QED BY <1>1, <1>2, <1>3, <2>1
<1>5. Narrow(a + (q + 1) * step) = a + (q + 1) * step
  BY <1>4, NarrowFits DEF Ints
<1> QED BY <1>4, <1>5 DEF LoopEnds, q

\* Chunks of whole steps.
LEMMA PointsJoin ==
    ASSUME ChunksAssumption, TypeOK, IsPartition(chunks), NEW step \in Nat \ {0},
           \A k \in 1..(Len(chunks) - 1) :
               (chunks[k].last - chunks[k].first + 1) % step = 0
    PROVE  PointsResult(step) = Loop(x_from, x_to, step)
<1> DEFINE n == Len(chunks)
           part(k) == Loop(chunks[k].first, chunks[k].last, step)
           parts == [k \in 1..n |-> part(k)]
<1>1. /\ n \in Nat \ {0} /\ x_from \in Int /\ x_to \in Int
      /\ \A k \in 1..n : /\ chunks[k].first \in Int /\ chunks[k].last \in Int
                         /\ x_from <= chunks[k].first /\ chunks[k].first <= chunks[k].last
  BY ChunksAreInside DEF TypeOK, ChunksAssumption, Ints, MinInt
<1>2. /\ chunks[1].first = x_from /\ chunks[n].last = x_to
      /\ \A k \in 1..(n - 1) : chunks[k + 1].first = chunks[k].last + 1
  BY DEF IsPartition, Joined
<1>3. PointsResult(step) = FlattenSeq(parts)
  BY DEF PointsResult, Reduced, calculateFunction
<1>a. \A k \in 1..(n - 1) : (chunks[k].last - chunks[k].first + 1) % step = 0
  OBVIOUS
<1> HIDE DEF n
<1>4. \A k \in 1..n : part(k) \in Seq(Int)
  BY <1>1, LoopType DEF GoesThrough
<1> HIDE DEF part
<1>5. parts \in Seq(Seq(Int)) /\ Len(parts) = n /\ parts # << >>
      /\ \A k \in 1..n : parts[k] = part(k)
  BY <1>1, <1>4
<1> HIDE DEF parts
<1>6. PICK f : Joins(parts, n, f) /\ FlattenSeq(parts) = f[n]
  BY <1>5, FlattenJoins
<1> DEFINE Whole(k) == \E q \in Nat \ {0} : chunks[k].last - x_from + 1 = q * step
           T == {k \in Nat : k + 1 <= n =>
                    /\ f[k + 1] = Loop(x_from, chunks[k + 1].last, step)
                    /\ (k + 1 < n => Whole(k + 1))}
<1>7. ASSUME NEW k \in 1..(n - 1)
      PROVE  \E q \in Nat \ {0} : chunks[k].last - chunks[k].first + 1 = q * step
  <2> DEFINE size == chunks[k].last - chunks[k].first + 1
  <2>1. size \in Nat \ {0} /\ size % step = 0
    BY <1>1, <1>a
  <2> HIDE DEF size
  <2>2. size \div step \in Nat /\ size = (size \div step) * step + 0
    BY <2>1, Division
  <2> DEFINE q == size \div step
  <2>3. q \in Nat /\ size = q * step + 0
    BY <2>2
  <2> HIDE DEF q
  <2>4. q # 0 /\ size = q * step
    BY <2>1, <2>3
  <2> QED BY <2>3, <2>4 DEF size
<1>8. 0 \in T
  <2>1. f[1] = Loop(x_from, chunks[1].last, step)
    BY <1>1, <1>2, <1>5, <1>6 DEF Joins, part
  <2>2. 1 < n => Whole(1)
    <3> SUFFICES ASSUME 1 < n PROVE Whole(1)
      OBVIOUS
    <3>1. 1 \in 1..(n - 1)
      BY <1>1
    <3> QED BY <1>2, <1>7, <3>1
  <2> QED BY <2>1, <2>2
<1>9. ASSUME NEW k \in Nat, k \in T PROVE k + 1 \in T
  <2> DEFINE x == k + 1
             y == x + 1
  <2> SUFFICES ASSUME y <= n
               PROVE  /\ f[y] = Loop(x_from, chunks[y].last, step)
                      /\ (y < n => Whole(y))
    OBVIOUS
  <2>1. f[x] = Loop(x_from, chunks[x].last, step) /\ Whole(x)
    <3>1. x <= n /\ x < n
      BY <1>1
    <3>2. k \in T
      BY <1>9
    <3> QED BY <3>1, <3>2
  <2>2. /\ x \in 1..(n - 1) /\ x \in 1..n /\ y \in 1..n /\ y \in 2..n /\ y - 1 = x
        /\ y = x + 1 /\ (y < n => y \in 1..(n - 1))
    BY <1>1
  <2> HIDE DEF x, y
  <2> DEFINE b == chunks[x].last
             c == chunks[y].last
  <2>3. chunks[y].first = b + 1
    BY <1>2, <2>2
  <2>4. PICK q \in Nat \ {0} : b - x_from + 1 = q * step
    BY <2>1
  <2>5. b \in Int /\ c \in Int /\ x_from <= b /\ b < c
    <3>1. /\ chunks[x].first \in Int /\ chunks[x].last \in Int
          /\ x_from <= chunks[x].first /\ chunks[x].first <= chunks[x].last
          /\ chunks[y].first \in Int /\ chunks[y].last \in Int
          /\ chunks[y].first <= chunks[y].last
      BY <1>1, <2>2
    <3> QED BY <1>1, <2>3, <3>1
  <2>6. f[y] = f[x] \o part(y)
    BY <1>5, <1>6, <2>2, Zenon DEF Joins
  <2>7. part(y) = Loop(b + 1, c, step)
    BY <2>3 DEF part
  <2> HIDE DEF b, c
  <2>8. Loop(x_from, b, step) \o Loop(b + 1, c, step) = Loop(x_from, c, step)
    <3>1. x_from \in Int /\ step \in Nat \ {0}
      BY <1>1
    <3>2. WholeTurns(b - x_from + 1, step)
      BY <2>4 DEF WholeTurns
    <3> QED BY <2>5, <3>1, <3>2, LoopJoins
  <2>9. f[y] = Loop(x_from, c, step)
    BY <2>1, <2>6, <2>7, <2>8, Zenon DEF b
  <2>10. ASSUME y < n PROVE Whole(y)
    <3>1. PICK p \in Nat \ {0} : chunks[y].last - chunks[y].first + 1 = p * step
      BY <1>7, <2>2, <2>10
    <3>2. c - (b + 1) + 1 = p * step
      BY <2>3, <3>1 DEF c
    <3>3. (q + p) * step = q * step + p * step /\ q + p \in Nat \ {0}
          /\ q * step \in Int /\ p * step \in Int
      OBVIOUS
    <3> DEFINE u == q * step
               v == p * step
               w == (q + p) * step
    <3>4. b - x_from + 1 = u /\ c - (b + 1) + 1 = v /\ w = u + v /\ u \in Int /\ v \in Int
      BY <2>4, <3>2, <3>3
    <3> HIDE DEF u, v, w
    <3>5. c - x_from + 1 = w
      <4>1. x_from \in Int /\ b \in Int /\ c \in Int
        BY <1>1, <2>5
      <4> QED BY <3>4, <4>1
    <3> QED BY <3>3, <3>5 DEF w, c
  <2> QED BY <2>9, <2>10 DEF c
<1> HIDE DEF T
<1>10. Nat \subseteq T
  BY <1>8, <1>9, EveryNumber
<1>11. n - 1 \in T /\ (n - 1) + 1 = n /\ n <= n
  BY <1>1, <1>10
<1>12. f[n] = Loop(x_from, chunks[n].last, step)
  BY <1>11 DEF T
<1> QED BY <1>2, <1>3, <1>6, <1>12

LEMMA PointsOfChunks ==
    ASSUME ChunksAssumption, TaskMathAssumption, TypeOK, PartitionsRange
    PROVE  PointsAreWhole
<1> SUFFICES ASSUME Divided, NEW step \in Steps, x_to <= MaxInt - step,
                    \A k \in 1..(Len(chunks) - 1) :
                        (chunks[k].last - chunks[k].first + 1) % step = 0
             PROVE  /\ PointsResult(step) = Loop(x_from, x_to, step)
                    /\ \A k \in 1..Len(chunks) :
                          LoopEnds(chunks[k].first, chunks[k].last, step)
  BY DEF PointsAreWhole
<1>1. IsPartition(chunks)
  BY DEF PartitionsRange, Divided
<1>2. step \in Nat \ {0}
  BY DEF TaskMathAssumption
<1>3. ASSUME NEW k \in 1..Len(chunks) PROVE LoopEnds(chunks[k].first, chunks[k].last, step)
  <2>1. chunks[k].first \in Ints /\ chunks[k].last \in Ints
    BY ChunkNumbers
  <2>2. /\ chunks[k].last \in Int /\ chunks[k].first <= chunks[k].last
        /\ chunks[k].last <= x_to /\ x_to \in Int /\ MaxInt \in Int
    <3>1. x_to \in Int /\ MaxInt \in Int
      BY DEF TypeOK, ChunksAssumption, Ints, MinInt
    <3>2. /\ chunks[k].last \in Int /\ chunks[k].first <= chunks[k].last
          /\ chunks[k].last <= x_to
      BY <1>1, ChunksAreInside, Zenon
    <3> QED BY <3>1, <3>2
  <2>3. chunks[k].last <= MaxInt - step
    BY <1>2, <2>2
  <2> QED BY <1>2, <2>1, <2>2, <2>3, LoopIsOver
<1> QED BY <1>1, <1>2, <1>3, PointsJoin

\* Whatever the width of int, the ranges and the steps: the points that
\* calculateFunction computes chunk by chunk, joined by its reduce function in the
\* order of the chunks, are those of one pass over the range, none left out, shifted
\* or computed twice, and no chunk's loop goes past INT_MAX and on.
THEOREM PointsAreJoined ==
    ChunksAssumption /\ TaskMathAssumption => (Spec => []PointsAreWhole)
<1> SUFFICES ASSUME ChunksAssumption, TaskMathAssumption
             PROVE  Spec => []PointsAreWhole
  OBVIOUS
<1>1. TypeOK /\ PartitionsRange => PointsAreWhole
  BY PointsOfChunks
<1>2. Spec => []TypeOK
  BY ChunksTypeCorrect
<1>3. Spec => []PartitionsRange
  BY RangeIsPartitioned
<1> QED BY <1>1, <1>2, <1>3, PTL

-----------------------------------------------------------------------------
(* Sorting.                                                                 *)

LEMMA UpToCount ==
    ASSUME NEW n \in Nat
    PROVE  IsFiniteSet(1..n) /\ Cardinality(1..n) = n
<1>1. /\ IsFiniteSet(1..n)
      /\ Cardinality(1..n) = IF 1 > n THEN 0 ELSE n - 1 + 1
  BY 1 \in Int, n \in Int, FS_Interval, Zenon
<1> QED BY <1>1

LEMMA CountsType ==
    ASSUME NEW s \in Seq(Int), NEW x \in Int
    PROVE  /\ Below(s, x) \in 0..Len(s) /\ UpTo(s, x) \in 0..Len(s)
           /\ Below(s, x) \in Int /\ UpTo(s, x) \in Int
           /\ UpTo(s, x) = Below(s, x + 1)
<1> DEFINE K == 1..Len(s)
           A == {k \in K : s[k] < x}
           B == {k \in K : s[k] <= x}
<1>1. Len(s) \in Nat /\ \A k \in K : s[k] \in Int
  OBVIOUS
<1>2. IsFiniteSet(K) /\ Cardinality(K) = Len(s)
  BY <1>1, UpToCount
<1>3. \A C \in SUBSET K : IsFiniteSet(C) /\ Cardinality(C) \in 0..Len(s)
  <2> TAKE C \in SUBSET K
  <2>1. IsFiniteSet(C) /\ Cardinality(C) <= Len(s)
    BY <1>2, FS_Subset
  <2>2. Cardinality(C) \in Nat
    BY <2>1, FS_CardinalityType
  <2> QED BY <1>1, <2>1, <2>2
<1>4. B = {k \in K : s[k] < x + 1}
  BY <1>1
<1>5. Cardinality(A) \in 0..Len(s) /\ Cardinality(B) \in 0..Len(s)
  BY <1>3, Zenon
<1>6. Below(s, x) = Cardinality(A) /\ UpTo(s, x) = Cardinality(B)
  BY DEF Below, UpTo
<1>7. Below(s, x + 1) = Cardinality({k \in K : s[k] < x + 1})
  BY DEF Below
<1>8. UpTo(s, x) = Below(s, x + 1)
  BY <1>4, <1>6, <1>7, Zenon
<1> QED BY <1>1, <1>5, <1>6, <1>8

\* A number below x is not above any number below x.
LEMMA CountsGrow ==
    ASSUME NEW s \in Seq(Int), NEW x \in Int, NEW y \in Int, x < y
    PROVE  UpTo(s, x) <= Below(s, y)
<1> DEFINE K == 1..Len(s)
           A == {k \in K : s[k] <= x}
           B == {k \in K : s[k] < y}
<1>1. \A k \in K : s[k] \in Int
  OBVIOUS
<1>2. A \subseteq B
  BY <1>1
<1>3. IsFiniteSet(B)
  <2>1. IsFiniteSet(K)
    BY FS_Interval
  <2> QED BY <2>1, FS_Subset
<1> HIDE DEF A, B
<1>4. Cardinality(A) <= Cardinality(B)
  BY <1>2, <1>3, FS_Subset
<1> QED BY <1>4 DEF A, B, Below, UpTo

\* There is a k-th number.
LEMMA RankExists ==
    ASSUME NEW lo \in Int, NEW hi \in Int, NEW s \in Seq(lo..hi), NEW k \in 1..Len(s)
    PROVE  \E x \in Range(s) : Below(s, x) < k /\ k <= UpTo(s, x)
<1> DEFINE T == {j \in Nat : UpTo(s, lo + j - 1) < k}
<1>1. /\ s \in Seq(Int) /\ Len(s) \in Nat /\ lo <= hi
      /\ \A m \in 1..Len(s) : s[m] \in Int /\ lo <= s[m] /\ s[m] <= hi
  <2>1. \A m \in 1..Len(s) : s[m] \in lo..hi
    OBVIOUS
  <2>2. s \in Seq(Int)
    BY lo..hi \subseteq Int
  <2> QED BY <2>1, <2>2
<1>2. 0 \in T
  <2>1. {m \in 1..Len(s) : s[m] <= lo + 0 - 1} = {}
    BY <1>1
  <2>2. UpTo(s, lo + 0 - 1) = 0
    BY <2>1, FS_EmptySet DEF UpTo
  <2> QED BY <2>2
<1>3. hi - lo + 1 \notin T /\ hi - lo + 1 \in Nat
  <2>1. {m \in 1..Len(s) : s[m] <= hi} = 1..Len(s)
    BY <1>1
  <2>2. UpTo(s, hi) = Len(s)
    BY <1>1, <2>1, UpToCount DEF UpTo
  <2>3. lo + (hi - lo + 1) - 1 = hi
    OBVIOUS
  <2> QED BY <1>1, <2>2, <2>3
<1>4. PICK j \in Nat : j \in T /\ j + 1 \notin T
  <2> HIDE DEF T
  <2> QED BY <1>2, <1>3, EveryNumber
<1> DEFINE x == lo + j
<1>5. x \in Int /\ lo + j - 1 \in Int /\ (lo + j - 1) + 1 = x /\ lo + (j + 1) - 1 = x
      /\ j + 1 \in Nat
  OBVIOUS
<1>6. UpTo(s, lo + j - 1) < k /\ ~(UpTo(s, x) < k)
  BY <1>4, <1>5
<1> HIDE DEF T, x
<1>7. Below(s, x) < k /\ k <= UpTo(s, x)
  <2>1. Below(s, x) = UpTo(s, lo + j - 1) /\ UpTo(s, x) \in Int
    BY <1>1, <1>5, CountsType
  <2> QED BY <1>1, <1>6, <2>1
<1>8. x \in Range(s)
  <2> SUFFICES ASSUME x \notin Range(s) PROVE FALSE
    OBVIOUS
  <2>1. \A m \in 1..Len(s) : s[m] # x
    BY DEF Range
  <2>2. {m \in 1..Len(s) : s[m] < x} = {m \in 1..Len(s) : s[m] <= x}
    BY <1>1, <1>5, <2>1
  <2>3. Below(s, x) = UpTo(s, x) /\ Below(s, x) \in Int
    BY <1>1, <1>5, <2>2, CountsType DEF Below, UpTo
  <2> QED BY <1>1, <1>7, <2>3
<1> QED BY <1>7, <1>8

\* What std::sort is taken to return: as many numbers, each in its place.
LEMMA SortedType ==
    ASSUME NEW lo \in Int, NEW hi \in Int, NEW s \in Seq(lo..hi)
    PROVE  /\ Sorted(s) \in Seq(lo..hi) /\ Len(Sorted(s)) = Len(s)
           /\ \A k \in 1..Len(s) :
                 Below(s, Sorted(s)[k]) < k /\ k <= UpTo(s, Sorted(s)[k])
<1> DEFINE P(k, x) == Below(s, x) < k /\ k <= UpTo(s, x)
<1>1. \A k \in 1..Len(s) : Sorted(s)[k] = CHOOSE x \in Range(s) : P(k, x)
  BY DEF Sorted
<1>2. \A k \in 1..Len(s) : \E x \in Range(s) : P(k, x)
  BY RankExists
<1> HIDE DEF P
<1>3. \A k \in 1..Len(s) : Sorted(s)[k] \in Range(s) /\ P(k, Sorted(s)[k])
  BY <1>1, <1>2
<1>4. Range(s) \subseteq lo..hi
  BY DEF Range
<1>5. Sorted(s) = [k \in 1..Len(s) |-> Sorted(s)[k]]
  BY DEF Sorted
<1>6. Sorted(s) \in Seq(lo..hi) /\ Len(Sorted(s)) = Len(s)
  <2>1. Len(s) \in Nat /\ \A k \in 1..Len(s) : Sorted(s)[k] \in lo..hi
    BY <1>3, <1>4
  <2> QED BY <1>5, <2>1
<1> QED BY <1>3, <1>6 DEF P

\* Numbers in their places ascend.
LEMMA PlacesAscend ==
    ASSUME NEW s \in Seq(Int), NEW x \in Int, NEW y \in Int,
           NEW j \in Int, NEW k \in Int, j <= k,
           Below(s, x) < j, k <= UpTo(s, y)
    PROVE  x <= y
<1> SUFFICES ASSUME y < x PROVE FALSE
  OBVIOUS
<1>1. UpTo(s, y) <= Below(s, x) /\ UpTo(s, y) \in Int /\ Below(s, x) \in Int
  BY CountsGrow, CountsType
<1> QED BY <1>1

LEMMA SortedIsSorted ==
    ASSUME NEW lo \in Int, NEW hi \in Int, NEW s \in Seq(lo..hi)
    PROVE  IsSorted(Sorted(s), <=)
<1> DEFINE t == Sorted(s)
<1>1. /\ t \in Seq(Int) /\ s \in Seq(Int) /\ Len(t) = Len(s)
      /\ \A k \in 1..Len(t) : t[k] \in Int /\ Below(s, t[k]) < k /\ k <= UpTo(s, t[k])
  <2>1. t \in Seq(lo..hi) /\ lo..hi \subseteq Int
    BY SortedType
  <2>2. t \in Seq(Int) /\ s \in Seq(Int)
    BY <2>1
  <2> QED BY <2>2, SortedType
<1> HIDE DEF t
<1>2. ASSUME NEW j \in 1..Len(t), NEW k \in 1..Len(t), j < k
      PROVE  t[j] <= t[k]
  <2>1. /\ t[j] \in Int /\ t[k] \in Int /\ j \in Int /\ k \in Int /\ j <= k
        /\ Below(s, t[j]) < j /\ k <= UpTo(s, t[k])
    BY <1>1, <1>2
  <2> QED BY <1>1, <2>1, PlacesAscend
<1> QED BY <1>2 DEF IsSorted, t

\* Sorting changes no count.
LEMMA SortedCounts ==
    ASSUME NEW lo \in Int, NEW hi \in Int, NEW s \in Seq(lo..hi), NEW x \in Int
    PROVE  Below(Sorted(s), x) = Below(s, x)
<1> DEFINE t == Sorted(s)
           b == Below(s, x)
<1>1. /\ t \in Seq(Int) /\ s \in Seq(Int) /\ Len(t) = Len(s)
      /\ \A k \in 1..Len(t) : t[k] \in Int /\ Below(s, t[k]) < k /\ k <= UpTo(s, t[k])
  <2>1. t \in Seq(lo..hi) /\ lo..hi \subseteq Int
    BY SortedType
  <2>2. t \in Seq(Int) /\ s \in Seq(Int)
    BY <2>1
  <2> QED BY <2>2, SortedType
<1>2. b \in 0..Len(t)
  BY <1>1, CountsType
<1> HIDE DEF t
<1>3. ASSUME NEW k \in 1..Len(t) PROVE t[k] < x <=> k <= b
  <2>1. CASE t[k] < x
    <3>1. UpTo(s, t[k]) <= b /\ UpTo(s, t[k]) \in Int /\ k <= UpTo(s, t[k])
      BY <1>1, <2>1, CountsGrow, CountsType
    <3> HIDE DEF b
    <3> QED BY <1>2, <2>1, <3>1
  <2>2. CASE ~(t[k] < x)
    <3>1. CASE t[k] = x
      BY <1>1, <1>2, <2>2, <3>1
    <3>2. CASE x < t[k]
      <4>1. UpTo(s, x) <= Below(s, t[k])
        BY <1>1, <3>2, CountsGrow
      <4>2. b <= UpTo(s, x)
        <5>1. UpTo(s, x - 1) = b /\ x - 1 \in Int /\ x - 1 < x
          <6>1. (x - 1) + 1 = x /\ x - 1 \in Int
            OBVIOUS
          <6> QED BY <1>1, <6>1, CountsType
        <5>2. UpTo(s, x) = Below(s, x + 1) /\ x < x + 1
          BY <1>1, CountsType
        <5>3. UpTo(s, x - 1) <= Below(s, x + 1)
          BY <1>1, <5>1, CountsGrow
        <5> QED BY <5>1, <5>2, <5>3
      <4>3. /\ Below(s, t[k]) < k /\ Below(s, t[k]) \in Int /\ UpTo(s, x) \in Int
        BY <1>1, CountsType
      <4> HIDE DEF b
      <4> QED BY <1>2, <2>2, <4>1, <4>2, <4>3
    <3> QED BY <1>1, <2>2, <3>1, <3>2
  <2> QED BY <2>1, <2>2
<1>4. {k \in 1..Len(t) : t[k] < x} = 1..b
  <2> HIDE DEF b
  <2>1. \A k \in 1..Len(t) : t[k] < x <=> k \in 1..b
    BY <1>2, <1>3
  <2>2. 1..b \subseteq 1..Len(t)
    BY <1>1, <1>2
  <2> HIDE DEF t
  <2> QED BY <2>1, <2>2, Zenon
<1>5. Cardinality(1..b) = b
  <2> HIDE DEF b
  <2> QED BY <1>1, <1>2, UpToCount
<1>6. Below(t, x) = b
  BY <1>4, <1>5, Zenon DEF Below
<1> QED BY <1>6 DEF t

\* Two arrays of the same counts are the same when sorted.
LEMMA SortedByCounts ==
    ASSUME NEW lo \in Int, NEW hi \in Int, NEW s \in Seq(lo..hi), NEW t \in Seq(lo..hi),
           Len(s) = Len(t), \A x \in Int : Below(s, x) = Below(t, x)
    PROVE  Sorted(s) = Sorted(t)
<1>1. s \in Seq(Int) /\ t \in Seq(Int) /\ Len(s) \in Nat
  BY lo..hi \subseteq Int
<1>2. \A x \in Int : UpTo(s, x) = UpTo(t, x)
  <2> TAKE x \in Int
  <2>1. x + 1 \in Int
    OBVIOUS
  <2>2. UpTo(s, x) = Below(s, x + 1)
    BY <1>1, CountsType, Zenon
  <2>3. UpTo(t, x) = Below(t, x + 1)
    BY <1>1, CountsType, Zenon
  <2> QED BY <2>1, <2>2, <2>3
<1>3. ASSUME NEW k \in 1..Len(s) PROVE Sorted(s)[k] = Sorted(t)[k]
  <2> DEFINE x == Sorted(s)[k]
             y == Sorted(t)[k]
  <2>1. /\ Sorted(s) \in Seq(lo..hi) /\ Sorted(t) \in Seq(lo..hi)
        /\ Len(Sorted(s)) = Len(s) /\ Len(Sorted(t)) = Len(s)
        /\ Below(s, x) < k /\ k <= UpTo(s, x)
        /\ Below(t, y) < k /\ k <= UpTo(t, y)
    BY SortedType
  <2>2. x \in Int /\ y \in Int /\ k \in Int /\ k <= k
    <3>1. \A u \in Seq(lo..hi) : Len(u) = Len(s) => u[k] \in lo..hi
      OBVIOUS
    <3>2. x \in lo..hi /\ y \in lo..hi
      BY <2>1, <3>1, Zenon
    <3> QED BY <3>2
  <2> HIDE DEF x, y
  <2>3. Below(s, y) < k /\ k <= UpTo(s, y)
    BY <1>2, <2>1, <2>2
  <2>4. x <= y /\ y <= x
    BY <1>1, <2>1, <2>2, <2>3, PlacesAscend
  <2>5. x = y
    BY <2>2, <2>4
  <2> QED BY <2>5 DEF x, y
<1>4. /\ Sorted(s) = [k \in 1..Len(s) |-> Sorted(s)[k]]
      /\ Sorted(t) = [k \in 1..Len(t) |-> Sorted(t)[k]]
  BY DEF Sorted
<1> QED BY <1>3, <1>4, Zenon

LEMMA ConcatCounts ==
    ASSUME NEW s \in Seq(Int), NEW t \in Seq(Int), NEW x \in Int
    PROVE  Below(s \o t, x) = Below(s, x) + Below(t, x)
<1> DEFINE m == Len(s)
           n == Len(t)
           u == s \o t
           A == {k \in 1..m : s[k] < x}
           B == {k \in 1..n : t[k] < x}
           C == {k \in (m + 1)..(m + n) : t[k - m] < x}
           f == [k \in B |-> k + m]
<1>1. /\ m \in Nat /\ n \in Nat /\ Len(u) = m + n
      /\ \A k \in 1..m : u[k] = s[k]
      /\ \A k \in (m + 1)..(m + n) : u[k] = t[k - m]
  BY ConcatProperties
<1>2. IsFiniteSet(A) /\ IsFiniteSet(B)
  <2>1. IsFiniteSet(1..m) /\ IsFiniteSet(1..n)
    BY <1>1, UpToCount
  <2> QED BY <2>1, FS_Subset
<1> HIDE DEF m, n, u
<1>3. {k \in 1..Len(u) : u[k] < x} = A \cup C
  BY <1>1
<1>4. A \cap C = {}
  BY <1>1
<1>5. f \in Bijection(B, C)
  <2>1. f \in [B -> C]
    <3>1. \A k \in B : k + m \in (m + 1)..(m + n) /\ (k + m) - m = k
      BY <1>1
    <3> QED BY <3>1
  <2>2. \A k, l \in B : f[k] = f[l] => k = l
    BY <1>1
  <2>3. \A l \in C : \E k \in B : f[k] = l
    <3> TAKE l \in C
    <3>1. l - m \in B /\ (l - m) + m = l
      BY <1>1
    <3> QED BY <3>1
  <2> HIDE DEF B, C, f
  <2> QED BY <2>1, <2>2, <2>3 DEF Bijection, Injection, Surjection, IsInjective
<1>6. IsFiniteSet(C) /\ Cardinality(C) = Cardinality(B)
  <2> HIDE DEF B, C, f
  <2>1. ExistsBijection(B, C)
    BY <1>5 DEF ExistsBijection
  <2> QED BY <1>2, <2>1, FS_Bijection
<1> HIDE DEF A, B, C
<1>7. Cardinality(A \cup C) = Cardinality(A) + Cardinality(B)
  <2>1. Cardinality(A \cup C) = Cardinality(A) + Cardinality(C) - Cardinality(A \cap C)
    BY <1>2, <1>6, FS_Union
  <2>2. Cardinality(A \cap C) = 0
    BY <1>4, FS_EmptySet
  <2>3. Cardinality(A) \in Nat /\ Cardinality(C) \in Nat
    BY <1>2, <1>6, FS_CardinalityType
  <2> QED BY <1>6, <2>1, <2>2, <2>3
<1>8. /\ Below(u, x) = Cardinality(A \cup C)
      /\ Below(s, x) = Cardinality(A) /\ Below(t, x) = Cardinality(B)
  BY <1>3, Zenon DEF Below, A, B, m, n
<1> QED BY <1>7, <1>8 DEF u

\* What std::inplace_merge makes of two sorted parts.
LEMMA MergeSorted ==
    ASSUME NEW lo \in Int, NEW hi \in Int, NEW s \in Seq(lo..hi), NEW t \in Seq(lo..hi)
    PROVE  inplace_merge(Sorted(s), Sorted(t)) = Sorted(s \o t)
<1> DEFINE a == Sorted(s)
           b == Sorted(t)
<1>1. /\ a \in Seq(lo..hi) /\ b \in Seq(lo..hi) /\ Len(a) = Len(s) /\ Len(b) = Len(t)
      /\ \A x \in Int : Below(a, x) = Below(s, x) /\ Below(b, x) = Below(t, x)
  BY SortedType, SortedCounts
<1>a. IsSorted(a, <=) /\ IsSorted(b, <=)
  BY SortedIsSorted
<1> HIDE DEF a, b
<1>2. \A u \in Seq(lo..hi) : u \in Seq(Int)
  BY lo..hi \subseteq Int
<1>3. /\ a \o b \in Seq(lo..hi) /\ s \o t \in Seq(lo..hi)
      /\ Len(a \o b) = Len(a) + Len(b) /\ Len(s \o t) = Len(s) + Len(t)
  BY <1>1, ConcatProperties
<1>4. \A x \in Int : Below(a \o b, x) = Below(s \o t, x)
  <2> TAKE x \in Int
  <2>1. /\ Below(a \o b, x) = Below(a, x) + Below(b, x)
        /\ Below(s \o t, x) = Below(s, x) + Below(t, x)
    BY <1>1, <1>2, ConcatCounts
  <2> QED BY <1>1, <2>1
<1>5. Sorted(a \o b) = Sorted(s \o t)
  <2>1. Len(a \o b) = Len(s \o t)
    BY <1>1, <1>3
  <2> QED BY <1>3, <1>4, <2>1, SortedByCounts, Zenon
<1>6. inplace_merge(a, b) = Sorted(a \o b)
  BY <1>a, Zenon DEF inplace_merge
<1> QED BY <1>5, <1>6 DEF a, b

LEMMA SortOfChunks ==
    ASSUME ChunksAssumption, TypeOK, IsPartition(chunks), x_from = 0,
           NEW lo \in Int, NEW hi \in Int, NEW container \in Seq(lo..hi),
           Len(container) = x_to + 1
    PROVE  SortResult(container) = Sorted(container)
<1> DEFINE n == Len(chunks)
           parts == Subcontainers(container)
           reach(k) == IF k = 0 THEN 0 ELSE chunks[k].last + 1
           front(k) == SubSeq(container, 1, reach(k))
           g == [k \in 0..n |-> Sorted(front(k))]
           step(f, k) == IF k = 0 THEN << >> ELSE inplace_merge(f[k - 1], sortArray(parts[k]))
           Is(f) == f = [k \in 0..n |-> step(f, k)]
           h == CHOOSE f : Is(f)
<1>1. /\ n \in Nat \ {0} /\ x_to \in Int
      /\ \A k \in 1..n : /\ chunks[k].first \in Int /\ chunks[k].last \in Int
                         /\ 0 <= chunks[k].first /\ chunks[k].first <= chunks[k].last
                         /\ chunks[k].last <= x_to
  BY ChunksAreInside DEF TypeOK, ChunksAssumption, Ints, MinInt
<1>2. /\ chunks[1].first = 0 /\ chunks[n].last = x_to
      /\ \A k \in 1..(n - 1) : chunks[k + 1].first = chunks[k].last + 1
  BY DEF IsPartition, Joined
<1>3. /\ Len(parts) = n
      /\ \A k \in 1..n :
            parts[k] = SubSeq(container, chunks[k].first + 1, chunks[k].last + 1)
  <2>1. n \in Nat
    BY <1>1
  <2> HIDE DEF n
  <2> DEFINE part(k) == SubSeq(container, chunks[k].first + 1, chunks[k].last + 1)
  <2>2. parts = [k \in 1..n |-> part(k)]
    BY Zenon DEF Subcontainers, n
  <2> HIDE DEF parts, part
  <2>3. Len(parts) = n /\ \A k \in 1..n : parts[k] = part(k)
    BY <2>1, <2>2
  <2> QED BY <2>3 DEF part
<1>4. SortResult(container) = h[n]
  BY <1>3, Zenon DEF SortResult
<1> HIDE DEF n, parts
<1>5. ASSUME NEW k \in 1..n
      PROVE  /\ reach(k) \in 0..Len(container) /\ reach(k - 1) \in 0..Len(container)
             /\ reach(k - 1) <= reach(k)
             /\ parts[k] = SubSeq(container, reach(k - 1) + 1, reach(k))
  <2>1. reach(k - 1) = chunks[k].first
    <3>1. CASE k = 1
      BY <1>2, <3>1
    <3>2. CASE k # 1
      <4>1. k - 1 \in 1..(n - 1) /\ (k - 1) + 1 = k /\ k - 1 # 0
        BY <1>1, <3>2
      <4> QED BY <1>2, <4>1
    <3> QED BY <3>1, <3>2
  <2>2. reach(k) = chunks[k].last + 1
    BY <1>1
  <2> HIDE DEF reach
  <2>3. parts[k] = SubSeq(container, reach(k - 1) + 1, reach(k))
    BY <1>3, <2>1, <2>2, Zenon
  <2>4. /\ chunks[k].first \in Int /\ chunks[k].last \in Int /\ x_to \in Int
        /\ 0 <= chunks[k].first /\ chunks[k].first <= chunks[k].last
        /\ chunks[k].last <= x_to
    BY <1>1
  <2>5. /\ reach(k) \in 0..Len(container) /\ reach(k - 1) \in 0..Len(container)
        /\ reach(k - 1) <= reach(k)
    <3> DEFINE a == chunks[k].first
               b == chunks[k].last
               m == Len(container)
    <3>1. a \in Int /\ b \in Int /\ m = x_to + 1 /\ x_to \in Int /\ 0 <= a /\ a <= b /\ b <= x_to
      BY <2>4
    <3> HIDE DEF a, b, m
    <3>2. b + 1 \in 0..m /\ a \in 0..m /\ a <= b + 1
      BY <3>1
    <3> QED BY <2>1, <2>2, <3>2, Zenon DEF a, b, m
  <2> QED BY <2>3, <2>5
<1> HIDE DEF reach
<1>6. ASSUME NEW k \in 1..n
      PROVE  Sorted(front(k)) = inplace_merge(Sorted(front(k - 1)), sortArray(parts[k]))
  <2> DEFINE from == reach(k - 1)
             to == reach(k)
  <2>1. from \in 0..Len(container) /\ to \in from..Len(container) /\ Len(container) \in Nat
    BY <1>5
  <2> HIDE DEF from, to
  <2>2. SubSeq(container, 1, from) \o SubSeq(container, from + 1, to) = SubSeq(container, 1, to)
    <3>1. 1 \in 1..(Len(container) + 1) /\ from \in (1 - 1)..Len(container)
      BY <2>1
    <3> QED BY <2>1, <3>1, ConcatAdjacentSubSeq, Zenon
  <2>3. SubSeq(container, 1, from) \in Seq(lo..hi) /\ SubSeq(container, from + 1, to) \in Seq(lo..hi)
    <3>1. \A m \in 1..from : container[m] \in lo..hi
      BY <2>1
    <3>2. \A m \in (from + 1)..to : container[m] \in lo..hi
      BY <2>1
    <3>3. 1 \in Int /\ from \in Int /\ from + 1 \in Int /\ to \in Int
      BY <2>1
    <3>4. SubSeq(container, 1, from) \in Seq(lo..hi)
      BY <3>1, <3>3, SubSeqProperties
    <3>5. SubSeq(container, from + 1, to) \in Seq(lo..hi)
      BY <3>2, <3>3, SubSeqProperties
    <3> QED BY <3>4, <3>5
  <2>4. /\ front(k) = SubSeq(container, 1, to) /\ front(k - 1) = SubSeq(container, 1, from)
        /\ parts[k] = SubSeq(container, from + 1, to)
    BY <1>5 DEF from, to
  <2> HIDE DEF front
  <2>5. inplace_merge(Sorted(front(k - 1)), Sorted(parts[k])) = Sorted(front(k))
    <3>1. \A s, t \in Seq(lo..hi) : inplace_merge(Sorted(s), Sorted(t)) = Sorted(s \o t)
      BY MergeSorted, Zenon
    <3>2. /\ front(k - 1) \in Seq(lo..hi) /\ parts[k] \in Seq(lo..hi)
          /\ front(k) = front(k - 1) \o parts[k]
      BY <2>2, <2>3, <2>4, Zenon
    <3> QED BY <3>1, <3>2, Zenon
  <2> QED BY <2>5, Zenon DEF sortArray
<1>7. Sorted(front(0)) = << >>
  <2>1. front(0) = << >>
    BY SubSeqEmpty DEF reach
  <2>2. Sorted(<< >>) = << >>
    BY EmptySeq DEF Sorted
  <2> QED BY <2>1, <2>2
<1> HIDE DEF front
<1>8. Is(g)
  <2>1. \A k \in 0..n : k = 0 \/ (k \in 1..n /\ k - 1 \in 0..n)
    BY <1>1
  <2>2. \A k \in 0..n :
           Sorted(front(k)) = IF k = 0 THEN << >>
                              ELSE inplace_merge(g[k - 1], sortArray(parts[k]))
    <3> TAKE k \in 0..n
    <3>1. CASE k = 0
      BY <1>7, <3>1
    <3>2. CASE k # 0
      <4>1. k \in 1..n /\ g[k - 1] = Sorted(front(k - 1))
        BY <2>1, <3>2
      <4> QED BY <1>6, <3>2, <4>1
    <3> QED BY <3>1, <3>2
  <2> QED BY <2>2, Zenon
<1>9. Is(h)
  <2> HIDE DEF g
  <2> QED BY <1>8
<1> HIDE DEF h
<1> DEFINE T == {k \in Nat : k <= n => h[k] = g[k]}
<1>10. \A k \in 0..n :
          h[k] = IF k = 0 THEN << >> ELSE inplace_merge(h[k - 1], sortArray(parts[k]))
  <2> HIDE DEF step
  <2>1. \A k \in 0..n : h[k] = step(h, k)
    BY <1>9
  <2> TAKE k \in 0..n
  <2>2. h[k] = step(h, k)
    BY <2>1
  <2> QED BY <2>2 DEF step
<1>11. 0 \in T
  <2>1. 0 \in 0..n
    BY <1>1
  <2>2. h[0] = << >>
    BY <1>10, <2>1
  <2>3. g[0] = Sorted(front(0))
    BY <2>1
  <2> HIDE DEF g
  <2> QED BY <1>7, <2>2, <2>3
<1>12. ASSUME NEW k \in Nat, k \in T PROVE k + 1 \in T
  <2> SUFFICES ASSUME k + 1 <= n PROVE h[k + 1] = g[k + 1]
    OBVIOUS
  <2>1. /\ k + 1 \in 1..n /\ k + 1 \in 0..n /\ k \in 0..n /\ k + 1 # 0 /\ (k + 1) - 1 = k
    BY <1>1
  <2>2. h[k] = Sorted(front(k))
    BY <1>12, <2>1
  <2>3. h[k + 1] = inplace_merge(h[k], sortArray(parts[k + 1]))
    BY <1>10, <2>1
  <2>4. Sorted(front(k + 1)) = inplace_merge(Sorted(front(k)), sortArray(parts[k + 1]))
    BY <1>6, <2>1
  <2>5. g[k + 1] = Sorted(front(k + 1))
    BY <2>1
  <2> QED BY <2>2, <2>3, <2>4, <2>5, Zenon
<1> HIDE DEF T
<1>13. n \in T
  BY <1>1, <1>11, <1>12, EveryNumber
<1>14. h[n] = Sorted(front(n))
  BY <1>1, <1>13 DEF T
<1>15. front(n) = container
  <2>1. reach(n) = Len(container)
    BY <1>1, <1>2 DEF reach
  <2> QED BY <2>1, SubSeqFull DEF front
<1> QED BY <1>4, <1>14, <1>15

\* For any array a request may bring, of as many numbers as the chunks have
\* indices: what comes out ascends, and holds no number more or less often.
SortsEveryArray ==
    (Divided /\ x_from = 0) =>
        \A numbers \in Seq(Ints) :
            Len(numbers) = x_to + 1 =>
                /\ SortResult(numbers) = Sorted(numbers)
                /\ SortResult(numbers) \in Seq(Ints)
                /\ Len(SortResult(numbers)) = Len(numbers)
                /\ IsSorted(SortResult(numbers), <=)
                /\ \A x \in Int : Below(SortResult(numbers), x) = Below(numbers, x)

LEMMA ChunksSortArrays ==
    ASSUME ChunksAssumption, TypeOK, PartitionsRange
    PROVE  SortsEveryArray
<1> SUFFICES ASSUME Divided, x_from = 0, NEW numbers \in Seq(Ints),
                    Len(numbers) = x_to + 1
             PROVE  /\ SortResult(numbers) = Sorted(numbers)
                    /\ SortResult(numbers) \in Seq(Ints)
                    /\ Len(SortResult(numbers)) = Len(numbers)
                    /\ IsSorted(SortResult(numbers), <=)
                    /\ \A x \in Int : Below(SortResult(numbers), x) = Below(numbers, x)
  BY Zenon DEF SortsEveryArray
<1>1. IsPartition(chunks)
  BY DEF PartitionsRange, Divided
<1>2. MinInt \in Int /\ MaxInt \in Int /\ Ints = MinInt..MaxInt
  BY DEF ChunksAssumption, MinInt, Ints
<1>3. numbers \in Seq(MinInt..MaxInt)
  BY <1>2
<1>4. SortResult(numbers) = Sorted(numbers)
  BY <1>1, <1>2, <1>3, SortOfChunks, Zenon
<1>5. Sorted(numbers) \in Seq(Ints) /\ Len(Sorted(numbers)) = Len(numbers)
  BY <1>2, <1>3, SortedType, Zenon
<1>6. IsSorted(Sorted(numbers), <=)
  BY <1>2, <1>3, SortedIsSorted, Zenon
<1>7. \A x \in Int : Below(Sorted(numbers), x) = Below(numbers, x)
  BY <1>2, <1>3, SortedCounts, Zenon
<1> QED BY <1>4, <1>5, <1>6, <1>7, Zenon

LEMMA ChunksSortSample ==
    ASSUME ChunksAssumption, TypeOK, PartitionsRange
    PROVE  SortIsWhole
<1> DEFINE numbers == [k \in 1..(x_to + 1) |-> (7 * k) % 5]
<1> SUFFICES ASSUME Divided, x_from = 0 PROVE SortResult(numbers) = Sorted(numbers)
  BY Zenon DEF SortIsWhole
<1>1. IsPartition(chunks)
  BY DEF PartitionsRange, Divided
<1>2. numbers \in Seq(0..4) /\ Len(numbers) = x_to + 1
  <2>1. x_to \in Int /\ x_to + 1 \in Nat
    <3>1. x_to \in Int /\ x_from <= x_to
      BY DEF Divided, Usable, TypeOK, ChunksAssumption, Ints, MinInt
    <3> QED BY <3>1
  <2>2. \A k \in 1..(x_to + 1) : (7 * k) % 5 \in 0..4
    BY <2>1
  <2> QED BY <2>1, <2>2
<1>3. 0 \in Int /\ 4 \in Int
  OBVIOUS
<1> HIDE DEF numbers
<1> QED BY <1>1, <1>2, <1>3, SortOfChunks, Zenon

\* Whatever the width of int and the array: the subarrays of
\* Utils::divideIntoChunks, each sorted by sortArray, and merged one after the other
\* by std::inplace_merge in the handler of finished, are the whole array sorted.  No
\* number is lost or doubled where two subarrays meet, and none is out of place.
THEOREM EveryArrayIsSorted == ChunksAssumption => (Spec => []SortsEveryArray)
<1> SUFFICES ASSUME ChunksAssumption PROVE Spec => []SortsEveryArray
  OBVIOUS
<1>1. TypeOK /\ PartitionsRange => SortsEveryArray
  BY ChunksSortArrays
<1>2. Spec => []TypeOK
  BY ChunksTypeCorrect
<1>3. Spec => []PartitionsRange
  BY RangeIsPartitioned
<1> QED BY <1>1, <1>2, <1>3, PTL

\* The same for the array that the model checker sorts, by the property it checks.
THEOREM SubarraysAreMerged == ChunksAssumption => (Spec => []SortIsWhole)
<1> SUFFICES ASSUME ChunksAssumption PROVE Spec => []SortIsWhole
  OBVIOUS
<1>1. TypeOK /\ PartitionsRange => SortIsWhole
  BY ChunksSortSample
<1>2. Spec => []TypeOK
  BY ChunksTypeCorrect
<1>3. Spec => []PartitionsRange
  BY RangeIsPartitioned
<1> QED BY <1>1, <1>2, <1>3, PTL

-----------------------------------------------------------------------------
(* Prime numbers.                                                           *)

\* A number is a divisor exactly if some multiple of it is the number divided.
LEMMA Divides ==
    ASSUME NEW n \in Nat, NEW d \in Nat \ {0}
    PROVE  n % d = 0 <=> \E e \in Nat : n = e * d
<1>1. ASSUME n % d = 0 PROVE \E e \in Nat : n = e * d
  <2> DEFINE q == n \div d
  <2>1. q \in Nat /\ n = q * d + 0
    BY <1>1, Division
  <2> HIDE DEF q
  <2>2. n = q * d
    BY <2>1
  <2> QED BY <2>1, <2>2
<1>2. ASSUME NEW e \in Nat, n = e * d PROVE n % d = 0
  <2>1. n = e * d + 0 /\ 0 \in 0..(d - 1)
    BY <1>2
  <2> QED BY <2>1, Quotient
<1> QED BY <1>1, <1>2

\* Of an odd number, all divisors are odd.
LEMMA DivisorsAreOdd ==
    ASSUME NEW n \in Nat, NEW d \in Nat \ {0}, NEW e \in Nat, n = e * d, n % 2 = 1
    PROVE  d % 2 = 1
<1> SUFFICES ASSUME d % 2 = 0 PROVE FALSE
  OBVIOUS
<1>1. PICK c \in Nat : d = c * 2
  BY Divides
<1>2. n = (e * c) * 2 /\ e * c \in Nat
  BY <1>1
<1>3. n % 2 = 0
  BY <1>2, Divides
<1> QED BY <1>3

\* It is enough to try the odd numbers up to the root.
LEMMA PrimeTest ==
    ASSUME NEW n \in Nat, n >= 3, n % 2 = 1
    PROVE  isPrime(n) <=> IsPrimeNumber(n)
<1>1. ASSUME IsPrimeNumber(n), NEW d \in 3..n, d * d <= n PROVE n % d # 0
  <2>1. 3 * d <= d * d
    OBVIOUS
  <2>2. d < n
    BY <1>1, <2>1
  <2> QED BY <1>1, <2>2 DEF IsPrimeNumber
<1>2. ASSUME isPrime(n), NEW d \in 2..(n - 1), n % d = 0 PROVE FALSE
  <2>1. PICK e \in Nat : n = e * d
    <3>1. n \in Nat /\ d \in Nat \ {0}
      OBVIOUS
    <3> QED BY <1>2, <3>1, Divides, Zenon
  <2>2. e >= 2 /\ e < n
    <3>1. e # 0 /\ e # 1
      BY <2>1
    <3>2. 2 * e <= e * d
      BY <2>1
    <3> QED BY <2>1, <3>1, <3>2
  <2>3. n = d * e
    BY <2>1
  <2>4. d % 2 = 1 /\ e % 2 = 1
    <3>1. d \in Nat \ {0} /\ e \in Nat \ {0} /\ d \in Nat
      BY <2>2
    <3>2. d % 2 = 1
      BY <2>1, <3>1, DivisorsAreOdd
    <3>3. e % 2 = 1
      BY <2>3, <3>1, DivisorsAreOdd
    <3> QED BY <3>2, <3>3
  <2>5. d >= 3 /\ e >= 3
    <3>1. d # 2 /\ e # 2
      BY <2>4
    <3> QED BY <2>2, <3>1
  <2>6. CASE d <= e
    <3>1. d * d <= e * d
      BY <2>6
    <3>2. d \in {k \in 3..n : k * k <= n /\ k % 2 = 1}
      BY <2>1, <2>4, <2>5, <3>1
    <3> QED BY <1>2, <3>2 DEF isPrime
  <2>7. CASE e <= d
    <3>1. e * e <= d * e
      BY <2>7
    <3>2. e \in {k \in 3..n : k * k <= n /\ k % 2 = 1}
      BY <2>2, <2>3, <2>4, <2>5, <3>1
    <3>3. n % e = 0
      BY <2>2, <2>3, Divides
    <3> QED BY <1>2, <3>2, <3>3 DEF isPrime
  <2> QED BY <2>6, <2>7
<1>3. isPrime(n) => IsPrimeNumber(n)
  <2>1. n > 1
    OBVIOUS
  <2> QED BY <1>2, <2>1, Zenon DEF IsPrimeNumber
<1>4. IsPrimeNumber(n) => isPrime(n)
  BY <1>1, Zenon DEF isPrime
<1> QED BY <1>3, <1>4

\* No even number after 2 is a prime number.
LEMMA EvenIsNotPrime ==
    ASSUME NEW n \in Nat, n >= 3, n % 2 = 0
    PROVE  ~IsPrimeNumber(n)
BY 2 \in 2..(n - 1) DEF IsPrimeNumber

\* What is joined of the first sequences does not depend on those that follow.
LEMMA JoinsAgree ==
    ASSUME NEW n \in Nat \ {0}, NEW m \in Nat, n <= m, NEW u, NEW v, NEW f, NEW g,
           Joins(u, n, f), Joins(v, m, g), \A k \in 1..n : u[k] = v[k]
    PROVE  f[n] = g[n]
<1> DEFINE T == {k \in Nat : k + 1 <= n => f[k + 1] = g[k + 1]}
<1>1. 0 \in T
  <2>1. f[1] = u[1] /\ g[1] = v[1] /\ 1 \in 1..n
    BY DEF Joins
  <2> QED BY <2>1
<1>2. ASSUME NEW k \in Nat, k \in T PROVE k + 1 \in T
  <2> DEFINE x == (k + 1) + 1
  <2> SUFFICES ASSUME x <= n PROVE f[x] = g[x]
    OBVIOUS
  <2>1. x \in 2..n /\ x \in 2..m /\ x \in 1..n /\ x - 1 = k + 1
    OBVIOUS
  <2>2. f[x - 1] = g[x - 1]
    BY <1>2, <2>1
  <2> HIDE DEF x
  <2>3. f[x] = f[x - 1] \o u[x] /\ g[x] = g[x - 1] \o v[x]
    BY <2>1, Zenon DEF Joins
  <2> QED BY <2>1, <2>2, <2>3, Zenon
<1> HIDE DEF T
<1>3. Nat \subseteq T
  BY <1>1, <1>2, EveryNumber
<1>4. n - 1 \in T /\ (n - 1) + 1 = n /\ n <= n
  BY <1>3
<1> QED BY <1>4 DEF T

LEMMA FlattenType ==
    ASSUME NEW u \in Seq(Seq(Int))
    PROVE  FlattenSeq(u) \in Seq(Int)
<1>1. CASE u = << >>
  <2>1. FlattenSeq(u) = << >>
    BY <1>1 DEF FlattenSeq
  <2> QED BY <2>1, EmptySeq
<1>2. CASE u # << >>
  <2>1. PICK f : Joins(u, Len(u), f) /\ FlattenSeq(u) = f[Len(u)]
    BY <1>2, FlattenJoins
  <2>2. Len(u) \in 1..Len(u)
    BY <1>2
  <2> QED BY <2>1, <2>2 DEF Joins
<1> QED BY <1>1, <1>2

LEMMA FlattenNext ==
    ASSUME NEW u \in Seq(Seq(Int)), NEW e \in Seq(Int)
    PROVE  FlattenSeq(Append(u, e)) = FlattenSeq(u) \o e
<1> DEFINE n == Len(u)
           v == Append(u, e)
<1>1. /\ n \in Nat /\ v \in Seq(Seq(Int)) /\ Len(v) = n + 1 /\ v # << >>
      /\ v[n + 1] = e /\ \A k \in 1..n : u[k] = v[k]
  BY AppendProperties
<1>2. PICK g : Joins(v, Len(v), g) /\ FlattenSeq(v) = g[Len(v)]
  <2> HIDE DEF v
  <2> QED BY <1>1, FlattenJoins
<1> HIDE DEF v
<1>3. CASE u = << >>
  <2>1. FlattenSeq(u) = << >> /\ n = 0
    BY <1>3 DEF FlattenSeq
  <2>2. g[1] = v[1]
    BY <1>2 DEF Joins
  <2>3. FlattenSeq(v) = e
    BY <1>1, <1>2, <2>1, <2>2
  <2> QED BY <2>1, <2>3, ConcatEmptySeq DEF v
<1>4. CASE u # << >>
  <2>1. PICK f : Joins(u, n, f) /\ FlattenSeq(u) = f[n]
    BY <1>4, FlattenJoins
  <2>2. n \in Nat \ {0}
    BY <1>4
  <2> HIDE DEF n
  <2>3. f[n] = g[n]
    BY <1>1, <1>2, <2>1, <2>2, JoinsAgree
  <2>4. n + 1 \in 2..(n + 1) /\ (n + 1) - 1 = n
    BY <2>2
  <2>5. g[n + 1] = g[n] \o v[n + 1]
    BY <1>1, <1>2, <2>4 DEF Joins
  <2> QED BY <1>1, <1>2, <2>1, <2>3, <2>5 DEF v
<1> QED BY <1>3, <1>4

-----------------------------------------------------------------------------
\* The prime numbers among those of a sequence, and among those of a range.
PrimesOf(s) == Picked(s, IsPrimeNumber)
PrimeOnly(x) == IF IsPrimeNumber(x) THEN <<x>> ELSE << >>
PrimesIn(a, b) == PrimesOf(Loop(a, b, 1))

LEMMA PrimesOfMap ==
    ASSUME NEW s \in Seq(Int)
    PROVE  /\ PrimesOf(s) = FlattenSeq([k \in 1..Len(s) |-> PrimeOnly(s[k])])
           /\ [k \in 1..Len(s) |-> PrimeOnly(s[k])] \in Seq(Seq(Int))
<1>1. \A k \in 1..Len(s) : PrimeOnly(s[k]) \in Seq(Int)
  <2> TAKE k \in 1..Len(s)
  <2>1. s[k] \in Int
    OBVIOUS
  <2> QED BY <2>1, EmptySeq DEF PrimeOnly
<1>2. Len(s) \in Nat
  OBVIOUS
<1>3. PrimesOf(s) = FlattenSeq([k \in 1..Len(s) |-> PrimeOnly(s[k])])
  BY Zenon DEF PrimesOf, Picked, PrimeOnly
<1> QED BY <1>1, <1>2, <1>3

LEMMA PrimesOfType ==
    ASSUME NEW s \in Seq(Int)
    PROVE  PrimesOf(s) \in Seq(Int)
BY PrimesOfMap, FlattenType, Zenon

LEMMA PrimesOfNext ==
    ASSUME NEW s \in Seq(Int), NEW x \in Int
    PROVE  PrimesOf(Append(s, x)) = PrimesOf(s) \o PrimeOnly(x)
<1> DEFINE t == Append(s, x)
           n == Len(s)
           u == [k \in 1..n |-> PrimeOnly(s[k])]
           v == [k \in 1..Len(t) |-> PrimeOnly(t[k])]
<1>1. /\ t \in Seq(Int) /\ n \in Nat /\ Len(t) = n + 1 /\ t[n + 1] = x
      /\ \A k \in 1..n : t[k] = s[k]
  BY AppendProperties
<1>2. PrimesOf(s) = FlattenSeq(u) /\ u \in Seq(Seq(Int))
  BY PrimesOfMap
<1> HIDE DEF t
<1>3. PrimesOf(t) = FlattenSeq(v) /\ v \in Seq(Seq(Int))
  BY <1>1, PrimesOfMap
<1>4. PrimeOnly(x) \in Seq(Int)
  BY EmptySeq DEF PrimeOnly
<1>5. v = Append(u, PrimeOnly(x))
  <2> DEFINE w == Append(u, PrimeOnly(x))
  <2>1. Len(u) = n /\ \A k \in 1..n : u[k] = PrimeOnly(s[k])
    BY <1>1
  <2>2. Len(v) = n + 1 /\ \A k \in 1..(n + 1) : v[k] = PrimeOnly(t[k])
    BY <1>1
  <2> HIDE DEF u, v, n
  <2>3. /\ w \in Seq(Seq(Int)) /\ Len(w) = n + 1 /\ w[n + 1] = PrimeOnly(x)
        /\ \A k \in 1..n : w[k] = PrimeOnly(s[k])
    BY <1>2, <1>4, <2>1, AppendProperties
  <2> HIDE DEF w
  <2>4. \A k \in 1..(n + 1) : v[k] = w[k]
    <3> TAKE k \in 1..(n + 1)
    <3>1. CASE k = n + 1
      BY <1>1, <2>2, <2>3, <3>1
    <3>2. CASE k # n + 1
      <4>1. k \in 1..n
        BY <1>1, <3>2
      <4> QED BY <1>1, <2>2, <2>3, <4>1
    <3> QED BY <3>1, <3>2
  <2>5. v = w
    BY <1>3, <2>2, <2>3, <2>4, SeqEqual
  <2> QED BY <2>5 DEF w
<1>6. FlattenSeq(Append(u, PrimeOnly(x))) = FlattenSeq(u) \o PrimeOnly(x)
  <2> HIDE DEF u
  <2> QED BY <1>2, <1>4, FlattenNext
<1> QED BY <1>2, <1>3, <1>5, <1>6, Zenon DEF t

\* What the next number adds to a loop.
LEMMA LoopNext ==
    ASSUME NEW a \in Int, NEW b \in Int, a <= b + 1, NEW step \in {1, 2}
    PROVE  /\ Loop(a, b, step) \in Seq(Int)
           /\ (b + 1 - a) % step = 0 =>
                 Loop(a, b + 1, step) = Append(Loop(a, b, step), b + 1)
           /\ (b + 1 - a) % step # 0 => Loop(a, b + 1, step) = Loop(a, b, step)
<1> DEFINE s == Loop(a, b, step)
           t == Loop(a, b + 1, step)
<1>0. step \in Nat \ {0}
  OBVIOUS
<1>a. ASSUME NEW c \in Int, a <= c
      PROVE  /\ Turns(a, c, step) \in Nat \ {0} /\ Loop(a, c, step) \in Seq(Int)
             /\ Len(Loop(a, c, step)) = Turns(a, c, step)
             /\ \A k \in 1..Turns(a, c, step) : Loop(a, c, step)[k] = a + (k - 1) * step
  <2>1. /\ Turns(a, c, step) \in Nat \ {0}
        /\ GoesThrough(Loop(a, c, step), a, step, Turns(a, c, step))
    BY <1>0, <1>a, LoopType
  <2> QED BY <2>1, Zenon DEF GoesThrough
<1>b. b + 1 \in Int /\ a <= b + 1
  OBVIOUS
<1>1. CASE a = b + 1
  <2>1. s = << >> /\ (b + 1 - a) % step = 0
    BY <1>1 DEF Loop
  <2>2. t \in Seq(Int) /\ Len(t) = 1 /\ t[1] = a
    <3>1. Turns(a, b + 1, step) = 1
      BY <1>1, <1>0 DEF Turns
    <3>2. t \in Seq(Int) /\ Len(t) = 1 /\ t[1] = a + (1 - 1) * step
      <4>1. 1 \in 1..1
        OBVIOUS
      <4> QED BY <1>a, <1>b, <3>1, <4>1, Zenon
    <3> QED BY <1>0, <3>2
  <2>3. t = <<a>>
    <3> HIDE DEF t
    <3> QED BY <2>2
  <2>4. <<a>> = Append(<< >>, a)
    OBVIOUS
  <2>5. << >> \in Seq(Int)
    BY EmptySeq
  <2> HIDE DEF s, t
  <2>6. s \in Seq(Int) /\ t = Append(s, b + 1)
    BY <1>1, <2>1, <2>3, <2>4, <2>5
  <2>7. (b + 1 - a) % step = 0
    BY <2>1
  <2> QED BY <2>6, <2>7 DEF s, t
<1>2. CASE a <= b
  <2> DEFINE n == Turns(a, b, step)
             m == Turns(a, b + 1, step)
  <2>1. /\ n \in Nat \ {0} /\ s \in Seq(Int) /\ Len(s) = n
        /\ \A k \in 1..n : s[k] = a + (k - 1) * step
    <3>1. n \in Nat \ {0} /\ GoesThrough(s, a, step, n)
      BY <1>0, <1>2, LoopType
    <3> QED BY <3>1, Zenon DEF GoesThrough
  <2>2. /\ m \in Nat \ {0} /\ t \in Seq(Int) /\ Len(t) = m
        /\ \A k \in 1..m : t[k] = a + (k - 1) * step
    BY <1>a, <1>b, Zenon
  <2>3. /\ (b + 1 - a) % step = 0 => m = n + 1 /\ a + n * step = b + 1
        /\ (b + 1 - a) % step # 0 => m = n
    <3>1. CASE step = 1
      BY <1>2, <3>1 DEF Turns
    <3>2. CASE step = 2
      BY <1>2, <3>2 DEF Turns
    <3> QED BY <3>1, <3>2
  <2> HIDE DEF s, t, n, m
  <2>4. ASSUME (b + 1 - a) % step = 0 PROVE t = Append(s, b + 1)
    <3> DEFINE u == Append(s, b + 1)
    <3>1. /\ u \in Seq(Int) /\ Len(u) = n + 1 /\ u[n + 1] = b + 1
          /\ \A k \in 1..n : u[k] = s[k]
      BY <2>1, AppendProperties
    <3> HIDE DEF u
    <3>2. ASSUME NEW k \in 1..(n + 1) PROVE t[k] = u[k]
      <4>1. CASE k = n + 1
        <5>1. t[k] = a + (k - 1) * step /\ k - 1 = n
          BY <2>1, <2>2, <2>3, <2>4, <4>1
        <5> QED BY <2>3, <2>4, <3>1, <4>1, <5>1
      <4>2. CASE k # n + 1
        <5>1. k \in 1..n /\ k \in 1..m
          BY <2>1, <2>3, <2>4, <4>2
        <5> QED BY <2>1, <2>2, <3>1, <5>1
      <4> QED BY <4>1, <4>2
    <3>3. Len(t) = Len(u) /\ Len(t) = n + 1
      BY <2>2, <2>3, <2>4, <3>1
    <3>4. t = u
      BY <2>2, <3>1, <3>2, <3>3, SeqEqual
    <3> QED BY <3>4 DEF u
  <2>5. ASSUME (b + 1 - a) % step # 0 PROVE t = s
    <3>1. Len(t) = Len(s) /\ \A k \in 1..Len(s) : t[k] = s[k]
      BY <2>1, <2>2, <2>3, <2>5
    <3> QED BY <2>1, <2>2, <3>1, SeqEqual
  <2> QED BY <2>1, <2>4, <2>5 DEF s, t
<1> QED BY <1>1, <1>2

LEMMA PrimesInNext ==
    ASSUME NEW a \in Int, NEW b \in Int, a <= b + 1
    PROVE  /\ PrimesIn(a, b) \in Seq(Int)
           /\ PrimesIn(a, b + 1) = PrimesIn(a, b) \o PrimeOnly(b + 1)
<1>1. 1 \in {1, 2} /\ (b + 1 - a) % 1 = 0 /\ b + 1 \in Int
  OBVIOUS
<1>2. Loop(a, b, 1) \in Seq(Int) /\ Loop(a, b + 1, 1) = Append(Loop(a, b, 1), b + 1)
  BY <1>1, LoopNext
<1> QED BY <1>1, <1>2, PrimesOfType, PrimesOfNext DEF PrimesIn

\* The prime numbers of a range and those of the range behind it.
LEMMA ThreeParts ==
    ASSUME NEW s \in Seq(Int), NEW t \in Seq(Int), NEW u \in Seq(Int)
    PROVE  (s \o t) \o u = s \o (t \o u)
<1> DEFINE v == (s \o t) \o u
           w == s \o (t \o u)
<1>1. /\ s \o t \in Seq(Int) /\ Len(s \o t) = Len(s) + Len(t)
      /\ t \o u \in Seq(Int) /\ Len(t \o u) = Len(t) + Len(u)
      /\ Len(s) \in Nat /\ Len(t) \in Nat /\ Len(u) \in Nat
  OBVIOUS
<1>2. v \in Seq(Int) /\ w \in Seq(Int) /\ Len(v) = Len(w)
      /\ Len(v) = Len(s) + Len(t) + Len(u)
  BY <1>1
<1>3. ASSUME NEW k \in 1..Len(v) PROVE v[k] = w[k]
  <2>1. CASE k <= Len(s)
    BY <1>1, <1>2, <2>1
  <2>2. CASE k > Len(s) /\ k <= Len(s) + Len(t)
    BY <1>1, <1>2, <2>2
  <2>3. CASE k > Len(s) + Len(t)
    BY <1>1, <1>2, <2>3
  <2> QED BY <1>1, <2>1, <2>2, <2>3
<1> HIDE DEF v, w
<1>4. v = w
  BY <1>2, <1>3, SeqEqual
<1> QED BY <1>4 DEF v, w

LEMMA PrimesInJoin ==
    ASSUME NEW a \in Int, NEW b \in Int, a <= b + 1, NEW c \in Int, b <= c
    PROVE  PrimesIn(a, b) \o PrimesIn(b + 1, c) = PrimesIn(a, c)
<1> DEFINE T == {k \in Nat : PrimesIn(a, b) \o PrimesIn(b + 1, b + k) = PrimesIn(a, b + k)}
<1>1. 0 \in T
  <2>1. PrimesIn(b + 1, b) = << >>
    <3>1. Loop(b + 1, b, 1) = << >>
      BY DEF Loop
    <3>2. PrimesOf(<< >>) = << >>
      BY DEF PrimesOf, Picked, FlattenSeq
    <3> QED BY <3>1, <3>2 DEF PrimesIn
  <2>2. PrimesIn(a, b) \o << >> = PrimesIn(a, b)
    BY PrimesInNext, ConcatEmptySeq
  <2>3. b + 0 = b
    OBVIOUS
  <2> QED BY <2>1, <2>2, <2>3
<1>2. ASSUME NEW k \in Nat, k \in T PROVE k + 1 \in T
  <2> DEFINE x == b + k
             s == PrimesIn(a, b)
             t == PrimesIn(b + 1, x)
             e == PrimeOnly(x + 1)
  <2>1. x \in Int /\ b + 1 \in Int /\ b + (k + 1) = x + 1 /\ a <= x + 1 /\ b + 1 <= x + 1
    OBVIOUS
  <2> HIDE DEF x
  <2>2. s \in Seq(Int) /\ t \in Seq(Int) /\ e \in Seq(Int)
    <3>1. s \in Seq(Int) /\ t \in Seq(Int)
      BY <2>1, PrimesInNext
    <3>2. e \in Seq(Int)
      BY <2>1, EmptySeq DEF PrimeOnly
    <3> QED BY <3>1, <3>2
  <2>3. PrimesIn(b + 1, x + 1) = t \o e /\ PrimesIn(a, x + 1) = PrimesIn(a, x) \o e
    BY <2>1, PrimesInNext
  <2>4. s \o t = PrimesIn(a, x)
    BY <1>2 DEF x
  <2>5. (s \o t) \o e = s \o (t \o e)
    <3> HIDE DEF s, t, e
    <3> QED BY <2>2, ThreeParts
  <2>6. s \o PrimesIn(b + 1, x + 1) = PrimesIn(a, x + 1)
    BY <2>3, <2>4, <2>5, Zenon
  <2>7. s \o PrimesIn(b + 1, b + (k + 1)) = PrimesIn(a, b + (k + 1))
    BY <2>1, <2>6, Zenon
  <2> QED BY <2>7
<1> HIDE DEF T
<1>3. c - b \in T /\ b + (c - b) = c
  <2>1. c - b \in Nat /\ b + (c - b) = c
    OBVIOUS
  <2> QED BY <1>1, <1>2, <2>1, EveryNumber
<1> QED BY <1>3 DEF T

\* Nothing is missed where only odd numbers are tried.
LEMMA OddPrimes ==
    ASSUME NEW a \in Int, NEW b \in Int, a >= 3, a % 2 = 1, a <= b + 1
    PROVE  PrimesOf(Loop(a, b, 2)) = PrimesIn(a, b)
<1> DEFINE T == {k \in Nat : PrimesOf(Loop(a, a - 1 + k, 2)) = PrimesIn(a, a - 1 + k)}
<1>1. 0 \in T
  <2>1. Loop(a, a - 1 + 0, 2) = << >> /\ Loop(a, a - 1 + 0, 1) = << >>
    BY DEF Loop
  <2> QED BY <2>1 DEF PrimesIn
<1>2. ASSUME NEW k \in Nat, k \in T PROVE k + 1 \in T
  <2> DEFINE x == a - 1 + k
             s == Loop(a, x, 2)
  <2>1. x \in Int /\ x + 1 \in Int /\ x + 1 >= 3 /\ a - 1 + (k + 1) = x + 1 /\ a <= x + 1
    OBVIOUS
  <2>2. PrimesOf(s) = PrimesIn(a, x)
    BY <1>2
  <2> HIDE DEF x
  <2>3. PrimesIn(a, x + 1) = PrimesIn(a, x) \o PrimeOnly(x + 1) /\ PrimesIn(a, x) \in Seq(Int)
    BY <2>1, PrimesInNext
  <2>4. /\ s \in Seq(Int)
        /\ (x + 1 - a) % 2 = 0 => Loop(a, x + 1, 2) = Append(s, x + 1)
        /\ (x + 1 - a) % 2 # 0 => Loop(a, x + 1, 2) = s
    BY <2>1, 2 \in {1, 2}, LoopNext
  <2>5. PrimesOf(Append(s, x + 1)) = PrimesOf(s) \o PrimeOnly(x + 1)
    BY <2>1, <2>4, PrimesOfNext
  <2>6. PrimesOf(Loop(a, x + 1, 2)) = PrimesIn(a, x + 1)
    <3>1. CASE (x + 1 - a) % 2 = 0
      BY <2>2, <2>3, <2>4, <2>5, <3>1, Zenon
    <3>2. CASE (x + 1 - a) % 2 # 0
      <4>1. (x + 1) % 2 = 0 /\ x + 1 \in Nat
        BY <2>1, <3>2
      <4>2. PrimeOnly(x + 1) = << >>
        BY <2>1, <4>1, EvenIsNotPrime DEF PrimeOnly
      <4>3. PrimesIn(a, x) \o << >> = PrimesIn(a, x)
        BY <2>3, ConcatEmptySeq
      <4> QED BY <2>2, <2>3, <2>4, <3>2, <4>2, <4>3, Zenon
    <3> QED BY <3>1, <3>2
  <2> QED BY <2>1, <2>6
<1> HIDE DEF T
<1>3. b - (a - 1) \in T /\ a - 1 + (b - (a - 1)) = b
  <2>1. b - (a - 1) \in Nat /\ a - 1 + (b - (a - 1)) = b
    OBVIOUS
  <2> QED BY <1>1, <1>2, <2>1, EveryNumber
<1> QED BY <1>3 DEF T

LEMMA NoPrimes ==
    ASSUME NEW a \in Int
    PROVE  PrimesIn(a, a - 1) = << >>
<1>1. Loop(a, a - 1, 1) = << >>
  BY DEF Loop
<1>2. PrimesOf(<< >>) = << >>
  BY DEF PrimesOf, Picked, FlattenSeq
<1> QED BY <1>1, <1>2 DEF PrimesIn

LEMMA NoPrime ==
    ASSUME NEW a \in Int, NEW b \in Int, a <= b + 1, ~IsPrimeNumber(b + 1)
    PROVE  PrimesIn(a, b + 1) = PrimesIn(a, b)
<1>1. /\ PrimesIn(a, b) \in Seq(Int)
      /\ PrimesIn(a, b + 1) = PrimesIn(a, b) \o PrimeOnly(b + 1)
  BY PrimesInNext
<1>2. PrimeOnly(b + 1) = << >>
  BY DEF PrimeOnly
<1>3. PrimesIn(a, b) \o << >> = PrimesIn(a, b)
  BY <1>1, ConcatEmptySeq
<1> QED BY <1>1, <1>2, <1>3, Zenon

\* What a chunk's loop over odd numbers leaves out at its start.
LEMMA BeforeFirstOdd ==
    ASSUME NEW a \in Nat, NEW b \in Int, a <= b, b >= 2
    PROVE  /\ FirstOdd(a) \in Int /\ FirstOdd(a) >= 3 /\ FirstOdd(a) % 2 = 1
           /\ a <= FirstOdd(a) /\ FirstOdd(a) <= b + 1
           /\ PrimesIn(a, FirstOdd(a) - 1) = IF a <= 2 THEN <<2>> ELSE << >>
<1>1. CASE a <= 2
  <2>1. FirstOdd(a) = 3
    BY <1>1 DEF FirstOdd
  <2>2. ~IsPrimeNumber(0) /\ ~IsPrimeNumber(1) /\ IsPrimeNumber(2)
    BY DEF IsPrimeNumber
  <2>3. PrimesIn(a, 1) = << >>
    <3>1. CASE a = 2
      <4>1. 2 - 1 = 1 /\ 2 \in Int
        OBVIOUS
      <4> QED BY <3>1, <4>1, NoPrimes
    <3>2. CASE a = 1
      <4>1. 1 - 1 = 0 /\ 0 + 1 = 1 /\ 0 \in Int /\ 1 \in Int /\ 1 <= 0 + 1
        OBVIOUS
      <4>2. PrimesIn(1, 0) = << >>
        BY <4>1, NoPrimes
      <4>3. PrimesIn(1, 1) = PrimesIn(1, 0)
        BY <2>2, <4>1, NoPrime
      <4> QED BY <3>2, <4>2, <4>3
    <3>3. CASE a = 0
      <4>1. /\ 0 - 1 = -1 /\ -1 + 1 = 0 /\ 0 + 1 = 1 /\ -1 \in Int /\ 0 \in Int /\ 1 \in Int
            /\ 0 <= -1 + 1 /\ 0 <= 0 + 1
        OBVIOUS
      <4>2. PrimesIn(0, -1) = << >>
        BY <4>1, NoPrimes
      <4>3. PrimesIn(0, 0) = PrimesIn(0, -1)
        BY <2>2, <4>1, NoPrime
      <4>4. PrimesIn(0, 1) = PrimesIn(0, 0)
        BY <2>2, <4>1, NoPrime
      <4> QED BY <3>3, <4>2, <4>3, <4>4
    <3> QED BY <1>1, <3>1, <3>2, <3>3
  <2>4. PrimesIn(a, 2) = <<2>>
    <3>1. 1 \in Int /\ a \in Int /\ a <= 1 + 1 /\ 1 + 1 = 2
      BY <1>1
    <3>2. PrimesIn(a, 2) = PrimesIn(a, 1) \o PrimeOnly(2)
      BY <3>1, PrimesInNext
    <3>3. PrimeOnly(2) = <<2>> /\ << >> \o <<2>> = <<2>>
      BY <2>2, ConcatEmptySeq DEF PrimeOnly
    <3> QED BY <2>3, <3>2, <3>3
  <2> QED BY <1>1, <2>1, <2>4
<1>2. CASE a > 2 /\ a % 2 = 1
  <2>1. FirstOdd(a) = a
    BY <1>2 DEF FirstOdd
  <2>2. PrimesIn(a, a - 1) = << >>
    BY NoPrimes
  <2> QED BY <1>2, <2>1, <2>2
<1>3. CASE a > 2 /\ a % 2 = 0
  <2>1. FirstOdd(a) = a + 1 /\ (a + 1) - 1 = a /\ (a + 1) % 2 = 1
    BY <1>3 DEF FirstOdd
  <2>2. PrimesIn(a, a) = << >>
    <3>1. a - 1 \in Int /\ (a - 1) + 1 = a /\ a <= (a - 1) + 1 /\ a >= 3
      BY <1>3
    <3>2. ~IsPrimeNumber((a - 1) + 1)
      BY <1>3, <3>1, EvenIsNotPrime
    <3>3. PrimesIn(a, (a - 1) + 1) = PrimesIn(a, a - 1)
      BY <3>1, <3>2, NoPrime
    <3> QED BY <3>1, <3>3, NoPrimes
  <2> QED BY <1>3, <2>1, <2>2
<1> QED BY <1>1, <1>2, <1>3

LEMMA TestedNumbers ==
    ASSUME NEW s \in Seq(Int), \A k \in 1..Len(s) : s[k] >= 3 /\ s[k] % 2 = 1
    PROVE  Picked(s, isPrime) = PrimesOf(s)
<1>1. \A k \in 1..Len(s) :
         (IF isPrime(s[k]) THEN <<s[k]>> ELSE << >>) = PrimeOnly(s[k])
  <2> TAKE k \in 1..Len(s)
  <2>1. s[k] \in Nat /\ s[k] >= 3 /\ s[k] % 2 = 1
    OBVIOUS
  <2>2. isPrime(s[k]) <=> IsPrimeNumber(s[k])
    BY <2>1, PrimeTest
  <2> QED BY <2>2, Zenon DEF PrimeOnly
<1>2. PrimesOf(s) = FlattenSeq([k \in 1..Len(s) |-> PrimeOnly(s[k])])
  BY PrimesOfMap
<1> QED BY <1>1, <1>2, Zenon DEF Picked

LEMMA FindsPrimes ==
    ASSUME NEW a \in Nat, NEW b \in Int, a <= b, b >= 2
    PROVE  findPrimeNumbers(a, b) = PrimesIn(a, b)
<1> DEFINE x == FirstOdd(a)
           first == IF a <= 2 THEN <<2>> ELSE << >>
           odd == Loop(x, b, 2)
<1>1. /\ FirstOdd(a) \in Int /\ FirstOdd(a) >= 3 /\ FirstOdd(a) % 2 = 1
      /\ a <= FirstOdd(a) /\ FirstOdd(a) <= b + 1
      /\ PrimesIn(a, FirstOdd(a) - 1) = first
  BY BeforeFirstOdd, Zenon
<1>2. findPrimeNumbers(a, b) = first \o Picked(odd, isPrime)
  <2>1. ~(a > b)
    OBVIOUS
  <2> QED BY <2>1, Zenon DEF findPrimeNumbers
<1>7. /\ x \in Int /\ x >= 3 /\ x % 2 = 1 /\ a <= x /\ x <= b + 1
      /\ PrimesIn(a, x - 1) = first
  BY <1>1, Zenon
<1> HIDE DEF x, first
<1>3. odd \in Seq(Int) /\ \A k \in 1..Len(odd) : odd[k] >= 3 /\ odd[k] % 2 = 1
  <2>1. CASE x <= b
    <3>1. /\ odd \in Seq(Int) /\ Len(odd) = Turns(x, b, 2)
          /\ \A k \in 1..Turns(x, b, 2) : odd[k] = x + (k - 1) * 2
      <4>1. GoesThrough(odd, x, 2, Turns(x, b, 2))
        BY <1>7, <2>1, 2 \in Nat \ {0}, LoopType
      <4> QED BY <4>1, Zenon DEF GoesThrough
    <3> HIDE DEF odd
    <3>2. ASSUME NEW k \in 1..Len(odd) PROVE odd[k] >= 3 /\ odd[k] % 2 = 1
      BY <1>7, <3>1
    <3> QED BY <3>1, <3>2
  <2>2. CASE x > b
    <3>1. odd = << >>
      BY <2>2 DEF Loop
    <3> HIDE DEF odd
    <3> QED BY <3>1, EmptySeq
  <2> QED BY <1>7, <2>1, <2>2
<1>4. Picked(odd, isPrime) = PrimesOf(odd)
  <2> HIDE DEF odd
  <2> QED BY <1>3, TestedNumbers
<1>5. PrimesOf(odd) = PrimesIn(x, b)
  BY <1>7, OddPrimes
<1>6. PrimesIn(a, x - 1) \o PrimesIn(x, b) = PrimesIn(a, b)
  <2> DEFINE y == x - 1
  <2>1. a \in Int /\ b \in Int /\ y \in Int /\ a <= y + 1 /\ y <= b /\ y + 1 = x
    BY <1>7
  <2> HIDE DEF y
  <2>2. PrimesIn(a, y) \o PrimesIn(y + 1, b) = PrimesIn(a, b)
    BY <2>1, PrimesInJoin, Zenon
  <2> QED BY <2>1, <2>2 DEF y
<1> QED BY <1>7, <1>2, <1>4, <1>5, <1>6, Zenon

\* Every chunk but the first lies behind 2, and the first reaches it.
LEMMA PrimesJoin ==
    ASSUME ChunksAssumption, TypeOK, IsPartition(chunks), x_from >= 0,
           chunks[1].last >= 2
    PROVE  PrimesResult = PrimesIn(x_from, x_to)
<1> DEFINE n == Len(chunks)
           part(k) == findPrimeNumbers(chunks[k].first, chunks[k].last)
           parts == [k \in 1..n |-> part(k)]
<1>1. /\ n \in Nat \ {0} /\ x_from \in Int /\ x_to \in Int
      /\ \A k \in 1..n : /\ chunks[k].first \in Int /\ chunks[k].last \in Int
                         /\ x_from <= chunks[k].first /\ chunks[k].first <= chunks[k].last
  BY ChunksAreInside DEF TypeOK, ChunksAssumption, Ints, MinInt
<1>2. /\ chunks[1].first = x_from /\ chunks[n].last = x_to
      /\ \A k \in 1..(n - 1) : chunks[k + 1].first = chunks[k].last + 1
  BY DEF IsPartition, Joined
<1>3. PrimesResult = FlattenSeq(parts)
  BY DEF PrimesResult, Reduced
<1> HIDE DEF n
<1> DEFINE T == {k \in Nat : k + 1 <= n => chunks[k + 1].last >= 2}
<1>4. \A k \in 1..n : chunks[k].last >= 2
  <2>1. 0 \in T
    OBVIOUS
  <2>2. ASSUME NEW k \in Nat, k \in T PROVE k + 1 \in T
    <3> DEFINE x == k + 1
    <3> SUFFICES ASSUME x + 1 <= n PROVE chunks[x + 1].last >= 2
      OBVIOUS
    <3>1. x \in 1..(n - 1) /\ x \in 1..n /\ x + 1 \in 1..n /\ chunks[x].last >= 2
      BY <1>1, <2>2
    <3> HIDE DEF x
    <3>2. chunks[x + 1].first = chunks[x].last + 1
      BY <1>2, <3>1
    <3>3. /\ chunks[x].last \in Int /\ chunks[x + 1].first \in Int
          /\ chunks[x + 1].last \in Int /\ chunks[x + 1].first <= chunks[x + 1].last
      BY <1>1, <3>1
    <3> QED BY <3>1, <3>2, <3>3
  <2> HIDE DEF T
  <2>3. Nat \subseteq T
    BY <2>1, <2>2, EveryNumber
  <2> TAKE k \in 1..n
  <2>4. k - 1 \in T /\ (k - 1) + 1 = k /\ k <= n
    BY <1>1, <2>3
  <2> QED BY <2>4 DEF T
<1> HIDE DEF T
<1>5. \A k \in 1..n : /\ part(k) = PrimesIn(chunks[k].first, chunks[k].last)
                      /\ part(k) \in Seq(Int)
  <2> TAKE k \in 1..n
  <2> DEFINE a == chunks[k].first
             b == chunks[k].last
  <2>1. a \in Nat /\ a \in Int /\ b \in Int /\ a <= b /\ b >= 2 /\ a <= b + 1
    BY <1>1, <1>4
  <2> HIDE DEF a, b
  <2>2. findPrimeNumbers(a, b) = PrimesIn(a, b)
    BY <2>1, FindsPrimes
  <2>3. PrimesIn(a, b) \in Seq(Int)
    BY <2>1, PrimesInNext
  <2> QED BY <2>2, <2>3 DEF a, b
<1> HIDE DEF part
<1>6. parts \in Seq(Seq(Int)) /\ Len(parts) = n /\ parts # << >>
      /\ \A k \in 1..n : parts[k] = part(k)
  BY <1>1, <1>5
<1> HIDE DEF parts
<1>7. PICK f : Joins(parts, n, f) /\ FlattenSeq(parts) = f[n]
  BY <1>6, FlattenJoins
<1> DEFINE U == {k \in Nat : k + 1 <= n => f[k + 1] = PrimesIn(x_from, chunks[k + 1].last)}
<1>8. 0 \in U
  <2>1. f[1] = parts[1] /\ 1 \in 1..n
    BY <1>1, <1>7 DEF Joins
  <2>2. f[1] = PrimesIn(x_from, chunks[1].last)
    BY <1>2, <1>5, <1>6, <2>1
  <2> QED BY <2>2
<1>9. ASSUME NEW k \in Nat, k \in U PROVE k + 1 \in U
  <2> DEFINE x == k + 1
             y == x + 1
  <2> SUFFICES ASSUME y <= n PROVE f[y] = PrimesIn(x_from, chunks[y].last)
    OBVIOUS
  <2>1. f[x] = PrimesIn(x_from, chunks[x].last)
    <3>1. x <= n
      BY <1>1
    <3> QED BY <1>9, <3>1
  <2>2. /\ x \in 1..(n - 1) /\ x \in 1..n /\ y \in 1..n /\ y \in 2..n /\ y - 1 = x
        /\ y = x + 1
    BY <1>1
  <2> HIDE DEF x, y
  <2> DEFINE b == chunks[x].last
             c == chunks[y].last
  <2>3. chunks[y].first = b + 1
    BY <1>2, <2>2
  <2>4. b \in Int /\ c \in Int /\ x_from <= b + 1 /\ b <= c
    <3>1. /\ chunks[x].first \in Int /\ chunks[x].last \in Int
          /\ x_from <= chunks[x].first /\ chunks[x].first <= chunks[x].last
          /\ chunks[y].first \in Int /\ chunks[y].last \in Int
          /\ chunks[y].first <= chunks[y].last
      BY <1>1, <2>2
    <3> QED BY <1>1, <2>3, <3>1
  <2>5. f[y] = f[x] \o part(y)
    BY <1>6, <1>7, <2>2, Zenon DEF Joins
  <2>6. part(y) = PrimesIn(b + 1, c)
    BY <1>5, <2>2, <2>3
  <2> HIDE DEF b, c
  <2>7. PrimesIn(x_from, b) \o PrimesIn(b + 1, c) = PrimesIn(x_from, c)
    BY <1>1, <2>4, PrimesInJoin
  <2> QED BY <2>1, <2>5, <2>6, <2>7, Zenon DEF b, c
<1> HIDE DEF U
<1>10. n - 1 \in U /\ (n - 1) + 1 = n /\ n <= n
  BY <1>1, <1>8, <1>9, EveryNumber
<1>11. f[n] = PrimesIn(x_from, chunks[n].last)
  BY <1>10 DEF U
<1> QED BY <1>2, <1>3, <1>7, <1>11

LEMMA PrimesOfChunks ==
    ASSUME ChunksAssumption, TypeOK, PartitionsRange, WorthTheirThreads
    PROVE  PrimesAreWhole
<1> SUFFICES ASSUME Divided, x_from >= 0, x_to \in 2..(MaxInt - 2), min_chunk_size >= 3
             PROVE  /\ PrimesResult = PrimesIn(x_from, x_to)
                    /\ \A k \in 1..Len(chunks) :
                          LoopEnds(FirstOdd(chunks[k].first), chunks[k].last, 2)
  <2>1. x_from \in Int /\ x_to \in Int
    BY DEF TypeOK, ChunksAssumption, Ints, MinInt
  <2>2. ASSUME x_from <= x_to
        PROVE  Loop(x_from, x_to, 1) = [k \in 1..total |-> x_from + k - 1]
    <3>1. (x_to - x_from) \div 1 + 1 = total
      BY <2>1 DEF total
    <3>2. \A k \in 1..total : x_from + (k - 1) * 1 = x_from + k - 1
      BY <2>1
    <3>3. Loop(x_from, x_to, 1) = [k \in 1..total |-> x_from + (k - 1) * 1]
      BY <2>1, <2>2, <3>1 DEF Loop
    <3> QED BY <3>2, <3>3, Zenon
  <2>3. Divided => x_from <= x_to
    BY DEF Divided, Usable
  <2> QED BY <2>2, <2>3, Zenon DEF PrimesAreWhole, PrimesIn, PrimesOf
<1>1. IsPartition(chunks)
  BY DEF PartitionsRange, Divided
<1>2. /\ Len(chunks) \in Nat \ {0}
      /\ \A k \in 1..Len(chunks) :
            /\ chunks[k].first \in Int /\ chunks[k].last \in Int
            /\ x_from <= chunks[k].first /\ chunks[k].first <= chunks[k].last
            /\ chunks[k].last <= x_to
      /\ x_from \in Int /\ x_to \in Int /\ MaxInt \in Nat /\ min_chunk_size \in Int
  BY <1>1, ChunksAreInside DEF TypeOK, ChunksAssumption, Ints, MinInt
<1>3. chunks[1].first = x_from /\ chunks[Len(chunks)].last = x_to
  BY <1>1 DEF IsPartition
<1>4. chunks[1].last >= 2
  <2>1. CASE Len(chunks) = 1
    BY <1>2, <1>3, <2>1
  <2>2. CASE Len(chunks) # 1
    <3> DEFINE n == Len(chunks)
    <3>3. n \in Nat \ {0} /\ n # 1
      BY <1>2, <2>2
    <3> HIDE DEF n
    <3>4. 1 \in 1..(n - 1) /\ 1 \in 1..n
      BY <3>3
    <3>1. 1 \in 1..(Len(chunks) - 1) /\ 1 \in 1..Len(chunks)
      BY <3>4 DEF n
    <3>2. chunks[1].last - chunks[1].first + 1 >= min_chunk_size
      BY <3>1 DEF WorthTheirThreads, Divided
    <3> QED BY <1>2, <1>3, <3>1, <3>2
  <2> QED BY <2>1, <2>2
<1>5. PrimesResult = PrimesIn(x_from, x_to)
  BY <1>1, <1>4, PrimesJoin
<1>6. ASSUME NEW k \in 1..Len(chunks)
      PROVE  LoopEnds(FirstOdd(chunks[k].first), chunks[k].last, 2)
  <2> DEFINE a == FirstOdd(chunks[k].first)
             b == chunks[k].last
  <2>1. CASE a > b
    BY <2>1 DEF LoopEnds
  <2>2. CASE ~(a > b)
    <3>1. /\ a \in Int /\ 0 <= a /\ b \in Ints /\ b <= MaxInt - 2 /\ 2 \in Nat \ {0}
      <4>1. chunks[k].first \in Nat /\ b \in Int /\ b <= x_to
        BY <1>2
      <4>2. a \in Int /\ 0 <= a
        BY <4>1 DEF FirstOdd
      <4>3. b \in Ints
        BY ChunkNumbers
      <4> QED BY <1>2, <4>1, <4>2, <4>3
    <3>2. a \in Ints /\ a <= b
      <4> HIDE DEF a, b
      <4> QED BY <2>2, <3>1 DEF Ints, MinInt, ChunksAssumption
    <3> HIDE DEF a, b
    <3>3. LoopEnds(a, b, 2)
      BY <3>1, <3>2, LoopIsOver
    <3> QED BY <3>3 DEF a, b
  <2> QED BY <2>1, <2>2
<1> QED BY <1>5, <1>6

\* Whatever the width of int and the range: what findPrimeNumbers finds chunk by
\* chunk, joined by findPrimeNumbers_reduce in the order of the chunks, are the
\* primes of the range, each once and in order, although a chunk tries odd numbers
\* only and only odd divisors up to the root; and no chunk's loop goes past INT_MAX
\* and on.
THEOREM PrimesAreJoined == ChunksAssumption => (Spec => []PrimesAreWhole)
<1> SUFFICES ASSUME ChunksAssumption PROVE Spec => []PrimesAreWhole
  OBVIOUS
<1>1. TypeOK /\ PartitionsRange /\ WorthTheirThreads => PrimesAreWhole
  BY PrimesOfChunks
<1>2. Spec => []TypeOK
  BY ChunksTypeCorrect
<1>3. Spec => []PartitionsRange
  BY RangeIsPartitioned
<1>4. Spec => []WorthTheirThreads
  BY ChunksAreWorthTheirThreads
<1> QED BY <1>1, <1>2, <1>3, <1>4, PTL
=============================================================================
