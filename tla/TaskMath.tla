------------------------------ MODULE TaskMath ------------------------------
(***************************************************************************)
(* The tasks of ExampleServer on the chunks of module Chunks: each chunk   *)
(* is computed by itself, and the results are joined in order.  The value  *)
(* of a function at a point is left out, as it depends on that point only. *)
(***************************************************************************)
EXTENDS Chunks, SequencesExt, FiniteSets

CONSTANT Steps  \* the x_step arguments

ASSUME TaskMathAssumption == Steps \subseteq Nat \ {0}

\* The values of for (int x = from; x <= to; x += step).
Loop(from, to, step) ==
    IF from > to THEN << >>
    ELSE [k \in 1..((to - from) \div step + 1) |-> from + (k - 1) * step]

\* The addition after the last value may overflow, and then the loop goes on.
LoopEnds(from, to, step) ==
    from > to \/ Narrow(from + ((to - from) \div step + 1) * step) > to

-----------------------------------------------------------------------------
(* X_<word> is a faulty variant of X; nothing refers to it.                 *)

\* How many numbers of s are below x, and how many are not above x.
Below(s, x) == Cardinality({k \in 1..Len(s) : s[k] < x})
UpTo(s, x) == Cardinality({k \in 1..Len(s) : s[k] <= x})

\* The k-th is the number with fewer than k below it and k that are not above it.
Sorted(s) ==
    [k \in 1..Len(s) |-> CHOOSE x \in Range(s) : Below(s, x) < k /\ k <= UpTo(s, x)]

\* Faulty: an index range without its end.
Subcontainers_Short(container) ==
    [k \in 1..Len(chunks) |-> SubSeq(container, chunks[k].first + 1, chunks[k].last)]

\* divideIntoChunks for containers: what the chunks of indices select.
Subcontainers(container) ==
    [k \in 1..Len(chunks) |-> SubSeq(container, chunks[k].first + 1, chunks[k].last + 1)]

sortArray(arr) == Sorted(arr)

\* What inplace_merge does to two parts that are not sorted is not said; here
\* it leaves them.
inplace_merge(s, t) ==
    IF IsSorted(s, <=) /\ IsSorted(t, <=) THEN Sorted(s \o t) ELSE s \o t

\* Each result is appended to those before it and merged with them.
SortResult(container) ==
    LET parts == Subcontainers(container)
        numbers[k \in 0..Len(parts)] ==
            IF k = 0 THEN << >> ELSE inplace_merge(numbers[k - 1], sortArray(parts[k]))
    IN  numbers[Len(parts)]

\* Faulty: the divisor that is the root is not tried.
isPrime_BelowRoot(n) == \A d \in {k \in 3..n : k * k < n /\ k % 2 = 1} : n % d # 0

\* For odd numbers from 3 on: limit is the root of n, rounded down.
isPrime(n) == \A d \in {k \in 3..n : k * k <= n /\ k % 2 = 1} : n % d # 0

\* The numbers a loop pushes back, of those it goes through.
Picked(numbers, Test(_)) ==
    FlattenSeq([k \in 1..Len(numbers) |->
                   IF Test(numbers[k]) THEN <<numbers[k]>> ELSE << >>])

\* Where findPrimeNumbers starts its loop over odd numbers.
FirstOdd(numFrom) ==
    IF numFrom <= 2 THEN 3 ELSE IF numFrom % 2 = 0 THEN numFrom + 1 ELSE numFrom

findPrimeNumbers(numFrom, numTo) ==
    IF numFrom > numTo THEN << >>
    ELSE (IF numFrom <= 2 THEN <<2>> ELSE << >>)
            \o Picked(Loop(FirstOdd(numFrom), numTo, 2), isPrime)

\* Faulty: the end of a chunk is left out.
calculateFunction_Open(x_1, x_2, x_step) == Loop(x_1, x_2 - 1, x_step)

\* The x of the points.
calculateFunction(x_1, x_2, x_step) == Loop(x_1, x_2, x_step)

\* The ..._reduce functions, in the order of the chunks.
Reduced(results) == FlattenSeq(results)

PrimesResult ==
    Reduced([k \in 1..Len(chunks) |-> findPrimeNumbers(chunks[k].first, chunks[k].last)])

PointsResult(x_step) ==
    Reduced([k \in 1..Len(chunks) |->
                calculateFunction(chunks[k].first, chunks[k].last, x_step)])

-----------------------------------------------------------------------------
(* Properties.  Each holds under the conditions that the code needs: outside *)
(* of them the server answers all the same, with something else.            *)

Divided == pc = "done" /\ Usable /\ QuotientsFit

\* The subarrays are those of the array, whole, and their sorted results are
\* merged to the sorted array.
SortIsWhole ==
    (Divided /\ x_from = 0) =>
        LET numbers == [k \in 1..(x_to + 1) |-> (7 * k) % 5]
        IN  SortResult(numbers) = Sorted(numbers)

IsPrimeNumber(n) == n > 1 /\ \A d \in 2..(n - 1) : n % d # 0

\* The primes found by chunks are the primes of the range, in order, each once,
\* and each chunk's loop ends.  This needs a first chunk that reaches 2, as
\* every chunk from 2 or below begins with 2, and an end that is not within the
\* last two numbers of the type.
PrimesAreWhole ==
    (Divided /\ x_from >= 0 /\ x_to \in 2..(MaxInt - 2) /\ min_chunk_size >= 3) =>
        /\ PrimesResult = Picked([k \in 1..total |-> x_from + k - 1], IsPrimeNumber)
        /\ \A k \in 1..Len(chunks) : LoopEnds(FirstOdd(chunks[k].first), chunks[k].last, 2)

\* The points computed by chunks are those of one pass over the range, and each
\* chunk's loop ends.  This needs a step that divides the size of all chunks but
\* the last, and an end of the range that leaves room for a step.
PointsAreWhole ==
    Divided =>
        \A x_step \in Steps :
            (/\ x_to <= MaxInt - x_step
             /\ \A k \in 1..(Len(chunks) - 1) :
                   (chunks[k].last - chunks[k].first + 1) % x_step = 0) =>
                /\ PointsResult(x_step) = Loop(x_from, x_to, x_step)
                /\ \A k \in 1..Len(chunks) :
                      LoopEnds(chunks[k].first, chunks[k].last, x_step)
=============================================================================
