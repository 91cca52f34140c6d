------------------------------- MODULE Chunks -------------------------------
(***************************************************************************)
(* divideIntoChunks (src/src/Common/Utils.cpp): one call, for every        *)
(* argument an int can be.  Every task of the server is split by it, so    *)
(* what it loses or repeats is lost or repeated in a client's result.      *)
(*                                                                         *)
(* total is an int64_t, which holds it exactly.  What is stored in an int  *)
(* is reduced modulo the size of the type (Narrow): so does the conversion *)
(* from int64_t, and so does an int addition that overflows, undefined in  *)
(* the language, when compiled to the add instruction of the machine.      *)
(***************************************************************************)
EXTENDS Integers, Sequences

CONSTANTS
    MaxInt,     \* INT_MAX
    Counts,     \* the max_chunk_count arguments
    Sizes       \* the min_chunk_size arguments

MinInt == -MaxInt - 1
Ints == MinInt..MaxInt

ASSUME ChunksAssumption ==
    /\ MaxInt \in Nat \ {0}
    /\ Counts \subseteq Ints
    /\ Sizes \subseteq Ints

VARIABLES
    x_from, x_to, max_chunk_count, min_chunk_size,  \* the arguments
    pc,             \* "start", "minimal" or "even" (the loops), "done"
    chunk_count,    \* chunks the loop emits
    remainder,
    base,           \* size of the loop's chunks
    i,              \* the loop's counter
    current,        \* where the next chunk starts
    chunks          \* the result

args == <<x_from, x_to, max_chunk_count, min_chunk_size>>
plan == <<chunk_count, remainder, base>>
vars == <<args, pc, plan, i, current, chunks>>

-----------------------------------------------------------------------------
(* X_<word> is a faulty variant of X; no action refers to it.               *)

\* Faulty: the numbers of a type that is wide enough.
Narrow_Wide(n) == n

Narrow(n) == ((n - MinInt) % (MaxInt - MinInt + 1)) + MinInt

total == x_to - x_from + 1

Chunk(first, last) == [first |-> first, last |-> last]

Init ==
    /\ x_from \in Ints /\ x_to \in Ints
    /\ max_chunk_count \in Counts
    /\ min_chunk_size \in Sizes
    /\ pc = "start"
    /\ chunk_count = 0 /\ remainder = 0 /\ base = 0
    /\ i = 0
    /\ current = x_from
    /\ chunks = << >>

\* (The test of total for "<= 0" that comes later adds nothing to this one.)
Usable == x_from <= x_to /\ max_chunk_count > 0 /\ min_chunk_size >= 1

Reject ==
    /\ pc = "start" /\ ~Usable
    /\ pc' = "done"
    /\ UNCHANGED <<args, plan, i, current, chunks>>

TakeWhole ==
    /\ pc = "start" /\ Usable /\ max_chunk_count = 1
    /\ pc' = "done"
    /\ chunks' = <<Chunk(x_from, x_to)>>
    /\ UNCHANGED <<args, plan, i, current>>

\* Faulty: the shorter last chunk is not counted.
Needed_Whole(q, r) == q

\* How many chunks of the least size it takes.
Needed(q, r) == Narrow(q + IF r # 0 THEN 1 ELSE 0)

\* Chunks of the least size if that makes no more than are allowed, otherwise
\* as many as are allowed, the first ones longer by one.
Plan ==
    /\ pc = "start" /\ Usable /\ max_chunk_count > 1
    /\ LET q == Narrow(total \div min_chunk_size)
           r == Narrow(total % min_chunk_size)
       IN  IF Needed(q, r) <= max_chunk_count
           THEN /\ pc' = "minimal"
                /\ chunk_count' = q
                /\ remainder' = r
                /\ base' = min_chunk_size
           ELSE /\ pc' = "even"
                /\ chunk_count' = max_chunk_count
                /\ remainder' = Narrow(total % max_chunk_count)
                /\ base' = Narrow(total \div max_chunk_count)
    /\ UNCHANGED <<args, i, current, chunks>>

\* Faulty: one chunk too many is made longer.
Size_OffByOne == base + IF pc = "even" /\ i <= remainder THEN 1 ELSE 0

Size == base + IF pc = "even" /\ i < remainder THEN 1 ELSE 0

\* One turn of either loop.
Emit ==
    /\ pc \in {"minimal", "even"} /\ i < chunk_count
    /\ LET chunk_end == Narrow(current + Size - 1)
       IN  /\ chunks' = Append(chunks, Chunk(current, chunk_end))
           /\ current' = Narrow(chunk_end + 1)
    /\ i' = i + 1
    /\ UNCHANGED <<args, pc, plan>>

\* The loop is over; what is left of the range is a shorter last chunk.
Finish ==
    /\ pc \in {"minimal", "even"} /\ i >= chunk_count
    /\ pc' = "done"
    /\ chunks' = IF pc = "minimal" /\ remainder # 0
                 THEN Append(chunks, Chunk(current, Narrow(current + remainder - 1)))
                 ELSE chunks
    /\ UNCHANGED <<args, plan, i, current>>

Next == Reject \/ TakeWhole \/ Plan \/ Emit \/ Finish

Spec == Init /\ [][Next]_vars /\ WF_vars(Next)

-----------------------------------------------------------------------------
TypeOK ==
    /\ x_from \in Ints /\ x_to \in Ints
    /\ max_chunk_count \in Counts /\ min_chunk_size \in Sizes
    /\ pc \in {"start", "minimal", "even", "done"}
    /\ chunk_count \in Ints /\ remainder \in Ints /\ base \in Ints
    /\ i \in Nat
    /\ current \in Ints
    /\ chunks \in Seq([first : Ints, last : Ints])

\* The chunks so far follow each other without a gap or a repetition.
Joined(s) ==
    /\ \A k \in 1..Len(s) : s[k].first <= s[k].last
    /\ \A k \in 1..(Len(s) - 1) : s[k + 1].first = s[k].last + 1

IsPartition(s) ==
    /\ s # << >>
    /\ s[1].first = x_from
    /\ s[Len(s)].last = x_to
    /\ Joined(s)

\* The arguments whose quotients fit an int.  The server's are among them for
\* every range a client asks for: it passes 100 chunks of at least 100.
QuotientsFit ==
    total <= MaxInt \/ (max_chunk_count > 2 /\ min_chunk_size > 2)

\* Every number of the range is in one chunk, up to the ends of the type.
PartitionsRange ==
    (pc = "done" /\ Usable /\ QuotientsFit) => IsPartition(chunks)

\* There are at most max_chunk_count chunks, and all but the last are of
\* min_chunk_size at least ("optimal solution is to have (n-1) chunks have
\* (chunk_size >= min_chunk_size)").
WorthTheirThreads ==
    (Usable /\ QuotientsFit) =>
        /\ Len(chunks) <= max_chunk_count
        /\ \A k \in 1..(Len(chunks) - 1) :
              chunks[k].last - chunks[k].first + 1 >= min_chunk_size

\* "need to use int64_t for just this one special case ... only case of
\* (max_chunk_count == 1) needs special handling, done above": the claim of the
\* comment on overflow, that every range is divided right with what is done.
PartitionsEveryRange == (pc = "done" /\ Usable) => IsPartition(chunks)
=============================================================================
