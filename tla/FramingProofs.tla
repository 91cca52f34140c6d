--------------------------- MODULE FramingProofs ---------------------------
(***************************************************************************)
(* Proofs about Framing: a header is read as the number it was written     *)
(* for, and whatever pieces the bytes come in, the messages read are those *)
(* that were sent.                                                         *)
(***************************************************************************)
EXTENDS Framing, Integers, SequenceTheorems, WellFoundedInduction, TLAPS

-----------------------------------------------------------------------------
(* Numbers.                                                                 *)

\* Induction for a set of numbers: one that is missing would have a least one.
LEMMA EveryNumber ==
    ASSUME NEW T, 0 \in T, \A n \in Nat : n \in T => n + 1 \in T
    PROVE  Nat \subseteq T
<1> SUFFICES ASSUME Nat \ T # {} PROVE FALSE
  OBVIOUS
<1>1. PICK x \in Nat \ T : \A y \in Nat \ T : <<y, x>> \notin OpToRel(<, Nat)
  BY NatLessThanWellFounded, WFMin, Zenon
<1>2. \A y \in Nat \ T : ~(y < x)
  BY <1>1 DEF OpToRel
<1>3. x # 0 /\ x - 1 \in Nat /\ x - 1 < x /\ (x - 1) + 1 = x
  OBVIOUS
<1>4. x - 1 \in T
  BY <1>2, <1>3
<1> QED BY <1>3, <1>4

LEMMA Division ==
    ASSUME NEW n \in Nat, NEW d \in Nat \ {0}
    PROVE  n \div d \in Nat /\ n % d \in 0..(d - 1) /\ n = (n \div d) * d + (n % d)
<1>1. n \div d \in Int /\ n \div d >= 0
  OBVIOUS
<1>2. n % d \in 0..(d - 1)
  OBVIOUS
<1>3. n = (n \div d) * d + (n % d)
  OBVIOUS
<1> QED BY <1>1, <1>2, <1>3

\* The numbers that the first bytes stand for.
Sums(bytes, n, f) ==
    /\ f \in [0..n -> Nat]
    /\ f[0] = 0
    /\ \A k \in 1..n : f[k] = f[k - 1] * Base + bytes[k]

LEMMA SumsExist ==
    ASSUME Base \in Nat, NEW n \in Nat, NEW bytes, \A k \in 1..n : bytes[k] \in Nat
    PROVE  \E f : Sums(bytes, n, f)
<1> DEFINE T == {m \in Nat : m <= n => \E f : Sums(bytes, m, f)}
<1>1. 0 \in T
  <2>1. Sums(bytes, 0, [k \in 0..0 |-> 0])
    BY DEF Sums
  <2> QED BY <2>1
<1>2. ASSUME NEW m \in Nat, m \in T PROVE m + 1 \in T
  <2> SUFFICES ASSUME m + 1 <= n PROVE \E f : Sums(bytes, m + 1, f)
    OBVIOUS
  <2>1. PICK f : Sums(bytes, m, f)
    BY <1>2
  <2> DEFINE v == f[m] * Base + bytes[m + 1]
             g == [k \in 0..(m + 1) |-> IF k = m + 1 THEN v ELSE f[k]]
  <2>2. v \in Nat
    <3>1. f[m] \in Nat /\ bytes[m + 1] \in Nat
      BY <2>1 DEF Sums
    <3>2. f[m] * Base \in Nat
      BY <3>1
    <3> QED BY <3>1, <3>2
  <2> HIDE DEF v
  <2>3. g \in [0..(m + 1) -> Nat] /\ g[0] = 0
    BY <2>1, <2>2 DEF Sums
  <2>4. \A k \in 1..m : g[k] = g[k - 1] * Base + bytes[k]
    BY <2>1 DEF Sums
  <2>5. g[m + 1] = g[m] * Base + bytes[m + 1]
    BY DEF v
  <2>6. Sums(bytes, m + 1, g)
    <3> HIDE DEF g
    <3>1. \A k \in 1..(m + 1) : k \in 1..m \/ (k = m + 1 /\ k - 1 = m)
      OBVIOUS
    <3>2. \A k \in 1..(m + 1) : g[k] = g[k - 1] * Base + bytes[k]
      BY <2>4, <2>5, <3>1
    <3> QED BY <2>3, <3>2 DEF Sums
  <2> QED BY <2>6
<1> HIDE DEF T
<1>3. Nat \subseteq T
  BY <1>1, <1>2, EveryNumber
<1> QED BY <1>3 DEF T

LEMMA SumsAgree ==
    ASSUME NEW m \in Nat, NEW n \in Nat, m <= n, NEW b, NEW c, NEW f, NEW g,
           \A k \in 1..m : b[k] = c[k],
           Sums(b, m, f), Sums(c, n, g)
    PROVE  f[m] = g[m]
<1> DEFINE T == {k \in Nat : k <= m => f[k] = g[k]}
<1>1. 0 \in T
  BY DEF Sums
<1>2. ASSUME NEW k \in Nat, k \in T PROVE k + 1 \in T
  <2> SUFFICES ASSUME k + 1 <= m PROVE f[k + 1] = g[k + 1]
    OBVIOUS
  <2>1. f[k] = g[k] /\ b[k + 1] = c[k + 1] /\ k + 1 \in 1..m /\ k + 1 \in 1..n /\ (k + 1) - 1 = k
    BY <1>2
  <2>2. f[k + 1] = f[k] * Base + b[k + 1]
    BY <2>1 DEF Sums
  <2>3. g[k + 1] = g[k] * Base + c[k + 1]
    BY <2>1 DEF Sums
  <2> QED BY <2>1, <2>2, <2>3
<1> HIDE DEF T
<1>3. Nat \subseteq T
  BY <1>1, <1>2, EveryNumber
<1> QED BY <1>3 DEF T

LEMMA NumberIsASum ==
    ASSUME Base \in Nat, NEW bytes \in Seq(Nat)
    PROVE  \E f : Sums(bytes, Len(bytes), f) /\ Number(bytes) = f[Len(bytes)]
<1> DEFINE n == Len(bytes)
           Is(f) == f = [k \in 0..n |-> IF k = 0 THEN 0 ELSE f[k - 1] * Base + bytes[k]]
           upTo == CHOOSE f : Is(f)
<1>1. n \in Nat /\ \A k \in 1..n : bytes[k] \in Nat
  OBVIOUS
<1>2. PICK f : Sums(bytes, n, f)
  BY <1>1, SumsExist
<1>3. Is(f)
  BY <1>1, <1>2 DEF Sums
<1>4. Is(upTo)
  BY <1>3
<1>5. Number(bytes) = upTo[n]
  BY DEF Number
<1> HIDE DEF upTo
<1>6. DOMAIN upTo = 0..n /\ upTo[0] = 0
      /\ \A k \in 1..n : upTo[k] = upTo[k - 1] * Base + bytes[k]
  BY <1>1, <1>4
<1> DEFINE T == {k \in Nat : k <= n => upTo[k] \in Nat}
<1>7. 0 \in T
  BY <1>6
<1>8. ASSUME NEW k \in Nat, k \in T PROVE k + 1 \in T
  <2> SUFFICES ASSUME k + 1 <= n PROVE upTo[k + 1] \in Nat
    OBVIOUS
  <2>1. upTo[k] \in Nat /\ bytes[k + 1] \in Nat /\ k + 1 \in 1..n /\ (k + 1) - 1 = k
    BY <1>1, <1>8
  <2>2. upTo[k + 1] = upTo[k] * Base + bytes[k + 1]
    BY <1>6, <2>1
  <2>3. upTo[k] * Base \in Nat
    BY <2>1
  <2> QED BY <2>1, <2>2, <2>3
<1> HIDE DEF T
<1>9. Nat \subseteq T
  BY <1>7, <1>8, EveryNumber
<1>10. upTo \in [0..n -> Nat]
  <2>1. \A k \in 0..n : upTo[k] \in Nat
    BY <1>1, <1>9 DEF T
  <2>2. upTo = [k \in 0..n |-> upTo[k]]
    BY <1>4
  <2> HIDE DEF n
  <2> QED BY <2>1, <2>2
<1>11. Sums(bytes, n, upTo)
  BY <1>6, <1>10 DEF Sums
<1> QED BY <1>5, <1>11

\* What one byte more makes of a number.
LEMMA NumberStep ==
    ASSUME Base \in Nat, NEW bytes \in Seq(Nat), NEW more \in Seq(Nat),
           Len(more) = Len(bytes) + 1,
           \A k \in 1..Len(bytes) : more[k] = bytes[k]
    PROVE  /\ Number(bytes) \in Nat
           /\ Number(more) = Number(bytes) * Base + more[Len(more)]
<1> DEFINE n == Len(bytes)
<1>1. PICK f : Sums(bytes, n, f) /\ Number(bytes) = f[n]
  BY NumberIsASum
<1>2. PICK g : Sums(more, n + 1, g) /\ Number(more) = g[n + 1]
  BY NumberIsASum
<1>3. n \in Nat /\ n + 1 \in Nat /\ n <= n + 1 /\ n + 1 \in 1..(n + 1) /\ (n + 1) - 1 = n /\ n \in 0..n
  OBVIOUS
<1>4. \A k \in 1..n : bytes[k] = more[k]
  OBVIOUS
<1> HIDE DEF n
<1>5. f[n] = g[n]
  BY <1>1, <1>2, <1>3, <1>4, SumsAgree
<1>6. f[n] \in Nat
  BY <1>1, <1>3 DEF Sums
<1>7. g[n + 1] = g[n] * Base + more[n + 1]
  BY <1>2, <1>3 DEF Sums
<1> QED BY <1>1, <1>2, <1>5, <1>6, <1>7 DEF n

Greatest(k) == Number([j \in 1..k |-> Base - 1])

LEMMA BytesAreASequence ==
    ASSUME FramingAssumption, NEW k \in Nat, NEW d \in [1..k -> Byte]
    PROVE  /\ d \in Seq(Byte) /\ d \in Seq(Nat)
           /\ Len(d) = k
BY DEF FramingAssumption, Byte

\* k bytes stand for the numbers up to a greatest one, and for each of them.
LEMMA NumbersOfBytes ==
    ASSUME FramingAssumption, NEW k \in Nat
    PROVE  /\ Greatest(k) \in Nat
           /\ \A d \in [1..k -> Byte] : Number(d) \in 0..Greatest(k)
           /\ \A n \in 0..Greatest(k) : \E d \in [1..k -> Byte] : Number(d) = n
<1> DEFINE Full(m) == [j \in 1..m |-> Base - 1]
           P(m) == /\ Greatest(m) \in Nat
                   /\ \A d \in [1..m -> Byte] : Number(d) \in 0..Greatest(m)
                   /\ \A n \in 0..Greatest(m) : \E d \in [1..m -> Byte] : Number(d) = n
           T == {m \in Nat : P(m)}
<1>1. Base \in Nat /\ Base >= 2 /\ Byte = 0..(Base - 1)
  BY DEF FramingAssumption, Byte
<1>2. ASSUME NEW m \in Nat PROVE Full(m) \in [1..m -> Byte]
  BY <1>1
<1>3. 0 \in T
  <2>1. ASSUME NEW d \in [1..0 -> Byte] PROVE Number(d) = 0
    <3>1. d \in Seq(Nat) /\ Len(d) = 0
      BY BytesAreASequence
    <3>2. PICK f : Sums(d, 0, f) /\ Number(d) = f[0]
      BY <1>1, <3>1, NumberIsASum
    <3> QED BY <3>2 DEF Sums
  <2>2. Greatest(0) = 0
    BY <1>2, <2>1 DEF Greatest
  <2>3. Full(0) \in [1..0 -> Byte]
    BY <1>2
  <2> HIDE DEF Full
  <2>4. P(0)
    BY <2>1, <2>2, <2>3
  <2> QED BY <2>4
<1>4. ASSUME NEW m \in Nat, m \in T PROVE m + 1 \in T
  <2> DEFINE top == Greatest(m)
  <2>1. P(m)
    BY <1>4
  <2>2. ASSUME NEW d \in [1..m -> Byte], NEW e \in [1..(m + 1) -> Byte],
               \A j \in 1..m : e[j] = d[j]
        PROVE  Number(e) = Number(d) * Base + e[m + 1]
    <3>1. d \in Seq(Nat) /\ Len(d) = m /\ e \in Seq(Nat) /\ Len(e) = m + 1
      BY <2>2, BytesAreASequence
    <3> QED BY <1>1, <2>2, <3>1, NumberStep
  <2>3. Greatest(m + 1) = top * Base + (Base - 1)
    <3>1. Full(m) \in [1..m -> Byte] /\ Full(m + 1) \in [1..(m + 1) -> Byte]
      <4>1. m + 1 \in Nat
        OBVIOUS
      <4> HIDE DEF Full
      <4> QED BY <1>2, <4>1
    <3>2. (\A j \in 1..m : Full(m + 1)[j] = Full(m)[j]) /\ Full(m + 1)[m + 1] = Base - 1
      OBVIOUS
    <3>3. Greatest(m) = Number(Full(m)) /\ Greatest(m + 1) = Number(Full(m + 1))
      BY DEF Greatest
    <3> HIDE DEF Full
    <3> QED BY <2>2, <3>1, <3>2, <3>3
  <2>4. top \in Nat /\ top * Base \in Nat
    <3>1. top \in Nat
      BY <2>1
    <3> HIDE DEF top
    <3> QED BY <1>1, <3>1
  <2>5. ASSUME NEW e \in [1..(m + 1) -> Byte] PROVE Number(e) \in 0..Greatest(m + 1)
    <3> DEFINE d == [j \in 1..m |-> e[j]]
    <3>1. d \in [1..m -> Byte] /\ \A j \in 1..m : e[j] = d[j]
      OBVIOUS
    <3>2. Number(e) = Number(d) * Base + e[m + 1] /\ Number(d) \in 0..top
      <4> HIDE DEF d
      <4> QED BY <2>1, <2>2, <3>1
    <3>3. e[m + 1] \in 0..(Base - 1)
      BY <1>1
    <3> HIDE DEF d, top
    <3>4. Number(d) * Base <= top * Base /\ Number(d) * Base \in Nat
      BY <1>1, <2>4, <3>2
    <3> QED BY <1>1, <2>3, <2>4, <3>2, <3>3, <3>4
  <2>6. ASSUME NEW n \in 0..Greatest(m + 1)
        PROVE  \E e \in [1..(m + 1) -> Byte] : Number(e) = n
    <3> DEFINE q == n \div Base
               r == n % Base
    <3>1. q \in Nat /\ r \in 0..(Base - 1) /\ n = q * Base + r /\ n \in Nat
      <4>1. n \in Nat /\ Base \in Nat \ {0}
        BY <1>1, <2>3, <2>4
      <4> QED BY <4>1, Division
    <3> HIDE DEF q, r
    <3>2. q \in 0..top
      <4> SUFFICES ASSUME q >= top + 1 PROVE FALSE
        BY <2>4, <3>1
      <4>1. q * Base >= (top + 1) * Base
        BY <1>1, <2>4, <3>1, SMTT(30)
      <4>2. (top + 1) * Base = top * Base + Base
        BY <1>1, <2>4
      <4>3. q * Base \in Nat
        BY <1>1, <3>1
      <4> HIDE DEF top
      <4> QED BY <1>1, <2>3, <2>4, <3>1, <4>1, <4>2, <4>3
    <3>3. PICK d \in [1..m -> Byte] : Number(d) = q
      BY <2>1, <3>2
    <3> DEFINE e == [j \in 1..(m + 1) |-> IF j = m + 1 THEN r ELSE d[j]]
    <3>4. e \in [1..(m + 1) -> Byte] /\ e[m + 1] = r /\ \A j \in 1..m : e[j] = d[j]
      BY <1>1, <3>1
    <3> HIDE DEF e
    <3>5. Number(e) = n
      BY <2>2, <3>1, <3>3, <3>4
    <3> QED BY <3>4, <3>5
  <2>7. Greatest(m + 1) \in Nat
    BY <1>1, <2>3, <2>4
  <2>8. P(m + 1)
    BY <2>5, <2>6, <2>7
  <2> QED BY <2>8
<1> HIDE DEF T
<1>5. Nat \subseteq T
  BY <1>3, <1>4, EveryNumber
<1> QED BY <1>5 DEF T

\* The other order is the other order back.
LEMMA ReverseTwice ==
    ASSUME FramingAssumption, NEW k \in Nat, NEW d \in [1..k -> Byte]
    PROVE  Reverse(d) \in [1..k -> Byte] /\ Reverse(Reverse(d)) = d
<1> DEFINE r == Reverse(d)
<1>1. Len(d) = k
  BY BytesAreASequence
<1>2. r = [j \in 1..k |-> d[(k - j) + 1]]
  BY <1>1 DEF Reverse
<1>3. \A j \in 1..k : (k - j) + 1 \in 1..k /\ (k - ((k - j) + 1)) + 1 = j
  OBVIOUS
<1>4. r \in [1..k -> Byte]
  BY <1>2, <1>3
<1>5. Len(r) = k
  BY <1>4, BytesAreASequence
<1>6. Reverse(r) = [j \in 1..k |-> r[(k - j) + 1]]
  BY <1>5 DEF Reverse
<1>7. \A j \in 1..k : r[(k - j) + 1] = d[j]
  BY <1>2, <1>3
<1> HIDE DEF r
<1>8. d = [j \in 1..k |-> d[j]]
  OBVIOUS
<1>9. Reverse(r) = d
  BY <1>6, <1>7, <1>8
<1> QED BY <1>4, <1>9 DEF r

LEMMA DigitsAreRight ==
    ASSUME FramingAssumption, NEW n \in 0..MaxSize
    PROVE  /\ HeaderSize \in Nat
           /\ Digits(n) \in [1..HeaderSize -> Byte] /\ Number(Digits(n)) = n
<1>1. HeaderSize \in Nat /\ MaxSize = Greatest(HeaderSize)
  BY DEF FramingAssumption, MaxSize, Greatest
<1>2. \E d \in [1..HeaderSize -> Byte] : Number(d) = n
  BY <1>1, NumbersOfBytes
<1> QED BY <1>1, <1>2 DEF Digits

LEMMA HeaderType ==
    ASSUME FramingAssumption, NEW n \in 0..MaxSize
    PROVE  Header(n) \in Seq(Byte) /\ Len(Header(n)) = HeaderSize
<1>1. HeaderSize \in Nat /\ Digits(n) \in [1..HeaderSize -> Byte]
  BY DigitsAreRight
<1>2. Header(n) \in [1..HeaderSize -> Byte]
  BY <1>1, ReverseTwice DEF Header, Ordered
<1> QED BY <1>1, <1>2, BytesAreASequence

\* A header is read as the number it was written for.
LEMMA HeadersAreRead ==
    ASSUME FramingAssumption, HostOrder = NetOrder, NEW n \in 0..MaxSize
    PROVE  Size(Header(n)) = n
BY DigitsAreRight, ReverseTwice DEF Header, Size, Ordered

\* Whatever bytes are taken for a header, they stand for a number.
LEMMA AnyHeader ==
    ASSUME FramingAssumption, NEW bytes \in Seq(Byte), Len(bytes) = HeaderSize
    PROVE  Size(bytes) \in 0..MaxSize
<1>1. HeaderSize \in Nat /\ MaxSize = Greatest(HeaderSize)
  BY DEF FramingAssumption, MaxSize, Greatest
<1>2. bytes \in [1..HeaderSize -> Byte]
  BY <1>1
<1>3. Reverse(bytes) \in [1..HeaderSize -> Byte]
  BY <1>1, <1>2, ReverseTwice
<1> QED BY <1>1, <1>2, <1>3, NumbersOfBytes DEF Size, Ordered

-----------------------------------------------------------------------------
(* Types.                                                                   *)

LEMMA Constants ==
    ASSUME FramingAssumption
    PROVE  /\ HeaderSize \in Nat \ {0}
           /\ MaxSize \in Nat
           /\ Message \subseteq Seq(Byte)
           /\ \A m \in Message : Len(m) \in 1..MaxSize
           /\ MaxSent \in Nat /\ MaxLosses \in Nat
<1>1. HeaderSize \in Nat /\ MaxSize = Greatest(HeaderSize)
  BY DEF FramingAssumption, MaxSize, Greatest
<1> QED BY <1>1, NumbersOfBytes DEF FramingAssumption

\* A part of the bytes, and the rest.
LEMMA Cut ==
    ASSUME NEW S, NEW s \in Seq(S), NEW n \in 0..Len(s)
    PROVE  /\ SubSeq(s, 1, n) \in Seq(S) /\ Len(SubSeq(s, 1, n)) = n
           /\ SubSeq(s, n + 1, Len(s)) \in Seq(S)
           /\ Len(SubSeq(s, n + 1, Len(s))) = Len(s) - n
           /\ SubSeq(s, 1, n) \o SubSeq(s, n + 1, Len(s)) = s
<1>1. Len(s) \in Nat /\ n \in Nat
  OBVIOUS
<1>2. SubSeq(s, 1, n) \o SubSeq(s, n + 1, Len(s)) = SubSeq(s, 1, Len(s))
  <2>1. 1 \in 1..(Len(s) + 1) /\ n \in (1 - 1)..Len(s) /\ Len(s) \in n..Len(s)
    BY <1>1
  <2> QED BY <2>1, ConcatAdjacentSubSeq
<1>3. SubSeq(s, 1, n) \in Seq(S) /\ Len(SubSeq(s, 1, n)) = n
  OBVIOUS
<1>4. SubSeq(s, n + 1, Len(s)) \in Seq(S) /\ Len(SubSeq(s, n + 1, Len(s))) = Len(s) - n
  OBVIOUS
<1> QED BY <1>2, <1>3, <1>4, SubSeqFull

\* Bytes that are the same, cut at the same place.
LEMMA SameCut ==
    ASSUME NEW S, NEW a \in Seq(S), NEW b \in Seq(S), NEW c \in Seq(S), NEW d \in Seq(S),
           Len(a) = Len(c), a \o b = c \o d
    PROVE  a = c /\ b = d
<1>1. /\ Len(a) \in Nat /\ Len(b) \in Nat /\ Len(d) \in Nat
      /\ Len(a) + Len(b) = Len(c) + Len(d)
  BY ConcatProperties, SMTT(30)
<1>2. \A i \in 1..Len(a) : a[i] = c[i]
  <2> TAKE i \in 1..Len(a)
  <2>1. (a \o b)[i] = a[i] /\ (c \o d)[i] = c[i]
    OBVIOUS
  <2> QED BY <2>1
<1>3. a = c
  BY <1>2, SeqEqual
<1> QED BY <1>3, ConcatSimplifications

\* What readReceived goes on with.
LEMMA InProgress ==
    ASSUME FramingAssumption, TypeOK, reading, ~AwaitsHeader
    PROVE  /\ Begun.size \in 0..MaxSize /\ Begun.msg \in Seq(Byte)
           /\ Begun.size + Len(Begun.msg) <= MaxSize
           /\ Available \in Seq(Byte)
<1>1. buffer \in Seq(Byte) /\ Len(buffer) \in Nat /\ HeaderSize \in Nat /\ MaxSize \in Nat
  BY Constants DEF TypeOK
<1>2. CASE pending.size = 0
  <2>1. HeaderSize \in 0..Len(buffer)
    BY <1>1, <1>2 DEF AwaitsHeader
  <2>2. Size(SubSeq(buffer, 1, HeaderSize)) \in 0..MaxSize
    BY <1>1, <2>1, Cut, AnyHeader
  <2> QED BY <1>1, <1>2, <2>1, <2>2, Cut DEF Begun, Available
<1>3. CASE pending.size # 0
  BY <1>1, <1>3 DEF Begun, Available, TypeOK
<1> QED BY <1>2, <1>3

LEMMA FramingTypeStep ==
    ASSUME FramingAssumption, TypeOK, [Next]_vars
    PROVE  TypeOK'
<1>0. /\ HeaderSize \in Nat \ {0} /\ MaxSize \in Nat
      /\ Message \subseteq Seq(Byte)
      /\ \A m \in Message : Len(m) \in 1..MaxSize
      /\ MaxSent \in Nat /\ MaxLosses \in Nat
  BY Constants
<1>1. /\ wire \in Seq(Byte) /\ buffer \in Seq(Byte) /\ due \in Seq(Message)
      /\ Len(wire) \in Nat /\ Len(buffer) \in Nat
  BY DEF TypeOK
<1>2. CASE UNCHANGED vars
  BY <1>2 DEF vars, history, counts, TypeOK
<1>3. ASSUME NEW m \in Message, sendMessage(m) PROVE TypeOK'
  <2>1. Header(Len(m)) \in Seq(Byte) /\ m \in Seq(Byte)
    BY <1>0, HeaderType
  <2>2. wire' \in Seq(Byte)
    BY <1>1, <1>3, <2>1, ConcatProperties DEF sendMessage
  <2>3. due' \in Seq(Message) /\ sent' \in 0..MaxSent
    BY <1>0, <1>1, <1>3 DEF sendMessage, TypeOK
  <2> QED BY <1>3, <2>2, <2>3 DEF sendMessage, TypeOK
<1>4. ASSUME NEW n \in 1..Len(wire), Arrive(n) PROVE TypeOK'
  <2>1. /\ SubSeq(wire, 1, n) \in Seq(Byte) /\ Len(SubSeq(wire, 1, n)) = n
        /\ SubSeq(wire, n + 1, Len(wire)) \in Seq(Byte)
    <3>1. n \in 0..Len(wire)
      BY <1>1
    <3> QED BY <1>1, <3>1, Cut
  <2>2. buffer' \in Seq(Byte) /\ Len(buffer') = Len(buffer) + n
    BY <1>1, <1>4, <2>1, ConcatProperties DEF Arrive
  <2>3. buffer' # << >>
    BY <1>1, <2>2
  <2> QED BY <1>4, <2>1, <2>2, <2>3 DEF Arrive, history, counts, TypeOK
<1>5. CASE AwaitHeader
  BY <1>5 DEF AwaitHeader, history, counts, TypeOK
<1>6. CASE ReadPart
  <2>1. /\ Begun.size \in 0..MaxSize /\ Begun.msg \in Seq(Byte)
        /\ Begun.size + Len(Begun.msg) <= MaxSize
        /\ Available \in Seq(Byte) /\ Len(Available) < Begun.size
    BY <1>6, InProgress DEF ReadPart
  <2>2. Len(Available) \in Nat /\ Len(Begun.msg) \in Nat
    BY <2>1
  <2>3. /\ pending'.size = Begun.size - Len(Available)
        /\ pending'.msg = Begun.msg \o Available
        /\ buffer' = << >> /\ reading' = FALSE
    BY <1>6 DEF ReadPart, Filled
  <2>4. pending'.msg \in Seq(Byte) /\ Len(pending'.msg) = Len(Begun.msg) + Len(Available)
    BY <2>1, <2>3, ConcatProperties
  <2>5. /\ pending'.size \in 0..MaxSize /\ pending'.size # 0
        /\ pending'.size + Len(pending'.msg) <= MaxSize
    <3> DEFINE size == Begun.size
               more == Len(Available)
               got == Len(Begun.msg)
    <3>1. size \in Nat /\ size <= MaxSize /\ more \in Nat /\ more < size /\ got \in Nat
          /\ size + got <= MaxSize
      BY <1>0, <2>1, <2>2
    <3>2. pending'.size = size - more /\ Len(pending'.msg) = got + more
      BY <2>3, <2>4
    <3> HIDE DEF size, more, got
    <3> QED BY <1>0, <3>1, <3>2
  <2>6. buffer' \in Seq(Byte)
    BY <2>3, EmptySeq
  <2>7. UNCHANGED <<reader, connected, wire, due, last, torn, sent, losses>>
    BY <1>6 DEF ReadPart, history, counts
  <2> QED BY <2>3, <2>4, <2>5, <2>6, <2>7 DEF TypeOK
<1>7. CASE ReadRest
  <2>1. /\ Begun.size \in 0..MaxSize /\ Begun.msg \in Seq(Byte)
        /\ Available \in Seq(Byte) /\ Len(Available) >= Begun.size
    BY <1>7, InProgress DEF ReadRest
  <2>2. /\ SubSeq(Available, 1, Begun.size) \in Seq(Byte)
        /\ SubSeq(Available, Begun.size + 1, Len(Available)) \in Seq(Byte)
    <3>1. Begun.size \in 0..Len(Available)
      BY <1>0, <2>1
    <3> QED BY <2>1, <3>1, Cut
  <2>3. last' \in Seq(Byte)
    BY <1>7, <2>1, <2>2, ConcatProperties DEF ReadRest, Filled
  <2>4. buffer' \in Seq(Byte) /\ reading' \in BOOLEAN /\ (reading' => buffer' # << >>)
    BY <1>7, <2>2 DEF ReadRest, GoesOn
  <2>5. pending' = [size |-> 0, msg |-> << >>]
    BY <1>7 DEF ReadRest, Fresh
  <2>6. due' \in Seq(Message)
    BY <1>1, <1>7 DEF ReadRest
  <2>7. /\ pending'.size \in 0..MaxSize /\ pending'.msg \in Seq(Byte)
        /\ pending'.size + Len(pending'.msg) <= MaxSize
        /\ pending'.size = 0 => pending'.msg = << >>
    BY <1>0, <2>5
  <2>8. UNCHANGED <<reader, connected, wire, torn, sent, losses>>
    BY <1>7 DEF ReadRest, counts
  <2> QED BY <2>3, <2>4, <2>6, <2>7, <2>8 DEF TypeOK
<1>8. ASSUME Lost, losses < MaxLosses
      PROVE  /\ wire' \in Seq(Byte) /\ buffer' \in Seq(Byte) /\ due' \in Seq(Message)
             /\ last' = NoMessage /\ losses' \in 0..MaxLosses /\ connected' = FALSE
             /\ UNCHANGED <<reader, sent>>
  <2>1. wire' \in Seq(Byte) /\ buffer' \in Seq(Byte) /\ due' \in Seq(Message)
    BY <1>8, EmptySeq DEF Lost
  <2> QED BY <1>0, <1>8, <2>1 DEF Lost, TypeOK
<1>9. /\ Untouched.size \in 0..MaxSize /\ Untouched.msg \in Seq(Byte)
      /\ Untouched.size + Len(Untouched.msg) <= MaxSize
      /\ Untouched.size = 0 => Untouched.msg = << >>
  <2>1. Untouched.size = 0 /\ Untouched.msg = << >> /\ Len(<< >>) = 0
    BY DEF Untouched
  <2> QED BY <1>0, <2>1, EmptySeq
<1>10. CASE Refuse
  <2>1. /\ Lost /\ losses < MaxLosses /\ reading' = FALSE /\ torn' = FALSE
        /\ pending' = Untouched
    BY <1>10 DEF Refuse, Fresh, Untouched
  <2> QED BY <1>8, <1>9, <2>1 DEF TypeOK
<1>11. CASE Break
  <2>1. /\ Lost /\ losses < MaxLosses /\ reading = FALSE /\ reading' = FALSE
        /\ torn' \in BOOLEAN /\ (pending' = pending \/ pending' = Untouched)
    BY <1>11 DEF Break, Left, TypeOK
  <2> QED BY <1>8, <1>9, <2>1 DEF TypeOK
<1>12. CASE Reconnect
  <2>1. pending' = pending \/ pending' = Untouched
    BY <1>12 DEF Reconnect, Inherited
  <2>2. torn' \in BOOLEAN /\ connected' = TRUE
    BY <1>12 DEF Reconnect
  <2> QED BY <1>9, <1>12, <2>1, <2>2 DEF Reconnect, counts, TypeOK
<1> QED BY <1>2, <1>3, <1>4, <1>5, <1>6, <1>7, <1>10, <1>11, <1>12 DEF Next, readReceived

LEMMA FramingTypeAtFirst ==
    ASSUME FramingAssumption, Init
    PROVE  TypeOK
<1>1. /\ pending.size = 0 /\ pending.msg = << >> /\ Len(pending.msg) = 0
      /\ pending.msg \in Seq(Byte)
  BY EmptySeq DEF Init, Untouched
<1>2. MaxSize \in Nat /\ MaxSent \in Nat /\ MaxLosses \in Nat
  BY Constants
<1>3. wire \in Seq(Byte) /\ buffer \in Seq(Byte) /\ due \in Seq(Message)
  BY EmptySeq DEF Init
<1>4. /\ reader \in {"client", "server", "login"} /\ connected \in BOOLEAN
      /\ reading = FALSE /\ torn \in BOOLEAN /\ last = NoMessage
      /\ sent = 0 /\ losses = 0
  BY DEF Init
<1>5. 0 \in 0..MaxSize /\ 0 + 0 <= MaxSize /\ 0 \in 0..MaxSent /\ 0 \in 0..MaxLosses
  BY <1>2
<1> QED BY <1>1, <1>3, <1>4, <1>5 DEF TypeOK

\* A reader never misses more bytes than a header can announce, and is in the
\* loop of readReceived only with bytes to read.
THEOREM FramingTypeCorrect == FramingAssumption => (Spec => []TypeOK)
<1> SUFFICES ASSUME FramingAssumption PROVE Spec => []TypeOK
  OBVIOUS
<1>1. Init => TypeOK
  BY FramingTypeAtFirst
<1>2. TypeOK /\ [Next]_vars => TypeOK'
  BY FramingTypeStep
<1> QED BY <1>1, <1>2, PTL DEF Spec

-----------------------------------------------------------------------------
(* Messages in a row.                                                       *)

Packet(m) == Header(Len(m)) \o m

\* Where each message of q ends in the bytes, which are nothing else.
Ends(bytes, q, e) ==
    /\ e \in [0..Len(q) -> Nat]
    /\ e[0] = 0 /\ e[Len(q)] = Len(bytes)
    /\ \A j, k \in 0..Len(q) : j <= k => e[j] <= e[k]
    /\ \A k \in 1..Len(q) :
          /\ e[k] = e[k - 1] + Len(Packet(q[k]))
          /\ \A x \in 1..Len(Packet(q[k])) : bytes[e[k - 1] + x] = Packet(q[k])[x]

Encodes(bytes, q) == \E e : Ends(bytes, q, e)

LEMMA Joining ==
    \A a, b \in Seq(Byte) : a \o b \in Seq(Byte)
BY ConcatProperties

\* The provers take the equality of two sequences for that of their elements;
\* Join is \o as an operator without a meaning of its own.
Join(a, b) == a \o b

LEMMA Regrouping ==
    \A a, b, c \in Seq(Byte) : Join(Join(a, b), c) = Join(a, Join(b, c))
BY ConcatAssociative DEF Join

LEMMA PacketType ==
    ASSUME FramingAssumption, NEW m \in Message
    PROVE  /\ m \in Seq(Byte) /\ Len(m) \in 1..MaxSize
           /\ Header(Len(m)) \in Seq(Byte) /\ Len(Header(Len(m))) = HeaderSize
           /\ Packet(m) \in Seq(Byte) /\ Len(Packet(m)) = HeaderSize + Len(m)
           /\ Len(Packet(m)) \in Nat \ {0}
<1>1. m \in Seq(Byte) /\ Len(m) \in 1..MaxSize /\ HeaderSize \in Nat \ {0} /\ MaxSize \in Nat
  BY Constants
<1>2. Len(m) \in 0..MaxSize
  BY <1>1
<1>3. Header(Len(m)) \in Seq(Byte) /\ Len(Header(Len(m))) = HeaderSize
  BY <1>2, HeaderType
<1>4. Packet(m) \in Seq(Byte) /\ Len(Packet(m)) = HeaderSize + Len(m)
  BY <1>1, <1>3, ConcatProperties DEF Packet
<1> QED BY <1>1, <1>3, <1>4

LEMMA NothingEncodesNothing == Encodes(<< >>, << >>)
<1>1. Ends(<< >>, << >>, [k \in 0..0 |-> 0])
  BY DEF Ends
<1> QED BY <1>1 DEF Encodes

\* A message is written behind the others.
LEMMA EncodesMore ==
    ASSUME FramingAssumption, NEW s \in Seq(Byte), NEW q \in Seq(Message), NEW m \in Message,
           Encodes(s, q)
    PROVE  Encodes(s \o Packet(m), Append(q, m))
<1> DEFINE n == Len(q)
           p == Packet(m)
           t == s \o p
           r == Append(q, m)
<1>1. PICK e : Ends(s, q, e)
  BY DEF Encodes
<1> DEFINE f == [k \in 0..(n + 1) |-> IF k = n + 1 THEN Len(s) + Len(p) ELSE e[k]]
<1>2. n \in Nat /\ Len(s) \in Nat
  OBVIOUS
<1>3. p \in Seq(Byte) /\ Len(p) \in Nat
  BY PacketType
<1>4. Len(r) = n + 1 /\ r[n + 1] = m /\ \A k \in 1..n : r[k] = q[k]
  OBVIOUS
<1>5. /\ Len(t) = Len(s) + Len(p)
      /\ \A k \in 1..Len(s) : t[k] = s[k]
      /\ \A k \in 1..Len(p) : t[Len(s) + k] = p[k]
  <2> HIDE DEF p
  <2>1. \A k \in 1..Len(s) : t[k] = s[k]
    BY <1>3
  <2>2. \A k \in 1..Len(p) : t[Len(s) + k] = p[k]
    BY <1>2, <1>3
  <2> QED BY <1>3, <2>1, <2>2, ConcatProperties
<1>6. /\ e \in [0..n -> Nat] /\ e[0] = 0 /\ e[n] = Len(s)
      /\ \A j, k \in 0..n : j <= k => e[j] <= e[k]
      /\ \A k \in 1..n : e[k] = e[k - 1] + Len(Packet(q[k]))
      /\ \A k \in 1..n : \A x \in 1..Len(Packet(q[k])) : s[e[k - 1] + x] = Packet(q[k])[x]
  BY <1>1 DEF Ends
<1> HIDE DEF n, p, t, r
<1>7. /\ f \in [0..(n + 1) -> Nat] /\ f[0] = 0 /\ f[n + 1] = Len(t)
      /\ \A k \in 0..n : f[k] = e[k]
  BY <1>2, <1>3, <1>5, <1>6
<1> HIDE DEF f
<1>8. \A j, k \in 0..(n + 1) : j <= k => f[j] <= f[k]
  <2> SUFFICES ASSUME NEW j \in 0..(n + 1), NEW k \in 0..(n + 1), j <= k PROVE f[j] <= f[k]
    OBVIOUS
  <2>1. CASE k \in 0..n
    <3>1. j \in 0..n
      BY <1>2, <2>1
    <3> QED BY <1>6, <1>7, <2>1, <3>1
  <2>2. CASE k = n + 1 /\ j \in 0..n
    <3>1. f[j] = e[j] /\ e[j] \in Nat /\ e[j] <= Len(s)
      BY <1>2, <1>6, <1>7, <2>2
    <3> QED BY <1>2, <1>3, <1>5, <1>7, <2>2, <3>1
  <2>3. CASE k = n + 1 /\ j = n + 1
    BY <1>2, <1>7, <2>3
  <2> QED BY <1>2, <2>1, <2>2, <2>3
<1>9. ASSUME NEW k \in 1..(n + 1)
      PROVE  /\ f[k] = f[k - 1] + Len(Packet(r[k]))
             /\ \A x \in 1..Len(Packet(r[k])) : t[f[k - 1] + x] = Packet(r[k])[x]
  <2>1. CASE k \in 1..n
    <3>1. k \in 0..n /\ k - 1 \in 0..n /\ r[k] = q[k] /\ k <= n
      BY <1>2, <1>4, <2>1
    <3>2. f[k] = e[k] /\ f[k - 1] = e[k - 1] /\ e[k] \in Nat /\ e[k - 1] \in Nat /\ e[k] <= Len(s)
      BY <1>2, <1>6, <1>7, <3>1
    <3>3. ASSUME NEW x \in 1..Len(Packet(q[k])) PROVE t[e[k - 1] + x] = Packet(q[k])[x]
      <4>1. Len(Packet(q[k])) = e[k] - e[k - 1] /\ x \in Nat /\ x >= 1
        BY <1>6, <2>1, <3>2
      <4>2. e[k - 1] + x \in 1..Len(s)
        BY <1>2, <3>2, <3>3, <4>1, SMTT(30)
      <4> QED BY <1>5, <1>6, <2>1, <4>2
    <3> QED BY <1>6, <2>1, <3>1, <3>2, <3>3
  <2>2. CASE k = n + 1
    <3>1. k - 1 = n /\ n \in 0..n /\ Packet(r[k]) = p
      BY <1>2, <1>4, <2>2 DEF p
    <3>2. f[k - 1] = Len(s) /\ f[k] = Len(s) + Len(p)
      BY <1>5, <1>6, <1>7, <2>2, <3>1
    <3> QED BY <1>5, <3>1, <3>2
  <2> QED BY <1>2, <2>1, <2>2
<1>10. Ends(t, r, f)
  BY <1>4, <1>7, <1>8, <1>9 DEF Ends
<1> QED BY <1>10 DEF Encodes, t, r, p

\* The first of the messages, and the others.
LEMMA EncodesFirst ==
    ASSUME FramingAssumption, NEW s \in Seq(Byte), NEW q \in Seq(Message),
           Encodes(s, q), s # << >>
    PROVE  /\ q # << >> /\ Head(q) \in Message
           /\ \E rest \in Seq(Byte) : s = Packet(Head(q)) \o rest /\ Encodes(rest, Tail(q))
<1> DEFINE n == Len(q)
           p == Packet(q[1])
           w == Len(p)
           rest == SubSeq(s, w + 1, Len(s))
<1>1. PICK e : Ends(s, q, e)
  BY DEF Encodes
<1>2. n \in Nat /\ Len(s) \in Nat \ {0}
  OBVIOUS
<1>3. /\ e \in [0..n -> Nat] /\ e[0] = 0 /\ e[n] = Len(s)
      /\ \A j, k \in 0..n : j <= k => e[j] <= e[k]
      /\ \A k \in 1..n : e[k] = e[k - 1] + Len(Packet(q[k]))
      /\ \A k \in 1..n : \A x \in 1..Len(Packet(q[k])) : s[e[k - 1] + x] = Packet(q[k])[x]
  BY <1>1 DEF Ends
<1>4. n >= 1 /\ 1 \in 1..n /\ 1 \in 0..n /\ n \in 0..n
  BY <1>2, <1>3
<1>5. q # << >> /\ Head(q) = q[1] /\ q[1] \in Message
  BY <1>4
<1>6. p \in Seq(Byte) /\ w \in Nat \ {0}
  BY <1>5, PacketType
<1>7. e[1] = w /\ w \in 0..Len(s)
  <2>1. e[1] = e[1 - 1] + Len(Packet(q[1]))
    BY <1>3, <1>4
  <2> HIDE DEF n
  <2>2. e[1] = w
    BY <1>3, <1>6, <2>1
  <2>3. e[1] <= e[n]
    BY <1>3, <1>4
  <2> QED BY <1>2, <1>3, <1>6, <2>2, <2>3
<1>8. /\ SubSeq(s, 1, w) \in Seq(Byte) /\ Len(SubSeq(s, 1, w)) = w
      /\ rest \in Seq(Byte) /\ Len(rest) = Len(s) - w
      /\ SubSeq(s, 1, w) \o rest = s
  <2> HIDE DEF w
  <2> QED BY <1>7, Cut
<1>9. SubSeq(s, 1, w) = p
  <2>1. \A x \in 1..w : SubSeq(s, 1, w)[x] = s[x]
    <3> HIDE DEF w
    <3> QED BY <1>6, <1>7
  <2>2. \A x \in 1..w : s[0 + x] = p[x]
    <3>1. \A x \in 1..Len(Packet(q[1])) : s[e[1 - 1] + x] = Packet(q[1])[x]
      BY <1>3, <1>4
    <3> QED BY <1>3, <3>1
  <2>3. \A x \in 1..w : SubSeq(s, 1, w)[x] = p[x]
    <3> HIDE DEF w, p
    <3> QED BY <1>6, <2>1, <2>2
  <2> QED BY <1>6, <1>8, <2>3, SeqEqual
<1>10. \A x \in 1..(Len(s) - w) : rest[x] = s[w + x]
  <2> HIDE DEF w
  <2> QED BY <1>2, <1>6, <1>7
<1> DEFINE r == Tail(q)
           f == [k \in 0..(n - 1) |-> e[k + 1] - w]
<1>11. Len(r) = n - 1 /\ \A k \in 1..(n - 1) : r[k] = q[k + 1]
  BY <1>4
<1> HIDE DEF n, p, w, rest, r
<1>12. \A k \in 0..(n - 1) : k + 1 \in 0..n /\ e[k + 1] \in Nat /\ e[k + 1] >= w /\ f[k] = e[k + 1] - w
  <2> TAKE k \in 0..(n - 1)
  <2>1. k + 1 \in 0..n /\ 1 <= k + 1
    BY <1>2
  <2>2. e[1] <= e[k + 1] /\ e[k + 1] \in Nat
    BY <1>3, <1>4, <2>1
  <2> QED BY <1>7, <2>1, <2>2
<1>13. f \in [0..(n - 1) -> Nat]
  BY <1>6, <1>12
<1>14. f[0] = 0 /\ f[n - 1] = Len(rest)
  <2>1. 0 \in 0..(n - 1) /\ n - 1 \in 0..(n - 1) /\ 0 + 1 = 1 /\ (n - 1) + 1 = n
    BY <1>2, <1>4
  <2>2. f[0] = e[1] - w /\ f[n - 1] = e[n] - w
    BY <1>12, <2>1
  <2> QED BY <1>3, <1>6, <1>7, <1>8, <2>2
<1> HIDE DEF f
<1>15. \A j, k \in 0..(n - 1) : j <= k => f[j] <= f[k]
  <2> SUFFICES ASSUME NEW j \in 0..(n - 1), NEW k \in 0..(n - 1), j <= k PROVE f[j] <= f[k]
    OBVIOUS
  <2>1. e[j + 1] <= e[k + 1]
    <3>1. j + 1 <= k + 1
      BY <1>2
    <3> QED BY <1>3, <1>12, <3>1
  <2> QED BY <1>6, <1>12, <2>1
<1>16. ASSUME NEW k \in 1..(n - 1)
       PROVE  /\ f[k] = f[k - 1] + Len(Packet(r[k]))
              /\ \A x \in 1..Len(Packet(r[k])) : rest[f[k - 1] + x] = Packet(r[k])[x]
  <2>1. /\ k \in 0..(n - 1) /\ k - 1 \in 0..(n - 1) /\ (k - 1) + 1 = k
        /\ k + 1 \in 1..n /\ (k + 1) - 1 = k /\ k + 1 \in 0..n /\ k + 1 <= n
    BY <1>2
  <2>2. f[k] = e[k + 1] - w /\ f[k - 1] = e[k] - w /\ e[k] \in Nat /\ e[k] >= w /\ e[k + 1] \in Nat
    BY <1>12, <2>1
  <2>3. e[k + 1] = e[k] + Len(Packet(q[k + 1])) /\ r[k] = q[k + 1] /\ e[k + 1] <= Len(s)
    <3>1. e[k + 1] = e[(k + 1) - 1] + Len(Packet(q[k + 1]))
      BY <1>3, <2>1
    <3>2. e[k + 1] <= e[n]
      BY <1>3, <1>4, <2>1
    <3> QED BY <1>3, <1>11, <2>1, <3>1, <3>2
  <2> DEFINE g == Packet(q[k + 1])
  <2>4. Len(g) = e[k + 1] - e[k] /\ Len(g) \in Nat
    <3>1. g \in Seq(Byte)
      <4>1. q[k + 1] \in Message
        BY <2>1 DEF n
      <4> QED BY <4>1, PacketType
    <3>2. Len(g) \in Nat
      BY <3>1
    <3> HIDE DEF g
    <3> QED BY <2>2, <2>3, <3>2 DEF g
  <2>5. ASSUME NEW x \in 1..Len(g) PROVE rest[f[k - 1] + x] = g[x]
    <3>1. s[e[(k + 1) - 1] + x] = g[x]
      BY <1>3, <2>1
    <3> HIDE DEF g
    <3>2. x \in Nat /\ x >= 1 /\ x <= Len(g)
      BY <2>4
    <3>3. f[k - 1] + x \in 1..(Len(s) - w) /\ w + (f[k - 1] + x) = e[k] + x
      <4> DEFINE a == e[k]
                 b == e[k + 1]
                 c == f[k - 1]
                 all == Len(s)
                 more == Len(g)
      <4>1. /\ a \in Nat /\ b \in Nat /\ all \in Nat /\ w \in Nat
            /\ c = a - w /\ a >= w /\ b <= all /\ more = b - a
            /\ x \in Nat /\ x >= 1 /\ x <= more
        BY <1>2, <1>6, <2>2, <2>3, <2>4, <3>2
      <4> HIDE DEF a, b, c, all, more
      <4>2. c + x \in 1..(all - w) /\ w + (c + x) = a + x
        BY <4>1
      <4> QED BY <4>2 DEF a, c, all
    <3>4. rest[f[k - 1] + x] = s[w + (f[k - 1] + x)]
      BY <1>10, <3>3
    <3> QED BY <2>1, <3>1, <3>3, <3>4
  <2> HIDE DEF g
  <2>6. Packet(r[k]) = g
    BY <2>3 DEF g
  <2>7. f[k] = f[k - 1] + Len(g)
    BY <1>6, <2>2, <2>4
  <2> QED BY <2>5, <2>6, <2>7
<1>17. Ends(rest, r, f)
  BY <1>11, <1>13, <1>14, <1>15, <1>16 DEF Ends
<1>18. Encodes(rest, r)
  BY <1>17 DEF Encodes
<1>19. s = Packet(Head(q)) \o rest
  BY <1>5, <1>8, <1>9 DEF p
<1> QED BY <1>5, <1>8, <1>18, <1>19 DEF r

-----------------------------------------------------------------------------
(* The stream.                                                              *)

\* What has been read of the message in progress.
Held ==
    IF pending.size = 0 THEN << >>
    ELSE Header(pending.size + Len(pending.msg)) \o pending.msg

\* What has been read in part, what has been received and what is on its way are
\* the messages that are due, nothing more and nothing less.
InStep ==
    /\ ~torn =>
        /\ connected => Encodes(Held \o (buffer \o wire), due)
        /\ ~connected => pending.size = 0
    /\ ~connected =>
          /\ due = << >> /\ last = NoMessage
          /\ buffer = << >> /\ wire = << >> /\ ~reading

LEMMA HeldType ==
    ASSUME FramingAssumption, TypeOK
    PROVE  Held \in Seq(Byte) /\ buffer \in Seq(Byte) /\ wire \in Seq(Byte)
<1>1. /\ pending.msg \in Seq(Byte) /\ Len(pending.msg) \in Nat /\ MaxSize \in Nat
      /\ pending.size \in 0..MaxSize /\ pending.size + Len(pending.msg) <= MaxSize
  BY Constants DEF TypeOK
<1>2. pending.size + Len(pending.msg) \in 0..MaxSize
  BY <1>1
<1>3. Header(pending.size + Len(pending.msg)) \in Seq(Byte)
  BY <1>2, HeaderType
<1>4. Held \in Seq(Byte)
  BY <1>1, <1>3, EmptySeq, ConcatProperties DEF Held
<1> QED BY <1>4 DEF TypeOK

\* What readReceived goes on with is the first message due.
LEMMA FirstIsInProgress ==
    ASSUME FramingAssumption, HostOrder = NetOrder, TypeOK, InStep,
           ~torn, reading, ~AwaitsHeader
    PROVE  /\ connected
           /\ due # << >> /\ Head(due) \in Message
           /\ Begun.size + Len(Begun.msg) = Len(Head(due))
           /\ Held \o (buffer \o wire)
                 = Header(Len(Head(due))) \o (Begun.msg \o (Available \o wire))
           /\ \E rest \in Seq(Byte) :
                 /\ Begun.msg \o (Available \o wire) = Head(due) \o rest
                 /\ Encodes(rest, Tail(due))
<1> DEFINE s == Held \o (buffer \o wire)
           h == Head(due)
           header == Header(Len(h))
<1>1. Held \in Seq(Byte) /\ buffer \in Seq(Byte) /\ wire \in Seq(Byte)
  BY HeldType
<1>2. s \in Seq(Byte) /\ s # << >>
  <2>1. buffer # << >>
    BY DEF TypeOK
  <2>2. buffer \o wire \in Seq(Byte) /\ buffer \o wire # << >>
    BY <1>1, <2>1, ConcatProperties, ConcatSimplifications
  <2> QED BY <1>1, <2>2, ConcatProperties, ConcatSimplifications
<1>3. connected /\ Encodes(s, due)
  BY DEF InStep, TypeOK
<1>4. due \in Seq(Message)
  BY DEF TypeOK
<1>5. due # << >> /\ h \in Message
  BY <1>2, <1>3, <1>4, EncodesFirst
<1>6. PICK rest \in Seq(Byte) : s = Packet(h) \o rest /\ Encodes(rest, Tail(due))
  BY <1>2, <1>3, <1>4, EncodesFirst
<1> HIDE DEF h
<1>7. /\ h \in Seq(Byte) /\ Len(h) \in 1..MaxSize
      /\ header \in Seq(Byte) /\ Len(header) = HeaderSize
      /\ Packet(h) = header \o h
  BY <1>5, PacketType DEF Packet
<1>8. MaxSize \in Nat /\ HeaderSize \in Nat
  BY Constants
<1>9. Size(header) = Len(h)
  <2>1. Len(h) \in 0..MaxSize
    BY <1>7, <1>8
  <2> QED BY <2>1, HeadersAreRead
<1> HIDE DEF header
<1>10. s = header \o (h \o rest) /\ h \o rest \in Seq(Byte)
  <2>1. header \in Seq(Byte) /\ h \in Seq(Byte) /\ rest \in Seq(Byte)
    BY <1>7
  <2>2. (header \o h) \o rest = header \o (h \o rest)
    <3>1. Join(Join(header, h), rest) = Join(header, Join(h, rest))
      BY <2>1, Regrouping
    <3> QED BY <3>1, Zenon DEF Join
  <2>3. h \o rest \in Seq(Byte)
    BY <2>1, Joining, Zenon
  <2> QED BY <1>6, <1>7, <2>2, <2>3, Zenon
<1>11. /\ Begun.size + Len(Begun.msg) = Len(h)
       /\ Begun.msg \o (Available \o wire) = h \o rest
  <2>1. CASE pending.size = 0
    <3> DEFINE a == SubSeq(buffer, 1, HeaderSize)
    <3>1. HeaderSize \in 0..Len(buffer)
      BY <1>1, <1>8, <2>1 DEF AwaitsHeader
    <3>2. Available = SubSeq(buffer, HeaderSize + 1, Len(buffer))
      BY <2>1 DEF Available
    <3>3. a \in Seq(Byte) /\ Len(a) = HeaderSize /\ Available \in Seq(Byte) /\ a \o Available = buffer
      BY <1>1, <3>1, <3>2, Cut
    <3>4. Begun.size = Size(a) /\ Begun.msg = << >>
      BY <2>1 DEF Begun
    <3> HIDE DEF a
    <3>5. Available \o wire \in Seq(Byte)
      BY <1>1, <3>3, ConcatProperties
    <3>6. s = a \o (Available \o wire)
      <4>1. buffer \o wire = a \o (Available \o wire)
        <5>1. (a \o Available) \o wire = a \o (Available \o wire)
          <6>1. a \in Seq(Byte) /\ Available \in Seq(Byte) /\ wire \in Seq(Byte)
            BY <1>1, <3>3
          <6>2. Join(Join(a, Available), wire) = Join(a, Join(Available, wire))
            BY <6>1, Regrouping
          <6> QED BY <6>2, Zenon DEF Join
        <5>2. a \o Available = buffer
          BY <3>3
        <5> QED BY <5>1, <5>2, Zenon
      <4>2. Held = << >>
        BY <2>1 DEF Held
      <4>3. buffer \o wire \in Seq(Byte)
        BY <1>1, ConcatProperties
      <4> QED BY <4>1, <4>2, <4>3, ConcatEmptySeq
    <3> HIDE DEF s
    <3>7. a = header /\ Available \o wire = h \o rest
      BY <1>7, <1>10, <3>3, <3>5, <3>6, SameCut
    <3>8. Begun.msg \o (Available \o wire) = h \o rest
      BY <3>4, <3>5, <3>7, ConcatEmptySeq
    <3>9. Begun.size + Len(Begun.msg) = Len(h)
      <4>1. Len(Begun.msg) = 0
        BY <3>4
      <4>2. Begun.size = Len(h) /\ Len(h) \in Nat
        BY <1>7, <1>8, <1>9, <3>4, <3>7
      <4> QED BY <4>1, <4>2
    <3> QED BY <3>8, <3>9
  <2>2. CASE pending.size # 0
    <3> DEFINE n == pending.size + Len(pending.msg)
    <3>1. Begun = pending /\ Available = buffer
      BY <2>2 DEF Begun, Available
    <3>2. pending.msg \in Seq(Byte) /\ n \in 0..MaxSize
      BY <1>8 DEF TypeOK
    <3>3. Held = Header(n) \o pending.msg
      BY <2>2 DEF Held
    <3> HIDE DEF n
    <3>4. Header(n) \in Seq(Byte) /\ Len(Header(n)) = HeaderSize /\ Size(Header(n)) = n
      BY <3>2, HeaderType, HeadersAreRead
    <3>5. buffer \o wire \in Seq(Byte) /\ pending.msg \o (buffer \o wire) \in Seq(Byte)
      BY <1>1, <3>2, ConcatProperties
    <3>6. s = Header(n) \o (pending.msg \o (buffer \o wire))
      <4>1. (Header(n) \o pending.msg) \o (buffer \o wire)
               = Header(n) \o (pending.msg \o (buffer \o wire))
        <5>1. Join(Join(Header(n), pending.msg), buffer \o wire)
                 = Join(Header(n), Join(pending.msg, buffer \o wire))
          BY <3>2, <3>4, <3>5, Regrouping, ZenonT(30)
        <5> QED BY <5>1, Zenon DEF Join
      <4> QED BY <3>3, <4>1, Zenon
    <3> HIDE DEF s
    <3>7. Header(n) \o (pending.msg \o (buffer \o wire)) = header \o (h \o rest)
      BY <1>10, <3>6, Zenon
    <3>8. Len(Header(n)) = Len(header)
      BY <1>7, <3>4, Zenon
    <3>9. Header(n) = header /\ pending.msg \o (buffer \o wire) = h \o rest
      <4>1. /\ Header(n) \in Seq(Byte) /\ pending.msg \o (buffer \o wire) \in Seq(Byte)
            /\ header \in Seq(Byte) /\ h \o rest \in Seq(Byte)
        BY <1>7, <1>10, <3>4, <3>5
      <4> QED BY <3>7, <3>8, <4>1, SameCut, ZenonT(30)
    <3>10. n = Len(h)
      BY <1>9, <3>4, <3>9
    <3> QED BY <3>1, <3>9, <3>10 DEF n
  <2> QED BY <2>1, <2>2
<1>12. s = header \o (Begun.msg \o (Available \o wire))
  BY <1>10, <1>11
<1> QED BY <1>3, <1>5, <1>6, <1>11, <1>12 DEF h, header

\* The last part of a message makes it the one that was sent; what is behind it
\* are the next ones.
LEMMA WholeIsFirst ==
    ASSUME FramingAssumption, HostOrder = NetOrder, TypeOK, InStep, ~torn, ReadRest
    PROVE  /\ connected /\ due # << >> /\ Head(due) \in Message
           /\ last' = Head(due) /\ due' = Tail(due)
           /\ Encodes(buffer' \o wire, Tail(due))
<1> DEFINE a == SubSeq(Available, 1, Begun.size)
           b == SubSeq(Available, Begun.size + 1, Len(Available))
           h == Head(due)
<1>1. reading /\ ~AwaitsHeader /\ Len(Available) >= Begun.size
      /\ last' = Begun.msg \o a /\ buffer' = b
      /\ due' = IF due = << >> THEN due ELSE Tail(due)
  BY DEF ReadRest, Filled
<1>2. /\ connected /\ due # << >> /\ h \in Message
      /\ Begun.size + Len(Begun.msg) = Len(h)
  BY <1>1, FirstIsInProgress
<1>3. PICK rest \in Seq(Byte) :
          /\ Begun.msg \o (Available \o wire) = h \o rest
          /\ Encodes(rest, Tail(due))
  BY <1>1, FirstIsInProgress
<1>4. /\ Begun.size \in 0..MaxSize /\ Begun.msg \in Seq(Byte) /\ Available \in Seq(Byte)
      /\ wire \in Seq(Byte) /\ h \in Seq(Byte) /\ MaxSize \in Nat
  BY <1>1, <1>2, InProgress, HeldType, PacketType, Constants
<1>5. /\ a \in Seq(Byte) /\ Len(a) = Begun.size
      /\ b \in Seq(Byte) /\ a \o b = Available
  <2>1. Begun.size \in 0..Len(Available)
    BY <1>1, <1>4
  <2> QED BY <1>4, <2>1, Cut
<1> HIDE DEF a, b, h
<1>6. b \o wire \in Seq(Byte) /\ Begun.msg \o a \in Seq(Byte)
      /\ Len(Begun.msg \o a) = Len(Begun.msg) + Begun.size
  BY <1>4, <1>5, ConcatProperties
<1>7. (Begun.msg \o a) \o (b \o wire) = h \o rest
  <2>1. (a \o b) \o wire = a \o (b \o wire)
    <3>1. a \in Seq(Byte) /\ b \in Seq(Byte) /\ wire \in Seq(Byte)
      BY <1>4, <1>5
    <3>2. Join(Join(a, b), wire) = Join(a, Join(b, wire))
      BY <3>1, Regrouping
    <3> QED BY <3>2, Zenon DEF Join
  <2>2. (Begun.msg \o a) \o (b \o wire) = Begun.msg \o (a \o (b \o wire))
    <3> DEFINE c == b \o wire
    <3>1. Begun.msg \in Seq(Byte) /\ a \in Seq(Byte) /\ c \in Seq(Byte)
      BY <1>4, <1>5, <1>6
    <3> HIDE DEF c
    <3>2. Join(Join(Begun.msg, a), c) = Join(Begun.msg, Join(a, c))
      BY <3>1, Regrouping
    <3> QED BY <3>2, Zenon DEF Join, c
  <2> QED BY <1>3, <1>5, <2>1, <2>2, Zenon
<1>8. Len(Begun.msg \o a) = Len(h)
  <2>1. Len(Begun.msg) \in Nat /\ Begun.size \in Nat
    BY <1>4
  <2> QED BY <1>2, <1>6, <2>1
<1>9. Begun.msg \o a = h /\ b \o wire = rest
  BY <1>3, <1>4, <1>6, <1>7, <1>8, SameCut
<1> QED BY <1>1, <1>2, <1>3, <1>9 DEF h

LEMMA InStepStep ==
    ASSUME FramingAssumption, HostOrder = NetOrder, TypeOK, InStep, [Next]_vars
    PROVE  InStep'
<1>0. TypeOK'
  BY FramingTypeStep
<1>1. Held \in Seq(Byte) /\ buffer \in Seq(Byte) /\ wire \in Seq(Byte)
  BY HeldType
<1>2. CASE UNCHANGED vars
  BY <1>2 DEF vars, history, counts, InStep, Held
<1>3. ASSUME NEW m \in Message, sendMessage(m) PROVE InStep'
  <2> SUFFICES ASSUME ~torn PROVE Encodes(Held' \o (buffer' \o wire'), due')
    BY <1>3 DEF sendMessage, InStep
  <2>1. /\ connected /\ Held' = Held /\ buffer' = buffer
        /\ wire' = (wire \o Header(Len(m))) \o m /\ due' = Append(due, m)
    BY <1>3 DEF sendMessage, Held
  <2>2. /\ m \in Seq(Byte) /\ Header(Len(m)) \in Seq(Byte)
        /\ Packet(m) \in Seq(Byte) /\ Packet(m) = Header(Len(m)) \o m
    BY PacketType DEF Packet
  <2>3. wire' = wire \o Packet(m)
    <3>1. (wire \o Header(Len(m))) \o m = wire \o (Header(Len(m)) \o m)
      <4>1. wire \in Seq(Byte) /\ Header(Len(m)) \in Seq(Byte) /\ m \in Seq(Byte)
        BY <1>1, <2>2
      <4>2. Join(Join(wire, Header(Len(m))), m) = Join(wire, Join(Header(Len(m)), m))
        BY <4>1, Regrouping
      <4> QED BY <4>2, Zenon DEF Join
    <3> QED BY <2>1, <2>2, <3>1, Zenon
  <2>4. buffer \o wire' = (buffer \o wire) \o Packet(m) /\ buffer \o wire \in Seq(Byte)
    <3>1. (buffer \o wire) \o Packet(m) = buffer \o (wire \o Packet(m))
      <4>1. buffer \in Seq(Byte) /\ wire \in Seq(Byte) /\ Packet(m) \in Seq(Byte)
        BY <1>1, <2>2
      <4>2. Join(Join(buffer, wire), Packet(m)) = Join(buffer, Join(wire, Packet(m)))
        BY <4>1, Regrouping
      <4> QED BY <4>2, Zenon DEF Join
    <3>2. buffer \o wire \in Seq(Byte)
      BY <1>1, Joining, Zenon
    <3> QED BY <2>3, <3>1, <3>2, Zenon
  <2>5. Held \o (buffer \o wire') = (Held \o (buffer \o wire)) \o Packet(m)
    <3>1. (Held \o (buffer \o wire)) \o Packet(m) = Held \o ((buffer \o wire) \o Packet(m))
      <4>1. Held \in Seq(Byte) /\ buffer \o wire \in Seq(Byte) /\ Packet(m) \in Seq(Byte)
        BY <1>1, <2>2, <2>4
      <4>2. Join(Join(Held, buffer \o wire), Packet(m)) = Join(Held, Join(buffer \o wire, Packet(m)))
        BY <4>1, Regrouping, ZenonT(30)
      <4> QED BY <4>2, Zenon DEF Join
    <3> QED BY <2>4, <3>1, Zenon
  <2>6. Held \o (buffer \o wire) \in Seq(Byte)
    BY <1>1, <2>4, ConcatProperties
  <2>7. Encodes(Held \o (buffer \o wire), due) /\ due \in Seq(Message)
    BY <2>1 DEF InStep, TypeOK
  <2> QED BY <2>1, <2>5, <2>6, <2>7, EncodesMore
<1>4. ASSUME NEW n \in 1..Len(wire), Arrive(n) PROVE InStep'
  <2> DEFINE a == SubSeq(wire, 1, n)
             b == SubSeq(wire, n + 1, Len(wire))
  <2>1. a \in Seq(Byte) /\ b \in Seq(Byte) /\ a \o b = wire
    <3>1. n \in 0..Len(wire)
      BY <1>1
    <3> QED BY <1>1, <3>1, Cut
  <2>2. /\ connected /\ connected' = connected /\ torn' = torn /\ due' = due /\ Held' = Held
        /\ buffer' = buffer \o a /\ wire' = b
    BY <1>4 DEF Arrive, history, Held
  <2> HIDE DEF a, b
  <2>3. buffer' \o wire' = buffer \o wire
    <3>1. (buffer \o a) \o b = buffer \o (a \o b)
      <4>1. buffer \in Seq(Byte) /\ a \in Seq(Byte) /\ b \in Seq(Byte)
        BY <1>1, <2>1
      <4>2. Join(Join(buffer, a), b) = Join(buffer, Join(a, b))
        BY <4>1, Regrouping
      <4> QED BY <4>2, Zenon DEF Join
    <3> QED BY <2>1, <2>2, <3>1, Zenon
  <2> QED BY <2>2, <2>3 DEF InStep
<1>5. CASE AwaitHeader
  <2>1. /\ Held' = Held /\ reading' = FALSE
        /\ UNCHANGED <<connected, wire, buffer, pending, due, last, torn>>
    BY <1>5 DEF AwaitHeader, history, Held
  <2> QED BY <2>1 DEF InStep
<1>6. CASE ReadPart
  <2>1. /\ reading /\ ~AwaitsHeader /\ Len(Available) < Begun.size
        /\ pending'.size = Begun.size - Len(Available) /\ pending'.msg = Begun.msg \o Available
        /\ buffer' = << >> /\ wire' = wire /\ connected' = connected
        /\ due' = due /\ last' = last /\ torn' = torn
    BY <1>6 DEF ReadPart, Filled, history
  <2> SUFFICES ASSUME ~torn PROVE connected /\ Encodes(Held' \o (buffer' \o wire'), due')
    BY <2>1 DEF InStep
  <2>2. /\ Begun.size \in 0..MaxSize /\ Begun.msg \in Seq(Byte) /\ Available \in Seq(Byte)
    BY <2>1, InProgress
  <2>3. /\ connected /\ Head(due) \in Message
        /\ Begun.size + Len(Begun.msg) = Len(Head(due))
        /\ Held \o (buffer \o wire)
              = Header(Len(Head(due))) \o (Begun.msg \o (Available \o wire))
    BY <2>1, FirstIsInProgress
  <2> DEFINE header == Header(Len(Head(due)))
             msg == Begun.msg \o Available
  <2>4. header \in Seq(Byte)
    BY <2>3, PacketType
  <2>5. msg \in Seq(Byte) /\ Len(msg) = Len(Begun.msg) + Len(Available)
    BY <2>2, ConcatProperties
  <2>6. pending'.size # 0 /\ pending'.size + Len(pending'.msg) = Len(Head(due))
    <3> DEFINE size == Begun.size
               more == Len(Available)
               got == Len(Begun.msg)
    <3>1. size \in Nat /\ more \in Nat /\ got \in Nat /\ more < size
          /\ size + got = Len(Head(due))
          /\ pending'.size = size - more /\ Len(pending'.msg) = got + more
      BY <2>1, <2>2, <2>3, <2>5, Constants
    <3> HIDE DEF size, more, got
    <3> QED BY <3>1
  <2>7. Held' = header \o msg
    BY <2>1, <2>6 DEF Held
  <2> HIDE DEF header, msg
  <2>8. Held' \o (buffer' \o wire') = header \o (msg \o wire)
    <3>1. buffer' \o wire' = wire
      BY <1>1, <2>1, ConcatEmptySeq
    <3>2. Held' \o wire = header \o (msg \o wire)
      <4>1. (header \o msg) \o wire = header \o (msg \o wire)
        <5>1. Join(Join(header, msg), wire) = Join(header, Join(msg, wire))
          BY <1>1, <2>4, <2>5, Regrouping
        <5> QED BY <5>1, Zenon DEF Join
      <4> QED BY <2>7, <4>1, Zenon
    <3> QED BY <3>1, <3>2
  <2>9. msg \o wire = Begun.msg \o (Available \o wire)
    <3>1. Begun.msg \in Seq(Byte) /\ Available \in Seq(Byte) /\ wire \in Seq(Byte)
      BY <1>1, <2>2
    <3>2. Join(Join(Begun.msg, Available), wire) = Join(Begun.msg, Join(Available, wire))
      BY <3>1, Regrouping
    <3> QED BY <3>2, Zenon DEF Join, msg
  <2>10. Held' \o (buffer' \o wire') = Held \o (buffer \o wire)
    BY <2>3, <2>8, <2>9 DEF header
  <2> QED BY <2>1, <2>3, <2>10 DEF InStep
<1>7. CASE ReadRest
  <2>1. /\ pending'.size = 0 /\ torn' = torn /\ connected' = connected /\ wire' = wire
        /\ connected
    BY <1>7 DEF ReadRest, Fresh, InStep
  <2> SUFFICES ASSUME ~torn PROVE Encodes(Held' \o (buffer' \o wire'), due')
    BY <2>1 DEF InStep
  <2>2. connected /\ due' = Tail(due) /\ Encodes(buffer' \o wire, Tail(due))
    BY <1>7, WholeIsFirst
  <2>3. Held' = << >>
    BY <2>1 DEF Held
  <2>4. buffer' \o wire' \in Seq(Byte)
    BY <1>0, ConcatProperties DEF TypeOK
  <2>5. Held' \o (buffer' \o wire') = buffer' \o wire
    BY <2>1, <2>3, <2>4, ConcatEmptySeq
  <2> QED BY <2>2, <2>5
<1>8. CASE Refuse
  <2>1. Lost /\ pending'.size = 0 /\ reading' = FALSE
    BY <1>8 DEF Refuse, Fresh
  <2> QED BY <2>1 DEF Lost, InStep
<1>9. CASE Break
  <2>1. Lost /\ ~reading' /\ ~connected'
    BY <1>9 DEF Break, Lost
  <2>2. ASSUME ~torn' PROVE pending'.size = 0
    <3>1. CASE reader = "client" \/ AwaitsLogin
      <4>1. pending' = pending /\ ~(pending.size > 0)
        BY <1>9, <2>2, <3>1 DEF Break, Left
      <4> QED BY <4>1, Constants DEF TypeOK
    <3>2. CASE ~(reader = "client" \/ AwaitsLogin)
      BY <1>9, <3>2 DEF Break, Left, Untouched
    <3> QED BY <3>1, <3>2
  <2> QED BY <2>1, <2>2 DEF Lost, InStep
<1>10. CASE Reconnect
  <2> SUFFICES ASSUME ~torn' PROVE Encodes(Held' \o (buffer' \o wire'), due')
    BY <1>10 DEF Reconnect, InStep
  <2>1. buffer' = << >> /\ wire' = << >> /\ due' = << >>
    BY <1>10 DEF Reconnect, InStep
  <2>2. pending'.size = 0
    <3>1. CASE torn
      <4>1. ~(pending'.size > 0)
        BY <1>10, <3>1 DEF Reconnect
      <4> QED BY <1>0, <4>1, Constants DEF TypeOK
    <3>2. CASE ~torn
      BY <1>10, <3>2 DEF Reconnect, Inherited, Untouched, InStep
    <3> QED BY <3>1, <3>2
  <2>3. Held' = << >>
    BY <2>2 DEF Held
  <2>4. << >> \o (<< >> \o << >>) = << >>
    OBVIOUS
  <2> QED BY <2>1, <2>3, <2>4, NothingEncodesNothing
<1> QED BY <1>2, <1>3, <1>4, <1>5, <1>6, <1>7, <1>8, <1>9, <1>10 DEF Next, readReceived

LEMMA InStepAtFirst ==
    ASSUME FramingAssumption, Init
    PROVE  InStep
<1>1. Held = << >> /\ buffer = << >> /\ wire = << >> /\ due = << >> /\ connected
  BY DEF Init, Held, Untouched
<1>2. << >> \o (<< >> \o << >>) = << >>
  OBVIOUS
<1> QED BY <1>1, <1>2, NothingEncodesNothing DEF InStep

\* What a step is to the stream.
LEMMA StreamStep ==
    ASSUME FramingAssumption, HostOrder = NetOrder, TypeOK, InStep, [Next]_vars
    PROVE  [Stream!Next]_(Stream!vars)
<1> USE DEF Stream!vars
<1>1. torn \in BOOLEAN
  BY DEF TypeOK
<1>2. CASE UNCHANGED vars
  BY <1>2 DEF vars, history
<1>3. ASSUME NEW m \in Message, sendMessage(m) PROVE Stream!Send(m) \/ UNCHANGED Stream!vars
  BY <1>1, <1>3 DEF sendMessage, Stream!Send
<1>4. ASSUME NEW n \in 1..Len(wire), Arrive(n) PROVE UNCHANGED Stream!vars
  BY <1>4 DEF Arrive, history
<1>5. CASE AwaitHeader \/ ReadPart
  BY <1>5 DEF AwaitHeader, ReadPart, history
<1>6. CASE ReadRest
  <2>1. torn' = torn
    BY <1>6 DEF ReadRest
  <2>2. CASE torn
    BY <2>1, <2>2
  <2>3. CASE ~torn
    <3>1. due # << >> /\ last' = Head(due) /\ due' = Tail(due)
      BY <1>6, <2>3, WholeIsFirst
    <3>2. Stream!Read
      BY <2>1, <2>3, <3>1 DEF Stream!Read
    <3> QED BY <3>2 DEF Stream!Next
  <2> QED BY <1>1, <2>2, <2>3
<1>7. CASE Refuse \/ Break
  <2>1. due' = << >> /\ last' = NoMessage
    BY <1>7 DEF Refuse, Break, Lost
  <2>2. Stream!Break
    BY <2>1 DEF Stream!Break
  <2> QED BY <2>2 DEF Stream!Next
<1>8. CASE Reconnect
  <2>1. ~connected /\ due' = due /\ last' = last
    BY <1>8 DEF Reconnect
  <2>2. due = << >> /\ last = NoMessage
    BY <2>1 DEF InStep
  <2> QED BY <2>1, <2>2
<1> QED BY <1>2, <1>3, <1>4, <1>5, <1>6, <1>7, <1>8 DEF Next, readReceived, Stream!Next

\* Whatever pieces the bytes come in, and however often the connection breaks: on a
\* connection that did not begin with a part of an older message, the messages read
\* are the messages sent, where sender and reader agree on the order of the header's
\* bytes.
THEOREM FramingKeepsStream ==
    FramingAssumption /\ HostOrder = NetOrder => (Spec => KeepsStream)
<1> SUFFICES ASSUME FramingAssumption, HostOrder = NetOrder PROVE Spec => KeepsStream
  OBVIOUS
<1> DEFINE IInv == TypeOK /\ InStep
<1>1. Init => IInv
  BY InStepAtFirst, FramingTypeAtFirst
<1>2. IInv /\ [Next]_vars => IInv'
  BY FramingTypeStep, InStepStep
<1>3. Init => Stream!Init
  BY DEF Init, Stream!Init
<1>4. IInv /\ [Next]_vars => [Stream!Next]_(Stream!vars)
  BY StreamStep
<1> HIDE DEF IInv
<1> QED BY <1>1, <1>2, <1>3, <1>4, PTL DEF Spec, KeepsStream, Stream!Spec
=============================================================================
