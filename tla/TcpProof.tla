------------------------------ MODULE TcpProof ------------------------------
(***************************************************************************)
(* Theorems about a TCP connection, for any streams, windows, sizes of     *)
(* buffers and space of sequence numbers.                                  *)
(***************************************************************************)
EXTENDS TcpConn, FiniteSetTheorems, SequenceTheorems, WellFoundedInduction, TLAPS

\* A set of numbers that is not empty has a least one.
LEMMA Smallest ==
  ASSUME NEW S \in SUBSET Nat, S # {}
  PROVE  \E x \in S : \A y \in S : x <= y
<1>1. PICK x \in S : \A y \in S : ~(<<y, x>> \in OpToRel(<, Nat))
  BY WFMin, NatLessThanWellFounded
<1>2. ASSUME NEW y \in S PROVE x <= y
  <2>1. y < x => <<y, x>> \in OpToRel(<, Nat) BY Zenon DEF OpToRel
  <2>2. ~(y < x) BY <1>1, <2>1
  <2> QED BY <2>2
<1> QED BY <1>2

\* Induction over the numbers up to n, where a set says what is to be shown.
LEMMA UpTo ==
  ASSUME NEW n \in Nat, NEW S, 0 \in S, \A i \in 0 .. n - 1 : i \in S => i + 1 \in S
  PROVE  0 .. n \subseteq S
<1> DEFINE Missing == (0 .. n) \ S
<1>1. SUFFICES ASSUME Missing # {} PROVE FALSE OBVIOUS
<1>2. PICK x \in Missing : \A y \in Missing : x <= y
  <2> HIDE DEF Missing
  <2>1. Missing \subseteq Nat BY DEF Missing
  <2> QED BY <1>1, <2>1, Smallest
<1>3. x \in 0 .. n /\ x \notin S BY <1>2
<1>4. x # 0 BY <1>3
<1>5. x - 1 \in 0 .. n - 1 /\ (x - 1) + 1 = x BY <1>3, <1>4
<1>6. x - 1 \notin S BY <1>3, <1>5
<1> QED BY <1>2, <1>5, <1>6

-----------------------------------------------------------------------------
(* Sequence numbers.                                                       *)

LEMMA Mod ==
  ASSUME NEW D \in Nat \ {0}, NEW x \in Int
  PROVE  /\ x \in 0 .. D - 1 => x % D = x
         /\ x \in D .. 2 * D - 1 => x % D = x - D
         /\ x \in -D .. -1 => x % D = x + D
         /\ x % D \in 0 .. D - 1
OBVIOUS

Half == SeqSpace \div 2
Numbers == 0 .. SeqSpace - 1

LEMMA Spaces ==
  /\ SeqSpace \in Nat \ {0} /\ SPACE \in Nat \ {0} /\ MSS \in Nat \ {0} /\ MINSEG \in 1 .. MSS
  /\ TCP_MAXWIN \in 1 .. SPACE /\ Half \in Nat /\ 2 * Half <= SeqSpace /\ 2 * Half + 1 >= SeqSpace
  /\ ISS \in Numbers
BY TcpAssumption DEF Half, Numbers

LEMMA Number ==
  ASSUME NEW x \in Numbers
  PROVE  x \in Int
<1> QED BY Spaces DEF Numbers

LEMMA PlusIn ==
  ASSUME NEW a \in Int, NEW n \in Int
  PROVE  Plus(a, n) \in Numbers /\ UDiff(a, n) \in Numbers
BY Spaces, Mod DEF Plus, UDiff, Numbers

\* A number's place, as the remainder gives it.
LEMMA PlusIs ==
  ASSUME NEW a \in Numbers, NEW p \in -1 .. SeqSpace
  PROVE  Plus(a, p) = IF a + p < 0 THEN a + p + SeqSpace
                      ELSE IF a + p < SeqSpace THEN a + p ELSE (a + p) - SeqSpace
<1> DEFINE x == a + p
<1>1. x \in Int /\ -1 <= x /\ x < 2 * SeqSpace BY Spaces DEF Numbers
<1> HIDE DEF x
<1>2. x % SeqSpace = IF x < 0 THEN x + SeqSpace ELSE IF x < SeqSpace THEN x ELSE x - SeqSpace
  <2>1. CASE x < 0
    <3>1. x \in -SeqSpace .. -1 BY <1>1, <2>1, Spaces
    <3>2. x % SeqSpace = x + SeqSpace BY <1>1, <3>1, Spaces, Mod
    <3> QED BY <2>1, <3>2, Zenon
  <2>2. CASE x >= 0 /\ x < SeqSpace
    <3>1. x \in 0 .. SeqSpace - 1 BY <1>1, <2>2, Spaces
    <3>2. x % SeqSpace = x BY <1>1, <3>1, Spaces, Mod
    <3>3. ~(x < 0) BY <1>1, <2>2
    <3> QED BY <2>2, <3>2, <3>3, Zenon
  <2>3. CASE x >= SeqSpace
    <3>1. x \in SeqSpace .. 2 * SeqSpace - 1 BY <1>1, <2>3, Spaces
    <3>2. ~(x < 0) /\ ~(x < SeqSpace) BY <1>1, <2>3, Spaces
    <3>3. x % SeqSpace = x - SeqSpace BY <1>1, <3>1, Spaces, Mod
    <3> QED BY <3>2, <3>3, Zenon
  <2>4. x < 0 \/ (x >= 0 /\ x < SeqSpace) \/ x >= SeqSpace BY <1>1, Spaces
  <2> QED BY <2>1, <2>2, <2>3, <2>4, Zenon
<1> QED BY <1>2 DEF Plus, x

\* Numbers counted from a have the difference of their places.
LEMMA DiffIs ==
  ASSUME NEW a \in Numbers, NEW p \in -1 .. Half, NEW q \in -1 .. Half, p - q < Half, q - p <= Half
  PROVE  Diff(Plus(a, p), Plus(a, q)) = p - q
<1> DEFINE x == Plus(a, p)
           y == Plus(a, q)
<1>1. x \in Numbers /\ (x = a + p \/ x = a + p - SeqSpace \/ x = a + p + SeqSpace)
  <2>1. p \in -1 .. SeqSpace /\ a + p < 2 * SeqSpace BY Spaces DEF Numbers
  <2>2. x \in Numbers BY <2>1, PlusIn, Spaces DEF Numbers
  <2> QED BY <2>1, <2>2, PlusIs, Spaces DEF Numbers
<1>2. y \in Numbers /\ (y = a + q \/ y = a + q - SeqSpace \/ y = a + q + SeqSpace)
  <2>1. q \in -1 .. SeqSpace /\ a + q < 2 * SeqSpace BY Spaces DEF Numbers
  <2>2. y \in Numbers BY <2>1, PlusIn, Spaces DEF Numbers
  <2> QED BY <2>1, <2>2, PlusIs, Spaces DEF Numbers
<1> HIDE DEF x, y
<1>3. UDiff(x, y) \in Numbers /\ (UDiff(x, y) = x - y \/ UDiff(x, y) = x - y + SeqSpace)
  <2>1. x - y \in -SeqSpace .. SeqSpace - 1 BY <1>1, <1>2, Spaces DEF Numbers
  <2>2. x - y \in -SeqSpace .. -1 \/ x - y \in 0 .. SeqSpace - 1 BY <2>1, Spaces
  <2>3. UDiff(x, y) \in Numbers BY <1>1, <1>2, PlusIn DEF Numbers
  <2>4. UDiff(x, y) = (x - y) % SeqSpace BY DEF UDiff
  <2> DEFINE z == x - y
  <2>5. /\ z \in 0 .. SeqSpace - 1 => z % SeqSpace = z
        /\ z \in -SeqSpace .. -1 => z % SeqSpace = z + SeqSpace
    <3>1. z \in Int BY <2>1
    <3> HIDE DEF z
    <3> QED BY <3>1, Spaces, Mod
  <2>6. z = x - y OBVIOUS
  <2> HIDE DEF z
  <2> QED BY <1>1, <1>2, <2>2, <2>3, <2>4, <2>5, <2>6, Spaces DEF Numbers
<1>4. Diff(x, y) = IF UDiff(x, y) < Half THEN UDiff(x, y) ELSE UDiff(x, y) - SeqSpace
  BY DEF Diff, Half
<1>5. UDiff(x, y) = IF p - q >= 0 THEN p - q ELSE p - q + SeqSpace
  <2>1. \E k \in {-2, -1, 0, 1, 2, 3} : UDiff(x, y) = p - q + k * SeqSpace
    BY <1>1, <1>2, <1>3, Spaces DEF Numbers
  <2>2. -Half - 1 <= p - q /\ p - q < Half /\ p - q \in Int /\ Half < SeqSpace BY Spaces
  <2> QED BY <1>3, <2>1, <2>2, Spaces DEF Numbers
<1>6. Diff(x, y) = p - q BY <1>3, <1>4, <1>5, Spaces DEF Numbers
<1> QED BY <1>6 DEF x, y

LEMMA PlusPlus ==
  ASSUME NEW a \in Numbers, NEW p \in -1 .. Half, NEW n \in -1 .. Half, p + n \in -1 .. Half
  PROVE  Plus(Plus(a, p), n) = Plus(a, p + n)
<1>1. Plus(a, p) \in Numbers BY PlusIn DEF Numbers
<1>2. Plus(a, p) = IF a + p < 0 THEN a + p + SeqSpace ELSE IF a + p < SeqSpace THEN a + p ELSE a + p - SeqSpace
  BY Spaces, PlusIs DEF Numbers
<1>3. Plus(a, p + n) = IF a + p + n < 0 THEN a + p + n + SeqSpace
                       ELSE IF a + p + n < SeqSpace THEN a + p + n ELSE a + p + n - SeqSpace
  BY Spaces, PlusIs DEF Numbers
<1> DEFINE x == Plus(a, p)
<1>4. Plus(x, n) = IF x + n < 0 THEN x + n + SeqSpace
                   ELSE IF x + n < SeqSpace THEN x + n ELSE x + n - SeqSpace
  <2> HIDE DEF x
  <2> QED BY <1>1, Spaces, PlusIs DEF Numbers, x
<1> HIDE DEF x
<1>5. Plus(a, p + n) = Plus(x, n)
  BY <1>1, <1>2, <1>3, <1>4, Spaces DEF Numbers, x
<1> QED BY <1>5 DEF x

\* What is added to the difference gives the number.
LEMMA PlusDiff ==
  ASSUME NEW a \in Numbers, NEW b \in Numbers
  PROVE  Plus(a, UDiff(b, a)) = b
<1>1. UDiff(b, a) = IF b - a < 0 THEN b - a + SeqSpace ELSE b - a
  <2> DEFINE z == b - a
  <2>1. z \in Int /\ z \in -SeqSpace .. SeqSpace - 1 BY Spaces DEF Numbers
  <2> HIDE DEF z
  <2>2. z % SeqSpace = IF z < 0 THEN z + SeqSpace ELSE z
    <3>1. CASE z < 0
      <4>1. z \in -SeqSpace .. -1 BY <2>1, <3>1, Spaces
      <4> QED BY <2>1, <3>1, <4>1, Spaces, Mod
    <3>2. CASE ~(z < 0)
      <4>1. z \in 0 .. SeqSpace - 1 BY <2>1, <3>2, Spaces
      <4> QED BY <2>1, <3>2, <4>1, Spaces, Mod
    <3> QED BY <3>1, <3>2
  <2> QED BY <2>2 DEF UDiff, z
<1> DEFINE n == UDiff(b, a)
<1>2. n \in 0 .. SeqSpace - 1 BY <1>1, Spaces DEF Numbers
<1>3. Plus(a, n) = IF a + n < SeqSpace THEN a + n ELSE a + n - SeqSpace
  <2> HIDE DEF n
  <2> QED BY <1>2, Spaces, PlusIs DEF Numbers
<1> QED BY <1>1, <1>3, Spaces DEF Numbers

-----------------------------------------------------------------------------
(* Rings.                                                                  *)

Ring(b) ==
  /\ b = [data |-> b.data, datalen |-> b.datalen, rptr |-> b.rptr, wptr |-> b.wptr, cc |-> b.cc]
  /\ b.datalen \in SPACE .. SPACE + MSS /\ b.cc \in 0 .. b.datalen /\ b.rptr \in 0 .. b.datalen - 1
  /\ b.wptr = (b.rptr + b.cc) % b.datalen
\* b holds the bytes after place n
Holds(b, n) == \A i \in 1 .. b.cc : b.data[(b.rptr + (i - 1)) % b.datalen] = n + i

LEMMA RingReserve ==
  ASSUME NEW b, NEW size \in SPACE .. SPACE + MSS
  PROVE  Ring(sbreserve(b, size)) /\ sbreserve(b, size).cc = 0
<1>1. size \in Nat \ {0} BY Spaces
<1>2. (0 + 0) % size = 0 BY <1>1
<1> QED BY <1>1, <1>2 DEF Ring, sbreserve

\* Two places of a ring less than its length apart.
LEMMA Around ==
  ASSUME NEW D \in Nat \ {0}, NEW x \in 0 .. 2 * D - 1
  PROVE  x % D = IF x < D THEN x ELSE x - D
<1>1. CASE x < D
  <2>1. x \in 0 .. D - 1 BY <1>1
  <2>2. x % D = x BY <2>1, Mod
  <2> QED BY <1>1, <2>2, Zenon
<1>2. CASE ~(x < D)
  <2>1. x \in D .. 2 * D - 1 BY <1>2
  <2>2. x \in Int OBVIOUS
  <2>3. x % D = x - D BY <2>1, <2>2, Mod, Zenon
  <2> QED BY <1>2, <2>3, Zenon
<1> QED BY <1>1, <1>2

LEMMA RingDrop ==
  ASSUME NEW b, Ring(b), NEW n \in 0 .. b.cc
  PROVE  LET d == sbdrop(b, n)
         IN  /\ Ring(d) /\ d.cc = b.cc - n /\ d.datalen = b.datalen
             /\ \A k \in Int : Holds(b, k) => Holds(d, k + n)
<1> DEFINE d == sbdrop(b, n)
           D == b.datalen
<1>1. D \in Nat \ {0} /\ b.cc \in 0 .. D /\ b.rptr \in 0 .. D - 1 /\ b.wptr = (b.rptr + b.cc) % D
      /\ D \in SPACE .. SPACE + MSS
  BY Spaces DEF Ring
<1>2. /\ d = [data |-> b.data, datalen |-> D, rptr |-> (b.rptr + n) % D, wptr |-> b.wptr, cc |-> b.cc - n]
  <2>1. ~(n > b.cc) BY <1>1
  <2>2. d = [b EXCEPT !.cc = @ - n, !.rptr = (@ + n) % D] BY <2>1 DEF sbdrop
  <2> QED BY <2>2 DEF Ring
<1>3. (b.rptr + n) % D = IF b.rptr + n < D THEN b.rptr + n ELSE (b.rptr + n) - D
  <2> DEFINE x == b.rptr + n
  <2>1. x \in 0 .. 2 * D - 1 BY <1>1
  <2> HIDE DEF x, D
  <2>2. x % D = IF x < D THEN x ELSE x - D BY <1>1, <2>1, Around
  <2> QED BY <2>2 DEF x, D
<1> DEFINE r == (b.rptr + n) % D
<1>4. r \in 0 .. D - 1 BY <1>1, <1>3
<1> HIDE DEF d, D, r
<1>5. ASSUME NEW i \in 0 .. b.cc - n
      PROVE  (r + i) % D = (b.rptr + (n + i)) % D
  <2> DEFINE x == r + i
             y == b.rptr + (n + i)
  <2>1. x \in 0 .. 2 * D - 1 /\ y \in 0 .. 2 * D - 1 BY <1>1, <1>4
  <2>2. x = y \/ (x = y - D /\ y >= D) BY <1>1, <1>3 DEF r, D
  <2> HIDE DEF x, y
  <2>3. x % D = (IF x < D THEN x ELSE x - D) /\ y % D = (IF y < D THEN y ELSE y - D)
    BY <1>1, <2>1, Around
  <2>4. x % D = y % D
    <3>1. CASE x = y BY <3>1
    <3>2. CASE x = y - D /\ y >= D
      <4>1. x < D /\ ~(y < D) BY <1>1, <2>1, <3>2
      <4> QED BY <2>3, <3>2, <4>1, Zenon
    <3> QED BY <2>2, <3>1, <3>2
  <2> QED BY <2>4 DEF x, y
<1>6. b.wptr = (r + (b.cc - n)) % D
  <2>1. b.cc - n \in 0 .. b.cc - n /\ n + (b.cc - n) = b.cc BY <1>1
  <2>2. (r + (b.cc - n)) % D = (b.rptr + (n + (b.cc - n))) % D BY <1>5, <2>1
  <2> QED BY <1>1, <2>1, <2>2
<1>7. /\ d.data = b.data /\ d.datalen = D /\ d.rptr = r /\ d.wptr = b.wptr /\ d.cc = b.cc - n
      /\ d = [data |-> d.data, datalen |-> d.datalen, rptr |-> d.rptr, wptr |-> d.wptr, cc |-> d.cc]
  BY <1>2 DEF r
<1>8. Ring(d) BY <1>1, <1>4, <1>6, <1>7 DEF Ring
<1>9. ASSUME NEW k \in Int, Holds(b, k) PROVE Holds(d, k + n)
  <2> SUFFICES ASSUME NEW i \in 1 .. d.cc PROVE d.data[(d.rptr + (i - 1)) % d.datalen] = (k + n) + i
    BY DEF Holds
  <2>1. i \in 1 .. b.cc - n /\ i - 1 \in 0 .. b.cc - n BY <1>1, <1>7
  <2>2. (r + (i - 1)) % D = (b.rptr + (n + (i - 1))) % D BY <1>5, <2>1
  <2>3. n + i \in 1 .. b.cc /\ (n + i) - 1 = n + (i - 1) BY <1>1, <2>1
  <2>4. b.data[(b.rptr + ((n + i) - 1)) % b.datalen] = k + (n + i) BY <1>9, <2>3, Zenon DEF Holds
  <2>5. k + (n + i) = (k + n) + i BY <1>1, <2>1
  <2> QED BY <1>7, <2>2, <2>3, <2>4, <2>5 DEF D
<1> QED BY <1>7, <1>8, <1>9 DEF d, D

\* The write pointer w of a ring of length D follows its cc bytes, and n more go behind it.
Pointers(D, cc, r, w, n) ==
  /\ w + n \in 0 .. 2 * D - 1 /\ r + (cc + n) \in 0 .. 2 * D - 1
  /\ w + n = r + (cc + n) \/ (w + n = (r + (cc + n)) - D /\ r + (cc + n) >= D)
  /\ n <= IF w < r THEN r - w ELSE (D - w) + r
  /\ \A i \in 0 .. (cc + n) - 1 : \A p \in Int :
       /\ r + i \in 0 .. 2 * D - 1
       /\ p = (IF r + i < D THEN r + i ELSE (r + i) - D) =>
            /\ p \in 0 .. D - 1 /\ p - w \in Int /\ p - w \in -D .. D - 1
            /\ i >= cc => (IF p - w < 0 THEN (p - w) + D ELSE p - w) = i - cc
            /\ i < cc => (IF p - w < 0 THEN (p - w) + D ELSE p - w) >= n

LEMMA PointersAre ==
  ASSUME NEW D \in Nat \ {0}, NEW cc \in 0 .. D, NEW r \in 0 .. D - 1, NEW w \in 0 .. D - 1,
         w = IF r + cc < D THEN r + cc ELSE (r + cc) - D, NEW n \in 0 .. D, n <= D - cc
  PROVE  Pointers(D, cc, r, w, n)
<1>1. w + n \in 0 .. 2 * D - 1 /\ r + (cc + n) \in 0 .. 2 * D - 1 OBVIOUS
<1>2. w + n = r + (cc + n) \/ (w + n = (r + (cc + n)) - D /\ r + (cc + n) >= D) OBVIOUS
<1>3. n <= IF w < r THEN r - w ELSE (D - w) + r OBVIOUS
<1>4. ASSUME NEW i \in 0 .. (cc + n) - 1, NEW p \in Int
      PROVE  /\ r + i \in 0 .. 2 * D - 1
             /\ p = (IF r + i < D THEN r + i ELSE (r + i) - D) =>
                   /\ p \in 0 .. D - 1 /\ p - w \in Int /\ p - w \in -D .. D - 1
                   /\ i >= cc => (IF p - w < 0 THEN (p - w) + D ELSE p - w) = i - cc
                   /\ i < cc => (IF p - w < 0 THEN (p - w) + D ELSE p - w) >= n
  <2>1. r + i \in 0 .. 2 * D - 1 OBVIOUS
  <2>2. ASSUME p = (IF r + i < D THEN r + i ELSE (r + i) - D)
        PROVE  /\ p \in 0 .. D - 1 /\ p - w \in Int /\ p - w \in -D .. D - 1
               /\ i >= cc => (IF p - w < 0 THEN (p - w) + D ELSE p - w) = i - cc
               /\ i < cc => (IF p - w < 0 THEN (p - w) + D ELSE p - w) >= n
    <3>1. p \in 0 .. D - 1 BY <2>1, <2>2
    <3>2. p - w \in Int /\ p - w \in -D .. D - 1 BY <3>1
    <3>3. i >= cc => (IF p - w < 0 THEN (p - w) + D ELSE p - w) = i - cc BY <2>2, <3>1
    <3>4. i < cc => (IF p - w < 0 THEN (p - w) + D ELSE p - w) >= n BY <2>2, <3>1
    <3> QED BY <3>1, <3>2, <3>3, <3>4
  <2> QED BY <2>1, <2>2
<1> QED BY <1>1, <1>2, <1>3, <1>4 DEF Pointers

\* What is put in behind the bytes of b, when there is room for it.
LEMMA RingAppend ==
  ASSUME NEW b, Ring(b), NEW bytes \in Seq(Int), Len(bytes) <= sbspace(b)
  PROVE  LET d == sbappendsb(b, bytes)
         IN  /\ Ring(d) /\ d.cc = b.cc + Len(bytes) /\ d.datalen = b.datalen
             /\ \A k \in Int : Holds(b, k) /\ (\A i \in 1 .. Len(bytes) : bytes[i] = k + b.cc + i)
                                 => Holds(d, k)
<1> DEFINE D == b.datalen
           N == Len(bytes)
           d == sbappendsb(b, bytes)
           At(i) == ((i - b.wptr) % D) + 1
           data == [i \in 0 .. D - 1 |-> IF At(i) <= N THEN bytes[At(i)] ELSE b.data[i]]
<1>0. b.wptr = (b.rptr + b.cc) % D BY DEF Ring
<1>1. /\ D \in Nat \ {0} /\ b.cc \in 0 .. D /\ b.rptr \in 0 .. D - 1 /\ D \in SPACE .. SPACE + MSS /\ N \in Nat /\ N <= D - b.cc
  BY Spaces DEF Ring, sbspace
<1>2. b.wptr = IF b.rptr + b.cc < D THEN b.rptr + b.cc ELSE (b.rptr + b.cc) - D
  <2> DEFINE x == b.rptr + b.cc
  <2>1. x \in 0 .. 2 * D - 1 BY <1>1
  <2> HIDE DEF x, D
  <2>2. x % D = IF x < D THEN x ELSE x - D BY <1>1, <2>1, Around
  <2> QED BY <1>0, <2>2 DEF x
<1>3. b.wptr \in 0 .. D - 1 BY <1>1, <1>2
<1> DEFINE room == IF b.wptr < b.rptr THEN b.rptr - b.wptr ELSE (D - b.wptr) + b.rptr
<1>10. Pointers(D, b.cc, b.rptr, b.wptr, N)
  <2>1. N \in 0 .. D BY <1>1
  <2> HIDE DEF D, N
  <2> QED BY <1>1, <1>2, <1>3, <2>1, PointersAre
<1>4. N <= room BY <1>10 DEF Pointers
<1>5. d = [data |-> data, datalen |-> D, rptr |-> b.rptr, wptr |-> (b.wptr + N) % D, cc |-> b.cc + N]
  <2>1. (IF N < room THEN N ELSE room) = N BY <1>1, <1>3, <1>4
  <2>2. d = [b EXCEPT !.data = [i \in 0 .. D - 1 |->
                                  IF At(i) <= (IF N < room THEN N ELSE room) THEN bytes[At(i)] ELSE @[i]],
                      !.cc = @ + (IF N < room THEN N ELSE room),
                      !.wptr = (@ + (IF N < room THEN N ELSE room)) % D]
    BY DEF sbappendsb
  <2> DEFINE n == IF N < room THEN N ELSE room
  <2>4. d = [b EXCEPT !.data = [i \in 0 .. D - 1 |-> IF At(i) <= n THEN bytes[At(i)] ELSE @[i]],
                      !.cc = @ + n, !.wptr = (@ + n) % D]
    BY <2>2
  <2>5. n = N BY <2>1
  <2> HIDE DEF n
  <2>3. d = [b EXCEPT !.data = [i \in 0 .. D - 1 |-> IF At(i) <= N THEN bytes[At(i)] ELSE @[i]],
                      !.cc = @ + N, !.wptr = (@ + N) % D]
    BY <2>4, <2>5
  <2> QED BY <2>3 DEF Ring
<1> HIDE DEF d, room
<1>6. (b.wptr + N) % D = (b.rptr + (b.cc + N)) % D
  <2> DEFINE x == b.wptr + N
             y == b.rptr + (b.cc + N)
  <2>1. x \in 0 .. 2 * D - 1 /\ y \in 0 .. 2 * D - 1 BY <1>10 DEF Pointers
  <2>2. x = y \/ (x = y - D /\ y >= D) BY <1>10 DEF Pointers
  <2> HIDE DEF x, y, D
  <2>3. x % D = (IF x < D THEN x ELSE x - D) /\ y % D = (IF y < D THEN y ELSE y - D)
    BY <1>1, <2>1, Around
  <2>4. x % D = y % D
    <3>1. CASE x = y BY <3>1
    <3>2. CASE x = y - D /\ y >= D
      <4>1. x < D /\ ~(y < D) BY <1>1, <2>1, <3>2
      <4> QED BY <2>3, <3>2, <4>1, Zenon
    <3> QED BY <2>2, <3>1, <3>2
  <2> QED BY <2>4 DEF x, y
<1>7. Ring(d) /\ d.cc = b.cc + N /\ d.datalen = D /\ d.rptr = b.rptr /\ d.data = data
  <2> HIDE DEF data, D, N
  <2>1. /\ d.data = data /\ d.datalen = D /\ d.rptr = b.rptr /\ d.wptr = (b.wptr + N) % D /\ d.cc = b.cc + N
        /\ d = [data |-> d.data, datalen |-> d.datalen, rptr |-> d.rptr, wptr |-> d.wptr, cc |-> d.cc]
    BY <1>5
  <2>2. b.cc + N \in 0 .. D BY <1>1
  <2>3. d.wptr = (d.rptr + d.cc) % d.datalen BY <1>6, <2>1
  <2> QED BY <1>1, <2>1, <2>2, <2>3, Zenon DEF Ring
\* the byte behind i others is at this place, and counted from the write pointer
<1>8. ASSUME NEW i \in 0 .. (b.cc + N) - 1
      PROVE  LET p == (b.rptr + i) % D
             IN  p \in 0 .. D - 1 /\ (i >= b.cc => At(p) = (i - b.cc) + 1) /\ (i < b.cc => At(p) > N)
  <2> DEFINE x == b.rptr + i
             p == x % D
             z == p - b.wptr
             m == z % D
  <2>1. x \in 0 .. 2 * D - 1
    <3>1. 0 \in Int OBVIOUS
    <3> QED BY <1>10, <3>1 DEF Pointers
  <2>2. p = IF x < D THEN x ELSE x - D
    <3> HIDE DEF x, D
    <3> QED BY <1>1, <2>1, Around
  <2>3. p \in Int BY <2>1, <2>2, <1>1
  <2> HIDE DEF p
  <2>4. /\ p \in 0 .. D - 1 /\ z \in Int /\ z \in -D .. D - 1
        /\ i >= b.cc => (IF z < 0 THEN z + D ELSE z) = i - b.cc
        /\ i < b.cc => (IF z < 0 THEN z + D ELSE z) >= N
    BY <1>10, <2>2, <2>3 DEF Pointers
  <2>5. m = IF z < 0 THEN z + D ELSE z
    <3> HIDE DEF z, D
    <3>1. CASE z < 0
      <4>1. z \in -D .. -1 BY <1>1, <2>4, <3>1
      <4>2. z % D = z + D BY <1>1, <2>4, <4>1, Mod, Zenon
      <4> QED BY <3>1, <4>2, Zenon
    <3>2. CASE ~(z < 0)
      <4>1. z \in 0 .. D - 1 BY <1>1, <2>4, <3>2
      <4>2. z % D = z BY <1>1, <2>4, <4>1, Mod, Zenon
      <4> QED BY <3>2, <4>2, Zenon
    <3> QED BY <3>1, <3>2
  <2>6. At(p) = m + 1 OBVIOUS
  <2> HIDE DEF m, z
  <2>7. (i >= b.cc => m = i - b.cc) /\ (i < b.cc => m >= N) /\ m \in Int
    BY <1>1, <2>4, <2>5
  <2> HIDE DEF At
  <2>8. (i >= b.cc => At(p) = (i - b.cc) + 1) /\ (i < b.cc => At(p) > N)
    BY <1>1, <2>6, <2>7
  <2> QED BY <2>4, <2>8 DEF p
<1> HIDE DEF D, N, At
<1>9. ASSUME NEW k \in Int, Holds(b, k), \A i \in 1 .. N : bytes[i] = k + b.cc + i PROVE Holds(d, k)
  <2> SUFFICES ASSUME NEW i \in 1 .. b.cc + N PROVE data[(b.rptr + (i - 1)) % D] = k + i
    BY <1>7 DEF Holds
  <2> DEFINE p == (b.rptr + (i - 1)) % D
  <2>1. i - 1 \in 0 .. (b.cc + N) - 1 BY <1>1
  <2>2. p \in 0 .. D - 1 /\ (i - 1 >= b.cc => At(p) = ((i - 1) - b.cc) + 1) /\ (i - 1 < b.cc => At(p) > N)
    BY <1>8, <2>1
  <2>6. ((i - 1) - b.cc) + 1 = i - b.cc BY <1>1
  <2> HIDE DEF p
  <2>3. CASE i - 1 >= b.cc
    <3>1. At(p) = i - b.cc /\ i - b.cc \in 1 .. N BY <1>1, <2>2, <2>3, <2>6
    <3>2. bytes[i - b.cc] = k + b.cc + (i - b.cc) BY <1>9, <3>1
    <3>3. k + b.cc + (i - b.cc) = k + i BY <1>1, <3>1
    <3>4. At(p) <= N BY <1>1, <3>1
    <3>5. data[p] = bytes[At(p)] BY <2>2, <3>4
    <3> QED BY <3>1, <3>2, <3>3, <3>5 DEF p
  <2>4. CASE i - 1 < b.cc
    <3>1. At(p) > N /\ i \in 1 .. b.cc BY <1>1, <2>2, <2>4
    <3>2. ~(At(p) <= N)
      <4>1. At(p) \in Int
        <5> DEFINE z == p - b.wptr
        <5>1. z \in Int BY <1>3, <2>2
        <5> HIDE DEF z
        <5>2. z % D \in Int BY <1>1, <5>1, Mod
        <5> QED BY <5>2 DEF At, z
      <4> QED BY <1>1, <3>1, <4>1
    <3>3. data[p] = b.data[p] BY <2>2, <3>2
    <3>4. b.data[p] = k + i BY <1>9, <3>1 DEF Holds, p, D
    <3> QED BY <3>3, <3>4 DEF p
  <2>5. i - 1 >= b.cc \/ i - 1 < b.cc BY <1>1
  <2> QED BY <2>3, <2>4, <2>5
<1> QED BY <1>7, <1>9 DEF d, D, N

-----------------------------------------------------------------------------
(* What tcp_output leaves alone.                                           *)

Fields ==
  {"t_state", "armed", "rxtshift", "dupacks", "maxseg", "force", "flags", "una", "nxt", "max", "wnd",
   "cwnd", "ssthresh", "wl1", "wl2", "maxwnd", "rnxt", "adv", "iss", "irs", "rtseq", "idle", "seg",
   "astray", "so_state", "so_m", "snd", "rcv", "h", "open", "out", "again"}
IsConn(d) == d = [f \in Fields |-> d[f]]

Early == {TCPS_SYN_SENT, TCPS_SYN_RECEIVED}
Listed(out) == \E Y : out \in Seq(Y)
\* none of the segments has a SYN
Plain(out) == \E Y : out \in Seq(Y) /\ \A s \in Y : "SYN" \notin s.flags

\* the receiver's part and the socket stay
Same(d, e) ==
  /\ IsConn(e)
  /\ e.open = d.open /\ e.t_state = d.t_state /\ e.rnxt = d.rnxt /\ e.irs = d.irs /\ e.seg = d.seg
  /\ e.so_state = d.so_state /\ e.so_m = d.so_m /\ e.h = d.h
Buffered(d, e) ==
  \/ e.rcv = d.rcv
  \/ d.t_state \in Early /\ Ring(e.rcv) /\ e.rcv.cc = 0
Offering(d, e) ==
  \/ e.adv = d.adv
  \/ \E w \in 0 .. TCP_MAXWIN : e.adv = Plus(d.rnxt, w) /\ (w <= sbspace(d.rcv) \/ d.t_state \in Early)
Sending(d, e) ==
  /\ Listed(d.out) => Listed(e.out)
  /\ Plain(d.out) /\ d.t_state \notin Early => Plain(e.out)
Outputs(d, e) == Same(d, e) /\ Buffered(d, e) /\ Offering(d, e) /\ Sending(d, e)

Sound(d) ==
  /\ IsConn(d) /\ Ring(d.rcv) /\ d.rnxt \in Numbers /\ d.adv \in Numbers
  /\ d.t_state \in TCPS_CLOSED .. TCPS_TIME_WAIT

LEMMA ListedMore ==
  ASSUME NEW out, NEW s
  PROVE  /\ Listed(out) => Listed(Append(out, s))
         /\ Plain(out) /\ "SYN" \notin s.flags => Plain(Append(out, s))
<1>1. ASSUME Listed(out) PROVE Listed(Append(out, s))
  <2>1. PICK Y : out \in Seq(Y) BY <1>1 DEF Listed
  <2>2. out \in Seq(Y \cup {s}) /\ s \in Y \cup {s} BY <2>1
  <2>3. Append(out, s) \in Seq(Y \cup {s}) BY <2>2
  <2> QED BY <2>3 DEF Listed
<1>2. ASSUME Plain(out), "SYN" \notin s.flags PROVE Plain(Append(out, s))
  <2>1. PICK Y : out \in Seq(Y) /\ \A y \in Y : "SYN" \notin y.flags BY <1>2 DEF Plain
  <2>2. out \in Seq(Y \cup {s}) /\ s \in Y \cup {s} BY <2>1
  <2>3. Append(out, s) \in Seq(Y \cup {s}) BY <2>2
  <2>4. \A y \in Y \cup {s} : "SYN" \notin y.flags BY <1>2, <2>1
  <2> QED BY <2>3, <2>4 DEF Plain
<1> QED BY <1>1, <1>2

LEMMA OutputsTwice ==
  ASSUME NEW d, NEW e, NEW f, Outputs(d, e), Outputs(e, f)
  PROVE  Outputs(d, f)
<1>1. Same(d, f) BY DEF Outputs, Same
<1>2. Buffered(d, f) BY DEF Outputs, Same, Buffered
<1>3. Offering(d, f)
  <2>1. f.adv = e.adv \/ \E w \in 0 .. TCP_MAXWIN : f.adv = Plus(d.rnxt, w) /\ (w <= sbspace(e.rcv) \/ d.t_state \in Early)
    BY DEF Outputs, Same, Offering
  <2>2. e.rcv = d.rcv \/ d.t_state \in Early BY DEF Outputs, Buffered
  <2>3. CASE f.adv = e.adv BY <2>3, Zenon DEF Outputs, Offering
  <2>4. CASE \E w \in 0 .. TCP_MAXWIN : f.adv = Plus(d.rnxt, w) /\ (w <= sbspace(e.rcv) \/ d.t_state \in Early)
    BY <2>2, <2>4, Zenon DEF Offering
  <2> QED BY <2>1, <2>3, <2>4
<1>4. Sending(d, f) BY DEF Outputs, Same, Sending
<1> QED BY <1>1, <1>2, <1>3, <1>4 DEF Outputs

LEMMA OutputsNothing ==
  ASSUME NEW d, IsConn(d)
  PROVE  Outputs(d, d)
BY DEF Outputs, Same, Buffered, Offering, Sending

LEMMA SoundStays ==
  ASSUME NEW d, NEW e, Sound(d), Outputs(d, e)
  PROVE  Sound(e)
<1>1. Ring(e.rcv) BY DEF Sound, Outputs, Buffered
<1>2. e.adv \in Numbers
  <2>1. \A w \in 0 .. TCP_MAXWIN : Plus(d.rnxt, w) \in Numbers
    <3>1. d.rnxt \in Int BY DEF Sound, Numbers
    <3> QED BY <3>1, PlusIn
  <2> QED BY <2>1 DEF Sound, Outputs, Offering
<1> QED BY <1>1, <1>2 DEF Sound, Outputs, Same

\* what leaves the numbers of the receiver, its buffer and the segments alone
Aside(d, e) == Same(d, e) /\ e.rcv = d.rcv /\ e.adv = d.adv /\ e.out = d.out

LEMMA AsideOutputs ==
  ASSUME NEW d, NEW e, Aside(d, e)
  PROVE  Outputs(d, e)
BY DEF Aside, Outputs, Buffered, Offering, Sending

LEMMA AdvanceAside ==
  ASSUME NEW d, IsConn(d), NEW len, NEW flags
  PROVE  Aside(d, Advance(d, len, flags))
<1> DEFINE next == Plus(d.nxt, len + Cardinality(flags \cap {"SYN", "FIN"}))
           beyond == SEQ_GT(next, d.max)
           sent == [d EXCEPT !.nxt = next, !.max = IF beyond THEN next ELSE @,
                             !.flags = IF "FIN" \in flags THEN @ \cup {"SENTFIN"} ELSE @,
                             !.rtseq = IF beyond /\ @ = Untimed THEN d.nxt ELSE @]
           probed == [d EXCEPT !.max = IF SEQ_GT(Plus(d.nxt, len), @) THEN Plus(d.nxt, len) ELSE @]
           armed == [Arm(Disarm(sent, "PERSIST"), "REXMT")
                       EXCEPT !.rxtshift = IF "PERSIST" \in sent.armed THEN 0 ELSE @]
<1>1. Advance(d, len, flags) \in {sent, probed, armed}
  <2> HIDE DEF probed, next, beyond
  <2> QED BY DEF Advance, probed, next, beyond
<1> HIDE DEF next, beyond
<1>2. Aside(d, sent)
  <2> DEFINE max == IF beyond THEN next ELSE d.max
             fl == IF "FIN" \in flags THEN d.flags \cup {"SENTFIN"} ELSE d.flags
             rt == IF beyond /\ d.rtseq = Untimed THEN d.nxt ELSE d.rtseq
  <2>1. sent = [d EXCEPT !.nxt = next, !.max = max, !.flags = fl, !.rtseq = rt] BY DEF IsConn, Fields
  <2> HIDE DEF sent, max, fl, rt
  <2> QED BY <2>1, ZenonT(30) DEF Aside, Same, IsConn, Fields
<1>3. Aside(d, probed)
  <2> DEFINE max == IF SEQ_GT(Plus(d.nxt, len), d.max) THEN Plus(d.nxt, len) ELSE d.max
  <2>1. probed = [d EXCEPT !.max = max] BY DEF IsConn, Fields
  <2> HIDE DEF probed, max
  <2> QED BY <2>1 DEF Aside, Same, IsConn, Fields
<1> HIDE DEF sent, probed
<1>4. Aside(d, armed) BY <1>2, ZenonT(30) DEF Aside, Same, IsConn, Fields, Arm, Disarm
<1> HIDE DEF armed
<1> QED BY <1>1, <1>2, <1>3, <1>4

LEMMA PersistAside ==
  ASSUME NEW d, IsConn(d)
  PROVE  Aside(d, Persist(d))
BY ZenonT(30) DEF Aside, Same, IsConn, Fields, Persist, tcp_setpersist, Arm

LEMMA EmitOutputs ==
  ASSUME NEW d, Sound(d), NEW off, NEW len, NEW flags, NEW rwin \in Nat, NEW again,
         rwin <= sbspace(d.rcv) \/ d.t_state \in Early,
         "SYN" \in flags => d.t_state \in Early
  PROVE  Outputs(d, Emit(d, Segment(d, off, len, flags, rwin), len, flags, again))
<1> DEFINE segment == Segment(d, off, len, flags, rwin)
           edge == Plus(d.rnxt, segment.win)
           a == Advance(d, len, flags)
           e == [a EXCEPT !.out = Append(@, [segment EXCEPT !.win = @ % (TCP_MAXWIN + 1)]), !.again = again,
                          !.adv = IF segment.win > 0 /\ SEQ_GT(edge, @) THEN edge ELSE @,
                          !.flags = @ \ {"ACKNOW", "DELACK"}]
<1>1. Emit(d, segment, len, flags, again) = e BY DEF Emit
<1>2. Aside(d, a) BY AdvanceAside DEF Sound
<1> DEFINE silly == rwin < d.rcv.datalen \div 4 /\ rwin < d.maxseg
           w == Least(IF silly THEN 0 ELSE rwin, TCP_MAXWIN)
<1>3. segment.win = Most(w, UDiff(d.adv, d.rnxt)) /\ segment.flags = flags BY DEF Segment
<1>4. w \in 0 .. TCP_MAXWIN /\ w <= rwin
  <2> HIDE DEF silly
  <2> QED BY Spaces DEF Least
<1>5. edge = d.adv \/ edge = Plus(d.rnxt, w)
  <2>1. segment.win = w \/ segment.win = UDiff(d.adv, d.rnxt) BY <1>3 DEF Most
  <2>2. Plus(d.rnxt, UDiff(d.adv, d.rnxt)) = d.adv BY PlusDiff DEF Sound
  <2> HIDE DEF segment
  <2> QED BY <2>1, <2>2
<1> DEFINE s == [segment EXCEPT !.win = @ % (TCP_MAXWIN + 1)]
<1>6. s.flags = flags BY DEF Segment
<1> HIDE DEF segment, edge, a, w, s
<1>7. /\ IsConn(e) /\ Same(d, e) /\ e.rcv = d.rcv /\ e.out = Append(d.out, s)
      /\ e.adv = d.adv \/ e.adv = edge
  BY <1>2, ZenonT(30) DEF Aside, Same, IsConn, Fields, s
<1> HIDE DEF e
<1>8. Offering(d, e)
  <2>1. CASE e.adv = Plus(d.rnxt, w)
    <3>1. w <= sbspace(d.rcv) \/ d.t_state \in Early
      <4>1. sbspace(d.rcv) \in Int BY Spaces DEF Sound, Ring, sbspace
      <4> QED BY <1>4, <4>1
    <3> QED BY <1>4, <2>1, <3>1 DEF Offering
  <2> QED BY <1>5, <1>7, <2>1 DEF Offering
<1>9. Sending(d, e)
  <2>1. d.t_state \notin Early => "SYN" \notin s.flags BY <1>6
  <2> QED BY <1>7, <2>1, ListedMore DEF Sending
<1> QED BY <1>1, <1>7, <1>8, <1>9 DEF Outputs, Buffered, segment

LEMMA TransmitOutputs ==
  ASSUME NEW d, Sound(d), NEW off, NEW len, NEW flags, NEW rwin \in Nat, NEW again,
         rwin <= sbspace(d.rcv) \/ d.t_state \in Early,
         "SYN" \in flags => d.t_state \in Early
  PROVE  Outputs(d, Transmit(d, off, len, flags, rwin, again))
<1> DEFINE e == [d EXCEPT !.nxt = Plus(@, -1)]
           Sent(f) == Emit(f, Segment(f, off, len, flags, rwin), len, flags, again)
<1>1. Transmit(d, off, len, flags, rwin, again) \in {Sent(d), Sent(e)} BY DEF Transmit
<1>2. Outputs(d, Sent(d)) BY EmitOutputs
<1>3. Aside(d, e) /\ Sound(e) BY DEF Sound, Aside, Same, IsConn, Fields
<1> HIDE DEF e
<1>4. Outputs(e, Sent(e))
  <2>1. rwin <= sbspace(e.rcv) \/ e.t_state \in Early BY <1>3 DEF Aside, Same
  <2>2. "SYN" \in flags => e.t_state \in Early BY <1>3 DEF Aside, Same
  <2> QED BY <1>3, <2>1, <2>2, EmitOutputs
<1> HIDE DEF Sent
<1>5. Outputs(d, Sent(e)) BY <1>3, <1>4, AsideOutputs, OutputsTwice
<1> QED BY <1>1, <1>2, <1>5

LEMMA MssSize ==
  ASSUME NEW offer \in Nat
  PROVE  LET mss == Most(IF offer # 0 THEN Least(MSS, offer) ELSE MSS, MINSEG)
         IN  /\ mss \in MINSEG .. MSS
             /\ SPACE + (IF SPACE % mss # 0 THEN mss - (SPACE % mss) ELSE 0) \in SPACE .. SPACE + MSS
<1> DEFINE mss == Most(IF offer # 0 THEN Least(MSS, offer) ELSE MSS, MINSEG)
<1>1. mss \in MINSEG .. MSS BY Spaces DEF Most, Least
<1> HIDE DEF mss
<1> DEFINE m == SPACE % mss
<1>2. m \in 0 .. mss - 1 BY <1>1, Spaces, Mod
<1> HIDE DEF m
<1>3. SPACE + (IF m # 0 THEN mss - m ELSE 0) \in SPACE .. SPACE + MSS BY <1>1, <1>2, Spaces
<1> QED BY <1>1, <1>3 DEF m, mss

LEMMA MssIs ==
  ASSUME NEW d, IsConn(d), NEW offer \in Nat
  PROVE  LET e == tcp_mss(d, offer)
         IN  /\ Same(d, e) /\ e.adv = d.adv /\ e.out = d.out
             /\ Ring(e.rcv) /\ e.rcv.cc = 0 /\ Ring(e.snd) /\ e.snd.cc = 0
<1> DEFINE mss == Most(IF offer # 0 THEN Least(MSS, offer) ELSE MSS, MINSEG)
           size == SPACE + (IF SPACE % mss # 0 THEN mss - (SPACE % mss) ELSE 0)
           maxseg == IF mss < d.maxseg \/ offer # 0 THEN mss ELSE d.maxseg
           e == [d EXCEPT !.maxseg = maxseg, !.cwnd = mss,
                          !.snd = sbreserve(@, size), !.rcv = sbreserve(@, size)]
<1>1. size \in SPACE .. SPACE + MSS BY MssSize
<1>2. tcp_mss(d, offer) = e
  <2> HIDE DEF mss, size
  <2> QED BY DEF tcp_mss, mss, size, IsConn, Fields
<1> HIDE DEF mss, size, maxseg
<1>3. /\ Same(d, e) /\ e.adv = d.adv /\ e.out = d.out
      /\ e.rcv = sbreserve(d.rcv, size) /\ e.snd = sbreserve(d.snd, size)
  BY ZenonT(30) DEF Same, IsConn, Fields
<1> HIDE DEF e
<1> QED BY <1>1, <1>2, <1>3, RingReserve

LEMMA SendOutputs ==
  ASSUME NEW d, Sound(d), NEW off, NEW len, NEW flags, NEW again, "SYN" \in flags => d.t_state \in Early
  PROVE  Outputs(d, Send(d, off, len, flags, again))
<1> DEFINE fl == IF len > 0 /\ off + len = d.snd.cc THEN flags \cup {"PUSH"} ELSE flags
           rwin == sbspace(d.rcv)
           m == [tcp_mss(d, 0) EXCEPT !.nxt = d.iss]
           p == [Persist(d) EXCEPT !.again = FALSE]
<1>2. rwin \in Nat BY Spaces DEF Sound, Ring, sbspace
<1>3. "SYN" \in fl => "SYN" \in flags OBVIOUS
<1> HIDE DEF fl
<1>4. Outputs(d, p)
  <2>1. Aside(d, Persist(d)) BY PersistAside DEF Sound
  <2>2. Aside(d, p) BY <2>1 DEF Aside, Same, IsConn, Fields
  <2> HIDE DEF p
  <2> QED BY <2>2, AsideOutputs
<1>5. CASE "SYN" \notin flags
  <2>1. Outputs(d, Transmit(d, off, len, fl, rwin, again))
    <3>1. rwin <= sbspace(d.rcv) BY <1>2
    <3> HIDE DEF rwin
    <3> QED BY <1>2, <1>3, <1>5, <3>1, TransmitOutputs
  <2>2. Send(d, off, len, flags, again) \in {p, Transmit(d, off, len, fl, rwin, again)}
    <3> HIDE DEF p
    <3>1. Send(d, off, len, flags, again) =
          IF Due(d, off, len, flags)
          THEN Transmit(IF "SYN" \in flags THEN m ELSE d, off, len, fl, rwin, again) ELSE p
      BY DEF Send, fl, rwin, m, p
    <3> QED BY <1>5, <3>1
  <2> HIDE DEF p, rwin
  <2> QED BY <1>4, <2>1, <2>2
<1>6. CASE "SYN" \in flags
  <2>1. d.t_state \in Early BY <1>6
  <2> DEFINE n == tcp_mss(d, 0)
  <2>2. Same(d, n) /\ n.adv = d.adv /\ n.out = d.out /\ Ring(n.rcv) /\ n.rcv.cc = 0
    BY MssIs DEF Sound
  <2> HIDE DEF n
  <2>3. m = [n EXCEPT !.nxt = d.iss] BY DEF n
  <2>4. Same(d, m) /\ m.adv = d.adv /\ m.out = d.out /\ Ring(m.rcv) /\ m.rcv.cc = 0
    BY <2>2, <2>3 DEF Same, IsConn, Fields
  <2> HIDE DEF m
  <2>5. Outputs(d, m) BY <2>1, <2>4 DEF Outputs, Buffered, Offering, Sending
  <2>6. Sound(m) BY <2>5, SoundStays
  <2>7. m.t_state \in Early BY <2>1, <2>4 DEF Same
  <2> HIDE DEF rwin
  <2>8. Outputs(m, Transmit(m, off, len, fl, rwin, again)) BY <1>2, <2>6, <2>7, TransmitOutputs
  <2>9. Outputs(d, Transmit(m, off, len, fl, rwin, again)) BY <2>5, <2>8, OutputsTwice
  <2>10. Send(d, off, len, flags, again) \in {p, Transmit(m, off, len, fl, rwin, again)}
    <3> HIDE DEF p
    <3>1. Send(d, off, len, flags, again) =
          IF Due(d, off, len, flags)
          THEN Transmit(IF "SYN" \in flags THEN m ELSE d, off, len, fl, rwin, again) ELSE p
      BY DEF Send, fl, rwin, m, p
    <3> QED BY <1>6, <3>1
  <2> HIDE DEF p
  <2> QED BY <1>4, <2>9, <2>10
<1> QED BY <1>5, <1>6

LEMMA OutFlags ==
  ASSUME NEW t \in TCPS_CLOSED .. TCPS_TIME_WAIT
  PROVE  /\ "SYN" \in tcp_outflags[t] => t \in Early
         /\ "FIN" \in tcp_outflags[t] => t \in {TCPS_FIN_WAIT_1, TCPS_CLOSING, TCPS_LAST_ACK}
BY DEF tcp_outflags, Early, TCPS_CLOSED, TCPS_LISTEN, TCPS_SYN_SENT, TCPS_SYN_RECEIVED, TCPS_ESTABLISHED,
       TCPS_CLOSE_WAIT, TCPS_FIN_WAIT_1, TCPS_CLOSING, TCPS_LAST_ACK, TCPS_FIN_WAIT_2, TCPS_TIME_WAIT

LEMMA RoundOutputs ==
  ASSUME NEW d, Sound(d)
  PROVE  Outputs(d, Round(d))
<1> DEFINE off == Diff(d.nxt, d.una)
           probe == d.force /\ Offered(d) = 0
           win == IF probe THEN 1 ELSE Offered(d)
           usable == Least(d.snd.cc, win) - off
           len == Most(0, Least(usable, d.maxseg))
           shut == usable < 0 /\ win = 0
           unsent == SEQ_LT(Plus(IF shut THEN d.una ELSE d.nxt, len), Plus(d.una, d.snd.cc))
           without == IF unsent \/ (probe /\ off < d.snd.cc) THEN {"FIN"} ELSE {}
           flags == tcp_outflags[d.t_state] \ without
           forced == IF d.force /\ ~probe THEN [Disarm(d, "PERSIST") EXCEPT !.rxtshift = 0] ELSE d
           e == IF shut THEN [Disarm(forced, "REXMT") EXCEPT !.nxt = d.una] ELSE forced
<1>1. Round(d) = Send(e, off, len, flags, usable > d.maxseg)
  BY Zenon DEF Round
<1> HIDE DEF off, win, usable, len, shut, unsent, without
<1>2. "SYN" \in flags => d.t_state \in Early BY OutFlags DEF Sound
<1> HIDE DEF flags
<1>3. Aside(d, forced)
  <2> HIDE DEF probe
  <2> QED BY ZenonT(30) DEF Aside, Same, Sound, IsConn, Fields, Disarm
<1> HIDE DEF forced
<1>4. Aside(d, e) BY <1>3, ZenonT(30) DEF Aside, Same, Sound, IsConn, Fields, Disarm
<1> HIDE DEF e
<1>5. Outputs(d, e) /\ Sound(e) BY <1>4, AsideOutputs, SoundStays
<1>6. "SYN" \in flags => e.t_state \in Early BY <1>2, <1>4 DEF Aside, Same
<1>7. Outputs(e, Send(e, off, len, flags, usable > d.maxseg)) BY <1>5, <1>6, SendOutputs
<1> QED BY <1>1, <1>5, <1>7, OutputsTwice

\* the recursion of tcp_output
Turn(slow, f, i) ==
  IF i = 0 THEN [slow EXCEPT !.again = TRUE] ELSE IF f[i - 1].again THEN Round(f[i - 1]) ELSE f[i - 1]
Turns(slow, n, f) == f = [i \in 0 .. n |-> Turn(slow, f, i)]

LEMMA TurnsExist ==
  ASSUME NEW n \in Nat, NEW slow
  PROVE  \E f : Turns(slow, n, f)
<1> DEFINE S == {k \in 0 .. n : \E f : Turns(slow, k, f)}
<1>1. 0 \in S
  <2> DEFINE h == [i \in 0 .. 0 |-> [slow EXCEPT !.again = TRUE]]
  <2>1. h = [i \in 0 .. 0 |-> Turn(slow, h, i)] BY DEF Turn
  <2> HIDE DEF h
  <2> QED BY <2>1 DEF Turns
<1>2. ASSUME NEW k \in 0 .. n - 1, k \in S PROVE k + 1 \in S
  <2>1. PICK f : Turns(slow, k, f) BY <1>2
  <2> DEFINE h == [i \in 0 .. k + 1 |-> Turn(slow, f, i)]
  <2>2. \A i \in 0 .. k : h[i] = f[i] BY <2>1 DEF Turns
  <2>3. \A i \in 0 .. k + 1 : i # 0 => h[i - 1] = f[i - 1]
    <3> HIDE DEF h
    <3> QED BY <2>2
  <2>4. h = [i \in 0 .. k + 1 |-> Turn(slow, h, i)] BY <2>3, Zenon DEF Turn
  <2>5. k + 1 \in 0 .. n OBVIOUS
  <2> QED BY <2>4, <2>5 DEF Turns
<1>3. n \in S
  <2> HIDE DEF S
  <2>1. 0 .. n \subseteq S BY <1>1, <1>2, UpTo
  <2> QED BY <2>1
<1> QED BY <1>3

\* tcp_output is rounds, one after the other.
LEMMA OutputIs ==
  ASSUME NEW d
  PROVE  \E f : /\ Turns(IF d.max = d.una /\ d.idle THEN [d EXCEPT !.cwnd = d.maxseg] ELSE d, SPACE + 3, f)
                /\ tcp_output(d) = f[SPACE + 3]
<1> DEFINE slow == IF d.max = d.una /\ d.idle THEN [d EXCEPT !.cwnd = d.maxseg] ELSE d
           f == CHOOSE f : f = [i \in 0 .. SPACE + 3 |->
                                  IF i = 0 THEN [slow EXCEPT !.again = TRUE]
                                  ELSE IF f[i - 1].again THEN Round(f[i - 1]) ELSE f[i - 1]]
<1>1. tcp_output(d) = f[SPACE + 3] BY DEF tcp_output
<1>2. f = CHOOSE ff : Turns(slow, SPACE + 3, ff) BY DEF Turns, Turn
<1> HIDE DEF f, slow
<1>3. SPACE + 3 \in Nat BY Spaces
<1>4. Turns(slow, SPACE + 3, f) BY <1>2, <1>3, TurnsExist
<1> QED BY <1>1, <1>4 DEF slow

LEMMA TcpOutputs ==
  ASSUME NEW d, Sound(d)
  PROVE  Outputs(d, tcp_output(d))
<1> DEFINE slow == IF d.max = d.una /\ d.idle THEN [d EXCEPT !.cwnd = d.maxseg] ELSE d
<1>1. PICK f : Turns(slow, SPACE + 3, f) /\ tcp_output(d) = f[SPACE + 3] BY OutputIs
<1>2. Aside(d, slow) BY DEF Aside, Same, Sound, IsConn, Fields
<1> HIDE DEF slow
<1> DEFINE n == SPACE + 3
           S == {i \in 0 .. n : Outputs(d, f[i])}
<1>3. n \in Nat BY Spaces
<1>4. f = [i \in 0 .. n |-> Turn(slow, f, i)] BY <1>1 DEF Turns
<1> HIDE DEF n
<1>5. 0 \in S
  <2>1. f[0] = [slow EXCEPT !.again = TRUE] BY <1>3, <1>4 DEF Turn
  <2>2. Aside(d, f[0]) BY <1>2, <2>1, ZenonT(30) DEF Aside, Same, IsConn, Fields
  <2> QED BY <1>3, <2>2, AsideOutputs
<1>6. ASSUME NEW i \in 0 .. n - 1, i \in S PROVE i + 1 \in S
  <2>1. i + 1 \in 0 .. n /\ (i + 1) - 1 = i /\ i + 1 # 0 BY <1>3
  <2>2. f[i + 1] = IF f[i].again THEN Round(f[i]) ELSE f[i] BY <1>4, <2>1 DEF Turn
  <2>3. Outputs(d, f[i]) /\ Sound(f[i]) BY <1>6, SoundStays
  <2>4. Outputs(d, Round(f[i])) BY <2>3, RoundOutputs, OutputsTwice
  <2> QED BY <2>1, <2>2, <2>3, <2>4
<1>7. n \in S
  <2> HIDE DEF S
  <2>1. 0 .. n \subseteq S BY <1>3, <1>5, <1>6, UpTo
  <2> QED BY <1>3, <2>1
<1> QED BY <1>1, <1>7 DEF n

-----------------------------------------------------------------------------
(* What the receiver keeps true.                                           *)

Length(gu) == gu.streams[1]
First(gu) == GuestIss[gu.life]
\* the guest's FIN may have come
MayEnd(gu) == gu.fin \/ ~gu.synced
GuestFields == {"life", "streams", "mode", "synced", "estab", "ack", "fin", "dead", "edge"}
IsGuest(gu) ==
  /\ gu = [f \in GuestFields |-> gu[f]]
  /\ gu.streams \in Streams /\ Length(gu) \in Nat /\ Length(gu) + (SPACE + MSS + 2) < Half
  /\ gu.life \in 1 .. Len(GuestIss) /\ First(gu) \in Numbers
  /\ \A b \in {gu.fin, gu.synced, gu.estab, gu.dead} : b \in BOOLEAN
  /\ gu.fin \/ gu.estab => gu.synced

\* how much of the guest's stream has been received, the FIN counted too
Received(d) == Diff(d.rnxt, d.irs) - 1

HostFields == {"k", "got", "room", "ended", "dead", "eof", "cut"}
HostOK(h, gu) ==
  /\ h = [f \in HostFields |-> h[f]] /\ h.dead \in BOOLEAN /\ h.eof \in BOOLEAN /\ h.cut \in BOOLEAN
  /\ h.got \in Seq(Int) /\ Len(h.got) <= Length(gu) /\ \A i \in 1 .. Len(h.got) : h.got[i] = i
  /\ h.room \in Nat
  /\ h.eof /\ ~h.cut => Len(h.got) = Length(gu) /\ MayEnd(gu)

SegFields == {"seq", "ack", "flags", "data", "win", "mss"}
IsSeg(s) == s = [f \in SegFields |-> s[f]]

Beginning(d) ==
  /\ d.seg = <<>> /\ d.rcv.cc = 0 /\ d.h.got = <<>> /\ ~d.h.eof /\ ~d.h.dead
  /\ d.so_state \subseteq {"NOFDREF", "INCOMING", "ISFCONNECTING"}
  /\ d.t_state = TCPS_SYN_RECEIVED => Received(d) = 0
  /\ "ISFCONNECTING" \in d.so_state =>
       /\ d.t_state = TCPS_SYN_RECEIVED
       /\ IsSeg(d.so_m) /\ d.so_m.seq = d.irs /\ d.so_m.data = <<>> /\ "FIN" \notin d.so_m.flags

Numbered(d, gu) ==
  /\ d.irs \in Numbers /\ Received(d) \in 0 .. Length(gu) + 1 /\ d.rnxt = Plus(d.irs, Received(d) + 1)
  /\ \E a \in 0 .. Received(d) + TCP_MAXWIN :
       d.adv = Plus(d.irs, a + 1) /\ a <= Received(d) + sbspace(d.rcv)

Pieces == [seq : Numbers, data : Seq(Int), fin : BOOLEAN]
\* the data's place behind the number irs, in a stream of n bytes
Placed(seq, data, irs, p, n) ==
  /\ p \in 0 .. n /\ seq = Plus(irs, p + 1)
  /\ data \in Seq(Int) /\ p + Len(data) <= n /\ \A i \in 1 .. Len(data) : data[i] = p + i
PieceOK(q, d, gu) ==
  \E p \in 0 .. Length(gu) :
                 /\ Placed(q.seq, q.data, d.irs, p, Length(gu))
                 /\ p + Len(q.data) <= Received(d) + sbspace(d.rcv)
                 /\ q.fin => p + Len(q.data) = Length(gu) /\ MayEnd(gu)

Ended(d, gu) == Received(d) = Length(gu) + 1
Flowing(d, gu) ==
  /\ ~d.h.dead => /\ Holds(d.rcv, Len(d.h.got))
                  /\ Len(d.h.got) + d.rcv.cc = Least(Received(d), Length(gu))
  /\ d.h.dead => d.h.cut
  /\ "ISFCONNECTING" \notin d.so_state
  /\ "FWDRAIN" \in d.so_state => Ended(d, gu)
  /\ d.so_state \cap {"FCANTSENDMORE", "NOFDREF"} # {} => d.h.dead \/ Ended(d, gu)
  /\ d.t_state \in {TCPS_CLOSE_WAIT, TCPS_CLOSING, TCPS_LAST_ACK, TCPS_TIME_WAIT} => Ended(d, gu)
  /\ Ended(d, gu) => MayEnd(gu)
  /\ d.seg \in Seq(Pieces) /\ \A i \in 1 .. Len(d.seg) : PieceOK(d.seg[i], d, gu)

\* a connection of the guest's last life
Old(d, gu) ==
  /\ d.t_state = TCPS_TIME_WAIT /\ ~gu.synced
  /\ gu.life - 1 \in 1 .. Len(GuestIss) /\ d.irs = GuestIss[gu.life - 1]
Synced(d) == d.t_state >= TCPS_SYN_RECEIVED
Estab(d) == d.t_state >= TCPS_ESTABLISHED

Linked(d, gu) ==
  /\ Synced(d) => d.irs = First(gu) \/ Old(d, gu)
  /\ Estab(d) /\ ~gu.dead /\ ~gu.synced => Old(d, gu)
  /\ Estab(d) /\ ~gu.dead /\ gu.synced /\ ~gu.estab => Received(d) = 0 /\ d.rcv.cc = 0 /\ d.seg = <<>>

Opened(d, gu) ==
  /\ Sound(d) /\ d.t_state \in TCPS_SYN_SENT .. TCPS_TIME_WAIT
  /\ d.t_state \in Early => Beginning(d)
  /\ Synced(d) => Numbered(d, gu)
  /\ Estab(d) => Flowing(d, gu)
  /\ Linked(d, gu)
Rx(d, gu) == IsConn(d) /\ d.open \in BOOLEAN /\ HostOK(d.h, gu) /\ (d.open => Opened(d, gu))

\* before and after a SYN may have been sent
Ready(d, gu) == Rx(d, gu) /\ Plain(d.out)
Done(d, gu) ==
  Rx(d, gu) /\ Listed(d.out) /\ (Plain(d.out) \/ (d.open /\ d.t_state \in Early))

LEMMA States ==
  /\ TCPS_CLOSED = 0 /\ TCPS_LISTEN = 1 /\ TCPS_SYN_SENT = 2 /\ TCPS_SYN_RECEIVED = 3 /\ TCPS_ESTABLISHED = 4
  /\ TCPS_CLOSE_WAIT = 5 /\ TCPS_FIN_WAIT_1 = 6 /\ TCPS_CLOSING = 7 /\ TCPS_LAST_ACK = 8
  /\ TCPS_FIN_WAIT_2 = 9 /\ TCPS_TIME_WAIT = 10 /\ Early = {2, 3}
BY DEF Early, TCPS_CLOSED, TCPS_LISTEN, TCPS_SYN_SENT, TCPS_SYN_RECEIVED, TCPS_ESTABLISHED,
       TCPS_CLOSE_WAIT, TCPS_FIN_WAIT_1, TCPS_CLOSING, TCPS_LAST_ACK, TCPS_FIN_WAIT_2, TCPS_TIME_WAIT

LEMMA ReadyIsDone ==
  ASSUME NEW d, NEW gu, Ready(d, gu)
  PROVE  Done(d, gu)
BY DEF Ready, Done, Plain, Listed

\* how much has been received is told by rnxt
LEMMA ReceivedIs ==
  ASSUME NEW d, d.irs \in Numbers, NEW r \in -1 .. Half - 2, d.rnxt = Plus(d.irs, r + 1)
  PROVE  Received(d) = r
<1>1. Plus(d.irs, 0) = d.irs BY Spaces, PlusIs DEF Numbers
<1>2. Diff(Plus(d.irs, r + 1), Plus(d.irs, 0)) = (r + 1) - 0
  <2>1. r + 1 \in -1 .. Half /\ 0 \in -1 .. Half /\ (r + 1) - 0 < Half /\ 0 - (r + 1) <= Half BY Spaces
  <2> QED BY <2>1, DiffIs
<1> QED BY <1>1, <1>2 DEF Received

\* What leaves the receiver alone keeps it true.
LEMMA SameRx ==
  ASSUME NEW d, NEW e, NEW gu, Rx(d, gu), Same(d, e), e.rcv = d.rcv, e.adv = d.adv
  PROVE  Rx(e, gu)
<1>1. Received(e) = Received(d) BY DEF Same, Received
<1>2. \A q : PieceOK(q, e, gu) <=> PieceOK(q, d, gu) BY <1>1 DEF PieceOK, Same
<1>3. Numbered(d, gu) => Numbered(e, gu) BY <1>1 DEF Numbered, Same
<1>4. Beginning(d) => Beginning(e) BY <1>1 DEF Beginning, Same
<1>5. Flowing(d, gu) => Flowing(e, gu) BY <1>1, <1>2 DEF Flowing, Ended, Same
<1>6. Linked(d, gu) => Linked(e, gu) BY <1>1 DEF Linked, Old, Synced, Estab, Same
<1>7. Sound(d) => Sound(e) BY DEF Sound, Same
<1>8. (Synced(e) <=> Synced(d)) /\ (Estab(e) <=> Estab(d)) BY DEF Synced, Estab, Same
<1>9. Opened(d, gu) => Opened(e, gu) BY <1>3, <1>4, <1>5, <1>6, <1>7, <1>8 DEF Opened, Same
<1> QED BY <1>9 DEF Rx, Same

LEMMA AsideRx ==
  ASSUME NEW d, NEW e, NEW gu, Rx(d, gu), Aside(d, e)
  PROVE  Rx(e, gu)
BY SameRx DEF Aside

LEMMA AsideReady ==
  ASSUME NEW d, NEW e, NEW gu, Ready(d, gu), Aside(d, e)
  PROVE  Ready(e, gu)
BY AsideRx DEF Ready, Aside

LEMMA BufferSpace ==
  ASSUME NEW b, Ring(b)
  PROVE  sbspace(b) \in 0 .. SPACE + MSS /\ b.cc \in Nat /\ (b.cc = 0 => sbspace(b) >= TCP_MAXWIN)
BY Spaces DEF Ring, sbspace

\* tcp_output keeps what the receiver keeps true.
LEMMA OutputsDone ==
  ASSUME NEW d, NEW gu, IsGuest(gu), Ready(d, gu), d.open
  PROVE  Done(tcp_output(d), gu) /\ Same(d, tcp_output(d))
<1> DEFINE e == tcp_output(d)
           R == Received(d)
<1>1. Opened(d, gu) /\ Plain(d.out) /\ Rx(d, gu) BY DEF Ready, Rx
<1>2. Outputs(d, e) /\ Sound(e) BY <1>1, TcpOutputs, SoundStays DEF Opened
<1> HIDE DEF e
<1>3. Same(d, e) /\ Buffered(d, e) /\ Offering(d, e) /\ Sending(d, e) BY <1>2 DEF Outputs
<1>4. Received(e) = R BY <1>3 DEF Same, Received
<1>5. (Synced(e) <=> Synced(d)) /\ (Estab(e) <=> Estab(d)) BY <1>3 DEF Same, Synced, Estab
<1>6. sbspace(d.rcv) \in 0 .. SPACE + MSS /\ sbspace(e.rcv) \in 0 .. SPACE + MSS
      /\ (e.rcv.cc = 0 => sbspace(e.rcv) >= TCP_MAXWIN)
  BY <1>1, <1>2, BufferSpace DEF Opened, Sound
<1>7. d.t_state \in Early /\ Synced(d) => R = 0 BY <1>1, States DEF Opened, Beginning, Synced
<1>8. d.t_state \in Early => e.rcv.cc = 0 BY <1>1, <1>3 DEF Opened, Beginning, Buffered
<1>9. ASSUME Synced(d) PROVE Numbered(e, gu)
  <2>1. Numbered(d, gu) BY <1>1, <1>9 DEF Opened
  <2>2. PICK a \in 0 .. R + TCP_MAXWIN : d.adv = Plus(d.irs, a + 1) /\ a <= R + sbspace(d.rcv)
    BY <2>1 DEF Numbered
  <2>3. R \in 0 .. Length(gu) + 1 /\ d.rnxt = Plus(d.irs, R + 1) /\ d.irs \in Numbers BY <2>1 DEF Numbered
  <2> HIDE DEF R
  <2>4. \E b \in 0 .. R + TCP_MAXWIN : e.adv = Plus(d.irs, b + 1) /\ b <= R + sbspace(e.rcv)
    <3>1. CASE e.adv = d.adv
      <4>1. a <= R + sbspace(e.rcv)
        <5>1. CASE d.t_state \in Early BY <1>6, <1>7, <1>8, <1>9, <5>1, <2>2, Spaces
        <5>2. CASE e.rcv = d.rcv BY <2>2, <5>2
        <5> QED BY <1>3, <5>1, <5>2 DEF Buffered
      <4> QED BY <2>2, <3>1, <4>1
    <3>2. CASE \E w \in 0 .. TCP_MAXWIN : e.adv = Plus(d.rnxt, w) /\ (w <= sbspace(d.rcv) \/ d.t_state \in Early)
      <4>1. PICK w \in 0 .. TCP_MAXWIN : e.adv = Plus(d.rnxt, w) /\ (w <= sbspace(d.rcv) \/ d.t_state \in Early)
        BY <3>2
      <4>2. Plus(d.rnxt, w) = Plus(d.irs, (R + 1) + w)
        <5>1. R + 1 \in -1 .. Half /\ w \in -1 .. Half /\ (R + 1) + w \in -1 .. Half
          <6>1. Length(gu) \in Nat /\ Length(gu) + (SPACE + MSS + 2) < Half BY DEF IsGuest
          <6> QED BY <2>3, <4>1, <6>1, Spaces
        <5> QED BY <2>3, <5>1, PlusPlus
      <4>3. w <= sbspace(e.rcv)
        <5>1. CASE d.t_state \in Early BY <1>6, <1>8, <5>1, <4>1, Spaces
        <5>2. CASE d.t_state \notin Early BY <1>3, <4>1, <5>2 DEF Buffered
        <5> QED BY <5>1, <5>2
      <4>4. R + w \in 0 .. R + TCP_MAXWIN /\ (R + w) + 1 = (R + 1) + w /\ R + w <= R + sbspace(e.rcv)
        BY <1>6, <2>3, <4>1, <4>3, Spaces
      <4> QED BY <4>1, <4>2, <4>4
    <3> QED BY <1>3, <3>1, <3>2 DEF Offering
  <2>5. e.irs = d.irs /\ e.rnxt = d.rnxt BY <1>3 DEF Same
  <2> QED BY <1>4, <2>3, <2>4, <2>5 DEF Numbered
<1>10. ASSUME d.t_state \in Early PROVE Beginning(e)
  BY <1>1, <1>3, <1>4, <1>8, <1>10 DEF Opened, Beginning, Same
<1>11. ASSUME Estab(d) PROVE Flowing(e, gu)
  <2>1. e.rcv = d.rcv BY <1>3, <1>11, States DEF Buffered, Estab
  <2>2. \A q : PieceOK(q, e, gu) <=> PieceOK(q, d, gu) BY <1>3, <1>4, <2>1 DEF PieceOK, Same
  <2>3. Flowing(d, gu) BY <1>1, <1>11 DEF Opened
  <2> QED BY <1>3, <1>4, <2>1, <2>2, <2>3 DEF Flowing, Ended, Same
<1>12. Linked(e, gu)
  <2>1. Estab(d) => e.rcv = d.rcv BY <1>3, States DEF Buffered, Estab
  <2>2. Linked(d, gu) BY <1>1 DEF Opened
  <2> QED BY <1>3, <1>4, <1>5, <2>1, <2>2 DEF Linked, Old, Same
<1>13. Opened(e, gu)
  BY <1>1, <1>2, <1>3, <1>5, <1>9, <1>10, <1>11, <1>12 DEF Opened, Same
<1>14. Rx(e, gu) BY <1>1, <1>3, <1>13 DEF Rx, Same
<1>15. Listed(e.out) /\ (Plain(e.out) \/ (e.open /\ e.t_state \in Early))
  BY <1>1, <1>3, ReadyIsDone DEF Sending, Same, Done
<1> QED BY <1>3, <1>14, <1>15 DEF Done, e

\* a connection that stands
Up(d, gu) == Ready(d, gu) /\ d.open /\ Estab(d)

LEMMA UpIs ==
  ASSUME NEW d, NEW gu, Up(d, gu)
  PROVE  /\ IsConn(d) /\ d.open = TRUE /\ Plain(d.out) /\ HostOK(d.h, gu) /\ Sound(d)
         /\ Numbered(d, gu) /\ Flowing(d, gu) /\ Linked(d, gu) /\ Opened(d, gu)
         /\ d.t_state \in TCPS_ESTABLISHED .. TCPS_TIME_WAIT /\ d.t_state \notin Early
         /\ Synced(d) /\ Estab(d) /\ Rx(d, gu)
<1>1. Ready(d, gu) /\ d.open /\ Estab(d) BY DEF Up
<1>2. Rx(d, gu) /\ Plain(d.out) BY <1>1 DEF Ready
<1>3. IsConn(d) /\ d.open = TRUE /\ HostOK(d.h, gu) /\ Opened(d, gu) BY <1>1, <1>2 DEF Rx
<1>4. Sound(d) /\ d.t_state \in TCPS_SYN_SENT .. TCPS_TIME_WAIT /\ Linked(d, gu) BY <1>3 DEF Opened
<1>5. d.t_state \in TCPS_ESTABLISHED .. TCPS_TIME_WAIT /\ d.t_state \notin Early /\ Synced(d)
  BY <1>1, <1>4, States DEF Estab, Synced
<1> QED BY <1>1, <1>2, <1>3, <1>4, <1>5 DEF Opened

AfterFin == {TCPS_CLOSE_WAIT, TCPS_CLOSING, TCPS_LAST_ACK, TCPS_TIME_WAIT}

\* The state moves, the socket's state and the host's.
LEMMA UpMoves ==
  ASSUME NEW d, NEW e, NEW gu, Up(d, gu), IsConn(e),
         e.open = d.open, e.rnxt = d.rnxt, e.adv = d.adv, e.irs = d.irs, e.seg = d.seg, e.rcv = d.rcv,
         e.out = d.out, e.t_state \in TCPS_ESTABLISHED .. TCPS_TIME_WAIT,
         e.t_state \in AfterFin => Ended(d, gu), d.t_state = TCPS_TIME_WAIT => e.t_state = TCPS_TIME_WAIT,
         HostOK(e.h, gu), e.h.got = d.h.got, d.h.dead => e.h.dead, e.h.dead => e.h.cut,
         "ISFCONNECTING" \in e.so_state => "ISFCONNECTING" \in d.so_state,
         "FWDRAIN" \in e.so_state => Ended(d, gu),
         e.so_state \cap {"FCANTSENDMORE", "NOFDREF"} # {} => e.h.dead \/ Ended(d, gu)
  PROVE  Up(e, gu) /\ Received(e) = Received(d)
<1>1. /\ IsConn(d) /\ d.open = TRUE /\ Plain(d.out) /\ Sound(d)
      /\ Numbered(d, gu) /\ Flowing(d, gu) /\ Linked(d, gu) /\ Opened(d, gu)
      /\ d.t_state \in TCPS_ESTABLISHED .. TCPS_TIME_WAIT
      /\ Synced(d) /\ Estab(d)
  BY UpIs
<1>2. Received(e) = Received(d) BY DEF Received
<1>3. Synced(e) /\ Estab(e) /\ e.t_state \notin Early /\ e.t_state \in TCPS_SYN_SENT .. TCPS_TIME_WAIT
      /\ e.t_state \in TCPS_CLOSED .. TCPS_TIME_WAIT
  BY States DEF Synced, Estab
<1>4. Sound(e) BY <1>1, <1>3 DEF Sound
<1>5. Numbered(e, gu) BY <1>1, <1>2 DEF Numbered
<1>6. \A q : PieceOK(q, e, gu) <=> PieceOK(q, d, gu) BY <1>2 DEF PieceOK
<1>7. Ended(e, gu) <=> Ended(d, gu) BY <1>2 DEF Ended
<1>8. Flowing(e, gu) BY <1>1, <1>2, <1>6, <1>7 DEF Flowing, AfterFin
<1>9. Linked(e, gu) BY <1>1, <1>2, <1>3 DEF Linked, Old
<1>10. Opened(e, gu) BY <1>3, <1>4, <1>5, <1>8, <1>9 DEF Opened
<1>11. e.open = TRUE BY <1>1
<1>12. Rx(e, gu) BY <1>10, <1>11 DEF Rx
<1> QED BY <1>1, <1>2, <1>3, <1>11, <1>12 DEF Up, Ready

LEMMA AsideUp ==
  ASSUME NEW d, NEW e, NEW gu, Up(d, gu), Aside(d, e)
  PROVE  Up(e, gu) /\ Received(e) = Received(d)
<1>1. Ready(e, gu) BY AsideReady DEF Up
<1> QED BY <1>1 DEF Up, Aside, Same, Estab, Received

\* one place has one number
LEMMA PlaceIs ==
  ASSUME NEW a \in Numbers, NEW p \in 0 .. Half - 1, NEW q \in 0 .. Half - 1, Plus(a, p) = Plus(a, q)
  PROVE  p = q
<1>1. Diff(Plus(a, p), Plus(a, q)) = p - q BY Spaces, DiffIs
<1>2. Diff(Plus(a, q), Plus(a, q)) = q - q BY Spaces, DiffIs
<1> QED BY <1>1, <1>2

-----------------------------------------------------------------------------
(* The text.                                                               *)

\* part of what is placed
LEMMA PlacedPart ==
  ASSUME NEW a \in Numbers, NEW m \in 0 .. Half - 2, NEW seq, NEW data, NEW p, Placed(seq, data, a, p, m),
         NEW n \in 0 .. Len(data), NEW l \in n .. Len(data)
  PROVE  /\ Placed(Plus(seq, n), SubSeq(data, n + 1, l), a, p + n, m)
         /\ Len(SubSeq(data, n + 1, l)) = l - n
         /\ n = 0 => Placed(seq, SubSeq(data, n + 1, l), a, p, m)
<1>1. p \in 0 .. m /\ seq = Plus(a, p + 1) /\ data \in Seq(Int) /\ p + Len(data) <= m
      /\ \A i \in 1 .. Len(data) : data[i] = p + i
  BY DEF Placed
<1>2. Len(data) \in Nat BY <1>1
<1> DEFINE part == SubSeq(data, n + 1, l)
<1>3. part \in Seq(Int) /\ Len(part) = l - n /\ \A i \in 1 .. l - n : part[i] = data[n + i]
  BY <1>1, <1>2
<1> HIDE DEF part
<1>4. Plus(seq, n) = Plus(a, (p + n) + 1)
  <2>1. Plus(seq, n) = Plus(a, (p + 1) + n) BY <1>1, <1>2, PlusPlus, Spaces
  <2>2. (p + 1) + n = (p + n) + 1 BY <1>1, <1>2
  <2> QED BY <2>1, <2>2
<1>5. ASSUME NEW i \in 1 .. l - n PROVE part[i] = (p + n) + i BY <1>1, <1>2, <1>3
<1>6. p + n \in 0 .. m /\ (p + n) + Len(part) <= m BY <1>1, <1>2, <1>3
<1>7. Placed(Plus(seq, n), part, a, p + n, m) BY <1>3, <1>4, <1>5, <1>6 DEF Placed
<1>8. n = 0 => Placed(seq, part, a, p, m)
  <2>1. n = 0 => (p + n) = p BY <1>1
  <2>2. n = 0 => Plus(a, (p + n) + 1) = seq BY <1>1, <2>1
  <2> QED BY <1>4, <1>7, <2>1, <2>2
<1> QED BY <1>3, <1>7, <1>8 DEF part

LEMMA Regroup ==
  ASSUME NEW a \in Int, NEW b \in Int, NEW r \in Int, r = a + b, NEW n \in Int, NEW i \in Int
  PROVE  r + (n + i) = (a + n) + b + i
OBVIOUS

LEMMA Replace ==
  ASSUME NEW p \in Int, NEW n \in Int, NEW l \in Int, NEW m, m = l - n
  PROVE  (p + n) + m = p + l
OBVIOUS

LEMMA LeastIs ==
  ASSUME NEW a \in Int, NEW b \in Int
  PROVE  Least(a, b) \in Int /\ (a <= b => Least(a, b) = a) /\ (b <= a => Least(a, b) = b)
BY DEF Least

LEMMA Joined ==
  ASSUME NEW s \in Seq(Int), NEW t \in Seq(Int)
  PROVE  /\ s \o t \in Seq(Int) /\ Len(s \o t) = Len(s) + Len(t) /\ Len(s) \in Nat /\ Len(t) \in Nat
         /\ \A i \in 1 .. Len(s) : (s \o t)[i] = s[i]
         /\ \A i \in Len(s) + 1 .. Len(s) + Len(t) : (s \o t)[i] = t[i - Len(s)]
OBVIOUS

\* n of the bytes are written to the host, the others kept
Appended(d, e, bytes, n) ==
  /\ e.rcv = sbappendsb(d.rcv, SubSeq(bytes, n + 1, Len(bytes)))
  /\ e.h = [d.h EXCEPT !.got = @ \o SubSeq(bytes, 1, n), !.room = @ - n]
  /\ n \in 0 .. Len(bytes) /\ n <= d.h.room /\ (n > 0 => d.rcv.cc = 0 /\ ~d.h.dead)
\* what neither the receiver's buffer nor the host is part of
Besides(d, e) ==
  /\ IsConn(e) /\ e.open = d.open /\ e.t_state = d.t_state /\ e.so_state = d.so_state /\ e.so_m = d.so_m
  /\ e.adv = d.adv /\ e.irs = d.irs /\ e.out = d.out

Appending(d, e, bytes) ==
  Besides(d, e) /\ e.rnxt = d.rnxt /\ e.seg = d.seg /\ \E n \in 0 .. Len(bytes) : Appended(d, e, bytes, n)

LEMMA AppendIs ==
  ASSUME NEW d, IsConn(d), NEW gu, HostOK(d.h, gu), NEW bytes \in Seq(Int)
  PROVE  Appending(d, sbappend(d, bytes), bytes)
<1> DEFINE n == IF d.rcv.cc # 0 \/ d.h.dead THEN 0 ELSE Least(d.h.room, Len(bytes))
           e == sbappend(d, bytes)
<1>1. /\ n \in 0 .. Len(bytes) /\ n <= d.h.room /\ (n > 0 => d.rcv.cc = 0 /\ ~d.h.dead)
  BY DEF HostOK, Least
<1>2. e = [d EXCEPT !.h.got = @ \o SubSeq(bytes, 1, n), !.h.room = @ - n,
                    !.rcv = sbappendsb(@, SubSeq(bytes, n + 1, Len(bytes)))]
  BY DEF sbappend
<1> HIDE DEF n, e
<1>3. /\ Besides(d, e) /\ e.rnxt = d.rnxt /\ e.seg = d.seg
      /\ e.rcv = sbappendsb(d.rcv, SubSeq(bytes, n + 1, Len(bytes)))
      /\ e.h = [d.h EXCEPT !.got = @ \o SubSeq(bytes, 1, n), !.room = @ - n]
  <2> DEFINE rcv == sbappendsb(d.rcv, SubSeq(bytes, n + 1, Len(bytes)))
             got == d.h.got \o SubSeq(bytes, 1, n)
             h == [d.h EXCEPT !.got = got, !.room = @ - n]
  <2>1. e = [d EXCEPT !.h = h, !.rcv = rcv] BY <1>2 DEF IsConn, Fields
  <2>2. h = [d.h EXCEPT !.got = @ \o SubSeq(bytes, 1, n), !.room = @ - n] BY DEF HostOK, HostFields
  <2> HIDE DEF rcv, h
  <2>3. Besides(d, e) /\ e.rnxt = d.rnxt /\ e.seg = d.seg /\ e.rcv = rcv /\ e.h = h
    BY <2>1 DEF Besides, IsConn, Fields
  <2> QED BY <2>2, <2>3 DEF rcv
<1> QED BY <1>1, <1>3 DEF Appending, Appended, e

\* bytes are what comes next in the stream, and go to the buffer, or nowhere
Next1(d, e, bytes, gu) ==
  /\ Placed(d.rnxt, bytes, d.irs, Received(d), Length(gu)) /\ Len(bytes) <= sbspace(d.rcv)
  /\ Besides(d, e) /\ e.rnxt = Plus(d.rnxt, Len(bytes))
  /\ e.seg \in Seq(Pieces) /\ \A i \in 1 .. Len(e.seg) : PieceOK(e.seg[i], d, gu)
  /\ \/ \E n \in 0 .. Len(bytes) : Appended(d, e, bytes, n)
     \/ "FCANTSENDMORE" \in d.so_state /\ e.rcv = d.rcv /\ e.h = d.h

\* What comes next in the stream is taken over.
LEMMA Accepts ==
  ASSUME NEW d, NEW e, NEW gu, IsGuest(gu), Up(d, gu), gu.estab,
         NEW bytes, Next1(d, e, bytes, gu)
  PROVE  Up(e, gu) /\ Received(e) = Received(d) + Len(bytes)
<1> DEFINE R == Received(d)
           N == Len(bytes)
           G == Len(d.h.got)
<1>0. /\ Placed(d.rnxt, bytes, d.irs, R, Length(gu)) /\ N <= sbspace(d.rcv)
      /\ Besides(d, e) /\ e.rnxt = Plus(d.rnxt, N)
      /\ e.seg \in Seq(Pieces) /\ \A i \in 1 .. Len(e.seg) : PieceOK(e.seg[i], d, gu)
      /\ \/ \E n \in 0 .. N : Appended(d, e, bytes, n)
         \/ "FCANTSENDMORE" \in d.so_state /\ e.rcv = d.rcv /\ e.h = d.h
  BY DEF Next1
<1>1. /\ IsConn(d) /\ d.open = TRUE /\ Plain(d.out) /\ HostOK(d.h, gu) /\ Sound(d)
      /\ Numbered(d, gu) /\ Flowing(d, gu) /\ Linked(d, gu) /\ Opened(d, gu)
      /\ d.t_state \in TCPS_ESTABLISHED .. TCPS_TIME_WAIT /\ d.t_state \notin Early /\ Synced(d) /\ Estab(d)
  BY UpIs
<1>2. /\ IsConn(e) /\ e.open = d.open /\ e.t_state = d.t_state /\ e.so_state = d.so_state
      /\ e.adv = d.adv /\ e.irs = d.irs /\ e.out = d.out
  BY <1>0 DEF Besides
<1>3. R \in 0 .. Length(gu) /\ bytes \in Seq(Int) /\ R + N <= Length(gu) /\ N \in Nat
      /\ \A i \in 1 .. N : bytes[i] = R + i
  BY <1>0 DEF Placed
<1>4. Length(gu) \in Nat /\ Length(gu) + (SPACE + MSS + 2) < Half BY DEF IsGuest
<1>5. d.irs \in Numbers /\ d.rnxt = Plus(d.irs, R + 1) BY <1>1 DEF Numbered
<1> HIDE DEF R, N, G
<1>6. e.rnxt = Plus(d.irs, (R + N) + 1)
  <2>0. R + 1 \in -1 .. Half /\ N \in -1 .. Half /\ (R + 1) + N \in -1 .. Half BY <1>3, <1>4, Spaces
  <2>1. Plus(Plus(d.irs, R + 1), N) = Plus(d.irs, (R + 1) + N) BY <1>5, <2>0, PlusPlus
  <2>2. (R + 1) + N = (R + N) + 1 BY <1>3
  <2> QED BY <1>0, <1>5, <2>1, <2>2
<1>7. Received(e) = R + N
  <2>1. R + N \in -1 .. Half - 2 BY <1>3, <1>4, Spaces
  <2> QED BY <1>2, <1>5, <1>6, <2>1, ReceivedIs
<1>8. ~Ended(d, gu) /\ ~Ended(e, gu) BY <1>3, <1>4, <1>7 DEF Ended, R
<1>9. sbspace(d.rcv) \in 0 .. SPACE + MSS BY <1>1, BufferSpace DEF Sound
<1>10. /\ Ring(e.rcv) /\ sbspace(e.rcv) \in Int /\ sbspace(e.rcv) + N >= sbspace(d.rcv)
       /\ HostOK(e.h, gu) /\ e.h.dead = d.h.dead /\ e.h.cut = d.h.cut
       /\ ~e.h.dead => Holds(e.rcv, Len(e.h.got)) /\ Len(e.h.got) + e.rcv.cc = R + N
  <2>1. CASE "FCANTSENDMORE" \in d.so_state /\ e.rcv = d.rcv /\ e.h = d.h
    <3>1. d.h.dead
      <4>1. d.so_state \cap {"FCANTSENDMORE", "NOFDREF"} # {} BY <2>1
      <4> QED BY <1>1, <1>8, <4>1 DEF Flowing
    <3> QED BY <1>1, <1>3, <1>9, <2>1, <3>1 DEF Sound
  <2>2. CASE \E n \in 0 .. N : Appended(d, e, bytes, n)
    <3>1. PICK n \in 0 .. N : Appended(d, e, bytes, n) BY <2>2
    <3> DEFINE rest == SubSeq(bytes, n + 1, N)
               first == SubSeq(bytes, 1, n)
    <3>2. /\ rest \in Seq(Int) /\ Len(rest) = N - n /\ \A i \in 1 .. N - n : rest[i] = bytes[n + i]
          /\ first \in Seq(Int) /\ Len(first) = n /\ \A i \in 1 .. n : first[i] = bytes[i]
      BY <1>3 DEF N
    <3>3. /\ e.rcv = sbappendsb(d.rcv, rest) /\ e.h = [d.h EXCEPT !.got = @ \o first, !.room = @ - n]
          /\ n <= d.h.room /\ (n > 0 => d.rcv.cc = 0 /\ ~d.h.dead)
      BY <3>1 DEF Appended, N
    <3> HIDE DEF rest, first
    <3>4. Ring(d.rcv) /\ Len(rest) <= sbspace(d.rcv) BY <1>0, <1>1, <1>3, <1>9, <3>2 DEF Sound
    <3>5. /\ Ring(e.rcv) /\ e.rcv.cc = d.rcv.cc + (N - n) /\ e.rcv.datalen = d.rcv.datalen
          /\ \A k \in Int : Holds(d.rcv, k) /\ (\A i \in 1 .. Len(rest) : rest[i] = k + d.rcv.cc + i)
                              => Holds(e.rcv, k)
      BY <3>2, <3>3, <3>4, RingAppend
    <3>6. d.rcv.cc \in Nat /\ d.rcv.datalen \in Nat BY <3>4, Spaces DEF Ring
    <3>7. sbspace(e.rcv) \in Int /\ sbspace(e.rcv) + N >= sbspace(d.rcv)
      BY <1>3, <3>5, <3>6 DEF sbspace
    <3>8. /\ e.h = [f \in HostFields |-> e.h[f]] /\ e.h.dead = d.h.dead /\ e.h.cut = d.h.cut /\ e.h.eof = d.h.eof
          /\ e.h.got = d.h.got \o first /\ e.h.room = d.h.room - n
      BY <1>1, <3>3 DEF HostOK, HostFields
    <3>9. /\ G \in Nat /\ d.h.got \in Seq(Int) /\ Len(e.h.got) = G + n /\ e.h.got \in Seq(Int)
          /\ \A i \in 1 .. G : e.h.got[i] = d.h.got[i]
          /\ \A i \in G + 1 .. G + n : e.h.got[i] = first[i - G]
      <4>1. d.h.got \in Seq(Int) BY <1>1 DEF HostOK
      <4>2. Len(first) = n /\ first \in Seq(Int) /\ e.h.got = d.h.got \o first BY <3>2, <3>8
      <4>3. /\ d.h.got \o first \in Seq(Int) /\ Len(d.h.got \o first) = Len(d.h.got) + Len(first)
            /\ Len(d.h.got) \in Nat
            /\ \A i \in 1 .. Len(d.h.got) : (d.h.got \o first)[i] = d.h.got[i]
            /\ \A i \in Len(d.h.got) + 1 .. Len(d.h.got) + Len(first) :
                 (d.h.got \o first)[i] = first[i - Len(d.h.got)]
        BY <4>1, <4>2, Joined, Zenon
      <4> QED BY <4>1, <4>2, <4>3, Zenon DEF G
    <3>10. ~d.h.dead => Holds(d.rcv, G) /\ G + d.rcv.cc = R
      <4>1. Least(R, Length(gu)) = R
        <5>1. R \in Int /\ Length(gu) \in Int /\ R <= Length(gu) BY <1>3, <1>4
        <5> QED BY <5>1, LeastIs
      <4> QED BY <1>1, <4>1 DEF Flowing, G, R
    <3>11. n > 0 => G = R /\ d.rcv.cc = 0 BY <3>3, <3>6, <3>9, <3>10
    <3>12. HostOK(e.h, gu)
      <4>1. ASSUME NEW i \in 1 .. G + n PROVE e.h.got[i] = i
        <5>1. CASE i <= G
          <6>1. i \in 1 .. G BY <3>9, <5>1
          <6>2. e.h.got[i] = d.h.got[i] BY <3>9, <6>1
          <6> QED BY <1>1, <6>1, <6>2 DEF HostOK, G
        <5>2. CASE i > G
          <6>1. i - G \in 1 .. n /\ n > 0 BY <3>9, <5>2
          <6>2. e.h.got[i] = first[i - G]
            <7>1. i \in G + 1 .. G + n BY <3>9, <5>2
            <7> QED BY <3>9, <7>1
          <6>3. i - G \in 1 .. N BY <1>3, <6>1
          <6>4. first[i - G] = R + (i - G) BY <1>3, <3>2, <6>1, <6>3
          <6>5. R + (i - G) = i BY <1>3, <3>9, <3>11, <6>1
          <6> QED BY <6>2, <6>4, <6>5
        <5> QED BY <3>9, <5>1, <5>2
      <4>2. G + n <= Length(gu) BY <1>1, <1>3, <1>4, <3>9, <3>11 DEF HostOK, G
      <4>3. e.h.eof /\ ~e.h.cut => G + n = Length(gu) /\ MayEnd(gu)
        <5>1. e.h.eof /\ ~e.h.cut => G = Length(gu) /\ MayEnd(gu) BY <1>1, <3>8 DEF HostOK, G
        <5> QED BY <1>4, <3>9, <4>2, <5>1
      <4>4. e.h.room \in Nat BY <1>1, <3>3, <3>8 DEF HostOK
      <4>5. e.h.dead \in BOOLEAN /\ e.h.eof \in BOOLEAN /\ e.h.cut \in BOOLEAN BY <1>1, <3>8 DEF HostOK
      <4> QED BY <3>8, <3>9, <4>1, <4>2, <4>3, <4>4, <4>5 DEF HostOK
    <3>13. ASSUME ~e.h.dead PROVE Holds(e.rcv, Len(e.h.got)) /\ Len(e.h.got) + e.rcv.cc = R + N
      <4>1. Holds(d.rcv, G) /\ G + d.rcv.cc = R BY <3>8, <3>10, <3>13
      <4>2. Holds(d.rcv, G + n)
        <5>1. CASE n = 0 BY <3>9, <4>1, <5>1
        <5>2. CASE n > 0 BY <3>11, <5>2 DEF Holds
        <5> QED BY <5>1, <5>2
      <4>3. ASSUME NEW i \in 1 .. N - n PROVE rest[i] = (G + n) + d.rcv.cc + i
        <5>1. rest[i] = bytes[n + i] /\ n + i \in 1 .. N BY <1>3, <3>2
        <5>2. bytes[n + i] = R + (n + i) BY <1>3, <5>1
        <5>3. R + (n + i) = (G + n) + d.rcv.cc + i
          <6>1. R \in Int /\ G \in Int /\ d.rcv.cc \in Int /\ n \in Int /\ i \in Int BY <1>3, <3>6, <3>9
          <6>2. R = G + d.rcv.cc BY <4>1
          <6> QED BY <6>1, <6>2, Regroup
        <5> QED BY <5>1, <5>2, <5>3
      <4>4. Holds(e.rcv, G + n) BY <3>2, <3>5, <3>9, <4>2, <4>3
      <4>5. (G + n) + (d.rcv.cc + (N - n)) = R + N
        <5>1. R \in Int /\ G \in Int /\ d.rcv.cc \in Int /\ n \in Int /\ N - n \in Int /\ n + (N - n) = N
          BY <1>3, <3>6, <3>9
        <5>2. R = G + d.rcv.cc BY <4>1
        <5>3. R + (n + (N - n)) = (G + n) + d.rcv.cc + (N - n) BY <5>1, <5>2, Regroup
        <5>4. (G + n) + d.rcv.cc + (N - n) = (G + n) + (d.rcv.cc + (N - n)) BY <5>1
        <5> QED BY <5>1, <5>3, <5>4
      <4> QED BY <3>5, <3>9, <4>4, <4>5
    <3> QED BY <3>5, <3>7, <3>8, <3>12, <3>13
  <2> QED BY <1>0, <2>1, <2>2
<1>11. Sound(e)
  <2>1. e.rnxt \in Numbers
    <3>1. d.irs \in Int /\ (R + N) + 1 \in Int BY <1>3, <1>5, Spaces DEF Numbers
    <3> QED BY <1>6, <3>1, PlusIn
  <2> QED BY <1>1, <1>2, <1>10, <2>1 DEF Sound
<1>12. Numbered(e, gu)
  <2>1. PICK a \in 0 .. R + TCP_MAXWIN : d.adv = Plus(d.irs, a + 1) /\ a <= R + sbspace(d.rcv)
    BY <1>1 DEF Numbered, R
  <2>2. a \in 0 .. (R + N) + TCP_MAXWIN /\ a <= (R + N) + sbspace(e.rcv)
    BY <1>3, <1>9, <1>10, <2>1, Spaces
  <2>3. R + N \in 0 .. Length(gu) + 1 BY <1>3, <1>4
  <2> QED BY <1>2, <1>5, <1>6, <1>7, <2>1, <2>2, <2>3 DEF Numbered
<1>13. ASSUME NEW q, PieceOK(q, d, gu) PROVE PieceOK(q, e, gu)
  <2>1. PICK p \in 0 .. Length(gu) : /\ Placed(q.seq, q.data, d.irs, p, Length(gu))
                                     /\ p + Len(q.data) <= R + sbspace(d.rcv)
                                     /\ q.fin => p + Len(q.data) = Length(gu) /\ MayEnd(gu)
    BY <1>13 DEF PieceOK, R
  <2>2. p + Len(q.data) <= (R + N) + sbspace(e.rcv)
    <3>1. Len(q.data) \in Nat BY <2>1 DEF Placed
    <3> QED BY <1>3, <1>9, <1>10, <2>1, <3>1
  <2> QED BY <1>2, <1>7, <2>1, <2>2 DEF PieceOK
<1>14. Flowing(e, gu)
  <2>1. Least(R + N, Length(gu)) = R + N
    <3>1. R + N \in Int /\ Length(gu) \in Int /\ R + N <= Length(gu) BY <1>3, <1>4
    <3> QED BY <3>1, LeastIs
  <2>2. \A i \in 1 .. Len(e.seg) : PieceOK(e.seg[i], e, gu) BY <1>0, <1>13
  <2> QED BY <1>0, <1>1, <1>2, <1>7, <1>8, <1>10, <2>1, <2>2 DEF Flowing
<1>15. Linked(e, gu)
  <2>1. gu.synced /\ gu.estab BY DEF IsGuest
  <2>2. Synced(e) => e.irs = First(gu) \/ Old(e, gu) BY <1>1, <1>2 DEF Linked, Old, Synced
  <2> QED BY <2>1, <2>2 DEF Linked
<1>16. Synced(e) /\ Estab(e) BY <1>1, <1>2 DEF Synced, Estab
<1>17. Opened(e, gu)
  <2>1. e.t_state \in TCPS_SYN_SENT .. TCPS_TIME_WAIT /\ e.t_state \notin Early BY <1>1, <1>2 DEF Opened
  <2> QED BY <1>11, <1>12, <1>14, <1>15, <2>1 DEF Opened
<1>18. Up(e, gu) BY <1>1, <1>2, <1>10, <1>16, <1>17 DEF Up, Ready, Rx
<1> QED BY <1>7, <1>18 DEF R, N

\* the recursion of tcp_reass's last part
Passes(d, p) ==
  LET q == Head(p[1].seg)
      e == [p[1] EXCEPT !.rnxt = Plus(@, Len(q.data)), !.seg = Tail(@)]
  IN  <<IF "FCANTSENDMORE" \in d.so_state THEN e ELSE sbappend(e, q.data), q.fin>>
Pass(d, f, i) ==
  IF i = 0 THEN <<d, FALSE>>
  ELSE IF f[i - 1][1].seg # <<>> /\ Head(f[i - 1][1].seg).seq = f[i - 1][1].rnxt
       THEN Passes(d, f[i - 1]) ELSE f[i - 1]
PassedOn(d, n, f) == f = [i \in 0 .. n |-> Pass(d, f, i)]

LEMMA PassesExist ==
  ASSUME NEW n \in Nat, NEW d
  PROVE  \E f : PassedOn(d, n, f)
<1> DEFINE S == {k \in 0 .. n : \E f : PassedOn(d, k, f)}
<1>1. 0 \in S
  <2> DEFINE h == [i \in 0 .. 0 |-> <<d, FALSE>>]
  <2>1. h = [i \in 0 .. 0 |-> Pass(d, h, i)] BY DEF Pass
  <2> HIDE DEF h
  <2> QED BY <2>1 DEF PassedOn
<1>2. ASSUME NEW k \in 0 .. n - 1, k \in S PROVE k + 1 \in S
  <2>1. PICK f : PassedOn(d, k, f) BY <1>2
  <2> DEFINE h == [i \in 0 .. k + 1 |-> Pass(d, f, i)]
  <2>2. \A i \in 0 .. k : h[i] = f[i] BY <2>1 DEF PassedOn
  <2>3. \A i \in 0 .. k + 1 : i # 0 => h[i - 1] = f[i - 1]
    <3> HIDE DEF h
    <3> QED BY <2>2
  <2>4. h = [i \in 0 .. k + 1 |-> Pass(d, h, i)] BY <2>3, Zenon DEF Pass
  <2>5. k + 1 \in 0 .. n OBVIOUS
  <2> QED BY <2>4, <2>5 DEF PassedOn
<1>3. n \in S
  <2> HIDE DEF S
  <2>1. 0 .. n \subseteq S BY <1>1, <1>2, UpTo
  <2> QED BY <2>1
<1> QED BY <1>3

LEMMA PresentIs ==
  ASSUME NEW d, Len(d.seg) \in Nat, TCPS_HAVEESTABLISHED(d.t_state)
  PROVE  \E f : PassedOn(d, Len(d.seg), f) /\ Present(d) = Astray(d, f[Len(d.seg)])
<1> DEFINE n == Len(d.seg)
           f == CHOOSE f : f = [i \in 0 .. n |->
                  IF i = 0 THEN <<d, FALSE>>
                  ELSE IF f[i - 1][1].seg # <<>> /\ Head(f[i - 1][1].seg).seq = f[i - 1][1].rnxt
                       THEN Passes(d, f[i - 1]) ELSE f[i - 1]]
<1>1. Present(d) = Astray(d, f[n])
  BY Zenon DEF Present, Passes
<1>2. f = CHOOSE ff : PassedOn(d, n, ff) BY DEF PassedOn, Pass
<1> HIDE DEF f
<1>3. PassedOn(d, n, f) BY <1>2, PassesExist
<1> QED BY <1>1, <1>3

\* where a pass of the loop may be
Passing(d, p, gu) ==
  /\ Up(p[1], gu) /\ p[1].so_state = d.so_state /\ p[1].t_state = d.t_state
  /\ p[2] => Received(p[1]) = Length(gu) /\ MayEnd(gu)

LEMMA Pass1 ==
  ASSUME NEW d, NEW p, NEW gu, IsGuest(gu), gu.estab, Passing(d, p, gu),
         p[1].seg # <<>>, Head(p[1].seg).seq = p[1].rnxt
  PROVE  Passing(d, Passes(d, p), gu)
<1> DEFINE b == p[1]
           q == Head(b.seg)
           e == [b EXCEPT !.rnxt = Plus(@, Len(q.data)), !.seg = Tail(@)]
           r == IF "FCANTSENDMORE" \in b.so_state THEN e ELSE sbappend(e, q.data)
<1>1. Passes(d, p) = <<r, q.fin>> BY DEF Passes, Passing
<1>2. Up(b, gu) /\ b.so_state = d.so_state /\ b.t_state = d.t_state BY DEF Passing
<1> HIDE DEF b
<1>3. IsConn(b) /\ HostOK(b.h, gu) /\ Numbered(b, gu) /\ Flowing(b, gu) BY <1>2, UpIs
<1>4. b.seg \in Seq(Pieces) /\ b.seg # <<>> /\ \A i \in 1 .. Len(b.seg) : PieceOK(b.seg[i], b, gu)
  BY <1>3 DEF Flowing, b
<1>5. /\ q = b.seg[1] /\ q \in Pieces /\ Tail(b.seg) \in Seq(Pieces) /\ 1 \in 1 .. Len(b.seg)
      /\ \A i \in 1 .. Len(Tail(b.seg)) : Tail(b.seg)[i] = b.seg[i + 1] /\ i + 1 \in 1 .. Len(b.seg)
  BY <1>4
<1>6. PieceOK(q, b, gu) /\ q.seq = b.rnxt BY <1>4, <1>5 DEF b
<1>7. q.data \in Seq(Int) /\ q.fin \in BOOLEAN BY <1>5 DEF Pieces
<1>8. \A i \in 1 .. Len(Tail(b.seg)) : PieceOK(Tail(b.seg)[i], b, gu) BY <1>4, <1>5
<1> HIDE DEF q
<1>9. PICK at \in 0 .. Length(gu) :
        /\ Placed(q.seq, q.data, b.irs, at, Length(gu)) /\ at + Len(q.data) <= Received(b) + sbspace(b.rcv)
        /\ q.fin => at + Len(q.data) = Length(gu) /\ MayEnd(gu)
  BY <1>6 DEF PieceOK
<1>10. Received(b) = at
  <2>1. q.seq = Plus(b.irs, at + 1) BY <1>9 DEF Placed
  <2>2. b.irs \in Numbers BY <1>3 DEF Numbered
  <2>3. at \in -1 .. Half - 2 BY Spaces DEF IsGuest
  <2> QED BY <1>6, <2>1, <2>2, <2>3, ReceivedIs
<1>11. Placed(b.rnxt, q.data, b.irs, Received(b), Length(gu)) BY <1>6, <1>9, <1>10
<1>12. Len(q.data) \in Nat /\ Len(q.data) <= sbspace(b.rcv)
  <2>1. sbspace(b.rcv) \in Int
    <3>1. Ring(b.rcv) BY <1>2, UpIs DEF Sound
    <3> QED BY <3>1, BufferSpace
  <2>2. Len(q.data) \in Nat BY <1>7
  <2> QED BY <1>9, <1>10, <2>1, <2>2
<1>13. /\ Besides(b, e) /\ e.rnxt = Plus(b.rnxt, Len(q.data)) /\ e.seg = Tail(b.seg) /\ e.rcv = b.rcv /\ e.h = b.h
       /\ IsConn(e)
  BY <1>3 DEF Besides, IsConn, Fields
<1> HIDE DEF e
<1>14. CASE "FCANTSENDMORE" \in b.so_state
  <2>1. r = e BY <1>14
  <2>2. Up(e, gu) /\ Received(e) = at + Len(q.data)
    <3>1. Next1(b, e, q.data, gu) BY <1>5, <1>8, <1>11, <1>12, <1>13, <1>14 DEF Next1
    <3> QED BY <1>2, <1>10, <3>1, Accepts
  <2> QED BY <1>1, <1>2, <1>9, <1>13, <2>1, <2>2 DEF Passing, Besides
<1>15. CASE "FCANTSENDMORE" \notin b.so_state
  <2>1. r = sbappend(e, q.data) BY <1>15
  <2>2. HostOK(e.h, gu) BY <1>3, <1>13
  <2> HIDE DEF r
  <2>8. Appending(e, sbappend(e, q.data), q.data) BY <1>7, <1>13, <2>2, AppendIs
  <2>3. /\ Besides(e, r) /\ r.rnxt = e.rnxt /\ r.seg = e.seg
        /\ \E n \in 0 .. Len(q.data) : Appended(e, r, q.data, n)
    BY <2>1, <2>8 DEF Appending
  <2>4. Besides(b, r) /\ r.rnxt = Plus(b.rnxt, Len(q.data)) /\ r.seg = Tail(b.seg)
    BY <1>13, <2>3 DEF Besides
  <2>5. \E n \in 0 .. Len(q.data) : Appended(b, r, q.data, n) BY <1>13, <2>3 DEF Appended
  <2>6. Up(r, gu) /\ Received(r) = at + Len(q.data)
    <3>1. Next1(b, r, q.data, gu) BY <1>5, <1>8, <1>11, <1>12, <2>4, <2>5 DEF Next1
    <3> QED BY <1>2, <1>10, <3>1, Accepts
  <2> QED BY <1>1, <1>2, <1>9, <2>4, <2>6 DEF Passing, Besides
<1> QED BY <1>14, <1>15

\* the connection and whether the stream has ended
Taken(d, r, gu) ==
  /\ r = <<r[1], r[2]>> /\ Up(r[1], gu) /\ r[1].t_state = d.t_state
  /\ r[2] => Received(r[1]) = Length(gu) /\ MayEnd(gu) /\ gu.estab

LEMMA PresentUp ==
  ASSUME NEW d, NEW gu, IsGuest(gu), Up(d, gu), gu.estab \/ d.seg = <<>>
  PROVE  /\ Taken(d, Present(d), gu)
         /\ d.seg = <<>> => Aside(d, Present(d)[1]) /\ Present(d)[2] = FALSE
<1> DEFINE n == Len(d.seg)
<1>1. n \in Nat BY UpIs DEF Flowing
<1>2. TCPS_HAVEESTABLISHED(d.t_state) BY UpIs DEF Estab, TCPS_HAVEESTABLISHED
<1>3. PICK f : PassedOn(d, n, f) /\ Present(d) = Astray(d, f[n]) BY <1>1, <1>2, PresentIs
<1>4. f = [i \in 0 .. n |-> Pass(d, f, i)] BY <1>3 DEF PassedOn
<1> DEFINE S == {i \in 0 .. n : Passing(d, f[i], gu)}
<1>5. d.seg = <<>> => n = 0 OBVIOUS
<1> HIDE DEF n
<1>6. f[0] = <<d, FALSE>> BY <1>1, <1>4 DEF Pass
<1>7. 0 \in S
  <2>1. f[0][1] = d /\ f[0][2] = FALSE BY <1>6
  <2>2. Passing(d, f[0], gu) BY <2>1 DEF Passing
  <2> QED BY <1>1, <2>2
<1>8. ASSUME NEW i \in 0 .. n - 1, i \in S PROVE i + 1 \in S
  <2>1. i + 1 \in 0 .. n /\ (i + 1) - 1 = i /\ i + 1 # 0 BY <1>1
  <2>2. f[i + 1] = IF f[i][1].seg # <<>> /\ Head(f[i][1].seg).seq = f[i][1].rnxt
                   THEN Passes(d, f[i]) ELSE f[i]
    <3>1. f[i + 1] = Pass(d, f, i + 1) BY <1>4, <2>1
    <3> QED BY <2>1, <3>1, Zenon DEF Pass
  <2>3. gu.estab BY <1>1, <1>5, <1>8
  <2>4. Passing(d, f[i], gu) BY <1>8
  <2>5. f[i][1].seg # <<>> /\ Head(f[i][1].seg).seq = f[i][1].rnxt => Passing(d, Passes(d, f[i]), gu)
    BY <2>3, <2>4, Pass1
  <2> QED BY <2>1, <2>2, <2>4, <2>5
<1>9. n \in S
  <2> HIDE DEF S
  <2>1. 0 .. n \subseteq S BY <1>1, <1>7, <1>8, UpTo
  <2> QED BY <1>1, <2>1
<1>10. Passing(d, f[n], gu) BY <1>9
<1> DEFINE b == f[n][1]
           a == [b EXCEPT !.astray = d.seg # <<>> /\ b.seg = <<>> /\ b.rnxt = 0]
<1>11. Present(d) = <<a, f[n][2]>> BY <1>3 DEF Astray
<1>12. Up(b, gu) /\ b.t_state = d.t_state /\ (f[n][2] => Received(b) = Length(gu) /\ MayEnd(gu))
  BY <1>10 DEF Passing
<1>13. d.seg = <<>> => b = d /\ f[n][2] = FALSE
  <2>1. f[0][1] = d /\ f[0][2] = FALSE BY <1>6
  <2> QED BY <1>5, <2>1
<1> HIDE DEF b
<1>14. Aside(b, a)
  <2> DEFINE x == d.seg # <<>> /\ b.seg = <<>> /\ b.rnxt = 0
  <2>1. IsConn(b) BY <1>12, UpIs
  <2> HIDE DEF x
  <2> QED BY <2>1 DEF Aside, Same, IsConn, Fields
<1> HIDE DEF a
<1>15. Up(a, gu) /\ Received(a) = Received(b) /\ a.t_state = d.t_state
  BY <1>12, <1>14, AsideUp DEF Aside, Same
<1>16. f[n][2] => gu.estab BY <1>13
<1> QED BY <1>11, <1>12, <1>13, <1>14, <1>15, <1>16 DEF Taken

-----------------------------------------------------------------------------
(* The reassembly queue.                                                   *)

\* what is left of s lies in the window
InWindow(d, s, gu) ==
  \E p \in 0 .. Length(gu) :
    /\ Placed(s.seq, s.data, d.irs, p, Length(gu)) /\ p + Len(s.data) <= Received(d) + sbspace(d.rcv)
    /\ Has(s, "FIN") => p + Len(s.data) = Length(gu) /\ gu.fin
Waiting(d, gu) == {q \in Pieces : PieceOK(q, d, gu)}
Queued(d, e, gu) == e.seg \in Seq(Waiting(d, gu)) /\ \E seg : e = [d EXCEPT !.seg = seg]

LEMMA DiffIn ==
  ASSUME NEW a \in Int, NEW b \in Int
  PROVE  Diff(a, b) \in Int
<1>1. UDiff(a, b) \in Int BY PlusIn, Spaces DEF Numbers
<1> QED BY <1>1, Spaces DEF Diff

LEMMA Ample ==
  ASSUME NEW gu, IsGuest(gu)
  PROVE  Length(gu) \in Nat /\ Length(gu) \in 0 .. Half - 2 /\ Half \in Nat /\ First(gu) \in Numbers
BY Spaces DEF IsGuest

LEMMA Recut ==
  ASSUME NEW q, NEW a, NEW b, q = [seq |-> q.seq, data |-> q.data, fin |-> q.fin]
  PROVE  [q EXCEPT !.seq = a, !.data = b] = [seq |-> a, data |-> b, fin |-> q.fin]
<1> DEFINE e == [q EXCEPT !.seq = a, !.data = b]
<1>1. DOMAIN e = DOMAIN q OBVIOUS
<1>2. DOMAIN q = {"seq", "data", "fin"} OBVIOUS
<1>3. e.seq = a /\ e.data = b /\ e.fin = q.fin BY <1>2
<1>4. e = [f \in {"seq", "data", "fin"} |-> e[f]] BY <1>1, <1>2
<1> HIDE DEF e
<1>5. e = [seq |-> e.seq, data |-> e.data, fin |-> e.fin] BY <1>4
<1> QED BY <1>3, <1>5 DEF e

\* the back of a piece
LEMMA PieceBack ==
  ASSUME NEW d, NEW gu, IsGuest(gu), d.irs \in Numbers, NEW q \in Waiting(d, gu), NEW n \in 0 .. Len(q.data)
  PROVE  TrimFront(q, n) \in Waiting(d, gu)
<1> DEFINE t == [q EXCEPT !.seq = Plus(@, n), !.data = SubSeq(@, n + 1, Len(@))]
<1>1. q \in Pieces /\ PieceOK(q, d, gu) BY DEF Waiting
<1>2. q.seq \in Numbers /\ q.data \in Seq(Int) /\ q.fin \in BOOLEAN
      /\ q = [seq |-> q.seq, data |-> q.data, fin |-> q.fin]
  BY <1>1 DEF Pieces
<1>3. PICK p \in 0 .. Length(gu) :
        /\ Placed(q.seq, q.data, d.irs, p, Length(gu)) /\ p + Len(q.data) <= Received(d) + sbspace(d.rcv)
        /\ q.fin => p + Len(q.data) = Length(gu) /\ MayEnd(gu)
  BY <1>1 DEF PieceOK
<1>4. t = [seq |-> Plus(q.seq, n), data |-> SubSeq(q.data, n + 1, Len(q.data)), fin |-> q.fin]
  <2> DEFINE seq == Plus(q.seq, n)
             data == SubSeq(q.data, n + 1, Len(q.data))
  <2>1. t = [q EXCEPT !.seq = seq, !.data = data] BY <1>2
  <2> HIDE DEF seq, data, t
  <2>2. t = [seq |-> seq, data |-> data, fin |-> q.fin] BY <1>2, <2>1, Recut
  <2> QED BY <2>2 DEF seq, data
<1>5. t.seq = Plus(q.seq, n) /\ t.data = SubSeq(q.data, n + 1, Len(q.data)) /\ t.fin = q.fin BY <1>4
<1> HIDE DEF t
<1>6. Len(q.data) \in n .. Len(q.data) /\ Len(q.data) \in Nat BY <1>2
<1>7. Placed(t.seq, t.data, d.irs, p + n, Length(gu)) /\ Len(t.data) = Len(q.data) - n
  BY <1>3, <1>5, <1>6, PlacedPart, Ample
<1>8. t \in Pieces
  <2>1. t.seq \in Numbers
    <3>1. q.seq \in Int /\ n \in Int BY <1>2, Spaces DEF Numbers
    <3> QED BY <1>5, <3>1, PlusIn
  <2>2. t.data \in Seq(Int) BY <1>7 DEF Placed
  <2>3. t = [seq |-> t.seq, data |-> t.data, fin |-> t.fin] BY <1>4, <1>5
  <2> QED BY <1>2, <1>5, <2>1, <2>2, <2>3 DEF Pieces
<1>9. (p + n) + Len(t.data) = p + Len(q.data)
  <2> DEFINE l == Len(q.data)
             m == Len(t.data)
  <2>1. p \in Int /\ n \in Int /\ l \in Int /\ m = l - n BY <1>6, <1>7
  <2> HIDE DEF l, m
  <2>2. (p + n) + m = p + l BY <2>1, Replace
  <2> QED BY <2>2 DEF l, m
<1>10. p + n \in 0 .. Length(gu) BY <1>7 DEF Placed
<1>11. PieceOK(t, d, gu) BY <1>3, <1>5, <1>7, <1>9, <1>10 DEF PieceOK
<1> QED BY <1>8, <1>11 DEF Waiting, TrimFront, t

LEMMA SegBack ==
  ASSUME NEW d, NEW gu, IsGuest(gu), d.irs \in Numbers, NEW s, IsSeg(s), InWindow(d, s, gu),
         NEW n \in 0 .. Len(s.data)
  PROVE  IsSeg(TrimFront(s, n)) /\ InWindow(d, TrimFront(s, n), gu)
<1> DEFINE t == [s EXCEPT !.seq = Plus(@, n), !.data = SubSeq(@, n + 1, Len(@))]
<1>1. PICK p \in 0 .. Length(gu) :
        /\ Placed(s.seq, s.data, d.irs, p, Length(gu)) /\ p + Len(s.data) <= Received(d) + sbspace(d.rcv)
        /\ Has(s, "FIN") => p + Len(s.data) = Length(gu) /\ gu.fin
  BY DEF InWindow
<1>2. IsSeg(t) /\ t.seq = Plus(s.seq, n) /\ t.data = SubSeq(s.data, n + 1, Len(s.data)) /\ t.flags = s.flags
  BY DEF IsSeg, SegFields
<1> HIDE DEF t
<1>3. Len(s.data) \in n .. Len(s.data) /\ Len(s.data) \in Nat BY <1>1 DEF Placed
<1>4. Placed(t.seq, t.data, d.irs, p + n, Length(gu)) /\ Len(t.data) = Len(s.data) - n
  BY <1>1, <1>2, <1>3, PlacedPart, Ample
<1>5. (p + n) + Len(t.data) = p + Len(s.data)
  <2> DEFINE l == Len(s.data)
             m == Len(t.data)
  <2>1. p \in Int /\ n \in Int /\ l \in Int /\ m = l - n BY <1>3, <1>4
  <2> HIDE DEF l, m
  <2>2. (p + n) + m = p + l BY <2>1, Replace
  <2> QED BY <2>2 DEF l, m
<1>6. p + n \in 0 .. Length(gu) BY <1>4 DEF Placed
<1>7. InWindow(d, t, gu) BY <1>1, <1>2, <1>4, <1>5, <1>6 DEF InWindow, Has
<1> QED BY <1>2, <1>7 DEF TrimFront, t

\* What Insert makes of the queue is what may wait there.
LEMMA InsertOK ==
  ASSUME NEW d, NEW gu, IsGuest(gu), IsConn(d), d.irs \in Numbers, d.seg \in Seq(Waiting(d, gu)),
         NEW s, InWindow(d, s, gu), NEW before \in 0 .. Len(d.seg)
  PROVE  Queued(d, Insert(d, s, before), gu)
<1> DEFINE q == d.seg
           X == Waiting(d, gu)
           Over(i) == Diff(Plus(s.seq, Len(s.data)), q[i].seq)
           Covered(i) == Over(i) > 0 /\ Over(i) >= Len(q[i].data)
           Cut(i) == IF Over(i) > 0 THEN <<TrimFront(q[i], Over(i))>> ELSE <<q[i]>>
           T == [i \in 1 .. Len(q) - before |-> before + i]
           I == {i \in 1 .. Len(T) : ~Covered(T[i])}
           after == IF I # {} THEN Min(I) ELSE 0
           Rest(i) == Cut(i) \o SubSeq(q, i + 1, Len(q))
           new == [seq |-> s.seq, data |-> s.data, fin |-> Has(s, "FIN")]
           seg == SubSeq(q, 1, before) \o <<new>> \o (IF after = 0 THEN <<>> ELSE Rest(before + after))
<1>1. Insert(d, s, before) = [d EXCEPT !.seg = seg]
  BY Zenon DEF Insert, SelectInSeq
<1>2. PICK p \in 0 .. Length(gu) :
        /\ Placed(s.seq, s.data, d.irs, p, Length(gu)) /\ p + Len(s.data) <= Received(d) + sbspace(d.rcv)
        /\ Has(s, "FIN") => p + Len(s.data) = Length(gu) /\ gu.fin
  BY DEF InWindow
<1>3. new \in X
  <2>1. s.data \in Seq(Int) /\ s.seq = Plus(d.irs, p + 1) BY <1>2 DEF Placed
  <2>2. s.seq \in Numbers
    <3>1. d.irs \in Int /\ p + 1 \in Int BY Spaces DEF Numbers
    <3> QED BY <2>1, <3>1, PlusIn
  <2>3. new \in Pieces BY <2>1, <2>2 DEF Pieces, Has
  <2>4. new.seq = s.seq /\ new.data = s.data /\ new.fin = Has(s, "FIN") OBVIOUS
  <2> HIDE DEF new
  <2>5. PieceOK(new, d, gu) BY <1>2, <2>4 DEF PieceOK, MayEnd
  <2> QED BY <2>3, <2>5 DEF Waiting
<1> HIDE DEF new
<1>4. q \in Seq(X) /\ Len(q) \in Nat /\ before \in Nat OBVIOUS
<1> HIDE DEF q, X
<1>5. SubSeq(q, 1, before) \in Seq(X) BY <1>4 DEF q
<1>6. Len(q) - before \in Nat /\ Len(T) = Len(q) - before
  <2>1. Len(q) - before \in Nat BY <1>4 DEF q
  <2> QED BY <2>1
<1>7. after = 0 \/ (after \in I /\ before + after \in 1 .. Len(q) /\ ~Covered(before + after))
  <2>1. CASE I = {} BY <2>1
  <2>2. CASE I # {}
    <3>1. I \in SUBSET Nat BY <1>6
    <3> HIDE DEF I
    <3>2. \E x \in I : \A y \in I : x <= y BY <2>2, <3>1, Smallest
    <3>3. after \in I BY <2>2, <3>2 DEF Min
    <3> HIDE DEF after
    <3>4. after \in 1 .. Len(T) /\ ~Covered(T[after]) BY <3>3 DEF I
    <3>5. T[after] = before + after /\ before + after \in 1 .. Len(q) BY <1>4, <1>6, <3>4
    <3> QED BY <3>3, <3>4, <3>5
  <2> QED BY <2>1, <2>2
<1> HIDE DEF T, I, after
<1>8. ASSUME NEW i \in 1 .. Len(q), ~Covered(i) PROVE Rest(i) \in Seq(X)
  <2>1. q[i] \in X BY <1>4, <1>8
  <2>2. Cut(i) \in Seq(X)
    <3>1. CASE ~(Over(i) > 0) BY <2>1, <3>1
    <3>2. CASE Over(i) > 0
      <4>1. Over(i) \in Int
        <5>1. s.seq \in Int /\ Len(s.data) \in Int /\ q[i].seq \in Int
          <6>1. s.data \in Seq(Int) /\ s.seq = Plus(d.irs, p + 1) BY <1>2 DEF Placed
          <6>2. d.irs \in Int /\ p + 1 \in Int BY Spaces DEF Numbers
          <6>3. s.seq \in Numbers BY <6>1, <6>2, PlusIn
          <6>4. q[i].seq \in Numbers BY <2>1 DEF X, Waiting, Pieces
          <6> QED BY <6>1, <6>3, <6>4, Spaces DEF Numbers
        <5>2. Plus(s.seq, Len(s.data)) \in Numbers BY <5>1, PlusIn
        <5>3. Plus(s.seq, Len(s.data)) \in Int BY <5>2, Spaces DEF Numbers
        <5> QED BY <5>1, <5>3, DiffIn
      <4>2. Len(q[i].data) \in Nat BY <2>1 DEF X, Waiting, Pieces
      <4> HIDE DEF Over
      <4>3. Over(i) \in 0 .. Len(q[i].data) BY <1>8, <3>2, <4>1, <4>2
      <4>4. TrimFront(q[i], Over(i)) \in X BY <2>1, <4>3, PieceBack DEF X
      <4> QED BY <3>2, <4>4
    <3> QED BY <3>1, <3>2
  <2>3. SubSeq(q, i + 1, Len(q)) \in Seq(X)
    <3>1. i + 1 \in 1 .. Len(q) + 1 BY <1>4
    <3> QED BY <1>4, <3>1
  <2> HIDE DEF Cut
  <2> QED BY <2>2, <2>3
<1> HIDE DEF Covered, Rest
<1>9. (IF after = 0 THEN <<>> ELSE Rest(before + after)) \in Seq(X)
  BY <1>7, <1>8
<1> DEFINE tail == IF after = 0 THEN <<>> ELSE Rest(before + after)
<1> HIDE DEF tail
<1>10. SubSeq(q, 1, before) \o <<new>> \o tail \in Seq(X)
  <2>1. <<new>> \in Seq(X) BY <1>3
  <2> DEFINE head == SubSeq(q, 1, before)
  <2> HIDE DEF head
  <2>2. head \in Seq(X) /\ tail \in Seq(X) BY <1>5, <1>9 DEF head, tail
  <2>3. head \o <<new>> \in Seq(X) BY <2>1, <2>2
  <2>4. head \o <<new>> \o tail \in Seq(X) BY <2>2, <2>3
  <2> QED BY <2>4 DEF head
<1>11. seg \in Seq(X) BY <1>10 DEF tail
<1> HIDE DEF seg
<1>12. Insert(d, s, before).seg = seg BY <1>1 DEF IsConn, Fields
<1> QED BY <1>1, <1>11, <1>12 DEF X, Queued

LEMMA WaitingSeq ==
  ASSUME NEW d, NEW gu, NEW seg
  PROVE  (seg \in Seq(Pieces) /\ \A i \in 1 .. Len(seg) : PieceOK(seg[i], d, gu))
           <=> seg \in Seq(Waiting(d, gu))
<1>1. ASSUME seg \in Seq(Pieces), \A i \in 1 .. Len(seg) : PieceOK(seg[i], d, gu)
      PROVE  seg \in Seq(Waiting(d, gu))
  <2>1. \A i \in 1 .. Len(seg) : seg[i] \in Waiting(d, gu) BY <1>1 DEF Waiting
  <2> QED BY <1>1, <2>1
<1>2. ASSUME seg \in Seq(Waiting(d, gu))
      PROVE  seg \in Seq(Pieces) /\ \A i \in 1 .. Len(seg) : PieceOK(seg[i], d, gu)
  <2>1. \A i \in 1 .. Len(seg) : seg[i] \in Pieces /\ PieceOK(seg[i], d, gu) BY <1>2 DEF Waiting
  <2> QED BY <1>2, <2>1
<1> QED BY <1>1, <1>2

\* The queue changes.
LEMMA SegUp ==
  ASSUME NEW d, NEW gu, IsGuest(gu), Up(d, gu), gu.estab, NEW seg \in Seq(Waiting(d, gu))
  PROVE  LET e == [d EXCEPT !.seg = seg]
         IN  Up(e, gu) /\ e.t_state = d.t_state
<1> DEFINE e == [d EXCEPT !.seg = seg]
<1>1. /\ IsConn(d) /\ d.open = TRUE /\ Plain(d.out) /\ HostOK(d.h, gu) /\ Sound(d)
      /\ Numbered(d, gu) /\ Flowing(d, gu) /\ Linked(d, gu) /\ Opened(d, gu)
      /\ d.t_state \in TCPS_ESTABLISHED .. TCPS_TIME_WAIT /\ d.t_state \notin Early /\ Synced(d) /\ Estab(d)
  BY UpIs
<1>2. /\ IsConn(e) /\ e.open = d.open /\ e.rnxt = d.rnxt /\ e.adv = d.adv /\ e.irs = d.irs /\ e.rcv = d.rcv
      /\ e.out = d.out /\ e.t_state = d.t_state /\ e.h = d.h /\ e.so_state = d.so_state /\ e.seg = seg
  BY <1>1 DEF IsConn, Fields
<1> HIDE DEF e
<1>3. Received(e) = Received(d) BY <1>2 DEF Received
<1>4. Sound(e) BY <1>1, <1>2 DEF Sound
<1>5. Numbered(e, gu) BY <1>1, <1>2, <1>3 DEF Numbered
<1>6. \A q : PieceOK(q, e, gu) <=> PieceOK(q, d, gu) BY <1>2, <1>3 DEF PieceOK
<1>7. e.seg \in Seq(Pieces) /\ \A i \in 1 .. Len(e.seg) : PieceOK(e.seg[i], d, gu) BY <1>2, WaitingSeq
<1>8. Flowing(e, gu) BY <1>1, <1>2, <1>3, <1>6, <1>7 DEF Flowing, Ended
<1>9. Linked(e, gu)
  <2>1. gu.synced BY DEF IsGuest
  <2>2. Synced(e) => e.irs = First(gu) \/ Old(e, gu) BY <1>1, <1>2 DEF Linked, Synced, Old
  <2> QED BY <2>1, <2>2 DEF Linked
<1>10. Opened(e, gu) BY <1>1, <1>2, <1>4, <1>5, <1>8, <1>9 DEF Opened
<1>11. Up(e, gu) BY <1>1, <1>2, <1>10 DEF Up, Ready, Rx, Estab
<1> QED BY <1>2, <1>11 DEF e

LEMMA ReassUp ==
  ASSUME NEW d, NEW gu, IsGuest(gu), Up(d, gu), gu.estab, NEW s, IsSeg(s), InWindow(d, s, gu)
  PROVE  Taken(d, tcp_reass(d, s), gu)
<1> DEFINE before == Cardinality({i \in DOMAIN d.seg : SEQ_LEQ(d.seg[i].seq, s.seq)})
           last == d.seg[before]
           held == IF before = 0 THEN 0 ELSE Diff(Plus(last.seq, Len(last.data)), s.seq)
           t == IF held > 0 THEN TrimFront(s, held) ELSE s
           e == IF held > 0 /\ held >= Len(s.data) THEN d ELSE Insert(d, t, before)
<1>1. tcp_reass(d, s) = Present(e) BY DEF tcp_reass
<1>2. IsConn(d) /\ Flowing(d, gu) /\ Numbered(d, gu) BY UpIs
<1>3. d.seg \in Seq(Waiting(d, gu)) /\ Len(d.seg) \in Nat BY <1>2, WaitingSeq DEF Flowing
<1>4. d.irs \in Numbers BY <1>2 DEF Numbered
<1>5. before \in 0 .. Len(d.seg)
  <2> DEFINE S == {i \in DOMAIN d.seg : SEQ_LEQ(d.seg[i].seq, s.seq)}
             n == Len(d.seg)
  <2>1. S \subseteq 1 .. n BY <1>3
  <2> HIDE DEF S, n
  <2>2. n \in Nat BY <1>3 DEF n
  <2>3. IsFiniteSet(1 .. n) /\ Cardinality(1 .. n) = n BY <2>2, FS_Interval
  <2>4. Cardinality(S) \in Nat /\ Cardinality(S) <= n BY <2>1, <2>3, FS_Subset, FS_CardinalityType
  <2> QED BY <2>2, <2>4 DEF S, n
<1> HIDE DEF before
<1>6. held \in Int
  <2>1. CASE before = 0 BY <2>1
  <2>2. CASE before # 0
    <3>1. last \in Waiting(d, gu) BY <1>3, <1>5, <2>2
    <3>2. last.seq \in Numbers /\ Len(last.data) \in Nat BY <3>1 DEF Waiting, Pieces
    <3>3. s.seq \in Int
      <4>1. PICK p \in 0 .. Length(gu) : s.seq = Plus(d.irs, p + 1) BY DEF InWindow, Placed
      <4>2. d.irs \in Int /\ p + 1 \in Int BY <1>4, Ample, Spaces DEF Numbers
      <4>3. s.seq \in Numbers BY <4>1, <4>2, PlusIn
      <4> QED BY <4>3, Spaces DEF Numbers
    <3> HIDE DEF last
    <3>4. last.seq \in Int /\ Len(last.data) \in Int BY <3>2, Spaces DEF Numbers
    <3>5. Plus(last.seq, Len(last.data)) \in Numbers BY <3>4, PlusIn
    <3>6. Plus(last.seq, Len(last.data)) \in Int BY <3>5, Spaces DEF Numbers
    <3>7. Diff(Plus(last.seq, Len(last.data)), s.seq) \in Int BY <3>3, <3>6, DiffIn
    <3> QED BY <2>2, <3>7
  <2> QED BY <2>1, <2>2
<1> HIDE DEF held, last
<1>7. Up(e, gu) /\ e.t_state = d.t_state
  <2>1. CASE held > 0 /\ held >= Len(s.data) BY <2>1
  <2>2. CASE ~(held > 0 /\ held >= Len(s.data))
    <3>1. e = Insert(d, t, before) BY <2>2
    <3>2. InWindow(d, t, gu)
      <4>1. CASE held > 0
        <5>1. Len(s.data) \in Nat BY DEF InWindow, Placed
        <5>2. held \in 0 .. Len(s.data) BY <1>6, <2>2, <4>1, <5>1
        <5> QED BY <1>4, <4>1, <5>2, SegBack
      <4>2. CASE ~(held > 0) BY <4>2
      <4> QED BY <4>1, <4>2
    <3> HIDE DEF e, t
    <3>8. Queued(d, Insert(d, t, before), gu) BY <1>2, <1>3, <1>4, <1>5, <3>2, InsertOK
    <3>3. /\ Insert(d, t, before).seg \in Seq(Waiting(d, gu))
          /\ \E seg : Insert(d, t, before) = [d EXCEPT !.seg = seg]
      BY <3>8 DEF Queued
    <3>4. PICK seg : e = [d EXCEPT !.seg = seg] BY <3>1, <3>3
    <3>5. e.seg = seg BY <1>2, <3>4 DEF IsConn, Fields
    <3>6. seg \in Seq(Waiting(d, gu)) BY <3>1, <3>3, <3>5
    <3>7. Up([d EXCEPT !.seg = seg], gu) /\ [d EXCEPT !.seg = seg].t_state = d.t_state BY <3>6, SegUp
    <3> QED BY <3>4, <3>7
  <2> QED BY <2>1, <2>2
<1> HIDE DEF e
<1>8. Taken(e, Present(e), gu) BY <1>7, PresentUp
<1> QED BY <1>1, <1>7, <1>8 DEF Taken

TakesNext(d, s, flags) == sbappend([d EXCEPT !.flags = flags, !.rnxt = Plus(@, Len(s.data))], s.data)

LEMMA TextNext ==
  ASSUME NEW d, NEW gu, IsGuest(gu), Up(d, gu), gu.estab, NEW s, InWindow(d, s, gu), s.seq = d.rnxt,
         d.seg = <<>>, NEW flags
  PROVE  Taken(d, <<TakesNext(d, s, flags), Has(s, "FIN")>>, gu)
<1> DEFINE e == [d EXCEPT !.flags = flags, !.rnxt = Plus(@, Len(s.data))]
           r == sbappend(e, s.data)
<1>1. IsConn(d) /\ HostOK(d.h, gu) /\ Numbered(d, gu) /\ Sound(d) BY UpIs
<1>2. PICK p \in 0 .. Length(gu) :
        /\ Placed(s.seq, s.data, d.irs, p, Length(gu)) /\ p + Len(s.data) <= Received(d) + sbspace(d.rcv)
        /\ Has(s, "FIN") => p + Len(s.data) = Length(gu) /\ gu.fin
  BY DEF InWindow
<1>3. Received(d) = p
  <2>1. s.seq = Plus(d.irs, p + 1) BY <1>2 DEF Placed
  <2>2. d.irs \in Numbers BY <1>1 DEF Numbered
  <2>3. p \in -1 .. Half - 2 BY Spaces DEF IsGuest
  <2> QED BY <2>1, <2>2, <2>3, ReceivedIs
<1>4. s.data \in Seq(Int) /\ Len(s.data) \in Nat BY <1>2 DEF Placed
<1>5. Len(s.data) <= sbspace(d.rcv)
  <2>1. sbspace(d.rcv) \in Int BY <1>1, BufferSpace DEF Sound
  <2> QED BY <1>2, <1>3, <1>4, <2>1
<1>6. /\ Besides(d, e) /\ e.rnxt = Plus(d.rnxt, Len(s.data)) /\ e.seg = <<>> /\ e.rcv = d.rcv /\ e.h = d.h
      /\ IsConn(e)
  BY <1>1 DEF Besides, IsConn, Fields
<1> HIDE DEF e
<1>7. HostOK(e.h, gu) BY <1>1, <1>6
<1>8. Appending(e, r, s.data) BY <1>4, <1>6, <1>7, AppendIs
<1> HIDE DEF r
<1>9. Next1(d, r, s.data, gu)
  <2>1. Besides(d, r) /\ r.rnxt = Plus(d.rnxt, Len(s.data)) /\ r.seg = <<>>
    BY <1>6, <1>8 DEF Appending, Besides
  <2>2. \E n \in 0 .. Len(s.data) : Appended(d, r, s.data, n) BY <1>6, <1>8 DEF Appending, Appended
  <2>3. r.seg \in Seq(Pieces) /\ \A i \in 1 .. Len(r.seg) : PieceOK(r.seg[i], d, gu) BY <2>1
  <2>4. Placed(d.rnxt, s.data, d.irs, Received(d), Length(gu)) BY <1>2, <1>3
  <2> QED BY <1>5, <2>1, <2>2, <2>3, <2>4 DEF Next1
<1>10. Up(r, gu) /\ Received(r) = p + Len(s.data) BY <1>3, <1>9, Accepts
<1>11. r.t_state = d.t_state BY <1>9 DEF Next1, Besides
<1>12. r = TakesNext(d, s, flags) BY DEF TakesNext, r, e
<1> QED BY <1>2, <1>10, <1>11, <1>12 DEF Taken, MayEnd

Quiet(s) == s.data = <<>> /\ ~Has(s, "FIN")

LEMMA FlagsAside ==
  ASSUME NEW d, IsConn(d), NEW flags
  PROVE  Aside(d, [d EXCEPT !.flags = flags])
BY DEF Aside, Same, IsConn, Fields

LEMMA AckNowAside ==
  ASSUME NEW d, IsConn(d)
  PROVE  Aside(d, AckNow(d))
BY DEF Aside, Same, IsConn, Fields, AckNow

LEMMA TextUp ==
  ASSUME NEW d, NEW gu, IsGuest(gu), Up(d, gu), NEW s, IsSeg(s), Quiet(s) \/ (gu.estab /\ InWindow(d, s, gu))
  PROVE  Taken(d, Text(d, s), gu)
<1>1. CASE (s.data = <<>> /\ ~Has(s, "FIN")) \/ TCPS_HAVERCVDFIN(d.t_state)
  <2>1. Text(d, s) = <<d, FALSE>> BY <1>1 DEF Text
  <2> QED BY <2>1 DEF Taken
<1>2. CASE ~((s.data = <<>> /\ ~Has(s, "FIN")) \/ TCPS_HAVERCVDFIN(d.t_state))
  <2>1. gu.estab /\ InWindow(d, s, gu) BY <1>2 DEF Quiet
  <2>2. CASE s.seq = d.rnxt /\ d.seg = <<>> /\ d.t_state = TCPS_ESTABLISHED
    <3> DEFINE flags == d.flags \cup {"DELACK"}
    <3>1. Text(d, s) = <<TakesNext(d, s, flags), Has(s, "FIN")>> BY <1>2, <2>2 DEF Text, TakesNext
    <3> HIDE DEF flags
    <3>2. Taken(d, <<TakesNext(d, s, flags), Has(s, "FIN")>>, gu) BY <2>1, <2>2, TextNext
    <3> QED BY <3>1, <3>2
  <2>3. CASE ~(s.seq = d.rnxt /\ d.seg = <<>> /\ d.t_state = TCPS_ESTABLISHED)
    <3> DEFINE r == tcp_reass(d, s)
               a == AckNow(r[1])
    <3>1. Text(d, s) = <<a, r[2]>> BY <1>2, <2>3, Zenon DEF Text
    <3>2. Taken(d, r, gu) BY <2>1, ReassUp
    <3> HIDE DEF r
    <3>3. Aside(r[1], a) BY <3>2, AckNowAside, UpIs DEF Taken
    <3> HIDE DEF a
    <3>4. Up(a, gu) /\ Received(a) = Received(r[1]) /\ a.t_state = d.t_state
      BY <3>2, <3>3, AsideUp DEF Taken, Aside, Same
    <3> QED BY <3>1, <3>2, <3>4 DEF Taken
  <2> QED BY <2>2, <2>3
<1> QED BY <1>1, <1>2

-----------------------------------------------------------------------------
(* From step6 on.                                                          *)

\* The FIN takes its number, and the state is one that has received it.
LEMMA Finishes ==
  ASSUME NEW d, NEW e, NEW gu, IsGuest(gu), Up(d, gu), gu.estab, Received(d) = Length(gu), MayEnd(gu),
         IsConn(e), e.open = d.open, e.adv = d.adv, e.irs = d.irs, e.seg = d.seg, e.rcv = d.rcv,
         e.out = d.out, e.rnxt = Plus(d.rnxt, 1), e.t_state \in TCPS_ESTABLISHED .. TCPS_TIME_WAIT,
         HostOK(e.h, gu), e.h.got = d.h.got, e.h.dead = d.h.dead, e.h.cut = d.h.cut,
         "ISFCONNECTING" \in e.so_state => "ISFCONNECTING" \in d.so_state
  PROVE  Up(e, gu)
<1> DEFINE L == Length(gu)
<1>1. /\ IsConn(d) /\ d.open = TRUE /\ Plain(d.out) /\ HostOK(d.h, gu) /\ Sound(d)
      /\ Numbered(d, gu) /\ Flowing(d, gu) /\ Linked(d, gu)
      /\ d.t_state \in TCPS_ESTABLISHED .. TCPS_TIME_WAIT
  BY UpIs
<1>2. L \in Nat /\ L + 2 \in 0 .. Half /\ L + 1 \in -1 .. Half - 2
  <2>1. L \in Nat /\ L + (SPACE + MSS + 2) < Half BY DEF IsGuest
  <2> HIDE DEF L
  <2> QED BY <2>1, Spaces
<1>3. d.irs \in Numbers /\ d.rnxt = Plus(d.irs, L + 1) BY <1>1 DEF Numbered
<1>9. Received(d) = L OBVIOUS
<1> HIDE DEF L
<1>4. e.rnxt = Plus(d.irs, (L + 1) + 1)
  <2>1. L + 1 \in -1 .. Half /\ 1 \in -1 .. Half /\ (L + 1) + 1 \in -1 .. Half BY <1>2, Spaces
  <2> QED BY <1>3, <2>1, PlusPlus
<1>5. Received(e) = L + 1 BY <1>2, <1>3, <1>4, ReceivedIs
<1>6. Ended(e, gu) BY <1>5 DEF Ended, L
<1>7. Sound(e)
  <2>1. e.rnxt \in Numbers
    <3>1. d.irs \in Int /\ (L + 1) + 1 \in Int BY <1>2, <1>3, Spaces DEF Numbers
    <3> QED BY <1>4, <3>1, PlusIn
  <2>2. e.t_state \in TCPS_CLOSED .. TCPS_TIME_WAIT BY States
  <2> QED BY <1>1, <2>1, <2>2 DEF Sound
<1>8. sbspace(d.rcv) \in Int BY <1>1, BufferSpace DEF Sound
<1>10. Numbered(e, gu)
  <2>1. PICK a \in 0 .. L + TCP_MAXWIN : d.adv = Plus(d.irs, a + 1) /\ a <= L + sbspace(d.rcv)
    BY <1>1, <1>9 DEF Numbered
  <2>2. a \in 0 .. (L + 1) + TCP_MAXWIN /\ a <= (L + 1) + sbspace(e.rcv) BY <1>2, <1>8, <2>1, Spaces
  <2>3. L + 1 \in 0 .. Length(gu) + 1 BY <1>2 DEF L
  <2> QED BY <1>3, <1>4, <1>5, <2>1, <2>2, <2>3 DEF Numbered
<1>11. ASSUME NEW q, PieceOK(q, d, gu) PROVE PieceOK(q, e, gu)
  <2>1. PICK p \in 0 .. Length(gu) : /\ Placed(q.seq, q.data, d.irs, p, Length(gu))
                                     /\ p + Len(q.data) <= L + sbspace(d.rcv)
                                     /\ q.fin => p + Len(q.data) = Length(gu) /\ MayEnd(gu)
    BY <1>9, <1>11 DEF PieceOK
  <2>2. Len(q.data) \in Nat BY <2>1 DEF Placed
  <2> DEFINE m == Len(q.data)
  <2> HIDE DEF m
  <2>3. p + m <= (L + 1) + sbspace(e.rcv)
    <3>1. m \in Int /\ p \in Int /\ sbspace(e.rcv) = sbspace(d.rcv) BY <1>2, <2>2 DEF m, L
    <3>2. p + m <= L + sbspace(d.rcv) BY <2>1 DEF m
    <3> QED BY <1>2, <1>8, <3>1, <3>2
  <2> QED BY <1>5, <2>1, <2>3 DEF PieceOK, m
<1>12. Flowing(e, gu)
  <2>1. Least(L + 1, Length(gu)) = L /\ Least(L, Length(gu)) = L BY <1>2, LeastIs DEF L
  <2>2. \A i \in 1 .. Len(e.seg) : PieceOK(e.seg[i], e, gu) BY <1>1, <1>11 DEF Flowing
  <2>3. ~e.h.dead => Holds(e.rcv, Len(e.h.got)) /\ Len(e.h.got) + e.rcv.cc = Least(Received(e), Length(gu))
    BY <1>1, <1>5, <1>9, <2>1 DEF Flowing
  <2> QED BY <1>1, <1>6, <2>2, <2>3 DEF Flowing
<1>13. Linked(e, gu)
  <2>1. gu.synced BY DEF IsGuest
  <2>2. d.irs = First(gu) BY <1>1, <2>1, UpIs DEF Linked, Old
  <2> QED BY <2>1, <2>2 DEF Linked
<1>14. Opened(e, gu)
  <2>1. e.t_state \in TCPS_SYN_SENT .. TCPS_TIME_WAIT /\ e.t_state \notin Early BY States
  <2> QED BY <1>7, <1>10, <1>12, <1>13, <2>1 DEF Opened
<1>15. Estab(e) BY States DEF Estab
<1> QED BY <1>1, <1>14, <1>15 DEF Up, Ready, Rx

\* what sofwdrain and sofcantsendmore touch
OfSocket(d, e) ==
  /\ IsConn(e) /\ e.open = d.open /\ e.t_state = d.t_state /\ e.rnxt = d.rnxt /\ e.adv = d.adv /\ e.irs = d.irs
  /\ e.seg = d.seg /\ e.rcv = d.rcv /\ e.out = d.out
  /\ e.h = [f \in HostFields |-> e.h[f]] /\ e.h.got = d.h.got /\ e.h.room = d.h.room
  /\ e.h.dead = d.h.dead /\ e.h.cut = d.h.cut
  /\ "ISFCONNECTING" \in e.so_state => "ISFCONNECTING" \in d.so_state

LEMMA HostMoves ==
  ASSUME NEW h, NEW i, NEW gu, HostOK(h, gu), i = [f \in HostFields |-> i[f]],
         i.got = h.got, i.room \in Nat, i.dead \in BOOLEAN, i.cut \in BOOLEAN, i.eof \in BOOLEAN,
         i.eof /\ ~i.cut => Len(i.got) = Length(gu) /\ MayEnd(gu)
  PROVE  HostOK(i, gu)
<1>1. h.got \in Seq(Int) /\ Len(h.got) <= Length(gu) /\ \A n \in 1 .. Len(h.got) : h.got[n] = n BY DEF HostOK
<1> QED BY <1>1 DEF HostOK

LEMMA CantSend ==
  ASSUME NEW d, IsConn(d), NEW gu, HostOK(d.h, gu)
  PROVE  LET e == sofcantsendmore(d)
         IN  OfSocket(d, e) /\ e.h.eof \in BOOLEAN /\ ("FWDRAIN" \in e.so_state => "FWDRAIN" \in d.so_state)
<1> DEFINE so == IF "FCANTRCVMORE" \in d.so_state THEN (d.so_state \cap {"INCOMING"}) \cup {"NOFDREF"}
                 ELSE (d.so_state \ {"ISFCONNECTING"}) \cup {"FCANTSENDMORE"}
           eof == d.h.eof \/ "NOFDREF" \notin d.so_state
           h == [d.h EXCEPT !.eof = eof]
           e == [d EXCEPT !.so_state = so, !.h = h]
<1>1. sofcantsendmore(d) = e
  <2> HIDE DEF eof
  <2> QED BY DEF sofcantsendmore, eof, IsConn, Fields
<1>2. eof \in BOOLEAN BY DEF HostOK
<1>5. "ISFCONNECTING" \notin so /\ ("FWDRAIN" \in so => "FWDRAIN" \in d.so_state) OBVIOUS
<1> HIDE DEF eof, so
<1>3. h = [f \in HostFields |-> h[f]] /\ h.got = d.h.got /\ h.room = d.h.room /\ h.dead = d.h.dead
      /\ h.cut = d.h.cut /\ h.eof = eof
  BY DEF HostOK, HostFields
<1> HIDE DEF h
<1>4. /\ IsConn(e) /\ e.open = d.open /\ e.t_state = d.t_state /\ e.rnxt = d.rnxt /\ e.adv = d.adv
      /\ e.irs = d.irs /\ e.seg = d.seg /\ e.rcv = d.rcv /\ e.out = d.out /\ e.h = h
      /\ e.so_state = so
  BY DEF IsConn, Fields
<1> HIDE DEF e
<1> QED BY <1>1, <1>2, <1>3, <1>4, <1>5 DEF OfSocket

LEMMA GuestFinUp ==
  ASSUME NEW d, NEW gu, IsGuest(gu), Up(d, gu), gu.estab, Received(d) = Length(gu), MayEnd(gu)
  PROVE  Up(GuestFin(d), gu)
<1>1. /\ IsConn(d) /\ HostOK(d.h, gu) /\ Flowing(d, gu) /\ d.t_state \in TCPS_ESTABLISHED .. TCPS_TIME_WAIT
  BY UpIs
<1>2. ~Ended(d, gu) BY Ample DEF Ended
<1>3. d.t_state \in {TCPS_ESTABLISHED, TCPS_FIN_WAIT_1, TCPS_FIN_WAIT_2}
  BY <1>1, <1>2, States DEF Flowing
<1> DEFINE w == sofwdrain(d)
           a == [AckNow(w) EXCEPT !.rnxt = Plus(@, 1)]
<1>4. OfSocket(d, w) /\ HostOK(w.h, gu)
  <2>1. CASE d.rcv.cc # 0
    <3>1. w = [d EXCEPT !.so_state = @ \cup {"FWDRAIN"}] BY <2>1 DEF sofwdrain
    <3> HIDE DEF w
    <3>2. OfSocket(d, w) /\ w.h = d.h BY <1>1, <3>1 DEF OfSocket, IsConn, Fields, HostOK
    <3> QED BY <1>1, <3>2
  <2>2. CASE d.rcv.cc = 0
    <3>1. w = sofcantsendmore(d) BY <2>2 DEF sofwdrain
    <3> HIDE DEF w
    <3>2. OfSocket(d, w) /\ w.h.eof \in BOOLEAN BY <1>1, <3>1, CantSend
    <3>3. w.h.eof /\ ~w.h.cut => Len(w.h.got) = Length(gu) /\ MayEnd(gu)
      <4>1. ~d.h.cut => Len(d.h.got) + d.rcv.cc = Least(Received(d), Length(gu)) BY <1>1 DEF Flowing
      <4>2. Least(Received(d), Length(gu)) = Length(gu) BY Ample, LeastIs
      <4>3. Len(d.h.got) \in Nat BY <1>1 DEF HostOK
      <4> QED BY <2>2, <3>2, <4>1, <4>2, <4>3 DEF OfSocket
    <3>4. d.h.room \in Nat /\ d.h.dead \in BOOLEAN /\ d.h.cut \in BOOLEAN BY <1>1 DEF HostOK
    <3>5. /\ w.h = [f \in HostFields |-> w.h[f]] /\ w.h.got = d.h.got /\ w.h.room \in Nat
          /\ w.h.dead \in BOOLEAN /\ w.h.cut \in BOOLEAN
      BY <3>2, <3>4 DEF OfSocket
    <3>6. HostOK(w.h, gu) BY <1>1, <3>2, <3>3, <3>5, HostMoves
    <3> QED BY <3>2, <3>6
  <2> QED BY <2>1, <2>2
<1> HIDE DEF w
<1>5. /\ IsConn(a) /\ a.open = d.open /\ a.t_state = d.t_state /\ a.rnxt = Plus(d.rnxt, 1) /\ a.adv = d.adv
      /\ a.irs = d.irs /\ a.seg = d.seg /\ a.rcv = d.rcv /\ a.out = d.out /\ a.h = w.h
      /\ ("ISFCONNECTING" \in a.so_state => "ISFCONNECTING" \in d.so_state)
  BY <1>4, ZenonT(30) DEF OfSocket, AckNow, IsConn, Fields
<1> DEFINE t == CASE a.t_state = TCPS_ESTABLISHED -> TCPS_CLOSE_WAIT
                  [] a.t_state = TCPS_FIN_WAIT_1 -> TCPS_CLOSING
                  [] a.t_state = TCPS_FIN_WAIT_2 -> TCPS_TIME_WAIT
           e == GuestFin(d)
<1>6. \E armed : e = [a EXCEPT !.t_state = t, !.armed = armed]
  <2>1. ~TCPS_HAVERCVDFIN(d.t_state) BY <1>3, States DEF TCPS_HAVERCVDFIN
  <2>2. e = CASE a.t_state \in {TCPS_SYN_RECEIVED, TCPS_ESTABLISHED} ->
                 [a EXCEPT !.t_state = TCPS_CLOSE_WAIT]
              [] a.t_state = TCPS_FIN_WAIT_1 -> [a EXCEPT !.t_state = TCPS_CLOSING]
              [] a.t_state = TCPS_FIN_WAIT_2 ->
                   Arm(tcp_canceltimers([a EXCEPT !.t_state = TCPS_TIME_WAIT]), "2MSL")
              [] a.t_state = TCPS_TIME_WAIT -> Arm(a, "2MSL")
              [] OTHER -> a
    BY <2>1, Zenon DEF GuestFin, w
  <2> HIDE DEF a, e
  <2>3. CASE a.t_state = TCPS_ESTABLISHED
    <3>1. e = [a EXCEPT !.t_state = TCPS_CLOSE_WAIT] /\ t = TCPS_CLOSE_WAIT BY <2>2, <2>3, States
    <3>2. e = [a EXCEPT !.t_state = t, !.armed = a.armed] BY <1>5, <3>1 DEF IsConn, Fields
    <3> QED BY <3>2
  <2>4. CASE a.t_state = TCPS_FIN_WAIT_1
    <3>1. e = [a EXCEPT !.t_state = TCPS_CLOSING] /\ t = TCPS_CLOSING BY <2>2, <2>4, States
    <3>2. e = [a EXCEPT !.t_state = t, !.armed = a.armed] BY <1>5, <3>1 DEF IsConn, Fields
    <3> QED BY <3>2
  <2>5. CASE a.t_state = TCPS_FIN_WAIT_2
    <3>1. e = Arm(tcp_canceltimers([a EXCEPT !.t_state = TCPS_TIME_WAIT]), "2MSL") /\ t = TCPS_TIME_WAIT
      BY <2>2, <2>5, States
    <3>2. e = [a EXCEPT !.t_state = t, !.armed = {"2MSL"}]
      BY <1>5, <3>1 DEF IsConn, Fields, Arm, tcp_canceltimers
    <3> QED BY <3>2
  <2> QED BY <1>3, <1>5, <2>3, <2>4, <2>5
<1>7. t \in TCPS_ESTABLISHED .. TCPS_TIME_WAIT BY <1>3, <1>5, States
<1> HIDE DEF a, e, t
<1>8. /\ IsConn(e) /\ e.open = d.open /\ e.rnxt = Plus(d.rnxt, 1) /\ e.adv = d.adv /\ e.irs = d.irs
      /\ e.seg = d.seg /\ e.rcv = d.rcv /\ e.out = d.out /\ e.h = w.h /\ e.t_state = t
      /\ e.so_state = a.so_state
  BY <1>5, <1>6, ZenonT(30) DEF IsConn, Fields
<1>9. e.h.got = d.h.got /\ e.h.dead = d.h.dead /\ e.h.cut = d.h.cut BY <1>4, <1>8 DEF OfSocket
<1>10. "ISFCONNECTING" \in e.so_state => "ISFCONNECTING" \in d.so_state BY <1>5, <1>8
<1> QED BY <1>4, <1>7, <1>8, <1>9, <1>10, Finishes DEF e

LEMMA NothingOut == Listed(<<>>) /\ Plain(<<>>)
<1> DEFINE none == {}
<1>1. <<>> \in Seq(none) OBVIOUS
<1>2. \A s \in none : "SYN" \notin s.flags OBVIOUS
<1> HIDE DEF none
<1>3. Listed(<<>>) BY <1>1, Zenon DEF Listed
<1>4. Plain(<<>>) BY <1>1, <1>2, Zenon DEF Plain
<1> QED BY <1>3, <1>4

\* what a new connection is like
LEMMA AttachIs ==
  /\ IsConn(tcp_attach) /\ tcp_attach.t_state = TCPS_CLOSED /\ tcp_attach.seg = <<>> /\ tcp_attach.h = NewHost
  /\ tcp_attach.so_state = {"NOFDREF"} /\ tcp_attach.open = TRUE /\ tcp_attach.out = <<>>
  /\ tcp_attach.rnxt = 0 /\ tcp_attach.adv = 0 /\ tcp_attach.irs = 0
BY ZenonT(30) DEF IsConn, Fields, tcp_attach, socreate, tcp_newtcpcb

LEMMA CloseReady ==
  ASSUME NEW d, NEW gu, HostOK(d.h, gu), Plain(d.out)
  PROVE  Ready(tcp_close(d), gu) /\ tcp_close(d).open = FALSE /\ tcp_close(d).h = d.h /\ tcp_close(d).out = d.out
<1> DEFINE x == tcp_attach
           e == [x EXCEPT !.open = FALSE, !.out = d.out, !.h = d.h]
<1>1. IsConn(x) BY AttachIs
<1> HIDE DEF x
<1>2. IsConn(e) /\ e.open = FALSE /\ e.out = d.out /\ e.h = d.h BY <1>1, ZenonT(30) DEF IsConn, Fields
<1>3. tcp_close(d) = e BY DEF tcp_close, x
<1> HIDE DEF e
<1> QED BY <1>2, <1>3 DEF Ready, Rx

LEMMA RespondReady ==
  ASSUME NEW d, NEW gu, Ready(d, gu), NEW ack, NEW seq, NEW flags, "SYN" \notin flags
  PROVE  Ready(tcp_respond(d, ack, seq, flags), gu) /\ tcp_respond(d, ack, seq, flags).open = d.open
<1> DEFINE s == [seq |-> seq, ack |-> ack, flags |-> flags, data |-> <<>>,
                 win |-> IF d.open THEN sbspace(d.rcv) ELSE 0]
           e == [d EXCEPT !.out = Append(@, s)]
<1>1. tcp_respond(d, ack, seq, flags) = e BY DEF tcp_respond
<1>2. s.flags = flags OBVIOUS
<1> HIDE DEF s
<1>3. IsConn(d) /\ Rx(d, gu) /\ Plain(d.out) BY DEF Ready, Rx
<1>4. Same(d, e) /\ e.rcv = d.rcv /\ e.adv = d.adv /\ e.out = Append(d.out, s)
  BY <1>3 DEF Same, IsConn, Fields
<1> HIDE DEF e
<1>5. Plain(e.out) BY <1>2, <1>3, <1>4, ListedMore
<1> QED BY <1>1, <1>3, <1>4, <1>5, SameRx DEF Ready, Same

LEMMA ResetReady ==
  ASSUME NEW d, NEW gu, Ready(d, gu), NEW s
  PROVE  Ready(dropwithreset(d, s), gu) /\ dropwithreset(d, s).open = d.open
<1> DEFINE ack == Plus(s.seq, Len(s.data) + (IF Has(s, "SYN") THEN 1 ELSE 0))
           a == tcp_respond(d, 0, s.ack, {"RST"})
           b == tcp_respond(d, ack, 0, {"RST", "ACK"})
<1>1. "SYN" \notin {"RST"} /\ "SYN" \notin {"RST", "ACK"} OBVIOUS
<1>2. dropwithreset(d, s) = a \/ dropwithreset(d, s) = b BY DEF dropwithreset
<1> HIDE DEF ack
<1>3. Ready(a, gu) /\ a.open = d.open BY <1>1, RespondReady
<1>4. Ready(b, gu) /\ b.open = d.open BY <1>1, RespondReady
<1> HIDE DEF a, b
<1> QED BY <1>2, <1>3, <1>4

LEMMA DropSound ==
  ASSUME NEW d, NEW gu, HostOK(d.h, gu), Plain(d.out), Sound(d)
  PROVE  Ready(tcp_drop(d), gu) /\ tcp_drop(d).open = FALSE
<1> DEFINE x == [d EXCEPT !.t_state = TCPS_CLOSED]
           o == tcp_output(x)
<1>2. Sound(x) /\ x.h = d.h /\ x.out = d.out /\ x.t_state \notin Early BY States DEF Sound, IsConn, Fields
<1> HIDE DEF x
<1>3. Outputs(x, o) BY <1>2, TcpOutputs
<1> HIDE DEF o
<1>4. o.h = d.h /\ Plain(o.out) BY <1>2, <1>3 DEF Outputs, Same, Sending
<1>5. tcp_drop(d) = tcp_close(IF TCPS_HAVERCVDSYN(d.t_state) THEN o ELSE d) BY DEF tcp_drop, o, x
<1>6. Ready(tcp_close(o), gu) /\ tcp_close(o).open = FALSE
  <2>1. HostOK(o.h, gu) BY <1>4
  <2> QED BY <1>4, <2>1, CloseReady
<1>7. Ready(tcp_close(d), gu) /\ tcp_close(d).open = FALSE BY CloseReady
<1> QED BY <1>5, <1>6, <1>7

LEMMA DropReady ==
  ASSUME NEW d, NEW gu, Ready(d, gu), d.open
  PROVE  Ready(tcp_drop(d), gu) /\ tcp_drop(d).open = FALSE
<1>1. HostOK(d.h, gu) /\ Plain(d.out) /\ Sound(d) BY DEF Ready, Rx, Opened
<1> QED BY <1>1, DropSound

LEMMA AckDone ==
  ASSUME NEW d, NEW gu, IsGuest(gu), Ready(d, gu), d.open
  PROVE  Done(tcp_output(AckNow(d)), gu)
<1>1. IsConn(d) BY DEF Ready, Rx
<1>2. Aside(d, AckNow(d)) BY <1>1, AckNowAside
<1>3. Ready(AckNow(d), gu) /\ AckNow(d).open BY <1>2, AsideReady DEF Aside, Same
<1> QED BY <1>3, OutputsDone

LEMMA DropAfterAckDone ==
  ASSUME NEW d, NEW gu, IsGuest(gu), Ready(d, gu), d.open, NEW s
  PROVE  Done(dropafterack(d, s), gu)
BY AckDone, ReadyIsDone DEF dropafterack

LEMMA DodataDone ==
  ASSUME NEW d, NEW r, NEW gu, IsGuest(gu), NEW n, NEW f, r = <<d, f>>, Ready(d, gu), d.open,
         f => Up(d, gu) /\ gu.estab /\ Received(d) = Length(gu) /\ MayEnd(gu)
  PROVE  Done(Dodata(r, n), gu)
<1> DEFINE e == IF f THEN GuestFin(d) ELSE d
<1>1. Dodata(r, n) = Answer(e, n) BY DEF Dodata
<1>2. Ready(e, gu) /\ e.open
  <2>1. CASE f
    <3>1. Up(GuestFin(d), gu) BY <2>1, GuestFinUp
    <3> QED BY <2>1, <3>1 DEF Up
  <2>2. CASE ~f BY <2>2
  <2> QED BY <2>1, <2>2
<1> HIDE DEF e
<1>3. Done(tcp_output(e), gu) BY <1>2, OutputsDone
<1>4. Done(e, gu) BY <1>2, ReadyIsDone
<1> QED BY <1>1, <1>3, <1>4 DEF Answer

\* what step6 may be called with
Due6(d, s, gu) ==
  /\ Ready(d, gu) /\ d.open /\ IsSeg(s)
  /\ Quiet(s) \/ (Estab(d) /\ gu.estab /\ InWindow(d, s, gu))

LEMMA AsideDue6 ==
  ASSUME NEW d, NEW e, NEW s, NEW gu, Due6(d, s, gu), Aside(d, e)
  PROVE  Due6(e, s, gu)
<1>1. Ready(e, gu) BY AsideReady DEF Due6
<1>2. Received(e) = Received(d) BY DEF Aside, Same, Received
<1>3. InWindow(d, s, gu) => InWindow(e, s, gu) BY <1>2 DEF InWindow, Aside, Same
<1> QED BY <1>1, <1>3 DEF Due6, Aside, Same, Estab

LEMMA Step6Done ==
  ASSUME NEW d, NEW s, NEW gu, IsGuest(gu), Due6(d, s, gu), NEW n
  PROVE  Done(step6(d, s, n), gu)
<1> DEFINE m == [d EXCEPT !.wnd = s.win, !.wl1 = s.seq, !.wl2 = s.ack, !.maxwnd = Most(@, s.win)]
           w == IF Newer(d, s) THEN m ELSE d
           escape == Len(s.data) \in 1 .. 5 /\ s.data[1] \in Escapes
           b == IF escape THEN AckNow(w) ELSE w
           r == Text(b, s)
<1>1. step6(d, s, n) = Dodata(r, n \/ Newer(d, s)) BY DEF step6
<1>2. IsConn(d) BY DEF Due6, Ready, Rx
<1>3. Aside(d, w)
  <2>1. Aside(d, m)
    <3> DEFINE x == Most(d.maxwnd, s.win)
    <3>1. m = [d EXCEPT !.wnd = s.win, !.wl1 = s.seq, !.wl2 = s.ack, !.maxwnd = x] OBVIOUS
    <3> HIDE DEF x, m
    <3> QED BY <1>2, <3>1, ZenonT(30) DEF Aside, Same, IsConn, Fields
  <2>2. Aside(d, d) BY <1>2 DEF Aside, Same
  <2> HIDE DEF m
  <2> QED BY <2>1, <2>2
<1> HIDE DEF w
<1>4. Aside(w, AckNow(w)) /\ Aside(w, w) BY <1>3, AckNowAside DEF Aside, Same
<1>5. Due6(w, s, gu) BY <1>3, AsideDue6
<1> HIDE DEF escape
<1>6. Due6(b, s, gu) BY <1>4, <1>5, AsideDue6
<1> HIDE DEF b
<1>7. CASE Estab(b)
  <2>1. Up(b, gu) /\ IsSeg(s) /\ (Quiet(s) \/ (gu.estab /\ InWindow(b, s, gu))) BY <1>6, <1>7 DEF Due6, Up
  <2>2. Taken(b, r, gu) BY <2>1, TextUp
  <2> HIDE DEF r
  <2>3. /\ r = <<r[1], r[2]>> /\ Ready(r[1], gu) /\ r[1].open
        /\ r[2] => Up(r[1], gu) /\ gu.estab /\ Received(r[1]) = Length(gu) /\ MayEnd(gu)
    BY <2>2 DEF Taken, Up
  <2> QED BY <1>1, <2>3, DodataDone
<1>8. CASE ~Estab(b)
  <2>1. Quiet(s) /\ Ready(b, gu) /\ b.open BY <1>6, <1>8 DEF Due6
  <2>2. r = <<b, FALSE>> BY <2>1 DEF Text, Quiet
  <2> HIDE DEF r
  <2> QED BY <1>1, <2>1, <2>2, DodataDone
<1> QED BY <1>7, <1>8

-----------------------------------------------------------------------------
(* The connection's states.                                                *)

Moved(d, t, armed) == [d EXCEPT !.t_state = t, !.armed = armed]
MovedUp(d, e, t, gu) ==
  /\ Up(e, gu) /\ Received(e) = Received(d) /\ e.rcv = d.rcv /\ e.irs = d.irs /\ e.seg = d.seg
  /\ IsConn(e) /\ e.t_state = t

LEMMA StateUp ==
  ASSUME NEW d, NEW gu, Up(d, gu), NEW t \in TCPS_ESTABLISHED .. TCPS_TIME_WAIT, NEW armed,
         t \in AfterFin => Ended(d, gu), d.t_state = TCPS_TIME_WAIT => t = TCPS_TIME_WAIT
  PROVE  MovedUp(d, Moved(d, t, armed), t, gu)
<1> DEFINE e == [d EXCEPT !.t_state = t, !.armed = armed]
<1>1. IsConn(d) /\ HostOK(d.h, gu) /\ Flowing(d, gu) BY UpIs
<1>2. /\ IsConn(e) /\ e.open = d.open /\ e.rnxt = d.rnxt /\ e.adv = d.adv /\ e.irs = d.irs /\ e.seg = d.seg
      /\ e.rcv = d.rcv /\ e.out = d.out /\ e.t_state = t /\ e.h = d.h /\ e.so_state = d.so_state
  BY <1>1 DEF IsConn, Fields
<1> HIDE DEF e
<1>3. Up(e, gu) /\ Received(e) = Received(d)
  <2>1. HostOK(e.h, gu) /\ (e.h.dead => e.h.cut) BY <1>1, <1>2 DEF Flowing
  <2>2. "FWDRAIN" \in e.so_state => Ended(d, gu) BY <1>1, <1>2 DEF Flowing
  <2>3. e.so_state \cap {"FCANTSENDMORE", "NOFDREF"} # {} => e.h.dead \/ Ended(d, gu)
    BY <1>1, <1>2 DEF Flowing
  <2> QED BY <1>2, <2>1, <2>2, <2>3, UpMoves
<1> QED BY <1>2, <1>3 DEF e, Moved, MovedUp

LEMMA SockClosedDone ==
  ASSUME NEW d, NEW gu, IsGuest(gu), Up(d, gu)
  PROVE  Done(tcp_sockclosed(d), gu)
<1> DEFINE t == CASE d.t_state \in {TCPS_SYN_RECEIVED, TCPS_ESTABLISHED} -> TCPS_FIN_WAIT_1
                  [] d.t_state = TCPS_CLOSE_WAIT -> TCPS_LAST_ACK
                  [] OTHER -> d.t_state
           e == Moved(d, t, d.armed)
<1>1. IsConn(d) /\ Flowing(d, gu) /\ d.t_state \in TCPS_ESTABLISHED .. TCPS_TIME_WAIT BY UpIs
<1>2. /\ t \in TCPS_ESTABLISHED .. TCPS_TIME_WAIT
      /\ t \in AfterFin => Ended(d, gu)
      /\ d.t_state = TCPS_TIME_WAIT => t = TCPS_TIME_WAIT
  <2>1. CASE d.t_state = TCPS_ESTABLISHED
    <3>1. t = TCPS_FIN_WAIT_1 BY <2>1, States
    <3> QED BY <2>1, <3>1, States DEF AfterFin
  <2>2. CASE d.t_state = TCPS_CLOSE_WAIT
    <3>1. t = TCPS_LAST_ACK BY <2>2, States
    <3> QED BY <1>1, <2>2, <3>1, States DEF Flowing
  <2>3. CASE d.t_state \notin {TCPS_ESTABLISHED, TCPS_CLOSE_WAIT}
    <3>1. t = d.t_state BY <1>1, <2>3, States
    <3> HIDE DEF t
    <3> QED BY <1>1, <3>1 DEF Flowing, AfterFin
  <2> QED BY <2>1, <2>2, <2>3
<1>3. tcp_sockclosed(d) = tcp_output(e)
  <2>1. ~(d.t_state <= TCPS_SYN_SENT) BY <1>1, States
  <2>2. tcp_sockclosed(d) = tcp_output([d EXCEPT !.t_state = t])
    BY <2>1 DEF tcp_sockclosed
  <2> HIDE DEF t
  <2>3. [d EXCEPT !.t_state = t] = e BY <1>1 DEF Moved, IsConn, Fields
  <2> QED BY <2>2, <2>3
<1> HIDE DEF t
<1>4. Up(e, gu) BY <1>2, StateUp DEF MovedUp
<1> HIDE DEF e
<1>5. Ready(e, gu) /\ e.open BY <1>4 DEF Up
<1> QED BY <1>3, <1>5, OutputsDone

\* The host's end changes.
LEMMA HostUp ==
  ASSUME NEW d, NEW gu, Up(d, gu), NEW h, HostOK(h, gu), h.got = d.h.got, d.h.dead => h.dead, h.dead => h.cut
  PROVE  Up([d EXCEPT !.h = h], gu)
<1> DEFINE e == [d EXCEPT !.h = h]
<1>1. IsConn(d) /\ Flowing(d, gu) /\ d.t_state \in TCPS_ESTABLISHED .. TCPS_TIME_WAIT BY UpIs
<1>2. /\ IsConn(e) /\ e.open = d.open /\ e.rnxt = d.rnxt /\ e.adv = d.adv /\ e.irs = d.irs /\ e.seg = d.seg
      /\ e.rcv = d.rcv /\ e.out = d.out /\ e.t_state = d.t_state /\ e.h = h /\ e.so_state = d.so_state
  BY <1>1 DEF IsConn, Fields
<1> HIDE DEF e
<1>3. Up(e, gu)
  <2>1. e.t_state \in AfterFin => Ended(d, gu) BY <1>1, <1>2 DEF Flowing, AfterFin
  <2>2. "FWDRAIN" \in e.so_state => Ended(d, gu) BY <1>1, <1>2 DEF Flowing
  <2>3. e.so_state \cap {"FCANTSENDMORE", "NOFDREF"} # {} => e.h.dead \/ Ended(d, gu)
    BY <1>1, <1>2 DEF Flowing
  <2> QED BY <1>1, <1>2, <2>1, <2>2, <2>3, UpMoves
<1> QED BY <1>3 DEF e

LEMMA CantRcvIs ==
  ASSUME NEW d, IsConn(d)
  PROVE  LET e == sofcantrcvmore(d)
         IN  \E so : /\ e = [d EXCEPT !.so_state = so]
                     /\ "ISFCONNECTING" \notin so /\ ("FWDRAIN" \in so => "FWDRAIN" \in d.so_state)
                     /\ so \cap {"FCANTSENDMORE", "NOFDREF"} # {} =>
                          d.so_state \cap {"FCANTSENDMORE", "NOFDREF"} # {}
<1> DEFINE so == IF "FCANTSENDMORE" \in d.so_state THEN (d.so_state \cap {"INCOMING"}) \cup {"NOFDREF"}
                 ELSE (d.so_state \ {"ISFCONNECTING"}) \cup {"FCANTRCVMORE"}
<1>1. sofcantrcvmore(d) = [d EXCEPT !.so_state = so] BY DEF sofcantrcvmore, IsConn, Fields
<1>2. /\ "ISFCONNECTING" \notin so /\ ("FWDRAIN" \in so => "FWDRAIN" \in d.so_state)
      /\ so \cap {"FCANTSENDMORE", "NOFDREF"} # {} => d.so_state \cap {"FCANTSENDMORE", "NOFDREF"} # {}
  <2>1. CASE "FCANTSENDMORE" \in d.so_state BY <2>1
  <2>2. CASE "FCANTSENDMORE" \notin d.so_state BY <2>2
  <2> QED BY <2>1, <2>2
<1> HIDE DEF so
<1> QED BY <1>1, <1>2

LEMMA CantRcvUp ==
  ASSUME NEW d, NEW gu, Up(d, gu)
  PROVE  Up(sofcantrcvmore(d), gu)
<1> DEFINE e == sofcantrcvmore(d)
<1>1. IsConn(d) /\ HostOK(d.h, gu) /\ Flowing(d, gu) /\ d.t_state \in TCPS_ESTABLISHED .. TCPS_TIME_WAIT BY UpIs
<1>2. PICK so : /\ e = [d EXCEPT !.so_state = so]
                /\ "ISFCONNECTING" \notin so /\ ("FWDRAIN" \in so => "FWDRAIN" \in d.so_state)
                /\ so \cap {"FCANTSENDMORE", "NOFDREF"} # {} =>
                     d.so_state \cap {"FCANTSENDMORE", "NOFDREF"} # {}
  BY <1>1, CantRcvIs
<1> HIDE DEF e
<1>3. /\ IsConn(e) /\ e.open = d.open /\ e.rnxt = d.rnxt /\ e.adv = d.adv /\ e.irs = d.irs /\ e.seg = d.seg
      /\ e.rcv = d.rcv /\ e.out = d.out /\ e.t_state = d.t_state /\ e.h = d.h /\ e.so_state = so
  BY <1>1, <1>2 DEF IsConn, Fields
<1>4. Up(e, gu)
  <2>1. e.t_state \in AfterFin => Ended(d, gu) BY <1>1, <1>3 DEF Flowing, AfterFin
  <2>2. "FWDRAIN" \in e.so_state => Ended(d, gu) BY <1>1, <1>2, <1>3 DEF Flowing
  <2>3. e.so_state \cap {"FCANTSENDMORE", "NOFDREF"} # {} => e.h.dead \/ Ended(d, gu)
    BY <1>1, <1>2, <1>3 DEF Flowing
  <2>4. "ISFCONNECTING" \in e.so_state => "ISFCONNECTING" \in d.so_state BY <1>2, <1>3
  <2>5. HostOK(e.h, gu) /\ (e.h.dead => e.h.cut) BY <1>1, <1>3 DEF Flowing
  <2> QED BY <1>1, <1>3, <2>1, <2>2, <2>3, <2>4, <2>5, UpMoves
<1> QED BY <1>4 DEF e

-----------------------------------------------------------------------------
(* The host's events.                                                      *)

\* what the host's end may become while nothing is written to it
HostEnds(h, i) ==
  /\ i = [f \in HostFields |-> i[f]] /\ i.got = h.got /\ i.room = h.room /\ i.eof = h.eof
  /\ i.cut \in BOOLEAN /\ (h.cut => i.cut) /\ i.dead \in BOOLEAN /\ (h.dead => i.dead)

LEMMA HostEndsOK ==
  ASSUME NEW h, NEW i, NEW gu, HostOK(h, gu), HostEnds(h, i)
  PROVE  HostOK(i, gu)
<1>1. h.room \in Nat /\ h.eof \in BOOLEAN /\ h.cut \in BOOLEAN BY DEF HostOK
<1>2. i.eof /\ ~i.cut => Len(i.got) = Length(gu) /\ MayEnd(gu) BY <1>1 DEF HostOK, HostEnds
<1> QED BY <1>1, <1>2, HostMoves DEF HostEnds

LEMMA ReadDone ==
  ASSUME NEW d, NEW gu, IsGuest(gu), Up(d, gu), NEW n
  PROVE  Done(tcp_output(soread(d, n)), gu)
<1> DEFINE k == d.h.k + n
           snd == sbappendsb(d.snd, [i \in 1 .. n |-> d.h.k + i])
           h == [d.h EXCEPT !.k = k]
           x == [d EXCEPT !.h = h]
           e == [x EXCEPT !.snd = snd]
<1>1. IsConn(d) /\ HostOK(d.h, gu) /\ Flowing(d, gu) BY UpIs
<1>2. soread(d, n) = e BY <1>1 DEF soread, IsConn, Fields
<1> HIDE DEF k, snd
<1>3. HostEnds(d.h, h) /\ h.dead = d.h.dead /\ h.cut = d.h.cut BY <1>1 DEF HostEnds, HostOK, HostFields
<1> HIDE DEF h
<1>4. Up(x, gu)
  <2>1. HostOK(h, gu) BY <1>1, <1>3, HostEndsOK
  <2> QED BY <1>1, <1>3, <2>1, HostUp DEF HostEnds, Flowing
<1> HIDE DEF x
<1>5. IsConn(x) BY <1>4, UpIs
<1>6. Aside(x, e) BY <1>5 DEF Aside, Same, IsConn, Fields
<1> HIDE DEF e
<1>7. Up(e, gu) BY <1>4, <1>6, AsideUp
<1> QED BY <1>2, <1>7, OutputsDone DEF Up

LEMMA ReadEndDone ==
  ASSUME NEW d, NEW gu, IsGuest(gu), Up(d, gu)
  PROVE  Done(soread_End(d), gu)
<1> DEFINE h == [d.h EXCEPT !.ended = TRUE]
           x == [d EXCEPT !.h = h]
<1>1. IsConn(d) /\ HostOK(d.h, gu) /\ Flowing(d, gu) BY UpIs
<1>2. soread_End(d) = tcp_sockclosed(sofcantrcvmore(x)) BY <1>1 DEF soread_End, IsConn, Fields
<1>3. HostEnds(d.h, h) /\ h.dead = d.h.dead /\ h.cut = d.h.cut BY <1>1 DEF HostEnds, HostOK, HostFields
<1> HIDE DEF h
<1>4. Up(x, gu)
  <2>1. HostOK(h, gu) BY <1>1, <1>3, HostEndsOK
  <2> QED BY <1>1, <1>3, <2>1, HostUp DEF HostEnds, Flowing
<1> HIDE DEF x
<1> QED BY <1>2, <1>4, CantRcvUp, SockClosedDone

LEMMA ReadResetDone ==
  ASSUME NEW d, NEW gu, IsGuest(gu), Up(d, gu)
  PROVE  Done(soread_Reset(d), gu)
<1> DEFINE h == [d.h EXCEPT !.ended = TRUE, !.dead = TRUE]
           x == [d EXCEPT !.h = h]
           y == sofcantrcvmore(x)
<1>1. IsConn(d) /\ HostOK(d.h, gu) /\ Sound(d) /\ Plain(d.out) BY UpIs
<1>2. soread_Reset(d) = tcp_drop(y) BY <1>1 DEF soread_Reset, IsConn, Fields
<1>3. HostEnds(d.h, h) BY <1>1 DEF HostEnds, HostOK, HostFields
<1>4. HostOK(h, gu)
  <2> HIDE DEF h
  <2> QED BY <1>1, <1>3, HostEndsOK
<1> HIDE DEF h
<1>5. Sound(x) /\ x.h = h /\ x.out = d.out BY <1>1 DEF Sound, IsConn, Fields
<1> HIDE DEF x
<1>6. PICK so : y = [x EXCEPT !.so_state = so] BY <1>5, CantRcvIs DEF Sound
<1> HIDE DEF y
<1>7. Sound(y) /\ y.h = h /\ y.out = d.out BY <1>5, <1>6 DEF Sound, IsConn, Fields
<1> QED BY <1>1, <1>2, <1>4, <1>7, DropSound, ReadyIsDone

LEMMA WriteLostDone ==
  ASSUME NEW d, NEW gu, IsGuest(gu), Up(d, gu)
  PROVE  Done(sowrite_Lost(d), gu)
<1> DEFINE h == [d.h EXCEPT !.dead = TRUE, !.ended = TRUE]
           x == [d EXCEPT !.h = h]
           y == sofcantsendmore(x)
           i == [y.h EXCEPT !.cut = TRUE]
           e == [y EXCEPT !.h = i]
<1>1. IsConn(d) /\ HostOK(d.h, gu) /\ Flowing(d, gu) /\ d.t_state \in TCPS_ESTABLISHED .. TCPS_TIME_WAIT BY UpIs
<1>2. HostEnds(d.h, h) /\ h.dead BY <1>1 DEF HostEnds, HostOK, HostFields
<1>3. HostOK(h, gu)
  <2> HIDE DEF h
  <2> QED BY <1>1, <1>2, HostEndsOK
<1>4. x = [d EXCEPT !.h.dead = TRUE, !.h.ended = TRUE] BY <1>1 DEF IsConn, Fields
<1> HIDE DEF h
<1>5. /\ IsConn(x) /\ x.h = h /\ x.open = d.open /\ x.rnxt = d.rnxt /\ x.adv = d.adv /\ x.irs = d.irs /\ x.seg = d.seg
      /\ x.rcv = d.rcv /\ x.out = d.out /\ x.t_state = d.t_state /\ x.so_state = d.so_state
  BY <1>1 DEF IsConn, Fields
<1>6. sowrite_Lost(d) = tcp_sockclosed(e)
  <2>1. sowrite_Lost(d) = tcp_sockclosed([y EXCEPT !.h.cut = TRUE]) BY <1>4 DEF sowrite_Lost
  <2> HIDE DEF x, y
  <2>2. OfSocket(x, y) BY <1>3, <1>5, CantSend DEF y
  <2>3. [y EXCEPT !.h.cut = TRUE] = e BY <2>2 DEF OfSocket, IsConn, Fields
  <2> QED BY <2>1, <2>3
<1> HIDE DEF x
<1>7. OfSocket(x, y) /\ y.h.eof \in BOOLEAN /\ ("FWDRAIN" \in y.so_state => "FWDRAIN" \in x.so_state)
  BY <1>3, <1>5, CantSend
<1> HIDE DEF y
<1>8. i = [f \in HostFields |-> i[f]] /\ i.got = d.h.got /\ i.dead /\ i.cut /\ i.eof = y.h.eof /\ i.room = d.h.room
  BY <1>2, <1>5, <1>7 DEF OfSocket, HostFields, HostEnds
<1> HIDE DEF i
<1>9. HostOK(i, gu)
  <2>1. d.h.room \in Nat BY <1>1 DEF HostOK
  <2>2. i.dead \in BOOLEAN /\ i.cut \in BOOLEAN
    <3>1. h.dead = TRUE BY <1>2, <1>3 DEF HostOK
    <3>2. y.h.dead = TRUE BY <1>5, <1>7, <3>1 DEF OfSocket
    <3> QED BY <1>7, <3>2 DEF OfSocket, HostFields, i
  <2> QED BY <1>1, <1>7, <1>8, <2>1, <2>2, HostMoves
<1>10. /\ IsConn(e) /\ e.open = d.open /\ e.rnxt = d.rnxt /\ e.adv = d.adv /\ e.irs = d.irs /\ e.seg = d.seg
       /\ e.rcv = d.rcv /\ e.out = d.out /\ e.t_state = d.t_state /\ e.h = i /\ e.so_state = y.so_state
  BY <1>5, <1>7 DEF OfSocket, IsConn, Fields
<1> HIDE DEF e
<1>11. Up(e, gu)
  <2>1. e.t_state \in AfterFin => Ended(d, gu) BY <1>1, <1>10 DEF Flowing, AfterFin
  <2>2. "FWDRAIN" \in e.so_state => Ended(d, gu) BY <1>1, <1>5, <1>7, <1>10 DEF Flowing
  <2>3. e.h.dead /\ e.h.cut BY <1>8, <1>10
  <2>4. "ISFCONNECTING" \in e.so_state => "ISFCONNECTING" \in d.so_state BY <1>5, <1>7, <1>10 DEF OfSocket
  <2> QED BY <1>1, <1>8, <1>9, <1>10, <2>1, <2>2, <2>3, <2>4, UpMoves
<1> QED BY <1>6, <1>11, SockClosedDone

LEMMA CopyIs ==
  ASSUME NEW b, Ring(b), NEW k \in Int, Holds(b, k), NEW n \in 0 .. b.cc
  PROVE  /\ sbcopy(b, 0, n) \in Seq(Int) /\ Len(sbcopy(b, 0, n)) = n
         /\ \A i \in 1 .. n : sbcopy(b, 0, n)[i] = k + i
<1>1. b.rptr \in Int /\ b.cc \in Nat BY Spaces DEF Ring
<1>2. \A i \in 1 .. n : b.data[(b.rptr + 0 + i - 1) % b.datalen] = k + i
  <2> SUFFICES ASSUME NEW i \in 1 .. n PROVE b.data[(b.rptr + 0 + i - 1) % b.datalen] = k + i OBVIOUS
  <2>1. b.rptr + 0 + i - 1 = b.rptr + (i - 1) BY <1>1
  <2>2. i \in 1 .. b.cc BY <1>1
  <2>3. b.data[(b.rptr + (i - 1)) % b.datalen] = k + i BY <2>2 DEF Holds
  <2> QED BY <2>1, <2>3
<1> DEFINE F(i) == b.data[(b.rptr + 0 + i - 1) % b.datalen]
           c1 == [i \in 1 .. n |-> F(i)]
<1>3. sbcopy(b, 0, n) = c1 BY DEF sbcopy
<1>4. \A i \in 1 .. n : F(i) = k + i /\ F(i) \in Int BY <1>2
<1> HIDE DEF F
<1>5. n \in Nat BY <1>1
<1>6. c1 \in Seq(Int) /\ Len(c1) = n /\ \A i \in 1 .. n : c1[i] = k + i BY <1>4, <1>5
<1> QED BY <1>3, <1>6

\* n bytes go from the buffer to the host
LEMMA WriteUp ==
  ASSUME NEW d, NEW gu, IsGuest(gu), Up(d, gu), ~d.h.dead, NEW n \in 1 .. d.rcv.cc
  PROVE  Up([d EXCEPT !.h.got = @ \o sbcopy(d.rcv, 0, n), !.rcv = sbdrop(@, n)], gu)
<1> DEFINE bytes == sbcopy(d.rcv, 0, n)
           rcv == sbdrop(d.rcv, n)
           got == d.h.got \o bytes
           h == [d.h EXCEPT !.got = got]
           e == [d EXCEPT !.h = h, !.rcv = rcv]
           k == Len(d.h.got)
           L == Length(gu)
           R == Received(d)
<1>1. /\ IsConn(d) /\ d.open = TRUE /\ Plain(d.out) /\ HostOK(d.h, gu) /\ Sound(d)
      /\ Numbered(d, gu) /\ Flowing(d, gu) /\ Linked(d, gu) /\ Opened(d, gu)
      /\ d.t_state \in TCPS_ESTABLISHED .. TCPS_TIME_WAIT /\ d.t_state \notin Early /\ Synced(d) /\ Estab(d)
  BY UpIs
<1>2. [d EXCEPT !.h.got = @ \o sbcopy(d.rcv, 0, n), !.rcv = sbdrop(@, n)] = e
  BY <1>1 DEF IsConn, Fields
<1>3. Holds(d.rcv, k) /\ k + d.rcv.cc = Least(R, L) /\ k \in Nat /\ d.rcv.cc \in Nat /\ Ring(d.rcv)
      /\ sbspace(d.rcv) \in 0 .. SPACE + MSS
  <2>1. k \in Nat BY <1>1 DEF HostOK
  <2> QED BY <1>1, <2>1, BufferSpace DEF Flowing, Sound
<1>4. R \in 0 .. L + 1 /\ L \in Nat BY <1>1 DEF Numbered, IsGuest
<1>5. k + d.rcv.cc <= L
  <2>1. R \in Int /\ L \in Int BY <1>4
  <2>2. k + d.rcv.cc = Least(R, L) BY <1>3
  <2> HIDE DEF R, L, k
  <2>3. Least(R, L) <= L BY <2>1 DEF Least
  <2> QED BY <2>2, <2>3
<1>6. bytes \in Seq(Int) /\ Len(bytes) = n /\ \A i \in 1 .. n : bytes[i] = k + i
  <2>1. k \in Int /\ n \in 0 .. d.rcv.cc BY <1>3
  <2> HIDE DEF k
  <2> QED BY <1>3, <2>1, CopyIs
<1>7. Ring(rcv) /\ rcv.cc = d.rcv.cc - n /\ rcv.datalen = d.rcv.datalen /\ Holds(rcv, k + n)
  <2>1. n \in 0 .. d.rcv.cc BY <1>3
  <2>2. k \in Int BY <1>3
  <2> HIDE DEF k
  <2> QED BY <1>3, <2>1, <2>2, RingDrop
<1> HIDE DEF rcv, bytes
<1>8. got \in Seq(Int) /\ Len(got) = k + n /\ \A i \in 1 .. k + n : got[i] = i
  <2>1. d.h.got \in Seq(Int) /\ \A i \in 1 .. k : d.h.got[i] = i BY <1>1 DEF HostOK
  <2>2. got \in Seq(Int) /\ Len(got) = k + n BY <1>3, <1>6, <2>1
  <2>3. ASSUME NEW i \in 1 .. k + n PROVE got[i] = i
    <3>1. CASE i <= k BY <1>3, <1>6, <2>1, <3>1
    <3>2. CASE i > k
      <4>1. got[i] = bytes[i - k] BY <1>3, <1>6, <2>1, <3>2
      <4>2. i - k \in 1 .. n BY <1>3, <3>2
      <4>3. bytes[i - k] = k + (i - k) BY <1>6, <4>2
      <4> QED BY <1>3, <4>1, <4>3
    <3>3. k \in Int /\ i \in Int BY <1>3
    <3> HIDE DEF k, got
    <3>4. i <= k \/ i > k BY <3>3
    <3> QED BY <3>1, <3>2, <3>4
  <2> QED BY <2>2, <2>3
<1> HIDE DEF got
<1>9. h = [f \in HostFields |-> h[f]] /\ h.got = got /\ h.room = d.h.room /\ h.dead = d.h.dead
      /\ h.cut = d.h.cut /\ h.eof = d.h.eof
  BY <1>1 DEF HostOK, HostFields
<1> HIDE DEF h
<1>10. HostOK(h, gu)
  <2>1. d.h.eof /\ ~d.h.cut => k = L BY <1>1 DEF HostOK
  <2>2. ~(d.h.eof /\ ~d.h.cut) BY <1>3, <1>4, <1>5, <2>1
  <2>3. Len(got) <= L BY <1>3, <1>4, <1>5, <1>8
  <2> QED BY <1>1, <1>8, <1>9, <2>2, <2>3 DEF HostOK
<1>11. /\ IsConn(e) /\ e.open = d.open /\ e.rnxt = d.rnxt /\ e.adv = d.adv /\ e.irs = d.irs /\ e.seg = d.seg
       /\ e.rcv = rcv /\ e.out = d.out /\ e.t_state = d.t_state /\ e.h = h /\ e.so_state = d.so_state
  BY <1>1 DEF IsConn, Fields
<1> HIDE DEF e
<1>12. Received(e) = R /\ sbspace(e.rcv) = sbspace(d.rcv) + n
  <2>1. Received(e) = R BY <1>11 DEF Received
  <2>2. d.rcv.datalen \in Int BY <1>3, Spaces DEF Ring
  <2> QED BY <1>3, <1>7, <1>11, <2>1, <2>2 DEF sbspace
<1>13. Sound(e) BY <1>1, <1>7, <1>11 DEF Sound
<1> HIDE DEF k, L, R
<1>14. Numbered(e, gu)
  <2>1. PICK a \in 0 .. R + TCP_MAXWIN : d.adv = Plus(d.irs, a + 1) /\ a <= R + sbspace(d.rcv)
    BY <1>1 DEF Numbered, R
  <2>2. a <= R + sbspace(e.rcv) BY <1>3, <1>4, <1>12, <2>1, Spaces
  <2> QED BY <1>1, <1>11, <1>12, <2>1, <2>2 DEF Numbered, R
<1>15. ASSUME NEW q, PieceOK(q, d, gu) PROVE PieceOK(q, e, gu)
  <2>1. PICK p \in 0 .. L : /\ Placed(q.seq, q.data, d.irs, p, L) /\ p + Len(q.data) <= R + sbspace(d.rcv)
                            /\ q.fin => p + Len(q.data) = L /\ MayEnd(gu)
    BY <1>15 DEF PieceOK, L, R
  <2>2. Len(q.data) \in Nat BY <2>1 DEF Placed
  <2> DEFINE m == Len(q.data)
  <2> HIDE DEF m
  <2>3. p + m <= R + sbspace(e.rcv)
    <3>1. m \in Int /\ p \in Int /\ p + m <= R + sbspace(d.rcv) BY <1>4, <2>1, <2>2 DEF m
    <3> QED BY <1>3, <1>4, <1>12, <3>1
  <2> QED BY <1>11, <1>12, <2>1, <2>3 DEF PieceOK, m, L
<1>16. Flowing(e, gu)
  <2>1. (k + n) + (d.rcv.cc - n) = k + d.rcv.cc BY <1>3
  <2>2. \A i \in 1 .. Len(e.seg) : PieceOK(e.seg[i], e, gu) BY <1>1, <1>11, <1>15 DEF Flowing
  <2>3. Holds(e.rcv, Len(e.h.got)) /\ Len(e.h.got) + e.rcv.cc = Least(Received(e), Length(gu))
    BY <1>3, <1>7, <1>8, <1>9, <1>11, <1>12, <2>1 DEF R, L
  <2> QED BY <1>1, <1>9, <1>11, <1>12, <2>2, <2>3 DEF Flowing, Ended, R
<1>17. Linked(e, gu)
  <2>1. d.rcv.cc # 0 BY <1>3
  <2> QED BY <1>1, <1>11, <2>1 DEF Linked, Old, Synced, Estab
<1>18. Opened(e, gu) BY <1>1, <1>11, <1>13, <1>14, <1>16, <1>17 DEF Opened
<1>19. Up(e, gu) BY <1>1, <1>10, <1>11, <1>18 DEF Up, Ready, Rx, Estab
<1> QED BY <1>2, <1>19

\* the guest's end is told when the buffer is empty
LEMMA DrainedUp ==
  ASSUME NEW d, NEW gu, IsGuest(gu), Up(d, gu), "FWDRAIN" \in d.so_state, d.rcv.cc = 0
  PROVE  Up(sofcantsendmore(d), gu)
<1> DEFINE e == sofcantsendmore(d)
<1>1. IsConn(d) /\ HostOK(d.h, gu) /\ Flowing(d, gu) /\ d.t_state \in TCPS_ESTABLISHED .. TCPS_TIME_WAIT BY UpIs
<1>2. OfSocket(d, e) /\ e.h.eof \in BOOLEAN BY <1>1, CantSend
<1> HIDE DEF e
<1>3. Ended(d, gu) /\ MayEnd(gu) BY <1>1 DEF Flowing
<1>4. d.h.dead \/ Len(d.h.got) = Length(gu)
  <2>1. ~d.h.dead => Len(d.h.got) + 0 = Least(Length(gu) + 1, Length(gu)) BY <1>1, <1>3 DEF Flowing, Ended
  <2>2. Least(Length(gu) + 1, Length(gu)) = Length(gu) BY Ample, LeastIs
  <2>3. Len(d.h.got) \in Nat BY <1>1 DEF HostOK
  <2> QED BY <2>1, <2>2, <2>3
<1>5. HostOK(e.h, gu)
  <2>1. d.h.room \in Nat /\ d.h.dead \in BOOLEAN /\ d.h.cut \in BOOLEAN BY <1>1 DEF HostOK
  <2>2. e.h.eof /\ ~e.h.cut => Len(e.h.got) = Length(gu) /\ MayEnd(gu)
    BY <1>1, <1>2, <1>3, <1>4 DEF OfSocket, Flowing
  <2> QED BY <1>1, <1>2, <2>1, <2>2, HostMoves DEF OfSocket
<1>6. Up(e, gu)
  <2>1. e.t_state \in AfterFin => Ended(d, gu) BY <1>3
  <2>2. e.h.dead => e.h.cut BY <1>1, <1>2 DEF OfSocket, Flowing
  <2>3. "ISFCONNECTING" \in e.so_state => "ISFCONNECTING" \in d.so_state BY <1>2 DEF OfSocket
  <2> QED BY <1>1, <1>2, <1>3, <1>5, <2>2, <2>3, UpMoves DEF OfSocket
<1> QED BY <1>6 DEF e

LEMMA WriteDone ==
  ASSUME NEW d, NEW gu, IsGuest(gu), Up(d, gu), ~d.h.dead, NEW n \in 1 .. d.rcv.cc
  PROVE  Done(sowrite(d, n), gu)
<1> DEFINE e == [d EXCEPT !.h.got = @ \o sbcopy(d.rcv, 0, n), !.rcv = sbdrop(@, n)]
           f == IF "FWDRAIN" \in e.so_state /\ e.rcv.cc = 0 THEN sofcantsendmore(e) ELSE e
<1>1. sowrite(d, n) = tcp_output(f) BY DEF sowrite
<1>2. Up(e, gu) BY WriteUp
<1> HIDE DEF e
<1>3. Up(f, gu) BY <1>2, DrainedUp
<1> HIDE DEF f
<1> QED BY <1>1, <1>3, OutputsDone DEF Up

-----------------------------------------------------------------------------
(* Acknowledgements.                                                       *)

LEMMA AsideTwice ==
  ASSUME NEW d, NEW e, NEW f, Aside(d, e), Aside(e, f)
  PROVE  Aside(d, f)
BY DEF Aside, Same

LEMMA ArmAside ==
  ASSUME NEW d, IsConn(d), NEW t
  PROVE  Aside(d, Arm(d, t)) /\ Aside(d, Disarm(d, t)) /\ Aside(d, d)
BY DEF Aside, Same, IsConn, Fields, Arm, Disarm

\* s is what is left of a segment, and lies in the window of a connection that stands
Fits(d, s, gu) ==
  Up(d, gu) /\ IsSeg(s) /\ (Quiet(s) \/ (gu.estab /\ InWindow(d, s, gu)))

LEMMA FitsDue ==
  ASSUME NEW d, NEW s, NEW gu, Fits(d, s, gu)
  PROVE  Due6(d, s, gu) /\ IsConn(d) /\ Ready(d, gu) /\ d.open /\ Up(d, gu)
<1>1. Up(d, gu) BY DEF Fits
<1>2. IsConn(d) BY <1>1, UpIs
<1> QED BY <1>1, <1>2 DEF Fits, Due6, Up

LEMMA AsideFits ==
  ASSUME NEW d, NEW e, NEW s, NEW gu, Fits(d, s, gu), Aside(d, e)
  PROVE  Fits(e, s, gu)
<1>1. Up(e, gu) /\ Received(e) = Received(d) BY AsideUp DEF Fits
<1>2. InWindow(d, s, gu) => InWindow(e, s, gu) BY <1>1 DEF InWindow, Aside, Same
<1> QED BY <1>1, <1>2 DEF Fits

\* the state moves, the window stays
LEMMA StateFits ==
  ASSUME NEW d, NEW s, NEW gu, Fits(d, s, gu), NEW t \in TCPS_ESTABLISHED .. TCPS_TIME_WAIT, NEW armed,
         t \in AfterFin => Ended(d, gu), d.t_state = TCPS_TIME_WAIT => t = TCPS_TIME_WAIT
  PROVE  Fits(Moved(d, t, armed), s, gu)
<1> DEFINE e == Moved(d, t, armed)
<1>0. Up(d, gu) BY DEF Fits
<1>1. Up(e, gu) /\ Received(e) = Received(d) /\ e.rcv = d.rcv /\ e.irs = d.irs BY <1>0, StateUp DEF MovedUp
<1> HIDE DEF e
<1>2. InWindow(d, s, gu) => InWindow(e, s, gu) BY <1>1 DEF InWindow
<1>3. Fits(e, s, gu) BY <1>1, <1>2 DEF Fits
<1> QED BY <1>3 DEF e

LEMMA SettleDone ==
  ASSUME NEW d, NEW s, NEW gu, IsGuest(gu), Fits(d, s, gu), NEW f, NEW n
  PROVE  Done(Settle(d, s, f, n), gu)
<1>1. /\ IsConn(d) /\ Ready(d, gu) /\ d.open /\ Up(d, gu) /\ HostOK(d.h, gu) /\ Plain(d.out) /\ Flowing(d, gu)
      /\ d.t_state \in TCPS_ESTABLISHED .. TCPS_TIME_WAIT
  BY FitsDue, UpIs
<1>2. CASE d.t_state = TCPS_LAST_ACK /\ f
  <2>1. Settle(d, s, f, n) = tcp_close(d) BY <1>2, States DEF Settle
  <2> QED BY <1>1, <2>1, CloseReady, ReadyIsDone
<1>3. CASE d.t_state = TCPS_TIME_WAIT
  <2>1. Settle(d, s, f, n) = dropafterack(Arm(d, "2MSL"), s) BY <1>3, States DEF Settle
  <2>2. Fits(Arm(d, "2MSL"), s, gu) BY <1>1, ArmAside, AsideFits
  <2> QED BY <2>1, <2>2, FitsDue, DropAfterAckDone
<1>4. CASE ~(d.t_state = TCPS_LAST_ACK /\ f) /\ d.t_state # TCPS_TIME_WAIT
  <2> DEFINE more == d.armed \cup (IF "FCANTRCVMORE" \in d.so_state THEN {"2MSL"} ELSE {})
             x == Moved(d, TCPS_FIN_WAIT_2, more)
             y == Moved(d, TCPS_TIME_WAIT, {"2MSL"})
             e == CASE d.t_state = TCPS_FIN_WAIT_1 /\ f ->
                         [d EXCEPT !.t_state = TCPS_FIN_WAIT_2,
                                   !.armed = @ \cup (IF "FCANTRCVMORE" \in d.so_state THEN {"2MSL"} ELSE {})]
                    [] d.t_state = TCPS_CLOSING /\ f ->
                         Arm(tcp_canceltimers([d EXCEPT !.t_state = TCPS_TIME_WAIT]), "2MSL")
                    [] OTHER -> d
  <2>1. Settle(d, s, f, n) = step6(e, s, n) BY <1>4 DEF Settle
  <2>2. /\ d.t_state = TCPS_FIN_WAIT_1 /\ f => e = x
        /\ d.t_state = TCPS_CLOSING /\ f => e = y
        /\ ~(d.t_state = TCPS_FIN_WAIT_1 /\ f) /\ ~(d.t_state = TCPS_CLOSING /\ f) => e = d
    <3>1. ASSUME d.t_state = TCPS_FIN_WAIT_1, f PROVE e = x
      <4>1. e = [d EXCEPT !.t_state = TCPS_FIN_WAIT_2,
                          !.armed = @ \cup (IF "FCANTRCVMORE" \in d.so_state THEN {"2MSL"} ELSE {})]
        BY <3>1, States
      <4> HIDE DEF e
      <4> QED BY <1>1, <4>1 DEF Moved, IsConn, Fields
    <3>2. ASSUME d.t_state = TCPS_CLOSING, f PROVE e = y
      <4>1. e = Arm(tcp_canceltimers([d EXCEPT !.t_state = TCPS_TIME_WAIT]), "2MSL") BY <3>2, States
      <4> HIDE DEF e
      <4> QED BY <1>1, <4>1 DEF Moved, IsConn, Fields, Arm, tcp_canceltimers
    <3>3. ASSUME ~(d.t_state = TCPS_FIN_WAIT_1 /\ f), ~(d.t_state = TCPS_CLOSING /\ f) PROVE e = d BY <3>3
    <3> HIDE DEF e, x, y
    <3> QED BY <3>1, <3>2, <3>3
  <2> HIDE DEF e, more
  <2>3. Fits(x, s, gu)
    <3>1. TCPS_FIN_WAIT_2 \in TCPS_ESTABLISHED .. TCPS_TIME_WAIT /\ TCPS_FIN_WAIT_2 \notin AfterFin
      BY States DEF AfterFin
    <3> QED BY <1>4, <3>1, StateFits
  <2>4. d.t_state = TCPS_CLOSING => Fits(y, s, gu)
    <3>1. d.t_state = TCPS_CLOSING => Ended(d, gu) BY <1>1 DEF Flowing
    <3>2. TCPS_TIME_WAIT \in TCPS_ESTABLISHED .. TCPS_TIME_WAIT BY States
    <3> QED BY <1>4, <3>1, <3>2, StateFits
  <2>5. Fits(e, s, gu)
    <3> HIDE DEF x, y
    <3> QED BY <2>2, <2>3, <2>4
  <2> QED BY <2>1, <2>5, FitsDue, Step6Done
<1> QED BY <1>2, <1>3, <1>4

LEMMA AcknowledgeDone ==
  ASSUME NEW d, NEW s, NEW gu, IsGuest(gu), Fits(d, s, gu), NEW n
  PROVE  Done(Acknowledge(d, s, n), gu)
<1> DEFINE acked == Diff(s.ack, d.una)
           k == Least(acked, d.snd.cc)
           x == tcp_xmit_timer(d, s)
           y == Reckon(x, s)
           z == Open(y)
           snd == sbdrop(z.snd, k)
           wnd == UDiff(z.wnd, k)
           nxt == IF SEQ_LT(z.nxt, s.ack) THEN s.ack ELSE z.nxt
           e == [z EXCEPT !.snd = snd, !.wnd = wnd, !.una = s.ack, !.nxt = nxt]
<1>1. IsConn(d) BY FitsDue
<1>2. Aside(d, x)
  <2>1. Aside(d, [d EXCEPT !.rtseq = Untimed, !.rxtshift = 0]) /\ Aside(d, d)
    BY <1>1 DEF Aside, Same, IsConn, Fields
  <2> QED BY <2>1 DEF tcp_xmit_timer
<1>3. [z EXCEPT !.snd = sbdrop(@, k), !.wnd = UDiff(@, k), !.una = s.ack,
                !.nxt = IF SEQ_LT(@, s.ack) THEN s.ack ELSE @] = e
  OBVIOUS
<1> HIDE DEF x
<1>4. Aside(x, y)
  <2>1. IsConn(x) BY <1>2 DEF Aside, Same
  <2> QED BY <2>1, ArmAside DEF Reckon
<1> HIDE DEF y
<1>5. Aside(y, z)
  <2> DEFINE cwnd == Least(y.cwnd + (IF y.cwnd > y.ssthresh THEN (y.maxseg * y.maxseg) \div y.cwnd ELSE y.maxseg),
                           TCP_MAXWIN)
  <2>1. z = [y EXCEPT !.cwnd = cwnd] BY DEF Open
  <2> HIDE DEF cwnd, z
  <2>2. IsConn(y) BY <1>4 DEF Aside, Same
  <2> QED BY <2>1, <2>2 DEF Aside, Same, IsConn, Fields
<1>6. Acknowledge(d, s, n) = Settle(e, s, acked > d.snd.cc, n \/ s.ack = d.max)
  BY <1>3 DEF Acknowledge, x, y
<1> HIDE DEF z, k, acked, snd, wnd, nxt
<1>7. Aside(z, e)
  <2>1. IsConn(z) BY <1>5 DEF Aside, Same
  <2> QED BY <2>1, ZenonT(30) DEF Aside, Same, IsConn, Fields
<1> HIDE DEF e
<1>8. Fits(e, s, gu) BY <1>2, <1>4, <1>5, <1>7, AsideTwice, AsideFits
<1> QED BY <1>6, <1>8, SettleDone

LEMMA SynrxDone ==
  ASSUME NEW d, NEW s, NEW gu, IsGuest(gu), Fits(d, s, gu), NEW n
  PROVE  Done(synrx_to_est(d, s, n), gu)
<1> DEFINE cwnd == IF d.dupacks > TCPREXMTTHRESH /\ d.cwnd > d.ssthresh THEN d.ssthresh ELSE d.cwnd
           e == [d EXCEPT !.dupacks = 0, !.cwnd = cwnd]
<1>1. synrx_to_est(d, s, n) = IF SEQ_GT(s.ack, d.max) THEN dropafterack(e, s) ELSE Acknowledge(e, s, n)
  BY DEF synrx_to_est
<1> HIDE DEF cwnd
<1>2. IsConn(d) BY FitsDue
<1>3. Aside(d, e) BY <1>2 DEF Aside, Same, IsConn, Fields
<1> HIDE DEF e
<1>4. Fits(e, s, gu) BY <1>3, AsideFits
<1>5. Done(dropafterack(e, s), gu) BY <1>4, FitsDue, DropAfterAckDone
<1>6. Done(Acknowledge(e, s, n), gu) BY <1>4, AcknowledgeDone
<1> QED BY <1>1, <1>5, <1>6

LEMMA AsideDone ==
  ASSUME NEW d, NEW e, NEW gu, Done(d, gu), Aside(d, e)
  PROVE  Done(e, gu)
<1>1. Rx(e, gu) BY AsideRx DEF Done
<1> QED BY <1>1 DEF Done, Aside, Same

LEMMA DuplicateAckDone ==
  ASSUME NEW d, NEW s, NEW gu, IsGuest(gu), Fits(d, s, gu)
  PROVE  Done(DuplicateAck(d, s), gu)
<1> DEFINE n == d.dupacks + 1
           win == Most(2, Least(d.wnd, d.cwnd) \div (2 * d.maxseg))
           other == "REXMT" \notin d.armed \/ s.ack # d.una
           k == IF other THEN 0 ELSE n
           x == [d EXCEPT !.dupacks = k]
           ssthresh == win * d.maxseg
           y0 == Disarm(d, "REXMT")
           y == [y0 EXCEPT !.dupacks = n, !.ssthresh = ssthresh, !.rtseq = Untimed, !.nxt = s.ack,
                           !.cwnd = d.maxseg]
           m == Least(n, TCPREXMTTHRESH + 1)
           w == Least(d.cwnd + d.maxseg, 2 * TCP_MAXWIN)
           z == [d EXCEPT !.dupacks = m, !.cwnd = w]
           o == tcp_output(y)
           cwnd == o.ssthresh + o.maxseg * n
           nxt == IF SEQ_GT(d.nxt, o.nxt) THEN d.nxt ELSE o.nxt
           i == [o EXCEPT !.cwnd = cwnd, !.nxt = nxt]
<1>1. DuplicateAck(d, s) = IF other \/ n < TCPREXMTTHRESH THEN step6(x, s, FALSE)
                           ELSE IF n = TCPREXMTTHRESH THEN i ELSE tcp_output(z)
  BY DEF DuplicateAck
<1> HIDE DEF n, other, k, ssthresh, m, w
<1>2. IsConn(d) BY FitsDue
<1>3. Aside(d, x) BY <1>2 DEF Aside, Same, IsConn, Fields
<1>4. Aside(d, z) BY <1>2, ZenonT(30) DEF Aside, Same, IsConn, Fields
<1>5. Aside(d, y0) BY <1>2, ArmAside
<1> HIDE DEF x, y0, z
<1>6. Aside(y0, y)
  <2>1. IsConn(y0) BY <1>5 DEF Aside, Same
  <2> QED BY <2>1, ZenonT(30) DEF Aside, Same, IsConn, Fields
<1> HIDE DEF y
<1>7. Fits(x, s, gu) /\ Fits(y, s, gu) /\ Fits(z, s, gu)
  BY <1>3, <1>4, <1>5, <1>6, AsideTwice, AsideFits
<1>8. Done(step6(x, s, FALSE), gu) BY <1>7, FitsDue, Step6Done
<1>9. Done(o, gu) /\ Done(tcp_output(z), gu) BY <1>7, FitsDue, OutputsDone
<1> HIDE DEF o, cwnd, nxt
<1>10. Done(i, gu)
  <2>1. IsConn(o) BY <1>9 DEF Done, Rx
  <2>2. Aside(o, i) BY <2>1 DEF Aside, Same, IsConn, Fields
  <2> HIDE DEF i
  <2> QED BY <1>9, <2>2, AsideDone
<1> HIDE DEF i
<1> QED BY <1>1, <1>8, <1>9, <1>10

\* a connection that is opening
Opening(d, gu) == Ready(d, gu) /\ d.open /\ d.t_state = TCPS_SYN_RECEIVED
Established(d, una) == soisfconnected([d EXCEPT !.t_state = TCPS_ESTABLISHED, !.una = una])
EstablishedUp(d, e, gu) ==
  Up(e, gu) /\ Received(e) = Received(d) /\ e.rcv = d.rcv /\ e.irs = d.irs /\ e.seg = <<>> /\ IsConn(e)

LEMMA Establishes ==
  ASSUME NEW d, NEW gu, IsGuest(gu), Opening(d, gu), gu.synced \/ gu.dead, NEW una
  PROVE  EstablishedUp(d, Established(d, una), gu)
<1> DEFINE so == (d.so_state \ {"ISFCONNECTING", "FWDRAIN", "NOFDREF"}) \cup {"ISFCONNECTED"}
           e == [d EXCEPT !.t_state = TCPS_ESTABLISHED, !.una = una, !.so_state = so]
<1>1. Ready(d, gu) /\ d.open = TRUE /\ d.t_state = TCPS_SYN_RECEIVED /\ IsConn(d) /\ HostOK(d.h, gu) /\ Plain(d.out)
      /\ Opened(d, gu)
  BY DEF Opening, Ready, Rx
<1>2. d.t_state \in Early /\ Synced(d) BY <1>1, States DEF Synced
<1>3. Sound(d) /\ Beginning(d) /\ Numbered(d, gu) /\ Linked(d, gu) BY <1>1, <1>2 DEF Opened
<1>4. Received(d) = 0 /\ d.seg = <<>> /\ d.rcv.cc = 0 /\ d.h.got = <<>> /\ ~d.h.dead BY <1>1, <1>3 DEF Beginning
<1>5. d.irs = First(gu) BY <1>1, <1>2, <1>3, States DEF Linked, Old
<1>6. "ISFCONNECTING" \notin so /\ "FWDRAIN" \notin so /\ so \cap {"FCANTSENDMORE", "NOFDREF"} = {}
  BY <1>3 DEF Beginning
<1>7. Established(d, una) = e BY <1>1 DEF Established, soisfconnected, IsConn, Fields
<1> HIDE DEF so
<1>8. /\ IsConn(e) /\ e.open = TRUE /\ e.rnxt = d.rnxt /\ e.adv = d.adv /\ e.irs = d.irs /\ e.seg = d.seg
      /\ e.rcv = d.rcv /\ e.out = d.out /\ e.t_state = TCPS_ESTABLISHED /\ e.h = d.h /\ e.so_state = so
  BY <1>1 DEF IsConn, Fields
<1> HIDE DEF e
<1>9. Received(e) = 0 BY <1>4, <1>8 DEF Received
<1>10. Sound(e)
  <2>1. e.t_state \in TCPS_CLOSED .. TCPS_TIME_WAIT BY <1>8, States
  <2> QED BY <1>3, <1>8, <2>1 DEF Sound
<1>11. Numbered(e, gu) BY <1>3, <1>4, <1>8, <1>9 DEF Numbered
<1>12. Flowing(e, gu)
  <2>1. Length(gu) \in Nat BY DEF IsGuest
  <2>2. Len(e.h.got) = 0 /\ e.rcv.cc = 0 /\ Len(e.seg) = 0 BY <1>4, <1>8
  <2>3. Least(Received(e), Length(gu)) = 0 BY <1>9, <2>1 DEF Least
  <2>4. Holds(e.rcv, 0) BY <2>2 DEF Holds
  <2>5. ~Ended(e, gu) BY <1>9, <2>1 DEF Ended
  <2>6. e.t_state \notin AfterFin BY <1>8, States DEF AfterFin
  <2>7. e.seg \in Seq(Pieces) /\ \A i \in 1 .. Len(e.seg) : PieceOK(e.seg[i], e, gu)
    BY <1>4, <1>8
  <2>8. Len(e.h.got) + e.rcv.cc = 0 BY <2>2
  <2>9. Holds(e.rcv, Len(e.h.got)) /\ Len(e.h.got) + e.rcv.cc = Least(Received(e), Length(gu))
    BY <2>2, <2>3, <2>4, <2>8
  <2> QED BY <1>4, <1>6, <1>8, <2>5, <2>6, <2>7, <2>9 DEF Flowing, AfterFin
<1>13. Linked(e, gu) BY <1>4, <1>5, <1>8, <1>9 DEF Linked
<1>14. e.t_state \in TCPS_SYN_SENT .. TCPS_TIME_WAIT /\ e.t_state \notin Early /\ Estab(e)
  BY <1>8, States DEF Estab
<1>15. Opened(e, gu) BY <1>10, <1>11, <1>12, <1>13, <1>14 DEF Opened
<1>16. Up(e, gu) BY <1>1, <1>8, <1>14, <1>15 DEF Up, Ready, Rx
<1> QED BY <1>4, <1>7, <1>8, <1>9, <1>16 DEF EstablishedUp

\* s is what is left of a segment for a connection that knows the guest's number
Arrives(d, s, gu) ==
  /\ Ready(d, gu) /\ d.open /\ Synced(d) /\ IsSeg(s) /\ (Has(s, "ACK") => gu.synced)
  /\ Quiet(s) \/ (gu.estab /\ InWindow(d, s, gu))

LEMMA AckProcessingDone ==
  ASSUME NEW d, NEW s, NEW gu, IsGuest(gu), Arrives(d, s, gu), Has(s, "ACK")
  PROVE  Done(AckProcessing(d, s), gu)
<1>1. /\ Ready(d, gu) /\ d.open /\ Synced(d) /\ IsSeg(s) /\ gu.synced
      /\ Quiet(s) \/ (gu.estab /\ InWindow(d, s, gu))
  BY DEF Arrives
<1>2. CASE d.t_state = TCPS_SYN_RECEIVED
  <2> DEFINE x == [d EXCEPT !.t_state = TCPS_ESTABLISHED, !.una = s.ack]
             e == soisfconnected(x)
             p == Present(e)
             wl1 == Plus(s.seq, -1)
             f == [p[1] EXCEPT !.wl1 = wl1]
  <2>0. Present(soisfconnected([d EXCEPT !.t_state = TCPS_ESTABLISHED, !.una = s.ack])) = p OBVIOUS
  <2>1. e = Established(d, s.ack) BY DEF Established
  <2> HIDE DEF e
  <2>2. Up(e, gu) /\ Received(e) = Received(d) /\ e.rcv = d.rcv /\ e.irs = d.irs /\ e.seg = <<>>
    BY <1>1, <1>2, <2>1, Establishes DEF Opening, EstablishedUp
  <2>3. Aside(e, p[1]) BY <2>2, PresentUp
  <2>4. AckProcessing(d, s) = IF SEQ_GT(d.una, s.ack) \/ SEQ_GT(s.ack, d.max) THEN dropwithreset(d, s)
                              ELSE synrx_to_est(f, s, FALSE)
    BY <1>2 DEF AckProcessing, e
  <2> HIDE DEF p, wl1
  <2>5. Aside(p[1], f)
    <3>1. IsConn(p[1]) BY <2>3 DEF Aside, Same
    <3> QED BY <3>1 DEF Aside, Same, IsConn, Fields
  <2> HIDE DEF f
  <2>6. Fits(e, s, gu) BY <1>1, <2>2 DEF Fits, InWindow
  <2>7. Fits(f, s, gu) BY <2>3, <2>5, <2>6, AsideTwice, AsideFits
  <2>8. Done(synrx_to_est(f, s, FALSE), gu) BY <2>7, SynrxDone
  <2>9. Done(dropwithreset(d, s), gu) BY <1>1, ResetReady, ReadyIsDone
  <2> QED BY <2>4, <2>8, <2>9
<1>3. CASE d.t_state # TCPS_SYN_RECEIVED
  <2>1. Estab(d)
    <3>1. d.t_state \in TCPS_SYN_SENT .. TCPS_TIME_WAIT BY <1>1 DEF Ready, Rx, Opened
    <3> QED BY <1>1, <1>3, <3>1, States DEF Synced, Estab
  <2>2. Fits(d, s, gu) BY <1>1, <2>1 DEF Fits, Up
  <2> DEFINE e == [d EXCEPT !.dupacks = 0]
  <2>3. AckProcessing(d, s) = IF SEQ_GT(s.ack, d.una) THEN synrx_to_est(d, s, FALSE)
                              ELSE IF s.data = <<>> /\ s.win = d.wnd THEN DuplicateAck(d, s)
                              ELSE step6(e, s, FALSE)
    BY <1>3 DEF AckProcessing
  <2>4. Aside(d, e)
    <3>1. IsConn(d) BY <2>2, FitsDue
    <3> QED BY <3>1 DEF Aside, Same, IsConn, Fields
  <2> HIDE DEF e
  <2>5. Done(step6(e, s, FALSE), gu) BY <2>2, <2>4, AsideFits, FitsDue, Step6Done
  <2>6. Done(synrx_to_est(d, s, FALSE), gu) /\ Done(DuplicateAck(d, s), gu)
    BY <2>2, SynrxDone, DuplicateAckDone
  <2> QED BY <2>3, <2>5, <2>6
<1> QED BY <1>2, <1>3

LEMMA ResetsDone ==
  ASSUME NEW d, NEW s, NEW gu, IsGuest(gu), Arrives(d, s, gu)
  PROVE  Done(Resets(d, s), gu)
<1>1. Ready(d, gu) /\ d.open BY DEF Arrives
<1>2. HostOK(d.h, gu) /\ Plain(d.out) BY <1>1 DEF Ready, Rx
<1>3. Done(tcp_close(d), gu) BY <1>2, CloseReady, ReadyIsDone
<1>4. Done(dropwithreset(tcp_drop(d), s), gu) BY <1>1, DropReady, ResetReady, ReadyIsDone
<1>5. Done(d, gu) BY <1>1, ReadyIsDone
<1>6. Has(s, "ACK") => Done(AckProcessing(d, s), gu) BY AckProcessingDone
<1> QED BY <1>3, <1>4, <1>5, <1>6 DEF Resets

-----------------------------------------------------------------------------
(* A new connection.                                                       *)

\* a socket whose host has got nothing
NewSo(e, gu) ==
  /\ IsConn(e) /\ e.open = TRUE /\ e.seg = <<>> /\ e.so_state = {"NOFDREF"} /\ Ring(e.rcv) /\ e.rcv.cc = 0
  /\ Plain(e.out) /\ HostOK(e.h, gu) /\ e.h.got = <<>> /\ e.h.eof = FALSE /\ e.h.dead = FALSE

LEMMA NewHostOK ==
  ASSUME NEW room \in Nat, NEW gu, IsGuest(gu)
  PROVE  LET h == [NewHost EXCEPT !.room = room]
         IN  HostOK(h, gu) /\ h.got = <<>> /\ h.eof = FALSE /\ h.dead = FALSE
<1> DEFINE h == [NewHost EXCEPT !.room = room]
<1>1. h = [f \in HostFields |-> h[f]] /\ h.got = <<>> /\ h.eof = FALSE /\ h.dead = FALSE /\ h.cut = FALSE
      /\ h.room = room
  BY DEF NewHost, HostFields
<1> HIDE DEF h
<1>2. Len(h.got) = 0 /\ h.got \in Seq(Int) /\ \A i \in 1 .. Len(h.got) : h.got[i] = i
  <2> DEFINE got == h.got
  <2>1. got = <<>> BY <1>1
  <2> HIDE DEF got
  <2>2. Len(got) = 0 /\ got \in Seq(Int) BY <2>1
  <2>3. \A i \in 1 .. Len(got) : got[i] = i BY <2>2
  <2> QED BY <2>2, <2>3 DEF got
<1>3. Length(gu) \in Nat BY DEF IsGuest
<1>5. Len(h.got) <= Length(gu) BY <1>2, <1>3
<1>6. h.dead \in BOOLEAN /\ h.eof \in BOOLEAN /\ h.cut \in BOOLEAN /\ h.room \in Nat /\ ~h.eof BY <1>1
<1>4. HostOK(h, gu) BY <1>1, <1>2, <1>5, <1>6, Zenon DEF HostOK
<1> QED BY <1>1, <1>4 DEF h

LEMMA NewSocketIs ==
  ASSUME NEW c0, Plain(c0.out), c0.h.room \in Nat, NEW gu, IsGuest(gu)
  PROVE  NewSo(NewSocket(c0), gu)
<1> DEFINE size == [NoSbuf EXCEPT !.datalen = SPACE, !.data = [i \in 0 .. SPACE - 1 |-> 0]]
           h == [NewHost EXCEPT !.room = c0.h.room]
           x == tcp_attach
           e == [x EXCEPT !.snd = size, !.rcv = size, !.out = c0.out, !.h = h]
<1>1. IsConn(x) /\ x.open = TRUE /\ x.seg = <<>> /\ x.so_state = {"NOFDREF"} /\ x.h = NewHost BY AttachIs
<1>2. NewSocket(c0) = e
  <2>1. NewSocket(c0) = [x EXCEPT !.snd = size, !.rcv = size, !.out = c0.out, !.h.room = c0.h.room]
    BY DEF NewSocket
  <2> HIDE DEF size, x
  <2> QED BY <1>1, <2>1 DEF IsConn, Fields
<1>3. Ring(size) /\ size.cc = 0
  <2> DEFINE zeros == [i \in 0 .. SPACE - 1 |-> 0]
  <2>3. size = [NoSbuf EXCEPT !.datalen = SPACE, !.data = zeros] OBVIOUS
  <2> HIDE DEF zeros, size
  <2>4. size = [data |-> zeros, datalen |-> SPACE, rptr |-> 0, wptr |-> 0, cc |-> 0] BY <2>3 DEF NoSbuf
  <2>1. size.datalen = SPACE /\ size.rptr = 0 /\ size.wptr = 0 /\ size.cc = 0
        /\ size = [data |-> size.data, datalen |-> size.datalen, rptr |-> size.rptr, wptr |-> size.wptr,
                   cc |-> size.cc]
    BY <2>4
  <2>2. (0 + 0) % SPACE = 0 BY Spaces
  <2> QED BY <2>1, <2>2, Spaces DEF Ring
<1>4. HostOK(h, gu) /\ h.got = <<>> /\ h.eof = FALSE /\ h.dead = FALSE BY NewHostOK
<1> HIDE DEF size, h, x
<1>5. /\ IsConn(e) /\ e.open = TRUE /\ e.seg = <<>> /\ e.so_state = {"NOFDREF"} /\ e.rcv = size /\ e.out = c0.out
      /\ e.h = h
  BY <1>1, ZenonT(30) DEF IsConn, Fields
<1> HIDE DEF e
<1> QED BY <1>2, <1>3, <1>4, <1>5 DEF NewSo

\* A connection that has the guest's number, and nothing yet of its stream.
LEMMA OpeningReady ==
  ASSUME NEW e, NEW gu, IsGuest(gu), IsConn(e), e.open = TRUE, e.seg = <<>>, Ring(e.rcv), e.rcv.cc = 0,
         Plain(e.out), HostOK(e.h, gu), e.h.got = <<>>, ~e.h.eof, ~e.h.dead,
         e.so_state \subseteq {"NOFDREF", "INCOMING", "ISFCONNECTING"}, e.t_state = TCPS_SYN_RECEIVED,
         e.irs = First(gu), e.rnxt = Plus(e.irs, 1), e.adv = Plus(e.irs, 1),
         "ISFCONNECTING" \in e.so_state =>
           IsSeg(e.so_m) /\ e.so_m.seq = e.irs /\ e.so_m.data = <<>> /\ "FIN" \notin e.so_m.flags
  PROVE  Opening(e, gu)
<1>1. e.irs \in Numbers /\ Length(gu) \in Nat BY DEF IsGuest
<1>2. Received(e) = 0
  <2>1. 0 \in -1 .. Half - 2 /\ 0 + 1 = 1 BY Ample
  <2> QED BY <1>1, <2>1, ReceivedIs
<1>3. e.rnxt \in Numbers /\ e.adv \in Numbers
  <2>1. e.irs \in Int BY <1>1, Spaces DEF Numbers
  <2> QED BY <2>1, PlusIn
<1>4. e.t_state \in TCPS_CLOSED .. TCPS_TIME_WAIT /\ e.t_state \in TCPS_SYN_SENT .. TCPS_TIME_WAIT /\ ~Estab(e)
      /\ e.t_state # TCPS_TIME_WAIT
  BY States DEF Estab
<1>5. Sound(e) BY <1>3, <1>4 DEF Sound
<1>6. Beginning(e) BY <1>2 DEF Beginning
<1>7. Numbered(e, gu)
  <2>1. 0 \in 0 .. 0 + TCP_MAXWIN /\ 0 <= 0 + sbspace(e.rcv) /\ 0 + 1 = 1 /\ 0 \in 0 .. Length(gu) + 1
    BY <1>1, BufferSpace, Spaces
  <2> QED BY <1>1, <1>2, <2>1 DEF Numbered
<1>8. Linked(e, gu) BY <1>4 DEF Linked
<1>9. Opened(e, gu) BY <1>4, <1>5, <1>6, <1>7, <1>8 DEF Opened
<1> QED BY <1>9 DEF Opening, Ready, Rx

LEMMA ListenDone ==
  ASSUME NEW c0, Plain(c0.out), c0.h.room \in Nat, NEW gu, IsGuest(gu), NEW s, IsSeg(s), Quiet(s), s.seq = First(gu),
         NEW answer \in tcp_fconnect
  PROVE  Done(Listen(NewSocket(c0), s, answer), gu)
<1> DEFINE so == NewSocket(c0)
<1>1. NewSo(so, gu) BY NewSocketIs
<1> HIDE DEF so
<1>2. /\ IsConn(so) /\ so.open = TRUE /\ so.seg = <<>> /\ so.so_state = {"NOFDREF"} /\ Ring(so.rcv) /\ so.rcv.cc = 0
      /\ Plain(so.out) /\ HostOK(so.h, gu) /\ so.h.got = <<>> /\ so.h.eof = FALSE /\ so.h.dead = FALSE
  BY <1>1 DEF NewSo
<1>3. CASE answer = "refused"
  <2> DEFINE a == [seq |-> 0, ack |-> Plus(s.seq, 1), flags |-> {"RST", "ACK"}, data |-> <<>>,
                   win |-> IF so.open THEN sbspace(so.rcv) ELSE 0]
             e == tcp_respond(so, Plus(s.seq, 1), 0, {"RST", "ACK"})
  <2>1. Listen(so, s, answer) = tcp_close(e) BY <1>3 DEF Listen
  <2>2. e = [so EXCEPT !.out = Append(@, a)] BY DEF tcp_respond
  <2>3. "SYN" \notin a.flags OBVIOUS
  <2> HIDE DEF a, e
  <2>4. e.h = so.h /\ e.out = Append(so.out, a) BY <1>2, <2>2 DEF IsConn, Fields
  <2>5. Plain(e.out) BY <1>2, <2>3, <2>4, ListedMore
  <2>6. Ready(tcp_close(e), gu)
    <3>1. HostOK(e.h, gu) BY <1>2, <2>4
    <3> QED BY <2>5, <3>1, CloseReady
  <2> QED BY <2>1, <2>6, ReadyIsDone DEF so
<1>4. CASE answer = "unreachable"
  <2> DEFINE a == [seq |-> 0, ack |-> 0, flags |-> {"ICMP"}, data |-> <<>>, win |-> 0]
             e == [so EXCEPT !.out = Append(@, a)]
  <2>1. Listen(so, s, answer) = tcp_close(e) BY <1>4 DEF Listen
  <2>3. "SYN" \notin a.flags OBVIOUS
  <2> HIDE DEF a
  <2>4. e.h = so.h /\ e.out = Append(so.out, a) BY <1>2 DEF IsConn, Fields
  <2> HIDE DEF e
  <2>5. Plain(e.out) BY <1>2, <2>3, <2>4, ListedMore
  <2>6. Ready(tcp_close(e), gu)
    <3>1. HostOK(e.h, gu) BY <1>2, <2>4
    <3> QED BY <2>5, <3>1, CloseReady
  <2> QED BY <2>1, <2>6, ReadyIsDone DEF so
<1>5. CASE answer = "in progress"
  <2> DEFINE x == [soisfconnecting(so) EXCEPT !.so_m = s, !.armed = {"KEEP"}, !.t_state = TCPS_SYN_RECEIVED,
                                              !.irs = s.seq]
             e == tcp_rcvseqinit(x)
  <2>1. Listen(so, s, answer) = e BY <1>5 DEF Listen
  <2>2. /\ IsConn(x) /\ x.open = TRUE /\ x.seg = <<>> /\ x.rcv = so.rcv /\ x.out = so.out /\ x.h = so.h
        /\ x.so_state = {"ISFCONNECTING"} /\ x.t_state = TCPS_SYN_RECEIVED /\ x.irs = s.seq /\ x.so_m = s
    BY <1>2, ZenonT(30) DEF soisfconnecting, IsConn, Fields
  <2> HIDE DEF x
  <2>3. /\ IsConn(e) /\ e.open = TRUE /\ e.seg = <<>> /\ e.rcv = so.rcv /\ e.out = so.out /\ e.h = so.h
        /\ e.so_state = {"ISFCONNECTING"} /\ e.t_state = TCPS_SYN_RECEIVED /\ e.irs = s.seq /\ e.so_m = s
        /\ e.rnxt = Plus(e.irs, 1) /\ e.adv = Plus(e.irs, 1)
    BY <2>2 DEF tcp_rcvseqinit, IsConn, Fields
  <2> HIDE DEF e
  <2>4. Opening(e, gu)
    <3>1. IsSeg(e.so_m) /\ e.so_m.seq = e.irs /\ e.so_m.data = <<>> /\ "FIN" \notin e.so_m.flags
      BY <2>3 DEF Quiet, Has
    <3>2. e.so_state \subseteq {"NOFDREF", "INCOMING", "ISFCONNECTING"} BY <2>3
    <3> QED BY <1>2, <2>3, <3>1, <3>2, OpeningReady
  <2> QED BY <2>1, <2>4, ReadyIsDone DEF Opening, so
<1> QED BY <1>3, <1>4, <1>5 DEF tcp_fconnect

-----------------------------------------------------------------------------
(* A segment of the guest, and what the window's edges leave of it.        *)

\* a segment without text, and one with
Blank(s, gu) ==
  /\ IsSeg(s) /\ Quiet(s) /\ s.seq \in Numbers /\ (Has(s, "ACK") => gu.synced)
  /\ Has(s, "SYN") => s.seq = First(gu) /\ ~gu.dead /\ ~gu.estab
Filled(s, gu) ==
  /\ IsSeg(s) /\ gu.estab /\ ~Has(s, "SYN")
  /\ \E p \in 0 .. Length(gu) : /\ Placed(s.seq, s.data, First(gu), p, Length(gu))
                                /\ Has(s, "FIN") => p + Len(s.data) = Length(gu) /\ gu.fin
OfGuest(s, gu) == Blank(s, gu) \/ Filled(s, gu)

\* a connection that knows the guest's number
Knows(d, gu) == Ready(d, gu) /\ d.open /\ Synced(d)

LEMMA KnowsIs ==
  ASSUME NEW d, NEW gu, IsGuest(gu), Knows(d, gu)
  PROVE  /\ IsConn(d) /\ Ring(d.rcv) /\ Numbered(d, gu) /\ HostOK(d.h, gu) /\ Plain(d.out) /\ d.open
         /\ Ready(d, gu) /\ d.t_state \in TCPS_SYN_RECEIVED .. TCPS_TIME_WAIT /\ Linked(d, gu)
         /\ gu.synced => d.irs = First(gu)
<1>1. IsConn(d) /\ HostOK(d.h, gu) /\ Opened(d, gu) /\ Plain(d.out) /\ d.open BY DEF Knows, Ready, Rx
<1>2. Sound(d) /\ Numbered(d, gu) /\ Linked(d, gu) /\ d.t_state \in TCPS_SYN_SENT .. TCPS_TIME_WAIT
  BY <1>1 DEF Opened, Knows
<1>3. d.t_state \in TCPS_SYN_RECEIVED .. TCPS_TIME_WAIT BY <1>2, States DEF Knows, Synced
<1>4. gu.synced => d.irs = First(gu) BY <1>2 DEF Linked, Old, Knows
<1> QED BY <1>1, <1>2, <1>3, <1>4 DEF Sound, Knows

LEMMA AsideKnows ==
  ASSUME NEW d, NEW e, NEW gu, Knows(d, gu), Aside(d, e)
  PROVE  Knows(e, gu)
<1>1. Ready(e, gu) BY AsideReady DEF Knows
<1> QED BY <1>1 DEF Knows, Aside, Same, Synced

\* The left edge cuts off what has been received.
LEMMA LeftEdgeIs ==
  ASSUME NEW d, NEW gu, IsGuest(gu), Knows(d, gu), NEW s, OfGuest(s, gu)
  PROVE  LET t == LeftEdge(d, s)
         IN  t = <<t[1], t[2]>> /\ Aside(d, t[1]) /\ OfGuest(t[2], gu)
<1> DEFINE old == Diff(d.rnxt, s.seq)
           s1 == Without([s EXCEPT !.seq = Plus(@, 1)], {"SYN"})
           x == IF Has(s, "SYN") THEN s1 ELSE s
           n == IF Has(s, "SYN") THEN old - 1 ELSE old
           all == n > Len(x.data) \/ (n = Len(x.data) /\ ~Has(x, "FIN"))
           y == Without(TrimFront(x, Len(x.data)), {"FIN"})
           z == TrimFront(x, n)
           t == LeftEdge(d, s)
<1>1. t = IF old <= 0 THEN <<d, s>> ELSE IF all THEN <<AckNow(d), y>> ELSE <<d, z>>
  BY DEF LeftEdge
<1>2. IsConn(d) /\ d.rnxt \in Numbers BY KnowsIs DEF Knows, Ready, Rx, Opened, Sound
<1>3. Aside(d, AckNow(d)) /\ Aside(d, d) BY <1>2, AckNowAside, ArmAside
<1>4. old \in Int
  <2>1. s.seq \in Int
    <3>1. CASE Blank(s, gu) BY <3>1, Number DEF Blank
    <3>2. CASE Filled(s, gu)
      <4>1. PICK p \in Nat : s.seq = Plus(First(gu), p + 1) BY <3>2, Ample DEF Filled, Placed
      <4>2. First(gu) \in Int BY Ample, Number
      <4> QED BY <4>1, <4>2, PlusIn, Number
    <3> QED BY <3>1, <3>2 DEF OfGuest
  <2>2. d.rnxt \in Int BY <1>2, Number
  <2> QED BY <2>1, <2>2, DiffIn
<1>5. CASE Blank(s, gu)
  <2>1. IsSeg(s) /\ s.data = <<>> /\ "FIN" \notin s.flags /\ s.seq \in Numbers /\ ("ACK" \in s.flags => gu.synced)
        /\ ("SYN" \in s.flags => s.seq = First(gu) /\ ~gu.dead)
    BY <1>5 DEF Blank, Quiet, Has
  <2>2. /\ IsSeg(x) /\ x.data = <<>> /\ "FIN" \notin x.flags /\ "SYN" \notin x.flags /\ x.seq \in Int
        /\ "ACK" \in x.flags => gu.synced
    <3>2. s.seq \in Int BY <2>1, Number
    <3>1. Plus(s.seq, 1) \in Int
      <4>1. Plus(s.seq, 1) \in Numbers BY <3>2, PlusIn
      <4> QED BY <4>1, Number
    <3>3. CASE Has(s, "SYN")
      <4> DEFINE u == [s EXCEPT !.seq = Plus(@, 1)]
      <4>1. IsSeg(u) /\ u.data = <<>> /\ u.flags = s.flags /\ u.seq = Plus(s.seq, 1)
        BY <2>1 DEF IsSeg, SegFields
      <4> HIDE DEF u
      <4>2. x = [u EXCEPT !.flags = @ \ {"SYN"}] BY <3>3 DEF u, Without
      <4> HIDE DEF x
      <4>3. IsSeg(x) /\ x.data = u.data /\ x.flags = u.flags \ {"SYN"} /\ x.seq = u.seq
        BY <4>1, <4>2 DEF IsSeg, SegFields
      <4> QED BY <2>1, <3>1, <4>1, <4>3
    <3>4. CASE ~Has(s, "SYN")
      <4>1. x = s BY <3>4
      <4> HIDE DEF x
      <4> QED BY <2>1, <3>2, <3>4, <4>1 DEF Has
    <3> QED BY <3>3, <3>4
  <2> HIDE DEF x
  <2>3. Len(x.data) = 0 BY <2>2
  <2>4. old > 0 => all
    <3>1. old > 0 => n >= 0 BY <1>4
    <3>2. n \in Int BY <1>4
    <3> HIDE DEF n
    <3> QED BY <2>2, <2>3, <3>1, <3>2 DEF Has
  <2>5. Blank(y, gu)
    <3> DEFINE u == TrimFront(x, Len(x.data))
    <3>1. u = [x EXCEPT !.seq = Plus(x.seq, 0), !.data = SubSeq(x.data, 1, 0)] BY <2>2, <2>3 DEF TrimFront
    <3>2. SubSeq(x.data, 1, 0) = <<>> BY <2>2
    <3>3. Plus(x.seq, 0) \in Numbers BY <2>2, PlusIn
    <3>4. IsSeg(u) /\ u.data = <<>> /\ u.seq \in Numbers /\ u.flags = x.flags
      BY <2>2, <3>1, <3>2, <3>3 DEF IsSeg, SegFields
    <3> HIDE DEF u
    <3>5. y = Without(u, {"FIN"}) BY DEF u
    <3>6. IsSeg(y) /\ y.data = <<>> /\ y.seq \in Numbers /\ y.flags = x.flags \ {"FIN"}
      BY <3>4, <3>5 DEF Without, IsSeg, SegFields
    <3> HIDE DEF y
    <3> QED BY <2>2, <3>6 DEF Blank, Quiet, Has
  <2> HIDE DEF old, n, y, z
  <2>6. t = IF old <= 0 THEN <<d, s>> ELSE <<AckNow(d), y>> BY <1>1, <1>4, <2>4
  <2> HIDE DEF t
  <2>7. CASE old <= 0
    <3>1. t = <<d, s>> BY <2>6, <2>7
    <3>2. t[1] = d /\ t[2] = s BY <3>1
    <3> QED BY <1>3, <1>5, <3>1, <3>2 DEF OfGuest, t
  <2>8. CASE ~(old <= 0)
    <3>1. t = <<AckNow(d), y>> BY <2>6, <2>8
    <3>2. t[1] = AckNow(d) /\ t[2] = y BY <3>1
    <3> QED BY <1>3, <2>5, <3>1, <3>2 DEF OfGuest, t
  <2> QED BY <2>7, <2>8
<1>6. CASE Filled(s, gu)
  <2>1. PICK p \in 0 .. Length(gu) :
          /\ Placed(s.seq, s.data, First(gu), p, Length(gu))
          /\ Has(s, "FIN") => p + Len(s.data) = Length(gu) /\ gu.fin
    BY <1>6 DEF Filled
  <2>2. IsSeg(s) /\ gu.estab /\ ~Has(s, "SYN") BY <1>6 DEF Filled
  <2>3. x = s /\ n = old BY <2>2
  <2>4. old = Received(d) - p
    <3> DEFINE R == Received(d)
    <3>1. d.irs = First(gu) BY <2>2, KnowsIs DEF IsGuest
    <3>2. R \in 0 .. Length(gu) + 1 /\ d.rnxt = Plus(d.irs, R + 1) BY KnowsIs DEF Numbered
    <3>3. s.seq = Plus(d.irs, p + 1) BY <2>1, <3>1 DEF Placed
    <3> HIDE DEF R
    <3>4. R + 1 \in -1 .. Half /\ p + 1 \in -1 .. Half /\ (R + 1) - (p + 1) < Half /\ (p + 1) - (R + 1) <= Half
      BY <3>2, Ample
    <3>5. Diff(Plus(d.irs, R + 1), Plus(d.irs, p + 1)) = (R + 1) - (p + 1) BY <3>1, <3>4, DiffIs, Ample
    <3>6. Diff(d.rnxt, s.seq) = Diff(Plus(d.irs, R + 1), Plus(d.irs, p + 1)) BY <3>2, <3>3, Zenon
    <3>7. (R + 1) - (p + 1) = R - p BY <3>2
    <3> QED BY <3>5, <3>6, <3>7 DEF R
  <2>5. Len(s.data) \in Nat /\ s.data \in Seq(Int) BY <2>1 DEF Placed
  <2>6. CASE old <= 0
    <3>1. t = <<d, s>> BY <1>1, <2>6
    <3> HIDE DEF t
    <3>2. t[1] = d /\ t[2] = s BY <3>1
    <3> QED BY <1>3, <1>6, <3>1, <3>2 DEF OfGuest, t
  <2>7. CASE ~(old <= 0) /\ all
    <3>1. t = <<AckNow(d), y>> BY <1>1, <2>7
    <3>2. Blank(y, gu)
      <4> DEFINE l == Len(s.data)
                 u == TrimFront(s, l)
      <4>1. u = [s EXCEPT !.seq = Plus(s.seq, l), !.data = SubSeq(s.data, l + 1, l)] BY DEF TrimFront
      <4>2. SubSeq(s.data, l + 1, l) = <<>> BY <2>5
      <4>3. Plus(s.seq, l) \in Numbers
        <5>1. s.seq \in Int BY <2>1, PlusIn, Ample DEF Placed, Numbers
        <5> QED BY <2>5, <5>1, PlusIn
      <4>4. IsSeg(u) /\ u.data = <<>> /\ u.seq \in Numbers /\ u.flags = s.flags
        BY <2>2, <4>1, <4>2, <4>3 DEF IsSeg, SegFields
      <4>5. y = Without(u, {"FIN"}) BY <2>3
      <4> HIDE DEF u
      <4>6. IsSeg(y) /\ y.data = <<>> /\ y.seq \in Numbers /\ y.flags = s.flags \ {"FIN"}
        BY <4>4, <4>5 DEF Without, IsSeg, SegFields
      <4>7. gu.synced BY <2>2 DEF IsGuest
      <4> HIDE DEF y
      <4> QED BY <2>2, <4>6, <4>7 DEF Blank, Quiet, Has
    <3> HIDE DEF t, y
    <3>3. t[1] = AckNow(d) /\ t[2] = y BY <3>1
    <3> QED BY <1>3, <3>1, <3>2, <3>3 DEF OfGuest, t
  <2>8. CASE ~(old <= 0) /\ ~all
    <3>1. t = <<d, z>> BY <1>1, <2>8
    <3>2. old \in 0 .. Len(s.data)
      <4> HIDE DEF old
      <4>1. ~(old > Len(s.data)) BY <2>3, <2>8
      <4> QED BY <1>4, <2>5, <2>8, <4>1
    <3>3. Filled(z, gu)
      <4> DEFINE l == Len(s.data)
                 u == [s EXCEPT !.seq = Plus(s.seq, old), !.data = SubSeq(s.data, old + 1, l)]
      <4>1. z = u BY <2>3 DEF TrimFront
      <4>2. IsSeg(u) /\ u.seq = Plus(s.seq, old) /\ u.data = SubSeq(s.data, old + 1, l) /\ u.flags = s.flags
        BY <2>2 DEF IsSeg, SegFields
      <4> HIDE DEF u, old, z
      <4>3. l \in old .. l BY <2>5, <3>2
      <4>4. Placed(u.seq, u.data, First(gu), p + old, Length(gu)) /\ Len(u.data) = l - old
        <5> DEFINE a == First(gu)
                   m == Length(gu)
                   seq == s.seq
                   data == s.data
        <5>1. a \in Numbers /\ m \in 0 .. Half - 2 BY Ample
        <5>2. Placed(seq, data, a, p, m) /\ old \in 0 .. Len(data) /\ Len(data) \in old .. Len(data)
          BY <2>1, <3>2, <4>3
        <5>3. u.seq = Plus(seq, old) /\ u.data = SubSeq(data, old + 1, Len(data)) BY <4>2
        <5> HIDE DEF a, m, seq, data
        <5>4. /\ Placed(Plus(seq, old), SubSeq(data, old + 1, Len(data)), a, p + old, m)
              /\ Len(SubSeq(data, old + 1, Len(data))) = Len(data) - old
          BY <5>1, <5>2, PlacedPart
        <5> QED BY <5>3, <5>4 DEF a, m, seq, data
      <4>5. (p + old) + Len(u.data) = p + l
        <5> DEFINE m == Len(u.data)
        <5>1. p \in Int /\ l \in Int /\ m = l - old BY <2>5, <4>4
        <5> HIDE DEF l, m
        <5>2. (p + old) + m = p + l BY <1>4, <5>1, Replace
        <5> QED BY <5>2 DEF m
      <4>6. p + old \in 0 .. Length(gu) BY <4>4 DEF Placed
      <4>7. Filled(u, gu) BY <2>1, <2>2, <4>2, <4>4, <4>5, <4>6 DEF Filled, Has
      <4> QED BY <4>1, <4>7
    <3> HIDE DEF t, z
    <3>4. t[1] = d /\ t[2] = z BY <3>1
    <3> QED BY <1>3, <3>1, <3>3, <3>4 DEF OfGuest, t
  <2> QED BY <2>6, <2>7, <2>8
<1> QED BY <1>5, <1>6 DEF OfGuest

\* what slirp has offered last is no more than the buffer's room
LEMMA RwndIs ==
  ASSUME NEW d, NEW gu, IsGuest(gu), Ring(d.rcv), Numbered(d, gu)
  PROVE  Most(sbspace(d.rcv), Diff(d.adv, d.rnxt)) = sbspace(d.rcv)
<1> DEFINE R == Received(d)
           w == sbspace(d.rcv)
<1>1. d.irs \in Numbers /\ R \in 0 .. Length(gu) + 1 /\ d.rnxt = Plus(d.irs, R + 1) BY DEF Numbered
<1>2. PICK a \in 0 .. R + TCP_MAXWIN : d.adv = Plus(d.irs, a + 1) /\ a <= R + w BY DEF Numbered
<1>3. w \in 0 .. SPACE + MSS BY BufferSpace
<1>4. Length(gu) \in Nat /\ Length(gu) + (SPACE + MSS + 2) < Half BY DEF IsGuest
<1> HIDE DEF R, w
<1>5. /\ a + 1 \in -1 .. Half /\ R + 1 \in -1 .. Half
      /\ (a + 1) - (R + 1) < Half /\ (R + 1) - (a + 1) <= Half /\ a \in Int /\ R \in Int
  BY <1>1, <1>2, <1>3, <1>4, Spaces
<1>6. Diff(Plus(d.irs, a + 1), Plus(d.irs, R + 1)) = (a + 1) - (R + 1) BY <1>1, <1>5, DiffIs
<1>7. Diff(d.adv, d.rnxt) = Diff(Plus(d.irs, a + 1), Plus(d.irs, R + 1)) BY <1>1, <1>2, Zenon
<1>8. Diff(d.adv, d.rnxt) <= w /\ Diff(d.adv, d.rnxt) \in Int
  <2>1. (a + 1) - (R + 1) <= w /\ (a + 1) - (R + 1) \in Int BY <1>2, <1>3, <1>5
  <2> QED BY <1>6, <1>7, <2>1
<1>9. Most(w, Diff(d.adv, d.rnxt)) = w BY <1>3, <1>8 DEF Most
<1> QED BY <1>9 DEF w

\* The right edge cuts off what is beyond the window.
Over(d, s, w) == Diff(Plus(s.seq, Len(s.data)), Plus(d.rnxt, w))
Cut(s, over) == IF over > 0 THEN Without(TrimBack(s, over), {"PUSH", "FIN"}) ELSE s

LEMMA CutIs ==
  ASSUME NEW s, IsSeg(s), NEW over
  PROVE  /\ IsSeg(Cut(s, over)) /\ Cut(s, over).seq = s.seq /\ Cut(s, over).flags \subseteq s.flags
         /\ over > 0 => /\ Cut(s, over).data = SubSeq(s.data, 1, Len(s.data) - over)
                        /\ ~Has(Cut(s, over), "FIN")
<1>1. CASE over > 0
  <2> DEFINE x == [s EXCEPT !.data = SubSeq(@, 1, Len(@) - over)]
  <2>1. /\ IsSeg(x) /\ x.seq = s.seq /\ x.flags = s.flags
        /\ x.data = SubSeq(s.data, 1, Len(s.data) - over)
    BY DEF IsSeg, SegFields
  <2>2. Cut(s, over) = Without(x, {"PUSH", "FIN"}) BY <1>1 DEF Cut, TrimBack
  <2> HIDE DEF x
  <2> DEFINE y == Without(x, {"PUSH", "FIN"})
  <2>3. IsSeg(y) /\ y.seq = x.seq /\ y.flags = x.flags \ {"PUSH", "FIN"} /\ y.data = x.data
    BY <2>1 DEF Without, IsSeg, SegFields
  <2> HIDE DEF y
  <2>4. Cut(s, over) = y BY <2>2 DEF y
  <2> QED BY <2>1, <2>3, <2>4 DEF Has
<1>2. CASE ~(over > 0)
  <2>1. Cut(s, over) = s BY <1>2 DEF Cut
  <2> QED BY <1>2, <2>1
<1> QED BY <1>1, <1>2

LEMMA CutArrives ==
  ASSUME NEW d, NEW gu, IsGuest(gu), Knows(d, gu), NEW s, OfGuest(s, gu)
  PROVE  Arrives(d, Cut(s, Over(d, s, sbspace(d.rcv))), gu)
<1> DEFINE over == Over(d, s, sbspace(d.rcv))
           x == Cut(s, over)
<1> SUFFICES Arrives(d, x, gu) OBVIOUS
<1>1. IsSeg(s) BY DEF OfGuest, Blank, Filled
<1>2. /\ IsSeg(x) /\ x.seq = s.seq /\ x.flags \subseteq s.flags
      /\ over > 0 => x.data = SubSeq(s.data, 1, Len(s.data) - over) /\ ~Has(x, "FIN")
      /\ ~(over > 0) => x = s
  BY <1>1, CutIs DEF Cut
<1>3. Ready(d, gu) /\ d.open /\ Synced(d) BY DEF Knows
<1>4. CASE Blank(s, gu)
  <2> HIDE DEF x
  <2>1. s.data = <<>> /\ ~Has(s, "FIN") /\ (Has(s, "ACK") => gu.synced) BY <1>4 DEF Blank, Quiet
  <2>2. over \in Int
    <3> DEFINE a == Plus(s.seq, Len(s.data))
               b == Plus(d.rnxt, sbspace(d.rcv))
    <3>1. a \in Numbers
      <4>1. s.seq \in Int /\ Len(s.data) \in Int BY <1>4, <2>1, Number DEF Blank
      <4> QED BY <4>1, PlusIn
    <3>2. b \in Numbers
      <4>1. d.rnxt \in Numbers /\ Ring(d.rcv) BY KnowsIs DEF Knows, Ready, Rx, Opened, Sound
      <4>2. sbspace(d.rcv) \in 0 .. SPACE + MSS BY <4>1, BufferSpace
      <4>3. d.rnxt \in Int /\ sbspace(d.rcv) \in Int BY <4>1, <4>2, Number
      <4> QED BY <4>3, PlusIn
    <3>3. a \in Int /\ b \in Int BY <3>1, <3>2, Number
    <3> HIDE DEF a, b
    <3>4. Diff(a, b) \in Int BY <3>3, DiffIn
    <3> QED BY <3>4 DEF Over, a, b
  <2>3. Quiet(x)
    <3> HIDE DEF over
    <3>1. CASE over > 0
      <4>1. SubSeq(s.data, 1, Len(s.data) - over) = <<>>
        <5> DEFINE l == Len(s.data) - over
        <5>1. l \in Int /\ l <= 0 BY <2>1, <2>2, <3>1
        <5> HIDE DEF l
        <5>2. SubSeq(<<>>, 1, l) = <<>> BY <5>1
        <5> QED BY <2>1, <5>2 DEF l
      <4> QED BY <1>2, <3>1, <4>1 DEF Quiet
    <3>2. CASE ~(over > 0) BY <1>2, <2>1, <3>2 DEF Quiet
    <3> QED BY <3>1, <3>2
  <2> QED BY <1>2, <1>3, <2>1, <2>3 DEF Arrives, Has
<1>5. CASE Filled(s, gu)
  <2>1. PICK p \in 0 .. Length(gu) :
          /\ Placed(s.seq, s.data, First(gu), p, Length(gu))
          /\ Has(s, "FIN") => p + Len(s.data) = Length(gu) /\ gu.fin
    BY <1>5 DEF Filled
  <2> DEFINE R == Received(d)
             w == sbspace(d.rcv)
             l == Len(s.data)
  <2>2. gu.estab /\ gu.synced /\ d.irs = First(gu) BY <1>5, KnowsIs DEF Filled, IsGuest
  <2>3. R \in 0 .. Length(gu) + 1 /\ d.rnxt = Plus(d.irs, R + 1) /\ d.irs \in Numbers /\ Ring(d.rcv)
    BY KnowsIs DEF Numbered
  <2>4. w \in 0 .. SPACE + MSS BY <2>3, BufferSpace
  <2>5. l \in Nat /\ p + l <= Length(gu) /\ s.seq = Plus(d.irs, p + 1) /\ s.data \in Seq(Int)
    BY <2>1, <2>2 DEF Placed
  <2>6. Length(gu) \in Nat /\ Length(gu) + (SPACE + MSS + 2) < Half BY DEF IsGuest
  <2>7. over = (p + l) - (R + w)
    <3> HIDE DEF R, w, l
    <3>1. /\ p + 1 \in -1 .. Half /\ l \in -1 .. Half /\ (p + 1) + l \in -1 .. Half /\ (p + 1) + l = (p + l) + 1
          /\ R + 1 \in -1 .. Half /\ w \in -1 .. Half /\ (R + 1) + w \in -1 .. Half /\ (R + 1) + w = (R + w) + 1
      BY <2>3, <2>4, <2>5, <2>6, Spaces
    <3>2. Plus(s.seq, l) = Plus(d.irs, (p + l) + 1)
      <4>1. Plus(Plus(d.irs, p + 1), l) = Plus(d.irs, (p + 1) + l) BY <2>3, <3>1, PlusPlus
      <4> QED BY <2>5, <3>1, <4>1, Zenon
    <3>3. Plus(d.rnxt, w) = Plus(d.irs, (R + w) + 1)
      <4>1. Plus(Plus(d.irs, R + 1), w) = Plus(d.irs, (R + 1) + w) BY <2>3, <3>1, PlusPlus
      <4> QED BY <2>3, <3>1, <4>1, Zenon
    <3>4. ((p + l) + 1) - ((R + w) + 1) < Half /\ ((R + w) + 1) - ((p + l) + 1) <= Half
      BY <2>3, <2>4, <2>5, <2>6, Spaces
    <3>5. Diff(Plus(d.irs, (p + l) + 1), Plus(d.irs, (R + w) + 1)) = ((p + l) + 1) - ((R + w) + 1)
      BY <2>3, <3>1, <3>4, DiffIs
    <3>6. ((p + l) + 1) - ((R + w) + 1) = (p + l) - (R + w) BY <2>3, <2>4, <2>5
    <3> QED BY <3>2, <3>3, <3>5, <3>6 DEF Over, w, l
  <2>8. CASE ~(over > 0)
    <3>1. x = s BY <1>2, <2>8
    <3>2. p + l <= R + w
      <4> HIDE DEF R, w, l, over
      <4> QED BY <2>3, <2>4, <2>5, <2>7, <2>8
    <3>3. InWindow(d, s, gu) BY <2>1, <2>2, <3>2 DEF InWindow
    <3> QED BY <1>1, <1>3, <2>2, <3>1, <3>3 DEF Arrives
  <2>9. CASE over > 0 /\ over >= l
    <3> HIDE DEF x
    <3>1. l - over \in Int /\ l - over <= 0
      <4> HIDE DEF R, w, l, over
      <4> QED BY <2>3, <2>4, <2>5, <2>7, <2>9
    <3>2. SubSeq(s.data, 1, l - over) = <<>>
      <4> DEFINE m == l - over
      <4> HIDE DEF m
      <4>1. SubSeq(s.data, 1, m) = <<>> BY <2>5, <3>1 DEF m
      <4> QED BY <4>1 DEF m
    <3>3. x.data = <<>> /\ ~Has(x, "FIN") BY <1>2, <2>9, <3>2
    <3> QED BY <1>2, <1>3, <2>2, <3>3 DEF Arrives, Quiet
  <2>10. CASE over > 0 /\ ~(over >= l)
    <3> HIDE DEF x
    <3>1. l - over \in 0 .. l /\ p + (l - over) = R + w /\ 0 \in 0 .. l
      <4> HIDE DEF R, w, l, over
      <4> QED BY <2>3, <2>4, <2>5, <2>7, <2>10
    <3>2. x.data = SubSeq(s.data, 1, l - over) /\ ~Has(x, "FIN") BY <1>2, <2>10
    <3>3. Placed(s.seq, x.data, d.irs, p, Length(gu)) /\ Len(x.data) = l - over
      <4> DEFINE m == l - over
      <4>1. m \in 0 .. l /\ 0 \in 0 .. l BY <3>1
      <4> HIDE DEF m
      <4>2. Placed(s.seq, SubSeq(s.data, 0 + 1, m), d.irs, p, Length(gu)) /\ Len(SubSeq(s.data, 0 + 1, m)) = m - 0
        BY <2>1, <2>2, <2>3, <4>1, PlacedPart, Ample
      <4>3. 0 + 1 = 1 /\ m - 0 = m BY <2>5, <4>1
      <4> QED BY <3>2, <4>2, <4>3 DEF m
    <3>4. p + Len(x.data) <= R + w
      <4> HIDE DEF R, w, l, over
      <4>1. R + w \in Int BY <2>3, <2>4
      <4> QED BY <3>1, <3>3, <4>1
    <3>5. InWindow(d, x, gu) BY <1>2, <3>2, <3>3, <3>4 DEF InWindow
    <3> QED BY <1>2, <1>3, <2>2, <3>5 DEF Arrives
  <2> QED BY <2>8, <2>9, <2>10
<1> QED BY <1>4, <1>5 DEF OfGuest

LEMMA RightEdgeDone ==
  ASSUME NEW d, NEW gu, IsGuest(gu), Knows(d, gu), NEW s, OfGuest(s, gu), NEW answer \in tcp_fconnect
  PROVE  Done(RightEdge(d, s, sbspace(d.rcv), answer), gu)
<1> DEFINE over == Over(d, s, sbspace(d.rcv))
           outside == over > 0 /\ over >= Len(s.data)
           x == Cut(s, over)
           y == IF outside THEN AckNow(d) ELSE d
<1>1. /\ Ready(d, gu) /\ d.open /\ IsConn(d) /\ HostOK(d.h, gu) /\ Plain(d.out)
  BY KnowsIs
<1>2. Ready(tcp_close(d), gu) /\ tcp_close(d).h = d.h /\ tcp_close(d).out = d.out BY <1>1, CloseReady
<1>3. Done(dropwithreset(tcp_close(d), s), gu) BY <1>2, ResetReady, ReadyIsDone
<1>4. Has(s, "SYN") => Done(Listen(NewSocket(tcp_close(d)), s, answer), gu)
  <2> SUFFICES ASSUME Has(s, "SYN") PROVE Done(Listen(NewSocket(tcp_close(d)), s, answer), gu) OBVIOUS
  <2>1. IsSeg(s) /\ Quiet(s) /\ s.seq = First(gu) BY DEF OfGuest, Blank, Filled
  <2>2. Plain(tcp_close(d).out) /\ tcp_close(d).h.room \in Nat BY <1>1, <1>2 DEF HostOK
  <2> QED BY <2>1, <2>2, ListenDone
<1>5. Done(dropafterack(d, s), gu) BY <1>1, DropAfterAckDone
<1>6. Done(Resets(y, x), gu)
  <2>1. Arrives(d, x, gu) BY CutArrives
  <2>2. Arrives(y, x, gu)
    <3>1. CASE y = d BY <2>1, <3>1
    <3>2. CASE y = AckNow(d)
      <4>1. Knows(y, gu) BY <1>1, <3>2, AckNowAside, AsideKnows
      <4>2. y.rcv = d.rcv /\ y.rnxt = d.rnxt /\ y.irs = d.irs BY <1>1, <3>2, AckNowAside DEF Aside, Same
      <4>3. Over(y, s, sbspace(y.rcv)) = over BY <4>2 DEF Over
      <4>4. Arrives(y, Cut(s, Over(y, s, sbspace(y.rcv))), gu) BY <4>1, CutArrives
      <4> QED BY <4>3, <4>4
    <3> QED BY <3>1, <3>2
  <2> HIDE DEF x, y
  <2> QED BY <2>2, ResetsDone
<1>7. RightEdge(d, s, sbspace(d.rcv), answer)
        = IF "NOFDREF" \in d.so_state /\ d.t_state > TCPS_CLOSE_WAIT /\ s.data # <<>>
          THEN dropwithreset(tcp_close(d), s)
          ELSE IF outside /\ Has(s, "SYN") /\ d.t_state = TCPS_TIME_WAIT /\ SEQ_GT(s.seq, d.rnxt)
          THEN Listen(NewSocket(tcp_close(d)), s, answer)
          ELSE IF outside /\ ~(sbspace(d.rcv) = 0 /\ s.seq = d.rnxt) THEN dropafterack(d, s)
          ELSE Resets(y, x)
  BY DEF RightEdge, Over, Cut
<1> HIDE DEF x, y, outside, over
<1> QED BY <1>3, <1>4, <1>5, <1>6, <1>7

LEMMA SynchronizedDone ==
  ASSUME NEW d, NEW gu, IsGuest(gu), Knows(d, gu), NEW s, OfGuest(s, gu), NEW answer \in tcp_fconnect
  PROVE  Done(Synchronized(d, s, answer), gu)
<1> DEFINE t == LeftEdge(d, s)
           a == t[1]
           b == t[2]
           rwnd == Most(sbspace(d.rcv), Diff(d.adv, d.rnxt))
<1>1. Aside(d, a) /\ OfGuest(b, gu) BY LeftEdgeIs
<1>2. Synchronized(d, s, answer) = RightEdge(a, b, rwnd, answer) BY DEF Synchronized
<1> HIDE DEF a, b
<1>3. Knows(a, gu) /\ a.rcv = d.rcv BY <1>1, AsideKnows DEF Aside
<1>4. rwnd = sbspace(d.rcv) BY KnowsIs, RwndIs
<1> HIDE DEF rwnd
<1>5. Done(RightEdge(a, b, sbspace(a.rcv), answer), gu) BY <1>1, <1>3, RightEdgeDone
<1> QED BY <1>2, <1>3, <1>4, <1>5

-----------------------------------------------------------------------------
(* The embryonic states.                                                   *)

LEMMA TrimDone ==
  ASSUME NEW d, NEW gu, IsGuest(gu), Ready(d, gu), d.open, NEW s, IsSeg(s), Quiet(s)
  PROVE  Done(trimthenstep6(d, s), gu)
<1> DEFINE rwnd == Most(sbspace(d.rcv), Diff(d.adv, d.rnxt))
           s1 == [s EXCEPT !.seq = Plus(@, 1)]
           x == IF Len(s1.data) > rwnd THEN Without(TrimBack(s1, Len(s1.data) - rwnd), {"FIN"}) ELSE s1
           e == [d EXCEPT !.wl1 = s.seq]
<1>1. IsConn(d) /\ Ring(d.rcv) /\ d.adv \in Numbers /\ d.rnxt \in Numbers BY DEF Ready, Rx, Opened, Sound
<1>2. rwnd \in Nat
  <2>1. sbspace(d.rcv) \in Nat BY <1>1, BufferSpace, Spaces
  <2>2. Diff(d.adv, d.rnxt) \in Int
    <3>1. d.adv \in Int /\ d.rnxt \in Int BY <1>1, Number
    <3> QED BY <3>1, DiffIn
  <2> QED BY <2>1, <2>2 DEF Most
<1>3. IsSeg(s1) /\ s1.data = <<>> /\ s1.flags = s.flags BY DEF Quiet, IsSeg, SegFields
<1>4. x = s1
  <2> HIDE DEF rwnd, s1
  <2>1. Len(s1.data) = 0 BY <1>3
  <2> QED BY <1>2, <2>1
<1>5. trimthenstep6(d, s) = step6(e, x, FALSE) BY DEF trimthenstep6
<1> HIDE DEF x, s1
<1>6. IsSeg(x) /\ Quiet(x) BY <1>3, <1>4 DEF Quiet, Has
<1>7. Aside(d, e) BY <1>1 DEF Aside, Same, IsConn, Fields
<1> HIDE DEF e
<1>8. Ready(e, gu) /\ e.open BY <1>7, AsideReady DEF Aside, Same
<1>9. Due6(e, x, gu) BY <1>6, <1>8 DEF Due6
<1> QED BY <1>5, <1>9, Step6Done

\* a connection that has sent its SYN
SynSent(d, gu) == Ready(d, gu) /\ d.open /\ d.t_state = TCPS_SYN_SENT
\* what the guest's SYN makes of it, in either case
Sequenced(d, s) == AckNow(tcp_rcvseqinit([Disarm(d, "REXMT") EXCEPT !.irs = s.seq]))

LEMMA SequencedIs ==
  ASSUME NEW d, NEW gu, IsGuest(gu), SynSent(d, gu), NEW s, s.seq = First(gu)
  PROVE  IsConn(Sequenced(d, s)) /\ Opening([Sequenced(d, s) EXCEPT !.t_state = TCPS_SYN_RECEIVED], gu)
<1>1. /\ IsConn(d) /\ d.open = TRUE /\ Plain(d.out) /\ HostOK(d.h, gu) /\ Ring(d.rcv) /\ Beginning(d)
      /\ d.t_state = TCPS_SYN_SENT
  <2>1. Ready(d, gu) /\ d.open /\ d.t_state = TCPS_SYN_SENT BY DEF SynSent
  <2>2. Opened(d, gu) /\ d.open \in BOOLEAN /\ IsConn(d) /\ HostOK(d.h, gu) /\ Plain(d.out) BY <2>1 DEF Ready, Rx
  <2>3. d.t_state \in Early BY <2>1, States
  <2> QED BY <2>1, <2>2, <2>3 DEF Opened, Sound
<1> DEFINE x == Disarm(d, "REXMT")
           y == [x EXCEPT !.irs = s.seq]
           z == tcp_rcvseqinit(y)
           w == AckNow(z)
           e == [w EXCEPT !.t_state = TCPS_SYN_RECEIVED]
<1>2. /\ IsConn(x) /\ x.open = TRUE /\ x.out = d.out /\ x.h = d.h /\ x.rcv = d.rcv /\ x.seg = d.seg
      /\ x.so_state = d.so_state
  BY <1>1 DEF Disarm, IsConn, Fields
<1> HIDE DEF x
<1>3. /\ IsConn(y) /\ y.open = TRUE /\ y.out = d.out /\ y.h = d.h /\ y.rcv = d.rcv /\ y.seg = d.seg
      /\ y.so_state = d.so_state /\ y.irs = s.seq
  BY <1>2 DEF IsConn, Fields
<1> HIDE DEF y
<1>4. /\ IsConn(z) /\ z.open = TRUE /\ z.out = d.out /\ z.h = d.h /\ z.rcv = d.rcv /\ z.seg = d.seg
      /\ z.so_state = d.so_state /\ z.irs = s.seq /\ z.rnxt = Plus(s.seq, 1) /\ z.adv = Plus(s.seq, 1)
  BY <1>3, ZenonT(30) DEF tcp_rcvseqinit, IsConn, Fields
<1> HIDE DEF z
<1>5. /\ IsConn(w) /\ w.open = TRUE /\ w.out = d.out /\ w.h = d.h /\ w.rcv = d.rcv /\ w.seg = d.seg
      /\ w.so_state = d.so_state /\ w.irs = s.seq /\ w.rnxt = Plus(s.seq, 1) /\ w.adv = Plus(s.seq, 1)
  BY <1>4 DEF AckNow, IsConn, Fields
<1> HIDE DEF w
<1>6. /\ IsConn(e) /\ e.open = TRUE /\ e.out = d.out /\ e.h = d.h /\ e.rcv = d.rcv /\ e.seg = d.seg
      /\ e.so_state = d.so_state /\ e.irs = s.seq /\ e.rnxt = Plus(s.seq, 1) /\ e.adv = Plus(s.seq, 1)
      /\ e.t_state = TCPS_SYN_RECEIVED
  BY <1>5 DEF IsConn, Fields
<1> HIDE DEF e
<1>7. /\ d.seg = <<>> /\ d.rcv.cc = 0 /\ d.h.got = <<>> /\ ~d.h.eof /\ ~d.h.dead
      /\ d.so_state \subseteq {"NOFDREF", "INCOMING", "ISFCONNECTING"} /\ "ISFCONNECTING" \notin d.so_state
  BY <1>1, States DEF Beginning
<1>8. Opening(e, gu) BY <1>1, <1>6, <1>7, OpeningReady
<1> QED BY <1>5, <1>8 DEF Sequenced, e, w, z, y, x

LEMMA SynSentDone ==
  ASSUME NEW d, NEW gu, IsGuest(gu), SynSent(d, gu), NEW s, OfGuest(s, gu)
  PROVE  Done(SYN_SENT(d, s), gu)
<1> DEFINE acks == Has(s, "ACK")
           d1 == IF acks THEN [d EXCEPT !.una = s.ack, !.nxt = IF SEQ_LT(@, s.ack) THEN s.ack ELSE @] ELSE d
           c2 == Sequenced(d1, s)
           est == [c2 EXCEPT !.t_state = TCPS_ESTABLISHED]
           conn == soisfconnected(est)
           pr == Present(conn)
           up == pr[1]
           timed == IF up.rtseq # Untimed THEN [up EXCEPT !.rtseq = Untimed, !.rxtshift = 0] ELSE up
           rcvd == [c2 EXCEPT !.t_state = TCPS_SYN_RECEIVED]
<1>1. SYN_SENT(d, s)
        = IF acks /\ (SEQ_LEQ(s.ack, d.iss) \/ SEQ_GT(s.ack, d.max)) THEN dropwithreset(d, s)
          ELSE IF Has(s, "RST") THEN IF acks THEN tcp_drop(d) ELSE d
          ELSE IF ~Has(s, "SYN") THEN d
          ELSE trimthenstep6(IF acks /\ SEQ_GT(d1.una, d.iss) THEN timed ELSE rcvd, s)
  BY DEF SYN_SENT, Sequenced
<1>2. Ready(d, gu) /\ d.open /\ IsConn(d) BY DEF SynSent, Ready, Rx
<1>3. Done(dropwithreset(d, s), gu) /\ Done(tcp_drop(d), gu) /\ Done(d, gu)
  BY <1>2, ResetReady, DropReady, ReadyIsDone
<1>4. ASSUME Has(s, "SYN") PROVE Done(trimthenstep6(rcvd, s), gu) /\ (acks => Done(trimthenstep6(timed, s), gu))
  <2>1. IsSeg(s) /\ Quiet(s) /\ s.seq = First(gu) /\ (acks => gu.synced) BY <1>4 DEF OfGuest, Blank, Filled
  <2>2. Aside(d, d1)
    <3>1. CASE acks
      <4> DEFINE a == IF SEQ_LT(d.nxt, s.ack) THEN s.ack ELSE d.nxt
                 f == [d EXCEPT !.una = s.ack, !.nxt = a]
      <4>1. d1 = f BY <3>1
      <4> HIDE DEF a, d1
      <4>2. Aside(d, f) BY <1>2 DEF Aside, Same, IsConn, Fields
      <4> QED BY <4>1, <4>2
    <3>2. CASE ~acks
      <4>1. d1 = d BY <3>2
      <4> QED BY <1>2, <4>1, ArmAside
    <3> QED BY <3>1, <3>2
  <2> HIDE DEF d1
  <2>3. SynSent(d1, gu)
    <3>1. Ready(d1, gu) BY <1>2, <2>2, AsideReady
    <3>2. d1.open = d.open /\ d1.t_state = d.t_state BY <2>2 DEF Aside, Same
    <3> QED BY <3>1, <3>2 DEF SynSent
  <2>4. IsConn(c2) /\ Opening(rcvd, gu) BY <2>1, <2>3, SequencedIs
  <2>5. Done(trimthenstep6(rcvd, s), gu) BY <2>1, <2>4, TrimDone DEF Opening
  <2>6. ASSUME acks PROVE Done(trimthenstep6(timed, s), gu)
    <3> HIDE DEF c2
    <3>1. est = [rcvd EXCEPT !.t_state = TCPS_ESTABLISHED, !.una = c2.una] BY <2>4 DEF IsConn, Fields
    <3>2. conn = Established(rcvd, c2.una) BY <3>1, Zenon DEF Established
    <3> HIDE DEF rcvd, est, conn
    <3>3. Up(conn, gu) /\ conn.seg = <<>> /\ IsConn(conn)
      BY <2>1, <2>4, <2>6, <3>2, Establishes DEF EstablishedUp
    <3>4. Aside(conn, up) BY <3>3, PresentUp
    <3> HIDE DEF pr
    <3>5. Ready(up, gu) /\ up.open /\ IsConn(up) BY <3>3, <3>4, AsideUp, UpIs DEF Up
    <3> HIDE DEF up
    <3>6. Aside(up, timed)
      <4> DEFINE f == [up EXCEPT !.rtseq = Untimed, !.rxtshift = 0]
      <4>1. Aside(up, f) /\ Aside(up, up) BY <3>5 DEF Aside, Same, IsConn, Fields
      <4>2. timed = f \/ timed = up OBVIOUS
      <4> HIDE DEF f, timed
      <4> QED BY <4>1, <4>2
    <3> HIDE DEF timed
    <3>7. Ready(timed, gu) /\ timed.open BY <3>5, <3>6, AsideReady DEF Aside, Same
    <3> QED BY <2>1, <3>7, TrimDone
  <2> QED BY <2>5, <2>6
<1> HIDE DEF acks, timed, rcvd
<1> QED BY <1>1, <1>3, <1>4

\* The guest's SYN waits for the host's answer.
LEMMA ConnectingIs ==
  ASSUME NEW d, NEW gu, IsGuest(gu), Ready(d, gu), d.open, "ISFCONNECTING" \in d.so_state
  PROVE  /\ IsConn(d) /\ d.open = TRUE /\ Plain(d.out) /\ HostOK(d.h, gu) /\ Ring(d.rcv) /\ Beginning(d)
         /\ Opened(d, gu) /\ d.t_state = TCPS_SYN_RECEIVED /\ d.irs = First(gu)
         /\ IsSeg(d.so_m) /\ Quiet(d.so_m) /\ d.so_m.seq = First(gu)
<1>1. Opened(d, gu) /\ d.open \in BOOLEAN /\ IsConn(d) /\ HostOK(d.h, gu) /\ Plain(d.out) BY DEF Ready, Rx
<1>2. ~Estab(d) BY <1>1 DEF Opened, Flowing
<1>3. d.t_state \in Early /\ Beginning(d)
  <2>1. d.t_state \in TCPS_SYN_SENT .. TCPS_TIME_WAIT BY <1>1 DEF Opened
  <2>2. d.t_state \in Early BY <1>2, <2>1, States DEF Estab
  <2> QED BY <1>1, <2>2 DEF Opened
<1>4. /\ d.t_state = TCPS_SYN_RECEIVED /\ IsSeg(d.so_m) /\ d.so_m.seq = d.irs /\ d.so_m.data = <<>>
      /\ "FIN" \notin d.so_m.flags
  BY <1>3 DEF Beginning
<1>5. d.irs = First(gu) BY <1>1, <1>4, States DEF Opened, Linked, Synced, Old
<1> QED BY <1>1, <1>3, <1>4, <1>5 DEF Opened, Sound, Quiet, Has

Polled(d, so) == [d EXCEPT !.so_state = so]

LEMMA PolledReady ==
  ASSUME NEW d, NEW gu, IsGuest(gu), Ready(d, gu), d.open, "ISFCONNECTING" \in d.so_state,
         NEW so, so = d.so_state \ {"ISFCONNECTING"}
  PROVE  Ready(Polled(d, so), gu)
<1> DEFINE e == Polled(d, so)
<1>1. /\ IsConn(e) /\ e.so_state = so
      /\ \A f \in Fields \ {"so_state"} : e[f] = d[f]
  BY ConnectingIs, ZenonT(30) DEF Polled, IsConn, Fields
<1>2. /\ e.open = d.open /\ e.seg = d.seg /\ e.rcv = d.rcv /\ e.h = d.h /\ e.out = d.out /\ e.t_state = d.t_state
      /\ e.irs = d.irs /\ e.rnxt = d.rnxt /\ e.adv = d.adv
  BY <1>1 DEF Fields
<1> HIDE DEF e
<1>3. /\ Opened(d, gu) /\ Beginning(d) /\ d.t_state = TCPS_SYN_RECEIVED /\ HostOK(d.h, gu) /\ Plain(d.out) /\ d.open = TRUE
  BY ConnectingIs
<1>4. Received(e) = Received(d) BY <1>2 DEF Received
<1>5. Beginning(e) BY <1>1, <1>2, <1>3, <1>4 DEF Beginning
<1>6. Numbered(e, gu) BY <1>2, <1>3, <1>4, States DEF Opened, Numbered, Synced
<1>7. Linked(e, gu)
  <2>1. ~Estab(e) BY <1>2, <1>3, States DEF Estab
  <2>2. e.irs = First(gu) BY <1>2, ConnectingIs
  <2> QED BY <2>1, <2>2 DEF Linked
<1>8. ~Estab(e) BY <1>2, <1>3, States DEF Estab
<1>9. Sound(e) BY <1>1, <1>2, <1>3 DEF Opened, Sound
<1>10. Opened(e, gu) BY <1>2, <1>3, <1>5, <1>6, <1>7, <1>8, <1>9 DEF Opened
<1>11. Rx(e, gu) BY <1>1, <1>2, <1>3, <1>10 DEF Rx
<1> QED BY <1>2, <1>3, <1>11 DEF Ready, e

LEMMA ContConnDone ==
  ASSUME NEW d, NEW gu, IsGuest(gu), Ready(d, gu), d.open, "ISFCONNECTING" \in d.so_state
  PROVE  Done(cont_conn([d EXCEPT !.so_state = @ \ {"ISFCONNECTING"}]), gu)
<1> DEFINE so == d.so_state \ {"ISFCONNECTING"}
           b == Polled(d, so)
           s == d.so_m
           x == [b EXCEPT !.so_m = NoSegment, !.iss = ISS, !.irs = s.seq]
           y == tcp_sendseqinit(x)
           z == tcp_rcvseqinit(y)
           w == [z EXCEPT !.t_state = TCPS_SYN_RECEIVED]
           e == AckNow(Arm(w, "KEEP"))
<1>1. /\ IsConn(d) /\ d.open = TRUE /\ Plain(d.out) /\ HostOK(d.h, gu) /\ Ring(d.rcv) /\ Beginning(d)
      /\ IsSeg(s) /\ Quiet(s) /\ s.seq = First(gu)
  BY ConnectingIs
<1>2. Ready(b, gu) BY PolledReady
<1>3. /\ IsConn(b) /\ b.so_state = so /\ b.so_m = s /\ b.open = TRUE /\ b.out = d.out /\ b.h = d.h /\ b.rcv = d.rcv
      /\ b.seg = d.seg
  BY <1>1 DEF Polled, IsConn, Fields
<1>4. cont_conn(b) = IF "NOFDREF" \in so THEN dropwithreset(tcp_close(b), s) ELSE trimthenstep6(e, s)
  BY <1>3 DEF cont_conn
<1> HIDE DEF b
<1>5. Done(dropwithreset(tcp_close(b), s), gu)
  BY <1>1, <1>3, CloseReady, ResetReady, ReadyIsDone
<1>6. /\ IsConn(x) /\ x.so_state = so /\ x.open = TRUE /\ x.out = d.out /\ x.h = d.h /\ x.rcv = d.rcv
      /\ x.seg = d.seg /\ x.irs = s.seq
  BY <1>3, ZenonT(30) DEF IsConn, Fields
<1> HIDE DEF x
<1>7. /\ IsConn(y) /\ y.so_state = so /\ y.open = TRUE /\ y.out = d.out /\ y.h = d.h /\ y.rcv = d.rcv
      /\ y.seg = d.seg /\ y.irs = s.seq
  BY <1>6, ZenonT(30) DEF tcp_sendseqinit, IsConn, Fields
<1> HIDE DEF y
<1>8. /\ IsConn(z) /\ z.so_state = so /\ z.open = TRUE /\ z.out = d.out /\ z.h = d.h /\ z.rcv = d.rcv
      /\ z.seg = d.seg /\ z.irs = s.seq /\ z.rnxt = Plus(s.seq, 1) /\ z.adv = Plus(s.seq, 1)
  BY <1>7, ZenonT(30) DEF tcp_rcvseqinit, IsConn, Fields
<1> HIDE DEF z
<1>9. /\ IsConn(w) /\ w.so_state = so /\ w.open = TRUE /\ w.out = d.out /\ w.h = d.h /\ w.rcv = d.rcv
      /\ w.seg = d.seg /\ w.irs = s.seq /\ w.rnxt = Plus(s.seq, 1) /\ w.adv = Plus(s.seq, 1)
      /\ w.t_state = TCPS_SYN_RECEIVED
  BY <1>8 DEF IsConn, Fields
<1> HIDE DEF w
<1>10. Opening(w, gu)
  <2>1. so \subseteq {"NOFDREF", "INCOMING", "ISFCONNECTING"} /\ "ISFCONNECTING" \notin so BY <1>1 DEF Beginning
  <2>2. d.seg = <<>> /\ d.rcv.cc = 0 /\ d.h.got = <<>> /\ ~d.h.eof /\ ~d.h.dead BY <1>1 DEF Beginning
  <2> HIDE DEF so, s
  <2> QED BY <1>1, <1>9, <2>1, <2>2, OpeningReady
<1>11. Ready(e, gu) /\ e.open
  <2>1. Aside(w, Arm(w, "KEEP")) BY <1>9, ArmAside
  <2>2. Aside(Arm(w, "KEEP"), e) BY <2>1, AckNowAside DEF Aside, Same
  <2>3. Aside(w, e) BY <2>1, <2>2, AsideTwice
  <2> HIDE DEF e
  <2> QED BY <1>10, <2>3, AsideReady DEF Opening, Aside, Same
<1> HIDE DEF e
<1>12. Done(trimthenstep6(e, s), gu) BY <1>1, <1>11, TrimDone
<1>13. Done(cont_conn(b), gu) BY <1>4, <1>5, <1>12
<1> QED BY <1>13 DEF b, Polled

\* The host has refused.
LEMMA RefusedDone ==
  ASSUME NEW d, NEW gu, IsGuest(gu), Ready(d, gu), d.open, "ISFCONNECTING" \in d.so_state
  PROVE  Done(cont_conn([d EXCEPT !.so_state = {"NOFDREF"}, !.h.dead = TRUE]), gu)
<1> DEFINE h == [d.h EXCEPT !.dead = TRUE]
           b == [d EXCEPT !.so_state = {"NOFDREF"}, !.h = h]
<1>1. IsConn(d) /\ Plain(d.out) /\ HostOK(d.h, gu) BY ConnectingIs
<1>2. HostEnds(d.h, h) BY <1>1 DEF HostOK, HostEnds, HostFields
<1>3. HostOK(h, gu) BY <1>1, <1>2, HostEndsOK
<1>4. [d EXCEPT !.so_state = {"NOFDREF"}, !.h.dead = TRUE] = b OBVIOUS
<1> HIDE DEF h
<1>5. b.so_state = {"NOFDREF"} /\ b.out = d.out /\ b.h = h BY <1>1 DEF IsConn, Fields
<1> HIDE DEF b
<1>6. cont_conn(b) = dropwithreset(tcp_close(b), b.so_m) BY <1>5 DEF cont_conn
<1>7. Done(dropwithreset(tcp_close(b), b.so_m), gu) BY <1>1, <1>3, <1>5, CloseReady, ResetReady, ReadyIsDone
<1> QED BY <1>4, <1>6, <1>7

-----------------------------------------------------------------------------
(* The guest's segments.                                                   *)

LEMMA AckedDone ==
  ASSUME NEW d, NEW gu, IsGuest(gu), Ready(d, gu), d.open, NEW s
  PROVE  Done(Acked(d, s), gu)
<1> DEFINE a == tcp_xmit_timer(d, s)
           b == [a EXCEPT !.snd = sbdrop(@, Diff(s.ack, d.una)), !.una = s.ack]
           e == Reckon(b, s)
<1>1. IsConn(d) BY DEF Ready, Rx
<1>2. Acked(d, s) = IF e.snd.cc # 0 THEN tcp_output(e) ELSE e BY DEF Acked
<1>3. Aside(d, a)
  <2> DEFINE f == [d EXCEPT !.rtseq = Untimed, !.rxtshift = 0]
  <2>1. Aside(d, f) /\ Aside(d, d) BY <1>1, ZenonT(30) DEF Aside, Same, IsConn, Fields
  <2>2. a = f \/ a = d BY DEF tcp_xmit_timer
  <2> HIDE DEF a, f
  <2> QED BY <2>1, <2>2
<1> HIDE DEF a
<1>4. Aside(a, b)
  <2>1. IsConn(a) BY <1>3 DEF Aside, Same
  <2> QED BY <2>1, ZenonT(30) DEF Aside, Same, IsConn, Fields
<1> HIDE DEF b
<1>5. Aside(b, e)
  <2>1. IsConn(b) BY <1>4 DEF Aside, Same
  <2>2. e \in {Disarm(b, "REXMT"), Arm(b, "REXMT"), b} BY DEF Reckon
  <2> HIDE DEF e
  <2> QED BY <2>1, <2>2, ArmAside
<1> HIDE DEF e
<1>6. Aside(d, e) BY <1>3, <1>4, <1>5, AsideTwice
<1>7. Ready(e, gu) /\ e.open BY <1>6, AsideReady DEF Aside, Same
<1> QED BY <1>2, <1>7, OutputsDone, ReadyIsDone

\* the next of the stream, and all of it fits
TakesData(d, s) == sbappend([d EXCEPT !.rnxt = Plus(@, Len(s.data))], s.data)

LEMMA PureDataDone ==
  ASSUME NEW d, NEW gu, IsGuest(gu), Ready(d, gu), d.open, NEW s, OfGuest(s, gu), PureData(d, s)
  PROVE  Done(tcp_output(AckNow(TakesData(d, s))), gu)
<1>1. /\ d.t_state = TCPS_ESTABLISHED /\ "FIN" \notin s.flags /\ s.seq = d.rnxt /\ s.data # <<>> /\ d.seg = <<>>
      /\ Len(s.data) <= sbspace(d.rcv)
  BY DEF PureData, Predicted
<1>2. Up(d, gu) BY <1>1, States DEF Up, Estab
<1>3. Filled(s, gu) BY <1>1 DEF OfGuest, Blank, Quiet
<1>4. gu.estab /\ gu.synced BY <1>3 DEF Filled, IsGuest
<1>5. Knows(d, gu) BY <1>2, UpIs DEF Knows, Up
<1>6. d.irs = First(gu) /\ Numbered(d, gu) /\ IsConn(d) BY <1>4, <1>5, KnowsIs
<1>7. PICK p \in 0 .. Length(gu) : Placed(s.seq, s.data, d.irs, p, Length(gu)) BY <1>3, <1>6 DEF Filled
<1>8. p = Received(d)
  <2> DEFINE R == Received(d)
  <2>1. R \in 0 .. Length(gu) + 1 /\ d.rnxt = Plus(d.irs, R + 1) /\ d.irs \in Numbers BY <1>6 DEF Numbered
  <2>2. Plus(d.irs, p + 1) = Plus(d.irs, R + 1) BY <1>1, <1>7, <2>1 DEF Placed
  <2> HIDE DEF R
  <2>3. Length(gu) \in Nat /\ Length(gu) + 2 \in 0 .. Half - 1
    <3>1. Length(gu) \in Nat /\ Length(gu) + (SPACE + MSS + 2) < Half BY DEF IsGuest
    <3> QED BY <3>1, Spaces
  <2>4. p + 1 \in 0 .. Half - 1 /\ R + 1 \in 0 .. Half - 1 BY <2>1, <2>3, Spaces
  <2>5. p + 1 = R + 1 BY <2>1, <2>2, <2>4, PlaceIs
  <2>6. p = R BY <2>1, <2>5
  <2> QED BY <2>6 DEF R
<1>9. InWindow(d, s, gu)
  <2>1. p + Len(s.data) <= Received(d) + sbspace(d.rcv)
    <3> DEFINE l == Len(s.data)
               w == sbspace(d.rcv)
    <3>1. l \in Int /\ w \in Int /\ l <= w
      <4>1. Ring(d.rcv) BY <1>5, KnowsIs
      <4>2. w \in 0 .. SPACE + MSS BY <4>1, BufferSpace
      <4>3. l \in Nat BY <1>7 DEF Placed
      <4> QED BY <1>1, <4>2, <4>3
    <3> HIDE DEF l, w
    <3>2. p + l <= p + w BY <3>1
    <3> QED BY <1>8, <3>2 DEF l, w
  <2> QED BY <1>1, <1>7, <2>1 DEF InWindow, Has
<1> DEFINE x == TakesNext(d, s, d.flags)
           r == <<x, Has(s, "FIN")>>
<1>10. Taken(d, r, gu) BY <1>1, <1>2, <1>4, <1>9, TextNext
<1>11. r[1] = x OBVIOUS
<1>12. [d EXCEPT !.flags = d.flags, !.rnxt = Plus(@, Len(s.data))] = [d EXCEPT !.rnxt = Plus(@, Len(s.data))]
  BY <1>6 DEF IsConn, Fields
<1>13. x = TakesData(d, s) BY <1>12, Zenon DEF TakesNext, TakesData
<1> HIDE DEF r
<1>14. Up(x, gu) BY <1>10, <1>11 DEF Taken
<1> HIDE DEF x
<1>15. Done(tcp_output(AckNow(x)), gu) BY <1>14, AckDone DEF Up
<1> QED BY <1>13, <1>15

\* The MSS option of a SYN makes the buffers anew, which are empty yet.
LEMMA OptionsReady ==
  ASSUME NEW d, NEW gu, IsGuest(gu), Ready(d, gu), d.open, NEW s, OfGuest(s, gu), s.mss \in Nat,
         ~(Has(s, "SYN") /\ Old(d, gu))
  PROVE  Ready(tcp_dooptions(d, s), gu) /\ tcp_dooptions(d, s).open = d.open
<1>1. CASE ~(s.mss # 0 /\ Has(s, "SYN"))
  <2>1. tcp_dooptions(d, s) = d BY <1>1 DEF tcp_dooptions
  <2> QED BY <2>1
<1>2. CASE s.mss # 0 /\ Has(s, "SYN")
  <2> DEFINE e == tcp_mss(d, s.mss)
  <2>1. /\ IsConn(d) /\ d.open \in BOOLEAN /\ HostOK(d.h, gu) /\ Opened(d, gu) /\ Plain(d.out)
        /\ d.t_state \in TCPS_SYN_SENT .. TCPS_TIME_WAIT /\ Sound(d) /\ Linked(d, gu)
    BY DEF Ready, Rx, Opened
  <2>2. tcp_dooptions(d, s) = e BY <1>2 DEF tcp_dooptions
  <2>3. Same(d, e) /\ e.adv = d.adv /\ e.out = d.out /\ Ring(e.rcv) /\ e.rcv.cc = 0 BY <2>1, MssIs
  <2> HIDE DEF e
  <2>4. /\ IsConn(e) /\ e.open = d.open /\ e.t_state = d.t_state /\ e.rnxt = d.rnxt /\ e.irs = d.irs
        /\ e.seg = d.seg /\ e.so_state = d.so_state /\ e.so_m = d.so_m /\ e.h = d.h
    BY <2>3 DEF Same
  <2>5. Received(e) = Received(d) BY <2>4 DEF Received
  <2>6. Sound(e) BY <2>1, <2>3, <2>4 DEF Sound
  <2>7. d.t_state \in Early => Beginning(e) BY <2>1, <2>3, <2>4, <2>5 DEF Opened, Beginning
  <2>8. Synced(d) => Numbered(e, gu)
    <3> SUFFICES ASSUME Synced(d) PROVE Numbered(e, gu) OBVIOUS
    <3>1. Numbered(d, gu) BY <2>1 DEF Opened
    <3>2. PICK a \in 0 .. Received(d) + TCP_MAXWIN : d.adv = Plus(d.irs, a + 1) BY <3>1 DEF Numbered
    <3>3. a <= Received(e) + sbspace(e.rcv)
      <4>1. sbspace(e.rcv) \in 0 .. SPACE + MSS /\ sbspace(e.rcv) >= TCP_MAXWIN BY <2>3, BufferSpace
      <4>2. Received(d) \in 0 .. Length(gu) + 1 BY <3>1 DEF Numbered
      <4> DEFINE w == sbspace(e.rcv)
                 R == Received(d)
      <4>3. w \in Int /\ R \in Int /\ w >= TCP_MAXWIN /\ a \in 0 .. R + TCP_MAXWIN BY <4>1, <4>2, Spaces, Ample
      <4> HIDE DEF w, R
      <4>4. a <= R + w BY <4>3, Spaces
      <4> QED BY <2>5, <4>4 DEF w, R
    <3> QED BY <2>3, <2>4, <2>5, <3>1, <3>2, <3>3 DEF Numbered
  <2>9. Estab(d) => Received(d) = 0 /\ d.rcv.cc = 0 /\ d.seg = <<>> /\ gu.synced
    <3> SUFFICES ASSUME Estab(d) PROVE Received(d) = 0 /\ d.rcv.cc = 0 /\ d.seg = <<>> /\ gu.synced OBVIOUS
    <3>1. ~gu.dead /\ ~gu.estab BY <1>2 DEF OfGuest, Blank, Filled
    <3>2. gu.synced BY <1>2, <2>1, <3>1 DEF Linked
    <3> QED BY <2>1, <3>1, <3>2 DEF Linked
  <2>10. Estab(d) => Flowing(e, gu)
    <3> SUFFICES ASSUME Estab(d) PROVE Flowing(e, gu) OBVIOUS
    <3>1. Flowing(d, gu) /\ d.rcv.cc = 0 /\ d.seg = <<>> BY <2>1, <2>9 DEF Opened
    <3>2. Holds(e.rcv, Len(e.h.got)) BY <2>3 DEF Holds
    <3>3. ~e.h.dead => Len(e.h.got) + e.rcv.cc = Least(Received(e), Length(gu))
      BY <2>3, <2>4, <2>5, <3>1 DEF Flowing
    <3>4. Ended(e, gu) <=> Ended(d, gu) BY <2>5 DEF Ended
    <3>5. e.seg \in Seq(Pieces) /\ \A i \in 1 .. Len(e.seg) : PieceOK(e.seg[i], e, gu)
      <4> DEFINE q == e.seg
      <4>1. q = <<>> BY <2>4, <3>1
      <4> HIDE DEF q
      <4>2. q \in Seq(Pieces) /\ \A i \in 1 .. Len(q) : PieceOK(q[i], e, gu) BY <4>1
      <4> QED BY <4>2 DEF q
    <3>6. /\ d.h.dead => d.h.cut
          /\ "ISFCONNECTING" \notin d.so_state
          /\ "FWDRAIN" \in d.so_state => Ended(d, gu)
          /\ d.so_state \cap {"FCANTSENDMORE", "NOFDREF"} # {} => d.h.dead \/ Ended(d, gu)
          /\ d.t_state \in {TCPS_CLOSE_WAIT, TCPS_CLOSING, TCPS_LAST_ACK, TCPS_TIME_WAIT} => Ended(d, gu)
          /\ Ended(d, gu) => MayEnd(gu)
      BY <3>1 DEF Flowing
    <3> QED BY <2>4, <3>2, <3>3, <3>4, <3>5, <3>6 DEF Flowing
  <2>11. Linked(e, gu)
    <3>1. (Old(e, gu) <=> Old(d, gu)) /\ (Synced(e) <=> Synced(d)) /\ (Estab(e) <=> Estab(d))
      BY <2>4 DEF Old, Synced, Estab
    <3> QED BY <2>1, <2>3, <2>4, <2>5, <3>1 DEF Linked
  <2>12. (Synced(e) <=> Synced(d)) /\ (Estab(e) <=> Estab(d)) BY <2>4 DEF Synced, Estab
  <2>13. Opened(e, gu) BY <2>1, <2>4, <2>6, <2>7, <2>8, <2>10, <2>11, <2>12 DEF Opened
  <2>14. Rx(e, gu) BY <2>1, <2>4, <2>13 DEF Rx
  <2> QED BY <2>1, <2>2, <2>3, <2>4, <2>14 DEF Ready
<1> QED BY <1>1, <1>2

\* The connection of the guest's last life, when the SYN of the next comes, with its number
\* behind all of the last.
Stale(d, gu) ==
  /\ IsConn(d) /\ d.open = TRUE /\ HostOK(d.h, gu) /\ Plain(d.out) /\ Sound(d) /\ Old(d, gu)
  /\ Numbered(d, gu) /\ Ended(d, gu)

LEMMA Follows ==
  ASSUME NEW d, NEW gu, IsGuest(gu), Stale(d, gu), NEW w \in 0 .. SPACE + MSS
  PROVE  /\ Diff(d.rnxt, First(gu)) <= 0
         /\ Diff(First(gu), Plus(d.rnxt, w)) > 0 => SEQ_GT(First(gu), d.rnxt)
<1> DEFINE L == Length(gu)
           F == First(gu)
           b == Plus(d.irs, L + 1)
           x == UDiff(F, b)
<1>1. L \in Nat /\ L + (SPACE + MSS + 2) < Half /\ F \in Numbers /\ gu.streams \in Streams BY DEF IsGuest
<1>2. d.irs = GuestIss[gu.life - 1] /\ d.irs \in Numbers /\ Received(d) = L + 1 /\ d.rnxt = Plus(d.irs, Received(d) + 1)
  BY DEF Stale, Old, Numbered, Ended
<1>3. SEQ_GT(F, b)
  <2>1. gu.life - 1 \in 1 .. Len(GuestIss) /\ gu.life \in 1 .. Len(GuestIss) BY DEF Stale, Old, IsGuest
  <2>2. Len(GuestIss) \in Nat BY StreamAssumption
  <2>3. gu.life - 1 \in 1 .. Len(GuestIss) - 1 /\ (gu.life - 1) + 1 = gu.life BY <2>1, <2>2
  <2>4. \A i \in 1 .. Len(GuestIss) - 1 : SEQ_GT(GuestIss[i + 1], Plus(GuestIss[i], gu.streams[1] + 1))
    BY <1>1, StreamAssumption
  <2>5. SEQ_GT(GuestIss[(gu.life - 1) + 1], Plus(GuestIss[gu.life - 1], gu.streams[1] + 1)) BY <2>3, <2>4
  <2> QED BY <1>2, <2>3, <2>5 DEF First, Length
<1>4. b \in Numbers /\ x \in Numbers /\ F \in Int /\ b \in Int
  <2>1. d.irs \in Int /\ L + 1 \in Int BY <1>1, <1>2, Number
  <2>2. b \in Numbers BY <2>1, PlusIn
  <2>3. F \in Int /\ b \in Int BY <1>1, <2>2, Number
  <2>4. x \in Numbers BY <2>3, PlusIn
  <2> QED BY <2>2, <2>3, <2>4
<1>5. x \in 1 .. Half - 1
  <2> HIDE DEF x
  <2>1. Diff(F, b) = IF x < Half THEN x ELSE x - SeqSpace BY DEF Diff, Half, x
  <2>2. Diff(F, b) > 0 BY <1>3 DEF SEQ_GT
  <2>3. x \in 0 .. SeqSpace - 1 BY <1>4 DEF Numbers
  <2> HIDE DEF F, b
  <2> QED BY <2>1, <2>2, <2>3, Spaces
<1>6. F = Plus(b, x) BY <1>1, <1>4, PlusDiff
<1> HIDE DEF L, F, x
<1>7. d.rnxt = Plus(b, 1)
  <2>1. L + 1 \in -1 .. Half /\ 1 \in -1 .. Half /\ (L + 1) + 1 \in -1 .. Half BY <1>1, Spaces
  <2>2. Plus(Plus(d.irs, L + 1), 1) = Plus(d.irs, (L + 1) + 1) BY <1>2, <2>1, PlusPlus
  <2> QED BY <1>2, <2>2, Zenon
<1> HIDE DEF b
<1>8. Plus(d.rnxt, w) = Plus(b, 1 + w)
  <2>1. 1 \in -1 .. Half /\ w \in -1 .. Half /\ 1 + w \in -1 .. Half BY <1>1, Spaces
  <2>2. Plus(Plus(b, 1), w) = Plus(b, 1 + w) BY <1>4, <2>1, PlusPlus
  <2> QED BY <1>7, <2>2, Zenon
<1>9. Diff(d.rnxt, F) = 1 - x
  <2>1. 1 \in -1 .. Half /\ x \in -1 .. Half /\ 1 - x < Half /\ x - 1 <= Half BY <1>1, <1>5, Spaces
  <2>2. Diff(Plus(b, 1), Plus(b, x)) = 1 - x BY <1>4, <2>1, DiffIs
  <2> QED BY <1>6, <1>7, <2>2, Zenon
<1>10. Diff(F, d.rnxt) = x - 1
  <2>1. 1 \in -1 .. Half /\ x \in -1 .. Half /\ x - 1 < Half /\ 1 - x <= Half BY <1>1, <1>5, Spaces
  <2>2. Diff(Plus(b, x), Plus(b, 1)) = x - 1 BY <1>4, <2>1, DiffIs
  <2> QED BY <1>6, <1>7, <2>2, Zenon
<1>11. Diff(F, Plus(d.rnxt, w)) = x - (1 + w)
  <2>1. 1 + w \in -1 .. Half /\ x \in -1 .. Half /\ x - (1 + w) < Half /\ (1 + w) - x <= Half
    BY <1>1, <1>5, Spaces
  <2>2. Diff(Plus(b, x), Plus(b, 1 + w)) = x - (1 + w) BY <1>4, <2>1, DiffIs
  <2> QED BY <1>6, <1>8, <2>2, Zenon
<1>12. Diff(d.rnxt, F) <= 0 BY <1>5, <1>9
<1>13. Diff(F, Plus(d.rnxt, w)) > 0 => Diff(F, d.rnxt) > 0 BY <1>5, <1>10, <1>11, Spaces
<1> QED BY <1>12, <1>13 DEF SEQ_GT, F

LEMMA StaleDone ==
  ASSUME NEW d, NEW gu, IsGuest(gu), Stale(d, gu), NEW s, OfGuest(s, gu), Has(s, "SYN"),
         NEW answer \in tcp_fconnect
  PROVE  Done(Synchronized(d, s, answer), gu)
<1> DEFINE w == sbspace(d.rcv)
           t == LeftEdge(d, s)
           rwnd == Most(sbspace(d.rcv), Diff(d.adv, d.rnxt))
           over == Over(d, s, w)
           outside == over > 0 /\ over >= Len(s.data)
           x == Cut(s, over)
           y == IF outside THEN AckNow(d) ELSE d
<1>1. /\ IsConn(d) /\ d.open = TRUE /\ HostOK(d.h, gu) /\ Plain(d.out) /\ Sound(d) /\ d.t_state = TCPS_TIME_WAIT
      /\ Numbered(d, gu) /\ Ring(d.rcv)
  BY DEF Stale, Old, Sound
<1>2. IsSeg(s) /\ Quiet(s) /\ s.data = <<>> /\ s.seq = First(gu) /\ s.seq \in Numbers
  BY DEF OfGuest, Blank, Filled, Quiet
<1>3. w \in 0 .. SPACE + MSS BY <1>1, BufferSpace
<1>4. Diff(d.rnxt, s.seq) <= 0 /\ (Diff(s.seq, Plus(d.rnxt, w)) > 0 => SEQ_GT(s.seq, d.rnxt))
  BY <1>2, <1>3, Follows
<1>5. t = <<d, s>> BY <1>4 DEF LeftEdge
<1>6. rwnd = w BY <1>1, RwndIs
<1> HIDE DEF t
<1>7. t[1] = d /\ t[2] = s BY <1>5
<1>8. Synchronized(d, s, answer) = RightEdge(t[1], t[2], rwnd, answer) BY DEF Synchronized, t
<1>9. RightEdge(d, s, w, answer)
        = IF "NOFDREF" \in d.so_state /\ d.t_state > TCPS_CLOSE_WAIT /\ s.data # <<>>
          THEN dropwithreset(tcp_close(d), s)
          ELSE IF outside /\ Has(s, "SYN") /\ d.t_state = TCPS_TIME_WAIT /\ SEQ_GT(s.seq, d.rnxt)
          THEN Listen(NewSocket(tcp_close(d)), s, answer)
          ELSE IF outside /\ ~(w = 0 /\ s.seq = d.rnxt) THEN dropafterack(d, s)
          ELSE Resets(y, x)
  BY DEF RightEdge, Over, Cut
<1>10. over = Diff(s.seq, Plus(d.rnxt, w))
  <2>1. Len(s.data) = 0 BY <1>2
  <2>2. Plus(s.seq, 0) = s.seq
    <3>1. 0 \in -1 .. SeqSpace /\ s.seq \in 0 .. SeqSpace - 1 BY <1>2, Spaces DEF Numbers
    <3>2. Plus(s.seq, 0) = IF s.seq + 0 < 0 THEN s.seq + 0 + SeqSpace
                      ELSE IF s.seq + 0 < SeqSpace THEN s.seq + 0 ELSE (s.seq + 0) - SeqSpace
      BY <1>2, <3>1, PlusIs
    <3> QED BY <3>1, <3>2, Spaces
  <2> QED BY <2>1, <2>2 DEF Over
<1>11. outside <=> over > 0
  <2>1. Len(s.data) = 0 BY <1>2
  <2>2. over \in Int
    <3>1. s.seq \in Int /\ d.rnxt \in Int /\ w \in Int BY <1>1, <1>2, <1>3, Number DEF Sound
    <3>2. Plus(d.rnxt, w) \in Int
      <4>1. Plus(d.rnxt, w) \in Numbers BY <3>1, PlusIn
      <4> QED BY <4>1, Number
    <3> QED BY <1>10, <3>1, <3>2, DiffIn
  <2> HIDE DEF over
  <2> QED BY <2>1, <2>2
<1>12. outside => SEQ_GT(s.seq, d.rnxt) BY <1>4, <1>10, <1>11
<1>13. Plain(tcp_close(d).out) /\ tcp_close(d).h.room \in Nat /\ Done(tcp_close(d), gu)
  <2>1. Ready(tcp_close(d), gu) /\ tcp_close(d).h = d.h /\ tcp_close(d).out = d.out BY <1>1, CloseReady
  <2> QED BY <1>1, <2>1, ReadyIsDone DEF HostOK
<1>14. Done(Listen(NewSocket(tcp_close(d)), s, answer), gu) BY <1>2, <1>13, ListenDone
<1>15. ~outside => Done(Resets(y, x), gu)
  <2> SUFFICES ASSUME ~outside PROVE Done(Resets(y, x), gu) OBVIOUS
  <2>1. y = d BY Zenon
  <2>2. x = s BY <1>11 DEF Cut
  <2>3. Done(dropwithreset(tcp_drop(d), s), gu) BY <1>1, DropSound, ResetReady, ReadyIsDone
  <2>4. Resets(d, s) = IF Has(s, "RST") THEN tcp_close(d) ELSE dropwithreset(tcp_drop(d), s) BY DEF Resets
  <2> HIDE DEF x, y
  <2> QED BY <1>13, <2>1, <2>2, <2>3, <2>4
<1> HIDE DEF w, rwnd, over, outside, x, y
<1>16. Done(RightEdge(d, s, w, answer), gu) BY <1>1, <1>2, <1>9, <1>12, <1>14, <1>15
<1> QED BY <1>6, <1>7, <1>8, <1>16

LEMMA StaleOptions ==
  ASSUME NEW d, NEW gu, IsGuest(gu), Ready(d, gu), d.open, Old(d, gu), NEW s, s.mss \in Nat
  PROVE  Stale(tcp_dooptions(d, s), gu)
<1>1. /\ IsConn(d) /\ d.open = TRUE /\ HostOK(d.h, gu) /\ Plain(d.out) /\ Sound(d) /\ d.t_state = TCPS_TIME_WAIT
      /\ Opened(d, gu)
  BY DEF Ready, Rx, Opened, Old
<1>2. Numbered(d, gu) /\ Ended(d, gu)
  <2>1. Synced(d) /\ Estab(d) BY <1>1, States DEF Synced, Estab
  <2> QED BY <1>1, <2>1 DEF Opened, Flowing
<1>3. CASE ~(s.mss # 0 /\ Has(s, "SYN"))
  <2>1. tcp_dooptions(d, s) = d BY <1>3 DEF tcp_dooptions
  <2> QED BY <1>1, <1>2, <2>1 DEF Stale
<1>4. CASE s.mss # 0 /\ Has(s, "SYN")
  <2> DEFINE e == tcp_mss(d, s.mss)
  <2>2. tcp_dooptions(d, s) = e BY <1>4 DEF tcp_dooptions
  <2>3. Same(d, e) /\ e.adv = d.adv /\ e.out = d.out /\ Ring(e.rcv) /\ e.rcv.cc = 0 BY <1>1, MssIs
  <2> HIDE DEF e
  <2>4. /\ IsConn(e) /\ e.open = d.open /\ e.t_state = d.t_state /\ e.rnxt = d.rnxt /\ e.irs = d.irs /\ e.h = d.h
    BY <2>3 DEF Same
  <2>5. Received(e) = Received(d) BY <2>4 DEF Received
  <2>6. Sound(e) BY <1>1, <2>3, <2>4 DEF Sound
  <2>7. Ended(e, gu) /\ Old(e, gu) BY <1>2, <2>4, <2>5 DEF Ended, Old
  <2>8. Numbered(e, gu)
    <3>2. PICK a \in 0 .. Received(d) + TCP_MAXWIN : d.adv = Plus(d.irs, a + 1) BY <1>2 DEF Numbered
    <3>3. a <= Received(e) + sbspace(e.rcv)
      <4>1. sbspace(e.rcv) \in 0 .. SPACE + MSS /\ sbspace(e.rcv) >= TCP_MAXWIN BY <2>3, BufferSpace
      <4>2. Received(d) \in 0 .. Length(gu) + 1 BY <1>2 DEF Numbered
      <4> DEFINE w == sbspace(e.rcv)
                 R == Received(d)
      <4>3. w \in Int /\ R \in Int /\ w >= TCP_MAXWIN /\ a \in 0 .. R + TCP_MAXWIN BY <4>1, <4>2, Spaces, Ample
      <4> HIDE DEF w, R
      <4>4. a <= R + w BY <4>3, Spaces
      <4> QED BY <2>5, <4>4 DEF w, R
    <3> QED BY <1>2, <2>3, <2>4, <2>5, <3>2, <3>3 DEF Numbered
  <2> QED BY <1>1, <2>2, <2>3, <2>4, <2>6, <2>7, <2>8 DEF Stale
<1> QED BY <1>3, <1>4

LEMMA InputDone ==
  ASSUME NEW d, NEW gu, IsGuest(gu), Ready(d, gu), NEW s, OfGuest(s, gu), s.mss \in Nat,
         NEW answer \in tcp_fconnect
  PROVE  Done(tcp_input(d, s, answer), gu)
<1> DEFINE a == [d EXCEPT !.idle = FALSE]
           b == Arm(a, "KEEP")
           e == tcp_dooptions(b, s)
<1>1. IsConn(d) /\ d.open \in BOOLEAN /\ HostOK(d.h, gu) /\ Plain(d.out) BY DEF Ready, Rx
<1>2. tcp_input(d, s, answer)
        = IF ~d.open
          THEN IF s.flags \cap {"SYN", "FIN", "RST", "ACK"} = {"SYN"} THEN Listen(NewSocket(d), s, answer)
               ELSE dropwithreset(d, s)
          ELSE IF "ISFCONNECTING" \in d.so_state THEN d
          ELSE IF PureAck(e, s) THEN Acked(e, s)
          ELSE IF PureData(e, s) THEN tcp_output(AckNow(TakesData(e, s)))
          ELSE IF e.t_state = TCPS_SYN_SENT THEN SYN_SENT(e, s)
          ELSE Synchronized(e, s, answer)
  BY DEF tcp_input, TakesData
<1>3. Done(d, gu) /\ Done(dropwithreset(d, s), gu) BY ResetReady, ReadyIsDone
<1>4. s.flags \cap {"SYN", "FIN", "RST", "ACK"} = {"SYN"} => Done(Listen(NewSocket(d), s, answer), gu)
  <2> SUFFICES ASSUME Has(s, "SYN") PROVE Done(Listen(NewSocket(d), s, answer), gu) BY DEF Has
  <2>1. IsSeg(s) /\ Quiet(s) /\ s.seq = First(gu) BY DEF OfGuest, Blank, Filled
  <2>2. d.h.room \in Nat BY <1>1 DEF HostOK
  <2> QED BY <1>1, <2>1, <2>2, ListenDone
<1>5. Aside(d, b)
  <2>1. Aside(d, a) BY <1>1 DEF Aside, Same, IsConn, Fields
  <2>2. Aside(a, b)
    <3>1. IsConn(a) BY <2>1 DEF Aside, Same
    <3> HIDE DEF a
    <3> QED BY <3>1, ArmAside
  <2> HIDE DEF a, b
  <2> QED BY <2>1, <2>2, AsideTwice
<1> HIDE DEF b
<1>6. CASE d.open /\ ~(Has(s, "SYN") /\ Old(b, gu))
  <2>1. Ready(b, gu) /\ b.open BY <1>5, <1>6, AsideReady DEF Aside, Same
  <2>2. Ready(e, gu) /\ e.open BY <1>6, <2>1, OptionsReady
  <2> HIDE DEF e
  <2>3. Done(Acked(e, s), gu) /\ (PureData(e, s) => Done(tcp_output(AckNow(TakesData(e, s))), gu))
    BY <2>2, AckedDone, PureDataDone
  <2>4. e.t_state = TCPS_SYN_SENT => Done(SYN_SENT(e, s), gu) BY <2>2, SynSentDone DEF SynSent
  <2>5. e.t_state # TCPS_SYN_SENT => Done(Synchronized(e, s, answer), gu)
    <3> SUFFICES ASSUME e.t_state # TCPS_SYN_SENT PROVE Done(Synchronized(e, s, answer), gu) OBVIOUS
    <3>1. e.t_state \in TCPS_SYN_SENT .. TCPS_TIME_WAIT BY <2>2 DEF Ready, Rx, Opened
    <3>2. Synced(e) BY <3>1, States DEF Synced
    <3> QED BY <2>2, <3>2, SynchronizedDone DEF Knows
  <2> QED BY <1>2, <1>3, <1>6, <2>3, <2>4, <2>5
<1>7. CASE d.open /\ Has(s, "SYN") /\ Old(b, gu)
  <2>1. Ready(b, gu) /\ b.open BY <1>5, <1>7, AsideReady DEF Aside, Same
  <2>2. Stale(e, gu) BY <1>7, <2>1, StaleOptions
  <2> HIDE DEF e
  <2>3. e.t_state = TCPS_TIME_WAIT BY <2>2 DEF Stale, Old
  <2>4. ~PureAck(e, s) /\ ~PureData(e, s) /\ e.t_state # TCPS_SYN_SENT
    BY <2>3, States DEF PureAck, PureData, Predicted
  <2>5. Done(Synchronized(e, s, answer), gu) BY <1>7, <2>2, StaleDone
  <2> QED BY <1>2, <1>3, <1>7, <2>4, <2>5
<1>8. CASE ~d.open BY <1>2, <1>3, <1>4, <1>8
<1> QED BY <1>1, <1>6, <1>7, <1>8

-----------------------------------------------------------------------------
(* The events of the host, and the timers.                                 *)

\* what the room in the host is does not matter
Tidied(d, out, room) == [d EXCEPT !.out = out, !.h.room = room, !.idle = FALSE]

LEMMA RoomRx ==
  ASSUME NEW d, NEW e, NEW gu, Rx(d, gu), IsConn(e), \A f \in Fields \ {"h", "out", "idle"} : e[f] = d[f],
         e.h = [f \in HostFields |-> e.h[f]], \A f \in HostFields \ {"room"} : e.h[f] = d.h[f], e.h.room \in Nat
  PROVE  Rx(e, gu)
<1>1. /\ e.open = d.open /\ e.t_state = d.t_state /\ e.rnxt = d.rnxt /\ e.irs = d.irs /\ e.seg = d.seg
      /\ e.so_state = d.so_state /\ e.so_m = d.so_m /\ e.rcv = d.rcv /\ e.adv = d.adv
  BY DEF Fields
<1>2. e.h.got = d.h.got /\ e.h.dead = d.h.dead /\ e.h.eof = d.h.eof /\ e.h.cut = d.h.cut BY DEF HostFields
<1>3. HostOK(d.h, gu) /\ d.open \in BOOLEAN /\ IsConn(d) BY DEF Rx
<1>4. HostOK(e.h, gu) BY <1>2, <1>3 DEF HostOK
<1>5. Received(e) = Received(d) BY <1>1 DEF Received
<1>6. \A q : PieceOK(q, e, gu) <=> PieceOK(q, d, gu) BY <1>1, <1>5 DEF PieceOK
<1>7. Numbered(d, gu) => Numbered(e, gu) BY <1>1, <1>5 DEF Numbered
<1>8. Beginning(d) => Beginning(e) BY <1>1, <1>2, <1>5 DEF Beginning
<1>9. Flowing(d, gu) => Flowing(e, gu) BY <1>1, <1>2, <1>5, <1>6 DEF Flowing, Ended
<1>10. Linked(d, gu) => Linked(e, gu) BY <1>1, <1>5 DEF Linked, Old, Synced, Estab
<1>11. Sound(d) => Sound(e) BY <1>1 DEF Sound
<1>12. (Synced(e) <=> Synced(d)) /\ (Estab(e) <=> Estab(d)) BY <1>1 DEF Synced, Estab
<1>13. Opened(d, gu) => Opened(e, gu) BY <1>1, <1>7, <1>8, <1>9, <1>10, <1>11, <1>12 DEF Opened
<1> QED BY <1>1, <1>3, <1>4, <1>13 DEF Rx

LEMMA TidiedRx ==
  ASSUME NEW d, NEW gu, Rx(d, gu), NEW out, NEW room \in Nat
  PROVE  LET e == Tidied(d, out, room)
         IN  Rx(e, gu) /\ e.out = out /\ e.h.room = room
<1> DEFINE h == [d.h EXCEPT !.room = room]
           e == [d EXCEPT !.out = out, !.h = h, !.idle = FALSE]
<1>1. IsConn(d) /\ HostOK(d.h, gu) BY DEF Rx
<1>2. h = [f \in HostFields |-> h[f]] /\ (\A f \in HostFields \ {"room"} : h[f] = d.h[f]) /\ h.room = room
  <2>1. d.h = [f \in HostFields |-> d.h[f]] BY <1>1 DEF HostOK
  <2> QED BY <2>1 DEF HostFields
<1> HIDE DEF h
<1>3. IsConn(e) /\ (\A f \in Fields \ {"h", "out", "idle"} : e[f] = d[f]) /\ e.h = h /\ e.out = out
  BY <1>1, ZenonT(30) DEF IsConn, Fields
<1>4. Tidied(d, out, room) = e BY DEF Tidied, h
<1> HIDE DEF e
<1>5. Rx(e, gu) BY <1>2, <1>3, RoomRx
<1> QED BY <1>2, <1>3, <1>4, <1>5

\* a connection that has passed from SYN_RECEIVED
LEMMA Connected1 ==
  ASSUME NEW d, NEW gu, Ready(d, gu), d.open, "ISFCONNECTED" \in d.so_state
  PROVE  Up(d, gu)
<1>1. Opened(d, gu) BY DEF Ready, Rx
<1>2. d.t_state \notin Early BY <1>1 DEF Opened, Beginning
<1>3. Estab(d) BY <1>1, <1>2, States DEF Opened, Estab
<1> QED BY <1>3 DEF Up

LEMMA IdledAside ==
  ASSUME IsConn(c), NEW d \in Idled
  PROVE  Aside(c, d)
<1> DEFINE e == [c EXCEPT !.idle = TRUE]
<1>1. d = c \/ d = e BY DEF Idled
<1>2. Aside(c, e) /\ Aside(c, c) BY DEF Aside, Same, IsConn, Fields
<1> HIDE DEF e
<1> QED BY <1>1, <1>2

LEMMA RexmtDone ==
  ASSUME NEW d, NEW gu, IsGuest(gu), Ready(d, gu), d.open
  PROVE  Done(Rexmt(d), gu)
<1> DEFINE shift == d.rxtshift + 1
           halved == shift > TCP_MAXRXTSHIFT
           new == IF halved THEN TCP_MAXRXTSHIFT \div 2 ELSE shift
           mss == IF halved THEN d.maxseg \div 2 ELSE d.maxseg
           e == [d EXCEPT !.rxtshift = new, !.maxseg = mss]
           win == Most(2, Least(e.wnd, e.cwnd) \div (2 * Most(1, e.maxseg)))
           x == Arm(e, "REXMT")
           ssthresh == win * e.maxseg
           una == e.una
           maxseg == e.maxseg
           y == [x EXCEPT !.nxt = una, !.rtseq = Untimed, !.cwnd = maxseg, !.ssthresh = ssthresh, !.dupacks = 0]
<1>1. IsConn(d) BY DEF Ready, Rx
<1>2. Rexmt(d) = IF e.maxseg < MINSEG THEN tcp_drop(e) ELSE tcp_output(y)
  <2>1. e = [d EXCEPT !.rxtshift = IF d.rxtshift + 1 > TCP_MAXRXTSHIFT THEN TCP_MAXRXTSHIFT \div 2 ELSE d.rxtshift + 1,
                      !.maxseg = IF d.rxtshift + 1 > TCP_MAXRXTSHIFT THEN @ \div 2 ELSE @]
    OBVIOUS
  <2> QED BY DEF Rexmt
<1> HIDE DEF shift, halved, new, mss
<1>3. Aside(d, e) BY <1>1, ZenonT(30) DEF Aside, Same, IsConn, Fields
<1> HIDE DEF e
<1>4. Aside(e, x)
  <2>1. IsConn(e) BY <1>3 DEF Aside, Same
  <2> QED BY <2>1, ArmAside
<1> HIDE DEF x, ssthresh, una, maxseg
<1>5. Aside(x, y)
  <2>1. IsConn(x) BY <1>4 DEF Aside, Same
  <2> QED BY <2>1, ZenonT(30) DEF Aside, Same, IsConn, Fields
<1> HIDE DEF y
<1>6. Ready(e, gu) /\ e.open BY <1>3, AsideReady DEF Aside, Same
<1>7. Aside(d, y) BY <1>3, <1>4, <1>5, AsideTwice
<1>8. Ready(y, gu) /\ y.open BY <1>7, AsideReady DEF Aside, Same
<1> QED BY <1>2, <1>6, <1>8, DropReady, ReadyIsDone, OutputsDone

LEMMA PersistDone ==
  ASSUME NEW d, NEW gu, IsGuest(gu), Ready(d, gu), d.open
  PROVE  Done([tcp_output([tcp_setpersist(d) EXCEPT !.force = TRUE]) EXCEPT !.force = FALSE], gu)
<1> DEFINE x == Arm(d, "PERSIST")
           shift == IF x.rxtshift < TCP_MAXRXTSHIFT THEN x.rxtshift + 1 ELSE x.rxtshift
           y == [x EXCEPT !.rxtshift = shift]
           z == [y EXCEPT !.force = TRUE]
           e == tcp_output(z)
           f == [e EXCEPT !.force = FALSE]
<1>1. IsConn(d) BY DEF Ready, Rx
<1>2. tcp_setpersist(d) = y BY DEF tcp_setpersist
<1>3. Aside(d, x) BY <1>1, ArmAside
<1> HIDE DEF x, shift
<1>4. Aside(x, y)
  <2>1. IsConn(x) BY <1>3 DEF Aside, Same
  <2> QED BY <2>1 DEF Aside, Same, IsConn, Fields
<1> HIDE DEF y
<1>5. Aside(y, z)
  <2>1. IsConn(y) BY <1>4 DEF Aside, Same
  <2> QED BY <2>1 DEF Aside, Same, IsConn, Fields
<1>6. [tcp_output([tcp_setpersist(d) EXCEPT !.force = TRUE]) EXCEPT !.force = FALSE] = f BY <1>2
<1> HIDE DEF z
<1>7. Aside(d, z) BY <1>3, <1>4, <1>5, AsideTwice
<1>8. Ready(z, gu) /\ z.open BY <1>7, AsideReady DEF Aside, Same
<1>9. Done(e, gu) /\ Same(z, e) BY <1>8, OutputsDone
<1> HIDE DEF e
<1>10. Aside(e, f)
  <2>1. IsConn(e) BY <1>9 DEF Same
  <2> QED BY <2>1 DEF Aside, Same, IsConn, Fields
<1> HIDE DEF f
<1>11. Done(f, gu) BY <1>9, <1>10, AsideDone
<1> QED BY <1>6, <1>11

LEMMA TimersDone ==
  ASSUME NEW d, NEW gu, IsGuest(gu), Ready(d, gu), d.open, NEW timer \in Timers
  PROVE  Done(tcp_timers(d, timer), gu)
<1>1. IsConn(d) /\ HostOK(d.h, gu) /\ Plain(d.out) BY DEF Ready, Rx
<1>2. ASSUME NEW t PROVE Done(Arm(d, t), gu)
  <2>1. Aside(d, Arm(d, t)) BY <1>1, ArmAside
  <2> QED BY <2>1, AsideReady, ReadyIsDone
<1>3. CASE timer = "2MSL"
  <2>1. tcp_timers(d, timer) = Arm(d, "2MSL") \/ tcp_timers(d, timer) = tcp_close(d) BY <1>3 DEF tcp_timers
  <2>2. Done(tcp_close(d), gu) BY <1>1, CloseReady, ReadyIsDone
  <2> QED BY <1>2, <2>1, <2>2
<1>4. CASE timer = "REXMT"
  <2>1. tcp_timers(d, timer) = Rexmt(d) BY <1>4 DEF tcp_timers
  <2> QED BY <2>1, RexmtDone
<1>5. CASE timer = "PERSIST"
  <2>1. tcp_timers(d, timer) = [tcp_output([tcp_setpersist(d) EXCEPT !.force = TRUE]) EXCEPT !.force = FALSE]
    BY <1>5 DEF tcp_timers
  <2> QED BY <2>1, PersistDone
<1>6. CASE timer = "KEEP"
  <2>1. tcp_timers(d, timer) = tcp_drop(d) \/ tcp_timers(d, timer) = Arm(d, "KEEP") BY <1>6 DEF tcp_timers
  <2>2. Done(tcp_drop(d), gu) BY DropReady, ReadyIsDone
  <2> QED BY <1>2, <2>1, <2>2
<1> QED BY <1>3, <1>4, <1>5, <1>6 DEF Timers

LEMMA FastDone ==
  ASSUME NEW d, NEW gu, IsGuest(gu), Ready(d, gu), d.open
  PROVE  Done(tcp_fasttimo(d), gu)
<1> DEFINE flags == (d.flags \ {"DELACK"}) \cup {"ACKNOW"}
           e == [d EXCEPT !.flags = flags]
<1>1. tcp_fasttimo(d) = tcp_output(e) BY DEF tcp_fasttimo
<1>2. IsConn(d) BY DEF Ready, Rx
<1> HIDE DEF flags
<1>3. Aside(d, e) BY <1>2, FlagsAside
<1> HIDE DEF e
<1>4. Ready(e, gu) /\ e.open BY <1>3, AsideReady DEF Aside, Same
<1> QED BY <1>1, <1>4, OutputsDone

\* The host connects to a forwarded port.
Calling ==
  tcp_sendseqinit([tcp_mss(tcp_attach, 0) EXCEPT !.so_state = @ \cup {"INCOMING"},
                     !.t_state = TCPS_SYN_SENT, !.armed = {"KEEP"}, !.iss = ISS])

LEMMA CallingReady ==
  ASSUME NEW gu, IsGuest(gu)
  PROVE  Ready(Calling, gu) /\ Calling.open
<1> DEFINE a == tcp_attach
           b == tcp_mss(a, 0)
           so == b.so_state \cup {"INCOMING"}
           x == [b EXCEPT !.so_state = so, !.t_state = TCPS_SYN_SENT, !.armed = {"KEEP"}, !.iss = ISS]
           e == tcp_sendseqinit(x)
<1>1. /\ IsConn(a) /\ a.seg = <<>> /\ a.h = NewHost /\ a.so_state = {"NOFDREF"} /\ a.open = TRUE /\ a.out = <<>>
      /\ a.rnxt = 0 /\ a.adv = 0
  BY AttachIs
<1> HIDE DEF a
<1>2. Same(a, b) /\ b.adv = a.adv /\ b.out = a.out /\ Ring(b.rcv) /\ b.rcv.cc = 0
  <2>1. 0 \in Nat OBVIOUS
  <2> QED BY <1>1, <2>1, MssIs
<1> HIDE DEF b
<1>3. /\ IsConn(b) /\ b.seg = <<>> /\ b.h = NewHost /\ b.so_state = {"NOFDREF"} /\ b.open = TRUE /\ b.out = <<>>
      /\ b.rnxt = 0 /\ b.adv = 0
  BY <1>1, <1>2 DEF Same
<1>4. /\ IsConn(x) /\ x.seg = <<>> /\ x.h = NewHost /\ x.so_state = so /\ x.open = TRUE /\ x.out = <<>>
      /\ x.rnxt = 0 /\ x.adv = 0 /\ x.t_state = TCPS_SYN_SENT /\ x.rcv = b.rcv
  BY <1>3, ZenonT(30) DEF IsConn, Fields
<1>5. so = {"NOFDREF", "INCOMING"} BY <1>3
<1>6. Calling = e BY DEF Calling, a, b
<1> HIDE DEF x, so
<1>7. /\ IsConn(e) /\ e.seg = <<>> /\ e.h = NewHost /\ e.so_state = so /\ e.open = TRUE /\ e.out = <<>>
      /\ e.rnxt = 0 /\ e.adv = 0 /\ e.t_state = TCPS_SYN_SENT /\ e.rcv = b.rcv
  BY <1>4, ZenonT(30) DEF tcp_sendseqinit, IsConn, Fields
<1> HIDE DEF e
<1>8. HostOK(e.h, gu) /\ e.h.got = <<>> /\ e.h.eof = FALSE /\ e.h.dead = FALSE
  <2>1. [NewHost EXCEPT !.room = 0] = NewHost BY DEF NewHost
  <2>2. LET h == [NewHost EXCEPT !.room = 0]
        IN  HostOK(h, gu) /\ h.got = <<>> /\ h.eof = FALSE /\ h.dead = FALSE
    BY NewHostOK
  <2> QED BY <1>7, <2>1, <2>2
<1>9. Sound(e)
  <2>1. 0 \in Numbers BY Spaces DEF Numbers
  <2>2. TCPS_SYN_SENT \in TCPS_CLOSED .. TCPS_TIME_WAIT BY States
  <2> QED BY <1>2, <1>7, <2>1, <2>2 DEF Sound
<1>10. Beginning(e)
  <2>1. TCPS_SYN_SENT # TCPS_SYN_RECEIVED BY States
  <2> QED BY <1>2, <1>5, <1>7, <1>8, <2>1 DEF Beginning
<1>11. ~Synced(e) /\ ~Estab(e) /\ e.t_state \in TCPS_SYN_SENT .. TCPS_TIME_WAIT BY <1>7, States DEF Synced, Estab
<1>12. Opened(e, gu) BY <1>9, <1>10, <1>11 DEF Opened, Linked
<1>13. Rx(e, gu) BY <1>7, <1>8, <1>12 DEF Rx
<1>14. Plain(e.out) BY <1>7, NothingOut
<1> QED BY <1>6, <1>7, <1>13, <1>14 DEF Ready

-----------------------------------------------------------------------------
(* The guest.                                                              *)

\* what a segment of slirp's, or one of its own, may make of it
GuestMoves(gu, gv) ==
  /\ gv = [f \in GuestFields |-> gv[f]] /\ gv.life = gu.life /\ gv.streams = gu.streams
  /\ \A b \in {gv.fin, gv.synced, gv.estab, gv.dead} : b \in BOOLEAN
  /\ gv.fin \/ gv.estab => gv.synced
  /\ (gu.fin => gv.fin) /\ (gu.dead => gv.dead) /\ (gu.synced => gv.synced)
  /\ gu.estab => gv.estab \/ gv.dead

LEMMA MovesTwice ==
  ASSUME NEW gu, NEW gv, NEW gw, GuestMoves(gu, gv), GuestMoves(gv, gw)
  PROVE  GuestMoves(gu, gw)
BY DEF GuestMoves

LEMMA MovesGuest ==
  ASSUME NEW gu, NEW gv, IsGuest(gu), GuestMoves(gu, gv)
  PROVE  IsGuest(gv) /\ Length(gv) = Length(gu) /\ First(gv) = First(gu)
<1>1. Length(gv) = Length(gu) /\ First(gv) = First(gu) BY DEF GuestMoves, Length, First
<1> QED BY <1>1 DEF IsGuest, GuestMoves

\* The guest's SYN is acknowledged only while the connection opens.
LEMMA MovesRx ==
  ASSUME NEW d, NEW gu, NEW gv, IsGuest(gu), GuestMoves(gu, gv), Rx(d, gu),
         gv.synced = gu.synced \/ (d.open /\ d.t_state \in Early)
  PROVE  Rx(d, gv)
<1>1. Length(gv) = Length(gu) /\ First(gv) = First(gu) /\ gv.life = gu.life BY MovesGuest DEF GuestMoves
<1>2. IsConn(d) /\ d.open \in BOOLEAN /\ HostOK(d.h, gu) /\ (d.open => Opened(d, gu)) BY DEF Rx
<1>3. CASE gv.synced = gu.synced
  <2>1. MayEnd(gu) => MayEnd(gv) BY <1>3 DEF MayEnd, GuestMoves
  <2>2. HostOK(d.h, gv) BY <1>1, <1>2, <2>1 DEF HostOK
  <2>3. Numbered(d, gu) => Numbered(d, gv) BY <1>1 DEF Numbered
  <2>4. \A q : PieceOK(q, d, gu) => PieceOK(q, d, gv) BY <1>1, <2>1 DEF PieceOK
  <2>5. Ended(d, gv) <=> Ended(d, gu) BY <1>1 DEF Ended
  <2>6. Flowing(d, gu) => Flowing(d, gv)
    <3> SUFFICES ASSUME Flowing(d, gu) PROVE Flowing(d, gv) OBVIOUS
    <3>1. d.seg \in Seq(Pieces) /\ \A i \in 1 .. Len(d.seg) : PieceOK(d.seg[i], d, gv) BY <2>4 DEF Flowing
    <3>2. Ended(d, gv) => MayEnd(gv) BY <2>1, <2>5 DEF Flowing
    <3> QED BY <1>1, <2>5, <3>1, <3>2 DEF Flowing
  <2>7. Old(d, gu) => Old(d, gv) BY <1>1, <1>3 DEF Old
  <2>8. Linked(d, gu) => Linked(d, gv) BY <1>1, <1>3, <2>7 DEF Linked, GuestMoves, IsGuest
  <2>9. Opened(d, gu) => Opened(d, gv) BY <2>3, <2>6, <2>8 DEF Opened
  <2> QED BY <1>2, <2>2, <2>9 DEF Rx
<1>4. CASE d.open /\ d.t_state \in Early
  <2>1. Opened(d, gu) /\ Beginning(d) /\ ~Estab(d) /\ d.t_state # TCPS_TIME_WAIT
    <3>1. Opened(d, gu) BY <1>2, <1>4
    <3> QED BY <1>4, <3>1, States DEF Opened, Estab
  <2>2. HostOK(d.h, gv) BY <1>1, <1>2, <2>1 DEF HostOK, Beginning
  <2>3. Numbered(d, gu) => Numbered(d, gv) BY <1>1 DEF Numbered
  <2>4. Linked(d, gv) BY <1>1, <2>1 DEF Opened, Linked, Old
  <2>5. Opened(d, gv) BY <2>1, <2>3, <2>4 DEF Opened
  <2> QED BY <1>2, <2>2, <2>5 DEF Rx
<1> QED BY <1>3, <1>4

LEMMA GuestStays ==
  ASSUME NEW gu, IsGuest(gu)
  PROVE  GuestMoves(gu, gu)
BY DEF IsGuest, GuestMoves

LEMMA GoneMoves ==
  ASSUME NEW gu, IsGuest(gu)
  PROVE  GuestMoves(gu, Gone(gu)) /\ Gone(gu).synced = gu.synced /\ Gone(gu).dead = TRUE /\ Gone(gu).estab = FALSE
<1> DEFINE e == Gone(gu)
<1>1. /\ e = [f \in GuestFields |-> e[f]] /\ e.life = gu.life /\ e.streams = gu.streams /\ e.fin = gu.fin
      /\ e.synced = gu.synced /\ e.dead = TRUE /\ e.estab = FALSE
  BY DEF Gone, IsGuest, GuestFields
<1> HIDE DEF e
<1>2. GuestMoves(gu, e) BY <1>1 DEF IsGuest, GuestMoves
<1> QED BY <1>1, <1>2 DEF e

LEMMA HearsMoves ==
  ASSUME NEW gu, IsGuest(gu), NEW s
  PROVE  GuestMoves(gu, Hears(gu, s)) /\ ("SYN" \notin s.flags => Hears(gu, s).synced = gu.synced)
<1> DEFINE estab == gu.mode = "opens"
           ack == Plus(s.seq, 1)
           edge == Plus(gu.edge, s.seq + 1)
           a == [gu EXCEPT !.synced = TRUE, !.estab = estab, !.ack = ack, !.edge = edge]
           last == Plus(s.seq, Len(s.data) + (IF Has(s, "FIN") THEN 1 ELSE 0))
           est == gu.estab \/ SEQ_GT(s.ack, iss)
           at == IF SEQ_LEQ(s.seq, gu.ack) /\ SEQ_GT(last, gu.ack) THEN last ELSE gu.ack
           b == [gu EXCEPT !.estab = est, !.ack = at]
           x == Hears(gu, s)
<1>1. \/ x = gu \/ x = Gone(gu)
      \/ Has(s, "SYN") /\ ~gu.synced /\ x = a
      \/ gu.synced /\ x = b
  BY DEF Hears
<1>2. estab \in BOOLEAN OBVIOUS
<1>3. est \in BOOLEAN /\ (gu.estab => est) BY DEF SEQ_GT, IsGuest
<1> HIDE DEF estab, ack, edge, est, at, x
<1>4. CASE x = gu BY <1>4, GuestStays DEF x
<1>5. CASE x = Gone(gu) BY <1>5, GoneMoves DEF x
<1>6. CASE Has(s, "SYN") /\ ~gu.synced /\ x = a
  <2>1. /\ a = [f \in GuestFields |-> a[f]] /\ a.life = gu.life /\ a.streams = gu.streams /\ a.fin = gu.fin
        /\ a.synced = TRUE /\ a.dead = gu.dead /\ a.estab = estab
    BY DEF IsGuest, GuestFields
  <2> HIDE DEF a
  <2>2. GuestMoves(gu, a) BY <1>2, <1>6, <2>1 DEF IsGuest, GuestMoves
  <2> QED BY <1>6, <2>2 DEF x, Has
<1>7. CASE gu.synced /\ x = b
  <2>1. /\ b = [f \in GuestFields |-> b[f]] /\ b.life = gu.life /\ b.streams = gu.streams /\ b.fin = gu.fin
        /\ b.synced = gu.synced /\ b.dead = gu.dead /\ b.estab = est
    BY DEF IsGuest, GuestFields
  <2> HIDE DEF b
  <2>2. GuestMoves(gu, b) BY <1>3, <1>7, <2>1 DEF IsGuest, GuestMoves
  <2> QED BY <1>7, <2>1, <2>2 DEF x
<1> QED BY <1>1, <1>4, <1>5, <1>6, <1>7

\* the recursion of HearsAll
Hear(gu, out, got, f, i) ==
  IF i = 0 THEN gu ELSE IF i \in got THEN Hears(f[i - 1], out[i]) ELSE f[i - 1]
Heard(gu, out, got, n, f) == f = [i \in 0 .. n |-> Hear(gu, out, got, f, i)]

LEMMA HeardExists ==
  ASSUME NEW n \in Nat, NEW gu, NEW out, NEW got
  PROVE  \E f : Heard(gu, out, got, n, f)
<1> DEFINE S == {k \in 0 .. n : \E f : Heard(gu, out, got, k, f)}
<1>1. 0 \in S
  <2> DEFINE h == [i \in 0 .. 0 |-> gu]
  <2>1. h = [i \in 0 .. 0 |-> Hear(gu, out, got, h, i)] BY DEF Hear
  <2> HIDE DEF h
  <2> QED BY <2>1 DEF Heard
<1>2. ASSUME NEW k \in 0 .. n - 1, k \in S PROVE k + 1 \in S
  <2>1. PICK f : Heard(gu, out, got, k, f) BY <1>2
  <2> DEFINE h == [i \in 0 .. k + 1 |-> Hear(gu, out, got, f, i)]
  <2>2. \A i \in 0 .. k : h[i] = f[i] BY <2>1 DEF Heard
  <2>3. \A i \in 0 .. k + 1 : i # 0 => h[i - 1] = f[i - 1]
    <3> HIDE DEF h
    <3> QED BY <2>2
  <2>4. h = [i \in 0 .. k + 1 |-> Hear(gu, out, got, h, i)] BY <2>3, Zenon DEF Hear
  <2>5. k + 1 \in 0 .. n OBVIOUS
  <2> QED BY <2>4, <2>5 DEF Heard
<1>3. n \in S
  <2> HIDE DEF S
  <2>1. 0 .. n \subseteq S BY <1>1, <1>2, UpTo
  <2> QED BY <2>1
<1> QED BY <1>3

\* What the guest makes of all it hears.
LEMMA HeardMoves ==
  ASSUME NEW gu, IsGuest(gu), NEW out, Listed(out), NEW got, NEW f, Heard(gu, out, got, Len(out), f)
  PROVE  LET gv == f[Len(out)]
         IN  GuestMoves(gu, gv) /\ (Plain(out) => gv.synced = gu.synced)
<1> DEFINE n == Len(out)
           Good(gv) == GuestMoves(gu, gv) /\ (Plain(out) => gv.synced = gu.synced)
           S == {k \in 0 .. n : Good(f[k])}
<1>1. n \in Nat /\ \A i \in 1 .. n : Plain(out) => "SYN" \notin out[i].flags
  <2>1. n \in Nat BY DEF Listed
  <2>2. ASSUME Plain(out), NEW i \in 1 .. n PROVE "SYN" \notin out[i].flags
    <3>1. PICK Y : out \in Seq(Y) /\ \A s \in Y : "SYN" \notin s.flags BY <2>2 DEF Plain
    <3>2. out[i] \in Y BY <2>2, <3>1
    <3> QED BY <3>1, <3>2
  <2> QED BY <2>1, <2>2
<1> HIDE DEF n
<1>2. \A i \in 0 .. n : f[i] = Hear(gu, out, got, f, i) BY DEF Heard, n
<1>3. 0 \in S
  <2>1. f[0] = gu BY <1>1, <1>2 DEF Hear
  <2>2. 0 \in 0 .. n BY <1>1
  <2> QED BY <2>1, <2>2, GuestStays
<1>4. ASSUME NEW k \in 0 .. n - 1, k \in S PROVE k + 1 \in S
  <2>1. Good(f[k]) BY <1>4
  <2>2. k + 1 \in 0 .. n /\ k + 1 \in 1 .. n /\ k + 1 # 0 /\ (k + 1) - 1 = k BY <1>1
  <2>3. f[k + 1] = IF k + 1 \in got THEN Hears(f[k], out[k + 1]) ELSE f[k] BY <1>2, <2>2 DEF Hear
  <2>4. IsGuest(f[k]) BY <2>1, MovesGuest
  <2>5. /\ GuestMoves(f[k], Hears(f[k], out[k + 1]))
        /\ "SYN" \notin out[k + 1].flags => Hears(f[k], out[k + 1]).synced = f[k].synced
    BY <2>4, HearsMoves
  <2>6. Good(Hears(f[k], out[k + 1])) BY <1>1, <2>1, <2>2, <2>5, MovesTwice
  <2>7. Good(f[k + 1]) BY <2>1, <2>3, <2>6
  <2> QED BY <2>2, <2>7
<1>5. n \in S
  <2> HIDE DEF S
  <2>1. 0 .. n \subseteq S BY <1>1, <1>3, <1>4, UpTo
  <2> QED BY <1>1, <2>1
<1> QED BY <1>5 DEF n

-----------------------------------------------------------------------------
(* The receiver's part, in every behaviour.                                *)

RxInv == IsGuest(g) /\ Rx(c, g) /\ c.out = <<>> /\ c.h.room = 0

LEMMA StepRx ==
  ASSUME NEW d, NEW gu, IsGuest(gu), Done(d, gu), Step(d, gu)
  PROVE  RxInv'
<1>1. PICK got : /\ g' = HearsAll(gu, d.out, got)
                 /\ c' = [d EXCEPT !.out = <<>>, !.h.room = 0, !.idle = FALSE]
  BY DEF Step
<1> DEFINE f == CHOOSE heard : Heard(gu, d.out, got, Len(d.out), heard)
<1>3. g' = f[Len(d.out)] BY <1>1 DEF Heard, Hear, HearsAll
<1> HIDE DEF f
<1>4. Listed(d.out) /\ Rx(d, gu) /\ (Plain(d.out) \/ (d.open /\ d.t_state \in Early)) BY DEF Done
<1>5. Heard(gu, d.out, got, Len(d.out), f)
  <2>1. Len(d.out) \in Nat BY <1>4 DEF Listed
  <2> QED BY <2>1, HeardExists DEF f
<1>6. GuestMoves(gu, g') /\ (Plain(d.out) => g'.synced = gu.synced) BY <1>3, <1>4, <1>5, HeardMoves
<1>7. Rx(d, g') /\ IsGuest(g') BY <1>4, <1>6, MovesRx, MovesGuest
<1>8. c' = Tidied(d, <<>>, 0) BY <1>1 DEF Tidied
<1>9. Rx(c', g') /\ c'.out = <<>> /\ c'.h.room = 0
  <2>1. 0 \in Nat OBVIOUS
  <2> QED BY <1>7, <1>8, <2>1, TidiedRx
<1> QED BY <1>7, <1>9 DEF RxInv

\* the same connection, for what the guest has become
LEMMA StartsReady ==
  ASSUME RxInv, NEW gu, GuestMoves(g, gu), gu.synced = g.synced
  PROVE  IsGuest(gu) /\ Ready(c, gu)
<1>1. IsGuest(gu) /\ Rx(c, gu) BY MovesGuest, MovesRx DEF RxInv
<1> QED BY <1>1, NothingOut DEF RxInv, Ready

\* Each kind of segment is one of the guest's.
Sent(p) ==
  GuestMoves(g, p[2]) /\ p[2].synced = g.synced /\ OfGuest(p[1], p[2]) /\ p[1].mss \in Nat

LEMMA TcpIs ==
  ASSUME NEW seq, NEW ack, NEW flags, NEW data, NEW win, NEW mss
  PROVE  LET s == GuestTcp(seq, ack, flags, data, win, mss)
         IN  IsSeg(s) /\ s.seq = seq /\ s.flags = flags /\ s.data = data /\ s.mss = mss
BY DEF GuestTcp, IsSeg, SegFields

Edged(gu, fin, edge) == [gu EXCEPT !.fin = fin, !.edge = edge]

LEMMA EdgeMoves ==
  ASSUME NEW gu, IsGuest(gu), NEW edge, NEW fin \in BOOLEAN, gu.fin => fin, fin => gu.synced
  PROVE  LET e == Edged(gu, fin, edge)
         IN  /\ GuestMoves(gu, e) /\ e.synced = gu.synced /\ e.dead = gu.dead /\ e.estab = gu.estab /\ e.fin = fin
<1> DEFINE e == Edged(gu, fin, edge)
<1>1. /\ e = [f \in GuestFields |-> e[f]] /\ e.life = gu.life /\ e.streams = gu.streams /\ e.fin = fin
      /\ e.synced = gu.synced /\ e.dead = gu.dead /\ e.estab = gu.estab
  BY DEF Edged, IsGuest, GuestFields
<1> HIDE DEF e
<1>2. GuestMoves(gu, e) BY <1>1 DEF IsGuest, GuestMoves
<1> QED BY <1>1, <1>2 DEF e

LEMMA EdgeOnly ==
  ASSUME NEW gu, IsGuest(gu), NEW edge
  PROVE  LET e == [gu EXCEPT !.edge = edge]
         IN  /\ GuestMoves(gu, e) /\ e.synced = gu.synced /\ e.dead = gu.dead /\ e.estab = gu.estab
<1> DEFINE e == [gu EXCEPT !.edge = edge]
<1>1. /\ e = [f \in GuestFields |-> e[f]] /\ e.life = gu.life /\ e.streams = gu.streams /\ e.fin = gu.fin
      /\ e.synced = gu.synced /\ e.dead = gu.dead /\ e.estab = gu.estab
  BY DEF IsGuest, GuestFields
<1> HIDE DEF e
<1>2. GuestMoves(gu, e) BY <1>1 DEF IsGuest, GuestMoves
<1> QED BY <1>1, <1>2 DEF e

LEMMA MssNat == OpenMss \in Nat /\ ListenMss \in Nat /\ 0 \in Nat
BY StreamAssumption

LEMMA SynSends ==
  ASSUME IsGuest(g), ~g.dead, NEW p \in GuestSyn
  PROVE  Sent(p)
<1>1. g.mode = "opens" /\ ~g.synced BY DEF GuestSyn
<1>2. PICK win : p = <<GuestTcp(iss, 0, {"SYN"}, <<>>, win, OpenMss), [g EXCEPT !.edge = Most(@, win)]>>
  BY DEF GuestSyn
<1> DEFINE s == GuestTcp(iss, 0, {"SYN"}, <<>>, win, OpenMss)
           edge == Most(g.edge, win)
           e == [g EXCEPT !.edge = edge]
<1>3. IsSeg(s) /\ s.seq = iss /\ s.flags = {"SYN"} /\ s.data = <<>> /\ s.mss = OpenMss BY TcpIs
<1>4. p = <<s, e>> BY <1>2
<1> HIDE DEF s, edge
<1>5. GuestMoves(g, e) /\ e.synced = g.synced /\ e.dead = g.dead /\ e.estab = g.estab BY EdgeOnly
<1> HIDE DEF e
<1>6. p[1] = s /\ p[2] = e BY <1>4
<1>7. First(e) = iss /\ iss \in Numbers
  <2>1. First(e) = First(g) BY <1>5, MovesGuest
  <2>2. First(g) = iss BY DEF First, iss
  <2> QED BY <2>1, <2>2 DEF IsGuest
<1>8. ~e.dead /\ ~e.estab BY <1>1, <1>5 DEF IsGuest
<1>9. Blank(s, e) BY <1>3, <1>7, <1>8 DEF Blank, Quiet, Has
<1> QED BY <1>3, <1>5, <1>6, <1>9, MssNat DEF Sent, OfGuest

LEMMA SynAckSends ==
  ASSUME IsGuest(g), ~g.dead, NEW p \in GuestSynAck
  PROVE  Sent(p)
<1>1. g.synced /\ ~g.estab BY DEF GuestSynAck
<1>2. PICK edge : p = <<GuestTcp(iss, g.ack, {"SYN", "ACK"}, <<>>, UDiff(edge, g.ack), ListenMss),
                        [g EXCEPT !.edge = edge]>>
  BY DEF GuestSynAck
<1> DEFINE s == GuestTcp(iss, g.ack, {"SYN", "ACK"}, <<>>, UDiff(edge, g.ack), ListenMss)
           e == [g EXCEPT !.edge = edge]
<1>3. IsSeg(s) /\ s.seq = iss /\ s.flags = {"SYN", "ACK"} /\ s.data = <<>> /\ s.mss = ListenMss BY TcpIs
<1>4. p = <<s, e>> BY <1>2
<1> HIDE DEF s
<1>5. GuestMoves(g, e) /\ e.synced = g.synced /\ e.dead = g.dead /\ e.estab = g.estab BY EdgeOnly
<1> HIDE DEF e
<1>6. p[1] = s /\ p[2] = e BY <1>4
<1>7. First(e) = iss /\ iss \in Numbers
  <2>1. First(e) = First(g) BY <1>5, MovesGuest
  <2>2. First(g) = iss BY DEF First, iss
  <2> QED BY <2>1, <2>2 DEF IsGuest
<1>8. ~e.dead /\ ~e.estab /\ e.synced BY <1>1, <1>5
<1>9. Blank(s, e) BY <1>3, <1>7, <1>8 DEF Blank, Quiet, Has
<1> QED BY <1>3, <1>5, <1>6, <1>9, MssNat DEF Sent, OfGuest

LEMMA SegmentSends ==
  ASSUME IsGuest(g), NEW p \in GuestSegment
  PROVE  Sent(p)
<1>1. g.estab /\ g.synced
  <2>1. g.estab BY DEF GuestSegment
  <2> QED BY <2>1 DEF IsGuest
<1>2. PICK q \in Spans, edge \in Edges :
        p = <<GuestTcp(Plus(iss, q[1] + 1), g.ack, IF q[3] THEN {"ACK", "FIN"} ELSE {"ACK"},
                       SubSeq(GuestBytes, q[1] + 1, q[2]), UDiff(edge, g.ack), 0),
              [g EXCEPT !.fin = @ \/ q[3], !.edge = edge]>>
  <2>1. PICK q \in Spans, edge \in Edges : p = GuestText(q, edge) BY <1>1 DEF GuestSegment
  <2> QED BY <2>1 DEF GuestText
<1>3. /\ q[1] \in 0 .. GuestLen /\ q[2] \in 0 .. GuestLen /\ q[3] \in BOOLEAN /\ q[1] <= q[2]
      /\ q[3] => q[2] = GuestLen
  BY DEF Spans
<1> DEFINE flags == IF q[3] THEN {"ACK", "FIN"} ELSE {"ACK"}
           data == SubSeq(GuestBytes, q[1] + 1, q[2])
           seq == Plus(iss, q[1] + 1)
           win == UDiff(edge, g.ack)
           s == GuestTcp(seq, g.ack, flags, data, win, 0)
           fin == g.fin \/ q[3]
           e == Edged(g, fin, edge)
<1>5. p = <<s, e>> BY <1>2 DEF Edged
<1>4. /\ IsSeg(s) /\ s.seq = Plus(iss, q[1] + 1) /\ s.flags = flags /\ s.data = data /\ s.mss = 0
  <2>1. seq = Plus(iss, q[1] + 1) OBVIOUS
  <2> HIDE DEF flags, data, seq, win
  <2> QED BY <2>1, TcpIs
<1>6. fin \in BOOLEAN /\ (g.fin => fin) /\ (fin => g.synced) /\ (q[3] => fin) BY <1>1, <1>3 DEF IsGuest
<1>7. (q[3] <=> "FIN" \in flags) /\ "SYN" \notin flags BY <1>3
<1>8. data \in Seq(Int) /\ Len(data) = q[2] - q[1] /\ \A i \in 1 .. Len(data) : data[i] = q[1] + i
  <2>1. GuestLen \in Nat BY DEF GuestLen, IsGuest, Length
  <2>2. GuestBytes \in Seq(Int) /\ Len(GuestBytes) = GuestLen /\ \A i \in 1 .. GuestLen : GuestBytes[i] = i
    BY <2>1 DEF GuestBytes
  <2> DEFINE a == q[1]
             b == q[2]
             t == GuestBytes
  <2>3. a \in 0 .. GuestLen /\ b \in 0 .. GuestLen /\ a <= b BY <1>3
  <2> HIDE DEF a, b, t
  <2>4. /\ SubSeq(t, a + 1, b) \in Seq(Int) /\ Len(SubSeq(t, a + 1, b)) = b - a
        /\ \A i \in 1 .. b - a : SubSeq(t, a + 1, b)[i] = t[a + i]
    BY <2>1, <2>2, <2>3 DEF t
  <2>5. \A i \in 1 .. b - a : a + i \in 1 .. GuestLen BY <2>1, <2>3
  <2>6. \A i \in 1 .. b - a : t[a + i] = a + i BY <2>2, <2>5 DEF t
  <2> QED BY <2>4, <2>6 DEF a, b, t
<1> HIDE DEF s, fin, flags, data
<1>9. GuestMoves(g, e) /\ e.synced = g.synced /\ e.estab = g.estab /\ e.fin = fin BY <1>6, EdgeMoves
<1> HIDE DEF e
<1>10. p[1] = s /\ p[2] = e BY <1>5
<1>11. First(e) = iss /\ Length(e) = GuestLen /\ GuestLen \in Nat
  <2>1. First(e) = First(g) /\ Length(e) = Length(g) BY <1>9, MovesGuest
  <2> QED BY <2>1 DEF First, iss, Length, GuestLen, IsGuest
<1>12. Placed(s.seq, s.data, First(e), q[1], Length(e))
  <2> DEFINE a == q[1]
             b == q[2]
  <2>1. a \in 0 .. GuestLen /\ b \in 0 .. GuestLen /\ a <= b /\ Len(data) = b - a BY <1>3, <1>8
  <2> HIDE DEF a, b
  <2>2. a + Len(data) <= GuestLen BY <1>11, <2>1
  <2> QED BY <1>3, <1>4, <1>8, <1>11, <2>2 DEF Placed, a
<1>13. Has(s, "FIN") => q[1] + Len(s.data) = Length(e) /\ e.fin
  <2> SUFFICES ASSUME Has(s, "FIN") PROVE q[1] + Len(s.data) = Length(e) /\ e.fin OBVIOUS
  <2>1. q[3] BY <1>4, <1>7 DEF Has
  <2> DEFINE a == q[1]
             b == q[2]
  <2>2. a \in 0 .. GuestLen /\ b = GuestLen /\ Len(data) = b - a BY <1>3, <1>8, <2>1
  <2> HIDE DEF a, b
  <2>3. a + Len(data) = GuestLen BY <1>11, <2>2
  <2> QED BY <1>4, <1>6, <1>9, <1>11, <2>1, <2>3 DEF a
<1>14. Filled(s, e) BY <1>1, <1>3, <1>4, <1>7, <1>9, <1>11, <1>12, <1>13 DEF Filled, Has
<1> QED BY <1>4, <1>9, <1>10, <1>14, MssNat DEF Sent, OfGuest

LEMMA ResetSends ==
  ASSUME IsGuest(g), NEW p \in GuestReset
  PROVE  Sent(p)
<1>1. g.estab BY DEF GuestReset
<1>2. PICK at \in 0 .. GuestLen : p = <<GuestTcp(Plus(iss, at + 1), 0, {"RST"}, <<>>, 0, 0), Gone(g)>>
  BY <1>1 DEF GuestReset
<1> DEFINE s == GuestTcp(Plus(iss, at + 1), 0, {"RST"}, <<>>, 0, 0)
           e == Gone(g)
<1>3. IsSeg(s) /\ s.seq = Plus(iss, at + 1) /\ s.flags = {"RST"} /\ s.data = <<>> /\ s.mss = 0 BY TcpIs
<1>4. p = <<s, e>> BY <1>2
<1> HIDE DEF s
<1>5. GuestMoves(g, e) /\ e.synced = g.synced BY GoneMoves
<1> HIDE DEF e
<1>6. p[1] = s /\ p[2] = e BY <1>4
<1>7. s.seq \in Numbers
  <2>1. First(g) \in Int /\ First(g) = iss BY Number DEF IsGuest, First, iss
  <2>2. at + 1 \in Int BY DEF IsGuest, GuestLen, Length
  <2> QED BY <1>3, <2>1, <2>2, PlusIn
<1>8. Blank(s, e) BY <1>3, <1>7 DEF Blank, Quiet, Has
<1> QED BY <1>3, <1>5, <1>6, <1>8, MssNat DEF Sent, OfGuest

\* What the guest sends is taken in.
LEMMA SendsDone ==
  ASSUME RxInv, NEW p, Sent(p), GuestSends(p[1], p[2])
  PROVE  RxInv'
<1> DEFINE s == p[1]
           gu == p[2]
<1>1. GuestMoves(g, gu) /\ gu.synced = g.synced /\ OfGuest(s, gu) /\ s.mss \in Nat BY DEF Sent
<1> HIDE DEF s, gu
<1>2. GuestSends(s, gu) BY DEF s, gu
<1>3. PICK room \in 0 .. GuestLen, answer \in tcp_fconnect :
        Step(tcp_input([c EXCEPT !.h.room = room], s, answer), gu)
  BY <1>2 DEF GuestSends
<1>4. IsGuest(gu) /\ Ready(c, gu) BY <1>1, StartsReady
<1> DEFINE h == [c.h EXCEPT !.room = room]
           d == [c EXCEPT !.h = h]
<1>5. [c EXCEPT !.h.room = room] = d OBVIOUS
<1>6. Rx(c, gu) /\ IsConn(c) /\ HostOK(c.h, gu) /\ Plain(c.out) BY <1>4 DEF Ready, Rx
<1>7. room \in Nat BY DEF IsGuest, RxInv, GuestLen, Length
<1>8. h = [f \in HostFields |-> h[f]] /\ (\A f \in HostFields \ {"room"} : h[f] = c.h[f]) /\ h.room = room
  <2>1. c.h = [f \in HostFields |-> c.h[f]] BY <1>6 DEF HostOK
  <2> QED BY <2>1 DEF HostFields
<1> HIDE DEF h
<1>9. IsConn(d) /\ (\A f \in Fields \ {"h", "out", "idle"} : d[f] = c[f]) /\ d.h = h /\ d.out = c.out
  BY <1>6 DEF IsConn, Fields
<1>10. Step(tcp_input(d, s, answer), gu) BY <1>3, <1>5
<1> HIDE DEF d
<1>11. Rx(d, gu) BY <1>6, <1>7, <1>8, <1>9, RoomRx
<1>12. Ready(d, gu) BY <1>6, <1>9, <1>11 DEF Ready
<1>13. Done(tcp_input(d, s, answer), gu) BY <1>1, <1>4, <1>12, InputDone
<1> DEFINE e == tcp_input(d, s, answer)
<1> HIDE DEF e
<1>14. Done(e, gu) /\ Step(e, gu) BY <1>10, <1>13 DEF e
<1> QED BY <1>4, <1>14, StepRx

LEMMA IssIn ==
  ASSUME NEW i \in 1 .. Len(GuestIss)
  PROVE  GuestIss[i] \in Numbers
<1> DEFINE N == 0 .. SeqSpace - 1
           q == GuestIss
<1>1. q \in Seq(N) BY StreamAssumption
<1>2. i \in 1 .. Len(q) OBVIOUS
<1> HIDE DEF N, q
<1>3. q[i] \in N BY <1>1, <1>2
<1> QED BY <1>3 DEF N, q, Numbers

\* The guest's next connection finds the last one at its end.
LEMMA ReopensRx ==
  ASSUME RxInv, GuestReopens
  PROVE  RxInv'
<1> DEFINE gu == NewGuest(g.life + 1, g.streams)
<1>1. IsGuest(g) /\ Rx(c, g) BY DEF RxInv
<1>2. g.life < Len(GuestIss) /\ g.fin /\ ~g.dead /\ (~c.open \/ c.t_state = TCPS_TIME_WAIT) /\ g' = gu /\ c' = c
  BY DEF GuestReopens
<1>3. /\ gu = [f \in GuestFields |-> gu[f]] /\ gu.life = g.life + 1 /\ gu.streams = g.streams
      /\ gu.synced = FALSE /\ gu.estab = FALSE /\ gu.fin = FALSE /\ gu.dead = FALSE
  BY DEF NewGuest, GuestFields
<1> HIDE DEF gu
<1>4. Length(gu) = Length(g) BY <1>3 DEF Length
<1>5. g.life \in 1 .. Len(GuestIss) /\ g.life + 1 \in 1 .. Len(GuestIss) /\ (g.life + 1) - 1 = g.life
  <2>1. Len(GuestIss) \in Nat BY StreamAssumption
  <2> QED BY <1>1, <1>2, <2>1 DEF IsGuest
<1>6. First(gu) \in Numbers BY <1>3, <1>5, IssIn DEF First
<1>7. IsGuest(gu) BY <1>1, <1>3, <1>4, <1>5, <1>6 DEF IsGuest
<1>8. MayEnd(gu) BY <1>3 DEF MayEnd
<1>9. HostOK(c.h, gu)
  <2>1. HostOK(c.h, g) BY <1>1 DEF Rx
  <2> QED BY <1>4, <1>8, <2>1 DEF HostOK
<1>10. ASSUME c.open PROVE Opened(c, gu)
  <2>1. Opened(c, g) /\ c.t_state = TCPS_TIME_WAIT BY <1>1, <1>2, <1>10 DEF Rx
  <2>2. c.t_state \notin Early /\ Synced(c) /\ Estab(c) BY <2>1, States DEF Synced, Estab
  <2>3. Numbered(c, g) /\ Flowing(c, g) /\ Linked(c, g) BY <2>1, <2>2 DEF Opened
  <2>4. Numbered(c, gu) BY <1>4, <2>3 DEF Numbered
  <2>5. \A q : PieceOK(q, c, g) => PieceOK(q, c, gu) BY <1>4, <1>8 DEF PieceOK
  <2>6. Ended(c, gu) <=> Ended(c, g) BY <1>4 DEF Ended
  <2>7. Flowing(c, gu)
    <3>1. c.seg \in Seq(Pieces) /\ \A i \in 1 .. Len(c.seg) : PieceOK(c.seg[i], c, gu) BY <2>3, <2>5 DEF Flowing
    <3> QED BY <1>4, <1>8, <2>3, <2>6, <3>1 DEF Flowing
  <2>8. c.irs = GuestIss[g.life] BY <1>1, <1>2, <2>2, <2>3 DEF Linked, Old, IsGuest, First
  <2>9. Old(c, gu) BY <1>3, <1>5, <2>1, <2>8 DEF Old
  <2>10. Linked(c, gu) BY <1>3, <2>9 DEF Linked
  <2> QED BY <2>1, <2>2, <2>4, <2>7, <2>10 DEF Opened
<1>11. Rx(c, gu) BY <1>1, <1>9, <1>10 DEF Rx
<1> QED BY <1>2, <1>7, <1>11 DEF RxInv

LEMMA GuestActsRx ==
  ASSUME RxInv, GuestActs
  PROVE  RxInv'
<1>1. ASSUME ~g.dead, NEW p \in GuestSyn \cup GuestSynAck \cup GuestSegment \cup GuestReset,
             GuestSends(p[1], p[2])
      PROVE  RxInv'
  <2>1. IsGuest(g) BY DEF RxInv
  <2>2. Sent(p) BY <1>1, <2>1, SynSends, SynAckSends, SegmentSends, ResetSends
  <2> QED BY <1>1, <2>2, SendsDone
<1>2. ASSUME GuestVanishes PROVE RxInv'
  <2>1. IsGuest(g) /\ Rx(c, g) BY DEF RxInv
  <2>2. g' = Gone(g) /\ c' = c BY <1>2 DEF GuestVanishes
  <2>3. GuestMoves(g, Gone(g)) /\ Gone(g).synced = g.synced BY <2>1, GoneMoves
  <2>4. IsGuest(Gone(g)) /\ Rx(c, Gone(g)) BY <2>1, <2>3, MovesGuest, MovesRx
  <2> QED BY <2>2, <2>4 DEF RxInv
<1> QED BY <1>1, <1>2, ReopensRx DEF GuestActs

LEMMA Starts ==
  ASSUME RxInv
  PROVE  IsGuest(g) /\ Ready(c, g) /\ IsConn(c)
<1>1. IsGuest(g) /\ Rx(c, g) /\ c.out = <<>> BY DEF RxInv
<1> QED BY <1>1, NothingOut DEF Ready, Rx

LEMMA Polls ==
  /\ "IN" \in slirp_pollfds_fill(c) => c.open /\ "ISFCONNECTED" \in c.so_state
  /\ "OUT" \in slirp_pollfds_fill(c) =>
       c.open /\ ("ISFCONNECTING" \in c.so_state \/ "ISFCONNECTED" \in c.so_state)
BY DEF slirp_pollfds_fill, CONN_CANFRCV, CONN_CANFSEND

LEMMA IdledReady ==
  ASSUME RxInv, NEW d \in Idled
  PROVE  /\ Ready(d, g) /\ d.open = c.open /\ d.rcv = c.rcv /\ d.h = c.h
         /\ c.open /\ "ISFCONNECTED" \in c.so_state => Up(d, g)
<1>1. Ready(c, g) /\ IsConn(c) BY Starts
<1>2. Aside(c, d) BY <1>1, IdledAside
<1>3. Ready(d, g) BY <1>1, <1>2, AsideReady
<1>4. d.open = c.open /\ d.rcv = c.rcv /\ d.h = c.h /\ d.so_state = c.so_state BY <1>2 DEF Aside, Same
<1> QED BY <1>3, <1>4, Connected1

LEMMA ReadableRx ==
  ASSUME RxInv, Readable
  PROVE  RxInv'
<1>1. IsGuest(g) BY Starts
<1>2. PICK d \in Idled :
        \/ \E n : Step(tcp_output(soread(d, n)), g)
        \/ Step(soread_End(d), g)
        \/ Step(soread_Reset(d), g)
  BY DEF Readable
<1>3. Up(d, g) BY Polls, IdledReady DEF Readable
<1>4. ASSUME NEW n, Step(tcp_output(soread(d, n)), g) PROVE RxInv'
  <2> DEFINE e == tcp_output(soread(d, n))
  <2>1. Done(e, g) BY <1>1, <1>3, ReadDone
  <2>2. Step(e, g) BY <1>4
  <2> HIDE DEF e
  <2> QED BY <1>1, <2>1, <2>2, StepRx
<1>5. ASSUME Step(soread_End(d), g) PROVE RxInv'
  <2>1. Done(soread_End(d), g) BY <1>1, <1>3, ReadEndDone
  <2> QED BY <1>1, <1>5, <2>1, StepRx
<1>6. ASSUME Step(soread_Reset(d), g) PROVE RxInv'
  <2>1. Done(soread_Reset(d), g) BY <1>1, <1>3, ReadResetDone
  <2> QED BY <1>1, <1>6, <2>1, StepRx
<1> QED BY <1>2, <1>4, <1>5, <1>6

LEMMA WritableRx ==
  ASSUME RxInv, Writable
  PROVE  RxInv'
<1>1. IsGuest(g) BY Starts
<1>2. PICK d \in Idled :
        \/ \E n \in 1 .. c.rcv.cc : ~c.h.dead /\ Step(sowrite(d, n), g)
        \/ Step(sowrite_Lost(d), g)
  BY DEF Writable
<1>3. Up(d, g) /\ d.rcv = c.rcv /\ d.h = c.h BY Polls, IdledReady DEF Writable
<1>4. ASSUME NEW n \in 1 .. c.rcv.cc, ~c.h.dead, Step(sowrite(d, n), g) PROVE RxInv'
  <2>1. Done(sowrite(d, n), g) BY <1>1, <1>3, <1>4, WriteDone
  <2> QED BY <1>1, <1>4, <2>1, StepRx
<1>5. ASSUME Step(sowrite_Lost(d), g) PROVE RxInv'
  <2>1. Done(sowrite_Lost(d), g) BY <1>1, <1>3, WriteLostDone
  <2> QED BY <1>1, <1>5, <2>1, StepRx
<1> QED BY <1>2, <1>4, <1>5

LEMMA ConnectedRx ==
  ASSUME RxInv, Connected
  PROVE  RxInv'
<1> DEFINE so == c.so_state \ {"ISFCONNECTING"}
           d == Polled(c, so)
           r == [c EXCEPT !.so_state = {"NOFDREF"}, !.h.dead = TRUE]
<1>1. IsGuest(g) /\ Ready(c, g) /\ IsConn(c) BY Starts
<1>2. c.open /\ "ISFCONNECTING" \in c.so_state BY Polls DEF Connected
<1>3. /\ [c EXCEPT !.so_state = @ \ {"ISFCONNECTING"}] = d
      /\ [d EXCEPT !.so_state = {"NOFDREF"}, !.h.dead = TRUE] = r
  BY <1>1 DEF Polled, IsConn, Fields
<1>4. Step(cont_conn(d), g) \/ Step(cont_conn(r), g) \/ Step(d, g)
  BY <1>3 DEF Connected
<1>5. Done(cont_conn(d), g) BY <1>1, <1>2, <1>3, ContConnDone
<1>6. Done(cont_conn(r), g) BY <1>1, <1>2, RefusedDone
<1> HIDE DEF r
<1>7. Done(d, g) BY <1>1, <1>2, PolledReady, ReadyIsDone
<1> HIDE DEF d
<1> QED BY <1>1, <1>4, <1>5, <1>6, <1>7, StepRx

LEMMA CallsRx ==
  ASSUME RxInv, tcp_connect
  PROVE  RxInv'
<1>1. IsGuest(g) BY Starts
<1>2. Step(tcp_output(Calling), g) BY DEF tcp_connect, Calling
<1>3. Done(tcp_output(Calling), g) BY <1>1, CallingReady, OutputsDone
<1> QED BY <1>1, <1>2, <1>3, StepRx

LEMMA TimeoutRx ==
  ASSUME RxInv, NEW timer \in Timers, Timeout(timer)
  PROVE  RxInv'
<1>1. IsGuest(g) BY Starts
<1>2. PICK d \in Idled : Step(tcp_timers(Disarm(d, timer), timer), g) BY DEF Timeout
<1>3. Ready(d, g) /\ d.open BY IdledReady DEF Timeout
<1> DEFINE e == Disarm(d, timer)
<1>4. Aside(d, e)
  <2>1. IsConn(d) BY <1>3 DEF Ready, Rx
  <2> QED BY <2>1, ArmAside
<1> HIDE DEF e
<1>5. Ready(e, g) /\ e.open BY <1>3, <1>4, AsideReady DEF Aside, Same
<1>6. Done(tcp_timers(e, timer), g) BY <1>1, <1>5, TimersDone
<1> QED BY <1>1, <1>2, <1>6, StepRx DEF e

LEMMA FastTimeoutRx ==
  ASSUME RxInv, FastTimeout
  PROVE  RxInv'
<1>1. IsGuest(g) BY Starts
<1>2. PICK d \in Idled : Step(tcp_fasttimo(d), g) BY DEF FastTimeout
<1>3. Ready(d, g) /\ d.open BY IdledReady DEF FastTimeout
<1>4. Done(tcp_fasttimo(d), g) BY <1>1, <1>3, FastDone
<1> QED BY <1>1, <1>2, <1>4, StepRx

LEMMA InitRx == Init => RxInv
<1> SUFFICES ASSUME Init PROVE RxInv OBVIOUS
<1>1. PICK mode \in {"opens", "listens"}, streams \in Streams :
        g = [NewGuest(1, streams) EXCEPT !.mode = mode]
  BY DEF Init
<1>2. /\ g = [f \in GuestFields |-> g[f]] /\ g.life = 1 /\ g.streams = streams
      /\ g.synced = FALSE /\ g.estab = FALSE /\ g.fin = FALSE /\ g.dead = FALSE
  BY <1>1 DEF NewGuest, GuestFields
<1>3. IsGuest(g)
  <2>1. streams \in Nat \X Nat /\ streams[1] + streams[2] + SPACE + MSS + 2 < SeqSpace \div 2 BY StreamAssumption
  <2> DEFINE n == streams[1]
             m == streams[2]
  <2>2. n \in Nat /\ m \in Nat /\ n + m + SPACE + MSS + 2 < Half BY <2>1 DEF Half
  <2>3. Length(g) = n BY <1>2 DEF Length
  <2> HIDE DEF n, m
  <2>4. Length(g) \in Nat /\ Length(g) + (SPACE + MSS + 2) < Half BY <2>2, <2>3, Spaces
  <2>5. 1 \in 1 .. Len(GuestIss)
    <3>1. GuestIss \in Seq(0 .. SeqSpace - 1) /\ GuestIss # <<>> BY StreamAssumption
    <3> DEFINE q == GuestIss
               N == 0 .. SeqSpace - 1
    <3>2. q \in Seq(N) /\ q # <<>> BY <3>1
    <3> HIDE DEF q, N
    <3>3. Len(q) \in Nat /\ Len(q) # 0 BY <3>2
    <3> QED BY <3>3 DEF q
  <2>6. First(g) \in Numbers BY <1>2, <2>5, IssIn DEF First
  <2> QED BY <1>2, <2>4, <2>5, <2>6 DEF IsGuest
<1> DEFINE a == tcp_attach
<1>4. IsConn(a) /\ a.h = NewHost /\ a.out = <<>> BY AttachIs
<1>5. c = [a EXCEPT !.open = FALSE] BY DEF Init
<1> HIDE DEF a
<1>6. IsConn(c) /\ c.open = FALSE /\ c.h = NewHost /\ c.out = <<>> BY <1>4, <1>5 DEF IsConn, Fields
<1>7. HostOK(NewHost, g)
  <2>1. [NewHost EXCEPT !.room = 0] = NewHost BY DEF NewHost
  <2> QED BY <1>3, <2>1, NewHostOK
<1>8. Rx(c, g) BY <1>6, <1>7 DEF Rx
<1>9. c.h.room = 0 BY <1>6 DEF NewHost
<1> QED BY <1>3, <1>6, <1>8, <1>9 DEF RxInv

LEMMA RxStays == RxInv /\ [Next]_vars => RxInv'
<1> SUFFICES ASSUME RxInv, [Next]_vars PROVE RxInv' OBVIOUS
<1>1. CASE GuestActs BY <1>1, GuestActsRx
<1>2. CASE Readable BY <1>2, ReadableRx
<1>3. CASE Writable BY <1>3, WritableRx
<1>4. CASE Connected BY <1>4, ConnectedRx
<1>5. CASE tcp_connect BY <1>5, CallsRx
<1>6. ASSUME NEW timer \in Timers, Timeout(timer) PROVE RxInv' BY <1>6, TimeoutRx
<1>7. CASE FastTimeout BY <1>7, FastTimeoutRx
<1>8. CASE UNCHANGED vars
  <2>1. c' = c /\ g' = g BY <1>8 DEF vars
  <2> QED BY <2>1 DEF RxInv
<1> QED BY <1>1, <1>2, <1>3, <1>4, <1>5, <1>6, <1>7, <1>8 DEF Next

-----------------------------------------------------------------------------
(* What the host gets.                                                     *)

LEMMA GuestBytesAre ==
  ASSUME IsGuest(g)
  PROVE  /\ GuestLen \in Nat /\ GuestLen = Length(g)
         /\ GuestBytes \in Seq(Int) /\ Len(GuestBytes) = GuestLen /\ \A i \in 1 .. GuestLen : GuestBytes[i] = i
<1>1. GuestLen \in Nat /\ GuestLen = Length(g) BY DEF GuestLen, IsGuest, Length
<1> QED BY <1>1 DEF GuestBytes

\* A sequence of the first n numbers is the first part of the guest's stream.
LEMMA Numbering ==
  ASSUME NEW n \in Nat, NEW t \in Seq(Int), n <= Len(t), \A i \in 1 .. Len(t) : t[i] = i,
         NEW s \in Seq(Int), Len(s) = n, \A i \in 1 .. n : s[i] = i
  PROVE  s = SubSeq(t, 1, n)
<1>1. SubSeq(t, 1, n) \in Seq(Int) /\ Len(SubSeq(t, 1, n)) = n OBVIOUS
<1>2. \A i \in 1 .. n : SubSeq(t, 1, n)[i] = i OBVIOUS
<1> DEFINE x == SubSeq(t, 1, n)
<1> HIDE DEF x
<1>3. x \in Seq(Int) /\ Len(x) = n /\ \A i \in 1 .. n : x[i] = i BY <1>1, <1>2 DEF x
<1>4. \A i \in 1 .. n : s[i] = x[i] BY <1>3
<1>5. s = x BY <1>3, <1>4, SeqEqual
<1> QED BY <1>5 DEF x

LEMMA ContentIs ==
  ASSUME NEW b, Ring(b), NEW k \in Int, Holds(b, k)
  PROVE  /\ Content(b) \in Seq(Int) /\ Len(Content(b)) = b.cc
         /\ \A i \in 1 .. b.cc : Content(b)[i] = k + i
<1>1. b.cc \in Nat BY Spaces DEF Ring
<1>2. CASE b.cc = 0
  <2> DEFINE q == Content(b)
  <2>1. q = <<>> BY <1>2 DEF Content
  <2> HIDE DEF q
  <2>2. q \in Seq(Int) /\ Len(q) = 0 BY <2>1
  <2> QED BY <1>2, <2>2 DEF q
<1>3. CASE b.cc # 0
  <2>1. b.cc \in 0 .. b.cc BY <1>1
  <2> DEFINE q == sbcopy(b, 0, b.cc)
  <2>2. q \in Seq(Int) /\ Len(q) = b.cc /\ \A i \in 1 .. b.cc : q[i] = k + i BY <2>1, CopyIs
  <2>3. Content(b) = q BY <1>3 DEF Content
  <2> HIDE DEF q
  <2> QED BY <2>2, <2>3
<1> QED BY <1>2, <1>3

LEMMA RxStream == RxInv => HostGetsStream
<1> SUFFICES ASSUME RxInv PROVE HostGetsStream OBVIOUS
<1>1. IsGuest(g) /\ Rx(c, g) /\ HostOK(c.h, g) BY DEF RxInv, Rx
<1> DEFINE got == c.h.got
           t == GuestBytes
           L == GuestLen
<1>2. L \in Nat /\ L = Length(g) /\ t \in Seq(Int) /\ Len(t) = L /\ \A i \in 1 .. L : t[i] = i
  BY <1>1, GuestBytesAre
<1>3. got \in Seq(Int) /\ Len(got) <= L /\ \A i \in 1 .. Len(got) : got[i] = i BY <1>1, <1>2 DEF HostOK
<1>4. c.h.eof /\ ~c.h.cut => Len(got) = L /\ (g.fin \/ ~g.synced) BY <1>1, <1>2 DEF HostOK, MayEnd
<1>5. IsPrefix(got, t)
  <2> HIDE DEF got, t, L
  <2>1. Len(got) \in Nat BY <1>3
  <2>2. got = SubSeq(t, 1, Len(got)) BY <1>2, <1>3, <2>1, Numbering
  <2>3. got = SubSeq(got, 1, Len(got)) BY <1>3, <2>1, Numbering
  <2> QED BY <1>2, <1>3, <2>2, <2>3 DEF IsPrefix
<1>6. c.h.eof /\ ~c.h.cut => got = t /\ (g.fin \/ ~g.synced)
  <2> SUFFICES ASSUME c.h.eof /\ ~c.h.cut PROVE got = t BY <1>4
  <2>1. Len(got) = L BY <1>4
  <2> HIDE DEF got, t, L
  <2>2. \A i \in 1 .. L : got[i] = t[i] BY <1>2, <1>3, <2>1
  <2> QED BY <1>2, <1>3, <2>1, <2>2, SeqEqual
<1>7. ASSUME c.open, TCPS_HAVEESTABLISHED(c.t_state), ~c.h.dead
      PROVE  got \o Content(c.rcv) = SubSeq(t, 1, Least(Diff(c.rnxt, c.irs) - 1, L))
  <2>1. Opened(c, g) /\ Estab(c) BY <1>1, <1>7 DEF Rx, TCPS_HAVEESTABLISHED, Estab
  <2>2. Flowing(c, g) /\ Numbered(c, g) /\ Ring(c.rcv) BY <2>1, States DEF Opened, Sound, Estab, Synced
  <2> DEFINE x == Content(c.rcv)
             cc == c.rcv.cc
             l == Len(got)
             r == Received(c)
             m == Least(r, L)
  <2>3. l \in Nat /\ l \in Int BY <1>3
  <2>4. Holds(c.rcv, l) /\ l + cc = m /\ cc \in Nat /\ r \in 0 .. L + 1
    BY <1>2, <1>7, <2>2, Spaces DEF Flowing, Numbered, Ring
  <2>5. x \in Seq(Int) /\ Len(x) = cc /\ \A i \in 1 .. cc : x[i] = l + i BY <2>2, <2>3, <2>4, ContentIs
  <2>6. m \in Nat /\ m <= L BY <1>2, <2>4 DEF Least
  <2>7. Diff(c.rnxt, c.irs) - 1 = r BY DEF Received
  <2> HIDE DEF x, cc, r, m
  <2> DEFINE s == got \o x
  <2>8. s \in Seq(Int) /\ Len(s) = m /\ \A i \in 1 .. m : s[i] = i
    <3> HIDE DEF got
    <3>1. s \in Seq(Int) /\ Len(s) = l + cc BY <1>3, <2>5
    <3>2. \A i \in 1 .. l : s[i] = got[i] BY <1>3, <2>5
    <3>3. \A i \in l + 1 .. l + cc : s[i] = x[i - l] BY <1>3, <2>3, <2>5
    <3> HIDE DEF s, l
    <3>4. \A i \in l + 1 .. l + cc : s[i] = i
      <4> SUFFICES ASSUME NEW i \in l + 1 .. l + cc PROVE s[i] = i OBVIOUS
      <4>1. i - l \in 1 .. cc /\ l + (i - l) = i BY <2>3, <2>4
      <4> QED BY <2>5, <3>3, <4>1
    <3>5. \A i \in 1 .. l : s[i] = i BY <1>3, <3>2 DEF l
    <3>6. \A i \in 1 .. m : i \in 1 .. l \/ i \in l + 1 .. l + cc BY <2>3, <2>4
    <3> QED BY <2>4, <3>1, <3>4, <3>5, <3>6
  <2> HIDE DEF s, t, L
  <2>9. s = SubSeq(t, 1, m) BY <1>2, <2>6, <2>8, Numbering
  <2>10. s = SubSeq(t, 1, Least(r, L)) BY <2>9 DEF m
  <2> QED BY <2>7, <2>10 DEF s, x
<1> QED BY <1>5, <1>6, <1>7 DEF HostGetsStream

\* Whatever the guest's segments do, overlap, repeat or overtake each other, and whenever the
\* host takes what waits for it: the host gets the bytes that have been acknowledged to the
\* guest, each once and in order, and is told the stream's end only after all of them
\* (tcp_input, tcp_reass, sbappend, sowrite).
THEOREM HostStream == Spec => []HostGetsStream
<1>1. Spec => []RxInv BY InitRx, RxStays, PTL DEF Spec
<1> QED BY <1>1, RxStream, PTL

=============================================================================
