---------------------------- MODULE IfQueueProof ----------------------------
(***************************************************************************)
(* Theorems about the interface queues, for any sockets, guests, sizes of  *)
(* tables and bounds.                                                      *)
(***************************************************************************)
EXTENDS IfQueue, FiniteSetTheorems, SequenceTheorems, TLAPS

\* A set of numbers that is not empty has a least one.
LEMMA Smallest ==
  ASSUME NEW S \in SUBSET Nat, S # {}
  PROVE  \E x \in S : \A y \in S : x <= y
<1>1. PICK x \in S : \A y \in S : ~(<<y, x>> \in OpToRel(<, Nat))
  BY WFMin, NatLessThanWellFounded
<1>2. ASSUME NEW y \in S PROVE x <= y
  <2>1. y < x => <<y, x>> \in OpToRel(<, Nat) BY Zenon DEF OpToRel
  <2>2. ~(y < x) BY <1>1, <2>1
  <2> QED BY <2>2
<1> QED BY <1>2

\* Induction over the numbers up to n, where a set says what is to be shown.
LEMMA UpTo ==
  ASSUME NEW n \in Nat, NEW S, 0 \in S, \A i \in 0 .. n - 1 : i \in S => i + 1 \in S
  PROVE  0 .. n \subseteq S
<1> DEFINE Missing == (0 .. n) \ S
<1>1. SUFFICES ASSUME Missing # {} PROVE FALSE OBVIOUS
<1>2. PICK x \in Missing : \A y \in Missing : x <= y
  <2> HIDE DEF Missing
  <2>1. Missing \subseteq Nat BY DEF Missing
  <2> QED BY <1>1, <2>1, Smallest
<1>3. x \in 0 .. n /\ x \notin S BY <1>2
<1>4. x # 0 BY <1>3
<1>5. x - 1 \in 0 .. n - 1 /\ (x - 1) + 1 = x BY <1>3, <1>4
<1>6. x - 1 \notin S BY <1>3, <1>5
<1> QED BY <1>2, <1>5, <1>6

\* Max is the greatest of numbers that have a bound.
LEMMA MaxIs ==
  ASSUME NEW n \in Nat, NEW S \in SUBSET (0 .. n), S # {}
  PROVE  Max(S) \in S /\ \A x \in S : x <= Max(S)
<1> DEFINE R == {n - x : x \in S}
<1>1. R \subseteq Nat /\ R # {}
  <2>1. PICK x : x \in S OBVIOUS
  <2>2. n - x \in R BY <2>1
  <2>3. \A x0 \in S : n - x0 \in Nat OBVIOUS
  <2> QED BY <2>2, <2>3
<1>2. PICK r \in R : \A y \in R : r <= y
  <2> HIDE DEF R
  <2> QED BY <1>1, Smallest
<1>3. PICK x \in S : r = n - x BY <1>2
<1>4. \A y \in S : x >= y BY <1>2, <1>3
<1> QED BY <1>4 DEF Max

-----------------------------------------------------------------------------
(* Queues.                                                                 *)

Lists == Seq(Seq(Nat) \ {<<>>})

Step(queue, f, i) ==
  IF i = 0 THEN <<>> ELSE IF queue[i] = <<>> THEN f[i - 1] ELSE Append(f[i - 1], queue[i])
Rec(queue, n, f) == f = [i \in 0 .. n |-> Step(queue, f, i)]

\* The recursion of Sessions has a solution.
LEMMA RecExists ==
  ASSUME NEW n \in Nat, NEW queue
  PROVE  \E f : Rec(queue, n, f)
<1> DEFINE S == {k \in 0 .. n : \E f : Rec(queue, k, f)}
<1>1. 0 \in S
  <2> DEFINE h == [i \in 0 .. 0 |-> <<>>]
  <2>1. h = [i \in 0 .. 0 |-> Step(queue, h, i)] BY DEF Step
  <2> QED BY <2>1 DEF Rec
<1>2. ASSUME NEW k \in 0 .. n - 1, k \in S PROVE k + 1 \in S
  <2>1. PICK g : Rec(queue, k, g) BY <1>2
  <2> DEFINE h == [i \in 0 .. k + 1 |-> Step(queue, g, i)]
  <2>2. \A i \in 0 .. k : h[i] = g[i] BY <2>1 DEF Rec
  <2>3. \A i \in 0 .. k + 1 : i # 0 => h[i - 1] = g[i - 1]
    <3> HIDE DEF h
    <3> QED BY <2>2
  <2>4. h = [i \in 0 .. k + 1 |-> Step(queue, h, i)] BY <2>3, Zenon DEF Step
  <2>5. k + 1 \in 0 .. n OBVIOUS
  <2> QED BY <2>4, <2>5 DEF Rec
<1>3. n \in S
  <2> HIDE DEF S
  <2>1. 0 .. n \subseteq S BY <1>1, <1>2, UpTo
  <2> QED BY <2>1
<1> QED BY <1>3

\* kept has the sessions of queue that are not empty, up to n, at the places that f says
Picks(queue, n, kept, f) ==
  /\ kept \in Lists /\ f \in [1 .. Len(kept) -> 1 .. n]
  /\ \A i \in 1 .. Len(kept) : kept[i] = queue[f[i]] /\ queue[f[i]] # <<>>
  /\ \A i, j \in 1 .. Len(kept) : i < j => f[i] < f[j]
  /\ \A k \in 1 .. n : queue[k] # <<>> => \E i \in 1 .. Len(kept) : f[i] = k

LEMMA PicksMore ==
  ASSUME NEW queue \in Seq(Seq(Nat)), NEW n \in 0 .. Len(queue) - 1, NEW kept, NEW f,
         Picks(queue, n, kept, f)
  PROVE  \E g : Picks(queue, n + 1, IF queue[n + 1] = <<>> THEN kept ELSE Append(kept, queue[n + 1]), g)
<1> DEFINE more == Append(kept, queue[n + 1])
<1>1. queue[n + 1] \in Seq(Nat) /\ Len(kept) \in Nat /\ kept \in Lists BY DEF Picks, Lists
<1>2. CASE queue[n + 1] = <<>>
  <2>1. f \in [1 .. Len(kept) -> 1 .. n + 1] BY DEF Picks
  <2>2. \A k \in 1 .. n + 1 : k = n + 1 \/ k \in 1 .. n OBVIOUS
  <2>3. Picks(queue, n + 1, kept, f) BY <1>2, <2>1, <2>2 DEF Picks
  <2> QED BY <1>2, <2>3
<1>3. CASE queue[n + 1] # <<>>
  <2> DEFINE g == [i \in 1 .. Len(kept) + 1 |-> IF i = Len(kept) + 1 THEN n + 1 ELSE f[i]]
  <2>1. more \in Lists /\ Len(more) = Len(kept) + 1 /\ more[Len(kept) + 1] = queue[n + 1]
        /\ \A i \in 1 .. Len(kept) : more[i] = kept[i]
    BY <1>1, <1>3 DEF Lists
  <2>2. g[Len(kept) + 1] = n + 1 /\ \A i \in 1 .. Len(kept) : g[i] = f[i] /\ g[i] \in 1 .. n
    <3>1. f \in [1 .. Len(kept) -> 1 .. n] BY DEF Picks
    <3>2. Len(kept) + 1 \in 1 .. Len(kept) + 1 BY <1>1
    <3>3. \A i \in 1 .. Len(kept) : i \in 1 .. Len(kept) + 1 /\ i # Len(kept) + 1 BY <1>1
    <3>4. g[Len(kept) + 1] = n + 1 BY <3>2
    <3>5. \A i \in 1 .. Len(kept) : g[i] = f[i] BY <3>3
    <3> QED BY <3>1, <3>4, <3>5
  <2>3. \A i \in 1 .. Len(kept) + 1 : i = Len(kept) + 1 \/ i \in 1 .. Len(kept) BY <1>1
  <2>4. g \in [1 .. Len(kept) + 1 -> 1 .. n + 1] BY <1>1 DEF Picks
  <2> HIDE DEF more, g
  <2>5. \A i \in 1 .. Len(kept) + 1 : more[i] = queue[g[i]] /\ queue[g[i]] # <<>>
    BY <1>3, <2>1, <2>2, <2>3 DEF Picks
  <2>6. ASSUME NEW i \in 1 .. Len(kept) + 1, NEW j \in 1 .. Len(kept) + 1, i < j PROVE g[i] < g[j]
    <3>1. i \in 1 .. Len(kept) BY <1>1, <2>6
    <3>2. CASE j = Len(kept) + 1 BY <2>2, <3>1, <3>2
    <3>3. CASE j \in 1 .. Len(kept) BY <2>2, <2>6, <3>1, <3>3 DEF Picks
    <3> QED BY <2>3, <3>2, <3>3
  <2>7. ASSUME NEW k \in 1 .. n + 1, queue[k] # <<>> PROVE \E i \in 1 .. Len(kept) + 1 : g[i] = k
    <3>1. CASE k = n + 1 BY <1>1, <2>2, <3>1
    <3>2. CASE k \in 1 .. n
      <4>1. PICK i \in 1 .. Len(kept) : f[i] = k BY <2>7, <3>2 DEF Picks
      <4>2. g[i] = k /\ i \in 1 .. Len(kept) + 1 BY <1>1, <2>2, <4>1
      <4> QED BY <4>2
    <3> QED BY <3>1, <3>2
  <2>8. Picks(queue, n + 1, more, g) BY <2>1, <2>4, <2>5, <2>6, <2>7 DEF Picks
  <2> QED BY <1>3, <2>8 DEF more
<1> QED BY <1>2, <1>3

\* Sessions keeps the sessions that are not empty, in their order.
LEMMA SessionsAre ==
  ASSUME NEW queue \in Seq(Seq(Nat))
  PROVE  \E f : Picks(queue, Len(queue), Sessions(queue), f)
<1> DEFINE n == Len(queue)
           kept == CHOOSE f : Rec(queue, n, f)
           S == {i \in 0 .. n : \E f : Picks(queue, i, kept[i], f)}
<1>1. n \in Nat OBVIOUS
<1>2. Rec(queue, n, kept) BY <1>1, RecExists
<1>3. Sessions(queue) = kept[n] BY Zenon DEF Sessions, Rec, Step
<1> HIDE DEF kept
<1>4. 0 \in S
  <2>1. kept[0] = <<>> BY <1>1, <1>2 DEF Rec, Step
  <2>2. Picks(queue, 0, <<>>, [i \in 1 .. 0 |-> 0]) BY DEF Picks, Lists
  <2> QED BY <1>1, <2>1, <2>2
<1>5. ASSUME NEW i \in 0 .. n - 1, i \in S PROVE i + 1 \in S
  <2>1. kept[i + 1] = IF queue[i + 1] = <<>> THEN kept[i] ELSE Append(kept[i], queue[i + 1])
    <3>1. i + 1 \in 0 .. n /\ i + 1 # 0 /\ (i + 1) - 1 = i BY <1>1
    <3>2. kept[i + 1] = Step(queue, kept, i + 1)
      <4> HIDE DEF n
      <4> QED BY <1>2, <3>1 DEF Rec
    <3> QED BY <3>1, <3>2 DEF Step
  <2>2. PICK f : Picks(queue, i, kept[i], f) BY <1>5
  <2>3. \E g : Picks(queue, i + 1, kept[i + 1], g) BY <2>1, <2>2, PicksMore
  <2> QED BY <1>1, <2>3
<1>6. n \in S
  <2> HIDE DEF S
  <2>1. 0 .. n \subseteq S BY <1>1, <1>4, <1>5, UpTo
  <2> QED BY <1>1, <2>1
<1> QED BY <1>3, <1>6

\* What stays of a session.
LEMMA RestIs ==
  ASSUME NEW s \in Seq(Nat), NEW k \in 0 .. Len(s)
  PROVE  LET t == SubSeq(s, k + 1, Len(s))
         IN  t \in Seq(Nat) /\ Len(t) = Len(s) - k /\ \A i \in 1 .. Len(s) - k : t[i] = s[k + i]
<1> DEFINE e == Len(s)
           m == k + 1
           t == SubSeq(s, m, e)
<1>1. m \in Int /\ e \in Int /\ k \in Nat /\ k <= e /\ \A i \in m .. e : s[i] \in Nat OBVIOUS
<1>0. m = k + 1 OBVIOUS
<1> HIDE DEF m, e
<1>2. /\ t \in Seq(Nat) /\ Len(t) = IF m <= e THEN e - m + 1 ELSE 0
      /\ \A i \in 1 .. e - m + 1 : t[i] = s[m + i - 1]
  <2>1. \A S, q : \A x, y \in Int :
          (\A i \in x .. y : q[i] \in S) =>
          /\ SubSeq(q, x, y) \in Seq(S) /\ Len(SubSeq(q, x, y)) = IF x <= y THEN y - x + 1 ELSE 0
          /\ \A i \in 1 .. y - x + 1 : SubSeq(q, x, y)[i] = q[x + i - 1]
    BY SubSeqProperties
  <2>2. \A x, y \in Int :
          (\A i \in x .. y : s[i] \in Nat) =>
          /\ SubSeq(s, x, y) \in Seq(Nat) /\ Len(SubSeq(s, x, y)) = IF x <= y THEN y - x + 1 ELSE 0
          /\ \A i \in 1 .. y - x + 1 : SubSeq(s, x, y)[i] = s[x + i - 1]
    BY <2>1
  <2> HIDE DEF t
  <2>3. /\ SubSeq(s, m, e) \in Seq(Nat) /\ Len(SubSeq(s, m, e)) = IF m <= e THEN e - m + 1 ELSE 0
        /\ \A i \in 1 .. e - m + 1 : SubSeq(s, m, e)[i] = s[m + i - 1]
    BY <1>1, <2>2
  <2> QED BY <2>3, Zenon DEF t
<1> HIDE DEF t
<1>3. Len(t) = e - k BY <1>1, <1>0, <1>2
<1>4. \A i \in 1 .. e - k : t[i] = s[k + i]
  <2> SUFFICES ASSUME NEW i \in 1 .. e - k PROVE t[i] = s[k + i] OBVIOUS
  <2>1. i \in 1 .. e - m + 1 /\ m + i - 1 = k + i BY <1>1, <1>0
  <2> QED BY <1>2, <2>1
<1> QED BY <1>2, <1>3, <1>4, Zenon DEF t, e, m

\* The places of a queue.
LEMMA Places ==
  ASSUME NEW queue \in Lists
  PROVE  /\ queue \in Seq(Seq(Nat)) /\ Len(queue) \in Nat /\ DOMAIN queue = 1 .. Len(queue)
         /\ \A i \in 1 .. Len(queue) :
              /\ queue[i] \in Seq(Nat) /\ queue[i] # <<>> /\ Len(queue[i]) \in Nat
              /\ Len(queue[i]) > 0 /\ DOMAIN queue[i] = 1 .. Len(queue[i])
              /\ \A j \in 1 .. Len(queue[i]) : queue[i][j] \in Nat
<1>1. /\ queue \in Seq(Seq(Nat)) /\ Len(queue) \in Nat /\ DOMAIN queue = 1 .. Len(queue)
      /\ \A i \in 1 .. Len(queue) : queue[i] \in Seq(Nat) \ {<<>>}
  BY DEF Lists
<1>2. ASSUME NEW i \in 1 .. Len(queue)
      PROVE  /\ queue[i] \in Seq(Nat) /\ queue[i] # <<>> /\ Len(queue[i]) \in Nat
             /\ Len(queue[i]) > 0 /\ DOMAIN queue[i] = 1 .. Len(queue[i])
             /\ \A j \in 1 .. Len(queue[i]) : queue[i][j] \in Nat
  <2> DEFINE s == queue[i]
  <2>1. s \in Seq(Nat) /\ s # <<>> BY <1>1
  <2> HIDE DEF s
  <2>2. Len(s) \in Nat /\ Len(s) > 0 /\ DOMAIN s = 1 .. Len(s) /\ \A j \in 1 .. Len(s) : s[j] \in Nat
    BY <2>1, EmptySeq
  <2> QED BY <2>1, <2>2 DEF s
<1> QED BY <1>1, <1>2

\* x is packet a of session i
Is(queue, i, a, x) == i \in 1 .. Len(queue) /\ a \in 1 .. Len(queue[i]) /\ queue[i][a] = x
\* no packet is twice in a queue
Once(queue) == \A i, j, a, b, x : Is(queue, i, a, x) /\ Is(queue, j, b, x) => i = j /\ a = b
\* n and k are in one session
Together(queue, n, k) == \E i, a, b : Is(queue, i, a, n) /\ Is(queue, i, b, k)

LEMMA IsTyped ==
  ASSUME NEW queue \in Lists, NEW i, NEW a, NEW x, Is(queue, i, a, x)
  PROVE  i \in Nat \ {0} /\ a \in Nat \ {0} /\ x \in Nat
<1>1. i \in 1 .. Len(queue) /\ a \in 1 .. Len(queue[i]) /\ queue[i][a] = x BY DEF Is
<1>2. Len(queue) \in Nat /\ Len(queue[i]) \in Nat /\ queue[i][a] \in Nat BY <1>1, Places
<1> HIDE DEF Is
<1>3. i \in Nat \ {0} BY <1>1, <1>2
<1>4. a \in Nat \ {0} BY <1>1, <1>2
<1> QED BY <1>1, <1>2, <1>3, <1>4

LEMMA MembersAre ==
  ASSUME NEW queue \in Lists, NEW x
  PROVE  x \in Members(queue) <=> \E i, a : Is(queue, i, a, x)
<1>1. \A i \in 1 .. Len(queue) : ToSet(queue[i]) = {queue[i][a] : a \in 1 .. Len(queue[i])}
  BY Places, Zenon DEF ToSet
<1>2. x \in Members(queue) <=> \E i \in 1 .. Len(queue) : x \in ToSet(queue[i]) BY Places, Zenon DEF Members
<1>3. \A i \in 1 .. Len(queue) : x \in ToSet(queue[i]) <=> \E a \in 1 .. Len(queue[i]) : queue[i][a] = x
  BY <1>1
<1> QED BY <1>2, <1>3, Zenon DEF Is

Precedes(queue, n, k) ==
  \E i, j, a, b : Is(queue, i, a, n) /\ Is(queue, j, b, k) /\ (i < j \/ (i = j /\ a < b))
LEMMA BeforeIs ==
  ASSUME NEW queue \in Lists, NEW n, NEW k
  PROVE  Before(queue, n, k) <=> Precedes(queue, n, k)
<1>1. DOMAIN queue = 1 .. Len(queue) /\ \A i \in 1 .. Len(queue) : DOMAIN queue[i] = 1 .. Len(queue[i])
  BY Places
<1> QED BY <1>1, Zenon DEF Before, Is, Precedes

\* numbers of packets to take away from the sessions
Heads(queue) == {r \in [1 .. Len(queue) -> Nat] : \A i \in 1 .. Len(queue) : r[i] <= Len(queue[i])}
Rests(queue, r) == [i \in DOMAIN queue |-> SubSeq(queue[i], r[i] + 1, Len(queue[i]))]
\* new has the sessions of old less their first r packets, where any are left, at the places
\* that f says
Cuts(old, new, r, f) ==
  /\ new \in Lists
  /\ \A i, a, x : Is(new, i, a, x) => Is(old, f[i], r[f[i]] + a, x)
  /\ \A k, x : \A a \in Nat \ {0} : Is(old, k, r[k] + a, x) => \E i : f[i] = k /\ Is(new, i, a, x)
  /\ \A i, a, x, j, b, y : Is(new, i, a, x) /\ Is(new, j, b, y) /\ i < j => f[i] < f[j]
HeadsOf(queue, r) == {x \in Nat : \E i, a : Is(queue, i, a, x) /\ a <= r[i]}

LEMMA SessionsCut ==
  ASSUME NEW queue \in Lists, NEW r \in Heads(queue)
  PROVE  \E f : Cuts(queue, Sessions(Rests(queue, r)), r, f)
<1> DEFINE rests == Rests(queue, r)
           new == Sessions(rests)
           Rest(i) == SubSeq(queue[i], r[i] + 1, Len(queue[i]))
           N == Len(queue)
           l == [i \in 1 .. N |-> Len(queue[i])]
<1>1. /\ N \in Nat /\ DOMAIN queue = 1 .. N
      /\ \A i \in 1 .. N : queue[i] \in Seq(Nat) /\ Len(queue[i]) = l[i] /\ l[i] \in Nat /\ r[i] \in 0 .. l[i]
  BY Places DEF Heads
<1>2. \A i \in 1 .. N :
        /\ Rest(i) \in Seq(Nat) /\ Len(Rest(i)) = l[i] - r[i]
        /\ \A j \in 1 .. l[i] - r[i] : Rest(i)[j] = queue[i][r[i] + j]
  <2> SUFFICES ASSUME NEW i \in 1 .. N
               PROVE  /\ Rest(i) \in Seq(Nat) /\ Len(Rest(i)) = l[i] - r[i]
                      /\ \A j \in 1 .. l[i] - r[i] : Rest(i)[j] = queue[i][r[i] + j]
    OBVIOUS
  <2>1. queue[i] \in Seq(Nat) /\ r[i] \in 0 .. Len(queue[i]) /\ Len(queue[i]) = l[i] BY <1>1
  <2> HIDE DEF l
  <2> QED BY <2>1, RestIs, Zenon
<1>3. rests = [i \in 1 .. N |-> Rest(i)] BY <1>1 DEF Rests
<1> HIDE DEF Rest, rests, l
<1>4. Len(rests) = N /\ rests \in Seq(Seq(Nat)) /\ \A i \in 1 .. N : rests[i] = Rest(i)
  BY <1>1, <1>2, <1>3
<1>5. PICK f : Picks(rests, N, new, f) BY <1>4, SessionsAre
<1> HIDE DEF new
<1>6. new \in Lists BY <1>5 DEF Picks
<1>7. \A i \in 1 .. Len(new) : f[i] \in 1 .. N /\ new[i] = Rest(f[i]) BY <1>4, <1>5 DEF Picks
<1>8. ASSUME NEW i, NEW a, NEW x, Is(new, i, a, x) PROVE Is(queue, f[i], r[f[i]] + a, x)
  <2>1. i \in 1 .. Len(new) /\ a \in 1 .. Len(new[i]) /\ new[i][a] = x BY <1>8 DEF Is
  <2> DEFINE k == f[i]
  <2>2. k \in 1 .. N /\ new[i] = Rest(k) BY <1>7, <2>1
  <2> HIDE DEF k
  <2>3. a \in 1 .. l[k] - r[k] /\ Rest(k)[a] = x BY <1>2, <2>1, <2>2
  <2>4. queue[k][r[k] + a] = x BY <1>2, <2>2, <2>3
  <2>5. r[k] + a \in 1 .. l[k] BY <1>1, <2>2, <2>3
  <2> QED BY <1>1, <2>2, <2>4, <2>5, Zenon DEF Is, k, N
<1>9. ASSUME NEW k, NEW a \in Nat \ {0}, NEW x, Is(queue, k, r[k] + a, x) PROVE \E i : f[i] = k /\ Is(new, i, a, x)
  <2>1. k \in 1 .. N /\ r[k] + a \in 1 .. l[k] /\ queue[k][r[k] + a] = x
    <3>1. k \in 1 .. N /\ r[k] + a \in 1 .. Len(queue[k]) /\ queue[k][r[k] + a] = x BY <1>9, Zenon DEF Is, N
    <3> QED BY <1>1, <3>1
  <2>2. a \in 1 .. l[k] - r[k] BY <1>1, <1>9, <2>1
  <2>3. Rest(k)[a] = x /\ a \in 1 .. Len(Rest(k)) /\ Len(Rest(k)) > 0
    <3>1. Len(Rest(k)) = l[k] - r[k] /\ Rest(k)[a] = queue[k][r[k] + a] BY <1>2, <2>1, <2>2
    <3>2. l[k] - r[k] > 0 BY <1>1, <2>1, <2>2
    <3> QED BY <2>1, <2>2, <3>1, <3>2
  <2>4. rests[k] # <<>>
    <3>1. Len(rests[k]) > 0 BY <1>4, <2>1, <2>3
    <3> QED BY <3>1
  <2>5. PICK i \in 1 .. Len(new) : f[i] = k BY <1>5, <2>1, <2>4 DEF Picks
  <2> QED BY <1>7, <2>3, <2>5, Zenon DEF Is
<1>10. ASSUME NEW i, NEW a, NEW x, NEW j, NEW b, NEW y, Is(new, i, a, x), Is(new, j, b, y), i < j
       PROVE  f[i] < f[j]
  <2>1. i \in 1 .. Len(new) /\ j \in 1 .. Len(new) BY <1>10 DEF Is
  <2> QED BY <1>5, <1>10, <2>1 DEF Picks
<1>11. Cuts(queue, new, r, f)
  BY <1>6, <1>8, <1>9, <1>10 DEF Cuts
<1> QED BY <1>11 DEF new, rests

LEMMA Shared ==
  ASSUME NEW queue, Once(queue)
  PROVE  /\ \A x, y : Together(queue, x, y) => Together(queue, y, x)
         /\ \A x, y, z : Together(queue, x, y) /\ Together(queue, y, z) => Together(queue, x, z)
<1>1. \A x, y : Together(queue, x, y) => Together(queue, y, x) BY Zenon DEF Together
<1>2. ASSUME NEW x, NEW y, NEW z, Together(queue, x, y), Together(queue, y, z)
      PROVE  Together(queue, x, z)
  <2>1. PICK i, a, b : Is(queue, i, a, x) /\ Is(queue, i, b, y) BY <1>2 DEF Together
  <2>2. PICK j, c, d : Is(queue, j, c, y) /\ Is(queue, j, d, z) BY <1>2 DEF Together
  <2>3. i = j BY <2>1, <2>2, Zenon DEF Once
  <2>4. Is(queue, i, d, z) BY <2>2, <2>3
  <2> QED BY <2>1, <2>4, Zenon DEF Together
<1> QED BY <1>1, <1>2

\* new has the packets of old that are not in gone, where they were
Thins(old, new, gone) ==
  /\ new \in Lists /\ Once(new) /\ Members(new) = Members(old) \ gone
  /\ \A n, k : Before(new, n, k) => Before(old, n, k)
  /\ \A n, k : Together(new, n, k) <=> Together(old, n, k) /\ n \notin gone /\ k \notin gone

LEMMA CutThins ==
  ASSUME NEW queue \in Lists, Once(queue), NEW r \in Heads(queue)
  PROVE  Thins(queue, Sessions(Rests(queue, r)), HeadsOf(queue, r))
<1> DEFINE new == Sessions(Rests(queue, r))
           gone == HeadsOf(queue, r)
<1>1. \E f : Cuts(queue, new, r, f) BY SessionsCut
<1>2. PICK f : Cuts(queue, new, r, f) BY <1>1
<1> HIDE DEF new
<1>3. /\ new \in Lists
      /\ \A i, a, x : Is(new, i, a, x) => Is(queue, f[i], r[f[i]] + a, x)
      /\ \A k, x : \A a \in Nat \ {0} : Is(queue, k, r[k] + a, x) => \E i : f[i] = k /\ Is(new, i, a, x)
      /\ \A i, a, x, j, b, y : Is(new, i, a, x) /\ Is(new, j, b, y) /\ i < j => f[i] < f[j]
  BY <1>2 DEF Cuts
<1>4. \A i, a, x : Is(queue, i, a, x) =>
        /\ i \in Nat \ {0} /\ a \in Nat \ {0} /\ x \in Nat /\ r[i] \in Nat
  <2> SUFFICES ASSUME NEW i, NEW a, NEW x, Is(queue, i, a, x) PROVE r[i] \in Nat BY IsTyped
  <2> QED BY DEF Is, Heads
<1>5. \A i, a, x : Is(new, i, a, x) =>
        /\ i \in Nat \ {0} /\ a \in Nat \ {0} /\ x \in Nat /\ f[i] \in Nat \ {0} /\ r[f[i]] \in Nat
  BY <1>3, <1>4, IsTyped
<1>6. \A i, j, a, b, x : Is(queue, i, a, x) /\ Is(queue, j, b, x) => i = j /\ a = b BY DEF Once
<1>7. ASSUME NEW k, NEW b, NEW x, Is(queue, k, b, x), x \notin gone
      PROVE  \E i, a : f[i] = k /\ b = r[k] + a /\ Is(new, i, a, x)
  <2>1. k \in Nat /\ b \in Nat /\ x \in Nat /\ r[k] \in Nat BY <1>4, <1>7
  <2>2. ~(b <= r[k]) BY <1>7, <2>1, Zenon DEF HeadsOf
  <2>3. b - r[k] \in Nat \ {0} /\ b = r[k] + (b - r[k]) BY <2>1, <2>2
  <2> QED BY <1>3, <1>7, <2>3
<1>8. ASSUME NEW i, NEW a, NEW x, Is(new, i, a, x) PROVE x \notin gone
  <2>1. SUFFICES ASSUME NEW k, NEW b, Is(queue, k, b, x), b <= r[k] PROVE FALSE BY Zenon DEF HeadsOf
  <2>2. Is(queue, f[i], r[f[i]] + a, x) BY <1>3, <1>8
  <2>3. k = f[i] /\ b = r[f[i]] + a BY <1>6, <2>1, <2>2
  <2> QED BY <1>5, <1>8, <2>1, <2>3
<1> HIDE DEF gone
<1>9. \A i, a, x, j, b, y : Is(new, i, a, x) /\ Is(new, j, b, y) /\ f[i] = f[j] => i = j
  <2> SUFFICES ASSUME NEW i, NEW a, NEW x, NEW j, NEW b, NEW y, Is(new, i, a, x), Is(new, j, b, y), f[i] = f[j]
               PROVE  i = j
    OBVIOUS
  <2>1. ~(i < j) /\ ~(j < i) BY <1>3, <1>5
  <2> QED BY <1>5, <2>1
<1>10. Once(new)
  <2> SUFFICES ASSUME NEW i, NEW j, NEW a, NEW b, NEW x, Is(new, i, a, x), Is(new, j, b, x)
               PROVE  i = j /\ a = b
    BY DEF Once
  <2>1. Is(queue, f[i], r[f[i]] + a, x) /\ Is(queue, f[j], r[f[j]] + b, x) BY <1>3
  <2>2. f[i] = f[j] /\ r[f[i]] + a = r[f[j]] + b BY <1>6, <2>1
  <2>3. i = j BY <1>9, <2>2
  <2> QED BY <1>5, <2>2, <2>3
<1>11. Members(new) = Members(queue) \ gone
  <2>1. ASSUME NEW x \in Members(new) PROVE x \in Members(queue) /\ x \notin gone
    <3>1. PICK i, a : Is(new, i, a, x) BY <1>3, MembersAre
    <3> QED BY <1>3, <1>8, <3>1, MembersAre
  <2>2. ASSUME NEW x \in Members(queue), x \notin gone PROVE x \in Members(new)
    <3>1. PICK k, b : Is(queue, k, b, x) BY MembersAre
    <3>2. \E i, a : Is(new, i, a, x) BY <1>7, <2>2, <3>1
    <3> QED BY <1>3, <3>2, MembersAre
  <2> QED BY <2>1, <2>2
<1>12. ASSUME NEW n, NEW k, Before(new, n, k) PROVE Before(queue, n, k)
  <2>1. PICK i, j, a, b : Is(new, i, a, n) /\ Is(new, j, b, k) /\ (i < j \/ (i = j /\ a < b))
    <3>1. new \in Lists BY <1>3
    <3>2. \E i, j, a, b : Is(new, i, a, n) /\ Is(new, j, b, k) /\ (i < j \/ (i = j /\ a < b))
      BY <1>12, <3>1, BeforeIs, Zenon DEF Precedes
    <3> QED BY <3>2
  <2>2. Is(queue, f[i], r[f[i]] + a, n) /\ Is(queue, f[j], r[f[j]] + b, k) BY <1>3, <2>1
  <2>3. f[i] < f[j] \/ (f[i] = f[j] /\ r[f[i]] + a < r[f[j]] + b)
    <3>1. CASE i < j BY <1>3, <2>1, <3>1
    <3>2. CASE i = j /\ a < b BY <1>5, <2>1, <3>2
    <3> QED BY <2>1, <3>1, <3>2
  <2> QED BY <2>2, <2>3, BeforeIs DEF Precedes
<1>13. ASSUME NEW n, NEW k, Together(new, n, k)
       PROVE  Together(queue, n, k) /\ n \notin gone /\ k \notin gone
  <2>1. PICK i, a, b : Is(new, i, a, n) /\ Is(new, i, b, k) BY <1>13 DEF Together
  <2>2. Is(queue, f[i], r[f[i]] + a, n) /\ Is(queue, f[i], r[f[i]] + b, k) BY <1>3, <2>1
  <2> QED BY <1>8, <2>1, <2>2 DEF Together
<1>14. ASSUME NEW n, NEW k, Together(queue, n, k), n \notin gone, k \notin gone
       PROVE  Together(new, n, k)
  <2>1. PICK i, a, b : Is(queue, i, a, n) /\ Is(queue, i, b, k) BY <1>14 DEF Together
  <2>2. PICK i1, a1 : f[i1] = i /\ Is(new, i1, a1, n) BY <1>7, <1>14, <2>1
  <2>3. PICK i2, b1 : f[i2] = i /\ Is(new, i2, b1, k) BY <1>7, <1>14, <2>1
  <2>4. i1 = i2 BY <1>9, <2>2, <2>3
  <2> QED BY <2>2, <2>3, <2>4 DEF Together
<1> QED BY <1>3, <1>10, <1>11, <1>12, <1>13, <1>14 DEF Thins, new, gone

-----------------------------------------------------------------------------
(* What if_start takes from a queue.                                       *)

LEMMA LeadingIs ==
  ASSUME NEW m, NEW s \in Seq(Nat)
  PROVE  /\ Leading(m, s) \in 0 .. Len(s)
         /\ \A j \in 1 .. Leading(m, s) : Goes(m, s[j])
         /\ Leading(m, s) < Len(s) => ~Goes(m, s[Leading(m, s) + 1])
<1> DEFINE S == {i \in 0 .. Len(s) : i = Len(s) \/ ~Goes(m, s[i + 1])}
<1>1. Len(s) \in Nat OBVIOUS
<1>2. S \subseteq Nat /\ Len(s) \in S BY <1>1
<1>3. PICK i \in S : \A j \in S : i <= j
  <2> HIDE DEF S
  <2> QED BY <1>2, Smallest
<1>4. i \in 0 .. Len(s) /\ (i < Len(s) => ~Goes(m, s[i + 1])) BY <1>1, <1>3
<1>5. ASSUME NEW j \in 1 .. i PROVE Goes(m, s[j])
  <2>1. j - 1 \in 0 .. Len(s) /\ j - 1 # Len(s) /\ ~(i <= j - 1) /\ j = (j - 1) + 1 BY <1>1, <1>4
  <2> QED BY <1>3, <2>1
<1>6. \E k \in 0 .. Len(s) :
        (\A j \in 1 .. k : Goes(m, s[j])) /\ (k < Len(s) => ~Goes(m, s[k + 1]))
  BY <1>4, <1>5
<1> QED BY <1>6, Zenon DEF Leading

LEMMA LeavesAre ==
  ASSUME NEW m, NEW s \in Seq(Nat), NEW eager \in BOOLEAN
  PROVE  /\ Leaves(m, s, eager) \in 0 .. Len(s)
         /\ \A j \in 1 .. Leaves(m, s, eager) : Goes(m, s[j])
         /\ eager /\ (\A j \in 1 .. Len(s) : Goes(m, s[j])) => Leaves(m, s, eager) = Len(s)
<1> DEFINE k == Leading(m, s)
<1>1. Len(s) \in Nat OBVIOUS
<1>2. k \in 0 .. Len(s) /\ (\A j \in 1 .. k : Goes(m, s[j])) /\ (k < Len(s) => ~Goes(m, s[k + 1]))
  BY LeadingIs
<1> HIDE DEF k
<1>3. Leaves(m, s, eager) = IF eager \/ k = 0 THEN k ELSE 1 BY DEF Leaves, k
<1>4. CASE eager \/ k = 0
  <2>1. Leaves(m, s, eager) = k BY <1>3, <1>4
  <2>2. (\A j \in 1 .. Len(s) : Goes(m, s[j])) => k = Len(s)
    <3> SUFFICES ASSUME \A j \in 1 .. Len(s) : Goes(m, s[j]), k < Len(s) PROVE FALSE BY <1>1, <1>2
    <3>1. k + 1 \in 1 .. Len(s) BY <1>1, <1>2
    <3> QED BY <1>2, <3>1
  <2> QED BY <1>2, <2>1, <2>2
<1>5. CASE ~(eager \/ k = 0)
  <2>1. Leaves(m, s, eager) = 1 BY <1>3, <1>5
  <2>2. 1 \in 0 .. Len(s) /\ 1 .. 1 \subseteq 1 .. k BY <1>1, <1>2, <1>5
  <2> QED BY <1>2, <1>5, <2>1, <2>2
<1> QED BY <1>4, <1>5

\* What leaves a queue leaves the head of a session, to a guest that is known or after its
\* time; all of an eager session leaves if it can.
LEMMA LeftThins ==
  ASSUME NEW queue \in Lists, Once(queue), NEW m, NEW eager \in Int
  PROVE  /\ Thins(queue, Left(m, queue, eager), Gone(m, queue, eager))
         /\ Gone(m, queue, eager) \subseteq Members(queue)
         /\ \A n \in Gone(m, queue, eager) :
              /\ Goes(m, n)
              /\ \A k \in Members(queue) \ Gone(m, queue, eager) :
                   \/ Together(queue, n, k) \/ (eager = Len(queue) - 1 /\ \A x \in Members(queue) :
                                                 Together(queue, k, x) => Goes(m, x))
                   => Before(queue, n, k)
<1> DEFINE N == Len(queue)
           r == [i \in 1 .. N |-> Leaves(m, queue[i], i <= eager)]
           gone == Gone(m, queue, eager)
<1>1. /\ N \in Nat /\ DOMAIN queue = 1 .. N
      /\ \A i \in 1 .. N : queue[i] \in Seq(Nat) /\ Len(queue[i]) \in Nat
  BY Places
<1>2. \A i \in 1 .. N :
        /\ r[i] \in 0 .. Len(queue[i]) /\ \A j \in 1 .. r[i] : Goes(m, queue[i][j])
        /\ i <= eager /\ (\A j \in 1 .. Len(queue[i]) : Goes(m, queue[i][j])) => r[i] = Len(queue[i])
  <2> SUFFICES ASSUME NEW i \in 1 .. N
               PROVE  /\ r[i] \in 0 .. Len(queue[i]) /\ \A j \in 1 .. r[i] : Goes(m, queue[i][j])
                      /\ i <= eager /\ (\A j \in 1 .. Len(queue[i]) : Goes(m, queue[i][j]))
                           => r[i] = Len(queue[i])
    OBVIOUS
  <2> DEFINE e == i <= eager
             s == queue[i]
  <2>1. r[i] = Leaves(m, s, e) /\ s \in Seq(Nat) /\ e \in BOOLEAN BY <1>1
  <2> HIDE DEF r, e, s
  <2>2. /\ Leaves(m, s, e) \in 0 .. Len(s) /\ \A j \in 1 .. Leaves(m, s, e) : Goes(m, s[j])
        /\ e /\ (\A j \in 1 .. Len(s) : Goes(m, s[j])) => Leaves(m, s, e) = Len(s)
    BY <2>1, LeavesAre, Zenon
  <2>3. /\ r[i] \in 0 .. Len(s) /\ \A j \in 1 .. r[i] : Goes(m, s[j])
        /\ e /\ (\A j \in 1 .. Len(s) : Goes(m, s[j])) => r[i] = Len(s)
    BY <2>1, <2>2, Zenon
  <2> QED BY <2>3, Zenon DEF e, s
<1>3. r \in Heads(queue)
  <2>1. \A i \in 1 .. N : r[i] \in Nat /\ r[i] <= Len(queue[i]) BY <1>1, <1>2
  <2> QED BY <2>1 DEF Heads
<1>4. Left(m, queue, eager) = Sessions(Rests(queue, r))
  <2>1. \A i \in DOMAIN queue : r[i] = Leaves(m, queue[i], i <= eager) BY <1>1
  <2> HIDE DEF r
  <2>2. [i \in DOMAIN queue |-> SubSeq(queue[i], Leaves(m, queue[i], i <= eager) + 1, Len(queue[i]))]
          = Rests(queue, r)
    BY <2>1, Zenon DEF Rests
  <2> QED BY <2>2, Zenon DEF Left
<1>5. \A x : x \in gone <=> \E i \in 1 .. N : \E a \in 1 .. r[i] : queue[i][a] = x
  <2>1. \A i \in DOMAIN queue : r[i] = Leaves(m, queue[i], i <= eager) BY <1>1
  <2> HIDE DEF r
  <2>2. \A x : x \in gone <=> \E i \in DOMAIN queue :
                x \in {queue[i][a] : a \in 1 .. Leaves(m, queue[i], i <= eager)}
    BY Zenon DEF Gone
  <2>3. \A x : x \in gone <=> \E i \in DOMAIN queue : x \in {queue[i][a] : a \in 1 .. r[i]} BY <2>1, <2>2, Zenon
  <2> QED BY <1>1, <2>3, Zenon
<1> HIDE DEF r, gone
<1>6. \A i, a, x : Is(queue, i, a, x) /\ a <= r[i] =>
        i \in 1 .. N /\ a \in 1 .. r[i] /\ queue[i][a] = x
  <2> SUFFICES ASSUME NEW i, NEW a, NEW x, Is(queue, i, a, x), a <= r[i]
               PROVE  i \in 1 .. N /\ a \in 1 .. r[i] /\ queue[i][a] = x
    OBVIOUS
  <2>1. i \in 1 .. N /\ queue[i][a] = x BY DEF Is
  <2>2. a \in Nat \ {0} BY IsTyped
  <2> QED BY <1>1, <1>2, <2>1, <2>2
<1>7. \A i \in 1 .. N : \A a \in 1 .. r[i] : Is(queue, i, a, queue[i][a]) /\ a <= r[i]
  <2> SUFFICES ASSUME NEW i \in 1 .. N, NEW a \in 1 .. r[i] PROVE Is(queue, i, a, queue[i][a]) /\ a <= r[i]
    OBVIOUS
  <2>1. a \in 1 .. Len(queue[i]) BY <1>1, <1>2
  <2> QED BY <1>1, <1>2, <2>1 DEF Is
<1>8. gone = HeadsOf(queue, r)
  <2>1. \A x : x \in gone => x \in Nat /\ \E i, a : Is(queue, i, a, x) /\ a <= r[i]
    BY <1>5, <1>7, IsTyped
  <2>2. \A x : (\E i, a : Is(queue, i, a, x) /\ a <= r[i]) => x \in gone BY <1>5, <1>6
  <2> QED BY <2>1, <2>2, Zenon DEF HeadsOf
<1>9. Thins(queue, Left(m, queue, eager), gone) BY <1>3, <1>4, <1>8, CutThins
<1>10. \A n \in gone : \E i, a : Is(queue, i, a, n) /\ a <= r[i] BY <1>8, Zenon DEF HeadsOf
<1>11. gone \subseteq Members(queue) BY <1>10, MembersAre
<1>12. ASSUME NEW n \in gone PROVE Goes(m, n)
  <2>1. PICK i \in 1 .. N : \E a \in 1 .. r[i] : queue[i][a] = n BY <1>5
  <2> QED BY <1>2, <2>1
<1>13. ASSUME NEW n \in gone, NEW k \in Members(queue) \ gone,
              \/ Together(queue, n, k) \/ (eager = N - 1 /\ \A x \in Members(queue) :
                                            Together(queue, k, x) => Goes(m, x))
       PROVE  Before(queue, n, k)
  <2>1. PICK i, a : Is(queue, i, a, n) /\ a <= r[i] BY <1>10
  <2>2. PICK j, b : Is(queue, j, b, k) BY MembersAre
  <2>3. i \in 1 .. N /\ j \in 1 .. N /\ a \in Nat /\ b \in Nat /\ a <= r[i] BY <2>1, <2>2, IsTyped DEF Is
  <2>4. ~(b <= r[j])
    <3>1. k \in Nat BY <2>2, IsTyped
    <3> QED BY <1>8, <2>2, <3>1, Zenon DEF HeadsOf
  <2>5. i < j \/ i = j
    <3>1. CASE Together(queue, n, k)
      <4>1. PICK i1, a1, b1 : Is(queue, i1, a1, n) /\ Is(queue, i1, b1, k) BY <3>1 DEF Together
      <4>2. i1 = i /\ i1 = j BY <2>1, <2>2, <4>1 DEF Once
      <4> QED BY <4>2
    <3>2. CASE eager = N - 1 /\ \A x \in Members(queue) : Together(queue, k, x) => Goes(m, x)
      <4>1. \A b1 \in 1 .. Len(queue[j]) : Goes(m, queue[j][b1])
        <5> SUFFICES ASSUME NEW b1 \in 1 .. Len(queue[j]) PROVE Goes(m, queue[j][b1]) OBVIOUS
        <5>1. Is(queue, j, b1, queue[j][b1]) BY <2>3 DEF Is
        <5> QED BY <2>2, <3>2, <5>1, MembersAre DEF Together
      <4>2. j <= eager => r[j] = Len(queue[j]) BY <1>2, <2>3, <4>1
      <4>3. b <= Len(queue[j])
        <5>1. b \in 1 .. Len(queue[j]) BY <2>2 DEF Is
        <5> QED BY <1>1, <2>3, <5>1
      <4>4. ~(j <= N - 1) BY <2>4, <3>2, <4>2, <4>3
      <4> QED BY <1>1, <2>3, <4>4
    <3> QED BY <1>13, <3>1, <3>2
  <2>6. r[i] \in Nat BY <1>1, <1>2, <2>3
  <2>7. i < j \/ (i = j /\ a < b) BY <2>3, <2>4, <2>5, <2>6
  <2> QED BY <2>1, <2>2, <2>7, BeforeIs DEF Precedes
<1> QED BY <1>9, <1>11, <1>12, <1>13 DEF gone, N

-----------------------------------------------------------------------------
(* What if_output does to a queue.                                         *)

\* One queue after the other.
LEMMA Joins ==
  ASSUME NEW p \in Lists, NEW q \in Lists, Once(p), Once(q), Members(p) \cap Members(q) = {}
  PROVE  /\ p \o q \in Lists /\ Once(p \o q) /\ Members(p \o q) = Members(p) \cup Members(q)
         /\ \A x, y : Together(p \o q, x, y) <=> Together(p, x, y) \/ Together(q, x, y)
         /\ \A x, y : Before(p \o q, x, y) <=> \/ Before(p, x, y) \/ Before(q, x, y)
                                               \/ (x \in Members(p) /\ y \in Members(q))
<1> DEFINE P == Len(p)
           Q == Len(q)
           all == p \o q
<1>1. /\ all \in Lists /\ P \in Nat /\ Q \in Nat /\ Len(all) = P + Q
      /\ \A i \in 1 .. P + Q : all[i] = IF i <= P THEN p[i] ELSE q[i - P]
  BY DEF Lists
<1> HIDE DEF P, Q, all
<1>2. \A i, a, x : Is(p, i, a, x) => Is(all, i, a, x) /\ i <= P
  <2> SUFFICES ASSUME NEW i, NEW a, NEW x, Is(p, i, a, x) PROVE Is(all, i, a, x) /\ i <= P OBVIOUS
  <2>1. i \in 1 .. P /\ a \in 1 .. Len(p[i]) /\ p[i][a] = x BY DEF Is, P
  <2>2. i \in 1 .. Len(all) /\ all[i] = p[i] /\ i <= P BY <1>1, <2>1
  <2> QED BY <2>1, <2>2, Zenon DEF Is
<1>3. \A i, a, x : Is(q, i, a, x) => Is(all, P + i, a, x) /\ i > 0
  <2> SUFFICES ASSUME NEW i, NEW a, NEW x, Is(q, i, a, x) PROVE Is(all, P + i, a, x) /\ i > 0 OBVIOUS
  <2>1. i \in 1 .. Q /\ a \in 1 .. Len(q[i]) /\ q[i][a] = x BY DEF Is, Q
  <2>2. P + i \in 1 .. Len(all) /\ all[P + i] = q[i] /\ i > 0
    <3>1. P + i \in 1 .. P + Q /\ ~(P + i <= P) /\ (P + i) - P = i /\ i > 0 BY <1>1, <2>1
    <3> QED BY <1>1, <3>1
  <2> QED BY <2>1, <2>2, Zenon DEF Is
<1>4. \A i, a, x : Is(all, i, a, x) =>
        Is(p, i, a, x) \/ \E j : i = P + j /\ Is(q, j, a, x)
  <2> SUFFICES ASSUME NEW i, NEW a, NEW x, Is(all, i, a, x), ~Is(p, i, a, x)
               PROVE  \E j : i = P + j /\ Is(q, j, a, x)
    OBVIOUS
  <2>1. i \in 1 .. P + Q /\ a \in 1 .. Len(all[i]) /\ all[i][a] = x BY <1>1 DEF Is
  <2>2. ~(i <= P)
    <3>1. SUFFICES ASSUME i <= P PROVE FALSE OBVIOUS
    <3>2. i \in 1 .. P /\ all[i] = p[i] BY <1>1, <2>1, <3>1
    <3> QED BY <2>1, <3>2, Zenon DEF Is, P
  <2>3. i - P \in 1 .. Q /\ i = P + (i - P) /\ all[i] = q[i - P] BY <1>1, <2>1, <2>2
  <2>4. Is(q, i - P, a, x) BY <2>1, <2>3, Zenon DEF Is, Q
  <2> QED BY <2>3, <2>4
<1>5. /\ \A i, a, x : Is(p, i, a, x) => i \in Nat /\ a \in Nat /\ x \in Members(p)
      /\ \A i, a, x : Is(q, i, a, x) => i \in Nat /\ a \in Nat /\ x \in Members(q)
  BY IsTyped, MembersAre
<1>6. Members(all) = Members(p) \cup Members(q)
  <2>1. \A x \in Members(all) : x \in Members(p) \cup Members(q) BY <1>1, <1>4, MembersAre
  <2>2. \A x \in Members(p) : x \in Members(all)  BY <1>1, <1>2, MembersAre
  <2>3. \A x \in Members(q) : x \in Members(all)  BY <1>1, <1>3, MembersAre
  <2> QED BY <2>1, <2>2, <2>3
<1>7. Once(all)
  <2> SUFFICES ASSUME NEW i, NEW j, NEW a, NEW b, NEW x, Is(all, i, a, x), Is(all, j, b, x)
               PROVE  i = j /\ a = b
    BY DEF Once
  <2>1. CASE Is(p, i, a, x) /\ Is(p, j, b, x) BY <2>1 DEF Once
  <2>2. CASE ~(Is(p, i, a, x) /\ Is(p, j, b, x))
    <3>1. x \notin Members(p) \/ x \notin Members(q) OBVIOUS
    <3>2. PICK k, l : i = P + k /\ Is(q, k, a, x) /\ j = P + l /\ Is(q, l, b, x)
      BY <1>4, <1>5, <2>2, <3>1
    <3> QED BY <3>2 DEF Once
  <2> QED BY <2>1, <2>2
<1>8. ASSUME NEW x, NEW y
      PROVE  Together(all, x, y) <=> Together(p, x, y) \/ Together(q, x, y)
  <2>1. ASSUME Together(all, x, y) PROVE Together(p, x, y) \/ Together(q, x, y)
    <3>1. PICK i, a, b : Is(all, i, a, x) /\ Is(all, i, b, y) BY <2>1 DEF Together
    <3>2. CASE i <= P
      <4>1. ~\E j : i = P + j /\ j \in Nat /\ j > 0 BY <1>1, <3>2
      <4>2. Is(p, i, a, x) /\ Is(p, i, b, y) BY <1>3, <1>4, <1>5, <3>1, <4>1
      <4> QED BY <4>2 DEF Together
    <3>3. CASE ~(i <= P)
      <4>1. PICK k : i = P + k /\ Is(q, k, a, x) BY <1>2, <1>4, <3>1, <3>3
      <4>2. PICK l : i = P + l /\ Is(q, l, b, y) BY <1>2, <1>4, <3>1, <3>3
      <4>3. k = l BY <1>1, <1>5, <4>1, <4>2
      <4> QED BY <4>1, <4>2, <4>3 DEF Together
    <3> QED BY <3>2, <3>3
  <2> QED BY <1>2, <1>3, <2>1 DEF Together
<1>9. ASSUME NEW x, NEW y
      PROVE  Before(all, x, y) <=> \/ Before(p, x, y) \/ Before(q, x, y)
                                   \/ (x \in Members(p) /\ y \in Members(q))
  <2>1. /\ Before(all, x, y) <=> \E i, j, a, b : Is(all, i, a, x) /\ Is(all, j, b, y) /\ (i < j \/ (i = j /\ a < b))
        /\ Before(p, x, y) <=> \E i, j, a, b : Is(p, i, a, x) /\ Is(p, j, b, y) /\ (i < j \/ (i = j /\ a < b))
        /\ Before(q, x, y) <=> \E i, j, a, b : Is(q, i, a, x) /\ Is(q, j, b, y) /\ (i < j \/ (i = j /\ a < b))
    BY <1>1, BeforeIs DEF Precedes
  <2>2. ASSUME Before(all, x, y)
        PROVE  \/ Before(p, x, y) \/ Before(q, x, y) \/ (x \in Members(p) /\ y \in Members(q))
    <3>1. PICK i, j, a, b : Is(all, i, a, x) /\ Is(all, j, b, y) /\ (i < j \/ (i = j /\ a < b))
      BY <2>1, <2>2
    <3>2. CASE Is(p, i, a, x) /\ Is(p, j, b, y) BY <2>1, <3>1, <3>2, Zenon
    <3>3. CASE Is(p, i, a, x) /\ ~Is(p, j, b, y) BY <1>4, <1>5, <3>1, <3>3
    <3>4. CASE ~Is(p, i, a, x)
      <4>1. PICK k : i = P + k /\ Is(q, k, a, x) BY <1>4, <3>1, <3>4
      <4>2. k \in Nat /\ k > 0 BY <1>3, <1>5, <4>1
      <4>3. ~Is(p, j, b, y)
        <5>1. SUFFICES ASSUME Is(p, j, b, y) PROVE FALSE OBVIOUS
        <5>2. j <= P /\ j \in Nat BY <1>2, <1>5, <5>1
        <5> QED BY <1>1, <3>1, <4>1, <4>2, <5>2
      <4>4. PICK l : j = P + l /\ Is(q, l, b, y) BY <1>4, <3>1, <4>3
      <4>5. l \in Nat BY <1>5, <4>4
      <4>6. k < l \/ (k = l /\ a < b) BY <1>1, <3>1, <4>1, <4>2, <4>4, <4>5
      <4> QED BY <2>1, <4>1, <4>4, <4>6, Zenon
    <3> QED BY <3>2, <3>3, <3>4
  <2>3. ASSUME Before(p, x, y) PROVE Before(all, x, y) BY <1>2, <2>1, <2>3
  <2>4. ASSUME Before(q, x, y) PROVE Before(all, x, y)
    <3>1. PICK i, j, a, b : Is(q, i, a, x) /\ Is(q, j, b, y) /\ (i < j \/ (i = j /\ a < b)) BY <2>1, <2>4
    <3>2. Is(all, P + i, a, x) /\ Is(all, P + j, b, y) BY <1>3, <3>1
    <3>3. P + i < P + j \/ (P + i = P + j /\ a < b) BY <1>1, <1>5, <3>1
    <3> QED BY <2>1, <3>2, <3>3
  <2>5. ASSUME x \in Members(p), y \in Members(q) PROVE Before(all, x, y)
    <3>1. PICK i, a : Is(p, i, a, x) BY <2>5, MembersAre
    <3>2. PICK j, b : Is(q, j, b, y) BY <2>5, MembersAre
    <3>3. Is(all, i, a, x) /\ i <= P /\ i \in Nat /\ Is(all, P + j, b, y) /\ j > 0 /\ j \in Nat
      BY <1>2, <1>3, <1>5, <3>1, <3>2
    <3>4. i < P + j BY <1>1, <3>3
    <3> QED BY <2>1, <3>3, <3>4
  <2> QED BY <2>2, <2>3, <2>4, <2>5
<1> QED BY <1>1, <1>6, <1>7, <1>8, <1>9, Zenon DEF all

\* A queue of one session.
LEMMA Single ==
  ASSUME NEW s \in Seq(Nat), s # <<>>, \A a, b \in 1 .. Len(s) : s[a] = s[b] => a = b
  PROVE  /\ <<s>> \in Lists /\ Once(<<s>>) /\ Members(<<s>>) = ToSet(s)
         /\ \A x, y : Together(<<s>>, x, y) <=> x \in ToSet(s) /\ y \in ToSet(s)
         /\ \A x, y : Before(<<s>>, x, y) <=>
                        \E a, b \in 1 .. Len(s) : s[a] = x /\ s[b] = y /\ a < b
<1> DEFINE q == <<s>>
<1>1. q \in Lists /\ Len(q) = 1 /\ q[1] = s BY DEF Lists
<1> HIDE DEF q
<1>2. \A x : x \in ToSet(s) <=> \E a \in 1 .. Len(s) : s[a] = x
  <2>1. DOMAIN s = 1 .. Len(s) OBVIOUS
  <2> QED BY <2>1, Zenon DEF ToSet
<1>3. \A i, a, x : Is(q, i, a, x) <=> i = 1 /\ a \in 1 .. Len(s) /\ s[a] = x
  <2>1. Len(q) = 1 /\ q[1] = s /\ \A i : i \in 1 .. 1 <=> i = 1 BY <1>1
  <2> QED BY <2>1, Zenon DEF Is
<1>4. Once(q)
  <2> SUFFICES ASSUME NEW i, NEW j, NEW a, NEW b, NEW x, Is(q, i, a, x), Is(q, j, b, x)
               PROVE  i = j /\ a = b
    BY DEF Once
  <2>1. i = 1 /\ a \in 1 .. Len(s) /\ s[a] = x /\ j = 1 /\ b \in 1 .. Len(s) /\ s[b] = x
    BY <1>3, Zenon
  <2> QED BY <2>1
<1>5. Members(q) = ToSet(s)
  <2>1. \A x : x \in Members(q) <=> \E i, a : Is(q, i, a, x) BY <1>1, MembersAre
  <2>2. \A x : (\E i, a : Is(q, i, a, x)) <=> \E a \in 1 .. Len(s) : s[a] = x BY <1>3, Zenon
  <2> QED BY <1>2, <2>1, <2>2
<1>6. ASSUME NEW x, NEW y PROVE Together(q, x, y) <=> x \in ToSet(s) /\ y \in ToSet(s)
  <2>1. ASSUME Together(q, x, y) PROVE x \in ToSet(s) /\ y \in ToSet(s)
    <3>1. PICK i, a, b : Is(q, i, a, x) /\ Is(q, i, b, y) BY <2>1 DEF Together
    <3>2. a \in 1 .. Len(s) /\ s[a] = x /\ b \in 1 .. Len(s) /\ s[b] = y BY <1>3, <3>1, Zenon
    <3> QED BY <1>2, <3>2
  <2>2. ASSUME x \in ToSet(s), y \in ToSet(s) PROVE Together(q, x, y)
    <3>1. PICK a \in 1 .. Len(s), b \in 1 .. Len(s) : s[a] = x /\ s[b] = y BY <1>2, <2>2
    <3>2. Is(q, 1, a, x) /\ Is(q, 1, b, y) BY <1>3, <3>1
    <3> QED BY <3>2, Zenon DEF Together
  <2> QED BY <2>1, <2>2
<1>7. ASSUME NEW x, NEW y
      PROVE  Before(q, x, y) <=> \E a, b \in 1 .. Len(s) : s[a] = x /\ s[b] = y /\ a < b
  <2>1. q \in Lists BY <1>1
  <2>2. ASSUME Before(q, x, y) PROVE \E a, b \in 1 .. Len(s) : s[a] = x /\ s[b] = y /\ a < b
    <3>1. PICK i, j, a, b : Is(q, i, a, x) /\ Is(q, j, b, y) /\ (i < j \/ (i = j /\ a < b))
      <4>1. Precedes(q, x, y) BY <2>1, <2>2, BeforeIs
      <4> QED BY <4>1 DEF Precedes
    <3>2. i = 1 /\ j = 1 /\ a \in 1 .. Len(s) /\ s[a] = x /\ b \in 1 .. Len(s) /\ s[b] = y
      BY <1>3, <3>1, Zenon
    <3> QED BY <3>1, <3>2
  <2>3. ASSUME NEW a \in 1 .. Len(s), NEW b \in 1 .. Len(s), s[a] = x, s[b] = y, a < b
        PROVE  Before(q, x, y)
    <3>1. Is(q, 1, a, x) /\ Is(q, 1, b, y) BY <1>3, <2>3
    <3> QED BY <2>1, <2>3, <3>1, BeforeIs DEF Precedes
  <2> QED BY <2>2, <2>3
<1> QED BY <1>1, <1>4, <1>5, <1>6, <1>7, Zenon DEF q

\* n ends its session, if it is in the queue
Ends(queue, n) == \A i, a : Is(queue, i, a, n) => a = Len(queue[i])
\* n joins session i.
Joined(queue, i, n) == [queue EXCEPT ![i] = Append(@, n)]
LEMMA Joining ==
  ASSUME NEW queue \in Lists, Once(queue), NEW i \in 1 .. Len(queue), NEW n \in Nat,
         n \notin Members(queue)
  PROVE  LET new == Joined(queue, i, n)
             head == queue[i][1]
         IN  /\ new \in Lists /\ Once(new) /\ Members(new) = Members(queue) \cup {n}
             /\ head \in Members(queue)
             /\ \A x, y : Together(new, x, y) <=> \/ Together(queue, x, y)
                                                  \/ (x = n /\ y = n)
                                                  \/ (x = n /\ Together(queue, head, y))
                                                  \/ (y = n /\ Together(queue, head, x))
             /\ \A x, y : Before(new, x, y) =>
                  \/ Before(queue, x, y)
                  \/ (x \in Members(queue) /\ y = n)
                  \/ (x = n /\ y \in Members(queue) /\ ~Together(queue, head, y) /\ i < Len(queue))
             /\ Ends(new, n)
<1> DEFINE new == Joined(queue, i, n)
           s == queue[i]
           t == Append(s, n)
           l == Len(s)
           head == s[1]
<1>1. /\ Len(queue) \in Nat /\ s \in Seq(Nat) /\ s # <<>> /\ l \in Nat /\ l > 0
      /\ queue \in Seq(Seq(Nat) \ {<<>>}) /\ DOMAIN queue = 1 .. Len(queue)
  BY Places DEF Lists
<1> HIDE DEF s, l
<1>2. t \in Seq(Nat) \ {<<>>} /\ Len(t) = l + 1 /\ t[l + 1] = n /\ \A a \in 1 .. l : t[a] = s[a]
  <2>1. t \in Seq(Nat) /\ Len(t) = Len(s) + 1 /\ t[Len(s) + 1] = n /\ \A a \in 1 .. Len(s) : t[a] = s[a]
    BY <1>1
  <2>2. t # <<>>
    <3>1. Len(t) > 0 BY <1>1, <2>1 DEF l
    <3> QED BY <3>1
  <2> QED BY <2>1, <2>2 DEF l
<1>3. /\ new \in Lists /\ Len(new) = Len(queue) /\ new[i] = t
      /\ \A j \in 1 .. Len(queue) : j # i => new[j] = queue[j]
  <2>1. new = [queue EXCEPT ![i] = t] BY <1>1 DEF Joined, s
  <2> HIDE DEF new, t
  <2> QED BY <1>1, <1>2, <2>1 DEF Lists
<1> HIDE DEF new, t, head
<1>4. \A j, a, x : Is(queue, j, a, x) =>
        Is(new, j, a, x) /\ j \in Nat /\ a \in Nat \ {0} /\ (j = i => a <= l) /\ x \in Members(queue) /\ x # n
  <2> SUFFICES ASSUME NEW j, NEW a, NEW x, Is(queue, j, a, x)
               PROVE  Is(new, j, a, x) /\ j \in Nat /\ a \in Nat \ {0} /\ (j = i => a <= l) /\ x \in Members(queue) /\ x # n
    OBVIOUS
  <2>1. j \in 1 .. Len(queue) /\ a \in 1 .. Len(queue[j]) /\ queue[j][a] = x BY DEF Is
  <2>2. x \in Members(queue) /\ x # n /\ j \in Nat /\ a \in Nat \ {0} BY IsTyped, MembersAre
  <2>3. CASE j # i
    <3>1. new[j] = queue[j] BY <1>3, <2>1, <2>3
    <3>2. Is(new, j, a, x) BY <1>3, <2>1, <3>1, Zenon DEF Is
    <3> QED BY <2>2, <2>3, <3>2
  <2>4. CASE j = i
    <3>1. a \in 1 .. l /\ s[a] = x BY <2>1, <2>4 DEF s, l
    <3>2. a \in 1 .. l + 1 /\ t[a] = x /\ a <= l BY <1>1, <1>2, <3>1
    <3>3. Is(new, j, a, x) BY <1>2, <1>3, <2>1, <2>4, <3>2, Zenon DEF Is
    <3> QED BY <2>2, <3>2, <3>3
  <2> QED BY <2>3, <2>4
<1>5. Is(new, i, l + 1, n)
  <2>1. l + 1 \in 1 .. Len(t) BY <1>1, <1>2
  <2>2. i \in 1 .. Len(new) BY <1>3
  <2> QED BY <1>2, <1>3, <2>1, <2>2, Zenon DEF Is
<1>6. \A j, a, x : Is(new, j, a, x) => Is(queue, j, a, x) \/ (j = i /\ a = l + 1 /\ x = n)
  <2> SUFFICES ASSUME NEW j, NEW a, NEW x, Is(new, j, a, x)
               PROVE  Is(queue, j, a, x) \/ (j = i /\ a = l + 1 /\ x = n)
    OBVIOUS
  <2>1. j \in 1 .. Len(queue) /\ a \in 1 .. Len(new[j]) /\ new[j][a] = x BY <1>3, Zenon DEF Is
  <2>2. CASE j # i
    <3>1. new[j] = queue[j] BY <1>3, <2>1, <2>2
    <3> QED BY <2>1, <3>1, Zenon DEF Is
  <2>3. CASE j = i
    <3>1. a \in 1 .. l + 1 /\ t[a] = x BY <1>2, <1>3, <2>1, <2>3
    <3>2. CASE a = l + 1 BY <1>2, <2>3, <3>1, <3>2
    <3>3. CASE a # l + 1
      <4>1. a \in 1 .. l /\ s[a] = x BY <1>1, <1>2, <3>1, <3>3
      <4> QED BY <2>1, <2>3, <4>1, Zenon DEF Is, s, l
    <3> QED BY <3>2, <3>3
  <2> QED BY <2>2, <2>3
<1>7. Is(queue, i, 1, head)
  <2>1. 1 \in 1 .. l BY <1>1
  <2> QED BY <2>1, Zenon DEF Is, head, s, l
<1>8. i \in Nat OBVIOUS
<1>9. Once(new)
  <2> SUFFICES ASSUME NEW j, NEW k, NEW a, NEW b, NEW x, Is(new, j, a, x), Is(new, k, b, x)
               PROVE  j = k /\ a = b
    BY DEF Once
  <2>1. CASE x = n BY <1>4, <1>6, <2>1
  <2>2. CASE x # n
    <3>1. Is(queue, j, a, x) /\ Is(queue, k, b, x) BY <1>6, <2>2
    <3> QED BY <3>1, Zenon DEF Once
  <2> QED BY <2>1, <2>2
<1>10. Members(new) = Members(queue) \cup {n}
  <2>1. \A x \in Members(new) : x \in Members(queue) \cup {n} BY <1>3, <1>4, <1>6, MembersAre
  <2>2. \A x \in Members(queue) : x \in Members(new) BY <1>3, <1>4, MembersAre
  <2>3. n \in Members(new) BY <1>3, <1>5, MembersAre
  <2> QED BY <2>1, <2>2, <2>3
<1>11. ASSUME NEW x, NEW y
       PROVE  Together(new, x, y) <=> \/ Together(queue, x, y)
                                      \/ (x = n /\ y = n)
                                      \/ (x = n /\ Together(queue, head, y))
                                      \/ (y = n /\ Together(queue, head, x))
  <2>1. ASSUME Together(new, x, y)
        PROVE  \/ Together(queue, x, y)
               \/ (x = n /\ y = n)
               \/ (x = n /\ Together(queue, head, y))
               \/ (y = n /\ Together(queue, head, x))
    <3>1. PICK j, a, b : Is(new, j, a, x) /\ Is(new, j, b, y) BY <2>1 DEF Together
    <3>2. CASE Is(queue, j, a, x) /\ Is(queue, j, b, y) BY <3>2, Zenon DEF Together
    <3>3. CASE Is(queue, j, a, x) /\ ~Is(queue, j, b, y)
      <4>1. j = i /\ y = n BY <1>6, <3>1, <3>3
      <4> QED BY <1>7, <3>3, <4>1, Zenon DEF Together
    <3>4. CASE ~Is(queue, j, a, x) /\ Is(queue, j, b, y)
      <4>1. j = i /\ x = n BY <1>6, <3>1, <3>4
      <4> QED BY <1>7, <3>4, <4>1, Zenon DEF Together
    <3>5. CASE ~Is(queue, j, a, x) /\ ~Is(queue, j, b, y) BY <1>6, <3>1, <3>5
    <3> QED BY <3>2, <3>3, <3>4, <3>5
  <2>2. ASSUME Together(queue, x, y) PROVE Together(new, x, y)
    <3>1. PICK j, a, b : Is(queue, j, a, x) /\ Is(queue, j, b, y) BY <2>2 DEF Together
    <3> QED BY <1>4, <3>1, Zenon DEF Together
  <2>3. ASSUME NEW z, Together(queue, head, z) PROVE Together(new, n, z) /\ Together(new, z, n)
    <3>1. PICK j, a, b : Is(queue, j, a, head) /\ Is(queue, j, b, z) BY <2>3 DEF Together
    <3>2. j = i BY <1>7, <3>1, Zenon DEF Once
    <3>3. Is(new, i, b, z) BY <1>4, <3>1, <3>2
    <3> QED BY <1>5, <3>3, Zenon DEF Together
  <2>4. Together(new, n, n) BY <1>5, Zenon DEF Together
  <2> QED BY <2>1, <2>2, <2>3, <2>4
<1>12. ASSUME NEW x, NEW y, Before(new, x, y)
       PROVE  \/ Before(queue, x, y)
              \/ (x \in Members(queue) /\ y = n)
              \/ (x = n /\ y \in Members(queue) /\ ~Together(queue, head, y) /\ i < Len(queue))
  <2>1. PICK j, k, a, b : Is(new, j, a, x) /\ Is(new, k, b, y) /\ (j < k \/ (j = k /\ a < b))
    <3>1. new \in Lists BY <1>3
    <3>2. \E j, k, a, b : Is(new, j, a, x) /\ Is(new, k, b, y) /\ (j < k \/ (j = k /\ a < b))
      BY <1>12, <3>1, BeforeIs, Zenon DEF Precedes
    <3> QED BY <3>2
  <2>2. CASE Is(queue, j, a, x) /\ Is(queue, k, b, y) BY <2>1, <2>2, BeforeIs DEF Precedes
  <2>3. CASE Is(queue, j, a, x) /\ ~Is(queue, k, b, y) BY <1>4, <1>6, <2>1, <2>3
  <2>4. CASE ~Is(queue, j, a, x) /\ Is(queue, k, b, y)
    <3>1. j = i /\ a = l + 1 /\ x = n BY <1>6, <2>1, <2>4
    <3>2. y \in Members(queue) /\ k \in Nat /\ b \in Nat /\ (k = i => b <= l) BY <1>4, <2>4
    <3>3. k # i BY <1>1, <1>8, <2>1, <3>1, <3>2
    <3>4. ~Together(queue, head, y)
      <4>1. SUFFICES ASSUME Together(queue, head, y) PROVE FALSE OBVIOUS
      <4>2. PICK j1, a1, b1 : Is(queue, j1, a1, head) /\ Is(queue, j1, b1, y) BY <4>1 DEF Together
      <4>3. j1 = i /\ j1 = k BY <1>7, <2>4, <4>2, Zenon DEF Once
      <4> QED BY <3>3, <4>3
    <3>5. i < Len(queue)
      <4>1. k \in 1 .. Len(queue) BY <2>4, Zenon DEF Is
      <4>2. i < k BY <1>8, <2>1, <3>1, <3>2, <3>3
      <4> QED BY <1>1, <1>8, <3>2, <4>1, <4>2
    <3> QED BY <3>1, <3>2, <3>4, <3>5
  <2>5. CASE ~Is(queue, j, a, x) /\ ~Is(queue, k, b, y)
    <3>1. j = i /\ a = l + 1 /\ k = i /\ b = l + 1 BY <1>6, <2>1, <2>5
    <3> QED BY <1>1, <1>8, <2>1, <3>1
  <2> QED BY <2>2, <2>3, <2>4, <2>5
<1>13. Ends(new, n)
  <2> SUFFICES ASSUME NEW j, NEW a, Is(new, j, a, n) PROVE a = Len(new[j]) BY DEF Ends
  <2>1. j = i /\ a = l + 1 BY <1>4, <1>6
  <2> QED BY <1>2, <1>3, <2>1
<1>14. head \in Members(queue) BY <1>4, <1>7
<1> QED BY <1>3, <1>9, <1>10, <1>11, <1>12, <1>13, <1>14, Zenon DEF new, s, l, head

\* n starts a session.
LEMMA Starting ==
  ASSUME NEW queue \in Lists, Once(queue), NEW n \in Nat, n \notin Members(queue)
  PROVE  LET new == Append(queue, <<n>>)
         IN  /\ new \in Lists /\ Once(new) /\ Members(new) = Members(queue) \cup {n}
             /\ \A x, y : Together(new, x, y) <=> Together(queue, x, y) \/ (x = n /\ y = n)
             /\ \A x, y : Before(new, x, y) => Before(queue, x, y) \/ (x \in Members(queue) /\ y = n)
             /\ Ends(new, n)
<1> DEFINE s == <<n>>
           new == Append(queue, s)
           one == <<s>>
<1>1. s \in Seq(Nat) /\ s # <<>> /\ Len(s) = 1 /\ s[1] = n OBVIOUS
<1>2. ToSet(s) = {n} BY DEF ToSet
<1> HIDE DEF s
<1>3. \A a, b \in 1 .. Len(s) : s[a] = s[b] => a = b BY <1>1
<1>4. /\ one \in Lists /\ Once(one) /\ Members(one) = {n}
      /\ \A x, y : Together(one, x, y) <=> x = n /\ y = n
      /\ \A x, y : ~Before(one, x, y)
  <2>1. /\ one \in Lists /\ Once(one) /\ Members(one) = ToSet(s)
        /\ \A x, y : Together(one, x, y) <=> x \in ToSet(s) /\ y \in ToSet(s)
        /\ \A x, y : Before(one, x, y) <=> \E a, b \in 1 .. Len(s) : s[a] = x /\ s[b] = y /\ a < b
    BY <1>1, <1>3, Single
  <2>2. ~\E a, b \in 1 .. Len(s) : a < b BY <1>1
  <2> HIDE DEF one
  <2> QED BY <1>2, <2>1, <2>2
<1>5. new = queue \o one BY <1>1 DEF Lists
<1> HIDE DEF one
<1>6. Members(queue) \cap Members(one) = {} BY <1>4
<1>7. /\ new \in Lists /\ Once(new) /\ Members(new) = Members(queue) \cup Members(one)
      /\ \A x, y : Together(new, x, y) <=> Together(queue, x, y) \/ Together(one, x, y)
      /\ \A x, y : Before(new, x, y) <=> \/ Before(queue, x, y) \/ Before(one, x, y)
                                         \/ (x \in Members(queue) /\ y \in Members(one))
  <2> HIDE DEF new
  <2> QED BY <1>4, <1>5, <1>6, Joins
<1>8. /\ Len(queue) \in Nat /\ Len(new) = Len(queue) + 1 /\ new[Len(queue) + 1] = s
      /\ \A i \in 1 .. Len(queue) : new[i] = queue[i]
  BY <1>1 DEF Lists
<1> HIDE DEF new
<1>9. Ends(new, n)
  <2> SUFFICES ASSUME NEW i, NEW a, Is(new, i, a, n) PROVE a = Len(new[i]) BY DEF Ends
  <2>1. i \in 1 .. Len(queue) + 1 /\ a \in 1 .. Len(new[i]) /\ new[i][a] = n BY <1>8, Zenon DEF Is
  <2>2. CASE i \in 1 .. Len(queue)
    <3>1. new[i] = queue[i] BY <1>8, <2>2
    <3>2. Is(queue, i, a, n) BY <2>1, <2>2, <3>1, Zenon DEF Is
    <3> QED BY <3>2, MembersAre
  <2>3. CASE i \notin 1 .. Len(queue)
    <3>1. i = Len(queue) + 1 BY <1>8, <2>1, <2>3
    <3>2. new[i] = s BY <1>8, <3>1
    <3>3. a \in 1 .. Len(s) BY <2>1, <3>2
    <3> QED BY <1>1, <3>2, <3>3
  <2> QED BY <2>2, <2>3
<1> QED BY <1>4, <1>7, <1>9, Zenon DEF new, s

LEMMA WithoutThins ==
  ASSUME NEW queue \in Lists, Once(queue), NEW n, Ends(queue, n)
  PROVE  Thins(queue, Without(queue, n), {x \in Nat : Together(queue, x, n)})
<1> DEFINE r == [i \in 1 .. Len(queue) |-> IF Last(queue[i]) = n THEN Len(queue[i]) ELSE 0]
           M == {x \in Nat : Together(queue, x, n)}
<1>1. /\ Len(queue) \in Nat /\ DOMAIN queue = 1 .. Len(queue)
      /\ \A i \in 1 .. Len(queue) : queue[i] \in Seq(Nat) /\ Len(queue[i]) \in Nat /\ Len(queue[i]) > 0
  BY Places
<1>2. r \in Heads(queue)
  <2>1. \A i \in 1 .. Len(queue) : r[i] \in Nat /\ r[i] <= Len(queue[i]) BY <1>1
  <2> QED BY <2>1 DEF Heads
<1>3. Without(queue, n) = Sessions(Rests(queue, r))
  <2>1. \A i \in DOMAIN queue :
          (IF Last(queue[i]) = n THEN <<>> ELSE queue[i]) = SubSeq(queue[i], r[i] + 1, Len(queue[i]))
    <3> SUFFICES ASSUME NEW i \in 1 .. Len(queue)
                 PROVE  (IF Last(queue[i]) = n THEN <<>> ELSE queue[i])
                          = SubSeq(queue[i], r[i] + 1, Len(queue[i]))
      BY <1>1
    <3> DEFINE s == queue[i]
    <3>1. s \in Seq(Nat) /\ Len(s) \in Nat /\ r[i] = IF Last(s) = n THEN Len(s) ELSE 0 BY <1>1
    <3> HIDE DEF s, r
    <3>2. SubSeq(s, Len(s) + 1, Len(s)) = <<>> BY <3>1, SubSeqEmpty
    <3>3. SubSeq(s, 0 + 1, Len(s)) = s BY <3>1, SubSeqFull
    <3> QED BY <3>1, <3>2, <3>3 DEF s
  <2> HIDE DEF r
  <2>2. [i \in DOMAIN queue |-> IF Last(queue[i]) = n THEN <<>> ELSE queue[i]] = Rests(queue, r)
    BY <2>1, Zenon DEF Rests
  <2> QED BY <2>2, Zenon DEF Without
<1>4. \A i, a, x : Is(queue, i, a, x) =>
        /\ i \in 1 .. Len(queue) /\ a \in Nat \ {0} /\ x \in Nat /\ a <= Len(queue[i])
        /\ r[i] = IF Last(queue[i]) = n THEN Len(queue[i]) ELSE 0
  <2> SUFFICES ASSUME NEW i, NEW a, NEW x, Is(queue, i, a, x)
               PROVE  /\ i \in 1 .. Len(queue) /\ a \in Nat \ {0} /\ x \in Nat /\ a <= Len(queue[i])
                      /\ r[i] = IF Last(queue[i]) = n THEN Len(queue[i]) ELSE 0
    OBVIOUS
  <2>1. i \in 1 .. Len(queue) /\ a \in 1 .. Len(queue[i]) BY DEF Is
  <2>2. a \in Nat \ {0} /\ x \in Nat BY IsTyped
  <2> QED BY <1>1, <2>1, <2>2
<1>5. \A i \in 1 .. Len(queue) : Last(queue[i]) = n => Is(queue, i, Len(queue[i]), n)
  <2> SUFFICES ASSUME NEW i \in 1 .. Len(queue), Last(queue[i]) = n PROVE Is(queue, i, Len(queue[i]), n)
    OBVIOUS
  <2>1. Len(queue[i]) \in 1 .. Len(queue[i]) BY <1>1
  <2>2. queue[i][Len(queue[i])] = n BY Zenon DEF Last
  <2> QED BY <2>1, <2>2, Zenon DEF Is
<1> HIDE DEF r
<1>6. HeadsOf(queue, r) = M
  <2>1. ASSUME NEW x \in HeadsOf(queue, r) PROVE x \in M
    <3>1. x \in Nat /\ \E i, a : Is(queue, i, a, x) /\ a <= r[i] BY Zenon DEF HeadsOf
    <3>2. PICK i, a : Is(queue, i, a, x) /\ a <= r[i] BY <3>1
    <3>3. Last(queue[i]) = n BY <1>4, <3>2
    <3>4. Is(queue, i, Len(queue[i]), n) BY <1>4, <1>5, <3>2, <3>3
    <3> QED BY <3>1, <3>2, <3>4, Zenon DEF Together
  <2>2. ASSUME NEW x \in M PROVE x \in HeadsOf(queue, r)
    <3>1. PICK i, a, b : Is(queue, i, a, x) /\ Is(queue, i, b, n) BY DEF Together
    <3>2. b = Len(queue[i]) /\ queue[i][b] = n BY <3>1, Zenon DEF Ends, Is
    <3>3. Last(queue[i]) = n BY <3>2, Zenon DEF Last
    <3>4. a <= r[i] /\ x \in Nat BY <1>4, <3>1, <3>3
    <3> QED BY <3>1, <3>4, Zenon DEF HeadsOf
  <2> QED BY <2>1, <2>2
<1> QED BY <1>2, <1>3, <1>6, CutThins

\* A session that n ends.
LEMMA SessionOf ==
  ASSUME NEW queue \in Lists, Once(queue), NEW n
  PROVE  /\ n \in Members(queue) /\ Ends(queue, n) => \E s \in ToSet(queue) : Last(s) = n
         /\ \A s \in ToSet(queue) : Last(s) = n =>
              /\ s \in Seq(Nat) /\ s # <<>> /\ \A a, b \in 1 .. Len(s) : s[a] = s[b] => a = b
              /\ \A x : x \in ToSet(s) <=> Together(queue, x, n)
              /\ \A a, b \in 1 .. Len(s) : a < b => Before(queue, s[a], s[b])
              /\ n \in Members(queue)
<1>1. /\ Len(queue) \in Nat /\ DOMAIN queue = 1 .. Len(queue)
      /\ \A i \in 1 .. Len(queue) : /\ queue[i] \in Seq(Nat) /\ queue[i] # <<>>
                                    /\ Len(queue[i]) \in Nat /\ Len(queue[i]) > 0
                                    /\ DOMAIN queue[i] = 1 .. Len(queue[i])
  BY Places
<1>2. ASSUME n \in Members(queue), Ends(queue, n) PROVE \E s \in ToSet(queue) : Last(s) = n
  <2>1. PICK i, a : Is(queue, i, a, n) BY <1>2, MembersAre
  <2>2. i \in 1 .. Len(queue) /\ a = Len(queue[i]) /\ queue[i][a] = n BY <1>2, <2>1, Zenon DEF Is, Ends
  <2>3. Last(queue[i]) = n BY <2>2, Zenon DEF Last
  <2>4. queue[i] \in ToSet(queue) BY <1>1, <2>2, Zenon DEF ToSet
  <2> QED BY <2>3, <2>4
<1>3. ASSUME NEW s \in ToSet(queue), Last(s) = n
      PROVE  /\ s \in Seq(Nat) /\ s # <<>> /\ \A a, b \in 1 .. Len(s) : s[a] = s[b] => a = b
             /\ \A x : x \in ToSet(s) <=> Together(queue, x, n)
             /\ \A a, b \in 1 .. Len(s) : a < b => Before(queue, s[a], s[b])
             /\ n \in Members(queue)
  <2>1. PICK i \in 1 .. Len(queue) : s = queue[i] BY <1>1 DEF ToSet
  <2>2. s \in Seq(Nat) /\ s # <<>> /\ Len(s) \in Nat /\ Len(s) > 0 /\ DOMAIN s = 1 .. Len(s) BY <1>1, <2>1
  <2>3. \A a, x : Is(queue, i, a, x) <=> a \in 1 .. Len(s) /\ s[a] = x BY <2>1, Zenon DEF Is
  <2>4. Is(queue, i, Len(s), n)
    <3>1. Len(s) \in 1 .. Len(s) BY <2>2
    <3>2. s[Len(s)] = n BY <1>3, Zenon DEF Last
    <3> QED BY <2>3, <3>1, <3>2
  <2>5. ASSUME NEW a \in 1 .. Len(s), NEW b \in 1 .. Len(s), s[a] = s[b] PROVE a = b
    <3>1. Is(queue, i, a, s[a]) /\ Is(queue, i, b, s[a]) BY <2>3, <2>5
    <3> QED BY <3>1, Zenon DEF Once
  <2>6. ASSUME NEW x PROVE x \in ToSet(s) <=> Together(queue, x, n)
    <3>1. x \in ToSet(s) <=> \E a \in 1 .. Len(s) : s[a] = x BY <2>2, Zenon DEF ToSet
    <3>2. ASSUME NEW a \in 1 .. Len(s), s[a] = x PROVE Together(queue, x, n)
      <4>1. Is(queue, i, a, x) BY <2>3, <3>2
      <4> QED BY <2>4, <4>1, Zenon DEF Together
    <3>3. ASSUME Together(queue, x, n) PROVE \E a \in 1 .. Len(s) : s[a] = x
      <4>1. PICK j, a, b : Is(queue, j, a, x) /\ Is(queue, j, b, n) BY <3>3 DEF Together
      <4>2. j = i BY <2>4, <4>1, Zenon DEF Once
      <4> QED BY <2>3, <4>1, <4>2
    <3> QED BY <3>1, <3>2, <3>3
  <2>7. ASSUME NEW a \in 1 .. Len(s), NEW b \in 1 .. Len(s), a < b PROVE Before(queue, s[a], s[b])
    <3>1. Is(queue, i, a, s[a]) /\ Is(queue, i, b, s[b]) BY <2>3
    <3>2. Precedes(queue, s[a], s[b]) BY <2>7, <3>1, Zenon DEF Precedes
    <3> QED BY <3>2, BeforeIs
  <2>8. n \in Members(queue) BY <2>4, MembersAre
  <2> QED BY <2>2, <2>5, <2>6, <2>7, <2>8
<1> QED BY <1>2, <1>3

LEMMA Downgrades ==
  ASSUME NEW p \in Lists, NEW q \in Lists, Once(p), Once(q), Members(p) \cap Members(q) = {},
         NEW n \in Members(p) \cup Members(q), Ends(p, n), Ends(q, n)
  PROVE  LET d == Downgrade(<<p, q>>, n)
             M == {x \in Nat : Together(p, x, n) \/ Together(q, x, n)}
         IN  /\ d[1] \in Lists /\ d[2] \in Lists /\ Once(d[1]) /\ Once(d[2])
             /\ M \subseteq Members(p) \cup Members(q)
             /\ Members(d[1]) = Members(p) \ M /\ Members(d[2]) = Members(q) \cup M
             /\ \A x, y : Together(d[1], x, y) \/ Together(d[2], x, y) <=>
                            Together(p, x, y) \/ Together(q, x, y)
             /\ \A x, y : Before(d[1], x, y) => Before(p, x, y)
             /\ \A x, y : Before(d[2], x, y) =>
                            Before(p, x, y) \/ Before(q, x, y) \/ (x \in M /\ y \notin M)
<1> DEFINE d == Downgrade(<<p, q>>, n)
           MP == {x \in Nat : Together(p, x, n)}
           MQ == {x \in Nat : Together(q, x, n)}
           M == {x \in Nat : Together(p, x, n) \/ Together(q, x, n)}
           s == CHOOSE t \in ToSet(p \o q) : Last(t) = n
           p1 == Without(p, n)
           q1 == Without(q, n)
<1>1. d = <<p1, <<s>> \o q1>>
  BY Zenon DEF Downgrade
<1>2. Thins(p, p1, MP) /\ Thins(q, q1, MQ) BY WithoutThins
<1>3. M = MP \cup MQ OBVIOUS
<1>4. ToSet(p \o q) = ToSet(p) \cup ToSet(q)
  <2> DEFINE P == Len(p)
             Q == Len(q)
             all == p \o q
  <2>1. /\ P \in Nat /\ Q \in Nat /\ DOMAIN all = 1 .. P + Q /\ DOMAIN p = 1 .. P /\ DOMAIN q = 1 .. Q
        /\ \A i \in 1 .. P + Q : all[i] = IF i <= P THEN p[i] ELSE q[i - P]
    BY DEF Lists
  <2> HIDE DEF P, Q, all
  <2>2. \A t \in ToSet(all) : t \in ToSet(p) \cup ToSet(q)
    <3> SUFFICES ASSUME NEW i \in 1 .. P + Q PROVE all[i] \in ToSet(p) \cup ToSet(q) BY <2>1 DEF ToSet
    <3>1. CASE i <= P BY <2>1, <3>1 DEF ToSet
    <3>2. CASE ~(i <= P)
      <4>1. i - P \in 1 .. Q BY <2>1, <3>2
      <4> QED BY <2>1, <3>2, <4>1 DEF ToSet
    <3> QED BY <3>1, <3>2
  <2>3. \A t \in ToSet(p) : t \in ToSet(all)
    <3> SUFFICES ASSUME NEW i \in 1 .. P PROVE p[i] \in ToSet(all) BY <2>1 DEF ToSet
    <3>1. i \in 1 .. P + Q /\ all[i] = p[i] BY <2>1
    <3> QED BY <2>1, <3>1 DEF ToSet
  <2>4. \A t \in ToSet(q) : t \in ToSet(all)
    <3> SUFFICES ASSUME NEW i \in 1 .. Q PROVE q[i] \in ToSet(all) BY <2>1 DEF ToSet
    <3>0. P + i \in 1 .. P + Q /\ ~(P + i <= P) /\ (P + i) - P = i BY <2>1
    <3>1. all[P + i] = q[i] BY <2>1, <3>0
    <3> QED BY <2>1, <3>0, <3>1 DEF ToSet
  <2>5. ToSet(all) = ToSet(p) \cup ToSet(q) BY <2>2, <2>3, <2>4
  <2> QED BY <2>5 DEF all
<1>5. s \in ToSet(p) \cup ToSet(q) /\ Last(s) = n
  <2>1. \E t \in ToSet(p \o q) : Last(t) = n BY <1>4, SessionOf
  <2>2. s \in ToSet(p \o q) /\ Last(s) = n BY <2>1, Zenon
  <2> QED BY <1>4, <2>2
<1> HIDE DEF s, p1, q1, d, M, MP, MQ
<1>6. \A x, y : /\ Together(p, x, y) => x \in Members(p) /\ y \in Members(p)
                /\ Together(q, x, y) => x \in Members(q) /\ y \in Members(q)
  BY MembersAre DEF Together
<1>7. /\ s \in Seq(Nat) /\ s # <<>> /\ \A a, b \in 1 .. Len(s) : s[a] = s[b] => a = b
      /\ \A x : x \in ToSet(s) <=> Together(p, x, n) \/ Together(q, x, n)
      /\ \A a, b \in 1 .. Len(s) : a < b => Before(p, s[a], s[b]) \/ Before(q, s[a], s[b])
  <2>1. CASE s \in ToSet(p)
    <3>1. /\ s \in Seq(Nat) /\ s # <<>> /\ \A a, b \in 1 .. Len(s) : s[a] = s[b] => a = b
          /\ \A x : x \in ToSet(s) <=> Together(p, x, n)
          /\ \A a, b \in 1 .. Len(s) : a < b => Before(p, s[a], s[b])
          /\ n \in Members(p)
      BY <1>5, <2>1, SessionOf
    <3>2. \A x : ~Together(q, x, n) BY <1>6, <3>1
    <3> QED BY <3>1, <3>2
  <2>2. CASE s \in ToSet(q)
    <3>1. /\ s \in Seq(Nat) /\ s # <<>> /\ \A a, b \in 1 .. Len(s) : s[a] = s[b] => a = b
          /\ \A x : x \in ToSet(s) <=> Together(q, x, n)
          /\ \A a, b \in 1 .. Len(s) : a < b => Before(q, s[a], s[b])
          /\ n \in Members(q)
      BY <1>5, <2>2, SessionOf
    <3>2. \A x : ~Together(p, x, n) BY <1>6, <3>1
    <3> QED BY <3>1, <3>2
  <2> QED BY <1>5, <2>1, <2>2
<1>8. ToSet(s) = M
  <2>1. \A x \in ToSet(s) : x \in Nat
    <3>1. \A a \in DOMAIN s : s[a] \in Nat BY <1>7
    <3> QED BY <3>1 DEF ToSet
  <2>2. \A x : x \in M <=> x \in Nat /\ (Together(p, x, n) \/ Together(q, x, n)) BY DEF M
  <2> QED BY <1>7, <2>1, <2>2
<1>9. /\ <<s>> \in Lists /\ Once(<<s>>) /\ Members(<<s>>) = M
      /\ \A x, y : Together(<<s>>, x, y) <=> x \in M /\ y \in M
      /\ \A x, y : Before(<<s>>, x, y) => x \in M /\ y \in M /\ (Before(p, x, y) \/ Before(q, x, y))
  <2>1. /\ <<s>> \in Lists /\ Once(<<s>>) /\ Members(<<s>>) = M
        /\ \A x, y : Together(<<s>>, x, y) <=> x \in M /\ y \in M
        /\ \A x, y : Before(<<s>>, x, y) <=> \E a, b \in 1 .. Len(s) : s[a] = x /\ s[b] = y /\ a < b
    BY <1>7, <1>8, Single
  <2>2. \A a \in 1 .. Len(s) : s[a] \in M BY <1>7, <1>8 DEF ToSet
  <2> QED BY <1>7, <2>1, <2>2
<1>10. /\ p1 \in Lists /\ Once(p1) /\ Members(p1) = Members(p) \ MP
       /\ \A x, y : Before(p1, x, y) => Before(p, x, y)
       /\ \A x, y : Together(p1, x, y) <=> Together(p, x, y) /\ x \notin MP /\ y \notin MP
  BY <1>2 DEF Thins
<1>11. /\ q1 \in Lists /\ Once(q1) /\ Members(q1) = Members(q) \ MQ
       /\ \A x, y : Before(q1, x, y) => Before(q, x, y)
       /\ \A x, y : Together(q1, x, y) <=> Together(q, x, y) /\ x \notin MQ /\ y \notin MQ
  BY <1>2 DEF Thins
<1>12. MP \subseteq Members(p) /\ MQ \subseteq Members(q) BY <1>6 DEF MP, MQ
<1>13. M \cap Members(q1) = {} BY <1>3, <1>11, <1>12
<1> DEFINE q2 == <<s>> \o q1
<1>14. /\ q2 \in Lists /\ Once(q2) /\ Members(q2) = M \cup Members(q1)
       /\ \A x, y : Together(q2, x, y) <=> (x \in M /\ y \in M) \/ Together(q1, x, y)
       /\ \A x, y : Before(q2, x, y) <=> \/ Before(<<s>>, x, y) \/ Before(q1, x, y)
                                         \/ (x \in M /\ y \in Members(q1))
  <2> HIDE DEF q2
  <2>1. Members(<<s>>) \cap Members(q1) = {} BY <1>9, <1>13
  <2>2. /\ q2 \in Lists /\ Once(q2) /\ Members(q2) = Members(<<s>>) \cup Members(q1)
        /\ \A x, y : Together(q2, x, y) <=> Together(<<s>>, x, y) \/ Together(q1, x, y)
        /\ \A x, y : Before(q2, x, y) <=> \/ Before(<<s>>, x, y) \/ Before(q1, x, y)
                                          \/ (x \in Members(<<s>>) /\ y \in Members(q1))
    BY <1>9, <1>11, <2>1, Joins DEF q2
  <2> QED BY <1>9, <2>2
<1> HIDE DEF q2
<1>15. d[1] = p1 /\ d[2] = q2 BY <1>1 DEF q2
<1>16. Members(d[1]) = Members(p) \ M /\ Members(d[2]) = Members(q) \cup M
  BY <1>3, <1>10, <1>11, <1>12, <1>14, <1>15
<1>17. ASSUME NEW x, NEW y
       PROVE  Together(p1, x, y) \/ Together(q2, x, y) <=> Together(p, x, y) \/ Together(q, x, y)
  <2>1. ASSUME x \in M, y \in M PROVE Together(p, x, y) \/ Together(q, x, y)
    <3>1. \A z \in M : Together(p, z, n) \/ Together(q, z, n) BY DEF M
    <3>2. CASE Together(p, x, n)
      <4>1. Together(p, y, n) BY <1>6, <2>1, <3>1, <3>2
      <4> QED BY <3>2, <4>1, Shared
    <3>3. CASE Together(q, x, n)
      <4>1. Together(q, y, n) BY <1>6, <2>1, <3>1, <3>3
      <4> QED BY <3>3, <4>1, Shared
    <3> QED BY <2>1, <3>1, <3>2, <3>3
  <2>2. ASSUME Together(p, x, y), x \in MP \/ y \in MP PROVE x \in M /\ y \in M
    <3>1. x \in Nat /\ y \in Nat BY <2>2, IsTyped DEF Together
    <3>2. Together(p, x, n) \/ Together(p, y, n) BY <2>2 DEF MP
    <3>3. Together(p, x, n) /\ Together(p, y, n) BY <2>2, <3>2, Shared
    <3> QED BY <3>1, <3>3 DEF M
  <2>3. ASSUME Together(q, x, y), x \in MQ \/ y \in MQ PROVE x \in M /\ y \in M
    <3>1. x \in Nat /\ y \in Nat BY <2>3, IsTyped DEF Together
    <3>2. Together(q, x, n) \/ Together(q, y, n) BY <2>3 DEF MQ
    <3>3. Together(q, x, n) /\ Together(q, y, n) BY <2>3, <3>2, Shared
    <3> QED BY <3>1, <3>3 DEF M
  <2> QED BY <1>10, <1>11, <1>14, <2>1, <2>2, <2>3
<1>18. \A x, y : Before(q2, x, y) =>
         Before(p, x, y) \/ Before(q, x, y) \/ (x \in M /\ y \notin M)
  BY <1>9, <1>11, <1>13, <1>14
<1>19. M \subseteq Members(p) \cup Members(q) BY <1>3, <1>12
<1> QED BY <1>10, <1>14, <1>15, <1>16, <1>17, <1>18, <1>19 DEF M, d

-----------------------------------------------------------------------------
(* The invariant, of two queues a and b, their mbufs m and the rest.       *)

OfSet(S, m, so) == {n \in S : m[n].so = so}
DoFreeSet(S, m) == {n \in S : m[n].dofree}
Of(m, so) == OfSet(DOMAIN m, m, so)
DoFrees(m) == DoFreeSet(DOMAIN m, m)

\* Every packet up to c that has an mbuf has one place, in a session of its socket.
Placed(a, b, m, c) ==
  /\ a \in Lists /\ b \in Lists /\ Once(a) /\ Once(b) /\ Members(a) \cap Members(b) = {}
  /\ DOMAIN m = Members(a) \cup Members(b) /\ DOMAIN m \subseteq 1 .. c
  /\ \A n \in DOMAIN m : m[n] \in Packets
  /\ \A x, y : Together(a, x, y) \/ Together(b, x, y) => m[x].so = m[y].so
\* q and nq count the packets of the sockets in live, mbufs those that are not free.
Counted(m, q, nq, mbufs, c, live) ==
  /\ q \in [Sockets -> 0 .. c] /\ nq \in [Sockets -> 0 .. c] /\ mbufs \in Pools
  /\ \A so \in Sockets :
       /\ so \notin live => Of(m, so) = {}
       /\ so \in live => q[so] = Cardinality(Of(m, so)) /\ q[so] <= nq[so]
  /\ mbufs.alloced = mbufs.free + Cardinality(DOMAIN m)
  /\ mbufs.alloced - Cardinality(DoFrees(m)) <= MBUF_THRESH
\* A socket that was not downgraded, of the sockets in h, has its packets on one queue, in
\* order and after l, those that went out; without low delay they are in one session.
Ordered(a, b, m, h, l) ==
  /\ \A n \in Members(a) : m[n].so \in LowDelay \cup {Nobody}
  /\ \A n \in Members(b) : m[n].so \in LowDelay => m[n].so \in h
  /\ \A n \in DOMAIN m : m[n].so \in Sockets =>
       m[n].dst = GuestOf[m[n].so] /\ (m[n].so \notin h \cap LowDelay => l[m[n].so] < n)
  /\ \A x, y \in DOMAIN m : m[x].so = m[y].so /\ m[x].so \in Sockets =>
       /\ m[x].so \notin LowDelay => Together(a, x, y) \/ Together(b, x, y)
       /\ m[x].so \notin h \cap LowDelay /\ (Before(a, x, y) \/ Before(b, x, y)) => x < y
Invariant(a, b, m, c, q, nq, mbufs, live, h, l, d) ==
  /\ Placed(a, b, m, c) /\ Counted(m, q, nq, mbufs, c, live) /\ Ordered(a, b, m, h, l)
  /\ l \in [Sockets -> 0 .. c] /\ h \subseteq Sockets /\ d \subseteq h \cap LowDelay

\* The places of two queues are all in them.
LEMMA Inside ==
  ASSUME NEW queue \in Lists
  PROVE  /\ \A x, y : Together(queue, x, y) => x \in Members(queue) /\ y \in Members(queue)
         /\ \A x, y : Before(queue, x, y) => x \in Members(queue) /\ y \in Members(queue)
<1>1. \A x, y : Together(queue, x, y) => x \in Members(queue) /\ y \in Members(queue)
  BY MembersAre DEF Together
<1>2. ASSUME NEW x, NEW y, Before(queue, x, y) PROVE x \in Members(queue) /\ y \in Members(queue)
  <2>1. Precedes(queue, x, y) BY <1>2, BeforeIs
  <2> QED BY <2>1, MembersAre DEF Precedes
<1> QED BY <1>1, <1>2

\* Packets of m go, others may expire sooner or forget their socket; both queues are cut.
LEMMA CutsPlaced ==
  ASSUME NEW a, NEW b, NEW m, NEW c, NEW a1, NEW b1, NEW m1, NEW ga, NEW gb,
         Placed(a, b, m, c), Thins(a, a1, ga), Thins(b, b1, gb),
         ga \subseteq Members(a), gb \subseteq Members(b),
         DOMAIN m1 = DOMAIN m \ (ga \cup gb),
         \A n \in DOMAIN m1 : m1[n] \in Packets /\ m1[n].so = m[n].so
  PROVE  Placed(a1, b1, m1, c)
<1>1. /\ a \in Lists /\ b \in Lists /\ Members(a) \cap Members(b) = {}
      /\ DOMAIN m = Members(a) \cup Members(b) /\ DOMAIN m \subseteq 1 .. c
      /\ \A x, y : Together(a, x, y) \/ Together(b, x, y) => m[x].so = m[y].so
  BY DEF Placed
<1>2. /\ a1 \in Lists /\ Once(a1) /\ Members(a1) = Members(a) \ ga
      /\ \A x, y : Together(a1, x, y) => Together(a, x, y)
      /\ b1 \in Lists /\ Once(b1) /\ Members(b1) = Members(b) \ gb
      /\ \A x, y : Together(b1, x, y) => Together(b, x, y)
  BY DEF Thins
<1>3. DOMAIN m1 = Members(a1) \cup Members(b1) /\ DOMAIN m1 \subseteq 1 .. c
      /\ Members(a1) \cap Members(b1) = {}
  BY <1>1, <1>2
<1>4. ASSUME NEW x, NEW y, Together(a1, x, y) \/ Together(b1, x, y) PROVE m1[x].so = m1[y].so
  <2>1. x \in DOMAIN m1 /\ y \in DOMAIN m1 BY <1>2, <1>3, <1>4, Inside
  <2>2. m[x].so = m[y].so BY <1>1, <1>2, <1>4
  <2> QED BY <2>1, <2>2
<1> QED BY <1>2, <1>3, <1>4 DEF Placed

LEMMA CutsOrdered ==
  ASSUME NEW a, NEW b, NEW m, NEW c, NEW a1, NEW b1, NEW m1, NEW ga, NEW gb, NEW h, NEW l,
         Placed(a, b, m, c), Ordered(a, b, m, h, l), Thins(a, a1, ga), Thins(b, b1, gb),
         ga \subseteq Members(a), gb \subseteq Members(b),
         DOMAIN m1 = DOMAIN m \ (ga \cup gb),
         \A n \in DOMAIN m1 : m1[n].so = m[n].so /\ m1[n].dst = m[n].dst,
         NEW l1, \A n \in DOMAIN m1 : m[n].so \in Sockets \ (h \cap LowDelay) => l1[m[n].so] < n
  PROVE  Ordered(a1, b1, m1, h, l1)
<1>1. /\ a \in Lists /\ b \in Lists /\ Members(a) \cap Members(b) = {}
      /\ DOMAIN m = Members(a) \cup Members(b)
  BY DEF Placed
<1>2. /\ a1 \in Lists /\ Members(a1) = Members(a) \ ga
      /\ \A x, y : Before(a1, x, y) => Before(a, x, y)
      /\ \A x, y : Together(a1, x, y) <=> Together(a, x, y) /\ x \notin ga /\ y \notin ga
      /\ b1 \in Lists /\ Members(b1) = Members(b) \ gb
      /\ \A x, y : Before(b1, x, y) => Before(b, x, y)
      /\ \A x, y : Together(b1, x, y) <=> Together(b, x, y) /\ x \notin gb /\ y \notin gb
  BY DEF Thins
<1>3. Members(a1) \subseteq DOMAIN m1 /\ Members(b1) \subseteq DOMAIN m1 BY <1>1, <1>2
<1>4. \A n \in Members(a1) : m1[n].so \in LowDelay \cup {Nobody} BY <1>2, <1>3 DEF Ordered
<1>5. \A n \in Members(b1) : m1[n].so \in LowDelay => m1[n].so \in h BY <1>2, <1>3 DEF Ordered
<1>6. \A n \in DOMAIN m1 : m1[n].so \in Sockets =>
        m1[n].dst = GuestOf[m1[n].so] /\ (m1[n].so \notin h \cap LowDelay => l1[m1[n].so] < n)
  BY DEF Ordered
<1>7. ASSUME NEW x \in DOMAIN m1, NEW y \in DOMAIN m1, m1[x].so = m1[y].so, m1[x].so \in Sockets
      PROVE  /\ m1[x].so \notin LowDelay => Together(a1, x, y) \/ Together(b1, x, y)
             /\ m1[x].so \notin h \cap LowDelay /\ (Before(a1, x, y) \/ Before(b1, x, y)) => x < y
  <2>1. x \in DOMAIN m /\ y \in DOMAIN m /\ m[x].so = m[y].so /\ m1[x].so = m[x].so BY <1>7
  <2>2. /\ m[x].so \notin LowDelay => Together(a, x, y) \/ Together(b, x, y)
        /\ m[x].so \notin h \cap LowDelay /\ (Before(a, x, y) \/ Before(b, x, y)) => x < y
    BY <1>7, <2>1 DEF Ordered
  <2> QED BY <1>2, <1>7, <2>1, <2>2
<1> QED BY <1>4, <1>5, <1>6, <1>7 DEF Ordered

LEMMA Removed ==
  ASSUME NEW c \in Nat, NEW S \in SUBSET (1 .. c), NEW T \in SUBSET S
  PROVE  /\ Cardinality(S) \in 0 .. c /\ Cardinality(T) \in 0 .. Cardinality(S)
         /\ Cardinality(S \ T) = Cardinality(S) - Cardinality(T)
<1>1. IsFiniteSet(1 .. c) /\ Cardinality(1 .. c) = c BY FS_Interval
<1>2. IsFiniteSet(S) /\ Cardinality(S) \in Nat /\ Cardinality(S) <= c BY <1>1, FS_Subset, FS_CardinalityType
<1>3. Cardinality(T) \in Nat /\ Cardinality(T) <= Cardinality(S) BY <1>2, FS_Subset, FS_CardinalityType
<1>4. S \cap T = T OBVIOUS
<1>5. Cardinality(S \ T) = Cardinality(S) - Cardinality(T) BY <1>2, <1>4, FS_Difference
<1> QED BY <1>2, <1>3, <1>5

\* m1 and the counts are what m and the counts were, less what is gone.
Discounts(m, q, nq, mbufs, c, m1, gone, q1, nq1, mbufs1) ==
  /\ DOMAIN m \subseteq 1 .. c /\ gone \subseteq DOMAIN m
  /\ DOMAIN m1 = DOMAIN m \ gone /\ \A n \in DOMAIN m : m[n].dofree \in BOOLEAN
  /\ \A n \in DOMAIN m1 : m1[n].so = m[n].so /\ m1[n].dofree = m[n].dofree
  /\ q1 \in [Sockets -> Int] /\ nq1 \in [Sockets -> Int]
  /\ \A so \in Sockets :
       /\ q1[so] = q[so] - Cardinality(OfSet(gone, m, so))
       /\ nq1[so] = IF OfSet(gone, m, so) # {} /\ q1[so] = 0 THEN 0 ELSE nq[so]
  /\ mbufs1 = m_freeAll(mbufs, Cardinality(DoFreeSet(gone, m)),
                        Cardinality(gone) - Cardinality(DoFreeSet(gone, m)))
\* What leaves is counted.
LEMMA CutsCounted ==
  ASSUME NEW m, NEW q, NEW nq, NEW mbufs, NEW c \in Nat, NEW live, NEW m1, NEW gone, NEW mbufs1,
         NEW q1, NEW nq1,
         Counted(m, q, nq, mbufs, c, live), Discounts(m, q, nq, mbufs, c, m1, gone, q1, nq1, mbufs1)
  PROVE  Counted(m1, q1, nq1, mbufs1, c, live)
<1> DEFINE G(so) == OfSet(gone, m, so)
           F == DoFreeSet(gone, m)
<1>1. /\ q \in [Sockets -> 0 .. c] /\ nq \in [Sockets -> 0 .. c] /\ mbufs \in Pools
      /\ \A so \in Sockets :
           /\ so \notin live => Of(m, so) = {}
           /\ so \in live => q[so] = Cardinality(Of(m, so)) /\ q[so] <= nq[so]
      /\ mbufs.alloced = mbufs.free + Cardinality(DOMAIN m)
      /\ mbufs.alloced - Cardinality(DoFrees(m)) <= MBUF_THRESH
  BY DEF Counted
<1>0. /\ DOMAIN m \subseteq 1 .. c /\ gone \subseteq DOMAIN m
      /\ DOMAIN m1 = DOMAIN m \ gone /\ \A n \in DOMAIN m : m[n].dofree \in BOOLEAN
      /\ \A n \in DOMAIN m1 : m1[n].so = m[n].so /\ m1[n].dofree = m[n].dofree
      /\ q1 \in [Sockets -> Int] /\ nq1 \in [Sockets -> Int]
      /\ \A so \in Sockets :
           /\ q1[so] = q[so] - Cardinality(OfSet(gone, m, so))
           /\ nq1[so] = IF OfSet(gone, m, so) # {} /\ q1[so] = 0 THEN 0 ELSE nq[so]
      /\ mbufs1 = m_freeAll(mbufs, Cardinality(DoFreeSet(gone, m)),
                            Cardinality(gone) - Cardinality(DoFreeSet(gone, m)))
  BY DEF Discounts
<1>2. ASSUME NEW so \in Sockets
      PROVE  /\ q1[so] \in 0 .. c /\ nq1[so] \in 0 .. c
             /\ so \notin live => Of(m1, so) = {}
             /\ so \in live => q1[so] = Cardinality(Of(m1, so)) /\ q1[so] <= nq1[so]
  <2>1. q1[so] = q[so] - Cardinality(G(so)) BY <1>0
  <2>2. nq1[so] = IF G(so) # {} /\ q1[so] = 0 THEN 0 ELSE nq[so] BY <1>0
  <2>3. Of(m1, so) = Of(m, so) \ G(so) /\ G(so) \subseteq Of(m, so) /\ Of(m, so) \subseteq 1 .. c
    BY <1>0 DEF Of, OfSet
  <2> HIDE DEF G
  <2>4. q[so] \in 0 .. c /\ nq[so] \in 0 .. c BY <1>1
  <2>5. CASE so \in live
    <3>1. q[so] = Cardinality(Of(m, so)) /\ q[so] <= nq[so] BY <1>1, <2>5
    <3>2. /\ Cardinality(Of(m, so)) \in 0 .. c /\ Cardinality(G(so)) \in 0 .. Cardinality(Of(m, so))
          /\ Cardinality(Of(m1, so)) = Cardinality(Of(m, so)) - Cardinality(G(so))
      <4>1. Of(m, so) \in SUBSET (1 .. c) /\ G(so) \in SUBSET Of(m, so) BY <2>3
      <4> QED BY <2>3, <4>1, Removed
    <3> QED BY <2>1, <2>2, <2>4, <2>5, <3>1, <3>2
  <2>6. CASE so \notin live
    <3>1. Of(m, so) = {} /\ G(so) = {} BY <1>1, <2>3, <2>6
    <3>2. Cardinality(G(so)) = 0 BY <3>1, FS_EmptySet
    <3> QED BY <2>1, <2>2, <2>3, <2>4, <2>6, <3>1, <3>2
  <2> QED BY <2>5, <2>6
<1>3. q1 \in [Sockets -> 0 .. c] BY <1>0, <1>2
<1>4. nq1 \in [Sockets -> 0 .. c] BY <1>0, <1>2
<1>5. mbufs1.alloced = mbufs.alloced - Cardinality(F) /\
      mbufs1.free = mbufs.free + (Cardinality(gone) - Cardinality(F))
      /\ mbufs1 = [alloced |-> mbufs1.alloced, free |-> mbufs1.free]
  BY <1>0 DEF m_freeAll
<1>6. /\ Cardinality(DOMAIN m) \in 0 .. c /\ Cardinality(gone) \in 0 .. Cardinality(DOMAIN m)
      /\ Cardinality(DOMAIN m1) = Cardinality(DOMAIN m) - Cardinality(gone)
  <2>1. DOMAIN m \in SUBSET (1 .. c) /\ gone \in SUBSET DOMAIN m BY <1>0
  <2> QED BY <1>0, <2>1, Removed
<1>7. F \subseteq gone /\ gone \subseteq 1 .. c BY <1>0 DEF DoFreeSet
<1>8. Cardinality(F) \in 0 .. Cardinality(gone)
  <2> HIDE DEF F
  <2> QED BY <1>7, Removed
<1>9. DoFrees(m1) = DoFrees(m) \ F /\ F \subseteq DoFrees(m) /\ DoFrees(m) \subseteq 1 .. c BY <1>0 DEF DoFrees, DoFreeSet
<1>10. /\ Cardinality(DoFrees(m)) \in 0 .. c
       /\ Cardinality(DoFrees(m1)) = Cardinality(DoFrees(m)) - Cardinality(F)
  <2> HIDE DEF F
  <2>1. DoFrees(m) \in SUBSET (1 .. c) /\ F \in SUBSET DoFrees(m) BY <1>9
  <2> QED BY <1>9, <2>1, Removed
<1>11. mbufs.alloced \in Nat /\ mbufs.free \in Nat BY <1>1 DEF Pools
<1>12. /\ mbufs1.alloced \in Nat /\ mbufs1.free \in Nat
       /\ mbufs1.alloced = mbufs1.free + Cardinality(DOMAIN m1)
       /\ mbufs1.alloced - Cardinality(DoFrees(m1)) <= MBUF_THRESH
  <2> HIDE DEF F
  <2> QED BY <1>1, <1>5, <1>6, <1>8, <1>10, <1>11, MbufAssumption
<1>13. mbufs1 \in Pools BY <1>5, <1>12 DEF Pools
<1> QED BY <1>2, <1>3, <1>4, <1>12, <1>13 DEF Counted

\* if_start keeps the invariant, on whatever queues it finds.
LEMMA StartsKeeps ==
  ASSUME NEW fast, NEW batch, NEW m, NEW q, NEW nq, NEW mbufs, NEW c \in Nat, NEW live, NEW h,
         Invariant(fast, batch, m, c, q, nq, mbufs, live, h, last, disordered),
         Starts(fast, batch, m, q, nq, mbufs)
  PROVE  Invariant(fastq', batchq', packets', c, queued', nqueued', pool', live, h, last', disordered')
<1> DEFINE eager == Len(fast) - 1
           ga == Gone(m, fast, eager)
           gb == Gone(m, batch, 0)
           gone == ga \cup gb
           G(so) == {n \in gone : m[n].so = so}
           Out(so) == {n \in G(so) : m[n].due # 0}
           tried == Tried(m, fast, eager) \cup Tried(m, batch, 0)
           a1 == Left(m, fast, eager)
           b1 == Left(m, batch, 0)
           m1 == [n \in DOMAIN m \ gone |-> IF n \in tried THEN if_encap(m[n]) ELSE m[n]]
           F == {n \in gone : m[n].dofree}
           q1 == [so \in Sockets |-> q[so] - Cardinality(G(so))]
           nq1 == [so \in Sockets |-> IF G(so) # {} /\ q1[so] = 0 THEN 0 ELSE nq[so]]
           l1 == [so \in Sockets |-> Max(Out(so) \cup {last[so]})]
           d1 == disordered \cup
                   {so \in Sockets : \E n \in Out(so) :
                      n < last[so] \/ \E k \in Out(so) : k < n /\ Before(fast \o batch, n, k)}
<1>1. /\ fastq' = a1 /\ batchq' = b1 /\ packets' = m1 /\ queued' = q1 /\ nqueued' = nq1
      /\ pool' = m_freeAll(mbufs, Cardinality(F), Cardinality(gone) - Cardinality(F))
      /\ last' = l1 /\ disordered' = d1
  BY DEF Starts
<1> HIDE DEF Invariant
<1>2. /\ Placed(fast, batch, m, c) /\ Counted(m, q, nq, mbufs, c, live) /\ Ordered(fast, batch, m, h, last)
      /\ last \in [Sockets -> 0 .. c] /\ h \subseteq Sockets /\ disordered \subseteq h \cap LowDelay
  BY DEF Invariant
<1>3. /\ fast \in Lists /\ batch \in Lists /\ Once(fast) /\ Once(batch)
      /\ Members(fast) \cap Members(batch) = {}
      /\ DOMAIN m = Members(fast) \cup Members(batch) /\ DOMAIN m \subseteq 1 .. c
      /\ \A n \in DOMAIN m : m[n] \in Packets
  BY <1>2 DEF Placed
<1>4. eager \in Int BY <1>3 DEF Lists
<1> HIDE DEF eager
<1>5. /\ Thins(fast, a1, ga) /\ ga \subseteq Members(fast)
      /\ \A n \in ga :
           /\ Goes(m, n)
           /\ \A k \in Members(fast) \ ga :
                \/ Together(fast, n, k) \/ (eager = Len(fast) - 1 /\ \A x \in Members(fast) :
                                             Together(fast, k, x) => Goes(m, x))
                => Before(fast, n, k)
  BY <1>3, <1>4, LeftThins
<1>6. /\ Thins(batch, b1, gb) /\ gb \subseteq Members(batch)
      /\ \A n \in gb :
           /\ Goes(m, n)
           /\ \A k \in Members(batch) \ gb : Together(batch, n, k) => Before(batch, n, k)
  <2>1. 0 \in Int OBVIOUS
  <2> HIDE DEF b1, gb
  <2>2. /\ Thins(batch, b1, gb) /\ gb \subseteq Members(batch)
        /\ \A n \in gb :
           /\ Goes(m, n)
           /\ \A k \in Members(batch) \ gb :
                \/ Together(batch, n, k) \/ (0 = Len(batch) - 1 /\ \A x \in Members(batch) :
                                             Together(batch, k, x) => Goes(m, x))
                => Before(batch, n, k)
    BY <1>3, <2>1, LeftThins, Zenon DEF b1, gb
  <2> QED BY <2>2
<1> HIDE DEF ga, gb, a1, b1, tried
<1>7. \A n \in DOMAIN m : if_encap(m[n]) \in Packets /\ if_encap(m[n]).so = m[n].so
                           /\ if_encap(m[n]).dst = m[n].dst /\ if_encap(m[n]).dofree = m[n].dofree
  BY <1>3, QueueAssumption DEF if_encap, Packets, Fresh
<1>8. /\ DOMAIN m1 = DOMAIN m \ gone
      /\ \A n \in DOMAIN m1 : m1[n] \in Packets /\ m1[n].so = m[n].so
                              /\ m1[n].dst = m[n].dst /\ m1[n].dofree = m[n].dofree
  BY <1>3, <1>7
<1> HIDE DEF m1
<1>9. gone \subseteq DOMAIN m /\ \A n \in DOMAIN m : m[n].dofree \in BOOLEAN BY <1>3, <1>5, <1>6 DEF Packets
<1>10. Placed(a1, b1, m1, c)
  <2>1. DOMAIN m1 = DOMAIN m \ (ga \cup gb) /\ \A n \in DOMAIN m1 : m1[n] \in Packets /\ m1[n].so = m[n].so
    BY <1>8
  <2> QED BY <1>2, <1>5, <1>6, <2>1, CutsPlaced
<1>11. Counted(m1, q1, nq1, pool', c, live)
  <2>1. /\ \A so \in Sockets :
             /\ q1[so] = q[so] - Cardinality(OfSet(gone, m, so))
             /\ nq1[so] = IF OfSet(gone, m, so) # {} /\ q1[so] = 0 THEN 0 ELSE nq[so]
        /\ pool' = m_freeAll(mbufs, Cardinality(DoFreeSet(gone, m)),
                             Cardinality(gone) - Cardinality(DoFreeSet(gone, m)))
    BY <1>1 DEF OfSet, DoFreeSet
  <2>2. DOMAIN m \subseteq 1 .. c /\ DOMAIN m1 = DOMAIN m \ gone
        /\ \A n \in DOMAIN m1 : m1[n].so = m[n].so /\ m1[n].dofree = m[n].dofree
    BY <1>3, <1>8
  <2>3. \A so \in Sockets : q[so] \in Int /\ nq[so] \in Int /\ Cardinality(G(so)) \in Int
    <3> SUFFICES ASSUME NEW so \in Sockets
                 PROVE  q[so] \in Int /\ nq[so] \in Int /\ Cardinality(G(so)) \in Int
      OBVIOUS
    <3>1. q[so] \in 0 .. c /\ nq[so] \in 0 .. c BY <1>2 DEF Counted
    <3>2. gone \in SUBSET (1 .. c) /\ G(so) \in SUBSET gone BY <1>3, <1>9
    <3> HIDE DEF G, gone
    <3>3. Cardinality(gone) \in 0 .. c /\ Cardinality(G(so)) \in 0 .. Cardinality(gone) BY <3>2, Removed
    <3> QED BY <3>1, <3>3
  <2>4. q1 \in [Sockets -> Int] /\ nq1 \in [Sockets -> Int]
    <3>1. \A so \in Sockets : q[so] - Cardinality(G(so)) \in Int BY <2>3
    <3>2. q1 \in [Sockets -> Int] BY <3>1
    <3>3. \A so \in Sockets : (IF G(so) # {} /\ q1[so] = 0 THEN 0 ELSE nq[so]) \in Int BY <2>3
    <3> QED BY <3>2, <3>3
  <2> HIDE DEF q1, nq1, gone
  <2>5. Discounts(m, q, nq, mbufs, c, m1, gone, q1, nq1, pool') BY <1>9, <2>1, <2>2, <2>4 DEF Discounts
  <2> QED BY <1>2, <2>5, CutsCounted
<1>12. \A so \in Sockets : Out(so) \cup {last[so]} \in SUBSET (0 .. c) /\ Out(so) \cup {last[so]} # {}
  <2> SUFFICES ASSUME NEW so \in Sockets
               PROVE  Out(so) \cup {last[so]} \in SUBSET (0 .. c) /\ Out(so) \cup {last[so]} # {}
    OBVIOUS
  <2>1. \A n \in Out(so) : n \in 1 .. c BY <1>3, <1>9
  <2>2. last[so] \in 0 .. c BY <1>2
  <2> QED BY <2>1, <2>2
<1>13. \A so \in Sockets : /\ l1[so] \in 0 .. c
                           /\ l1[so] = last[so] \/ l1[so] \in Out(so)
  <2> SUFFICES ASSUME NEW so \in Sockets
               PROVE  l1[so] \in 0 .. c /\ (l1[so] = last[so] \/ l1[so] \in Out(so))
    OBVIOUS
  <2> DEFINE S == Out(so) \cup {last[so]}
  <2>1. l1[so] = Max(S) OBVIOUS
  <2>2. S \in SUBSET (0 .. c) /\ S # {} BY <1>12
  <2> HIDE DEF S
  <2>3. Max(S) \in S BY <2>2, MaxIs
  <2>4. \A x \in S : x = last[so] \/ x \in Out(so) BY DEF S
  <2> HIDE DEF Out, l1
  <2> QED BY <2>1, <2>2, <2>3, <2>4
<1>14. l1 \in [Sockets -> 0 .. c]
  <2>1. \A so \in Sockets : Max(Out(so) \cup {last[so]}) \in 0 .. c BY <1>13
  <2> QED BY <2>1
<1> HIDE DEF l1
\* what goes out is not after what stays
<1>15. ASSUME NEW so \in Sockets, so \notin h \cap LowDelay, NEW n \in Out(so),
              NEW k \in DOMAIN m1, m[k].so = so
       PROVE  n < k
  <2>1. /\ n \in DOMAIN m /\ k \in DOMAIN m /\ m[n].so = so /\ n \in gone /\ k \notin gone /\ m[n].due # 0
    BY <1>8, <1>9, <1>15
  <2>2. m[n].dst = GuestOf[so] /\ m[k].dst = GuestOf[so] BY <1>2, <1>15, <2>1 DEF Ordered
  <2>3. Before(fast, n, k) \/ Before(batch, n, k) => n < k BY <1>2, <1>15, <2>1 DEF Ordered
  <2>4. CASE so \in LowDelay
    <3>1. so \notin h BY <1>15, <2>4
    <3>2. n \notin Members(batch) /\ k \notin Members(batch) BY <1>2, <1>15, <2>1, <2>4, <3>1 DEF Ordered
    <3>3. n \in ga /\ k \in Members(fast) \ ga BY <1>3, <1>6, <2>1, <3>2
    <3>4. arp_table_search(GuestOf[so]) BY <1>5, <2>1, <2>2, <3>3 DEF Goes
    <3>5. ASSUME NEW x \in Members(fast), Together(fast, k, x) PROVE Goes(m, x)
      <4>1. x \in DOMAIN m /\ m[x].so = so BY <1>2, <1>3, <1>15, <3>5 DEF Placed
      <4>2. m[x].dst = GuestOf[so] BY <1>2, <4>1 DEF Ordered
      <4> QED BY <3>4, <4>2 DEF Goes
    <3>6. Before(fast, n, k) BY <1>5, <3>3, <3>5 DEF eager
    <3> QED BY <2>3, <3>6
  <2>5. CASE so \notin LowDelay
    <3>1. so # Nobody BY QueueAssumption
    <3>2. n \notin Members(fast) /\ k \notin Members(fast) BY <1>2, <1>15, <2>1, <2>5, <3>1 DEF Ordered
    <3>3. n \in gb /\ k \in Members(batch) \ gb BY <1>3, <1>5, <2>1, <3>2
    <3>4. Together(fast, n, k) \/ Together(batch, n, k) BY <1>2, <1>15, <2>1, <2>5 DEF Ordered
    <3>5. ~Together(fast, n, k) BY <1>3, <3>2, Inside
    <3> QED BY <1>6, <2>3, <3>3, <3>4, <3>5
  <2> QED BY <2>4, <2>5
<1>16. \A n \in DOMAIN m1 : m[n].so \in Sockets \ (h \cap LowDelay) => l1[m[n].so] < n
  <2> SUFFICES ASSUME NEW n \in DOMAIN m1, m[n].so \in Sockets \ (h \cap LowDelay)
               PROVE  l1[m[n].so] < n
    OBVIOUS
  <2>1. n \in DOMAIN m BY <1>8
  <2>2. last[m[n].so] < n BY <1>2, <2>1 DEF Ordered
  <2> HIDE DEF Out
  <2> QED BY <1>13, <1>15, <2>2
<1>17. Ordered(a1, b1, m1, h, l1)
  <2>1. DOMAIN m1 = DOMAIN m \ (ga \cup gb) /\ \A n \in DOMAIN m1 : m1[n].so = m[n].so /\ m1[n].dst = m[n].dst
    BY <1>8
  <2> QED BY <1>2, <1>5, <1>6, <1>16, <2>1, CutsOrdered
<1>18. d1 \subseteq h \cap LowDelay
  <2> SUFFICES ASSUME NEW so \in Sockets, so \notin h \cap LowDelay, NEW n \in Out(so),
                      n < last[so] \/ \E k \in Out(so) : k < n /\ Before(fast \o batch, n, k)
               PROVE  FALSE
    BY <1>2
  <2>1. n \in DOMAIN m /\ m[n].so = so /\ n \in Nat BY <1>3, <1>9
  <2>2. last[so] < n /\ last[so] \in Nat BY <1>2, <2>1 DEF Ordered
  <2>3. PICK k \in Out(so) : k < n /\ Before(fast \o batch, n, k) BY <2>1, <2>2
  <2>4. k \in DOMAIN m /\ m[k].so = so /\ k \in Nat BY <1>3, <1>9
  <2>5. \/ Before(fast, n, k) \/ Before(batch, n, k)
        \/ (n \in Members(fast) /\ k \in Members(batch))
    BY <1>3, <2>3, Joins
  <2>6. ~(Before(fast, n, k) \/ Before(batch, n, k))
    <3>1. Before(fast, n, k) \/ Before(batch, n, k) => n < k BY <1>2, <2>1, <2>4 DEF Ordered
    <3> QED BY <2>1, <2>3, <2>4, <3>1
  <2>7. n \in Members(fast) /\ k \in Members(batch) BY <2>5, <2>6
  <2>8. so \in LowDelay /\ so \in h
    <3>1. so # Nobody BY QueueAssumption
    <3> QED BY <1>2, <2>1, <2>4, <2>7, <3>1 DEF Ordered
  <2> QED BY <2>8
<1> QED BY <1>1, <1>2, <1>10, <1>11, <1>14, <1>17, <1>18 DEF Invariant

-----------------------------------------------------------------------------
(* The operations.                                                         *)

IInv == /\ Invariant(fastq, batchq, packets, count, queued, nqueued, pool, alive, hogs, last, disordered)
        /\ count \in 0 .. MaxPackets /\ alive \subseteq Sockets
ArpInv == /\ arp \in [1 .. TableSize -> {Unknown} \cup Guests \X Macs] /\ victim \in 1 .. TableSize
          /\ heard \in [Guests -> {Unknown} \cup Macs]
          /\ \A i, j \in 1 .. TableSize :
               /\ arp[i] # Unknown => heard[arp[i][1]] = arp[i][2]
               /\ arp[i] # Unknown /\ arp[j] # Unknown /\ arp[i][1] = arp[j][1] => i = j

LEMMA InitKeeps == Init => IInv /\ ArpInv
<1> SUFFICES ASSUME Init PROVE IInv /\ ArpInv OBVIOUS
<1> USE QueueAssumption, MbufAssumption
<1>1. Members(<<>>) = {} /\ <<>> \in Lists /\ Once(<<>>) /\ \A x, y : ~Together(<<>>, x, y)
  <2>1. \A i, a, x : ~Is(<<>>, i, a, x) BY DEF Is
  <2>2. <<>> \in Lists BY DEF Lists
  <2> QED BY <2>1, <2>2, MembersAre, Zenon DEF Once, Together
<1>2. DOMAIN packets = {} BY DEF Init
<1>3. Placed(fastq, batchq, packets, count) BY <1>1, <1>2 DEF Init, Placed
<1>4. Cardinality({}) = 0 BY FS_EmptySet
<1>5. \A so \in Sockets : Of(packets, so) = {} BY <1>2 DEF Of, OfSet
<1>6. DoFrees(packets) = {} BY <1>2 DEF DoFrees, DoFreeSet
<1>7. Counted(packets, queued, nqueued, pool, count, alive)
  <2>1. queued \in [Sockets -> 0 .. count] /\ nqueued \in [Sockets -> 0 .. count] BY DEF Init
  <2>2. pool \in Pools /\ pool.alloced = 0 /\ pool.free = 0 BY DEF Init, m_init, Pools
  <2>3. pool.alloced = pool.free + Cardinality(DOMAIN packets) BY <1>2, <1>4, <2>2
  <2>4. pool.alloced - Cardinality(DoFrees(packets)) <= MBUF_THRESH BY <1>4, <1>6, <2>2
  <2>5. \A so \in Sockets : so \notin alive BY DEF Init
  <2> QED BY <1>5, <2>1, <2>2, <2>3, <2>4, <2>5 DEF Counted
<1>8. Ordered(fastq, batchq, packets, hogs, last) BY <1>1, <1>2 DEF Init, Ordered
<1>9. IInv BY <1>3, <1>7, <1>8 DEF IInv, Invariant, Init
<1>10. ArpInv BY DEF ArpInv, Init
<1> QED BY <1>9, <1>10

LEMMA StartKeeps ==
  ASSUME IInv, ArpInv, if_start
  PROVE  IInv' /\ ArpInv'
<1>1. /\ Invariant(fastq, batchq, packets, count, queued, nqueued, pool, alive, hogs, last, disordered)
      /\ count \in Nat
  BY DEF IInv
<1>2. Starts(fastq, batchq, packets, queued, nqueued, pool)
      /\ UNCHANGED <<alive, arp, victim, heard, count, hogs>>
  BY DEF if_start, table
<1>3. Invariant(fastq', batchq', packets', count, queued', nqueued', pool', alive, hogs, last', disordered')
  BY <1>1, <1>2, StartsKeeps
<1> QED BY <1>2, <1>3 DEF IInv, ArpInv

LEMMA ArpKeeps ==
  ASSUME IInv, ArpInv, NEW ip \in Guests, NEW mac \in Macs, arp_input(ip, mac)
  PROVE  IInv' /\ ArpInv'
<1>1. arp_table_add(ip, mac) /\ UNCHANGED <<fastq, batchq, packets, alive, queued, nqueued, last, hogs,
                                            disordered, pool, count>>
  BY DEF arp_input, queues, sockets
<1> DEFINE known == Known(arp, ip)
           slot == IF known # {} THEN CHOOSE i \in known : \A j \in known : i <= j ELSE victim
<1>2. arp' = [arp EXCEPT ![slot] = <<ip, mac>>]
      /\ victim' = (IF known # {} THEN victim ELSE (victim % TableSize) + 1)
      /\ heard' = [heard EXCEPT ![ip] = mac]
  BY <1>1 DEF arp_table_add
<1>3. TableSize \in Nat \ {0} BY QueueAssumption
<1>4. slot \in 1 .. TableSize /\ \A i \in 1 .. TableSize : arp[i] # Unknown /\ arp[i][1] = ip => i = slot
  <2>1. known \subseteq 1 .. TableSize /\ \A i \in 1 .. TableSize : arp[i] # Unknown /\ arp[i][1] = ip <=> i \in known
    BY DEF Known
  <2>2. CASE known = {} BY <2>1, <2>2 DEF ArpInv
  <2>3. CASE known # {}
    <3>1. known \in SUBSET Nat BY <1>3, <2>1
    <3>2. \E i \in known : \A j \in known : i <= j
      <4> HIDE DEF known
      <4> QED BY <2>3, <3>1, Smallest
    <3>3. slot \in known
      <4> HIDE DEF known
      <4> QED BY <2>3, <3>2
    <3>4. \A i, j \in known : i = j BY DEF Known, ArpInv
    <3> HIDE DEF slot, known
    <3> QED BY <2>1, <3>3, <3>4
  <2> QED BY <2>2, <2>3
<1> HIDE DEF slot
<1>5. victim' \in 1 .. TableSize
  <2>1. victim \in 1 .. TableSize BY DEF ArpInv
  <2>2. victim % TableSize \in 0 .. TableSize - 1 BY <1>3, <2>1
  <2> QED BY <1>2, <1>3, <2>1, <2>2
<1>6. <<ip, mac>> # Unknown BY DEF Unknown
<1>7. arp' \in [1 .. TableSize -> {Unknown} \cup Guests \X Macs] BY <1>2, <1>4 DEF ArpInv
<1>8. heard' \in [Guests -> {Unknown} \cup Macs] BY <1>2 DEF ArpInv
<1>9. arp'[slot] = <<ip, mac>> /\ \A i \in 1 .. TableSize : i # slot => arp'[i] = arp[i]
  BY <1>2, <1>4 DEF ArpInv
<1>10. heard'[ip] = mac /\ \A g \in Guests : g # ip => heard'[g] = heard[g] BY <1>2 DEF ArpInv
<1>11. \A i \in 1 .. TableSize : arp[i] # Unknown => arp[i][1] \in Guests BY DEF ArpInv
<1>12. \A i, j \in 1 .. TableSize :
         /\ arp'[i] # Unknown => heard'[arp'[i][1]] = arp'[i][2]
         /\ arp'[i] # Unknown /\ arp'[j] # Unknown /\ arp'[i][1] = arp'[j][1] => i = j
  BY <1>4, <1>6, <1>9, <1>10, <1>11 DEF ArpInv
<1>13. ArpInv' BY <1>5, <1>7, <1>8, <1>12 DEF ArpInv
<1>14. IInv' BY <1>1 DEF IInv
<1> QED BY <1>13, <1>14

LEMMA CreateKeeps ==
  ASSUME IInv, ArpInv, NEW so \in Sockets, socreate(so)
  PROVE  IInv' /\ ArpInv'
<1>1. /\ so \notin alive /\ alive' = alive \cup {so}
      /\ queued' = [queued EXCEPT ![so] = 0] /\ nqueued' = [nqueued EXCEPT ![so] = 0]
      /\ last' = [last EXCEPT ![so] = 0] /\ hogs' = hogs \ {so}
      /\ disordered' = disordered \ {so}
      /\ UNCHANGED <<fastq, batchq, packets, arp, victim, heard, pool, count>>
  BY DEF socreate, queues, table
<1>2. /\ Placed(fastq, batchq, packets, count) /\ Counted(packets, queued, nqueued, pool, count, alive)
      /\ Ordered(fastq, batchq, packets, hogs, last)
      /\ last \in [Sockets -> 0 .. count] /\ hogs \subseteq Sockets /\ disordered \subseteq hogs \cap LowDelay
      /\ count \in 0 .. MaxPackets /\ alive \subseteq Sockets
  BY DEF IInv, Invariant
<1>3. count \in Nat BY <1>2, QueueAssumption
<1>4. Of(packets, so) = {} BY <1>1, <1>2 DEF Counted
<1>5. \A n \in DOMAIN packets : packets[n].so # so BY <1>4 DEF Of, OfSet
<1>6. Counted(packets, queued', nqueued', pool, count, alive')
  <2>1. Cardinality(Of(packets, so)) = 0 BY <1>4, FS_EmptySet
  <2>2. queued' \in [Sockets -> 0 .. count] /\ nqueued' \in [Sockets -> 0 .. count]
        /\ queued'[so] = 0 /\ nqueued'[so] = 0
        /\ \A s \in Sockets : s # so => queued'[s] = queued[s] /\ nqueued'[s] = nqueued[s]
    BY <1>1, <1>2, <1>3 DEF Counted
  <2>3. /\ pool \in Pools /\ pool.alloced = pool.free + Cardinality(DOMAIN packets)
        /\ pool.alloced - Cardinality(DoFrees(packets)) <= MBUF_THRESH
        /\ \A s \in Sockets :
             /\ s \notin alive => Of(packets, s) = {}
             /\ s \in alive => queued[s] = Cardinality(Of(packets, s)) /\ queued[s] <= nqueued[s]
    BY <1>2 DEF Counted
  <2>4. \A s \in Sockets :
          /\ s \notin alive' => Of(packets, s) = {}
          /\ s \in alive' => queued'[s] = Cardinality(Of(packets, s)) /\ queued'[s] <= nqueued'[s]
    BY <1>1, <2>1, <2>2, <2>3
  <2> QED BY <2>2, <2>3, <2>4 DEF Counted
<1>7. last' \in [Sockets -> 0 .. count] /\ \A s \in Sockets : s # so => last'[s] = last[s]
  BY <1>1, <1>2, <1>3
<1>8. Members(fastq) \subseteq DOMAIN packets /\ Members(batchq) \subseteq DOMAIN packets
  BY <1>2 DEF Placed
<1>9. Ordered(fastq, batchq, packets, hogs', last')
  BY <1>1, <1>2, <1>5, <1>7, <1>8 DEF Ordered
<1> QED BY <1>1, <1>2, <1>6, <1>7, <1>9 DEF IInv, Invariant, ArpInv

LEMMA TickKeeps ==
  ASSUME IInv, ArpInv, Tick
  PROVE  IInv' /\ ArpInv'
<1>1. /\ packets' = [n \in DOMAIN packets |->
                       [packets[n] EXCEPT !.due = IF @ \in 1 .. Life THEN @ - 1 ELSE @]]
      /\ UNCHANGED <<fastq, batchq, alive, queued, nqueued, last, hogs, disordered,
                     arp, victim, heard, pool, count>>
  BY DEF Tick, sockets, table
<1>2. /\ Placed(fastq, batchq, packets, count) /\ Counted(packets, queued, nqueued, pool, count, alive)
      /\ Ordered(fastq, batchq, packets, hogs, last)
  BY DEF IInv, Invariant
<1>3. \A n \in DOMAIN packets : packets[n] \in Packets BY <1>2 DEF Placed
<1>4. /\ DOMAIN packets' = DOMAIN packets
      /\ \A n \in DOMAIN packets :
           /\ packets'[n] \in Packets /\ packets'[n].so = packets[n].so
           /\ packets'[n].dst = packets[n].dst /\ packets'[n].dofree = packets[n].dofree
  BY <1>1, <1>3, QueueAssumption DEF Packets, Fresh
<1>5. fastq \in Lists /\ batchq \in Lists /\ DOMAIN packets = Members(fastq) \cup Members(batchq)
  BY <1>2 DEF Placed
<1>6. Placed(fastq, batchq, packets', count)
  <2>1. \A x, y : Together(fastq, x, y) \/ Together(batchq, x, y) => x \in DOMAIN packets /\ y \in DOMAIN packets
    BY <1>5, Inside
  <2> QED BY <1>2, <1>4, <2>1 DEF Placed
<1>7. (\A so \in Sockets : Of(packets', so) = Of(packets, so)) /\ DoFrees(packets') = DoFrees(packets)
  BY <1>4 DEF Of, OfSet, DoFrees, DoFreeSet
<1>8. Counted(packets', queued, nqueued, pool, count, alive) BY <1>2, <1>4, <1>7 DEF Counted
<1>9. Ordered(fastq, batchq, packets', hogs, last) BY <1>2, <1>4, <1>5 DEF Ordered
<1> QED BY <1>1, <1>6, <1>8, <1>9 DEF IInv, Invariant, ArpInv

\* The packets that forget their socket are the socket's.
LEMMA SoqfreeIs ==
  ASSUME NEW so, NEW queue \in Lists, \A x, y : Together(queue, x, y) => packets[x].so = packets[y].so
  PROVE  soqfree(so, queue) = {x \in Members(queue) : packets[x].so = so}
<1> DEFINE S == {j \in DOMAIN queue : packets[queue[j][1]].so = so}
<1>1. /\ Len(queue) \in Nat /\ DOMAIN queue = 1 .. Len(queue)
      /\ \A i \in 1 .. Len(queue) : Len(queue[i]) \in Nat /\ Len(queue[i]) > 0
                                    /\ DOMAIN queue[i] = 1 .. Len(queue[i])
  BY Places
<1>2. \A i \in 1 .. Len(queue) : \A x : x \in ToSet(queue[i]) <=> \E a : Is(queue, i, a, x)
  <2>1. \A i \in 1 .. Len(queue) : ToSet(queue[i]) = {queue[i][a] : a \in 1 .. Len(queue[i])}
    BY <1>1, Zenon DEF ToSet
  <2>2. \A i \in 1 .. Len(queue) : \A x : x \in ToSet(queue[i]) <=> \E a \in 1 .. Len(queue[i]) : queue[i][a] = x
    BY <2>1
  <2> QED BY <2>2, Zenon DEF Is
<1>3. \A i \in 1 .. Len(queue) : Is(queue, i, 1, queue[i][1])
  <2> SUFFICES ASSUME NEW i \in 1 .. Len(queue) PROVE Is(queue, i, 1, queue[i][1]) OBVIOUS
  <2>1. 1 \in 1 .. Len(queue[i]) BY <1>1
  <2> QED BY <2>1, Zenon DEF Is
<1>4. \A i, a, x : Is(queue, i, a, x) => i \in 1 .. Len(queue) BY DEF Is
<1>5. \A i, a, x : Is(queue, i, a, x) => packets[x].so = packets[queue[i][1]].so
  <2> SUFFICES ASSUME NEW i, NEW a, NEW x, Is(queue, i, a, x)
               PROVE  packets[x].so = packets[queue[i][1]].so
    OBVIOUS
  <2>1. Is(queue, i, 1, queue[i][1]) BY <1>3, <1>4
  <2>2. Together(queue, x, queue[i][1]) BY <2>1, Zenon DEF Together
  <2> QED BY <2>2
<1>6. ASSUME NEW x PROVE x \in UNION {ToSet(queue[i]) : i \in S} <=> \E i \in S : x \in ToSet(queue[i])
  OBVIOUS
<1>7. ASSUME NEW x PROVE (\E i \in S : x \in ToSet(queue[i])) <=> x \in Members(queue) /\ packets[x].so = so
  <2>1. ASSUME NEW i \in S, x \in ToSet(queue[i]) PROVE x \in Members(queue) /\ packets[x].so = so
    <3>1. i \in 1 .. Len(queue) /\ packets[queue[i][1]].so = so BY <1>1
    <3>2. PICK a : Is(queue, i, a, x) BY <1>2, <2>1, <3>1
    <3> QED BY <1>5, <3>1, <3>2, MembersAre
  <2>2. ASSUME x \in Members(queue), packets[x].so = so PROVE \E i \in S : x \in ToSet(queue[i])
    <3>1. PICK i, a : Is(queue, i, a, x) BY <2>2, MembersAre
    <3>2. i \in 1 .. Len(queue) /\ packets[queue[i][1]].so = so BY <1>4, <1>5, <2>2, <3>1
    <3>3. i \in S BY <1>1, <3>2
    <3>4. x \in ToSet(queue[i]) BY <1>2, <3>1, <3>2
    <3> QED BY <3>3, <3>4
  <2> QED BY <2>1, <2>2
<1> HIDE DEF S
<1>8. UNION {ToSet(queue[i]) : i \in S} = {x \in Members(queue) : packets[x].so = so}
  BY <1>6, <1>7
<1> QED BY <1>8, Zenon DEF soqfree, S

LEMMA FreeKeeps ==
  ASSUME IInv, ArpInv, NEW so \in Sockets, sofree(so)
  PROVE  IInv' /\ ArpInv'
<1> DEFINE freed == soqfree(so, fastq) \cup soqfree(so, batchq)
<1>1. /\ so \in alive /\ alive' = alive \ {so}
      /\ packets' = [n \in DOMAIN packets |->
                       IF n \in freed THEN [packets[n] EXCEPT !.so = Nobody] ELSE packets[n]]
      /\ UNCHANGED <<fastq, batchq, queued, nqueued, last, hogs, disordered, arp, victim, heard, pool, count>>
  BY DEF sofree, table
<1>2. /\ Placed(fastq, batchq, packets, count) /\ Counted(packets, queued, nqueued, pool, count, alive)
      /\ Ordered(fastq, batchq, packets, hogs, last) /\ alive \subseteq Sockets
  BY DEF IInv, Invariant
<1>3. /\ fastq \in Lists /\ batchq \in Lists /\ DOMAIN packets = Members(fastq) \cup Members(batchq)
      /\ \A n \in DOMAIN packets : packets[n] \in Packets
      /\ \A x, y : Together(fastq, x, y) => packets[x].so = packets[y].so
      /\ \A x, y : Together(batchq, x, y) => packets[x].so = packets[y].so
  BY <1>2 DEF Placed
<1>4. freed = {n \in DOMAIN packets : packets[n].so = so}
  <2>1. soqfree(so, fastq) = {x \in Members(fastq) : packets[x].so = so} BY <1>3, SoqfreeIs
  <2>2. soqfree(so, batchq) = {x \in Members(batchq) : packets[x].so = so} BY <1>3, SoqfreeIs
  <2> QED BY <1>3, <2>1, <2>2
<1> HIDE DEF freed
<1>5. /\ DOMAIN packets' = DOMAIN packets
      /\ \A n \in DOMAIN packets :
           /\ packets'[n] \in Packets /\ packets'[n].so = IF packets[n].so = so THEN Nobody ELSE packets[n].so
           /\ packets'[n].dst = packets[n].dst /\ packets'[n].dofree = packets[n].dofree
  BY <1>1, <1>3, <1>4 DEF Packets
<1>6. Placed(fastq, batchq, packets', count)
  <2>1. \A x, y : Together(fastq, x, y) \/ Together(batchq, x, y) => x \in DOMAIN packets /\ y \in DOMAIN packets
    BY <1>3, Inside
  <2> QED BY <1>2, <1>5, <2>1 DEF Placed
<1>7. Nobody \notin Sockets BY QueueAssumption
<1>8. /\ Of(packets', so) = {}
      /\ \A s \in Sockets : s # so => Of(packets', s) = Of(packets, s)
      /\ DoFrees(packets') = DoFrees(packets)
  BY <1>5, <1>7 DEF Of, OfSet, DoFrees, DoFreeSet
<1>9. Counted(packets', queued, nqueued, pool, count, alive')
  <2>1. \A s \in Sockets :
          /\ s \notin alive' => Of(packets', s) = {}
          /\ s \in alive' => queued[s] = Cardinality(Of(packets', s)) /\ queued[s] <= nqueued[s]
    BY <1>1, <1>2, <1>8 DEF Counted
  <2> QED BY <1>2, <1>5, <1>8, <2>1 DEF Counted
<1>10. Ordered(fastq, batchq, packets', hogs, last)
  <2>1. \A n \in DOMAIN packets : packets'[n].so \in Sockets => packets'[n].so = packets[n].so
    BY <1>5, <1>7
  <2>2. \A n \in Members(fastq) : packets'[n].so \in LowDelay \cup {Nobody} BY <1>2, <1>3, <1>5 DEF Ordered
  <2>3. LowDelay \subseteq Sockets BY QueueAssumption
  <2>4. \A n \in Members(batchq) : packets'[n].so \in LowDelay => packets'[n].so \in hogs
    BY <1>2, <1>3, <2>1, <2>3 DEF Ordered
  <2> QED BY <1>2, <1>5, <2>1, <2>2, <2>4 DEF Ordered
<1>11. IInv' BY <1>1, <1>6, <1>9, <1>10 DEF IInv, Invariant
<1> QED BY <1>1, <1>11 DEF ArpInv

\* n is on the queues a1 and b1, at the end of a session of so's, and nothing else has changed.
Enters(a, b, m, h, n, so, a1, b1) ==
  /\ a1 \in Lists /\ b1 \in Lists /\ Once(a1) /\ Once(b1) /\ Members(a1) \cap Members(b1) = {}
  /\ Members(a1) \cup Members(b1) = Members(a) \cup Members(b) \cup {n}
  /\ Members(a1) \subseteq Members(a) \cup {n} /\ Members(b1) \subseteq Members(b) \cup {n}
  /\ n \in Members(a1) => so \in LowDelay
  /\ n \in Members(b1) /\ so \in LowDelay => so \in h
  /\ \A x, y : Together(a, x, y) \/ Together(b, x, y) => Together(a1, x, y) \/ Together(b1, x, y)
  /\ \A x, y : Together(a1, x, y) \/ Together(b1, x, y) =>
       \/ Together(a, x, y) \/ Together(b, x, y) \/ (x = n /\ y = n)
       \/ (x = n /\ y \in DOMAIN m /\ m[y].so = so)
       \/ (y = n /\ x \in DOMAIN m /\ m[x].so = so)
  /\ so \in Sockets \ LowDelay => \A y \in DOMAIN m \cup {n} : (y = n \/ m[y].so = so) =>
       /\ Together(a1, n, y) \/ Together(b1, n, y)
       /\ Together(a1, y, n) \/ Together(b1, y, n)
  /\ \A x, y : Before(a1, x, y) \/ Before(b1, x, y) =>
       \/ Before(a, x, y) \/ Before(b, x, y)
       \/ (x \in DOMAIN m /\ y = n)
       \/ (x = n /\ y \in DOMAIN m /\ ~(m[y].so = so /\ so \in Sockets \ (h \cap LowDelay)))
  /\ Ends(a1, n) /\ Ends(b1, n)

\* m_get: one mbuf more is in use.
LEMMA OneMore ==
  ASSUME NEW c \in Nat, NEW m, NEW m1, NEW mbufs \in Pools, DOMAIN m \subseteq 1 .. c,
         DOMAIN m1 = DOMAIN m \cup {c + 1},
         \A x \in DOMAIN m : m1[x].dofree = m[x].dofree,
         m1[c + 1].dofree = DoFree(mbufs),
         mbufs.alloced = mbufs.free + Cardinality(DOMAIN m),
         mbufs.alloced - Cardinality(DoFrees(m)) <= MBUF_THRESH
  PROVE  LET mbufs1 == m_get(mbufs)
         IN  /\ mbufs1 \in Pools
             /\ mbufs1.alloced = mbufs1.free + Cardinality(DOMAIN m1)
             /\ mbufs1.alloced - Cardinality(DoFrees(m1)) <= MBUF_THRESH
<1>1. IsFiniteSet(1 .. c)
  <2>1. 1 \in Int /\ c \in Int OBVIOUS
  <2> QED BY <2>1, FS_Interval
<1>2. IsFiniteSet(DOMAIN m) /\ IsFiniteSet(DoFrees(m)) /\ DoFrees(m) \subseteq DOMAIN m
  <2>1. DoFrees(m) \subseteq DOMAIN m BY DEF DoFrees, DoFreeSet
  <2> QED BY <1>1, <2>1, FS_Subset
<1>3. c + 1 \notin DOMAIN m /\ c + 1 \notin DoFrees(m) BY <1>2
<1>4. Cardinality(DOMAIN m) \in Nat /\ Cardinality(DoFrees(m)) \in Nat BY <1>2, FS_CardinalityType
<1>5. Cardinality(DOMAIN m1) = Cardinality(DOMAIN m) + 1
  <2> DEFINE D == DOMAIN m
             n == c + 1
  <2>1. IsFiniteSet(D) /\ n \notin D /\ DOMAIN m1 = D \cup {n} BY <1>2, <1>3
  <2> HIDE DEF D, n
  <2>2. Cardinality(D \cup {n}) = Cardinality(D) + 1 BY <2>1, FS_AddElement
  <2> QED BY <2>1, <2>2 DEF D
<1>6. DoFrees(m1) = IF DoFree(mbufs) THEN DoFrees(m) \cup {c + 1} ELSE DoFrees(m)
  <2>1. \A x \in DOMAIN m : x # c + 1 BY <1>3
  <2> QED BY <2>1 DEF DoFrees, DoFreeSet
<1>7. Cardinality(DoFrees(m1)) = Cardinality(DoFrees(m)) + (IF DoFree(mbufs) THEN 1 ELSE 0)
  <2> DEFINE D == DoFrees(m)
             n == c + 1
  <2>1. IsFiniteSet(D) /\ n \notin D /\ DoFrees(m1) = (IF DoFree(mbufs) THEN D \cup {n} ELSE D)
    BY <1>2, <1>3, <1>6
  <2> HIDE DEF D, n
  <2>2. Cardinality(D \cup {n}) = Cardinality(D) + 1 BY <2>1, FS_AddElement
  <2>3. Cardinality(D) \in Nat BY <2>1, FS_CardinalityType
  <2>4. CASE DoFree(mbufs) BY <2>1, <2>2, <2>4 DEF D
  <2>5. CASE ~DoFree(mbufs) BY <2>1, <2>3, <2>5 DEF D
  <2> QED BY <2>4, <2>5
<1>8. mbufs.alloced \in Nat /\ mbufs.free \in Nat BY DEF Pools
<1>9. CASE mbufs.free = 0
  <2>1. m_get(mbufs).alloced = mbufs.alloced + 1 /\ m_get(mbufs).free = mbufs.free /\ m_get(mbufs) \in Pools
    BY <1>9 DEF m_get, Pools
  <2>2. DoFree(mbufs) <=> mbufs.alloced + 1 > MBUF_THRESH BY <1>9 DEF DoFree
  <2> QED BY <1>4, <1>5, <1>7, <1>8, <2>1, <2>2, MbufAssumption
<1>10. CASE mbufs.free # 0
  <2>1. m_get(mbufs).alloced = mbufs.alloced /\ m_get(mbufs).free = mbufs.free - 1 /\ m_get(mbufs) \in Pools
    BY <1>8, <1>10 DEF m_get, Pools
  <2>2. ~DoFree(mbufs) BY <1>10 DEF DoFree
  <2> QED BY <1>4, <1>5, <1>7, <1>8, <2>1, <2>2, MbufAssumption
<1> QED BY <1>9, <1>10

\* A packet of so's that enters, with its mbuf p.
Enqueued(m, p, mbufs, n, so, m1) ==
  /\ DOMAIN m1 = DOMAIN m \cup {n} /\ (\A x \in DOMAIN m : m1[x] = m[x]) /\ m1[n] = p
  /\ p \in Packets /\ p.so = so /\ p.dofree = DoFree(mbufs) /\ (so \in Sockets => p.dst = GuestOf[so])
CountsMore(q, so) == IF so = Nobody THEN q ELSE [q EXCEPT ![so] = @ + 1]

LEMMA EntersKeeps ==
  ASSUME NEW a, NEW b, NEW m, NEW c \in Nat, NEW q, NEW nq, NEW mbufs, NEW live \in SUBSET Sockets,
         NEW h, NEW l, NEW d, NEW so \in live \cup {Nobody}, NEW a1, NEW b1, NEW m1, NEW p,
         Invariant(a, b, m, c, q, nq, mbufs, live, h, l, d),
         Enters(a, b, m, h, c + 1, so, a1, b1), Enqueued(m, p, mbufs, c + 1, so, m1)
  PROVE  Invariant(a1, b1, m1, c + 1, CountsMore(q, so), CountsMore(nq, so), m_get(mbufs), live, h, l, d)
<1> DEFINE n == c + 1
           q1 == CountsMore(q, so)
           nq1 == CountsMore(nq, so)
<1>1. /\ Placed(a, b, m, c) /\ Counted(m, q, nq, mbufs, c, live) /\ Ordered(a, b, m, h, l)
      /\ l \in [Sockets -> 0 .. c] /\ h \subseteq Sockets /\ d \subseteq h \cap LowDelay
  BY DEF Invariant
<1>2. /\ a \in Lists /\ b \in Lists /\ DOMAIN m = Members(a) \cup Members(b) /\ DOMAIN m \subseteq 1 .. c
      /\ \A x \in DOMAIN m : m[x] \in Packets
      /\ \A x, y : Together(a, x, y) \/ Together(b, x, y) => m[x].so = m[y].so
  BY <1>1 DEF Placed
<1>3. n \notin DOMAIN m /\ n \in Nat /\ 1 .. c \subseteq 1 .. n /\ n \in 1 .. n BY <1>2
<1>4. /\ DOMAIN m1 = DOMAIN m \cup {n} /\ (\A x \in DOMAIN m : m1[x] = m[x]) /\ m1[n] = p
      /\ p \in Packets /\ p.so = so /\ p.dofree = DoFree(mbufs) /\ (so \in Sockets => p.dst = GuestOf[so])
  BY DEF Enqueued
<1>5. Nobody \notin Sockets BY QueueAssumption
<1> HIDE DEF n
<1>6. /\ a1 \in Lists /\ b1 \in Lists /\ Once(a1) /\ Once(b1) /\ Members(a1) \cap Members(b1) = {}
      /\ DOMAIN m1 = Members(a1) \cup Members(b1)
      /\ Members(a1) \subseteq Members(a) \cup {n} /\ Members(b1) \subseteq Members(b) \cup {n}
      /\ n \in Members(a1) => so \in LowDelay
      /\ n \in Members(b1) /\ so \in LowDelay => so \in h
  BY <1>2, <1>4 DEF Enters, n
<1>7. \A x, y : Together(a, x, y) \/ Together(b, x, y) => x \in DOMAIN m /\ y \in DOMAIN m
  BY <1>2, Inside
<1>8. \A x, y : Together(a1, x, y) \/ Together(b1, x, y) =>
       \/ Together(a, x, y) \/ Together(b, x, y) \/ (x = n /\ y = n)
       \/ (x = n /\ y \in DOMAIN m /\ m[y].so = so)
       \/ (y = n /\ x \in DOMAIN m /\ m[x].so = so)
  BY DEF Enters, n
<1>9. Placed(a1, b1, m1, n)
  <2>1. DOMAIN m1 \subseteq 1 .. n BY <1>2, <1>3, <1>4
  <2>2. \A x \in DOMAIN m1 : m1[x] \in Packets BY <1>2, <1>4
  <2>3. \A x, y : Together(a1, x, y) \/ Together(b1, x, y) => m1[x].so = m1[y].so
    BY <1>2, <1>4, <1>7, <1>8
  <2> QED BY <1>6, <2>1, <2>2, <2>3 DEF Placed
<1>10. /\ q \in [Sockets -> 0 .. c] /\ nq \in [Sockets -> 0 .. c] /\ mbufs \in Pools
       /\ \A s \in Sockets :
            /\ s \notin live => Of(m, s) = {}
            /\ s \in live => q[s] = Cardinality(Of(m, s)) /\ q[s] <= nq[s]
       /\ mbufs.alloced = mbufs.free + Cardinality(DOMAIN m)
       /\ mbufs.alloced - Cardinality(DoFrees(m)) <= MBUF_THRESH
  BY <1>1 DEF Counted
<1>11. \A s \in Sockets : /\ q1[s] = (IF s = so THEN q[s] + 1 ELSE q[s])
                          /\ nq1[s] = (IF s = so THEN nq[s] + 1 ELSE nq[s])
  BY <1>5, <1>10 DEF CountsMore
<1>12. q1 \in [Sockets -> 0 .. n] /\ nq1 \in [Sockets -> 0 .. n]
  <2>1. q \in [Sockets -> 0 .. n] /\ nq \in [Sockets -> 0 .. n] BY <1>10 DEF n
  <2>2. \A s \in Sockets : q[s] + 1 \in 0 .. n /\ nq[s] + 1 \in 0 .. n BY <1>10 DEF n
  <2> QED BY <2>1, <2>2 DEF CountsMore
<1>13. \A s \in Sockets : Of(m1, s) = IF s = so THEN Of(m, s) \cup {n} ELSE Of(m, s)
  BY <1>3, <1>4 DEF Of, OfSet
<1>14. ASSUME NEW s \in Sockets
       PROVE  /\ s \notin live => Of(m1, s) = {}
              /\ s \in live => q1[s] = Cardinality(Of(m1, s)) /\ q1[s] <= nq1[s]
  <2>1. CASE s # so BY <1>10, <1>11, <1>13, <2>1
  <2>2. CASE s = so
    <3>1. s \in live BY <1>5, <2>2
    <3>2. IsFiniteSet(1 .. c) /\ Of(m, s) \subseteq 1 .. c /\ n \notin Of(m, s)
      <4>1. 1 \in Int /\ c \in Int OBVIOUS
      <4>2. IsFiniteSet(1 .. c) BY <4>1, FS_Interval
      <4> QED BY <1>2, <1>3, <4>2 DEF Of, OfSet
    <3>3. IsFiniteSet(Of(m, s)) BY <3>2, FS_Subset
    <3>4. Cardinality(Of(m1, s)) = Cardinality(Of(m, s)) + 1 BY <1>13, <2>2, <3>2, <3>3, FS_AddElement
    <3>5. q[s] \in Int /\ nq[s] \in Int BY <1>10
    <3> QED BY <1>10, <1>11, <2>2, <3>1, <3>4, <3>5
  <2> QED BY <2>1, <2>2
<1>15. LET mbufs1 == m_get(mbufs)
       IN  /\ mbufs1 \in Pools
           /\ mbufs1.alloced = mbufs1.free + Cardinality(DOMAIN m1)
           /\ mbufs1.alloced - Cardinality(DoFrees(m1)) <= MBUF_THRESH
  <2>1. DOMAIN m1 = DOMAIN m \cup {c + 1} /\ m1[c + 1].dofree = DoFree(mbufs)
        /\ \A x \in DOMAIN m : m1[x].dofree = m[x].dofree
    BY <1>4 DEF n
  <2> QED BY <1>2, <1>10, <2>1, OneMore
<1>16. Counted(m1, q1, nq1, m_get(mbufs), n, live) BY <1>12, <1>14, <1>15 DEF Counted
<1>17. Ordered(a1, b1, m1, h, l)
  <2>1. \A x \in Members(a1) : m1[x].so \in LowDelay \cup {Nobody} BY <1>1, <1>2, <1>4, <1>6 DEF Ordered
  <2>2. \A x \in Members(b1) : m1[x].so \in LowDelay => m1[x].so \in h BY <1>1, <1>2, <1>4, <1>6 DEF Ordered
  <2>3. \A x \in DOMAIN m1 : m1[x].so \in Sockets =>
          m1[x].dst = GuestOf[m1[x].so] /\ (m1[x].so \notin h \cap LowDelay => l[m1[x].so] < x)
    <3>1. \A s \in Sockets : l[s] < n BY <1>1 DEF n
    <3> QED BY <1>1, <1>4, <3>1 DEF Ordered
  <2>4. ASSUME NEW x \in DOMAIN m1, NEW y \in DOMAIN m1, m1[x].so = m1[y].so, m1[x].so \in Sockets
        PROVE  /\ m1[x].so \notin LowDelay => Together(a1, x, y) \/ Together(b1, x, y)
               /\ m1[x].so \notin h \cap LowDelay /\ (Before(a1, x, y) \/ Before(b1, x, y)) => x < y
    <3>1. ASSUME m1[x].so \notin LowDelay PROVE Together(a1, x, y) \/ Together(b1, x, y)
      <4>1. so \in Sockets \ LowDelay => \A z \in DOMAIN m \cup {n} : (z = n \/ m[z].so = so) =>
              /\ Together(a1, n, z) \/ Together(b1, n, z)
              /\ Together(a1, z, n) \/ Together(b1, z, n)
        BY DEF Enters, n
      <4>2. CASE x = n BY <1>4, <2>4, <3>1, <4>1, <4>2
      <4>3. CASE y = n BY <1>4, <2>4, <3>1, <4>1, <4>3
      <4>4. CASE x # n /\ y # n
        <5>1. x \in DOMAIN m /\ y \in DOMAIN m /\ m1[x] = m[x] /\ m1[y] = m[y] BY <1>4, <4>4
        <5>2. Together(a, x, y) \/ Together(b, x, y) BY <1>1, <2>4, <3>1, <5>1 DEF Ordered
        <5> QED BY <5>2 DEF Enters
      <4> QED BY <4>2, <4>3, <4>4
    <3>2. ASSUME m1[x].so \notin h \cap LowDelay, Before(a1, x, y) \/ Before(b1, x, y) PROVE x < y
      <4>1. \/ Before(a, x, y) \/ Before(b, x, y)
            \/ (x \in DOMAIN m /\ y = n)
            \/ (x = n /\ y \in DOMAIN m /\ ~(m[y].so = so /\ so \in Sockets \ (h \cap LowDelay)))
        BY <3>2 DEF Enters, n
      <4>2. ~(x = n /\ y \in DOMAIN m /\ ~(m[y].so = so /\ so \in Sockets \ (h \cap LowDelay)))
        BY <1>4, <2>4, <3>2
      <4>3. CASE x \in DOMAIN m /\ y = n BY <1>2, <4>3 DEF n
      <4>4. CASE Before(a, x, y) \/ Before(b, x, y)
        <5>1. x \in DOMAIN m /\ y \in DOMAIN m BY <1>2, <4>4, Inside
        <5>2. m1[x] = m[x] /\ m1[y] = m[y] BY <1>4, <5>1
        <5> QED BY <1>1, <2>4, <3>2, <4>4, <5>1, <5>2 DEF Ordered
      <4> QED BY <4>1, <4>2, <4>3, <4>4
    <3> QED BY <3>1, <3>2
  <2> QED BY <2>1, <2>2, <2>3, <2>4 DEF Ordered
<1>18. l \in [Sockets -> 0 .. n] BY <1>1 DEF n
<1> QED BY <1>1, <1>9, <1>16, <1>17, <1>18 DEF Invariant, n

\* n is at the end of a session of so's on one queue: no earlier one, unless it may.
Grows(queue, new, m, h, n, so) ==
  /\ new \in Lists /\ Once(new) /\ Members(new) = Members(queue) \cup {n} /\ Ends(new, n)
  /\ \A x, y : Together(queue, x, y) => Together(new, x, y)
  /\ \A x, y : Together(new, x, y) =>
       \/ Together(queue, x, y) \/ (x = n /\ y = n)
       \/ (x = n /\ y \in Members(queue) /\ m[y].so = so)
       \/ (y = n /\ x \in Members(queue) /\ m[x].so = so)
  /\ \A x, y : Before(new, x, y) =>
       \/ Before(queue, x, y) \/ (x \in Members(queue) /\ y = n)
       \/ (x = n /\ y \in Members(queue) /\ ~(m[y].so = so /\ so \in Sockets \ (h \cap LowDelay)))

LEMMA GrowsEnters ==
  ASSUME NEW a, NEW b, NEW m, NEW c \in Nat, NEW h, NEW n, NEW so, Placed(a, b, m, c), n \notin DOMAIN m,
         NEW a1, NEW b1,
         \/ Grows(a, a1, m, h, n, so) /\ b1 = b /\ so \in LowDelay
         \/ Grows(b, b1, m, h, n, so) /\ a1 = a /\ (so \in LowDelay => so \in h),
         so \in Sockets \ LowDelay => \A y \in DOMAIN m \cup {n} : (y = n \/ m[y].so = so) =>
           Together(b1, n, y) /\ Together(b1, y, n)
  PROVE  Enters(a, b, m, h, n, so, a1, b1)
<1>1. /\ a \in Lists /\ b \in Lists /\ Once(a) /\ Once(b) /\ Members(a) \cap Members(b) = {}
      /\ DOMAIN m = Members(a) \cup Members(b) /\ n \notin Members(a) /\ n \notin Members(b)
  BY DEF Placed
<1>2. Ends(a, n) /\ Ends(b, n) BY <1>1, MembersAre DEF Ends
<1>3. CASE Grows(a, a1, m, h, n, so) /\ b1 = b /\ so \in LowDelay
  BY <1>1, <1>2, <1>3 DEF Grows, Enters
<1>4. CASE Grows(b, b1, m, h, n, so) /\ a1 = a /\ (so \in LowDelay => so \in h)
  BY <1>1, <1>2, <1>4 DEF Grows, Enters
<1> QED BY <1>3, <1>4

\* Joining a session of so's lets a queue grow; so does starting one.
LEMMA JoinedGrows ==
  ASSUME NEW queue \in Lists, Once(queue), NEW i \in 1 .. Len(queue), NEW n \in Nat,
         n \notin Members(queue), NEW m, NEW h, NEW so, m[queue[i][1]].so = so,
         \A x, y : Together(queue, x, y) => m[x].so = m[y].so,
         \/ i = Len(queue)
         \/ so \in Sockets \ (h \cap LowDelay) =>
              \A y \in Members(queue) : m[y].so = so => Together(queue, queue[i][1], y)
  PROVE  Grows(queue, Joined(queue, i, n), m, h, n, so)
<1> DEFINE new == Joined(queue, i, n)
           head == queue[i][1]
<1>1. /\ new \in Lists /\ Once(new) /\ Members(new) = Members(queue) \cup {n}
      /\ head \in Members(queue)
      /\ \A x, y : Together(new, x, y) <=> \/ Together(queue, x, y)
                                           \/ (x = n /\ y = n)
                                           \/ (x = n /\ Together(queue, head, y))
                                           \/ (y = n /\ Together(queue, head, x))
      /\ \A x, y : Before(new, x, y) =>
           \/ Before(queue, x, y)
           \/ (x \in Members(queue) /\ y = n)
           \/ (x = n /\ y \in Members(queue) /\ ~Together(queue, head, y) /\ i < Len(queue))
      /\ Ends(new, n)
  BY Joining
<1>2. Len(queue) \in Nat BY Places
<1>3. \A x : Together(queue, head, x) => x \in Members(queue) /\ m[x].so = so BY Inside
<1> HIDE DEF new, head
<1>4. \A x, y : Before(new, x, y) =>
        \/ Before(queue, x, y) \/ (x \in Members(queue) /\ y = n)
        \/ (x = n /\ y \in Members(queue) /\ ~(m[y].so = so /\ so \in Sockets \ (h \cap LowDelay)))
  <2>1. CASE i = Len(queue) BY <1>1, <1>2, <2>1
  <2>2. CASE i # Len(queue)
    <3>1. so \in Sockets \ (h \cap LowDelay) => \A y \in Members(queue) : m[y].so = so => Together(queue, head, y)
      BY <2>2 DEF head
    <3> QED BY <1>1, <3>1
  <2> QED BY <2>1, <2>2
<1>5. Grows(queue, new, m, h, n, so) BY <1>1, <1>3, <1>4 DEF Grows
<1> QED BY <1>5 DEF new

LEMMA StartedGrows ==
  ASSUME NEW queue \in Lists, Once(queue), NEW n \in Nat, n \notin Members(queue),
         NEW m, NEW h, NEW so
  PROVE  Grows(queue, Append(queue, <<n>>), m, h, n, so)
<1> DEFINE new == Append(queue, <<n>>)
<1>1. /\ new \in Lists /\ Once(new) /\ Members(new) = Members(queue) \cup {n}
      /\ \A x, y : Together(new, x, y) <=> Together(queue, x, y) \/ (x = n /\ y = n)
      /\ \A x, y : Before(new, x, y) => Before(queue, x, y) \/ (x \in Members(queue) /\ y = n)
      /\ Ends(new, n)
  BY Starting
<1> HIDE DEF new
<1>2. Grows(queue, new, m, h, n, so) BY <1>1 DEF Grows
<1> QED BY <1>2 DEF new

\* if_output finds the right session for a packet, or makes one.
LEMMA EnqueueEnters ==
  ASSUME IInv, NEW so \in alive \cup {Nobody}
  PROVE  \E p, q : /\ Enqueue(count + 1, so) = <<p, q>>
                   /\ Enters(fastq, batchq, packets, hogs, count + 1, so, p, q)
<1> DEFINE n == count + 1
<1>1. /\ Placed(fastq, batchq, packets, count) /\ Ordered(fastq, batchq, packets, hogs, last)
      /\ count \in Nat /\ alive \subseteq Sockets
  BY DEF IInv, Invariant
<1>2. /\ fastq \in Lists /\ batchq \in Lists /\ Once(fastq) /\ Once(batchq)
      /\ Members(fastq) \cap Members(batchq) = {}
      /\ DOMAIN packets = Members(fastq) \cup Members(batchq) /\ DOMAIN packets \subseteq 1 .. count
      /\ \A x, y : Together(fastq, x, y) => packets[x].so = packets[y].so
      /\ \A x, y : Together(batchq, x, y) => packets[x].so = packets[y].so
  BY <1>1 DEF Placed
<1>3. n \in Nat /\ n \notin DOMAIN packets /\ n \notin Members(fastq) /\ n \notin Members(batchq)
  BY <1>1, <1>2
<1>4. LowDelay \subseteq Sockets /\ Nobody \notin Sockets BY QueueAssumption
<1>5. /\ Len(batchq) \in Nat /\ Len(fastq) \in Nat /\ DOMAIN batchq = 1 .. Len(batchq)
      /\ \A i \in 1 .. Len(batchq) : batchq[i][1] \in Members(batchq) /\ Is(batchq, i, 1, batchq[i][1])
  <2> SUFFICES ASSUME NEW i \in 1 .. Len(batchq)
               PROVE  batchq[i][1] \in Members(batchq) /\ Is(batchq, i, 1, batchq[i][1])
    BY <1>2, Places
  <2>1. Len(batchq[i]) \in Nat /\ Len(batchq[i]) > 0 BY <1>2, Places
  <2>2. 1 \in 1 .. Len(batchq[i]) BY <2>1
  <2>3. Is(batchq, i, 1, batchq[i][1]) BY <2>2, Zenon DEF Is
  <2> QED BY <1>2, <2>3, MembersAre
<1> HIDE DEF n
<1>6. CASE so # Nobody /\ InBatch(so) # {}
  <2> DEFINE i == Max(InBatch(so))
             new == Joined(batchq, i, n)
             head == batchq[i][1]
  <2>1. i \in 1 .. Len(batchq) /\ packets[head].so = so
    <3>1. InBatch(so) \in SUBSET (0 .. Len(batchq)) BY <1>5 DEF InBatch
    <3>2. i \in InBatch(so) BY <1>5, <1>6, <3>1, MaxIs
    <3> HIDE DEF i
    <3> QED BY <1>5, <3>2 DEF InBatch
  <2>2. Enqueue(n, so) = <<fastq, new>> BY <1>6, Zenon DEF Enqueue, Joined
  <2> HIDE DEF i, new
  <2>3. head \in Members(batchq) /\ so \in Sockets BY <1>1, <1>5, <1>6, <2>1
  <2>4. so \in LowDelay => so \in hogs BY <1>1, <2>1, <2>3 DEF Ordered
  <2>5. so \notin LowDelay => \A y \in DOMAIN packets : packets[y].so = so => Together(batchq, head, y) /\ Together(batchq, y, head)
    <3> SUFFICES ASSUME so \notin LowDelay, NEW y \in DOMAIN packets, packets[y].so = so
                 PROVE  Together(batchq, head, y) /\ Together(batchq, y, head)
      OBVIOUS
    <3>1. head \in DOMAIN packets /\ head \notin Members(fastq) BY <1>2, <2>3
    <3>2. ~Together(fastq, head, y) /\ ~Together(fastq, y, head) BY <1>2, <3>1, Inside
    <3>3. (Together(fastq, head, y) \/ Together(batchq, head, y)) /\ (Together(fastq, y, head) \/ Together(batchq, y, head))
      BY <1>1, <2>1, <2>3, <3>1 DEF Ordered
    <3> QED BY <3>2, <3>3
  <2>6. Grows(batchq, new, packets, hogs, n, so)
    <3>1. so \in Sockets \ (hogs \cap LowDelay) => \A y \in Members(batchq) : packets[y].so = so => Together(batchq, head, y)
      BY <1>2, <2>4, <2>5
    <3> QED BY <1>2, <1>3, <2>1, <3>1, JoinedGrows DEF new
  <2>7. so \in Sockets \ LowDelay => \A y \in DOMAIN packets \cup {n} : (y = n \/ packets[y].so = so) =>
          Together(new, n, y) /\ Together(new, y, n)
    <3>1. \A x, y : Together(new, x, y) <=> \/ Together(batchq, x, y)
                                           \/ (x = n /\ y = n)
                                           \/ (x = n /\ Together(batchq, head, y))
                                           \/ (y = n /\ Together(batchq, head, x))
      BY <1>2, <1>3, <2>1, Joining DEF new
    <3> QED BY <2>5, <3>1
  <2>8. Enters(fastq, batchq, packets, hogs, n, so, fastq, new)
    BY <1>1, <1>3, <2>4, <2>6, <2>7, GrowsEnters
  <2> QED BY <2>2, <2>8 DEF n
<1>7. CASE so \in LowDelay /\ InBatch(so) = {}
  <2>1. so # Nobody BY <1>4, <1>7
  <2>2. CASE fastq # <<>> /\ packets[Last(fastq)[1]].so = so
    <3> DEFINE i == Len(fastq)
               new == Joined(fastq, i, n)
    <3>1. Enqueue(n, so) = <<new, batchq>> BY <1>7, <2>1, <2>2, Zenon DEF Enqueue, Joined
    <3>2. i \in 1 .. Len(fastq)
      <4>1. Len(fastq) > 0
        <5>1. fastq \in Seq(Seq(Nat)) BY <1>2, Places
        <5> QED BY <2>2, <5>1, EmptySeq
      <4> QED BY <1>5, <4>1
    <3>3. packets[fastq[i][1]].so = so BY <2>2, Zenon DEF Last
    <3> HIDE DEF new
    <3>4. Grows(fastq, new, packets, hogs, n, so)
      <4>1. i = Len(fastq) OBVIOUS
      <4> HIDE DEF i
      <4> QED BY <1>2, <1>3, <3>2, <3>3, <4>1, JoinedGrows DEF new
    <3>5. Enters(fastq, batchq, packets, hogs, n, so, new, batchq) BY <1>1, <1>3, <1>7, <3>4, GrowsEnters
    <3> QED BY <3>1, <3>5 DEF n
  <2>3. CASE ~(fastq # <<>> /\ packets[Last(fastq)[1]].so = so)
    <3> DEFINE new == Append(fastq, <<n>>)
    <3>1. Enqueue(n, so) = <<new, batchq>> BY <1>7, <2>1, <2>3, Zenon DEF Enqueue
    <3>2. Grows(fastq, new, packets, hogs, n, so) BY <1>2, <1>3, StartedGrows
    <3> HIDE DEF new
    <3>3. Enters(fastq, batchq, packets, hogs, n, so, new, batchq) BY <1>1, <1>3, <1>7, <3>2, GrowsEnters
    <3> QED BY <3>1, <3>3 DEF n
  <2> QED BY <2>2, <2>3
<1>8. CASE so \notin LowDelay /\ (so = Nobody \/ InBatch(so) = {})
  <2> DEFINE new == Append(batchq, <<n>>)
  <2>1. Enqueue(n, so) = <<fastq, new>> BY <1>8, Zenon DEF Enqueue
  <2>2. Grows(batchq, new, packets, hogs, n, so) BY <1>2, <1>3, StartedGrows
  <2>3. Together(new, n, n) BY <1>2, <1>3, Starting
  <2> HIDE DEF new
  <2>4. so \in Sockets => \A y \in DOMAIN packets : packets[y].so # so
    <3> SUFFICES ASSUME so \in Sockets, NEW y \in DOMAIN packets, packets[y].so = so PROVE FALSE OBVIOUS
    <3>1. y \notin Members(fastq) BY <1>1, <1>4, <1>8 DEF Ordered
    <3>2. PICK i, a : Is(batchq, i, a, y) BY <1>2, <3>1, MembersAre
    <3>3. i \in 1 .. Len(batchq) BY <3>2 DEF Is
    <3>4. Together(batchq, batchq[i][1], y) BY <1>5, <3>2, <3>3, Zenon DEF Together
    <3>5. i \in InBatch(so) BY <1>2, <1>5, <3>3, <3>4 DEF InBatch
    <3> QED BY <1>4, <1>8, <3>5
  <2>5. so \in Sockets \ LowDelay => \A y \in DOMAIN packets \cup {n} : (y = n \/ packets[y].so = so) =>
          Together(new, n, y) /\ Together(new, y, n)
    BY <2>3, <2>4
  <2>6. Enters(fastq, batchq, packets, hogs, n, so, fastq, new) BY <1>1, <1>3, <1>8, <2>2, <2>5, GrowsEnters
  <2> QED BY <2>1, <2>6 DEF n
<1> QED BY <1>4, <1>6, <1>7, <1>8

\* A session goes to the front of the batch queue, and its socket is one of the hogs.
LEMMA DowngradeKeeps ==
  ASSUME NEW a, NEW b, NEW m, NEW c, NEW q, NEW nq, NEW mbufs, NEW live, NEW h, NEW l, NEW d,
         Invariant(a, b, m, c, q, nq, mbufs, live, h, l, d),
         NEW n \in DOMAIN m, NEW so \in Sockets, m[n].so = so, Ends(a, n), Ends(b, n)
  PROVE  \E a1, b1 : /\ Downgrade(<<a, b>>, n) = <<a1, b1>>
                     /\ Invariant(a1, b1, m, c, q, nq, mbufs, live, h \cup {so}, l, d)
<1> DEFINE D == Downgrade(<<a, b>>, n)
           a1 == D[1]
           b1 == D[2]
           M == {x \in Nat : Together(a, x, n) \/ Together(b, x, n)}
<1>1. /\ Placed(a, b, m, c) /\ Counted(m, q, nq, mbufs, c, live) /\ Ordered(a, b, m, h, l)
      /\ l \in [Sockets -> 0 .. c] /\ h \subseteq Sockets /\ d \subseteq h \cap LowDelay
  BY DEF Invariant
<1>2. /\ a \in Lists /\ b \in Lists /\ Once(a) /\ Once(b) /\ Members(a) \cap Members(b) = {}
      /\ DOMAIN m = Members(a) \cup Members(b) /\ DOMAIN m \subseteq 1 .. c
      /\ \A x, y : Together(a, x, y) \/ Together(b, x, y) => m[x].so = m[y].so
  BY <1>1 DEF Placed
<1>3. /\ a1 \in Lists /\ b1 \in Lists /\ Once(a1) /\ Once(b1)
      /\ M \subseteq Members(a) \cup Members(b)
      /\ Members(a1) = Members(a) \ M /\ Members(b1) = Members(b) \cup M
      /\ \A x, y : Together(a1, x, y) \/ Together(b1, x, y) <=> Together(a, x, y) \/ Together(b, x, y)
      /\ \A x, y : Before(a1, x, y) => Before(a, x, y)
      /\ \A x, y : Before(b1, x, y) => Before(a, x, y) \/ Before(b, x, y) \/ (x \in M /\ y \notin M)
  <2>1. n \in Members(a) \cup Members(b) BY <1>2
  <2> QED BY <1>2, <2>1, Downgrades
<1>4. D = <<a1, b1>>
  <2>1. \A x, y : <<x, y>> = <<(<<x, y>>)[1], (<<x, y>>)[2]>> OBVIOUS
  <2> QED BY <2>1, Zenon DEF Downgrade
<1> HIDE DEF D
<1>5. /\ \A x \in M : m[x].so = so
      /\ \A x \in DOMAIN m : Together(a, x, n) \/ Together(b, x, n) => x \in M
  BY <1>2
<1> HIDE DEF M, a1, b1
<1>6. Placed(a1, b1, m, c)
  <2>1. Members(a1) \cap Members(b1) = {} /\ DOMAIN m = Members(a1) \cup Members(b1) BY <1>2, <1>3
  <2>2. \A x, y : Together(a1, x, y) \/ Together(b1, x, y) => m[x].so = m[y].so BY <1>2, <1>3
  <2> QED BY <1>1, <1>3, <2>1, <2>2 DEF Placed
<1>7. Ordered(a1, b1, m, h \cup {so}, l)
  <2>1. \A x \in Members(a1) : m[x].so \in LowDelay \cup {Nobody} BY <1>1, <1>3 DEF Ordered
  <2>2. \A x \in Members(b1) : m[x].so \in LowDelay => m[x].so \in h \cup {so}
    <3>1. \A x \in Members(b) : m[x].so \in LowDelay => m[x].so \in h BY <1>1 DEF Ordered
    <3> QED BY <1>3, <1>5, <3>1
  <2>3. \A x \in DOMAIN m : m[x].so \in Sockets =>
          m[x].dst = GuestOf[m[x].so] /\ (m[x].so \notin (h \cup {so}) \cap LowDelay => l[m[x].so] < x)
    BY <1>1 DEF Ordered
  <2>4. ASSUME NEW x \in DOMAIN m, NEW y \in DOMAIN m, m[x].so = m[y].so, m[x].so \in Sockets
        PROVE  /\ m[x].so \notin LowDelay => Together(a1, x, y) \/ Together(b1, x, y)
               /\ m[x].so \notin (h \cup {so}) \cap LowDelay /\ (Before(a1, x, y) \/ Before(b1, x, y)) => x < y
    <3>1. /\ m[x].so \notin LowDelay => Together(a, x, y) \/ Together(b, x, y)
          /\ m[x].so \notin h \cap LowDelay /\ (Before(a, x, y) \/ Before(b, x, y)) => x < y
      BY <1>1, <2>4 DEF Ordered
    <3>2. ASSUME m[x].so \notin (h \cup {so}) \cap LowDelay, x \in M PROVE y \in M
      <4>1. m[y].so = m[n].so /\ m[y].so \in Sockets \ LowDelay BY <1>5, <2>4, <3>2
      <4>2. Together(a, y, n) \/ Together(b, y, n) BY <1>1, <4>1 DEF Ordered
      <4> QED BY <1>5, <4>2
    <3> QED BY <1>3, <3>1, <3>2
  <2> QED BY <2>1, <2>2, <2>3, <2>4 DEF Ordered
<1>8. h \cup {so} \subseteq Sockets /\ d \subseteq (h \cup {so}) \cap LowDelay BY <1>1
<1>9. Invariant(a1, b1, m, c, q, nq, mbufs, live, h \cup {so}, l, d) BY <1>1, <1>6, <1>7, <1>8 DEF Invariant
<1> QED BY <1>4, <1>9 DEF D

LEMMA OutputKeeps ==
  ASSUME IInv, ArpInv, NEW so \in alive \cup {Nobody}, NEW dst \in Guests, so \in Sockets => dst = GuestOf[so],
         if_output(so, dst)
  PROVE  IInv' /\ ArpInv'
<1> DEFINE n == count + 1
           p == [so |-> so, dst |-> dst, due |-> Fresh, dofree |-> DoFree(pool)]
           hog == so # Nobody /\ Hogs(so)
           e == Enqueue(n, so)
           q == IF hog THEN Downgrade(e, n) ELSE e
           Plus(f) == IF so = Nobody THEN f ELSE [f EXCEPT ![so] = @ + 1]
           m1 == [k \in DOMAIN packets \cup {n} |-> IF k = n THEN p ELSE packets[k]]
           h1 == IF hog THEN hogs \cup {so} ELSE hogs
<1>1. /\ count < MaxPackets /\ count' = n
      /\ Starts(q[1], q[2], m1, Plus(queued), Plus(nqueued), m_get(pool))
      /\ hogs' = h1 /\ UNCHANGED <<alive, arp, victim, heard>>
  BY DEF if_output, table
<1>2. /\ Invariant(fastq, batchq, packets, count, queued, nqueued, pool, alive, hogs, last, disordered)
      /\ count \in 0 .. MaxPackets /\ MaxPackets \in Nat /\ alive \subseteq Sockets
  BY QueueAssumption DEF IInv
<1>3. count \in Nat /\ n \in Nat /\ n \in 0 .. MaxPackets BY <1>1, <1>2
<1>4. PICK a, b : e = <<a, b>> /\ Enters(fastq, batchq, packets, hogs, n, so, a, b) BY EnqueueEnters
<1>5. Enqueued(packets, p, pool, n, so, m1)
  <2>1. Placed(fastq, batchq, packets, count) BY <1>2 DEF Invariant
  <2>2. n \notin DOMAIN packets BY <1>3, <2>1 DEF Placed
  <2>3. p \in Packets
    <3>1. Fresh \in 0 .. Fresh BY QueueAssumption DEF Fresh
    <3>2. DoFree(pool) \in BOOLEAN BY DEF DoFree
    <3> QED BY <1>2, <3>1, <3>2 DEF Packets
  <2>4. DOMAIN m1 = DOMAIN packets \cup {n} /\ (\A x \in DOMAIN packets : m1[x] = packets[x]) /\ m1[n] = p
    <3> HIDE DEF n, p
    <3> QED BY <2>2
  <2> HIDE DEF n, m1
  <2> QED BY <2>3, <2>4 DEF Enqueued
<1>6. Plus(queued) = CountsMore(queued, so) /\ Plus(nqueued) = CountsMore(nqueued, so) BY DEF CountsMore
<1>7. Invariant(a, b, m1, n, Plus(queued), Plus(nqueued), m_get(pool), alive, hogs, last, disordered)
  <2> HIDE DEF p, m1, Plus
  <2> QED BY <1>2, <1>3, <1>4, <1>5, <1>6, EntersKeeps
<1>8. \E a1, b1 : q = <<a1, b1>> /\ Invariant(a1, b1, m1, n, Plus(queued), Plus(nqueued), m_get(pool), alive, h1, last, disordered)
  <2> HIDE DEF m1, Plus, p, n
  <2>1. CASE ~hog BY <1>4, <1>7, <2>1, Zenon
  <2>2. CASE hog
    <3>1. so \in Sockets BY <1>2, <2>2
    <3>2. n \in DOMAIN m1 /\ m1[n].so = so BY <1>5 DEF Enqueued
    <3>3. Ends(a, n) /\ Ends(b, n) BY <1>4 DEF Enters
    <3>4. \E a1, b1 : /\ Downgrade(<<a, b>>, n) = <<a1, b1>>
                      /\ Invariant(a1, b1, m1, n, Plus(queued), Plus(nqueued), m_get(pool), alive, hogs \cup {so}, last, disordered)
      BY <1>7, <3>1, <3>2, <3>3, DowngradeKeeps
    <3> QED BY <1>4, <2>2, <3>4, Zenon
  <2> QED BY <2>1, <2>2
<1> HIDE DEF q, m1, Plus, h1, n
<1>9. PICK a1, b1 : q = <<a1, b1>> /\ Invariant(a1, b1, m1, n, Plus(queued), Plus(nqueued), m_get(pool), alive, h1, last, disordered)
  BY <1>8
<1>10. q[1] = a1 /\ q[2] = b1 BY <1>9
<1>11. Invariant(fastq', batchq', packets', n, queued', nqueued', pool', alive, h1, last', disordered')
  BY <1>1, <1>3, <1>9, <1>10, StartsKeeps
<1> QED BY <1>1, <1>2, <1>3, <1>11 DEF IInv, ArpInv

LEMMA NextKeeps ==
  ASSUME IInv, ArpInv, [Next]_vars
  PROVE  IInv' /\ ArpInv'
<1>1. CASE UNCHANGED vars BY <1>1 DEF vars, queues, sockets, table, IInv, ArpInv
<1>2. ASSUME NEW so \in alive, if_output(so, GuestOf[so]) PROVE IInv' /\ ArpInv'
  <2>1. so \in Sockets /\ GuestOf[so] \in Guests BY QueueAssumption DEF IInv
  <2> QED BY <1>2, <2>1, OutputKeeps
<1>3. ASSUME NEW dst \in Guests, if_output(Nobody, dst) PROVE IInv' /\ ArpInv'
  BY <1>3, QueueAssumption, OutputKeeps
<1>4. CASE if_start BY <1>4, StartKeeps
<1>5. ASSUME NEW ip \in Guests, NEW mac \in Macs, arp_input(ip, mac) PROVE IInv' /\ ArpInv'
  BY <1>5, ArpKeeps
<1>6. ASSUME NEW so \in Sockets, socreate(so) PROVE IInv' /\ ArpInv' BY <1>6, CreateKeeps
<1>7. ASSUME NEW so \in Sockets, sofree(so) PROVE IInv' /\ ArpInv' BY <1>7, FreeKeeps
<1>8. CASE Tick BY <1>8, TickKeeps
<1> QED BY <1>1, <1>2, <1>3, <1>4, <1>5, <1>6, <1>7, <1>8 DEF Next, Sends

LEMMA AlwaysIInv == Spec => [](IInv /\ ArpInv)
<1>1. IInv /\ ArpInv /\ [Next]_vars => (IInv /\ ArpInv)' BY NextKeeps
<1> QED BY InitKeeps, <1>1, PTL DEF Spec

\* The variables keep their types and every session has a packet: a queue's packets are
\* those with an mbuf (if.c, mbuf.c, arp_table.c).
LEMMA TypesFollow ==
  ASSUME IInv, ArpInv
  PROVE  TypeOK /\ Queued = DOMAIN packets
<1>1. /\ Placed(fastq, batchq, packets, count) /\ Counted(packets, queued, nqueued, pool, count, alive)
      /\ last \in [Sockets -> 0 .. count] /\ hogs \subseteq Sockets /\ disordered \subseteq hogs \cap LowDelay
      /\ count \in 0 .. MaxPackets /\ alive \subseteq Sockets /\ MaxPackets \in Nat
  BY QueueAssumption DEF IInv, Invariant
<1>2. All \in Lists /\ Members(All) = Members(fastq) \cup Members(batchq)
  BY <1>1, Joins DEF Placed, All
<1>3. Queued = DOMAIN packets BY <1>1, <1>2 DEF Queued, Placed
<1>4. \A i \in DOMAIN All : All[i] # <<>> BY <1>2, Places
<1>5. 0 .. count \subseteq 0 .. MaxPackets BY <1>1
<1>6. /\ queued \in [Sockets -> 0 .. MaxPackets] /\ nqueued \in [Sockets -> 0 .. MaxPackets]
      /\ last \in [Sockets -> 0 .. MaxPackets] /\ pool \in Pools
  BY <1>1, <1>5 DEF Counted
<1>7. DOMAIN packets \subseteq 1 .. count /\ \A n \in DOMAIN packets : packets[n] \in Packets
  BY <1>1 DEF Placed
<1>8. disordered \subseteq Sockets BY <1>1
<1> QED BY <1>1, <1>3, <1>4, <1>6, <1>7, <1>8 DEF TypeOK, ArpInv

LEMMA CountsFollow ==
  ASSUME IInv, ArpInv
  PROVE  SocketsAccounted /\ MbufsAccounted /\ ArpIsFresh
<1>1. /\ Counted(packets, queued, nqueued, pool, count, alive)
      /\ Queued = DOMAIN packets
  BY TypesFollow DEF IInv, Invariant
<1>2. \A so : {n \in Queued : packets[n].so = so} = Of(packets, so) BY <1>1 DEF Of, OfSet
<1>3. SocketsAccounted
  <2> SUFFICES ASSUME NEW so \in Sockets
               PROVE  /\ so \in {packets[n].so : n \in Queued} => so \in alive
                      /\ so \in alive => /\ queued[so] = Cardinality({n \in Queued : packets[n].so = so})
                                         /\ queued[so] <= nqueued[so]
    BY DEF SocketsAccounted
  <2>1. so \notin alive => Of(packets, so) = {} BY <1>1 DEF Counted
  <2>2. so \in alive => queued[so] = Cardinality(Of(packets, so)) /\ queued[so] <= nqueued[so]
    BY <1>1 DEF Counted
  <2>3. so \in {packets[n].so : n \in Queued} => so \in alive BY <1>2, <2>1
  <2> QED BY <1>2, <2>2, <2>3
<1>4. MbufsAccounted
  <2>1. {n \in Queued : packets[n].dofree} = DoFrees(packets) BY <1>1 DEF DoFrees, DoFreeSet
  <2> QED BY <1>1, <2>1 DEF Counted, MbufsAccounted
<1>5. ArpIsFresh BY DEF ArpInv, ArpIsFresh
<1> QED BY <1>3, <1>4, <1>5

\* Whatever sockets come and go, sessions are downgraded and packets expire: so_queued counts
\* a socket's queued packets, every mbuf is free or queued and no more than MBUF_THRESH of
\* them for good, and the ARP table has what each guest said last (if.c, mbuf.c, arp_table.c).
THEOREM NothingIsLostCountOf == Spec => []QueuesAccounted
<1>1. IInv /\ ArpInv => QueuesAccounted BY TypesFollow, CountsFollow DEF QueuesAccounted
<1> QED BY AlwaysIInv, <1>1, PTL

\* if_output and if_start never let a packet overtake another of its socket, but for a
\* session that was downgraded from the fast queue, for any thresholds of downgrading.
THEOREM PacketsStayInOrder == Spec => []SentInOrder
<1>1. IInv => SentInOrder BY DEF IInv, Invariant, SentInOrder
<1> QED BY AlwaysIInv, <1>1, PTL
=============================================================================
