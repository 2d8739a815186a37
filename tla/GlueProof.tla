----------------------------- MODULE GlueProof -----------------------------
(***************************************************************************)
(* Theorems about SlirpGlue, for any number of descriptors, any settings,  *)
(* servers and ports, and any time after which sockets expire.             *)
(*                                                                         *)
(* The operations hand on a record st; Whole(st) is what holds of it       *)
(* between their steps, and GlueInv of the state between operations.       *)
(* Least and UpTo are induction over numbers, stated for sets; with them   *)
(* the recursive functions of the model are unfolded step by step.         *)
(***************************************************************************)
EXTENDS SlirpGlue, FiniteSetTheorems, WellFoundedInduction, TLAPS

\* A set of natural numbers has a least one.
LEMMA Least ==
  ASSUME NEW T, T \subseteq Nat, T # {}
  PROVE \E x \in T : \A y \in T : x <= y
<1> DEFINE R == OpToRel(<, Nat)
<1>1. \A x, y \in Nat : <<x, y>> \in R <=> x < y
  BY DEF OpToRel
<1>2. IsWellFoundedOn(R, Nat)
  BY NatLessThanWellFounded
<1> HIDE DEF R
<1>3. PICK x \in T : \A y \in T : ~ (<<y, x>> \in R)
  BY <1>2, WFMin
<1>4. \A y \in T : ~(y < x) /\ y \in Nat /\ x \in Nat
  BY <1>1, <1>3
<1>5. \A y \in T : x <= y
  BY <1>4
<1> QED
  BY <1>5

\* Induction over the numbers up to n, where a set says what is to be shown.
LEMMA UpTo ==
  ASSUME NEW n \in Nat, NEW S, 0 \in S, \A i \in 0 .. n - 1 : i \in S => i + 1 \in S
  PROVE  0 .. n \subseteq S
<1> DEFINE T == (0 .. n) \ S
<1>1. SUFFICES ASSUME T # {} PROVE FALSE
  OBVIOUS
<1>2. PICK x \in T : \A y \in T : x <= y
  <2> HIDE DEF T
  <2>1. T \subseteq Nat
    BY DEF T
  <2> QED
    BY <1>1, <2>1, Least
<1>3. x \in 0 .. n /\ x \notin S /\ x # 0
  BY <1>2
<1>4. x - 1 \in 0 .. n - 1 /\ (x - 1) + 1 = x
  BY <1>3
<1>5. x - 1 \notin S
  BY <1>3, <1>4
<1> QED
  BY <1>2, <1>4, <1>5

-----------------------------------------------------------------------------
\* k[i] are the elements of set among the first i of s.
Keeps(s, set, k) ==
  k = [i \in 0 .. Len(s) |->
         IF i = 0 THEN <<>> ELSE IF s[i] \in set THEN Append(k[i - 1], s[i]) ELSE k[i - 1]]

\* The recursion by which Only takes the elements of a set has a solution, for any sequence.
LEMMA OnlyKeeps ==
  ASSUME NEW X, NEW s \in Seq(X), NEW set
  PROVE  \E k : Keeps(s, set, k) /\ Only(s, set) = k[Len(s)]
<1> DEFINE Step(x, i) == IF s[i] \in set THEN Append(x, s[i]) ELSE x
           Rec(k, m) == k = [i \in 0 .. m |-> IF i = 0 THEN <<>> ELSE Step(k[i - 1], i)]
           S == {m \in 0 .. Len(s) : \E k : Rec(k, m)}
<1>1. Len(s) \in Nat
  OBVIOUS
<1> HIDE DEF Step
<1>2. 0 \in S
  <2> DEFINE h == [i \in 0 .. 0 |-> <<>>]
  <2>1. h = [i \in 0 .. 0 |-> IF i = 0 THEN <<>> ELSE Step(h[i - 1], i)]
    OBVIOUS
  <2>2. \E f : Rec(f, 0)
    BY <2>1
  <2> QED
    BY <1>1, <2>2
<1>3. ASSUME NEW m \in 0 .. Len(s) - 1, m \in S PROVE m + 1 \in S
  <2>1. PICK k : Rec(k, m)
    BY <1>3
  <2> DEFINE h == [i \in 0 .. m + 1 |-> IF i = 0 THEN <<>> ELSE Step(k[i - 1], i)]
  <2>2. \A i \in 0 .. m : h[i] = k[i]
    BY <2>1
  <2>3. \A i \in 0 .. m + 1 : i # 0 => h[i - 1] = k[i - 1]
    BY <2>2
  <2>4. h = [i \in 0 .. m + 1 |-> IF i = 0 THEN <<>> ELSE Step(h[i - 1], i)]
    BY <2>3, Zenon
  <2>5. \E f : Rec(f, m + 1)
    BY <2>4
  <2>6. m + 1 \in 0 .. Len(s)
    BY <1>1
  <2> QED
    BY <2>5, <2>6
<1>4. Len(s) \in S
  <2> HIDE DEF S
  <2>1. 0 .. Len(s) \subseteq S
    BY <1>1, <1>2, <1>3, UpTo
  <2> QED
    BY <1>1, <2>1
<1>5. \E k : Keeps(s, set, k)
  BY <1>4 DEF Keeps, Step
<1> QED
  BY <1>5 DEF Keeps, Only

\* m lists, in their order, the places up to n at which s has elements of set; o has these.
Places(m, o, s, set, n) ==
  /\ m \in [1 .. Len(o) -> 1 .. n]
  /\ \A a, b \in 1 .. Len(o) : a < b => m[a] < m[b]
  /\ \A a \in 1 .. Len(o) : o[a] = s[m[a]] /\ s[m[a]] \in set
  /\ \A j \in 1 .. n : s[j] \in set => \E a \in 1 .. Len(o) : m[a] = j

\* Only leaves the elements in set, each once for each of its places and in their order.
LEMMA OnlyPlaces ==
  ASSUME NEW X, NEW s \in Seq(X), NEW set
  PROVE  /\ Only(s, set) \in Seq(X)
         /\ \E m : Places(m, Only(s, set), s, set, Len(s))
<1>1. Len(s) \in Nat /\ DOMAIN s = 1 .. Len(s)
  OBVIOUS
<1>2. PICK k : Keeps(s, set, k) /\ Only(s, set) = k[Len(s)]
  BY OnlyKeeps
<1>3. k[0] = <<>>
  BY <1>1, <1>2 DEF Keeps
<1>4. ASSUME NEW i \in 0 .. Len(s) - 1
      PROVE  k[i + 1] = IF s[i + 1] \in set THEN Append(k[i], s[i + 1]) ELSE k[i]
  <2>1. i + 1 \in 0 .. Len(s) /\ i + 1 # 0 /\ (i + 1) - 1 = i
    BY <1>1
  <2>2. k[i + 1] = IF i + 1 = 0 THEN <<>> ELSE IF s[i + 1] \in set THEN Append(k[(i + 1) - 1], s[i + 1])
                                              ELSE k[(i + 1) - 1]
    BY <1>2, <2>1, Zenon DEF Keeps
  <2> QED
    BY <2>1, <2>2
<1> DEFINE P(i) == k[i] \in Seq(X) /\ \E m : Places(m, k[i], s, set, i)
           S == {i \in 0 .. Len(s) : P(i)}
<1>5. P(0)
  <2>1. k[0] \in Seq(X) /\ Len(k[0]) = 0
    BY <1>3
  <2>2. Places([a \in 1 .. 0 |-> 0], k[0], s, set, 0)
    BY <2>1 DEF Places
  <2> QED
    BY <2>1, <2>2
<1>6. ASSUME NEW i \in 0 .. Len(s) - 1, P(i) PROVE P(i + 1)
  <2>1. i \in Nat /\ i + 1 \in DOMAIN s /\ s[i + 1] \in X
    BY <1>1
  <2>2. PICK m : Places(m, k[i], s, set, i)
    BY <1>6
  <2>3. CASE s[i + 1] \notin set
    <3>1. k[i + 1] = k[i]
      BY <1>4, <2>3
    <3>2. Places(m, k[i], s, set, i + 1)
      BY <2>1, <2>2, <2>3 DEF Places
    <3> QED
      BY <1>6, <3>1, <3>2
  <2>4. CASE s[i + 1] \in set
    <3> DEFINE n == Len(k[i])
               o == Append(k[i], s[i + 1])
               h == [a \in 1 .. n + 1 |-> IF a = n + 1 THEN i + 1 ELSE m[a]]
    <3>1. k[i + 1] = o /\ k[i] \in Seq(X)
      BY <1>4, <1>6, <2>4
    <3>2. /\ o \in Seq(X) /\ n \in Nat /\ Len(o) = n + 1 /\ o[n + 1] = s[i + 1]
          /\ \A a \in 1 .. n : o[a] = k[i][a]
      BY <2>1, <3>1
    <3> HIDE DEF n, o
    <3>3. /\ m \in [1 .. n -> 1 .. i] /\ \A a, b \in 1 .. n : a < b => m[a] < m[b]
          /\ \A a \in 1 .. n : k[i][a] = s[m[a]] /\ s[m[a]] \in set
          /\ \A j \in 1 .. i : s[j] \in set => \E a \in 1 .. n : m[a] = j
      BY <2>2 DEF Places, n
    <3>4. /\ h[n + 1] = i + 1 /\ \A a \in 1 .. n : h[a] = m[a] /\ m[a] \in 1 .. i
      BY <3>2, <3>3
    <3>5. h \in [1 .. n + 1 -> 1 .. i + 1]
      BY <2>1, <3>2, <3>3
    <3> HIDE DEF h
    <3>6. \A a, b \in 1 .. n + 1 : a < b => h[a] < h[b]
      <4> SUFFICES ASSUME NEW a \in 1 .. n + 1, NEW b \in 1 .. n + 1, a < b PROVE h[a] < h[b]
        OBVIOUS
      <4>1. a \in 1 .. n
        BY <3>2
      <4>2. CASE b = n + 1
        BY <2>1, <3>4, <4>1, <4>2
      <4>3. CASE b # n + 1
        <5>1. b \in 1 .. n
          BY <3>2, <4>3
        <5> QED
          BY <3>3, <3>4, <4>1, <5>1
      <4> QED
        BY <4>2, <4>3
    <3>7. \A a \in 1 .. n + 1 : o[a] = s[h[a]] /\ s[h[a]] \in set
      <4> SUFFICES ASSUME NEW a \in 1 .. n + 1 PROVE o[a] = s[h[a]] /\ s[h[a]] \in set
        OBVIOUS
      <4>1. CASE a = n + 1
        BY <2>4, <3>2, <3>4, <4>1
      <4>2. CASE a \in 1 .. n
        BY <3>2, <3>3, <3>4, <4>2
      <4> QED
        BY <3>2, <4>1, <4>2
    <3>8. \A j \in 1 .. i + 1 : s[j] \in set => \E a \in 1 .. n + 1 : h[a] = j
      <4> SUFFICES ASSUME NEW j \in 1 .. i + 1, s[j] \in set PROVE \E a \in 1 .. n + 1 : h[a] = j
        OBVIOUS
      <4>1. CASE j = i + 1
        BY <3>2, <3>4, <4>1
      <4>2. CASE j \in 1 .. i
        <5>1. PICK a \in 1 .. n : m[a] = j
          BY <3>3, <4>2
        <5> QED
          BY <3>2, <3>4, <5>1
      <4> QED
        BY <2>1, <4>1, <4>2
    <3>9. Places(h, o, s, set, i + 1)
      BY <3>2, <3>5, <3>6, <3>7, <3>8 DEF Places
    <3> QED
      BY <3>1, <3>2, <3>9
  <2> QED
    BY <2>3, <2>4
<1> HIDE DEF P
<1>7. 0 .. Len(s) \subseteq S
  <2>1. 0 \in S /\ \A i \in 0 .. Len(s) - 1 : i \in S => i + 1 \in S
    BY <1>1, <1>5, <1>6
  <2> HIDE DEF S
  <2> QED
    BY <1>1, <2>1, UpTo
<1>8. P(Len(s))
  BY <1>1, <1>7
<1> QED
  BY <1>2, <1>8 DEF P

\* Only leaves the elements that are in the set.
LEMMA OnlyElements ==
  ASSUME NEW X, NEW s \in Seq(X), NEW set
  PROVE  Elements(Only(s, set)) = Elements(s) \cap set
<1>1. PICK m : Places(m, Only(s, set), s, set, Len(s)) /\ Only(s, set) \in Seq(X)
  BY OnlyPlaces
<1>2. DOMAIN s = 1 .. Len(s) /\ DOMAIN Only(s, set) = 1 .. Len(Only(s, set))
  BY <1>1
<1>3. ASSUME NEW x \in Elements(Only(s, set)) PROVE x \in Elements(s) \cap set
  BY <1>1, <1>2 DEF Elements, Places
<1>4. ASSUME NEW x \in Elements(s) \cap set PROVE x \in Elements(Only(s, set))
  <2>1. PICK j \in 1 .. Len(s) : x = s[j]
    BY <1>2 DEF Elements
  <2>2. PICK a \in 1 .. Len(Only(s, set)) : m[a] = j
    BY <1>1, <2>1 DEF Places
  <2> QED
    BY <1>1, <1>2, <2>1, <2>2 DEF Elements, Places
<1> QED
  BY <1>3, <1>4

\* An element that Only leaves stands behind as many as stand before it.
LEMMA OnlyIndex ==
  ASSUME NEW X, NEW s \in Seq(X), NEW set, NEW j \in DOMAIN s, s[j] \in set,
         NEW n, n = Cardinality({l \in 1 .. j - 1 : s[l] \in set})
  PROVE  n \in 0 .. Len(Only(s, set)) - 1 /\ Only(s, set)[n + 1] = s[j]
<1> DEFINE o == Only(s, set)
           T == {l \in 1 .. j - 1 : s[l] \in set}
<1>1. o \in Seq(X) /\ Len(o) \in Nat /\ Len(s) \in Nat /\ j \in 1 .. Len(s)
  BY OnlyPlaces
<1>2. PICK m : Places(m, o, s, set, Len(s))
  BY OnlyPlaces
<1> HIDE DEF o
<1>3. PICK a \in 1 .. Len(o) : m[a] = j
  BY <1>1, <1>2 DEF Places
<1> DEFINE f == [b \in 1 .. a - 1 |-> m[b]]
<1>4. \A b \in 1 .. a - 1 : f[b] \in T
  BY <1>1, <1>2, <1>3 DEF Places
<1>5. \A b, c \in 1 .. a - 1 : f[b] = f[c] => b = c
  <2> SUFFICES ASSUME NEW b \in 1 .. a - 1, NEW c \in 1 .. a - 1, b < c PROVE f[b] # f[c]
    BY <1>1, <1>3
  <2>0. b \in 1 .. Len(o) /\ c \in 1 .. Len(o)
    BY <1>1
  <2>1. m[b] < m[c] /\ m[b] \in 1 .. Len(s) /\ m[c] \in 1 .. Len(s)
    BY <1>2, <2>0 DEF Places
  <2> QED
    BY <1>1, <2>1
<1>6. \A l \in T : \E b \in 1 .. a - 1 : f[b] = l
  <2> SUFFICES ASSUME NEW l \in T PROVE \E b \in 1 .. a - 1 : m[b] = l
    OBVIOUS
  <2>1. l \in 1 .. Len(s) /\ l < j /\ s[l] \in set
    BY <1>1
  <2>2. PICK b \in 1 .. Len(o) : m[b] = l
    BY <1>2, <2>1 DEF Places
  <2>3. ~(a < b) /\ a # b
    BY <1>1, <1>2, <1>3, <2>1, <2>2 DEF Places
  <2> QED
    BY <1>1, <1>3, <2>2, <2>3
<1>7. f \in Bijection(1 .. a - 1, T)
  <2>1. f \in [1 .. a - 1 -> T] /\ DOMAIN f = 1 .. a - 1
    BY <1>4
  <2> HIDE DEF f, T
  <2> QED
    BY <1>5, <1>6, <2>1 DEF Bijection, Injection, Surjection, IsInjective
<1>8. Cardinality(T) = a - 1
  <2>1. IsFiniteSet(1 .. a - 1) /\ Cardinality(1 .. a - 1) = a - 1
    <3>1. a \in Int /\ a - 1 \in Int /\ 1 \in Int /\ a >= 1
      BY <1>1
    <3>2. Cardinality(1 .. a - 1) = IF 1 > a - 1 THEN 0 ELSE (a - 1) - 1 + 1
      BY <3>1, FS_Interval
    <3> QED
      BY <3>1, <3>2, FS_Interval
  <2> HIDE DEF f, T
  <2>2. ExistsBijection(1 .. a - 1, T)
    BY <1>7 DEF ExistsBijection
  <2> QED
    BY <2>1, <2>2, FS_Bijection
<1> QED
  BY <1>1, <1>2, <1>3, <1>8 DEF o, Places

-----------------------------------------------------------------------------
(* What holds of the sockets between the steps of an operation.            *)

Descriptors == 0 .. MaxFd - 1
Sock == [fd : Descriptors, lport : 0 .. MaxPort, hport : 0 .. MaxPort,
         state : {"listen", "new", "conn"}, expire : 0 .. SO_EXPIRE, idx : Int]
St == [lists : [Types -> Seq(Sock)], registered : Seq(Descriptors), polls : Seq(Descriptors),
       forwards : [{"tcp", "udp"} -> SUBSET (Int \X Int)], refused : SUBSET (Types \X Int)]

\* no descriptor belongs to two sockets
Apart(st) ==
  \A t, u \in Types : \A i \in DOMAIN st.lists[t], j \in DOMAIN st.lists[u] :
    st.lists[t][i].fd = st.lists[u][j].fd => t = u /\ i = j
\* registered are those of the sockets that are no forwards, once each
Registered(st) ==
  /\ \A fd : fd \in Elements(st.registered)
               <=> \E t \in Types : \E s \in Elements(st.lists[t]) : s.fd = fd /\ s.hport = 0
  /\ \A i, j \in DOMAIN st.registered : st.registered[i] = st.registered[j] => i = j
\* forwards listen, or are UDP sockets that stay
Kinds(st) ==
  \A t \in Types : \A s \in Elements(st.lists[t]) :
    s.hport # 0 => t # "icmp" /\ s.expire = 0 /\ (t = "tcp" => s.state = "listen")
\* what is recorded as forwarded has its socket
Recorded(st) ==
  \A t \in {"tcp", "udp"} : \A f :
    f \in st.forwards[t]
      <=> \E s \in Elements(st.lists[t]) : s.hport # 0 /\ f = <<s.hport, s.lport>>

Accounted(st) == st \in St /\ Apart(st) /\ Registered(st) /\ Kinds(st)

\* LowestFree is a descriptor of no socket.
LEMMA FreeIsFree ==
  ASSUME NEW st \in St, HasFd(st)
  PROVE  LowestFree(st) \in Descriptors \ Open(st)
<1> DEFINE T == Descriptors \ Open(st)
<1>1. MaxFd \in Nat /\ MaxFd > 0
  BY GlueAssumption
<1>2. T \subseteq Nat
  BY <1>1 DEF Descriptors
<1>3. T # {}
  <2> SUFFICES ASSUME Descriptors \subseteq Open(st) PROVE FALSE
    OBVIOUS
  <2>1. Open(st) \subseteq Descriptors
    <3>1. ASSUME NEW t \in Types, NEW i \in DOMAIN st.lists[t] PROVE st.lists[t][i].fd \in Descriptors
      <4>1. st.lists[t] \in Seq(Sock)
        BY DEF St
      <4>2. st.lists[t][i] \in Sock
        BY <4>1
      <4> QED
        BY <4>2 DEF Sock
    <3> QED
      BY <3>1 DEF Open, FdsOf
  <2>2. Open(st) = Descriptors
    BY <2>1
  <2>3. MaxFd - 1 \in Int /\ 0 \in Int /\ ~(0 > MaxFd - 1)
    BY <1>1
  <2>4. Cardinality(Descriptors) = (MaxFd - 1) - 0 + 1
    BY <2>3, FS_Interval DEF Descriptors
  <2> QED
    BY <1>1, <2>2, <2>4 DEF HasFd
<1>4. \E fd \in T : \A f \in T : fd <= f
  <2> HIDE DEF T
  <2> QED
    BY <1>2, <1>3, Least
<1>5. \E fd \in Descriptors : fd \notin Open(st) /\ \A f \in 0 .. fd - 1 : f \in Open(st)
  <2>1. PICK fd \in T : \A f \in T : fd <= f
    BY <1>4
  <2>2. ASSUME NEW f \in 0 .. fd - 1 PROVE f \in Open(st)
    BY <1>1, <2>1 DEF Descriptors
  <2> QED
    BY <2>1, <2>2
<1> QED
  BY <1>5 DEF LowestFree, Descriptors

\* e is what is left of st: without the sockets of fds in the list of t.
Leaves(st, t, fds, e) ==
  /\ e \in St /\ e.polls = st.polls /\ e.forwards = st.forwards /\ e.refused = st.refused
  /\ \A u \in Types \ {t} : e.lists[u] = st.lists[u]
  /\ Elements(e.lists[t]) = {s \in Elements(st.lists[t]) : s.fd \notin fds}
  /\ Elements(e.registered) = Elements(st.registered) \ fds
  /\ \E m : Places(m, e.lists[t], st.lists[t], {s \in Elements(st.lists[t]) : s.fd \notin fds},
                   Len(st.lists[t]))
  /\ \E m : Places(m, e.registered, st.registered, Elements(st.registered) \ fds,
                   Len(st.registered))

\* What detaching sockets leaves: all the other ones, in their order.
LEMMA Detached ==
  ASSUME NEW st \in St, NEW t \in Types, NEW fds
  PROVE  Leaves(st, t, fds, Detach(st, t, fds))
<1> DEFINE e == Detach(st, t, fds)
<1>0. e = Detach(st, t, fds)
  OBVIOUS
<1> HIDE DEF e
<1> DEFINE list == st.lists[t]
           stay == {s \in Elements(list) : s.fd \notin fds}
           fdsStay == Elements(st.registered) \ fds
<1>1. list \in Seq(Sock) /\ st.registered \in Seq(Descriptors) /\ st.lists \in [Types -> Seq(Sock)]
  BY DEF St
<1>2. e = [st EXCEPT !.lists = [st.lists EXCEPT ![t] = Only(list, stay)],
                     !.registered = Only(st.registered, fdsStay)]
  BY <1>0 DEF St, Detach, PollUnregister, slirp_remque
<1>3. /\ e.lists = [st.lists EXCEPT ![t] = Only(list, stay)] /\ e.registered = Only(st.registered, fdsStay)
      /\ e.polls = st.polls /\ e.forwards = st.forwards /\ e.refused = st.refused
  BY <1>2 DEF St
<1> HIDE DEF stay, fdsStay
<1>4. Only(list, stay) \in Seq(Sock) /\ Only(st.registered, fdsStay) \in Seq(Descriptors)
  BY <1>1, OnlyPlaces
<1>5. e \in St
  BY <1>1, <1>2, <1>4 DEF St
<1>6. e.lists[t] = Only(list, stay) /\ \A u \in Types \ {t} : e.lists[u] = st.lists[u]
  BY <1>1, <1>3
<1>7. Elements(e.lists[t]) = Elements(list) \cap stay /\ Elements(e.registered) = Elements(st.registered) \cap fdsStay
  BY <1>1, <1>3, <1>6, OnlyElements
<1>8. /\ \E m : Places(m, e.lists[t], list, stay, Len(list))
      /\ \E m : Places(m, e.registered, st.registered, fdsStay, Len(st.registered))
  BY <1>1, <1>3, <1>6, OnlyPlaces
<1> QED
  BY <1>0, <1>3, <1>5, <1>6, <1>7, <1>8 DEF stay, fdsStay, Leaves

\* Places are different places.
LEMMA PlacesApart ==
  ASSUME NEW m, NEW o, NEW s, NEW set, NEW n \in Nat, Len(o) \in Nat, Places(m, o, s, set, n),
         NEW a \in 1 .. Len(o), NEW b \in 1 .. Len(o), m[a] = m[b]
  PROVE  a = b
<1>1. m[a] \in 1 .. n /\ ~(m[a] < m[b]) /\ ~(m[b] < m[a])
  BY DEF Places
<1>2. ~(a < b) /\ ~(b < a)
  BY <1>1 DEF Places
<1> QED
  BY <1>2

\* Sockets and descriptors that are detached together leave no trace.
LEMMA DetachKeeps ==
  ASSUME NEW st, Accounted(st), NEW t \in Types, NEW fds,
         \A u \in Types \ {t} : FdsOf(st.lists[u]) \cap fds = {}
  PROVE  Accounted(Detach(st, t, fds))
<1> DEFINE e == Detach(st, t, fds)
           stay == {s \in Elements(st.lists[t]) : s.fd \notin fds}
<1>1. /\ e \in St
      /\ \A u \in Types \ {t} : e.lists[u] = st.lists[u]
      /\ Elements(e.lists[t]) = stay
      /\ Elements(e.registered) = Elements(st.registered) \ fds
      /\ \E m : Places(m, e.lists[t], st.lists[t], stay, Len(st.lists[t]))
      /\ \E m : Places(m, e.registered, st.registered, Elements(st.registered) \ fds, Len(st.registered))
  <2>1. Leaves(st, t, fds, e)
    BY Detached DEF Accounted
  <2> QED
    BY <2>1 DEF Leaves
<1> HIDE DEF e
<1>2. st \in St /\ Apart(st) /\ Registered(st) /\ Kinds(st)
  BY DEF Accounted
<1>3. \A u \in Types : st.lists[u] \in Seq(Sock) /\ e.lists[u] \in Seq(Sock)
  BY <1>1, <1>2 DEF St
<1>4. \A u \in Types : /\ DOMAIN st.lists[u] = 1 .. Len(st.lists[u]) /\ Len(st.lists[u]) \in Nat
                       /\ DOMAIN e.lists[u] = 1 .. Len(e.lists[u]) /\ Len(e.lists[u]) \in Nat
  BY <1>3
<1>5. Apart(e)
  <2>1. PICK m : Places(m, e.lists[t], st.lists[t], stay, Len(st.lists[t]))
    BY <1>1
  <2> DEFINE p(u, i) == IF u = t THEN m[i] ELSE i
  <2>2. ASSUME NEW u \in Types, NEW i \in DOMAIN e.lists[u]
        PROVE  p(u, i) \in DOMAIN st.lists[u] /\ e.lists[u][i] = st.lists[u][p(u, i)]
    BY <1>1, <1>4, <2>1 DEF Places
  <2>3. ASSUME NEW u \in Types, NEW i \in DOMAIN e.lists[u], NEW j \in DOMAIN e.lists[u], p(u, i) = p(u, j)
        PROVE  i = j
    <3>1. CASE u = t
      BY <1>4, <2>1, <2>3, <3>1, PlacesApart
    <3> QED
      BY <2>3, <3>1
  <2> HIDE DEF p
  <2> SUFFICES ASSUME NEW u \in Types, NEW w \in Types, NEW i \in DOMAIN e.lists[u],
                      NEW j \in DOMAIN e.lists[w], e.lists[u][i].fd = e.lists[w][j].fd
               PROVE  u = w /\ i = j
    BY DEF Apart
  <2>4. u = w /\ p(u, i) = p(w, j)
    BY <1>2, <2>2 DEF Apart
  <2> QED
    BY <2>3, <2>4
<1>6. Registered(e)
  <2>1. ASSUME NEW fd PROVE fd \in Elements(e.registered)
                              <=> \E u \in Types : \E s \in Elements(e.lists[u]) : s.fd = fd /\ s.hport = 0
    <3>1. fd \in Elements(e.registered)
            <=> fd \notin fds /\ \E u \in Types : \E s \in Elements(st.lists[u]) : s.fd = fd /\ s.hport = 0
      BY <1>1, <1>2 DEF Registered
    <3>2. ASSUME NEW u \in Types \ {t}, NEW s \in Elements(st.lists[u]) PROVE s.fd \notin fds
      BY DEF Elements, FdsOf
    <3> QED
      BY <1>1, <3>1, <3>2
  <2>2. \A i, j \in DOMAIN e.registered : e.registered[i] = e.registered[j] => i = j
    <3>1. PICK m : Places(m, e.registered, st.registered, Elements(st.registered) \ fds, Len(st.registered))
      BY <1>1
    <3>2. /\ DOMAIN st.registered = 1 .. Len(st.registered) /\ Len(st.registered) \in Nat
          /\ DOMAIN e.registered = 1 .. Len(e.registered) /\ Len(e.registered) \in Nat
      BY <1>1, <1>2 DEF St
    <3> SUFFICES ASSUME NEW i \in DOMAIN e.registered, NEW j \in DOMAIN e.registered,
                        e.registered[i] = e.registered[j]
                 PROVE  i = j
      OBVIOUS
    <3>3. m[i] = m[j]
      BY <1>2, <3>1, <3>2 DEF Registered, Places
    <3> QED
      BY <3>1, <3>2, <3>3, PlacesApart
  <2> QED
    BY <2>1, <2>2 DEF Registered
<1>7. Kinds(e)
  <2>1. ASSUME NEW u \in Types, NEW s \in Elements(e.lists[u]) PROVE s \in Elements(st.lists[u])
    BY <1>1
  <2> QED
    BY <1>2, <2>1 DEF Kinds
<1> QED
  BY <1>1, <1>5, <1>6, <1>7 DEF Accounted, e

\* Forwards that stay remain recorded.
LEMMA DetachRecords ==
  ASSUME NEW st \in St, Recorded(st), NEW t \in Types, NEW fds,
         \A s \in Elements(st.lists[t]) : s.fd \in fds => s.hport = 0
  PROVE  Recorded(Detach(st, t, fds))
<1> DEFINE e == Detach(st, t, fds)
<1>1. /\ e.forwards = st.forwards
      /\ \A u \in Types \ {t} : e.lists[u] = st.lists[u]
      /\ Elements(e.lists[t]) = {s \in Elements(st.lists[t]) : s.fd \notin fds}
  <2>1. Leaves(st, t, fds, e)
    BY Detached
  <2> QED
    BY <2>1 DEF Leaves
<1> HIDE DEF e
<1>2. ASSUME NEW u \in {"tcp", "udp"}, NEW f
      PROVE  (\E s \in Elements(e.lists[u]) : s.hport # 0 /\ f = <<s.hport, s.lport>>)
               <=> \E s \in Elements(st.lists[u]) : s.hport # 0 /\ f = <<s.hport, s.lport>>
  <2>1. u \in Types
    BY DEF Types
  <2>2. CASE u = t
    BY <1>1, <2>2
  <2>3. CASE u # t
    BY <1>1, <2>1, <2>3
  <2> QED
    BY <2>2, <2>3
<1> QED
  BY <1>1, <1>2 DEF Recorded, e

\* A sequence with one element more at its head.
LEMMA ConsIs ==
  ASSUME NEW X, NEW l \in Seq(X), NEW x \in X
  PROVE  /\ <<x>> \o l \in Seq(X) /\ Len(<<x>> \o l) = Len(l) + 1 /\ (<<x>> \o l)[1] = x
         /\ \A i \in 2 .. Len(l) + 1 : (<<x>> \o l)[i] = l[i - 1]
         /\ Elements(<<x>> \o l) = {x} \cup Elements(l)
<1>1. /\ <<x>> \o l \in Seq(X) /\ Len(<<x>> \o l) = Len(l) + 1 /\ (<<x>> \o l)[1] = x
      /\ \A i \in 2 .. Len(l) + 1 : (<<x>> \o l)[i] = l[i - 1]
  OBVIOUS
<1>2. DOMAIN l = 1 .. Len(l) /\ DOMAIN (<<x>> \o l) = 1 .. Len(l) + 1 /\ Len(l) \in Nat
  BY <1>1
<1>3. ASSUME NEW y \in Elements(<<x>> \o l) PROVE y \in {x} \cup Elements(l)
  <2>1. PICK i \in 1 .. Len(l) + 1 : y = (<<x>> \o l)[i]
    BY <1>2 DEF Elements
  <2>2. CASE i = 1
    BY <1>1, <2>1, <2>2
  <2>3. CASE i # 1
    <3>1. i \in 2 .. Len(l) + 1 /\ i - 1 \in 1 .. Len(l)
      BY <1>2, <2>3
    <3> QED
      BY <1>1, <1>2, <2>1, <3>1 DEF Elements
  <2> QED
    BY <2>2, <2>3
<1>4. ASSUME NEW y \in {x} \cup Elements(l) PROVE y \in Elements(<<x>> \o l)
  <2>1. CASE y = x
    BY <1>1, <1>2, <2>1 DEF Elements
  <2>2. CASE y \in Elements(l)
    <3>1. PICK i \in 1 .. Len(l) : y = l[i]
      BY <1>2, <2>2 DEF Elements
    <3>2. i + 1 \in 2 .. Len(l) + 1 /\ (i + 1) - 1 = i /\ i + 1 \in DOMAIN (<<x>> \o l)
      BY <1>2
    <3> QED
      BY <1>1, <3>1, <3>2 DEF Elements
  <2> QED
    BY <2>1, <2>2
<1> QED
  BY <1>1, <1>3, <1>4

\* A sequence with one element more at its end.
LEMMA AppendIs ==
  ASSUME NEW X, NEW l \in Seq(X), NEW x \in X
  PROVE  /\ Append(l, x) \in Seq(X) /\ Len(Append(l, x)) = Len(l) + 1 /\ Append(l, x)[Len(l) + 1] = x
         /\ \A i \in 1 .. Len(l) : Append(l, x)[i] = l[i]
         /\ Elements(Append(l, x)) = Elements(l) \cup {x}
<1>1. /\ Append(l, x) \in Seq(X) /\ Len(Append(l, x)) = Len(l) + 1 /\ Append(l, x)[Len(l) + 1] = x
      /\ \A i \in 1 .. Len(l) : Append(l, x)[i] = l[i]
  OBVIOUS
<1>2. DOMAIN l = 1 .. Len(l) /\ DOMAIN Append(l, x) = 1 .. Len(l) + 1 /\ Len(l) \in Nat
  BY <1>1
<1>3. ASSUME NEW y \in Elements(Append(l, x)) PROVE y \in Elements(l) \cup {x}
  <2>1. PICK i \in 1 .. Len(l) + 1 : y = Append(l, x)[i]
    BY <1>2 DEF Elements
  <2> QED
    BY <1>1, <1>2, <2>1 DEF Elements
<1>4. ASSUME NEW y \in Elements(l) \cup {x} PROVE y \in Elements(Append(l, x))
  <2>1. CASE y = x
    BY <1>1, <1>2, <2>1 DEF Elements
  <2>2. CASE y \in Elements(l)
    <3>1. PICK i \in 1 .. Len(l) : y = l[i]
      BY <1>2, <2>2 DEF Elements
    <3>2. i \in DOMAIN Append(l, x)
      BY <1>2
    <3> QED
      BY <1>1, <3>1, <3>2 DEF Elements
  <2> QED
    BY <2>1, <2>2
<1> QED
  BY <1>1, <1>3, <1>4

\* a socket more at the head of the list of t, which no other has the descriptor of
Adds(st, t, s, e) ==
  /\ e \in St /\ e.polls = st.polls
  /\ \A u \in Types \ {t} : e.lists[u] = st.lists[u]
  /\ e.lists[t] = <<s>> \o st.lists[t]
  /\ s \in Sock /\ s.fd \notin Open(st)

\* A socket with a descriptor of its own leaves all descriptors apart.
LEMMA AddApart ==
  ASSUME NEW st \in St, Apart(st), NEW t \in Types, NEW s, NEW e, Adds(st, t, s, e)
  PROVE  Apart(e) /\ Elements(e.lists[t]) = {s} \cup Elements(st.lists[t])
<1> DEFINE list == st.lists[t]
<1>1. list \in Seq(Sock) /\ s \in Sock /\ e.lists[t] = <<s>> \o list /\ Len(list) \in Nat
  BY DEF St, Adds
<1>2. /\ <<s>> \o list \in Seq(Sock) /\ Len(<<s>> \o list) = Len(list) + 1 /\ (<<s>> \o list)[1] = s
      /\ \A i \in 2 .. Len(list) + 1 : (<<s>> \o list)[i] = list[i - 1]
      /\ Elements(<<s>> \o list) = {s} \cup Elements(list)
  BY <1>1, ConsIs
<1> DEFINE AtFront(u, i) == u = t /\ i = 1
           p(u, i) == IF u = t THEN i - 1 ELSE i
<1>3. ASSUME NEW u \in Types, NEW i \in DOMAIN e.lists[u], ~AtFront(u, i)
      PROVE  p(u, i) \in DOMAIN st.lists[u] /\ e.lists[u][i] = st.lists[u][p(u, i)]
  <2>1. CASE u = t
    <3>1. i \in 2 .. Len(list) + 1
      BY <1>1, <1>2, <1>3, <2>1
    <3>2. i - 1 \in DOMAIN list
      BY <1>1, <3>1
    <3> QED
      BY <1>1, <1>2, <2>1, <3>1, <3>2
  <2>2. CASE u # t
    BY <2>2 DEF Adds
  <2> QED
    BY <2>1, <2>2
<1>4. ASSUME NEW u \in Types, NEW i \in DOMAIN e.lists[u], NEW j \in DOMAIN e.lists[u], p(u, i) = p(u, j)
      PROVE  i = j
  <2>1. DOMAIN e.lists[u] \subseteq Int
    BY DEF St, Adds
  <2> QED
    BY <1>4, <2>1
<1>5. ASSUME NEW u \in Types, NEW i \in DOMAIN e.lists[u], ~AtFront(u, i) PROVE e.lists[u][i].fd # s.fd
  <2>1. p(u, i) \in DOMAIN st.lists[u] /\ e.lists[u][i] = st.lists[u][p(u, i)]
    BY <1>3, <1>5
  <2> HIDE DEF p
  <2>2. e.lists[u][i].fd \in Open(st)
    BY <2>1 DEF Open, FdsOf
  <2> QED
    BY <2>2 DEF Adds
<1>6. ASSUME NEW u \in Types, NEW i \in DOMAIN e.lists[u], AtFront(u, i) PROVE e.lists[u][i].fd = s.fd
  BY <1>1, <1>2, <1>6
<1> HIDE DEF p
<1>7. Apart(e)
  <2> SUFFICES ASSUME NEW u \in Types, NEW w \in Types, NEW i \in DOMAIN e.lists[u],
                      NEW j \in DOMAIN e.lists[w], e.lists[u][i].fd = e.lists[w][j].fd
               PROVE  u = w /\ i = j
    BY DEF Apart
  <2>1. CASE AtFront(u, i) /\ AtFront(w, j)
    BY <2>1
  <2>2. CASE AtFront(u, i) /\ ~AtFront(w, j)
    <3> HIDE DEF AtFront
    <3> QED
      BY <1>5, <1>6, <2>2
  <2>3. CASE ~AtFront(u, i) /\ AtFront(w, j)
    <3> HIDE DEF AtFront
    <3> QED
      BY <1>5, <1>6, <2>3
  <2>4. CASE ~AtFront(u, i) /\ ~AtFront(w, j)
    <3> HIDE DEF AtFront
    <3>1. u = w /\ p(u, i) = p(w, j)
      BY <1>3, <2>4 DEF Apart
    <3> QED
      BY <1>4, <3>1
  <2> QED
    BY <2>1, <2>2, <2>3, <2>4
<1> QED
  BY <1>1, <1>2, <1>7

\* The guest's own sockets are registered as they are made.
LEMMA OpenKeeps ==
  ASSUME NEW st, Accounted(st), NEW t \in Types, NEW s \in Sock, s.hport = 0, s.fd \notin Open(st),
         NEW e, e = PollRegister(slirp_insque(st, t, s), s.fd)
  PROVE  /\ Accounted(e) /\ Adds(st, t, s, e) /\ Elements(e.lists[t]) = {s} \cup Elements(st.lists[t])
         /\ e.forwards = st.forwards /\ e.refused = st.refused
         /\ Recorded(st) => Recorded(e)
<1> DEFINE reg == Only(st.registered, Elements(st.registered) \ {s.fd})
           list == <<s>> \o st.lists[t]
<1>1. st \in St /\ Apart(st) /\ Registered(st) /\ Kinds(st)
  BY DEF Accounted
<1>2. st.lists[t] \in Seq(Sock) /\ st.registered \in Seq(Descriptors) /\ st.lists \in [Types -> Seq(Sock)]
      /\ s.fd \in Descriptors
  BY <1>1 DEF St, Sock
<1>3. e = [st EXCEPT !.lists = [st.lists EXCEPT ![t] = list], !.registered = Append(reg, s.fd)]
  BY <1>1 DEF St, PollRegister, PollUnregister, slirp_insque
<1>4. list \in Seq(Sock) /\ reg \in Seq(Descriptors) /\ Elements(reg) = Elements(st.registered) \ {s.fd}
  <2>1. list \in Seq(Sock)
    BY <1>2, ConsIs
  <2>2. reg \in Seq(Descriptors)
    BY <1>2, OnlyPlaces
  <2>3. Elements(reg) = Elements(st.registered) \cap (Elements(st.registered) \ {s.fd})
    BY <1>2, OnlyElements
  <2> QED
    BY <2>1, <2>2, <2>3
<1> HIDE DEF reg
<1>5. /\ Append(reg, s.fd) \in Seq(Descriptors) /\ Len(Append(reg, s.fd)) = Len(reg) + 1
      /\ Append(reg, s.fd)[Len(reg) + 1] = s.fd
      /\ \A i \in 1 .. Len(reg) : Append(reg, s.fd)[i] = reg[i]
      /\ Elements(Append(reg, s.fd)) = Elements(reg) \cup {s.fd}
  BY <1>2, <1>4, AppendIs
<1>6. /\ e.lists = [st.lists EXCEPT ![t] = list] /\ e.registered = Append(reg, s.fd)
      /\ e.polls = st.polls /\ e.forwards = st.forwards /\ e.refused = st.refused
  BY <1>1, <1>3 DEF St
<1> HIDE DEF list
<1>7. e \in St
  <2>1. [st.lists EXCEPT ![t] = list] \in [Types -> Seq(Sock)] /\ Append(reg, s.fd) \in Seq(Descriptors)
    BY <1>2, <1>4, <1>5
  <2> QED
    BY <1>1, <1>3, <2>1 DEF St
<1>8. Adds(st, t, s, e)
  BY <1>2, <1>6, <1>7 DEF Adds, list
<1>9. Apart(e) /\ Elements(e.lists[t]) = {s} \cup Elements(st.lists[t])
  BY <1>1, <1>8, AddApart
<1>10. \A u \in Types \ {t} : e.lists[u] = st.lists[u]
  BY <1>8 DEF Adds
<1>11. Registered(e)
  <2>1. ASSUME NEW fd PROVE fd \in Elements(e.registered)
                              <=> \E u \in Types : \E o \in Elements(e.lists[u]) : o.fd = fd /\ o.hport = 0
    <3>1. fd \in Elements(e.registered) <=> fd = s.fd \/ fd \in Elements(st.registered)
      BY <1>4, <1>5, <1>6
    <3>2. fd \in Elements(st.registered)
            <=> \E u \in Types : \E o \in Elements(st.lists[u]) : o.fd = fd /\ o.hport = 0
      BY <1>1 DEF Registered
    <3> QED
      BY <1>9, <1>10, <3>1, <3>2
  <2>2. \A i, j \in DOMAIN e.registered : e.registered[i] = e.registered[j] => i = j
    <3>1. PICK m : Places(m, reg, st.registered, Elements(st.registered) \ {s.fd}, Len(st.registered))
      BY <1>2, OnlyPlaces DEF reg
    <3>2. /\ DOMAIN st.registered = 1 .. Len(st.registered) /\ Len(st.registered) \in Nat
          /\ DOMAIN reg = 1 .. Len(reg) /\ Len(reg) \in Nat /\ DOMAIN e.registered = 1 .. Len(reg) + 1
      BY <1>2, <1>4, <1>5, <1>6
    <3>3. ASSUME NEW i \in 1 .. Len(reg), NEW j \in 1 .. Len(reg), reg[i] = reg[j] PROVE i = j
      <4>1. m[i] = m[j]
        BY <1>1, <3>1, <3>2, <3>3 DEF Registered, Places
      <4> QED
        BY <3>1, <3>2, <4>1, PlacesApart
    <3>4. ASSUME NEW i \in 1 .. Len(reg) PROVE reg[i] # s.fd
      BY <1>4, <3>2 DEF Elements
    <3> SUFFICES ASSUME NEW i \in DOMAIN e.registered, NEW j \in DOMAIN e.registered,
                        e.registered[i] = e.registered[j]
                 PROVE  i = j
      OBVIOUS
    <3>5. i \in 1 .. Len(reg) \/ i = Len(reg) + 1
      BY <3>2
    <3>6. j \in 1 .. Len(reg) \/ j = Len(reg) + 1
      BY <3>2
    <3> QED
      BY <1>5, <1>6, <3>3, <3>4, <3>5, <3>6
  <2> QED
    BY <2>1, <2>2 DEF Registered
<1>12. Kinds(e)
  <2>1. ASSUME NEW u \in Types, NEW o \in Elements(e.lists[u]), o.hport # 0 PROVE o \in Elements(st.lists[u])
    BY <1>9, <1>10, <2>1
  <2> QED
    BY <1>1, <2>1 DEF Kinds
<1>13. ASSUME Recorded(st) PROVE Recorded(e)
  <2>1. ASSUME NEW u \in {"tcp", "udp"}, NEW o, o.hport # 0
        PROVE  o \in Elements(e.lists[u]) <=> o \in Elements(st.lists[u])
    <3>1. u \in Types
      BY DEF Types
    <3> QED
      BY <1>9, <1>10, <2>1, <3>1
  <2>2. \A u \in {"tcp", "udp"} : \A f :
          (\E o \in Elements(e.lists[u]) : o.hport # 0 /\ f = <<o.hport, o.lport>>)
            <=> \E o \in Elements(st.lists[u]) : o.hport # 0 /\ f = <<o.hport, o.lport>>
    BY <2>1
  <2> QED
    BY <1>6, <1>13, <2>2 DEF Recorded
<1> QED
  BY <1>6, <1>7, <1>8, <1>9, <1>11, <1>12, <1>13 DEF Accounted

\* e is st with a forward of t more, or one that was refused
Forwards(st, e, t, host, guest) ==
  \/ e.refused = st.refused /\ e.forwards = [st.forwards EXCEPT ![t] = @ \cup {<<host, guest>>}]
  \/ e.refused = st.refused \cup {<<t, host>>} /\ e.forwards = st.forwards

\* A forward listens, or is refused.
LEMMA ForwardKeeps ==
  ASSUME NEW st, Accounted(st), Recorded(st), NEW t \in {"tcp", "udp"}, NEW taken,
         NEW host \in 1 .. MaxPort, NEW guest \in 1 .. MaxPort,
         NEW e, e = slirp_add_hostfwd(st, t, taken, host, guest)
  PROVE  Accounted(e) /\ Recorded(e) /\ Forwards(st, e, t, host, guest)
<1>1. st \in St /\ Apart(st) /\ Registered(st) /\ Kinds(st) /\ t \in Types /\ MaxPort \in Nat
  BY GlueAssumption DEF Accounted, Types
<1> DEFINE refuses == ~(HasFd(st) /\ host \notin taken \cup BoundPorts(st, t))
<1>2. CASE refuses
  <2>1. e = [st EXCEPT !.refused = @ \cup {<<t, host>>}]
    BY <1>2 DEF slirp_add_hostfwd
  <2>2. /\ e \in St /\ e.lists = st.lists /\ e.registered = st.registered /\ e.polls = st.polls
        /\ e.forwards = st.forwards /\ e.refused = st.refused \cup {<<t, host>>}
    <3>1. st.refused \cup {<<t, host>>} \in SUBSET (Types \X Int)
      BY <1>1 DEF St
    <3> QED
      BY <1>1, <2>1, <3>1 DEF St
  <2>3. Accounted(e) /\ Recorded(e)
    BY <1>1, <2>2 DEF Accounted, Apart, Registered, Kinds, Recorded
  <2> QED
    BY <2>2, <2>3 DEF Forwards
<1>3. CASE ~refuses
  <2> DEFINE s == Listener(st, t, host, guest)
             list == <<s>> \o st.lists[t]
             fwd == [st.forwards EXCEPT ![t] = @ \cup {<<host, guest>>}]
  <2>1. LowestFree(st) \in Descriptors \ Open(st)
    BY <1>1, <1>3, FreeIsFree
  <2>2. /\ s \in Sock /\ s.fd = LowestFree(st) /\ s.hport = host /\ s.lport = guest /\ s.expire = 0
        /\ t = "tcp" => s.state = "listen"
    <3>1. /\ guest \in 0 .. MaxPort /\ host \in 0 .. MaxPort /\ 0 \in 0 .. SO_EXPIRE /\ NoIndex \in Int
          /\ LowestFree(st) \in Descriptors
      BY <2>1, GlueAssumption DEF NoIndex
    <3>2. ASSUME NEW k \in {"listen", "conn"}, NEW o,
                 o = [socreate(LowestFree(st), guest) EXCEPT !.hport = host, !.state = k]
          PROVE  /\ o \in Sock /\ o.fd = LowestFree(st) /\ o.hport = host /\ o.lport = guest
                 /\ o.expire = 0 /\ o.state = k
      BY <3>1, <3>2 DEF socreate, Sock
    <3>3. CASE t = "tcp"
      BY <3>2, <3>3 DEF Listener
    <3>4. CASE t # "tcp"
      BY <3>2, <3>4 DEF Listener
    <3> QED
      BY <3>3, <3>4
  <2> HIDE DEF s
  <2>3. e = [st EXCEPT !.lists = [st.lists EXCEPT ![t] = list], !.forwards = fwd]
    BY <1>1, <1>3 DEF slirp_add_hostfwd, slirp_insque, s, St
  <2>4. /\ st.lists \in [Types -> Seq(Sock)] /\ st.lists[t] \in Seq(Sock)
        /\ st.forwards \in [{"tcp", "udp"} -> SUBSET (Int \X Int)]
    BY <1>1 DEF St
  <2>5. list \in Seq(Sock)
    BY <2>2, <2>4, ConsIs
  <2>6. fwd \in [{"tcp", "udp"} -> SUBSET (Int \X Int)]
    BY <1>1, <2>4
  <2>7. fwd[t] = st.forwards[t] \cup {<<host, guest>>} /\ \A u \in {"tcp", "udp"} \ {t} : fwd[u] = st.forwards[u]
    BY <2>4
  <2> HIDE DEF list, fwd
  <2>8. /\ e \in St /\ e.lists = [st.lists EXCEPT ![t] = list] /\ e.registered = st.registered
        /\ e.polls = st.polls /\ e.forwards = fwd /\ e.refused = st.refused
    <3>1. [st.lists EXCEPT ![t] = list] \in [Types -> Seq(Sock)]
      BY <2>4, <2>5
    <3> QED
      BY <1>1, <2>3, <2>6, <3>1 DEF St
  <2>9. Adds(st, t, s, e)
    BY <1>1, <2>1, <2>2, <2>4, <2>8 DEF Adds, list
  <2>10. /\ Apart(e) /\ Elements(e.lists[t]) = {s} \cup Elements(st.lists[t])
         /\ \A u \in Types \ {t} : e.lists[u] = st.lists[u]
    <3>1. Apart(e) /\ Elements(e.lists[t]) = {s} \cup Elements(st.lists[t])
      BY <1>1, <2>9, AddApart
    <3> QED
      BY <2>9, <3>1 DEF Adds
  <2>11. Registered(e)
    <3>1. s.hport # 0
      BY <1>1, <2>2
    <3>2. ASSUME NEW u \in Types, NEW o, o.hport = 0
          PROVE  o \in Elements(e.lists[u]) <=> o \in Elements(st.lists[u])
      BY <2>10, <3>1, <3>2
    <3>3. \A fd : (\E u \in Types : \E o \in Elements(e.lists[u]) : o.fd = fd /\ o.hport = 0)
                    <=> \E u \in Types : \E o \in Elements(st.lists[u]) : o.fd = fd /\ o.hport = 0
      BY <3>2
    <3> QED
      BY <1>1, <2>8, <3>3 DEF Registered
  <2>12. Kinds(e)
    BY <1>1, <2>2, <2>10 DEF Kinds
  <2>13. Recorded(e)
    <3>1. s.hport # 0 /\ <<host, guest>> = <<s.hport, s.lport>>
      BY <1>1, <2>2
    <3> SUFFICES ASSUME NEW u \in {"tcp", "udp"}, NEW f
                 PROVE  f \in fwd[u] <=> \E o \in Elements(e.lists[u]) : o.hport # 0 /\ f = <<o.hport, o.lport>>
      BY <2>8 DEF Recorded
    <3>2. u \in Types
      BY DEF Types
    <3>3. f \in st.forwards[u] <=> \E o \in Elements(st.lists[u]) : o.hport # 0 /\ f = <<o.hport, o.lport>>
      BY DEF Recorded
    <3>4. CASE u = t
      <4>1. f \in fwd[u] <=> f \in st.forwards[u] \/ f = <<s.hport, s.lport>>
        BY <2>7, <3>1, <3>4
      <4> QED
        BY <2>10, <3>1, <3>3, <3>4, <4>1
    <3>5. CASE u # t
      BY <2>7, <2>10, <3>2, <3>3, <3>5
    <3> QED
      BY <3>4, <3>5
  <2> QED
    BY <2>8, <2>10, <2>11, <2>12, <2>13 DEF Accounted, Forwards, fwd
<1> QED
  BY <1>2, <1>3

\* e has the sockets of st, some of which have another index, or stay for another time.
Same(st, e) ==
  /\ e \in St /\ e.registered = st.registered /\ e.forwards = st.forwards /\ e.refused = st.refused
  /\ \A u \in Types :
       /\ DOMAIN e.lists[u] = DOMAIN st.lists[u]
       /\ \A i \in DOMAIN st.lists[u] :
            /\ e.lists[u][i].fd = st.lists[u][i].fd /\ e.lists[u][i].lport = st.lists[u][i].lport
            /\ e.lists[u][i].hport = st.lists[u][i].hport
            /\ st.lists[u][i].expire = 0 => e.lists[u][i].expire = 0
            /\ u = "tcp" => e.lists[u][i].state = st.lists[u][i].state

\* Indices and times matter to nothing that is kept.
LEMMA SameKeeps ==
  ASSUME NEW st, NEW e, Accounted(st), Same(st, e)
  PROVE  Accounted(e) /\ (Recorded(st) => Recorded(e))
<1>1. st \in St /\ Apart(st) /\ Registered(st) /\ Kinds(st)
  BY DEF Accounted
<1>2. ASSUME NEW u \in Types, NEW o \in Elements(e.lists[u])
      PROVE  \E s \in Elements(st.lists[u]) :
               s.fd = o.fd /\ s.lport = o.lport /\ s.hport = o.hport
  <2>1. PICK i \in DOMAIN st.lists[u] : o = e.lists[u][i]
    BY DEF Elements, Same
  <2> QED
    BY <2>1 DEF Elements, Same
<1>3. ASSUME NEW u \in Types, NEW s \in Elements(st.lists[u])
      PROVE  \E o \in Elements(e.lists[u]) :
               s.fd = o.fd /\ s.lport = o.lport /\ s.hport = o.hport
  <2>1. PICK i \in DOMAIN st.lists[u] : s = st.lists[u][i]
    BY DEF Elements
  <2> QED
    BY <2>1 DEF Elements, Same
<1>4. Apart(e)
  BY <1>1 DEF Apart, Same
<1>5. Registered(e)
  <2>1. \A fd : (\E u \in Types : \E o \in Elements(e.lists[u]) : o.fd = fd /\ o.hport = 0)
                  <=> \E u \in Types : \E o \in Elements(st.lists[u]) : o.fd = fd /\ o.hport = 0
    BY <1>2, <1>3
  <2> QED
    BY <1>1, <2>1 DEF Registered, Same
<1>6. Kinds(e)
  <2> SUFFICES ASSUME NEW u \in Types, NEW o \in Elements(e.lists[u]), o.hport # 0
               PROVE  u # "icmp" /\ o.expire = 0 /\ (u = "tcp" => o.state = "listen")
    BY DEF Kinds
  <2>1. \E s \in Elements(st.lists[u]) :
          s.hport = o.hport /\ (s.expire = 0 => o.expire = 0) /\ (u = "tcp" => s.state = o.state)
    <3>1. PICK i \in DOMAIN st.lists[u] : o = e.lists[u][i]
      BY DEF Elements, Same
    <3> QED
      BY <3>1 DEF Elements, Same
  <2> QED
    BY <1>1, <2>1 DEF Kinds
<1>7. ASSUME Recorded(st) PROVE Recorded(e)
  <2> SUFFICES ASSUME NEW u \in {"tcp", "udp"}, NEW f
               PROVE  f \in e.forwards[u] <=> \E o \in Elements(e.lists[u]) : o.hport # 0 /\ f = <<o.hport, o.lport>>
    BY DEF Recorded
  <2>1. u \in Types
    BY DEF Types
  <2>2. f \in e.forwards[u] <=> \E s \in Elements(st.lists[u]) : s.hport # 0 /\ f = <<s.hport, s.lport>>
    BY <1>7 DEF Recorded, Same
  <2> QED
    BY <1>2, <1>3, <2>1, <2>2
<1> QED
  BY <1>4, <1>5, <1>6, <1>7 DEF Accounted, Same

-----------------------------------------------------------------------------
(* Filling the polls.                                                      *)

\* The sockets of t that have an index have that of their own descriptor.
Indices(st, t) ==
  \A i \in DOMAIN st.lists[t] :
    LET s == st.lists[t][i]
    IN  s.idx # NoIndex => s.idx \in 0 .. Len(st.polls) - 1 /\ st.polls[s.idx + 1] = s.fd

\* Two sequences, one after the other.
LEMMA ConcatIs ==
  ASSUME NEW X, NEW a \in Seq(X), NEW b \in Seq(X)
  PROVE  /\ a \o b \in Seq(X) /\ Len(a \o b) = Len(a) + Len(b)
         /\ \A i \in 1 .. Len(a) : (a \o b)[i] = a[i]
         /\ \A i \in 1 .. Len(b) : (a \o b)[Len(a) + i] = b[i]
OBVIOUS

\* Indexing the sockets of one kind leaves them what they are, and the indices of the others.
LEMMA IndexedSame ==
  ASSUME NEW st \in St, NEW t \in Types, NEW asks, NEW e, e = Indexed(st, t, asks)
  PROVE  /\ Same(st, e) /\ Indices(e, t)
         /\ \A u \in Types \ {t} : Indices(st, u) => Indices(e, u)
<1> DEFINE list == st.lists[t]
           fds == Fds(list)
           n(i) == Cardinality({j \in 1 .. i - 1 : list[j].fd \in asks})
           idx(i) == IF list[i].fd \in asks THEN Len(st.polls) + n(i) ELSE NoIndex
           new == [i \in DOMAIN list |-> [list[i] EXCEPT !.idx = idx(i)]]
           o == Only(fds, asks)
           polls == st.polls \o o
<1>1. /\ list \in Seq(Sock) /\ st.lists \in [Types -> Seq(Sock)] /\ st.polls \in Seq(Descriptors)
      /\ Len(st.polls) \in Nat /\ Len(list) \in Nat /\ DOMAIN list = 1 .. Len(list)
  BY DEF St
<1>2. e = [st EXCEPT !.polls = polls, !.lists = [st.lists EXCEPT ![t] = new]]
  BY DEF St, Indexed, Index
<1>3. fds \in Seq(Descriptors) /\ DOMAIN fds = DOMAIN list /\ \A i \in DOMAIN list : fds[i] = list[i].fd
  <2>1. ASSUME NEW i \in DOMAIN list PROVE list[i].fd \in Descriptors
    <3>1. list[i] \in Sock
      BY <1>1
    <3> QED
      BY <3>1 DEF Sock
  <2>2. fds \in [1 .. Len(list) -> Descriptors]
    BY <1>1, <2>1 DEF Fds
  <2> QED
    BY <1>1, <2>2 DEF Fds
<1>4. o \in Seq(Descriptors) /\ Len(o) \in Nat
  BY <1>3, OnlyPlaces
<1>5. /\ polls \in Seq(Descriptors) /\ Len(polls) = Len(st.polls) + Len(o)
      /\ \A i \in 1 .. Len(st.polls) : polls[i] = st.polls[i]
      /\ \A i \in 1 .. Len(o) : polls[Len(st.polls) + i] = o[i]
  <2> HIDE DEF o
  <2> QED
    BY <1>1, <1>4, ConcatIs
<1>6. ASSUME NEW i \in DOMAIN list, list[i].fd \in asks
      PROVE  n(i) \in 0 .. Len(o) - 1 /\ o[n(i) + 1] = list[i].fd
  <2>1. {j \in 1 .. i - 1 : list[j].fd \in asks} = {j \in 1 .. i - 1 : fds[j] \in asks}
    BY <1>1, <1>3
  <2>2. fds[i] \in asks /\ fds[i] = list[i].fd /\ i \in DOMAIN fds
    BY <1>3, <1>6
  <2>3. n(i) = Cardinality({j \in 1 .. i - 1 : fds[j] \in asks})
    BY <2>1
  <2> HIDE DEF n, fds
  <2> QED
    BY <1>3, <2>2, <2>3, OnlyIndex
<1> HIDE DEF fds, n, o
<1>7. ASSUME NEW i \in DOMAIN list
      PROVE  /\ idx(i) \in Int
             /\ idx(i) # NoIndex => idx(i) \in 0 .. Len(polls) - 1 /\ polls[idx(i) + 1] = list[i].fd
  <2>1. CASE list[i].fd \in asks
    <3> DEFINE x == idx(i)
               y == n(i)
    <3>1. x = Len(st.polls) + y
      BY <2>1
    <3>2. y \in 0 .. Len(o) - 1 /\ o[y + 1] = list[i].fd
      BY <1>6, <2>1
    <3> HIDE DEF x, y, polls
    <3> HIDE DEF idx
    <3>3. ASSUME NEW p \in Nat, NEW l \in Nat, NEW k \in 0 .. l - 1
          PROVE  k + 1 \in 1 .. l /\ (p + k) + 1 = p + (k + 1)
      OBVIOUS
    <3>4. polls[x + 1] = list[i].fd
      <4>1. y + 1 \in 1 .. Len(o) /\ (Len(st.polls) + y) + 1 = Len(st.polls) + (y + 1)
        BY <1>1, <1>4, <3>2, <3>3
      <4>2. polls[Len(st.polls) + (y + 1)] = o[y + 1]
        BY <1>5, <4>1
      <4> QED
        BY <3>1, <3>2, <4>1, <4>2
    <3>5. x \in 0 .. Len(polls) - 1
      BY <1>1, <1>4, <1>5, <3>1, <3>2
    <3> QED
      BY <3>4, <3>5 DEF x
  <2>2. CASE list[i].fd \notin asks
    BY <2>2 DEF NoIndex
  <2> QED
    BY <2>1, <2>2
<1> HIDE DEF idx, polls
<1>8. ASSUME NEW i \in DOMAIN list
      PROVE  /\ new[i] \in Sock /\ new[i].fd = list[i].fd /\ new[i].lport = list[i].lport
             /\ new[i].hport = list[i].hport /\ new[i].expire = list[i].expire
             /\ new[i].state = list[i].state /\ new[i].idx = idx(i)
  <2>1. list[i] \in Sock
    BY <1>1
  <2> QED
    BY <1>7, <2>1 DEF Sock
<1>9. new \in Seq(Sock) /\ DOMAIN new = DOMAIN list
  <2>1. new \in [1 .. Len(list) -> Sock]
    BY <1>1, <1>8
  <2> HIDE DEF new
  <2> QED
    BY <1>1, <2>1
<1> HIDE DEF new
<1>10. /\ e \in St /\ e.registered = st.registered /\ e.forwards = st.forwards /\ e.refused = st.refused
       /\ e.polls = polls /\ e.lists = [st.lists EXCEPT ![t] = new]
  <2>1. [st.lists EXCEPT ![t] = new] \in [Types -> Seq(Sock)] /\ polls \in Seq(Descriptors)
    BY <1>1, <1>5, <1>9
  <2> QED
    BY <1>2, <2>1 DEF St
<1>11. e.lists[t] = new /\ \A u \in Types \ {t} : e.lists[u] = st.lists[u]
  BY <1>1, <1>10
<1>12. Same(st, e)
  BY <1>8, <1>9, <1>10, <1>11 DEF Same
<1>13. Indices(e, t)
  BY <1>7, <1>8, <1>9, <1>10, <1>11 DEF Indices
<1>14. ASSUME NEW u \in Types \ {t}, Indices(st, u) PROVE Indices(e, u)
  <2>1. \A k \in 0 .. Len(st.polls) - 1 : k \in 0 .. Len(polls) - 1 /\ polls[k + 1] = st.polls[k + 1]
    <3> SUFFICES ASSUME NEW k \in 0 .. Len(st.polls) - 1
                 PROVE  k \in 0 .. Len(polls) - 1 /\ polls[k + 1] = st.polls[k + 1]
      OBVIOUS
    <3>1. k + 1 \in 1 .. Len(st.polls) /\ Len(st.polls) <= Len(polls)
      BY <1>1, <1>4, <1>5
    <3> QED
      BY <1>1, <1>5, <3>1
  <2> QED
    BY <1>10, <1>11, <1>14, <2>1 DEF Indices
<1> QED
  BY <1>12, <1>13, <1>14

\* Sockets that stay keep their indices.
LEMMA DetachIndices ==
  ASSUME NEW st \in St, NEW t \in Types, NEW fds, NEW u \in Types, Indices(st, u)
  PROVE  Indices(Detach(st, t, fds), u)
<1> DEFINE e == Detach(st, t, fds)
<1>1. Leaves(st, t, fds, e)
  BY Detached
<1> HIDE DEF e
<1>2. e.polls = st.polls /\ (u # t => e.lists[u] = st.lists[u])
  BY <1>1 DEF Leaves
<1>3. CASE u = t
  <2>1. PICK m : Places(m, e.lists[t], st.lists[t], {s \in Elements(st.lists[t]) : s.fd \notin fds},
                        Len(st.lists[t]))
    BY <1>1 DEF Leaves
  <2>2. /\ DOMAIN e.lists[t] = 1 .. Len(e.lists[t]) /\ DOMAIN st.lists[t] = 1 .. Len(st.lists[t])
    BY <1>1 DEF Leaves, St
  <2>3. \A i \in DOMAIN e.lists[t] : m[i] \in DOMAIN st.lists[t] /\ e.lists[t][i] = st.lists[t][m[i]]
    BY <2>1, <2>2 DEF Places
  <2> QED
    BY <1>2, <1>3, <2>3 DEF Indices, e
<1>4. CASE u # t
  BY <1>2, <1>4 DEF Indices, e
<1> QED
  BY <1>3, <1>4

\* Time changes no socket but when it expires.
LEMMA AgesSame ==
  ASSUME NEW st \in St, NEW ticks \in 0 .. 1, NEW e, e = Ages(st, ticks)
  PROVE  Same(st, e) /\ e.polls = st.polls /\ \A u \in Types : Indices(st, u) => Indices(e, u)
<1> DEFINE Aged(s) == [s EXCEPT !.expire = IF @ > 1 THEN @ - ticks ELSE @]
           new == [t \in Types |-> [i \in DOMAIN st.lists[t] |-> Aged(st.lists[t][i])]]
<1>1. e = [st EXCEPT !.lists = new]
  BY DEF Ages
<1>2. ASSUME NEW s \in Sock
      PROVE  /\ Aged(s) \in Sock /\ Aged(s).fd = s.fd /\ Aged(s).lport = s.lport /\ Aged(s).hport = s.hport
             /\ Aged(s).state = s.state /\ Aged(s).idx = s.idx /\ (s.expire = 0 => Aged(s).expire = 0)
  <2>1. (IF s.expire > 1 THEN s.expire - ticks ELSE s.expire) \in 0 .. SO_EXPIRE
    BY GlueAssumption DEF Sock
  <2> QED
    BY <2>1 DEF Sock
<1>3. \A t \in Types : st.lists[t] \in Seq(Sock) /\ \A i \in DOMAIN st.lists[t] : st.lists[t][i] \in Sock
  BY DEF St
<1> HIDE DEF Aged
<1>4. \A t \in Types : /\ DOMAIN new[t] = DOMAIN st.lists[t]
                       /\ \A i \in DOMAIN st.lists[t] : new[t][i] = Aged(st.lists[t][i])
  OBVIOUS
<1>5. new \in [Types -> Seq(Sock)]
  <2>1. ASSUME NEW t \in Types PROVE [i \in DOMAIN st.lists[t] |-> Aged(st.lists[t][i])] \in Seq(Sock)
    <3>1. DOMAIN st.lists[t] = 1 .. Len(st.lists[t]) /\ Len(st.lists[t]) \in Nat
      BY <1>3
    <3>2. [i \in DOMAIN st.lists[t] |-> Aged(st.lists[t][i])] \in [1 .. Len(st.lists[t]) -> Sock]
      BY <1>2, <1>3, <3>1
    <3> QED
      BY <3>1, <3>2
  <2> QED
    BY <2>1
<1> HIDE DEF new
<1>6. /\ e \in St /\ e.registered = st.registered /\ e.forwards = st.forwards /\ e.refused = st.refused
      /\ e.polls = st.polls /\ e.lists = new
  BY <1>1, <1>5 DEF St
<1>7. Same(st, e)
  BY <1>2, <1>3, <1>4, <1>6 DEF Same
<1>8. ASSUME NEW u \in Types, Indices(st, u) PROVE Indices(e, u)
  <2> SUFFICES ASSUME NEW i \in DOMAIN st.lists[u], e.lists[u][i].idx # NoIndex
               PROVE  /\ e.lists[u][i].idx \in 0 .. Len(e.polls) - 1
                      /\ e.polls[e.lists[u][i].idx + 1] = e.lists[u][i].fd
    BY <1>4, <1>6 DEF Indices
  <2>1. e.lists[u][i].idx = st.lists[u][i].idx /\ e.lists[u][i].fd = st.lists[u][i].fd
    BY <1>2, <1>3, <1>4, <1>6
  <2> QED
    BY <1>6, <1>8, <2>1 DEF Indices
<1> QED
  BY <1>6, <1>7, <1>8

-----------------------------------------------------------------------------
(* What the steps of the actions keep.                                     *)

Whole(st) == Accounted(st) /\ Recorded(st)
\* e is whole and has the forwards of st: only the guest's own sockets came or went
Sound(st, e) == Whole(e) /\ e.forwards = st.forwards /\ e.refused = st.refused

\* Sockets with the same descriptor are the same socket.
LEMMA FdApart ==
  ASSUME NEW st, Apart(st), NEW t \in Types, NEW u \in Types, NEW s \in Elements(st.lists[t]),
         NEW o \in Elements(st.lists[u]), s.fd = o.fd
  PROVE  t = u /\ s = o
<1>1. PICK i \in DOMAIN st.lists[t] : s = st.lists[t][i]
  BY DEF Elements
<1>2. PICK j \in DOMAIN st.lists[u] : o = st.lists[u][j]
  BY DEF Elements
<1>3. t = u /\ i = j
  BY <1>1, <1>2 DEF Apart
<1> QED
  BY <1>1, <1>2, <1>3

\* the descriptors of sockets
FdSet(P) == {s.fd : s \in P}

\* The guest's own sockets can be detached.
LEMMA DetachOwn ==
  ASSUME NEW st, Whole(st), NEW t \in Types, NEW P \in SUBSET Elements(st.lists[t]),
         \A s \in P : s.hport = 0, NEW fds, fds = FdSet(P),
         NEW e, e = Detach(st, t, fds)
  PROVE  /\ Sound(st, e) /\ e.polls = st.polls /\ \A u \in Types \ {t} : e.lists[u] = st.lists[u]
         /\ Elements(e.lists[t]) = {s \in Elements(st.lists[t]) : s.fd \notin fds}
<1>1. st \in St /\ Apart(st) /\ Accounted(st) /\ Recorded(st)
  BY DEF Whole, Accounted
<1>2. \A u \in Types \ {t} : FdsOf(st.lists[u]) \cap fds = {}
  <2> SUFFICES ASSUME NEW u \in Types \ {t}, NEW i \in DOMAIN st.lists[u], NEW s \in P,
                      s.fd = st.lists[u][i].fd
               PROVE  FALSE
    BY DEF FdsOf, FdSet
  <2>1. st.lists[u][i] \in Elements(st.lists[u]) /\ s \in Elements(st.lists[t])
    BY DEF Elements
  <2> QED
    BY <1>1, <2>1, FdApart
<1>3. \A s \in Elements(st.lists[t]) : s.fd \in fds => s.hport = 0
  BY <1>1, FdApart DEF FdSet
<1>4. Accounted(e)
  BY <1>1, <1>2, DetachKeeps
<1>5. Recorded(e)
  BY <1>1, <1>3, DetachRecords
<1>6. Leaves(st, t, fds, e)
  BY <1>1, Detached
<1> QED
  BY <1>4, <1>5, <1>6 DEF Leaves, Sound, Whole

\* a socket of the guest's own
Fits(fd, port) == {s \in Sock : s.fd = fd /\ s.lport = port /\ s.hport = 0}

\* Sockets that the guest's packets or a listening socket make.
LEMMA NewSock ==
  ASSUME NEW fd \in Descriptors, NEW port \in 0 .. MaxPort, NEW k \in {"new", "conn"},
         NEW x \in 0 .. SO_EXPIRE
  PROVE  /\ [socreate(fd, port) EXCEPT !.state = k] \in Fits(fd, port)
         /\ [socreate(fd, port) EXCEPT !.expire = x] \in Fits(fd, port)
         /\ [socreate(fd, port) EXCEPT !.state = k, !.expire = x] \in Fits(fd, port)
<1>1. 0 \in 0 .. MaxPort /\ 0 \in 0 .. SO_EXPIRE /\ NoIndex \in Int
  BY GlueAssumption DEF NoIndex
<1>2. ASSUME NEW o, o = [socreate(fd, port) EXCEPT !.state = k] PROVE o \in Fits(fd, port)
  BY <1>1, <1>2 DEF socreate, Sock, Fits
<1>3. ASSUME NEW o, o = [socreate(fd, port) EXCEPT !.expire = x] PROVE o \in Fits(fd, port)
  BY <1>1, <1>3 DEF socreate, Sock, Fits
<1>4. ASSUME NEW o, o = [socreate(fd, port) EXCEPT !.state = k, !.expire = x] PROVE o \in Fits(fd, port)
  BY <1>1, <1>4 DEF socreate, Sock, Fits
<1> QED
  BY <1>2, <1>3, <1>4

\* tcp_connect, with or without a descriptor left.
LEMMA AcceptKeeps ==
  ASSUME NEW st, Whole(st), NEW s \in Sock, NEW e, e = Accept(st, s)
  PROVE  Sound(st, e) /\ Elements(st.lists.tcp) \subseteq Elements(e.lists.tcp)
<1>1. st \in St /\ Accounted(st) /\ Recorded(st) /\ "tcp" \in Types
  BY DEF Whole, Accounted, Types
<1>2. CASE HasFd(st)
  <2> DEFINE new == [socreate(LowestFree(st), s.lport) EXCEPT !.state = "conn"]
  <2>1. s.lport \in 0 .. MaxPort /\ 0 \in 0 .. SO_EXPIRE
    BY GlueAssumption DEF Sock
  <2>2. LowestFree(st) \in Descriptors \ Open(st)
    BY <1>1, <1>2, FreeIsFree
  <2>3. new \in Sock /\ new.hport = 0 /\ new.fd = LowestFree(st) /\ new.fd \notin Open(st)
    <3>1. new \in Fits(LowestFree(st), s.lport)
      BY <2>1, <2>2, NewSock
    <3> QED
      BY <2>2, <3>1 DEF Fits
  <2> HIDE DEF new
  <2>4. e = PollRegister(slirp_insque(st, "tcp", new), new.fd)
    BY <1>2, <2>3 DEF Accept, new
  <2> QED
    BY <1>1, <2>3, <2>4, OpenKeeps DEF Sound, Whole
<1>3. CASE ~HasFd(st)
  BY <1>3 DEF Accept, Sound, Whole
<1> QED
  BY <1>2, <1>3

\* TCP sockets that are visited are still there, whatever was accepted or ended before them.
LEMMA PollTcpKeeps ==
  ASSUME NEW st, Whole(st), NEW ready, NEW ended
  PROVE  Sound(st, PollTcp(st, ready, ended))
<1> DEFINE list == st.lists.tcp
           Visited(s, now) == IF ~HasEvents(st, s, ready) THEN now
                              ELSE IF s.state = "listen" THEN Accept(now, s)
                              ELSE IF s.fd \in ended THEN Detach(now, "tcp", {s.fd})
                              ELSE now
           Rec(k, m) == k = [i \in 0 .. m |-> IF i = 0 THEN st ELSE Visited(list[i], k[i - 1])]
           S == {m \in 0 .. Len(list) : \E k : Rec(k, m)}
<1>1. st \in St /\ Apart(st) /\ Accounted(st) /\ Recorded(st) /\ "tcp" \in Types
  BY DEF Whole, Accounted, Types
<1>2. list \in Seq(Sock) /\ Len(list) \in Nat /\ DOMAIN list = 1 .. Len(list)
  BY <1>1 DEF St
<1> HIDE DEF Visited, list
<1>3. 0 \in S
  <2> DEFINE h == [i \in 0 .. 0 |-> st]
  <2>1. h = [i \in 0 .. 0 |-> IF i = 0 THEN st ELSE Visited(list[i], h[i - 1])]
    OBVIOUS
  <2>2. \E f : Rec(f, 0)
    BY <2>1
  <2> QED
    BY <1>2, <2>2
<1>4. ASSUME NEW m \in 0 .. Len(list) - 1, m \in S PROVE m + 1 \in S
  <2>1. PICK k : Rec(k, m)
    BY <1>4
  <2> DEFINE h == [i \in 0 .. m + 1 |-> IF i = 0 THEN st ELSE Visited(list[i], k[i - 1])]
  <2>2. \A i \in 0 .. m : h[i] = k[i]
    BY <2>1
  <2>3. \A i \in 0 .. m + 1 : i # 0 => h[i - 1] = k[i - 1]
    <3> HIDE DEF h
    <3> QED
      BY <1>2, <2>2
  <2>4. h = [i \in 0 .. m + 1 |-> IF i = 0 THEN st ELSE Visited(list[i], h[i - 1])]
    BY <2>3, Zenon
  <2>5. \E f : Rec(f, m + 1)
    BY <2>4
  <2>6. m + 1 \in 0 .. Len(list)
    BY <1>2
  <2> QED
    BY <2>5, <2>6
<1>5. Len(list) \in S
  <2> HIDE DEF S
  <2>1. 0 .. Len(list) \subseteq S
    BY <1>2, <1>3, <1>4, UpTo
  <2> QED
    BY <1>2, <2>1
<1> DEFINE k == CHOOSE k : Rec(k, Len(list))
<1>6. Rec(k, Len(list))
  BY <1>5
<1>7. PollTcp(st, ready, ended) = k[Len(list)]
  BY DEF PollTcp, Visited, list
<1> HIDE DEF k
<1>8. k[0] = st /\ \A i \in 0 .. Len(list) - 1 : k[i + 1] = Visited(list[i + 1], k[i])
  <2>1. k[0] = st
    BY <1>2, <1>6
  <2>2. ASSUME NEW i \in 0 .. Len(list) - 1 PROVE k[i + 1] = Visited(list[i + 1], k[i])
    <3>1. i + 1 \in 0 .. Len(list) /\ i + 1 # 0 /\ (i + 1) - 1 = i
      BY <1>2
    <3>2. k[i + 1] = IF i + 1 = 0 THEN st ELSE Visited(list[i + 1], k[(i + 1) - 1])
      BY <1>6, <3>1, Zenon
    <3> QED
      BY <3>1, <3>2
  <2> QED
    BY <2>1, <2>2
<1> DEFINE P(i) == /\ Sound(st, k[i])
                   /\ \A j \in i + 1 .. Len(list) : list[j] \in Elements(k[i].lists.tcp)
           T == {i \in 0 .. Len(list) : P(i)}
<1>9. P(0)
  BY <1>1, <1>2, <1>8 DEF Sound, Whole, Elements, list
<1>10. ASSUME NEW i \in 0 .. Len(list) - 1, P(i) PROVE P(i + 1)
  <2> DEFINE now == k[i]
             then == k[i + 1]
             s == list[i + 1]
  <2>1. i + 1 \in DOMAIN list /\ s \in Sock /\ s \in Elements(now.lists.tcp) /\ then = Visited(s, now)
    BY <1>2, <1>8, <1>10
  <2>2. Whole(now) /\ Apart(now) /\ Kinds(now) /\ now.forwards = st.forwards /\ now.refused = st.refused
    BY <1>10 DEF Sound, Whole, Accounted
  <2>3. \A j \in (i + 1) + 1 .. Len(list) : j \in DOMAIN list /\ j # i + 1 /\ list[j] \in Elements(now.lists.tcp)
    BY <1>2, <1>10
  <2> HIDE DEF now, then, s
  <2>4. CASE then = now
    BY <1>10, <2>3, <2>4 DEF now, then
  <2>5. CASE then = Accept(now, s)
    <3>1. Sound(now, then) /\ Elements(now.lists.tcp) \subseteq Elements(then.lists.tcp)
      BY <2>1, <2>2, <2>5, AcceptKeeps
    <3> QED
      BY <2>2, <2>3, <3>1 DEF Sound, then
  <2>6. CASE s.state # "listen" /\ then = Detach(now, "tcp", {s.fd})
    <3>1. s.hport = 0
      BY <1>1, <2>1, <2>2, <2>6 DEF Kinds
    <3>2. /\ Sound(now, then)
          /\ Elements(then.lists.tcp) = {o \in Elements(now.lists.tcp) : o.fd \notin {s.fd}}
      <4> DEFINE Q == {s}
                 F == {s.fd}
      <4>1. Q \in SUBSET Elements(now.lists["tcp"]) /\ (\A o \in Q : o.hport = 0) /\ F = FdSet(Q)
        BY <2>1, <3>1 DEF FdSet
      <4>2. then = Detach(now, "tcp", F)
        BY <2>6
      <4> HIDE DEF Q, F
      <4>3. Sound(now, then) /\ Elements(then.lists["tcp"]) = {o \in Elements(now.lists["tcp"]) : o.fd \notin F}
        BY <1>1, <2>2, <4>1, <4>2, DetachOwn
      <4> QED
        BY <4>3 DEF F
    <3>3. ASSUME NEW j \in (i + 1) + 1 .. Len(list) PROVE list[j].fd # s.fd
      BY <1>1, <2>1, <2>3 DEF Apart, list, s
    <3> QED
      BY <2>2, <2>3, <3>2, <3>3 DEF Sound, then
  <2> QED
    BY <2>1, <2>4, <2>5, <2>6 DEF Visited
<1> HIDE DEF P
<1>11. 0 .. Len(list) \subseteq T
  <2>1. 0 \in T /\ \A i \in 0 .. Len(list) - 1 : i \in T => i + 1 \in T
    BY <1>2, <1>9, <1>10
  <2> HIDE DEF T
  <2> QED
    BY <1>2, <2>1, UpTo
<1>12. P(Len(list))
  BY <1>2, <1>11
<1> QED
  BY <1>7, <1>12 DEF P

\* What a socket receives keeps it, what it is.
LEMMA PollUdpKeeps ==
  ASSUME NEW st, Whole(st), NEW ready
  PROVE  Sound(st, PollUdp(st, ready))
<1> DEFINE e == PollUdp(st, ready)
           list == st.lists.udp
           Kept(s) == IF HasEvents(st, s, ready) /\ s.expire > 0 THEN [s EXCEPT !.expire = SO_EXPIRE] ELSE s
           new == [i \in DOMAIN list |-> Kept(list[i])]
<1>1. st \in St /\ Accounted(st) /\ Recorded(st) /\ "udp" \in Types
  BY DEF Whole, Accounted, Types
<1>2. /\ list \in Seq(Sock) /\ Len(list) \in Nat /\ DOMAIN list = 1 .. Len(list)
      /\ st.lists \in [Types -> Seq(Sock)]
  BY <1>1 DEF St
<1>3. e = [st EXCEPT !.lists = [st.lists EXCEPT !["udp"] = new]]
  BY <1>1 DEF PollUdp, St
<1>4. ASSUME NEW s \in Sock
      PROVE  /\ Kept(s) \in Sock /\ Kept(s).fd = s.fd /\ Kept(s).lport = s.lport /\ Kept(s).hport = s.hport
             /\ (s.expire = 0 => Kept(s).expire = 0)
  <2>1. SO_EXPIRE \in 0 .. SO_EXPIRE /\ s.expire \in Nat
    BY GlueAssumption DEF Sock
  <2> QED
    BY <2>1 DEF Sock
<1> HIDE DEF Kept
<1>5. DOMAIN new = DOMAIN list /\ \A i \in DOMAIN list : list[i] \in Sock /\ new[i] = Kept(list[i])
  BY <1>2
<1>6. new \in Seq(Sock)
  <2>1. new \in [1 .. Len(list) -> Sock]
    BY <1>2, <1>4, <1>5
  <2> HIDE DEF new
  <2> QED
    BY <1>2, <2>1
<1> HIDE DEF new, e
<1>7. /\ e \in St /\ e.registered = st.registered /\ e.forwards = st.forwards /\ e.refused = st.refused
      /\ e.lists = [st.lists EXCEPT !["udp"] = new]
  <2>1. [st.lists EXCEPT !["udp"] = new] \in [Types -> Seq(Sock)]
    BY <1>2, <1>6
  <2> QED
    BY <1>1, <1>3, <2>1 DEF St
<1>8. e.lists["udp"] = new /\ \A u \in Types \ {"udp"} : e.lists[u] = st.lists[u]
  BY <1>1, <1>2, <1>7
<1>9. Same(st, e)
  BY <1>1, <1>4, <1>5, <1>7, <1>8 DEF Same
<1>10. Accounted(e) /\ Recorded(e)
  BY <1>1, <1>9, SameKeeps
<1> QED
  BY <1>7, <1>10 DEF Sound, Whole, e

\* An answered echo request is the end of its socket.
LEMMA PollIcmpKeeps ==
  ASSUME NEW st, Whole(st), NEW ready
  PROVE  Sound(st, PollIcmp(st, ready))
<1> DEFINE P == {o \in Elements(st.lists.icmp) : HasEvents(st, o, ready)}
<1>1. P \in SUBSET Elements(st.lists["icmp"]) /\ "icmp" \in Types
  BY DEF Types
<1>2. \A s \in P : s.hport = 0
  BY <1>1 DEF Whole, Accounted, Kinds
<1>3. PollIcmp(st, ready) = Detach(st, "icmp", FdSet(P))
  BY DEF PollIcmp, FdSet
<1> HIDE DEF P
<1> QED
  BY <1>1, <1>2, <1>3, DetachOwn

\* the TCP sockets and what they are
TcpOf(st) == {<<s.fd, s.state>> : s \in Elements(st.lists["tcp"])}

\* Where the sockets are the same the TCP sockets are in the same states.
LEMMA SameTcp ==
  ASSUME NEW st, NEW e, Same(st, e)
  PROVE  TcpOf(e) = TcpOf(st)
<1>1. "tcp" \in Types
  BY DEF Types
<1>2. /\ DOMAIN e.lists["tcp"] = DOMAIN st.lists["tcp"]
      /\ \A i \in DOMAIN st.lists["tcp"] : /\ e.lists["tcp"][i].fd = st.lists["tcp"][i].fd
                                          /\ e.lists["tcp"][i].state = st.lists["tcp"][i].state
  BY <1>1 DEF Same
<1> QED
  BY <1>2 DEF TcpOf, Elements

\* Sockets that expire are the guest's own.
LEMMA ExpireKeeps ==
  ASSUME NEW st, Whole(st), NEW t \in Types, NEW e, e = Detach(st, t, Expired(st, t))
  PROVE  /\ Sound(st, e) /\ e.polls = st.polls /\ \A u \in Types : Indices(st, u) => Indices(e, u)
         /\ t # "tcp" => TcpOf(e) = TcpOf(st)
<1> DEFINE P == {o \in Elements(st.lists[t]) : o.expire = 1}
<1>1. P \in SUBSET Elements(st.lists[t])
  OBVIOUS
<1>2. \A s \in P : s.hport = 0
  BY DEF Whole, Accounted, Kinds
<1>3. e = Detach(st, t, FdSet(P))
  BY DEF Expired, FdSet
<1> HIDE DEF P
<1>4. Sound(st, e) /\ e.polls = st.polls
  BY <1>1, <1>2, <1>3, DetachOwn
<1>5. st \in St /\ "tcp" \in Types
  BY DEF Whole, Accounted, Types
<1>6. t # "tcp" => e.lists["tcp"] = st.lists["tcp"]
  <2>1. Leaves(st, t, FdSet(P), e)
    BY <1>3, <1>5, Detached
  <2> QED
    BY <1>5, <2>1 DEF Leaves
<1> QED
  BY <1>4, <1>5, <1>6, DetachIndices DEF TcpOf

\* TCP connections that are dropped, which no forward is.
LEMMA DropKeeps ==
  ASSUME NEW st, Whole(st), NEW fds, NEW e, e = Detach(st, "tcp", fds),
         \A s \in Elements(st.lists.tcp) : s.fd \in fds => s.state = "conn",
         \A fd \in fds : \E s \in Elements(st.lists.tcp) : s.fd = fd
  PROVE  Sound(st, e) /\ \A u \in Types : Indices(st, u) => Indices(e, u)
<1> DEFINE P == {s \in Elements(st.lists["tcp"]) : s.fd \in fds}
<1>1. P \in SUBSET Elements(st.lists["tcp"]) /\ "tcp" \in Types
  BY DEF Types
<1>2. \A s \in P : s.hport = 0
  BY <1>1 DEF Whole, Accounted, Kinds
<1>3. fds = FdSet(P)
  BY DEF FdSet
<1> HIDE DEF P
<1>4. Sound(st, e)
  BY <1>1, <1>2, <1>3, DetachOwn
<1> QED
  BY <1>1, <1>4, DetachIndices DEF Whole, Accounted

\* Indexing keeps all that is to be kept.
LEMMA IndexedKeeps ==
  ASSUME NEW st, Whole(st), NEW t \in Types, NEW asks, NEW e, e = Indexed(st, t, asks)
  PROVE  /\ Sound(st, e) /\ Indices(e, t) /\ \A u \in Types \ {t} : Indices(st, u) => Indices(e, u)
         /\ TcpOf(e) = TcpOf(st)
<1>1. st \in St /\ Accounted(st) /\ Recorded(st)
  BY DEF Whole, Accounted
<1>2. /\ Same(st, e) /\ Indices(e, t)
      /\ \A u \in Types \ {t} : Indices(st, u) => Indices(e, u)
  BY <1>1, IndexedSame
<1>3. Accounted(e) /\ Recorded(e)
  BY <1>1, <1>2, SameKeeps
<1> QED
  BY <1>2, <1>3, SameTcp DEF Sound, Whole, Same

\* Filling gives every index that a socket has anew: what is in the polls belongs to the
\* sockets, and what is detached on the way has no index left.
LEMMA FillKeeps ==
  ASSUME NEW st, Whole(st), NEW quiet, NEW e, e = slirp_pollfds_fill(st, quiet)
  PROVE  Sound(st, e) /\ TcpOf(e) = TcpOf(st) /\ \A t \in Types : Indices(e, t)
<1> DEFINE a == Indexed(st, "tcp", Asks(st, "tcp", quiet))
           b == Detach(a, "udp", Expired(a, "udp"))
           c == Indexed(b, "udp", Asks(b, "udp", quiet))
           d == Detach(c, "icmp", Expired(c, "icmp"))
<1>1. e = Indexed(d, "icmp", Asks(d, "icmp", {}))
  BY DEF slirp_pollfds_fill
<1>2. "tcp" \in Types /\ "udp" \in Types /\ "icmp" \in Types /\ "tcp" # "udp" /\ "tcp" # "icmp" /\ "udp" # "icmp"
  BY DEF Types
<1>3. Sound(st, a) /\ TcpOf(a) = TcpOf(st) /\ Indices(a, "tcp")
  BY <1>2, IndexedKeeps
<1> HIDE DEF a
<1>4. Sound(a, b) /\ TcpOf(b) = TcpOf(a) /\ Indices(b, "tcp")
  BY <1>2, <1>3, ExpireKeeps DEF Sound
<1> HIDE DEF b
<1>5. Sound(b, c) /\ TcpOf(c) = TcpOf(b) /\ Indices(c, "udp") /\ Indices(c, "tcp")
  BY <1>2, <1>4, IndexedKeeps DEF Sound
<1> HIDE DEF c
<1>6. Sound(c, d) /\ TcpOf(d) = TcpOf(c) /\ Indices(d, "tcp") /\ Indices(d, "udp")
  BY <1>2, <1>5, ExpireKeeps DEF Sound
<1> HIDE DEF d
<1>7. Sound(d, e) /\ TcpOf(e) = TcpOf(d) /\ Indices(e, "icmp") /\ Indices(e, "tcp") /\ Indices(e, "udp")
  BY <1>1, <1>2, <1>6, IndexedKeeps DEF Sound
<1> QED
  BY <1>3, <1>4, <1>5, <1>6, <1>7 DEF Sound, Types

\* Where all indices are their own descriptors' nobody reads another one's events.
LEMMA IndicesRead ==
  ASSUME NEW st, \A t \in Types : Indices(st, t), st \in St
  PROVE  ~Misreads(st)
<1> SUFFICES ASSUME NEW t \in Types, NEW i \in DOMAIN st.lists[t], st.lists[t][i].idx # NoIndex,
                    st.lists[t][i].idx >= Len(st.polls)
                      \/ st.polls[st.lists[t][i].idx + 1] # st.lists[t][i].fd
             PROVE  FALSE
  BY DEF Misreads, Elements
<1>1. /\ st.lists[t][i].idx \in 0 .. Len(st.polls) - 1
      /\ st.polls[st.lists[t][i].idx + 1] = st.lists[t][i].fd
  BY DEF Indices
<1>2. Len(st.polls) \in Nat
  BY DEF St
<1> QED
  BY <1>1, <1>2

-----------------------------------------------------------------------------
(* The rules.                                                              *)

Ports == 1 .. MaxPort
\* the pairs of ports that a rule asks for
PairsOf(rule) ==
  LET p == PortsOf(rule)
  IN  IF p # <<>> /\ p[1] <= p[2] /\ p[3] <= p[4]
      THEN {<<p[1] + k, p[3] + k>> : k \in {k \in 0 .. MaxPort : k <= p[2] - p[1] \/ k <= p[4] - p[3]}}
      ELSE {}
\* a port in a rule's range is forwarded or was refused
Covered(forwarded, ref, t, rule) ==
  LET p == PortsOf(rule)
  IN  Valid(p) => \A h \in p[1] .. p[2] : <<t, h>> \in ref \/ \E f \in forwarded : f[1] = h
\* e is st with more forwards of t, which pairs has
More(st, e, t, pairs) ==
  /\ Whole(e) /\ st.refused \subseteq e.refused /\ st.forwards[t] \subseteq e.forwards[t]
  /\ e.forwards[t] \subseteq st.forwards[t] \cup (pairs \cap (Ports \X Ports))
  /\ \A u \in {"tcp", "udp"} \ {t} : e.forwards[u] = st.forwards[u]

\* TwoOf is of the kind of its argument.
LEMMA TwoPorts ==
  ASSUME NEW X, NEW s \in Seq(X)
  PROVE  TwoOf(s) \in Seq(X)
BY DEF TwoOf

\* Two parts of two elements have four.
LEMMA FourElements ==
  ASSUME NEW X, NEW a \in Seq(X), NEW b \in Seq(X), Len(a) >= 2, Len(b) >= 2
  PROVE  \A i \in 1 .. 4 : (a \o b)[i] \in X
<1>1. a \o b \in Seq(X) /\ Len(a \o b) >= 4
  BY ConcatIs
<1> DEFINE p == a \o b
<1>2. p \in Seq(X) /\ Len(p) >= 4
  BY <1>1
<1> HIDE DEF p
<1>3. \A i \in 1 .. 4 : p[i] \in X
  BY <1>2
<1> QED
  BY <1>3 DEF p

\* The ports of a rule are numbers.
LEMMA FourPorts ==
  ASSUME NEW rule \in Seq(Seq(Int)), NEW p, p = PortsOf(rule), p # <<>>
  PROVE  p[1] \in Int /\ p[2] \in Int /\ p[3] \in Int /\ p[4] \in Int
<1> DEFINE parts == TwoOf(rule)
<1>1. parts \in Seq(Seq(Int))
  BY TwoPorts
<1> HIDE DEF parts
<1>2. /\ Len(parts) >= 2 /\ Len(TwoOf(parts[1])) >= 2 /\ Len(TwoOf(parts[2])) >= 2
      /\ p = TwoOf(parts[1]) \o TwoOf(parts[2])
  BY DEF PortsOf, parts
<1>3. parts[1] \in Seq(Int) /\ parts[2] \in Seq(Int)
  BY <1>1, <1>2
<1> DEFINE a == TwoOf(parts[1])
           b == TwoOf(parts[2])
<1>4. a \in Seq(Int) /\ b \in Seq(Int) /\ Len(a) >= 2 /\ Len(b) >= 2 /\ p = a \o b
  BY <1>2, <1>3, TwoPorts
<1> HIDE DEF a, b
<1>5. \A i \in 1 .. 4 : p[i] \in Int
  BY <1>4, FourElements
<1> QED
  BY <1>5

\* All ports of a valid rule's range are in the range of ports.
LEMMA ValidPorts ==
  ASSUME NEW rule \in Seq(Seq(Int)), NEW p, p = PortsOf(rule), Valid(p)
  PROVE  /\ RangeOf(p) \in 0 .. MaxPort /\ p[2] - p[1] <= RangeOf(p) /\ p[1] \in Int /\ p[3] \in Int /\ p[2] \in Int
         /\ \A k \in 0 .. RangeOf(p) :
              /\ p[1] + k \in Ports /\ p[3] + k \in Ports /\ <<p[1] + k, p[3] + k>> \in PairsOf(rule)
<1>1. p # <<>> /\ p[1] \in Int /\ p[2] \in Int /\ p[3] \in Int /\ p[4] \in Int /\ MaxPort \in Nat
  BY FourPorts, GlueAssumption DEF Valid
<1>2. /\ p[2] >= p[1] /\ p[4] >= p[3] /\ p[1] >= 1 /\ p[3] >= 1
      /\ p[1] + RangeOf(p) <= MaxPort /\ p[3] + RangeOf(p) <= MaxPort
  BY DEF Valid
<1>3. /\ RangeOf(p) \in Int /\ RangeOf(p) >= 0 /\ p[2] - p[1] <= RangeOf(p)
      /\ RangeOf(p) = p[2] - p[1] \/ RangeOf(p) = p[4] - p[3]
  BY <1>1, <1>2 DEF RangeOf
<1>4. ASSUME NEW k \in 0 .. RangeOf(p)
      PROVE  p[1] + k \in Ports /\ p[3] + k \in Ports /\ <<p[1] + k, p[3] + k>> \in PairsOf(rule)
  <2>1. p[1] + k \in Ports /\ p[3] + k \in Ports /\ k \in 0 .. MaxPort
    <3>1. ASSUME NEW r \in Int, NEW m \in Nat, NEW j \in 0 .. r, NEW a \in Int, a >= 1, a + r <= m
          PROVE  a + j \in 1 .. m /\ j \in 0 .. m
      BY <3>1
    <3> QED
      BY <1>1, <1>2, <1>3, <3>1 DEF Ports
  <2>2. k <= p[2] - p[1] \/ k <= p[4] - p[3]
    BY <1>1, <1>3
  <2> QED
    BY <1>1, <1>2, <2>1, <2>2 DEF PairsOf
<1> QED
  BY <1>1, <1>2, <1>3, <1>4

\* A rule's ports are forwarded one by one, and what is not was refused.
LEMMA RuleKeeps ==
  ASSUME NEW st, Whole(st), NEW t \in {"tcp", "udp"}, NEW taken, NEW rule \in Seq(Seq(Int)),
         NEW e, e = SetupRule(st, t, taken, rule)
  PROVE  More(st, e, t, PairsOf(rule)) /\ Covered(e.forwards[t], e.refused, t, rule)
<1> DEFINE p == PortsOf(rule)
           Step(x, n) == slirp_add_hostfwd(x, t, taken, p[1] + n - 1, p[3] + n - 1)
           Rec(k, m) == k = [n \in 0 .. m |-> IF n = 0 THEN st ELSE Step(k[n - 1], n)]
           last == RangeOf(p) + 1
           S == {m \in 0 .. last : \E k : Rec(k, m)}
<1>1. CASE ~Valid(p)
  BY <1>1 DEF SetupRule, More, Covered, Whole
<1>2. CASE Valid(p)
  <2>1. /\ RangeOf(p) \in 0 .. MaxPort /\ p[2] - p[1] <= RangeOf(p) /\ p[1] \in Int /\ p[3] \in Int /\ p[2] \in Int
        /\ \A k \in 0 .. RangeOf(p) :
             /\ p[1] + k \in Ports /\ p[3] + k \in Ports /\ <<p[1] + k, p[3] + k>> \in PairsOf(rule)
    BY <1>2, ValidPorts
  <2>2. last \in Nat
    BY <2>1
  <2> HIDE DEF Step, last, p
  <2>3. 0 \in S
    <3> DEFINE h == [n \in 0 .. 0 |-> st]
    <3>1. h = [n \in 0 .. 0 |-> IF n = 0 THEN st ELSE Step(h[n - 1], n)]
      OBVIOUS
    <3>2. \E f : Rec(f, 0)
      BY <3>1
    <3> QED
      BY <2>2, <3>2
  <2>4. ASSUME NEW m \in 0 .. last - 1, m \in S PROVE m + 1 \in S
    <3>1. PICK k : Rec(k, m)
      BY <2>4
    <3> DEFINE h == [n \in 0 .. m + 1 |-> IF n = 0 THEN st ELSE Step(k[n - 1], n)]
    <3>2. \A n \in 0 .. m : h[n] = k[n]
      BY <3>1
    <3>3. \A n \in 0 .. m + 1 : n # 0 => h[n - 1] = k[n - 1]
      <4> HIDE DEF h
      <4> QED
        BY <2>2, <3>2
    <3>4. h = [n \in 0 .. m + 1 |-> IF n = 0 THEN st ELSE Step(h[n - 1], n)]
      BY <3>3, Zenon
    <3>5. \E f : Rec(f, m + 1)
      BY <3>4
    <3>6. m + 1 \in 0 .. last
      BY <2>2
    <3> QED
      BY <3>5, <3>6
  <2>5. last \in S
    <3> HIDE DEF S
    <3>1. 0 .. last \subseteq S
      BY <2>2, <2>3, <2>4, UpTo
    <3> QED
      BY <2>2, <3>1
  <2> DEFINE k == CHOOSE k : Rec(k, last)
  <2>6. Rec(k, last)
    BY <2>5
  <2>7. e = k[last]
    BY <1>2 DEF SetupRule, Step, p, last
  <2> HIDE DEF k
  <2>8. k[0] = st /\ \A i \in 0 .. last - 1 : k[i + 1] = slirp_add_hostfwd(k[i], t, taken, p[1] + i, p[3] + i)
    <3>1. k[0] = st
      BY <2>2, <2>6
    <3>2. ASSUME NEW i \in 0 .. last - 1
          PROVE  k[i + 1] = slirp_add_hostfwd(k[i], t, taken, p[1] + i, p[3] + i)
      <4>1. i + 1 \in 0 .. last /\ i + 1 # 0 /\ (i + 1) - 1 = i
        BY <2>2
      <4>2. k[i + 1] = IF i + 1 = 0 THEN st ELSE Step(k[(i + 1) - 1], i + 1)
        BY <2>6, <4>1, Zenon
      <4>3. p[1] + (i + 1) - 1 = p[1] + i /\ p[3] + (i + 1) - 1 = p[3] + i
        BY <2>1, <2>2
      <4> QED
        BY <4>1, <4>2, <4>3 DEF Step
    <3> QED
      BY <3>1, <3>2
  <2> DEFINE P(i) == /\ More(st, k[i], t, PairsOf(rule))
                     /\ \A n \in 0 .. i - 1 : \/ <<t, p[1] + n>> \in k[i].refused
                                             \/ <<p[1] + n, p[3] + n>> \in k[i].forwards[t]
             T == {i \in 0 .. last : P(i)}
  <2>9. P(0)
    BY <2>8 DEF More
  <2>10. ASSUME NEW i \in 0 .. last - 1, P(i) PROVE P(i + 1)
    <3> DEFINE now == k[i]
               then == k[i + 1]
               host == p[1] + i
               guest == p[3] + i
    <3>1. host \in Ports /\ guest \in Ports /\ <<host, guest>> \in PairsOf(rule) /\ i \in Int
      BY <2>1, <2>2 DEF last
    <3>2. then = slirp_add_hostfwd(now, t, taken, host, guest)
      BY <2>8
    <3>3. /\ More(st, now, t, PairsOf(rule))
          /\ \A n \in 0 .. i - 1 : <<t, p[1] + n>> \in now.refused \/ <<p[1] + n, p[3] + n>> \in now.forwards[t]
      BY <2>10
    <3> HIDE DEF now, then, guest
    <3>4. Accounted(now) /\ Recorded(now) /\ now.forwards \in [{"tcp", "udp"} -> SUBSET (Int \X Int)]
      BY <3>3 DEF More, Whole, Accounted, St
    <3>5. Accounted(then) /\ Recorded(then) /\ Forwards(now, then, t, host, guest)
      <4> HIDE DEF host
      <4> QED
        BY <3>1, <3>2, <3>4, ForwardKeeps DEF Ports
    <3>6. /\ now.refused \subseteq then.refused /\ now.forwards[t] \subseteq then.forwards[t]
          /\ then.forwards[t] \subseteq now.forwards[t] \cup {<<host, guest>>}
          /\ \A u \in {"tcp", "udp"} \ {t} : then.forwards[u] = now.forwards[u]
          /\ <<t, host>> \in then.refused \/ <<host, guest>> \in then.forwards[t]
      BY <3>4, <3>5 DEF Forwards
    <3>7. More(st, then, t, PairsOf(rule))
      <4>1. <<host, guest>> \in Ports \X Ports
        BY <3>1
      <4> HIDE DEF host
      <4> QED
        BY <3>1, <3>3, <3>5, <3>6, <4>1 DEF More, Whole
    <3>8. ASSUME NEW n \in 0 .. (i + 1) - 1
          PROVE  <<t, p[1] + n>> \in then.refused \/ <<p[1] + n, p[3] + n>> \in then.forwards[t]
      <4>1. CASE n = i
        BY <3>6, <4>1 DEF guest
      <4>2. CASE n # i
        <5>1. n \in 0 .. i - 1
          BY <3>1, <4>2
        <5> QED
          BY <3>3, <3>6, <5>1
      <4> QED
        BY <4>1, <4>2
    <3> QED
      BY <3>7, <3>8 DEF then
  <2> HIDE DEF P
  <2>11. 0 .. last \subseteq T
    <3>1. 0 \in T /\ \A i \in 0 .. last - 1 : i \in T => i + 1 \in T
      BY <2>2, <2>9, <2>10
    <3> HIDE DEF T
    <3> QED
      BY <2>2, <3>1, UpTo
  <2>12. P(last)
    BY <2>2, <2>11
  <2>13. More(st, e, t, PairsOf(rule))
    BY <2>7, <2>12 DEF P
  <2>14. ASSUME NEW h \in p[1] .. p[2]
         PROVE  <<t, h>> \in e.refused \/ \E f \in e.forwards[t] : f[1] = h
    <3> DEFINE n == h - p[1]
    <3>1. n \in 0 .. last - 1 /\ p[1] + n = h
      BY <2>1 DEF last
    <3> HIDE DEF n
    <3>2. <<t, p[1] + n>> \in e.refused \/ <<p[1] + n, p[3] + n>> \in e.forwards[t]
      BY <2>7, <2>12, <3>1 DEF P
    <3> QED
      BY <3>1, <3>2
  <2> QED
    BY <2>13, <2>14 DEF Covered, p
<1> QED
  BY <1>1, <1>2

\* Rule by rule.
LEMMA RulesKeep ==
  ASSUME NEW st, Whole(st), NEW t \in {"tcp", "udp"}, NEW taken, NEW rules \in Seq(Seq(Seq(Int))),
         NEW e, e = SetupPortForwards(st, t, taken, rules)
  PROVE  /\ More(st, e, t, UNION {PairsOf(rule) : rule \in Elements(rules)})
         /\ \A i \in DOMAIN rules : Covered(e.forwards[t], e.refused, t, rules[i])
<1> DEFINE Step(x, i) == SetupRule(x, t, taken, rules[i])
           Rec(k, m) == k = [i \in 0 .. m |-> IF i = 0 THEN st ELSE Step(k[i - 1], i)]
           S == {m \in 0 .. Len(rules) : \E k : Rec(k, m)}
           pairs == UNION {PairsOf(rule) : rule \in Elements(rules)}
<1>1. Len(rules) \in Nat /\ DOMAIN rules = 1 .. Len(rules) /\ \A i \in DOMAIN rules : rules[i] \in Seq(Seq(Int))
  OBVIOUS
<1> HIDE DEF Step
<1>2. 0 \in S
  <2> DEFINE h == [i \in 0 .. 0 |-> st]
  <2>1. h = [i \in 0 .. 0 |-> IF i = 0 THEN st ELSE Step(h[i - 1], i)]
    OBVIOUS
  <2>2. \E f : Rec(f, 0)
    BY <2>1
  <2> QED
    BY <1>1, <2>2
<1>3. ASSUME NEW m \in 0 .. Len(rules) - 1, m \in S PROVE m + 1 \in S
  <2>1. PICK k : Rec(k, m)
    BY <1>3
  <2> DEFINE h == [i \in 0 .. m + 1 |-> IF i = 0 THEN st ELSE Step(k[i - 1], i)]
  <2>2. \A i \in 0 .. m : h[i] = k[i]
    BY <2>1
  <2>3. \A i \in 0 .. m + 1 : i # 0 => h[i - 1] = k[i - 1]
    <3> HIDE DEF h
    <3> QED
      BY <1>1, <2>2
  <2>4. h = [i \in 0 .. m + 1 |-> IF i = 0 THEN st ELSE Step(h[i - 1], i)]
    BY <2>3, Zenon
  <2>5. \E f : Rec(f, m + 1)
    BY <2>4
  <2>6. m + 1 \in 0 .. Len(rules)
    BY <1>1
  <2> QED
    BY <2>5, <2>6
<1>4. Len(rules) \in S
  <2> HIDE DEF S
  <2>1. 0 .. Len(rules) \subseteq S
    BY <1>1, <1>2, <1>3, UpTo
  <2> QED
    BY <1>1, <2>1
<1> DEFINE k == CHOOSE k : Rec(k, Len(rules))
<1>5. Rec(k, Len(rules))
  BY <1>4
<1>6. e = k[Len(rules)]
  BY DEF SetupPortForwards, Step
<1> HIDE DEF k
<1>7. k[0] = st /\ \A i \in 0 .. Len(rules) - 1 : k[i + 1] = SetupRule(k[i], t, taken, rules[i + 1])
  <2>1. k[0] = st
    BY <1>1, <1>5
  <2>2. ASSUME NEW i \in 0 .. Len(rules) - 1 PROVE k[i + 1] = SetupRule(k[i], t, taken, rules[i + 1])
    <3>1. i + 1 \in 0 .. Len(rules) /\ i + 1 # 0 /\ (i + 1) - 1 = i
      BY <1>1
    <3>2. k[i + 1] = IF i + 1 = 0 THEN st ELSE Step(k[(i + 1) - 1], i + 1)
      BY <1>5, <3>1, Zenon
    <3> QED
      BY <3>1, <3>2 DEF Step
  <2> QED
    BY <2>1, <2>2
<1> DEFINE P(i) == /\ More(st, k[i], t, pairs)
                   /\ \A j \in 1 .. i : Covered(k[i].forwards[t], k[i].refused, t, rules[j])
           T == {i \in 0 .. Len(rules) : P(i)}
<1>8. P(0)
  BY <1>7 DEF More
<1>9. ASSUME NEW i \in 0 .. Len(rules) - 1, P(i) PROVE P(i + 1)
  <2> DEFINE now == k[i]
             then == k[i + 1]
             rule == rules[i + 1]
  <2>0. i \in Nat /\ i + 1 \in DOMAIN rules
    BY <1>1
  <2>1. rule \in Seq(Seq(Int)) /\ rule \in Elements(rules) /\ i \in Nat
    BY <1>1, <2>0 DEF Elements
  <2>2. PairsOf(rule) \subseteq pairs
    BY <2>1
  <2>3. then = SetupRule(now, t, taken, rule)
    BY <1>7
  <2>4. More(st, now, t, pairs) /\ \A j \in 1 .. i : Covered(now.forwards[t], now.refused, t, rules[j])
    BY <1>9
  <2> HIDE DEF now, then, rule, pairs
  <2>5. More(now, then, t, PairsOf(rule)) /\ Covered(then.forwards[t], then.refused, t, rule)
    <3>1. Whole(now)
      BY <2>4 DEF More
    <3> QED
      BY <2>1, <2>3, <3>1, RuleKeeps
  <2>6. More(st, then, t, pairs)
    BY <2>2, <2>4, <2>5 DEF More
  <2>7. ASSUME NEW j \in 1 .. i + 1 PROVE Covered(then.forwards[t], then.refused, t, rules[j])
    <3>1. CASE j = i + 1
      BY <2>5, <3>1 DEF rule
    <3>2. CASE j # i + 1
      <4>1. j \in 1 .. i
        BY <2>1, <3>2
      <4>2. Covered(now.forwards[t], now.refused, t, rules[j])
        BY <2>4, <4>1
      <4>3. now.forwards[t] \subseteq then.forwards[t] /\ now.refused \subseteq then.refused
        BY <2>5 DEF More
      <4> QED
        BY <4>2, <4>3 DEF Covered
    <3> QED
      BY <3>1, <3>2
  <2> QED
    BY <2>6, <2>7 DEF then
<1> HIDE DEF P
<1>10. 0 .. Len(rules) \subseteq T
  <2>1. 0 \in T /\ \A i \in 0 .. Len(rules) - 1 : i \in T => i + 1 \in T
    BY <1>1, <1>8, <1>9
  <2> HIDE DEF T
  <2> QED
    BY <1>1, <2>1, UpTo
<1>11. P(Len(rules))
  BY <1>1, <1>10
<1> QED
  BY <1>1, <1>6, <1>11 DEF P

-----------------------------------------------------------------------------
(* What a packet to an address does to the socket that sends it.           *)

\* A datagram that is sent leaves its socket open for longer.
LEMMA SendKeeps ==
  ASSUME NEW st, Whole(st), NEW port, UdpOf(st, port) # {}, NEW sent
  PROVE  Sound(st, sosendto(st, port, sent))
<1> DEFINE i == CHOOSE i \in UdpOf(st, port) : \A j \in UdpOf(st, port) : i <= j
           e == sosendto(st, port, sent)
           list == st.lists["udp"]
           x == IF list[i].expire > 0 THEN SO_EXPIRE ELSE 0
           s == [list[i] EXCEPT !.state = "conn", !.expire = x]
           new == [list EXCEPT ![i] = s]
<1>1. st \in St /\ Accounted(st) /\ Recorded(st) /\ "udp" \in Types
  BY DEF Whole, Accounted, Types
<1>2. /\ list \in Seq(Sock) /\ Len(list) \in Nat /\ DOMAIN list = 1 .. Len(list)
      /\ st.lists \in [Types -> Seq(Sock)]
  BY <1>1 DEF St
<1>3. i \in DOMAIN list
  <2>1. UdpOf(st, port) \subseteq Nat /\ UdpOf(st, port) \subseteq DOMAIN list
    BY <1>2 DEF UdpOf
  <2>2. \E j \in UdpOf(st, port) : \A m \in UdpOf(st, port) : j <= m
    BY <2>1, Least
  <2>3. i \in UdpOf(st, port)
    BY <2>2
  <2> QED
    BY <2>1, <2>3
<1>4. sent => e = [st EXCEPT !.lists = [st.lists EXCEPT !["udp"] = new]]
  <2>1. sent => e = [st EXCEPT !.lists.udp[i] = s]
    BY DEF sosendto
  <2> HIDE DEF i, e, s
  <2> QED
    BY <1>1, <1>2, <1>3, <2>1 DEF St
<1> HIDE DEF i
<1>5. /\ s \in Sock /\ s.fd = list[i].fd /\ s.lport = list[i].lport /\ s.hport = list[i].hport
      /\ (list[i].expire = 0 => s.expire = 0)
  <2>1. list[i] \in Sock
    BY <1>2, <1>3
  <2>2. x \in 0 .. SO_EXPIRE /\ (list[i].expire = 0 => x = 0)
    BY <2>1, GlueAssumption DEF Sock
  <2> HIDE DEF x
  <2> QED
    BY <2>1, <2>2 DEF Sock
<1> HIDE DEF s
<1>6. /\ new \in Seq(Sock) /\ DOMAIN new = DOMAIN list /\ new[i] = s
      /\ \A j \in DOMAIN list : j # i => new[j] = list[j]
  BY <1>2, <1>3, <1>5
<1> HIDE DEF new, e
<1>7. CASE sent
  <2>1. /\ e \in St /\ e.registered = st.registered /\ e.forwards = st.forwards /\ e.refused = st.refused
        /\ e.lists = [st.lists EXCEPT !["udp"] = new]
    <3>1. [st.lists EXCEPT !["udp"] = new] \in [Types -> Seq(Sock)]
      BY <1>2, <1>6
    <3> QED
      BY <1>1, <1>4, <1>7, <3>1 DEF St
  <2>2. e.lists["udp"] = new /\ \A u \in Types \ {"udp"} : e.lists[u] = st.lists[u]
    BY <1>1, <1>2, <2>1
  <2>3. Same(st, e)
    <3>1. ASSUME NEW j \in DOMAIN list
          PROVE  /\ new[j].fd = list[j].fd /\ new[j].lport = list[j].lport /\ new[j].hport = list[j].hport
                 /\ list[j].expire = 0 => new[j].expire = 0
      BY <1>5, <1>6
    <3> QED
      BY <1>1, <1>6, <2>1, <2>2, <3>1 DEF Same
  <2>4. Accounted(e) /\ Recorded(e)
    BY <1>1, <2>3, SameKeeps
  <2> QED
    BY <2>1, <2>4 DEF Sound, Whole, e
<1>8. CASE ~sent
  BY <1>8 DEF sosendto, Sound
<1> QED
  BY <1>7, <1>8

-----------------------------------------------------------------------------
(* The invariant.                                                          *)

RulesStand ==
  \A t \in {"tcp", "udp"} :
    /\ forwards[t] \subseteq Ruled(t) \cap (Ports \X Ports)
    /\ \A i \in DOMAIN setting[t] : Covered(forwards[t], refused, t, setting[t][i])
CacheOk ==
  /\ dns = [addr |-> dns.addr, age |-> dns.age, from |-> dns.from]
  /\ dns.age \in 0 .. TIMEOUT_DEFAULT

GlueInv ==
  /\ slirp \in BOOLEAN /\ Whole(State) /\ (~slirp => Sockets = {})
  /\ RulesStand /\ CacheOk /\ ~misread /\ ~outdated

\* polls are no part of what an operation leaves
LEMMA PollsAside ==
  ASSUME NEW st, Whole(st), NEW polls \in Seq(Descriptors), NEW e,
         e = [lists |-> st.lists, registered |-> st.registered, polls |-> polls,
              forwards |-> st.forwards, refused |-> st.refused]
  PROVE  Whole(e)
<1>1. st \in St
  BY DEF Whole, Accounted
<1>2. /\ e \in St /\ e.lists = st.lists /\ e.registered = st.registered /\ e.forwards = st.forwards
      /\ e.refused = st.refused
  BY <1>1 DEF St
<1> QED
  BY <1>2 DEF Whole, Accounted, Apart, Registered, Kinds, Recorded

\* The state an operation hands to Become is the next state.
LEMMA Became ==
  ASSUME NEW st, Whole(st), Become(st)
  PROVE  Whole(State')
<1>1. <<>> \in Seq(Descriptors)
  OBVIOUS
<1>2. State' = [lists |-> st.lists, registered |-> st.registered, polls |-> <<>>,
                forwards |-> st.forwards, refused |-> st.refused]
  BY DEF State, Become
<1> QED
  BY <1>1, <1>2, PollsAside

\* As long as the session lasts, rules stand.
LEMMA Standing ==
  ASSUME RulesStand, forwards' = forwards, refused' = refused, setting' = setting
  PROVE  RulesStand'
BY DEF RulesStand, Ruled

\* A step of the session that opens or closes sockets.
LEMMA SessionStep ==
  ASSUME GlueInv, NEW st, Sound(State, st), Become(st), setting' = setting, slirp, slirp' = slirp
  PROVE  Whole(State') /\ (~slirp' => Sockets' = {}) /\ RulesStand' /\ slirp' \in BOOLEAN
<1>1. Whole(State')
  BY Became DEF Sound
<1>2. forwards' = forwards /\ refused' = refused
  BY DEF Sound, Become, State
<1> QED
  BY <1>1, <1>2, Standing DEF GlueInv

\* Before any session nothing is open.
LEMMA Initially ==
  ASSUME Init
  PROVE  GlueInv
<1> USE DEF Init
<1>1. /\ State.lists = NoLists /\ State.registered = <<>> /\ State.forwards = NoForwards
      /\ State.refused = {} /\ State \in St
  <2>1. /\ NoLists \in [Types -> Seq(Sock)] /\ <<>> \in Seq(Descriptors)
        /\ NoForwards \in [{"tcp", "udp"} -> SUBSET (Int \X Int)] /\ {} \in SUBSET (Types \X Int)
    BY DEF NoLists, NoForwards
  <2> QED
    BY <2>1 DEF State, St
<1>2. \A t \in Types : DOMAIN State.lists[t] = {} /\ Elements(State.lists[t]) = {}
  BY <1>1 DEF NoLists, Elements
<1>3. DOMAIN State.registered = {} /\ Elements(State.registered) = {}
  BY <1>1 DEF Elements
<1>4. Apart(State) /\ Registered(State) /\ Kinds(State)
  BY <1>2, <1>3 DEF Apart, Registered, Kinds
<1>5. Recorded(State)
  <2>1. \A t \in {"tcp", "udp"} : t \in Types /\ State.forwards[t] = {}
    BY <1>1 DEF Types, NoForwards
  <2> QED
    BY <1>2, <2>1 DEF Recorded
<1>6. Sockets = {}
  BY <1>2 DEF Sockets, State
<1>7. RulesStand
  BY DEF RulesStand, NoForwards, NoRules
<1>8. CacheOk
  BY DnsAssumption DEF CacheOk, NoAddr
<1> QED
  BY <1>1, <1>4, <1>5, <1>6, <1>7, <1>8 DEF GlueInv, Whole, Accounted

\* A new connection: all sockets are forwards, and all forwards have a rule.
LEMMA InitializeKeeps ==
  ASSUME GlueInv, NEW rules \in Settings, NEW taken, Initialize(rules[1], rules[2], taken)
  PROVE  Whole(State') /\ slirp' = TRUE /\ RulesStand'
<1> DEFINE mid == SetupPortForwards(Fresh, "tcp", taken.tcp, rules[1])
           end == SetupPortForwards(mid, "udp", taken.udp, rules[2])
           PairsIn(list) == UNION {PairsOf(rule) : rule \in Elements(list)}
<1>1. rules[1] \in Seq(Seq(Seq(Int))) /\ rules[2] \in Seq(Seq(Seq(Int)))
  BY GlueAssumption
<1>2. Whole(Fresh)
  <2>1. /\ NoLists \in [Types -> Seq(Sock)] /\ <<>> \in Seq(Descriptors)
        /\ NoForwards \in [{"tcp", "udp"} -> SUBSET (Int \X Int)] /\ {} \in SUBSET (Types \X Int)
    BY DEF NoLists, NoForwards
  <2>2. Fresh \in St
    BY <2>1 DEF Fresh, St
  <2>3. \A t \in Types : DOMAIN Fresh.lists[t] = {} /\ Elements(Fresh.lists[t]) = {}
    BY DEF NoLists, Elements, Fresh
  <2>4. DOMAIN Fresh.registered = {} /\ Elements(Fresh.registered) = {}
    BY DEF Elements, Fresh
  <2>5. Apart(Fresh) /\ Registered(Fresh) /\ Kinds(Fresh)
    BY <2>3, <2>4 DEF Apart, Registered, Kinds
  <2>6. \A t \in {"tcp", "udp"} : t \in Types /\ Fresh.forwards[t] = {}
    BY DEF Types, NoForwards, Fresh
  <2>7. Recorded(Fresh)
    BY <2>3, <2>6 DEF Recorded
  <2> QED
    BY <2>2, <2>5, <2>7 DEF Whole, Accounted
<1>3. /\ More(Fresh, mid, "tcp", PairsIn(rules[1]))
      /\ \A i \in DOMAIN rules[1] : Covered(mid.forwards["tcp"], mid.refused, "tcp", rules[1][i])
  BY <1>1, <1>2, RulesKeep
<1>4. Whole(mid)
  BY <1>3 DEF More
<1>5. end = SetupPortForwards(mid, "udp", taken.udp, rules[2])
  OBVIOUS
<1> HIDE DEF mid, end
<1>6. /\ More(mid, end, "udp", PairsIn(rules[2]))
      /\ \A i \in DOMAIN rules[2] : Covered(end.forwards["udp"], end.refused, "udp", rules[2][i])
  BY <1>1, <1>4, <1>5, RulesKeep
<1>7. \A i \in DOMAIN rules[1] : Covered(end.forwards["tcp"], end.refused, "tcp", rules[1][i])
  BY <1>3, <1>6 DEF More, Covered
<1>8. /\ end.forwards["tcp"] \subseteq PairsIn(rules[1]) \cap (Ports \X Ports)
      /\ end.forwards["udp"] \subseteq PairsIn(rules[2]) \cap (Ports \X Ports)
  <2>1. Fresh.forwards["tcp"] = {} /\ Fresh.forwards["udp"] = {}
    BY DEF Fresh, NoForwards
  <2> HIDE DEF PairsIn
  <2>2. end.forwards["tcp"] = mid.forwards["tcp"] /\ mid.forwards["udp"] = Fresh.forwards["udp"]
    BY <1>3, <1>6 DEF More
  <2> QED
    BY <1>3, <1>6, <2>1, <2>2 DEF More
<1>9. Become(end) /\ slirp' = TRUE /\ setting'["tcp"] = rules[1] /\ setting'["udp"] = rules[2]
  BY <1>5 DEF Initialize, NoRules, mid
<1>10. Ruled("tcp")' = PairsIn(rules[1]) /\ Ruled("udp")' = PairsIn(rules[2])
  BY <1>9, Zenon DEF Ruled, PairsOf
<1>11. RulesStand'
  <2> HIDE DEF PairsIn
  <2>1. forwards' = end.forwards /\ refused' = end.refused
    BY <1>9 DEF Become
  <2>2. /\ forwards'["tcp"] \subseteq Ruled("tcp")' \cap (Ports \X Ports)
        /\ \A i \in DOMAIN setting'["tcp"] : Covered(forwards'["tcp"], refused', "tcp", setting'["tcp"][i])
    BY <1>7, <1>8, <1>9, <1>10, <2>1
  <2>3. /\ forwards'["udp"] \subseteq Ruled("udp")' \cap (Ports \X Ports)
        /\ \A i \in DOMAIN setting'["udp"] : Covered(forwards'["udp"], refused', "udp", setting'["udp"][i])
    BY <1>6, <1>8, <1>9, <1>10, <2>1
  <2> QED
    BY <2>2, <2>3 DEF RulesStand
<1> QED
  BY <1>6, <1>9, <1>11, Became DEF More

\* e is st without the sockets of t
Without(st, t, e) == DOMAIN e.lists[t] = {} /\ \A u \in Types \ {t} : e.lists[u] = st.lists[u]

\* Detaching all sockets of a kind leaves the others.
LEMMA Cleaned ==
  ASSUME NEW st, Accounted(st), NEW t \in Types, NEW e, e = Detach(st, t, FdsOf(st.lists[t]))
  PROVE  Accounted(e) /\ Without(st, t, e)
<1>1. st \in St /\ Apart(st)
  BY DEF Accounted
<1> DEFINE fds == FdsOf(st.lists[t])
<1>2. \A u \in Types \ {t} : FdsOf(st.lists[u]) \cap fds = {}
  BY <1>1 DEF FdsOf, Apart
<1>3. \A s \in Elements(st.lists[t]) : s.fd \in fds
  BY DEF Elements, FdsOf
<1>4. e = Detach(st, t, fds)
  OBVIOUS
<1> HIDE DEF fds
<1>5. Accounted(e)
  BY <1>2, <1>4, DetachKeeps
<1>6. Leaves(st, t, fds, e)
  BY <1>1, <1>4, Detached
<1>7. Elements(e.lists[t]) = {}
  BY <1>3, <1>6 DEF Leaves
<1>8. DOMAIN e.lists[t] = {}
  BY <1>7 DEF Elements
<1>9. \A u \in Types \ {t} : e.lists[u] = st.lists[u]
  BY <1>6 DEF Leaves
<1> QED
  BY <1>5, <1>8, <1>9 DEF Without

\* slirp_cleanup leaves no socket, descriptor or forward.
LEMMA CleanupKeeps ==
  ASSUME GlueInv, slirp_cleanup
  PROVE  Whole(State') /\ slirp' = FALSE /\ Sockets' = {} /\ RulesStand'
<1> DEFINE a == Detach(State, "udp", FdsOf(State.lists["udp"]))
           b == Detach(a, "tcp", FdsOf(a.lists["tcp"]))
           c == Detach(b, "icmp", FdsOf(b.lists["icmp"]))
<1>1. "tcp" \in Types /\ "udp" \in Types /\ "icmp" \in Types /\ "tcp" # "udp" /\ "tcp" # "icmp" /\ "udp" # "icmp"
  BY DEF Types
<1>2. /\ Become([c EXCEPT !.forwards = NoForwards, !.refused = {}]) /\ slirp' = FALSE /\ setting' = NoRules
  BY DEF slirp_cleanup
<1>3. Accounted(a) /\ Without(State, "udp", a)
  BY <1>1, Cleaned DEF GlueInv, Whole
<1> HIDE DEF a
<1>4. Accounted(b) /\ Without(a, "tcp", b)
  BY <1>1, <1>3, Cleaned
<1> HIDE DEF b
<1>5. Accounted(c) /\ Without(b, "icmp", c)
  BY <1>1, <1>4, Cleaned
<1> HIDE DEF c
<1>5a. DOMAIN c.lists["tcp"] = {} /\ DOMAIN c.lists["udp"] = {} /\ DOMAIN c.lists["icmp"] = {}
  BY <1>1, <1>3, <1>4, <1>5 DEF Without
<1> DEFINE e == [c EXCEPT !.forwards = NoForwards, !.refused = {}]
<1>6. /\ e \in St /\ e.lists = c.lists /\ e.registered = c.registered /\ e.forwards = NoForwards /\ e.refused = {}
  <2>1. NoForwards \in [{"tcp", "udp"} -> SUBSET (Int \X Int)] /\ {} \in SUBSET (Types \X Int)
    BY DEF NoForwards
  <2> QED
    BY <1>5, <2>1 DEF Accounted, St
<1>7. Become(e)
  BY <1>2
<1> HIDE DEF e
<1>8. \A t \in Types : Elements(e.lists[t]) = {}
  BY <1>5, <1>5a, <1>6 DEF Types, Elements
<1>9. Whole(e)
  <2>1. Accounted(e)
    BY <1>5, <1>6 DEF Accounted, Apart, Registered, Kinds
  <2>2. \A t \in {"tcp", "udp"} : t \in Types /\ e.forwards[t] = {}
    BY <1>6 DEF Types, NoForwards
  <2> QED
    BY <1>8, <2>1, <2>2 DEF Whole, Recorded
<1>10. Sockets' = {}
  BY <1>7, <1>8 DEF Sockets, Become
<1>11. RulesStand'
  <2>1. \A t \in {"tcp", "udp"} : forwards'[t] = {} /\ DOMAIN setting'[t] = {}
    BY <1>2, <1>6, <1>7 DEF Become, NoForwards, NoRules
  <2> QED
    BY <2>1 DEF RulesStand
<1> QED
  BY <1>2, <1>7, <1>9, <1>10, <1>11, Became

\* The parts of the state.
LEMMA StateIs ==
  /\ State.lists = lists /\ State.registered = registered /\ State.forwards = forwards
  /\ State.refused = refused /\ State.polls = <<>>
BY DEF State

\* A first SYN.
LEMMA GuestTcpKeeps ==
  ASSUME GlueInv, NEW port \in GuestPorts, GuestTcp(port)
  PROVE  Whole(State') /\ (~slirp' => Sockets' = {}) /\ RulesStand' /\ slirp' \in BOOLEAN
<1> DEFINE fd == LowestFree(State)
           s == [socreate(fd, port) EXCEPT !.state = "conn"]
           e == PollRegister(slirp_insque(State, "tcp", s), fd)
<1>1. HasFd(State) /\ Become(e) /\ slirp /\ slirp' = slirp /\ setting' = setting
  BY DEF GuestTcp
<1>2. State \in St /\ Accounted(State) /\ Recorded(State) /\ "tcp" \in Types
  BY DEF GlueInv, Whole, Accounted, Types
<1>3. fd \in Descriptors \ Open(State)
  BY <1>1, <1>2, FreeIsFree
<1> HIDE DEF fd
<1>4. s \in Fits(fd, port)
  <2>1. port \in 0 .. MaxPort /\ 0 \in 0 .. SO_EXPIRE
    BY GlueAssumption
  <2> QED
    BY <1>3, <2>1, NewSock
<1>5. s \in Sock /\ s.hport = 0 /\ s.fd = fd
  BY <1>4 DEF Fits
<1> HIDE DEF s
<1>6. Sound(State, e)
  BY <1>2, <1>3, <1>5, OpenKeeps DEF Sound, Whole
<1> HIDE DEF e
<1> QED
  BY <1>1, <1>6, SessionStep

\* An echo request.
LEMMA GuestPingKeeps ==
  ASSUME GlueInv, GuestPing
  PROVE  Whole(State') /\ (~slirp' => Sockets' = {}) /\ RulesStand' /\ slirp' \in BOOLEAN
<1> DEFINE fd == LowestFree(State)
           s == [socreate(fd, 0) EXCEPT !.state = "conn", !.expire = SO_EXPIRE]
           e == PollRegister(slirp_insque(State, "icmp", s), fd)
<1>1. HasFd(State) /\ Become(e) /\ slirp /\ slirp' = slirp /\ setting' = setting
  BY DEF GuestPing
<1>2. State \in St /\ Accounted(State) /\ Recorded(State) /\ "icmp" \in Types
  BY DEF GlueInv, Whole, Accounted, Types
<1>3. fd \in Descriptors \ Open(State)
  BY <1>1, <1>2, FreeIsFree
<1> HIDE DEF fd
<1>4. s \in Fits(fd, 0)
  <2>1. 0 \in 0 .. MaxPort /\ SO_EXPIRE \in 0 .. SO_EXPIRE
    BY GlueAssumption
  <2> QED
    BY <1>3, <2>1, NewSock
<1>5. s \in Sock /\ s.hport = 0 /\ s.fd = fd
  BY <1>4 DEF Fits
<1> HIDE DEF s
<1>6. Sound(State, e)
  BY <1>2, <1>3, <1>5, OpenKeeps DEF Sound, Whole
<1> HIDE DEF e
<1> QED
  BY <1>1, <1>6, SessionStep

\* The guest's datagram has a socket, a new one if need be, when it is sent.
LEMMA GuestUdpKeeps ==
  ASSUME GlueInv, NEW port \in GuestPorts, NEW toDns \in BOOLEAN, NEW sent \in BOOLEAN,
         GuestUdp(port, toDns, sent)
  PROVE  Whole(State') /\ (~slirp' => Sockets' = {}) /\ RulesStand' /\ slirp' \in BOOLEAN
<1> DEFINE none == UdpOf(State, port) = {}
           st == IF none THEN udp_attach(State, port) ELSE State
           went == sent /\ (~toDns \/ Answers(4, dns, servers))
           e == sosendto(st, port, went)
<1>1. (none => HasFd(State)) /\ Become(e) /\ slirp /\ slirp' = slirp /\ setting' = setting
  BY DEF GuestUdp
<1>2. State \in St /\ Accounted(State) /\ Recorded(State) /\ Whole(State) /\ "udp" \in Types
  BY DEF GlueInv, Whole, Accounted, Types
<1> HIDE DEF went
<1>3. Sound(State, st) /\ UdpOf(st, port) # {}
  <2>1. CASE ~none
    BY <1>2, <2>1 DEF Sound
  <2>2. CASE none
    <3> DEFINE fd == LowestFree(State)
               s == [socreate(fd, port) EXCEPT !.expire = SO_EXPIRE]
    <3>1. st = PollRegister(slirp_insque(State, "udp", s), fd)
      BY <2>2 DEF udp_attach
    <3>2. fd \in Descriptors \ Open(State)
      BY <1>1, <1>2, <2>2, FreeIsFree
    <3> HIDE DEF fd, st
    <3>3. s \in Fits(fd, port)
      <4>1. port \in 0 .. MaxPort /\ SO_EXPIRE \in 0 .. SO_EXPIRE
        BY GlueAssumption
      <4> QED
        BY <3>2, <4>1, NewSock
    <3>4. s \in Sock /\ s.hport = 0 /\ s.fd = fd /\ s.lport = port
      BY <3>3 DEF Fits
    <3> HIDE DEF s
    <3>5. Sound(State, st) /\ Elements(st.lists["udp"]) = {s} \cup Elements(State.lists["udp"])
      BY <1>2, <3>1, <3>2, <3>4, OpenKeeps DEF Sound, Whole
    <3>6. PICK i \in DOMAIN st.lists["udp"] : st.lists["udp"][i] = s
      BY <3>5 DEF Elements
    <3> QED
      BY <3>4, <3>5, <3>6 DEF UdpOf
  <2> QED
    BY <2>1, <2>2
<1> HIDE DEF st
<1>4. Sound(st, e)
  BY <1>3, SendKeeps DEF Sound
<1>5. Sound(State, e)
  BY <1>3, <1>4 DEF Sound
<1> HIDE DEF e
<1> QED
  BY <1>1, <1>5, SessionStep

\* What is used of the cache is young, or just asked for.
LEMMA QueryFollows ==
  ASSUME GlueInv, NEW port, NEW toDns \in BOOLEAN, NEW sent, GuestUdp(port, toDns, sent)
  PROVE  CacheOk' /\ ~outdated' /\ ~misread'
<1> DEFINE answer == get_dns_addr(4, dns, servers)
           known == Answers(4, dns, servers)
<1>1. /\ dns' = IF toDns THEN answer ELSE dns
      /\ outdated' = (outdated \/ (toDns /\ known /\ answer.from # servers /\ answer.age >= TIMEOUT_DEFAULT))
      /\ misread' = misread
  BY DEF GuestUdp
<1>2. CacheOk /\ ~outdated /\ ~misread /\ TIMEOUT_DEFAULT \in Nat /\ TIMEOUT_DEFAULT > 0
  BY DnsAssumption DEF GlueInv
<1>3. /\ answer = [addr |-> answer.addr, age |-> answer.age, from |-> answer.from]
      /\ answer.age \in 0 .. TIMEOUT_DEFAULT
      /\ known => answer.from = servers \/ answer.age < TIMEOUT_DEFAULT
  <2>1. CASE dns.addr # AnyAddr /\ get_dns_addr_cached(dns)
    BY <1>2, <2>1 DEF get_dns_addr, get_dns_addr_cached, CacheOk
  <2>2. CASE ~(dns.addr # AnyAddr /\ get_dns_addr_cached(dns)) /\ Resolves(4, servers)
    <3>1. answer = get_dns_addr_libresolv(4, servers)
      BY <2>2 DEF get_dns_addr
    <3> HIDE DEF answer
    <3>2. /\ answer.age = 0 /\ answer.from = servers
          /\ answer = [addr |-> answer.addr, age |-> answer.age, from |-> answer.from]
      BY <3>1 DEF get_dns_addr_libresolv
    <3> QED
      BY <1>2, <3>2
  <2>3. CASE ~(dns.addr # AnyAddr /\ get_dns_addr_cached(dns)) /\ ~Resolves(4, servers)
    <3>1. answer = dns /\ ~known
      BY <2>3 DEF get_dns_addr, Answers
    <3> QED
      BY <1>2, <3>1 DEF CacheOk
  <2> QED
    BY <2>1, <2>2, <2>3
<1> HIDE DEF answer, known
<1>4. CacheOk'
  BY <1>1, <1>2, <1>3 DEF CacheOk
<1>5. ~outdated'
  <2>1. answer.age < TIMEOUT_DEFAULT => ~(answer.age >= TIMEOUT_DEFAULT)
    BY <1>2, <1>3
  <2> QED
    BY <1>1, <1>2, <1>3, <2>1, Zenon
<1> QED
  BY <1>1, <1>2, <1>4, <1>5

\* A poll: whatever has expired, was dropped, ends or is accepted, each socket is handled for
\* its own descriptor's events.
LEMMA GetPacketsKeeps ==
  ASSUME GlueInv, NEW ticks \in 0 .. 1, NEW quiet, NEW dropped \in SUBSET Connections("tcp"),
         NEW ready, NEW failed, NEW ended,
         GetPackets(ticks, quiet, dropped, ready, failed, ended)
  PROVE  /\ Whole(State') /\ (~slirp' => Sockets' = {}) /\ RulesStand' /\ slirp' \in BOOLEAN
         /\ ~misread' /\ CacheOk'
<1> DEFINE filled == slirp_pollfds_fill(PollsAddRegistered, quiet)
           older == Ages(filled, ticks)
           aged == Detach(older, "tcp", dropped)
           tcp == PollTcp(aged, ready, ended)
           udp == PollUdp(tcp, ready)
           icmp == PollIcmp(udp, ready)
           st == IF failed \/ filled.polls = <<>> THEN aged ELSE icmp
<1>1. /\ slirp /\ slirp' = slirp /\ setting' = setting /\ Become(st)
      /\ misread' = (misread \/ (~failed /\ filled.polls # <<>> /\ Misreads(aged)))
      /\ dns' = IF ticks > 0 THEN Older(dns) ELSE dns
  BY DEF GetPackets
<1>2. State \in St /\ Whole(State) /\ Apart(State) /\ "tcp" \in Types
  BY DEF GlueInv, Whole, Accounted, Types
<1>3. Sound(State, PollsAddRegistered) /\ TcpOf(PollsAddRegistered) = TcpOf(State)
  <2> DEFINE e == PollsAddRegistered
  <2>1. e = [lists |-> State.lists, registered |-> State.registered, polls |-> registered,
             forwards |-> State.forwards, refused |-> State.refused]
    BY DEF PollsAddRegistered, State
  <2>2. registered \in Seq(Descriptors)
    BY <1>2, StateIs DEF St
  <2> HIDE DEF e
  <2>3. Whole(e)
    BY <1>2, <2>1, <2>2, PollsAside
  <2>4. e.lists = State.lists /\ e.forwards = State.forwards /\ e.refused = State.refused
    BY <2>1
  <2> QED
    BY <2>3, <2>4 DEF Sound, TcpOf, e
<1>4. Sound(State, filled) /\ TcpOf(filled) = TcpOf(State) /\ \A t \in Types : Indices(filled, t)
  BY <1>3, FillKeeps DEF Sound
<1> HIDE DEF filled
<1>5. Sound(State, older) /\ TcpOf(older) = TcpOf(State) /\ \A t \in Types : Indices(older, t)
  <2>1. filled \in St /\ Accounted(filled) /\ Recorded(filled)
    BY <1>4 DEF Sound, Whole, Accounted
  <2>2. Same(filled, older) /\ \A t \in Types : Indices(older, t)
    BY <1>4, <2>1, AgesSame
  <2>3. Accounted(older) /\ Recorded(older) /\ TcpOf(older) = TcpOf(filled)
    BY <2>1, <2>2, SameKeeps, SameTcp
  <2> QED
    BY <1>4, <2>2, <2>3 DEF Sound, Whole, Same
<1> HIDE DEF older
<1>6. Sound(State, aged) /\ \A t \in Types : Indices(aged, t)
  <2>1. ASSUME NEW s \in Elements(older.lists.tcp), s.fd \in dropped PROVE s.state = "conn"
    <3>1. <<s.fd, s.state>> \in TcpOf(State)
      BY <1>5 DEF TcpOf
    <3>2. PICK o \in Elements(State.lists["tcp"]) : o.fd = s.fd /\ o.state = s.state
      BY <3>1 DEF TcpOf
    <3>3. PICK c \in Elements(State.lists["tcp"]) : c.fd = s.fd /\ c.state = "conn"
      BY <2>1, StateIs DEF Connections
    <3> QED
      BY <1>2, <3>2, <3>3, FdApart
  <2>2. ASSUME NEW fd \in dropped PROVE \E s \in Elements(older.lists.tcp) : s.fd = fd
    <3>1. PICK c \in Elements(State.lists["tcp"]) : c.fd = fd
      BY StateIs DEF Connections
    <3>2. <<c.fd, c.state>> \in TcpOf(older)
      BY <1>5 DEF TcpOf
    <3> QED
      BY <3>1, <3>2 DEF TcpOf
  <2>3. Sound(older, aged) /\ \A t \in Types : Indices(aged, t)
    BY <1>5, <2>1, <2>2, DropKeeps DEF Sound
  <2> QED
    BY <1>5, <2>3 DEF Sound
<1> HIDE DEF aged
<1>7. ~Misreads(aged)
  BY <1>6, IndicesRead DEF Sound, Whole, Accounted
<1>8. Sound(State, tcp)
  BY <1>6, PollTcpKeeps DEF Sound
<1> HIDE DEF tcp
<1>9. Sound(State, udp)
  BY <1>8, PollUdpKeeps DEF Sound
<1> HIDE DEF udp
<1>10. Sound(State, icmp)
  BY <1>9, PollIcmpKeeps DEF Sound
<1> HIDE DEF icmp
<1>11. Sound(State, st)
  BY <1>6, <1>10
<1> HIDE DEF st
<1>12. CacheOk'
  <2>1. CacheOk /\ TIMEOUT_DEFAULT \in Nat
    BY DnsAssumption DEF GlueInv
  <2> QED
    BY <1>1, <2>1 DEF CacheOk, Older
<1>13. ~misread'
  BY <1>1, <1>7 DEF GlueInv
<1> QED
  BY <1>1, <1>11, <1>12, <1>13, SessionStep

\* Every action of the connection keeps the invariant.
LEMMA Inductive ==
  ASSUME GlueInv, [Next]_vars
  PROVE  GlueInv'
<1>1. ASSUME NEW rules \in Settings, NEW taken, Initialize(rules[1], rules[2], taken) PROVE GlueInv'
  <2>1. Whole(State') /\ slirp' = TRUE /\ RulesStand'
    BY <1>1, InitializeKeeps
  <2> QED
    BY <1>1, <2>1 DEF GlueInv, Initialize, CacheOk
<1>2. CASE slirp_cleanup
  <2>1. Whole(State') /\ slirp' = FALSE /\ Sockets' = {} /\ RulesStand'
    BY <1>2, CleanupKeeps
  <2> QED
    BY <1>2, <2>1 DEF GlueInv, slirp_cleanup, CacheOk
<1>3. ASSUME NEW port \in GuestPorts, GuestTcp(port) PROVE GlueInv'
  <2>1. Whole(State') /\ (~slirp' => Sockets' = {}) /\ RulesStand' /\ slirp' \in BOOLEAN
    BY <1>3, GuestTcpKeeps
  <2> QED
    BY <1>3, <2>1 DEF GlueInv, GuestTcp, CacheOk
<1>4. ASSUME NEW port \in GuestPorts, NEW toDns \in BOOLEAN, NEW sent \in BOOLEAN,
             GuestUdp(port, toDns, sent)
      PROVE  GlueInv'
  <2>1. Whole(State') /\ (~slirp' => Sockets' = {}) /\ RulesStand' /\ slirp' \in BOOLEAN
    BY <1>4, GuestUdpKeeps
  <2>2. CacheOk' /\ ~outdated' /\ ~misread'
    BY <1>4, QueryFollows
  <2> QED
    BY <2>1, <2>2 DEF GlueInv
<1>5. CASE GuestPing
  <2>1. Whole(State') /\ (~slirp' => Sockets' = {}) /\ RulesStand' /\ slirp' \in BOOLEAN
    BY <1>5, GuestPingKeeps
  <2> QED
    BY <1>5, <2>1 DEF GlueInv, GuestPing, CacheOk
<1>6. ASSUME NEW list \in ServerLists, ServersChange(list) PROVE GlueInv'
  <2>1. UNCHANGED <<slirp, lists, registered, forwards, setting, dns, refused, misread, outdated>>
    BY <1>6 DEF ServersChange
  <2>2. State' = State /\ Sockets' = Sockets
    BY <2>1 DEF State, Sockets
  <2> QED
    BY <2>1, <2>2, Standing DEF GlueInv, CacheOk
<1>7. CASE Polls
  <2>1. PICK ticks \in 0 .. 1, quiet \in SUBSET (Connections("tcp") \cup Connections("udp")) :
          \E ready \in SUBSET (Open(State) \ quiet), failed \in BOOLEAN :
            /\ failed => ready = {}
            /\ \E dropped \in SUBSET (IF ticks = 1 THEN Connections("tcp") ELSE {}) :
                 \E ended \in SUBSET ((ready \cap Connections("tcp")) \ (dropped \cup quiet)) :
                   GetPackets(ticks, quiet, dropped, ready, failed, ended)
    BY <1>7 DEF Polls
  <2>2. PICK ready \in SUBSET (Open(State) \ quiet), failed \in BOOLEAN :
          \E dropped \in SUBSET (IF ticks = 1 THEN Connections("tcp") ELSE {}) :
            \E ended \in SUBSET ((ready \cap Connections("tcp")) \ (dropped \cup quiet)) :
              GetPackets(ticks, quiet, dropped, ready, failed, ended)
    BY <2>1
  <2>3. PICK dropped \in SUBSET (IF ticks = 1 THEN Connections("tcp") ELSE {}) :
          \E ended \in SUBSET ((ready \cap Connections("tcp")) \ (dropped \cup quiet)) :
            GetPackets(ticks, quiet, dropped, ready, failed, ended)
    BY <2>2
  <2>4. PICK ended \in SUBSET ((ready \cap Connections("tcp")) \ (dropped \cup quiet)) :
          GetPackets(ticks, quiet, dropped, ready, failed, ended)
    BY <2>3
  <2>5. dropped \in SUBSET Connections("tcp")
    OBVIOUS
  <2>6. /\ Whole(State') /\ (~slirp' => Sockets' = {}) /\ RulesStand' /\ slirp' \in BOOLEAN
        /\ ~misread' /\ CacheOk'
    BY <2>4, <2>5, GetPacketsKeeps
  <2> QED
    BY <2>4, <2>6 DEF GlueInv, GetPackets
<1>8. CASE UNCHANGED vars
  <2>1. UNCHANGED <<slirp, lists, registered, forwards, setting, dns, refused, misread, outdated>>
    BY <1>8 DEF vars
  <2>2. State' = State /\ Sockets' = Sockets
    BY <2>1 DEF State, Sockets
  <2> QED
    BY <2>1, <2>2, Standing DEF GlueInv, CacheOk
<1> QED
  BY <1>1, <1>2, <1>3, <1>4, <1>5, <1>6, <1>7, <1>8 DEF Next

-----------------------------------------------------------------------------
(* What follows.                                                           *)

\* As many descriptors are registered as there are sockets which are no forwards.
LEMMA AsMany ==
  ASSUME NEW st, Accounted(st), NEW own,
         own = {s \in UNION {Elements(st.lists[t]) : t \in Types} : s.hport = 0}
  PROVE  Elements(st.registered) = {s.fd : s \in own} /\ Len(st.registered) = Cardinality(own)
<1> DEFINE reg == st.registered
<1>1. st \in St /\ Apart(st) /\ Registered(st)
  BY DEF Accounted
<1>2. reg \in Seq(Descriptors) /\ Len(reg) \in Nat /\ DOMAIN reg = 1 .. Len(reg)
  BY <1>1 DEF St
<1>3. \A fd : fd \in Elements(reg) <=> \E s \in own : s.fd = fd
  BY <1>1 DEF Registered
<1>4. Elements(reg) = {s.fd : s \in own}
  BY <1>3
<1>5. \A s, o \in own : s.fd = o.fd => s = o
  BY <1>1, FdApart
<1> DEFINE f == [i \in 1 .. Len(reg) |-> CHOOSE s \in own : s.fd = reg[i]]
<1>6. \A i \in 1 .. Len(reg) : f[i] \in own /\ f[i].fd = reg[i]
  <2> SUFFICES ASSUME NEW i \in 1 .. Len(reg) PROVE f[i] \in own /\ f[i].fd = reg[i]
    OBVIOUS
  <2>1. reg[i] \in Elements(reg)
    BY <1>2 DEF Elements
  <2>2. \E s \in own : s.fd = reg[i]
    BY <1>3, <2>1
  <2> QED
    BY <2>2
<1>7. f \in [1 .. Len(reg) -> own] /\ DOMAIN f = 1 .. Len(reg)
  BY <1>6
<1> HIDE DEF f
<1>8. \A i, j \in 1 .. Len(reg) : f[i] = f[j] => i = j
  <2>1. \A i, j \in 1 .. Len(reg) : reg[i] = reg[j] => i = j
    BY <1>1, <1>2 DEF Registered
  <2> QED
    BY <1>6, <2>1
<1>9. \A s \in own : \E i \in 1 .. Len(reg) : f[i] = s
  <2> SUFFICES ASSUME NEW s \in own PROVE \E i \in 1 .. Len(reg) : f[i] = s
    OBVIOUS
  <2>1. PICK i \in 1 .. Len(reg) : reg[i] = s.fd
    BY <1>2, <1>3 DEF Elements
  <2> QED
    BY <1>5, <1>6, <2>1
<1>10. f \in Bijection(1 .. Len(reg), own)
  BY <1>7, <1>8, <1>9 DEF Bijection, Injection, Surjection, IsInjective
<1>11. IsFiniteSet(1 .. Len(reg)) /\ Cardinality(1 .. Len(reg)) = Len(reg)
  <2> DEFINE n == Len(reg)
  <2>1. n \in Int /\ 1 \in Int /\ n >= 0
    BY <1>2
  <2> HIDE DEF n
  <2>2. Cardinality(1 .. n) = IF 1 > n THEN 0 ELSE n - 1 + 1
    BY <2>1, FS_Interval
  <2>3. IsFiniteSet(1 .. n) /\ Cardinality(1 .. n) = n
    BY <2>1, <2>2, FS_Interval
  <2> QED
    BY <2>3 DEF n
<1>12. ExistsBijection(1 .. Len(reg), own)
  BY <1>10 DEF ExistsBijection
<1>13. Cardinality(own) = Len(reg)
  BY <1>11, <1>12, FS_Bijection
<1> QED
  BY <1>4, <1>13

\* What the runs check follows from the invariant.
LEMMA Means ==
  ASSUME GlueInv
  PROVE  DescriptorsTrue /\ EventsOwn /\ ForwardsStand /\ DnsFollows
<1>1. State \in St /\ Accounted(State) /\ Apart(State) /\ Recorded(State)
  BY DEF GlueInv, Whole, Accounted
<1>2. Sockets = UNION {Elements(State.lists[t]) : t \in Types}
  BY StateIs DEF Sockets
<1>3. TypeOK
  <2>1. ASSUME NEW s \in Sockets PROVE s \in Sock
    <3>1. PICK t \in Types : s \in Elements(State.lists[t])
      BY <1>2
    <3>2. State.lists[t] \in Seq(Sock)
      BY <1>1 DEF St
    <3> QED
      BY <3>1, <3>2 DEF Elements
  <2>2. Elements(registered) \subseteq 0 .. MaxFd - 1
    <3>1. registered \in Seq(Descriptors)
      BY <1>1, StateIs DEF St
    <3>2. \A i \in DOMAIN registered : registered[i] \in Descriptors
      BY <3>1
    <3> QED
      BY <3>2 DEF Elements, Descriptors
  <2> QED
    BY <2>1, <2>2 DEF TypeOK, Sock, Descriptors, GlueInv, CacheOk
<1>4. FdsAccounted
  <2> DEFINE own == {s \in Sockets : s.hport = 0}
  <2>1. own = {s \in UNION {Elements(State.lists[t]) : t \in Types} : s.hport = 0}
    BY <1>2
  <2> HIDE DEF own
  <2>2. Elements(State.registered) = {s.fd : s \in own} /\ Len(State.registered) = Cardinality(own)
    BY <1>1, <2>1, AsMany
  <2>3. \A t, u \in Types : \A i \in DOMAIN lists[t], j \in DOMAIN lists[u] :
          lists[t][i].fd = lists[u][j].fd => t = u /\ i = j
    BY <1>1, StateIs DEF Apart
  <2> QED
    BY <2>2, <2>3, StateIs DEF own, FdsAccounted, GlueInv
<1>5. ForwardsStand
  <2> SUFFICES ASSUME NEW t \in {"tcp", "udp"}
               PROVE  /\ forwards[t] = {<<s.hport, s.lport>> : s \in {o \in Elements(lists[t]) : o.hport > 0}}
                      /\ forwards[t] \subseteq Ruled(t) \cap ((1 .. MaxPort) \X (1 .. MaxPort))
                      /\ \A i \in DOMAIN setting[t] :
                           LET p == PortsOf(setting[t][i])
                           IN  Valid(p) => \A h \in p[1] .. p[2] :
                                 <<t, h>> \in refused \/ \E f \in forwards[t] : f[1] = h
    BY DEF ForwardsStand
  <2>1. \A s \in Elements(lists[t]) : s.hport \in Nat
    <3>1. t \in Types
      BY DEF Types
    <3>2. lists[t] \in Seq(Sock)
      BY <1>1, <3>1, StateIs DEF St
    <3>3. \A i \in DOMAIN lists[t] : lists[t][i] \in Sock
      BY <3>2
    <3>4. \A s \in Sock : s.hport \in Nat
      BY GlueAssumption DEF Sock
    <3> QED
      BY <3>3, <3>4 DEF Elements
  <2>2. \A f : f \in forwards[t] <=> \E s \in Elements(lists[t]) : s.hport # 0 /\ f = <<s.hport, s.lport>>
    BY <1>1, StateIs DEF Recorded
  <2>3. \A s \in Elements(lists[t]) : s.hport # 0 <=> s.hport > 0
    BY <2>1
  <2>4. forwards[t] = {<<s.hport, s.lport>> : s \in {o \in Elements(lists[t]) : o.hport > 0}}
    BY <2>2, <2>3
  <2> QED
    BY <2>4 DEF GlueInv, RulesStand, Covered, Ports
<1> QED
  BY <1>3, <1>4, <1>5 DEF GlueInv, DescriptorsTrue, EventsOwn, DnsFollows

\* The invariant holds of every behaviour.
LEMMA Always == Spec => []GlueInv
<1>1. Init => GlueInv
  BY Initially
<1>2. GlueInv /\ [Next]_vars => GlueInv'
  BY Inductive
<1> QED
  BY <1>1, <1>2, PTL DEF Spec

\* Whatever the guest opens, what expires, ends or is accepted, and however often the network
\* is set up again: what PollsAddRegistered polls are the descriptors of the open sockets that
\* are no forwards, once each, no descriptor belongs to two sockets, and none is left when the
\* connection is gone (register_fd, unregister_fd, slirp_cleanup).
THEOREM DescriptorsAreTrue == Spec => []DescriptorsTrue
<1>1. GlueInv => DescriptorsTrue
  BY Means
<1> QED
  BY <1>1, Always, PTL

\* No socket is handled for the events of another one's descriptor (pollfds_idx between
\* slirp_pollfds_fill and slirp_pollfds_poll).
THEOREM EventsAreOwn == Spec => []EventsOwn
<1>1. GlueInv => EventsOwn
  BY Means
<1> QED
  BY <1>1, Always, PTL

\* For all rules a setting may have: what is recorded as forwarded has its socket as long as
\* the session lasts, nothing else has one, and what a rule asks for is forwarded or was
\* refused (SetupPortForwards).
THEOREM ForwardsAreTrue == Spec => []ForwardsStand
<1>1. GlueInv => ForwardsStand
  BY Means
<1> QED
  BY <1>1, Always, PTL

\* No query goes to a server that has been gone for the time of the cache (get_dns_addr).
THEOREM QueriesFollow == Spec => []DnsFollows
<1>1. GlueInv => DnsFollows
  BY Means
<1> QED
  BY <1>1, Always, PTL
=============================================================================
