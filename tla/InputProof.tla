----------------------------- MODULE InputProof -----------------------------
(***************************************************************************)
(* Theorems about Input, for any pad, buttons and tap, any sectors and     *)
(* characters, and every limit of SDL's queue.  The sequences of events    *)
(* are handled in the first lemmas, so that the steps of the proofs speak  *)
(* of the keys that an action sends up and down.                           *)
(***************************************************************************)
EXTENDS Input, FiniteSetTheorems, SequenceTheorems, TLAPS

Event == [key : Keys, down : BOOLEAN, meant : Meanings]

\* Whether k is down when the first n events of q have arrived at a guest that had the
\* keys g down.
Untouched(k, n, q) == \A j \in 1 .. n : q[j].key # k
PressedLast(k, n, q) ==
  \E j \in 1 .. n : q[j].key = k /\ q[j].down /\ \A i \in j + 1 .. n : q[i].key # k
DownAfter(k, n, q, g) == PressedLast(k, n, q) \/ (k \in g /\ Untouched(k, n, q))

\* The events of s leave the keys U up and D down, and touch no other.
Sends(s, U, D) ==
  /\ \A i \in 1 .. Len(s) : s[i].key \in U \cup D
  /\ \A k \in U \cup D : \E i \in 1 .. Len(s) :
       /\ s[i].key = k /\ (s[i].down <=> k \in D)
       /\ \A j \in i + 1 .. Len(s) : s[j].key # k

-----------------------------------------------------------------------------
(* Sequences of events.                                                    *)

\* What follows does not matter.
LEMMA AfterPart ==
  ASSUME NEW n \in Nat, NEW q, NEW t, \A i \in 1 .. n : t[i] = q[i], NEW k, NEW g
  PROVE  DownAfter(k, n, t, g) <=> DownAfter(k, n, q, g)
BY DEF DownAfter, Untouched, PressedLast

\* After n events and m more it is the later ones that decide, if the key is in them.
LEMMA AfterMore ==
  ASSUME NEW n \in Nat, NEW m \in Nat, NEW t, NEW s, NEW k, NEW g,
         \A i \in 1 .. m : t[n + i] = s[i]
  PROVE  DownAfter(k, n + m, t, g)
           <=> PressedLast(k, m, s) \/ (Untouched(k, m, s) /\ DownAfter(k, n, t, g))
<1> USE DEF DownAfter, PressedLast, Untouched
<1>1. \A i \in n + 1 .. n + m : i - n \in 1 .. m /\ t[i] = s[i - n]
  <2> TAKE i \in n + 1 .. n + m
  <2>1. i - n \in 1 .. m /\ n + (i - n) = i
    OBVIOUS
  <2> QED
    BY <2>1
<1>2. ASSUME k \in g, \A j \in 1 .. n + m : t[j].key # k
      PROVE  (\A i \in 1 .. m : s[i].key # k) /\ DownAfter(k, n, t, g)
  <2>1. (\A i \in 1 .. m : n + i \in 1 .. n + m) /\ \A i \in 1 .. n : i \in 1 .. n + m
    OBVIOUS
  <2> QED
    BY <1>2, <2>1 DEF DownAfter
<1>3. ASSUME NEW j \in 1 .. n + m, t[j].key = k, t[j].down,
             \A i \in j + 1 .. n + m : t[i].key # k
      PROVE  \/ (\A i \in 1 .. m : s[i].key # k) /\ DownAfter(k, n, t, g)
             \/ \E h \in 1 .. m : s[h].key = k /\ s[h].down
                                  /\ \A i \in h + 1 .. m : s[i].key # k
  <2>1. CASE j \in 1 .. n
    <3>1. /\ \A i \in 1 .. m : n + i \in j + 1 .. n + m
          /\ \A i \in j + 1 .. n : i \in j + 1 .. n + m
      BY <2>1
    <3> QED
      BY <1>3, <2>1, <3>1 DEF DownAfter
  <2>2. CASE j \in n + 1 .. n + m
    <3>1. j - n \in 1 .. m /\ s[j - n].key = k /\ s[j - n].down
      BY <1>1, <1>3, <2>2
    <3>2. \A i \in (j - n) + 1 .. m : i \in 1 .. m /\ n + i \in j + 1 .. n + m
      BY <3>1
    <3> QED
      BY <1>3, <3>1, <3>2
  <2> QED
    BY <2>1, <2>2
<1>4. ASSUME \A i \in 1 .. m : s[i].key # k, DownAfter(k, n, t, g)
      PROVE  DownAfter(k, n + m, t, g)
  <2>1. \A i \in n + 1 .. n + m : t[i].key # k
    BY <1>1, <1>4
  <2>2. \A i \in 1 .. n + m : i \in 1 .. n \/ i \in n + 1 .. n + m
    OBVIOUS
  <2>3. CASE k \in g /\ \A j \in 1 .. n : t[j].key # k
    BY <2>1, <2>2, <2>3 DEF DownAfter
  <2>4. ASSUME NEW j \in 1 .. n, t[j].key = k, t[j].down, \A i \in j + 1 .. n : t[i].key # k
        PROVE  DownAfter(k, n + m, t, g)
    <3>1. /\ j \in 1 .. n + m
          /\ \A i \in j + 1 .. n + m : i \in j + 1 .. n \/ i \in n + 1 .. n + m
      OBVIOUS
    <3> QED
      BY <2>1, <2>4, <3>1 DEF DownAfter
  <2> QED
    BY <1>4, <2>3, <2>4 DEF DownAfter
<1>5. ASSUME NEW j \in 1 .. m, s[j].key = k, s[j].down, \A i \in j + 1 .. m : s[i].key # k
      PROVE  DownAfter(k, n + m, t, g)
  <2>1. n + j \in 1 .. n + m /\ t[n + j].key = k /\ t[n + j].down
    BY <1>5
  <2>2. \A i \in (n + j) + 1 .. n + m : i \in n + 1 .. n + m /\ i - n \in j + 1 .. m
    OBVIOUS
  <2>3. \A i \in (n + j) + 1 .. n + m : t[i].key # k
    BY <1>1, <1>5, <2>2
  <2> QED
    BY <2>1, <2>3 DEF DownAfter
<1> QED
  BY <1>2, <1>3, <1>4, <1>5 DEF DownAfter

\* The guest takes the first event off the queue.
LEMMA AfterFirst ==
  ASSUME NEW n \in Nat, NEW q, NEW t, \A i \in 1 .. n : t[i] = q[i + 1],
         q[1].down \in BOOLEAN, NEW k, NEW g
  PROVE  DownAfter(k, n + 1, q, g)
           <=> DownAfter(k, n, t, IF q[1].down THEN g \cup {q[1].key} ELSE g \ {q[1].key})
<1> DEFINE h == IF q[1].down THEN g \cup {q[1].key} ELSE g \ {q[1].key}
<1>1. \A i \in 1 .. n : q[1 + i] = t[i]
  OBVIOUS
<1>2. DownAfter(k, 1 + n, q, g) <=> PressedLast(k, n, t) \/ (Untouched(k, n, t) /\ DownAfter(k, 1, q, g))
  <2>1. 1 \in Nat
    OBVIOUS
  <2> QED
    BY <1>1, <2>1, AfterMore, Zenon
<1>3. DownAfter(k, 1, q, g) <=> k \in h
  <2>1. \A i : i \in 1 .. 1 <=> i = 1
    OBVIOUS
  <2>2. \A i : i \notin 1 + 1 .. 1
    OBVIOUS
  <2>3. DownAfter(k, 1, q, g) <=> (k \in g /\ q[1].key # k) \/ (q[1].key = k /\ q[1].down)
    <3>1. DownAfter(k, 1, q, g)
            <=> \/ k \in g /\ q[1].key # k
                \/ q[1].key = k /\ q[1].down /\ \A i \in 1 + 1 .. 1 : q[i].key # k
      BY <2>1, Zenon DEF DownAfter, Untouched, PressedLast
    <3> QED
      BY <2>2, <3>1, Zenon
  <2> QED
    BY <2>3
<1> HIDE DEF h
<1>4. DownAfter(k, 1 + n, q, g) <=> DownAfter(k, n, t, h)
  BY <1>2, <1>3 DEF DownAfter
<1>5. 1 + n = n + 1
  OBVIOUS
<1> QED
  BY <1>4, <1>5 DEF h

-----------------------------------------------------------------------------
(* The events under way.                                                   *)

UnderWay == queue \in Seq(Event) /\ pushes \in Seq(Event)

LEMMA SentLemma ==
  UnderWay =>
         /\ Sent \in Seq(Event) /\ Len(Sent) = Len(queue) + Len(pushes)
         /\ Len(queue) \in Nat /\ Len(pushes) \in Nat
         /\ \A i \in 1 .. Len(queue) : Sent[i] = queue[i]
         /\ \A i \in 1 .. Len(pushes) : Sent[Len(queue) + i] = pushes[i]
<1> HAVE UnderWay
<1>1. /\ Sent \in Seq(Event) /\ Len(Sent) = Len(queue) + Len(pushes)
      /\ \A i \in 1 .. Len(queue) + Len(pushes) :
           Sent[i] = IF i <= Len(queue) THEN queue[i] ELSE pushes[i - Len(queue)]
  BY ConcatProperties DEF UnderWay, Sent
<1>2. Len(queue) \in Nat /\ Len(pushes) \in Nat
  BY LenProperties DEF UnderWay
<1>3. ASSUME NEW i \in 1 .. Len(pushes)
      PROVE  Sent[Len(queue) + i] = pushes[i]
  <2>1. /\ Len(queue) + i \in 1 .. Len(queue) + Len(pushes) /\ ~(Len(queue) + i <= Len(queue))
        /\ (Len(queue) + i) - Len(queue) = i
    BY <1>2
  <2> QED
    BY <1>1, <2>1
<1> QED
  BY <1>1, <1>2, <1>3

\* A key's last event says whether it will be down.
LEMMA LastLemma ==
  ASSUME NEW q \in Seq(Event), NEW k, NEW g
  PROVE  (IF {i \in DOMAIN q : q[i].key = k} = {} THEN k \in g
          ELSE \E i \in {j \in DOMAIN q : q[j].key = k} :
                 q[i].down /\ \A j \in {h \in DOMAIN q : q[h].key = k} : j <= i)
           <=> DownAfter(k, Len(q), q, g)
<1> DEFINE E == {i \in DOMAIN q : q[i].key = k}
<1>1. DOMAIN q = 1 .. Len(q) /\ Len(q) \in Nat
  BY LenProperties
<1>2. \A i : i \in E <=> i \in 1 .. Len(q) /\ q[i].key = k
  BY <1>1
<1> HIDE DEF E
<1>3. (E = {}) <=> Untouched(k, Len(q), q)
  BY <1>2 DEF Untouched
<1>4. (\E i \in E : q[i].down /\ \A j \in E : j <= i) <=> PressedLast(k, Len(q), q)
  <2>1. ASSUME NEW i \in E, q[i].down, \A j \in E : j <= i
        PROVE  PressedLast(k, Len(q), q)
    <3>1. \A j \in i + 1 .. Len(q) : j \in 1 .. Len(q) /\ ~(j <= i)
      BY <1>1, <1>2
    <3> QED
      BY <1>2, <2>1, <3>1 DEF PressedLast
  <2>2. ASSUME NEW i \in 1 .. Len(q), q[i].key = k, q[i].down,
               \A j \in i + 1 .. Len(q) : q[j].key # k
        PROVE  i \in E /\ \A j \in E : j <= i
    <3>1. \A j \in 1 .. Len(q) : j <= i \/ j \in i + 1 .. Len(q)
      BY <1>1
    <3> QED
      BY <1>2, <2>2, <3>1
  <2> QED
    BY <2>1, <2>2 DEF PressedLast
<1>5. PressedLast(k, Len(q), q) => ~Untouched(k, Len(q), q)
  BY DEF PressedLast, Untouched
<1> QED
  BY <1>3, <1>4, <1>5 DEF DownAfter, E

LEMMA WillLemma ==
  ASSUME NEW k
  PROVE  /\ UnderWay => (WillBeDown(k) <=> DownAfter(k, Len(Sent), Sent, guest))
         /\ UnderWay' => (WillBeDown(k)' <=> DownAfter(k, Len(Sent'), Sent', guest'))
<1>1. ASSUME UnderWay
      PROVE  WillBeDown(k) <=> DownAfter(k, Len(Sent), Sent, guest)
  BY <1>1, SentLemma, LastLemma DEF WillBeDown, EventsOf
<1>2. ASSUME UnderWay'
      PROVE  WillBeDown(k)' <=> DownAfter(k, Len(Sent'), Sent', guest')
  <2>1. Sent' \in Seq(Event)
    BY <1>2, ConcatProperties DEF UnderWay, Sent
  <2> QED
    BY <2>1, LastLemma DEF WillBeDown, EventsOf
<1> QED
  BY <1>1, <1>2

\* An action of the main thread, once it is free, puts events behind those in the queue.
LEMMA InjectLemma ==
  ASSUME UnderWay, UnderWay', pushes = <<>>, UNCHANGED <<queue, guest>>
  PROVE  /\ Len(Sent) = Len(queue) /\ Len(Sent') = Len(queue) + Len(pushes')
         /\ \A i \in 1 .. Len(queue) : Sent'[i] = Sent[i]
         /\ \A i \in 1 .. Len(pushes') : Sent'[Len(queue) + i] = pushes'[i]
         /\ \A k : \A n \in 0 .. Len(queue) :
              DownAfter(k, n, Sent', guest') <=> DownAfter(k, n, Sent, guest)
         /\ \A k : \A m \in 0 .. Len(pushes') :
              DownAfter(k, Len(queue) + m, Sent', guest')
                <=> PressedLast(k, m, pushes') \/ (Untouched(k, m, pushes') /\ WillBeDown(k))
<1>1. Len(pushes) = 0
  OBVIOUS
<1>2. /\ Len(Sent) = Len(queue) /\ Len(queue) \in Nat
      /\ \A i \in 1 .. Len(queue) : Sent[i] = queue[i]
  BY <1>1, SentLemma
<1>3. /\ Len(Sent') = Len(queue) + Len(pushes') /\ Len(pushes') \in Nat
      /\ \A i \in 1 .. Len(queue) : Sent'[i] = queue[i]
      /\ \A i \in 1 .. Len(pushes') : Sent'[Len(queue) + i] = pushes'[i]
  <2>1. (UnderWay => /\ Sent \in Seq(Event) /\ Len(Sent) = Len(queue) + Len(pushes)
                     /\ Len(queue) \in Nat /\ Len(pushes) \in Nat
                     /\ \A i \in 1 .. Len(queue) : Sent[i] = queue[i]
                     /\ \A i \in 1 .. Len(pushes) : Sent[Len(queue) + i] = pushes[i])'
    BY SentLemma, PTL
  <2> QED
    BY <2>1
<1>4. ASSUME NEW k, NEW n \in 0 .. Len(queue)
      PROVE  DownAfter(k, n, Sent', guest') <=> DownAfter(k, n, Sent, guest)
  <2>1. n \in Nat /\ \A i \in 1 .. n : Sent'[i] = Sent[i]
    BY <1>2, <1>3
  <2>2. DownAfter(k, n, Sent', guest) <=> DownAfter(k, n, Sent, guest)
    BY <2>1, AfterPart, Zenon
  <2> QED
    BY <2>2
<1>5. ASSUME NEW k, NEW m \in 0 .. Len(pushes')
      PROVE  DownAfter(k, Len(queue) + m, Sent', guest')
               <=> PressedLast(k, m, pushes') \/ (Untouched(k, m, pushes') /\ WillBeDown(k))
  <2>1. m \in Nat /\ \A i \in 1 .. m : Sent'[Len(queue) + i] = pushes'[i]
    BY <1>3
  <2>2. DownAfter(k, Len(queue) + m, Sent', guest)
          <=> PressedLast(k, m, pushes')
              \/ (Untouched(k, m, pushes') /\ DownAfter(k, Len(queue), Sent', guest))
    BY <1>2, <2>1, AfterMore, Zenon
  <2>3. DownAfter(k, Len(queue), Sent', guest) <=> DownAfter(k, Len(queue), Sent, guest)
    <3>1. \A i \in 1 .. Len(queue) : Sent'[i] = Sent[i]
      BY <1>2, <1>3
    <3> QED
      BY <1>2, <3>1, AfterPart, Zenon
  <2>4. WillBeDown(k) <=> DownAfter(k, Len(queue), Sent, guest)
    BY <1>2, WillLemma
  <2> QED
    BY <2>2, <2>3, <2>4
<1> QED
  BY <1>2, <1>3, <1>4, <1>5

\* What it sends up and down decides; the other keys are as before.
LEMMA SendsLemma ==
  ASSUME UnderWay, UnderWay', pushes = <<>>, UNCHANGED <<queue, guest>>,
         NEW U, NEW D, Sends(pushes', U, D), U \cap D = {}, NEW k
  PROVE  WillBeDown(k)' <=> k \in D \/ (k \notin U /\ WillBeDown(k))
<1> DEFINE s == pushes'
<1>1. Len(s) \in Nat
  BY LenProperties DEF UnderWay
<1>2. WillBeDown(k)' <=> PressedLast(k, Len(s), s) \/ (Untouched(k, Len(s), s) /\ WillBeDown(k))
  BY <1>1, WillLemma, InjectLemma
<1> HIDE DEF s
<1>3. CASE k \in U \cup D
  <2>1. PICK i \in 1 .. Len(s) : /\ s[i].key = k /\ (s[i].down <=> k \in D)
                                 /\ \A j \in i + 1 .. Len(s) : s[j].key # k
    BY <1>3 DEF Sends, s
  <2>2. ~Untouched(k, Len(s), s)
    BY <2>1 DEF Untouched
  <2>3. k \in D => PressedLast(k, Len(s), s)
    BY <2>1 DEF PressedLast
  <2>4. ASSUME NEW j \in 1 .. Len(s), s[j].key = k, s[j].down,
               \A h \in j + 1 .. Len(s) : s[h].key # k
        PROVE  k \in D
    <3>1. j <= i /\ i <= j
      BY <1>1, <2>1, <2>4
    <3>2. j = i
      BY <1>1, <3>1
    <3> QED
      BY <2>1, <2>4, <3>2
  <2> QED
    BY <1>2, <1>3, <2>2, <2>3, <2>4 DEF PressedLast
<1>4. CASE k \notin U \cup D
  <2>1. \A i \in 1 .. Len(s) : s[i].key # k
    BY <1>4 DEF Sends, s
  <2>2. Untouched(k, Len(s), s) /\ ~PressedLast(k, Len(s), s)
    BY <2>1 DEF Untouched, PressedLast
  <2> QED
    BY <1>2, <1>4, <2>2
<1> QED
  BY <1>3, <1>4

\* The main thread hands an event to SDL, whose queue has room.
LEMMA PushLemma ==
  ASSUME UnderWay, PushEvent, ~dropped'
  PROVE  UnderWay' /\ Sent' = Sent
<1>1. /\ pushes # <<>> /\ pushes' = Tail(pushes) /\ queue' = Append(queue, Head(pushes))
  BY DEF PushEvent
<1>2. /\ Head(pushes) \in Event /\ pushes' \in Seq(Event) /\ Head(pushes) = pushes[1]
      /\ Len(pushes') = Len(pushes) - 1 /\ Len(pushes) \in Nat /\ Len(pushes) > 0
      /\ \A i \in 1 .. Len(pushes') : pushes'[i] = pushes[i + 1]
  BY <1>1, HeadTailProperties DEF UnderWay
<1>3. /\ queue' \in Seq(Event) /\ Len(queue') = Len(queue) + 1 /\ Len(queue) \in Nat
      /\ \A i \in 1 .. Len(queue) : queue'[i] = queue[i]
      /\ queue'[Len(queue) + 1] = pushes[1]
  BY <1>1, <1>2, AppendProperties DEF UnderWay
<1>4. UnderWay'
  BY <1>2, <1>3 DEF UnderWay
<1>5. /\ Sent' \in Seq(Event) /\ Len(Sent') = Len(queue') + Len(pushes')
      /\ \A i \in 1 .. Len(queue') + Len(pushes') :
           Sent'[i] = IF i <= Len(queue') THEN queue'[i] ELSE pushes'[i - Len(queue')]
  BY <1>4, ConcatProperties DEF UnderWay, Sent
<1>6. /\ Sent \in Seq(Event) /\ Len(Sent) = Len(queue) + Len(pushes)
      /\ \A i \in 1 .. Len(queue) + Len(pushes) :
           Sent[i] = IF i <= Len(queue) THEN queue[i] ELSE pushes[i - Len(queue)]
  BY ConcatProperties DEF UnderWay, Sent
<1>7. ASSUME NEW i \in 1 .. Len(Sent)
      PROVE  Sent'[i] = Sent[i]
  <2>1. CASE i <= Len(queue)
    <3>1. /\ i \in 1 .. Len(queue) /\ i <= Len(queue')
          /\ i \in 1 .. Len(queue') + Len(pushes') /\ i \in 1 .. Len(queue) + Len(pushes)
      BY <1>2, <1>3, <1>6, <2>1
    <3> QED
      BY <1>3, <1>5, <1>6, <2>1, <3>1
  <2>2. CASE i = Len(queue) + 1
    <3>1. Sent'[i] = pushes[1] /\ i - Len(queue) = 1 /\ ~(i <= Len(queue))
      BY <1>2, <1>3, <1>5, <1>6, <2>2
    <3> QED
      BY <1>6, <3>1
  <2>3. CASE i > Len(queue) + 1
    <3>1. /\ ~(i <= Len(queue')) /\ ~(i <= Len(queue)) /\ i \in 1 .. Len(queue') + Len(pushes')
          /\ i - Len(queue') \in 1 .. Len(pushes') /\ (i - Len(queue')) + 1 = i - Len(queue)
      BY <1>2, <1>3, <1>6, <2>3
    <3>2. Sent'[i] = pushes'[i - Len(queue')] /\ Sent[i] = pushes[i - Len(queue)]
      BY <1>5, <1>6, <3>1
    <3> QED
      BY <1>2, <3>1, <3>2
  <2> QED
    BY <1>3, <1>6, <2>1, <2>2, <2>3
<1>8. Len(Sent') = Len(Sent)
  BY <1>2, <1>3, <1>5, <1>6
<1> QED
  BY <1>4, <1>5, <1>6, <1>7, <1>8, SeqEqual

\* DOSBox takes an event off it.
LEMMA PollLemma ==
  ASSUME UnderWay, Poll
  PROVE  /\ UnderWay' /\ Len(Sent) = Len(Sent') + 1 /\ Len(Sent') \in Nat
         /\ Sent[1] = Head(queue) /\ \A i \in 1 .. Len(Sent') : Sent'[i] = Sent[i + 1]
         /\ \A k : \A n \in 0 .. Len(Sent') :
              DownAfter(k, n, Sent', guest') <=> DownAfter(k, n + 1, Sent, guest)
<1>1. /\ queue # <<>> /\ queue' = Tail(queue) /\ pushes' = pushes
      /\ guest' = IF Head(queue).down THEN guest \cup {Head(queue).key}
                  ELSE guest \ {Head(queue).key}
  BY DEF Poll
<1>2. /\ Head(queue) \in Event /\ queue' \in Seq(Event) /\ Head(queue) = queue[1]
      /\ Len(queue') = Len(queue) - 1 /\ Len(queue) \in Nat /\ Len(queue) > 0
      /\ \A i \in 1 .. Len(queue') : queue'[i] = queue[i + 1]
  BY <1>1, HeadTailProperties DEF UnderWay
<1>3. UnderWay' /\ Len(pushes) \in Nat
  BY <1>1, <1>2, LenProperties DEF UnderWay
<1>4. /\ Sent' \in Seq(Event) /\ Len(Sent') = Len(queue') + Len(pushes)
      /\ \A i \in 1 .. Len(queue') + Len(pushes) :
           Sent'[i] = IF i <= Len(queue') THEN queue'[i] ELSE pushes[i - Len(queue')]
  BY <1>1, <1>3, ConcatProperties DEF UnderWay, Sent
<1>5. /\ Sent \in Seq(Event) /\ Len(Sent) = Len(queue) + Len(pushes)
      /\ \A i \in 1 .. Len(queue) + Len(pushes) :
           Sent[i] = IF i <= Len(queue) THEN queue[i] ELSE pushes[i - Len(queue)]
  BY ConcatProperties DEF UnderWay, Sent
<1>6. /\ Len(Sent) = Len(Sent') + 1 /\ Len(Sent') \in Nat /\ Sent[1] = Head(queue)
  BY <1>2, <1>3, <1>4, <1>5
<1>7. ASSUME NEW i \in 1 .. Len(Sent')
      PROVE  Sent'[i] = Sent[i + 1]
  <2>1. i + 1 \in 1 .. Len(queue) + Len(pushes) /\ (i + 1) - Len(queue) = i - Len(queue')
        /\ (i + 1 <= Len(queue) <=> i <= Len(queue'))
    BY <1>2, <1>3, <1>4
  <2>2. CASE i <= Len(queue')
    BY <1>2, <1>3, <1>4, <1>5, <2>1, <2>2
  <2>3. CASE ~(i <= Len(queue'))
    BY <1>2, <1>3, <1>4, <1>5, <2>1, <2>3
  <2> QED
    BY <2>2, <2>3
<1>8. ASSUME NEW k, NEW n \in 0 .. Len(Sent')
      PROVE  DownAfter(k, n, Sent', guest') <=> DownAfter(k, n + 1, Sent, guest)
  <2>1. n \in Nat /\ \A i \in 1 .. n : Sent'[i] = Sent[i + 1]
    BY <1>6, <1>7
  <2>2. Sent[1].down \in BOOLEAN
    BY <1>2, <1>6 DEF Event
  <2>3. guest' = IF Sent[1].down THEN guest \cup {Sent[1].key} ELSE guest \ {Sent[1].key}
    BY <1>1, <1>6
  <2>4. DownAfter(k, n + 1, Sent, guest)
          <=> DownAfter(k, n, Sent', IF Sent[1].down THEN guest \cup {Sent[1].key}
                                     ELSE guest \ {Sent[1].key})
    BY <2>1, <2>2, AfterFirst, Zenon
  <2> QED
    BY <2>3, <2>4, Zenon
<1> QED
  BY <1>3, <1>6, <1>7, <1>8

-----------------------------------------------------------------------------
(* What the actions send.                                                  *)

\* An order of a finite set has each of its elements once.
LEMMA OrdersLemma ==
  ASSUME NEW S, IsFiniteSet(S), NEW f \in Orders(S)
  PROVE  /\ f \in Seq(S) /\ Len(f) \in Nat /\ DOMAIN f = 1 .. Len(f)
         /\ \A i, j \in 1 .. Len(f) : f[i] = f[j] => i = j
         /\ \A k \in S : \E i \in 1 .. Len(f) : f[i] = k
<1> DEFINE n == Cardinality(S)
<1>1. n \in Nat /\ f \in [1 .. n -> S] /\ \A i, j \in 1 .. n : i # j => f[i] # f[j]
  BY FS_CardinalityType DEF Orders, SetToSeqs
<1>2. f \in Seq(S) /\ Len(f) = n /\ DOMAIN f = 1 .. n
  BY <1>1
<1>3. ASSUME NEW k \in S, \A i \in 1 .. n : f[i] # k
      PROVE  FALSE
  <2>1. f \in [1 .. n -> S \ {k}]
    BY <1>1, <1>3
  <2>2. IsFiniteSet(S \ {k}) /\ Cardinality(S \ {k}) = n - 1
    BY FS_RemoveElement
  <2>3. IsFiniteSet(1 .. n) /\ Cardinality(1 .. n) = n
    BY <1>1, FS_Interval
  <2>4. \E i, j \in 1 .. n : i # j /\ f[i] = f[j]
    <3>1. Cardinality(S \ {k}) < Cardinality(1 .. n)
      BY <1>1, <2>2, <2>3
    <3> HIDE DEF n
    <3> QED
      BY <2>1, <2>2, <2>3, <3>1, FS_PigeonHole, Zenon
  <2> QED
    BY <1>1, <2>4
<1> QED
  BY <1>1, <1>2, <1>3

LEMMA SendsNothing == <<>> \in Seq(Event) /\ Len(<<>>) = 0 /\ Sends(<<>>, {}, {})
BY DEF Sends

LEMMA SendsOne ==
  ASSUME NEW e \in Event
  PROVE  /\ <<e>> \in Seq(Event) /\ Len(<<e>>) = 1
         /\ e.down => Sends(<<e>>, {}, {e.key})
         /\ ~e.down => Sends(<<e>>, {e.key}, {})
<1>1. Len(<<e>>) = 1 /\ <<e>>[1] = e /\ \A i : i \in 1 .. 1 <=> i = 1
  OBVIOUS
<1>2. \A i : i \notin 1 + 1 .. 1
  OBVIOUS
<1> QED
  BY <1>1, <1>2 DEF Sends

LEMMA SendsStroke ==
  ASSUME NEW k \in Keys, NEW m \in Meanings
  PROVE  /\ <<Down(k, m), Up(k, m)>> \in Seq(Event)
         /\ Sends(<<Down(k, m), Up(k, m)>>, {k}, {})
<1> DEFINE s == <<Down(k, m), Up(k, m)>>
<1>1. /\ s \in Seq(Event) /\ Len(s) = 2 /\ s[1].key = k /\ s[2].key = k /\ ~s[2].down
      /\ \A i \in 1 .. 2 : i = 1 \/ i = 2
  BY DEF Down, Up, Event
<1>2. \A i : i \notin 2 + 1 .. 2
  OBVIOUS
<1> HIDE DEF s
<1> QED
  BY <1>1, <1>2 DEF Sends, s

LEMMA SendsShifted ==
  ASSUME NEW k \in Keys, NEW m \in Meanings, k # LShift
  PROVE  /\ Shifted(k, m) \in Seq(Event)
         /\ Sends(Shifted(k, m), {k, LShift}, {})
<1> DEFINE s == Shifted(k, m)
<1>1. LShift \in Keys /\ "touch" \in Meanings
  BY DEF Keys, TypedKeys, Meanings
<1>2. /\ s \in Seq(Event) /\ Len(s) = 4
      /\ s[1].key = LShift /\ s[2].key = k /\ s[3].key = k /\ s[4].key = LShift
      /\ ~s[3].down /\ ~s[4].down
  BY <1>1 DEF Shifted, Down, Up, Event
<1>3. (\A i \in 1 .. 4 : i \in {1, 2, 3, 4}) /\ \A i : i \notin 4 + 1 .. 4
  OBVIOUS
<1>4. \A i : i \in 3 + 1 .. 4 <=> i = 4
  OBVIOUS
<1> HIDE DEF s
<1> QED
  BY <1>2, <1>3, <1>4 DEF Sends, s

\* Bindings of the pad are finitely many.
LEMMA PadFinite == IsFiniteSet(PadKeys)
<1>1. IsFiniteSet(Directions)
  <2>1. IsFiniteSet({"up"})
    BY FS_Singleton
  <2>2. IsFiniteSet({"up"} \cup {"down"})
    BY <2>1, FS_AddElement
  <2>3. IsFiniteSet(({"up"} \cup {"down"}) \cup {"left"})
    BY <2>2, FS_AddElement
  <2>4. IsFiniteSet((({"up"} \cup {"down"}) \cup {"left"}) \cup {"right"})
    BY <2>3, FS_AddElement
  <2>5. Directions = (({"up"} \cup {"down"}) \cup {"left"}) \cup {"right"}
    BY DEF Directions
  <2> QED
    BY <2>4, <2>5
<1>2. IsFiniteSet(DOMAIN Pad)
  BY <1>1, FS_Subset, InputAssumption DEF InputAssumption
<1> DEFINE f == [d \in DOMAIN Pad |-> Pad[d]]
<1>3. f \in Surjection(DOMAIN Pad, PadKeys)
  BY DEF Surjection, PadKeys
<1> QED
  BY <1>2, <1>3, FS_Surjection

\* The pad lets go of the keys that are no longer wanted, and presses the new ones.
LEMMA RedirectSends ==
  ASSUME NEW now \in SUBSET PadKeys, held["pad"] \subseteq PadKeys, Redirect(now)
  PROVE  /\ pushes = <<>> /\ pushes' \in Seq(Event)
         /\ Sends(pushes', held["pad"] \ now, now \ held["pad"])
         /\ \A i \in 1 .. Len(pushes') : pushes'[i].meant = "touch"
<1> DEFINE U == held["pad"] \ now
           D == now \ held["pad"]
<1>1. IsFiniteSet(U) /\ IsFiniteSet(D) /\ U \subseteq Keys /\ D \subseteq Keys
  <2>1. PadKeys \subseteq Keys
    BY DEF Keys, ControlKeys, Controls, KeysOf
  <2> QED
    BY <2>1, PadFinite, FS_Subset
<1>2. PICK ups \in Orders(U), downs \in Orders(D) :
        /\ pushes = <<>>
        /\ pushes' = [i \in DOMAIN ups |-> Up(ups[i], "touch")]
                       \o [i \in DOMAIN downs |-> Down(downs[i], "touch")]
  BY DEF Redirect, Inject, ReleasedKeys
<1> DEFINE a == [i \in DOMAIN ups |-> Up(ups[i], "touch")]
           b == [i \in DOMAIN downs |-> Down(downs[i], "touch")]
           s == a \o b
<1> HIDE DEF U, D
<1>3. /\ ups \in Seq(U) /\ Len(ups) \in Nat /\ DOMAIN ups = 1 .. Len(ups)
      /\ \A i, j \in 1 .. Len(ups) : ups[i] = ups[j] => i = j
      /\ \A k \in U : \E i \in 1 .. Len(ups) : ups[i] = k
  BY <1>1, OrdersLemma
<1>4. /\ downs \in Seq(D) /\ Len(downs) \in Nat /\ DOMAIN downs = 1 .. Len(downs)
      /\ \A i, j \in 1 .. Len(downs) : downs[i] = downs[j] => i = j
      /\ \A k \in D : \E i \in 1 .. Len(downs) : downs[i] = k
  BY <1>1, OrdersLemma
<1>5. /\ a \in Seq(Event) /\ Len(a) = Len(ups)
      /\ \A i \in 1 .. Len(ups) : a[i].key = ups[i] /\ ~a[i].down /\ a[i].meant = "touch"
  BY <1>1, <1>3 DEF Up, Event, Meanings
<1>6. /\ b \in Seq(Event) /\ Len(b) = Len(downs)
      /\ \A i \in 1 .. Len(downs) : b[i].key = downs[i] /\ b[i].down /\ b[i].meant = "touch"
  BY <1>1, <1>4 DEF Down, Event, Meanings
<1>7. s \in Seq(Event) /\ Len(s) = Len(ups) + Len(downs)
      /\ \A i \in 1 .. Len(ups) + Len(downs) : s[i] = IF i <= Len(ups) THEN a[i] ELSE b[i - Len(ups)]
  <2> HIDE DEF a, b, s
  <2>1. /\ a \o b \in Seq(Event) /\ Len(a \o b) = Len(a) + Len(b)
        /\ \A i \in 1 .. Len(a) + Len(b) : (a \o b)[i] = IF i <= Len(a) THEN a[i] ELSE b[i - Len(a)]
    <3>1. a \in Seq(Event) /\ b \in Seq(Event)
      BY <1>5, <1>6
    <3> QED
      BY <3>1, ConcatProperties
  <2> QED
    BY <1>5, <1>6, <2>1 DEF s
<1>8. pushes' = s
  BY <1>2
<1> HIDE DEF a, b, s
<1>9. \A i \in 1 .. Len(ups) : /\ s[i].key = ups[i] /\ ~s[i].down /\ s[i].meant = "touch"
                               /\ i \in 1 .. Len(s) /\ ups[i] \in U
  BY <1>3, <1>4, <1>5, <1>7
<1>10. ASSUME NEW i \in 1 .. Len(downs)
       PROVE  /\ s[Len(ups) + i].key = downs[i] /\ s[Len(ups) + i].down
              /\ s[Len(ups) + i].meant = "touch"
              /\ Len(ups) + i \in 1 .. Len(s) /\ downs[i] \in D
  <2>1. /\ Len(ups) + i \in 1 .. Len(ups) + Len(downs) /\ ~(Len(ups) + i <= Len(ups))
        /\ (Len(ups) + i) - Len(ups) = i
    BY <1>3, <1>4
  <2>2. s[Len(ups) + i] = b[i]
    BY <1>7, <2>1
  <2> QED
    BY <1>4, <1>6, <1>7, <2>1, <2>2
<1>11. \A i \in 1 .. Len(s) : \/ i \in 1 .. Len(ups)
                              \/ i - Len(ups) \in 1 .. Len(downs) /\ i = Len(ups) + (i - Len(ups))
  BY <1>3, <1>4, <1>7
<1>12. ASSUME NEW i \in 1 .. Len(s)
       PROVE  s[i].meant = "touch" /\ s[i].key \in U \cup D
  <2>1. CASE i \in 1 .. Len(ups)
    BY <1>9, <2>1
  <2>2. CASE i - Len(ups) \in 1 .. Len(downs) /\ i = Len(ups) + (i - Len(ups))
    BY <1>10, <2>2, Zenon
  <2> QED
    BY <1>11, <2>1, <2>2
<1>13. ASSUME NEW k \in U
       PROVE  \E i \in 1 .. Len(s) : /\ s[i].key = k /\ ~s[i].down
                                     /\ \A j \in i + 1 .. Len(s) : s[j].key # k
  <2>1. PICK i \in 1 .. Len(ups) : ups[i] = k
    BY <1>3
  <2>2. ASSUME NEW j \in i + 1 .. Len(s)
        PROVE  s[j].key # k
    <3>1. j \in 1 .. Len(s) /\ j # i
      OBVIOUS
    <3>2. k \notin D
      BY DEF U, D
    <3>3. CASE j \in 1 .. Len(ups)
      <4>1. ups[j] # ups[i]
        BY <1>3, <3>1, <3>3
      <4> QED
        BY <1>9, <2>1, <3>3, <4>1
    <3>4. CASE j - Len(ups) \in 1 .. Len(downs) /\ j = Len(ups) + (j - Len(ups))
      <4>1. s[j].key = downs[j - Len(ups)] /\ downs[j - Len(ups)] \in D
        BY <1>10, <3>4, Zenon
      <4> QED
        BY <3>2, <4>1
    <3> QED
      BY <1>11, <3>1, <3>3, <3>4
  <2> QED
    BY <1>9, <2>1, <2>2
<1>14. ASSUME NEW k \in D
       PROVE  \E i \in 1 .. Len(s) : /\ s[i].key = k /\ s[i].down
                                     /\ \A j \in i + 1 .. Len(s) : s[j].key # k
  <2>1. PICK i \in 1 .. Len(downs) : downs[i] = k
    BY <1>4
  <2>2. ASSUME NEW j \in (Len(ups) + i) + 1 .. Len(s)
        PROVE  s[j].key # k
    <3>1. j \in 1 .. Len(s) /\ j - Len(ups) # i /\ j \notin 1 .. Len(ups)
      BY <1>3
    <3>2. j - Len(ups) \in 1 .. Len(downs) /\ j = Len(ups) + (j - Len(ups))
      BY <1>11, <3>1
    <3>3. s[j].key = downs[j - Len(ups)]
      BY <1>10, <3>2, Zenon
    <3> QED
      BY <1>4, <2>1, <3>1, <3>2, <3>3
  <2> QED
    BY <1>10, <2>1, <2>2
<1>15. Sends(s, U, D)
  <2>1. \A k \in U : k \notin D
    BY DEF U, D
  <2> QED
    BY <1>12, <1>13, <1>14, <2>1 DEF Sends
<1> QED
  BY <1>2, <1>7, <1>8, <1>12, <1>15 DEF U, D

-----------------------------------------------------------------------------
(* The invariant.  That a tap is never pressed more often than the user has  *)
(* done something bounds taps; that Shift is right for each event under way  *)
(* makes it right for the one that DOSBox takes next.                        *)

ShiftsRight ==
  ~dropped /\ LShift \notin ControlKeys =>
    \A i \in 1 .. Len(Sent) : Sent[i].down =>
      /\ Sent[i].meant = "shift" => DownAfter(LShift, i - 1, Sent, guest)
      /\ Sent[i].meant = "plain" => ~DownAfter(LShift, i - 1, Sent, guest)

KeysInv == NoStuckKey /\ HeldIsDown /\ ShiftsRight
InputInv == TypeOK /\ taps <= inputs /\ KeysInv

\* Shift is right in what an action sends, if it is up before.
ShiftsIn(s) ==
  \A i \in 1 .. Len(s) : s[i].down =>
    /\ s[i].meant = "shift" => PressedLast(LShift, i - 1, s)
    /\ s[i].meant = "plain" => ~PressedLast(LShift, i - 1, s)

LEMMA ControlFacts ==
  /\ "pad" \in Controls /\ KeysOf("pad") = PadKeys
  /\ \A b \in DOMAIN Buttons : b \in Controls /\ b # "pad" /\ KeysOf(b) = {Buttons[b]}
  /\ \A c \in Controls : KeysOf(c) \subseteq ControlKeys
  /\ \A c \in Controls : c = "pad" \/ c \in DOMAIN Buttons
  /\ Tap \subseteq ControlKeys /\ ControlKeys \subseteq Keys /\ LShift \in Keys
<1>1. "pad" \notin DOMAIN Buttons
  BY InputAssumption DEF InputAssumption
<1>2. \A c : c \in Controls <=> c = "pad" \/ c \in DOMAIN Buttons
  BY DEF Controls
<1>3. KeysOf("pad") = PadKeys /\ \A b \in DOMAIN Buttons : KeysOf(b) = {Buttons[b]}
  BY <1>1 DEF KeysOf
<1>4. \A c \in Controls : KeysOf(c) \subseteq ControlKeys
  BY DEF ControlKeys
<1>5. Tap \subseteq ControlKeys /\ ControlKeys \subseteq Keys /\ LShift \in Keys
  BY DEF ControlKeys, Keys, TypedKeys
<1> QED
  BY <1>1, <1>2, <1>3, <1>4, <1>5

LEMMA TypeUnderWay == TypeOK => UnderWay
BY DEF TypeOK, UnderWay, Event

\* What is held or orphaned belongs to the controls.
LEMMA HoldingType == TypeOK => Holding \cup orphaned \subseteq ControlKeys
<1> HAVE TypeOK
<1>1. \A c \in Controls : held[c] \subseteq ControlKeys
  BY ControlFacts DEF TypeOK
<1>2. (IF taps > 0 THEN Tap ELSE {}) \subseteq ControlKeys
  BY ControlFacts
<1>3. UNION {held[c] : c \in Controls} \subseteq ControlKeys
  BY <1>1
<1>4. orphaned \subseteq ControlKeys
  BY DEF TypeOK
<1> QED
  BY <1>2, <1>3, <1>4 DEF Holding

\* A step of the main thread keeps the invariant, if what it presses is then held, what is
\* no longer held goes up, and what is held was pressed.
LEMMA InjectStep ==
  ASSUME TypeOK, KeysInv, pushes = <<>>, pushes' \in Seq(Event),
         UNCHANGED <<queue, guest, dropped>>,
         NEW U, NEW D, Sends(pushes', U, D), U \cap D = {}, ShiftsIn(pushes'),
         D \subseteq Holding' \cup orphaned',
         (Holding \cup orphaned) \ U \subseteq Holding' \cup orphaned',
         \A c \in Controls : \A k \in held'[c] :
           Exclusive(c, k) => k \in D \/ (k \notin U /\ k \in held[c])
  PROVE  KeysInv'
<1>0. UnderWay /\ UnderWay'
  BY TypeUnderWay DEF UnderWay
<1>1. \A k : WillBeDown(k)' <=> k \in D \/ (k \notin U /\ WillBeDown(k))
  BY <1>0, SendsLemma
<1>2. NoStuckKey'
  BY <1>1 DEF KeysInv, NoStuckKey
<1>3. HeldIsDown'
  BY <1>1 DEF KeysInv, HeldIsDown, Exclusive
<1>4. ASSUME ~dropped, LShift \notin ControlKeys, NEW i \in 1 .. Len(Sent'), Sent'[i].down
      PROVE  /\ Sent'[i].meant = "shift" => DownAfter(LShift, i - 1, Sent', guest')
             /\ Sent'[i].meant = "plain" => ~DownAfter(LShift, i - 1, Sent', guest')
  <2>0. Len(queue) \in Nat /\ Len(pushes') \in Nat
    BY <1>0, LenProperties DEF UnderWay
  <2>1. ~WillBeDown(LShift)
    BY <1>4, ControlFacts, HoldingType DEF KeysInv, NoStuckKey
  <2>2. /\ Len(Sent) = Len(queue) /\ Len(Sent') = Len(queue) + Len(pushes')
        /\ \A j \in 1 .. Len(queue) : Sent'[j] = Sent[j]
        /\ \A j \in 1 .. Len(pushes') : Sent'[Len(queue) + j] = pushes'[j]
        /\ \A k : \A n \in 0 .. Len(queue) :
             DownAfter(k, n, Sent', guest') <=> DownAfter(k, n, Sent, guest)
        /\ \A k : \A m \in 0 .. Len(pushes') :
             DownAfter(k, Len(queue) + m, Sent', guest')
               <=> PressedLast(k, m, pushes') \/ (Untouched(k, m, pushes') /\ WillBeDown(k))
    BY <1>0, InjectLemma
  <2>3. CASE i \in 1 .. Len(queue)
    <3>1. i - 1 \in 0 .. Len(queue)
      BY <2>0, <2>3
    <3>2. DownAfter(LShift, i - 1, Sent', guest') <=> DownAfter(LShift, i - 1, Sent, guest)
      BY <2>2, <3>1
    <3>3. Sent'[i] = Sent[i] /\ i \in 1 .. Len(Sent)
      BY <2>2, <2>3
    <3> QED
      BY <1>4, <3>2, <3>3 DEF KeysInv, ShiftsRight
  <2>4. CASE i \notin 1 .. Len(queue)
    <3> DEFINE m == i - Len(queue)
    <3>1. m \in 1 .. Len(pushes') /\ i = Len(queue) + m /\ i - 1 = Len(queue) + (m - 1)
          /\ m - 1 \in 0 .. Len(pushes')
      BY <2>0, <2>2, <2>4
    <3> HIDE DEF m
    <3>2. Sent'[i] = pushes'[m]
      BY <2>2, <3>1
    <3>3. DownAfter(LShift, i - 1, Sent', guest') <=> PressedLast(LShift, m - 1, pushes')
      BY <2>1, <2>2, <3>1
    <3> QED
      BY <1>4, <3>1, <3>2, <3>3 DEF ShiftsIn
  <2> QED
    BY <2>3, <2>4
<1>5. ShiftsRight'
  BY <1>4 DEF ShiftsRight
<1> QED
  BY <1>2, <1>3, <1>5 DEF KeysInv

\* Events of the controls say nothing of Shift.
LEMMA ShiftsInTouch ==
  ASSUME NEW s, \A i \in 1 .. Len(s) : s[i].meant = "touch"
  PROVE  ShiftsIn(s)
BY DEF ShiftsIn

\* A stroke on a free keyboard is one without Shift, and a shifted character one with it.
LEMMA ShiftsInTyped ==
  ASSUME NEW k \in Keys, k # LShift, NEW m \in Meanings
  PROVE  /\ m # "shift" => ShiftsIn(<<Down(k, m), Up(k, m)>>)
         /\ m # "plain" => ShiftsIn(Shifted(k, m))
<1>1. ASSUME m # "shift"
      PROVE  ShiftsIn(<<Down(k, m), Up(k, m)>>)
  <2> DEFINE s == <<Down(k, m), Up(k, m)>>
  <2>1. /\ Len(s) = 2 /\ s[1].meant = m /\ ~s[2].down
        /\ \A i \in 1 .. 2 : i = 1 \/ i = 2
    BY DEF Down, Up
  <2>2. \A i : i \notin 1 .. 1 - 1
    OBVIOUS
  <2> HIDE DEF s
  <2> QED
    BY <1>1, <2>1, <2>2 DEF ShiftsIn, PressedLast, s
<1>2. ASSUME m # "plain"
      PROVE  ShiftsIn(Shifted(k, m))
  <2> DEFINE s == Shifted(k, m)
  <2>1. /\ Len(s) = 4 /\ s[1].key = LShift /\ s[1].down /\ s[1].meant = "touch" /\ s[2].meant = m
        /\ ~s[3].down /\ ~s[4].down
        /\ \A i \in 1 .. 4 : i \in {1, 2, 3, 4}
    BY DEF Shifted, Down, Up
  <2>2. 1 \in 1 .. 2 - 1 /\ \A i : i \notin 1 + 1 .. 2 - 1
    OBVIOUS
  <2> HIDE DEF s
  <2>3. PressedLast(LShift, 2 - 1, s)
    BY <2>1, <2>2 DEF PressedLast
  <2> QED
    BY <1>2, <2>1, <2>3 DEF ShiftsIn, s
<1> QED
  BY <1>1, <1>2

-----------------------------------------------------------------------------
(* The actions.                                                            *)

LEMMA HoldingLemma ==
  \A k : /\ k \in Holding <=> (\E c \in Controls : k \in held[c]) \/ (taps > 0 /\ k \in Tap)
         /\ k \in Holding' <=> (\E c \in Controls : k \in held'[c]) \/ (taps' > 0 /\ k \in Tap)
BY DEF Holding

\* A control lets go of some of its keys and takes others of them.
LEMMA ControlStep ==
  ASSUME TypeOK, KeysInv, NEW c \in Controls, NEW now \in SUBSET KeysOf(c),
         held' = [held EXCEPT ![c] = now],
         UNCHANGED <<taps, orphaned, queue, guest, dropped>>,
         pushes = <<>>, pushes' \in Seq(Event),
         Sends(pushes', held[c] \ now, now \ held[c]), ShiftsIn(pushes')
  PROVE  KeysInv' /\ held' \in [Controls -> SUBSET ControlKeys]
         /\ \A d \in Controls : held'[d] \subseteq KeysOf(d)
<1> DEFINE U == held[c] \ now
           D == now \ held[c]
<1>1. /\ held \in [Controls -> SUBSET ControlKeys] /\ \A d \in Controls : held[d] \subseteq KeysOf(d)
      /\ now \subseteq ControlKeys
  BY ControlFacts DEF TypeOK
<1>2. \A d \in Controls : held'[d] = IF d = c THEN now ELSE held[d]
  BY <1>1
<1>3. \A k : (\E d \in Controls : k \in held'[d])
               <=> k \in now \/ \E d \in Controls : d # c /\ k \in held[d]
  BY <1>2
<1>4. D \subseteq Holding' \cup orphaned'
  BY <1>3, HoldingLemma
<1>5. (Holding \cup orphaned) \ U \subseteq Holding' \cup orphaned'
  <2> SUFFICES ASSUME NEW k \in Holding, k \notin U PROVE k \in Holding'
    OBVIOUS
  <2>1. CASE taps > 0 /\ k \in Tap
    BY <2>1, HoldingLemma
  <2>2. ASSUME NEW d \in Controls, k \in held[d]
        PROVE  k \in Holding'
    BY <1>3, <2>2, HoldingLemma
  <2> QED
    BY <2>1, <2>2, HoldingLemma
<1>6. ASSUME NEW d \in Controls, NEW k \in held'[d], Exclusive(d, k)
      PROVE  k \in D \/ (k \notin U /\ k \in held[d])
  <2>1. CASE d = c
    BY <1>2, <1>6, <2>1
  <2>2. CASE d # c
    <3>1. k \notin KeysOf(c) /\ k \in held[d]
      BY <1>2, <1>6, <2>2 DEF Exclusive
    <3> QED
      BY <1>1, <3>1
  <2> QED
    BY <2>1, <2>2
<1>7. U \cap D = {}
  OBVIOUS
<1>8. KeysInv'
  <2> HIDE DEF U, D
  <2>1. Sends(pushes', U, D)
    BY DEF U, D
  <2> QED
    BY <1>4, <1>5, <1>6, <1>7, <2>1, InjectStep
<1>9. held' \in [Controls -> SUBSET ControlKeys] /\ \A d \in Controls : held'[d] \subseteq KeysOf(d)
  BY <1>1, <1>2
<1> QED
  BY <1>8, <1>9

\* The pad follows the thumb.
LEMMA PadStep ==
  ASSUME InputInv, User, Center \/ \E s \in Sectors : Drag(s)
  PROVE  InputInv'
<1> PICK now \in SUBSET PadKeys :
      /\ Redirect(now) /\ held' = [held EXCEPT !["pad"] = now] /\ touch' \subseteq touch \cup {"pad"}
      /\ UNCHANGED <<taps, shown, modes, events, orphaned>>
  <2>1. ASSUME NEW s \in Sectors, Drag(s)
        PROVE  /\ KeysAt(s) \in SUBSET PadKeys /\ Redirect(KeysAt(s))
               /\ held' = [held EXCEPT !["pad"] = KeysAt(s)] /\ touch' \subseteq touch \cup {"pad"}
               /\ UNCHANGED <<taps, shown, modes, events, orphaned>>
    BY <2>1 DEF Drag, KeysAt, PadKeys
  <2>2. CASE Center
    BY <2>2 DEF Center
  <2> QED
    BY <2>1, <2>2
<1>1. TypeOK /\ KeysInv /\ taps <= inputs /\ UNCHANGED <<queue, guest, dropped>>
      /\ "pad" \in Controls /\ now \in SUBSET KeysOf("pad")
  BY ControlFacts DEF InputInv, events
<1>2. held["pad"] \subseteq PadKeys
  BY <1>1, ControlFacts DEF TypeOK
<1>3. /\ pushes = <<>> /\ pushes' \in Seq(Event)
      /\ Sends(pushes', held["pad"] \ now, now \ held["pad"])
      /\ ShiftsIn(pushes')
  BY <1>2, RedirectSends, ShiftsInTouch
<1>4. KeysInv' /\ held' \in [Controls -> SUBSET ControlKeys]
      /\ \A d \in Controls : held'[d] \subseteq KeysOf(d)
  BY <1>1, <1>3, ControlStep
<1>5. inputs' \in 0 .. MaxInputs /\ inputs' = inputs + 1 /\ taps' <= inputs'
  BY <1>1, InputAssumption DEF User, TypeOK, InputAssumption
<1>6. TypeOK'
  BY <1>1, <1>3, <1>4, <1>5 DEF TypeOK, modes, Event
<1> QED
  BY <1>1, <1>4, <1>5, <1>6 DEF InputInv

\* What User adds to each of its actions.
LEMMA UserCounts ==
  ASSUME InputInv, User
  PROVE  inputs' \in 0 .. MaxInputs /\ inputs' = inputs + 1 /\ inputs \in Nat /\ taps \in Nat
         /\ taps <= inputs /\ taps + 1 <= inputs' /\ taps <= MaxInputs /\ taps + 1 <= MaxInputs
BY InputAssumption DEF User, InputInv, TypeOK, InputAssumption

\* A button is pressed or let go.
LEMMA ButtonStep ==
  ASSUME InputInv, User, NEW b \in DOMAIN Buttons, Press(b) \/ Release(b)
  PROVE  InputInv'
<1>1. TypeOK /\ KeysInv /\ b \in Controls /\ KeysOf(b) = {Buttons[b]} /\ Buttons[b] \in Keys
      /\ held[b] \subseteq {Buttons[b]}
  BY ControlFacts DEF InputInv, TypeOK
<1>2. PICK now \in SUBSET KeysOf(b) :
        /\ held' = [held EXCEPT ![b] = now] /\ touch' \subseteq touch \cup {b}
        /\ UNCHANGED <<taps, shown, modes, queue, guest, dropped, orphaned>>
        /\ pushes = <<>>
        /\ \/ now \ held[b] = {} /\ held[b] \ now = {} /\ pushes' = <<>>
           \/ /\ now \ held[b] = {Buttons[b]} /\ held[b] \ now = {}
              /\ pushes' = <<Down(Buttons[b], "touch")>>
           \/ /\ now \ held[b] = {} /\ held[b] \ now = {Buttons[b]}
              /\ pushes' = <<Up(Buttons[b], "touch")>>
  <2>1. CASE Press(b)
    <3>1. /\ held' = [held EXCEPT ![b] = {Buttons[b]}] /\ touch' \subseteq touch \cup {b}
          /\ UNCHANGED <<taps, shown, modes, queue, guest, dropped, orphaned>>
          /\ pushes = <<>>
          /\ pushes' = IF held[b] = {} THEN <<Down(Buttons[b], "touch")>> ELSE <<>>
      BY <2>1 DEF Press, Inject, events
    <3>2. {Buttons[b]} \in SUBSET KeysOf(b)
      BY <1>1
    <3>3. \/ held[b] = {} /\ {Buttons[b]} \ held[b] = {Buttons[b]} /\ held[b] \ {Buttons[b]} = {}
          \/ held[b] # {} /\ {Buttons[b]} \ held[b] = {} /\ held[b] \ {Buttons[b]} = {}
      BY <1>1
    <3> QED
      BY <3>1, <3>2, <3>3
  <2>2. CASE Release(b)
    <3>1. /\ held' = [held EXCEPT ![b] = {}] /\ touch' \subseteq touch \cup {b}
          /\ UNCHANGED <<taps, shown, modes, queue, guest, dropped, orphaned>>
          /\ pushes = <<>>
          /\ pushes' = IF held[b] = {} THEN <<>> ELSE <<Up(Buttons[b], "touch")>>
      BY <2>2 DEF Release, Inject, Lifted, events
    <3>2. \/ held[b] = {} /\ {} \ held[b] = {} /\ held[b] \ {} = {}
          \/ held[b] # {} /\ {} \ held[b] = {} /\ held[b] \ {} = {Buttons[b]}
      BY <1>1
    <3> QED
      BY <3>1, <3>2
  <2> QED
    BY <2>1, <2>2
<1>3. Down(Buttons[b], "touch") \in Event /\ Up(Buttons[b], "touch") \in Event
  BY <1>1 DEF Down, Up, Event, Meanings
<1>4. /\ pushes' \in Seq(Event) /\ Sends(pushes', held[b] \ now, now \ held[b])
      /\ ShiftsIn(pushes')
  <2>1. CASE pushes' = <<>> /\ now \ held[b] = {} /\ held[b] \ now = {}
    <3>1. \A i \in 1 .. Len(pushes') : pushes'[i].meant = "touch"
      BY <2>1
    <3> QED
      BY <2>1, <3>1, SendsNothing, ShiftsInTouch
  <2>2. CASE pushes' = <<Down(Buttons[b], "touch")>> /\ now \ held[b] = {Buttons[b]}
             /\ held[b] \ now = {}
    <3>1. /\ Down(Buttons[b], "touch").key = Buttons[b] /\ Down(Buttons[b], "touch").down
          /\ Down(Buttons[b], "touch").meant = "touch"
      BY DEF Down
    <3>2. Len(pushes') = 1 /\ \A i \in 1 .. 1 : pushes'[i].meant = "touch"
      BY <2>2, <3>1
    <3> QED
      BY <1>3, <2>2, <3>1, <3>2, SendsOne, ShiftsInTouch
  <2>3. CASE pushes' = <<Up(Buttons[b], "touch")>> /\ now \ held[b] = {}
             /\ held[b] \ now = {Buttons[b]}
    <3>1. /\ Up(Buttons[b], "touch").key = Buttons[b] /\ ~Up(Buttons[b], "touch").down
          /\ Up(Buttons[b], "touch").meant = "touch"
      BY DEF Up
    <3>2. Len(pushes') = 1 /\ \A i \in 1 .. 1 : pushes'[i].meant = "touch"
      BY <2>3, <3>1
    <3> QED
      BY <1>3, <2>3, <3>1, <3>2, SendsOne, ShiftsInTouch
  <2> QED
    BY <1>2, <2>1, <2>2, <2>3
<1>5. KeysInv' /\ held' \in [Controls -> SUBSET ControlKeys]
      /\ \A d \in Controls : held'[d] \subseteq KeysOf(d)
  BY <1>1, <1>2, <1>4, ControlStep
<1>6. TypeOK' /\ taps' <= inputs'
  BY <1>1, <1>2, <1>4, <1>5, UserCounts DEF TypeOK, modes, Event
<1> QED
  BY <1>5, <1>6 DEF InputInv

\* The stick is tapped; later the tap is over.
LEMMA TapStep ==
  ASSUME InputInv, (User /\ TapStick) \/ (TapRelease /\ UNCHANGED inputs)
  PROVE  InputInv'
<1>1. TypeOK /\ KeysInv
  BY DEF InputInv
<1>2. PICK k \in Tap : /\ pushes = <<>>
                       /\ \/ TapStick /\ User /\ pushes' = <<Down(k, "touch")>>
                          \/ TapRelease /\ inputs' = inputs /\ pushes' = <<Up(k, "touch")>>
  BY DEF TapStick, TapRelease, TapEvents, Inject
<1>3. Tap = {k} /\ k \in Keys /\ k \in ControlKeys
  <2>1. IsFiniteSet(Tap) /\ Cardinality(Tap) \in Nat /\ Cardinality(Tap) <= 1
    BY InputAssumption, FS_CardinalityType DEF InputAssumption
  <2>2. Cardinality(Tap) # 0
    BY <2>1, FS_EmptySet
  <2>3. Cardinality(Tap) = 1
    BY <2>1, <2>2
  <2> QED
    BY <2>1, <2>3, FS_Singleton, ControlFacts
<1>4. UNCHANGED <<touch, held, shown, modes, queue, guest, dropped, orphaned>>
  BY <1>2 DEF TapStick, TapRelease, events
<1> DEFINE e == pushes'[1]
<1>5. /\ e \in Event /\ e.key = k /\ e.meant = "touch" /\ pushes' = <<e>> /\ Len(pushes') = 1
      /\ (TapStick /\ User /\ e.down) \/ (TapRelease /\ inputs' = inputs /\ ~e.down)
  <2>1. CASE TapStick /\ User /\ pushes' = <<Down(k, "touch")>>
    BY <1>3, <2>1 DEF Down, Event, Meanings
  <2>2. CASE TapRelease /\ inputs' = inputs /\ pushes' = <<Up(k, "touch")>>
    BY <1>3, <2>2 DEF Up, Event, Meanings
  <2> QED
    BY <1>2, <2>1, <2>2
<1> HIDE DEF e
<1>6. pushes' \in Seq(Event) /\ ShiftsIn(pushes')
  <2>1. \A i \in 1 .. Len(pushes') : pushes'[i] = e
    BY <1>5 DEF e
  <2> QED
    BY <1>5, <2>1, SendsOne, ShiftsInTouch
<1>7. \A c \in Controls : \A l \in held'[c] : Exclusive(c, l) => l # k /\ l \in held[c]
  BY <1>3, <1>4 DEF Exclusive
<1>8. CASE TapStick /\ User /\ e.down
  <2>1. taps' = taps + 1 /\ taps \in Nat
    BY <1>8, UserCounts DEF TapStick
  <2>2. Sends(pushes', {}, {k})
    BY <1>5, <1>8, SendsOne
  <2>3. {k} \subseteq Holding' /\ Holding \subseteq Holding'
    BY <1>3, <1>4, <2>1, HoldingLemma
  <2>4. KeysInv'
    BY <1>1, <1>2, <1>4, <1>6, <1>7, <2>2, <2>3, InjectStep
  <2>5. TypeOK' /\ taps' <= inputs'
    BY <1>1, <1>4, <1>6, <1>8, <2>1, UserCounts DEF TypeOK, modes, Event
  <2> QED
    BY <2>4, <2>5 DEF InputInv
<1>9. CASE TapRelease /\ inputs' = inputs /\ ~e.down
  <2>1. taps' = taps - 1 /\ taps \in Nat /\ taps > 0 /\ taps <= inputs /\ inputs \in Nat
    BY <1>9 DEF TapRelease, InputInv, TypeOK
  <2>2. Sends(pushes', {k}, {})
    BY <1>5, <1>9, SendsOne
  <2>3. \A l \in Holding : l # k => l \in Holding'
    BY <1>3, <1>4, HoldingLemma
  <2>4. (Holding \cup orphaned) \ {k} \subseteq Holding' \cup orphaned'
    BY <1>4, <2>3
  <2>5. KeysInv'
    BY <1>1, <1>2, <1>4, <1>6, <1>7, <2>2, <2>4, InjectStep
  <2>6. taps' \in 0 .. MaxInputs /\ inputs' \in 0 .. MaxInputs /\ taps' <= inputs'
    BY <1>1, <1>9, <2>1, InputAssumption DEF TypeOK, InputAssumption
  <2>7. TypeOK'
    BY <1>1, <1>4, <1>6, <1>9, <2>6 DEF TypeOK, modes, Event
  <2> QED
    BY <2>5, <2>6, <2>7 DEF InputInv
<1> QED
  BY <1>5, <1>8, <1>9

\* A touch is lost, the controls go or come, or a mode changes: nothing is sent.
LEMMA SilentStep ==
  ASSUME InputInv, User, (\E c \in Controls : Cancel(c)) \/ ToggleOverlay \/ ToggleMode
  PROVE  InputInv'
<1>1. TypeOK /\ KeysInv
  BY DEF InputInv
<1>2. /\ pushes = <<>> /\ pushes' = <<>> /\ UNCHANGED <<taps, queue, guest, dropped>>
      /\ touch' \subseteq Controls /\ shown' \in BOOLEAN
      /\ fn' \in BOOLEAN /\ alt' \in BOOLEAN /\ ctrl' \in BOOLEAN
      /\ \/ held' = held /\ orphaned' = orphaned
         \/ /\ held' = [c \in Controls |-> {}]
            /\ orphaned' = orphaned \cup UNION {held[c] : c \in Controls}
  BY <1>1 DEF Cancel, ToggleOverlay, ToggleMode, overlay, modes, events, TypeOK
<1>3. pushes' \in Seq(Event) /\ Sends(pushes', {}, {}) /\ ShiftsIn(pushes')
  <2>1. \A i \in 1 .. Len(<<>>) : <<>>[i].meant = "touch"
    BY SendsNothing
  <2> QED
    BY <1>2, <2>1, SendsNothing, ShiftsInTouch
<1>4. (Holding \cup orphaned) \ {} \subseteq Holding' \cup orphaned'
  BY <1>2, HoldingLemma
<1>5. \A c \in Controls : \A k \in held'[c] : k \in held[c]
  BY <1>2
<1>6. KeysInv'
  BY <1>1, <1>2, <1>3, <1>4, <1>5, InjectStep
<1>7. /\ held' \in [Controls -> SUBSET ControlKeys] /\ orphaned' \subseteq ControlKeys
      /\ \A c \in Controls : held'[c] \subseteq KeysOf(c)
  <2>1. CASE held' = held /\ orphaned' = orphaned
    BY <1>1, <2>1 DEF TypeOK
  <2>2. CASE /\ held' = [c \in Controls |-> {}]
             /\ orphaned' = orphaned \cup UNION {held[c] : c \in Controls}
    BY <1>1, <2>2 DEF TypeOK
  <2> QED
    BY <1>2, <2>1, <2>2
<1>8. TypeOK' /\ taps' <= inputs'
  BY <1>1, <1>2, <1>3, <1>7, UserCounts DEF TypeOK, Event
<1> QED
  BY <1>6, <1>8 DEF InputInv

\* What a typed character sends goes down and up, and is of no control.
LEMMA TypedStep ==
  ASSUME InputInv, User, UNCHANGED <<overlay, events, orphaned>>,
         fn' \in BOOLEAN, alt' \in BOOLEAN, ctrl' \in BOOLEAN,
         pushes = <<>>, pushes' \in Seq(Event), ShiftsIn(pushes'),
         NEW U \in SUBSET TypedKeys, Sends(pushes', U, {})
  PROVE  InputInv'
<1>1. TypeOK /\ KeysInv /\ UNCHANGED <<touch, held, taps, shown, queue, guest, dropped, orphaned>>
  BY DEF InputInv, overlay, events
<1>2. (Holding \cup orphaned) \ U \subseteq Holding' \cup orphaned'
  BY <1>1, HoldingLemma
<1>3. \A c \in Controls : \A k \in held'[c] : Exclusive(c, k) => k \notin U /\ k \in held[c]
  BY <1>1 DEF Exclusive
<1>4. KeysInv'
  BY <1>1, <1>2, <1>3, InjectStep
<1>5. TypeOK' /\ taps' <= inputs'
  BY <1>1, UserCounts DEF TypeOK, Event
<1> QED
  BY <1>4, <1>5 DEF InputInv

LEMMA TypeStep ==
  ASSUME InputInv, User, Type
  PROVE  InputInv'
<1>1. /\ fn \in BOOLEAN /\ alt \in BOOLEAN /\ ctrl \in BOOLEAN
      /\ UNCHANGED <<overlay, events, orphaned>>
  BY DEF InputInv, TypeOK, Type
<1>2. \A k \in TypedKeys : k \in Keys
  BY DEF Keys
\* a key that goes down and up
<1>3. ASSUME NEW k \in TypedKeys \ {LShift}, NEW m \in Meanings \ {"shift"}, Stroke(k, m),
             fn' \in BOOLEAN, alt' \in BOOLEAN, ctrl' \in BOOLEAN
      PROVE  InputInv'
  <2>1. pushes = <<>> /\ pushes' = <<Down(k, m), Up(k, m)>>
    BY <1>3 DEF Stroke, Inject
  <2>2. pushes' \in Seq(Event) /\ Sends(pushes', {k}, {}) /\ ShiftsIn(pushes')
    BY <1>2, <2>1, SendsStroke, ShiftsInTyped
  <2> QED
    BY <1>1, <1>3, <2>1, <2>2, TypedStep
<1>4. CASE TypeArrow
  BY <1>1, <1>3, <1>4 DEF TypeArrow, modes, TypedKeys, LShift, Meanings
<1>5. ASSUME NEW ch \in Chars \ {"arrow"}, TypeFn(ch)
      PROVE  InputInv'
  <2>1. PICK k \in FnScancode(ch) : Stroke(k, "plain")
    BY <1>5 DEF TypeFn
  <2>2. k \in TypedKeys \ {LShift} /\ "plain" \in Meanings \ {"shift"}
    BY DEF FnScancode, TypedKeys, LShift, Meanings
  <2>3. fn' \in BOOLEAN /\ alt' \in BOOLEAN /\ ctrl' \in BOOLEAN
    BY <1>1, <1>5 DEF TypeFn
  <2> QED
    BY <1>3, <2>1, <2>2, <2>3
<1>6. ASSUME NEW ch \in Chars
      PROVE  AsciiToSdl(ch) \subseteq TypedKeys \ {LShift}
  BY DEF AsciiToSdl, TypedKeys, LShift
<1>7. ASSUME NEW ch \in Chars \ {"arrow"}, TypeAlt(ch)
      PROVE  InputInv'
  <2>1. PICK k \in CharToScancode(ch) : Stroke(k, "alt")
    BY <1>7 DEF TypeAlt
  <2>2. k \in TypedKeys \ {LShift} /\ "alt" \in Meanings \ {"shift"}
    BY <1>6 DEF CharToScancode, Meanings
  <2>3. fn' \in BOOLEAN /\ alt' \in BOOLEAN /\ ctrl' \in BOOLEAN
    BY <1>1, <1>7 DEF TypeAlt
  <2> QED
    BY <1>3, <2>1, <2>2, <2>3
<1>8. ASSUME NEW ch \in Chars \ {"arrow"}, TypePlain(ch)
      PROVE  InputInv'
  <2>1. fn' \in BOOLEAN /\ alt' \in BOOLEAN /\ ctrl' \in BOOLEAN
    BY <1>1, <1>8 DEF TypePlain
  <2>2. InjectChar(ch, Meaning(ch))
    BY <1>8 DEF TypePlain
  <2>3. /\ Meaning(ch) \in Meanings
        /\ ch = "A" => Meaning(ch) # "plain"
        /\ ch # "A" => Meaning(ch) # "shift"
    BY DEF Meaning, Meanings
  <2>4. CASE pushes = <<>> /\ pushes' = <<>>
    <3>1. \A i \in 1 .. Len(<<>>) : <<>>[i].meant = "touch"
      BY SendsNothing
    <3>2. pushes' \in Seq(Event) /\ Sends(pushes', {}, {}) /\ ShiftsIn(pushes')
      BY <2>4, <3>1, SendsNothing, ShiftsInTouch
    <3> QED
      BY <1>1, <2>1, <2>4, <3>2, TypedStep
  <2>5. ASSUME NEW k \in AsciiToSdl(ch), ch = "A", Inject(Shifted(k, Meaning(ch)))
        PROVE  InputInv'
    <3>1. k \in Keys /\ k # LShift /\ {k, LShift} \in SUBSET TypedKeys
      BY <1>2, <1>6 DEF TypedKeys
    <3>2. pushes = <<>> /\ pushes' = Shifted(k, Meaning(ch))
      BY <2>5 DEF Inject
    <3>3. pushes' \in Seq(Event) /\ Sends(pushes', {k, LShift}, {}) /\ ShiftsIn(pushes')
      BY <2>3, <2>5, <3>1, <3>2, SendsShifted, ShiftsInTyped
    <3> QED
      BY <1>1, <2>1, <3>1, <3>2, <3>3, TypedStep
  <2>6. ASSUME NEW k \in AsciiToSdl(ch), ch # "A",
               Inject(<<Down(k, Meaning(ch)), Up(k, Meaning(ch))>>)
        PROVE  InputInv'
    <3>1. k \in TypedKeys \ {LShift} /\ Meaning(ch) \in Meanings \ {"shift"}
      BY <1>6, <2>3, <2>6
    <3>2. Stroke(k, Meaning(ch))
      BY <2>6 DEF Stroke
    <3> QED
      BY <1>3, <2>1, <3>1, <3>2
  <2> QED
    BY <2>2, <2>4, <2>5, <2>6 DEF InjectChar, Inject
<1> QED
  BY <1>4, <1>5, <1>7, <1>8 DEF Type

\* SDL takes an event, or loses it.
LEMMA PushStep ==
  ASSUME InputInv, PushEvent, UNCHANGED inputs
  PROVE  InputInv'
<1>1. TypeOK /\ KeysInv /\ UnderWay /\ taps <= inputs
  BY TypeUnderWay DEF InputInv
<1>2. /\ pushes # <<>> /\ pushes' = Tail(pushes)
      /\ \/ /\ Len(queue) < MaxQueued /\ queue' = Append(queue, Head(pushes)) /\ dropped' = dropped
         \/ dropped' = TRUE /\ queue' = queue
      /\ UNCHANGED <<touch, held, taps, shown, fn, alt, ctrl, guest, orphaned>>
  BY DEF PushEvent, overlay, modes
<1>3. /\ queue' \in Seq(Event) /\ pushes' \in Seq(Event) /\ Len(queue') <= MaxQueued
      /\ dropped' \in BOOLEAN
  <2>1. Len(queue) \in Nat /\ Len(queue) <= MaxQueued /\ MaxQueued \in Nat /\ dropped \in BOOLEAN
    BY <1>1, LenProperties, InputAssumption DEF TypeOK, UnderWay, InputAssumption
  <2>2. Head(pushes) \in Event /\ Tail(pushes) \in Seq(Event)
    BY <1>1, <1>2, HeadTailProperties DEF UnderWay
  <2>3. Append(queue, Head(pushes)) \in Seq(Event)
        /\ Len(Append(queue, Head(pushes))) = Len(queue) + 1
    BY <1>1, <2>2, AppendProperties DEF UnderWay
  <2>4. CASE queue' = queue
    BY <1>1, <1>2, <2>1, <2>2, <2>4 DEF UnderWay
  <2>5. CASE Len(queue) < MaxQueued /\ queue' = Append(queue, Head(pushes)) /\ dropped' = dropped
    BY <1>2, <2>1, <2>2, <2>3, <2>5
  <2> QED
    BY <1>2, <2>1, <2>4, <2>5
<1>4. TypeOK'
  BY <1>1, <1>2, <1>3 DEF TypeOK, Event
<1>5. ASSUME ~dropped'
      PROVE  ~dropped /\ UnderWay' /\ Sent' = Sent /\ \A k : WillBeDown(k)' <=> WillBeDown(k)
  <2>1. UnderWay' /\ Sent' = Sent
    BY <1>1, <1>5, PushLemma
  <2>2. \A k : WillBeDown(k)' <=> WillBeDown(k)
    BY <1>1, <1>2, <2>1, WillLemma
  <2> QED
    BY <1>2, <1>5, <2>1, <2>2
<1>6. NoStuckKey'
  BY <1>1, <1>2, <1>5, HoldingLemma DEF KeysInv, NoStuckKey
<1>7. HeldIsDown'
  BY <1>1, <1>2, <1>5 DEF KeysInv, HeldIsDown, Exclusive
<1>8. ShiftsRight'
  BY <1>1, <1>2, <1>5 DEF KeysInv, ShiftsRight
<1> QED
  BY <1>1, <1>2, <1>4, <1>6, <1>7, <1>8 DEF InputInv, KeysInv

\* DOSBox takes one.
LEMMA PollStep ==
  ASSUME InputInv, Poll, UNCHANGED inputs
  PROVE  InputInv'
<1>1. TypeOK /\ KeysInv /\ UnderWay /\ taps <= inputs
  BY TypeUnderWay DEF InputInv
<1>2. /\ queue # <<>> /\ queue' = Tail(queue)
      /\ guest' = IF Head(queue).down THEN guest \cup {Head(queue).key}
                  ELSE guest \ {Head(queue).key}
      /\ UNCHANGED <<touch, held, taps, shown, fn, alt, ctrl, pushes, orphaned, dropped>>
  BY DEF Poll, overlay, modes
<1>3. /\ UnderWay' /\ Len(Sent) = Len(Sent') + 1 /\ Len(Sent') \in Nat
      /\ \A i \in 1 .. Len(Sent') : Sent'[i] = Sent[i + 1]
      /\ \A k : \A n \in 0 .. Len(Sent') :
           DownAfter(k, n, Sent', guest') <=> DownAfter(k, n + 1, Sent, guest)
  BY <1>1, PollLemma
<1>4. TypeOK'
  <2>1. Head(queue).key \in Keys /\ Len(queue') <= MaxQueued
    <3>1. Head(queue) \in Event /\ Len(queue') = Len(queue) - 1 /\ Len(queue) \in Nat
      BY <1>1, <1>2, HeadTailProperties, LenProperties DEF UnderWay
    <3>2. Len(queue) <= MaxQueued /\ MaxQueued \in Nat
      BY <1>1, InputAssumption DEF TypeOK, InputAssumption
    <3> QED
      BY <3>1, <3>2 DEF Event
  <2>2. guest' \subseteq Keys
    BY <1>1, <1>2, <2>1 DEF TypeOK
  <2> QED
    BY <1>1, <1>2, <1>3, <2>1, <2>2 DEF TypeOK, UnderWay, Event
<1>5. \A k : WillBeDown(k)' <=> WillBeDown(k)
  BY <1>1, <1>3, WillLemma
<1>6. NoStuckKey'
  BY <1>1, <1>2, <1>5, HoldingLemma DEF KeysInv, NoStuckKey
<1>7. HeldIsDown'
  BY <1>1, <1>2, <1>5 DEF KeysInv, HeldIsDown, Exclusive
<1>8. ShiftsRight'
  <2> SUFFICES ASSUME ~dropped, LShift \notin ControlKeys, NEW i \in 1 .. Len(Sent'), Sent'[i].down
               PROVE  /\ Sent'[i].meant = "shift" => DownAfter(LShift, i - 1, Sent', guest')
                      /\ Sent'[i].meant = "plain" => ~DownAfter(LShift, i - 1, Sent', guest')
    BY <1>2 DEF ShiftsRight
  <2>1. i + 1 \in 1 .. Len(Sent) /\ Sent'[i] = Sent[i + 1] /\ (i + 1) - 1 = (i - 1) + 1
        /\ i - 1 \in 0 .. Len(Sent')
    BY <1>3
  <2>2. DownAfter(LShift, i - 1, Sent', guest') <=> DownAfter(LShift, (i + 1) - 1, Sent, guest)
    BY <1>3, <2>1
  <2> QED
    BY <1>1, <2>1, <2>2 DEF KeysInv, ShiftsRight
<1> QED
  BY <1>1, <1>2, <1>4, <1>6, <1>7, <1>8 DEF InputInv, KeysInv

LEMMA InputInit == Init => InputInv
<1> HAVE Init
<1>1. TypeOK
  <2>1. <<>> \in Seq(Event) /\ Len(<<>>) = 0 /\ MaxQueued \in Nat /\ MaxInputs \in Nat
    BY SendsNothing, InputAssumption DEF InputAssumption
  <2>2. 0 \in 0 .. MaxInputs /\ 0 <= MaxQueued
    BY <2>1
  <2>3. held \in [Controls -> SUBSET ControlKeys] /\ \A c \in Controls : held[c] \subseteq KeysOf(c)
    BY DEF Init
  <2> QED
    BY <2>1, <2>2, <2>3 DEF Init, TypeOK, Event
<1>2. queue = <<>> /\ pushes = <<>> /\ guest = {} /\ UnderWay /\ taps = 0 /\ inputs = 0
  BY <1>1, TypeUnderWay DEF Init
<1>3. Len(Sent) = 0
  BY <1>2, SentLemma
<1>4. \A k : ~WillBeDown(k)
  BY <1>2, <1>3, WillLemma DEF DownAfter, PressedLast
<1>5. KeysInv
  BY <1>3, <1>4 DEF KeysInv, NoStuckKey, HeldIsDown, ShiftsRight, Init
<1> QED
  BY <1>1, <1>2, <1>5 DEF InputInv

LEMMA InputStep == InputInv /\ [Next]_vars => InputInv'
<1> SUFFICES ASSUME InputInv, [Next]_vars PROVE InputInv'
  OBVIOUS
<1>1. CASE User
  <2>1. ASSUME NEW b \in DOMAIN Buttons, Press(b) \/ Release(b)
        PROVE  InputInv'
    BY <1>1, <2>1, ButtonStep
  <2>2. (\E s \in Sectors : Drag(s)) \/ Center => InputInv'
    BY <1>1, PadStep
  <2>3. TapStick => InputInv'
    BY <1>1, TapStep
  <2>4. ToggleOverlay \/ (\E c \in Controls : Cancel(c)) \/ ToggleMode => InputInv'
    BY <1>1, SilentStep
  <2>5. Type => InputInv'
    BY <1>1, TypeStep
  <2> QED
    BY <1>1, <2>1, <2>2, <2>3, <2>4, <2>5 DEF User, Touch
<1>2. CASE (TapRelease \/ PushEvent \/ Poll) /\ UNCHANGED inputs
  <2>1. CASE TapRelease /\ UNCHANGED inputs
    BY <2>1, TapStep
  <2>2. CASE (PushEvent \/ Poll) /\ UNCHANGED inputs
    BY <2>2, PushStep, PollStep
  <2> QED
    BY <1>2, <2>1, <2>2
<1>3. CASE UNCHANGED vars
  <2>1. UNCHANGED <<touch, held, taps, shown, fn, alt, ctrl, pushes, queue, guest, dropped,
                    inputs, orphaned>>
    BY <1>3 DEF vars, overlay, modes, events
  <2>2. TypeOK'
    BY <2>1 DEF InputInv, TypeOK
  <2>3. Sent' = Sent /\ UnderWay /\ UnderWay'
    BY <2>1, TypeUnderWay DEF Sent, UnderWay, InputInv
  <2>4. \A k : WillBeDown(k)' <=> WillBeDown(k)
    BY <2>1, <2>3, WillLemma
  <2>5. NoStuckKey'
    BY <2>1, <2>4, HoldingLemma DEF InputInv, KeysInv, NoStuckKey
  <2>6. HeldIsDown'
    BY <2>1, <2>4 DEF InputInv, KeysInv, HeldIsDown, Exclusive
  <2>7. ShiftsRight'
    BY <2>1, <2>3 DEF InputInv, KeysInv, ShiftsRight
  <2> QED
    BY <2>1, <2>2, <2>5, <2>6, <2>7 DEF InputInv, KeysInv
<1> QED
  BY <1>1, <1>2, <1>3 DEF Next

\* No key sticks: what stays down for the guest is held by a control or about to be let go,
\* unless a view was taken away while it held a key, or SDL's queue was full.
THEOREM NoKeySticks == Spec => []NoStuckKey
<1>1. InputInv => NoStuckKey
  BY DEF InputInv, KeysInv
<1> QED
  BY <1>1, InputInit, InputStep, PTL DEF Spec

\* The types, and that a key which a control holds for itself is down for the guest, or on
\* its way there.
THEOREM HeldKeysAreDown == Spec => []KeysTrue
<1>1. InputInv => KeysTrue
  BY DEF InputInv, KeysInv, KeysTrue
<1> QED
  BY <1>1, InputInit, InputStep, PTL DEF Spec

\* Shift is down for a shifted character and up for a plain one, wherever DOSBox empties the
\* queue between the events of dosbox_inject_char.
THEOREM ShiftAround == Spec => ShiftIsRight
<1>1. ASSUME InputInv, Poll, Head(queue).down, ~dropped, LShift \notin ControlKeys
      PROVE  /\ Head(queue).meant = "shift" => LShift \in guest
             /\ Head(queue).meant = "plain" => LShift \notin guest
  <2>1. Sent[1] = Head(queue) /\ 1 \in 1 .. Len(Sent)
    BY <1>1, TypeUnderWay, PollLemma DEF InputInv
  <2>2. DownAfter(LShift, 1 - 1, Sent, guest) <=> LShift \in guest
    <3>1. \A i : i \notin 1 .. 1 - 1
      OBVIOUS
    <3> QED
      BY <3>1 DEF DownAfter, PressedLast, Untouched
  <2> QED
    BY <1>1, <2>1, <2>2 DEF InputInv, KeysInv, ShiftsRight
<1>2. InputInv /\ [Next]_vars =>
        [(Poll /\ Head(queue).down /\ ~dropped /\ LShift \notin ControlKeys) =>
           /\ Head(queue).meant = "shift" => LShift \in guest
           /\ Head(queue).meant = "plain" => LShift \notin guest]_vars
  BY <1>1
<1> QED
  BY <1>2, InputInit, InputStep, PTL DEF Spec, ShiftIsRight
=============================================================================
