------------------------------ MODULE IfQueue ------------------------------
(***************************************************************************)
(* libslirp's way out to the guest: the fast and the batch queue of if.c,  *)
(* a list of packets per session in each, the ARP table that says where a  *)
(* frame goes (arp_table.c, arp_input and if_encap of slirp.c), and the    *)
(* mbufs that the packets are.                                             *)
(*                                                                         *)
(* Everything here runs on one thread; the guest's ARP messages, the polls *)
(* and time come in any order.  A packet is a number, packets in the order *)
(* of if_output, and packets has its mbuf: [so, dst, due, dofree], its     *)
(* socket, the guest's address, its expiration_date and M_DOFREE.  due is  *)
(* Fresh until its address has been asked for, then the ticks it has left, *)
(* then 0: expired.                                                        *)
(***************************************************************************)
EXTENDS Mbuf, FiniteSets, SequencesExt

CONSTANTS Sockets, LowDelay,  \* sockets; those with IPTOS_LOWDELAY
          Nobody,             \* the socket NULL of a packet
          Guests, Macs,       \* addresses of guests, hardware addresses
          GuestOf,            \* the guest each socket serves
          TableSize,          \* ARP_TABLE_SIZE, 16 in the code
          HogQueued, HogSent, \* 6 and 3 in the code
          Life,               \* ticks until an asked packet expires: one second
          MaxPackets          \* bound: packets in a behaviour

ASSUME QueueAssumption ==
  /\ LowDelay \subseteq Sockets /\ Nobody \notin Sockets
  /\ GuestOf \in [Sockets -> Guests]
  /\ TableSize \in Nat \ {0} /\ Life \in Nat \ {0}
  /\ HogQueued \in Nat /\ HogSent \in Nat /\ MaxPackets \in Nat

VARIABLES
  fastq, batchq,   \* if_fastq and if_batchq: sequences of sessions, each a sequence of packets
  packets,         \* the mbufs of the packets in the queues
  alive,           \* the sockets that exist
  queued, nqueued, \* so_queued and so_nqueued
  arp, victim,     \* arp_table: <<address, hardware address>> pairs; next_victim
  pool,            \* the mbufs
  count,           \* packets so far
  last,            \* history: the newest packet of a socket that went out
  heard,           \* history: what each guest last told about itself
  hogs,            \* history: sockets that were downgraded
  disordered       \* history: sockets of which a packet overtook another

queues == <<fastq, batchq, packets>>
sockets == <<alive, queued, nqueued, last, hogs, disordered>>
table == <<arp, victim, heard>>
vars == <<queues, sockets, table, pool, count>>

Fresh == Life + 1
Unknown == <<>>
Packets == [so : Sockets \cup {Nobody}, dst : Guests, due : 0 .. Fresh, dofree : BOOLEAN]

Members(queue) == UNION {ToSet(queue[i]) : i \in DOMAIN queue}
All == fastq \o batchq
Queued == Members(All)

TypeOK ==
  /\ Queued = DOMAIN packets /\ Queued \subseteq 1 .. count /\ \A n \in Queued : packets[n] \in Packets
  /\ \A i \in DOMAIN All : All[i] # <<>>
  /\ alive \subseteq Sockets
  /\ queued \in [Sockets -> 0 .. MaxPackets] /\ nqueued \in [Sockets -> 0 .. MaxPackets]
  /\ arp \in [1 .. TableSize -> {Unknown} \cup Guests \X Macs]
  /\ victim \in 1 .. TableSize /\ pool \in Pools /\ count \in 0 .. MaxPackets
  /\ last \in [Sockets -> 0 .. MaxPackets] /\ heard \in [Guests -> {Unknown} \cup Macs]
  /\ hogs \subseteq Sockets /\ disordered \subseteq Sockets

Init ==
  /\ fastq = <<>> /\ batchq = <<>> /\ packets = <<>>
  /\ alive = {} /\ queued = [s \in Sockets |-> 0] /\ nqueued = [s \in Sockets |-> 0]
  /\ arp = [i \in 1 .. TableSize |-> Unknown] /\ victim = 1 /\ pool = m_init /\ count = 0
  /\ last = [s \in Sockets |-> 0] /\ heard = [g \in Guests |-> Unknown]
  /\ hogs = {} /\ disordered = {}

-----------------------------------------------------------------------------
(* ARP.                                                                    *)

Known(t, ip) == {i \in 1 .. TableSize : t[i] # Unknown /\ t[i][1] = ip}
arp_table_search(ip) == Known(arp, ip) # {}

\* an update of the guest's entry, or a new one over the next victim
arp_table_add(ip, mac) ==
  LET known == Known(arp, ip)
      slot == IF known # {} THEN CHOOSE i \in known : \A j \in known : i <= j ELSE victim
  IN  /\ arp' = [arp EXCEPT ![slot] = <<ip, mac>>]
      /\ victim' = IF known # {} THEN victim ELSE (victim % TableSize) + 1
      /\ heard' = [heard EXCEPT ![ip] = mac]
\* A guest announces itself, asks for slirp's own address, or answers.  Requests for
\* other addresses change nothing.
arp_input(ip, mac) ==
  /\ arp_table_add(ip, mac)
  /\ UNCHANGED <<queues, sockets, pool, count>>

-----------------------------------------------------------------------------
(* if_start.                                                               *)

\* the sessions that still have packets
Sessions(queue) ==
  LET kept[i \in 0 .. Len(queue)] ==
        IF i = 0 THEN <<>>
        ELSE IF queue[i] = <<>> THEN kept[i - 1] ELSE Append(kept[i - 1], queue[i])
  IN  kept[Len(queue)]

\* if_encap sends a packet whose guest is known; an expired one is not even tried
Goes(m, n) == m[n].due = 0 \/ arp_table_search(m[n].dst)
Leading(m, s) ==
  CHOOSE i \in 0 .. Len(s) :
    (\A j \in 1 .. i : Goes(m, s[j])) /\ (i < Len(s) => ~Goes(m, s[i + 1]))
\* mutant: the request starts no second
if_encap_NoDate(p) == p
\* the first request for the packet's guest starts its last second
if_encap(p) == [p EXCEPT !.due = IF @ = Fresh THEN Life ELSE @]

\* A session of the fast queue that is not the last sends all it can, the others one
\* packet each: when the last fast session is reached, the loop turns to the batch queue.
Leaves(m, s, eager) ==
  IF eager \/ Leading(m, s) = 0 THEN Leading(m, s) ELSE 1
Tries(m, s, eager) ==
  LET k == Leaves(m, s, eager) + 1
  IN  IF k \in DOMAIN s /\ (eager \/ k = 1) THEN {s[k]} ELSE {}

\* what goes of a queue whose first sessions are eager, what is tried in vain, what stays
Gone(m, queue, eager) ==
  UNION {{queue[i][j] : j \in 1 .. Leaves(m, queue[i], i <= eager)} : i \in DOMAIN queue}
Tried(m, queue, eager) == UNION {Tries(m, queue[i], i <= eager) : i \in DOMAIN queue}
Left(m, queue, eager) ==
  Sessions([i \in DOMAIN queue |->
              SubSeq(queue[i], Leaves(m, queue[i], i <= eager) + 1, Len(queue[i]))])

Before(queue, n, k) ==
  \E i, j \in DOMAIN queue : \E a \in DOMAIN queue[i], b \in DOMAIN queue[j] :
    queue[i][a] = n /\ queue[j][b] = k /\ (i < j \/ (i = j /\ a < b))

Starts(fast, batch, m, so_queued, so_nqueued, mbufs) ==
  LET eager == Len(fast) - 1
      gone == Gone(m, fast, eager) \cup Gone(m, batch, 0)
      tried == Tried(m, fast, eager) \cup Tried(m, batch, 0)
      Of(so) == {n \in gone : m[n].so = so}
      Out(so) == {n \in Of(so) : m[n].due # 0}
      dofree == Cardinality({n \in gone : m[n].dofree})
  IN  /\ fastq' = Left(m, fast, eager) /\ batchq' = Left(m, batch, 0)
      /\ packets' = [n \in DOMAIN m \ gone |-> IF n \in tried THEN if_encap(m[n]) ELSE m[n]]
      /\ queued' = [so \in Sockets |-> so_queued[so] - Cardinality(Of(so))]
      /\ nqueued' = [so \in Sockets |-> IF Of(so) # {} /\ queued'[so] = 0 THEN 0
                                        ELSE so_nqueued[so]]
      /\ pool' = m_freeAll(mbufs, dofree, Cardinality(gone) - dofree)
      /\ last' = [so \in Sockets |-> Max(Out(so) \cup {last[so]})]
      /\ disordered' = disordered \cup
           {so \in Sockets : \E n \in Out(so) :
              n < last[so] \/ \E k \in Out(so) : k < n /\ Before(fast \o batch, n, k)}

\* slirp_pollfds_poll ends with if_start
if_start ==
  /\ Starts(fastq, batchq, packets, queued, nqueued, pool)
  /\ UNCHANGED <<alive, table, count, hogs>>

-----------------------------------------------------------------------------
(* if_output.                                                              *)

InBatch(so) == {i \in DOMAIN batchq : packets[batchq[i][1]].so = so}

\* mutant: a new session each time
Enqueue_NoMatch(n, so) ==
  IF so \in LowDelay THEN <<Append(fastq, <<n>>), batchq>>
  ELSE <<fastq, Append(batchq, <<n>>)>>
\* the session on the batch queue, else the last one of the fast queue, else a new one
Enqueue(n, so) ==
  IF so # Nobody /\ InBatch(so) # {}
  THEN LET i == Max(InBatch(so)) IN <<fastq, [batchq EXCEPT ![i] = Append(@, n)]>>
  ELSE IF so \in LowDelay
  THEN IF fastq # <<>> /\ packets[Last(fastq)[1]].so = so
       THEN <<[fastq EXCEPT ![Len(fastq)] = Append(@, n)], batchq>>
       ELSE <<Append(fastq, <<n>>), batchq>>
  ELSE <<fastq, Append(batchq, <<n>>)>>

\* a session that queues much without a pause goes to the front of the batch queue, even
\* from the batch queue itself, as on_fastq is never cleared
Without(queue, n) ==
  Sessions([i \in DOMAIN queue |-> IF Last(queue[i]) = n THEN <<>> ELSE queue[i]])
Downgrade(q, n) ==
  LET session == CHOOSE s \in ToSet(q[1] \o q[2]) : Last(s) = n
  IN  <<Without(q[1], n), <<session>> \o Without(q[2], n)>>
Hogs(so) == nqueued[so] + 1 >= HogQueued /\ nqueued[so] - queued[so] >= HogSent

\* m_get, if_output and the if_start at its end
if_output(so, dst) ==
  LET n == count + 1
      p == [so |-> so, dst |-> dst, due |-> Fresh, dofree |-> DoFree(pool)]
      hog == so # Nobody /\ Hogs(so)
      q == IF hog THEN Downgrade(Enqueue(n, so), n) ELSE Enqueue(n, so)
      m == [k \in DOMAIN packets \cup {n} |-> IF k = n THEN p ELSE packets[k]]
      Plus(f) == IF so = Nobody THEN f ELSE [f EXCEPT ![so] = @ + 1]
  IN  /\ count < MaxPackets /\ count' = n
      /\ Starts(q[1], q[2], m, Plus(queued), Plus(nqueued), m_get(pool))
      /\ hogs' = IF hog THEN hogs \cup {so} ELSE hogs
      /\ UNCHANGED <<alive, table>>

-----------------------------------------------------------------------------
(* Sockets come and go; their packets stay, without a socket.              *)

socreate(so) ==
  /\ so \notin alive /\ alive' = alive \cup {so}
  /\ queued' = [queued EXCEPT ![so] = 0] /\ nqueued' = [nqueued EXCEPT ![so] = 0]
  /\ last' = [last EXCEPT ![so] = 0] /\ hogs' = hogs \ {so}
  /\ disordered' = disordered \ {so}
  /\ UNCHANGED <<queues, table, pool, count>>

\* the packets that forget the socket
\* mutant: only the first packet of each session
soqfree_HeadOnly(so, queue) ==
  {n \in Members(queue) : \E i \in DOMAIN queue : n = queue[i][1] /\ packets[n].so = so}
soqfree(so, queue) ==
  UNION {ToSet(queue[i]) : i \in {j \in DOMAIN queue : packets[queue[j][1]].so = so}}

sofree(so) ==
  /\ so \in alive /\ alive' = alive \ {so}
  /\ packets' = [n \in DOMAIN packets |->
                   IF n \in soqfree(so, fastq) \cup soqfree(so, batchq)
                   THEN [packets[n] EXCEPT !.so = Nobody] ELSE packets[n]]
  /\ UNCHANGED <<fastq, batchq, queued, nqueued, last, hogs, disordered, table, pool, count>>

\* time passes for all packets whose guest has been asked for
Tick ==
  /\ \E n \in Queued : packets[n].due \in 1 .. Life
  /\ packets' = [n \in DOMAIN packets |->
                   [packets[n] EXCEPT !.due = IF @ \in 1 .. Life THEN @ - 1 ELSE @]]
  /\ UNCHANGED <<fastq, batchq, sockets, table, pool, count>>

-----------------------------------------------------------------------------
Sends ==
  \/ \E so \in alive : if_output(so, GuestOf[so])
  \/ \E dst \in Guests : if_output(Nobody, dst)
Next ==
  \/ Sends
  \/ if_start
  \/ \E ip \in Guests, mac \in Macs : arp_input(ip, mac)
  \/ \E so \in Sockets : socreate(so) \/ sofree(so)
  \/ Tick
Spec == Init /\ [][Next]_vars
\* the emulator polls again and again, and time passes
FairSpec == Spec /\ WF_vars(if_start) /\ WF_vars(Tick)
-----------------------------------------------------------------------------
\* A packet's socket exists, and so_queued, which stops the polling of UDP sockets at
\* four, is the number of its packets in the queues: sofree, downgrades and expiry
\* notwithstanding.
SocketsAccounted ==
  \A so \in Sockets :
    /\ so \in {packets[n].so : n \in Queued} => so \in alive
    /\ so \in alive => /\ queued[so] = Cardinality({n \in Queued : packets[n].so = so})
                       /\ queued[so] <= nqueued[so]

\* No packet of a session overtakes another, unless it was downgraded from the fast
\* queue while an older list of it was left there.
SentInOrder == disordered \subseteq hogs \cap LowDelay

\* Every mbuf is free or queued, and at rest no more than MBUF_THRESH are kept.
MbufsAccounted ==
  /\ pool.alloced = pool.free + Cardinality(Queued)
  /\ pool.alloced - Cardinality({n \in Queued : packets[n].dofree}) <= MBUF_THRESH

\* Frames go where the guest last said it is (arp_table_add, if_encap).
ArpIsFresh ==
  \A i \in 1 .. TableSize : arp[i] # Unknown => heard[arp[i][1]] = arp[i][2]

\* Nothing is lost count of: neither packets, nor mbufs, nor where the guests are.
QueuesAccounted == TypeOK /\ SocketsAccounted /\ MbufsAccounted /\ ArpIsFresh

\* The queues drain: every packet is sent or expires, whether the guest answers or not.
QueuesDrain == []<>(Queued = {})
=============================================================================
