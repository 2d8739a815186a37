----------------------------- MODULE Fragments -----------------------------
(***************************************************************************)
(* IP fragments: what ip_input does with those the guest sends, and        *)
(* ip_output's own of packets that are too large for the guest.            *)
(*                                                                         *)
(* Lengths and offsets are in units of four bytes, so that offsets are     *)
(* even.  A datagram d is Size[d] units long and stands for its id,        *)
(* addresses and protocol, by which fragments find each other; the guest   *)
(* may send any piece of it, in any order and again.  A fragment is        *)
(* [off, data, more, mb]: ip_off, the units it carries, IP_MF (kept in     *)
(* ip_tos) and the geometry of its mbuf.                                   *)
(***************************************************************************)
EXTENDS Mbuf, FiniteSets, SequencesExt

CONSTANTS Originals, Size, \* the guest's datagrams, [Originals -> Nat]
          IPFRAGTTL,  \* ticks of ip_slowtimo: 60
          HLen,       \* an IP header
          LinkHdr,    \* IF_MAXLINKHDR
          if_mtu,
          IdMod,      \* 2^16
          MaxFragments, MaxPacket \* bounds: fragments sent, units of a packet from outside

VARIABLES
  ipq,        \* the queues of fragments, [d, ttl, frags] records: a set, as each has its own d
  used,       \* mbufs that ip_input and ip_reass hold
  received,   \* packets passed up to the protocols, [d, data, mb]
  ip_id,      \* the id of the next packet out
  out,        \* the packet last sent to the guest, [n, id, frags], frags being records
              \* [id, off, len, more, mb]
  count       \* fragments the guest has sent

vars == <<ipq, used, received, ip_id, out, count>>

Contents(d, off, n) == [i \in 1 .. n |-> <<d, off + i>>]
Whole(d) == Contents(d, 0, Size[d])
\* a frame as slirp_input has put it into an mbuf, its IP header skipped
Arrived(n) == [NewMbuf EXCEPT !.off = LinkHdr + HLen, !.len = n]
Frag(d, off, n) ==
  [off |-> off, data |-> Contents(d, off, n), more |-> off + n < Size[d], mb |-> Arrived(n)]
\* the pieces a sender makes: all but the last are of a multiple of eight bytes
Legal(d, off, n) ==
  /\ off % 2 = 0 /\ off + n <= Size[d] /\ (n % 2 = 0 \/ off + n = Size[d])
  /\ HLen + n <= if_mtu /\ n < Size[d]
Pieces(d) == {p \in (0 .. Size[d] - 1) \X (1 .. Size[d]) : Legal(d, p[1], p[2])}

Init ==
  /\ ipq = {} /\ used = 0 /\ received = {} /\ ip_id = 0
  /\ out = [n |-> 0, id |-> 0, frags |-> <<>>] /\ count = 0

-----------------------------------------------------------------------------
(* ip_reass.                                                               *)

End(f) == f.off + Len(f.data)
\* i units less at the head
Trim(f, i) ==
  [f EXCEPT !.off = @ + i, !.data = SubSeq(@, i + 1, Len(@)), !.mb = m_adj(@, i)]

\* the first fragment that begins after off, or the end of the list
After(frags, off) ==
  CHOOSE i \in 1 .. Len(frags) + 1 :
    /\ \A j \in 1 .. i - 1 : frags[j].off <= off
    /\ i <= Len(frags) => frags[i].off > off
\* the fragment before place i has some of the data already
Preceded(frags, i, f) ==
  IF i > 1 /\ End(frags[i - 1]) > f.off THEN Trim(f, End(frags[i - 1]) - f.off) ELSE f
\* those from place i on: the ones covered wholly go, the next is trimmed if f reaches into it
Covered(q, f) == End(f) > q.off /\ End(f) >= End(q)
Uncovered(frags, i, f) ==
  CHOOSE k \in i .. Len(frags) + 1 :
    /\ \A j \in i .. k - 1 : Covered(frags[j], f)
    /\ k <= Len(frags) => ~Covered(frags[k], f)
Succeeding(frags, i, f) ==
  LET k == Uncovered(frags, i, f)
  IN  [j \in 1 .. Len(frags) - k + 1 |->
        IF j = 1 /\ End(f) > frags[k].off THEN Trim(frags[k], End(f) - frags[k].off)
        ELSE frags[j + k - 1]]

\* mutant: the last fragment is not waited for
Complete_AnyEnd(frags) ==
  \A i \in DOMAIN frags : frags[i].off = IF i = 1 THEN 0 ELSE End(frags[i - 1])
Complete(frags) ==
  /\ \A i \in DOMAIN frags : frags[i].off = IF i = 1 THEN 0 ELSE End(frags[i - 1])
  /\ ~Last(frags).more

\* the fragments one after the other in the first one's mbuf, the header in front of them
Concatenated(frags) ==
  LET cat[i \in DOMAIN frags] ==
        IF i = 1 THEN [data |-> frags[1].data, mb |-> frags[1].mb]
        ELSE [data |-> cat[i - 1].data \o frags[i].data, mb |-> m_cat(cat[i - 1].mb, frags[i].mb)]
  IN  [cat[Len(frags)] EXCEPT !.mb.off = @ - HLen, !.mb.len = @ + HLen]

\* the queue's header is an mbuf of its own, the 0th
Mbufs(fp) == {fp.d} \X (0 .. Len(fp.frags))
MbufsOf(queues) == UNION {Mbufs(fp) : fp \in queues}
\* mutant: the header stays
ip_freef_Header(fp) == {fp.d} \X (1 .. Len(fp.frags))
ip_freef(fp) == Mbufs(fp)
Freed(queues) == Cardinality(UNION {ip_freef(fp) : fp \in queues})

NoQueue(d) == [d |-> d, ttl |-> IPFRAGTTL, frags |-> <<>>]
ip_reass(d, f, fp) ==
  LET i == After(fp.frags, f.off)
      new == Preceded(fp.frags, i, f)
  IN  IF i > 1 /\ End(fp.frags[i - 1]) >= End(f) THEN fp      \* dropfrag
      ELSE [fp EXCEPT !.frags = SubSeq(@, 1, i - 1) \o <<new>> \o Succeeding(@, i, new)]

-----------------------------------------------------------------------------
QueuesOf(d) == {fp \in ipq : fp.d = d}
QueueOf(d) == IF QueuesOf(d) = {} THEN NoQueue(d) ELSE CHOOSE fp \in QueuesOf(d) : TRUE
\* received is handed on: its mbuf is the protocol's
Receive(d, data, mb) == received' = received \cup {[d |-> d, data |-> data, mb |-> mb]}

ip_input(d, off, n) ==
  LET fp == ip_reass(d, Frag(d, off, n), QueueOf(d))
      had == Cardinality(MbufsOf(QueuesOf(d)))
      whole == Concatenated(fp.frags)
  IN  IF Complete(fp.frags)
      THEN /\ ipq' = ipq \ QueuesOf(d) /\ used' = used - had
           /\ Receive(d, whole.data, whole.mb)
      ELSE /\ ipq' = (ipq \ QueuesOf(d)) \cup {fp}
           /\ used' = used + Cardinality(Mbufs(fp)) - had
           /\ UNCHANGED received
FragmentArrives ==
  /\ count < MaxFragments /\ count' = count + 1
  /\ \E d \in Originals : \E p \in Pieces(d) : ip_input(d, p[1], p[2])
  /\ UNCHANGED <<ip_id, out>>
\* in one piece; with the reserved bit of ip_off set, the queue of its fragments goes
PacketArrives ==
  \E d \in Originals, reserved \in BOOLEAN :
    /\ count < MaxFragments /\ count' = count + 1
    /\ Receive(d, Whole(d), [Arrived(Size[d]) EXCEPT !.off = @ - HLen, !.len = @ + HLen])
    /\ HLen + Size[d] <= if_mtu
    /\ IF reserved
       THEN /\ ipq' = ipq \ QueuesOf(d) /\ used' = used - Freed(QueuesOf(d))
       ELSE UNCHANGED <<ipq, used>>
    /\ UNCHANGED <<ip_id, out>>
\* a packet that is short, has a wrong version, checksum or length, or no time to live
PacketDropped ==
  /\ count < MaxFragments /\ count' = count + 1
  /\ UNCHANGED <<ipq, used, received, ip_id, out>>

ip_slowtimo ==
  LET gone == {fp \in ipq : fp.ttl = 1}
  IN  /\ ipq # {}
      /\ ipq' = {[fp EXCEPT !.ttl = @ - 1] : fp \in ipq \ gone}
      /\ used' = used - Freed(gone)
      /\ UNCHANGED <<received, ip_id, out, count>>

-----------------------------------------------------------------------------
(* ip_output of a packet of n units and its header.                        *)

Share == ((if_mtu - HLen) \div 2) * 2
\* a fragment after the first: a new mbuf with a header, and n units copied to it
Copied(off, n, last) ==
  LET new == [NewMbuf EXCEPT !.off = LinkHdr, !.len = HLen]
  IN  [id |-> ip_id, off |-> off, len |-> n, more |-> ~last, fits |-> m_copyFits(new, n),
       mb |-> m_copy(new, n)]
\* the first is the packet itself, in an mbuf m, trimmed
Trimmed(m, n) ==
  [id |-> ip_id, off |-> 0, len |-> Share, more |-> TRUE, fits |-> TRUE,
   mb |-> m_adj(m, Share - n)]
Fragmented(m, n) ==
  LET k == (n + Share - 1) \div Share
  IN  [i \in 1 .. k |->
        IF i = 1 THEN Trimmed(m, n)
        ELSE LET off == (i - 1) * Share IN
             Copied(off, IF off + Share >= n THEN n - off ELSE Share, i = k)]
Packet(n) == m_inc([NewMbuf EXCEPT !.off = LinkHdr], HLen + n)
ip_output(n, df) ==
  LET m == [Packet(n) EXCEPT !.len = HLen + n]
      frags == Fragmented(m, n)
      Sends(list) == out' = [n |-> n, id |-> ip_id, frags |-> list]
  IN  /\ ip_id' = (ip_id + 1) % IdMod
      /\ IF HLen + n <= if_mtu
         THEN Sends(<<[id |-> ip_id, off |-> 0, len |-> n, more |-> FALSE, fits |-> TRUE,
                       mb |-> m]>>)
         ELSE IF df \/ Share < 2 \/ \E i \in DOMAIN frags : ~frags[i].fits
         THEN UNCHANGED out
         ELSE Sends(frags)
      /\ UNCHANGED <<ipq, used, received, count>>

Next ==
  \/ FragmentArrives \/ PacketArrives \/ PacketDropped
  \/ ip_slowtimo
  \/ \E n \in 1 .. MaxPacket, df \in BOOLEAN : ip_output(n, df)
Spec == Init /\ [][Next]_vars

-----------------------------------------------------------------------------
(* Properties.                                                             *)

\* A packet the protocols get is the whole datagram, each unit once and in its place, whatever
\* the order, repetition and overlap of the fragments; and its mbuf has room for all of it.
Reassembled ==
  \A p \in received : p.data = Whole(p.d) /\ InBounds(p.mb) /\ p.mb.len = HLen + Len(p.data)

\* Every fragment that is kept belongs to a queue and every mbuf to a fragment or a queue.
FragmentsAccounted == used = Cardinality(MbufsOf(ipq))

\* What ip_output sends is the packet, cut at multiples of eight bytes, each part with the
\* packet's id and no larger than the guest takes.
SentWhole ==
  LET frags == out.frags
  IN  frags # <<>> =>
        /\ \A i \in DOMAIN frags :
             /\ frags[i].off = (IF i = 1 THEN 0 ELSE frags[i - 1].off + frags[i - 1].len)
             /\ frags[i].off % 2 = 0 /\ HLen + frags[i].len <= if_mtu
             /\ frags[i].more = (i < Len(frags)) /\ frags[i].id = out.id
             /\ InBounds(frags[i].mb) /\ frags[i].mb.len = HLen + frags[i].len
        /\ Last(frags).off + Last(frags).len = out.n
=============================================================================
