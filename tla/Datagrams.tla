----------------------------- MODULE Datagrams -----------------------------
(***************************************************************************)
(* The guest's datagrams through libslirp: udp.c, udp6.c, the echo         *)
(* requests of ip_icmp.c, and socket.c's translation of addresses between  *)
(* the virtual network and the host's.                                     *)
(*                                                                         *)
(* The guest's addresses are "vhost", "vdns" and "net" (others of the      *)
(* virtual network), "bcast" (the network's broadcast, IPv4 only), "all"   *)
(* (255.255.255.255, or ff02::1) and "ext"; the host's side has "lo", the  *)
(* loopback, "dns", its name server, and the outside ones.  A socket is    *)
(* [af, port, to, dport, m, conn, expire, fwd]: the guest's family and     *)
(* port, so_faddr, so_fport, the number of the packet in so_m, whether it  *)
(* is SS_ISFCONNECTED, the ticks left (0: never), SS_HOSTFWD.  The lists    *)
(* are sets: a port has one socket, so that their order does not matter.   *)
(*                                                                         *)
(* Every packet the guest sends may be answered by the host it went to,    *)
(* or an error may come back, or nothing.                                  *)
(***************************************************************************)
EXTENDS Integers, FiniteSets

CONSTANTS Ports,      \* the guest's ports, pairs <<family, port>>
          Forwarded,  \* those of them that have a forward
          Dests,      \* destinations, pairs <<address, port>>
          SO_EXPIRE, SO_EXPIREFAST, \* 240 s and 10 s, in ticks
          MaxPackets  \* bound: packets the guest sends

VARIABLES
  udb, icmp,  \* the lists of sockets
  mbufs,      \* mbufs in use by these functions and sockets
  packetsOut,      \* packets the guest has sent
  pending,    \* what the host's side may answer: [n, af, port, to, ping] records
  misnamed,   \* history: answers whose source is not the address the guest had sent to
  quotes      \* history: errors, <<packet in error, packet quoted>>

vars == <<udb, icmp, mbufs, packetsOut, pending, misnamed, quotes>>

None == 0     \* so_m is NULL

-----------------------------------------------------------------------------
(* Addresses.                                                              *)

VirtualNet(af) == {"vhost", "vdns", "net"} \cup (IF af = 4 THEN {"bcast"} ELSE {})
Refused == "refused"

\* where a packet goes; known tells whether the host has a name server
sotranslate_out4(to, dport, known) ==
  IF to = "vdns" THEN IF dport = 53 /\ known THEN "dns" ELSE Refused
  ELSE IF to \in {"vhost", "all"} THEN "lo" ELSE to
sotranslate_out6(to, dport, known) ==
  IF to = "vdns" THEN IF dport = 53 /\ known THEN "dns" ELSE Refused
  ELSE IF to \in {"vhost", "net", "all"} THEN "lo" ELSE to
sotranslate_out(af, to, dport, known) ==
  IF af = 4 THEN sotranslate_out4(to, dport, known) ELSE sotranslate_out6(to, dport, known)

\* mutant: only answers of the host itself are translated
sotranslate_in_Loopback(so, from) ==
  IF so.to \in VirtualNet(so.af) /\ from = "lo" THEN so.to ELSE from
\* the source that the guest sees
sotranslate_in(so, from) ==
  IF so.to \notin VirtualNet(so.af) THEN from
  ELSE IF so.to = "bcast" THEN "vhost"
  ELSE IF from = "lo" \/ so.to # "vhost" THEN so.to ELSE from

\* the guest expects the answer from where it sent to; no one is called by a broadcast
Expected(to) == IF to = "bcast" THEN "vhost" ELSE to

-----------------------------------------------------------------------------
(* Sockets.                                                                *)

\* the socket of a port, if it has one
solookup(af, port) == {so \in udb : so.af = af /\ so.port = port}

udp_attach(af, port) ==
  [af |-> af, port |-> port, to |-> "net", dport |-> 0, m |-> None, conn |-> FALSE,
   expire |-> SO_EXPIRE, fwd |-> FALSE]
\* sotranslate_accept makes the bound address the virtual host's
udpx_listen(af, port) ==
  [udp_attach(af, port) EXCEPT !.to = "vhost", !.conn = TRUE, !.expire = 0, !.fwd = TRUE]

\* sofree frees so_m
Held(so) == IF so.m = None THEN 0 ELSE 1
Owned(list) == Cardinality({so \in list : so.m # None})

Forwards == {udpx_listen(p[1], p[2]) : p \in Forwarded}
Init ==
  /\ udb = Forwards /\ icmp = {} /\ mbufs = 0 /\ packetsOut = 0
  /\ pending = {} /\ misnamed = {} /\ quotes = {}

-----------------------------------------------------------------------------
(* What the guest sends.                                                   *)

\* an error about packet n quotes the mbuf it is given
icmp_forward_error(n, msrc) == quotes \cup {<<n, msrc>>}
icmp6_forward_error(n, m) == quotes \cup {<<n, m>>}
send_error(af, n, m) == IF af = 4 THEN icmp_forward_error(n, m) ELSE icmp6_forward_error(n, m)

\* mutant: an error will quote the socket's first packet
Sent_First(so, n) ==
  [so |-> [so EXCEPT !.m = IF @ = None THEN n ELSE @, !.conn = TRUE,
                     !.expire = IF @ > 0 THEN SO_EXPIRE ELSE 0],
   freed |-> Held(so)]
\* sosendto has sent it: the socket lives on, and the packet takes the place of the last one
Sent(so, n) ==
  [so |-> [so EXCEPT !.m = n, !.conn = TRUE, !.expire = IF @ > 0 THEN SO_EXPIRE ELSE 0],
   freed |-> Held(so)]

Ask(n, af, port, to, ping) == [n |-> n, af |-> af, port |-> port, to |-> to, ping |-> ping]
Datagram(af, port, dest, ttl, known, sent) ==
  LET found == solookup(af, port)
      n == packetsOut + 1
      new == IF found = {} THEN udp_attach(af, port) ELSE CHOOSE so \in found : TRUE
      so == [new EXCEPT !.to = dest[1], !.dport = dest[2]]
      goes == ttl > 1 /\ sent /\ sotranslate_out(af, dest[1], dest[2], known) # Refused
      done == IF goes THEN Sent(so, n) ELSE [so |-> so, freed |-> 1]
  IN  /\ packetsOut < MaxPackets /\ packetsOut' = n
      /\ udb' = (udb \ found) \cup {done.so}
      /\ mbufs' = mbufs + 1 - done.freed
      /\ pending' = IF goes THEN pending \cup {Ask(n, af, port, dest[1], FALSE)} ELSE pending
      /\ quotes' = IF goes THEN quotes ELSE send_error(af, n, n)
      /\ UNCHANGED <<icmp, misnamed>>
udp_input(port, dest, ttl, known, sent) == Datagram(4, port, dest, ttl, known, sent)
udp6_input(port, dest, ttl, known, sent) == Datagram(6, port, dest, ttl, known, sent)

\* mutant: a ping's socket has no time
icmp_send_ForEver(n, to) ==
  [udp_attach(4, 0) EXCEPT !.to = to, !.m = n, !.conn = TRUE, !.expire = 0]
icmp_send(n, to) == [udp_attach(4, 0) EXCEPT !.to = to, !.m = n, !.conn = TRUE]

\* an echo request: slirp answers for its own addresses; where it cannot be sent the socket
\* goes again
icmp_input(to, sent) ==
  LET n == packetsOut + 1
      own == to \in {"vhost", "vdns"}
  IN  /\ packetsOut < MaxPackets /\ packetsOut' = n
      /\ icmp' = IF ~own /\ sent THEN icmp \cup {icmp_send(n, to)} ELSE icmp
      /\ mbufs' = IF ~own /\ sent THEN mbufs + 1 ELSE mbufs
      /\ pending' = IF ~own /\ sent THEN pending \cup {Ask(n, 4, 0, to, TRUE)} ELSE pending
      /\ quotes' = IF ~own /\ ~sent THEN icmp_forward_error(n, n) ELSE quotes
      /\ UNCHANGED <<udb, misnamed>>

\* a packet with a wrong length or checksum, an ICMP message that is not an echo request, or
\* a packet for which no socket can be had
Dropped ==
  /\ packetsOut < MaxPackets /\ packetsOut' = packetsOut + 1
  /\ UNCHANGED <<udb, icmp, mbufs, pending, misnamed, quotes>>

-----------------------------------------------------------------------------
(* What comes back.                                                        *)

\* a socket with an answer stays for as long again, for a short time with a name server's
Refreshed(so) ==
  IF so.expire = 0 THEN so
  ELSE [so EXCEPT !.expire = IF so.dport = 53 THEN SO_EXPIREFAST ELSE SO_EXPIRE]

\* the host's side sees the packet's own destination, whatever the guest has sent since
Answerer(ask) ==
  LET dport == IF ask.to = "vdns" THEN 53 ELSE 0
  IN  IF ask.to = "bcast" THEN "ext" ELSE sotranslate_out(ask.af, ask.to, dport, TRUE)

Becomes(so, new) == udb' = (udb \ {so}) \cup {new}
UdpAnswer(ask) ==
  \E so \in solookup(ask.af, ask.port) :
    /\ ~ask.ping /\ so.conn
    /\ Becomes(so, Refreshed(so))
    /\ misnamed' = IF sotranslate_in(so, Answerer(ask)) = Expected(ask.to) THEN misnamed
                   ELSE misnamed \cup {<<ask.to, so.to>>}
    /\ pending' = pending \ {ask}
    /\ UNCHANGED <<icmp, mbufs, packetsOut, quotes>>
\* a caller of a forwarded port
ForwardCalled(so) ==
  /\ so.fwd /\ Becomes(so, Refreshed(so))
  /\ UNCHANGED <<icmp, mbufs, packetsOut, pending, misnamed, quotes>>
\* recvfrom fails: the error quotes so_m
UdpError(ask) ==
  \E so \in solookup(ask.af, ask.port) :
    /\ ~ask.ping /\ so.conn
    /\ quotes' = send_error(ask.af, ask.n, so.m)
    /\ pending' = pending \ {ask}
    /\ UNCHANGED <<udb, icmp, mbufs, packetsOut, misnamed>>

icmp_detach(n) == {so \in icmp : so.m # n}

\* the request itself goes back as the answer; an error quotes it, and sofree frees it
icmp_receive(ask, failed) ==
  /\ ask.ping /\ \E so \in icmp : so.m = ask.n
  /\ icmp' = icmp_detach(ask.n) /\ mbufs' = mbufs - 1
  /\ quotes' = IF failed THEN icmp_forward_error(ask.n, ask.n) ELSE quotes
  /\ pending' = pending \ {ask}
  /\ UNCHANGED <<udb, packetsOut, misnamed>>

\* slirp_pollfds_fill: sockets whose time has come; what comes for them later is lost
Ends(list) == {so \in list : so.expire = 1}
Expire ==
  LET Lost(ask) == IF ask.ping THEN \A so \in icmp' : so.m # ask.n
                   ELSE \A so \in udb' : so.af # ask.af \/ so.port # ask.port
  IN  /\ Ends(udb) \cup Ends(icmp) # {}
      /\ udb' = udb \ Ends(udb) /\ icmp' = icmp \ Ends(icmp)
      /\ mbufs' = mbufs - Owned(Ends(udb)) - Owned(Ends(icmp))
      /\ pending' = {ask \in pending : ~Lost(ask)}
      /\ UNCHANGED <<packetsOut, misnamed, quotes>>

Aged(list) == {[so EXCEPT !.expire = IF @ > 1 THEN @ - 1 ELSE @] : so \in list}
Tick ==
  /\ \E so \in udb \cup icmp : so.expire > 1
  /\ udb' = Aged(udb) /\ icmp' = Aged(icmp)
  /\ UNCHANGED <<mbufs, packetsOut, pending, misnamed, quotes>>

-----------------------------------------------------------------------------
GuestSends ==
  \/ \E p \in Ports, dest \in Dests, ttl \in 1 .. 2, known, sent \in BOOLEAN :
       \/ p[1] = 4 /\ udp_input(p[2], dest, ttl, known, sent)
       \/ p[1] = 6 /\ dest[1] # "bcast" /\ udp6_input(p[2], dest, ttl, known, sent)
  \/ \E dest \in Dests, sent \in BOOLEAN : icmp_input(dest[1], sent)
  \/ Dropped
Next ==
  \/ GuestSends
  \/ \E ask \in pending : UdpAnswer(ask) \/ UdpError(ask)
  \/ \E ask \in pending, failed \in BOOLEAN : icmp_receive(ask, failed)
  \/ \E so \in udb : ForwardCalled(so)
  \/ Expire
  \/ Tick
Spec == Init /\ [][Next]_vars
-----------------------------------------------------------------------------
(* Properties.                                                             *)

\* Every mbuf is either a socket's so_m or on its way back: none is leaked by a path that
\* drops a packet, replaces so_m or ends a socket, and none is freed twice.
MbufsOwned == mbufs = Owned(udb) + Owned(icmp)

\* An answer comes to the guest from the address it sent to, be it the virtual host's or name
\* server's, unless it has sent to another address from the same port since, or to everyone:
\* so_faddr is the last destination, and 255.255.255.255 and ff02::1 are not translated back.
AnswersNamed == \A e \in misnamed : e[1] # e[2] \/ e[1] = "all"

\* An error quotes the packet it is about, or a later one from the same port; never nothing.
ErrorsQuote == \A e \in quotes : e[2] >= e[1]

\* All sockets but the forwards' end at last, answered or not, when the guest stops sending.
SocketsExpire == <>[](icmp = {} /\ \A so \in udb : so.fwd)
=============================================================================
