-------------------------------- MODULE Ndp --------------------------------
(***************************************************************************)
(* IPv6 neighbours and routers: ip6_input and ip6_output, ICMPv6 of        *)
(* ip6_icmp.c, ndp_table.c, DHCPv6's information requests, and the timer   *)
(* of the glue that advertises the router.  The emulator leaves IPv6 off,  *)
(* in6_enabled is then FALSE and every packet is dropped.                  *)
(*                                                                         *)
(* The guest's addresses are Guests, of whom any may use any of the MACs;  *)
(* "zero", "host" and "multicast" are the others.  A packet to an address  *)
(* without an entry waits, asked for once, until its time is over.         *)
(***************************************************************************)
EXTENDS Integers, Sequences, FiniteSets, SequencesExt

CONSTANTS Guests, Macs,
          NDP_TABLE_SIZE,
          Interval,   \* the longest time between advertisements, in ticks
          EXPIRY      \* 1 s

VARIABLES
  in6_enabled,
  table,      \* ndp_table: the entries, [ip, mac] records or Empty
  next_victim,
  guest,      \* guest_in6_addr
  waiting,    \* packets to the guest without an address yet, [ip, left] records
  sent,       \* what the guest was last sent
  timer,      \* the glue's ra_timer: ticks to its expiry, Off or NoTimer
  ra,         \* alternates with each advertisement
  heard       \* history: the MAC each address was last heard from

vars == <<in6_enabled, table, next_victim, guest, waiting, sent, timer, ra, heard>>

Empty == [ip |-> "zero", mac |-> "zero"]
Rows == 1 .. NDP_TABLE_SIZE
NoTimer == -2
Off == -1

Nothing == [kind |-> "nothing", to |-> "zero", target |-> "zero", options |-> {}]
Msg(kind, to, target, options) == [kind |-> kind, to |-> to, target |-> target, options |-> options]

\* icmp6_post_init
Init ==
  /\ in6_enabled \in BOOLEAN
  /\ table = [i \in Rows |-> Empty] /\ next_victim = 1 /\ guest = "zero"
  /\ waiting = {} /\ sent = Nothing /\ ra = 0
  /\ IF in6_enabled THEN timer \in 1 .. Interval ELSE timer = NoTimer
  /\ heard = [g \in Guests |-> "zero"]

-----------------------------------------------------------------------------
(* ndp_table.c.                                                            *)

HasRow(ip) == \E i \in Rows : table[i].ip = ip
ndp_table_search(ip) == ip \in {"zero", "multicast"} \/ HasRow(ip)
MacOf(ip) == table[CHOOSE i \in Rows : table[i].ip = ip /\ \A j \in Rows : table[j].ip = ip => i <= j].mac

\* mutant: an entry keeps its MAC
ndp_table_add_Kept(ip, mac) ==
  IF ip \notin Guests \/ HasRow(ip) THEN UNCHANGED <<table, next_victim, guest>>
  ELSE /\ guest' = IF guest = "zero" THEN ip ELSE guest
       /\ table' = [table EXCEPT ![next_victim] = [ip |-> ip, mac |-> mac]]
       /\ next_victim' = (next_victim % NDP_TABLE_SIZE) + 1
\* the first address of all is the guest's; the oldest entry makes room
ndp_table_add(ip, mac) ==
  IF ip \notin Guests THEN UNCHANGED <<table, next_victim, guest>>
  ELSE IF HasRow(ip)
  THEN /\ table' = [i \in Rows |-> IF table[i].ip = ip THEN [ip |-> ip, mac |-> mac] ELSE table[i]]
       /\ UNCHANGED <<next_victim, guest>>
  ELSE /\ guest' = IF guest = "zero" THEN ip ELSE guest
       /\ table' = [table EXCEPT ![next_victim] = [ip |-> ip, mac |-> mac]]
       /\ next_victim' = (next_victim % NDP_TABLE_SIZE) + 1

Hear(ip, mac) ==
  /\ ndp_table_add(ip, mac)
  /\ heard' = IF ip \in Guests THEN [heard EXCEPT ![ip] = mac] ELSE heard

-----------------------------------------------------------------------------
(* What slirp sends.                                                       *)

Says(msg) == sent' = msg
\* the host's own name server is announced, if it has one
ndp_send_ra(dns) ==
  /\ Says(Msg("RA", "multicast", "host", {"source", "prefix"} \cup (IF dns THEN {"rdnss"} ELSE {})))
  /\ ra' = 1 - ra
ndp_send_na(src, target) ==
  Says(Msg("NA", IF src = "zero" THEN "multicast" ELSE src, target,
           IF src = "zero" THEN {"override"} ELSE {"override", "solicited"}))
ndp_send_ns(ip) == Says(Msg("NS", "multicast", ip, {"source"}))
icmp6_send_echoreply(src) == Says(Msg("echo reply", src, "host", {}))

\* mutant: the timer is not set again
ra_timer_handler_Once(dns) == ndp_send_ra(dns) /\ timer' = Off
ra_timer_handler(dns) == ndp_send_ra(dns) /\ timer' \in 1 .. Interval

-----------------------------------------------------------------------------
(* What the guest sends: valid when its hop limit, code and length are.    *)

TableUnchanged == UNCHANGED <<table, next_victim, guest, heard>>
RouterSolicitation(src, mac, valid) ==
  IF valid THEN Hear(src, mac) /\ \E dns \in BOOLEAN : ndp_send_ra(dns)
  ELSE TableUnchanged /\ UNCHANGED <<sent, ra>>
NeighborSolicitation(src, mac, target, valid) ==
  /\ IF valid /\ target = "host" THEN Hear(src, mac) /\ ndp_send_na(src, target)
     ELSE TableUnchanged /\ UNCHANGED sent
  /\ UNCHANGED ra
NeighborAdvertisement(src, mac, valid) ==
  /\ IF valid THEN Hear(src, mac) ELSE TableUnchanged
  /\ UNCHANGED <<sent, ra>>
\* the guest's own advertisements of routers and its redirections are reported, no more
ndp_input(type, src, mac, target, valid) ==
  \/ type = "RS" /\ RouterSolicitation(src, mac, valid)
  \/ type = "NS" /\ NeighborSolicitation(src, mac, target, valid)
  \/ type = "NA" /\ NeighborAdvertisement(src, mac, valid)
  \/ type \in {"RA", "redirect"} /\ TableUnchanged /\ UNCHANGED <<sent, ra>>
EchoRequest(src, dst) ==
  /\ IF dst = "host" THEN icmp6_send_echoreply(src) ELSE UNCHANGED sent
  /\ TableUnchanged /\ UNCHANGED ra
icmp6_input ==
  /\ in6_enabled
  /\ \E src \in Guests \cup {"zero"}, mac \in Macs, target \in {"host", "other"}, valid \in BOOLEAN :
       \/ \E type \in {"RS", "NS", "NA", "RA", "redirect"} : ndp_input(type, src, mac, target, valid)
       \/ EchoRequest(src, target)
  /\ UNCHANGED <<in6_enabled, waiting, timer>>

\* options of an information request: "client" or a list of those wanted, or a bad one
dhcpv6_parse_info_request(options) ==
  IF "bad" \in options THEN {} ELSE options \cap {"client", "dns", "boot"}
dhcpv6_info_request(src, options) ==
  /\ in6_enabled
  /\ IF "bad" \in options THEN UNCHANGED sent
     ELSE Says(Msg("DHCPv6 reply", src, "host", dhcpv6_parse_info_request(options)))
  /\ TableUnchanged /\ UNCHANGED <<in6_enabled, waiting, timer, ra>>

\* too large for the interface, or its hops used up; or dropped without a word
ip6_input(src, answered) ==
  /\ IF in6_enabled /\ answered /\ src # "zero" THEN Says(Msg("error", src, "host", {})) ELSE UNCHANGED sent
  /\ TableUnchanged /\ UNCHANGED <<in6_enabled, waiting, timer, ra>>

-----------------------------------------------------------------------------
(* Packets to the guest, and time.                                         *)

\* if_encap6: a packet goes to the MAC in the table, or asks for one and waits; bound: one
\* packet waits for each address
PacketFor(ip) ==
  /\ in6_enabled
  /\ IF ndp_table_search(ip)
     THEN Says(Msg("packet", MacOf(ip), ip, {})) /\ UNCHANGED waiting
     ELSE ndp_send_ns(ip) /\ waiting' = waiting \cup {[ip |-> ip, left |-> EXPIRY]}
  /\ \A p \in waiting : p.ip # ip
  /\ TableUnchanged /\ UNCHANGED <<in6_enabled, timer, ra>>
Deliver(p) ==
  /\ p \in waiting /\ ndp_table_search(p.ip)
  /\ waiting' = waiting \ {p} /\ Says(Msg("packet", MacOf(p.ip), p.ip, {}))
  /\ TableUnchanged /\ UNCHANGED <<in6_enabled, timer, ra>>
Expire(p) ==
  /\ p \in waiting /\ p.left = 0 /\ waiting' = waiting \ {p}
  /\ TableUnchanged /\ UNCHANGED <<in6_enabled, sent, timer, ra>>

\* the glue's TimersRun: a timer that has expired is off before its function is called
TimersRun ==
  /\ timer = 0 /\ \E dns \in BOOLEAN : ra_timer_handler(dns)
  /\ TableUnchanged /\ UNCHANGED <<in6_enabled, waiting>>
Tick ==
  /\ timer > 0 /\ timer' = timer - 1
  /\ waiting' = {[p EXCEPT !.left = IF @ > 0 THEN @ - 1 ELSE 0] : p \in waiting}
  /\ TableUnchanged /\ UNCHANGED <<in6_enabled, sent, ra>>

Next ==
  \/ icmp6_input
  \/ \E src \in Guests, options \in SUBSET {"client", "dns", "boot", "bad"} : dhcpv6_info_request(src, options)
  \/ \E src \in Guests \cup {"zero"}, answered \in BOOLEAN : ip6_input(src, answered)
  \/ \E ip \in Guests : PacketFor(ip)
  \/ \E p \in waiting : Deliver(p) \/ Expire(p)
  \/ TimersRun
  \/ Tick
Spec == Init /\ [][Next]_vars

-----------------------------------------------------------------------------
(* Properties.                                                             *)

\* Every address in the table is there once, with the MAC it was last heard from, so that a
\* packet to it goes there.
NeighborsTrue ==
  \A i \in Rows : table[i] # Empty =>
    /\ table[i].mac = heard[table[i].ip]
    /\ \A j \in Rows : table[j].ip = table[i].ip => i = j

\* With IPv6 on, the router is advertised again and again.
RouterAdvertised == in6_enabled => []<><<ra' # ra>>_vars
=============================================================================
