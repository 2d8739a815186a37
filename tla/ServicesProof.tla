---------------------------- MODULE ServicesProof ----------------------------
(***************************************************************************)
(* Theorems about the services of the virtual network, for any addresses,  *)
(* ports, clients, files and sizes of tables; at the end, those about IP   *)
(* fragments and about what the services hold.                             *)
(***************************************************************************)
EXTENDS Services, FiniteSetTheorems, WellFoundedInduction, TLAPS

-----------------------------------------------------------------------------
(* DHCP.                                                                   *)

TypeInv ==
  /\ clients \in [Addrs -> Macs \cup {NoMac}]
  /\ arp \in [Addrs -> Macs \cup {NoMac}]
  /\ given \subseteq [addr : Addrs, mac : Macs]

\* who has been given an address has its slot, and the guest's packets go there
SlotsStand == \A g \in given : arp[g.addr] = g.mac /\ clients[g.addr] = g.mac

\* First finds one of the slots, when there is one.
LEMMA FirstIsOne ==
  ASSUME NEW slots \in SUBSET Addrs
  PROVE  First(slots) = NoAddr \/ First(slots) \in slots
<1>1. CASE slots = {} BY <1>1 DEF First
<1>2. CASE slots # {}
  <2>1. slots \subseteq Nat BY BootpAssumption DEF Addrs
  <2>2. PICK i \in slots : \A j \in slots : ~(<<j, i>> \in OpToRel(<, Nat))
    BY <1>2, <2>1, WFMin, NatLessThanWellFounded
  <2>3. ASSUME NEW j \in slots PROVE i <= j
    <3>1. j < i => <<j, i>> \in OpToRel(<, Nat) BY <2>1, Zenon DEF OpToRel
    <3>2. ~(j < i) BY <2>2, <3>1
    <3> QED BY <2>1, <3>2
  <2> QED BY <1>2, <2>3 DEF First
<1> QED BY <1>1, <1>2

\* The slot of an answer is free, or the client's own.
LEMMA SlotIsFree ==
  ASSUME TypeInv, NEW type, NEW addr, NEW mac \in Macs, SlotFor(type, addr, mac) # NoAddr
  PROVE  SlotFor(type, addr, mac) \in Addrs /\ clients[SlotFor(type, addr, mac)] \in {NoMac, mac}
<1> DEFINE Free(i) == i = NoAddr \/ (i \in Addrs /\ clients[i] \in {NoMac, mac})
<1>1. Free(get_new_addr(mac))
  BY FirstIsOne, {i \in Addrs : clients[i] \in {NoMac, mac}} \in SUBSET Addrs DEF get_new_addr
<1>2. Free(find_addr(mac))
  BY FirstIsOne, {i \in Addrs : clients[i] = mac} \in SUBSET Addrs DEF find_addr
<1>3. Free(request_addr(addr, mac)) BY DEF request_addr
<1> QED BY <1>1, <1>2, <1>3 DEF SlotFor

\* A slot that is free or the client's own can be given without taking anyone's.
LEMMA GivenKeeps ==
  ASSUME TypeInv, SlotsStand, NEW slot \in Addrs, NEW mac \in Macs,
         clients[slot] \in {NoMac, mac}, Given(slot, mac)
  PROVE  TypeInv' /\ SlotsStand'
<1>1. TypeInv' BY DEF Given, TypeInv, arp_table_add
<1>2. SlotsStand'
  <2> SUFFICES ASSUME NEW g \in given' PROVE arp'[g.addr] = g.mac /\ clients'[g.addr] = g.mac
    BY DEF SlotsStand
  <2>1. CASE g = [addr |-> slot, mac |-> mac] BY <2>1 DEF Given, TypeInv, arp_table_add
  <2>2. CASE g \in given
    <3>1. g.addr \in Addrs /\ g.mac \in Macs /\ clients[g.addr] = g.mac /\ arp[g.addr] = g.mac
      BY <2>2 DEF TypeInv, SlotsStand
    <3>2. g.addr = slot => g.mac = mac BY <3>1, BootpAssumption DEF NoMac
    <3> QED BY <3>1, <3>2 DEF Given, TypeInv, arp_table_add
  <2> QED BY <2>1, <2>2 DEF Given
<1> QED BY <1>1, <1>2

\* A request leaves the table as it is, refuses, or gives a slot.
LEMMA RequestKeeps ==
  ASSUME TypeInv, SlotsStand, NEW req \in Requests, bootp_input(req)
  PROVE  TypeInv' /\ SlotsStand'
<1>1. CASE UNCHANGED <<clients, arp, given>> BY <1>1 DEF TypeInv, SlotsStand
<1>2. ASSUME NEW asked, Nak(req.chaddr, asked) PROVE TypeInv' /\ SlotsStand'
  <2>1. Everyone \notin Addrs BY BootpAssumption DEF Everyone, Addrs
  <2> QED BY <1>1, <1>2, <2>1 DEF Nak, arp_table_add
<1>3. ASSUME NEW type, NEW addr, SlotFor(type, addr, req.chaddr) # NoAddr,
             Given(SlotFor(type, addr, req.chaddr), req.chaddr)
      PROVE  TypeInv' /\ SlotsStand'
  <2>1. req.chaddr \in Macs BY DEF Requests
  <2> QED BY <1>3, <2>1, SlotIsFree, GivenKeeps
<1> QED BY <1>1, <1>2, <1>3 DEF bootp_input, bootp_reply

\* No address ever belongs to two clients, whatever was asked, offered or acknowledged in
\* whatever order (bootp_reply, bootp.c).
THEOREM LeasesAreUnique == Spec => []LeasesUnique
<1>1. Init => TypeInv /\ SlotsStand BY DEF Init, TypeInv, SlotsStand
<1>2. TypeInv /\ SlotsStand /\ [Next]_vars => TypeInv' /\ SlotsStand'
  <2> SUFFICES ASSUME TypeInv, SlotsStand, [Next]_vars PROVE TypeInv' /\ SlotsStand'
    OBVIOUS
  <2>1. CASE UNCHANGED vars BY <2>1 DEF vars, TypeInv, SlotsStand
  <2> QED BY <2>1, RequestKeeps DEF Next
<1>3. TypeInv /\ SlotsStand => LeasesUnique BY DEF SlotsStand, LeasesUnique
<1> QED BY <1>1, <1>2, <1>3, PTL DEF Spec

-----------------------------------------------------------------------------
(* The services side by side.                                              *)

\* The services that do not move do not change.
LEMMA OneMoves ==
  ASSUME [AllNext]_allVars
  PROVE  /\ UNCHANGED vars \/ Next
         /\ UNCHANGED ndpVars \/ N!Next
         /\ UNCHANGED datagramVars \/ D!Next
         /\ UNCHANGED tftpVars \/ T!Next
  BY DEF allVars, AllNext, BootpMoves, FragmentsMove, TftpMoves, InNdp, InDatagrams

-----------------------------------------------------------------------------
(* Neighbours.                                                             *)

\* The rows are empty or a guest's, at the MAC it was last heard from, and no guest has two.
Rowed ==
  /\ heard \in [Guests -> Macs \cup {"zero"}] /\ next_victim \in N!Rows
  /\ table \in [N!Rows -> [ip : Guests \cup {"zero"}, mac : Macs \cup {"zero"}]]
  /\ \A i \in N!Rows : table[i].ip = "zero" => table[i] = N!Empty
  /\ \A i \in N!Rows : table[i].ip \in Guests => table[i].mac = heard[table[i].ip]
  /\ \A i, j \in N!Rows : table[i].ip = table[j].ip /\ table[i].ip # "zero" => i = j
\* An announcement leaves the table as it should be.
LEMMA HearKeeps ==
  ASSUME Rowed, NEW ip, NEW mac \in Macs, N!Hear(ip, mac)
  PROVE  Rowed'
<1>1. CASE ip \notin Guests
  <2>1. UNCHANGED <<table, next_victim, heard>> BY <1>1 DEF N!Hear, N!ndp_table_add
  <2> QED BY <2>1 DEF Rowed, N!Rows, N!Empty
<1>2. CASE ip \in Guests
  <2> DEFINE row == [ip |-> ip, mac |-> mac]
  <2>1. ip # "zero" BY <1>2, NdpAssumption
  <2>2. heard' = [heard EXCEPT ![ip] = mac] BY <1>2 DEF N!Hear
  <2>3. CASE N!HasRow(ip)
    <3>1. /\ table' = [i \in N!Rows |-> IF table[i].ip = ip THEN row ELSE table[i]]
          /\ next_victim' = next_victim
      BY <1>2, <2>3 DEF N!Hear, N!ndp_table_add
    <3> QED BY <1>2, <2>1, <2>2, <3>1 DEF Rowed, N!Rows, N!Empty
  <2>4. CASE ~N!HasRow(ip)
    <3>1. /\ table' = [table EXCEPT ![next_victim] = row]
          /\ next_victim' = (next_victim % NDP_TABLE_SIZE) + 1
      BY <1>2, <2>4 DEF N!Hear, N!ndp_table_add
    <3>2. next_victim' \in N!Rows BY <3>1, NdpAssumption DEF Rowed, N!Rows
    <3>3. \A i \in N!Rows : table[i].ip # ip BY <2>4 DEF N!HasRow
    <3>4. table' \in [N!Rows -> [ip : Guests \cup {"zero"}, mac : Macs \cup {"zero"}]]
      BY <1>2, <3>1 DEF Rowed
    <3>5. \A i \in N!Rows : table'[i] = IF i = next_victim THEN row ELSE table[i]
      BY <3>1 DEF Rowed
    <3> QED BY <1>2, <2>1, <2>2, <3>2, <3>3, <3>4, <3>5 DEF Rowed, N!Rows, N!Empty
  <2> QED BY <2>3, <2>4
<1> QED BY <1>1, <1>2

\* A step leaves the table alone, or a guest is heard.
LEMMA HeardOrNot ==
  ASSUME N!Next
  PROVE  UNCHANGED <<table, next_victim, heard>> \/ \E ip, mac : mac \in Macs /\ N!Hear(ip, mac)
<1> DEFINE Kept == UNCHANGED <<table, next_victim, heard>>
           Heard == \E ip, mac : mac \in Macs /\ N!Hear(ip, mac)
<1>1. N!TableUnchanged => Kept BY DEF N!TableUnchanged
<1>2. CASE N!icmp6_input
  <2>1. PICK src \in Guests \cup {"zero"}, mac \in Macs, target \in {"host", "other"},
             valid \in BOOLEAN :
          \/ \E type \in {"RS", "NS", "NA", "RA", "redirect"} : N!ndp_input(type, src, mac, target, valid)
          \/ N!EchoRequest(src, target)
    BY <1>2, Zenon DEF N!icmp6_input
  <2>2. ASSUME NEW type, N!ndp_input(type, src, mac, target, valid)
        PROVE  N!TableUnchanged \/ N!Hear(src, mac)
    BY <2>2 DEF N!ndp_input, N!RouterSolicitation, N!NeighborSolicitation, N!NeighborAdvertisement
  <2>3. N!EchoRequest(src, target) => N!TableUnchanged BY DEF N!EchoRequest
  <2>4. N!TableUnchanged \/ N!Hear(src, mac) BY <2>1, <2>2, <2>3
  <2>5. N!Hear(src, mac) => Heard OBVIOUS
  <2> HIDE DEF Kept, Heard
  <2>6. Kept \/ Heard BY <1>1, <2>4, <2>5
  <2> QED BY <2>6 DEF Kept, Heard
<1>3. CASE ~N!icmp6_input
  <2>1. N!TableUnchanged
    BY <1>3 DEF N!Next, N!dhcpv6_info_request, N!ip6_input, N!PacketFor, N!Deliver, N!Expire,
      N!TimersRun, N!Tick
  <2> QED BY <1>1, <2>1
<1> QED BY <1>2, <1>3

\* An IPv6 neighbour is reached at the MAC it was last heard from, in whatever order guests
\* announce themselves, move to another MAC and push each other out of the table
\* (ndp_table_add, ndp_table.c).
THEOREM NeighborsAreTrue == AllSpec => []NeighborsTrue
<1>1. ASSUME AllInit PROVE Rowed
  <2>1. table = [i \in N!Rows |-> N!Empty] /\ next_victim = 1 /\ heard = [g \in Guests |-> "zero"]
    BY <1>1 DEF AllInit, N!Init
  <2>2. 1 \in N!Rows BY NdpAssumption DEF N!Rows
  <2> QED BY <2>1, <2>2, NdpAssumption DEF Rowed, N!Empty
<1>2. ASSUME Rowed, [AllNext]_allVars PROVE Rowed'
  <2>1. UNCHANGED <<table, next_victim, heard>> => Rowed' BY <1>2 DEF Rowed, N!Rows, N!Empty
  <2>2. UNCHANGED ndpVars => UNCHANGED <<table, next_victim, heard>> BY DEF ndpVars
  <2> QED BY <1>2, <2>1, <2>2, OneMoves, HeardOrNot, HearKeeps
<1>3. ASSUME Rowed PROVE NeighborsTrue
  <2>1. N!Empty.ip = "zero" BY DEF N!Empty
  <2> QED BY <1>3, <2>1 DEF Rowed, NeighborsTrue, N!NeighborsTrue
<1> QED BY <1>1, <1>2, <1>3, PTL DEF AllSpec

-----------------------------------------------------------------------------
(* Datagrams.                                                              *)

PortNumbers == {p[2] : p \in Ports}
Addresses == {d[1] : d \in Dests}
SocketRecords ==
  [af : {4, 6} \cup {p[1] : p \in Forwarded}, port : PortNumbers,
   to : {"net", "vhost"} \cup Addresses, dport : {0} \cup {d[2] : d \in Dests},
   m : Nat, conn : BOOLEAN, expire : Nat, fwd : BOOLEAN]
AskRecords ==
  [n : Nat, af : {4, 6}, port : {0} \cup PortNumbers, to : Addresses, ping : BOOLEAN]

\* A port has one socket.
OnePerPort == \A so, other \in udb : so.af = other.af /\ so.port = other.port => so = other
\* A port that waits for an answer has its socket, which holds that packet or a later one.
OfPort(so, ask) == so.af = ask.af /\ so.port = ask.port
Waits(ask) ==
  (\E so \in udb : OfPort(so, ask)) /\ \A so \in udb : OfPort(so, ask) => so.m >= ask.n
\* Only IPv4 has a broadcast.
Asking ==
  \A ask \in pending :
    /\ ask.n <= packetsOut
    /\ ~ask.ping => Waits(ask) /\ (ask.to = "bcast" => ask.af = 4)
DatagramInv ==
  /\ packetsOut \in Nat /\ udb \subseteq SocketRecords /\ pending \subseteq AskRecords
  /\ quotes \subseteq Nat \X Nat
  /\ OnePerPort /\ Asking /\ D!ErrorsQuote /\ D!AnswersNamed

\* A socket's packet and time change, and nothing else.
Updated(so, m, expire) == [so EXCEPT !.m = m, !.conn = TRUE, !.expire = expire]
LEMMA SocketUpdate ==
  ASSUME NEW so \in SocketRecords, NEW m \in Nat, NEW expire \in Nat
  PROVE  /\ Updated(so, m, expire) \in SocketRecords /\ Updated(so, m, expire).m = m
         /\ Updated(so, m, expire).af = so.af /\ Updated(so, m, expire).port = so.port
  BY DEF SocketRecords, Updated

\* A datagram of the guest attaches or finds its port's socket, and sends or is refused.
LEMMA DatagramKeeps ==
  ASSUME DatagramInv, NEW af \in {4, 6}, NEW port \in PortNumbers, NEW dest \in Dests,
         NEW ttl, NEW known \in BOOLEAN, NEW answered \in BOOLEAN, af = 6 => dest[1] # "bcast",
         D!Datagram(af, port, dest, ttl, known, answered)
  PROVE  DatagramInv'
<1> DEFINE found == D!solookup(af, port)
           n == packetsOut + 1
           new == IF found = {} THEN D!udp_attach(af, port) ELSE CHOOSE so \in found : TRUE
           so1 == [new EXCEPT !.to = dest[1], !.dport = dest[2]]
           goes == ttl > 1 /\ answered /\ D!sotranslate_out(af, dest[1], dest[2], known) # D!Refused
           done == IF goes THEN D!Sent(so1, n) ELSE [so |-> so1, freed |-> 1]
<1>1. /\ packetsOut' = n /\ udb' = (udb \ found) \cup {done.so}
      /\ pending' = IF goes THEN pending \cup {D!Ask(n, af, port, dest[1], FALSE)} ELSE pending
      /\ quotes' = IF goes THEN quotes ELSE D!send_error(af, n, n)
      /\ UNCHANGED misnamed
  BY DEF D!Datagram
<1>2. new \in SocketRecords /\ new.af = af /\ new.port = port /\ (new.m = 0 \/ new \in udb)
  <2>1. CASE found = {}
    <3>1. new = D!udp_attach(af, port) BY <2>1
    <3>2. SO_EXPIRE \in Nat BY DatagramAssumption
    <3> HIDE DEF new
    <3> QED BY <3>1, <3>2 DEF D!udp_attach, D!None, SocketRecords
  <2>2. CASE found # {}
    <3>1. new \in found BY <2>2
    <3> HIDE DEF new
    <3> QED BY <3>1 DEF D!solookup, DatagramInv
  <2> QED BY <2>1, <2>2
<1> HIDE DEF new
<1>3. done.so \in SocketRecords /\ done.so.af = af /\ done.so.port = port /\ (goes => done.so.m = n)
      /\ (~goes => done.so.m = new.m)
  <2>1. so1 \in SocketRecords /\ so1.af = af /\ so1.port = port /\ so1.m = new.m
    <3>1. dest[1] \in Addresses /\ dest[2] \in {d[2] : d \in Dests} BY DEF Addresses
    <3> QED BY <1>2, <3>1 DEF SocketRecords
  <2> HIDE DEF so1, goes
  <2>2. CASE goes
    <3>1. done.so = [so1 EXCEPT !.m = n, !.conn = TRUE, !.expire = IF so1.expire > 0 THEN SO_EXPIRE ELSE 0]
      BY <2>2 DEF D!Sent
    <3>2. n \in Nat /\ SO_EXPIRE \in Nat BY DatagramAssumption DEF DatagramInv
    <3>3. (IF so1.expire > 0 THEN SO_EXPIRE ELSE 0) \in Nat BY <3>2
    <3> HIDE DEF done, n
    <3>4. done.so \in SocketRecords /\ done.so.af = af /\ done.so.port = port /\ done.so.m = n
      <4> DEFINE e == IF so1.expire > 0 THEN SO_EXPIRE ELSE 0
      <4>1. done.so = Updated(so1, n, e) BY <3>1 DEF Updated
      <4>2. e \in Nat BY <3>3
      <4> HIDE DEF e
      <4>3. so1 \in SocketRecords /\ n \in Nat /\ e \in Nat BY <2>1, <3>2, <4>2
      <4>4. /\ Updated(so1, n, e) \in SocketRecords /\ Updated(so1, n, e).m = n
            /\ Updated(so1, n, e).af = so1.af /\ Updated(so1, n, e).port = so1.port
        BY <4>3, SocketUpdate
      <4> QED BY <2>1, <4>1, <4>4
    <3> QED BY <2>2, <3>4, Zenon
  <2>3. CASE ~goes BY <2>1, <2>3
  <2> QED BY <2>2, <2>3
<1> HIDE DEF goes, done
<1>4. \A so \in udb \ found : so.af # af \/ so.port # port BY DEF D!solookup
<1>5. packetsOut' \in Nat /\ udb' \subseteq SocketRecords /\ quotes' \subseteq Nat \X Nat /\ OnePerPort'
  <2>1. quotes' \subseteq Nat \X Nat
    BY <1>1 DEF D!send_error, D!icmp_forward_error, D!icmp6_forward_error, DatagramInv
  <2> QED BY <1>1, <1>3, <1>4, <2>1 DEF DatagramInv, OnePerPort
<1>6. pending' \subseteq AskRecords
  <2>1. dest[1] \in Addresses /\ n \in Nat BY DEF Addresses, DatagramInv
  <2>2. D!Ask(n, af, port, dest[1], FALSE) \in AskRecords BY <2>1 DEF D!Ask, AskRecords
  <2> QED BY <1>1, <2>2 DEF DatagramInv
<1>7. D!ErrorsQuote' /\ D!AnswersNamed'
  BY <1>1 DEF D!send_error, D!icmp_forward_error, D!icmp6_forward_error, DatagramInv, D!ErrorsQuote,
    D!AnswersNamed
<1>8. Asking'
  <2> SUFFICES ASSUME NEW ask \in pending'
               PROVE  /\ ask.n <= packetsOut'
                      /\ ~ask.ping => Waits(ask)' /\ (ask.to = "bcast" => ask.af = 4)
    BY DEF Asking
  <2>1. CASE ask \in pending
    <3>1. ask \in AskRecords /\ ask.n <= packetsOut /\ ask.n <= packetsOut'
      BY <1>1, <2>1 DEF DatagramInv, Asking, AskRecords
    <3>2. ASSUME ~ask.ping PROVE Waits(ask)' /\ (ask.to = "bcast" => ask.af = 4)
      <4>1. Waits(ask) /\ (ask.to = "bcast" => ask.af = 4) BY <2>1, <3>2 DEF DatagramInv, Asking
      <4>2. CASE ask.af = af /\ ask.port = port
        <5>1. PICK so \in udb : OfPort(so, ask) BY <4>1 DEF Waits
        <5>2. so \in found BY <5>1, <4>2 DEF OfPort, D!solookup
        <5>3. new \in found BY <5>2 DEF new
        <5>4. new.m >= ask.n BY <4>1, <5>3, <4>2, <1>2 DEF Waits, OfPort, D!solookup
        <5>5. done.so.m >= ask.n BY <1>3, <3>1, <5>4 DEF DatagramInv, AskRecords
        <5>6. \A other \in udb' : OfPort(other, ask) => other = done.so
          BY <1>1, <1>4, <4>2 DEF OfPort
        <5> QED BY <1>1, <1>3, <4>1, <4>2, <5>5, <5>6 DEF Waits, OfPort
      <4>3. CASE ~(ask.af = af /\ ask.port = port)
        <5>1. \A other : OfPort(other, ask) => (other \in udb' <=> other \in udb)
          BY <1>1, <1>3, <4>3 DEF OfPort, D!solookup
        <5> QED BY <4>1, <5>1 DEF Waits
      <4> QED BY <4>2, <4>3
    <3> QED BY <3>1, <3>2
  <2>2. CASE goes /\ ask = D!Ask(n, af, port, dest[1], FALSE)
    <3>1. ask.n = n /\ ask.af = af /\ ask.port = port /\ ask.to = dest[1] BY <2>2 DEF D!Ask
    <3>2. \A other \in udb' : OfPort(other, ask) => other = done.so BY <1>1, <1>4, <3>1 DEF OfPort
    <3>3. n \in Nat BY DEF DatagramInv
    <3>4. done.so \in udb' /\ OfPort(done.so, ask) BY <1>1, <1>3, <3>1 DEF OfPort
    <3>5. done.so.m = n BY <1>3, <2>2, Zenon
    <3>6. done.so.m >= ask.n BY <3>5, <3>1, <3>3
    <3>7. ask.n <= packetsOut' BY <1>1, <3>1, <3>3
    <3>8. Waits(ask)' BY <3>2, <3>4, <3>6 DEF Waits, OfPort
    <3> QED BY <3>1, <3>7, <3>8
  <2> QED BY <1>1, <2>1, <2>2
<1> QED BY <1>5, <1>6, <1>7, <1>8 DEF DatagramInv

\* A socket that is replaced by one of the same port, with the same packet or a later one.
LEMMA ReplacedKeeps ==
  ASSUME DatagramInv, NEW so \in udb, NEW new \in SocketRecords,
         new.af = so.af, new.port = so.port, new.m = so.m, D!Becomes(so, new)
  PROVE  udb' \subseteq SocketRecords /\ OnePerPort' /\ \A ask : Waits(ask) => Waits(ask)'
<1>1. udb' = (udb \ {so}) \cup {new} BY DEF D!Becomes
<1>2. udb' \subseteq SocketRecords /\ OnePerPort' BY <1>1 DEF DatagramInv, OnePerPort
<1>3. ASSUME NEW ask, Waits(ask) PROVE Waits(ask)' BY <1>1, <1>3 DEF Waits, OfPort
<1> QED BY <1>2, <1>3

\* What an answer comes from is what the guest sent to, when the socket's address is that.
LEMMA NamedRight ==
  ASSUME NEW so \in SocketRecords, NEW ask \in AskRecords, so.af = ask.af, so.to = ask.to,
         ask.to # "all", ask.to = "bcast" => ask.af = 4
  PROVE  D!sotranslate_in(so, D!Answerer(ask)) = D!Expected(ask.to)
<1>1. CASE ask.af = 4
  BY <1>1 DEF D!sotranslate_in, D!Answerer, D!Expected, D!sotranslate_out, D!sotranslate_out4,
    D!VirtualNet
<1>2. CASE ask.af = 6
  BY <1>2 DEF D!sotranslate_in, D!Answerer, D!Expected, D!sotranslate_out, D!sotranslate_out6,
    D!VirtualNet
<1> QED BY <1>1, <1>2 DEF AskRecords

\* A socket that an answer came to has a new time, and nothing else.
LEMMA RefreshedSocket ==
  ASSUME NEW so \in SocketRecords
  PROVE  /\ D!Refreshed(so) \in SocketRecords /\ D!Refreshed(so).m = so.m
         /\ D!Refreshed(so).af = so.af /\ D!Refreshed(so).port = so.port
<1>1. SO_EXPIRE \in Nat /\ SO_EXPIREFAST \in Nat BY DatagramAssumption
<1> QED BY <1>1 DEF D!Refreshed, SocketRecords

\* A pending question is answered, or is in error.
LEMMA AnswerKeeps ==
  ASSUME DatagramInv, NEW ask \in pending, D!UdpAnswer(ask)
  PROVE  DatagramInv'
<1>1. PICK so \in D!solookup(ask.af, ask.port) :
        /\ ~ask.ping /\ so.conn
        /\ D!Becomes(so, D!Refreshed(so))
        /\ misnamed' = IF D!sotranslate_in(so, D!Answerer(ask)) = D!Expected(ask.to) THEN misnamed
                       ELSE misnamed \cup {<<ask.to, so.to>>}
        /\ pending' = pending \ {ask}
        /\ UNCHANGED <<icmp, mbufs, packetsOut, quotes>>
  BY DEF D!UdpAnswer
<1>2. so \in udb /\ so \in SocketRecords /\ so.af = ask.af BY <1>1 DEF D!solookup, DatagramInv
<1>3. udb' \subseteq SocketRecords /\ OnePerPort' /\ \A other : Waits(other) => Waits(other)'
  BY <1>1, <1>2, RefreshedSocket, ReplacedKeeps
<1>4. ask \in AskRecords /\ (ask.to = "bcast" => ask.af = 4) BY <1>1 DEF DatagramInv, Asking
<1>5. D!AnswersNamed'
  <2>1. CASE misnamed' = misnamed BY <2>1 DEF DatagramInv, D!AnswersNamed
  <2>2. CASE /\ D!sotranslate_in(so, D!Answerer(ask)) # D!Expected(ask.to)
             /\ misnamed' = misnamed \cup {<<ask.to, so.to>>}
    <3>1. ask.to # so.to \/ ask.to = "all" BY <1>2, <1>4, <2>2, NamedRight
    <3> QED BY <2>2, <3>1 DEF DatagramInv, D!AnswersNamed
  <2> QED BY <1>1, <2>1, <2>2
<1>6. Asking' BY <1>1, <1>3 DEF DatagramInv, Asking
<1>7. D!ErrorsQuote' BY <1>1 DEF DatagramInv, D!ErrorsQuote
<1> QED BY <1>1, <1>3, <1>5, <1>6, <1>7 DEF DatagramInv

\* The error of a pending question quotes the socket's packet, which is not before it.
LEMMA ErrorKeeps ==
  ASSUME DatagramInv, NEW ask \in pending, D!UdpError(ask)
  PROVE  DatagramInv'
<1>1. PICK so \in D!solookup(ask.af, ask.port) :
        /\ ~ask.ping /\ quotes' = quotes \cup {<<ask.n, so.m>>} /\ pending' = pending \ {ask}
        /\ UNCHANGED <<udb, icmp, mbufs, packetsOut, misnamed>>
  BY DEF D!UdpError, D!send_error, D!icmp_forward_error, D!icmp6_forward_error
<1>2. Waits(ask) /\ ask.n \in Nat BY <1>1 DEF DatagramInv, Asking, AskRecords
<1>3. so.m >= ask.n /\ so.m \in Nat
  BY <1>2 DEF D!solookup, Waits, OfPort, DatagramInv, SocketRecords
<1>4. D!ErrorsQuote' /\ quotes' \subseteq Nat \X Nat
  BY <1>1, <1>2, <1>3 DEF DatagramInv, D!ErrorsQuote
<1>5. Asking' BY <1>1 DEF DatagramInv, Asking, Waits
<1> QED BY <1>1, <1>4, <1>5 DEF DatagramInv, OnePerPort, D!AnswersNamed

\* Pings, whose sockets are of their own list.
LEMMA PingKeeps ==
  ASSUME DatagramInv, NEW to \in Addresses, NEW reached \in BOOLEAN, D!icmp_input(to, reached)
  PROVE  DatagramInv'
<1> DEFINE n == packetsOut + 1
<1>1. /\ packetsOut' = n /\ UNCHANGED <<udb, misnamed>>
      /\ pending' = pending \/ pending' = pending \cup {D!Ask(n, 4, 0, to, TRUE)}
      /\ quotes' = quotes \/ quotes' = quotes \cup {<<n, n>>}
  BY DEF D!icmp_input, D!icmp_forward_error
<1>2. n \in Nat BY DEF DatagramInv
<1>3. /\ D!Ask(n, 4, 0, to, TRUE) \in AskRecords /\ D!Ask(n, 4, 0, to, TRUE).ping
      /\ D!Ask(n, 4, 0, to, TRUE).n = n
  BY <1>2 DEF D!Ask, AskRecords
<1>4. quotes' \subseteq Nat \X Nat /\ D!ErrorsQuote' BY <1>1, <1>2 DEF DatagramInv, D!ErrorsQuote
<1>5. pending' \subseteq AskRecords BY <1>1, <1>3 DEF DatagramInv
<1>6. Asking'
  <2> SUFFICES ASSUME NEW ask \in pending'
               PROVE  /\ ask.n <= packetsOut'
                      /\ ~ask.ping => Waits(ask)' /\ (ask.to = "bcast" => ask.af = 4)
    BY DEF Asking
  <2>1. CASE ask \in pending BY <1>1, <2>1 DEF DatagramInv, Asking, Waits, AskRecords
  <2>2. CASE ask = D!Ask(n, 4, 0, to, TRUE)
    <3>1. ask.ping /\ ask.n = packetsOut' BY <1>1, <1>3, <2>2
    <3> QED BY <1>1, <1>2, <3>1
  <2> QED BY <1>1, <2>1, <2>2
<1> QED BY <1>1, <1>2, <1>4, <1>5, <1>6 DEF DatagramInv, OnePerPort, D!AnswersNamed

\* A ping is answered or fails, with an error that quotes it.
LEMMA PingAnswerKeeps ==
  ASSUME DatagramInv, NEW ask \in pending, NEW failed \in BOOLEAN, D!icmp_receive(ask, failed)
  PROVE  DatagramInv'
<1>1. /\ pending' = pending \ {ask} /\ UNCHANGED <<udb, packetsOut, misnamed>>
      /\ quotes' = quotes \/ quotes' = quotes \cup {<<ask.n, ask.n>>}
  BY DEF D!icmp_receive, D!icmp_forward_error
<1>2. ask.n \in Nat BY DEF DatagramInv, AskRecords
<1>3. D!ErrorsQuote' /\ quotes' \subseteq Nat \X Nat BY <1>1, <1>2 DEF DatagramInv, D!ErrorsQuote
<1>4. Asking' BY <1>1 DEF DatagramInv, Asking, Waits
<1> QED BY <1>1, <1>3, <1>4 DEF DatagramInv, OnePerPort, D!AnswersNamed

\* A call of a forwarded port gives its socket more time.
LEMMA CallKeeps ==
  ASSUME DatagramInv, NEW so \in udb, D!ForwardCalled(so)
  PROVE  DatagramInv'
<1>1. UNCHANGED <<packetsOut, pending, misnamed, quotes>> /\ D!Becomes(so, D!Refreshed(so))
  BY DEF D!ForwardCalled
<1>2. so \in SocketRecords BY DEF DatagramInv
<1>3. udb' \subseteq SocketRecords /\ OnePerPort' /\ \A ask : Waits(ask) => Waits(ask)'
  BY <1>1, <1>2, RefreshedSocket, ReplacedKeeps
<1> QED BY <1>1, <1>3 DEF DatagramInv, Asking, D!ErrorsQuote, D!AnswersNamed

\* Who loses the socket is no longer waited for.
LEMMA ExpireKeeps ==
  ASSUME DatagramInv, D!Expire
  PROVE  DatagramInv'
<1>1. udb' \subseteq udb /\ UNCHANGED <<packetsOut, misnamed, quotes>> BY DEF D!Expire
<1>2. pending' \subseteq pending BY DEF D!Expire
<1>3. ASSUME NEW ask \in pending', ~ask.ping PROVE \E so \in udb' : OfPort(so, ask)
  BY <1>3 DEF D!Expire, OfPort
<1>4. Asking' BY <1>1, <1>2, <1>3 DEF DatagramInv, Asking, Waits
<1> QED BY <1>1, <1>2, <1>4 DEF DatagramInv, OnePerPort, D!ErrorsQuote, D!AnswersNamed

\* Time passes, and the sockets hold what they held.
LEMMA TimeKeeps ==
  ASSUME DatagramInv, D!Tick
  PROVE  DatagramInv'
<1> DEFINE Older(so) == [so EXCEPT !.expire = IF @ > 1 THEN @ - 1 ELSE @]
<1>1. udb' = {Older(so) : so \in udb} /\ UNCHANGED <<packetsOut, pending, misnamed, quotes>>
  BY DEF D!Tick, D!Aged
<1>2. ASSUME NEW so \in udb
      PROVE  Older(so) \in SocketRecords /\ Older(so).af = so.af /\ Older(so).port = so.port
             /\ Older(so).m = so.m
  <2>1. so \in SocketRecords BY DEF DatagramInv
  <2> QED BY <2>1 DEF SocketRecords
<1> HIDE DEF Older
<1>3. udb' \subseteq SocketRecords BY <1>1, <1>2
<1>4. OnePerPort' BY <1>1, <1>2 DEF DatagramInv, OnePerPort
<1>5. \A ask : Waits(ask) => Waits(ask)' BY <1>1, <1>2 DEF Waits, OfPort
<1>6. Asking' BY <1>1, <1>5 DEF DatagramInv, Asking
<1> QED BY <1>1, <1>3, <1>4, <1>6 DEF DatagramInv, D!ErrorsQuote, D!AnswersNamed

\* DatagramInv is an invariant of the services.
LEMMA DatagramsHold == AllSpec => []DatagramInv
<1>1. ASSUME AllInit PROVE DatagramInv
  <2>1. /\ udb = {D!udpx_listen(p[1], p[2]) : p \in Forwarded} /\ packetsOut = 0
        /\ pending = {} /\ misnamed = {} /\ quotes = {}
    BY <1>1 DEF AllInit, D!Init, D!Forwards
  <2>2. ASSUME NEW p \in Forwarded
        PROVE  /\ D!udpx_listen(p[1], p[2]) \in SocketRecords
               /\ D!udpx_listen(p[1], p[2]).af = p[1] /\ D!udpx_listen(p[1], p[2]).port = p[2]
    <3>1. p[1] \in {q[1] : q \in Forwarded} /\ p[2] \in PortNumbers
      BY DatagramAssumption DEF PortNumbers
    <3> QED BY <3>1 DEF D!udpx_listen, D!udp_attach, D!None, SocketRecords
  <2>3. udb \subseteq SocketRecords BY <2>1, <2>2
  <2>4. OnePerPort
    <3> SUFFICES ASSUME NEW so \in udb, NEW other \in udb, so.af = other.af, so.port = other.port
                 PROVE  so = other
      BY DEF OnePerPort
    <3>1. PICK p \in Forwarded : so = D!udpx_listen(p[1], p[2]) BY <2>1
    <3>2. PICK q \in Forwarded : other = D!udpx_listen(q[1], q[2]) BY <2>1
    <3>3. p[1] = q[1] /\ p[2] = q[2] BY <2>2, <3>1, <3>2
    <3> QED BY <3>1, <3>2, <3>3
  <2> QED BY <2>1, <2>3, <2>4 DEF DatagramInv, Asking, D!ErrorsQuote, D!AnswersNamed
<1>2. ASSUME DatagramInv, [AllNext]_allVars PROVE DatagramInv'
  <2>1. CASE UNCHANGED datagramVars
    BY <1>2, <2>1 DEF datagramVars, DatagramInv, OnePerPort, Asking, Waits, D!ErrorsQuote, D!AnswersNamed
  <2>2. CASE D!GuestSends
    <3>1. CASE \E p \in Ports, dest \in Dests, ttl \in 1 .. 2, known, sentOut \in BOOLEAN :
                 \/ p[1] = 4 /\ D!udp_input(p[2], dest, ttl, known, sentOut)
                 \/ p[1] = 6 /\ dest[1] # "bcast" /\ D!udp6_input(p[2], dest, ttl, known, sentOut)
      <4>1. PICK p \in Ports, dest \in Dests, ttl \in 1 .. 2, known \in BOOLEAN, sentOut \in BOOLEAN :
                 \/ p[1] = 4 /\ D!udp_input(p[2], dest, ttl, known, sentOut)
                 \/ p[1] = 6 /\ dest[1] # "bcast" /\ D!udp6_input(p[2], dest, ttl, known, sentOut)
        BY <3>1, Zenon
      <4>2. p[2] \in PortNumbers BY DEF PortNumbers
      <4>3. \/ D!Datagram(4, p[2], dest, ttl, known, sentOut)
            \/ dest[1] # "bcast" /\ D!Datagram(6, p[2], dest, ttl, known, sentOut)
        BY <4>1 DEF D!udp_input, D!udp6_input
      <4>4. 4 \in {4, 6} /\ 6 \in {4, 6} /\ 4 # 6 OBVIOUS
      <4> QED BY <1>2, <4>2, <4>3, <4>4, DatagramKeeps
    <3>2. CASE \E dest \in Dests, sentOut \in BOOLEAN : D!icmp_input(dest[1], sentOut)
      <4>1. PICK dest \in Dests, sentOut \in BOOLEAN : D!icmp_input(dest[1], sentOut)
        BY <3>2, Zenon
      <4>2. dest[1] \in Addresses BY DEF Addresses
      <4> QED BY <1>2, <4>1, <4>2, PingKeeps
    <3>3. CASE D!Dropped
      BY <1>2, <3>3 DEF D!Dropped, DatagramInv, OnePerPort, Asking, Waits, AskRecords, D!ErrorsQuote,
        D!AnswersNamed
    <3> QED BY <2>2, <3>1, <3>2, <3>3 DEF D!GuestSends
  <2>3. CASE \E ask \in pending : D!UdpAnswer(ask) \/ D!UdpError(ask)
    BY <1>2, <2>3, AnswerKeeps, ErrorKeeps
  <2>4. CASE \E ask \in pending, failed \in BOOLEAN : D!icmp_receive(ask, failed)
    BY <1>2, <2>4, PingAnswerKeeps
  <2>5. CASE \E so \in udb : D!ForwardCalled(so) BY <1>2, <2>5, CallKeeps
  <2> QED BY <1>2, <2>1, <2>2, <2>3, <2>4, <2>5, ExpireKeeps, TimeKeeps, OneMoves DEF D!Next
<1> QED BY <1>1, <1>2, PTL DEF AllSpec

\* An answer comes to the guest from the address it sent to, however the ports' destinations,
\* sockets and name servers change in between, but for the two cases that the property names
\* (sotranslate_in, socket.c).
THEOREM AnswersAreNamed == AllSpec => []AnswersNamed
<1>1. DatagramInv => AnswersNamed BY DEF DatagramInv, AnswersNamed
<1> QED BY <1>1, DatagramsHold, PTL

\* An error quotes the packet it is about, or one sent later from the port: so_m is never a
\* packet before it, nor gone, whatever was answered, sent again or has expired meanwhile
\* (sosendto and sorecvfrom, socket.c).
THEOREM ErrorsQuoteRight == AllSpec => []ErrorsQuote
<1>1. DatagramInv => ErrorsQuote BY DEF DatagramInv, ErrorsQuote
<1> QED BY <1>1, DatagramsHold, PTL

-----------------------------------------------------------------------------
(* Files.                                                                  *)

\* the size of a client's blocks, whatever was lost in between
SizeOf(c) ==
  IF Asked[c] = 0 THEN BlockSize
  ELSE IF Asked[c] < TFTP_BLOCKSIZE_MAX THEN Asked[c] ELSE TFTP_BLOCKSIZE_MAX
Upto(n) == IF n < FileLen THEN n ELSE FileLen
\* the block that follows m others
Block(c, m) == SubSeq(T!File, m * SizeOf(c) + 1, Upto(m * SizeOf(c) + SizeOf(c)))

Sessions == [client : Clients \cup {"nobody"}, size : Nat, open : BOOLEAN, nr : Nat, stamp : Nat]
Packets == [to : Clients, op : {"error", "oack", "data"}, nr : Nat, data : Seq(Nat)]

\* A session has its client's size, and there are none without a prefix.
GoodSession(s) == s.client \in Clients => s.size = SizeOf(s.client) /\ prefix
\* A block is of the file, an OACK of the size.
GoodPacket(p) ==
  /\ p.op = "oack" => p.nr = SizeOf(p.to)
  /\ p.op = "data" => prefix /\ \E m \in Nat : p.nr = m + 1 /\ p.data = Block(p.to, m)
\* What a handler has done is good, and so is what is on the wire.
Effects == [table : [T!Slots -> Sessions], files : Int, sent : Seq(Packets)]
Good(e) ==
  /\ e \in Effects
  /\ \A k \in T!Slots : GoodSession(e.table[k])
  /\ \A i \in 1 .. Len(e.sent) : GoodPacket(e.sent[i])
\* A client has the beginning of the file, whole when it is done.
GoodClient(c) ==
  /\ got[c].size \in {0, SizeOf(c)}
  /\ Len(got[c].data) <= FileLen /\ got[c].data = SubSeq(T!File, 1, Len(got[c].data))
  /\ got[c].done => Len(got[c].data) = FileLen /\ prefix
ServedInv ==
  /\ curtime \in Nat /\ prefix \in BOOLEAN
  /\ Good([table |-> sessions, files |-> files, sent |-> wire])
  /\ got \in [Clients -> [size : Nat, data : Seq(Nat), done : BOOLEAN]]
  /\ \A c \in Clients : GoodClient(c)

\* A block has at least a byte.
LEMMA SizeIsNat == ASSUME NEW c \in Clients PROVE SizeOf(c) \in Nat /\ SizeOf(c) > 0
<1>1. Asked[c] \in Nat BY TftpAssumption
<1> QED BY <1>1, TftpAssumption DEF SizeOf

\* A block is full unless the file ends in it or before it.
LEMMA BlockIsNat ==
  ASSUME NEW c \in Clients, NEW m \in Nat
  PROVE  /\ Block(c, m) \in Seq(Nat) /\ m * SizeOf(c) \in Nat
         /\ Len(Block(c, m)) = IF m * SizeOf(c) + SizeOf(c) <= FileLen THEN SizeOf(c)
                               ELSE IF m * SizeOf(c) <= FileLen THEN FileLen - m * SizeOf(c) ELSE 0
<1>1. SizeOf(c) \in Nat /\ FileLen \in Nat BY SizeIsNat, TftpAssumption
<1>2. m * SizeOf(c) \in Nat BY <1>1
<1> DEFINE from == m * SizeOf(c)
           size == SizeOf(c)
<1>3. from \in Nat /\ size \in Nat BY <1>1, <1>2
<1>4. Block(c, m) = SubSeq(T!File, from + 1, Upto(from + size)) BY DEF Block
<1> HIDE DEF from, size
<1>5. T!File \in Seq(Nat) /\ Len(T!File) = FileLen BY <1>1 DEF T!File
<1>6. Upto(from + size) \in Nat /\ Upto(from + size) <= FileLen BY <1>1, <1>3 DEF Upto
<1>7. Block(c, m) \in Seq(Nat) BY <1>1, <1>3, <1>4, <1>5, <1>6
<1>8. Len(Block(c, m)) = IF from + size <= FileLen THEN size
                         ELSE IF from <= FileLen THEN FileLen - from ELSE 0
  BY <1>1, <1>3, <1>4, <1>5, <1>6 DEF Upto
<1> QED BY <1>2, <1>7, <1>8 DEF from, size

\* A session ends, and what was sent stands.
LEMMA TerminateGood ==
  ASSUME NEW e, Good(e), NEW k \in T!Slots
  PROVE  /\ Good(T!tftp_session_terminate(e, k))
         /\ T!tftp_session_terminate(e, k).sent = e.sent
         /\ T!tftp_session_terminate(e, k).table = [e.table EXCEPT ![k] = T!NoSession]
<1> DEFINE t == [e.table EXCEPT ![k] = T!NoSession]
           f == IF e.table[k].open THEN e.files - 1 ELSE e.files
           r == T!tftp_session_terminate(e, k)
<1>1. e \in Effects BY DEF Good, Effects
<1>2. T!NoSession \in Sessions /\ GoodSession(T!NoSession)
  BY TftpAssumption DEF T!NoSession, Sessions, GoodSession
<1>3. t \in [T!Slots -> Sessions] /\ \A j \in T!Slots : GoodSession(t[j])
  BY <1>1, <1>2 DEF Good, Effects
<1>4. r = [e EXCEPT !.table = t, !.files = f] BY <1>1 DEF T!tftp_session_terminate, Effects
<1>5. f \in Int BY <1>1 DEF Effects
<1> HIDE DEF t, f, r
<1>6. r \in Effects /\ r.sent = e.sent /\ r.table = t BY <1>1, <1>3, <1>4, <1>5 DEF Effects
<1>7. Good(r) BY <1>3, <1>6 DEF Good, Effects
<1> QED BY <1>6, <1>7 DEF t, r

\* What is sent is good when it is so by itself.
Packet(c, op, n, data) == [to |-> c, op |-> op, nr |-> n, data |-> data]
LEMMA SendGood ==
  ASSUME NEW e, Good(e), NEW k \in T!Slots, e.table[k].client \in Clients,
         NEW op \in {"error", "oack", "data"}, NEW n \in Nat, NEW data \in Seq(Nat),
         GoodPacket(Packet(e.table[k].client, op, n, data))
  PROVE  Good(T!Send(e, k, op, n, data)) /\ T!Send(e, k, op, n, data).table = e.table
<1> DEFINE p == Packet(e.table[k].client, op, n, data)
           r == T!Send(e, k, op, n, data)
           s == Append(e.sent, p)
<1>1. e \in Effects BY DEF Good, Effects
<1>2. p \in Packets BY DEF Packets, Packet
<1>3. r = [e EXCEPT !.sent = s] BY <1>1 DEF T!Send, Effects, Packet
<1>4. s \in Seq(Packets) /\ \A i \in 1 .. Len(s) : GoodPacket(s[i])
  <2> HIDE DEF p
  <2>1. e.sent \in Seq(Packets) /\ \A i \in 1 .. Len(e.sent) : GoodPacket(e.sent[i])
    BY DEF Good, Effects
  <2>2. GoodPacket(p) BY DEF p
  <2> QED BY <1>2, <2>1, <2>2
<1> HIDE DEF p, r, s
<1>5. r \in Effects /\ r.sent = s /\ r.table = e.table BY <1>1, <1>3, <1>4 DEF Effects
<1>6. Good(r) BY <1>4, <1>5 DEF Good, Effects
<1> QED BY <1>5, <1>6 DEF r

\* A change of one session.
LEMMA TableGood ==
  ASSUME NEW e, Good(e), NEW t \in [T!Slots -> Sessions], NEW f \in Int,
         \A k \in T!Slots : GoodSession(t[k])
  PROVE  Good([e EXCEPT !.table = t, !.files = f])
<1> DEFINE r == [e EXCEPT !.table = t, !.files = f]
<1>1. e \in Effects BY DEF Good, Effects
<1>2. r \in Effects /\ r.sent = e.sent /\ r.table = t BY <1>1 DEF Effects
<1> HIDE DEF r
<1>3. Good(r) BY <1>2 DEF Good, Effects
<1> QED BY <1>3 DEF r

\* An open file changes nothing of what its session promises.
LEMMA OpenGood ==
  ASSUME NEW e, Good(e), NEW k \in T!Slots
  PROVE  /\ Good(T!Open(e, k)) /\ T!Open(e, k).table = [e.table EXCEPT ![k].open = TRUE]
<1> DEFINE t == [e.table EXCEPT ![k].open = TRUE]
           f == IF e.table[k].open THEN e.files ELSE e.files + 1
           r == T!Open(e, k)
<1>1. e \in Effects BY DEF Good, Effects
<1>2. e.table \in [T!Slots -> Sessions] /\ f \in Int BY <1>1 DEF Effects
<1>3. t \in [T!Slots -> Sessions] BY <1>2 DEF Sessions
<1>4. \A j \in T!Slots : t[j].client = e.table[j].client /\ t[j].size = e.table[j].size
  BY <1>2 DEF Sessions
<1>5. \A j \in T!Slots : GoodSession(t[j]) BY <1>4 DEF Good, GoodSession
<1>6. r = [e EXCEPT !.table = t, !.files = f] BY <1>1 DEF T!Open, Effects
<1> HIDE DEF t, f, r
<1>7. Good(r) BY <1>2, <1>3, <1>5, <1>6, TableGood
<1>8. r.table = t BY <1>1, <1>6 DEF Effects
<1> QED BY <1>7, <1>8 DEF t, r

\* An error ends the session and says nothing of the file.
LEMMA ErrorGood ==
  ASSUME NEW e, Good(e), NEW k \in T!Slots, e.table[k].client \in Clients
  PROVE  Good(T!tftp_send_error(e, k))
<1>1. GoodPacket(Packet(e.table[k].client, "error", 0, <<>>))
  BY DEF GoodPacket, Packet
<1>2. 0 \in Nat /\ <<>> \in Seq(Nat) /\ "error" \in {"error", "oack", "data"} OBVIOUS
<1>3. Good(T!Send(e, k, "error", 0, <<>>)) BY <1>1, <1>2, SendGood
<1> QED BY <1>3, TerminateGood DEF T!tftp_send_error

\* The next block is of the file, and the session goes on from there or ends.
LEMMA NextBlockGood ==
  ASSUME NEW e, Good(e), NEW k \in T!Slots, e.table[k].client \in Clients,
         NEW readable \in BOOLEAN, prefix, curtime \in Nat
  PROVE  Good(T!tftp_send_next_block(e, k, readable))
<1> DEFINE s == e.table[k]
           data == T!tftp_read_data(s)
           o == T!Open(e, k)
           n == s.nr + 1
           sentOut == T!Send(o, k, "data", n, data)
           t == [sentOut.table EXCEPT ![k].nr = n, ![k].stamp = curtime]
           r == [sentOut EXCEPT !.table[k].nr = n, !.table[k].stamp = curtime]
<1>1. e \in Effects /\ s \in Sessions /\ s.nr \in Nat /\ s.size = SizeOf(s.client)
  BY DEF Good, Effects, GoodSession, Sessions
<1>2. data = Block(s.client, s.nr)
  BY <1>1 DEF T!tftp_read_data, Block, Upto
<1>3. Good(o) /\ o.table = [e.table EXCEPT ![k].open = TRUE] BY OpenGood
<1>4. o.table[k].client = s.client BY <1>1, <1>3 DEF Effects, Sessions
<1>5. data \in Seq(Nat) BY <1>1, <1>2, BlockIsNat
<1>6. n \in Nat /\ "data" \in {"error", "oack", "data"} BY <1>1
<1>7. GoodPacket(Packet(o.table[k].client, "data", n, data))
  BY <1>1, <1>2, <1>4 DEF GoodPacket, Packet
<1> HIDE DEF data, o, n
<1>8. Good(sentOut) /\ sentOut.table = o.table
  <2>1. o.table[k].client \in Clients BY <1>4
  <2> HIDE DEF s
  <2> QED BY <1>3, <1>5, <1>6, <1>7, <2>1, SendGood, ZenonT(120) DEF sentOut
<1> HIDE DEF sentOut
<1>9. sentOut.table \in [T!Slots -> Sessions] /\ sentOut.files \in Int /\ sentOut \in Effects
  BY <1>8 DEF Good, Effects
<1>10. t \in [T!Slots -> Sessions]
       /\ \A j \in T!Slots : t[j].client = sentOut.table[j].client /\ t[j].size = sentOut.table[j].size
  BY <1>6, <1>9 DEF Sessions
<1>11. \A j \in T!Slots : GoodSession(t[j]) BY <1>8, <1>10 DEF Good, GoodSession
<1>12. r = [sentOut EXCEPT !.table = t, !.files = sentOut.files] BY <1>9 DEF Effects
<1> HIDE DEF t, r
<1>13. Good(r) BY <1>8, <1>9, <1>10, <1>11, <1>12, TableGood
<1>14. Good(T!tftp_session_terminate(sentOut, k)) BY <1>8, TerminateGood
<1>15. Good(T!tftp_send_error(e, k)) BY ErrorGood
<1> QED BY <1>13, <1>14, <1>15 DEF T!tftp_send_next_block, r, sentOut, o, n, data

\* A handler begins with the state, and has sent nothing.
LEMMA EffectGood ==
  ASSUME ServedInv
  PROVE  Good(T!Effect) /\ T!Effect.table = sessions
<1> DEFINE r == [table |-> sessions, files |-> files, sent |-> wire]
<1>1. /\ r \in Effects /\ \A k \in T!Slots : GoodSession(r.table[k]) /\ r.table = sessions
      /\ r.files = files
  BY DEF ServedInv, Good, Effects
<1>2. sessions \in [T!Slots -> Sessions] /\ files \in Int BY <1>1 DEF Effects
<1>3. T!Effect.table = sessions /\ T!Effect.sent = <<>> /\ T!Effect \in Effects
  BY <1>2 DEF T!Effect, Effects
<1>4. Good(T!Effect) BY <1>1, <1>3 DEF Good, Effects
<1> QED BY <1>3, <1>4

\* The session that is found is the client's.
LEMMA FindsOwn ==
  ASSUME NEW c \in Clients, T!tftp_session_find(c) # 0
  PROVE  T!tftp_session_find(c) \in T!Slots /\ sessions[T!tftp_session_find(c)].client = c
  BY DEF T!tftp_session_find

\* A slot to take is one of the slots, when there is one.
LEMMA SlotIsSlot ==
  ASSUME NEW e, T!SlotFor(e) # 0
  PROVE  T!SlotFor(e) \in T!Slots
<1> DEFINE usable == {k \in T!Slots : \/ ~T!tftp_session_in_use(e.table[k])
                                      \/ curtime - e.table[k].stamp > IDLE}
<1>1. usable # {} BY DEF T!SlotFor
<1>2. usable \subseteq Nat BY DEF T!Slots
<1>3. PICK k \in usable : \A j \in usable : ~(<<j, k>> \in OpToRel(<, Nat))
  BY <1>1, <1>2, WFMin, NatLessThanWellFounded
<1>4. ASSUME NEW j \in usable PROVE k <= j
  <2>1. j < k => <<j, k>> \in OpToRel(<, Nat) BY <1>2, Zenon DEF OpToRel
  <2>2. ~(j < k) BY <1>3, <2>1
  <2> QED BY <1>2, <2>2
<1>5. \E i \in usable : \A j \in usable : i <= j BY <1>4
<1>6. T!SlotFor(e) = CHOOSE i \in usable : \A j \in usable : i <= j BY <1>1 DEF T!SlotFor
<1> QED BY <1>5, <1>6

\* A new session, not yet what a session has to be.
LEMMA AllocatedIs ==
  ASSUME NEW e, Good(e), NEW k \in T!Slots, NEW c \in Clients, curtime \in Nat, NEW r,
         \/ r = T!tftp_session_allocate(e, k, c)
         \/ r = T!Open(T!tftp_session_allocate(e, k, c), k)
  PROVE  /\ r \in Effects /\ r.sent = e.sent
         /\ r.table[k].client = c /\ r.table[k].size = BlockSize /\ r.table[k].nr = 0
         /\ \A j \in T!Slots \ {k} : r.table[j] = e.table[j]
<1> DEFINE n == T!NewSession(c)
           d == T!tftp_session_terminate(e, k)
           a == T!tftp_session_allocate(e, k, c)
           o == T!Open(a, k)
<1>1. Good(d) /\ d.sent = e.sent /\ d.table = [e.table EXCEPT ![k] = T!NoSession]
  BY TerminateGood
<1>2. d \in Effects /\ e \in Effects BY <1>1 DEF Good, Effects
<1>3. n \in Sessions /\ n.client = c /\ n.size = BlockSize /\ n.nr = 0
  BY TftpAssumption DEF T!NewSession, Sessions
<1>4. a = [d EXCEPT !.table[k] = n] BY DEF T!tftp_session_allocate
<1> HIDE DEF n, d, a
<1>5. /\ a \in Effects /\ a.sent = e.sent /\ a.table[k] = n
      /\ \A j \in T!Slots \ {k} : a.table[j] = e.table[j]
  BY <1>1, <1>2, <1>3, <1>4 DEF Effects
<1> DEFINE t == [a.table EXCEPT ![k].open = TRUE]
           f == IF a.table[k].open THEN a.files ELSE a.files + 1
<1>6. o = [a EXCEPT !.table = t, !.files = f] BY <1>5 DEF T!Open, Effects
<1>7. t \in [T!Slots -> Sessions] /\ t[k] = [n EXCEPT !.open = TRUE] /\ f \in Int
      /\ \A j \in T!Slots \ {k} : t[j] = e.table[j]
  <2>1. a.table \in [T!Slots -> Sessions] /\ a.files \in Int BY <1>5 DEF Effects
  <2>2. t[k] = [n EXCEPT !.open = TRUE] BY <1>5, <2>1
  <2>3. \A j \in T!Slots \ {k} : t[j] = e.table[j] BY <1>5, <2>1
  <2>4. [n EXCEPT !.open = TRUE] \in Sessions BY <1>3 DEF Sessions
  <2>5. t = [j \in T!Slots |-> IF j = k THEN [n EXCEPT !.open = TRUE] ELSE a.table[j]] BY <1>5, <2>1
  <2>6. t \in [T!Slots -> Sessions] BY <2>1, <2>4, <2>5
  <2> QED BY <2>1, <2>2, <2>3, <2>6
<1> HIDE DEF o, t, f
<1>8. /\ o \in Effects /\ o.sent = e.sent
      /\ \A j \in T!Slots \ {k} : o.table[j] = e.table[j]
      /\ o.table[k] = [n EXCEPT !.open = TRUE]
  BY <1>5, <1>6, <1>7 DEF Effects
<1>9. o.table[k].client = c /\ o.table[k].size = BlockSize /\ o.table[k].nr = 0
  BY <1>3, <1>8 DEF Sessions
<1> QED BY <1>3, <1>5, <1>8, <1>9 DEF a, o

\* A request that is refused leaves no session.
LEMMA RefusedGood ==
  ASSUME NEW e, Good(e), NEW k \in T!Slots, NEW r \in Effects, r.sent = e.sent,
         r.table[k].client \in Clients, \A j \in T!Slots \ {k} : r.table[j] = e.table[j]
  PROVE  Good(T!tftp_send_error(r, k))
<1> DEFINE p == Packet(r.table[k].client, "error", 0, <<>>)
           s == T!Send(r, k, "error", 0, <<>>)
           t == [r.table EXCEPT ![k] = T!NoSession]
           f == IF r.table[k].open THEN r.files - 1 ELSE r.files
           q == Append(e.sent, p)
           d == T!tftp_session_terminate(s, k)
<1>1. p \in Packets /\ GoodPacket(p) BY DEF Packet, Packets, GoodPacket
<1>2. s = [r EXCEPT !.sent = q] BY DEF T!Send, Packet, Effects
<1> HIDE DEF p
<1>3. q \in Seq(Packets) /\ \A i \in 1 .. Len(q) : GoodPacket(q[i])
  <2>1. e.sent \in Seq(Packets) /\ \A i \in 1 .. Len(e.sent) : GoodPacket(e.sent[i])
    BY DEF Good, Effects
  <2> QED BY <1>1, <2>1
<1> HIDE DEF q, s
<1>4. s \in Effects /\ s.table = r.table /\ s.files = r.files /\ s.sent = q
  BY <1>2, <1>3 DEF Effects
<1>5. d = [s EXCEPT !.table = t, !.files = f]
  BY <1>4 DEF T!tftp_session_terminate, Effects
<1>6. T!NoSession \in Sessions /\ GoodSession(T!NoSession)
  BY TftpAssumption DEF T!NoSession, Sessions, GoodSession
<1>7. t \in [T!Slots -> Sessions] /\ \A j \in T!Slots : GoodSession(t[j])
  BY <1>6 DEF Good, Effects
<1>8. f \in Int BY DEF Effects
<1> HIDE DEF t, f, d
<1>9. d \in Effects /\ d.table = t /\ d.sent = q BY <1>4, <1>5, <1>7, <1>8 DEF Effects
<1>10. Good(d) BY <1>3, <1>7, <1>9 DEF Good, Effects
<1> QED BY <1>10 DEF T!tftp_send_error, d, s

\* A request is refused, or begins a session of the client's size.
LEMMA RequestGood ==
  ASSUME ServedInv, NEW c \in Clients, NEW proper \in BOOLEAN, NEW found \in BOOLEAN,
         NEW readable \in BOOLEAN
  PROVE  Good(T!tftp_handle_rrq(c, proper, found, readable))
<1> DEFINE old == T!tftp_session_find(c)
           ended == IF old = 0 THEN T!Effect ELSE T!tftp_session_terminate(T!Effect, old)
           k == T!SlotFor(ended)
           new == T!tftp_session_allocate(ended, k, c)
           opened == T!Open(new, k)
           size == IF Asked[c] < TFTP_BLOCKSIZE_MAX THEN Asked[c] ELSE TFTP_BLOCKSIZE_MAX
           sized == [opened EXCEPT !.table[k].size = size]
<1>1. curtime \in Nat /\ prefix \in BOOLEAN BY DEF ServedInv
<1>2. Good(ended)
  <2>1. CASE old = 0 BY <2>1, EffectGood
  <2>2. CASE old # 0 BY <2>2, EffectGood, FindsOwn, TerminateGood
  <2> QED BY <2>1, <2>2
<1>3. k # 0 => k \in T!Slots BY SlotIsSlot
<1> HIDE DEF old, ended, k
<1>4. ASSUME k # 0
      PROVE  /\ Good(T!tftp_send_error(new, k)) /\ Good(T!tftp_send_error(opened, k))
             /\ prefix /\ Asked[c] > 0 => Good(T!tftp_send_oack(sized, k))
             /\ prefix /\ ~(Asked[c] > 0) => Good(T!tftp_send_next_block(opened, k, readable))
  <2>1. k \in T!Slots BY <1>3, <1>4
  <2>2. /\ new \in Effects /\ new.sent = ended.sent
        /\ new.table[k].client = c
        /\ \A j \in T!Slots \ {k} : new.table[j] = ended.table[j]
    BY <1>1, <1>2, <2>1, AllocatedIs
  <2>3. /\ opened \in Effects /\ opened.sent = ended.sent
        /\ opened.table[k].client = c /\ opened.table[k].size = BlockSize
        /\ \A j \in T!Slots \ {k} : opened.table[j] = ended.table[j]
    BY <1>1, <1>2, <2>1, AllocatedIs
  <2> HIDE DEF new, opened
  <2>4. Good(T!tftp_send_error(new, k)) /\ Good(T!tftp_send_error(opened, k))
    BY <1>2, <2>1, <2>2, <2>3, RefusedGood
  <2>5. ASSUME prefix, ~(Asked[c] > 0) PROVE Good(T!tftp_send_next_block(opened, k, readable))
    <3>1. Asked[c] = 0 BY <2>5, TftpAssumption
    <3>2. GoodSession(opened.table[k]) BY <2>3, <2>5, <3>1 DEF GoodSession, SizeOf
    <3>3. Good(opened) BY <1>2, <2>3, <3>2 DEF Good, Effects
    <3>4. opened.table[k].client \in Clients BY <2>3
    <3> QED BY <1>1, <2>1, <2>5, <3>3, <3>4, NextBlockGood
  <2>6. ASSUME prefix, Asked[c] > 0 PROVE Good(T!tftp_send_oack(sized, k))
    <3>1. size = SizeOf(c) /\ size \in Nat BY <2>6, TftpAssumption DEF SizeOf
    <3> DEFINE t == [opened.table EXCEPT ![k].size = size]
    <3>2. sized = [opened EXCEPT !.table = t] BY <2>3 DEF Effects
    <3> HIDE DEF size
    <3>3. /\ t \in [T!Slots -> Sessions] /\ t[k].client = c /\ t[k].size = size
          /\ \A j \in T!Slots \ {k} : t[j] = ended.table[j]
      BY <2>1, <2>3, <3>1 DEF Effects, Sessions
    <3> HIDE DEF t, sized
    <3>4. sized \in Effects /\ sized.table = t /\ sized.sent = ended.sent
      BY <2>3, <3>2, <3>3 DEF Effects
    <3>5. GoodSession(t[k]) BY <2>6, <3>1, <3>3 DEF GoodSession
    <3>6. Good(sized) BY <1>2, <3>3, <3>4, <3>5 DEF Good, Effects
    <3>7. GoodPacket(Packet(sized.table[k].client, "oack", size, <<>>))
      BY <3>1, <3>3, <3>4 DEF GoodPacket, Packet
    <3>8. sized.table[k].client \in Clients /\ sized.table[k].size = size /\ <<>> \in Seq(Nat)
          /\ "oack" \in {"error", "oack", "data"}
      BY <3>3, <3>4
    <3>9. Good(T!Send(sized, k, "oack", size, <<>>)) BY <2>1, <3>1, <3>6, <3>7, <3>8, SendGood
    <3> QED BY <3>8, <3>9 DEF T!tftp_send_oack
  <2> QED BY <2>4, <2>5, <2>6
<1> QED BY <1>2, <1>4 DEF T!tftp_handle_rrq, old, ended, k

\* An acknowledgement is answered by the next block, or by nothing.
LEMMA AckGood ==
  ASSUME ServedInv, NEW c \in Clients, NEW readable \in BOOLEAN
  PROVE  Good(T!tftp_handle_ack(c, readable))
<1> DEFINE k == T!tftp_session_find(c)
<1>1. CASE k = 0 BY <1>1, EffectGood DEF T!tftp_handle_ack
<1>2. CASE k # 0
  <2>1. k \in T!Slots /\ T!Effect.table[k].client = c BY <1>2, FindsOwn, EffectGood
  <2>2. prefix /\ curtime \in Nat BY <2>1, EffectGood DEF Good, GoodSession, ServedInv
  <2>3. Good(T!tftp_send_next_block(T!Effect, k, readable))
    BY <2>1, <2>2, EffectGood, NextBlockGood
  <2> QED BY <1>2, <2>3 DEF T!tftp_handle_ack
<1> QED BY <1>1, <1>2

\* A client that gives up ends its session.
LEMMA GivenUpGood ==
  ASSUME ServedInv, NEW c \in Clients
  PROVE  Good(T!tftp_handle_error(c))
  BY EffectGood, FindsOwn, TerminateGood DEF T!tftp_handle_error

\* What ServedInv says of the state, one variable at a time.
LEMMA WireIs ==
  ASSUME ServedInv
  PROVE  /\ sessions \in [T!Slots -> Sessions] /\ files \in Int /\ wire \in Seq(Packets)
         /\ \A k \in T!Slots : GoodSession(sessions[k])
         /\ \A i \in 1 .. Len(wire) : GoodPacket(wire[i])
<1> DEFINE r == [table |-> sessions, files |-> files, sent |-> wire]
<1>1. /\ r \in Effects /\ r.table = sessions /\ r.files = files /\ r.sent = wire
      /\ \A k \in T!Slots : GoodSession(r.table[k])
      /\ \A i \in 1 .. Len(r.sent) : GoodPacket(r.sent[i])
  BY DEF ServedInv, Good, Effects
<1> HIDE DEF r
<1> QED BY <1>1 DEF Effects

\* Variables that are good one at a time are a good state.
LEMMA WirePrimed ==
  ASSUME sessions' \in [T!Slots -> Sessions], files' \in Int, wire' \in Seq(Packets),
         \A k \in T!Slots : GoodSession(sessions'[k]), prefix' = prefix,
         \A i \in 1 .. Len(wire') : GoodPacket(wire'[i])
  PROVE  Good([table |-> sessions, files |-> files, sent |-> wire])'
<1> DEFINE r == [table |-> sessions, files |-> files, sent |-> wire]
<1>1. r' = [table |-> sessions', files |-> files', sent |-> wire'] OBVIOUS
<1>2. r' \in Effects /\ r'.table = sessions' /\ r'.sent = wire' BY DEF Effects
<1>3. \A k \in T!Slots : GoodSession(r.table[k])' BY <1>2 DEF GoodSession
<1>4. \A i \in 1 .. Len(r'.sent) : GoodPacket(r.sent[i])' BY <1>2 DEF GoodPacket
<1> HIDE DEF r
<1>5. Good(r)' BY <1>2, <1>3, <1>4 DEF Good, Effects
<1> QED BY <1>5 DEF r

\* Good packets after good packets are good packets.
LEMMA GoodJoined ==
  ASSUME NEW s \in Seq(Packets), NEW t \in Seq(Packets),
         \A i \in 1 .. Len(s) : GoodPacket(s[i]), \A i \in 1 .. Len(t) : GoodPacket(t[i])
  PROVE  s \o t \in Seq(Packets) /\ \A i \in 1 .. Len(s \o t) : GoodPacket((s \o t)[i])
<1>1. s \o t \in Seq(Packets) /\ Len(s \o t) = Len(s) + Len(t) OBVIOUS
<1>2. Len(s) \in Nat /\ Len(t) \in Nat OBVIOUS
<1>3. ASSUME NEW i \in 1 .. Len(s \o t) PROVE GoodPacket((s \o t)[i])
  <2>1. CASE i <= Len(s)
    <3>1. (s \o t)[i] = s[i] /\ i \in 1 .. Len(s) BY <1>1, <1>2, <2>1
    <3> QED BY <3>1
  <2>2. CASE i > Len(s)
    <3>1. (s \o t)[i] = t[i - Len(s)] /\ i - Len(s) \in 1 .. Len(t) BY <1>1, <1>2, <2>2
    <3> QED BY <3>1
  <2> QED BY <1>1, <1>2, <2>1, <2>2
<1> QED BY <1>1, <1>3

\* What a handler has done becomes the state.
LEMMA InputKeeps ==
  ASSUME ServedInv, NEW e, Good(e), T!tftp_input(e), prefix' = prefix
  PROVE  Good([table |-> sessions, files |-> files, sent |-> wire])'
<1>1. e \in Effects BY DEF Good, Effects
<1>2. /\ e.table \in [T!Slots -> Sessions] /\ e.files \in Int /\ e.sent \in Seq(Packets)
      /\ \A k \in T!Slots : GoodSession(e.table[k])
      /\ \A i \in 1 .. Len(e.sent) : GoodPacket(e.sent[i])
  BY <1>1 DEF Good, Effects
<1>3. sessions' = e.table /\ files' = e.files /\ wire' = wire \o e.sent BY DEF T!tftp_input
<1>4. /\ wire \o e.sent \in Seq(Packets)
      /\ \A i \in 1 .. Len(wire \o e.sent) : GoodPacket((wire \o e.sent)[i])
  BY <1>2, WireIs, GoodJoined
<1>5. /\ sessions' \in [T!Slots -> Sessions] /\ files' \in Int /\ wire' \in Seq(Packets)
      /\ \A k \in T!Slots : GoodSession(sessions'[k])
      /\ \A i \in 1 .. Len(wire') : GoodPacket(wire'[i])
  BY <1>2, <1>3, <1>4
<1> QED BY <1>5, WirePrimed

\* What a client may have.
Gets == [size : Nat, data : Seq(Nat), done : BOOLEAN]
\* What a client has may be: GoodClient of a value.
Has(c, g) ==
  /\ g \in Gets /\ g.size \in {0, SizeOf(c)}
  /\ Len(g.data) <= FileLen /\ g.data = SubSeq(T!File, 1, Len(g.data))
  /\ g.done => Len(g.data) = FileLen /\ prefix

\* What ServedInv says of a client, as a value.
LEMMA ClientsHave ==
  ASSUME ServedInv, NEW c \in Clients
  PROVE  Has(c, got[c])
  BY DEF ServedInv, GoodClient, Has, Gets

\* A sequence that follows another.
LEMMA Joined ==
  ASSUME NEW s \in Seq(Nat), NEW t \in Seq(Nat)
  PROVE  /\ s \o t \in Seq(Nat) /\ Len(s \o t) = Len(s) + Len(t)
         /\ \A i \in 1 .. Len(s) + Len(t) : (s \o t)[i] = IF i <= Len(s) THEN s[i] ELSE t[i - Len(s)]
  OBVIOUS

\* The beginning of the file.
Begins(data) == data \in Seq(Nat) /\ Len(data) <= FileLen /\ data = SubSeq(T!File, 1, Len(data))

\* The block that follows what a client has extends it, and ends it when it is not full.
LEMMA BlockFollows ==
  ASSUME NEW c \in Clients, NEW m \in Nat, NEW data \in Seq(Nat), Begins(data), Len(data) = m * SizeOf(c)
  PROVE  /\ Begins(data \o Block(c, m))
         /\ Len(Block(c, m)) < SizeOf(c) => Len(data \o Block(c, m)) = FileLen
<1> DEFINE all == data \o Block(c, m)
           len == Len(data)
           size == SizeOf(c)
<1>1. size \in Nat /\ FileLen \in Nat /\ len \in Nat BY SizeIsNat, TftpAssumption
<1>2. Block(c, m) = SubSeq(T!File, len + 1, Upto(len + size)) BY DEF Block
<1>3. /\ Block(c, m) \in Seq(Nat)
      /\ Len(Block(c, m)) = IF len + size <= FileLen THEN size ELSE FileLen - len
  BY <1>1, BlockIsNat DEF Begins
<1>4. T!File \in Seq(Nat) /\ Len(T!File) = FileLen BY <1>1 DEF T!File
<1>5. all \in Seq(Nat) /\ Len(all) = Upto(len + size) /\ Len(all) <= FileLen
  <2>1. all \in Seq(Nat) /\ Len(all) = len + Len(Block(c, m)) BY <1>3, Joined
  <2>2. len <= FileLen BY DEF Begins
  <2> HIDE DEF all, len, size
  <2> QED BY <1>1, <1>3, <2>1, <2>2 DEF Upto
<1>6. \A i \in 1 .. len + Len(Block(c, m)) :
        all[i] = IF i <= len THEN data[i] ELSE Block(c, m)[i - len]
  BY <1>3, Joined
<1>7. Len(all) = len + Len(Block(c, m)) BY <1>3, Joined
<1> HIDE DEF len, size, all
<1>8. ASSUME NEW i \in 1 .. Len(all) PROVE all[i] = T!File[i]
  <2>1. CASE i <= len
    <3>1. all[i] = data[i] BY <1>6, <1>7, <2>1
    <3>2. data[i] = SubSeq(T!File, 1, len)[i]
      <4>1. data = SubSeq(T!File, 1, len) BY DEF len, Begins
      <4> HIDE DEF len
      <4> QED BY <4>1, Zenon
    <3>3. SubSeq(T!File, 1, len)[i] = T!File[i] BY <1>1, <1>4, <1>5, <2>1 DEF len
    <3> QED BY <3>1, <3>2, <3>3
  <2>2. CASE i > len
    <3>1. i - len \in 1 .. Len(Block(c, m)) BY <1>1, <1>3, <1>5, <2>2 DEF Upto
    <3>2. all[i] = Block(c, m)[i - len] BY <1>1, <1>6, <1>7, <2>2
    <3>3. SubSeq(T!File, len + 1, Upto(len + size))[i - len] = T!File[i]
      BY <1>1, <1>2, <1>3, <1>4, <1>5, <2>2, <3>1
    <3> QED BY <1>2, <3>2, <3>3
  <2> QED BY <1>1, <1>5, <2>1, <2>2
<1>9. all = SubSeq(T!File, 1, Len(all))
  <2>0. Len(all) \in 0 .. Len(T!File) BY <1>1, <1>4, <1>5
  <2>1. Len(SubSeq(T!File, 1, Len(all))) = Len(all) /\ SubSeq(T!File, 1, Len(all)) \in Seq(Nat)
    BY <1>4, <2>0
  <2>2. \A i \in 1 .. Len(all) : SubSeq(T!File, 1, Len(all))[i] = T!File[i] BY <1>4, <2>0
  <2> QED BY <1>5, <1>8, <2>1, <2>2
<1>10. Len(Block(c, m)) < size => Len(all) = FileLen BY <1>1, <1>3, <1>5 DEF Upto
<1> QED BY <1>5, <1>9, <1>10 DEF len, size, all, Begins

\* The server's part of the invariant, and the clients'.
Server ==
  /\ curtime \in Nat /\ prefix \in BOOLEAN
  /\ Good([table |-> sessions, files |-> files, sent |-> wire])

\* The two parts are the invariant.
LEMMA ServedParts ==
  ASSUME Server', got' \in [Clients -> Gets], \A c \in Clients : Has(c, got'[c]), prefix' = prefix
  PROVE  ServedInv'
<1>1. \A c \in Clients : GoodClient(c)' BY DEF GoodClient, Has
<1>2. got' \in [Clients -> [size : Nat, data : Seq(Nat), done : BOOLEAN]] BY DEF Gets
<1> QED BY <1>1, <1>2 DEF Server, ServedInv

\* What ServedInv says of all clients.
LEMMA GotIs ==
  ASSUME ServedInv
  PROVE  got \in [Clients -> Gets] /\ \A c \in Clients : Has(c, got[c])
  BY ClientsHave DEF ServedInv, Gets

\* A client asks, acknowledges or gives up: the server's answer is right, and the client
\* begins anew or has what it had.
LEMMA ClientKeeps ==
  ASSUME ServedInv, NEW c \in Clients, T!SendRrq(c) \/ T!SendAck(c) \/ T!SendError(c)
  PROVE  ServedInv'
<1>1. UNCHANGED <<prefix, curtime>> BY DEF T!SendRrq, T!SendAck, T!SendError
<1>2. \E e : Good(e) /\ T!tftp_input(e)
  <2>1. CASE T!SendRrq(c)
    <3>1. PICK proper \in BOOLEAN, found \in BOOLEAN, readable \in BOOLEAN :
            T!tftp_input(T!tftp_handle_rrq(c, proper, found, readable))
      BY <2>1, Zenon DEF T!SendRrq
    <3> QED BY <3>1, RequestGood
  <2>2. CASE T!SendAck(c)
    <3>1. PICK readable \in BOOLEAN : T!tftp_input(T!tftp_handle_ack(c, readable))
      BY <2>2, Zenon DEF T!SendAck
    <3> QED BY <3>1, AckGood
  <2>3. CASE T!SendError(c) BY <2>3, GivenUpGood DEF T!SendError
  <2> QED BY <2>1, <2>2, <2>3
<1>3. Server' BY <1>1, <1>2, InputKeeps DEF Server, ServedInv
<1>4. got' \in [Clients -> Gets] /\ \A d \in Clients : Has(d, got'[d])
  <2>1. CASE got' = got BY <2>1, GotIs
  <2>2. CASE T!SendRrq(c)
    <3> DEFINE g == [size |-> IF Asked[c] = 0 THEN BlockSize ELSE 0, data |-> <<>>, done |-> FALSE]
    <3>1. got' = [got EXCEPT ![c] = g] BY <2>2 DEF T!SendRrq
    <3>2. <<>> \in Seq(Nat) /\ Len(<<>>) = 0 /\ <<>> = SubSeq(T!File, 1, 0) OBVIOUS
    <3>3. FileLen \in Nat /\ BlockSize \in Nat BY TftpAssumption
    <3>4. g \in Gets BY <3>2, <3>3 DEF Gets
    <3>5. g.size \in {0, SizeOf(c)} BY DEF SizeOf
    <3>6. Has(c, g) BY <3>2, <3>3, <3>4, <3>5 DEF Has
    <3> HIDE DEF g
    <3> QED BY <3>1, <3>4, <3>6, GotIs
  <2> QED BY <2>1, <2>2 DEF T!SendAck, T!SendError
<1> QED BY <1>1, <1>3, <1>4, ServedParts

\* A packet comes or is lost.
LEMMA WireShortens ==
  ASSUME ServedInv, wire # <<>>, wire' = Tail(wire), UNCHANGED <<prefix, sessions, files, curtime>>
  PROVE  Server' /\ Head(wire) \in Packets /\ GoodPacket(Head(wire))
<1>1. /\ sessions \in [T!Slots -> Sessions] /\ files \in Int /\ wire \in Seq(Packets)
      /\ \A k \in T!Slots : GoodSession(sessions[k])
      /\ \A i \in 1 .. Len(wire) : GoodPacket(wire[i])
  BY WireIs
<1>2. /\ Tail(wire) \in Seq(Packets) /\ Head(wire) = wire[1] /\ Head(wire) \in Packets
      /\ 1 \in 1 .. Len(wire)
      /\ \A i \in 1 .. Len(Tail(wire)) : Tail(wire)[i] = wire[i + 1] /\ i + 1 \in 1 .. Len(wire)
  BY <1>1
<1>3. \A i \in 1 .. Len(Tail(wire)) : GoodPacket(Tail(wire)[i]) BY <1>1, <1>2
<1>4. GoodPacket(Head(wire)) BY <1>1, <1>2
<1>5. Good([table |-> sessions, files |-> files, sent |-> wire])'
  BY <1>1, <1>2, <1>3, WirePrimed
<1> QED BY <1>2, <1>4, <1>5 DEF Server, ServedInv

\* A client takes the block it waits for, or the size, or nothing.
LEMMA ReceiveKeeps ==
  ASSUME ServedInv, T!Receive
  PROVE  ServedInv'
<1> DEFINE p == Head(wire)
           c == p.to
           has == got[c]
           next == has.size > 0 /\ ~has.done /\ p.nr * has.size = Len(has.data) + has.size
<1>1. Server' /\ p \in Packets /\ GoodPacket(p) BY WireShortens DEF T!Receive
<1>2. c \in Clients /\ p.nr \in Nat /\ p.data \in Seq(Nat) BY <1>1 DEF Packets
<1>3. Has(c, has) /\ has \in Gets BY <1>2, GotIs DEF Has
<1>4. ASSUME NEW g \in Gets, Has(c, g), got' = [got EXCEPT ![c] = g]
      PROVE  got' \in [Clients -> Gets] /\ \A d \in Clients : Has(d, got'[d])
  BY <1>2, <1>4, GotIs
<1>5. got' \in [Clients -> Gets] /\ \A d \in Clients : Has(d, got'[d])
  <2>1. CASE got' = got BY <2>1, GotIs
  <2>2. CASE p.op = "oack" /\ has.data = <<>> /\ got' = [got EXCEPT ![c].size = p.nr]
    <3> DEFINE g == [has EXCEPT !.size = p.nr]
    <3>1. p.nr = SizeOf(c) BY <1>1, <2>2 DEF GoodPacket
    <3>2. g \in Gets /\ g.size = SizeOf(c) /\ g.data = has.data /\ g.done = has.done
      BY <1>2, <1>3, <3>1 DEF Gets
    <3>3. got' = [got EXCEPT ![c] = g] BY <1>2, <2>2, GotIs
    <3> HIDE DEF g
    <3>4. Has(c, g) BY <1>3, <3>2 DEF Has
    <3> QED BY <1>4, <3>2, <3>3, <3>4
  <2>3. CASE /\ p.op = "data" /\ next
             /\ got' = [got EXCEPT ![c].data = @ \o p.data, ![c].done = Len(p.data) < has.size]
    <3> DEFINE all == has.data \o p.data
               full == Len(p.data) < has.size
               g == [has EXCEPT !.data = all, !.done = full]
    <3>1. PICK m \in Nat : p.nr = m + 1 /\ p.data = Block(c, m) BY <1>1, <2>3 DEF GoodPacket
    <3>2. prefix BY <1>1, <2>3 DEF GoodPacket
    <3>3. has.size = SizeOf(c) /\ SizeOf(c) \in Nat BY <1>2, <1>3, <2>3, SizeIsNat DEF Has
    <3>4. has.data \in Seq(Nat) /\ Len(has.data) <= FileLen
          /\ has.data = SubSeq(T!File, 1, Len(has.data))
      BY <1>3 DEF Has, Gets
    <3>5. got' = [got EXCEPT ![c] = g] BY <1>2, <2>3, GotIs DEF Gets
    <3>6. p.nr * has.size = Len(has.data) + has.size BY <2>3
    <3> HIDE DEF p, c, has
    <3>7. m * SizeOf(c) = Len(has.data)
      <4>1. (m + 1) * SizeOf(c) = Len(has.data) + SizeOf(c) BY <3>1, <3>3, <3>6
      <4>2. (m + 1) * SizeOf(c) = m * SizeOf(c) + SizeOf(c) BY <3>3
      <4>3. m * SizeOf(c) \in Nat BY <1>2, BlockIsNat
      <4>4. Len(has.data) \in Nat BY <3>4
      <4> QED BY <3>3, <4>1, <4>2, <4>3, <4>4
    <3>8. Begins(all) /\ (Len(p.data) < SizeOf(c) => Len(all) = FileLen)
      <4>1. Begins(has.data) BY <3>4 DEF Begins
      <4>2. has.data \in Seq(Nat) BY <3>4
      <4> QED BY <1>2, <3>1, <3>7, <4>1, <4>2, BlockFollows
    <3>9. full \in BOOLEAN OBVIOUS
    <3>10. full => Len(all) = FileLen BY <3>3, <3>8
    <3> HIDE DEF all, full
    <3>11. g \in Gets /\ g.size = has.size /\ g.data = all /\ g.done = full
      BY <1>3, <3>8, <3>9 DEF Gets, Begins
    <3> HIDE DEF g
    <3>12. Has(c, g) BY <1>3, <3>2, <3>3, <3>8, <3>10, <3>11 DEF Has, Begins
    <3> QED BY <1>4, <3>5, <3>11, <3>12
  <2> QED BY <2>1, <2>2, <2>3 DEF T!Receive
<1>6. prefix' = prefix BY DEF T!Receive
<1> QED BY <1>1, <1>5, <1>6, ServedParts
\* What a good client has is what ServedExactly promises of it.
LEMMA ServedRight ==
  ASSUME ServedInv
  PROVE  ServedExactly
<1> SUFFICES ASSUME NEW c \in Clients
             PROVE  /\ T!IsPrefix(got[c].data, T!File)
                    /\ got[c].done => got[c].data = T!File /\ prefix
  BY DEF ServedExactly, T!ServedExactly
<1> DEFINE data == got[c].data
<1>1. Has(c, got[c]) BY ClientsHave
<1>2. /\ data \in Seq(Nat) /\ Len(data) <= FileLen /\ data = SubSeq(T!File, 1, Len(data))
      /\ got[c].done => Len(data) = FileLen /\ prefix
  BY <1>1 DEF Has, Gets
<1>3. T!File \in Seq(Nat) /\ Len(T!File) = FileLen /\ FileLen \in Nat
  BY TftpAssumption DEF T!File
<1>4. SubSeq(data, 1, Len(data)) = data BY <1>2
<1>5. SubSeq(T!File, 1, FileLen) = T!File BY <1>3
<1> HIDE DEF data
<1>6. T!IsPrefix(data, T!File) BY <1>2, <1>3, <1>4 DEF T!IsPrefix
<1>7. got[c].done => data = T!File /\ prefix BY <1>2, <1>5
<1> QED BY <1>6, <1>7 DEF data

\* A client that follows the protocol has the beginning of the file, and all of it when it has
\* seen a block that is not full, whatever is lost, comes twice or is asked for again
\* (tftp_handle_rrq, tftp_handle_ack, tftp_send_next_block, tftp_read_data).
THEOREM FilesServedExactly == AllSpec => []ServedExactly
<1>1. AllInit => ServedInv
  <2> SUFFICES ASSUME AllInit PROVE ServedInv OBVIOUS
  <2>1. /\ prefix \in BOOLEAN /\ sessions = [k \in T!Slots |-> T!NoSession] /\ files = 0
        /\ wire = <<>> /\ curtime = 0
        /\ got = [c \in Clients |-> [size |-> 0, data |-> <<>>, done |-> FALSE]]
    BY DEF AllInit, T!Init
  <2>2. T!NoSession \in Sessions /\ GoodSession(T!NoSession)
    BY TftpAssumption DEF Sessions, GoodSession, T!NoSession
  <2>3. wire \in Seq(Packets) /\ Len(wire) = 0 BY <2>1
  <2>4. Good([table |-> sessions, files |-> files, sent |-> wire])
    <3> DEFINE r == [table |-> sessions, files |-> files, sent |-> wire]
    <3>1. r \in Effects /\ r.table = sessions /\ r.sent = wire BY <2>1, <2>2, <2>3 DEF Effects
    <3>2. \A k \in T!Slots : GoodSession(r.table[k]) BY <2>1, <2>2, <3>1
    <3>3. \A i \in 1 .. Len(r.sent) : GoodPacket(r.sent[i]) BY <2>3, <3>1
    <3> HIDE DEF r
    <3>4. Good(r) BY <3>1, <3>2, <3>3 DEF Good, Effects
    <3> QED BY <3>4 DEF r
  <2>5. <<>> \in Seq(Nat) /\ Len(<<>>) = 0 /\ <<>> = SubSeq(T!File, 1, 0) /\ FileLen \in Nat
    BY TftpAssumption
  <2>6. got \in [Clients -> [size : Nat, data : Seq(Nat), done : BOOLEAN]] BY <2>1, <2>5
  <2>7. ASSUME NEW c \in Clients PROVE GoodClient(c)
    <3>1. got[c].size = 0 /\ got[c].data = <<>> /\ ~got[c].done BY <2>1
    <3> QED BY <2>5, <3>1 DEF GoodClient
  <2> QED BY <2>1, <2>4, <2>6, <2>7 DEF ServedInv
<1>2. ServedInv /\ [AllNext]_allVars => ServedInv'
  <2> SUFFICES ASSUME ServedInv, [AllNext]_allVars PROVE ServedInv' OBVIOUS
  <2>1. CASE UNCHANGED tftpVars
    <3>1. UNCHANGED <<prefix, sessions, files, wire, got, curtime>> BY <2>1 DEF tftpVars
    <3>2. Server'
      <4>1. /\ sessions \in [T!Slots -> Sessions] /\ files \in Int /\ wire \in Seq(Packets)
            /\ \A k \in T!Slots : GoodSession(sessions[k])
            /\ \A i \in 1 .. Len(wire) : GoodPacket(wire[i])
        BY WireIs
      <4>2. Good([table |-> sessions, files |-> files, sent |-> wire])'
        BY <3>1, <4>1, WirePrimed
      <4> QED BY <3>1, <4>2 DEF Server, ServedInv
    <3> QED BY <3>1, <3>2, GotIs, ServedParts
  <2>2. CASE T!Next
    <3>1. CASE \E c \in Clients : T!SendRrq(c) \/ T!SendAck(c) \/ T!SendError(c)
      BY <3>1, ClientKeeps
    <3>2. CASE T!Receive BY <3>2, ReceiveKeeps
    <3>3. CASE T!Lose BY <3>3, WireShortens, GotIs, ServedParts DEF T!Lose
    <3>4. CASE T!Tick
      <4>1. UNCHANGED <<prefix, sessions, files, wire, got>> /\ curtime' = curtime + 1
        BY <3>4 DEF T!Tick
      <4>2. Server'
        <5>1. /\ sessions \in [T!Slots -> Sessions] /\ files \in Int /\ wire \in Seq(Packets)
              /\ \A k \in T!Slots : GoodSession(sessions[k])
              /\ \A i \in 1 .. Len(wire) : GoodPacket(wire[i])
          BY WireIs
        <5>2. Good([table |-> sessions, files |-> files, sent |-> wire])'
          BY <4>1, <5>1, WirePrimed
        <5> QED BY <4>1, <5>2 DEF Server, ServedInv
      <4> QED BY <4>1, <4>2, GotIs, ServedParts
    <3> QED BY <2>2, <3>1, <3>2, <3>3, <3>4 DEF T!Next
  <2> QED BY <2>1, <2>2, OneMoves DEF TftpMoves
<1>3. ServedInv => ServedExactly BY ServedRight
<1> QED BY <1>1, <1>2, <1>3, PTL DEF AllSpec

-----------------------------------------------------------------------------
(* Fragments, for any datagrams, interface and order of arrival.           *)

\* A set of numbers that is not empty has a least one.
LEMMA Least ==
  ASSUME NEW S \in SUBSET Nat, S # {}
  PROVE  \E x \in S : \A y \in S : x <= y
<1>1. PICK x \in S : \A y \in S : ~(<<y, x>> \in OpToRel(<, Nat))
  BY WFMin, NatLessThanWellFounded
<1>2. ASSUME NEW y \in S PROVE x <= y
  <2>1. y < x => <<y, x>> \in OpToRel(<, Nat) BY Zenon DEF OpToRel
  <2>2. ~(y < x) BY <1>1, <2>1
  <2> QED BY <2>2
<1> QED BY <1>2

\* Induction over the numbers from 1 to n, where a set says what is to be shown.
LEMMA OneUpTo ==
  ASSUME NEW n \in Nat, NEW S, n >= 1 => 1 \in S, \A i \in 1 .. n - 1 : i \in S => i + 1 \in S
  PROVE  1 .. n \subseteq S
<1> DEFINE Missing == (1 .. n) \ S
<1>1. SUFFICES ASSUME Missing # {} PROVE FALSE OBVIOUS
<1>2. PICK x \in Missing : \A y \in Missing : x <= y
  <2> HIDE DEF Missing
  <2>1. Missing \subseteq Nat BY DEF Missing
  <2> QED BY <1>1, <2>1, Least
<1>3. x \in 1 .. n /\ x \notin S BY <1>2
<1>4. x # 1 BY <1>3
<1>5. x - 1 \in 1 .. n - 1 /\ (x - 1) + 1 = x BY <1>3, <1>4
<1>6. x - 1 \notin S BY <1>3, <1>5
<1> QED BY <1>2, <1>5, <1>6

-----------------------------------------------------------------------------
(* A fragment.                                                             *)

Units(d) == {d} \X Nat
Geometries == [size : Nat, off : Nat, len : Nat, ext : BOOLEAN]
\* A kept fragment of d holds some of d's units, those of its place, in an mbuf that has room
\* for them and for the headers before them.
Kept(d) ==
  {f \in [off : Nat, data : Seq(Units(d)), more : BOOLEAN, mb : Geometries] :
     /\ Len(f.data) > 0 /\ f.off + Len(f.data) <= Size[d]
     /\ f.data = F!Contents(d, f.off, Len(f.data))
     /\ f.more = (f.off + Len(f.data) < Size[d])
     /\ f.mb.len = Len(f.data) /\ f.mb.off >= LinkHdr + HLen
     /\ f.mb.off + f.mb.len <= f.mb.size}

LEMMA SizeIs == ASSUME NEW d \in Originals PROVE Size[d] \in Nat \ {0}
  BY FragmentAssumption

\* The units of a datagram, and some of them.
LEMMA ContentsAre ==
  ASSUME NEW d \in Originals, NEW off \in Nat, NEW n \in Nat
  PROVE  /\ F!Contents(d, off, n) \in Seq(Units(d)) /\ Len(F!Contents(d, off, n)) = n
         /\ \A i \in 1 .. n : F!Contents(d, off, n)[i] = <<d, off + i>>
<1>1. \A i \in 1 .. n : <<d, off + i>> \in Units(d) BY DEF Units
<1> QED BY <1>1 DEF F!Contents

\* A fragment that has lost its first units is one still.
LEMMA TrimKeeps ==
  ASSUME NEW d \in Originals, NEW f \in Kept(d), NEW i \in Nat, i < Len(f.data)
  PROVE  /\ F!Trim(f, i) \in Kept(d)
         /\ F!Trim(f, i).off = f.off + i /\ F!End(F!Trim(f, i)) = F!End(f)
<1> DEFINE n == Len(f.data)
           data == SubSeq(f.data, i + 1, n)
           mb == F!m_adj(f.mb, i)
           g == F!Trim(f, i)
<1>1. /\ f \in [off : Nat, data : Seq(Units(d)), more : BOOLEAN, mb : Geometries]
      /\ n > 0 /\ f.off + n <= Size[d] /\ f.data = F!Contents(d, f.off, n)
      /\ f.more = (f.off + n < Size[d]) /\ f.mb.len = n /\ f.mb.off >= LinkHdr + HLen
      /\ f.mb.off + f.mb.len <= f.mb.size
  BY DEF Kept
<1>2. f.off \in Nat /\ f.data \in Seq(Units(d)) /\ f.mb \in Geometries /\ n \in Nat
      /\ f.more \in BOOLEAN /\ i < n
  BY <1>1
<1>3. LinkHdr \in Nat /\ HLen \in Nat /\ Size[d] \in Nat BY SizeIs, FragmentAssumption
<1> DEFINE from == f.off + i
<1>4. g = [f EXCEPT !.off = from, !.data = data, !.mb = mb] /\ from \in Nat
  BY <1>1, <1>2 DEF F!Trim
<1>5. data \in Seq(Units(d)) /\ Len(data) = n - i /\ data = F!Contents(d, f.off + i, n - i)
  <2>1. data \in Seq(Units(d)) /\ Len(data) = n - i BY <1>2
  <2>2. \A j \in 1 .. n - i : data[j] = f.data[j + i] BY <1>2
  <2>3. \A j \in 1 .. n - i : f.data[j + i] = <<d, f.off + (j + i)>>
    <3> HIDE DEF n
    <3>1. \A k \in 1 .. n : F!Contents(d, f.off, n)[k] = <<d, f.off + k>>
      BY <1>2, ContentsAre
    <3>2. \A j \in 1 .. n - i : j + i \in 1 .. n BY <1>2
    <3> QED BY <1>1, <3>1, <3>2
  <2>4. \A j \in 1 .. n - i : data[j] = <<d, (f.off + i) + j>>
    <3>1. \A j \in 1 .. n - i : f.off + (j + i) = (f.off + i) + j BY <1>2
    <3> QED BY <2>2, <2>3, <3>1
  <2>5. data = [j \in 1 .. n - i |-> <<d, (f.off + i) + j>>]
    <3> DEFINE l == n - i
    <3>1. l \in Nat BY <1>2
    <3> HIDE DEF data, n, l
    <3>2. data \in [1 .. l -> Units(d)] BY <2>1, <3>1 DEF l
    <3>3. data = [j \in 1 .. l |-> <<d, (f.off + i) + j>>] BY <2>4, <3>2 DEF l
    <3> QED BY <3>3 DEF l
  <2> QED BY <2>1, <2>5 DEF F!Contents
<1>6. /\ mb \in Geometries /\ mb.len = n - i /\ mb.off = f.mb.off + i
      /\ mb.off + mb.len <= mb.size /\ mb.off >= LinkHdr + HLen
  <2> DEFINE o == f.mb.off + i
             l == f.mb.len - i
  <2>1. mb = [f.mb EXCEPT !.off = o, !.len = l] BY <1>2 DEF F!m_adj, Geometries
  <2>2. o \in Nat /\ l \in Nat /\ l = n - i /\ o + l <= f.mb.size /\ o >= LinkHdr + HLen
    <3> HIDE DEF n
    <3> QED BY <1>1, <1>2, <1>3 DEF Geometries
  <2> HIDE DEF o, l, n, mb
  <2>3. mb \in Geometries /\ mb.len = l /\ mb.off = o /\ mb.size = f.mb.size
    BY <1>2, <2>1, <2>2 DEF Geometries
  <2> QED BY <2>2, <2>3 DEF o, n
<1> HIDE DEF data, mb, g, n, from
<1>7. /\ g \in [off : Nat, data : Seq(Units(d)), more : BOOLEAN, mb : Geometries]
      /\ g.off = from /\ g.data = data /\ g.more = f.more /\ g.mb = mb
  <2>1. data \in Seq(Units(d)) /\ mb \in Geometries BY <1>5, <1>6
  <2> QED BY <1>1, <1>4, <2>1
<1>8. F!End(g) = F!End(f) /\ from + Len(data) = f.off + n
  BY <1>2, <1>5, <1>7 DEF F!End, n, from
<1>9. g \in Kept(d)
  <2>1. Len(data) > 0 /\ from + Len(data) <= Size[d] /\ data = F!Contents(d, from, Len(data))
        /\ f.more = (from + Len(data) < Size[d])
    BY <1>1, <1>2, <1>5, <1>8 DEF from
  <2> QED BY <1>5, <1>6, <1>7, <2>1 DEF Kept
<1> QED BY <1>7, <1>8, <1>9 DEF g, from

\* What slirp_input hands over is a fragment.
LEMMA FragIsKept ==
  ASSUME NEW d \in Originals, NEW off \in Nat, NEW n \in Nat \ {0}, off + n <= Size[d],
         HLen + n <= if_mtu
  PROVE  F!Frag(d, off, n) \in Kept(d)
<1> DEFINE mb == F!Arrived(n)
<1>1. /\ mb \in Geometries /\ mb.len = n /\ mb.off = LinkHdr + HLen /\ mb.off + mb.len <= mb.size
  <2> DEFINE new == [size |-> MSize, off |-> 0, len |-> 0, ext |-> FALSE]
             o == LinkHdr + HLen
  <2>1. mb = [new EXCEPT !.off = o, !.len = n] BY DEF F!Arrived, F!NewMbuf
  <2>2. o \in Nat /\ o + n <= MSize /\ MSize \in Nat BY FragmentAssumption
  <2>3. new \in Geometries /\ new.size = MSize BY <2>2 DEF Geometries
  <2> HIDE DEF mb, new, o
  <2>4. mb \in Geometries /\ mb.len = n /\ mb.off = o /\ mb.size = MSize
    BY <2>1, <2>2, <2>3 DEF Geometries
  <2> QED BY <2>2, <2>4 DEF o
<1>2. F!Contents(d, off, n) \in Seq(Units(d)) /\ Len(F!Contents(d, off, n)) = n BY ContentsAre
<1> HIDE DEF mb
<1>3. F!Frag(d, off, n) = [off |-> off, data |-> F!Contents(d, off, n), more |-> off + n < Size[d],
                           mb |-> mb]
  BY DEF F!Frag, mb
<1>4. Size[d] \in Nat /\ HLen \in Nat /\ LinkHdr \in Nat BY SizeIs, FragmentAssumption
<1> QED BY <1>1, <1>2, <1>3, <1>4 DEF Kept

\* What is used of a fragment in the following.
LEMMA KeptIs ==
  ASSUME NEW d \in Originals, NEW f \in Kept(d)
  PROVE  /\ f.off \in Nat /\ Len(f.data) \in Nat \ {0} /\ F!End(f) = f.off + Len(f.data)
         /\ F!End(f) \in Nat /\ f.off < F!End(f) /\ F!End(f) <= Size[d]
         /\ f.more = (F!End(f) < Size[d])
  BY DEF Kept, F!End

-----------------------------------------------------------------------------
(* The list of the fragments of a datagram.                                *)

\* Fragments in the order of their places, none of which reaches into the next.
Lists(d) == {s \in Seq(Kept(d)) : \A i \in 1 .. Len(s) - 1 : F!End(s[i]) <= s[i + 1].off}

\* The place for a fragment is behind those that begin where it does or before.
LEMMA AfterIs ==
  ASSUME NEW d \in Originals, NEW s \in Seq(Kept(d)), NEW off \in Nat
  PROVE  /\ F!After(s, off) \in 1 .. Len(s) + 1
         /\ \A j \in 1 .. F!After(s, off) - 1 : s[j].off <= off
         /\ F!After(s, off) <= Len(s) => s[F!After(s, off)].off > off
<1> DEFINE P(i) == /\ \A j \in 1 .. i - 1 : s[j].off <= off
                   /\ i <= Len(s) => s[i].off > off
           S == {i \in 1 .. Len(s) + 1 : i <= Len(s) => s[i].off > off}
<1>1. Len(s) \in Nat /\ \A j \in 1 .. Len(s) : s[j].off \in Nat BY DEF Kept
<1>2. PICK i \in S : \A j \in S : i <= j
  <2>1. S \subseteq Nat /\ Len(s) + 1 \in S BY <1>1
  <2> HIDE DEF S
  <2> QED BY <2>1, Least
<1>3. ASSUME NEW j \in 1 .. i - 1 PROVE s[j].off <= off
  <2>1. j \notin S /\ j \in 1 .. Len(s) BY <1>1, <1>2
  <2> QED BY <1>1, <2>1
<1>4. i \in 1 .. Len(s) + 1 /\ P(i) BY <1>2, <1>3
<1>5. F!After(s, off) = CHOOSE k \in 1 .. Len(s) + 1 : P(k) BY DEF F!After
<1> HIDE DEF P
<1>6. F!After(s, off) \in 1 .. Len(s) + 1 /\ P(F!After(s, off)) BY <1>4, <1>5
<1> QED BY <1>6 DEF P

\* The first fragment from a place on that is not covered.
LEMMA UncoveredIs ==
  ASSUME NEW d \in Originals, NEW s \in Seq(Kept(d)), NEW f, NEW i \in 1 .. Len(s) + 1
  PROVE  /\ F!Uncovered(s, i, f) \in i .. Len(s) + 1
         /\ F!Uncovered(s, i, f) <= Len(s) => ~F!Covered(s[F!Uncovered(s, i, f)], f)
<1> DEFINE P(k) == /\ \A j \in i .. k - 1 : F!Covered(s[j], f)
                   /\ k <= Len(s) => ~F!Covered(s[k], f)
           S == {k \in i .. Len(s) + 1 : k <= Len(s) => ~F!Covered(s[k], f)}
<1>1. Len(s) \in Nat OBVIOUS
<1>2. PICK k \in S : \A j \in S : k <= j
  <2>1. S \subseteq Nat /\ Len(s) + 1 \in S BY <1>1
  <2> HIDE DEF S
  <2> QED BY <2>1, Least
<1>3. ASSUME NEW j \in i .. k - 1 PROVE F!Covered(s[j], f)
  <2>1. j \notin S /\ j \in i .. Len(s) BY <1>1, <1>2
  <2> QED BY <1>1, <2>1
<1>4. k \in i .. Len(s) + 1 /\ P(k) BY <1>2, <1>3
<1>5. F!Uncovered(s, i, f) = CHOOSE m \in i .. Len(s) + 1 : P(m) BY DEF F!Uncovered
<1> HIDE DEF P
<1>6. F!Uncovered(s, i, f) \in i .. Len(s) + 1 /\ P(F!Uncovered(s, i, f)) BY <1>4, <1>5
<1> QED BY <1>6 DEF P

\* What is left of a fragment begins where the preceding one ends, or later.
LEMMA PrecededKeeps ==
  ASSUME NEW d \in Originals, NEW s \in Lists(d), NEW f \in Kept(d), NEW i \in 1 .. Len(s) + 1,
         i > 1 => s[i - 1].off <= f.off, ~(i > 1 /\ F!End(s[i - 1]) >= F!End(f))
  PROVE  /\ F!Preceded(s, i, f) \in Kept(d)
         /\ i > 1 => F!End(s[i - 1]) <= F!Preceded(s, i, f).off
<1>1. f.off \in Nat /\ F!End(f) \in Nat /\ F!End(f) = f.off + Len(f.data) /\ Len(f.data) \in Nat
  BY KeptIs
<1>2. CASE i > 1 /\ F!End(s[i - 1]) > f.off
  <2> DEFINE q == s[i - 1]
             n == F!End(q) - f.off
  <2>1. q \in Kept(d) BY <1>2 DEF Lists
  <2>2. F!End(q) \in Nat BY <2>1, KeptIs
  <2>3. n \in Nat /\ n < Len(f.data) BY <1>1, <1>2, <2>2
  <2>4. F!Preceded(s, i, f) = F!Trim(f, n) BY <1>2 DEF F!Preceded
  <2>5. f.off + n = F!End(q) BY <1>1, <2>2
  <2> HIDE DEF n
  <2> QED BY <2>2, <2>3, <2>4, <2>5, TrimKeeps
<1>3. CASE ~(i > 1 /\ F!End(s[i - 1]) > f.off)
  <2>1. F!Preceded(s, i, f) = f BY <1>3 DEF F!Preceded
  <2>2. ASSUME i > 1 PROVE F!End(s[i - 1]) \in Nat
    <3>1. s[i - 1] \in Kept(d) BY <2>2 DEF Lists
    <3> QED BY <3>1, KeptIs
  <2> QED BY <1>1, <1>3, <2>1, <2>2
<1> QED BY <1>2, <1>3

\* What is left of the fragments behind begins where the new one ends, or later.
LEMMA SucceedingKeeps ==
  ASSUME NEW d \in Originals, NEW s \in Lists(d), NEW f \in Kept(d), NEW i \in 1 .. Len(s) + 1
  PROVE  /\ F!Succeeding(s, i, f) \in Lists(d)
         /\ Len(F!Succeeding(s, i, f)) > 0 => F!End(f) <= F!Succeeding(s, i, f)[1].off
<1> DEFINE k == F!Uncovered(s, i, f)
           n == Len(s) - k + 1
           Cut == F!Trim(s[k], F!End(f) - s[k].off)
           t == F!Succeeding(s, i, f)
<1>1. Len(s) \in Nat /\ s \in Seq(Kept(d)) /\ \A j \in 1 .. Len(s) : s[j] \in Kept(d)
  BY DEF Lists
<1>2. k \in 1 .. Len(s) + 1 /\ (k <= Len(s) => ~F!Covered(s[k], f)) BY <1>1, UncoveredIs
<1>3. n \in Nat BY <1>1, <1>2
<1>4. t = [j \in 1 .. n |-> IF j = 1 /\ F!End(f) > s[k].off THEN Cut ELSE s[j + k - 1]]
  BY DEF F!Succeeding
<1>5. F!End(f) \in Nat BY KeptIs
<1>6. ASSUME n > 0, F!End(f) > s[k].off
      PROVE  Cut \in Kept(d) /\ Cut.off = F!End(f) /\ F!End(Cut) = F!End(s[k])
  <2> DEFINE q == s[k]
             m == F!End(f) - q.off
  <2>1. q \in Kept(d) /\ ~F!Covered(q, f) BY <1>1, <1>2, <1>6
  <2>2. q.off \in Nat /\ F!End(q) = q.off + Len(q.data) /\ Len(q.data) \in Nat BY <2>1, KeptIs
  <2>3. m \in Nat /\ m < Len(q.data) BY <1>5, <1>6, <2>1, <2>2 DEF F!Covered
  <2>4. q.off + m = F!End(f) BY <1>5, <2>2
  <2> HIDE DEF m, q
  <2>5. F!Trim(q, m) \in Kept(d) /\ F!Trim(q, m).off = F!End(f) /\ F!End(F!Trim(q, m)) = F!End(q)
    BY <2>1, <2>3, <2>4, TrimKeeps
  <2> QED BY <2>5 DEF m, q
<1> HIDE DEF k, n, Cut, t
<1>7. \A j \in 1 .. n : j + k - 1 \in 1 .. Len(s) BY <1>1, <1>2, <1>3 DEF n
<1>8. ASSUME NEW j \in 1 .. n
      PROVE  t[j] \in Kept(d) /\ F!End(t[j]) = F!End(s[j + k - 1])
             /\ (j > 1 => t[j] = s[j + k - 1])
  <2>1. s[j + k - 1] \in Kept(d) BY <1>1, <1>7
  <2>2. CASE j = 1 /\ F!End(f) > s[k].off
    <3>1. t[j] = Cut /\ j + k - 1 = k /\ n > 0 BY <1>2, <1>3, <1>4, <2>2
    <3> QED BY <1>6, <2>2, <3>1
  <2>3. CASE ~(j = 1 /\ F!End(f) > s[k].off)
    <3>1. t[j] = s[j + k - 1] BY <1>4, <2>3
    <3> QED BY <2>1, <3>1
  <2> QED BY <1>3, <2>2, <2>3
<1>9. t \in Seq(Kept(d)) /\ Len(t) = n BY <1>3, <1>4, <1>8
<1>10. ASSUME NEW j \in 1 .. n - 1 PROVE F!End(t[j]) <= t[j + 1].off
  <2>1. j \in 1 .. n /\ j + 1 \in 1 .. n /\ j + 1 > 1 BY <1>3
  <2>2. F!End(t[j]) = F!End(s[j + k - 1]) /\ t[j + 1] = s[j + 1 + k - 1] BY <1>8, <2>1
  <2>3. j + k - 1 \in 1 .. Len(s) - 1 /\ j + 1 + k - 1 = (j + k - 1) + 1
    BY <1>1, <1>2, <1>7, <2>1
  <2>4. F!End(s[j + k - 1]) <= s[(j + k - 1) + 1].off BY <2>3 DEF Lists
  <2> QED BY <2>2, <2>3, <2>4
<1>11. t \in Lists(d) BY <1>3, <1>9, <1>10 DEF Lists
<1>12. ASSUME n > 0 PROVE F!End(f) <= t[1].off
  <2>1. 1 \in 1 .. n /\ 1 + k - 1 = k /\ k \in 1 .. Len(s) BY <1>2, <1>3, <1>7, <1>12
  <2>2. CASE F!End(f) > s[k].off
    <3>1. t[1] = Cut BY <1>4, <2>1, <2>2
    <3> QED BY <1>5, <1>6, <1>12, <2>2, <3>1
  <2>3. CASE ~(F!End(f) > s[k].off)
    <3>1. t[1] = s[k] BY <1>4, <2>1, <2>3
    <3>2. s[k].off \in Nat BY <1>1, <2>1, KeptIs
    <3> QED BY <1>5, <2>3, <3>1, <3>2
  <2> QED BY <2>2, <2>3
<1> QED BY <1>9, <1>11, <1>12 DEF t

\* Two lists, the second behind the first, are a list.
LEMMA ListsJoin ==
  ASSUME NEW d \in Originals, NEW s \in Lists(d), NEW t \in Lists(d),
         Len(s) > 0 /\ Len(t) > 0 => F!End(s[Len(s)]) <= t[1].off
  PROVE  s \o t \in Lists(d) /\ Len(s \o t) = Len(s) + Len(t)
<1> DEFINE r == s \o t
<1>1. s \in Seq(Kept(d)) /\ t \in Seq(Kept(d)) /\ Len(s) \in Nat /\ Len(t) \in Nat BY DEF Lists
<1>2. /\ r \in Seq(Kept(d)) /\ Len(r) = Len(s) + Len(t)
      /\ \A i \in 1 .. Len(r) : r[i] = IF i <= Len(s) THEN s[i] ELSE t[i - Len(s)]
  BY <1>1
<1> HIDE DEF r
<1>3. ASSUME NEW i \in 1 .. Len(r) - 1 PROVE F!End(r[i]) <= r[i + 1].off
  <2>1. i \in 1 .. Len(r) /\ i + 1 \in 1 .. Len(r) BY <1>1, <1>2
  <2>2. CASE i < Len(s)
    <3>1. r[i] = s[i] /\ r[i + 1] = s[i + 1] /\ i \in 1 .. Len(s) - 1 BY <1>1, <1>2, <2>1, <2>2
    <3> QED BY <3>1 DEF Lists
  <2>3. CASE i = Len(s)
    <3>1. r[i] = s[Len(s)] /\ r[i + 1] = t[1] /\ Len(s) > 0 /\ Len(t) > 0
      BY <1>1, <1>2, <2>1, <2>3
    <3> QED BY <3>1
  <2>4. CASE i > Len(s)
    <3> DEFINE j == i - Len(s)
    <3>1. j \in 1 .. Len(t) - 1 /\ i + 1 - Len(s) = j + 1 BY <1>1, <1>2, <2>4
    <3>2. r[i] = t[j] /\ r[i + 1] = t[j + 1] BY <1>1, <1>2, <2>1, <2>4, <3>1
    <3> QED BY <3>1, <3>2 DEF Lists
  <2> QED BY <1>1, <2>2, <2>3, <2>4
<1>4. r \in Lists(d) BY <1>2, <1>3 DEF Lists
<1> QED BY <1>2, <1>4 DEF r

\* A fragment goes where it belongs, or is dropped.
LEMMA ReassKeeps ==
  ASSUME NEW d \in Originals, NEW f \in Kept(d), NEW fp, NEW s \in Lists(d), NEW ttl,
         fp = [d |-> d, ttl |-> ttl, frags |-> s]
  PROVE  \E r \in Lists(d) : Len(r) > 0 /\ F!ip_reass(d, f, fp) = [d |-> d, ttl |-> ttl, frags |-> r]
<1> DEFINE i == F!After(s, f.off)
           new == F!Preceded(s, i, f)
           t == F!Succeeding(s, i, new)
           before == SubSeq(s, 1, i - 1)
           r == before \o <<new>> \o t
<1>1. s \in Seq(Kept(d)) /\ Len(s) \in Nat /\ f.off \in Nat BY KeptIs DEF Lists
<1>2. i \in 1 .. Len(s) + 1 /\ \A j \in 1 .. i - 1 : s[j].off <= f.off BY <1>1, AfterIs
<1>3. fp.frags = s OBVIOUS
<1> HIDE DEF i
<1>4. CASE i > 1 /\ F!End(s[i - 1]) >= F!End(f)
  <2>1. F!ip_reass(d, f, fp) = fp BY <1>3, <1>4 DEF F!ip_reass, i
  <2>2. Len(s) > 0 BY <1>1, <1>2, <1>4
  <2> QED BY <2>1, <2>2
<1>5. CASE ~(i > 1 /\ F!End(s[i - 1]) >= F!End(f))
  <2>1. F!ip_reass(d, f, fp) = [fp EXCEPT !.frags = r] BY <1>3, <1>5 DEF F!ip_reass, i
  <2>2. i > 1 => s[i - 1].off <= f.off BY <1>2
  <2>3. new \in Kept(d) /\ (i > 1 => F!End(s[i - 1]) <= new.off)
    BY <1>2, <1>5, <2>2, PrecededKeeps
  <2> HIDE DEF new
  <2>4. t \in Lists(d) /\ (Len(t) > 0 => F!End(new) <= t[1].off)
    BY <1>2, <2>3, SucceedingKeeps
  <2> HIDE DEF t
  <2>5. /\ before \in Seq(Kept(d)) /\ Len(before) = i - 1
        /\ \A j \in 1 .. i - 1 : before[j] = s[j]
    BY <1>1, <1>2
  <2>6. before \in Lists(d)
    <3>1. \A j \in 1 .. i - 2 : F!End(s[j]) <= s[j + 1].off BY <1>1, <1>2 DEF Lists
    <3> HIDE DEF before
    <3> QED BY <1>2, <2>5, <3>1 DEF Lists
  <2>7. <<new>> \in Lists(d) /\ Len(<<new>>) = 1 /\ <<new>>[1] = new BY <2>3 DEF Lists
  <2>8. before \o <<new>> \in Lists(d) /\ Len(before \o <<new>>) = i
        /\ (before \o <<new>>)[i] = new
    <3>1. Len(before) > 0 => F!End(before[Len(before)]) <= new.off
      <4> HIDE DEF before
      <4> QED BY <1>2, <2>3, <2>5
    <3>2. (before \o <<new>>)[i] = new
      <4> HIDE DEF before
      <4> QED BY <1>2, <2>5
    <3> HIDE DEF before
    <3> QED BY <1>2, <2>5, <2>6, <2>7, <3>1, <3>2, ListsJoin
  <2> DEFINE b == before \o <<new>>
  <2> HIDE DEF b
  <2>9. b \in Lists(d) /\ Len(b) = i /\ b[i] = new BY <2>8 DEF b
  <2>10. b \o t \in Lists(d) /\ Len(b \o t) = i + Len(t) BY <2>4, <2>9, ListsJoin
  <2>11. Len(b \o t) > 0
    <3>1. Len(t) \in Nat BY <2>4 DEF Lists
    <3> QED BY <1>2, <2>10, <3>1
  <2>12. r = b \o t BY DEF b
  <2> HIDE DEF r
  <2> QED BY <2>1, <2>10, <2>11, <2>12
<1> QED BY <1>4, <1>5

-----------------------------------------------------------------------------
(* The datagram.                                                           *)

\* m_cat makes room.
LEMMA CatFits ==
  ASSUME NEW m \in Geometries, NEW n \in Geometries, m.off + m.len <= m.size
  PROVE  /\ F!m_cat(m, n) \in Geometries /\ F!m_cat(m, n).off = m.off
         /\ F!m_cat(m, n).len = m.len + n.len
         /\ F!m_cat(m, n).off + F!m_cat(m, n).len <= F!m_cat(m, n).size
<1> DEFINE l == m.len + n.len
           big == l + m.off
           grown == [m EXCEPT !.size = big, !.ext = TRUE]
           room == IF F!M_FREEROOM(m) < n.len THEN F!m_inc(m, l) ELSE m
           r == F!m_cat(m, n)
<1>1. m.off \in Nat /\ m.len \in Nat /\ m.size \in Nat /\ n.len \in Nat BY DEF Geometries
<1>2. l \in Nat /\ big \in Nat BY <1>1
<1>3. grown \in Geometries /\ grown.off = m.off /\ grown.len = m.len /\ grown.size = big
  <2> HIDE DEF big
  <2> QED BY <1>2 DEF Geometries
<1>4. /\ room \in Geometries /\ room.off = m.off /\ room.len = m.len /\ m.off + l <= room.size
  <2>1. CASE F!M_FREEROOM(m) < n.len
    <3>1. m.size - m.off - m.len < n.len BY <2>1 DEF F!M_FREEROOM, F!M_ROOM
    <3>2. ~(F!M_ROOM(m) > l) BY <1>1, <3>1 DEF F!M_ROOM
    <3>3. room = grown BY <2>1, <3>2 DEF F!m_inc
    <3> HIDE DEF room, grown
    <3> QED BY <1>1, <1>3, <3>3
  <2>2. CASE ~(F!M_FREEROOM(m) < n.len)
    <3>1. ~(m.size - m.off - m.len < n.len) BY <2>2 DEF F!M_FREEROOM, F!M_ROOM
    <3>2. room = m BY <2>2
    <3> QED BY <1>1, <3>1, <3>2
  <2> QED BY <2>1, <2>2
<1>5. r = [room EXCEPT !.len = room.len + n.len] BY DEF F!m_cat
<1> HIDE DEF room, r
<1>6. room.len + n.len = l BY <1>4
<1> HIDE DEF l
<1>7. r \in Geometries /\ r.off = room.off /\ r.len = l /\ r.size = room.size
  BY <1>2, <1>4, <1>5, <1>6 DEF Geometries
<1> QED BY <1>4, <1>7 DEF l, r

\* Units that follow each other.
LEMMA ContentsJoin ==
  ASSUME NEW d \in Originals, NEW a \in Nat, NEW n \in Nat
  PROVE  F!Contents(d, 0, a) \o F!Contents(d, a, n) = F!Contents(d, 0, a + n)
<1> DEFINE s == F!Contents(d, 0, a)
           t == F!Contents(d, a, n)
           r == F!Contents(d, 0, a + n)
<1>1. /\ s \in Seq(Units(d)) /\ t \in Seq(Units(d)) /\ r \in Seq(Units(d))
      /\ Len(s) = a /\ Len(t) = n /\ Len(r) = a + n
  <2>1. 0 \in Nat /\ a + n \in Nat OBVIOUS
  <2> HIDE DEF s, t, r
  <2> QED BY <2>1, ContentsAre DEF s, t, r
<1>2. \A i \in 1 .. a : s[i] = <<d, 0 + i>> BY ContentsAre
<1>3. \A i \in 1 .. n : t[i] = <<d, a + i>> BY ContentsAre
<1>4. \A i \in 1 .. a + n : r[i] = <<d, 0 + i>>
  <2>1. 0 \in Nat /\ a + n \in Nat OBVIOUS
  <2> QED BY <2>1, ContentsAre
<1> HIDE DEF s, t, r
<1> DEFINE l == a + n
<1>l. l \in Nat OBVIOUS
<1>5. \A i \in 1 .. l : (s \o t)[i] = r[i]
  <2> SUFFICES ASSUME NEW i \in 1 .. l PROVE (s \o t)[i] = r[i] OBVIOUS
  <2>1. CASE i <= a
    <3>1. (s \o t)[i] = s[i] /\ i \in 1 .. a BY <1>1, <2>1
    <3> QED BY <1>2, <1>4, <3>1
  <2>2. CASE i > a
    <3> DEFINE j == i - a
    <3>1. j \in 1 .. n /\ a + j = 0 + i /\ i \in 1 .. a + n BY <2>2
    <3>2. (s \o t)[i] = t[j] BY <1>1, <2>2, <3>1
    <3>3. t[j] = <<d, a + j>> BY <1>3, <3>1
    <3>4. r[i] = <<d, 0 + i>> BY <1>4, <3>1
    <3> QED BY <3>1, <3>2, <3>3, <3>4
  <2>3. i <= a \/ i > a BY <1>l
  <2> QED BY <2>1, <2>2, <2>3, Zenon
<1>6. s \o t \in Seq(Units(d)) /\ Len(s \o t) = l BY <1>1
<1>7. l \in Nat /\ Len(r) = l BY <1>1
<1> HIDE DEF l
<1> DEFINE u == s \o t
<1> HIDE DEF u
<1>8. u \in Seq(Units(d)) /\ Len(u) = l /\ r \in Seq(Units(d)) /\ \A i \in 1 .. l : u[i] = r[i]
  BY <1>1, <1>5, <1>6 DEF u
<1>9. u \in [1 .. l -> Units(d)] BY <1>7, <1>8
<1>10. r \in [1 .. l -> Units(d)] BY <1>7, <1>8
<1>11. u = r BY <1>8, <1>9, <1>10
<1> QED BY <1>11 DEF s, t, r, u

\* c is the function that concatenates n fragments of s, the first being first.
Follows(s, c, i) == [data |-> c.data \o s[i].data, mb |-> F!m_cat(c.mb, s[i].mb)]
Cat(s, first, n, c) == c = [i \in 1 .. n |-> IF i = 1 THEN first ELSE Follows(s, c[i - 1], i)]
LEMMA CatExists ==
  ASSUME NEW n \in Nat, n >= 1, NEW s, NEW first
  PROVE  \E c : Cat(s, first, n, c)
<1> DEFINE Rec(c, m) == c = [i \in 1 .. m |-> IF i = 1 THEN first ELSE Follows(s, c[i - 1], i)]
           S == {m \in 1 .. n : \E c : Rec(c, m)}
<1>1. 1 \in S
  <2> DEFINE h == [i \in 1 .. 1 |-> first]
  <2>1. h = [i \in 1 .. 1 |-> IF i = 1 THEN first ELSE Follows(s, h[i - 1], i)] OBVIOUS
  <2>2. \E c : Rec(c, 1) BY <2>1
  <2> QED BY <2>2
<1>2. ASSUME NEW m \in 1 .. n - 1, m \in S PROVE m + 1 \in S
  <2>1. PICK k : Rec(k, m) BY <1>2
  <2> DEFINE h == [i \in 1 .. m + 1 |-> IF i = 1 THEN first ELSE Follows(s, k[i - 1], i)]
  <2>2. \A i \in 1 .. m : h[i] = k[i] BY <2>1
  <2>3. \A i \in 1 .. m + 1 : i # 1 => h[i - 1] = k[i - 1]
    <3> HIDE DEF h
    <3> QED BY <2>2
  <2>4. h = [i \in 1 .. m + 1 |-> IF i = 1 THEN first ELSE Follows(s, h[i - 1], i)]
    BY <2>3, Zenon
  <2>5. \E c : Rec(c, m + 1) BY <2>4
  <2> QED BY <2>5
<1>3. n \in S
  <2> HIDE DEF S
  <2>1. 1 .. n \subseteq S BY <1>1, <1>2, OneUpTo
  <2> QED BY <2>1
<1>4. \E c : Rec(c, n) BY <1>3
<1> QED BY <1>4 DEF Cat

\* Fragments without a gap, up to the last, are the datagram.
LEMMA WholeIs ==
  ASSUME NEW d \in Originals, NEW s \in Lists(d), Len(s) > 0, F!Complete(s)
  PROVE  /\ F!Concatenated(s).data = F!Whole(d) /\ F!InBounds(F!Concatenated(s).mb)
         /\ F!Concatenated(s).mb.len = HLen + Len(F!Concatenated(s).data)
<1> DEFINE first == [data |-> s[1].data, mb |-> s[1].mb]
           n == Len(s)
           cat == CHOOSE c : Cat(s, first, n, c)
           w == F!Concatenated(s)
<1>1. /\ n \in Nat /\ n >= 1 /\ DOMAIN s = 1 .. n /\ \A i \in 1 .. n : s[i] \in Kept(d)
  BY DEF Lists
<1>2. /\ s[1].off = 0 /\ \A i \in 1 .. n : i # 1 => s[i].off = F!End(s[i - 1])
      /\ ~s[n].more
  BY <1>1 DEF F!Complete, F!Last
<1>3. Cat(s, first, n, cat)
  <2>1. \E c : Cat(s, first, n, c)
    <3> HIDE DEF first, n
    <3> QED BY <1>1, CatExists
  <2> QED BY <2>1
<1>4. w = [cat[n] EXCEPT !.mb.off = cat[n].mb.off - HLen, !.mb.len = cat[n].mb.len + HLen]
  BY <1>1 DEF F!Concatenated, Cat, Follows
<1> DEFINE P(i) == /\ cat[i] = [data |-> F!Contents(d, 0, F!End(s[i])), mb |-> cat[i].mb]
                   /\ cat[i].mb \in Geometries /\ cat[i].mb.len = F!End(s[i])
                   /\ cat[i].mb.off >= LinkHdr + HLen
                   /\ cat[i].mb.off + cat[i].mb.len <= cat[i].mb.size
           S == {i \in 1 .. n : P(i)}
<1> HIDE DEF cat, w
<1>5. cat[1] = first /\ \A i \in 1 .. n - 1 : cat[i + 1] = Follows(s, cat[i], i + 1)
  <2> HIDE DEF first, n
  <2>1. cat[1] = first BY <1>1, <1>3 DEF Cat
  <2>2. ASSUME NEW i \in 1 .. n - 1 PROVE cat[i + 1] = Follows(s, cat[i], i + 1)
    <3>1. i + 1 \in 1 .. n /\ i + 1 # 1 /\ (i + 1) - 1 = i BY <1>1
    <3>2. cat[i + 1] = IF i + 1 = 1 THEN first ELSE Follows(s, cat[(i + 1) - 1], i + 1)
      BY <1>3, <3>1, Zenon DEF Cat
    <3> QED BY <3>1, <3>2
  <2> QED BY <2>1, <2>2
<1>6. P(1)
  <2>1. s[1] \in Kept(d) BY <1>1
  <2>2. F!End(s[1]) = Len(s[1].data) BY <1>2, <2>1, KeptIs
  <2>3. /\ s[1].data = F!Contents(d, 0, F!End(s[1])) /\ s[1].mb \in Geometries
        /\ s[1].mb.len = F!End(s[1]) /\ s[1].mb.off >= LinkHdr + HLen
        /\ s[1].mb.off + s[1].mb.len <= s[1].mb.size
    BY <1>2, <2>1, <2>2 DEF Kept
  <2> QED BY <1>5, <2>3
<1>7. ASSUME NEW i \in 1 .. n - 1, P(i) PROVE P(i + 1)
  <2> DEFINE a == F!End(s[i])
             q == s[i + 1]
             l == Len(q.data)
  <2>1. i \in 1 .. n /\ i + 1 \in 1 .. n /\ i + 1 # 1 /\ (i + 1) - 1 = i BY <1>1
  <2>2. q \in Kept(d) /\ s[i] \in Kept(d) /\ q.off = a BY <1>1, <1>2, <2>1
  <2>3. a \in Nat /\ l \in Nat /\ F!End(q) = a + l BY <2>2, KeptIs
  <2>4. q.data = F!Contents(d, a, l) /\ q.mb \in Geometries /\ q.mb.len = l BY <2>2 DEF Kept
  <2>5. cat[i + 1] = [data |-> cat[i].data \o q.data, mb |-> F!m_cat(cat[i].mb, q.mb)]
    BY <1>5 DEF Follows
  <2>6. cat[i].data = F!Contents(d, 0, a) BY <1>7
  <2> HIDE DEF a, l, q
  <2>7. cat[i].data \o q.data = F!Contents(d, 0, a + l) BY <2>3, <2>4, <2>6, ContentsJoin
  <2>8. /\ cat[i].mb \in Geometries /\ cat[i].mb.len = a /\ cat[i].mb.off >= LinkHdr + HLen
        /\ cat[i].mb.off + cat[i].mb.len <= cat[i].mb.size
    BY <1>7 DEF a
  <2> DEFINE m == F!m_cat(cat[i].mb, q.mb)
  <2>9. /\ m \in Geometries /\ m.off = cat[i].mb.off /\ m.len = a + l /\ m.off + m.len <= m.size
    BY <2>4, <2>8, CatFits
  <2> HIDE DEF m
  <2>10. cat[i + 1] = [data |-> F!Contents(d, 0, a + l), mb |-> m] BY <2>5, <2>7 DEF m
  <2>11. F!End(s[i + 1]) = a + l BY <2>3 DEF q
  <2>12. cat[i + 1].mb = m BY <2>10
  <2> QED BY <2>8, <2>9, <2>10, <2>11, <2>12
<1>8. P(n)
  <2>1. 1 \in S BY <1>1, <1>6
  <2>2. \A i \in 1 .. n - 1 : i \in S => i + 1 \in S
    <3> SUFFICES ASSUME NEW i \in 1 .. n - 1, i \in S PROVE i + 1 \in S OBVIOUS
    <3>1. P(i + 1)
      <4>1. P(i) OBVIOUS
      <4> HIDE DEF P
      <4> QED BY <1>7, <4>1
    <3>2. i + 1 \in 1 .. n BY <1>1
    <3> HIDE DEF P
    <3> QED BY <3>1, <3>2
  <2>3. n \in S
    <3> HIDE DEF S, n
    <3>1. 1 .. n \subseteq S BY <1>1, <2>1, <2>2, OneUpTo
    <3> QED BY <1>1, <3>1
  <2> QED BY <2>3
<1>9. F!End(s[n]) = Size[d]
  <2>1. s[n] \in Kept(d) BY <1>1
  <2>2. F!End(s[n]) \in Nat /\ F!End(s[n]) <= Size[d] /\ s[n].more = (F!End(s[n]) < Size[d])
    BY <2>1, KeptIs
  <2>3. ~(F!End(s[n]) < Size[d]) BY <1>2, <2>2
  <2> QED BY <2>2, <2>3, SizeIs
<1> DEFINE m == cat[n].mb
           o == m.off - HLen
           l == m.len + HLen
<1>10. /\ cat[n] = [data |-> F!Whole(d), mb |-> m] /\ m \in Geometries /\ m.len = Size[d]
       /\ m.off >= LinkHdr + HLen /\ m.off + m.len <= m.size
  BY <1>8, <1>9 DEF F!Whole
<1>11. w = [data |-> F!Whole(d), mb |-> [m EXCEPT !.off = o, !.len = l]]
  <2>1. w = [cat[n] EXCEPT !.mb = [m EXCEPT !.off = o, !.len = l]]
    BY <1>4, <1>10
  <2> HIDE DEF m, o, l
  <2> QED BY <1>10, <2>1
<1>12. o \in Nat /\ l \in Nat /\ l = Size[d] + HLen /\ o + l <= m.size
  <2>1. HLen \in Nat /\ LinkHdr \in Nat /\ Size[d] \in Nat BY SizeIs, FragmentAssumption
  <2>2. m.off \in Nat /\ m.len \in Nat /\ m.size \in Nat BY <1>10 DEF Geometries
  <2> HIDE DEF m
  <2> QED BY <1>10, <2>1, <2>2
<1> DEFINE m2 == [m EXCEPT !.off = o, !.len = l]
<1>13. m2.off = o /\ m2.len = l /\ m2.size = m.size
  <2> HIDE DEF m, o, l
  <2> QED BY <1>10 DEF Geometries
<1>14. F!InBounds(m2)
  <2> HIDE DEF m2, m, o, l
  <2> QED BY <1>12, <1>13 DEF F!InBounds
<1>15. Len(F!Whole(d)) = Size[d] BY SizeIs, ContentsAre DEF F!Whole
<1>16. w.data = F!Whole(d) /\ w.mb = m2 BY <1>11
<1> HIDE DEF m2, o, l, m
<1>17. w.mb.len = HLen + Len(w.data) BY <1>12, <1>13, <1>15, <1>16, SizeIs, FragmentAssumption
<1> QED BY <1>14, <1>16, <1>17 DEF w

-----------------------------------------------------------------------------
(* What ip_output sends.                                                   *)

\* The parts are as many as the packet needs, and no more.
LEMMA PartsAre ==
  ASSUME NEW n \in Nat \ {0}, NEW b \in Nat \ {0}
  PROVE  LET k == (n + b - 1) \div b IN k \in Nat \ {0} /\ (k - 1) * b < n /\ n <= k * b
<1> DEFINE a == n + b - 1
           k == a \div b
<1>1. a \in Nat OBVIOUS
<1> HIDE DEF a
<1>2. k \in Nat /\ k * b <= a /\ a < k * b + b BY <1>1, SMT
<1> HIDE DEF k
<1>3. n <= k * b
  <2>1. k * b \in Nat BY <1>2
  <2> QED BY <1>2, <2>1 DEF a
<1>4. k # 0
  <2>1. ASSUME k = 0 PROVE k * b = 0 BY <2>1
  <2> QED BY <1>3, <2>1
<1>5. (k - 1) * b < n
  <2>1. (k - 1) * b = k * b - b BY <1>2, SMT
  <2>2. k * b \in Nat BY <1>2
  <2> QED BY <1>2, <2>1, <2>2 DEF a
<1> QED BY <1>2, <1>3, <1>4, <1>5 DEF k, a

\* A part before the last is full, and ends before the packet does.
LEMMA PartFits ==
  ASSUME NEW n \in Nat \ {0}, NEW b \in Nat \ {0}, NEW k \in Nat \ {0}, (k - 1) * b < n,
         n <= k * b, NEW i \in 1 .. k
  PROVE  /\ (i - 1) * b \in Nat /\ (i - 1) * b < n /\ (i - 1) * b + b = i * b
         /\ (i < k => i * b < n) /\ (i = k => i * b >= n)
<1>1. (i - 1) * b \in Nat /\ (k - 1) * b \in Nat /\ i * b \in Nat BY SMT
<1>2. (i - 1) * b <= (k - 1) * b BY SMT
<1>3. (i - 1) * b + b = i * b BY SMT
<1>4. i < k => i * b <= (k - 1) * b BY SMT
<1> QED BY <1>1, <1>2, <1>3, <1>4

\* The room of an mbuf for a packet of n units.
LEMMA PacketFits ==
  ASSUME NEW n \in Nat
  PROVE  LET m == [F!Packet(n) EXCEPT !.len = HLen + n]
         IN  m \in Geometries /\ m.len = HLen + n /\ F!InBounds(m)
<1> DEFINE l == HLen + n
           big == l + LinkHdr
           new == [F!NewMbuf EXCEPT !.off = LinkHdr]
           p == F!Packet(n)
           m == [p EXCEPT !.len = l]
<1>1. HLen \in Nat /\ LinkHdr \in Nat /\ MSize \in Nat BY FragmentAssumption
<1>2. new \in Geometries /\ new.off = LinkHdr /\ new.size = MSize
  BY <1>1 DEF F!NewMbuf, Geometries
<1>3. l \in Nat /\ big \in Nat BY <1>1
<1> HIDE DEF new
<1>4. p \in Geometries /\ p.off = LinkHdr /\ p.off + l <= p.size
  <2>1. p = IF new.size - new.off > l THEN new ELSE [new EXCEPT !.size = l + new.off, !.ext = TRUE]
    BY DEF F!Packet, F!m_inc, F!M_ROOM, new
  <2>2. CASE new.size - new.off > l
    <3>1. p = new BY <2>1, <2>2
    <3> HIDE DEF p
    <3> QED BY <1>1, <1>2, <1>3, <2>2, <3>1
  <2>3. CASE ~(new.size - new.off > l)
    <3>1. p = [new EXCEPT !.size = big, !.ext = TRUE] BY <1>2, <2>1, <2>3
    <3> HIDE DEF p, big
    <3>2. p \in Geometries /\ p.off = LinkHdr /\ p.size = big BY <1>2, <1>3, <3>1 DEF Geometries
    <3> QED BY <1>1, <1>3, <3>2 DEF big
  <2> QED BY <2>2, <2>3
<1> HIDE DEF p, l
<1>5. m \in Geometries /\ m.off = p.off /\ m.len = l /\ m.size = p.size
  BY <1>3, <1>4 DEF Geometries
<1>6. F!InBounds(m)
  <2> HIDE DEF m
  <2> QED BY <1>1, <1>3, <1>4, <1>5 DEF F!InBounds, Geometries
<1> QED BY <1>5, <1>6 DEF l, p

\* What is sent of a packet is the packet, and fits.
PartOk(s, id, i) ==
  /\ s[i].off = (IF i = 1 THEN 0 ELSE s[i - 1].off + s[i - 1].len)
  /\ s[i].off % 2 = 0 /\ HLen + s[i].len <= if_mtu
  /\ s[i].more = (i < Len(s)) /\ s[i].id = id
  /\ F!InBounds(s[i].mb) /\ s[i].mb.len = HLen + s[i].len

\* The first part: the packet, cut.
LEMMA FirstPart ==
  ASSUME NEW n \in Nat \ {0}, NEW m \in Geometries, m.len = HLen + n, F!InBounds(m),
         F!Share \in Nat, F!Share < n
  PROVE  F!InBounds(F!Trimmed(m, n).mb) /\ F!Trimmed(m, n).mb.len = HLen + F!Share
<1> DEFINE b == F!Share
           cut == b - n
           l == m.len + cut
           r == F!Trimmed(m, n).mb
<1>1. HLen \in Nat BY FragmentAssumption
<1>2. b \in Nat /\ cut \in Int /\ cut < 0 /\ l \in Nat /\ l = HLen + b /\ l <= m.len BY <1>1
<1>3. r = [m EXCEPT !.len = l] BY <1>2 DEF F!Trimmed, F!m_adj
<1> HIDE DEF r, l, b
<1>4. r.len = l /\ r.off = m.off /\ r.size = m.size /\ m.off \in Nat /\ m.size \in Nat /\ m.len \in Nat
  BY <1>3 DEF Geometries
<1> QED BY <1>2, <1>4 DEF F!InBounds, r, l, b

\* The others: copied, where they fit.
Header == [F!NewMbuf EXCEPT !.off = LinkHdr, !.len = HLen]
LEMMA OtherPart ==
  ASSUME NEW l \in Nat, F!m_copyFits(Header, l)
  PROVE  F!InBounds(F!m_copy(Header, l)) /\ F!m_copy(Header, l).len = HLen + l
<1> DEFINE new == Header
           h == HLen + l
           r == F!m_copy(new, l)
<1>1. HLen \in Nat /\ LinkHdr \in Nat /\ MSize \in Nat BY FragmentAssumption
<1>2. new.off = LinkHdr /\ new.len = HLen /\ new.size = MSize /\ new \in Geometries
  BY <1>1 DEF F!NewMbuf, Geometries, Header
<1>3. r = F!m_copy(new, l) /\ F!m_copyFits(new, l) OBVIOUS
<1> HIDE DEF new, r
<1>4. r = [new EXCEPT !.len = h]
  <2>1. r = [new EXCEPT !.len = new.len + l] BY <1>3 DEF F!m_copy
  <2>2. new.len + l = h BY <1>2
  <2> QED BY <2>1, <2>2
<1>5. l <= MSize - LinkHdr - HLen BY <1>2, <1>3 DEF F!m_copyFits, F!M_FREEROOM, F!M_ROOM
<1>6. h \in Nat /\ LinkHdr + h <= MSize BY <1>1, <1>5
<1> HIDE DEF h
<1>7. r.len = h /\ r.off = new.off /\ r.size = new.size BY <1>2, <1>4 DEF Geometries
<1>8. F!InBounds(r) BY <1>1, <1>2, <1>6, <1>7 DEF F!InBounds
<1> QED BY <1>7, <1>8 DEF r, h, new

\* The parts of a packet that is too large.
LEMMA PartsOk ==
  ASSUME NEW n \in Nat \ {0}, NEW m \in Geometries, m.len = HLen + n, F!InBounds(m),
         ~(HLen + n <= if_mtu), ~(F!Share < 2),
         \A i \in DOMAIN F!Fragmented(m, n) : F!Fragmented(m, n)[i].fits
  PROVE  LET s == F!Fragmented(m, n)
         IN  /\ \A i \in DOMAIN s : PartOk(s, ip_id, i)
             /\ s[Len(s)].off + s[Len(s)].len = n
<1> DEFINE b == F!Share
           k == (n + b - 1) \div b
           s == F!Fragmented(m, n)
           h == (if_mtu - HLen) \div 2
           Rest(i) == IF (i - 1) * b + b >= n THEN n - (i - 1) * b ELSE b
           last(i) == i = k
<1>1. HLen \in Nat /\ if_mtu \in Nat BY FragmentAssumption
<1>2. h \in Int /\ h * 2 <= if_mtu - HLen BY <1>1, SMT
<1>3. b = h * 2 BY DEF F!Share
<1> HIDE DEF b, h
<1>4. b \in Nat /\ b >= 2 /\ b <= if_mtu - HLen /\ h \in Nat BY <1>2, <1>3 DEF b
<1>5. b < n BY <1>1, <1>4
<1>6. k \in Nat \ {0} /\ (k - 1) * b < n /\ n <= k * b BY <1>4, PartsAre
<1>7. s = [i \in 1 .. k |-> IF i = 1 THEN F!Trimmed(m, n)
                            ELSE F!Copied((i - 1) * b, Rest(i), last(i))]
  BY DEF F!Fragmented, b
<1>14. \A i \in DOMAIN s : s[i].fits OBVIOUS
<1> HIDE DEF s, k
<1>8. Len(s) = k /\ DOMAIN s = 1 .. k BY <1>6, <1>7
<1>9. k > 1
  <2>1. ASSUME k = 1 PROVE k * b = b BY <1>4, <2>1
  <2> QED BY <1>4, <1>5, <1>6, <2>1
<1>10. ASSUME NEW i \in 1 .. k
       PROVE  /\ (i - 1) * b \in Nat /\ (i - 1) * b < n /\ (i - 1) * b + b = i * b
              /\ (i < k => i * b < n) /\ (i = k => i * b >= n)
  BY <1>4, <1>6, PartFits
<1>11. ASSUME NEW i \in 1 .. k
       PROVE  /\ s[i].off = (i - 1) * b /\ s[i].id = ip_id /\ s[i].more = (i < k)
              /\ s[i].len = (IF i < k THEN b ELSE n - (i - 1) * b)
              /\ s[i].len \in Nat /\ s[i].len <= b
              /\ F!InBounds(s[i].mb) /\ s[i].mb.len = HLen + s[i].len
  <2>1. CASE i = 1
    <3>1. s[i] = F!Trimmed(m, n) BY <1>7, <2>1
    <3>2. (i - 1) * b = 0 BY <1>4, <2>1
    <3>3. s[i].off = 0 /\ s[i].id = ip_id /\ s[i].more = TRUE /\ s[i].len = b
      BY <3>1 DEF F!Trimmed, b
    <3>4. F!InBounds(s[i].mb) /\ s[i].mb.len = HLen + b BY <1>4, <1>5, <3>1, FirstPart DEF b
    <3>5. i < k BY <1>6, <1>9, <2>1
    <3>6. s[i].more = (i < k) BY <3>3, <3>5
    <3>7. s[i].len = (IF i < k THEN b ELSE n - (i - 1) * b) BY <3>3, <3>5
    <3>8. s[i].len \in Nat /\ s[i].len <= b BY <1>4, <3>3
    <3>9. s[i].off = (i - 1) * b BY <3>2, <3>3
    <3> QED BY <3>3, <3>4, <3>6, <3>7, <3>8, <3>9, Zenon
  <2>2. CASE i # 1
    <3> DEFINE off == (i - 1) * b
    <3>1. s[i] = F!Copied(off, Rest(i), last(i)) BY <1>7, <2>2
    <3>2. off \in Nat /\ off < n /\ off + b = i * b /\ (i < k => off + b < n)
          /\ (i = k => off + b >= n)
      BY <1>10
    <3> HIDE DEF off
    <3>3. Rest(i) = (IF i < k THEN b ELSE n - off) /\ Rest(i) \in Nat /\ Rest(i) <= b
      <4>1. Rest(i) = IF off + b >= n THEN n - off ELSE b BY DEF off
      <4> HIDE DEF Rest
      <4> QED BY <1>4, <1>6, <3>2, <4>1
    <3>4. (i < k => last(i) = FALSE) /\ (~(i < k) => last(i) = TRUE) BY <1>6
    <3> HIDE DEF Rest, last
    <3>5. s[i].off = off /\ s[i].id = ip_id /\ s[i].more = ~last(i) /\ s[i].len = Rest(i)
          /\ (s[i].fits => F!m_copyFits(Header, Rest(i))) /\ s[i].mb = F!m_copy(Header, Rest(i))
      BY <3>1 DEF F!Copied, Header
    <3>6. s[i].fits BY <1>8, <1>14
    <3> DEFINE r == Rest(i)
    <3>7. r \in Nat /\ s[i].mb = F!m_copy(Header, r) /\ F!m_copyFits(Header, r)
      BY <3>3, <3>5, <3>6
    <3> HIDE DEF r
    <3>8. F!InBounds(F!m_copy(Header, r)) /\ F!m_copy(Header, r).len = HLen + r
      BY <3>7, OtherPart
    <3>9. F!InBounds(s[i].mb) /\ s[i].mb.len = HLen + Rest(i) BY <3>7, <3>8 DEF r
    <3>10. s[i].more = (i < k)
      <4>1. s[i].more = ~(i = k) BY <3>5, Zenon DEF last
      <4>2. ~(i = k) <=> i < k BY <1>6
      <4> DEFINE x == s[i].more
      <4> HIDE DEF x
      <4>3. x = ~(i = k) BY <4>1, Zenon DEF x
      <4>4. x = (i < k) BY <4>2, <4>3
      <4> QED BY <4>4, Zenon DEF x
    <3>11. s[i].len = (IF i < k THEN b ELSE n - off) /\ s[i].len \in Nat /\ s[i].len <= b
      BY <3>3, <3>5
    <3> USE DEF off
    <3>12. s[i].len = (IF i < k THEN b ELSE n - (i - 1) * b) BY <3>11, Zenon
    <3>13. s[i].off = (i - 1) * b BY <3>5, Zenon
    <3>14. F!InBounds(s[i].mb) /\ s[i].mb.len = HLen + s[i].len BY <3>5, <3>9
    <3>15. s[i].id = ip_id BY <3>5
    <3> QED BY <3>10, <3>11, <3>14, <3>15, <3>12, <3>13, Zenon
  <2> QED BY <2>1, <2>2
<1>12. ASSUME NEW i \in 1 .. k PROVE PartOk(s, ip_id, i)
  <2>1. s[i].off % 2 = 0
    <3>1. (i - 1) * b = ((i - 1) * h) * 2 BY <1>3, <1>4, SMT
    <3> DEFINE x == (i - 1) * h
    <3>2. x \in Nat BY <1>4, SMT
    <3> HIDE DEF x
    <3>3. (x * 2) % 2 = 0 BY <3>2, SMT
    <3> QED BY <1>11, <3>1, <3>3 DEF x
  <2>2. HLen + s[i].len <= if_mtu BY <1>1, <1>4, <1>11
  <2>3. s[i].off = IF i = 1 THEN 0 ELSE s[i - 1].off + s[i - 1].len
    <3>1. CASE i = 1
      <4>1. (i - 1) * b = 0 BY <1>4, <3>1
      <4> QED BY <1>11, <3>1, <4>1
    <3>2. CASE i # 1
      <4> DEFINE j == i - 1
      <4>1. j \in 1 .. k /\ j < k BY <1>6, <3>2
      <4> HIDE DEF j
      <4>2. s[j].off = (j - 1) * b /\ s[j].len = b BY <1>11, <4>1
      <4>3. (j - 1) * b + b = j * b BY <1>10, <4>1
      <4>4. s[i].off = j * b BY <1>11 DEF j
      <4> QED BY <3>2, <4>2, <4>3, <4>4 DEF j
    <3> QED BY <3>1, <3>2
  <2> QED BY <1>8, <1>11, <2>1, <2>2, <2>3 DEF PartOk
<1>13. s[k].off + s[k].len = n
  <2>1. k \in 1 .. k /\ ~(k < k) BY <1>6
  <2>2. s[k].off = (k - 1) * b /\ s[k].len = n - (k - 1) * b BY <1>11, <2>1
  <2>3. (k - 1) * b \in Nat BY <1>10, <2>1
  <2> QED BY <2>2, <2>3
<1> QED BY <1>8, <1>12, <1>13 DEF s

\* ip_output sends the packet whole or not at all, or what it sent before is still what was sent.
LEMMA OutputKeeps ==
  ASSUME F!SentWhole, NEW n \in Nat \ {0}, NEW df, F!ip_output(n, df)
  PROVE  F!SentWhole'
<1> DEFINE m == [F!Packet(n) EXCEPT !.len = HLen + n]
           part == [id |-> ip_id, off |-> 0, len |-> n, more |-> FALSE, fits |-> TRUE, mb |-> m]
           s == F!Fragmented(m, n)
           Sends(list) == out' = [n |-> n, id |-> ip_id, frags |-> list]
<1>1. m \in Geometries /\ m.len = HLen + n /\ F!InBounds(m) BY PacketFits
<1>2. \/ UNCHANGED out
      \/ HLen + n <= if_mtu /\ Sends(<<part>>)
      \/ /\ ~(HLen + n <= if_mtu) /\ ~(F!Share < 2) /\ \A i \in DOMAIN s : s[i].fits
         /\ Sends(s)
  BY DEF F!ip_output
<1> HIDE DEF m
<1>3. ASSUME NEW list, Sends(list), \A i \in DOMAIN list : PartOk(list, ip_id, i),
             list[Len(list)].off + list[Len(list)].len = n
      PROVE  F!SentWhole'
  <2>1. out'.n = n /\ out'.id = ip_id /\ out'.frags = list BY <1>3
  <2> QED BY <1>3, <2>1 DEF F!SentWhole, F!Last, PartOk
<1>4. CASE UNCHANGED out BY <1>4 DEF F!SentWhole
<1>5. CASE HLen + n <= if_mtu /\ Sends(<<part>>)
  <2> DEFINE one == <<part>>
  <2>1. Len(one) = 1 /\ DOMAIN one = {1} /\ one[1] = part OBVIOUS
  <2> HIDE DEF one
  <2>2. one[1].more = FALSE /\ (1 < Len(one)) = FALSE BY <2>1
  <2>3. PartOk(one, ip_id, 1)
    <3>1. 0 % 2 = 0 OBVIOUS
    <3>2. one[1].more = (1 < Len(one)) BY <2>2, Zenon
    <3>3. one[1].off = 0 /\ one[1].len = n /\ one[1].id = ip_id /\ one[1].mb = m BY <2>1
    <3> QED BY <1>1, <1>5, <3>1, <3>2, <3>3 DEF PartOk
  <2>4. one[Len(one)].off + one[Len(one)].len = n BY <2>1
  <2>5. Sends(one) BY <1>5 DEF one
  <2> HIDE DEF Sends
  <2> QED BY <1>3, <2>1, <2>3, <2>4, <2>5
<1>6. CASE /\ ~(HLen + n <= if_mtu) /\ ~(F!Share < 2) /\ \A i \in DOMAIN s : s[i].fits
           /\ Sends(s)
  <2>1. (\A i \in DOMAIN s : PartOk(s, ip_id, i)) /\ s[Len(s)].off + s[Len(s)].len = n
    BY <1>1, <1>6, PartsOk
  <2> HIDE DEF Sends, s
  <2> QED BY <1>3, <1>6, <2>1
<1> QED BY <1>2, <1>4, <1>5, <1>6

-----------------------------------------------------------------------------
(* Counting.                                                               *)

LEMMA SameCount == ASSUME NEW S PROVE F!Cardinality(S) = Cardinality(S)
  BY DEF F!Cardinality, Cardinality

LEMMA CountApart ==
  ASSUME NEW S, NEW R, IsFiniteSet(S), IsFiniteSet(R), S \cap R = {}
  PROVE  /\ IsFiniteSet(S \cup R) /\ Cardinality(S) \in Nat /\ Cardinality(R) \in Nat
         /\ Cardinality(S \cup R) = Cardinality(S) + Cardinality(R)
<1>1. IsFiniteSet(S \cup R)
      /\ Cardinality(S \cup R) = Cardinality(S) + Cardinality(R) - Cardinality(S \cap R)
  BY FS_Union
<1>2. Cardinality(S \cap R) = 0 BY FS_EmptySet
<1>3. Cardinality(S) \in Nat /\ Cardinality(R) \in Nat BY FS_CardinalityType
<1> QED BY <1>1, <1>2, <1>3

LEMMA CountWithin ==
  ASSUME NEW S, IsFiniteSet(S), NEW R \in SUBSET S
  PROVE  /\ IsFiniteSet(R) /\ IsFiniteSet(S \ R) /\ Cardinality(S) \in Nat /\ Cardinality(R) \in Nat
         /\ Cardinality(S \ R) = Cardinality(S) - Cardinality(R)
<1>1. IsFiniteSet(S \ R) /\ Cardinality(S \ R) = Cardinality(S) - Cardinality(S \cap R)
  BY FS_Difference
<1>2. S \cap R = R OBVIOUS
<1>3. IsFiniteSet(R) BY FS_Subset
<1>4. Cardinality(S) \in Nat /\ Cardinality(R) \in Nat BY <1>3, FS_CardinalityType
<1> QED BY <1>1, <1>2, <1>3, <1>4

-----------------------------------------------------------------------------
(* The queues of fragments, and their mbufs.                               *)

Queues == UNION {[d : {d}, ttl : Int, frags : Lists(d)] : d \in Originals}
\* A datagram has one queue.
OneQueueEach(queues) == \A fp, other \in queues : fp.d = other.d => fp = other
FragmentInv ==
  /\ ipq \subseteq Queues /\ OneQueueEach(ipq) /\ IsFiniteSet(F!MbufsOf(ipq))
  /\ F!FragmentsAccounted /\ F!Reassembled /\ F!SentWhole

\* The mbufs of some queues, and of the others.
LEMMA MbufsSplit ==
  ASSUME NEW queues, OneQueueEach(queues), IsFiniteSet(F!MbufsOf(queues)), NEW gone \in SUBSET queues
  PROVE  /\ IsFiniteSet(F!MbufsOf(queues \ gone)) /\ Cardinality(F!MbufsOf(queues)) \in Int
         /\ Cardinality(F!MbufsOf(gone)) \in Int
         /\ Cardinality(F!MbufsOf(queues \ gone))
              = Cardinality(F!MbufsOf(queues)) - Cardinality(F!MbufsOf(gone))
<1> DEFINE all == F!MbufsOf(queues)
           freed == F!MbufsOf(gone)
           rest == F!MbufsOf(queues \ gone)
<1>1. rest \subseteq all /\ freed \subseteq all BY DEF F!MbufsOf
<1>2. all \subseteq rest \cup freed BY DEF F!MbufsOf
<1>3. rest \cap freed = {}
  <2> SUFFICES ASSUME NEW x \in rest, x \in freed PROVE FALSE OBVIOUS
  <2>1. PICK fp \in queues \ gone : x \in F!Mbufs(fp) BY DEF F!MbufsOf
  <2>2. PICK other \in gone : x \in F!Mbufs(other) BY DEF F!MbufsOf
  <2>3. x[1] = fp.d /\ x[1] = other.d BY <2>1, <2>2 DEF F!Mbufs
  <2> QED BY <2>1, <2>2, <2>3 DEF OneQueueEach
<1> HIDE DEF all, freed, rest
<1>4. rest = all \ freed /\ freed \in SUBSET all BY <1>1, <1>2, <1>3
<1>5. IsFiniteSet(all) BY DEF all
<1>6. IsFiniteSet(rest) /\ Cardinality(all) \in Int /\ Cardinality(freed) \in Int
      /\ Cardinality(rest) = Cardinality(all) - Cardinality(freed)
  BY <1>4, <1>5, CountWithin
<1> QED BY <1>6 DEF all, freed, rest

\* A queue joins some that are not its datagram's.
LEMMA MbufsJoin ==
  ASSUME NEW queues, IsFiniteSet(F!MbufsOf(queues)), NEW fp, \A other \in queues : other.d # fp.d,
         Len(fp.frags) \in Nat
  PROVE  /\ IsFiniteSet(F!MbufsOf(queues \cup {fp}))
         /\ Cardinality(F!Mbufs(fp)) \in Int
         /\ Cardinality(F!MbufsOf(queues \cup {fp}))
              = Cardinality(F!MbufsOf(queues)) + Cardinality(F!Mbufs(fp))
<1> DEFINE all == F!MbufsOf(queues)
           more == F!Mbufs(fp)
           n == Len(fp.frags)
<1>1. F!MbufsOf(queues \cup {fp}) = all \cup more BY DEF F!MbufsOf
<1>2. all \cap more = {}
  <2> SUFFICES ASSUME NEW x \in all, x \in more PROVE FALSE OBVIOUS
  <2>1. PICK other \in queues : x \in F!Mbufs(other) BY DEF F!MbufsOf
  <2>2. x[1] = other.d /\ x[1] = fp.d BY <2>1 DEF F!Mbufs
  <2> QED BY <2>1, <2>2
<1>3. IsFiniteSet(more)
  <2>1. n \in Int /\ 0 \in Int OBVIOUS
  <2> HIDE DEF n
  <2>2. IsFiniteSet(0 .. n) BY <2>1, FS_Interval
  <2>3. IsFiniteSet({fp.d}) BY FS_Singleton
  <2>4. more = {fp.d} \X (0 .. n) BY DEF F!Mbufs, n
  <2> DEFINE a == {fp.d}
             b == 0 .. n
  <2> HIDE DEF a, b
  <2>5. IsFiniteSet(a \X b) BY <2>2, <2>3, FS_Product, Zenon DEF a, b
  <2> QED BY <2>4, <2>5 DEF a, b
<1>4. IsFiniteSet(all) OBVIOUS
<1> HIDE DEF all, more
<1>5. IsFiniteSet(all \cup more) /\ Cardinality(all) \in Nat /\ Cardinality(more) \in Nat
      /\ Cardinality(all \cup more) = Cardinality(all) + Cardinality(more)
  BY <1>2, <1>3, <1>4, CountApart
<1>6. Cardinality(more) \in Int BY <1>5
<1> QED BY <1>1, <1>5, <1>6 DEF all, more

\* The queues but a datagram's own, and that one.
LEMMA OthersAre ==
  ASSUME FragmentInv, NEW d
  PROVE  LET others == ipq \ F!QueuesOf(d)
         IN  /\ others \subseteq Queues /\ OneQueueEach(others) /\ IsFiniteSet(F!MbufsOf(others))
             /\ Cardinality(F!MbufsOf(others)) = used - Cardinality(F!MbufsOf(F!QueuesOf(d)))
             /\ \A fp \in others : fp.d # d
             /\ used \in Int /\ Cardinality(F!MbufsOf(F!QueuesOf(d))) \in Int
<1>1. F!QueuesOf(d) \in SUBSET ipq BY DEF F!QueuesOf
<1>2. /\ ipq \subseteq Queues /\ OneQueueEach(ipq) /\ IsFiniteSet(F!MbufsOf(ipq))
      /\ used = Cardinality(F!MbufsOf(ipq))
  BY SameCount DEF FragmentInv, F!FragmentsAccounted
<1>3. \A fp \in ipq \ F!QueuesOf(d) : fp.d # d BY DEF F!QueuesOf
<1> QED BY <1>1, <1>2, <1>3, MbufsSplit DEF OneQueueEach

\* A packet in one piece is the datagram.
LEMMA ReceivedWhole ==
  ASSUME F!Reassembled, NEW d, NEW data, NEW mb, F!Receive(d, data, mb),
         data = F!Whole(d), F!InBounds(mb), mb.len = HLen + Len(data)
  PROVE  F!Reassembled'
<1> DEFINE new == [d |-> d, data |-> data, mb |-> mb]
<1>1. received' = received \cup {new} BY DEF F!Receive
<1>2. new.d = d /\ new.data = data /\ new.mb = mb OBVIOUS
<1> HIDE DEF new
<1>3. ASSUME NEW p \in received' PROVE p.data = F!Whole(p.d) /\ F!InBounds(p.mb) /\ p.mb.len = HLen + Len(p.data)
  <2>1. CASE p \in received BY <2>1 DEF F!Reassembled
  <2>2. CASE p = new BY <1>2, <2>2
  <2> QED BY <1>1, <2>1, <2>2
<1> QED BY <1>3 DEF F!Reassembled

\* A fragment finds its place among the others, or they are complete.
LEMMA FragmentKeeps ==
  ASSUME FragmentInv, NEW d \in Originals, NEW off \in Nat, NEW n \in Nat \ {0},
         off + n <= Size[d], HLen + n <= if_mtu, F!ip_input(d, off, n), UNCHANGED out
  PROVE  FragmentInv'
<1> DEFINE f == F!Frag(d, off, n)
           queue == F!QueueOf(d)
           fp == F!ip_reass(d, f, queue)
           own == F!QueuesOf(d)
           others == ipq \ own
           had == Cardinality(F!MbufsOf(own))
           whole == F!Concatenated(fp.frags)
<1>1. f \in Kept(d) BY FragIsKept
<1>2. \E ttl \in Int : \E s \in Lists(d) : queue = [d |-> d, ttl |-> ttl, frags |-> s]
  <2>1. CASE own = {}
    <3>1. queue = [d |-> d, ttl |-> IPFRAGTTL, frags |-> <<>>]
      BY <2>1 DEF F!QueueOf, F!NoQueue
    <3>2. <<>> \in Lists(d) BY DEF Lists
    <3>3. IPFRAGTTL \in Int BY FragmentAssumption
    <3> QED BY <3>1, <3>2, <3>3
  <2>2. CASE own # {}
    <3>1. queue \in own BY <2>2 DEF F!QueueOf
    <3> HIDE DEF queue
    <3>2. queue \in ipq /\ queue.d = d BY <3>1 DEF F!QueuesOf
    <3>3. PICK e \in Originals : queue \in [d : {e}, ttl : Int, frags : Lists(e)]
      BY <3>2 DEF FragmentInv, Queues
    <3>4. e = d BY <3>2, <3>3
    <3> QED BY <3>3, <3>4
  <2> QED BY <2>1, <2>2
<1> HIDE DEF queue, f
<1>3. PICK ttl \in Int, r \in Lists(d) : Len(r) > 0 /\ fp = [d |-> d, ttl |-> ttl, frags |-> r]
  <2>1. PICK ttl \in Int, s \in Lists(d) : queue = [d |-> d, ttl |-> ttl, frags |-> s] BY <1>2
  <2>2. PICK r \in Lists(d) : Len(r) > 0 /\ fp = [d |-> d, ttl |-> ttl, frags |-> r]
    BY <1>1, <2>1, ReassKeeps
  <2> QED BY <2>2
<1>4. fp.d = d /\ fp.frags = r /\ fp \in Queues /\ Len(fp.frags) \in Nat
  <2>1. fp \in [d : {d}, ttl : Int, frags : Lists(d)] BY <1>3
  <2>2. Len(r) \in Nat BY DEF Lists
  <2> QED BY <1>3, <2>1, <2>2 DEF Queues
<1>5. \/ /\ F!Complete(fp.frags) /\ ipq' = others /\ used' = used - had
         /\ F!Receive(d, whole.data, whole.mb)
      \/ /\ ipq' = others \cup {fp} /\ used' = used + F!Cardinality(F!Mbufs(fp)) - had
         /\ UNCHANGED received
  BY SameCount DEF F!ip_input, f, queue
<1>6. /\ others \subseteq Queues /\ OneQueueEach(others) /\ IsFiniteSet(F!MbufsOf(others))
      /\ Cardinality(F!MbufsOf(others)) = used - had
      /\ \A other \in others : other.d # d
      /\ used \in Int /\ had \in Int
  BY OthersAre
<1>7. F!SentWhole' /\ F!Reassembled BY DEF FragmentInv, F!SentWhole
<1> HIDE DEF fp, others, had
<1>8. CASE /\ F!Complete(fp.frags) /\ ipq' = others /\ used' = used - had
           /\ F!Receive(d, whole.data, whole.mb)
  <2>1. whole.data = F!Whole(d) /\ F!InBounds(whole.mb) /\ whole.mb.len = HLen + Len(whole.data)
    BY <1>3, <1>4, <1>8, WholeIs
  <2> HIDE DEF whole
  <2>2. F!Reassembled' BY <1>7, <1>8, <2>1, ReceivedWhole
  <2>3. F!FragmentsAccounted' BY <1>6, <1>8, SameCount DEF F!FragmentsAccounted
  <2> QED BY <1>6, <1>7, <1>8, <2>2, <2>3 DEF FragmentInv
<1>9. CASE /\ ipq' = others \cup {fp} /\ used' = used + F!Cardinality(F!Mbufs(fp)) - had
           /\ UNCHANGED received
  <2>1. /\ IsFiniteSet(F!MbufsOf(others \cup {fp})) /\ Cardinality(F!Mbufs(fp)) \in Int
        /\ Cardinality(F!MbufsOf(others \cup {fp}))
             = Cardinality(F!MbufsOf(others)) + Cardinality(F!Mbufs(fp))
    BY <1>4, <1>6, MbufsJoin
  <2>2. F!Cardinality(F!Mbufs(fp)) = Cardinality(F!Mbufs(fp)) BY SameCount
  <2>3. F!FragmentsAccounted'
    <3>1. used' = Cardinality(F!MbufsOf(ipq')) BY <1>6, <1>9, <2>1, <2>2
    <3> QED BY <3>1, SameCount DEF F!FragmentsAccounted
  <2>4. ipq' \subseteq Queues /\ OneQueueEach(ipq') BY <1>4, <1>6, <1>9 DEF OneQueueEach
  <2>5. F!Reassembled' BY <1>7, <1>9 DEF F!Reassembled
  <2> QED BY <1>7, <1>9, <2>1, <2>3, <2>4, <2>5 DEF FragmentInv
<1> QED BY <1>5, <1>8, <1>9

\* A packet in one piece goes through, and its fragments may go.
LEMMA PacketKeeps ==
  ASSUME FragmentInv, F!PacketArrives
  PROVE  FragmentInv'
<1>1. PICK d \in Originals, reserved \in BOOLEAN :
        /\ F!Receive(d, F!Whole(d), [F!Arrived(Size[d]) EXCEPT !.off = @ - HLen, !.len = @ + HLen])
        /\ HLen + Size[d] <= if_mtu
        /\ IF reserved
           THEN /\ ipq' = ipq \ F!QueuesOf(d) /\ used' = used - F!Freed(F!QueuesOf(d))
           ELSE UNCHANGED <<ipq, used>>
        /\ UNCHANGED <<ip_id, out>>
  BY DEF F!PacketArrives
<1> DEFINE n == Size[d]
           big == HLen + n
           new == [size |-> MSize, off |-> 0, len |-> 0, ext |-> FALSE]
           had == LinkHdr + HLen
           a == F!Arrived(n)
           mb == [a EXCEPT !.off = @ - HLen, !.len = @ + HLen]
           own == F!QueuesOf(d)
<1>2. n \in Nat /\ HLen \in Nat /\ LinkHdr \in Nat /\ MSize \in Nat /\ if_mtu \in Nat
      /\ MSize >= LinkHdr + if_mtu
  BY SizeIs, FragmentAssumption
<1>3. F!InBounds(mb) /\ mb.len = HLen + n
  <2>1. a = [new EXCEPT !.off = had, !.len = n] BY DEF F!Arrived, F!NewMbuf
  <2>2. had \in Nat /\ had - HLen = LinkHdr /\ n + HLen = big /\ big \in Nat BY <1>2
  <2>3. new \in Geometries /\ new.size = MSize BY <1>2 DEF Geometries
  <2> HIDE DEF new, had, a, big
  <2>4. a \in Geometries /\ a.off = had /\ a.len = n /\ a.size = MSize
    BY <1>2, <2>1, <2>2, <2>3 DEF Geometries
  <2>5. mb = [a EXCEPT !.off = LinkHdr, !.len = big] BY <2>2, <2>4
  <2> HIDE DEF mb
  <2>6. mb.off = LinkHdr /\ mb.len = big /\ mb.size = MSize BY <1>2, <2>2, <2>4, <2>5 DEF Geometries
  <2> QED BY <1>1, <1>2, <2>2, <2>6 DEF F!InBounds, big
<1>4. Len(F!Whole(d)) = n BY <1>2, ContentsAre DEF F!Whole
<1>5. F!Receive(d, F!Whole(d), mb) BY <1>1
<1> HIDE DEF mb, a
<1>6. F!Reassembled'
  <2> DEFINE data == F!Whole(d)
  <2>1. F!Reassembled BY DEF FragmentInv
  <2>2. data = F!Whole(d) /\ F!Receive(d, data, mb) /\ mb.len = HLen + Len(data)
    BY <1>3, <1>4, <1>5
  <2> HIDE DEF data
  <2> QED BY <1>3, <2>1, <2>2, ReceivedWhole
<1>7. F!SentWhole' BY <1>1 DEF FragmentInv, F!SentWhole
<1>8. /\ ipq' \subseteq Queues /\ OneQueueEach(ipq') /\ IsFiniteSet(F!MbufsOf(ipq'))
      /\ used' = Cardinality(F!MbufsOf(ipq'))
  <2>1. CASE reserved
    <3>1. ipq' = ipq \ own /\ used' = used - Cardinality(F!MbufsOf(own))
      BY <1>1, <2>1, SameCount DEF F!Freed, F!ip_freef, F!MbufsOf
    <3> QED BY <3>1, OthersAre
  <2>2. CASE ~reserved BY <1>1, <2>2, SameCount DEF FragmentInv, F!FragmentsAccounted
  <2> QED BY <2>1, <2>2
<1> QED BY <1>6, <1>7, <1>8, SameCount DEF FragmentInv, F!FragmentsAccounted

\* ip_slowtimo frees the queues whose time is up; the others keep what they have.
LEMMA SlowKeeps ==
  ASSUME FragmentInv, F!ip_slowtimo
  PROVE  FragmentInv'
<1> DEFINE gone == {fp \in ipq : fp.ttl = 1}
           rest == ipq \ gone
           Older(fp) == [fp EXCEPT !.ttl = @ - 1]
<1>1. /\ ipq' = {Older(fp) : fp \in rest} /\ UNCHANGED <<received, ip_id, out, count>>
      /\ used' = used - Cardinality(F!MbufsOf(gone))
  BY SameCount DEF F!ip_slowtimo, F!Freed, F!ip_freef, F!MbufsOf
<1>2. /\ ipq \subseteq Queues /\ OneQueueEach(ipq) /\ IsFiniteSet(F!MbufsOf(ipq))
      /\ used = Cardinality(F!MbufsOf(ipq)) /\ gone \in SUBSET ipq
  BY SameCount DEF FragmentInv, F!FragmentsAccounted
<1>3. IsFiniteSet(F!MbufsOf(rest)) /\ used' = Cardinality(F!MbufsOf(rest))
  BY <1>1, <1>2, MbufsSplit
<1>4. ASSUME NEW fp \in ipq
      PROVE  Older(fp) \in Queues /\ Older(fp).d = fp.d /\ Older(fp).frags = fp.frags
  <2>1. PICK d \in Originals : fp \in [d : {d}, ttl : Int, frags : Lists(d)] BY <1>2 DEF Queues
  <2>2. Older(fp) \in [d : {d}, ttl : Int, frags : Lists(d)] /\ Older(fp).d = fp.d
        /\ Older(fp).frags = fp.frags
    BY <2>1
  <2> QED BY <2>2 DEF Queues
<1> HIDE DEF gone, rest, Older
<1>5. \A fp \in rest : fp \in ipq BY DEF rest
<1>6. F!MbufsOf(ipq') = F!MbufsOf(rest)
  <2>1. \A fp \in rest : F!Mbufs(Older(fp)) = F!Mbufs(fp) BY <1>4, <1>5 DEF F!Mbufs
  <2>2. \A x : x \in F!MbufsOf(ipq') <=> \E fp \in rest : x \in F!Mbufs(Older(fp))
    BY <1>1 DEF F!MbufsOf
  <2>3. \A x : x \in F!MbufsOf(rest) <=> \E fp \in rest : x \in F!Mbufs(fp) BY DEF F!MbufsOf
  <2> QED BY <2>1, <2>2, <2>3
<1>7. ipq' \subseteq Queues /\ OneQueueEach(ipq')
  <2>1. OneQueueEach(ipq')
    <3> SUFFICES ASSUME NEW x \in ipq', NEW y \in ipq', x.d = y.d PROVE x = y BY DEF OneQueueEach
    <3>1. PICK fp \in rest, other \in rest : x = Older(fp) /\ y = Older(other) BY <1>1
    <3>2. fp = other BY <1>2, <1>4, <1>5, <3>1 DEF OneQueueEach
    <3> QED BY <3>1, <3>2
  <2> QED BY <1>1, <1>4, <1>5, <2>1
<1>8. F!FragmentsAccounted' BY <1>3, <1>6, SameCount DEF F!FragmentsAccounted
<1> QED BY <1>1, <1>3, <1>6, <1>7, <1>8 DEF FragmentInv, F!Reassembled, F!SentWhole

\* FragmentInv is an invariant of the services.
LEMMA FragmentsHold == AllSpec => []FragmentInv
<1>1. ASSUME AllInit PROVE FragmentInv
  <2>1. ipq = {} /\ used = 0 /\ received = {} /\ out.frags = <<>> BY <1>1 DEF AllInit, F!Init
  <2>2. F!MbufsOf(ipq) = {} BY <2>1 DEF F!MbufsOf
  <2>3. IsFiniteSet(F!MbufsOf(ipq)) /\ Cardinality(F!MbufsOf(ipq)) = 0 BY <2>2, FS_EmptySet
  <2> QED BY <2>1, <2>3, SameCount DEF FragmentInv, OneQueueEach, F!FragmentsAccounted, F!Reassembled,
    F!SentWhole
<1>2. ASSUME FragmentInv, [AllNext]_allVars PROVE FragmentInv'
  <2>1. CASE UNCHANGED fragmentVars
    BY <1>2, <2>1 DEF fragmentVars, FragmentInv, F!FragmentsAccounted, F!Reassembled, F!SentWhole
  <2>2. CASE F!FragmentArrives
    <3>1. PICK d \in Originals : \E p \in F!Pieces(d) : F!ip_input(d, p[1], p[2])
      BY <2>2 DEF F!FragmentArrives
    <3>2. PICK p \in F!Pieces(d) : F!ip_input(d, p[1], p[2]) BY <3>1
    <3>3. /\ p[1] \in Nat /\ p[2] \in Nat \ {0} /\ p[1] + p[2] <= Size[d] /\ HLen + p[2] <= if_mtu
      BY SizeIs DEF F!Pieces, F!Legal
    <3>4. UNCHANGED out BY <2>2 DEF F!FragmentArrives
    <3> QED BY <1>2, <3>2, <3>3, <3>4, FragmentKeeps
  <2>3. CASE F!PacketDropped
    BY <1>2, <2>3 DEF F!PacketDropped, FragmentInv, F!FragmentsAccounted, F!Reassembled, F!SentWhole
  <2>4. CASE \E n \in 1 .. MaxPacket, df \in BOOLEAN : F!ip_output(n, df)
    <3>1. PICK n \in 1 .. MaxPacket, df \in BOOLEAN : F!ip_output(n, df) BY <2>4
    <3>2. n \in Nat \ {0} BY FragmentAssumption
    <3>3. F!SentWhole' BY <1>2, <3>1, <3>2, OutputKeeps DEF FragmentInv
    <3>4. UNCHANGED <<ipq, used, received, count>> BY <3>1 DEF F!ip_output
    <3> QED BY <1>2, <3>3, <3>4 DEF FragmentInv, F!FragmentsAccounted, F!Reassembled
  <2>5. UNCHANGED fragmentVars \/ F!Next
    BY <1>2 DEF allVars, AllNext, BootpMoves, FragmentsMove, TftpMoves, InNdp, InDatagrams
  <2> QED BY <1>2, <2>1, <2>2, <2>3, <2>4, <2>5, PacketKeeps, SlowKeeps DEF F!Next
<1> QED BY <1>1, <1>2, PTL DEF AllSpec

\* What ip_reass passes up is the whole datagram, each unit once and in its place, in an mbuf
\* with room for it and its header, however its fragments come, overlap and repeat, and what
\* ip_output cuts is the packet.
THEOREM FragmentsAreWhole == AllSpec => []FragmentsWhole
<1>1. FragmentInv => FragmentsWhole BY DEF FragmentInv, FragmentsWhole
<1> QED BY <1>1, FragmentsHold, PTL

-----------------------------------------------------------------------------
(* The mbufs of the datagrams' sockets.                                    *)

\* the sockets that hold an mbuf
Holding(list) == {so \in list : so.m # 0}
LEMMA OwnedIs == ASSUME NEW list PROVE D!Owned(list) = Cardinality(Holding(list))
  BY DEF D!Owned, D!None, Holding, D!Cardinality, Cardinality

\* A socket comes to a list.
LEMMA HoldingAdded ==
  ASSUME NEW list, IsFiniteSet(Holding(list)), NEW so, so \notin list
  PROVE  /\ IsFiniteSet(Holding(list \cup {so})) /\ Cardinality(Holding(list)) \in Nat
         /\ Cardinality(Holding(list \cup {so})) = Cardinality(Holding(list)) + D!Held(so)
<1> DEFINE old == Holding(list)
           new == Holding(list \cup {so})
<1>1. IsFiniteSet(old) /\ so \notin old BY DEF Holding
<1>2. (so.m = 0 => new = old) /\ (so.m # 0 => new = old \cup {so}) BY DEF Holding
<1> HIDE DEF old, new
<1>3. Cardinality(old) \in Nat BY <1>1, FS_CardinalityType
<1>4. IsFiniteSet(old \cup {so}) /\ Cardinality(old \cup {so}) = Cardinality(old) + 1
  BY <1>1, FS_AddElement
<1>5. CASE so.m = 0
  <2>1. D!Held(so) = 0 BY <1>5 DEF D!Held, D!None
  <2> QED BY <1>1, <1>2, <1>3, <1>5, <2>1 DEF old, new
<1>6. CASE so.m # 0
  <2>1. D!Held(so) = 1 BY <1>6 DEF D!Held, D!None
  <2> QED BY <1>2, <1>3, <1>4, <1>6, <2>1 DEF old, new
<1> QED BY <1>5, <1>6

\* A socket goes.
LEMMA HoldingRemoved ==
  ASSUME NEW list, IsFiniteSet(Holding(list)), NEW so \in list
  PROVE  /\ IsFiniteSet(Holding(list \ {so})) /\ Cardinality(Holding(list)) \in Nat
         /\ Cardinality(Holding(list \ {so})) = Cardinality(Holding(list)) - D!Held(so)
<1> DEFINE old == Holding(list)
           new == Holding(list \ {so})
<1>1. IsFiniteSet(old) /\ (so \in old <=> so.m # 0) BY DEF Holding
<1>2. new = old \ {so} BY DEF Holding
<1> HIDE DEF old, new
<1>3. Cardinality(old) \in Nat BY <1>1, FS_CardinalityType
<1>4. IsFiniteSet(old \ {so})
      /\ Cardinality(old \ {so}) = IF so \in old THEN Cardinality(old) - 1 ELSE Cardinality(old)
  BY <1>1, FS_RemoveElement
<1> DEFINE Removed == IsFiniteSet(new) /\ Cardinality(new) = Cardinality(old) - D!Held(so)
<1>5. ASSUME so.m = 0 PROVE Removed
  <2>1. D!Held(so) = 0 BY <1>5 DEF D!Held, D!None
  <2> QED BY <1>1, <1>2, <1>3, <1>4, <1>5, <2>1
<1>6. ASSUME so.m # 0 PROVE Removed
  <2>1. D!Held(so) = 1 BY <1>6 DEF D!Held, D!None
  <2> QED BY <1>1, <1>2, <1>3, <1>4, <1>6, <2>1
<1> QED BY <1>3, <1>5, <1>6 DEF old, new

\* One takes the place of another.
LEMMA HoldingReplaced ==
  ASSUME NEW list, IsFiniteSet(Holding(list)), NEW so \in list, NEW new, new \notin list \ {so}
  PROVE  LET next == Holding((list \ {so}) \cup {new})
         IN  /\ IsFiniteSet(next) /\ Cardinality(Holding(list)) \in Nat
             /\ Cardinality(next) = Cardinality(Holding(list)) - D!Held(so) + D!Held(new)
<1> DEFINE rest == list \ {so}
<1>1. /\ IsFiniteSet(Holding(rest)) /\ Cardinality(Holding(list)) \in Nat
      /\ Cardinality(Holding(rest)) = Cardinality(Holding(list)) - D!Held(so)
  BY HoldingRemoved
<1>2. new \notin rest OBVIOUS
<1> HIDE DEF rest
<1>3. /\ IsFiniteSet(Holding(rest \cup {new}))
      /\ Cardinality(Holding(rest \cup {new})) = Cardinality(Holding(rest)) + D!Held(new)
  BY <1>1, <1>2, HoldingAdded
<1> QED BY <1>1, <1>3 DEF rest

\* Some end.
LEMMA HoldingEnds ==
  ASSUME NEW list, IsFiniteSet(Holding(list)), NEW gone \in SUBSET list
  PROVE  /\ IsFiniteSet(Holding(list \ gone)) /\ Cardinality(Holding(list)) \in Nat
         /\ Cardinality(Holding(gone)) \in Nat
         /\ Cardinality(Holding(list \ gone))
              = Cardinality(Holding(list)) - Cardinality(Holding(gone))
<1> DEFINE all == Holding(list)
           ends == Holding(gone)
           rest == Holding(list \ gone)
<1>1. IsFiniteSet(all) /\ ends \in SUBSET all /\ rest = all \ ends BY DEF Holding
<1> HIDE DEF all, ends, rest
<1>2. /\ IsFiniteSet(rest) /\ Cardinality(all) \in Nat /\ Cardinality(ends) \in Nat
      /\ Cardinality(rest) = Cardinality(all) - Cardinality(ends)
  BY <1>1, CountWithin
<1> QED BY <1>2 DEF all, ends, rest

\* All get older.
Older(so) == [so EXCEPT !.expire = IF @ > 1 THEN @ - 1 ELSE @]
LEMMA HoldingAged ==
  ASSUME NEW list, IsFiniteSet(Holding(list)), \A so \in list : Older(so).m = so.m,
         \A so, other \in list : Older(so) = Older(other) => so = other
  PROVE  /\ IsFiniteSet(Holding(D!Aged(list)))
         /\ Cardinality(Holding(D!Aged(list))) = Cardinality(Holding(list))
<1> DEFINE from == Holding(list)
           to == Holding(D!Aged(list))
           f == [so \in from |-> Older(so)]
<1>1. D!Aged(list) = {Older(so) : so \in list} BY DEF D!Aged, Older
<1>2. \A so \in from : so \in list /\ f[so] = Older(so) BY DEF Holding
<1>3. f \in [from -> to] /\ \A x \in to : \E so \in from : f[so] = x
  <2>1. ASSUME NEW so \in from PROVE f[so] \in to BY <1>1, <1>2 DEF Holding
  <2>2. ASSUME NEW x \in to PROVE \E so \in from : f[so] = x
    <3>1. PICK so \in list : x = Older(so) BY <1>1 DEF Holding
    <3>2. x.m # 0 BY DEF Holding
    <3>3. so \in from BY <3>1, <3>2 DEF Holding
    <3> QED BY <1>2, <3>1, <3>3
  <2> QED BY <2>1, <2>2
<1>4. \A so, other \in from : f[so] = f[other] => so = other BY <1>2
<1>5. IsFiniteSet(from) OBVIOUS
<1> HIDE DEF from, to, f
<1>6. ExistsBijection(from, to)
  BY <1>3, <1>4 DEF ExistsBijection, Bijection, Injection, Surjection, IsInjective
<1>7. IsFiniteSet(to) /\ Cardinality(to) = Cardinality(from) BY <1>5, <1>6, FS_Bijection
<1> QED BY <1>7 DEF from, to

\* A ping's socket holds the ping, and no other does.
PingRecords ==
  [af : {4}, port : {0}, to : Addresses, dport : {0}, m : Nat \ {0}, conn : BOOLEAN, expire : Nat,
   fwd : BOOLEAN]
MbufInv ==
  /\ icmp \subseteq PingRecords /\ \A so \in icmp : so.m <= packetsOut
  /\ \A so, other \in icmp : so.m = other.m => so = other
  /\ IsFiniteSet(Holding(udb)) /\ IsFiniteSet(Holding(icmp))
  /\ mbufs = Cardinality(Holding(udb)) + Cardinality(Holding(icmp))

\* A datagram takes the place of the last one of its port, or is freed.
LEMMA DatagramCounted ==
  ASSUME DatagramInv, MbufInv, NEW af \in {4, 6}, NEW port \in PortNumbers, NEW dest \in Dests,
         NEW ttl, NEW known \in BOOLEAN, NEW answered \in BOOLEAN,
         D!Datagram(af, port, dest, ttl, known, answered)
  PROVE  MbufInv'
<1> DEFINE found == D!solookup(af, port)
           n == packetsOut + 1
           new == IF found = {} THEN D!udp_attach(af, port) ELSE CHOOSE so \in found : TRUE
           so1 == [new EXCEPT !.to = dest[1], !.dport = dest[2]]
           goes == ttl > 1 /\ answered /\ D!sotranslate_out(af, dest[1], dest[2], known) # D!Refused
           done == IF goes THEN D!Sent(so1, n) ELSE [so |-> so1, freed |-> 1]
           rest == udb \ found
<1>1. /\ packetsOut' = n /\ udb' = rest \cup {done.so} /\ mbufs' = mbufs + 1 - done.freed
      /\ UNCHANGED icmp
  BY DEF D!Datagram
<1>2. /\ n \in Nat /\ n # 0 /\ icmp \subseteq PingRecords /\ \A so \in icmp : so.m <= packetsOut
      /\ \A so, other \in icmp : so.m = other.m => so = other
      /\ IsFiniteSet(Holding(udb)) /\ IsFiniteSet(Holding(icmp))
      /\ mbufs = Cardinality(Holding(udb)) + Cardinality(Holding(icmp))
      /\ Cardinality(Holding(icmp)) \in Nat
  BY FS_CardinalityType DEF DatagramInv, MbufInv
<1>3. so1 \in SocketRecords /\ so1.m = new.m /\ so1.af = af /\ so1.port = port
  <2>1. new \in SocketRecords /\ new.af = af /\ new.port = port
    <3>1. CASE found = {}
      <4>1. new = D!udp_attach(af, port) BY <3>1
      <4>2. SO_EXPIRE \in Nat BY DatagramAssumption
      <4> HIDE DEF new
      <4> QED BY <4>1, <4>2 DEF D!udp_attach, D!None, SocketRecords
    <3>2. CASE found # {}
      <4>1. new \in found BY <3>2
      <4> HIDE DEF new
      <4> QED BY <4>1 DEF D!solookup, DatagramInv
    <3> QED BY <3>1, <3>2
  <2> HIDE DEF new
  <2>2. dest[1] \in Addresses /\ dest[2] \in {d[2] : d \in Dests} BY DEF Addresses
  <2> QED BY <2>1, <2>2 DEF SocketRecords
<1>4. /\ IsFiniteSet(Holding(rest)) /\ Cardinality(Holding(udb)) \in Nat
      /\ Cardinality(Holding(rest)) = Cardinality(Holding(udb)) - D!Held(so1)
  <2>1. CASE found = {}
    <3>1. new = D!udp_attach(af, port) BY <2>1
    <3>2. new.m = 0 BY <3>1 DEF D!udp_attach, D!None
    <3>3. rest = udb BY <2>1
    <3> HIDE DEF new, rest, so1
    <3>4. D!Held(so1) = 0 BY <1>3, <3>2 DEF D!Held, D!None
    <3> QED BY <1>2, <3>3, <3>4, FS_CardinalityType
  <2>2. CASE found # {}
    <3>1. new \in found BY <2>2
    <3> HIDE DEF new
    <3>2. new \in udb /\ found = {new} BY <3>1 DEF D!solookup, DatagramInv, OnePerPort
    <3>3. rest = udb \ {new} BY <3>2
    <3> HIDE DEF rest, so1
    <3>4. D!Held(so1) = D!Held(new) BY <1>3 DEF D!Held
    <3> QED BY <1>2, <3>2, <3>3, <3>4, HoldingRemoved
  <2> QED BY <2>1, <2>2
<1>5. \A so \in rest : so.af # af \/ so.port # port BY DEF D!solookup
<1> HIDE DEF new, rest, goes, so1
<1>6. /\ done.so.af = af /\ done.so.port = port /\ D!Held(so1) \in Int
      /\ D!Held(done.so) \in Int /\ 1 - done.freed = D!Held(done.so) - D!Held(so1)
  <2>1. D!Held(so1) \in {0, 1} BY DEF D!Held
  <2>2. CASE goes
    <3> DEFINE e == IF so1.expire > 0 THEN SO_EXPIRE ELSE 0
    <3>1. done.freed = D!Held(so1)
          /\ done.so = [so1 EXCEPT !.m = n, !.conn = TRUE, !.expire = e]
      BY <2>2 DEF D!Sent
    <3>2. done.so = Updated(so1, n, e) BY <3>1 DEF Updated
    <3>3. e \in Nat BY DatagramAssumption
    <3> HIDE DEF done, e, n
    <3>4. /\ Updated(so1, n, e) \in SocketRecords /\ Updated(so1, n, e).m = n
          /\ Updated(so1, n, e).af = so1.af /\ Updated(so1, n, e).port = so1.port
      <4>1. so1 \in SocketRecords /\ n \in Nat /\ e \in Nat BY <1>2, <1>3, <3>3
      <4> QED BY <4>1, SocketUpdate
    <3>5. done.so.af = af /\ done.so.port = port /\ done.so.m = n BY <1>3, <3>2, <3>4
    <3>6. D!Held(done.so) = 1 BY <1>2, <3>5 DEF D!Held, D!None
    <3> QED BY <2>1, <3>1, <3>5, <3>6
  <2>3. CASE ~goes
    <3>1. done.so = so1 /\ done.freed = 1 BY <2>3
    <3> HIDE DEF done
    <3> QED BY <1>3, <2>1, <3>1
  <2> QED BY <2>2, <2>3
<1> HIDE DEF done
<1>7. done.so \notin rest BY <1>5, <1>6
<1>8. /\ IsFiniteSet(Holding(udb')) /\ Cardinality(Holding(rest)) \in Nat
      /\ Cardinality(Holding(udb')) = Cardinality(Holding(rest)) + D!Held(done.so)
  <2>1. /\ IsFiniteSet(Holding(rest \cup {done.so})) /\ Cardinality(Holding(rest)) \in Nat
        /\ Cardinality(Holding(rest \cup {done.so})) = Cardinality(Holding(rest)) + D!Held(done.so)
    BY <1>4, <1>7, HoldingAdded
  <2> QED BY <1>1, <2>1
<1>9. mbufs' = Cardinality(Holding(udb')) + Cardinality(Holding(icmp')) /\ icmp' = icmp
  BY <1>1, <1>2, <1>4, <1>6, <1>8
<1>10. \A so \in icmp' : so.m <= packetsOut'
  <2>1. \A so \in icmp : so.m \in Nat BY <1>2 DEF PingRecords
  <2> QED BY <1>1, <1>2, <1>9, <2>1 DEF n, DatagramInv
<1> QED BY <1>2, <1>8, <1>9, <1>10 DEF MbufInv

\* A socket that is refreshed holds what it held.
LEMMA RefreshCounted ==
  ASSUME DatagramInv, MbufInv, NEW so \in udb, D!Becomes(so, D!Refreshed(so)),
         UNCHANGED <<icmp, mbufs, packetsOut>>
  PROVE  MbufInv'
<1> DEFINE new == D!Refreshed(so)
<1>1. udb' = (udb \ {so}) \cup {new} BY DEF D!Becomes
<1>2. so \in SocketRecords /\ OnePerPort BY DEF DatagramInv
<1>3. new.m = so.m /\ new.af = so.af /\ new.port = so.port BY <1>2, RefreshedSocket
<1> HIDE DEF new
<1>4. new \notin udb \ {so} BY <1>2, <1>3 DEF OnePerPort
<1>5. D!Held(new) = D!Held(so) /\ D!Held(so) \in Int BY <1>3 DEF D!Held
<1>6. IsFiniteSet(Holding(udb)) BY DEF MbufInv
<1>7. /\ IsFiniteSet(Holding((udb \ {so}) \cup {new})) /\ Cardinality(Holding(udb)) \in Nat
      /\ Cardinality(Holding((udb \ {so}) \cup {new}))
           = Cardinality(Holding(udb)) - D!Held(so) + D!Held(new)
  BY <1>4, <1>6, HoldingReplaced
<1>8. IsFiniteSet(Holding(udb')) /\ Cardinality(Holding(udb')) = Cardinality(Holding(udb))
  BY <1>1, <1>5, <1>7
<1> QED BY <1>8 DEF MbufInv

\* A ping has a socket of its own.
LEMMA PingCounted ==
  ASSUME DatagramInv, MbufInv, NEW to \in Addresses, NEW reached \in BOOLEAN, D!icmp_input(to, reached)
  PROVE  MbufInv'
<1> DEFINE n == packetsOut + 1
           new == D!icmp_send(n, to)
<1>1. /\ packetsOut' = n /\ UNCHANGED udb
      /\ \/ icmp' = icmp /\ mbufs' = mbufs
         \/ icmp' = icmp \cup {new} /\ mbufs' = mbufs + 1
  BY DEF D!icmp_input
<1>2. /\ n \in Nat /\ icmp \subseteq PingRecords /\ \A so \in icmp : so.m <= packetsOut
      /\ \A so, other \in icmp : so.m = other.m => so = other
      /\ IsFiniteSet(Holding(udb)) /\ IsFiniteSet(Holding(icmp))
      /\ mbufs = Cardinality(Holding(udb)) + Cardinality(Holding(icmp))
      /\ packetsOut \in Nat
  BY DEF DatagramInv, MbufInv
<1>3. new \in PingRecords /\ new.m = n
  <2> DEFINE base == D!udp_attach(4, 0)
  <2>1. new = [base EXCEPT !.to = to, !.m = n, !.conn = TRUE] BY DEF D!icmp_send
  <2>2. n \in Nat \ {0} /\ SO_EXPIRE \in Nat BY <1>2, DatagramAssumption
  <2>3. base \in [af : {4}, port : {0}, to : {"net"}, dport : {0}, m : {0}, conn : BOOLEAN,
                  expire : Nat, fwd : BOOLEAN]
    BY <2>2 DEF D!udp_attach, D!None
  <2> HIDE DEF n, new, base
  <2> QED BY <2>1, <2>2, <2>3 DEF PingRecords
<1> HIDE DEF new
<1>4. \A so \in icmp : so.m \in Nat /\ so.m # n /\ so.m <= n BY <1>2 DEF PingRecords
<1>5. Cardinality(Holding(udb)) \in Nat BY <1>2, FS_CardinalityType
<1>6. CASE icmp' = icmp /\ mbufs' = mbufs BY <1>1, <1>2, <1>4, <1>6 DEF MbufInv
<1>7. CASE icmp' = icmp \cup {new} /\ mbufs' = mbufs + 1
  <2>1. new \notin icmp BY <1>3, <1>4
  <2>2. D!Held(new) = 1 BY <1>2, <1>3 DEF D!Held, D!None
  <2>3. /\ IsFiniteSet(Holding(icmp \cup {new})) /\ Cardinality(Holding(icmp)) \in Nat
        /\ Cardinality(Holding(icmp \cup {new})) = Cardinality(Holding(icmp)) + D!Held(new)
    BY <1>2, <2>1, HoldingAdded
  <2>4. /\ IsFiniteSet(Holding(icmp'))
        /\ mbufs' = Cardinality(Holding(udb)) + Cardinality(Holding(icmp'))
    BY <1>2, <1>5, <1>7, <2>2, <2>3
  <2>5. icmp' \subseteq PingRecords /\ \A so \in icmp' : so.m <= n
    BY <1>2, <1>3, <1>4, <1>7
  <2>6. \A so, other \in icmp' : so.m = other.m => so = other BY <1>2, <1>3, <1>4, <1>7
  <2> QED BY <1>1, <1>2, <2>4, <2>5, <2>6 DEF MbufInv
<1> QED BY <1>1, <1>6, <1>7

\* A ping that is answered, or fails, is freed.
LEMMA AnswerCounted ==
  ASSUME MbufInv, NEW ask, NEW failed, D!icmp_receive(ask, failed)
  PROVE  MbufInv'
<1>1. /\ \E so \in icmp : so.m = ask.n
      /\ icmp' = {so \in icmp : so.m # ask.n} /\ mbufs' = mbufs - 1
      /\ UNCHANGED <<udb, packetsOut>>
  BY DEF D!icmp_receive, D!icmp_detach
<1>2. PICK so \in icmp : so.m = ask.n BY <1>1
<1>3. /\ icmp \subseteq PingRecords /\ \A x, y \in icmp : x.m = y.m => x = y
      /\ IsFiniteSet(Holding(udb)) /\ IsFiniteSet(Holding(icmp))
      /\ mbufs = Cardinality(Holding(udb)) + Cardinality(Holding(icmp))
  BY DEF MbufInv
<1>4. icmp' = icmp \ {so} BY <1>1, <1>2, <1>3
<1>5. D!Held(so) = 1 BY <1>3 DEF D!Held, D!None, PingRecords
<1>6. Cardinality(Holding(udb)) \in Nat BY <1>3, FS_CardinalityType
<1>7. /\ IsFiniteSet(Holding(icmp \ {so})) /\ Cardinality(Holding(icmp)) \in Nat
      /\ Cardinality(Holding(icmp \ {so})) = Cardinality(Holding(icmp)) - D!Held(so)
  BY <1>3, HoldingRemoved
<1>8. /\ IsFiniteSet(Holding(icmp'))
      /\ mbufs' = Cardinality(Holding(udb)) + Cardinality(Holding(icmp'))
  <2> DEFINE rest == icmp \ {so}
  <2>1. icmp' = rest /\ mbufs' = mbufs - 1 BY <1>1, <1>4
  <2>2. /\ IsFiniteSet(Holding(rest)) /\ Cardinality(Holding(icmp)) \in Nat
        /\ Cardinality(Holding(rest)) = Cardinality(Holding(icmp)) - 1
    BY <1>5, <1>7
  <2> HIDE DEF rest
  <2> QED BY <1>3, <1>6, <2>1, <2>2
<1> QED BY <1>1, <1>3, <1>4, <1>8 DEF MbufInv

\* Sockets whose time has come free what they hold.
LEMMA ExpireCounted ==
  ASSUME MbufInv, D!Expire
  PROVE  MbufInv'
<1>1. /\ udb' = udb \ D!Ends(udb) /\ icmp' = icmp \ D!Ends(icmp) /\ UNCHANGED packetsOut
      /\ mbufs' = mbufs - Cardinality(Holding(D!Ends(udb))) - Cardinality(Holding(D!Ends(icmp)))
  BY OwnedIs DEF D!Expire
<1>2. D!Ends(udb) \in SUBSET udb /\ D!Ends(icmp) \in SUBSET icmp BY DEF D!Ends
<1> DEFINE a == D!Ends(udb)
           b == D!Ends(icmp)
<1>3. IsFiniteSet(Holding(udb)) /\ IsFiniteSet(Holding(icmp))
      /\ mbufs = Cardinality(Holding(udb)) + Cardinality(Holding(icmp))
  BY DEF MbufInv
<1> HIDE DEF a, b
<1>4. /\ IsFiniteSet(Holding(udb \ a)) /\ Cardinality(Holding(udb)) \in Nat
      /\ Cardinality(Holding(a)) \in Nat
      /\ Cardinality(Holding(udb \ a)) = Cardinality(Holding(udb)) - Cardinality(Holding(a))
  BY <1>2, <1>3, HoldingEnds DEF a
<1>5. /\ IsFiniteSet(Holding(icmp \ b)) /\ Cardinality(Holding(icmp)) \in Nat
      /\ Cardinality(Holding(b)) \in Nat
      /\ Cardinality(Holding(icmp \ b)) = Cardinality(Holding(icmp)) - Cardinality(Holding(b))
  BY <1>2, <1>3, HoldingEnds DEF b
<1>6. udb' = udb \ a /\ icmp' = icmp \ b
      /\ mbufs' = mbufs - Cardinality(Holding(a)) - Cardinality(Holding(b))
  BY <1>1 DEF a, b
<1>7. /\ IsFiniteSet(Holding(udb')) /\ IsFiniteSet(Holding(icmp'))
      /\ mbufs' = Cardinality(Holding(udb')) + Cardinality(Holding(icmp'))
  BY <1>3, <1>4, <1>5, <1>6
<1> QED BY <1>1, <1>6, <1>7 DEF MbufInv

\* Time passes, and the sockets hold what they held.
LEMMA TimeCounted ==
  ASSUME DatagramInv, MbufInv, D!Tick
  PROVE  MbufInv'
<1>1. udb' = D!Aged(udb) /\ icmp' = D!Aged(icmp) /\ UNCHANGED <<mbufs, packetsOut>> BY DEF D!Tick
<1>2. /\ udb \subseteq SocketRecords /\ OnePerPort /\ icmp \subseteq PingRecords
      /\ IsFiniteSet(Holding(udb)) /\ IsFiniteSet(Holding(icmp))
      /\ \A so, other \in icmp : so.m = other.m => so = other
      /\ \A so \in icmp : so.m <= packetsOut
      /\ mbufs = Cardinality(Holding(udb)) + Cardinality(Holding(icmp))
  BY DEF DatagramInv, MbufInv
<1>3. ASSUME NEW so \in SocketRecords
      PROVE  Older(so).m = so.m /\ Older(so).af = so.af /\ Older(so).port = so.port
  BY DEF SocketRecords, Older
<1>4. ASSUME NEW so \in PingRecords PROVE Older(so) \in PingRecords /\ Older(so).m = so.m
  BY DEF PingRecords, Older
<1>5. D!Aged(icmp) = {Older(so) : so \in icmp} BY DEF D!Aged, Older
<1>6. /\ IsFiniteSet(Holding(D!Aged(udb)))
      /\ Cardinality(Holding(D!Aged(udb))) = Cardinality(Holding(udb))
  <2>1. \A so \in udb : Older(so).m = so.m BY <1>2, <1>3
  <2>2. ASSUME NEW so \in udb, NEW other \in udb, Older(so) = Older(other) PROVE so = other
    <3>1. so.af = other.af /\ so.port = other.port BY <1>2, <1>3, <2>2
    <3> QED BY <1>2, <3>1 DEF OnePerPort
  <2> QED BY <1>2, <2>1, <2>2, HoldingAged
<1>7. /\ IsFiniteSet(Holding(D!Aged(icmp)))
      /\ Cardinality(Holding(D!Aged(icmp))) = Cardinality(Holding(icmp))
  <2>1. \A so \in icmp : Older(so).m = so.m BY <1>2, <1>4
  <2>2. ASSUME NEW so \in icmp, NEW other \in icmp, Older(so) = Older(other) PROVE so = other
    <3>1. so.m = other.m BY <1>2, <1>4, <2>2
    <3> QED BY <1>2, <3>1
  <2> QED BY <1>2, <2>1, <2>2, HoldingAged
<1>8. /\ icmp' \subseteq PingRecords /\ \A so \in icmp' : so.m <= packetsOut
      /\ \A so, other \in icmp' : so.m = other.m => so = other
  BY <1>1, <1>2, <1>4, <1>5
<1> QED BY <1>1, <1>2, <1>6, <1>7, <1>8 DEF MbufInv

\* MbufInv is an invariant of the services.
LEMMA MbufsHold == AllSpec => []MbufInv
<1>1. ASSUME AllInit PROVE MbufInv
  <2>1. /\ udb = {D!udpx_listen(p[1], p[2]) : p \in Forwarded} /\ icmp = {} /\ mbufs = 0
    BY <1>1 DEF AllInit, D!Init, D!Forwards
  <2>2. \A p : D!udpx_listen(p[1], p[2]).m = 0 BY DEF D!udpx_listen, D!udp_attach, D!None
  <2>3. Holding(udb) = {} /\ Holding(icmp) = {} BY <2>1, <2>2 DEF Holding
  <2>4. IsFiniteSet({}) /\ Cardinality({}) = 0 BY FS_EmptySet
  <2>5. mbufs = Cardinality(Holding(udb)) + Cardinality(Holding(icmp))
    <3>1. Cardinality(Holding(udb)) = 0 /\ Cardinality(Holding(icmp)) = 0 BY <2>3, <2>4
    <3>2. mbufs = 0 BY <2>1
    <3> QED BY <3>1, <3>2
  <2>6. IsFiniteSet(Holding(udb)) /\ IsFiniteSet(Holding(icmp)) BY <2>3, <2>4
  <2> QED BY <2>1, <2>5, <2>6 DEF MbufInv
<1>2. ASSUME DatagramInv, MbufInv, [AllNext]_allVars PROVE MbufInv'
  <2>1. CASE UNCHANGED datagramVars BY <1>2, <2>1 DEF datagramVars, MbufInv
  <2>2. CASE D!GuestSends
    <3>1. CASE \E p \in Ports, dest \in Dests, ttl \in 1 .. 2, known, sentOut \in BOOLEAN :
                 \/ p[1] = 4 /\ D!udp_input(p[2], dest, ttl, known, sentOut)
                 \/ p[1] = 6 /\ dest[1] # "bcast" /\ D!udp6_input(p[2], dest, ttl, known, sentOut)
      <4>1. PICK p \in Ports, dest \in Dests, ttl \in 1 .. 2, known \in BOOLEAN, sentOut \in BOOLEAN :
                 \/ p[1] = 4 /\ D!udp_input(p[2], dest, ttl, known, sentOut)
                 \/ p[1] = 6 /\ dest[1] # "bcast" /\ D!udp6_input(p[2], dest, ttl, known, sentOut)
        BY <3>1, Zenon
      <4>2. p[2] \in PortNumbers BY DEF PortNumbers
      <4>3. \/ D!Datagram(4, p[2], dest, ttl, known, sentOut)
            \/ D!Datagram(6, p[2], dest, ttl, known, sentOut)
        BY <4>1 DEF D!udp_input, D!udp6_input
      <4>4. 4 \in {4, 6} /\ 6 \in {4, 6} OBVIOUS
      <4> QED BY <1>2, <4>2, <4>3, <4>4, DatagramCounted
    <3>2. CASE \E dest \in Dests, sentOut \in BOOLEAN : D!icmp_input(dest[1], sentOut)
      <4>1. PICK dest \in Dests, sentOut \in BOOLEAN : D!icmp_input(dest[1], sentOut)
        BY <3>2, Zenon
      <4>2. dest[1] \in Addresses BY DEF Addresses
      <4> QED BY <1>2, <4>1, <4>2, PingCounted
    <3>3. CASE D!Dropped
      <4>1. packetsOut' = packetsOut + 1 /\ UNCHANGED <<udb, icmp, mbufs>> BY <3>3 DEF D!Dropped
      <4>2. \A so \in icmp : so.m <= packetsOut'
        BY <1>2, <4>1 DEF MbufInv, PingRecords, DatagramInv
      <4> QED BY <1>2, <4>1, <4>2 DEF MbufInv
    <3> QED BY <2>2, <3>1, <3>2, <3>3 DEF D!GuestSends
  <2>3. CASE \E ask \in pending : D!UdpAnswer(ask) \/ D!UdpError(ask)
    <3>1. PICK ask \in pending : D!UdpAnswer(ask) \/ D!UdpError(ask) BY <2>3
    <3>2. CASE D!UdpAnswer(ask)
      <4>1. PICK so \in udb : D!Becomes(so, D!Refreshed(so)) BY <3>2 DEF D!UdpAnswer, D!solookup
      <4>2. UNCHANGED <<icmp, mbufs, packetsOut>> BY <3>2 DEF D!UdpAnswer
      <4> QED BY <1>2, <4>1, <4>2, RefreshCounted
    <3>3. CASE D!UdpError(ask) BY <1>2, <3>3 DEF D!UdpError, MbufInv
    <3> QED BY <3>1, <3>2, <3>3
  <2>4. CASE \E ask \in pending, failed \in BOOLEAN : D!icmp_receive(ask, failed)
    BY <1>2, <2>4, AnswerCounted
  <2>5. CASE \E so \in udb : D!ForwardCalled(so)
    <3>1. PICK so \in udb : D!ForwardCalled(so) BY <2>5
    <3>2. D!Becomes(so, D!Refreshed(so)) /\ UNCHANGED <<icmp, mbufs, packetsOut>>
      BY <3>1 DEF D!ForwardCalled
    <3> QED BY <1>2, <3>2, RefreshCounted
  <2> QED
    BY <1>2, <2>1, <2>2, <2>3, <2>4, <2>5, ExpireCounted, TimeCounted, OneMoves DEF D!Next
<1> QED BY <1>1, <1>2, DatagramsHold, PTL DEF AllSpec

-----------------------------------------------------------------------------
(* The descriptors of the TFTP sessions.                                   *)

Opened(t) == {k \in T!Slots : t[k].open}
Tables == [T!Slots -> Sessions]
\* a handler has as many files open as its table says
Books(e, t) == \E x : e = [table |-> t, files |-> Cardinality(Opened(t)), sent |-> x]
Counted(e) == \E t \in Tables : Books(e, t)

LEMMA OpenedAre ==
  ASSUME NEW t \in Tables
  PROVE  IsFiniteSet(Opened(t)) /\ Cardinality(Opened(t)) \in Nat
<1>1. IsFiniteSet(T!Slots)
  <2>1. 1 \in Int /\ TFTP_SESSIONS_MAX \in Int BY TftpAssumption
  <2> QED BY <2>1, FS_Interval DEF T!Slots
<1>2. Opened(t) \in SUBSET T!Slots BY DEF Opened
<1> QED BY <1>1, <1>2, FS_Subset, FS_CardinalityType

\* A row is replaced.
LEMMA RowCounted ==
  ASSUME NEW t \in Tables, NEW k \in T!Slots, NEW s \in Sessions
  PROVE  LET u == [t EXCEPT ![k] = s]
         IN  /\ u \in Tables
             /\ (t[k].open = s.open) => Opened(u) = Opened(t)
             /\ (t[k].open /\ ~s.open) => Cardinality(Opened(u)) = Cardinality(Opened(t)) - 1
             /\ (~t[k].open /\ s.open) => Cardinality(Opened(u)) = Cardinality(Opened(t)) + 1
<1> DEFINE u == [t EXCEPT ![k] = s]
           old == Opened(t)
           new == Opened(u)
<1>1. u \in Tables /\ u[k] = s /\ \A j \in T!Slots \ {k} : u[j] = t[j] BY DEF Tables
<1> HIDE DEF u
<1>2. (t[k].open = s.open) => new = old BY <1>1 DEF Opened
<1>3. IsFiniteSet(old) /\ Cardinality(old) \in Nat BY OpenedAre
<1>4. ASSUME t[k].open, ~s.open PROVE Cardinality(new) = Cardinality(old) - 1
  <2>1. new = old \ {k} /\ k \in old BY <1>1, <1>4 DEF Opened
  <2> HIDE DEF old, new
  <2>2. Cardinality(old \ {k}) = IF k \in old THEN Cardinality(old) - 1 ELSE Cardinality(old)
    BY <1>3, FS_RemoveElement
  <2> QED BY <2>1, <2>2
<1>5. ASSUME ~t[k].open, s.open PROVE Cardinality(new) = Cardinality(old) + 1
  <2>1. new = old \cup {k} /\ k \notin old BY <1>1, <1>5 DEF Opened
  <2> HIDE DEF old, new
  <2>2. Cardinality(old \cup {k}) = IF k \in old THEN Cardinality(old) ELSE Cardinality(old) + 1
    BY <1>3, FS_AddElement
  <2> QED BY <2>1, <2>2
<1> QED BY <1>1, <1>2, <1>4, <1>5 DEF u

\* A session that ends closes its file.
LEMMA TerminateCounted ==
  ASSUME NEW e, Counted(e), NEW k \in T!Slots
  PROVE  /\ Counted(T!tftp_session_terminate(e, k))
         /\ T!tftp_session_terminate(e, k).table = [e.table EXCEPT ![k] = T!NoSession]
<1> DEFINE r == T!tftp_session_terminate(e, k)
           u == [e.table EXCEPT ![k] = T!NoSession]
<1> PICK t \in Tables : Books(e, t) BY DEF Counted
<1>1. PICK x : e = [table |-> t, files |-> Cardinality(Opened(t)), sent |-> x] BY DEF Books
<1>2. T!NoSession \in Sessions /\ ~T!NoSession.open BY TftpAssumption DEF T!NoSession, Sessions
<1>3. t[k].open \in BOOLEAN BY DEF Tables, Sessions
<1>4. Cardinality(Opened(t)) \in Nat BY OpenedAre
<1>5. u \in Tables /\ Cardinality(Opened(u)) = IF t[k].open THEN Cardinality(Opened(t)) - 1
                                               ELSE Cardinality(Opened(t))
  <2>1. u = [t EXCEPT ![k] = T!NoSession] BY <1>1
  <2>2. CASE t[k].open BY <1>2, <2>1, <2>2, RowCounted
  <2>3. CASE ~t[k].open
    <3>1. t[k].open = T!NoSession.open BY <1>2, <1>3, <2>3 DEF T!NoSession
    <3> QED BY <1>2, <2>1, <2>3, <3>1, RowCounted
  <2> QED BY <2>2, <2>3
<1> DEFINE f == Cardinality(Opened(t))
           g == IF t[k].open THEN f - 1 ELSE f
<1>6. r = [table |-> u, files |-> g, sent |-> x]
  <2>1. r = [e EXCEPT !.table[k] = T!NoSession, !.files = IF e.table[k].open THEN @ - 1 ELSE @]
    BY DEF T!tftp_session_terminate
  <2>2. e.table = t /\ e.files = f BY <1>1
  <2> HIDE DEF f
  <2>3. r = [e EXCEPT !.table = u, !.files = g] BY <1>1, <2>1, <2>2
  <2> HIDE DEF u, g
  <2> QED BY <1>1, <2>3
<1>7. g = Cardinality(Opened(u)) BY <1>5
<1> HIDE DEF r, u, g
<1>8. Books(r, u) BY <1>6, <1>7 DEF Books
<1>9. Counted(r) BY <1>5, <1>8 DEF Counted
<1>10. r.table = u BY <1>6
<1> QED BY <1>9, <1>10 DEF r, u

\* What is sent opens nothing.
LEMMA SendCounted ==
  ASSUME NEW e, Counted(e), NEW k, NEW op, NEW n, NEW data
  PROVE  Counted(T!Send(e, k, op, n, data)) /\ T!Send(e, k, op, n, data).table = e.table
<1> PICK t \in Tables : Books(e, t) BY DEF Counted
<1>1. PICK x : e = [table |-> t, files |-> Cardinality(Opened(t)), sent |-> x] BY DEF Books
<1> DEFINE p == [to |-> e.table[k].client, op |-> op, nr |-> n, data |-> data]
           more == Append(x, p)
           f == Cardinality(Opened(t))
<1>2. T!Send(e, k, op, n, data) = [e EXCEPT !.sent = Append(@, p)] BY DEF T!Send
<1> HIDE DEF p, f
<1>3. T!Send(e, k, op, n, data) = [table |-> t, files |-> f, sent |-> more] BY <1>1, <1>2 DEF f
<1> HIDE DEF more
<1> DEFINE r == T!Send(e, k, op, n, data)
<1>4. Books(r, t) BY <1>3 DEF Books, f
<1>5. r.table = t /\ e.table = t BY <1>1, <1>3
<1> HIDE DEF r
<1>6. Counted(r) BY <1>4 DEF Counted
<1> QED BY <1>5, <1>6 DEF r

\* Another row for a session, its file as it is.
LEMMA ChangeCounted ==
  ASSUME NEW e, Counted(e), NEW k \in T!Slots, NEW s \in Sessions, s.open = e.table[k].open
  PROVE  Counted([e EXCEPT !.table[k] = s])
<1> PICK t \in Tables : Books(e, t) BY DEF Counted
<1>1. PICK x : e = [table |-> t, files |-> Cardinality(Opened(t)), sent |-> x] BY DEF Books
<1> DEFINE u == [t EXCEPT ![k] = s]
           f == Cardinality(Opened(t))
<1>2. [e EXCEPT !.table[k] = s] = [table |-> u, files |-> f, sent |-> x] BY <1>1
<1>3. t[k].open = s.open BY <1>1
<1>4. u \in Tables /\ Opened(u) = Opened(t) BY <1>3, RowCounted
<1> HIDE DEF u
<1> QED BY <1>2, <1>4 DEF Counted, Books

\* A file is opened once.
LEMMA OpenCounted ==
  ASSUME NEW e, Counted(e), NEW k \in T!Slots
  PROVE  Counted(T!Open(e, k)) /\ T!Open(e, k).table = [e.table EXCEPT ![k].open = TRUE]
<1> PICK t \in Tables : Books(e, t) BY DEF Counted
<1>1. PICK x : e = [table |-> t, files |-> Cardinality(Opened(t)), sent |-> x] BY DEF Books
<1> DEFINE s == [t[k] EXCEPT !.open = TRUE]
           u == [t EXCEPT ![k] = s]
           f == Cardinality(Opened(t))
           g == IF t[k].open THEN f ELSE f + 1
           r == T!Open(e, k)
<1>2. t[k] \in Sessions /\ t[k].open \in BOOLEAN BY DEF Tables, Sessions
<1>3. s \in Sessions /\ s.open = TRUE BY <1>2 DEF Sessions
<1>4. u = [e.table EXCEPT ![k].open = TRUE] BY <1>1 DEF Tables
<1>5. r = [table |-> u, files |-> g, sent |-> x]
  <2>1. r = [e EXCEPT !.table[k].open = TRUE, !.files = IF e.table[k].open THEN @ ELSE @ + 1]
    BY DEF T!Open
  <2>2. e.table = t /\ e.files = f BY <1>1
  <2> HIDE DEF f
  <2>3. r = [e EXCEPT !.table = u, !.files = g] BY <1>1, <2>1, <2>2
  <2> HIDE DEF u, g
  <2> QED BY <1>1, <2>3
<1> HIDE DEF s
<1>6. f \in Nat BY OpenedAre
<1>7. u \in Tables /\ g = Cardinality(Opened(u))
  <2>1. CASE t[k].open
    <3>1. t[k].open = s.open BY <1>2, <1>3, <2>1
    <3> QED BY <1>3, <2>1, <3>1, RowCounted
  <2>2. CASE ~t[k].open BY <1>3, <1>6, <2>2, RowCounted
  <2> QED BY <2>1, <2>2
<1> HIDE DEF u, g, r
<1>8. Books(r, u) BY <1>5, <1>7 DEF Books
<1>9. Counted(r) BY <1>7, <1>8 DEF Counted
<1>10. r.table = u BY <1>5
<1> QED BY <1>4, <1>9, <1>10 DEF r

\* What is counted has a table.
LEMMA CountedIs ==
  ASSUME NEW e, Counted(e)
  PROVE  /\ e.table \in Tables /\ e.files = Cardinality(Opened(e.table))
         /\ e = [table |-> e.table, files |-> e.files, sent |-> e.sent]
<1> PICK t \in Tables : Books(e, t) BY DEF Counted
<1> QED BY DEF Books

\* An error ends its session.
LEMMA ErrorCounted ==
  ASSUME NEW e, Counted(e), NEW k \in T!Slots
  PROVE  Counted(T!tftp_send_error(e, k))
  BY SendCounted, TerminateCounted DEF T!tftp_send_error

\* A block leaves its session's file open, or ends it.
LEMMA NextBlockCounted ==
  ASSUME NEW e, Counted(e), NEW k \in T!Slots, NEW readable \in BOOLEAN, curtime \in Nat
  PROVE  Counted(T!tftp_send_next_block(e, k, readable))
<1> DEFINE s == e.table[k]
           data == T!tftp_read_data(s)
           n == s.nr + 1
           o == T!Open(e, k)
           sentOut == T!Send(o, k, "data", n, data)
           r == [sentOut EXCEPT !.table[k].nr = n, !.table[k].stamp = curtime]
<1>1. Counted(o) BY OpenCounted
<1>2. s \in Sessions BY CountedIs DEF Tables
<1>3. n \in Nat BY <1>2 DEF Sessions
<1> HIDE DEF s, data, n, o
<1>4. Counted(sentOut) BY <1>1, SendCounted
<1> HIDE DEF sentOut
<1>5. Counted(r)
  <2> DEFINE row == [sentOut.table[k] EXCEPT !.nr = n, !.stamp = curtime]
  <2>1. sentOut.table \in Tables
        /\ sentOut = [table |-> sentOut.table, files |-> sentOut.files, sent |-> sentOut.sent]
    BY <1>4, CountedIs
  <2>2. sentOut.table[k] \in Sessions BY <2>1 DEF Tables
  <2>3. row \in Sessions /\ row.open = sentOut.table[k].open BY <1>3, <2>2 DEF Sessions
  <2>4. r = [sentOut EXCEPT !.table[k] = row]
    <3> DEFINE t == sentOut.table
    <3>1. t \in Tables BY <2>1
    <3>2. [t EXCEPT ![k].nr = n, ![k].stamp = curtime] = [t EXCEPT ![k] = row]
      BY <2>2, <3>1 DEF Tables
    <3> QED BY <2>1, <3>2
  <2> HIDE DEF row, r
  <2> QED BY <1>4, <2>3, <2>4, ChangeCounted
<1>6. Counted(T!tftp_session_terminate(sentOut, k)) BY <1>4, TerminateCounted
<1>7. Counted(T!tftp_send_error(e, k)) BY ErrorCounted
<1> QED BY <1>5, <1>6, <1>7 DEF T!tftp_send_next_block, r, sentOut, o, n, data, s

\* As many files are open as sessions have one.
FilesInv ==
  /\ curtime \in Nat /\ sessions \in Tables /\ files = Cardinality(Opened(sessions))
LEMMA EffectCounted ==
  ASSUME FilesInv
  PROVE  Counted(T!Effect) /\ T!Effect.table = sessions
<1>1. T!Effect = [table |-> sessions, files |-> Cardinality(Opened(sessions)), sent |-> <<>>]
  BY DEF FilesInv, T!Effect
<1>2. Books(T!Effect, sessions) BY <1>1 DEF Books
<1> QED BY <1>1, <1>2 DEF Counted, FilesInv

\* A request closes the file of the client's old session, and of one that has been idle.
LEMMA RequestCounted ==
  ASSUME FilesInv, NEW c \in Clients, NEW proper \in BOOLEAN, NEW found \in BOOLEAN,
         NEW readable \in BOOLEAN
  PROVE  Counted(T!tftp_handle_rrq(c, proper, found, readable))
<1> DEFINE old == T!tftp_session_find(c)
           ended == IF old = 0 THEN T!Effect ELSE T!tftp_session_terminate(T!Effect, old)
           k == T!SlotFor(ended)
           new == T!tftp_session_allocate(ended, k, c)
           opened == T!Open(new, k)
           size == IF Asked[c] < TFTP_BLOCKSIZE_MAX THEN Asked[c] ELSE TFTP_BLOCKSIZE_MAX
           sized == [opened EXCEPT !.table[k].size = size]
<1>1. curtime \in Nat /\ size \in Nat BY TftpAssumption DEF FilesInv
<1>2. Counted(ended)
  <2>1. CASE old = 0 BY <2>1, EffectCounted
  <2>2. CASE old # 0 BY <2>2, EffectCounted, FindsOwn, TerminateCounted
  <2> QED BY <2>1, <2>2
<1>3. k # 0 => k \in T!Slots BY SlotIsSlot
<1> HIDE DEF old, ended, k, size
<1>4. ASSUME k # 0
      PROVE  /\ Counted(T!tftp_send_error(new, k)) /\ Counted(T!tftp_send_error(opened, k))
             /\ Counted(T!tftp_send_oack(sized, k))
             /\ Counted(T!tftp_send_next_block(opened, k, readable))
  <2>1. k \in T!Slots BY <1>3, <1>4
  <2>2. Counted(new)
    <3> DEFINE s == T!NewSession(c)
               e == T!tftp_session_terminate(ended, k)
    <3>1. Counted(e) /\ e.table = [ended.table EXCEPT ![k] = T!NoSession]
      BY <1>2, <2>1, TerminateCounted
    <3>2. s \in Sessions /\ s.open = FALSE BY <1>1, TftpAssumption DEF T!NewSession, Sessions
    <3>3. e.table[k].open = FALSE
      BY <1>2, <2>1, <3>1, CountedIs DEF Tables, T!NoSession
    <3>4. new = [e EXCEPT !.table[k] = s] BY DEF T!tftp_session_allocate
    <3> HIDE DEF new, e, s
    <3> QED BY <2>1, <3>1, <3>2, <3>3, <3>4, ChangeCounted
  <2> HIDE DEF new
  <2>3. Counted(opened) BY <2>1, <2>2, OpenCounted
  <2> HIDE DEF opened
  <2>4. Counted(sized)
    <3> DEFINE row == [opened.table[k] EXCEPT !.size = size]
    <3>1. opened.table \in Tables
          /\ opened = [table |-> opened.table, files |-> opened.files, sent |-> opened.sent]
      BY <2>3, CountedIs
    <3>2. opened.table[k] \in Sessions BY <2>1, <3>1 DEF Tables
    <3>3. row \in Sessions /\ row.open = opened.table[k].open BY <1>1, <3>2 DEF Sessions
    <3>4. sized = [opened EXCEPT !.table[k] = row] BY <2>1, <3>1 DEF Tables
    <3> HIDE DEF row, sized
    <3> QED BY <2>1, <2>3, <3>3, <3>4, ChangeCounted
  <2> HIDE DEF sized
  <2>5. Counted(T!tftp_send_oack(sized, k)) BY <2>4, SendCounted DEF T!tftp_send_oack
  <2> QED BY <1>1, <2>1, <2>2, <2>3, <2>5, ErrorCounted, NextBlockCounted
<1> QED BY <1>2, <1>4 DEF T!tftp_handle_rrq, old, ended, k, size

\* An acknowledgement, and an error of the client.
LEMMA AnswersCounted ==
  ASSUME FilesInv, NEW c \in Clients, NEW readable \in BOOLEAN
  PROVE  Counted(T!tftp_handle_ack(c, readable)) /\ Counted(T!tftp_handle_error(c))
<1> DEFINE k == T!tftp_session_find(c)
<1>1. Counted(T!Effect) /\ curtime \in Nat BY EffectCounted DEF FilesInv
<1>2. k # 0 => k \in T!Slots BY FindsOwn
<1> HIDE DEF k
<1>3. k # 0 => /\ Counted(T!tftp_send_next_block(T!Effect, k, readable))
               /\ Counted(T!tftp_session_terminate(T!Effect, k))
  BY <1>1, <1>2, NextBlockCounted, TerminateCounted
<1> QED BY <1>1, <1>3 DEF T!tftp_handle_ack, T!tftp_handle_error, k

\* FilesInv is an invariant of the services.
LEMMA FilesHold == AllSpec => []FilesInv
<1>1. ASSUME AllInit PROVE FilesInv
  <2>1. sessions = [k \in T!Slots |-> T!NoSession] /\ files = 0 /\ curtime = 0
    BY <1>1 DEF AllInit, T!Init
  <2>2. T!NoSession \in Sessions /\ ~T!NoSession.open BY TftpAssumption DEF T!NoSession, Sessions
  <2>3. sessions \in Tables /\ Opened(sessions) = {} BY <2>1, <2>2 DEF Tables, Opened
  <2>4. Cardinality({}) = 0 BY FS_EmptySet
  <2> QED BY <2>1, <2>3, <2>4 DEF FilesInv
<1>2. ASSUME FilesInv, [AllNext]_allVars PROVE FilesInv'
  <2>1. CASE UNCHANGED <<sessions, files, curtime>> BY <1>2, <2>1 DEF FilesInv, Opened
  <2>2. ASSUME NEW e, Counted(e), T!tftp_input(e), UNCHANGED curtime PROVE FilesInv'
    <3>1. sessions' = e.table /\ files' = e.files BY <2>2 DEF T!tftp_input
    <3> QED BY <1>2, <2>2, <3>1, CountedIs DEF FilesInv
  <2>3. CASE \E c \in Clients : T!SendRrq(c) \/ T!SendAck(c) \/ T!SendError(c)
    <3>1. PICK c \in Clients : T!SendRrq(c) \/ T!SendAck(c) \/ T!SendError(c) BY <2>3
    <3>2. UNCHANGED curtime BY <3>1 DEF T!SendRrq, T!SendAck, T!SendError
    <3>3. CASE T!SendRrq(c)
      <4>1. PICK proper \in BOOLEAN, found \in BOOLEAN, readable \in BOOLEAN :
              T!tftp_input(T!tftp_handle_rrq(c, proper, found, readable))
        BY <3>3, Zenon DEF T!SendRrq
      <4> QED BY <1>2, <2>2, <3>2, <4>1, RequestCounted
    <3>4. CASE T!SendAck(c)
      <4>1. PICK readable \in BOOLEAN : T!tftp_input(T!tftp_handle_ack(c, readable))
        BY <3>4, Zenon DEF T!SendAck
      <4> QED BY <1>2, <2>2, <3>2, <4>1, AnswersCounted
    <3>5. CASE T!SendError(c)
      <4>1. T!tftp_input(T!tftp_handle_error(c)) BY <3>5 DEF T!SendError
      <4>2. Counted(T!tftp_handle_error(c)) BY <1>2, AnswersCounted
      <4> QED BY <2>2, <3>2, <4>1, <4>2
    <3> QED BY <3>1, <3>3, <3>4, <3>5
  <2>4. CASE T!Tick BY <1>2, <2>4 DEF T!Tick, FilesInv, Opened
  <2>5. T!Receive \/ T!Lose \/ UNCHANGED tftpVars => UNCHANGED <<sessions, files, curtime>>
    BY DEF T!Receive, T!Lose, tftpVars
  <2> QED BY <1>2, <2>1, <2>3, <2>4, <2>5, OneMoves DEF T!Next
<1> QED BY <1>1, <1>2, PTL DEF AllSpec

\* No mbuf of a fragment or datagram is lost or freed twice, and no descriptor outlives its TFTP
\* session, whatever is dropped, replaced, answered, in error or expires (ip_reass, ip_freef,
\* ip_slowtimo, udp_input, sorecvfrom, sofree, tftp_session_terminate).
THEOREM NothingIsLeaked == AllSpec => []NothingLeaked
<1>1. ASSUME FragmentInv, MbufInv, FilesInv PROVE NothingLeaked
  <2>1. F!FragmentsAccounted BY <1>1 DEF FragmentInv
  <2>2. D!MbufsOwned BY <1>1, OwnedIs DEF MbufInv, D!MbufsOwned
  <2>3. T!FilesAccounted
    BY <1>1 DEF FilesInv, Opened, T!FilesAccounted, T!Cardinality, Cardinality
  <2> QED BY <2>1, <2>2, <2>3 DEF NothingLeaked
<1> QED BY <1>1, FragmentsHold, MbufsHold, FilesHold, PTL
=============================================================================
