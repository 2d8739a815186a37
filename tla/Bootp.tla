------------------------------- MODULE Bootp -------------------------------
(***************************************************************************)
(* The DHCP server of the virtual network, bootp.c.  Addresses are the     *)
(* indexes of bootp_clients, counted from vdhcp_startaddr; an address      *)
(* beyond them is not the server's to give.  There is no end to a lease:   *)
(* a client keeps what it was offered until the network is torn down.      *)
(*                                                                         *)
(* A request is [op, chaddr, ciaddr, options, cut]: the options in their   *)
(* order, <<"type", t>>, <<"addr", a>>, other or padding, and cut when     *)
(* the packet ends inside an option.                                       *)
(***************************************************************************)
EXTENDS Integers, Sequences, FiniteSets, SequencesExt

CONSTANTS Macs,
          NB_BOOTP_CLIENTS,
          MaxRequests \* bound: requests handled

ASSUME BootpAssumption ==
  NB_BOOTP_CLIENTS \in Nat \ {0} /\ MaxRequests \in Nat /\ "none" \notin Macs

VARIABLES
  clients,    \* bootp_clients, the MAC of an allocated one or NoMac
  arp,        \* the MAC that arp_table_add has last been given for an address
  given,      \* history: what was offered or acknowledged, [addr, mac] records
  lost,       \* mbufs that bootp_reply has taken and not sent
  requests    \* requests handled

vars == <<clients, arp, given, lost, requests>>

NoMac == "none"
Addrs == 0 .. NB_BOOTP_CLIENTS - 1
NoAddr == -1          \* 0.0.0.0
Everyone == -2        \* 255.255.255.255
DHCPDISCOVER == 1
DHCPREQUEST == 3

Init ==
  /\ clients = [i \in Addrs |-> NoMac] /\ arp = [i \in Addrs |-> NoMac]
  /\ given = {} /\ lost = 0 /\ requests = 0

-----------------------------------------------------------------------------
(* Each of these gives the index of a client's slot, or NoAddr.            *)

First(slots) ==
  IF slots = {} THEN NoAddr ELSE CHOOSE i \in slots : \A j \in slots : i <= j
get_new_addr(mac) == First({i \in Addrs : clients[i] \in {NoMac, mac}})

\* mutant: whoever asks for an address has it
request_addr_Any(a, mac) == IF a \in Addrs THEN a ELSE NoAddr
request_addr(a, mac) == IF a \in Addrs /\ clients[a] \in {NoMac, mac} THEN a ELSE NoAddr

find_addr(mac) == First({i \in Addrs : clients[i] = mac})

-----------------------------------------------------------------------------
\* the last message type and address before the end of the options
dhcp_decode(req) ==
  LET ends == {i \in DOMAIN req.options : req.options[i][1] = "end"}
      last == IF ends = {} THEN Len(req.options) ELSE (CHOOSE i \in ends : \A j \in ends : i <= j) - 1
      read == SubSeq(req.options, 1, IF req.cut /\ ends = {} THEN last - 1 ELSE last)
      Of(tag) == SelectSeq(read, LAMBDA o : o[1] = tag)
      type == IF Of("type") = <<>> THEN 0 ELSE Last(Of("type"))[2]
      addr == IF Of("addr") = <<>> THEN NoAddr ELSE Last(Of("addr"))[2]
  IN  [type |-> type,
       addr |-> IF type = DHCPREQUEST /\ addr = NoAddr THEN req.ciaddr ELSE addr]

\* the slot of the answer: NoAddr is a DHCPNAK, or no answer at all to a DISCOVER
SlotFor(type, addr, mac) ==
  LET asked == IF addr = NoAddr THEN NoAddr ELSE request_addr(addr, mac)
      found == find_addr(mac)
  IN  IF type = DHCPDISCOVER THEN IF asked # NoAddr THEN asked ELSE get_new_addr(mac)
      ELSE IF addr # NoAddr THEN asked
      ELSE IF found # NoAddr THEN found ELSE get_new_addr(mac)

arp_table_add(a, mac) ==
  arp' = IF a \in Addrs THEN [arp EXCEPT ![a] = mac] ELSE arp

\* an offer or an acknowledgement
Given(slot, mac) ==
  /\ clients' = [clients EXCEPT ![slot] = mac]
  /\ arp_table_add(slot, mac)
  /\ given' = given \cup {[addr |-> slot, mac |-> mac]}
  /\ UNCHANGED lost
\* without a slot only one who asked for an address is answered, to Everyone
Nak(mac, asked) ==
  /\ arp_table_add(Everyone, mac)
  /\ lost' = IF asked THEN lost ELSE lost + 1
  /\ UNCHANGED <<clients, given>>

\* an old BOOTP client's request has no type and is taken for a DHCPREQUEST
bootp_reply(req) ==
  LET read == dhcp_decode(req)
      type == IF read.type = 0 THEN DHCPREQUEST ELSE read.type
      slot == SlotFor(type, read.addr, req.chaddr)
  IN  IF type \notin {DHCPDISCOVER, DHCPREQUEST} THEN UNCHANGED <<clients, arp, given, lost>>
      ELSE IF slot # NoAddr THEN Given(slot, req.chaddr)
      ELSE Nak(req.chaddr, type = DHCPREQUEST /\ read.addr # NoAddr)

bootp_input(req) ==
  /\ requests < MaxRequests /\ requests' = requests + 1
  /\ IF req.op = "request" THEN bootp_reply(req) ELSE UNCHANGED <<clients, arp, given, lost>>

Options ==
  LET some == {<<"type", DHCPDISCOVER>>, <<"type", DHCPREQUEST>>, <<"type", 2>>, <<"pad">>, <<"end">>}
              \cup {<<"addr", a>> : a \in Addrs \cup {NB_BOOTP_CLIENTS}}
  IN  UNION {[1 .. n -> some] : n \in 0 .. 2}
Requests ==
  [op : {"request", "reply"}, chaddr : Macs, ciaddr : {NoAddr, 0}, options : Options,
   cut : BOOLEAN]
Next == \E req \in Requests : bootp_input(req)
Spec == Init /\ [][Next]_vars

-----------------------------------------------------------------------------
(* Properties.                                                             *)

\* No address is ever given to two clients, offers included, and the guest's packets to an
\* address given go to the client that has it.
LeasesUnique ==
  /\ \A g, h \in given : g.addr = h.addr => g.mac = h.mac
  /\ \A g \in given : arp[g.addr] = g.mac /\ clients[g.addr] = g.mac
=============================================================================
