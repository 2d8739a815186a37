------------------------------ MODULE Services ------------------------------
(***************************************************************************)
(* The virtual network beside TCP: it puts the guest's fragments together, *)
(* carries its datagrams, gives it an address, serves it files, and is its *)
(* router and neighbour.  These parts share no state, so that one of them  *)
(* at a time moves here, the one that service names.                       *)
(***************************************************************************)
EXTENDS Bootp

CONSTANTS Originals, Size, IPFRAGTTL, HLen, LinkHdr, if_mtu, IdMod, MaxFragments, MaxPacket,
          MBUF_THRESH, MSize,
          Clients, TFTP_SESSIONS_MAX, BlockSize, TFTP_BLOCKSIZE_MAX, Asked, FileLen, IDLE,
          MaxTicks, MaxSent,
          Guests, NDP_TABLE_SIZE, Interval, EXPIRY,
          Ports, Forwarded, Dests, SO_EXPIRE, SO_EXPIREFAST, MaxPackets

ASSUME FragmentAssumption ==
  /\ Size \in [Originals -> Nat \ {0}] /\ {IPFRAGTTL, IdMod} \subseteq Nat \ {0}
  /\ {if_mtu, HLen, LinkHdr, MSize, MaxPacket} \subseteq Nat /\ MSize >= LinkHdr + if_mtu
ASSUME TftpAssumption ==
  /\ TFTP_SESSIONS_MAX \in Nat \ {0} /\ Asked \in [Clients -> Nat]
  /\ {FileLen, IDLE, MaxTicks, MaxSent} \subseteq Nat
  /\ {BlockSize, TFTP_BLOCKSIZE_MAX} \subseteq Nat \ {0} /\ "nobody" \notin Clients
ASSUME NdpAssumption ==
  {NDP_TABLE_SIZE, Interval, EXPIRY} \subseteq Nat \ {0} /\ "zero" \notin Guests
ASSUME DatagramAssumption ==
  /\ Forwarded \subseteq Ports /\ {SO_EXPIRE, SO_EXPIREFAST} \subseteq Nat \ {0}
  /\ MaxPackets \in Nat

VARIABLES
  service,
  ipq, used, received, ip_id, out, count,
  prefix, sessions, files, wire, got, curtime, packets,
  in6_enabled, table, next_victim, guest, waiting, sent, timer, ra, heard,
  udb, icmp, mbufs, packetsOut, pending, misnamed, quotes

F == INSTANCE Fragments
T == INSTANCE Tftp
N == INSTANCE Ndp
D == INSTANCE Datagrams

fragmentVars == <<ipq, used, received, ip_id, out, count>>
tftpVars == <<prefix, sessions, files, wire, got, curtime, packets>>
ndpVars == <<in6_enabled, table, next_victim, guest, waiting, sent, timer, ra, heard>>
datagramVars == <<udb, icmp, mbufs, packetsOut, pending, misnamed, quotes>>
allVars == <<service, vars, fragmentVars, tftpVars, ndpVars, datagramVars>>

AllInit ==
  /\ service \in {"fragments", "datagrams", "bootp", "tftp", "ndp"}
  /\ Init /\ F!Init /\ T!Init /\ N!Init /\ D!Init
  /\ prefix => service = "tftp"
  /\ in6_enabled => service = "ndp"

BootpMoves ==
  service = "bootp" /\ Next /\ UNCHANGED <<service, fragmentVars, tftpVars, ndpVars, datagramVars>>
FragmentsMove ==
  service = "fragments" /\ F!Next /\ UNCHANGED <<service, vars, tftpVars, ndpVars, datagramVars>>
TftpMoves ==
  service = "tftp" /\ T!Next /\ UNCHANGED <<service, vars, fragmentVars, ndpVars, datagramVars>>
InNdp(A) ==
  service = "ndp" /\ A /\ UNCHANGED <<service, vars, fragmentVars, tftpVars, datagramVars>>
InDatagrams(A) ==
  service = "datagrams" /\ A /\ UNCHANGED <<service, vars, fragmentVars, tftpVars, ndpVars>>
AllNext == FragmentsMove \/ BootpMoves \/ TftpMoves \/ InNdp(N!Next) \/ InDatagrams(D!Next)
\* the emulator polls, which runs the timers and ends old sockets, and time passes
AllSpec ==
  /\ AllInit /\ [][AllNext]_allVars
  /\ WF_allVars(InNdp(N!TimersRun)) /\ WF_allVars(InNdp(N!Tick))
  /\ WF_allVars(InDatagrams(D!Expire)) /\ WF_allVars(InDatagrams(D!Tick))

-----------------------------------------------------------------------------
\* The properties of the parts; LeasesUnique is Bootp's own.

\* What ip_reass passes up is the whole datagram, in order, in an mbuf with room for it, and
\* what ip_output cuts is the packet, in legal fragments that fit.
FragmentsWhole == F!Reassembled /\ F!SentWhole

\* No mbuf of a fragment is lost or kept for ever (ip_reass, ip_freef, ip_slowtimo), none of a
\* datagram leaks or is freed twice (udp_input, icmp_send, sofree), and no descriptor outlives
\* its TFTP session (tftp_session_terminate).
NothingLeaked == F!FragmentsAccounted /\ D!MbufsOwned /\ T!FilesAccounted

\* A TFTP client that follows the protocol has the file's beginning, and in the end all of it.
ServedExactly == T!ServedExactly

\* An IPv6 neighbour is reached at the MAC it was last heard from (ndp_table_add).
NeighborsTrue == N!NeighborsTrue

\* The router advertisements go on for ever (ra_timer_handler).
RouterAdvertised == service = "ndp" => N!RouterAdvertised

\* An answer comes from the address that the guest sent to (sotranslate_in).
AnswersNamed == D!AnswersNamed

\* An error quotes the packet it is about or a later one (icmp_forward_error).
ErrorsQuote == D!ErrorsQuote

\* All sockets of datagrams end, but the forwards' (so_expire).
SocketsExpire == D!SocketsExpire
=============================================================================
