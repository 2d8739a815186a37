----------------------------- MODULE SlirpGlue -----------------------------
(***************************************************************************)
(* The emulator's side of libslirp: SlirpEthernetConnection of             *)
(* ethernet_slirp_static.cpp with its port forwards, its poll set and the  *)
(* life of its slirp, and the parts of libslirp it drives: slirp_new and   *)
(* slirp_cleanup, the socket lists, slirp_pollfds_fill and _poll.          *)
(*                                                                         *)
(* All of it runs on the emulator's thread: guest packets (SendPacket) and *)
(* polls (GetPackets) come in any order, descriptors are the process's and *)
(* are used again, lowest first.  What a TCP connection does in between is *)
(* TcpConn's: here it asks to be polled or not, and ends sometime.         *)
(*                                                                         *)
(* A socket is [fd, lport, hport, state, expire, idx]: its descriptor, the *)
(* guest's port, the host's port it forwards (0: none), "listen", "new" or *)
(* "conn", so_expire in ticks from now (0: never) and pollfds_idx.         *)
(***************************************************************************)
EXTENDS DnsAddr

CONSTANTS MaxFd,              \* descriptors the process may open
          GuestPorts,
          Settings,           \* tcp_port_forwards and udp_port_forwards: pairs of lists of rules
          MaxPort,            \* 65535 in the code
          SO_EXPIRE,          \* 240 s in the code, in ticks
          ServerLists,        \* name servers the host may have
          HeldPorts           \* host ports that others may hold

ASSUME GlueAssumption ==
  /\ {MaxFd, MaxPort, SO_EXPIRE} \subseteq Nat \ {0} /\ GuestPorts \subseteq 1 .. MaxPort
  /\ Settings \subseteq Seq(Seq(Seq(Int))) \X Seq(Seq(Seq(Int)))

Types == {"tcp", "udp", "icmp"}

VARIABLES
  slirp,      \* whether the connection has its slirp
  lists,      \* per type, tcb, udb and icmp: sequences of sockets
  registered, \* registered_fds
  forwards,   \* per type, forwarded_tcp_ports, forwarded_udp_ports: <<host, guest>> pairs
  setting,    \* the settings of the session, per type
  servers,    \* the host's name servers
  dns,        \* dns_addr with its time: static, for all sessions
  refused,    \* history: forwards that could not be bound
  misread,    \* history: a socket was given another descriptor's events
  outdated    \* history: a query went to a server that had been gone for a second

vars == <<slirp, lists, registered, forwards, setting, servers, dns, refused, misread,
          outdated>>

NoLists == [t \in Types |-> <<>>]
NoForwards == [t \in {"tcp", "udp"} |-> {}]
NoRules == [t \in {"tcp", "udp"} |-> <<>>]

Init ==
  /\ slirp = FALSE /\ lists = NoLists /\ registered = <<>>
  /\ forwards = NoForwards /\ setting = NoRules
  /\ servers \in ServerLists /\ dns = NoAddr
  /\ refused = {} /\ misread = FALSE /\ outdated = FALSE

-----------------------------------------------------------------------------
(* Sockets and descriptors.  st is what the steps of an operation hand on: *)
(* [lists, registered, polls, forwards, refused].                          *)

Elements(s) == {s[i] : i \in DOMAIN s}
\* the elements of s that are in set, in their order
Only(s, set) ==
  LET kept[i \in 0 .. Len(s)] ==
        IF i = 0 THEN <<>> ELSE IF s[i] \in set THEN Append(kept[i - 1], s[i]) ELSE kept[i - 1]
  IN  kept[Len(s)]
FdsOf(sequence) == {sequence[i].fd : i \in DOMAIN sequence}
Open(st) == UNION {FdsOf(st.lists[t]) : t \in Types}
HasFd(st) == Cardinality(Open(st)) < MaxFd
LowestFree(st) ==
  CHOOSE fd \in 0 .. MaxFd - 1 : fd \notin Open(st) /\ \A f \in 0 .. fd - 1 : f \in Open(st)

NoIndex == -1
socreate(fd, lport) ==
  [fd |-> fd, lport |-> lport, hport |-> 0, state |-> "new", expire |-> 0, idx |-> NoIndex]

slirp_insque(st, type, s) == [st EXCEPT !.lists[type] = <<s>> \o @]
slirp_remque(st, type, fds) ==
  [st EXCEPT !.lists[type] = Only(@, {s \in Elements(@) : s.fd \notin fds})]

PollUnregister(st, fds) == [st EXCEPT !.registered = Only(@, Elements(@) \ fds)]
PollRegister(st, fd) == [PollUnregister(st, {fd}) EXCEPT !.registered = Append(@, fd)]

\* mutant: the descriptors are closed but still polled
Detach_Registered(st, type, fds) == slirp_remque(st, type, fds)
\* udp_detach, icmp_detach, tcp_close, slirp_remove_hostfwd, of each socket that is to go
Detach(st, type, fds) == PollUnregister(slirp_remque(st, type, fds), fds)

-----------------------------------------------------------------------------
(* Port forwards.  A rule is a sequence of parts between colons, a part a  *)
(* sequence of ports between dashes; a port that is no number is NaN.      *)

NaN == -1

\* one port stands for both ends of its range, one part for both sides
TwoOf(s) == IF Len(s) = 1 THEN s \o s ELSE s
PortsOf(rule) ==
  LET parts == TwoOf(rule)
      Good(part) == Len(TwoOf(part)) = 2 /\ NaN \notin Elements(part)
  IN  IF Len(parts) = 2 /\ Good(parts[1]) /\ Good(parts[2])
      THEN TwoOf(parts[1]) \o TwoOf(parts[2]) ELSE <<>>

\* the longer one of the two ranges counts, on both sides
RangeOf(p) == IF p[2] - p[1] > p[4] - p[3] THEN p[2] - p[1] ELSE p[4] - p[3]
Valid(p) ==
  /\ p # <<>> /\ p[2] >= p[1] /\ p[4] >= p[3]
  /\ p[1] >= 1 /\ p[1] + RangeOf(p) <= MaxPort /\ p[3] >= 1 /\ p[3] + RangeOf(p) <= MaxPort

\* tcpx_listen and udpx_listen, which give up their socket when the port is taken
BoundPorts(st, type) == {s.hport : s \in Elements(st.lists[type])} \ {0}
\* mutant: a forward expires like the guest's own sockets
Listener_Expires(st, type, host, guest) ==
  [socreate(LowestFree(st), guest) EXCEPT !.hport = host, !.expire = IF type = "udp" THEN SO_EXPIRE ELSE 0,
     !.state = IF type = "tcp" THEN "listen" ELSE "conn"]
Listener(st, type, host, guest) ==
  [socreate(LowestFree(st), guest) EXCEPT !.hport = host,
     !.state = IF type = "tcp" THEN "listen" ELSE "conn"]

slirp_add_hostfwd(st, type, taken, host, guest) ==
  IF HasFd(st) /\ host \notin taken \cup BoundPorts(st, type)
  THEN [slirp_insque(st, type, Listener(st, type, host, guest))
          EXCEPT !.forwards[type] = @ \cup {<<host, guest>>}]
  ELSE [st EXCEPT !.refused = @ \cup {<<type, host>>}]

SetupRule(st, type, taken, rule) ==
  LET p == PortsOf(rule)
      set[n \in 0 .. RangeOf(p) + 1] ==
        IF n = 0 THEN st ELSE slirp_add_hostfwd(set[n - 1], type, taken, p[1] + n - 1, p[3] + n - 1)
  IN  IF Valid(p) THEN set[RangeOf(p) + 1] ELSE st
SetupPortForwards(st, type, taken, rules) ==
  LET set[i \in 0 .. Len(rules)] ==
        IF i = 0 THEN st ELSE SetupRule(set[i - 1], type, taken, rules[i])
  IN  set[Len(rules)]

State == [lists |-> lists, registered |-> registered, polls |-> <<>>, forwards |-> forwards,
          refused |-> refused]
Become(st) ==
  /\ lists' = st.lists /\ registered' = st.registered
  /\ forwards' = st.forwards /\ refused' = st.refused

\* a new SlirpEthernetConnection: its maps of forwards are empty, none is to be cleared
Fresh == [lists |-> NoLists, registered |-> <<>>, polls |-> <<>>, forwards |-> NoForwards,
          refused |-> {}]
Initialize(tcp, udp, taken) ==
  /\ ~slirp /\ slirp' = TRUE
  /\ Become(SetupPortForwards(SetupPortForwards(Fresh, "tcp", taken.tcp, tcp), "udp", taken.udp, udp))
  /\ setting' = [NoRules EXCEPT !["tcp"] = tcp, !["udp"] = udp]
  /\ UNCHANGED <<servers, dns, misread, outdated>>

\* the destructor: ip_cleanup detaches all that is in the three lists
slirp_cleanup ==
  LET Cleaned(st, type) == Detach(st, type, FdsOf(st.lists[type]))
      st == Cleaned(Cleaned(Cleaned(State, "udp"), "tcp"), "icmp")
  IN  /\ slirp /\ slirp' = FALSE
      /\ Become([st EXCEPT !.forwards = NoForwards, !.refused = {}]) /\ setting' = NoRules
      /\ UNCHANGED <<servers, dns, misread, outdated>>

-----------------------------------------------------------------------------
(* SendPacket: what the guest's packets do to the sockets.                 *)

\* a first SYN; without a descriptor the socket is closed again
GuestTcp(port) ==
  LET fd == LowestFree(State)
      s == [socreate(fd, port) EXCEPT !.state = "conn"]
  IN  /\ slirp /\ HasFd(State)
      /\ \A o \in Elements(lists.tcp) : o.lport # port \/ o.state = "listen"
      /\ Become(PollRegister(slirp_insque(State, "tcp", s), fd))
      /\ UNCHANGED <<slirp, setting, servers, dns, misread, outdated>>

\* udp_input's search by the guest's address only, and udp_attach
UdpOf(st, port) == {i \in DOMAIN st.lists.udp : st.lists.udp[i].lport = port}
udp_attach(st, port) ==
  LET fd == LowestFree(st)
  IN  PollRegister(slirp_insque(st, "udp", [socreate(fd, port) EXCEPT !.expire = SO_EXPIRE]), fd)

\* sosendto: what it was sent keeps the socket, unless the address is the name server's and
\* none is known
sosendto(st, port, sent) ==
  LET i == CHOOSE i \in UdpOf(st, port) : \A j \in UdpOf(st, port) : i <= j
      Kept(s) == [s EXCEPT !.state = "conn", !.expire = IF @ > 0 THEN SO_EXPIRE ELSE 0]
  IN  IF sent THEN [st EXCEPT !.lists.udp[i] = Kept(@)] ELSE st

GuestUdp(port, toDns, sent) ==
  LET new == UdpOf(State, port) = {}
      st == IF new THEN udp_attach(State, port) ELSE State
      answer == get_dns_addr(4, dns, servers)
      known == Answers(4, dns, servers)
  IN  /\ slirp /\ (new => HasFd(State))
      /\ Become(sosendto(st, port, sent /\ (~toDns \/ known)))
      /\ dns' = IF toDns THEN answer ELSE dns
      /\ outdated' = (outdated \/ (toDns /\ known /\ answer.from # servers
                                   /\ answer.age >= TIMEOUT_DEFAULT))
      /\ UNCHANGED <<slirp, setting, servers, misread>>

\* icmp_send: one socket for every echo request
GuestPing ==
  LET fd == LowestFree(State)
      s == [socreate(fd, 0) EXCEPT !.state = "conn", !.expire = SO_EXPIRE]
  IN  /\ slirp /\ HasFd(State)
      /\ Become(PollRegister(slirp_insque(State, "icmp", s), fd))
      /\ UNCHANGED <<slirp, setting, servers, dns, misread, outdated>>

ServersChange(list) ==
  /\ list # servers /\ servers' = list
  /\ UNCHANGED <<slirp, lists, registered, forwards, setting, dns, refused, misread, outdated>>

-----------------------------------------------------------------------------
(* GetPackets.                                                             *)

Fds(list) == [i \in DOMAIN list |-> list[i].fd]
\* the indices of the sockets that ask, counted from n
Index(list, asks, i, n) == n + Cardinality({j \in 1 .. i - 1 : list[j].fd \in asks})
\* mutant: who is not polled keeps the index of the last time
Indexed_Kept(st, type, asks) ==
  LET list == st.lists[type]
      Idx(i) == IF list[i].fd \in asks THEN Index(list, asks, i, Len(st.polls)) ELSE list[i].idx
  IN  [st EXCEPT !.polls = @ \o Only(Fds(list), asks),
                 !.lists[type] = [i \in DOMAIN list |-> [list[i] EXCEPT !.idx = Idx(i)]]]
\* a socket's index is that of its descriptor in polls; who is not polled has none
Indexed(st, type, asks) ==
  LET list == st.lists[type]
      Idx(i) == IF list[i].fd \in asks THEN Index(list, asks, i, Len(st.polls)) ELSE NoIndex
  IN  [st EXCEPT !.polls = @ \o Only(Fds(list), asks),
                 !.lists[type] = [i \in DOMAIN list |-> [list[i] EXCEPT !.idx = Idx(i)]]]

\* the socket's time has come; 1 is the last tick
Expired(st, type) == {s.fd : s \in {o \in Elements(st.lists[type]) : o.expire = 1}}
\* Listening sockets are polled, connected datagram sockets too unless many of their
\* packets are queued; TCP connections ask when they can take or give something.
Asks(st, type, quiet) == {s.fd : s \in {o \in Elements(st.lists[type]) : o.state # "new"}} \ quiet
slirp_pollfds_fill(st, quiet) ==
  LET tcp == Indexed(st, "tcp", Asks(st, "tcp", quiet))
      u == Detach(tcp, "udp", Expired(tcp, "udp"))
      udp == Indexed(u, "udp", Asks(u, "udp", quiet))
      i == Detach(udp, "icmp", Expired(udp, "icmp"))
  IN  Indexed(i, "icmp", Asks(i, "icmp", {}))

PollsAddRegistered == [State EXCEPT !.polls = registered] \* after PollsClear

HasEvents(st, s, ready) == s.idx \in 0 .. Len(st.polls) - 1 /\ st.polls[s.idx + 1] \in ready
Misreads(st) ==
  \E t \in Types : \E s \in Elements(st.lists[t]) :
    s.idx # NoIndex /\ (s.idx >= Len(st.polls) \/ st.polls[s.idx + 1] # s.fd)

\* so_expire against curtime: the time left, at least the last tick
Ages(st, ticks) ==
  LET Aged(s) == [s EXCEPT !.expire = IF @ > 1 THEN @ - ticks ELSE @]
  IN  [st EXCEPT !.lists = [t \in Types |-> [i \in DOMAIN st.lists[t] |-> Aged(st.lists[t][i])]]]

\* tcp_connect: accept, and a socket at the head of the list; a failing accept leaves nothing
Accept(st, s) ==
  LET fd == LowestFree(st)
      new == [socreate(fd, s.lport) EXCEPT !.state = "conn"]
  IN  IF HasFd(st) THEN PollRegister(slirp_insque(st, "tcp", new), fd) ELSE st

\* The loop over the TCP sockets visits the list as it was; a connection may end by what
\* it reads or writes.
PollTcp(st, ready, ended) ==
  LET list == st.lists.tcp
      Visited(s, now) == IF ~HasEvents(st, s, ready) THEN now
                         ELSE IF s.state = "listen" THEN Accept(now, s)
                         ELSE IF s.fd \in ended THEN Detach(now, "tcp", {s.fd})
                         ELSE now
      visit[i \in 0 .. Len(list)] == IF i = 0 THEN st ELSE Visited(list[i], visit[i - 1])
  IN  visit[Len(list)]

\* sorecvfrom keeps a socket for as long again
PollUdp(st, ready) ==
  LET Kept(s) == IF HasEvents(st, s, ready) /\ s.expire > 0 THEN [s EXCEPT !.expire = SO_EXPIRE] ELSE s
  IN  [st EXCEPT !.lists.udp = [i \in DOMAIN @ |-> Kept(@[i])]]

\* icmp_receive: the answer, or the error, is the end of the socket
PollIcmp(st, ready) ==
  Detach(st, "icmp", {s.fd : s \in {o \in Elements(st.lists.icmp) : HasEvents(st, o, ready)}})

\* without a descriptor to poll, or when poll fails, no socket is looked at
GetPackets(ticks, quiet, dropped, ready, failed, ended) ==
  LET filled == slirp_pollfds_fill(PollsAddRegistered, quiet)
      aged == Detach(Ages(filled, ticks), "tcp", dropped)
      st == IF failed \/ filled.polls = <<>> THEN aged
            ELSE PollIcmp(PollUdp(PollTcp(aged, ready, ended), ready), ready)
  IN  /\ slirp /\ Become(st)
      /\ misread' = (misread \/ (~failed /\ filled.polls # <<>> /\ Misreads(aged)))
      /\ dns' = IF ticks > 0 THEN Older(dns) ELSE dns
      /\ UNCHANGED <<slirp, setting, servers, outdated>>

Connections(type) == {s.fd : s \in {o \in Elements(lists[type]) : o.state = "conn"}}
\* of a quiet socket, which has no index, nobody reads events
Polls ==
  \E ticks \in 0 .. 1, quiet \in SUBSET (Connections("tcp") \cup Connections("udp")) :
   \E ready \in SUBSET (Open(State) \ quiet), failed \in BOOLEAN :
    /\ failed => ready = {}
    /\ \E dropped \in SUBSET (IF ticks = 1 THEN Connections("tcp") ELSE {}) :
         \E ended \in SUBSET ((ready \cap Connections("tcp")) \ (dropped \cup quiet)) :
           GetPackets(ticks, quiet, dropped, ready, failed, ended)

Next ==
  \/ \E rules \in Settings, held \in SUBSET HeldPorts :
       Initialize(rules[1], rules[2], [NoForwards EXCEPT !["tcp"] = held])
  \/ slirp_cleanup
  \/ \E port \in GuestPorts : GuestTcp(port)
  \/ \E port \in GuestPorts, toDns, sent \in BOOLEAN : GuestUdp(port, toDns, sent)
  \/ GuestPing
  \/ \E list \in ServerLists : ServersChange(list)
  \/ Polls

Spec == Init /\ [][Next]_vars

-----------------------------------------------------------------------------
(* Properties.                                                             *)

Sockets == UNION {Elements(lists[t]) : t \in Types}

\* The lists hold sockets of their kinds, and only a connection with slirp has any.
TypeOK ==
  /\ slirp \in BOOLEAN
  /\ \A s \in Sockets :
       /\ s.fd \in 0 .. MaxFd - 1 /\ s.lport \in 0 .. MaxPort /\ s.hport \in 0 .. MaxPort
       /\ s.state \in {"listen", "new", "conn"} /\ s.expire \in 0 .. SO_EXPIRE
  /\ Elements(registered) \subseteq 0 .. MaxFd - 1
  /\ dns.age \in 0 .. TIMEOUT_DEFAULT

\* The descriptors that PollsAddRegistered polls are exactly those of the open sockets which
\* are no forwards, each once: a closed one would make every poll return at once, or be
\* another socket's by then.  None is open without slirp, and none belongs to two sockets.
FdsAccounted ==
  LET own == {s \in Sockets : s.hport = 0}
  IN  /\ Elements(registered) = {s.fd : s \in own} /\ Len(registered) = Cardinality(own)
      /\ \A t, u \in Types : \A i \in DOMAIN lists[t], j \in DOMAIN lists[u] :
           lists[t][i].fd = lists[u][j].fd => t = u /\ i = j
      /\ ~slirp => Sockets = {}

\* Descriptors, sockets and ports are well formed and accounted for (register_fd, slirp_cleanup).
DescriptorsTrue == TypeOK /\ FdsAccounted

\* No socket is handled for the events of another one's descriptor, whatever was closed and
\* opened between the filling of polls and the reading of an index.
EventsOwn == ~misread

\* The host ports that rules ask for
Ruled(type) ==
  LET Steps(p) == {k \in 0 .. MaxPort : k <= p[2] - p[1] \/ k <= p[4] - p[3]}
      Pairs(p) == IF p # <<>> /\ p[1] <= p[2] /\ p[3] <= p[4]
                  THEN {<<p[1] + k, p[3] + k>> : k \in Steps(p)} ELSE {}
  IN  UNION {Pairs(PortsOf(rule)) : rule \in Elements(setting[type])}

\* As long as the session lasts, each port that is recorded as forwarded has its socket, and
\* no other has; only what a rule says is forwarded, and a port in a range is forwarded or was
\* refused, unless its rule has left the range of ports.
ForwardsStand ==
  \A t \in {"tcp", "udp"} :
    /\ forwards[t] = {<<s.hport, s.lport>> : s \in {o \in Elements(lists[t]) : o.hport > 0}}
    /\ forwards[t] \subseteq Ruled(t) \cap ((1 .. MaxPort) \X (1 .. MaxPort))
    /\ \A i \in DOMAIN setting[t] :
         LET p == PortsOf(setting[t][i])
         IN  Valid(p) => \A h \in p[1] .. p[2] :
               <<t, h>> \in refused \/ \E f \in forwards[t] : f[1] = h

\* No query goes to a server which has not been the host's for the time of the cache.
DnsFollows == ~outdated
=============================================================================
