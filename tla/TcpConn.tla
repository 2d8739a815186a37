------------------------------ MODULE TcpConn ------------------------------
(***************************************************************************)
(* One TCP connection through libslirp: the guest's TCP, slirp's TCP with  *)
(* its socket, and the host at the socket's other end.  It is opened by    *)
(* the guest or, through a forwarded port, by the host.                    *)
(*                                                                         *)
(* The guest and the host each have a stream of numbered bytes to send.    *)
(* The guest is any TCP: it may send any part of its stream at any time,   *)
(* so that its segments overlap, repeat, overtake each other and are lost, *)
(* each with its present acknowledgement, as the wire itself keeps their   *)
(* order; it may reset, and it may vanish, as a rebooted guest does.  What *)
(* slirp sends may be lost.                                                *)
(***************************************************************************)
EXTENDS TcpInput

CONSTANTS Streams,             \* pairs: how many bytes the guest and the host have to send
          GuestIss,            \* the guest's initial sequence numbers, one per life
          Wins,                \* windows the guest offers
          OpenMss, ListenMss,  \* MSS options of its SYN and of its SYN,ACK (0: none)
          MaxQueue             \* segments that wait out of order; the code has no limit

\* The numbers of the guest's next connection follow all that its last one has used.
ASSUME StreamAssumption ==
  /\ Streams \subseteq Nat \X Nat /\ Wins \subseteq Nat
  /\ \A n \in Streams : n[1] + n[2] + SPACE + MSS + 2 < SeqSpace \div 2
  /\ GuestIss \in Seq(0 .. SeqSpace - 1) /\ GuestIss # <<>>
  /\ \A n \in Streams : \A i \in 1 .. Len(GuestIss) - 1 :
       SEQ_GT(GuestIss[i + 1], Plus(GuestIss[i], n[1] + 1))
  /\ {OpenMss, ListenMss, MaxQueue} \subseteq Nat

VARIABLES c,      \* slirp's connection
          g,      \* the guest's
          faults  \* history: what was wrong with the segments slirp sent

vars == <<c, g, faults>>

NewGuest(i, streams) ==
  [life |-> i, streams |-> streams, mode |-> "opens", synced |-> FALSE, estab |-> FALSE, ack |-> 0, fin |-> FALSE,
   dead |-> FALSE, edge |-> 0]
Init ==
  /\ c = [tcp_attach EXCEPT !.open = FALSE]
  /\ \E mode \in {"opens", "listens"}, streams \in Streams :
       g = [NewGuest(1, streams) EXCEPT !.mode = mode]
  /\ faults = {}

\* nothing of it matters any more but whether it had sent all
Gone(guest) == [guest EXCEPT !.dead = TRUE, !.estab = FALSE, !.ack = 0, !.edge = 0]

GuestLen == g.streams[1]
HostLen == g.streams[2]
iss == GuestIss[g.life]
GuestBytes == [i \in 1 .. GuestLen |-> i]

-----------------------------------------------------------------------------
(* What the guest makes of slirp's segments, those that are not lost.      *)

\* the faults of a segment: bytes of other places of the host's stream, a FIN before the
\* stream's end, data beyond the window the guest offered (but for a probe's one byte, and
\* but for what follows once snd_wnd has gone below zero)
FaultsOf(s, before, after, guest) ==
  LET at == Diff(s.seq, ISS)
      end == Plus(s.seq, Len(s.data))
      probe == after.force \/ "PERSIST" \in before.armed
      limit == IF probe THEN Plus(guest.edge, 1) ELSE guest.edge
  IN  {f \in {"data", "fin", "window"} :
        CASE f = "data" -> \E i \in DOMAIN s.data : s.data[i] # at + i - 1
          [] f = "fin" -> Has(s, "FIN") /\ ~(after.h.ended /\ at + Len(s.data) = after.h.k + 1)
          [] f = "window" -> /\ s.data # <<>> /\ SEQ_GT(end, limit)
                              /\ ~guest.dead /\ before.wnd <= TCP_MAXWIN}

Hears(h, s) ==
  LET last == Plus(s.seq, Len(s.data) + (IF Has(s, "FIN") THEN 1 ELSE 0))
  IN  IF h.dead THEN h
      ELSE IF s.flags \cap {"RST", "ICMP"} # {} THEN Gone(h)
      ELSE IF Has(s, "SYN")
      THEN IF h.synced \/ (h.mode = "opens" /\ s.ack # Plus(iss, 1)) THEN h
           ELSE [h EXCEPT !.synced = TRUE, !.estab = h.mode = "opens", !.ack = Plus(s.seq, 1),
                          !.edge = Plus(@, s.seq + 1)]
      ELSE IF ~h.synced THEN h
      ELSE [h EXCEPT !.estab = @ \/ SEQ_GT(s.ack, iss),
                     !.ack = IF SEQ_LEQ(s.seq, @) /\ SEQ_GT(last, @) THEN last ELSE @]

\* all of them that arrive, one after the other
HearsAll(guest, out, got) ==
  LET heard[i \in 0 .. Len(out)] ==
        IF i = 0 THEN guest
        ELSE IF i \in got THEN Hears(heard[i - 1], out[i]) ELSE heard[i - 1]
  IN  heard[Len(out)]

\* slirp goes to d, and what it sent arrives in part
Step(d, guest) ==
  ~c.astray /\ \E got \in SUBSET DOMAIN d.out :
    /\ g' = HearsAll(guest, d.out, got)
    /\ c' = [d EXCEPT !.out = <<>>, !.h.room = 0, !.idle = FALSE]
    /\ faults' = faults \cup UNION {FaultsOf(d.out[i], c, d, guest) : i \in DOMAIN d.out}

\* the guest sends s; the host takes up to room bytes of it at once
GuestSends(s, guest) ==
  /\ Len(c.seg) < MaxQueue \/ s.seq = c.rnxt
  /\ \E room \in 0 .. GuestLen, answer \in tcp_fconnect :
       /\ answer # "in progress" => ~c.open \/ c.t_state = TCPS_TIME_WAIT
       /\ room > 0 => c.open /\ ~c.h.dead /\ room <= Len(s.data)
       /\ Step(tcp_input([c EXCEPT !.h.room = room], s, answer), guest)

GuestTcp(seq, ack, flags, data, win, mss) ==
  [seq |-> seq, ack |-> ack, flags |-> flags, data |-> data, win |-> win, mss |-> mss]
\* the guest never takes back a window: its right edge stays, or opens to win from ack
Offer(ack, win) == IF SEQ_GT(Plus(ack, win), g.edge) THEN Plus(ack, win) ELSE g.edge

\* its windows, one of them when the host has nothing to send
Windows == IF HostLen = 0 THEN {CHOOSE win \in Wins : \A w \in Wins : w <= win} ELSE Wins
Edges == {Offer(g.ack, win) : win \in Windows}

\* Each kind of segment, with what the guest is once it has sent it.
GuestSyn ==
  {<<GuestTcp(iss, 0, {"SYN"}, <<>>, win, OpenMss), [g EXCEPT !.edge = Most(@, win)]>> :
     win \in IF g.mode = "opens" /\ ~g.synced THEN Windows ELSE {}}
\* also again, as long as the acknowledgement is missing
GuestSynAck ==
  {<<GuestTcp(iss, g.ack, {"SYN", "ACK"}, <<>>, UDiff(edge, g.ack), ListenMss),
     [g EXCEPT !.edge = edge]>> :
     edge \in IF g.mode = "listens" /\ g.synced /\ ~g.estab THEN Edges ELSE {}}
\* the bytes after place q[1] up to q[2] of its stream, and whether the FIN follows
Spans == {q \in (0 .. GuestLen) \X (0 .. GuestLen) \X BOOLEAN :
            q[1] <= q[2] /\ (q[3] => q[2] = GuestLen)}
GuestText(q, edge) ==
  <<GuestTcp(Plus(iss, q[1] + 1), g.ack, IF q[3] THEN {"ACK", "FIN"} ELSE {"ACK"},
             SubSeq(GuestBytes, q[1] + 1, q[2]), UDiff(edge, g.ack), 0),
    [g EXCEPT !.fin = @ \/ q[3], !.edge = edge]>>
GuestSegment ==
  {GuestText(q, edge) : q \in IF g.estab THEN Spans ELSE {}, edge \in Edges}
GuestReset ==
  {<<GuestTcp(Plus(iss, at + 1), 0, {"RST"}, <<>>, 0, 0), Gone(g)>> :
     at \in IF g.estab THEN 0 .. GuestLen ELSE {}}
\* nobody is there any more to send, or to answer
GuestVanishes ==
  /\ ~g.dead /\ g' = Gone(g)
  /\ UNCHANGED <<c, faults>>
\* the guest's next connection from the same port, once it has closed the last one
GuestReopens ==
  /\ g.life < Len(GuestIss) /\ g.mode = "opens" /\ g.fin /\ ~g.dead
  /\ (~c.open \/ c.t_state = TCPS_TIME_WAIT)
  /\ g' = NewGuest(g.life + 1, g.streams)
  /\ UNCHANGED <<c, faults>>

GuestActs ==
  \/ /\ ~g.dead
     /\ \E p \in GuestSyn \cup GuestSynAck \cup GuestSegment \cup GuestReset :
          GuestSends(p[1], p[2])
  \/ GuestVanishes
  \/ GuestReopens

-----------------------------------------------------------------------------
(* The host's events: slirp_pollfds_fill says what the socket is polled    *)
(* for, slirp_pollfds_poll acts on what it got.                            *)

CONN_CANFSEND(d) == d.so_state \cap {"FCANTSENDMORE", "ISFCONNECTED"} = {"ISFCONNECTED"}
CONN_CANFRCV(d) == d.so_state \cap {"FCANTRCVMORE", "ISFCONNECTED"} = {"ISFCONNECTED"}
slirp_pollfds_fill(d) ==
  IF ~d.open \/ "NOFDREF" \in d.so_state THEN {}
  ELSE IF "ISFCONNECTING" \in d.so_state THEN {"OUT"}
  ELSE (IF CONN_CANFSEND(d) /\ d.rcv.cc # 0 THEN {"OUT"} ELSE {})
       \cup (IF CONN_CANFRCV(d) /\ d.snd.cc < d.snd.datalen \div 2 THEN {"IN"} ELSE {})

\* n bytes, or the host's end, or a connection reset
soread(d, n) ==
  [d EXCEPT !.snd = sbappendsb(@, [i \in 1 .. n |-> d.h.k + i]), !.h.k = @ + n]
soread_End(d) == tcp_sockclosed(sofcantrcvmore([d EXCEPT !.h.ended = TRUE]))
soread_Reset(d) == tcp_drop(sofcantrcvmore([d EXCEPT !.h.ended = TRUE, !.h.dead = TRUE]))

\* no segment may have come for a while, where that tells anything: t_idle is longer than
\* t_rxtcur, or than TCP_MAXIDLE
Idled ==
  {c} \cup (IF (c.max = c.una /\ c.cwnd > c.maxseg) \/ "2MSL" \in c.armed
            THEN {[c EXCEPT !.idle = TRUE]} ELSE {})

Readable ==
  /\ "IN" \in slirp_pollfds_fill(c)
  /\ \E d \in Idled :
       \/ \E n \in 1 .. Least(sopreprbuf(c.snd, c.maxseg), HostLen - c.h.k) :
            ~c.h.ended /\ Step(tcp_output(soread(d, n)), g)
       \/ Step(soread_End(d), g)
       \/ Step(soread_Reset(d), g)

\* n bytes written, or the connection found lost
sowrite(d, n) ==
  LET e == [d EXCEPT !.h.got = @ \o sbcopy(d.rcv, 0, n), !.rcv = sbdrop(@, n)]
  IN  tcp_output(IF "FWDRAIN" \in e.so_state /\ e.rcv.cc = 0 THEN sofcantsendmore(e) ELSE e)
sowrite_Lost(d) ==
  tcp_sockclosed([sofcantsendmore([d EXCEPT !.h.dead = TRUE, !.h.ended = TRUE])
                    EXCEPT !.h.cut = TRUE])

Writable ==
  /\ "OUT" \in slirp_pollfds_fill(c) /\ "ISFCONNECTING" \notin c.so_state
  /\ \E d \in Idled :
       \/ \E n \in 1 .. c.rcv.cc : ~c.h.dead /\ Step(sowrite(d, n), g)
       \/ Step(sowrite_Lost(d), g)

\* the answer to connect(); a host that has none yet is not polled any more
Connected ==
  /\ "OUT" \in slirp_pollfds_fill(c) /\ "ISFCONNECTING" \in c.so_state
  /\ LET d == [c EXCEPT !.so_state = @ \ {"ISFCONNECTING"}]
     IN  \/ Step(cont_conn(d), g)
         \/ Step(cont_conn([d EXCEPT !.so_state = {"NOFDREF"}, !.h.dead = TRUE]), g)
         \/ Step(d, g)

\* the host connects to a forwarded port
tcp_connect ==
  LET so == [tcp_mss(tcp_attach, 0) EXCEPT !.so_state = @ \cup {"INCOMING"},
               !.t_state = TCPS_SYN_SENT, !.armed = {"KEEP"}, !.iss = ISS]
  IN  /\ g.mode = "listens" /\ ~g.synced /\ ~g.dead /\ ~c.open /\ c.h = NewHost
      /\ Step(tcp_output(tcp_sendseqinit(so)), g)

Timeout(timer) ==
  /\ c.open /\ timer \in c.armed
  /\ \E d \in Idled : Step(tcp_timers(Disarm(d, timer), timer), g)
FastTimeout ==
  c.open /\ "DELACK" \in c.flags /\ \E d \in Idled : Step(tcp_fasttimo(d), g)

Timers == {"REXMT", "PERSIST", "KEEP", "2MSL"}
Next ==
  \/ GuestActs
  \/ Readable \/ Writable \/ Connected \/ tcp_connect
  \/ \E timer \in Timers : Timeout(timer)
  \/ FastTimeout
Spec == Init /\ [][Next]_vars
-----------------------------------------------------------------------------
TypeOK ==
  /\ c.t_state \in TCPS_CLOSED .. TCPS_TIME_WAIT /\ c.armed \subseteq Timers
  /\ {c.una, c.nxt, c.max, c.wnd, c.rnxt, c.adv, c.wl1, c.wl2} \subseteq 0 .. SeqSpace - 1
  /\ c.cwnd \in Nat /\ c.maxseg \in MINSEG .. MSS /\ c.rxtshift \in 0 .. TCP_MAXRXTSHIFT
  /\ c.snd.cc \in 0 .. c.snd.datalen /\ c.rcv.cc \in 0 .. c.rcv.datalen

\* The host gets the guest's stream: what it has got and what waits for it are the bytes
\* acknowledged to the guest, each once and in order, whatever overlaps, repeats or
\* overtakes; and it is told the stream's end only after all of it.
HostGetsStream ==
  /\ IsPrefix(c.h.got, GuestBytes)
  /\ c.h.eof /\ ~c.h.cut => c.h.got = GuestBytes /\ (g.fin \/ ~g.synced)
  /\ c.open /\ TCPS_HAVEESTABLISHED(c.t_state) /\ ~c.h.dead =>
       LET acked == Diff(c.rnxt, c.irs) - 1
       IN  c.h.got \o Content(c.rcv) = SubSeq(GuestBytes, 1, Least(acked, GuestLen))

\* The guest gets the host's stream: every segment carries the bytes of its place, also
\* when it is sent again, and a FIN stands right behind the last one.
GuestGetsStream == faults \cap {"data", "fin"} = {}

\* Nothing is sent beyond the window that the guest has offered, but one byte to probe it.
WindowHonoured == "window" \notin faults

\* What has been sent and not acknowledged is still in the send buffer.
SentIsKept ==
  c.open /\ TCPS_HAVEESTABLISHED(c.t_state) =>
    Diff(c.max, c.una) <= c.snd.cc + (IF "SENTFIN" \in c.flags THEN 1 ELSE 0)

\* What has been sent from snd_una on has a timer that will send it again: the one for
\* retransmission or the one for probes, never both.
TimersCover ==
  /\ ~({"REXMT", "PERSIST"} \subseteq c.armed)
  /\ c.open /\ c.so_m = NoSegment /\ c.nxt # c.una => c.armed \cap {"REXMT", "PERSIST"} # {}

\* What is sent stays until it is acknowledged, in counters that keep their ranges
\* (tcp_output, sbdrop).
SenderTrue == TypeOK /\ SentIsKept
=============================================================================
