------------------------------ MODULE TcpInput ------------------------------
(***************************************************************************)
(* libslirp's TCP from the guest: tcp_input.c and sbuf.c's sbappend.       *)
(*                                                                         *)
(* A segment s is [seq, ack, flags, data, win, mss]: its numbers, the set  *)
(* of its flags, its bytes, the window and the MSS option (0: none).  The  *)
(* stages of tcp_input follow each other as operators on the connection c  *)
(* and what is left of s; urgent data and the emulations are left out.     *)
(***************************************************************************)
EXTENDS TcpOutput

CONSTANT Escapes   \* the bytes that are ESC, 27

Has(s, flag) == flag \in s.flags
Without(s, flags) == [s EXCEPT !.flags = @ \ flags]
\* m_adj of the front and of the back, with the numbers that go along
TrimFront(s, n) == [s EXCEPT !.seq = Plus(@, n), !.data = SubSeq(@, n + 1, Len(@))]
TrimBack(s, n) == [s EXCEPT !.data = SubSeq(@, 1, Len(@) - n)]

\* mutant: older bytes may wait
sbappend_Eager(c, bytes) ==
  LET n == IF c.h.dead THEN 0 ELSE Least(c.h.room, Len(bytes))
  IN  [c EXCEPT !.h.got = @ \o SubSeq(bytes, 1, n), !.h.room = @ - n,
                !.rcv = sbappendsb(@, SubSeq(bytes, n + 1, Len(bytes)))]
\* write to the host what it takes, unless older bytes wait; keep the rest
sbappend(c, bytes) ==
  LET n == IF c.rcv.cc # 0 \/ c.h.dead THEN 0 ELSE Least(c.h.room, Len(bytes))
  IN  [c EXCEPT !.h.got = @ \o SubSeq(bytes, 1, n), !.h.room = @ - n,
                !.rcv = sbappendsb(@, SubSeq(bytes, n + 1, Len(bytes)))]
-----------------------------------------------------------------------------
(* The reassembly queue.                                                   *)

\* The loop's end test compares with the control block itself instead of the queue's end,
\* which stands for a segment whose number is in t_template's address: zero, as the segment
\* is read.  At that number the control block is presented as a segment, and the app ends.
Astray(c, p) ==
  <<[p[1] EXCEPT !.astray = c.seg # <<>> /\ p[1].seg = <<>> /\ p[1].rnxt = 0], p[2]>>

\* present what has become the left window edge: the connection, and whether a FIN is
\* its end
Present(c) ==
  LET Take(p) ==
        LET q == Head(p[1].seg)
            d == [p[1] EXCEPT !.rnxt = Plus(@, Len(q.data)), !.seg = Tail(@)]
        IN  <<IF "FCANTSENDMORE" \in c.so_state THEN d ELSE sbappend(d, q.data), q.fin>>
      taken[i \in 0 .. Len(c.seg)] ==
        IF i = 0 THEN <<c, FALSE>>
        ELSE LET p == taken[i - 1]
             IN  IF p[1].seg # <<>> /\ Head(p[1].seg).seq = p[1].rnxt THEN Take(p) ELSE p
  IN  IF TCPS_HAVEESTABLISHED(c.t_state) THEN Astray(c, taken[Len(c.seg)]) ELSE <<c, FALSE>>

\* s goes behind the first ones: what it holds is cut off the ones after it
Insert(c, s, before) ==
  LET q == c.seg
      Over(i) == Diff(Plus(s.seq, Len(s.data)), q[i].seq)
      Covered(i) == Over(i) > 0 /\ Over(i) >= Len(q[i].data)
      Cut(i) == IF Over(i) > 0 THEN <<TrimFront(q[i], Over(i))>> ELSE <<q[i]>>
      after == SelectInSeq([i \in 1 .. Len(q) - before |-> before + i], LAMBDA i : ~Covered(i))
      Rest(i) == Cut(i) \o SubSeq(q, i + 1, Len(q))
  IN  [c EXCEPT !.seg = SubSeq(q, 1, before)
                          \o <<[seq |-> s.seq, data |-> s.data, fin |-> Has(s, "FIN")]>>
                          \o (IF after = 0 THEN <<>> ELSE Rest(before + after))]

\* s goes between the segments that do not start after it and the others; what the one
\* before holds already is cut off s, or s is dropped
tcp_reass(c, s) ==
  LET before == Cardinality({i \in DOMAIN c.seg : SEQ_LEQ(c.seg[i].seq, s.seq)})
      last == c.seg[before]
      held == IF before = 0 THEN 0 ELSE Diff(Plus(last.seq, Len(last.data)), s.seq)
  IN  Present(IF held > 0 /\ held >= Len(s.data) THEN c
              ELSE Insert(c, IF held > 0 THEN TrimFront(s, held) ELSE s, before))

-----------------------------------------------------------------------------
(* Ways out.                                                               *)

dropwithreset(c, s) ==
  IF Has(s, "ACK") THEN tcp_respond(c, 0, s.ack, {"RST"})
  ELSE tcp_respond(c, Plus(s.seq, Len(s.data) + (IF Has(s, "SYN") THEN 1 ELSE 0)), 0,
                   {"RST", "ACK"})
AckNow(c) == [c EXCEPT !.flags = @ \cup {"ACKNOW"}]
dropafterack(c, s) == IF Has(s, "RST") THEN c ELSE tcp_output(AckNow(c))

\* a round trip was measured
tcp_xmit_timer(c, s) ==
  IF c.rtseq # Untimed /\ SEQ_GT(s.ack, c.rtseq)
  THEN [c EXCEPT !.rtseq = Untimed, !.rxtshift = 0] ELSE c

\* mutant: the timer ends with every acknowledgement
Reckon_Always(c, s) == Disarm(c, "REXMT")
\* segments outstanding keep the retransmission timer running
Reckon(c, s) ==
  IF s.ack = c.max THEN Disarm(c, "REXMT")
  ELSE IF "PERSIST" \notin c.armed THEN Arm(c, "REXMT") ELSE c

-----------------------------------------------------------------------------
(* From step6 on: the window, the text, the FIN, the answer.               *)

\* needoutput is set where the answer is due in any case
GuestFin(c0) ==
  LET c1 == IF TCPS_HAVERCVDFIN(c0.t_state) THEN c0
            ELSE [AckNow(sofwdrain(c0)) EXCEPT !.rnxt = Plus(@, 1)]
  IN  CASE c1.t_state \in {TCPS_SYN_RECEIVED, TCPS_ESTABLISHED} ->
             [c1 EXCEPT !.t_state = TCPS_CLOSE_WAIT]
        [] c1.t_state = TCPS_FIN_WAIT_1 -> [c1 EXCEPT !.t_state = TCPS_CLOSING]
        [] c1.t_state = TCPS_FIN_WAIT_2 ->
             Arm(tcp_canceltimers([c1 EXCEPT !.t_state = TCPS_TIME_WAIT]), "2MSL")
        [] c1.t_state = TCPS_TIME_WAIT -> Arm(c1, "2MSL")
        [] OTHER -> c1

Text(c, s) ==
  IF (s.data = <<>> /\ ~Has(s, "FIN")) \/ TCPS_HAVERCVDFIN(c.t_state) THEN <<c, FALSE>>
  ELSE IF s.seq = c.rnxt /\ c.seg = <<>> /\ c.t_state = TCPS_ESTABLISHED
  THEN <<sbappend([c EXCEPT !.flags = @ \cup {"DELACK"}, !.rnxt = Plus(@, Len(s.data))], s.data),
         Has(s, "FIN")>>
  ELSE LET Answered(r) == <<AckNow(r[1]), r[2]>> IN Answered(tcp_reass(c, s))

Newer(c, s) ==
  /\ Has(s, "ACK")
  /\ \/ SEQ_LT(c.wl1, s.seq)
     \/ /\ c.wl1 = s.seq
        /\ SEQ_LT(c.wl2, s.ack) \/ (c.wl2 = s.ack /\ s.win > c.wnd)

Answer(c, needoutput) == IF needoutput \/ "ACKNOW" \in c.flags THEN tcp_output(c) ELSE c
\* text is the connection and whether the stream has ended
Dodata(text, needoutput) ==
  Answer(IF text[2] THEN GuestFin(text[1]) ELSE text[1], needoutput)

step6(c, s, needoutput) ==
  LET d == IF Newer(c, s) THEN [c EXCEPT !.wnd = s.win, !.wl1 = s.seq, !.wl2 = s.ack,
                                         !.maxwnd = Most(@, s.win)] ELSE c
      escape == Len(s.data) \in 1 .. 5 /\ s.data[1] \in Escapes
  IN  Dodata(Text(IF escape THEN AckNow(d) ELSE d, s), needoutput \/ Newer(c, s))

\* after the SYN: the first data byte is next, and data beyond the window goes
trimthenstep6(c, s0) ==
  LET rwnd == Most(sbspace(c.rcv), Diff(c.adv, c.rnxt))
      s1 == [s0 EXCEPT !.seq = Plus(@, 1)]
      s == IF Len(s1.data) > rwnd THEN Without(TrimBack(s1, Len(s1.data) - rwnd), {"FIN"})
           ELSE s1
  IN  step6([c EXCEPT !.wl1 = s0.seq], s, FALSE)

-----------------------------------------------------------------------------
(* Acknowledgements.                                                       *)

\* the congestion window opens: by a segment, or by its share of a window
Open(c) ==
  LET incr == IF c.cwnd > c.ssthresh THEN (c.maxseg * c.maxseg) \div c.cwnd ELSE c.maxseg
  IN  [c EXCEPT !.cwnd = Least(@ + incr, TCP_MAXWIN)]

\* the acknowledgement moves snd_una, and may end the connection's last states
Settle(c, s, ourfinisacked, needoutput) ==
  CASE c.t_state = TCPS_LAST_ACK /\ ourfinisacked -> tcp_close(c)
    [] c.t_state = TCPS_TIME_WAIT -> dropafterack(Arm(c, "2MSL"), s)
    [] OTHER ->
         step6(CASE c.t_state = TCPS_FIN_WAIT_1 /\ ourfinisacked ->
                      [c EXCEPT !.t_state = TCPS_FIN_WAIT_2,
                                !.armed = @ \cup (IF "FCANTRCVMORE" \in c.so_state THEN {"2MSL"}
                                                  ELSE {})]
                 [] c.t_state = TCPS_CLOSING /\ ourfinisacked ->
                      Arm(tcp_canceltimers([c EXCEPT !.t_state = TCPS_TIME_WAIT]), "2MSL")
                 [] OTHER -> c,
               s, needoutput)

Acknowledge(c, s, needoutput) ==
  LET acked == Diff(s.ack, c.una)
      n == Least(acked, c.snd.cc)
  IN  Settle([Open(Reckon(tcp_xmit_timer(c, s), s)) EXCEPT
                !.snd = sbdrop(@, n), !.wnd = UDiff(@, n), !.una = s.ack,
                !.nxt = IF SEQ_LT(@, s.ack) THEN s.ack ELSE @],
             s, acked > c.snd.cc, needoutput \/ s.ack = c.max)

synrx_to_est(c, s, needoutput) ==
  LET d == [c EXCEPT !.dupacks = 0,
                     !.cwnd = IF c.dupacks > TCPREXMTTHRESH /\ @ > c.ssthresh
                              THEN c.ssthresh ELSE @]
  IN  IF SEQ_GT(s.ack, c.max) THEN dropafterack(d, s) ELSE Acknowledge(d, s, needoutput)

\* the same acknowledgement again: the third one resends the segment it asks for
DuplicateAck(c, s) ==
  LET n == c.dupacks + 1
      win == Most(2, Least(c.wnd, c.cwnd) \div (2 * c.maxseg))
      Inflate(d) == [d EXCEPT !.cwnd = d.ssthresh + d.maxseg * n,
                              !.nxt = IF SEQ_GT(c.nxt, @) THEN c.nxt ELSE @]
      other == "REXMT" \notin c.armed \/ s.ack # c.una
  IN  IF other \/ n < TCPREXMTTHRESH
      THEN step6([c EXCEPT !.dupacks = IF other THEN 0 ELSE n], s, FALSE)
      ELSE IF n = TCPREXMTTHRESH
      THEN Inflate(tcp_output([Disarm(c, "REXMT") EXCEPT
             !.dupacks = n, !.ssthresh = win * c.maxseg, !.rtseq = Untimed, !.nxt = s.ack,
             !.cwnd = c.maxseg]))
      ELSE tcp_output([c EXCEPT !.dupacks = Least(n, TCPREXMTTHRESH + 1),
                                !.cwnd = Least(@ + c.maxseg, 2 * TCP_MAXWIN)])

AckProcessing(c, s) ==
  IF c.t_state = TCPS_SYN_RECEIVED
  THEN IF SEQ_GT(c.una, s.ack) \/ SEQ_GT(s.ack, c.max) THEN dropwithreset(c, s)
       ELSE LET d == soisfconnected([c EXCEPT !.t_state = TCPS_ESTABLISHED, !.una = s.ack])
            IN  synrx_to_est([Present(d)[1] EXCEPT !.wl1 = Plus(s.seq, -1)], s, FALSE)
  ELSE IF SEQ_GT(s.ack, c.una) THEN synrx_to_est(c, s, FALSE)
  ELSE IF s.data = <<>> /\ s.win = c.wnd THEN DuplicateAck(c, s)
  ELSE step6([c EXCEPT !.dupacks = 0], s, FALSE)

-----------------------------------------------------------------------------
(* The embryonic states.                                                   *)

SYN_SENT(c, s) ==
  LET acks == Has(s, "ACK")
      c1 == IF acks THEN [c EXCEPT !.una = s.ack, !.nxt = IF SEQ_LT(@, s.ack) THEN s.ack ELSE @]
            ELSE c
      c2 == AckNow(tcp_rcvseqinit([Disarm(c1, "REXMT") EXCEPT !.irs = s.seq]))
      up == Present(soisfconnected([c2 EXCEPT !.t_state = TCPS_ESTABLISHED]))[1]
      timed == IF up.rtseq # Untimed THEN [up EXCEPT !.rtseq = Untimed, !.rxtshift = 0] ELSE up
  IN  IF acks /\ (SEQ_LEQ(s.ack, c.iss) \/ SEQ_GT(s.ack, c.max)) THEN dropwithreset(c, s)
      ELSE IF Has(s, "RST") THEN IF acks THEN tcp_drop(c) ELSE c
      ELSE IF ~Has(s, "SYN") THEN c
      ELSE trimthenstep6(IF acks /\ SEQ_GT(c1.una, c.iss) THEN timed
                         ELSE [c2 EXCEPT !.t_state = TCPS_SYN_RECEIVED], s)

\* The host's answer to connect() is known: the SYN that waited is taken up.  Its options
\* are not at hand any more.
cont_conn(c) ==
  LET s == c.so_m
      d == [c EXCEPT !.so_m = NoSegment, !.iss = ISS, !.irs = s.seq]
      e == Arm([tcp_rcvseqinit(tcp_sendseqinit(d)) EXCEPT !.t_state = TCPS_SYN_RECEIVED], "KEEP")
  IN  IF "NOFDREF" \in c.so_state THEN dropwithreset(tcp_close(c), s)
      ELSE trimthenstep6(AckNow(e), s)

\* findso: the socket a first SYN makes
NewSocket(c) ==
  LET size == [NoSbuf EXCEPT !.datalen = SPACE, !.data = [i \in 0 .. SPACE - 1 |-> 0]]
  IN  [tcp_attach EXCEPT !.snd = size, !.rcv = size, !.out = c.out, !.h.room = c.h.room]

\* what connect() of a non-blocking socket may say
tcp_fconnect == {"refused", "unreachable", "in progress"}

\* The host is asked for a connection; answer is what connect() says.
Listen(so, s, answer) ==
  CASE answer = "refused" -> tcp_close(tcp_respond(so, Plus(s.seq, 1), 0, {"RST", "ACK"}))
    [] answer = "unreachable" ->
         tcp_close([so EXCEPT !.out = Append(@, [seq |-> 0, ack |-> 0, flags |-> {"ICMP"},
                                                 data |-> <<>>, win |-> 0])])
    [] answer = "in progress" ->
         tcp_rcvseqinit([soisfconnecting(so) EXCEPT
           !.so_m = s, !.armed = {"KEEP"}, !.t_state = TCPS_SYN_RECEIVED, !.irs = s.seq])

-----------------------------------------------------------------------------
(* Trimming to the window, resets.                                         *)

\* what has been received already, a repeated SYN first
LeftEdge(c, s0) ==
  LET old == Diff(c.rnxt, s0.seq)
      s == IF Has(s0, "SYN") THEN Without([s0 EXCEPT !.seq = Plus(@, 1)], {"SYN"}) ELSE s0
      n == IF Has(s0, "SYN") THEN old - 1 ELSE old
      all == n > Len(s.data) \/ (n = Len(s.data) /\ ~Has(s, "FIN"))
  IN  IF old <= 0 THEN <<c, s0>>
      ELSE IF all THEN <<AckNow(c), Without(TrimFront(s, Len(s.data)), {"FIN"})>>
      ELSE <<c, TrimFront(s, n)>>
Resets(c, s) ==
  IF Has(s, "RST") THEN tcp_close(c)
  ELSE IF Has(s, "SYN") THEN dropwithreset(tcp_drop(c), s)
  ELSE IF ~Has(s, "ACK") THEN c
  ELSE AckProcessing(c, s)

\* what is beyond the window; new data for a host that is gone resets the connection, and
\* a SYN may take TIME_WAIT's place
RightEdge(c, s, rwnd, answer) ==
  LET over == Diff(Plus(s.seq, Len(s.data)), Plus(c.rnxt, rwnd))
      outside == over > 0 /\ over >= Len(s.data)
      in == Without(TrimBack(s, over), {"PUSH", "FIN"})
  IN  IF "NOFDREF" \in c.so_state /\ c.t_state > TCPS_CLOSE_WAIT /\ s.data # <<>>
      THEN dropwithreset(tcp_close(c), s)
      ELSE IF outside /\ Has(s, "SYN") /\ c.t_state = TCPS_TIME_WAIT /\ SEQ_GT(s.seq, c.rnxt)
      THEN Listen(NewSocket(tcp_close(c)), s, answer)
      ELSE IF outside /\ ~(rwnd = 0 /\ s.seq = c.rnxt) THEN dropafterack(c, s)
      ELSE Resets(IF outside THEN AckNow(c) ELSE c, IF over > 0 THEN in ELSE s)

\* the states from SYN_RECEIVED on
Synchronized(c, s, answer) ==
  LET t == LeftEdge(c, s)
      rwnd == Most(sbspace(c.rcv), Diff(c.adv, c.rnxt))
  IN  RightEdge(t[1], t[2], rwnd, answer)

-----------------------------------------------------------------------------
(* Header prediction: the common cases of a one-way transfer.              *)

Predicted(c, s) ==
  /\ c.t_state = TCPS_ESTABLISHED
  /\ s.flags \cap {"SYN", "FIN", "RST", "ACK"} = {"ACK"}
  /\ s.seq = c.rnxt /\ s.win # 0 /\ s.win = c.wnd /\ c.nxt = c.max
PureAck(c, s) ==
  Predicted(c, s) /\ s.data = <<>> /\ SEQ_GT(s.ack, c.una) /\ SEQ_LEQ(s.ack, c.max)
  /\ c.cwnd >= c.wnd
PureData(c, s) ==
  Predicted(c, s) /\ s.data # <<>> /\ s.ack = c.una /\ c.seg = <<>>
  /\ Len(s.data) <= sbspace(c.rcv)

Acked(c, s) ==
  LET d == [tcp_xmit_timer(c, s) EXCEPT !.snd = sbdrop(@, Diff(s.ack, c.una)), !.una = s.ack]
      e == Reckon(d, s)
  IN  IF e.snd.cc # 0 THEN tcp_output(e) ELSE e

tcp_dooptions(c, s) == IF s.mss # 0 /\ Has(s, "SYN") THEN tcp_mss(c, s.mss) ELSE c

\* a segment from the guest: nothing is done while the host's answer is awaited
tcp_input(c0, s, answer) ==
  LET c == tcp_dooptions(Arm([c0 EXCEPT !.idle = FALSE], "KEEP"), s)
  IN  IF ~c0.open
      THEN IF s.flags \cap {"SYN", "FIN", "RST", "ACK"} = {"SYN"} THEN Listen(NewSocket(c0), s, answer)
           ELSE dropwithreset(c0, s)
      ELSE IF "ISFCONNECTING" \in c0.so_state THEN c0
      ELSE IF PureAck(c, s) THEN Acked(c, s)
      ELSE IF PureData(c, s)
      THEN tcp_output(AckNow(sbappend([c EXCEPT !.rnxt = Plus(@, Len(s.data))], s.data)))
      ELSE IF c.t_state = TCPS_SYN_SENT THEN SYN_SENT(c, s)
      ELSE Synchronized(c, s, answer)
=============================================================================
