----------------------------- MODULE TcpOutput -----------------------------
(***************************************************************************)
(* libslirp's TCP towards the guest: the control block, sequence numbers,  *)
(* tcp_output.c, tcp_timer.c and what of tcp_subr.c ends a connection.     *)
(*                                                                         *)
(* A connection is one record, the tcpcb with its socket:                  *)
(*   una nxt max wnd cwnd ssthresh wl1 wl2 maxwnd   snd_una, snd_nxt, ...  *)
(*   rnxt adv iss irs             rcv_nxt, rcv_adv and the initial numbers *)
(*   flags armed force            t_flags, the running t_timers, t_force   *)
(*   seg                          the reassembly queue                     *)
(*   so_state so_m snd rcv h      the socket, h its host's end             *)
(*   out                          the segments the step has sent           *)
(* Each piece of code is an operator from one such record to the next.     *)
(* How long a timer runs is left out: a running timer may end at any time. *)
(***************************************************************************)
EXTENDS Sbuf, FiniteSets, SequencesExt

CONSTANTS SeqSpace,          \* sequence numbers are modulo this, 2^32 in the code
          SPACE,           \* TCP_SNDSPACE and TCP_RCVSPACE
          MSS, MINSEG,     \* the interface's segment size; 32 in the code
          TCP_MAXWIN, TCP_MAXRXTSHIFT, TCPREXMTTHRESH,
          ISS              \* slirp->tcp_iss when the connection is made

ASSUME TcpAssumption ==
  /\ {SeqSpace, SPACE, MSS, MINSEG, TCP_MAXWIN, TCP_MAXRXTSHIFT, TCPREXMTTHRESH} \subseteq Nat \ {0}
  /\ ISS \in 0 .. SeqSpace - 1 /\ MINSEG <= MSS /\ TCP_MAXWIN <= SPACE

-----------------------------------------------------------------------------
(* Sequence numbers.                                                       *)

Plus(a, n) == (a + n) % SeqSpace
UDiff(a, b) == (a - b) % SeqSpace
\* the difference as the int it is converted to
Diff(a, b) == IF UDiff(a, b) < SeqSpace \div 2 THEN UDiff(a, b) ELSE UDiff(a, b) - SeqSpace
SEQ_LT(a, b) == Diff(a, b) < 0
SEQ_LEQ(a, b) == Diff(a, b) <= 0
SEQ_GT(a, b) == Diff(a, b) > 0
Least(a, b) == IF a < b THEN a ELSE b
Most(a, b) == IF a < b THEN b ELSE a

TCPS_CLOSED == 0
TCPS_LISTEN == 1
TCPS_SYN_SENT == 2
TCPS_SYN_RECEIVED == 3
TCPS_ESTABLISHED == 4
TCPS_CLOSE_WAIT == 5
TCPS_FIN_WAIT_1 == 6
TCPS_CLOSING == 7
TCPS_LAST_ACK == 8
TCPS_FIN_WAIT_2 == 9
TCPS_TIME_WAIT == 10
TCPS_HAVERCVDSYN(s) == s >= TCPS_SYN_RECEIVED
TCPS_HAVEESTABLISHED(s) == s >= TCPS_ESTABLISHED
TCPS_HAVERCVDFIN(s) == s >= TCPS_TIME_WAIT

tcp_outflags ==
  [s \in TCPS_CLOSED .. TCPS_TIME_WAIT |->
     CASE s = TCPS_CLOSED -> {"RST", "ACK"}
       [] s = TCPS_LISTEN -> {}
       [] s = TCPS_SYN_SENT -> {"SYN"}
       [] s = TCPS_SYN_RECEIVED -> {"SYN", "ACK"}
       [] s \in {TCPS_ESTABLISHED, TCPS_CLOSE_WAIT, TCPS_FIN_WAIT_2, TCPS_TIME_WAIT} -> {"ACK"}
       [] s \in {TCPS_FIN_WAIT_1, TCPS_CLOSING, TCPS_LAST_ACK} -> {"FIN", "ACK"}]

-----------------------------------------------------------------------------
(* The host's end of a socket.  k is how many bytes of the host's stream   *)
(* slirp has read, got what it wrote to the host, room how many bytes the  *)
(* host takes in this step.                                                *)

NewHost == [k |-> 0, got |-> <<>>, room |-> 0,
            ended |-> FALSE,  \* the host sends no more: closed, or lost
            dead |-> FALSE,   \* lost: reads find nothing any more, writes fail
            eof |-> FALSE,    \* shutdown(s, 1): the host has been told the guest's end
            cut |-> FALSE]    \* the guest's end was told after a failed write

NoSegment == <<>>
Untimed == -1    \* t_rtseq while t_rtt is 0
\* a fresh tcpcb with its socket
tcp_newtcpcb ==
  [t_state |-> TCPS_CLOSED, armed |-> {}, rxtshift |-> 0, dupacks |-> 0, maxseg |-> MSS,
   force |-> FALSE, flags |-> {}, una |-> 0, nxt |-> 0, max |-> 0, wnd |-> 0,
   cwnd |-> TCP_MAXWIN, ssthresh |-> TCP_MAXWIN, wl1 |-> 0, wl2 |-> 0, maxwnd |-> 0,
   rnxt |-> 0, adv |-> 0, iss |-> 0, irs |-> 0, rtseq |-> Untimed, idle |-> FALSE, seg |-> <<>>,
   astray |-> FALSE,  \* the queue's end has been taken for a segment
   so_state |-> {}, so_m |-> NoSegment, snd |-> NoSbuf, rcv |-> NoSbuf, h |-> NewHost,
   open |-> TRUE, out |-> <<>>, again |-> FALSE]
socreate(c) == [c EXCEPT !.so_state = {"NOFDREF"}]
tcp_attach == socreate(tcp_newtcpcb)

Arm(c, t) == [c EXCEPT !.armed = @ \cup {t}]
Disarm(c, t) == [c EXCEPT !.armed = @ \ {t}]
tcp_canceltimers(c) == [c EXCEPT !.armed = {}]

tcp_rcvseqinit(c) == [c EXCEPT !.adv = Plus(c.irs, 1), !.rnxt = Plus(c.irs, 1)]
tcp_sendseqinit(c) == [c EXCEPT !.una = c.iss, !.nxt = c.iss, !.max = c.iss]

tcp_mss(c, offer) ==
  LET mss == Most(IF offer # 0 THEN Least(MSS, offer) ELSE MSS, MINSEG)
      size == SPACE + (IF SPACE % mss # 0 THEN mss - (SPACE % mss) ELSE 0)
  IN  [c EXCEPT !.maxseg = IF mss < @ \/ offer # 0 THEN mss ELSE @, !.cwnd = mss,
                !.snd = sbreserve(@, size), !.rcv = sbreserve(@, size)]

tcp_respond(c, ack, seq, flags) ==
  [c EXCEPT !.out = Append(@, [seq |-> seq, ack |-> ack, flags |-> flags, data |-> <<>>,
                               win |-> IF c.open THEN sbspace(c.rcv) ELSE 0])]

-----------------------------------------------------------------------------
(* The end of a connection.                                                *)

sofcantrcvmore(c) ==
  [c EXCEPT !.so_state = IF "FCANTSENDMORE" \in @ THEN (@ \cap {"INCOMING"}) \cup {"NOFDREF"}
                         ELSE (@ \ {"ISFCONNECTING"}) \cup {"FCANTRCVMORE"}]
sofcantsendmore(c) ==
  [c EXCEPT !.so_state = IF "FCANTRCVMORE" \in @ THEN (@ \cap {"INCOMING"}) \cup {"NOFDREF"}
                         ELSE (@ \ {"ISFCONNECTING"}) \cup {"FCANTSENDMORE"},
            !.h.eof = @ \/ "NOFDREF" \notin c.so_state]
sofwdrain(c) == IF c.rcv.cc # 0 THEN [c EXCEPT !.so_state = @ \cup {"FWDRAIN"}]
                ELSE sofcantsendmore(c)
soisfconnecting(c) ==
  [c EXCEPT !.so_state = (@ \cap {"INCOMING"}) \cup {"ISFCONNECTING"}]
soisfconnected(c) ==
  [c EXCEPT !.so_state = (@ \ {"ISFCONNECTING", "FWDRAIN", "NOFDREF"}) \cup {"ISFCONNECTED"}]

\* the tcpcb and the socket are freed, the host's socket closed
tcp_close(c) == [tcp_attach EXCEPT !.open = FALSE, !.out = c.out, !.h = c.h]

-----------------------------------------------------------------------------
(* tcp_output.                                                             *)

tcp_setpersist(c) ==
  [Arm(c, "PERSIST") EXCEPT !.rxtshift = IF @ < TCP_MAXRXTSHIFT THEN @ + 1 ELSE @]

\* the segment, its numbers and the receive window it offers: never less than before, and
\* nothing rather than a silly one
Segment(c, off, len, flags, rwin) ==
  LET numbered == len > 0 \/ flags \cap {"SYN", "FIN"} # {} \/ "PERSIST" \in c.armed
      silly == rwin < c.rcv.datalen \div 4 /\ rwin < c.maxseg
  IN  [seq |-> IF numbered THEN c.nxt ELSE c.max, ack |-> c.rnxt, flags |-> flags,
       data |-> sbcopy(c.snd, off, len),
       win |-> Most(Least(IF silly THEN 0 ELSE rwin, TCP_MAXWIN), UDiff(c.adv, c.rnxt))]

\* snd_nxt and snd_max move over it, and the retransmission timer runs; a probe moves
\* snd_max only
Advance(c, len, flags) ==
  LET next == Plus(c.nxt, len + Cardinality(flags \cap {"SYN", "FIN"}))
      beyond == SEQ_GT(next, c.max)
      sent == [c EXCEPT !.nxt = next, !.max = IF beyond THEN next ELSE @,
                        !.flags = IF "FIN" \in flags THEN @ \cup {"SENTFIN"} ELSE @,
                        !.rtseq = IF beyond /\ @ = Untimed THEN c.nxt ELSE @]
      probed == [c EXCEPT !.max = IF SEQ_GT(Plus(c.nxt, len), @) THEN Plus(c.nxt, len) ELSE @]
  IN  IF c.force /\ "PERSIST" \in c.armed THEN probed
      ELSE IF "REXMT" \notin sent.armed /\ sent.nxt # sent.una
      THEN [Arm(Disarm(sent, "PERSIST"), "REXMT")
              EXCEPT !.rxtshift = IF "PERSIST" \in sent.armed THEN 0 ELSE @]
      ELSE sent

Emit(c, segment, len, flags, sendalot) ==
  LET edge == Plus(c.rnxt, segment.win)
  IN  [Advance(c, len, flags) EXCEPT
         !.out = Append(@, [segment EXCEPT !.win = @ % (TCP_MAXWIN + 1)]), !.again = sendalot,
         !.adv = IF segment.win > 0 /\ SEQ_GT(edge, @) THEN edge ELSE @,
         !.flags = @ \ {"ACKNOW", "DELACK"}]
\* mutant: a FIN sent again takes a new number
Transmit_FinAgain(c, off, len, flags, rwin, sendalot) ==
  Emit(c, Segment(c, off, len, flags, rwin), len, flags, sendalot)
\* A FIN sent again takes no new number.
Transmit(c, off, len, flags, rwin, sendalot) ==
  LET Sent(d) == Emit(d, Segment(d, off, len, flags, rwin), len, flags, sendalot)
  IN  Sent(IF "FIN" \in flags /\ "SENTFIN" \in c.flags /\ c.nxt = c.max
           THEN [c EXCEPT !.nxt = Plus(@, -1)] ELSE c)

\* the smaller one of the guest's window and slirp's own
Offered_Own(c) == c.cwnd
Offered(c) == Least(c.wnd, c.cwnd)

\* why a segment is sent: data worth while, a window to tell, an answer due, a flag
Due(c, off, len, flags) ==
  LET rwin == sbspace(c.rcv)
      adv == Least(rwin, TCP_MAXWIN) - UDiff(c.adv, c.rnxt)
  IN  \/ /\ len > 0
         /\ \/ len = c.maxseg \/ len + off >= c.snd.cc \/ c.force
            \/ len >= c.maxwnd \div 2 /\ c.maxwnd > 0
            \/ SEQ_LT(c.nxt, c.max)
      \/ rwin > 0 /\ (adv >= 2 * c.maxseg \/ 2 * adv >= c.rcv.datalen)
      \/ "ACKNOW" \in c.flags
      \/ flags \cap {"SYN", "RST"} # {}
      \/ "FIN" \in flags /\ ("SENTFIN" \notin c.flags \/ c.nxt = c.una)

\* nothing to send now: what waits for a window is probed for
Persist(c) ==
  IF c.snd.cc # 0 /\ c.armed \cap {"REXMT", "PERSIST"} = {}
  THEN tcp_setpersist([c EXCEPT !.rxtshift = 0]) ELSE c

\* Fill in a segment and send it, or not; sendalot says that more is to follow.
Send(c, off, len, flags, sendalot) ==
  IF Due(c, off, len, flags)
  THEN Transmit(IF "SYN" \in flags THEN [tcp_mss(c, 0) EXCEPT !.nxt = c.iss] ELSE c, off, len,
                IF len > 0 /\ off + len = c.snd.cc THEN flags \cup {"PUSH"} ELSE flags,
                sbspace(c.rcv), sendalot)
  ELSE [Persist(c) EXCEPT !.again = FALSE]

\* one round from the label again
Round(c) ==
  LET off == Diff(c.nxt, c.una)
      probe == c.force /\ Offered(c) = 0
      win == IF probe THEN 1 ELSE Offered(c)
      usable == Least(c.snd.cc, win) - off
      len == Most(0, Least(usable, c.maxseg))
      shut == usable < 0 /\ win = 0
      unsent == SEQ_LT(Plus(IF shut THEN c.una ELSE c.nxt, len), Plus(c.una, c.snd.cc))
      flags == tcp_outflags[c.t_state]
                 \ (IF unsent \/ (probe /\ off < c.snd.cc) THEN {"FIN"} ELSE {})
      forced == IF c.force /\ ~probe THEN [Disarm(c, "PERSIST") EXCEPT !.rxtshift = 0] ELSE c
  IN  Send(IF shut THEN [Disarm(forced, "REXMT") EXCEPT !.nxt = c.una] ELSE forced, off, len,
           flags, usable > c.maxseg)

\* every round that asks for another one has sent a segment
tcp_output(c) ==
  LET slow == IF c.max = c.una /\ c.idle THEN [c EXCEPT !.cwnd = c.maxseg] ELSE c
      rounds[i \in 0 .. SPACE + 3] ==
        IF i = 0 THEN [slow EXCEPT !.again = TRUE]
        ELSE LET d == rounds[i - 1] IN IF d.again THEN Round(d) ELSE d
  IN  rounds[SPACE + 3]
tcp_drop(c) ==
  tcp_close(IF TCPS_HAVERCVDSYN(c.t_state) THEN tcp_output([c EXCEPT !.t_state = TCPS_CLOSED])
            ELSE c)

tcp_sockclosed(c) ==
  IF c.t_state <= TCPS_SYN_SENT THEN tcp_close(c)
  ELSE tcp_output([c EXCEPT !.t_state =
         CASE @ \in {TCPS_SYN_RECEIVED, TCPS_ESTABLISHED} -> TCPS_FIN_WAIT_1
           [] @ = TCPS_CLOSE_WAIT -> TCPS_LAST_ACK
           [] OTHER -> @])

-----------------------------------------------------------------------------
(* The timers.  timer has just run out.                                    *)

Rexmt(c0) ==
  LET shift == c0.rxtshift + 1
      halved == shift > TCP_MAXRXTSHIFT
      c == [c0 EXCEPT !.rxtshift = IF halved THEN TCP_MAXRXTSHIFT \div 2 ELSE shift,
                      !.maxseg = IF halved THEN @ \div 2 ELSE @]
      win == Most(2, Least(c.wnd, c.cwnd) \div (2 * Most(1, c.maxseg)))
  IN  IF c.maxseg < MINSEG THEN tcp_drop(c)
      ELSE tcp_output([Arm(c, "REXMT") EXCEPT !.nxt = c.una, !.rtseq = Untimed, !.cwnd = c.maxseg,
                                              !.ssthresh = win * c.maxseg, !.dupacks = 0])

tcp_timers(c, timer) ==
  CASE timer = "2MSL" ->
         IF c.t_state # TCPS_TIME_WAIT /\ ~c.idle THEN Arm(c, "2MSL")
         ELSE tcp_close(c)
    [] timer = "REXMT" -> Rexmt(c)
    [] timer = "PERSIST" ->
         LET d == tcp_output([tcp_setpersist(c) EXCEPT !.force = TRUE])
         IN  [d EXCEPT !.force = FALSE]
    [] timer = "KEEP" ->
         IF c.t_state < TCPS_ESTABLISHED THEN tcp_drop(c) ELSE Arm(c, "KEEP")

tcp_fasttimo(c) ==
  tcp_output([c EXCEPT !.flags = (@ \ {"DELACK"}) \cup {"ACKNOW"}])
=============================================================================
