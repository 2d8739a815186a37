-------------------------------- MODULE Tftp --------------------------------
(***************************************************************************)
(* The TFTP server, tftp.c, and a client that asks for one file, takes     *)
(* only the block it waits for, and asks or acknowledges again when it has *)
(* waited in vain.  The emulator sets no tftp_path: prefix is then FALSE   *)
(* and every request is refused; the library serves files with one.        *)
(*                                                                         *)
(* A session is [client, size, open, nr, stamp], or NoSession: the client  *)
(* and its port, block_size, whether fd is open, block_nr, timestamp.  The *)
(* packets to the clients, wire, may be lost.                              *)
(***************************************************************************)
EXTENDS Integers, Sequences, FiniteSets, SequencesExt

CONSTANTS Clients,
          TFTP_SESSIONS_MAX,
          BlockSize,  \* 512
          TFTP_BLOCKSIZE_MAX,
          Asked,      \* [Clients -> Nat], the blksize option of a client, 0: none
          FileLen,    \* bytes of the file
          IDLE,       \* 5 s, in ticks
          MaxTicks, MaxSent \* bounds: ticks, packets from the clients

VARIABLES
  prefix,     \* tftp_prefix is set
  sessions,   \* tftp_sessions
  files,      \* descriptors open
  wire,       \* packets on their way to the clients, [to, op, nr, data] records
  got,        \* [Clients -> [size, data, done]]: what each has of the file
  curtime, packets

vars == <<prefix, sessions, files, wire, got, curtime, packets>>

File == [i \in 1 .. FileLen |-> i]
NoSession == [client |-> "nobody", size |-> 0, open |-> FALSE, nr |-> 0, stamp |-> 0]
Slots == 1 .. TFTP_SESSIONS_MAX

Init ==
  /\ prefix \in BOOLEAN /\ sessions = [k \in Slots |-> NoSession] /\ files = 0 /\ wire = <<>>
  /\ got = [c \in Clients |-> [size |-> 0, data |-> <<>>, done |-> FALSE]]
  /\ curtime = 0 /\ packets = 0

-----------------------------------------------------------------------------
(* Sessions.                                                               *)

tftp_session_in_use(s) == s # NoSession

\* what a handler has done so far: the table, the descriptors, what it has sent
Effect == [table |-> sessions, files |-> files, sent |-> <<>>]

tftp_session_terminate(e, k) ==
  [e EXCEPT !.table[k] = NoSession, !.files = IF e.table[k].open THEN @ - 1 ELSE @]

\* the session of a client, or 0; client_port is part of the client
tftp_session_find(c) ==
  IF \E k \in Slots : sessions[k].client = c THEN CHOOSE k \in Slots : sessions[k].client = c ELSE 0

\* the first slot that is free, or has been idle for too long, or 0
SlotFor(e) ==
  LET usable == {k \in Slots : \/ ~tftp_session_in_use(e.table[k])
                               \/ curtime - e.table[k].stamp > IDLE}
  IN  IF usable = {} THEN 0 ELSE CHOOSE k \in usable : \A j \in usable : k <= j
NewSession(c) ==
  [client |-> c, size |-> BlockSize, open |-> FALSE, nr |-> 0, stamp |-> curtime]
tftp_session_allocate(e, k, c) == [tftp_session_terminate(e, k) EXCEPT !.table[k] = NewSession(c)]

-----------------------------------------------------------------------------
(* Answers.                                                                *)

Send(e, k, op, nr, data) ==
  [e EXCEPT !.sent = Append(@, [to |-> e.table[k].client, op |-> op, nr |-> nr, data |-> data])]
tftp_send_error(e, k) == tftp_session_terminate(Send(e, k, "error", 0, <<>>), k)
tftp_send_oack(e, k) == Send(e, k, "oack", e.table[k].size, <<>>)

Open(e, k) ==
  [e EXCEPT !.table[k].open = TRUE, !.files = IF e.table[k].open THEN @ ELSE @ + 1]
\* mutant: blocks are counted in units of 512
tftp_read_data_Default(s) ==
  LET from == s.nr * BlockSize
  IN  SubSeq(File, from + 1, IF from + s.size < FileLen THEN from + s.size ELSE FileLen)
tftp_read_data(s) ==
  LET from == s.nr * s.size
  IN  SubSeq(File, from + 1, IF from + s.size < FileLen THEN from + s.size ELSE FileLen)

\* a block that is not full is the last, and ends the session
tftp_send_next_block(e, k, readable) ==
  LET s == e.table[k]
      data == tftp_read_data(s)
      sent == Send(Open(e, k), k, "data", s.nr + 1, data)
  IN  IF ~readable THEN tftp_send_error(e, k)
      ELSE IF Len(data) = s.size
      THEN [sent EXCEPT !.table[k].nr = s.nr + 1, !.table[k].stamp = curtime]
      ELSE tftp_session_terminate(sent, k)

\* proper: its name, mode and options are; found: there is such a file
tftp_handle_rrq(c, proper, found, readable) ==
  LET old == tftp_session_find(c)
      ended == IF old = 0 THEN Effect ELSE tftp_session_terminate(Effect, old)
      k == SlotFor(ended)
      new == tftp_session_allocate(ended, k, c)
      opened == Open(new, k)
      size == IF Asked[c] < TFTP_BLOCKSIZE_MAX THEN Asked[c] ELSE TFTP_BLOCKSIZE_MAX
  IN  IF k = 0 THEN ended
      ELSE IF ~prefix \/ ~found THEN tftp_send_error(new, k)
      ELSE IF ~proper THEN tftp_send_error(opened, k)
      ELSE IF Asked[c] > 0 THEN tftp_send_oack([opened EXCEPT !.table[k].size = size], k)
      ELSE tftp_send_next_block(opened, k, readable)

\* the number of the block acknowledged is not looked at
tftp_handle_ack(c, readable) ==
  LET k == tftp_session_find(c)
  IN  IF k = 0 THEN Effect ELSE tftp_send_next_block(Effect, k, readable)

tftp_handle_error(c) ==
  LET k == tftp_session_find(c)
  IN  IF k = 0 THEN Effect ELSE tftp_session_terminate(Effect, k)

tftp_input(e) ==
  /\ packets < MaxSent /\ packets' = packets + 1
  /\ sessions' = e.table /\ files' = e.files /\ wire' = wire \o e.sent

-----------------------------------------------------------------------------
(* The clients.                                                            *)

Waiting(c) == ~got[c].done
SendRrq(c) ==
  /\ Waiting(c)
  /\ \E proper, found, readable \in BOOLEAN :
       tftp_input(tftp_handle_rrq(c, proper, found, readable))
  /\ got' = [got EXCEPT ![c] = [size |-> IF Asked[c] = 0 THEN BlockSize ELSE 0,
                                data |-> <<>>, done |-> FALSE]]
  /\ UNCHANGED <<prefix, curtime>>
\* of the block it has, or of the OACK; it may come twice
SendAck(c) ==
  /\ got[c].size > 0 /\ \E readable \in BOOLEAN : tftp_input(tftp_handle_ack(c, readable))
  /\ UNCHANGED <<prefix, got, curtime>>
SendError(c) ==
  /\ tftp_input(tftp_handle_error(c)) /\ UNCHANGED <<prefix, got, curtime>>

Receive ==
  /\ wire # <<>> /\ wire' = Tail(wire)
  /\ LET p == Head(wire)
         has == got[p.to]
         next == has.size > 0 /\ ~has.done /\ p.nr * has.size = Len(has.data) + has.size
     IN  got' = IF p.op = "oack" /\ has.data = <<>> THEN [got EXCEPT ![p.to].size = p.nr]
                ELSE IF p.op = "data" /\ next
                THEN [got EXCEPT ![p.to].data = @ \o p.data, ![p.to].done = Len(p.data) < has.size]
                ELSE got
  /\ UNCHANGED <<prefix, sessions, files, curtime, packets>>
Lose ==
  /\ wire # <<>> /\ wire' = Tail(wire)
  /\ UNCHANGED <<prefix, sessions, files, got, curtime, packets>>
Tick ==
  /\ curtime < MaxTicks /\ curtime' = curtime + 1
  /\ UNCHANGED <<prefix, sessions, files, wire, got, packets>>

Next ==
  \/ \E c \in Clients : SendRrq(c) \/ SendAck(c) \/ SendError(c)
  \/ Receive \/ Lose \/ Tick
Spec == Init /\ [][Next]_vars

-----------------------------------------------------------------------------
(* Properties.                                                             *)

\* What a client has is the beginning of the file, and all of it once it has seen the end,
\* whatever is lost or asked for again, with any size of block.
ServedExactly ==
  \A c \in Clients :
    /\ IsPrefix(got[c].data, File)
    /\ got[c].done => got[c].data = File /\ prefix

\* A file is open exactly as long as the session it was opened for.
FilesAccounted == files = Cardinality({k \in Slots : sessions[k].open})
=============================================================================
