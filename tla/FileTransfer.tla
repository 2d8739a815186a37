---------------------------- MODULE FileTransfer ----------------------------
(***************************************************************************)
(* R.COM and W.COM copy a file from the host into DOS and back, a byte at  *)
(* a time, through INT E0h, whose handler keeps one stdio stream for       *)
(* reading and one for writing.  DOS (external) can fail, or write nothing *)
(* and say so in AX; a program can be aborted (Ctrl-C, a critical error),  *)
(* which closes its DOS handle but no host stream; the app can end with    *)
(* _exit, which flushes nothing.                                           *)
(* One file on either side; names and the command line are left out.       *)
(***************************************************************************)
EXTENDS Integers, Sequences, SequencesExt

CONSTANTS Bytes,   \* what a byte can be
          MaxLen   \* bound: length of a file

ASSUME TransferAssumption == Bytes \subseteq 0 .. 255 /\ Bytes # {} /\ MaxLen \in Nat

Absent == <<-1>>                       \* no such file
Contents == BoundedSeq(Bytes, MaxLen)
Files == Contents \cup {Absent}
Closed == -1

VARIABLES
  pc,        \* where the program that runs is, or "prompt"
  host, dos, \* the files
  read_fp,   \* position in host, or Closed
  writing,   \* write_fp is open
  buffer,    \* bytes given to write_fp that have not reached the host's file
  handle,    \* the DOS handle: its position, or Closed
  byte,      \* the byte under way: buf in R.COM and W.COM
  said,      \* what the last program said: "R ok", "W ok", "error", or "nothing" yet
  source,    \* history: what the program set out to copy
  short,     \* history: a byte was lost in it without a word
  leaked     \* history: streams that an aborted program left open

streams == <<read_fp, writing, buffer>>
history == <<source, short, leaked>>
vars == <<pc, host, dos, streams, handle, byte, said, history>>

Points == {"prompt", "R.open", "R.create", "R.read", "R.write", "R.close", "R.report",
           "W.open", "W.create", "W.read", "W.write", "W.close", "W.closeHost",
           "W.report"}
TypeOK ==
  /\ pc \in Points /\ host \in Files /\ dos \in Files
  /\ read_fp \in {Closed} \cup 0 .. MaxLen /\ handle \in {Closed} \cup 0 .. MaxLen
  /\ writing \in BOOLEAN /\ buffer \in Contents /\ byte \in Bytes
  /\ said \in {"R ok", "W ok", "error", "nothing"} /\ source \in Files /\ short \in BOOLEAN
  /\ leaked \subseteq {"read", "write"}

Init ==
  /\ pc = "prompt" /\ host \in Files /\ dos \in Files
  /\ read_fp = Closed /\ writing = FALSE /\ buffer = <<>> /\ handle = Closed
  /\ byte \in Bytes /\ said = "nothing"
  /\ source = Absent /\ short = FALSE /\ leaked = {}

-----------------------------------------------------------------------------
(* INT E0h.                                                                *)

\* fclose(write_fp) and buffers that are full: what has been given to the stream
\* reaches the file, or, if the host is full, a part of it; nobody asks which
Flush(file, lost) ==
  \E n \in 0 .. Len(buffer) :
    /\ file = IF writing THEN host \o SubSeq(buffer, 1, n) ELSE host
    /\ lost = (n < Len(buffer))

CloseRead == read_fp' = Closed /\ leaked' = leaked \ {"read"}

\* AH=02h: an open stream is closed, its bytes flushed, before fopen truncates
Truncated_FlushedAfter == buffer
Truncated == <<>>

-----------------------------------------------------------------------------
(* R.COM.                                                                  *)

Goto(from, to) == pc = from /\ pc' = to
\* print_err, or the DOS prompt after "File transferred."
Fail(from) == pc = from /\ pc' = "prompt" /\ said' = "error"

Start ==
  /\ pc = "prompt" /\ pc' \in {"R.open", "W.open"}
  /\ said' = "nothing" /\ short' = FALSE
  /\ source' = IF pc' = "R.open" THEN host ELSE dos
  /\ UNCHANGED <<host, dos, streams, handle, byte, leaked>>

\* AH=01h: a path the handler rejects leaves the stream alone; else fopen
ROpen ==
  \/ /\ Fail("R.open") /\ UNCHANGED <<read_fp, leaked>>
  \/ /\ Fail("R.open") /\ host = Absent /\ CloseRead
  \/ /\ Goto("R.open", "R.create") /\ host # Absent
     /\ read_fp' = 0 /\ leaked' = leaked \ {"read"} /\ UNCHANGED said

\* AH=3Ch creates the DOS file, or empties it
Created == <<>>
RCreate ==
  \/ Fail("R.create") /\ CloseRead /\ UNCHANGED <<dos, handle>>
  \/ /\ Goto("R.create", "R.read") /\ dos' = Created /\ handle' = 0
     /\ UNCHANGED <<read_fp, leaked, said>>

\* AH=03h: a read error looks like the end of the file
RRead ==
  \/ /\ Goto("R.read", "R.write") /\ read_fp < Len(host)
     /\ byte' = host[read_fp + 1] /\ read_fp' = read_fp + 1 /\ UNCHANGED short
  \/ /\ Goto("R.read", "R.close")
     /\ short' = (short \/ read_fp < Len(host)) /\ UNCHANGED <<byte, read_fp>>

\* AH=40h: written, or not for want of space (AX=0, which R does not look at), or CF
RWrite ==
  \/ /\ Goto("R.write", "R.read") /\ dos' = Append(dos, byte) /\ handle' = handle + 1
     /\ UNCHANGED <<short, said, read_fp, leaked>>
  \/ /\ Goto("R.write", "R.read") /\ short' = TRUE
     /\ UNCHANGED <<dos, handle, said, read_fp, leaked>>
  \/ /\ Fail("R.write") /\ CloseRead /\ handle' = Closed /\ UNCHANGED <<dos, short>>

RClose == CloseRead

R ==
  \/ ROpen /\ UNCHANGED <<host, dos, writing, buffer, handle, byte, source, short>>
  \/ RCreate /\ UNCHANGED <<host, writing, buffer, byte, source, short>>
  \/ RRead /\ UNCHANGED <<host, dos, writing, buffer, handle, said, source, leaked>>
  \/ RWrite /\ UNCHANGED <<host, writing, buffer, byte, source>>
  \/ /\ Goto("R.close", "R.report") /\ RClose
     /\ UNCHANGED <<host, dos, writing, buffer, handle, byte, said, source, short>>
  \/ /\ Goto("R.report", "prompt") /\ handle' = Closed /\ said' = "R ok"
     /\ UNCHANGED <<host, dos, streams, byte, history>>

-----------------------------------------------------------------------------
(* W.COM.                                                                  *)

\* the DOS file first, so that without it the host's is left as it is
WOpen_Unchecked == Goto("W.open", "W.create") /\ UNCHANGED <<handle, said>>
WOpen ==
  \/ Fail("W.open") /\ UNCHANGED handle
  \/ Goto("W.open", "W.create") /\ dos # Absent /\ handle' = 0 /\ UNCHANGED said

\* AH=02h: rejected; or the older stream is closed, and fopen fails or truncates
WCreate ==
  \/ /\ Fail("W.create") /\ handle' = Closed /\ UNCHANGED <<host, writing, buffer, leaked>>
  \/ /\ Fail("W.create") /\ handle' = Closed
     /\ \E lost \in BOOLEAN : Flush(host', lost)
     /\ writing' = FALSE /\ buffer' = <<>> /\ leaked' = leaked \ {"write"}
  \/ /\ Goto("W.create", "W.read")
     /\ host' = Truncated /\ writing' = TRUE /\ buffer' = <<>>
     /\ leaked' = leaked \ {"write"} /\ UNCHANGED <<handle, said>>

\* AH=3Fh: an error ends the copy as the end of the file does
WRead ==
  \/ /\ Goto("W.read", "W.write") /\ handle < Len(dos)
     /\ byte' = dos[handle + 1] /\ handle' = handle + 1 /\ UNCHANGED short
  \/ /\ Goto("W.read", "W.close")
     /\ short' = (short \/ handle < Len(dos)) /\ UNCHANGED <<byte, handle>>

\* AH=04h: fputc, which may flush the stream's buffer and lose bytes, unchecked
WWrite ==
  /\ Goto("W.write", "W.read")
  /\ \/ buffer' = Append(buffer, byte) /\ UNCHANGED <<host, short>>
     \/ /\ buffer' = <<byte>>
        /\ \E lost \in BOOLEAN : Flush(host', lost) /\ short' = (short \/ lost)

\* AH=05h, AL=1: fclose
WClose_Unflushed == writing' = FALSE /\ UNCHANGED <<host, buffer, short, leaked>>
WClose ==
  /\ writing' = FALSE /\ buffer' = <<>> /\ leaked' = leaked \ {"write"}
  /\ \E lost \in BOOLEAN : Flush(host', lost) /\ short' = (short \/ lost)

W ==
  \/ WOpen /\ UNCHANGED <<host, dos, streams, byte, history>>
  \/ WCreate /\ UNCHANGED <<dos, read_fp, byte, source, short>>
  \/ WRead /\ UNCHANGED <<host, dos, streams, said, source, leaked>>
  \/ WWrite /\ UNCHANGED <<dos, read_fp, writing, handle, said, source, leaked, byte>>
  \/ /\ Goto("W.close", "W.closeHost") /\ handle' = Closed
     /\ UNCHANGED <<host, dos, streams, byte, said, history>>
  \/ /\ Goto("W.closeHost", "W.report") /\ WClose
     /\ UNCHANGED <<dos, read_fp, handle, byte, said, source>>
  \/ /\ Goto("W.report", "prompt") /\ said' = "W ok"
     /\ UNCHANGED <<host, dos, streams, handle, byte, history>>

-----------------------------------------------------------------------------
(* What happens to the programs.                                           *)

\* DOS aborts the program and closes its handle (external)
Abort ==
  /\ pc # "prompt" /\ pc' = "prompt" /\ handle' = Closed /\ said' = "nothing"
  /\ leaked' = {s \in {"read", "write"} : IF s = "read" THEN read_fp # Closed ELSE writing}
  /\ UNCHANGED <<host, dos, streams, byte, source, short>>

\* the session ends at the prompt: HOSTIO_Destroy closes the streams, and
\* HOSTIO_Init makes new ones when the next begins
Destroy ==
  /\ pc = "prompt" /\ read_fp' = Closed /\ writing' = FALSE /\ buffer' = <<>>
  /\ \E lost \in BOOLEAN : Flush(host', lost)
  /\ leaked' = {}
  /\ UNCHANGED <<pc, dos, handle, byte, said, source, short>>

\* stop: _exit at any moment, and a new process
Kill ==
  /\ pc' = "prompt" /\ read_fp' = Closed /\ writing' = FALSE /\ buffer' = <<>>
  /\ handle' = Closed /\ leaked' = {}
  /\ said' = IF pc = "prompt" THEN said ELSE "nothing"
  /\ UNCHANGED <<host, dos, byte, source, short>>

Next == Start \/ R \/ W \/ Abort \/ Destroy \/ Kill
Spec == Init /\ [][Next]_vars
-----------------------------------------------------------------------------
\* "File transferred." is true, and stays true when the app is ended without
\* flushing: the copy on the other side is the source, byte for byte, unless DOS or
\* the host lost bytes, which neither program looks at.
OkMeansCopied ==
  ~short => /\ said = "R ok" => dos = source
            /\ said = "W ok" => host = source

\* At the prompt no host stream is open, on whatever path the program ended, unless
\* it was aborted.
StreamsClosed ==
  pc = "prompt" => /\ read_fp # Closed => "read" \in leaked
                   /\ writing => "write" \in leaked

\* A file is emptied only when there is one to copy in its place: a mistyped source
\* costs nothing.
NothingEmptiedInVain ==
  [][/\ dos # dos' /\ dos' = <<>> => read_fp # Closed
     /\ host # host' /\ host' = <<>> => handle # Closed]_vars

\* An older, aborted transfer leaves no bytes in a newer one.
NoStaleBytes == pc \in {"W.read", "W.write"} /\ ~short => IsPrefix(host \o buffer, source)
=============================================================================
