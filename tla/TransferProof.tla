---------------------------- MODULE TransferProof ----------------------------
(***************************************************************************)
(* Theorems about FileTransfer, for files of any length and any bytes.     *)
(***************************************************************************)
EXTENDS FileTransfer, SequenceTheorems, TLAPS

(* What the copies do to sequences, an element at a time.                   *)

LEMMA ContentsLemma == \A s : s \in Contents <=> s \in Seq(Bytes) /\ Len(s) <= MaxLen
<1>1. ASSUME NEW s, s \in Contents
      PROVE  s \in Seq(Bytes) /\ Len(s) <= MaxLen
  <2>1. PICK m \in 0 .. MaxLen : s \in [1 .. m -> Bytes]
    BY <1>1 DEF Contents, BoundedSeq, SeqOf
  <2>2. m \in Nat /\ m <= MaxLen
    BY TransferAssumption
  <2>3. s \in Seq(Bytes) /\ Len(s) = m
    BY <2>1, <2>2, LenProperties
  <2> QED
    BY <2>2, <2>3
<1>2. ASSUME NEW s, s \in Seq(Bytes), Len(s) <= MaxLen
      PROVE  s \in Contents
  <2>1. s \in [1 .. Len(s) -> Bytes] /\ Len(s) \in 0 .. MaxLen
    BY <1>2, TransferAssumption, LenProperties
  <2> QED
    BY <2>1 DEF Contents, BoundedSeq, SeqOf
<1> QED
  BY <1>1, <1>2

LEMMA NextByte ==
  ASSUME NEW s \in Seq(Bytes), NEW n \in 1 .. Len(s)
  PROVE  Append(SubSeq(s, 1, n - 1), s[n]) = SubSeq(s, 1, n)
<1>1. SubSeq(s, 1, n) = SubSeq(s, 1, n - 1) \o <<s[n]>>
  BY SubSeqRecursiveSecond
<1>2. \A i \in 1 .. n - 1 : s[i] \in Bytes
  BY ElementOfSeq
<1>3. SubSeq(s, 1, n - 1) \in Seq(Bytes) /\ s[n] \in Bytes
  BY <1>2, SubSeqProperties, ElementOfSeq
<1> QED
  BY <1>1, <1>3, AppendIsConcat

LEMMA BufferLemma ==
  ASSUME NEW h \in Seq(Bytes), NEW b \in Seq(Bytes), NEW x \in Bytes
  PROVE  /\ h \o b \in Seq(Bytes) /\ Len(h \o b) = Len(h) + Len(b)
         /\ h \o Append(b, x) = Append(h \o b, x)
         /\ (h \o b) \o <<x>> = Append(h \o b, x)
         /\ Append(b, x) \in Seq(Bytes) /\ Len(Append(b, x)) = Len(b) + 1
         /\ <<x>> \in Seq(Bytes) /\ Len(<<x>>) = 1
<1>1. <<x>> \in Seq(Bytes) /\ Len(<<x>>) = 1
  OBVIOUS
<1>2. h \o b \in Seq(Bytes) /\ Len(h \o b) = Len(h) + Len(b)
  BY ConcatProperties
<1>3. Append(b, x) = b \o <<x>> /\ Append(h \o b, x) = (h \o b) \o <<x>>
  BY <1>2, AppendIsConcat
<1>4. h \o (b \o <<x>>) = (h \o b) \o <<x>>
  BY <1>1, ConcatAssociative
<1>5. Append(b, x) \in Seq(Bytes) /\ Len(Append(b, x)) = Len(b) + 1
  BY AppendProperties
<1> QED
  BY <1>1, <1>2, <1>3, <1>4, <1>5

\* what Flush leaves is no longer than what had been written, and all of it unless
\* something was lost
LEMMA FlushLemma ==
  ASSUME NEW file, NEW lost \in BOOLEAN, Flush(file, lost), buffer \in Seq(Bytes)
  PROVE  /\ ~writing => file = host
         /\ writing /\ host \in Seq(Bytes) =>
              /\ file \in Seq(Bytes) /\ Len(file) <= Len(host) + Len(buffer)
              /\ lost = FALSE => file = host \o buffer
<1>1. PICK n \in 0 .. Len(buffer) :
        /\ file = IF writing THEN host \o SubSeq(buffer, 1, n) ELSE host
        /\ lost = (n < Len(buffer))
  BY DEF Flush
<1>2. n \in Int /\ Len(buffer) \in Nat
  BY LenProperties
<1>3. \A i \in 1 .. n : buffer[i] \in Bytes
  BY <1>2, ElementOfSeq
<1>4. SubSeq(buffer, 1, n) \in Seq(Bytes) /\ Len(SubSeq(buffer, 1, n)) <= n
  BY <1>2, <1>3, SubSeqProperties
<1>5. n = Len(buffer) => SubSeq(buffer, 1, n) = buffer
  BY SubSeqFull
<1>6. ASSUME writing, host \in Seq(Bytes)
      PROVE  /\ file \in Seq(Bytes) /\ Len(file) <= Len(host) + Len(buffer)
             /\ lost = FALSE => file = host \o buffer
  <2>1. file = host \o SubSeq(buffer, 1, n)
    BY <1>1, <1>6
  <2>2. file \in Seq(Bytes) /\ Len(file) = Len(host) + Len(SubSeq(buffer, 1, n))
    BY <1>4, <1>6, <2>1, ConcatProperties
  <2>3. Len(host) \in Nat /\ Len(SubSeq(buffer, 1, n)) \in Nat
    BY <1>4, <1>6, LenProperties
  <2>4. lost = FALSE => n = Len(buffer)
    <3> SUFFICES ASSUME lost = FALSE PROVE n = Len(buffer)
      OBVIOUS
    <3>1. ~(n < Len(buffer))
      BY <1>1
    <3> QED
      BY <1>2, <3>1
  <2>5. Len(file) <= Len(host) + Len(buffer)
    BY <1>2, <1>4, <2>2, <2>3
  <2>6. lost = FALSE => file = host \o buffer
    BY <1>5, <2>1, <2>4
  <2> QED
    BY <2>2, <2>5, <2>6
<1> QED
  BY <1>1, <1>6

-----------------------------------------------------------------------------
(* The inductive invariant.                                                 *)

Reading == {"R.create", "R.read", "R.write", "R.close"}
Writing == {"W.read", "W.write", "W.close", "W.closeHost"}

Typed ==
  /\ pc \in Points /\ said \in {"R ok", "W ok", "error", "nothing"}
  /\ host \in Files /\ dos \in Files /\ source \in Files
  /\ read_fp \in {Closed} \cup 0 .. MaxLen /\ handle \in {Closed} \cup 0 .. MaxLen
  /\ buffer \in Seq(Bytes) /\ byte \in Bytes
  /\ leaked \subseteq {"read", "write"}
Flags == writing \in BOOLEAN /\ short \in BOOLEAN

\* which streams are open where
Streams ==
  /\ read_fp # Closed => pc \in Reading \/ "read" \in leaked
  /\ pc \in Reading => read_fp \in 0 .. Len(host) /\ host # Absent
  /\ pc = "R.create" => read_fp = 0
  /\ writing => pc \in Writing \/ "write" \in leaked
  /\ pc \in Writing => writing
  /\ pc \in {"W.create", "W.read", "W.write", "W.close"} =>
       handle \in 0 .. Len(dos) /\ dos # Absent
  /\ pc = "W.create" => handle = 0

\* what has been written is no more than what has been read
Room ==
  /\ writing => host \in Contents /\ Len(host) + Len(buffer) <= MaxLen
  /\ ~writing => buffer = <<>>
  /\ pc \in {"R.read", "R.write", "R.close"} => dos \in Contents
  /\ pc = "R.read" => Len(dos) <= read_fp /\ handle \in 0 .. read_fp
  /\ pc = "R.write" => Len(dos) < read_fp /\ handle \in 0 .. read_fp - 1
  /\ pc = "W.read" => Len(host) + Len(buffer) <= handle
  /\ pc = "W.write" => Len(host) + Len(buffer) < handle

\* what has been copied is what has been read, but for the byte under way
Copied ==
  /\ pc \in Reading \cup {"R.open", "R.report"} => source = host
  /\ pc \in Writing \cup {"W.open", "W.create", "W.report"} => source = dos
  /\ pc # "prompt" => said = "nothing"
  /\ pc = "R.write" => byte = host[read_fp]
  /\ pc = "W.write" => byte = dos[handle]
  /\ pc = "W.report" \/ said = "W ok" => ~writing
CopiedR ==
  short = FALSE =>
    /\ pc = "R.read" => dos = SubSeq(host, 1, read_fp)
    /\ pc = "R.write" => dos = SubSeq(host, 1, read_fp - 1)
    /\ pc \in {"R.close", "R.report"} => dos = host
    /\ said = "R ok" => dos = source
CopiedW ==
  short = FALSE =>
    /\ pc = "W.read" => host \o buffer = SubSeq(dos, 1, handle)
    /\ pc = "W.write" => host \o buffer = SubSeq(dos, 1, handle - 1)
    /\ pc \in {"W.close", "W.closeHost"} => host \o buffer = dos
    /\ pc = "W.report" => host = dos
    /\ said = "W ok" => host = source

Inv == Typed /\ Flags /\ Streams /\ Room /\ Copied /\ CopiedR /\ CopiedW

LEMMA Constants ==
  /\ <<>> \in Contents /\ <<>> \in Seq(Bytes) /\ Len(<<>>) = 0
  /\ Absent \notin Contents
  /\ Closed \notin Nat /\ 0 \in 0 .. MaxLen
<1>1. <<>> \in Seq(Bytes) /\ Len(<<>>) = 0
  OBVIOUS
<1>2. <<>> \in Contents
  <2>1. 0 <= MaxLen
    BY TransferAssumption
  <2> QED
    BY <1>1, <2>1, ContentsLemma
<1>3. ASSUME Absent \in Seq(Bytes) PROVE FALSE
  <2>1. Absent[1] = -1 /\ 1 \in 1 .. Len(Absent)
    BY DEF Absent
  <2>2. \A n \in 1 .. Len(Absent) : Absent[n] \in Bytes
    BY <1>3, ElementOfSeq
  <2>3. -1 \in Bytes
    BY <2>1, <2>2
  <2> QED
    BY <2>3, TransferAssumption
<1>4. Closed \notin Nat /\ 0 \in 0 .. MaxLen
  BY TransferAssumption DEF Closed
<1> QED
  BY <1>1, <1>2, <1>3, <1>4, ContentsLemma

LEMMA InvInit == Init => Inv
<1> SUFFICES ASSUME Init PROVE Inv
  OBVIOUS
<1>1. Typed
  BY Constants, ContentsLemma DEF Init, Typed, Files, Points
<1>2. Flags /\ Streams /\ Room /\ Copied /\ CopiedR /\ CopiedW
  BY DEF Init, Flags, Streams, Room, Copied, CopiedR, CopiedW, Reading, Writing
<1> QED
  BY <1>1, <1>2 DEF Inv

-----------------------------------------------------------------------------
(* R.COM.                                                                   *)

LEMMA ROpenStep ==
  ASSUME Inv, ROpen, UNCHANGED <<host, dos, writing, buffer, handle, byte, source, short>>
  PROVE  Inv'
<1> USE DEF Inv, ROpen, Goto, Fail, CloseRead
<1>1. Typed'
  BY Constants DEF Typed, Points
<1>2. Flags'
  BY DEF Flags
<1>3. Streams'
  <2>1. host # Absent => Len(host) \in Nat
    BY ContentsLemma, LenProperties DEF Typed, Files
  <2> QED
    BY <2>1, Constants DEF Streams, Reading, Writing
<1>4. Room' /\ Copied' /\ CopiedR' /\ CopiedW'
  BY DEF Room, Copied, CopiedR, CopiedW, Reading, Writing
<1> QED
  BY <1>1, <1>2, <1>3, <1>4

LEMMA RCreateStep ==
  ASSUME Inv, RCreate, UNCHANGED <<host, writing, buffer, byte, source, short>>
  PROVE  Inv'
<1> USE DEF Inv, Goto, Fail, CloseRead
<1>1. CASE Fail("R.create") /\ CloseRead /\ UNCHANGED <<dos, handle>>
  <2>1. Typed' /\ Flags'
    BY <1>1 DEF Typed, Flags, Points
  <2>2. Streams' /\ Room' /\ Copied' /\ CopiedR' /\ CopiedW'
    BY <1>1 DEF Streams, Room, Copied, CopiedR, CopiedW, Reading, Writing
  <2> QED
    BY <2>1, <2>2
<1>2. CASE /\ Goto("R.create", "R.read") /\ dos' = Created /\ handle' = 0
           /\ UNCHANGED <<read_fp, leaked, said>>
  <2>1. Typed'
    BY <1>2, Constants DEF Typed, Points, Files, Created
  <2>2. Flags'
    BY <1>2 DEF Flags
  <2>3. read_fp = 0 /\ said = "nothing"
    BY <1>2 DEF Streams, Copied, Reading
  <2>4. Room'
    BY <1>2, <2>3, Constants DEF Room, Created
  <2>5. Streams'
    BY <1>2 DEF Streams, Reading, Writing
  <2>6. Copied' /\ CopiedW'
    BY <1>2 DEF Copied, CopiedW, Reading, Writing
  <2>7. SubSeq(host, 1, 0) = <<>>
    BY SubSeqEmpty
  <2>8. CopiedR'
    BY <1>2, <2>3, <2>7 DEF CopiedR, Created
  <2> QED
    BY <2>1, <2>2, <2>4, <2>5, <2>6, <2>8
<1> QED
  BY <1>1, <1>2 DEF RCreate

LEMMA RReadStep ==
  ASSUME Inv, RRead, UNCHANGED <<host, dos, writing, buffer, handle, said, source, leaked>>
  PROVE  Inv'
<1> USE DEF Inv, Goto
<1>0. /\ pc = "R.read" /\ read_fp \in 0 .. Len(host) /\ host \in Seq(Bytes)
      /\ Len(host) \in Nat /\ Len(host) <= MaxLen
  <2>1. pc = "R.read" /\ host \in Contents /\ read_fp \in 0 .. Len(host)
    BY DEF RRead, Typed, Files, Streams, Reading
  <2> QED
    BY <2>1, ContentsLemma, LenProperties
<1>1. CASE /\ Goto("R.read", "R.write") /\ read_fp < Len(host)
           /\ byte' = host[read_fp + 1] /\ read_fp' = read_fp + 1 /\ UNCHANGED short
  <2>1. read_fp' \in 0 .. Len(host) /\ read_fp' - 1 = read_fp /\ read_fp' \in 0 .. MaxLen
    BY <1>0, <1>1, TransferAssumption
  <2>2. byte' \in Bytes
    BY <1>0, <1>1, ElementOfSeq
  <2>3. Typed'
    BY <1>1, <2>1, <2>2 DEF Typed, Points
  <2>4. Flags'
    BY <1>1 DEF Flags
  <2>5. Streams'
    BY <1>1, <2>1 DEF Streams, Reading, Writing
  <2>6. dos \in Contents /\ Len(dos) \in Nat
    BY <1>0, ContentsLemma, LenProperties DEF Room
  <2>7. Room'
    BY <1>0, <1>1, <2>1, <2>6 DEF Room
  <2>8. Copied' /\ CopiedR' /\ CopiedW'
    BY <1>1, <2>1 DEF Copied, CopiedR, CopiedW, Reading, Writing
  <2> QED
    BY <2>3, <2>4, <2>5, <2>7, <2>8
<1>2. CASE /\ Goto("R.read", "R.close")
           /\ short' = (short \/ read_fp < Len(host)) /\ UNCHANGED <<byte, read_fp>>
  <2>1. Typed'
    BY <1>2 DEF Typed, Points
  <2>2. Flags'
    BY <1>2 DEF Flags
  <2>3. Streams' /\ Room' /\ Copied'
    BY <1>2 DEF Streams, Room, Copied, Reading, Writing
  <2>4. short' = FALSE => short = FALSE /\ ~(read_fp < Len(host))
    BY <1>2 DEF Flags
  <2>5. short' = FALSE => read_fp = Len(host)
    BY <1>0, <2>4
  <2>6. SubSeq(host, 1, Len(host)) = host
    BY <1>0, SubSeqFull
  <2>7. CopiedR'
    BY <1>0, <1>2, <2>4, <2>5, <2>6 DEF CopiedR, Copied
  <2>8. CopiedW'
    BY <1>2, <2>4 DEF CopiedW
  <2> QED
    BY <2>1, <2>2, <2>3, <2>7, <2>8
<1> QED
  BY <1>1, <1>2 DEF RRead

LEMMA RWriteStep ==
  ASSUME Inv, RWrite, UNCHANGED <<host, writing, buffer, byte, source>>
  PROVE  Inv'
<1> USE DEF Inv, Goto, Fail, CloseRead
<1>0. /\ pc = "R.write" /\ read_fp \in 0 .. Len(host) /\ host \in Seq(Bytes)
      /\ Len(host) \in Nat /\ Len(host) <= MaxLen /\ said = "nothing"
      /\ dos \in Seq(Bytes) /\ Len(dos) \in Nat /\ Len(dos) < read_fp
      /\ handle \in 0 .. read_fp - 1 /\ byte \in Bytes
  <2>1. /\ pc = "R.write" /\ host \in Contents /\ read_fp \in 0 .. Len(host)
        /\ said = "nothing"
    BY DEF RWrite, Typed, Files, Streams, Reading, Copied
  <2>2. dos \in Contents /\ Len(dos) < read_fp /\ handle \in 0 .. read_fp - 1 /\ byte \in Bytes
    BY <2>1 DEF Room, Typed
  <2> QED
    BY <2>1, <2>2, ContentsLemma, LenProperties
<1>1. CASE /\ Goto("R.write", "R.read") /\ dos' = Append(dos, byte) /\ handle' = handle + 1
           /\ UNCHANGED <<short, said, read_fp, leaked>>
  <2>1. dos' \in Seq(Bytes) /\ Len(dos') = Len(dos) + 1
    BY <1>0, <1>1, AppendProperties
  <2>2. dos' \in Contents /\ Len(dos') <= read_fp
    BY <1>0, <2>1, ContentsLemma, TransferAssumption
  <2>3. handle' \in 0 .. read_fp /\ handle' \in 0 .. MaxLen
    BY <1>0, <1>1, TransferAssumption
  <2>4. Typed'
    BY <1>1, <2>2, <2>3 DEF Typed, Points, Files
  <2>5. Flags'
    BY <1>1 DEF Flags
  <2>6. Streams' /\ Room'
    BY <1>1, <2>2, <2>3 DEF Streams, Room, Reading, Writing
  <2>7. Copied' /\ CopiedW'
    BY <1>1 DEF Copied, CopiedW, Reading, Writing
  <2>8. byte = host[read_fp] /\ read_fp \in 1 .. Len(host)
    BY <1>0 DEF Copied
  <2>9. Append(SubSeq(host, 1, read_fp - 1), host[read_fp]) = SubSeq(host, 1, read_fp)
    BY <1>0, <2>8, NextByte
  <2>10. CopiedR'
    BY <1>0, <1>1, <2>8, <2>9 DEF CopiedR
  <2> QED
    BY <2>4, <2>5, <2>6, <2>7, <2>10
<1>2. CASE /\ Goto("R.write", "R.read") /\ short' = TRUE
           /\ UNCHANGED <<dos, handle, said, read_fp, leaked>>
  <2>1. Typed'
    BY <1>2 DEF Typed, Points
  <2>2. Flags' /\ CopiedR' /\ CopiedW'
    BY <1>2 DEF Flags, CopiedR, CopiedW
  <2>3. Room'
    <3>1. Len(dos) <= read_fp /\ handle \in 0 .. read_fp
      BY <1>0
    <3> QED
      BY <1>2, <3>1 DEF Room
  <2>4. Streams' /\ Copied'
    BY <1>2 DEF Streams, Copied, Reading, Writing
  <2> QED
    BY <2>1, <2>2, <2>3, <2>4
<1>3. CASE Fail("R.write") /\ CloseRead /\ handle' = Closed /\ UNCHANGED <<dos, short>>
  <2>1. Typed'
    BY <1>3 DEF Typed, Points
  <2>2. Flags'
    BY <1>3 DEF Flags
  <2>3. Streams' /\ Room' /\ Copied' /\ CopiedR' /\ CopiedW'
    BY <1>3 DEF Streams, Room, Copied, CopiedR, CopiedW, Reading, Writing
  <2> QED
    BY <2>1, <2>2, <2>3
<1> QED
  BY <1>1, <1>2, <1>3 DEF RWrite

LEMMA REndStep ==
  ASSUME Inv,
         \/ /\ Goto("R.close", "R.report") /\ RClose
            /\ UNCHANGED <<host, dos, writing, buffer, handle, byte, said, source, short>>
         \/ /\ Goto("R.report", "prompt") /\ handle' = Closed /\ said' = "R ok"
            /\ UNCHANGED <<host, dos, streams, byte, history>>
  PROVE  Inv'
<1> USE DEF Inv, Goto
<1>1. CASE /\ Goto("R.close", "R.report") /\ RClose
           /\ UNCHANGED <<host, dos, writing, buffer, handle, byte, said, source, short>>
  <2> USE DEF RClose, CloseRead
  <2>1. Typed'
    BY <1>1 DEF Typed, Points
  <2>2. Flags' /\ Streams'
    BY <1>1 DEF Flags, Streams, Reading, Writing
  <2>3. Room' /\ Copied'
    BY <1>1 DEF Room, Copied, Reading, Writing
  <2>4. CopiedR' /\ CopiedW'
    BY <1>1 DEF CopiedR, CopiedW
  <2> QED
    BY <2>1, <2>2, <2>3, <2>4
<1>2. CASE /\ Goto("R.report", "prompt") /\ handle' = Closed /\ said' = "R ok"
           /\ UNCHANGED <<host, dos, streams, byte, history>>
  <2> USE DEF streams, history
  <2>1. Typed'
    BY <1>2 DEF Typed, Points
  <2>2. Flags' /\ Streams'
    BY <1>2 DEF Flags, Streams, Reading, Writing
  <2>3. Room' /\ Copied'
    BY <1>2 DEF Room, Copied, Reading, Writing
  <2>4. CopiedR' /\ CopiedW'
    BY <1>2 DEF CopiedR, CopiedW, Copied
  <2> QED
    BY <2>1, <2>2, <2>3, <2>4
<1> QED
  BY <1>1, <1>2

-----------------------------------------------------------------------------
(* W.COM.                                                                   *)

LEMMA WOpenStep ==
  ASSUME Inv, WOpen, UNCHANGED <<host, dos, streams, byte, history>>
  PROVE  Inv'
<1> USE DEF Inv, WOpen, Goto, Fail, streams, history
<1>1. Typed'
  BY Constants DEF Typed, Points
<1>2. Flags'
  BY DEF Flags
<1>3. dos # Absent => 0 \in 0 .. Len(dos)
  <2>1. dos # Absent => Len(dos) \in Nat
    BY ContentsLemma, LenProperties DEF Typed, Files
  <2> QED
    BY <2>1
<1>4. Streams'
  BY <1>3 DEF Streams, Reading, Writing
<1>5. Room' /\ Copied' /\ CopiedR' /\ CopiedW'
  BY DEF Room, Copied, CopiedR, CopiedW, Reading, Writing
<1> QED
  BY <1>1, <1>2, <1>4, <1>5

\* the host's file after a stream was closed, whether or not all of it was written
LEMMA ClosedLemma ==
  ASSUME Inv, NEW lost \in BOOLEAN, Flush(host', lost)
  PROVE  /\ host' \in Files
         /\ ~writing => host' = host
         /\ writing => /\ host' \in Contents /\ Len(host') <= Len(host) + Len(buffer)
                       /\ lost = FALSE => host' = host \o buffer
<1> USE DEF Inv
<1>1. buffer \in Seq(Bytes) /\ Len(buffer) \in Nat
  BY LenProperties DEF Typed
<1>2. CASE writing
  <2>1. host \in Seq(Bytes) /\ Len(host) \in Nat /\ Len(host) + Len(buffer) <= MaxLen
    BY <1>2, ContentsLemma, LenProperties DEF Room
  <2>2. /\ host' \in Seq(Bytes) /\ Len(host') <= Len(host) + Len(buffer)
        /\ lost = FALSE => host' = host \o buffer
    BY <1>1, <1>2, <2>1, FlushLemma
  <2>3. Len(host') <= MaxLen
    <3>1. Len(host') \in Nat
      BY <2>2, LenProperties
    <3> QED
      BY <1>1, <2>1, <2>2, <3>1, TransferAssumption
  <2>4. host' \in Contents
    BY <2>2, <2>3, ContentsLemma
  <2> QED
    BY <1>2, <2>2, <2>4 DEF Files
<1>3. CASE ~writing
  BY <1>1, <1>3, FlushLemma DEF Typed
<1> QED
  BY <1>2, <1>3

LEMMA WCreateStep ==
  ASSUME Inv, WCreate, UNCHANGED <<dos, read_fp, byte, source, short>>
  PROVE  Inv'
<1> USE DEF Inv, Goto, Fail
<1>1. CASE /\ Fail("W.create") /\ handle' = Closed /\ UNCHANGED <<host, writing, buffer, leaked>>
  <2>1. Typed'
    BY <1>1 DEF Typed, Points
  <2>2. Flags' /\ Streams'
    BY <1>1 DEF Flags, Streams, Reading, Writing
  <2>3. Room' /\ Copied' /\ CopiedR' /\ CopiedW'
    BY <1>1 DEF Room, Copied, CopiedR, CopiedW, Reading, Writing
  <2> QED
    BY <2>1, <2>2, <2>3
<1>2. ASSUME NEW lost \in BOOLEAN, Flush(host', lost), Fail("W.create"), handle' = Closed,
             writing' = FALSE, buffer' = <<>>, leaked' = leaked \ {"write"}
      PROVE  Inv'
  <2>1. host' \in Files
    BY <1>2, ClosedLemma
  <2>2. Typed'
    BY <1>2, <2>1, Constants DEF Typed, Points
  <2>3. Flags' /\ Streams'
    BY <1>2 DEF Flags, Streams, Reading, Writing
  <2>4. Room' /\ Copied' /\ CopiedR' /\ CopiedW'
    BY <1>2 DEF Room, Copied, CopiedR, CopiedW, Reading, Writing
  <2> QED
    BY <2>2, <2>3, <2>4
<1>3. CASE /\ Goto("W.create", "W.read")
           /\ host' = Truncated /\ writing' = TRUE /\ buffer' = <<>>
           /\ leaked' = leaked \ {"write"} /\ UNCHANGED <<handle, said>>
  <2> USE DEF Truncated
  <2>1. Typed'
    BY <1>3, Constants DEF Typed, Points, Files
  <2>2. Flags' /\ Streams'
    BY <1>3 DEF Flags, Streams, Reading, Writing
  <2>3. handle = 0 /\ said = "nothing"
    BY <1>3 DEF Streams, Copied, Writing
  <2>4. Room'
    <3>1. Len(host') + Len(buffer') = 0 /\ 0 <= MaxLen
      BY <1>3, Constants, TransferAssumption
    <3> QED
      BY <1>3, <2>3, <3>1, Constants DEF Room
  <2>5. Copied' /\ CopiedR'
    BY <1>3 DEF Copied, CopiedR, Reading, Writing
  <2>6. SubSeq(dos, 1, 0) = <<>> /\ <<>> \o <<>> = <<>>
    BY Constants, SubSeqEmpty, ConcatEmptySeq
  <2>7. CopiedW'
    BY <1>3, <2>3, <2>6 DEF CopiedW
  <2> QED
    BY <2>1, <2>2, <2>4, <2>5, <2>7
<1> QED
  BY <1>1, <1>2, <1>3 DEF WCreate

LEMMA WReadStep ==
  ASSUME Inv, WRead, UNCHANGED <<host, dos, streams, said, source, leaked>>
  PROVE  Inv'
<1> USE DEF Inv, Goto, streams
<1>0. /\ pc = "W.read" /\ handle \in 0 .. Len(dos) /\ dos \in Seq(Bytes)
      /\ Len(dos) \in Nat /\ Len(dos) <= MaxLen
  <2>1. pc = "W.read" /\ dos \in Contents /\ handle \in 0 .. Len(dos)
    BY DEF WRead, Typed, Files, Streams
  <2> QED
    BY <2>1, ContentsLemma, LenProperties
<1>1. CASE /\ Goto("W.read", "W.write") /\ handle < Len(dos)
           /\ byte' = dos[handle + 1] /\ handle' = handle + 1 /\ UNCHANGED short
  <2>1. handle' \in 0 .. Len(dos) /\ handle' - 1 = handle /\ handle' \in 0 .. MaxLen
    BY <1>0, <1>1, TransferAssumption
  <2>2. byte' \in Bytes
    BY <1>0, <1>1, ElementOfSeq
  <2>3. Typed'
    BY <1>1, <2>1, <2>2 DEF Typed, Points
  <2>4. Flags'
    BY <1>1 DEF Flags
  <2>5. Streams'
    BY <1>1, <2>1 DEF Streams, Reading, Writing
  <2>6. /\ Len(host) \in Nat /\ Len(buffer) \in Nat
        /\ Len(host) + Len(buffer) <= handle
    BY <1>0, ContentsLemma, LenProperties DEF Room, Typed, Streams, Writing
  <2>7. Room'
    BY <1>0, <1>1, <2>6 DEF Room
  <2>8. Copied' /\ CopiedR' /\ CopiedW'
    BY <1>1, <2>1 DEF Copied, CopiedR, CopiedW, Reading, Writing
  <2> QED
    BY <2>3, <2>4, <2>5, <2>7, <2>8
<1>2. CASE /\ Goto("W.read", "W.close")
           /\ short' = (short \/ handle < Len(dos)) /\ UNCHANGED <<byte, handle>>
  <2>1. Typed'
    BY <1>2 DEF Typed, Points
  <2>2. Flags'
    BY <1>2 DEF Flags
  <2>3. Streams' /\ Room' /\ Copied'
    BY <1>2 DEF Streams, Room, Copied, Reading, Writing
  <2>4. short' = FALSE => short = FALSE /\ ~(handle < Len(dos))
    BY <1>2 DEF Flags
  <2>5. short' = FALSE => handle = Len(dos)
    BY <1>0, <2>4
  <2>6. SubSeq(dos, 1, Len(dos)) = dos
    BY <1>0, SubSeqFull
  <2>7. CopiedW'
    BY <1>0, <1>2, <2>4, <2>5, <2>6 DEF CopiedW, Copied
  <2>8. CopiedR'
    BY <1>2, <2>4 DEF CopiedR
  <2> QED
    BY <2>1, <2>2, <2>3, <2>7, <2>8
<1> QED
  BY <1>1, <1>2 DEF WRead

LEMMA WWriteStep ==
  ASSUME Inv, WWrite,
         UNCHANGED <<dos, read_fp, writing, handle, said, source, leaked, byte>>
  PROVE  Inv'
<1> USE DEF Inv, Goto
<1>0. /\ pc = "W.write" /\ pc' = "W.read" /\ writing /\ said = "nothing"
      /\ handle \in 1 .. Len(dos) /\ dos \in Seq(Bytes)
      /\ Len(dos) \in Nat /\ Len(dos) <= MaxLen
      /\ host \in Seq(Bytes) /\ Len(host) \in Nat
      /\ buffer \in Seq(Bytes) /\ Len(buffer) \in Nat
      /\ Len(host) + Len(buffer) < handle /\ byte \in Bytes /\ byte = dos[handle]
  <2>1. /\ pc = "W.write" /\ pc' = "W.read" /\ writing /\ said = "nothing"
        /\ handle \in 0 .. Len(dos) /\ dos \in Contents /\ host \in Contents
        /\ buffer \in Seq(Bytes) /\ Len(host) + Len(buffer) < handle
        /\ byte \in Bytes /\ byte = dos[handle]
    BY DEF WWrite, Typed, Files, Streams, Writing, Room, Copied
  <2>2. /\ Len(dos) \in Nat /\ Len(host) \in Nat /\ Len(buffer) \in Nat
        /\ dos \in Seq(Bytes) /\ host \in Seq(Bytes) /\ Len(dos) <= MaxLen
    BY <2>1, ContentsLemma, LenProperties
  <2>3. handle \in 1 .. Len(dos)
    BY <2>1, <2>2
  <2> QED
    BY <2>1, <2>2, <2>3
<1>1. Streams' /\ Copied'
  BY <1>0 DEF Streams, Copied, Reading, Writing
<1>2. Append(SubSeq(dos, 1, handle - 1), byte) = SubSeq(dos, 1, handle)
  BY <1>0, NextByte
<1>3. /\ Append(buffer, byte) \in Seq(Bytes) /\ Len(Append(buffer, byte)) = Len(buffer) + 1
      /\ <<byte>> \in Seq(Bytes) /\ Len(<<byte>>) = 1
      /\ host \o Append(buffer, byte) = Append(host \o buffer, byte)
      /\ (host \o buffer) \o <<byte>> = Append(host \o buffer, byte)
  BY <1>0, BufferLemma
<1>4. CASE buffer' = Append(buffer, byte) /\ UNCHANGED <<host, short>>
  <2>1. Typed' /\ Flags'
    BY <1>0, <1>3, <1>4 DEF Typed, Flags, Points
  <2>2. Len(host) + Len(buffer') <= handle /\ Len(host) + Len(buffer') <= MaxLen
    BY <1>0, <1>3, <1>4, TransferAssumption
  <2>3. Room'
    BY <1>0, <1>4, <2>2 DEF Room
  <2>4. CopiedR' /\ CopiedW'
    BY <1>0, <1>2, <1>3, <1>4 DEF CopiedR, CopiedW
  <2> QED
    BY <1>1, <2>1, <2>3, <2>4
<1>5. ASSUME NEW lost \in BOOLEAN, Flush(host', lost), short' = (short \/ lost),
             buffer' = <<byte>>
      PROVE  Inv'
  <2>1. /\ host' \in Contents /\ Len(host') <= Len(host) + Len(buffer)
        /\ lost = FALSE => host' = host \o buffer
    BY <1>0, <1>5, ClosedLemma
  <2>2. Typed'
    BY <1>0, <1>3, <1>5, <2>1 DEF Typed, Points, Files
  <2>3. Flags'
    BY <1>0, <1>5 DEF Flags
  <2>4. Len(host') + Len(buffer') <= handle /\ Len(host') + Len(buffer') <= MaxLen
    <3>1. Len(host') \in Nat /\ Len(buffer') = 1
      BY <1>3, <1>5, <2>1, ContentsLemma, LenProperties
    <3> QED
      BY <1>0, <2>1, <3>1, TransferAssumption
  <2>5. Room'
    BY <1>0, <2>1, <2>4 DEF Room
  <2>6. short' = FALSE => short = FALSE /\ lost = FALSE
    BY <1>5 DEF Flags
  <2>7. CopiedR' /\ CopiedW'
    BY <1>0, <1>2, <1>3, <1>5, <2>1, <2>6 DEF CopiedR, CopiedW
  <2> QED
    BY <1>1, <2>2, <2>3, <2>5, <2>7
<1> QED
  BY <1>4, <1>5 DEF WWrite
LEMMA WEndStep ==
  ASSUME Inv,
         \/ /\ Goto("W.close", "W.closeHost") /\ handle' = Closed
            /\ UNCHANGED <<host, dos, streams, byte, said, history>>
         \/ /\ Goto("W.closeHost", "W.report") /\ WClose
            /\ UNCHANGED <<dos, read_fp, handle, byte, said, source>>
         \/ /\ Goto("W.report", "prompt") /\ said' = "W ok"
            /\ UNCHANGED <<host, dos, streams, handle, byte, history>>
  PROVE  Inv'
<1> USE DEF Inv, Goto
<1>1. CASE /\ Goto("W.close", "W.closeHost") /\ handle' = Closed
           /\ UNCHANGED <<host, dos, streams, byte, said, history>>
  <2> USE DEF streams, history
  <2>1. Typed'
    BY <1>1 DEF Typed, Points
  <2>2. Flags' /\ Streams'
    BY <1>1 DEF Flags, Streams, Reading, Writing
  <2>3. Room' /\ Copied' /\ CopiedR' /\ CopiedW'
    BY <1>1 DEF Room, Copied, CopiedR, CopiedW, Reading, Writing
  <2> QED
    BY <2>1, <2>2, <2>3
<1>2. ASSUME NEW lost \in BOOLEAN, Flush(host', lost), short' = (short \/ lost),
             Goto("W.closeHost", "W.report"),
             writing' = FALSE, buffer' = <<>>, leaked' = leaked \ {"write"},
             UNCHANGED <<dos, read_fp, handle, byte, said, source>>
      PROVE  Inv'
  <2>1. host' \in Files /\ (lost = FALSE => host' = host \o buffer)
    BY <1>2, ClosedLemma DEF Streams, Writing
  <2>2. Typed'
    BY <1>2, <2>1, Constants DEF Typed, Points
  <2>3. Flags' /\ Streams'
    BY <1>2 DEF Flags, Streams, Reading, Writing
  <2>4. Room' /\ Copied'
    BY <1>2 DEF Room, Copied, Reading, Writing
  <2>5. short' = FALSE => short = FALSE /\ lost = FALSE
    BY <1>2 DEF Flags
  <2>6. said = "nothing"
    BY <1>2 DEF Copied
  <2>7. CopiedR' /\ CopiedW'
    BY <1>2, <2>1, <2>5, <2>6 DEF CopiedR, CopiedW
  <2> QED
    BY <2>2, <2>3, <2>4, <2>7
<1>3. CASE /\ Goto("W.report", "prompt") /\ said' = "W ok"
           /\ UNCHANGED <<host, dos, streams, handle, byte, history>>
  <2> USE DEF streams, history
  <2>1. Typed'
    BY <1>3 DEF Typed, Points
  <2>2. Flags' /\ Streams'
    BY <1>3 DEF Flags, Streams, Reading, Writing
  <2>3. Room' /\ Copied'
    BY <1>3 DEF Room, Copied, Reading, Writing
  <2>4. CopiedR' /\ CopiedW'
    BY <1>3 DEF CopiedR, CopiedW, Copied, Writing
  <2> QED
    BY <2>1, <2>2, <2>3, <2>4
<1> QED
  BY <1>1, <1>2, <1>3 DEF WClose

-----------------------------------------------------------------------------
(* Start, and what can happen to a program.                                 *)

LEMMA StartStep ==
  ASSUME Inv, Start
  PROVE  Inv'
<1> USE DEF Inv, Start, streams
<1>1. Typed'
  BY DEF Typed, Points
<1>2. Flags'
  BY DEF Flags
<1>3. Streams' /\ Room'
  BY DEF Streams, Room, Reading, Writing
<1>4. Copied' /\ CopiedR' /\ CopiedW'
  BY DEF Copied, CopiedR, CopiedW, Reading, Writing
<1> QED
  BY <1>1, <1>2, <1>3, <1>4

LEMMA AbortStep ==
  ASSUME Inv, Abort
  PROVE  Inv'
<1> USE DEF Inv, Abort, streams
<1>1. Typed'
  BY DEF Typed, Points
<1>2. Flags'
  BY DEF Flags
<1>3. (read_fp # Closed => "read" \in leaked') /\ (writing => "write" \in leaked')
  OBVIOUS
<1>4. Streams' /\ Room'
  BY <1>3 DEF Streams, Room, Reading, Writing
<1>5. Copied' /\ CopiedR' /\ CopiedW'
  BY DEF Copied, CopiedR, CopiedW, Reading, Writing
<1> QED
  BY <1>1, <1>2, <1>4, <1>5

LEMMA DestroyStep ==
  ASSUME Inv, Destroy
  PROVE  Inv'
<1> USE DEF Inv
<1>1. PICK lost \in BOOLEAN : Flush(host', lost)
  BY DEF Destroy
<1>2. host' \in Files /\ (~writing => host' = host)
  BY <1>1, ClosedLemma
<1>3. /\ pc = "prompt" /\ pc' = pc /\ read_fp' = Closed /\ writing' = FALSE
      /\ buffer' = <<>> /\ leaked' = {}
      /\ UNCHANGED <<dos, handle, byte, said, source, short>>
  BY DEF Destroy
<1>4. Typed'
  BY <1>2, <1>3, Constants DEF Typed
<1>5. Flags' /\ Streams'
  BY <1>3 DEF Flags, Streams, Reading, Writing
<1>6. Room' /\ Copied'
  BY <1>3 DEF Room, Copied, Reading, Writing
<1>7. CopiedR' /\ CopiedW'
  BY <1>2, <1>3 DEF CopiedR, CopiedW, Copied
<1> QED
  BY <1>4, <1>5, <1>6, <1>7

LEMMA KillStep ==
  ASSUME Inv, Kill
  PROVE  Inv'
<1> USE DEF Inv, Kill
<1>1. Typed'
  BY Constants DEF Typed, Points
<1>2. Flags' /\ Streams'
  BY DEF Flags, Streams, Reading, Writing
<1>3. Room' /\ Copied'
  BY DEF Room, Copied, Reading, Writing
<1>4. CopiedR' /\ CopiedW'
  BY DEF CopiedR, CopiedW
<1> QED
  BY <1>1, <1>2, <1>3, <1>4

LEMMA InvStep == Inv /\ [Next]_vars => Inv'
<1> SUFFICES ASSUME Inv, [Next]_vars PROVE Inv'
  OBVIOUS
<1>1. CASE R
  BY <1>1, ROpenStep, RCreateStep, RReadStep, RWriteStep, REndStep DEF R
<1>2. CASE W
  BY <1>2, WOpenStep, WCreateStep, WReadStep, WWriteStep, WEndStep DEF W
<1>3. CASE UNCHANGED vars
  <2>1. /\ UNCHANGED <<pc, host, dos, read_fp, writing, buffer>>
        /\ UNCHANGED <<handle, byte, said, source, short, leaked>>
    BY <1>3 DEF vars, streams, history
  <2>2. Typed'
    BY <2>1 DEF Inv, Typed
  <2>3. Flags' /\ Streams'
    BY <2>1 DEF Inv, Flags, Streams, Reading, Writing
  <2>4. Room' /\ Copied'
    BY <2>1 DEF Inv, Room, Copied, Reading, Writing
  <2>5. CopiedR' /\ CopiedW'
    BY <2>1 DEF Inv, CopiedR, CopiedW
  <2> QED
    BY <2>2, <2>3, <2>4, <2>5 DEF Inv
<1> QED
  BY <1>1, <1>2, <1>3, StartStep, AbortStep, DestroyStep, KillStep DEF Next

LEMMA InvAlways == Spec => []Inv
BY InvInit, InvStep, PTL DEF Spec

-----------------------------------------------------------------------------
\* The programs, the handler and the files are always well formed; nothing ever
\* grows longer than the file it is a copy of.
THEOREM TransferTypeCorrect == Spec => []TypeOK
<1>1. ASSUME Inv PROVE TypeOK
  <2>1. buffer \in Contents
    <3>1. CASE ~writing
      BY <1>1, <3>1, Constants DEF Inv, Room
    <3>2. CASE writing
      <4>1. buffer \in Seq(Bytes) /\ host \in Contents /\ Len(host) + Len(buffer) <= MaxLen
        BY <1>1, <3>2 DEF Inv, Typed, Room
      <4>2. Len(host) \in Nat /\ Len(buffer) \in Nat
        BY <4>1, ContentsLemma, LenProperties
      <4>3. Len(buffer) <= MaxLen
        BY <4>1, <4>2, TransferAssumption
      <4> QED
        BY <4>1, <4>3, ContentsLemma
    <3> QED
      BY <3>1, <3>2
  <2> QED
    BY <1>1, <2>1 DEF Inv, Typed, Flags, TypeOK
<1> QED
  BY <1>1, InvAlways, PTL

\* A copy that was reported is one, for files of any length and content, unless DOS
\* or the host lost bytes without a word.
THEOREM ReportedIsCopied == Spec => []OkMeansCopied
<1>1. ASSUME Inv PROVE OkMeansCopied
  BY <1>1 DEF Inv, Flags, CopiedR, CopiedW, OkMeansCopied
<1> QED
  BY <1>1, InvAlways, PTL

\* Whatever path a program takes to the prompt, its stream is closed, unless it was
\* aborted.
THEOREM StreamsAreClosed == Spec => []StreamsClosed
<1>1. ASSUME Inv PROVE StreamsClosed
  BY <1>1 DEF Inv, Streams, StreamsClosed, Reading, Writing
<1> QED
  BY <1>1, InvAlways, PTL

\* Bytes of an aborted transfer never get between those of the next one.
THEOREM NothingIsStale == Spec => []NoStaleBytes
<1>1. ASSUME Inv PROVE NoStaleBytes
  <2> SUFFICES ASSUME pc \in {"W.read", "W.write"}, short = FALSE
               PROVE  IsPrefix(host \o buffer, source)
    BY <1>1 DEF NoStaleBytes, Inv, Flags
  <2>1. source = dos /\ dos \in Seq(Bytes) /\ handle \in 0 .. Len(dos)
    <3>1. source = dos
      BY <1>1 DEF Inv, Copied, Writing
    <3>2. dos \in Files /\ dos # Absent /\ handle \in 0 .. Len(dos)
      BY <1>1 DEF Inv, Typed, Streams
    <3> QED
      BY <3>1, <3>2, ContentsLemma DEF Files
  <2>2. PICK n \in 0 .. Len(dos) : host \o buffer = SubSeq(dos, 1, n)
    <3>1. CASE pc = "W.read"
      BY <1>1, <2>1, <3>1 DEF Inv, CopiedW
    <3>2. CASE pc = "W.write"
      <4>1. handle - 1 \in 0 .. Len(dos)
        <5>1. writing
          BY <1>1, <3>2 DEF Inv, Streams, Writing
        <5>2. host \in Seq(Bytes) /\ buffer \in Seq(Bytes)
          BY <1>1, <5>1, ContentsLemma DEF Inv, Typed, Room
        <5>3. Len(host) \in Nat /\ Len(buffer) \in Nat /\ Len(dos) \in Nat
          BY <2>1, <5>2, LenProperties
        <5>4. Len(host) + Len(buffer) < handle
          BY <1>1, <3>2 DEF Inv, Room
        <5> QED
          BY <2>1, <5>3, <5>4
      <4> QED
        BY <1>1, <3>2, <4>1 DEF Inv, CopiedW
    <3> QED
      BY <3>1, <3>2
  <2>3. \A i \in 1 .. n : dos[i] \in Bytes
    BY <2>1, ElementOfSeq, LenProperties
  <2>4. SubSeq(dos, 1, n) \in Seq(Bytes) /\ Len(SubSeq(dos, 1, n)) = n
    BY <2>3, SubSeqProperties
  <2>5. SubSeq(SubSeq(dos, 1, n), 1, n) = SubSeq(dos, 1, n)
    BY <2>4, SubSeqFull
  <2> QED
    BY <2>1, <2>2, <2>4, <2>5, LenProperties DEF IsPrefix
<1> QED
  BY <1>1, InvAlways, PTL

\* Neither program empties a file before it has the other one open.
THEOREM NothingIsEmptied == Spec => NothingEmptiedInVain
<1> DEFINE InVain == \/ dos # dos' /\ dos' = <<>> /\ read_fp = Closed
                     \/ host # host' /\ host' = <<>> /\ handle = Closed
<1>1. Inv /\ [Next]_vars => ~InVain
  <2> SUFFICES ASSUME Inv, [Next]_vars, InVain PROVE FALSE
    OBVIOUS
  <2>1. ASSUME NEW lost \in BOOLEAN, Flush(host', lost), host # host'
        PROVE  host' # <<>>
    <3>1. PICK n \in 0 .. Len(buffer) : host' = host \o SubSeq(buffer, 1, n) /\ writing
      BY <2>1 DEF Flush
    <3>2. host \in Seq(Bytes) /\ buffer \in Seq(Bytes)
      BY <3>1, ContentsLemma DEF Inv, Room, Typed
    <3>3. SubSeq(buffer, 1, n) \in Seq(Bytes)
      <4>1. \A i \in 1 .. n : buffer[i] \in Bytes
        BY <3>2, ElementOfSeq, LenProperties
      <4> QED
        BY <4>1, SubSeqProperties
    <3>4. SUFFICES ASSUME host' = <<>> PROVE FALSE
      OBVIOUS
    <3>5. host = <<>>
      BY <3>1, <3>2, <3>3, <3>4, ConcatEqualIffEmpty
    <3> QED
      BY <2>1, <3>4, <3>5
  <2>2. CASE dos # dos' /\ dos' = <<>> /\ read_fp = Closed
    <3>1. RCreate \/ RWrite
      BY <2>2 DEF Next, Start, R, W, ROpen, RRead, WOpen, WCreate, WRead, WWrite, Abort,
                  Destroy, Kill, vars, streams, history
    <3>2. CASE RCreate
      BY <2>2, <3>2, Constants DEF RCreate, Goto, Inv, Streams, Reading
    <3>3. CASE RWrite
      <4>1. dos \in Seq(Bytes) /\ byte \in Bytes /\ dos' = Append(dos, byte)
        BY <2>2, <3>3, ContentsLemma DEF RWrite, Goto, Fail, Inv, Room, Typed
      <4>2. Len(dos') = Len(dos) + 1 /\ Len(dos) \in Nat
        BY <4>1, AppendProperties, LenProperties
      <4> QED
        BY <2>2, <4>2, Constants
    <3> QED
      BY <3>1, <3>2, <3>3
  <2>3. CASE host # host' /\ host' = <<>> /\ handle = Closed
    <3>1. WCreate \/ \E lost \in BOOLEAN : Flush(host', lost)
      BY <2>3 DEF Next, Start, R, W, ROpen, RCreate, RRead, RWrite, RClose, CloseRead, WOpen,
                  WRead, WWrite, WClose, Abort, Destroy, Kill, vars, streams, history
    <3>2. CASE WCreate
      <4>1. handle = 0
        BY <3>2 DEF WCreate, Goto, Fail, Inv, Streams
      <4> QED
        BY <2>3, <4>1, Constants
    <3> QED
      BY <2>1, <2>3, <3>1, <3>2
  <2> QED
    BY <2>2, <2>3
<1>2. ~InVain => /\ dos # dos' /\ dos' = <<>> => read_fp # Closed
                 /\ host # host' /\ host' = <<>> => handle # Closed
  OBVIOUS
<1>3. Inv /\ [Next]_vars => /\ dos # dos' /\ dos' = <<>> => read_fp # Closed
                            /\ host # host' /\ host' = <<>> => handle # Closed
  BY <1>1, <1>2
<1> QED
  BY <1>3, InvAlways, PTL DEF Spec, NothingEmptiedInVain
=============================================================================
