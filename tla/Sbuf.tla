-------------------------------- MODULE Sbuf --------------------------------
(***************************************************************************)
(* The socket buffers of libslirp (sbuf.c) and the spans that soread and   *)
(* sowrite compute over them (socket.c): rings of bytes with a read and a  *)
(* write pointer and a count.  Bytes never leave the ring's memory when    *)
(* they are dropped, so what a wrong pointer would read is there too.      *)
(***************************************************************************)
EXTENDS Integers, Sequences

sbspace(sb) == sb.datalen - sb.cc

\* the bytes are kept, as realloc does; a fresh ring holds zeros
sbreserve(sb, size) ==
  [data |-> [i \in 0 .. size - 1 |-> IF i < sb.datalen THEN sb.data[i] ELSE 0],
   datalen |-> size, rptr |-> 0, wptr |-> 0, cc |-> 0]
NoSbuf == [data |-> <<>>, datalen |-> 0, rptr |-> 0, wptr |-> 0, cc |-> 0]

\* mutant: the offset is forgotten
sbcopy_NoOffset(sb, off, len) == [i \in 1 .. len |-> sb.data[(sb.rptr + i - 1) % sb.datalen]]
sbcopy(sb, off, len) ==
  [i \in 1 .. len |-> sb.data[(sb.rptr + off + i - 1) % sb.datalen]]
Content(sb) == IF sb.cc = 0 THEN <<>> ELSE sbcopy(sb, 0, sb.cc)

sbdrop(sb, num) ==
  LET n == IF num > sb.cc THEN sb.cc ELSE num
  IN  [sb EXCEPT !.cc = @ - n, !.rptr = (@ + n) % sb.datalen]

\* from the write pointer to the read pointer, around the end of the ring; what does not
\* fit is left out, and a full ring is written over, as its two pointers meet
sbappendsb(sb, bytes) ==
  LET room == IF sb.wptr < sb.rptr THEN sb.rptr - sb.wptr ELSE sb.datalen - sb.wptr + sb.rptr
      n == IF Len(bytes) < room THEN Len(bytes) ELSE room
      At(i) == ((i - sb.wptr) % sb.datalen) + 1
  IN  [sb EXCEPT !.data = [i \in 0 .. sb.datalen - 1 |-> IF At(i) <= n THEN bytes[At(i)] ELSE @[i]],
                 !.cc = @ + n, !.wptr = (@ + n) % sb.datalen]
\* the bytes sopreprbuf lets soread take at once: whole segments of mss when there is more
sopreprbuf(sb, mss) ==
  LET len == sbspace(sb)
      Least(a, b) == IF a < b THEN a ELSE b
      Whole(n) == IF n > mss THEN n - (n % mss) ELSE n
      first == Least(IF sb.wptr < sb.rptr THEN sb.rptr - sb.wptr ELSE sb.datalen - sb.wptr, len)
      second == IF sb.wptr < sb.rptr THEN 0 ELSE Least(sb.rptr, len - first)
  IN  IF len <= 0 THEN 0 ELSE Whole(first + second)
=============================================================================
