-------------------------------- MODULE Mbuf --------------------------------
(***************************************************************************)
(* libslirp's packet buffers (mbuf.c): a pool with a free list, and what   *)
(* the functions do to the geometry of one buffer.  The bytes themselves   *)
(* are the business of the modules that hold mbufs.                        *)
(*                                                                         *)
(* pool.alloced is mbuf_alloced, pool.free the length of m_freelist.       *)
(* Buffers made beyond MBUF_THRESH carry M_DOFREE and go back to the heap. *)
(***************************************************************************)
EXTENDS Integers, Sequences

CONSTANTS MBUF_THRESH, \* 30 in the code
          MSize        \* SLIRP_MSIZE less the header: room of a plain mbuf

ASSUME MbufAssumption == MBUF_THRESH \in Nat /\ MSize \in Nat \ {0}

Pools == [alloced : Nat, free : Nat]
m_init == [alloced |-> 0, free |-> 0]

\* whether the mbuf that m_get hands out now will be M_DOFREE
DoFree(pool) == pool.free = 0 /\ pool.alloced + 1 > MBUF_THRESH

m_get(pool) ==
  IF pool.free = 0 THEN [pool EXCEPT !.alloced = @ + 1]
                   ELSE [pool EXCEPT !.free = @ - 1]

\* m_free of mbufs of which d are M_DOFREE and k are not
m_freeAll(pool, d, k) == [alloced |-> pool.alloced - d, free |-> pool.free + k]
m_free(pool, dofree) == IF dofree THEN m_freeAll(pool, 1, 0) ELSE m_freeAll(pool, 0, 1)

-----------------------------------------------------------------------------
(* The geometry: off is m_data - m_dat, or m_data - m_ext.                  *)

NewMbuf == [size |-> MSize, off |-> 0, len |-> 0, ext |-> FALSE]
M_ROOM(m) == m.size - m.off
M_FREEROOM(m) == M_ROOM(m) - m.len

m_inc(m, size) ==
  IF M_ROOM(m) > size THEN m ELSE [m EXCEPT !.size = size + m.off, !.ext = TRUE]

m_adj(m, n) ==
  IF n >= 0 THEN [m EXCEPT !.off = @ + n, !.len = @ - n] ELSE [m EXCEPT !.len = @ + n]

m_cat(m, n) ==
  LET room == IF M_FREEROOM(m) < n.len THEN m_inc(m, m.len + n.len) ELSE m
  IN  [room EXCEPT !.len = @ + n.len]

\* m_copy appends n bytes, or refuses
m_copyFits(m, n) == n <= M_FREEROOM(m)
m_copy(m, n) == [m EXCEPT !.len = @ + n]
\* nothing is written beyond the end
InBounds(m) == m.off >= 0 /\ m.len >= 0 /\ m.off + m.len <= m.size
=============================================================================
