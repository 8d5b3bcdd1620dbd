--------------------------------- MODULE GwRing ---------------------------------
(***************************************************************************)
(* The byte rings of a connection (net/gateway.c): an array of cap cells,  *)
(* a head and a tail.  cap is mask + 1, a power of two in the code, where  *)
(* "& mask" is the remainder.                                              *)
(***************************************************************************)
EXTENDS Integers, Sequences

RingIndices(cap) == 0 .. cap - 1

\* gw_ring_readable, gw_ring_writable and gw_ring_advance
RingReadable(cap, head, tail) == IF tail >= head THEN tail - head ELSE cap - head + tail
RingWritable(cap, head, tail) == cap - 1 - RingReadable(cap, head, tail)
RingAdvance(cap, cursor, delta) == (cursor + delta) % cap

\* gw_ring_peek: one memcpy up to the end of the array, one from its beginning
RingPeek(cap, buf, head, off, len) ==
  LET pos == (head + off) % cap
      first == cap - pos
  IN  [i \in 1 .. len |-> IF i <= first THEN buf[pos + i - 1] ELSE buf[i - first - 1]]

Least(a, b) == IF a < b THEN a ELSE b

\* the read() of gw_thread_core: how much it asks for, and what n bytes leave behind
ReadLimit(cap, head, tail) == Least(cap - tail, RingWritable(cap, head, tail))
RingRead(buf, tail, bytes) ==
  [j \in DOMAIN buf |-> IF j \in tail .. tail + Len(bytes) - 1 THEN bytes[j - tail + 1] ELSE buf[j]]

\* the loops of gw_send_to_conn: byte i goes to (tail + i) & mask
RingPut(cap, buf, tail, bytes) ==
  [j \in DOMAIN buf |-> LET i == (j + cap - tail) % cap
                        IN  IF i < Len(bytes) THEN bytes[i + 1] ELSE buf[j]]

\* the send() of gw_flush_send: how much it offers, and the first n bytes of it
SendLimit(cap, head, tail) == Least(cap - head, RingReadable(cap, head, tail))
RingSent(buf, head, n) == [i \in 1 .. n |-> buf[head + i - 1]]

\* the bytes from head to tail, oldest first
RingContents(cap, buf, head, tail) ==
  [i \in 1 .. RingReadable(cap, head, tail) |-> buf[(head + i - 1) % cap]]
================================================================================
