---------------------------------- MODULE Logger ----------------------------------
(***************************************************************************)
(* The ring-buffer logger (utils/logger.c) as operators on its state.      *)
(* Only main logs and flushes, so a call is one step of main.  A message   *)
(* is the number of the call that passed the level test.                   *)
(***************************************************************************)
EXTENDS Integers, Sequences, Functions

CONSTANTS RingSize,    \* LOG_RING_SIZE
          LogLevel     \* log_level: 0 err, 1 warn, 2 info, 3 debug

ASSUME LoggerAssumption == RingSize \in Nat /\ RingSize > 1 /\ LogLevel \in 0 .. 3

\* log_ring, log_head, log_tail, with the number of messages so far, what was
\* written to the file and what was dropped
NoLog == [ring |-> [i \in 0 .. RingSize - 1 |-> 0], head |-> 0, tail |-> 0,
          lines |-> 0, out |-> <<>>, dropped |-> {}]

Inc(i) == (i + 1) % RingSize

\* mutant: a full ring is not noticed
Full_Never(l) == FALSE

Full(l) == Inc(l.tail) = l.head

\* bt_log: the oldest message makes room in a full ring
Logged(l, level) ==
  IF level > LogLevel THEN l
  ELSE [l EXCEPT !.head = IF Full(l) THEN Inc(@) ELSE @,
                 !.dropped = IF Full(l) THEN @ \cup {l.ring[l.head]} ELSE @,
                 !.ring[l.tail] = l.lines + 1, !.tail = Inc(@), !.lines = @ + 1]

\* the messages bt_log_flush goes through, from head to tail
Pending(l) == [k \in 1 .. (l.tail - l.head) % RingSize |-> l.ring[(l.head + k - 1) % RingSize]]

\* mutant: log_head is not advanced over what was written
Flushed_KeepHead(l) == [l EXCEPT !.out = @ \o Pending(l)]

\* bt_log_flush
Flushed(l) == [l EXCEPT !.out = @ \o Pending(l), !.head = l.tail]

\* Every message is written, waiting or was dropped to make room, in one of the
\* three places only, and those written and waiting are in their order.
LogKept(l) ==
  LET kept == l.out \o Pending(l)
  IN  /\ \A i, j \in DOMAIN kept : i < j => kept[i] < kept[j]
      /\ Range(kept) \cap l.dropped = {}
      /\ Range(kept) \cup l.dropped = 1 .. l.lines
===================================================================================
