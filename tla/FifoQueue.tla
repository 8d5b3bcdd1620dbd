------------------------------ MODULE FifoQueue ------------------------------
(***************************************************************************)
(* What every queue of the broker promises: a bounded FIFO of items with   *)
(* one side that puts and one side that takes.  `got` is the item that the *)
(* last successful take handed to its caller.  The ring buffers of         *)
(* bt_lockfree_queue.h are compared with this specification.               *)
(***************************************************************************)
EXTENDS Naturals, Sequences

CONSTANTS Items,   \* what may be queued
          Zero,    \* the content of a variable nothing was stored in yet
          Bound    \* the largest number of queued items

VARIABLES queue, got

fifoVars == <<queue, got>>

Init == queue = << >> /\ got = Zero

Put(x) == /\ Len(queue) < Bound
          /\ queue' = Append(queue, x)
          /\ UNCHANGED got

Take == /\ queue # << >>
        /\ got' = Head(queue)
        /\ queue' = Tail(queue)

Next == (\E x \in Items : Put(x)) \/ Take

Spec == Init /\ [][Next]_fifoVars
==============================================================================
