------------------------------ MODULE SpscQueue ------------------------------
(***************************************************************************)
(* The single-producer single-consumer ring of bt_lockfree_queue.h         *)
(* (BT_SPSC_PUSH, BT_SPSC_POP): one slot is kept free so that head = tail  *)
(* means empty.  Every load and store of a shared location is a step of    *)
(* its own.  The acquire/release pairs on head and tail order the plain    *)
(* accesses to buffer, and each index is stored by one thread only, so an  *)
(* interleaving of the steps is all that the memory model allows.          *)
(***************************************************************************)
EXTENDS Integers, Sequences

CONSTANTS Cap,     \* capacity_: the number of slots (mask + 1)
          Items,   \* the values that are pushed
          Zero     \* the content of a slot nothing was written to yet

ASSUME CapAssumption == Cap \in Nat \ {0}

VARIABLES head, tail, buffer,    \* the shared structure
          ppc, ph, pt, item,     \* producer: its step, __h, __t and its argument
          cpc, ch, out, got      \* consumer: its step, __h, *(out), the last pop's result

shared == <<head, tail, buffer>>
prod == <<ppc, ph, pt, item>>
cons == <<cpc, ch, out, got>>
spscVars == <<shared, prod, cons>>

Slots == 0 .. Cap - 1

\* "& mask", for a capacity that is a power of two
Wrap(i) == i % Cap

SpscInit == /\ head = 0 /\ tail = 0
            /\ buffer = [i \in Slots |-> Zero]
            /\ ppc = "idle" /\ ph = 0 /\ pt = 0 /\ item = Zero
            /\ cpc = "idle" /\ ch = 0 /\ out = Zero /\ got = Zero
------------------------------------------------------------------------------
(* BT_SPSC_PUSH *)

PushBegin(x) == /\ ppc = "idle"
                /\ item' = x
                /\ ph' = head
                /\ ppc' = "check"
                /\ UNCHANGED <<shared, pt, cons>>

\* mutant: the full test is dropped
RoomSeen_Always == TRUE

\* the full test of the push, with the head that was loaded before
RoomSeen == Wrap(tail + 1) # ph

PushFull == /\ ppc = "check"
            /\ ~RoomSeen
            /\ ppc' = "idle"
            /\ UNCHANGED <<shared, ph, pt, item, cons>>

\* mutant: the new tail is published before the item is written
PushClaim_Early == /\ ppc = "check"
                   /\ RoomSeen
                   /\ pt' = tail
                   /\ tail' = Wrap(tail + 1)
                   /\ ppc' = "write"
                   /\ UNCHANGED <<head, buffer, ph, item, cons>>

PushClaim == /\ ppc = "check"
             /\ RoomSeen
             /\ pt' = tail
             /\ ppc' = "write"
             /\ UNCHANGED <<shared, ph, item, cons>>

PushWrite == /\ ppc = "write"
             /\ buffer' = [buffer EXCEPT ![pt] = item]
             /\ ppc' = "store"
             /\ UNCHANGED <<head, tail, ph, pt, item, cons>>

PushStore == /\ ppc = "store"
             /\ tail' = Wrap(pt + 1)
             /\ ppc' = "idle"
             /\ UNCHANGED <<head, buffer, ph, pt, item, cons>>
------------------------------------------------------------------------------
(* BT_SPSC_POP *)

PopBegin == /\ cpc = "idle"
            /\ ch' = head
            /\ cpc' = "check"
            /\ UNCHANGED <<shared, out, got, prod>>

\* mutant: the test wants two items
ItemSeen_Two == tail \notin {ch, Wrap(ch + 1)}

\* the test of the pop that there is something to read
ItemSeen == ch # tail

PopEmpty == /\ cpc = "check"
            /\ ~ItemSeen
            /\ cpc' = "idle"
            /\ UNCHANGED <<shared, ch, out, got, prod>>

PopClaim == /\ cpc = "check"
            /\ ItemSeen
            /\ cpc' = "read"
            /\ UNCHANGED <<shared, ch, out, got, prod>>

PopRead == /\ cpc = "read"
           /\ out' = buffer[ch]
           /\ cpc' = "store"
           /\ UNCHANGED <<shared, ch, got, prod>>

PopStore == /\ cpc = "store"
            /\ head' = Wrap(ch + 1)
            /\ got' = out
            /\ cpc' = "idle"
            /\ UNCHANGED <<tail, buffer, ch, out, prod>>
------------------------------------------------------------------------------
Producer == \/ \E x \in Items : PushBegin(x)
            \/ PushFull \/ PushClaim \/ PushWrite \/ PushStore

Consumer == PopBegin \/ PopEmpty \/ PopClaim \/ PopRead \/ PopStore

SpscNext == Producer \/ Consumer

SpscSpec == SpscInit /\ [][SpscNext]_spscVars

\* Every consumer of the broker polls its queue in a loop until it is stopped.
FairSpscSpec == SpscSpec /\ WF_spscVars(Consumer)
------------------------------------------------------------------------------
(* The number of items between two indices, and the items between head and *)
(* tail, oldest first: what the ring stands for.                           *)

Dist(a, b) == IF a <= b THEN b - a ELSE b - a + Cap

Contents == [i \in 1 .. Dist(head, tail) |-> buffer[Wrap(head + i - 1)]]

\* Type invariant of the ring and of the locals of the two macros.
SpscTypeOK == /\ head \in Slots /\ tail \in Slots
              /\ buffer \in [Slots -> Items \cup {Zero}]
              /\ ppc \in {"idle", "check", "write", "store"}
              /\ ph \in Slots /\ pt \in Slots /\ item \in Items \cup {Zero}
              /\ cpc \in {"idle", "check", "read", "store"}
              /\ ch \in Slots /\ out \in Items \cup {Zero} /\ got \in Items \cup {Zero}

\* What the locals of the two macros still say about the shared indices while
\* the other thread moves on: a stale head lies behind the current one, so the
\* room that BT_SPSC_PUSH saw is still there, and the item that BT_SPSC_POP saw
\* is still at head.  Inductive together with SpscTypeOK.
RingInv == /\ ppc # "idle" => item \in Items /\ Dist(ph, head) <= Dist(ph, tail)
           /\ ppc \in {"write", "store"} => pt = tail /\ Wrap(tail + 1) # ph
           /\ ppc = "store" => buffer[pt] = item
           /\ cpc # "idle" => ch = head
           /\ cpc \in {"read", "store"} => head # tail
           /\ cpc = "store" => out = buffer[ch]

\* BT_SPSC_PUSH never writes the slot that BT_SPSC_POP is copying: the plain
\* accesses to buffer[] are free of data races, although the full test uses a
\* head that may be stale by the time of the write.
NoSlotRace == ~(ppc = "write" /\ cpc \in {"read", "store"} /\ pt = ch)

Fifo == INSTANCE FifoQueue WITH queue <- Contents, got <- got, Bound <- Cap - 1

\* The ring implements the bounded FIFO with room for Cap - 1 items: nothing is
\* lost, duplicated, reordered or read before it was written, in any
\* interleaving of BT_SPSC_PUSH and BT_SPSC_POP.
FifoSpec == Fifo!Spec

\* A polling consumer gets past every queued item: BT_SPSC_POP never keeps
\* answering "empty" while something is between head and tail.
Drains == \A i \in Slots : (head = i /\ tail # i) ~> (head # i)
==============================================================================
