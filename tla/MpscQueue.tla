------------------------------ MODULE MpscQueue ------------------------------
(***************************************************************************)
(* The multi-producer ring of bt_lockfree_queue.h (BT_MPSC_PUSH,           *)
(* BT_MPSC_POP).  A producer claims a slot by advancing tail with a        *)
(* compare-and-swap and writes the item into the slot afterwards; the      *)
(* consumer takes tail as the end of what may be read.  The n-th push of   *)
(* producer p carries the item <<p, n>>, so that every item is unique.     *)
(* The weak compare-and-swap fails only if tail differs, as on x86-64, for *)
(* which the program is built; the C++ class MPSCQueue takes the same      *)
(* steps.                                                                  *)
(***************************************************************************)
EXTENDS Integers, Sequences, FiniteSets, FiniteSetsExt

CONSTANTS Cap,         \* capacity_: the number of slots (mask + 1)
          Producers,   \* threads that call BT_MPSC_PUSH
          Consumers,   \* threads that call BT_MPSC_POP
          Zero,        \* the content of a slot nothing was written to yet
          MaxPush      \* bound: pushes the producers make together

ASSUME MpscAssumption == Cap \in Nat \ {0} /\ MaxPush \in Nat

VARIABLES head, tail, buffer,   \* the shared structure
          pc, pt, n,            \* producer: its step, __t, the pushes it has made
          cpc, ch, out,         \* consumer: its step, __h, *(out)
          claims, pops,         \* history: claimed items and popped items, in order
          seen,                 \* history, per producer: the claims made when it read tail
          lapped                \* history: a push was overtaken by a lap of claims

shared == <<head, tail, buffer>>
prod == <<pc, pt, n, seen>>
hist == <<claims, pops, lapped>>
cons == <<cpc, ch, out>>
vars == <<shared, prod, cons, hist>>

Slots == 0 .. Cap - 1
ItemOf(p) == <<p, n[p] + 1>>
Items == Producers \X Nat

\* "& mask", for a capacity that is a power of two
Wrap(i) == i % Cap

Init == /\ head = 0 /\ tail = 0
        /\ buffer = [i \in Slots |-> Zero]
        /\ pc = [p \in Producers |-> "idle"]
        /\ pt = [p \in Producers |-> 0]
        /\ n = [p \in Producers |-> 0]
        /\ cpc = [c \in Consumers |-> "idle"]
        /\ ch = [c \in Consumers |-> 0]
        /\ out = [c \in Consumers |-> Zero]
        /\ claims = << >> /\ pops = << >>
        /\ seen = [p \in Producers |-> 0]
        /\ lapped = FALSE
------------------------------------------------------------------------------
(* BT_MPSC_PUSH *)

Begun == Cardinality({p \in Producers : pc[p] # "idle"})
           + MapThenSumSet(LAMBDA p : n[p], Producers)

\* top of the loop, on entry and after a lost compare-and-swap
PushLoad(p) == /\ \/ pc[p] = "idle" /\ Begun < MaxPush
                  \/ pc[p] = "retry"
               /\ pt' = [pt EXCEPT ![p] = tail]
               /\ pc' = [pc EXCEPT ![p] = "check"]
               /\ seen' = [seen EXCEPT ![p] = Len(claims)]
               /\ UNCHANGED <<shared, n, cons, hist>>

\* mutant: the full test is dropped
NoRoom_Never(p) == FALSE

NoRoom(p) == Wrap(pt[p] + 1) = head

\* the queue is full: return 0
PushFull(p) == /\ pc[p] = "check" /\ NoRoom(p)
               /\ pc' = [pc EXCEPT ![p] = "idle"]
               /\ n' = [n EXCEPT ![p] = @ + 1]
               /\ UNCHANGED <<shared, pt, seen, cons, hist>>

PushRoom(p) == /\ pc[p] = "check" /\ ~NoRoom(p)
               /\ pc' = [pc EXCEPT ![p] = "cas"]
               /\ UNCHANGED <<shared, pt, n, seen, cons, hist>>

\* mutant: tail is stored without comparing it
CasWins_Store(p) == TRUE

CasWins(p) == tail = pt[p]

\* Another claim makes it a whole lap since q, inside its push, read tail.
Overtaken(q) == pc[q] \notin {"idle", "retry"} /\ Len(claims) + 1 - seen[q] >= Cap

PushCas(p) == /\ pc[p] = "cas" /\ CasWins(p)
              /\ tail' = Wrap(pt[p] + 1)
              /\ claims' = Append(claims, ItemOf(p))
              /\ pc' = [pc EXCEPT ![p] = "write"]
              /\ lapped' = (lapped \/ \E q \in Producers : Overtaken(q))
              /\ UNCHANGED <<head, buffer, pt, n, seen, cons, pops>>

\* mutant: a lost compare-and-swap is not retried from a fresh tail
PushCasFail_Stale(p) == /\ pc[p] = "cas" /\ ~CasWins(p)
                        /\ UNCHANGED vars

PushCasFail(p) == /\ pc[p] = "cas" /\ ~CasWins(p)
                  /\ pc' = [pc EXCEPT ![p] = "retry"]
                  /\ UNCHANGED <<shared, pt, n, seen, cons, hist>>

\* mutant: the write goes to the slot of the current tail
PushWrite_AtTail(p) == /\ pc[p] = "write"
                       /\ buffer' = [buffer EXCEPT ![tail] = ItemOf(p)]
                       /\ pc' = [pc EXCEPT ![p] = "idle"]
                       /\ n' = [n EXCEPT ![p] = @ + 1]
                       /\ UNCHANGED <<head, tail, pt, seen, cons, hist>>

PushWrite(p) == /\ pc[p] = "write"
                /\ buffer' = [buffer EXCEPT ![pt[p]] = ItemOf(p)]
                /\ pc' = [pc EXCEPT ![p] = "idle"]
                /\ n' = [n EXCEPT ![p] = @ + 1]
                /\ UNCHANGED <<head, tail, pt, seen, cons, hist>>
------------------------------------------------------------------------------
(* BT_MPSC_POP *)

PopBegin(c) == /\ cpc[c] = "idle"
               /\ ch' = [ch EXCEPT ![c] = head]
               /\ cpc' = [cpc EXCEPT ![c] = "check"]
               /\ UNCHANGED <<shared, prod, out, hist>>

PopEmpty(c) == /\ cpc[c] = "check" /\ ch[c] = tail
               /\ cpc' = [cpc EXCEPT ![c] = "idle"]
               /\ UNCHANGED <<shared, prod, ch, out, hist>>

PopClaim(c) == /\ cpc[c] = "check" /\ ch[c] # tail
               /\ cpc' = [cpc EXCEPT ![c] = "read"]
               /\ UNCHANGED <<shared, prod, ch, out, hist>>

PopRead(c) == /\ cpc[c] = "read"
              /\ out' = [out EXCEPT ![c] = buffer[ch[c]]]
              /\ cpc' = [cpc EXCEPT ![c] = "store"]
              /\ UNCHANGED <<shared, prod, ch, hist>>

\* mutant: the mask is forgotten
PopStore_NoMask(c) == /\ cpc[c] = "store"
                      /\ head' = ch[c] + 1
                      /\ pops' = Append(pops, out[c])
                      /\ cpc' = [cpc EXCEPT ![c] = "idle"]
                      /\ UNCHANGED <<tail, buffer, prod, ch, out, claims, lapped>>

PopStore(c) == /\ cpc[c] = "store"
               /\ head' = Wrap(ch[c] + 1)
               /\ pops' = Append(pops, out[c])
               /\ cpc' = [cpc EXCEPT ![c] = "idle"]
               /\ UNCHANGED <<tail, buffer, prod, ch, out, claims, lapped>>
------------------------------------------------------------------------------
Push(p) == \/ PushLoad(p) \/ PushFull(p) \/ PushRoom(p)
           \/ PushCas(p) \/ PushCasFail(p) \/ PushWrite(p)

Pop(c) == PopBegin(c) \/ PopEmpty(c) \/ PopClaim(c) \/ PopRead(c) \/ PopStore(c)

Next == (\E p \in Producers : Push(p)) \/ (\E c \in Consumers : Pop(c))

Spec == Init /\ [][Next]_vars
------------------------------------------------------------------------------
Dist(a, b) == IF a <= b THEN b - a ELSE b - a + Cap

\* What the slot of the i-th claim held before: the item claimed one lap earlier.
Before(i) == IF i > Cap THEN claims[i - Cap] ELSE Zero

\* Type invariant of the ring and of the locals of the two macros.
TypeOK == /\ head \in Slots /\ tail \in Slots
          /\ buffer \in [Slots -> Items \cup {Zero}]
          /\ pc \in [Producers -> {"idle", "retry", "check", "cas", "write"}]
          /\ pt \in [Producers -> Slots]
          /\ n \in [Producers -> Nat]
          /\ cpc \in [Consumers -> {"idle", "check", "read", "store"}]
          /\ ch \in [Consumers -> Slots]
          /\ out \in [Consumers -> Items \cup {Zero}]
          /\ seen \in [Producers -> Nat] /\ lapped \in BOOLEAN
          /\ claims \in Seq(Items) /\ pops \in Seq(Items \cup {Zero})

\* head and tail stay in step with what was claimed and popped: a successful
\* compare-and-swap in BT_MPSC_PUSH claims a slot that is free ("the slot is
\* still ours"), unless a push was overtaken by a lap of claims, when tail is
\* back where the push read it.
ClaimsAreFree == \/ lapped
                 \/ /\ Len(claims) - Len(pops) \in 0 .. Cap - 1
                    /\ Dist(head, tail) = Len(claims) - Len(pops)

\* The i-th pop hands out the i-th claimed item, or what the slot held before if
\* the claimant of BT_MPSC_PUSH had not written it yet; never another item, short
\* of a push overtaken by a lap.
PopsFollowClaims == lapped \/ \A i \in 1 .. Len(pops) : pops[i] \in {claims[i], Before(i)}

\* An unread slot holds the item that claimed it as soon as its BT_MPSC_PUSH has
\* returned: short of a push overtaken by a lap, no producer writes into the slot
\* of another one.
SlotsSettle == \/ lapped
               \/ \A i \in Len(pops) + 1 .. Len(claims) :
                    \/ buffer[Wrap(i - 1)] = claims[i]
                    \/ \E p \in Producers : pc[p] = "write" /\ ItemOf(p) = claims[i]

\* What a producer inside of BT_MPSC_PUSH knows: its __t is the tail less than a lap
\* ago, past its full test there is room for it, and past its compare-and-swap the
\* claim that followed is its own.
ProducerInv(p) ==
  /\ pc[p] \in {"check", "cas", "write"} =>
       /\ pt[p] = Wrap(seen[p])
       /\ seen[p] <= Len(claims) /\ Len(claims) < seen[p] + Cap
  /\ pc[p] = "cas" => seen[p] + 1 < Len(pops) + Cap
  /\ pc[p] = "write" => seen[p] < Len(claims) /\ claims[seen[p] + 1] = ItemOf(p)

\* What the consumer inside of BT_MPSC_POP knows.
ConsumerInv(c) ==
  /\ cpc[c] # "idle" => ch[c] = head
  /\ cpc[c] \in {"read", "store"} => Len(pops) < Len(claims)
  /\ cpc[c] = "store" => out[c] \in {claims[Len(pops) + 1], Before(Len(pops) + 1)}

\* The i-th claim has not been written yet.
Pending(i) == \E p \in Producers : pc[p] = "write" /\ seen[p] = i - 1

\* What every slot holds: the last claim of it, or what it held before as long as
\* that claim is pending.
SlotsHold ==
  /\ \A i \in 1 .. Len(claims) :
       i + Cap > Len(claims) =>
         buffer[Wrap(i - 1)] = IF Pending(i) THEN Before(i) ELSE claims[i]
  /\ \A j \in Slots : j >= Len(claims) => buffer[j] = Zero

StepsInv == \/ lapped
            \/ /\ head = Wrap(Len(pops)) /\ tail = Wrap(Len(claims))
               /\ Len(pops) <= Len(claims) /\ Len(claims) < Len(pops) + Cap
               /\ \A p \in Producers : ProducerInv(p)
               /\ \A c \in Consumers : ConsumerInv(c)
               /\ SlotsHold

\* The ring is sound, short of a push overtaken by a lap: BT_MPSC_PUSH claims free
\* slots only, an unread slot keeps the item of its claimant, and pops follow the
\* order of the claims; StepsInv makes this inductive.
RingInv == TypeOK /\ ClaimsAreFree /\ SlotsSettle /\ PopsFollowClaims /\ StepsInv

\* Every call of BT_MPSC_PUSH returns: a compare-and-swap is lost only to
\* another producer's success, and the number of pushes is bounded here.
PushReturns == \A p \in Producers : pc[p] # "idle" ~> pc[p] = "idle"
==============================================================================
