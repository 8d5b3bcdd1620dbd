---------------------------- MODULE MpscQueueProofs ----------------------------
(***************************************************************************)
(* With one consumer the ring of BT_MPSC_PUSH and BT_MPSC_POP is sound     *)
(* until a push is overtaken by a lap of claims, for every capacity and    *)
(* any number of producers.  The indices are followed modulo Cap by what   *)
(* was claimed and popped in all.                                          *)
(* The benchmark, as a producer of the queue, takes no step that another   *)
(* producer could not take, so the ring stays as sound, and the counts it  *)
(* prints are true of what was claimed in the queue.                       *)
(***************************************************************************)
EXTENDS Benchmark, SequenceFacts, TLAPS

OneConsumer == \A a, b \in Consumers : a = b

\* The quotient and the remainder are the only ones.
LEMMA Division ==
  ASSUME NEW E \in Nat, E > 0, NEW a \in Nat, NEW q \in Nat, q * E <= a, a < q * E + E
  PROVE  a % E = a - q * E
<1>1. a = E * (a \div E) + (a % E) /\ a % E \in 0 .. E - 1 /\ a \div E \in Nat
  OBVIOUS
<1> DEFINE d == a \div E
<1>2. d \in Nat /\ d * E <= a /\ a < d * E + E
  BY <1>1
<1> HIDE DEF d
<1>3. ~(d < q)
  <2> SUFFICES ASSUME d + 1 <= q PROVE FALSE
    BY <1>2
  <2>1. (d + 1) * E <= q * E
    BY <1>2
  <2> QED
    BY <1>2, <2>1
<1>4. ~(q < d)
  <2> SUFFICES ASSUME q + 1 <= d PROVE FALSE
    BY <1>2
  <2>1. (q + 1) * E <= d * E
    BY <1>2
  <2> QED
    BY <1>2, <2>1
<1>5. d = q
  BY <1>2, <1>3, <1>4
<1> QED
  BY <1>1, <1>5 DEF d

\* "& mask" of an index, and of one at most a lap further on.
LEMMA WrapAdd ==
  ASSUME NEW a \in Nat, NEW d \in 0 .. Cap
  PROVE  /\ Wrap(a) \in Slots
         /\ Wrap(a + d) = IF Wrap(a) + d < Cap THEN Wrap(a) + d ELSE Wrap(a) + d - Cap
<1> DEFINE q == a \div Cap
           w == Wrap(a)
<1>1. Cap \in Nat /\ Cap > 0
  BY MpscAssumption
<1>2. q \in Nat /\ w \in 0 .. Cap - 1 /\ a = q * Cap + w
  BY <1>1 DEF Wrap
<1> HIDE DEF q, w
<1>3. CASE w + d < Cap
  <2>1. (a + d) % Cap = (a + d) - q * Cap
    BY <1>1, <1>2, <1>3, Division
  <2> QED
    BY <1>1, <1>2, <1>3, <2>1 DEF Wrap, Slots, w
<1>4. CASE w + d >= Cap
  <2>1. (q + 1) * Cap = q * Cap + Cap /\ q * Cap \in Nat
    BY <1>1, <1>2
  <2>2. (q + 1) * Cap <= a + d /\ a + d < (q + 1) * Cap + Cap
    BY <1>1, <1>2, <1>4, <2>1
  <2>3. (a + d) % Cap = (a + d) - (q + 1) * Cap
    <3> DEFINE b == a + d
               k == q + 1
    <3>1. b \in Nat /\ k \in Nat /\ k * Cap <= b /\ b < k * Cap + Cap
      BY <1>1, <1>2, <2>2
    <3> HIDE DEF b, k
    <3>2. b % Cap = b - k * Cap
      BY <1>1, <3>1, Division, Zenon
    <3> QED
      BY <3>2 DEF b, k
  <2>4. (a + d) % Cap = w + d - Cap
    BY <1>1, <1>2, <2>1, <2>3
  <2> QED
    BY <1>1, <1>2, <1>4, <2>4 DEF Wrap, Slots, w
<1> QED
  BY <1>1, <1>2, <1>3, <1>4

\* Two indices less than a lap apart have different slots.
LEMMA WrapApart ==
  ASSUME NEW a \in Nat, NEW b \in Nat, a <= b, b < a + Cap, Wrap(a) = Wrap(b)
  PROVE  a = b
<1> DEFINE d == b - a
<1>1. Cap \in Nat /\ Cap > 0 /\ d \in 0 .. Cap /\ d < Cap /\ b = a + d
  BY MpscAssumption
<1> HIDE DEF d
<1>2. /\ Wrap(a) \in 0 .. Cap - 1
      /\ Wrap(b) = IF Wrap(a) + d < Cap THEN Wrap(a) + d ELSE Wrap(a) + d - Cap
  BY <1>1, WrapAdd DEF Slots
<1>3. d = 0
  BY <1>1, <1>2
<1> QED
  BY <1>1, <1>3

\* The slot behind a slot.
LEMMA WrapNext ==
  ASSUME NEW a \in Nat
  PROVE  Wrap(Wrap(a) + 1) = Wrap(a + 1) /\ Wrap(a) \in Slots /\ Wrap(a + Cap) = Wrap(a)
<1>1. Cap \in Nat /\ Cap > 0 /\ 1 \in 0 .. Cap /\ Cap \in 0 .. Cap
  BY MpscAssumption
<1> DEFINE w == Wrap(a)
<1>2. /\ w \in 0 .. Cap - 1
      /\ Wrap(a + 1) = IF w + 1 < Cap THEN w + 1 ELSE w + 1 - Cap
  BY <1>1, WrapAdd DEF Slots
<1>3. Wrap(a + Cap) = IF w + Cap < Cap THEN w + Cap ELSE w + Cap - Cap
  BY <1>1, WrapAdd
<1> HIDE DEF w
<1>4. w % Cap = w
  BY <1>1, <1>2
<1>5. /\ Wrap(w) = w
      /\ Wrap(w + 1) = IF Wrap(w) + 1 < Cap THEN Wrap(w) + 1 ELSE Wrap(w) + 1 - Cap
  <2>1. w \in Nat
    BY <1>2
  <2> QED
    BY <1>1, <1>4, <2>1, WrapAdd DEF Wrap
<1>6. Wrap(w + 1) = Wrap(a + 1)
  BY <1>2, <1>5
<1>7. Wrap(a + Cap) = w
  BY <1>1, <1>2, <1>3
<1> QED
  BY <1>2, <1>6, <1>7 DEF w, Slots

\* The mask keeps the next index inside the array.
LEMMA WrapInSlots == \A i \in Slots : i \in Nat /\ Wrap(i + 1) \in Slots
BY MpscAssumption DEF Wrap, Slots

\* Before the first lap a slot has the number of its claim.
LEMMA WrapFirst ==
  ASSUME NEW a \in Nat, a < Cap
  PROVE  Wrap(a) = a
BY MpscAssumption DEF Wrap

\* The distance between two masked indices less than a lap apart is the real one.
LEMMA DistWrap ==
  ASSUME NEW a \in Nat, NEW b \in Nat, a <= b, b < a + Cap
  PROVE  Dist(Wrap(a), Wrap(b)) = b - a
<1> DEFINE d == b - a
<1>1. Cap \in Nat /\ Cap > 0 /\ d \in 0 .. Cap /\ d < Cap /\ b = a + d
  BY MpscAssumption
<1> HIDE DEF d
<1>2. /\ Wrap(a) \in 0 .. Cap - 1
      /\ Wrap(b) = IF Wrap(a) + d < Cap THEN Wrap(a) + d ELSE Wrap(a) + d - Cap
  BY <1>1, WrapAdd DEF Slots
<1>3. Dist(Wrap(a), Wrap(b)) = d
  BY <1>1, <1>2 DEF Dist
<1> QED
  BY <1>3 DEF d

--------------------------------------------------------------------------------
\* The indices, slots, locals and histories keep their types.
LEMMA TypeStep == TypeOK /\ [Next]_vars => TypeOK'
<1> SUFFICES ASSUME TypeOK, [Next]_vars PROVE TypeOK'
  OBVIOUS
<1> USE DEF TypeOK, shared, prod, hist, cons
<1>1. ASSUME NEW p \in Producers, Push(p) PROVE TypeOK'
  <2>1. ItemOf(p) \in Items
    BY DEF ItemOf, Items
  <2>2. \A i \in Slots : i \in Nat /\ Wrap(i + 1) \in Slots
    BY WrapInSlots
  <2>3. CASE PushLoad(p)
    BY <2>3 DEF PushLoad
  <2>4. CASE PushFull(p)
    BY <2>4 DEF PushFull
  <2>5. CASE PushRoom(p)
    BY <2>5 DEF PushRoom
  <2>6. CASE PushCas(p)
    <3>1. claims' \in Seq(Items)
      BY <2>1, <2>6 DEF PushCas
    <3>2. tail' \in Slots
      BY <2>2, <2>6 DEF PushCas
    <3>3. lapped' \in BOOLEAN
      BY <2>6, Zenon DEF PushCas
    <3> QED
      BY <2>6, <3>1, <3>2, <3>3 DEF PushCas
  <2>7. CASE PushCasFail(p)
    BY <2>7 DEF PushCasFail
  <2>8. CASE PushWrite(p)
    BY <2>1, <2>8 DEF PushWrite
  <2> QED
    BY <1>1, <2>3, <2>4, <2>5, <2>6, <2>7, <2>8 DEF Push
<1>2. ASSUME NEW c \in Consumers, Pop(c) PROVE TypeOK'
  <2>1. \A i \in Slots : i \in Nat /\ Wrap(i + 1) \in Slots
    BY WrapInSlots
  <2>2. CASE PopBegin(c)
    BY <2>2 DEF PopBegin
  <2>3. CASE PopEmpty(c)
    BY <2>3 DEF PopEmpty
  <2>4. CASE PopClaim(c)
    BY <2>4 DEF PopClaim
  <2>5. CASE PopRead(c)
    BY <2>5 DEF PopRead
  <2>6. CASE PopStore(c)
    <3>1. pops' \in Seq(Items \cup {Zero})
      BY <2>6 DEF PopStore
    <3>2. head' \in Slots
      BY <2>1, <2>6 DEF PopStore
    <3> QED
      BY <2>6, <3>1, <3>2 DEF PopStore
  <2> QED
    BY <1>2, <2>2, <2>3, <2>4, <2>5, <2>6 DEF Pop
<1>3. CASE UNCHANGED vars
  BY <1>3 DEF vars
<1> QED
  BY <1>1, <1>2, <1>3 DEF Next

--------------------------------------------------------------------------------
\* StepsInv short of a lap
Sound == /\ head = Wrap(Len(pops)) /\ tail = Wrap(Len(claims))
         /\ Len(pops) <= Len(claims) /\ Len(claims) < Len(pops) + Cap
         /\ \A p \in Producers : ProducerInv(p)
         /\ \A c \in Consumers : ConsumerInv(c)
         /\ SlotsHold

\* The first slot to be claimed holds what it held a lap earlier: no push that
\* claimed it then is still pending.
LEMMA NextSlot ==
  ASSUME TypeOK, Sound
  PROVE  buffer[Wrap(Len(claims))] = Before(Len(claims) + 1)
<1> DEFINE L == Len(claims)
<1>1. L \in Nat /\ Cap \in Nat /\ Cap > 0
  BY MpscAssumption DEF TypeOK
<1>2. CASE L < Cap
  <2>1. Wrap(L) = L /\ L \in Slots
    BY <1>1, <1>2, WrapFirst DEF Slots
  <2>2. buffer[L] = Zero
    BY <1>1, <2>1 DEF Sound, SlotsHold
  <2> QED
    BY <1>1, <1>2, <2>1, <2>2 DEF Before
<1>3. CASE L >= Cap
  <2> DEFINE i == L + 1 - Cap
  <2>1. i \in 1 .. L /\ i + Cap > L /\ i - 1 \in Nat /\ (i - 1) + Cap = L
    BY <1>1, <1>3
  <2>2. Wrap(i - 1) = Wrap(L)
    <3> DEFINE k == i - 1
    <3>1. k \in Nat /\ k + Cap = L
      BY <2>1
    <3> HIDE DEF k
    <3>2. Wrap(k + Cap) = Wrap(k)
      BY <3>1, WrapNext
    <3> QED
      BY <3>1, <3>2 DEF k
  <2>3. ~ Pending(i)
    <3> SUFFICES ASSUME NEW p \in Producers, pc[p] = "write", seen[p] = i - 1 PROVE FALSE
      BY DEF Pending
    <3>1. L < seen[p] + Cap
      BY DEF Sound, ProducerInv
    <3> QED
      BY <1>1, <2>1, <3>1
  <2>4. buffer[Wrap(i - 1)] = claims[i]
    BY <2>1, <2>3 DEF Sound, SlotsHold
  <2>5. Before(L + 1) = claims[i]
    BY <1>1, <1>3 DEF Before
  <2> QED
    BY <2>2, <2>4, <2>5
<1> QED
  BY <1>1, <1>2, <1>3

\* A step of a producer that leaves the shared structure, the histories and the
\* pending pushes alone.
LEMMA PushQuiet ==
  ASSUME TypeOK, Sound, NEW p \in Producers,
         UNCHANGED <<shared, cons, hist>>,
         \A q \in Producers \ {p} : UNCHANGED <<pc[q], pt[q], n[q], seen[q]>>,
         pc[p] # "write", pc'[p] # "write", ProducerInv(p)'
  PROVE  Sound'
<1>1. UNCHANGED <<head, tail, buffer, claims, pops, cpc, ch, out>>
  BY DEF shared, cons, hist
<1>2. ASSUME NEW q \in Producers PROVE ProducerInv(q)'
  <2>1. CASE q = p
    BY <2>1
  <2>2. CASE q # p
    <3>1. UNCHANGED <<pc[q], pt[q], n[q], seen[q]>>
      BY <2>2
    <3>2. ProducerInv(q)
      BY DEF Sound
    <3> QED
      BY <1>1, <3>1, <3>2 DEF ProducerInv, ItemOf
  <2> QED
    BY <2>1, <2>2
<1>3. ASSUME NEW c \in Consumers PROVE ConsumerInv(c)'
  BY <1>1 DEF Sound, ConsumerInv, Before
<1>4. ASSUME NEW i PROVE Pending(i)' <=> Pending(i)
  <2>1. \A q \in Producers : /\ pc'[q] = "write" <=> pc[q] = "write"
                             /\ pc[q] = "write" => seen'[q] = seen[q]
    OBVIOUS
  <2> QED
    BY <2>1 DEF Pending
<1>5. SlotsHold'
  BY <1>1, <1>4 DEF Sound, SlotsHold, Before
<1> QED
  BY <1>1, <1>2, <1>3, <1>5 DEF Sound

\* A step of the consumer that leaves the shared structure and the histories alone.
LEMMA PopQuiet ==
  ASSUME TypeOK, Sound, OneConsumer, NEW c \in Consumers,
         UNCHANGED <<shared, prod, hist>>, ConsumerInv(c)'
  PROVE  Sound'
<1>1. UNCHANGED <<head, tail, buffer, claims, pops, pc, pt, n, seen>>
  BY DEF shared, prod, hist
<1>2. ASSUME NEW p \in Producers PROVE ProducerInv(p)'
  BY <1>1 DEF Sound, ProducerInv, ItemOf
<1>3. ASSUME NEW d \in Consumers PROVE ConsumerInv(d)'
  BY DEF OneConsumer
<1>4. SlotsHold'
  BY <1>1 DEF Sound, SlotsHold, Before, Pending
<1> QED
  BY <1>1, <1>2, <1>3, <1>4 DEF Sound

--------------------------------------------------------------------------------
\* The steps of BT_MPSC_PUSH that only look.
LEMMA PushLooks ==
  ASSUME TypeOK, Sound, NEW p \in Producers,
         PushLoad(p) \/ PushFull(p) \/ PushRoom(p) \/ PushCasFail(p)
  PROVE  Sound'
<1> USE DEF shared, cons, hist
<1>0. /\ Len(claims) \in Nat /\ Len(pops) \in Nat /\ Cap \in Nat /\ Cap > 0
      /\ seen[p] \in Nat
  BY MpscAssumption DEF TypeOK
<1>1. CASE PushLoad(p)
  <2>1. /\ pc[p] # "write" /\ pc'[p] = "check" /\ pt'[p] = tail /\ seen'[p] = Len(claims)
        /\ claims' = claims
        /\ \A q \in Producers \ {p} : UNCHANGED <<pc[q], pt[q], n[q], seen[q]>>
    BY <1>1 DEF PushLoad, TypeOK
  <2>2. ProducerInv(p)'
    BY <1>0, <2>1 DEF Sound, ProducerInv
  <2> QED
    BY <1>1, <2>1, <2>2, PushQuiet DEF PushLoad
<1>2. CASE PushFull(p)
  <2>1. /\ pc[p] = "check" /\ pc'[p] = "idle"
        /\ \A q \in Producers \ {p} : UNCHANGED <<pc[q], pt[q], n[q], seen[q]>>
    BY <1>2 DEF PushFull, TypeOK
  <2>2. ProducerInv(p)'
    BY <2>1 DEF ProducerInv
  <2> QED
    BY <1>2, <2>1, <2>2, PushQuiet DEF PushFull
<1>3. CASE PushRoom(p)
  <2>1. /\ pc[p] = "check" /\ pc'[p] = "cas" /\ UNCHANGED <<pt, seen, claims, pops>>
        /\ \A q \in Producers \ {p} : UNCHANGED <<pc[q], pt[q], n[q], seen[q]>>
    BY <1>3 DEF PushRoom, TypeOK
  <2>2. /\ pt[p] = Wrap(seen[p]) /\ seen[p] <= Len(claims) /\ Len(claims) < seen[p] + Cap
        /\ Len(claims) < Len(pops) + Cap
    BY <2>1 DEF Sound, ProducerInv
  <2>3. Wrap(seen[p] + 1) # Wrap(Len(pops))
    <3>1. Wrap(pt[p] + 1) # head
      BY <1>3 DEF PushRoom, NoRoom
    <3>2. Wrap(pt[p] + 1) = Wrap(seen[p] + 1)
      BY <1>0, <2>2, WrapNext
    <3> QED
      BY <3>1, <3>2 DEF Sound
  <2>4. seen[p] + 1 # Len(pops) + Cap
    <3>1. Wrap(Len(pops) + Cap) = Wrap(Len(pops))
      BY <1>0, WrapNext
    <3> QED
      BY <2>3, <3>1
  <2>5. seen[p] + 1 < Len(pops) + Cap
    BY <1>0, <2>2, <2>4
  <2>6. ProducerInv(p)'
    BY <2>1, <2>2, <2>5 DEF ProducerInv
  <2> QED
    BY <1>3, <2>1, <2>6, PushQuiet, Zenon DEF PushRoom
<1>4. CASE PushCasFail(p)
  <2>1. /\ pc[p] = "cas" /\ pc'[p] = "retry"
        /\ \A q \in Producers \ {p} : UNCHANGED <<pc[q], pt[q], n[q], seen[q]>>
    BY <1>4 DEF PushCasFail, TypeOK
  <2>2. ProducerInv(p)'
    BY <2>1, Zenon DEF ProducerInv
  <2> QED
    BY <1>4, <2>1, <2>2, PushQuiet, Zenon DEF PushCasFail
<1> QED
  BY <1>1, <1>2, <1>3, <1>4

\* The compare-and-swap succeeds only if nothing was claimed since tail was read,
\* short of a lap; the slot it claims is then free.
LEMMA CasClaims ==
  ASSUME TypeOK, Sound, NEW p \in Producers, PushCas(p)
  PROVE  seen[p] = Len(claims) /\ Len(claims) + 1 < Len(pops) + Cap
<1>1. /\ Len(claims) \in Nat /\ Len(pops) \in Nat /\ Cap \in Nat /\ seen[p] \in Nat
  BY MpscAssumption DEF TypeOK
<1>2. pc[p] = "cas" /\ tail = pt[p]
  BY DEF PushCas, CasWins
<1>3. /\ pt[p] = Wrap(seen[p]) /\ seen[p] <= Len(claims) /\ Len(claims) < seen[p] + Cap
      /\ seen[p] + 1 < Len(pops) + Cap
  BY <1>2 DEF Sound, ProducerInv
<1>4. Wrap(seen[p]) = Wrap(Len(claims))
  BY <1>2, <1>3 DEF Sound
<1>5. seen[p] = Len(claims)
  BY <1>1, <1>3, <1>4, WrapApart
<1> QED
  BY <1>3, <1>5

\* A successful compare-and-swap keeps the ring sound, unless it completes a lap
\* past a push.
LEMMA CasSound ==
  ASSUME TypeOK, Sound, NEW p \in Producers, PushCas(p), ~lapped'
  PROVE  Sound'
<1> DEFINE L == Len(claims)
<1>1. /\ L \in Nat /\ Len(pops) \in Nat /\ Cap \in Nat /\ Cap > 0 /\ claims \in Seq(Items)
      /\ \A q \in Producers : seen[q] \in Nat
  BY MpscAssumption DEF TypeOK
<1>2. seen[p] = L /\ L + 1 < Len(pops) + Cap /\ pt[p] = Wrap(L) /\ pc[p] = "cas"
  BY CasClaims, Zenon DEF PushCas, Sound, ProducerInv
<1>3. /\ pc'[p] = "write" /\ \A q \in Producers \ {p} : pc'[q] = pc[q]
      /\ UNCHANGED <<head, buffer, pt, n, seen, cpc, ch, out, pops>>
      /\ tail' = Wrap(pt[p] + 1) /\ claims' = Append(claims, ItemOf(p))
      /\ \A q \in Producers : ~ Overtaken(q)
  BY Zenon DEF PushCas, TypeOK, cons
<1>4. /\ Len(claims') = L + 1 /\ claims'[L + 1] = ItemOf(p)
      /\ \A i \in 1 .. L : claims'[i] = claims[i]
  <2>1. ItemOf(p) \in Items
    BY DEF ItemOf, Items, TypeOK
  <2>2. /\ Len(Append(claims, ItemOf(p))) = L + 1 /\ Append(claims, ItemOf(p))[L + 1] = ItemOf(p)
        /\ \A i \in 1 .. L : Append(claims, ItemOf(p))[i] = claims[i]
    <3>1. claims \in Seq(Items)
      BY <1>1
    <3> QED
      BY <2>1, <3>1, SeqAppend
  <2> QED
    BY <1>3, <2>2, Zenon
<1>5. \A i \in 1 .. L + 1 : Before(i)' = Before(i)
  <2>1. ASSUME NEW i \in 1 .. L + 1, i > Cap PROVE i - Cap \in 1 .. L
    BY <1>1, <2>1
  <2> QED
    BY <1>4, <2>1 DEF Before
<1>6. ASSUME NEW q \in Producers PROVE ProducerInv(q)'
  <2>1. CASE q = p
    BY <1>1, <1>2, <1>3, <1>4, <2>1 DEF ProducerInv, ItemOf, Sound
  <2>2. CASE q # p
    <3>1. pc'[q] = pc[q] /\ ProducerInv(q)
      BY <1>3, <2>2 DEF Sound
    <3>2. pc[q] \in {"check", "cas", "write"} => L + 1 < seen[q] + Cap
      BY <1>1, <1>3 DEF Overtaken
    <3>3. pc[q] = "write" => seen[q] + 1 \in 1 .. L
      BY <1>1, <3>1 DEF ProducerInv
    <3> QED
      BY <1>1, <1>3, <1>4, <3>1, <3>2, <3>3 DEF ProducerInv, ItemOf
  <2> QED
    BY <2>1, <2>2
<1>7. ASSUME NEW c \in Consumers PROVE ConsumerInv(c)'
  <2>1. ConsumerInv(c)
    BY DEF Sound
  <2>2. Len(pops) < L => Len(pops) + 1 \in 1 .. L /\ Len(pops) + 1 \in 1 .. L + 1
    BY <1>1
  <2>3. cpc[c] # "idle" => ch'[c] = head'
    BY <1>3, <2>1, Zenon DEF ConsumerInv
  <2>4. cpc[c] \in {"read", "store"} => Len(pops) < L
    BY <2>1, Zenon DEF ConsumerInv
  <2>5. Len(pops) < L => Len(pops') < Len(claims')
    <3>1. Len(pops) < L => Len(pops) < L + 1
      BY <1>1
    <3> QED
      BY <1>3, <1>4, <3>1, Zenon
  <2>6. Len(pops) < L => /\ claims'[Len(pops) + 1] = claims[Len(pops) + 1]
                         /\ Before(Len(pops) + 1)' = Before(Len(pops) + 1)
    BY <1>3, <1>4, <1>5, <2>2, Zenon
  <2>7. cpc[c] = "store" => out[c] \in {claims'[Len(pops) + 1], Before(Len(pops) + 1)'}
    <3>1. cpc[c] = "store" => out[c] \in {claims[Len(pops) + 1], Before(Len(pops) + 1)}
      BY <2>1, Zenon DEF ConsumerInv
    <3> QED
      BY <2>4, <2>6, <3>1, Zenon
  <2> QED
    BY <1>3, <2>3, <2>4, <2>5, <2>7, Zenon DEF ConsumerInv, Before
<1>8. \A i \in 1 .. L + 1 : Pending(i)' <=> (i = L + 1 \/ Pending(i))
  <2> SUFFICES ASSUME NEW i \in 1 .. L + 1 PROVE Pending(i)' <=> (i = L + 1 \/ Pending(i))
    OBVIOUS
  <2>1. \A q \in Producers : pc'[q] = "write" <=> q = p \/ pc[q] = "write"
    BY <1>3
  <2>2. seen[p] = i - 1 <=> i = L + 1
    BY <1>1, <1>2
  <2> QED
    BY <1>3, <2>1, <2>2, Zenon DEF Pending
<1>9. SlotsHold'
  <2>1. ASSUME NEW i \in 1 .. L + 1, i + Cap > L + 1
        PROVE  buffer[Wrap(i - 1)] = IF Pending(i)' THEN Before(i)' ELSE claims'[i]
    <3>1. CASE i = L + 1
      <4>1. buffer[Wrap(L)] = Before(L + 1)
        BY NextSlot
      <4>2. i - 1 = L
        BY <1>1, <3>1
      <4> QED
        BY <1>5, <1>8, <3>1, <4>1, <4>2
    <3>2. CASE i # L + 1
      <4>1. i \in 1 .. L /\ i + Cap > L
        BY <1>1, <2>1, <3>2
      <4>2. buffer[Wrap(i - 1)] = IF Pending(i) THEN Before(i) ELSE claims[i]
        BY <4>1 DEF Sound, SlotsHold
      <4> QED
        BY <1>4, <1>5, <1>8, <3>2, <4>1, <4>2
    <3> QED
      BY <3>1, <3>2
  <2>2. \A j \in Slots : j >= L + 1 => buffer[j] = Zero
    BY <1>1 DEF Sound, SlotsHold, Slots
  <2> QED
    BY <1>3, <1>4, <2>1, <2>2 DEF SlotsHold, Wrap
<1>10. tail' = Wrap(L + 1)
  BY <1>1, <1>2, <1>3, WrapNext
<1>11. head' = Wrap(Len(pops')) /\ Len(pops') <= L + 1 /\ L + 1 < Len(pops') + Cap
  BY <1>1, <1>2, <1>3 DEF Sound
<1> QED
  BY <1>4, <1>6, <1>7, <1>9, <1>10, <1>11 DEF Sound, Wrap

\* The late write goes to the slot of the producer's own claim and to no other
\* claim's slot.
LEMMA WriteSound ==
  ASSUME TypeOK, Sound, NEW p \in Producers, PushWrite(p)
  PROVE  Sound'
<1> DEFINE L == Len(claims)
           s == seen[p]
<1>1. /\ L \in Nat /\ Len(pops) \in Nat /\ Cap \in Nat /\ Cap > 0 /\ s \in Nat
  BY MpscAssumption DEF TypeOK
<1>2. /\ pc[p] = "write" /\ pt[p] = Wrap(s) /\ s < L /\ L < s + Cap
      /\ claims[s + 1] = ItemOf(p)
  BY DEF PushWrite, Sound, ProducerInv
<1>3. /\ pc'[p] = "idle" /\ \A q \in Producers \ {p} : pc'[q] = pc[q] /\ n'[q] = n[q]
      /\ UNCHANGED <<head, tail, pt, seen, cpc, ch, out, claims, pops>>
      /\ buffer' = [buffer EXCEPT ![pt[p]] = ItemOf(p)]
  BY DEF PushWrite, TypeOK, cons, hist
<1>4. ASSUME NEW q \in Producers PROVE ProducerInv(q)'
  <2>1. CASE q = p
    BY <1>3, <2>1, Zenon DEF ProducerInv
  <2>2. CASE q # p
    <3>1. pc'[q] = pc[q] /\ n'[q] = n[q] /\ ProducerInv(q)
      BY <1>3, <2>2 DEF Sound
    <3> QED
      BY <1>3, <3>1, Zenon DEF ProducerInv, ItemOf
  <2> QED
    BY <2>1, <2>2
<1>5. ASSUME NEW c \in Consumers PROVE ConsumerInv(c)'
  BY <1>3 DEF Sound, ConsumerInv, Before
<1>6. ASSUME NEW q \in Producers, pc[q] = "write", seen[q] = s PROVE q = p
  <2>1. claims[s + 1] = ItemOf(q)
    BY <1>6 DEF Sound, ProducerInv
  <2> QED
    BY <1>2, <2>1 DEF ItemOf
<1>7. \A i \in 1 .. L : Pending(i)' <=> (i # s + 1 /\ Pending(i))
  <2> SUFFICES ASSUME NEW i \in 1 .. L PROVE Pending(i)' <=> (i # s + 1 /\ Pending(i))
    OBVIOUS
  <2>1. Pending(i)' <=> \E q \in Producers : q # p /\ pc[q] = "write" /\ seen[q] = i - 1
    BY <1>3 DEF Pending
  <2>2. i = s + 1 <=> s = i - 1
    BY <1>1
  <2> QED
    BY <1>2, <1>6, <2>1, <2>2 DEF Pending
<1>8. Wrap(s) \in Slots /\ buffer'[Wrap(s)] = claims[s + 1]
      /\ \A j \in Slots \ {Wrap(s)} : buffer'[j] = buffer[j]
  BY <1>1, <1>2, <1>3, WrapNext DEF TypeOK
<1>9. SlotsHold'
  <2>1. ASSUME NEW i \in 1 .. L, i + Cap > L
        PROVE  buffer'[Wrap(i - 1)] = IF Pending(i)' THEN Before(i) ELSE claims[i]
    <3>0. i - 1 \in Nat
      BY <1>1
    <3>1. CASE i = s + 1
      <4>1. i - 1 = s
        BY <1>1, <3>1
      <4> QED
        BY <1>7, <1>8, <3>1, <4>1, Zenon
    <3>2. CASE i # s + 1
      <4>1. Wrap(i - 1) # Wrap(s)
        <5> DEFINE k == i - 1
        <5>1. k \in Nat /\ k # s /\ (k <= s \/ s <= k) /\ k < s + Cap /\ s < k + Cap
          BY <1>1, <1>2, <2>1, <3>2
        <5> HIDE DEF k, s
        <5>2. Wrap(k) # Wrap(s)
          BY <1>1, <5>1, WrapApart
        <5> QED
          BY <5>2 DEF k
      <4>2. Wrap(i - 1) \in Slots
        BY <3>0, WrapNext
      <4>3. buffer[Wrap(i - 1)] = IF Pending(i) THEN Before(i) ELSE claims[i]
        BY <2>1 DEF Sound, SlotsHold
      <4> QED
        BY <1>7, <1>8, <3>2, <4>1, <4>2, <4>3
    <3> QED
      BY <3>1, <3>2
  <2>2. ASSUME NEW j \in Slots, j >= L PROVE buffer'[j] = Zero
    <3>1. s < Cap /\ s # j
      BY <1>1, <1>2, <2>2 DEF Slots
    <3>2. Wrap(s) = s
      BY <1>1, <3>1, WrapFirst
    <3>3. buffer[j] = Zero
      BY <2>2 DEF Sound, SlotsHold
    <3> QED
      BY <1>8, <3>1, <3>2, <3>3
  <2>3. \A i : Before(i)' = Before(i)
    BY <1>3 DEF Before
  <2> QED
    BY <1>3, <2>1, <2>2, <2>3 DEF SlotsHold, Wrap
<1> QED
  BY <1>3, <1>4, <1>5, <1>9 DEF Sound, Wrap
--------------------------------------------------------------------------------
\* The steps of BT_MPSC_POP up to the read: what it reads is the next claim, or
\* what the slot held before if that claim is pending.
LEMMA PopLooks ==
  ASSUME TypeOK, Sound, OneConsumer, NEW c \in Consumers,
         PopBegin(c) \/ PopEmpty(c) \/ PopClaim(c) \/ PopRead(c)
  PROVE  Sound'
<1>0. /\ Len(claims) \in Nat /\ Len(pops) \in Nat /\ Cap \in Nat /\ Cap > 0
      /\ Len(pops) <= Len(claims) /\ Len(claims) < Len(pops) + Cap
  BY MpscAssumption DEF TypeOK, Sound
<1>1. CASE PopBegin(c)
  <2>1. cpc'[c] = "check" /\ ch'[c] = head /\ head' = head
    BY <1>1 DEF PopBegin, TypeOK, shared
  <2>2. ConsumerInv(c)'
    BY <2>1 DEF ConsumerInv
  <2> QED
    BY <1>1, <2>2, PopQuiet DEF PopBegin
<1>2. CASE PopEmpty(c)
  <2>1. cpc'[c] = "idle"
    BY <1>2 DEF PopEmpty, TypeOK
  <2>2. ConsumerInv(c)'
    BY <2>1 DEF ConsumerInv
  <2> QED
    BY <1>2, <2>2, PopQuiet DEF PopEmpty
<1>3. CASE PopClaim(c)
  <2>1. /\ cpc[c] = "check" /\ cpc'[c] = "read" /\ ch[c] # tail
        /\ UNCHANGED <<ch, head, claims, pops>>
    BY <1>3 DEF PopClaim, TypeOK, shared, hist
  <2>2. ch[c] = head
    BY <2>1 DEF Sound, ConsumerInv
  <2>3. Len(pops) # Len(claims)
    BY <2>1, <2>2 DEF Sound
  <2>4. ConsumerInv(c)'
    BY <1>0, <2>1, <2>2, <2>3 DEF ConsumerInv
  <2> QED
    BY <1>3, <2>4, PopQuiet DEF PopClaim
<1>4. CASE PopRead(c)
  <2>1. /\ cpc[c] = "read" /\ cpc'[c] = "store" /\ out'[c] = buffer[ch[c]]
        /\ UNCHANGED <<ch, head, claims, pops>>
    BY <1>4 DEF PopRead, TypeOK, shared, hist
  <2>2. ch[c] = head /\ head = Wrap(Len(pops)) /\ Len(pops) < Len(claims)
    BY <2>1, Zenon DEF Sound, ConsumerInv
  <2> DEFINE i == Len(pops) + 1
  <2>3. i \in 1 .. Len(claims) /\ i + Cap > Len(claims) /\ i - 1 = Len(pops)
    BY <1>0, <2>2
  <2>4. buffer[Wrap(i - 1)] = IF Pending(i) THEN Before(i) ELSE claims[i]
    BY <2>3 DEF Sound, SlotsHold
  <2>5. out'[c] \in {claims[i], Before(i)}
    BY <2>1, <2>2, <2>3, <2>4
  <2>6. ConsumerInv(c)'
    BY <2>1, <2>2, <2>5 DEF ConsumerInv, Before
  <2> QED
    BY <1>4, <2>6, PopQuiet DEF PopRead
<1> QED
  BY <1>1, <1>2, <1>3, <1>4

\* The store of head frees a slot that was claimed.
LEMMA StoreSound ==
  ASSUME TypeOK, Sound, OneConsumer, NEW c \in Consumers, PopStore(c)
  PROVE  Sound' /\ pops' = Append(pops, out[c]) /\ Len(pops') = Len(pops) + 1
<1>1. /\ Len(claims) \in Nat /\ Len(pops) \in Nat /\ Cap \in Nat /\ Cap > 0
      /\ pops \in Seq(Items \cup {Zero}) /\ out[c] \in Items \cup {Zero}
      /\ \A p \in Producers : seen[p] \in Nat
  BY MpscAssumption DEF TypeOK
<1>2. /\ ch[c] = head /\ head = Wrap(Len(pops))
      /\ Len(pops) < Len(claims) /\ Len(claims) < Len(pops) + Cap
  BY DEF PopStore, Sound, ConsumerInv
<1>3. /\ cpc'[c] = "idle" /\ head' = Wrap(ch[c] + 1) /\ pops' = Append(pops, out[c])
      /\ UNCHANGED <<tail, buffer, pc, pt, n, seen, claims>>
  BY DEF PopStore, TypeOK, prod
<1>4. Len(pops') = Len(pops) + 1
  BY <1>1, <1>3
<1>5. head' = Wrap(Len(pops) + 1)
  BY <1>1, <1>2, <1>3, WrapNext
<1>6. ASSUME NEW p \in Producers PROVE ProducerInv(p)'
  <2>1. ProducerInv(p)
    BY DEF Sound
  <2> QED
    <3>1. ASSUME pc[p] = "cas" PROVE seen[p] + 1 < Len(pops') + Cap
      BY <1>1, <1>4, <2>1, <3>1 DEF ProducerInv
    <3> QED BY <1>3, <2>1, <3>1, Zenon DEF ProducerInv, ItemOf, Wrap
<1>7. ASSUME NEW d \in Consumers PROVE ConsumerInv(d)'
  BY <1>3 DEF OneConsumer, ConsumerInv
<1>8. SlotsHold'
  BY <1>3, Zenon DEF Sound, SlotsHold, Before, Pending
<1> QED
  BY <1>1, <1>2, <1>3, <1>4, <1>5, <1>6, <1>7, <1>8 DEF Sound, Wrap
--------------------------------------------------------------------------------
IInv == TypeOK /\ StepsInv /\ PopsFollowClaims

\* Pops follow claims: a claim adds behind everything popped, and the store of head
\* makes a pop of what was read.
LEMMA FollowStep ==
  ASSUME TypeOK, Sound, PopsFollowClaims, OneConsumer, ~lapped, ~lapped', Next
  PROVE  PopsFollowClaims'
<1>1. /\ Len(claims) \in Nat /\ Len(pops) \in Nat /\ Cap \in Nat /\ Cap > 0
      /\ Len(pops) <= Len(claims) /\ claims \in Seq(Items) /\ pops \in Seq(Items \cup {Zero})
  BY MpscAssumption DEF TypeOK, Sound
<1>2. \A i \in 1 .. Len(pops) : pops[i] \in {claims[i], Before(i)}
  BY DEF PopsFollowClaims
<1>3. CASE UNCHANGED <<claims, pops>>
  BY <1>2, <1>3 DEF PopsFollowClaims, Before
<1>4. ASSUME NEW p \in Producers, PushCas(p) PROVE PopsFollowClaims'
  <2>1. claims' = Append(claims, ItemOf(p)) /\ pops' = pops /\ ItemOf(p) \in Items
    BY <1>4 DEF PushCas, ItemOf, Items, TypeOK
  <2>2. \A i \in 1 .. Len(claims) : claims'[i] = claims[i]
    BY <1>1, <2>1
  <2>3. ASSUME NEW i \in 1 .. Len(pops) PROVE claims'[i] = claims[i] /\ Before(i)' = Before(i)
    <3>1. i \in 1 .. Len(claims) /\ (i > Cap => i - Cap \in 1 .. Len(claims))
      BY <1>1
    <3> QED
      BY <2>2, <3>1 DEF Before
  <2> QED
    BY <1>2, <2>1, <2>3, Zenon DEF PopsFollowClaims
<1>5. ASSUME NEW c \in Consumers, PopStore(c) PROVE PopsFollowClaims'
  <2>1. /\ pops' = Append(pops, out[c]) /\ Len(pops') = Len(pops) + 1 /\ claims' = claims
        /\ out[c] \in Items \cup {Zero}
    BY <1>5, StoreSound DEF PopStore, TypeOK
  <2>2. out[c] \in {claims[Len(pops) + 1], Before(Len(pops) + 1)}
    BY <1>5, Zenon DEF PopStore, Sound, ConsumerInv
  <2>3. /\ \A i \in 1 .. Len(pops) : pops'[i] = pops[i]
        /\ pops'[Len(pops) + 1] = out[c]
    BY <1>1, <2>1
  <2>4. ASSUME NEW i \in 1 .. Len(pops) + 1 PROVE pops'[i] \in {claims[i], Before(i)}
    <3>1. i \in 1 .. Len(pops) \/ i = Len(pops) + 1
      BY <1>1
    <3> QED
      BY <1>2, <2>2, <2>3, <3>1
  <2>5. \A i : Before(i)' = Before(i)
    BY <2>1 DEF Before
  <2> QED
    BY <2>1, <2>4, <2>5 DEF PopsFollowClaims
<1> QED
  BY <1>3, <1>4, <1>5 DEF Next, Push, Pop, PushLoad, PushFull, PushRoom, PushCasFail, PushWrite,
       PopBegin, PopEmpty, PopClaim, PopRead, hist

\* Every step of BT_MPSC_PUSH and BT_MPSC_POP keeps the ring sound before a lap.
LEMMA SoundStep ==
  ASSUME TypeOK, Sound, OneConsumer, ~lapped', Next
  PROVE  Sound'
<1>1. ASSUME NEW p \in Producers, Push(p) PROVE Sound'
  BY <1>1, PushLooks, CasSound, WriteSound DEF Push
<1>2. ASSUME NEW c \in Consumers, Pop(c) PROVE Sound'
  BY <1>2, PopLooks, StoreSound DEF Pop
<1> QED
  BY <1>1, <1>2 DEF Next

\* A lap is never forgotten.
LEMMA LappedStays == ASSUME TypeOK, Next PROVE lapped => lapped'
<1>1. ASSUME NEW p \in Producers, Push(p) PROVE lapped => lapped'
  BY <1>1, Zenon DEF Push, PushLoad, PushFull, PushRoom, PushCas, PushCasFail, PushWrite, hist
<1>2. ASSUME NEW c \in Consumers, Pop(c) PROVE lapped => lapped'
  BY <1>2, Zenon DEF Pop, PopBegin, PopEmpty, PopClaim, PopRead, PopStore, hist
<1> QED
  BY <1>1, <1>2 DEF Next

\* The empty queue.
LEMMA InitInv == Init => IInv
<1> SUFFICES ASSUME Init PROVE IInv
  OBVIOUS
<1>1. Cap \in Nat /\ Cap > 0
  BY MpscAssumption
<1>2. TypeOK
  <2>1. 0 \in Slots
    BY <1>1 DEF Slots
  <2>2. claims \in Seq(Items) /\ pops \in Seq(Items \cup {Zero})
    BY DEF Init
  <2>3. lapped \in BOOLEAN
    BY Zenon DEF Init
  <2>4. /\ head \in Slots /\ tail \in Slots /\ buffer \in [Slots -> Items \cup {Zero}]
        /\ pt \in [Producers -> Slots] /\ ch \in [Consumers -> Slots]
        /\ out \in [Consumers -> Items \cup {Zero}]
    BY <2>1 DEF Init
  <2>5. /\ pc \in [Producers -> {"idle", "retry", "check", "cas", "write"}]
        /\ n \in [Producers -> Nat] /\ seen \in [Producers -> Nat]
        /\ cpc \in [Consumers -> {"idle", "check", "read", "store"}]
    BY DEF Init
  <2> QED
    BY <2>2, <2>3, <2>4, <2>5 DEF TypeOK
<1>3. Len(claims) = 0 /\ Len(pops) = 0
  BY DEF Init
<1>4. Wrap(0) = 0
  BY <1>1, WrapFirst
<1>5. SlotsHold
  BY <1>3 DEF Init, SlotsHold
<1>6. \A p \in Producers : ProducerInv(p)
  BY DEF Init, ProducerInv
<1>7. \A c \in Consumers : ConsumerInv(c)
  BY DEF Init, ConsumerInv
<1>8. StepsInv
  BY <1>1, <1>3, <1>4, <1>5, <1>6, <1>7 DEF Init, StepsInv
<1>9. PopsFollowClaims
  BY <1>3 DEF PopsFollowClaims
<1> QED
  BY <1>2, <1>8, <1>9 DEF IInv

\* Every step keeps the invariant, lapped or not.
LEMMA StepInv == ASSUME OneConsumer, IInv, [Next]_vars PROVE IInv'
<1>1. TypeOK /\ TypeOK'
  BY TypeStep DEF IInv
<1>2. CASE Next
  <2>1. CASE lapped'
    BY <1>1, <2>1 DEF IInv, StepsInv, PopsFollowClaims
  <2>2. CASE ~lapped'
    <3>1. ~lapped
      BY <1>1, <1>2, <2>2, LappedStays
    <3>2. Sound
      BY <3>1 DEF IInv, StepsInv, Sound
    <3>3. Sound'
      BY <1>1, <1>2, <2>2, <3>2, SoundStep
    <3>4. PopsFollowClaims'
      BY <1>1, <1>2, <2>2, <3>1, <3>2, FollowStep DEF IInv
    <3> QED
      BY <1>1, <3>3, <3>4 DEF IInv, StepsInv, Sound
  <2> QED
    BY <2>1, <2>2
<1>3. CASE UNCHANGED vars
  <2>1. UNCHANGED <<head, tail, buffer, pc, pt, n, seen, cpc, ch, out, claims, pops, lapped>>
    BY <1>3 DEF vars, shared, prod, cons, hist
  <2>2. StepsInv'
    <3>1. SlotsHold' <=> SlotsHold
      BY <2>1 DEF SlotsHold, Before, Pending
    <3>2. \A p \in Producers : ProducerInv(p)' <=> ProducerInv(p)
      BY <2>1 DEF ProducerInv, ItemOf
    <3>3. \A c \in Consumers : ConsumerInv(c)' <=> ConsumerInv(c)
      BY <2>1 DEF ConsumerInv, Before
    <3> QED
      BY <2>1, <3>1, <3>2, <3>3 DEF IInv, StepsInv, Wrap
  <2>3. PopsFollowClaims'
    BY <2>1 DEF IInv, PopsFollowClaims, Before
  <2> QED
    BY <1>1, <2>2, <2>3 DEF IInv
<1> QED
  BY <1>2, <1>3

\* The inductive invariant contains everything RingInv says.
LEMMA InvRing == IInv => RingInv
<1> SUFFICES ASSUME IInv PROVE RingInv
  OBVIOUS
<1>1. TypeOK /\ StepsInv /\ PopsFollowClaims
  BY DEF IInv
<1>2. CASE lapped
  BY <1>1, <1>2 DEF RingInv, ClaimsAreFree, SlotsSettle
<1>3. CASE ~lapped
  <2>1. Sound
    BY <1>1, <1>3 DEF StepsInv, Sound
  <2>2. /\ Len(claims) \in Nat /\ Len(pops) \in Nat /\ Cap \in Nat
        /\ Len(pops) <= Len(claims) /\ Len(claims) < Len(pops) + Cap
    BY <1>1, <2>1, MpscAssumption DEF TypeOK, Sound
  <2>3. Dist(head, tail) = Len(claims) - Len(pops)
    BY <2>1, <2>2, DistWrap DEF Sound
  <2>4. ClaimsAreFree
    BY <2>2, <2>3 DEF ClaimsAreFree
  <2>5. ASSUME NEW i \in Len(pops) + 1 .. Len(claims)
        PROVE  \/ buffer[Wrap(i - 1)] = claims[i]
               \/ \E p \in Producers : pc[p] = "write" /\ ItemOf(p) = claims[i]
    <3>1. i \in 1 .. Len(claims) /\ i + Cap > Len(claims)
      BY <2>2
    <3>2. CASE Pending(i)
      <4>1. PICK p \in Producers : pc[p] = "write" /\ seen[p] = i - 1
        BY <3>2 DEF Pending
      <4>2. claims[seen[p] + 1] = ItemOf(p) /\ seen[p] + 1 = i
        BY <2>1, <3>1, <4>1 DEF Sound, ProducerInv
      <4> QED
        BY <4>1, <4>2
    <3>3. CASE ~ Pending(i)
      BY <2>1, <3>1, <3>3, Zenon DEF Sound, SlotsHold
    <3> QED
      BY <3>2, <3>3
  <2>6. SlotsSettle
    BY <2>5 DEF SlotsSettle
  <2> QED
    BY <1>1, <2>4, <2>6 DEF RingInv
<1> QED
  BY <1>2, <1>3

\* With one consumer, for every capacity and any number of producers: short of a
\* push overtaken by a lap, BT_MPSC_PUSH claims free slots only, an unread slot keeps
\* the item of its claimant, and BT_MPSC_POP hands out the claims in their order, or
\* what the slot held before a pending write.
THEOREM RingCorrect ==
  ASSUME OneConsumer
  PROVE  Spec => []RingInv
<1>1. Init => IInv
  BY InitInv
<1>2. IInv /\ [Next]_vars => IInv'
  BY StepInv
<1>3. IInv => RingInv
  BY InvRing
<1> QED
  BY <1>1, <1>2, <1>3, PTL DEF Spec

-------------------------------------------------------------------------------
(* The benchmark *)

\* Every step of the benchmark is a step of the queue or leaves the queue alone.
LEMMA BenchIsQueue == [BenchNext]_benchVars => [Next]_vars
<1> SUFFICES ASSUME [BenchNext]_benchVars PROVE Next \/ UNCHANGED vars
  OBVIOUS
<1>0. Injector \in Producers
  BY BenchAssumption
<1>1. CASE UNCHANGED benchVars
  BY <1>1 DEF benchVars
<1>2. CASE Allocate
  BY <1>2 DEF Allocate
<1>3. CASE Inject
  BY <1>0, <1>3, Zenon DEF Inject, Next, Push
<1>4. CASE Pushing
  BY <1>0, <1>4, Zenon DEF Pushing, Next, Push
<1>5. CASE Sent
  BY <1>0, <1>5, Zenon DEF Sent, Next, Push
<1>6. CASE Dropped
  BY <1>0, <1>6, Zenon DEF Dropped, Next, Push
<1>7. CASE Report
  BY <1>7, Zenon DEF Report
<1>8. CASE (\E p \in Producers \ {Injector} : Push(p)) \/ (\E c \in Consumers : Pop(c))
  BY <1>8, Zenon DEF Next
<1> QED
  BY <1>1, <1>2, <1>3, <1>4, <1>5, <1>6, <1>7, <1>8, Zenon DEF BenchNext, Bench

\* The order queue stays sound under the load of the benchmark, for every capacity,
\* number of orders and number of other producers.
THEOREM BenchRing ==
  ASSUME OneConsumer
  PROVE  BenchSpec => []RingInv
<1>1. BenchInit => IInv
  BY InitInv DEF BenchInit
<1>2. IInv /\ [BenchNext]_benchVars => IInv'
  BY StepInv, BenchIsQueue
<1>3. IInv => RingInv
  BY InvRing
<1> QED
  BY <1>1, <1>2, <1>3, PTL DEF BenchSpec

--------------------------------------------------------------------------------
INSTANCE FiniteSetTheorems

\* The indices of the claims of the injector
Own == {i \in DOMAIN claims : claims[i][1] = Injector}
Late == IF pc[Injector] = "write" THEN 1 ELSE 0

CountsInv == /\ TypeOK /\ orders_sent \in Nat /\ orders_dropped \in Nat
             /\ CountsTrue

\* The claims of the benchmark are finitely many.
LEMMA OwnFinite ==
  ASSUME TypeOK
  PROVE  /\ IsFiniteSet(Own) /\ Cardinality(Own) \in Nat
         /\ Own = {i \in 1 .. Len(claims) : claims[i][1] = Injector} /\ Len(claims) \in Nat
<1>1. Len(claims) \in Nat /\ DOMAIN claims = 1 .. Len(claims)
  BY DEF TypeOK
<1>2. IsFiniteSet(1 .. Len(claims))
  BY <1>1, FS_Interval
<1>3. Own \subseteq 1 .. Len(claims)
  BY <1>1 DEF Own
<1>4. IsFiniteSet(Own)
  BY <1>2, <1>3, FS_Subset, Zenon
<1> QED
  BY <1>1, <1>4, FS_CardinalityType DEF Own

\* A claim of p counts for the injector if p is the injector.
LEMMA ClaimCounts ==
  ASSUME TypeOK, TypeOK', NEW p \in Producers, PushCas(p)
  PROVE  Cardinality(Own)' = Cardinality(Own) + (IF p = Injector THEN 1 ELSE 0)
<1> DEFINE L == Len(claims)
<1>1. /\ IsFiniteSet(Own) /\ Cardinality(Own) \in Nat /\ L \in Nat
      /\ Own = {i \in 1 .. L : claims[i][1] = Injector}
  BY OwnFinite
<1>2. Own' = {i \in 1 .. Len(claims') : claims'[i][1] = Injector}
  BY DEF Own, TypeOK
<1>3. ItemOf(p) \in Items /\ ItemOf(p)[1] = p /\ claims \in Seq(Items)
  BY DEF ItemOf, Items, TypeOK
<1>4. claims' = Append(claims, ItemOf(p))
  BY DEF PushCas
<1>5. /\ Len(claims') = L + 1 /\ claims'[L + 1] = ItemOf(p)
      /\ \A i \in 1 .. L : claims'[i] = claims[i]
  BY <1>3, <1>4, SeqAppend
<1>6. Own' = IF p = Injector THEN Own \cup {L + 1} ELSE Own
  BY <1>1, <1>2, <1>3, <1>5
<1>7. L + 1 \notin Own
  BY <1>1
<1>8. Cardinality(Own \cup {L + 1}) = Cardinality(Own) + 1
  BY <1>1, <1>7, FS_AddElement, Zenon
<1>9. Cardinality(Own)' = Cardinality(Own')
  OBVIOUS
<1> QED
  BY <1>1, <1>6, <1>8, <1>9

\* The counts after a step of the queue: only the claim, the write and the full
\* test of the injector change them.
LEMMA QueueCounts ==
  ASSUME CountsInv, TypeOK', UNCHANGED <<orders_sent, orders_dropped>>,
         \/ PushLoad(Injector) \/ PushRoom(Injector) \/ PushCas(Injector) \/ PushCasFail(Injector)
         \/ \E p \in Producers \ {Injector} : Push(p)
         \/ \E c \in Consumers : Pop(c)
         \/ UNCHANGED vars
  PROVE  CountsInv'
<1> USE DEF shared, prod, cons, hist
<1>0. Injector \in Producers /\ Cardinality(Own) \in Nat /\ TypeOK
  BY BenchAssumption, OwnFinite DEF CountsInv
<1>1. /\ orders_sent \in Nat /\ orders_dropped \in Nat
      /\ orders_sent + orders_dropped = n[Injector] /\ orders_sent + Late = Cardinality(Own)
  BY DEF CountsInv, CountsTrue, Own, Late
<1> SUFFICES n'[Injector] = n[Injector] /\ orders_sent + Late' = Cardinality(Own)'
  BY <1>1 DEF CountsInv, CountsTrue, Own, Late
<1>2. CASE PushLoad(Injector) \/ PushRoom(Injector) \/ PushCasFail(Injector)
  <2>1. claims' = claims /\ n' = n /\ pc[Injector] # "write" /\ pc'[Injector] # "write"
    BY <1>0, <1>2 DEF PushLoad, PushRoom, PushCasFail, TypeOK
  <2> QED
    BY <1>1, <2>1 DEF Own, Late
<1>3. CASE PushCas(Injector)
  <2>1. n' = n /\ pc[Injector] = "cas" /\ pc'[Injector] = "write"
    BY <1>0, <1>3, Zenon DEF PushCas, TypeOK
  <2>2. Cardinality(Own)' = Cardinality(Own) + 1
    BY <1>0, <1>3, ClaimCounts
  <2>3. Late = 0 /\ Late' = 1
    BY <2>1, Zenon DEF Late
  <2>4. orders_sent + 1 = Cardinality(Own) + 1
    BY <1>0, <1>1, <2>3
  <2> QED
    BY <2>1, <2>2, <2>3, <2>4, Zenon
<1>4. ASSUME NEW p \in Producers, p # Injector, Push(p)
      PROVE  n'[Injector] = n[Injector] /\ orders_sent + Late' = Cardinality(Own)'
  <2>1. n'[Injector] = n[Injector] /\ pc'[Injector] = pc[Injector]
    BY <1>0, <1>4, Zenon DEF Push, PushLoad, PushFull, PushRoom, PushCas, PushCasFail, PushWrite, TypeOK
  <2>2. CASE PushCas(p)
    <3>1. Cardinality(Own)' = Cardinality(Own) + 0
      BY <1>0, <1>4, <2>2, ClaimCounts
    <3> QED
      BY <1>0, <1>1, <2>1, <3>1 DEF Late
  <2>3. CASE ~ PushCas(p)
    <3>1. claims' = claims
      BY <1>4, <2>3, Zenon DEF Push, PushLoad, PushFull, PushRoom, PushCasFail, PushWrite
    <3> QED
      BY <1>1, <2>1, <3>1 DEF Own, Late
  <2> QED
    BY <2>2, <2>3
<1>5. ASSUME NEW c \in Consumers, Pop(c)
      PROVE  n'[Injector] = n[Injector] /\ orders_sent + Late' = Cardinality(Own)'
  <2>1. claims' = claims /\ n' = n /\ pc' = pc
    BY <1>5 DEF Pop, PopBegin, PopEmpty, PopClaim, PopRead, PopStore
  <2> QED
    BY <1>1, <2>1 DEF Own, Late
<1>6. CASE UNCHANGED vars
  BY <1>1, <1>6 DEF vars, Own, Late
<1> QED
  BY <1>2, <1>3, <1>4, <1>5, <1>6

\* The counts bt_benchmark_run prints are true, whatever the other producers push in
\* between: every order is sent or dropped, and those sent are the claims made for
\* the benchmark in the queue, for every number of orders.
THEOREM BenchCounts == BenchSpec => []CountsTrue
<1>1. BenchInit => CountsInv
  <2> SUFFICES ASSUME BenchInit PROVE CountsInv
    OBVIOUS
  <2>1. TypeOK
    BY InitInv DEF BenchInit, IInv
  <2>2. {i \in DOMAIN claims : claims[i][1] = Injector} = {}
    BY DEF BenchInit, Init
  <2>3. n[Injector] = 0 /\ pc[Injector] = "idle" /\ orders_sent = 0 /\ orders_dropped = 0
    BY BenchAssumption DEF BenchInit, Init
  <2>4. Cardinality({i \in DOMAIN claims : claims[i][1] = Injector}) = 0
    <3>1. Cardinality({}) = 0
      BY FS_EmptySet
    <3> QED
      BY <2>2, <3>1, Zenon
  <2> QED
    BY <2>1, <2>3, <2>4 DEF CountsInv, CountsTrue
<1>2. CountsInv /\ [BenchNext]_benchVars => CountsInv'
  <2> SUFFICES ASSUME CountsInv, [BenchNext]_benchVars PROVE CountsInv'
    OBVIOUS
  <2>0. TypeOK /\ TypeOK' /\ Injector \in Producers
    BY TypeStep, BenchIsQueue, BenchAssumption DEF CountsInv
  <2>1. CASE UNCHANGED benchVars
    BY <2>0, <2>1, QueueCounts DEF benchVars, bench, tally
  <2>2. CASE Allocate \/ Report
    BY <2>0, <2>2, QueueCounts, Zenon DEF Allocate, Report, tally
  <2>3. CASE Inject
    BY <2>0, <2>3, QueueCounts, Zenon DEF Inject, tally
  <2>4. CASE Pushing
    BY <2>0, <2>4, QueueCounts, Zenon DEF Pushing, bench, tally
  <2>5. CASE Sent \/ Dropped
    <3>1. /\ claims' = claims /\ n'[Injector] = n[Injector] + 1 /\ pc'[Injector] = "idle"
          /\ \/ pc[Injector] = "write" /\ orders_sent' = orders_sent + 1
                /\ orders_dropped' = orders_dropped
             \/ pc[Injector] = "check" /\ orders_sent' = orders_sent
                /\ orders_dropped' = orders_dropped + 1
      BY <2>0, <2>5 DEF Sent, Dropped, PushWrite, PushFull, TypeOK, hist
    <3>2. /\ orders_sent \in Nat /\ orders_dropped \in Nat /\ n[Injector] \in Nat
          /\ orders_sent + orders_dropped = n[Injector] /\ orders_sent + Late = Cardinality(Own)
          /\ Cardinality(Own) \in Nat
      BY <2>0, OwnFinite DEF CountsInv, CountsTrue, Own, Late, TypeOK
    <3>3. Cardinality(Own)' = Cardinality(Own)
      BY <3>1, Zenon DEF Own
    <3>4. ASSUME pc[Injector] = "write"
          PROVE  /\ orders_sent' \in Nat /\ orders_dropped' \in Nat
                 /\ orders_sent' + orders_dropped' = n'[Injector] /\ orders_sent' + Late' = Cardinality(Own)'
      <4>1. Late = 1 /\ Late' = 0 /\ orders_sent' = orders_sent + 1 /\ orders_dropped' = orders_dropped
        BY <3>1, <3>4, Zenon DEF Late
      <4>2. /\ orders_sent' \in Nat /\ orders_dropped' \in Nat
            /\ orders_sent' + orders_dropped' = n'[Injector] /\ orders_sent' + Late' = Cardinality(Own)
        BY <3>1, <3>2, <4>1
      <4> QED BY <3>3, <4>2, Zenon
    <3>5. ASSUME pc[Injector] = "check"
          PROVE  /\ orders_sent' \in Nat /\ orders_dropped' \in Nat
                 /\ orders_sent' + orders_dropped' = n'[Injector] /\ orders_sent' + Late' = Cardinality(Own)'
      <4>1. Late = 0 /\ Late' = 0 /\ orders_sent' = orders_sent /\ orders_dropped' = orders_dropped + 1
        BY <3>1, <3>5, Zenon DEF Late
      <4>2. /\ orders_sent' \in Nat /\ orders_dropped' \in Nat
            /\ orders_sent' + orders_dropped' = n'[Injector] /\ orders_sent' + Late' = Cardinality(Own)
        BY <3>1, <3>2, <4>1
      <4> QED BY <3>3, <4>2, Zenon
    <3>6. /\ orders_sent' \in Nat /\ orders_dropped' \in Nat
          /\ orders_sent' + orders_dropped' = n'[Injector] /\ orders_sent' + Late' = Cardinality(Own)'
      BY <3>1, <3>4, <3>5, Zenon
    <3> QED
      BY <2>0, <3>6, Zenon DEF CountsInv, CountsTrue, Own, Late
  <2>6. CASE /\ (\E p \in Producers \ {Injector} : Push(p)) \/ (\E c \in Consumers : Pop(c))
             /\ UNCHANGED bench
    BY <2>0, <2>6, QueueCounts, Zenon DEF bench, tally
  <2> QED
    BY <2>1, <2>2, <2>3, <2>4, <2>5, <2>6, Zenon DEF BenchNext, Bench
<1>3. CountsInv => CountsTrue
  BY DEF CountsInv
<1> QED
  BY <1>1, <1>2, <1>3, PTL DEF BenchSpec
===============================================================================
