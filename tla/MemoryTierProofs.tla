---------------------------- MODULE MemoryTierProofs ----------------------------
(***************************************************************************)
(* The slab allocator and the memory tiers are correct for any number of   *)
(* slabs, blocks and threads, as long as one thread at most takes HOT      *)
(* blocks.                                                                 *)
(*                                                                         *)
(* First the steps of the slab allocator, which keep its lists, its owners *)
(* and its counters exact.  Then the inductive invariant of the tiers, the *)
(* steps of bt_tier_alloc that keep it (HOT blocks from the slabs, WARM    *)
(* memory from the pool, COLD mappings), and the other calls.              *)
(***************************************************************************)
EXTENDS MemoryTier, SequenceFacts, TLAPS

\* At most one thread takes blocks from the slabs.
OneAllocator == \A a, b \in Allocators : a = b

USE DEF counts, locals, slabVars, Goto
--------------------------------------------------------------------------------
(* Finite sets *)

\* No function from 1 .. n into fewer than n elements keeps them all apart.
PigeonHole ==
  \A S : \A n \in Nat : IsFiniteSet(S) /\ Cardinality(S) < n =>
    \A f \in [1 .. n -> S] : \E x, y \in 1 .. n : x # y /\ f[x] = f[y]

\* What the proofs use of finite sets.  The theorems on finite sets come in last,
\* where this is shown.
FiniteFacts ==
  /\ \A S : IsFiniteSet(S) => Cardinality(S) \in Nat /\ (Cardinality(S) = 0 <=> S = {})
  /\ IsFiniteSet({}) /\ Cardinality({}) = 0
  /\ \A S, T : IsFiniteSet(S) /\ T \in SUBSET S => IsFiniteSet(T) /\ Cardinality(T) <= Cardinality(S)
  /\ \A S, x : IsFiniteSet(S) /\ x \notin S =>
       IsFiniteSet(S \cup {x}) /\ Cardinality(S \cup {x}) = Cardinality(S) + 1
  /\ \A S, x : IsFiniteSet(S) /\ x \in S =>
       IsFiniteSet(S \ {x}) /\ Cardinality(S \ {x}) = Cardinality(S) - 1
  /\ PigeonHole

--------------------------------------------------------------------------------
(* Linked lists *)

\* A list read through its links loses its first block and keeps the others, as
\* when the compare-and-swap of bt_slab_alloc succeeds.
LEMMA SpellsTail ==
  ASSUME NEW S, NEW l \in Seq(S), NEW h, NEW nx, NEW x \in Range(l), Spells(h, nx, l), x = h
  PROVE  /\ Spells(nx[h], nx, Tail(l)) /\ Tail(l) \in Seq(S) /\ Len(Tail(l)) = Len(l) - 1
         /\ h \in S /\ h \notin Range(Tail(l))
         /\ \A y : y \in Range(l) <=> y = h \/ y \in Range(Tail(l))
<1> DEFINE r == Tail(l)
<1>1. PICK i \in 1 .. Len(l) : l[i] = x
  BY DEF Range
<1>2. l # <<>> /\ Len(l) \in Nat \ {0} /\ l[1] \in S
  BY <1>1
<1>3. r \in Seq(S) /\ Len(r) = Len(l) - 1 /\ \A j \in 1 .. Len(r) : r[j] = l[j + 1]
  BY <1>2, SeqTail, Zenon
<1>4. h = l[1]
  BY <1>2, Zenon DEF Spells
<1>5. /\ \A y : y \in Range(l) <=> \E j \in 1 .. Len(l) : l[j] = y
      /\ \A y : y \in Range(r) <=> \E j \in 1 .. Len(r) : r[j] = y
  <2>1. DOMAIN l = 1 .. Len(l) /\ DOMAIN r = 1 .. Len(r)
    BY <1>3, SeqLen, Zenon
  <2> HIDE DEF r
  <2> QED BY <2>1, Zenon DEF Range
<1> HIDE DEF r
<1>6. h \notin Range(r)
  <2> SUFFICES ASSUME NEW j \in 1 .. Len(r), r[j] = h PROVE FALSE
    BY <1>5, Zenon
  <2>1. j + 1 \in 1 .. Len(l) /\ 1 \in 1 .. Len(l) /\ l[j + 1] = l[1] /\ j + 1 # 1
    BY <1>2, <1>3, <1>4
  <2> QED BY <2>1, Zenon DEF Spells
<1>7. ASSUME NEW y PROVE y \in Range(l) <=> y = h \/ y \in Range(r)
  <2>1. ASSUME NEW j \in 1 .. Len(l), l[j] = y, j # 1 PROVE j - 1 \in 1 .. Len(r) /\ r[j - 1] = y
    BY <2>1, <1>2, <1>3
  <2>2. \A j \in 1 .. Len(r) : j + 1 \in 1 .. Len(l) /\ l[j + 1] = r[j]
    BY <1>2, <1>3
  <2> QED BY <2>1, <2>2, <1>2, <1>4, <1>5, Zenon
<1>8. Spells(nx[h], nx, r)
  <2>1. \A j, k \in 1 .. Len(r) : r[j] = r[k] => j = k
    <3> SUFFICES ASSUME NEW j \in 1 .. Len(r), NEW k \in 1 .. Len(r), r[j] = r[k] PROVE j = k
      BY Zenon
    <3>1. j + 1 \in 1 .. Len(l) /\ k + 1 \in 1 .. Len(l) /\ l[j + 1] = l[k + 1]
      BY <1>2, <1>3
    <3>2. j + 1 = k + 1
      BY <3>1, Zenon DEF Spells
    <3> QED BY <3>2, <1>3
  <2>2. nx[h] = IF r = <<>> THEN NULL ELSE r[1]
    <3>1. nx[l[1]] = IF 1 = Len(l) THEN NULL ELSE l[1 + 1]
      <4>1. 1 \in 1 .. Len(l)
        BY <1>2
      <4> QED BY <4>1, Zenon DEF Spells
    <3>2. r = <<>> <=> Len(l) = 1
      BY <1>2, <1>3, SeqEmpty
    <3>3. Len(l) # 1 => r[1] = l[2]
      BY <1>2, <1>3
    <3> QED BY <3>1, <3>2, <3>3, <1>4
  <2>3. ASSUME NEW k \in 1 .. Len(r) PROVE nx[r[k]] = IF k = Len(r) THEN NULL ELSE r[k + 1]
    <3>1. k + 1 \in 1 .. Len(l) /\ r[k] = l[k + 1]
      BY <1>2, <1>3
    <3>2. nx[l[k + 1]] = IF k + 1 = Len(l) THEN NULL ELSE l[k + 2]
      BY <3>1, <1>2 DEF Spells
    <3>3. k # Len(r) => r[k + 1] = l[k + 2]
      BY <1>2, <1>3
    <3> QED BY <3>1, <3>2, <3>3, <1>2, <1>3
  <2> QED BY <2>1, <2>2, <2>3, Zenon DEF Spells
<1> QED BY <1>2, <1>3, <1>4, <1>6, <1>7, <1>8, Zenon DEF r

\* A block whose link is the head becomes the head, as when the compare-and-swap of
\* bt_slab_free succeeds.
LEMMA SpellsPush ==
  ASSUME NEW S, NEW l \in Seq(S), NEW nx, NEW x \in S, x \notin Range(l), Spells(nx[x], nx, l)
  PROVE  /\ Spells(x, nx, <<x>> \o l) /\ <<x>> \o l \in Seq(S) /\ Len(<<x>> \o l) = Len(l) + 1
         /\ \A y : y \in Range(<<x>> \o l) <=> y = x \/ y \in Range(l)
<1> DEFINE c == <<x>> \o l
<1>1. /\ c \in Seq(S) /\ Len(c) = Len(l) + 1 /\ c[1] = x /\ Len(l) \in Nat
      /\ \A k \in 1 .. Len(l) : c[k + 1] = l[k]
  BY SeqConcat, SeqLen
<1>2. /\ \A y : y \in Range(l) <=> \E j \in 1 .. Len(l) : l[j] = y
      /\ \A y : y \in Range(c) <=> \E j \in 1 .. Len(c) : c[j] = y
  BY <1>1 DEF Range
<1> HIDE DEF c
<1>3. \A k \in 1 .. Len(c) : k # 1 => k - 1 \in 1 .. Len(l) /\ c[k] = l[k - 1] /\ c[k] # x
  <2> SUFFICES ASSUME NEW k \in 1 .. Len(c), k # 1
               PROVE  k - 1 \in 1 .. Len(l) /\ c[k] = l[k - 1] /\ c[k] # x
    BY Zenon
  <2>1. k - 1 \in 1 .. Len(l) /\ (k - 1) + 1 = k
    BY <1>1
  <2>2. c[k] = l[k - 1]
    BY <2>1, <1>1, Zenon
  <2> QED BY <2>1, <2>2, <1>2, Zenon
<1>4. ASSUME NEW y PROVE y \in Range(c) <=> y = x \/ y \in Range(l)
  <2>1. \A k \in 1 .. Len(l) : k + 1 \in 1 .. Len(c) /\ c[k + 1] = l[k]
    BY <1>1
  <2>2. 1 \in 1 .. Len(c)
    BY <1>1
  <2>3. ASSUME y \in Range(c) PROVE y = x \/ y \in Range(l)
    BY <2>3, <1>1, <1>2, <1>3, Zenon
  <2>4. ASSUME y = x \/ y \in Range(l) PROVE y \in Range(c)
    BY <2>1, <2>2, <2>4, <1>1, <1>2, Zenon
  <2> QED BY <2>3, <2>4, Zenon
<1>5. Spells(x, nx, c)
  <2>1. \A j, k \in 1 .. Len(c) : c[j] = c[k] => j = k
    <3> SUFFICES ASSUME NEW j \in 1 .. Len(c), NEW k \in 1 .. Len(c), c[j] = c[k] PROVE j = k
      BY Zenon
    <3>1. CASE j = 1 \/ k = 1
      BY <3>1, <1>1, <1>3, Zenon
    <3>2. CASE j # 1 /\ k # 1
      <4>1. j - 1 = k - 1
        BY <3>2, <1>3, Zenon DEF Spells
      <4> QED BY <4>1, <1>1
    <3> QED BY <3>1, <3>2, Zenon
  <2>2. x = IF c = <<>> THEN NULL ELSE c[1]
    BY <1>1, SeqEmpty
  <2>3. ASSUME NEW k \in 1 .. Len(c) PROVE nx[c[k]] = IF k = Len(c) THEN NULL ELSE c[k + 1]
    <3>1. CASE k = 1
      <4>1. nx[x] = IF l = <<>> THEN NULL ELSE l[1]
        BY Zenon DEF Spells
      <4>2. l = <<>> <=> Len(l) = 0
        BY SeqEmpty, Zenon
      <4>3. Len(l) # 0 => c[2] = l[1]
        BY <1>1
      <4> QED BY <3>1, <4>1, <4>2, <4>3, <1>1
    <3>2. CASE k # 1
      <4>1. k - 1 \in 1 .. Len(l) /\ c[k] = l[k - 1]
        BY <3>2, <1>3, Zenon
      <4>2. nx[l[k - 1]] = IF k - 1 = Len(l) THEN NULL ELSE l[(k - 1) + 1]
        BY <4>1, Zenon DEF Spells
      <4>3. k # Len(c) => c[k + 1] = l[(k - 1) + 1]
        BY <4>1, <1>1
      <4> QED BY <4>1, <4>2, <4>3, <1>1
    <3> QED BY <3>1, <3>2, Zenon
  <2> QED BY <2>1, <2>2, <2>3, Zenon DEF Spells
<1> QED BY <1>1, <1>4, <1>5, Zenon DEF c

\* Links of blocks outside of the list do not matter to it: what a user or a call
\* of bt_slab_free writes into its own block.
LEMMA SpellsElsewhere ==
  ASSUME NEW S, NEW l \in Seq(S), NEW h, NEW nx, NEW ny, Spells(h, nx, l),
         \A x \in Range(l) : ny[x] = nx[x]
  PROVE  Spells(h, ny, l)
<1>1. \A k \in 1 .. Len(l) : l[k] \in Range(l)
  BY DEF Range
<1> QED BY <1>1, Zenon DEF Spells

\* The list bt_slab_init makes: the last block first.
LEMMA SpellsInit ==
  ASSUME FiniteFacts
  PROVE  LET l == [k \in 1 .. Num |-> Num + 1 - k]
  IN  /\ Spells(Num, Linked, l) /\ l \in Seq(Blocks) /\ Len(l) = Num /\ Range(l) = Blocks
<1> DEFINE l == [k \in 1 .. Num |-> Num + 1 - k]
<1>1. Num \in Nat \ {0} /\ Blocks = 1 .. Num
  <2>1. Num \in Nat
    BY SlabAssumption, Zenon DEF FiniteFacts, Num
  <2> QED BY <2>1, SlabAssumption DEF Num
<1>2. l \in Seq(Blocks) /\ Len(l) = Num /\ \A k \in 1 .. Num : l[k] = Num + 1 - k
  BY <1>1
<1>3. Range(l) = Blocks
  <2>1. \A b \in Blocks : Num + 1 - b \in 1 .. Num /\ l[Num + 1 - b] = b
    BY <1>1
  <2>2. \A k \in 1 .. Num : l[k] \in Blocks
    BY <1>1
  <2> QED BY <2>1, <2>2, Zenon DEF Range
<1>4. Spells(Num, Linked, l)
  <2>1. \A j, k \in 1 .. Len(l) : l[j] = l[k] => j = k
    BY <1>1, <1>2
  <2>2. Num = IF l = <<>> THEN NULL ELSE l[1]
    BY <1>1, <1>2, SeqEmpty
  <2> HIDE DEF l
  <2>3. ASSUME NEW k \in 1 .. Len(l) PROVE Linked[l[k]] = IF k = Len(l) THEN NULL ELSE l[k + 1]
    <3>0. k \in 1 .. Num /\ l[k] = Num + 1 - k
      BY <1>2, Zenon
    <3>1. l[k] \in Blocks /\ (l[k] = 1 <=> k = Len(l))
      <4>1. Len(l) = Num /\ Num \in Nat /\ Blocks = 1 .. Num
        BY <1>1, <1>2, Zenon
      <4> QED BY <3>0, <4>1
    <3>2. Linked[l[k]] = IF l[k] = 1 THEN NULL ELSE l[k] - 1
      BY <3>1, Zenon DEF Linked
    <3>3. k # Len(l) => l[k + 1] = l[k] - 1
      <4>1. k # Len(l) => k + 1 \in 1 .. Num
        BY <1>1, <1>2
      <4> QED BY <4>1, <3>0, <1>1, <1>2
    <3> QED BY <3>1, <3>2, <3>3, Zenon
  <2> QED BY <2>1, <2>2, <2>3, Zenon DEF Spells
<1> QED BY <1>2, <1>3, <1>4, Zenon
--------------------------------------------------------------------------------
(* The steps of bt_slab_alloc and bt_slab_free: the lists and the owners *)

\* A step of thread t leaves the locals of the other calls alone.
Alone(t) == \A u \in Threads : u # t =>
              /\ pc'[u] = pc[u] /\ at'[u] = at[u] /\ ptr'[u] = ptr[u]
              /\ old_head'[u] = old_head[u] /\ new_head'[u] = new_head[u]

\* No slab loses a block in a step.
Keeps == \A i \in Slabs : Complete(i) => Complete(i)'

\* Listed blocks are blocks.
LEMMA ListedBlocks ==
  ASSUME SlabTypes, NEW i \in Slabs
  PROVE  list[i] \in Seq(Blocks) /\ Listed(i) \subseteq Blocks
BY DEF SlabTypes, Listed, Range

\* The first block of a list that is not empty is listed.
LEMMA HeadListed ==
  ASSUME SlabInv, NEW i \in Slabs, free_list[i] # NULL
  PROVE  free_list[i] \in Listed(i)
<1>1. Spells(free_list[i], link[i], list[i]) /\ list[i] \in Seq(Blocks)
  BY ListedBlocks, Zenon DEF SlabInv, ListExact
<1>2. list[i] # <<>> /\ free_list[i] = list[i][1]
  BY <1>1, Zenon DEF Spells
<1>3. 1 \in 1 .. Len(list[i])
  BY <1>1, <1>2, SeqEmpty
<1> QED BY <1>1, <1>2, <1>3 DEF Listed, Range

\* The steps in which a call reads the list or counts.
Looks(t) == \/ t \in Allocators /\ \E i \in Slabs : AllocCall(t, i)
            \/ AllocLoad(t) \/ AllocFollow(t) \/ AllocAgain(t) \/ AllocCount(t)
            \/ pc[t] \in {"got", "none"} /\ AllocDone(t)
            \/ FreeLoad(t) \/ FreeAgain(t) \/ FreeCount(t) \/ FreeTest(t) \/ FreeLower(t)

\* They change the locals of the call and the counters, and keep what it knows.
LEMMA LookStep ==
  ASSUME FiniteFacts, SlabInv, NEW t \in Threads, Looks(t)
  PROVE  SlabInv' /\ Keeps /\ Alone(t) /\ UNCHANGED <<free_list, link, owned, list>>
<1> USE DEF SlabInv
<1>1. UNCHANGED <<free_list, link, owned, list>>
  BY Zenon DEF Looks, AllocCall, AllocLoad, AllocFollow, AllocAgain, AllocCount, AllocDone, FreeLoad,
         FreeAgain, FreeCount, FreeTest, FreeLower
<1>2. Alone(t)
  BY DEF SlabTypes, Alone, Looks, AllocCall, AllocLoad, AllocFollow, AllocAgain, AllocCount, AllocDone,
         FreeLoad, FreeAgain, FreeCount, FreeTest, FreeLower
<1>3. \A i \in Slabs : Listed(i)' = Listed(i) /\ Listed(i) \subseteq Blocks
  BY <1>1, ListedBlocks, Zenon DEF Listed
<1>4. SlabTypes'
  <2>1. pc[t] = "follow" => old_head[t] \in Blocks
    BY <1>3, Zenon DEF Allocating, Knows, SlabTypes
  <2>2. CountMod \in Nat \ {0}
    BY SlabAssumption DEF FiniteFacts
  <2>3. \A n \in 0 .. CountMod - 1 : (n + 1) % CountMod \in 0 .. CountMod - 1
                                     /\ (n - 1) % CountMod \in 0 .. CountMod - 1
    BY <2>2
  <2>4. CASE t \in Allocators /\ \E i \in Slabs : AllocCall(t, i)
    <3>1. PICK i \in Slabs : AllocCall(t, i)
      BY <2>4, Zenon
    <3> QED BY <3>1, Zenon DEF SlabTypes, AllocCall
  <2>5. CASE AllocLoad(t)
    BY <2>1, <2>3, <2>5, Zenon DEF SlabTypes, AllocLoad
  <2>6. CASE AllocFollow(t)
    BY <2>1, <2>3, <2>6, Zenon DEF SlabTypes, AllocFollow
  <2>7. CASE AllocAgain(t)
    BY <2>1, <2>3, <2>7, Zenon DEF SlabTypes, AllocAgain
  <2>8. CASE AllocCount(t)
    BY <2>1, <2>3, <2>8, Zenon DEF SlabTypes, AllocCount
  <2>9. CASE pc[t] \in {"got", "none"} /\ AllocDone(t)
    BY <2>1, <2>3, <2>9, Zenon DEF SlabTypes, AllocDone
  <2>10. CASE FreeLoad(t)
    BY <2>1, <2>3, <2>10, Zenon DEF SlabTypes, FreeLoad
  <2>11. CASE FreeAgain(t)
    BY <2>1, <2>3, <2>11, Zenon DEF SlabTypes, FreeAgain
  <2>12. CASE FreeCount(t)
    BY <2>1, <2>3, <2>12, Zenon DEF SlabTypes, FreeCount
  <2>13. CASE FreeTest(t)
    BY <2>1, <2>3, <2>13, Zenon DEF SlabTypes, FreeTest
  <2>14. CASE FreeLower(t)
    BY <2>1, <2>3, <2>14, Zenon DEF SlabTypes, FreeLower
  <2> QED BY <2>4, <2>5, <2>6, <2>7, <2>8, <2>9, <2>10, <2>11, <2>12, <2>13, <2>14, Zenon DEF Looks
<1>5. \A i \in Slabs : ListExact(i)'
  BY <1>1, Zenon DEF ListExact
<1>6. /\ Carries(t)' <=> Carries(t)
      /\ Carries(t) => Carried(t)' = Carried(t) /\ at'[t] = at[t]
  BY DEF Carries, Carried, SlabTypes, Looks, AllocCall, AllocLoad, AllocFollow, AllocAgain, AllocCount,
         AllocDone, FreeLoad, FreeAgain, FreeCount, FreeTest, FreeLower
<1>7. \A u \in Threads : /\ Carries(u)' <=> Carries(u)
                         /\ Carries(u) => Carried(u)' = Carried(u) /\ at'[u] = at[u]
  BY <1>2, <1>6, Zenon DEF Alone, Carries, Carried
<1>8. OneOwner'
  <2>1. \A x \in owned' : x[2] \notin Listed(x[1])'
    BY <1>1, <1>3, Zenon DEF OneOwner, SlabTypes
  <2>2. ASSUME NEW u \in Threads, Carries(u)'
        PROVE  /\ Carried(u)' \notin owned' /\ Carried(u)'[2] \notin Listed(at[u])'
               /\ \A v \in Threads \ {u} : Carries(v)' => Carried(v)' # Carried(u)'
    BY <2>2, <1>1, <1>3, <1>7, Zenon DEF OneOwner, SlabTypes, Listed
  <2> QED BY <2>1, <2>2, Zenon DEF OneOwner
<1>9. Knows(t)'
  <2>1. free_list[at[t]] # NULL => free_list[at[t]] \in Listed(at[t])
    BY HeadListed, Zenon DEF SlabTypes
  <2>2. Knows(t) /\ Listed(at[t])' = Range(list[at'[t]])
    BY <1>1, Zenon DEF Listed
  <2>3. CASE t \in Allocators /\ \E i \in Slabs : AllocCall(t, i)
    BY <2>1, <2>2, <2>3, <1>1 DEF Allocating, Knows, Listed, SlabTypes, AllocCall
  <2>4. CASE AllocLoad(t)
    BY <2>1, <2>2, <2>4, <1>1, Zenon DEF Allocating, Knows, Listed, SlabTypes, AllocLoad
  <2>5. CASE AllocFollow(t)
    BY <2>1, <2>2, <2>5, <1>1, Zenon DEF Allocating, Knows, Listed, SlabTypes, AllocFollow
  <2>6. CASE AllocAgain(t)
    BY <2>1, <2>2, <2>6, <1>1, Zenon DEF Allocating, Knows, Listed, SlabTypes, AllocAgain
  <2>7. CASE AllocCount(t)
    BY <2>1, <2>2, <2>7, <1>1, Zenon DEF Allocating, Knows, Listed, SlabTypes, AllocCount
  <2>8. CASE pc[t] \in {"got", "none"} /\ AllocDone(t)
    BY <2>1, <2>2, <2>8, <1>1, Zenon DEF Allocating, Knows, Listed, SlabTypes, AllocDone
  <2>9. CASE FreeLoad(t)
    BY <2>1, <2>2, <2>9, <1>1, Zenon DEF Allocating, Knows, Listed, SlabTypes, FreeLoad
  <2>10. CASE FreeAgain(t)
    BY <2>1, <2>2, <2>10, <1>1, Zenon DEF Allocating, Knows, Listed, SlabTypes, FreeAgain
  <2>11. CASE FreeCount(t)
    BY <2>1, <2>2, <2>11, <1>1, Zenon DEF Allocating, Knows, Listed, SlabTypes, FreeCount
  <2>12. CASE FreeTest(t)
    BY <2>1, <2>2, <2>12, <1>1, Zenon DEF Allocating, Knows, Listed, SlabTypes, FreeTest
  <2>13. CASE FreeLower(t)
    BY <2>1, <2>2, <2>13, <1>1, Zenon DEF Allocating, Knows, Listed, SlabTypes, FreeLower
  <2> QED BY <2>3, <2>4, <2>5, <2>6, <2>7, <2>8, <2>9, <2>10, <2>11, <2>12, <2>13, Zenon DEF Looks
<1>10. \A u \in Threads : Knows(u)'
  BY <1>1, <1>2, <1>9 DEF Alone, Allocating, Knows, Listed
<1>11. Keeps
  BY <1>1, <1>3, <1>7, Zenon DEF Keeps, Complete
<1> QED BY <1>1, <1>2, <1>4, <1>5, <1>8, <1>10, <1>11, Zenon

\* What the other calls carry does not change with a step of t.
LEMMA OthersCarry ==
  ASSUME NEW t \in Threads, Alone(t), NEW u \in Threads, u # t
  PROVE  (Carries(u)' <=> Carries(u)) /\ Carried(u)' = Carried(u) /\ at'[u] = at[u]
BY Zenon DEF Alone, Carries, Carried

\* The compare-and-swap that takes the first block.  Only here is it used that no
\* other thread allocates: another call would be left with a taken block.
LEMMA TakeStep ==
  ASSUME OneAllocator, SlabInv, NEW t \in Threads, AllocTake(t)
  PROVE  /\ SlabInv' /\ Keeps /\ Alone(t) /\ owned' = owned
         /\ Len(list'[at[t]]) = Len(list[at[t]]) - 1
         /\ \A j \in Slabs : j # at[t] => list'[j] = list[j]
         /\ list[at[t]] # <<>>
<1> USE DEF SlabInv
<1> DEFINE i == at[t]
           h == old_head[t]
<1>1. /\ pc[t] = "take" /\ pc' = [pc EXCEPT ![t] = "taken"] /\ free_list[i] = h
      /\ free_list' = [free_list EXCEPT ![i] = new_head[t]]
      /\ list' = [list EXCEPT ![i] = Tail(@)]
      /\ UNCHANGED <<link, alloc_count, free_count, at, old_head, new_head, ptr, owned>>
  BY Zenon DEF AllocTake, TakeWins
<1>2. i \in Slabs /\ h \in Listed(i) /\ new_head[t] = link[i][h] /\ t \in Allocators
  BY <1>1, Zenon DEF Allocating, Knows, SlabTypes
<1>3. /\ Spells(link[i][h], link[i], Tail(list[i])) /\ Tail(list[i]) \in Seq(Blocks)
      /\ Len(Tail(list[i])) = Len(list[i]) - 1 /\ h \in Blocks /\ h \notin Range(Tail(list[i]))
      /\ \A y : y \in Listed(i) <=> y = h \/ y \in Range(Tail(list[i]))
  <2>1. list[i] \in Seq(Blocks) /\ Spells(h, link[i], list[i])
    BY <1>1, <1>2, ListedBlocks, Zenon DEF ListExact
  <2> QED BY <2>1, <1>2, SpellsTail, Zenon DEF Listed
<1>4. Alone(t) /\ pc'[t] = "taken"
  BY <1>1, Zenon DEF Alone, SlabTypes
<1>5. /\ list'[i] = Tail(list[i]) /\ \A j \in Slabs : j # i => list'[j] = list[j]
      /\ free_list'[i] = link[i][h] /\ \A j \in Slabs : j # i => free_list'[j] = free_list[j]
  BY <1>1, <1>2, Zenon DEF SlabTypes
<1>6. /\ \A y : y \in Listed(i) <=> y = h \/ y \in Listed(i)'
      /\ h \notin Listed(i)'
      /\ \A j \in Slabs : j # i => Listed(j)' = Listed(j)
  <2>1. Listed(i)' = Range(list'[i])
    BY <1>1, Zenon DEF Listed
  <2> QED BY <2>1, <1>1, <1>3, <1>5, Zenon DEF Listed
<1>7. list[i] # <<>>
  BY <1>2 DEF Listed, Range
<1>8. SlabTypes'
  <2>1. link[i][h] \in Pointers
    <3>1. Tail(list[i]) # <<>> => Tail(list[i])[1] \in Blocks
      BY <1>3, SeqEmpty
    <3> QED BY <3>1, <1>3, Zenon DEF Spells, Pointers
  <2>2. list' \in [Slabs -> Seq(Blocks)]
    BY <1>1, <1>3, Zenon DEF SlabTypes
  <2>3. free_list' \in [Slabs -> Pointers]
    BY <2>1, <1>1, <1>2, Zenon DEF SlabTypes
  <2>4. pc' \in [Threads -> {"idle", "again", "follow", "take", "taken", "counted", "got",
                             "none", "load", "link", "push", "pushed", "uncount", "lower"}]
    BY <1>1, Zenon DEF SlabTypes
  <2> QED BY <2>2, <2>3, <2>4, <1>1, Zenon DEF SlabTypes
<1>9. \A j \in Slabs : ListExact(j)'
  BY <1>1, <1>2, <1>3, <1>5 DEF ListExact
<1>10. ~Carries(t) /\ Carries(t)' /\ Carried(t)' = <<i, h>>
  BY <1>1, <1>4, Zenon DEF Carries, Carried
<1>11. \A u \in Threads : u # t /\ Carries(u) => Carried(u) # <<i, h>>
  BY <1>2, Zenon DEF OneOwner, Carried
<1>12. <<i, h>> \notin owned
  BY <1>2, Zenon DEF OneOwner
<1>13. OneOwner'
  <2>1. \A x \in owned' : x[2] \notin Listed(x[1])'
    BY <1>1, <1>2, <1>6, Zenon DEF OneOwner, SlabTypes
  <2>2. ASSUME NEW u \in Threads, Carries(u)', u # t
        PROVE  /\ Carried(u)' \notin owned' /\ Carried(u)'[2] \notin Listed(at[u])'
               /\ \A v \in Threads \ {u} : Carries(v)' => Carried(v)' # Carried(u)'
    <3>1. Carries(u) /\ Carried(u)' = Carried(u) /\ at'[u] = at[u] /\ at[u] \in Slabs
      BY <2>2, <1>4, OthersCarry, Zenon DEF SlabTypes
    <3>2. Carried(u)[2] \notin Listed(at[u])'
      BY <3>1, <1>1, <1>6, Zenon DEF OneOwner
    <3>3. \A v \in Threads \ {u} : v # t /\ Carries(v)' => Carried(v)' # Carried(u)'
      BY <3>1, <1>4, OthersCarry, Zenon DEF OneOwner
    <3> QED BY <3>1, <3>2, <3>3, <2>2, <1>1, <1>10, <1>11, Zenon DEF OneOwner
  <2>3. /\ Carried(t)' \notin owned' /\ Carried(t)'[2] \notin Listed(at[t])'
        /\ \A v \in Threads \ {t} : Carries(v)' => Carried(v)' # Carried(t)'
    BY <1>1, <1>4, <1>6, <1>10, <1>11, <1>12, OthersCarry
  <2> QED BY <2>1, <2>2, <2>3, Zenon DEF OneOwner
<1>14. ASSUME NEW u \in Threads PROVE Knows(u)'
  <2>1. CASE u = t
    BY <2>1, <1>1, <1>2, <1>3, <1>4, Zenon DEF Allocating, Knows
  <2>2. CASE u # t
    <3>1. pc[u] \notin {"follow", "take"} /\ Knows(u)
      BY <2>2, <1>2, Zenon DEF OneAllocator, Allocating, Knows
    <3> QED BY <3>1, <2>2, <1>1, <1>4, Zenon DEF Allocating, Knows, Alone
  <2> QED BY <2>1, <2>2, Zenon
<1>15. Keeps
  <2> SUFFICES ASSUME NEW j \in Slabs, Complete(j), NEW b \in Blocks
               PROVE  \/ b \in Listed(j)' \/ <<j, b>> \in owned'
                      \/ \E u \in Threads : Carries(u)' /\ Carried(u)' = <<j, b>>
    BY Zenon DEF Keeps, Complete
  <2>1. CASE \E u \in Threads : Carries(u) /\ Carried(u) = <<j, b>>
    BY <2>1, <1>4, <1>10, OthersCarry, Zenon
  <2>2. CASE b \in Listed(j)
    <3>1. CASE j = i /\ b = h
      BY <3>1, <1>10, Zenon
    <3>2. CASE j = i /\ b # h
      BY <3>2, <2>2, <1>1, <1>6, Zenon
    <3>3. CASE j # i
      BY <3>3, <2>2, <1>6, Zenon
    <3> QED BY <3>1, <3>2, <3>3, Zenon
  <2> QED BY <2>1, <2>2, <1>1, Zenon DEF Complete
<1> QED BY <1>1, <1>3, <1>4, <1>5, <1>7, <1>8, <1>9, <1>13, <1>14, <1>15, Zenon

\* The block passes from bt_slab_alloc to its user, who may write over the link.
LEMMA GiveStep ==
  ASSUME FiniteFacts, SlabInv, NEW t \in Threads, AllocReturn(t)
  PROVE  /\ SlabInv' /\ Keeps /\ Alone(t) /\ list' = list
         /\ owned' = owned \cup {<<at[t], old_head[t]>>} /\ <<at[t], old_head[t]>> \notin owned
         /\ at[t] \in Slabs /\ old_head[t] \in Blocks
<1> USE DEF SlabInv
<1> DEFINE i == at[t]
           h == old_head[t]
<1>1. /\ pc[t] = "counted" /\ pc' = [pc EXCEPT ![t] = "got"]
      /\ free_count' = [free_count EXCEPT ![i] = (@ - 1) % CountMod]
      /\ owned' = owned \cup {<<i, h>>} /\ link' = [link EXCEPT ![i][h] = Data]
      /\ UNCHANGED <<free_list, alloc_count, at, old_head, new_head, ptr, list>>
  BY Zenon DEF AllocReturn
<1>2. i \in Slabs /\ h \in Blocks /\ t \in Allocators
  BY <1>1, Zenon DEF Allocating, Knows, SlabTypes
<1>3. /\ Alone(t) /\ pc'[t] = "got" /\ \A j \in Slabs : Listed(j)' = Listed(j)
  BY <1>1, Zenon DEF Alone, SlabTypes, Listed
<1>4. Carries(t) /\ Carried(t) = <<i, h>> /\ ~Carries(t)'
  BY <1>1, <1>3, Zenon DEF Carries, Carried
<1>5. <<i, h>> \notin owned /\ h \notin Listed(i)
  BY <1>4 DEF OneOwner
<1>6. \A j \in Slabs, b \in Blocks : <<j, b>> # <<i, h>> => link'[j][b] = link[j][b]
  BY <1>1, <1>2, Zenon DEF SlabTypes
<1>7. SlabTypes'
  <2>1. CountMod \in Nat \ {0}
    BY SlabAssumption DEF FiniteFacts
  <2>2. \A n \in 0 .. CountMod - 1 : (n - 1) % CountMod \in 0 .. CountMod - 1
    BY <2>1
  <2>3. free_count' \in [Slabs -> 0 .. CountMod - 1]
    BY <2>2, <1>1, Zenon DEF SlabTypes
  <2>4. link' \in [Slabs -> [Blocks -> Pointers \cup {Data}]]
    BY <1>1, <1>2, Zenon DEF SlabTypes
  <2>5. owned' \subseteq Slabs \X Blocks
    BY <1>1, <1>2 DEF SlabTypes
  <2>6. pc' \in [Threads -> {"idle", "again", "follow", "take", "taken", "counted", "got",
                             "none", "load", "link", "push", "pushed", "uncount", "lower"}]
    BY <1>1, Zenon DEF SlabTypes
  <2> QED BY <2>3, <2>4, <2>5, <2>6, <1>1, Zenon DEF SlabTypes
<1>8. ASSUME NEW j \in Slabs PROVE ListExact(j)'
  <2>1. Spells(free_list[j], link[j], list[j]) /\ list[j] \in Seq(Blocks)
    BY ListedBlocks, Zenon DEF ListExact
  <2>2. \A x \in Range(list[j]) : x \in Blocks /\ <<j, x>> # <<i, h>>
    BY <1>5, ListedBlocks, Zenon DEF Listed
  <2>3. \A x \in Range(list[j]) : link'[j][x] = link[j][x]
    BY <2>2, <1>6, Zenon
  <2>4. Spells(free_list[j], link'[j], list[j])
    BY <2>1, <2>3, SpellsElsewhere, Zenon
  <2> QED BY <2>4, <1>1, Zenon DEF ListExact
<1>9. OneOwner'
  <2>1. \A x \in owned' : x[2] \notin Listed(x[1])'
    BY <1>1, <1>2, <1>3, <1>5 DEF OneOwner, SlabTypes
  <2>2. ASSUME NEW u \in Threads, Carries(u)'
        PROVE  /\ Carried(u)' \notin owned' /\ Carried(u)'[2] \notin Listed(at[u])'
               /\ \A v \in Threads \ {u} : Carries(v)' => Carried(v)' # Carried(u)'
    <3>0. u # t
      BY <2>2, <1>4, Zenon
    <3>1. Carries(u) /\ Carried(u)' = Carried(u) /\ at'[u] = at[u] /\ at[u] \in Slabs
      BY <3>0, <2>2, <1>3, OthersCarry, Zenon DEF SlabTypes
    <3>2. Carried(u) # <<i, h>> /\ Carried(u) \notin owned'
      BY <3>0, <3>1, <1>1, <1>4, Zenon DEF OneOwner
    <3>3. \A v \in Threads \ {u} : v # t /\ Carries(v)' => Carried(v)' # Carried(u)'
      BY <3>1, <1>3, OthersCarry, Zenon DEF OneOwner
    <3> QED BY <3>1, <3>2, <3>3, <1>1, <1>3, <1>4, Zenon DEF OneOwner
  <2> QED BY <2>1, <2>2, Zenon DEF OneOwner
<1>10. ASSUME NEW u \in Threads PROVE Knows(u)'
  <2>1. CASE u = t
    BY <2>1, <1>1, <1>2, <1>3, Zenon DEF Allocating, Knows
  <2>2. CASE u # t
    <3>1. Knows(u) /\ at[u] \in Slabs
      BY Zenon DEF SlabTypes
    <3>2. pc[u] = "take" => link'[at[u]][old_head[u]] = link[at[u]][old_head[u]]
      <4> SUFFICES ASSUME pc[u] = "take" PROVE <<at[u], old_head[u]>> # <<i, h>> /\ old_head[u] \in Blocks
        BY <3>1, <1>6, Zenon
      <4> QED BY <3>1, <1>5, ListedBlocks, Zenon DEF Allocating, Knows
    <3>3. pc[u] = "push" => link'[at[u]][ptr[u]] = link[at[u]][ptr[u]]
      <4> SUFFICES ASSUME pc[u] = "push" PROVE <<at[u], ptr[u]>> # <<i, h>> /\ ptr[u] \in Blocks
        BY <3>1, <1>6, Zenon
      <4>1. Carries(u) /\ Carried(u) = <<at[u], ptr[u]>>
        BY Zenon DEF Carries, Carried
      <4> QED BY <4>1, <3>1, <2>2, <1>4 DEF Allocating, Knows, OneOwner
    <3> QED BY <3>1, <3>2, <3>3, <2>2, <1>1, <1>3, Zenon DEF Allocating, Knows, Alone
  <2> QED BY <2>1, <2>2, Zenon
<1>11. Keeps
  <2> SUFFICES ASSUME NEW j \in Slabs, Complete(j), NEW b \in Blocks
               PROVE  \/ b \in Listed(j)' \/ <<j, b>> \in owned'
                      \/ \E u \in Threads : Carries(u)' /\ Carried(u)' = <<j, b>>
    BY Zenon DEF Keeps, Complete
  <2>1. CASE \E u \in Threads : Carries(u) /\ Carried(u) = <<j, b>>
    BY <2>1, <1>1, <1>3, <1>4, OthersCarry, Zenon
  <2> QED BY <2>1, <1>1, <1>3, Zenon DEF Complete
<1> QED BY <1>1, <1>2, <1>3, <1>5, <1>7, <1>8, <1>9, <1>10, <1>11, Zenon

\* A block in use is given to bt_slab_free: from now on only the call writes to it.
LEMMA FreeCallStep ==
  ASSUME SlabInv, NEW t \in Threads, NEW i \in Slabs, NEW b \in Blocks, <<i, b>> \in owned,
         FreeCall(t, i, b)
  PROVE  SlabInv' /\ Keeps /\ Alone(t) /\ UNCHANGED <<list, alloc_count, free_count>> /\ pc'[t] = "load"
<1> USE DEF SlabInv
<1>1. /\ pc[t] = "idle" /\ pc' = [pc EXCEPT ![t] = "load"] /\ owned' = owned \ {<<i, b>>}
      /\ at' = [at EXCEPT ![t] = i] /\ ptr' = [ptr EXCEPT ![t] = b]
      /\ UNCHANGED <<free_list, link, alloc_count, free_count, old_head, new_head, list>>
  BY Zenon DEF FreeCall, InRange
<1>2. /\ Alone(t) /\ pc'[t] = "load" /\ at'[t] = i /\ ptr'[t] = b
      /\ \A j \in Slabs : Listed(j)' = Listed(j)
  BY <1>1, Zenon DEF Alone, SlabTypes, Listed
<1>3. ~Carries(t) /\ Carries(t)' /\ Carried(t)' = <<i, b>>
  BY <1>1, <1>2, Zenon DEF Carries, Carried
<1>4. SlabTypes'
  BY <1>1, Zenon DEF SlabTypes, Pointers
<1>5. \A j \in Slabs : ListExact(j)'
  BY <1>1, Zenon DEF ListExact
<1>6. OneOwner'
  <2>1. \A x \in owned' : x[2] \notin Listed(x[1])'
    BY <1>1, <1>2, Zenon DEF OneOwner, SlabTypes
  <2>2. ASSUME NEW u \in Threads, Carries(u)', u # t
        PROVE  /\ Carried(u)' \notin owned' /\ Carried(u)'[2] \notin Listed(at[u])'
               /\ \A v \in Threads \ {u} : Carries(v)' => Carried(v)' # Carried(u)'
    <3>1. Carries(u) /\ Carried(u)' = Carried(u) /\ at'[u] = at[u] /\ at[u] \in Slabs
      BY <2>2, <1>2, OthersCarry, Zenon DEF SlabTypes
    <3>2. Carried(u) # <<i, b>> /\ Carried(u) \notin owned'
      BY <3>1, <1>1, Zenon DEF OneOwner
    <3>3. \A v \in Threads \ {u} : v # t /\ Carries(v)' => Carried(v)' # Carried(u)'
      BY <3>1, <1>2, OthersCarry, Zenon DEF OneOwner
    <3> QED BY <3>1, <3>2, <3>3, <1>2, <1>3, Zenon DEF OneOwner
  <2>3. /\ Carried(t)' \notin owned' /\ Carried(t)'[2] \notin Listed(at[t])'
        /\ \A v \in Threads \ {t} : Carries(v)' => Carried(v)' # Carried(t)'
    <3>1. b \notin Listed(i) /\ Listed(at[t])' = Listed(i)
      BY <1>1, <1>2, Zenon DEF OneOwner, Listed
    <3> QED BY <3>1, <2>2, <1>1, <1>3
  <2> QED BY <2>1, <2>2, <2>3, Zenon DEF OneOwner
<1>7. ASSUME NEW u \in Threads PROVE Knows(u)'
  <2>1. CASE u = t
    BY <2>1, <1>2, Zenon DEF Allocating, Knows
  <2>2. CASE u # t
    BY <2>2, <1>1, <1>2, Zenon DEF Allocating, Knows, Alone, Listed
  <2> QED BY <2>1, <2>2, Zenon
<1>8. Keeps
  <2> SUFFICES ASSUME NEW j \in Slabs, Complete(j), NEW c \in Blocks
               PROVE  \/ c \in Listed(j)' \/ <<j, c>> \in owned'
                      \/ \E u \in Threads : Carries(u)' /\ Carried(u)' = <<j, c>>
    BY Zenon DEF Keeps, Complete
  <2>1. CASE \E u \in Threads : Carries(u) /\ Carried(u) = <<j, c>>
    BY <2>1, <1>2, <1>3, OthersCarry, Zenon
  <2> QED BY <2>1, <1>1, <1>2, <1>3, Zenon DEF Complete
<1> QED BY <1>1, <1>2, <1>4, <1>5, <1>6, <1>7, <1>8, Zenon

\* The call writes the link of its own block.
LEMMA FreeLinkStep ==
  ASSUME SlabInv, NEW t \in Threads, FreeLink(t)
  PROVE  /\ SlabInv' /\ Keeps /\ Alone(t) /\ UNCHANGED <<list, owned, at, alloc_count, free_count>>
         /\ pc[t] = "link" /\ pc'[t] = "push"
<1> USE DEF SlabInv
<1> DEFINE i == at[t]
           b == ptr[t]
<1>1. /\ pc[t] = "link" /\ pc' = [pc EXCEPT ![t] = "push"]
      /\ link' = [link EXCEPT ![i][b] = old_head[t]]
      /\ UNCHANGED <<free_list, alloc_count, free_count, at, old_head, new_head, ptr, owned, list>>
  BY Zenon DEF FreeLink
<1>2. i \in Slabs /\ b \in Blocks
  BY <1>1, Zenon DEF Allocating, Knows, SlabTypes
<1>3. /\ Alone(t) /\ pc'[t] = "push" /\ \A j \in Slabs : Listed(j)' = Listed(j)
  BY <1>1, Zenon DEF Alone, SlabTypes, Listed
<1>4. /\ Carries(t) /\ Carried(t) = <<i, b>>
      /\ \A u \in Threads : (Carries(u)' <=> Carries(u)) /\ Carried(u)' = Carried(u) /\ at'[u] = at[u]
  <2>1. Carries(t) /\ Carries(t)' /\ Carried(t) = <<i, b>> /\ Carried(t)' = <<i, b>>
    BY <1>1, <1>3, Zenon DEF Carries, Carried
  <2> QED BY <2>1, <1>1, <1>3, OthersCarry, Zenon
<1>5. b \notin Listed(i)
  BY <1>4 DEF OneOwner
<1>6. /\ \A j \in Slabs, c \in Blocks : <<j, c>> # <<i, b>> => link'[j][c] = link[j][c]
      /\ link'[i][b] = old_head[t]
  BY <1>1, <1>2, Zenon DEF SlabTypes
<1>7. SlabTypes'
  <2>1. link' \in [Slabs -> [Blocks -> Pointers \cup {Data}]]
    BY <1>1, <1>2, Zenon DEF SlabTypes
  <2> QED BY <2>1, <1>1, Zenon DEF SlabTypes
<1>8. ASSUME NEW j \in Slabs PROVE ListExact(j)'
  <2>1. Spells(free_list[j], link[j], list[j]) /\ list[j] \in Seq(Blocks)
    BY ListedBlocks, Zenon DEF ListExact
  <2>2. \A x \in Range(list[j]) : x \in Blocks /\ <<j, x>> # <<i, b>>
    BY <1>5, ListedBlocks, Zenon DEF Listed
  <2>3. \A x \in Range(list[j]) : link'[j][x] = link[j][x]
    BY <2>2, <1>6, Zenon
  <2>4. Spells(free_list[j], link'[j], list[j])
    BY <2>1, <2>3, SpellsElsewhere, Zenon
  <2> QED BY <2>4, <1>1, Zenon DEF ListExact
<1>9. OneOwner'
  <2>1. \A x \in owned' : x[2] \notin Listed(x[1])'
    BY <1>1, <1>3, Zenon DEF OneOwner, SlabTypes
  <2>2. ASSUME NEW u \in Threads, Carries(u)'
        PROVE  /\ Carried(u)' \notin owned' /\ Carried(u)'[2] \notin Listed(at[u])'
               /\ \A v \in Threads \ {u} : Carries(v)' => Carried(v)' # Carried(u)'
    BY <2>2, <1>1, <1>3, <1>4, Zenon DEF OneOwner, SlabTypes, Listed
  <2> QED BY <2>1, <2>2, Zenon DEF OneOwner
<1>10. ASSUME NEW u \in Threads PROVE Knows(u)'
  <2>1. CASE u = t
    BY <2>1, <1>1, <1>2, <1>3, <1>6, Zenon DEF Allocating, Knows
  <2>2. CASE u # t
    <3>1. Knows(u) /\ at[u] \in Slabs
      BY Zenon DEF SlabTypes
    <3>2. pc[u] = "take" => link'[at[u]][old_head[u]] = link[at[u]][old_head[u]]
      <4> SUFFICES ASSUME pc[u] = "take" PROVE <<at[u], old_head[u]>> # <<i, b>> /\ old_head[u] \in Blocks
        BY <3>1, <1>6, Zenon
      <4> QED BY <3>1, <1>5, ListedBlocks, Zenon DEF Allocating, Knows
    <3>3. pc[u] = "push" => link'[at[u]][ptr[u]] = link[at[u]][ptr[u]]
      <4> SUFFICES ASSUME pc[u] = "push" PROVE <<at[u], ptr[u]>> # <<i, b>> /\ ptr[u] \in Blocks
        BY <3>1, <1>6, Zenon
      <4>1. Carries(u) /\ Carried(u) = <<at[u], ptr[u]>>
        BY Zenon DEF Carries, Carried
      <4> QED BY <4>1, <3>1, <2>2, <1>4 DEF Allocating, Knows, OneOwner
    <3> QED BY <3>1, <3>2, <3>3, <2>2, <1>1, <1>3, Zenon DEF Allocating, Knows, Alone
  <2> QED BY <2>1, <2>2, Zenon
<1>11. Keeps
  BY <1>1, <1>3, <1>4, Zenon DEF Keeps, Complete
<1> QED BY <1>1, <1>3, <1>7, <1>8, <1>9, <1>10, <1>11, Zenon

\* The compare-and-swap that puts the block in front of the list.
LEMMA PushStep ==
  ASSUME SlabInv, NEW t \in Threads, FreePush(t)
  PROVE  /\ SlabInv' /\ Keeps /\ Alone(t) /\ owned' = owned
         /\ Len(list'[at[t]]) = Len(list[at[t]]) + 1
         /\ \A j \in Slabs : j # at[t] => list'[j] = list[j]
<1> USE DEF SlabInv
<1> DEFINE i == at[t]
           b == ptr[t]
           l == <<b>> \o list[i]
<1>1. /\ pc[t] = "push" /\ pc' = [pc EXCEPT ![t] = "pushed"] /\ free_list[i] = old_head[t]
      /\ free_list' = [free_list EXCEPT ![i] = b]
      /\ list' = [list EXCEPT ![i] = <<b>> \o @]
      /\ UNCHANGED <<link, alloc_count, free_count, at, old_head, new_head, ptr, owned>>
  BY Zenon DEF FreePush, PushWins
<1>2. i \in Slabs /\ b \in Blocks /\ link[i][b] = free_list[i]
  BY <1>1, Zenon DEF Allocating, Knows, SlabTypes
<1>3. Alone(t) /\ pc'[t] = "pushed"
  BY <1>1, Zenon DEF Alone, SlabTypes
<1>4. Carries(t) /\ Carried(t) = <<i, b>> /\ ~Carries(t)'
  BY <1>1, <1>3, Zenon DEF Carries, Carried
<1>5. b \notin Listed(i) /\ <<i, b>> \notin owned
  BY <1>4 DEF OneOwner
<1>6. /\ Spells(b, link[i], l) /\ l \in Seq(Blocks) /\ Len(l) = Len(list[i]) + 1
      /\ \A y : y \in Range(l) <=> y = b \/ y \in Listed(i)
  <2>1. list[i] \in Seq(Blocks) /\ Spells(link[i][b], link[i], list[i]) /\ b \notin Range(list[i])
    BY <1>2, <1>5, ListedBlocks, Zenon DEF ListExact, Listed
  <2> QED BY <2>1, <1>2, SpellsPush, Zenon DEF Listed
<1>7. /\ list'[i] = l /\ \A j \in Slabs : j # i => list'[j] = list[j]
      /\ free_list'[i] = b /\ \A j \in Slabs : j # i => free_list'[j] = free_list[j]
  BY <1>1, <1>2, Zenon DEF SlabTypes
<1> HIDE DEF l
<1>8. /\ \A y : y \in Range(list'[i]) <=> y = b \/ y \in Listed(i)
      /\ \A j \in Slabs : j # i => Listed(j)' = Listed(j)
      /\ \A j \in Slabs : Listed(j)' = Range(list'[j])
  BY <1>6, <1>7, Zenon DEF Listed
<1>9. SlabTypes'
  <2>1. list' \in [Slabs -> Seq(Blocks)]
    BY <1>1, <1>6, Zenon DEF SlabTypes, l
  <2>2. free_list' \in [Slabs -> Pointers]
    BY <1>1, <1>2, Zenon DEF SlabTypes, Pointers
  <2>3. pc' \in [Threads -> {"idle", "again", "follow", "take", "taken", "counted", "got",
                             "none", "load", "link", "push", "pushed", "uncount", "lower"}]
    BY <1>1, Zenon DEF SlabTypes
  <2> QED BY <2>1, <2>2, <2>3, <1>1, Zenon DEF SlabTypes
<1>10. \A j \in Slabs : ListExact(j)'
  BY <1>1, <1>2, <1>6, <1>7, Zenon DEF ListExact
<1>11. OneOwner'
  <2>1. \A x \in owned' : x[2] \notin Listed(x[1])'
    <3> SUFFICES ASSUME NEW x \in owned PROVE x[2] \notin Range(list'[x[1]])
      BY <1>1, <1>8, Zenon DEF SlabTypes
    <3>1. x = <<x[1], x[2]>> /\ x[1] \in Slabs /\ x[2] \notin Listed(x[1])
      BY DEF SlabTypes, OneOwner
    <3> QED BY <3>1, <1>5, <1>8, Zenon
  <2>2. ASSUME NEW u \in Threads, Carries(u)'
        PROVE  /\ Carried(u)' \notin owned' /\ Carried(u)'[2] \notin Listed(at[u])'
               /\ \A v \in Threads \ {u} : Carries(v)' => Carried(v)' # Carried(u)'
    <3>0. u # t
      BY <2>2, <1>4, Zenon
    <3>1. Carries(u) /\ Carried(u)' = Carried(u) /\ at'[u] = at[u] /\ at[u] \in Slabs
      BY <3>0, <2>2, <1>3, OthersCarry, Zenon DEF SlabTypes
    <3>2. Carried(u) # <<i, b>> /\ Carried(u) = <<at[u], Carried(u)[2]>>
      <4>1. Carried(u) # <<i, b>>
        BY <3>0, <3>1, <1>4, Zenon DEF OneOwner
      <4> QED BY <4>1, Zenon DEF Carried
    <3>3. \A v \in Threads \ {u} : v # t /\ Carries(v)' => Carried(v)' # Carried(u)'
      BY <3>1, <1>3, OthersCarry, Zenon DEF OneOwner
    <3>4. Carried(u)[2] \notin Range(list'[at[u]])
      <4>1. Carried(u)[2] \notin Listed(at[u])
        BY <3>1, Zenon DEF OneOwner
      <4> QED BY <4>1, <3>1, <3>2, <1>8, Zenon
    <3> QED BY <3>1, <3>3, <3>4, <1>1, <1>4, Zenon DEF OneOwner, Listed
  <2> QED BY <2>1, <2>2, Zenon DEF OneOwner
<1>12. ASSUME NEW u \in Threads PROVE Knows(u)'
  <2>1. CASE u = t
    BY <2>1, <1>3, Zenon DEF Allocating, Knows
  <2>2. CASE u # t
    <3>1. old_head[u] \in Listed(at[u]) => old_head[u] \in Range(list'[at[u]])
      BY <1>8, Zenon DEF SlabTypes
    <3> QED BY <3>1, <2>2, <1>1, <1>3, Zenon DEF Allocating, Knows, Alone, Listed
  <2> QED BY <2>1, <2>2, Zenon
<1>13. Keeps
  <2> SUFFICES ASSUME NEW j \in Slabs, Complete(j), NEW c \in Blocks
               PROVE  \/ c \in Range(list'[j]) \/ <<j, c>> \in owned'
                      \/ \E u \in Threads : Carries(u)' /\ Carried(u)' = <<j, c>>
    BY Zenon DEF Keeps, Complete, Listed
  <2>1. CASE \E u \in Threads : Carries(u) /\ Carried(u) = <<j, c>>
    BY <2>1, <1>3, <1>4, <1>8, OthersCarry
  <2>2. CASE c \in Listed(j)
    BY <2>2, <1>8, Zenon
  <2> QED BY <2>1, <2>2, <1>1, Zenon DEF Complete
<1> QED BY <1>1, <1>3, <1>6, <1>7, <1>9, <1>10, <1>11, <1>12, <1>13, Zenon
--------------------------------------------------------------------------------
(* The counters of the slabs *)

One(b) == IF b THEN 1 ELSE 0

\* A set that changes in one element at most.
LEMMA CardStep ==
  ASSUME FiniteFacts, NEW S, NEW T, NEW x, IsFiniteSet(S), \A y : y # x => (y \in T <=> y \in S)
  PROVE  /\ IsFiniteSet(T) /\ Cardinality(S) \in Nat /\ Cardinality(T) \in Nat
         /\ Cardinality(T) = Cardinality(S) + One(x \in T) - One(x \in S)
<1>1. Cardinality(S) \in Nat
  BY Zenon DEF FiniteFacts
<1>2. CASE x \in T /\ x \notin S
  <2>1. T = S \cup {x}
    BY <1>2, Zenon
  <2> QED BY <2>1, <1>1, <1>2 DEF FiniteFacts, One
<1>3. CASE x \notin T /\ x \in S
  <2>1. T = S \ {x}
    BY <1>3, Zenon
  <2>2. IsFiniteSet(T) /\ Cardinality(T) = Cardinality(S) - 1
    BY <2>1, <1>3, Zenon DEF FiniteFacts
  <2>3. Cardinality(T) \in Nat
    BY <2>2, Zenon DEF FiniteFacts
  <2> QED BY <2>2, <2>3, <1>1, <1>3 DEF One
<1>4. CASE x \in T <=> x \in S
  <2>1. T = S
    BY <1>4
  <2> QED BY <2>1, <1>1 DEF One
<1> QED BY <1>2, <1>3, <1>4, Zenon

\* The calls of slab i at one of the steps, after a step of t.
LEMMA RunningStep ==
  ASSUME FiniteFacts, NEW t \in Threads, Alone(t), NEW i, NEW S
  PROVE  /\ Cardinality(Running(i, S)) \in 0 .. Cardinality(Threads)
         /\ Cardinality(Running(i, S)') \in 0 .. Cardinality(Threads)
         /\ Cardinality(Running(i, S)') = Cardinality(Running(i, S))
              + One(at'[t] = i /\ pc'[t] \in S) - One(at[t] = i /\ pc[t] \in S)
<1> DEFINE R == Running(i, S)
           Q == {u \in Threads : at'[u] = i /\ pc'[u] \in S}
<1>1. Running(i, S)' = Q
  BY Zenon DEF Running
<1>2. R \in SUBSET Threads /\ Q \in SUBSET Threads
  BY Zenon DEF Running
<1>3. /\ IsFiniteSet(R) /\ Cardinality(R) <= Cardinality(Threads)
      /\ Cardinality(Q) <= Cardinality(Threads) /\ Cardinality(Threads) \in Nat
  BY <1>2, SlabAssumption, Zenon DEF FiniteFacts
<1>4. \A u : u # t => (u \in Q <=> u \in R)
  BY Zenon DEF Alone, Running
<1>5. (t \in Q <=> at'[t] = i /\ pc'[t] \in S) /\ (t \in R <=> at[t] = i /\ pc[t] \in S)
  BY Zenon DEF Running
<1> HIDE DEF Q, R
<1>6. /\ Cardinality(R) \in Nat /\ Cardinality(Q) \in Nat
      /\ Cardinality(Q) = Cardinality(R) + One(t \in Q) - One(t \in R)
  BY <1>3, <1>4, CardStep, Zenon
<1>7. /\ One(t \in Q) = One(at'[t] = i /\ pc'[t] \in S)
      /\ One(t \in R) = One(at[t] = i /\ pc[t] \in S)
  BY <1>5, Zenon DEF One
<1> QED BY <1>1, <1>3, <1>6, <1>7 DEF R

\* Remainders of numbers that are at most one turn away.
LEMMA Wrapped ==
  ASSUME NEW m \in Nat \ {0}, NEW x \in Int, -m <= x, x < 2 * m
  PROVE  x % m = IF x < 0 THEN x + m ELSE IF x < m THEN x ELSE x - m
<1>1. CASE x < 0
  BY <1>1
<1>2. CASE 0 <= x /\ x < m
  BY <1>2
<1>3. CASE m <= x
  BY <1>3
<1> QED BY <1>1, <1>2, <1>3

\* A list of distinct blocks has at most as many as there are.
LEMMA ListLength ==
  ASSUME FiniteFacts, NEW l \in Seq(Blocks), NEW h, NEW nx, Spells(h, nx, l)
  PROVE  Len(l) \in 0 .. Num /\ Num \in Nat
<1> DEFINE n == Len(l)
<1>1. n \in Nat /\ l \in [1 .. n -> Blocks] /\ \A j, k \in 1 .. n : l[j] = l[k] => j = k
  BY SeqLen, Zenon DEF Spells
<1>2. Num \in Nat /\ IsFiniteSet(Blocks)
  BY SlabAssumption, Zenon DEF FiniteFacts, Num
<1> HIDE DEF n
<1>3. ASSUME Num < n PROVE FALSE
  <2>1. PigeonHole /\ Cardinality(Blocks) < n
    BY <1>3, Zenon DEF FiniteFacts, Num
  <2>2. n \in Nat
    BY <1>1, Zenon
  <2>3. \A g \in [1 .. n -> Blocks] : \E j, k \in 1 .. n : j # k /\ g[j] = g[k]
    BY <1>2, <2>1, <2>2, Zenon DEF PigeonHole
  <2> QED BY <1>1, <2>3, Zenon
<1> QED BY <1>1, <1>2, <1>3 DEF n

Raised == {"counted", "load", "link", "push", "pushed", "uncount", "lower"}
Uncounted == {"taken", "counted"}

\* a counter after an atomic addition of f, or none
Plus(n, f) == IF f = 0 THEN n ELSE (n + f) % CountMod

\* Additions to a counter that holds d modulo its width, and to one that does not
\* reach it.
LEMMA PlusWraps ==
  ASSUME NEW m \in Nat \ {0}, m = CountMod, NEW d \in Int, NEW e \in Int, NEW f \in -1 .. 1, e = d + f,
         -m < d, d < m, -m < e, e < m
  PROVE  /\ Plus(d % m, f) = e % m
         /\ d >= 0 /\ e >= 0 => Plus(d, f) = e
<1> DEFINE x == (d % m) + f
<1>1. -m <= d /\ d < 2 * m /\ -m <= e /\ e < 2 * m
  OBVIOUS
<1>2. d % m = IF d < 0 THEN d + m ELSE d
  BY <1>1, Wrapped, Zenon
<1>3. e % m = IF e < 0 THEN e + m ELSE e
  BY <1>1, Wrapped, Zenon
<1>4. x \in Int /\ -m <= x /\ x < 2 * m
  BY <1>2
<1> HIDE DEF x
<1>5. x % m = IF x < 0 THEN x + m ELSE IF x < m THEN x ELSE x - m
  BY <1>4, Wrapped, Zenon
<1>6. x % m = e % m
  BY <1>2, <1>3, <1>4, <1>5 DEF x
<1>7. Plus(d % m, f) = e % m
  BY <1>2, <1>3, <1>6 DEF Plus, x
<1> QED BY <1>2, <1>3, <1>7

In(t, i, S) == One(at[t] = i /\ pc[t] \in S)

\* A step of t changes the blocks of slab i in use by used, its list by len, and its
\* counters by a and f: as much as that and the step of the call ask for.
Moves(t, i, used, len, a, f) ==
  /\ Cardinality(InUse(i)') = Cardinality(InUse(i)) + used
  /\ Len(list'[i]) = Len(list[i]) + len
  /\ alloc_count'[i] = Plus(alloc_count[i], a)
  /\ free_count'[i] = Plus(free_count[i], f)
  /\ a = used + In(t, i, Raised)' - In(t, i, Raised)
  /\ f = len + In(t, i, Uncounted)' - In(t, i, Uncounted)
           - (In(t, i, {"pushed"})' - In(t, i, {"pushed"}))

\* Then the counters of slab i stay exact.
LEMMA CountersMove ==
  ASSUME FiniteFacts, SlabInv, SlabInv', CountsExact, NEW t \in Threads, Alone(t), NEW i \in Slabs,
         NEW used \in Int, NEW len \in Int, NEW a \in -1 .. 1, NEW f \in -1 .. 1,
         Moves(t, i, used, len, a, f)
  PROVE  /\ alloc_count'[i] = Cardinality(InUse(i)') + Cardinality(Running(i, Raised)')
         /\ free_count'[i] = (Len(list'[i]) + Cardinality(Running(i, Uncounted)')
                               - Cardinality(Running(i, {"pushed"})')) % CountMod
<1> DEFINE T == Cardinality(Threads)
           u == Cardinality(InUse(i))
           v == Cardinality(InUse(i)')
           r == Cardinality(Running(i, Raised))
           s == Cardinality(Running(i, Raised)')
           l == Len(list[i])
           ll == Len(list'[i])
           c == Cardinality(Running(i, Uncounted))
           cc == Cardinality(Running(i, Uncounted)')
           p == Cardinality(Running(i, {"pushed"}))
           pp == Cardinality(Running(i, {"pushed"})')
           rr == In(t, i, Raised)' - In(t, i, Raised)
           rc == In(t, i, Uncounted)' - In(t, i, Uncounted)
           rp == In(t, i, {"pushed"})' - In(t, i, {"pushed"})
<1>1. T \in Nat /\ Num \in Nat /\ CountMod \in Nat \ {0} /\ CountMod > Num + T
  BY SlabAssumption DEF FiniteFacts, Num
<1>2. u \in 0 .. Num /\ v \in 0 .. Num
  <2>1. InUse(i) \in SUBSET Blocks /\ InUse(i)' \in SUBSET Blocks
    BY Zenon DEF InUse
  <2> QED BY <2>1, SlabAssumption DEF FiniteFacts, Num
<1>3. l \in 0 .. Num /\ ll \in 0 .. Num
  BY ListLength, Zenon DEF SlabInv, SlabTypes, ListExact
<1>4. r \in 0 .. T /\ s \in 0 .. T /\ s = r + rr
  BY RunningStep DEF In, One
<1>5. c \in 0 .. T /\ cc \in 0 .. T /\ cc = c + rc
  BY RunningStep DEF In, One
<1>6. p \in 0 .. T /\ pp \in 0 .. T /\ pp = p + rp
  BY RunningStep DEF In, One
<1>7. rr \in Int /\ rc \in Int /\ rp \in Int
  BY DEF In, One
<1>8. alloc_count[i] = u + r /\ free_count[i] = (l + c - p) % CountMod
  BY Zenon DEF CountsExact, Raised, Uncounted
<1>9. /\ v = u + used /\ ll = l + len /\ a = used + rr /\ f = len + rc - rp
      /\ alloc_count'[i] = Plus(alloc_count[i], a) /\ free_count'[i] = Plus(free_count[i], f)
  <2>1. /\ v = u + used /\ ll = l + len
        /\ alloc_count'[i] = Plus(alloc_count[i], a) /\ free_count'[i] = Plus(free_count[i], f)
    BY Zenon DEF Moves
  <2>2. a = used + rr
    BY Zenon DEF Moves, In, One
  <2>3. f = len + rc - rp
    BY Zenon DEF Moves, In, One
  <2> QED BY <2>1, <2>2, <2>3, Zenon
<1> HIDE DEF T, u, v, r, s, l, ll, c, cc, p, pp, rr, rc, rp
<1>10. v + s = u + r + a /\ ll + cc - pp = l + c - p + f
  BY <1>2, <1>3, <1>4, <1>5, <1>6, <1>7, <1>9
<1>11. Plus(u + r, a) = v + s
  <2> DEFINE d == u + r
             e == v + s
  <2>1. /\ d \in Int /\ e \in Int /\ e = d + a /\ d >= 0 /\ e >= 0
        /\ -CountMod < d /\ d < CountMod /\ -CountMod < e /\ e < CountMod
    BY <1>1, <1>2, <1>4, <1>10
  <2> HIDE DEF d, e
  <2> QED BY <2>1, <1>1, PlusWraps DEF d, e
<1>12. Plus((l + c - p) % CountMod, f) = (ll + cc - pp) % CountMod
  <2> DEFINE d == l + c - p
             e == ll + cc - pp
  <2>1. /\ d \in Int /\ e \in Int /\ e = d + f
        /\ -CountMod < d /\ d < CountMod /\ -CountMod < e /\ e < CountMod
    BY <1>1, <1>3, <1>5, <1>6, <1>10
  <2> HIDE DEF d, e
  <2> QED BY <2>1, <1>1, PlusWraps DEF d, e
<1> QED BY <1>8, <1>9, <1>11, <1>12, Zenon DEF v, s, ll, cc, pp

\* What CountsExact says of slab i.
ExactAt(i) == /\ alloc_count[i] = Cardinality(InUse(i)) + Cardinality(Running(i, Raised))
              /\ free_count[i] = (Len(list[i]) + Cardinality(Running(i, Uncounted))
                                    - Cardinality(Running(i, {"pushed"}))) % CountMod

\* CountsExact says ExactAt of every slab.
LEMMA CountsAtEach == CountsExact <=> \A i \in Slabs : ExactAt(i)
BY Zenon DEF CountsExact, ExactAt, Raised, Uncounted

\* The counters stay exact when they do so for each slab.
LEMMA CountersMoveAll ==
  ASSUME FiniteFacts, SlabInv, SlabInv', CountsExact, NEW t \in Threads, Alone(t),
         \A i \in Slabs : \E used, len \in Int, a, f \in -1 .. 1 : Moves(t, i, used, len, a, f)
  PROVE  CountsExact'
<1>1. ASSUME NEW i \in Slabs PROVE ExactAt(i)'
  <2>1. PICK used \in Int, len \in Int, a \in -1 .. 1, f \in -1 .. 1 : Moves(t, i, used, len, a, f)
    BY Zenon
  <2> QED BY <2>1, CountersMove, Zenon DEF ExactAt
<1> QED BY <1>1, Zenon DEF CountsExact, ExactAt, Raised, Uncounted

\* Numbers of blocks are numbers.
LEMMA BlockCounts ==
  ASSUME FiniteFacts, SlabTypes, NEW i \in Slabs
  PROVE  Cardinality(InUse(i)) \in Nat /\ Len(list[i]) \in Nat /\ IsFiniteSet(InUse(i))
<1>1. InUse(i) \in SUBSET Blocks
  BY Zenon DEF InUse
<1>2. IsFiniteSet(InUse(i))
  BY <1>1, SlabAssumption, Zenon DEF FiniteFacts
<1> QED BY <1>2, SeqLen, Zenon DEF FiniteFacts, SlabTypes

\* A step of t leaves the counts of the slabs it does not work on.
LEMMA MovesElsewhere ==
  ASSUME FiniteFacts, SlabTypes, NEW t \in Threads, NEW i \in Slabs, i # at[t], at'[t] = at[t],
         list'[i] = list[i], \A b \in Blocks : <<i, b>> \in owned' <=> <<i, b>> \in owned,
         alloc_count'[i] = alloc_count[i], free_count'[i] = free_count[i]
  PROVE  Moves(t, i, 0, 0, 0, 0)
<1>1. InUse(i)' = InUse(i)
  BY Zenon DEF InUse
<1>2. /\ Cardinality(InUse(i)') = Cardinality(InUse(i)) + 0
      /\ Len(list'[i]) = Len(list[i]) + 0
  BY <1>1, BlockCounts
<1>3. \A S : In(t, i, S)' = 0 /\ In(t, i, S) = 0
  BY Zenon DEF In, One
<1> QED BY <1>2, <1>3 DEF Moves, Plus

\* Reading the list changes no sum; a counter is changed in the step that says so.
LEMMA LookCounts ==
  ASSUME FiniteFacts, SlabInv, CountsExact, NEW t \in Threads, Looks(t)
  PROVE  CountsExact'
<1>1. SlabInv' /\ Alone(t) /\ UNCHANGED <<owned, list>> /\ SlabTypes
  BY LookStep, Zenon DEF SlabInv
<1>2. SUFFICES ASSUME NEW i \in Slabs PROVE \E a, f \in -1 .. 1 : Moves(t, i, 0, 0, a, f)
  BY <1>1, CountersMoveAll
<1>3. /\ Cardinality(InUse(i)') = Cardinality(InUse(i)) + 0
      /\ Len(list'[i]) = Len(list[i]) + 0
  <2>1. InUse(i)' = InUse(i)
    BY <1>1, Zenon DEF InUse
  <2> QED BY <2>1, <1>1, BlockCounts
<1> DEFINE Still == /\ In(t, i, Raised)' = In(t, i, Raised)
                    /\ In(t, i, Uncounted)' = In(t, i, Uncounted)
                    /\ In(t, i, {"pushed"})' = In(t, i, {"pushed"})
<1>4. ASSUME UNCHANGED <<alloc_count, free_count>>, Still PROVE Moves(t, i, 0, 0, 0, 0)
  <2>1. In(t, i, Raised) \in Int /\ In(t, i, Uncounted) \in Int /\ In(t, i, {"pushed"}) \in Int
    BY DEF In, One
  <2> QED BY <2>1, <1>3, <1>4 DEF Moves, Plus
<1>5. CASE t \in Allocators /\ \E j \in Slabs : AllocCall(t, j)
  <2>1. pc[t] = "idle" /\ pc'[t] = "again" /\ UNCHANGED <<alloc_count, free_count>>
    BY <1>1, <1>5, Zenon DEF AllocCall, SlabTypes
  <2>2. Still
    BY <2>1, Zenon DEF In, One, Raised, Uncounted
  <2> QED BY <2>1, <2>2, <1>4
<1>6. CASE AllocLoad(t) \/ AllocFollow(t) \/ AllocAgain(t)
  <2>1. /\ pc[t] \in {"again", "follow", "take"} /\ pc'[t] \in {"none", "follow", "take", "again"}
        /\ UNCHANGED <<alloc_count, free_count>>
    BY <1>1, <1>6, Zenon DEF AllocLoad, AllocFollow, AllocAgain, SlabTypes
  <2>2. Still
    BY <2>1, Zenon DEF In, One, Raised, Uncounted
  <2> QED BY <2>1, <2>2, <1>4
<1>7. CASE AllocCount(t)
  <2>1. /\ pc[t] = "taken" /\ pc'[t] = "counted" /\ at' = at /\ free_count' = free_count
        /\ alloc_count' = [alloc_count EXCEPT ![at[t]] = (@ + 1) % CountMod]
    BY <1>1, <1>7, Zenon DEF AllocCount, SlabTypes
  <2>2. CASE i = at[t]
    <3>1. /\ In(t, i, Raised)' = 1 /\ In(t, i, Raised) = 0
          /\ In(t, i, Uncounted)' = 1 /\ In(t, i, Uncounted) = 1
          /\ In(t, i, {"pushed"})' = 0 /\ In(t, i, {"pushed"}) = 0
      BY <2>1, <2>2, Zenon DEF In, One, Raised, Uncounted
    <3>2. alloc_count'[i] = (alloc_count[i] + 1) % CountMod
      BY <2>1, <2>2, <1>1, Zenon DEF SlabTypes
    <3>3. Moves(t, i, 0, 0, 1, 0)
      BY <3>1, <3>2, <2>1, <1>3 DEF Moves, Plus
    <3> QED BY <3>3
  <2>3. CASE i # at[t]
    <3>1. alloc_count'[i] = alloc_count[i] /\ free_count'[i] = free_count[i]
      BY <2>1, <2>3, <1>1, Zenon DEF SlabTypes
    <3> QED BY <3>1, <2>1, <2>3, <1>1, MovesElsewhere
  <2> QED BY <2>2, <2>3, Zenon
<1>8. CASE pc[t] \in {"got", "none"} /\ AllocDone(t)
  <2>1. /\ pc[t] \in {"got", "none"} /\ pc'[t] = "idle" /\ UNCHANGED <<alloc_count, free_count>>
    BY <1>1, <1>8, Zenon DEF AllocDone, SlabTypes
  <2>2. Still
    BY <2>1, Zenon DEF In, One, Raised, Uncounted
  <2> QED BY <2>1, <2>2, <1>4
<1>9. CASE FreeLoad(t) \/ FreeAgain(t)
  <2>1. /\ pc[t] \in {"load", "push"} /\ pc'[t] \in {"load", "link"} /\ at' = at
        /\ UNCHANGED <<alloc_count, free_count>>
    BY <1>1, <1>9, Zenon DEF FreeLoad, FreeAgain, SlabTypes
  <2>2. Still
    BY <2>1, Zenon DEF In, One, Raised, Uncounted
  <2> QED BY <2>1, <2>2, <1>4
<1>10. CASE FreeCount(t)
  <2>1. /\ pc[t] = "pushed" /\ pc'[t] = "uncount" /\ at' = at /\ alloc_count' = alloc_count
        /\ free_count' = [free_count EXCEPT ![at[t]] = (@ + 1) % CountMod]
    BY <1>1, <1>10, Zenon DEF FreeCount, SlabTypes
  <2>2. CASE i = at[t]
    <3>1. /\ In(t, i, Raised)' = 1 /\ In(t, i, Raised) = 1
          /\ In(t, i, Uncounted)' = 0 /\ In(t, i, Uncounted) = 0
          /\ In(t, i, {"pushed"})' = 0 /\ In(t, i, {"pushed"}) = 1
      BY <2>1, <2>2, Zenon DEF In, One, Raised, Uncounted
    <3>2. free_count'[i] = (free_count[i] + 1) % CountMod
      BY <2>1, <2>2, <1>1, Zenon DEF SlabTypes
    <3>3. Moves(t, i, 0, 0, 0, 1)
      BY <3>1, <3>2, <2>1, <1>3 DEF Moves, Plus
    <3> QED BY <3>3
  <2>3. CASE i # at[t]
    <3>1. alloc_count'[i] = alloc_count[i] /\ free_count'[i] = free_count[i]
      BY <2>1, <2>3, <1>1, Zenon DEF SlabTypes
    <3> QED BY <3>1, <2>1, <2>3, <1>1, MovesElsewhere
  <2> QED BY <2>2, <2>3, Zenon
<1>11. CASE FreeTest(t)
  <2>1. alloc_count[at[t]] > 0
    <3> DEFINE R == Running(at[t], Raised)
    <3>1. pc[t] = "uncount" /\ at[t] \in Slabs
      BY <1>1, <1>11, Zenon DEF FreeTest, SlabTypes
    <3>2. t \in R /\ R \in SUBSET Threads
      BY <3>1, Zenon DEF Running, Raised
    <3>3. IsFiniteSet(R)
      BY <3>2, SlabAssumption, Zenon DEF FiniteFacts
    <3>4. Cardinality(R) \in Nat /\ Cardinality(R) # 0
      BY <3>2, <3>3, Zenon DEF FiniteFacts
    <3>5. alloc_count[at[t]] = Cardinality(InUse(at[t])) + Cardinality(R)
      BY <3>1, CountsAtEach, Zenon DEF ExactAt
    <3>6. Cardinality(InUse(at[t])) \in Nat
      BY <3>1, <1>1, BlockCounts, Zenon
    <3> QED BY <3>4, <3>5, <3>6
  <2>2. /\ pc[t] = "uncount" /\ pc'[t] = "lower" /\ at' = at
        /\ UNCHANGED <<alloc_count, free_count>>
    BY <2>1, <1>1, <1>11, Zenon DEF FreeTest, SlabTypes
  <2>3. Still
    BY <2>2, Zenon DEF In, One, Raised, Uncounted
  <2> QED BY <2>2, <2>3, <1>4
<1>12. CASE FreeLower(t)
  <2>1. /\ pc[t] = "lower" /\ pc'[t] = "idle" /\ at' = at /\ free_count' = free_count
        /\ alloc_count' = [alloc_count EXCEPT ![at[t]] = (@ - 1) % CountMod]
    BY <1>1, <1>12, Zenon DEF FreeLower, SlabTypes
  <2>2. CASE i = at[t]
    <3>1. /\ In(t, i, Raised)' = 0 /\ In(t, i, Raised) = 1
          /\ In(t, i, Uncounted)' = 0 /\ In(t, i, Uncounted) = 0
          /\ In(t, i, {"pushed"})' = 0 /\ In(t, i, {"pushed"}) = 0
      BY <2>1, <2>2, Zenon DEF In, One, Raised, Uncounted
    <3>2. alloc_count'[i] = (alloc_count[i] + (-1)) % CountMod
      <4>1. alloc_count[i] \in Int /\ alloc_count[i] - 1 = alloc_count[i] + (-1)
        BY <1>1, SlabAssumption DEF SlabTypes
      <4> QED BY <4>1, <2>1, <2>2, <1>1, Zenon DEF SlabTypes
    <3>3. Moves(t, i, 0, 0, -1, 0)
      BY <3>1, <3>2, <2>1, <1>3 DEF Moves, Plus
    <3> QED BY <3>3
  <2>3. CASE i # at[t]
    <3>1. alloc_count'[i] = alloc_count[i] /\ free_count'[i] = free_count[i]
      BY <2>1, <2>3, <1>1, Zenon DEF SlabTypes
    <3> QED BY <3>1, <2>1, <2>3, <1>1, MovesElsewhere
  <2> QED BY <2>2, <2>3, Zenon
<1> QED BY <1>5, <1>6, <1>7, <1>8, <1>9, <1>10, <1>11, <1>12, Zenon DEF Looks

\* Taking a block moves it from the list to the calls that have not counted it.
LEMMA TakeCounts ==
  ASSUME FiniteFacts, OneAllocator, SlabInv, CountsExact, NEW t \in Threads, AllocTake(t)
  PROVE  CountsExact'
<1>1. /\ SlabInv' /\ Alone(t) /\ SlabTypes /\ owned' = owned
      /\ Len(list'[at[t]]) = Len(list[at[t]]) - 1
      /\ \A j \in Slabs : j # at[t] => list'[j] = list[j]
  BY TakeStep, Zenon DEF SlabInv
<1>2. /\ pc[t] = "take" /\ pc'[t] = "taken" /\ at' = at /\ at[t] \in Slabs
      /\ UNCHANGED <<alloc_count, free_count>>
  BY <1>1, Zenon DEF AllocTake, SlabTypes
<1>3. Moves(t, at[t], 0, -1, 0, 0)
  <2>1. InUse(at[t])' = InUse(at[t])
    BY <1>1, <1>2, Zenon DEF InUse
  <2>2. Cardinality(InUse(at[t])) \in Nat /\ Len(list[at[t]]) \in Nat
    BY <1>1, <1>2, BlockCounts, Zenon
  <2>3. /\ In(t, at[t], Raised)' = 0 /\ In(t, at[t], Raised) = 0
        /\ In(t, at[t], Uncounted)' = 1 /\ In(t, at[t], Uncounted) = 0
        /\ In(t, at[t], {"pushed"})' = 0 /\ In(t, at[t], {"pushed"}) = 0
    BY <1>2, Zenon DEF In, One, Raised, Uncounted
  <2> QED BY <2>1, <2>2, <2>3, <1>1, <1>2 DEF Moves, Plus
<1>4. \A i \in Slabs : i # at[t] => Moves(t, i, 0, 0, 0, 0)
  BY <1>1, <1>2, MovesElsewhere, Zenon
<1>5. \A i \in Slabs : \E used, len \in Int, a, f \in -1 .. 1 : Moves(t, i, used, len, a, f)
  BY <1>3, <1>4
<1> QED BY <1>1, <1>5, CountersMoveAll, Zenon

\* Pushing a block moves it to the list before free_count tells.
LEMMA PushCounts ==
  ASSUME FiniteFacts, SlabInv, CountsExact, NEW t \in Threads, FreePush(t)
  PROVE  CountsExact'
<1>1. /\ SlabInv' /\ Alone(t) /\ SlabTypes /\ owned' = owned
      /\ Len(list'[at[t]]) = Len(list[at[t]]) + 1
      /\ \A j \in Slabs : j # at[t] => list'[j] = list[j]
  BY PushStep, Zenon DEF SlabInv
<1>2. /\ pc[t] = "push" /\ pc'[t] = "pushed" /\ at' = at /\ at[t] \in Slabs
      /\ UNCHANGED <<alloc_count, free_count>>
  BY <1>1, Zenon DEF FreePush, SlabTypes
<1>3. Moves(t, at[t], 0, 1, 0, 0)
  <2>1. InUse(at[t])' = InUse(at[t])
    BY <1>1, <1>2, Zenon DEF InUse
  <2>2. Cardinality(InUse(at[t])) \in Nat /\ Len(list[at[t]]) \in Nat
    BY <1>1, <1>2, BlockCounts, Zenon
  <2>3. /\ In(t, at[t], Raised)' = 1 /\ In(t, at[t], Raised) = 1
        /\ In(t, at[t], Uncounted)' = 0 /\ In(t, at[t], Uncounted) = 0
        /\ In(t, at[t], {"pushed"})' = 1 /\ In(t, at[t], {"pushed"}) = 0
    BY <1>2, Zenon DEF In, One, Raised, Uncounted
  <2> QED BY <2>1, <2>2, <2>3, <1>1, <1>2 DEF Moves, Plus
<1>4. \A i \in Slabs : i # at[t] => Moves(t, i, 0, 0, 0, 0)
  BY <1>1, <1>2, MovesElsewhere, Zenon
<1>5. \A i \in Slabs : \E used, len \in Int, a, f \in -1 .. 1 : Moves(t, i, used, len, a, f)
  BY <1>3, <1>4
<1> QED BY <1>1, <1>5, CountersMoveAll, Zenon

\* Writing the link counts nothing.
LEMMA LinkCounts ==
  ASSUME FiniteFacts, SlabInv, CountsExact, NEW t \in Threads, FreeLink(t)
  PROVE  CountsExact'
<1>1. /\ SlabInv' /\ Alone(t) /\ SlabTypes /\ UNCHANGED <<list, owned, at, alloc_count, free_count>>
      /\ pc[t] = "link" /\ pc'[t] = "push" /\ at[t] \in Slabs
  BY FreeLinkStep, Zenon DEF SlabInv, SlabTypes
<1>2. Moves(t, at[t], 0, 0, 0, 0)
  <2>1. InUse(at[t])' = InUse(at[t])
    BY <1>1, Zenon DEF InUse
  <2>2. Cardinality(InUse(at[t])) \in Nat /\ Len(list[at[t]]) \in Nat
    BY <1>1, BlockCounts, Zenon
  <2>3. /\ In(t, at[t], Raised)' = 1 /\ In(t, at[t], Raised) = 1
        /\ In(t, at[t], Uncounted)' = 0 /\ In(t, at[t], Uncounted) = 0
        /\ In(t, at[t], {"pushed"})' = 0 /\ In(t, at[t], {"pushed"}) = 0
    BY <1>1, Zenon DEF In, One, Raised, Uncounted
  <2> QED BY <2>1, <2>2, <2>3, <1>1 DEF Moves, Plus
<1>3. \A i \in Slabs : i # at[t] => Moves(t, i, 0, 0, 0, 0)
  BY <1>1, MovesElsewhere, Zenon
<1>4. \A i \in Slabs : \E used, len \in Int, a, f \in -1 .. 1 : Moves(t, i, used, len, a, f)
  BY <1>2, <1>3
<1> QED BY <1>1, <1>4, CountersMoveAll, Zenon

\* The block goes to its user as free_count is lowered; alloc_count was raised.
LEMMA GiveCounts ==
  ASSUME FiniteFacts, SlabInv, CountsExact, NEW t \in Threads, AllocReturn(t)
  PROVE  CountsExact'
<1> DEFINE i == at[t]
           h == old_head[t]
<1>1. /\ SlabInv' /\ Alone(t) /\ SlabTypes /\ list' = list
      /\ owned' = owned \cup {<<i, h>>} /\ <<i, h>> \notin owned /\ i \in Slabs /\ h \in Blocks
  BY GiveStep, Zenon DEF SlabInv
<1>2. /\ pc[t] = "counted" /\ pc'[t] = "got" /\ at' = at /\ alloc_count' = alloc_count
      /\ free_count' = [free_count EXCEPT ![i] = (@ - 1) % CountMod]
  BY <1>1, Zenon DEF AllocReturn, SlabTypes
<1>3. Moves(t, i, 1, 0, 0, -1)
  <2>1. InUse(i)' = InUse(i) \cup {h} /\ h \notin InUse(i)
    BY <1>1, <1>2, Zenon DEF InUse
  <2>2. Cardinality(InUse(i)) \in Nat /\ Len(list[i]) \in Nat /\ IsFiniteSet(InUse(i))
    BY <1>1, BlockCounts, Zenon
  <2>3. Cardinality(InUse(i)') = Cardinality(InUse(i)) + 1
    BY <2>1, <2>2, Zenon DEF FiniteFacts
  <2>4. /\ In(t, i, Raised)' = 0 /\ In(t, i, Raised) = 1
        /\ In(t, i, Uncounted)' = 0 /\ In(t, i, Uncounted) = 1
        /\ In(t, i, {"pushed"})' = 0 /\ In(t, i, {"pushed"}) = 0
    BY <1>2, Zenon DEF In, One, Raised, Uncounted
  <2>5. free_count'[i] = (free_count[i] + (-1)) % CountMod
    <3>1. free_count[i] \in Int /\ free_count[i] - 1 = free_count[i] + (-1)
      BY <1>1, SlabAssumption DEF SlabTypes
    <3> QED BY <3>1, <1>1, <1>2, Zenon DEF SlabTypes
  <2> QED BY <2>2, <2>3, <2>4, <2>5, <1>1, <1>2 DEF Moves, Plus
<1>4. ASSUME NEW j \in Slabs, j # i PROVE Moves(t, j, 0, 0, 0, 0)
  <2>1. free_count'[j] = free_count[j]
    BY <1>1, <1>2, <1>4, Zenon DEF SlabTypes
  <2>2. \A b \in Blocks : <<j, b>> \in owned' <=> <<j, b>> \in owned
    BY <1>1, <1>4, Zenon
  <2> QED BY <2>1, <2>2, <1>1, <1>2, <1>4, MovesElsewhere, Zenon
<1>5. \A j \in Slabs : \E used, len \in Int, a, f \in -1 .. 1 : Moves(t, j, used, len, a, f)
  BY <1>3, <1>4
<1> QED BY <1>1, <1>5, CountersMoveAll, Zenon

\* A block on its way back is counted as in use until alloc_count is lowered.
LEMMA FreeCallCounts ==
  ASSUME FiniteFacts, SlabInv, CountsExact, NEW t \in Threads, NEW i \in Slabs, NEW b \in Blocks,
         <<i, b>> \in owned, FreeCall(t, i, b)
  PROVE  CountsExact'
<1>1. /\ SlabInv' /\ Alone(t) /\ SlabTypes /\ UNCHANGED <<list, alloc_count, free_count>>
      /\ pc'[t] = "load"
  BY FreeCallStep, Zenon DEF SlabInv
<1>2. pc[t] = "idle" /\ at'[t] = i /\ owned' = owned \ {<<i, b>>}
  BY <1>1, Zenon DEF FreeCall, SlabTypes
<1>3. Moves(t, i, -1, 0, 0, 0)
  <2>1. InUse(i)' = InUse(i) \ {b} /\ b \in InUse(i)
    BY <1>2, Zenon DEF InUse
  <2>2. Cardinality(InUse(i)) \in Nat /\ Len(list[i]) \in Nat /\ IsFiniteSet(InUse(i))
    BY <1>1, BlockCounts, Zenon
  <2>3. Cardinality(InUse(i)') = Cardinality(InUse(i)) - 1
    BY <2>1, <2>2, Zenon DEF FiniteFacts
  <2>4. /\ In(t, i, Raised)' = 1 /\ In(t, i, Raised) = 0
        /\ In(t, i, Uncounted)' = 0 /\ In(t, i, Uncounted) = 0
        /\ In(t, i, {"pushed"})' = 0 /\ In(t, i, {"pushed"}) = 0
    BY <1>1, <1>2, Zenon DEF In, One, Raised, Uncounted
  <2>5. UNCHANGED <<list, alloc_count, free_count>>
    BY <1>1, Zenon
  <2> QED BY <2>2, <2>3, <2>4, <2>5 DEF Moves, Plus
<1>4. ASSUME NEW j \in Slabs, j # i PROVE Moves(t, j, 0, 0, 0, 0)
  <2>1. InUse(j)' = InUse(j)
    BY <1>2, <1>4, Zenon DEF InUse
  <2>2. Cardinality(InUse(j)) \in Nat /\ Len(list[j]) \in Nat
    BY <1>1, BlockCounts, Zenon
  <2>3. /\ In(t, j, Raised)' = 0 /\ In(t, j, Raised) = 0
        /\ In(t, j, Uncounted)' = 0 /\ In(t, j, Uncounted) = 0
        /\ In(t, j, {"pushed"})' = 0 /\ In(t, j, {"pushed"}) = 0
    BY <1>1, <1>2, <1>4, Zenon DEF In, One, Raised, Uncounted
  <2>4. UNCHANGED <<list, alloc_count, free_count>>
    BY <1>1, Zenon
  <2> QED BY <2>1, <2>2, <2>3, <2>4 DEF Moves, Plus
<1>5. \A j \in Slabs : \E used, len \in Int, a, f \in -1 .. 1 : Moves(t, j, used, len, a, f)
  BY <1>3, <1>4
<1> QED BY <1>1, <1>5, CountersMoveAll, Zenon

\* With no call running, what CountsExact says is CountsAgree.
LEMMA CountsAtRest ==
  ASSUME FiniteFacts
  PROVE  SlabInv /\ CountsExact => CountsAgree
<1> SUFFICES ASSUME SlabInv, CountsExact, \A t \in Threads : pc[t] = "idle", NEW i \in Slabs
             PROVE  alloc_count[i] = Cardinality(InUse(i)) /\ free_count[i] = Len(list[i])
  BY Zenon DEF CountsAgree
<1>1. Running(i, Raised) = {} /\ Running(i, Uncounted) = {} /\ Running(i, {"pushed"}) = {}
  BY Zenon DEF Running, Raised, Uncounted
<1>2. Cardinality({}) = 0
  BY Zenon DEF FiniteFacts
<1>3. Cardinality(InUse(i)) \in Nat /\ Len(list[i]) \in Nat
  BY BlockCounts, Zenon DEF SlabInv
<1>4. alloc_count[i] = Cardinality(InUse(i)) /\ free_count[i] = Len(list[i]) % CountMod
  <2>1. /\ alloc_count[i] = Cardinality(InUse(i)) + 0
        /\ free_count[i] = (Len(list[i]) + 0 - 0) % CountMod
    BY <1>1, <1>2, CountsAtEach, Zenon DEF ExactAt
  <2>2. Len(list[i]) + 0 - 0 = Len(list[i]) /\ Cardinality(InUse(i)) + 0 = Cardinality(InUse(i))
    BY <1>3
  <2> QED BY <2>1, <2>2, Zenon
<1>5. /\ Len(list[i]) \in 0 .. Num /\ CountMod \in Nat \ {0} /\ Cardinality(Threads) \in Nat
      /\ CountMod > Num + Cardinality(Threads) /\ Num \in Nat
  <2>1. Len(list[i]) \in 0 .. Num
    BY ListLength, Zenon DEF SlabInv, SlabTypes, ListExact
  <2>2. Num \in Nat /\ Cardinality(Threads) \in Nat
    BY SlabAssumption, Zenon DEF FiniteFacts, Num
  <2> QED BY <2>1, <2>2, SlabAssumption DEF Num
<1>6. \A n \in 0 .. Num : n % CountMod = n
  BY <1>5
<1>7. Len(list[i]) % CountMod = Len(list[i])
  BY <1>5, <1>6, Zenon
<1> QED BY <1>4, <1>7, Zenon
--------------------------------------------------------------------------------
(* The slabs as the tiers see them *)

\* bt_slab_init of a slab nobody has used: all its blocks are in the list.
LEMMA SlabInitStep ==
  ASSUME FiniteFacts, SlabInv, CountsExact, NEW i \in Slabs, SlabInit(i),
         owned = {}, \A t \in Threads : pc[t] = "idle"
  PROVE  /\ SlabInv' /\ CountsExact' /\ Complete(i)'
         /\ \A j \in Slabs : j # i => list'[j] = list[j] /\ (Complete(j) => Complete(j)')
<1> DEFINE l == [k \in 1 .. Num |-> Num + 1 - k]
<1>1. Spells(Num, Linked, l) /\ l \in Seq(Blocks) /\ Len(l) = Num /\ Range(l) = Blocks
  BY SpellsInit, Zenon
<1>2. Num \in Nat \ {0} /\ Blocks = 1 .. Num /\ Num < CountMod /\ CountMod \in Nat
  <2>1. Num \in Nat /\ Cardinality(Threads) \in Nat
    BY SlabAssumption, Zenon DEF FiniteFacts, Num
  <2> QED BY <2>1, SlabAssumption DEF Num
<1>3. /\ free_list' = [free_list EXCEPT ![i] = Num] /\ link' = [link EXCEPT ![i] = Linked]
      /\ alloc_count' = [alloc_count EXCEPT ![i] = 0] /\ free_count' = [free_count EXCEPT ![i] = Num]
      /\ list' = [list EXCEPT ![i] = l]
      /\ UNCHANGED <<pc, at, old_head, new_head, ptr, owned>>
  BY Zenon DEF SlabInit
<1> HIDE DEF l
<1>4. /\ free_list'[i] = Num /\ link'[i] = Linked /\ list'[i] = l
      /\ alloc_count'[i] = 0 /\ free_count'[i] = Num
      /\ \A j \in Slabs : j # i => /\ free_list'[j] = free_list[j] /\ link'[j] = link[j]
                                   /\ list'[j] = list[j] /\ alloc_count'[j] = alloc_count[j]
                                   /\ free_count'[j] = free_count[j]
  BY <1>3, Zenon DEF SlabInv, SlabTypes
<1>5. SlabTypes'
  <2>1. Linked \in [Blocks -> Pointers \cup {Data}]
    BY <1>2 DEF Linked, Pointers
  <2>2. 0 \in 0 .. CountMod - 1 /\ Num \in 0 .. CountMod - 1 /\ Num \in Pointers
    BY <1>2 DEF Pointers
  <2> QED BY <2>1, <2>2, <1>1, <1>3, Zenon DEF SlabInv, SlabTypes
<1>6. \A j \in Slabs : ListExact(j)'
  BY <1>1, <1>4, Zenon DEF SlabInv, ListExact
<1>7. \A t \in Threads : ~Carries(t)' /\ Knows(t)'
  BY <1>3, Zenon DEF Carries, Allocating, Knows
<1>8. SlabInv'
  BY <1>3, <1>5, <1>6, <1>7, Zenon DEF SlabInv, OneOwner
<1>9. \A j \in Slabs : /\ Running(j, Raised)' = {} /\ Running(j, Uncounted)' = {}
                       /\ Running(j, {"pushed"})' = {} /\ Running(j, Raised) = {}
                       /\ Running(j, Uncounted) = {} /\ Running(j, {"pushed"}) = {}
                       /\ InUse(j)' = {} /\ InUse(j) = {}
  BY <1>3, Zenon DEF Running, Raised, Uncounted, InUse
<1>10. Cardinality({}) = 0
  BY Zenon DEF FiniteFacts
<1>11. ASSUME NEW j \in Slabs PROVE ExactAt(j)'
  <2>1. CASE j = i
    <3>1. Num % CountMod = Num
      BY <1>2
    <3>2. Num + 0 - 0 = Num /\ 0 + 0 = 0
      BY <1>2
    <3> QED BY <3>1, <3>2, <2>1, <1>1, <1>4, <1>9, <1>10, Zenon DEF ExactAt
  <2>2. CASE j # i
    <3>1. ExactAt(j)
      BY CountsAtEach, Zenon
    <3> QED BY <3>1, <2>2, <1>4, <1>9, Zenon DEF ExactAt
  <2> QED BY <2>1, <2>2, Zenon
<1>12. CountsExact'
  BY <1>11, Zenon DEF CountsExact, ExactAt, Raised, Uncounted
<1>13. Complete(i)'
  BY <1>1, <1>4, Zenon DEF Complete, Listed
<1>14. \A j \in Slabs : j # i /\ Complete(j) => Complete(j)'
  BY <1>3, <1>4, <1>7, Zenon DEF Complete, Listed, Carries
<1> QED BY <1>4, <1>8, <1>12, <1>13, <1>14, Zenon

\* A step inside bt_slab_alloc or bt_slab_free, as far as the tiers depend on it.
LEMMA SlabCallStep ==
  ASSUME FiniteFacts, OneAllocator, SlabInv, CountsExact, NEW t \in Threads, Alloc(t) \/ Free(t)
  PROVE  /\ SlabInv' /\ CountsExact' /\ Keeps /\ Alone(t) /\ at' = at
         /\ (Allocating(t)' <=> Allocating(t)) /\ pc[t] \notin {"idle", "got", "none"}
         /\ pc'[t] = "got" => /\ owned' = owned \cup {<<at[t], old_head'[t]>>}
                              /\ <<at[t], old_head'[t]>> \notin owned /\ Carries(t)
         /\ pc'[t] # "got" => owned' = owned
         /\ Carries(t)' => Carries(t) \/ list[at[t]] # <<>>
         /\ \A j \in Slabs : list[j] = <<>> => list'[j] = <<>> \/ (j = at[t] /\ Carries(t))
<1>0. SlabTypes
  BY Zenon DEF SlabInv
<1>1. CASE AllocLoad(t) \/ AllocFollow(t) \/ AllocAgain(t) \/ AllocCount(t)
  <2>1. Looks(t)
    BY <1>1, Zenon DEF Looks
  <2>2. SlabInv' /\ CountsExact' /\ Keeps /\ Alone(t) /\ UNCHANGED <<list, owned>>
    BY <2>1, LookStep, LookCounts, Zenon
  <2>3. /\ pc[t] \in {"again", "follow", "take", "taken"} /\ at' = at
        /\ pc'[t] \in {"again", "follow", "take", "counted", "none"}
        /\ pc'[t] = "counted" => pc[t] = "taken"
    BY <1>0, <1>1, Zenon DEF SlabTypes, AllocLoad, AllocFollow, AllocAgain, AllocCount
  <2> QED BY <2>2, <2>3, Zenon DEF Allocating, Carries
<1>2. CASE AllocTake(t)
  <2>1. pc[t] = "take" /\ pc'[t] = "taken" /\ at' = at
    BY <1>0, <1>2, Zenon DEF SlabTypes, AllocTake
  <2>2. /\ SlabInv' /\ CountsExact' /\ Keeps /\ Alone(t) /\ owned' = owned /\ list[at[t]] # <<>>
        /\ \A j \in Slabs : j # at[t] => list'[j] = list[j]
    BY <1>2, TakeStep, TakeCounts, Zenon
  <2> QED BY <2>1, <2>2, Zenon DEF Allocating
<1>3. CASE AllocReturn(t)
  <2>1. pc[t] = "counted" /\ pc'[t] = "got" /\ at' = at /\ old_head' = old_head
    BY <1>0, <1>3, Zenon DEF SlabTypes, AllocReturn
  <2>2. /\ SlabInv' /\ CountsExact' /\ Keeps /\ Alone(t) /\ list' = list
        /\ owned' = owned \cup {<<at[t], old_head[t]>>} /\ <<at[t], old_head[t]>> \notin owned
    BY <1>3, GiveStep, GiveCounts, Zenon
  <2> QED BY <2>1, <2>2, Zenon DEF Allocating, Carries
<1>4. CASE FreeLoad(t) \/ FreeAgain(t) \/ FreeCount(t) \/ FreeTest(t) \/ FreeLower(t)
  <2>1. Looks(t)
    BY <1>4, Zenon DEF Looks
  <2>2. SlabInv' /\ CountsExact' /\ Keeps /\ Alone(t) /\ UNCHANGED <<list, owned>>
    BY <2>1, LookStep, LookCounts, Zenon
  <2>3. /\ pc[t] \in {"load", "push", "pushed", "uncount", "lower"} /\ at' = at
        /\ pc'[t] \in {"link", "load", "uncount", "lower", "idle"}
        /\ pc'[t] \in {"link", "load"} => pc[t] \in {"load", "push"}
    BY <1>0, <1>4, Zenon DEF SlabTypes, FreeLoad, FreeAgain, FreeCount, FreeTest, FreeLower
  <2> QED BY <2>2, <2>3, Zenon DEF Allocating, Carries
<1>5. CASE FreeLink(t)
  <2>1. /\ SlabInv' /\ CountsExact' /\ Keeps /\ Alone(t) /\ UNCHANGED <<list, owned, at>>
        /\ pc[t] = "link" /\ pc'[t] = "push"
    BY <1>5, FreeLinkStep, LinkCounts, Zenon
  <2> QED BY <2>1, Zenon DEF Allocating, Carries
<1>6. CASE FreePush(t)
  <2>1. pc[t] = "push" /\ pc'[t] = "pushed" /\ at' = at
    BY <1>0, <1>6, Zenon DEF SlabTypes, FreePush
  <2>2. /\ SlabInv' /\ CountsExact' /\ Keeps /\ Alone(t) /\ owned' = owned
        /\ \A j \in Slabs : j # at[t] => list'[j] = list[j]
    BY <1>6, PushStep, PushCounts, Zenon
  <2> QED BY <2>1, <2>2, Zenon DEF Allocating, Carries
<1> QED BY <1>1, <1>2, <1>3, <1>4, <1>5, <1>6, Zenon DEF Alloc, Free
--------------------------------------------------------------------------------
(* The constants of the tiers *)

\* Rounding up to a multiple, as for cache lines and pages.
LEMMA RoundUp ==
  ASSUME NEW m \in Nat \ {0}, NEW n \in Nat
  PROVE  /\ ((n + m - 1) \div m) * m \in Nat /\ ((n + m - 1) \div m) * m >= n
         /\ (((n + m - 1) \div m) * m) % m = 0
<1> DEFINE q == (n + m - 1) \div m
           r == (n + m - 1) % m
<1>1. n + m - 1 \in Nat
  OBVIOUS
<1>2. q \in Nat /\ r \in 0 .. m - 1 /\ n + m - 1 = m * q + r
  BY <1>1
<1> HIDE DEF q, r
<1>3. q * m \in Nat /\ q * m = m * q
  BY <1>2
<1>4. (q * m) % m = 0
  BY <1>2
<1> QED BY <1>2, <1>3, <1>4 DEF q

\* The sizes of the regions and of what is cut from them.
LEMMA Sizing ==
  ASSUME FiniteFacts
  PROVE  /\ NumHot \in Nat \ {0} /\ Slabs = 0 .. NumHot - 1 /\ Parts = 0 .. NumHot /\ WarmPool = NumHot
         /\ Slabs \subseteq Parts /\ WarmPool \in Parts /\ WarmPool \notin Slabs
         /\ Slabs \subseteq Nat /\ Blocks \subseteq Nat
         /\ Paged(HotPerSlab) \in Nat \ {0} /\ Paged(WarmSize) \in Nat /\ Paged(WarmSize) >= WarmSize
         /\ \A b \in Blocks : b * Line <= Paged(HotPerSlab)
         /\ \A s \in Nat : Aligned(s) \in Nat /\ Aligned(s) >= s /\ Aligned(s) % Line = 0
         /\ \A s \in Nat \ {0} : Aligned(s) > 0
<1>1. NumHot \in Nat \ {0} /\ Num \in Nat \ {0} /\ Blocks = 1 .. Num
  <2>1. NumHot \in Nat /\ Num \in Nat
    BY SlabAssumption, Zenon DEF FiniteFacts, NumHot, Num
  <2>2. NumHot # 0
    BY SlabAssumption, Zenon DEF FiniteFacts, NumHot
  <2> QED BY <2>1, <2>2, SlabAssumption DEF Num
<1>2. Slabs = 0 .. NumHot - 1 /\ Line \in Nat \ {0} /\ NumaPage \in Nat \ {0} /\ WarmSize \in Nat
      /\ HotPerSlab \in Nat /\ Num = HotPerSlab \div Line
  BY TierAssumption, Zenon DEF NumHot, Num
<1>3. /\ Paged(HotPerSlab) \in Nat /\ Paged(HotPerSlab) >= HotPerSlab
      /\ Paged(WarmSize) \in Nat /\ Paged(WarmSize) >= WarmSize
  BY <1>2, RoundUp, Zenon DEF Paged
<1>4. \A s \in Nat : Aligned(s) \in Nat /\ Aligned(s) >= s /\ Aligned(s) % Line = 0
  BY <1>2, RoundUp, Zenon DEF Aligned
<1>5. Num * Line <= HotPerSlab /\ HotPerSlab # 0
  BY <1>1, <1>2
<1>6. \A b \in Blocks : b * Line <= HotPerSlab
  <2> TAKE b \in Blocks
  <2>1. b * Line <= Num * Line
    BY <1>1, <1>2
  <2>2. b * Line \in Nat /\ Num * Line \in Nat
    BY <1>1, <1>2
  <2> QED BY <2>1, <2>2, <1>2, <1>5
<1>7. \A b \in Blocks : b * Line <= Paged(HotPerSlab)
  <2> TAKE b \in Blocks
  <2>1. b * Line \in Nat
    BY <1>1, <1>2
  <2> QED BY <2>1, <1>2, <1>3, <1>6
<1>8. \A s \in Nat \ {0} : Aligned(s) > 0
  BY <1>4
<1>9. Paged(HotPerSlab) # 0
  BY <1>2, <1>3, <1>5
<1>10. Slabs \subseteq Parts /\ WarmPool \in Parts /\ WarmPool \notin Slabs
  BY <1>1, <1>2 DEF Parts, WarmPool
<1>11. Slabs \subseteq Nat /\ Blocks \subseteq Nat
  BY <1>1, <1>2
<1> QED BY <1>1, <1>2, <1>3, <1>4, <1>7, <1>8, <1>9, <1>10, <1>11, Zenon DEF Parts, WarmPool
--------------------------------------------------------------------------------
(* The tiers *)

\* Two allocations have different HOT blocks, and whole cache lines of WARM.
HotApart == \A a, b \in Held : a.id # b.id /\ a.place[1] = "HOT" => a.place # b.place
WarmApart == \A a, b \in Held : a.id # b.id /\ a.place[1] = "WARM" /\ b.place[1] = "WARM" =>
               \/ a.place[2] + Aligned(a.size) <= b.place[2]
               \/ b.place[2] + Aligned(b.size) <= a.place[2]

\* The inductive invariant: from it follow Disjoint, Backed and the other properties.
Core == /\ SlabInv /\ CountsExact /\ TypeOK /\ Identified /\ InStep /\ Owners /\ Booted
        /\ TurnsTaken /\ StaysInArray /\ WarmAligned /\ HotApart /\ WarmApart /\ StatsExact

\* Who holds an allocation.
LEMMA HeldBy ==
  \A a : a \in Held <=> a \in live \/ \E t \in Threads : tpc[t] = "count" /\ a = call[t]
BY Zenon DEF Held

\* What is held is a request with a number below calls and of a size asked for; two
\* with the same number are one.
LEMMA HeldTypes ==
  ASSUME TypeOK, Identified
  PROVE  /\ \A a \in Held : a \in Requests /\ a.id \in 1 .. calls /\ a.size \in Sizes
                            /\ a.size \in Nat \ {0} /\ a.place \in Places
         /\ \A a, b \in Held : a.id = b.id => a = b
<1>1. \A t \in Threads : call[t] \in Requests
  BY Zenon DEF TypeOK
<1>2. ASSUME NEW a \in Held
      PROVE  a \in Requests /\ a.id \in 1 .. calls /\ a.size \in Sizes
  BY <1>1, HeldBy DEF TypeOK, Identified
<1>3. ASSUME NEW a \in Held
      PROVE  a.size \in Nat \ {0} /\ a.place \in Places
  BY <1>2, TierAssumption, Zenon DEF Requests
<1>4. ASSUME NEW a \in Held, NEW b \in Held, a.id = b.id PROVE a = b
  BY <1>4, HeldBy DEF Identified
<1> QED BY <1>2, <1>3, <1>4, Zenon

\* Memory in use is backed, inside its region, and its own.
LEMMA CoreDisjoint ==
  ASSUME FiniteFacts
  PROVE  Core => Disjoint /\ Backed
<1> SUFFICES ASSUME Core PROVE Disjoint /\ Backed
  BY Zenon
<1>1. /\ \A a \in Held : a \in Requests /\ a.id \in 1 .. calls /\ a.size \in Sizes
                         /\ a.size \in Nat \ {0} /\ a.place \in Places /\ Served(a)
      /\ mem \in [Parts -> Nat] /\ warm_offset \in Nat
  BY HeldTypes, Zenon DEF Core, TypeOK, Owners
<1>0. /\ mem[WarmPool] \in {0, Paged(WarmSize)}
      /\ \A i \in Slabs : /\ mem[i] \in {0, Paged(HotPerSlab)}
                          /\ ~(mem[i] > 0) => \A b \in Blocks : <<i, b>> \notin owned
  BY Zenon DEF Core, Booted
<1>2. ASSUME NEW a \in Held, a.place[1] = "HOT"
      PROVE  /\ <<a.place[2], a.place[3]>> \in owned /\ a.place[2] \in Slabs /\ a.place[3] \in Blocks
             /\ a.place[3] * Line <= mem[a.place[2]] /\ a.place[3] \notin Listed(a.place[2])
  <2>1. <<a.place[2], a.place[3]>> \in owned
    BY <1>1, <1>2 DEF Served, Places
  <2>2. a.place[2] \in Slabs /\ a.place[3] \in Blocks
    BY <2>1, Zenon DEF Core, SlabInv, SlabTypes
  <2>3. a.place[3] \notin Listed(a.place[2])
    BY <2>1, Zenon DEF Core, SlabInv, OneOwner
  <2>4. mem[a.place[2]] = Paged(HotPerSlab)
    <3>1. mem[a.place[2]] > 0
      BY <2>1, <2>2, <1>0, Zenon
    <3> QED BY <3>1, <2>2, <1>0
  <2> QED BY <2>1, <2>2, <2>3, <2>4, Sizing, Zenon
<1>3. ASSUME NEW a \in Held, a.place[1] = "WARM"
      PROVE  /\ a.place[2] \in Nat /\ a.place[3] = a.size /\ Aligned(a.size) \in Nat
             /\ Aligned(a.size) >= a.size
             /\ a.place[2] + a.size <= WarmSize /\ a.place[2] + a.size <= mem[WarmPool]
  <2>1. a.place[2] \in Nat /\ a.size \in Nat /\ a.place[3] = a.size /\ mem[WarmPool] > 0
        /\ a.place[2] + Aligned(a.size) <= WarmSize
    <3>1. a.place \in Places /\ a.size \in Nat /\ Served(a)
      BY <1>1, Zenon
    <3>2. a.place[2] \in Nat
      BY <3>1, Zenon DEF Places
    <3>3. a.place # <<"COLD", a.id, a.size>>
      BY <1>3
    <3> QED BY <3>1, <3>2, <3>3, <1>3, Zenon DEF Served
  <2>2. mem[WarmPool] = Paged(WarmSize)
    BY <2>1, <1>0
  <2>3. Aligned(a.size) \in Nat /\ Aligned(a.size) >= a.size /\ Paged(WarmSize) >= WarmSize
        /\ WarmSize \in Nat /\ Paged(WarmSize) \in Nat
    BY <2>1, Sizing, TierAssumption, Zenon
  <2> QED BY <2>1, <2>2, <2>3
<1>4. ASSUME NEW a \in Held, NEW b \in Held, a.id # b.id PROVE ~Overlap(a.place, b.place)
  <2>1. CASE a.place[1] = "HOT"
    BY <2>1, <1>4, Zenon DEF Core, HotApart, Overlap
  <2>2. CASE a.place[1] = "WARM" /\ b.place[1] = "WARM"
    <3>1. \/ a.place[2] + Aligned(a.size) <= b.place[2]
          \/ b.place[2] + Aligned(b.size) <= a.place[2]
      BY <1>4, <2>2, Zenon DEF Core, WarmApart
    <3>2. a.size \in Nat \ {0} /\ b.size \in Nat \ {0}
      BY <1>1, Zenon
    <3> DEFINE x == a.place[2]
               y == b.place[2]
    <3>3. /\ x \in Nat /\ y \in Nat /\ a.place[3] = a.size /\ b.place[3] = b.size
          /\ Aligned(a.size) \in Nat /\ Aligned(a.size) >= a.size
          /\ Aligned(b.size) \in Nat /\ Aligned(b.size) >= b.size
      BY <1>3, <2>2, Zenon
    <3>4. ~(x < y + b.size /\ y < x + a.size) /\ x # y
      BY <3>1, <3>2, <3>3
    <3> QED BY <3>3, <3>4, Zenon DEF Overlap
  <2>3. CASE a.place[1] = "WARM" /\ b.place[1] # "WARM"
    BY <2>3, Zenon DEF Overlap
  <2>4. CASE a.place[1] \notin {"HOT", "WARM"}
    <3>1. a.place = <<"COLD", a.id, a.size>>
      BY <1>1, <2>4, Zenon DEF Served
    <3>2. a.place # b.place
      <4>1. SUFFICES ASSUME a.place = b.place PROVE FALSE
        BY Zenon
      <4>2. b.place = <<"COLD", a.id, a.size>> /\ b.place[1] = "COLD"
        BY <3>1, <4>1
      <4>3. b.place = <<"COLD", b.id, b.size>>
        BY <1>1, <4>2, Zenon DEF Served
      <4> QED BY <1>4, <4>2, <4>3
    <3> QED BY <3>1, <3>2 DEF Overlap
  <2> QED BY <2>1, <2>2, <2>3, <2>4, Zenon
<1> QED BY <1>2, <1>3, <1>4, Zenon DEF Disjoint, Backed

\* A step that does not touch the slabs.
LEMMA SlabsSame ==
  ASSUME SlabInv, CountsExact, UNCHANGED slabVars
  PROVE  /\ SlabInv' /\ CountsExact' /\ \A i \in Slabs : Complete(i) => Complete(i)'
         /\ \A t \in Threads : /\ Carries(t)' <=> Carries(t)
                               /\ Allocating(t)' <=> Allocating(t)
<1>1. SlabTypes' /\ (\A i \in Slabs : ListExact(i)' /\ Listed(i)' = Listed(i))
  BY Zenon DEF SlabInv, SlabTypes, ListExact, Listed
<1>2. \A t \in Threads : /\ Carries(t)' <=> Carries(t)
                         /\ Allocating(t)' <=> Allocating(t)
                         /\ Carried(t)' = Carried(t)
  BY Zenon DEF Carries, Allocating, Carried
<1>3. \A t \in Threads : Knows(t)'
  BY <1>2, Zenon DEF SlabInv, Knows, Listed
<1>4. OneOwner'
  BY <1>1, <1>2, Zenon DEF SlabInv, OneOwner, Listed
<1>5. \A i \in Slabs : Complete(i) => Complete(i)'
  BY <1>1, <1>2, Zenon DEF Complete
<1>6. \A i \in Slabs : InUse(i)' = InUse(i) /\ \A S : Running(i, S)' = Running(i, S)
  BY Zenon DEF InUse, Running
<1>7. CountsExact'
  BY <1>6, Zenon DEF CountsExact
<1> QED BY <1>1, <1>2, <1>3, <1>4, <1>5, <1>7, Zenon DEF SlabInv

\* An allocation keeps its memory.
LEMMA ServedStays ==
  ASSUME FiniteFacts, NEW a, Served(a), a.place[1] = "HOT" => <<a.place[2], a.place[3]>> \in owned',
         a.place[2] \in Nat, a.size \in Nat,
         mem'[WarmPool] = mem[WarmPool], warm_offset \in Nat, warm_offset' \in Nat,
         warm_offset' >= warm_offset
  PROVE  Served(a)'
<1>1. Aligned(a.size) \in Nat
  BY Sizing, Zenon
<1>2. CASE a.place[1] = "HOT" /\ <<a.place[2], a.place[3]>> \in owned
  BY <1>2, Zenon DEF Served
<1>3. CASE /\ a.place[1] = "WARM" /\ a.place[3] = a.size /\ mem[WarmPool] > 0
           /\ a.place[2] + Aligned(a.size) <= warm_offset
           /\ a.place[2] + Aligned(a.size) <= WarmSize
  <2>1. a.place[2] + Aligned(a.size) <= warm_offset'
    BY <1>1, <1>3
  <2> QED BY <1>3, <2>1, Zenon DEF Served
<1>4. CASE a.place = <<"COLD", a.id, a.size>>
  BY <1>4, Zenon DEF Served
<1> QED BY <1>2, <1>3, <1>4, Zenon DEF Served

\* The calls of bt_tier_alloc that have not returned.
Busy == {t \in Threads : tpc[t] # "idle"}

\* A step of thread t that moves its call of bt_tier_alloc on, serving it or not.
CallMoves(t, s, c) ==
  /\ tpc[t] \notin {"idle", "count"} /\ s \in Tiers \cup {"slab", "count"}
  /\ tpc' = [tpc EXCEPT ![t] = s] /\ call' = [call EXCEPT ![t] = c]
  /\ c \in Requests /\ c.id = call[t].id /\ c.size = call[t].size
  /\ UNCHANGED <<live, calls, stats, heap>>

\* Its number stays its own; when it is served it is one more allocation.
LEMMA CallStep ==
  ASSUME TypeOK, Identified, StatsExact, NEW t \in Threads, NEW s, NEW c, CallMoves(t, s, c)
  PROVE  /\ Identified' /\ StatsExact'
         /\ tpc' \in [Threads -> Tiers \cup {"idle", "slab", "count"}]
         /\ call' \in [Threads -> Requests]
         /\ tpc'[t] = s /\ call'[t] = c /\ c.size \in Sizes /\ c.size \in Nat
         /\ \A u \in Threads : u # t => tpc'[u] = tpc[u] /\ call'[u] = call[u]
         /\ s = "count" => Held' = Held \cup {c}
         /\ s # "count" => Held' = Held
         /\ \A a \in Held : a.id # c.id
<1>1. /\ tpc \in [Threads -> Tiers \cup {"idle", "slab", "count"}]
      /\ call \in [Threads -> Requests]
  BY Zenon DEF TypeOK
<1>2. /\ tpc' \in [Threads -> Tiers \cup {"idle", "slab", "count"}]
      /\ call' \in [Threads -> Requests]
      /\ tpc'[t] = s /\ call'[t] = c
      /\ \A u \in Threads : u # t => tpc'[u] = tpc[u] /\ call'[u] = call[u]
  BY <1>1, Zenon DEF CallMoves
<1>3. /\ tpc[t] \notin {"idle", "count"} /\ s # "idle" /\ c.id = call[t].id /\ c.size = call[t].size
      /\ live' = live /\ calls' = calls /\ stats' = stats
  BY Zenon DEF CallMoves, Tiers
<1>4. \A u \in Threads : /\ (tpc'[u] # "idle" <=> tpc[u] # "idle")
                         /\ call'[u].id = call[u].id /\ call'[u].size = call[u].size
  BY <1>2, <1>3, Zenon
<1>5. Identified'
  BY <1>3, <1>4 DEF Identified
<1>6. StatsExact'
  <2>1. Busy' = Busy
    BY <1>4, Zenon DEF Busy
  <2> QED BY <1>3, <2>1, Zenon DEF StatsExact, TierStats, Busy
<1>7. \A a \in Held : a.id # c.id
  BY <1>3, HeldBy DEF Identified
<1>8. c.size \in Sizes /\ c.size \in Nat
  BY <1>3, TierAssumption, Zenon DEF Identified
<1>9. \A a : a \in Held' <=> a \in live' \/ \E u \in Threads : tpc'[u] = "count" /\ a = call'[u]
  BY Zenon DEF Held
<1>10. s = "count" => Held' = Held \cup {c}
  BY <1>2, <1>3, <1>9, HeldBy
<1>11. s # "count" => Held' = Held
  BY <1>2, <1>3, <1>9, HeldBy
<1> QED BY <1>2, <1>5, <1>6, <1>7, <1>8, <1>10, <1>11, Zenon

\* A call goes through WARM or COLD and is served there or goes on.
LEMMA OffSlabStep ==
  ASSUME FiniteFacts, Core, Ready, NEW t \in Threads, NEW s, NEW c, CallMoves(t, s, c),
         tpc[t] \in {"WARM", "COLD"}, s \in {"count", "COLD"},
         UNCHANGED <<slabVars, tierVars, hot_next>>,
         warm_offset' \in Nat, warm_offset' >= warm_offset, warm_offset' % Line = 0,
         s = "count" => /\ Served(c)' /\ c.place[1] # "HOT"
                        /\ c.place[1] = "WARM" => c.place[2] = warm_offset
  PROVE  Core'
<1>1. /\ Identified' /\ StatsExact'
      /\ tpc' \in [Threads -> Tiers \cup {"idle", "slab", "count"}]
      /\ call' \in [Threads -> Requests]
      /\ tpc'[t] = s /\ call'[t] = c /\ c.size \in Sizes /\ c.size \in Nat
      /\ \A u \in Threads : u # t => tpc'[u] = tpc[u] /\ call'[u] = call[u]
      /\ s = "count" => Held' = Held \cup {c}
      /\ s # "count" => Held' = Held
      /\ \A a \in Held : a.id # c.id
  BY CallStep, Zenon DEF Core
<1>2. /\ SlabInv' /\ CountsExact' /\ \A i \in Slabs : Complete(i) => Complete(i)'
      /\ \A u \in Threads : /\ Carries(u)' <=> Carries(u)
                            /\ Allocating(u)' <=> Allocating(u)
  BY SlabsSame, Zenon DEF Core
<1>3. /\ UNCHANGED <<live, calls, stats, heap, boot, hot_slabs, mem, wild, hot_next>>
      /\ UNCHANGED <<pc, at, old_head, owned, list>>
  BY Zenon DEF CallMoves, tierVars
<1>4. \A a \in Held : a.place \in Places /\ a.place[2] \in Nat /\ a.size \in Nat /\ Served(a)
  BY HeldTypes, Zenon DEF Core, Owners, Places
<1>5. warm_offset \in Nat
  BY Zenon DEF Core, TypeOK
<1>6. TypeOK'
  BY <1>1, <1>2, <1>3, Zenon DEF Core, TypeOK, SlabInv
<1>7. InStep'
  BY <1>1, <1>2, <1>3, Zenon DEF Core, InStep, Allocating
<1>8. Owners'
  <2>1. \A a \in Held' : Served(a)'
    <3>1. ASSUME NEW a \in Held PROVE Served(a)'
      <4>1. a.place[1] = "HOT" => <<a.place[2], a.place[3]>> \in owned'
        <5> SUFFICES ASSUME a.place[1] = "HOT" PROVE <<a.place[2], a.place[3]>> \in owned'
          BY Zenon
        <5>1. a.place # <<"COLD", a.id, a.size>>
          OBVIOUS
        <5> QED BY <5>1, <1>3, <1>4, Zenon DEF Served
      <4> QED BY <4>1, <1>3, <1>4, <1>5, ServedStays, Zenon
    <3> QED BY <3>1, <1>1, Zenon
  <2>0. Owners /\ Held \subseteq Held'
    BY <1>1, Zenon DEF Core
  <2>2. \A x \in owned' : \/ \E a \in Held' : a.place = <<"HOT", x[1], x[2]>>
                          \/ \E u \in Threads : pc'[u] = "got" /\ x = <<at'[u], old_head'[u]>>
    <3> SUFFICES ASSUME NEW x \in owned'
                 PROVE  \/ \E a \in Held' : a.place = <<"HOT", x[1], x[2]>>
                        \/ \E u \in Threads : pc'[u] = "got" /\ x = <<at'[u], old_head'[u]>>
      BY Zenon
    <3>1. \/ \E a \in Held : a.place = <<"HOT", x[1], x[2]>>
          \/ \E u \in Threads : pc[u] = "got" /\ x = <<at[u], old_head[u]>>
      BY <2>0, <1>3, Zenon DEF Owners
    <3> QED BY <3>1, <2>0, <1>3, Zenon
  <2>3. \A u \in Threads : pc'[u] = "got" =>
               /\ <<at'[u], old_head'[u]>> \in owned'
               /\ \A a \in Held' : a.place # <<"HOT", at'[u], old_head'[u]>>
    <3>1. \A u \in Threads : s = "count" => c.place # <<"HOT", at'[u], old_head'[u]>>
      OBVIOUS
    <3>2. \A u \in Threads : pc'[u] = "got" =>
               /\ <<at'[u], old_head'[u]>> \in owned'
               /\ \A a \in Held : a.place # <<"HOT", at'[u], old_head'[u]>>
      BY <2>0, <1>3, Zenon DEF Owners
    <3> QED BY <3>1, <3>2, <1>1
  <2>4. heap' = {a.place : a \in {b \in live' : b.place[1] = "COLD"}}
    BY <1>3, Zenon DEF Core, Owners
  <2> QED BY <2>1, <2>2, <2>3, <2>4, Zenon DEF Owners
<1>9. Booted'
  BY <1>2, <1>3, Zenon DEF Core, Booted, Ready
<1>10. TurnsTaken'
  BY <1>1, <1>3, Zenon DEF Core, TurnsTaken
<1>11. StaysInArray'
  BY <1>3, Zenon DEF Core, StaysInArray
<1>12. WarmAligned'
  BY <1>1, Zenon DEF Core, WarmAligned
<1>13. HotApart'
  BY <1>1 DEF Core, HotApart
<1>14. WarmApart'
  <2>1. ASSUME NEW a \in Held, a.place[1] = "WARM", s = "count", c.place[1] = "WARM"
        PROVE  a.place[2] + Aligned(a.size) <= c.place[2]
    <3>1. a.place # <<"COLD", a.id, a.size>>
      BY <2>1
    <3> QED BY <2>1, <3>1, <1>4, Zenon DEF Served
  <2> QED BY <2>1, <1>1 DEF Core, WarmApart
<1> QED BY <1>1, <1>2, <1>6, <1>7, <1>8, <1>9, <1>10, <1>11, <1>12, <1>13, <1>14 DEF Core

\* A number without remainder is a multiple.
LEMMA Multiple ==
  ASSUME NEW m \in Nat \ {0}, NEW x \in Nat, x % m = 0
  PROVE  \E q \in Nat : x = m * q
<1> DEFINE q == x \div m
           r == x % m
<1>1. x \in Nat /\ r = 0
  BY Zenon
<1>2. q \in Nat /\ r \in 0 .. m - 1 /\ x = m * q + r
  BY <1>1
<1> HIDE DEF q, r
<1> QED BY <1>1, <1>2

\* Multiples of one number, added.
LEMMA Distribute == \A m, q, r \in Nat : m * q + m * r = m * (q + r) /\ q + r \in Nat
OBVIOUS

\* The sum of two multiples of a line.
LEMMA MultiplesAdd ==
  ASSUME NEW m \in Nat \ {0}, NEW x \in Nat, NEW y \in Nat, x % m = 0, y % m = 0
  PROVE  (x + y) % m = 0
<1>1. PICK q \in Nat : x = m * q
  BY Multiple, Zenon
<1>2. PICK r \in Nat : y = m * r
  BY Multiple, Zenon
<1>3. \A k \in Nat : (m * k) % m = 0
  OBVIOUS
<1> QED BY <1>1, <1>2, <1>3, Distribute

\* WARM: the fetch_add, and the test of what it returned.
LEMMA WarmStep == ASSUME FiniteFacts, Core, NEW t \in Threads, Warm(t) PROVE Core'
<1> DEFINE n == call[t].size
<1>1. /\ call[t] \in Requests /\ n \in Nat /\ warm_offset \in Nat /\ tpc[t] = "WARM" /\ Ready
      /\ mem[WarmPool] \in Nat /\ tpc \in [Threads -> Tiers \cup {"idle", "slab", "count"}]
      /\ call \in [Threads -> Requests] /\ warm_offset % Line = 0
      /\ UNCHANGED <<slabVars, tierVars, hot_next, live, calls, stats, heap>>
  BY Sizing, Zenon DEF Core, TypeOK, Warm, May, Requests, WarmAligned
<1>2. Aligned(n) \in Nat /\ Aligned(n) % Line = 0 /\ Line \in Nat \ {0}
  BY <1>1, Sizing, TierAssumption, Zenon
<1>3. CASE mem[WarmPool] > 0
  <2>1. PICK s, c : /\ s = IF Fits(warm_offset, n) THEN "count" ELSE "COLD"
                    /\ c = [call[t] EXCEPT !.place = <<"WARM", warm_offset, n>>]
    BY Zenon
  <2>2. /\ warm_offset' = warm_offset + Aligned(n) /\ tpc' = [tpc EXCEPT ![t] = s]
        /\ call' = [call EXCEPT ![t] = c]
    BY <1>1, <1>3, <2>1, Zenon DEF Warm, Advance
  <2>3. warm_offset' \in Nat /\ warm_offset' >= warm_offset /\ warm_offset' % Line = 0
    BY <1>1, <1>2, <2>2, MultiplesAdd
  <2>4. /\ c \in Requests /\ c.id = call[t].id /\ c.size = n
        /\ c.place = <<"WARM", warm_offset, n>>
    BY <1>1, <2>1, Zenon DEF Requests, Places
  <2>5. s \in {"count", "COLD"} /\ (s = "count" => Fits(warm_offset, n))
    BY <2>1, Zenon
  <2>6. CallMoves(t, s, c)
    BY <1>1, <2>2, <2>4, <2>5, Zenon DEF CallMoves, Tiers
  <2>7. c.place[1] = "WARM" /\ c.place[2] = warm_offset /\ c.place[3] = c.size
    BY <2>4
  <2>8. s = "count" => Served(c)'
    <3>1. s = "count" => c.place[2] + Aligned(c.size) <= WarmSize
      BY <2>4, <2>5, <2>7, Zenon DEF Fits
    <3>2. c.place[2] + Aligned(c.size) <= warm_offset'
      BY <1>1, <1>2, <2>2, <2>4, <2>7
    <3>3. mem'[WarmPool] > 0
      BY <1>1, <1>3, Zenon DEF tierVars
    <3> QED BY <3>1, <3>2, <3>3, <2>7, Zenon DEF Served
  <2>9. s = "count" => /\ Served(c)' /\ c.place[1] # "HOT"
                       /\ c.place[1] = "WARM" => c.place[2] = warm_offset
    BY <2>7, <2>8, Zenon
  <2> QED BY <1>1, <2>3, <2>5, <2>6, <2>9, OffSlabStep, Zenon
<1>4. CASE ~(mem[WarmPool] > 0)
  <2>1. tpc' = [tpc EXCEPT ![t] = "COLD"] /\ warm_offset' = warm_offset /\ call' = call
    BY <1>4, Zenon DEF Warm
  <2>2. CallMoves(t, "COLD", call[t])
    BY <1>1, <2>1, Zenon DEF CallMoves, Tiers
  <2> QED BY <1>1, <2>1, <2>2, OffSlabStep
<1> QED BY <1>3, <1>4, Zenon

\* COLD: the heap serves every call.
LEMMA ColdStep == ASSUME FiniteFacts, Core, NEW t \in Threads, Cold(t) PROVE Core'
<1>0. PICK c : c = [call[t] EXCEPT !.place = <<"COLD", call[t].id, call[t].size>>]
  BY Zenon
<1>1. /\ call[t] \in Requests /\ warm_offset \in Nat /\ tpc[t] = "COLD" /\ Ready
      /\ call \in [Threads -> Requests] /\ warm_offset % Line = 0
      /\ UNCHANGED <<slabVars, tierVars, hot_next, live, calls, stats, heap, warm_offset>>
      /\ tpc' = [tpc EXCEPT ![t] = "count"] /\ call' = [call EXCEPT ![t] = c]
  BY <1>0, Zenon DEF Core, TypeOK, Cold, May, WarmAligned
<1>2. /\ c \in Requests /\ c.id = call[t].id /\ c.size = call[t].size
      /\ c.place = <<"COLD", c.id, c.size>>
  BY <1>0, <1>1, Zenon DEF Requests, Places
<1>3. CallMoves(t, "count", c)
  BY <1>1, <1>2, Zenon DEF CallMoves
<1>4. /\ Served(c)' /\ c.place[1] # "HOT"
      /\ c.place[1] = "WARM" => c.place[2] = warm_offset
  BY <1>2 DEF Served
<1>5. warm_offset' \in Nat /\ warm_offset' >= warm_offset /\ warm_offset' % Line = 0
  BY <1>1
<1> QED BY <1>1, <1>3, <1>4, <1>5, OffSlabStep, Zenon

\* bt_slab_alloc has returned: its block is the allocation of the call, which nobody
\* else has, or the call goes on to WARM.
LEMMA SlabDoneStep ==
  ASSUME FiniteFacts, OneAllocator, Core, NEW t \in Threads, SlabGot(t) \/ SlabNone(t)
  PROVE  Core'
<1>0. PICK s, c : /\ s = IF pc[t] = "got" THEN "count" ELSE "WARM"
                  /\ c = IF pc[t] = "got" THEN [call[t] EXCEPT !.place = <<"HOT", at[t], old_head[t]>>]
                         ELSE call[t]
  BY Zenon
<1>1. /\ call[t] \in Requests /\ tpc[t] = "slab" /\ Ready /\ pc[t] \in {"got", "none"} /\ AllocDone(t)
      /\ call \in [Threads -> Requests] /\ Owners /\ SlabTypes /\ InStep
      /\ UNCHANGED <<boot, hot_slabs, mem, wild, hot_next, live, calls, stats, heap, warm_offset>>
      /\ tpc' = [tpc EXCEPT ![t] = s] /\ call' = [call EXCEPT ![t] = c]
  BY <1>0, Zenon DEF Core, TypeOK, SlabGot, SlabNone, May, SlabInv, tierVars
<1>2. /\ c \in Requests /\ c.id = call[t].id /\ c.size = call[t].size
      /\ pc[t] = "got" => c.place = <<"HOT", at[t], old_head[t]>>
  <2>1. CASE pc[t] = "got"
    <3>1. <<"HOT", at[t], old_head[t]>> \in Places
      <4>1. <<at[t], old_head[t]>> \in Slabs \X Blocks
        BY <1>1, <2>1, Zenon DEF Owners, SlabTypes
      <4>2. Slabs \subseteq Nat /\ Blocks \subseteq Nat
        BY Sizing, Zenon
      <4> QED BY <4>1, <4>2, Zenon DEF Places
    <3> QED BY <3>1, <2>1, <1>0, <1>1, Zenon DEF Requests
  <2>2. CASE pc[t] # "got"
    BY <2>2, <1>0, <1>1, Zenon
  <2> QED BY <2>1, <2>2, Zenon
<1>3. CallMoves(t, s, c)
  BY <1>0, <1>1, <1>2, Zenon DEF CallMoves, Tiers
<1>4. /\ Identified' /\ StatsExact'
      /\ tpc' \in [Threads -> Tiers \cup {"idle", "slab", "count"}]
      /\ call' \in [Threads -> Requests]
      /\ tpc'[t] = s /\ call'[t] = c /\ c.size \in Sizes /\ c.size \in Nat
      /\ \A u \in Threads : u # t => tpc'[u] = tpc[u] /\ call'[u] = call[u]
      /\ s = "count" => Held' = Held \cup {c}
      /\ s # "count" => Held' = Held
      /\ \A a \in Held : a.id # c.id
  <2>1. TypeOK /\ Identified /\ StatsExact
    BY Zenon DEF Core
  <2> QED BY <1>3, <2>1, CallStep
<1>5. Looks(t) /\ SlabInv /\ CountsExact
  BY <1>1, Zenon DEF Looks, Core
<1>6. /\ SlabInv' /\ CountsExact' /\ Keeps /\ Alone(t) /\ UNCHANGED <<owned, list, at, old_head>>
      /\ pc'[t] = "idle"
  <2>1. UNCHANGED <<at, old_head>> /\ pc'[t] = "idle"
    BY <1>1, Zenon DEF AllocDone, SlabTypes
  <2> QED BY <2>1, <1>5, LookStep, LookCounts, Zenon
<1>7. \A u \in Threads : u # t => pc'[u] = pc[u]
  BY <1>6, Zenon DEF Alone
<1>8. TypeOK'
  BY <1>1, <1>4, <1>6, Zenon DEF Core, TypeOK, SlabInv
<1>9. InStep'
  BY <1>0, <1>1, <1>4, <1>6, <1>7 DEF InStep, Allocating
<1>10. \A u \in Threads : u # t => pc[u] # "got"
  <2>1. \A u \in Threads : pc[u] \in {"got", "none"} => u \in Allocators
    BY <1>1, Zenon DEF InStep, Allocating
  <2> QED BY <2>1, <1>1, Zenon DEF OneAllocator
<1>11. s = "count" <=> pc[t] = "got"
  BY <1>0, Zenon
<1>12. \A a \in Held : /\ a.place \in Places /\ a.place[2] \in Nat /\ a.size \in Nat /\ Served(a)
                       /\ pc[t] = "got" => a.place # <<"HOT", at[t], old_head[t]>>
  BY <1>1, HeldTypes, Zenon DEF Core, Owners, Places
<1>13. pc[t] = "got" => c.place[1] = "HOT" /\ c.place[2] = at[t] /\ c.place[3] = old_head[t]
  <2> SUFFICES ASSUME pc[t] = "got" PROVE c.place[1] = "HOT" /\ c.place[2] = at[t] /\ c.place[3] = old_head[t]
    BY Zenon
  <2>1. PICK p : p = c.place
    BY Zenon
  <2>2. p = <<"HOT", at[t], old_head[t]>>
    BY <1>2, <2>1, Zenon
  <2>3. p[1] = "HOT" /\ p[2] = at[t] /\ p[3] = old_head[t]
    BY <2>2
  <2> QED BY <2>1, <2>3, Zenon
<1>14. Owners'
  <2>1. \A a \in Held' : Served(a)'
    <3>1. ASSUME NEW a \in Held PROVE Served(a)'
      BY <1>1, <1>6, <1>12, Zenon DEF Served
    <3>2. pc[t] = "got" => Served(c)'
      <4>1. pc[t] = "got" => <<at[t], old_head[t]>> \in owned'
        BY <1>1, <1>6, Zenon DEF Owners
      <4> QED BY <4>1, <1>13, Zenon DEF Served
    <3> QED BY <3>1, <3>2, <1>4, <1>11, Zenon
  <2>2. ASSUME NEW x \in owned
        PROVE  \E a \in Held' : a.place = <<"HOT", x[1], x[2]>>
    <3>1. \/ \E a \in Held : a.place = <<"HOT", x[1], x[2]>>
          \/ \E u \in Threads : pc[u] = "got" /\ x = <<at[u], old_head[u]>>
      BY <1>1, Zenon DEF Owners
    <3>2. CASE \E a \in Held : a.place = <<"HOT", x[1], x[2]>>
      BY <3>2, <1>4, Zenon
    <3>3. CASE \E u \in Threads : pc[u] = "got" /\ x = <<at[u], old_head[u]>>
      <4>1. pc[t] = "got" /\ x = <<at[t], old_head[t]>>
        BY <3>3, <1>10, Zenon
      <4>2. x[1] = at[t] /\ x[2] = old_head[t]
        BY <4>1
      <4>3. c.place = <<"HOT", x[1], x[2]>> /\ c \in Held'
        BY <4>1, <4>2, <1>2, <1>4, <1>11, Zenon
      <4> QED BY <4>3, Zenon
    <3> QED BY <3>1, <3>2, <3>3, Zenon
  <2>3. \A u \in Threads : pc'[u] # "got"
    BY <1>6, <1>7, <1>10, Zenon
  <2>4. heap' = {a.place : a \in {b \in live' : b.place[1] = "COLD"}}
    BY <1>1, Zenon DEF Owners
  <2> QED BY <2>1, <2>2, <2>3, <2>4, <1>6, Zenon DEF Owners
<1>15. Booted'
  <2>1. Booted
    BY Zenon DEF Core
  <2>2. \A u \in Threads : Carries(u)' => Carries(u)
    BY <1>6, <1>7, Zenon DEF Carries
  <2>3. \A u \in Threads : pc'[u] # "got"
    BY <1>6, <1>7, <1>10, Zenon
  <2> QED BY <2>1, <2>2, <2>3, <1>1, <1>6, Zenon DEF Booted, Ready, Keeps
<1>16. TurnsTaken'
  BY <1>0, <1>1, <1>4, Zenon DEF Core, TurnsTaken
<1>17. StaysInArray'
  BY <1>1, Zenon DEF Core, StaysInArray
<1>18. WarmAligned'
  BY <1>1, <1>4, <1>11, <1>13, Zenon DEF Core, WarmAligned
<1>19. HotApart'
  <2>1. s = "count" => \A a \in Held : a.place # c.place
    BY <1>2, <1>11, <1>12, Zenon
  <2>2. HotApart
    BY Zenon DEF Core
  <2>3. ASSUME NEW a \in Held', NEW b \in Held', a.id # b.id, a.place[1] = "HOT"
        PROVE  a.place # b.place
    <3>1. CASE a \in Held /\ b \in Held
      BY <2>2, <2>3, <3>1, Zenon DEF HotApart
    <3>2. CASE a \notin Held \/ b \notin Held
      <4>1. s = "count" /\ Held' = Held \cup {c}
        BY <1>4, <3>2, Zenon
      <4> QED BY <4>1, <2>1, <2>3, <3>2, Zenon
    <3> QED BY <3>1, <3>2, Zenon
  <2> QED BY <2>3, Zenon DEF HotApart
<1>20. WarmApart'
  <2>1. WarmApart /\ \A a \in Held' : a.place[1] = "WARM" => a \in Held
    BY <1>4, <1>11, <1>13, Zenon DEF Core
  <2> QED BY <2>1, Zenon DEF WarmApart
<1> QED BY <1>4, <1>6, <1>8, <1>9, <1>14, <1>15, <1>16, <1>17, <1>18, <1>19, <1>20, Zenon DEF Core

\* A step inside the slab.
LEMMA InSlabStep ==
  ASSUME FiniteFacts, OneAllocator, Core, NEW t \in Threads, SlabStep(t)
  PROVE  Core'
<1>1. /\ Ready /\ (Alloc(t) \/ Free(t)) /\ SlabInv /\ CountsExact /\ SlabTypes
      /\ Owners /\ InStep /\ Booted
      /\ UNCHANGED <<boot, hot_slabs, mem, wild, hot_next, live, calls, stats, heap, warm_offset,
                     tpc, call>>
  BY Zenon DEF Core, SlabStep, SlabInv, tierVars
<1>2. /\ SlabInv' /\ CountsExact' /\ Keeps /\ Alone(t) /\ at' = at
      /\ (Allocating(t)' <=> Allocating(t)) /\ pc[t] \notin {"idle", "got", "none"}
      /\ pc'[t] = "got" => /\ owned' = owned \cup {<<at[t], old_head'[t]>>}
                           /\ <<at[t], old_head'[t]>> \notin owned /\ Carries(t)
      /\ pc'[t] # "got" => owned' = owned
      /\ Carries(t)' => Carries(t) \/ list[at[t]] # <<>>
      /\ \A j \in Slabs : list[j] = <<>> => list'[j] = <<>> \/ (j = at[t] /\ Carries(t))
  BY <1>1, SlabCallStep, Zenon
<1>3. \A u \in Threads : u # t => /\ pc'[u] = pc[u] /\ old_head'[u] = old_head[u]
                                  /\ (Carries(u)' <=> Carries(u))
                                  /\ (Allocating(u)' <=> Allocating(u))
  BY <1>2, OthersCarry, Zenon DEF Alone, Allocating
<1>4. Held' = Held
  BY <1>1, Zenon DEF Held
<1>5. TypeOK'
  BY <1>1, <1>2, Zenon DEF Core, TypeOK, SlabInv
<1>6. Identified' /\ StatsExact'
  BY <1>1, Zenon DEF Core, Identified, StatsExact, TierStats
<1>7. InStep'
  BY <1>1, <1>2, <1>3, Zenon DEF InStep
<1>8. owned \subseteq owned'
  BY <1>2, Zenon
<1>9. \A a \in Held : a.place \in Places /\ Served(a)
  BY <1>1, HeldTypes, Zenon DEF Core, Owners
<1>10. Owners'
  <2>1. \A a \in Held : Served(a)'
    BY <1>1, <1>8, <1>9, Zenon DEF Served
  <2>2. ASSUME NEW x \in owned'
        PROVE  \/ \E a \in Held : a.place = <<"HOT", x[1], x[2]>>
               \/ \E u \in Threads : pc'[u] = "got" /\ x = <<at[u], old_head'[u]>>
    <3>1. CASE x \in owned
      <4>1. \/ \E a \in Held : a.place = <<"HOT", x[1], x[2]>>
            \/ \E u \in Threads : pc[u] = "got" /\ x = <<at[u], old_head[u]>>
        BY <1>1, <3>1, Zenon DEF Owners
      <4> QED BY <4>1, <1>2, <1>3, Zenon
    <3>2. CASE x \notin owned
      BY <3>2, <1>2, Zenon
    <3> QED BY <3>1, <3>2, Zenon
  <2>3. ASSUME NEW u \in Threads, pc'[u] = "got"
        PROVE  /\ <<at[u], old_head'[u]>> \in owned'
               /\ \A a \in Held : a.place # <<"HOT", at[u], old_head'[u]>>
    <3>1. CASE u # t
      BY <2>3, <3>1, <1>1, <1>3, <1>8, Zenon DEF Owners
    <3>2. CASE u = t
      <4>1. <<at[t], old_head'[t]>> \in owned' /\ <<at[t], old_head'[t]>> \notin owned
        BY <2>3, <3>2, <1>2, Zenon
      <4>2. ASSUME NEW a \in Held, a.place = <<"HOT", at[t], old_head'[t]>> PROVE FALSE
        <5>1. a.place[1] = "HOT" /\ a.place[2] = at[t] /\ a.place[3] = old_head'[t]
          BY <4>2
        <5> QED BY <5>1, <4>1, <1>9 DEF Served
      <4> QED BY <4>1, <4>2, <3>2, Zenon
    <3> QED BY <3>1, <3>2, Zenon
  <2>4. heap' = {a.place : a \in {b \in live' : b.place[1] = "COLD"}}
    BY <1>1, Zenon DEF Owners
  <2> QED BY <2>1, <2>2, <2>3, <2>4, <1>2, <1>4, Zenon DEF Owners
<1>11. Booted'
  <2>1. Carries(t) => mem[at[t]] > 0
    BY <1>1, Zenon DEF Booted
  <2>2. at[t] \in Slabs
    BY <1>1, Zenon DEF SlabTypes
  <2>3. list[at[t]] # <<>> => mem[at[t]] > 0
    BY <1>1, <2>2, Zenon DEF Booted
  <2>4. \A u \in Threads : Carries(u)' \/ pc'[u] = "got" => mem[at[u]] > 0
    BY <2>1, <2>3, <1>1, <1>2, <1>3, Zenon DEF Booted
  <2>5. ASSUME NEW i \in Slabs, ~(mem[i] > 0)
        PROVE  list'[i] = <<>> /\ \A b \in Blocks : <<i, b>> \notin owned'
    <3>1. list[i] = <<>> /\ \A b \in Blocks : <<i, b>> \notin owned
      BY <1>1, <2>5, Zenon DEF Booted
    <3> QED BY <3>1, <2>1, <2>5, <1>2, Zenon
  <2>6. \A i \in Slabs : mem[i] > 0 => Complete(i)'
    BY <1>1, <1>2, Zenon DEF Booted, Keeps
  <2>7. \A i \in Slabs : mem'[i] \in {0, Paged(HotPerSlab)} /\ (boot' <= i => mem'[i] = 0)
    BY <1>1, Zenon DEF Booted
  <2>8. mem'[WarmPool] \in {0, Paged(WarmSize)}
    BY <1>1, Zenon DEF Booted
  <2> QED BY <2>4, <2>5, <2>6, <2>7, <2>8, <1>1, <1>2, Zenon DEF Booted, Ready
<1>12. TurnsTaken' /\ StaysInArray'
  BY <1>1, Zenon DEF Core, TurnsTaken, StaysInArray
<1>13. WarmAligned' /\ HotApart' /\ WarmApart'
  BY <1>1, <1>4, Zenon DEF Core, WarmAligned, HotApart, WarmApart
<1> QED BY <1>2, <1>5, <1>6, <1>7, <1>10, <1>11, <1>12, <1>13 DEF Core

\* How often g_hot_next was raised at least, from its value.
Raises(n) == IF n >= 0 THEN n ELSE n + 2 * (IntMax + 1)

\* The fetch_add of g_hot_next, and where it leads to.
LEMMA NextTurn ==
  ASSUME FiniteFacts, NEW n \in -IntMax - 1 .. IntMax, NEW m,
         m = IF n = IntMax THEN -IntMax - 1 ELSE n + 1, NEW k \in Nat, k > Raises(n)
  PROVE  /\ m \in -IntMax - 1 .. IntMax /\ k >= Raises(m)
         /\ Turn(n) \notin Slabs => k >= IntMax + 3
<1>1. IntMax \in Nat
  BY TierAssumption, Zenon
<1>2. m \in -IntMax - 1 .. IntMax /\ k >= Raises(m)
  BY <1>1 DEF Raises
<1>3. ASSUME Turn(n) \notin Slabs PROVE k >= IntMax + 3
  <2>1. NumHot \in Nat \ {0} /\ Slabs = 0 .. NumHot - 1 /\ (IntMax + 1) % NumHot = 0
    BY Sizing, TierAssumption, Zenon DEF NumHot
  <2>2. n >= 0 => n % NumHot \in 0 .. NumHot - 1
    BY <2>1, <1>1
  <2>3. n < 0
    BY <1>1, <1>3, <2>1, <2>2 DEF Turn, Rem
  <2>4. n # -IntMax - 1
    <3>1. SUFFICES ASSUME n = -IntMax - 1 PROVE FALSE
      BY Zenon
    <3>2. -n = IntMax + 1
      BY <1>1, <3>1
    <3>3. Turn(n) = -((IntMax + 1) % NumHot)
      BY <2>3, <3>2 DEF Turn, Rem
    <3>4. Turn(n) = 0
      BY <2>1, <3>3
    <3> QED BY <3>4, <2>1, <1>3
  <2> QED BY <1>1, <2>3, <2>4 DEF Raises
<1> QED BY <1>2, <1>3, Zenon

\* HOT: the turn, and the call of bt_slab_alloc.
LEMMA HotStep ==
  ASSUME FiniteFacts, OneAllocator, Core, NEW t \in Threads, Hot(t)
  PROVE  Core'
<1>1. /\ tpc[t] = "HOT" /\ Ready /\ ~wild /\ SlabInv /\ CountsExact /\ SlabTypes /\ TypeOK
      /\ Owners /\ InStep /\ Booted /\ TurnsTaken /\ StaysInArray /\ call[t] \in Requests
      /\ hot_next' = IF hot_next = IntMax THEN -IntMax - 1 ELSE hot_next + 1
      /\ tpc' = [tpc EXCEPT ![t] = "slab"] /\ call \in [Threads -> Requests]
      /\ UNCHANGED <<boot, hot_slabs, mem, live, calls, stats, heap, warm_offset, call>>
  BY Zenon DEF Core, Hot, May, SlabInv, TypeOK
<1>2. CallMoves(t, "slab", call[t])
  BY <1>1, Zenon DEF CallMoves
<1>3. /\ Identified' /\ StatsExact'
      /\ tpc' \in [Threads -> Tiers \cup {"idle", "slab", "count"}]
      /\ tpc'[t] = "slab"
      /\ \A u \in Threads : u # t => tpc'[u] = tpc[u]
      /\ Held' = Held
  <2>1. TypeOK /\ Identified /\ StatsExact
    BY Zenon DEF Core
  <2> QED BY <1>2, <2>1, CallStep
<1>4. t \in Allocators /\ pc[t] = "idle" /\ \A u \in Threads : u # t => tpc[u] # "HOT"
  BY <1>1, Zenon DEF InStep, OneAllocator
<1>5. /\ hot_next' \in -IntMax - 1 .. IntMax /\ calls >= Raises(hot_next')
      /\ Turn(hot_next) \notin Slabs => calls >= IntMax + 3
  <2>1. calls \in Nat /\ calls > Raises(hot_next) /\ hot_next \in -IntMax - 1 .. IntMax
    BY <1>1, Zenon DEF TypeOK, TurnsTaken, Raises
  <2> QED BY <2>1, <1>1, NextTurn, Zenon
<1>6. TurnsTaken'
  BY <1>1, <1>3, <1>4, <1>5, Zenon DEF TurnsTaken, Raises
<1>7. /\ SlabInv' /\ CountsExact' /\ UNCHANGED <<owned, list, old_head>>
      /\ \A i \in Slabs : Complete(i) => Complete(i)'
      /\ \A u \in Threads : u # t => pc'[u] = pc[u] /\ at'[u] = at[u]
      /\ \A u \in Threads : /\ (Carries(u)' <=> Carries(u))
                            /\ u # t => (Allocating(u)' <=> Allocating(u))
                            /\ (pc'[u] = "got" <=> pc[u] = "got")
      /\ Allocating(t)' \/ (wild' /\ pc'[t] = "idle")
      /\ wild' \in BOOLEAN
      /\ wild' => ~hot_slabs \/ Turn(hot_next) \notin Slabs
  <2>1. CASE hot_slabs /\ Turn(hot_next) \in Slabs
    <3>1. AllocCall(t, Turn(hot_next)) /\ wild' = wild
      BY <2>1, Zenon DEF Hot
    <3>2. Looks(t)
      BY <2>1, <3>1, <1>4, Zenon DEF Looks
    <3>3. SlabInv' /\ CountsExact' /\ Keeps /\ Alone(t) /\ UNCHANGED <<owned, list>>
      BY <3>2, <1>1, LookStep, LookCounts, Zenon
    <3>4. pc'[t] = "again" /\ old_head' = old_head
      BY <3>1, <1>1, Zenon DEF AllocCall, SlabTypes
    <3>5. \A u \in Threads : u # t => pc'[u] = pc[u] /\ at'[u] = at[u]
      BY <3>3, Zenon DEF Alone
    <3>6. \A u \in Threads : /\ (Carries(u)' <=> Carries(u))
                             /\ u # t => (Allocating(u)' <=> Allocating(u))
                             /\ (pc'[u] = "got" <=> pc[u] = "got")
      BY <3>4, <3>5, <1>4, Zenon DEF Carries, Allocating
    <3>7. Allocating(t)'
      BY <3>4, Zenon DEF Allocating
    <3>8. wild \in BOOLEAN
      BY <1>1, Zenon DEF TypeOK
    <3>9. wild' \in BOOLEAN /\ ~wild'
      BY <3>1, <3>8, <1>1, Zenon
    <3>10. SlabInv' /\ CountsExact' /\ UNCHANGED <<owned, list, old_head>>
           /\ \A i \in Slabs : Complete(i) => Complete(i)'
      BY <3>3, <3>4, Zenon DEF Keeps
    <3>11. Allocating(t)' \/ (wild' /\ pc'[t] = "idle")
      BY <3>7, Zenon
    <3>12. wild' => ~hot_slabs \/ Turn(hot_next) \notin Slabs
      BY <3>9, Zenon
    <3> QED BY <3>5, <3>6, <3>9, <3>10, <3>11, <3>12, Zenon
  <2>2. CASE ~(hot_slabs /\ Turn(hot_next) \in Slabs)
    <3>1. wild' = TRUE /\ UNCHANGED slabVars
      BY <2>2, Zenon DEF Hot
    <3> QED BY <3>1, <2>2, <1>1, <1>4, SlabsSame, Zenon
  <2> QED BY <2>1, <2>2, Zenon
<1>8. TypeOK'
  BY <1>1, <1>3, <1>5, <1>7, Zenon DEF TypeOK, SlabInv
<1>9. InStep'
  <2>1. pc'[t] # "idle" => tpc'[t] \in {"idle", "slab"}
    BY <1>3, Zenon
  <2> QED BY <2>1, <1>1, <1>3, <1>4, <1>7, Zenon DEF InStep
<1>10. Owners'
  <2>1. \A a \in Held : Served(a)'
    BY <1>1, <1>7, Zenon DEF Owners, Served
  <2>2. ASSUME NEW x \in owned
        PROVE  \/ \E a \in Held : a.place = <<"HOT", x[1], x[2]>>
               \/ \E u \in Threads : pc'[u] = "got" /\ x = <<at'[u], old_head'[u]>>
    <3>1. \/ \E a \in Held : a.place = <<"HOT", x[1], x[2]>>
          \/ \E u \in Threads : pc[u] = "got" /\ x = <<at[u], old_head[u]>>
      BY <1>1, Zenon DEF Owners
    <3> QED BY <3>1, <1>4, <1>7, Zenon
  <2>3. ASSUME NEW u \in Threads, pc'[u] = "got"
        PROVE  /\ <<at'[u], old_head'[u]>> \in owned
               /\ \A a \in Held : a.place # <<"HOT", at'[u], old_head'[u]>>
    BY <2>3, <1>1, <1>4, <1>7, Zenon DEF Owners
  <2>4. heap' = {a.place : a \in {b \in live' : b.place[1] = "COLD"}}
    BY <1>1, Zenon DEF Owners
  <2> QED BY <2>1, <2>2, <2>3, <2>4, <1>3, <1>7, Zenon DEF Owners
<1>11. Booted'
  <2>1. \A u \in Threads : Carries(u)' \/ pc'[u] = "got" => mem[at'[u]] > 0
    BY <1>1, <1>4, <1>7, Zenon DEF Booted, Carries
  <2> QED BY <2>1, <1>1, <1>7, Zenon DEF Booted, Ready
<1>12. StaysInArray'
  BY <1>1, <1>5, <1>7, Zenon DEF StaysInArray
<1>13. WarmAligned' /\ HotApart' /\ WarmApart'
  BY <1>1, <1>3, Zenon DEF Core, WarmAligned, HotApart, WarmApart
<1> QED BY <1>3, <1>6, <1>7, <1>8, <1>9, <1>10, <1>11, <1>12, <1>13, Zenon DEF Core
--------------------------------------------------------------------------------
(* The calls, bt_tier_free and bt_tier_init *)

\* A new call of bt_tier_alloc.
LEMMA BeginStep == ASSUME FiniteFacts, Core, NEW t \in Threads, Begin(t) PROVE Core'
<1>1. PICK tier \in Tiers, size \in Sizes :
        /\ tier = "HOT" => t \in Allocators
        /\ call' = [call EXCEPT ![t] = [NoCall EXCEPT !.id = calls + 1, !.tier = tier, !.size = size]]
        /\ tpc' = [tpc EXCEPT ![t] = tier]
  BY Zenon DEF Begin
<1>2. /\ Resting(t) /\ Ready /\ calls' = calls + 1 /\ TypeOK /\ SlabInv /\ CountsExact
      /\ Identified /\ InStep /\ Owners /\ Booted /\ UNCHANGED slabVars
      /\ UNCHANGED <<boot, hot_slabs, mem, wild, hot_next, warm_offset, stats, heap, live>>
  BY Zenon DEF Begin, May, Core, tierVars
<1>3. PICK c : c = [NoCall EXCEPT !.id = calls + 1, !.tier = tier, !.size = size]
  BY Zenon
<1>4. /\ tpc \in [Threads -> Tiers \cup {"idle", "slab", "count"}] /\ call \in [Threads -> Requests]
      /\ calls \in Nat /\ calls' \in Nat
  <2>1. \A n \in Nat : n + 1 \in Nat
    OBVIOUS
  <2> QED BY <1>2, <2>1, Zenon DEF TypeOK
<1>5. c \in Requests /\ c.id = calls + 1 /\ c.size = size
  <2>1. size \in Nat
    BY TierAssumption, Zenon
  <2>2. NoCall \in Requests
    BY Zenon DEF NoCall, Requests, Places, Tiers
  <2>3. calls + 1 \in Nat
    BY <1>4
  <2> QED BY <2>1, <2>2, <2>3, <1>3, Zenon DEF Requests
<1>6. /\ tpc' \in [Threads -> Tiers \cup {"idle", "slab", "count"}] /\ call' \in [Threads -> Requests]
      /\ tpc'[t] = tier /\ call'[t] = c /\ tpc[t] = "idle" /\ pc[t] = "idle"
      /\ \A u \in Threads : u # t => tpc'[u] = tpc[u] /\ call'[u] = call[u]
  BY <1>1, <1>2, <1>3, <1>4, <1>5, Zenon DEF Resting
<1>7. tier \notin {"idle", "slab", "count"}
  BY Zenon DEF Tiers
<1>8. Held' = Held
  <2>1. \A a : a \in Held' <=> a \in live' \/ \E u \in Threads : tpc'[u] = "count" /\ a = call'[u]
    BY Zenon DEF Held
  <2>2. \A u \in Threads : /\ tpc'[u] = "count" <=> tpc[u] = "count"
                           /\ tpc[u] = "count" => call'[u] = call[u]
    BY <1>6, <1>7, Zenon
  <2>3. \A a : a \in Held' <=> a \in Held
    <3>1. live' = live
      BY <1>2, Zenon
    <3>2. ASSUME NEW a PROVE a \in Held' <=> a \in Held
      <4>1. (\E u \in Threads : tpc'[u] = "count" /\ a = call'[u]) <=> \E u \in Threads : tpc[u] = "count" /\ a = call[u]
        BY <2>2, Zenon
      <4>2. a \in Held <=> a \in live \/ \E u \in Threads : tpc[u] = "count" /\ a = call[u]
        BY HeldBy, Zenon
      <4> QED BY <2>1, <3>1, <4>1, <4>2, Zenon
    <3> QED BY <3>2, Zenon
  <2> QED BY <2>3, Zenon
<1>9. /\ SlabInv' /\ CountsExact' /\ \A i \in Slabs : Complete(i) => Complete(i)'
      /\ \A u \in Threads : /\ Carries(u)' <=> Carries(u)
                            /\ Allocating(u)' <=> Allocating(u)
  BY <1>2, SlabsSame, Zenon
<1>10. TypeOK'
  BY <1>2, <1>4, <1>6, <1>9, Zenon DEF TypeOK, SlabInv
<1>11. Identified'
  <2>1. \A n \in 1 .. calls : n \in 1 .. calls' /\ n # calls + 1
    BY <1>2, <1>4
  <2>2. calls + 1 \in 1 .. calls'
    BY <1>2, <1>4
  <2> HIDE DEF Identified
  <2>3. \A a \in live : a.id \in 1 .. calls /\ a.size \in Sizes /\ \A b \in live : a.id = b.id => a = b
    BY <1>2, Zenon DEF Identified
  <2>4. ASSUME NEW u \in Threads, tpc'[u] # "idle"
        PROVE  /\ call'[u].id \in 1 .. calls' /\ call'[u].size \in Sizes
               /\ \A a \in live : a.id # call'[u].id
               /\ \A w \in Threads \ {u} : tpc'[w] # "idle" => call'[w].id # call'[u].id
    <3>1. CASE u = t
      BY <3>1, <2>1, <2>2, <2>3, <1>2, <1>5, <1>6, Zenon DEF Identified
    <3>2. CASE u # t
      <4>1. call'[u] = call[u] /\ tpc[u] # "idle"
        BY <3>2, <2>4, <1>6, Zenon
      <4>2. /\ call[u].id \in 1 .. calls /\ call[u].size \in Sizes /\ \A a \in live : a.id # call[u].id
            /\ \A w \in Threads \ {u} : tpc[w] # "idle" => call[w].id # call[u].id
        BY <4>1, <1>2, Zenon DEF Identified
      <4>3. ASSUME NEW w \in Threads \ {u}, tpc'[w] # "idle" PROVE call'[w].id # call'[u].id
        <5>1. CASE w = t
          BY <5>1, <4>1, <4>2, <2>1, <1>5, <1>6, Zenon
        <5>2. CASE w # t
          BY <5>2, <4>1, <4>2, <4>3, <1>6, Zenon
        <5> QED BY <5>1, <5>2, Zenon
      <4> QED BY <2>1, <4>1, <4>2, <4>3, Zenon
    <3> QED BY <3>1, <3>2, Zenon
  <2> QED BY <2>1, <2>3, <2>4, <1>2, Zenon DEF Identified
<1>12. StatsExact'
  <2>1. \A u : u # t => (u \in Busy' <=> u \in Busy)
    BY <1>6, Zenon DEF Busy
  <2>2. IsFiniteSet(Busy)
    BY SlabAssumption, Zenon DEF FiniteFacts, Busy
  <2>3. t \in Busy' /\ t \notin Busy
    BY <1>6, <1>7, Zenon DEF Busy
  <2>4. Cardinality(Busy) \in Nat /\ Cardinality(Busy') = Cardinality(Busy) + 1
    <3>1. Cardinality(Busy) \in Nat /\ Cardinality(Busy') = Cardinality(Busy) + One(t \in Busy') - One(t \in Busy)
      BY <2>1, <2>2, CardStep, Zenon
    <3> QED BY <3>1, <2>3 DEF One
  <2>5. StatsExact
    BY Zenon DEF Core
  <2> QED BY <2>4, <2>5, <1>2, <1>4 DEF StatsExact, TierStats, Busy
<1>13. InStep'
  BY <1>1, <1>2, <1>6, <1>7, <1>9, Zenon DEF InStep, Allocating
<1>14. Owners'
  <2>1. \A a \in Held : Served(a)'
    BY <1>2, Zenon DEF Owners, Served
  <2> QED BY <2>1, <1>2, <1>8, Zenon DEF Owners
<1>15. Booted'
  BY <1>2, <1>9, Zenon DEF Booted, Ready
<1>16. TurnsTaken'
  <2>1. calls >= Raises(hot_next) /\ Raises(hot_next) \in Int
    BY <1>2, TierAssumption DEF Core, TurnsTaken, Raises, TypeOK
  <2>2. calls' > Raises(hot_next)
    BY <2>1, <1>2, <1>4
  <2> QED BY <2>2, <2>1, <1>2, <1>4 DEF TurnsTaken, Raises
<1>17. StaysInArray'
  <2>1. IntMax \in Nat
    BY TierAssumption, Zenon
  <2> QED BY <2>1, <1>2, <1>4 DEF Core, StaysInArray
<1>18. WarmAligned' /\ HotApart' /\ WarmApart'
  BY <1>2, <1>8, Zenon DEF Core, WarmAligned, HotApart, WarmApart
<1> QED BY <1>9, <1>10, <1>11, <1>12, <1>13, <1>14, <1>15, <1>16, <1>17, <1>18 DEF Core

\* The counters of the tier that served the call, and its return.
LEMMA CountStep == ASSUME FiniteFacts, Core, NEW t \in Threads, Count(t) PROVE Core'
<1>0. PICK c : c = call[t]
  BY Zenon
<1>1. /\ tpc[t] = "count" /\ Ready /\ TypeOK /\ SlabInv /\ CountsExact
      /\ Identified /\ InStep /\ Owners /\ Booted /\ UNCHANGED slabVars
      /\ stats' = [stats EXCEPT ![c.place[1]].allocs = @ + 1, ![c.place[1]].bytes = @ + c.size]
      /\ \/ live' = live \cup {c} /\ heap' = heap \cup ({c.place} \cap ({"COLD"} \X Nat \X Nat))
         \/ c.place[1] = "COLD" /\ UNCHANGED <<live, heap>>
      /\ tpc' = [tpc EXCEPT ![t] = "idle"] /\ call' = [call EXCEPT ![t] = NoCall]
      /\ UNCHANGED <<boot, hot_slabs, mem, wild, hot_next, warm_offset, calls>>
  BY <1>0, Zenon DEF Count, May, Core, tierVars
<1>2. /\ tpc \in [Threads -> Tiers \cup {"idle", "slab", "count"}] /\ call \in [Threads -> Requests]
      /\ calls \in Nat /\ c \in Requests /\ c.size \in Nat
      /\ stats \in [Tiers -> [allocs : Nat, bytes : Nat]] /\ live \subseteq Requests
  BY <1>0, <1>1, Zenon DEF TypeOK, Requests
<1>3. NoCall \in Requests
  BY Zenon DEF NoCall, Requests, Places, Tiers
<1>4. /\ tpc' \in [Threads -> Tiers \cup {"idle", "slab", "count"}] /\ call' \in [Threads -> Requests]
      /\ tpc'[t] = "idle" /\ pc[t] = "idle"
      /\ \A u \in Threads : u # t => tpc'[u] = tpc[u] /\ call'[u] = call[u]
  BY <1>1, <1>2, <1>3, Zenon DEF InStep
<1>5. c \in Held /\ Served(c) /\ c.id \in 1 .. calls /\ c.size \in Sizes /\ c.place \in Places
      /\ \A a \in live : a.id # c.id
  BY <1>0, <1>1, HeldBy, HeldTypes, Zenon DEF Owners, Identified
<1>6. c.place[1] \in Tiers
  BY <1>5 DEF Served, Tiers
<1>7. Held' \subseteq Held /\ \A a \in Held : a = c \/ a \in Held'
  <2>1. \A a : a \in Held' <=> a \in live' \/ \E u \in Threads : tpc'[u] = "count" /\ a = call'[u]
    BY Zenon DEF Held
  <2> QED BY <2>1, <1>0, <1>1, <1>4, <1>5, HeldBy
<1>8. c.place[1] # "COLD" => c \in Held'
  <2>1. \A a : a \in Held' <=> a \in live' \/ \E u \in Threads : tpc'[u] = "count" /\ a = call'[u]
    BY Zenon DEF Held
  <2> QED BY <2>1, <1>1, Zenon
<1>9. /\ SlabInv' /\ CountsExact' /\ \A i \in Slabs : Complete(i) => Complete(i)'
      /\ \A u \in Threads : /\ Carries(u)' <=> Carries(u)
                            /\ Allocating(u)' <=> Allocating(u)
  BY <1>1, SlabsSame, Zenon
<1>10. live' \subseteq Requests /\ heap' \subseteq {"COLD"} \X Nat \X Nat
  BY <1>1, <1>2, Zenon DEF TypeOK
<1>11. /\ stats' \in [Tiers -> [allocs : Nat, bytes : Nat]]
       /\ stats'[c.place[1]].allocs = stats[c.place[1]].allocs + 1
       /\ \A x \in Tiers : x # c.place[1] => stats'[x].allocs = stats[x].allocs
  <2>1. PICK k \in Tiers : k = c.place[1]
    BY <1>6, Zenon
  <2>2. PICK m : m = [stats EXCEPT ![k].allocs = @ + 1]
    BY Zenon
  <2>3. /\ m \in [Tiers -> [allocs : Nat, bytes : Nat]] /\ m[k].allocs = stats[k].allocs + 1
        /\ \A x \in Tiers : x # k => m[x] = stats[x]
    BY <1>2, <2>2
  <2>4. stats' = [m EXCEPT ![k].bytes = @ + c.size]
    BY <1>1, <2>1, <2>2, Zenon
  <2> QED BY <1>2, <2>1, <2>3, <2>4
<1>12. TypeOK'
  BY <1>1, <1>4, <1>9, <1>10, <1>11, Zenon DEF TypeOK, SlabInv
<1>13. Identified'
  <2>1. \A u \in Threads : u # t /\ tpc[u] # "idle" => call[u].id # c.id
    BY <1>0, <1>1, Zenon DEF Identified
  <2>2. live' \subseteq live \cup {c}
    BY <1>1, Zenon
  <2>3. \A a \in live' : /\ a.id \in 1 .. calls /\ a.size \in Sizes
                         /\ \A b \in live' : a.id = b.id => a = b
    BY <2>2, <1>1, <1>5, Zenon DEF Identified
  <2>4. ASSUME NEW u \in Threads, tpc'[u] # "idle"
        PROVE  /\ call'[u].id \in 1 .. calls' /\ call'[u].size \in Sizes
               /\ \A a \in live' : a.id # call'[u].id
               /\ \A w \in Threads \ {u} : tpc'[w] # "idle" => call'[w].id # call'[u].id
    <3>1. u # t /\ tpc[u] # "idle" /\ call'[u] = call[u]
      BY <2>4, <1>4, Zenon
    <3> QED BY <3>1, <2>1, <2>2, <1>1, <1>4 DEF Identified
  <2> QED BY <2>3, <2>4, <1>1, Zenon DEF Identified
<1>14. StatsExact'
  <2>1. \A u : u # t => (u \in Busy' <=> u \in Busy)
    BY <1>4, Zenon DEF Busy
  <2>2. IsFiniteSet(Busy)
    BY SlabAssumption, Zenon DEF FiniteFacts, Busy
  <2>3. t \notin Busy' /\ t \in Busy
    BY <1>1, <1>4, Zenon DEF Busy
  <2>4. /\ Cardinality(Busy) \in Nat /\ Cardinality(Busy') \in Nat
        /\ Cardinality(Busy') = Cardinality(Busy) - 1
    <3>1. /\ Cardinality(Busy) \in Nat /\ Cardinality(Busy') \in Nat
          /\ Cardinality(Busy') = Cardinality(Busy) + One(t \in Busy') - One(t \in Busy)
      BY <2>1, <2>2, CardStep, Zenon
    <3> QED BY <3>1, <2>3 DEF One
  <2>5. StatsExact
    BY Zenon DEF Core
  <2>6. /\ stats["HOT"].allocs \in Nat /\ stats["WARM"].allocs \in Nat /\ stats["COLD"].allocs \in Nat
        /\ c.place[1] \in {"HOT", "WARM", "COLD"}
    BY <1>2, <1>6, Zenon DEF Tiers
  <2>7. stats'["HOT"].allocs + stats'["WARM"].allocs + stats'["COLD"].allocs
          = stats["HOT"].allocs + stats["WARM"].allocs + stats["COLD"].allocs + 1
    BY <2>6, <1>11 DEF Tiers
  <2>8. stats["HOT"].allocs + stats["WARM"].allocs + stats["COLD"].allocs = calls - Cardinality(Busy)
    BY <2>5, Zenon DEF StatsExact, TierStats, Busy
  <2>9. stats'["HOT"].allocs + stats'["WARM"].allocs + stats'["COLD"].allocs
          = calls' - Cardinality(Busy')
    <3>1. calls' = calls /\ calls \in Nat
      BY <1>1, <1>2, Zenon
    <3>2. \A n, k, l \in Nat : l = k - 1 => (n - k) + 1 = n - l
      OBVIOUS
    <3> QED BY <3>1, <3>2, <2>4, <2>7, <2>8
  <2> QED BY <2>9, Zenon DEF StatsExact, TierStats, Busy
<1>15. InStep'
  BY <1>1, <1>4, <1>9, Zenon DEF InStep, Allocating
<1>16. Owners'
  <2>1. \A a \in Held' : Served(a)'
    BY <1>1, <1>7, Zenon DEF Owners, Served
  <2>2. ASSUME NEW x \in owned
        PROVE  \/ \E a \in Held' : a.place = <<"HOT", x[1], x[2]>>
               \/ \E u \in Threads : pc[u] = "got" /\ x = <<at[u], old_head[u]>>
    <3>1. \/ \E a \in Held : a.place = <<"HOT", x[1], x[2]>>
          \/ \E u \in Threads : pc[u] = "got" /\ x = <<at[u], old_head[u]>>
      BY <1>1, Zenon DEF Owners
    <3>2. ASSUME NEW a \in Held, a.place = <<"HOT", x[1], x[2]>> PROVE a \in Held'
      BY <3>2, <1>7, <1>8
    <3> QED BY <3>1, <3>2, Zenon
  <2>3. \A u \in Threads : pc'[u] = "got" =>
               /\ <<at'[u], old_head'[u]>> \in owned'
               /\ \A a \in Held' : a.place # <<"HOT", at'[u], old_head'[u]>>
    BY <1>1, <1>7, Zenon DEF Owners
  <2>4. heap' = {a.place : a \in {b \in live' : b.place[1] = "COLD"}}
    <3>1. heap = {a.place : a \in {b \in live : b.place[1] = "COLD"}}
      BY <1>1, Zenon DEF Owners
    <3>2. CASE c.place[1] = "COLD"
      <4>1. c.place \in {"COLD"} \X Nat \X Nat
        BY <3>2, <1>5, Zenon DEF Places
      <4> QED BY <3>1, <3>2, <4>1, <1>1, Zenon
    <3>3. CASE c.place[1] # "COLD"
      <4>1. c.place \notin {"COLD"} \X Nat \X Nat
        BY <3>3, Zenon
      <4> QED BY <3>1, <3>3, <4>1, <1>1, Zenon
    <3> QED BY <3>2, <3>3, Zenon
  <2> QED BY <2>1, <2>2, <2>3, <2>4, <1>1, Zenon DEF Owners
<1>17. Booted'
  BY <1>1, <1>9, Zenon DEF Booted, Ready
<1>18. TurnsTaken' /\ StaysInArray'
  BY <1>1, <1>4, Zenon DEF Core, TurnsTaken, StaysInArray
<1>19. WarmAligned' /\ HotApart' /\ WarmApart'
  BY <1>1, <1>7, Zenon DEF Core, WarmAligned, HotApart, WarmApart
<1> QED BY <1>9, <1>12, <1>13, <1>14, <1>15, <1>16, <1>17, <1>18, <1>19 DEF Core

\* bt_tier_free, under the tier that bt_tier_classify finds: the tier the
\* allocation was served by.
LEMMA Classified ==
  ASSUME FiniteFacts, Core, NEW a \in live
  PROVE  /\ a \in Held /\ Classify(a.place) = a.place[1]
         /\ a.place[1] = "HOT" => /\ <<a.place[2], a.place[3]>> \in owned
                                  /\ a.place[2] \in Slabs /\ a.place[3] \in Blocks
         /\ a.place[1] \in {"HOT", "WARM", "COLD"}
         /\ a.place[1] = "COLD" => a.place = <<"COLD", a.id, a.size>>
<1>1. /\ a \in Held /\ a.place \in Places /\ a.place[2] \in Nat /\ a.size \in Nat \ {0} /\ Served(a)
  BY HeldBy, HeldTypes, Zenon DEF Core, Owners, Places
<1>2. CASE a.place[1] = "HOT"
  <2>1. <<a.place[2], a.place[3]>> \in owned
    BY <1>1, <1>2 DEF Served
  <2>2. a.place[2] \in Slabs /\ a.place[3] \in Blocks
    BY <2>1, Zenon DEF Core, SlabInv, SlabTypes
  <2> QED BY <1>1, <1>2, <2>1, <2>2, Zenon DEF Classify
<1>3. CASE a.place[1] = "WARM"
  <2>1. a.place # <<"COLD", a.id, a.size>>
    BY <1>3
  <2>2. mem[WarmPool] > 0 /\ a.place[2] + Aligned(a.size) <= WarmSize
    BY <1>1, <1>3, <2>1, Zenon DEF Served
  <2>3. Aligned(a.size) \in Nat /\ Aligned(a.size) > 0 /\ WarmSize \in Nat
    BY <1>1, Sizing, TierAssumption, Zenon
  <2>4. a.place[2] \in 0 .. WarmSize - 1
    BY <1>1, <2>2, <2>3
  <2> QED BY <1>1, <1>3, <2>2, <2>4, Zenon DEF Classify
<1>4. CASE a.place[1] \notin {"HOT", "WARM"}
  <2>1. a.place = <<"COLD", a.id, a.size>>
    BY <1>1, <1>4, Zenon DEF Served
  <2> QED BY <1>1, <1>4, <2>1 DEF Classify
<1> QED BY <1>2, <1>3, <1>4, Zenon

\* Its memory is free again, and everybody else keeps theirs.
LEMMA ReleaseStep == ASSUME FiniteFacts, Core, NEW t \in Threads, Release(t) PROVE Core'
<1>1. PICK a \in live :
        /\ live' = live \ {a}
        /\ IF Classify(a.place) = "HOT" THEN FreeCall(t, Owner(a.place), a.place[3])
           ELSE UNCHANGED slabVars
        /\ heap' = IF Classify(a.place) = "COLD" THEN heap \ {a.place} ELSE heap
  BY Zenon DEF Release
<1>2. /\ tpc[t] = "idle" /\ pc[t] = "idle" /\ ~wild /\ Ready /\ TypeOK /\ SlabInv /\ CountsExact /\ SlabTypes
      /\ Identified /\ InStep /\ Owners /\ Booted /\ HotApart /\ wild' = ~hot_slabs
      /\ UNCHANGED <<boot, hot_slabs, mem, hot_next, warm_offset, stats, tpc, call, calls>>
  BY <1>1, Zenon DEF Release, May, Resting, Core, SlabInv
<1>3. /\ a \in Held /\ Classify(a.place) = a.place[1]
      /\ a.place[1] = "HOT" => /\ <<a.place[2], a.place[3]>> \in owned
                               /\ a.place[2] \in Slabs /\ a.place[3] \in Blocks
      /\ a.place[1] \in {"HOT", "WARM", "COLD"}
      /\ a.place[1] = "COLD" => a.place = <<"COLD", a.id, a.size>>
  BY Classified, Zenon
<1>4. Held' = Held \ {a}
  <2>1. \A b : b \in Held' <=> b \in live' \/ \E u \in Threads : tpc'[u] = "count" /\ b = call'[u]
    BY Zenon DEF Held
  <2>2. \A u \in Threads : tpc[u] = "count" => call[u] # a
    BY <1>2, Zenon DEF Identified
  <2>3. \A b : b \in Held' <=> b \in live \ {a} \/ \E u \in Threads : tpc[u] = "count" /\ b = call[u]
    BY <2>1, <1>1, <1>2, Zenon
  <2>4. \A b : b \in Held' <=> b \in Held /\ b # a
    BY <2>2, <2>3, HeldBy, Zenon
  <2> QED BY <2>4, Zenon
<1>5. \A b \in Held' : b \in Held /\ b.id # a.id /\ b.place \in Places /\ Served(b)
  BY <1>2, <1>3, <1>4, HeldTypes, Zenon DEF Owners
<1>6. /\ SlabInv' /\ CountsExact' /\ Keeps /\ list' = list
      /\ owned' = IF a.place[1] = "HOT" THEN owned \ {<<a.place[2], a.place[3]>>} ELSE owned
      /\ \A u \in Threads : u # t => pc'[u] = pc[u] /\ at'[u] = at[u] /\ old_head'[u] = old_head[u]
      /\ pc'[t] = IF a.place[1] = "HOT" THEN "load" ELSE "idle"
      /\ a.place[1] = "HOT" => at'[t] = a.place[2]
  <2>1. CASE a.place[1] = "HOT"
    <3>1. FreeCall(t, a.place[2], a.place[3])
      BY <1>1, <1>3, <2>1, Zenon DEF Owner
    <3>2. SlabInv' /\ CountsExact' /\ Keeps /\ Alone(t) /\ list' = list /\ pc'[t] = "load"
      BY <3>1, <1>2, <1>3, <2>1, FreeCallStep, FreeCallCounts, Zenon
    <3>3. owned' = owned \ {<<a.place[2], a.place[3]>>} /\ at'[t] = a.place[2]
      BY <3>1, <1>2, Zenon DEF FreeCall, SlabTypes
    <3> QED BY <2>1, <3>2, <3>3, Zenon DEF Alone
  <2>2. CASE a.place[1] # "HOT"
    <3>1. UNCHANGED slabVars
      BY <1>1, <1>3, <2>2, Zenon
    <3> QED BY <3>1, <2>2, <1>2, SlabsSame, Zenon DEF Keeps
  <2> QED BY <2>1, <2>2, Zenon
<1>7. TypeOK'
  <2>1. live' \subseteq Requests /\ heap' \subseteq {"COLD"} \X Nat \X Nat
    BY <1>1, <1>2, Zenon DEF TypeOK
  <2>2. wild' \in BOOLEAN
    BY <1>2, Zenon
  <2>3. {hot_slabs', wild'} \subseteq BOOLEAN
    BY <2>2, <1>2, Zenon DEF TypeOK
  <2>4. SlabTypes'
    BY <1>6, Zenon DEF SlabInv
  <2> QED BY <2>1, <2>3, <2>4, <1>2, Zenon DEF TypeOK
<1>8. Identified' /\ StatsExact'
  BY <1>1, <1>2, Zenon DEF Core, Identified, StatsExact, TierStats
<1>9. InStep'
  <2>1. \A u \in Threads : u # t => (Allocating(u)' <=> Allocating(u)) /\ pc'[u] = pc[u]
    BY <1>6, Zenon DEF Allocating
  <2>2. ~Allocating(t)' /\ tpc'[t] = "idle"
    BY <1>2, <1>6, Zenon DEF Allocating
  <2>3. \A u \in Threads : tpc[u] = "slab" => Allocating(u)
    BY <1>2, Zenon DEF InStep
  <2> QED BY <2>1, <2>2, <2>3, <1>2, Zenon DEF InStep
<1>10. Owners'
  <2>1. ASSUME NEW b \in Held' PROVE Served(b)'
    <3>1. b.place[1] = "HOT" => <<b.place[2], b.place[3]>> \in owned'
      <4>1. SUFFICES ASSUME b.place[1] = "HOT" PROVE <<b.place[2], b.place[3]>> \in owned'
        BY Zenon
      <4>2. <<b.place[2], b.place[3]>> \in owned
        BY <4>1, <1>5 DEF Served
      <4>3. CASE a.place[1] = "HOT"
        <5>1. b.place # a.place
          BY <4>1, <1>2, <1>3, <1>5, Zenon DEF HotApart
        <5>2. b.place \in Places /\ a.place \in Places
          BY <1>2, <1>3, <1>5, HeldTypes, Zenon
        <5>3. <<b.place[2], b.place[3]>> # <<a.place[2], a.place[3]>>
          BY <5>1, <5>2, <4>1, <4>3 DEF Places
        <5> QED BY <5>3, <4>2, <1>6, Zenon
      <4>4. CASE a.place[1] # "HOT"
        BY <4>2, <4>4, <1>6, Zenon
      <4> QED BY <4>3, <4>4, Zenon
    <3> QED BY <3>1, <1>2, <1>5, Zenon DEF Served
  <2>2. ASSUME NEW x \in owned'
        PROVE  \/ \E b \in Held' : b.place = <<"HOT", x[1], x[2]>>
               \/ \E u \in Threads : pc'[u] = "got" /\ x = <<at'[u], old_head'[u]>>
    <3>1. x \in owned /\ x \in Slabs \X Blocks
      BY <1>2, <1>6, Zenon DEF SlabTypes
    <3>2. \/ \E b \in Held : b.place = <<"HOT", x[1], x[2]>>
          \/ \E u \in Threads : pc[u] = "got" /\ x = <<at[u], old_head[u]>>
      BY <3>1, <1>2, Zenon DEF Owners
    <3>3. a.place # <<"HOT", x[1], x[2]>>
      <4>1. SUFFICES ASSUME a.place = <<"HOT", x[1], x[2]>> PROVE FALSE
        BY Zenon
      <4>2. a.place[1] = "HOT" /\ x = <<a.place[2], a.place[3]>>
        BY <4>1, <3>1
      <4> QED BY <4>2, <1>6, Zenon
    <3> QED BY <3>2, <3>3, <1>2, <1>4, <1>6, Zenon
  <2>3. ASSUME NEW u \in Threads, pc'[u] = "got"
        PROVE  /\ <<at'[u], old_head'[u]>> \in owned'
               /\ \A b \in Held' : b.place # <<"HOT", at'[u], old_head'[u]>>
    <3>1. u # t /\ pc[u] = "got" /\ at'[u] = at[u] /\ old_head'[u] = old_head[u]
      BY <2>3, <1>6, Zenon
    <3>2. <<at[u], old_head[u]>> \in owned /\ \A b \in Held : b.place # <<"HOT", at[u], old_head[u]>>
      BY <3>1, <1>2, Zenon DEF Owners
    <3>3. a.place[1] = "HOT" => <<a.place[2], a.place[3]>> # <<at[u], old_head[u]>>
      <4>1. a.place \in Places
        BY <1>2, <1>3, HeldTypes, Zenon
      <4> QED BY <4>1, <3>2, <1>3 DEF Places
    <3> QED BY <3>1, <3>2, <3>3, <1>4, <1>6
  <2>4. heap' = {b.place : b \in {d \in live' : d.place[1] = "COLD"}}
    <3>1. heap = {b.place : b \in {d \in live : d.place[1] = "COLD"}}
      BY <1>2, Zenon DEF Owners
    <3>2. CASE a.place[1] # "COLD"
      BY <3>1, <3>2, <1>1, <1>3, Zenon
    <3>3. CASE a.place[1] = "COLD"
      <4>1. ASSUME NEW b \in live', b.place[1] = "COLD" PROVE b.place # a.place
        <5>1. b \in Held' /\ b.place = <<"COLD", b.id, b.size>>
          <6>1. b \in Held'
            BY Zenon DEF Held
          <6> QED BY <4>1, <6>1, <1>5, Zenon DEF Served
        <5> QED BY <5>1, <3>3, <1>3, <1>5
      <4>2. heap' = heap \ {a.place}
        BY <1>1, <1>3, <3>3, Zenon
      <4> QED BY <3>1, <4>1, <4>2, <1>1, Zenon
    <3> QED BY <3>2, <3>3, Zenon
  <2> QED BY <2>1, <2>2, <2>3, <2>4, Zenon DEF Owners
<1>11. Booted'
  <2>1. owned' \subseteq owned
    BY <1>6, Zenon
  <2>2. a.place[1] = "HOT" => mem[a.place[2]] > 0
    BY <1>2, <1>3, Zenon DEF Booted
  <2>3. ASSUME NEW u \in Threads, Carries(u)' \/ pc'[u] = "got" PROVE mem[at'[u]] > 0
    <3>1. CASE u = t
      BY <2>2, <2>3, <3>1, <1>6, Zenon DEF Carries
    <3>2. CASE u # t
      BY <2>3, <3>2, <1>2, <1>6, Zenon DEF Carries, Booted
    <3> QED BY <3>1, <3>2, Zenon
  <2> QED BY <2>1, <2>3, <1>2, <1>6, Zenon DEF Booted, Ready, Keeps
<1>12. TurnsTaken'
  BY <1>2, Zenon DEF Core, TurnsTaken
<1>13. StaysInArray'
  BY <1>2, Zenon DEF StaysInArray
<1>14. WarmAligned' /\ HotApart' /\ WarmApart'
  BY <1>2, <1>5, Zenon DEF Core, WarmAligned, HotApart, WarmApart
<1> QED BY <1>6, <1>7, <1>8, <1>9, <1>10, <1>11, <1>12, <1>13, <1>14 DEF Core
--------------------------------------------------------------------------------
(* bt_tier_init *)

\* Until bt_tier_init has returned nothing is allocated, and a step of it disturbs
\* nothing but the slabs and their memory.
LEMMA BootStep ==
  ASSUME Core, ~Ready, SlabInv', CountsExact', Booted',
         boot' \in -1 .. NumHot + 1, hot_slabs' \in BOOLEAN, mem' \in [Parts -> Nat],
         UNCHANGED <<wild, hot_next, warm_offset, stats, heap, tpc, call, live, calls, pc, owned>>
  PROVE  Core'
<1>1. live = {} /\ (\A t \in Threads : tpc[t] = "idle" /\ pc[t] = "idle") /\ owned = {} /\ ~wild
  BY Zenon DEF Core, Booted, Resting
<1>2. Held = {} /\ Held' = {}
  BY <1>1, Zenon DEF Held
<1>3. wild' \in BOOLEAN /\ {hot_slabs', wild'} \subseteq BOOLEAN /\ ~wild'
  <2>1. wild \in BOOLEAN
    BY Zenon DEF Core, TypeOK
  <2>2. wild' \in BOOLEAN /\ ~wild'
    BY <1>1, <2>1, Zenon
  <2> QED BY <2>2, Zenon
<1>4. TypeOK'
  BY <1>3, Zenon DEF Core, TypeOK, SlabInv
<1>5. Identified' /\ StatsExact'
  BY Zenon DEF Core, Identified, StatsExact, TierStats
<1>6. InStep'
  BY <1>1, Zenon DEF InStep, Allocating
<1>7. Owners'
  <2>1. heap' = {a.place : a \in {b \in live' : b.place[1] = "COLD"}}
    BY Zenon DEF Core, Owners
  <2> QED BY <2>1, <1>1, <1>2, Zenon DEF Owners
<1>8. TurnsTaken'
  BY Zenon DEF Core, TurnsTaken
<1>9. StaysInArray'
  BY <1>3, Zenon DEF StaysInArray
<1>10. WarmAligned' /\ HotApart' /\ WarmApart'
  BY <1>2, Zenon DEF Core, WarmAligned, HotApart, WarmApart
<1> QED BY <1>4, <1>5, <1>6, <1>7, <1>8, <1>9, <1>10 DEF Core

\* The parts of bt_tier_init keep the invariant, whether they get memory or not.
LEMMA InitSteps == ASSUME FiniteFacts, Core, InitArray \/ InitSlab \/ InitWarm PROVE Core'
<1>1. /\ SlabInv /\ CountsExact /\ Booted /\ boot \in -1 .. NumHot + 1 /\ hot_slabs \in BOOLEAN
      /\ mem \in [Parts -> Nat] /\ SlabTypes
  BY Zenon DEF Core, TypeOK, SlabInv
<1>2. /\ NumHot \in Nat \ {0} /\ Slabs = 0 .. NumHot - 1 /\ Parts = 0 .. NumHot /\ WarmPool = NumHot
      /\ Paged(HotPerSlab) \in Nat \ {0} /\ Paged(WarmSize) \in Nat
  BY Sizing, Zenon
<1>0. /\ 0 \in -1 .. NumHot + 1 /\ NumHot + 1 \in -1 .. NumHot + 1 /\ ~(0 > 0) /\ Paged(HotPerSlab) > 0
      /\ \A i \in Slabs : /\ -1 <= i /\ ~(NumHot + 1 <= i) /\ i \in Parts /\ i # WarmPool
                          /\ i + 1 \in -1 .. NumHot + 1 /\ ~(i + 1 <= i) /\ i <= i
                          /\ \A j \in Slabs : i + 1 <= j => i <= j
      /\ WarmPool \in Parts
  BY <1>2
<1>3. ~Ready
  BY <1>2 DEF InitArray, InitSlab, InitWarm, Ready
<1>4. /\ owned = {} /\ (\A t \in Threads : Resting(t) /\ pc[t] = "idle") /\ live = {} /\ calls = 0
      /\ hot_next = 0 /\ ~wild
  BY <1>1, <1>3, Zenon DEF Booted, Resting
<1>5. UNCHANGED <<wild, hot_next, warm_offset, stats, heap, tpc, call, live, calls, pc, owned>>
  BY Zenon DEF InitArray, InitSlab, InitWarm, SlabInit
<1>6. \A t \in Threads : Resting(t)' /\ ~Carries(t)' /\ pc'[t] # "got"
  BY <1>4, <1>5, Zenon DEF Resting, Carries
<1>7. ASSUME /\ \A i \in Slabs : /\ mem'[i] \in {0, Paged(HotPerSlab)} /\ (boot' <= i => mem'[i] = 0)
                                 /\ mem'[i] > 0 => Complete(i)'
                                 /\ ~(mem'[i] > 0) => list'[i] = <<>>
             /\ mem'[WarmPool] \in {0, Paged(WarmSize)}
      PROVE  Booted'
  <2>1. owned' = {} /\ live' = {} /\ calls' = 0 /\ hot_next' = 0 /\ ~wild'
    BY <1>4, <1>5, Zenon
  <2> QED BY <2>1, <1>6, <1>7, Zenon DEF Booted
<1>8. CASE InitArray
  <2>1. UNCHANGED slabVars /\ mem' = mem /\ boot' \in -1 .. NumHot + 1 /\ hot_slabs' \in BOOLEAN
        /\ boot = -1
    <3>1. boot' \in {0, NumHot + 1} /\ hot_slabs' \in {TRUE, FALSE}
      BY <1>8, Zenon DEF InitArray
    <3>2. boot' \in -1 .. NumHot + 1
      BY <1>0, <3>1, Zenon
    <3> QED BY <1>8, <3>1, <3>2, Zenon DEF InitArray
  <2>2. SlabInv' /\ CountsExact' /\ \A i \in Slabs : Complete(i) => Complete(i)'
    BY <1>1, <2>1, SlabsSame, Zenon
  <2>3. \A i \in Slabs : mem[i] = 0
    <3>1. \A i \in Slabs : boot <= i
      BY <1>0, <2>1, Zenon
    <3> QED BY <1>1, <3>1, Zenon DEF Booted
  <2>4. Booted'
    BY <1>0, <2>1, <2>3, <1>1, <1>7, Zenon DEF Booted, slabVars
  <2> QED BY <2>1, <2>2, <2>4, <1>1, <1>3, <1>5, BootStep, Zenon
<1>9. CASE InitSlab
  <2>1. PICK k \in Slabs : k = boot
    BY <1>9, Zenon DEF InitSlab
  <2>2. mem' \in {[mem EXCEPT ![k] = Paged(HotPerSlab)], mem} /\ hot_slabs' = hot_slabs /\ mem[k] = 0
    <3>1. boot <= k
      BY <1>0, <2>1, Zenon
    <3> QED BY <1>1, <1>9, <2>1, <3>1, Zenon DEF InitSlab, Booted, NumaAllocLocal
  <2>4. CASE mem' = [mem EXCEPT ![k] = Paged(HotPerSlab)]
    <3>1. /\ mem' \in [Parts -> Nat] /\ mem'[k] = Paged(HotPerSlab)
          /\ \A x \in Parts : x # k => mem'[x] = mem[x]
      BY <1>0, <1>1, <1>2, <2>4, Zenon
    <3>2. SlabInit(k) /\ boot' = k + 1
      BY <1>2, <1>9, <2>1, <3>1, Zenon DEF InitSlab
    <3>3. /\ SlabInv' /\ CountsExact' /\ Complete(k)'
          /\ \A j \in Slabs : j # k => list'[j] = list[j] /\ (Complete(j) => Complete(j)')
      BY <1>1, <1>4, <3>2, SlabInitStep, Zenon
    <3>4. boot' \in -1 .. NumHot + 1
      BY <1>0, <3>2, Zenon
    <3>5. ASSUME NEW i \in Slabs
          PROVE  /\ mem'[i] \in {0, Paged(HotPerSlab)} /\ (boot' <= i => mem'[i] = 0)
                 /\ mem'[i] > 0 => Complete(i)'
                 /\ ~(mem'[i] > 0) => list'[i] = <<>>
      <4>1. CASE i = k
        <5>1. ~(boot' <= i) /\ mem'[i] > 0
          BY <1>0, <4>1, <3>1, <3>2, Zenon
        <5> QED BY <4>1, <5>1, <3>1, <3>3, Zenon
      <4>2. CASE i # k
        <5>1. boot' <= i => boot <= i
          BY <1>0, <2>1, <3>2, Zenon
        <5>2. mem'[i] = mem[i]
          BY <1>0, <4>2, <3>1, Zenon
        <5> QED BY <5>1, <5>2, <4>2, <1>1, <3>3, Zenon DEF Booted
      <4> QED BY <4>1, <4>2, Zenon
    <3>6. mem'[WarmPool] \in {0, Paged(WarmSize)}
      BY <1>0, <1>1, <3>1, Zenon DEF Booted
    <3>7. Booted'
      BY <3>5, <3>6, <1>7, Zenon
    <3> QED BY <3>1, <3>3, <3>4, <3>7, <2>2, <1>1, <1>3, <1>5, BootStep, Zenon
  <2>3. CASE mem' = mem
    <3>1. boot' = NumHot + 1 /\ UNCHANGED slabVars
      BY <1>9, <2>1, <2>2, <2>3, Zenon DEF InitSlab
    <3>2. SlabInv' /\ CountsExact' /\ \A i \in Slabs : Complete(i) => Complete(i)'
      BY <1>1, <3>1, SlabsSame, Zenon
    <3>3. boot' \in -1 .. NumHot + 1 /\ \A i \in Slabs : ~(boot' <= i)
      BY <1>0, <3>1, Zenon
    <3>4. Booted'
      BY <3>1, <3>2, <3>3, <2>3, <1>1, <1>7, Zenon DEF Booted, slabVars
    <3> QED BY <3>1, <3>2, <3>3, <3>4, <2>2, <2>3, <1>1, <1>3, <1>5, BootStep, Zenon
  <2> QED BY <2>2, <2>3, <2>4, Zenon
<1>10. CASE InitWarm
  <2>1. /\ boot' = NumHot + 1 /\ UNCHANGED slabVars /\ hot_slabs' = hot_slabs
        /\ mem' \in {[mem EXCEPT ![WarmPool] = Paged(WarmSize)], mem}
    BY <1>10, Zenon DEF InitWarm, NumaAllocLocal
  <2>2. SlabInv' /\ CountsExact' /\ \A i \in Slabs : Complete(i) => Complete(i)'
    BY <1>1, <2>1, SlabsSame, Zenon
  <2>3. boot' \in -1 .. NumHot + 1 /\ \A i \in Slabs : ~(boot' <= i)
    BY <1>0, <2>1, Zenon
  <2>4. /\ mem' \in [Parts -> Nat] /\ mem'[WarmPool] \in {0, Paged(WarmSize)}
        /\ \A i \in Slabs : mem'[i] = mem[i]
    <3>1. WarmPool \in Parts /\ Slabs \subseteq Parts /\ \A i \in Slabs : i # WarmPool
      BY <1>2
    <3>2. Paged(WarmSize) \in Nat /\ mem[WarmPool] \in {0, Paged(WarmSize)}
      BY <1>1, <1>2, Zenon DEF Booted
    <3> QED BY <1>1, <2>1, <3>1, <3>2, Zenon
  <2>5. Booted'
    BY <2>1, <2>2, <2>3, <2>4, <1>1, <1>7, Zenon DEF Booted
  <2> QED BY <2>1, <2>2, <2>3, <2>4, <2>5, <1>1, <1>3, <1>5, BootStep, Zenon
<1> QED BY <1>8, <1>9, <1>10, Zenon

\* Before bt_tier_init.
LEMMA CoreInit ==
  ASSUME FiniteFacts
  PROVE  Init => Core
<1> SUFFICES ASSUME Init PROVE Core
  BY Zenon
<1>1. /\ NumHot \in Nat \ {0} /\ Slabs = 0 .. NumHot - 1 /\ Parts = 0 .. NumHot /\ WarmPool = NumHot
      /\ Paged(HotPerSlab) \in Nat \ {0} /\ Paged(WarmSize) \in Nat /\ IntMax \in Nat
      /\ Line \in Nat \ {0}
  BY Sizing, TierAssumption, Zenon
<1>2. Num \in Nat \ {0} /\ Blocks = 1 .. Num /\ CountMod \in Nat \ {0}
  <2>1. Num \in Nat /\ Cardinality(Threads) \in Nat
    BY SlabAssumption, Zenon DEF FiniteFacts, Num
  <2> QED BY <2>1, SlabAssumption DEF Num
<1>3. SlabTypes
  <2>1. Linked \in [Blocks -> Pointers \cup {Data}]
    BY <1>2 DEF Linked, Pointers
  <2>2. (CHOOSE i \in Slabs : TRUE) \in Slabs
    BY SlabAssumption, Zenon
  <2>3. 0 \in 0 .. CountMod - 1 /\ NULL \in Pointers /\ <<>> \in Seq(Blocks)
    BY <1>2 DEF Pointers
  <2> QED BY <2>1, <2>2, <2>3, Zenon DEF Init, SlabZero, SlabTypes
<1>4. /\ owned = {} /\ live = {} /\ heap = {} /\ ~wild
      /\ \A t \in Threads : pc[t] = "idle" /\ tpc[t] = "idle" /\ ~Carries(t) /\ ~Allocating(t)
      /\ \A i \in Slabs : list[i] = <<>> /\ free_list[i] = NULL
  BY Zenon DEF Init, SlabZero, Carries, Allocating
<1>5. SlabInv
  <2>1. \A i \in Slabs : ListExact(i)
    BY <1>4 DEF ListExact, Spells
  <2>2. OneOwner /\ \A t \in Threads : Knows(t)
    BY <1>4, Zenon DEF OneOwner, Knows
  <2> QED BY <1>3, <2>1, <2>2, Zenon DEF SlabInv
<1>6. Cardinality({}) = 0
  BY Zenon DEF FiniteFacts
<1>7. CountsExact
  <2>1. \A i \in Slabs : /\ Running(i, Raised) = {} /\ Running(i, Uncounted) = {}
                         /\ Running(i, {"pushed"}) = {} /\ InUse(i) = {} /\ Len(list[i]) = 0
    BY <1>4 DEF Running, InUse, Raised, Uncounted
  <2>2. (0 + 0 - 0) % CountMod = 0 /\ 0 + 0 = 0
    BY <1>2
  <2>3. \A i \in Slabs : alloc_count[i] = 0 /\ free_count[i] = 0
    BY Zenon DEF Init, SlabZero
  <2>4. \A i \in Slabs : ExactAt(i)
    BY <1>6, <2>1, <2>2, <2>3, Zenon DEF ExactAt
  <2> QED BY <2>4, CountsAtEach, Zenon
<1>8. Held = {}
  BY <1>4, Zenon DEF Held
<1>9. TypeOK
  <2>1. NoCall \in Requests
    BY Zenon DEF NoCall, Requests, Places, Tiers
  <2>2. call \in [Threads -> Requests] /\ tpc \in [Threads -> Tiers \cup {"idle", "slab", "count"}]
    BY <2>1, Zenon DEF Init
  <2>3. hot_next \in -IntMax - 1 .. IntMax /\ boot \in -1 .. NumHot + 1
    BY <1>1 DEF Init
  <2>4. mem \in [Parts -> Nat] /\ stats \in [Tiers -> [allocs : Nat, bytes : Nat]]
    BY Zenon DEF Init
  <2> QED BY <1>3, <2>2, <2>3, <2>4, Zenon DEF Init, TypeOK
<1>10. Identified /\ InStep
  BY <1>4, Zenon DEF Identified, InStep
<1>11. Owners
  BY <1>4, <1>8, Zenon DEF Owners
<1>12. Booted
  <2>1. Slabs \subseteq Parts /\ WarmPool \in Parts /\ ~(0 > 0)
    BY <1>1
  <2>2. mem[WarmPool] = 0 /\ \A i \in Slabs : mem[i] = 0
    BY <2>1, Zenon DEF Init
  <2> QED BY <2>1, <2>2, <1>4, Zenon DEF Init, Booted, Resting
<1>13. TurnsTaken /\ StaysInArray
  <2>1. calls = 0 /\ hot_next = 0 /\ ~wild /\ ~\E t \in Threads : tpc[t] = "HOT"
    BY <1>4, Zenon DEF Init
  <2> QED BY <2>1 DEF TurnsTaken, StaysInArray
<1>14. WarmAligned
  BY <1>1, <1>8 DEF Init, WarmAligned
<1>15. HotApart /\ WarmApart
  BY <1>8, Zenon DEF HotApart, WarmApart
<1>16. StatsExact
  <2>1. {t \in Threads : tpc[t] # "idle"} = {}
    BY <1>4, Zenon
  <2>2. stats["HOT"].allocs = 0 /\ stats["WARM"].allocs = 0 /\ stats["COLD"].allocs = 0 /\ calls = 0
    BY Zenon DEF Init, Tiers
  <2> QED BY <2>1, <2>2, <1>6 DEF StatsExact, TierStats
<1> QED BY <1>5, <1>7, <1>9, <1>10, <1>11, <1>12, <1>13, <1>14, <1>15, <1>16, Zenon DEF Core
--------------------------------------------------------------------------------
(* The theorems *)

\* Every step of the tiers keeps the invariant.
LEMMA CoreNext == ASSUME FiniteFacts, OneAllocator, Core, [Next]_vars PROVE Core'
<1>1. CASE UNCHANGED vars
  <2>1. SlabInv' /\ CountsExact'
    BY <1>1, SlabsSame, Zenon DEF Core, vars
  <2>2. UNCHANGED <<boot, hot_slabs, mem, wild, hot_next, warm_offset, stats, heap, tpc, call, live,
                    calls, pc, at, old_head, ptr, owned, list>>
    BY <1>1, Zenon DEF vars, tierVars
  <2>3. Held' = Held
    BY <2>2, Zenon DEF Held
  <2>4. TypeOK'
    BY <2>1, <2>2, Zenon DEF Core, TypeOK, SlabInv
  <2>5. Identified' /\ StatsExact' /\ TurnsTaken' /\ StaysInArray'
    BY <2>2, Zenon DEF Core, Identified, StatsExact, TierStats, TurnsTaken, StaysInArray
  <2>6. InStep' /\ WarmAligned' /\ HotApart' /\ WarmApart'
    BY <2>2, <2>3, Zenon DEF Core, InStep, Allocating, WarmAligned, HotApart, WarmApart
  <2>7. Owners'
    BY <2>2, <2>3, Zenon DEF Core, Owners, Served
  <2>8. Booted'
    <3>1. \A i \in Slabs : Complete(i)' <=> Complete(i)
      BY <2>2, Zenon DEF Complete, Listed, Carries, Carried
    <3>2. /\ Ready' <=> Ready
          /\ \A t \in Threads : (Carries(t)' <=> Carries(t)) /\ (Resting(t)' <=> Resting(t))
      BY <2>2, Zenon DEF Ready, Carries, Resting
    <3> QED BY <2>2, <3>1, <3>2, Zenon DEF Core, Booted
  <2> QED BY <2>1, <2>4, <2>5, <2>6, <2>7, <2>8, Zenon DEF Core
<1>2. CASE InitArray \/ InitSlab \/ InitWarm
  BY <1>2, InitSteps, Zenon
<1>3. ASSUME NEW t \in Threads,
             \/ Begin(t) \/ Hot(t) \/ SlabStep(t) \/ SlabGot(t) \/ SlabNone(t)
             \/ Warm(t) \/ Cold(t) \/ Count(t) \/ Release(t)
      PROVE  Core'
  BY <1>3, BeginStep, HotStep, InSlabStep, SlabDoneStep, WarmStep, ColdStep, CountStep, ReleaseStep, Zenon
<1> QED BY <1>1, <1>2, <1>3, Zenon DEF Next
--------------------------------------------------------------------------------
INSTANCE FiniteSetTheorems

\* The facts on finite sets.
LEMMA FiniteSound == FiniteFacts
<1>1. ASSUME NEW S, IsFiniteSet(S) PROVE Cardinality(S) \in Nat /\ (Cardinality(S) = 0 <=> S = {})
  BY <1>1, FS_CardinalityType, FS_EmptySet, Zenon
<1>2. IsFiniteSet({}) /\ Cardinality({}) = 0
  BY FS_EmptySet, Zenon
<1>3. ASSUME NEW S, NEW T \in SUBSET S, IsFiniteSet(S)
      PROVE  IsFiniteSet(T) /\ Cardinality(T) <= Cardinality(S)
  BY <1>3, FS_Subset, Zenon
<1>4. ASSUME NEW S, NEW x, IsFiniteSet(S), x \notin S
      PROVE  IsFiniteSet(S \cup {x}) /\ Cardinality(S \cup {x}) = Cardinality(S) + 1
  BY <1>4, FS_AddElement, Zenon
<1>5. ASSUME NEW S, NEW x \in S, IsFiniteSet(S)
      PROVE  IsFiniteSet(S \ {x}) /\ Cardinality(S \ {x}) = Cardinality(S) - 1
  BY <1>5, FS_RemoveElement, Zenon
<1>6. PigeonHole
  <2> SUFFICES ASSUME NEW n \in Nat, NEW S, IsFiniteSet(S), Cardinality(S) < n, NEW f \in [1 .. n -> S]
               PROVE  \E x, y \in 1 .. n : x # y /\ f[x] = f[y]
    BY Zenon DEF PigeonHole
  <2>1. Cardinality(S) \in Nat
    BY FS_CardinalityType, Zenon
  <2>2. IsFiniteSet(1 .. n) /\ Cardinality(1 .. n) = n
    <3>1. 1 \in Int /\ n \in Int /\ ~(1 > n) /\ n - 1 + 1 = n
      BY <2>1
    <3> QED BY <3>1, FS_Interval, Zenon
  <2> QED BY <2>2, FS_PigeonHole, Zenon
<1> QED BY <1>1, <1>2, <1>3, <1>4, <1>5, <1>6, Zenon DEF FiniteFacts

\* The invariant holds always, as long as one thread asks for HOT memory.
LEMMA CoreAlways == OneAllocator => (Spec => []Core)
<1> SUFFICES ASSUME OneAllocator PROVE Spec => []Core
  BY Zenon
<1>1. Core /\ [Next]_vars => Core'
  BY CoreNext, FiniteSound, Zenon
<1>2. Init => Core
  BY CoreInit, FiniteSound, Zenon
<1> QED BY <1>1, <1>2, PTL DEF Spec

\* With no call running every HOT block is in its list or has its user.
LEMMA CoreLeaks == Core => NothingLeaks
<1> SUFFICES ASSUME Core, \A t \in Threads : Resting(t) PROVE
               /\ \A i \in {j \in Slabs : mem[j] > 0}, b \in Blocks :
                       b \in Listed(i) \/ \E a \in live : a.place = <<"HOT", i, b>>
               /\ heap \subseteq {a.place : a \in live}
  BY Zenon DEF NothingLeaks
<1>1. \A t \in Threads : tpc[t] = "idle" /\ pc[t] = "idle"
  BY Zenon DEF Resting
<1>2. Held = live
  BY <1>1, Zenon DEF Held
<1>3. heap \subseteq {a.place : a \in live}
  BY Zenon DEF Core, Owners
<1>4. ASSUME NEW i \in Slabs, mem[i] > 0, NEW b \in Blocks, b \notin Listed(i)
      PROVE  \E a \in live : a.place = <<"HOT", i, b>>
  <2>1. Complete(i)
    BY <1>4, Zenon DEF Core, Booted
  <2>2. <<i, b>> \in owned
    BY <1>1, <1>4, <2>1, Zenon DEF Complete, Carries
  <2> QED BY <1>1, <1>2, <2>2, Zenon DEF Core, Owners
<1> QED BY <1>3, <1>4, Zenon

\* With one thread taking blocks, however many return them: the free list of every
\* slab of bt_slab_alloc and bt_slab_free is exact, each block has one holder, and a
\* call that swaps has the right link in its hands.
THEOREM SlabsSound == OneAllocator => (Spec => []SlabInv)
<1> SUFFICES ASSUME OneAllocator PROVE Spec => []SlabInv
  BY Zenon
<1>1. Core => SlabInv
  BY Zenon DEF Core
<1> QED BY <1>1, CoreAlways, PTL

\* With one thread asking for HOT memory, what bt_tier_alloc hands out lies in
\* memory that bt_tier_init got, inside its region, aligned, apart from everything
\* else in use, and g_hot_next leaves the array of slabs only after wrapping.
THEOREM TiersSound == OneAllocator => (Spec => []TierInv)
<1> SUFFICES ASSUME OneAllocator PROVE Spec => []TierInv
  BY Zenon
<1>1. Core => TierInv
  BY CoreDisjoint, FiniteSound, Zenon DEF Core, TierInv
<1> QED BY <1>1, CoreAlways, PTL

\* The counters of bt_slab_stats and bt_tier_stats are exact, step by step.
THEOREM TierCounters == OneAllocator => (Spec => []CountersExact)
<1> SUFFICES ASSUME OneAllocator PROVE Spec => []CountersExact
  BY Zenon
<1>1. Core => CountersExact
  BY CountsAtRest, FiniteSound, Zenon DEF Core, CountersExact
<1> QED BY <1>1, CoreAlways, PTL

\* bt_tier_free, under the tier that bt_tier_classify names, loses no HOT block and
\* no heap block.
THEOREM TierLeaksNothing == OneAllocator => (Spec => []NothingLeaks)
<1> SUFFICES ASSUME OneAllocator PROVE Spec => []NothingLeaks
  BY Zenon
<1> QED BY CoreLeaks, CoreAlways, PTL
================================================================================
