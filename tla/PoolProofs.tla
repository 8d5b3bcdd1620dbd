------------------------------ MODULE PoolProofs ------------------------------
(***************************************************************************)
(* The two pools of the broker.                                            *)
(*                                                                         *)
(* The arenas of utils/memory_pool.c: blocks, free nodes and the arena     *)
(* array never overlap.  PoolInv is inductive: it says of every block in   *)
(* which arena it lies, which BlocksDisjoint alone does not.               *)
(*                                                                         *)
(* With at most one allocating thread the free list of bt_lockfree_pool.h  *)
(* is correct for every set of nodes, any number of returning threads and  *)
(* every batch size.  The invariant is inductive as a whole: that the list *)
(* is intact needs what the running calls know (CallsInv), which in turn   *)
(* needs that every object is in one place (OnePlace).                     *)
(***************************************************************************)
EXTENDS MemoryPool, LockFreePool, SequenceFacts, FiniteSetTheorems, TLAPS

\* Rounding up to a multiple, as for cache lines.
LEMMA PoolRoundUp ==
  ASSUME NEW m \in Nat \ {0}, NEW n \in Nat
  PROVE  ((n + m - 1) \div m) * m \in Nat /\ n <= ((n + m - 1) \div m) * m
<1> DEFINE q == (n + m - 1) \div m
           r == (n + m - 1) % m
<1>1. n + m - 1 \in Nat
  OBVIOUS
<1>2. q \in Nat /\ r \in 0 .. m - 1 /\ n + m - 1 = m * q + r
  BY <1>1
<1> HIDE DEF q, r
<1>3. q * m \in Nat /\ q * m = m * q
  BY <1>2
<1> QED BY <1>2, <1>3 DEF q

\* Rounding down to one.
LEMMA PoolRoundDown ==
  ASSUME NEW m \in Nat \ {0}, NEW n \in Nat
  PROVE  /\ n \div m \in Nat /\ (n \div m) * m \in 0 .. n /\ ((n \div m) * m) % m = 0
         /\ ((n \div m) * m) \div m = n \div m
<1> DEFINE q == n \div m
           r == n % m
<1>1. q \in Nat /\ r \in 0 .. m - 1 /\ n = m * q + r
  OBVIOUS
<1> HIDE DEF q, r
<1>2. q * m \in Nat /\ q * m = m * q
  BY <1>1
<1>3. (q * m) % m = 0 /\ (q * m) \div m = q
  BY <1>1
<1> QED BY <1>1, <1>2, <1>3 DEF q

\* Where arena i begins.
Base(i) == i * ArenaSize

\* The arenas lie one after the other below the array.
LEMMA Carving ==
  /\ ArenaSize \in Nat /\ UsableSize \in Nat /\ UsableSize <= TotalSize /\ UsableSize + NumArenas * ArenaStruct = TotalSize
  /\ NumArenas * ArenaStruct \in Nat /\ NumArenas \in Nat \ {0} /\ TotalSize \in Nat
  /\ \A i \in Arenas : i \in Nat /\ Base(i) \in Nat /\ Base(i) + ArenaSize <= UsableSize
  /\ \A i, j \in Arenas : i < j => Base(i) + ArenaSize <= Base(j)
<1>1. NumArenas \in Nat \ {0} /\ ArenaStruct \in Nat \ {0} /\ Page \in Nat \ {0} /\ TotalSize \in Nat
      /\ TotalSize >= NumArenas * ArenaStruct
  BY MempoolAssumption, Zenon
<1>2. NumArenas * ArenaStruct \in Nat
  BY <1>1
<1>3. UsableSize \in Nat /\ UsableSize <= TotalSize /\ UsableSize + NumArenas * ArenaStruct = TotalSize
  BY <1>1, <1>2 DEF UsableSize
<1> DEFINE s == UsableSize \div NumArenas
<1>4. s \in Nat /\ s * NumArenas <= UsableSize /\ s * NumArenas \in Nat
  BY <1>1, <1>3, PoolRoundDown
<1> HIDE DEF s
<1>5. ArenaSize \in 0 .. s
  <2>1. (s \div Page) * Page \in 0 .. s
    BY <1>1, <1>4, PoolRoundDown, Zenon
  <2> QED BY <2>1, Zenon DEF ArenaSize, s
<1>6. ArenaSize \in Nat
  BY <1>4, <1>5
<1>7. PICK a \in Nat : a = ArenaSize
  BY <1>6, Zenon
<1>8. \A i \in Arenas : i \in Nat /\ i + 1 <= NumArenas
  BY <1>1 DEF Arenas
<1>9. \A i, j \in Nat : i + 1 <= j => i * a + a <= j * a /\ i * a \in Nat /\ j * a \in Nat
  OBVIOUS
<1>10. NumArenas * a <= s * NumArenas /\ NumArenas * a \in Nat
  BY <1>1, <1>4, <1>5, <1>7
<1>11. \A i \in Arenas : i * a \in Nat /\ i * a + a <= UsableSize
  <2> TAKE i \in Arenas
  <2>1. i * a \in Nat /\ i * a + a <= NumArenas * a
    BY <1>1, <1>8, <1>9, Zenon
  <2>2. PICK x \in Nat, y \in Nat, z \in Nat, w \in Nat : x = i * a /\ y = NumArenas * a /\ z = s * NumArenas /\ w = UsableSize
    BY <1>3, <1>4, <1>10, <2>1, Zenon
  <2>3. x + a <= y /\ y <= z /\ z <= w
    BY <1>4, <1>10, <2>1, <2>2, Zenon
  <2>4. x + a <= w
    BY <2>3
  <2> QED BY <2>2, <2>4, Zenon
<1>12. \A i, j \in Arenas : i < j => i * a + a <= j * a
  BY <1>8, <1>9
<1> QED BY <1>1, <1>2, <1>3, <1>6, <1>7, <1>8, <1>11, <1>12, Zenon DEF Base

\* What is left of the constants.
LEMMA PoolSizes ==
  /\ NodeSize \in Nat \ {0} /\ Sizes \subseteq Nat \ {0} /\ None = NumArenas /\ NumArenas \notin Arenas
  /\ MaxPools \in Nat /\ (\A t \in 0 .. NumArenas : t # None => t \in Arenas)
  /\ \A n \in Nat : Aligned(n) \in Nat /\ n <= Aligned(n)
<1>1. NumArenas \in Nat \ {0} /\ Line \in Nat \ {0}
  BY MempoolAssumption, Zenon
<1>2. \A n \in Nat : Aligned(n) \in Nat /\ n <= Aligned(n)
  BY <1>1, PoolRoundUp, Zenon DEF Aligned
<1> QED BY <1>1, <1>2, MempoolAssumption DEF None, Arenas

\* bt_cpu_prefault reaches every page.
LEMMA AllPages == \A i \in 0 .. TotalSize - 1 : i \div Page \in Prefaulted(TotalSize)
<1> TAKE i \in 0 .. TotalSize - 1
<1>1. i \in Nat /\ Page \in Nat \ {0} /\ TotalSize \in Nat
  BY MempoolAssumption
<1> DEFINE k == (i \div Page) * Page
<1>2. k \in 0 .. i /\ k % Page = 0 /\ k \div Page = i \div Page
  BY <1>1, PoolRoundDown, Zenon
<1> HIDE DEF k
<1>3. k \in {x \in 0 .. TotalSize - 1 : x % Page = 0}
  BY <1>1, <1>2
<1> QED BY <1>2, <1>3, Zenon DEF Prefaulted
--------------------------------------------------------------------------------
ArenaTypes == [base : Nat, size : Nat, offset : Nat, free_orders : Seq(Nat), alloc_count : Nat, free_count : Nat]
BlockTypes == [addr : Nat, size : Nat, node : BOOLEAN]

\* The n bytes at p were taken off arena a; they share none with the m bytes at q.
Lies(p, n, a) == a.base <= p /\ p + n <= a.base + a.offset
Apart(p, n, q, m) == p + n <= q \/ q + m <= p

\* Arena a is the i-th one.
Shape(i, a) == a \in ArenaTypes /\ a.base = Base(i) /\ a.size = ArenaSize /\ a.offset <= ArenaSize

\* Its free list holds nodes taken off it, no two of them alike.
NodesOf(a) == {a.free_orders[k] : k \in 1 .. Len(a.free_orders)}
ListOK(a) == /\ a.free_count = Len(a.free_orders)
             /\ IsFiniteSet(NodesOf(a)) /\ Cardinality(NodesOf(a)) = Len(a.free_orders)
             /\ \A k \in 1 .. Len(a.free_orders) : Lies(a.free_orders[k], NodeSize, a)
             /\ \A k, l \in 1 .. Len(a.free_orders) :
                  k # l => Apart(a.free_orders[k], NodeSize, a.free_orders[l], NodeSize)

\* Block b shares nothing with the free nodes of a.
Clear(b, a) == \A k \in 1 .. Len(a.free_orders) : Apart(b.addr, b.size, a.free_orders[k], NodeSize)

\* A block in use.
BlockOK(b, as) == /\ b \in BlockTypes /\ b.size > 0 /\ (b.node => b.size = NodeSize)
                  /\ \E i \in Arenas : Lies(b.addr, b.size, as[i])
                  /\ \A i \in Arenas : Clear(b, as[i])

BlocksOK(bs, as) == /\ \A b \in bs : BlockOK(b, as)
                    /\ \A b, c \in bs : b # c => Apart(b.addr, b.size, c.addr, c.size)

ArenasOK(as) == /\ as = [i \in Arenas |-> as[i]] /\ \A i \in Arenas : Shape(i, as[i]) /\ ListOK(as[i])

\* The system's side of the pool.
RegionOK == /\ base \in {"NULL", "region"} /\ hugepage \in BOOLEAN /\ RegionHeld /\ pools \in 0 .. MaxPools
            /\ touched = (IF base = "NULL" THEN {} ELSE Prefaulted(TotalSize))
            /\ arena_counter \in Nat /\ tls_arena \in [Users -> 0 .. NumArenas]
            /\ base = "NULL" => live = {} /\ \A t \in Users : tls_arena[t] = None

\* The inductive invariant of the pool.
PoolInv == RegionOK /\ ArenasOK(arenas) /\ BlocksOK(live, arenas)

\* Pieces of two arenas.
LEMMA ArenasApart ==
  ASSUME NEW i \in Arenas, NEW j \in Arenas, i # j, NEW a, NEW c, Shape(i, a), Shape(j, c),
         NEW p \in Nat, NEW n \in Nat, NEW q \in Nat, NEW m \in Nat, Lies(p, n, a), Lies(q, m, c)
  PROVE  Apart(p, n, q, m)
<1>1. PICK x \in Nat, y \in Nat, s \in Nat, f \in Nat, g \in Nat :
        x = a.base /\ y = c.base /\ s = ArenaSize /\ f = a.offset /\ g = c.offset /\ f <= s /\ g <= s
  BY Carving, Zenon DEF Shape, ArenaTypes
<1>2. x = Base(i) /\ y = Base(j)
  BY <1>1, Zenon DEF Shape
<1>3. x + s <= y \/ y + s <= x
  <2>1. i < j \/ j < i
    BY Carving
  <2> QED BY <1>1, <1>2, <2>1, Carving, Zenon
<1>4. x <= p /\ p + n <= x + f /\ y <= q /\ q + m <= y + g
  BY <1>1, Zenon DEF Lies
<1> QED BY <1>1, <1>3, <1>4 DEF Apart

\* Two pieces one after the other.
LEMMA ApartSymmetric ==
  ASSUME NEW p, NEW n, NEW q, NEW m, Apart(p, n, q, m)
  PROVE  Apart(q, m, p, n)
BY Zenon DEF Apart

\* The list of an arena.
LEMMA ListTypes ==
  ASSUME NEW i \in Arenas, NEW a, Shape(i, a)
  PROVE  /\ a.free_orders \in Seq(Nat) /\ Len(a.free_orders) \in Nat /\ a.base \in Nat /\ a.offset \in Nat
         /\ a.alloc_count \in Nat /\ a.free_count \in Nat /\ a.base + ArenaSize <= UsableSize
         /\ \A k \in 1 .. Len(a.free_orders) : a.free_orders[k] \in Nat
         /\ DOMAIN a.free_orders = 1 .. Len(a.free_orders)
<1>1. a.free_orders \in Seq(Nat) /\ a.base \in Nat /\ a.offset \in Nat /\ a.alloc_count \in Nat /\ a.free_count \in Nat
      /\ a.base = Base(i)
  BY Zenon DEF Shape, ArenaTypes
<1>2. Len(a.free_orders) \in Nat /\ DOMAIN a.free_orders = 1 .. Len(a.free_orders)
  BY <1>1, SeqLen, Zenon
<1>3. \A k \in 1 .. Len(a.free_orders) : a.free_orders[k] \in Nat
  BY <1>1, SeqElement, Zenon
<1> QED BY <1>1, <1>2, <1>3, Carving, Zenon

\* A fresh arena.
LEMMA CarvedOK ==
  ASSUME NEW i \in Arenas
  PROVE  Shape(i, Carved(i)) /\ ListOK(Carved(i))
<1>1. i * ArenaSize \in Nat /\ ArenaSize \in Nat /\ i * ArenaSize = Base(i)
  BY Carving, Zenon DEF Base
<1>2. << >> \in Seq(Nat) /\ Len(<< >>) = 0
  BY SeqEmpty, Zenon
<1>3. Shape(i, Carved(i))
  BY <1>1, <1>2 DEF Shape, Carved, ArenaTypes
<1>4. Carved(i).free_orders = << >> /\ Carved(i).free_count = 0
  BY Zenon DEF Carved
<1>5. NodesOf(Carved(i)) = {}
  BY <1>2, <1>4 DEF NodesOf
<1> QED BY <1>2, <1>3, <1>4, <1>5, FS_EmptySet DEF ListOK

\* It implies what is claimed of the pool.
LEMMA PoolImplied ==
  ASSUME PoolInv
  PROVE  ArenaInv /\ BlocksDisjoint
<1> USE DEF PoolInv
<1>1. \A i \in Arenas : Shape(i, arenas[i]) /\ ListOK(arenas[i])
  BY Zenon DEF ArenasOK
<1>2. \A i \in Arenas : /\ arenas[i].free_orders \in Seq(Nat) /\ Len(arenas[i].free_orders) \in Nat
                        /\ \A k \in 1 .. Len(arenas[i].free_orders) : arenas[i].free_orders[k] \in Nat
                        /\ DOMAIN arenas[i].free_orders = 1 .. Len(arenas[i].free_orders)
                        /\ arenas[i].base \in Nat /\ arenas[i].offset \in Nat /\ arenas[i].base + ArenaSize <= UsableSize
  BY <1>1, ListTypes, Zenon
<1>3. MempoolTypeOK
  <2>1. arenas \in [Arenas -> ArenaTypes]
    BY <1>1, Zenon DEF ArenasOK, Shape
  <2>2. live \subseteq BlockTypes
    BY Zenon DEF BlocksOK, BlockOK
  <2>3. held \in [map : Nat, heap : Nat]
    <3>1. TotalSize \in Nat /\ HugePage \in Nat \ {0}
      BY MempoolAssumption, Zenon
    <3>2. Mapped(TotalSize) \in Nat
      BY <3>1, PoolRoundUp, Zenon DEF Mapped
    <3> QED BY <3>1, <3>2, Zenon DEF RegionOK, RegionHeld
  <2>4. touched \subseteq Nat
    <3>1. \A k \in Nat : k \div Page \in Nat
      BY MempoolAssumption, PoolRoundDown, Zenon
    <3> QED BY <3>1, MempoolAssumption DEF RegionOK, Prefaulted
  <2> QED BY <2>1, <2>2, <2>3, <2>4, Zenon DEF MempoolTypeOK, RegionOK, ArenaTypes, BlockTypes
<1>4. FreeCountExact
  BY <1>1, <1>2, Zenon DEF FreeCountExact, Stats, ListOK, NodesOf
<1>5. \A i \in Arenas : Stats(arenas[i]).used <= Stats(arenas[i]).total
  BY <1>1, Zenon DEF Stats, Shape
<1>6. \A b \in live : /\ b.addr \in Nat /\ b.size \in Nat /\ b.size > 0 /\ b.addr + b.size <= UsableSize
  <2> TAKE b \in live
  <2>1. PICK i \in Arenas : Lies(b.addr, b.size, arenas[i])
    BY Zenon DEF BlocksOK, BlockOK
  <2>2. b.addr \in Nat /\ b.size \in Nat /\ b.size > 0
    BY Zenon DEF BlocksOK, BlockOK, BlockTypes
  <2>3. arenas[i].offset <= ArenaSize
    BY <1>1, Zenon DEF Shape
  <2>4. PICK x \in Nat, o \in Nat, a \in Nat, u \in Nat : x = arenas[i].base /\ o = arenas[i].offset /\ a = ArenaSize /\ u = UsableSize
    BY <1>2, Carving, Zenon
  <2>5. b.addr + b.size <= x + o /\ o <= a /\ x + a <= u
    BY <1>2, <2>1, <2>3, <2>4, Zenon DEF Lies
  <2>6. b.addr + b.size <= u
    BY <2>2, <2>5
  <2> QED BY <2>2, <2>4, <2>6, Zenon
<1>7. NoFaults
  <2>1. CASE base = "NULL"
    BY <2>1, Zenon DEF NoFaults
  <2>2. CASE base # "NULL"
    <3>1. touched = Prefaulted(TotalSize)
      BY <2>2, Zenon DEF RegionOK
    <3>2. ASSUME NEW x \in Nat, NEW n \in Nat, x + n <= TotalSize, NEW i \in x .. x + n - 1 PROVE i \div Page \in touched
      <4>1. i \in 0 .. TotalSize - 1
        BY <3>2, Carving
      <4> QED BY <3>1, <4>1, AllPages, Zenon
    <3>3. UsableSize \in Nat /\ NumArenas * ArenaStruct \in Nat /\ UsableSize + NumArenas * ArenaStruct <= TotalSize
      BY Carving
    <3>4. \A b \in live : b.addr + b.size <= TotalSize
      BY <1>6, Carving
    <3>5. \A b \in live : \A i \in b.addr .. b.addr + b.size - 1 : i \div Page \in touched
      BY <1>6, <3>2, <3>4, Zenon
    <3> DEFINE v == [addr |-> UsableSize, size |-> NumArenas * ArenaStruct, node |-> FALSE]
    <3>6. \A i \in v.addr .. v.addr + v.size - 1 : i \div Page \in touched
      BY <3>2, <3>3, Zenon
    <3> HIDE DEF v
    <3>7. \A b \in live \cup {v} : \A i \in b.addr .. b.addr + b.size - 1 : i \div Page \in touched
      BY <3>5, <3>6, Zenon
    <3> QED BY <3>7, Zenon DEF NoFaults, v
  <2> QED BY <2>1, <2>2, Zenon
<1>8. \A p \in FreeNodes : \E i \in Arenas : \E k \in 1 .. Len(arenas[i].free_orders) : p = arenas[i].free_orders[k]
  BY <1>2, Zenon DEF FreeNodes
<1>9. \A p \in FreeNodes : p \in Nat /\ p + NodeSize <= UsableSize
  <2> TAKE p \in FreeNodes
  <2>1a. PICK i \in Arenas : \E k \in 1 .. Len(arenas[i].free_orders) : p = arenas[i].free_orders[k]
    BY <1>8, Zenon
  <2>1. PICK k \in 1 .. Len(arenas[i].free_orders) : p = arenas[i].free_orders[k]
    BY <2>1a, Zenon
  <2>2. Lies(p, NodeSize, arenas[i]) /\ arenas[i].offset <= ArenaSize /\ p \in Nat
    BY <1>1, <1>2, <2>1, Zenon DEF ListOK, Shape
  <2>3. PICK x \in Nat, o \in Nat, a \in Nat, u \in Nat : x = arenas[i].base /\ o = arenas[i].offset /\ a = ArenaSize /\ u = UsableSize
    BY <1>2, Carving, Zenon
  <2>4. p + NodeSize <= x + o /\ o <= a /\ x + a <= u
    BY <1>2, <2>2, <2>3, Zenon DEF Lies
  <2>5. p + NodeSize <= u
    BY <2>2, <2>4, PoolSizes
  <2> QED BY <2>2, <2>3, <2>5, Zenon
<1>10. \A b \in live, p \in FreeNodes : Apart(b.addr, b.size, p, NodeSize)
  <2> TAKE b \in live, p \in FreeNodes
  <2>1a. PICK i \in Arenas : \E k \in 1 .. Len(arenas[i].free_orders) : p = arenas[i].free_orders[k]
    BY <1>8, Zenon
  <2>1. PICK k \in 1 .. Len(arenas[i].free_orders) : p = arenas[i].free_orders[k]
    BY <2>1a, Zenon
  <2> QED BY <2>1, Zenon DEF BlocksOK, BlockOK, Clear
<1>11. \A p, q \in FreeNodes : p # q => Apart(p, NodeSize, q, NodeSize)
  <2> TAKE p, q \in FreeNodes
  <2> HAVE p # q
  <2>1a. PICK i \in Arenas : \E k \in 1 .. Len(arenas[i].free_orders) : p = arenas[i].free_orders[k]
    BY <1>8, Zenon
  <2>1. PICK k \in 1 .. Len(arenas[i].free_orders) : p = arenas[i].free_orders[k]
    BY <2>1a, Zenon
  <2>2a. PICK j \in Arenas : \E l \in 1 .. Len(arenas[j].free_orders) : q = arenas[j].free_orders[l]
    BY <1>8, Zenon
  <2>2. PICK l \in 1 .. Len(arenas[j].free_orders) : q = arenas[j].free_orders[l]
    BY <2>2a, Zenon
  <2>3. CASE i = j
    <3>1. k # l
      BY <2>1, <2>2, <2>3, Zenon
    <3> QED BY <1>1, <2>1, <2>2, <2>3, <3>1, Zenon DEF ListOK
  <2>4. CASE i # j
    <3>1. Lies(p, NodeSize, arenas[i]) /\ Lies(q, NodeSize, arenas[j])
      BY <1>1, <2>1, <2>2, Zenon DEF ListOK
    <3> QED BY <1>1, <1>9, <2>4, <3>1, ArenasApart, PoolSizes, Zenon
  <2> QED BY <2>3, <2>4, Zenon
<1>12. BlocksDisjoint
  <2> DEFINE U == {[addr |-> b.addr, end |-> b.addr + b.size] : b \in live}
             V == {[addr |-> p, end |-> p + NodeSize] : p \in FreeNodes}
  <2>1. \A x \in U : \E b \in live : x.addr = b.addr /\ x.end = b.addr + b.size
    OBVIOUS
  <2>2. \A x \in V : \E p \in FreeNodes : x.addr = p /\ x.end = p + NodeSize
    OBVIOUS
  <2>3. \A x, y \in U \cup V : x.addr = y.addr /\ x.end = y.end => x = y
    OBVIOUS
  <2> HIDE DEF U, V
  <2>4. ASSUME NEW x \in U \cup V, NEW y \in U \cup V, x # y PROVE x.end <= y.addr \/ y.end <= x.addr
    <3>1. CASE x \in U /\ y \in U
      <4>1. PICK b \in live : x.addr = b.addr /\ x.end = b.addr + b.size
        BY <2>1, <3>1, Zenon
      <4>2. PICK c \in live : y.addr = c.addr /\ y.end = c.addr + c.size
        BY <2>1, <3>1, Zenon
      <4>3. b # c
        BY <2>3, <2>4, <4>1, <4>2, Zenon
      <4> QED BY <4>1, <4>2, <4>3, Zenon DEF BlocksOK, Apart
    <3>2. CASE x \in U /\ y \in V
      BY <1>10, <2>1, <2>2, <3>2, Zenon DEF Apart
    <3>3. CASE x \in V /\ y \in U
      BY <1>10, <2>1, <2>2, <3>3, Zenon DEF Apart
    <3>4. CASE x \in V /\ y \in V
      <4>1. PICK p \in FreeNodes : x.addr = p /\ x.end = p + NodeSize
        BY <2>2, <3>4, Zenon
      <4>2. PICK q \in FreeNodes : y.addr = q /\ y.end = q + NodeSize
        BY <2>2, <3>4, Zenon
      <4>3. p # q
        BY <2>3, <2>4, <4>1, <4>2, Zenon
      <4> QED BY <1>11, <4>1, <4>2, <4>3, Zenon DEF Apart
    <3> QED BY <3>1, <3>2, <3>3, <3>4, Zenon
  <2>5. \A x \in U \cup V : x.end <= TotalSize - NumArenas * ArenaStruct
    BY <1>6, <1>9, <2>1, <2>2, Zenon DEF UsableSize
  <2>6. \A b \in live : b.addr \notin FreeNodes
    BY <1>6, <1>10, PoolSizes DEF Apart
  <2> QED BY <2>4, <2>5, <2>6, Zenon DEF BlocksDisjoint, U, V
<1> QED BY <1>3, <1>4, <1>5, <1>7, <1>12, Zenon DEF ArenaInv, RegionOK

\* A call on the arena of thread t.
LEMMA ArenaStep ==
  ASSUME PoolInv, NEW t \in Users, tls_arena[t] # None, UNCHANGED <<poolVars, arena_counter, tls_arena>>, NEW a,
         arenas' = [arenas EXCEPT ![tls_arena[t]] = a], Shape(tls_arena[t], a), ListOK(a), BlocksOK(live', arenas')
  PROVE  PoolInv'
<1>1. RegionOK'
  BY Zenon DEF PoolInv, RegionOK, RegionHeld, poolVars
<1>2. ArenasOK(arenas')
  <2>1. \A i \in Arenas : Shape(i, arenas[i]) /\ ListOK(arenas[i]) /\ arenas = [j \in Arenas |-> arenas[j]]
    BY Zenon DEF PoolInv, ArenasOK
  <2>2. tls_arena[t] \in Arenas
    BY PoolSizes, Zenon DEF PoolInv, RegionOK
  <2> QED BY <2>1, <2>2, Zenon DEF ArenasOK
<1> QED BY <1>1, <1>2, Zenon DEF PoolInv

\* Where thread t allocates.
LEMMA UserArena ==
  ASSUME PoolInv, NEW t \in Users, tls_arena[t] # None, NEW a, arenas' = [arenas EXCEPT ![tls_arena[t]] = a]
  PROVE  /\ tls_arena[t] \in Arenas /\ base # "NULL"
         /\ Shape(tls_arena[t], arenas[tls_arena[t]]) /\ ListOK(arenas[tls_arena[t]])
         /\ arenas'[tls_arena[t]] = a /\ \A j \in Arenas \ {tls_arena[t]} : arenas'[j] = arenas[j]
<1>1. tls_arena[t] \in Arenas /\ base # "NULL"
  BY PoolSizes, Zenon DEF PoolInv, RegionOK
<1> QED BY <1>1, Zenon DEF PoolInv, ArenasOK

\* A block that stays is sound as long as its arena did not shrink and it is clear of the
\* free nodes.
LEMMA BlockStays ==
  ASSUME PoolInv, NEW b \in live, NEW i \in Arenas, NEW a, arenas'[i] = a, \A j \in Arenas \ {i} : arenas'[j] = arenas[j],
         Lies(b.addr, b.size, arenas[i]) => Lies(b.addr, b.size, a), Clear(b, a)
  PROVE  BlockOK(b, arenas')
<1>1. BlockOK(b, arenas)
  BY Zenon DEF PoolInv, BlocksOK
<1>2. \A j \in Arenas : Clear(b, arenas'[j])
  BY <1>1, Zenon DEF BlockOK
<1>3. PICK j \in Arenas : Lies(b.addr, b.size, arenas[j])
  BY <1>1, Zenon DEF BlockOK
<1>4. Lies(b.addr, b.size, arenas'[j])
  BY <1>3, Zenon
<1> QED BY <1>1, <1>2, <1>4, Zenon DEF BlockOK

\* A new block joins the others.
LEMMA BlockJoins ==
  ASSUME PoolInv, NEW b, live' = live \cup {b}, BlockOK(b, arenas'), \A c \in live : BlockOK(c, arenas'),
         \A c \in live : Apart(b.addr, b.size, c.addr, c.size)
  PROVE  BlocksOK(live', arenas')
<1>1. \A c \in live' : BlockOK(c, arenas')
  BY Zenon
<1>2. ASSUME NEW c \in live', NEW d \in live', c # d PROVE Apart(c.addr, c.size, d.addr, d.size)
  <2>1. CASE c \in live /\ d \in live
    BY <1>2, <2>1, Zenon DEF PoolInv, BlocksOK
  <2>2. CASE c = b /\ d \in live
    BY <2>2, Zenon
  <2>3. CASE c \in live /\ d = b
    BY <2>3, ApartSymmetric, Zenon
  <2> QED BY <1>2, <2>1, <2>2, <2>3, Zenon
<1> QED BY <1>1, <1>2, Zenon DEF BlocksOK

\* bt_mempool_alloc: the end of the arena.
LEMMA BumpStep ==
  ASSUME PoolInv, NEW t \in Users, tls_arena[t] # None, UNCHANGED <<poolVars, arena_counter, tls_arena>>,
         NEW size \in Nat \ {0}, NEW node \in BOOLEAN, node => size = NodeSize, Bump(tls_arena[t], size, node)
  PROVE  PoolInv'
<1> DEFINE i == tls_arena[t]
           v == arenas[i]
           n == Aligned(size)
           o == v.offset + n
           e == v.alloc_count + 1
           a == [v EXCEPT !.offset = o, !.alloc_count = e]
           p == v.base + v.offset
           b == [addr |-> p, size |-> size, node |-> node]
<1>1. arenas' = [arenas EXCEPT ![i] = a] /\ live' = live \cup {b} /\ ~(v.offset + n > v.size)
  BY Zenon DEF Bump, Exhausted
<1>2. /\ i \in Arenas /\ Shape(i, v) /\ ListOK(v) /\ arenas'[i] = a /\ \A j \in Arenas \ {i} : arenas'[j] = arenas[j]
  BY <1>1, UserArena, Zenon
<1>3. n \in Nat /\ size <= n
  BY PoolSizes, Zenon
<1>4. v.base \in Nat /\ v.offset \in Nat /\ v.alloc_count \in Nat /\ v \in ArenaTypes
  BY <1>2, ListTypes, Zenon DEF Shape
<1>a. o \in Nat /\ e \in Nat
  BY <1>3, <1>4
<1> HIDE DEF n, o, e
<1>5. a.base = v.base /\ a.offset = o /\ a.free_orders = v.free_orders /\ a.size = v.size
      /\ a.free_count = v.free_count /\ a \in ArenaTypes
  BY <1>4, <1>a, Zenon DEF ArenaTypes
<1>b. o = v.offset + n
  BY Zenon DEF o
<1>6. b.addr = p /\ b.size = size /\ b.node = node /\ p \in Nat
  BY <1>4
<1> HIDE DEF a, b, v, i
<1>7. Shape(i, a)
  BY <1>1, <1>2, <1>3, <1>4, <1>5, <1>b, Carving DEF Shape
<1>8. ASSUME NEW q \in Nat, NEW m \in Nat, Lies(q, m, v) PROVE Lies(q, m, a) /\ Apart(p, size, q, m)
  BY <1>3, <1>4, <1>5, <1>8, <1>b DEF Lies, Apart
<1>9. Lies(p, size, a)
  BY <1>3, <1>4, <1>5, <1>b DEF Lies
<1>10. /\ Len(v.free_orders) \in Nat /\ \A k \in 1 .. Len(v.free_orders) : v.free_orders[k] \in Nat
       /\ NodeSize \in Nat
  BY <1>2, ListTypes, PoolSizes, Zenon
<1>11. ListOK(a)
  BY <1>2, <1>5, <1>8, <1>10, ZenonT(30) DEF ListOK, NodesOf
<1>12. ASSUME NEW j \in Arenas, NEW q \in Nat, NEW m \in Nat, Lies(q, m, arenas[j]) PROVE Apart(p, size, q, m)
  <2>1. CASE j = i
    BY <1>8, <1>12, <2>1, Zenon DEF v
  <2>2. CASE j # i
    <3>1. Shape(j, arenas[j])
      BY Zenon DEF PoolInv, ArenasOK
    <3> QED BY <1>2, <1>6, <1>7, <1>9, <1>12, <2>2, <3>1, ArenasApart
  <2> QED BY <2>1, <2>2, Zenon
<1>13. \A j \in Arenas : Clear(b, arenas'[j])
  <2> TAKE j \in Arenas
  <2>1. arenas'[j].free_orders = arenas[j].free_orders
    BY <1>2, <1>5, Zenon DEF v
  <2>2. Shape(j, arenas[j]) /\ ListOK(arenas[j])
    BY Zenon DEF PoolInv, ArenasOK
  <2>3. \A k \in 1 .. Len(arenas[j].free_orders) : arenas[j].free_orders[k] \in Nat
    BY <2>2, ListTypes, Zenon
  <2> QED BY <1>6, <1>10, <1>12, <2>1, <2>2, <2>3, Zenon DEF Clear, ListOK
<1>14. BlockOK(b, arenas')
  <2>1. b \in BlockTypes
    BY <1>6, Zenon DEF BlockTypes, b
  <2> QED BY <1>2, <1>6, <1>9, <1>13, <2>1 DEF BlockOK
<1>15. \A c \in live : BlockOK(c, arenas) /\ c.addr \in Nat /\ c.size \in Nat
  BY Zenon DEF PoolInv, BlocksOK, BlockOK, BlockTypes
<1>16. \A c \in live : BlockOK(c, arenas')
  <2> TAKE c \in live
  <2>1. Clear(c, a)
    BY <1>2, <1>5, <1>15, Zenon DEF BlockOK, Clear, v
  <2>2. Lies(c.addr, c.size, arenas[i]) => Lies(c.addr, c.size, a)
    BY <1>8, <1>15, Zenon DEF v
  <2> QED BY <1>2, <2>1, <2>2, BlockStays, Zenon
<1>17. \A c \in live : Apart(b.addr, b.size, c.addr, c.size)
  <2> TAKE c \in live
  <2>1. PICK j \in Arenas : Lies(c.addr, c.size, arenas[j])
    BY <1>15, Zenon DEF BlockOK
  <2> QED BY <1>6, <1>12, <1>15, <2>1, Zenon
<1>18. BlocksOK(live', arenas')
  BY <1>1, <1>14, <1>16, <1>17, BlockJoins, Zenon
<1> QED BY <1>1, <1>7, <1>11, <1>18, ArenaStep, Zenon DEF i

\* Arena a is arena v without the first node of its list.
Shorter(a, v) == /\ v.free_orders # << >> /\ a.free_orders = Tail(v.free_orders)
                 /\ a.base = v.base /\ a.offset = v.offset /\ a.free_count = v.free_count - 1

\* A node taken off the list.
LEMMA ListTail ==
  ASSUME NEW i \in Arenas, NEW v, Shape(i, v), ListOK(v), NEW a, Shorter(a, v)
  PROVE  /\ ListOK(a) /\ Head(v.free_orders) = v.free_orders[1] /\ 1 \in 1 .. Len(v.free_orders)
         /\ a.free_orders \in Seq(Nat) /\ a.free_count \in Nat
         /\ \A k \in 1 .. Len(a.free_orders) : /\ k + 1 \in 1 .. Len(v.free_orders) /\ k + 1 # 1
                                               /\ a.free_orders[k] = v.free_orders[k + 1]
<1> DEFINE f == v.free_orders
           g == a.free_orders
<1>1. f \in Seq(Nat) /\ f # << >> /\ g = Tail(f)
  BY ListTypes, Zenon DEF Shorter
<1>0. a.base = v.base /\ a.offset = v.offset /\ a.free_count = v.free_count - 1
  BY Zenon DEF Shorter
<1> HIDE DEF f, g
<1>2. PICK l \in Nat : l = Len(f) /\ l > 0
  BY <1>1, SeqLen, SeqEmpty
<1>3. g \in Seq(Nat) /\ Len(g) = l - 1 /\ Head(f) = f[1] /\ \A k \in 1 .. l - 1 : g[k] = f[k + 1]
  BY <1>1, <1>2, SeqTail
<1>4. \A k \in 1 .. l - 1 : k + 1 \in 1 .. l /\ k + 1 # 1
  BY <1>2
<1>5. NodesOf(a) = NodesOf(v) \ {f[1]} /\ f[1] \in NodesOf(v)
  <2>1. \A k \in 1 .. l : k = 1 \/ (k - 1 \in 1 .. l - 1 /\ k = (k - 1) + 1)
    BY <1>2
  <2>2. \A k \in 1 .. l : k # 1 => f[k] # f[1]
    <3> TAKE k \in 1 .. l
    <3> HAVE k # 1
    <3>1. 1 \in 1 .. l
      BY <1>2
    <3>2. Apart(f[k], NodeSize, f[1], NodeSize)
      BY <1>2, <3>1, Zenon DEF ListOK, f
    <3>3. PICK x \in Nat, y \in Nat, n \in Nat \ {0} : x = f[k] /\ y = f[1] /\ n = NodeSize
      BY <1>2, <3>1, ListTypes, PoolSizes, Zenon DEF f
    <3>4. x + n <= y \/ y + n <= x
      BY <3>2, <3>3, Zenon DEF Apart
    <3>5. x # y
      BY <3>3, <3>4
    <3> QED BY <3>3, <3>5, Zenon
  <2>3. NodesOf(v) = {f[k] : k \in 1 .. l} /\ NodesOf(a) = {g[k] : k \in 1 .. l - 1}
    BY <1>2, <1>3, Zenon DEF NodesOf, f, g
  <2>4. \A x \in NodesOf(a) : x \in NodesOf(v) /\ x # f[1]
    <3> TAKE x \in NodesOf(a)
    <3>1. PICK k \in 1 .. l - 1 : x = g[k]
      BY <2>3, Zenon
    <3>2. x = f[k + 1] /\ k + 1 \in 1 .. l /\ k + 1 # 1
      BY <1>3, <1>4, <3>1, Zenon
    <3> QED BY <2>2, <2>3, <3>2, Zenon
  <2>5. \A x \in NodesOf(v) : x = f[1] \/ x \in NodesOf(a)
    <3> TAKE x \in NodesOf(v)
    <3>1. PICK k \in 1 .. l : x = f[k]
      BY <2>3, Zenon
    <3>2. CASE k = 1
      BY <3>1, <3>2, Zenon
    <3>3. CASE k # 1
      <4>1. PICK m \in 1 .. l - 1 : k = m + 1
        BY <2>1, <3>3, Zenon
      <4>2. x = g[m]
        BY <1>3, <3>1, <4>1, Zenon
      <4> QED BY <2>3, <4>2, Zenon
    <3> QED BY <3>2, <3>3, Zenon
  <2>6. f[1] \in NodesOf(v)
    BY <1>2, <2>3
  <2> QED BY <2>4, <2>5, <2>6, Zenon
<1>6. IsFiniteSet(NodesOf(v)) /\ Cardinality(NodesOf(v)) = l
  BY <1>2, Zenon DEF ListOK, f
<1>7. IsFiniteSet(NodesOf(a)) /\ Cardinality(NodesOf(a)) = l - 1
  <2>1. /\ IsFiniteSet(NodesOf(v) \ {f[1]})
        /\ Cardinality(NodesOf(v) \ {f[1]}) = IF f[1] \in NodesOf(v) THEN Cardinality(NodesOf(v)) - 1 ELSE Cardinality(NodesOf(v))
    BY <1>6, FS_RemoveElement, Zenon
  <2> QED BY <1>5, <1>6, <2>1, Zenon
<1>8. \A k \in 1 .. l - 1 : Lies(g[k], NodeSize, a)
  BY <1>0, <1>2, <1>3, <1>4, Zenon DEF ListOK, Lies, f
<1>9. \A k, m \in 1 .. l - 1 : k # m => Apart(g[k], NodeSize, g[m], NodeSize)
  <2> TAKE k, m \in 1 .. l - 1
  <2> HAVE k # m
  <2>1. k + 1 \in 1 .. l /\ m + 1 \in 1 .. l /\ k + 1 # m + 1
    BY <1>4
  <2> QED BY <1>2, <1>3, <2>1, Zenon DEF ListOK, f
<1>10. a.free_count = l - 1
  BY <1>0, <1>2, Zenon DEF ListOK, f
<1>11. l - 1 \in Nat /\ 1 \in 1 .. l
  BY <1>2
<1>12. ListOK(a)
  BY <1>3, <1>7, <1>8, <1>9, <1>10, Zenon DEF ListOK, g
<1> QED BY <1>2, <1>3, <1>4, <1>10, <1>11, <1>12, Zenon DEF f, g

\* bt_mempool_alloc_order: a node of the list.
LEMMA RecycleStep ==
  ASSUME PoolInv, NEW t \in Users, tls_arena[t] # None, UNCHANGED <<poolVars, arena_counter, tls_arena>>,
         arenas[tls_arena[t]].free_orders # << >>, Recycle(tls_arena[t])
  PROVE  PoolInv'
<1> DEFINE i == tls_arena[t]
           v == arenas[i]
           f == v.free_orders
           g == Tail(f)
           e == v.alloc_count + 1
           d == v.free_count - 1
           a == [v EXCEPT !.free_orders = g, !.alloc_count = e, !.free_count = d]
           b == [addr |-> Head(f), size |-> NodeSize, node |-> TRUE]
<1>1. arenas' = [arenas EXCEPT ![i] = a] /\ live' = live \cup {b} /\ f # << >>
  BY Zenon DEF Recycle
<1>2. /\ i \in Arenas /\ Shape(i, v) /\ ListOK(v) /\ arenas'[i] = a /\ \A j \in Arenas \ {i} : arenas'[j] = arenas[j]
  BY <1>1, UserArena, Zenon
<1>3. v \in ArenaTypes /\ e \in Nat
  BY <1>2, ListTypes DEF Shape
<1> HIDE DEF g, e, d
<1>4. a.base = v.base /\ a.offset = v.offset /\ a.free_orders = g /\ a.size = v.size /\ a.free_count = d
  BY <1>3, Zenon DEF ArenaTypes
<1>5. b.addr = Head(f) /\ b.size = NodeSize /\ b.node = TRUE
  BY Zenon
<1>6. /\ ListOK(a) /\ Head(f) = f[1] /\ 1 \in 1 .. Len(f) /\ g \in Seq(Nat) /\ d \in Nat
      /\ \A k \in 1 .. Len(g) : k + 1 \in 1 .. Len(f) /\ k + 1 # 1 /\ g[k] = f[k + 1]
  <2>1. g = Tail(f) /\ d = v.free_count - 1
    BY Zenon DEF g, d
  <2> HIDE DEF a, v, f, i
  <2>2. a.free_orders = Tail(v.free_orders) /\ v.free_orders # << >> /\ f = v.free_orders
    BY <1>1, <1>4, <2>1, Zenon DEF f
  <2>3. a.free_count = v.free_count - 1
    BY <1>4, <2>1, Zenon
  <2>4. a.base = v.base /\ a.offset = v.offset /\ a.free_orders = g /\ a.free_count = d
    BY <1>4, Zenon
  <2>5. i \in Arenas /\ Shape(i, v) /\ ListOK(v)
    BY <1>2, Zenon
  <2>7. Shorter(a, v)
    BY <2>2, <2>3, <2>4, Zenon DEF Shorter
  <2>6. /\ ListOK(a) /\ Head(v.free_orders) = v.free_orders[1] /\ 1 \in 1 .. Len(v.free_orders)
        /\ a.free_orders \in Seq(Nat) /\ a.free_count \in Nat
        /\ \A k \in 1 .. Len(a.free_orders) : /\ k + 1 \in 1 .. Len(v.free_orders) /\ k + 1 # 1
                                              /\ a.free_orders[k] = v.free_orders[k + 1]
    BY <2>5, <2>7, ListTail
  <2> QED BY <2>2, <2>4, <2>6, Zenon
<1>7. a \in ArenaTypes
  BY <1>3, <1>6, Zenon DEF ArenaTypes
<1> HIDE DEF a, b, v, i
<1>8. Shape(i, a)
  BY <1>2, <1>4, <1>7, Zenon DEF Shape
<1>9. f[1] \in Nat /\ NodeSize \in Nat \ {0}
  BY <1>2, <1>6, ListTypes, PoolSizes, Zenon
<1>10. \A c \in live : BlockOK(c, arenas) /\ \A k \in 1 .. Len(f) : Apart(c.addr, c.size, f[k], NodeSize)
  BY <1>2, Zenon DEF PoolInv, BlocksOK, BlockOK, Clear, v
<1>11. \A c \in live : BlockOK(c, arenas')
  <2> TAKE c \in live
  <2>1. Clear(c, a)
    BY <1>4, <1>6, <1>10, Zenon DEF Clear
  <2>2. Lies(c.addr, c.size, arenas[i]) => Lies(c.addr, c.size, a)
    BY <1>4, Zenon DEF Lies, v
  <2> QED BY <1>2, <2>1, <2>2, BlockStays, Zenon
<1>12. \A c \in live : Apart(b.addr, b.size, c.addr, c.size)
  BY <1>5, <1>6, <1>10, ApartSymmetric, Zenon
<1>13. Lies(f[1], NodeSize, v) /\ Lies(f[1], NodeSize, a)
  BY <1>2, <1>4, <1>6, Zenon DEF ListOK, Lies
<1>14. \A j \in Arenas : Clear(b, arenas'[j])
  <2> TAKE j \in Arenas
  <2>1. CASE j = i
    BY <1>2, <1>4, <1>5, <1>6, <2>1 DEF Clear, ListOK
  <2>2. CASE j # i
    <3>1. Shape(j, arenas[j]) /\ ListOK(arenas[j])
      BY Zenon DEF PoolInv, ArenasOK
    <3>2. \A k \in 1 .. Len(arenas[j].free_orders) : arenas[j].free_orders[k] \in Nat
      BY <3>1, ListTypes, Zenon
    <3>3. \A k \in 1 .. Len(arenas[j].free_orders) : Apart(f[1], NodeSize, arenas[j].free_orders[k], NodeSize)
      BY <1>2, <1>9, <1>13, <2>2, <3>1, <3>2, ArenasApart, Zenon DEF ListOK
    <3> QED BY <1>2, <1>5, <1>6, <2>2, <3>3, Zenon DEF Clear
  <2> QED BY <2>1, <2>2, Zenon
<1>15. BlockOK(b, arenas')
  <2>1. b \in BlockTypes
    BY <1>6, <1>9, Zenon DEF BlockTypes, b
  <2>2. Lies(b.addr, b.size, arenas'[i])
    BY <1>2, <1>5, <1>6, <1>13, Zenon
  <2> QED BY <1>2, <1>5, <1>9, <1>14, <2>1, <2>2 DEF BlockOK
<1>16. BlocksOK(live', arenas')
  BY <1>1, <1>11, <1>12, <1>15, BlockJoins, Zenon
<1> QED BY <1>1, <1>6, <1>8, <1>16, ArenaStep, Zenon DEF i

\* The arena a block lies in is the one whose range holds its address.
LEMMA OwnArena ==
  ASSUME PoolInv, NEW b \in live, NEW i \in Arenas
  PROVE  Within(b, arenas[i]) <=> Lies(b.addr, b.size, arenas[i])
<1>1. PICK j \in Arenas : Lies(b.addr, b.size, arenas[j])
  BY Zenon DEF PoolInv, BlocksOK, BlockOK
<1>2. Shape(i, arenas[i]) /\ Shape(j, arenas[j])
  BY Zenon DEF PoolInv, ArenasOK
<1>3. PICK x \in Nat, y \in Nat, s \in Nat, f \in Nat, g \in Nat :
        /\ x = arenas[i].base /\ y = arenas[j].base /\ s = ArenaSize /\ f = arenas[i].offset /\ g = arenas[j].offset
        /\ f <= s /\ g <= s /\ s = arenas[i].size
  BY <1>2, Carving, Zenon DEF Shape, ArenaTypes
<1>4. PICK p \in Nat, n \in Nat \ {0} : p = b.addr /\ n = b.size
  BY DEF PoolInv, BlocksOK, BlockOK, BlockTypes
<1>5. x = Base(i) /\ y = Base(j)
  BY <1>2, <1>3, Zenon DEF Shape
<1>6. i = j \/ x + s <= y \/ y + s <= x
  <2>1. i < j \/ j < i \/ i = j
    BY Carving
  <2> QED BY <1>3, <1>5, <2>1, Carving, Zenon
<1>7. y <= p /\ p + n <= y + g
  BY <1>1, <1>3, <1>4, Zenon DEF Lies
<1>8. Within(b, arenas[i]) <=> x <= p /\ p <= x + s - 1
  BY <1>3, <1>4 DEF Within
<1>9. Lies(b.addr, b.size, arenas[i]) <=> x <= p /\ p + n <= x + f
  BY <1>3, <1>4, Zenon DEF Lies
<1>10. i = j => f = g /\ x = y
  BY <1>3, Zenon
<1>11. x <= p /\ p <= x + s - 1 <=> x <= p /\ p + n <= x + f
  BY <1>3, <1>4, <1>6, <1>7, <1>10
<1> QED BY <1>8, <1>9, <1>11, Zenon

\* Arena a is arena v with the node at x before its list.
Longer(a, v, x) == /\ a.free_orders = <<x>> \o v.free_orders
                   /\ a.base = v.base /\ a.offset = v.offset /\ a.free_count = v.free_count + 1

\* A node put on the list.
LEMMA ListCons ==
  ASSUME NEW i \in Arenas, NEW v, Shape(i, v), ListOK(v), NEW x \in Nat, Lies(x, NodeSize, v), NEW a, Longer(a, v, x),
         \A k \in 1 .. Len(v.free_orders) : Apart(x, NodeSize, v.free_orders[k], NodeSize)
  PROVE  /\ ListOK(a) /\ a.free_orders \in Seq(Nat) /\ a.free_count \in Nat
         /\ \A k \in 1 .. Len(a.free_orders) :
              a.free_orders[k] = x \/ \E m \in 1 .. Len(v.free_orders) : a.free_orders[k] = v.free_orders[m]
<1> DEFINE f == v.free_orders
           g == a.free_orders
<1>1. f \in Seq(Nat) /\ g = <<x>> \o f
  BY ListTypes, Zenon DEF Longer
<1>2. a.base = v.base /\ a.offset = v.offset /\ a.free_count = v.free_count + 1
  BY Zenon DEF Longer
<1>3. \A k \in 1 .. Len(f) : Apart(x, NodeSize, f[k], NodeSize) /\ f[k] \in Nat
  BY ListTypes, Zenon
<1> HIDE DEF f, g
<1>4. PICK l \in Nat : l = Len(f)
  BY <1>1, SeqLen, Zenon
<1>5. <<x>> \in Seq(Nat) /\ Len(<<x>>) = 1 /\ <<x>>[1] = x
  OBVIOUS
<1>6. g \in Seq(Nat) /\ Len(g) = 1 + l /\ \A k \in 1 .. 1 + l : g[k] = IF k <= 1 THEN <<x>>[k] ELSE f[k - 1]
  BY <1>1, <1>4, <1>5, SeqConcat
<1>7. g[1] = x /\ \A m \in 1 .. l : m + 1 \in 1 .. 1 + l /\ g[m + 1] = f[m]
  <2>1. 1 \in 1 .. 1 + l /\ 1 <= 1
    BY <1>4
  <2>2. \A m \in 1 .. l : m + 1 \in 1 .. 1 + l /\ ~(m + 1 <= 1) /\ (m + 1) - 1 = m
    BY <1>4
  <2>3. g[1] = x
    <3>1. g[1] = IF 1 <= 1 THEN <<x>>[1] ELSE f[1 - 1]
      BY <1>6, <2>1, Zenon
    <3> QED BY <1>5, <3>1
  <2>4. \A m \in 1 .. l : g[m + 1] = f[m]
    <3> TAKE m \in 1 .. l
    <3>1. g[m + 1] = IF m + 1 <= 1 THEN <<x>>[m + 1] ELSE f[(m + 1) - 1]
      BY <1>6, <2>2, Zenon
    <3> QED BY <2>2, <3>1, Zenon
  <2> QED BY <2>2, <2>3, <2>4, Zenon
<1>8. \A k \in 1 .. 1 + l : k = 1 \/ \E m \in 1 .. l : k = m + 1
  <2> TAKE k \in 1 .. 1 + l
  <2>1. k = 1 \/ (k - 1 \in 1 .. l /\ k = (k - 1) + 1)
    BY <1>4
  <2> QED BY <2>1, Zenon
<1>9. \A m \in 1 .. l : f[m] # x
  <2> TAKE m \in 1 .. l
  <2>1. PICK y \in Nat, n \in Nat \ {0} : y = f[m] /\ n = NodeSize
    BY <1>3, <1>4, PoolSizes, Zenon
  <2>2. x + n <= y \/ y + n <= x
    BY <1>3, <1>4, <2>1, Zenon DEF Apart
  <2>3. x # y
    BY <2>1, <2>2
  <2> QED BY <2>1, <2>3, Zenon
<1>10. NodesOf(v) = {f[k] : k \in 1 .. l} /\ NodesOf(a) = {g[k] : k \in 1 .. 1 + l}
  BY <1>4, <1>6, Zenon DEF NodesOf, f, g
<1>11. NodesOf(a) = NodesOf(v) \cup {x} /\ x \notin NodesOf(v)
  <2>1. \A y \in NodesOf(a) : y = x \/ y \in NodesOf(v)
    <3> TAKE y \in NodesOf(a)
    <3>1. PICK k \in 1 .. 1 + l : y = g[k]
      BY <1>10, Zenon
    <3>2. k = 1 \/ \E m \in 1 .. l : k = m + 1
      BY <1>8, Zenon
    <3> QED BY <1>7, <1>10, <3>1, <3>2, Zenon
  <2>2. \A y \in NodesOf(v) : y \in NodesOf(a) /\ y # x
    <3> TAKE y \in NodesOf(v)
    <3>1. PICK m \in 1 .. l : y = f[m]
      BY <1>10, Zenon
    <3>2. y = g[m + 1] /\ m + 1 \in 1 .. 1 + l
      BY <1>7, <3>1, Zenon
    <3> QED BY <1>9, <1>10, <3>1, <3>2, Zenon
  <2>3. x \in NodesOf(a)
    <3>1. 1 \in 1 .. 1 + l
      BY <1>4
    <3> QED BY <1>7, <1>10, <3>1, Zenon
  <2> QED BY <2>1, <2>2, <2>3, Zenon
<1>12. IsFiniteSet(NodesOf(v)) /\ Cardinality(NodesOf(v)) = l /\ a.free_count = l + 1
  BY <1>2, <1>4, Zenon DEF ListOK, f
<1>13. IsFiniteSet(NodesOf(a)) /\ Cardinality(NodesOf(a)) = l + 1
  <2>1. /\ IsFiniteSet(NodesOf(v) \cup {x})
        /\ Cardinality(NodesOf(v) \cup {x}) = IF x \in NodesOf(v) THEN Cardinality(NodesOf(v)) ELSE Cardinality(NodesOf(v)) + 1
    BY <1>12, FS_AddElement, Zenon
  <2> QED BY <1>11, <1>12, <2>1, Zenon
<1>14. \A k \in 1 .. 1 + l : Lies(g[k], NodeSize, a)
  <2> TAKE k \in 1 .. 1 + l
  <2>1. g[k] = x \/ \E m \in 1 .. l : g[k] = f[m]
    BY <1>7, <1>8, Zenon
  <2>2. \A m \in 1 .. l : Lies(f[m], NodeSize, v)
    BY <1>4, Zenon DEF ListOK, f
  <2>3. Lies(g[k], NodeSize, v)
    BY <2>1, <2>2, Zenon
  <2> QED BY <1>2, <2>3, Zenon DEF Lies
<1>15. \A k, m \in 1 .. 1 + l : k # m => Apart(g[k], NodeSize, g[m], NodeSize)
  <2> TAKE k, m \in 1 .. 1 + l
  <2> HAVE k # m
  <2>0. \A z \in 1 .. l : Apart(x, NodeSize, f[z], NodeSize) /\ Apart(f[z], NodeSize, x, NodeSize)
    BY <1>3, <1>4, ApartSymmetric, Zenon
  <2>1. CASE k = 1
    <3>1. PICK z \in 1 .. l : m = z + 1
      BY <1>8, <2>1, Zenon
    <3> QED BY <1>7, <2>0, <2>1, <3>1, Zenon
  <2>2. CASE m = 1
    <3>1. PICK z \in 1 .. l : k = z + 1
      BY <1>8, <2>2, Zenon
    <3> QED BY <1>7, <2>0, <2>2, <3>1, Zenon
  <2>3. CASE k # 1 /\ m # 1
    <3>1. PICK y \in 1 .. l : k = y + 1
      BY <1>8, <2>3, Zenon
    <3>2. PICK z \in 1 .. l : m = z + 1
      BY <1>8, <2>3, Zenon
    <3>3. y # z
      BY <3>1, <3>2, Zenon
    <3>4. Apart(f[y], NodeSize, f[z], NodeSize)
      BY <1>4, <3>3, Zenon DEF ListOK, f
    <3> QED BY <1>7, <3>1, <3>2, <3>4, Zenon
  <2> QED BY <2>1, <2>2, <2>3, Zenon
<1>16. l + 1 = 1 + l /\ l + 1 \in Nat
  BY <1>4
<1>17. ListOK(a)
  BY <1>6, <1>12, <1>13, <1>14, <1>15, <1>16, Zenon DEF ListOK, g
<1>18. \A k \in 1 .. 1 + l : g[k] = x \/ \E m \in 1 .. l : g[k] = f[m]
  BY <1>7, <1>8, Zenon
<1> QED BY <1>4, <1>6, <1>12, <1>16, <1>17, <1>18, Zenon DEF f, g

\* bt_mempool_free_order.
LEMMA FreeOrderStep ==
  ASSUME PoolInv, NEW t \in Users, FreeOrder(t)
  PROVE  PoolInv'
<1> DEFINE i == tls_arena[t]
           v == arenas[i]
           f == v.free_orders
<1>1. i # None /\ UNCHANGED <<poolVars, arena_counter, tls_arena>>
  BY Zenon DEF FreeOrder
<1>2. PICK b \in live : /\ b.node /\ Within(b, v) /\ live' = live \ {b}
                        /\ arenas' = [arenas EXCEPT ![i].free_orders = <<b.addr>> \o @, ![i].free_count = @ + 1]
  BY Zenon DEF FreeOrder
<1> DEFINE x == b.addr
           g == <<x>> \o f
           d == v.free_count + 1
           a == [v EXCEPT !.free_orders = g, !.free_count = d]
<1>3. arenas' = [arenas EXCEPT ![i] = a]
  BY <1>2, Zenon
<1>4. /\ i \in Arenas /\ Shape(i, v) /\ ListOK(v) /\ arenas'[i] = a /\ \A j \in Arenas \ {i} : arenas'[j] = arenas[j]
  BY <1>1, <1>3, UserArena, Zenon
<1>5. v \in ArenaTypes /\ v.base \in Nat
  BY <1>4, Zenon DEF Shape, ArenaTypes
<1>6. g = <<x>> \o f /\ d = v.free_count + 1
  BY Zenon
<1> HIDE DEF g, d
<1>7. a.base = v.base /\ a.offset = v.offset /\ a.free_orders = g /\ a.size = v.size /\ a.free_count = d
  BY <1>5, Zenon DEF ArenaTypes
<1>8. \A c \in live : BlockOK(c, arenas) /\ Clear(c, v)
  BY <1>4, Zenon DEF PoolInv, BlocksOK, BlockOK
<1>9. b.size = NodeSize /\ x \in Nat
  BY <1>2, <1>8, Zenon DEF BlockOK, BlockTypes
<1>10. Lies(x, NodeSize, v) /\ \A k \in 1 .. Len(f) : Apart(x, NodeSize, f[k], NodeSize)
  <2>1. Lies(b.addr, b.size, v)
    BY <1>2, <1>4, OwnArena, Zenon
  <2>2. Clear(b, v)
    BY <1>8, Zenon
  <2> QED BY <1>9, <2>1, <2>2, Zenon DEF Clear
<1>11. a \in ArenaTypes => Shape(i, a)
  <2> HIDE DEF a
  <2> QED BY <1>4, <1>7, Zenon DEF Shape
<1>12. g \in Seq(Nat) /\ d \in Nat => a \in ArenaTypes
  BY <1>5, Zenon DEF ArenaTypes
<1> HIDE DEF a
<1>13. Longer(a, v, x)
  BY <1>6, <1>7, Zenon DEF Longer
<1> HIDE DEF v, x
<1>14. /\ ListOK(a) /\ g \in Seq(Nat) /\ d \in Nat
       /\ \A k \in 1 .. Len(g) : g[k] = x \/ \E m \in 1 .. Len(f) : g[k] = f[m]
  <2>1. /\ ListOK(a) /\ a.free_orders \in Seq(Nat) /\ a.free_count \in Nat
        /\ \A k \in 1 .. Len(a.free_orders) :
             a.free_orders[k] = x \/ \E m \in 1 .. Len(v.free_orders) : a.free_orders[k] = v.free_orders[m]
    BY <1>4, <1>9, <1>10, <1>13, ListCons
  <2> QED BY <1>7, <2>1, Zenon
<1>15. Shape(i, a)
  BY <1>11, <1>12, <1>14, Zenon
<1>16. \A c \in live \ {b} : BlockOK(c, arenas')
  <2> TAKE c \in live \ {b}
  <2>1. Apart(c.addr, c.size, x, NodeSize)
    BY <1>9, Zenon DEF PoolInv, BlocksOK, x
  <2>2. \A k \in 1 .. Len(f) : Apart(c.addr, c.size, f[k], NodeSize)
    BY <1>8, Zenon DEF Clear
  <2>3. Clear(c, a)
    BY <1>7, <1>14, <2>1, <2>2, Zenon DEF Clear
  <2>4. Lies(c.addr, c.size, arenas[i]) => Lies(c.addr, c.size, a)
    BY <1>7, Zenon DEF Lies, v
  <2> QED BY <1>4, <2>3, <2>4, BlockStays, Zenon
<1>17. BlocksOK(live', arenas')
  BY <1>2, <1>16, Zenon DEF BlocksOK, PoolInv
<1> QED BY <1>1, <1>3, <1>14, <1>15, <1>17, ArenaStep, Zenon

\* bt_mempool_arena_reset.
LEMMA ResetStep ==
  ASSUME PoolInv, NEW t \in Users, Reset(t)
  PROVE  PoolInv'
<1> DEFINE i == tls_arena[t]
           v == arenas[i]
           a == Emptied(v)
<1>1. /\ i # None /\ UNCHANGED <<poolVars, arena_counter, tls_arena>> /\ arenas' = [arenas EXCEPT ![i] = a]
      /\ live' = {b \in live : ~Within(b, v)}
  BY Zenon DEF Reset
<1>2. /\ i \in Arenas /\ Shape(i, v) /\ ListOK(v) /\ arenas'[i] = a /\ \A j \in Arenas \ {i} : arenas'[j] = arenas[j]
  BY <1>1, UserArena, Zenon
<1>3. v \in ArenaTypes
  BY <1>2, Zenon DEF Shape
<1>4. << >> \in Seq(Nat) /\ Len(<< >>) = 0
  BY SeqEmpty, Zenon
<1>5. a \in ArenaTypes /\ a.base = v.base /\ a.size = v.size /\ a.offset = 0 /\ a.free_orders = << >> /\ a.free_count = 0
  BY <1>3, <1>4, Zenon DEF ArenaTypes, Emptied
<1> HIDE DEF a
<1>6. Shape(i, a)
  <2>1. 0 <= ArenaSize
    BY Carving
  <2> QED BY <1>2, <1>5, <2>1, Zenon DEF Shape
<1>7. NodesOf(a) = {}
  BY <1>4, <1>5 DEF NodesOf
<1>8. ListOK(a)
  BY <1>4, <1>5, <1>7, FS_EmptySet DEF ListOK
<1>9. \A b \in live' : BlockOK(b, arenas') /\ b \in live
  <2> TAKE b \in live'
  <2>1. b \in live /\ ~Lies(b.addr, b.size, v)
    BY <1>1, <1>2, OwnArena, Zenon
  <2>2. Clear(b, a)
    BY <1>4, <1>5 DEF Clear
  <2>3. BlockOK(b, arenas')
    BY <1>2, <2>1, <2>2, BlockStays, Zenon
  <2> QED BY <2>1, <2>3, Zenon
<1>10. BlocksOK(live', arenas')
  BY <1>9, Zenon DEF BlocksOK, PoolInv
<1> QED BY <1>1, <1>6, <1>8, <1>10, ArenaStep, Zenon

\* An empty pool, or none.
LEMMA EmptyPool ==
  ASSUME NEW as, as = [i \in Arenas |-> Carved(i)]
  PROVE  ArenasOK(as) /\ BlocksOK({}, as)
<1>1. \A i \in Arenas : as[i] = Carved(i)
  BY Zenon
<1>2. as = [i \in Arenas |-> as[i]]
  BY Zenon
<1> QED BY <1>1, <1>2, CarvedOK, Zenon DEF ArenasOK, BlocksOK

\* The program starts without a pool.
LEMMA MempoolStart ==
  ASSUME MempoolInit
  PROVE  PoolInv
<1> USE DEF MempoolInit
<1>1. NumArenas \in Nat \ {0} /\ MaxPools \in Nat
  BY MempoolAssumption, Zenon
<1>2. tls_arena \in [Users -> 0 .. NumArenas] /\ \A t \in Users : tls_arena[t] = None
  BY <1>1 DEF None
<1>a. RegionHeld
  BY Zenon DEF RegionHeld
<1>b. pools \in 0 .. MaxPools /\ arena_counter \in Nat /\ base = "NULL" /\ hugepage \in BOOLEAN
  <2>1. pools = 0 /\ arena_counter = 0 /\ base = "NULL"
    BY Zenon
  <2>2. hugepage \in BOOLEAN
    BY Zenon
  <2> HIDE DEF MempoolInit
  <2> QED BY <1>1, <2>1, <2>2
<1>c. touched = (IF base = "NULL" THEN {} ELSE Prefaulted(TotalSize)) /\ live = {}
  BY <1>b, Zenon
<1> HIDE DEF MempoolInit
<1>3. RegionOK
  BY <1>2, <1>a, <1>b, <1>c, Zenon DEF RegionOK
<1> USE DEF MempoolInit
<1> QED BY <1>3, EmptyPool, Zenon DEF PoolInv

\* bt_mempool_init makes a pool.
LEMMA InitPoolStep ==
  ASSUME PoolInv, NEW huge \in BOOLEAN, InitPool(huge)
  PROVE  PoolInv'
<1> USE DEF InitPool
<1>1. /\ base = "NULL" /\ base' = "region" /\ hugepage' = huge /\ live = {} /\ live' = {} /\ arena_counter' = 0
      /\ touched' = Prefaulted(TotalSize) /\ tls_arena' = tls_arena /\ tls_arena \in [Users -> 0 .. NumArenas]
  BY Zenon DEF PoolInv, RegionOK
<1>2. TotalSize \in Nat /\ Mapped(TotalSize) \in Nat /\ MaxPools \in Nat
  BY MempoolAssumption, PoolRoundUp, Zenon DEF Mapped
<1>3. pools' \in 0 .. MaxPools
  BY <1>2 DEF PoolInv, RegionOK
<1>4. held = [map |-> 0, heap |-> 0]
  BY <1>1, Zenon DEF PoolInv, RegionOK, RegionHeld
<1>5. RegionHeld'
  <2>1. CASE huge
    BY <1>1, <1>2, <1>4, <2>1 DEF RegionHeld
  <2>2. CASE ~huge
    BY <1>1, <1>2, <1>4, <2>2 DEF RegionHeld
  <2> QED BY <2>1, <2>2, Zenon
<1>6. RegionOK'
  BY <1>1, <1>3, <1>5 DEF RegionOK
<1> QED BY <1>1, <1>6, EmptyPool, Zenon DEF PoolInv

\* bt_mempool_init makes none.
LEMMA InitPoolFailsStep ==
  ASSUME PoolInv, InitPoolFails
  PROVE  PoolInv'
<1> USE DEF InitPoolFails
<1>1. pools' \in 0 .. MaxPools
  BY MempoolAssumption DEF PoolInv, RegionOK
<1>2. RegionOK'
  BY <1>1, Zenon DEF PoolInv, RegionOK, RegionHeld
<1> QED BY <1>2, Zenon DEF PoolInv

\* bt_mempool_destroy.
LEMMA DestroyStep ==
  ASSUME PoolInv, Destroy
  PROVE  PoolInv'
<1> USE DEF Destroy
<1>1. NumArenas \in Nat \ {0} /\ TotalSize \in Nat /\ Mapped(TotalSize) \in Nat
  BY MempoolAssumption, PoolRoundUp, Zenon DEF Mapped
<1>2. tls_arena' \in [Users -> 0 .. NumArenas] /\ \A t \in Users : tls_arena'[t] = None
  BY <1>1 DEF None
<1>3. held = IF hugepage THEN [map |-> Mapped(TotalSize), heap |-> 0] ELSE [map |-> 0, heap |-> TotalSize]
  BY Zenon DEF PoolInv, RegionOK, RegionHeld
<1>4. held' = [map |-> 0, heap |-> 0]
  <2>1. CASE hugepage
    BY <1>1, <1>3, <2>1 DEF GivenBack, Unmapped
  <2>2. CASE ~hugepage
    BY <1>3, <2>2, Zenon DEF GivenBack
  <2> QED BY <2>1, <2>2, Zenon
<1>5. RegionOK'
  BY <1>2, <1>4, Zenon DEF PoolInv, RegionOK, RegionHeld
<1> QED BY <1>5, EmptyPool, Zenon DEF PoolInv

\* bt_mempool_assign_arena: the arenas in turn.
LEMMA AssignArenaStep ==
  ASSUME PoolInv, NEW t \in Users, AssignArena(t)
  PROVE  PoolInv'
<1> USE DEF AssignArena
<1>1. NumArenas \in Nat \ {0} /\ arena_counter \in Nat /\ tls_arena \in [Users -> 0 .. NumArenas]
  BY MempoolAssumption, Zenon DEF PoolInv, RegionOK
<1>2. arena_counter % NumArenas \in 0 .. NumArenas /\ arena_counter' \in Nat
  BY <1>1
<1>3. tls_arena' \in [Users -> 0 .. NumArenas]
  BY <1>1, <1>2, Zenon
<1>4. RegionOK'
  BY <1>2, <1>3, Zenon DEF PoolInv, RegionOK, RegionHeld, poolVars
<1> QED BY <1>4, Zenon DEF PoolInv

\* Every step of the pool keeps the invariant.
LEMMA MempoolStep ==
  ASSUME PoolInv, [MempoolNext]_mempoolVars
  PROVE  PoolInv'
<1>1. CASE UNCHANGED mempoolVars
  BY <1>1, Zenon DEF mempoolVars, poolVars, PoolInv, RegionOK, RegionHeld
<1>2. ASSUME NEW t \in Users, AllocBlock(t) PROVE PoolInv'
  <2>1. PICK size \in Sizes : Bump(tls_arena[t], size, FALSE)
    BY <1>2, Zenon DEF AllocBlock
  <2>2. size \in Nat \ {0} /\ tls_arena[t] # None /\ UNCHANGED <<poolVars, arena_counter, tls_arena>>
    BY <1>2, MempoolAssumption, Zenon DEF AllocBlock
  <2> QED BY <2>1, <2>2, BumpStep, Zenon
<1>3. ASSUME NEW t \in Users, AllocOrder(t) PROVE PoolInv'
  <2>1. tls_arena[t] # None /\ UNCHANGED <<poolVars, arena_counter, tls_arena>> /\ NodeSize \in Nat \ {0}
    BY <1>3, MempoolAssumption, Zenon DEF AllocOrder
  <2>2. CASE arenas[tls_arena[t]].free_orders # << >>
    BY <1>3, <2>1, <2>2, RecycleStep, Zenon DEF AllocOrder
  <2>3. CASE arenas[tls_arena[t]].free_orders = << >>
    BY <1>3, <2>1, <2>3, BumpStep, Zenon DEF AllocOrder
  <2> QED BY <2>2, <2>3, Zenon
<1> QED BY <1>1, <1>2, <1>3, InitPoolStep, InitPoolFailsStep, DestroyStep, AssignArenaStep, FreeOrderStep, ResetStep, Zenon
        DEF MempoolNext

\* The pool of utils/memory_pool.c, for any number of arenas and threads and
\* any sizes: the free list of an arena holds no node twice and free_count is
\* its length, no arena passes its end, every page in use is faulted in, and
\* the region is given back whole by bt_mempool_destroy.
THEOREM ArenasSound == MempoolSpec => []ArenaInv
<1>1. MempoolInit => PoolInv
  BY MempoolStart, Zenon
<1>2. PoolInv /\ [MempoolNext]_mempoolVars => PoolInv'
  BY MempoolStep, Zenon
<1>3. PoolInv => ArenaInv
  BY PoolImplied, Zenon
<1> QED BY <1>1, <1>2, <1>3, PTL DEF MempoolSpec

\* Blocks in use, free nodes and the arena array at the end of the region never
\* share a byte, whatever is allocated, freed and reset.
THEOREM BlocksSound == MempoolSpec => []BlocksDisjoint
<1>1. MempoolInit => PoolInv
  BY MempoolStart, Zenon
<1>2. PoolInv /\ [MempoolNext]_mempoolVars => PoolInv'
  BY MempoolStep, Zenon
<1>3. PoolInv => BlocksDisjoint
  BY PoolImplied, Zenon
<1> QED BY <1>1, <1>2, <1>3, PTL DEF MempoolSpec
--------------------------------------------------------------------------------
OneAllocator == \A a, b \in Allocators : a = b

USE DEF counts, Goto, Moving, Steps

\* The members of a sequence are the values at its indices.
LEMMA RangeMember ==
  ASSUME NEW S, NEW s \in Seq(S), NEW x
  PROVE  x \in Range(s) <=> \E i \in 1 .. Len(s) : s[i] = x
BY DEF Range

\* The list after bt_lfpool_alloc has taken its first node.
LEMMA PopList ==
  ASSUME NEW S, NEW s \in Seq(S), s # << >>,
         \A i, j \in 1 .. Len(s) : s[i] = s[j] => i = j
  PROVE  LET r == SubSeq(s, 2, Len(s))
         IN  /\ r \in Seq(S) /\ Len(r) = Len(s) - 1
             /\ \A i \in 1 .. Len(r) : r[i] = s[i + 1]
             /\ \A x : x \in Range(s) <=> x = s[1] \/ x \in Range(r)
             /\ s[1] \notin Range(r)
<1> DEFINE r == SubSeq(s, 2, Len(s))
<1>1. /\ r \in Seq(S) /\ Len(r) = Len(s) - 1
      /\ \A i \in 1 .. Len(r) : r[i] = s[i + 1]
  <2>1. Tail(s) = r
    BY SeqTailPart, Zenon
  <2>2. /\ Tail(s) \in Seq(S) /\ Len(Tail(s)) = Len(s) - 1
        /\ \A i \in 1 .. Len(Tail(s)) : Tail(s)[i] = s[i + 1]
    BY SeqTail, Zenon
  <2> HIDE DEF r
  <2> QED BY <2>1, <2>2, Zenon
<1>2. Len(s) \in Nat \ {0}
  BY SeqEmpty, SeqLen, Zenon
<1> HIDE DEF r
<1>3. ASSUME NEW x PROVE x \in Range(s) <=> x = s[1] \/ x \in Range(r)
  <2>1. x \in Range(s) <=> \E i \in 1 .. Len(s) : s[i] = x
    BY RangeMember, Zenon
  <2>2. x \in Range(r) <=> \E i \in 1 .. Len(r) : r[i] = x
    BY <1>1, RangeMember, Zenon
  <2>3. ASSUME NEW i \in 1 .. Len(s), s[i] = x, i # 1
        PROVE  i - 1 \in 1 .. Len(r) /\ r[i - 1] = x
    BY <2>3, <1>1, <1>2
  <2>4. \A i \in 1 .. Len(r) : i + 1 \in 1 .. Len(s) /\ s[i + 1] = r[i]
    BY <1>1, <1>2
  <2> QED BY <2>1, <2>2, <2>3, <2>4, <1>2
<1>4. s[1] \notin Range(r)
  <2> SUFFICES ASSUME NEW i \in 1 .. Len(r), r[i] = s[1] PROVE FALSE
    BY <1>1, RangeMember, Zenon
  <2> QED BY <1>1, <1>2
<1> QED BY <1>1, <1>3, <1>4, Zenon DEF r

\* The list after a batch was put in front of it.
LEMMA PushList ==
  ASSUME NEW S, NEW b \in Seq(S), NEW s \in Seq(S)
  PROVE  LET c == b \o s
         IN  /\ c \in Seq(S) /\ Len(c) = Len(b) + Len(s)
             /\ \A i \in 1 .. Len(b) : c[i] = b[i]
             /\ \A i \in 1 .. Len(s) : c[Len(b) + i] = s[i]
             /\ \A x : x \in Range(c) <=> x \in Range(b) \/ x \in Range(s)
<1> DEFINE c == b \o s
<1>1. /\ c \in Seq(S) /\ Len(c) = Len(b) + Len(s)
      /\ \A i \in 1 .. Len(b) : c[i] = b[i]
      /\ \A i \in 1 .. Len(s) : c[Len(b) + i] = s[i]
      /\ Len(b) \in Nat /\ Len(s) \in Nat
  BY SeqConcat, SeqLen
<1> HIDE DEF c
<1>2. ASSUME NEW x PROVE x \in Range(c) <=> x \in Range(b) \/ x \in Range(s)
  <2>1. /\ x \in Range(c) <=> \E i \in 1 .. Len(c) : c[i] = x
        /\ x \in Range(b) <=> \E i \in 1 .. Len(b) : b[i] = x
        /\ x \in Range(s) <=> \E i \in 1 .. Len(s) : s[i] = x
    <3>1. x \in Range(c) <=> \E i \in 1 .. Len(c) : c[i] = x
      BY <1>1, RangeMember, Zenon
    <3>2. x \in Range(b) <=> \E i \in 1 .. Len(b) : b[i] = x
      BY RangeMember, Zenon
    <3>3. x \in Range(s) <=> \E i \in 1 .. Len(s) : s[i] = x
      BY RangeMember, Zenon
    <3> QED BY <3>1, <3>2, <3>3, Zenon
  <2>2. ASSUME NEW i \in 1 .. Len(c), i \notin 1 .. Len(b)
        PROVE  i - Len(b) \in 1 .. Len(s) /\ c[i] = s[i - Len(b)]
    BY <2>2, <1>1
  <2>3. \A i \in 1 .. Len(s) : Len(b) + i \in 1 .. Len(c)
    BY <1>1
  <2>4. \A i \in 1 .. Len(b) : i \in 1 .. Len(c)
    BY <1>1
  <2> QED BY <2>1, <2>2, <2>3, <2>4, <1>1, Zenon
<1> QED BY <1>1, <1>2, Zenon DEF c
-------------------------------------------------------------------------------
(* The steps of bt_lfpool_alloc *)

\* Looking at the list changes nothing but the locals of the call.
LEMMA AllocLookStep ==
  ASSUME IndInv, NEW t \in Allocators,
         AllocEmpty(t) \/ AllocLoad(t) \/ AllocNext(t) \/ AllocRetry(t)
  PROVE  IndInv'
<1>0. t \in Threads
  BY PoolAssumption, Zenon
<1> USE <1>0 DEF IndInv
<1>1. UNCHANGED <<head, next, alloc_count, free_count, batch, owned, stack>>
  BY Zenon DEF AllocEmpty, AllocLoad, AllocNext, AllocRetry
<1>2. /\ pc[t] \in {"idle", "reload", "next", "pop"}
      /\ pc'[t] \in {"idle", "reload", "next", "pop"}
      /\ \A u \in Threads : u # t => pc'[u] = pc[u] /\ h'[u] = h[u] /\ nx'[u] = nx[u]
  BY Zenon DEF TypeOK, AllocEmpty, AllocLoad, AllocNext, AllocRetry
<1>3. \A x : x \in Range(stack) => x \in Nodes
  BY DEF TypeOK, Range
<1>4. head # NULL => head \in Range(stack)
  <2> SUFFICES ASSUME stack # << >> PROVE stack[1] \in Range(stack)
    BY Zenon DEF ListIntact
  <2> QED BY RangeMember, SeqEmpty DEF TypeOK
<1>5. TypeOK'
  <2>1. pc' \in [Threads -> Steps] /\ h' \in [Threads -> Nodes \cup {NULL}]
    BY ZenonT(30) DEF TypeOK, AllocEmpty, AllocLoad, AllocNext, AllocRetry
  <2>2. nx' \in [Threads -> Nodes \cup {NULL}]
    <3>1. pc[t] = "next" => next[h[t]] \in Nodes \cup {NULL}
      BY <1>3, Zenon DEF TypeOK, CallsInv
    <3> QED BY <3>1, Zenon DEF TypeOK, AllocEmpty, AllocLoad, AllocNext, AllocRetry
  <2> QED BY <2>1, <2>2, <1>1, Zenon DEF TypeOK
<1>6. ListIntact'
  BY <1>1, Zenon DEF ListIntact
<1>7. \A u \in Threads : Popped(u)' = Popped(u) /\ Incoming(u)' = Incoming(u)
  BY <1>1, <1>2, Zenon DEF Popped, Incoming
<1>8. OnePlace'
  BY <1>1, <1>7, Zenon DEF OnePlace, NoDoubleAlloc
<1>9. CallsInv'
  <2> SUFFICES ASSUME NEW u \in Threads
               PROVE  /\ pc'[u] \in {"reload", "next", "pop", "popped"} => u \in Allocators
                      /\ pc'[u] \in {"next", "pop"} => h'[u] \in Range(stack)
                      /\ pc'[u] = "pop" => nx'[u] = next[h'[u]]
                      /\ pc'[u] = "popped" => h'[u] \in Nodes
                      /\ pc'[u] \in Moving => Chain(batch[u])
                      /\ pc'[u] = "push" => next[batch[u][Len(batch[u])]] = h'[u]
    BY <1>1 DEF CallsInv, Chain
  <2>1. CASE u # t
    BY <2>1, <1>2, Zenon DEF CallsInv
  <2>2. CASE u = t
    BY <2>2, <1>2, <1>4 DEF CallsInv, TypeOK, AllocEmpty, AllocLoad, AllocNext, AllocRetry
  <2> QED BY <2>1, <2>2, Zenon
<1> QED BY <1>5, <1>6, <1>8, <1>9, Zenon

\* The compare-and-swap that takes the first node.  Only here is it used that
\* no other thread allocates: another call would be left with a popped node.
LEMMA AllocPopStep ==
  ASSUME OneAllocator, IndInv, NEW t \in Allocators, AllocPop(t)
  PROVE  IndInv'
<1>0. t \in Threads
  BY PoolAssumption, Zenon
<1> USE <1>0 DEF IndInv
<1>1. /\ pc[t] = "pop" /\ head = h[t] /\ head' = nx[t]
      /\ stack' = SubSeq(stack, 2, Len(stack))
      /\ pc' = [pc EXCEPT ![t] = "popped"]
      /\ UNCHANGED <<next, alloc_count, free_count, h, nx, batch, owned>>
  BY Zenon DEF AllocPop, PopWins
<1>2. /\ pc'[t] = "popped"
      /\ \A u \in Threads : u # t => pc'[u] = pc[u]
  BY <1>1, Zenon DEF TypeOK
<1>3. h[t] \in Range(stack) /\ nx[t] = next[h[t]]
  BY <1>1, Zenon DEF CallsInv
<1>4. stack # << >> /\ h[t] = stack[1] /\ h[t] \in Nodes /\ Len(stack) \in Nat \ {0}
  <2>1. stack # << >>
    BY <1>3, RangeMember, SeqEmpty DEF TypeOK
  <2> QED BY <2>1, <1>1, SeqEmpty, SeqLen DEF ListIntact, TypeOK
<1> DEFINE r == SubSeq(stack, 2, Len(stack))
<1>5. /\ r \in Seq(Nodes) /\ Len(r) = Len(stack) - 1
      /\ \A i \in 1 .. Len(r) : r[i] = stack[i + 1]
      /\ \A x : x \in Range(stack) <=> x = stack[1] \/ x \in Range(r)
      /\ stack[1] \notin Range(r)
  BY <1>4, PopList, Zenon DEF TypeOK, ListIntact
<1>6. stack' = r
  BY <1>1, Zenon
<1> HIDE DEF r
<1>7. TypeOK'
  BY <1>1, <1>5, <1>6, Zenon DEF TypeOK
<1>8. ListIntact'
  <2>1. \A i, j \in 1 .. Len(r) : r[i] = r[j] => i = j
    BY <1>4, <1>5 DEF ListIntact
  <2>2. head' = IF r = << >> THEN NULL ELSE r[1]
    <3>1. head' = IF Len(stack) = 1 THEN NULL ELSE stack[2]
      <4>1. next[stack[1]] = IF 1 = Len(stack) THEN NULL ELSE stack[1 + 1]
        <5>1. 1 \in 1 .. Len(stack)
          BY <1>4
        <5> QED BY <5>1, Zenon DEF ListIntact
      <4> QED BY <4>1, <1>1, <1>3, <1>4
    <3>2. r = << >> <=> Len(stack) = 1
      BY <1>4, <1>5, SeqEmpty
    <3>3. Len(stack) # 1 => r[1] = stack[2]
      BY <1>4, <1>5
    <3> QED BY <3>1, <3>2, <3>3, Zenon
  <2>3. ASSUME NEW i \in 1 .. Len(r)
        PROVE  next[r[i]] = IF i = Len(r) THEN NULL ELSE r[i + 1]
    <3>1. i + 1 \in 1 .. Len(stack) /\ r[i] = stack[i + 1]
      BY <1>4, <1>5
    <3>2. next[stack[i + 1]] = IF i + 1 = Len(stack) THEN NULL ELSE stack[i + 2]
      BY <3>1, <1>4 DEF ListIntact
    <3>3. i # Len(r) => r[i + 1] = stack[i + 2]
      BY <1>4, <1>5
    <3> QED BY <3>1, <3>2, <3>3, <1>4, <1>5
  <2> QED BY <2>1, <2>2, <2>3, <1>1, <1>6, Zenon DEF ListIntact
<1>9. /\ Popped(t)' = {stack[1]} /\ Popped(t) = {}
      /\ \A u \in Threads : u # t => Popped(u)' = Popped(u)
      /\ \A u \in Threads : Incoming(u)' = Incoming(u)
  BY <1>1, <1>2, <1>4, Zenon DEF Popped, Incoming
<1>10. OnePlace'
  <2>1. \A u \in Threads : stack[1] \notin Popped(u) \cup Incoming(u) \cup owned
    BY <1>5, Zenon DEF OnePlace
  <2>2. NoDoubleAlloc'
    BY <2>1, <1>1, <1>9 DEF OnePlace, NoDoubleAlloc
  <2>3. owned \cap Range(r) = {}
    BY <1>5, Zenon DEF OnePlace
  <2>4. \A u \in Threads : (Popped(u)' \cup Incoming(u)') \cap (Range(r) \cup owned) = {}
    BY <1>5, <1>9, <2>1 DEF OnePlace
  <2>5. \A x \in Nodes \ (owned \cup Range(r)) :
          \E u \in Threads : x \in Popped(u)' \cup Incoming(u)'
    BY <1>5, <1>9 DEF OnePlace
  <2> QED BY <2>2, <2>3, <2>4, <2>5, <1>1, <1>6, <1>9, Zenon DEF OnePlace
<1>11. CallsInv'
  <2>1. \A u \in Threads : u # t => pc'[u] \notin {"next", "pop", "reload", "popped"}
    BY <1>2, Zenon DEF OneAllocator, CallsInv
  <2> SUFFICES ASSUME NEW u \in Threads
               PROVE  /\ pc'[u] \in {"reload", "next", "pop", "popped"} => u \in Allocators
                      /\ pc'[u] \in {"next", "pop"} => h[u] \in Range(r)
                      /\ pc'[u] = "pop" => nx[u] = next[h[u]]
                      /\ pc'[u] = "popped" => h[u] \in Nodes
                      /\ pc'[u] \in Moving => Chain(batch[u])
                      /\ pc'[u] = "push" => next[batch[u][Len(batch[u])]] = h[u]
    <3>1. \A v \in Threads : Chain(batch[v])' <=> Chain(batch[v])
      BY <1>1, Zenon DEF Chain
    <3> QED BY <3>1, <1>1, <1>6, Zenon DEF CallsInv
  <2>2. CASE u # t
    BY <2>1, <2>2, <1>2, Zenon DEF CallsInv
  <2>3. CASE u = t
    BY <2>3, <1>2, <1>4, Zenon
  <2> QED BY <2>2, <2>3, Zenon
<1> QED BY <1>7, <1>8, <1>10, <1>11, Zenon

\* The popped node passes from the call to the application.
LEMMA AllocReturnStep ==
  ASSUME IndInv, NEW t \in Allocators, AllocReturn(t)
  PROVE  IndInv'
<1>0. t \in Threads
  BY PoolAssumption, Zenon
<1> USE <1>0 DEF IndInv
<1>1. /\ pc[t] = "popped" /\ owned' = owned \cup {h[t]}
      /\ alloc_count' = (alloc_count + 1) % CountMod
      /\ pc' = [pc EXCEPT ![t] = "idle"]
      /\ UNCHANGED <<head, next, free_count, h, nx, batch, stack>>
  BY Zenon DEF AllocReturn
<1>2. /\ pc'[t] = "idle"
      /\ \A u \in Threads : u # t => pc'[u] = pc[u]
  BY <1>1, Zenon DEF TypeOK
<1>3. h[t] \in Nodes
  BY <1>1, Zenon DEF CallsInv
<1>4. TypeOK'
  BY <1>1, <1>3, PoolAssumption DEF TypeOK
<1>5. ListIntact'
  BY <1>1, Zenon DEF ListIntact
<1>6. /\ Popped(t) = {h[t]} /\ Popped(t)' = {}
      /\ \A u \in Threads : u # t => Popped(u)' = Popped(u)
      /\ \A u \in Threads : Incoming(u)' = Incoming(u)
  BY <1>1, <1>2, Zenon DEF Popped, Incoming
<1>7. OnePlace'
  <2>1. /\ h[t] \notin Range(stack)
        /\ \A u \in Threads : h[t] \notin Incoming(u)
        /\ \A u \in Threads : u # t => h[t] \notin Popped(u)
    <3>1. h[t] \notin Incoming(t)
      BY <1>1, Zenon DEF Incoming
    <3> QED BY <3>1, <1>6, Zenon DEF OnePlace, NoDoubleAlloc
  <2>2. NoDoubleAlloc'
    BY <2>1, <1>1, <1>6 DEF OnePlace, NoDoubleAlloc
  <2>3. owned' \cap Range(stack) = {}
    BY <2>1, <1>1 DEF OnePlace
  <2>4. \A u \in Threads : (Popped(u)' \cup Incoming(u)') \cap (Range(stack) \cup owned') = {}
    BY <2>1, <1>1, <1>6 DEF OnePlace
  <2>5. \A x \in Nodes \ (owned' \cup Range(stack)) :
          \E u \in Threads : x \in Popped(u)' \cup Incoming(u)'
    BY <1>1, <1>6 DEF OnePlace
  <2> QED BY <2>2, <2>3, <2>4, <2>5, <1>1, <1>6 DEF OnePlace
<1>8. CallsInv'
  BY <1>1, <1>2 DEF CallsInv, Chain
<1> QED BY <1>4, <1>5, <1>7, <1>8, Zenon
-------------------------------------------------------------------------------
(* The steps of bt_lfpool_free and bt_lfpool_bulk_free *)

\* What CallsInv says of one call.
CallOK(u) == /\ pc[u] \in {"reload", "next", "pop", "popped"} => u \in Allocators
             /\ pc[u] \in {"next", "pop"} => h[u] \in Range(stack)
             /\ pc[u] = "pop" => nx[u] = next[h[u]]
             /\ pc[u] = "popped" => h[u] \in Nodes
             /\ pc[u] \in Moving => Chain(batch[u])
             /\ pc[u] = "push" => next[batch[u][Len(batch[u])]] = h[u]

\* CallsInv says CallOK of every thread.
LEMMA CallsInvIsCallOK == CallsInv <=> \A u \in Threads : CallOK(u)
BY Zenon DEF CallsInv, CallOK

\* Writing links of nodes that are in no list and in no other call's batch
\* disturbs neither the list nor what another call knows.
LEMMA PrivateLinks ==
  ASSUME IndInv, NEW t \in Threads, stack' = stack, head' = head,
         \A x \in Range(stack) : next'[x] = next[x],
         \A u \in Threads : u # t => \A x \in Incoming(u) : next'[x] = next[x],
         \A u \in Threads : u # t => /\ pc'[u] = pc[u] /\ h'[u] = h[u]
                                     /\ nx'[u] = nx[u] /\ batch'[u] = batch[u]
  PROVE  /\ ListIntact'
         /\ \A u \in Threads : u # t => CallOK(u)'
<1> USE DEF IndInv
<1>1. ListIntact'
  <2>1. \A i \in 1 .. Len(stack) : stack[i] \in Range(stack)
    BY RangeMember, Zenon DEF TypeOK
  <2> QED BY <2>1 DEF ListIntact
<1>2. ASSUME NEW u \in Threads, u # t PROVE CallOK(u)'
  <2>1. CallOK(u)
    BY CallsInvIsCallOK, Zenon
  <2>2. pc'[u] = pc[u] /\ h'[u] = h[u] /\ nx'[u] = nx[u] /\ batch'[u] = batch[u]
    BY <1>2, Zenon
  <2>3. ASSUME pc[u] \in Moving
        PROVE  /\ Chain(batch[u])'
               /\ next'[batch[u][Len(batch[u])]] = next[batch[u][Len(batch[u])]]
    <3>1. batch[u] \in Seq(Nodes) /\ Chain(batch[u])
      BY <2>1, <2>3, Zenon DEF TypeOK, CallOK
    <3>2. \A i \in 1 .. Len(batch[u]) : batch[u][i] \in Incoming(u)
      BY <3>1, <2>3, RangeMember, Zenon DEF Incoming
    <3>3. Len(batch[u]) \in Nat \ {0}
      BY <3>1, SeqEmpty, Zenon DEF Chain
    <3>4. \A i \in 1 .. Len(batch[u]) : next'[batch[u][i]] = next[batch[u][i]]
      BY <3>2, <1>2, Zenon
    <3>5. Chain(batch[u])'
      BY <3>1, <3>3, <3>4, <2>2 DEF Chain
    <3> QED BY <3>3, <3>4, <3>5
  <2>4. pc[u] = "pop" => next'[h[u]] = next[h[u]]
    BY <2>1, Zenon DEF CallOK
  <2> QED BY <2>1, <2>2, <2>3, <2>4, Zenon DEF CallOK
<1> QED BY <1>1, <1>2, Zenon

\* A free, single or bulk, takes its objects from the application.
LEMMA FreeBeginStep ==
  ASSUME IndInv, NEW t \in Threads, NEW b \in Seq(Nodes), pc[t] = "idle",
         b # << >>, \A i, j \in 1 .. Len(b) : b[i] = b[j] => i = j,
         Range(b) \subseteq owned, owned' = owned \ Range(b),
         batch' = [batch EXCEPT ![t] = b],
         next' \in [Nodes -> Nodes \cup {NULL}],
         \A x \in Nodes \ Range(b) : next'[x] = next[x],
         \A i \in 1 .. Len(b) - 1 : next'[b[i]] = b[i + 1],
         h' = [h EXCEPT ![t] = head],
         pc' = [pc EXCEPT ![t] = "link"],
         UNCHANGED <<head, alloc_count, free_count, nx, stack>>
  PROVE  IndInv'
<1> USE DEF IndInv
<1>1. /\ pc'[t] = "link" /\ h'[t] = head /\ batch'[t] = b
      /\ \A u \in Threads : u # t => /\ pc'[u] = pc[u] /\ h'[u] = h[u]
                                     /\ nx'[u] = nx[u] /\ batch'[u] = batch[u]
  BY Zenon DEF TypeOK
<1>2. TypeOK'
  BY Zenon DEF TypeOK
<1>3. /\ Popped(t)' = {} /\ Popped(t) = {} /\ Incoming(t)' = Range(b) /\ Incoming(t) = {}
      /\ \A u \in Threads : u # t => Popped(u)' = Popped(u) /\ Incoming(u)' = Incoming(u)
  BY <1>1 DEF Popped, Incoming
<1>4. OnePlace'
  <2>1. NoDoubleAlloc'
    BY <1>3 DEF OnePlace, NoDoubleAlloc
  <2>2. owned' \cap Range(stack) = {}
    BY Zenon DEF OnePlace
  <2>3. ASSUME NEW u \in Threads
        PROVE  /\ (Popped(u)' \cup Incoming(u)') \cap (Range(stack) \cup owned') = {}
               /\ \A v \in Threads : v # u => Incoming(u)' \cap Incoming(v)' = {}
    BY <1>3 DEF OnePlace
  <2>4. \A x \in Nodes \ (owned' \cup Range(stack)) :
          \E u \in Threads : x \in Popped(u)' \cup Incoming(u)'
    BY <1>3 DEF OnePlace
  <2> QED BY <2>1, <2>2, <2>3, <2>4, Zenon DEF OnePlace
<1>5. ListIntact' /\ \A u \in Threads : u # t => CallOK(u)'
  <2>1. \A x \in Range(stack) : x \in Nodes /\ x \notin Range(b)
    BY DEF OnePlace, TypeOK, Range
  <2>2. \A u \in Threads : \A x \in Incoming(u) : x \in Nodes /\ x \notin Range(b)
    <3>1. ASSUME NEW u \in Threads, NEW x \in Incoming(u)
          PROVE  x \in Range(batch[u]) /\ batch[u] \in Seq(Nodes) /\ x \notin owned
      BY Zenon DEF OnePlace, TypeOK, Incoming
    <3>2. ASSUME NEW s \in Seq(Nodes), NEW x \in Range(s) PROVE x \in Nodes
      BY DEF Range
    <3> QED BY <3>1, <3>2, Zenon
  <2>3. \A x \in Range(stack) : next'[x] = next[x]
    BY <2>1, Zenon
  <2>4. \A u \in Threads : u # t => \A x \in Incoming(u) : next'[x] = next[x]
    BY <2>2, Zenon
  <2> QED BY <2>3, <2>4, <1>1, PrivateLinks, Zenon
<1>6. CallOK(t)'
  BY <1>1 DEF CallOK, Chain
<1>7. CallsInv'
  BY <1>5, <1>6, Zenon DEF CallsInv, CallOK
<1> QED BY <1>2, <1>4, <1>5, <1>7, Zenon

\* bt_lfpool_free begins: one object, nothing to link yet.
LEMMA FreeOneStep ==
  ASSUME IndInv, NEW t \in Threads, FreeBegin(t)
  PROVE  IndInv'
<1>1. PICK x \in owned : batch' = [batch EXCEPT ![t] = <<x>>] /\ owned' = owned \ {x}
  BY Zenon DEF FreeBegin
<1> DEFINE b == <<x>>
<1>2. x \in Nodes /\ next \in [Nodes -> Nodes \cup {NULL}]
  BY Zenon DEF IndInv, TypeOK
<1>3. b \in Seq(Nodes) /\ Len(b) = 1 /\ b[1] = x /\ b # << >>
  BY <1>2
<1>4. Range(b) = {x}
  BY <1>3 DEF Range
<1>5. /\ pc[t] = "idle" /\ next' = next
      /\ h' = [h EXCEPT ![t] = head] /\ pc' = [pc EXCEPT ![t] = "link"]
      /\ UNCHANGED <<head, alloc_count, free_count, nx, stack>>
  BY Zenon DEF FreeBegin
<1>6. batch' = [batch EXCEPT ![t] = b] /\ owned' = owned \ Range(b) /\ Range(b) \subseteq owned
  BY <1>1, <1>4, Zenon
<1> HIDE DEF b
<1>7. \A i, j \in 1 .. Len(b) : b[i] = b[j] => i = j
  BY <1>3
<1>8. \A i \in 1 .. Len(b) - 1 : next'[b[i]] = b[i + 1]
  BY <1>3
<1> QED BY <1>2, <1>3, <1>5, <1>6, <1>7, <1>8, FreeBeginStep, Zenon

\* bt_lfpool_bulk_free begins: the objects are distinct and linked to each other.
LEMMA FreeBulkStep ==
  ASSUME IndInv, NEW t \in Threads, BulkBegin(t)
  PROVE  IndInv'
<1>1. PICK b \in Batches(owned) :
        /\ batch' = [batch EXCEPT ![t] = b]
        /\ owned' = owned \ Range(b)
        /\ next' = [x \in Nodes |->
                      IF \E i \in 1 .. Len(b) - 1 : b[i] = x
                      THEN b[1 + CHOOSE i \in 1 .. Len(b) - 1 : b[i] = x]
                      ELSE next[x]]
  BY Zenon DEF BulkBegin
<1>2. PICK k \in 2 .. MaxBatch : b \in [1 .. k -> owned]
  BY <1>1, Zenon DEF Batches
<1>3. /\ k \in Nat /\ k >= 2 /\ owned \subseteq Nodes
      /\ next \in [Nodes -> Nodes \cup {NULL}]
  BY <1>2, PoolAssumption DEF IndInv, TypeOK
<1>4. b \in Seq(Nodes) /\ Len(b) = k /\ b # << >>
  BY <1>2, <1>3
<1>5. \A i, j \in 1 .. Len(b) : b[i] = b[j] => i = j
  BY <1>1, <1>2, <1>3, <1>4, Zenon DEF Batches
<1>6. Range(b) \subseteq owned
  BY <1>2, Zenon DEF Range
<1>7. \A i \in 1 .. Len(b) - 1 : next'[b[i]] = b[i + 1]
  <2> SUFFICES ASSUME NEW i \in 1 .. Len(b) - 1 PROVE next'[b[i]] = b[i + 1]
    BY Zenon
  <2> DEFINE c == CHOOSE j \in 1 .. Len(b) - 1 : b[j] = b[i]
  <2>1. c \in 1 .. Len(b) - 1 /\ b[c] = b[i]
    BY Zenon
  <2>2. b[i] \in Nodes
    BY <1>2, <1>3, <1>4
  <2>3. next'[b[i]] = b[1 + c]
    BY <1>1, <2>2, Zenon
  <2> HIDE DEF c
  <2>4. c = i
    BY <2>1, <1>3, <1>4, <1>5
  <2> QED BY <2>3, <2>4, <1>3, <1>4
<1>8. \A x \in Nodes \ Range(b) : next'[x] = next[x]
  <2>1. \A x \in Nodes \ Range(b) : ~ \E i \in 1 .. Len(b) - 1 : b[i] = x
    BY <1>3, <1>4, RangeMember
  <2> QED BY <2>1, <1>1, Zenon
<1>9. next' \in [Nodes -> Nodes \cup {NULL}]
  <2> SUFFICES ASSUME NEW x \in Nodes, NEW i \in 1 .. Len(b) - 1, b[i] = x
               PROVE  b[1 + CHOOSE j \in 1 .. Len(b) - 1 : b[j] = x] \in Nodes
    BY <1>1, <1>3, Zenon
  <2> DEFINE c == CHOOSE j \in 1 .. Len(b) - 1 : b[j] = x
  <2>1. c \in 1 .. Len(b) - 1
    BY Zenon
  <2> HIDE DEF c
  <2> QED BY <2>1, <1>2, <1>3, <1>4 DEF c
<1>10. /\ pc[t] = "idle"
       /\ h' = [h EXCEPT ![t] = head] /\ pc' = [pc EXCEPT ![t] = "link"]
       /\ UNCHANGED <<head, alloc_count, free_count, nx, stack>>
  BY Zenon DEF BulkBegin
<1> QED BY <1>1, <1>4, <1>5, <1>6, <1>7, <1>8, <1>9, <1>10, FreeBeginStep, Zenon

\* Writing the last link of a batch, and going back to do so.
LEMMA FreeLinkStep ==
  ASSUME IndInv, NEW t \in Threads, FreeLink(t) \/ FreeRetry(t)
  PROVE  IndInv'
<1> USE DEF IndInv
<1> DEFINE b == batch[t]
           last == b[Len(b)]
<1>1. /\ pc[t] \in Moving /\ pc'[t] \in Moving
      /\ batch' = batch /\ nx' = nx /\ owned' = owned
      /\ UNCHANGED <<head, alloc_count, free_count, stack>>
      /\ \A u \in Threads : u # t => pc'[u] = pc[u] /\ h'[u] = h[u]
  BY Zenon DEF TypeOK, FreeLink, FreeRetry
<1>2. b \in Seq(Nodes) /\ Chain(b)
  BY <1>1, Zenon DEF TypeOK, CallsInv
<1>3. Len(b) \in Nat \ {0}
  BY <1>2, SeqEmpty, Zenon DEF Chain
<1>4. last \in Nodes /\ last \in Range(b)
  BY <1>2, <1>3, RangeMember
<1>5. \A x \in Nodes : x # last => next'[x] = next[x]
  BY Zenon DEF TypeOK, FreeLink, FreeRetry
<1>6. TypeOK'
  BY <1>1, Zenon DEF TypeOK, FreeLink, FreeRetry
<1>7. \A u \in Threads : Popped(u)' = Popped(u) /\ Incoming(u)' = Incoming(u)
  BY <1>1, Zenon DEF Popped, Incoming
<1>8. OnePlace'
  BY <1>1, <1>7, Zenon DEF OnePlace, NoDoubleAlloc
<1>9. ListIntact' /\ \A u \in Threads : u # t => CallOK(u)'
  <2>1. last \in Incoming(t)
    BY <1>1, <1>4, Zenon DEF Incoming
  <2>2. last \notin Range(stack) /\ \A u \in Threads : u # t => last \notin Incoming(u)
    BY <2>1, Zenon DEF OnePlace
  <2>3. \A x \in Range(stack) : x \in Nodes
    BY DEF TypeOK, Range
  <2>4. \A u \in Threads : \A x \in Incoming(u) : x \in Nodes
    <3>1. ASSUME NEW s \in Seq(Nodes), NEW x \in Range(s) PROVE x \in Nodes
      BY DEF Range
    <3> QED BY <3>1, Zenon DEF TypeOK, Incoming
  <2>5. \A x \in Range(stack) : next'[x] = next[x]
    BY <2>2, <2>3, <1>5, Zenon
  <2>6. \A u \in Threads : u # t => \A x \in Incoming(u) : next'[x] = next[x]
    BY <2>2, <2>4, <1>5, Zenon
  <2> QED BY <2>5, <2>6, <1>1, PrivateLinks, Zenon
<1>10. CallOK(t)'
  <2>1. \A i \in 1 .. Len(b) - 1 : b[i] # last /\ b[i] \in Nodes
    BY <1>2, <1>3 DEF Chain
  <2>2. Chain(b)'
    BY <2>1, <1>1, <1>2, <1>5, Zenon DEF Chain
  <2>3. pc'[t] = "push" => next'[last] = h'[t]
    BY <1>4, Zenon DEF FreeLink, FreeRetry, TypeOK
  <2> QED BY <2>2, <2>3, <1>1, Zenon DEF CallOK
<1>11. CallsInv'
  BY <1>9, <1>10, Zenon DEF CallsInv, CallOK
<1> QED BY <1>6, <1>8, <1>9, <1>11, Zenon

\* The compare-and-swap that puts the batch in front of the list.
LEMMA FreePushStep ==
  ASSUME IndInv, NEW t \in Threads, FreePush(t)
  PROVE  IndInv'
<1> USE DEF IndInv
<1> DEFINE b == batch[t]
           c == b \o stack
<1>1. /\ pc[t] = "push" /\ head = h[t] /\ head' = b[1] /\ stack' = c
      /\ pc' = [pc EXCEPT ![t] = "pushed"]
      /\ UNCHANGED <<next, alloc_count, free_count, h, nx, batch, owned>>
  BY Zenon DEF FreePush, PushWins
<1>2. /\ pc'[t] = "pushed"
      /\ \A u \in Threads : u # t => pc'[u] = pc[u]
  BY <1>1, Zenon DEF TypeOK
<1>3. /\ b \in Seq(Nodes) /\ stack \in Seq(Nodes) /\ Chain(b)
      /\ next[b[Len(b)]] = head
  BY <1>1, Zenon DEF TypeOK, CallsInv
<1>4. Len(b) \in Nat \ {0} /\ Len(stack) \in Nat
  BY <1>3, SeqEmpty, SeqLen, Zenon DEF Chain
<1>5. /\ c \in Seq(Nodes) /\ Len(c) = Len(b) + Len(stack)
      /\ \A i \in 1 .. Len(b) : c[i] = b[i]
      /\ \A i \in 1 .. Len(stack) : c[Len(b) + i] = stack[i]
      /\ \A x : x \in Range(c) <=> x \in Range(b) \/ x \in Range(stack)
  BY <1>3, PushList, Zenon
<1>6. /\ Popped(t)' = {} /\ Popped(t) = {} /\ Incoming(t)' = {} /\ Incoming(t) = Range(b)
      /\ \A u \in Threads : u # t => Popped(u)' = Popped(u) /\ Incoming(u)' = Incoming(u)
  BY <1>1, <1>2, Zenon DEF Popped, Incoming
<1>7. Range(b) \cap Range(stack) = {}
  BY <1>6 DEF OnePlace
<1> HIDE DEF b, c
<1>8. TypeOK'
  <2>1. b[1] \in Nodes
    BY <1>3, <1>4
  <2> QED BY <2>1, <1>1, <1>5, Zenon DEF TypeOK
<1>9. ListIntact'
  <2>1. ASSUME NEW i \in 1 .. Len(c)
        PROVE  \/ i \in 1 .. Len(b) /\ c[i] = b[i] /\ b[i] \in Range(b)
               \/ /\ i - Len(b) \in 1 .. Len(stack) /\ c[i] = stack[i - Len(b)]
                  /\ stack[i - Len(b)] \in Range(stack)
    <3>1. CASE i <= Len(b)
      BY <3>1, <1>3, <1>4, <1>5, RangeMember
    <3>2. CASE i > Len(b)
      <4>1. i - Len(b) \in 1 .. Len(stack) /\ Len(b) + (i - Len(b)) = i
        BY <3>2, <1>4, <1>5
      <4>2. c[i] = stack[i - Len(b)]
        BY <4>1, <1>5, Zenon
      <4> QED BY <4>1, <4>2, <1>3, RangeMember, Zenon
    <3> QED BY <3>1, <3>2, <1>4
  <2>2. \A i, j \in 1 .. Len(c) : c[i] = c[j] => i = j
    <3> SUFFICES ASSUME NEW i \in 1 .. Len(c), NEW j \in 1 .. Len(c), c[i] = c[j]
                 PROVE  i = j
      BY Zenon
    <3>1. CASE i \in 1 .. Len(b) /\ j \in 1 .. Len(b)
      BY <3>1, <1>3, <1>5, Zenon DEF Chain
    <3>2. CASE i - Len(b) \in 1 .. Len(stack) /\ j - Len(b) \in 1 .. Len(stack)
      <4>1. stack[i - Len(b)] = stack[j - Len(b)]
        BY <3>2, <2>1, <1>4
      <4>2. i - Len(b) = j - Len(b)
        BY <4>1, <3>2, Zenon DEF ListIntact
      <4> QED BY <4>2, <1>4
    <3>3. ~ (c[i] \in Range(b) /\ c[j] \in Range(stack))
      BY <1>7, Zenon
    <3>4. ~ (c[j] \in Range(b) /\ c[i] \in Range(stack))
      BY <1>7, Zenon
    <3> QED BY <2>1, <3>1, <3>2, <3>3, <3>4, Zenon
  <2>3. c # << >> /\ head' = c[1]
    BY <1>1, <1>4, <1>5, SeqEmpty
  <2>4. ASSUME NEW i \in 1 .. Len(c)
        PROVE  next[c[i]] = IF i = Len(c) THEN NULL ELSE c[i + 1]
    <3>1. CASE i < Len(b)
      <4>1. c[i] = b[i] /\ c[i + 1] = b[i + 1] /\ next[b[i]] = b[i + 1] /\ i # Len(c)
        BY <3>1, <1>3, <1>4, <1>5 DEF Chain
      <4> QED BY <4>1, Zenon
    <3>2. CASE i = Len(b)
      <4>1. c[i] = b[i] /\ next[c[i]] = head
        BY <3>2, <1>3, <1>4, <1>5
      <4>2. CASE stack = << >>
        BY <4>1, <4>2, <3>2, <1>4, <1>5, SeqEmpty DEF ListIntact
      <4>3. CASE stack # << >>
        <5>1. Len(stack) \in Nat \ {0} /\ 1 \in 1 .. Len(stack)
          BY <4>3, <1>3, SeqEmpty
        <5>2. c[i + 1] = stack[1]
          BY <5>1, <3>2, <1>5, Zenon
        <5> QED BY <5>1, <5>2, <4>1, <4>3, <3>2, <1>4, <1>5 DEF ListIntact
      <4> QED BY <4>2, <4>3, Zenon
    <3>3. CASE i > Len(b)
      <4> DEFINE k == i - Len(b)
      <4>1. k \in 1 .. Len(stack) /\ i = Len(b) + k /\ (i = Len(c) <=> k = Len(stack))
        BY <3>3, <1>4, <1>5
      <4>2. k # Len(stack) => k + 1 \in 1 .. Len(stack) /\ i + 1 = Len(b) + (k + 1)
        BY <4>1, <1>4
      <4> HIDE DEF k
      <4>3. c[i] = stack[k] /\ (k # Len(stack) => c[i + 1] = stack[k + 1])
        BY <4>1, <4>2, <1>5, Zenon
      <4>4. next[stack[k]] = IF k = Len(stack) THEN NULL ELSE stack[k + 1]
        BY <4>1, Zenon DEF ListIntact
      <4> QED BY <4>1, <4>3, <4>4, Zenon
    <3> QED BY <3>1, <3>2, <3>3, <1>4
  <2> QED BY <2>2, <2>3, <2>4, <1>1, Zenon DEF ListIntact
<1>10. OnePlace'
  <2>1. NoDoubleAlloc'
    BY <1>1, <1>6, Zenon DEF OnePlace, NoDoubleAlloc
  <2>2. owned \cap Range(c) = {}
    BY <1>5, <1>6 DEF OnePlace
  <2>3. ASSUME NEW u \in Threads
        PROVE  /\ (Popped(u)' \cup Incoming(u)') \cap (Range(c) \cup owned) = {}
               /\ \A v \in Threads : v # u => Incoming(u)' \cap Incoming(v)' = {}
    <3>1. u # t => Popped(u) \cap Range(b) = {}
      BY <1>6 DEF OnePlace, NoDoubleAlloc
    <3> QED BY <3>1, <1>5, <1>6 DEF OnePlace
  <2>4. \A x \in Nodes \ (owned \cup Range(c)) :
          \E u \in Threads : x \in Popped(u)' \cup Incoming(u)'
    BY <1>5, <1>6 DEF OnePlace
  <2> QED BY <2>1, <2>2, <2>3, <2>4, <1>1, Zenon DEF OnePlace
<1>11. CallsInv'
  <2>1. \A u \in Threads : h[u] \in Range(stack) => h[u] \in Range(c)
    BY <1>5, Zenon
  <2>2. \A u \in Threads : Chain(batch[u])' <=> Chain(batch[u])
    BY <1>1, Zenon DEF Chain
  <2> SUFFICES ASSUME NEW u \in Threads
               PROVE  /\ pc'[u] \in {"reload", "next", "pop", "popped"} => u \in Allocators
                      /\ pc'[u] \in {"next", "pop"} => h[u] \in Range(c)
                      /\ pc'[u] = "pop" => nx[u] = next[h[u]]
                      /\ pc'[u] = "popped" => h[u] \in Nodes
                      /\ pc'[u] \in Moving => Chain(batch[u])
                      /\ pc'[u] = "push" => next[batch[u][Len(batch[u])]] = h[u]
    BY <2>2, <1>1, Zenon DEF CallsInv
  <2>3. CASE u # t
    BY <2>1, <2>3, <1>2, Zenon DEF CallsInv
  <2>4. CASE u = t
    BY <2>4, <1>2, Zenon
  <2> QED BY <2>3, <2>4, Zenon
<1> QED BY <1>8, <1>9, <1>10, <1>11, Zenon

\* The call forgets the batch it has published.
LEMMA FreeReturnStep ==
  ASSUME IndInv, NEW t \in Threads, FreeReturn(t)
  PROVE  IndInv'
<1> USE DEF IndInv
<1>1. /\ pc[t] = "pushed" /\ pc'[t] = "idle"
      /\ free_count' = (free_count + Len(batch[t])) % CountMod
      /\ batch' = [batch EXCEPT ![t] = << >>]
      /\ \A u \in Threads : u # t => pc'[u] = pc[u] /\ batch'[u] = batch[u]
      /\ UNCHANGED <<head, next, alloc_count, h, nx, owned, stack>>
  BY Zenon DEF TypeOK, FreeReturn
<1>2. TypeOK'
  <2>1. Len(batch[t]) \in Nat /\ << >> \in Seq(Nodes)
    BY SeqLen, SeqEmpty, Zenon DEF TypeOK
  <2>2. free_count' \in 0 .. CountMod - 1
    BY <1>1, <2>1, PoolAssumption DEF TypeOK
  <2> QED BY <1>1, <2>1, <2>2, Zenon DEF TypeOK, FreeReturn
<1>3. ListIntact'
  BY <1>1, Zenon DEF ListIntact
<1>4. \A u \in Threads : Popped(u)' = Popped(u) /\ Incoming(u)' = Incoming(u)
  BY <1>1 DEF Popped, Incoming
<1>5. OnePlace'
  BY <1>1, <1>4 DEF OnePlace, NoDoubleAlloc
<1>6. CallsInv'
  <2>1. ASSUME NEW u \in Threads, u # t
        PROVE  Chain(batch[u])' <=> Chain(batch[u])
    <3>1. batch'[u] = batch[u] /\ next' = next
      BY <2>1, <1>1, Zenon
    <3> QED BY <3>1, Zenon DEF Chain
  <2> SUFFICES ASSUME NEW u \in Threads
               PROVE  /\ pc'[u] \in {"reload", "next", "pop", "popped"} => u \in Allocators
                      /\ pc'[u] \in {"next", "pop"} => h'[u] \in Range(stack')
                      /\ pc'[u] = "pop" => nx'[u] = next'[h'[u]]
                      /\ pc'[u] = "popped" => h'[u] \in Nodes
                      /\ pc'[u] \in Moving => Chain(batch[u])'
                      /\ pc'[u] = "push" => next'[batch'[u][Len(batch'[u])]] = h'[u]
    BY Zenon DEF CallsInv
  <2>2. CASE u # t
    <3>1. pc'[u] = pc[u] /\ batch'[u] = batch[u] /\ UNCHANGED <<h, nx, stack, next>>
      BY <1>1, <2>2, Zenon
    <3> QED BY <2>1, <2>2, <3>1, Zenon DEF CallsInv
  <2>3. CASE u = t
    BY <2>3, <1>1, Zenon
  <2> QED BY <2>2, <2>3, Zenon
<1> QED BY <1>2, <1>3, <1>5, <1>6, Zenon
-------------------------------------------------------------------------------
\* The inductive invariant holds in every reachable state of the pool when one
\* thread allocates, whatever the number of threads that return objects.
THEOREM PoolInvariant ==
  ASSUME OneAllocator
  PROVE  Spec => []IndInv
<1>1. Init => IndInv
  <2> SUFFICES ASSUME Init PROVE IndInv
    BY Zenon
  <2>1. TypeOK
    BY PoolAssumption, SeqEmpty DEF Init, TypeOK
  <2>2. stack = << >> /\ Len(stack) = 0 /\ Range(stack) = {}
    BY DEF Init, Range
  <2>3. ListIntact
    BY <2>2 DEF Init, ListIntact
  <2>4. OnePlace
    BY <2>2, Zenon DEF Init, OnePlace, NoDoubleAlloc, Popped, Incoming
  <2>5. CallsInv
    BY Zenon DEF Init, CallsInv
  <2> QED BY <2>1, <2>3, <2>4, <2>5, Zenon DEF IndInv
<1>2. IndInv /\ [Next]_vars => IndInv'
  <2> SUFFICES ASSUME IndInv, [Next]_vars PROVE IndInv'
    BY Zenon
  <2>1. ASSUME NEW t \in Allocators, Alloc(t) PROVE IndInv'
    BY <2>1, AllocLookStep, AllocPopStep, AllocReturnStep, Zenon DEF Alloc
  <2>2. ASSUME NEW t \in Threads, Free(t) PROVE IndInv'
    BY <2>2, FreeOneStep, FreeBulkStep, FreeLinkStep, FreePushStep, FreeReturnStep, Zenon DEF Free
  <2>3. CASE UNCHANGED vars
    <3>1. UNCHANGED <<head, next, alloc_count, free_count, pc, h, nx, batch, owned, stack>>
      BY <2>3, Zenon DEF vars
    <3>2. TypeOK' /\ ListIntact'
      BY <3>1, Zenon DEF IndInv, TypeOK, ListIntact
    <3>3. \A u \in Threads : Popped(u)' = Popped(u) /\ Incoming(u)' = Incoming(u)
      BY <3>1, Zenon DEF Popped, Incoming
    <3>4. OnePlace'
      BY <3>1, <3>3, Zenon DEF IndInv, OnePlace, NoDoubleAlloc
    <3>5. \A u \in Threads : Chain(batch[u])' <=> Chain(batch[u])
      BY <3>1, Zenon DEF Chain
    <3>6. CallsInv'
      BY <3>1, <3>5, Zenon DEF IndInv, CallsInv
    <3> QED BY <3>2, <3>4, <3>6, Zenon DEF IndInv
  <2> QED BY <2>1, <2>2, <2>3, Zenon DEF Next
<1> QED BY <1>1, <1>2, PTL DEF Spec

\* The list spelt out by head and the links is the list of the objects pushed
\* and not yet popped, with one thread in bt_lfpool_alloc.
THEOREM ListCorrect ==
  ASSUME OneAllocator
  PROVE  Spec => []ListIntact
<1>1. IndInv => ListIntact
  BY Zenon DEF IndInv
<1> QED BY <1>1, PoolInvariant, PTL

\* Every object is in exactly one place, with one thread in bt_lfpool_alloc: the
\* pool neither leaks an object nor gives one to two owners.
THEOREM PlacesCorrect ==
  ASSUME OneAllocator
  PROVE  Spec => []OnePlace
<1>1. IndInv => OnePlace
  BY Zenon DEF IndInv
<1> QED BY <1>1, PoolInvariant, PTL
-------------------------------------------------------------------------------
(* The statistics *)

\* Quotient and remainder.
LEMMA Divided ==
  ASSUME NEW m \in Nat \ {0}, NEW x \in Int
  PROVE  \E q \in Int : x = m * q + (x % m)
<1>1. x = m * (x \div m) + (x % m) /\ x \div m \in Int
  OBVIOUS
<1> QED BY <1>1, Zenon

\* Multiples of one number, added.
LEMMA MultiplesSum == \A m, q, k \in Int : m * q + m * k = m * (q + k) /\ q + k \in Int
OBVIOUS

\* Adding a multiple leaves the remainder.
LEMMA RemainderStays ==
  ASSUME NEW m \in Nat \ {0}, NEW x \in Int, x % m = 0, NEW k \in Int, NEW y, y = x + m * k
  PROVE  y % m = 0
<1>1. PICK q \in Int : x = m * q + (x % m)
  BY Divided, Zenon
<1>2. x = m * q
  <2>1. x = m * q + 0
    BY <1>1, Zenon
  <2>2. \A j \in Int : m * j + 0 = m * j
    OBVIOUS
  <2> QED BY <2>1, <2>2, Zenon
<1>3. \A j \in Int : (m * j) % m = 0
  OBVIOUS
<1> QED BY <1>2, <1>3, MultiplesSum

\* What wrapping takes away is a multiple.
LEMMA WrapIsMultiple ==
  ASSUME NEW m \in Nat \ {0}, NEW x \in Int
  PROVE  \E k \in Int : x % m = x + m * k
<1>1. PICK q \in Int : x = m * q + (x % m)
  BY Divided, Zenon
<1> DEFINE r == x % m
<1>2. r \in Int
  OBVIOUS
<1>3. x = m * q + r
  BY <1>1, Zenon
<1> HIDE DEF r
<1>4. r = x + m * (-q) /\ -q \in Int
  BY <1>2, <1>3
<1> QED BY <1>4, Zenon DEF r

\* Numbers a multiple apart have the same remainder.
LEMMA SameRemainder ==
  ASSUME NEW m \in Nat \ {0}, NEW z \in Int, NEW l \in Int, NEW x \in Int, z = x + l, x % m = 0
  PROVE  z % m = l % m
<1>1. PICK q \in Int : x = m * q + (x % m)
  BY Divided, Zenon
<1>2. x = m * q
  <2>1. x = m * q + 0
    BY <1>1, Zenon
  <2>2. \A j \in Int : m * j + 0 = m * j
    OBVIOUS
  <2> QED BY <2>1, <2>2, Zenon
<1>3. PICK p \in Int : l = m * p + (l % m)
  BY Divided, Zenon
<1>4. l % m \in 0 .. m - 1
  OBVIOUS
<1>5. PICK r \in 0 .. m - 1 : r = l % m
  BY <1>4, Zenon
<1>6. l = m * p + r
  BY <1>3, <1>5, Zenon
<1>7. \A j \in Int : (m * j + r) % m = r
  OBVIOUS
<1>8. m * p \in Int /\ m * q \in Int
  OBVIOUS
<1>9. PICK u \in Int, v \in Int : u = m * p /\ v = m * q
  BY <1>8, Zenon
<1>10. z = v + u + r
  BY <1>2, <1>6, <1>9
<1>11. v + u = m * (q + p) /\ q + p \in Int
  BY <1>9, MultiplesSum
<1>12. z = m * (q + p) + r
  BY <1>10, <1>11, Zenon
<1>13. (m * (q + p) + r) % m = r
  BY <1>7, <1>11, Zenon
<1> QED BY <1>5, <1>12, <1>13, Zenon

\* The objects that have been moved and not counted are finitely many, and the
\* statistics are behind by their number.
CountInv == IsFiniteSet(FreedUncounted) /\ CountersInStep

\* What the statistics, and the moves they are behind by, say the list holds.
Balance(f, c, a, p, l) == f + c - a - p - l

\* How far the statistics are from the list.
Behind == Balance(free_count, Cardinality(FreedUncounted), alloc_count, Cardinality(TakenUncounted), Len(stack))

\* The balance, as the step lemmas use it.
LEMMA CountIs == CountInv <=> IsFiniteSet(FreedUncounted) /\ Behind % CountMod = 0
BY Zenon DEF CountInv, CountersInStep, Behind, Balance

\* The distance, after a step.
LEMMA BehindNext ==
  Behind' = Balance(free_count', Cardinality(FreedUncounted'), alloc_count', Cardinality(TakenUncounted'), Len(stack'))
BY Zenon DEF Behind

\* The same, after a step.
LEMMA CountIsNext == CountInv' <=> IsFiniteSet(FreedUncounted') /\ Behind' % CountMod = 0
BY Zenon DEF CountInv, CountersInStep, Behind, Balance

\* The terms of the balance are numbers.
LEMMA BalanceTerms ==
  ASSUME TypeOK, CountInv
  PROVE  /\ Cardinality(FreedUncounted) \in Nat /\ Cardinality(TakenUncounted) \in Nat
         /\ Len(stack) \in Nat /\ free_count \in Nat /\ alloc_count \in Nat
         /\ IsFiniteSet(TakenUncounted) /\ CountMod \in Nat \ {0}
<1>1. IsFiniteSet(TakenUncounted)
  BY FS_Subset, PoolAssumption, Zenon DEF TakenUncounted
<1> QED BY <1>1, FS_CardinalityType, PoolAssumption DEF TypeOK, CountInv

\* What is uncounted, from thread to thread.
LEMMA FreedBy == \A x : x \in FreedUncounted <=> \E t \in Threads : x \in Uncounted(t)
BY Zenon DEF FreedUncounted

\* A step that neither moves an object into or out of the list nor counts.
LEMMA QuietCount ==
  ASSUME CountInv, NEW t \in Threads, pc[t] \notin {"popped", "pushed"}, pc'[t] \notin {"popped", "pushed"},
         \A u \in Threads : u # t => pc'[u] = pc[u] /\ batch'[u] = batch[u],
         UNCHANGED <<free_count, alloc_count, stack>>
  PROVE  CountInv'
<1>1. TakenUncounted' = TakenUncounted
  BY Zenon DEF TakenUncounted
<1>2. \A u \in Threads : Uncounted(u)' = Uncounted(u)
  BY Zenon DEF Uncounted
<1>3. FreedUncounted' = FreedUncounted
  BY <1>2, Zenon DEF FreedUncounted
<1> QED BY <1>1, <1>3, Zenon DEF CountInv, CountersInStep

\* The compare-and-swap of bt_lfpool_alloc: one object less in the list, one more
\* call that has to count it.
LEMMA PopCount ==
  ASSUME IndInv, CountInv, NEW t \in Threads, AllocPop(t)
  PROVE  CountInv'
<1>1. /\ pc[t] = "pop" /\ pc'[t] = "popped" /\ \A u \in Threads : u # t => pc'[u] = pc[u]
      /\ UNCHANGED <<free_count, alloc_count, batch>> /\ stack' = SubSeq(stack, 2, Len(stack))
  BY Zenon DEF IndInv, TypeOK, AllocPop
<1>2. Len(stack') = Len(stack) - 1
  <2>1. h[t] \in Range(stack) /\ stack \in Seq(Nodes)
    BY <1>1, Zenon DEF IndInv, CallsInv, TypeOK
  <2>2. stack # << >>
    BY <2>1, RangeMember
  <2> QED BY <1>1, <2>1, <2>2, PopList DEF IndInv, ListIntact
<1>3. FreedUncounted' = FreedUncounted
  <2>1. \A u \in Threads : Uncounted(u)' = Uncounted(u)
    BY <1>1, Zenon DEF Uncounted
  <2> QED BY <2>1, Zenon DEF FreedUncounted
<1>4. TakenUncounted' = TakenUncounted \cup {t} /\ t \notin TakenUncounted
  BY <1>1, Zenon DEF TakenUncounted
<1>5. /\ Cardinality(FreedUncounted) \in Nat /\ Cardinality(TakenUncounted) \in Nat
      /\ Len(stack) \in Nat /\ free_count \in Nat /\ alloc_count \in Nat
      /\ IsFiniteSet(TakenUncounted)
  BY BalanceTerms, Zenon DEF IndInv
<1>6. Cardinality(TakenUncounted') = Cardinality(TakenUncounted) + 1
  BY <1>4, <1>5, FS_AddElement, Zenon
<1>7. Behind' = Behind
  <2>1. PICK f \in Nat, c \in Nat, a \in Nat, p \in Nat, l \in Nat :
          /\ f = free_count /\ c = Cardinality(FreedUncounted) /\ a = alloc_count
          /\ p = Cardinality(TakenUncounted) /\ l = Len(stack)
    BY <1>5, Zenon
  <2>2. Behind' = Balance(f, c, a, p + 1, l - 1)
    BY <1>1, <1>2, <1>3, <1>6, <2>1, BehindNext, Zenon
  <2>3. Balance(f, c, a, p + 1, l - 1) = Balance(f, c, a, p, l)
    BY DEF Balance
  <2> QED BY <2>1, <2>2, <2>3, Zenon DEF Behind
<1> QED BY <1>3, <1>7, CountIs, CountIsNext, Zenon

\* bt_lfpool_alloc counts the object it has taken.
LEMMA ReturnCount ==
  ASSUME IndInv, CountInv, NEW t \in Threads, AllocReturn(t)
  PROVE  CountInv'
<1>1. /\ pc[t] = "popped" /\ pc'[t] = "idle" /\ \A u \in Threads : u # t => pc'[u] = pc[u]
      /\ UNCHANGED <<free_count, batch, stack>> /\ alloc_count' = (alloc_count + 1) % CountMod
  BY Zenon DEF IndInv, TypeOK, AllocReturn
<1>2. FreedUncounted' = FreedUncounted
  <2>1. \A u \in Threads : Uncounted(u)' = Uncounted(u)
    BY <1>1, Zenon DEF Uncounted
  <2> QED BY <2>1, Zenon DEF FreedUncounted
<1>3. TakenUncounted' = TakenUncounted \ {t} /\ t \in TakenUncounted
  BY <1>1, Zenon DEF TakenUncounted
<1>4. /\ Cardinality(FreedUncounted) \in Nat /\ Cardinality(TakenUncounted) \in Nat
      /\ Len(stack) \in Nat /\ free_count \in Nat /\ alloc_count \in Nat
      /\ IsFiniteSet(TakenUncounted) /\ CountMod \in Nat \ {0}
  BY BalanceTerms, Zenon DEF IndInv
<1>5. Cardinality(TakenUncounted') = Cardinality(TakenUncounted) - 1
  BY <1>3, <1>4, FS_RemoveElement, Zenon
<1>6. PICK k \in Int : alloc_count' = alloc_count + 1 + CountMod * k
  <2>1. alloc_count + 1 \in Int
    BY <1>4
  <2> QED BY <1>1, <1>4, <2>1, WrapIsMultiple, Zenon
<1>7. PICK w \in Int : w = CountMod * k
  BY <1>4
<1>9. Behind' = Behind - w
  <2>1. PICK f \in Nat, c \in Nat, a \in Nat, p \in Nat, l \in Nat :
          /\ f = free_count /\ c = Cardinality(FreedUncounted) /\ a = alloc_count
          /\ p = Cardinality(TakenUncounted) /\ l = Len(stack)
    BY <1>4, Zenon
  <2>2. Behind' = Balance(f, c, a + 1 + w, p - 1, l)
    BY <1>1, <1>2, <1>5, <1>6, <1>7, <2>1, BehindNext, Zenon
  <2>3. Balance(f, c, a + 1 + w, p - 1, l) = Balance(f, c, a, p, l) - w
    BY <1>7 DEF Balance
  <2> QED BY <2>1, <2>2, <2>3, Zenon DEF Behind
<1>10. Behind \in Int
  BY <1>4 DEF Behind, Balance
<1>11. PICK x \in Int : x = Behind
  BY <1>10, Zenon
<1>12. x - w = x + CountMod * (-k) /\ -k \in Int
  BY <1>4, <1>7
<1>13. (x - w) % CountMod = 0
  BY <1>4, <1>11, <1>12, CountIs, RemainderStays, Zenon
<1> QED BY <1>2, <1>9, <1>11, <1>13, CountIs, CountIsNext, Zenon

\* An array of n objects is n places.
LEMMA Places ==
  ASSUME NEW t, NEW n \in Nat
  PROVE  IsFiniteSet({t} \X (1 .. n)) /\ Cardinality({t} \X (1 .. n)) = n
<1>1. IsFiniteSet({t}) /\ Cardinality({t}) = 1
  BY FS_Singleton, Zenon
<1>2. IsFiniteSet(1 .. n) /\ Cardinality(1 .. n) = n
  BY FS_Interval
<1>3. IsFiniteSet({t} \X (1 .. n)) /\ Cardinality({t} \X (1 .. n)) = Cardinality({t}) * Cardinality(1 .. n)
  BY <1>1, <1>2, FS_Product, Zenon
<1>4. 1 * n = n
  OBVIOUS
<1> QED BY <1>1, <1>2, <1>3, <1>4, Zenon

\* The compare-and-swap of bt_lfpool_free: the array is in the list, not yet counted.
LEMMA PushCount ==
  ASSUME IndInv, CountInv, NEW t \in Threads, FreePush(t)
  PROVE  CountInv'
<1> DEFINE n == Len(batch[t])
           P == {t} \X (1 .. n)
<1>1. /\ pc[t] = "push" /\ pc'[t] = "pushed" /\ \A u \in Threads : u # t => pc'[u] = pc[u]
      /\ UNCHANGED <<free_count, alloc_count, batch>> /\ stack' = batch[t] \o stack
      /\ batch[t] \in Seq(Nodes) /\ stack \in Seq(Nodes) /\ n \in Nat
  BY DEF IndInv, TypeOK, FreePush
<1>2. Len(stack') = n + Len(stack)
  BY <1>1
<1>3. TakenUncounted' = TakenUncounted
  BY <1>1, Zenon DEF TakenUncounted
<1>4. FreedUncounted' = FreedUncounted \cup P /\ FreedUncounted \cap P = {}
  <2>1. \A u \in Threads : u # t => Uncounted(u)' = Uncounted(u)
    BY <1>1, Zenon DEF Uncounted
  <2>2. Uncounted(t)' = P /\ Uncounted(t) = {}
    BY <1>1, Zenon DEF Uncounted
  <2>3. \A u \in Threads : u # t => Uncounted(u) \cap P = {}
    BY Zenon DEF Uncounted
  <2>4. \A x : x \in FreedUncounted' <=> \E u \in Threads : x \in Uncounted(u)'
    BY Zenon DEF FreedUncounted
  <2> HIDE DEF P
  <2> QED BY <2>1, <2>2, <2>3, <2>4, FreedBy
<1>5. IsFiniteSet(P) /\ Cardinality(P) = n
  BY <1>1, Places, Zenon
<1>6. /\ Cardinality(FreedUncounted) \in Nat /\ Cardinality(TakenUncounted) \in Nat
      /\ Len(stack) \in Nat /\ free_count \in Nat /\ alloc_count \in Nat /\ IsFiniteSet(FreedUncounted)
  BY BalanceTerms, Zenon DEF IndInv, CountInv
<1> HIDE DEF P
<1>7. IsFiniteSet(FreedUncounted') /\ Cardinality(FreedUncounted') = Cardinality(FreedUncounted) + n
  <2>1. Cardinality({}) = 0
    BY FS_EmptySet, Zenon
  <2>2. /\ IsFiniteSet(FreedUncounted \cup P)
        /\ Cardinality(FreedUncounted \cup P)
             = Cardinality(FreedUncounted) + Cardinality(P) - Cardinality(FreedUncounted \cap P)
    BY <1>5, <1>6, FS_Union, Zenon
  <2>3. \A c, k \in Nat : c + k - 0 = c + k
    OBVIOUS
  <2>4. Cardinality(FreedUncounted \cup P) = Cardinality(FreedUncounted) + n - 0
    BY <2>1, <2>2, <1>4, <1>5, Zenon
  <2> HIDE DEF n
  <2> QED BY <2>2, <2>3, <2>4, <1>1, <1>4, <1>6
<1> HIDE DEF n
<1>8. \A f, c, a, p, l, k \in Nat : \A d, m \in Int :
        d = c + k /\ m = k + l => Balance(f, d, a, p, m) = Balance(f, c, a, p, l)
  BY DEF Balance
<1>9. Behind' = Behind
  <2>1. PICK c \in Nat, l \in Nat : c = Cardinality(FreedUncounted) /\ l = Len(stack)
    BY <1>6, Zenon
  <2>2. Behind' = Balance(free_count, c + n, alloc_count, Cardinality(TakenUncounted), n + l)
    BY <1>1, <1>2, <1>3, <1>7, <2>1, BehindNext, Zenon
  <2>3. c + n \in Int /\ n + l \in Int
    BY <1>1, <2>1
  <2>4. Balance(free_count, c + n, alloc_count, Cardinality(TakenUncounted), n + l)
          = Balance(free_count, c, alloc_count, Cardinality(TakenUncounted), l)
    <3>1. PICK p \in Nat : p = Cardinality(TakenUncounted)
      BY <1>6, Zenon
    <3>2. Balance(free_count, c + n, alloc_count, p, n + l) = Balance(free_count, c, alloc_count, p, l)
      <4>1. free_count \in Nat /\ alloc_count \in Nat /\ n \in Nat /\ c \in Nat /\ l \in Nat
        BY <1>1, <1>6, <2>1, Zenon
      <4> QED BY <4>1 DEF Balance
    <3> QED BY <3>1, <3>2, Zenon
  <2> QED BY <2>1, <2>2, <2>4, Zenon DEF Behind
<1> QED BY <1>7, <1>9, CountIs, CountIsNext, Zenon

\* bt_lfpool_free and bt_lfpool_bulk_free count what they have returned.
LEMMA FreeCount ==
  ASSUME IndInv, CountInv, NEW t \in Threads, FreeReturn(t)
  PROVE  CountInv'
<1> DEFINE n == Len(batch[t])
           P == {t} \X (1 .. n)
<1>1. /\ pc[t] = "pushed" /\ pc'[t] = "idle"
      /\ \A u \in Threads : u # t => pc'[u] = pc[u] /\ batch'[u] = batch[u]
      /\ UNCHANGED <<alloc_count, stack>> /\ free_count' = (free_count + n) % CountMod
      /\ batch[t] \in Seq(Nodes) /\ n \in Nat
  BY DEF IndInv, TypeOK, FreeReturn
<1>2. TakenUncounted' = TakenUncounted
  BY <1>1, Zenon DEF TakenUncounted
<1>3. FreedUncounted = FreedUncounted' \cup P /\ FreedUncounted' \cap P = {}
  <2>1. \A u \in Threads : u # t => Uncounted(u)' = Uncounted(u)
    BY <1>1, Zenon DEF Uncounted
  <2>2. Uncounted(t) = P /\ Uncounted(t)' = {}
    BY <1>1, Zenon DEF Uncounted
  <2>3. \A u \in Threads : u # t => Uncounted(u) \cap P = {}
    BY Zenon DEF Uncounted
  <2>4. \A x : x \in FreedUncounted' <=> \E u \in Threads : x \in Uncounted(u)'
    BY Zenon DEF FreedUncounted
  <2> HIDE DEF P
  <2> QED BY <2>1, <2>2, <2>3, <2>4, FreedBy
<1>4. IsFiniteSet(P) /\ Cardinality(P) = n
  BY <1>1, Places, Zenon
<1>5. /\ Cardinality(FreedUncounted) \in Nat /\ Cardinality(TakenUncounted) \in Nat
      /\ Len(stack) \in Nat /\ free_count \in Nat /\ alloc_count \in Nat /\ IsFiniteSet(FreedUncounted)
      /\ CountMod \in Nat \ {0}
  BY BalanceTerms, Zenon DEF IndInv, CountInv
<1> HIDE DEF P
<1>6. IsFiniteSet(FreedUncounted') /\ Cardinality(FreedUncounted') \in Nat
  BY <1>3, <1>5, FS_Subset, FS_CardinalityType
<1>7. Cardinality(FreedUncounted) = Cardinality(FreedUncounted') + n
  <2>1. Cardinality({}) = 0
    BY FS_EmptySet, Zenon
  <2>2. Cardinality(FreedUncounted' \cup P)
          = Cardinality(FreedUncounted') + Cardinality(P) - Cardinality(FreedUncounted' \cap P)
    BY <1>4, <1>6, FS_Union, Zenon
  <2>3. \A c, k \in Nat : c + k - 0 = c + k
    OBVIOUS
  <2> QED BY <2>1, <2>2, <2>3, <1>1, <1>3, <1>4, <1>6, Zenon
<1>8. PICK k \in Int : free_count' = free_count + n + CountMod * k
  <2>1. free_count + n \in Int
    BY <1>1, <1>5
  <2> QED BY <1>1, <1>5, <2>1, WrapIsMultiple, Zenon
<1> HIDE DEF n
<1>9. PICK w \in Int : w = CountMod * k
  BY <1>5
<1>10. Behind' = Behind + w
  <2>1. PICK c \in Nat, f \in Nat : c = Cardinality(FreedUncounted') /\ f = free_count
    BY <1>5, <1>6, Zenon
  <2>2. Behind' = Balance(f + n + w, c, alloc_count, Cardinality(TakenUncounted), Len(stack))
    BY <1>1, <1>2, <1>8, <1>9, <2>1, BehindNext, Zenon
  <2>3. Behind = Balance(f, c + n, alloc_count, Cardinality(TakenUncounted), Len(stack))
    BY <1>7, <2>1, Zenon DEF Behind
  <2>4. Balance(f + n + w, c, alloc_count, Cardinality(TakenUncounted), Len(stack))
          = Balance(f, c + n, alloc_count, Cardinality(TakenUncounted), Len(stack)) + w
    <3>1. PICK a \in Nat, p \in Nat, l \in Nat, j \in Nat :
            a = alloc_count /\ p = Cardinality(TakenUncounted) /\ l = Len(stack) /\ j = n
      BY <1>1, <1>5, Zenon
    <3>2. Balance(f + j + w, c, a, p, l) = Balance(f, c + j, a, p, l) + w
      BY DEF Balance
    <3> QED BY <3>1, <3>2, Zenon
  <2> QED BY <2>2, <2>3, <2>4, Zenon
<1>11. Behind \in Int
  BY <1>5 DEF Behind, Balance
<1>12. PICK x \in Int : x = Behind
  BY <1>11, Zenon
<1>13. (x + w) % CountMod = 0
  BY <1>5, <1>9, <1>12, CountIs, RemainderStays, Zenon
<1> QED BY <1>6, <1>10, <1>12, <1>13, CountIs, CountIsNext, Zenon

\* The statistics and the list agree to the last object that has moved and is not
\* yet counted, whatever the interleaving and wherever the counters have wrapped;
\* with every call over they agree exactly (bt_lfpool_available).
THEOREM CountersCorrect ==
  ASSUME OneAllocator
  PROVE  Spec => []CountersAgree
<1>1. Init => CountInv
  <2> SUFFICES ASSUME Init PROVE CountInv
    BY Zenon
  <2>1. \A t \in Threads : Uncounted(t) = {}
    BY Zenon DEF Init, Uncounted
  <2>2. FreedUncounted = {} /\ TakenUncounted = {}
    BY <2>1, FreedBy, Zenon DEF Init, TakenUncounted
  <2>3. IsFiniteSet({}) /\ Cardinality({}) = 0
    BY FS_EmptySet, Zenon
  <2>4. free_count = 0 /\ alloc_count = 0 /\ Len(stack) = 0
    BY Zenon DEF Init
  <2>5. Behind = 0
    BY <2>2, <2>3, <2>4 DEF Behind, Balance
  <2>6. 0 % CountMod = 0
    BY PoolAssumption
  <2> QED BY <2>2, <2>3, <2>5, <2>6, CountIs, Zenon
<1>2. IndInv /\ CountInv /\ [Next]_vars => CountInv'
  <2> SUFFICES ASSUME IndInv, CountInv, [Next]_vars PROVE CountInv'
    BY Zenon
  <2>1. ASSUME NEW t \in Threads, Alloc(t) PROVE CountInv'
    <3>1. CASE AllocPop(t)
      BY <3>1, PopCount, Zenon
    <3>2. CASE AllocReturn(t)
      BY <3>2, ReturnCount, Zenon
    <3>3. CASE AllocEmpty(t) \/ AllocLoad(t) \/ AllocNext(t) \/ AllocRetry(t)
      <4>1. /\ pc[t] \notin {"popped", "pushed"} /\ pc'[t] \notin {"popped", "pushed"}
            /\ \A u \in Threads : u # t => pc'[u] = pc[u] /\ batch'[u] = batch[u]
            /\ UNCHANGED <<free_count, alloc_count, stack>>
        BY <3>3 DEF IndInv, TypeOK, AllocEmpty, AllocLoad, AllocNext, AllocRetry
      <4> QED BY <4>1, QuietCount, Zenon
    <3> QED BY <2>1, <3>1, <3>2, <3>3, Zenon DEF Alloc
  <2>2. ASSUME NEW t \in Threads, Free(t) PROVE CountInv'
    <3>1. CASE FreePush(t)
      BY <3>1, PushCount, Zenon
    <3>2. CASE FreeReturn(t)
      BY <3>2, FreeCount, Zenon
    <3>3. CASE FreeBegin(t) \/ BulkBegin(t) \/ FreeLink(t) \/ FreeRetry(t)
      <4>1. /\ pc[t] \notin {"popped", "pushed"} /\ pc'[t] \notin {"popped", "pushed"}
            /\ \A u \in Threads : u # t => pc'[u] = pc[u] /\ batch'[u] = batch[u]
            /\ UNCHANGED <<free_count, alloc_count, stack>>
        BY <3>3, Zenon DEF IndInv, TypeOK, FreeBegin, BulkBegin, FreeLink, FreeRetry
      <4> QED BY <4>1, QuietCount, Zenon
    <3> QED BY <2>2, <3>1, <3>2, <3>3, Zenon DEF Free
  <2>3. CASE UNCHANGED vars
    <3>1. UNCHANGED <<free_count, alloc_count, pc, batch, stack>>
      BY <2>3, Zenon DEF vars
    <3>2. TakenUncounted' = TakenUncounted /\ FreedUncounted' = FreedUncounted
      BY <3>1, Zenon DEF TakenUncounted, FreedUncounted, Uncounted
    <3> QED BY <3>1, <3>2, Zenon DEF CountInv, CountersInStep
  <2>4. Allocators \subseteq Threads
    BY PoolAssumption, Zenon
  <2> QED BY <2>1, <2>2, <2>3, <2>4, Zenon DEF Next
<1>3. IndInv /\ CountInv => CountersAgree
  <2> SUFFICES ASSUME IndInv, CountInv PROVE CountersAgree
    BY Zenon
  <2>1. CountersInStep
    BY Zenon DEF CountInv
  <2>2. ASSUME \A t \in Threads : pc[t] = "idle"
        PROVE  (free_count - alloc_count) % CountMod = Len(stack) % CountMod
    <3>1. \A t \in Threads : Uncounted(t) = {}
      BY <2>2, Zenon DEF Uncounted
    <3>2. FreedUncounted = {} /\ TakenUncounted = {}
      BY <2>2, <3>1, FreedBy, Zenon DEF TakenUncounted
    <3>3. Cardinality({}) = 0
      BY FS_EmptySet, Zenon
    <3>4. /\ Len(stack) \in Nat /\ free_count \in Nat /\ alloc_count \in Nat /\ CountMod \in Nat \ {0}
      BY BalanceTerms, Zenon DEF IndInv
    <3>5. (free_count - alloc_count - Len(stack)) % CountMod = 0
      <4>1. \A f, a, l \in Nat : f + 0 - a - 0 - l = f - a - l
        OBVIOUS
      <4> QED BY <2>1, <3>2, <3>3, <3>4, <4>1 DEF CountersInStep
    <3>6. free_count \in Int /\ alloc_count \in Int /\ Len(stack) \in Int
      BY <3>4
    <3>7. PICK f \in Int, a \in Int, l \in Int : f = free_count /\ a = alloc_count /\ l = Len(stack)
      BY <3>6, Zenon
    <3>8. f - a \in Int /\ f - a - l \in Int /\ f - a = (f - a - l) + l
      OBVIOUS
    <3>9. PICK z \in Int, x \in Int : z = f - a /\ x = f - a - l /\ z = x + l
      BY <3>8, Zenon
    <3>10. x % CountMod = 0
      BY <3>5, <3>7, <3>9, Zenon
    <3>11. z % CountMod = l % CountMod
      BY <3>4, <3>9, <3>10, SameRemainder, Zenon
    <3> QED BY <3>7, <3>9, <3>11, Zenon
  <2> QED BY <2>1, <2>2, Zenon DEF CountersAgree
<1> QED BY <1>1, <1>2, <1>3, PoolInvariant, PTL DEF Spec
===============================================================================
