------------------------------- MODULE MemoryTier -------------------------------
(***************************************************************************)
(* The three memory tiers (utils/memory_tier.c): HOT slabs chosen in turn, *)
(* a WARM bump region and the COLD heap, each falling back to the next.    *)
(* The HOT tier is composed with the slab allocator: its calls run step by *)
(* step.  A place is a pointer, told apart by where it points.  The memory *)
(* of both comes from utils/numa.c and may not be there.                   *)
(***************************************************************************)
EXTENDS SlabAllocator

CONSTANTS Line,          \* 64: the block size of a slab, the alignment of WARM
          WarmSize,      \* g_warm_size
          HotPerSlab,    \* hot_per_slab
          NumaPage,      \* 4096: the unit of bt_numa_alloc
          Sizes,         \* sizes asked for
          IntMax,        \* the largest int
          MaxCalls       \* bound: calls of bt_tier_alloc

ASSUME TierAssumption == /\ Slabs = 0 .. Cardinality(Slabs) - 1 /\ Line \in Nat \ {0}
                         /\ WarmSize \in Nat /\ WarmSize % Line = 0 /\ Sizes \subseteq Nat \ {0}
                         /\ HotPerSlab \in Nat /\ Cardinality(Blocks) = HotPerSlab \div Line
                         /\ NumaPage \in Nat \ {0} /\ {IntMax, MaxCalls} \subseteq Nat
                         /\ (IntMax + 1) % Cardinality(Slabs) = 0   \* 2^31 and 8

VARIABLES boot,                                 \* bt_tier_init: -1, then the part in turn
          hot_slabs, mem,                       \* its array, the bytes of each slab and of WARM
          wild,                                 \* a call has left the array of slabs
          hot_next, warm_offset, stats,         \* the globals
          heap,                                 \* blocks calloc has handed out
          tpc, call,                            \* per thread: step and arguments
          live,                                 \* allocations with their users
          calls                                 \* history: calls so far

tierVars == <<boot, hot_slabs, mem, wild>>
vars == <<slabVars, tierVars, hot_next, warm_offset, stats, heap, tpc, call, live, calls>>

NumHot == Cardinality(Slabs)    \* g_num_hot
WarmPool == NumHot              \* the part after the slabs in mem and boot
Parts == 0 .. WarmPool

Tiers == {"HOT", "WARM", "COLD"}
NoCall == [id |-> 0, tier |-> "COLD", size |-> 0, place |-> <<"NULL", 0, 0>>]

Aligned(size) == ((size + Line - 1) \div Line) * Line

\* before bt_tier_init
Init == /\ SlabZero /\ hot_next = 0
        /\ boot = -1 /\ hot_slabs = FALSE /\ wild = FALSE
        /\ mem = [x \in Parts |-> 0]
        /\ warm_offset = 0 /\ stats = [t \in Tiers |-> [allocs |-> 0, bytes |-> 0]]
        /\ heap = {} /\ live = {} /\ calls = 0
        /\ tpc = [t \in Threads |-> "idle"]
        /\ call = [t \in Threads |-> NoCall]
--------------------------------------------------------------------------------
(* bt_tier_init.  It returns at the first failure and undoes nothing: what it *)
(* has set up stays in use, the rest is zero.                                  *)

\* mutant: the length is rounded down
Paged_Down(size) == (size \div NumaPage) * NumaPage

\* the length bt_numa_alloc takes, on the node of the caller or by mmap
Paged(size) == ((size + NumaPage - 1) \div NumaPage) * NumaPage

\* what bt_numa_alloc_local may come back with for part x
NumaAllocLocal(x, size) == mem' \in {[mem EXCEPT ![x] = Paged(size)], mem}

Ready == boot = NumHot + 1

\* the array of slabs; without it every turn of HOT and every bt_tier_classify
\* reads through a null pointer, as g_num_hot is set before
InitArray == /\ boot = -1
             /\ \/ hot_slabs' = TRUE /\ boot' = 0
                \/ hot_slabs' = FALSE /\ boot' = NumHot + 1
             /\ UNCHANGED <<slabVars, mem, wild, hot_next, warm_offset, stats, heap, tpc, call, live,
                            calls>>

\* the memory of the next slab and bt_slab_init
InitSlab == /\ boot \in Slabs
            /\ NumaAllocLocal(boot, HotPerSlab)
            /\ IF mem'[boot] = 0 THEN boot' = NumHot + 1 /\ UNCHANGED slabVars
               ELSE /\ SlabInit(boot)
                    /\ boot' = boot + 1
            /\ UNCHANGED <<hot_slabs, wild, hot_next, warm_offset, stats, heap, tpc, call, live, calls>>

InitWarm == /\ boot = WarmPool
            /\ NumaAllocLocal(WarmPool, WarmSize)
            /\ boot' = NumHot + 1
            /\ UNCHANGED <<slabVars, hot_slabs, wild, hot_next, warm_offset, stats, heap, tpc, call,
                           live, calls>>
--------------------------------------------------------------------------------
(* bt_tier_alloc *)

Resting(t) == tpc[t] = "idle" /\ pc[t] = "idle"
May(t, step) == Ready /\ ~wild /\ tpc[t] = step

\* HOT is asked for by Allocators, and for no more than a block holds
Begin(t) == /\ May(t, "idle") /\ Resting(t) /\ calls < MaxCalls
            /\ \E tier \in Tiers, size \in Sizes :
                 /\ tier = "HOT" => t \in Allocators /\ size <= Line
                 /\ call' = [call EXCEPT ![t] = [NoCall EXCEPT !.id = calls + 1,
                                                               !.tier = tier, !.size = size]]
                 /\ tpc' = [tpc EXCEPT ![t] = tier]
            /\ calls' = calls + 1
            /\ UNCHANGED <<tierVars, slabVars, hot_next, warm_offset, stats, heap, live>>

\* the % of C: the result has the sign of the dividend
Rem(a, n) == IF a >= 0 THEN a % n ELSE -((-a) % n)

\* mutant: the remainder is one too large
Turn_OffByOne(n) == Rem(n, NumHot) + 1

\* which slab the value read from g_hot_next selects
Turn(n) == Rem(n, NumHot)

\* the fetch_add of g_hot_next, an int that wraps, and the call of bt_slab_alloc;
\* with an index outside of the array anything may happen next
Hot(t) == /\ May(t, "HOT")
          /\ hot_next' = IF hot_next = IntMax THEN -IntMax - 1 ELSE hot_next + 1
          /\ IF hot_slabs /\ Turn(hot_next) \in Slabs
             THEN AllocCall(t, Turn(hot_next)) /\ UNCHANGED wild
             ELSE wild' = TRUE /\ UNCHANGED slabVars
          /\ tpc' = [tpc EXCEPT ![t] = "slab"]
          /\ UNCHANGED <<boot, hot_slabs, mem, warm_offset, stats, heap, call, live, calls>>

SlabStep(t) == /\ Ready /\ ~wild /\ (Alloc(t) \/ Free(t))
               /\ UNCHANGED <<tierVars, hot_next, warm_offset, stats, heap, tpc, call, live, calls>>

\* bt_slab_alloc has returned a block, or NULL: on to WARM
SlabGot(t) == /\ May(t, "slab") /\ pc[t] = "got"
              /\ AllocDone(t)
              /\ call' = [call EXCEPT ![t].place = <<"HOT", at[t], old_head[t]>>]
              /\ tpc' = [tpc EXCEPT ![t] = "count"]
              /\ UNCHANGED <<tierVars, hot_next, warm_offset, stats, heap, live, calls>>

SlabNone(t) == /\ May(t, "slab") /\ pc[t] = "none"
               /\ AllocDone(t)
               /\ tpc' = [tpc EXCEPT ![t] = "WARM"]
               /\ UNCHANGED <<tierVars, hot_next, warm_offset, stats, heap, call, live, calls>>

\* mutant: the start of the block is compared with the end of the region
Fits_StartOnly(offset, size) == offset <= WarmSize

Fits(offset, size) == offset + Aligned(size) <= WarmSize

\* mutant: the offset moves down
Advance_Down(size) == -Aligned(size)

\* mutant: the offset moves by the size asked for
Advance_Unaligned(size) == size

\* what the fetch_add of g_warm_offset adds
Advance(size) == Aligned(size)

\* mutant: WARM counts the call before it knows that the block fits
Warm_CountEarly(t) ==
  /\ May(t, "WARM")
  /\ warm_offset' = warm_offset + Advance(call[t].size)
  /\ call' = [call EXCEPT ![t].place = <<"WARM", warm_offset, call[t].size>>]
  /\ IF mem[WarmPool] > 0 /\ Fits(warm_offset, call[t].size)
     THEN tpc' = [tpc EXCEPT ![t] = "count"] /\ UNCHANGED stats
     ELSE tpc' = [tpc EXCEPT ![t] = "COLD"] /\ stats' = [stats EXCEPT !["WARM"].allocs = @ + 1]
  /\ UNCHANGED <<slabVars, tierVars, hot_next, heap, live, calls>>

\* without a region, or past its end, on to COLD
Warm(t) == /\ May(t, "WARM")
           /\ IF mem[WarmPool] > 0
              THEN /\ warm_offset' = warm_offset + Advance(call[t].size)
                   /\ call' = [call EXCEPT ![t].place = <<"WARM", warm_offset, call[t].size>>]
                   /\ tpc' = [tpc EXCEPT ![t] = IF Fits(warm_offset, call[t].size) THEN "count" ELSE "COLD"]
              ELSE tpc' = [tpc EXCEPT ![t] = "COLD"] /\ UNCHANGED <<warm_offset, call>>
           /\ UNCHANGED <<slabVars, tierVars, hot_next, stats, heap, live, calls>>

Cold(t) == /\ May(t, "COLD")
           /\ call' = [call EXCEPT ![t].place = <<"COLD", call[t].id, call[t].size>>]
           /\ tpc' = [tpc EXCEPT ![t] = "count"]
           /\ UNCHANGED <<tierVars, slabVars, hot_next, warm_offset, stats, heap, live, calls>>

\* the two counters of the tier that served the call, then the return; a null
\* pointer from calloc was counted all the same
Count(t) == LET c == call[t] IN
            /\ May(t, "count")
            /\ stats' = [stats EXCEPT ![c.place[1]].allocs = @ + 1, ![c.place[1]].bytes = @ + c.size]
            /\ \/ live' = live \cup {c} /\ heap' = heap \cup ({c.place} \cap ({"COLD"} \X Nat \X Nat))
               \/ c.place[1] = "COLD" /\ UNCHANGED <<live, heap>>
            /\ tpc' = [tpc EXCEPT ![t] = "idle"]
            /\ call' = [call EXCEPT ![t] = NoCall]
            /\ UNCHANGED <<tierVars, slabVars, hot_next, warm_offset, calls>>
--------------------------------------------------------------------------------
(* bt_tier_free and bt_tier_classify *)

\* the address ranges of the slabs and of the region, in that order
Classify(place) ==
  CASE place[1] = "HOT" /\ place[2] \in Slabs /\ place[3] \in Blocks -> "HOT"
    [] place[1] = "WARM" /\ mem[WarmPool] > 0 /\ place[2] \in 0 .. WarmSize - 1 -> "WARM"
    [] OTHER -> "COLD"

\* mutant: the block goes to the first slab
Owner_First(place) == 0

Owner(place) == place[2]

\* bt_tier_free under the tier bt_tier_classify names: HOT finds the slab by
\* address, WARM keeps the bytes, COLD gives the block back to the heap
Release(t) == /\ May(t, "idle") /\ Resting(t)
              /\ \E a \in live :
                   /\ wild' = ~hot_slabs
                   /\ live' = live \ {a}
                   /\ IF Classify(a.place) = "HOT" THEN FreeCall(t, Owner(a.place), a.place[3])
                      ELSE UNCHANGED slabVars
                   /\ heap' = IF Classify(a.place) = "COLD" THEN heap \ {a.place} ELSE heap
              /\ UNCHANGED <<boot, hot_slabs, mem, hot_next, warm_offset, stats, tpc, call, calls>>

\* bt_tier_stats
TierStats == stats

Next == \/ InitArray \/ InitSlab \/ InitWarm
        \/ \E t \in Threads : \/ Begin(t) \/ Hot(t) \/ SlabStep(t) \/ SlabGot(t) \/ SlabNone(t)
                             \/ Warm(t) \/ Cold(t) \/ Count(t) \/ Release(t)

Spec == Init /\ [][Next]_vars
--------------------------------------------------------------------------------
Places == ({"HOT", "WARM", "COLD", "NULL"} \X Nat \X Nat)
Requests == [id : Nat, tier : Tiers, size : Nat, place : Places]

\* Type invariant of the globals of memory_tier.c, of its slabs and of the running
\* calls.
TypeOK == /\ SlabTypes
          /\ boot \in -1 .. NumHot + 1
          /\ {hot_slabs, wild} \subseteq BOOLEAN /\ mem \in [Parts -> Nat]
          /\ hot_next \in -IntMax - 1 .. IntMax
          /\ warm_offset \in Nat /\ stats \in [Tiers -> [allocs : Nat, bytes : Nat]]
          /\ tpc \in [Threads -> Tiers \cup {"idle", "slab", "count"}]
          /\ call \in [Threads -> Requests] /\ live \subseteq Requests
          /\ heap \subseteq {"COLD"} \X Nat \X Nat /\ calls \in Nat

\* Every allocation with a user or about to get one.
Held == live \cup {call[t] : t \in {u \in Threads : tpc[u] = "count"}}

Overlap(p, q) == \/ p = q
                 \/ p[1] = "WARM" /\ q[1] = "WARM" /\ p[2] < q[2] + q[3] /\ q[2] < p[2] + p[3]

\* Two calls of bt_tier_alloc never get overlapping memory, WARM memory ends before
\* the region does, also when calls race for its last bytes, and a HOT block with a
\* user is not in the free list of its slab.
Disjoint == /\ \A a, b \in Held : a.id # b.id => ~Overlap(a.place, b.place)
            /\ \A a \in Held : a.place[1] = "WARM" => a.place[2] + a.size <= WarmSize
            /\ \A a \in Held : a.place[1] = "HOT" => a.place[3] \notin Listed(a.place[2])

\* WARM memory starts on a cache line, whatever sizes were asked for before, and
\* so does what is left of the region.
WarmAligned == /\ \A a \in Held : a.place[1] = "WARM" => a.place[2] % Line = 0
               /\ warm_offset % Line = 0

\* Memory that is handed out lies in memory bt_numa_alloc has given, whichever of
\* the allocations of bt_tier_init failed.
Backed == \A a \in Held : /\ a.place[1] = "HOT" => a.place[3] * Line <= mem[a.place[2]]
                         /\ a.place[1] = "WARM" => a.place[2] + a.size <= mem[WarmPool]

\* Unless bt_tier_init failed to get the array, a turn leaves the array of slabs
\* only when g_hot_next has gone through all non-negative values and one more.
StaysInArray == wild /\ hot_slabs => calls >= IntMax + 3

\* A call has a number of its own, kept with its size by the allocation it serves.
Identified ==
  /\ \A a \in live : /\ a.id \in 1 .. calls /\ a.size \in Sizes
                     /\ \A b \in live : a.id = b.id => a = b
  /\ \A t \in Threads : tpc[t] # "idle" =>
       /\ call[t].id \in 1 .. calls /\ call[t].size \in Sizes
       /\ \A a \in live : a.id # call[t].id
       /\ \A u \in Threads \ {t} : tpc[u] # "idle" => call[u].id # call[t].id

\* A thread is inside bt_slab_alloc exactly while bt_tier_alloc is in its HOT part,
\* and returns blocks only between two calls of bt_tier_alloc.
InStep == \A t \in Threads : /\ Allocating(t) => tpc[t] = "slab"
                             /\ tpc[t] = "slab" => Allocating(t) \/ wild
                             /\ tpc[t] \in {"HOT", "slab"} => t \in Allocators
                             /\ pc[t] # "idle" => tpc[t] \in {"idle", "slab"}

\* An allocation holds a block of a slab, bytes of WARM below warm_offset, or a heap
\* block of its own.
Served(a) == \/ a.place[1] = "HOT" /\ <<a.place[2], a.place[3]>> \in owned
             \/ /\ a.place[1] = "WARM" /\ a.place[3] = a.size /\ mem[WarmPool] > 0
                /\ a.place[2] + Aligned(a.size) <= warm_offset
                /\ a.place[2] + Aligned(a.size) <= WarmSize
             \/ a.place = <<"COLD", a.id, a.size>>

\* Every block with a user is that of one allocation, or of a call that has just
\* got it from bt_slab_alloc; and what calloc gave belongs to an allocation.
Owners == /\ \A a \in Held : Served(a)
          /\ \A x \in owned : \/ \E a \in Held : a.place = <<"HOT", x[1], x[2]>>
                              \/ \E t \in Threads : pc[t] = "got" /\ x = <<at[t], old_head[t]>>
          /\ \A t \in Threads : pc[t] = "got" =>
               /\ <<at[t], old_head[t]>> \in owned
               /\ \A a \in Held : a.place # <<"HOT", at[t], old_head[t]>>
          /\ heap = {a.place : a \in {b \in live : b.place[1] = "COLD"}}

\* A slab has its memory and all its blocks, or neither; bt_tier_init gives them in
\* turn and nobody allocates before it has returned.
Booted == /\ \A i \in Slabs : /\ mem[i] \in {0, Paged(HotPerSlab)} /\ (boot <= i => mem[i] = 0)
                              /\ IF mem[i] > 0 THEN Complete(i)
                                 ELSE list[i] = <<>> /\ \A b \in Blocks : <<i, b>> \notin owned
          /\ \A t \in Threads : Carries(t) \/ pc[t] = "got" => mem[at[t]] > 0
          /\ mem[WarmPool] \in {0, Paged(WarmSize)}
          /\ ~Ready => /\ \A t \in Threads : Resting(t)
                       /\ owned = {} /\ live = {} /\ calls = 0 /\ hot_next = 0 /\ ~wild

\* How often g_hot_next was raised, at least, and the call that is about to.
TurnsTaken == /\ calls >= IF hot_next >= 0 THEN hot_next ELSE hot_next + 2 * (IntMax + 1)
              /\ (\E t \in Threads : tpc[t] = "HOT")
                   => calls > IF hot_next >= 0 THEN hot_next ELSE hot_next + 2 * (IntMax + 1)

\* What bt_tier_alloc hands out is apart from everything else in use, lies inside
\* its region and is aligned.
TierInv == /\ TypeOK /\ Disjoint /\ WarmAligned /\ Backed /\ StaysInArray
           /\ Identified /\ InStep /\ Owners /\ Booted /\ TurnsTaken

\* bt_tier_stats counts every call that has been served once, under the tier it
\* was served by, however often it fell back.
StatsExact == TierStats["HOT"].allocs + TierStats["WARM"].allocs + TierStats["COLD"].allocs
                = calls - Cardinality({t \in Threads : tpc[t] # "idle"})

\* The counters of the slabs and those of the tiers tell what was handed out.
CountersExact == CountsExact /\ CountsAgree /\ StatsExact

\* With no call running, every HOT block and every heap block is free or has a
\* user: freeing an allocation under the tier bt_tier_classify names loses
\* nothing, however the allocation fell back.
NothingLeaks == Ready /\ (\A t \in Threads : Resting(t)) =>
                  /\ \A i \in {j \in Slabs : mem[j] > 0}, b \in Blocks :
                       b \in Listed(i) \/ \E a \in live : a.place = <<"HOT", i, b>>
                  /\ heap \subseteq {a.place : a \in live}
================================================================================
