------------------------------- MODULE MemoryPool -------------------------------
(***************************************************************************)
(* The memory pool (utils/memory_pool.c): one region carved into arenas,   *)
(* handed out in turn; an arena is a bump allocator with a free list of    *)
(* order nodes and belongs to one thread, so each of its calls is a step.  *)
(* The region is mapped or on the heap (utils/cpu_affinity.c) and is given *)
(* back when the pool is destroyed.                                        *)
(***************************************************************************)
EXTENDS Integers, Sequences, FiniteSets

CONSTANTS Users,
          NumArenas,     \* num_arenas
          TotalSize,     \* total_size
          ArenaStruct,   \* sizeof(bt_mempool_arena_t)
          Page, Line,    \* 4096 and 64
          HugePage,      \* 2 MB
          NodeSize,      \* sizeof(bt_order_node_t)
          Sizes,         \* sizes asked of bt_mempool_alloc
          MaxAllocs,     \* bound: allocations of an arena between resets
          MaxPools       \* bound: calls of bt_mempool_init

ASSUME MempoolAssumption == /\ {NumArenas, ArenaStruct, Page, Line, HugePage, NodeSize} \subseteq Nat \ {0}
                            /\ TotalSize \in Nat /\ TotalSize >= NumArenas * ArenaStruct
                            /\ Sizes \subseteq Nat \ {0} /\ {MaxAllocs, MaxPools} \subseteq Nat

VARIABLES base,           \* pool->base: "NULL" or "region"
          hugepage,       \* pool->hugepage
          held,           \* bytes the system has given out: mapped, and on the heap
          touched,        \* pages of the region that are faulted in
          pools,          \* history: calls of bt_mempool_init
          arenas,         \* the array of bt_mempool_arena_t
          arena_counter,  \* calls that were given an arena
          tls_arena,      \* per thread: its arena, or none
          live            \* blocks with their users: [addr, size, node]

poolVars == <<base, hugepage, held, touched, pools>>
mempoolVars == <<poolVars, arenas, arena_counter, tls_arena, live>>

None == NumArenas
Arenas == 0 .. NumArenas - 1

\* mutant: the arena array is not taken off the region
UsableSize_Whole == TotalSize

\* the region ends with the arena array
UsableSize == TotalSize - NumArenas * ArenaStruct

ArenaSize == ((UsableSize \div NumArenas) \div Page) * Page

Carved(i) == [base |-> i * ArenaSize, size |-> ArenaSize, offset |-> 0,
              free_orders |-> <<>>, alloc_count |-> 0, free_count |-> 0]

\* the program starts without a pool
MempoolInit == /\ base = "NULL" /\ hugepage = FALSE /\ held = [map |-> 0, heap |-> 0]
               /\ touched = {} /\ pools = 0
               /\ arenas = [i \in Arenas |-> Carved(i)]
               /\ arena_counter = 0
               /\ tls_arena = [t \in Users |-> None]
               /\ live = {}

\* the length bt_cpu_alloc_hugepages maps, with huge pages or without
Mapped(size) == ((size + HugePage - 1) \div HugePage) * HugePage

\* mutant: the loop stops one page early
Prefaulted_Short(size) == {i \div Page : i \in {k \in 0 .. size - 1 : k % Page = 0 /\ k + Page < size}}

\* the pages bt_cpu_prefault writes to
Prefaulted(size) == {i \div Page : i \in {k \in 0 .. size - 1 : k % Page = 0}}

\* bt_mempool_init: the region comes from mmap or from posix_memalign
InitPool(huge) ==
  /\ base = "NULL" /\ pools < MaxPools
  /\ base' = "region" /\ hugepage' = huge /\ pools' = pools + 1
  /\ held' = IF huge THEN [held EXCEPT !.map = @ + Mapped(TotalSize)]
                     ELSE [held EXCEPT !.heap = @ + TotalSize]
  /\ touched' = Prefaulted(TotalSize)
  /\ arenas' = [i \in Arenas |-> Carved(i)] /\ arena_counter' = 0
  /\ UNCHANGED <<tls_arena, live>>

\* neither mmap of bt_cpu_alloc_hugepages succeeds, or posix_memalign fails
InitPoolFails == /\ base = "NULL" /\ pools < MaxPools
                 /\ base' = "NULL" /\ pools' = pools + 1
                 /\ UNCHANGED <<hugepage, held, touched, arenas, arena_counter, tls_arena, live>>

\* mutant: the length asked for is unmapped, not the length mapped
Unmapped_Exact(size) == size

\* the length bt_cpu_free_hugepages unmaps
Unmapped(size) == Mapped(size)

\* mutant: the region is always given to free
GivenBack_Free(h) == [h EXCEPT !.heap = 0]

\* free takes the heap block, munmap at most what is mapped
GivenBack(h) == IF hugepage
                THEN [h EXCEPT !.map = @ - (IF Unmapped(TotalSize) < @ THEN Unmapped(TotalSize) ELSE @)]
                ELSE [h EXCEPT !.heap = 0]

\* bt_mempool_destroy, called when the threads that have arenas are gone; the
\* arena array goes with the region
Destroy == /\ base # "NULL"
           /\ held' = GivenBack(held) /\ touched' = {}
           /\ base' = "NULL" /\ hugepage' = FALSE
           /\ tls_arena' = [t \in Users |-> None] /\ live' = {}
           /\ arena_counter' = 0 /\ arenas' = [i \in Arenas |-> Carved(i)]
           /\ UNCHANGED pools

\* bt_mempool_assign_arena for thread t, and bt_mempool_get_arena by it: the
\* first call takes the next arena in turn and later ones keep it
AssignArena(t) == /\ base # "NULL" /\ tls_arena[t] = None
                  /\ tls_arena' = [tls_arena EXCEPT ![t] = arena_counter % NumArenas]
                  /\ arena_counter' = arena_counter + 1
                  /\ UNCHANGED <<poolVars, arenas, live>>
--------------------------------------------------------------------------------
Aligned(size) == ((size + Line - 1) \div Line) * Line

Exhausted(a, size) == a.offset + Aligned(size) > a.size

Allowed(i) == arenas[i].alloc_count < MaxAllocs

\* the block bt_mempool_alloc takes off the end of arena i
Bump(i, size, node) ==
  /\ ~Exhausted(arenas[i], size)
  /\ live' = live \cup {[addr |-> arenas[i].base + arenas[i].offset, size |-> size, node |-> node]}
  /\ arenas' = [arenas EXCEPT ![i].offset = @ + Aligned(size), ![i].alloc_count = @ + 1]

\* bt_mempool_alloc; an exhausted arena returns NULL and changes nothing
AllocBlock(t) == /\ tls_arena[t] # None /\ Allowed(tls_arena[t])
                 /\ \E size \in Sizes : Bump(tls_arena[t], size, FALSE)
                 /\ UNCHANGED <<poolVars, arena_counter, tls_arena>>

\* mutant: the node stays the head of the free list
Recycle_Keep(i) == /\ live' = live \cup {[addr |-> Head(arenas[i].free_orders), size |-> NodeSize,
                                          node |-> TRUE]}
                   /\ arenas' = [arenas EXCEPT ![i].alloc_count = @ + 1, ![i].free_count = @ - 1]

\* the first node of the free list of arena i
Recycle(i) == /\ live' = live \cup {[addr |-> Head(arenas[i].free_orders), size |-> NodeSize,
                                     node |-> TRUE]}
              /\ arenas' = [arenas EXCEPT ![i].free_orders = Tail(@), ![i].alloc_count = @ + 1,
                                          ![i].free_count = @ - 1]

AllocOrder(t) == LET i == tls_arena[t] IN
                 /\ i # None /\ Allowed(i)
                 /\ IF arenas[i].free_orders # <<>> THEN Recycle(i) ELSE Bump(i, NodeSize, TRUE)
                 /\ UNCHANGED <<poolVars, arena_counter, tls_arena>>

Within(b, a) == b.addr \in a.base .. a.base + a.size - 1

\* a node goes back to the arena it came from
FreeOrder(t) == LET i == tls_arena[t] IN
                /\ i # None
                /\ \E b \in live : /\ b.node /\ Within(b, arenas[i])
                                   /\ live' = live \ {b}
                                   /\ arenas' = [arenas EXCEPT ![i].free_orders = <<b.addr>> \o @,
                                                               ![i].free_count = @ + 1]
                /\ UNCHANGED <<poolVars, arena_counter, tls_arena>>

\* mutant: the free list survives the reset
Emptied_KeepList(a) == [a EXCEPT !.offset = 0, !.alloc_count = 0, !.free_count = 0]

Emptied(a) == [a EXCEPT !.offset = 0, !.free_orders = <<>>, !.alloc_count = 0, !.free_count = 0]

\* bt_mempool_arena_reset invalidates every block of the arena
Reset(t) == LET i == tls_arena[t] IN
            /\ i # None
            /\ arenas' = [arenas EXCEPT ![i] = Emptied(@)]
            /\ live' = {b \in live : ~Within(b, arenas[i])}
            /\ UNCHANGED <<poolVars, arena_counter, tls_arena>>

\* bt_mempool_arena_stats
Stats(a) == [used |-> a.offset, total |-> a.size, allocs |-> a.alloc_count, frees |-> a.free_count]

MempoolNext == \/ \E huge \in BOOLEAN : InitPool(huge)
               \/ InitPoolFails
               \/ Destroy
               \/ \E t \in Users : \/ AssignArena(t) \/ AllocBlock(t) \/ AllocOrder(t) \/ FreeOrder(t)
                                   \/ Reset(t)

MempoolSpec == MempoolInit /\ [][MempoolNext]_mempoolVars
--------------------------------------------------------------------------------
\* Type invariant of the arenas and of the blocks handed out.
MempoolTypeOK == /\ base \in {"NULL", "region"} /\ hugepage \in BOOLEAN /\ held \in [map : Nat, heap : Nat]
                 /\ touched \subseteq Nat /\ pools \in 0 .. MaxPools
                 /\ arenas \in [Arenas -> [base : Nat, size : Nat, offset : Nat,
                                           free_orders : Seq(Nat), alloc_count : Nat, free_count : Nat]]
                 /\ arena_counter \in Nat /\ tls_arena \in [Users -> 0 .. NumArenas]
                 /\ live \subseteq [addr : Nat, size : Nat, node : BOOLEAN]

FreeNodes == UNION {{arenas[i].free_orders[k] : k \in DOMAIN arenas[i].free_orders} : i \in Arenas}

\* Blocks in use and free nodes never share a byte, and all of them lie below
\* the arena array at the end of the region: a recycled node, a fresh block and
\* the metadata are told apart after any sequence of allocations, frees and
\* resets.
BlocksDisjoint ==
  LET Blocks == {[addr |-> b.addr, end |-> b.addr + b.size] : b \in live}
                  \cup {[addr |-> p, end |-> p + NodeSize] : p \in FreeNodes}
  IN  /\ \A b, c \in Blocks : b # c => b.end <= c.addr \/ c.end <= b.addr
      /\ \A b \in Blocks : b.end <= TotalSize - NumArenas * ArenaStruct
      /\ \A b \in live : b.addr \notin FreeNodes

\* free_count is the length of the free list, which holds no node twice:
\* the unsigned decrement of bt_mempool_alloc_order never passes zero.
FreeCountExact == \A i \in Arenas :
                    /\ Stats(arenas[i]).frees = Len(arenas[i].free_orders)
                    /\ Cardinality({arenas[i].free_orders[k] : k \in DOMAIN arenas[i].free_orders})
                         = Len(arenas[i].free_orders)

\* The program holds memory exactly while it has a pool: the kind the pool was
\* made with, all of it, and nothing is left mapped or allocated after
\* bt_mempool_destroy, whatever pools came before.
RegionHeld == LET bytes == IF base = "NULL" THEN [map |-> 0, heap |-> 0]
                           ELSE IF hugepage THEN [map |-> Mapped(TotalSize), heap |-> 0]
                                            ELSE [map |-> 0, heap |-> TotalSize]
              IN  held = bytes

\* "Prefault pages to avoid page faults in hot path": no byte of a block in use
\* or of the arena array lies on a page that was not written to before.
NoFaults == base # "NULL" =>
              \A b \in live \cup {[addr |-> UsableSize, size |-> NumArenas * ArenaStruct, node |-> FALSE]} :
                \A i \in b.addr .. b.addr + b.size - 1 : i \div Page \in touched

\* The arenas are sound: typed, with a free list bt_mempool_alloc_order can
\* rely on and statistics within the size of the arena, in a region that is
\* held, faulted in and given back as a whole.
ArenaInv == /\ MempoolTypeOK /\ FreeCountExact /\ RegionHeld /\ NoFaults
            /\ \A i \in Arenas : Stats(arenas[i]).used <= Stats(arenas[i]).total
================================================================================
