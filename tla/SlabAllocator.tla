----------------------------- MODULE SlabAllocator -----------------------------
(***************************************************************************)
(* The slab allocator (utils/slab_allocator.c): blocks linked through      *)
(* their own first bytes, taken and returned with a compare-and-swap on    *)
(* free_list.  A block in use holds data of its user where the link was.   *)
(* There are several slabs; a call works on the one it was given.          *)
(***************************************************************************)
EXTENDS Integers, Sequences, FiniteSets, Functions

CONSTANTS Slabs,         \* the slabs
          Blocks,        \* 1 .. num_blocks, the same for each
          NULL, Data,    \* the null pointer; what a user writes into a block
          Threads,       \* threads that return blocks
          Allocators,    \* the threads among them that take blocks
          CountMod       \* 2^w of alloc_count and free_count

\* the counters are wide enough for a block in use and a call on the way each
ASSUME SlabAssumption == /\ IsFiniteSet(Slabs) /\ IsFiniteSet(Blocks) /\ IsFiniteSet(Threads)
                         /\ Blocks = 1 .. Cardinality(Blocks) /\ Blocks # {} /\ Slabs # {}
                         /\ {NULL, Data} \cap Blocks = {} /\ Data # NULL
                         /\ Allocators \subseteq Threads
                         /\ CountMod \in Nat
                         /\ CountMod > Cardinality(Blocks) + Cardinality(Threads)

VARIABLES free_list, link, alloc_count, free_count,   \* bt_slab_t and its blocks
          pc, at, old_head, new_head, ptr,            \* per call; at: its slab
          owned,                                      \* <<slab, block>> with a user
          list                                        \* history: each free list, in order

counts == <<alloc_count, free_count>>
locals == <<pc, at, old_head, new_head, ptr>>
slabVars == <<free_list, link, counts, locals, owned, list>>

Num == Cardinality(Blocks)
Goto(t, step) == pc' = [pc EXCEPT ![t] = step]

\* the pre-linking loop of bt_slab_init: the last block is first
Linked == [b \in Blocks |-> IF b = 1 THEN NULL ELSE b - 1]

\* slabs as calloc gives them: no block, and bt_slab_alloc finds none
SlabZero == /\ free_list = [i \in Slabs |-> NULL] /\ link = [i \in Slabs |-> Linked]
            /\ alloc_count = [i \in Slabs |-> 0] /\ free_count = [i \in Slabs |-> 0]
            /\ pc = [t \in Threads |-> "idle"]
            /\ at \in [Threads -> {CHOOSE i \in Slabs : TRUE}]
            /\ old_head = [t \in Threads |-> NULL]
            /\ new_head = [t \in Threads |-> NULL]
            /\ ptr = [t \in Threads |-> NULL]
            /\ owned = {} /\ list = [i \in Slabs |-> <<>>]

\* bt_slab_init of slab i
SlabInit(i) == /\ free_list' = [free_list EXCEPT ![i] = Num] /\ link' = [link EXCEPT ![i] = Linked]
               /\ alloc_count' = [alloc_count EXCEPT ![i] = 0]
               /\ free_count' = [free_count EXCEPT ![i] = Num]
               /\ list' = [list EXCEPT ![i] = [k \in 1 .. Num |-> Num + 1 - k]]
               /\ UNCHANGED <<locals, owned>>
--------------------------------------------------------------------------------
(* bt_slab_alloc; it ends at "got" with the block in old_head, or at "none" *)

AllocCall(t, i) == /\ pc[t] = "idle"
                   /\ at' = [at EXCEPT ![t] = i]
                   /\ Goto(t, "again")
                   /\ UNCHANGED <<free_list, link, counts, old_head, new_head, ptr, owned, list>>

\* load the head, at the start and after every lost compare-and-swap
AllocLoad(t) == /\ pc[t] = "again"
                /\ old_head' = [old_head EXCEPT ![t] = free_list[at[t]]]
                /\ Goto(t, IF free_list[at[t]] = NULL THEN "none" ELSE "follow")
                /\ UNCHANGED <<free_list, link, counts, at, new_head, ptr, owned, list>>

\* mutant: the link is not followed
AllocFollow_Stay(t) == /\ pc[t] = "follow"
                       /\ new_head' = old_head
                       /\ Goto(t, "take")
                       /\ UNCHANGED <<free_list, link, counts, at, old_head, ptr, owned, list>>

AllocFollow(t) == /\ pc[t] = "follow"
                  /\ new_head' = [new_head EXCEPT ![t] = link[at[t]][old_head[t]]]
                  /\ Goto(t, "take")
                  /\ UNCHANGED <<free_list, link, counts, at, old_head, ptr, owned, list>>

TakeWins(t) == free_list[at[t]] = old_head[t]

AllocTake(t) == /\ pc[t] = "take" /\ TakeWins(t)
                /\ free_list' = [free_list EXCEPT ![at[t]] = new_head[t]]
                /\ list' = [list EXCEPT ![at[t]] = Tail(@)]
                /\ Goto(t, "taken")
                /\ UNCHANGED <<link, counts, at, old_head, new_head, ptr, owned>>

AllocAgain(t) == /\ pc[t] = "take" /\ ~TakeWins(t)
                 /\ Goto(t, "again")
                 /\ UNCHANGED <<free_list, link, counts, at, old_head, new_head, ptr, owned, list>>

AllocCount(t) == /\ pc[t] = "taken"
                 /\ alloc_count' = [alloc_count EXCEPT ![at[t]] = (@ + 1) % CountMod]
                 /\ Goto(t, "counted")
                 /\ UNCHANGED <<free_list, link, free_count, at, old_head, new_head, ptr, owned, list>>

\* free_count--, and the block goes to its user, who writes into it
AllocReturn(t) == /\ pc[t] = "counted"
                  /\ free_count' = [free_count EXCEPT ![at[t]] = (@ - 1) % CountMod]
                  /\ owned' = owned \cup {<<at[t], old_head[t]>>}
                  /\ link' = [link EXCEPT ![at[t]][old_head[t]] = Data]
                  /\ Goto(t, "got")
                  /\ UNCHANGED <<free_list, alloc_count, at, old_head, new_head, ptr, list>>

\* the caller goes on with the result
AllocDone(t) == /\ Goto(t, "idle")
                /\ UNCHANGED <<free_list, link, counts, at, old_head, new_head, ptr, owned, list>>

Alloc(t) == \/ AllocLoad(t) \/ AllocFollow(t) \/ AllocTake(t) \/ AllocAgain(t)
            \/ AllocCount(t) \/ AllocReturn(t)
--------------------------------------------------------------------------------
(* bt_slab_free *)

\* the address range of the slab
InRange(i, b) == i \in Slabs /\ b \in Blocks

FreeCall(t, i, b) == /\ pc[t] = "idle"
                     /\ at' = [at EXCEPT ![t] = i]
                     /\ ptr' = [ptr EXCEPT ![t] = b]
                     /\ owned' = owned \ {<<i, b>>}
                     /\ Goto(t, IF InRange(i, b) THEN "load" ELSE "idle")
                     /\ UNCHANGED <<free_list, link, counts, old_head, new_head, list>>

FreeLoad(t) == /\ pc[t] = "load"
               /\ old_head' = [old_head EXCEPT ![t] = free_list[at[t]]]
               /\ Goto(t, "link")
               /\ UNCHANGED <<free_list, link, counts, at, new_head, ptr, owned, list>>

FreeLink(t) == /\ pc[t] = "link"
               /\ link' = [link EXCEPT ![at[t]][ptr[t]] = old_head[t]]
               /\ Goto(t, "push")
               /\ UNCHANGED <<free_list, counts, at, old_head, new_head, ptr, owned, list>>

PushWins(t) == free_list[at[t]] = old_head[t]

FreePush(t) == /\ pc[t] = "push" /\ PushWins(t)
               /\ free_list' = [free_list EXCEPT ![at[t]] = ptr[t]]
               /\ list' = [list EXCEPT ![at[t]] = <<ptr[t]>> \o @]
               /\ Goto(t, "pushed")
               /\ UNCHANGED <<link, counts, at, old_head, new_head, ptr, owned>>

\* mutant: a lost compare-and-swap is tried again with the old link
FreeAgain_NoLink(t) == /\ pc[t] = "push" /\ ~PushWins(t)
                       /\ old_head' = [old_head EXCEPT ![t] = free_list[at[t]]]
                       /\ UNCHANGED <<free_list, link, counts, pc, at, new_head, ptr, owned, list>>

FreeAgain(t) == /\ pc[t] = "push" /\ ~PushWins(t)
                /\ Goto(t, "load")
                /\ UNCHANGED <<free_list, link, counts, at, old_head, new_head, ptr, owned, list>>

FreeCount(t) == /\ pc[t] = "pushed"
                /\ free_count' = [free_count EXCEPT ![at[t]] = (@ + 1) % CountMod]
                /\ Goto(t, "uncount")
                /\ UNCHANGED <<free_list, link, alloc_count, at, old_head, new_head, ptr, owned, list>>

\* the test of alloc_count, and its decrement
FreeTest(t) == /\ pc[t] = "uncount"
               /\ Goto(t, IF alloc_count[at[t]] > 0 THEN "lower" ELSE "idle")
               /\ UNCHANGED <<free_list, link, counts, at, old_head, new_head, ptr, owned, list>>

\* mutant: the counter is raised instead
FreeLower_Up(t) == /\ pc[t] = "lower"
                   /\ alloc_count' = [alloc_count EXCEPT ![at[t]] = (@ + 1) % CountMod]
                   /\ Goto(t, "idle")
                   /\ UNCHANGED <<free_list, link, free_count, at, old_head, new_head, ptr, owned, list>>

FreeLower(t) == /\ pc[t] = "lower"
                /\ alloc_count' = [alloc_count EXCEPT ![at[t]] = (@ - 1) % CountMod]
                /\ Goto(t, "idle")
                /\ UNCHANGED <<free_list, link, free_count, at, old_head, new_head, ptr, owned, list>>

Free(t) == \/ FreeLoad(t) \/ FreeLink(t) \/ FreePush(t) \/ FreeAgain(t)
           \/ FreeCount(t) \/ FreeTest(t) \/ FreeLower(t)
--------------------------------------------------------------------------------
Pointers == Blocks \cup {NULL}

\* The types of the slabs and of the locals of their calls.
SlabTypes == /\ free_list \in [Slabs -> Pointers]
             /\ link \in [Slabs -> [Blocks -> Pointers \cup {Data}]]
             /\ alloc_count \in [Slabs -> 0 .. CountMod - 1]
             /\ free_count \in [Slabs -> 0 .. CountMod - 1]
             /\ pc \in [Threads -> {"idle", "again", "follow", "take", "taken", "counted", "got",
                                    "none", "load", "link", "push", "pushed", "uncount", "lower"}]
             /\ at \in [Threads -> Slabs]
             /\ old_head \in [Threads -> Pointers]
             /\ new_head \in [Threads -> Pointers \cup {Data}]
             /\ ptr \in [Threads -> Pointers]
             /\ owned \subseteq Slabs \X Blocks /\ list \in [Slabs -> Seq(Blocks)]

\* The links next, followed from head, spell the sequence l of distinct blocks.
Spells(head, next, l) == /\ \A j, k \in 1 .. Len(l) : l[j] = l[k] => j = k
                         /\ head = IF l = <<>> THEN NULL ELSE l[1]
                         /\ \A k \in 1 .. Len(l) : next[l[k]] = IF k = Len(l) THEN NULL ELSE l[k + 1]

\* Following free_list of slab i leads through exactly the blocks that were returned
\* and not taken, the last returned first, each of them once, and ends: no
\* interleaving of bt_slab_alloc by one thread and bt_slab_free by others loses a
\* block or runs into user data.
ListExact(i) == Spells(free_list[i], link[i], list[i])

Listed(i) == Range(list[i])

\* The block on the way through call t of bt_slab_alloc or bt_slab_free.
Carries(t) == pc[t] \in {"taken", "counted", "load", "link", "push"}
Carried(t) == <<at[t], IF pc[t] \in {"taken", "counted"} THEN old_head[t] ELSE ptr[t]>>

\* A block has one holder: its free list, its user, or one running call.
OneOwner == /\ \A x \in owned : x[2] \notin Listed(x[1])
            /\ \A t \in Threads : Carries(t) =>
                 /\ Carried(t) \notin owned /\ Carried(t)[2] \notin Listed(at[t])
                 /\ \A u \in Threads \ {t} : Carries(u) => Carried(u) # Carried(t)

\* Inside bt_slab_alloc, or just back from it.
Allocating(t) == pc[t] \in {"again", "follow", "take", "taken", "counted", "got", "none"}

\* What a call relies on between two of its steps: only an allocator takes
\* blocks; the head it has loaded is still in the list when it reads the link and
\* when it swaps, and the link is unchanged; and the block to push has its link.
Knows(t) ==
  /\ Allocating(t) => t \in Allocators
  /\ pc[t] \in {"follow", "take"} => old_head[t] \in Listed(at[t])
  /\ pc[t] = "take" => new_head[t] = link[at[t]][old_head[t]]
  /\ pc[t] \in {"taken", "counted", "got"} => old_head[t] \in Blocks
  /\ pc[t] \in {"load", "link", "push"} => ptr[t] \in Blocks
  /\ pc[t] = "push" => link[at[t]][ptr[t]] = old_head[t]

\* The slabs are sound while one thread takes blocks and others return them: the
\* list of bt_slab_t is exact and every block that left it has one holder.
SlabInv == /\ SlabTypes /\ OneOwner
           /\ \A i \in Slabs : ListExact(i)
           /\ \A t \in Threads : Knows(t)

\* No block of slab i is lost.
Complete(i) == \A b \in Blocks : \/ b \in Listed(i) \/ <<i, b>> \in owned
                                 \/ \E t \in Threads : Carries(t) /\ Carried(t) = <<i, b>>

InUse(i) == {b \in Blocks : <<i, b>> \in owned}

\* With no call running, bt_slab_stats tells how many blocks are in use and how
\* many are free: the test before the decrement of alloc_count never hides one.
CountsAgree == (\A t \in Threads : pc[t] = "idle") => \A i \in Slabs :
                 alloc_count[i] = Cardinality(InUse(i)) /\ free_count[i] = Len(list[i])

\* The calls on slab i that are at one of the steps.
Running(i, steps) == {t \in Threads : at[t] = i /\ pc[t] \in steps}

\* While calls run, alloc_count is ahead by those that have raised it and not yet
\* returned, and by those that free and have not lowered it; free_count is ahead by
\* the blocks taken and behind by the blocks pushed and not yet counted, and may be
\* below zero for a while: then it wraps.
CountsExact ==
  \A i \in Slabs :
    /\ alloc_count[i] = Cardinality(InUse(i))
         + Cardinality(Running(i, {"counted", "load", "link", "push", "pushed", "uncount", "lower"}))
    /\ free_count[i] = (Len(list[i]) + Cardinality(Running(i, {"taken", "counted"}))
                          - Cardinality(Running(i, {"pushed"}))) % CountMod
================================================================================
