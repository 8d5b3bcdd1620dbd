----------------------------- MODULE LockFreePool -----------------------------
(***************************************************************************)
(* The CAS-based free list of bt_lockfree_pool.h.  A node that is not in   *)
(* the list belongs to the application (`owned`) or to the call that is    *)
(* moving it.  Every access to the list head and to the link of a node     *)
(* that other threads can see is a step of its own.  The C++ class         *)
(* LockFreePool takes the same steps, one object at a time.                *)
(***************************************************************************)
EXTENDS Integers, Sequences, FiniteSets, Functions

CONSTANTS Nodes,        \* the pooled objects
          NULL,         \* the null pointer
          Threads,      \* threads that return objects
          Allocators,   \* the threads among them that also take objects
          MaxBatch,     \* bound: the longest array given to bt_lfpool_bulk_free
          CountMod      \* 2^w of the statistics counters

ASSUME PoolAssumption == /\ NULL \notin Nodes
                         /\ Allocators \subseteq Threads /\ IsFiniteSet(Threads)
                         /\ MaxBatch \in Nat
                         /\ CountMod \in Nat \ {0}

VARIABLES head, next,                  \* pool->head and the link of every node
          alloc_count, free_count,     \* statistics
          pc, h, nx, batch,            \* per call: step, local head, head->next, ptrs
          owned,                       \* nodes in the hands of the application
          stack                        \* history: the list as pushed and popped

counts == <<alloc_count, free_count>>
vars == <<head, next, counts, pc, h, nx, batch, owned, stack>>

\* Arrays of distinct objects that a caller may hand to the pool.
Batches(S) == {b \in UNION {[1 .. k -> S] : k \in 2 .. MaxBatch} :
                 \A i, j \in DOMAIN b : b[i] = b[j] => i = j}

\* An empty pool; the application has created the objects.
Init == /\ head = NULL /\ next = [x \in Nodes |-> NULL]
        /\ alloc_count = 0 /\ free_count = 0
        /\ pc = [t \in Threads |-> "idle"]
        /\ h = [t \in Threads |-> NULL]
        /\ nx = [t \in Threads |-> NULL]
        /\ batch = [t \in Threads |-> << >>]
        /\ owned = Nodes
        /\ stack = << >>

Goto(t, step) == pc' = [pc EXCEPT ![t] = step]
-------------------------------------------------------------------------------
(* bt_lfpool_alloc *)

AllocEmpty(t) == /\ pc[t] \in {"idle", "reload"}
                 /\ head = NULL
                 /\ Goto(t, "idle")
                 /\ UNCHANGED <<head, next, counts, h, nx, batch, owned, stack>>

AllocLoad(t) == /\ pc[t] \in {"idle", "reload"}
                /\ head # NULL
                /\ h' = [h EXCEPT ![t] = head]
                /\ Goto(t, "next")
                /\ UNCHANGED <<head, next, counts, nx, batch, owned, stack>>

AllocNext(t) == /\ pc[t] = "next"
                /\ nx' = [nx EXCEPT ![t] = next[h[t]]]
                /\ Goto(t, "pop")
                /\ UNCHANGED <<head, next, counts, h, batch, owned, stack>>

\* mutant: the head is stored without comparing it
PopWins_Store(t) == TRUE

PopWins(t) == head = h[t]

AllocPop(t) == /\ pc[t] = "pop" /\ PopWins(t)
               /\ head' = nx[t]
               /\ stack' = SubSeq(stack, 2, Len(stack))
               /\ Goto(t, "popped")
               /\ UNCHANGED <<next, counts, h, nx, batch, owned>>

\* mutant: the loop does not load the head again
AllocRetry_Stale(t) == /\ pc[t] = "pop" /\ ~PopWins(t)
                       /\ UNCHANGED vars

AllocRetry(t) == /\ pc[t] = "pop" /\ ~PopWins(t)
                 /\ Goto(t, "reload")
                 /\ UNCHANGED <<head, next, counts, h, nx, batch, owned, stack>>

\* mutant: the counter does not wrap at its width
AllocReturn_NoWrap(t) == /\ pc[t] = "popped"
                         /\ alloc_count' = alloc_count + 1
                         /\ owned' = owned \cup {h[t]}
                         /\ Goto(t, "idle")
                         /\ UNCHANGED <<head, next, free_count, h, nx, batch, stack>>

AllocReturn(t) == /\ pc[t] = "popped"
                  /\ alloc_count' = (alloc_count + 1) % CountMod
                  /\ owned' = owned \cup {h[t]}
                  /\ Goto(t, "idle")
                  /\ UNCHANGED <<head, next, free_count, h, nx, batch, stack>>
-------------------------------------------------------------------------------
(* bt_lfpool_free and bt_lfpool_bulk_free *)

FreeBegin(t) == /\ pc[t] = "idle"
                /\ \E x \in owned : /\ batch' = [batch EXCEPT ![t] = <<x>>]
                                    /\ owned' = owned \ {x}
                /\ h' = [h EXCEPT ![t] = head]
                /\ Goto(t, "link")
                /\ UNCHANGED <<head, next, counts, nx, stack>>

\* The nodes of the array are linked to each other before the head is loaded;
\* no other thread looks at them yet.
BulkBegin(t) == /\ pc[t] = "idle"
                /\ \E b \in Batches(owned) :
                     /\ batch' = [batch EXCEPT ![t] = b]
                     /\ owned' = owned \ Range(b)
                     /\ next' = [x \in Nodes |->
                                   IF \E i \in 1 .. Len(b) - 1 : b[i] = x
                                   THEN b[1 + CHOOSE i \in 1 .. Len(b) - 1 : b[i] = x]
                                   ELSE next[x]]
                /\ h' = [h EXCEPT ![t] = head]
                /\ Goto(t, "link")
                /\ UNCHANGED <<head, counts, nx, stack>>

FreeLink(t) == /\ pc[t] = "link"
               /\ next' = [next EXCEPT ![batch[t][Len(batch[t])]] = h[t]]
               /\ Goto(t, "push")
               /\ UNCHANGED <<head, counts, h, nx, batch, owned, stack>>

PushWins(t) == head = h[t]

FreePush(t) == /\ pc[t] = "push" /\ PushWins(t)
               /\ head' = batch[t][1]
               /\ stack' = batch[t] \o stack
               /\ Goto(t, "pushed")
               /\ UNCHANGED <<next, counts, h, nx, batch, owned>>

\* mutant: the link is not written again after a lost compare-and-swap
FreeRetry_NoLink(t) == /\ pc[t] = "push" /\ ~PushWins(t)
                       /\ h' = [h EXCEPT ![t] = head]
                       /\ UNCHANGED <<head, next, counts, pc, nx, batch, owned, stack>>

\* a lost compare-and-swap leaves the current head in old_head
FreeRetry(t) == /\ pc[t] = "push" /\ ~PushWins(t)
                /\ h' = [h EXCEPT ![t] = head]
                /\ Goto(t, "link")
                /\ UNCHANGED <<head, next, counts, nx, batch, owned, stack>>

\* mutant: a batch counts as one object
FreeReturn_One(t) == /\ pc[t] = "pushed"
                     /\ free_count' = (free_count + 1) % CountMod
                     /\ batch' = [batch EXCEPT ![t] = << >>]
                     /\ Goto(t, "idle")
                     /\ UNCHANGED <<head, next, alloc_count, h, nx, owned, stack>>

FreeReturn(t) == /\ pc[t] = "pushed"
                 /\ free_count' = (free_count + Len(batch[t])) % CountMod
                 /\ batch' = [batch EXCEPT ![t] = << >>]
                 /\ Goto(t, "idle")
                 /\ UNCHANGED <<head, next, alloc_count, h, nx, owned, stack>>
-------------------------------------------------------------------------------
Alloc(t) == AllocEmpty(t) \/ AllocLoad(t) \/ AllocNext(t) \/ AllocPop(t)
            \/ AllocRetry(t) \/ AllocReturn(t)

Free(t) == FreeBegin(t) \/ BulkBegin(t) \/ FreeLink(t) \/ FreePush(t)
           \/ FreeRetry(t) \/ FreeReturn(t)

Next == (\E t \in Allocators : Alloc(t)) \/ (\E t \in Threads : Free(t))

Spec == Init /\ [][Next]_vars

\* A call that has begun keeps running; nobody is obliged to make calls.
FairSpec == Spec /\ \A t \in Threads : WF_vars(pc[t] # "idle" /\ (Alloc(t) \/ Free(t)))
-------------------------------------------------------------------------------
Moving == {"link", "push"}       \* the batch is not in the list yet
Steps == {"idle", "reload", "next", "pop", "popped", "pushed"} \cup Moving

\* Type invariant of the pool and of the locals of its calls.
TypeOK == /\ head \in Nodes \cup {NULL} /\ next \in [Nodes -> Nodes \cup {NULL}]
          /\ alloc_count \in 0 .. CountMod - 1 /\ free_count \in 0 .. CountMod - 1
          /\ pc \in [Threads -> Steps]
          /\ h \in [Threads -> Nodes \cup {NULL}]
          /\ nx \in [Threads -> Nodes \cup {NULL}]
          /\ batch \in [Threads -> Seq(Nodes)]
          /\ owned \in SUBSET Nodes
          /\ stack \in Seq(Nodes)

\* The list that head and the links spell out is the list of the objects pushed
\* and not yet popped: no compare-and-swap of bt_lfpool_alloc or bt_lfpool_free
\* cuts off, repeats or resurrects a node.
ListIntact == /\ \A i, j \in 1 .. Len(stack) : stack[i] = stack[j] => i = j
              /\ head = IF stack = << >> THEN NULL ELSE stack[1]
              /\ \A i \in 1 .. Len(stack) :
                   next[stack[i]] = IF i = Len(stack) THEN NULL ELSE stack[i + 1]

\* The object that the call of thread t has taken out of the list.
Popped(t) == IF pc[t] = "popped" THEN {h[t]} ELSE {}

\* The objects that the call of thread t has yet to put into the list.
Incoming(t) == IF pc[t] \in Moving THEN Range(batch[t]) ELSE {}

\* bt_lfpool_alloc never hands an object to a second owner: the object a call
\* has popped is with neither the application nor another call.
NoDoubleAlloc == \A t \in Threads :
                   /\ Popped(t) \cap owned = {}
                   /\ \A u \in Threads : u # t => Popped(t) \cap (Popped(u) \cup Incoming(u)) = {}

\* Every object is in exactly one place: the list, the application's hands or
\* one running call.  Nothing leaks and nothing is shared.
OnePlace == /\ NoDoubleAlloc
            /\ owned \cap Range(stack) = {}
            /\ \A t \in Threads :
                 /\ (Popped(t) \cup Incoming(t)) \cap (Range(stack) \cup owned) = {}
                 /\ \A u \in Threads : u # t => Incoming(t) \cap Incoming(u) = {}
            /\ \A x \in Nodes \ (owned \cup Range(stack)) :
                 \E t \in Threads : x \in Popped(t) \cup Incoming(t)

\* A chain of linked, distinct nodes, up to the link of the last one.
Chain(b) == /\ b # << >>
            /\ \A i, j \in 1 .. Len(b) : b[i] = b[j] => i = j
            /\ \A i \in 1 .. Len(b) - 1 : next[b[i]] = b[i + 1]

\* What a running call knows: an object bt_lfpool_alloc looks at stays in the
\* list with the link it read until its compare-and-swap (nobody else takes
\* objects out), and the batch of a free is linked before it is published.
CallsInv == \A t \in Threads :
              /\ pc[t] \in {"reload", "next", "pop", "popped"} => t \in Allocators
              /\ pc[t] \in {"next", "pop"} => h[t] \in Range(stack)
              /\ pc[t] = "pop" => nx[t] = next[h[t]]
              /\ pc[t] = "popped" => h[t] \in Nodes
              /\ pc[t] \in Moving => Chain(batch[t])
              /\ pc[t] = "push" => next[batch[t][Len(batch[t])]] = h[t]

\* The pool is sound, as an invariant that every step of bt_lfpool_alloc and
\* bt_lfpool_free preserves: the list is the free objects, every object is in one
\* place, and what the running calls have read is still so.
IndInv == TypeOK /\ ListIntact /\ OnePlace /\ CallsInv

\* The calls that have taken an object and not yet counted it, and the places in
\* the arrays of the calls that have published them and not yet counted them.
TakenUncounted == {t \in Threads : pc[t] = "popped"}
Uncounted(t) == IF pc[t] = "pushed" THEN {t} \X (1 .. Len(batch[t])) ELSE {}
FreedUncounted == UNION {Uncounted(t) : t \in Threads}

\* While calls run, the statistics are behind the list by just the objects that
\* these calls have moved and not yet counted, whenever and however often the
\* counters wrap.
CountersInStep ==
  (free_count + Cardinality(FreedUncounted) - alloc_count - Cardinality(TakenUncounted) - Len(stack))
     % CountMod = 0

\* With no call running, bt_lfpool_stats accounts for the objects in the list:
\* frees minus allocations is their number, also after the counters wrap; and
\* while calls run, no object is counted twice or left out.
CountersAgree == /\ CountersInStep
                 /\ (\A t \in Threads : pc[t] = "idle")
                      => (free_count - alloc_count) % CountMod = Len(stack) % CountMod

\* With one allocating thread, bt_lfpool_alloc returns: its compare-and-swap is
\* lost only to objects being returned, and it is the only one to take them.
AllocReturns == \A t \in Allocators : pc[t] \in {"reload", "next", "pop"} ~> pc[t] = "idle"
===============================================================================
