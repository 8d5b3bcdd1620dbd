-------------------------------- MODULE HashMap --------------------------------
(***************************************************************************)
(* The open-addressing hash map of bt_hashmap.h: linear probing, deleted   *)
(* entries left behind as tombstones, doubling at 75% load.  It is used by *)
(* one thread, so every function is one step, but for the loop of          *)
(* _hm_resize, of which every iteration is one.                            *)
(***************************************************************************)
EXTENDS Integers, FiniteSets

CONSTANTS Keys,          \* keys, natural numbers
          Values, None,  \* values; NULL
          Tombstone,     \* BT_HASHMAP_TOMBSTONE
          InitCap,       \* capacity after bt_hashmap_init
          MaxCap,        \* bound: the largest capacity
          FreshOnly      \* whether callers put only keys that are absent

ASSUME HashMapAssumption == /\ Keys \subseteq Nat
                            /\ {InitCap, MaxCap} \subseteq Nat /\ InitCap >= 4
                            /\ None # Tombstone /\ {None, Tombstone} \cap Values = {}

VARIABLES m,      \* bt_hashmap_t
          old,    \* the table that _hm_resize takes the entries from
          at,     \* i of _hm_resize
          arg     \* inside of _hm_resize, key and value of the put that called it

mapVars == <<m, old, at, arg>>

\* _hm_probe: key + i, masked; the capacity is a power of two
Probe(key, i, cap) == (key + i) % cap

Empty(cap) == [entries |-> [i \in 0 .. cap - 1 |-> [key |-> 0, value |-> None]],
               capacity |-> cap, count |-> 0, tombstones |-> 0]

MapInit == m = Empty(InitCap) /\ old = Empty(0) /\ at = 0 /\ arg = <<>>

Vacant(e) == e.value \in {None, Tombstone}
First(S) == CHOOSE i \in S : \A j \in S : i <= j

\* The probe loop of bt_hashmap_put ends at the first slot that is vacant, or in
\* use under the same key.  `tombstones` is tested after the value was stored, so
\* it is never lowered.
PutStops(h, k) == {i \in 0 .. h.capacity - 1 :
                     LET e == h.entries[Probe(k, i, h.capacity)] IN Vacant(e) \/ e.key = k}

Place(h, k, v) ==
  IF PutStops(h, k) = {} THEN h
  ELSE LET idx == Probe(k, First(PutStops(h, k)), h.capacity)
       IN  IF Vacant(h.entries[idx])
           THEN [h EXCEPT !.entries[idx] = [key |-> k, value |-> v], !.count = @ + 1]
           ELSE h

\* mutant: tombstones are left out of the load
Overloaded_LiveOnly(h) == h.count * 4 >= h.capacity * 3

Overloaded(h) == (h.count + h.tombstones) * 4 >= h.capacity * 3

\* The lookup loop of bt_hashmap_get and bt_hashmap_remove: up to the first empty
\* slot, over tombstones.  The set of its matches has at most one element.
Found(h, k) ==
  LET stops == {i \in 0 .. h.capacity - 1 :
                  LET e == h.entries[Probe(k, i, h.capacity)]
                  IN  e.value = None \/ (e.value # Tombstone /\ e.key = k)}
      idx == Probe(k, First(stops), h.capacity)
  IN  IF stops = {} \/ h.entries[idx].value = None THEN {} ELSE {idx}

Get(h, k) == LET found == Found(h, k)
             IN  IF found = {} THEN None ELSE h.entries[First(found)].value
--------------------------------------------------------------------------------
Resizing == arg # <<>>

\* bt_hashmap_put, with calloc failing or not when the table has to grow: the
\* empty table takes the place of the old one
Put(k, v) == /\ ~Resizing
             /\ FreshOnly => Get(m, k) = None
             /\ IF Overloaded(m)
                THEN \/ /\ m.capacity < MaxCap
                        /\ m' = Empty(2 * m.capacity) /\ old' = m /\ at' = 0 /\ arg' = <<k, v>>
                     \/ UNCHANGED mapVars
                ELSE m' = Place(m, k, v) /\ UNCHANGED <<old, at, arg>>

\* mutant: the entry is copied to its old position
Copy_SameSlot == /\ Resizing /\ at < old.capacity
                 /\ m' = IF Vacant(old.entries[at]) THEN m
                         ELSE [m EXCEPT !.entries[at] = old.entries[at], !.count = @ + 1]
                 /\ at' = at + 1
                 /\ UNCHANGED <<old, arg>>

\* The loop of _hm_resize puts the next live entry into the table twice the size,
\* which is below its own load limit (NotAgain): that put does not resize.
Copy == /\ Resizing /\ at < old.capacity
        /\ m' = IF Vacant(old.entries[at]) THEN m
                ELSE Place(m, old.entries[at].key, old.entries[at].value)
        /\ at' = at + 1
        /\ UNCHANGED <<old, arg>>

\* _hm_resize frees the old table, and the put goes on
Resized == /\ Resizing /\ at = old.capacity
           /\ m' = Place(m, arg[1], arg[2])
           /\ old' = Empty(0) /\ at' = 0 /\ arg' = <<>>

\* mutant: the slot is emptied instead of marked
Remove_NoTombstone(k) ==
  /\ ~Resizing
  /\ \/ Found(m, k) = {} /\ UNCHANGED m
     \/ \E idx \in Found(m, k) : m' = [m EXCEPT !.entries[idx].value = None, !.count = @ - 1]
  /\ UNCHANGED <<old, at, arg>>

\* mutant: the counter is lowered whether or not the key was found
Remove_CountFirst(k) ==
  /\ ~Resizing
  /\ \/ Found(m, k) = {} /\ m' = [m EXCEPT !.count = @ - 1]
     \/ \E idx \in Found(m, k) : m' = [m EXCEPT !.entries[idx].value = Tombstone,
                                              !.count = @ - 1, !.tombstones = @ + 1]
  /\ UNCHANGED <<old, at, arg>>

Remove(k) == /\ ~Resizing
             /\ \/ Found(m, k) = {} /\ UNCHANGED m
                \/ \E idx \in Found(m, k) : m' = [m EXCEPT !.entries[idx].value = Tombstone,
                                                         !.count = @ - 1, !.tombstones = @ + 1]
             /\ UNCHANGED <<old, at, arg>>

\* bt_hashmap_clear keeps the capacity
Clear == /\ ~Resizing
         /\ m' = Empty(m.capacity)
         /\ UNCHANGED <<old, at, arg>>

MapNext == \/ \E k \in Keys, v \in Values : Put(k, v)
           \/ Copy \/ Resized
           \/ \E k \in Keys : Remove(k)
           \/ Clear

MapTable == MapInit /\ [][MapNext]_mapVars
--------------------------------------------------------------------------------
Slots(h) == 0 .. h.capacity - 1
Live(h) == {i \in Slots(h) : ~Vacant(h.entries[i])}
Tombs(h) == {i \in Slots(h) : h.entries[i].value = Tombstone}

\* Type invariant of bt_hashmap_t.
TableTypes(h) == /\ h.entries \in [Slots(h) -> [key : Keys \cup {0}, value : Values \cup {None, Tombstone}]]
                 /\ h.capacity \in Nat /\ h.capacity >= 4
                 /\ h.count \in 0 .. h.capacity /\ h.tombstones \in 0 .. h.capacity

\* bt_hashmap_size is the number of live entries, and there are never more
\* tombstones than the counter says, whatever the history of puts, removals,
\* resizes and failed resizes.
CountsCover(h) == h.count = Cardinality(Live(h)) /\ h.tombstones >= Cardinality(Tombs(h))

\* Every live entry can be found: no slot between the home of its key and its
\* place is empty, also after removals and wrapping around the end of the table.
Reachable(h) ==
  \A i \in Live(h) : \A d \in Slots(h) :
    Probe(h.entries[i].key, d, h.capacity) = i
      => \A c \in 0 .. d - 1 : h.entries[Probe(h.entries[i].key, c, h.capacity)].value # None

\* The probe loops end at an empty slot instead of scanning the whole table, and
\* the "should not reach here" at the end of bt_hashmap_put is not reached.
EmptySlot(h) == \E i \in Slots(h) : h.entries[i].value = None

\* The puts of the loop of _hm_resize do not resize in turn.
NotAgain == Resizing => ~Overloaded(m)

\* The table of bt_hashmap.h is sound, also while it grows: its counters cover what
\* is in it, every live entry can be found, every probe loop meets an empty slot and
\* no resize starts inside of another.
TableInv == TableTypes(m) /\ CountsCover(m) /\ Reachable(m) /\ EmptySlot(m) /\ NotAgain

\* what lookups find: inside of _hm_resize, what they found before it
Contents == [k \in Keys |-> Get(IF Resizing THEN old ELSE m, k)]

Map == INSTANCE KeyMap WITH content <- Contents

\* For callers that put only absent keys, bt_hashmap.h implements a map: put,
\* remove and clear have their effect on every lookup and a resize has none.
MapSpec == Map!Spec
================================================================================
