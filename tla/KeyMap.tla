-------------------------------- MODULE KeyMap --------------------------------
(* What bt_hashmap.h promises its users: a finite map from keys to values. *)

CONSTANTS Keys, Values, None

VARIABLE content    \* a value for every key, None for absent ones

Init == content = [k \in Keys |-> None]

Put(k, v) == content[k] = None /\ content' = [content EXCEPT ![k] = v]

Remove(k) == content[k] # None /\ content' = [content EXCEPT ![k] = None]

Clear == content' = [k \in Keys |-> None]

Next == (\E k \in Keys, v \in Values : Put(k, v)) \/ (\E k \in Keys : Remove(k)) \/ Clear

Spec == Init /\ [][Next]_content
===============================================================================
