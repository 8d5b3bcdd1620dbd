------------------------------- MODULE MCGateway -------------------------------
(* Instances of Gateway for TLC: the scripts of the clients. *)
EXTENDS Gateway

F(kind, len) == [kind |-> kind, id |-> 0, len |-> len]

\* sessions with every kind of frame, fragmented and not
Sessions == {<<F("auth", 1), F("order", 2), F("cancel", 1)>>,
             <<F("order", 1), F("badauth", 1), F("order", 2)>>,
             <<F("auth", 1), F("bad", 1), F("order", 1)>>,
             <<F("auth", 2), F("other", 1), F("order", 2)>>}

\* one client trades, the next one in its slot does not authenticate
Trade == <<F("auth", 1), F("order", 1)>>
Handover == {Trade, <<F("order", 1)>>}
================================================================================
