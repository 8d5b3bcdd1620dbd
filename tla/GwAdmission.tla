------------------------------ MODULE GwAdmission ------------------------------
(***************************************************************************)
(* A stream of orders through gw_push_order: the connections of one        *)
(* gateway thread share the ring of request ids, each has a rate window of *)
(* its own, and the clock moves.  An accepted order is given to the OMS queue; *)
(* whether the queue takes it changes nothing here, since the result of    *)
(* BT_MPSC_PUSH is ignored.                                                *)
(***************************************************************************)
EXTENDS GwRules, Sequences, FiniteSets

CONSTANTS Conns,      \* connections
          Ids,        \* request ids the clients use (0: none)
          MaxTime,    \* bound: clock ticks
          MaxOrders   \* bound: orders received

ASSUME AdmissionAssumption == Ids \subseteq Nat /\ {MaxTime, MaxOrders} \subseteq Nat

VARIABLES now, start, count, idem,   \* clock; rate window per connection; ids
          received,                  \* orders_received
          log                        \* history: what became of every order

vars == <<now, start, count, idem, received, log>>

Init == /\ now = 0
        /\ start = [c \in Conns |-> 0]
        /\ count = [c \in Conns |-> 0]
        /\ idem = NoIds
        /\ received = 0
        /\ log = << >>

Fate(a) == IF a.go THEN "accepted" ELSE IF a.dup THEN "duplicate" ELSE "limited"

\* mutant: the window of the connection is not written back
PushOrder_NoCount(c, id) ==
  LET a == Admit(now, start[c], count[c], idem, id)
  IN  /\ start' = [start EXCEPT ![c] = a.start]
      /\ idem' = a.idem
      /\ received' = IF a.go THEN received + 1 ELSE received
      /\ log' = Append(log, [conn |-> c, id |-> id, at |-> now, fate |-> Fate(a)])
      /\ UNCHANGED <<now, count>>

\* gw_push_order
PushOrder(c, id) ==
  LET a == Admit(now, start[c], count[c], idem, id)
  IN  /\ start' = [start EXCEPT ![c] = a.start]
      /\ count' = [count EXCEPT ![c] = a.count]
      /\ idem' = a.idem
      /\ received' = IF a.go THEN received + 1 ELSE received
      /\ log' = Append(log, [conn |-> c, id |-> id, at |-> now, fate |-> Fate(a)])
      /\ UNCHANGED now

Order == /\ Len(log) < MaxOrders
         /\ \E c \in Conns, id \in Ids : PushOrder(c, id)

Tick == /\ now < MaxTime
        /\ now' = now + 1
        /\ UNCHANGED <<start, count, idem, received, log>>

Next == Order \/ Tick

Spec == Init /\ [][Next]_vars
--------------------------------------------------------------------------------
Accepted(i) == log[i].fate = "accepted"
Collide(x, y) == x # y /\ x # 0 /\ y # 0 /\ IdemSlot(x) = IdemSlot(y)

\* Type invariant of the admission state of gw_conn_t and gw_ctx_t.
TypeOK == /\ now \in 0 .. MaxTime
          /\ start \in [Conns -> 0 .. now]
          /\ count \in [Conns -> 0 .. RateLimit]
          /\ idem \in [0 .. IdemSlots - 1 -> Ids \cup {0}]
          /\ log \in Seq([conn : Conns, id : Ids, at : 0 .. now,
                          fate : {"accepted", "duplicate", "limited"}])

\* orders_received counts the accepted orders.
ReceivedExact == received = Cardinality({i \in DOMAIN log : Accepted(i)})

\* The orders of connection c accepted in the closed interval from a to b.
InSpan(c, a, b) == {i \in DOMAIN log : log[i].conn = c /\ Accepted(i)
                                         /\ log[i].at \in a .. b}

\* The counter of a connection is the number of orders accepted since its window
\* began, none of them more than a second later, and what was accepted in the
\* second before that stayed under the limit: it belongs to one earlier window.
WindowsTrue ==
  \A c \in Conns :
    /\ \A i \in InSpan(c, 0, now) : log[i].at <= start[c] + Second
    /\ count[c] = Cardinality(InSpan(c, start[c], now))
    /\ \A t \in 0 .. MaxTime : t + Second >= start[c] =>
         Cardinality(InSpan(c, t, start[c] - 1)) <= RateLimit

\* An id in idem_ring was accepted, and an accepted id is there until one that
\* collides with it is accepted.
RingTrue ==
  /\ \A s \in 0 .. IdemSlots - 1 : idem[s] # 0 =>
       \E i \in DOMAIN log : Accepted(i) /\ log[i].id = idem[s]
  /\ \A i \in DOMAIN log : Accepted(i) /\ log[i].id # 0 =>
       \/ idem[IdemSlot(log[i].id)] = log[i].id
       \/ \E k \in i + 1 .. Len(log) : Accepted(k) /\ Collide(log[k].id, log[i].id)

\* The window of gw_push_order lets at most twice the limit through in any span
\* of one second, wherever the span lies relative to the windows.
RateBounded == \A c \in Conns, t \in 0 .. MaxTime :
                 Cardinality(InSpan(c, t, t + Second)) <= 2 * RateLimit

\* The limit of one connection is never used up by another: an order is refused
\* only after RateLimit accepted ones of the same connection within a second.
RefusedOnlyAtLimit ==
  \A i \in DOMAIN log : log[i].fate = "limited" =>
    Cardinality({j \in InSpan(log[i].conn, log[i].at - Second, log[i].at) : j < i}) >= RateLimit

\* The rate window of gw_push_order errs by a bounded amount in one direction, and
\* not at all in the other; with what the counters and the ring of ids stand for.
RateInv == /\ TypeOK /\ ReceivedExact /\ WindowsTrue /\ RingTrue
           /\ RateBounded /\ RefusedOnlyAtLimit

\* A request id is accepted a second time only if, in between, an id of the same
\* slot of idem_ring was: on any connection of the thread.
DuplicateNeedsCollision ==
  \A i, j \in DOMAIN log :
    i < j /\ log[i].id = log[j].id /\ log[i].id # 0 /\ Accepted(i) /\ Accepted(j)
      => \E k \in i + 1 .. j - 1 : Accepted(k) /\ Collide(log[k].id, log[i].id)

\* An order is turned away as a duplicate only if its id was accepted before: a
\* collision in idem_ring never rejects a new id.
NoFalseReject ==
  \A j \in DOMAIN log : log[j].fate = "duplicate" =>
    \E i \in 1 .. j - 1 : log[i].id = log[j].id /\ Accepted(i)
================================================================================
