-------------------------------- MODULE GwRules --------------------------------
(***************************************************************************)
(* What gw_push_order (net/gateway.c) decides about one order: the rate    *)
(* window of the connection, then the ring of request ids.                 *)
(***************************************************************************)
EXTENDS Integers

CONSTANTS RateLimit,    \* BT_CFG_RATE_LIMIT_RPS
          Second,       \* the window length, in clock ticks
          IdemSlots     \* GW_IDEM_RING_SIZE

ASSUME RulesAssumption == /\ RateLimit \in Nat
                          /\ Second \in Nat
                          /\ IdemSlots \in Nat \ {0}

NoIds == [i \in 0 .. IdemSlots - 1 |-> 0]

\* request_id & (GW_IDEM_RING_SIZE - 1)
IdemSlot(id) == id % IdemSlots

\* mutant: a window never ends
WindowOver_Never(now, start) == FALSE

WindowOver(now, start) == now - start > Second

\* mutant: one order too many
UnderLimit_OffByOne(count) == count <= RateLimit

UnderLimit(count) == count < RateLimit

\* mutant: only the slot is looked at
Seen_SlotOnly(idem, id) == id # 0 /\ idem[IdemSlot(id)] # 0

Seen(idem, id) == id # 0 /\ idem[IdemSlot(id)] = id

\* mutant: an occupied slot is left alone
Record_KeepOld(idem, id) == IF id = 0 \/ idem[IdemSlot(id)] # 0 THEN idem
                            ELSE [idem EXCEPT ![IdemSlot(id)] = id]

Record(idem, id) == IF id = 0 THEN idem ELSE [idem EXCEPT ![IdemSlot(id)] = id]

\* The outcome for an order with request id `id` at time `now`, given the window
\* of the connection and the ids on record: the new window and ids, and whether
\* the order goes on to the OMS queue.
Admit(now, start, count, idem, id) ==
  LET over == WindowOver(now, start)
      s == IF over THEN now ELSE start
      n == IF over THEN 0 ELSE count
      go == UnderLimit(n) /\ ~Seen(idem, id)
  IN  [start |-> s,
       count |-> IF go THEN n + 1 ELSE n,
       idem  |-> IF go THEN Record(idem, id) ELSE idem,
       dup   |-> UnderLimit(n) /\ Seen(idem, id),
       go    |-> go]
================================================================================
