-------------------------------- MODULE Benchmark --------------------------------
(***************************************************************************)
(* The load generator (bench/benchmark.c) as one of the producers of the   *)
(* order queue, with its latency statistics (utils/timer.c).  Its orders   *)
(* are random, so every choice of xorshift64 is possible; what it computes *)
(* between two accesses of the queue is part of the access that follows or *)
(* precedes.  Time is counted from bench_start.                            *)
(***************************************************************************)
EXTENDS MpscQueue, Folds, Functions, TLC

CONSTANTS Injector,     \* the main thread, which runs the benchmark
          NumOrders,    \* num_orders
          BasePrice,    \* the price of the symbol at the start
          Deltas,       \* price differences of an order
          Gaps,         \* time that may pass from one order to the next
          Us, Bins      \* ns in a microsecond, bins of the histogram: 1000 and 16

ASSUME BenchAssumption == /\ Injector \in Producers /\ NumOrders \in Nat \ {0}
                          /\ BasePrice \in Nat \ {0} /\ Deltas \subseteq Int
                          /\ Gaps \subseteq Nat /\ {Us, Bins} \subseteq Nat \ {0}

VARIABLES bpc, memory,             \* step of bt_benchmark_run, its allocations
          base_price, req,         \* the symbol's price, the order being sent
          send_ts, last_push_ns,
          orders_sent, orders_dropped,
          intervals_ns, stats,
          percentiles              \* what was printed

order == <<base_price, req, send_ts>>
tally == <<last_push_ns, orders_sent, orders_dropped, intervals_ns, stats>>
bench == <<bpc, memory, order, tally, percentiles>>
benchVars == <<vars, bench>>

NoOrder == [type |-> "NONE", price |-> 0]
Never == 2 ^ 30      \* UINT64_MAX: above every interval
Arrays == {"symbols", "base_prices", "intervals_ns"}
Fractions == {500, 950, 990, 999}    \* in thousandths

\* bt_latency_stats_init
NoStats == [min_ns |-> Never, max_ns |-> 0, sum_ns |-> 0, count |-> 0,
            histogram |-> [b \in 0 .. Bins - 1 |-> 0]]

BenchInit == /\ Init /\ bpc = "start" /\ memory = {}
             /\ base_price = BasePrice /\ req = NoOrder
             /\ send_ts = 0 /\ last_push_ns = 0
             /\ orders_sent = 0 /\ orders_dropped = 0
             /\ intervals_ns = <<>> /\ stats = NoStats /\ percentiles = <<>>

\* the allocations: the first two are given back if one of them fails, and kept
\* if the third fails
Allocate == /\ bpc = "start"
            /\ \/ bpc' = "done" /\ memory' = {}
               \/ bpc' = "done" /\ memory' = {"symbols", "base_prices"}
               \/ bpc' = "run" /\ memory' = Arrays
            /\ UNCHANGED <<vars, order, tally, percentiles>>
--------------------------------------------------------------------------------
(* one order *)

\* mutant: the walk of the price has no floor
Limit_NoFloor(delta) == base_price + delta

\* the price of a limit order, which becomes the price of the symbol
Limit(delta) == IF base_price + delta <= 0 THEN base_price ELSE base_price + delta

\* an immediate order is priced around the symbol, a market order at zero
Generated == \E delta \in Deltas :
               \/ /\ req' = [type |-> "LIMIT", price |-> Limit(delta)]
                  /\ base_price' = Limit(delta)
               \/ /\ req' \in {[type |-> "MARKET", price |-> 0],
                               [type |-> "IOC", price |-> base_price + delta],
                               [type |-> "FOK", price |-> base_price + delta]}
                  /\ UNCHANGED base_price

\* generate an order, take its time and enter BT_MPSC_PUSH
Inject == /\ bpc = "run" /\ pc[Injector] = "idle" /\ n[Injector] < NumOrders
          /\ Generated
          /\ \E gap \in Gaps : send_ts' = send_ts + gap
          /\ PushLoad(Injector)
          /\ UNCHANGED <<bpc, memory, tally, percentiles>>

\* the steps inside of BT_MPSC_PUSH
Pushing == /\ pc[Injector] # "idle"
           /\ PushLoad(Injector) \/ PushRoom(Injector) \/ PushCas(Injector) \/ PushCasFail(Injector)
           /\ UNCHANGED bench

\* how often the loop shifts before nothing is left
Shifts[us \in Nat] == IF us <= 1 THEN 0 ELSE 1 + Shifts[us \div 2]

\* mutant: the shift that ends the loop is counted
Bin_Late(ns) == Shifts[2 * (ns \div Us)]

Bin(ns) == Shifts[ns \div Us]

\* bt_latency_stats_record; a sample past the last bin is in none
Recorded(s, ns) ==
  [min_ns |-> IF ns < s.min_ns THEN ns ELSE s.min_ns,
   max_ns |-> IF ns > s.max_ns THEN ns ELSE s.max_ns,
   sum_ns |-> s.sum_ns + ns, count |-> s.count + 1,
   histogram |-> [b \in 0 .. Bins - 1 |-> s.histogram[b] + (IF b = Bin(ns) THEN 1 ELSE 0)]]

\* the push has returned 1
Sent == /\ PushWrite(Injector)
        /\ orders_sent' = orders_sent + 1
        /\ intervals_ns' = Append(intervals_ns, send_ts - last_push_ns)
        /\ stats' = Recorded(stats, send_ts - last_push_ns)
        /\ last_push_ns' = send_ts /\ req' = NoOrder
        /\ UNCHANGED <<bpc, memory, base_price, send_ts, orders_dropped, percentiles>>

\* mutant: a dropped order restarts the interval
Dropped_Restart == /\ PushFull(Injector)
                   /\ orders_dropped' = orders_dropped + 1
                   /\ last_push_ns' = send_ts /\ req' = NoOrder
                   /\ UNCHANGED <<bpc, memory, base_price, send_ts, orders_sent, intervals_ns, stats,
                                  percentiles>>

\* the push has returned 0
Dropped == /\ PushFull(Injector)
           /\ orders_dropped' = orders_dropped + 1 /\ req' = NoOrder
           /\ UNCHANGED <<bpc, memory, base_price, send_ts, last_push_ns, orders_sent, intervals_ns,
                          stats, percentiles>>
--------------------------------------------------------------------------------
(* the report *)

\* mutant: the index is rounded up
PercentileIndex_Up(count, p) == (count * p + 999) \div 1000

\* the index bt_latency_percentiles reads, from zero
PercentileIndex(count, p) == (count * p) \div 1000

\* bt_latency_percentiles of the sorted intervals; past them the array holds
\* values that are no intervals
Percentiles(sorted) == LET at(i) == IF i < Len(sorted) THEN sorted[i + 1] ELSE Never
                       IN  [p \in Fractions |-> at(PercentileIndex(Len(sorted), p))]

Report == /\ bpc = "run" /\ pc[Injector] = "idle" /\ n[Injector] = NumOrders
          /\ percentiles' = IF Len(intervals_ns) > 1 THEN Percentiles(SortSeq(intervals_ns, <)) ELSE <<>>
          /\ bpc' = "done" /\ memory' = {}
          /\ UNCHANGED <<vars, order, tally>>

Bench == Allocate \/ Inject \/ Pushing \/ Sent \/ Dropped \/ Report

BenchNext == \/ Bench
             \/ /\ \/ \E p \in Producers \ {Injector} : Push(p)
                   \/ \E c \in Consumers : Pop(c)
                /\ UNCHANGED bench

\* The threads keep running: a gateway that has begun to push, the consumer and
\* the benchmark.
BenchSpec == /\ BenchInit /\ [][BenchNext]_benchVars
             /\ WF_benchVars(Bench)
             /\ \A p \in Producers \ {Injector} : WF_benchVars(Push(p) /\ UNCHANGED bench)
             /\ \A c \in Consumers : WF_benchVars(Pop(c) /\ UNCHANGED bench)
--------------------------------------------------------------------------------
Samples(P(_)) == Cardinality({i \in DOMAIN intervals_ns : P(intervals_ns[i])})

\* Type invariant of the benchmark.
BenchTypes == /\ bpc \in {"start", "run", "done"} /\ memory \subseteq Arrays
              /\ base_price \in Int /\ req \in [type : {"NONE", "LIMIT", "MARKET", "IOC", "FOK"}, price : Int]
              /\ {send_ts, last_push_ns, orders_sent, orders_dropped} \subseteq Nat
              /\ intervals_ns \in Seq(Nat)

\* The counts printed by bt_benchmark_run are the truth about the queue: every
\* order is sent or dropped, and the orders sent are those that were claimed for
\* the injector, whatever the gateway pushes in between.
CountsTrue ==
  /\ orders_sent + orders_dropped = n[Injector]
  /\ orders_sent + (IF pc[Injector] = "write" THEN 1 ELSE 0)
       = Cardinality({i \in DOMAIN claims : claims[i][1] = Injector})

\* The intervals add up to the time of the last order sent, also across orders
\* that were dropped, and min, max, sum, count and histogram of
\* bt_latency_stats_record are those of the intervals.
IntervalsExact ==
  LET ns == {intervals_ns[i] : i \in DOMAIN intervals_ns}
  IN  /\ Len(intervals_ns) = orders_sent /\ stats.count = orders_sent
      /\ stats.sum_ns = last_push_ns /\ last_push_ns <= send_ts
      /\ FoldFunction(+, 0, intervals_ns) = last_push_ns
      /\ ns # {} => {stats.min_ns, stats.max_ns} \subseteq ns /\ ns \subseteq stats.min_ns .. stats.max_ns
      /\ \A b \in 0 .. Bins - 1 :
           stats.histogram[b] = Samples(LAMBDA x : LET us == x \div Us IN
                                   us < 2 ^ (b + 1) /\ (b = 0 \/ us >= 2 ^ b))

\* Every percentile printed is one of the intervals: at most that fraction of
\* them is below it, and more than that fraction at or below it.
PercentilesSound ==
  percentiles # <<>> =>
    \A p \in Fractions : /\ Samples(LAMBDA x : x < percentiles[p]) * 1000 <= Len(intervals_ns) * p
                         /\ Samples(LAMBDA x : x <= percentiles[p]) * 1000 > Len(intervals_ns) * p

\* The benchmark reports what happened: true counts, exact intervals, percentiles
\* of them, limit orders with a positive price however far the prices walked down,
\* and no memory left behind unless the third allocation failed.
BenchExact == /\ BenchTypes /\ CountsTrue /\ IntervalsExact /\ PercentilesSound
              /\ base_price > 0 /\ (req.type = "LIMIT" => req.price > 0)
              /\ bpc = "done" /\ n[Injector] > 0 => memory = {}
==================================================================================
