-------------------------------- MODULE Lifecycle --------------------------------
(***************************************************************************)
(* main.c: the configuration, the resources, the start of the pipeline     *)
(* from its end to its front, the wait for a signal and the shutdown; with *)
(* the market-data thread (md/market_data.c) and the queues at both ends   *)
(* of the pipeline.  The other stages are told apart by what they share.   *)
(***************************************************************************)
EXTENDS Logger, FiniteSets

CONSTANTS MatchingArg,   \* values of --matching-threads
          RiskThreads,   \* g_cfg.risk_threads
          MaxShards,     \* BT_CFG_MATCHING_THREADS: the length of the arrays
          Faults,        \* calls that may fail, by the name of what they make
          SafeMode,      \* --safe-mode
          MaxHealth,     \* bound: health reports
          Cap            \* bound: ticks and responses in a queue

ASSUME LifecycleAssumption == /\ MatchingArg \subseteq Int /\ RiskThreads \in 1 .. 8
                              /\ {MaxShards, MaxHealth, Cap} \subseteq Nat /\ SafeMode \in BOOLEAN

VARIABLES pc,             \* where main is
          matching,       \* g_cfg.matching_threads
          g_running,      \* cleared by the signal handler
          resources,      \* what is allocated and not yet released
          stage,          \* per stage: none, created, running, stopped, gone
          todo,           \* the stages the current loop of main has still to visit
          md_q,           \* per shard: ticks waiting
          response_q,     \* responses waiting
          log, health     \* the logger; health reports so far

vars == <<pc, matching, g_running, resources, stage, todo, md_q, response_q, log, health>>

Matcher(i) == <<"match", i>>
Shards == (0 .. matching - 1) \cap (0 .. 7)

\* the stages in the order main starts them: consumers first
StartOrder(shards) ==
  <<<<"clearing", 0>>, <<"md", 0>>>> \o [i \in 1 .. shards |-> Matcher(i - 1)] \o <<<<"seq", 0>>>>
    \o [i \in 1 .. RiskThreads |-> <<"risk", i - 1>>] \o <<<<"oms", 0>>, <<"gate", 0>>, <<"gw", 0>>>>

\* mutant: the stages are stopped in the order they were started
StopOrder_Started(shards) == StartOrder(shards)

\* the order of the shutdown and of the destruction: producers first, the
\* workers and the shards by their number
StopOrder(shards) ==
  <<<<"gw", 0>>, <<"gate", 0>>, <<"oms", 0>>>> \o [i \in 1 .. RiskThreads |-> <<"risk", i - 1>>]
    \o <<<<"seq", 0>>>> \o [i \in 1 .. shards |-> Matcher(i - 1)] \o <<<<"md", 0>>, <<"clearing", 0>>>>

AllStages == Range(StartOrder(8))
Stages == Range(StartOrder(matching)) \cap AllStages

Init == /\ pc = "config" /\ matching \in MatchingArg /\ g_running = TRUE
        /\ resources = {} /\ todo = <<>>
        /\ stage = [s \in AllStages |-> "none"]
        /\ md_q = [i \in 0 .. 7 |-> 0] /\ response_q = 0
        /\ log = NoLog /\ health = 0
--------------------------------------------------------------------------------
\* mutant: the number has no upper end
Valid_NoEnd(n) == n \in {1, 2, 4, 8, 16}

\* 1 to 8, and n & (n - 1) is zero: a power of two
Valid(n) == n \in 1 .. 8 /\ n \in {1, 2, 4, 8}

Configure == /\ pc = "config"
             /\ pc' = IF Valid(matching) THEN "mempool" ELSE "fatal"
             /\ UNCHANGED <<matching, g_running, resources, stage, todo, md_q, response_q, log, health>>

\* the core of shard i: bt_config_default knows four, main sets the ones in use
MatchCore(i) == 6 + i

\* mutant: the sequencer goes next to the first shard
SequencerCore_Near == MatchCore(1)

SequencerCore == 11

\* the core each stage is registered on with bt_sched_register; main goes on
\* whatever bt_sched_validate answers
Core(s) == CASE s[1] = "gw" -> 2 [] s[1] = "gate" -> 3 [] s[1] = "oms" -> 10
             [] s[1] = "seq" -> SequencerCore [] s[1] = "md" -> MatchCore(3) + 1
             [] s[1] = "clearing" -> 13 [] s[1] = "risk" -> 4 + s[2] [] s[1] = "match" -> MatchCore(s[2])

\* the resources in the order main makes them; each failure ends the process.
\* The queues are initialised after the event bus, one per shard, and with more
\* shards than the arrays have entries anything may happen from there on
After(r) == CASE r = "mempool" -> "journal" [] r = "journal" -> "event_bus"
              [] r = "event_bus" -> (IF matching <= MaxShards THEN "risk_state" ELSE "wild")
              [] r = "risk_state" -> "start"

\* what main logs on the way; a recovery that failed is passed over in silence
Reported(r) == CASE r = "mempool" -> {Logged(log, 2)}
                 [] r = "journal" -> {Logged(log, 2), log}
                 [] r = "risk_state" /\ SafeMode -> {Logged(log, 1)}
                 [] OTHER -> {log}

Acquire == /\ pc \in {"mempool", "journal", "event_bus", "risk_state"}
           /\ resources' = resources \cup {pc}
           /\ pc' = After(pc)
           /\ log' \in Reported(pc)
           /\ todo' = IF pc = "risk_state" THEN StartOrder(matching) ELSE <<>>
           /\ UNCHANGED <<matching, g_running, stage, md_q, response_q, health>>

AcquireFails == /\ pc \in {"mempool", "journal", "event_bus", "risk_state"} \cap Faults
                /\ pc' = "fatal"
                /\ UNCHANGED <<matching, g_running, resources, stage, todo, md_q, response_q, log, health>>

\* create and start the next stage
Start == /\ pc = "start" /\ todo # <<>>
         /\ stage' = [stage EXCEPT ![Head(todo)] = "running"]
         /\ todo' = Tail(todo)
         /\ UNCHANGED <<pc, matching, g_running, resources, md_q, response_q, log, health>>

\* a stage that could not be created is left out, but the sequencer is fatal
StartFails == /\ pc = "start" /\ todo # <<>> /\ Head(todo)[1] \in Faults
              /\ pc' = IF Head(todo)[1] = "seq" THEN "fatal" ELSE pc
              /\ todo' = Tail(todo)
              /\ UNCHANGED <<matching, g_running, resources, stage, md_q, response_q, log, health>>

\* the benchmark, if any, has run: main waits
Started == /\ pc = "start" /\ todo = <<>>
           /\ pc' = "wait"
           /\ log' = Logged(log, 2)
           /\ UNCHANGED <<matching, g_running, resources, stage, todo, md_q, response_q, health>>

\* five seconds have passed: two lines and a flush
Health == /\ pc = "wait" /\ g_running /\ health < MaxHealth
          /\ log' = Flushed(Logged(Logged(log, 2), 2))
          /\ health' = health + 1
          /\ UNCHANGED <<pc, matching, g_running, resources, stage, todo, md_q, response_q>>

Signal == /\ g_running /\ pc \notin {"config", "fatal", "wild", "done"}
          /\ g_running' = FALSE
          /\ UNCHANGED <<pc, matching, resources, stage, todo, md_q, response_q, log, health>>

\* main leaves its loop
Leave == /\ pc = "wait" /\ ~g_running
         /\ pc' = "stop"
         /\ todo' = StopOrder(matching)
         /\ log' = Flushed(Logged(log, 2))
         /\ UNCHANGED <<matching, g_running, resources, stage, md_q, response_q, health>>
--------------------------------------------------------------------------------
\* mutant: the loop passes over a stage only if it was running
Stop_OnlyRunning == /\ pc = "stop" /\ todo # <<>>
                    /\ stage' = IF stage[Head(todo)] = "running"
                                THEN [stage EXCEPT ![Head(todo)] = "stopped"] ELSE stage
                    /\ todo' = IF stage[Head(todo)] = "running" THEN Tail(todo) ELSE todo
                    /\ UNCHANGED <<pc, matching, g_running, resources, md_q, response_q, log, health>>

\* stop the next stage: its running flag is cleared and its thread joined
Stop == /\ pc = "stop" /\ todo # <<>>
        /\ stage' = IF stage[Head(todo)] = "running"
                    THEN [stage EXCEPT ![Head(todo)] = "stopped"] ELSE stage
        /\ todo' = Tail(todo)
        /\ UNCHANGED <<pc, matching, g_running, resources, md_q, response_q, log, health>>

\* mutant: the event bus goes with the journal
CloseJournal_Bus == /\ pc = "stop" /\ todo = <<>>
                    /\ resources' = resources \ {"journal", "event_bus"}
                    /\ pc' = "destroy" /\ todo' = StopOrder(matching)
                    /\ UNCHANGED <<matching, g_running, stage, md_q, response_q, log, health>>

\* bt_journal_flush and bt_journal_close
CloseJournal == /\ pc = "stop" /\ todo = <<>>
                /\ resources' = resources \ {"journal"}
                /\ pc' = "destroy" /\ todo' = StopOrder(matching)
                /\ UNCHANGED <<matching, g_running, stage, md_q, response_q, log, health>>

Destroy == /\ pc = "destroy" /\ todo # <<>>
           /\ stage' = IF stage[Head(todo)] = "stopped"
                       THEN [stage EXCEPT ![Head(todo)] = "gone"] ELSE stage
           /\ todo' = Tail(todo)
           /\ UNCHANGED <<pc, matching, g_running, resources, md_q, response_q, log, health>>

\* the event bus, the risk state and the memory pool, and the process ends
Release == /\ pc = "destroy" /\ todo = <<>>
           /\ resources' = {}
           /\ pc' = "done"
           /\ log' = Flushed(log)
           /\ UNCHANGED <<matching, g_running, stage, todo, md_q, response_q, health>>
--------------------------------------------------------------------------------
(* what the threads do meanwhile *)
Alive == pc \notin {"fatal", "wild", "done"}
Running(s) == Alive /\ stage[s] = "running"

\* mutant: the tick is written whether or not there is room
Trade_NoDrop == \E i \in Shards :
                  /\ Running(Matcher(i)) /\ response_q < Cap
                  /\ md_q' = [md_q EXCEPT ![i] = @ + 1]
                  /\ response_q' = response_q + 1
                  /\ UNCHANGED <<pc, matching, g_running, resources, stage, todo, log, health>>

\* a shard trades: a tick for market data (dropped when its queue is full) and
\* a response
Trade == \E i \in Shards :
           /\ Running(Matcher(i)) /\ response_q < Cap
           /\ md_q' = [md_q EXCEPT ![i] = IF @ < Cap THEN @ + 1 ELSE @]
           /\ response_q' = response_q + 1
           /\ UNCHANGED <<pc, matching, g_running, resources, stage, todo, log, health>>

\* mutant: market data reads the queue of the second shard
MdQueue_Second == 1

\* the queue main gives to bt_md_create
MdQueue == 0

\* md_thread takes a tick
Tick == /\ Running(<<"md", 0>>) /\ md_q[MdQueue] > 0
        /\ md_q' = [md_q EXCEPT ![MdQueue] = @ - 1]
        /\ UNCHANGED <<pc, matching, g_running, resources, stage, todo, response_q, log, health>>

\* the gateway drains the response queue
Respond == /\ Running(<<"gw", 0>>) /\ response_q > 0
           /\ response_q' = 0
           /\ UNCHANGED <<pc, matching, g_running, resources, stage, todo, md_q, log, health>>

Terminated == pc \in {"fatal", "wild", "done"} /\ UNCHANGED vars

Main == \/ Configure \/ Acquire \/ AcquireFails \/ Start \/ StartFails \/ Started \/ Health \/ Leave
        \/ Stop \/ CloseJournal \/ Destroy \/ Release

Next == Main \/ Signal \/ Trade \/ Tick \/ Respond \/ Terminated

Spec == Init /\ [][Next]_vars

\* main and the two consumers are threads the system schedules
Fairness == WF_vars(Main) /\ WF_vars(Tick) /\ WF_vars(Respond)

FairSpec == Spec /\ Fairness
--------------------------------------------------------------------------------
\* Type invariant of main's state.
TypeOK == /\ pc \in {"config", "mempool", "journal", "event_bus", "risk_state", "start", "wait",
                     "stop", "destroy", "done", "fatal", "wild"}
          /\ g_running \in BOOLEAN /\ matching \in Int
          /\ resources \subseteq {"mempool", "journal", "event_bus", "risk_state"}
          /\ stage \in [AllStages -> {"none", "running", "stopped", "gone"}]
          /\ Range(todo) \subseteq AllStages
          /\ md_q \in [0 .. 7 -> 0 .. Cap] /\ response_q \in 0 .. Cap

Uses(s) == CASE s[1] = "match" -> {"mempool", "journal", "event_bus"}
             [] s[1] = "seq" -> {"journal"}
             [] s[1] = "risk" -> {"risk_state"}
             [] s[1] = "clearing" -> {"event_bus"}
             [] OTHER -> {}

\* A thread that runs, and a stage that bt_*_destroy has yet to tear down, finds
\* the journal, the event bus, the risk state and the memory pool it was created
\* with: main makes them first and releases them last, and the journal once the
\* threads that append to it are joined.
ResourcesOutlive == Alive => \A s \in Stages :
  /\ stage[s] = "running" => Uses(s) \subseteq resources
  /\ stage[s] = "stopped" => Uses(s) \ {"journal"} \subseteq resources

Depth(s) == CASE s[1] = "gw" -> 1 [] s[1] = "gate" -> 2 [] s[1] = "oms" -> 3 [] s[1] = "risk" -> 4
              [] s[1] = "seq" -> 5 [] s[1] = "match" -> 6 [] s[1] = "md" -> 7 [] s[1] = "clearing" -> 8

\* main has tried to start s, or has left the start behind
Tried(s) == pc # "start" \/ s \notin Range(todo)

\* On the way of an order, no stage has stopped while one before it still runs,
\* and none runs before main has tried to start the ones after it: what a
\* running stage sends on has a reader, unless that one could not be created.
OrderPathHasReader == Alive => \A s, d \in Stages :
  Depth(s) < Depth(d) /\ stage[s] = "running" =>
    stage[d] = "running" \/ (stage[d] = "none" /\ Tried(d))

Together(s) == {d \in Stages \ {s} : stage[d] = "running" /\ Core(d) = Core(s)}

\* A running shard has its core to itself ("Dedicated core per matching shard",
\* README.md:322).
ShardsAlone == \A i \in Shards :
                 stage[Matcher(i)] = "running" => Together(Matcher(i)) = {}

\* Of the numbers of matching threads that pass the validation of main, only the
\* largest leaves the arrays that bt_config.h sizes.
ShardsFit == pc = "wild" => matching = 2 * MaxShards

\* A running stage has what main promised it: its resources, a place in the arrays
\* and, if it is a shard, a core of its own.
StagesInv == TypeOK /\ ResourcesOutlive /\ ShardsAlone /\ ShardsFit

\* The log of bt_log and bt_log_flush keeps every line, in order, until newer ones
\* need its place, and a process that shuts down has written all lines it kept.
LogComplete == LogKept(log) /\ (pc = "done" => Pending(log) = <<>>)

\* Once a signal arrived the process ends, whatever the queues hold, if it has not
\* left its arrays.
ShutsDown == ~g_running ~> pc \in {"done", "fatal", "wild"}

\* While the market-data thread runs, it takes the ticks of the first shard,
\* unless main is on its way out.
FirstShardTicks == (md_q[0] = Cap /\ stage[<<"md", 0>>] = "running")
                     ~> (md_q[0] < Cap \/ ~g_running \/ pc = "fatal")
================================================================================
