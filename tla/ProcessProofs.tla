----------------------------- MODULE ProcessProofs -----------------------------
(***************************************************************************)
(* The life of the process: what main, its shards and the logger do from   *)
(* the first line of main to the last, for every number of shards and of   *)
(* orders.  And the hash map of its library, for every capacity and every  *)
(* set of keys, which shares nothing with it.                              *)
(***************************************************************************)
EXTENDS Lifecycle, HashMap, SequenceFacts, TLAPS

\* The types of the logger's state.
LogTypes(l) ==
  /\ l \in [ring : [0 .. RingSize - 1 -> Nat], head : 0 .. RingSize - 1, tail : 0 .. RingSize - 1,
            lines : Nat, out : Seq(Nat), dropped : SUBSET Nat]

LogOK(l) == LogTypes(l) /\ LogKept(l)

Falling(q) == \A i, j \in 1 .. Len(q) : i < j => Depth(q[j]) <= Depth(q[i])
Rising(q) == \A i, j \in 1 .. Len(q) : i < j => Depth(q[i]) <= Depth(q[j])

Made == {"mempool", "journal", "event_bus", "risk_state"}
Begun == {"start", "wait", "stop", "destroy", "done"}

\* main has shards for which it has arrays
Placed == Valid(matching) /\ matching <= MaxShards

\* What main has made when it reaches a point of its start.
MadeInv == /\ pc = "journal" => "mempool" \in resources
           /\ pc = "event_bus" => {"mempool", "journal"} \subseteq resources
           /\ pc = "risk_state" => {"mempool", "journal", "event_bus"} \subseteq resources
           /\ pc \in {"start", "wait", "stop"} => resources = Made
           /\ pc = "destroy" => resources = Made \ {"journal"}

\* How many shards there may be.
ShardsInv == /\ pc \in {"mempool", "journal", "event_bus", "wild"} => Valid(matching)
             /\ pc \in Begun \cup {"risk_state"} => Placed
             /\ pc = "wild" => matching > MaxShards
             /\ \A s \in AllStages : stage[s] # "none" => Placed

\* The stages that the loops of main have passed and the ones they have not.
LoopInv ==
  /\ pc \notin Begun \cup {"fatal"} => \A s \in Stages : stage[s] = "none"
  /\ pc \in {"start", "wait"} => \A s \in Stages : stage[s] \in {"none", "running"}
  /\ pc = "start" =>
       /\ Falling(todo)
       /\ \A s \in Stages : stage[s] = "running" => \A d \in Range(todo) : Depth(d) <= Depth(s)
  /\ pc = "stop" =>
       /\ Rising(todo)
       /\ \A s \in Stages : stage[s] \in {"none", "running", "stopped"}
       /\ \A s \in Stages : stage[s] = "running" => s \in Range(todo)
       /\ \A s \in Stages : stage[s] = "stopped" => \A d \in Range(todo) : Depth(s) <= Depth(d)
  /\ pc = "destroy" => \A s \in Stages : stage[s] # "running"

MainInv == TypeOK /\ todo \in Seq(AllStages) /\ MadeInv /\ ShardsInv /\ LoopInv

LogInv == LogOK(log) /\ (pc = "done" => log.head = log.tail)

(* ---- the orders of main ---- *)
Matchers(n) == {<<"match", i>> : i \in 0 .. n - 1}
Workers == {<<"risk", i>> : i \in 0 .. RiskThreads - 1}
StageSet(n) == ((({<<"clearing", 0>>, <<"md", 0>>} \cup Matchers(n)) \cup {<<"seq", 0>>}) \cup Workers)
                 \cup {<<"oms", 0>>, <<"gate", 0>>, <<"gw", 0>>}

\* q goes through the stages of S, none of them before the place of low, towards the front.
Falls(q, S, low) == /\ q \in Seq(S) /\ Range(q) = S /\ Falling(q)
                    /\ \A s \in S : Depth(s) \in Int /\ Depth(s) >= low

\* q goes through the stages of S, none of them behind the place of high, towards the end.
Rises(q, S, high) == /\ q \in Seq(S) /\ Range(q) = S /\ Rising(q)
                     /\ \A s \in S : Depth(s) \in Int /\ Depth(s) <= high

\* The places of the stages on the way of an order.
LEMMA DepthOf ==
  /\ Depth(<<"gw", 0>>) = 1 /\ Depth(<<"gate", 0>>) = 2 /\ Depth(<<"oms", 0>>) = 3
  /\ \A i : Depth(<<"risk", i>>) = 4 /\ Depth(<<"match", i>>) = 6
  /\ Depth(<<"seq", 0>>) = 5 /\ Depth(<<"md", 0>>) = 7 /\ Depth(<<"clearing", 0>>) = 8
BY DEF Depth

\* What a list that is put together from two goes through.
LEMMA RangeJoin ==
  ASSUME NEW T, NEW p \in Seq(T), NEW q \in Seq(T)
  PROVE  p \o q \in Seq(T) /\ Range(p \o q) = Range(p) \cup Range(q)
<1>2. /\ p \o q \in Seq(T) /\ Len(p \o q) = Len(p) + Len(q) /\ Len(p) \in Nat /\ Len(q) \in Nat
      /\ \A k \in 1 .. Len(p) + Len(q) : (p \o q)[k] = IF k <= Len(p) THEN p[k] ELSE q[k - Len(p)]
  BY SeqConcat, SeqLen
<1>3. /\ DOMAIN p = 1 .. Len(p) /\ DOMAIN q = 1 .. Len(q) /\ DOMAIN (p \o q) = 1 .. Len(p \o q)
  BY <1>2, SeqLen
<1> DEFINE r == p \o q
<1> HIDE DEF r
<1>4. /\ Len(r) = Len(p) + Len(q) /\ DOMAIN r = 1 .. Len(r)
      /\ \A k \in 1 .. Len(p) + Len(q) : r[k] = IF k <= Len(p) THEN p[k] ELSE q[k - Len(p)]
  BY <1>2, <1>3, Zenon DEF r
<1>5. ASSUME NEW k \in 1 .. Len(r) PROVE r[k] \in Range(p) \cup Range(q)
  <2>1. CASE k <= Len(p)
    <3>1. k \in 1 .. Len(p) /\ r[k] = p[k]
      BY <1>2, <1>4, <2>1
    <3> QED BY <1>3, <3>1, Zenon DEF Range
  <2>2. CASE ~(k <= Len(p))
    <3>1. k - Len(p) \in 1 .. Len(q) /\ r[k] = q[k - Len(p)]
      BY <1>2, <1>4, <2>2
    <3> QED BY <1>3, <3>1, Zenon DEF Range
  <2> QED BY <2>1, <2>2, Zenon
<1>6. ASSUME NEW k \in 1 .. Len(p) PROVE p[k] \in Range(r)
  <2>1. k \in 1 .. Len(r) /\ r[k] = p[k]
    BY <1>2, <1>4
  <2> QED BY <1>4, <2>1, Zenon DEF Range
<1>7. ASSUME NEW k \in 1 .. Len(q) PROVE q[k] \in Range(r)
  <2>1. Len(p) + k \in 1 .. Len(r) /\ r[Len(p) + k] = q[k]
    <3>1. Len(p) + k \in 1 .. Len(p) + Len(q) /\ ~(Len(p) + k <= Len(p)) /\ (Len(p) + k) - Len(p) = k
      BY <1>2
    <3> QED BY <1>4, <3>1, Zenon
  <2> QED BY <1>4, <2>1, Zenon DEF Range
<1>8. Range(r) = Range(p) \cup Range(q)
  BY <1>3, <1>4, <1>5, <1>6, <1>7, Zenon DEF Range
<1> QED BY <1>2, <1>8, Zenon DEF r

\* One way towards the front after another that ends before it begins.
LEMMA FallsJoin ==
  ASSUME NEW p, NEW q, NEW S, NEW U, NEW a \in Int, NEW b \in Int, b <= a,
         Falls(p, S, a), Falls(q, U, b), \A s \in U : Depth(s) <= a
  PROVE  Falls(p \o q, S \cup U, b)
<1>1. p \in Seq(S) /\ q \in Seq(U) /\ Range(p) = S /\ Range(q) = U
  BY Zenon DEF Falls
<1>2. p \o q \in Seq(S \cup U) /\ Range(p \o q) = S \cup U
  <2>1. p \in Seq(S \cup U) /\ q \in Seq(S \cup U)
    BY <1>1, SeqWider
  <2>2. p \o q \in Seq(S \cup U) /\ Range(p \o q) = Range(p) \cup Range(q)
    BY <2>1, RangeJoin
  <2> QED BY <1>1, <2>2, Zenon
<1>3. \A s \in S \cup U : Depth(s) \in Int /\ Depth(s) >= b
  <2>1. \A s \in S : Depth(s) \in Int /\ Depth(s) >= a
    BY Zenon DEF Falls
  <2>2. \A s \in U : Depth(s) \in Int /\ Depth(s) >= b
    BY Zenon DEF Falls
  <2> QED BY <2>1, <2>2
<1>4. /\ Len(p \o q) = Len(p) + Len(q) /\ Len(p) \in Nat /\ Len(q) \in Nat
      /\ \A k \in 1 .. Len(p) + Len(q) : (p \o q)[k] = IF k <= Len(p) THEN p[k] ELSE q[k - Len(p)]
  <2>1. p \in Seq(S \cup U) /\ q \in Seq(S \cup U)
    BY <1>1, SeqWider
  <2> QED BY <2>1, SeqConcat, SeqLen
<1> DEFINE r == p \o q
<1> HIDE DEF r
<1>5. /\ Len(r) = Len(p) + Len(q)
      /\ \A k \in 1 .. Len(r) : r[k] = IF k <= Len(p) THEN p[k] ELSE q[k - Len(p)]
  BY <1>4, Zenon DEF r
<1>6. /\ \A k \in 1 .. Len(p) : p[k] \in S
      /\ \A k \in 1 .. Len(q) : q[k] \in U
  BY <1>1, SeqElement, Zenon
<1>7. ASSUME NEW i \in 1 .. Len(r), NEW j \in 1 .. Len(r), i < j PROVE Depth(r[j]) <= Depth(r[i])
  <2>1. CASE j <= Len(p)
    <3>1. i \in 1 .. Len(p) /\ j \in 1 .. Len(p) /\ r[i] = p[i] /\ r[j] = p[j]
      BY <1>4, <1>5, <1>7, <2>1
    <3> QED BY <1>7, <3>1, Zenon DEF Falls, Falling
  <2>2. CASE ~(i <= Len(p))
    <3>1. /\ i - Len(p) \in 1 .. Len(q) /\ j - Len(p) \in 1 .. Len(q) /\ i - Len(p) < j - Len(p)
          /\ r[i] = q[i - Len(p)] /\ r[j] = q[j - Len(p)]
      BY <1>4, <1>5, <1>7, <2>2
    <3> QED BY <3>1, Zenon DEF Falls, Falling
  <2>3. CASE i <= Len(p) /\ ~(j <= Len(p))
    <3>1. i \in 1 .. Len(p) /\ j - Len(p) \in 1 .. Len(q) /\ r[i] = p[i] /\ r[j] = q[j - Len(p)]
      BY <1>4, <1>5, <2>3
    <3>2. r[i] \in S /\ r[j] \in U
      BY <1>6, <3>1, Zenon
    <3>3. Depth(r[i]) >= a /\ Depth(r[i]) \in Int /\ Depth(r[j]) <= a /\ Depth(r[j]) \in Int
      BY <3>2, Zenon DEF Falls
    <3> QED BY <3>3
  <2> QED BY <1>4, <1>5, <2>1, <2>2, <2>3
<1>8. Falling(r)
  BY <1>7, Zenon DEF Falling
<1> QED BY <1>2, <1>3, <1>8, Zenon DEF Falls, r

\* One way towards the end after another that ends before it begins.
LEMMA RisesJoin ==
  ASSUME NEW p, NEW q, NEW S, NEW U, NEW a \in Int, NEW b \in Int, a <= b,
         Rises(p, S, a), Rises(q, U, b), \A s \in U : Depth(s) >= a
  PROVE  Rises(p \o q, S \cup U, b)
<1>1. p \in Seq(S) /\ q \in Seq(U) /\ Range(p) = S /\ Range(q) = U
  BY Zenon DEF Rises
<1>2. p \o q \in Seq(S \cup U) /\ Range(p \o q) = S \cup U
  <2>1. p \in Seq(S \cup U) /\ q \in Seq(S \cup U)
    BY <1>1, SeqWider
  <2>2. p \o q \in Seq(S \cup U) /\ Range(p \o q) = Range(p) \cup Range(q)
    BY <2>1, RangeJoin
  <2> QED BY <1>1, <2>2, Zenon
<1>3. \A s \in S \cup U : Depth(s) \in Int /\ Depth(s) <= b
  <2>1. \A s \in S : Depth(s) \in Int /\ Depth(s) <= a
    BY Zenon DEF Rises
  <2>2. \A s \in U : Depth(s) \in Int /\ Depth(s) <= b
    BY Zenon DEF Rises
  <2> QED BY <2>1, <2>2
<1>4. /\ Len(p \o q) = Len(p) + Len(q) /\ Len(p) \in Nat /\ Len(q) \in Nat
      /\ \A k \in 1 .. Len(p) + Len(q) : (p \o q)[k] = IF k <= Len(p) THEN p[k] ELSE q[k - Len(p)]
  <2>1. p \in Seq(S \cup U) /\ q \in Seq(S \cup U)
    BY <1>1, SeqWider
  <2> QED BY <2>1, SeqConcat, SeqLen
<1> DEFINE r == p \o q
<1> HIDE DEF r
<1>5. /\ Len(r) = Len(p) + Len(q)
      /\ \A k \in 1 .. Len(r) : r[k] = IF k <= Len(p) THEN p[k] ELSE q[k - Len(p)]
  BY <1>4, Zenon DEF r
<1>6. /\ \A k \in 1 .. Len(p) : p[k] \in S
      /\ \A k \in 1 .. Len(q) : q[k] \in U
  BY <1>1, SeqElement, Zenon
<1>7. ASSUME NEW i \in 1 .. Len(r), NEW j \in 1 .. Len(r), i < j PROVE Depth(r[i]) <= Depth(r[j])
  <2>1. CASE j <= Len(p)
    <3>1. i \in 1 .. Len(p) /\ j \in 1 .. Len(p) /\ r[i] = p[i] /\ r[j] = p[j]
      BY <1>4, <1>5, <1>7, <2>1
    <3> QED BY <1>7, <3>1, Zenon DEF Rises, Rising
  <2>2. CASE ~(i <= Len(p))
    <3>1. /\ i - Len(p) \in 1 .. Len(q) /\ j - Len(p) \in 1 .. Len(q) /\ i - Len(p) < j - Len(p)
          /\ r[i] = q[i - Len(p)] /\ r[j] = q[j - Len(p)]
      BY <1>4, <1>5, <1>7, <2>2
    <3> QED BY <3>1, Zenon DEF Rises, Rising
  <2>3. CASE i <= Len(p) /\ ~(j <= Len(p))
    <3>1. i \in 1 .. Len(p) /\ j - Len(p) \in 1 .. Len(q) /\ r[i] = p[i] /\ r[j] = q[j - Len(p)]
      BY <1>4, <1>5, <2>3
    <3>2. r[i] \in S /\ r[j] \in U
      BY <1>6, <3>1, Zenon
    <3>3. Depth(r[i]) <= a /\ Depth(r[i]) \in Int /\ Depth(r[j]) >= a /\ Depth(r[j]) \in Int
      BY <3>2, Zenon DEF Rises
    <3> QED BY <3>3
  <2> QED BY <1>4, <1>5, <2>1, <2>2, <2>3
<1>8. Rising(r)
  BY <1>7, Zenon DEF Rising
<1> QED BY <1>2, <1>3, <1>8, Zenon DEF Rises, r

\* The stages main starts one after another, with their number.
LEMMA Counted ==
  ASSUME NEW n \in Nat, NEW k
  PROVE  LET q == [i \in 1 .. n |-> <<k, i - 1>>]
             S == {<<k, i>> : i \in 0 .. n - 1}
         IN  q \in Seq(S) /\ Range(q) = S /\ Len(q) = n /\ \A i \in 1 .. n : q[i] = <<k, i - 1>>
<1> DEFINE q == [i \in 1 .. n |-> <<k, i - 1>>]
           S == {<<k, i>> : i \in 0 .. n - 1}
<1>1. \A i \in 1 .. n : i - 1 \in 0 .. n - 1 /\ <<k, i - 1>> \in S
  OBVIOUS
<1>2. q \in Seq(S) /\ Len(q) = n
  BY <1>1
<1>3. \A i \in 0 .. n - 1 : i + 1 \in 1 .. n /\ q[i + 1] = <<k, i>>
  <2>1. \A i \in 0 .. n - 1 : i + 1 \in 1 .. n /\ (i + 1) - 1 = i
    OBVIOUS
  <2> QED BY <2>1, Zenon
<1>4. Range(q) = S
  <2>1. Range(q) \subseteq S
    BY <1>1, Zenon DEF Range
  <2>2. S \subseteq Range(q)
    <3> SUFFICES ASSUME NEW i \in 0 .. n - 1 PROVE <<k, i>> \in Range(q)
      BY Zenon
    <3> QED BY <1>3, Zenon DEF Range
  <2> QED BY <2>1, <2>2, Zenon
<1> QED BY <1>2, <1>4, Zenon

\* The lists of shards and of workers.
LEMMA ShardList ==
  ASSUME NEW n \in Nat
  PROVE  LET q == [i \in 1 .. n |-> Matcher(i - 1)] IN Falls(q, Matchers(n), 6) /\ Rises(q, Matchers(n), 6)
<1> DEFINE q == [i \in 1 .. n |-> Matcher(i - 1)]
<1>1. q = [i \in 1 .. n |-> <<"match", i - 1>>]
  BY DEF Matcher
<1>2. q \in Seq(Matchers(n)) /\ Range(q) = Matchers(n) /\ Len(q) = n
  BY <1>1, Counted, Zenon DEF Matchers
<1> HIDE DEF q
<1>3. \A s \in Matchers(n) : Depth(s) = 6
  BY DepthOf, Zenon DEF Matchers
<1>4. \A i \in 1 .. Len(q) : Depth(q[i]) = 6
  BY <1>2, <1>3, SeqElement, Zenon
<1>5. Falling(q) /\ Rising(q)
  BY <1>4 DEF Falling, Rising
<1>6. \A s \in Matchers(n) : Depth(s) \in Int /\ Depth(s) >= 6 /\ Depth(s) <= 6
  BY <1>3
<1> QED BY <1>2, <1>5, <1>6, Zenon DEF Falls, Rises, q

\* The risk threads, in the order in which main starts and stops them.
LEMMA WorkerList ==
  LET q == [i \in 1 .. RiskThreads |-> <<"risk", i - 1>>] IN Falls(q, Workers, 4) /\ Rises(q, Workers, 4)
<1> DEFINE q == [i \in 1 .. RiskThreads |-> <<"risk", i - 1>>]
<1>1. RiskThreads \in Nat
  <2>1. RiskThreads \in 1 .. 8
    BY LifecycleAssumption, Zenon
  <2> QED BY <2>1
<1>2. q \in Seq(Workers) /\ Range(q) = Workers /\ Len(q) = RiskThreads
  BY <1>1, Counted, Zenon DEF Workers
<1> HIDE DEF q
<1>3. \A s \in Workers : Depth(s) = 4
  BY DepthOf, Zenon DEF Workers
<1>4. \A i \in 1 .. Len(q) : Depth(q[i]) = 4
  BY <1>2, <1>3, SeqElement, Zenon
<1>5. Falling(q) /\ Rising(q)
  BY <1>4 DEF Falling, Rising
<1>6. \A s \in Workers : Depth(s) \in Int /\ Depth(s) >= 4 /\ Depth(s) <= 4
  BY <1>3
<1> QED BY <1>2, <1>5, <1>6, Zenon DEF Falls, Rises, q

\* The lists of single stages.
LEMMA SingleLists ==
  /\ Falls(<<<<"clearing", 0>>, <<"md", 0>>>>, {<<"clearing", 0>>, <<"md", 0>>}, 7)
  /\ Rises(<<<<"md", 0>>, <<"clearing", 0>>>>, {<<"clearing", 0>>, <<"md", 0>>}, 8)
  /\ Falls(<<<<"seq", 0>>>>, {<<"seq", 0>>}, 5) /\ Rises(<<<<"seq", 0>>>>, {<<"seq", 0>>}, 5)
  /\ Falls(<<<<"oms", 0>>, <<"gate", 0>>, <<"gw", 0>>>>, {<<"oms", 0>>, <<"gate", 0>>, <<"gw", 0>>}, 1)
  /\ Rises(<<<<"gw", 0>>, <<"gate", 0>>, <<"oms", 0>>>>, {<<"oms", 0>>, <<"gate", 0>>, <<"gw", 0>>}, 3)
<1>1. Falls(<<<<"clearing", 0>>, <<"md", 0>>>>, {<<"clearing", 0>>, <<"md", 0>>}, 7)
  BY DepthOf DEF Falls, Falling, Range
<1>2. Rises(<<<<"md", 0>>, <<"clearing", 0>>>>, {<<"clearing", 0>>, <<"md", 0>>}, 8)
  BY DepthOf DEF Rises, Rising, Range
<1>3. Falls(<<<<"seq", 0>>>>, {<<"seq", 0>>}, 5) /\ Rises(<<<<"seq", 0>>>>, {<<"seq", 0>>}, 5)
  BY DepthOf DEF Falls, Falling, Rises, Rising, Range
<1>4. Falls(<<<<"oms", 0>>, <<"gate", 0>>, <<"gw", 0>>>>, {<<"oms", 0>>, <<"gate", 0>>, <<"gw", 0>>}, 1)
  BY DepthOf DEF Falls, Falling, Range
<1>5. Rises(<<<<"gw", 0>>, <<"gate", 0>>, <<"oms", 0>>>>, {<<"oms", 0>>, <<"gate", 0>>, <<"gw", 0>>}, 3)
  BY DepthOf DEF Rises, Rising, Range
<1> QED BY <1>1, <1>2, <1>3, <1>4, <1>5, Zenon

\* main starts the stages from the end of the way of an order to its front, and
\* stops them from the front to the end.
LEMMA Orders ==
  ASSUME NEW n \in Nat
  PROVE  Falls(StartOrder(n), StageSet(n), 1) /\ Rises(StopOrder(n), StageSet(n), 8)
<1> DEFINE A == {<<"clearing", 0>>, <<"md", 0>>}
           C == {<<"seq", 0>>}
           E == {<<"oms", 0>>, <<"gate", 0>>, <<"gw", 0>>}
           d == [i \in 1 .. n |-> Matcher(i - 1)]
           w == [i \in 1 .. RiskThreads |-> <<"risk", i - 1>>]
<1>1. Falls(d, Matchers(n), 6) /\ Rises(d, Matchers(n), 6) /\ Falls(w, Workers, 4) /\ Rises(w, Workers, 4)
  BY ShardList, WorkerList, Zenon
<1>2. \A s \in A : Depth(s) >= 7 /\ Depth(s) >= 6
  BY DepthOf
<1>3. \A s \in Matchers(n) : Depth(s) = 6
  BY DepthOf, Zenon DEF Matchers
<1>4. \A s \in C : Depth(s) = 5
  BY DepthOf
<1>5. \A s \in Workers : Depth(s) = 4
  BY DepthOf, Zenon DEF Workers
<1>6. \A s \in E : Depth(s) <= 4
  BY DepthOf
<1> HIDE DEF A, C, E, d, w
<1>7. Falls(StartOrder(n), StageSet(n), 1)
  <2> DEFINE a == <<<<"clearing", 0>>, <<"md", 0>>>>
             c == <<<<"seq", 0>>>>
             e == <<<<"oms", 0>>, <<"gate", 0>>, <<"gw", 0>>>>
  <2>1. Falls(a, A, 7) /\ Falls(c, C, 5) /\ Falls(e, E, 1)
    BY SingleLists, Zenon DEF A, C, E
  <2>2. StartOrder(n) = (((a \o d) \o c) \o w) \o e
    BY Zenon DEF StartOrder, d, w
  <2> HIDE DEF a, c, e
  <2>3. Falls(a \o d, A \cup Matchers(n), 6)
    <3>1. \A s \in Matchers(n) : Depth(s) <= 7
      BY <1>3
    <3> QED BY <1>1, <2>1, <3>1, FallsJoin
  <2>4. Falls((a \o d) \o c, (A \cup Matchers(n)) \cup C, 5)
    <3>1. \A s \in C : Depth(s) <= 6
      BY <1>4
    <3> QED BY <2>1, <2>3, <3>1, FallsJoin
  <2>5. Falls(((a \o d) \o c) \o w, ((A \cup Matchers(n)) \cup C) \cup Workers, 4)
    <3>1. \A s \in Workers : Depth(s) <= 5
      BY <1>5
    <3> QED BY <1>1, <2>4, <3>1, FallsJoin
  <2>6. Falls((((a \o d) \o c) \o w) \o e, (((A \cup Matchers(n)) \cup C) \cup Workers) \cup E, 1)
    BY <1>6, <2>1, <2>5, FallsJoin
  <2> QED BY <2>2, <2>6, Zenon DEF StageSet, A, C, E
<1>8. Rises(StopOrder(n), StageSet(n), 8)
  <2> DEFINE a == <<<<"md", 0>>, <<"clearing", 0>>>>
             c == <<<<"seq", 0>>>>
             e == <<<<"gw", 0>>, <<"gate", 0>>, <<"oms", 0>>>>
  <2>1. Rises(a, A, 8) /\ Rises(c, C, 5) /\ Rises(e, E, 3)
    BY SingleLists, Zenon DEF A, C, E
  <2>2. StopOrder(n) = (((e \o w) \o c) \o d) \o a
    BY Zenon DEF StopOrder, d, w
  <2> HIDE DEF a, c, e
  <2>3. Rises(e \o w, E \cup Workers, 4)
    <3>1. \A s \in Workers : Depth(s) >= 3
      BY <1>5
    <3> QED BY <1>1, <2>1, <3>1, RisesJoin
  <2>4. Rises((e \o w) \o c, (E \cup Workers) \cup C, 5)
    <3>1. \A s \in C : Depth(s) >= 4
      BY <1>4
    <3> QED BY <2>1, <2>3, <3>1, RisesJoin
  <2>5. Rises(((e \o w) \o c) \o d, ((E \cup Workers) \cup C) \cup Matchers(n), 6)
    <3>1. \A s \in Matchers(n) : Depth(s) >= 5
      BY <1>3
    <3> QED BY <1>1, <2>4, <3>1, RisesJoin
  <2>6. Rises((((e \o w) \o c) \o d) \o a, (((E \cup Workers) \cup C) \cup Matchers(n)) \cup A, 8)
    BY <1>2, <2>1, <2>5, RisesJoin
  <2>7. (((E \cup Workers) \cup C) \cup Matchers(n)) \cup A = StageSet(n)
    BY Zenon DEF StageSet, A, C, E
  <2> QED BY <2>2, <2>6, <2>7, Zenon
<1> QED BY <1>7, <1>8, Zenon

\* The stages of main, with as many shards as the command line may ask for.
LEMMA StagesAre ==
  /\ AllStages = StageSet(8)
  /\ \A n \in 1 .. 8 : StageSet(n) \subseteq AllStages
  /\ matching \in 1 .. 8 =>
       /\ Stages = StageSet(matching) /\ Stages \subseteq AllStages
       /\ StartOrder(matching) \in Seq(AllStages) /\ Range(StartOrder(matching)) = Stages
       /\ StopOrder(matching) \in Seq(AllStages) /\ Range(StopOrder(matching)) = Stages
       /\ Falling(StartOrder(matching)) /\ Rising(StopOrder(matching))
<1>1. \A n \in Nat : /\ StartOrder(n) \in Seq(StageSet(n)) /\ Range(StartOrder(n)) = StageSet(n)
                     /\ StopOrder(n) \in Seq(StageSet(n)) /\ Range(StopOrder(n)) = StageSet(n)
                     /\ Falling(StartOrder(n)) /\ Rising(StopOrder(n))
  BY Orders, Zenon DEF Falls, Rises
<1>2. AllStages = StageSet(8)
  <2>1. 8 \in Nat
    OBVIOUS
  <2> QED BY <1>1, <2>1, Zenon DEF AllStages
<1>3. \A n \in 1 .. 8 : n \in Nat /\ StageSet(n) \subseteq StageSet(8)
  <2>1. ASSUME NEW n \in 1 .. 8 PROVE Matchers(n) \subseteq Matchers(8)
    BY DEF Matchers
  <2>2. \A n \in 1 .. 8 : n \in Nat
    OBVIOUS
  <2> QED BY <2>1, <2>2, Zenon DEF StageSet
<1>4. ASSUME matching \in 1 .. 8
      PROVE  /\ Stages = StageSet(matching) /\ Stages \subseteq AllStages
             /\ StartOrder(matching) \in Seq(AllStages) /\ Range(StartOrder(matching)) = Stages
             /\ StopOrder(matching) \in Seq(AllStages) /\ Range(StopOrder(matching)) = Stages
             /\ Falling(StartOrder(matching)) /\ Rising(StopOrder(matching))
  <2>1. matching \in Nat /\ StageSet(matching) \subseteq AllStages
    BY <1>2, <1>3, <1>4, Zenon
  <2>2. Stages = StageSet(matching)
    BY <1>1, <2>1, Zenon DEF Stages
  <2>3. StartOrder(matching) \in Seq(AllStages) /\ StopOrder(matching) \in Seq(AllStages)
    BY <1>1, <2>1, SeqWider
  <2> QED BY <1>1, <2>1, <2>2, <2>3, Zenon
<1> QED BY <1>2, <1>3, <1>4, Zenon

\* main goes on to the next stage of its list.
LEMMA OneLess ==
  ASSUME NEW q \in Seq(AllStages), q # <<>>
  PROVE  /\ Head(q) \in AllStages /\ Tail(q) \in Seq(AllStages)
         /\ Range(q) = {Head(q)} \cup Range(Tail(q))
         /\ Falling(q) => Falling(Tail(q)) /\ \A d \in Range(Tail(q)) : Depth(d) <= Depth(Head(q))
         /\ Rising(q) => Rising(Tail(q)) /\ \A d \in Range(Tail(q)) : Depth(Head(q)) <= Depth(d)
<1>1. /\ Head(q) \in AllStages /\ Tail(q) \in Seq(AllStages) /\ Len(Tail(q)) = Len(q) - 1
      /\ Len(q) \in Nat \ {0}
      /\ \A k \in 1 .. Len(Tail(q)) : Tail(q)[k] = q[k + 1]
  BY SeqTail, SeqEmpty
<1>2. Head(q) = q[1]
  OBVIOUS
<1> DEFINE t == Tail(q)
           h == Head(q)
<1>3. DOMAIN q = 1 .. Len(q) /\ DOMAIN t = 1 .. Len(t)
  BY <1>1, SeqLen
<1> HIDE DEF t, h
<1>4. /\ Len(t) = Len(q) - 1 /\ h = q[1] /\ \A k \in 1 .. Len(t) : t[k] = q[k + 1]
  BY <1>1, <1>2, Zenon DEF t, h
<1>5. /\ \A k \in 1 .. Len(t) : k + 1 \in 1 .. Len(q) /\ 1 < k + 1 /\ \A j \in 1 .. Len(t) : k < j => k + 1 < j + 1
      /\ 1 \in 1 .. Len(q)
      /\ \A k \in 1 .. Len(q) : k = 1 \/ (k - 1 \in 1 .. Len(t) /\ (k - 1) + 1 = k)
  BY <1>1, <1>4
<1>6. Range(q) = {h} \cup Range(t)
  <2>1. \A x : x \in Range(q) <=> \E k \in 1 .. Len(q) : x = q[k]
    BY <1>3, Zenon DEF Range
  <2>2. \A x : x \in Range(t) <=> \E k \in 1 .. Len(t) : x = t[k]
    BY <1>3, Zenon DEF Range
  <2>3. ASSUME NEW k \in 1 .. Len(q) PROVE q[k] \in {h} \cup Range(t)
    <3>1. CASE k = 1
      BY <1>4, <3>1, Zenon
    <3>2. CASE k # 1
      BY <1>4, <1>5, <2>2, <3>2, Zenon
    <3> QED BY <3>1, <3>2, Zenon
  <2>4. \A k \in 1 .. Len(t) : t[k] \in Range(q)
    BY <1>4, <1>5, <2>1, Zenon
  <2>5. h \in Range(q)
    BY <1>4, <1>5, <2>1, Zenon
  <2> QED BY <2>1, <2>2, <2>3, <2>4, <2>5, Zenon
<1>7. \A d \in Range(t) : \E k \in 1 .. Len(t) : d = q[k + 1]
  BY <1>3, <1>4, Zenon DEF Range
<1>8. ASSUME Falling(q) PROVE Falling(t) /\ \A d \in Range(t) : Depth(d) <= Depth(h)
  BY <1>4, <1>5, <1>7, <1>8, Zenon DEF Falling
<1>9. ASSUME Rising(q) PROVE Rising(t) /\ \A d \in Range(t) : Depth(h) <= Depth(d)
  BY <1>4, <1>5, <1>7, <1>9, Zenon DEF Rising
<1> QED BY <1>1, <1>6, <1>8, <1>9, Zenon DEF t, h

(* ---- the logger ---- *)
\* An index of the ring, wrapped around once.
Around(i) == IF i < RingSize THEN i ELSE i - RingSize

\* How many messages wait.
Between(h, t) == IF h <= t THEN t - h ELSE t - h + RingSize
Waiting(l) == Between(l.head, l.tail)

\* The messages q and the dropped ones d are the first n, and those of q in order.
Ordered(q, d, n) == /\ \A i, j \in 1 .. Len(q) : i < j => q[i] < q[j]
                    /\ Range(q) \cap d = {}
                    /\ Range(q) \cup d = 1 .. n

\* The size of the ring.
LEMMA RingHas == RingSize \in Nat /\ RingSize > 1 /\ LogLevel \in Int
<1>1. RingSize \in Nat /\ RingSize > 1 /\ LogLevel \in 0 .. 3
  BY LoggerAssumption, Zenon
<1> QED BY <1>1

\* Indices are taken modulo the size of the ring.
LEMMA Modulo ==
  /\ \A i \in 0 .. 2 * RingSize - 1 : i % RingSize = Around(i)
  /\ \A h, t \in 0 .. RingSize - 1 :
       (t - h) % RingSize = IF h <= t THEN t - h ELSE t - h + RingSize
<1> DEFINE R == RingSize
<1>1. R \in Nat /\ R > 1
  BY RingHas, Zenon
<1> HIDE DEF R
<1>2. ASSUME NEW i \in 0 .. R - 1 PROVE i % R = i
  BY <1>1
<1>3. ASSUME NEW i \in R .. 2 * R - 1 PROVE i % R = i - R
  BY <1>1
<1>4. ASSUME NEW i \in 1 - R .. -1 PROVE i % R = i + R
  BY <1>1
<1>5. ASSUME NEW i \in 0 .. 2 * R - 1 PROVE i % R = IF i < R THEN i ELSE i - R
  <2>1. CASE i < R
    BY <1>1, <1>2, <2>1
  <2>2. CASE ~(i < R)
    <3>1. i \in R .. 2 * R - 1
      BY <1>1, <2>2
    <3> QED BY <1>3, <2>2, <3>1, Zenon
  <2> QED BY <2>1, <2>2, Zenon
<1>6. ASSUME NEW h \in 0 .. R - 1, NEW t \in 0 .. R - 1
      PROVE  (t - h) % R = IF h <= t THEN t - h ELSE t - h + R
  <2>1. CASE h <= t
    <3>1. t - h \in 0 .. R - 1
      BY <1>1, <2>1
    <3> QED BY <1>2, <2>1, <3>1, Zenon
  <2>2. CASE ~(h <= t)
    <3>1. t - h \in 1 - R .. -1
      BY <1>1, <2>2
    <3> QED BY <1>4, <2>2, <3>1, Zenon
  <2> QED BY <2>1, <2>2, Zenon
<1> QED BY <1>5, <1>6, Zenon DEF R, Around

\* The fields of the logger.
LEMMA LogFields ==
  ASSUME NEW l, LogTypes(l)
  PROVE  /\ l.ring \in [0 .. RingSize - 1 -> Nat] /\ l.head \in 0 .. RingSize - 1
         /\ l.tail \in 0 .. RingSize - 1 /\ l.lines \in Nat /\ l.out \in Seq(Nat) /\ l.dropped \subseteq Nat
BY Zenon DEF LogTypes

\* The messages that wait, from head on.
LEMMA PendingIs ==
  ASSUME NEW l, LogTypes(l)
  PROVE  /\ Waiting(l) \in 0 .. RingSize - 1
         /\ Pending(l) \in Seq(Nat) /\ Len(Pending(l)) = Waiting(l)
         /\ \A k \in 1 .. Waiting(l) : Pending(l)[k] = l.ring[Around(l.head + k - 1)]
<1>1. /\ l.ring \in [0 .. RingSize - 1 -> Nat] /\ l.head \in 0 .. RingSize - 1 /\ l.tail \in 0 .. RingSize - 1
  BY LogFields, Zenon
<1>2. (l.tail - l.head) % RingSize = Waiting(l)
  BY <1>1, Modulo, Zenon DEF Waiting, Between
<1>3. Waiting(l) \in 0 .. RingSize - 1
  BY <1>1, RingHas DEF Waiting, Between
<1>4. ASSUME NEW k \in 1 .. Waiting(l)
      PROVE  /\ (l.head + k - 1) % RingSize = Around(l.head + k - 1)
             /\ l.ring[Around(l.head + k - 1)] \in Nat
  <2>1. l.head + k - 1 \in 0 .. 2 * RingSize - 1
    BY <1>1, <1>3, RingHas
  <2>2. Around(l.head + k - 1) \in 0 .. RingSize - 1
    BY <2>1, RingHas DEF Around
  <2> QED BY <1>1, <2>1, <2>2, Modulo, Zenon
<1>5. Pending(l) = [k \in 1 .. Waiting(l) |-> l.ring[(l.head + k - 1) % RingSize]]
  BY <1>2, Zenon DEF Pending
<1> DEFINE f(k) == l.ring[(l.head + k - 1) % RingSize]
<1>6. \A k \in 1 .. Waiting(l) : f(k) \in Nat
  BY <1>4, Zenon
<1>7. Pending(l) = [k \in 1 .. Waiting(l) |-> f(k)]
  BY <1>5, Zenon
<1> HIDE DEF f
<1>8. Pending(l) \in Seq(Nat) /\ Len(Pending(l)) = Waiting(l)
  <2>1. Waiting(l) \in Nat
    BY <1>3, RingHas
  <2> QED BY <1>6, <1>7, <2>1
<1>9. \A k \in 1 .. Waiting(l) : Pending(l)[k] = l.ring[Around(l.head + k - 1)]
  BY <1>4, <1>5, Zenon
<1> QED BY <1>3, <1>8, <1>9, Zenon

\* A newer message goes to the end.
LEMMA OrderedAppend ==
  ASSUME NEW q \in Seq(Nat), NEW d, NEW n \in Nat, Ordered(q, d, n)
  PROVE  Ordered(Append(q, n + 1), d, n + 1)
<1> DEFINE r == Append(q, n + 1)
<1>1. /\ r \in Seq(Nat) /\ Len(r) = Len(q) + 1 /\ Len(q) \in Nat
      /\ r[Len(q) + 1] = n + 1 /\ \A k \in 1 .. Len(q) : r[k] = q[k]
  BY SeqAppend, SeqLen
<1>2. DOMAIN r = 1 .. Len(r) /\ DOMAIN q = 1 .. Len(q)
  BY <1>1, SeqLen, Zenon
<1> HIDE DEF r
<1>3. \A k \in 1 .. Len(q) : q[k] \in 1 .. n
  BY <1>2, Zenon DEF Ordered, Range
<1>4. ASSUME NEW i \in 1 .. Len(r), NEW j \in 1 .. Len(r), i < j PROVE r[i] < r[j]
  <2>1. i \in 1 .. Len(q)
    BY <1>1, <1>4
  <2>2. CASE j \in 1 .. Len(q)
    BY <1>1, <1>4, <2>1, <2>2, Zenon DEF Ordered
  <2>3. CASE j \notin 1 .. Len(q)
    <3>1. j = Len(q) + 1
      BY <1>1, <2>3
    <3>2. r[j] = n + 1 /\ r[i] = q[i] /\ q[i] \in 1 .. n
      BY <1>1, <1>3, <2>1, <3>1, Zenon
    <3> QED BY <3>2
  <2> QED BY <2>2, <2>3, Zenon
<1>5. Range(r) = Range(q) \cup {n + 1}
  <2>1. \A k \in 1 .. Len(r) : k \in 1 .. Len(q) \/ k = Len(q) + 1
    BY <1>1
  <2>2. (\A k \in 1 .. Len(q) : k \in 1 .. Len(r)) /\ Len(q) + 1 \in 1 .. Len(r)
    BY <1>1
  <2>3. \A x : x \in Range(r) <=> \E k \in 1 .. Len(r) : x = r[k]
    BY <1>2, Zenon DEF Range
  <2>4. \A x : x \in Range(q) <=> \E k \in 1 .. Len(q) : x = q[k]
    BY <1>2, Zenon DEF Range
  <2>5. ASSUME NEW x PROVE x \in Range(r) <=> x \in Range(q) \cup {n + 1}
    <3>1. ASSUME NEW k \in 1 .. Len(r) PROVE r[k] \in Range(q) \cup {n + 1}
      BY <1>1, <2>1, <2>4, Zenon
    <3>2. ASSUME NEW k \in 1 .. Len(q) PROVE q[k] \in Range(r)
      BY <1>1, <2>2, <2>3, Zenon
    <3>3. n + 1 \in Range(r)
      BY <1>1, <2>2, <2>3, Zenon
    <3> QED BY <2>3, <2>4, <3>1, <3>2, <3>3, Zenon
  <2> QED BY <2>5, Zenon
<1>6. d \subseteq 1 .. n /\ Range(q) \cap d = {} /\ Range(q) \cup d = 1 .. n
  BY Zenon DEF Ordered
<1>7. n + 1 \notin 1 .. n /\ 1 .. n + 1 = (1 .. n) \cup {n + 1}
  OBVIOUS
<1>8. Range(r) \cap d = {} /\ Range(r) \cup d = 1 .. n + 1
  BY <1>5, <1>6, <1>7, Zenon
<1> QED BY <1>4, <1>8, Zenon DEF Ordered, r

\* The oldest message that waits is dropped.
LEMMA OrderedDrop ==
  ASSUME NEW p \in Seq(Nat), NEW q \in Seq(Nat), q # <<>>, NEW d, NEW n \in Nat, Ordered(p \o q, d, n)
  PROVE  Ordered(p \o Tail(q), d \cup {Head(q)}, n)
<1> DEFINE r == p \o q
           t == Tail(q)
           s == p \o t
           L == Len(p)
           g(k) == IF k <= L THEN k ELSE k + 1
<1>1. /\ t \in Seq(Nat) /\ Len(t) = Len(q) - 1 /\ Len(q) \in Nat \ {0} /\ L \in Nat
      /\ \A k \in 1 .. Len(t) : t[k] = q[k + 1]
  BY SeqTail, SeqEmpty, SeqLen
<1>2. Head(q) = q[1]
  OBVIOUS
<1> HIDE DEF t
<1>3. /\ r \in Seq(Nat) /\ Len(r) = L + Len(q)
      /\ \A k \in 1 .. L + Len(q) : r[k] = IF k <= L THEN p[k] ELSE q[k - L]
  BY SeqConcat
<1>4. /\ s \in Seq(Nat) /\ Len(s) = L + Len(t)
      /\ \A k \in 1 .. L + Len(t) : s[k] = IF k <= L THEN p[k] ELSE t[k - L]
  BY <1>1, SeqConcat
<1>5. DOMAIN r = 1 .. Len(r) /\ DOMAIN s = 1 .. Len(s) /\ \A k \in 1 .. Len(r) : r[k] \in Nat
  BY <1>3, <1>4, SeqLen, SeqElement, Zenon
<1> HIDE DEF r, s, L
<1>a. /\ Len(q) \in Nat \ {0} /\ L \in Nat /\ Len(t) = Len(q) - 1
      /\ Len(r) = L + Len(q) /\ Len(s) = L + Len(t)
  BY <1>1, <1>3, <1>4, Zenon
<1>6. r[L + 1] = Head(q) /\ L + 1 \in 1 .. Len(r)
  <2>1. L + 1 \in 1 .. L + Len(q) /\ ~(L + 1 <= L) /\ (L + 1) - L = 1
    BY <1>1
  <2> QED BY <1>2, <1>3, <2>1, Zenon
<1>7. /\ \A k \in 1 .. Len(s) : g(k) \in 1 .. Len(r) /\ g(k) # L + 1
      /\ \A i, j \in 1 .. Len(s) : i < j => g(i) < g(j)
      /\ \A j \in 1 .. Len(r) : j # L + 1 => \E k \in 1 .. Len(s) : g(k) = j
  <2>1. \A k \in 1 .. Len(s) : g(k) \in 1 .. Len(r) /\ g(k) # L + 1
    BY <1>a
  <2>2. \A i, j \in 1 .. Len(s) : i < j => g(i) < g(j)
    BY <1>a
  <2>3. ASSUME NEW j \in 1 .. Len(r), j # L + 1 PROVE \E k \in 1 .. Len(s) : g(k) = j
    <3>1. CASE j <= L
      <4>1. j \in 1 .. Len(s) /\ g(j) = j
        BY <1>a, <3>1
      <4> QED BY <4>1, Zenon
    <3>2. CASE ~(j <= L)
      <4>1. j - 1 \in 1 .. Len(s) /\ g(j - 1) = j
        BY <1>a, <2>3, <3>2
      <4> QED BY <4>1, Zenon
    <3> QED BY <3>1, <3>2, Zenon
  <2> QED BY <2>1, <2>2, <2>3, Zenon
<1>8. ASSUME NEW k \in 1 .. Len(s) PROVE s[k] = r[g(k)]
  <2>1. CASE k <= L
    <3>1. k \in 1 .. L + Len(q) /\ k \in 1 .. L + Len(t)
      BY <1>a
    <3> QED BY <1>3, <1>4, <2>1, <3>1, Zenon
  <2>2. CASE ~(k <= L)
    <3>1. /\ k + 1 \in 1 .. L + Len(q) /\ k \in 1 .. L + Len(t) /\ ~(k + 1 <= L)
          /\ k - L \in 1 .. Len(t) /\ (k + 1) - L = (k - L) + 1
      BY <1>a, <2>2
    <3> QED BY <1>1, <1>3, <1>4, <2>2, <3>1, Zenon
  <2> QED BY <2>1, <2>2, Zenon
<1> HIDE DEF g
<1>9. \A i, j \in 1 .. Len(r) : i < j => r[i] < r[j]
  BY Zenon DEF Ordered, r
<1>10. \A i, j \in 1 .. Len(s) : i < j => s[i] < s[j]
  BY <1>7, <1>8, <1>9, Zenon
<1>11. ASSUME NEW k \in 1 .. Len(s) PROVE s[k] # Head(q)
  <2>1. g(k) < L + 1 \/ L + 1 < g(k)
    BY <1>7, <1>6
  <2>2. r[g(k)] < r[L + 1] \/ r[L + 1] < r[g(k)]
    BY <1>6, <1>7, <1>9, <2>1, Zenon
  <2>3. r[g(k)] \in Nat /\ r[L + 1] \in Nat
    BY <1>5, <1>6, <1>7, Zenon
  <2>4. r[g(k)] # r[L + 1]
    BY <2>2, <2>3
  <2> QED BY <1>6, <1>8, <2>4, Zenon
<1>12. /\ \A x : x \in Range(r) <=> \E k \in 1 .. Len(r) : x = r[k]
       /\ \A x : x \in Range(s) <=> \E k \in 1 .. Len(s) : x = s[k]
  BY <1>5, Zenon DEF Range
<1>13. Range(r) = Range(s) \cup {Head(q)} /\ Head(q) \notin Range(s)
  <2>1. ASSUME NEW j \in 1 .. Len(r) PROVE r[j] \in Range(s) \cup {Head(q)}
    BY <1>6, <1>7, <1>8, <1>12, Zenon
  <2>2. ASSUME NEW k \in 1 .. Len(s) PROVE s[k] \in Range(r)
    BY <1>7, <1>8, <1>12, Zenon
  <2>3. Head(q) \in Range(r)
    BY <1>6, <1>12, Zenon
  <2> QED BY <1>11, <1>12, <2>1, <2>2, <2>3, Zenon
<1>14. Range(r) \cap d = {} /\ Range(r) \cup d = 1 .. n
  BY Zenon DEF Ordered, r
<1>15. Range(s) \cap (d \cup {Head(q)}) = {} /\ Range(s) \cup (d \cup {Head(q)}) = 1 .. n
  BY <1>13, <1>14, Zenon
<1> QED BY <1>10, <1>15, Zenon DEF Ordered, s, t

\* The property of the logger in terms of the messages kept.
LEMMA KeptIs ==
  ASSUME NEW l, LogTypes(l)
  PROVE  LogKept(l) <=> Ordered(l.out \o Pending(l), l.dropped, l.lines)
<1>1. l.out \in Seq(Nat) /\ Pending(l) \in Seq(Nat)
  BY LogFields, PendingIs, Zenon
<1> DEFINE q == l.out \o Pending(l)
<1>2. DOMAIN q = 1 .. Len(q)
  BY <1>1, SeqConcat, SeqLen
<1> QED BY <1>2, Zenon DEF LogKept, Ordered

\* Where a message goes in a ring with room, and in a full one.
LEMMA RingMoves ==
  ASSUME NEW h \in 0 .. RingSize - 1, NEW t \in 0 .. RingSize - 1
  PROVE  /\ Around(t + 1) \in 0 .. RingSize - 1 /\ Around(h + 1) \in 0 .. RingSize - 1 /\ Around(h) = h
         /\ Around(t + 1) # h =>
              /\ Between(h, Around(t + 1)) = Between(h, t) + 1 /\ Around(h + (Between(h, t) + 1) - 1) = t
              /\ \A k \in 1 .. Between(h, t) : Around(h + k - 1) # t
         /\ Around(t + 1) = h =>
              /\ Between(h, t) = RingSize - 1 /\ Between(Around(h + 1), Around(t + 1)) = RingSize - 1
              /\ Around(Around(h + 1) + (RingSize - 1) - 1) = t
              /\ \A k \in 1 .. RingSize - 2 : /\ Around(Around(h + 1) + k - 1) = Around(h + (k + 1) - 1)
                                              /\ Around(h + (k + 1) - 1) # t
<1>1. RingSize \in Nat /\ RingSize > 1
  BY RingHas, Zenon
<1>2. Around(t + 1) \in 0 .. RingSize - 1 /\ Around(h + 1) \in 0 .. RingSize - 1 /\ Around(h) = h
  BY <1>1 DEF Around
<1>3. ASSUME Around(t + 1) # h
      PROVE  /\ Between(h, Around(t + 1)) = Between(h, t) + 1 /\ Around(h + (Between(h, t) + 1) - 1) = t
             /\ \A k \in 1 .. Between(h, t) : Around(h + k - 1) # t
  BY <1>1, <1>3 DEF Around, Between
<1>4. ASSUME Around(t + 1) = h
      PROVE  /\ Between(h, t) = RingSize - 1 /\ Between(Around(h + 1), Around(t + 1)) = RingSize - 1
             /\ Around(Around(h + 1) + (RingSize - 1) - 1) = t
             /\ \A k \in 1 .. RingSize - 2 : /\ Around(Around(h + 1) + k - 1) = Around(h + (k + 1) - 1)
                                             /\ Around(h + (k + 1) - 1) # t
  BY <1>1, <1>4 DEF Around, Between
<1> QED BY <1>2, <1>3, <1>4, Zenon

\* What bt_log leaves in the fields of the logger.
LEMMA LoggedFields ==
  ASSUME NEW l, LogTypes(l), NEW level \in Int, ~(level > LogLevel)
  PROVE  LET n == Logged(l, level)
         IN  /\ LogTypes(n) /\ n.lines = l.lines + 1 /\ n.out = l.out /\ n.tail = Around(l.tail + 1)
             /\ n.head = IF Around(l.tail + 1) = l.head THEN Around(l.head + 1) ELSE l.head
             /\ n.dropped = IF Around(l.tail + 1) = l.head THEN l.dropped \cup {l.ring[l.head]} ELSE l.dropped
             /\ n.ring[l.tail] = l.lines + 1
             /\ \A i \in 0 .. RingSize - 1 : i # l.tail => n.ring[i] = l.ring[i]
<1>1. /\ l.ring \in [0 .. RingSize - 1 -> Nat] /\ l.head \in 0 .. RingSize - 1
      /\ l.tail \in 0 .. RingSize - 1 /\ l.lines \in Nat /\ l.out \in Seq(Nat) /\ l.dropped \subseteq Nat
  BY LogFields, Zenon
<1>2. /\ Around(l.tail + 1) \in 0 .. RingSize - 1 /\ Around(l.head + 1) \in 0 .. RingSize - 1
      /\ Inc(l.tail) = Around(l.tail + 1) /\ Inc(l.head) = Around(l.head + 1)
  <2>1. l.tail + 1 \in 0 .. 2 * RingSize - 1 /\ l.head + 1 \in 0 .. 2 * RingSize - 1
    BY <1>1, RingHas
  <2> QED BY <1>1, <2>1, Modulo, RingMoves, Zenon DEF Inc
<1> DEFINE h == IF Around(l.tail + 1) = l.head THEN Around(l.head + 1) ELSE l.head
           d == IF Around(l.tail + 1) = l.head THEN l.dropped \cup {l.ring[l.head]} ELSE l.dropped
           r == [l.ring EXCEPT ![l.tail] = l.lines + 1]
           n == [l EXCEPT !.head = h, !.dropped = d, !.ring = r, !.tail = Around(l.tail + 1),
                          !.lines = l.lines + 1]
<1>3. Logged(l, level) = n
  BY <1>1, <1>2 DEF Logged, Full, LogTypes
<1>4. h \in 0 .. RingSize - 1 /\ d \subseteq Nat
  BY <1>1, <1>2
<1>6. l.lines + 1 \in Nat
  BY <1>1
<1>5. /\ r \in [0 .. RingSize - 1 -> Nat] /\ r[l.tail] = l.lines + 1
      /\ \A i \in 0 .. RingSize - 1 : i # l.tail => r[i] = l.ring[i]
  BY <1>1, <1>6, Zenon
<1> HIDE DEF h, d, r
<1>7. /\ LogTypes(n) /\ n.lines = l.lines + 1 /\ n.out = l.out /\ n.tail = Around(l.tail + 1)
      /\ n.head = h /\ n.dropped = d /\ n.ring = r
  BY <1>1, <1>2, <1>4, <1>5, <1>6 DEF LogTypes
<1> HIDE DEF n
<1> QED BY <1>3, <1>5, <1>7, Zenon DEF h, d

\* A message after two streams.
LEMMA AppendLater ==
  ASSUME NEW p \in Seq(Nat), NEW q \in Seq(Nat), NEW x \in Nat
  PROVE  p \o Append(q, x) = Append(p \o q, x)
<1>1. <<x>> \in Seq(Nat) /\ p \o q \in Seq(Nat)
  BY SeqConcat
<1>2. Append(q, x) = q \o <<x>> /\ Append(p \o q, x) = (p \o q) \o <<x>>
  BY <1>1, SeqLast, Zenon
<1>3. (p \o q) \o <<x>> = p \o (q \o <<x>>)
  BY <1>1, SeqAssociates
<1> QED BY <1>2, <1>3, Zenon

\* bt_log keeps the order, and counts as dropped what it overwrites.
LEMMA LoggedOK ==
  ASSUME NEW l, LogOK(l), NEW level \in Int
  PROVE  LogOK(Logged(l, level))
<1>1. CASE level > LogLevel
  BY <1>1, Zenon DEF Logged
<1>2. CASE ~(level > LogLevel)
  <2> DEFINE n == Logged(l, level)
             w == Waiting(l)
             full == Around(l.tail + 1) = l.head
             P == Pending(l)
             Q == Pending(n)
             x == l.lines + 1
  <2>1. LogTypes(l) /\ LogKept(l)
    BY Zenon DEF LogOK
  <2>2. /\ LogTypes(n) /\ n.lines = l.lines + 1 /\ n.out = l.out /\ n.tail = Around(l.tail + 1)
        /\ n.head = IF full THEN Around(l.head + 1) ELSE l.head
        /\ n.dropped = IF full THEN l.dropped \cup {l.ring[l.head]} ELSE l.dropped
        /\ n.ring[l.tail] = l.lines + 1
        /\ \A i \in 0 .. RingSize - 1 : i # l.tail => n.ring[i] = l.ring[i]
    BY <1>2, <2>1, LoggedFields, Zenon
  <2> HIDE DEF n
  <2>3. /\ l.head \in 0 .. RingSize - 1 /\ l.tail \in 0 .. RingSize - 1 /\ l.lines \in Nat /\ l.out \in Seq(Nat)
    BY <2>1, LogFields, Zenon
  <2>4. /\ w \in Nat /\ w = Between(l.head, l.tail) /\ Pending(l) \in Seq(Nat) /\ Len(Pending(l)) = w
        /\ \A k \in 1 .. w : Pending(l)[k] = l.ring[Around(l.head + k - 1)] /\ Around(l.head + k - 1) \in 0 .. RingSize - 1
    <3>1. w \in 0 .. RingSize - 1
      BY <2>1, PendingIs, Zenon
    <3>2. \A k \in 1 .. w : Around(l.head + k - 1) \in 0 .. RingSize - 1
      BY <2>3, <3>1, RingHas DEF Around
    <3>3. w \in Nat
      BY <3>1, RingHas
    <3> QED BY <2>1, <3>2, <3>3, PendingIs, Zenon DEF Waiting
  <2>5. /\ Pending(n) \in Seq(Nat) /\ Len(Pending(n)) = Between(n.head, n.tail)
        /\ \A k \in 1 .. Between(n.head, n.tail) : Pending(n)[k] = n.ring[Around(n.head + k - 1)]
    BY <2>2, PendingIs, Zenon DEF Waiting
  <2>6. Ordered(l.out \o Pending(l), l.dropped, l.lines)
    BY <2>1, KeptIs, Zenon
  <2>7. l.lines + 1 \in Nat
    BY <2>3
  <2>8. ASSUME NEW q \in Seq(Nat), Pending(n) = Append(q, l.lines + 1), Ordered(l.out \o q, n.dropped, l.lines)
        PROVE  LogOK(n)
    <3>1. l.out \o q \in Seq(Nat)
      BY <2>3, SeqConcat
    <3>2. Ordered(Append(l.out \o q, l.lines + 1), n.dropped, l.lines + 1)
      BY <2>3, <2>8, <3>1, OrderedAppend, Zenon
    <3>3. l.out \o Append(q, l.lines + 1) = Append(l.out \o q, l.lines + 1)
      BY <2>3, <2>7, <2>8, AppendLater
    <3>4. Ordered(n.out \o Pending(n), n.dropped, n.lines)
      BY <2>2, <2>8, <3>2, <3>3, Zenon
    <3> QED BY <2>2, <3>4, KeptIs, Zenon DEF LogOK
  <2>11. /\ P \in Seq(Nat) /\ Len(P) = w /\ x \in Nat /\ l.out \in Seq(Nat) /\ Ordered(l.out \o P, l.dropped, l.lines)
         /\ l.lines \in Nat
    BY <2>3, <2>4, <2>6, <2>7, Zenon
  <2>12. ASSUME NEW q \in Seq(Nat), Q = Append(q, x), Ordered(l.out \o q, n.dropped, l.lines) PROVE LogOK(n)
    BY <2>8, <2>12, Zenon
  <2> HIDE DEF w, P, Q, x
  <2>9. CASE ~full
    <3>1. /\ n.head = l.head /\ n.dropped = l.dropped /\ Between(n.head, n.tail) = w + 1
          /\ Around(l.head + (w + 1) - 1) = l.tail /\ \A k \in 1 .. w : Around(l.head + k - 1) # l.tail
      <4>1. Around(l.tail + 1) # l.head
        BY <2>9, Zenon
      <4>2. /\ Between(l.head, Around(l.tail + 1)) = Between(l.head, l.tail) + 1
            /\ Around(l.head + (Between(l.head, l.tail) + 1) - 1) = l.tail
            /\ \A k \in 1 .. Between(l.head, l.tail) : Around(l.head + k - 1) # l.tail
        BY <2>3, <4>1, RingMoves, Zenon
      <4>3. w = Between(l.head, l.tail) /\ n.head = l.head /\ n.tail = Around(l.tail + 1) /\ n.dropped = l.dropped
        BY <2>2, <2>4, <4>1, Zenon
      <4> QED BY <4>2, <4>3, Zenon
    <3>2. /\ Append(P, x) \in Seq(Nat) /\ Len(Append(P, x)) = w + 1
          /\ Append(P, x)[w + 1] = x /\ \A k \in 1 .. w : Append(P, x)[k] = P[k]
      BY <2>11, SeqAppend
    <3>3. ASSUME NEW k \in 1 .. w + 1 PROVE Q[k] = Append(P, x)[k]
      <4>1. CASE k \in 1 .. w
        BY <2>2, <2>4, <2>5, <3>1, <3>2, <4>1, Zenon DEF P, Q
      <4>2. CASE k \notin 1 .. w
        <5>1. k = w + 1
          BY <2>4, <4>2
        <5>2. Q[k] = n.ring[Around(n.head + (w + 1) - 1)]
          BY <2>5, <3>1, <5>1, Zenon DEF Q
        <5>3. n.ring[l.tail] = x
          BY <2>2, Zenon DEF x
        <5> QED BY <3>1, <3>2, <5>1, <5>2, <5>3, Zenon
      <4> QED BY <4>1, <4>2, Zenon
    <3>4. Q \in Seq(Nat) /\ Len(Q) = w + 1
      BY <2>5, <3>1, Zenon DEF Q
    <3>5. Q = Append(P, x)
      BY <3>2, <3>3, <3>4, SeqSame, Zenon
    <3> QED BY <2>11, <2>12, <3>1, <3>5, Zenon DEF n
  <2>10. CASE full
    <3>1. /\ n.head = Around(l.head + 1) /\ n.dropped = l.dropped \cup {l.ring[l.head]}
          /\ w = RingSize - 1 /\ Between(n.head, n.tail) = RingSize - 1
          /\ Around(n.head + (RingSize - 1) - 1) = l.tail
          /\ \A k \in 1 .. RingSize - 2 : /\ Around(n.head + k - 1) = Around(l.head + (k + 1) - 1)
                                          /\ Around(l.head + (k + 1) - 1) # l.tail
      <4>1. Around(l.tail + 1) = l.head
        BY <2>10, Zenon
      <4>2. /\ Between(l.head, l.tail) = RingSize - 1
            /\ Between(Around(l.head + 1), Around(l.tail + 1)) = RingSize - 1
            /\ Around(Around(l.head + 1) + (RingSize - 1) - 1) = l.tail
            /\ \A k \in 1 .. RingSize - 2 : /\ Around(Around(l.head + 1) + k - 1) = Around(l.head + (k + 1) - 1)
                                            /\ Around(l.head + (k + 1) - 1) # l.tail
        BY <2>3, <4>1, RingMoves
      <4>3. /\ w = Between(l.head, l.tail) /\ n.head = Around(l.head + 1) /\ n.tail = Around(l.tail + 1)
            /\ n.dropped = l.dropped \cup {l.ring[l.head]}
        BY <2>2, <2>4, <4>1, Zenon
      <4> QED BY <4>2, <4>3, Zenon
    <3>2. P \in Seq(Nat) /\ P # <<>> /\ Len(P) = w /\ Head(P) = P[1]
      <4>1. Len(P) = w /\ w # 0 /\ P \in Seq(Nat)
        BY <2>4, <3>1, RingHas DEF P
      <4> QED BY <4>1, SeqEmpty
    <3>3. Head(P) = l.ring[l.head]
      <4>1. 1 \in 1 .. w /\ l.head + 1 - 1 = l.head
        BY <2>3, <3>1, RingHas
      <4>2. Around(l.head) = l.head
        BY <2>3, RingMoves, Zenon
      <4> QED BY <2>4, <3>2, <4>1, <4>2, Zenon DEF P
    <3>4. Ordered(l.out \o Tail(P), n.dropped, l.lines)
      <4>1. Ordered(l.out \o Tail(P), l.dropped \cup {Head(P)}, l.lines)
        BY <2>11, <3>2, OrderedDrop
      <4> QED BY <3>1, <3>3, <4>1, Zenon
    <3>5. /\ Tail(P) \in Seq(Nat) /\ Len(Tail(P)) = w - 1 /\ \A k \in 1 .. Len(Tail(P)) : Tail(P)[k] = P[k + 1]
      BY <3>2, SeqTail, Zenon
    <3>6. /\ Append(Tail(P), x) \in Seq(Nat) /\ Len(Append(Tail(P), x)) = (w - 1) + 1
          /\ Append(Tail(P), x)[(w - 1) + 1] = x /\ \A k \in 1 .. w - 1 : Append(Tail(P), x)[k] = P[k + 1]
      <4>1. /\ Append(Tail(P), x) \in Seq(Nat) /\ Len(Append(Tail(P), x)) = Len(Tail(P)) + 1
            /\ Append(Tail(P), x)[Len(Tail(P)) + 1] = x
            /\ \A k \in 1 .. Len(Tail(P)) : Append(Tail(P), x)[k] = Tail(P)[k]
        BY <2>11, <3>5, SeqAppend
      <4> QED BY <3>5, <4>1, Zenon
    <3>7. /\ (w - 1) + 1 = w /\ w - 1 = RingSize - 2 /\ w \in Nat
          /\ \A k \in 1 .. w - 1 : k \in 1 .. w /\ k + 1 \in 1 .. w
          /\ \A k \in 1 .. w : k \in 1 .. w - 1 \/ k = w
      BY <3>1, RingHas
    <3>8. ASSUME NEW k \in 1 .. w PROVE Q[k] = Append(Tail(P), x)[k]
      <4>1. CASE k \in 1 .. w - 1
        <5>1. /\ Around(n.head + k - 1) = Around(l.head + (k + 1) - 1) /\ Around(l.head + (k + 1) - 1) # l.tail
          BY <3>1, <3>7, <4>1, Zenon
        <5>2. /\ P[k + 1] = l.ring[Around(l.head + (k + 1) - 1)]
              /\ Around(l.head + (k + 1) - 1) \in 0 .. RingSize - 1
          BY <2>4, <3>7, <4>1, Zenon DEF P
        <5>3. Q[k] = n.ring[Around(n.head + k - 1)]
          BY <2>5, <3>1, Zenon DEF Q
        <5> QED BY <2>2, <3>6, <4>1, <5>1, <5>2, <5>3, Zenon
      <4>2. CASE k = w
        <5>1. Q[k] = n.ring[l.tail]
          BY <2>5, <3>1, <4>2, Zenon DEF Q
        <5> QED BY <2>2, <3>6, <3>7, <4>2, <5>1, Zenon DEF x
      <4> QED BY <3>7, <4>1, <4>2, Zenon
    <3>9. Q \in Seq(Nat) /\ Len(Q) = w
      BY <2>5, <3>1, Zenon DEF Q
    <3>10. Q = Append(Tail(P), x)
      BY <3>6, <3>7, <3>8, <3>9, SeqSame, Zenon
    <3> QED BY <2>12, <3>4, <3>5, <3>10, Zenon DEF n
  <2> QED BY <2>9, <2>10, Zenon DEF n
<1> QED BY <1>1, <1>2, Zenon

\* bt_log_flush writes what waits, and nothing waits then.
LEMMA FlushedOK ==
  ASSUME NEW l, LogOK(l)
  PROVE  LogOK(Flushed(l)) /\ Flushed(l).head = Flushed(l).tail
<1>1. LogTypes(l) /\ LogKept(l)
  BY Zenon DEF LogOK
<1>2. /\ l.tail \in 0 .. RingSize - 1 /\ l.out \in Seq(Nat) /\ Pending(l) \in Seq(Nat)
  BY <1>1, LogFields, PendingIs, Zenon
<1> DEFINE o == l.out \o Pending(l)
           n == [l EXCEPT !.out = o, !.head = l.tail]
<1>3. o \in Seq(Nat)
  BY <1>2, SeqConcat
<1>4. Flushed(l) = n
  BY <1>1 DEF Flushed, LogTypes
<1>5. Ordered(o, l.dropped, l.lines)
  BY <1>1, KeptIs, Zenon
<1> HIDE DEF o
<1>6. /\ LogTypes(n) /\ n.out = o /\ n.head = l.tail /\ n.tail = l.tail /\ n.dropped = l.dropped
      /\ n.lines = l.lines
  BY <1>1, <1>2, <1>3 DEF LogTypes
<1> HIDE DEF n
<1>7. Pending(n) = <<>>
  <2>1. Between(l.tail, l.tail) = 0
    BY <1>2, RingHas DEF Between
  <2>2. Pending(n) \in Seq(Nat) /\ Len(Pending(n)) = 0
    BY <1>6, <2>1, PendingIs, Zenon DEF Waiting
  <2> QED BY <2>2, SeqEmpty
<1>8. n.out \o Pending(n) = o
  BY <1>3, <1>6, <1>7, SeqUnit, Zenon
<1>9. LogKept(n)
  BY <1>5, <1>6, <1>8, KeptIs, Zenon
<1> QED BY <1>4, <1>6, <1>9, Zenon DEF LogOK

\* The logger starts empty.
LEMMA NoLogOK == LogOK(NoLog) /\ NoLog.head = NoLog.tail
<1>1. LogTypes(NoLog) /\ NoLog.head = 0 /\ NoLog.tail = 0 /\ NoLog.out = <<>> /\ NoLog.dropped = {} /\ NoLog.lines = 0
  BY RingHas DEF NoLog, LogTypes
<1>2. Pending(NoLog) = <<>>
  <2>1. Between(0, 0) = 0
    BY RingHas DEF Between
  <2>2. Pending(NoLog) \in Seq(Nat) /\ Len(Pending(NoLog)) = 0
    BY <1>1, <2>1, PendingIs, Zenon DEF Waiting
  <2> QED BY <2>2, SeqEmpty
<1>3. <<>> \o <<>> = <<>>
  OBVIOUS
<1>4. Ordered(<<>>, {}, 0)
  <2>1. Range(<<>>) = {} /\ 1 .. 0 = {} /\ 1 .. Len(<<>>) = {}
    BY DEF Range
  <2> QED BY <2>1, Zenon DEF Ordered
<1>5. LogKept(NoLog)
  BY <1>1, <1>2, <1>3, <1>4, KeptIs, Zenon
<1> QED BY <1>1, <1>5, Zenon DEF LogOK

(* ---- main ---- *)
\* The constants of main.
LEMMA MainHas == MaxShards \in Nat /\ Cap \in Nat /\ MatchingArg \subseteq Int /\ SafeMode \in BOOLEAN
BY LifecycleAssumption, Zenon

\* A list of stages goes through stages.
LEMMA RangeIn == ASSUME NEW q \in Seq(AllStages) PROVE Range(q) \subseteq AllStages
<1>1. DOMAIN q = 1 .. Len(q) /\ \A k \in 1 .. Len(q) : q[k] \in AllStages
  BY SeqLen, SeqElement, Zenon
<1> QED BY <1>1, Zenon DEF Range

\* A number of shards that main accepts.
LEMMA ValidIs == ASSUME NEW n, Valid(n) PROVE n \in 1 .. 8 /\ n \in {1, 2, 4, 8}
BY Zenon DEF Valid

\* Steps in which main stays where it is and no stage is started or stopped.
LEMMA StillStep ==
  ASSUME MainInv, UNCHANGED <<pc, matching, resources, stage, todo>>, g_running' \in BOOLEAN,
         md_q' \in [0 .. 7 -> 0 .. Cap], response_q' \in 0 .. Cap
  PROVE  MainInv'
<1>1. Stages' = Stages
  BY Zenon DEF Stages
<1>2. TypeOK' /\ todo' \in Seq(AllStages)
  BY Zenon DEF MainInv, TypeOK
<1>3. MadeInv'
  BY Zenon DEF MainInv, MadeInv
<1>4. ShardsInv'
  BY Zenon DEF MainInv, ShardsInv, Placed
<1>5. LoopInv'
  BY <1>1, Zenon DEF MainInv, LoopInv
<1> QED BY <1>2, <1>3, <1>4, <1>5, Zenon DEF MainInv

\* Steps of main that start and stop no stage.
LEMMA MainMoves ==
  ASSUME MainInv, UNCHANGED <<matching, g_running, stage, md_q, response_q>>,
         pc' \in {"config", "mempool", "journal", "event_bus", "risk_state", "start", "wait",
                  "stop", "destroy", "done", "fatal", "wild"},
         resources' \subseteq Made, todo' \in Seq(AllStages), MadeInv', ShardsInv', LoopInv'
  PROVE  MainInv'
<1>1. Range(todo') \subseteq AllStages
  BY RangeIn, Zenon
<1>2. TypeOK'
  BY <1>1, Zenon DEF MainInv, TypeOK, Made
<1> QED BY <1>2, Zenon DEF MainInv

\* The validation of the command line.
LEMMA ConfigureStep == ASSUME MainInv, Configure PROVE MainInv'
<1>1. /\ pc = "config" /\ pc' = IF Valid(matching) THEN "mempool" ELSE "fatal"
      /\ UNCHANGED <<matching, g_running, resources, stage, todo, md_q, response_q>>
  BY Zenon DEF Configure
<1>2. Stages' = Stages
  BY <1>1, Zenon DEF Stages
<1>3. resources' \subseteq Made /\ todo' \in Seq(AllStages)
  BY <1>1, Zenon DEF MainInv, TypeOK, Made
<1>4. MadeInv' /\ ShardsInv'
  BY <1>1, Zenon DEF MainInv, MadeInv, ShardsInv, Placed, Begun
<1>5. LoopInv'
  BY <1>1, <1>2, Zenon DEF MainInv, LoopInv, Begun
<1>6. pc' \in {"mempool", "fatal"}
  BY <1>1, Zenon
<1> QED BY <1>1, <1>3, <1>4, <1>5, <1>6, MainMoves, Zenon

\* A resource is made.
LEMMA AcquireStep == ASSUME MainInv, Acquire PROVE MainInv'
<1>1. /\ pc \in {"mempool", "journal", "event_bus", "risk_state"} /\ resources' = resources \cup {pc}
      /\ pc' = After(pc) /\ todo' = (IF pc = "risk_state" THEN StartOrder(matching) ELSE <<>>)
      /\ UNCHANGED <<matching, g_running, stage, md_q, response_q>>
  BY Zenon DEF Acquire
<1>2. Stages' = Stages
  BY <1>1, Zenon DEF Stages
<1>3. /\ pc = "mempool" => pc' = "journal"
      /\ pc = "journal" => pc' = "event_bus"
      /\ pc = "event_bus" => pc' = IF matching <= MaxShards THEN "risk_state" ELSE "wild"
      /\ pc = "risk_state" => pc' = "start"
  BY <1>1 DEF After
<1>4. Valid(matching) /\ \A s \in Stages : stage[s] = "none"
  BY <1>1, Zenon DEF MainInv, ShardsInv, LoopInv, Placed, Begun
<1>5. /\ StartOrder(matching) \in Seq(AllStages) /\ Falling(StartOrder(matching)) /\ <<>> \in Seq(AllStages)
  BY <1>4, ValidIs, StagesAre, SeqEmpty, Zenon
<1>6. todo' \in Seq(AllStages) /\ (pc' = "start" => Falling(todo'))
  BY <1>1, <1>3, <1>5, Zenon
<1>7. resources' \subseteq Made
  BY <1>1, Zenon DEF MainInv, TypeOK, Made
<1>8. MadeInv'
  BY <1>1, <1>3, <1>7, Zenon DEF MainInv, MadeInv, Made
<1>9. ShardsInv'
  <2>1. pc' = "wild" => matching > MaxShards
    <3>1. CASE matching <= MaxShards
      BY <1>1, <1>3, <3>1, Zenon
    <3>2. CASE ~(matching <= MaxShards)
      <4>1. matching \in Int
        BY Zenon DEF MainInv, TypeOK
      <4> QED BY <3>2, <4>1, MainHas
    <3> QED BY <3>1, <3>2, Zenon
  <2>2. pc' \in Begun \cup {"risk_state"} => Placed
    <3>1. pc' \in Begun => pc = "risk_state"
      BY <1>1, <1>3, Zenon DEF Begun
    <3>2. pc' = "risk_state" => matching <= MaxShards
      BY <1>1, <1>3, Zenon
    <3> QED BY <1>4, <3>1, <3>2, Zenon DEF MainInv, ShardsInv, Placed
  <2> QED BY <1>1, <1>4, <2>1, <2>2, Zenon DEF MainInv, ShardsInv, Placed
<1>10. LoopInv'
  BY <1>1, <1>2, <1>3, <1>4, <1>6, Zenon DEF LoopInv, Begun
<1>11. pc' \in {"journal", "event_bus", "risk_state", "wild", "start"}
  BY <1>1, <1>3, Zenon
<1> QED BY <1>1, <1>6, <1>7, <1>8, <1>9, <1>10, <1>11, MainMoves, Zenon

\* main gives up.
LEMMA FatalStep ==
  ASSUME MainInv, pc' = "fatal", todo' \in Seq(AllStages),
         UNCHANGED <<matching, g_running, resources, stage, md_q, response_q>>
  PROVE  MainInv'
<1>1. resources' \subseteq Made
  BY Zenon DEF MainInv, TypeOK, Made
<1>2. MadeInv' /\ ShardsInv' /\ LoopInv'
  BY Zenon DEF MainInv, MadeInv, ShardsInv, LoopInv, Placed, Begun
<1> QED BY <1>1, <1>2, MainMoves, Zenon

\* The next stage is created and started.
LEMMA StartStep == ASSUME MainInv, Start PROVE MainInv'
<1>1. /\ pc = "start" /\ todo # <<>> /\ stage' = [stage EXCEPT ![Head(todo)] = "running"]
      /\ todo' = Tail(todo) /\ UNCHANGED <<pc, matching, g_running, resources, md_q, response_q>>
  BY Zenon DEF Start
<1>2. /\ TypeOK /\ todo \in Seq(AllStages) /\ stage \in [AllStages -> {"none", "running", "stopped", "gone"}]
      /\ Placed /\ Falling(todo) /\ MadeInv /\ ShardsInv
      /\ \A s \in Stages : stage[s] \in {"none", "running"}
      /\ \A s \in Stages : stage[s] = "running" => \A d \in Range(todo) : Depth(d) <= Depth(s)
  BY <1>1, Zenon DEF MainInv, TypeOK, ShardsInv, LoopInv, Begun
<1>3. /\ Head(todo) \in AllStages /\ Tail(todo) \in Seq(AllStages)
      /\ Range(todo) = {Head(todo)} \cup Range(Tail(todo)) /\ Falling(Tail(todo))
      /\ \A d \in Range(Tail(todo)) : Depth(d) <= Depth(Head(todo))
  BY <1>1, <1>2, OneLess, Zenon
<1>4. Stages' = Stages /\ Stages \subseteq AllStages
  BY <1>1, Zenon DEF Stages
<1>5. /\ stage'[Head(todo)] = "running" /\ \A s \in AllStages : s # Head(todo) => stage'[s] = stage[s]
      /\ stage' \in [AllStages -> {"none", "running", "stopped", "gone"}]
  BY <1>1, <1>2, <1>3, Zenon
<1>6. TypeOK' /\ todo' \in Seq(AllStages)
  <2>1. Range(todo') \subseteq AllStages
    BY <1>1, <1>3, RangeIn, Zenon
  <2> QED BY <1>1, <1>2, <1>3, <1>5, <2>1, Zenon DEF TypeOK
<1>7. MadeInv' /\ ShardsInv'
  BY <1>1, <1>2, Zenon DEF MadeInv, ShardsInv, Placed, Begun
<1>8. LoopInv'
  <2>1. \A s \in Stages : stage'[s] \in {"none", "running"}
    BY <1>2, <1>4, <1>5, Zenon
  <2>2. ASSUME NEW s \in Stages, stage'[s] = "running", NEW d \in Range(todo') PROVE Depth(d) <= Depth(s)
    BY <1>1, <1>2, <1>3, <1>4, <1>5, <2>2, Zenon
  <2> QED BY <1>1, <1>3, <1>4, <2>1, <2>2, Zenon DEF LoopInv, Begun
<1> QED BY <1>6, <1>7, <1>8, Zenon DEF MainInv

\* A stage that could not be created is passed over, and the sequencer is fatal.
LEMMA StartFailsStep == ASSUME MainInv, StartFails PROVE MainInv'
<1>1. /\ pc = "start" /\ todo # <<>> /\ todo' = Tail(todo)
      /\ pc' = (IF Head(todo)[1] = "seq" THEN "fatal" ELSE pc)
      /\ UNCHANGED <<matching, g_running, resources, stage, md_q, response_q>>
  BY Zenon DEF StartFails
<1>2. /\ todo \in Seq(AllStages) /\ Falling(todo) /\ resources \subseteq Made
      /\ \A s \in Stages : stage[s] \in {"none", "running"}
      /\ \A s \in Stages : stage[s] = "running" => \A d \in Range(todo) : Depth(d) <= Depth(s)
  BY <1>1, Zenon DEF MainInv, TypeOK, LoopInv, Made
<1>3. /\ Tail(todo) \in Seq(AllStages) /\ Range(Tail(todo)) \subseteq Range(todo) /\ Falling(Tail(todo))
  BY <1>1, <1>2, OneLess, Zenon
<1>4. Stages' = Stages
  BY <1>1, Zenon DEF Stages
<1>5. CASE pc' = "fatal"
  BY <1>1, <1>3, <1>5, FatalStep, Zenon
<1>6. CASE pc' = pc
  <2>1. MadeInv' /\ ShardsInv'
    BY <1>1, <1>6, Zenon DEF MainInv, MadeInv, ShardsInv, Placed
  <2>2. LoopInv'
    BY <1>1, <1>2, <1>3, <1>4, <1>6, Zenon DEF LoopInv, Begun
  <2> QED BY <1>1, <1>2, <1>3, <1>6, <2>1, <2>2, MainMoves, Zenon
<1> QED BY <1>1, <1>5, <1>6, Zenon

\* Every stage was created or left out, and main waits.
LEMMA StartedStep == ASSUME MainInv, Started PROVE MainInv'
<1>1. /\ pc = "start" /\ pc' = "wait"
      /\ UNCHANGED <<matching, g_running, resources, stage, todo, md_q, response_q>>
  BY Zenon DEF Started
<1>2. Stages' = Stages
  BY <1>1, Zenon DEF Stages
<1>3. resources' \subseteq Made /\ todo' \in Seq(AllStages)
  BY <1>1, Zenon DEF MainInv, TypeOK, Made
<1>4. MadeInv' /\ ShardsInv'
  BY <1>1, Zenon DEF MainInv, MadeInv, ShardsInv, Placed, Begun
<1>5. LoopInv'
  BY <1>1, <1>2, Zenon DEF MainInv, LoopInv, Begun
<1> QED BY <1>1, <1>3, <1>4, <1>5, MainMoves, Zenon

\* main leaves its loop after a signal.
LEMMA LeaveStep == ASSUME MainInv, Leave PROVE MainInv'
<1>1. /\ pc = "wait" /\ pc' = "stop" /\ todo' = StopOrder(matching)
      /\ UNCHANGED <<matching, g_running, resources, stage, md_q, response_q>>
  BY Zenon DEF Leave
<1>2. Stages' = Stages /\ Placed /\ \A s \in Stages : stage[s] \in {"none", "running"}
  BY <1>1, Zenon DEF Stages, MainInv, ShardsInv, LoopInv, Begun
<1>3. /\ StopOrder(matching) \in Seq(AllStages) /\ Rising(StopOrder(matching))
      /\ Range(StopOrder(matching)) = Stages
  BY <1>2, ValidIs, StagesAre, Zenon DEF Placed
<1>4. resources' \subseteq Made /\ todo' \in Seq(AllStages)
  BY <1>1, <1>3, Zenon DEF MainInv, TypeOK, Made
<1>5. MadeInv' /\ ShardsInv'
  BY <1>1, Zenon DEF MainInv, MadeInv, ShardsInv, Placed, Begun
<1>6. LoopInv'
  BY <1>1, <1>2, <1>3, Zenon DEF LoopInv, Begun
<1> QED BY <1>1, <1>4, <1>5, <1>6, MainMoves, Zenon

\* The next stage is stopped.
LEMMA StopStep == ASSUME MainInv, Stop PROVE MainInv'
<1>1. /\ pc = "stop" /\ todo # <<>> /\ todo' = Tail(todo)
      /\ stage' = IF stage[Head(todo)] = "running" THEN [stage EXCEPT ![Head(todo)] = "stopped"] ELSE stage
      /\ UNCHANGED <<pc, matching, g_running, resources, md_q, response_q>>
  BY Zenon DEF Stop
<1>2. /\ TypeOK /\ todo \in Seq(AllStages) /\ stage \in [AllStages -> {"none", "running", "stopped", "gone"}]
      /\ Placed /\ Rising(todo) /\ MadeInv /\ ShardsInv
      /\ \A s \in Stages : stage[s] \in {"none", "running", "stopped"}
      /\ \A s \in Stages : stage[s] = "running" => s \in Range(todo)
      /\ \A s \in Stages : stage[s] = "stopped" => \A d \in Range(todo) : Depth(s) <= Depth(d)
  BY <1>1, Zenon DEF MainInv, TypeOK, ShardsInv, LoopInv, Begun
<1>3. /\ Head(todo) \in AllStages /\ Tail(todo) \in Seq(AllStages)
      /\ Range(todo) = {Head(todo)} \cup Range(Tail(todo)) /\ Rising(Tail(todo))
      /\ \A d \in Range(Tail(todo)) : Depth(Head(todo)) <= Depth(d)
  BY <1>1, <1>2, OneLess, Zenon
<1>4. Stages' = Stages /\ Stages \subseteq AllStages
  BY <1>1, Zenon DEF Stages
<1>5. /\ stage'[Head(todo)] # "running"
      /\ \A s \in AllStages : s # Head(todo) => stage'[s] = stage[s]
      /\ stage'[Head(todo)] \in {stage[Head(todo)], "stopped"}
      /\ stage' \in [AllStages -> {"none", "running", "stopped", "gone"}]
  <2>1. CASE stage[Head(todo)] = "running"
    <3>1. stage' = [stage EXCEPT ![Head(todo)] = "stopped"]
      BY <1>1, <2>1, Zenon
    <3> QED BY <1>2, <1>3, <3>1
  <2>2. CASE stage[Head(todo)] # "running"
    BY <1>1, <1>2, <2>2, Zenon
  <2> QED BY <2>1, <2>2, Zenon
<1>6. TypeOK' /\ todo' \in Seq(AllStages)
  <2>1. Range(todo') \subseteq AllStages
    BY <1>1, <1>3, RangeIn, Zenon
  <2> QED BY <1>1, <1>2, <1>3, <1>5, <2>1, Zenon DEF TypeOK
<1>7. MadeInv' /\ ShardsInv'
  BY <1>1, <1>2, Zenon DEF MadeInv, ShardsInv, Placed, Begun
<1>8. LoopInv'
  <2>1. \A s \in Stages : stage'[s] \in {"none", "running", "stopped"}
    BY <1>2, <1>4, <1>5, Zenon
  <2>2. ASSUME NEW s \in Stages, stage'[s] = "running" PROVE s \in Range(todo')
    BY <1>1, <1>2, <1>3, <1>4, <1>5, <2>2, Zenon
  <2>3. ASSUME NEW s \in Stages, stage'[s] = "stopped", NEW d \in Range(todo') PROVE Depth(s) <= Depth(d)
    <3>1. CASE s = Head(todo)
      BY <1>1, <1>3, <3>1, Zenon
    <3>2. CASE s # Head(todo)
      BY <1>1, <1>2, <1>3, <1>4, <1>5, <2>3, <3>2, Zenon
    <3> QED BY <3>1, <3>2, Zenon
  <2> QED BY <1>1, <1>3, <1>4, <2>1, <2>2, <2>3, Zenon DEF LoopInv, Begun
<1> QED BY <1>6, <1>7, <1>8, Zenon DEF MainInv

\* The empty list goes through nothing.
LEMMA RangeEmpty == Range(<<>>) = {}
<1>1. <<>> \in Seq(AllStages) /\ Len(<<>>) = 0
  BY SeqEmpty
<1>2. DOMAIN <<>> = 1 .. 0
  BY <1>1, SeqLen
<1>3. 1 .. 0 = {}
  OBVIOUS
<1> QED BY <1>2, <1>3, Zenon DEF Range

\* Every thread is joined, and the journal is closed.
LEMMA CloseStep == ASSUME MainInv, CloseJournal PROVE MainInv'
<1>1. /\ pc = "stop" /\ todo = <<>> /\ pc' = "destroy" /\ todo' = StopOrder(matching)
      /\ resources' = resources \ {"journal"}
      /\ UNCHANGED <<matching, g_running, stage, md_q, response_q>>
  BY Zenon DEF CloseJournal
<1>2. /\ Stages' = Stages /\ Placed /\ resources = Made
      /\ \A s \in Stages : stage[s] = "running" => s \in Range(todo)
  BY <1>1, Zenon DEF Stages, MainInv, ShardsInv, LoopInv, MadeInv, Begun
<1>3. \A s \in Stages : stage[s] # "running"
  BY <1>1, <1>2, RangeEmpty, Zenon
<1>4. StopOrder(matching) \in Seq(AllStages)
  BY <1>2, ValidIs, StagesAre, Zenon DEF Placed
<1>5. resources' \subseteq Made /\ todo' \in Seq(AllStages)
  BY <1>1, <1>2, <1>4, Zenon
<1>6. MadeInv'
  BY <1>1, <1>2, Zenon DEF MadeInv
<1>7. ShardsInv'
  BY <1>1, Zenon DEF MainInv, ShardsInv, Placed, Begun
<1>8. LoopInv'
  BY <1>1, <1>2, <1>3, Zenon DEF LoopInv, Begun
<1> QED BY <1>1, <1>5, <1>6, <1>7, <1>8, MainMoves, Zenon

\* The next stage is destroyed.
LEMMA DestroyStep == ASSUME MainInv, Destroy PROVE MainInv'
<1>1. /\ pc = "destroy" /\ todo # <<>> /\ todo' = Tail(todo)
      /\ stage' = IF stage[Head(todo)] = "stopped" THEN [stage EXCEPT ![Head(todo)] = "gone"] ELSE stage
      /\ UNCHANGED <<pc, matching, g_running, resources, md_q, response_q>>
  BY Zenon DEF Destroy
<1>2. /\ TypeOK /\ todo \in Seq(AllStages) /\ stage \in [AllStages -> {"none", "running", "stopped", "gone"}]
      /\ Placed /\ MadeInv /\ ShardsInv /\ \A s \in Stages : stage[s] # "running"
  BY <1>1, Zenon DEF MainInv, TypeOK, ShardsInv, LoopInv, Begun
<1>3. Head(todo) \in AllStages /\ Tail(todo) \in Seq(AllStages)
  BY <1>1, <1>2, OneLess, Zenon
<1>4. Stages' = Stages /\ Stages \subseteq AllStages
  BY <1>1, Zenon DEF Stages
<1>5. /\ \A s \in AllStages : stage'[s] \in {stage[s], "gone"}
      /\ stage' \in [AllStages -> {"none", "running", "stopped", "gone"}]
  <2>1. CASE stage[Head(todo)] = "stopped"
    <3>1. stage' = [stage EXCEPT ![Head(todo)] = "gone"]
      BY <1>1, <2>1, Zenon
    <3> QED BY <1>2, <1>3, <3>1
  <2>2. CASE stage[Head(todo)] # "stopped"
    BY <1>1, <1>2, <2>2, Zenon
  <2> QED BY <2>1, <2>2, Zenon
<1>6. TypeOK' /\ todo' \in Seq(AllStages)
  <2>1. Range(todo') \subseteq AllStages
    BY <1>1, <1>3, RangeIn, Zenon
  <2> QED BY <1>1, <1>2, <1>3, <1>5, <2>1, Zenon DEF TypeOK
<1>7. MadeInv' /\ ShardsInv'
  BY <1>1, <1>2, Zenon DEF MadeInv, ShardsInv, Placed, Begun
<1>8. LoopInv'
  BY <1>1, <1>2, <1>4, <1>5, Zenon DEF LoopInv, Begun
<1> QED BY <1>6, <1>7, <1>8, Zenon DEF MainInv

\* The last resources are released.
LEMMA ReleaseStep == ASSUME MainInv, Release PROVE MainInv'
<1>1. /\ pc = "destroy" /\ pc' = "done" /\ resources' = {}
      /\ UNCHANGED <<matching, g_running, stage, todo, md_q, response_q>>
  BY Zenon DEF Release
<1>2. resources' \subseteq Made /\ todo' \in Seq(AllStages)
  BY <1>1, Zenon DEF MainInv
<1>3. MadeInv' /\ ShardsInv' /\ LoopInv'
  BY <1>1, Zenon DEF MainInv, MadeInv, ShardsInv, LoopInv, Placed, Begun
<1> QED BY <1>1, <1>2, <1>3, MainMoves, Zenon

\* What the threads do meanwhile changes the two queues only.
LEMMA ThreadStep == ASSUME MainInv, Trade \/ Tick \/ Respond PROVE MainInv'
<1>1. /\ md_q \in [0 .. 7 -> 0 .. Cap] /\ response_q \in 0 .. Cap /\ g_running \in BOOLEAN /\ Cap \in Nat
  BY MainHas, Zenon DEF MainInv, TypeOK
<1>2. CASE Trade
  <2>1. PICK i \in Shards : /\ response_q < Cap
                            /\ md_q' = [md_q EXCEPT ![i] = IF @ < Cap THEN @ + 1 ELSE @]
                            /\ response_q' = response_q + 1
                            /\ UNCHANGED <<pc, matching, g_running, resources, stage, todo>>
    BY <1>2, Zenon DEF Trade
  <2>2. i \in 0 .. 7
    BY Zenon DEF Shards
  <2>3. md_q[i] \in 0 .. Cap
    BY <1>1, <2>2, Zenon
  <2>4. (IF md_q[i] < Cap THEN md_q[i] + 1 ELSE md_q[i]) \in 0 .. Cap /\ response_q' \in 0 .. Cap
    BY <1>1, <2>1, <2>3
  <2>5. md_q' \in [0 .. 7 -> 0 .. Cap]
    BY <1>1, <2>1, <2>2, <2>4, Zenon
  <2> QED BY <1>1, <2>1, <2>4, <2>5, StillStep, Zenon
<1>3. CASE Tick
  <2>1. /\ md_q[0] > 0 /\ md_q' = [md_q EXCEPT ![0] = @ - 1]
        /\ UNCHANGED <<pc, matching, g_running, resources, stage, todo, response_q>>
    BY <1>3, Zenon DEF Tick, MdQueue
  <2>2. 0 \in 0 .. 7
    OBVIOUS
  <2>3. md_q[0] \in 0 .. Cap
    BY <1>1, <2>2, Zenon
  <2>4. md_q[0] - 1 \in 0 .. Cap
    BY <1>1, <2>1, <2>3
  <2>5. md_q' \in [0 .. 7 -> 0 .. Cap]
    BY <1>1, <2>1, <2>2, <2>4, Zenon
  <2> QED BY <1>1, <2>1, <2>5, StillStep, Zenon
<1>4. CASE Respond
  <2>1. response_q' = 0 /\ UNCHANGED <<pc, matching, g_running, resources, stage, todo, md_q>>
    BY <1>4, Zenon DEF Respond
  <2>2. 0 \in 0 .. Cap
    BY <1>1
  <2> QED BY <1>1, <2>1, <2>2, StillStep, Zenon
<1> QED BY <1>2, <1>3, <1>4, Zenon

\* Init and every step keep what main knows of its stages.
LEMMA MainFacts == Spec => []MainInv
<1>1. Init => MainInv
  <2> SUFFICES ASSUME Init PROVE MainInv
    OBVIOUS
  <2>1. /\ pc = "config" /\ matching \in MatchingArg /\ g_running = TRUE /\ resources = {} /\ todo = <<>>
        /\ stage = [s \in AllStages |-> "none"] /\ md_q = [i \in 0 .. 7 |-> 0] /\ response_q = 0
    BY Zenon DEF Init
  <2>2. 0 \in 0 .. Cap /\ matching \in Int /\ todo \in Seq(AllStages) /\ Range(todo) = {}
    BY <2>1, MainHas, SeqEmpty, RangeEmpty
  <2>3. /\ stage \in [AllStages -> {"none", "running", "stopped", "gone"}]
        /\ \A s \in AllStages : stage[s] = "none"
    BY <2>1, Zenon
  <2>4. TypeOK
    BY <2>1, <2>2, <2>3, Zenon DEF TypeOK
  <2>5. MadeInv /\ ShardsInv
    BY <2>1, <2>3, Zenon DEF MadeInv, ShardsInv, Begun
  <2>6. LoopInv
    BY <2>1, <2>3, Zenon DEF LoopInv, Begun, Stages
  <2> QED BY <2>2, <2>4, <2>5, <2>6, Zenon DEF MainInv
<1>2. MainInv /\ [Next]_vars => MainInv'
  <2> SUFFICES ASSUME MainInv, [Next]_vars PROVE MainInv'
    OBVIOUS
  <2>1. CASE AcquireFails
    <3>1. todo \in Seq(AllStages)
      BY Zenon DEF MainInv
    <3> QED BY <2>1, <3>1, FatalStep, Zenon DEF AcquireFails
  <2>2. g_running \in BOOLEAN /\ md_q \in [0 .. 7 -> 0 .. Cap] /\ response_q \in 0 .. Cap
    BY Zenon DEF MainInv, TypeOK
  <2>3. CASE Health
    BY <2>2, <2>3, StillStep, Zenon DEF Health
  <2>4. CASE Signal
    BY <2>2, <2>4, StillStep, Zenon DEF Signal
  <2>5. CASE UNCHANGED vars
    BY <2>2, <2>5, StillStep, Zenon DEF vars
  <2>6. CASE Terminated
    BY <2>5, <2>6, Zenon DEF Terminated
  <2> QED
    BY <2>1, <2>3, <2>4, <2>5, <2>6, ConfigureStep, AcquireStep, StartStep, StartFailsStep, StartedStep,
       LeaveStep, StopStep, CloseStep, DestroyStep, ReleaseStep, ThreadStep, Zenon DEF Next, Main
<1> QED BY <1>1, <1>2, PTL DEF Spec

\* Init and every step of main that logs or flushes keep the log.
LEMMA LogFacts == Spec => []LogInv
<1>1. Init => LogInv
  BY NoLogOK, Zenon DEF Init, LogInv
<1>2. LogInv /\ [Next]_vars => LogInv'
  <2> SUFFICES ASSUME LogInv, [Next]_vars PROVE LogInv'
    OBVIOUS
  <2>1. LogOK(log) /\ (pc = "done" => log.head = log.tail)
    BY Zenon DEF LogInv
  <2>2. 1 \in Int /\ 2 \in Int
    OBVIOUS
  <2>3. LogOK(Logged(log, 1)) /\ LogOK(Logged(log, 2))
    BY <2>1, <2>2, LoggedOK, Zenon
  <2>4. CASE Acquire
    <3>1. log' \in {log, Logged(log, 1), Logged(log, 2)} /\ pc' = After(pc)
          /\ pc \in {"mempool", "journal", "event_bus", "risk_state"}
      BY <2>4 DEF Acquire, Reported
    <3>2. pc' # "done"
      BY <3>1 DEF After
    <3> QED BY <2>1, <2>3, <3>1, <3>2, Zenon DEF LogInv
  <2>5. CASE Health \/ Leave
    <3>1. LogOK(Logged(Logged(log, 2), 2))
      BY <2>2, <2>3, LoggedOK, Zenon
    <3>2. pc' # "done" /\ log' \in {Flushed(Logged(Logged(log, 2), 2)), Flushed(Logged(log, 2))}
      BY <2>5, Zenon DEF Health, Leave
    <3> QED BY <2>3, <3>1, <3>2, FlushedOK, Zenon DEF LogInv
  <2>6. CASE Started
    BY <2>3, <2>6, Zenon DEF Started, LogInv
  <2>7. CASE Release
    BY <2>1, <2>7, FlushedOK, Zenon DEF Release, LogInv
  <2>8. CASE \/ Configure \/ AcquireFails \/ Start \/ StartFails \/ Stop \/ CloseJournal \/ Destroy \/ Signal
             \/ Trade \/ Tick \/ Respond \/ Terminated \/ UNCHANGED vars
    <3>1. log' = log
      BY <2>8, Zenon DEF Configure, AcquireFails, Start, StartFails, Stop, CloseJournal, Destroy, Signal,
         Trade, Tick, Respond, Terminated, vars
    <3>2. pc' = "done" => pc = "done"
      BY <2>8, Zenon DEF Configure, AcquireFails, Start, StartFails, Stop, CloseJournal, Destroy, Signal,
         Trade, Tick, Respond, Terminated, vars
    <3> QED BY <2>1, <3>1, <3>2, Zenon DEF LogInv
  <2> QED BY <2>4, <2>5, <2>6, <2>7, <2>8, Zenon DEF Next, Main
<1> QED BY <1>1, <1>2, PTL DEF Spec

(* ---- what main promises ---- *)
\* Stages are numbered along the way of an order.
LEMMA DepthIn == ASSUME NEW s \in AllStages PROVE Depth(s) \in 1 .. 8
<1>1. /\ 1 \in 1 .. 8 /\ 2 \in 1 .. 8 /\ 3 \in 1 .. 8 /\ 4 \in 1 .. 8 /\ 5 \in 1 .. 8 /\ 6 \in 1 .. 8
      /\ 7 \in 1 .. 8 /\ 8 \in 1 .. 8
  OBVIOUS
<1> QED BY <1>1, StagesAre, DepthOf, Zenon DEF StageSet, Matchers, Workers

\* On the way of an order, no stage has stopped while one before it still runs, and
\* none runs before main has tried to start the ones after it: for every number of
\* shards and risk workers, whichever stages could not be created.
THEOREM OrdersHaveReader == Spec => []OrderPathHasReader
<1>1. MainInv => OrderPathHasReader
  <2> SUFFICES ASSUME MainInv, Alive, NEW s \in Stages, NEW d \in Stages,
                      Depth(s) < Depth(d), stage[s] = "running"
               PROVE  stage[d] = "running" \/ (stage[d] = "none" /\ Tried(d))
    BY Zenon DEF OrderPathHasReader
  <2>1. LoopInv /\ pc \in {"config", "mempool", "journal", "event_bus", "risk_state", "start", "wait",
                           "stop", "destroy"}
    BY Zenon DEF MainInv, TypeOK, Alive
  <2>2. ~(Depth(d) <= Depth(s))
    <3>1. Depth(s) \in 1 .. 8 /\ Depth(d) \in 1 .. 8
      BY DepthIn, Zenon DEF Stages
    <3> QED BY <3>1
  <2>3. pc \in {"start", "wait", "stop"}
    BY <2>1, Zenon DEF LoopInv, Begun
  <2>4. CASE pc = "start"
    BY <2>1, <2>2, <2>4, Zenon DEF LoopInv, Tried
  <2>5. CASE pc = "wait"
    BY <2>1, <2>5, Zenon DEF LoopInv, Tried
  <2>6. CASE pc = "stop"
    BY <2>1, <2>2, <2>6, Zenon DEF LoopInv, Tried
  <2> QED BY <2>3, <2>4, <2>5, <2>6, Zenon
<1> QED BY <1>1, MainFacts, PTL

\* The log of bt_log and bt_log_flush keeps every line, in order, until newer ones need
\* its place, and a process that shuts down has written all lines it kept: for every
\* size of the ring and every level.
THEOREM LogIsComplete == Spec => []LogComplete
<1>1. LogInv => LogComplete
  <2> SUFFICES ASSUME LogInv PROVE LogComplete
    OBVIOUS
  <2>1. LogKept(log) /\ LogTypes(log) /\ (pc = "done" => log.head = log.tail)
    BY Zenon DEF LogInv, LogOK
  <2>2. ASSUME pc = "done" PROVE Pending(log) = <<>>
    <3>1. log.head = log.tail /\ log.tail \in 0 .. RingSize - 1
      BY <2>1, <2>2, LogFields, Zenon
    <3>2. Between(log.tail, log.tail) = 0
      BY <3>1, RingHas DEF Between
    <3>3. Pending(log) \in Seq(Nat) /\ Len(Pending(log)) = 0
      BY <2>1, <3>1, <3>2, PendingIs, Zenon DEF Waiting
    <3> QED BY <3>3, SeqEmpty
  <2> QED BY <2>1, <2>2, Zenon DEF LogComplete
<1> QED BY <1>1, LogFacts, PTL

\* The resources of a stage are among what main made.
LEMMA UsesMade == ASSUME NEW s \in AllStages PROVE Uses(s) \subseteq Made
<1>1. s[1] \in {"gw", "gate", "oms", "risk", "seq", "match", "md", "clearing"}
  BY StagesAre DEF StageSet, Matchers, Workers
<1> QED BY <1>1 DEF Uses, Made

\* A thread that runs, and a stage that is not destroyed, finds what it was created with.
LEMMA Outlives == ASSUME MainInv PROVE ResourcesOutlive
<1> SUFFICES ASSUME Alive, NEW s \in Stages
             PROVE  /\ stage[s] = "running" => Uses(s) \subseteq resources
                    /\ stage[s] = "stopped" => Uses(s) \ {"journal"} \subseteq resources
  BY Zenon DEF ResourcesOutlive
<1>1. TypeOK /\ MadeInv /\ LoopInv /\ Stages \subseteq AllStages
  BY Zenon DEF MainInv, Stages
<1>2. pc \in {"config", "mempool", "journal", "event_bus", "risk_state", "start", "wait",
             "stop", "destroy"}
  BY <1>1, Zenon DEF TypeOK, Alive
<1>3. Uses(s) \subseteq Made
  BY <1>1, UsesMade, Zenon
<1>4. stage[s] = "running" => pc \in {"start", "wait", "stop"}
  BY <1>1, <1>2, Zenon DEF LoopInv, Begun
<1>5. stage[s] = "stopped" => pc \in {"stop", "destroy"}
  BY <1>1, <1>2, Zenon DEF LoopInv, Begun
<1> QED BY <1>1, <1>3, <1>4, <1>5, Zenon DEF MadeInv

\* A thread that runs, and a stage that bt_*_destroy has yet to tear down, finds the
\* journal, the event bus, the risk state and the memory pool it was created with, for
\* every number of shards, risk workers and array entries, whichever calls fail.
THEOREM ResourcesServed == Spec => []ResourcesOutlive
<1>1. MainInv => ResourcesOutlive
  BY Outlives
<1> QED BY <1>1, MainFacts, PTL

\* The cores of bt_config.h are apart as long as there are no more shards and workers
\* than it knows.
LEMMA CoresApart ==
  ASSUME MaxShards = 4, RiskThreads <= 2, Placed, matching \in 1 .. 8,
         NEW i \in Shards, NEW d \in Stages, d # Matcher(i)
  PROVE  Core(d) # Core(Matcher(i))
<1>1. i \in 0 .. 3 /\ matching <= 4
  BY DEF Shards, Placed
<1>2. Core(Matcher(i)) = 6 + i
  BY DEF Core, Matcher, MatchCore
<1>3. d \in StageSet(matching)
  BY StagesAre, Zenon
<1>4. CASE d \in Matchers(matching)
  <2>1. PICK j \in 0 .. matching - 1 : d = Matcher(j)
    BY <1>4, Zenon DEF Matchers, Matcher
  <2>2. j # i /\ Core(d) = 6 + j
    BY <2>1 DEF Core, Matcher, MatchCore
  <2> QED BY <1>1, <1>2, <2>2
<1>5. CASE d \in Workers
  <2>1. PICK j \in 0 .. RiskThreads - 1 : d = <<"risk", j>>
    BY <1>5, Zenon DEF Workers
  <2>2. j \in 0 .. 1 /\ Core(d) = 4 + j
    BY <2>1, LifecycleAssumption DEF Core
  <2> QED BY <1>1, <1>2, <2>2
<1>6. CASE d \in {<<"gw", 0>>, <<"gate", 0>>, <<"oms", 0>>, <<"seq", 0>>, <<"md", 0>>, <<"clearing", 0>>}
  <2>1. Core(d) \in {2, 3, 10, 11, 13}
    BY <1>6 DEF Core, SequencerCore, MatchCore
  <2> QED BY <1>1, <1>2, <2>1
<1> QED BY <1>3, <1>4, <1>5, <1>6, Zenon DEF StageSet

\* A running stage has what main promised it, with the array of four shards and the two
\* risk workers of bt_config.h: its resources, a place in the arrays and, if it is a
\* shard, a core of its own, for every number of matching threads on the command line,
\* whichever calls fail.
THEOREM StagesServed ==
  ASSUME MaxShards = 4, RiskThreads <= 2
  PROVE  Spec => []StagesInv
<1>1. MainInv => StagesInv
  <2> SUFFICES ASSUME MainInv PROVE StagesInv
    OBVIOUS
  <2>1. TypeOK /\ MadeInv /\ ShardsInv /\ LoopInv /\ matching \in Int /\ Stages \subseteq AllStages
    BY Zenon DEF MainInv, TypeOK, Stages
  <2>2. ResourcesOutlive
    BY Outlives, Zenon
  <2>3. ShardsAlone
    <3> SUFFICES ASSUME NEW i \in Shards, stage[Matcher(i)] = "running",
                        NEW d \in Stages \ {Matcher(i)}, Core(d) = Core(Matcher(i))
                 PROVE  FALSE
      BY Zenon DEF ShardsAlone, Together
    <3>1. i \in 0 .. 7
      BY Zenon DEF Shards
    <3>2. Matcher(i) \in AllStages
      <4>1. i \in 0 .. 8 - 1
        BY <3>1
      <4> QED BY <4>1, StagesAre, Zenon DEF StageSet, Matchers, Matcher
    <3>3. Placed
      BY <2>1, <3>2, Zenon DEF ShardsInv
    <3> QED BY <3>3, ValidIs, CoresApart, Zenon DEF Placed
  <2>4. ShardsFit
    <3> SUFFICES ASSUME pc = "wild" PROVE matching = 2 * MaxShards
      BY Zenon DEF ShardsFit
    <3>1. Valid(matching) /\ matching > MaxShards
      BY <2>1, Zenon DEF ShardsInv
    <3>2. matching \in {1, 2, 4, 8}
      BY <3>1, ValidIs, Zenon
    <3> QED BY <3>1, <3>2
  <2> QED BY <2>1, <2>2, <2>3, <2>4, Zenon DEF StagesInv
<1> QED BY <1>1, MainFacts, PTL

--------------------------------------------------------------------------------
(* ---- the hash map: probing ---- *)

\* The quotient and the remainder are the only ones.
LEMMA Division ==
  ASSUME NEW E \in Nat, E > 0, NEW a \in Nat, NEW q \in Nat, q * E <= a, a < q * E + E
  PROVE  a % E = a - q * E
<1>1. a = E * (a \div E) + (a % E) /\ a % E \in 0 .. E - 1 /\ a \div E \in Nat
  OBVIOUS
<1> DEFINE d == a \div E
<1>2. d \in Nat /\ d * E <= a /\ a < d * E + E
  BY <1>1
<1> HIDE DEF d
<1>3. ~(d < q)
  <2> SUFFICES ASSUME d + 1 <= q PROVE FALSE
    BY <1>2
  <2>1. (d + 1) * E <= q * E
    BY <1>2
  <2> QED
    BY <1>2, <2>1
<1>4. ~(q < d)
  <2> SUFFICES ASSUME q + 1 <= d PROVE FALSE
    BY <1>2
  <2>1. (q + 1) * E <= d * E
    BY <1>2
  <2> QED
    BY <1>2, <2>1
<1>5. d = q
  BY <1>2, <1>3, <1>4
<1> QED
  BY <1>1, <1>5 DEF d

(* ---- probing ---- *)
\* _hm_probe goes once around the table from the home of a key.
LEMMA ProbeIs ==
  ASSUME NEW cap \in Nat, cap > 0, NEW k \in Nat
  PROVE  \E r \in 0 .. cap - 1 : \A d \in 0 .. cap - 1 :
           Probe(k, d, cap) = IF r + d < cap THEN r + d ELSE r + d - cap
<1> DEFINE q == k \div cap
           r == k % cap
<1>1. q \in Nat /\ r \in 0 .. cap - 1 /\ k = q * cap + r
  OBVIOUS
<1> HIDE DEF q, r
<1>2. ASSUME NEW d \in 0 .. cap - 1
      PROVE  Probe(k, d, cap) = IF r + d < cap THEN r + d ELSE r + d - cap
  <2>1. CASE r + d < cap
    <3>1. k + d \in Nat /\ q * cap <= k + d /\ k + d < q * cap + cap /\ (k + d) - q * cap = r + d
      BY <1>1, <2>1
    <3>2. (k + d) % cap = (k + d) - q * cap
      BY <1>1, <3>1, Division
    <3> QED BY <2>1, <3>1, <3>2, Zenon DEF Probe
  <2>2. CASE ~(r + d < cap)
    <3>1. /\ q + 1 \in Nat /\ k + d \in Nat /\ (q + 1) * cap = q * cap + cap
          /\ (q + 1) * cap <= k + d /\ k + d < (q + 1) * cap + cap
          /\ (k + d) - (q + 1) * cap = r + d - cap
      BY <1>1, <2>2
    <3>2. (k + d) % cap = (k + d) - (q + 1) * cap
      BY <3>1, Division
    <3> QED BY <2>2, <3>1, <3>2, Zenon DEF Probe
  <2> QED BY <2>1, <2>2, Zenon
<1> QED BY <1>1, <1>2, Zenon

\* It meets every slot, each of them once.
LEMMA ProbeAll ==
  ASSUME NEW cap \in Nat, cap > 0, NEW k \in Nat
  PROVE  /\ \A d \in 0 .. cap - 1 : Probe(k, d, cap) \in 0 .. cap - 1
         /\ \A d, f \in 0 .. cap - 1 : Probe(k, d, cap) = Probe(k, f, cap) => d = f
         /\ \A i \in 0 .. cap - 1 : \E d \in 0 .. cap - 1 : Probe(k, d, cap) = i
<1>1. PICK r \in 0 .. cap - 1 : \A d \in 0 .. cap - 1 :
        Probe(k, d, cap) = IF r + d < cap THEN r + d ELSE r + d - cap
  BY ProbeIs, Zenon
<1>2. ASSUME NEW d \in 0 .. cap - 1 PROVE Probe(k, d, cap) \in 0 .. cap - 1
  BY <1>1
<1>3. ASSUME NEW d \in 0 .. cap - 1, NEW f \in 0 .. cap - 1, Probe(k, d, cap) = Probe(k, f, cap)
      PROVE  d = f
  BY <1>1, <1>3
<1>4. ASSUME NEW i \in 0 .. cap - 1 PROVE \E d \in 0 .. cap - 1 : Probe(k, d, cap) = i
  <2> DEFINE d == IF i >= r THEN i - r ELSE i - r + cap
  <2>1. d \in 0 .. cap - 1 /\ (IF r + d < cap THEN r + d ELSE r + d - cap) = i
    OBVIOUS
  <2> HIDE DEF d
  <2> QED BY <1>1, <2>1, Zenon
<1> QED BY <1>2, <1>3, <1>4, Zenon

\* What the proofs use of finite sets and of numbers.
LeastFact == \A T \in SUBSET Nat : T # {} => \E s \in T : \A x \in T : s <= x

CountFacts ==
  \A n \in Nat : \A A \in SUBSET (0 .. n - 1) :
    /\ Cardinality(A) \in 0 .. n /\ Cardinality(0 .. n - 1) = n
    /\ \A i \in 0 .. n - 1 : i \notin A => Cardinality(A \cup {i}) = Cardinality(A) + 1
    /\ \A i \in 0 .. n - 1 : i \in A => Cardinality(A \ {i}) = Cardinality(A) - 1
    /\ \A B \in SUBSET A : Cardinality(B) <= Cardinality(A)
    /\ \A B \in SUBSET (0 .. n - 1) : A \cap B = {} => Cardinality(A \cup B) = Cardinality(A) + Cardinality(B)

\* The loops stop at the first slot that stops them.
LEMMA FirstIs ==
  ASSUME LeastFact, NEW S, S \subseteq Nat, S # {}
  PROVE  First(S) \in S /\ \A j \in S : First(S) <= j
<1>1. \E s \in S : \A x \in S : s <= x
  BY Zenon DEF LeastFact
<1> QED BY <1>1, Zenon DEF First

\* A loop that stops at one slot only stops there.
LEMMA FirstOne ==
  ASSUME LeastFact, NEW i \in Nat
  PROVE  First({i}) = i
<1>1. {i} \subseteq Nat /\ {i} # {}
  OBVIOUS
<1>2. First({i}) \in {i}
  BY <1>1, FirstIs, Zenon
<1> QED BY <1>2, Zenon

(* ---- tables ---- *)
Entries == [key : Keys \cup {0}, value : Values \cup {None, Tombstone}]

\* A table as a record.
Tables(cap) == [entries : [0 .. cap - 1 -> Entries], capacity : Nat, count : Nat, tombstones : Nat]
Shape(h) == h \in Tables(h.capacity)

\* A table that is sound, in which probing ends.
Good(h) == /\ Shape(h) /\ TableTypes(h) /\ Reachable(h) /\ EmptySlot(h)
           /\ \A i \in Live(h) : h.entries[i].key \in Keys
           /\ CountsCover(h) /\ h.count + h.tombstones <= h.capacity

\* No key is there twice.
Unique(h) == \A i, j \in Live(h) : h.entries[i].key = h.entries[j].key => i = j

\* The parts of a table.
LEMMA GoodHas ==
  ASSUME NEW h, Good(h)
  PROVE  /\ h.capacity \in Nat /\ h.capacity >= 4 /\ h.capacity > 0 /\ Slots(h) = 0 .. h.capacity - 1
         /\ Slots(h) \subseteq Nat
         /\ h.entries \in [Slots(h) -> Entries] /\ h.count \in Nat /\ h.tombstones \in Nat
         /\ \A i \in Slots(h) : h.entries[i] \in Entries
<1>1. TableTypes(h)
  BY Zenon DEF Good
<1>2. h.capacity \in Nat /\ h.capacity >= 4 /\ h.count \in 0 .. h.capacity /\ h.tombstones \in 0 .. h.capacity
  BY <1>1, Zenon DEF TableTypes
<1>3. h.capacity > 0 /\ h.count \in Nat /\ h.tombstones \in Nat /\ 0 .. h.capacity - 1 \subseteq Nat
  BY <1>2
<1>4. h.entries \in [Slots(h) -> Entries]
  BY <1>1, Zenon DEF TableTypes, Entries
<1> QED BY <1>2, <1>3, <1>4, Zenon DEF Slots

\* Keys are numbers.
LEMMA KeysHave == \A k \in Keys : k \in Nat
BY HashMapAssumption

\* A vacant slot is met on the way from any key.
LEMMA PlaceIs ==
  ASSUME LeastFact, NEW h, Good(h), NEW k \in Keys, NEW v
  PROVE  \E f \in Slots(h) :
           LET idx == Probe(k, f, h.capacity)
           IN  /\ idx \in Slots(h)
               /\ \A c \in Slots(h) : c < f => /\ ~Vacant(h.entries[Probe(k, c, h.capacity)])
                                               /\ h.entries[Probe(k, c, h.capacity)].key # k
               /\ \/ Vacant(h.entries[idx])
                     /\ Place(h, k, v) = [h EXCEPT !.entries[idx] = [key |-> k, value |-> v], !.count = @ + 1]
                  \/ ~Vacant(h.entries[idx]) /\ h.entries[idx].key = k /\ Place(h, k, v) = h
<1> DEFINE P(d) == Probe(k, d, h.capacity)
           S == PutStops(h, k)
<1>1. /\ h.capacity \in Nat /\ h.capacity > 0 /\ k \in Nat /\ Slots(h) = 0 .. h.capacity - 1 /\ Slots(h) \subseteq Nat
  BY GoodHas, KeysHave, Zenon
<1>2. /\ \A d \in Slots(h) : P(d) \in Slots(h)
      /\ \A i \in Slots(h) : \E d \in Slots(h) : P(d) = i
  BY <1>1, ProbeAll, Zenon
<1>3. S = {i \in Slots(h) : Vacant(h.entries[P(i)]) \/ h.entries[P(i)].key = k}
  BY <1>1, Zenon DEF PutStops
<1>4. S # {}
  <2>1. PICK i \in Slots(h) : h.entries[i].value = None
    BY Zenon DEF Good, EmptySlot
  <2>2. PICK d \in Slots(h) : P(d) = i
    BY <1>2, Zenon
  <2> QED BY <1>3, <2>1, <2>2, Zenon DEF Vacant
<1>5. S \subseteq Nat
  BY <1>1, <1>3, Zenon
<1> DEFINE f == First(S)
<1>6. f \in S /\ \A j \in S : f <= j
  BY <1>4, <1>5, FirstIs, Zenon
<1>7. Place(h, k, v) = IF Vacant(h.entries[P(f)])
                       THEN [h EXCEPT !.entries[P(f)] = [key |-> k, value |-> v], !.count = @ + 1] ELSE h
  BY <1>4, Zenon DEF Place
<1> HIDE DEF f, S
<1>8. f \in Slots(h) /\ (Vacant(h.entries[P(f)]) \/ h.entries[P(f)].key = k)
  BY <1>3, <1>6, Zenon
<1>9. ASSUME NEW c \in Slots(h), c < f PROVE c \notin S
  <2>1. f \in Nat /\ c \in Nat
    BY <1>1, <1>8, Zenon
  <2> QED BY <1>6, <1>9, <2>1
<1>10. \A c \in Slots(h) : c < f => ~Vacant(h.entries[P(c)]) /\ h.entries[P(c)].key # k
  BY <1>3, <1>9, Zenon
<1>11. P(f) \in Slots(h)
  BY <1>2, <1>8, Zenon
<1> QED BY <1>7, <1>8, <1>10, <1>11, Zenon

\* Where the lookups end.
LEMMA FoundIs ==
  ASSUME LeastFact, NEW h, Good(h), NEW k \in Keys
  PROVE  \/ Found(h, k) = {} /\ \A i \in Live(h) : h.entries[i].key # k
         \/ \E idx \in Live(h) : h.entries[idx].key = k /\ Found(h, k) = {idx}
<1> DEFINE P(d) == Probe(k, d, h.capacity)
           S == {i \in 0 .. h.capacity - 1 :
                   LET e == h.entries[Probe(k, i, h.capacity)]
                   IN  e.value = None \/ (e.value # Tombstone /\ e.key = k)}
<1>1. /\ h.capacity \in Nat /\ h.capacity > 0 /\ k \in Nat /\ Slots(h) = 0 .. h.capacity - 1 /\ Slots(h) \subseteq Nat
  BY GoodHas, KeysHave, Zenon
<1>2. /\ \A d \in Slots(h) : P(d) \in Slots(h)
      /\ \A i \in Slots(h) : \E d \in Slots(h) : P(d) = i
  BY <1>1, ProbeAll, Zenon
<1>3. S = {i \in Slots(h) : h.entries[P(i)].value = None
                            \/ (h.entries[P(i)].value # Tombstone /\ h.entries[P(i)].key = k)}
  BY <1>1, Zenon
<1>4. S # {}
  <2>1. PICK i \in Slots(h) : h.entries[i].value = None
    BY Zenon DEF Good, EmptySlot
  <2>2. PICK d \in Slots(h) : P(d) = i
    BY <1>2, Zenon
  <2> QED BY <1>3, <2>1, <2>2, Zenon
<1>5. S \subseteq Nat
  BY <1>1, <1>3, Zenon
<1> DEFINE f == First(S)
<1>6. f \in S /\ \A j \in S : f <= j
  BY <1>4, <1>5, FirstIs, Zenon
<1>7. Found(h, k) = IF h.entries[P(f)].value = None THEN {} ELSE {P(f)}
  BY <1>4, Zenon DEF Found
<1> HIDE DEF f, S
<1>8. f \in Slots(h) /\ P(f) \in Slots(h)
      /\ (h.entries[P(f)].value = None
          \/ (h.entries[P(f)].value # Tombstone /\ h.entries[P(f)].key = k))
  BY <1>2, <1>3, <1>6, Zenon
<1>9. CASE h.entries[P(f)].value # None
  BY <1>7, <1>8, <1>9, Zenon DEF Live, Vacant
<1>10. CASE h.entries[P(f)].value = None
  <2>1. ASSUME NEW i \in Live(h), h.entries[i].key = k PROVE FALSE
    <3>1. i \in Slots(h) /\ h.entries[i].value # None /\ h.entries[i].value # Tombstone
      BY Zenon DEF Live, Vacant
    <3>2. PICK d \in Slots(h) : P(d) = i
      BY <1>2, <3>1, Zenon
    <3>3. d \in S
      BY <1>3, <2>1, <3>1, <3>2, Zenon
    <3>4. \A c \in 0 .. d - 1 : h.entries[P(c)].value # None
      BY <2>1, <3>2, Zenon DEF Good, Reachable
    <3>5. f \notin 0 .. d - 1
      BY <1>10, <3>4, Zenon
    <3>6. f \in Nat /\ d \in Nat /\ f <= d
      BY <1>1, <1>6, <1>8, <3>3, Zenon
    <3>7. f = d
      BY <3>5, <3>6
    <3> QED BY <1>10, <3>1, <3>2, <3>7, Zenon
  <2> QED BY <1>7, <1>10, <2>1, Zenon
<1> QED BY <1>9, <1>10, Zenon

\* What a lookup returns.
LEMMA GetIs ==
  ASSUME LeastFact, NEW h, Good(h), Unique(h), NEW k \in Keys
  PROVE  /\ (\A i \in Live(h) : h.entries[i].key # k) => Get(h, k) = None
         /\ \A i \in Live(h) : h.entries[i].key = k => Get(h, k) = h.entries[i].value
<1>1. CASE Found(h, k) = {} /\ \A i \in Live(h) : h.entries[i].key # k
  BY <1>1, Zenon DEF Get
<1>2. ASSUME NEW idx \in Live(h), h.entries[idx].key = k, Found(h, k) = {idx}
      PROVE  /\ Get(h, k) = h.entries[idx].value
             /\ \A i \in Live(h) : h.entries[i].key = k => i = idx
  <2>1. idx \in Nat
    BY GoodHas, Zenon DEF Live
  <2>2. First(Found(h, k)) = idx /\ Found(h, k) # {}
    BY <1>2, <2>1, FirstOne, Zenon
  <2> QED BY <1>2, <2>2, Zenon DEF Get, Unique
<1>3. CASE \E idx \in Live(h) : h.entries[idx].key = k /\ Found(h, k) = {idx}
  BY <1>2, <1>3, Zenon
<1>4. \/ Found(h, k) = {} /\ \A i \in Live(h) : h.entries[i].key # k
      \/ \E idx \in Live(h) : h.entries[idx].key = k /\ Found(h, k) = {idx}
  BY FoundIs, Zenon
<1> QED BY <1>1, <1>3, <1>4, Zenon

(* ---- what put and remove do to a table ---- *)
PutAt(h, idx, e) == [h EXCEPT !.entries[idx] = e, !.count = @ + 1]
MarkAt(h, idx) == [h EXCEPT !.entries[idx].value = Tombstone, !.count = @ - 1, !.tombstones = @ + 1]

\* g is h with another entry at idx.
Wrote(h, g, idx) == /\ Shape(g) /\ g.capacity = h.capacity
                    /\ Slots(g) = Slots(h) /\ g.entries \in [Slots(g) -> Entries]
                    /\ \A i \in Slots(h) : i # idx => g.entries[i] = h.entries[i]

\* An entry is written by put.
LEMMA Written ==
  ASSUME NEW h, Good(h), NEW idx \in Slots(h), NEW e \in Entries
  PROVE  /\ Wrote(h, PutAt(h, idx, e), idx) /\ PutAt(h, idx, e).count = h.count + 1
         /\ PutAt(h, idx, e).tombstones = h.tombstones /\ PutAt(h, idx, e).entries[idx] = e
<1> DEFINE g == PutAt(h, idx, e)
           r == [h.entries EXCEPT ![idx] = e]
<1>1. /\ h.entries \in [Slots(h) -> Entries] /\ h.capacity \in Nat /\ h.count \in Nat /\ Slots(h) = 0 .. h.capacity - 1
      /\ h \in Tables(h.capacity)
  BY GoodHas, Zenon DEF Good, Shape
<1>2. g = [h EXCEPT !.entries = r, !.count = h.count + 1]
  BY <1>1 DEF Tables, PutAt
<1>3. h.count + 1 \in Nat
  BY <1>1
<1>4. /\ r \in [Slots(h) -> Entries] /\ r[idx] = e /\ \A i \in Slots(h) : i # idx => r[i] = h.entries[i]
  BY <1>1, Zenon
<1> HIDE DEF r, g
<1>5. /\ g.entries = r /\ g.capacity = h.capacity /\ g.count = h.count + 1 /\ g.tombstones = h.tombstones
      /\ g \in Tables(h.capacity)
  BY <1>1, <1>2, <1>3, <1>4 DEF Tables
<1> QED BY <1>1, <1>4, <1>5, Zenon DEF Wrote, Shape, Slots, g

\* An entry is marked by remove.
LEMMA Marked ==
  ASSUME NEW h, Good(h), NEW idx \in Slots(h), h.count > 0
  PROVE  /\ Wrote(h, MarkAt(h, idx), idx) /\ MarkAt(h, idx).count = h.count - 1
         /\ MarkAt(h, idx).tombstones = h.tombstones + 1 /\ MarkAt(h, idx).entries[idx].value = Tombstone
<1> DEFINE g == MarkAt(h, idx)
           r == [h.entries EXCEPT ![idx].value = Tombstone]
<1>1. /\ h.entries \in [Slots(h) -> Entries] /\ h.capacity \in Nat /\ h.count \in Nat /\ Slots(h) = 0 .. h.capacity - 1
      /\ h \in Tables(h.capacity) /\ h.tombstones \in Nat
  BY GoodHas, Zenon DEF Good, Shape
<1>2. g = [h EXCEPT !.entries = r, !.count = h.count - 1, !.tombstones = h.tombstones + 1]
  BY <1>1 DEF Tables, MarkAt
<1>3. h.count - 1 \in Nat /\ h.tombstones + 1 \in Nat
  BY <1>1
<1>4. /\ r \in [Slots(h) -> Entries] /\ r[idx].value = Tombstone
      /\ \A i \in Slots(h) : i # idx => r[i] = h.entries[i]
  BY <1>1 DEF Entries
<1> HIDE DEF r, g
<1>5. /\ g.entries = r /\ g.capacity = h.capacity /\ g.count = h.count - 1 /\ g.tombstones = h.tombstones + 1
      /\ g \in Tables(h.capacity)
  BY <1>1, <1>2, <1>3, <1>4 DEF Tables
<1> QED BY <1>1, <1>4, <1>5, Zenon DEF Wrote, Shape, Slots, g

\* A slot that was vacant is live.
LEMMA LiveAfterPut ==
  ASSUME NEW h, NEW g, NEW idx \in Slots(h), Wrote(h, g, idx), Vacant(h.entries[idx]), ~Vacant(g.entries[idx])
  PROVE  Live(g) = Live(h) \cup {idx} /\ idx \notin Live(h) /\ Tombs(g) = Tombs(h) \ {idx}
BY Zenon DEF Wrote, Live, Tombs, Vacant

\* A slot that was live is a tombstone.
LEMMA LiveAfterRemove ==
  ASSUME NEW h, NEW g, NEW idx \in Live(h), Wrote(h, g, idx), g.entries[idx].value = Tombstone
  PROVE  Live(g) = Live(h) \ {idx} /\ idx \notin Tombs(h) /\ Tombs(g) = Tombs(h) \cup {idx}
BY Zenon DEF Wrote, Live, Tombs, Vacant

\* Sets of slots that differ in one.
LEMMA OneMore ==
  ASSUME CountFacts, NEW n \in Nat, NEW A, A \in SUBSET (0 .. n - 1), NEW i \in 0 .. n - 1
  PROVE  /\ i \notin A => Cardinality(A \cup {i}) = Cardinality(A) + 1
         /\ i \in A => Cardinality(A \ {i}) = Cardinality(A) - 1
BY Zenon DEF CountFacts

\* The slots are numbered, and those in use can be counted.
LEMMA Counts ==
  ASSUME CountFacts, NEW h, Good(h)
  PROVE  /\ Live(h) \in SUBSET (0 .. h.capacity - 1) /\ Tombs(h) \in SUBSET (0 .. h.capacity - 1)
         /\ h.count = Cardinality(Live(h)) /\ h.tombstones >= Cardinality(Tombs(h))
         /\ Cardinality(Live(h)) \in 0 .. h.capacity /\ Cardinality(Tombs(h)) \in 0 .. h.capacity
<1>1. Live(h) \in SUBSET (0 .. h.capacity - 1) /\ Tombs(h) \in SUBSET (0 .. h.capacity - 1)
  BY Zenon DEF Live, Tombs, Slots
<1>2. h.capacity \in Nat
  BY GoodHas, Zenon
<1> QED BY <1>1, <1>2, Zenon DEF Good, CountsCover, CountFacts

\* Below the load limit two slots are empty.
LEMMA TwoEmpty ==
  ASSUME CountFacts, NEW h, Good(h), ~Overloaded(h)
  PROVE  \E i, j \in Slots(h) : i # j /\ h.entries[i].value = None /\ h.entries[j].value = None
<1> DEFINE n == h.capacity
           A == Live(h) \cup Tombs(h)
<1>1. /\ n \in Nat /\ n >= 4 /\ h.count \in Nat /\ h.tombstones \in Nat /\ Slots(h) = 0 .. n - 1
  BY GoodHas, Zenon
<1>2. (h.count + h.tombstones) * 4 < n * 3
  BY <1>1 DEF Overloaded
<1>3. /\ Live(h) \in SUBSET (0 .. n - 1) /\ Tombs(h) \in SUBSET (0 .. n - 1) /\ Live(h) \cap Tombs(h) = {}
  BY Counts, Zenon DEF Live, Tombs, Vacant
<1>4. /\ h.count = Cardinality(Live(h)) /\ h.tombstones >= Cardinality(Tombs(h))
      /\ Cardinality(Live(h)) \in 0 .. n /\ Cardinality(Tombs(h)) \in 0 .. n
  BY Counts, Zenon
<1>5. Cardinality(A) = Cardinality(Live(h)) + Cardinality(Tombs(h))
  BY <1>1, <1>3, Zenon DEF CountFacts
<1>6. Cardinality(A) + 2 <= n /\ Cardinality(A) \in Nat
  <2>1. PICK c \in Nat, t \in Nat, b \in Nat, w \in Nat :
          c = h.count /\ t = h.tombstones /\ b = Cardinality(Tombs(h)) /\ w = n
    BY <1>1, <1>4
  <2>2. (c + t) * 4 < w * 3 /\ t >= b /\ w >= 4
    BY <1>1, <1>2, <1>4, <2>1, Zenon
  <2>3. c + b + 2 <= w /\ c + b \in Nat
    BY <2>2
  <2>4. Cardinality(A) = c + b
    BY <1>4, <1>5, <2>1, Zenon
  <2> QED BY <2>1, <2>3, <2>4, Zenon
<1>7. A \in SUBSET (0 .. n - 1)
  BY <1>3, Zenon
<1>8. \A i \in 0 .. n - 1 : i \notin A => h.entries[i].value = None
  BY <1>1, Zenon DEF Live, Tombs, Vacant
<1> HIDE DEF A, n
<1>9. ASSUME NEW B \in SUBSET (0 .. n - 1), Cardinality(B) < n PROVE \E i \in 0 .. n - 1 : i \notin B
  <2> SUFFICES ASSUME B = 0 .. n - 1 PROVE FALSE
    BY Zenon
  <2>1. Cardinality(0 .. n - 1) = n
    BY <1>1, Zenon DEF CountFacts
  <2> QED BY <1>1, <1>9, <2>1
<1>10. PICK i \in 0 .. n - 1 : i \notin A
  <2>1. Cardinality(A) < n
    BY <1>1, <1>6
  <2> QED BY <1>7, <1>9, <2>1, Zenon
<1>11. /\ A \cup {i} \in SUBSET (0 .. n - 1) /\ Cardinality(A \cup {i}) = Cardinality(A) + 1
  BY <1>1, <1>7, <1>10, Zenon DEF CountFacts
<1>12. PICK j \in 0 .. n - 1 : j \notin A \cup {i}
  <2>1. Cardinality(A \cup {i}) < n
    BY <1>1, <1>6, <1>11
  <2> QED BY <1>9, <1>11, <2>1, Zenon
<1> QED BY <1>1, <1>8, <1>10, <1>12, Zenon DEF n

\* What put does to a table: nothing, or it adds an entry.
Added(h, g, k, v) ==
  \E idx \in Slots(h) \ Live(h) :
    /\ Live(g) = Live(h) \cup {idx} /\ g.entries[idx] = [key |-> k, value |-> v]
    /\ \A i \in Live(h) : g.entries[i] = h.entries[i]

\* A put below the load limit keeps the table sound.
LEMMA PlaceGood ==
  ASSUME LeastFact, CountFacts, NEW h, Good(h), ~Overloaded(h), NEW k \in Keys, NEW v \in Values
  PROVE  /\ Good(Place(h, k, v)) /\ Place(h, k, v).capacity = h.capacity
         /\ Place(h, k, v).tombstones = h.tombstones
         /\ Place(h, k, v).count \in {h.count, h.count + 1}
         /\ \/ Place(h, k, v) = h /\ \E i \in Live(h) : h.entries[i].key = k
            \/ Added(h, Place(h, k, v), k, v)
<1> DEFINE g == Place(h, k, v)
           P(d) == Probe(k, d, h.capacity)
           e == [key |-> k, value |-> v]
<1>1. PICK f \in Slots(h) :
         /\ P(f) \in Slots(h)
         /\ \A c \in Slots(h) : c < f => ~Vacant(h.entries[P(c)]) /\ h.entries[P(c)].key # k
         /\ \/ Vacant(h.entries[P(f)]) /\ g = [h EXCEPT !.entries[P(f)] = e, !.count = @ + 1]
            \/ ~Vacant(h.entries[P(f)]) /\ h.entries[P(f)].key = k /\ g = h
  BY PlaceIs, Zenon
<1> DEFINE idx == P(f)
<1>0. /\ e \in Entries /\ ~Vacant(e) /\ e.key = k /\ e.value # None
      /\ idx \in Slots(h)
      /\ \/ Vacant(h.entries[idx]) /\ g = PutAt(h, idx, e)
         \/ ~Vacant(h.entries[idx]) /\ h.entries[idx].key = k /\ g = h
  BY <1>1, HashMapAssumption, Zenon DEF Entries, Vacant, PutAt
<1> HIDE DEF g, e, idx
<1>2. CASE ~Vacant(h.entries[idx]) /\ h.entries[idx].key = k /\ g = h
  BY <1>0, <1>2, Zenon DEF Live, g
<1>3. CASE Vacant(h.entries[idx]) /\ g = PutAt(h, idx, e)
  <2>0. /\ h.capacity \in Nat /\ h.capacity > 0 /\ h.capacity >= 4 /\ h.count \in Nat /\ h.tombstones \in Nat
        /\ Slots(h) = 0 .. h.capacity - 1 /\ Slots(h) \subseteq Nat /\ k \in Nat
    BY GoodHas, KeysHave, Zenon
  <2>1. e \in Entries /\ ~Vacant(e) /\ e.key = k /\ e.value # None
    BY <1>0, Zenon
  <2>2. idx \in Slots(h)
    BY <1>0, Zenon
  <2>3. /\ Shape(g) /\ g.capacity = h.capacity /\ g.count = h.count + 1 /\ g.tombstones = h.tombstones
        /\ Slots(g) = Slots(h) /\ g.entries \in [Slots(g) -> Entries]
        /\ g.entries[idx] = e /\ \A i \in Slots(h) : i # idx => g.entries[i] = h.entries[i]
    <3> DEFINE x == PutAt(h, idx, e)
    <3>1. Wrote(h, x, idx) /\ x.count = h.count + 1 /\ x.tombstones = h.tombstones /\ x.entries[idx] = e
      BY <2>1, <2>2, Written, Zenon
    <3>2. x = g
      BY <1>3, Zenon
    <3> HIDE DEF x
    <3> QED BY <3>1, <3>2, Zenon DEF Wrote
  <2>4. Live(g) = Live(h) \cup {idx} /\ idx \notin Live(h) /\ Tombs(g) = Tombs(h) \ {idx}
    <3>1. Wrote(h, g, idx) /\ ~Vacant(g.entries[idx])
      BY <2>1, <2>3, Zenon DEF Wrote
    <3>2. Vacant(h.entries[idx])
      BY <1>3, Zenon
    <3> QED BY <2>2, <3>1, <3>2, LiveAfterPut, Zenon
  <2>5. /\ Live(h) \in SUBSET (0 .. h.capacity - 1) /\ Tombs(h) \in SUBSET (0 .. h.capacity - 1)
        /\ h.count = Cardinality(Live(h)) /\ h.tombstones >= Cardinality(Tombs(h))
        /\ Cardinality(Live(h)) \in 0 .. h.capacity /\ Cardinality(Tombs(h)) \in 0 .. h.capacity
    BY Counts, Zenon
  <2>6. CountsCover(g)
    <3>1. Cardinality(Live(g)) = Cardinality(Live(h)) + 1
      <4>1. Cardinality(Live(h) \cup {idx}) = Cardinality(Live(h)) + 1
        <5>1. idx \in 0 .. h.capacity - 1 /\ idx \notin Live(h) /\ Live(h) \in SUBSET (0 .. h.capacity - 1)
          BY <2>0, <2>2, <2>4, <2>5, Zenon
        <5>2. h.capacity \in Nat
          BY <2>0, Zenon
        <5> QED BY <5>1, <5>2, OneMore, Zenon
      <4> QED BY <2>4, <4>1, Zenon
    <3>2. /\ Tombs(g) \in SUBSET Tombs(h) /\ Tombs(g) \in SUBSET (0 .. h.capacity - 1)
      BY <2>4, <2>5, Zenon
    <3>3. Cardinality(Tombs(g)) <= Cardinality(Tombs(h)) /\ Cardinality(Tombs(g)) \in 0 .. h.capacity
      BY <2>0, <2>5, <3>2, Zenon DEF CountFacts
    <3>4. h.tombstones >= Cardinality(Tombs(g))
      BY <2>0, <2>5, <3>3
    <3> QED BY <2>3, <2>5, <3>1, <3>4, Zenon DEF CountsCover
  <2>7. /\ h.count + 1 \in 0 .. h.capacity /\ (h.count + 1) + h.tombstones <= h.capacity
        /\ h.tombstones \in 0 .. h.capacity
    <3>1. (h.count + h.tombstones) * 4 < h.capacity * 3
      BY <2>0 DEF Overloaded
    <3>2. PICK c \in Nat, t \in Nat, w \in Nat : c = h.count /\ t = h.tombstones /\ w = h.capacity
      BY <2>0, Zenon
    <3>3. (c + t) * 4 < w * 3 /\ w >= 4
      BY <2>0, <3>1, <3>2, Zenon
    <3>4. c + 1 \in 0 .. w /\ (c + 1) + t <= w /\ t \in 0 .. w
      BY <3>3
    <3> QED BY <3>2, <3>4, Zenon
  <2>8. TableTypes(g)
    BY <2>0, <2>3, <2>7, Zenon DEF TableTypes, Entries
  <2>9. EmptySlot(g)
    <3>1. PICK i \in Slots(h), j \in Slots(h) : i # j /\ h.entries[i].value = None /\ h.entries[j].value = None
      BY TwoEmpty, Zenon
    <3> QED BY <2>3, <3>1, Zenon DEF EmptySlot
  <2>10. \A i \in Live(g) : g.entries[i].key \in Keys
    <3>1. \A i \in Live(h) : i \in Slots(h) /\ h.entries[i].key \in Keys
      BY Zenon DEF Good, Live
    <3> QED BY <2>1, <2>3, <2>4, <3>1, Zenon
  <2>11. Reachable(g)
    <3> SUFFICES ASSUME NEW i \in Live(g), NEW d \in Slots(g), Probe(g.entries[i].key, d, g.capacity) = i,
                        NEW c \in 0 .. d - 1
                 PROVE  g.entries[Probe(g.entries[i].key, c, g.capacity)].value # None
      BY Zenon DEF Reachable
    <3>1. c \in Slots(h) /\ c < d /\ d \in Slots(h)
      BY <2>0, <2>3
    <3>2. CASE i = idx
      <4>1. P(d) = idx
        BY <2>1, <2>3, <3>2, Zenon
      <4>2. d = f
        BY <2>0, <3>1, <4>1, ProbeAll, Zenon DEF idx
      <4>3. ~Vacant(h.entries[P(c)])
        BY <1>1, <3>1, <4>2, Zenon
      <4>4. P(c) \in Slots(h)
        BY <2>0, <3>1, ProbeAll, Zenon
      <4>5. g.entries[P(c)].value # None
        BY <2>1, <2>3, <4>3, <4>4, Zenon DEF Vacant
      <4> QED BY <2>1, <2>3, <3>2, <4>5, Zenon
    <3>3. CASE i # idx
      <4>1. i \in Live(h) /\ i \in Slots(h)
        BY <2>4, <3>3, Zenon DEF Live
      <4>2. g.entries[i] = h.entries[i] /\ h.entries[i].key \in Keys
        BY <2>3, <3>3, <4>1, Zenon DEF Good
      <4> DEFINE q == h.entries[i].key
      <4>3. Probe(q, d, h.capacity) = i
        BY <2>3, <4>2, Zenon
      <4>4. h.entries[Probe(q, c, h.capacity)].value # None
        BY <3>1, <4>1, <4>3, Zenon DEF Good, Reachable
      <4>5. Probe(q, c, h.capacity) \in Slots(h)
        BY <2>0, <3>1, <4>2, ProbeAll, KeysHave, Zenon
      <4>6. g.entries[Probe(q, c, h.capacity)].value # None
        BY <2>1, <2>3, <4>4, <4>5, Zenon
      <4> QED BY <2>3, <4>2, <4>6, Zenon
    <3> QED BY <3>2, <3>3, Zenon
  <2>12. Good(g)
    BY <2>3, <2>6, <2>7, <2>8, <2>9, <2>10, <2>11, Zenon DEF Good
  <2>13. Added(h, g, k, v)
    <3>1. \A i \in Live(h) : i \in Slots(h) /\ i # idx
      BY <2>4, Zenon DEF Live
    <3> QED BY <2>2, <2>3, <2>4, <3>1, Zenon DEF Added, e
  <2> QED BY <2>3, <2>12, <2>13, Zenon DEF g
<1> QED BY <1>0, <1>2, <1>3, Zenon

\* A removal keeps the table sound.
LEMMA RemoveGood ==
  ASSUME CountFacts, NEW h, Good(h), NEW idx \in Live(h)
  PROVE  /\ Good(MarkAt(h, idx)) /\ MarkAt(h, idx).capacity = h.capacity
         /\ Live(MarkAt(h, idx)) = Live(h) \ {idx}
         /\ \A i \in Live(h) \ {idx} : MarkAt(h, idx).entries[i] = h.entries[i]
<1> DEFINE g == MarkAt(h, idx)
<1>1. /\ h.capacity \in Nat /\ h.capacity > 0 /\ h.capacity >= 4 /\ h.count \in Nat /\ h.tombstones \in Nat
      /\ Slots(h) = 0 .. h.capacity - 1 /\ Slots(h) \subseteq Nat /\ h.count + h.tombstones <= h.capacity
  BY GoodHas, Zenon DEF Good
<1>2. /\ Live(h) \in SUBSET (0 .. h.capacity - 1) /\ Tombs(h) \in SUBSET (0 .. h.capacity - 1)
      /\ h.count = Cardinality(Live(h)) /\ h.tombstones >= Cardinality(Tombs(h))
      /\ Cardinality(Live(h)) \in 0 .. h.capacity /\ Cardinality(Tombs(h)) \in 0 .. h.capacity
  BY Counts, Zenon
<1>3. idx \in Slots(h) /\ idx \in 0 .. h.capacity - 1 /\ idx \notin Tombs(h)
  BY <1>1, Zenon DEF Live, Tombs, Vacant
<1>4. Cardinality(Live(h) \ {idx}) = h.count - 1
  <2>1. h.capacity \in Nat /\ idx \in 0 .. h.capacity - 1 /\ Live(h) \in SUBSET (0 .. h.capacity - 1)
    BY <1>1, <1>2, <1>3, Zenon
  <2>2. Cardinality(Live(h) \ {idx}) = Cardinality(Live(h)) - 1
    BY <2>1, OneMore, Zenon
  <2> QED BY <1>2, <2>2, Zenon
<1>5. Cardinality(Tombs(h) \cup {idx}) = Cardinality(Tombs(h)) + 1
  <2>1. h.capacity \in Nat /\ idx \in 0 .. h.capacity - 1 /\ Tombs(h) \in SUBSET (0 .. h.capacity - 1)
    BY <1>1, <1>2, <1>3, Zenon
  <2> QED BY <1>3, <2>1, OneMore, Zenon
<1>6. Cardinality(Live(h) \ {idx}) \in Nat
  <2>1. Live(h) \ {idx} \in SUBSET (0 .. h.capacity - 1)
    BY <1>2, Zenon
  <2>2. Cardinality(Live(h) \ {idx}) \in 0 .. h.capacity
    BY <1>1, <2>1, Zenon DEF CountFacts
  <2> QED BY <1>1, <2>2
<1>7. h.count > 0
  BY <1>1, <1>4, <1>6
<1>8. /\ Wrote(h, g, idx) /\ g.count = h.count - 1 /\ g.tombstones = h.tombstones + 1
      /\ g.entries[idx].value = Tombstone
  BY <1>3, <1>7, Marked, Zenon
<1> HIDE DEF g
<1>9. Live(g) = Live(h) \ {idx} /\ Tombs(g) = Tombs(h) \cup {idx}
  BY <1>8, LiveAfterRemove, Zenon
<1>10. /\ Shape(g) /\ g.capacity = h.capacity /\ Slots(g) = Slots(h) /\ g.entries \in [Slots(g) -> Entries]
       /\ \A i \in Slots(h) : i # idx => g.entries[i] = h.entries[i]
  BY <1>8, Zenon DEF Wrote
<1>11. CountsCover(g)
  <2>1. h.tombstones + 1 >= Cardinality(Tombs(h)) + 1
    BY <1>1, <1>2
  <2> QED BY <1>4, <1>5, <1>8, <1>9, <2>1, Zenon DEF CountsCover
<1>12. /\ h.count - 1 \in 0 .. h.capacity /\ h.tombstones + 1 \in 0 .. h.capacity
       /\ (h.count - 1) + (h.tombstones + 1) <= h.capacity
  BY <1>1, <1>7
<1>13. TableTypes(g)
  BY <1>1, <1>8, <1>10, <1>12, Zenon DEF TableTypes, Entries
<1>14. EmptySlot(g)
  <2>1. PICK i \in Slots(h) : h.entries[i].value = None
    BY Zenon DEF Good, EmptySlot
  <2>2. i # idx
    BY <2>1, Zenon DEF Live, Vacant
  <2> QED BY <1>10, <2>1, <2>2, Zenon DEF EmptySlot
<1>15. \A i \in Live(g) : i \in Live(h) /\ i \in Slots(h) /\ g.entries[i] = h.entries[i] /\ g.entries[i].key \in Keys
  BY <1>9, <1>10, Zenon DEF Good, Live
<1>16. Reachable(g)
  <2> SUFFICES ASSUME NEW i \in Live(g), NEW d \in Slots(g), Probe(g.entries[i].key, d, g.capacity) = i,
                      NEW c \in 0 .. d - 1
               PROVE  g.entries[Probe(g.entries[i].key, c, g.capacity)].value # None
    BY Zenon DEF Reachable
  <2>1. c \in Slots(h) /\ d \in Slots(h)
    BY <1>1, <1>10
  <2> DEFINE q == h.entries[i].key
  <2>2. g.entries[i].key = q /\ q \in Keys /\ i \in Live(h) /\ q \in Nat
    BY <1>15, KeysHave, Zenon
  <2> HIDE DEF q
  <2>3. Probe(q, d, h.capacity) = i
    BY <1>10, <2>2, Zenon
  <2>4. h.entries[Probe(q, c, h.capacity)].value # None
    BY <2>1, <2>2, <2>3, Zenon DEF Good, Reachable, q
  <2>5. Probe(q, c, h.capacity) \in Slots(h)
    BY <1>1, <2>1, <2>2, ProbeAll, Zenon
  <2>6. g.entries[Probe(q, c, h.capacity)].value # None
    BY <1>8, <1>10, <2>4, <2>5, HashMapAssumption, Zenon
  <2> QED BY <1>10, <2>2, <2>6, Zenon
<1>17. Good(g)
  BY <1>8, <1>10, <1>11, <1>12, <1>13, <1>14, <1>15, <1>16, Zenon DEF Good
<1>18. \A i \in Live(h) \ {idx} : g.entries[i] = h.entries[i]
  BY <1>10, Zenon DEF Live
<1> QED BY <1>9, <1>10, <1>17, <1>18, Zenon DEF g

\* A table after calloc or memset.
LEMMA EmptyGood ==
  ASSUME CountFacts, NEW cap \in Nat, cap >= 4
  PROVE  /\ Good(Empty(cap)) /\ Live(Empty(cap)) = {} /\ Empty(cap).capacity = cap
         /\ Empty(cap).count = 0 /\ Empty(cap).tombstones = 0
<1> DEFINE g == Empty(cap)
           z == [key |-> 0, value |-> None]
           r == [i \in 0 .. cap - 1 |-> z]
<1>1. z \in Entries /\ z.value = None
  BY Zenon DEF Entries
<1> HIDE DEF z
<1>2. r \in [0 .. cap - 1 -> Entries] /\ \A i \in 0 .. cap - 1 : r[i] = z
  BY <1>1, Zenon
<1>3. g = [entries |-> r, capacity |-> cap, count |-> 0, tombstones |-> 0]
  BY Zenon DEF Empty, z
<1> HIDE DEF r, g
<1>4. g.entries = r /\ g.capacity = cap /\ g.count = 0 /\ g.tombstones = 0
  BY <1>3, Zenon
<1>5. g \in Tables(cap)
  BY <1>2, <1>3 DEF Tables
<1>6. Slots(g) = 0 .. cap - 1 /\ 0 \in 0 .. cap - 1
  BY <1>4 DEF Slots
<1>7. Live(g) = {} /\ Tombs(g) = {}
  BY <1>1, <1>2, <1>4, <1>6, HashMapAssumption, Zenon DEF Live, Tombs, Vacant
<1>8. Cardinality({}) = 0
  <2>1. 0 \in Nat /\ {} \in SUBSET (0 .. 0 - 1) /\ Cardinality({}) \in 0 .. 0
    BY Zenon DEF CountFacts
  <2> QED BY <2>1
<1>9. 0 >= 0 /\ 0 \in 0 .. cap /\ 0 + 0 <= cap
  OBVIOUS
<1>10. CountsCover(g)
  BY <1>4, <1>7, <1>8, <1>9, Zenon DEF CountsCover
<1>11. TableTypes(g)
  BY <1>2, <1>4, <1>6, <1>9, Zenon DEF TableTypes, Entries
<1>12. EmptySlot(g)
  BY <1>1, <1>2, <1>4, <1>6, Zenon DEF EmptySlot
<1>13. Reachable(g)
  BY <1>7, Zenon DEF Reachable
<1> QED BY <1>4, <1>5, <1>7, <1>9, <1>10, <1>11, <1>12, <1>13, Zenon DEF Good, Shape, g

(* ---- the hash map ---- *)
\* Inside of _hm_resize: the old table is as it was, and the new one, twice its size,
\* has at most one entry for each slot that was visited.
CopyInv == /\ arg \in Keys \X Values /\ Good(old) /\ at \in 0 .. old.capacity
           /\ m.capacity = 2 * old.capacity /\ m.count <= at /\ m.tombstones = 0

HashInv == Good(m) /\ (Resizing => CopyInv)

\* The table that is filled stays below its load limit.
LEMMA CopyLight ==
  ASSUME HashInv, Resizing
  PROVE  ~Overloaded(m)
<1>1. Good(m) /\ CopyInv
  BY Zenon DEF HashInv
<1>2. /\ m.count \in Nat /\ old.capacity \in Nat /\ old.capacity >= 4 /\ at \in 0 .. old.capacity
      /\ m.capacity = 2 * old.capacity /\ m.count <= at /\ m.tombstones = 0
  BY <1>1, GoodHas, Zenon DEF CopyInv
<1>3. PICK c \in Nat, w \in Nat, a \in Nat : c = m.count /\ w = old.capacity /\ a = at
  BY <1>2
<1>4. c <= a /\ a <= w /\ w >= 4
  BY <1>2, <1>3
<1>5. ~((c + 0) * 4 >= (2 * w) * 3)
  BY <1>4
<1> QED BY <1>2, <1>3, <1>5, Zenon DEF Overloaded

\* A put, below the limit or above it.
LEMMA PutInv ==
  ASSUME LeastFact, CountFacts, HashInv, NEW k \in Keys, NEW v \in Values, Put(k, v)
  PROVE  HashInv'
<1>1. Good(m) /\ ~Resizing
  BY Zenon DEF HashInv, Put
<1>2. CASE ~Overloaded(m)
  <2>1. m' = Place(m, k, v) /\ arg' = arg
    BY <1>2, Zenon DEF Put
  <2>2. Good(Place(m, k, v))
    BY <1>1, <1>2, PlaceGood, Zenon
  <2> QED BY <1>1, <2>1, <2>2, Zenon DEF HashInv, Resizing
<1>3. CASE Overloaded(m) /\ UNCHANGED mapVars
  BY <1>1, <1>3, Zenon DEF HashInv, Resizing, mapVars
<1>4. CASE m' = Empty(2 * m.capacity) /\ old' = m /\ at' = 0 /\ arg' = <<k, v>>
  <2>1. m.capacity \in Nat /\ m.capacity >= 4
    BY <1>1, GoodHas, Zenon
  <2>2. 2 * m.capacity \in Nat /\ 2 * m.capacity >= 4 /\ 0 \in 0 .. m.capacity /\ 0 <= 0
    BY <2>1
  <2>3. /\ Good(m') /\ m'.capacity = 2 * m.capacity /\ m'.count = 0 /\ m'.tombstones = 0
    BY <1>4, <2>2, EmptyGood, Zenon
  <2>4. CopyInv'
    BY <1>1, <1>4, <2>2, <2>3, Zenon DEF CopyInv
  <2> QED BY <2>3, <2>4, Zenon DEF HashInv
<1> QED BY <1>2, <1>3, <1>4, Zenon DEF Put

\* One iteration of _hm_resize.
LEMMA CopyStep ==
  ASSUME LeastFact, CountFacts, HashInv, Copy
  PROVE  HashInv'
<1>1. Good(m) /\ CopyInv /\ Resizing /\ ~Overloaded(m) /\ Good(old)
  BY CopyLight, Zenon DEF HashInv, Copy, CopyInv
<1>2. /\ at < old.capacity /\ at' = at + 1 /\ old' = old /\ arg' = arg
  BY Zenon DEF Copy
<1>3. /\ at \in 0 .. old.capacity /\ old.capacity \in Nat /\ m.count \in Nat /\ m.count <= at
      /\ m.capacity = 2 * old.capacity /\ m.tombstones = 0 /\ arg \in Keys \X Values
  BY <1>1, GoodHas, Zenon DEF CopyInv
<1>4. at + 1 \in 0 .. old.capacity /\ m.count + 1 <= at + 1 /\ m.count <= at + 1 /\ at \in Slots(old)
  BY <1>2, <1>3 DEF Slots
<1>5. /\ Good(m') /\ m'.capacity = m.capacity /\ m'.tombstones = m.tombstones
      /\ m'.count \in {m.count, m.count + 1}
  <2>1. CASE Vacant(old.entries[at])
    BY <1>1, <2>1, Zenon DEF Copy
  <2>2. CASE ~Vacant(old.entries[at])
    <3>1. m' = Place(m, old.entries[at].key, old.entries[at].value)
      BY <2>2, Zenon DEF Copy
    <3>2. at \in Live(old) /\ old.entries[at] \in Entries
      BY <1>1, <1>4, <2>2, GoodHas, Zenon DEF Live
    <3>3. old.entries[at].key \in Keys
      BY <1>1, <3>2, Zenon DEF Good
    <3>4. old.entries[at].value \in Values \cup {None, Tombstone}
      BY <3>2 DEF Entries
    <3>5. old.entries[at].value \in Values
      BY <2>2, <3>4, Zenon DEF Vacant
    <3> QED BY <1>1, <3>1, <3>3, <3>5, PlaceGood, Zenon
  <2> QED BY <2>1, <2>2, Zenon
<1>6. m'.count <= at'
  BY <1>2, <1>4, <1>5, Zenon
<1>7. CopyInv'
  BY <1>1, <1>2, <1>3, <1>4, <1>5, <1>6, Zenon DEF CopyInv
<1> QED BY <1>5, <1>7, Zenon DEF HashInv

\* The put goes on in the table that was filled.
LEMMA ResizedStep ==
  ASSUME LeastFact, CountFacts, HashInv, Resized
  PROVE  HashInv' /\ arg[1] \in Keys /\ arg[2] \in Values
<1>1. Good(m) /\ CopyInv /\ ~Overloaded(m)
  BY CopyLight, Zenon DEF HashInv, Resized
<1>2. arg[1] \in Keys /\ arg[2] \in Values
  BY <1>1 DEF CopyInv
<1>3. m' = Place(m, arg[1], arg[2]) /\ arg' = <<>>
  BY Zenon DEF Resized
<1>4. Good(m')
  BY <1>1, <1>2, <1>3, PlaceGood, Zenon
<1> QED BY <1>2, <1>3, <1>4, Zenon DEF HashInv, Resizing

\* Remove and clear.
LEMMA OtherSteps ==
  ASSUME LeastFact, CountFacts, HashInv, Clear \/ \E k \in Keys : Remove(k)
  PROVE  HashInv'
<1>1. Good(m) /\ ~Resizing /\ arg' = arg
  BY Zenon DEF HashInv, Clear, Remove
<1>2. CASE Clear
  <2>1. m' = Empty(m.capacity) /\ m.capacity \in Nat /\ m.capacity >= 4
    BY <1>1, <1>2, GoodHas, Zenon DEF Clear
  <2>2. Good(Empty(m.capacity))
    BY <2>1, EmptyGood, Zenon
  <2> QED BY <1>1, <2>1, <2>2, Zenon DEF HashInv, Resizing
<1>3. ASSUME NEW k \in Keys, Remove(k) PROVE HashInv'
  <2>1. CASE m' = m
    BY <1>1, <2>1, Zenon DEF HashInv, Resizing
  <2>2. ASSUME NEW idx \in Found(m, k), m' = MarkAt(m, idx) PROVE HashInv'
    <3>1. idx \in Live(m)
      <4>1. \/ Found(m, k) = {} /\ \A i \in Live(m) : m.entries[i].key # k
            \/ \E i \in Live(m) : m.entries[i].key = k /\ Found(m, k) = {i}
        BY <1>1, FoundIs, Zenon
      <4> QED BY <4>1, Zenon
    <3>2. Good(MarkAt(m, idx))
      BY <1>1, <3>1, RemoveGood, Zenon
    <3>3. Good(m')
      BY <2>2, <3>2, Zenon
    <3> QED BY <1>1, <3>3, Zenon DEF HashInv, Resizing
  <2> QED BY <1>3, <2>1, <2>2, Zenon DEF Remove, MarkAt
<1> QED BY <1>2, <1>3, Zenon

\* Every step of the hash map keeps its table sound.
LEMMA HashStep ==
  ASSUME LeastFact, CountFacts, HashInv, [MapNext]_mapVars
  PROVE  HashInv'
<1>1. CASE UNCHANGED mapVars
  <2>1. m' = m /\ old' = old /\ at' = at /\ arg' = arg
    BY <1>1, Zenon DEF mapVars
  <2> QED BY <2>1, Zenon DEF HashInv, CopyInv, Resizing
<1> QED BY <1>1, PutInv, CopyStep, ResizedStep, OtherSteps, Zenon DEF MapNext

\* The map starts with a sound table.
LEMMA HashInit ==
  ASSUME CountFacts, MapInit
  PROVE  HashInv /\ ~Resizing /\ Live(m) = {}
<1>1. InitCap \in Nat /\ InitCap >= 4 /\ m = Empty(InitCap) /\ arg = <<>>
  BY HashMapAssumption, Zenon DEF MapInit
<1>2. Good(Empty(InitCap)) /\ Live(Empty(InitCap)) = {}
  BY <1>1, EmptyGood, Zenon
<1> QED BY <1>1, <1>2, Zenon DEF HashInv, Resizing

\* A sound table has what the lookups need.
LEMMA HashGives == HashInv => TableInv
<1> SUFFICES ASSUME HashInv PROVE TableInv
  OBVIOUS
<1>1. NotAgain
  BY CopyLight, Zenon DEF NotAgain
<1> QED BY <1>1, Zenon DEF HashInv, Good, TableInv

(* ---- the map that the table stands for ---- *)
\* The live entries of a table.
Pairs(h) == {h.entries[i] : i \in Live(h)}

\* A lookup goes by the live entries.
LEMMA GetPairs ==
  ASSUME LeastFact, NEW h, Good(h), Unique(h), NEW k \in Keys
  PROVE  /\ (\A e \in Pairs(h) : e.key # k) => Get(h, k) = None
         /\ \A e \in Pairs(h) : e.key = k => Get(h, k) = e.value
<1>1. /\ (\A i \in Live(h) : h.entries[i].key # k) => Get(h, k) = None
      /\ \A i \in Live(h) : h.entries[i].key = k => Get(h, k) = h.entries[i].value
  BY GetIs, Zenon
<1> QED BY <1>1, Zenon DEF Pairs

\* Live entries have keys and values.
LEMMA PairsHave ==
  ASSUME NEW h, Good(h), NEW e \in Pairs(h)
  PROVE  e.key \in Keys /\ e.value \in Values /\ e.value # None
<1>1. PICK i \in Live(h) : e = h.entries[i]
  BY Zenon DEF Pairs
<1>2. i \in Slots(h) /\ ~Vacant(e) /\ e.key \in Keys
  BY <1>1, Zenon DEF Live, Good
<1>3. e \in Entries
  BY <1>1, <1>2, GoodHas, Zenon
<1>4. e.value \in Values \cup {None, Tombstone}
  BY <1>3 DEF Entries
<1> QED BY <1>2, <1>4, Zenon DEF Vacant

\* Tables with the same live entries answer every lookup alike.
LEMMA SameLookups ==
  ASSUME LeastFact, NEW h, NEW g, Good(h), Unique(h), Good(g), Unique(g), Pairs(g) = Pairs(h), NEW k \in Keys
  PROVE  Get(g, k) = Get(h, k)
<1>1. CASE \A e \in Pairs(h) : e.key # k
  <2>1. Get(h, k) = None
    BY <1>1, GetPairs, Zenon
  <2>2. \A e \in Pairs(g) : e.key # k
    BY <1>1, Zenon
  <2>3. Get(g, k) = None
    BY <2>2, GetPairs, Zenon
  <2> QED BY <2>1, <2>3, Zenon
<1>2. ASSUME NEW e \in Pairs(h), e.key = k PROVE Get(g, k) = Get(h, k)
  <2>1. Get(h, k) = e.value
    BY <1>2, GetPairs, Zenon
  <2>2. e \in Pairs(g)
    BY Zenon
  <2>3. Get(g, k) = e.value
    BY <1>2, <2>2, GetPairs, Zenon
  <2> QED BY <2>1, <2>3, Zenon
<1> QED BY <1>1, <1>2, Zenon

\* A put of a key that is absent adds its entry.
LEMMA PlacePairs ==
  ASSUME LeastFact, CountFacts, NEW h, Good(h), Unique(h), ~Overloaded(h), NEW k \in Keys, NEW v \in Values,
         \A e \in Pairs(h) : e.key # k
  PROVE  /\ Good(Place(h, k, v)) /\ Unique(Place(h, k, v))
         /\ Pairs(Place(h, k, v)) = Pairs(h) \cup {[key |-> k, value |-> v]}
<1> DEFINE g == Place(h, k, v)
           n == [key |-> k, value |-> v]
<1>1. n.key = k
  BY Zenon
<1>2. Good(g)
  BY PlaceGood, Zenon
<1>3. \A i \in Live(h) : h.entries[i].key # k
  BY Zenon DEF Pairs
<1>4. Added(h, g, k, v)
  BY <1>3, PlaceGood, Zenon
<1> HIDE DEF g, n
<1>5. PICK idx \in Slots(h) \ Live(h) :
        /\ Live(g) = Live(h) \cup {idx} /\ g.entries[idx] = n
        /\ \A i \in Live(h) : g.entries[i] = h.entries[i]
  BY <1>4, Zenon DEF Added, n
<1>6. Pairs(g) = Pairs(h) \cup {n}
  <2>1. ASSUME NEW e \in Pairs(g) PROVE e \in Pairs(h) \cup {n}
    <3>1. PICK i \in Live(g) : e = g.entries[i]
      BY Zenon DEF Pairs
    <3> QED BY <1>5, <3>1, Zenon DEF Pairs
  <2>2. n \in Pairs(g)
    BY <1>5, Zenon DEF Pairs
  <2>3. ASSUME NEW e \in Pairs(h) PROVE e \in Pairs(g)
    <3>1. PICK i \in Live(h) : e = h.entries[i]
      BY Zenon DEF Pairs
    <3>2. i \in Live(g) /\ g.entries[i] = e
      BY <1>5, <3>1, Zenon
    <3> QED BY <3>2, Zenon DEF Pairs
  <2> QED BY <2>1, <2>2, <2>3, Zenon
<1>7. Unique(g)
  <2> SUFFICES ASSUME NEW i \in Live(g), NEW j \in Live(g), g.entries[i].key = g.entries[j].key
               PROVE  i = j
    BY Zenon DEF Unique
  <2>1. g.entries[idx].key = k
    BY <1>1, <1>5, Zenon
  <2>2. \A x \in Live(h) : g.entries[x].key # k
    BY <1>3, <1>5, Zenon
  <2>3. CASE i = idx \/ j = idx
    BY <1>5, <2>1, <2>2, <2>3, Zenon
  <2>4. CASE i # idx /\ j # idx
    BY <1>5, <2>4, Zenon DEF Unique
  <2> QED BY <2>3, <2>4, Zenon
<1> QED BY <1>2, <1>6, <1>7, Zenon DEF g, n

\* A removal takes the only entry of its key.
LEMMA RemovePairs ==
  ASSUME CountFacts, NEW h, Good(h), Unique(h), NEW idx \in Live(h)
  PROVE  /\ Good(MarkAt(h, idx)) /\ Unique(MarkAt(h, idx))
         /\ Pairs(MarkAt(h, idx)) = {e \in Pairs(h) : e.key # h.entries[idx].key}
<1> DEFINE g == MarkAt(h, idx)
<1>1. Good(g) /\ Live(g) = Live(h) \ {idx} /\ \A i \in Live(h) \ {idx} : g.entries[i] = h.entries[i]
  BY RemoveGood, Zenon
<1> HIDE DEF g
<1>2. \A i \in Live(h) : h.entries[i].key = h.entries[idx].key => i = idx
  BY Zenon DEF Unique
<1>3. ASSUME NEW e \in Pairs(g) PROVE e \in Pairs(h) /\ e.key # h.entries[idx].key
  <2>1. PICK i \in Live(g) : e = g.entries[i]
    BY Zenon DEF Pairs
  <2>2. i \in Live(h) /\ i # idx /\ e = h.entries[i]
    BY <1>1, <2>1, Zenon
  <2> QED BY <1>2, <2>2, Zenon DEF Pairs
<1>4. ASSUME NEW e \in Pairs(h), e.key # h.entries[idx].key PROVE e \in Pairs(g)
  <2>1. PICK i \in Live(h) : e = h.entries[i]
    BY Zenon DEF Pairs
  <2>2. i \in Live(g) /\ g.entries[i] = e
    BY <1>1, <1>4, <2>1, Zenon
  <2> QED BY <2>2, Zenon DEF Pairs
<1>5. Unique(g)
  BY <1>1, Zenon DEF Unique
<1>6. Pairs(g) = {e \in Pairs(h) : e.key # h.entries[idx].key}
  BY <1>3, <1>4, Zenon
<1> QED BY <1>1, <1>5, <1>6, Zenon DEF g

\* What a put changes for the lookups.
LEMMA PutLookups ==
  ASSUME LeastFact, NEW h, NEW g, Good(h), Unique(h), Good(g), Unique(g), NEW k \in Keys, NEW v \in Values,
         Pairs(g) = Pairs(h) \cup {[key |-> k, value |-> v]}, \A e \in Pairs(h) : e.key # k
  PROVE  Get(h, k) = None /\ Get(g, k) = v /\ \A j \in Keys : j # k => Get(g, j) = Get(h, j)
<1> DEFINE n == [key |-> k, value |-> v]
<1>1. n.key = k /\ n.value = v /\ n \in Pairs(g)
  BY Zenon
<1>2. \A e \in Pairs(g) : e \in Pairs(h) \/ e = n
  BY Zenon
<1>3. Pairs(h) \subseteq Pairs(g)
  BY Zenon
<1> HIDE DEF n
<1>4. Get(h, k) = None
  BY GetPairs, Zenon
<1>5. Get(g, k) = v
  BY <1>1, GetPairs, Zenon
<1>6. ASSUME NEW j \in Keys, j # k PROVE Get(g, j) = Get(h, j)
  <2>1. CASE \A e \in Pairs(h) : e.key # j
    <3>1. Get(h, j) = None
      BY <2>1, GetPairs, Zenon
    <3>2. \A e \in Pairs(g) : e.key # j
      BY <1>1, <1>2, <1>6, <2>1, Zenon
    <3>3. Get(g, j) = None
      BY <3>2, GetPairs, Zenon
    <3> QED BY <3>1, <3>3, Zenon
  <2>2. ASSUME NEW e \in Pairs(h), e.key = j PROVE Get(g, j) = Get(h, j)
    <3>1. Get(h, j) = e.value
      BY <2>2, GetPairs, Zenon
    <3>2. e \in Pairs(g)
      BY <1>3, Zenon
    <3>3. Get(g, j) = e.value
      BY <2>2, <3>2, GetPairs, Zenon
    <3> QED BY <3>1, <3>3, Zenon
  <2> QED BY <2>1, <2>2, Zenon
<1> QED BY <1>4, <1>5, <1>6, Zenon

\* What a removal changes for them.
LEMMA RemoveLookups ==
  ASSUME LeastFact, NEW h, NEW g, Good(h), Unique(h), Good(g), Unique(g), NEW k \in Keys,
         Pairs(g) = {e \in Pairs(h) : e.key # k}
  PROVE  Get(g, k) = None /\ \A j \in Keys : j # k => Get(g, j) = Get(h, j)
<1>1. \A e \in Pairs(g) : e.key # k
  BY Zenon
<1>2. Get(g, k) = None
  BY <1>1, GetPairs, Zenon
<1>3. ASSUME NEW j \in Keys, j # k PROVE Get(g, j) = Get(h, j)
  <2>1. CASE \A e \in Pairs(h) : e.key # j
    <3>1. Get(h, j) = None
      BY <2>1, GetPairs, Zenon
    <3>2. \A e \in Pairs(g) : e.key # j
      BY <2>1, Zenon
    <3>3. Get(g, j) = None
      BY <3>2, GetPairs, Zenon
    <3> QED BY <3>1, <3>3, Zenon
  <2>2. ASSUME NEW e \in Pairs(h), e.key = j PROVE Get(g, j) = Get(h, j)
    <3>1. Get(h, j) = e.value
      BY <2>2, GetPairs, Zenon
    <3>2. e \in Pairs(g)
      BY <1>3, <2>2, Zenon
    <3>3. Get(g, j) = e.value
      BY <2>2, <3>2, GetPairs, Zenon
    <3> QED BY <3>1, <3>3, Zenon
  <2> QED BY <2>1, <2>2, Zenon
<1> QED BY <1>2, <1>3, Zenon

\* An empty table answers every lookup with NULL.
LEMMA EmptyLookups ==
  ASSUME LeastFact, NEW h, Good(h), Live(h) = {}
  PROVE  Unique(h) /\ Pairs(h) = {} /\ \A k \in Keys : Get(h, k) = None
<1>1. Unique(h) /\ Pairs(h) = {}
  BY Zenon DEF Unique, Pairs
<1>2. ASSUME NEW k \in Keys PROVE Get(h, k) = None
  <2>1. \A e \in Pairs(h) : e.key # k
    BY <1>1, Zenon
  <2> QED BY <1>1, <2>1, GetPairs, Zenon
<1> QED BY <1>1, <1>2, Zenon

\* The live entries of the old table that were visited.
Visited == {old.entries[i] : i \in {x \in Live(old) : x < at}}

\* Inside of _hm_resize: the new table holds the entries that were visited.
FillInv == Unique(old) /\ Pairs(m) = Visited /\ \A e \in Pairs(old) : e.key # arg[1]

RefInv == HashInv /\ Unique(m) /\ (Resizing => FillInv)

\* A key that a lookup does not find is absent.
LEMMA AbsentKey ==
  ASSUME LeastFact, NEW h, Good(h), Unique(h), NEW k \in Keys, Get(h, k) = None
  PROVE  \A e \in Pairs(h) : e.key # k
BY GetPairs, PairsHave, Zenon

\* Contents before and after a step.
LEMMA ContentsAre ==
  /\ ~Resizing => Contents = [k \in Keys |-> Get(m, k)]
  /\ Resizing => Contents = [k \in Keys |-> Get(old, k)]
BY Zenon DEF Contents

\* A put that does not resize, and the beginning of one that does.
LEMMA PutRefines ==
  ASSUME LeastFact, CountFacts, FreshOnly, RefInv, NEW k \in Keys, NEW v \in Values, Put(k, v)
  PROVE  RefInv' /\ (Map!Put(k, v) \/ Contents' = Contents)
<1>1. /\ HashInv /\ Good(m) /\ Unique(m) /\ ~Resizing /\ Get(m, k) = None /\ HashInv'
  BY PutInv, Zenon DEF RefInv, HashInv, Put
<1>2. \A e \in Pairs(m) : e.key # k
  BY <1>1, AbsentKey, Zenon
<1>3. Contents = [j \in Keys |-> Get(m, j)]
  BY <1>1, ContentsAre, Zenon
<1>4. CASE ~Overloaded(m)
  <2>1. m' = Place(m, k, v) /\ arg' = arg
    BY <1>4, Zenon DEF Put
  <2> DEFINE g == Place(m, k, v)
  <2>2. Good(g) /\ Unique(g) /\ Pairs(g) = Pairs(m) \cup {[key |-> k, value |-> v]}
    BY <1>1, <1>2, <1>4, PlacePairs, Zenon
  <2> HIDE DEF g
  <2>3. Get(m, k) = None /\ Get(g, k) = v /\ \A j \in Keys : j # k => Get(g, j) = Get(m, j)
    BY <1>1, <1>2, <2>2, PutLookups
  <2>4. ~Resizing' /\ Contents' = [j \in Keys |-> Get(m', j)]
    BY <1>1, <2>1, Zenon DEF Resizing, Contents
  <2>5. m' = g
    BY <2>1, Zenon DEF g
  <2>6. RefInv'
    BY <1>1, <2>2, <2>4, <2>5, Zenon DEF RefInv
  <2>7. Contents[k] = None /\ Contents' = [Contents EXCEPT ![k] = v]
    BY <1>3, <2>3, <2>4, <2>5, Zenon
  <2> QED BY <2>6, <2>7, Zenon DEF Map!Put
<1>5. CASE UNCHANGED mapVars
  <2>1. m' = m /\ old' = old /\ at' = at /\ arg' = arg
    BY <1>5, Zenon DEF mapVars
  <2> QED BY <1>1, <2>1, Zenon DEF RefInv, Resizing, Contents
<1>6. CASE m' = Empty(2 * m.capacity) /\ old' = m /\ at' = 0 /\ arg' = <<k, v>>
  <2>1. Resizing' /\ arg'[1] = k
    BY <1>6 DEF Resizing
  <2>2. 2 * m.capacity \in Nat /\ 2 * m.capacity >= 4
    <3>1. m.capacity \in Nat /\ m.capacity >= 4
      BY <1>1, GoodHas, Zenon
    <3> QED BY <3>1
  <2>3. Good(m') /\ Live(m') = {}
    BY <1>6, <2>2, EmptyGood, Zenon
  <2>4. Unique(m') /\ Pairs(m') = {}
    BY <2>3, EmptyLookups, Zenon
  <2>5. Visited' = {}
    <3>1. \A x \in Live(m) : ~(x < 0)
      <4>1. \A x \in Live(m) : x \in Nat
        BY <1>1, GoodHas, Zenon DEF Live
      <4> QED BY <4>1
    <3> QED BY <1>6, <3>1, Zenon DEF Visited
  <2>6. RefInv'
    BY <1>1, <1>2, <1>6, <2>1, <2>4, <2>5, Zenon DEF RefInv, FillInv
  <2>7. Contents' = Contents
    BY <1>3, <1>6, <2>1, Zenon DEF Contents
  <2> QED BY <2>6, <2>7, Zenon
<1> QED BY <1>4, <1>5, <1>6, Zenon DEF Put

\* An iteration of _hm_resize shows nothing to the users of the map.
LEMMA CopyRefines ==
  ASSUME LeastFact, CountFacts, RefInv, Copy
  PROVE  RefInv' /\ Contents' = Contents
<1>1. /\ HashInv /\ Good(m) /\ Unique(m) /\ Resizing /\ CopyInv /\ FillInv /\ HashInv' /\ ~Overloaded(m)
      /\ Good(old) /\ Unique(old) /\ Pairs(m) = Visited
  BY CopyStep, CopyLight, Zenon DEF RefInv, HashInv, Copy, CopyInv, FillInv
<1>2. at < old.capacity /\ at' = at + 1 /\ old' = old /\ arg' = arg
  BY Zenon DEF Copy
<1>3. at \in 0 .. old.capacity /\ old.capacity \in Nat
  BY <1>1, GoodHas, Zenon DEF CopyInv
<1>4. at \in Slots(old) /\ Slots(old) \subseteq Nat /\ at \in Nat
  BY <1>2, <1>3 DEF Slots
<1>5. \A x \in Nat : x < at + 1 <=> (x < at \/ x = at)
  BY <1>4
<1>6. ~(at < at)
  BY <1>4
<1>7. Live(old) \subseteq Nat
  BY <1>4, Zenon DEF Live
<1>8. Resizing' /\ Contents' = Contents
  BY <1>1, <1>2, Zenon DEF Resizing, Contents
<1>9. Visited' = {old.entries[i] : i \in {x \in Live(old) : x < at + 1}}
  BY <1>2, Zenon DEF Visited
<1>10. CASE Vacant(old.entries[at])
  <2>1. m' = m
    BY <1>10, Zenon DEF Copy
  <2>2. at \notin Live(old)
    BY <1>10, Zenon DEF Live
  <2>3. {x \in Live(old) : x < at + 1} = {x \in Live(old) : x < at}
    BY <1>5, <1>7, <2>2, Zenon
  <2>4. Visited' = Visited
    BY <1>9, <2>3, Zenon DEF Visited
  <2>5. FillInv'
    BY <1>1, <1>2, <2>1, <2>4, Zenon DEF FillInv
  <2> QED BY <1>1, <1>8, <2>1, <2>5, Zenon DEF RefInv
<1>11. CASE ~Vacant(old.entries[at])
  <2> DEFINE e == old.entries[at]
             g == Place(m, e.key, e.value)
  <2>1. m' = g
    BY <1>11, Zenon DEF Copy
  <2>2. at \in Live(old)
    BY <1>4, <1>11, Zenon DEF Live
  <2>3. e \in Pairs(old) /\ e \in Entries
    BY <1>1, <1>4, <2>2, GoodHas, Zenon DEF Pairs
  <2>4. e = [key |-> e.key, value |-> e.value]
    BY <2>3 DEF Entries
  <2>5. e.key \in Keys /\ e.value \in Values
    BY <1>1, <2>3, PairsHave, Zenon
  <2>6. \A n \in Pairs(m) : n.key # e.key
    <3>1. SUFFICES ASSUME NEW n \in Pairs(m), n.key = e.key PROVE FALSE
      BY Zenon
    <3>2. PICK i \in Live(old) : i < at /\ n = old.entries[i]
      BY <1>1, Zenon DEF Visited
    <3>3. i = at
      BY <1>1, <2>2, <3>1, <3>2, Zenon DEF Unique
    <3> QED BY <1>6, <3>2, <3>3, Zenon
  <2>7. Good(g) /\ Unique(g) /\ Pairs(g) = Pairs(m) \cup {[key |-> e.key, value |-> e.value]}
    BY <1>1, <2>5, <2>6, PlacePairs, Zenon
  <2> HIDE DEF g
  <2>8. Pairs(g) = Pairs(m) \cup {e}
    BY <2>4, <2>7, Zenon
  <2>9. {x \in Live(old) : x < at + 1} = {x \in Live(old) : x < at} \cup {at}
    BY <1>5, <1>7, <2>2, Zenon
  <2>10. Visited' = Visited \cup {e}
    <3> DEFINE S == {x \in Live(old) : x < at}
    <3>1. Visited' = {old.entries[i] : i \in S \cup {at}} /\ Visited = {old.entries[i] : i \in S}
      BY <1>9, <2>9, Zenon DEF Visited
    <3> HIDE DEF S
    <3>2. {old.entries[i] : i \in S \cup {at}} = {old.entries[i] : i \in S} \cup {old.entries[at]}
      BY Zenon
    <3> QED BY <3>1, <3>2, Zenon
  <2> HIDE DEF e
  <2>11. Pairs(g) = Visited'
    BY <1>1, <2>8, <2>10, Zenon
  <2>12. FillInv'
    BY <1>1, <1>2, <2>1, <2>11, Zenon DEF FillInv
  <2> QED BY <1>1, <1>8, <2>1, <2>7, <2>12, Zenon DEF RefInv
<1> QED BY <1>10, <1>11, Zenon

\* The put takes effect when the new table is complete.
LEMMA ResizedRefines ==
  ASSUME LeastFact, CountFacts, RefInv, Resized
  PROVE  RefInv' /\ \E k \in Keys, v \in Values : Map!Put(k, v)
<1> DEFINE k == arg[1]
           v == arg[2]
           g == Place(m, k, v)
<1>1. /\ HashInv /\ Good(m) /\ Unique(m) /\ Resizing /\ CopyInv /\ HashInv' /\ ~Overloaded(m)
      /\ Good(old) /\ Unique(old) /\ Pairs(m) = Visited /\ k \in Keys /\ v \in Values
      /\ \A e \in Pairs(old) : e.key # k
  BY ResizedStep, CopyLight, Zenon DEF RefInv, HashInv, Resized, CopyInv, FillInv
<1>2. at = old.capacity /\ m' = g /\ arg' = <<>>
  BY Zenon DEF Resized
<1> HIDE DEF k, v
<1>3. Pairs(m) = Pairs(old)
  <2>1. old.capacity \in Nat
    BY <1>1, GoodHas, Zenon
  <2>2. \A x \in Slots(old) : x < old.capacity
    BY <2>1 DEF Slots
  <2>3. {x \in Live(old) : x < at} = Live(old)
    BY <1>2, <2>2, Zenon DEF Live
  <2> QED BY <1>1, <2>3, Zenon DEF Visited, Pairs
<1>4. \A e \in Pairs(m) : e.key # k
  BY <1>1, <1>3, Zenon
<1>5. Good(g) /\ Unique(g) /\ Pairs(g) = Pairs(m) \cup {[key |-> k, value |-> v]}
  BY <1>1, <1>4, PlacePairs, Zenon
<1>6. \A j \in Keys : Get(m, j) = Get(old, j)
  BY <1>1, <1>3, SameLookups, Zenon
<1> HIDE DEF g
<1>7. Get(m, k) = None /\ Get(g, k) = v /\ \A j \in Keys : j # k => Get(g, j) = Get(m, j)
  BY <1>1, <1>4, <1>5, PutLookups
<1>8. Contents = [j \in Keys |-> Get(old, j)] /\ ~Resizing' /\ Contents' = [j \in Keys |-> Get(g, j)]
  BY <1>1, <1>2, Zenon DEF Resizing, Contents
<1>9. Contents[k] = None /\ Contents' = [Contents EXCEPT ![k] = v]
  BY <1>1, <1>6, <1>7, <1>8, Zenon
<1>10. RefInv'
  BY <1>1, <1>2, <1>5, <1>8, Zenon DEF RefInv
<1> QED BY <1>1, <1>9, <1>10, Zenon DEF Map!Put

\* A removal takes the key out, or changes nothing when the key is absent.
LEMMA RemoveRefines ==
  ASSUME LeastFact, CountFacts, RefInv, NEW k \in Keys, Remove(k)
  PROVE  RefInv' /\ (Map!Remove(k) \/ Contents' = Contents)
<1>1. HashInv /\ Good(m) /\ Unique(m) /\ ~Resizing /\ arg' = arg /\ HashInv'
  BY OtherSteps, Zenon DEF RefInv, HashInv, Remove
<1>2. /\ ~Resizing' /\ Contents = [j \in Keys |-> Get(m, j)]
      /\ Contents' = [j \in Keys |-> Get(m', j)]
  BY <1>1, Zenon DEF Resizing, Contents
<1>3. CASE m' = m
  <2>1. RefInv'
    BY <1>1, <1>2, <1>3, Zenon DEF RefInv
  <2> QED BY <1>2, <1>3, <2>1, Zenon
<1>4. ASSUME NEW idx \in Found(m, k), m' = MarkAt(m, idx) PROVE RefInv' /\ Map!Remove(k)
  <2>1. idx \in Live(m) /\ m.entries[idx].key = k
    <3>1. \/ Found(m, k) = {} /\ \A i \in Live(m) : m.entries[i].key # k
          \/ \E i \in Live(m) : m.entries[i].key = k /\ Found(m, k) = {i}
      BY <1>1, FoundIs, Zenon
    <3> QED BY <3>1, Zenon
  <2> DEFINE g == MarkAt(m, idx)
  <2>2. Good(g) /\ Unique(g) /\ Pairs(g) = {e \in Pairs(m) : e.key # k}
    <3>1. /\ Good(g) /\ Unique(g)
          /\ Pairs(g) = {e \in Pairs(m) : e.key # m.entries[idx].key}
      BY <1>1, <2>1, RemovePairs
    <3> HIDE DEF g
    <3> QED BY <2>1, <3>1, Zenon
  <2>3. m' = g
    BY <1>4, Zenon
  <2> HIDE DEF g
  <2>4. Get(g, k) = None /\ \A j \in Keys : j # k => Get(g, j) = Get(m, j)
    BY <1>1, <2>2, RemoveLookups
  <2>5. m.entries[idx] \in Pairs(m)
    BY <2>1, Zenon DEF Pairs
  <2>6. Get(m, k) = m.entries[idx].value
    BY <1>1, <2>1, <2>5, GetPairs, Zenon
  <2>7. Get(m, k) # None
    BY <1>1, <2>5, <2>6, PairsHave, Zenon
  <2>8. Contents[k] # None /\ Contents' = [Contents EXCEPT ![k] = None]
    BY <1>2, <2>3, <2>4, <2>7, Zenon
  <2>9. RefInv'
    BY <1>1, <1>2, <2>2, <2>3, Zenon DEF RefInv
  <2> QED BY <2>8, <2>9, Zenon DEF Map!Remove
<1> QED BY <1>3, <1>4, Zenon DEF Remove, MarkAt

\* Clearing.
LEMMA ClearRefines ==
  ASSUME LeastFact, CountFacts, RefInv, Clear
  PROVE  RefInv' /\ Map!Clear
<1>1. HashInv /\ Good(m) /\ ~Resizing /\ arg' = arg /\ HashInv' /\ m' = Empty(m.capacity)
  BY OtherSteps, Zenon DEF RefInv, HashInv, Clear
<1>2. m.capacity \in Nat /\ m.capacity >= 4
  BY <1>1, GoodHas, Zenon
<1>3. Good(m') /\ Live(m') = {}
  BY <1>1, <1>2, EmptyGood, Zenon
<1>4. Unique(m') /\ \A k \in Keys : Get(m', k) = None
  BY <1>3, EmptyLookups, Zenon
<1>5. ~Resizing' /\ Contents' = [k \in Keys |-> Get(m', k)]
  BY <1>1, Zenon DEF Resizing, Contents
<1> QED BY <1>1, <1>4, <1>5, Zenon DEF RefInv, Map!Clear

\* Every step of the table is a step of the map, or none.
LEMMA MapStep ==
  ASSUME LeastFact, CountFacts, FreshOnly, RefInv, [MapNext]_mapVars
  PROVE  RefInv' /\ [Map!Next]_Contents
<1>1. CASE UNCHANGED mapVars
  <2>1. m' = m /\ old' = old /\ at' = at /\ arg' = arg
    BY <1>1, Zenon DEF mapVars
  <2>2. HashInv' /\ Resizing' = Resizing /\ Contents' = Contents /\ Visited' = Visited
    BY <2>1, Zenon DEF RefInv, HashInv, CopyInv, Resizing, Contents, Visited
  <2> QED BY <2>1, <2>2, Zenon DEF RefInv, FillInv
<1>2. ASSUME NEW k \in Keys, NEW v \in Values, Put(k, v) PROVE RefInv' /\ [Map!Next]_Contents
  BY <1>2, PutRefines, Zenon DEF Map!Next
<1>3. CASE Copy
  BY <1>3, CopyRefines, Zenon
<1>4. CASE Resized
  BY <1>4, ResizedRefines, Zenon DEF Map!Next
<1>5. ASSUME NEW k \in Keys, Remove(k) PROVE RefInv' /\ [Map!Next]_Contents
  BY <1>5, RemoveRefines, Zenon DEF Map!Next
<1>6. CASE Clear
  BY <1>6, ClearRefines, Zenon DEF Map!Next
<1> QED BY <1>1, <1>2, <1>3, <1>4, <1>5, <1>6, Zenon DEF MapNext

\* The new table is an empty map.
LEMMA MapStart ==
  ASSUME LeastFact, CountFacts, MapInit
  PROVE  RefInv /\ Map!Init
<1>1. HashInv /\ Good(m) /\ ~Resizing /\ Live(m) = {}
  BY HashInit, Zenon DEF HashInv
<1>2. Unique(m) /\ \A k \in Keys : Get(m, k) = None
  BY <1>1, EmptyLookups, Zenon
<1> QED BY <1>1, <1>2, ContentsAre, Zenon DEF RefInv, Map!Init

--------------------------------------------------------------------------------
INSTANCE FiniteSetTheorems

\* A set of numbers that is not empty has a least element.
LEMMA Leasts == LeastFact
<1> SUFFICES ASSUME NEW T \in SUBSET Nat, T # {} PROVE \E s \in T : \A x \in T : s <= x
  BY Zenon DEF LeastFact
<1> DEFINE R == OpToRel(<, Nat)
<1>1. IsWellFoundedOn(R, Nat)
  BY NatLessThanWellFounded, Zenon
<1>2. R = {ss \in Nat \X Nat : ss[1] < ss[2]}
  BY Zenon DEF OpToRel
<1> HIDE DEF R
<1>3. PICK s \in T : \A y \in T : ~(<<y, s>> \in R)
  BY <1>1, WFMin, Zenon
<1>4. ASSUME NEW x \in T PROVE s <= x
  <2>1. x < s => <<x, s>> \in R
    BY <1>2, Zenon
  <2> QED BY <1>3, <2>1
<1> QED BY <1>4, Zenon

\* How the sets of slots are counted.
LEMMA Countings == CountFacts
<1> SUFFICES ASSUME NEW n \in Nat, NEW A \in SUBSET (0 .. n - 1)
             PROVE  /\ Cardinality(A) \in 0 .. n /\ Cardinality(0 .. n - 1) = n
                    /\ \A i \in 0 .. n - 1 : i \notin A => Cardinality(A \cup {i}) = Cardinality(A) + 1
                    /\ \A i \in 0 .. n - 1 : i \in A => Cardinality(A \ {i}) = Cardinality(A) - 1
                    /\ \A B \in SUBSET A : Cardinality(B) <= Cardinality(A)
                    /\ \A B \in SUBSET (0 .. n - 1) :
                         A \cap B = {} => Cardinality(A \cup B) = Cardinality(A) + Cardinality(B)
  BY Zenon DEF CountFacts
<1>1. IsFiniteSet(0 .. n - 1) /\ Cardinality(0 .. n - 1) = n
  BY FS_Interval
<1>2. \A B \in SUBSET (0 .. n - 1) : IsFiniteSet(B) /\ Cardinality(B) <= n
  BY <1>1, FS_Subset
<1>3. \A B \in SUBSET (0 .. n - 1) : Cardinality(B) \in Nat
  BY <1>2, FS_CardinalityType, Zenon
<1>4. Cardinality(A) \in 0 .. n
  BY <1>2, <1>3
<1>5. \A i : i \notin A => Cardinality(A \cup {i}) = Cardinality(A) + 1
  BY <1>2, FS_AddElement, Zenon
<1>6. \A i : i \in A => Cardinality(A \ {i}) = Cardinality(A) - 1
  BY <1>2, FS_RemoveElement, Zenon
<1>7. \A B \in SUBSET A : Cardinality(B) <= Cardinality(A)
  BY <1>2, FS_Subset, Zenon
<1>8. ASSUME NEW B \in SUBSET (0 .. n - 1), A \cap B = {}
      PROVE  Cardinality(A \cup B) = Cardinality(A) + Cardinality(B)
  <2>1. Cardinality(A \cup B) = Cardinality(A) + Cardinality(B) - Cardinality(A \cap B)
    BY <1>2, FS_Union, Zenon
  <2>2. Cardinality(A \cap B) = 0
    BY <1>8, FS_EmptySet, Zenon
  <2>3. Cardinality(A) \in Nat /\ Cardinality(B) \in Nat
    BY <1>3, Zenon
  <2> QED BY <2>1, <2>2, <2>3
<1> QED BY <1>1, <1>4, <1>5, <1>6, <1>7, <1>8, Zenon

\* For every capacity, set of keys and set of values, in _hm_resize and outside of it:
\* `count` is the number of live entries, `tombstones` covers the deleted ones, every
\* live entry is on the probe path of its key, a lookup of an absent key meets an
\* empty slot, and the puts of _hm_resize never resize.
THEOREM TableSound == MapTable => []TableInv
<1>1. MapInit => HashInv
  BY HashInit, Countings
<1>2. HashInv /\ [MapNext]_mapVars => HashInv'
  BY HashStep, Leasts, Countings
<1>3. HashInv => TableInv
  BY HashGives
<1> QED BY <1>1, <1>2, <1>3, PTL DEF MapTable

\* Callers that put only keys that are absent see a map: _hm_resize and the
\* tombstones do not show, and the put that makes the table grow takes effect once.
THEOREM TableIsMap ==
  ASSUME FreshOnly
  PROVE  MapTable => MapSpec
<1>1. MapInit => RefInv /\ Map!Init
  BY MapStart, Leasts, Countings
<1>2. RefInv /\ [MapNext]_mapVars => RefInv' /\ [Map!Next]_Contents
  BY MapStep, Leasts, Countings
<1> QED BY <1>1, <1>2, PTL DEF MapTable, MapSpec, Map!Spec

================================================================================
