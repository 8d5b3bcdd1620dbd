--------------------------- MODULE GwAdmissionProofs ---------------------------
(***************************************************************************)
(* What gw_push_order admits, for every limit, window length, ring size    *)
(* and any number of connections.  The rate bound rests on WindowsTrue: a  *)
(* span of one second meets at most two windows.  What is said of request  *)
(* ids rests on RingTrue.                                                  *)
(* The byte rings of the gateway are sequences of bytes, which is how the  *)
(* module Gateway takes them, for every capacity, content and position of  *)
(* head and tail.                                                          *)
(***************************************************************************)
EXTENDS GwAdmission, GwRing, FiniteSetTheorems, SequenceFacts, TLAPS

Fates == {"accepted", "duplicate", "limited"}
Entries == [conn : Conns, id : Ids, at : 0 .. now, fate : Fates]

\* The window of connection c once gw_push_order has looked at the clock.
Over(c) == WindowOver(now, start[c])
Begun(c) == IF Over(c) THEN now ELSE start[c]
Counted(c) == IF Over(c) THEN 0 ELSE count[c]

\* The log entry of an order, and a span in the log that has it.
Entry(c, id) == [conn |-> c, id |-> id, at |-> now,
                 fate |-> Fate(Admit(now, start[c], count[c], idem, id))]
NewSpan(c, a, b) == {i \in DOMAIN log' : log'[i].conn = c /\ log'[i].fate = "accepted"
                                          /\ log'[i].at \in a .. b}

\* A request id has its slot in idem_ring.
LEMMA SlotOfId ==
  ASSUME NEW id \in Nat
  PROVE  IdemSlot(id) \in 0 .. IdemSlots - 1
BY RulesAssumption DEF IdemSlot

\* The orders of a connection in a span are finitely many.
LEMMA SpanFinite ==
  ASSUME TypeOK, NEW c, NEW a, NEW b
  PROVE  /\ IsFiniteSet(InSpan(c, a, b)) /\ Cardinality(InSpan(c, a, b)) \in Nat
         /\ IsFiniteSet({i \in DOMAIN log : Accepted(i)})
<1>1. Len(log) \in Nat /\ DOMAIN log = 1 .. Len(log)
  BY SeqLen DEF TypeOK
<1>2. IsFiniteSet(DOMAIN log)
  BY <1>1, FS_Interval
<1>3. InSpan(c, a, b) \subseteq DOMAIN log /\ {i \in DOMAIN log : Accepted(i)} \subseteq DOMAIN log
  BY DEF InSpan
<1> QED BY <1>2, <1>3, FS_Subset, FS_CardinalityType

\* The log after one more order.
LEMMA LogGrows ==
  ASSUME TypeOK, NEW e \in Entries,
         log' = Append(log, e)
  PROVE  /\ log' \in Seq(Entries)
         /\ Len(log) \in Nat /\ Len(log') = Len(log) + 1
         /\ DOMAIN log = 1 .. Len(log) /\ DOMAIN log' = 1 .. Len(log) + 1
         /\ \A i \in 1 .. Len(log) :
              /\ log'[i] = log[i]
              /\ log[i] \in Entries
         /\ log'[Len(log) + 1] = e
<1>1. log \in Seq(Entries)
  BY DEF TypeOK, Fates, Entries
<1>2. /\ log' \in Seq(Entries) /\ Len(log') = Len(log) + 1 /\ log'[Len(log) + 1] = e
      /\ \A i \in 1 .. Len(log) : log'[i] = log[i]
  BY <1>1, SeqAppend
<1>3. Len(log) \in Nat /\ DOMAIN log = 1 .. Len(log) /\ DOMAIN log' = 1 .. Len(log')
  BY <1>1, <1>2, SeqLen
<1>4. \A i \in 1 .. Len(log) : log[i] \in Entries
  BY <1>1, SeqElement
<1> QED BY <1>2, <1>3, <1>4

\* An accepted order adds itself to the spans it lies in, any other order to none.
LEMMA SpanGrows ==
  ASSUME TypeOK, NEW e \in Entries,
         log' = Append(log, e), NEW c, NEW a, NEW b
  PROVE  LET hit == e.conn = c /\ e.fate = "accepted" /\ e.at \in a .. b
         IN  /\ hit => Cardinality(NewSpan(c, a, b)) = Cardinality(InSpan(c, a, b)) + 1
             /\ hit => NewSpan(c, a, b) = InSpan(c, a, b) \cup {Len(log) + 1}
             /\ ~hit => NewSpan(c, a, b) = InSpan(c, a, b)
<1> DEFINE hit == e.conn = c /\ e.fate = "accepted" /\ e.at \in a .. b
           new == NewSpan(c, a, b)
<1>1. /\ Len(log) \in Nat
      /\ DOMAIN log = 1 .. Len(log) /\ DOMAIN log' = 1 .. Len(log) + 1
      /\ \A i \in 1 .. Len(log) : log'[i] = log[i]
      /\ log'[Len(log) + 1] = e
  BY LogGrows
<1>2. 1 .. Len(log) + 1 = (1 .. Len(log)) \cup {Len(log) + 1} /\ Len(log) + 1 \notin 1 .. Len(log)
  BY <1>1
<1>3. hit => new = InSpan(c, a, b) \cup {Len(log) + 1}
  BY <1>1, <1>2, Zenon DEF InSpan, Accepted, NewSpan
<1>4. ~hit => new = InSpan(c, a, b)
  BY <1>1, <1>2, Zenon DEF InSpan, Accepted, NewSpan
<1>5. Len(log) + 1 \notin InSpan(c, a, b)
  BY <1>1, <1>2 DEF InSpan
<1>6. hit => Cardinality(new) = Cardinality(InSpan(c, a, b)) + 1
  <2>1. IsFiniteSet(InSpan(c, a, b))
    BY SpanFinite
  <2> HIDE DEF new, hit
  <2> QED BY <1>3, <1>5, <2>1, FS_AddElement
<1> QED BY <1>3, <1>4, <1>6

\* What one call of gw_push_order does to the connection and to the log.
LEMMA PushFacts ==
  ASSUME TypeOK, NEW c \in Conns, NEW id \in Ids, PushOrder(c, id)
  PROVE  LET fate == Entry(c, id).fate
         IN  /\ Entry(c, id) \in Entries /\ log' = Append(log, Entry(c, id)) /\ now' = now
             /\ start' = [start EXCEPT ![c] = Begun(c)]
             /\ fate = "accepted" =>
                  /\ Counted(c) < RateLimit /\ ~Seen(idem, id)
                  /\ count' = [count EXCEPT ![c] = Counted(c) + 1]
                  /\ idem' = Record(idem, id) /\ received' = received + 1
             /\ fate # "accepted" =>
                  /\ count' = [count EXCEPT ![c] = Counted(c)]
                  /\ idem' = idem /\ received' = received
             /\ fate = "duplicate" => Seen(idem, id)
             /\ fate = "limited" => Counted(c) >= RateLimit
<1> DEFINE a == Admit(now, start[c], count[c], idem, id)
<1>1. /\ a.start = Begun(c)
      /\ a.count = IF a.go THEN Counted(c) + 1 ELSE Counted(c)
      /\ a.idem = IF a.go THEN Record(idem, id) ELSE idem
      /\ a.go = (UnderLimit(Counted(c)) /\ ~Seen(idem, id))
      /\ a.dup = (UnderLimit(Counted(c)) /\ Seen(idem, id))
  BY Zenon DEF Admit, Begun, Counted, Over
<1>2. /\ start' = [start EXCEPT ![c] = a.start] /\ count' = [count EXCEPT ![c] = a.count]
      /\ idem' = a.idem /\ received' = IF a.go THEN received + 1 ELSE received
      /\ log' = Append(log, Entry(c, id)) /\ now' = now
  BY Zenon DEF PushOrder, Entry
<1>3. Entry(c, id).fate = Fate(a) /\ Fate(a) = IF a.go THEN "accepted" ELSE IF a.dup THEN "duplicate" ELSE "limited"
  BY DEF Entry, Fate
<1>4. Counted(c) \in Nat /\ (UnderLimit(Counted(c)) <=> Counted(c) < RateLimit)
  BY DEF TypeOK, Counted, UnderLimit
<1>5. Entry(c, id) \in Entries
  BY DEF Entry, Entries, Fates, Fate, TypeOK
<1> HIDE DEF a
<1>6. CASE Counted(c) < RateLimit /\ ~Seen(idem, id)
  <2>1. a.go
    BY <1>1, <1>4, <1>6, Zenon
  <2> QED BY <1>1, <1>2, <1>3, <1>4, <1>5, <1>6, <2>1
<1>7. CASE Counted(c) < RateLimit /\ Seen(idem, id)
  <2>1. ~a.go /\ a.dup
    BY <1>1, <1>4, <1>7, Zenon
  <2> QED BY <1>1, <1>2, <1>3, <1>4, <1>5, <1>7, <2>1
<1>8. CASE ~(Counted(c) < RateLimit)
  <2>1. ~a.go /\ ~a.dup
    BY <1>1, <1>4, <1>8, Zenon
  <2>2. Counted(c) >= RateLimit
    BY <1>4, <1>8, RulesAssumption
  <2> QED BY <1>1, <1>2, <1>3, <1>5, <2>1, <2>2
<1> QED BY <1>6, <1>7, <1>8

\* A larger span has at least as many orders.
LEMMA SpanMonotone ==
  ASSUME TypeOK, NEW c, NEW a \in Int, NEW b \in Int, NEW p \in Int, NEW q \in Int,
         \A i \in InSpan(c, a, b) : log[i].at \in p .. q
  PROVE  /\ InSpan(c, a, b) \subseteq InSpan(c, p, q)
         /\ Cardinality(InSpan(c, a, b)) <= Cardinality(InSpan(c, p, q))
<1>1. InSpan(c, a, b) \subseteq InSpan(c, p, q)
  BY Zenon DEF InSpan
<1> QED BY <1>1, SpanFinite, FS_Subset

\* The times in the log are times the clock has shown.
LEMMA TimesPast ==
  ASSUME TypeOK, NEW i \in DOMAIN log
  PROVE  log[i].at \in 0 .. now /\ now \in Nat
<1>1. log \in Seq(Entries)
  BY DEF TypeOK, Entries, Fates
<1>2. log[i] \in Entries
  BY <1>1, SeqLen, SeqElement
<1> QED BY <1>2, AdmissionAssumption DEF Entries, TypeOK

\* The facts of WindowsTrue hold of the window gw_push_order goes on with, before
\* it counts the order: a new window is empty, and the one before it is what the
\* last second can hold.
LEMMA WindowMoves ==
  ASSUME TypeOK, WindowsTrue, NEW c \in Conns
  PROVE  /\ Begun(c) \in 0 .. now /\ now <= Begun(c) + Second
         /\ Counted(c) \in 0 .. RateLimit
         /\ Counted(c) = Cardinality(InSpan(c, Begun(c), now))
         /\ \A t \in 0 .. MaxTime : t + Second >= Begun(c) =>
              Cardinality(InSpan(c, t, Begun(c) - 1)) <= RateLimit
         /\ \A i \in InSpan(c, 0, now) : log[i].at <= Begun(c) + Second
<1>1. /\ now \in Nat /\ start[c] \in 0 .. now /\ count[c] \in 0 .. RateLimit
      /\ Second \in Nat /\ RateLimit \in Nat /\ MaxTime \in Nat
  BY RulesAssumption, AdmissionAssumption DEF TypeOK
<1>2. /\ \A i \in InSpan(c, 0, now) : log[i].at <= start[c] + Second
      /\ count[c] = Cardinality(InSpan(c, start[c], now))
      /\ \A t \in 0 .. MaxTime : t + Second >= start[c] =>
           Cardinality(InSpan(c, t, start[c] - 1)) <= RateLimit
  BY Zenon DEF WindowsTrue
<1>3. CASE ~Over(c)
  <2>1. Begun(c) = start[c] /\ Counted(c) = count[c]
    BY <1>3 DEF Begun, Counted
  <2>2. now <= start[c] + Second
    BY <1>1, <1>3 DEF Over, WindowOver
  <2> QED BY <1>1, <1>2, <2>1, <2>2
<1>4. CASE Over(c)
  <2>1. Begun(c) = now /\ Counted(c) = 0
    BY <1>4 DEF Begun, Counted
  <2>2. now > start[c] + Second
    BY <1>1, <1>4 DEF Over, WindowOver
  <2>3. InSpan(c, now, now) = {}
    <3> SUFFICES ASSUME NEW i \in InSpan(c, now, now) PROVE FALSE
      BY Zenon
    <3>1. i \in DOMAIN log /\ log[i].at \in now .. now
      BY DEF InSpan
    <3>2. i \in InSpan(c, 0, now)
      BY <3>1, <1>1 DEF InSpan
    <3> QED BY <3>1, <3>2, <1>1, <1>2, <2>2
  <2>4. ASSUME NEW t \in 0 .. MaxTime, t + Second >= now
        PROVE  Cardinality(InSpan(c, t, now - 1)) <= RateLimit
    <3>1. t > start[c]
      BY <1>1, <2>2, <2>4
    <3>2. \A i \in InSpan(c, t, now - 1) : log[i].at \in start[c] .. now
      BY <1>1, <3>1, TimesPast DEF InSpan
    <3>3. Cardinality(InSpan(c, t, now - 1)) <= Cardinality(InSpan(c, start[c], now))
      BY <1>1, <3>2, SpanMonotone
    <3>4. Cardinality(InSpan(c, t, now - 1)) \in Nat
      BY SpanFinite
    <3> QED BY <1>1, <1>2, <3>3, <3>4
  <2>5. \A i \in InSpan(c, 0, now) : log[i].at <= now + Second
    BY <1>1, TimesPast DEF InSpan
  <2> QED BY <1>1, <2>1, <2>3, <2>4, <2>5, FS_EmptySet
<1> QED BY <1>3, <1>4

\* The types, and orders_received, after an order.
LEMMA OrderTypes ==
  ASSUME TypeOK, ReceivedExact, WindowsTrue, NEW c \in Conns, NEW id \in Ids, PushOrder(c, id)
  PROVE  TypeOK' /\ ReceivedExact'
<1> DEFINE e == Entry(c, id)
<1>1. e \in Entries /\ log' = Append(log, e) /\ now' = now
  BY PushFacts
<1>2. log' \in Seq(Entries)
  BY <1>1, LogGrows
<1>3. start' \in [Conns -> 0 .. now]
  <2>1. start \in [Conns -> 0 .. now]
    BY DEF TypeOK
  <2>2. start' = [start EXCEPT ![c] = Begun(c)]
    BY PushFacts
  <2>3. Begun(c) \in 0 .. now
    BY WindowMoves
  <2> QED BY <2>1, <2>2, <2>3
<1>4. count' \in [Conns -> 0 .. RateLimit]
  <2>1. Counted(c) \in 0 .. RateLimit /\ RateLimit \in Nat
    BY WindowMoves, RulesAssumption
  <2>2. (e.fate = "accepted" => Counted(c) < RateLimit /\ count' = [count EXCEPT ![c] = Counted(c) + 1])
        /\ (e.fate # "accepted" => count' = [count EXCEPT ![c] = Counted(c)])
    BY PushFacts
  <2>3. count \in [Conns -> 0 .. RateLimit]
    BY DEF TypeOK
  <2> HIDE DEF e
  <2> QED BY <2>1, <2>2, <2>3
<1>5. idem' \in [0 .. IdemSlots - 1 -> Ids \cup {0}]
  <2>1. idem' = idem \/ idem' = Record(idem, id)
    BY PushFacts
  <2>2. IdemSlot(id) \in 0 .. IdemSlots - 1
    BY SlotOfId, AdmissionAssumption
  <2> QED BY <2>1, <2>2 DEF TypeOK, Record
<1>6. TypeOK'
  BY <1>1, <1>2, <1>3, <1>4, <1>5 DEF TypeOK, Entries, Fates
<1>7. ReceivedExact'
  <2> DEFINE A == {i \in DOMAIN log : Accepted(i)}
             B == {i \in DOMAIN log' : log'[i].fate = "accepted"}
  <2>1. /\ Len(log) \in Nat
        /\ DOMAIN log = 1 .. Len(log) /\ DOMAIN log' = 1 .. Len(log) + 1
        /\ \A i \in 1 .. Len(log) : log'[i] = log[i]
        /\ log'[Len(log) + 1] = e
    BY <1>1, LogGrows
  <2>2. 1 .. Len(log) + 1 = (1 .. Len(log)) \cup {Len(log) + 1} /\ Len(log) + 1 \notin 1 .. Len(log)
    BY <2>1
  <2>3. e.fate = "accepted" => B = A \cup {Len(log) + 1}
    BY <2>1, <2>2, Zenon DEF Accepted
  <2>4. e.fate # "accepted" => B = A
    BY <2>1, <2>2, Zenon DEF Accepted
  <2>5. Len(log) + 1 \notin A /\ IsFiniteSet(A)
    BY <2>1, <2>2, SpanFinite
  <2>6. received = Cardinality(A) /\ (ReceivedExact' <=> received' = Cardinality(B))
    BY DEF ReceivedExact, Accepted
  <2>7. received' = IF e.fate = "accepted" THEN received + 1 ELSE received
    BY PushFacts
  <2> HIDE DEF A, B, e
  <2> QED BY <2>3, <2>4, <2>5, <2>6, <2>7, FS_AddElement
<1> QED BY <1>6, <1>7

\* An order is in no span of another connection and in no span before its own
\* window; in its window it is counted if it was accepted.
LEMMA SpansAfter ==
  ASSUME TypeOK, WindowsTrue, NEW c \in Conns, NEW id \in Ids, PushOrder(c, id)
  PROVE  /\ \A d \in Conns : \A a, b : d # c => NewSpan(d, a, b) = InSpan(d, a, b)
         /\ \A a, b : now \notin a .. b => NewSpan(c, a, b) = InSpan(c, a, b)
         /\ Cardinality(NewSpan(c, Begun(c), now)) = count'[c]
         /\ \A a, b : NewSpan(c, a, b) \subseteq InSpan(c, a, b) \cup {Len(log) + 1}
<1>1. Entry(c, id) \in Entries /\ log' = Append(log, Entry(c, id))
  BY PushFacts
<1>2. Entry(c, id).conn = c /\ Entry(c, id).at = now
  BY DEF Entry
<1>3. \A d \in Conns : \A a, b : d # c => NewSpan(d, a, b) = InSpan(d, a, b)
  BY <1>1, <1>2, SpanGrows
<1>4. \A a, b : now \notin a .. b => NewSpan(c, a, b) = InSpan(c, a, b)
  BY <1>1, <1>2, SpanGrows
<1>5. \A a, b : NewSpan(c, a, b) \subseteq InSpan(c, a, b) \cup {Len(log) + 1}
  BY <1>1, <1>2, SpanGrows
<1>6. Cardinality(NewSpan(c, Begun(c), now)) = count'[c]
  <2>1. now \in Begun(c) .. now /\ Counted(c) = Cardinality(InSpan(c, Begun(c), now))
    BY WindowMoves, AdmissionAssumption DEF TypeOK
  <2>2. count'[c] = IF Entry(c, id).fate = "accepted" THEN Counted(c) + 1 ELSE Counted(c)
    BY PushFacts DEF TypeOK
  <2> QED BY <1>1, <1>2, <2>1, <2>2, SpanGrows
<1> QED BY <1>3, <1>4, <1>5, <1>6

\* The windows after an order.
LEMMA OrderWindows ==
  ASSUME TypeOK, WindowsTrue, NEW c \in Conns, NEW id \in Ids, PushOrder(c, id)
  PROVE  WindowsTrue'
<1>1. now' = now /\ start' = [start EXCEPT ![c] = Begun(c)]
  BY PushFacts
<1>2. \A d, a, b : InSpan(d, a, b) \subseteq DOMAIN log
  BY DEF InSpan
<1>3. /\ Len(log) \in Nat /\ DOMAIN log = 1 .. Len(log)
      /\ \A i \in 1 .. Len(log) : log'[i] = log[i]
      /\ log'[Len(log) + 1].at = now
  <2>1. Entry(c, id) \in Entries /\ log' = Append(log, Entry(c, id)) /\ Entry(c, id).at = now
    BY PushFacts DEF Entry
  <2> QED BY <2>1, LogGrows
<1> SUFFICES ASSUME NEW d \in Conns
             PROVE  /\ \A i \in NewSpan(d, 0, now) : log'[i].at <= start'[d] + Second
                    /\ count'[d] = Cardinality(NewSpan(d, start'[d], now))
                    /\ \A t \in 0 .. MaxTime : t + Second >= start'[d] =>
                         Cardinality(NewSpan(d, t, start'[d] - 1)) <= RateLimit
  BY <1>1 DEF WindowsTrue, InSpan, NewSpan, Accepted
<1>4. CASE d = c
  <2>1. start'[c] = Begun(c) /\ Begun(c) \in 0 .. now /\ now <= Begun(c) + Second /\ now \in Nat
    BY <1>1, WindowMoves, AdmissionAssumption DEF TypeOK
  <2>2. ASSUME NEW i \in NewSpan(c, 0, now) PROVE log'[i].at <= Begun(c) + Second
    <3>1. i \in InSpan(c, 0, now) \/ i = Len(log) + 1
      BY SpansAfter
    <3> QED BY <3>1, <1>2, <1>3, <2>1, WindowMoves
  <2>3. count'[c] = Cardinality(NewSpan(c, Begun(c), now))
    BY SpansAfter
  <2>4. ASSUME NEW t \in 0 .. MaxTime, t + Second >= Begun(c)
        PROVE  Cardinality(NewSpan(c, t, Begun(c) - 1)) <= RateLimit
    <3>1. now \notin t .. Begun(c) - 1
      BY <2>1
    <3> QED BY <3>1, <2>4, SpansAfter, WindowMoves
  <2> QED BY <1>4, <2>1, <2>2, <2>3, <2>4
<1>5. CASE d # c
  <2>1. start'[d] = start[d]
    BY <1>1, <1>5 DEF TypeOK
  <2>2. count'[d] = count[d]
    BY <1>5, PushFacts DEF TypeOK
  <2>3. \A a, b : NewSpan(d, a, b) = InSpan(d, a, b)
    BY <1>5, SpansAfter
  <2>4. \A i \in InSpan(d, 0, now) : log'[i] = log[i]
    BY <1>2, <1>3
  <2> QED BY <2>1, <2>2, <2>3, <2>4, Zenon DEF WindowsTrue
<1> QED BY <1>4, <1>5

\* No span of one second gets more than twice the limit: what of it lies before
\* the window is in one window, and so is the rest.
LEMMA OrderRate ==
  ASSUME TypeOK, TypeOK', WindowsTrue, RateBounded,
         NEW c \in Conns, NEW id \in Ids, PushOrder(c, id)
  PROVE  RateBounded'
<1>0. RateLimit \in Nat /\ Second \in Nat /\ MaxTime \in Nat /\ now \in Nat
  BY RulesAssumption, AdmissionAssumption DEF TypeOK
<1> SUFFICES ASSUME NEW d \in Conns, NEW t \in 0 .. MaxTime
             PROVE  Cardinality(NewSpan(d, t, t + Second)) <= 2 * RateLimit
  BY DEF RateBounded, InSpan, NewSpan, Accepted
<1>1. CASE NewSpan(d, t, t + Second) = InSpan(d, t, t + Second)
  BY <1>1 DEF RateBounded
<1>2. CASE d = c /\ now \in t .. t + Second
  <2> DEFINE A == NewSpan(c, t, Begun(c) - 1)
             B == NewSpan(c, Begun(c), now)
             S == NewSpan(c, t, t + Second)
  <2>1. Begun(c) \in 0 .. now /\ t + Second >= Begun(c)
    BY <1>0, <1>2, WindowMoves
  <2>2. now' = now
    BY PushFacts
  <2>3. \A a, b : NewSpan(c, a, b) = InSpan(c, a, b)'
    BY DEF InSpan, NewSpan, Accepted
  <2>4. IsFiniteSet(A) /\ IsFiniteSet(B) /\ IsFiniteSet(S)
    <3>1. Len(log') \in Nat /\ DOMAIN log' = 1 .. Len(log')
      BY SeqLen DEF TypeOK
    <3>2. IsFiniteSet(DOMAIN log')
      BY <3>1, FS_Interval
    <3>3. A \subseteq DOMAIN log' /\ B \subseteq DOMAIN log' /\ S \subseteq DOMAIN log'
      BY DEF NewSpan
    <3> HIDE DEF A, B, S
    <3> QED BY <3>2, <3>3, FS_Subset
  <2>5. Cardinality(A) <= RateLimit
    <3>1. now \notin t .. Begun(c) - 1
      BY <1>0, <2>1
    <3> QED BY <2>1, <3>1, SpansAfter, WindowMoves
  <2>6. Cardinality(B) <= RateLimit
    BY <1>0, SpansAfter DEF TypeOK
  <2>7. S \subseteq A \cup B
    <3> SUFFICES ASSUME NEW i \in S, i \notin B PROVE i \in A
      BY Zenon
    <3>1. i \in DOMAIN log' /\ log'[i].conn = c /\ log'[i].fate = "accepted"
          /\ log'[i].at \in t .. t + Second
      BY DEF NewSpan
    <3>2. log'[i].at \in 0 .. now
      <4>1. log' \in Seq([conn : Conns, id : Ids, at : 0 .. now, fate : Fates])
        BY <2>2 DEF TypeOK, Fates
      <4>2. log'[i] \in [conn : Conns, id : Ids, at : 0 .. now, fate : Fates]
        BY <3>1, <4>1, SeqElement, SeqLen
      <4> QED BY <4>2
    <3>3. log'[i].at \notin Begun(c) .. now
      BY <3>1 DEF NewSpan
    <3>4. log'[i].at \in t .. Begun(c) - 1
      BY <1>0, <2>1, <3>1, <3>2, <3>3
    <3> QED BY <3>1, <3>4 DEF NewSpan
  <2> HIDE DEF A, B, S
  <2>8. IsFiniteSet(A \cup B) /\ Cardinality(A \cup B) = Cardinality(A) + Cardinality(B) - Cardinality(A \cap B)
    BY <2>4, FS_Union
  <2>9. Cardinality(A \cap B) \in Nat /\ Cardinality(A) \in Nat /\ Cardinality(B) \in Nat
    <3>1. IsFiniteSet(A \cap B)
      BY <2>4, FS_Subset
    <3> QED BY <3>1, <2>4, FS_CardinalityType
  <2>10. Cardinality(S) \in Nat /\ Cardinality(S) <= Cardinality(A \cup B)
    BY <2>4, <2>7, <2>8, FS_Subset, FS_CardinalityType
  <2>11. Cardinality(S) <= 2 * RateLimit
    BY <1>0, <2>5, <2>6, <2>8, <2>9, <2>10
  <2> QED BY <1>2, <2>11 DEF S
<1> QED BY <1>1, <1>2, SpansAfter

\* An order is refused at the limit only, and what it was refused for stays in
\* the log.
LEMMA OrderRefused ==
  ASSUME TypeOK, WindowsTrue, RefusedOnlyAtLimit,
         NEW c \in Conns, NEW id \in Ids, PushOrder(c, id)
  PROVE  RefusedOnlyAtLimit'
<1> DEFINE Before(i, d, t) == {j \in InSpan(d, t - Second, t) : j < i}
           After(i, d, t) == {j \in NewSpan(d, t - Second, t) : j < i}
           e == Entry(c, id)
<1>1. e \in Entries /\ log' = Append(log, e) /\ e.conn = c /\ e.at = now
  BY PushFacts DEF Entry
<1>2. /\ Len(log) \in Nat
      /\ DOMAIN log = 1 .. Len(log) /\ DOMAIN log' = 1 .. Len(log) + 1
      /\ \A i \in 1 .. Len(log) : log'[i] = log[i]
      /\ log'[Len(log) + 1] = e
  BY <1>1, LogGrows
<1>3. ASSUME NEW i \in 1 .. Len(log) + 1, NEW d, NEW t PROVE After(i, d, t) = Before(i, d, t)
  <2>1. \A j \in 1 .. Len(log) + 1 : j < i => j \in 1 .. Len(log)
    BY <1>2
  <2>2. \A j \in 1 .. Len(log) : j \in 1 .. Len(log) + 1
    BY <1>2
  <2> QED BY <1>2, <2>1, <2>2, Zenon DEF InSpan, NewSpan, Accepted
<1> SUFFICES ASSUME NEW i \in 1 .. Len(log) + 1, log'[i].fate = "limited"
             PROVE  Cardinality(After(i, log'[i].conn, log'[i].at)) >= RateLimit
  BY <1>2 DEF RefusedOnlyAtLimit, InSpan, NewSpan, Accepted
<1>4. CASE i \in 1 .. Len(log)
  BY <1>2, <1>3, <1>4 DEF RefusedOnlyAtLimit
<1>5. CASE i = Len(log) + 1
  <2>1. Counted(c) >= RateLimit
    BY <1>2, <1>5, PushFacts
  <2>2. Counted(c) = Cardinality(InSpan(c, Begun(c), now)) /\ Begun(c) \in 0 .. now
        /\ now <= Begun(c) + Second /\ now \in Nat /\ Second \in Nat
    BY WindowMoves, RulesAssumption, AdmissionAssumption DEF TypeOK
  <2>3. InSpan(c, Begun(c), now) \subseteq Before(i, c, now)
    <3> SUFFICES ASSUME NEW j \in InSpan(c, Begun(c), now) PROVE j \in Before(i, c, now)
      BY Zenon
    <3>1. j \in DOMAIN log /\ log[j].conn = c /\ Accepted(j) /\ log[j].at \in Begun(c) .. now
      BY DEF InSpan
    <3>2. j < i
      BY <3>1, <1>2, <1>5
    <3>3. log[j].at \in now - Second .. now
      BY <3>1, <2>2
    <3> QED BY <3>1, <3>2, <3>3 DEF InSpan
  <2>4. IsFiniteSet(Before(i, c, now))
    <3>1. Before(i, c, now) \subseteq InSpan(c, now - Second, now)
      OBVIOUS
    <3> HIDE DEF Before
    <3> QED BY <3>1, SpanFinite, FS_Subset
  <2>5. Cardinality(InSpan(c, Begun(c), now)) <= Cardinality(Before(i, c, now))
    <3> HIDE DEF Before
    <3> QED BY <2>3, <2>4, FS_Subset
  <2>6. Cardinality(Before(i, c, now)) >= RateLimit
    <3>1. Cardinality(Before(i, c, now)) \in Nat /\ Counted(c) \in Nat
      <4> HIDE DEF Before
      <4> QED BY <2>2, <2>4, SpanFinite, FS_CardinalityType
    <3> HIDE DEF Before
    <3> QED BY <2>1, <2>2, <2>5, <3>1, RulesAssumption
  <2>7. After(i, c, now) = Before(i, c, now)
    BY <1>3
  <2> HIDE DEF Before, After
  <2> QED BY <1>1, <1>2, <1>5, <2>6, <2>7
<1> QED BY <1>4, <1>5

\* The ring of ids after an order.
LEMMA OrderRing ==
  ASSUME TypeOK, RingTrue, NEW c \in Conns, NEW id \in Ids, PushOrder(c, id)
  PROVE  RingTrue'
<1> DEFINE e == Entry(c, id)
           n == Len(log)
<1>1. e \in Entries /\ log' = Append(log, e) /\ e.id = id
  BY PushFacts DEF Entry
<1>2. /\ n \in Nat /\ Len(log') = n + 1 /\ DOMAIN log = 1 .. n /\ DOMAIN log' = 1 .. n + 1
      /\ \A i \in 1 .. n : log'[i] = log[i] /\ log[i] \in Entries
      /\ log'[n + 1] = e
  BY <1>1, LogGrows
<1>3. IdemSlot(id) \in 0 .. IdemSlots - 1 /\ \A i \in 1 .. n : IdemSlot(log[i].id) \in 0 .. IdemSlots - 1
  BY <1>2, SlotOfId, AdmissionAssumption DEF Entries
<1>4. /\ e.fate = "accepted" /\ id # 0 => idem' = [idem EXCEPT ![IdemSlot(id)] = id]
      /\ e.fate # "accepted" \/ id = 0 => idem' = idem
  BY PushFacts DEF Record
<1>5. idem \in [0 .. IdemSlots - 1 -> Ids \cup {0}]
  BY DEF TypeOK
<1> HIDE DEF e
<1>6. ASSUME NEW s \in 0 .. IdemSlots - 1, idem'[s] # 0
      PROVE  \E i \in 1 .. n + 1 : log'[i].fate = "accepted" /\ log'[i].id = idem'[s]
  <2>1. CASE idem'[s] = idem[s]
    <3>1. PICK i \in 1 .. n : Accepted(i) /\ log[i].id = idem[s]
      BY <1>2, <1>6, <2>1 DEF RingTrue
    <3> QED BY <3>1, <2>1, <1>2 DEF Accepted
  <2>2. CASE idem'[s] # idem[s]
    <3>1. e.fate = "accepted" /\ idem'[s] = id
      BY <1>3, <1>4, <1>5, <2>2
    <3> QED BY <3>1, <1>1, <1>2
  <2> QED BY <2>1, <2>2
<1>7. ASSUME NEW i \in 1 .. n + 1, log'[i].fate = "accepted", log'[i].id # 0
      PROVE  \/ idem'[IdemSlot(log'[i].id)] = log'[i].id
             \/ \E k \in i + 1 .. n + 1 : log'[k].fate = "accepted" /\ Collide(log'[k].id, log'[i].id)
  <2>1. CASE i = n + 1
    BY <2>1, <1>1, <1>2, <1>3, <1>4, <1>5, <1>7
  <2>2. CASE i \in 1 .. n
    <3>1. \/ idem[IdemSlot(log[i].id)] = log[i].id
          \/ \E k \in i + 1 .. n : Accepted(k) /\ Collide(log[k].id, log[i].id)
      BY <2>2, <1>2, <1>7 DEF RingTrue, Accepted
    <3>2. CASE \E k \in i + 1 .. n : Accepted(k) /\ Collide(log[k].id, log[i].id)
      <4>1. PICK k \in i + 1 .. n : Accepted(k) /\ Collide(log[k].id, log[i].id)
        BY <3>2
      <4>2. k \in 1 .. n /\ k \in i + 1 .. n + 1
        BY <1>2, <2>2
      <4> QED BY <4>1, <4>2, <2>2, <1>2 DEF Accepted
    <3>3. CASE idem[IdemSlot(log[i].id)] = log[i].id
      <4>1. CASE idem'[IdemSlot(log[i].id)] = idem[IdemSlot(log[i].id)]
        BY <4>1, <3>3, <2>2, <1>2
      <4>2. CASE idem'[IdemSlot(log[i].id)] # idem[IdemSlot(log[i].id)]
        <5>1. e.fate = "accepted" /\ id # 0 /\ IdemSlot(log[i].id) = IdemSlot(id) /\ id # log[i].id
          BY <1>3, <1>4, <1>5, <3>3, <2>2, <4>2
        <5>2. Collide(log'[n + 1].id, log'[i].id) /\ n + 1 \in i + 1 .. n + 1
          BY <5>1, <1>1, <1>2, <1>7, <2>2 DEF Collide
        <5> QED BY <5>1, <5>2, <1>2
      <4> QED BY <4>1, <4>2
    <3> QED BY <3>1, <3>2, <3>3
  <2> QED BY <2>1, <2>2, <1>2
<1> QED BY <1>2, <1>6, <1>7 DEF RingTrue, Accepted

\* What is said of request ids, after an order: the ring knows of every accepted
\* id that no other has pushed out, and of no id that was not accepted.
LEMMA OrderIds ==
  ASSUME TypeOK, RingTrue, DuplicateNeedsCollision, NoFalseReject,
         NEW c \in Conns, NEW id \in Ids, PushOrder(c, id)
  PROVE  DuplicateNeedsCollision' /\ NoFalseReject'
<1> DEFINE e == Entry(c, id)
           n == Len(log)
           acc(k) == log'[k].fate = "accepted"
<1>1. e \in Entries /\ log' = Append(log, e) /\ e.id = id
  BY PushFacts DEF Entry
<1>2. /\ n \in Nat /\ DOMAIN log = 1 .. n /\ DOMAIN log' = 1 .. n + 1
      /\ \A i \in 1 .. n : log'[i] = log[i] /\ log[i] \in Entries
      /\ log'[n + 1] = e
  BY <1>1, LogGrows
<1>3. (e.fate = "accepted" => ~Seen(idem, id)) /\ (e.fate = "duplicate" => Seen(idem, id))
  BY PushFacts
<1>4. IdemSlot(id) \in 0 .. IdemSlots - 1
  BY SlotOfId, AdmissionAssumption
<1> HIDE DEF e
<1>5. ASSUME NEW i \in 1 .. n + 1, NEW j \in 1 .. n + 1, i < j, log'[i].id = log'[j].id,
             log'[i].id # 0, acc(i), acc(j)
      PROVE  \E k \in i + 1 .. j - 1 : acc(k) /\ Collide(log'[k].id, log'[i].id)
  <2>1. CASE j = n + 1
    <3>1. i \in 1 .. n /\ log[i].id = id /\ log'[i].id = id /\ Accepted(i) /\ ~Seen(idem, id) /\ id # 0
      BY <1>1, <1>2, <1>3, <1>5, <2>1 DEF Accepted
    <3>2. idem[IdemSlot(id)] # id
      BY <3>1 DEF Seen
    <3>3. PICK k \in i + 1 .. n : Accepted(k) /\ Collide(log[k].id, log[i].id)
      BY <1>2, <3>1, <3>2 DEF RingTrue
    <3>4. k \in 1 .. n /\ k \in i + 1 .. j - 1
      BY <1>2, <2>1, <3>1
    <3> QED BY <1>2, <3>1, <3>3, <3>4 DEF Accepted
  <2>2. CASE j \in 1 .. n
    <3>1. i \in 1 .. n
      BY <1>2, <1>5, <2>2
    <3>2. PICK k \in i + 1 .. j - 1 : Accepted(k) /\ Collide(log[k].id, log[i].id)
      BY <1>2, <1>5, <2>2, <3>1 DEF DuplicateNeedsCollision, Accepted
    <3>3. k \in 1 .. n
      BY <1>2, <2>2, <3>1
    <3> QED BY <1>2, <3>1, <3>2, <3>3 DEF Accepted
  <2>3. j = n + 1 \/ j \in 1 .. n
    BY <1>2
  <2> QED BY <2>1, <2>2, <2>3, Zenon
<1>6. ASSUME NEW j \in 1 .. n + 1, log'[j].fate = "duplicate"
      PROVE  \E i \in 1 .. j - 1 : log'[i].id = log'[j].id /\ acc(i)
  <2>1. CASE j = n + 1
    <3>1. idem[IdemSlot(id)] = id /\ id # 0
      BY <1>2, <1>3, <1>6, <2>1 DEF Seen
    <3>2. PICK i \in 1 .. n : Accepted(i) /\ log[i].id = id
      BY <1>2, <1>4, <3>1 DEF RingTrue
    <3>3. i \in 1 .. j - 1
      BY <1>2, <2>1
    <3> QED BY <1>1, <1>2, <2>1, <3>2, <3>3 DEF Accepted
  <2>2. CASE j \in 1 .. n
    <3>1. PICK i \in 1 .. j - 1 : log[i].id = log[j].id /\ Accepted(i)
      BY <1>2, <1>6, <2>2 DEF NoFalseReject
    <3>2. i \in 1 .. n
      BY <1>2, <2>2
    <3> QED BY <1>2, <2>2, <3>1, <3>2 DEF Accepted
  <2>3. j = n + 1 \/ j \in 1 .. n
    BY <1>2
  <2> QED BY <2>1, <2>2, <2>3, Zenon
<1> QED BY <1>2, <1>5, <1>6 DEF DuplicateNeedsCollision, NoFalseReject, Accepted

AdmissionInv == RateInv /\ DuplicateNeedsCollision /\ NoFalseReject

\* The clock changes nothing that is said of the orders.
LEMMA TickKeeps ==
  ASSUME AdmissionInv, Tick
  PROVE  AdmissionInv'
<1>1. UNCHANGED <<start, count, idem, received, log>> /\ now' = now + 1 /\ now' \in 0 .. MaxTime
      /\ now \in Nat
  BY AdmissionAssumption DEF AdmissionInv, RateInv, TypeOK, Tick
<1>2. TypeOK'
  <2>1. log \in Seq([conn : Conns, id : Ids, at : 0 .. now', fate : Fates])
    <3>1. [conn : Conns, id : Ids, at : 0 .. now, fate : Fates]
            \subseteq [conn : Conns, id : Ids, at : 0 .. now', fate : Fates]
      BY <1>1
    <3> QED BY <3>1, SeqWider DEF AdmissionInv, RateInv, TypeOK, Fates
  <2>2. start \in [Conns -> 0 .. now']
    BY <1>1 DEF AdmissionInv, RateInv, TypeOK
  <2> QED BY <1>1, <2>1, <2>2 DEF AdmissionInv, RateInv, TypeOK, Fates
<1>4. WindowsTrue'
  <2>1. ASSUME NEW c, NEW a \in 0 .. now
        PROVE  {i \in DOMAIN log : log[i].conn = c /\ Accepted(i) /\ log[i].at \in a .. now + 1}
                 = InSpan(c, a, now)
    <3>1. \A i \in DOMAIN log : log[i].at \in a .. now + 1 <=> log[i].at \in a .. now
      BY <1>1, TimesPast DEF AdmissionInv, RateInv
    <3> QED BY <3>1, Zenon DEF InSpan
  <2>2. \A c \in Conns : start[c] \in 0 .. now /\ 0 \in 0 .. now
    BY <1>1 DEF AdmissionInv, RateInv, TypeOK
  <2> DEFINE Late(c, a) == {i \in DOMAIN log : log[i].conn = c /\ Accepted(i)
                                                 /\ log[i].at \in a .. now + 1}
  <2>3. WindowsTrue' <=>
          \A c \in Conns :
            /\ \A i \in Late(c, 0) : log[i].at <= start[c] + Second
            /\ count[c] = Cardinality(Late(c, start[c]))
            /\ \A t \in 0 .. MaxTime : t + Second >= start[c] =>
                 Cardinality(InSpan(c, t, start[c] - 1)) <= RateLimit
    BY <1>1 DEF WindowsTrue, InSpan, Accepted
  <2>4. \A c \in Conns : Late(c, 0) = InSpan(c, 0, now) /\ Late(c, start[c]) = InSpan(c, start[c], now)
    BY <2>1, <2>2
  <2> HIDE DEF Late
  <2> QED BY <2>3, <2>4, Zenon DEF AdmissionInv, RateInv, WindowsTrue
<1>5. ReceivedExact' /\ RingTrue'
  BY <1>1 DEF AdmissionInv, RateInv, ReceivedExact, RingTrue, Accepted
<1>6. RateBounded'
  BY <1>1, Zenon DEF AdmissionInv, RateInv, RateBounded, InSpan, Accepted
<1>7. RefusedOnlyAtLimit'
  BY <1>1, Zenon DEF AdmissionInv, RateInv, RefusedOnlyAtLimit, InSpan, Accepted
<1>8. DuplicateNeedsCollision' /\ NoFalseReject'
  BY <1>1 DEF AdmissionInv, DuplicateNeedsCollision, NoFalseReject, Accepted
<1> QED BY <1>2, <1>4, <1>5, <1>6, <1>7, <1>8 DEF AdmissionInv, RateInv

\* All that is said of gw_push_order holds in every reachable state, for every
\* limit, window, ring of ids and set of connections.
THEOREM Admission == Spec => []AdmissionInv
<1>1. Init => AdmissionInv
  <2> SUFFICES ASSUME Init PROVE AdmissionInv
    OBVIOUS
  <2>1. log = << >> /\ DOMAIN log = {} /\ now = 0 /\ received = 0
    BY DEF Init
  <2>2. TypeOK
    BY RulesAssumption, AdmissionAssumption DEF Init, TypeOK, NoIds
  <2>3. \A c, a, b : InSpan(c, a, b) = {} /\ Cardinality(InSpan(c, a, b)) = 0
    BY <2>1, FS_EmptySet DEF InSpan
  <2>4. ReceivedExact
    BY <2>1, FS_EmptySet DEF ReceivedExact
  <2>5. WindowsTrue /\ RateBounded
    BY <2>1, <2>3, RulesAssumption DEF Init, WindowsTrue, RateBounded
  <2> QED BY <2>1, <2>2, <2>4, <2>5
       DEF Init, AdmissionInv, RateInv, RingTrue, NoIds, RefusedOnlyAtLimit,
           DuplicateNeedsCollision, NoFalseReject
<1>2. AdmissionInv /\ [Next]_vars => AdmissionInv'
  <2> SUFFICES ASSUME AdmissionInv, [Next]_vars PROVE AdmissionInv'
    OBVIOUS
  <2>1. CASE Order
    <3>1. PICK c \in Conns, id \in Ids : PushOrder(c, id)
      BY <2>1 DEF Order
    <3>2. TypeOK' /\ ReceivedExact'
      BY <3>1, OrderTypes DEF AdmissionInv, RateInv
    <3> QED BY <3>1, <3>2, OrderWindows, OrderRate, OrderRefused, OrderRing, OrderIds
         DEF AdmissionInv, RateInv
  <2>2. CASE Tick
    BY <2>2, TickKeeps
  <2>3. CASE UNCHANGED vars
    <3>1. TypeOK' /\ ReceivedExact' /\ RingTrue'
      BY <2>3 DEF AdmissionInv, RateInv, TypeOK, ReceivedExact, RingTrue, Accepted, vars
    <3>2. RateBounded' /\ RefusedOnlyAtLimit'
      BY <2>3, Zenon DEF AdmissionInv, RateInv, RateBounded, RefusedOnlyAtLimit, InSpan, Accepted, vars
    <3>4. WindowsTrue'
      <4>1. now' = now /\ start' = start /\ count' = count /\ log' = log /\ WindowsTrue
        BY <2>3 DEF AdmissionInv, RateInv, vars
      <4>2. \A c : /\ InSpan(c, 0, now)' = InSpan(c, 0, now)
                   /\ InSpan(c, start[c], now)' = InSpan(c, start[c], now)
                   /\ \A t : InSpan(c, t, start[c] - 1)' = InSpan(c, t, start[c] - 1)
        BY <4>1, Zenon DEF InSpan, Accepted
      <4> QED BY <4>1, <4>2, Zenon DEF WindowsTrue
    <3>3. DuplicateNeedsCollision' /\ NoFalseReject'
      BY <2>3 DEF AdmissionInv, DuplicateNeedsCollision, NoFalseReject, Accepted, vars
    <3> QED BY <3>1, <3>2, <3>3, <3>4 DEF AdmissionInv, RateInv
  <2> QED BY <2>1, <2>2, <2>3 DEF Next
<1> QED BY <1>1, <1>2, PTL DEF Spec

\* The rate window errs by at most one limit in one direction and not at all in the
\* other.
THEOREM RateCorrect == Spec => []RateInv
<1>1. AdmissionInv => RateInv
  BY DEF AdmissionInv
<1> QED BY <1>1, Admission, PTL

\* Only a collision in idem_ring lets a duplicate pass.
THEOREM DuplicatesCaught == Spec => []DuplicateNeedsCollision
<1>1. AdmissionInv => DuplicateNeedsCollision
  BY DEF AdmissionInv
<1> QED BY <1>1, Admission, PTL

\* idem_ring never turns away an id that was not accepted before.
THEOREM NewIdsPass == Spec => []NoFalseReject
<1>1. AdmissionInv => NoFalseReject
  BY DEF AdmissionInv
<1> QED BY <1>1, Admission, PTL

-------------------------------------------------------------------------------
(* The byte rings *)

Pos(cap, i) == IF i < cap THEN i ELSE i - cap

\* An array of cap bytes with a head and a tail in it
Ring(Bytes, cap, buf, head, tail) ==
  /\ cap \in Nat /\ cap > 0
  /\ buf \in [RingIndices(cap) -> Bytes]
  /\ head \in RingIndices(cap)
  /\ tail \in RingIndices(cap)

\* "& mask" of an index that has passed the end of the array at most once.
LEMMA Masked ==
  ASSUME NEW cap \in Nat, cap > 0, NEW i \in 0 .. 2 * cap - 1
  PROVE  i % cap = Pos(cap, i)
<1>1. CASE i < cap
  BY <1>1 DEF Pos
<1>2. CASE i >= cap
  BY <1>2 DEF Pos
<1> QED
  BY <1>1, <1>2

\* What a ring holds is a sequence of bytes, one less than cap of them at most.
LEMMA Contents ==
  ASSUME NEW Bytes, NEW cap, NEW buf, NEW head, NEW tail, Ring(Bytes, cap, buf, head, tail)
  PROVE  /\ RingContents(cap, buf, head, tail) \in Seq(Bytes)
         /\ Len(RingContents(cap, buf, head, tail)) = RingReadable(cap, head, tail)
         /\ RingReadable(cap, head, tail) \in 0 .. cap - 1
         /\ \A i \in 1 .. RingReadable(cap, head, tail) :
              RingContents(cap, buf, head, tail)[i]
                = buf[Pos(cap, head + i - 1)]
<1> USE DEF Ring
<1> DEFINE n == RingReadable(cap, head, tail)
<1>1. n \in 0 .. cap - 1
  BY DEF RingReadable, RingIndices
<1> HIDE DEF n
<1>2. ASSUME NEW i \in 1 .. n
      PROVE  /\ (head + i - 1) % cap = Pos(cap, head + i - 1)
             /\ (head + i - 1) % cap \in RingIndices(cap)
  <2>1. head + i - 1 \in 0 .. 2 * cap - 1
    BY <1>1 DEF RingIndices
  <2>2. (head + i - 1) % cap = Pos(cap, head + i - 1)
    BY <2>1, Masked, Zenon
  <2> QED
    BY <2>1, <2>2 DEF RingIndices, Pos
<1>3. RingContents(cap, buf, head, tail) = [i \in 1 .. n |-> buf[(head + i - 1) % cap]]
  BY DEF RingContents, n
<1>4. RingContents(cap, buf, head, tail) \in [1 .. n -> Bytes]
  BY <1>2, <1>3
<1>5. /\ RingContents(cap, buf, head, tail) \in Seq(Bytes)
      /\ Len(RingContents(cap, buf, head, tail)) = n
  BY <1>1, <1>4
<1>6. \A i \in 1 .. n : RingContents(cap, buf, head, tail)[i]
                          = buf[Pos(cap, head + i - 1)]
  BY <1>2, <1>3
<1> QED
  BY <1>1, <1>5, <1>6 DEF n

\* The room of a ring depends on how much it holds only: gw_ring_writable is what
\* Gateway computes from the length of a sequence.
THEOREM RoomOfContents ==
  ASSUME NEW Bytes, NEW cap, NEW buf, NEW head, NEW tail, Ring(Bytes, cap, buf, head, tail)
  PROVE  /\ RingWritable(cap, head, tail)
              = RingWritable(cap, 0, Len(RingContents(cap, buf, head, tail)))
         /\ RingWritable(cap, head, tail) \in 0 .. cap - 1
         /\ ReadLimit(cap, head, tail) = 0 <=> RingWritable(cap, head, tail) = 0
         /\ SendLimit(cap, head, tail) = 0 <=> RingContents(cap, buf, head, tail) = << >>
<1> DEFINE n == RingReadable(cap, head, tail)
<1>1. /\ n \in 0 .. cap - 1 /\ RingContents(cap, buf, head, tail) \in Seq(Bytes)
      /\ Len(RingContents(cap, buf, head, tail)) = n
  BY Contents
<1> HIDE DEF n
<1> USE DEF Ring
<1>2. RingWritable(cap, head, tail) = cap - 1 - n
  BY DEF RingWritable, n
<1>3. RingWritable(cap, 0, n) = cap - 1 - n
  BY <1>1 DEF RingWritable, RingReadable
<1>4. ReadLimit(cap, head, tail) = 0 <=> cap - 1 - n = 0
  BY <1>1, <1>2 DEF ReadLimit, Least, RingIndices
<1>5. SendLimit(cap, head, tail) = 0 <=> n = 0
  BY <1>1 DEF SendLimit, Least, RingIndices, n
<1>6. RingContents(cap, buf, head, tail) = << >> <=> n = 0
  BY <1>1
<1> QED
  BY <1>1, <1>2, <1>3, <1>4, <1>5, <1>6

\* gw_ring_advance takes the oldest bytes out.
THEOREM AdvanceTakes ==
  ASSUME NEW Bytes, NEW cap, NEW buf, NEW head, NEW tail, Ring(Bytes, cap, buf, head, tail),
         NEW d \in 0 .. RingReadable(cap, head, tail)
  PROVE  /\ RingAdvance(cap, head, d) \in RingIndices(cap)
         /\ RingContents(cap, buf, RingAdvance(cap, head, d), tail)
              = SubSeq(RingContents(cap, buf, head, tail), d + 1, RingReadable(cap, head, tail))
<1> DEFINE n == RingReadable(cap, head, tail)
           h == RingAdvance(cap, head, d)
           c == RingContents(cap, buf, head, tail)
           r == RingContents(cap, buf, h, tail)
           s == SubSeq(c, d + 1, n)
<1>1. /\ n \in 0 .. cap - 1 /\ c \in Seq(Bytes) /\ Len(c) = n
      /\ \A i \in 1 .. n : c[i] = buf[Pos(cap, head + i - 1)]
  BY Contents
<1> USE DEF Ring
<1>2. h = Pos(cap, head + d)
  <2>1. head + d \in 0 .. 2 * cap - 1
    BY <1>1 DEF RingIndices
  <2> QED
    BY <2>1, Masked, Zenon DEF RingAdvance
<1>3. h \in RingIndices(cap)
  BY <1>1, <1>2 DEF RingIndices, Pos
<1>4. RingReadable(cap, h, tail) = n - d
  BY <1>1, <1>2 DEF RingReadable, RingIndices, Pos
<1> HIDE DEF h
<1>r. Ring(Bytes, cap, buf, h, tail)
  BY <1>3
<1> HIDE DEF Ring
<1>5. /\ r \in Seq(Bytes) /\ Len(r) = n - d
      /\ \A i \in 1 .. n - d : r[i] = buf[Pos(cap, h + i - 1)]
  BY <1>r, <1>4, Contents
<1>d. d \in 0 .. n
  OBVIOUS
<1> HIDE DEF n, c, r
<1>6. /\ s \in Seq(Bytes) /\ Len(s) = n - d
      /\ \A i \in 1 .. n - d : s[i] = c[d + i]
  BY <1>1, <1>d
<1> HIDE DEF s
<1>7. ASSUME NEW i \in 1 .. n - d PROVE r[i] = s[i]
  <2>1. d + i \in 1 .. n /\ head \in 0 .. cap - 1
    BY <1>1 DEF n, RingIndices, Ring
  <2>2. Pos(cap, h + i - 1) = Pos(cap, head + (d + i) - 1)
    BY <1>1, <1>2, <1>d, <2>1 DEF Pos, Ring
  <2>3. s[i] = c[d + i]
    BY <1>6
  <2>4. c[d + i] = buf[Pos(cap, head + (d + i) - 1)]
    BY <1>1, <2>1, Zenon
  <2> QED
    BY <1>5, <2>2, <2>3, <2>4, Zenon
<1>8. r = s
  BY <1>5, <1>6, <1>7, SeqSame
<1> QED
  BY <1>3, <1>8 DEF r, s, c, n, h

\* The tail is as far behind the head as the ring holds bytes.
LEMMA TailPlace ==
  ASSUME NEW Bytes, NEW cap, NEW buf, NEW head, NEW tail, Ring(Bytes, cap, buf, head, tail)
  PROVE  tail = Pos(cap, head + RingReadable(cap, head, tail))
BY DEF Ring, RingIndices, RingReadable, Pos

\* Writing m bytes from the tail on, where nothing is held, and moving the tail behind
\* them appends them to what the ring holds.
LEMMA Appended ==
  ASSUME NEW Bytes, NEW cap, NEW buf, NEW head, NEW tail, Ring(Bytes, cap, buf, head, tail),
         NEW bytes \in Seq(Bytes), Len(bytes) <= RingWritable(cap, head, tail),
         NEW new \in [RingIndices(cap) -> Bytes],
         \A i \in 1 .. RingReadable(cap, head, tail) :
           new[Pos(cap, head + i - 1)] = buf[Pos(cap, head + i - 1)],
         \A k \in 1 .. Len(bytes) : new[Pos(cap, tail + k - 1)] = bytes[k]
  PROVE  /\ Ring(Bytes, cap, new, head, RingAdvance(cap, tail, Len(bytes)))
         /\ RingContents(cap, new, head, RingAdvance(cap, tail, Len(bytes)))
              = RingContents(cap, buf, head, tail) \o bytes
<1> DEFINE n == RingReadable(cap, head, tail)
           m == Len(bytes)
           t == RingAdvance(cap, tail, m)
           c == RingContents(cap, buf, head, tail)
           r == RingContents(cap, new, head, t)
           s == c \o bytes
<1>1. /\ n \in 0 .. cap - 1 /\ c \in Seq(Bytes) /\ Len(c) = n
      /\ \A i \in 1 .. n : c[i] = buf[Pos(cap, head + i - 1)]
  BY Contents
<1>2. /\ cap \in Nat /\ cap > 0 /\ head \in 0 .. cap - 1 /\ tail \in 0 .. cap - 1
      /\ m \in Nat /\ m <= cap - 1 - n
  BY <1>1 DEF Ring, RingIndices, RingWritable
<1>3. t = Pos(cap, tail + m)
  <2>1. tail + m \in 0 .. 2 * cap - 1
    BY <1>1, <1>2
  <2> QED
    BY <1>2, <2>1, Masked DEF RingAdvance
<1>4. t \in RingIndices(cap)
  <2> HIDE DEF n, m, t
  <2> QED
    BY <1>1, <1>2, <1>3 DEF RingIndices, Pos
<1>5. Ring(Bytes, cap, new, head, t)
  BY <1>4 DEF Ring
<1>6. tail = Pos(cap, head + n)
  BY TailPlace
<1>7. RingReadable(cap, head, t) = n + m
  <2>1. n = IF tail >= head THEN tail - head ELSE cap - head + tail
    BY DEF RingReadable
  <2> HIDE DEF n, m, t
  <2>2. CASE tail + m < cap
    <3>1. t = tail + m
      BY <1>2, <1>3, <2>2 DEF Pos
    <3> QED
      BY <1>1, <1>2, <2>1, <2>2, <3>1 DEF RingReadable
  <2>3. CASE tail + m >= cap
    <3>1. t = tail + m - cap
      BY <1>2, <1>3, <2>3 DEF Pos
    <3>2. tail >= head
      BY <1>1, <1>2, <2>1, <2>3
    <3>3. n = tail - head
      BY <2>1, <3>2
    <3>4. t < head /\ ~ (t >= head) /\ t \in Nat
      BY <1>2, <2>3, <3>1, <3>3
    <3>5. RingReadable(cap, head, t) = cap - head + t
      BY <1>2, <3>4 DEF RingReadable
    <3> QED
      BY <1>2, <3>1, <3>3, <3>5
  <2> QED
    BY <1>2, <2>2, <2>3
<1>8. /\ r \in Seq(Bytes) /\ Len(r) = n + m
      /\ \A i \in 1 .. n + m : r[i] = new[Pos(cap, head + i - 1)]
  BY <1>5, <1>7, Contents
<1>9. /\ \A i \in 1 .. n : new[Pos(cap, head + i - 1)] = buf[Pos(cap, head + i - 1)]
      /\ \A k \in 1 .. m : new[Pos(cap, tail + k - 1)] = bytes[k]
  OBVIOUS
<1> HIDE DEF n, m, t, c, r
<1>10. /\ s \in Seq(Bytes) /\ Len(s) = n + m
       /\ \A i \in 1 .. n + m : s[i] = IF i <= n THEN c[i] ELSE bytes[i - n]
  BY <1>1, <1>2 DEF m
<1> HIDE DEF s
<1>11. ASSUME NEW i \in 1 .. n + m PROVE r[i] = s[i]
  <2>1. CASE i <= n
    <3>1. i \in 1 .. n
      BY <1>1, <1>2, <2>1
    <3> QED
      BY <1>1, <1>8, <1>9, <1>10, <2>1, <3>1
  <2>2. CASE i > n
    <3>1. i - n \in 1 .. m
      BY <1>1, <1>2, <2>2
    <3>2. Pos(cap, head + i - 1) = Pos(cap, tail + (i - n) - 1)
      BY <1>1, <1>2, <1>6, <3>1 DEF Pos
    <3>3. s[i] = bytes[i - n]
      BY <1>1, <1>10, <2>2
    <3>4. new[Pos(cap, tail + (i - n) - 1)] = bytes[i - n]
      BY <1>9, <3>1
    <3> QED
      BY <1>8, <3>2, <3>3, <3>4
  <2> QED
    BY <1>1, <2>1, <2>2
<1>12. r = s
  BY <1>8, <1>10, <1>11, SeqSame
<1> QED
  BY <1>5, <1>12 DEF r, s, c, m, t

\* read() into the room behind the tail, as much of it as lies before the end of the
\* array, appends what it brings to what the ring holds.
THEOREM ReadAppends ==
  ASSUME NEW Bytes, NEW cap, NEW buf, NEW head, NEW tail, Ring(Bytes, cap, buf, head, tail),
         NEW bytes \in Seq(Bytes), Len(bytes) <= ReadLimit(cap, head, tail)
  PROVE  /\ Ring(Bytes, cap, RingRead(buf, tail, bytes), head, RingAdvance(cap, tail, Len(bytes)))
         /\ RingContents(cap, RingRead(buf, tail, bytes), head, RingAdvance(cap, tail, Len(bytes)))
              = RingContents(cap, buf, head, tail) \o bytes
<1> DEFINE n == RingReadable(cap, head, tail)
           m == Len(bytes)
           new == RingRead(buf, tail, bytes)
<1>1. n \in 0 .. cap - 1
  BY Contents
<1>2. /\ cap \in Nat /\ cap > 0 /\ head \in 0 .. cap - 1 /\ tail \in 0 .. cap - 1
      /\ m \in Nat /\ m <= RingWritable(cap, head, tail) /\ m <= cap - 1 - n /\ tail + m <= cap
  BY <1>1 DEF Ring, RingIndices, RingWritable, ReadLimit, Least
<1>3. /\ buf \in [0 .. cap - 1 -> Bytes]
      /\ new = [j \in 0 .. cap - 1 |-> IF j \in tail .. tail + m - 1 THEN bytes[j - tail + 1]
                                                                     ELSE buf[j]]
  BY DEF Ring, RingIndices, RingRead
<1>4. tail = Pos(cap, head + n)
  BY TailPlace
<1> HIDE DEF n, new
<1>5. new \in [RingIndices(cap) -> Bytes]
  <2>1. ASSUME NEW j \in 0 .. cap - 1, j \in tail .. tail + m - 1
        PROVE  bytes[j - tail + 1] \in Bytes
    <3>1. j - tail + 1 \in 1 .. Len(bytes)
      BY <1>2, <2>1
    <3> QED
      BY <3>1
  <2> QED
    BY <1>3, <2>1 DEF RingIndices
<1>6. ASSUME NEW i \in 1 .. n PROVE new[Pos(cap, head + i - 1)] = buf[Pos(cap, head + i - 1)]
  <2>1. Pos(cap, head + i - 1) \in (0 .. cap - 1) \ (tail .. tail + m - 1)
    BY <1>1, <1>2, <1>4 DEF Pos
  <2> QED
    BY <1>3, <2>1
<1>7. ASSUME NEW k \in 1 .. m PROVE new[Pos(cap, tail + k - 1)] = bytes[k]
  <2>1. Pos(cap, tail + k - 1) = tail + k - 1 /\ tail + k - 1 \in 0 .. cap - 1
    BY <1>2 DEF Pos
  <2>2. tail + k - 1 \in tail .. tail + m - 1 /\ (tail + k - 1) - tail + 1 = k
    BY <1>2
  <2> QED
    BY <1>3, <2>1, <2>2
<1>8. Len(bytes) <= RingWritable(cap, head, tail)
  BY <1>2
<1> QED
  BY <1>5, <1>6, <1>7, <1>8, Appended DEF n, new

\* The loops of gw_send_to_conn, which run past the end of the array into its
\* beginning, append a response to what the ring holds, if there is room for it.
THEOREM PutAppends ==
  ASSUME NEW Bytes, NEW cap, NEW buf, NEW head, NEW tail, Ring(Bytes, cap, buf, head, tail),
         NEW bytes \in Seq(Bytes), Len(bytes) <= RingWritable(cap, head, tail)
  PROVE  /\ Ring(Bytes, cap, RingPut(cap, buf, tail, bytes), head,
                 RingAdvance(cap, tail, Len(bytes)))
         /\ RingContents(cap, RingPut(cap, buf, tail, bytes), head,
                         RingAdvance(cap, tail, Len(bytes)))
              = RingContents(cap, buf, head, tail) \o bytes
<1> DEFINE n == RingReadable(cap, head, tail)
           m == Len(bytes)
           new == RingPut(cap, buf, tail, bytes)
           At(j) == Pos(cap, j + cap - tail)
<1>1. n \in 0 .. cap - 1
  BY Contents
<1>2. /\ cap \in Nat /\ cap > 0 /\ head \in 0 .. cap - 1 /\ tail \in 0 .. cap - 1
      /\ m \in Nat /\ m <= cap - 1 - n
  BY <1>1 DEF Ring, RingIndices, RingWritable
<1>3. /\ buf \in [0 .. cap - 1 -> Bytes]
      /\ new = [j \in 0 .. cap - 1 |-> IF (j + cap - tail) % cap < m
                                         THEN bytes[((j + cap - tail) % cap) + 1] ELSE buf[j]]
  BY DEF Ring, RingIndices, RingPut
<1>4. tail = Pos(cap, head + n)
  BY TailPlace
<1> HIDE DEF n, new
<1>5. ASSUME NEW j \in 0 .. cap - 1
      PROVE  /\ (j + cap - tail) % cap = At(j)
             /\ new[j] = IF At(j) < m THEN bytes[At(j) + 1] ELSE buf[j]
             /\ At(j) \in 0 .. cap - 1
  <2>1. j + cap - tail \in 0 .. 2 * cap - 1
    BY <1>2
  <2>2. (j + cap - tail) % cap = At(j)
    BY <1>2, <2>1, Masked
  <2>3. At(j) \in 0 .. cap - 1
    BY <1>2 DEF Pos
  <2> HIDE DEF At
  <2> QED
    BY <1>3, <2>2, <2>3
<1>6. new \in [RingIndices(cap) -> Bytes]
  <2>1. ASSUME NEW j \in 0 .. cap - 1 PROVE new[j] \in Bytes
    <3> HIDE DEF At
    <3>1. CASE At(j) < m
      <4>1. At(j) + 1 \in 1 .. Len(bytes)
        <5>1. At(j) \in 0 .. cap - 1
          BY <1>5, Zenon
        <5> QED
          BY <1>2, <3>1, <5>1
      <4>2. bytes[At(j) + 1] \in Bytes
        BY <4>1
      <4> QED
        BY <1>5, <3>1, <4>2
    <3>2. CASE ~ (At(j) < m)
      BY <1>3, <1>5, <3>2
    <3> QED
      BY <3>1, <3>2
  <2>2. new = [j \in 0 .. cap - 1 |-> new[j]]
    BY <1>3
  <2> QED
    BY <2>1, <2>2 DEF RingIndices
<1>7. ASSUME NEW i \in 1 .. n PROVE new[Pos(cap, head + i - 1)] = buf[Pos(cap, head + i - 1)]
  <2> DEFINE j == Pos(cap, head + i - 1)
  <2>1. j \in 0 .. cap - 1 /\ ~ (At(j) < m)
    BY <1>1, <1>2, <1>4 DEF Pos
  <2> HIDE DEF j, At
  <2>2. new[j] = buf[j]
    BY <1>5, <2>1
  <2> QED
    BY <2>2 DEF j
<1>8. ASSUME NEW k \in 1 .. m PROVE new[Pos(cap, tail + k - 1)] = bytes[k]
  <2> DEFINE j == Pos(cap, tail + k - 1)
  <2>1. j \in 0 .. cap - 1 /\ At(j) = k - 1
    BY <1>1, <1>2 DEF Pos
  <2>2. k - 1 < m /\ (k - 1) + 1 = k
    BY <1>2
  <2> HIDE DEF j, At
  <2>3. new[j] = bytes[k]
    BY <1>5, <2>1, <2>2
  <2> QED
    BY <2>3 DEF j
<1> QED
  BY <1>6, <1>7, <1>8, Appended DEF n, new

\* gw_ring_peek copies len bytes from off on, whether or not they wrap.
THEOREM PeekReads ==
  ASSUME NEW Bytes, NEW cap, NEW buf, NEW head, NEW tail, Ring(Bytes, cap, buf, head, tail),
         NEW off \in Nat, NEW len \in Nat, off + len <= RingReadable(cap, head, tail)
  PROVE  RingPeek(cap, buf, head, off, len)
           = SubSeq(RingContents(cap, buf, head, tail), off + 1, off + len)
<1> DEFINE n == RingReadable(cap, head, tail)
           c == RingContents(cap, buf, head, tail)
           p == RingPeek(cap, buf, head, off, len)
           s == SubSeq(c, off + 1, off + len)
           pos == (head + off) % cap
<1>1. /\ n \in 0 .. cap - 1 /\ c \in Seq(Bytes) /\ Len(c) = n
      /\ \A i \in 1 .. n : c[i] = buf[Pos(cap, head + i - 1)]
  BY Contents
<1>2. /\ cap \in Nat /\ cap > 0 /\ head \in 0 .. cap - 1 /\ off + len <= n
      /\ buf \in [0 .. cap - 1 -> Bytes]
  BY <1>1 DEF Ring, RingIndices
<1>3. pos = Pos(cap, head + off) /\ pos \in 0 .. cap - 1
  <2>1. head + off \in 0 .. 2 * cap - 1
    BY <1>1, <1>2
  <2>2. pos = Pos(cap, head + off)
    BY <1>2, <2>1, Masked
  <2> HIDE DEF pos
  <2> QED
    BY <1>1, <1>2, <2>1, <2>2 DEF Pos
<1>4. p = [i \in 1 .. len |-> IF i <= cap - pos THEN buf[pos + i - 1] ELSE buf[i - (cap - pos) - 1]]
  BY DEF RingPeek
<1> HIDE DEF n, c, p, pos
<1>5. /\ s \in Seq(Bytes) /\ Len(s) = len
      /\ \A i \in 1 .. len : s[i] = c[off + i]
  BY <1>1, <1>2
<1> HIDE DEF s
<1>6. ASSUME NEW i \in 1 .. len
      PROVE  p[i] = s[i] /\ p[i] \in Bytes
  <2>1. off + i \in 1 .. n
    BY <1>1, <1>2
  <2>2. p[i] = buf[IF i <= cap - pos THEN pos + i - 1 ELSE i - (cap - pos) - 1]
    BY <1>4
  <2>3. (IF i <= cap - pos THEN pos + i - 1 ELSE i - (cap - pos) - 1)
          = Pos(cap, head + (off + i) - 1)
    BY <1>1, <1>2, <1>3 DEF Pos
  <2>4. Pos(cap, head + (off + i) - 1) \in 0 .. cap - 1
    BY <1>1, <1>2, <2>1 DEF Pos
  <2>5. c[off + i] = buf[Pos(cap, head + (off + i) - 1)]
    BY <1>1, <2>1
  <2> QED
    BY <1>2, <1>5, <2>2, <2>3, <2>4, <2>5
<1>7. p \in Seq(Bytes) /\ Len(p) = len
  BY <1>4, <1>6
<1>8. p = s
  BY <1>5, <1>6, <1>7, SeqSame
<1> QED
  BY <1>8 DEF p, s, c

\* What send() takes from the array, up to its end, is the oldest of what the ring holds.
THEOREM SendsOldest ==
  ASSUME NEW Bytes, NEW cap, NEW buf, NEW head, NEW tail, Ring(Bytes, cap, buf, head, tail),
         NEW n \in Nat, n <= SendLimit(cap, head, tail)
  PROVE  RingSent(buf, head, n) = SubSeq(RingContents(cap, buf, head, tail), 1, n)
<1> DEFINE c == RingContents(cap, buf, head, tail)
           p == RingSent(buf, head, n)
           s == SubSeq(c, 1, n)
           a == RingReadable(cap, head, tail)
<1>1. /\ a \in 0 .. cap - 1 /\ c \in Seq(Bytes) /\ Len(c) = a
      /\ \A i \in 1 .. a : c[i] = buf[Pos(cap, head + i - 1)]
  BY Contents
<1>2. /\ cap \in Nat /\ cap > 0 /\ head \in 0 .. cap - 1 /\ n <= a /\ head + n <= cap
      /\ buf \in [0 .. cap - 1 -> Bytes]
  BY <1>1 DEF Ring, RingIndices, SendLimit, Least
<1>3. p = [i \in 1 .. n |-> buf[head + i - 1]]
  BY DEF RingSent
<1> HIDE DEF a, c, p
<1>4. s \in Seq(Bytes) /\ Len(s) = n /\ \A i \in 1 .. n : s[i] = c[i]
  BY <1>1, <1>2
<1> HIDE DEF s
<1>5. ASSUME NEW i \in 1 .. n PROVE p[i] = s[i] /\ p[i] \in Bytes
  <2>1. i \in 1 .. a /\ head + i - 1 \in 0 .. cap - 1 /\ Pos(cap, head + i - 1) = head + i - 1
    BY <1>1, <1>2 DEF Pos
  <2> QED
    BY <1>1, <1>2, <1>3, <1>4, <2>1
<1>6. p \in Seq(Bytes) /\ Len(p) = n
  BY <1>3, <1>5
<1>7. p = s
  BY <1>4, <1>5, <1>6, SeqSame
<1> QED
  BY <1>7 DEF p, s, c
===============================================================================
