----------------------------- MODULE GatewayProofs -----------------------------
(***************************************************************************)
(* The gateway thread, for any number of clients, slots and frames, every  *)
(* ring, response and socket size, and every way the reads cut the         *)
(* streams.                                                                *)
(***************************************************************************)
EXTENDS Gateway, SequenceFacts, TLAPS

USE DEF kernel, ctx, clients, queues

\* What the proofs use of the theory of finite sets; SlotFacts is proved below, where that
\* theory is brought in.
SlotFacts == /\ Cardinality({}) = 0
             /\ \A A \in SUBSET Slots : A # {} => \E s \in A : \A t \in A : s <= t
             /\ \A A \in SUBSET Slots, s \in Slots :
                  /\ s \notin A => Cardinality(A \cup {s}) = Cardinality(A) + 1
                  /\ s \in A => Cardinality(A \ {s}) = Cardinality(A) - 1

\* A sequence cut in two.
LEMMA Cut ==
  ASSUME NEW T, NEW q \in Seq(T), NEW n \in 0 .. Len(q)
  PROVE  /\ SubSeq(q, 1, n) \in Seq(T) /\ Len(SubSeq(q, 1, n)) = n
         /\ SubSeq(q, n + 1, Len(q)) \in Seq(T) /\ Len(SubSeq(q, n + 1, Len(q))) = Len(q) - n
         /\ \A i \in 1 .. n : SubSeq(q, 1, n)[i] = q[i]
         /\ \A i \in 1 .. Len(q) - n : SubSeq(q, n + 1, Len(q))[i] = q[n + i]
         /\ SubSeq(q, 1, n) \o SubSeq(q, n + 1, Len(q)) = q
<1>1. Len(q) \in Nat /\ \A i \in 1 .. Len(q) : q[i] \in T
  BY SeqLen, SeqElement, Zenon
<1>2. SubSeq(q, 1, n) \in Seq(T) /\ Len(SubSeq(q, 1, n)) = n /\ \A i \in 1 .. n : SubSeq(q, 1, n)[i] = q[i]
  BY <1>1, SeqPart
<1>3. /\ SubSeq(q, n + 1, Len(q)) \in Seq(T) /\ Len(SubSeq(q, n + 1, Len(q))) = Len(q) - n
      /\ \A i \in 1 .. Len(q) - n : SubSeq(q, n + 1, Len(q))[i] = q[n + i]
  BY <1>1, SeqPart
<1>4. SubSeq(q, 1, n) \o SubSeq(q, n + 1, Len(q)) = q
  <2> DEFINE a == SubSeq(q, 1, n)
             b == SubSeq(q, n + 1, Len(q))
  <2> HIDE DEF a, b
  <2>1. /\ a \in Seq(T) /\ Len(a) = n /\ \A i \in 1 .. n : a[i] = q[i]
        /\ b \in Seq(T) /\ Len(b) = Len(q) - n /\ \A i \in 1 .. Len(q) - n : b[i] = q[n + i]
    BY <1>2, <1>3, Zenon DEF a, b
  <2>2. Len(a) + Len(b) = Len(q)
    BY <1>1, <2>1
  <2>3. /\ a \o b \in Seq(T) /\ Len(a \o b) = Len(a) + Len(b)
        /\ \A i \in 1 .. Len(a) + Len(b) : (a \o b)[i] = IF i <= Len(a) THEN a[i] ELSE b[i - Len(a)]
    BY <2>1, SeqConcat
  <2>4. \A i \in 1 .. Len(q) : (a \o b)[i] = q[i]
    BY <1>1, <2>1, <2>2, <2>3
  <2>5. a \o b = q
    BY <2>2, <2>3, <2>4, SeqSame, Zenon
  <2> QED BY <2>5, Zenon DEF a, b
<1> QED BY <1>2, <1>3, <1>4, Zenon

\* Cells, and cells of responses, one behind the other.
LEMMA Associates ==
  /\ \A a, b, c \in Seq(Cells) : (a \o b) \o c = a \o (b \o c)
  /\ \A a, b, c \in Seq(RespCell) : (a \o b) \o c = a \o (b \o c)
<1>1. ASSUME NEW a \in Seq(Cells), NEW b \in Seq(Cells), NEW c \in Seq(Cells) PROVE (a \o b) \o c = a \o (b \o c)
  BY SeqAssociates
<1>2. ASSUME NEW a \in Seq(RespCell), NEW b \in Seq(RespCell), NEW c \in Seq(RespCell) PROVE (a \o b) \o c = a \o (b \o c)
  BY SeqAssociates
<1> QED BY <1>1, <1>2, Zenon

\* The events of one epoll_wait: on connections of their own, and on the way through
\* the array the one being handled is none of those to come.
EventsOwn == /\ \A e \in events : e.ptr # 0 => slot[e.ptr].fd = e.conn /\ e.conn # NoConn
             /\ \A e, f \in events : e.ptr = f.ptr => e = f
             /\ gpc \in {"read", "process", "finish"} =>
                  /\ cur.ptr # 0 /\ slot[cur.ptr].fd = cur.conn /\ cur.conn # NoConn
                  /\ \A e \in events : e.ptr # cur.ptr
             /\ gpc \in {"top", "drain", "wait", "exited", "stopped"} => events = {}

\* What a slot holds, and a socket
SlotOK(x, t) == /\ x \in SlotTypes /\ Len(x.recv) < RecvCap /\ Len(x.send) < SendCap
                /\ x.count <= RateLimit /\ x.start <= t
SockOK(k) == k \in SockTypes /\ Len(k.out) <= SndBuf

\* The rest of the types
RestOK == /\ gpc \in {"top", "drain", "wait", "events", "accept", "read", "process",
                      "finish", "exited", "stopped"}
          /\ running \in BOOLEAN /\ now \in Nat /\ active \in Int /\ received \in Nat
          /\ idem \in [0 .. IdemSlots - 1 -> Nat] /\ events \subseteq Events /\ cur \in Events
          /\ backlog \in Seq(Conns) /\ ledge \in BOOLEAN
          /\ outq \in Seq(OrderIds) /\ respq \in Seq(OrderIds) /\ fwd \in Seq(OrderIds)
          /\ script \in [Conns -> Scripts] /\ upcoming \in [Conns -> Cells]
          /\ handled \in [Conns -> Nat]

IsFun(f, D) == f = [x \in D |-> f[x]]

\* The type invariant, by its parts.
LEMMA TypesAre ==
  TypeOK <=> /\ RestOK
             /\ IsFun(slot, Slots) /\ \A s \in Slots : SlotOK(slot[s], now)
             /\ IsFun(sock, Conns) /\ \A c \in Conns : SockOK(sock[c])
BY Zenon DEF TypeOK, RestOK, IsFun, SlotOK, SockOK

\* The same, after a step.
LEMMA TypesNext ==
  TypeOK' <=> /\ RestOK'
              /\ IsFun(slot', Slots) /\ \A s \in Slots : SlotOK(slot'[s], now')
              /\ IsFun(sock', Conns) /\ \A c \in Conns : SockOK(sock'[c])
BY Zenon DEF TypeOK, RestOK, IsFun, SlotOK, SockOK

\* The constants.
LEMMA Sizes ==
  /\ NSlots \in Nat \ {0} /\ RecvCap \in Nat \ {0} /\ SendCap \in Nat \ {0}
  /\ RespCells \in Nat \ {0} /\ SndBuf \in Nat \ {0} /\ NoConn \notin Conns
  /\ RateLimit \in Nat /\ Second \in Nat /\ IdemSlots \in Nat \ {0}
  /\ \A f \in Scripts : f \in Seq(Frames)
BY GatewayAssumption, RulesAssumption, Zenon

\* The frames of a client.
LEMMA ScriptType ==
  ASSUME TypeOK, NEW c \in Conns
  PROVE  /\ Len(script[c]) \in Nat
         /\ \A k \in 1 .. Len(script[c]) : script[c][k] \in Frames /\ script[c][k].len \in Nat \ {0}
<1>1. script[c] \in Seq(Frames)
  BY Sizes, Zenon DEF TypeOK
<1>2. Len(script[c]) \in Nat /\ \A k \in 1 .. Len(script[c]) : script[c][k] \in Frames
  BY <1>1, SeqLen, SeqElement, Zenon
<1> QED BY <1>2, Zenon DEF Frames

\* One socket has changed, or one slot.
LEMMA OneSock ==
  ASSUME NEW c \in Conns, NEW k, IsFun(sock, Conns), \A d \in Conns : SockOK(sock[d]),
         sock' = [sock EXCEPT ![c] = k], SockOK(k)
  PROVE  IsFun(sock', Conns) /\ \A d \in Conns : SockOK(sock'[d])
BY Zenon DEF IsFun

\* The same when one connection slot changes.
LEMMA OneOfSlots ==
  ASSUME NEW s \in Slots, NEW x, IsFun(slot, Slots), \A u \in Slots : SlotOK(slot[u], now),
         slot' = [slot EXCEPT ![s] = x], SlotOK(x, now), now' = now
  PROVE  IsFun(slot', Slots) /\ \A u \in Slots : SlotOK(slot'[u], now')
BY Zenon DEF IsFun

\* The steps of the clients keep the types.
LEMMA ClientTypes ==
  ASSUME TypeOK, NEW c \in Conns, Connect(c) \/ Send(c) \/ Fin(c) \/ Reset(c) \/ Receive(c)
  PROVE  TypeOK'
<1>0. /\ RestOK /\ IsFun(slot, Slots) /\ \A s \in Slots : SlotOK(slot[s], now)
      /\ IsFun(sock, Conns) /\ \A d \in Conns : SockOK(sock[d])
  BY TypesAre, Zenon
<1>1. CASE Connect(c)
  <2>1. RestOK'
    BY <1>0, <1>1, SeqAppend, Zenon DEF Connect, RestOK
  <2>2. IsFun(sock', Conns) /\ \A d \in Conns : SockOK(sock'[d])
    <3>1. sock' = [sock EXCEPT ![c] = [sock[c] EXCEPT !.st = "queued"]]
      BY <1>1, Zenon DEF Connect
    <3>2. SockOK([sock[c] EXCEPT !.st = "queued"])
      BY <1>0, Zenon DEF SockOK, SockTypes
    <3> QED BY <1>0, <3>1, <3>2, OneSock, Zenon
  <2> QED BY <1>0, <1>1, <2>1, <2>2, TypesNext, Zenon DEF Connect
<1>2. CASE Send(c)
  <2>1. upcoming[c] \in Cells /\ upcoming[c][2] \in Nat /\ upcoming[c][3] \in Nat
    BY <1>0, Zenon DEF RestOK, Cells
  <2>2. Following(script[c], c, upcoming[c][2], upcoming[c][3]) \in Cells
    BY <2>1 DEF Following, Cells
  <2>3. RestOK'
    BY <1>0, <1>2, <2>2, Zenon DEF Send, RestOK
  <2>4. Append(sock[c].inq, upcoming[c]) \in Seq(Cells)
    BY <1>0, <2>1, SeqAppend, Zenon DEF SockOK, SockTypes
  <2>5. IsFun(sock', Conns) /\ \A d \in Conns : SockOK(sock'[d])
    <3> DEFINE k == [sock[c] EXCEPT !.inq = Append(sock[c].inq, upcoming[c]), !.edge = (sock[c].st = "open")]
    <3>1. sock' = [sock EXCEPT ![c] = k]
      BY <1>2, Zenon DEF Send
    <3>2. SockOK(k)
      BY <1>0, <2>4, Zenon DEF SockOK, SockTypes
    <3> QED BY <1>0, <3>1, <3>2, OneSock, Zenon
  <2> QED BY <1>0, <1>2, <2>3, <2>5, TypesNext, Zenon DEF Send
<1>3. CASE Fin(c)
  <2>1. RestOK'
    BY <1>0, <1>3, Zenon DEF Fin, RestOK
  <2>2. IsFun(sock', Conns) /\ \A d \in Conns : SockOK(sock'[d])
    <3> DEFINE k == [sock[c] EXCEPT !.eof = TRUE, !.edge = (sock[c].st = "open")]
    <3>1. sock' = [sock EXCEPT ![c] = k]
      BY <1>3, Zenon DEF Fin
    <3>2. SockOK(k)
      BY <1>0, Zenon DEF SockOK, SockTypes
    <3> QED BY <1>0, <3>1, <3>2, OneSock, Zenon
  <2> QED BY <1>0, <1>3, <2>1, <2>2, TypesNext, Zenon DEF Fin
<1>4. CASE Reset(c)
  <2>1. RestOK'
    BY <1>0, <1>4, Zenon DEF Reset, RestOK
  <2>2. << >> \in Seq(Cells) /\ << >> \in Seq(RespCell) /\ Len(<< >>) = 0
    BY SeqEmpty, Zenon
  <2>3. IsFun(sock', Conns) /\ \A d \in Conns : SockOK(sock'[d])
    <3> DEFINE k == [sock[c] EXCEPT !.rst = TRUE, !.inq = << >>, !.out = << >>, !.edge = (sock[c].st = "open")]
    <3>1. sock' = [sock EXCEPT ![c] = k]
      BY <1>4, Zenon DEF Reset
    <3>2. k \in SockTypes /\ k.out = << >>
      BY <1>0, <2>2, Zenon DEF SockOK, SockTypes
    <3> HIDE DEF k
    <3>3. SockOK(k)
      BY <2>2, <3>2, Sizes DEF SockOK
    <3> QED BY <1>0, <3>1, <3>3, OneSock, Zenon
  <2> QED BY <1>0, <1>4, <2>1, <2>3, TypesNext, Zenon DEF Reset
<1>5. CASE Receive(c)
  <2>1. RestOK'
    BY <1>0, <1>5, Zenon DEF Receive, RestOK
  <2>2. << >> \in Seq(RespCell) /\ Len(<< >>) = 0 /\ sock[c].got \o sock[c].out \in Seq(RespCell)
    BY <1>0, SeqEmpty, SeqConcat, Zenon DEF SockOK, SockTypes
  <2>3. IsFun(sock', Conns) /\ \A d \in Conns : SockOK(sock'[d])
    <3> DEFINE e == sock[c].edge \/ (sock[c].armed /\ Len(sock[c].out) = SndBuf)
               k == [sock[c] EXCEPT !.out = << >>, !.got = sock[c].got \o sock[c].out, !.edge = e]
    <3>1. sock' = [sock EXCEPT ![c] = k]
      BY <1>5, Zenon DEF Receive
    <3>2. e \in BOOLEAN
      BY <1>0, Zenon DEF SockOK, SockTypes
    <3> HIDE DEF e
    <3>3. k \in SockTypes /\ k.out = << >>
      BY <1>0, <2>2, <3>2, Zenon DEF SockOK, SockTypes
    <3> HIDE DEF k
    <3>4. SockOK(k)
      BY <2>2, <3>3, Sizes DEF SockOK
    <3> QED BY <1>0, <3>1, <3>4, OneSock, Zenon
  <2> QED BY <1>0, <1>5, <2>1, <2>3, TypesNext, Zenon DEF Receive
<1> QED BY <1>1, <1>2, <1>3, <1>4, <1>5, Zenon

\* The steps that touch neither slots nor sockets keep the types.
LEMMA PlainTypes ==
  ASSUME TypeOK,
         \/ Respond \/ Top \/ Drained \/ WaitFails \/ AcceptDone \/ ReadAgain \/ ProcessDone \/ StopBegin
         \/ UNCHANGED vars
  PROVE  TypeOK'
<1>0. /\ RestOK /\ IsFun(slot, Slots) /\ \A s \in Slots : SlotOK(slot[s], now)
      /\ IsFun(sock, Conns) /\ \A d \in Conns : SockOK(sock[d])
  BY TypesAre, Zenon
<1>1. UNCHANGED <<slot, sock, now>>
  BY Zenon DEF Respond, Top, Drained, WaitFails, AcceptDone, ReadAgain, ProcessDone, StopBegin, vars
<1>2. RestOK'
  <2>1. CASE Respond
    <3>1. Head(outq) \in OrderIds /\ Tail(outq) \in Seq(OrderIds)
      BY <1>0, <2>1, SeqTail, Zenon DEF RestOK, Respond
    <3>2. Append(respq, Head(outq)) \in Seq(OrderIds)
      BY <1>0, <3>1, SeqAppend, Zenon DEF RestOK
    <3> QED BY <1>0, <2>1, <3>1, <3>2, Zenon DEF RestOK, Respond
  <2>2. CASE Top \/ Drained \/ WaitFails \/ AcceptDone \/ ReadAgain \/ ProcessDone \/ StopBegin
    BY <1>0, <2>2, Zenon DEF RestOK, Top, Drained, WaitFails, AcceptDone, ReadAgain, ProcessDone, StopBegin
  <2>3. CASE UNCHANGED vars
    BY <1>0, <2>3, Zenon DEF RestOK, vars
  <2> QED BY <2>1, <2>2, <2>3, Zenon
<1> QED BY <1>0, <1>1, <1>2, TypesNext, Zenon

\* The clock and the idle timer.
LEMMA ClockTypes ==
  ASSUME TypeOK, Tick \/ \E s \in Slots : Quiet(s)
  PROVE  TypeOK'
<1>0. /\ RestOK /\ IsFun(slot, Slots) /\ \A s \in Slots : SlotOK(slot[s], now)
      /\ IsFun(sock, Conns) /\ \A d \in Conns : SockOK(sock[d])
  BY TypesAre, Zenon
<1>1. CASE Tick
  <2>1. RestOK' /\ now' = now + 1 /\ now \in Nat /\ UNCHANGED <<slot, sock>>
    BY <1>0, <1>1 DEF RestOK, Tick
  <2>2. \A s \in Slots : SlotOK(slot[s], now')
    BY <1>0, <2>1 DEF SlotOK, SlotTypes
  <2> QED BY <1>0, <2>1, <2>2, TypesNext, Zenon
<1>2. ASSUME NEW s \in Slots, Quiet(s) PROVE TypeOK'
  <2>1. RestOK' /\ UNCHANGED <<now, sock>> /\ slot' = [slot EXCEPT ![s] = [slot[s] EXCEPT !.idle = TRUE]]
    BY <1>0, <1>2, Zenon DEF RestOK, Quiet
  <2>2. SlotOK([slot[s] EXCEPT !.idle = TRUE], now)
    BY <1>0, Zenon DEF SlotOK, SlotTypes
  <2> QED BY <1>0, <2>1, <2>2, OneOfSlots, TypesNext, Zenon
<1> QED BY <1>1, <1>2, Zenon

\* The slot of the event being handled.
LEMMA CurSlot ==
  ASSUME TypeOK, EventsOwn, gpc \in {"read", "process", "finish"}
  PROVE  S \in Slots /\ Sl.fd = cur.conn /\ Sl.fd \in Conns /\ Sl.fd # NoConn /\ Sl = slot[S]
BY Sizes DEF TypeOK, EventsOwn, S, Sl, Events, Slots

\* The steps of the loop that mark slots, take events and fill the send rings.
LEMMA LoopTypes ==
  ASSUME TypeOK, EventsOwn, Drain \/ Wait \/ Dispatch \/ Scan \/ ReadEnd \/ ProcessBad
  PROVE  TypeOK'
<1>0. /\ RestOK /\ IsFun(slot, Slots) /\ \A s \in Slots : SlotOK(slot[s], now)
      /\ IsFun(sock, Conns) /\ \A d \in Conns : SockOK(sock[d])
  BY TypesAre, Zenon
<1>a. \A s \in Slots : SlotOK([slot[s] EXCEPT !.closing = TRUE], now)
  BY <1>0, Zenon DEF SlotOK, SlotTypes
<1>1. CASE Drain
  <2>1. Head(respq) \in OrderIds /\ Tail(respq) \in Seq(OrderIds)
    BY <1>0, <1>1, SeqTail, Zenon DEF RestOK, Drain
  <2>2. RestOK' /\ UNCHANGED <<now, sock>>
    BY <1>0, <1>1, <2>1, Zenon DEF RestOK, Drain
  <2> DEFINE resp == [i \in 1 .. RespCells |-> <<Head(respq), i>>]
  <2>3. resp \in Seq(RespCell) /\ Len(resp) = RespCells
    <3>1. RespCells \in Nat /\ \A i \in 1 .. RespCells : i \in Nat
      BY Sizes
    <3>2. \A i \in 1 .. RespCells : resp[i] \in RespCell
      BY <2>1, <3>1, Zenon DEF RespCell
    <3>3. resp \in [1 .. RespCells -> RespCell]
      BY <3>2, Zenon
    <3> HIDE DEF resp
    <3> QED BY <3>1, <3>3
  <2> HIDE DEF resp
  <2>4. \A s \in Slots : Room(slot[s]) => SlotOK([slot[s] EXCEPT !.send = slot[s].send \o resp], now)
    <3> SUFFICES ASSUME NEW s \in Slots, Room(slot[s])
                 PROVE  SlotOK([slot[s] EXCEPT !.send = slot[s].send \o resp], now)
      BY Zenon
    <3>1. slot[s].send \in Seq(RespCell) /\ Len(slot[s].send) \in Nat
      BY <1>0, SeqLen, Zenon DEF SlotOK, SlotTypes
    <3>2. slot[s].send \o resp \in Seq(RespCell) /\ Len(slot[s].send \o resp) = Len(slot[s].send) + RespCells
      BY <2>3, <3>1, SeqConcat, Zenon
    <3>3. Len(slot[s].send) + RespCells < SendCap
      BY <3>1, Sizes DEF Room, Space, RingWritable, RingReadable
    <3> DEFINE x == [slot[s] EXCEPT !.send = slot[s].send \o resp]
    <3>4. x \in SlotTypes /\ x.send = slot[s].send \o resp /\ x.recv = slot[s].recv
          /\ x.count = slot[s].count /\ x.start = slot[s].start
      BY <1>0, <3>2, Zenon DEF SlotOK, SlotTypes
    <3> HIDE DEF x
    <3>5. SlotOK(x, now)
      BY <1>0, <3>2, <3>3, <3>4, Zenon DEF SlotOK
    <3> QED BY <3>5, Zenon DEF x
  <2>5. slot' = [s \in Slots |-> IF Wants(slot[s]) /\ Room(slot[s])
                                 THEN [slot[s] EXCEPT !.send = slot[s].send \o resp] ELSE slot[s]]
    BY <1>1, Zenon DEF Drain, resp
  <2>6. IsFun(slot', Slots) /\ \A s \in Slots : SlotOK(slot'[s], now)
    BY <1>0, <2>4, <2>5, Zenon DEF IsFun
  <2> QED BY <1>0, <2>2, <2>6, TypesNext, Zenon
<1>2. CASE Wait
  <2>1. /\ sock' = [c \in Conns |-> [sock[c] EXCEPT !.edge = FALSE]] /\ UNCHANGED <<slot, now>>
    BY <1>2, Zenon DEF Wait
  <2>2. IsFun(sock', Conns) /\ \A d \in Conns : SockOK(sock'[d])
    <3>1. \A d \in Conns : SockOK([sock[d] EXCEPT !.edge = FALSE])
      BY <1>0, Zenon DEF SockOK, SockTypes
    <3> QED BY <2>1, <3>1, Zenon DEF IsFun
  <2>3. events' \subseteq Events
    <3>1. \A s \in Slots : slot[s].fd # NoConn => slot[s].fd \in Conns
      BY <1>0, Zenon DEF SlotOK, SlotTypes
    <3>2. \A c \in Conns : Readable(sock[c]) \in BOOLEAN /\ Writable(sock[c]) \in BOOLEAN /\ sock[c].rst \in BOOLEAN
      BY <1>0, Zenon DEF SockOK, SockTypes, Readable, Writable
    <3>3. \A s \in Slots : slot[s].fd # NoConn =>
            [ptr |-> s, conn |-> slot[s].fd, in |-> Readable(sock[slot[s].fd]),
             out |-> Writable(sock[slot[s].fd]), hup |-> sock[slot[s].fd].rst] \in Events
      BY <3>1, <3>2, Sizes DEF Events, Slots
    <3>4. [NoEvent EXCEPT !.in = TRUE] \in Events
      <4>1. NoEvent \in Events
        <5>1. 0 \in 0 .. NSlots
          BY Sizes
        <5> QED BY <5>1, Zenon DEF Events, NoEvent
      <4>2. ASSUME NEW e \in Events, NEW b \in BOOLEAN PROVE [e EXCEPT !.in = b] \in Events
        BY Zenon DEF Events
      <4> QED BY <4>1, <4>2, Zenon
    <3> QED BY <1>2, <3>3, <3>4, Zenon DEF Wait
  <2>4. RestOK'
    BY <1>0, <1>2, <2>3, Zenon DEF RestOK, Wait
  <2> QED BY <1>0, <2>1, <2>2, <2>4, TypesNext, Zenon
<1>3. CASE Dispatch
  <2>1. PICK e \in events : /\ cur' = e /\ events' = events \ {e}
                            /\ slot' = IF e.ptr # 0 /\ e.hup THEN [slot EXCEPT ![e.ptr].closing = TRUE] ELSE slot
                            /\ gpc' = IF e.ptr = 0 THEN "accept" ELSE IF e.in THEN "read" ELSE "finish"
    BY <1>3, Zenon DEF Dispatch
  <2>2. RestOK' /\ UNCHANGED <<now, sock>>
    BY <1>0, <1>3, <2>1, Zenon DEF RestOK, Dispatch
  <2>3. e.ptr # 0 => e.ptr \in Slots
    <3>1. e \in Events
      BY <1>0, <2>1, Zenon DEF RestOK
    <3>2. e.ptr \in 0 .. NSlots
      BY <3>1, Zenon DEF Events
    <3> QED BY <3>2, Sizes DEF Slots
  <2>4. CASE e.ptr # 0 /\ e.hup
    <3>1. slot' = [slot EXCEPT ![e.ptr] = [slot[e.ptr] EXCEPT !.closing = TRUE]]
      BY <2>1, <2>4, Zenon
    <3> QED BY <1>0, <1>a, <2>2, <2>3, <2>4, <3>1, OneOfSlots, TypesNext, Zenon
  <2>5. CASE ~(e.ptr # 0 /\ e.hup)
    BY <1>0, <2>1, <2>2, <2>5, TypesNext, Zenon
  <2> QED BY <2>4, <2>5, Zenon
<1>4. CASE Scan
  <2>1. RestOK' /\ UNCHANGED <<now, sock>>
    BY <1>0, <1>4, Zenon DEF RestOK, Scan
  <2>2. IsFun(slot', Slots) /\ \A s \in Slots : SlotOK(slot'[s], now)
    BY <1>0, <1>a, <1>4, Zenon DEF Scan, IsFun
  <2> QED BY <1>0, <2>1, <2>2, TypesNext, Zenon
<1>5. CASE ReadEnd \/ ProcessBad
  <2>1. RestOK' /\ UNCHANGED <<now, sock>> /\ slot' = [slot EXCEPT ![S] = [slot[S] EXCEPT !.closing = TRUE]]
    BY <1>0, <1>5, Zenon DEF RestOK, ReadEnd, ProcessBad
  <2>2. gpc \in {"read", "process", "finish"}
    BY <1>5, Zenon DEF ReadEnd, ProcessBad, HasHeader
  <2> QED BY <1>0, <1>a, <2>1, <2>2, CurSlot, OneOfSlots, TypesNext, Zenon
<1> QED BY <1>1, <1>2, <1>3, <1>4, <1>5, Zenon

\* The types of a slot.
LEMMA SlotType ==
  ASSUME TypeOK, NEW s \in Slots
  PROVE  /\ slot[s] \in SlotTypes /\ slot[s].recv \in Seq(Cells) /\ slot[s].send \in Seq(RespCell)
         /\ slot[s].fd \in Conns \cup {NoConn} /\ Len(slot[s].recv) \in Nat /\ Len(slot[s].send) \in Nat
         /\ Len(slot[s].recv) < RecvCap /\ Len(slot[s].send) < SendCap
         /\ slot[s].count \in Nat /\ slot[s].count <= RateLimit /\ slot[s].start \in Nat /\ slot[s].start <= now
<1>1. /\ slot[s] \in SlotTypes /\ Len(slot[s].recv) < RecvCap /\ Len(slot[s].send) < SendCap
      /\ slot[s].count <= RateLimit /\ slot[s].start <= now
  BY Zenon DEF TypeOK
<1>2. /\ slot[s].recv \in Seq(Cells) /\ slot[s].send \in Seq(RespCell)
      /\ slot[s].fd \in Conns \cup {NoConn} /\ slot[s].count \in Nat /\ slot[s].start \in Nat
  BY <1>1, Zenon DEF SlotTypes
<1> QED BY <1>1, <1>2, SeqLen, Zenon

\* The types of a socket.
LEMMA SockType ==
  ASSUME TypeOK, NEW c \in Conns
  PROVE  /\ sock[c] \in SockTypes /\ sock[c].inq \in Seq(Cells)
         /\ sock[c].out \in Seq(RespCell) /\ sock[c].got \in Seq(RespCell)
         /\ Len(sock[c].inq) \in Nat /\ Len(sock[c].out) \in Nat /\ Len(sock[c].got) \in Nat
         /\ Len(sock[c].out) <= SndBuf
         /\ sock[c].rst \in BOOLEAN /\ sock[c].st \in {"none", "queued", "open", "closed"}
<1>1. sock[c] \in SockTypes /\ Len(sock[c].out) <= SndBuf
  BY Zenon DEF TypeOK
<1>2. /\ sock[c].inq \in Seq(Cells)
      /\ sock[c].out \in Seq(RespCell) /\ sock[c].got \in Seq(RespCell)
      /\ sock[c].rst \in BOOLEAN /\ sock[c].st \in {"none", "queued", "open", "closed"}
  BY <1>1, Zenon DEF SockTypes
<1> QED BY <1>1, <1>2, SeqLen, Zenon

\* A run of cells, and a part of it from the beginning.
LEMMA RunPrefix ==
  ASSUME NEW f, NEW c, NEW k, NEW p \in Seq(Cells), NEW q \in Seq(Cells), Run(f, c, k, p \o q)
  PROVE  Run(f, c, k, p)
<1>1. /\ Len(p) \in Nat /\ Len(q) \in Nat /\ Len(p \o q) = Len(p) + Len(q)
      /\ \A i \in 1 .. Len(p) : (p \o q)[i] = p[i]
  BY SeqLen, SeqConcat
<1>2. p # << >> => Len(p) > 0 /\ p \o q # << >>
  BY <1>1, SeqEmpty
<1>3. p # << >> => p[1] = <<c, k, 1>>
  <2> SUFFICES ASSUME p # << >> PROVE p[1] = <<c, k, 1>>
    BY Zenon
  <2>1. 1 \in 1 .. Len(p)
    BY <1>1, <1>2
  <2> QED BY <1>1, <1>2, <2>1, Zenon DEF Run
<1>4. \A j \in 1 .. Len(p) : j \in 1 .. Len(p \o q) /\ \A m \in j .. Len(p) : m \in j .. Len(p \o q) /\ m \in 1 .. Len(p)
  BY <1>1
<1> QED BY <1>1, <1>3, <1>4, Zenon DEF Run

\* The frame that gw_process_data looks at is the next one of the client.
LEMMA NextFrame ==
  ASSUME TypeOK, EventsOwn, StreamIntact, HasHeader
  PROVE  LET c == Sl.fd
         IN  /\ Sl.recv[1] = <<c, handled[c] + 1, 1>> /\ handled[c] + 1 \in 1 .. Len(script[c])
             /\ Frame = script[c][handled[c] + 1] /\ Frame \in Frames /\ Frame.len \in Nat \ {0}
             /\ handled[c] \in Nat
<1> DEFINE c == Sl.fd
<1>1. S \in Slots /\ c \in Conns /\ Sl = slot[S] /\ slot[S].recv # << >> /\ slot[S].fd = c
  BY CurSlot, Zenon DEF HasHeader
<1>2. slot[S].recv \in Seq(Cells) /\ Len(slot[S].recv) \in Nat \ {0} /\ sock[c].inq \in Seq(Cells)
  BY <1>1, SlotType, SockType, SeqEmpty, Zenon
<1>3. handled[c] \in Nat
  BY <1>1, Zenon DEF TypeOK
<1>4. Run(script[c], c, handled[c] + 1, slot[S].recv)
  <2>1. PICK q \in Seq(Cells) : Run(script[c], c, handled[c] + 1, slot[S].recv \o q)
    BY <1>1, <1>2, SeqEmpty, Zenon DEF StreamIntact
  <2> QED BY <1>1, <1>2, <1>3, <2>1, RunPrefix, Zenon
<1>5. Sl.recv[1] = <<c, handled[c] + 1, 1>> /\ handled[c] + 1 \in 1 .. Len(script[c])
  <2>1. 1 \in 1 .. Len(slot[S].recv)
    BY <1>2
  <2>2. slot[S].recv[1] = <<c, handled[c] + 1, 1>> /\ InScript(script[c], c, slot[S].recv[1])
    BY <1>1, <2>1, <1>4, Zenon DEF Run
  <2> QED BY <1>1, <2>2 DEF InScript
<1>6. Frame = script[c][handled[c] + 1]
  BY <1>5 DEF Frame
<1> QED BY <1>1, <1>3, <1>5, <1>6, ScriptType, Zenon

\* What is left in the ring when the frame has been consumed.
LEMMA RestIs ==
  ASSUME TypeOK, EventsOwn, StreamIntact, Complete
  PROVE  /\ Rest \in Seq(Cells) /\ Len(Rest) = Len(Sl.recv) - Frame.len /\ Frame.len <= Len(Sl.recv)
         /\ Len(Rest) < RecvCap /\ Frame.len \in Nat \ {0} /\ ~BadLength
         /\ SubSeq(Sl.recv, 1, Frame.len) \o Rest = Sl.recv
         /\ \A i \in 1 .. Len(Rest) : Rest[i] = Sl.recv[Frame.len + i]
<1>1. S \in Slots /\ Sl = slot[S] /\ HasHeader /\ Len(Sl.recv) >= Frame.len /\ ~BadLength
  BY CurSlot, Zenon DEF Complete, HasHeader
<1>2. Frame.len \in Nat \ {0}
  BY <1>1, NextFrame, Zenon
<1>3. Sl.recv \in Seq(Cells) /\ Len(Sl.recv) \in Nat /\ Len(Sl.recv) < RecvCap
  BY <1>1, SlotType, Zenon
<1>4. Frame.len \in 0 .. Len(Sl.recv)
  BY <1>1, <1>2, <1>3
<1> DEFINE n == Frame.len
           q == Sl.recv
<1> HIDE DEF n, q
<1>5. Rest = SubSeq(q, n + 1, Len(q)) /\ n \in 0 .. Len(q) /\ q \in Seq(Cells)
  BY <1>3, <1>4, Zenon DEF Rest, n, q
<1>6. /\ Rest \in Seq(Cells) /\ Len(Rest) = Len(q) - n /\ SubSeq(q, 1, n) \o Rest = q
      /\ \A i \in 1 .. Len(q) - n : Rest[i] = q[n + i]
  BY <1>5, Cut, Zenon
<1>8. Len(q) \in Nat /\ n \in Nat \ {0} /\ Len(q) < RecvCap
  BY <1>2, <1>3, Zenon DEF n, q
<1>9. Len(Rest) = Len(q) - n /\ Len(Rest) < RecvCap
  BY <1>6, <1>8, Sizes
<1>7. /\ Rest \in Seq(Cells) /\ Len(Rest) = Len(Sl.recv) - Frame.len /\ Len(Rest) < RecvCap
      /\ SubSeq(Sl.recv, 1, Frame.len) \o Rest = Sl.recv
      /\ \A i \in 1 .. Len(Rest) : Rest[i] = Sl.recv[Frame.len + i]
  BY <1>6, <1>9, Zenon DEF n, q
<1> QED BY <1>1, <1>2, <1>7, Zenon

\* What gw_push_order makes of the window and of the ids.
LEMMA AdmitTypes ==
  ASSUME NEW t \in Nat, NEW b \in Nat, b <= t, NEW n \in Nat, n <= RateLimit,
         NEW ids \in [0 .. IdemSlots - 1 -> Nat], NEW id \in Nat
  PROVE  LET a == Admit(t, b, n, ids, id)
         IN  /\ a.start \in Nat /\ a.start <= t /\ a.count \in Nat /\ a.count <= RateLimit
             /\ a.idem \in [0 .. IdemSlots - 1 -> Nat] /\ a.go \in BOOLEAN
<1> DEFINE a == Admit(t, b, n, ids, id)
           over == WindowOver(t, b)
           m == IF over THEN 0 ELSE n
           go == UnderLimit(m) /\ ~Seen(ids, id)
<1>1. m \in Nat /\ m <= RateLimit /\ (UnderLimit(m) => m + 1 <= RateLimit)
  BY Sizes DEF UnderLimit
<1>2. Record(ids, id) \in [0 .. IdemSlots - 1 -> Nat]
  BY Sizes, Zenon DEF Record, IdemSlot
<1>3. /\ a.start = (IF over THEN t ELSE b) /\ a.count = (IF go THEN m + 1 ELSE m)
      /\ a.idem = (IF go THEN Record(ids, id) ELSE ids) /\ a.go = go
  BY Zenon DEF Admit
<1>4. go \in BOOLEAN
  BY Zenon DEF UnderLimit, Seen
<1> HIDE DEF over, a, m
<1> QED BY <1>1, <1>2, <1>3, <1>4 DEF a

\* The frames that are consumed keep the types.
LEMMA FrameTypes ==
  ASSUME TypeOK, EventsOwn, StreamIntact, Auth \/ Skip \/ Order \/ Cancel
  PROVE  TypeOK'
<1>0. /\ RestOK /\ IsFun(slot, Slots) /\ \A s \in Slots : SlotOK(slot[s], now)
      /\ IsFun(sock, Conns) /\ \A d \in Conns : SockOK(sock[d])
  BY TypesAre, Zenon
<1>1. Complete /\ Consumed /\ UNCHANGED <<now, sock>>
  BY Zenon DEF Auth, Skip, Order, Cancel
<1>2. /\ S \in Slots /\ Sl = slot[S] /\ Sl.fd \in Conns /\ Sl.recv[1] = <<Sl.fd, handled[Sl.fd] + 1, 1>>
      /\ handled[Sl.fd] + 1 \in Nat /\ Frame \in Frames
  BY <1>1, CurSlot, NextFrame DEF Complete, HasHeader
<1>3. Rest \in Seq(Cells) /\ Len(Rest) < RecvCap
  BY <1>1, RestIs, Zenon
<1>4. handled' \in [Conns -> Nat]
  BY <1>0, <1>1, <1>2 DEF Consumed, RestOK
<1>5. SlotOK([slot[S] EXCEPT !.recv = Rest], now)
  BY <1>0, <1>2, <1>3, Zenon DEF SlotOK, SlotTypes
<1>6. <<Sl.fd, Sl.recv[1][2]>> \in OrderIds
  BY <1>2 DEF OrderIds
<1>7. ASSUME NEW id \in OrderIds, Queue(id) PROVE outq' \in Seq(OrderIds) /\ fwd' \in Seq(OrderIds)
  <2>1. Append(outq, id) \in Seq(OrderIds) /\ Append(fwd, id) \in Seq(OrderIds)
    BY <1>0, SeqAppend, Zenon DEF RestOK
  <2> QED BY <1>0, <1>7, <2>1, Zenon DEF Queue, RestOK
<1>8. CASE Auth
  <2>1. RestOK'
    BY <1>0, <1>4, <1>8, Zenon DEF RestOK, Auth
  <2> DEFINE x == [slot[S] EXCEPT !.auth = slot[S].auth \/ KeyIsValid, !.recv = Rest]
  <2>2. slot' = [slot EXCEPT ![S] = x]
    BY <1>8, Zenon DEF Auth
  <2>3. (slot[S].auth \/ KeyIsValid) \in BOOLEAN
    BY <1>0, <1>2, Zenon DEF SlotOK, SlotTypes, KeyIsValid
  <2>4. SlotOK(x, now)
    BY <1>0, <1>2, <1>3, <2>3, Zenon DEF SlotOK, SlotTypes
  <2> QED BY <1>0, <1>1, <1>2, <2>1, <2>2, <2>4, OneOfSlots, TypesNext, Zenon
<1>9. CASE Skip
  <2>1. RestOK' /\ slot' = [slot EXCEPT ![S] = [slot[S] EXCEPT !.recv = Rest]]
    BY <1>0, <1>4, <1>9, Zenon DEF RestOK, Skip
  <2> QED BY <1>0, <1>1, <1>2, <1>5, <2>1, OneOfSlots, TypesNext, Zenon
<1>10. CASE Cancel
  <2>1. outq' \in Seq(OrderIds) /\ fwd' \in Seq(OrderIds)
    BY <1>6, <1>7, <1>10, Zenon DEF Cancel
  <2>2. RestOK' /\ slot' = [slot EXCEPT ![S] = [slot[S] EXCEPT !.recv = Rest]]
    BY <1>0, <1>4, <1>10, <2>1, Zenon DEF RestOK, Cancel
  <2> QED BY <1>0, <1>1, <1>2, <1>5, <2>2, OneOfSlots, TypesNext, Zenon
<1>11. CASE Order
  <2> DEFINE a == Admit(now, Sl.start, Sl.count, idem, Frame.id)
  <2>1. /\ slot' = [slot EXCEPT ![S] = [slot[S] EXCEPT !.recv = Rest, !.start = a.start, !.count = a.count]]
        /\ idem' = a.idem /\ received' = (IF a.go THEN received + 1 ELSE received)
        /\ IF a.go THEN Queue(<<Sl.fd, Sl.recv[1][2]>>) ELSE UNCHANGED <<outq, fwd>>
        /\ UNCHANGED <<gpc, running, active, now, events, cur, kernel, respq, clients>>
    BY <1>11, Zenon DEF Order
  <2>2. /\ a.start \in Nat /\ a.start <= now /\ a.count \in Nat /\ a.count <= RateLimit
        /\ a.idem \in [0 .. IdemSlots - 1 -> Nat] /\ a.go \in BOOLEAN
    <3>1. now \in Nat /\ idem \in [0 .. IdemSlots - 1 -> Nat]
      BY <1>0, Zenon DEF RestOK
    <3>2. Sl.start \in Nat /\ Sl.start <= now /\ Sl.count \in Nat /\ Sl.count <= RateLimit
      BY <1>2, SlotType, Zenon
    <3>3. Frame.id \in Nat
      BY <1>2, Zenon DEF Frames
    <3> QED BY <3>1, <3>2, <3>3, AdmitTypes, Zenon
  <2> HIDE DEF a
  <2>3. outq' \in Seq(OrderIds) /\ fwd' \in Seq(OrderIds)
    BY <1>0, <1>6, <1>7, <2>1, Zenon DEF RestOK
  <2>6. received' \in Nat /\ idem' \in [0 .. IdemSlots - 1 -> Nat]
    BY <1>0, <2>1, <2>2 DEF RestOK
  <2>7. UNCHANGED <<gpc, running, active, now, events, cur, backlog, ledge, respq, script, upcoming>>
    BY <2>1, Zenon
  <2>4. RestOK'
    BY <1>0, <1>4, <2>3, <2>6, <2>7, Zenon DEF RestOK
  <2>5. SlotOK([slot[S] EXCEPT !.recv = Rest, !.start = a.start, !.count = a.count], now)
    BY <1>0, <1>2, <1>3, <2>2, Zenon DEF SlotOK, SlotTypes
  <2> QED BY <1>0, <1>1, <1>2, <2>1, <2>4, <2>5, OneOfSlots, TypesNext, Zenon
<1> QED BY <1>8, <1>9, <1>10, <1>11, Zenon

\* gw_accept finds a free slot if there is one.
LEMMA FirstFreeIsFree ==
  ASSUME SlotFacts, Free # {}
  PROVE  FirstFree \in Slots /\ slot[FirstFree].fd = NoConn
<1>1. Free \in SUBSET Slots
  BY Zenon DEF Free
<1>2. \E s \in Free : \A x \in Free : s <= x
  BY <1>1, Zenon DEF SlotFacts
<1>3. FirstFree \in Free
  BY <1>2, Zenon DEF FirstFree
<1> QED BY <1>3, Zenon DEF Free

\* The steps of gw_accept keep the types.
LEMMA AcceptTypes ==
  ASSUME SlotFacts, TypeOK, Accept \/ Refuse
  PROVE  TypeOK'
<1>0. /\ RestOK /\ IsFun(slot, Slots) /\ \A s \in Slots : SlotOK(slot[s], now)
      /\ IsFun(sock, Conns) /\ \A d \in Conns : SockOK(sock[d])
  BY TypesAre, Zenon
<1> DEFINE c == Head(backlog)
<1>1. c \in Conns /\ Tail(backlog) \in Seq(Conns)
  BY <1>0, SeqTail, Zenon DEF RestOK, Accept, Refuse
<1>2. CASE Accept
  <2>a. /\ active' = active + 1 /\ backlog' = Tail(backlog)
        /\ UNCHANGED <<gpc, running, idem, now, received, events, cur, ledge, outq, respq, fwd, script, upcoming,
                       handled>>
    BY <1>2, Zenon DEF Accept
  <2>1. RestOK' /\ now' = now
    BY <1>0, <1>1, <2>a DEF RestOK
  <2>2. slot' = [slot EXCEPT ![FirstFree] = Fresh(c)]
    BY <1>2, Zenon DEF Accept, Reused
  <2>3. FirstFree \in Slots
    BY <1>2, FirstFreeIsFree, Zenon DEF Accept
  <2>4. SlotOK(Fresh(c), now)
    <3>1. << >> \in Seq(Cells) /\ << >> \in Seq(RespCell) /\ Len(<< >>) = 0
      BY SeqEmpty, Zenon
    <3>2. Fresh(c) \in SlotTypes /\ Fresh(c).recv = << >> /\ Fresh(c).send = << >>
          /\ Fresh(c).count = 0 /\ Fresh(c).start = now
      BY <1>0, <1>1, <3>1, Zenon DEF Fresh, SlotTypes, RestOK
    <3>3. now \in Nat
      BY <1>0, Zenon DEF RestOK
    <3> QED BY <3>1, <3>2, <3>3, Sizes DEF SlotOK
  <2> DEFINE e == Readable(sock[c])
             k == [sock[c] EXCEPT !.st = "open", !.edge = e]
  <2>5. sock' = [sock EXCEPT ![c] = k]
    BY <1>2, Zenon DEF Accept
  <2>6. e \in BOOLEAN
    BY <1>0, <1>1, Zenon DEF Readable, SockOK, SockTypes
  <2> HIDE DEF e
  <2>7. SockOK(k)
    BY <1>0, <1>1, <2>6, Zenon DEF SockOK, SockTypes
  <2> HIDE DEF k, c
  <2>8. IsFun(slot', Slots) /\ \A s \in Slots : SlotOK(slot'[s], now')
    BY <1>0, <2>1, <2>2, <2>3, <2>4, OneOfSlots, Zenon
  <2>9. IsFun(sock', Conns) /\ \A d \in Conns : SockOK(sock'[d])
    BY <1>0, <1>1, <2>5, <2>7, OneSock, Zenon
  <2> QED BY <2>1, <2>8, <2>9, TypesNext, Zenon
<1>3. CASE Refuse
  <2>1. RestOK' /\ UNCHANGED <<now, slot>>
    BY <1>0, <1>1, <1>3, Zenon DEF RestOK, Refuse
  <2>2. sock' = [sock EXCEPT ![c] = [sock[c] EXCEPT !.st = "closed"]]
    BY <1>3, Zenon DEF Refuse
  <2>3. SockOK([sock[c] EXCEPT !.st = "closed"])
    BY <1>0, <1>1, Zenon DEF SockOK, SockTypes
  <2>4. IsFun(sock', Conns) /\ \A d \in Conns : SockOK(sock'[d])
    BY <1>0, <1>1, <2>2, <2>3, OneSock, Zenon
  <2> QED BY <1>0, <2>1, <2>4, TypesNext, Zenon
<1> QED BY <1>2, <1>3, Zenon

\* read() moves n cells from the socket to the ring.
LEMMA ReadIs ==
  ASSUME TypeOK, EventsOwn, ReadSome
  PROVE  \E p \in Seq(Cells), r \in Seq(Cells) :
           /\ S \in Slots /\ slot[S].fd \in Conns /\ K = sock[slot[S].fd] /\ ~K.rst
           /\ p \o r = K.inq /\ slot[S].recv \o p \in Seq(Cells)
           /\ slot' = [slot EXCEPT ![S] = [slot[S] EXCEPT !.recv = slot[S].recv \o p, !.idle = FALSE]]
           /\ sock' = [sock EXCEPT ![slot[S].fd] = [sock[slot[S].fd] EXCEPT !.inq = r]]
           /\ SlotOK([slot[S] EXCEPT !.recv = slot[S].recv \o p, !.idle = FALSE], now)
           /\ SockOK([sock[slot[S].fd] EXCEPT !.inq = r])
<1>0. /\ RestOK /\ IsFun(slot, Slots) /\ \A s \in Slots : SlotOK(slot[s], now)
      /\ IsFun(sock, Conns) /\ \A d \in Conns : SockOK(sock[d])
  BY TypesAre, Zenon
<1>1. S \in Slots /\ Sl = slot[S] /\ slot[S].fd \in Conns /\ K = sock[slot[S].fd]
  BY CurSlot, Zenon DEF ReadSome, K
<1> DEFINE q == K.inq
           v == slot[S].recv
<1>2. /\ q \in Seq(Cells) /\ Len(q) \in Nat /\ v \in Seq(Cells) /\ Len(v) \in Nat /\ Len(v) < RecvCap
  BY <1>1, SlotType, SockType, Zenon
<1>3. PICK n \in 1 .. Least(ToRead, Len(q)) :
        /\ slot' = [slot EXCEPT ![S].recv = @ \o SubSeq(q, 1, n), ![S].idle = FALSE]
        /\ sock' = [sock EXCEPT ![Sl.fd].inq = SubSeq(@, n + 1, Len(@))]
  BY Zenon DEF ReadSome
<1> HIDE DEF q, v
<1>4. ToRead = RecvCap - 1 - Len(v) /\ ToRead \in Nat
  BY <1>1, <1>2, Sizes DEF ToRead, Space, RingWritable, RingReadable, v
<1>5. n \in 0 .. Len(q) /\ Len(v) + n < RecvCap /\ n \in Nat
  <2>1. PICK t \in Nat, l \in Nat, m \in Nat : t = ToRead /\ l = Len(q) /\ m = Len(v)
    BY <1>2, <1>4, Zenon
  <2>2. n \in 1 .. (IF t < l THEN t ELSE l)
    BY <1>3, <2>1, Zenon DEF Least
  <2>3. t = RecvCap - 1 - m
    BY <1>4, <2>1, Zenon
  <2>4. n \in 0 .. l /\ m + n < RecvCap /\ n \in Nat
    BY <2>2, <2>3, Sizes
  <2> QED BY <2>1, <2>4, Zenon
<1> DEFINE p == SubSeq(q, 1, n)
           r == SubSeq(q, n + 1, Len(q))
<1>6. p \in Seq(Cells) /\ Len(p) = n /\ r \in Seq(Cells) /\ p \o r = q
  BY <1>2, <1>5, Cut, Zenon
<1>7. /\ slot' = [slot EXCEPT ![S] = [slot[S] EXCEPT !.recv = slot[S].recv \o p, !.idle = FALSE]]
      /\ sock' = [sock EXCEPT ![slot[S].fd] = [sock[slot[S].fd] EXCEPT !.inq = r]]
  BY <1>1, <1>3, Zenon DEF q
<1> HIDE DEF p, r
<1>8. v \o p \in Seq(Cells) /\ Len(v \o p) = Len(v) + n
  BY <1>2, <1>6, SeqConcat, Zenon
<1>9. SlotOK([slot[S] EXCEPT !.recv = slot[S].recv \o p, !.idle = FALSE], now)
  <2> DEFINE x == [slot[S] EXCEPT !.recv = slot[S].recv \o p, !.idle = FALSE]
  <2>1. x \in SlotTypes /\ x.recv = v \o p /\ x.send = slot[S].send /\ x.count = slot[S].count /\ x.start = slot[S].start
    BY <1>0, <1>1, <1>8, Zenon DEF SlotOK, SlotTypes, v
  <2> HIDE DEF x
  <2>2. SlotOK(x, now)
    BY <1>0, <1>1, <1>5, <1>8, <2>1, Zenon DEF SlotOK
  <2> QED BY <2>2, Zenon DEF x
<1>10. SockOK([sock[slot[S].fd] EXCEPT !.inq = r])
  <2> DEFINE k == sock[slot[S].fd]
  <2>1. SockOK(k)
    BY <1>0, <1>1, Zenon
  <2> HIDE DEF k
  <2>2. SockOK([k EXCEPT !.inq = r])
    BY <1>6, <2>1, Zenon DEF SockOK, SockTypes
  <2> QED BY <2>2, Zenon DEF k
<1>11. ~K.rst
  BY Zenon DEF ReadSome
<1> QED BY <1>1, <1>6, <1>7, <1>8, <1>9, <1>10, <1>11, Zenon DEF q, v

\* read() keeps the types.
LEMMA ReadTypes ==
  ASSUME TypeOK, EventsOwn, ReadSome
  PROVE  TypeOK'
<1>0. /\ RestOK /\ IsFun(slot, Slots) /\ \A s \in Slots : SlotOK(slot[s], now)
      /\ IsFun(sock, Conns) /\ \A d \in Conns : SockOK(sock[d])
  BY TypesAre, Zenon
<1>1. PICK p \in Seq(Cells), r \in Seq(Cells) :
           /\ S \in Slots /\ slot[S].fd \in Conns
           /\ slot' = [slot EXCEPT ![S] = [slot[S] EXCEPT !.recv = slot[S].recv \o p, !.idle = FALSE]]
           /\ sock' = [sock EXCEPT ![slot[S].fd] = [sock[slot[S].fd] EXCEPT !.inq = r]]
           /\ SlotOK([slot[S] EXCEPT !.recv = slot[S].recv \o p, !.idle = FALSE], now)
           /\ SockOK([sock[slot[S].fd] EXCEPT !.inq = r])
  BY ReadIs, Zenon
<1>2. RestOK' /\ now' = now
  BY <1>0, Zenon DEF RestOK, ReadSome
<1>3. IsFun(slot', Slots) /\ \A s \in Slots : SlotOK(slot'[s], now')
  BY <1>0, <1>1, <1>2, OneOfSlots, Zenon
<1>4. IsFun(sock', Conns) /\ \A d \in Conns : SockOK(sock'[d])
  BY <1>0, <1>1, OneSock, Zenon
<1> QED BY <1>2, <1>3, <1>4, TypesNext, Zenon

\* What sending, and EPOLL_CTL_MOD, make of a slot sl and its socket k: x and m, with
\* the bytes on their way to the client as they were.
Passes(sl, k, x, m) ==
  /\ SlotOK(x, now) /\ SockOK(m) /\ m.out \o x.send = k.out \o sl.send
  /\ x.fd = sl.fd /\ x.recv = sl.recv /\ x.auth = sl.auth /\ x.count = sl.count /\ x.start = sl.start
  /\ m.st = k.st /\ m.inq = k.inq /\ m.rst = k.rst /\ m.got = k.got

\* gw_flush_send.
LEMMA FlushPasses ==
  ASSUME NEW sl, NEW k, SlotOK(sl, now), SockOK(k)
  PROVE  Passes(sl, k, Flushed(sl, k).sl, Flushed(sl, k).k)
<1> DEFINE n == IF k.rst THEN 0 ELSE Least(Len(sl.send), SndBuf - Len(k.out))
           r == SubSeq(sl.send, n + 1, Len(sl.send))
           p == SubSeq(sl.send, 1, n)
           e == sl.closing \/ (k.rst /\ sl.send # << >>)
           x == [sl EXCEPT !.send = r, !.closing = e]
           m == [k EXCEPT !.out = k.out \o p]
<1>1. Flushed(sl, k).sl = x /\ Flushed(sl, k).k = m
  BY Zenon DEF Flushed
<1>2. /\ sl \in SlotTypes /\ sl.send \in Seq(RespCell) /\ Len(sl.send) < SendCap /\ sl.closing \in BOOLEAN
      /\ k \in SockTypes /\ k.out \in Seq(RespCell) /\ Len(k.out) <= SndBuf
  BY Zenon DEF SlotOK, SockOK, SlotTypes, SockTypes
<1>3. PICK l \in Nat, u \in Nat : l = Len(sl.send) /\ u = Len(k.out)
  BY <1>2, SeqLen, Zenon
<1>4. n \in 0 .. l /\ u + n <= SndBuf
  <2>1. n = IF k.rst THEN 0 ELSE IF l < SndBuf - u THEN l ELSE SndBuf - u
    BY <1>3, Zenon DEF Least
  <2>2. u <= SndBuf
    BY <1>2, <1>3, Zenon
  <2> HIDE DEF n
  <2> QED BY <2>1, <2>2, Sizes
<1>5. e \in BOOLEAN
  BY <1>2, Zenon
<1> HIDE DEF n, e
<1>6. r \in Seq(RespCell) /\ Len(r) = l - n /\ p \in Seq(RespCell) /\ Len(p) = n /\ p \o r = sl.send
  <2>1. n \in 0 .. Len(sl.send)
    BY <1>3, <1>4, Zenon
  <2> DEFINE q == sl.send
  <2>2. q \in Seq(RespCell) /\ n \in 0 .. Len(q) /\ Len(q) = l
    BY <1>2, <1>3, <2>1, Zenon
  <2> HIDE DEF q
  <2>3. /\ SubSeq(q, n + 1, Len(q)) \in Seq(RespCell) /\ Len(SubSeq(q, n + 1, Len(q))) = Len(q) - n
        /\ SubSeq(q, 1, n) \in Seq(RespCell) /\ Len(SubSeq(q, 1, n)) = n
        /\ SubSeq(q, 1, n) \o SubSeq(q, n + 1, Len(q)) = q
    BY <2>2, Cut, Zenon
  <2> QED BY <2>2, <2>3, Zenon DEF q
<1> HIDE DEF r, p
<1>7. k.out \o p \in Seq(RespCell) /\ Len(k.out \o p) = u + n
  BY <1>2, <1>3, <1>6, SeqConcat, Zenon
<1>8. /\ x \in SlotTypes /\ x.send = r /\ x.fd = sl.fd /\ x.recv = sl.recv /\ x.auth = sl.auth
      /\ x.count = sl.count /\ x.start = sl.start
  BY <1>2, <1>5, <1>6, Zenon DEF SlotTypes
<1>9. m \in SockTypes /\ m.out = k.out \o p /\ m.st = k.st /\ m.inq = k.inq /\ m.rst = k.rst /\ m.got = k.got
  BY <1>2, <1>7, Zenon DEF SockTypes
<1> HIDE DEF x, m
<1>10. SlotOK(x, now)
  <2>1. Len(x.send) < SendCap
    BY <1>2, <1>3, <1>4, <1>6, <1>8, Sizes
  <2> QED BY <1>8, <2>1, Zenon DEF SlotOK
<1>11. SockOK(m)
  BY <1>4, <1>7, <1>9, Zenon DEF SockOK
<1>12. m.out \o x.send = k.out \o sl.send
  <2>1. (k.out \o p) \o r = k.out \o (p \o r)
    <3>1. k.out \in Seq(RespCell) /\ p \in Seq(RespCell) /\ r \in Seq(RespCell)
      BY <1>2, <1>6, Zenon
    <3> QED BY <3>1, Associates, Zenon
  <2> QED BY <1>6, <1>8, <1>9, <2>1, Zenon
<1> QED BY <1>1, <1>8, <1>9, <1>10, <1>11, <1>12, Zenon DEF Passes

\* The registration of EPOLLOUT.
LEMMA RearmPasses ==
  ASSUME NEW sl, NEW k, SlotOK(sl, now), SockOK(k)
  PROVE  LET y == Rearmed([sl |-> sl, k |-> k]) IN Passes(sl, k, y.sl, y.k)
<1>1. \A b \in BOOLEAN : Passes(sl, k, [sl EXCEPT !.pending = b], Modified(k, b))
  <2> SUFFICES ASSUME NEW b \in BOOLEAN PROVE Passes(sl, k, [sl EXCEPT !.pending = b], Modified(k, b))
    BY Zenon
  <2> DEFINE x == [sl EXCEPT !.pending = b]
             a == [k EXCEPT !.armed = b]
             e == a.edge \/ Readable(a) \/ Writable(a)
             m == [a EXCEPT !.edge = e]
  <2>1. SlotOK(x, now) /\ x.send = sl.send /\ x.fd = sl.fd /\ x.recv = sl.recv /\ x.auth = sl.auth
        /\ x.count = sl.count /\ x.start = sl.start
    BY Zenon DEF SlotOK, SlotTypes
  <2>2. a \in SockTypes /\ a.out = k.out /\ a.st = k.st /\ a.inq = k.inq /\ a.rst = k.rst /\ a.got = k.got
    BY Zenon DEF SockOK, SockTypes
  <2>3. Modified(k, b) = m
    BY Zenon DEF Modified
  <2> HIDE DEF a
  <2>4. e \in BOOLEAN
    BY <2>2, Zenon DEF SockTypes, Readable, Writable
  <2> HIDE DEF e
  <2>5. m \in SockTypes /\ m.out = a.out /\ m.st = a.st /\ m.inq = a.inq /\ m.rst = a.rst /\ m.got = a.got
    BY <2>2, <2>4, Zenon DEF SockTypes
  <2> HIDE DEF m, x
  <2>6. SockOK(m)
    BY <2>2, <2>5, Zenon DEF SockOK
  <2>7. Passes(sl, k, x, m)
    BY <2>1, <2>2, <2>5, <2>6, Zenon DEF Passes
  <2> QED BY <2>3, <2>7, Zenon DEF x
<1>2. Passes(sl, k, sl, k)
  BY Zenon DEF Passes
<1> DEFINE z == [sl |-> sl, k |-> k]
<1>3. z.sl = sl /\ z.k = k
  BY Zenon
<1>4. Rearmed(z) = IF sl.send # << >> /\ ~sl.pending
              THEN [sl |-> [sl EXCEPT !.pending = TRUE], k |-> Modified(k, TRUE)]
              ELSE IF sl.send = << >> /\ sl.pending
              THEN [sl |-> [sl EXCEPT !.pending = FALSE], k |-> Modified(k, FALSE)]
              ELSE z
  BY <1>3, Zenon DEF Rearmed
<1> HIDE DEF z
<1>5. CASE sl.send # << >> /\ ~sl.pending
  <2>1. Rearmed(z).sl = [sl EXCEPT !.pending = TRUE] /\ Rearmed(z).k = Modified(k, TRUE)
    BY <1>4, <1>5
  <2> QED BY <1>1, <2>1, Zenon DEF z
<1>6. CASE ~(sl.send # << >> /\ ~sl.pending) /\ sl.send = << >> /\ sl.pending
  <2>1. Rearmed(z).sl = [sl EXCEPT !.pending = FALSE] /\ Rearmed(z).k = Modified(k, FALSE)
    BY <1>4, <1>6
  <2> QED BY <1>1, <2>1, Zenon DEF z
<1>7. CASE ~(sl.send # << >> /\ ~sl.pending) /\ ~(sl.send = << >> /\ sl.pending)
  <2>1. Rearmed(z).sl = sl /\ Rearmed(z).k = k
    BY <1>3, <1>4, <1>7, Zenon
  <2> QED BY <1>2, <2>1, Zenon DEF z
<1> QED BY <1>5, <1>6, <1>7, Zenon

\* One after the other.
LEMMA PassesOn ==
  ASSUME NEW sl, NEW k, NEW x, NEW m, NEW y, NEW z, Passes(sl, k, x, m), Passes(x, m, y, z)
  PROVE  Passes(sl, k, y, z)
BY Zenon DEF Passes

\* The end of an event: the connection goes on, or is closed with what it has sent.
LEMMA FinishIs ==
  ASSUME TypeOK, EventsOwn, Finish
  PROVE  \E x, m : /\ S \in Slots /\ slot[S].fd \in Conns /\ K = sock[slot[S].fd] /\ Sl = slot[S]
                   /\ Passes(slot[S], K, x, m)
                   /\ \/ /\ slot' = [slot EXCEPT ![S] = x] /\ sock' = [sock EXCEPT ![slot[S].fd] = m]
                         /\ active' = active
                      \/ /\ slot' = [slot EXCEPT ![S] = [x EXCEPT !.fd = NoConn]]
                         /\ sock' = [sock EXCEPT ![slot[S].fd] = Closed(m)] /\ active' = active - 1
<1>1. S \in Slots /\ Sl = slot[S] /\ slot[S].fd \in Conns /\ K = sock[slot[S].fd]
  BY CurSlot, Zenon DEF Finish, K
<1>2. SlotOK(Sl, now) /\ SockOK(K)
  BY <1>1, TypesAre, Zenon
<1> DEFINE a == IF cur.out THEN Flushed(Sl, K) ELSE [sl |-> Sl, k |-> K]
           b == Rearmed(a)
           z == Flushed(b.sl, b.k)
<1>3. IF Ends(b.sl)
      THEN /\ slot' = [slot EXCEPT ![S] = [z.sl EXCEPT !.fd = NoConn]]
           /\ sock' = [sock EXCEPT ![Sl.fd] = Closed(z.k)]
           /\ active' = Left(active)
      ELSE /\ slot' = [slot EXCEPT ![S] = b.sl]
           /\ sock' = [sock EXCEPT ![Sl.fd] = b.k]
           /\ UNCHANGED active
  BY Zenon DEF Finish
<1>4. Passes(Sl, K, a.sl, a.k) /\ a = [sl |-> a.sl, k |-> a.k]
  <2>1. CASE cur.out
    <3>1. a = Flushed(Sl, K)
      BY <2>1, Zenon
    <3>2. Flushed(Sl, K) = [sl |-> Flushed(Sl, K).sl, k |-> Flushed(Sl, K).k]
      BY Zenon DEF Flushed
    <3> HIDE DEF a
    <3> QED BY <1>2, <3>1, <3>2, FlushPasses, Zenon
  <2>2. CASE ~cur.out
    <3>1. a = [sl |-> Sl, k |-> K]
      BY <2>2, Zenon
    <3>2. Passes(Sl, K, Sl, K)
      BY <1>2, Zenon DEF Passes
    <3> HIDE DEF a
    <3>3. a.sl = Sl /\ a.k = K
      BY <3>1, Zenon
    <3> QED BY <3>1, <3>2, <3>3, Zenon
  <2> QED BY <2>1, <2>2, Zenon
<1> HIDE DEF a
<1>5. SlotOK(a.sl, now) /\ SockOK(a.k)
  BY <1>4, Zenon DEF Passes
<1>6. Passes(a.sl, a.k, b.sl, b.k)
  <2>1. LET y == Rearmed([sl |-> a.sl, k |-> a.k]) IN Passes(a.sl, a.k, y.sl, y.k)
    BY <1>5, RearmPasses, Zenon
  <2> QED BY <1>4, <2>1, Zenon
<1> HIDE DEF b
<1>7. SlotOK(b.sl, now) /\ SockOK(b.k) /\ Passes(Sl, K, b.sl, b.k)
  BY <1>4, <1>6, PassesOn, Zenon DEF Passes
<1>8. Passes(Sl, K, z.sl, z.k)
  BY <1>7, FlushPasses, PassesOn
<1> HIDE DEF z
<1>9. CASE Ends(b.sl)
  BY <1>1, <1>3, <1>8, <1>9, Zenon DEF Left
<1>10. CASE ~Ends(b.sl)
  BY <1>1, <1>3, <1>7, <1>10, Zenon
<1> QED BY <1>9, <1>10, Zenon

\* A closed socket.
LEMMA ClosedOK ==
  ASSUME NEW k, SockOK(k)
  PROVE  /\ SockOK(Closed(k)) /\ Closed(k).st = "closed" /\ Closed(k).rst = k.rst
         /\ Closed(k).out = k.out /\ Closed(k).got = k.got /\ Closed(k).inq = << >>
<1>1. << >> \in Seq(Cells)
  BY SeqEmpty, Zenon
<1>2. k.rst \in BOOLEAN /\ k.out \in Seq(RespCell) /\ k.got \in Seq(RespCell)
  BY Zenon DEF SockOK, SockTypes
<1>3. NewSock \in SockTypes /\ NewSock.inq = << >>
  <2>1. << >> \in Seq(RespCell)
    BY SeqEmpty, Zenon
  <2>2. NewSock \in SockTypes
    BY <1>1, <2>1, Zenon DEF NewSock, SockTypes
  <2> QED BY <2>2, Zenon DEF NewSock
<1>5. PICK m : m = Closed(k)
  BY Zenon
<1>6. m \in SockTypes /\ m.st = "closed" /\ m.rst = k.rst /\ m.out = k.out /\ m.got = k.got /\ m.inq = << >>
  <2>1. m = [NewSock EXCEPT !.st = "closed", !.rst = k.rst, !.out = k.out, !.got = k.got]
    BY <1>5, Zenon DEF Closed
  <2>2. PICK s \in SockTypes : s = NewSock
    BY <1>3, Zenon
  <2>3. PICK b \in BOOLEAN, f \in Seq(RespCell), g \in Seq(RespCell) :
          b = k.rst /\ f = k.out /\ g = k.got
    BY <1>2, Zenon
  <2>4. m = [s EXCEPT !.st = "closed", !.rst = b, !.out = f, !.got = g]
    BY <2>1, <2>2, <2>3, Zenon
  <2>5. m \in SockTypes /\ m.st = "closed" /\ m.rst = b /\ m.out = f /\ m.got = g /\ m.inq = s.inq
    BY <2>4, Zenon DEF SockTypes
  <2> QED BY <1>3, <2>2, <2>3, <2>5, Zenon
<1>7. SockOK(m)
  BY <1>6, Zenon DEF SockOK
<1> QED BY <1>5, <1>6, <1>7, Zenon

\* The end of an event, and the stop, keep the types.
LEMMA EndTypes ==
  ASSUME TypeOK, EventsOwn, Finish \/ StopEnd
  PROVE  TypeOK'
<1>0. /\ RestOK /\ IsFun(slot, Slots) /\ \A s \in Slots : SlotOK(slot[s], now)
      /\ IsFun(sock, Conns) /\ \A d \in Conns : SockOK(sock[d])
  BY TypesAre, Zenon
<1>1. CASE Finish
  <2>1. PICK x, m : /\ S \in Slots /\ slot[S].fd \in Conns
                    /\ Passes(slot[S], K, x, m)
                    /\ \/ /\ slot' = [slot EXCEPT ![S] = x] /\ sock' = [sock EXCEPT ![slot[S].fd] = m]
                          /\ active' = active
                       \/ /\ slot' = [slot EXCEPT ![S] = [x EXCEPT !.fd = NoConn]]
                          /\ sock' = [sock EXCEPT ![slot[S].fd] = Closed(m)] /\ active' = active - 1
    BY <1>1, FinishIs, Zenon
  <2>2. SlotOK(x, now) /\ SockOK(m) /\ SockOK(Closed(m))
    BY <2>1, ClosedOK, Zenon DEF Passes
  <2>3. SlotOK([x EXCEPT !.fd = NoConn], now)
    BY <2>2, Zenon DEF SlotOK, SlotTypes
  <2>4. active' \in Int
    BY <1>0, <2>1 DEF RestOK
  <2>5. /\ gpc' = "events"
        /\ UNCHANGED <<running, idem, now, received, events, cur, backlog, ledge, outq, respq, fwd, script,
                       upcoming, handled>>
    BY <1>1, Zenon DEF Finish
  <2>6. RestOK' /\ now' = now
    BY <1>0, <2>4, <2>5, Zenon DEF RestOK
  <2>7. IsFun(slot', Slots) /\ \A s \in Slots : SlotOK(slot'[s], now')
    BY <1>0, <2>1, <2>2, <2>3, <2>6, OneOfSlots, Zenon
  <2>8. IsFun(sock', Conns) /\ \A d \in Conns : SockOK(sock'[d])
    BY <1>0, <2>1, <2>2, OneSock, Zenon
  <2> QED BY <2>6, <2>7, <2>8, TypesNext, Zenon
<1>2. CASE StopEnd
  <2>1. << >> \in Seq(Conns)
    BY SeqEmpty, Zenon
  <2>2. RestOK' /\ UNCHANGED <<now, slot>>
    BY <1>0, <1>2, <2>1, Zenon DEF RestOK, StopEnd
  <2>3. sock' = [c \in Conns |-> IF sock[c].st = "none" THEN sock[c] ELSE Closed(sock[c])]
    BY <1>2, Zenon DEF StopEnd
  <2>4. \A d \in Conns : SockOK(Closed(sock[d]))
    BY <1>0, ClosedOK, Zenon
  <2>5. IsFun(sock', Conns) /\ \A d \in Conns : SockOK(sock'[d])
    BY <1>0, <2>3, <2>4, Zenon DEF IsFun
  <2> QED BY <1>0, <2>2, <2>5, TypesNext, Zenon
<1> QED BY <1>1, <1>2, Zenon


\* At the start the types hold.
LEMMA InitTypes ==
  ASSUME Init
  PROVE  TypeOK
<1>1. /\ << >> \in Seq(Cells) /\ << >> \in Seq(RespCell) /\ << >> \in Seq(Conns) /\ << >> \in Seq(OrderIds)
      /\ Len(<< >>) = 0
  BY SeqEmpty, Zenon
<1>2. SlotOK(Fresh(NoConn), now)
  <2>1. /\ Fresh(NoConn) \in SlotTypes /\ Fresh(NoConn).recv = << >> /\ Fresh(NoConn).send = << >>
        /\ Fresh(NoConn).count = 0 /\ Fresh(NoConn).start = now
    BY <1>1, Zenon DEF Fresh, SlotTypes, Init
  <2> QED BY <1>1, <2>1, Sizes DEF SlotOK, Init
<1>3. SockOK(NewSock)
  <2>1. NewSock \in SockTypes
    BY <1>1, Zenon DEF NewSock, SockTypes
  <2>2. NewSock.out = << >>
    BY Zenon DEF NewSock
  <2> QED BY <1>1, <2>1, <2>2, Sizes DEF SockOK
<1>4. IsFun(slot, Slots) /\ \A s \in Slots : SlotOK(slot[s], now)
  BY <1>2, Zenon DEF Init, IsFun
<1>5. IsFun(sock, Conns) /\ \A d \in Conns : SockOK(sock[d])
  BY <1>3, Zenon DEF Init, IsFun
<1>6. upcoming \in [Conns -> Cells]
  BY Zenon DEF Init, Cells
<1>7. NoEvent \in Events
  <2>1. 0 \in 0 .. NSlots
    BY Sizes
  <2> QED BY <2>1, Zenon DEF Events, NoEvent
<1>8. NoIds \in [0 .. IdemSlots - 1 -> Nat]
  BY Zenon DEF NoIds
<1>9. RestOK
  <2>1. handled \in [Conns -> Nat] /\ script \in [Conns -> Scripts]
    BY Zenon DEF Init
  <2>2. /\ gpc = "top" /\ running = TRUE /\ now = 0 /\ active = 0 /\ received = 0 /\ idem = NoIds
        /\ events = {} /\ cur = NoEvent /\ backlog = << >> /\ ledge = FALSE
        /\ outq = << >> /\ respq = << >> /\ fwd = << >>
    BY Zenon DEF Init
  <2>3. idem \in [0 .. IdemSlots - 1 -> Nat] /\ events \subseteq Events /\ cur \in Events
    BY <1>7, <1>8, <2>2, Zenon
  <2>4. /\ backlog \in Seq(Conns) /\ outq \in Seq(OrderIds) /\ respq \in Seq(OrderIds) /\ fwd \in Seq(OrderIds)
    BY <1>1, <2>2, Zenon
  <2>5. running \in BOOLEAN /\ ledge \in BOOLEAN
    BY <2>2, Zenon
  <2>6. now \in Nat /\ active \in Int /\ received \in Nat /\ gpc = "top"
    BY <2>2
  <2> QED BY <1>6, <2>1, <2>3, <2>4, <2>5, <2>6, Zenon DEF RestOK
<1> QED BY <1>4, <1>5, <1>9, TypesAre, Zenon

\* Every step keeps the types.
LEMMA TypeStep ==
  ASSUME SlotFacts, TypeOK, EventsOwn, StreamIntact, [Next]_vars
  PROVE  TypeOK'
BY ClientTypes, PlainTypes, ClockTypes, LoopTypes, FrameTypes, AcceptTypes, ReadTypes, EndTypes, Zenon
   DEF Next, Thread, External

Handling == {"read", "process", "finish"}
Outside == {"top", "drain", "wait", "exited", "stopped"}

\* A step that leaves the connections where they are leaves the events valid.
LEMMA EventsKept ==
  ASSUME TypeOK, EventsOwn, UNCHANGED <<events, cur>>, \A s \in Slots : slot'[s].fd = slot[s].fd,
         gpc' \in Handling => gpc \in Handling, gpc' \in Outside => events = {}
  PROVE  EventsOwn'
<1>1. \A e \in events : e.ptr # 0 => e.ptr \in Slots
  BY Sizes DEF TypeOK, Events, Slots
<1>2. cur.ptr # 0 => cur.ptr \in Slots
  BY Sizes DEF TypeOK, Events, Slots
<1> QED BY <1>1, <1>2, Zenon DEF EventsOwn, Handling, Outside

\* The step of an action changes the connection of no slot but s.
SameFds == \A s \in Slots : slot'[s].fd = slot[s].fd

\* Every step keeps the events valid.
LEMMA EventsStep ==
  ASSUME SlotFacts, TypeOK, EventsOwn, StreamIntact, [Next]_vars
  PROVE  EventsOwn'
<1>0. IsFun(slot, Slots) /\ (\A s \in Slots : SlotOK(slot[s], now))
  BY TypesAre, Zenon
<1>1. \A e \in events : e.ptr # 0 => e.ptr \in Slots
  BY Sizes DEF TypeOK, Events, Slots
<1>a. ASSUME NEW s \in Slots, NEW x, slot' = [slot EXCEPT ![s] = x], x.fd = slot[s].fd PROVE SameFds
  BY <1>0, <1>a, Zenon DEF IsFun, SameFds
<1>b. CASE External \/ UNCHANGED vars
  <2>1. UNCHANGED <<events, cur, gpc>>
    BY <1>b, Zenon DEF External, Connect, Send, Fin, Reset, Receive, Respond, Tick, Quiet, vars
  <2>2. SameFds
    <3>1. CASE UNCHANGED slot
      BY <3>1, Zenon DEF SameFds
    <3>2. ASSUME NEW s \in Slots, Quiet(s) PROVE SameFds
      <4>1. slot' = [slot EXCEPT ![s] = [slot[s] EXCEPT !.idle = TRUE]]
        BY <3>2, Zenon DEF Quiet
      <4>2. [slot[s] EXCEPT !.idle = TRUE].fd = slot[s].fd
        BY <1>0, Zenon DEF SlotOK, SlotTypes
      <4> QED BY <1>a, <4>1, <4>2, Zenon
    <3> QED BY <1>b, <3>1, <3>2, Zenon DEF External, Connect, Send, Fin, Reset, Receive, Respond, Tick, vars
  <2> QED BY <2>1, <2>2, EventsKept, Zenon DEF SameFds, EventsOwn, Outside
<1>c. CASE Top \/ Drained \/ WaitFails \/ AcceptDone \/ ReadAgain \/ ProcessDone \/ StopBegin \/ Refuse \/ StopEnd
  <2>1. UNCHANGED <<events, cur, slot>>
    BY <1>c, Zenon DEF Top, Drained, WaitFails, AcceptDone, ReadAgain, ProcessDone, StopBegin, Refuse, StopEnd
  <2>2. gpc' \in Handling => gpc \in Handling
    BY <1>c, Zenon DEF Top, Drained, WaitFails, AcceptDone, ReadAgain, ProcessDone, StopBegin, Refuse, StopEnd, Handling
  <2>3. gpc' \in Outside => gpc \in Outside
    BY <1>c, Zenon DEF Top, Drained, WaitFails, AcceptDone, ReadAgain, ProcessDone, StopBegin, Refuse, StopEnd, Outside
  <2> QED BY <2>1, <2>2, <2>3, EventsKept, Zenon DEF EventsOwn, Outside
<1>d. CASE Drain \/ Scan
  <2>1. UNCHANGED <<events, cur>> /\ events = {} /\ gpc' \notin Handling
    BY <1>d, Zenon DEF Drain, Scan, Handling, EventsOwn
  <2>2. \A s \in Slots : \A q : [slot[s] EXCEPT !.send = q].fd = slot[s].fd /\ [slot[s] EXCEPT !.closing = q].fd = slot[s].fd
    BY <1>0, Zenon DEF SlotOK, SlotTypes
  <2>3. SameFds
    <3>1. CASE Drain
      <4>1. PICK r : slot' = [s \in Slots |-> IF Wants(slot[s]) /\ Room(slot[s])
                                              THEN [slot[s] EXCEPT !.send = slot[s].send \o r] ELSE slot[s]]
        BY <3>1, Zenon DEF Drain
      <4> QED BY <2>2, <4>1, Zenon DEF SameFds
    <3>2. CASE Scan
      BY <2>2, <3>2, Zenon DEF Scan, SameFds
    <3> QED BY <1>d, <3>1, <3>2, Zenon
  <2> QED BY <2>1, <2>3, EventsKept, Zenon DEF SameFds
<1>e. CASE ReadSome \/ ReadEnd \/ ProcessBad \/ Auth \/ Skip \/ Order \/ Cancel
  <2>1. gpc \in Handling /\ gpc' \in Handling /\ UNCHANGED <<events, cur>>
    BY <1>e, Zenon DEF ReadSome, ReadEnd, ProcessBad, Auth, Skip, Order, Cancel, HasHeader, Complete, Handling
  <2>2. S \in Slots
    BY <2>1, CurSlot, Zenon DEF Handling
  <2>3. slot[S] \in SlotTypes
    BY <1>0, <2>2, Zenon DEF SlotOK
  <2>4. slot'[S].fd = slot[S].fd /\ \A s \in Slots \ {S} : slot'[s] = slot[s]
    <3>1. \E x : slot' = [slot EXCEPT ![S] = x] /\ x.fd = slot[S].fd
      <4>1. CASE ReadSome
        <5>1. PICK p : slot' = [slot EXCEPT ![S] = [slot[S] EXCEPT !.recv = slot[S].recv \o p, !.idle = FALSE]]
          BY <4>1, ReadIs, Zenon
        <5>2. [slot[S] EXCEPT !.recv = slot[S].recv \o p, !.idle = FALSE].fd = slot[S].fd
          BY <2>3, Zenon DEF SlotTypes
        <5> QED BY <5>1, <5>2, Zenon
      <4>2. CASE ReadEnd \/ ProcessBad
        <5>1. slot' = [slot EXCEPT ![S] = [slot[S] EXCEPT !.closing = TRUE]]
          BY <4>2, Zenon DEF ReadEnd, ProcessBad
        <5>2. [slot[S] EXCEPT !.closing = TRUE].fd = slot[S].fd
          BY <2>3, Zenon DEF SlotTypes
        <5> QED BY <5>1, <5>2, Zenon
      <4>3. CASE Skip \/ Cancel
        <5>1. slot' = [slot EXCEPT ![S] = [slot[S] EXCEPT !.recv = Rest]]
          BY <4>3, Zenon DEF Skip, Cancel
        <5>2. [slot[S] EXCEPT !.recv = Rest].fd = slot[S].fd
          BY <2>3, Zenon DEF SlotTypes
        <5> QED BY <5>1, <5>2, Zenon
      <4>4. CASE Auth
        <5>1. PICK b : slot' = [slot EXCEPT ![S] = [slot[S] EXCEPT !.auth = b, !.recv = Rest]]
          BY <4>4, Zenon DEF Auth
        <5>2. [slot[S] EXCEPT !.auth = b, !.recv = Rest].fd = slot[S].fd
          BY <2>3, Zenon DEF SlotTypes
        <5> QED BY <5>1, <5>2, Zenon
      <4>5. CASE Order
        <5>1. PICK a, b : slot' = [slot EXCEPT ![S] = [slot[S] EXCEPT !.recv = Rest, !.start = a, !.count = b]]
          BY <4>5, Zenon DEF Order
        <5>2. [slot[S] EXCEPT !.recv = Rest, !.start = a, !.count = b].fd = slot[S].fd
          BY <2>3, Zenon DEF SlotTypes
        <5> QED BY <5>1, <5>2, Zenon
      <4> QED BY <1>e, <4>1, <4>2, <4>3, <4>4, <4>5, Zenon
    <3> QED BY <1>0, <2>2, <3>1, Zenon DEF IsFun
  <2>5. SameFds
    BY <2>4, Zenon DEF SameFds
  <2> QED BY <2>1, <2>5, EventsKept, Zenon DEF SameFds, Handling, Outside
<1>f. CASE Accept
  <2>1. FirstFree \in Slots /\ slot[FirstFree].fd = NoConn
    BY <1>f, FirstFreeIsFree, Zenon DEF Accept
  <2>2. \A e \in events : e.ptr # FirstFree
    BY <1>1, <2>1, Sizes DEF EventsOwn, Slots
  <2>3. \A s \in Slots \ {FirstFree} : slot'[s] = slot[s]
    BY <1>0, <1>f, <2>1, Zenon DEF Accept, IsFun
  <2>4. gpc' = "accept" /\ UNCHANGED <<events, cur>>
    BY <1>f, Zenon DEF Accept
  <2> QED BY <1>1, <2>2, <2>3, <2>4, Zenon DEF EventsOwn
<1>g. CASE Finish
  <2>1. S \in Slots /\ \A e \in events : e.ptr # S
    BY <1>g, CurSlot, Zenon DEF Finish, EventsOwn, S
  <2>2. \A s \in Slots \ {S} : slot'[s] = slot[s]
    <3>1. \E x : slot' = [slot EXCEPT ![S] = x]
      BY <1>g, FinishIs, Zenon
    <3> QED BY <1>0, <2>1, <3>1, Zenon DEF IsFun
  <2>3. gpc' = "events" /\ UNCHANGED <<events, cur>>
    BY <1>g, Zenon DEF Finish
  <2> QED BY <1>1, <2>1, <2>2, <2>3, Zenon DEF EventsOwn
<1>h. CASE Wait
  <2>1. UNCHANGED slot /\ gpc' = "events"
    BY <1>h, Zenon DEF Wait
  <2> DEFINE E(s) == [ptr |-> s, conn |-> slot[s].fd, in |-> Readable(sock[slot[s].fd]),
                      out |-> Writable(sock[slot[s].fd]), hup |-> sock[slot[s].fd].rst]
             A == {x \in Slots : slot[x].fd # NoConn /\ Raised(slot[x].fd)}
             l == [NoEvent EXCEPT !.in = TRUE]
  <2>a. \A e \in events' : (\E s \in A : e = E(s)) \/ e = l
    BY <1>h, Zenon DEF Wait
  <2>b. l.ptr = 0
    BY Zenon DEF NoEvent
  <2>c. \A s \in A : E(s).ptr = s /\ E(s).conn = slot[s].fd /\ s \in Slots /\ slot[s].fd # NoConn /\ s # 0
    BY Sizes DEF Slots
  <2> HIDE DEF E, A, l
  <2>2. \A e \in events' : e.ptr # 0 => e.conn = slot[e.ptr].fd /\ e.conn # NoConn
    BY <2>a, <2>b, <2>c
  <2>3. \A e, g \in events' : e.ptr = g.ptr => e = g
    BY <2>a, <2>b, <2>c
  <2> QED BY <2>1, <2>2, <2>3, Zenon DEF EventsOwn
<1>i. CASE Dispatch
  <2>1. PICK e \in events : /\ cur' = e /\ events' = events \ {e}
                            /\ slot' = IF e.ptr # 0 /\ e.hup THEN [slot EXCEPT ![e.ptr].closing = TRUE] ELSE slot
                            /\ gpc' = IF e.ptr = 0 THEN "accept" ELSE IF e.in THEN "read" ELSE "finish"
    BY <1>i, Zenon DEF Dispatch
  <2>2. SameFds
    <3>1. CASE e.ptr # 0 /\ e.hup
      <4>1. slot' = [slot EXCEPT ![e.ptr] = [slot[e.ptr] EXCEPT !.closing = TRUE]] /\ e.ptr \in Slots
        BY <1>1, <2>1, <3>1, Zenon
      <4>2. [slot[e.ptr] EXCEPT !.closing = TRUE].fd = slot[e.ptr].fd
        BY <1>0, <4>1, Zenon DEF SlotOK, SlotTypes
      <4> QED BY <1>a, <4>1, <4>2, Zenon
    <3>2. CASE ~(e.ptr # 0 /\ e.hup)
      BY <2>1, <3>2, Zenon DEF SameFds
    <3> QED BY <3>1, <3>2, Zenon
  <2> QED BY <1>1, <2>1, <2>2, Zenon DEF EventsOwn, SameFds
<1> QED BY <1>b, <1>c, <1>d, <1>e, <1>f, <1>g, <1>h, <1>i, Zenon DEF Next, Thread


\* The socket carries what the client sends.
Flows(k) == k.st \in {"queued", "open"} /\ ~k.rst

\* A client that sends the frames f: its socket k, the number h of its frames that were
\* handled and the cell u it sends next.
Own(f, c, k, h, u) ==
  /\ h <= Len(f) /\ \A j \in 1 .. h : f[j].kind # "bad"
  /\ k.st \in {"none", "queued"} => k.out = << >> /\ k.got = << >> /\ h = 0
  /\ k.st = "none" => k.inq = << >> /\ ~k.rst /\ u = <<c, 1, 1>>
  /\ k.st = "queued" /\ ~k.rst => Run(f, c, 1, k.inq) /\ GoesOn(f, c, 1, k.inq, u)
  /\ ~k.rst => Whole(k.got \o k.out)
  /\ k.got \o k.out # << >> => AuthIn(f, h)

\* The bytes of whole responses
Answers(q) == Whole(q) /\ Len(q) % RespCells = 0

\* The slot x that serves it
Link(f, c, x, k, h, u) ==
  /\ Run(f, c, h + 1, x.recv \o (IF Flows(k) THEN k.inq ELSE << >>))
  /\ Flows(k) => GoesOn(f, c, h + 1, x.recv \o k.inq, u)
  /\ ~k.rst => Answers((k.got \o k.out) \o x.send)
  /\ x.auth \/ x.send # << >> => AuthIn(f, h)

\* Where a connection is.
Places == /\ \A s, u \in Slots : slot[s].fd = slot[u].fd /\ slot[s].fd # NoConn => s = u
          /\ \A s \in Slots : slot[s].fd # NoConn =>
               sock[slot[s].fd].st = (IF gpc = "stopped" THEN "closed" ELSE "open")
          /\ \A i, j \in DOMAIN backlog : backlog[i] = backlog[j] => i = j
          /\ \A i \in DOMAIN backlog : sock[backlog[i]].st = "queued"

Clients == /\ \A c \in Conns : Own(script[c], c, sock[c], handled[c], upcoming[c])
           /\ \A s \in Slots, c \in Conns : slot[s].fd = c =>
                Link(script[c], c, slot[s], sock[c], handled[c], upcoming[c])

\* What went to the OMS.
Sent == /\ \A i \in DOMAIN fwd : fwd[i][2] \in 1 .. handled[fwd[i][1]] /\ ForOms(fwd[i][1], fwd[i][2])
        /\ \A i, j \in DOMAIN fwd : i < j /\ fwd[i][1] = fwd[j][1] => fwd[i][2] < fwd[j][2]

\* The inductive invariant of the gateway.
IInv == TypeOK /\ EventsOwn /\ ActiveExact /\ Places /\ Clients /\ Sent

\* It implies what is claimed of the gateway.
LEMMA Implied ==
  ASSUME IInv
  PROVE  SlotsInv /\ ForwardsOnly /\ EventsCurrent /\ ResponsesWhole /\ OnlyAuthenticatedHear
<1> USE DEF IInv
<1>1. StreamIntact
  BY Zenon DEF Clients, Own, Link, Flows, StreamIntact
<1>2. OneSlot
  BY Zenon DEF Places, Clients, Own, OneSlot
<1>3. ForwardsOnly
  BY Zenon DEF Clients, Own, Sent, ForwardsOnly, NothingAfterBad, Kind
<1>4. EventsCurrent
  BY Zenon DEF EventsOwn, EventsCurrent, S, Sl
<1>5. ResponsesWhole
  BY Zenon DEF Clients, Own, Link, Answers, ResponsesWhole
<1>6. OnlyAuthenticatedHear
  <2>1. \A s \in Slots : slot[s].fd # NoConn => slot[s].fd \in Conns
    BY SlotType, Zenon
  <2> QED BY <2>1, Zenon DEF Clients, Own, Link, OnlyAuthenticatedHear, Authenticated
<1> QED BY <1>1, <1>2, <1>3, <1>4, <1>5, <1>6, Zenon DEF SlotsInv

\* The fields of a socket that matter, and of a slot.
SameSock(k, m) == m.st = k.st /\ m.inq = k.inq /\ m.rst = k.rst /\ m.out = k.out /\ m.got = k.got
SameSlot(x, y) == y.fd = x.fd /\ y.recv = x.recv /\ y.send = x.send /\ y.auth = x.auth

\* What a client has sent and was sent depends on these fields of its socket only.
LEMMA SameOwn ==
  ASSUME NEW f, NEW c, NEW k, NEW m, NEW h, NEW u, SameSock(k, m), Own(f, c, k, h, u)
  PROVE  Own(f, c, m, h, u)
BY Zenon DEF SameSock, Own

\* So does what its slot says of the stream, on these fields of slot and socket.
LEMMA SameLink ==
  ASSUME NEW f, NEW c, NEW x, NEW y, NEW k, NEW m, NEW h, NEW u, SameSock(k, m), SameSlot(x, y),
         Link(f, c, x, k, h, u)
  PROVE  Link(f, c, y, m, h, u)
BY Zenon DEF SameSock, SameSlot, Link, Flows

\* A step changes what belongs to one client only.
LEMMA ClientStep ==
  ASSUME Clients, NEW c \in Conns, script' = script,
         \A d \in Conns \ {c} : SameSock(sock[d], sock'[d]) /\ handled'[d] = handled[d] /\ upcoming'[d] = upcoming[d],
         \A s \in Slots : slot'[s].fd \in Conns \ {c} => SameSlot(slot[s], slot'[s]),
         Own(script[c], c, sock'[c], handled'[c], upcoming'[c]),
         \A s \in Slots : slot'[s].fd = c => Link(script[c], c, slot'[s], sock'[c], handled'[c], upcoming'[c])
  PROVE  Clients'
<1>1. \A d \in Conns : Own(script[d], d, sock'[d], handled'[d], upcoming'[d])
  BY SameOwn, Zenon DEF Clients
<1>2. ASSUME NEW s \in Slots, NEW d \in Conns, slot'[s].fd = d
      PROVE  Link(script[d], d, slot'[s], sock'[d], handled'[d], upcoming'[d])
  <2>1. CASE d = c
    BY <1>2, <2>1, Zenon
  <2>2. CASE d # c
    <3>1. slot[s].fd = d /\ SameSlot(slot[s], slot'[s]) /\ SameSock(sock[d], sock'[d])
      BY <1>2, <2>2, Zenon DEF SameSlot
    <3>2. Link(script[d], d, slot[s], sock[d], handled[d], upcoming[d])
      BY <3>1, Zenon DEF Clients
    <3> QED BY <2>2, <3>1, <3>2, SameLink, Zenon
  <2> QED BY <2>1, <2>2, Zenon
<1> QED BY <1>1, <1>2, Zenon DEF Clients

\* A step that changes nothing that matters.
Still == /\ \A s \in Slots : SameSlot(slot[s], slot'[s])
         /\ \A c \in Conns : SameSock(sock[c], sock'[c])
         /\ UNCHANGED <<backlog, active, handled, script, upcoming, fwd>>
         /\ gpc' = "stopped" <=> gpc = "stopped"

Kept == (ActiveExact /\ Places /\ Clients /\ Sent)'

\* A step of the epoll thread that leaves these fields alone keeps the invariant.
LEMMA StillKept ==
  ASSUME IInv, Still
  PROVE  Kept
<1> USE DEF IInv
<1>1. ActiveExact'
  <2>1. {s \in Slots : slot'[s].fd # NoConn} = {s \in Slots : slot[s].fd # NoConn}
    BY Zenon DEF Still, SameSlot
  <2> QED BY <2>1, Zenon DEF ActiveExact, Still
<1>2. Places'
  <2>1. \A s \in Slots : slot[s].fd # NoConn => slot[s].fd \in Conns
    BY SlotType, Zenon
  <2>2. \A i \in DOMAIN backlog : backlog[i] \in Conns
    <3>1. backlog \in Seq(Conns)
      BY Zenon DEF TypeOK
    <3> QED BY <3>1, SeqLen, SeqElement, Zenon
  <2> QED BY <2>1, <2>2 DEF Places, Still, SameSlot, SameSock
<1>3. Clients'
  <2>1. \A c \in Conns : Own(script[c], c, sock'[c], handled[c], upcoming[c])
    BY SameOwn, Zenon DEF Clients, Still
  <2>2. ASSUME NEW s \in Slots, NEW c \in Conns, slot'[s].fd = c
        PROVE  Link(script[c], c, slot'[s], sock'[c], handled[c], upcoming[c])
    <3>1. slot[s].fd = c /\ SameSlot(slot[s], slot'[s]) /\ SameSock(sock[c], sock'[c])
      BY <2>2, Zenon DEF Still, SameSlot
    <3> QED BY <3>1, SameLink, Zenon DEF Clients
  <2> QED BY <2>1, <2>2, Zenon DEF Clients, Still
<1>4. Sent'
  BY Zenon DEF Sent, Still, ForOms, Kind
<1> QED BY <1>1, <1>2, <1>3, <1>4, Zenon DEF Kept


\* The steps that mark slots, raise and take edges and move through the loop.
LEMMA StillSteps ==
  ASSUME IInv, \/ \E c \in Conns : Fin(c)
               \/ Respond \/ Tick \/ (\E s \in Slots : Quiet(s)) \/ Top \/ Drained \/ Wait \/ WaitFails \/ Dispatch
               \/ Scan \/ AcceptDone \/ ReadEnd \/ ReadAgain \/ ProcessBad \/ ProcessDone \/ StopBegin
               \/ UNCHANGED vars
  PROVE  Kept
<1>0. /\ TypeOK /\ EventsOwn /\ IsFun(slot, Slots) /\ IsFun(sock, Conns)
      /\ (\A s \in Slots : slot[s] \in SlotTypes) /\ (\A c \in Conns : sock[c] \in SockTypes)
  BY SlotType, SockType, TypesAre, Zenon DEF IInv
<1>1. /\ \A s \in Slots : SameSlot(slot[s], slot[s])
      /\ \A c \in Conns : SameSock(sock[c], sock[c])
  BY Zenon DEF SameSlot, SameSock
<1>2. /\ \A s \in Slots : /\ SameSlot(slot[s], [slot[s] EXCEPT !.closing = TRUE])
                          /\ SameSlot(slot[s], [slot[s] EXCEPT !.idle = TRUE])
      /\ \A c \in Conns : \A b : /\ SameSock(sock[c], [sock[c] EXCEPT !.edge = b])
                                 /\ SameSock(sock[c], [sock[c] EXCEPT !.eof = TRUE, !.edge = b])
  BY <1>0 DEF SameSlot, SameSock, SlotTypes, SockTypes
<1>a. ASSUME NEW s \in Slots, NEW x, slot' = [slot EXCEPT ![s] = x], SameSlot(slot[s], x)
      PROVE  \A u \in Slots : SameSlot(slot[u], slot'[u])
  BY <1>0, <1>1, <1>a, Zenon DEF IsFun
<1>b. ASSUME NEW c \in Conns, NEW x, sock' = [sock EXCEPT ![c] = x], SameSock(sock[c], x)
      PROVE  \A d \in Conns : SameSock(sock[d], sock'[d])
  BY <1>0, <1>1, <1>b, Zenon DEF IsFun
<1>3. ASSUME NEW c \in Conns, Fin(c) PROVE Still
  <2>1. \A d \in Conns : SameSock(sock[d], sock'[d])
    <3>1. sock' = [sock EXCEPT ![c] = [sock[c] EXCEPT !.eof = TRUE, !.edge = (sock[c].st = "open")]]
      BY <1>3, Zenon DEF Fin
    <3> QED BY <1>2, <1>b, <3>1, Zenon
  <2> QED BY <1>1, <1>3, <2>1, Zenon DEF Fin, Still
<1>4. CASE Respond \/ Tick \/ Top \/ Drained \/ WaitFails \/ AcceptDone \/ ReadAgain \/ ProcessDone \/ StopBegin \/ UNCHANGED vars
  <2>1. UNCHANGED <<slot, sock, backlog, active, handled, script, upcoming, fwd>>
    BY <1>4, Zenon DEF Respond, Tick, Top, Drained, WaitFails, AcceptDone, ReadAgain, ProcessDone, StopBegin, vars
  <2>2. gpc' = "stopped" <=> gpc = "stopped"
    BY <1>4, Zenon DEF Respond, Tick, Top, Drained, WaitFails, AcceptDone, ReadAgain, ProcessDone, StopBegin, vars
  <2>3. Still
    BY <1>1, <2>1, <2>2, Zenon DEF Still
  <2> QED BY <2>3, StillKept, Zenon
<1>5. ASSUME NEW s \in Slots, Quiet(s) PROVE Still
  <2>1. \A u \in Slots : SameSlot(slot[u], slot'[u])
    <3>1. slot' = [slot EXCEPT ![s] = [slot[s] EXCEPT !.idle = TRUE]]
      BY <1>5, Zenon DEF Quiet
    <3> QED BY <1>2, <1>a, <3>1, Zenon
  <2> QED BY <1>1, <1>5, <2>1, Zenon DEF Quiet, Still
<1>6. CASE Wait
  <2>1. \A d \in Conns : SameSock(sock[d], sock'[d])
    BY <1>2, <1>6, Zenon DEF Wait
  <2>2. Still
    BY <1>1, <1>6, <2>1, Zenon DEF Wait, Still
  <2> QED BY <2>2, StillKept, Zenon
<1>7. CASE Dispatch
  <2>1. PICK e \in events : /\ slot' = IF e.ptr # 0 /\ e.hup THEN [slot EXCEPT ![e.ptr].closing = TRUE] ELSE slot
                            /\ gpc' = IF e.ptr = 0 THEN "accept" ELSE IF e.in THEN "read" ELSE "finish"
    BY <1>7, Zenon DEF Dispatch
  <2>2. \A u \in Slots : SameSlot(slot[u], slot'[u])
    <3>1. CASE e.ptr # 0 /\ e.hup
      <4>1. slot' = [slot EXCEPT ![e.ptr] = [slot[e.ptr] EXCEPT !.closing = TRUE]]
        BY <2>1, <3>1, Zenon
      <4>2. e.ptr \in Slots
        BY <1>0, <3>1, Sizes DEF TypeOK, Events, Slots
      <4> QED BY <1>2, <1>a, <4>1, <4>2, Zenon
    <3>2. CASE ~(e.ptr # 0 /\ e.hup)
      BY <1>1, <2>1, <3>2, Zenon
    <3> QED BY <3>1, <3>2, Zenon
  <2>3. Still
    BY <1>1, <1>7, <2>1, <2>2, Zenon DEF Dispatch, Still
  <2> QED BY <2>3, StillKept, Zenon
<1>8. CASE Scan
  <2>1. \A u \in Slots : SameSlot(slot[u], slot'[u])
    BY <1>1, <1>2, <1>8, Zenon DEF Scan
  <2>2. Still
    BY <1>1, <1>8, <2>1, Zenon DEF Scan, Still
  <2> QED BY <2>2, StillKept, Zenon
<1>9. CASE ReadEnd \/ ProcessBad
  <2>1. S \in Slots
    BY <1>0, <1>9, CurSlot, Zenon DEF ReadEnd, ProcessBad, HasHeader
  <2>2. \A u \in Slots : SameSlot(slot[u], slot'[u])
    <3>1. slot' = [slot EXCEPT ![S] = [slot[S] EXCEPT !.closing = TRUE]]
      BY <1>9, Zenon DEF ReadEnd, ProcessBad
    <3> QED BY <1>2, <1>a, <2>1, <3>1, Zenon
  <2>3. /\ UNCHANGED <<sock, backlog, active, handled, script, upcoming, fwd>> /\ gpc # "stopped" /\ gpc' # "stopped"
    BY <1>9, Zenon DEF ReadEnd, ProcessBad, HasHeader
  <2>4. Still
    BY <1>1, <2>2, <2>3, Zenon DEF Still
  <2> QED BY <2>4, StillKept, Zenon
<1> QED BY <1>3, <1>4, <1>5, <1>6, <1>7, <1>8, <1>9, StillKept, Zenon

\* A run is continued by the cell the client sends next.
LEMMA RunGrows ==
  ASSUME NEW f \in Seq(Frames), NEW c, NEW k \in Nat \ {0}, NEW q \in Seq(Cells), NEW u \in Cells,
         Run(f, c, k, q), GoesOn(f, c, k, q, u), u[2] <= Len(f)
  PROVE  Run(f, c, k, Append(q, u)) /\ GoesOn(f, c, k, Append(q, u), Following(f, c, u[2], u[3]))
<1> DEFINE a == Append(q, u)
           n == Len(q)
<1>1. /\ a \in Seq(Cells) /\ Len(a) = n + 1 /\ n \in Nat /\ (\A i \in 1 .. n : a[i] = q[i]) /\ a[n + 1] = u /\ a # << >>
  BY SeqAppend, SeqLen
<1>2. Len(f) \in Nat /\ \A i \in 1 .. Len(f) : f[i].len \in Nat \ {0}
  <2>1. Len(f) \in Nat /\ \A i \in 1 .. Len(f) : f[i] \in Frames
    BY SeqLen, SeqElement, Zenon
  <2> QED BY <2>1, Zenon DEF Frames
<1>3. q = << >> <=> n = 0
  BY SeqEmpty, Zenon
<1> HIDE DEF a, n
<1>4. u[2] \in Nat /\ u[3] \in Nat
  BY Zenon DEF Cells
<1>5. CASE n = 0
  <2>1. u = <<c, k, 1>> /\ u[1] = c /\ u[2] = k /\ u[3] = 1
    BY <1>3, <1>5, Zenon DEF GoesOn
  <2>2. InScript(f, c, u)
    BY <1>2, <2>1 DEF InScript
  <2>3. \A j \in 1 .. Len(a) : j = 1 /\ a[j] = u /\ \A m \in j .. Len(a) : m = 1
    BY <1>1, <1>5
  <2>4. Later(f, c, u, 0, u)
    BY <1>2, <2>1, <2>2 DEF Later, InScript
  <2>5. Run(f, c, k, a)
    <3>1. ASSUME NEW j \in 1 .. Len(a) PROVE InScript(f, c, a[j]) /\ \A m \in j .. Len(a) : Later(f, c, a[j], m - j, a[m])
      <4>1. j = 1 /\ a[j] = u
        BY <2>3, Zenon
      <4>2. ASSUME NEW m \in j .. Len(a) PROVE Later(f, c, a[j], m - j, a[m])
        <5>1. m = 1 /\ m - j = 0 /\ a[m] = u
          BY <2>3, <4>1
        <5> QED BY <2>4, <4>1, <5>1, Zenon
      <4> QED BY <2>2, <4>1, <4>2, Zenon
    <3>2. a[1] = <<c, k, 1>>
      BY <1>1, <1>5, <2>1
    <3> QED BY <3>1, <3>2, Zenon DEF Run
  <2>6. a[Len(a)] = u
    BY <1>1, Zenon
  <2> QED BY <1>1, <2>5, <2>6 DEF GoesOn, a
<1>6. CASE n > 0
  <2> DEFINE l == q[n]
  <2>1. n \in 1 .. Len(q) /\ l \in Cells /\ InScript(f, c, l) /\ u = Following(f, c, l[2], l[3])
    <3>1. n \in 1 .. Len(q)
      BY <1>1, <1>6 DEF n
    <3>2. l \in Cells /\ InScript(f, c, l)
      BY <3>1, SeqElement, Zenon DEF Run
    <3> QED BY <1>3, <1>6, <3>1, <3>2 DEF GoesOn, n
  <2>2. l[1] = c /\ l[2] \in 1 .. Len(f) /\ l[3] \in 1 .. f[l[2]].len /\ l[2] \in Nat /\ l[3] \in Nat
    BY <2>1, Zenon DEF InScript, Cells
  <2>3. InScript(f, c, u)
    <3>1. CASE l[3] < f[l[2]].len
      <4>1. u = <<c, l[2], l[3] + 1>>
        BY <2>1, <3>1, Zenon DEF Following
      <4>2. u[1] = c /\ u[2] = l[2] /\ u[3] = l[3] + 1
        BY <4>1, Zenon
      <4>3. f[l[2]].len \in Nat
        BY <1>2, <2>2, Zenon
      <4>4. l[3] + 1 \in 1 .. f[l[2]].len
        <5>1. PICK lo \in Nat, hi \in Nat : lo = l[3] /\ hi = f[l[2]].len
          BY <2>2, <4>3, Zenon
        <5>2. lo < hi => lo + 1 \in 1 .. hi
          OBVIOUS
        <5> QED BY <3>1, <5>1, <5>2, Zenon
      <4> QED BY <2>2, <4>2, <4>4, Zenon DEF InScript
    <3>2. CASE ~(l[3] < f[l[2]].len)
      <4>1. u = <<c, l[2] + 1, 1>>
        BY <2>1, <3>2, Zenon DEF Following
      <4>2. u[1] = c /\ u[2] = l[2] + 1 /\ u[3] = 1
        BY <4>1, Zenon
      <4>3. u[2] \in 1 .. Len(f)
        BY <1>2, <2>2, <4>2
      <4>4. u[3] \in 1 .. f[u[2]].len
        BY <1>2, <4>2, <4>3
      <4> QED BY <4>2, <4>3, <4>4, Zenon DEF InScript
    <3> QED BY <3>1, <3>2, Zenon
  <2>4. \A j \in 1 .. n : a[j] = q[j] /\ InScript(f, c, q[j]) /\ \A m \in j .. n : a[m] = q[m] /\ Later(f, c, q[j], m - j, q[m])
    BY <1>1 DEF Run, n
  <2>5. Later(f, c, u, 0, u)
    BY <1>2, <1>4, <2>3 DEF Later, InScript, Cells
  <2>6. ASSUME NEW j \in 1 .. n PROVE Later(f, c, q[j], (n + 1) - j, u)
    <3> DEFINE x == q[j]
    <3>1. x \in Cells /\ InScript(f, c, x) /\ Later(f, c, x, n - j, l)
      <4>1. j \in 1 .. Len(q) /\ n \in j .. n
        BY <1>1, <1>6 DEF n
      <4> QED BY <2>4, <4>1, SeqElement, Zenon
    <3>2. PICK b \in Nat, i \in Nat, z \in Nat, d \in Nat :
            /\ b = x[2] /\ i = x[3] /\ z = f[b].len /\ d = n - j /\ b \in 1 .. Len(f) /\ i \in 1 .. z /\ z > 0
      <4>1. x[2] \in 1 .. Len(f) /\ x[3] \in 1 .. f[x[2]].len /\ x[2] \in Nat /\ x[3] \in Nat
        BY <3>1, Zenon DEF InScript, Cells
      <4>2. f[x[2]].len \in Nat /\ f[x[2]].len > 0
        BY <1>2, <4>1
      <4>3. n - j \in Nat
        BY <1>1
      <4> HIDE DEF x
      <4> QED BY <4>1, <4>2, <4>3, Zenon
    <3>3. /\ i + d - z <= 0 => l = <<c, b, i + d>>
          /\ i + d - z = 1 => l = <<c, b + 1, 1>>
      BY <3>1, <3>2, Zenon DEF Later
    <3>4. (n + 1) - j = d + 1
      BY <1>1, <3>2
    <3>5. i + (d + 1) - z <= 0 => u = <<c, b, i + (d + 1)>>
      <4> HAVE i + (d + 1) - z <= 0
      <4>1. i + d - z <= 0 /\ i + d < z
        OBVIOUS
      <4>2. l = <<c, b, i + d>> /\ l[2] = b /\ l[3] = i + d
        BY <3>3, <4>1
      <4>3. u = <<c, b, (i + d) + 1>>
        BY <2>1, <3>2, <4>1, <4>2, Zenon DEF Following
      <4>4. (i + d) + 1 = i + (d + 1)
        OBVIOUS
      <4> QED BY <4>3, <4>4, Zenon
    <3>6. i + (d + 1) - z = 1 => u = <<c, b + 1, 1>>
      <4> HAVE i + (d + 1) - z = 1
      <4>1. i + d - z <= 0 /\ ~(i + d < z)
        OBVIOUS
      <4>2. l = <<c, b, i + d>> /\ l[2] = b /\ l[3] = i + d
        BY <3>3, <4>1
      <4> QED BY <2>1, <3>2, <4>1, <4>2, Zenon DEF Following
    <3>7. Later(f, c, x, d + 1, u)
      BY <3>2, <3>5, <3>6, Zenon DEF Later
    <3> QED BY <3>4, <3>7, Zenon
  <2>7. Run(f, c, k, a)
    <3>1. ASSUME NEW j \in 1 .. Len(a) PROVE InScript(f, c, a[j]) /\ \A m \in j .. Len(a) : Later(f, c, a[j], m - j, a[m])
      <4>1. CASE j = n + 1
        <5>1. a[j] = u /\ \A m \in j .. Len(a) : m = j /\ m - j = 0
          BY <1>1, <4>1
        <5> QED BY <2>3, <2>5, <5>1, Zenon
      <4>2. CASE j # n + 1
        <5>1. j \in 1 .. n /\ a[j] = q[j] /\ InScript(f, c, q[j])
          BY <1>1, <2>4, <4>2
        <5>2. ASSUME NEW m \in j .. Len(a) PROVE Later(f, c, q[j], m - j, a[m])
          <6>1. m \in j .. n \/ m = n + 1
            BY <1>1, <5>1
          <6> QED BY <1>1, <2>4, <2>6, <5>1, <6>1, Zenon
        <5> QED BY <5>1, <5>2, Zenon
      <4> QED BY <4>1, <4>2, Zenon
    <3>2. a[1] = <<c, k, 1>>
      BY <1>1, <1>3, <1>6 DEF Run
    <3> QED BY <3>1, <3>2, Zenon DEF Run
  <2>8. a[Len(a)] = u
    BY <1>1, Zenon
  <2> QED BY <1>1, <2>7, <2>8 DEF GoesOn, a
<1> QED BY <1>1, <1>5, <1>6


\* What follows the first frame of a run is a run from the next frame on.
LEMMA RunRest ==
  ASSUME NEW f, NEW c, NEW k \in Nat \ {0}, NEW q \in Seq(Cells), NEW r \in Seq(Cells), NEW n \in Nat \ {0},
         Run(f, c, k, q), f[k].len = n, n <= Len(q), Len(r) = Len(q) - n,
         \A i \in 1 .. Len(r) : r[i] = q[n + i]
  PROVE  Run(f, c, k + 1, r) /\ \A u : GoesOn(f, c, k, q, u) => GoesOn(f, c, k + 1, r, u)
<1>1. PICK l \in Nat, m \in Nat : l = Len(q) /\ m = Len(r) /\ m = l - n /\ n <= l /\ l > 0
  BY SeqLen
<1>2. q # << >> /\ (r = << >> <=> m = 0) /\ q[1] = <<c, k, 1>> /\ q[1][2] = k /\ q[1][3] = 1
  <2>1. q # << >> /\ (r = << >> <=> m = 0)
    BY <1>1, SeqEmpty
  <2> QED BY <2>1 DEF Run
<1>3. \A j \in 1 .. l : InScript(f, c, q[j]) /\ \A i \in j .. l : Later(f, c, q[j], i - j, q[i])
  BY <1>1, Zenon DEF Run
<1>4. ASSUME NEW d \in Nat, 1 + d <= l PROVE /\ 1 + d <= n => q[1 + d] = <<c, k, 1 + d>>
                                             /\ d = n => q[1 + d] = <<c, k + 1, 1>>
  <2>1. 1 \in 1 .. l /\ 1 + d \in 1 .. l /\ (1 + d) - 1 = d
    BY <1>1, <1>4
  <2>2. Later(f, c, q[1], d, q[1 + d])
    BY <1>3, <2>1, Zenon
  <2>3. /\ 1 + d - n <= 0 => q[1 + d] = <<c, k, 1 + d>>
        /\ 1 + d - n = 1 => q[1 + d] = <<c, k + 1, 1>>
    BY <1>2, <2>2, Zenon DEF Later
  <2>4. (1 + d <= n => 1 + d - n <= 0) /\ (d = n => 1 + d - n = 1)
    OBVIOUS
  <2> QED BY <2>3, <2>4, Zenon
<1>5. r # << >> => r[1] = <<c, k + 1, 1>>
  <2> SUFFICES ASSUME r # << >> PROVE r[1] = <<c, k + 1, 1>>
    BY Zenon
  <2>1. 1 \in 1 .. Len(r) /\ 1 + n <= l /\ n + 1 = 1 + n
    BY <1>1, <1>2
  <2> QED BY <1>4, <2>1
<1>6. Run(f, c, k + 1, r)
  <2>1. ASSUME NEW j \in 1 .. Len(r) PROVE InScript(f, c, r[j]) /\ \A i \in j .. Len(r) : Later(f, c, r[j], i - j, r[i])
    <3>1. r[j] = q[n + j] /\ n + j \in 1 .. l
      BY <1>1
    <3>2. ASSUME NEW i \in j .. Len(r) PROVE Later(f, c, r[j], i - j, r[i])
      <4>1. r[i] = q[n + i] /\ n + i \in n + j .. l /\ (n + i) - (n + j) = i - j
        BY <1>1
      <4>2. Later(f, c, q[n + j], (n + i) - (n + j), q[n + i])
        BY <1>3, <3>1, <4>1, Zenon
      <4> QED BY <3>1, <4>1, <4>2, Zenon
    <3> QED BY <1>3, <3>1, <3>2, Zenon
  <2> QED BY <1>5, <2>1, Zenon DEF Run
<1>7. ASSUME NEW u, GoesOn(f, c, k, q, u) PROVE GoesOn(f, c, k + 1, r, u)
  <2>1. u = Following(f, c, q[l][2], q[l][3])
    BY <1>1, <1>2, <1>7, Zenon DEF GoesOn
  <2>2. CASE m = 0
    <3>1. l = n /\ n - 1 \in Nat /\ 1 + (n - 1) = n
      BY <1>1, <2>2
    <3>a. PICK d \in Nat : 1 + d = n
      BY <3>1, Zenon
    <3>b. 1 + d <= l /\ 1 + d <= n
      BY <3>1, <3>a
    <3>c. q[1 + d] = <<c, k, 1 + d>>
      BY <1>4, <3>b, Zenon
    <3>2. q[n] = <<c, k, n>>
      BY <3>a, <3>c, Zenon
    <3>3. q[l][2] = k /\ q[l][3] = n
      BY <3>1, <3>2
    <3>4. u = <<c, k + 1, 1>>
      BY <2>1, <3>3 DEF Following
    <3> QED BY <1>2, <2>2, <3>4, Zenon DEF GoesOn
  <2>3. CASE m # 0
    <3>1. r[m] = q[l]
      <4>1. m \in 1 .. Len(r) /\ n + m = l
        BY <1>1, <2>3
      <4> QED BY <4>1, Zenon
    <3> QED BY <1>1, <1>2, <2>1, <2>3, <3>1, Zenon DEF GoesOn
  <2> QED BY <2>2, <2>3, Zenon
<1> QED BY <1>6, <1>7, Zenon

\* Nothing before or behind.
LEMMA Alone ==
  ASSUME NEW T
  PROVE  \A a \in Seq(T) : a \o << >> = a /\ << >> \o a = a
BY SeqUnit, Zenon

\* The steps of the clients, and of gw_accept on the accept queue.
LEMMA ConnectKept ==
  ASSUME IInv, NEW c \in Conns, Connect(c)
  PROVE  Kept
<1> USE DEF IInv
<1>0. IsFun(sock, Conns) /\ sock[c] \in SockTypes
  BY TypesAre, SockType, Zenon
<1> DEFINE k == [sock[c] EXCEPT !.st = "queued"]
<1>1. /\ sock[c].st = "none" /\ gpc # "stopped" /\ sock' = [sock EXCEPT ![c] = k] /\ backlog' = Append(backlog, c)
      /\ UNCHANGED <<gpc, slot, active, script, upcoming, handled, fwd>>
  BY Zenon DEF Connect, Listening
<1>2. /\ k.st = "queued" /\ k.inq = sock[c].inq /\ k.rst = sock[c].rst /\ k.out = sock[c].out /\ k.got = sock[c].got
      /\ sock'[c] = k /\ \A d \in Conns \ {c} : sock'[d] = sock[d]
  BY <1>0, <1>1, Zenon DEF SockTypes, IsFun
<1> HIDE DEF k
<1>3. Own(script[c], c, sock[c], handled[c], upcoming[c])
  BY Zenon DEF Clients
<1>4. \A s \in Slots : slot[s].fd # c
  BY <1>1, Sizes, Zenon DEF Places
<1>5. Clients'
  <2>1. Own(script[c], c, k, handled[c], upcoming[c])
    <3>1. k.inq = << >> /\ upcoming[c] = <<c, 1, 1>>
      BY <1>1, <1>2, <1>3, Zenon DEF Own
    <3>2. Run(script[c], c, 1, << >>) /\ GoesOn(script[c], c, 1, << >>, <<c, 1, 1>>)
      BY SeqEmpty DEF Run, GoesOn
    <3> QED BY <1>1, <1>2, <1>3, <3>1, <3>2, Zenon DEF Own
  <2> QED BY <1>1, <1>2, <1>4, <2>1, ClientStep, Zenon DEF SameSock, SameSlot
<1>6. Places'
  <2>1. /\ backlog \in Seq(Conns) /\ Len(backlog) \in Nat /\ DOMAIN backlog = 1 .. Len(backlog)
        /\ Len(backlog') = Len(backlog) + 1 /\ DOMAIN backlog' = 1 .. Len(backlog) + 1
        /\ \A i \in 1 .. Len(backlog) : backlog'[i] = backlog[i] /\ backlog[i] \in Conns
        /\ backlog'[Len(backlog) + 1] = c
    BY <1>1, SeqAppend, SeqLen, SeqElement DEF TypeOK
  <2>2. \A i \in 1 .. Len(backlog) : backlog[i] # c /\ sock[backlog[i]].st = "queued"
    BY <1>1, <2>1, Zenon DEF Places
  <2>3. \A i \in DOMAIN backlog' : i \in 1 .. Len(backlog) \/ i = Len(backlog) + 1
    BY <2>1
  <2>4. \A i, j \in DOMAIN backlog' : backlog'[i] = backlog'[j] => i = j
    BY <2>1, <2>2, <2>3 DEF Places
  <2>5. \A i \in DOMAIN backlog' : sock'[backlog'[i]].st = "queued"
    BY <1>2, <2>1, <2>2, <2>3
  <2>6. \A s \in Slots : slot[s].fd # NoConn => slot[s].fd \in Conns
    BY SlotType, Zenon
  <2> QED BY <1>1, <1>2, <1>4, <2>4, <2>5, <2>6 DEF Places
<1>7. ActiveExact' /\ Sent'
  BY <1>1, Zenon DEF ActiveExact, Sent, ForOms, Kind
<1> QED BY <1>5, <1>6, <1>7, Zenon DEF Kept

\* The socket of c changes, nothing else but what the client sends next.
OfSock(c, k) == /\ sock' = [sock EXCEPT ![c] = k] /\ k.st = sock[c].st
                /\ UNCHANGED <<gpc, slot, active, backlog, script, handled, fwd>>
                /\ \A d \in Conns \ {c} : upcoming'[d] = upcoming[d]

\* A step of a client on its own socket, as connect, send and recv are.
LEMMA SockStep ==
  ASSUME IInv, NEW c \in Conns, NEW k, OfSock(c, k),
         Own(script[c], c, k, handled[c], upcoming'[c]),
         \A s \in Slots : slot[s].fd = c => Link(script[c], c, slot[s], k, handled[c], upcoming'[c])
  PROVE  Kept
<1> USE DEF IInv, OfSock
<1>1. sock'[c] = k /\ \A d \in Conns \ {c} : sock'[d] = sock[d]
  BY TypesAre, Zenon DEF IsFun
<1>2. Clients'
  BY <1>1, ClientStep, Zenon DEF SameSock, SameSlot
<1>3. Places'
  <2>1. \A s \in Slots : slot[s].fd # NoConn => slot[s].fd \in Conns
    BY SlotType, Zenon
  <2>2. \A i \in DOMAIN backlog : backlog[i] \in Conns
    <3>1. backlog \in Seq(Conns)
      BY Zenon DEF TypeOK
    <3> QED BY <3>1, SeqLen, SeqElement, Zenon
  <2>3. \A d \in Conns : sock'[d].st = sock[d].st
    BY <1>1, Zenon
  <2> QED BY <2>1, <2>2, <2>3 DEF Places
<1>4. ActiveExact' /\ Sent'
  BY Zenon DEF ActiveExact, Sent, ForOms, Kind
<1> QED BY <1>2, <1>3, <1>4, Zenon DEF Kept

\* A client sends its next cell.
LEMMA SendKept ==
  ASSUME IInv, NEW c \in Conns, Send(c)
  PROVE  Kept
<1> USE DEF IInv
<1> DEFINE f == script[c]
           u == upcoming[c]
           q == Append(sock[c].inq, u)
           k == [sock[c] EXCEPT !.inq = q, !.edge = (sock[c].st = "open")]
           v == Following(f, c, u[2], u[3])
           h == handled[c]
<1>0. /\ sock[c] \in SockTypes /\ sock[c].inq \in Seq(Cells) /\ f \in Seq(Frames) /\ u \in Cells /\ h \in Nat
      /\ upcoming \in [Conns -> Cells] /\ q \in Seq(Cells)
  <2>1. sock[c] \in SockTypes /\ sock[c].inq \in Seq(Cells)
    BY SockType, Zenon
  <2>2. f \in Seq(Frames) /\ u \in Cells /\ h \in Nat /\ upcoming \in [Conns -> Cells]
    BY Sizes, Zenon DEF TypeOK
  <2> QED BY <2>1, <2>2, SeqAppend, Zenon
<1>1. /\ sock' = [sock EXCEPT ![c] = k] /\ Flows(sock[c]) /\ u[2] <= Len(f)
      /\ upcoming' = [upcoming EXCEPT ![c] = v]
      /\ UNCHANGED <<gpc, slot, active, backlog, script, handled, fwd>>
  BY Zenon DEF Send, Live, Flows
<1>2. /\ k.st = sock[c].st /\ k.inq = q /\ k.rst = sock[c].rst /\ k.out = sock[c].out /\ k.got = sock[c].got
  BY <1>0, Zenon DEF SockTypes
<1> HIDE DEF f, u, q, k, v, h
<1>3. upcoming'[c] = v /\ \A d \in Conns \ {c} : upcoming'[d] = upcoming[d]
  BY <1>0, <1>1, Zenon
<1>4. OfSock(c, k)
  BY <1>1, <1>2, <1>3, Zenon DEF OfSock
<1>5. \A p \in Seq(Cells) : \A n \in Nat \ {0} :
        Run(f, c, n, p) /\ GoesOn(f, c, n, p, u) =>
          Run(f, c, n, Append(p, u)) /\ GoesOn(f, c, n, Append(p, u), v)
  BY <1>0, <1>1, RunGrows, Zenon DEF v
<1>6. Own(f, c, sock[c], h, u)
  BY Zenon DEF Clients, f, h, u
<1>7. Own(f, c, k, h, v)
  <2>1. sock[c].st \in {"queued", "open"} /\ ~sock[c].rst
    BY <1>1, Zenon DEF Flows
  <2>2. sock[c].st = "queued" => Run(f, c, 1, q) /\ GoesOn(f, c, 1, q, v)
    BY <1>0, <1>5, <1>6, <2>1 DEF Own, q
  <2> QED BY <1>2, <1>6, <2>1, <2>2, Zenon DEF Own
<1>8. ASSUME NEW s \in Slots, slot[s].fd = c PROVE Link(f, c, slot[s], k, h, v)
  <2>1. Link(f, c, slot[s], sock[c], h, u) /\ slot[s].recv \in Seq(Cells)
    BY <1>8, SlotType, Zenon DEF Clients, f, h, u
  <2> DEFINE p == slot[s].recv \o sock[c].inq
  <2>2. Run(f, c, h + 1, p) /\ GoesOn(f, c, h + 1, p, u)
    BY <1>1, <2>1, Zenon DEF Link
  <2>3. p \in Seq(Cells) /\ Append(p, u) = slot[s].recv \o q
    <3>1. p \in Seq(Cells)
      BY <1>0, <2>1, SeqConcat, Zenon
    <3>2. Append(p, u) = p \o <<u>> /\ q = sock[c].inq \o <<u>>
      BY <1>0, <3>1, SeqLast, Zenon DEF q
    <3>3. <<u>> \in Seq(Cells)
      BY <1>0
    <3>4. p \o <<u>> = slot[s].recv \o (sock[c].inq \o <<u>>)
      BY <1>0, <2>1, <3>3, Associates, Zenon
    <3> QED BY <3>1, <3>2, <3>4, Zenon
  <2> HIDE DEF p
  <2>4. h + 1 \in Nat \ {0}
    BY <1>0
  <2>5. Run(f, c, h + 1, slot[s].recv \o q) /\ GoesOn(f, c, h + 1, slot[s].recv \o q, v)
    BY <1>5, <2>2, <2>3, <2>4, Zenon
  <2>6. Flows(k)
    BY <1>1, <1>2, Zenon DEF Flows
  <2> QED BY <1>2, <2>1, <2>5, <2>6, Zenon DEF Link
<1> QED BY <1>3, <1>4, <1>7, <1>8, SockStep, Zenon DEF f, h

\* A connection is reset, and what was on its way is gone.
LEMMA ResetKept ==
  ASSUME IInv, NEW c \in Conns, Reset(c)
  PROVE  Kept
<1> USE DEF IInv
<1> DEFINE f == script[c]
           u == upcoming[c]
           k == [sock[c] EXCEPT !.rst = TRUE, !.inq = << >>, !.out = << >>, !.edge = (sock[c].st = "open")]
           h == handled[c]
<1>0. /\ sock[c] \in SockTypes /\ sock[c].inq \in Seq(Cells) /\ sock[c].out \in Seq(RespCell) /\ sock[c].got \in Seq(RespCell)
  BY SockType, Zenon
<1>1. /\ sock' = [sock EXCEPT ![c] = k] /\ Flows(sock[c])
      /\ UNCHANGED <<gpc, slot, active, backlog, script, upcoming, handled, fwd>>
  BY Zenon DEF Reset, Live, Flows
<1>2. /\ k.st = sock[c].st /\ k.inq = << >> /\ k.rst /\ k.out = << >> /\ k.got = sock[c].got
  BY <1>0, Zenon DEF SockTypes
<1> HIDE DEF f, u, k, h
<1>3. OfSock(c, k)
  BY <1>1, <1>2, Zenon DEF OfSock
<1>4. Own(f, c, sock[c], h, u)
  BY Zenon DEF Clients, f, h, u
<1>5. Own(f, c, k, h, u)
  <2>1. sock[c].st \in {"queued", "open"} /\ ~sock[c].rst
    BY <1>1, Zenon DEF Flows
  <2>2. sock[c].got # << >> => sock[c].got \o sock[c].out # << >>
    BY <1>0, SeqConcat, SeqEmpty
  <2>3. sock[c].got \o << >> = sock[c].got
    BY <1>0, Alone, Zenon
  <2> QED BY <1>2, <1>4, <2>1, <2>2, <2>3, Zenon DEF Own
<1>6. ASSUME NEW s \in Slots, slot[s].fd = c PROVE Link(f, c, slot[s], k, h, u)
  <2>1. Link(f, c, slot[s], sock[c], h, u) /\ slot[s].recv \in Seq(Cells)
    BY <1>6, SlotType, Zenon DEF Clients, f, h, u
  <2>2. Run(f, c, h + 1, slot[s].recv)
    BY <1>0, <1>1, <2>1, RunPrefix, Zenon DEF Link
  <2>3. slot[s].recv \o << >> = slot[s].recv /\ ~Flows(k)
    BY <1>2, <2>1, Alone, Zenon DEF Flows
  <2> QED BY <1>2, <2>1, <2>2, <2>3, Zenon DEF Link
<1> QED BY <1>1, <1>3, <1>5, <1>6, SockStep, Zenon DEF f, h, u

\* A client takes what has arrived.
LEMMA ReceiveKept ==
  ASSUME IInv, NEW c \in Conns, Receive(c)
  PROVE  Kept
<1> USE DEF IInv
<1> DEFINE f == script[c]
           u == upcoming[c]
           e == sock[c].edge \/ (sock[c].armed /\ Len(sock[c].out) = SndBuf)
           k == [sock[c] EXCEPT !.out = << >>, !.got = sock[c].got \o sock[c].out, !.edge = e]
           h == handled[c]
<1>0. /\ sock[c] \in SockTypes /\ sock[c].out \in Seq(RespCell) /\ sock[c].got \in Seq(RespCell)
      /\ sock[c].got \o sock[c].out \in Seq(RespCell)
  BY SockType, SeqConcat, Zenon
<1>1. /\ sock' = [sock EXCEPT ![c] = k] /\ sock[c].out # << >>
      /\ UNCHANGED <<gpc, slot, active, backlog, script, upcoming, handled, fwd>>
  BY Zenon DEF Receive
<1> HIDE DEF e
<1>2. /\ k.st = sock[c].st /\ k.inq = sock[c].inq /\ k.rst = sock[c].rst /\ k.out = << >>
      /\ k.got = sock[c].got \o sock[c].out
  BY <1>0, Zenon DEF SockTypes
<1> HIDE DEF f, u, k, h
<1>3. OfSock(c, k)
  BY <1>1, <1>2, Zenon DEF OfSock
<1>4. Own(f, c, sock[c], h, u)
  BY Zenon DEF Clients, f, h, u
<1>5. k.got \o k.out = sock[c].got \o sock[c].out
  BY <1>0, <1>2, Alone, Zenon
<1>6. Own(f, c, k, h, u)
  BY <1>1, <1>2, <1>4, <1>5, Zenon DEF Own
<1>7. ASSUME NEW s \in Slots, slot[s].fd = c PROVE Link(f, c, slot[s], k, h, u)
  <2>1. Link(f, c, slot[s], sock[c], h, u)
    BY <1>7, Zenon DEF Clients, f, h, u
  <2> QED BY <1>2, <1>5, <2>1, Zenon DEF Link, Flows
<1> QED BY <1>1, <1>3, <1>6, <1>7, SockStep, Zenon DEF f, h, u


\* Counting on from a multiple of m.
LEMMA FromMultiple ==
  ASSUME NEW m \in Nat \ {0}, NEW x \in Nat, x % m = 0
  PROVE  (\A r \in 0 .. m - 1 : (x + r) % m = r) /\ (x + m) % m = 0
<1>1. PICK q \in Int : x = m * q + (x % m)
  <2>1. x = m * (x \div m) + (x % m) /\ x \div m \in Int
    OBVIOUS
  <2> QED BY <2>1, Zenon
<1>2. x = m * q
  <2>1. x = m * q + 0
    BY <1>1, Zenon
  <2>2. \A j \in Int : m * j + 0 = m * j
    OBVIOUS
  <2> QED BY <2>1, <2>2, Zenon
<1>3. \A r \in 0 .. m - 1 : \A j \in Int : (m * j + r) % m = r
  OBVIOUS
<1>4. \A r \in 0 .. m - 1 : (x + r) % m = r
  BY <1>2, <1>3, Zenon
<1>5. \A j \in Int : (m * j + m) % m = 0
  <2>1. \A j \in Int : m * j + m = m * (j + 1) + 0 /\ j + 1 \in Int
    OBVIOUS
  <2>2. 0 \in 0 .. m - 1
    OBVIOUS
  <2> QED BY <1>3, <2>1, <2>2, Zenon
<1> QED BY <1>2, <1>4, <1>5, Zenon

\* A part of whole responses from the beginning.
LEMMA WholePrefix ==
  ASSUME NEW p \in Seq(RespCell), NEW q \in Seq(RespCell), Whole(p \o q)
  PROVE  Whole(p)
<1>1. /\ Len(p) \in Nat /\ Len(q) \in Nat /\ Len(p \o q) = Len(p) + Len(q) /\ p \o q \in Seq(RespCell)
      /\ \A i \in 1 .. Len(p) : (p \o q)[i] = p[i]
  BY SeqLen, SeqConcat
<1>2. DOMAIN p = 1 .. Len(p) /\ DOMAIN (p \o q) = 1 .. Len(p \o q)
  BY <1>1, SeqLen, Zenon
<1> SUFFICES ASSUME NEW i \in 1 .. Len(p)
             PROVE  p[i][2] = ((i - 1) % RespCells) + 1 /\ (p[i][2] > 1 => p[i][1] = p[i - 1][1])
  BY <1>2, Zenon DEF Whole
<1> DEFINE w == p \o q
<1>3. i \in DOMAIN w /\ w[i] = p[i]
  BY <1>1, <1>2
<1>4. w[i][2] = ((i - 1) % RespCells) + 1 /\ (w[i][2] > 1 => w[i][1] = w[i - 1][1])
  BY <1>3, Zenon DEF Whole
<1>5. i > 1 => w[i - 1] = p[i - 1]
  BY <1>1
<1>6. i = 1 => w[i][2] = 1
  <2> HAVE i = 1
  <2>1. (i - 1) % RespCells = 0
    BY Sizes
  <2> QED BY <1>4, <2>1
<1> HIDE DEF w
<1>7. CASE i = 1
  BY <1>3, <1>4, <1>6, <1>7
<1>8. CASE i # 1
  BY <1>3, <1>4, <1>5, <1>8
<1> QED BY <1>7, <1>8, Zenon

\* A response behind whole responses.
LEMMA AnswersGrow ==
  ASSUME NEW q \in Seq(RespCell), NEW r \in Seq(RespCell), NEW id, Answers(q), Len(r) = RespCells,
         \A i \in 1 .. RespCells : r[i] = <<id, i>>
  PROVE  Answers(q \o r)
<1> DEFINE w == q \o r
<1>1. /\ Len(q) \in Nat /\ w \in Seq(RespCell) /\ Len(w) = Len(q) + RespCells /\ RespCells \in Nat \ {0}
      /\ \A i \in 1 .. Len(w) : w[i] = IF i <= Len(q) THEN q[i] ELSE r[i - Len(q)]
  BY Sizes, SeqLen, SeqConcat, Zenon
<1>2. DOMAIN q = 1 .. Len(q) /\ DOMAIN w = 1 .. Len(w)
  BY <1>1, SeqLen, Zenon
<1> HIDE DEF w
<1>3. PICK l \in Nat : l = Len(q) /\ l % RespCells = 0
  BY <1>1, Zenon DEF Answers
<1>4. /\ \A j \in 0 .. RespCells - 1 : (l + j) % RespCells = j
      /\ (l + RespCells) % RespCells = 0
  <2>1. RespCells \in Nat \ {0} /\ l % RespCells = 0
    BY <1>1, <1>3, Zenon
  <2> QED BY <2>1, FromMultiple, Zenon
<1>5. Len(w) % RespCells = 0
  BY <1>1, <1>3, <1>4, Zenon
<1>6. ASSUME NEW i \in 1 .. Len(w)
      PROVE  w[i][2] = ((i - 1) % RespCells) + 1 /\ (w[i][2] > 1 => w[i][1] = w[i - 1][1])
  <2>1. CASE i <= l
    <3>1. i \in DOMAIN q /\ w[i] = q[i] /\ (i > 1 => w[i - 1] = q[i - 1])
      BY <1>1, <1>2, <1>3, <2>1
    <3>2. q[i][2] = ((i - 1) % RespCells) + 1 /\ (q[i][2] > 1 => q[i][1] = q[i - 1][1])
      BY <3>1, Zenon DEF Answers, Whole
    <3>3. i = 1 => q[i][2] = 1
      <4> HAVE i = 1
      <4>1. (i - 1) % RespCells = 0
        BY Sizes
      <4> QED BY <3>2, <4>1
    <3>4. CASE i = 1
      BY <3>1, <3>2, <3>3, <3>4, Zenon
    <3>5. CASE i # 1
      BY <3>1, <3>2, <3>5
    <3> QED BY <3>4, <3>5, Zenon
  <2>2. CASE i > l
    <3>1. PICK j \in 1 .. RespCells : i = l + j
      <4>1. i \in 1 .. l + RespCells /\ i > l
        BY <1>1, <1>3, <2>2, Zenon
      <4>2. i - l \in 1 .. RespCells /\ i = l + (i - l)
        BY <4>1, Sizes
      <4> QED BY <4>2, Zenon
    <3>2. w[i] = <<id, j>> /\ w[i][1] = id /\ w[i][2] = j
      <4>1. i - Len(q) = j
        BY <1>3, <3>1
      <4>2. w[i] = r[j]
        BY <1>1, <1>3, <2>2, <4>1
      <4> QED BY <4>2
    <3>3. (i - 1) % RespCells = j - 1
      <4>1. i - 1 = l + (j - 1) /\ j - 1 \in 0 .. RespCells - 1
        BY <1>1, <3>1
      <4> QED BY <1>4, <4>1, Zenon
    <3>4. j > 1 => w[i - 1][1] = id
      <4> HAVE j > 1
      <4>1. i - 1 \in 1 .. Len(w) /\ i - 1 > Len(q) /\ (i - 1) - Len(q) = j - 1 /\ j - 1 \in 1 .. RespCells
        BY <1>1, <1>3, <3>1
      <4>2. w[i - 1] = r[j - 1] /\ r[j - 1] = <<id, j - 1>>
        <5>1. ~(i - 1 <= Len(q))
          BY <1>1, <4>1
        <5>2. w[i - 1] = r[(i - 1) - Len(q)]
          BY <1>1, <4>1, <5>1, Zenon
        <5> QED BY <4>1, <5>2, Zenon
      <4> QED BY <4>2
    <3> QED BY <3>2, <3>3, <3>4
  <2> QED BY <1>3, <2>1, <2>2
<1> QED BY <1>2, <1>5, <1>6, Zenon DEF Answers, Whole, w


\* The accept queue behind its first connection.
LEMMA BacklogTail ==
  ASSUME IInv, backlog # << >>
  PROVE  /\ Head(backlog) \in Conns /\ sock[Head(backlog)].st = "queued"
         /\ \A i \in DOMAIN Tail(backlog) :
              /\ Tail(backlog)[i] \in Conns \ {Head(backlog)} /\ sock[Tail(backlog)[i]].st = "queued"
              /\ \A j \in DOMAIN Tail(backlog) : Tail(backlog)[i] = Tail(backlog)[j] => i = j
<1> USE DEF IInv
<1>1. /\ backlog \in Seq(Conns) /\ Len(backlog) \in Nat \ {0} /\ DOMAIN backlog = 1 .. Len(backlog)
      /\ \A i \in 1 .. Len(backlog) : backlog[i] \in Conns
  BY SeqLen, SeqElement, SeqEmpty, Zenon DEF TypeOK
<1>2. /\ Head(backlog) = backlog[1] /\ Tail(backlog) \in Seq(Conns) /\ Len(Tail(backlog)) = Len(backlog) - 1
      /\ \A i \in 1 .. Len(Tail(backlog)) : Tail(backlog)[i] = backlog[i + 1]
  BY <1>1, SeqTail
<1>3. DOMAIN Tail(backlog) = 1 .. Len(Tail(backlog))
  BY <1>2, SeqLen, Zenon
<1>4. 1 \in DOMAIN backlog /\ \A i \in DOMAIN Tail(backlog) : i + 1 \in DOMAIN backlog /\ i + 1 # 1 /\ i \in Nat
  BY <1>1, <1>2, <1>3
<1>5. ASSUME NEW i \in DOMAIN Tail(backlog), NEW j \in DOMAIN Tail(backlog), Tail(backlog)[i] = Tail(backlog)[j] PROVE i = j
  <2>1. i + 1 = j + 1
    BY <1>2, <1>3, <1>4, <1>5 DEF Places
  <2> QED BY <1>4, <2>1
<1>6. \A i \in DOMAIN Tail(backlog) : Tail(backlog)[i] \in Conns \ {Head(backlog)} /\ sock[Tail(backlog)[i]].st = "queued"
  BY <1>1, <1>2, <1>3, <1>4 DEF Places
<1>7. Head(backlog) \in Conns /\ sock[Head(backlog)].st = "queued"
  BY <1>1, <1>2, <1>4 DEF Places
<1> QED BY <1>5, <1>6, <1>7, Zenon

\* A connection is taken into a free slot.
LEMMA AcceptKept ==
  ASSUME SlotFacts, IInv, Accept
  PROVE  Kept
<1> USE DEF IInv
<1> DEFINE c == Head(backlog)
           n == FirstFree
           x == Fresh(c)
           k == [sock[c] EXCEPT !.st = "open", !.edge = Readable(sock[c])]
           f == script[c]
           h == handled[c]
           u == upcoming[c]
<1>1. /\ backlog # << >> /\ slot' = [slot EXCEPT ![n] = x] /\ sock' = [sock EXCEPT ![c] = k] /\ backlog' = Tail(backlog)
      /\ active' = active + 1 /\ gpc = "accept" /\ UNCHANGED <<gpc, script, upcoming, handled, fwd>>
  BY Zenon DEF Accept, Reused
<1>2. n \in Slots /\ slot[n].fd = NoConn
  BY FirstFreeIsFree, Zenon DEF Accept
<1>3. c \in Conns /\ sock[c].st = "queued"
  BY <1>1, BacklogTail, Zenon
<1>4. /\ sock[c] \in SockTypes /\ sock[c].inq \in Seq(Cells) /\ IsFun(slot, Slots) /\ IsFun(sock, Conns)
  BY <1>3, SockType, TypesAre, Zenon
<1>5. /\ x.fd = c /\ x.recv = << >> /\ x.send = << >> /\ x.auth = FALSE
      /\ k.st = "open" /\ k.inq = sock[c].inq /\ k.rst = sock[c].rst /\ k.out = sock[c].out /\ k.got = sock[c].got
  BY <1>4, Zenon DEF Fresh, SockTypes
<1>6. \A s \in Slots : slot[s].fd # c
  BY <1>1, <1>3, Sizes, Zenon DEF Places
<1> HIDE DEF c, n, x, k, f, h, u
<1>7. /\ slot'[n] = x /\ (\A s \in Slots \ {n} : slot'[s] = slot[s])
      /\ sock'[c] = k /\ \A d \in Conns \ {c} : sock'[d] = sock[d]
  BY <1>1, <1>2, <1>3, <1>4, Zenon DEF IsFun
<1>8. Own(f, c, sock[c], h, u)
  BY <1>3, Zenon DEF Clients, f, h, u
<1>9. sock[c].out = << >> /\ sock[c].got = << >> /\ h = 0 /\ << >> \o << >> = << >>
  BY <1>3, <1>8 DEF Own
<1>10. Own(f, c, k, h, u)
  BY <1>5, <1>8, <1>9, Zenon DEF Own
<1>11. Link(f, c, x, k, h, u)
  <2>1. Flows(k) <=> ~sock[c].rst
    BY <1>5, Zenon DEF Flows
  <2>2. << >> \o sock[c].inq = sock[c].inq /\ h + 1 = 1
    BY <1>4, <1>9, Alone
  <2>3. Run(f, c, 1, << >>)
    BY SeqEmpty DEF Run
  <2>4. Answers((k.got \o k.out) \o x.send)
    <3>1. (k.got \o k.out) \o x.send = << >>
      BY <1>5, <1>9, Zenon
    <3>2. Len(<< >>) = 0 /\ DOMAIN << >> = {} /\ 0 % RespCells = 0
      BY Sizes, SeqEmpty
    <3> QED BY <3>1, <3>2, Zenon DEF Answers, Whole
  <2>5. ~Flows(k) => Link(f, c, x, k, h, u)
    BY <1>5, <1>9, <2>2, <2>3, <2>4, Zenon DEF Link
  <2>6. Flows(k) => Link(f, c, x, k, h, u)
    BY <1>3, <1>5, <1>8, <2>1, <2>2, <2>4, Zenon DEF Link, Own
  <2> QED BY <2>5, <2>6, Zenon
<1>12. Clients'
  <2>1. \A s \in Slots : slot'[s].fd = c => s = n
    BY <1>6, <1>7, Zenon
  <2>2. \A s \in Slots : slot'[s].fd \in Conns \ {c} => slot'[s] = slot[s]
    BY <1>5, <1>7, Zenon
  <2>3. upcoming' = upcoming /\ handled' = handled /\ script' = script
    BY <1>1, Zenon
  <2>4. Own(script[c], c, sock'[c], handled'[c], upcoming'[c])
    BY <1>7, <1>10, <2>3, Zenon DEF f, h, u
  <2>5. \A s \in Slots : slot'[s].fd = c => Link(script[c], c, slot'[s], sock'[c], handled'[c], upcoming'[c])
    BY <1>7, <1>11, <2>1, <2>3, Zenon DEF f, h, u
  <2> QED BY <1>3, <1>7, <2>2, <2>3, <2>4, <2>5, ClientStep, Zenon DEF SameSock, SameSlot
<1>13. Places'
  <2>1. \A s, t \in Slots : slot'[s].fd = slot'[t].fd /\ slot'[s].fd # NoConn => s = t
    BY <1>5, <1>6, <1>7 DEF Places
  <2>2. \A s \in Slots : slot'[s].fd # NoConn => sock'[slot'[s].fd].st = "open"
    <3>1. \A s \in Slots : slot[s].fd # NoConn => slot[s].fd \in Conns
      BY SlotType, Zenon
    <3> QED BY <1>1, <1>5, <1>6, <1>7, <3>1 DEF Places
  <2>3. \A i \in DOMAIN backlog' :
              /\ backlog'[i] \in Conns \ {c} /\ sock[backlog'[i]].st = "queued"
              /\ \A j \in DOMAIN backlog' : backlog'[i] = backlog'[j] => i = j
    BY <1>1, BacklogTail, Zenon DEF c
  <2>4. \A i \in DOMAIN backlog' : sock'[backlog'[i]].st = "queued"
    BY <1>7, <2>3, Zenon
  <2> QED BY <1>1, <2>1, <2>2, <2>3, <2>4, Zenon DEF Places
<1>14. ActiveExact'
  <2> DEFINE A == {s \in Slots : slot[s].fd # NoConn}
             B == {s \in Slots : slot'[s].fd # NoConn}
  <2>1. B = A \cup {n} /\ n \notin A
    BY <1>2, <1>3, <1>5, <1>7, Sizes
  <2>2. A \in SUBSET Slots /\ n \in Slots
    <3>1. n \in Slots
      BY <1>2, Zenon
    <3>2. A \subseteq Slots
      BY Zenon
    <3> QED BY <3>1, <3>2, Zenon
  <2> HIDE DEF A, B
  <2>3. Cardinality(B) = Cardinality(A) + 1
    BY <2>1, <2>2, Zenon DEF SlotFacts
  <2> USE DEF A, B
  <2> QED BY <1>1, <2>3, Zenon DEF ActiveExact
<1>15. Sent'
  BY <1>1, Zenon DEF Sent, ForOms, Kind
<1> QED BY <1>12, <1>13, <1>14, <1>15, Zenon DEF Kept

\* A connection is turned away.
LEMMA RefuseKept ==
  ASSUME IInv, Refuse
  PROVE  Kept
<1> USE DEF IInv
<1> DEFINE c == Head(backlog)
           k == [sock[c] EXCEPT !.st = "closed"]
<1>1. /\ backlog # << >> /\ sock' = [sock EXCEPT ![c] = k] /\ backlog' = Tail(backlog)
      /\ gpc = "accept" /\ UNCHANGED <<gpc, slot, active, script, upcoming, handled, fwd>>
  BY Zenon DEF Refuse
<1>2. c \in Conns /\ sock[c].st = "queued"
  BY <1>1, BacklogTail, Zenon
<1>3. sock[c] \in SockTypes /\ IsFun(sock, Conns)
  BY <1>2, SockType, TypesAre, Zenon
<1>4. k.st = "closed" /\ k.inq = sock[c].inq /\ k.rst = sock[c].rst /\ k.out = sock[c].out /\ k.got = sock[c].got
  BY <1>3, Zenon DEF SockTypes
<1>5. \A s \in Slots : slot[s].fd # c
  BY <1>1, <1>2, Sizes, Zenon DEF Places
<1> HIDE DEF c, k
<1>6. sock'[c] = k /\ \A d \in Conns \ {c} : sock'[d] = sock[d]
  BY <1>1, <1>2, <1>3, Zenon DEF IsFun
<1>7. Own(script[c], c, k, handled[c], upcoming[c])
  <2>1. Own(script[c], c, sock[c], handled[c], upcoming[c])
    BY <1>2, Zenon DEF Clients
  <2> QED BY <1>4, <2>1, Zenon DEF Own
<1>8. Clients'
  BY <1>1, <1>2, <1>5, <1>6, <1>7, ClientStep, Zenon DEF SameSock, SameSlot
<1>9. Places'
  <2>1. \A s \in Slots : slot[s].fd # NoConn => slot[s].fd \in Conns \ {c}
    BY <1>5, SlotType, Zenon
  <2>2. \A i \in DOMAIN backlog' :
              /\ backlog'[i] \in Conns \ {c} /\ sock[backlog'[i]].st = "queued"
              /\ \A j \in DOMAIN backlog' : backlog'[i] = backlog'[j] => i = j
    BY <1>1, BacklogTail, Zenon DEF c
  <2>3. \A i \in DOMAIN backlog' : sock'[backlog'[i]].st = "queued"
    BY <1>6, <2>2, Zenon
  <2> QED BY <1>1, <1>6, <2>1, <2>2, <2>3 DEF Places
<1>10. ActiveExact' /\ Sent'
  BY <1>1, Zenon DEF ActiveExact, Sent, ForOms, Kind
<1> QED BY <1>8, <1>9, <1>10, Zenon DEF Kept


\* A step on a connection that stays open: its slot s becomes x, its socket k, and hh of
\* its frames have been handled.
OnConn(s, c, x, k, hh) ==
  /\ slot' = [slot EXCEPT ![s] = x] /\ sock' = [sock EXCEPT ![c] = k] /\ handled' = [handled EXCEPT ![c] = hh]
  /\ x.fd = c /\ k.st = sock[c].st
  /\ UNCHANGED <<active, backlog, script, upcoming>> /\ gpc # "stopped" /\ gpc' # "stopped"

\* A step of the epoll thread on one connection, as the read loop, the handling of a
\* frame and gw_flush_send are.
LEMMA ConnStep ==
  ASSUME IInv, NEW s \in Slots, NEW c \in Conns, slot[s].fd = c, NEW x, NEW k, NEW hh, OnConn(s, c, x, k, hh),
         Own(script[c], c, k, hh, upcoming[c]), Link(script[c], c, x, k, hh, upcoming[c]), Sent'
  PROVE  Kept
<1> USE DEF IInv
<1>1. IsFun(slot, Slots) /\ IsFun(sock, Conns) /\ handled \in [Conns -> Nat] /\ c # NoConn
  BY TypesAre, Sizes, Zenon DEF TypeOK
<1>2. /\ slot'[s] = x /\ (\A t \in Slots \ {s} : slot'[t] = slot[t])
      /\ sock'[c] = k /\ (\A d \in Conns \ {c} : sock'[d] = sock[d])
      /\ handled'[c] = hh /\ (\A d \in Conns \ {c} : handled'[d] = handled[d])
      /\ x.fd = c /\ k.st = sock[c].st
      /\ UNCHANGED <<active, backlog, script, upcoming>> /\ gpc # "stopped" /\ gpc' # "stopped"
  BY <1>1, Zenon DEF OnConn, IsFun
<1>3. \A t \in Slots : slot'[t].fd = slot[t].fd /\ (slot[t].fd = c => t = s)
  BY <1>1, <1>2 DEF Places
<1>4. Clients'
  <2>1. \A t \in Slots : slot'[t].fd = c => t = s
    BY <1>3, Zenon
  <2>2. \A t \in Slots : slot'[t].fd \in Conns \ {c} => slot'[t] = slot[t]
    BY <1>2, Zenon
  <2>3. \A t \in Slots : slot'[t].fd = c => Link(script[c], c, slot'[t], sock'[c], handled'[c], upcoming'[c])
    BY <1>2, <2>1, Zenon
  <2> QED BY <1>2, <2>2, <2>3, ClientStep, Zenon DEF SameSock, SameSlot
<1>5. Places'
  <2>1. \A t \in Slots : slot[t].fd # NoConn => slot[t].fd \in Conns
    BY SlotType, Zenon
  <2>2. \A i \in DOMAIN backlog : backlog[i] \in Conns
    <3>1. backlog \in Seq(Conns)
      BY Zenon DEF TypeOK
    <3> QED BY <3>1, SeqLen, SeqElement, Zenon
  <2>3. \A d \in Conns : sock'[d].st = sock[d].st
    BY <1>2, Zenon
  <2>4. \A t, u \in Slots : slot'[t].fd = slot'[u].fd /\ slot'[t].fd # NoConn => t = u
    BY <1>3, Zenon DEF Places
  <2>5. \A t \in Slots : slot'[t].fd # NoConn => sock'[slot'[t].fd].st = "open"
    <3>1. gpc # "stopped"
      BY <1>2, Zenon
    <3>2. \A t \in Slots : slot[t].fd # NoConn => sock[slot[t].fd].st = "open"
      BY <3>1, Zenon DEF Places
    <3>3. ASSUME NEW t \in Slots, slot'[t].fd # NoConn PROVE sock'[slot'[t].fd].st = "open"
      <4>1. slot'[t].fd = slot[t].fd /\ slot[t].fd \in Conns
        BY <1>3, <2>1, <3>3, Zenon
      <4> QED BY <2>3, <3>2, <3>3, <4>1, Zenon
    <3> QED BY <3>3, Zenon
  <2>6. backlog' = backlog /\ gpc' # "stopped"
    BY <1>2, Zenon
  <2>7. \A i \in DOMAIN backlog' : sock'[backlog'[i]].st = "queued"
    BY <2>2, <2>3, <2>6, Zenon DEF Places
  <2>8. \A i, j \in DOMAIN backlog' : backlog'[i] = backlog'[j] => i = j
    BY <2>6, Zenon DEF Places
  <2> QED BY <2>4, <2>5, <2>6, <2>7, <2>8, Zenon DEF Places
<1>6. ActiveExact'
  <2>1. {t \in Slots : slot'[t].fd # NoConn} = {t \in Slots : slot[t].fd # NoConn}
    BY <1>3, Zenon
  <2> QED BY <1>2, <2>1, Zenon DEF ActiveExact
<1> QED BY <1>4, <1>5, <1>6, Zenon DEF Kept

\* Nothing more has gone to the OMS.
LEMMA SentStays ==
  ASSUME IInv, UNCHANGED <<fwd, script>>, \A c \in Conns : handled[c] <= handled'[c], handled' \in [Conns -> Nat]
  PROVE  Sent'
<1> USE DEF IInv
<1>1. ASSUME NEW i \in DOMAIN fwd PROVE fwd[i][2] \in 1 .. handled'[fwd[i][1]] /\ ForOms(fwd[i][1], fwd[i][2])
  <2>1. fwd[i] \in OrderIds
    BY SeqElement DEF TypeOK
  <2>2. PICK c \in Conns, k \in Nat : c = fwd[i][1] /\ k = fwd[i][2]
    BY <2>1, Zenon DEF OrderIds
  <2>3. k \in 1 .. handled[c] /\ handled[c] <= handled'[c] /\ handled[c] \in Nat /\ handled'[c] \in Nat
    BY <2>2, Zenon DEF Sent, TypeOK
  <2>4. k \in 1 .. handled'[c]
    BY <2>3
  <2> QED BY <2>2, <2>4, Zenon DEF Sent
<1> QED BY <1>1, Zenon DEF Sent, ForOms, Kind

\* Bytes move from the socket to the ring.
LEMMA ReadKept ==
  ASSUME IInv, ReadSome
  PROVE  Kept
<1> USE DEF IInv
<1>1. PICK p \in Seq(Cells), r \in Seq(Cells) :
           /\ S \in Slots /\ slot[S].fd \in Conns /\ K = sock[slot[S].fd] /\ ~K.rst /\ p \o r = K.inq
           /\ slot' = [slot EXCEPT ![S] = [slot[S] EXCEPT !.recv = slot[S].recv \o p, !.idle = FALSE]]
           /\ sock' = [sock EXCEPT ![slot[S].fd] = [sock[slot[S].fd] EXCEPT !.inq = r]]
  BY ReadIs, Zenon
<1> DEFINE c == slot[S].fd
           x == [slot[S] EXCEPT !.recv = slot[S].recv \o p, !.idle = FALSE]
           k == [sock[c] EXCEPT !.inq = r]
           f == script[c]
           h == handled[c]
           u == upcoming[c]
           v == slot[S].recv
<1>2. /\ slot[S] \in SlotTypes /\ v \in Seq(Cells) /\ sock[c] \in SockTypes /\ handled \in [Conns -> Nat]
  BY <1>1, SlotType, SockType, Zenon DEF TypeOK
<1>3. /\ x.fd = c /\ x.recv = v \o p /\ x.send = slot[S].send /\ x.auth = slot[S].auth
      /\ k.st = sock[c].st /\ k.inq = r /\ k.rst = sock[c].rst /\ k.out = sock[c].out /\ k.got = sock[c].got
  BY <1>2, Zenon DEF SlotTypes, SockTypes
<1>4. c \in Conns /\ ~sock[c].rst /\ p \o r = sock[c].inq /\ slot[S].fd = c /\ S \in Slots
  BY <1>1, Zenon
<1>5. gpc = "read" /\ gpc' = "process" /\ UNCHANGED <<active, backlog, script, upcoming, handled, fwd>>
  BY Zenon DEF ReadSome
<1>6. sock[c].st = "open"
  BY <1>4, <1>5, Sizes, Zenon DEF Places
<1>7. handled' = [handled EXCEPT ![c] = h]
  BY <1>2, <1>4, <1>5, Zenon
<1>8. slot' = [slot EXCEPT ![S] = x] /\ sock' = [sock EXCEPT ![c] = k]
  BY <1>1, Zenon
<1> HIDE DEF c, x, k, f, h, u, v
<1>9. OnConn(S, c, x, k, h)
  BY <1>3, <1>5, <1>7, <1>8, Zenon DEF OnConn
<1>10. Own(f, c, sock[c], h, u) /\ Link(f, c, slot[S], sock[c], h, u)
  BY <1>4, Zenon DEF Clients, f, h, u
<1>11. Own(f, c, k, h, u)
  BY <1>3, <1>6, <1>10, Zenon DEF Own
<1>12. Link(f, c, x, k, h, u)
  <2>1. Flows(k) /\ Flows(sock[c])
    BY <1>3, <1>4, <1>6, Zenon DEF Flows
  <2>2. x.recv \o k.inq = v \o sock[c].inq
    <3>2. (v \o p) \o r = v \o (p \o r)
      BY <1>2, Associates, Zenon
    <3> QED BY <1>3, <1>4, <3>2, Zenon
  <2> QED BY <1>3, <1>10, <2>1, <2>2, Zenon DEF Link, v
<1>13. Sent'
  BY <1>5, Zenon DEF Sent, ForOms, Kind
<1> QED BY <1>4, <1>9, <1>11, <1>12, <1>13, ConnStep, Zenon DEF f, h, u

\* A response goes into the send rings.
LEMMA DrainKept ==
  ASSUME IInv, Drain
  PROVE  Kept
<1> USE DEF IInv
<1> DEFINE r == [i \in 1 .. RespCells |-> <<Head(respq), i>>]
<1>1. /\ slot' = [s \in Slots |-> IF Wants(slot[s]) /\ Room(slot[s])
                                  THEN [slot[s] EXCEPT !.send = slot[s].send \o r] ELSE slot[s]]
      /\ UNCHANGED <<gpc, sock, active, backlog, script, upcoming, handled, fwd>> /\ respq # << >>
  BY Zenon DEF Drain
<1>2. r \in Seq(RespCell) /\ Len(r) = RespCells /\ \A i \in 1 .. RespCells : r[i] = <<Head(respq), i>>
  <2>1. RespCells \in Nat /\ \A i \in 1 .. RespCells : i \in Nat
    BY Sizes
  <2>2. Head(respq) \in OrderIds
    BY <1>1, SeqTail, Zenon DEF TypeOK
  <2>3. \A i \in 1 .. RespCells : r[i] \in RespCell
    BY <2>1, <2>2, Zenon DEF RespCell
  <2>4. r \in [1 .. RespCells -> RespCell]
    BY <2>3, Zenon
  <2>5. \A i \in 1 .. RespCells : r[i] = <<Head(respq), i>>
    BY Zenon
  <2> HIDE DEF r
  <2> QED BY <2>1, <2>4, <2>5
<1> HIDE DEF r
<1>3. ASSUME NEW s \in Slots
      PROVE  /\ slot'[s].fd = slot[s].fd /\ slot'[s].recv = slot[s].recv /\ slot'[s].auth = slot[s].auth
             /\ \/ slot'[s].send = slot[s].send
                \/ slot[s].auth /\ slot'[s].send = slot[s].send \o r
  <2>1. slot[s] \in SlotTypes
    BY SlotType, Zenon
  <2>2. CASE Wants(slot[s]) /\ Room(slot[s])
    <3>1. slot'[s] = [slot[s] EXCEPT !.send = slot[s].send \o r] /\ slot[s].auth
      BY <1>1, <2>2, Zenon DEF Wants
    <3> QED BY <2>1, <3>1, Zenon DEF SlotTypes
  <2>3. CASE ~(Wants(slot[s]) /\ Room(slot[s]))
    BY <1>1, <2>3, Zenon
  <2> QED BY <2>2, <2>3, Zenon
<1>4. ASSUME NEW s \in Slots, NEW c \in Conns, slot[s].fd = c
      PROVE  Link(script[c], c, slot'[s], sock[c], handled[c], upcoming[c])
  <2>1. Link(script[c], c, slot[s], sock[c], handled[c], upcoming[c])
    BY <1>4, Zenon DEF Clients
  <2>2. CASE slot'[s].send = slot[s].send
    BY <1>3, <2>1, <2>2, SameLink, Zenon DEF SameSlot, SameSock
  <2>3. CASE slot[s].auth /\ slot'[s].send = slot[s].send \o r
    <3> DEFINE g == sock[c].got \o sock[c].out
               b == slot[s].send
    <3>1. g \in Seq(RespCell) /\ b \in Seq(RespCell) /\ g \o b \in Seq(RespCell)
      BY SockType, SlotType, SeqConcat, Zenon
    <3>2. g \o (b \o r) = (g \o b) \o r
      <4> HIDE DEF g, b
      <4> QED BY <1>2, <3>1, Associates, Zenon
    <3>3. ~sock[c].rst => Answers(g \o b)
      BY <2>1, Zenon DEF Link
    <3> HIDE DEF g, b
    <3>4. ~sock[c].rst => Answers(g \o (b \o r))
      BY <1>2, <3>1, <3>2, <3>3, AnswersGrow, Zenon
    <3>5. slot'[s].send = b \o r /\ slot'[s].recv = slot[s].recv /\ slot'[s].auth = slot[s].auth
      BY <1>3, <2>3, Zenon DEF b
    <3>6. AuthIn(script[c], handled[c])
      BY <2>1, <2>3, Zenon DEF Link
    <3> QED BY <2>1, <3>4, <3>5, <3>6, Zenon DEF Link, g
  <2> QED BY <1>3, <2>2, <2>3, Zenon
<1>5. Clients'
  <2>1. \A s \in Slots, c \in Conns : slot'[s].fd = c => Link(script[c], c, slot'[s], sock[c], handled[c], upcoming[c])
    BY <1>3, <1>4, Zenon
  <2> QED BY <1>1, <2>1, Zenon DEF Clients
<1>6. Places'
  BY <1>1, <1>3 DEF Places
<1>7. ActiveExact'
  <2>1. {t \in Slots : slot'[t].fd # NoConn} = {t \in Slots : slot[t].fd # NoConn}
    BY <1>3, Zenon
  <2> QED BY <1>1, <2>1, Zenon DEF ActiveExact
<1>8. Sent'
  BY <1>1, Zenon DEF Sent, ForOms, Kind
<1> QED BY <1>5, <1>6, <1>7, <1>8, Zenon DEF Kept


\* The frame to be consumed, and its client.
LEMMA FrameIs ==
  ASSUME IInv, Complete
  PROVE  LET c == slot[S].fd
             h == handled[c]
         IN  /\ S \in Slots /\ c \in Conns /\ Sl = slot[S] /\ h \in Nat /\ h + 1 \in 1 .. Len(script[c])
             /\ Sl.recv[1][1] = c /\ Sl.recv[1][2] = h + 1 /\ Frame = script[c][h + 1] /\ Frame.kind # "bad"
             /\ sock[c].st = "open" /\ gpc = "process"
<1> USE DEF IInv
<1>1. S \in Slots /\ Sl = slot[S] /\ slot[S].fd \in Conns /\ HasHeader /\ gpc = "process" /\ ~BadLength
  BY CurSlot, Zenon DEF Complete, HasHeader
<1>2. StreamIntact
  BY Implied, Zenon DEF SlotsInv
<1> DEFINE c == slot[S].fd
<1>3. /\ Sl.recv[1] = <<c, handled[c] + 1, 1>> /\ handled[c] + 1 \in 1 .. Len(script[c])
      /\ Frame = script[c][handled[c] + 1] /\ handled[c] \in Nat
  BY <1>1, <1>2, NextFrame, Zenon
<1>4. sock[c].st = "open"
  BY <1>1, Sizes, Zenon DEF Places
<1>5. Frame.kind # "bad"
  BY <1>1, Zenon DEF BadLength
<1>6. Sl.recv[1][1] = c /\ Sl.recv[1][2] = handled[c] + 1
  BY <1>3
<1> QED BY <1>1, <1>3, <1>4, <1>5, <1>6, Zenon

\* A client that has authenticated stays so.
LEMMA AuthStays ==
  ASSUME NEW f, NEW h \in Nat, AuthIn(f, h)
  PROVE  AuthIn(f, h + 1)
BY DEF AuthIn

\* The connection once the frame is consumed.
LEMMA ConsumeLink ==
  ASSUME IInv, Complete, NEW x, x.recv = Rest, x.send = slot[S].send,
         x.auth => AuthIn(script[slot[S].fd], handled[slot[S].fd] + 1)
  PROVE  LET c == slot[S].fd
             h == handled[c]
         IN  /\ Own(script[c], c, sock[c], h + 1, upcoming[c])
             /\ Link(script[c], c, x, sock[c], h + 1, upcoming[c])
<1> USE DEF IInv
<1> DEFINE c == slot[S].fd
           h == handled[c]
           f == script[c]
           u == upcoming[c]
           k == sock[c]
           v == slot[S].recv
           n == Frame.len
<1>1. /\ S \in Slots /\ c \in Conns /\ Sl = slot[S] /\ h \in Nat /\ h + 1 \in 1 .. Len(f)
      /\ Frame = f[h + 1] /\ Frame.kind # "bad" /\ k.st = "open"
  BY FrameIs, Zenon
<1>2. /\ Rest \in Seq(Cells) /\ Len(Rest) = Len(v) - n /\ n <= Len(v) /\ n \in Nat \ {0}
      /\ \A i \in 1 .. Len(Rest) : Rest[i] = v[n + i]
  <2>1. StreamIntact
    BY Implied, Zenon DEF SlotsInv
  <2> QED BY <1>1, <2>1, RestIs, Zenon
<1>3. Own(f, c, k, h, u) /\ Link(f, c, slot[S], k, h, u)
  BY <1>1, Zenon DEF Clients
<1>4. v \in Seq(Cells) /\ Len(v) \in Nat /\ k.inq \in Seq(Cells) /\ Len(f) \in Nat
  BY <1>1, SlotType, SockType, ScriptType, Zenon
<1>5. f[h + 1].len = n
  BY <1>1, Zenon
<1> HIDE DEF c, h, f, u, k, v, n
<1>5a. h \in Nat
  BY <1>1, Zenon
<1>5b. h + 1 \in Nat \ {0} /\ (h + 1) + 1 \in Nat
  BY <1>5a
<1>6. Own(f, c, k, h + 1, u)
  <2>1. \A j \in 1 .. h + 1 : j \in 1 .. h \/ j = h + 1
    BY <1>5a
  <2>2. \A j \in 1 .. h + 1 : f[j].kind # "bad"
    BY <1>1, <1>3, <2>1, Zenon DEF Own
  <2>3. h + 1 <= Len(f)
    BY <1>1, <1>4
  <2> QED BY <1>1, <1>3, <2>2, <2>3, AuthStays, Zenon DEF Own
<1>7. ASSUME NEW t \in Seq(Cells), Run(f, c, h + 1, v \o t)
      PROVE  /\ Run(f, c, (h + 1) + 1, Rest \o t)
             /\ \A w : GoesOn(f, c, h + 1, v \o t, w) => GoesOn(f, c, (h + 1) + 1, Rest \o t, w)
  <2>1. /\ v \o t \in Seq(Cells) /\ Len(v \o t) = Len(v) + Len(t) /\ Len(t) \in Nat
        /\ \A i \in 1 .. Len(v) + Len(t) : (v \o t)[i] = IF i <= Len(v) THEN v[i] ELSE t[i - Len(v)]
    BY <1>4, SeqConcat, SeqLen, Zenon
  <2>2. /\ Rest \o t \in Seq(Cells) /\ Len(Rest \o t) = Len(Rest) + Len(t) /\ Len(Rest) \in Nat
        /\ \A i \in 1 .. Len(Rest) + Len(t) : (Rest \o t)[i] = IF i <= Len(Rest) THEN Rest[i] ELSE t[i - Len(Rest)]
    <3>1. Rest \in Seq(Cells)
      BY <1>2, Zenon
    <3> QED BY <3>1, SeqConcat, SeqLen
  <2>3. n <= Len(v \o t) /\ Len(Rest \o t) = Len(v \o t) - n
    BY <1>2, <1>4, <2>1, <2>2
  <2>4. ASSUME NEW i \in 1 .. Len(Rest \o t) PROVE (Rest \o t)[i] = (v \o t)[n + i]
    <3>1. n + i \in 1 .. Len(v) + Len(t) /\ i \in 1 .. Len(Rest) + Len(t)
      BY <1>2, <1>4, <2>1, <2>2
    <3>2. CASE i <= Len(Rest)
      <4>1. i \in 1 .. Len(Rest) /\ n + i <= Len(v)
        BY <1>2, <1>4, <2>2, <3>2
      <4> QED BY <1>2, <2>1, <2>2, <3>1, <4>1
    <3>3. CASE ~(i <= Len(Rest))
      <4>1. ~(n + i <= Len(v)) /\ (n + i) - Len(v) = i - Len(Rest)
        BY <1>2, <1>4, <2>2, <3>3
      <4> QED BY <2>1, <2>2, <3>1, <3>3, <4>1, Zenon
    <3> QED BY <3>2, <3>3, Zenon
  <2> QED BY <1>2, <1>5, <1>5b, <1>7, <2>1, <2>2, <2>3, <2>4, RunRest, Zenon
<1>8. Run(f, c, (h + 1) + 1, Rest \o (IF Flows(k) THEN k.inq ELSE << >>))
  BY <1>3, <1>4, <1>7, SeqEmpty, Zenon DEF Link, v
<1>9. Flows(k) => GoesOn(f, c, (h + 1) + 1, Rest \o k.inq, u)
  BY <1>3, <1>4, <1>7, Zenon DEF Link, v
<1>10. x.auth \/ x.send # << >> => AuthIn(f, h + 1)
  BY <1>1, <1>3, AuthStays, Zenon DEF Link, f, h, c
<1>11. ~k.rst => Answers((k.got \o k.out) \o x.send)
  BY <1>3, Zenon DEF Link
<1>12. Link(f, c, x, k, h + 1, u)
  BY <1>8, <1>9, <1>10, <1>11, Zenon DEF Link
<1> QED BY <1>6, <1>12, Zenon DEF c, h, f, u, k

\* What a frame of an authenticated client adds to what went to the OMS.
LEMMA SentGrows ==
  ASSUME IInv, Complete, slot[S].auth, Frame.kind \in {"order", "cancel"},
         fwd' = Append(fwd, <<slot[S].fd, handled[slot[S].fd] + 1>>),
         handled' = [handled EXCEPT ![slot[S].fd] = handled[slot[S].fd] + 1], script' = script
  PROVE  Sent'
<1> USE DEF IInv
<1> DEFINE c == slot[S].fd
           h == handled[c]
<1>1. /\ S \in Slots /\ c \in Conns /\ h \in Nat /\ Frame = script[c][h + 1]
  BY FrameIs, Zenon
<1>2. AuthIn(script[c], h)
  BY <1>1, Zenon DEF Clients, Link
<1>3. handled \in [Conns -> Nat] /\ fwd \in Seq(OrderIds)
  BY Zenon DEF TypeOK
<1> HIDE DEF c, h
<1>4. handled'[c] = h + 1 /\ \A d \in Conns \ {c} : handled'[d] = handled[d]
  BY <1>1, <1>3, Zenon DEF c, h
<1>5. PICK l \in Nat : l = Len(fwd)
  BY <1>3, SeqLen, Zenon
<1>6. <<c, h + 1>> \in OrderIds
  BY <1>1 DEF OrderIds
<1>7. /\ fwd' \in Seq(OrderIds) /\ Len(fwd') = l + 1 /\ (\A i \in 1 .. l : fwd'[i] = fwd[i]) /\ fwd'[l + 1] = <<c, h + 1>>
  BY <1>3, <1>5, <1>6, SeqAppend DEF c, h
<1>8. DOMAIN fwd = 1 .. l /\ DOMAIN fwd' = 1 .. l + 1
  BY <1>3, <1>5, <1>7, SeqLen, Zenon
<1>9. \A i \in 1 .. l : fwd[i][1] \in Conns /\ fwd[i][2] \in Nat
  <2>1. \A i \in 1 .. l : fwd[i] \in OrderIds
    BY <1>3, <1>5, SeqElement, Zenon
  <2> QED BY <2>1, Zenon DEF OrderIds
<1>10. ASSUME NEW i \in 1 .. l PROVE fwd[i][2] \in 1 .. handled'[fwd[i][1]] /\ (fwd[i][1] = c => fwd[i][2] < h + 1)
  <2>1. PICK d \in Conns, m \in Nat : d = fwd[i][1] /\ m = fwd[i][2]
    BY <1>9, Zenon
  <2>2. m \in 1 .. handled[d] /\ handled[d] \in Nat
    BY <1>3, <1>8, <2>1, Zenon DEF Sent
  <2>3. CASE d = c
    BY <1>1, <1>4, <2>1, <2>2, <2>3 DEF h
  <2>4. CASE d # c
    BY <1>4, <2>1, <2>2, <2>4, Zenon
  <2> QED BY <2>3, <2>4, Zenon
<1>11. ForOms(c, h + 1)
  BY <1>1, <1>2 DEF ForOms, Kind, AuthIn
<1>12. \A i \in DOMAIN fwd' : i \in 1 .. l \/ i = l + 1
  BY <1>8
<1>13. \A i \in DOMAIN fwd' : fwd'[i][2] \in 1 .. handled'[fwd'[i][1]] /\ ForOms(fwd'[i][1], fwd'[i][2])
  <2>1. ASSUME NEW i \in 1 .. l PROVE fwd'[i][2] \in 1 .. handled'[fwd'[i][1]] /\ ForOms(fwd'[i][1], fwd'[i][2])
    BY <1>7, <1>8, <1>10, Zenon DEF Sent
  <2>2. fwd'[l + 1][1] = c /\ fwd'[l + 1][2] = h + 1 /\ h + 1 \in 1 .. handled'[c]
    BY <1>1, <1>4, <1>7
  <2> QED BY <1>11, <1>12, <2>1, <2>2, Zenon
<1>14. \A i, j \in DOMAIN fwd' : i < j /\ fwd'[i][1] = fwd'[j][1] => fwd'[i][2] < fwd'[j][2]
  <2> SUFFICES ASSUME NEW i \in DOMAIN fwd', NEW j \in DOMAIN fwd', i < j, fwd'[i][1] = fwd'[j][1]
               PROVE  fwd'[i][2] < fwd'[j][2]
    BY Zenon
  <2>1. i \in 1 .. l
    BY <1>8
  <2>2. CASE j \in 1 .. l
    BY <1>7, <1>8, <2>1, <2>2, Zenon DEF Sent
  <2>3. CASE j = l + 1
    BY <1>7, <1>10, <2>1, <2>3
  <2> QED BY <1>12, <2>2, <2>3, Zenon
<1> QED BY <1>13, <1>14, Zenon DEF Sent, ForOms, Kind

\* A frame is consumed.
LEMMA FrameKept ==
  ASSUME IInv, Auth \/ Skip \/ Order \/ Cancel
  PROVE  Kept
<1> USE DEF IInv
<1> DEFINE c == slot[S].fd
           h == handled[c]
<1>0. Complete /\ Consumed /\ UNCHANGED <<sock, active, backlog, script, upcoming, gpc>>
  BY Zenon DEF Auth, Skip, Order, Cancel
<1>1. /\ S \in Slots /\ c \in Conns /\ Sl = slot[S] /\ h \in Nat /\ h + 1 \in 1 .. Len(script[c])
      /\ Sl.recv[1][1] = c /\ Sl.recv[1][2] = h + 1 /\ Frame = script[c][h + 1]
      /\ sock[c].st = "open" /\ gpc = "process"
  BY <1>0, FrameIs, Zenon
<1>2. handled' = [handled EXCEPT ![c] = h + 1] /\ slot[S] \in SlotTypes /\ IsFun(sock, Conns) /\ handled \in [Conns -> Nat]
  BY <1>0, <1>1, SlotType, TypesAre, Zenon DEF Consumed, TypeOK
<1>3. sock' = [sock EXCEPT ![c] = sock[c]]
  BY <1>0, <1>1, <1>2, Zenon DEF IsFun
<1>4. slot[S].auth => AuthIn(script[c], h) /\ AuthIn(script[c], h + 1)
  BY <1>1, AuthStays, Zenon DEF Clients, Link
<1>5. ASSUME NEW x, slot' = [slot EXCEPT ![S] = x], x.fd = c, x.recv = Rest, x.send = slot[S].send,
             x.auth => AuthIn(script[c], h + 1), Sent'
      PROVE  Kept
  <2>1. Own(script[c], c, sock[c], h + 1, upcoming[c]) /\ Link(script[c], c, x, sock[c], h + 1, upcoming[c])
    BY <1>0, <1>5, ConsumeLink, Zenon
  <2>2. OnConn(S, c, x, sock[c], h + 1)
    BY <1>0, <1>1, <1>2, <1>3, <1>5, Zenon DEF OnConn
  <2> QED BY <1>1, <1>5, <2>1, <2>2, ConnStep, Zenon
<1>6. UNCHANGED fwd => Sent'
  <2>1. handled' \in [Conns -> Nat] /\ \A d \in Conns : handled[d] <= handled'[d]
    <3>1. PICK d \in Conns, m \in Nat : d = c /\ m = handled[d]
      BY <1>1, Zenon
    <3>2. handled' = [handled EXCEPT ![d] = m + 1] /\ handled \in [Conns -> Nat]
      BY <1>2, <3>1, Zenon
    <3> QED BY <3>1, <3>2
  <2> QED BY <1>0, <2>1, SentStays, Zenon
<1>7. MayTrade /\ Frame.kind \in {"order", "cancel"} /\ Queue(<<Sl.fd, Sl.recv[1][2]>>) => Sent'
  <2>1. CASE fwd' = Append(fwd, <<Sl.fd, Sl.recv[1][2]>>)
    BY <1>0, <1>1, <1>2, <2>1, SentGrows, Zenon DEF MayTrade
  <2>2. CASE UNCHANGED fwd
    BY <1>6, <2>2, Zenon
  <2> QED BY <2>1, <2>2, Zenon DEF Queue
<1>8. CASE Auth
  <2> DEFINE b == slot[S].auth \/ KeyIsValid
             x == [slot[S] EXCEPT !.auth = b, !.recv = Rest]
  <2>1. slot' = [slot EXCEPT ![S] = x] /\ UNCHANGED fwd
    BY <1>8, Zenon DEF Auth
  <2>2. b => AuthIn(script[c], h + 1)
    <3>1. KeyIsValid => AuthIn(script[c], h + 1)
      <4>1. h + 1 \in 1 .. h + 1
        BY <1>1
      <4> QED BY <1>1, <4>1, Zenon DEF KeyIsValid, AuthIn
    <3> QED BY <1>4, <3>1, Zenon
  <2> HIDE DEF b
  <2>3. x.fd = c /\ x.recv = Rest /\ x.send = slot[S].send /\ x.auth = b
    BY <1>2, Zenon DEF SlotTypes
  <2> HIDE DEF x, c, h
  <2>4. x.auth => AuthIn(script[c], h + 1)
    BY <2>2, <2>3, Zenon
  <2>5. Sent'
    BY <1>6, <2>1, Zenon
  <2> QED BY <1>5, <2>1, <2>3, <2>4, <2>5, Zenon
<1>9. CASE Skip \/ Cancel
  <2> DEFINE x == [slot[S] EXCEPT !.recv = Rest]
  <2>1. slot' = [slot EXCEPT ![S] = x]
    BY <1>9, Zenon DEF Skip, Cancel
  <2>2. Sent'
    BY <1>6, <1>7, <1>9, Zenon DEF Skip, Cancel
  <2>3. x.fd = c /\ x.recv = Rest /\ x.send = slot[S].send /\ x.auth = slot[S].auth
    BY <1>2, Zenon DEF SlotTypes
  <2> HIDE DEF x, c, h
  <2>4. x.auth => AuthIn(script[c], h + 1)
    BY <1>4, <2>3, Zenon
  <2> QED BY <1>5, <2>1, <2>2, <2>3, <2>4, Zenon
<1>10. CASE Order
  <2> DEFINE a == Admit(now, Sl.start, Sl.count, idem, Frame.id)
             x == [slot[S] EXCEPT !.recv = Rest, !.start = a.start, !.count = a.count]
  <2>1. slot' = [slot EXCEPT ![S] = x]
    BY <1>10, Zenon DEF Order
  <2>2. Sent'
    <3>1. Queue(<<Sl.fd, Sl.recv[1][2]>>) \/ UNCHANGED fwd
      BY <1>10, Zenon DEF Order
    <3> QED BY <1>6, <1>7, <1>10, <3>1, Zenon DEF Order
  <2> HIDE DEF a
  <2>3. x.fd = c /\ x.recv = Rest /\ x.send = slot[S].send /\ x.auth = slot[S].auth
    BY <1>2, Zenon DEF SlotTypes
  <2> HIDE DEF x, c, h
  <2>4. x.auth => AuthIn(script[c], h + 1)
    BY <1>4, <2>3, Zenon
  <2> QED BY <1>5, <2>1, <2>2, <2>3, <2>4, Zenon
<1> QED BY <1>8, <1>9, <1>10, Zenon


\* Sending leaves the connection in order.
LEMMA SendingKeeps ==
  ASSUME IInv, NEW s \in Slots, NEW c \in Conns, slot[s].fd = c, sock[c].st = "open", NEW x, NEW m,
         Passes(slot[s], sock[c], x, m)
  PROVE  /\ Own(script[c], c, m, handled[c], upcoming[c])
         /\ Link(script[c], c, x, m, handled[c], upcoming[c])
<1> USE DEF IInv
<1> DEFINE f == script[c]
           h == handled[c]
           u == upcoming[c]
           k == sock[c]
           v == slot[s]
<1>1. Own(f, c, k, h, u) /\ Link(f, c, v, k, h, u)
  BY Zenon DEF Clients
<1>2. /\ k.got \in Seq(RespCell) /\ k.out \in Seq(RespCell) /\ v.send \in Seq(RespCell)
  BY SlotType, SockType, Zenon
<1>3. /\ m.out \in Seq(RespCell) /\ x.send \in Seq(RespCell) /\ m.got = k.got /\ m.out \o x.send = k.out \o v.send
      /\ m.st = "open" /\ m.rst = k.rst /\ m.inq = k.inq /\ x.recv = v.recv /\ x.auth = v.auth
  BY Zenon DEF Passes, SlotOK, SockOK, SlotTypes, SockTypes
<1> HIDE DEF f, h, u, k, v
<1> DEFINE w == (k.got \o k.out) \o v.send
<1>4. (m.got \o m.out) \o x.send = w
  <2>1. (k.got \o m.out) \o x.send = k.got \o (m.out \o x.send)
    BY <1>2, <1>3, Associates, Zenon
  <2>2. k.got \o (k.out \o v.send) = (k.got \o k.out) \o v.send
    BY <1>2, Associates, Zenon
  <2> QED BY <1>3, <2>1, <2>2, Zenon
<1>5. m.got \o m.out \in Seq(RespCell) /\ k.got \o k.out \in Seq(RespCell)
  BY <1>2, <1>3, SeqConcat, Zenon
<1>6. \A a, b \in Seq(RespCell) : a \o b = << >> <=> a = << >> /\ b = << >>
  BY SeqConcat, SeqLen, SeqEmpty
<1>7. w # << >> => AuthIn(f, h)
  BY <1>1, <1>2, <1>5, <1>6, Zenon DEF Own, Link
<1>8. (m.got \o m.out # << >> \/ x.send # << >>) => w # << >>
  <2> DEFINE p == m.got \o m.out
  <2>1. p \in Seq(RespCell) /\ x.send \in Seq(RespCell) /\ p \o x.send = w
    BY <1>3, <1>4, <1>5, Zenon
  <2> HIDE DEF p, w
  <2>2. p \o x.send = << >> <=> p = << >> /\ x.send = << >>
    BY <1>6, <2>1, Zenon
  <2>3. (p # << >> \/ x.send # << >>) => w # << >>
    BY <2>1, <2>2, Zenon
  <2> QED BY <2>3, Zenon DEF p
<1>9. x.auth => AuthIn(f, h)
  BY <1>1, <1>3, Zenon DEF Link
<1>10. ~k.rst => Answers(w)
  BY <1>1, Zenon DEF Link
<1> HIDE DEF w
<1>11. ~k.rst => Whole(m.got \o m.out)
  <2> HAVE ~k.rst
  <2>1. Whole((m.got \o m.out) \o x.send)
    BY <1>4, <1>10, Zenon DEF Answers
  <2> QED BY <1>3, <1>5, <2>1, WholePrefix, Zenon
<1>12. Own(f, c, m, h, u)
  BY <1>1, <1>3, <1>7, <1>8, <1>11, Zenon DEF Own
<1>13. k.st = "open"
  BY Zenon DEF k
<1>14. Link(f, c, x, m, h, u)
  <2>1. Flows(m) <=> Flows(k)
    BY <1>3, <1>13, Zenon DEF Flows
  <2>2. Run(f, c, h + 1, x.recv \o (IF Flows(m) THEN m.inq ELSE << >>)) /\ (Flows(m) => GoesOn(f, c, h + 1, x.recv \o m.inq, u))
    BY <1>1, <1>3, <2>1, Zenon DEF Link
  <2>3. ~m.rst => Answers((m.got \o m.out) \o x.send)
    BY <1>3, <1>4, <1>10, Zenon
  <2>4. x.auth \/ x.send # << >> => AuthIn(f, h)
    BY <1>7, <1>8, <1>9, Zenon
  <2> QED BY <2>2, <2>3, <2>4, Zenon DEF Link
<1> QED BY <1>12, <1>14, Zenon DEF f, h, u

\* The end of an event.
LEMMA FinishKept ==
  ASSUME SlotFacts, IInv, Finish
  PROVE  Kept
<1> USE DEF IInv
<1>1. PICK x, m : /\ S \in Slots /\ slot[S].fd \in Conns /\ K = sock[slot[S].fd]
                  /\ Passes(slot[S], K, x, m)
                  /\ \/ /\ slot' = [slot EXCEPT ![S] = x] /\ sock' = [sock EXCEPT ![slot[S].fd] = m]
                        /\ active' = active
                     \/ /\ slot' = [slot EXCEPT ![S] = [x EXCEPT !.fd = NoConn]]
                        /\ sock' = [sock EXCEPT ![slot[S].fd] = Closed(m)] /\ active' = active - 1
  BY FinishIs, Zenon
<1> DEFINE c == slot[S].fd
           f == script[c]
           h == handled[c]
           u == upcoming[c]
<1>2. gpc = "finish" /\ gpc' = "events" /\ UNCHANGED <<backlog, script, upcoming, handled, fwd>>
  BY Zenon DEF Finish
<1>3. c \in Conns /\ S \in Slots /\ slot[S].fd = c /\ c # NoConn /\ sock[c].st = "open" /\ Passes(slot[S], sock[c], x, m)
  BY <1>1, <1>2, Sizes, Zenon DEF Places
<1>4. Own(f, c, m, h, u) /\ Link(f, c, x, m, h, u)
  BY <1>3, SendingKeeps, Zenon
<1>5. Sent'
  BY <1>2, Zenon DEF Sent, ForOms, Kind
<1>6. handled \in [Conns -> Nat] /\ IsFun(slot, Slots) /\ IsFun(sock, Conns)
  BY TypesAre, Zenon DEF TypeOK
<1>7. CASE slot' = [slot EXCEPT ![S] = x] /\ sock' = [sock EXCEPT ![c] = m] /\ active' = active
  <2>1. handled' = [handled EXCEPT ![c] = h]
    BY <1>2, <1>3, <1>6, Zenon
  <2>2. x.fd = c /\ m.st = sock[c].st
    BY <1>3, Zenon DEF Passes
  <2>3. OnConn(S, c, x, m, h)
    BY <1>2, <1>7, <2>1, <2>2, Zenon DEF OnConn
  <2> QED BY <1>3, <1>4, <1>5, <2>3, ConnStep, Zenon
<1>8. CASE /\ slot' = [slot EXCEPT ![S] = [x EXCEPT !.fd = NoConn]]
           /\ sock' = [sock EXCEPT ![c] = Closed(m)] /\ active' = active - 1
  <2> DEFINE y == [x EXCEPT !.fd = NoConn]
             k == Closed(m)
  <2>1. y.fd = NoConn
    BY <1>3, Zenon DEF Passes, SlotOK, SlotTypes
  <2>2. k.st = "closed" /\ k.rst = m.rst /\ k.out = m.out /\ k.got = m.got
    BY <1>3, ClosedOK, Zenon DEF Passes
  <2> HIDE DEF y, k
  <2>3. /\ slot'[S] = y /\ (\A t \in Slots \ {S} : slot'[t] = slot[t])
        /\ sock'[c] = k /\ \A d \in Conns \ {c} : sock'[d] = sock[d]
    BY <1>3, <1>6, <1>8, Zenon DEF IsFun, y, k
  <2> HIDE DEF c, f, h, u
  <2>4. Own(f, c, k, h, u)
    BY <1>4, <2>2, Zenon DEF Own
  <2>5. \A t \in Slots : slot'[t].fd # c
    BY <1>3, <2>1, <2>3, Sizes DEF Places
  <2>6. \A t \in Slots : slot'[t].fd # NoConn => t # S /\ slot'[t] = slot[t]
    BY <2>1, <2>3, Zenon
  <2>7. Clients'
    <3>1. Own(script[c], c, sock'[c], handled'[c], upcoming'[c])
      BY <1>2, <2>3, <2>4, Zenon DEF f, h, u
    <3>2. \A t \in Slots : slot'[t].fd \in Conns \ {c} => slot'[t] = slot[t]
      BY <2>6, Sizes, Zenon
    <3> QED BY <1>2, <1>3, <2>3, <2>5, <3>1, <3>2, ClientStep, Zenon DEF SameSock, SameSlot
  <2>8. Places'
    <3>1. \A t \in Slots : slot[t].fd # NoConn => slot[t].fd \in Conns
      BY SlotType, Zenon
    <3>2. \A i \in DOMAIN backlog : backlog[i] \in Conns \ {c} /\ sock[backlog[i]].st = "queued"
      <4>1. \A i \in DOMAIN backlog : backlog[i] \in Conns
        BY SeqElement DEF TypeOK
      <4> QED BY <1>3, <4>1, Zenon DEF Places
    <3>3. \A i \in DOMAIN backlog : sock'[backlog[i]].st = "queued"
      BY <2>3, <3>2, Zenon
    <3>4. \A t \in Slots : slot'[t].fd # NoConn => sock'[slot'[t].fd].st = "open"
      BY <1>2, <2>3, <2>5, <2>6, <3>1 DEF Places
    <3> QED BY <1>2, <2>6, <3>3, <3>4 DEF Places
  <2>9. ActiveExact'
    <3> DEFINE A == {t \in Slots : slot[t].fd # NoConn}
               B == {t \in Slots : slot'[t].fd # NoConn}
    <3>1. B = A \ {S} /\ S \in A
      BY <1>3, <2>1, <2>3
    <3>2. A \in SUBSET Slots
      BY Zenon
    <3> HIDE DEF A, B
    <3>3. Cardinality(B) = Cardinality(A) - 1
      BY <3>1, <3>2, Zenon DEF SlotFacts
    <3> USE DEF A, B
    <3> QED BY <1>8, <3>3, Zenon DEF ActiveExact
  <2> QED BY <1>5, <2>7, <2>8, <2>9, Zenon DEF Kept
<1> QED BY <1>1, <1>7, <1>8, Zenon

\* bt_gateway_stop closes what is open.
LEMMA StopKept ==
  ASSUME IInv, StopEnd
  PROVE  Kept
<1> USE DEF IInv
<1>1. /\ gpc = "exited" /\ gpc' = "stopped" /\ backlog' = << >>
      /\ sock' = [c \in Conns |-> IF sock[c].st = "none" THEN sock[c] ELSE Closed(sock[c])]
      /\ UNCHANGED <<slot, active, script, upcoming, handled, fwd>>
  BY Zenon DEF StopEnd
<1>2. \A c \in Conns : /\ Closed(sock[c]).st = "closed" /\ Closed(sock[c]).rst = sock[c].rst
                       /\ Closed(sock[c]).out = sock[c].out /\ Closed(sock[c]).got = sock[c].got
  BY TypesAre, ClosedOK, Zenon
<1>3. ASSUME NEW c \in Conns PROVE Own(script[c], c, sock'[c], handled[c], upcoming[c])
  <2>1. Own(script[c], c, sock[c], handled[c], upcoming[c])
    BY Zenon DEF Clients
  <2>2. CASE sock[c].st = "none"
    BY <1>1, <2>1, <2>2, Zenon
  <2>3. CASE sock[c].st # "none"
    <3>1. sock'[c] = Closed(sock[c])
      BY <1>1, <2>3, Zenon
    <3> QED BY <1>2, <2>1, <3>1, Zenon DEF Own
  <2> QED BY <2>2, <2>3, Zenon
<1>4. ASSUME NEW s \in Slots, NEW c \in Conns, slot[s].fd = c
      PROVE  sock'[c].st = "closed" /\ Link(script[c], c, slot[s], sock'[c], handled[c], upcoming[c])
  <2> DEFINE f == script[c]
             h == handled[c]
             u == upcoming[c]
             v == slot[s]
             k == sock[c]
             m == sock'[c]
  <2>1. Link(f, c, v, k, h, u) /\ v.recv \in Seq(Cells) /\ k.inq \in Seq(Cells)
    BY <1>4, SlotType, SockType, Zenon DEF Clients
  <2>2. k.st = "open"
    BY <1>1, <1>4, Sizes, Zenon DEF Places
  <2>3. m.st = "closed" /\ m.rst = k.rst /\ m.out = k.out /\ m.got = k.got
    BY <1>1, <1>2, <2>2, Zenon
  <2> HIDE DEF f, h, u, v, k, m
  <2>4. Run(f, c, h + 1, v.recv)
    <3>1. PICK q \in Seq(Cells) : Run(f, c, h + 1, v.recv \o q)
      BY <2>1, SeqEmpty, Zenon DEF Link
    <3> QED BY <2>1, <3>1, RunPrefix, Zenon
  <2>5. v.recv \o << >> = v.recv /\ ~Flows(m)
    BY <2>1, <2>3, Alone, Zenon DEF Flows
  <2>6. Link(f, c, v, m, h, u)
    BY <2>1, <2>3, <2>4, <2>5, Zenon DEF Link
  <2> QED BY <2>3, <2>6, Zenon DEF f, h, u, v, m
<1>5. Clients'
  BY <1>1, <1>3, <1>4, Zenon DEF Clients
<1>6. Places'
  <2>1. \A t \in Slots : slot[t].fd # NoConn => slot[t].fd \in Conns
    BY SlotType, Zenon
  <2>2. DOMAIN << >> = {}
    BY SeqEmpty
  <2> QED BY <1>1, <1>4, <2>1, <2>2, Zenon DEF Places
<1>7. ActiveExact' /\ Sent'
  BY <1>1, Zenon DEF ActiveExact, Sent, ForOms, Kind
<1> QED BY <1>5, <1>6, <1>7, Zenon DEF Kept

\* At the start the invariant holds.
LEMMA GatewayInit ==
  ASSUME SlotFacts, Init
  PROVE  IInv
<1>1. TypeOK
  BY InitTypes, Zenon
<1>2. /\ \A s \in Slots : slot[s].fd = NoConn
      /\ \A c \in Conns : /\ sock[c].st = "none" /\ sock[c].inq = << >> /\ sock[c].rst = FALSE
                          /\ sock[c].out = << >> /\ sock[c].got = << >>
                          /\ handled[c] = 0 /\ upcoming[c] = <<c, 1, 1>>
  BY Zenon DEF Init, Fresh, NewSock
<1>3. events = {} /\ gpc = "top" /\ backlog = << >> /\ fwd = << >> /\ active = 0
  BY Zenon DEF Init
<1>4. EventsOwn
  BY <1>3, Zenon DEF EventsOwn
<1>5. ActiveExact
  <2>1. {s \in Slots : slot[s].fd # NoConn} = {}
    BY <1>2, Zenon
  <2> QED BY <1>3, <2>1, Zenon DEF ActiveExact, SlotFacts
<1>6. DOMAIN << >> = {}
  BY SeqEmpty
<1>7. Places /\ Sent
  BY <1>2, <1>3, <1>6, Zenon DEF Places, Sent
<1>8. Clients
  <2>1. ASSUME NEW c \in Conns PROVE Own(script[c], c, sock[c], handled[c], upcoming[c])
    <3>1. Len(script[c]) \in Nat
      BY <1>1, ScriptType, Zenon
    <3>2. sock[c].got \o sock[c].out = << >> /\ Whole(<< >>)
      BY <1>2, <1>6 DEF Whole
    <3>3. 0 <= Len(script[c]) /\ \A j \in 1 .. 0 : script[c][j].kind # "bad"
      BY <3>1
    <3> QED BY <1>2, <3>2, <3>3, Zenon DEF Own
  <2> QED BY <1>2, <2>1, Sizes, Zenon DEF Clients
<1> QED BY <1>1, <1>4, <1>5, <1>7, <1>8, Zenon DEF IInv

\* Every step keeps it.
LEMMA GatewayStep ==
  ASSUME SlotFacts, IInv, [Next]_vars
  PROVE  IInv'
<1>1. TypeOK /\ EventsOwn /\ StreamIntact
  BY Implied, Zenon DEF IInv, SlotsInv
<1>2. TypeOK' /\ EventsOwn'
  BY <1>1, TypeStep, EventsStep, Zenon
<1>3. Kept
  BY StillSteps, ConnectKept, SendKept, ResetKept, ReceiveKept, AcceptKept, RefuseKept, ReadKept, DrainKept, FrameKept,
     FinishKept, StopKept, Zenon DEF Next, Thread, External
<1> QED BY <1>2, <1>3, Zenon DEF Kept, IInv

\* Slots as they are as far as serving goes.
Alike(x, y) == y.fd = x.fd /\ y.auth = x.auth /\ y.count = x.count

\* The slot x of a client that sends the frames f, h of which were handled, lets it trade.
Meets(f, x, h) == (AuthIn(f, h) => x.auth) /\ x.count <= h

\* Every client got what it asked for.
Reached == \A c \in Conns : \A k \in 1 .. handled[c] : ForOms(c, k) => \E i \in DOMAIN fwd : fwd[i] = <<c, k>>
Served == /\ \A s \in Slots, c \in Conns : slot[s].fd = c => Meets(script[c], slot[s], handled[c])
          /\ Reached

\* Steps that handle no frame and take no connection.
LEMMA ServedStays ==
  ASSUME Served, UNCHANGED <<script, handled, fwd>>, \A s \in Slots : slot'[s].fd # NoConn => Alike(slot[s], slot'[s])
  PROVE  Served'
<1>1. Reached'
  BY DEF Served, Reached, ForOms, Kind
<1>2. ASSUME NEW s \in Slots, NEW c \in Conns, slot'[s].fd = c PROVE Meets(script[c], slot'[s], handled[c])
  <2>1. Alike(slot[s], slot'[s])
    BY <1>2, Sizes, Zenon
  <2>2. slot[s].fd = c
    BY <1>2, <2>1, Zenon DEF Alike
  <2>3. Meets(script[c], slot[s], handled[c])
    BY <2>2, Zenon DEF Served
  <2> QED BY <2>1, <2>3, Zenon DEF Alike, Meets
<1> QED BY <1>1, <1>2, Zenon DEF Served

\* One slot changes.
LEMMA OneAlike ==
  ASSUME TypeOK, NEW s \in Slots, NEW x, slot' = [slot EXCEPT ![s] = x], x.fd # NoConn => Alike(slot[s], x)
  PROVE  \A u \in Slots : slot'[u].fd # NoConn => Alike(slot[u], slot'[u])
<1>1. IsFun(slot, Slots)
  BY TypesAre, Zenon
<1>2. slot'[s] = x /\ \A u \in Slots \ {s} : slot'[u] = slot[u]
  BY <1>1, Zenon DEF IsFun
<1>3. \A u \in Slots : Alike(slot[u], slot[u])
  BY Zenon DEF Alike
<1> QED BY <1>2, <1>3, Zenon

\* The steps outside the processing of frames.
LEMMA ServedOutside ==
  ASSUME IInv, Served,
         \/ External \/ StopBegin \/ StopEnd \/ Top \/ Drain \/ Drained \/ Wait \/ WaitFails \/ Dispatch \/ Scan
         \/ Refuse \/ AcceptDone \/ ReadSome \/ ReadEnd \/ ReadAgain \/ ProcessBad \/ ProcessDone \/ Finish
         \/ UNCHANGED vars
  PROVE  Served'
<1> USE DEF IInv
<1>0. /\ UNCHANGED <<script, handled, fwd>>
  BY Zenon DEF External, Connect, Send, Fin, Reset, Receive, Respond, Tick, Quiet, StopBegin, StopEnd, Top, Drain, Drained,
         Wait, WaitFails, Dispatch, Scan, Refuse, AcceptDone, ReadSome, ReadEnd, ReadAgain, ProcessBad, ProcessDone,
         Finish, vars
<1>1. /\ \A s \in Slots : \A q : /\ Alike(slot[s], [slot[s] EXCEPT !.send = q])
                                 /\ Alike(slot[s], [slot[s] EXCEPT !.closing = q])
                                 /\ Alike(slot[s], [slot[s] EXCEPT !.idle = q])
                                 /\ Alike(slot[s], [slot[s] EXCEPT !.recv = q, !.idle = FALSE])
      /\ \A s \in Slots : Alike(slot[s], slot[s])
  <2>1. \A s \in Slots : slot[s] \in SlotTypes
    BY SlotType, Zenon
  <2> QED BY <2>1, Zenon DEF Alike, SlotTypes
<1> DEFINE Goal == \A s \in Slots : slot'[s].fd # NoConn => Alike(slot[s], slot'[s])
<1> SUFFICES Goal
  BY <1>0, ServedStays, Zenon
<1>2. CASE UNCHANGED slot
  BY <1>1, <1>2, Zenon
<1>3. ASSUME NEW s \in Slots, Quiet(s) PROVE Goal
  <2>1. slot' = [slot EXCEPT ![s] = [slot[s] EXCEPT !.idle = TRUE]]
    BY <1>3, Zenon DEF Quiet
  <2> QED BY <1>1, <2>1, OneAlike, Zenon
<1>4. CASE Drain
  <2>1. PICK r : slot' = [s \in Slots |-> IF Wants(slot[s]) /\ Room(slot[s])
                                          THEN [slot[s] EXCEPT !.send = slot[s].send \o r] ELSE slot[s]]
    BY <1>4, Zenon DEF Drain
  <2> QED BY <1>1, <2>1, Zenon
<1>5. CASE Scan
  BY <1>1, <1>5, Zenon DEF Scan
<1>6. CASE Dispatch
  <2>1. PICK e \in events : slot' = IF e.ptr # 0 /\ e.hup THEN [slot EXCEPT ![e.ptr].closing = TRUE] ELSE slot
    BY <1>6, Zenon DEF Dispatch
  <2>2. CASE e.ptr # 0 /\ e.hup
    <3>1. slot' = [slot EXCEPT ![e.ptr] = [slot[e.ptr] EXCEPT !.closing = TRUE]]
      BY <2>1, <2>2, Zenon
    <3>2. e.ptr \in Slots
      BY <2>2, Sizes DEF TypeOK, Events, Slots
    <3> QED BY <1>1, <3>1, <3>2, OneAlike, Zenon
  <2>3. CASE ~(e.ptr # 0 /\ e.hup)
    BY <1>2, <2>1, <2>3, Zenon
  <2> QED BY <2>2, <2>3, Zenon
<1>7. CASE ReadEnd \/ ProcessBad
  <2>1. slot' = [slot EXCEPT ![S] = [slot[S] EXCEPT !.closing = TRUE]] /\ S \in Slots
    BY <1>7, CurSlot, Zenon DEF ReadEnd, ProcessBad, HasHeader
  <2> QED BY <1>1, <2>1, OneAlike, Zenon
<1>8. CASE ReadSome
  <2>1. PICK p : S \in Slots /\ slot' = [slot EXCEPT ![S] = [slot[S] EXCEPT !.recv = slot[S].recv \o p, !.idle = FALSE]]
    BY <1>8, ReadIs, Zenon
  <2> QED BY <1>1, <2>1, OneAlike, Zenon
<1>9. CASE Finish
  <2>1. PICK x, m : /\ S \in Slots /\ Passes(slot[S], K, x, m)
                    /\ slot' = [slot EXCEPT ![S] = x] \/ slot' = [slot EXCEPT ![S] = [x EXCEPT !.fd = NoConn]]
    BY <1>9, FinishIs, Zenon
  <2>2. Alike(slot[S], x)
    BY <2>1, Zenon DEF Passes, Alike
  <2>3. [x EXCEPT !.fd = NoConn].fd = NoConn
    BY <2>1, Zenon DEF Passes, SlotOK, SlotTypes
  <2> QED BY <2>1, <2>2, <2>3, OneAlike, Zenon
<1> QED
  BY <1>2, <1>3, <1>4, <1>5, <1>6, <1>7, <1>8, <1>9, Zenon DEF External, Connect, Send, Fin, Reset, Receive, Respond, Tick,
     StopBegin, StopEnd, Top, Drained, Wait, WaitFails, Refuse, AcceptDone, ReadAgain, ProcessDone, vars

\* A new connection has sent nothing.
LEMMA ServedAccept ==
  ASSUME SlotFacts, IInv, Served, Accept
  PROVE  Served'
<1> USE DEF IInv
<1>1. FirstFree \in Slots /\ slot[FirstFree].fd = NoConn
  BY FirstFreeIsFree, Zenon DEF Accept
<1> DEFINE c == Head(backlog)
           x == Fresh(c)
<1>2. /\ slot' = [slot EXCEPT ![FirstFree] = x] /\ backlog # << >> /\ UNCHANGED <<script, handled, fwd>>
  BY Zenon DEF Accept, Reused
<1>3. c \in Conns /\ sock[c].st = "queued"
  <2>1. backlog \in Seq(Conns)
    BY Zenon DEF TypeOK
  <2>2. 1 \in DOMAIN backlog /\ c = backlog[1] /\ c \in Conns
    BY <1>2, <2>1, SeqTail, SeqLen, SeqEmpty
  <2> QED BY <2>2, Zenon DEF Places
<1>4. handled[c] = 0
  BY <1>3, Zenon DEF Clients, Own
<1>5. x.fd = c /\ x.count = 0 /\ x.auth = FALSE
  BY Zenon DEF Fresh
<1> HIDE DEF x, c
<1>6. slot'[FirstFree] = x /\ \A s \in Slots \ {FirstFree} : slot'[s] = slot[s]
  <2>1. IsFun(slot, Slots)
    BY TypesAre, Zenon
  <2> QED BY <1>1, <1>2, <2>1, Zenon DEF IsFun
<1>7. Meets(script[c], x, 0)
  BY <1>5 DEF Meets, AuthIn
<1>8. Reached'
  BY <1>2 DEF Served, Reached, ForOms, Kind
<1>9. ASSUME NEW s \in Slots, NEW d \in Conns, slot'[s].fd = d PROVE Meets(script[d], slot'[s], handled[d])
  <2>1. CASE s = FirstFree
    BY <1>4, <1>5, <1>6, <1>7, <1>9, <2>1, Zenon
  <2>2. CASE s # FirstFree
    BY <1>6, <1>9, <2>2, Zenon DEF Served
  <2> QED BY <2>1, <2>2, Zenon
<1> QED BY <1>2, <1>8, <1>9, Zenon DEF Served

\* A frame is handled.
LEMMA ServedFrame ==
  ASSUME IInv, Served, Unlimited, Auth \/ Skip \/ Order \/ Cancel
  PROVE  Served'
<1> USE DEF IInv
<1> DEFINE c == slot[S].fd
           h == handled[c]
           f == script[c]
           v == slot[S]
           o == <<c, h + 1>>
<1>0. Complete /\ Consumed /\ UNCHANGED script
  BY Zenon DEF Auth, Skip, Order, Cancel
<1>1. /\ S \in Slots /\ c \in Conns /\ Sl = v /\ h \in Nat /\ h + 1 \in 1 .. Len(f)
      /\ Sl.recv[1][1] = c /\ Sl.recv[1][2] = h + 1 /\ Frame = f[h + 1]
  BY <1>0, FrameIs, Zenon
<1>2. handled' = [handled EXCEPT ![c] = h + 1] /\ v \in SlotTypes /\ handled \in [Conns -> Nat] /\ IsFun(slot, Slots)
  BY <1>0, <1>1, SlotType, TypesAre, Zenon DEF Consumed, TypeOK
<1>3. f \in Scripts /\ Len(f) \in Nat
  BY <1>1, ScriptType, Zenon DEF TypeOK
<1>4. Meets(f, v, h)
  BY <1>1, Zenon DEF Served
<1>5. v.fd = c /\ v.count \in Nat /\ v.count <= h /\ v.auth \in BOOLEAN
  BY <1>2, <1>4, Zenon DEF Meets, SlotTypes
<1>6. AuthIn(f, h + 1) => v.auth \/ KeyIsValid
  <2>1. ASSUME NEW j \in 1 .. h + 1, f[j].kind = "auth" PROVE AuthIn(f, h) \/ KeyIsValid
    <3>1. CASE j = h + 1
      BY <1>1, <2>1, <3>1, Zenon DEF KeyIsValid
    <3>2. CASE j # h + 1
      <4>1. j \in 1 .. h
        BY <1>1, <3>2
      <4> QED BY <2>1, <4>1, Zenon DEF AuthIn
    <3> QED BY <3>1, <3>2, Zenon
  <2> QED BY <1>4, <2>1, Zenon DEF AuthIn, Meets
<1>7. handled'[c] = h + 1 /\ \A d \in Conns \ {c} : handled'[d] = handled[d]
  BY <1>1, <1>2, Zenon
<1>8. ForOms(c, h + 1) => f[h + 1].kind \in {"order", "cancel"} /\ AuthIn(f, h + 1)
  BY Zenon DEF ForOms, Kind, AuthIn
<1> HIDE DEF c, h, f, v, o
<1>a. ASSUME NEW x, slot' = [slot EXCEPT ![S] = x], x.fd = c, AuthIn(f, h + 1) => x.auth, x.count <= h + 1,
             \A i \in DOMAIN fwd : i \in DOMAIN fwd' /\ fwd'[i] = fwd[i],
             ForOms(c, h + 1) => \E i \in DOMAIN fwd' : fwd'[i] = o
      PROVE  Served'
  <2>1. slot'[S] = x /\ \A s \in Slots \ {S} : slot'[s] = slot[s]
    BY <1>1, <1>2, <1>a, Zenon DEF IsFun
  <2>2. Meets(f, x, h + 1)
    BY <1>a, Zenon DEF Meets
  <2>3. ASSUME NEW s \in Slots, NEW d \in Conns, slot'[s].fd = d PROVE Meets(script[d], slot'[s], handled'[d])
    <3>1. CASE s = S
      BY <1>7, <1>a, <2>1, <2>2, <2>3, <3>1 DEF f
    <3>2. CASE s # S
      <4>1. slot'[s] = slot[s] /\ slot[s].fd = d
        BY <2>1, <2>3, <3>2, Zenon
      <4>2. d # c
        BY <1>1, <3>2, <4>1, Sizes, Zenon DEF Places, c
      <4> QED BY <1>7, <4>1, <4>2, Zenon DEF Served
    <3> QED BY <3>1, <3>2, Zenon
  <2>4. ASSUME NEW d \in Conns, NEW k \in 1 .. handled'[d], ForOms(d, k) PROVE \E i \in DOMAIN fwd' : fwd'[i] = <<d, k>>
    <3>1. CASE d = c /\ k = h + 1
      BY <1>a, <2>4, <3>1, Zenon DEF o
    <3>2. CASE ~(d = c /\ k = h + 1)
      <4>1. k \in 1 .. handled[d]
        <5>1. CASE d = c
          BY <1>1, <1>7, <3>2, <5>1 DEF h
        <5> QED BY <1>7, <5>1, Zenon
      <4>2. PICK i \in DOMAIN fwd : fwd[i] = <<d, k>>
        BY <2>4, <4>1, Zenon DEF Served, Reached
      <4> QED BY <1>a, <4>2, Zenon
    <3> QED BY <3>1, <3>2, Zenon
  <2>5. Reached'
    BY <1>0, <2>4, Zenon DEF Reached, ForOms, Kind
  <2> QED BY <1>0, <2>3, <2>5, Zenon DEF Served
<1>b. Queue(<<Sl.fd, Sl.recv[1][2]>>) =>
        /\ \A i \in DOMAIN fwd : i \in DOMAIN fwd' /\ fwd'[i] = fwd[i]
        /\ \E i \in DOMAIN fwd' : fwd'[i] = o
  <2> HAVE Queue(<<Sl.fd, Sl.recv[1][2]>>)
  <2>1. fwd' = Append(fwd, o)
    BY <1>1, <1>5, Zenon DEF Queue, Unlimited, o
  <2>2. fwd \in Seq(OrderIds) /\ o \in OrderIds
    BY <1>1 DEF TypeOK, OrderIds, o
  <2>3. PICK l \in Nat : l = Len(fwd)
    BY <2>2, SeqLen, Zenon
  <2>4. fwd' \in Seq(OrderIds) /\ Len(fwd') = l + 1 /\ (\A i \in 1 .. l : fwd'[i] = fwd[i]) /\ fwd'[l + 1] = o
    BY <2>1, <2>2, <2>3, SeqAppend
  <2>5. DOMAIN fwd = 1 .. l /\ DOMAIN fwd' = 1 .. l + 1
    BY <2>2, <2>3, <2>4, SeqLen, Zenon
  <2>6. l + 1 \in 1 .. l + 1 /\ \A i \in 1 .. l : i \in 1 .. l + 1
    OBVIOUS
  <2> QED BY <2>4, <2>5, <2>6, Zenon
<1>c. UNCHANGED fwd => \A i \in DOMAIN fwd : i \in DOMAIN fwd' /\ fwd'[i] = fwd[i]
  BY Zenon
<1>d. v.count <= h + 1
  BY <1>1, <1>5
<1>9. CASE Auth
  <2> DEFINE b == v.auth \/ KeyIsValid
             x == [v EXCEPT !.auth = b, !.recv = Rest]
  <2>1. slot' = [slot EXCEPT ![S] = x] /\ UNCHANGED fwd /\ f[h + 1].kind \notin {"order", "cancel"}
    BY <1>1, <1>9, Zenon DEF Auth, v
  <2>2. AuthIn(f, h + 1) => b
    BY <1>6, Zenon
  <2> HIDE DEF b
  <2>3. x.fd = c /\ x.auth = b /\ x.count = v.count
    BY <1>2, <1>5, Zenon DEF SlotTypes
  <2> HIDE DEF x
  <2>4. AuthIn(f, h + 1) => x.auth
    BY <2>2, <2>3, Zenon
  <2> QED BY <1>8, <1>a, <1>c, <1>d, <2>1, <2>3, <2>4, Zenon
<1>10. CASE Skip \/ Cancel
  <2> DEFINE x == [v EXCEPT !.recv = Rest]
  <2>1. slot' = [slot EXCEPT ![S] = x]
    BY <1>10, Zenon DEF Skip, Cancel, v
  <2>2. x.fd = c /\ x.auth = v.auth /\ x.count = v.count
    BY <1>2, <1>5, Zenon DEF SlotTypes
  <2> HIDE DEF x
  <2>3. ~KeyIsValid
    BY <1>1, <1>10, Zenon DEF KeyIsValid, Skip, Cancel
  <2>4. AuthIn(f, h + 1) => x.auth
    BY <1>6, <2>2, <2>3, Zenon
  <2>5. CASE Cancel
    <3>1. Queue(<<Sl.fd, Sl.recv[1][2]>>)
      BY <2>5, Zenon DEF Cancel
    <3> QED BY <1>a, <1>b, <1>d, <2>1, <2>2, <2>4, <3>1, Zenon
  <2>6. CASE Skip
    <3>1. UNCHANGED fwd
      BY <2>6, Zenon DEF Skip
    <3>2. ~ForOms(c, h + 1)
      <4>1. ~v.auth \/ f[h + 1].kind = "other"
        BY <1>1, <2>6, Zenon DEF Skip, MayTrade, Parses
      <4> QED BY <1>6, <1>8, <2>3, <4>1, Zenon
    <3> QED BY <1>a, <1>c, <1>d, <2>1, <2>2, <2>4, <3>1, <3>2, Zenon
  <2> QED BY <1>10, <2>5, <2>6, Zenon
<1>11. CASE Order
  <2> DEFINE a == Admit(now, Sl.start, Sl.count, idem, Frame.id)
             x == [v EXCEPT !.recv = Rest, !.start = a.start, !.count = a.count]
  <2>1. /\ slot' = [slot EXCEPT ![S] = x]
        /\ a.go => Queue(<<Sl.fd, Sl.recv[1][2]>>)
    BY <1>11, Zenon DEF Order, v
  <2>2. a.go /\ a.count <= h + 1
    <3>1. PICK n \in Nat, l \in Nat, t \in Nat : n = v.count /\ l = Len(f) /\ t = h
      BY <1>1, <1>3, <1>5, Zenon
    <3>2. n <= t /\ t + 1 <= l /\ l <= RateLimit /\ RateLimit \in Nat
      BY <1>1, <1>3, <1>5, <3>1, RulesAssumption DEF Unlimited
    <3>3. Frame.id = 0
      BY <1>1, <1>3, Zenon DEF Unlimited
    <3>4. Sl.count = n
      BY <1>1, <3>1, Zenon
    <3>5. ~Seen(idem, Frame.id)
      BY <3>3, Zenon DEF Seen
    <3>6. UnderLimit(IF WindowOver(now, Sl.start) THEN 0 ELSE n) /\ (IF WindowOver(now, Sl.start) THEN 0 ELSE n) + 1 <= t + 1
      BY <3>2 DEF UnderLimit
    <3> QED BY <3>1, <3>4, <3>5, <3>6, Zenon DEF Admit
  <2> HIDE DEF a
  <2>3. x.fd = c /\ x.auth = v.auth /\ x.count = a.count
    BY <1>2, <1>5, Zenon DEF SlotTypes
  <2> HIDE DEF x
  <2>4. ~KeyIsValid
    BY <1>1, <1>11, Zenon DEF KeyIsValid, Order
  <2>5. AuthIn(f, h + 1) => x.auth
    BY <1>6, <2>3, <2>4, Zenon
  <2> QED BY <1>a, <1>b, <2>1, <2>2, <2>3, <2>5, Zenon
<1> QED BY <1>9, <1>10, <1>11, Zenon


--------------------------------------------------------------------------------
INSTANCE FiniteSetTheorems

\* A set of numbers that is not empty has a least element.
LEMMA LeastOf ==
  ASSUME NEW T, T \subseteq Nat, T # {}
  PROVE  \E s \in T : \A x \in T : s <= x
<1> DEFINE R == OpToRel(<, Nat)
<1>1. IsWellFoundedOn(R, Nat)
  BY NatLessThanWellFounded, Zenon
<1>2. R = {ss \in Nat \X Nat : ss[1] < ss[2]}
  BY Zenon DEF OpToRel
<1> HIDE DEF R
<1>3. PICK s \in T : \A y \in T : ~(<<y, s>> \in R)
  BY <1>1, WFMin, Zenon
<1>4. ASSUME NEW x \in T PROVE s <= x
  <2>1. x < s => <<x, s>> \in R
    BY <1>2, Zenon
  <2> QED BY <1>3, <2>1
<1> QED BY <1>4, Zenon

\* The slots are finitely many numbers.
LEMMA SlotsCounted == SlotFacts
<1>1. IsFiniteSet(Slots) /\ Slots \subseteq Nat
  BY Sizes, FS_Interval DEF Slots
<1>2. \A A \in SUBSET Slots : IsFiniteSet(A) /\ Cardinality(A) \in Nat
  BY <1>1, FS_Subset, FS_CardinalityType, Zenon
<1>3. \A A \in SUBSET Slots : A # {} => \E s \in A : \A t \in A : s <= t
  BY <1>1, LeastOf, Zenon
<1>4. \A A \in SUBSET Slots, s \in Slots : s \notin A => Cardinality(A \cup {s}) = Cardinality(A) + 1
  BY <1>2, FS_AddElement, Zenon
<1>5. \A A \in SUBSET Slots, s \in Slots : s \in A => Cardinality(A \ {s}) = Cardinality(A) - 1
  BY <1>2, FS_RemoveElement, Zenon
<1>6. Cardinality({}) = 0
  BY FS_EmptySet, Zenon
<1> QED BY <1>3, <1>4, <1>5, <1>6, Zenon DEF SlotFacts

\* The invariant holds throughout.
LEMMA Invariant == Spec => []IInv
BY SlotsCounted, GatewayInit, GatewayStep, PTL DEF Spec

\* However connects, reads, partial sends, resets, the reuse of slots and a stop
\* interleave with gw_thread_core, the slots stay sound: rings below their capacity, a
\* connection in one place, no byte of a stream lost between socket and ring, active_conns
\* exact.
THEOREM SlotsSound == Spec => []SlotsInv
BY Invariant, Implied, PTL

\* gw_process_data puts of a client only orders and cancels that follow a valid
\* authentication of the same connection into the OMS queue, each at most once and in order.
THEOREM ForwardsSound == Spec => []ForwardsOnly
BY Invariant, Implied, PTL

\* No event of epoll_wait is handled on a slot that was closed or given to another
\* connection in between.
THEOREM EventsSound == Spec => []EventsCurrent
BY Invariant, Implied, PTL

\* gw_drain_responses, gw_flush_send and the partial sends give a client whole responses.
THEOREM ResponsesSound == Spec => []ResponsesWhole
BY Invariant, Implied, PTL

\* Only a connection whose own AUTH was accepted ever hears a response, whoever had its
\* slot before.
THEOREM HearingSound == Spec => []OnlyAuthenticatedHear
BY Invariant, Implied, PTL

\* Where neither the rate limit, nor the ring of request ids, nor a full queue stands
\* against it, every order and cancel that gw_process_data handled after an authentication
\* is in the OMS queue, exactly once and in order.
THEOREM ForwardsAll ==
  ASSUME Unlimited
  PROVE  Spec => []ForwardsExactly
<1>1. Init => Served
  <2> HAVE Init
  <2>1. \A s \in Slots : slot[s].fd = NoConn
    BY Zenon DEF Init, Fresh
  <2>2. \A c \in Conns : handled[c] = 0
    BY Zenon DEF Init
  <2> QED BY <2>1, <2>2, Sizes DEF Served, Reached
<1>2. IInv /\ Served /\ [Next]_vars => Served'
  BY SlotsCounted, ServedOutside, ServedAccept, ServedFrame, Zenon DEF Next, Thread
<1>3. IInv /\ Served => ForwardsExactly
  BY Implied, Zenon DEF Served, Reached, ForwardsExactly
<1> QED BY <1>1, <1>2, <1>3, Invariant, PTL DEF Spec

================================================================================
