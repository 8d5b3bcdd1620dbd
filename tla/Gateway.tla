-------------------------------- MODULE Gateway --------------------------------
(***************************************************************************)
(* One gateway thread (net/gateway.c): edge-triggered epoll loop, pool of  *)
(* connection slots, framing, authentication, admission of orders to the   *)
(* OMS queue, and responses to the clients.                                *)
(*                                                                         *)
(* A frame of a client is len cells; the first cell is the 5-byte header.  *)
(* Client c sends the frames of script[c]; cell <<c, k, i>> is the i-th    *)
(* cell of its k-th frame.  Sockets, epoll and the clients are external    *)
(* and follow what gw_thread_core relies on: an edge is raised when data,  *)
(* end of file, an error or room arrives, and when a condition that holds  *)
(* is registered; epoll_wait takes every edge once and then reports all    *)
(* the registered conditions of the socket that hold.                      *)
(***************************************************************************)
EXTENDS GwRules, GwRing, Sequences, FiniteSets

CONSTANTS Conns, NoConn,      \* clients; fd = -1
          NSlots,             \* max_conns
          Scripts,            \* what a client may send: sequences of frames
          RecvCap, SendCap,   \* sizes of the two rings, in cells
          RespCells,          \* size of a response frame, in cells
          SndBuf,             \* room for outgoing cells in a socket
          Faults,             \* of "accept", "add", "wait", "malloc", "full", "reset", "idle", "stop"
          MaxTime             \* bound: clock ticks

Frames == [kind : {"auth", "badauth", "order", "cancel", "other", "bad"}, id : Nat, len : Nat \ {0}]

ASSUME GatewayAssumption == /\ {NSlots, RecvCap, SendCap, RespCells, SndBuf} \subseteq Nat \ {0}
                            /\ NoConn \notin Conns /\ Scripts \subseteq Seq(Frames)

VARIABLES gpc, running, slot, active, idem, now, received,   \* gw_ctx_t
          events, cur,              \* the events of epoll_wait; the one being handled
          sock, backlog, ledge,     \* sockets, accept queue, edge of the listen socket
          outq, respq,              \* queue to the OMS, response queue
          script, upcoming,         \* what each client sends, and the cell it sends next
          handled, fwd              \* history: frames consumed per client, <<c, k>> queued

kernel == <<sock, backlog, ledge>>
ctx == <<active, idem, now, received>>
clients == <<script, upcoming>>
queues == <<outq, respq, fwd>>
vars == <<gpc, running, slot, ctx, events, cur, kernel, queues, clients, handled>>

Slots == 1 .. NSlots

\* A ring is the sequence of its cells; GwAdmissionProofs shows that the array with its
\* head and tail is one, and that its room is that of this sequence.
Space(cap, ring) == RingWritable(cap, 0, Len(ring))

\* memset of a connection slot in gw_accept, and an unused slot
Fresh(c) == [fd |-> c, closing |-> FALSE, recv |-> << >>, send |-> << >>, pending |-> FALSE,
             auth |-> FALSE, start |-> now, count |-> 0, idle |-> FALSE]

NewSock == [st |-> "none", inq |-> << >>, eof |-> FALSE, rst |-> FALSE, armed |-> FALSE,
            edge |-> FALSE, out |-> << >>, got |-> << >>]

\* EPOLLIN, and EPOLLOUT when it is registered
Readable(k) == k.inq # << >> \/ k.eof \/ k.rst
Writable(k) == k.armed /\ (k.rst \/ Len(k.out) < SndBuf)

NoEvent == [ptr |-> 0, conn |-> NoConn, in |-> FALSE, out |-> FALSE, hup |-> FALSE]

\* the cell that follows cell i of frame k of client c, which sends the frames f
Following(f, c, k, i) == IF i < f[k].len THEN <<c, k, i + 1>> ELSE <<c, k + 1, 1>>

Init == /\ gpc = "top" /\ running = TRUE /\ now = 0
        /\ slot = [s \in Slots |-> Fresh(NoConn)]
        /\ active = 0 /\ idem = NoIds /\ received = 0
        /\ events = {} /\ cur = NoEvent
        /\ sock = [c \in Conns |-> NewSock] /\ backlog = << >> /\ ledge = FALSE
        /\ outq = << >> /\ respq = << >> /\ fwd = << >>
        /\ script \in [Conns -> Scripts]
        /\ upcoming = [c \in Conns |-> <<c, 1, 1>>]
        /\ handled = [c \in Conns |-> 0]
--------------------------------------------------------------------------------
(* The clients, the matching side and the clock (external) *)

\* the listen socket of gw_create_listen is open until bt_gateway_stop closes it
Listening == gpc # "stopped"

Connect(c) == /\ sock[c].st = "none" /\ Listening
              /\ sock' = [sock EXCEPT ![c].st = "queued"]
              /\ backlog' = Append(backlog, c) /\ ledge' = TRUE
              /\ UNCHANGED <<gpc, running, slot, ctx, events, cur, queues, clients, handled>>

Live(c) == sock[c].st \in {"queued", "open"} /\ ~sock[c].eof /\ ~sock[c].rst

Send(c) == /\ Live(c) /\ upcoming[c][2] <= Len(script[c])
           /\ upcoming' = [upcoming EXCEPT ![c] = Following(script[c], c, @[2], @[3])]
           /\ sock' = [sock EXCEPT ![c].inq = Append(@, upcoming[c]),
                                   ![c].edge = (sock[c].st = "open")]
           /\ UNCHANGED <<gpc, running, slot, ctx, events, cur, backlog, ledge, queues,
                          script, handled>>

Fin(c) == /\ Live(c)
          /\ sock' = [sock EXCEPT ![c].eof = TRUE, ![c].edge = (sock[c].st = "open")]
          /\ UNCHANGED <<gpc, running, slot, ctx, events, cur, backlog, ledge, queues,
                         clients, handled>>

Reset(c) == /\ "reset" \in Faults /\ Live(c)
            /\ sock' = [sock EXCEPT ![c].rst = TRUE, ![c].inq = << >>, ![c].out = << >>,
                                    ![c].edge = (sock[c].st = "open")]
            /\ UNCHANGED <<gpc, running, slot, ctx, events, cur, backlog, ledge, queues,
                           clients, handled>>

\* the client takes what arrived; a full socket that drains raises an armed edge
Receive(c) == /\ sock[c].out # << >>
              /\ sock' = [sock EXCEPT ![c].out = << >>, ![c].got = @ \o sock[c].out,
                                      ![c].edge = @ \/ (sock[c].armed /\ Len(sock[c].out) = SndBuf)]
              /\ UNCHANGED <<gpc, running, slot, ctx, events, cur, backlog, ledge, queues,
                             clients, handled>>

\* the pipeline answers a queued order
Respond == /\ outq # << >>
           /\ outq' = Tail(outq) /\ respq' = Append(respq, Head(outq))
           /\ UNCHANGED <<gpc, running, slot, ctx, events, cur, kernel, fwd, clients, handled>>

Tick == /\ now < MaxTime
        /\ now' = now + 1
        /\ UNCHANGED <<gpc, running, slot, active, idem, received, events, cur, kernel, queues,
                       clients, handled>>

\* 60 seconds without a read on slot s
Quiet(s) == /\ "idle" \in Faults /\ slot[s].fd # NoConn /\ ~slot[s].idle
            /\ slot' = [slot EXCEPT ![s].idle = TRUE]
            /\ UNCHANGED <<gpc, running, ctx, events, cur, kernel, queues, clients, handled>>

External == \/ \E c \in Conns : Connect(c) \/ Send(c) \/ Fin(c) \/ Reset(c) \/ Receive(c)
            \/ Respond \/ Tick \/ \E s \in Slots : Quiet(s)
--------------------------------------------------------------------------------
(* gw_thread_core: the loop *)

Top == /\ gpc = "top"
       /\ gpc' = IF running THEN "drain" ELSE "exited"
       /\ UNCHANGED <<running, slot, ctx, events, cur, kernel, queues, clients, handled>>

\* mutant: a response is put into the ring without looking for room
Room_Unchecked(sl) == TRUE

Room(sl) == Space(SendCap, sl.send) >= RespCells

Wants(sl) == sl.fd # NoConn /\ sl.auth

\* gw_drain_responses with gw_send_to_conn: one response to every taker
Drain == /\ gpc = "drain" /\ respq # << >>
         /\ slot' = [s \in Slots |->
                       IF Wants(slot[s]) /\ Room(slot[s])
                       THEN [slot[s] EXCEPT !.send = @ \o [i \in 1 .. RespCells |->
                                                             <<Head(respq), i>>]]
                       ELSE slot[s]]
         /\ respq' = Tail(respq)
         /\ UNCHANGED <<gpc, running, ctx, events, cur, kernel, outq, fwd, clients, handled>>

Drained == /\ gpc = "drain" /\ respq = << >>
           /\ gpc' = "wait"
           /\ UNCHANGED <<running, slot, ctx, events, cur, kernel, queues, clients, handled>>

Raised(c) == sock[c].st = "open" /\ sock[c].edge /\ (Readable(sock[c]) \/ Writable(sock[c]))

\* epoll_wait reports and clears the edges; with none it times out
Wait == /\ gpc = "wait"
        /\ events' = {[ptr |-> s, conn |-> slot[s].fd, in |-> Readable(sock[slot[s].fd]),
                       out |-> Writable(sock[slot[s].fd]), hup |-> sock[slot[s].fd].rst] :
                      s \in {x \in Slots : slot[x].fd # NoConn /\ Raised(slot[x].fd)}}
                     \cup (IF ledge THEN {[NoEvent EXCEPT !.in = TRUE]} ELSE {})
        /\ sock' = [c \in Conns |-> [sock[c] EXCEPT !.edge = FALSE]]
        /\ ledge' = FALSE
        /\ gpc' = "events"
        /\ UNCHANGED <<running, slot, ctx, cur, backlog, queues, clients, handled>>

\* epoll_wait fails: EINTR starts the loop again, anything else ends the thread
WaitFails == /\ gpc = "wait" /\ "wait" \in Faults
             /\ gpc' \in {"top", "exited"}
             /\ UNCHANGED <<running, slot, ctx, events, cur, kernel, queues, clients, handled>>

\* the next event of the array
Dispatch == /\ gpc = "events"
            /\ \E e \in events :
                 /\ cur' = e /\ events' = events \ {e}
                 /\ slot' = IF e.ptr # 0 /\ e.hup THEN [slot EXCEPT ![e.ptr].closing = TRUE] ELSE slot
                 /\ gpc' = IF e.ptr = 0 THEN "accept" ELSE IF e.in THEN "read" ELSE "finish"
            /\ UNCHANGED <<running, ctx, kernel, queues, clients, handled>>

\* after the last event: the idle scan marks connections and leaves them open
Scan == /\ gpc = "events" /\ events = {}
        /\ slot' = [s \in Slots |-> IF slot[s].fd # NoConn /\ slot[s].idle
                                    THEN [slot[s] EXCEPT !.closing = TRUE] ELSE slot[s]]
        /\ gpc' = "top"
        /\ UNCHANGED <<running, ctx, events, cur, kernel, queues, clients, handled>>
--------------------------------------------------------------------------------
(* gw_accept *)

\* mutant: only the number of connections is looked at
Free_ByCount == IF active < NSlots THEN Slots ELSE {}

Free == {s \in Slots : slot[s].fd = NoConn}
FirstFree == CHOOSE s \in Free : \A x \in Free : s <= x

\* mutant: the slot keeps what the previous connection left in it
Reused_AsIs(s, c) == [slot[s] EXCEPT !.fd = c, !.closing = FALSE]

Reused(s, c) == Fresh(c)

\* take a connection into the first free slot and register it
Accept == /\ gpc = "accept" /\ backlog # << >> /\ Free # {}
          /\ LET c == Head(backlog)
             IN  /\ slot' = [slot EXCEPT ![FirstFree] = Reused(FirstFree, c)]
                 /\ sock' = [sock EXCEPT ![c].st = "open", ![c].edge = Readable(sock[c])]
          /\ backlog' = Tail(backlog)
          /\ active' = active + 1
          /\ UNCHANGED <<gpc, running, idem, now, received, events, cur, ledge, queues,
                         clients, handled>>

\* no slot left, or the registration failed: close it
Refuse == /\ gpc = "accept" /\ backlog # << >>
          /\ Free = {} \/ "add" \in Faults
          /\ sock' = [sock EXCEPT ![Head(backlog)].st = "closed"]
          /\ backlog' = Tail(backlog)
          /\ UNCHANGED <<gpc, running, slot, ctx, events, cur, ledge, queues, clients, handled>>

\* mutant: the loop may end before the accept queue is empty
AcceptDone_Early == /\ gpc = "accept"
                    /\ gpc' = "events"
                    /\ UNCHANGED <<running, slot, ctx, events, cur, kernel, queues, clients,
                                   handled>>

\* EAGAIN, or any other error of accept4
AcceptDone == /\ gpc = "accept"
              /\ backlog = << >> \/ "accept" \in Faults
              /\ gpc' = "events"
              /\ UNCHANGED <<running, slot, ctx, events, cur, kernel, queues, clients, handled>>
--------------------------------------------------------------------------------
(* The read loop of a readable connection *)

S == cur.ptr
Sl == slot[S]
K == sock[Sl.fd]
ToRead == Space(RecvCap, Sl.recv)

ReadSome == /\ gpc = "read" /\ ToRead > 0 /\ ~K.rst /\ K.inq # << >>
            /\ \E n \in 1 .. Least(ToRead, Len(K.inq)) :
                 /\ slot' = [slot EXCEPT ![S].recv = @ \o SubSeq(K.inq, 1, n), ![S].idle = FALSE]
                 /\ sock' = [sock EXCEPT ![Sl.fd].inq = SubSeq(@, n + 1, Len(@))]
            /\ gpc' = "process"
            /\ UNCHANGED <<running, ctx, events, cur, backlog, ledge, queues, clients, handled>>

\* end of file, or a read error
ReadEnd == /\ gpc = "read" /\ ToRead > 0
           /\ K.rst \/ (K.inq = << >> /\ K.eof)
           /\ slot' = [slot EXCEPT ![S].closing = TRUE]
           /\ gpc' = "finish"
           /\ UNCHANGED <<running, ctx, events, cur, kernel, queues, clients, handled>>

\* mutant: the loop ends after the first read, as if the socket were level-triggered
ReadAgain_Once == /\ gpc = "read"
                  /\ gpc' = "finish"
                  /\ UNCHANGED <<running, slot, ctx, events, cur, kernel, queues, clients, handled>>

\* EAGAIN, or no room in the ring
ReadAgain == /\ gpc = "read"
             /\ ToRead = 0 \/ (~K.rst /\ K.inq = << >> /\ ~K.eof)
             /\ gpc' = "finish"
             /\ UNCHANGED <<running, slot, ctx, events, cur, kernel, queues, clients, handled>>
--------------------------------------------------------------------------------
(* gw_process_data: one frame per step *)

Frame == script[Sl.recv[1][1]][Sl.recv[1][2]]
HasHeader == gpc = "process" /\ Sl.recv # << >>

\* msg_len below 5 or above BT_CFG_RECV_BUF_SIZE
BadLength == Frame.kind = "bad" \/ Frame.len > RecvCap

\* what gw_validate_api_key and the parsers of order payloads say of the frame
KeyIsValid == Frame.kind = "auth"
Parses == Frame.kind # "other"

Complete == HasHeader /\ ~BadLength /\ Len(Sl.recv) >= Frame.len

\* mutant: orders are taken from anyone
MayTrade_Anyone == TRUE

MayTrade == Sl.auth

\* the slot and the history once the frame is consumed
Rest == SubSeq(Sl.recv, Frame.len + 1, Len(Sl.recv))
Consumed == handled' = [handled EXCEPT ![Sl.recv[1][1]] = @ + 1]

\* mutant: a malformed frame is skipped
ProcessBad_Skip == /\ HasHeader /\ BadLength
                   /\ slot' = [slot EXCEPT ![S].recv = Rest]
                   /\ Consumed
                   /\ UNCHANGED <<gpc, running, ctx, events, cur, kernel, queues, clients>>

\* malloc for a large payload fails: authentication and orders copy their payload
NoMemory == /\ "malloc" \in Faults /\ Complete /\ Frame.len > 1
            /\ Frame.kind \in {"auth", "badauth"} \/ (MayTrade /\ Frame.kind # "cancel")

\* a malformed length, or no memory: the frame stays
ProcessBad == /\ HasHeader
              /\ BadLength \/ NoMemory
              /\ slot' = [slot EXCEPT ![S].closing = TRUE]
              /\ gpc' = "read"
              /\ UNCHANGED <<running, ctx, events, cur, kernel, queues, clients, handled>>

\* no header, or the frame is not complete
ProcessDone == /\ gpc = "process"
               /\ IF HasHeader THEN ~BadLength /\ ~Complete ELSE TRUE
               /\ gpc' = "read"
               /\ UNCHANGED <<running, slot, ctx, events, cur, kernel, queues, clients, handled>>

Auth == /\ Complete /\ Frame.kind \in {"auth", "badauth"}
        /\ slot' = [slot EXCEPT ![S].auth = @ \/ KeyIsValid, ![S].recv = Rest]
        /\ Consumed
        /\ UNCHANGED <<gpc, running, ctx, events, cur, kernel, queues, clients>>

\* before authentication, and for unknown types and payloads that do not parse
Skip == /\ Complete
        /\ Frame.kind \notin {"auth", "badauth"}
        /\ ~MayTrade \/ ~Parses
        /\ slot' = [slot EXCEPT ![S].recv = Rest]
        /\ Consumed
        /\ UNCHANGED <<gpc, running, ctx, events, cur, kernel, queues, clients>>

\* BT_MPSC_PUSH to the OMS; its result is ignored
Queue(id) == \/ outq' = Append(outq, id) /\ fwd' = Append(fwd, id)
             \/ "full" \in Faults /\ UNCHANGED <<outq, fwd>>

Order == /\ Complete /\ MayTrade /\ Frame.kind = "order"
         /\ LET a == Admit(now, Sl.start, Sl.count, idem, Frame.id)
            IN  /\ slot' = [slot EXCEPT ![S].recv = Rest, ![S].start = a.start,
                                        ![S].count = a.count]
                /\ idem' = a.idem
                /\ received' = IF a.go THEN received + 1 ELSE received
                /\ IF a.go THEN Queue(<<Sl.fd, Sl.recv[1][2]>>) ELSE UNCHANGED <<outq, fwd>>
         /\ Consumed
         /\ UNCHANGED <<gpc, running, active, now, events, cur, kernel, respq, clients>>

Cancel == /\ Complete /\ MayTrade /\ Frame.kind = "cancel"
          /\ slot' = [slot EXCEPT ![S].recv = Rest]
          /\ Queue(<<Sl.fd, Sl.recv[1][2]>>)
          /\ Consumed
          /\ UNCHANGED <<gpc, running, ctx, events, cur, kernel, respq, clients>>
--------------------------------------------------------------------------------
(* The end of an event: sending, EPOLLOUT registration, closing *)

\* mutant: the ring is emptied although send() took only part of it
Flushed_Whole(sl, k) ==
  LET n == IF k.rst THEN 0 ELSE Least(Len(sl.send), SndBuf - Len(k.out))
  IN  [sl |-> [sl EXCEPT !.send = << >>], k |-> [k EXCEPT !.out = @ \o SubSeq(sl.send, 1, n)]]

\* gw_flush_send on slot content sl and socket k
Flushed(sl, k) ==
  LET n == IF k.rst THEN 0 ELSE Least(Len(sl.send), SndBuf - Len(k.out))
  IN  [sl |-> [sl EXCEPT !.send = SubSeq(@, n + 1, Len(@)),
                         !.closing = @ \/ (k.rst /\ sl.send # << >>)],
       k  |-> [k EXCEPT !.out = @ \o SubSeq(sl.send, 1, n)]]

\* EPOLL_CTL_MOD raises again the edges of the conditions that hold
Modified(k, armed) == LET m == [k EXCEPT !.armed = armed]
                      IN  [m EXCEPT !.edge = @ \/ Readable(m) \/ Writable(m)]

\* mutant: the flag is set and the registration forgotten
Rearmed_FlagOnly(x) == [sl |-> [x.sl EXCEPT !.pending = (x.sl.send # << >>)], k |-> x.k]

Rearmed(x) == IF x.sl.send # << >> /\ ~x.sl.pending
              THEN [sl |-> [x.sl EXCEPT !.pending = TRUE], k |-> Modified(x.k, TRUE)]
              ELSE IF x.sl.send = << >> /\ x.sl.pending
              THEN [sl |-> [x.sl EXCEPT !.pending = FALSE], k |-> Modified(x.k, FALSE)]
              ELSE x

Closed(k) == [NewSock EXCEPT !.st = "closed", !.rst = k.rst, !.out = k.out, !.got = k.got]

\* mutant: only a hang-up closes
Ends_OnHangup(sl) == sl.closing /\ cur.hup

\* the connection is closed at the end of an event if it carries the mark
Ends(sl) == sl.closing

\* mutant: the count is not lowered on close
Left_Forgotten(n) == n

Left(n) == n - 1

Finish == /\ gpc = "finish"
          /\ LET a == IF cur.out THEN Flushed(Sl, K) ELSE [sl |-> Sl, k |-> K]
                 b == Rearmed(a)
                 z == Flushed(b.sl, b.k)
             IN  IF Ends(b.sl)
                 THEN /\ slot' = [slot EXCEPT ![S] = [z.sl EXCEPT !.fd = NoConn]]
                      /\ sock' = [sock EXCEPT ![Sl.fd] = Closed(z.k)]
                      /\ active' = Left(active)
                 ELSE /\ slot' = [slot EXCEPT ![S] = b.sl]
                      /\ sock' = [sock EXCEPT ![Sl.fd] = b.k]
                      /\ UNCHANGED active
          /\ gpc' = "events"
          /\ UNCHANGED <<running, idem, now, received, events, cur, backlog, ledge, queues,
                         clients, handled>>
--------------------------------------------------------------------------------
(* bt_gateway_stop, called by main *)

StopBegin == /\ running /\ "stop" \in Faults
             /\ running' = FALSE
             /\ UNCHANGED <<gpc, slot, ctx, events, cur, kernel, queues, clients, handled>>

\* after the join: every socket is closed, the listen socket too
StopEnd == /\ gpc = "exited" /\ ~running
           /\ gpc' = "stopped"
           /\ sock' = [c \in Conns |-> IF sock[c].st = "none" THEN sock[c] ELSE Closed(sock[c])]
           /\ backlog' = << >> /\ ledge' = FALSE
           /\ UNCHANGED <<running, slot, ctx, events, cur, queues, clients, handled>>
--------------------------------------------------------------------------------
Thread == \/ Top \/ Drain \/ Drained \/ Wait \/ WaitFails \/ Dispatch \/ Scan
          \/ Accept \/ Refuse \/ AcceptDone \/ ReadSome \/ ReadEnd \/ ReadAgain
          \/ ProcessBad \/ ProcessDone \/ Auth \/ Skip \/ Order \/ Cancel \/ Finish

Next == Thread \/ External \/ StopBegin \/ StopEnd

Spec == Init /\ [][Next]_vars

\* The thread keeps running, the pipeline answers, clients take what arrives for
\* them and main finishes a stop it began.  No client is obliged to send.
FairSpec == /\ Spec
            /\ WF_vars(Thread) /\ WF_vars(Respond) /\ WF_vars(StopEnd)
            /\ \A c \in Conns : WF_vars(Receive(c))
--------------------------------------------------------------------------------
Kind(c, k) == script[c][k].kind

\* one of the first h frames of f authenticates
AuthIn(f, h) == \E j \in 1 .. h : f[j].kind = "auth"
Authenticated(c) == AuthIn(script[c], handled[c])

Cells == Conns \X Nat \X Nat
OrderIds == Conns \X Nat
RespCell == OrderIds \X Nat
SlotTypes == [fd : Conns \cup {NoConn}, closing : BOOLEAN, recv : Seq(Cells), send : Seq(RespCell),
              pending : BOOLEAN, auth : BOOLEAN, start : Nat, count : Nat, idle : BOOLEAN]
SockTypes == [st : {"none", "queued", "open", "closed"}, inq : Seq(Cells), eof : BOOLEAN, rst : BOOLEAN,
              armed : BOOLEAN, edge : BOOLEAN, out : Seq(RespCell), got : Seq(RespCell)]
Events == [ptr : 0 .. NSlots, conn : Conns \cup {NoConn}, in : BOOLEAN, out : BOOLEAN, hup : BOOLEAN]

\* Type invariant of the gateway thread, its slots and the sockets: rings below
\* their capacity and the counter of a rate window within the limit.
TypeOK == /\ gpc \in {"top", "drain", "wait", "events", "accept", "read", "process",
                      "finish", "exited", "stopped"}
          /\ running \in BOOLEAN /\ now \in Nat /\ active \in Int /\ received \in Nat
          /\ idem \in [0 .. IdemSlots - 1 -> Nat] /\ events \subseteq Events /\ cur \in Events
          /\ slot \in [Slots -> SlotTypes]
          /\ \A s \in Slots : /\ Len(slot[s].recv) < RecvCap /\ Len(slot[s].send) < SendCap
                              /\ slot[s].count <= RateLimit /\ slot[s].start <= now
          /\ sock \in [Conns -> SockTypes] /\ \A c \in Conns : Len(sock[c].out) <= SndBuf
          /\ backlog \in Seq(Conns) /\ ledge \in BOOLEAN
          /\ {outq, respq, fwd} \subseteq Seq(OrderIds)
          /\ script \in [Conns -> Scripts] /\ upcoming \in [Conns -> Cells]
          /\ handled \in [Conns -> Nat]

\* A connection is in one place: in the accept queue, or in one slot from gw_accept
\* to gw_conn_close; a socket not yet accepted has neither sent nor been read.
OneSlot == /\ \A s, u \in Slots : slot[s].fd = slot[u].fd /\ slot[s].fd # NoConn => s = u
           /\ \A s \in Slots : slot[s].fd # NoConn =>
                sock[slot[s].fd].st = (IF gpc = "stopped" THEN "closed" ELSE "open")
           /\ \A i, j \in DOMAIN backlog : backlog[i] = backlog[j] => i = j
           /\ \A i \in DOMAIN backlog : sock[backlog[i]].st = "queued"
           /\ \A c \in Conns : sock[c].st \in {"none", "queued"} =>
                /\ sock[c].out = << >> /\ sock[c].got = << >> /\ handled[c] = 0
                /\ sock[c].st = "none" => sock[c].inq = << >> /\ ~sock[c].rst /\ upcoming[c] = <<c, 1, 1>>

InScript(f, c, x) == x[1] = c /\ x[2] \in 1 .. Len(f) /\ x[3] \in 1 .. f[x[2]].len

\* y is d cells after x: in the same frame, or the first cell of the next
Later(f, c, x, d, y) == LET past == x[3] + d - f[x[2]].len
                        IN  /\ past <= 0 => y = <<c, x[2], x[3] + d>>
                            /\ past = 1 => y = <<c, x[2] + 1, 1>>

\* q is a run of the cells of client c, which sends the frames f, from the first cell
\* of frame k on: a cell is followed by the rest of its frame and by the first cell of
\* the next.
Run(f, c, k, q) ==
  /\ q # << >> => q[1] = <<c, k, 1>>
  /\ \A j \in 1 .. Len(q) : InScript(f, c, q[j]) /\ \A m \in j .. Len(q) : Later(f, c, q[j], m - j, q[m])

\* The client goes on with cell u where q ends.
GoesOn(f, c, k, q, u) == u = IF q = << >> THEN <<c, k, 1>>
                             ELSE Following(f, c, q[Len(q)][2], q[Len(q)][3])

\* Between a client and gw_process_data no byte is lost, doubled or reordered: what
\* the ring and the socket of a connection hold begins with the first cell of the
\* frame to be handled next and ends before the cell the client sends next.
StreamIntact ==
  \A c \in Conns :
    LET f == script[c]
        whole == sock[c].st \in {"queued", "open"} /\ ~sock[c].rst
    IN  /\ handled[c] <= Len(f)
        /\ sock[c].st = "queued" /\ whole =>
             Run(f, c, 1, sock[c].inq) /\ GoesOn(f, c, 1, sock[c].inq, upcoming[c])
        /\ \A s \in Slots : slot[s].fd = c =>
             /\ Run(f, c, handled[c] + 1, slot[s].recv \o (IF whole THEN sock[c].inq ELSE << >>))
             /\ whole => GoesOn(f, c, handled[c] + 1, slot[s].recv \o sock[c].inq, upcoming[c])

\* active_conns counts the open slots.
ActiveExact == active = Cardinality({s \in Slots : slot[s].fd # NoConn})

\* The slots of the gateway are sound: typed, one to a connection, counted by
\* active_conns, and each with the bytes of its own client, in order.
SlotsInv == TypeOK /\ ActiveExact /\ OneSlot /\ StreamIntact

\* gw_process_data handles nothing that follows a malformed length, although the
\* read loop goes on reading after it.
NothingAfterBad == \A c \in Conns : \A k \in 1 .. handled[c] : Kind(c, k) # "bad"

\* frame k of client c asks for something of the OMS, after an authentication
ForOms(c, k) == Kind(c, k) \in {"order", "cancel"} /\ \E j \in 1 .. k : Kind(c, j) = "auth"

\* However reads cut the stream into pieces and slots are reused, the OMS queue
\* gets of every client only orders and cancels among its consumed frames that
\* follow a valid authentication of the same connection, each at most once, in
\* their order, and nothing of what follows a malformed frame.
ForwardsOnly ==
  /\ NothingAfterBad
  /\ \A i \in DOMAIN fwd : fwd[i][2] \in 1 .. handled[fwd[i][1]] /\ ForOms(fwd[i][1], fwd[i][2])
  /\ \A i, j \in DOMAIN fwd : i < j /\ fwd[i][1] = fwd[j][1] => fwd[i][2] < fwd[j][2]

\* No script is longer than the rate limit, no order carries a request id, and the
\* queue to the OMS has room.
Unlimited == /\ "full" \notin Faults
             /\ \A f \in Scripts : Len(f) <= RateLimit /\ \A k \in 1 .. Len(f) : f[k].id = 0

\* And where neither the rate limit, nor the ring of request ids, nor a full queue
\* stands against it, it gets all of them.
ForwardsExactly ==
  /\ ForwardsOnly
  /\ \A c \in Conns : \A k \in 1 .. handled[c] : ForOms(c, k) => \E i \in DOMAIN fwd : fwd[i] = <<c, k>>

\* An event is handled on the connection it was raised for: no slot is closed or
\* given to another client between epoll_wait and the handling of its event.
EventsCurrent == /\ \A e \in events : e.ptr # 0 => slot[e.ptr].fd = e.conn
                 /\ gpc \in {"read", "process", "finish"} => Sl.fd = cur.conn /\ Sl.fd # NoConn

\* Of whole responses, one after the other, the beginning.
Whole(q) == \A i \in DOMAIN q : /\ q[i][2] = ((i - 1) % RespCells) + 1
                                /\ q[i][2] > 1 => q[i][1] = q[i - 1][1]

\* What a client receives are whole responses, none of them cut or interleaved,
\* except that the last one may be cut off by the end of the connection; what it
\* will have received when its send ring is empty ends with a response.
ResponsesWhole ==
  \A c \in Conns : ~sock[c].rst =>
    /\ Whole(sock[c].got \o sock[c].out)
    /\ \A s \in Slots : slot[s].fd = c =>
         LET stream == (sock[c].got \o sock[c].out) \o slot[s].send
         IN  Whole(stream) /\ Len(stream) % RespCells = 0

\* Only a client that has itself authenticated on its connection gets responses,
\* also when its slot was used by another client before: nothing is on its way to
\* a client that has not.
OnlyAuthenticatedHear ==
  /\ \A c \in Conns : sock[c].got \o sock[c].out # << >> => Authenticated(c)
  /\ \A s \in Slots : slot[s].fd # NoConn /\ (slot[s].auth \/ slot[s].send # << >>)
                        => Authenticated(slot[s].fd)

\* Every client that connects is taken in or turned away.
ConnectionsAnswered == \A c \in Conns : sock[c].st = "queued" ~> sock[c].st # "queued"

\* Every client that connects is taken in or turned away, and a frame that has
\* arrived completely is handled, or its connection is closed: no edge of the
\* edge-triggered epoll is lost by the accept loop or the read loop.
FramesHandled ==
  /\ ConnectionsAnswered
  /\ \A c \in Conns : \A k \in 1 .. 3 :
       upcoming[c][2] > k
         ~> (handled[c] >= k \/ sock[c].st = "closed" \/ sock[c].rst)

\* Once EPOLLOUT is registered for a response that did not fit into the socket, the
\* send ring is emptied or the connection ends, as long as the client takes what
\* arrives and the gateway runs: no edge is lost between the partial sends.
ResponsesLeave ==
  \A s \in Slots : slot[s].pending ~> (~slot[s].pending \/ slot[s].fd = NoConn \/ ~running)

\* A connection that the idle scan or an error has marked is closed with its next
\* event; until then the mark has no effect.
MarkedEnd ==
  \A s \in Slots, c \in Conns :
    (slot[s].fd = c /\ slot[s].closing /\ Raised(c)) ~> (slot[s].fd # c \/ ~running)
================================================================================
