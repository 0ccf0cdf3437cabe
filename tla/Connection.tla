----------------------------- MODULE Connection -----------------------------
(***************************************************************************)
(* One worker thread of wrk: its connections, the event loop that calls    *)
(* their handlers, the sockets of the kernel and the server behind them.   *)
(* A step is one handler call, one parsed response, or one event of the    *)
(* world outside the thread.                                               *)
(***************************************************************************)
EXTENDS Integers, Sequences, FiniteSets

CONSTANTS
  Conns,        \* the thread's connections
  Fds,          \* the file descriptors it can obtain
  NoConn, NoFd, \* "none"
  Pipeline,     \* cfg.pipeline: requests in one c->request
  ReqUnits,     \* pieces in which one request can be written
  Dynamic,      \* cfg.dynamic: the script's request() builds every request
  Delay,        \* cfg.delay: the script has a delay()
  Tls,          \* sock is the table of ssl.c
  Replies,      \* how the server frames its responses
  EarlyReply,   \* the server may answer a request it has only begun to receive
  ConnectFails, \* connect() may fail at once (no port, no route)
  OtherThreads, \* other threads take and close descriptors of the process
  MaxFaults,    \* bound: faults of the server, of the network, and of the
                \* connects of other threads in a behaviour
  MaxDelays,    \* bound: pending delay timers of a connection, and how far
                \* its pending may run below zero
  MaxCount      \* bound: the counters of the thread stop here

ASSUME ConnectionAssumption ==
  /\ Pipeline \in Nat \ {0} /\ ReqUnits \in Nat \ {0}
  /\ {Dynamic, Delay, Tls, EarlyReply, ConnectFails, OtherThreads} \subseteq BOOLEAN
  /\ Replies \subseteq {"keep", "close", "eof", "junk"}
  /\ {MaxFaults, MaxDelays, MaxCount} \subseteq Nat
  /\ NoFd \notin Fds /\ NoConn \notin Conns

VARIABLES
  fd, delayed, written, pending, request, parser, \* struct connection
  live,     \* auxiliary: a request cycle is open on the connection
  events,   \* the loop's aeFileEvent table
  timers,   \* pending delay_request timers of each connection
  fired,    \* masks of the batch that are still to be handled
  cur,      \* the fired descriptor whose read half has been called
  pc,       \* "poll", "files" (in the fired loop) or "parse" (in socket_readable)
  input,    \* what socket_readable has read and not parsed yet
  todo,     \* connections thread_main has not opened yet
  sock,     \* the kernel's sockets and what the server has received
  fresh,    \* auxiliary: sockets opened since the last poll
  num,      \* the counters of the thread
  faults,   \* faults so far
  strays,   \* numbers that another thread uses although it has closed them
  touched   \* auxiliary: numbers in the table by which another thread has used or
            \* closed the socket

conn == <<fd, delayed, written, pending, request, parser, live>>
loop == <<events, timers, fired, cur, pc, input, todo>>
others == <<strays, touched>>
vars == <<conn, loop, sock, fresh, num, faults, others>>

R == "AE_READABLE"
W == "AE_WRITABLE"
Length == Pipeline * ReqUnits

(***************************************************************************)
(* Sockets.  Of a connected one: part counts the pieces of a request that  *)
(* is not received entirely, early says it was answered already, owed      *)
(* counts the requests not answered, inbox holds the responses in flight,  *)
(* fin that the server sends no more.                                      *)
(***************************************************************************)
Socket(state) == [st |-> state, part |-> 0, early |-> FALSE, owed |-> 0,
                  inbox |-> <<>>, fin |-> FALSE]
States == {"free", "connecting", "open", "refused", "reset", "foreign"}
Failed(f) == sock[f].st \in {"refused", "reset"}
Connected(f) == sock[f].st = "open"
Foreign(f) == sock[f].st = "foreign"
Held(f) == sock[f].st \notin {"free", "foreign"}

\* What epoll reports of f.
Ready(f) == CASE Failed(f) -> {R, W}
              [] Connected(f) -> {W} \union (IF sock[f].inbox # <<>> \/ sock[f].fin
                                             THEN {R} ELSE {})
              [] OTHER -> {}

\* The server after n more pieces have reached it.  What becomes of the sockets of
\* other threads is not followed.
Receive(s, n) ==
  LET got == s.part + n
      full == got \div ReqUnits
  IN  IF s.fin \/ s.st = "foreign" THEN s
      ELSE [s EXCEPT !.part = got % ReqUnits,
                     !.owed = @ + full - (IF s.early /\ full > 0 THEN 1 ELSE 0),
                     !.early = @ /\ full = 0]

Counters == {"complete", "succ", "status", "timeout", "latency",
             "connect", "read", "write", "issued"}
\* Variant: errors.read is forgotten.
BumpNotRead(count, names) ==
  [x \in Counters |-> IF x \in names \ {"read"} /\ count[x] < MaxCount
                      THEN count[x] + 1 ELSE count[x]]
Bump(count, names) == [x \in Counters |-> IF x \in names /\ count[x] < MaxCount
                                          THEN count[x] + 1 ELSE count[x]]

(***************************************************************************)
(* ae.c: the table of file events.                                         *)
(***************************************************************************)
\* epoll_ctl refuses to add a descriptor that is not open, and to modify one whose
\* socket was closed since it was added, which it has forgotten.
Refused(table, f) == sock[f].st = "free" \/ (Foreign(f) /\ table[f].mask # {})
\* Variant: a registered handler is not replaced.
aeCreateKeepsHandler(table, f, mask, proc, c) ==
  IF Refused(table, f) THEN table
  ELSE [table EXCEPT ![f] = [@ EXCEPT !.mask = @ \union mask, !.data = c,
                                      !.rproc = IF R \in mask THEN proc ELSE @]]
aeCreateFileEvent(table, f, mask, proc, c) ==
  IF Refused(table, f) THEN table
  ELSE [table EXCEPT ![f] = [mask  |-> @.mask \union mask,
                             rproc |-> IF R \in mask THEN proc ELSE @.rproc,
                             wproc |-> IF W \in mask THEN proc ELSE @.wproc,
                             data  |-> c]]

\* Variant: nothing is deleted.
aeDeleteNothing(table, f, mask) == table
aeDeleteFileEvent(table, f, mask) == [table EXCEPT ![f].mask = @ \ mask]

(***************************************************************************)
(* wrk.c: opening a socket.  open, table and count are the sockets, the    *)
(* events and the counters at the call.                                    *)
(***************************************************************************)
\* The socket is closed again when connect() fails, and when the table has an event
\* of its number, which epoll cannot modify.
Free(open) == {f \in Fds : open[f].st = "free"}
connect_socket(c, open, table, count) ==
  \/ \E f \in Free(open) :
       /\ table[f].mask = {}
       /\ fd' = [fd EXCEPT ![c] = f]
       /\ sock' = [open EXCEPT ![f] = Socket("connecting")]
       /\ events' = [table EXCEPT ![f] = [mask |-> {R, W}, rproc |-> "socket_connected",
                                          wproc |-> "socket_connected", data |-> c]]
       /\ fresh' = fresh \union {f}
       /\ num' = count
  \/ /\ ConnectFails \/ Free(open) = {} \/ \E f \in Free(open) : table[f].mask # {}
     /\ sock' = open /\ events' = table
     /\ num' = Bump(count, {"connect"})
     /\ UNCHANGED <<fd, fresh>>

\* Variant: the old socket is not closed.
reconnect_without_close(c, table, count) ==
  /\ connect_socket(c, sock, aeDeleteFileEvent(table, fd[c], {R, W}), count)
  /\ live' = [live EXCEPT ![c] = FALSE]
  /\ UNCHANGED others
\* c->fd keeps its number when it cannot connect, so that a second call closes
\* whatever has that number by then; a thread that loses a socket in this way may
\* still have handlers to call for it.
reconnect_socket(c, table, count) ==
  /\ connect_socket(c, [sock EXCEPT ![fd[c]] = Socket("free")],
                    aeDeleteFileEvent(table, fd[c], {R, W}), count)
  /\ live' = [live EXCEPT ![c] = FALSE]
  /\ strays' \in {strays} \union (IF Foreign(fd[c]) THEN {strays \union {fd[c]}} ELSE {})
  /\ touched' = touched \ {fd[c]}

NotReading == [c |-> NoConn, buf |-> <<>>, bad |-> FALSE]

Init ==
  /\ fd = [c \in Conns |-> NoFd] /\ delayed = [c \in Conns |-> Delay]
  /\ written = [c \in Conns |-> 0] /\ pending = [c \in Conns |-> 0]
  /\ request = [c \in Conns |-> ~Dynamic] /\ parser = [c \in Conns |-> "start"]
  /\ live = [c \in Conns |-> FALSE]
  /\ events = [f \in Fds |-> [mask |-> {}, rproc |-> "none", wproc |-> "none",
                              data |-> NoConn]]
  /\ timers = [c \in Conns |-> 0] /\ fired = [f \in Fds |-> {}]
  /\ cur = NoFd /\ pc = "poll" /\ input = NotReading /\ todo = Conns
  /\ sock = [f \in Fds |-> Socket("free")] /\ fresh = {}
  /\ num = [x \in Counters |-> 0] /\ faults = 0
  /\ strays = {} /\ touched = {}

\* thread_main opens its connections before it enters the loop.
thread_main(c) ==
  /\ c \in todo /\ todo' = todo \ {c}
  /\ connect_socket(c, sock, events, num)
  /\ UNCHANGED <<delayed, written, pending, request, parser, live,
                 timers, fired, cur, pc, input, faults, others>>

(***************************************************************************)
(* The handlers.  They leave fired, cur and todo to the loop.  A handler   *)
(* of the batch may find that another thread has closed its descriptor, or *)
(* that it is another thread's by now.                                     *)
(***************************************************************************)
socket_connected(c, f) ==
  /\ pc' = "files"
  /\ UNCHANGED <<delayed, pending, request, timers, input, faults>>
  /\ \/ /\ Tls => Connected(f)                                        \* OK
        /\ parser' = [parser EXCEPT ![c] = "start"]
        /\ written' = [written EXCEPT ![c] = 0]
        /\ events' = aeCreateFileEvent(
                       aeCreateFileEvent(events, f, {R}, "socket_readable", c),
                       f, {W}, "socket_writeable", c)
        /\ UNCHANGED <<fd, live, sock, fresh, num, others>>
     \/ /\ Tls /\ (Connected(f) \/ Foreign(f))                        \* RETRY
        /\ UNCHANGED <<fd, written, parser, live, events, sock, fresh, num, others>>
     \/ /\ Tls                                                        \* ERROR
        /\ reconnect_socket(c, events, Bump(num, {"connect"}))
        /\ UNCHANGED <<written, parser>>

\* A delayed connection waits for its timer ...
DelayWrite(c, f) ==
  /\ delayed[c] /\ timers[c] < MaxDelays
  /\ timers' = [timers EXCEPT ![c] = @ + 1]
  /\ events' = aeDeleteFileEvent(events, f, {W})
  /\ UNCHANGED <<conn, sock, fresh, num, others>>

\* pending is set when a write is the first of its cycle.  Variants: set at
\* every write, or never.
EveryWriteSetsPending(c) == [pending EXCEPT ![c] = Pipeline]
NoWriteSetsPending(c) == pending
PendingAtWrite(c) == IF written[c] = 0 THEN [pending EXCEPT ![c] = Pipeline] ELSE pending

\* The end of the request resets written.
Advance(c, n) == (written[c] + n) % Length

\* ... any other one writes, from the start of a request or the rest of it.
WriteRequest(c, f) ==
  LET first == written[c] = 0
      built == request[c] \/ (first /\ Dynamic)
      count == IF first /\ ~live[c] THEN Bump(num, {"issued"}) ELSE num
  IN  /\ ~delayed[c]
      /\ pending' = PendingAtWrite(c)
      /\ UNCHANGED <<delayed, parser, timers>>
      /\ \/ /\ built /\ (Connected(fd[c]) \/ Foreign(fd[c]))           \* OK
            /\ \E n \in 1 .. Length - written[c] :
                 /\ written' = [written EXCEPT ![c] = Advance(c, n)]
                 /\ sock' = [sock EXCEPT ![fd[c]] = Receive(@, n)]
            /\ events' = IF written'[c] = 0 THEN aeDeleteFileEvent(events, f, {W})
                                            ELSE events
            /\ request' = [request EXCEPT ![c] = TRUE]
            /\ live' = [live EXCEPT ![c] = TRUE]
            /\ num' = count
            /\ UNCHANGED <<fd, fresh, others>>
         \/ /\ built /\ ~Failed(fd[c]) /\ sock[fd[c]].st # "free"      \* RETRY
            /\ request' = [request EXCEPT ![c] = TRUE]
            /\ live' = [live EXCEPT ![c] = TRUE]
            /\ num' = count
            /\ UNCHANGED <<fd, written, events, sock, fresh, others>>
         \/ /\ ~built \/ Failed(fd[c]) \/ ~Held(fd[c])                 \* ERROR
            /\ request' = [request EXCEPT ![c] = ~Dynamic]
            /\ reconnect_socket(c, events, Bump(count, {"write"}))
            /\ UNCHANGED written

socket_writeable(c, f) ==
  /\ DelayWrite(c, f) \/ WriteRequest(c, f)
  /\ pc' = "files" /\ UNCHANGED <<input, faults>>

\* A response to another thread, a part of one, or the end of its stream.
Strange(c) == IF parser[c] = "eof" THEN {<<>>, <<"end">>}
              ELSE {<<>>} \union {<<kind>> : kind \in Replies}

\* sock.read: whole responses, the beginning of one, or the end of the stream
\* or an error (bad).  The end of a plain stream completes a response that has
\* no length; SSL_read reports it as an error.
Read(c) ==
  LET s == sock[fd[c]] IN
  \/ /\ s.inbox # <<>>
     /\ \E k \in 1 .. Len(s.inbox) :
          /\ input' = [c |-> c, buf |-> SubSeq(s.inbox, 1, k), bad |-> FALSE]
          /\ sock' = [sock EXCEPT ![fd[c]].inbox = SubSeq(@, k + 1, Len(@))]
     /\ UNCHANGED parser
  \/ /\ s.inbox # <<>> /\ parser[c] = "start"
     /\ input' = [c |-> c, buf |-> <<>>, bad |-> FALSE]
     /\ parser' = [parser EXCEPT ![c] = "mid"]
     /\ UNCHANGED sock
  \/ /\ s.inbox = <<>> /\ (Tls => s.fin \/ s.st = "reset" \/ ~Held(fd[c]))
     /\ input' = [c |-> c, bad |-> TRUE,
                  buf |-> IF s.st = "open" /\ parser[c] = "eof" /\ ~Tls
                          THEN <<"end">> ELSE <<>>]
     /\ UNCHANGED <<parser, sock>>
  \/ /\ Foreign(fd[c]) /\ ~Tls
     /\ \E got \in Strange(c) : input' = [c |-> c, buf |-> got, bad |-> got = <<"end">>]
     /\ parser' \in {parser, [parser EXCEPT ![c] = IF @ = "start" THEN "mid" ELSE @]}
     /\ UNCHANGED sock

socket_readable(c) ==
  /\ UNCHANGED <<fd, delayed, written, pending, request, live, events, timers,
                 fresh, num, faults, others>>
  /\ \/ Read(c) /\ pc' = "parse"
     \/ Tls /\ pc' = "files" /\ UNCHANGED <<parser, input, sock>>      \* RETRY

\* After the last response of a cycle the connection may write again.
\* Variant: it may not.
NoRearm(c) == events
Rearm(c) == aeCreateFileEvent(events, fd[c], {W}, "socket_writeable", c)

\* The parser's callback at the end of a response.
response_complete(c, keep, ok, late) ==
  LET last  == pending[c] - 1 = 0
      count == Bump(num, {"complete", IF ok THEN "succ" ELSE "status"}
                         \union (IF last THEN {IF late THEN "timeout" ELSE "latency"}
                                         ELSE {}))
      table == IF last THEN Rearm(c) ELSE events
  IN  /\ pending' = [pending EXCEPT ![c] = @ - 1]
      /\ delayed' = IF last THEN [delayed EXCEPT ![c] = Delay] ELSE delayed
      /\ IF keep
         THEN /\ events' = table /\ num' = count
              /\ live' = [live EXCEPT ![c] = @ /\ ~last]
              /\ UNCHANGED <<fd, sock, fresh, others>>
         ELSE reconnect_socket(c, table, count)

\* http_parser_execute at the next response of the input.
ParseResponse ==
  LET c == input.c
      kind == Head(input.buf)
      keep == kind = "keep"
  IN  /\ pc = "parse" /\ input.buf # <<>> /\ parser[c] # "dead"
      /\ UNCHANGED <<written, request, timers, fired, cur, pc, todo, faults>>
      /\ input' = [input EXCEPT !.buf = IF kind = "junk" THEN <<"stray">> ELSE Tail(@)]
      /\ \/ /\ kind = "eof"
            /\ parser' = [parser EXCEPT ![c] = "eof"]
            /\ UNCHANGED <<fd, delayed, pending, live, events, sock, fresh, num, others>>
         \/ /\ kind # "eof" /\ pending[c] > -MaxDelays
            /\ parser' = [parser EXCEPT ![c] = CASE keep -> "start"
                                                 [] kind = "end" -> "eof"
                                                 [] OTHER -> "dead"]
            /\ \E ok, late \in BOOLEAN : response_complete(c, keep, ok, late)

\* The rest of socket_readable.
Freed(c) == [request EXCEPT ![c] = @ /\ ~Dynamic]

ReadEnd ==
  /\ pc = "parse" /\ input.buf = <<>> /\ ~input.bad
  /\ request' = Freed(input.c)
  /\ pc' = "files" /\ input' = NotReading
  /\ UNCHANGED <<fd, delayed, written, pending, parser, live, events, timers,
                 fired, cur, todo, sock, fresh, num, faults, others>>

ReadError ==
  LET c == input.c IN
  /\ pc = "parse"
  /\ \/ input.buf # <<>> /\ parser[c] = "dead"
     \/ input.buf = <<>> /\ input.bad
  /\ reconnect_socket(c, events, Bump(num, {"read"}))
  /\ request' = Freed(c)
  /\ pc' = "files" /\ input' = NotReading
  /\ UNCHANGED <<delayed, written, pending, parser, timers, fired, cur, todo, faults>>

delay_request(c) ==
  /\ pc = "poll" /\ todo = {} /\ timers[c] > 0
  /\ timers' = [timers EXCEPT ![c] = @ - 1]
  /\ delayed' = [delayed EXCEPT ![c] = FALSE]
  /\ events' = aeCreateFileEvent(events, fd[c], {W}, "socket_writeable", c)
  /\ UNCHANGED <<fd, written, pending, request, parser, live, fired, cur, pc,
                 input, todo, sock, fresh, num, faults, others>>

(***************************************************************************)
(* aeProcessEvents: poll, then for every fired descriptor its read half    *)
(* and its write half, each looked up in the table again when its turn     *)
(* comes.                                                                  *)
(***************************************************************************)
aeApiPoll ==
  /\ pc = "poll" /\ todo = {}
  /\ fired' = [f \in Fds |->
                 IF events[f].mask = {} THEN {}
                 ELSE (Ready(f) \intersect events[f].mask)
                      \union (IF Failed(f) THEN {W} ELSE {})]
  /\ \E f \in Fds : fired'[f] # {}
  /\ pc' = "files" /\ fresh' = {}
  /\ UNCHANGED <<conn, events, timers, cur, input, todo, sock, num, faults, others>>

Valid(f, m) == m \in fired[f] \intersect events[f].mask
\* Variant: the two handlers are not compared.
CallsWriteAlways(f) == Valid(f, W) /\ (cur = f \/ (cur = NoFd /\ ~Valid(f, R)))
CallsWrite(f) == /\ Valid(f, W)
                 /\ IF cur = f THEN events[f].wproc # events[f].rproc
                               ELSE cur = NoFd /\ ~Valid(f, R)

ReadHalf(f) ==
  /\ pc = "files" /\ cur = NoFd /\ Valid(f, R)
  /\ cur' = f /\ fired' = [fired EXCEPT ![f] = @ \ {R}]
  /\ \/ events[f].rproc = "socket_connected" /\ socket_connected(events[f].data, f)
     \/ events[f].rproc = "socket_readable" /\ socket_readable(events[f].data)
  /\ UNCHANGED todo

WriteHalf(f) ==
  /\ pc = "files" /\ CallsWrite(f)
  /\ cur' = NoFd /\ fired' = [fired EXCEPT ![f] = {}]
  /\ \/ events[f].wproc = "socket_connected" /\ socket_connected(events[f].data, f)
     \/ events[f].wproc = "socket_writeable" /\ socket_writeable(events[f].data, f)
  /\ UNCHANGED todo

NextEntry(f) ==
  /\ pc = "files" /\ cur \in {f, NoFd} /\ (cur = f \/ fired[f] # {})
  /\ ~CallsWrite(f) /\ (cur = NoFd => ~Valid(f, R))
  /\ cur' = NoFd /\ fired' = [fired EXCEPT ![f] = {}]
  /\ UNCHANGED <<conn, events, timers, pc, input, todo, sock, fresh, num, faults, others>>

EndOfBatch ==
  /\ pc = "files" /\ cur = NoFd /\ \A f \in Fds : fired[f] = {}
  /\ pc' = "poll"
  /\ UNCHANGED <<conn, events, timers, fired, cur, input, todo, sock, fresh, num, faults,
                 others>>

(***************************************************************************)
(* The world: the network and the server.                                  *)
(***************************************************************************)
Becomes(f, s) == /\ sock' = [sock EXCEPT ![f] = s]
                 /\ UNCHANGED <<conn, loop, fresh, num>>
World(f, s) == Becomes(f, s) /\ UNCHANGED others
Fault == faults < MaxFaults /\ faults' = faults + 1

Accept(f) == sock[f].st = "connecting" /\ World(f, Socket("open")) /\ UNCHANGED faults
Refuse(f) == sock[f].st = "connecting" /\ World(f, Socket("refused")) /\ Fault

\* After any response but a "keep" the server closes.
Respond(f, kind, s) ==
  World(f, [s EXCEPT !.inbox = Append(@, kind), !.fin = kind # "keep",
                     !.part = IF kind = "keep" THEN @ ELSE 0,
                     !.owed = IF kind = "keep" THEN @ ELSE 0])

Reply(f) ==
  /\ Connected(f) /\ ~sock[f].fin /\ sock[f].owed > 0
  /\ \E kind \in Replies : Respond(f, kind, [sock[f] EXCEPT !.owed = @ - 1])
  /\ UNCHANGED faults

ReplyEarly(f) ==
  /\ EarlyReply /\ Connected(f) /\ ~sock[f].fin
  /\ sock[f].owed = 0 /\ sock[f].part > 0 /\ ~sock[f].early
  /\ \E kind \in Replies : Respond(f, kind, [sock[f] EXCEPT !.early = TRUE])
  /\ UNCHANGED faults

Close(f) ==
  /\ Connected(f) /\ ~sock[f].fin
  /\ World(f, [sock[f] EXCEPT !.fin = TRUE, !.owed = 0, !.part = 0]) /\ Fault

\* A reset; the responses that have arrived can still be read.
Reset(f) ==
  /\ Connected(f) /\ Fault
  /\ \E rest \in {<<>>, sock[f].inbox} :
       World(f, [Socket("reset") EXCEPT !.inbox = rest])

(***************************************************************************)
(* The other threads of the process, which run the same code: what they do *)
(* with the descriptors that this thread can obtain.                       *)
(***************************************************************************)
\* connect_socket of another thread ...
TakeFd(f) == /\ OtherThreads /\ sock[f].st = "free"
             /\ World(f, Socket("foreign")) /\ UNCHANGED faults
\* ... and its reconnect_socket, which may leave the closed number in c->fd, to close
\* it again at the end of the same read.
ReleaseFd(f) == /\ Foreign(f) /\ Becomes(f, Socket("free"))
                /\ \/ UNCHANGED <<faults, others>>
                   \/ ConnectFails /\ Fault /\ strays' = strays \union {f} /\ UNCHANGED touched

\* Its second close of the number hits the socket that has the number now: of this
\* thread, or of a third one, which may still have handlers to call for it.
CloseAgain(f) ==
  /\ f \in strays /\ Becomes(f, Socket("free")) /\ UNCHANGED faults
  /\ strays' \in {strays \ {f}} \union (IF Foreign(f) THEN {strays} ELSE {})
  /\ touched' = IF Held(f) THEN touched \union {f} ELSE touched

\* A handler of a thread that has lost its socket reads from this thread's, which has
\* the number now, or writes to it; TLS does not survive that.
UseAgain(f) ==
  /\ f \in strays /\ Connected(f)
  /\ \E s \in IF Tls THEN {Socket("reset")}
            ELSE {[sock[f] EXCEPT !.inbox = <<>>], Receive(sock[f], 1)} : Becomes(f, s)
  /\ touched' = touched \union {f} /\ UNCHANGED <<faults, strays>>

Thread == \/ \E c \in Conns : thread_main(c) \/ delay_request(c)
          \/ aeApiPoll \/ ParseResponse \/ ReadEnd \/ ReadError \/ EndOfBatch
          \/ \E f \in Fds : ReadHalf(f) \/ WriteHalf(f) \/ NextEntry(f)
Outside == \E f \in Fds : \/ Accept(f) \/ Refuse(f) \/ Reply(f) \/ ReplyEarly(f)
                          \/ Close(f) \/ Reset(f) \/ TakeFd(f) \/ ReleaseFd(f)
                          \/ CloseAgain(f) \/ UseAgain(f)
Next == Thread \/ Outside

Spec == Init /\ [][Next]_vars

(***************************************************************************)
(* Fairness.  The thread keeps running, and its loop handles a whole batch *)
(* before it polls again; the loop calls every timer that is due in each   *)
(* round and the clock advances; a socket that keeps being reported        *)
(* writable takes bytes in the end; the server accepts and answers.        *)
(***************************************************************************)
Fairness ==
  /\ WF_vars(Thread)
  /\ \A c \in Conns : SF_vars(delay_request(c))
  /\ \A f \in Fds : /\ SF_vars(WriteHalf(f) /\ sock' # sock)
                    /\ WF_vars(Accept(f)) /\ WF_vars(Reply(f))

FairSpec == Spec /\ Fairness

-----------------------------------------------------------------------------
SocketType ==
  [st : States, part : 0 .. ReqUnits - 1, early : BOOLEAN, owed : Nat,
   inbox : Seq(Replies), fin : BOOLEAN]
EventType ==
  [mask  : SUBSET {R, W},
   rproc : {"none", "socket_connected", "socket_readable"},
   wproc : {"none", "socket_connected", "socket_writeable"},
   data  : Conns \union {NoConn}]
InputType == [c : Conns \union {NoConn}, bad : BOOLEAN,
              buf : Seq(Replies \union {"end", "stray"})]

ConnOK ==
  /\ fd \in [Conns -> Fds \union {NoFd}]
  /\ delayed \in [Conns -> BOOLEAN] /\ written \in [Conns -> 0 .. Length - 1]
  /\ pending \in [Conns -> Int] /\ request \in [Conns -> BOOLEAN]
  /\ parser \in [Conns -> {"start", "mid", "eof", "dead"}]
  /\ live \in [Conns -> BOOLEAN]
LoopOK ==
  /\ events \in [Fds -> EventType]
  /\ timers \in [Conns -> Nat] /\ fired \in [Fds -> SUBSET {R, W}]
  /\ cur \in Fds \union {NoFd} /\ pc \in {"poll", "files", "parse"}
  /\ input \in InputType /\ todo \subseteq Conns
WorldOK ==
  /\ sock \in [Fds -> SocketType] /\ fresh \subseteq Fds
  /\ num \in [Counters -> 0 .. MaxCount] /\ faults \in 0 .. MaxFaults
  /\ strays \subseteq Fds /\ touched \subseteq Fds

\* The state stays in the types of wrk.h and ae.h.
TypeOK == ConnOK /\ LoopOK /\ WorldOK

Watched(c, f) == events[f].mask # {} /\ events[f].data = c
\* The loop is about to start a request cycle of c on f.
Starting(c, f) == /\ Watched(c, f) /\ W \in events[f].mask /\ written[c] = 0
                  /\ events[f].wproc = "socket_writeable"

\* A socket the thread holds is watched for its one owner: no reconnect leaks a
\* socket or leaves an event that calls a connection for another's.  An event
\* outlives its socket only when another thread has closed that, and a connection
\* without a socket completes no response: the one number this thread may close
\* although it is another's is c->fd, when a connect has failed in the same read.
EventsOwnTheirSocket ==
  /\ \A f \in Fds :
       /\ Held(f) => R \in events[f].mask
       /\ events[f].mask # {} => /\ R \in events[f].mask /\ (Held(f) \/ f \in touched)
                                /\ events[f].data \in Conns /\ fd[events[f].data] = f
  /\ pc = "parse" /\ input.buf # <<>> /\ parser[input.c] # "dead" =>
       Watched(input.c, fd[input.c])

\* A reconnect inside a batch may get back the very descriptor the batch is
\* about; what was reported of the old socket never reaches a handler of the
\* new one (the second look at the mask and at the handlers in aeProcessEvents).
NoStaleDispatch ==
  pc = "files" =>
    \A f \in fresh : ~(cur = NoFd /\ Valid(f, R)) /\ ~CallsWrite(f)

\* Requests of the batch the server has not received entirely.
Unsent(c) == IF written[c] > 0 THEN Pipeline - written[c] \div ReqUnits
             ELSE IF W \in events[fd[c]].mask THEN Pipeline ELSE 0
Unparsed(c) == IF input.c = c THEN Len(input.buf) ELSE 0

\* On a healthy socket pending is the number of responses still to come,
\* wherever they are: unsent, at the server, in flight, or read.
PendingIsOutstanding ==
  \A c \in Conns :
    live[c] /\ Connected(fd[c]) /\ ~sock[fd[c]].fin =>
      pending[c] = Unsent(c) + sock[fd[c]].owed + Len(sock[fd[c]].inbox) + Unparsed(c)

\* When the loop is about to start a request cycle, nothing of an earlier one
\* is outstanding on the socket, so that c->start belongs to the responses
\* that follow (SCRIPTING: request() and response() for each request cycle), unless
\* another thread has meddled with it.
OneCycleAtATime ==
  \A c \in Conns, f \in Fds :
    Starting(c, f) /\ Connected(f) /\ f \notin touched =>
      sock[f].owed = 0 /\ sock[f].part = 0 /\ sock[f].inbox = <<>>

\* No lost wake-up: when the loop polls, a connected socket waits for an
\* answer, has something to read, may write, or has a timer.
NoStall ==
  \A c \in Conns, f \in Fds :
    pc = "poll" /\ Watched(c, f) /\ Connected(f) =>
      \/ Ready(f) \intersect events[f].mask # {}
      \/ timers[c] > 0 \/ sock[f].owed > 0

\* Every cycle that was started is open, or was sampled or counted late, or
\* was cut off by a failure that errors.read or errors.write counts; and no
\* cycle is sampled twice.
CyclesAreCounted ==
  LET sampled == num["latency"] + num["timeout"]
      open == Cardinality({c \in Conns : live[c]})
  IN  (\A x \in Counters : num[x] < MaxCount) =>
        /\ sampled + open <= num["issued"]
        /\ num["issued"] <= sampled + open + num["read"] + num["write"]

\* Closed loop: every connection starts and finishes cycles for ever.
Progress == \A c \in Conns : []<>live[c] /\ []<>~live[c]

(***************************************************************************)
(* What the thread promises: each connection is a closed loop.             *)
(***************************************************************************)
Loop == INSTANCE ClosedLoop
          WITH phase <- [c \in Conns |->
                           IF live[c] THEN "busy"
                           ELSE IF \E f \in Fds : /\ Watched(c, f)
                                                  /\ events[f].rproc = "socket_readable"
                                THEN "idle" ELSE "down"],
               due <- [c \in Conns |-> IF live[c] THEN pending[c] ELSE 0]

\* The connection's handlers implement the closed loop.
ImplementsClosedLoop == Loop!Spec

=============================================================================
