-------------------------- MODULE ConnectionProofs --------------------------
(***************************************************************************)
(* Proofs about a worker thread with any connections, descriptors, bounds  *)
(* and server.  The first half holds whatever the other threads do with    *)
(* numbers they have closed.  The second half leaves that out and shows    *)
(* that a connection is a closed loop: whatever the server answers, cuts   *)
(* or resets, and however requests are written in pieces, pending is in    *)
(* step with what is written, under way and parsed; without delay().       *)
(***************************************************************************)
EXTENDS Connection, SequenceTheorems, FiniteSetTheorems, TLAPS

Masks == SUBSET {R, W}
ReadProcs == {"none", "socket_connected", "socket_readable"}
WriteProcs == {"none", "socket_connected", "socket_writeable"}
CounterType == [Counters -> 0 .. MaxCount]

-----------------------------------------------------------------------------
(* The operators the actions are built from. *)

LEMMA Numbers ==
  /\ ReqUnits \in Nat /\ ReqUnits > 0 /\ Pipeline \in Nat /\ Pipeline > 0
  /\ MaxCount \in Nat /\ MaxFaults \in Nat /\ MaxDelays \in Nat
  /\ Delay \in BOOLEAN /\ Dynamic \in BOOLEAN
  /\ NoFd \notin Fds /\ NoConn \notin Conns
BY ConnectionAssumption DEF ConnectionAssumption

LEMMA LengthPositive == Length \in Nat /\ Length > 0
<1>1. \A a, b \in Nat : a > 0 /\ b > 0 => a * b \in Nat /\ a * b > 0
  OBVIOUS
<1> QED
  BY <1>1, Numbers DEF Length

LEMMA SocketTyped == \A state \in States : Socket(state) \in SocketType
<1>1. 0 \in 0 .. ReqUnits - 1 /\ 0 \in Nat /\ <<>> \in Seq(Replies)
  BY Numbers, EmptySeq
<1> QED
  BY <1>1 DEF Socket, SocketType

LEMMA BumpTyped ==
  ASSUME NEW count \in CounterType, NEW names PROVE Bump(count, names) \in CounterType
BY Numbers DEF Bump, CounterType

LEMMA ReceiveTyped ==
  ASSUME NEW s \in SocketType, NEW n \in Nat PROVE Receive(s, n) \in SocketType
<1> DEFINE got == s.part + n
           full == got \div ReqUnits
<1>1. s.part \in Nat /\ s.owed \in Nat /\ s.early \in BOOLEAN
  BY Numbers DEF SocketType
<1>2. got \in Nat
  BY <1>1
<1>3. full \in Nat /\ got % ReqUnits \in 0 .. ReqUnits - 1
  BY <1>2, Numbers
<1>4. s.owed + full - (IF s.early /\ full > 0 THEN 1 ELSE 0) \in Nat
  BY <1>1, <1>3
<1>5. (s.early /\ full = 0) \in BOOLEAN
  OBVIOUS
<1> HIDE DEF got, full
<1>6. [s EXCEPT !.part = got % ReqUnits,
                !.owed = @ + full - (IF s.early /\ full > 0 THEN 1 ELSE 0),
                !.early = @ /\ full = 0] \in SocketType
  BY <1>3, <1>4, <1>5 DEF SocketType
<1> QED
  BY <1>6 DEF Receive, got, full

(***************************************************************************)
(* A handler is called for a connection that has obtained a descriptor.    *)
(***************************************************************************)
EventsHaveFd(table, owner) ==
  \A f \in Fds : table[f].mask # {} => table[f].data \in Conns /\ owner[table[f].data] \in Fds

LEMMA CreateTyped ==
  ASSUME NEW table \in [Fds -> EventType], NEW f \in Fds, NEW mask \in Masks,
         NEW proc, R \in mask => proc \in ReadProcs, W \in mask => proc \in WriteProcs,
         NEW c \in Conns
  PROVE  aeCreateFileEvent(table, f, mask, proc, c) \in [Fds -> EventType]
BY DEF aeCreateFileEvent, EventType, Masks, ReadProcs, WriteProcs

LEMMA CreateHasFd ==
  ASSUME NEW table \in [Fds -> EventType], NEW f \in Fds, NEW mask \in Masks,
         NEW proc, NEW c \in Conns, fd[c] \in Fds, EventsHaveFd(table, fd)
  PROVE  EventsHaveFd(aeCreateFileEvent(table, f, mask, proc, c), fd)
BY DEF aeCreateFileEvent, EventType, EventsHaveFd

LEMMA DeleteTyped ==
  ASSUME NEW table \in [Fds -> EventType], NEW f, NEW mask
  PROVE  /\ aeDeleteFileEvent(table, f, mask) \in [Fds -> EventType]
         /\ EventsHaveFd(table, fd) => EventsHaveFd(aeDeleteFileEvent(table, f, mask), fd)
BY DEF aeDeleteFileEvent, EventType, EventsHaveFd

\* What opening a socket, anew or again, leaves typed.
Opened ==
  /\ fd' \in [Conns -> Fds \union {NoFd}]
  /\ \A x \in Conns : fd[x] \in Fds => fd'[x] \in Fds
  /\ sock' \in [Fds -> SocketType] /\ events' \in [Fds -> EventType]
  /\ num' \in CounterType /\ fresh' \subseteq Fds
  /\ EventsHaveFd(events', fd')

\* A socket is opened, for a number that the table does not have, or is not.
Connects(c, f, open, table) ==
  /\ open[f].st = "free" /\ table[f].mask = {}
  /\ fd' = [fd EXCEPT ![c] = f]
  /\ sock' = [open EXCEPT ![f] = Socket("connecting")]
  /\ events' = [table EXCEPT ![f] = [mask |-> {R, W}, rproc |-> "socket_connected",
                                     wproc |-> "socket_connected", data |-> c]]
  /\ fresh' = fresh \union {f}
Disconnects(open, table) == sock' = open /\ events' = table /\ fd' = fd /\ fresh' = fresh

LEMMA ConnectCases ==
  ASSUME NEW c, NEW open, NEW table, NEW count, connect_socket(c, open, table, count)
  PROVE  /\ Disconnects(open, table) \/ \E f \in Fds : Connects(c, f, open, table)
         /\ num' = count \/ num' = Bump(count, {"connect"})
BY Zenon DEF connect_socket, Free, Connects, Disconnects

LEMMA ConnectTyped ==
  ASSUME TypeOK, NEW c \in Conns, NEW open \in [Fds -> SocketType],
         NEW table \in [Fds -> EventType], NEW count \in CounterType,
         EventsHaveFd(table, fd), connect_socket(c, open, table, count)
  PROVE  Opened
<1>1. fd \in [Conns -> Fds \union {NoFd}] /\ fresh \subseteq Fds
  BY DEF TypeOK, ConnOK, WorldOK
<1>0. num' \in CounterType
  BY ConnectCases, BumpTyped
<1>2. ASSUME NEW f \in Fds, Connects(c, f, open, table) PROVE Opened
  <2>1. sock' \in [Fds -> SocketType]
    BY <1>2, SocketTyped DEF States, Connects
  <2>2. [mask |-> {R, W}, rproc |-> "socket_connected",
         wproc |-> "socket_connected", data |-> c] \in EventType
    BY DEF EventType
  <2>3. events' \in [Fds -> EventType]
    BY <1>2, <2>2 DEF Connects
  <2>4. fd' \in [Conns -> Fds \union {NoFd}] /\ fd'[c] = f
        /\ \A x \in Conns : fd[x] \in Fds => fd'[x] \in Fds
    BY <1>1, <1>2 DEF Connects
  <2>5. EventsHaveFd(events', fd')
    BY <1>2, <2>4 DEF EventsHaveFd, Connects
  <2> QED
    BY <1>0, <1>1, <1>2, <2>1, <2>3, <2>4, <2>5 DEF Opened, Connects
<1>3. CASE Disconnects(open, table)
  BY <1>0, <1>1, <1>3 DEF Opened, Disconnects
<1> QED
  BY <1>2, <1>3, ConnectCases

\* The numbers of other threads.
Marked == strays \subseteq Fds /\ touched \subseteq Fds

LEMMA ReconnectTyped ==
  ASSUME TypeOK, NEW c \in Conns, fd[c] \in Fds, NEW table \in [Fds -> EventType],
         NEW count \in CounterType, EventsHaveFd(table, fd),
         reconnect_socket(c, table, count)
  PROVE  Opened /\ live' \in [Conns -> BOOLEAN] /\ Marked'
<1> DEFINE open == [sock EXCEPT ![fd[c]] = Socket("free")]
           cleared == aeDeleteFileEvent(table, fd[c], {R, W})
<1>1. sock \in [Fds -> SocketType] /\ live \in [Conns -> BOOLEAN]
  BY DEF TypeOK, ConnOK, WorldOK
<1>2. open \in [Fds -> SocketType]
  BY <1>1, SocketTyped DEF States
<1>3. cleared \in [Fds -> EventType] /\ EventsHaveFd(cleared, fd)
  BY DeleteTyped
<1>4. connect_socket(c, open, cleared, count) /\ live' = [live EXCEPT ![c] = FALSE]
  BY DEF reconnect_socket
<1>5. Marked'
  <2>1. strays \subseteq Fds /\ touched \subseteq Fds
    BY DEF TypeOK, WorldOK
  <2> QED
    BY <2>1 DEF reconnect_socket, Marked
<1> HIDE DEF open, cleared
<1> QED
  BY <1>1, <1>2, <1>3, <1>4, <1>5, ConnectTyped

-----------------------------------------------------------------------------
(* The types are invariant together with the following. *)

HandlersHaveFd ==
  /\ EventsHaveFd(events, fd)
  /\ \A c \in Conns : timers[c] > 0 => fd[c] \in Fds
  /\ pc = "parse" => input.c \in Conns /\ fd[input.c] \in Fds

Typed == TypeOK /\ HandlersHaveFd

\* The types by name, for the steps that need few of them.
LEMMA TypeFacts ==
  ASSUME TypeOK
  PROVE  /\ fd \in [Conns -> Fds \union {NoFd}] /\ delayed \in [Conns -> BOOLEAN]
         /\ written \in [Conns -> 0 .. Length - 1] /\ pending \in [Conns -> Int]
         /\ request \in [Conns -> BOOLEAN] /\ live \in [Conns -> BOOLEAN]
         /\ parser \in [Conns -> {"start", "mid", "eof", "dead"}]
         /\ events \in [Fds -> EventType] /\ timers \in [Conns -> Nat]
         /\ fired \in [Fds -> SUBSET {R, W}] /\ cur \in Fds \union {NoFd}
         /\ pc \in {"poll", "files", "parse"} /\ input \in InputType
         /\ todo \subseteq Conns /\ sock \in [Fds -> SocketType] /\ fresh \subseteq Fds
         /\ num \in CounterType /\ faults \in 0 .. MaxFaults
         /\ strays \subseteq Fds /\ touched \subseteq Fds
BY DEF TypeOK, ConnOK, LoopOK, WorldOK, CounterType

LEMMA InitTyped == Init => Typed
<1> SUFFICES ASSUME Init PROVE Typed
  OBVIOUS
<1>1. ConnOK
  BY LengthPositive, Numbers DEF Init, ConnOK
<1>2. input \in InputType
  BY EmptySeq DEF Init, NotReading, InputType
<1>3. LoopOK
  BY <1>2 DEF Init, LoopOK, EventType
<1>4. num \in [Counters -> 0 .. MaxCount] /\ faults \in 0 .. MaxFaults
  BY Numbers DEF Init
<1>5. WorldOK
  BY <1>4, SocketTyped DEF Init, WorldOK, States
<1>6. HandlersHaveFd
  BY DEF Init, HandlersHaveFd, EventsHaveFd
<1> QED
  BY <1>1, <1>3, <1>5, <1>6 DEF Typed, TypeOK

LEMMA ThreadMainTyped ==
  ASSUME Typed, NEW c \in Conns, thread_main(c) PROVE Typed'
<1>1. /\ c \in todo /\ todo' = todo \ {c}
      /\ connect_socket(c, sock, events, num)
      /\ UNCHANGED <<delayed, written, pending, request, parser, live,
                     timers, fired, cur, pc, input, faults, others>>
  BY DEF thread_main
<1>2. Opened
  BY <1>1, ConnectTyped, TypeFacts DEF Typed, HandlersHaveFd
<1>3. TypeOK'
  BY <1>1, <1>2 DEF Opened, Typed, TypeOK, ConnOK, LoopOK, WorldOK, CounterType, others
<1>4. HandlersHaveFd'
  BY <1>1, <1>2 DEF Opened, Typed, HandlersHaveFd
<1> QED
  BY <1>3, <1>4 DEF Typed

-----------------------------------------------------------------------------
(* The handlers: what they leave to the loop is added in ReadHalf and      *)
(* WriteHalf.                                                              *)

Handled ==
  /\ ConnOK' /\ WorldOK' /\ HandlersHaveFd'
  /\ events' \in [Fds -> EventType] /\ timers' \in [Conns -> Nat]
  /\ pc' \in {"poll", "files", "parse"} /\ input' \in InputType

LEMMA SocketConnectedTyped ==
  ASSUME Typed, NEW c \in Conns, NEW f \in Fds, fd[c] \in Fds, socket_connected(c, f)
  PROVE  Handled
<1>0. TypeOK /\ EventsHaveFd(events, fd)
  BY DEF Typed, HandlersHaveFd
<1>1. pc' = "files" /\ UNCHANGED <<delayed, pending, request, timers, input, faults>>
  BY DEF socket_connected
<1>2. CASE /\ parser' = [parser EXCEPT ![c] = "start"]
           /\ written' = [written EXCEPT ![c] = 0]
           /\ events' = aeCreateFileEvent(
                          aeCreateFileEvent(events, f, {R}, "socket_readable", c),
                          f, {W}, "socket_writeable", c)
           /\ UNCHANGED <<fd, live, sock, fresh, num, others>>
  <2> DEFINE first == aeCreateFileEvent(events, f, {R}, "socket_readable", c)
  <2>1. first \in [Fds -> EventType] /\ EventsHaveFd(first, fd)
    BY <1>0, TypeFacts, CreateTyped, CreateHasFd DEF Masks, ReadProcs, R, W
  <2> HIDE DEF first
  <2>2. aeCreateFileEvent(first, f, {W}, "socket_writeable", c) \in [Fds -> EventType]
        /\ EventsHaveFd(aeCreateFileEvent(first, f, {W}, "socket_writeable", c), fd)
    BY <2>1, CreateTyped, CreateHasFd DEF Masks, WriteProcs, R, W
  <2>3. events' \in [Fds -> EventType] /\ EventsHaveFd(events', fd)
    BY <1>2, <2>2 DEF first
  <2>4. parser' \in [Conns -> {"start", "mid", "eof", "dead"}]
        /\ written' \in [Conns -> 0 .. Length - 1]
    BY <1>0, <1>2, TypeFacts, LengthPositive
  <2>5. ConnOK' /\ WorldOK' /\ HandlersHaveFd'
    BY <1>0, <1>1, <1>2, <2>3, <2>4
       DEF Typed, TypeOK, ConnOK, WorldOK, HandlersHaveFd, others
  <2> QED
    BY <1>0, <1>1, <2>3, <2>5, TypeFacts DEF Handled
<1>3. CASE UNCHANGED <<fd, written, parser, live, events, sock, fresh, num, others>>
  <2>1. ConnOK' /\ WorldOK' /\ HandlersHaveFd'
    BY <1>0, <1>1, <1>3 DEF Typed, TypeOK, ConnOK, WorldOK, HandlersHaveFd, others
  <2> QED
    BY <1>0, <1>1, <1>3, <2>1, TypeFacts DEF Handled
<1>4. CASE /\ reconnect_socket(c, events, Bump(num, {"connect"}))
           /\ UNCHANGED <<written, parser>>
  <2>1. Opened /\ live' \in [Conns -> BOOLEAN] /\ Marked'
    BY <1>0, <1>4, TypeFacts, BumpTyped, ReconnectTyped
  <2>2. ConnOK' /\ WorldOK' /\ HandlersHaveFd'
    BY <1>0, <1>1, <1>4, <2>1
       DEF Opened, Marked, Typed, TypeOK, ConnOK, WorldOK, HandlersHaveFd, CounterType
  <2> QED
    BY <1>0, <1>1, <2>1, <2>2, TypeFacts DEF Handled, Opened
<1> QED
  BY <1>2, <1>3, <1>4 DEF socket_connected

LEMMA DelayWriteTyped ==
  ASSUME Typed, NEW c \in Conns, NEW f \in Fds, fd[c] \in Fds, DelayWrite(c, f),
         pc' = "files", UNCHANGED <<input, faults>>
  PROVE  Handled
<1>0. TypeOK /\ EventsHaveFd(events, fd)
  BY DEF Typed, HandlersHaveFd
<1>1. /\ timers' = [timers EXCEPT ![c] = @ + 1]
      /\ events' = aeDeleteFileEvent(events, f, {W})
      /\ UNCHANGED <<fd, delayed, written, pending, request, parser, live, sock, fresh, num,
                     others>>
  BY DEF DelayWrite, conn
<1>2. timers' \in [Conns -> Nat] /\ \A x \in Conns : timers'[x] > 0 => timers[x] > 0 \/ x = c
  BY <1>0, <1>1, TypeFacts
<1>3. events' \in [Fds -> EventType] /\ EventsHaveFd(events', fd)
  BY <1>0, <1>1, TypeFacts, DeleteTyped
<1>4. ConnOK' /\ WorldOK'
  BY <1>0, <1>1 DEF TypeOK, ConnOK, WorldOK, others
<1>5. HandlersHaveFd'
  BY <1>1, <1>2, <1>3 DEF Typed, HandlersHaveFd
<1> QED
  BY <1>0, <1>2, <1>3, <1>4, <1>5, TypeFacts DEF Handled

LEMMA AdvanceTyped ==
  ASSUME TypeOK, NEW c \in Conns, NEW n \in 1 .. Length - written[c]
  PROVE  Advance(c, n) \in 0 .. Length - 1
<1>1. written[c] \in 0 .. Length - 1
  BY TypeFacts
<1>2. written[c] + n \in Nat
  BY <1>1, LengthPositive
<1>3. \A a, b \in Nat : b > 0 => a % b \in 0 .. b - 1
  OBVIOUS
<1> QED
  BY <1>2, <1>3, LengthPositive DEF Advance

LEMMA WriteRequestTyped ==
  ASSUME Typed, NEW c \in Conns, NEW f \in Fds, fd[c] \in Fds, WriteRequest(c, f),
         pc' = "files", UNCHANGED <<input, faults>>
  PROVE  Handled
<1> DEFINE first == written[c] = 0
           built == request[c] \/ (first /\ Dynamic)
           count == IF first /\ ~live[c] THEN Bump(num, {"issued"}) ELSE num
<1>0. TypeOK /\ EventsHaveFd(events, fd)
  BY DEF Typed, HandlersHaveFd
<1>1. /\ pending' = PendingAtWrite(c)
      /\ UNCHANGED <<delayed, parser, timers>>
      /\ \/ /\ \E n \in 1 .. Length - written[c] :
                 /\ written' = [written EXCEPT ![c] = Advance(c, n)]
                 /\ sock' = [sock EXCEPT ![fd[c]] = Receive(@, n)]
            /\ events' = IF written'[c] = 0 THEN aeDeleteFileEvent(events, f, {W})
                                            ELSE events
            /\ request' = [request EXCEPT ![c] = TRUE]
            /\ live' = [live EXCEPT ![c] = TRUE]
            /\ num' = count
            /\ UNCHANGED <<fd, fresh, others>>
         \/ /\ request' = [request EXCEPT ![c] = TRUE]
            /\ live' = [live EXCEPT ![c] = TRUE]
            /\ num' = count
            /\ UNCHANGED <<fd, written, events, sock, fresh, others>>
         \/ /\ request' = [request EXCEPT ![c] = ~Dynamic]
            /\ reconnect_socket(c, events, Bump(count, {"write"}))
            /\ UNCHANGED written
  BY DEF WriteRequest
<1>2. count \in CounterType
  BY <1>0, TypeFacts, BumpTyped
<1> HIDE DEF first, built, count
<1>3. pending' \in [Conns -> Int]
  BY <1>0, <1>1, TypeFacts, Numbers DEF PendingAtWrite
<1>4. /\ [request EXCEPT ![c] = TRUE] \in [Conns -> BOOLEAN]
      /\ [live EXCEPT ![c] = TRUE] \in [Conns -> BOOLEAN]
      /\ [request EXCEPT ![c] = ~Dynamic] \in [Conns -> BOOLEAN]
  BY <1>0, TypeFacts
<1>5. CASE /\ \E n \in 1 .. Length - written[c] :
                /\ written' = [written EXCEPT ![c] = Advance(c, n)]
                /\ sock' = [sock EXCEPT ![fd[c]] = Receive(@, n)]
           /\ events' = IF written'[c] = 0 THEN aeDeleteFileEvent(events, f, {W})
                                           ELSE events
           /\ request' = [request EXCEPT ![c] = TRUE]
           /\ live' = [live EXCEPT ![c] = TRUE]
           /\ num' = count
           /\ UNCHANGED <<fd, fresh, others>>
  <2>1. PICK n \in 1 .. Length - written[c] :
               /\ written' = [written EXCEPT ![c] = Advance(c, n)]
               /\ sock' = [sock EXCEPT ![fd[c]] = Receive(@, n)]
    BY <1>5
  <2>2. written' \in [Conns -> 0 .. Length - 1]
    BY <1>0, <2>1, AdvanceTyped, TypeFacts
  <2>3. Receive(sock[fd[c]], n) \in SocketType
    BY <1>0, TypeFacts, ReceiveTyped, LengthPositive
  <2>4. sock' \in [Fds -> SocketType]
    BY <1>0, <2>1, <2>3, TypeFacts
  <2>5. events' \in [Fds -> EventType] /\ EventsHaveFd(events', fd)
    BY <1>0, <1>5, TypeFacts, DeleteTyped
  <2>6. ConnOK' /\ WorldOK' /\ HandlersHaveFd'
    BY <1>0, <1>1, <1>2, <1>3, <1>4, <1>5, <2>2, <2>4, <2>5
       DEF Typed, TypeOK, ConnOK, WorldOK, HandlersHaveFd, CounterType, others
  <2> QED
    BY <1>0, <1>1, <2>5, <2>6, TypeFacts DEF Handled
<1>6. CASE /\ request' = [request EXCEPT ![c] = TRUE]
           /\ live' = [live EXCEPT ![c] = TRUE]
           /\ num' = count
           /\ UNCHANGED <<fd, written, events, sock, fresh, others>>
  <2>1. ConnOK' /\ WorldOK' /\ HandlersHaveFd'
    BY <1>0, <1>1, <1>2, <1>3, <1>4, <1>6
       DEF Typed, TypeOK, ConnOK, WorldOK, HandlersHaveFd, CounterType, others
  <2> QED
    BY <1>0, <1>1, <1>6, <2>1, TypeFacts DEF Handled
<1>7. CASE /\ request' = [request EXCEPT ![c] = ~Dynamic]
           /\ reconnect_socket(c, events, Bump(count, {"write"}))
           /\ UNCHANGED written
  <2>1. Opened /\ live' \in [Conns -> BOOLEAN] /\ Marked'
    BY <1>0, <1>2, <1>7, TypeFacts, BumpTyped, ReconnectTyped
  <2>2. ConnOK' /\ WorldOK' /\ HandlersHaveFd'
    BY <1>0, <1>1, <1>3, <1>4, <1>7, <2>1
       DEF Opened, Marked, Typed, TypeOK, ConnOK, WorldOK, HandlersHaveFd, CounterType
  <2> QED
    BY <1>0, <1>1, <2>1, <2>2, TypeFacts DEF Handled, Opened
<1> QED
  BY <1>1, <1>5, <1>6, <1>7

LEMMA ReadTyped ==
  ASSUME TypeOK, NEW c \in Conns, fd[c] \in Fds, Read(c)
  PROVE  /\ input' \in InputType /\ input'.c = c
         /\ sock' \in [Fds -> SocketType]
         /\ parser' \in [Conns -> {"start", "mid", "eof", "dead"}]
<1> DEFINE s == sock[fd[c]]
           Kinds == Replies \union {"end", "stray"}
<1>1. s \in SocketType /\ s.inbox \in Seq(Replies)
  BY TypeFacts DEF SocketType
<1>2. CASE /\ \E k \in 1 .. Len(s.inbox) :
                /\ input' = [c |-> c, buf |-> SubSeq(s.inbox, 1, k), bad |-> FALSE]
                /\ sock' = [sock EXCEPT ![fd[c]].inbox = SubSeq(@, k + 1, Len(@))]
           /\ UNCHANGED parser
  <2>1. PICK k \in 1 .. Len(s.inbox) :
                /\ input' = [c |-> c, buf |-> SubSeq(s.inbox, 1, k), bad |-> FALSE]
                /\ sock' = [sock EXCEPT ![fd[c]].inbox = SubSeq(@, k + 1, Len(@))]
    BY <1>2
  <2>2. /\ Len(s.inbox) \in Nat
        /\ \A i \in 1 .. Len(s.inbox) : s.inbox[i] \in Replies /\ s.inbox[i] \in Kinds
    BY <1>1, LenProperties, ElementOfSeq
  <2>3. SubSeq(s.inbox, 1, k) \in Seq(Kinds)
    <3>1. \A i \in 1 .. k : s.inbox[i] \in Kinds
      BY <2>2
    <3> QED
      BY <2>2, <3>1, SubSeqProperties
  <2>4. SubSeq(s.inbox, k + 1, Len(s.inbox)) \in Seq(Replies)
    <3>1. \A i \in k + 1 .. Len(s.inbox) : s.inbox[i] \in Replies
      BY <2>2
    <3> QED
      BY <2>2, <3>1, SubSeqProperties
  <2>5. input' \in InputType
    BY <2>1, <2>3 DEF InputType
  <2>6. [s EXCEPT !.inbox = SubSeq(@, k + 1, Len(@))] \in SocketType
    BY <1>1, <2>4 DEF SocketType
  <2>7. sock' = [sock EXCEPT ![fd[c]] = [s EXCEPT !.inbox = SubSeq(@, k + 1, Len(@))]]
    BY <2>1
  <2>8. sock' \in [Fds -> SocketType]
    BY <2>6, <2>7, TypeFacts
  <2> QED
    BY <1>2, <2>1, <2>5, <2>8, TypeFacts
<1>3. CASE /\ input' = [c |-> c, buf |-> <<>>, bad |-> FALSE]
           /\ parser' = [parser EXCEPT ![c] = "mid"]
           /\ UNCHANGED sock
  BY <1>3, TypeFacts, EmptySeq DEF InputType
<1>4. CASE /\ input' = [c |-> c, bad |-> TRUE,
                        buf |-> IF s.st = "open" /\ parser[c] = "eof" /\ ~Tls
                                THEN <<"end">> ELSE <<>>]
           /\ UNCHANGED <<parser, sock>>
  <2>1. <<"end">> \in Seq(Kinds) /\ <<>> \in Seq(Kinds)
    OBVIOUS
  <2> QED
    BY <1>4, <2>1, TypeFacts DEF InputType
<1>5. ASSUME NEW got \in Strange(c),
             input' = [c |-> c, buf |-> got, bad |-> got = <<"end">>],
             parser' \in {parser, [parser EXCEPT ![c] = IF @ = "start" THEN "mid" ELSE @]},
             UNCHANGED sock
      PROVE  /\ input' \in InputType /\ input'.c = c
             /\ sock' \in [Fds -> SocketType]
             /\ parser' \in [Conns -> {"start", "mid", "eof", "dead"}]
  <2>1. got \in Seq(Kinds)
    <3>1. <<"end">> \in Seq(Kinds) /\ <<>> \in Seq(Kinds)
          /\ \A kind \in Replies : <<kind>> \in Seq(Kinds)
      OBVIOUS
    <3> QED
      BY <3>1 DEF Strange
  <2>2. parser \in [Conns -> {"start", "mid", "eof", "dead"}]
    BY TypeFacts
  <2>3. parser' \in [Conns -> {"start", "mid", "eof", "dead"}]
    BY <1>5, <2>2
  <2>4. input' \in InputType
    BY <1>5, <2>1 DEF InputType
  <2> QED
    BY <1>5, <2>3, <2>4, TypeFacts
<1> QED
  BY <1>2, <1>3, <1>4, <1>5 DEF Read

LEMMA SocketReadableTyped ==
  ASSUME Typed, NEW c \in Conns, fd[c] \in Fds, socket_readable(c)
  PROVE  Handled
<1>0. TypeOK /\ EventsHaveFd(events, fd)
  BY DEF Typed, HandlersHaveFd
<1>1. UNCHANGED <<fd, delayed, written, pending, request, live, events, timers,
                  fresh, num, faults, others>>
  BY DEF socket_readable
<1>2. CASE Read(c) /\ pc' = "parse"
  <2>1. /\ input' \in InputType /\ input'.c = c
        /\ sock' \in [Fds -> SocketType]
        /\ parser' \in [Conns -> {"start", "mid", "eof", "dead"}]
    BY <1>0, <1>2, ReadTyped
  <2>2. ConnOK' /\ WorldOK' /\ HandlersHaveFd'
    BY <1>1, <1>2, <2>1 DEF Typed, TypeOK, ConnOK, WorldOK, HandlersHaveFd, others
  <2> QED
    BY <1>0, <1>1, <1>2, <2>1, <2>2, TypeFacts DEF Handled
<1>3. CASE pc' = "files" /\ UNCHANGED <<parser, input, sock>>
  <2>1. ConnOK' /\ WorldOK' /\ HandlersHaveFd'
    BY <1>1, <1>3 DEF Typed, TypeOK, ConnOK, WorldOK, HandlersHaveFd, others
  <2> QED
    BY <1>0, <1>1, <1>3, <2>1, TypeFacts DEF Handled
<1> QED
  BY <1>2, <1>3 DEF socket_readable

\* A handler and the loop's part of the step.
LEMMA HandledTyped ==
  ASSUME Handled, fired' \in [Fds -> SUBSET {R, W}], cur' \in Fds \union {NoFd},
         todo' \subseteq Conns
  PROVE  Typed'
BY DEF Handled, Typed, TypeOK, LoopOK

LEMMA ReadHalfTyped ==
  ASSUME Typed, NEW f \in Fds, ReadHalf(f) PROVE Typed'
<1>0. TypeOK /\ EventsHaveFd(events, fd)
  BY DEF Typed, HandlersHaveFd
<1>1. events[f].mask # {}
  BY DEF ReadHalf, Valid
<1>2. events[f].data \in Conns /\ fd[events[f].data] \in Fds
  BY <1>0, <1>1 DEF EventsHaveFd
<1>3. Handled
  <2>1. CASE socket_connected(events[f].data, f)
    BY <1>2, <2>1, SocketConnectedTyped
  <2>2. CASE socket_readable(events[f].data)
    BY <1>2, <2>2, SocketReadableTyped
  <2> QED
    BY <2>1, <2>2 DEF ReadHalf
<1>4. /\ fired' \in [Fds -> SUBSET {R, W}] /\ cur' \in Fds \union {NoFd}
      /\ todo' \subseteq Conns
  BY <1>0, TypeFacts DEF ReadHalf
<1> QED
  BY <1>3, <1>4, HandledTyped

LEMMA WriteHalfTyped ==
  ASSUME Typed, NEW f \in Fds, WriteHalf(f) PROVE Typed'
<1>0. TypeOK /\ EventsHaveFd(events, fd)
  BY DEF Typed, HandlersHaveFd
<1>1. events[f].mask # {}
  BY DEF WriteHalf, CallsWrite, Valid
<1>2. events[f].data \in Conns /\ fd[events[f].data] \in Fds
  BY <1>0, <1>1 DEF EventsHaveFd
<1>3. Handled
  <2>1. CASE socket_connected(events[f].data, f)
    BY <1>2, <2>1, SocketConnectedTyped
  <2>2. CASE socket_writeable(events[f].data, f)
    BY <1>2, <2>2, DelayWriteTyped, WriteRequestTyped DEF socket_writeable
  <2> QED
    BY <2>1, <2>2 DEF WriteHalf
<1>4. /\ fired' \in [Fds -> SUBSET {R, W}] /\ cur' \in Fds \union {NoFd}
      /\ todo' \subseteq Conns
  BY <1>0, TypeFacts DEF WriteHalf
<1> QED
  BY <1>3, <1>4, HandledTyped

LEMMA ResponseCompleteTyped ==
  ASSUME Typed, NEW c \in Conns, fd[c] \in Fds,
         NEW keep, NEW ok \in BOOLEAN, NEW late \in BOOLEAN,
         response_complete(c, keep, ok, late)
  PROVE  /\ pending' \in [Conns -> Int] /\ delayed' \in [Conns -> BOOLEAN]
         /\ live' \in [Conns -> BOOLEAN] /\ Opened /\ Marked'
<1> DEFINE last == pending[c] - 1 = 0
           count == Bump(num, {"complete", IF ok THEN "succ" ELSE "status"}
                              \union (IF last THEN {IF late THEN "timeout" ELSE "latency"}
                                              ELSE {}))
           table == IF last THEN Rearm(c) ELSE events
<1>0. TypeOK /\ EventsHaveFd(events, fd)
  BY DEF Typed, HandlersHaveFd
<1>1. /\ pending' = [pending EXCEPT ![c] = @ - 1]
      /\ delayed' = IF last THEN [delayed EXCEPT ![c] = Delay] ELSE delayed
      /\ IF keep
         THEN /\ events' = table /\ num' = count
              /\ live' = [live EXCEPT ![c] = @ /\ ~last]
              /\ UNCHANGED <<fd, sock, fresh, others>>
         ELSE reconnect_socket(c, table, count)
  BY DEF response_complete
<1>2. count \in CounterType
  BY <1>0, TypeFacts, BumpTyped
<1>3. table \in [Fds -> EventType] /\ EventsHaveFd(table, fd)
  BY <1>0, TypeFacts, CreateTyped, CreateHasFd DEF Rearm, Masks, WriteProcs, R, W
<1>4. last \in BOOLEAN
  OBVIOUS
<1> HIDE DEF last, count, table
<1>5. pending' \in [Conns -> Int] /\ delayed' \in [Conns -> BOOLEAN]
  BY <1>0, <1>1, TypeFacts, Numbers
<1>6. CASE keep
  <2>1. live' \in [Conns -> BOOLEAN]
    BY <1>0, <1>1, <1>4, <1>6, TypeFacts
  <2>2. Opened
    BY <1>0, <1>1, <1>2, <1>3, <1>6, TypeFacts DEF Opened
  <2>3. Marked'
    BY <1>0, <1>1, <1>6, TypeFacts DEF Marked, others
  <2> QED
    BY <1>5, <2>1, <2>2, <2>3
<1>7. CASE ~keep
  BY <1>0, <1>1, <1>2, <1>3, <1>5, <1>7, ReconnectTyped
<1> QED
  BY <1>6, <1>7

LEMMA ParseResponseTyped ==
  ASSUME Typed, ParseResponse PROVE Typed'
<1> DEFINE c == input.c
           kind == Head(input.buf)
           keep == kind = "keep"
           Kinds == Replies \union {"end", "stray"}
<1>0. TypeOK /\ EventsHaveFd(events, fd)
  BY DEF Typed, HandlersHaveFd
<1>1. /\ pc = "parse" /\ input.buf # <<>>
      /\ UNCHANGED <<written, request, timers, fired, cur, pc, todo, faults>>
      /\ input' = [input EXCEPT !.buf = IF kind = "junk" THEN <<"stray">> ELSE Tail(@)]
  BY DEF ParseResponse
<1>2. c \in Conns /\ fd[c] \in Fds
  BY <1>1 DEF Typed, HandlersHaveFd
<1>3. input' \in InputType /\ input'.c = c
  <2>1. input.buf \in Seq(Kinds) /\ <<"stray">> \in Seq(Kinds)
    BY <1>0, TypeFacts DEF InputType
  <2>2. Tail(input.buf) \in Seq(Kinds)
    BY <1>1, <2>1, HeadTailProperties
  <2> QED
    BY <1>0, <1>1, <2>1, <2>2, TypeFacts DEF InputType
<1>4. CASE /\ parser' = [parser EXCEPT ![c] = "eof"]
           /\ UNCHANGED <<fd, delayed, pending, live, events, sock, fresh, num, others>>
  <2>1. parser' \in [Conns -> {"start", "mid", "eof", "dead"}]
    BY <1>0, <1>4, TypeFacts
  <2>2. TypeOK'
    BY <1>0, <1>1, <1>3, <1>4, <2>1 DEF TypeOK, ConnOK, LoopOK, WorldOK, others
  <2>3. HandlersHaveFd'
    BY <1>1, <1>2, <1>3, <1>4 DEF Typed, HandlersHaveFd
  <2> QED
    BY <2>2, <2>3 DEF Typed
<1>5. CASE /\ parser' = [parser EXCEPT ![c] = CASE keep -> "start"
                                                [] kind = "end" -> "eof"
                                                [] OTHER -> "dead"]
           /\ \E ok, late \in BOOLEAN : response_complete(c, keep, ok, late)
  <2>1. parser' \in [Conns -> {"start", "mid", "eof", "dead"}]
    BY <1>0, <1>5, TypeFacts
  <2>2. /\ pending' \in [Conns -> Int] /\ delayed' \in [Conns -> BOOLEAN]
        /\ live' \in [Conns -> BOOLEAN] /\ Opened /\ Marked'
    BY <1>2, <1>5, ResponseCompleteTyped
  <2>3. TypeOK'
    BY <1>0, <1>1, <1>3, <2>1, <2>2
       DEF Opened, Marked, TypeOK, ConnOK, LoopOK, WorldOK, CounterType
  <2>4. HandlersHaveFd'
    BY <1>1, <1>2, <1>3, <2>2 DEF Opened, Typed, HandlersHaveFd
  <2> QED
    BY <2>3, <2>4 DEF Typed
<1> QED
  BY <1>4, <1>5 DEF ParseResponse

LEMMA ReadEndTyped ==
  ASSUME Typed, ReadEnd \/ ReadError PROVE Typed'
<1> DEFINE c == input.c
<1>0. TypeOK /\ EventsHaveFd(events, fd)
  BY DEF Typed, HandlersHaveFd
<1>1. /\ pc = "parse" /\ pc' = "files" /\ input' = NotReading /\ request' = Freed(c)
      /\ UNCHANGED <<delayed, written, pending, parser, timers, fired, cur, todo, faults>>
  BY DEF ReadEnd, ReadError
<1>2. c \in Conns /\ fd[c] \in Fds
  BY <1>1 DEF Typed, HandlersHaveFd
<1>3. request' \in [Conns -> BOOLEAN] /\ input' \in InputType
  BY <1>0, <1>1, <1>2, TypeFacts, EmptySeq DEF Freed, NotReading, InputType
<1>4. Opened /\ live' \in [Conns -> BOOLEAN] /\ Marked'
  <2>1. CASE ReadEnd
    BY <1>0, <2>1, TypeFacts DEF ReadEnd, Opened, Marked, others
  <2>2. CASE ReadError
    BY <1>0, <1>2, <2>2, TypeFacts, BumpTyped, ReconnectTyped DEF ReadError
  <2> QED
    BY <2>1, <2>2
<1>5. TypeOK'
  BY <1>0, <1>1, <1>3, <1>4
     DEF Opened, Marked, TypeOK, ConnOK, LoopOK, WorldOK, CounterType
<1>6. HandlersHaveFd'
  BY <1>1, <1>4 DEF Opened, Typed, HandlersHaveFd
<1> QED
  BY <1>5, <1>6 DEF Typed

LEMMA DelayRequestTyped ==
  ASSUME Typed, NEW c \in Conns, delay_request(c) PROVE Typed'
<1>0. TypeOK /\ EventsHaveFd(events, fd)
  BY DEF Typed, HandlersHaveFd
<1>1. /\ timers[c] > 0
      /\ timers' = [timers EXCEPT ![c] = @ - 1]
      /\ delayed' = [delayed EXCEPT ![c] = FALSE]
      /\ events' = aeCreateFileEvent(events, fd[c], {W}, "socket_writeable", c)
      /\ UNCHANGED <<fd, written, pending, request, parser, live, fired, cur, pc,
                     input, todo, sock, fresh, num, faults, others>>
  BY DEF delay_request
<1>2. fd[c] \in Fds
  BY <1>1 DEF Typed, HandlersHaveFd
<1>3. events' \in [Fds -> EventType] /\ EventsHaveFd(events', fd)
  BY <1>0, <1>1, <1>2, TypeFacts, CreateTyped, CreateHasFd DEF Masks, WriteProcs, R, W
<1>4. timers' \in [Conns -> Nat] /\ \A x \in Conns : timers'[x] > 0 => timers[x] > 0
  BY <1>0, <1>1, TypeFacts
<1>5. delayed' \in [Conns -> BOOLEAN]
  BY <1>0, <1>1, TypeFacts
<1>6. TypeOK'
  BY <1>0, <1>1, <1>3, <1>4, <1>5 DEF TypeOK, ConnOK, LoopOK, WorldOK, others
<1>7. HandlersHaveFd'
  BY <1>1, <1>3, <1>4 DEF Typed, HandlersHaveFd
<1> QED
  BY <1>6, <1>7 DEF Typed

\* The steps of the loop itself.
LEMMA LoopTyped ==
  ASSUME Typed, aeApiPoll \/ EndOfBatch \/ \E f \in Fds : NextEntry(f) PROVE Typed'
<1>0. TypeOK
  BY DEF Typed
<1>1. CASE aeApiPoll
  <2>1. fired' \in [Fds -> SUBSET {R, W}]
    BY <1>0, <1>1, TypeFacts DEF aeApiPoll, EventType
  <2> QED
    BY <1>0, <1>1, <2>1
       DEF aeApiPoll, conn, others, Typed, TypeOK, ConnOK, LoopOK, WorldOK, HandlersHaveFd
<1>2. CASE EndOfBatch
  BY <1>0, <1>2
     DEF EndOfBatch, conn, others, Typed, TypeOK, ConnOK, LoopOK, WorldOK, HandlersHaveFd
<1>3. ASSUME NEW f \in Fds, NextEntry(f) PROVE Typed'
  <2>1. fired' \in [Fds -> SUBSET {R, W}] /\ cur' \in Fds \union {NoFd}
    BY <1>0, <1>3, TypeFacts DEF NextEntry
  <2> QED
    BY <1>0, <1>3, <2>1
       DEF NextEntry, conn, others, Typed, TypeOK, ConnOK, LoopOK, WorldOK, HandlersHaveFd
<1> QED
  BY <1>1, <1>2, <1>3

LEMMA RespondTyped ==
  ASSUME NEW s \in SocketType, NEW kind \in Replies
  PROVE  [s EXCEPT !.inbox = Append(@, kind), !.fin = kind # "keep",
                   !.part = IF kind = "keep" THEN @ ELSE 0,
                   !.owed = IF kind = "keep" THEN @ ELSE 0] \in SocketType
<1>1. Append(s.inbox, kind) \in Seq(Replies)
  BY AppendProperties DEF SocketType
<1>2. 0 \in 0 .. ReqUnits - 1
  BY Numbers
<1> QED
  BY <1>1, <1>2 DEF SocketType

\* The world only changes one socket, and counts faults.
LEMMA BecomesTyped ==
  ASSUME Typed, NEW f \in Fds, NEW s \in SocketType, Becomes(f, s),
         faults' = faults \/ Fault,
         strays' \subseteq strays \union {f}, touched' \subseteq touched \union {f}
  PROVE  Typed'
<1>0. TypeOK
  BY DEF Typed
<1>1. sock' = [sock EXCEPT ![f] = s] /\ UNCHANGED <<conn, loop, fresh, num>>
  BY DEF Becomes
<1>2. sock' \in [Fds -> SocketType]
  BY <1>0, <1>1, TypeFacts
<1>3. faults' \in 0 .. MaxFaults
  BY <1>0, TypeFacts, Numbers DEF Fault
<1>4. strays' \subseteq Fds /\ touched' \subseteq Fds
  BY <1>0, TypeFacts
<1> QED
  BY <1>0, <1>1, <1>2, <1>3, <1>4
     DEF conn, loop, Typed, TypeOK, ConnOK, LoopOK, WorldOK, HandlersHaveFd

LEMMA WorldTyped ==
  ASSUME Typed, NEW f \in Fds, NEW s \in SocketType, World(f, s),
         faults' = faults \/ Fault
  PROVE  Typed'
BY BecomesTyped DEF World, others

LEMMA OutsideTyped ==
  ASSUME Typed, Outside PROVE Typed'
<1>0. TypeOK /\ \A f \in Fds : sock[f] \in SocketType
  BY TypeFacts DEF Typed
<1>1. ASSUME NEW f \in Fds, \/ Accept(f) \/ Refuse(f) \/ TakeFd(f)
                            \/ ReleaseFd(f) \/ CloseAgain(f)
      PROVE  Typed'
  <2>1. \A state \in {"open", "refused", "foreign", "free"} : Socket(state) \in SocketType
    BY SocketTyped DEF States
  <2>2. CASE Accept(f) \/ Refuse(f) \/ TakeFd(f)
    BY <2>1, <2>2, WorldTyped DEF Accept, Refuse, TakeFd
  <2>3. CASE ReleaseFd(f) \/ CloseAgain(f)
    BY <2>1, <2>3, BecomesTyped DEF ReleaseFd, CloseAgain, others
  <2> QED
    BY <1>1, <2>2, <2>3
<1>2. ASSUME NEW f \in Fds, Reply(f) PROVE Typed'
  <2>1. PICK kind \in Replies : Respond(f, kind, [sock[f] EXCEPT !.owed = @ - 1])
    BY <1>2 DEF Reply
  <2>2. [sock[f] EXCEPT !.owed = @ - 1] \in SocketType
    BY <1>0, <1>2 DEF Reply, SocketType
  <2> QED
    BY <1>2, <2>1, <2>2, RespondTyped, WorldTyped DEF Respond, Reply
<1>3. ASSUME NEW f \in Fds, ReplyEarly(f) PROVE Typed'
  <2>1. PICK kind \in Replies : Respond(f, kind, [sock[f] EXCEPT !.early = TRUE])
    BY <1>3 DEF ReplyEarly
  <2>2. [sock[f] EXCEPT !.early = TRUE] \in SocketType
    BY <1>0 DEF SocketType
  <2> QED
    BY <1>3, <2>1, <2>2, RespondTyped, WorldTyped DEF Respond, ReplyEarly
<1>4. ASSUME NEW f \in Fds, Close(f) PROVE Typed'
  <2>1. 0 \in 0 .. ReqUnits - 1
    BY Numbers
  <2>2. [sock[f] EXCEPT !.fin = TRUE, !.owed = 0, !.part = 0] \in SocketType
    BY <1>0, <2>1 DEF SocketType
  <2> QED
    BY <1>4, <2>2, WorldTyped DEF Close
<1>5. ASSUME NEW f \in Fds, Reset(f) PROVE Typed'
  <2>1. PICK rest \in {<<>>, sock[f].inbox} :
          World(f, [Socket("reset") EXCEPT !.inbox = rest])
    BY <1>5 DEF Reset
  <2>2. rest \in Seq(Replies)
    BY <1>0, EmptySeq DEF SocketType
  <2>3. [Socket("reset") EXCEPT !.inbox = rest] \in SocketType
    BY <2>2, SocketTyped DEF SocketType, States
  <2> QED
    BY <1>5, <2>1, <2>3, WorldTyped DEF Reset
<1>6. ASSUME NEW f \in Fds, UseAgain(f) PROVE Typed'
  <2>1. PICK s : /\ Becomes(f, s)
                 /\ \/ s = Socket("reset")
                    \/ s = [sock[f] EXCEPT !.inbox = <<>>]
                    \/ s = Receive(sock[f], 1)
    BY <1>6 DEF UseAgain
  <2>2. /\ Socket("reset") \in SocketType /\ [sock[f] EXCEPT !.inbox = <<>>] \in SocketType
        /\ Receive(sock[f], 1) \in SocketType
    <3>1. Socket("reset") \in SocketType
      BY SocketTyped DEF States
    <3>2. [sock[f] EXCEPT !.inbox = <<>>] \in SocketType
      BY <1>0, EmptySeq DEF SocketType
    <3>3. Receive(sock[f], 1) \in SocketType
      BY <1>0, ReceiveTyped
    <3> QED
      BY <3>1, <3>2, <3>3
  <2>3. s \in SocketType
    BY <2>1, <2>2
  <2> QED
    BY <1>6, <2>1, <2>3, BecomesTyped DEF UseAgain
<1> QED
  BY <1>1, <1>2, <1>3, <1>4, <1>5, <1>6 DEF Outside

LEMMA NextTyped == Typed /\ [Next]_vars => Typed'
<1> SUFFICES ASSUME Typed, [Next]_vars PROVE Typed'
  OBVIOUS
<1>1. CASE Thread
  BY <1>1, ThreadMainTyped, DelayRequestTyped, LoopTyped, ParseResponseTyped,
     ReadEndTyped, ReadHalfTyped, WriteHalfTyped DEF Thread
<1>2. CASE Outside
  BY <1>2, OutsideTyped
<1>3. CASE UNCHANGED vars
  BY <1>3 DEF vars, conn, loop, others, Typed, TypeOK, ConnOK, LoopOK, WorldOK, HandlersHaveFd
<1> QED
  BY <1>1, <1>2, <1>3 DEF Next

LEMMA AlwaysTyped == Spec => []Typed
  BY InitTyped, NextTyped, PTL DEF Spec

\* In every state of a thread, whatever its connections, its server and its
\* script, the connections, the loop and the sockets keep their types; in
\* particular no handler is called for a connection without a descriptor.
THEOREM Typing == Spec => []TypeOK
<1>1. Typed => TypeOK
  BY DEF Typed
<1> QED
  BY <1>1, AlwaysTyped, PTL

-----------------------------------------------------------------------------
(***************************************************************************)
(* Descriptors, events and connections stay together, and no handler is    *)
(* called for a socket with what epoll reported of the one before it, for  *)
(* any connections, descriptors and server, without delay(): a delay timer *)
(* may make a descriptor writable that its connection has lost.            *)
(***************************************************************************)
Open(s) == s.st \notin {"free", "foreign"}

\* EventsOwnTheirSocket of a table, sockets and descriptors in between; marks are the
\* numbers by which another thread may have closed the socket.
Owns(table, sockets, owner, marks) ==
  \A f \in Fds :
    /\ Open(sockets[f]) => R \in table[f].mask
    /\ table[f].mask # {} => /\ R \in table[f].mask /\ (Open(sockets[f]) \/ f \in marks)
                             /\ table[f].data \in Conns /\ owner[table[f].data] = f
Owned == Owns(events, sock, fd, touched)

NoTimers == \A c \in Conns : ~delayed[c] /\ timers[c] = 0

OpenedInOrder == (\A c \in todo : fd[c] = NoFd) /\ (pc # "poll" => todo = {})

\* While a response is parsed, its connection has its socket, or a fresh one.
Parsing ==
  pc = "parse" =>
    /\ cur \in Fds /\ (fd[input.c] = cur \/ fd[input.c] \in fresh)
    /\ \A i \in 1 .. Len(input.buf) : input.buf[i] = "end" => Len(input.buf) = 1
    /\ input.buf # <<>> /\ parser[input.c] # "dead" =>
         Watched(input.c, cur) /\ cur \notin fresh

\* What is still to be handled is of entries whose sockets are not fresh;
\* a fresh socket of the descriptor in turn has one handler for both halves.
Batch ==
  /\ pc = "poll" => cur = NoFd
  /\ pc # "poll" =>
       \A f \in Fds :
         /\ fired[f] # {} /\ cur # f => events[f].mask # {} /\ f \notin fresh
         /\ cur = f => R \notin fired[f]
         /\ f \in fresh /\ events[f].mask # {} => events[f].rproc = events[f].wproc

Together == /\ Typed /\ Owned /\ NoTimers /\ OpenedInOrder
            /\ Parsing /\ Batch

LEMMA OwnedNext == Owns(events', sock', fd', touched') <=> Owned'
BY DEF Owned, Owns

LEMMA OwnedEvents ==
  ASSUME Together
  PROVE  EventsOwnTheirSocket /\ \A c, f : f \in Fds /\ Watched(c, f) => fd[c] = f
<1>1. Owned /\ Parsing
  BY DEF Together
<1>2. \A c, f : f \in Fds /\ Watched(c, f) => fd[c] = f
  BY <1>1 DEF Owned, Owns, Watched
<1>3. pc = "parse" /\ input.buf # <<>> /\ parser[input.c] # "dead" =>
        Watched(input.c, fd[input.c])
  BY <1>1, <1>2 DEF Parsing
<1> QED
  BY <1>1, <1>2, <1>3 DEF Owned, Owns, Open, Held, EventsOwnTheirSocket

LEMMA OwnedEventsNext == ASSUME Together' PROVE EventsOwnTheirSocket'
<1>1. Owned' /\ Parsing'
  BY DEF Together
<1>2. \A c, f : f \in Fds /\ Watched(c, f)' => fd'[c] = f
  BY <1>1 DEF Owned, Owns, Watched
<1>3. pc' = "parse" /\ input'.buf # <<>> /\ parser'[input'.c] # "dead" =>
        Watched(input.c, fd[input.c])'
  BY <1>1, <1>2 DEF Parsing, Watched
<1> QED
  BY <1>1, <1>2, <1>3 DEF Owned, Owns, Open, Held, EventsOwnTheirSocket, Watched

-----------------------------------------------------------------------------
(* Registering, deleting, opening.                                         *)

\* The table has an event of f, which is c's.
Registered(table, f, c) ==
  /\ Owns(table, sock, fd, touched) /\ fd[c] = f /\ table[f].mask # {} /\ table[f].data = c
OnlyAt(f, table, new) == \A g \in Fds \ {f} : new[g] = table[g]

LEMMA CreateOwns ==
  ASSUME NEW table \in [Fds -> EventType], NEW f \in Fds, NEW mask \in Masks, NEW proc,
         NEW c \in Conns, Registered(table, f, c)
  PROVE  /\ Registered(aeCreateFileEvent(table, f, mask, proc, c), f, c)
         /\ OnlyAt(f, table, aeCreateFileEvent(table, f, mask, proc, c))
<1>1. CASE Refused(table, f)
  BY <1>1 DEF aeCreateFileEvent, OnlyAt
<1>2. CASE ~Refused(table, f)
  BY <1>2 DEF aeCreateFileEvent, EventType, Owns, Open, Masks, Registered, OnlyAt
<1> QED
  BY <1>1, <1>2

LEMMA DeleteOwns ==
  ASSUME NEW table \in [Fds -> EventType], NEW f \in Fds, NEW marks,
         Owns(table, sock, fd, marks)
  PROVE  /\ Owns(aeDeleteFileEvent(table, f, {W}), sock, fd, marks)
         /\ \A g \in Fds \ {f} : aeDeleteFileEvent(table, f, {W})[g] = table[g]
         /\ \A g \in Fds : table[g].mask # {} => aeDeleteFileEvent(table, f, {W})[g].mask # {}
<1> R # W
  BY DEF R, W
<1> QED
  BY DEF aeDeleteFileEvent, EventType, Owns

\* What opening a socket for c changes for the others.
Reopened(c, table, marks) ==
  /\ Owns(events', sock', fd', marks)
  /\ \A x \in Conns \ {c} : fd'[x] = fd[x]
  /\ fd'[c] = fd[c] \/ fd'[c] \in fresh'
  /\ \A g \in Fds : table[g].mask # {} =>
                     events'[g].mask # {} /\ (g \in fresh' => g \in fresh)
  /\ fresh \subseteq fresh'
  /\ \A g \in Fds : g \in fresh' =>
       events'[g].rproc = events'[g].wproc \/ (g \in fresh /\ events'[g] = table[g])

LEMMA ConnectOwns ==
  ASSUME TypeOK, NEW c \in Conns, NEW open \in [Fds -> SocketType],
         NEW table \in [Fds -> EventType], NEW count, NEW marks,
         Owns(table, open, fd, marks), \A f \in Fds : table[f].mask # {} => table[f].data # c,
         connect_socket(c, open, table, count)
  PROVE  Reopened(c, table, marks)
<1>1. fd \in [Conns -> Fds \union {NoFd}]
  BY TypeFacts
<1>2. ASSUME NEW f \in Fds, Connects(c, f, open, table) PROVE Reopened(c, table, marks)
  <2>1. /\ fd'[c] = f /\ \A x \in Conns \ {c} : fd'[x] = fd[x]
        /\ \A g \in Fds \ {f} : sock'[g] = open[g] /\ events'[g] = table[g]
        /\ sock'[f] = Socket("connecting")
        /\ events'[f] = [mask |-> {R, W}, rproc |-> "socket_connected",
                         wproc |-> "socket_connected", data |-> c]
    BY <1>1, <1>2 DEF Connects
  <2>2. Open(sock'[f]) /\ table[f].mask = {} /\ fresh' = fresh \union {f}
    BY <1>2, <2>1 DEF Open, Socket, Connects
  <2>3. Owns(events', sock', fd', marks)
    <3>1. ASSUME NEW g \in Fds, g # f
          PROVE  /\ Open(sock'[g]) => R \in events'[g].mask
                 /\ events'[g].mask # {} => /\ R \in events'[g].mask
                                            /\ Open(sock'[g]) \/ g \in marks
                                            /\ events'[g].data \in Conns
                                            /\ fd'[events'[g].data] = g
      BY <2>1, <3>1 DEF Owns
    <3>2. R \in events'[f].mask /\ events'[f].data = c
      BY <2>1
    <3> QED
      BY <2>1, <2>2, <3>1, <3>2 DEF Owns
  <2> QED
    BY <2>1, <2>2, <2>3 DEF Reopened
<1>3. CASE Disconnects(open, table)
  BY <1>3 DEF Reopened, Disconnects
<1> QED
  BY <1>2, <1>3, ConnectCases

LEMMA ReconnectOwns ==
  ASSUME TypeOK, NEW c \in Conns, NEW table \in [Fds -> EventType], NEW count,
         Owns(table, sock, fd, touched), reconnect_socket(c, table, count)
  PROVE  /\ Reopened(c, aeDeleteFileEvent(table, fd[c], {R, W}), touched')
         /\ \A g \in Fds : \/ aeDeleteFileEvent(table, fd[c], {R, W})[g] = table[g]
                           \/ g = fd[c] /\ aeDeleteFileEvent(table, fd[c], {R, W})[g].mask = {}
<1> DEFINE open == [sock EXCEPT ![fd[c]] = Socket("free")]
           cleared == aeDeleteFileEvent(table, fd[c], {R, W})
<1>1. sock \in [Fds -> SocketType]
  BY TypeFacts
<1>2. open \in [Fds -> SocketType] /\ \A g \in Fds : g # fd[c] => open[g] = sock[g]
  BY <1>1, SocketTyped DEF States
<1>3. cleared \in [Fds -> EventType]
  BY DeleteTyped
<1>4. \A g \in Fds : g # fd[c] => cleared[g] = table[g]
  BY DEF aeDeleteFileEvent
<1>5. fd[c] \in Fds => cleared[fd[c]].mask = {} /\ ~Open(open[fd[c]])
  <2>1. \A g \in Fds : table[g].mask \ {R, W} = {}
    BY DEF EventType
  <2>2. fd[c] \in Fds => cleared[fd[c]].mask = {}
    BY <2>1 DEF aeDeleteFileEvent, EventType
  <2>3. fd[c] \in Fds => ~Open(open[fd[c]])
    BY <1>1 DEF Open, Socket
  <2> QED
    BY <2>2, <2>3
<1>6. connect_socket(c, open, cleared, count) /\ touched' = touched \ {fd[c]}
  BY DEF reconnect_socket
<1> HIDE DEF open, cleared
<1>7. Owns(cleared, open, fd, touched') /\ \A f \in Fds : cleared[f].mask # {} => cleared[f].data # c
  BY <1>2, <1>4, <1>5, <1>6 DEF Owns
<1>8. Reopened(c, cleared, touched')
  BY <1>2, <1>3, <1>6, <1>7, ConnectOwns
<1> QED
  BY <1>4, <1>5, <1>8 DEF cleared

-----------------------------------------------------------------------------
(* What a step shows to keep Batch.                                        *)

\* fired' and cur' of a step: nothing of f is left to be handled but, when cur'
\* is f, its write half.
Turn(f) ==
  /\ \A g \in Fds : fired'[g] # {} /\ cur' # g =>
                     events[g].mask # {} /\ g \notin fresh /\ g # f
  /\ \A g \in Fds : cur' = g => R \notin fired'[g]

LEMMA BatchKept ==
  ASSUME Batch, pc # "poll", pc' # "poll", NEW f, Turn(f),
         \A g \in Fds : events[g].mask # {} => events'[g].mask # {}, fresh' = fresh,
         \A g \in fresh : events'[g] = events[g]
  PROVE  Batch'
BY DEF Batch, Turn

LEMMA BatchReopened ==
  ASSUME Batch, pc # "poll", pc' # "poll", TypeOK, NEW c \in Conns, Turn(fd[c]),
         NEW table \in [Fds -> EventType], NEW count, Owns(table, sock, fd, touched),
         \A g \in Fds : g # fd[c] => table[g] = events[g],
         \A g \in fresh : table[g] = events[g],
         reconnect_socket(c, table, count)
  PROVE  Batch'
<1> DEFINE cleared == aeDeleteFileEvent(table, fd[c], {R, W})
<1>1. /\ Reopened(c, cleared, touched')
      /\ \A g \in Fds : \/ cleared[g] = table[g]
                        \/ g = fd[c] /\ cleared[g].mask = {}
  BY ReconnectOwns
<1> HIDE DEF cleared
<1>2. ASSUME NEW g \in Fds, fired'[g] # {}, cur' # g
      PROVE  events'[g].mask # {} /\ g \notin fresh'
  <2>1. events[g].mask # {} /\ g \notin fresh /\ g # fd[c]
    BY <1>2 DEF Turn
  <2>2. cleared[g].mask # {}
    BY <1>1, <2>1
  <2> QED
    BY <1>1, <2>1, <2>2 DEF Reopened
<1>3. ASSUME NEW g \in Fds, g \in fresh', events'[g].mask # {}
      PROVE  events'[g].rproc = events'[g].wproc
  <2>1. SUFFICES ASSUME g \in fresh, events'[g] = cleared[g]
                 PROVE  events'[g].rproc = events'[g].wproc
    BY <1>1, <1>3 DEF Reopened
  <2>2. cleared[g] = table[g]
    BY <1>1, <1>3, <2>1
  <2> QED
    BY <1>3, <2>1, <2>2 DEF Batch
<1> QED
  BY <1>2, <1>3 DEF Batch, Turn

-----------------------------------------------------------------------------
(* The handlers, of a connection c whose socket f is not fresh.            *)

\* What the loop knows when it calls a handler for f.
Called(c, f) ==
  /\ Together /\ Delay = FALSE /\ pc = "files" /\ todo = {}
  /\ c \in Conns /\ f \in Fds /\ Watched(c, f) /\ fd[c] = f /\ f \notin fresh
  /\ Turn(f)

\* What the handler leaves.
Left == Owned' /\ NoTimers' /\ Parsing' /\ Batch'

LEMMA CalledFacts ==
  ASSUME NEW c, NEW f, Called(c, f)
  PROVE  /\ TypeOK /\ Owned /\ Batch /\ NoTimers
         /\ pc # "poll" /\ events[f].mask # {} /\ c \in Conns /\ f \in Fds
         /\ fd[c] = f /\ events[f].data = c /\ f \notin fresh /\ Turn(f)
BY DEF Called, Together, Typed, Watched

LEMMA ReconnectLeaves ==
  ASSUME NEW c, NEW f, Called(c, f), NEW count,
         reconnect_socket(c, events, count), pc' = "files", UNCHANGED <<delayed, timers>>
  PROVE  Left
<1>1. events \in [Fds -> EventType]
  BY CalledFacts, TypeFacts
<1>2. Owned'
  BY <1>1, CalledFacts, ReconnectOwns, OwnedNext DEF Reopened, Owned
<1>3. Batch'
  BY <1>1, CalledFacts, BatchReopened DEF Owned
<1> QED
  BY <1>2, <1>3, CalledFacts DEF Left, NoTimers, Parsing

LEMMA SocketConnectedLeaves ==
  ASSUME NEW c, NEW f, Called(c, f), socket_connected(c, f) PROVE Left
<1>0. pc' = "files" /\ UNCHANGED <<delayed, timers>>
  BY DEF socket_connected
<1>1. CASE /\ events' = aeCreateFileEvent(
                          aeCreateFileEvent(events, f, {R}, "socket_readable", c),
                          f, {W}, "socket_writeable", c)
           /\ UNCHANGED <<fd, sock, fresh, touched>>
  <2> DEFINE first == aeCreateFileEvent(events, f, {R}, "socket_readable", c)
  <2>0. events \in [Fds -> EventType]
    BY CalledFacts, TypeFacts
  <2>1. /\ first \in [Fds -> EventType] /\ Registered(first, f, c)
        /\ \A g \in Fds \ {f} : first[g] = events[g]
    <3>1. /\ {R} \in Masks /\ "socket_readable" \in ReadProcs /\ W \notin {R}
          /\ Registered(events, f, c) /\ c \in Conns /\ f \in Fds
      BY CalledFacts DEF Masks, ReadProcs, R, W, Owned, Registered
    <3>2. first \in [Fds -> EventType]
      BY <2>0, <3>1, CreateTyped
    <3>3. Registered(first, f, c) /\ OnlyAt(f, events, first)
      BY <2>0, <3>1, CreateOwns
    <3> QED
      BY <3>2, <3>3 DEF OnlyAt
  <2> HIDE DEF first
  <2>2. events' = aeCreateFileEvent(first, f, {W}, "socket_writeable", c)
    BY <1>1 DEF first
  <2>3. /\ Owns(events', sock, fd, touched) /\ events'[f].mask # {}
        /\ \A g \in Fds \ {f} : events'[g] = events[g]
    <3>1. {W} \in Masks /\ c \in Conns /\ f \in Fds
      BY CalledFacts DEF Masks
    <3>2. Registered(events', f, c) /\ OnlyAt(f, first, events')
      BY <2>1, <2>2, <3>1, CreateOwns
    <3> QED
      BY <2>1, <3>2 DEF Registered, OnlyAt
  <2>4. Owned'
    BY <1>1, <2>3, OwnedNext
  <2>5. fresh \subseteq Fds
    BY CalledFacts, TypeFacts
  <2>6. Batch'
    <3>1. \A g \in Fds : events[g].mask # {} => events'[g].mask # {}
      BY <2>3
    <3>2. f \notin fresh /\ fresh' = fresh /\ Batch /\ pc # "poll" /\ Turn(f)
      BY <1>1, CalledFacts
    <3>3. \A g \in fresh : events'[g] = events[g]
      BY <2>3, <2>5, <3>2
    <3> QED
      BY <1>0, <3>1, <3>2, <3>3, BatchKept
  <2> QED
    BY <1>0, <2>4, <2>6, CalledFacts DEF Left, NoTimers, Parsing
<1>2. CASE UNCHANGED <<fd, events, sock, fresh, touched>>
  <2>1. Owned'
    BY <1>2, CalledFacts DEF Owned, Owns
  <2>2. Batch'
    BY <1>0, <1>2, CalledFacts, BatchKept
  <2> QED
    BY <1>0, <2>1, <2>2, CalledFacts DEF Left, NoTimers, Parsing
<1>3. CASE reconnect_socket(c, events, Bump(num, {"connect"}))
  BY <1>0, <1>3, ReconnectLeaves
<1> QED
  BY <1>1, <1>2, <1>3 DEF socket_connected, others

LEMMA ReceiveOpen ==
  ASSUME NEW s \in SocketType, NEW n PROVE Open(Receive(s, n)) <=> Open(s)
BY DEF Receive, Open, SocketType

LEMMA SocketWriteableLeaves ==
  ASSUME NEW c, NEW f, Called(c, f), socket_writeable(c, f) PROVE Left
<1>0. pc' = "files" /\ c \in Conns /\ ~delayed[c]
  BY CalledFacts DEF socket_writeable, NoTimers
<1>1. WriteRequest(c, f)
  BY <1>0 DEF socket_writeable, DelayWrite
<1>2. UNCHANGED <<delayed, timers>>
  BY <1>1 DEF WriteRequest
<1>3. CASE /\ \E n \in 1 .. Length - written[c] :
                /\ written' = [written EXCEPT ![c] = Advance(c, n)]
                /\ sock' = [sock EXCEPT ![fd[c]] = Receive(@, n)]
           /\ events' = IF written'[c] = 0 THEN aeDeleteFileEvent(events, f, {W})
                                           ELSE events
           /\ UNCHANGED <<fd, fresh, touched>>
  <2>1. sock \in [Fds -> SocketType] /\ events \in [Fds -> EventType] /\ fresh \subseteq Fds
    BY CalledFacts, TypeFacts
  <2>2. PICK n \in 1 .. Length - written[c] :
               sock' = [sock EXCEPT ![fd[c]] = Receive(@, n)]
    BY <1>3
  <2>3. \A g \in Fds : Open(sock'[g]) <=> Open(sock[g])
    <3>1. f \in Fds /\ sock' = [sock EXCEPT ![f] = Receive(@, n)]
      BY <2>2, CalledFacts
    <3>2. sock'[f] = Receive(sock[f], n) /\ sock[f] \in SocketType
      BY <2>1, <3>1
    <3>3. \A g \in Fds \ {f} : sock'[g] = sock[g]
      BY <2>1, <3>1
    <3> QED
      BY <3>2, <3>3, ReceiveOpen
  <2>4. /\ Owns(events', sock, fd, touched)
        /\ \A g \in Fds \ {f} : events'[g] = events[g]
        /\ \A g \in Fds : events[g].mask # {} => events'[g].mask # {}
    <3>1. CASE written'[c] = 0
      <4>1. events' = aeDeleteFileEvent(events, f, {W})
        BY <1>3, <3>1
      <4>2. Owns(events, sock, fd, touched) /\ f \in Fds
        BY CalledFacts DEF Owned
      <4>3. /\ Owns(aeDeleteFileEvent(events, f, {W}), sock, fd, touched)
            /\ \A g \in Fds \ {f} : aeDeleteFileEvent(events, f, {W})[g] = events[g]
            /\ \A g \in Fds : events[g].mask # {} =>
                 aeDeleteFileEvent(events, f, {W})[g].mask # {}
        BY <2>1, <4>2, DeleteOwns
      <4> QED
        BY <4>1, <4>3
    <3>2. CASE written'[c] # 0
      <4>1. events' = events
        BY <1>3, <3>2
      <4> QED
        BY <4>1, CalledFacts DEF Owned
    <3> QED
      BY <3>1, <3>2
  <2>5. Owned'
    BY <1>3, <2>3, <2>4, OwnedNext DEF Owns
  <2>6. Batch'
    <3>1. \A g \in Fds : events[g].mask # {} => events'[g].mask # {}
      BY <2>4
    <3>0. f \notin fresh /\ fresh' = fresh
      BY <1>3, CalledFacts
    <3>2. \A g \in fresh : events'[g] = events[g]
      BY <2>1, <2>4, <3>0
    <3>3. Batch /\ pc # "poll" /\ Turn(f)
      BY CalledFacts
    <3>4. pc' # "poll"
      BY <1>0
    <3> QED
      BY <3>0, <3>1, <3>2, <3>3, <3>4, BatchKept
  <2> QED
    BY <1>0, <1>2, <2>5, <2>6, CalledFacts DEF Left, NoTimers, Parsing
<1>4. CASE UNCHANGED <<fd, events, sock, fresh, touched>>
  <2>1. Owned'
    BY <1>4, CalledFacts DEF Owned, Owns
  <2>2. Batch'
    BY <1>0, <1>4, CalledFacts, BatchKept
  <2> QED
    BY <1>0, <1>2, <2>1, <2>2, CalledFacts DEF Left, NoTimers, Parsing
<1>5. ASSUME NEW count, reconnect_socket(c, events, count) PROVE Left
  BY <1>0, <1>2, <1>5, ReconnectLeaves
<1> QED
  BY <1>1, <1>3, <1>4, <1>5 DEF WriteRequest, others

\* What socket_readable has read: responses, or the end of a stream alone.
LEMMA ReadInput ==
  ASSUME TypeOK, NEW c \in Conns, fd[c] \in Fds, Read(c)
  PROVE  /\ \A g \in Fds : Open(sock'[g]) <=> Open(sock[g])
         /\ \A i \in 1 .. Len(input'.buf) : input'.buf[i] = "end" => Len(input'.buf) = 1
<1> DEFINE s == sock[fd[c]]
<1>1. /\ sock \in [Fds -> SocketType] /\ s \in SocketType
      /\ s.inbox \in Seq(Replies) /\ "end" \notin Replies
  BY TypeFacts, ConnectionAssumption DEF SocketType, ConnectionAssumption
<1>2. ASSUME NEW k \in 1 .. Len(s.inbox),
             input' = [c |-> c, buf |-> SubSeq(s.inbox, 1, k), bad |-> FALSE],
             sock' = [sock EXCEPT ![fd[c]].inbox = SubSeq(@, k + 1, Len(@))]
      PROVE  /\ \A g \in Fds : Open(sock'[g]) <=> Open(sock[g])
             /\ \A i \in 1 .. Len(input'.buf) : input'.buf[i] # "end"
  <2>1. \A g \in Fds : sock'[g].st = sock[g].st
    BY <1>1, <1>2 DEF SocketType
  <2>2. Len(s.inbox) \in Nat /\ \A i \in 1 .. Len(s.inbox) : s.inbox[i] \in Replies
    BY <1>1, LenProperties, ElementOfSeq
  <2>3. SubSeq(s.inbox, 1, k) \in Seq(Replies)
    <3>1. \A i \in 1 .. k : s.inbox[i] \in Replies
      BY <2>2
    <3> QED
      BY <2>2, <3>1, SubSeqProperties
  <2>4. input'.buf \in Seq(Replies)
    BY <1>2, <2>3
  <2>5. \A i \in 1 .. Len(input'.buf) : input'.buf[i] \in Replies
    BY <2>4, ElementOfSeq
  <2> QED
    BY <1>1, <2>1, <2>5 DEF Open
<1>3. CASE input' = [c |-> c, buf |-> <<>>, bad |-> FALSE] /\ UNCHANGED sock
  BY <1>3
<1>4. CASE /\ input' = [c |-> c, bad |-> TRUE,
                        buf |-> IF s.st = "open" /\ parser[c] = "eof" /\ ~Tls
                                THEN <<"end">> ELSE <<>>]
           /\ UNCHANGED sock
  <2>1. input'.buf = <<"end">> \/ input'.buf = <<>>
    BY <1>4
  <2> QED
    BY <1>4, <2>1
<1>5. ASSUME NEW got \in Strange(c), UNCHANGED sock,
             input' = [c |-> c, buf |-> got, bad |-> got = <<"end">>]
      PROVE  /\ \A g \in Fds : Open(sock'[g]) <=> Open(sock[g])
             /\ \A i \in 1 .. Len(input'.buf) : input'.buf[i] = "end" => Len(input'.buf) = 1
  <2>1. got = <<>> \/ \E kind : got = <<kind>>
    BY DEF Strange
  <2>2. Len(<<>>) = 0 /\ \A kind : Len(<<kind>>) = 1
    OBVIOUS
  <2> QED
    BY <1>5, <2>1, <2>2
<1> QED
  BY <1>2, <1>3, <1>4, <1>5 DEF Read

LEMMA SocketReadableLeaves ==
  ASSUME NEW c, NEW f, Called(c, f), socket_readable(c), cur' = f PROVE Left
<1>0. c \in Conns /\ f \in Fds /\ fd[c] = f /\ TypeOK /\ f \notin fresh
  BY CalledFacts
<1>1. UNCHANGED <<fd, delayed, timers, events, fresh, touched>>
  BY DEF socket_readable, others
<1>2. \/ Read(c) /\ pc' = "parse"
      \/ pc' = "files" /\ UNCHANGED sock
  BY DEF socket_readable
<1>3. pc' # "poll" /\ \A g \in Fds : Open(sock'[g]) <=> Open(sock[g])
  BY <1>0, <1>2, ReadInput
<1>4. Owned'
  BY <1>1, <1>3, CalledFacts DEF Owned, Owns
<1>5. Batch'
  <2>1. \A g \in Fds : events[g].mask # {} => events'[g].mask # {}
    BY <1>1
  <2>2. \A g \in fresh : events'[g] = events[g]
    BY <1>1
  <2>3. Batch /\ pc # "poll" /\ Turn(f) /\ fresh' = fresh
    BY <1>1, CalledFacts
  <2> QED
    BY <1>3, <2>1, <2>2, <2>3, BatchKept
<1>6. Parsing'
  <2>1. CASE Read(c)
    <3>1. input'.c = c /\ fd' = fd /\ events' = events /\ fresh' = fresh
      BY <1>0, <1>1, <2>1, ReadTyped
    <3>2. events[f].mask # {} /\ events[f].data = c
      BY DEF Called, Watched
    <3>3. \A i \in 1 .. Len(input'.buf) : input'.buf[i] = "end" => Len(input'.buf) = 1
      BY <1>0, <2>1, ReadInput
    <3> QED
      BY <1>0, <3>1, <3>2, <3>3 DEF Parsing, Watched
  <2>2. CASE pc' = "files"
    BY <2>2 DEF Parsing
  <2> QED
    BY <1>2, <2>1, <2>2
<1>7. NoTimers'
  BY <1>1, CalledFacts DEF NoTimers
<1> QED
  BY <1>4, <1>5, <1>6, <1>7 DEF Left

-----------------------------------------------------------------------------
(* The steps.                                                              *)

LEMMA ReadHalfLeaves ==
  ASSUME Together, Delay = FALSE, NEW f \in Fds, ReadHalf(f)
  PROVE  Left /\ OpenedInOrder'
<1> DEFINE c == events[f].data
<1>0. /\ pc = "files" /\ cur = NoFd /\ R \in fired[f] /\ events[f].mask # {}
      /\ cur' = f /\ fired' = [fired EXCEPT ![f] = @ \ {R}] /\ todo' = todo
  BY DEF ReadHalf, Valid
<1>1. TypeOK /\ Owned /\ Batch /\ OpenedInOrder
  BY DEF Together, Typed
<1>2. fired \in [Fds -> SUBSET {R, W}] /\ NoFd \notin Fds
  BY <1>1, TypeFacts, Numbers
<1>3. todo = {}
  BY <1>0, <1>1 DEF OpenedInOrder
<1>4. f \notin fresh /\ \A g \in Fds : fired[g] # {} => events[g].mask # {} /\ g \notin fresh
  BY <1>0, <1>1, <1>2 DEF Batch
<1>5. Turn(f)
  BY <1>0, <1>2, <1>4 DEF Turn
<1>6. c \in Conns /\ fd[c] = f /\ Watched(c, f)
  BY <1>0, <1>1 DEF Owned, Owns, Watched
<1>7. Called(c, f)
  BY <1>0, <1>3, <1>4, <1>5, <1>6 DEF Called
<1>8. Left
  BY <1>0, <1>7, SocketConnectedLeaves, SocketReadableLeaves DEF ReadHalf
<1> QED
  BY <1>0, <1>3, <1>8 DEF OpenedInOrder

LEMMA WriteHalfLeaves ==
  ASSUME Together, Delay = FALSE, NEW f \in Fds, WriteHalf(f)
  PROVE  Left /\ OpenedInOrder'
<1> DEFINE c == events[f].data
<1>0. /\ pc = "files" /\ CallsWrite(f) /\ fired[f] # {} /\ events[f].mask # {}
      /\ cur' = NoFd /\ fired' = [fired EXCEPT ![f] = {}] /\ todo' = todo
  BY DEF WriteHalf, CallsWrite, Valid
<1>1. TypeOK /\ Owned /\ Batch /\ OpenedInOrder
  BY DEF Together, Typed
<1>2. fired \in [Fds -> SUBSET {R, W}] /\ NoFd \notin Fds
  BY <1>1, TypeFacts, Numbers
<1>3. todo = {}
  BY <1>0, <1>1 DEF OpenedInOrder
<1>4. (cur = f /\ events[f].wproc # events[f].rproc) \/ cur = NoFd
  BY <1>0 DEF CallsWrite
<1>5. f \notin fresh
  BY <1>0, <1>1, <1>2, <1>4 DEF Batch
<1>6. Turn(f)
  BY <1>0, <1>1, <1>2, <1>4 DEF Turn, Batch
<1>7. c \in Conns /\ fd[c] = f /\ Watched(c, f)
  BY <1>0, <1>1 DEF Owned, Owns, Watched
<1>8. Called(c, f)
  BY <1>0, <1>3, <1>5, <1>6, <1>7 DEF Called
<1>9. Left
  BY <1>8, SocketConnectedLeaves, SocketWriteableLeaves DEF WriteHalf
<1> QED
  BY <1>0, <1>3, <1>9 DEF OpenedInOrder

LEMMA LoopLeaves ==
  ASSUME Together, aeApiPoll \/ EndOfBatch \/ \E f \in Fds : NextEntry(f)
  PROVE  Left /\ OpenedInOrder'
<1>0. TypeOK /\ Owned /\ Batch /\ OpenedInOrder /\ NoTimers
  BY DEF Together, Typed
<1>1. fired \in [Fds -> SUBSET {R, W}] /\ NoFd \notin Fds
  BY <1>0, TypeFacts, Numbers
<1>2. /\ UNCHANGED <<fd, delayed, events, timers, sock, todo, touched>>
      /\ pc' # "parse" /\ (pc' # "poll" => todo = {})
  BY <1>0 DEF aeApiPoll, EndOfBatch, NextEntry, conn, others, OpenedInOrder
<1>3. Owned' /\ NoTimers' /\ Parsing' /\ OpenedInOrder'
  BY <1>0, <1>2 DEF Owned, Owns, NoTimers, Parsing, OpenedInOrder
<1>4. CASE aeApiPoll
  <2>1. /\ pc = "poll" /\ pc' = "files" /\ cur' = cur /\ fresh' = {}
        /\ \A f \in Fds : fired'[f] # {} => events[f].mask # {}
    BY <1>4 DEF aeApiPoll
  <2>2. cur' = NoFd
    BY <1>0, <2>1 DEF Batch
  <2>3. Batch'
    BY <1>1, <1>2, <2>1, <2>2 DEF Batch
  <2> QED
    BY <1>3, <2>3 DEF Left
<1>5. CASE EndOfBatch
  BY <1>3, <1>5 DEF EndOfBatch, Batch, Left
<1>6. ASSUME NEW f \in Fds, NextEntry(f) PROVE Left
  <2>1. /\ pc = "files" /\ pc' = "files" /\ cur \in {f, NoFd} /\ cur' = NoFd
        /\ fired' = [fired EXCEPT ![f] = {}] /\ fresh' = fresh
    BY <1>6 DEF NextEntry
  <2>2. Turn(f)
    BY <1>0, <1>1, <2>1 DEF Turn, Batch
  <2>3. Batch'
    BY <1>0, <1>2, <2>1, <2>2, BatchKept
  <2> QED
    BY <1>3, <2>3 DEF Left
<1> QED
  BY <1>3, <1>4, <1>5, <1>6

LEMMA ThreadMainLeaves ==
  ASSUME Together, NEW c \in Conns, thread_main(c) PROVE Left /\ OpenedInOrder'
<1>0. TypeOK /\ Owned /\ Batch /\ OpenedInOrder /\ NoTimers
  BY DEF Together, Typed
<1>1. /\ c \in todo /\ todo' = todo \ {c} /\ connect_socket(c, sock, events, num)
      /\ UNCHANGED <<delayed, timers, cur, pc, touched>>
  BY DEF thread_main, others
<1>2. pc = "poll" /\ fd[c] = NoFd
  BY <1>0, <1>1 DEF OpenedInOrder
<1>3. \A f \in Fds : events[f].mask # {} => events[f].data # c
  BY <1>0, <1>2, Numbers DEF Owned, Owns
<1>4. events \in [Fds -> EventType] /\ sock \in [Fds -> SocketType] /\ todo \subseteq Conns
  BY <1>0, TypeFacts
<1>5. Reopened(c, events, touched)
  BY <1>0, <1>1, <1>3, <1>4, ConnectOwns DEF Owned
<1>6. Owned'
  BY <1>1, <1>5, OwnedNext DEF Reopened
<1>7. OpenedInOrder'
  BY <1>0, <1>1, <1>2, <1>4, <1>5 DEF OpenedInOrder, Reopened
<1>8. Batch' /\ Parsing' /\ NoTimers'
  BY <1>0, <1>1, <1>2 DEF Batch, Parsing, NoTimers
<1> QED
  BY <1>6, <1>7, <1>8 DEF Left

\* Between two responses of an input nothing of the batch moves.
LEMMA ParsingTurn ==
  ASSUME Together, pc = "parse", UNCHANGED <<fired, cur>>,
         NEW f, f = cur \/ f \in fresh
  PROVE  Turn(f)
<1>1. Batch /\ cur \in Fds
  BY DEF Together, Parsing
<1> QED
  BY <1>1 DEF Batch, Turn

LEMMA ReadEndLeaves ==
  ASSUME Together, ReadEnd \/ ReadError PROVE Left /\ OpenedInOrder'
<1> DEFINE c == input.c
<1>0. /\ TypeOK /\ Owned /\ Batch
      /\ OpenedInOrder /\ Parsing /\ NoTimers
  BY DEF Together, Typed
<1>1. /\ pc = "parse" /\ pc' = "files" /\ UNCHANGED <<fired, cur, todo, delayed, timers>>
  BY DEF ReadEnd, ReadError
<1>2. c \in Conns
  BY <1>1 DEF Together, Typed, HandlersHaveFd
<1>3. Turn(fd[c])
  BY <1>0, <1>1, ParsingTurn DEF Parsing
<1>4. todo = {} /\ OpenedInOrder' /\ NoTimers' /\ Parsing'
  BY <1>0, <1>1 DEF OpenedInOrder, NoTimers, Parsing
<1>5. CASE ReadEnd
  <2>1. UNCHANGED <<fd, events, sock, fresh, touched>>
    BY <1>5 DEF ReadEnd, others
  <2>2. Owned'
    BY <1>0, <2>1 DEF Owned, Owns
  <2>3. Batch'
    BY <1>0, <1>1, <1>3, <2>1, BatchKept
  <2> QED
    BY <1>4, <2>2, <2>3 DEF Left
<1>6. CASE ReadError
  <2>1. reconnect_socket(c, events, Bump(num, {"read"}))
    BY <1>6 DEF ReadError
  <2>2. events \in [Fds -> EventType]
    BY <1>0, TypeFacts
  <2>3. Owned'
    BY <1>0, <1>2, <2>1, <2>2, ReconnectOwns, OwnedNext DEF Reopened, Owned
  <2>4. Batch'
    BY <1>0, <1>1, <1>2, <1>3, <2>1, <2>2, BatchReopened DEF Owned
  <2> QED
    BY <1>4, <2>3, <2>4 DEF Left
<1> QED
  BY <1>4, <1>5, <1>6

LEMMA RearmOwns ==
  ASSUME TypeOK, NEW c \in Conns, fd[c] \in Fds, events[fd[c]].mask # {},
         events[fd[c]].data = c, Owned
  PROVE  /\ Rearm(c) \in [Fds -> EventType] /\ Owns(Rearm(c), sock, fd, touched)
         /\ Rearm(c)[fd[c]].mask # {} /\ Rearm(c)[fd[c]].data = c
         /\ \A g \in Fds \ {fd[c]} : Rearm(c)[g] = events[g]
<1>1. {W} \in Masks /\ "socket_writeable" \in WriteProcs /\ R \notin {W}
      /\ events \in [Fds -> EventType]
  BY TypeFacts DEF Masks, WriteProcs, R, W
<1>2. PICK f \in Fds : f = fd[c]
  OBVIOUS
<1> DEFINE rearmed == aeCreateFileEvent(events, f, {W}, "socket_writeable", c)
<1>3. rearmed \in [Fds -> EventType]
  BY <1>1, CreateTyped
<1>4. Registered(events, f, c)
  BY <1>2 DEF Owned, Registered
<1>5. Registered(rearmed, f, c) /\ OnlyAt(f, events, rearmed)
  BY <1>1, <1>4, CreateOwns
<1>6. Rearm(c) = rearmed
  BY <1>2 DEF Rearm
<1> HIDE DEF rearmed
<1> QED
  BY <1>2, <1>3, <1>5, <1>6 DEF Registered, OnlyAt

\* The callback, of the connection c that owns the socket cur, which is not fresh.
LEMMA ResponseCompleteLeaves ==
  ASSUME Together, Delay = FALSE, pc = "parse", pc' = "parse",
         fired' = fired, cur' = cur, timers' = timers,
         NEW c \in Conns, Watched(c, cur), fd[c] = cur, cur \in Fds, cur \notin fresh,
         NEW keep, NEW ok, NEW late, response_complete(c, keep, ok, late)
  PROVE  /\ Owned' /\ NoTimers' /\ Batch'
         /\ fd'[c] = cur \/ fd'[c] \in fresh'
         /\ keep => events'[cur].mask # {} /\ events'[cur].data = c /\ fresh' = fresh
<1> DEFINE last == pending[c] - 1 = 0
           count == Bump(num, {"complete", IF ok THEN "succ" ELSE "status"}
                              \union (IF last THEN {IF late THEN "timeout" ELSE "latency"}
                                              ELSE {}))
           table == IF last THEN Rearm(c) ELSE events
<1>0. TypeOK /\ Owned /\ Batch /\ NoTimers
  BY DEF Together, Typed
<1>1. events \in [Fds -> EventType] /\ fresh \subseteq Fds
      /\ delayed \in [Conns -> BOOLEAN]
  BY <1>0, TypeFacts
<1>2. /\ delayed' = IF last THEN [delayed EXCEPT ![c] = Delay] ELSE delayed
      /\ IF keep
         THEN events' = table /\ UNCHANGED <<fd, sock, fresh, touched>>
         ELSE reconnect_socket(c, table, count)
  BY DEF response_complete, others
<1>3. /\ table \in [Fds -> EventType] /\ Owns(table, sock, fd, touched)
      /\ table[cur].mask # {} /\ table[cur].data = c
      /\ \A g \in Fds \ {cur} : table[g] = events[g]
  <2>1. CASE last
    <3>1. table = Rearm(c) /\ events[fd[c]].mask # {} /\ events[fd[c]].data = c
      BY <2>1 DEF Watched
    <3> QED
      BY <1>0, <3>1, RearmOwns
  <2>2. CASE ~last
    BY <1>0, <1>1, <2>2 DEF Watched, Owned
  <2> QED
    BY <2>1, <2>2
<1>4. Turn(cur)
  BY ParsingTurn
<1> HIDE DEF table, count, last
<1>5. NoTimers'
  BY <1>0, <1>1, <1>2 DEF NoTimers
<1>6. \A g \in fresh : table[g] = events[g]
  BY <1>1, <1>3
<1>7. CASE keep
  <2>1. events' = table /\ UNCHANGED <<fd, sock, fresh, touched>>
    BY <1>2, <1>7
  <2>2. Owned' /\ events'[cur].mask # {} /\ events'[cur].data = c
    BY <1>3, <2>1, OwnedNext
  <2>3. Batch'
    <3>1. \A g \in Fds : events[g].mask # {} => events'[g].mask # {}
      BY <1>3, <2>1
    <3> QED
      BY <1>0, <1>4, <1>6, <2>1, <3>1, BatchKept
  <2> QED
    BY <1>5, <2>1, <2>2, <2>3
<1>8. CASE ~keep
  <2>1. reconnect_socket(c, table, count)
    BY <1>2, <1>8
  <2>2. Owned' /\ (fd'[c] = cur \/ fd'[c] \in fresh')
    BY <1>0, <1>3, <2>1, ReconnectOwns, OwnedNext DEF Reopened
  <2>3. Batch'
    <3>1. \A g \in Fds : g # fd[c] => table[g] = events[g]
      BY <1>3
    <3> QED
      BY <1>0, <1>3, <1>4, <1>6, <2>1, <3>1, BatchReopened
  <2> QED
    BY <1>5, <1>8, <2>2, <2>3
<1> QED
  BY <1>7, <1>8

LEMMA ParseResponseLeaves ==
  ASSUME Together, Delay = FALSE, ParseResponse PROVE Left /\ OpenedInOrder'
<1> DEFINE c == input.c
           kind == Head(input.buf)
           keep == kind = "keep"
           Kinds == Replies \union {"end", "stray"}
<1>0. TypeOK /\ Owned /\ Batch /\ OpenedInOrder /\ Parsing /\ NoTimers
  BY DEF Together, Typed
<1>1. /\ pc = "parse" /\ pc' = "parse" /\ input.buf # <<>> /\ parser[c] # "dead"
      /\ UNCHANGED <<timers, fired, cur, todo>>
      /\ input' = [input EXCEPT !.buf = IF kind = "junk" THEN <<"stray">> ELSE Tail(@)]
  BY DEF ParseResponse
<1>2. /\ c \in Conns /\ cur \in Fds /\ Watched(c, cur) /\ cur \notin fresh
      /\ fd[c] = cur
  BY <1>0, <1>1 DEF Together, Typed, HandlersHaveFd, Parsing, Owned, Owns, Watched
<1>3. input' \in InputType /\ input'.c = c
      /\ input'.buf = IF kind = "junk" THEN <<"stray">> ELSE Tail(input.buf)
  <2>1. input \in InputType /\ input.buf \in Seq(Kinds) /\ <<"stray">> \in Seq(Kinds)
    BY <1>0, TypeFacts DEF InputType
  <2>2. Tail(input.buf) \in Seq(Kinds)
    BY <1>1, <2>1, HeadTailProperties
  <2>3. input'.buf = IF kind = "junk" THEN <<"stray">> ELSE Tail(input.buf)
    BY <1>1, <2>1 DEF InputType
  <2> QED
    BY <1>1, <2>1, <2>2, <2>3 DEF InputType
<1>4. /\ \A i \in 1 .. Len(input'.buf) : input'.buf[i] = "end" => Len(input'.buf) = 1
      /\ kind = "end" => input'.buf = <<>>
  <2>1. input.buf \in Seq(Kinds) /\ input.buf # <<>>
    BY <1>0, <1>1, TypeFacts DEF InputType
  <2>2. /\ \A i \in 1 .. Len(input.buf) : input.buf[i] = "end" => Len(input.buf) = 1
        /\ kind = input.buf[1] /\ Len(input.buf) \in Nat /\ Len(input.buf) > 0
    BY <1>0, <1>1, <2>1 DEF Parsing
  <2>3. /\ Len(Tail(input.buf)) = Len(input.buf) - 1
        /\ \A i \in 1 .. Len(Tail(input.buf)) : Tail(input.buf)[i] = input.buf[i + 1]
        /\ Len(input.buf) = 1 => Tail(input.buf) = <<>>
    <3>1. Tail(input.buf) \in Seq(Kinds) /\ Len(Tail(input.buf)) = Len(input.buf) - 1
      BY <2>1, HeadTailProperties
    <3>2. \A i \in 1 .. Len(Tail(input.buf)) : Tail(input.buf)[i] = input.buf[i + 1]
      BY <2>1, HeadTailProperties
    <3>3. Len(input.buf) = 1 => Tail(input.buf) = <<>>
      <4>1. Tail(input.buf) # <<>> => Len(Tail(input.buf)) \in Nat \ {0}
        BY <3>1, EmptySeq
      <4> QED
        BY <3>1, <4>1
    <3> QED
      BY <3>1, <3>2, <3>3
  <2>4. \A i \in 1 .. Len(Tail(input.buf)) : Tail(input.buf)[i] # "end"
    BY <2>2, <2>3
  <2>5. <<"stray">>[1] # "end" /\ Len(<<"stray">>) = 1
    OBVIOUS
  <2> QED
    BY <1>3, <2>2, <2>3, <2>4, <2>5
<1>5. OpenedInOrder'
  <2>1. fd' = fd \/ todo = {}
    BY <1>0, <1>1 DEF OpenedInOrder
  <2> QED
    BY <1>0, <1>1, <2>1 DEF OpenedInOrder
<1>6. CASE UNCHANGED <<fd, delayed, events, sock, fresh, touched>> /\ parser' = [parser EXCEPT ![c] = "eof"]
  <2>1. Owned' /\ NoTimers'
    BY <1>0, <1>1, <1>6 DEF Owned, Owns, NoTimers
  <2>2. Batch'
    <3>1. Turn(cur)
      BY <1>1, ParsingTurn
    <3> QED
      BY <1>0, <1>1, <1>6, <3>1, BatchKept
  <2>3. Parsing'
    BY <1>1, <1>2, <1>3, <1>4, <1>6 DEF Parsing, Watched
  <2> QED
    BY <1>5, <2>1, <2>2, <2>3 DEF Left
<1>7. ASSUME NEW ok, NEW late, response_complete(c, keep, ok, late),
             parser' = [parser EXCEPT ![c] = CASE keep -> "start"
                                               [] kind = "end" -> "eof"
                                               [] OTHER -> "dead"]
      PROVE  Left
  <2>1. /\ Owned' /\ NoTimers' /\ Batch'
        /\ fd'[c] = cur \/ fd'[c] \in fresh'
        /\ keep => events'[cur].mask # {} /\ events'[cur].data = c /\ fresh' = fresh
    <3>1. /\ pc = "parse" /\ pc' = "parse"
          /\ fired' = fired /\ cur' = cur /\ timers' = timers
      BY <1>1
    <3> QED
      BY <1>2, <1>7, <3>1, ResponseCompleteLeaves
  <2>2. keep \/ kind = "end" \/ parser'[c] = "dead"
    BY <1>0, <1>2, <1>7, TypeFacts
  <2>3. Parsing'
    BY <1>1, <1>2, <1>3, <1>4, <2>1, <2>2 DEF Parsing, Watched
  <2> QED
    BY <2>1, <2>3 DEF Left
<1> QED
  BY <1>5, <1>6, <1>7 DEF ParseResponse, others

LEMMA ThreadLeaves ==
  ASSUME Together, Delay = FALSE, Thread PROVE Left /\ OpenedInOrder'
<1>1. \A c \in Conns : ~delay_request(c)
  BY DEF delay_request, Together, NoTimers
<1> QED
  BY <1>1, ThreadMainLeaves, LoopLeaves, ParseResponseLeaves, ReadEndLeaves,
     ReadHalfLeaves, WriteHalfLeaves DEF Thread

\* The world neither opens nor closes a socket of the thread, but another thread may
\* close one.
LEMMA OutsideLeaves ==
  ASSUME Together, Outside PROVE Left /\ OpenedInOrder'
<1>0. /\ sock \in [Fds -> SocketType] /\ Owned /\ Batch
      /\ OpenedInOrder /\ Parsing /\ NoTimers
  BY TypeFacts DEF Together, Typed
<1>1. ASSUME NEW f \in Fds, NEW s, Becomes(f, s), touched \subseteq touched',
             Open(s) => Open(sock[f]), Open(sock[f]) => Open(s) \/ f \in touched'
      PROVE  Left /\ OpenedInOrder'
  <2>1. sock' = [sock EXCEPT ![f] = s]
        /\ UNCHANGED <<fd, delayed, parser, events, timers, fired, cur, pc, input, todo, fresh>>
    BY <1>1 DEF Becomes, conn, loop
  <2>2. \A g \in Fds : /\ Open(sock'[g]) => Open(sock[g])
                       /\ Open(sock[g]) \/ g \in touched => Open(sock'[g]) \/ g \in touched'
    <3>1. sock'[f] = s /\ \A g \in Fds \ {f} : sock'[g] = sock[g]
      BY <1>0, <2>1
    <3> QED
      BY <1>1, <3>1
  <2>3. Owned'
    BY <1>0, <2>1, <2>2 DEF Owned, Owns
  <2>4. Batch'
    BY <1>0, <2>1 DEF Batch
  <2>5. NoTimers' /\ OpenedInOrder' /\ Parsing'
    BY <1>0, <2>1 DEF NoTimers, OpenedInOrder, Parsing, Watched
  <2> QED
    BY <2>3, <2>4, <2>5 DEF Left
<1>7. ASSUME NEW f \in Fds, NEW s, World(f, s), Open(s) <=> Open(sock[f])
      PROVE  Left /\ OpenedInOrder'
  <2>1. Becomes(f, s) /\ touched' = touched
    BY <1>7 DEF World, others
  <2> QED
    BY <1>1, <1>7, <2>1
<1>2. ASSUME NEW f \in Fds, Accept(f) \/ Refuse(f) \/ TakeFd(f)
      PROVE  Left /\ OpenedInOrder'
  BY <1>7, <1>2 DEF Accept, Refuse, TakeFd, Open, Socket
<1>8. ASSUME NEW f \in Fds, ReleaseFd(f) PROVE Left /\ OpenedInOrder'
  <2>1. Becomes(f, Socket("free")) /\ touched' = touched /\ sock[f].st = "foreign"
    BY <1>8 DEF ReleaseFd, Foreign, others
  <2>2. ~Open(sock[f]) /\ ~Open(Socket("free"))
    BY <2>1 DEF Open, Socket
  <2> QED
    BY <1>1, <2>1, <2>2
<1>9. ASSUME NEW f \in Fds, CloseAgain(f) PROVE Left /\ OpenedInOrder'
  <2>1. Becomes(f, Socket("free")) /\ touched' = IF Held(f) THEN touched \union {f} ELSE touched
    BY <1>9 DEF CloseAgain
  <2>2. ~Open(Socket("free")) /\ (Held(f) <=> Open(sock[f]))
    BY DEF Open, Socket, Held
  <2> QED
    BY <1>1, <2>1, <2>2
<1>10. ASSUME NEW f \in Fds, UseAgain(f) PROVE Left /\ OpenedInOrder'
  <2>1. touched' = touched \union {f} /\ Open(sock[f])
    BY <1>10 DEF UseAgain, Connected, Open
  <2>2. \E s : Becomes(f, s)
    BY <1>10 DEF UseAgain
  <2> QED
    BY <1>1, <2>1, <2>2
<1>3. ASSUME NEW f \in Fds, NEW kind, NEW s, s.st = sock[f].st, s \in SocketType,
             Respond(f, kind, s)
      PROVE  Left /\ OpenedInOrder'
  BY <1>7, <1>3 DEF Respond, Open, SocketType
<1>4. ASSUME NEW f \in Fds, Reply(f) \/ ReplyEarly(f) PROVE Left /\ OpenedInOrder'
  <2>1. CASE Reply(f)
    <3>1. sock[f] \in SocketType /\ sock[f].owed > 0
      BY <1>0, <2>1 DEF Reply
    <3>2. /\ [sock[f] EXCEPT !.owed = @ - 1] \in SocketType
          /\ [sock[f] EXCEPT !.owed = @ - 1].st = sock[f].st
      BY <3>1 DEF SocketType
    <3> QED
      BY <1>3, <2>1, <3>2 DEF Reply
  <2>2. CASE ReplyEarly(f)
    <3>1. /\ [sock[f] EXCEPT !.early = TRUE] \in SocketType
          /\ [sock[f] EXCEPT !.early = TRUE].st = sock[f].st
      BY <1>0 DEF SocketType
    <3> QED
      BY <1>3, <2>2, <3>1 DEF ReplyEarly
  <2> QED
    BY <1>4, <2>1, <2>2
<1>5. ASSUME NEW f \in Fds, Close(f) PROVE Left /\ OpenedInOrder'
  <2>1. [sock[f] EXCEPT !.fin = TRUE, !.owed = 0, !.part = 0].st = sock[f].st
    BY <1>0 DEF SocketType
  <2> QED
    BY <1>7, <1>5, <2>1 DEF Close, Open
<1>6. ASSUME NEW f \in Fds, Reset(f) PROVE Left /\ OpenedInOrder'
  <2>1. \A rest : Open([Socket("reset") EXCEPT !.inbox = rest])
    BY DEF Open, Socket
  <2>2. Open(sock[f])
    BY <1>6 DEF Reset, Connected, Open
  <2> QED
    BY <1>7, <1>6, <2>1, <2>2 DEF Reset
<1> QED
  BY <1>2, <1>8, <1>9, <1>10, <1>4, <1>5, <1>6 DEF Outside

-----------------------------------------------------------------------------

LEMMA InitTogether == ASSUME Delay = FALSE PROVE Init => Together
<1> SUFFICES ASSUME Init PROVE Together
  OBVIOUS
<1>1. Owned /\ NoTimers /\ OpenedInOrder /\ Parsing /\ Batch
  BY DEF Init, Socket, Owned, Owns, Open, NoTimers, OpenedInOrder, Parsing, Batch
<1> QED
  BY <1>1, InitTyped DEF Together

LEMMA NextTogether == ASSUME Delay = FALSE PROVE Together /\ [Next]_vars => Together'
<1> SUFFICES ASSUME Together, [Next]_vars PROVE Together'
  OBVIOUS
<1>1. Typed'
  BY NextTyped DEF Together
<1>2. CASE Thread
  BY <1>1, <1>2, ThreadLeaves DEF Together, Left
<1>3. CASE Outside
  BY <1>1, <1>3, OutsideLeaves DEF Together, Left
<1>4. CASE UNCHANGED vars
  BY <1>1, <1>4 DEF vars, conn, loop, others, Together, Owned, Owns, NoTimers,
                    OpenedInOrder, Parsing, Watched, Batch
<1> QED
  BY <1>2, <1>3, <1>4 DEF Next

LEMMA AlwaysTogether == ASSUME Delay = FALSE PROVE Spec => []Together
  BY InitTogether, NextTogether, PTL DEF Spec

\* Without delay() a thread with any connections and descriptors never leaks a
\* socket, watches a descriptor that is closed or another's only after another
\* thread has closed its socket, and calls a handler for the owner of the
\* descriptor: reconnect_socket, connect_socket and the handlers keep wrk.h's fd
\* and ae.c's table in step.
THEOREM Ownership == ASSUME Delay = FALSE PROVE Spec => []EventsOwnTheirSocket
<1>1. Together => EventsOwnTheirSocket
  BY OwnedEvents
<1> QED
  BY <1>1, AlwaysTogether, PTL

\* Nor does aeProcessEvents ever call a handler for a socket with what epoll
\* reported of the one that had its descriptor before.
THEOREM NoStale == ASSUME Delay = FALSE PROVE Spec => []NoStaleDispatch
<1>1. Together => NoStaleDispatch
  <2> SUFFICES ASSUME Together, pc = "files", NEW f \in fresh
               PROVE  ~(cur = NoFd /\ Valid(f, R)) /\ ~CallsWrite(f)
    BY DEF NoStaleDispatch
  <2>1. Batch /\ f \in Fds /\ NoFd \notin Fds
    BY TypeFacts, Numbers DEF Together, Typed
  <2>2. fired[f] = {} \/ cur = f
    BY <2>1 DEF Batch
  <2>3. cur = f => R \notin fired[f] /\ (events[f].mask # {} => events[f].rproc = events[f].wproc)
    BY <2>1 DEF Batch
  <2> QED
    BY <2>1, <2>2, <2>3 DEF Valid, CallsWrite
<1> QED
  BY <1>1, AlwaysTogether, PTL

-----------------------------------------------------------------------------
(* Pieces and requests.                                                    *)

\* The quotient and the remainder are the only ones.
LEMMA Quotient ==
  ASSUME NEW q \in Int, NEW r \in 0 .. ReqUnits - 1
  PROVE  (ReqUnits * q + r) \div ReqUnits = q /\ (ReqUnits * q + r) % ReqUnits = r
<1> DEFINE a == ReqUnits * q + r
<1>1. a \in Int
  BY Numbers
<1>0. \A x \in Int, b \in Nat :
        b > 0 => x \div b \in Int /\ x % b \in 0 .. b - 1 /\ x = b * (x \div b) + (x % b)
  OBVIOUS
<1>2. a = ReqUnits * (a \div ReqUnits) + (a % ReqUnits) /\ a % ReqUnits \in 0 .. ReqUnits - 1
      /\ a \div ReqUnits \in Int
  BY <1>0, <1>1, Numbers
<1>3. \A u, v \in Int : u > v => ReqUnits * (u - v) >= ReqUnits
  BY Numbers
<1>4. ReqUnits * (q - a \div ReqUnits) = (a % ReqUnits) - r
      /\ ReqUnits * (a \div ReqUnits - q) = r - (a % ReqUnits)
  BY <1>2, Numbers
<1>5. ~(q > a \div ReqUnits) /\ ~(a \div ReqUnits > q)
  BY <1>2, <1>3, <1>4, Numbers
<1>6. q = a \div ReqUnits
  BY <1>2, <1>5
<1> QED
  BY <1>2, <1>4, <1>6, Numbers

LEMMA Divides ==
  ASSUME NEW a \in Nat
  PROVE  /\ a \div ReqUnits \in Nat /\ a % ReqUnits \in 0 .. ReqUnits - 1
         /\ a = ReqUnits * (a \div ReqUnits) + (a % ReqUnits)
<1>1. \A b \in Nat :
        b > 0 => a \div b \in Nat /\ a % b \in 0 .. b - 1 /\ a = b * (a \div b) + (a % b)
  OBVIOUS
<1> QED
  BY <1>1, Numbers

\* n more pieces after w.
LEMMA MorePieces ==
  ASSUME NEW w \in Nat, NEW n \in Nat
  PROVE  LET m == (w % ReqUnits) + n
         IN  /\ (w + n) \div ReqUnits = w \div ReqUnits + m \div ReqUnits
             /\ (w + n) % ReqUnits = m % ReqUnits
<1> DEFINE q == w \div ReqUnits
           m == (w % ReqUnits) + n
           k == m \div ReqUnits
           r == m % ReqUnits
<1>1. q \in Nat /\ w % ReqUnits \in Nat /\ w = ReqUnits * q + (w % ReqUnits)
  BY Divides, Numbers
<1>2. m \in Nat /\ m = (w % ReqUnits) + n
  BY <1>1
<1> HIDE DEF m
<1>3. k \in Nat /\ r \in 0 .. ReqUnits - 1 /\ m = ReqUnits * k + r
  BY <1>2, Divides
<1>4. w + n = ReqUnits * (q + k) + r
  BY <1>1, <1>3, Numbers DEF m
<1>5. q + k \in Int
  BY <1>1, <1>3
<1> HIDE DEF q, k, r
<1>6. (w + n) \div ReqUnits = q + k /\ (w + n) % ReqUnits = r
  BY <1>3, <1>4, <1>5, Quotient
<1> QED
  BY <1>6 DEF q, m, k, r

LEMMA WholeBatch == Length \div ReqUnits = Pipeline /\ Length % ReqUnits = 0
<1>1. Length = ReqUnits * Pipeline + 0 /\ 0 \in 0 .. ReqUnits - 1 /\ Pipeline \in Int
  BY Numbers DEF Length
<1> QED
  BY <1>1, Quotient

\* Requests that are still to be written entirely, when w pieces are.
PartOf(w) == IF w > 0 THEN Pipeline - w \div ReqUnits ELSE 0

LEMMA PartOfBatch ==
  ASSUME NEW w \in 0 .. Length - 1
  PROVE  PartOf(w) \in 0 .. Pipeline /\ (w > 0 => PartOf(w) >= 1)
<1>1. w \in Nat /\ w < Length /\ Length = Pipeline * ReqUnits
  BY LengthPositive DEF Length
<1>2. w \div ReqUnits \in Nat /\ w = ReqUnits * (w \div ReqUnits) + (w % ReqUnits)
      /\ w % ReqUnits \in Nat
  BY <1>1, Divides, Numbers
<1>3. \A u \in Nat : u >= Pipeline => ReqUnits * u >= Pipeline * ReqUnits
  BY Numbers
<1>4. ~(w \div ReqUnits >= Pipeline)
  BY <1>1, <1>2, <1>3, Numbers
<1> QED
  BY <1>2, <1>4, Numbers DEF PartOf

(***************************************************************************)
(* The tally of a connection: what it has of pending, of which socket.     *)
(* ready tells that it may start to write a batch, ok that the server may  *)
(* still answer, part, owed and in are the socket's, ear is one for an     *)
(* early answer, rest what the parser has still to complete, un what is    *)
(* read and not parsed.                                                    *)
(***************************************************************************)
Balanced(ready, part, owed, ear, in, p, w, un) ==
  /\ part = w % ReqUnits /\ (ear = 1 => part > 0)
  /\ ~ready => p = PartOf(w) + owed + in + un - ear

Tally(ready, ok, part, owed, ear, in, p, w, rest, un) ==
  /\ ok => Balanced(ready, part, owed, ear, in, p, w, un)
  /\ ~ok => owed = 0 /\ part = 0
  /\ ready => in = 0 /\ rest = 0 /\ un = 0 /\ owed = 0 /\ part = 0
  /\ p >= in + rest + (IF EarlyReply THEN 0 ELSE PartOf(w))

\* n more pieces are written, of a batch that may be new.
Written(ready, ok, part, owed, ear, in, p, w, rest, un, n, f, less, q, v) ==
  /\ {part, owed, in, rest, un, f} \subseteq Nat /\ {ear, less} \subseteq {0, 1} /\ p \in Int
  /\ w \in 0 .. Length - 1 /\ n \in 1 .. Length - w
  /\ w = 0 <=> ready
  /\ Tally(ready, ok, part, owed, ear, in, p, w, rest, un)
  /\ f = (part + n) \div ReqUnits
  /\ less = (IF ear = 1 /\ f > 0 THEN 1 ELSE 0)
  /\ q = (IF w = 0 THEN Pipeline ELSE p) /\ v = (w + n) % Length

Rewritten(ok, part, owed, ear, in, rest, un, n, f, less, q, v) ==
  /\ ok => Tally(FALSE, ok, (part + n) % ReqUnits, owed + f - less, ear - less,
                 in, q, v, rest, un)
  /\ ~ok => Tally(FALSE, ok, part, owed, ear, in, q, v, rest, un)

LEMMA TallyWrite ==
  ASSUME NEW ready, NEW ok, NEW part, NEW owed, NEW ear, NEW in, NEW p, NEW w, NEW rest,
         NEW un, NEW n, NEW f, NEW less, NEW q, NEW v,
         Written(ready, ok, part, owed, ear, in, p, w, rest, un, n, f, less, q, v)
  PROVE  Rewritten(ok, part, owed, ear, in, rest, un, n, f, less, q, v)
<1>a. /\ part \in Nat /\ owed \in Nat /\ in \in Nat /\ rest \in Nat /\ un \in Nat /\ f \in Nat
      /\ ear \in {0, 1} /\ less \in {0, 1} /\ p \in Int
      /\ w \in 0 .. Length - 1 /\ n \in 1 .. Length - w
  BY DEF Written
<1>b. /\ w = 0 <=> ready
      /\ Tally(ready, ok, part, owed, ear, in, p, w, rest, un)
      /\ f = (part + n) \div ReqUnits
      /\ less = (IF ear = 1 /\ f > 0 THEN 1 ELSE 0)
      /\ q = (IF w = 0 THEN Pipeline ELSE p) /\ v = (w + n) % Length
  BY DEF Written
<1>0. w \in Nat /\ n \in Nat /\ w + n <= Length /\ n > 0 /\ Length \in Nat /\ Length > 0
      /\ Pipeline \in Nat /\ Pipeline > 0
  BY <1>a, LengthPositive, Numbers
<1>1. v \in 0 .. Length - 1 /\ (w + n < Length => v = w + n) /\ (w + n = Length => v = 0)
  <2>1. \A a, b \in Nat : (a < b => a % b = a) /\ (b > 0 => b % b = 0)
    OBVIOUS
  <2>2. w + n \in Nat /\ (w + n = Length \/ w + n < Length)
    BY <1>0
  <2> QED
    BY <1>0, <1>b, <2>1, <2>2
<1> DEFINE d == w \div ReqUnits
           r == w % ReqUnits
           g == (r + n) \div ReqUnits
           h == (r + n) % ReqUnits
<1>2. d \in Nat /\ r \in Nat
  BY <1>0, Divides, Numbers
<1>3. (w + n) \div ReqUnits = d + g /\ (w + n) % ReqUnits = h
  BY <1>0, MorePieces
<1>4. g \in Nat /\ h \in Nat
  <2>1. r + n \in Nat
    BY <1>0, <1>2
  <2> QED
    BY <2>1, Divides, Numbers
<1>5. PartOf(v) = Pipeline - (d + g) /\ v % ReqUnits = h
  <2>1. CASE w + n = Length
    <3>1. (w + n) \div ReqUnits = Pipeline /\ (w + n) % ReqUnits = 0
      BY <2>1, WholeBatch
    <3>2. 0 % ReqUnits = 0
      <4>1. \A b \in Nat : b > 0 => 0 % b = 0
        OBVIOUS
      <4> QED
        BY <4>1, Numbers
    <3>3. v = 0
      BY <1>1, <2>1
    <3> QED
      BY <1>0, <1>2, <1>3, <1>4, <3>1, <3>2, <3>3 DEF PartOf
  <2>2. CASE w + n # Length
    <3>1. v = w + n /\ v > 0
      BY <1>0, <1>1, <2>2
    <3> QED
      BY <1>3, <3>1 DEF PartOf
  <2> QED
    BY <2>1, <2>2
<1>6. /\ w > 0 => PartOf(w) = Pipeline - d
      /\ w = 0 => PartOf(w) = 0 /\ d = 0
      /\ PartOf(w) \in Nat /\ PartOf(v) \in Nat
  <2>1. \A b \in Nat : b > 0 => 0 \div b = 0
    OBVIOUS
  <2>2. PartOf(w) \in Nat /\ PartOf(v) \in Nat
    BY <1>a, <1>1, PartOfBatch
  <2> QED
    BY <1>0, <2>1, <2>2, Numbers DEF PartOf
<1> DEFINE P == PartOf(w)
           V == PartOf(v)
<1>7. /\ w > 0 => P = Pipeline - d
      /\ w = 0 => P = 0 /\ d = 0
      /\ P \in Nat /\ V \in Nat /\ V = Pipeline - (d + g)
  BY <1>5, <1>6
<1>8. ASSUME ok
      PROVE  Tally(FALSE, ok, (part + n) % ReqUnits, owed + f - less, ear - less,
                        in, q, v, rest, un)
  <2>1. /\ part = r /\ (ear = 1 => part > 0)
        /\ ~ready => p = P + owed + in + un - ear
        /\ ready => in = 0 /\ rest = 0 /\ un = 0 /\ owed = 0 /\ part = 0
        /\ p >= in + rest + (IF EarlyReply THEN 0 ELSE P)
    BY <1>8, <1>b DEF Tally, Balanced
  <2>2. f = g /\ (part + n) % ReqUnits = h
    BY <1>b, <2>1
  <2>3. ear - less = 1 => h > 0
    <3>1. ASSUME ear = 1, f = 0 PROVE h > 0
      <4>1. r + n \in Nat /\ r + n > 0
        BY <1>0, <1>2
      <4>2. r + n = ReqUnits * g + h
        BY <4>1, Divides
      <4> QED
        BY <2>2, <3>1, <4>1, <4>2, <1>4, Numbers
    <3> QED
      BY <1>a, <1>b, <3>1
  <2> HIDE DEF P, V, d, r, g, h
  <2>4. q = V + (owed + f - less) + in + un - (ear - less)
    <3>0. (w = 0 <=> ready) /\ q = (IF w = 0 THEN Pipeline ELSE p) /\ f = g /\ w \in Nat
      BY <1>0, <1>b, <2>2
    <3>1. CASE w = 0
      <4>1. in = 0 /\ rest = 0 /\ un = 0 /\ owed = 0 /\ ear # 1 /\ q = Pipeline /\ d = 0
        BY <1>7, <2>1, <3>0, <3>1
      <4>2. ear = 0 /\ less = 0
        BY <1>a, <1>b, <4>1
      <4> QED
        BY <1>0, <1>4, <1>7, <3>0, <4>1, <4>2
    <3>2. CASE w > 0
      <4>1. q = p /\ p = P + owed + in + un - ear /\ P = Pipeline - d
        BY <1>7, <2>1, <3>0, <3>2
      <4> QED
        BY <1>0, <1>2, <1>4, <1>7, <1>a, <3>0, <4>1
    <3> QED
      BY <3>0, <3>1, <3>2
  <2>5. q >= in + rest + (IF EarlyReply THEN 0 ELSE V)
    BY <1>0, <1>a, <1>b, <1>2, <1>4, <1>7, <2>1
  <2> QED
    BY <1>5, <1>8, <2>2, <2>3, <2>4, <2>5 DEF Tally, Balanced, V
<1>9. ASSUME ~ok
      PROVE  Tally(FALSE, ok, part, owed, ear, in, q, v, rest, un)
  <2>1. /\ owed = 0 /\ part = 0
        /\ ready => in = 0 /\ rest = 0 /\ un = 0
        /\ p >= in + rest + (IF EarlyReply THEN 0 ELSE P)
    BY <1>9, <1>b DEF Tally
  <2> HIDE DEF P, V, d, r, g, h
  <2>5. q >= in + rest + (IF EarlyReply THEN 0 ELSE V)
    BY <1>0, <1>a, <1>b, <1>2, <1>4, <1>7, <2>1
  <2> QED
    BY <1>9, <2>1, <2>5 DEF Tally, V
<1> QED
  BY <1>8, <1>9 DEF Rewritten

\* The server answers: a batch it has received, or a request it has begun to.
Answering(ready, part, owed, ear, in, p, w, un, more) ==
  /\ {part, owed, in, un} \subseteq Nat /\ {ear, more} \subseteq {0, 1} /\ p \in Int
  /\ w \in 0 .. Length - 1
  /\ Tally(ready, TRUE, part, owed, ear, in, p, w, un, un)
  /\ ear = 1 => EarlyReply
  /\ \/ more = 0 /\ owed > 0
     \/ more = 1 /\ owed = 0 /\ part > 0 /\ ear = 0 /\ EarlyReply

Answered(ready, part, owed, ear, in, p, w, un, more) ==
  /\ Tally(ready, TRUE, part, owed - (1 - more), ear + more, in + 1, p, w, un, un)
  /\ Tally(ready, FALSE, 0, 0, ear + more, in + 1, p, w, un, un)
  /\ ~ready

LEMMA TallyReply ==
  ASSUME NEW ready, NEW part, NEW owed, NEW ear, NEW in, NEW p, NEW w, NEW un, NEW more,
         Answering(ready, part, owed, ear, in, p, w, un, more)
  PROVE  Answered(ready, part, owed, ear, in, p, w, un, more)
<1>a. /\ part \in Nat /\ owed \in Nat /\ in \in Nat /\ un \in Nat /\ p \in Int
      /\ ear \in {0, 1} /\ more \in {0, 1} /\ w \in 0 .. Length - 1
  BY DEF Answering
<1>b. /\ Tally(ready, TRUE, part, owed, ear, in, p, w, un, un)
      /\ ear = 1 => EarlyReply
      /\ \/ more = 0 /\ owed > 0
         \/ more = 1 /\ owed = 0 /\ part > 0 /\ ear = 0 /\ EarlyReply
  BY DEF Answering
<1> DEFINE P == PartOf(w)
<1>1. P \in Nat /\ (w > 0 => P >= 1)
  BY <1>a, PartOfBatch
<1>2. /\ part = w % ReqUnits /\ (ear = 1 => part > 0) /\ ~ready
      /\ p = P + owed + in + un - ear
  BY <1>a, <1>b DEF Tally, Balanced
<1>3. ear = 1 \/ more = 1 => P >= 1
  <2>1. \A b \in Nat : b > 0 => 0 % b = 0
    OBVIOUS
  <2>2. w % ReqUnits > 0 => w > 0
    BY <1>a, <2>1, Numbers
  <2> QED
    BY <1>a, <1>b, <1>1, <1>2, <2>2
<1>4. EarlyReply \/ more = 0
  BY <1>b
<1> HIDE DEF P
<1>5. p >= (in + 1) + un + (IF EarlyReply THEN 0 ELSE P)
  <2>1. CASE EarlyReply
    BY <1>a, <1>b, <1>1, <1>2, <1>3, <2>1
  <2>2. CASE ~EarlyReply
    BY <1>a, <1>b, <1>1, <1>2, <2>2
  <2> QED
    BY <2>1, <2>2
<1>6. p = P + (owed - (1 - more)) + (in + 1) + un - (ear + more)
  BY <1>a, <1>b, <1>1, <1>2
<1>7. ear + more = 1 => part > 0
  BY <1>a, <1>b, <1>2
<1> QED
  BY <1>2, <1>5, <1>6, <1>7 DEF Answered, Tally, Balanced, P

\* The socket is cut: the server answers no more, and responses may be lost.
Cutting(ready, ok, part, owed, ear, in, p, w, rest, un, left) ==
  /\ {in, rest, un, left} \subseteq Nat /\ p \in Int /\ w \in 0 .. Length - 1 /\ left <= in
  /\ Tally(ready, ok, part, owed, ear, in, p, w, rest, un)

LEMMA TallyCut ==
  ASSUME NEW ready, NEW ok, NEW part, NEW owed, NEW ear, NEW in, NEW p, NEW w, NEW rest,
         NEW un, NEW left, NEW late,
         Cutting(ready, ok, part, owed, ear, in, p, w, rest, un, left)
  PROVE  Tally(ready, FALSE, 0, 0, late, left, p, w, rest, un)
<1>a. /\ in \in Nat /\ rest \in Nat /\ un \in Nat /\ left \in Nat /\ p \in Int
      /\ w \in 0 .. Length - 1 /\ left <= in
  BY DEF Cutting
<1>b. Tally(ready, ok, part, owed, ear, in, p, w, rest, un)
  BY DEF Cutting
<1>1. PartOf(w) \in Nat
  BY <1>a, PartOfBatch
<1> DEFINE P == PartOf(w)
<1>2. p >= in + rest + (IF EarlyReply THEN 0 ELSE P)
  BY <1>b DEF Tally
<1>3. ready => left = 0 /\ rest = 0 /\ un = 0
  BY <1>a, <1>b DEF Tally
<1> HIDE DEF P
<1>4. p >= left + rest + (IF EarlyReply THEN 0 ELSE P)
  BY <1>a, <1>1, <1>2 DEF P
<1> QED
  BY <1>3, <1>4 DEF Tally, P

\* k responses are read.
Reading(ready, ok, part, owed, ear, in, p, w, k) ==
  /\ {owed, in} \subseteq Nat /\ ear \in {0, 1} /\ p \in Int /\ w \in 0 .. Length - 1
  /\ k \in 1 .. in /\ Tally(ready, ok, part, owed, ear, in, p, w, 0, 0)

LEMMA TallyRead ==
  ASSUME NEW ready, NEW ok, NEW part, NEW owed, NEW ear, NEW in, NEW p, NEW w, NEW k,
         Reading(ready, ok, part, owed, ear, in, p, w, k)
  PROVE  Tally(ready, ok, part, owed, ear, in - k, p, w, k, k) /\ ~ready
<1>a. /\ owed \in Nat /\ in \in Nat /\ ear \in {0, 1} /\ p \in Int
      /\ w \in 0 .. Length - 1 /\ k \in 1 .. in
  BY DEF Reading
<1>b. Tally(ready, ok, part, owed, ear, in, p, w, 0, 0)
  BY DEF Reading
<1> DEFINE P == PartOf(w)
<1>1. P \in Nat
  BY <1>a, PartOfBatch
<1>2. /\ p >= in + (IF EarlyReply THEN 0 ELSE P) /\ ~ready
      /\ ~ok => owed = 0 /\ part = 0
      /\ ok => /\ part = w % ReqUnits /\ (ear = 1 => part > 0)
               /\ p = P + owed + in - ear
  BY <1>a, <1>b, <1>1 DEF Tally, Balanced
<1> HIDE DEF P
<1>3. p >= (in - k) + k + (IF EarlyReply THEN 0 ELSE P)
  BY <1>a, <1>1, <1>2
<1>4. ok => p = P + owed + (in - k) + k - ear
  BY <1>a, <1>1, <1>2
<1> QED
  BY <1>2, <1>3, <1>4 DEF Tally, Balanced, P

\* One response is parsed; after the last one of a batch that is written the
\* next may start.
Parsing1(ready, ok, part, owed, ear, in, p, w, un, next) ==
  /\ {part, owed, in, un} \subseteq Nat /\ ear \in {0, 1} /\ p \in Int
  /\ w \in 0 .. Length - 1 /\ un > 0
  /\ Tally(ready, ok, part, owed, ear, in, p, w, un, un)
  /\ next <=> (p = 1 /\ w = 0)

LEMMA TallyParse ==
  ASSUME NEW ready, NEW ok, NEW part, NEW owed, NEW ear, NEW in, NEW p, NEW w, NEW un,
         NEW next, Parsing1(ready, ok, part, owed, ear, in, p, w, un, next)
  PROVE  /\ Tally(next, ok, part, owed, ear, in, p - 1, w, un - 1, un - 1)
         /\ ~ready /\ p >= 1 /\ (p = 1 /\ ~EarlyReply => w = 0)
<1>a. /\ part \in Nat /\ owed \in Nat /\ in \in Nat /\ un \in Nat /\ ear \in {0, 1}
      /\ p \in Int /\ w \in 0 .. Length - 1 /\ un > 0
  BY DEF Parsing1
<1>b. /\ Tally(ready, ok, part, owed, ear, in, p, w, un, un)
      /\ next <=> (p = 1 /\ w = 0)
  BY DEF Parsing1
<1> DEFINE P == PartOf(w)
<1>1. P \in Nat /\ (w > 0 => P >= 1) /\ (w = 0 => P = 0)
  BY <1>a, PartOfBatch DEF PartOf
<1>2. /\ p >= in + un + (IF EarlyReply THEN 0 ELSE P) /\ ~ready
      /\ ~ok => owed = 0 /\ part = 0
      /\ ok => /\ part = w % ReqUnits /\ (ear = 1 => part > 0)
               /\ p = P + owed + in + un - ear
  BY <1>a, <1>b, <1>1 DEF Tally, Balanced
<1>3. w = 0 => w % ReqUnits = 0
  <2>1. \A b \in Nat : b > 0 => 0 % b = 0
    OBVIOUS
  <2> QED
    BY <2>1, Numbers
<1> HIDE DEF P
<1>4. p - 1 >= in + (un - 1) + (IF EarlyReply THEN 0 ELSE P)
  BY <1>a, <1>1, <1>2
<1>5. ok => p - 1 = P + owed + in + (un - 1) - ear
  BY <1>a, <1>1, <1>2
<1>6. next => in = 0 /\ un - 1 = 0 /\ owed = 0 /\ part = 0
  <2> SUFFICES ASSUME next PROVE in = 0 /\ un - 1 = 0 /\ owed = 0 /\ part = 0
    OBVIOUS
  <2>1. p = 1 /\ w = 0 /\ P = 0
    BY <1>b, <1>1
  <2>2. in = 0 /\ un = 1
    BY <1>a, <1>2, <2>1
  <2>3. ok => part = 0 /\ ear = 0
    BY <1>a, <1>2, <1>3, <2>1
  <2>4. ok => owed = 0
    BY <1>a, <1>2, <2>1, <2>2, <2>3
  <2> QED
    BY <1>2, <2>2, <2>3, <2>4
<1>7. p >= 1 /\ (p = 1 /\ ~EarlyReply => w = 0)
  BY <1>a, <1>1, <1>2
<1> QED
  BY <1>2, <1>4, <1>5, <1>6, <1>7 DEF Tally, Balanced, P

-----------------------------------------------------------------------------
(***************************************************************************)
(* A connection that watches its socket: e is the entry of the table, s    *)
(* the socket, p, w, lv and ps are its pending, written, live and parser,  *)
(* b what is read of it and not parsed.                                    *)
(***************************************************************************)
Healthy(s) == s.st = "open" /\ ~s.fin
Ready2Write(e, w) == w = 0 /\ W \in e.mask
RestOf(ps, b) == IF ps = "eof" THEN 1 ELSE Len(b)
EarlyOf(s) == IF s.early THEN 1 ELSE 0

\* A response after which the server closes is the last one.
LastIsLast(s, ps, b) ==
  /\ \A i \in 1 .. Len(s.inbox) : s.inbox[i] # "keep" => i = Len(s.inbox) /\ ~Healthy(s)
  /\ \A i \in 1 .. Len(b) : b[i] # "keep" => i = Len(b) /\ s.inbox = <<>> /\ ~Healthy(s)
  /\ ps = "eof" => s.inbox = <<>> /\ ~Healthy(s) /\ (b = <<>> \/ b = <<"end">>)

\* A cycle is open unless the connection may start one, and then it has pending.
Phases(ready, ear, p, lv) ==
  /\ (ready /\ lv) => p = Pipeline
  /\ ~EarlyReply => ear = 0 /\ (~lv => ready) /\ (lv => p \in 1 .. Pipeline)

\* socket_connected has been called for the socket ...
Told(e, s, p, w, lv, ps, b) ==
  /\ W \in e.mask => e.wproc = "socket_writeable"
  /\ w > 0 => W \in e.mask
  /\ s.st = "connecting" => Ready2Write(e, w)
  /\ Tally(Ready2Write(e, w), Healthy(s), s.part, s.owed, EarlyOf(s), Len(s.inbox),
           p, w, RestOf(ps, b), Len(b))
  /\ Phases(Ready2Write(e, w), EarlyOf(s), p, lv)
  /\ LastIsLast(s, ps, b)

\* ... or has not: nothing was sent, and no cycle is open.
Untold(e, s, lv, ps, b) ==
  /\ e.wproc = "socket_connected" /\ W \in e.mask
  /\ ~lv /\ s.owed = 0 /\ s.part = 0 /\ s.inbox = <<>> /\ ~s.early
  /\ b = <<>> \/ ps = "dead"

EntryFits(e, s, p, w, lv, ps, b) ==
  \/ e.rproc = "socket_connected" /\ Untold(e, s, lv, ps, b)
  \/ e.rproc = "socket_readable" /\ Told(e, s, p, w, lv, ps, b)

Parsers == {"start", "mid", "eof", "dead"}
Kinds == Replies \union {"end", "stray"}

LEMMA SocketFields ==
  ASSUME NEW s \in SocketType
  PROVE  /\ s.part \in Nat /\ s.owed \in Nat /\ EarlyOf(s) \in {0, 1}
         /\ s.inbox \in Seq(Replies) /\ Len(s.inbox) \in Nat
         /\ (EarlyOf(s) = 1 <=> s.early)
<1>1. s.part \in 0 .. ReqUnits - 1 /\ s.owed \in Nat /\ s.inbox \in Seq(Replies)
  BY DEF SocketType
<1>2. s.early \in BOOLEAN
  BY DEF SocketType
<1>3. EarlyOf(s) \in {0, 1} /\ (EarlyOf(s) = 1 <=> s.early)
  BY <1>2 DEF EarlyOf
<1> QED
  BY <1>1, <1>3, LenProperties, Numbers

LEMMA NothingAfterZero == 0 % ReqUnits = 0 /\ PartOf(0) = 0
<1>1. \A b \in Nat : b > 0 => 0 % b = 0
  OBVIOUS
<1> QED
  BY <1>1, Numbers DEF PartOf

\* socket_connected registers the handlers and resets parser and written.
LEMMA ToldFirst ==
  ASSUME NEW e, NEW s \in SocketType, NEW lv, NEW ps, Untold(e, s, lv, ps, <<>>),
         NEW h, W \in h.mask, h.wproc = "socket_writeable", NEW p \in Nat
  PROVE  Told(h, s, p, 0, lv, "start", <<>>)
<1>1. s.part = 0 /\ s.owed = 0 /\ s.inbox = <<>> /\ EarlyOf(s) = 0 /\ ~lv
  BY DEF Untold, EarlyOf
<1>2. Ready2Write(h, 0) /\ RestOf("start", <<>>) = 0 /\ Len(<<>>) = 0
  BY DEF Ready2Write, RestOf
<1>3. Tally(TRUE, Healthy(s), 0, 0, 0, 0, p, 0, 0, 0)
  BY NothingAfterZero DEF Tally, Balanced
<1>4. Tally(Ready2Write(h, 0), Healthy(s), s.part, s.owed, EarlyOf(s), Len(s.inbox),
            p, 0, RestOf("start", <<>>), Len(<<>>))
  <2>1. Ready2Write(h, 0) = TRUE
    BY DEF Ready2Write
  <2> QED
    BY <1>1, <1>2, <1>3, <2>1
<1>5. Phases(Ready2Write(h, 0), EarlyOf(s), p, lv)
  BY <1>1, <1>2 DEF Phases
<1>6. LastIsLast(s, "start", <<>>)
  BY <1>1 DEF LastIsLast
<1> QED
  BY <1>2, <1>4, <1>5, <1>6 DEF Told

\* The write that the socket takes.
LEMMA ToldWrite ==
  ASSUME NEW e \in EventType, NEW s \in SocketType, NEW p \in Int,
         NEW w \in 0 .. Length - 1, NEW lv, NEW ps, Told(e, s, p, w, lv, ps, <<>>),
         W \in e.mask, s.st = "open", NEW n \in 1 .. Length - w,
         NEW q, q = (IF w = 0 THEN Pipeline ELSE p), NEW v, v = (w + n) % Length,
         NEW h, h = (IF v = 0 THEN [e EXCEPT !.mask = @ \ {W}] ELSE e)
  PROVE  Told(h, Receive(s, n), q, v, TRUE, ps, <<>>)
<1> DEFINE z == Receive(s, n)
           f == (s.part + n) \div ReqUnits
           ear == EarlyOf(s)
           less == IF ear = 1 /\ f > 0 THEN 1 ELSE 0
           rest == RestOf(ps, <<>>)
           in == Len(s.inbox)
<1>0. /\ Tally(Ready2Write(e, w), Healthy(s), s.part, s.owed, ear, in, p, w, rest, 0)
      /\ Phases(Ready2Write(e, w), ear, p, lv) /\ LastIsLast(s, ps, <<>>)
      /\ e.wproc = "socket_writeable"
  BY DEF Told
<1>1. /\ s.part \in Nat /\ s.owed \in Nat /\ ear \in {0, 1} /\ in \in Nat
      /\ (ear = 1 <=> s.early)
  BY SocketFields
<1>2. w = 0 <=> Ready2Write(e, w)
  BY DEF Ready2Write
<1>3. n \in Nat /\ n > 0 /\ w \in Nat /\ Length \in Nat /\ Length > 0
  BY LengthPositive
<1>4. f \in Nat /\ less \in {0, 1} /\ rest \in Nat
  <2>1. s.part + n \in Nat
    BY <1>1, <1>3
  <2> QED
    BY <2>1, Divides DEF RestOf
<1>5. Len(<<>>) = 0
  OBVIOUS
<1> HIDE DEF f, less, rest, in, ear
<1>6. /\ Healthy(s) => Tally(FALSE, Healthy(s), (s.part + n) % ReqUnits, s.owed + f - less,
                             ear - less, in, q, v, rest, 0)
      /\ ~Healthy(s) => Tally(FALSE, Healthy(s), s.part, s.owed, ear, in, q, v, rest, 0)
  <2> DEFINE ok == Healthy(s)
             ready == Ready2Write(e, w)
             part == s.part
             owed == s.owed
  <2>1. Written(ready, ok, part, owed, ear, in, p, w, rest, 0, n, f, less, q, v)
    BY <1>0, <1>1, <1>2, <1>4 DEF Written, f, less
  <2> HIDE DEF ok, ready, part, owed
  <2>2. Rewritten(ok, part, owed, ear, in, rest, 0, n, f, less, q, v)
    BY ONLY <2>1, TallyWrite
  <2> QED
    BY <2>2 DEF ok, part, owed, Rewritten
<1>7. /\ ~Ready2Write(h, v) /\ (v > 0 => W \in h.mask)
      /\ W \in h.mask => h.wproc = "socket_writeable"
  <2>1. v \in Nat
    <3>1. \A a, b \in Nat : b > 0 => a % b \in Nat
      OBVIOUS
    <3>2. w + n \in Nat
      BY <1>3
    <3> QED
      BY <1>3, <3>1, <3>2
  <2>2. CASE v = 0
    BY <2>2 DEF Ready2Write, EventType
  <2>3. CASE v # 0
    BY <1>0, <2>1, <2>3 DEF Ready2Write
  <2> QED
    BY <2>2, <2>3
<1>8. /\ z.st = "open" /\ z.inbox = s.inbox /\ (z.fin <=> s.fin)
      /\ Healthy(s) => /\ z.part = (s.part + n) % ReqUnits /\ z.owed = s.owed + f - less
                       /\ EarlyOf(z) = ear - less
      /\ ~Healthy(s) => z.part = s.part /\ z.owed = s.owed /\ EarlyOf(z) = ear
  <2>1. CASE s.fin
    BY <2>1 DEF Receive, Healthy, ear
  <2>2. CASE ~s.fin
    <3>1. z = [s EXCEPT !.part = (s.part + n) % ReqUnits,
                        !.owed = @ + f - (IF s.early /\ f > 0 THEN 1 ELSE 0),
                        !.early = @ /\ f = 0]
      BY <2>2 DEF Receive, f
    <3>2. z.early <=> s.early /\ f = 0
      BY <3>1 DEF SocketType
    <3>3. z.owed = s.owed + f - (IF s.early /\ f > 0 THEN 1 ELSE 0)
      BY <3>1 DEF SocketType
    <3>4. less = (IF s.early /\ f > 0 THEN 1 ELSE 0)
      BY <1>1 DEF less
    <3>5. EarlyOf(z) = ear - less
      <4>1. CASE ear = 1
        <5>1. CASE f = 0
          BY <1>1, <3>2, <4>1, <5>1 DEF less, EarlyOf
        <5>2. CASE f > 0
          BY <1>1, <3>2, <4>1, <5>2 DEF less, EarlyOf
        <5> QED
          BY <1>4, <5>1, <5>2
      <4>2. CASE ear = 0
        BY <1>1, <3>2, <4>2 DEF less, EarlyOf
      <4> QED
        BY <1>1, <4>1, <4>2
    <3>6. z.st = s.st /\ z.inbox = s.inbox /\ z.fin = s.fin /\ z.part = (s.part + n) % ReqUnits
      BY <3>1 DEF SocketType
    <3> QED
      BY <2>2, <3>3, <3>4, <3>5, <3>6 DEF Healthy
  <2> QED
    BY <2>1, <2>2
<1> HIDE DEF z
<1>9. Tally(Ready2Write(h, v), Healthy(z), z.part, z.owed, EarlyOf(z), Len(z.inbox),
            q, v, RestOf(ps, <<>>), Len(<<>>))
  <2>1. Ready2Write(h, v) = FALSE /\ Healthy(z) = Healthy(s)
    <3>1. Ready2Write(h, v) \in BOOLEAN /\ Healthy(z) \in BOOLEAN /\ Healthy(s) \in BOOLEAN
      BY DEF Ready2Write, Healthy
    <3>2. Healthy(z) <=> Healthy(s)
      BY <1>8 DEF Healthy
    <3> QED
      BY <1>7, <3>1, <3>2
  <2>2. Len(z.inbox) = in
    BY <1>8 DEF in
  <2>3. CASE Healthy(s)
    BY <1>5, <1>6, <1>8, <2>1, <2>2, <2>3 DEF rest
  <2>4. CASE ~Healthy(s)
    BY <1>5, <1>6, <1>8, <2>1, <2>2, <2>4 DEF rest
  <2> QED
    BY <2>3, <2>4
<1>10. Phases(Ready2Write(h, v), EarlyOf(z), q, TRUE)
  <2>1. ~EarlyReply => EarlyOf(z) = 0
    BY <1>0, <1>1, <1>8 DEF Phases, less
  <2>2. ~EarlyReply => q \in 1 .. Pipeline
    BY <1>0, <1>2, Numbers DEF Phases
  <2> QED
    BY <1>7, <2>1, <2>2 DEF Phases
<1>11. LastIsLast(z, ps, <<>>)
  BY <1>0, <1>8 DEF LastIsLast, Healthy
<1>12. z.st # "connecting"
  BY <1>8
<1> QED
  BY <1>7, <1>9, <1>10, <1>11, <1>12 DEF Told, z

\* The write that the socket does not take yet.
LEMMA ToldRetry ==
  ASSUME NEW e, NEW s \in SocketType, NEW p \in Int,
         NEW w \in 0 .. Length - 1, NEW lv, NEW ps, Told(e, s, p, w, lv, ps, <<>>),
         W \in e.mask, NEW q, q = (IF w = 0 THEN Pipeline ELSE p)
  PROVE  Told(e, s, q, w, TRUE, ps, <<>>)
<1>1. CASE w = 0
  <2>1. Ready2Write(e, w)
    BY <1>1 DEF Told, Ready2Write
  <2>2. Tally(Ready2Write(e, w), Healthy(s), s.part, s.owed, EarlyOf(s), Len(s.inbox),
              q, w, RestOf(ps, <<>>), Len(<<>>))
    BY <1>1, <2>1, Numbers, NothingAfterZero DEF Told, Tally, Balanced
  <2>3. Phases(Ready2Write(e, w), EarlyOf(s), q, TRUE)
    BY <1>1, <2>1, Numbers DEF Told, Phases
  <2> QED
    BY <2>2, <2>3 DEF Told
<1>2. CASE w # 0
  <2>1. ~Ready2Write(e, w) /\ q = p
    BY <1>2 DEF Ready2Write
  <2>2. Phases(Ready2Write(e, w), EarlyOf(s), q, TRUE)
    BY <2>1 DEF Told, Phases
  <2> QED
    BY <2>1, <2>2 DEF Told
<1> QED
  BY <1>1, <1>2

\* The network and the server leave what they have not been sent anything of.
LEMMA UntoldStays ==
  ASSUME NEW e, NEW s, NEW lv, NEW ps, NEW b, Untold(e, s, lv, ps, b),
         NEW z, z.owed = 0, z.part = 0, z.inbox = <<>> \/ z.inbox = s.inbox, ~z.early
  PROVE  Untold(e, z, lv, ps, b)
BY DEF Untold

\* connect() is answered.
LEMMA ToldAnswered ==
  ASSUME NEW e, NEW s \in SocketType, NEW p, NEW w, NEW lv, NEW ps, NEW b,
         Told(e, s, p, w, lv, ps, b), s.st = "connecting",
         NEW z, z.st # "connecting", z.part = 0, z.owed = 0, z.inbox = <<>>, ~z.early
  PROVE  Told(e, z, p, w, lv, ps, b)
<1> DEFINE ready == Ready2Write(e, w)
           old == Healthy(s)
           ok == Healthy(z)
           rest == RestOf(ps, b)
           un == Len(b)
<1>1. ready /\ w = 0 /\ Tally(ready, old, s.part, s.owed, EarlyOf(s), Len(s.inbox), p, w, rest, un)
  BY DEF Told, Ready2Write
<1>2. z.part = 0 /\ z.owed = 0 /\ EarlyOf(z) = 0 /\ Len(z.inbox) = 0 /\ Len(s.inbox) = 0
  <2>1. s.inbox \in Seq(Replies) /\ Len(s.inbox) = 0
    BY <1>1, SocketFields DEF Tally
  <2> QED
    BY <2>1 DEF EarlyOf
<1>3. s.inbox = <<>>
  BY <1>2, SocketFields, EmptySeq
<1> HIDE DEF ready, old, ok, rest, un
<1>4. Tally(ready, ok, 0, 0, 0, 0, p, w, rest, un)
  BY <1>1, <1>2, NothingAfterZero DEF Tally, Balanced
<1>5. Tally(ready, ok, z.part, z.owed, EarlyOf(z), Len(z.inbox), p, w, rest, un)
  BY <1>2, <1>4
<1>6. Phases(ready, EarlyOf(z), p, lv)
  BY <1>2 DEF Told, Phases, ready
<1>7. rest = 0 /\ un = 0
  BY <1>1 DEF Tally
<1>8. LastIsLast(z, ps, b)
  <2>1. ps # "eof" /\ Len(b) = 0
    BY <1>7 DEF rest, un, RestOf
  <2> QED
    BY <1>2, <2>1 DEF LastIsLast
<1>9. /\ W \in e.mask => e.wproc = "socket_writeable"
      /\ w > 0 => W \in e.mask
  BY DEF Told
<1> QED
  BY <1>5, <1>6, <1>8, <1>9 DEF Told, ready, ok, rest, un

\* The server closes, or the connection is reset.
LEMMA ToldCut ==
  ASSUME NEW e, NEW s \in SocketType, NEW p \in Int, NEW w \in 0 .. Length - 1, NEW lv,
         NEW ps, NEW b \in Seq(Kinds), Told(e, s, p, w, lv, ps, b), s.st = "open",
         NEW z, ~Healthy(z), z.st # "connecting", z.part = 0, z.owed = 0,
         z.inbox = <<>> \/ z.inbox = s.inbox, z.early => s.early
  PROVE  Told(e, z, p, w, lv, ps, b)
<1> DEFINE ready == Ready2Write(e, w)
           ok == Healthy(s)
           rest == RestOf(ps, b)
           un == Len(b)
           in == Len(s.inbox)
           left == Len(z.inbox)
<1>1. Tally(ready, ok, s.part, s.owed, EarlyOf(s), in, p, w, rest, un)
  BY DEF Told
<1>2. in \in Nat /\ un \in Nat /\ rest \in Nat /\ left \in Nat /\ left <= in
  <2>1. in \in Nat /\ un \in Nat /\ rest \in Nat
    BY SocketFields, LenProperties DEF RestOf
  <2>2. z.inbox = <<>> => left = 0
    OBVIOUS
  <2>3. z.inbox = s.inbox => left = in
    OBVIOUS
  <2> QED
    BY <2>1, <2>2, <2>3
<1> HIDE DEF ready, ok, rest, un, in, left
<1>3. Tally(ready, FALSE, 0, 0, EarlyOf(z), left, p, w, rest, un)
  <2>1. Cutting(ready, ok, s.part, s.owed, EarlyOf(s), in, p, w, rest, un, left)
    BY <1>1, <1>2 DEF Cutting
  <2> QED
    BY ONLY <2>1, TallyCut
<1>4. Healthy(z) = FALSE
  BY DEF Healthy
<1>5. Phases(ready, EarlyOf(z), p, lv)
  BY DEF Told, Phases, ready, EarlyOf
<1>6. LastIsLast(z, ps, b)
  <2>1. LastIsLast(s, ps, b)
    BY DEF Told
  <2>2. \A i \in 1 .. Len(z.inbox) : z.inbox[i] # "keep" => i = Len(z.inbox)
    <3>1. CASE z.inbox = <<>>
      BY <3>1
    <3>2. CASE z.inbox = s.inbox
      BY <2>1, <3>2 DEF LastIsLast
    <3> QED
      BY <3>1, <3>2
  <2>3. s.inbox = <<>> => z.inbox = <<>>
    OBVIOUS
  <2> QED
    BY <2>1, <2>2, <2>3 DEF LastIsLast
<1>7. /\ W \in e.mask => e.wproc = "socket_writeable"
      /\ w > 0 => W \in e.mask
  BY DEF Told
<1> QED
  BY <1>3, <1>4, <1>5, <1>6, <1>7 DEF Told, ready, rest, un, left

\* A response is sent; after any but a "keep" the server closes.
LEMMA ToldReply ==
  ASSUME NEW e, NEW s \in SocketType, NEW p \in Int, NEW w \in 0 .. Length - 1, NEW lv,
         NEW ps, NEW b \in Seq(Kinds), Told(e, s, p, w, lv, ps, b), Healthy(s),
         NEW more \in {0, 1},
         \/ more = 0 /\ s.owed > 0
         \/ more = 1 /\ s.owed = 0 /\ s.part > 0 /\ ~s.early /\ EarlyReply,
         NEW kind \in Replies, NEW z, z.st = "open", z.inbox = Append(s.inbox, kind),
         z.fin <=> kind # "keep", EarlyOf(z) = EarlyOf(s) + more,
         z.part = (IF kind = "keep" THEN s.part ELSE 0),
         z.owed = (IF kind = "keep" THEN s.owed - (1 - more) ELSE 0)
  PROVE  Told(e, z, p, w, lv, ps, b)
<1> DEFINE ready == Ready2Write(e, w)
           ear == EarlyOf(s)
           un == Len(b)
           in == Len(s.inbox)
<1>0. LastIsLast(s, ps, b) /\ Phases(ready, ear, p, lv)
  BY DEF Told
<1>1. ps # "eof"
  BY <1>0 DEF LastIsLast
<1>2. /\ Tally(ready, TRUE, s.part, s.owed, ear, in, p, w, un, un)
      /\ RestOf(ps, b) = un
  <2>1. Healthy(s) = TRUE
    BY DEF Healthy
  <2>2. RestOf(ps, b) = un
    BY <1>1 DEF RestOf
  <2> QED
    BY <2>1, <2>2 DEF Told
<1>3. /\ s.part \in Nat /\ s.owed \in Nat /\ ear \in {0, 1} /\ in \in Nat
      /\ ear = 1 <=> s.early
  BY SocketFields
<1>4. un \in Nat
  BY LenProperties
<1>5. ear = 1 => EarlyReply
  BY <1>0, <1>3 DEF Phases
<1>6. Len(z.inbox) = in + 1 /\ \A i \in 1 .. in : z.inbox[i] = s.inbox[i]
  BY SocketFields, AppendProperties
<1> HIDE DEF ready, ear, un, in
<1>7. /\ Tally(ready, TRUE, s.part, s.owed - (1 - more), ear + more, in + 1, p, w, un, un)
      /\ Tally(ready, FALSE, 0, 0, ear + more, in + 1, p, w, un, un)
      /\ ~ready
  <2>1. more = 0 \/ (more = 1 /\ s.owed = 0 /\ s.part > 0 /\ ear = 0 /\ EarlyReply)
    BY <1>3
  <2>2. Answering(ready, s.part, s.owed, ear, in, p, w, un, more)
    BY <1>2, <1>3, <1>4, <1>5, <2>1 DEF Answering
  <2>3. Answered(ready, s.part, s.owed, ear, in, p, w, un, more)
    BY ONLY <2>2, TallyReply
  <2> QED
    BY <2>3 DEF Answered
<1>8. Tally(ready, Healthy(z), z.part, z.owed, EarlyOf(z), Len(z.inbox), p, w, un, un)
  <2>1. CASE kind = "keep"
    <3>1. Healthy(z) = TRUE
      BY <2>1 DEF Healthy
    <3> QED
      BY <1>6, <1>7, <2>1, <3>1 DEF ear
  <2>2. CASE kind # "keep"
    <3>1. Healthy(z) = FALSE
      BY <2>2 DEF Healthy
    <3> QED
      BY <1>6, <1>7, <2>2, <3>1 DEF ear
  <2> QED
    BY <2>1, <2>2
<1>9. Phases(ready, EarlyOf(z), p, lv)
  BY <1>0, <1>3, <1>5 DEF Phases, ear
<1>10. LastIsLast(z, ps, b)
  <2>1. \A i \in 1 .. in : z.inbox[i] = "keep"
    BY <1>0, <1>6 DEF LastIsLast, in
  <2>2. \A i \in 1 .. Len(b) : b[i] = "keep"
    BY <1>0 DEF LastIsLast
  <2>3. \A i \in 1 .. Len(z.inbox) : z.inbox[i] # "keep" => i = Len(z.inbox) /\ ~Healthy(z)
    <3> SUFFICES ASSUME NEW i \in 1 .. Len(z.inbox), z.inbox[i] # "keep"
                 PROVE  i = Len(z.inbox) /\ ~Healthy(z)
      OBVIOUS
    <3>1. i = in + 1
      BY <1>3, <1>6, <2>1
    <3>2. z.inbox[in + 1] = kind
      BY SocketFields, AppendProperties DEF in
    <3> QED
      BY <1>6, <3>1, <3>2 DEF Healthy
  <2> QED
    BY <1>1, <2>2, <2>3 DEF LastIsLast
<1>11. /\ W \in e.mask => e.wproc = "socket_writeable"
       /\ w > 0 => W \in e.mask
  BY DEF Told
<1> QED
  BY <1>2, <1>8, <1>9, <1>10, <1>11 DEF Told, ready, un

\* k responses are read; nothing was left to be parsed.
LEMMA ToldRead ==
  ASSUME NEW e, NEW s \in SocketType, NEW p \in Int, NEW w \in 0 .. Length - 1, NEW lv,
         NEW ps, Told(e, s, p, w, lv, ps, <<>>), NEW k \in 1 .. Len(s.inbox),
         NEW z, z = [s EXCEPT !.inbox = SubSeq(@, k + 1, Len(@))],
         NEW b, b = SubSeq(s.inbox, 1, k)
  PROVE  Told(e, z, p, w, lv, ps, b)
<1> DEFINE ready == Ready2Write(e, w)
           ear == EarlyOf(s)
           in == Len(s.inbox)
           ok == Healthy(s)
<1>0. LastIsLast(s, ps, <<>>) /\ Phases(ready, ear, p, lv)
  BY DEF Told
<1>1. s.inbox \in Seq(Replies) /\ in \in Nat /\ k \in 1 .. in /\ s.inbox # <<>>
      /\ s.owed \in Nat /\ ear \in {0, 1}
  BY SocketFields
<1>2. ps # "eof" /\ RestOf(ps, <<>>) = 0 /\ Len(<<>>) = 0
  BY <1>0, <1>1 DEF LastIsLast, RestOf
<1>3. /\ z.part = s.part /\ z.owed = s.owed /\ (z.early <=> s.early) /\ (z.fin <=> s.fin)
      /\ z.st = s.st /\ z.inbox = SubSeq(s.inbox, k + 1, in)
  BY DEF SocketType
<1>4. /\ Len(b) = k /\ \A i \in 1 .. k : b[i] = s.inbox[i]
      /\ Len(z.inbox) = in - k /\ \A i \in 1 .. in - k : z.inbox[i] = s.inbox[i + k]
  <2> DEFINE a == s.inbox
             c == SubSeq(a, k + 1, in)
  <2>1. a \in Seq(Replies) /\ Len(a) = in
    BY <1>1
  <2> HIDE DEF a, in
  <2>0. in \in Nat /\ k \in Nat /\ k >= 1 /\ k <= in
    BY <1>1
  <2>2. /\ Len(SubSeq(a, 1, k)) = k /\ \A i \in 1 .. k : SubSeq(a, 1, k)[i] = a[i]
    BY ONLY <2>0, <2>1
  <2>3. Len(c) = in - k /\ \A i \in 1 .. in - k : c[i] = a[i + k]
    <3>1. Len(c) = in - k
      BY ONLY <2>0, <2>1
    <3>2. ASSUME NEW i \in 1 .. in - k PROVE c[i] = a[i + k]
      <4>1. i + k = (k + 1) + i - 1 /\ i \in 1 .. in - (k + 1) + 1
        BY ONLY <2>0, <3>2
      <4> QED
        BY ONLY <2>0, <2>1, <4>1
    <3> QED
      BY ONLY <3>1, <3>2
  <2> QED
    BY <1>3, <2>2, <2>3 DEF a
<1>5. k = in => z.inbox = <<>>
  <2> DEFINE c == z.inbox
  <2>1. c \in Seq(Replies)
    <3>1. SubSeq(s.inbox, k + 1, Len(s.inbox)) \in Seq(Replies)
      BY <1>1
    <3> QED
      BY <1>3, <3>1
  <2>2. k = in => Len(c) = 0
    BY <1>1, <1>4
  <2> HIDE DEF c
  <2>3. Len(c) = 0 => c = <<>>
    BY <2>1, EmptySeq
  <2> QED
    BY <2>2, <2>3 DEF c
<1>6. Healthy(z) = Healthy(s) /\ EarlyOf(z) = ear
  <2>1. Healthy(z) \in BOOLEAN /\ Healthy(s) \in BOOLEAN /\ (Healthy(z) <=> Healthy(s))
    BY <1>3 DEF Healthy
  <2>2. EarlyOf(z) = ear
    BY <1>3 DEF EarlyOf
  <2> QED
    BY <2>1, <2>2
<1>7. Tally(ready, ok, s.part, s.owed, ear, in, p, w, 0, 0)
  BY <1>2 DEF Told
<1> HIDE DEF ready, ear, in, ok
<1>8. Reading(ready, ok, s.part, s.owed, ear, in, p, w, k)
  BY <1>1, <1>7 DEF Reading
<1>9. Tally(ready, ok, s.part, s.owed, ear, in - k, p, w, k, k)
  BY ONLY <1>8, TallyRead
<1>10. Tally(ready, Healthy(z), z.part, z.owed, EarlyOf(z), Len(z.inbox), p, w,
             RestOf(ps, b), Len(b))
  <2>1. RestOf(ps, b) = k
    BY <1>2, <1>4 DEF RestOf
  <2> QED
    BY <1>3, <1>4, <1>6, <1>9, <2>1 DEF ok
<1>11. LastIsLast(z, ps, b)
  <2>1. \A i \in 1 .. in : s.inbox[i] # "keep" => i = in /\ ~Healthy(s)
    BY <1>0 DEF LastIsLast, in
  <2>2. \A i \in 1 .. Len(z.inbox) : z.inbox[i] # "keep" => i = Len(z.inbox) /\ ~Healthy(z)
    <3> SUFFICES ASSUME NEW i \in 1 .. Len(z.inbox), z.inbox[i] # "keep"
                 PROVE  i = Len(z.inbox) /\ ~Healthy(z)
      OBVIOUS
    <3>0. i \in 1 .. in - k
      BY ONLY <1>4, Len(z.inbox) = in - k, i \in 1 .. Len(z.inbox)
    <3>a. z.inbox[i] = s.inbox[i + k]
      BY ONLY <1>4, <3>0
    <3>1. i + k \in 1 .. in /\ s.inbox[i + k] # "keep" /\ i \in Nat
      <4>1. i + k \in 1 .. in /\ i \in Nat
        BY ONLY <1>1, <3>0
      <4>2. s.inbox[i + k] # "keep"
        BY ONLY <3>a, z.inbox[i] # "keep"
      <4> QED
        BY <4>1, <4>2
    <3>2. i + k = in /\ ~Healthy(s)
      BY <2>1, <3>1
    <3>3. Len(z.inbox) = in - k
      BY <1>4
    <3>4. in \in Nat /\ k \in Nat /\ i \in Nat /\ i + k = in
      BY <1>1, <3>1, <3>2
    <3> QED
      BY ONLY <1>6, <3>2, <3>3, <3>4
  <2>3. \A i \in 1 .. Len(b) : b[i] # "keep" => i = Len(b) /\ z.inbox = <<>> /\ ~Healthy(z)
    <3> SUFFICES ASSUME NEW i \in 1 .. Len(b), b[i] # "keep"
                 PROVE  i = Len(b) /\ z.inbox = <<>> /\ ~Healthy(z)
      OBVIOUS
    <3>0. i \in 1 .. k
      BY ONLY <1>4, i \in 1 .. Len(b)
    <3>a. b[i] = s.inbox[i]
      BY ONLY <1>4, <3>0
    <3>1. i \in 1 .. k /\ i \in 1 .. in /\ s.inbox[i] # "keep"
      BY <1>1, <3>0, <3>a
    <3>2. i = in /\ ~Healthy(s)
      BY <2>1, <3>1
    <3>3. k = in
      BY <1>1, <3>1, <3>2
    <3> QED
      BY <1>4, <1>5, <1>6, <3>2, <3>3
  <2> QED
    BY <1>2, <2>2, <2>3 DEF LastIsLast
<1>12. /\ W \in e.mask => e.wproc = "socket_writeable"
       /\ w > 0 => W \in e.mask
       /\ s.st = "connecting" => ready
  BY DEF Told, ready
<1>13. Phases(ready, EarlyOf(z), p, lv)
  BY <1>0, <1>6
<1> QED
  BY <1>3, <1>10, <1>11, <1>12, <1>13 DEF Told, ready

\* The beginning of a response is read.
LEMMA ToldMiddle ==
  ASSUME NEW e, NEW s, NEW p, NEW w, NEW lv, NEW ps, NEW b, Told(e, s, p, w, lv, ps, b),
         ps # "eof", NEW qs, qs # "eof"
  PROVE  Told(e, s, p, w, lv, qs, b)
<1>1. RestOf(ps, b) = RestOf(qs, b)
  BY DEF RestOf
<1>2. LastIsLast(s, qs, b)
  BY DEF Told, LastIsLast
<1> QED
  BY <1>1, <1>2 DEF Told

\* The end of the stream is read.
LEMMA ToldEnd ==
  ASSUME NEW e, NEW s, NEW p \in Int, NEW w, NEW lv, Told(e, s, p, w, lv, "eof", <<>>)
  PROVE  Told(e, s, p, w, lv, "eof", <<"end">>)
<1> DEFINE ready == Ready2Write(e, w)
           ok == Healthy(s)
<1>1. /\ LastIsLast(s, "eof", <<>>)
      /\ Tally(ready, ok, s.part, s.owed, EarlyOf(s), Len(s.inbox), p, w, 1, 0)
  BY DEF Told, RestOf
<1>2. ~ok /\ s.inbox = <<>>
  BY <1>1 DEF LastIsLast
<1>3. RestOf("eof", <<"end">>) = 1 /\ Len(<<"end">>) = 1
  BY DEF RestOf
<1> HIDE DEF ready, ok
<1>4. Tally(ready, ok, s.part, s.owed, EarlyOf(s), Len(s.inbox), p, w, 1, 1)
  BY <1>1, <1>2 DEF Tally
<1>5. LastIsLast(s, "eof", <<"end">>)
  BY <1>1, <1>2, <1>3 DEF LastIsLast, ok
<1> QED
  BY <1>3, <1>4, <1>5 DEF Told, ready, ok

\* The headers of a response without a length are parsed.
LEMMA ToldHeaders ==
  ASSUME NEW e, NEW s, NEW p \in Int, NEW w, NEW lv, NEW ps, NEW b \in Seq(Kinds),
         Told(e, s, p, w, lv, ps, b), b # <<>>, Head(b) = "eof"
  PROVE  Told(e, s, p, w, lv, "eof", Tail(b))
<1> DEFINE ready == Ready2Write(e, w)
           ok == Healthy(s)
<1>0. LastIsLast(s, ps, b)
  BY DEF Told
<1>1. Len(b) \in Nat /\ Len(b) > 0 /\ b[1] = "eof"
  BY LenProperties, EmptySeq
<1>2. Len(b) = 1 /\ s.inbox = <<>> /\ ~ok
  BY <1>0, <1>1 DEF LastIsLast
<1>3. ps # "eof"
  <2>1. <<"end">>[1] = "end"
    OBVIOUS
  <2> QED
    BY <1>0, <1>1, <2>1 DEF LastIsLast
<1>4. Tail(b) = <<>>
  <2> DEFINE t == Tail(b)
  <2>1. t \in Seq(Kinds) /\ Len(t) = Len(b) - 1
    BY HeadTailProperties
  <2> HIDE DEF t
  <2>2. Len(t) = 0
    BY <1>2, <2>1
  <2>3. t = <<>>
    BY ONLY <2>1, <2>2, EmptySeq
  <2> QED
    BY <2>3 DEF t
<1>5. Tally(ready, ok, s.part, s.owed, EarlyOf(s), Len(s.inbox), p, w, 1, 1)
  BY <1>2, <1>3 DEF Told, RestOf
<1>6. RestOf("eof", <<>>) = 1 /\ Len(<<>>) = 0
  BY DEF RestOf
<1> HIDE DEF ready, ok
<1>7. Tally(ready, ok, s.part, s.owed, EarlyOf(s), Len(s.inbox), p, w, 1, 0)
  BY <1>2, <1>5 DEF Tally
<1>8. LastIsLast(s, "eof", <<>>)
  BY <1>2, <1>6 DEF LastIsLast, ok
<1> QED
  BY <1>4, <1>6, <1>7, <1>8 DEF Told, ready, ok

\* A response is parsed to its end; after the last one of a cycle the
\* connection may write again.
LEMMA ToldParse ==
  ASSUME NEW e, NEW s \in SocketType, NEW p \in Int, NEW w \in 0 .. Length - 1,
         NEW lv, NEW ps, NEW b \in Seq(Kinds), Told(e, s, p, w, lv, ps, b), b # <<>>,
         Head(b) = "keep",
         NEW h, IF p = 1 THEN W \in h.mask /\ h.wproc = "socket_writeable" ELSE h = e
  PROVE  /\ Told(h, s, p - 1, w, lv /\ p # 1, "start", Tail(b))
         /\ p >= 1 /\ (~EarlyReply => lv)
<1> DEFINE ready == Ready2Write(e, w)
           ok == Healthy(s)
           ear == EarlyOf(s)
           in == Len(s.inbox)
           un == Len(b)
           next == p = 1 /\ w = 0
<1>0. LastIsLast(s, ps, b) /\ Phases(ready, ear, p, lv)
  BY DEF Told
<1>1. un \in Nat /\ un > 0 /\ b[1] = "keep"
  BY LenProperties, EmptySeq
<1>2. ps # "eof"
  <2>1. <<"end">>[1] = "end"
    OBVIOUS
  <2> QED
    BY <1>0, <1>1, <2>1 DEF LastIsLast
<1>3. /\ Tail(b) \in Seq(Kinds) /\ Len(Tail(b)) = un - 1
      /\ \A i \in 1 .. un - 1 : Tail(b)[i] = b[i + 1]
  BY HeadTailProperties
<1>4. Tally(ready, ok, s.part, s.owed, ear, in, p, w, un, un)
  BY <1>2 DEF Told, RestOf
<1>5. s.part \in Nat /\ s.owed \in Nat /\ ear \in {0, 1} /\ in \in Nat
  BY SocketFields
<1> HIDE DEF ready, ok, ear, in, un
<1>6. Parsing1(ready, ok, s.part, s.owed, ear, in, p, w, un, next)
  BY <1>1, <1>4, <1>5 DEF Parsing1
<1> HIDE DEF next
<1>7. /\ Tally(next, ok, s.part, s.owed, ear, in, p - 1, w, un - 1, un - 1)
      /\ ~ready /\ p >= 1 /\ (p = 1 /\ ~EarlyReply => w = 0)
  BY ONLY <1>6, TallyParse
<1>8. Ready2Write(h, w) = next
  <2>1. Ready2Write(h, w) \in BOOLEAN /\ next \in BOOLEAN
    BY DEF Ready2Write, next
  <2>2. Ready2Write(h, w) <=> next
    <3>1. CASE p = 1
      BY <3>1 DEF Ready2Write, next
    <3>2. CASE p # 1
      BY <1>7, <3>2 DEF Ready2Write, next, ready
    <3> QED
      BY <3>1, <3>2
  <2> QED
    BY <2>1, <2>2
<1>9. RestOf("start", Tail(b)) = un - 1
  BY <1>3 DEF RestOf
<1>10. LastIsLast(s, "start", Tail(b))
  <2>1. \A i \in 1 .. Len(Tail(b)) :
          Tail(b)[i] # "keep" => i = Len(Tail(b)) /\ s.inbox = <<>> /\ ~Healthy(s)
    <3> SUFFICES ASSUME NEW i \in 1 .. un - 1, b[i + 1] # "keep"
                 PROVE  i = un - 1 /\ s.inbox = <<>> /\ ~Healthy(s)
      BY <1>3
    <3>1. i + 1 \in 1 .. Len(b)
      BY <1>1 DEF un
    <3>2. i + 1 = Len(b) /\ s.inbox = <<>> /\ ~Healthy(s)
      BY <1>0, <3>1 DEF LastIsLast
    <3> QED
      BY <1>1, <3>2 DEF un
  <2> QED
    BY <1>0, <2>1 DEF LastIsLast
<1>11. Phases(next, ear, p - 1, lv /\ p # 1)
  BY <1>0, <1>7, Numbers DEF Phases, next
<1>12. /\ W \in h.mask => h.wproc = "socket_writeable"
       /\ w > 0 => W \in h.mask
       /\ s.st # "connecting"
  BY <1>7 DEF Told, ready
<1>13. ~EarlyReply => lv
  BY <1>0, <1>7 DEF Phases
<1>14. Told(h, s, p - 1, w, lv /\ p # 1, "start", Tail(b))
  BY <1>3, <1>7, <1>8, <1>9, <1>10, <1>11, <1>12 DEF Told, ok, ear, in
<1> QED
  BY <1>7, <1>13, <1>14

-----------------------------------------------------------------------------
(***************************************************************************)
(* The inductive invariant, and what a step shows to keep it.              *)
(***************************************************************************)
WatchesIn(table, owner, c) ==
  owner[c] \in Fds /\ table[owner[c]].mask # {} /\ table[owner[c]].data = c
Watches(c) == WatchesIn(events, fd, c)
Buf(c) == IF input.c = c THEN input.buf ELSE <<>>

\* A connection that watches a socket is in step with it; another has no cycle.
ConnFits(c) ==
  /\ pending[c] >= 0
  /\ ~Watches(c) => ~live[c]
  /\ Watches(c) => EntryFits(events[fd[c]], sock[fd[c]], pending[c], written[c],
                             live[c], parser[c], Buf(c))

\* While responses are parsed, no other connection watches the descriptor.
ParsesOwn ==
  pc = "parse" /\ events[fd[input.c]].mask # {} => events[fd[input.c]].data = input.c

\* No other thread uses a number that it has closed, as none does whose connects
\* succeed: the second half takes a process in which this holds all the time.
Undisturbed == strays = {}

Cycles == /\ \A c \in Conns : ConnFits(c)
          /\ ParsesOwn
          /\ pc # "parse" => input.c = NoConn
          /\ touched = {}

\* The sockets and the events, when no other thread has touched them.
LEMMA OwnsEvents == ASSUME Together, Cycles PROVE TypeOK /\ Owns(events, sock, fd, {})
BY DEF Together, Typed, Cycles, Owned

\* The state of the closed loop.
Tells(c) == Watches(c) /\ events[fd[c]].rproc = "socket_readable"
Phase(c) == IF live[c] THEN "busy" ELSE IF Tells(c) THEN "idle" ELSE "down"
Due(c) == IF live[c] THEN pending[c] ELSE 0

Stays(c) == Phase(c)' = Phase(c) /\ Due(c)' = Due(c)
Rises(c) == Phase(c) = "down" /\ Phase(c)' = "idle" /\ Due(c)' = Due(c)
Issues(c) == Phase(c) = "idle" /\ Phase(c)' = "busy" /\ Due(c)' = Pipeline
Takes(c) == /\ Phase(c) = "busy" /\ Due(c) > 0 /\ Due(c)' = Due(c) - 1
            /\ Phase(c)' = IF Due(c) = 1 THEN "idle" ELSE "busy"
Falls(c) == Phase(c) # "down" /\ Phase(c)' = "down" /\ Due(c)' = 0
Moves(c) == Stays(c) \/ Rises(c) \/ Issues(c) \/ Takes(c) \/ Falls(c)

\* What a step leaves of a connection that it is not about.
Same(c) ==
  /\ pending'[c] = pending[c] /\ written'[c] = written[c] /\ live'[c] = live[c]
  /\ parser'[c] = parser[c] /\ Buf(c)' = Buf(c) /\ fd'[c] = fd[c]
  /\ Watches(c)' <=> Watches(c)
  /\ Watches(c) => events'[fd[c]] = events[fd[c]] /\ sock'[fd[c]] = sock[fd[c]]

StepOf(c) == /\ ConnFits(c)' /\ (EarlyReply \/ Moves(c))
             /\ \A x \in Conns \ {c} : Same(x)

LEMMA SameFits ==
  ASSUME NEW c, ConnFits(c), Same(c) PROVE ConnFits(c)' /\ Stays(c)
<1>1. ConnFits(c)'
  <2>1. CASE Watches(c)
    <3>1. Watches(c)' /\ fd'[c] = fd[c] /\ events'[fd[c]] = events[fd[c]]
          /\ sock'[fd[c]] = sock[fd[c]]
      BY <2>1 DEF Same
    <3>2. EntryFits(events'[fd'[c]], sock'[fd'[c]], pending'[c], written'[c],
                    live'[c], parser'[c], Buf(c)')
      BY <2>1, <3>1 DEF Same, ConnFits
    <3> QED
      BY <3>1, <3>2 DEF Same, ConnFits
  <2>2. CASE ~Watches(c)
    BY <2>2 DEF Same, ConnFits
  <2> QED
    BY <2>1, <2>2
<1>2. Tells(c)' <=> Tells(c)
  BY DEF Same, Tells
<1>3. Stays(c)
  BY <1>2 DEF Stays, Phase, Due, Same
<1> QED
  BY <1>1, <1>3

\* A connection that has just been opened, or could not be.
Newly(c) ==
  Watches(c)' => /\ events'[fd'[c]] = [mask |-> {R, W}, rproc |-> "socket_connected",
                                       wproc |-> "socket_connected", data |-> c]
                 /\ sock'[fd'[c]] = Socket("connecting")

LEMMA NewlyFits ==
  ASSUME NEW c, Newly(c), ~live'[c], pending'[c] >= 0,
         Buf(c)' = <<>> \/ parser'[c] = "dead"
  PROVE  ConnFits(c)' /\ Phase(c)' = "down" /\ Due(c)' = 0
<1>1. ASSUME Watches(c)'
      PROVE  EntryFits(events'[fd'[c]], sock'[fd'[c]], pending'[c], written'[c],
                       live'[c], parser'[c], Buf(c)')
  BY <1>1 DEF Newly, EntryFits, Untold, Socket
<1>2. ConnFits(c)'
  BY <1>1 DEF ConnFits
<1>3. ~Tells(c)'
  BY DEF Newly, Tells
<1> QED
  BY <1>2, <1>3 DEF Phase, Due

\* What opening a socket for c leaves of another connection.
KeptFor(x, open, table) ==
  /\ fd'[x] = fd[x]
  /\ WatchesIn(events', fd', x) <=> WatchesIn(table, fd, x)
  /\ WatchesIn(table, fd, x) => events'[fd[x]] = table[fd[x]] /\ sock'[fd[x]] = open[fd[x]]

LEMMA ConnectKeeps ==
  ASSUME TypeOK, NEW c \in Conns, NEW open \in [Fds -> SocketType],
         NEW table \in [Fds -> EventType], NEW count,
         \A f \in Fds : table[f].mask # {} => table[f].data # c,
         connect_socket(c, open, table, count)
  PROVE  Newly(c) /\ \A x \in Conns \ {c} : KeptFor(x, open, table)
<1>1. fd \in [Conns -> Fds \union {NoFd}]
  BY TypeFacts
<1>2. ASSUME NEW f \in Fds, Connects(c, f, open, table)
      PROVE  Newly(c) /\ \A x \in Conns \ {c} : KeptFor(x, open, table)
  <2>1. /\ fd'[c] = f /\ \A x \in Conns \ {c} : fd'[x] = fd[x]
        /\ \A g \in Fds \ {f} : sock'[g] = open[g] /\ events'[g] = table[g]
        /\ sock'[f] = Socket("connecting")
        /\ events'[f] = [mask |-> {R, W}, rproc |-> "socket_connected",
                         wproc |-> "socket_connected", data |-> c]
    BY <1>1, <1>2 DEF Connects
  <2>2. table[f].mask = {}
    BY <1>2 DEF Connects
  <2>3. ASSUME NEW x \in Conns \ {c} PROVE KeptFor(x, open, table)
    <3>1. fd'[x] = fd[x]
      BY <2>1
    <3>2. CASE fd[x] \in Fds /\ fd[x] # f
      <4>1. events'[fd[x]] = table[fd[x]] /\ sock'[fd[x]] = open[fd[x]]
        BY <2>1, <3>2
      <4> QED
        BY <3>1, <4>1 DEF KeptFor, WatchesIn
    <3>3. CASE fd[x] = f
      <4>1. ~WatchesIn(table, fd, x)
        BY <2>2, <3>3 DEF WatchesIn
      <4>2. events'[f].data = c
        BY <2>1
      <4>3. ~WatchesIn(events', fd', x)
        BY <3>1, <3>3, <4>2 DEF WatchesIn
      <4> QED
        BY <3>1, <4>1, <4>3 DEF KeptFor
    <3>4. CASE fd[x] \notin Fds
      BY <3>1, <3>4 DEF KeptFor, WatchesIn
    <3> QED
      BY <3>2, <3>3, <3>4
  <2> QED
    BY <2>1, <2>3 DEF Newly
<1>3. CASE Disconnects(open, table)
  <2>1. sock' = open /\ events' = table /\ fd' = fd
    BY <1>3 DEF Disconnects
  <2>2. ~Watches(c)'
    BY <2>1 DEF Watches, WatchesIn
  <2> QED
    BY <2>1, <2>2 DEF Newly, KeptFor
<1> QED
  BY <1>2, <1>3, ConnectCases

\* Opening it again: nobody else watches the descriptor it closes.
LEMMA ReconnectKeeps ==
  ASSUME TypeOK, NEW c \in Conns, fd[c] \in Fds, NEW table \in [Fds -> EventType], NEW count,
         Owns(table, sock, fd, {}), table[fd[c]].mask # {} => table[fd[c]].data = c,
         \A g \in Fds : g # fd[c] => table[g] = events[g],
         events[fd[c]].mask # {} => events[fd[c]].data = c,
         reconnect_socket(c, table, count)
  PROVE  /\ Newly(c) /\ ~live'[c]
         /\ \A x \in Conns \ {c} : KeptFor(x, sock, events) /\ live'[x] = live[x]
<1> DEFINE open == [sock EXCEPT ![fd[c]] = Socket("free")]
           cleared == aeDeleteFileEvent(table, fd[c], {R, W})
<1>1. sock \in [Fds -> SocketType] /\ live \in [Conns -> BOOLEAN]
  BY TypeFacts
<1>2. /\ open \in [Fds -> SocketType] /\ \A g \in Fds : g # fd[c] => open[g] = sock[g]
      /\ open[fd[c]] = Socket("free")
  BY <1>1, SocketTyped DEF States
<1>3. cleared \in [Fds -> EventType]
  BY DeleteTyped
<1>4. \A g \in Fds : g # fd[c] => cleared[g] = table[g]
  BY DEF aeDeleteFileEvent
<1>5. cleared[fd[c]].mask = {}
  <2>1. \A g \in Fds : table[g].mask \ {R, W} = {}
    BY DEF EventType
  <2> QED
    BY <2>1 DEF aeDeleteFileEvent, EventType
<1>6. connect_socket(c, open, cleared, count) /\ live' = [live EXCEPT ![c] = FALSE]
  BY DEF reconnect_socket
<1> HIDE DEF open, cleared
<1>8. \A f \in Fds : cleared[f].mask # {} => cleared[f].data # c
  BY <1>4, <1>5 DEF Owns
<1>9. Newly(c) /\ \A x \in Conns \ {c} : KeptFor(x, open, cleared)
  BY <1>2, <1>3, <1>6, <1>8, ConnectKeeps
<1>10. ~live'[c] /\ \A x \in Conns \ {c} : live'[x] = live[x]
  BY <1>1, <1>6
<1>11. ASSUME NEW x \in Conns \ {c} PROVE KeptFor(x, sock, events)
  <2>1. KeptFor(x, open, cleared)
    BY <1>9
  <2>2. CASE fd[x] = fd[c]
    <3>1. ~WatchesIn(cleared, fd, x)
      BY <1>5, <2>2 DEF WatchesIn
    <3>2. ~WatchesIn(events, fd, x)
      BY <2>2 DEF WatchesIn
    <3> QED
      BY <2>1, <3>1, <3>2 DEF KeptFor
  <2>3. CASE fd[x] \in Fds /\ fd[x] # fd[c]
    <3>1. cleared[fd[x]] = events[fd[x]] /\ open[fd[x]] = sock[fd[x]]
      BY <1>2, <1>4, <2>3
    <3>2. WatchesIn(cleared, fd, x) <=> WatchesIn(events, fd, x)
      BY <3>1 DEF WatchesIn
    <3> QED
      BY <2>1, <3>1, <3>2 DEF KeptFor
  <2>4. CASE fd[x] \notin Fds
    BY <2>1, <2>4 DEF KeptFor, WatchesIn
  <2> QED
    BY <2>2, <2>3, <2>4
<1> QED
  BY <1>9, <1>10, <1>11

LEMMA KeptSame ==
  ASSUME NEW x, KeptFor(x, sock, events), pending'[x] = pending[x], written'[x] = written[x],
         live'[x] = live[x], parser'[x] = parser[x], Buf(x)' = Buf(x)
  PROVE  Same(x)
BY DEF KeptFor, Same, Watches

\* A handler of c that opens no socket leaves the others alone.
LEMMA OthersKept ==
  ASSUME NEW c, NEW f \in Fds, fd' = fd, fd[c] = f,
         \A g \in Fds \ {f} : events'[g] = events[g] /\ sock'[g] = sock[g],
         events[f].data = c, events'[f].data = c, NEW x, x # c
  PROVE  KeptFor(x, sock, events)
BY DEF KeptFor, WatchesIn

\* What a handler finds: the connection watches the socket, nothing is read.
LEMMA CalledCycles ==
  ASSUME NEW c, NEW f, Called(c, f), Cycles
  PROVE  /\ c \in Conns /\ f \in Fds /\ fd[c] = f /\ events[f].data = c /\ TypeOK
         /\ Watches(c) /\ \A x \in Conns : Buf(x) = <<>>
         /\ EntryFits(events[f], sock[f], pending[c], written[c], live[c], parser[c], <<>>)
         /\ \A x \in Conns : ConnFits(x)
         /\ Owns(events, sock, fd, {}) /\ Open(sock[f]) /\ R \in events[f].mask
<1>1. /\ TypeOK /\ c \in Conns /\ f \in Fds /\ fd[c] = f /\ events[f].data = c
      /\ events[f].mask # {} /\ pc = "files"
  BY CalledFacts DEF Called, Watched
<1>2. \A x \in Conns : Buf(x) = <<>>
  BY <1>1, Numbers DEF Cycles, Buf
<1>3. Watches(c)
  BY <1>1 DEF Watches, WatchesIn
<1>4. Owns(events, sock, fd, {})
  BY OwnsEvents DEF Called
<1>5. Open(sock[f]) /\ R \in events[f].mask
  BY <1>1, <1>4 DEF Owns
<1> QED
  BY <1>1, <1>2, <1>3, <1>4, <1>5 DEF Cycles, ConnFits

\* A handler that opens a new socket.
LEMMA ReconnectSteps ==
  ASSUME NEW c, NEW f, Called(c, f), Cycles, NEW count,
         reconnect_socket(c, events, count), pending'[c] >= 0,
         \A x \in Conns \ {c} : pending'[x] = pending[x] /\ written'[x] = written[x],
         UNCHANGED <<parser, input>>
  PROVE  StepOf(c)
<1>1. /\ c \in Conns /\ f \in Fds /\ fd[c] = f /\ events[f].data = c /\ TypeOK
      /\ \A x \in Conns : Buf(x) = <<>>
  BY CalledCycles
<1>2. events \in [Fds -> EventType] /\ Owns(events, sock, fd, {})
  BY CalledCycles, TypeFacts
<1>3. /\ Newly(c) /\ ~live'[c]
      /\ \A x \in Conns \ {c} : KeptFor(x, sock, events) /\ live'[x] = live[x]
  BY <1>1, <1>2, ReconnectKeeps
<1>4. \A x \in Conns : Buf(x)' = Buf(x)
  BY DEF Buf
<1>5. ConnFits(c)' /\ Phase(c)' = "down" /\ Due(c)' = 0
  BY <1>1, <1>3, <1>4, NewlyFits
<1>6. Moves(c)
  <2>1. CASE Phase(c) = "down"
    <3>1. ~live[c]
      BY <2>1 DEF Phase
    <3> QED
      BY <1>5, <2>1, <3>1 DEF Moves, Stays, Due
  <2>2. CASE Phase(c) # "down"
    BY <1>5, <2>2 DEF Moves, Falls
  <2> QED
    BY <2>1, <2>2
<1>7. ASSUME NEW x \in Conns \ {c} PROVE Same(x)
  BY <1>3, <1>4, KeptSame
<1> QED
  BY <1>5, <1>6, <1>7 DEF StepOf

LEMMA SocketConnectedSteps ==
  ASSUME NEW c, NEW f, Called(c, f), Cycles, socket_connected(c, f),
         \/ events[f].rproc = "socket_connected"
         \/ W \in events[f].mask /\ events[f].wproc = "socket_connected"
  PROVE  StepOf(c)
<1>0. pc' = "files" /\ UNCHANGED <<pending, input>>
  BY DEF socket_connected
<1>1. /\ c \in Conns /\ f \in Fds /\ fd[c] = f /\ events[f].data = c /\ TypeOK
      /\ Watches(c) /\ \A x \in Conns : Buf(x) = <<>>
      /\ EntryFits(events[f], sock[f], pending[c], written[c], live[c], parser[c], <<>>)
      /\ \A x \in Conns : ConnFits(x)
  BY CalledCycles
<1>2. /\ events \in [Fds -> EventType] /\ sock \in [Fds -> SocketType]
      /\ pending \in [Conns -> Int] /\ parser \in [Conns -> Parsers]
      /\ written \in [Conns -> 0 .. Length - 1] /\ live \in [Conns -> BOOLEAN]
  BY <1>1, TypeFacts DEF Parsers
<1>3. \A x \in Conns : Buf(x)' = Buf(x)
  BY <1>0 DEF Buf
<1>4. pending[c] \in Nat
  BY <1>1, <1>2 DEF ConnFits
<1>5. CASE /\ parser' = [parser EXCEPT ![c] = "start"]
           /\ written' = [written EXCEPT ![c] = 0]
           /\ events' = aeCreateFileEvent(
                          aeCreateFileEvent(events, f, {R}, "socket_readable", c),
                          f, {W}, "socket_writeable", c)
           /\ UNCHANGED <<fd, live, sock, fresh, num>>
  <2>1. ~Refused(events, f) /\ \A table : ~Refused(table, f)
    BY CalledCycles DEF Open, Refused, Foreign
  <2>2. /\ events'[f] = [mask |-> (events[f].mask \union {R}) \union {W},
                         rproc |-> "socket_readable", wproc |-> "socket_writeable", data |-> c]
        /\ \A g \in Fds \ {f} : events'[g] = events[g]
    <3> DEFINE first == aeCreateFileEvent(events, f, {R}, "socket_readable", c)
    <3>0. R # W
      BY DEF R, W
    <3>1. /\ first[f].mask = events[f].mask \union {R} /\ first[f].rproc = "socket_readable"
          /\ \A g \in Fds \ {f} : first[g] = events[g]
      BY <1>1, <1>2, <2>1, <3>0 DEF aeCreateFileEvent
    <3>2. first \in [Fds -> EventType]
      BY <1>1, <1>2, CreateTyped DEF Masks, ReadProcs, R, W
    <3> HIDE DEF first
    <3>3. events' = aeCreateFileEvent(first, f, {W}, "socket_writeable", c)
      BY <1>5 DEF first
    <3> QED
      BY <1>1, <2>1, <3>0, <3>1, <3>2, <3>3 DEF aeCreateFileEvent
  <2>3. CASE events[f].rproc = "socket_connected"
    <3>1. Untold(events[f], sock[f], live[c], parser[c], <<>>)
      BY <1>1, <2>3 DEF EntryFits
    <3>2. Told(events'[f], sock[f], pending[c], 0, live[c], "start", <<>>)
      <4>1. sock[f] \in SocketType /\ W \in events'[f].mask
            /\ events'[f].wproc = "socket_writeable"
        BY <1>1, <1>2, <2>2
      <4> QED
        BY <1>4, <3>1, <4>1, ToldFirst
    <3>3. /\ fd'[c] = f /\ sock'[f] = sock[f] /\ pending'[c] = pending[c] /\ written'[c] = 0
          /\ live'[c] = live[c] /\ parser'[c] = "start" /\ Buf(c)' = <<>>
      BY <1>0, <1>1, <1>2, <1>3, <1>5
    <3>4. Watches(c)' /\ Tells(c)'
      BY <1>1, <2>2, <3>3 DEF Watches, WatchesIn, Tells
    <3>5. ConnFits(c)'
      <4>1. EntryFits(events'[f], sock[f], pending[c], 0, live[c], "start", <<>>)
        BY <2>2, <3>2 DEF EntryFits
      <4> QED
        BY <1>4, <3>3, <3>4, <4>1 DEF ConnFits
    <3>6. Moves(c)
      <4>1. ~live[c] /\ ~Tells(c)
        BY <1>1, <2>3, <3>1 DEF Untold, Tells
      <4> QED
        BY <3>3, <3>4, <4>1 DEF Moves, Rises, Phase, Due
    <3>7. ASSUME NEW x \in Conns \ {c} PROVE Same(x)
      <4>1. KeptFor(x, sock, events)
        <5>1. /\ f \in Fds /\ fd' = fd /\ fd[c] = f /\ x # c
              /\ \A g \in Fds \ {f} : events'[g] = events[g] /\ sock'[g] = sock[g]
              /\ events[f].data = c /\ events'[f].data = c
          <6>1. fd' = fd /\ sock' = sock
            BY <1>5
          <6>3. events'[f].data = c
            BY ONLY <2>2
          <6>2. \A g \in Fds \ {f} : events'[g] = events[g]
            BY <2>2
          <6> QED
            BY ONLY <1>1, <6>1, <6>2, <6>3, x \in Conns \ {c}
        <5> QED
          BY ONLY <5>1, OthersKept
      <4> QED
        BY <1>0, <1>2, <1>3, <1>5, <4>1, KeptSame
    <3> QED
      BY <3>5, <3>6, <3>7 DEF StepOf
  <2>4. CASE events[f].rproc # "socket_connected"
    <3>1. W \in events[f].mask /\ events[f].wproc = "socket_connected"
      BY <2>4
    <3>2. Told(events[f], sock[f], pending[c], written[c], live[c], parser[c], <<>>)
      BY <1>1, <2>4 DEF EntryFits
    <3>3. events[f].wproc = "socket_writeable"
      BY <3>1, <3>2 DEF Told
    <3> QED
      BY <3>1, <3>3
  <2> QED
    BY <2>3, <2>4
<1>6. CASE UNCHANGED <<fd, written, parser, live, events, sock, fresh, num>>
  <2>1. \A x \in Conns : Same(x)
    BY <1>0, <1>3, <1>6 DEF Same, Watches, WatchesIn
  <2> QED
    BY <1>1, <2>1, SameFits DEF StepOf, Moves
<1>7. CASE /\ reconnect_socket(c, events, Bump(num, {"connect"}))
           /\ UNCHANGED <<written, parser>>
  <2>1. pending'[c] >= 0
    BY <1>0, <1>4
  <2>2. /\ \A x \in Conns \ {c} : pending'[x] = pending[x] /\ written'[x] = written[x]
        /\ UNCHANGED <<parser, input>>
    BY <1>0, <1>7
  <2> QED
    BY <1>7, <2>1, <2>2, ReconnectSteps
<1> QED
  BY <1>5, <1>6, <1>7 DEF socket_connected

\* A write starts a cycle or goes on with it.
LEMMA WriteMoves ==
  ASSUME NEW c, EarlyReply \in BOOLEAN, Watches(c), events[fd[c]].rproc = "socket_readable",
         Phases(Ready2Write(events[fd[c]], written[c]), EarlyOf(sock[fd[c]]), pending[c], live[c]),
         W \in events[fd[c]].mask, live'[c],
         pending'[c] = (IF written[c] = 0 THEN Pipeline ELSE pending[c])
  PROVE  EarlyReply \/ Moves(c)
<1>1. CASE live[c]
  <2>1. pending'[c] = pending[c]
    BY <1>1 DEF Phases, Ready2Write
  <2> QED
    BY <1>1, <2>1 DEF Moves, Stays, Phase, Due
<1>2. CASE ~live[c] /\ ~EarlyReply
  <2>1. pending'[c] = Pipeline
    BY <1>2 DEF Phases, Ready2Write
  <2>2. Phase(c) = "idle" /\ Phase(c)' = "busy" /\ Due(c)' = Pipeline
    BY <1>2, <2>1 DEF Phase, Due, Tells
  <2> QED
    BY <2>2 DEF Moves, Issues
<1> QED
  BY <1>1, <1>2

LEMMA SocketWriteableSteps ==
  ASSUME NEW c, NEW f, Called(c, f), Cycles, socket_writeable(c, f),
         W \in events[f].mask, events[f].wproc = "socket_writeable"
  PROVE  StepOf(c)
<1>1. /\ c \in Conns /\ f \in Fds /\ fd[c] = f /\ events[f].data = c /\ TypeOK
      /\ Watches(c) /\ \A x \in Conns : Buf(x) = <<>>
      /\ EntryFits(events[f], sock[f], pending[c], written[c], live[c], parser[c], <<>>)
      /\ \A x \in Conns : ConnFits(x)
  BY CalledCycles
<1>0. pc' = "files" /\ input' = input /\ WriteRequest(c, f)
  <2>1. ~delayed[c]
    BY <1>1, CalledFacts DEF NoTimers
  <2> QED
    BY <2>1 DEF socket_writeable, DelayWrite
<1>2. /\ events \in [Fds -> EventType] /\ sock \in [Fds -> SocketType]
      /\ pending \in [Conns -> Int] /\ written \in [Conns -> 0 .. Length - 1]
      /\ live \in [Conns -> BOOLEAN] /\ EarlyReply \in BOOLEAN
  BY <1>1, TypeFacts, ConnectionAssumption DEF ConnectionAssumption
<1>3. \A x \in Conns : Buf(x)' = Buf(x)
  BY <1>0 DEF Buf
<1>4. pending[c] \in Nat
  BY <1>1, <1>2 DEF ConnFits
<1>5. pending' = PendingAtWrite(c) /\ parser' = parser
  BY <1>0 DEF WriteRequest
<1> DEFINE q == IF written[c] = 0 THEN Pipeline ELSE pending[c]
<1>6. pending'[c] = q /\ \A x \in Conns \ {c} : pending'[x] = pending[x]
  BY <1>1, <1>2, <1>5 DEF PendingAtWrite
<1>7. q \in Nat
  BY <1>4, Numbers
<1>8. /\ events[f].rproc = "socket_readable"
      /\ Told(events[f], sock[f], pending[c], written[c], live[c], parser[c], <<>>)
  BY <1>1 DEF EntryFits, Untold
<1>9. Phases(Ready2Write(events[f], written[c]), EarlyOf(sock[f]), pending[c], live[c])
  BY <1>8 DEF Told
<1>10. ASSUME live'[c] PROVE EarlyReply \/ Moves(c)
  BY <1>1, <1>2, <1>6, <1>8, <1>9, <1>10, WriteMoves
<1>11. ASSUME NEW n \in 1 .. Length - written[c], Connected(f),
              written' = [written EXCEPT ![c] = Advance(c, n)],
              sock' = [sock EXCEPT ![f] = Receive(@, n)],
              events' = IF written'[c] = 0 THEN aeDeleteFileEvent(events, f, {W}) ELSE events,
              live' = [live EXCEPT ![c] = TRUE], fd' = fd
       PROVE  StepOf(c)
  <2> DEFINE w == written[c]
             v == Advance(c, n)
             e == events[f]
             h == IF v = 0 THEN [e EXCEPT !.mask = @ \ {W}] ELSE e
             z == Receive(sock[f], n)
  <2>1. w \in 0 .. Length - 1 /\ v = (w + n) % Length /\ e \in EventType
        /\ sock[f] \in SocketType /\ sock[f].st = "open" /\ n \in 1 .. Length - w
        /\ W \in e.mask /\ pending[c] \in Int
    BY <1>1, <1>2, <1>11 DEF Advance, Connected
  <2>2. Told(e, sock[f], pending[c], w, live[c], parser[c], <<>>)
    BY <1>8
  <2>3. /\ q = (IF w = 0 THEN Pipeline ELSE pending[c])
        /\ h = (IF v = 0 THEN [e EXCEPT !.mask = @ \ {W}] ELSE e)
    OBVIOUS
  <2>4. written'[c] = v /\ \A x \in Conns \ {c} : written'[x] = written[x]
    BY <1>1, <1>2, <1>11
  <2>5. events'[f] = h /\ \A g \in Fds \ {f} : events'[g] = events[g]
    <3>1. CASE v = 0
      <4>1. events' = [events EXCEPT ![f].mask = @ \ {W}]
        BY <1>11, <2>4, <3>1 DEF aeDeleteFileEvent
      <4> QED
        BY <1>1, <1>2, <3>1, <4>1
    <3>2. CASE v # 0
      BY <1>11, <2>4, <3>2
    <3> QED
      BY <3>1, <3>2
  <2>6. sock'[f] = z /\ \A g \in Fds \ {f} : sock'[g] = sock[g]
    BY <1>1, <1>2, <1>11
  <2>7. live'[c] /\ live'[c] = TRUE /\ \A x \in Conns \ {c} : live'[x] = live[x]
    BY <1>1, <1>2, <1>11
  <2> HIDE DEF w, v, e, h, z, q
  <2>8. Told(h, Receive(sock[f], n), q, v, TRUE, parser[c], <<>>)
    BY <2>1, <2>2, <2>3, ToldWrite
  <2>9. h.mask # {} /\ h.data = c /\ h.rproc = "socket_readable"
    <3>1. e.mask # {} /\ e.data = c /\ e.rproc = "socket_readable" /\ R \in e.mask
      <4>1. Owns(events, sock, fd, {})
        BY CalledCycles
      <4>2. Open(sock[f]) /\ W \in events[f].mask
        BY <2>1 DEF Open, e
      <4>3. R \in events[f].mask
        BY <1>1, <4>1, <4>2 DEF Owns
      <4> QED
        BY <1>1, <1>8, <4>2, <4>3 DEF e
    <3>2. R # W
      BY DEF R, W
    <3> QED
      BY <2>1, <3>1, <3>2 DEF h, EventType
  <2>10. ConnFits(c)'
    <3>1. EntryFits(h, z, q, v, TRUE, parser[c], <<>>)
      BY <2>8, <2>9 DEF EntryFits, z
    <3>2. /\ fd'[c] = f /\ events'[f] = h /\ sock'[f] = z /\ written'[c] = v
          /\ live'[c] = TRUE /\ parser'[c] = parser[c] /\ Buf(c)' = <<>>
      <4>1. fd' = fd /\ fd[c] = f /\ Buf(c)' = <<>>
        BY <1>1, <1>3, <1>11
      <4>2. parser' = parser
        BY <1>5
      <4> QED
        BY ONLY <2>4, <2>5, <2>6, <2>7, <4>1, <4>2
    <3>3. pending'[c] = q
      BY <1>6 DEF q
    <3>4. EntryFits(events'[fd'[c]], sock'[fd'[c]], pending'[c], written'[c],
                    live'[c], parser'[c], Buf(c)')
      BY ONLY <3>1, <3>2, <3>3
    <3>5. Watches(c)'
      BY ONLY <1>1, <2>9, <3>2 DEF Watches, WatchesIn
    <3> QED
      BY <1>7, <3>3, <3>4, <3>5 DEF ConnFits, q
  <2>11. ASSUME NEW x \in Conns \ {c} PROVE Same(x)
    <3>1. /\ f \in Fds /\ fd' = fd /\ fd[c] = f /\ x # c
          /\ \A g \in Fds \ {f} : events'[g] = events[g] /\ sock'[g] = sock[g]
          /\ events[f].data = c /\ events'[f].data = c
      BY <1>1, <1>11, <2>5, <2>6, <2>9
    <3>2. KeptFor(x, sock, events)
      BY ONLY <3>1, OthersKept
    <3> QED
      BY <1>3, <1>5, <1>6, <2>4, <2>7, <3>2, KeptSame
  <2> QED
    BY <1>10, <2>7, <2>10, <2>11 DEF StepOf
<1>12. CASE /\ live' = [live EXCEPT ![c] = TRUE]
            /\ UNCHANGED <<fd, written, events, sock, fresh>>
  <2>1. live'[c] /\ live'[c] = TRUE /\ \A x \in Conns \ {c} : live'[x] = live[x]
    BY <1>1, <1>2, <1>12
  <2>2. written[c] \in 0 .. Length - 1 /\ sock[f] \in SocketType /\ pending[c] \in Int
    BY <1>1, <1>2
  <2> HIDE DEF q
  <2>3. Told(events[f], sock[f], q, written[c], TRUE, parser[c], <<>>)
    BY <1>8, <2>2, ToldRetry DEF q
  <2>4. ConnFits(c)'
    <3>1. EntryFits(events[f], sock[f], q, written[c], TRUE, parser[c], <<>>)
      BY <1>8, <2>3 DEF EntryFits
    <3>2. EntryFits(events'[fd'[c]], sock'[fd'[c]], pending'[c], written'[c],
                    live'[c], parser'[c], Buf(c)')
      BY <1>1, <1>3, <1>5, <1>6, <1>12, <2>1, <3>1 DEF q
    <3>3. Watches(c)'
      BY <1>1, <1>12 DEF Watches, WatchesIn
    <3> QED
      BY <1>6, <1>7, <3>2, <3>3 DEF ConnFits, q
  <2>5. ASSUME NEW x \in Conns \ {c} PROVE Same(x)
    <3>1. KeptFor(x, sock, events)
      BY <1>12 DEF KeptFor, WatchesIn
    <3> QED
      BY <1>3, <1>5, <1>6, <1>12, <2>1, <3>1, KeptSame
  <2> QED
    BY <1>10, <2>1, <2>4, <2>5 DEF StepOf
<1>13. ASSUME NEW count, reconnect_socket(c, events, count), written' = written
       PROVE  StepOf(c)
  <2>1. /\ pending'[c] >= 0 /\ UNCHANGED <<parser, input>>
        /\ \A x \in Conns \ {c} : pending'[x] = pending[x] /\ written'[x] = written[x]
    BY <1>0, <1>5, <1>6, <1>7, <1>13
  <2> QED
    BY <1>13, <2>1, ReconnectSteps
<1> HIDE DEF q
<1>14. CASE /\ Connected(fd[c]) \/ Foreign(fd[c])
            /\ \E n \in 1 .. Length - written[c] :
                 /\ written' = [written EXCEPT ![c] = Advance(c, n)]
                 /\ sock' = [sock EXCEPT ![fd[c]] = Receive(@, n)]
            /\ events' = IF written'[c] = 0 THEN aeDeleteFileEvent(events, f, {W}) ELSE events
            /\ live' = [live EXCEPT ![c] = TRUE]
            /\ UNCHANGED <<fd, fresh>>
  <2>1. Connected(f)
    BY <1>1, <1>14, CalledCycles DEF Open, Foreign
  <2> QED
    BY <1>1, <1>11, <1>14, <2>1
<1> QED
  BY <1>0, <1>12, <1>13, <1>14 DEF WriteRequest

\* A step about c that leaves its pending and live and the loop's table.
LEMMA QuietMoves ==
  ASSUME NEW c, UNCHANGED <<fd, pending, live, events>>
  PROVE  Stays(c) /\ \A x : Watches(x)' <=> Watches(x)
BY DEF Stays, Phase, Due, Tells, Watches, WatchesIn

\* What socket_readable reads: nothing, responses, the beginning of one or the end.
LEMMA SocketReadableSteps ==
  ASSUME NEW c, NEW f, Called(c, f), Cycles, socket_readable(c),
         events[f].rproc = "socket_readable"
  PROVE  StepOf(c)
<1>0. UNCHANGED <<fd, written, pending, live, events>>
  BY DEF socket_readable
<1>1. /\ c \in Conns /\ f \in Fds /\ fd[c] = f /\ events[f].data = c /\ TypeOK
      /\ Watches(c) /\ \A x \in Conns : Buf(x) = <<>>
      /\ EntryFits(events[f], sock[f], pending[c], written[c], live[c], parser[c], <<>>)
      /\ \A x \in Conns : ConnFits(x)
  BY CalledCycles
<1>2. /\ sock \in [Fds -> SocketType] /\ sock[f] \in SocketType /\ pending[c] \in Int
      /\ written[c] \in 0 .. Length - 1 /\ parser \in [Conns -> Parsers]
  BY <1>1, TypeFacts DEF Parsers
<1>3. /\ Told(events[f], sock[f], pending[c], written[c], live[c], parser[c], <<>>)
      /\ pending[c] >= 0
  BY <1>1 DEF EntryFits, Untold, ConnFits
<1>4. Moves(c) /\ \A x : Watches(x)' <=> Watches(x)
  BY <1>0, QuietMoves DEF Moves
<1>5. ASSUME NEW ps, NEW b, NEW s, Told(events[f], s, pending[c], written[c], live[c], ps, b),
             parser' = [parser EXCEPT ![c] = ps], sock' = [sock EXCEPT ![f] = s],
             input'.c = c, input'.buf = b
      PROVE  StepOf(c)
  <2>1. parser'[c] = ps /\ \A x \in Conns \ {c} : parser'[x] = parser[x]
    BY <1>1, <1>2, <1>5
  <2>2. sock'[f] = s /\ \A g \in Fds \ {f} : sock'[g] = sock[g]
    BY <1>1, <1>2, <1>5
  <2>3. Buf(c)' = b /\ \A x \in Conns \ {c} : Buf(x)' = Buf(x)
    BY <1>1, <1>5 DEF Buf
  <2>4. ConnFits(c)'
    <3>1. EntryFits(events[f], s, pending[c], written[c], live[c], ps, b)
      BY <1>5 DEF EntryFits
    <3>2. /\ fd'[c] = f /\ events'[f] = events[f] /\ pending'[c] = pending[c]
          /\ written'[c] = written[c] /\ live'[c] = live[c]
      BY <1>0, <1>1
    <3>3. EntryFits(events'[fd'[c]], sock'[fd'[c]], pending'[c], written'[c],
                    live'[c], parser'[c], Buf(c)')
      BY ONLY <2>1, <2>2, <2>3, <3>1, <3>2
    <3> QED
      BY <1>1, <1>3, <1>4, <3>2, <3>3 DEF ConnFits
  <2>5. ASSUME NEW x \in Conns \ {c} PROVE Same(x)
    <3>1. /\ f \in Fds /\ fd' = fd /\ fd[c] = f /\ x # c
          /\ \A g \in Fds \ {f} : events'[g] = events[g] /\ sock'[g] = sock[g]
          /\ events[f].data = c /\ events'[f].data = c
      BY <1>0, <1>1, <2>2
    <3>2. KeptFor(x, sock, events)
      BY ONLY <3>1, OthersKept
    <3> QED
      BY <1>0, <2>1, <2>3, <3>2, KeptSame
  <2> QED
    BY <1>4, <2>4, <2>5 DEF StepOf
<1>6. [sock EXCEPT ![f] = sock[f]] = sock /\ [parser EXCEPT ![c] = parser[c]] = parser
  BY <1>1, <1>2
<1>7. ASSUME NEW k \in 1 .. Len(sock[f].inbox), parser' = parser,
             input' = [c |-> c, buf |-> SubSeq(sock[f].inbox, 1, k), bad |-> FALSE],
             sock' = [sock EXCEPT ![f].inbox = SubSeq(@, k + 1, Len(@))]
      PROVE  StepOf(c)
  <2> DEFINE z == [sock[f] EXCEPT !.inbox = SubSeq(@, k + 1, Len(@))]
             b == SubSeq(sock[f].inbox, 1, k)
  <2>1. sock' = [sock EXCEPT ![f] = z] /\ input'.c = c /\ input'.buf = b
    BY <1>1, <1>2, <1>7
  <2>2. z = [sock[f] EXCEPT !.inbox = SubSeq(@, k + 1, Len(@))] /\ b = SubSeq(sock[f].inbox, 1, k)
    OBVIOUS
  <2> HIDE DEF z, b
  <2>3. Told(events[f], z, pending[c], written[c], live[c], parser[c], b)
    BY <1>2, <1>3, <2>2, ToldRead
  <2>4. parser' = [parser EXCEPT ![c] = parser[c]]
    BY <1>6, <1>7
  <2> QED
    BY <1>5, <2>1, <2>3, <2>4
<1>8. CASE /\ parser[c] = "start" /\ sock' = sock
           /\ input' = [c |-> c, buf |-> <<>>, bad |-> FALSE]
           /\ parser' = [parser EXCEPT ![c] = "mid"]
  <2>1. Told(events[f], sock[f], pending[c], written[c], live[c], "mid", <<>>)
    BY <1>3, <1>8, ToldMiddle
  <2>2. sock' = [sock EXCEPT ![f] = sock[f]] /\ input'.c = c /\ input'.buf = <<>>
    BY <1>6, <1>8
  <2> QED
    BY <1>5, <1>8, <2>1, <2>2
<1>9. CASE /\ UNCHANGED <<parser, sock>>
           /\ input' = [c |-> c, bad |-> TRUE,
                        buf |-> IF sock[f].st = "open" /\ parser[c] = "eof" /\ ~Tls
                                THEN <<"end">> ELSE <<>>]
  <2>1. /\ sock' = [sock EXCEPT ![f] = sock[f]] /\ parser' = [parser EXCEPT ![c] = parser[c]]
        /\ input'.c = c
    BY <1>6, <1>9
  <2>2. CASE input'.buf = <<"end">> /\ parser[c] = "eof"
    <3>1. Told(events[f], sock[f], pending[c], written[c], live[c], parser[c], <<"end">>)
      BY <1>2, <1>3, <2>2, ToldEnd
    <3> QED
      BY <1>5, <2>1, <2>2, <3>1
  <2>3. CASE input'.buf = <<>>
    BY <1>3, <1>5, <2>1, <2>3
  <2> QED
    BY <1>9, <2>2, <2>3
<1>10. CASE UNCHANGED <<parser, input, sock>>
  <2>1. \A x \in Conns : Same(x)
    BY <1>0, <1>4, <1>10 DEF Same, Buf
  <2> QED
    BY <1>1, <1>4, <2>1, SameFits DEF StepOf
<1>11. CASE Read(c)
  <2>1. ~Foreign(fd[c])
    BY <1>1, CalledCycles DEF Open, Foreign
  <2> QED
    BY <1>1, <1>7, <1>8, <1>9, <1>11, <2>1 DEF Read
<1> QED
  BY <1>10, <1>11 DEF socket_readable

\* While responses are parsed their connection alone watches its descriptor.
LEMMA HandlerParses ==
  ASSUME NEW c, NEW f, Called(c, f), Cycles,
         socket_connected(c, f) \/ socket_writeable(c, f) \/ socket_readable(c)
  PROVE  ParsesOwn' /\ (pc' # "parse" => input'.c = NoConn)
<1>1. /\ c \in Conns /\ f \in Fds /\ fd[c] = f /\ events[f].data = c /\ TypeOK
  BY CalledCycles
<1>2. input.c = NoConn
  BY DEF Called, Cycles
<1>3. CASE pc' = "files" /\ input' = input
  BY <1>2, <1>3 DEF ParsesOwn
<1>4. CASE Read(c) /\ pc' = "parse" /\ UNCHANGED <<fd, events>>
  <2>1. input'.c = c
    <3>1. ASSUME NEW b, NEW bad, input' = [c |-> c, buf |-> b, bad |-> bad] PROVE input'.c = c
      BY <3>1
    <3>2. \E b, bad : input' = [c |-> c, buf |-> b, bad |-> bad]
      BY <1>4, Zenon DEF Read
    <3> QED
      BY <3>1, <3>2
  <2> QED
    BY <1>1, <1>4, <2>1 DEF ParsesOwn
<1> QED
  BY <1>3, <1>4 DEF socket_connected, socket_writeable, socket_readable

\* The descriptor that opening a socket leaves to its connection.
LEMMA ReconnectWatches ==
  ASSUME TypeOK, NEW c \in Conns, fd[c] \in Fds, NEW table \in [Fds -> EventType], NEW count,
         reconnect_socket(c, table, count)
  PROVE  events'[fd'[c]].mask # {} => events'[fd'[c]].data = c
<1> DEFINE open == [sock EXCEPT ![fd[c]] = Socket("free")]
           cleared == aeDeleteFileEvent(table, fd[c], {R, W})
<1>1. fd \in [Conns -> Fds \union {NoFd}]
  BY TypeFacts
<1>2. cleared[fd[c]].mask = {} /\ cleared \in [Fds -> EventType]
  <2>1. \A g \in Fds : table[g].mask \ {R, W} = {}
    BY DEF EventType
  <2> QED
    BY <2>1, DeleteTyped DEF aeDeleteFileEvent, EventType
<1>3. connect_socket(c, open, cleared, count)
  BY DEF reconnect_socket
<1> HIDE DEF open, cleared
<1>4. ASSUME NEW g \in Fds, Connects(c, g, open, cleared)
      PROVE  events'[fd'[c]].data = c
  <2>1. fd'[c] = g
    BY <1>1, <1>4 DEF Connects
  <2> QED
    BY <1>2, <1>4, <2>1 DEF Connects
<1>5. CASE Disconnects(open, cleared)
  BY <1>2, <1>5 DEF Disconnects
<1> QED
  BY <1>3, <1>4, <1>5, ConnectCases

\* A connection whose socket is closed falls, if it was not down.
LEMMA FallsOrStays ==
  ASSUME NEW c, Phase(c)' = "down", Due(c)' = 0 PROVE Stays(c) \/ Falls(c)
<1>1. Phase(c) = "down" => Due(c) = 0
  BY DEF Phase, Due
<1> QED
  BY <1>1 DEF Stays, Falls

\* What the parser finds: a response of a cycle of a connection that was told.
LEMMA ParsingFacts ==
  ASSUME Together, Cycles, ParseResponse
  PROVE  /\ pc = "parse" /\ pc' = "parse"
         /\ input.c \in Conns /\ cur \in Fds /\ fd[input.c] = cur /\ cur \notin fresh
         /\ Watched(input.c, cur) /\ Watches(input.c) /\ TypeOK /\ Owns(events, sock, fd, {})
         /\ input.buf \in Seq(Kinds) /\ input.buf # <<>> /\ input'.c = input.c
         /\ input'.buf = IF Head(input.buf) = "junk" THEN <<"stray">> ELSE Tail(input.buf)
         /\ events[cur].rproc = "socket_readable"
         /\ Told(events[cur], sock[cur], pending[input.c], written[input.c], live[input.c],
                 parser[input.c], input.buf)
         /\ Head(input.buf) = "end" => Tail(input.buf) = <<>>
<1> DEFINE c == input.c
<1>0. TypeOK /\ EventsOwnTheirSocket /\ Owns(events, sock, fd, {}) /\ Parsing
  BY OwnsEvents, OwnedEvents DEF Together
<1>1. /\ pc = "parse" /\ pc' = "parse" /\ input.buf # <<>> /\ parser[c] # "dead"
      /\ input' = [input EXCEPT !.buf = IF Head(input.buf) = "junk" THEN <<"stray">>
                                        ELSE Tail(input.buf)]
  BY DEF ParseResponse
<1>2. /\ c \in Conns /\ cur \in Fds /\ Watched(c, cur) /\ cur \notin fresh
      /\ fd[c] = cur
  BY <1>0, <1>1 DEF Together, Typed, HandlersHaveFd, Parsing, EventsOwnTheirSocket, Watched
<1>3. input \in InputType /\ input.buf \in Seq(Kinds)
  BY <1>0, TypeFacts DEF InputType, Kinds
<1>4. /\ input'.c = c
      /\ input'.buf = IF Head(input.buf) = "junk" THEN <<"stray">> ELSE Tail(input.buf)
  BY <1>1, <1>3 DEF InputType
<1>5. Watches(c)
  BY <1>2 DEF Watches, WatchesIn, Watched
<1>6. EntryFits(events[cur], sock[cur], pending[c], written[c], live[c], parser[c], input.buf)
  BY <1>2, <1>5 DEF Cycles, ConnFits, Buf
<1>7. /\ events[cur].rproc = "socket_readable"
      /\ Told(events[cur], sock[cur], pending[c], written[c], live[c], parser[c], input.buf)
  BY <1>1, <1>6 DEF EntryFits, Untold
<1>8. Head(input.buf) = "end" => Tail(input.buf) = <<>>
  <2> DEFINE b == input.buf
             t == Tail(b)
  <2>0. Len(b) \in Nat /\ Len(b) > 0
    BY <1>1, <1>3, EmptySeq, LenProperties
  <2>1. b[1] = "end" => Len(b) = 1
    BY <1>0, <1>1, <2>0 DEF Parsing
  <2>2. t \in Seq(Kinds) /\ Len(t) = Len(b) - 1
    BY <1>1, <1>3, HeadTailProperties
  <2>3. Head(b) = b[1]
    BY <1>1, <1>3
  <2> HIDE DEF t, b
  <2>4. Len(t) = 0 => t = <<>>
    BY <2>2, EmptySeq
  <2> QED
    BY <2>0, <2>1, <2>2, <2>3, <2>4 DEF t, b
<1> QED
  BY <1>0, <1>1, <1>2, <1>3, <1>4, <1>5, <1>7, <1>8

\* The table after the callback of a response, whether it is the last one.
Rearmed(c) == IF pending[c] - 1 = 0 THEN Rearm(c) ELSE events

LEMMA RearmedFits ==
  ASSUME Together, Cycles, ParseResponse
  PROVE  LET c == input.c
             h == Rearmed(c)[cur]
         IN  /\ Rearmed(c) \in [Fds -> EventType] /\ Owns(Rearmed(c), sock, fd, {})
             /\ h.mask # {} /\ h.data = c /\ h.rproc = "socket_readable"
             /\ \A g \in Fds \ {cur} : Rearmed(c)[g] = events[g]
             /\ IF pending[c] = 1 THEN W \in h.mask /\ h.wproc = "socket_writeable"
                ELSE h = events[cur]
<1> DEFINE c == input.c
<1>1. /\ c \in Conns /\ cur \in Fds /\ fd[c] = cur /\ events[cur].mask # {}
      /\ events[cur].data = c /\ TypeOK /\ Owns(events, sock, fd, {})
      /\ events[cur].rproc = "socket_readable"
  BY ParsingFacts DEF Watched
<1>2. events \in [Fds -> EventType] /\ pending[c] \in Int
  BY <1>1, TypeFacts
<1>3. CASE pending[c] = 1
  <2>1. Rearmed(c) = Rearm(c)
    BY <1>3 DEF Rearmed
  <2>0. touched = {} /\ Owned
    BY DEF Cycles, Together
  <2>2. /\ Rearm(c) \in [Fds -> EventType] /\ Owns(Rearm(c), sock, fd, touched)
        /\ Rearm(c)[cur].mask # {} /\ Rearm(c)[cur].data = c
        /\ \A g \in Fds \ {cur} : Rearm(c)[g] = events[g]
    BY <1>1, <2>0, RearmOwns
  <2>3. ~Refused(events, cur) /\ R # W
    BY <1>1 DEF Owns, Open, Refused, Foreign, R, W
  <2>4. Rearm(c)[cur] = [mask |-> events[cur].mask \union {W}, rproc |-> events[cur].rproc,
                         wproc |-> "socket_writeable", data |-> c]
    BY <1>1, <1>2, <2>3 DEF Rearm, aeCreateFileEvent
  <2> QED
    BY <1>1, <1>3, <2>0, <2>1, <2>2, <2>4
<1>4. CASE pending[c] # 1
  <2>1. Rearmed(c) = events
    BY <1>2, <1>4 DEF Rearmed
  <2> QED
    BY <1>1, <1>2, <1>4, <2>1
<1> QED
  BY <1>3, <1>4

\* The headers of a response that ends with the stream.
LEMMA ParseHeaders ==
  ASSUME Together, Cycles, ParseResponse, NEW c, c = input.c, Head(input.buf) = "eof",
         UNCHANGED <<fd, pending, live, events, sock>>,
         parser' = [parser EXCEPT ![c] = "eof"]
  PROVE  StepOf(c)
<1> DEFINE t == Tail(input.buf)
<1>1. /\ c \in Conns /\ cur \in Fds /\ fd[c] = cur /\ Watches(c) /\ TypeOK
      /\ input.buf \in Seq(Kinds) /\ input.buf # <<>> /\ input'.c = c
      /\ input'.buf = IF Head(input.buf) = "junk" THEN <<"stray">> ELSE t
      /\ events[cur].rproc = "socket_readable"
      /\ Told(events[cur], sock[cur], pending[c], written[c], live[c], parser[c], input.buf)
  BY ParsingFacts
<1>2. /\ parser \in [Conns -> Parsers] /\ sock[cur] \in SocketType /\ pending[c] \in Int
      /\ written[c] \in 0 .. Length - 1
  BY <1>1, TypeFacts DEF Parsers
<1>3. input'.buf = t /\ written' = written
  BY <1>1 DEF ParseResponse
<1>4. Told(events[cur], sock[cur], pending[c], written[c], live[c], "eof", t)
  BY <1>1, <1>2, ToldHeaders
<1>5. Stays(c) /\ \A x : Watches(x)' <=> Watches(x)
  BY QuietMoves
<1>6. ConnFits(c)'
  <2>1. EntryFits(events[cur], sock[cur], pending[c], written[c], live[c], "eof", t)
    BY <1>1, <1>4 DEF EntryFits
  <2>2. /\ fd'[c] = cur /\ events'[cur] = events[cur] /\ sock'[cur] = sock[cur]
        /\ pending'[c] = pending[c] /\ written'[c] = written[c] /\ live'[c] = live[c]
        /\ parser'[c] = "eof" /\ Buf(c)' = t
    BY <1>1, <1>2, <1>3 DEF Buf
  <2>3. EntryFits(events'[fd'[c]], sock'[fd'[c]], pending'[c], written'[c],
                  live'[c], parser'[c], Buf(c)')
    BY ONLY <2>1, <2>2
  <2>4. pending[c] >= 0
    BY <1>1 DEF Cycles, ConnFits
  <2> QED
    BY <1>1, <1>5, <2>2, <2>3, <2>4 DEF ConnFits
<1>7. ASSUME NEW x \in Conns \ {c} PROVE Same(x)
  <2>1. parser'[x] = parser[x] /\ Buf(x)' = Buf(x)
    BY <1>1, <1>2 DEF Buf
  <2> QED
    BY <1>3, <1>5, <2>1 DEF Same
<1> QED
  BY <1>5, <1>6, <1>7 DEF StepOf, Moves

\* The end of a response after which the connection stays open.
LEMMA ParseKept ==
  ASSUME Together, Cycles, ParseResponse, NEW c, c = input.c, Head(input.buf) = "keep",
         UNCHANGED <<fd, sock>>, events' = Rearmed(c),
         pending' = [pending EXCEPT ![c] = @ - 1],
         live' = [live EXCEPT ![c] = @ /\ pending[c] - 1 # 0],
         parser' = [parser EXCEPT ![c] = "start"]
  PROVE  StepOf(c)
<1> DEFINE t == Tail(input.buf)
           h == Rearmed(c)[cur]
           p == pending[c]
           lv == live[c]
<1>1. /\ c \in Conns /\ cur \in Fds /\ fd[c] = cur /\ Watches(c) /\ TypeOK
      /\ input.buf \in Seq(Kinds) /\ input.buf # <<>> /\ input'.c = c
      /\ input'.buf = IF Head(input.buf) = "junk" THEN <<"stray">> ELSE t
      /\ events[cur].rproc = "socket_readable" /\ events[cur].data = c
      /\ Told(events[cur], sock[cur], p, written[c], lv, parser[c], input.buf)
  BY ParsingFacts DEF Watched
<1>2. /\ parser \in [Conns -> Parsers] /\ sock[cur] \in SocketType /\ p \in Int
      /\ written[c] \in 0 .. Length - 1 /\ pending \in [Conns -> Int]
      /\ live \in [Conns -> BOOLEAN] /\ EarlyReply \in BOOLEAN
  BY <1>1, TypeFacts, ConnectionAssumption DEF Parsers, ConnectionAssumption
<1>3. input'.buf = t /\ written' = written
  BY <1>1 DEF ParseResponse
<1>4. /\ h.mask # {} /\ h.data = c /\ h.rproc = "socket_readable"
      /\ \A g \in Fds \ {cur} : Rearmed(c)[g] = events[g]
      /\ IF p = 1 THEN W \in h.mask /\ h.wproc = "socket_writeable" ELSE h = events[cur]
  BY RearmedFits
<1> HIDE DEF h, p, lv, t
<1>5. /\ Told(h, sock[cur], p - 1, written[c], lv /\ p # 1, "start", t)
      /\ p >= 1 /\ (~EarlyReply => lv)
  BY <1>1, <1>2, <1>4, ToldParse DEF t
<1>6. /\ fd'[c] = cur /\ events'[cur] = h /\ sock'[cur] = sock[cur]
      /\ pending'[c] = p - 1 /\ written'[c] = written[c]
      /\ parser'[c] = "start" /\ Buf(c)' = t
  <2>1. fd'[c] = cur /\ sock'[cur] = sock[cur] /\ Buf(c)' = t /\ written'[c] = written[c]
    BY <1>1, <1>3 DEF Buf
  <2>2. parser'[c] = "start"
    BY <1>1, <1>2
  <2>3. pending'[c] = p - 1
    BY <1>1, <1>2 DEF p
  <2>4. events'[cur] = h
    BY DEF h
  <2> QED
    BY <2>1, <2>2, <2>3, <2>4
<1>7. live'[c] = (lv /\ p # 1)
  <2>1. live'[c] = (lv /\ p - 1 # 0)
    BY <1>1, <1>2 DEF p, lv
  <2>2. p - 1 # 0 <=> p # 1
    BY <1>2
  <2>3. lv \in BOOLEAN
    BY <1>1, <1>2 DEF lv
  <2>4. (lv /\ p - 1 # 0) = (lv /\ p # 1)
    BY <2>2, <2>3
  <2> QED
    BY <2>1, <2>4
<1>8. Watches(c)' /\ Tells(c)'
  BY <1>1, <1>4, <1>6 DEF Watches, WatchesIn, Tells
<1>9. ConnFits(c)'
  <2>1. EntryFits(h, sock[cur], p - 1, written[c], lv /\ p # 1, "start", t)
    BY <1>4, <1>5 DEF EntryFits
  <2>2. EntryFits(events'[fd'[c]], sock'[fd'[c]], pending'[c], written'[c],
                  live'[c], parser'[c], Buf(c)')
    BY ONLY <1>6, <1>7, <2>1
  <2>3. pending'[c] >= 0
    BY <1>2, <1>5, <1>6
  <2> QED
    BY <1>8, <2>2, <2>3 DEF ConnFits
<1>10. ASSUME ~EarlyReply PROVE Takes(c)
  <2>1. live[c] /\ Phase(c) = "busy" /\ Due(c) = p /\ Due(c) > 0
    BY <1>2, <1>5, <1>10 DEF Phase, Due, lv, p
  <2>2. CASE p = 1
    <3>1. ~live'[c]
      BY <1>7, <2>2
    <3> QED
      BY <1>8, <2>1, <2>2, <3>1 DEF Takes, Phase, Due
  <2>3. CASE p # 1
    <3>1. live'[c]
      BY <1>5, <1>7, <1>10, <2>3
    <3> QED
      BY <1>2, <1>6, <2>1, <2>3, <3>1 DEF Takes, Phase, Due
  <2> QED
    BY <2>2, <2>3
<1>11. ASSUME NEW x \in Conns \ {c} PROVE Same(x)
  <2>1. parser'[x] = parser[x] /\ pending'[x] = pending[x] /\ live'[x] = live[x]
    BY <1>1, <1>2
  <2>2. Buf(x)' = Buf(x) /\ written'[x] = written[x]
    BY <1>1, <1>3 DEF Buf
  <2>3. KeptFor(x, sock, events)
    <3>1. /\ cur \in Fds /\ fd' = fd /\ fd[c] = cur /\ x # c
          /\ \A g \in Fds \ {cur} : events'[g] = events[g] /\ sock'[g] = sock[g]
          /\ events[cur].data = c /\ events'[cur].data = c
      BY <1>1, <1>4, <1>6
    <3> QED
      BY ONLY <3>1, OthersKept
  <2> QED
    BY <2>1, <2>2, <2>3, KeptSame
<1> QED
  BY <1>2, <1>9, <1>10, <1>11 DEF StepOf, Moves

\* The end of one after which it is closed.
LEMMA ParseClosed ==
  ASSUME Together, Cycles, ParseResponse, NEW c, c = input.c,
         NEW kind, kind = Head(input.buf), kind # "keep", kind # "eof", NEW count, reconnect_socket(c, Rearmed(c), count),
         pending' = [pending EXCEPT ![c] = @ - 1],
         parser' = [parser EXCEPT ![c] = IF kind = "end" THEN "eof" ELSE "dead"]
  PROVE  /\ StepOf(c)
         /\ events'[fd'[c]].mask # {} => events'[fd'[c]].data = c
<1> DEFINE p == pending[c]
<1>1. /\ c \in Conns /\ cur \in Fds /\ fd[c] = cur /\ Watches(c) /\ TypeOK
      /\ input.buf \in Seq(Kinds) /\ input.buf # <<>> /\ input'.c = c
      /\ input'.buf = IF kind = "junk" THEN <<"stray">> ELSE Tail(input.buf)
      /\ events[cur].data = c
      /\ Told(events[cur], sock[cur], p, written[c], live[c], parser[c], input.buf)
      /\ kind = "end" => Tail(input.buf) = <<>>
  BY ParsingFacts DEF Watched
<1>2. /\ parser \in [Conns -> Parsers] /\ sock[cur] \in SocketType /\ p \in Int
      /\ written[c] \in 0 .. Length - 1 /\ pending \in [Conns -> Int]
  BY <1>1, TypeFacts DEF Parsers
<1>3. /\ Rearmed(c) \in [Fds -> EventType] /\ Owns(Rearmed(c), sock, fd, {})
      /\ Rearmed(c)[cur].data = c
      /\ \A g \in Fds : g # cur => Rearmed(c)[g] = events[g]
  BY RearmedFits
<1>4. /\ Newly(c) /\ ~live'[c]
      /\ \A x \in Conns \ {c} : KeptFor(x, sock, events) /\ live'[x] = live[x]
  BY <1>1, <1>3, ReconnectKeeps
<1>5. events'[fd'[c]].mask # {} => events'[fd'[c]].data = c
  BY <1>1, <1>3, ReconnectWatches
<1>6. p >= 1
  <2>1. p >= Len(sock[cur].inbox) + RestOf(parser[c], input.buf)
              + (IF EarlyReply THEN 0 ELSE PartOf(written[c]))
    BY <1>1 DEF Told, Tally
  <2>2. /\ Len(sock[cur].inbox) \in Nat /\ PartOf(written[c]) \in Nat
        /\ Len(input.buf) \in Nat /\ Len(input.buf) > 0
    BY <1>1, <1>2, SocketFields, PartOfBatch, LenProperties, EmptySeq
  <2>3. RestOf(parser[c], input.buf) \in Nat /\ RestOf(parser[c], input.buf) >= 1
    BY <2>2 DEF RestOf
  <2> HIDE DEF p
  <2> QED
    BY <1>2, <2>1, <2>2, <2>3
<1>7. pending'[c] >= 0 /\ \A x \in Conns \ {c} : pending'[x] = pending[x]
  BY <1>1, <1>2, <1>6
<1>8. Buf(c)' = <<>> \/ parser'[c] = "dead"
  <2>1. CASE kind = "end"
    BY <1>1, <2>1 DEF Buf
  <2>2. CASE kind # "end"
    BY <1>1, <1>2, <2>2
  <2> QED
    BY <2>1, <2>2
<1>9. ConnFits(c)' /\ Phase(c)' = "down" /\ Due(c)' = 0
  BY <1>4, <1>7, <1>8, NewlyFits
<1>10. ASSUME NEW x \in Conns \ {c} PROVE Same(x)
  <2>1. parser'[x] = parser[x] /\ Buf(x)' = Buf(x) /\ written'[x] = written[x]
    BY <1>1, <1>2 DEF Buf, ParseResponse
  <2> QED
    BY <1>4, <1>7, <2>1, KeptSame
<1> QED
  BY <1>5, <1>9, <1>10, FallsOrStays DEF StepOf, Moves

\* What every step shows.
Reads == ParsesOwn' /\ (pc' # "parse" => input'.c = NoConn)

LEMMA ParseSteps ==
  ASSUME Together, Delay = FALSE, Cycles, ParseResponse, NEW c, c = input.c
  PROVE  StepOf(c) /\ Reads
<1> DEFINE kind == Head(input.buf)
<1>1. /\ c \in Conns /\ cur \in Fds /\ fd[c] = cur /\ TypeOK /\ pc' = "parse" /\ input'.c = c
      /\ Watched(c, cur)
  BY ParsingFacts
<1>2. ParsesOwn' => Reads
  BY <1>1 DEF Reads
<1>3. ASSUME events'[fd'[c]].mask # {} => events'[fd'[c]].data = c PROVE Reads
  BY <1>1, <1>2, <1>3 DEF ParsesOwn
<1>4. CASE /\ kind = "eof" /\ parser' = [parser EXCEPT ![c] = "eof"]
           /\ UNCHANGED <<fd, pending, live, events, sock>>
  <2>1. StepOf(c)
    BY <1>4, ParseHeaders
  <2>2. events'[fd'[c]].data = c
    BY <1>1, <1>4 DEF Watched
  <2> QED
    BY <1>3, <2>1, <2>2
<1>5. ASSUME NEW ok, NEW late, kind # "eof",
             parser' = [parser EXCEPT ![c] = CASE kind = "keep" -> "start"
                                               [] kind = "end" -> "eof"
                                               [] OTHER -> "dead"],
             response_complete(c, kind = "keep", ok, late)
      PROVE  StepOf(c) /\ Reads
  <2> DEFINE count == Bump(num, {"complete", IF ok THEN "succ" ELSE "status"}
                                \union (IF pending[c] - 1 = 0
                                        THEN {IF late THEN "timeout" ELSE "latency"} ELSE {}))
  <2>1. /\ pending' = [pending EXCEPT ![c] = @ - 1]
        /\ kind = "keep" => /\ events' = Rearmed(c) /\ UNCHANGED <<fd, sock>>
                            /\ live' = [live EXCEPT ![c] = @ /\ pending[c] - 1 # 0]
        /\ kind # "keep" => reconnect_socket(c, Rearmed(c), count)
    BY <1>5 DEF response_complete, Rearmed
  <2> HIDE DEF count
  <2>2. CASE kind = "keep"
    <3>1. parser' = [parser EXCEPT ![c] = "start"]
      BY <1>5, <2>2
    <3>2. /\ UNCHANGED <<fd, sock>> /\ events' = Rearmed(c)
          /\ live' = [live EXCEPT ![c] = @ /\ pending[c] - 1 # 0]
      BY <2>1, <2>2
    <3>3. StepOf(c)
      BY <2>1, <2>2, <3>1, <3>2, ParseKept
    <3>4. events'[fd'[c]].data = c
      BY <1>1, <3>2, RearmedFits
    <3> QED
      BY <1>3, <3>3, <3>4
  <2>3. CASE kind # "keep"
    <3>1. parser' = [parser EXCEPT ![c] = IF kind = "end" THEN "eof" ELSE "dead"]
      BY <1>5, <2>3
    <3>2. reconnect_socket(c, Rearmed(c), count)
      BY <2>1, <2>3
    <3> HIDE DEF kind
    <3>3. kind = Head(input.buf)
      BY DEF kind
    <3>4. StepOf(c) /\ (events'[fd'[c]].mask # {} => events'[fd'[c]].data = c)
      BY <1>5, <2>1, <2>3, <3>1, <3>2, <3>3, ParseClosed
    <3> QED
      BY <1>3, <3>4
  <2> QED
    BY <2>2, <2>3
<1> QED
  BY <1>4, <1>5 DEF ParseResponse

\* Nothing else is read: the request may be freed.
LEMMA ReadEndSteps ==
  ASSUME Cycles, ReadEnd PROVE (\A x \in Conns : Same(x)) /\ Reads
<1>1. /\ UNCHANGED <<fd, written, pending, parser, live, events, sock>> /\ pc' = "files"
      /\ input' = NotReading /\ input.buf = <<>>
  BY DEF ReadEnd
<1>2. input'.c = NoConn /\ input'.buf = <<>>
  BY <1>1 DEF NotReading
<1>3. \A x \in Conns : Buf(x) = <<>> /\ Buf(x)' = <<>>
  BY <1>1, <1>2 DEF Buf
<1>4. \A x \in Conns : Same(x)
  BY <1>1, <1>3 DEF Same, Watches, WatchesIn
<1> QED
  BY <1>1, <1>2, <1>4 DEF Reads, ParsesOwn

LEMMA ReadErrorSteps ==
  ASSUME Together, Cycles, ReadError, NEW c, c = input.c PROVE StepOf(c) /\ Reads
<1>1. /\ reconnect_socket(c, events, Bump(num, {"read"})) /\ pc = "parse" /\ pc' = "files"
      /\ input' = NotReading /\ UNCHANGED <<written, pending, parser>>
  BY DEF ReadError
<1>2. TypeOK /\ Owns(events, sock, fd, {}) /\ c \in Conns /\ fd[c] \in Fds
  BY <1>1, OwnsEvents DEF Together, Typed, HandlersHaveFd
<1>3. events[fd[c]].mask # {} => events[fd[c]].data = c
  BY <1>1 DEF Cycles, ParsesOwn
<1>4. events \in [Fds -> EventType]
  BY <1>2, TypeFacts
<1>5. /\ Newly(c) /\ ~live'[c]
      /\ \A x \in Conns \ {c} : KeptFor(x, sock, events) /\ live'[x] = live[x]
  BY <1>1, <1>2, <1>3, <1>4, ReconnectKeeps
<1>6. input'.c = NoConn /\ input'.buf = <<>>
  BY <1>1 DEF NotReading
<1>7. Buf(c)' = <<>> /\ \A x \in Conns \ {c} : Buf(x) = <<>> /\ Buf(x)' = <<>>
  BY <1>6 DEF Buf
<1>8. pending'[c] >= 0
  BY <1>1, <1>2 DEF Cycles, ConnFits
<1>9. ConnFits(c)' /\ Phase(c)' = "down" /\ Due(c)' = 0
  BY <1>5, <1>7, <1>8, NewlyFits
<1>10. ASSUME NEW x \in Conns \ {c} PROVE Same(x)
  BY <1>1, <1>5, <1>7, KeptSame
<1> QED
  BY <1>1, <1>6, <1>9, <1>10, FallsOrStays DEF StepOf, Moves, Reads, ParsesOwn

\* A connection is opened for the first time.
LEMMA ThreadMainSteps ==
  ASSUME Together, Cycles, NEW c \in Conns, thread_main(c) PROVE StepOf(c) /\ Reads
<1>1. /\ c \in todo /\ connect_socket(c, sock, events, num)
      /\ UNCHANGED <<written, pending, parser, live, pc, input>>
  BY DEF thread_main
<1>2. /\ TypeOK /\ Owns(events, sock, fd, {}) /\ fd[c] = NoFd /\ pc = "poll"
  BY <1>1, OwnsEvents DEF Together, Typed, OpenedInOrder
<1>3. events \in [Fds -> EventType] /\ sock \in [Fds -> SocketType] /\ NoFd \notin Fds
  BY <1>2, TypeFacts, Numbers
<1>4. \A f \in Fds : events[f].mask # {} => events[f].data # c
  BY <1>2, <1>3 DEF Owns
<1>5. Newly(c) /\ \A x \in Conns \ {c} : KeptFor(x, sock, events)
  BY <1>1, <1>2, <1>3, <1>4, ConnectKeeps
<1>6. input.c = NoConn /\ \A x \in Conns : Buf(x) = <<>> /\ Buf(x)' = <<>>
  BY <1>1, <1>2, Numbers DEF Cycles, Buf
<1>7. pending'[c] >= 0 /\ ~live'[c]
  <2>1. ~Watches(c)
    BY <1>2, <1>3 DEF Watches, WatchesIn
  <2> QED
    BY <1>1, <2>1 DEF Cycles, ConnFits
<1>8. ConnFits(c)' /\ Phase(c)' = "down" /\ Due(c)' = 0
  BY <1>5, <1>6, <1>7, NewlyFits
<1>9. ASSUME NEW x \in Conns \ {c} PROVE Same(x)
  BY <1>1, <1>5, <1>6, KeptSame
<1> QED
  BY <1>1, <1>2, <1>6, <1>8, <1>9, FallsOrStays DEF StepOf, Moves, Reads, ParsesOwn

\* The loop itself touches no connection.
LEMMA LoopSteps ==
  ASSUME Cycles, aeApiPoll \/ EndOfBatch \/ \E f \in Fds : NextEntry(f)
  PROVE  (\A x \in Conns : Same(x)) /\ Reads
<1>1. /\ UNCHANGED <<fd, written, pending, parser, live, events, sock, input>>
      /\ pc' # "parse" /\ pc # "parse"
  BY DEF aeApiPoll, EndOfBatch, NextEntry, conn
<1>2. \A x \in Conns : Same(x)
  BY <1>1 DEF Same, Watches, WatchesIn, Buf
<1> QED
  BY <1>1, <1>2 DEF Reads, ParsesOwn, Cycles

\* The halves of an entry of the batch.
LEMMA HalfCalled ==
  ASSUME Together, Delay = FALSE, NEW f \in Fds, ReadHalf(f) \/ WriteHalf(f),
         NEW c, c = events[f].data
  PROVE  Called(c, f)
<1>0. TypeOK /\ Owned /\ Batch /\ OpenedInOrder
  BY DEF Together, Typed
<1>1. fired \in [Fds -> SUBSET {R, W}] /\ NoFd \notin Fds
  BY <1>0, TypeFacts, Numbers
<1>2. /\ pc = "files" /\ fired[f] # {} /\ events[f].mask # {}
      /\ (cur = NoFd /\ cur' = f /\ fired' = [fired EXCEPT ![f] = @ \ {R}])
         \/ (cur \in {f, NoFd} /\ cur' = NoFd /\ fired' = [fired EXCEPT ![f] = {}])
      /\ cur # f \/ events[f].wproc # events[f].rproc
  <2>1. CASE ReadHalf(f)
    BY <1>1, <2>1 DEF ReadHalf, Valid
  <2>2. CASE WriteHalf(f)
    BY <1>1, <2>2 DEF WriteHalf, CallsWrite, Valid
  <2> QED
    BY <2>1, <2>2
<1>3. todo = {}
  BY <1>0, <1>2 DEF OpenedInOrder
<1>4. f \notin fresh
  BY <1>0, <1>1, <1>2 DEF Batch
<1>5. Turn(f)
  BY <1>0, <1>1, <1>2 DEF Turn, Batch
<1>6. c \in Conns /\ fd[c] = f /\ Watched(c, f)
  BY <1>0, <1>2 DEF Owned, Owns, Watched
<1> QED
  BY <1>2, <1>3, <1>4, <1>5, <1>6 DEF Called

LEMMA HalfSteps ==
  ASSUME Together, Delay = FALSE, Cycles, NEW f \in Fds, ReadHalf(f) \/ WriteHalf(f),
         NEW c, c = events[f].data
  PROVE  StepOf(c) /\ Reads
<1>1. Called(c, f)
  BY HalfCalled
<1>2. CASE ReadHalf(f)
  <2>1. \/ events[f].rproc = "socket_connected" /\ socket_connected(c, f)
        \/ events[f].rproc = "socket_readable" /\ socket_readable(c)
    BY <1>2 DEF ReadHalf
  <2> QED
    BY <1>1, <2>1, SocketConnectedSteps, SocketReadableSteps, HandlerParses DEF Reads
<1>3. CASE WriteHalf(f)
  <2>1. /\ W \in events[f].mask
        /\ \/ events[f].wproc = "socket_connected" /\ socket_connected(c, f)
           \/ events[f].wproc = "socket_writeable" /\ socket_writeable(c, f)
    BY <1>3 DEF WriteHalf, CallsWrite, Valid
  <2> QED
    BY <1>1, <2>1, SocketConnectedSteps, SocketWriteableSteps, HandlerParses DEF Reads
<1> QED
  BY <1>2, <1>3

\* What an event of the world on f leaves of the connections.
Untouched == (\A x \in Conns : ConnFits(x)' /\ Stays(x)) /\ Reads

LEMMA WorldBecomes == ASSUME NEW f, NEW s, World(f, s) PROVE Becomes(f, s)
BY DEF World

LEMMA WorldSteps ==
  ASSUME TypeOK, Cycles, NEW f \in Fds, NEW s, Becomes(f, s),
         \A x \in Conns :
           Watches(x) /\ fd[x] = f => EntryFits(events[f], s, pending[x], written[x], live[x],
                                                parser[x], Buf(x))
  PROVE  Untouched
<1>1. /\ sock' = [sock EXCEPT ![f] = s]
      /\ UNCHANGED <<fd, written, pending, parser, live, events, input, pc>>
  BY DEF Becomes, conn, loop
<1>2. sock \in [Fds -> SocketType]
  BY TypeFacts
<1>3. ASSUME NEW x \in Conns PROVE ConnFits(x)' /\ Stays(x)
  <2>1. CASE Watches(x) /\ fd[x] = f
    <3>1. /\ fd'[x] = f /\ events'[f] = events[f] /\ sock'[f] = s /\ pending'[x] = pending[x]
          /\ written'[x] = written[x] /\ live'[x] = live[x] /\ parser'[x] = parser[x]
          /\ Buf(x)' = Buf(x)
      BY <1>1, <1>2, <2>1 DEF Buf
    <3>2. EntryFits(events[f], s, pending[x], written[x], live[x], parser[x], Buf(x))
      BY <2>1
    <3>3. EntryFits(events'[fd'[x]], sock'[fd'[x]], pending'[x], written'[x],
                    live'[x], parser'[x], Buf(x)')
      BY ONLY <3>1, <3>2
    <3>4. pending[x] >= 0
      BY DEF Cycles, ConnFits
    <3>5. Stays(x) /\ Watches(x)'
      BY <1>1, <2>1, QuietMoves
    <3> QED
      BY <3>1, <3>3, <3>4, <3>5 DEF ConnFits
  <2>2. CASE ~(Watches(x) /\ fd[x] = f)
    <3>1. Watches(x) => sock'[fd[x]] = sock[fd[x]]
      BY <1>1, <1>2, <2>2 DEF Watches, WatchesIn
    <3>2. Same(x)
      BY <1>1, <3>1, QuietMoves DEF Same, Buf
    <3> QED
      BY <3>2, SameFits DEF Cycles
  <2> QED
    BY <2>1, <2>2
<1>4. Reads
  BY <1>1 DEF Reads, ParsesOwn, Cycles
<1> QED
  BY <1>3, <1>4 DEF Untouched

\* The server's answer to a batch, or to a request it has begun to receive.
Answers(f, kind, more) ==
  [sock[f] EXCEPT !.inbox = Append(@, kind), !.fin = kind # "keep",
                  !.part = IF kind = "keep" THEN @ ELSE 0,
                  !.owed = IF kind = "keep" THEN @ - (1 - more) ELSE 0,
                  !.early = @ \/ more = 1]

LEMMA AnswerSteps ==
  ASSUME TypeOK, Cycles, NEW f \in Fds, NEW more \in {0, 1}, NEW kind \in Replies,
         Connected(f), ~sock[f].fin,
         \/ more = 0 /\ sock[f].owed > 0
         \/ more = 1 /\ sock[f].owed = 0 /\ sock[f].part > 0 /\ ~sock[f].early /\ EarlyReply,
         World(f, Answers(f, kind, more))
  PROVE  Untouched
<1> DEFINE z == Answers(f, kind, more)
           t == sock[f]
<1>0. t \in SocketType /\ Healthy(t)
  BY TypeFacts DEF Healthy, Connected
<1>1. /\ z.st = "open" /\ z.inbox = Append(t.inbox, kind) /\ (z.fin <=> kind # "keep")
      /\ z.part = (IF kind = "keep" THEN t.part ELSE 0)
      /\ z.owed = (IF kind = "keep" THEN t.owed - (1 - more) ELSE 0)
      /\ (z.early <=> t.early \/ more = 1)
  BY <1>0 DEF Answers, SocketType, Healthy
<1>2. EarlyOf(z) = EarlyOf(t) + more
  BY <1>1 DEF EarlyOf
<1> HIDE DEF z
<1>3. ASSUME NEW x \in Conns, Watches(x), fd[x] = f
      PROVE  EntryFits(events[f], z, pending[x], written[x], live[x], parser[x], Buf(x))
  <2>1. EntryFits(events[f], t, pending[x], written[x], live[x], parser[x], Buf(x))
    BY <1>3 DEF Cycles, ConnFits
  <2>2. /\ Told(events[f], t, pending[x], written[x], live[x], parser[x], Buf(x))
        /\ events[f].rproc = "socket_readable"
    BY <1>0, <2>1 DEF EntryFits, Untold, SocketType
  <2>3. pending[x] \in Int /\ written[x] \in 0 .. Length - 1 /\ Buf(x) \in Seq(Kinds)
    <3>1. input \in InputType
      BY TypeFacts
    <3>2. input.buf \in Seq(Kinds) /\ <<>> \in Seq(Kinds)
      BY <3>1 DEF InputType, Kinds
    <3> QED
      BY <3>2, TypeFacts DEF Buf
  <2> HIDE DEF t
  <2>4. Told(events[f], z, pending[x], written[x], live[x], parser[x], Buf(x))
    <3>1. \/ more = 0 /\ t.owed > 0
          \/ more = 1 /\ t.owed = 0 /\ t.part > 0 /\ ~t.early /\ EarlyReply
      BY DEF t
    <3> QED
      BY <1>0, <1>1, <1>2, <2>2, <2>3, <3>1, ToldReply
  <2> QED
    BY <2>2, <2>4 DEF EntryFits
<1>4. World(f, z)
  BY DEF z
<1> QED
  BY <1>3, <1>4, WorldBecomes, WorldSteps

\* connect() is answered, the server closes, or the connection is reset.
LEMMA CutSteps ==
  ASSUME TypeOK, Cycles, NEW f \in Fds, NEW z, World(f, z),
         z.part = 0, z.owed = 0, z.early => sock[f].early, z.st # "connecting",
         \/ sock[f].st = "connecting" /\ z.inbox = <<>> /\ ~z.early
         \/ sock[f].st = "open" /\ ~Healthy(z) /\ (z.inbox = <<>> \/ z.inbox = sock[f].inbox)
  PROVE  Untouched
<1>1. ASSUME NEW x \in Conns, Watches(x), fd[x] = f
      PROVE  EntryFits(events[f], z, pending[x], written[x], live[x], parser[x], Buf(x))
  <2>1. EntryFits(events[f], sock[f], pending[x], written[x], live[x], parser[x], Buf(x))
    BY <1>1 DEF Cycles, ConnFits
  <2>2. CASE /\ Untold(events[f], sock[f], live[x], parser[x], Buf(x))
             /\ events[f].rproc = "socket_connected"
    <3>1. ~z.early /\ (z.inbox = <<>> \/ z.inbox = sock[f].inbox)
      BY <2>2 DEF Untold
    <3>2. Untold(events[f], z, live[x], parser[x], Buf(x))
      BY <2>2, <3>1, UntoldStays
    <3> QED
      BY <2>2, <3>2 DEF EntryFits
  <2>3. CASE /\ Told(events[f], sock[f], pending[x], written[x], live[x], parser[x], Buf(x))
             /\ events[f].rproc = "socket_readable"
    <3>1. pending[x] \in Int /\ written[x] \in 0 .. Length - 1 /\ Buf(x) \in Seq(Kinds)
          /\ sock[f] \in SocketType
      <4>1. input \in InputType
        BY TypeFacts
      <4>2. input.buf \in Seq(Kinds) /\ <<>> \in Seq(Kinds)
        BY <4>1 DEF InputType, Kinds
      <4> QED
        BY <4>2, TypeFacts DEF Buf
    <3>2. Told(events[f], z, pending[x], written[x], live[x], parser[x], Buf(x))
      <4>1. CASE sock[f].st = "connecting" /\ z.inbox = <<>> /\ ~z.early
        BY <2>3, <3>1, <4>1, ToldAnswered
      <4>2. CASE sock[f].st = "open" /\ ~Healthy(z)
                 /\ (z.inbox = <<>> \/ z.inbox = sock[f].inbox)
        BY <2>3, <3>1, <4>2, ToldCut
      <4> QED
        BY <4>1, <4>2
    <3> QED
      BY <2>3, <3>2 DEF EntryFits
  <2> QED
    BY <2>1, <2>2, <2>3 DEF EntryFits
<1> QED
  BY <1>1, WorldBecomes, WorldSteps

LEMMA OutsideSteps == ASSUME Together, Cycles, Undisturbed, Outside PROVE Untouched
<1>0. TypeOK /\ Owns(events, sock, fd, {}) /\ sock \in [Fds -> SocketType]
  BY OwnsEvents, TypeFacts
<1>1. ASSUME NEW f \in Fds, Accept(f) \/ Refuse(f) PROVE Untouched
  <2>1. PICK st \in {"open", "refused"} : World(f, Socket(st)) /\ sock[f].st = "connecting"
    BY <1>1 DEF Accept, Refuse
  <2> DEFINE z == Socket(st)
  <2>2. z.part = 0 /\ z.owed = 0 /\ ~z.early /\ z.st # "connecting" /\ z.inbox = <<>>
    BY DEF Socket
  <2> HIDE DEF z
  <2>3. World(f, z)
    BY <2>1 DEF z
  <2> QED
    BY <1>0, <2>1, <2>2, <2>3, CutSteps
<1>2. ASSUME NEW f \in Fds, Reply(f) PROVE Untouched
  <2>1. PICK kind \in Replies : Respond(f, kind, [sock[f] EXCEPT !.owed = @ - 1])
    BY <1>2 DEF Reply
  <2>2. Connected(f) /\ ~sock[f].fin /\ sock[f].owed > 0
    BY <1>2 DEF Reply
  <2>3. World(f, Answers(f, kind, 0))
    <3> DEFINE s == [sock[f] EXCEPT !.owed = @ - 1]
               a == [s EXCEPT !.inbox = Append(@, kind), !.fin = kind # "keep",
                              !.part = IF kind = "keep" THEN @ ELSE 0,
                              !.owed = IF kind = "keep" THEN @ ELSE 0]
    <3>1. World(f, a)
      BY <2>1 DEF Respond
    <3>2. sock[f] \in SocketType
      BY <1>0
    <3>3. a = Answers(f, kind, 0)
      <4>1. sock[f].early \in BOOLEAN /\ sock[f].owed \in Nat
        BY <3>2 DEF SocketType
      <4>2. (sock[f].early \/ 0 = 1) = sock[f].early /\ 1 - 0 = 1
        BY <4>1
      <4> QED
        BY <3>2, <4>1, <4>2 DEF Answers, SocketType
    <3> QED
      BY <3>1, <3>3
  <2> QED
    BY <1>0, <2>1, <2>2, <2>3, AnswerSteps
<1>3. ASSUME NEW f \in Fds, ReplyEarly(f) PROVE Untouched
  <2>1. PICK kind \in Replies : Respond(f, kind, [sock[f] EXCEPT !.early = TRUE])
    BY <1>3 DEF ReplyEarly
  <2>2. /\ Connected(f) /\ ~sock[f].fin /\ EarlyReply
        /\ sock[f].owed = 0 /\ sock[f].part > 0 /\ ~sock[f].early
    BY <1>3 DEF ReplyEarly
  <2>3. World(f, Answers(f, kind, 1))
    <3> DEFINE s == [sock[f] EXCEPT !.early = TRUE]
               a == [s EXCEPT !.inbox = Append(@, kind), !.fin = kind # "keep",
                              !.part = IF kind = "keep" THEN @ ELSE 0,
                              !.owed = IF kind = "keep" THEN @ ELSE 0]
    <3>1. World(f, a)
      BY <2>1 DEF Respond
    <3>2. sock[f] \in SocketType
      BY <1>0
    <3>3. a = Answers(f, kind, 1)
      <4>2. (sock[f].early \/ 1 = 1) = TRUE /\ sock[f].owed - (1 - 1) = sock[f].owed
        BY <2>2
      <4> QED
        BY <3>2, <4>2 DEF Answers, SocketType
    <3> QED
      BY <3>1, <3>3
  <2> QED
    BY <1>0, <2>1, <2>2, <2>3, AnswerSteps
<1>4. ASSUME NEW f \in Fds, Close(f) PROVE Untouched
  <2> DEFINE z == [sock[f] EXCEPT !.fin = TRUE, !.owed = 0, !.part = 0]
  <2>1. World(f, z) /\ sock[f].st = "open"
    BY <1>4 DEF Close, Connected
  <2>2. z.part = 0 /\ z.owed = 0 /\ (z.early <=> sock[f].early) /\ z.st = "open" /\ z.fin
        /\ z.inbox = sock[f].inbox
    BY <1>0, <2>1 DEF SocketType
  <2> HIDE DEF z
  <2>3. ~Healthy(z)
    BY <2>2 DEF Healthy
  <2> QED
    BY <1>0, <2>1, <2>2, <2>3, CutSteps
<1>5. ASSUME NEW f \in Fds, Reset(f) PROVE Untouched
  <2>1. PICK rest \in {<<>>, sock[f].inbox} : World(f, [Socket("reset") EXCEPT !.inbox = rest])
    BY <1>5 DEF Reset
  <2> DEFINE z == [Socket("reset") EXCEPT !.inbox = rest]
  <2>2. z.part = 0 /\ z.owed = 0 /\ ~z.early /\ z.st = "reset" /\ z.inbox = rest
    BY DEF Socket
  <2>3. sock[f].st = "open"
    BY <1>5 DEF Reset, Connected
  <2>4. World(f, z)
    BY <2>1
  <2> HIDE DEF z
  <2>5. ~Healthy(z)
    BY <2>2 DEF Healthy
  <2> QED
    BY <1>0, <2>2, <2>3, <2>4, <2>5, CutSteps
<1>6. ASSUME NEW f \in Fds, TakeFd(f) \/ ReleaseFd(f) PROVE Untouched
  <2>1. PICK st : Becomes(f, Socket(st)) /\ ~Open(sock[f])
    BY <1>6, WorldBecomes DEF TakeFd, ReleaseFd, Open, Foreign
  <2>2. \A x \in Conns : ~(Watches(x) /\ fd[x] = f)
    BY <1>0, <2>1 DEF Owns, Watches, WatchesIn
  <2> QED
    BY <1>0, <2>1, <2>2, WorldSteps
<1>7. \A f \in Fds : ~CloseAgain(f) /\ ~UseAgain(f)
  BY DEF Undisturbed, CloseAgain, UseAgain
<1> QED
  BY <1>1, <1>2, <1>3, <1>4, <1>5, <1>6, <1>7 DEF Outside

\* A step of the thread moves one connection at most.
OneMoves == \/ \A x \in Conns : Stays(x)
            \/ \E c \in Conns : Moves(c) /\ \A x \in Conns \ {c} : Stays(x)
Kept == /\ \A x \in Conns : ConnFits(x)'
        /\ Reads /\ (EarlyReply \/ OneMoves)

LEMMA StepKeeps ==
  ASSUME Cycles, NEW c \in Conns, StepOf(c), Reads, EarlyReply \in BOOLEAN PROVE Kept
<1>1. \A x \in Conns \ {c} : ConnFits(x)' /\ Stays(x)
  BY SameFits DEF Cycles, StepOf
<1> QED
  BY <1>1 DEF StepOf, Kept, OneMoves

LEMMA SameKeeps ==
  ASSUME Cycles, \A x \in Conns : Same(x), Reads PROVE Kept
BY SameFits DEF Cycles, Kept, OneMoves

LEMMA NextKeeps ==
  ASSUME Delay = FALSE, Together, Cycles, Undisturbed, [Next]_vars PROVE Kept
<1>0. EarlyReply \in BOOLEAN
  BY ConnectionAssumption DEF ConnectionAssumption
<1>1. Typed /\ EventsOwnTheirSocket /\ \A c \in Conns : ~delay_request(c)
  BY OwnedEvents DEF delay_request, Together, NoTimers
<1>2. ASSUME NEW c \in Conns, thread_main(c) PROVE Kept
  BY <1>0, <1>2, ThreadMainSteps, StepKeeps
<1>3. CASE aeApiPoll \/ EndOfBatch \/ \E f \in Fds : NextEntry(f)
  BY <1>3, LoopSteps, SameKeeps
<1>4. CASE ParseResponse
  <2>1. PICK c : c = input.c
    OBVIOUS
  <2>2. c \in Conns
    BY <1>4, <2>1, ParsingFacts
  <2> QED
    BY <1>0, <1>4, <2>1, <2>2, ParseSteps, StepKeeps
<1>5. CASE ReadEnd
  BY <1>5, ReadEndSteps, SameKeeps
<1>6. CASE ReadError
  <2>1. PICK c : c = input.c
    OBVIOUS
  <2>2. c \in Conns
    BY <1>1, <1>6, <2>1 DEF ReadError, Typed, HandlersHaveFd
  <2> QED
    BY <1>0, <1>6, <2>1, <2>2, ReadErrorSteps, StepKeeps
<1>7. ASSUME NEW f \in Fds, ReadHalf(f) \/ WriteHalf(f) PROVE Kept
  <2>1. PICK c : c = events[f].data
    OBVIOUS
  <2>2. events[f].mask # {}
    BY <1>7 DEF ReadHalf, WriteHalf, CallsWrite, Valid
  <2>3. c \in Conns
    BY <1>1, <2>1, <2>2 DEF EventsOwnTheirSocket
  <2> QED
    BY <1>0, <1>7, <2>1, <2>3, HalfSteps, StepKeeps
<1>8. CASE Outside
  BY <1>8, OutsideSteps DEF Untouched, Kept, OneMoves
<1>9. CASE UNCHANGED vars
  <2>1. UNCHANGED <<fd, written, pending, parser, live, events, sock, input, pc>>
    BY <1>9 DEF vars, conn, loop
  <2>2. \A x \in Conns : Same(x)
    BY <2>1 DEF Same, Watches, WatchesIn, Buf
  <2>3. Reads
    BY <2>1 DEF Reads, ParsesOwn, Cycles
  <2> QED
    BY <2>2, <2>3, SameKeeps
<1> QED
  BY <1>1, <1>2, <1>3, <1>4, <1>5, <1>6, <1>7, <1>8, <1>9 DEF Next, Thread

LEMMA InitCycles == Init => Cycles
<1> SUFFICES ASSUME Init PROVE Cycles
  OBVIOUS
<1>1. \A c \in Conns : ~Watches(c) /\ ~live[c] /\ pending[c] = 0
  BY Numbers DEF Init, Watches, WatchesIn
<1>2. pc = "poll" /\ input.c = NoConn
  BY DEF Init, NotReading
<1>3. touched = {}
  BY DEF Init
<1> QED
  BY <1>1, <1>2, <1>3 DEF Cycles, ConnFits, ParsesOwn

\* Only a thread that uses a number it has closed touches a socket of this one.
LEMMA NextCalm == ASSUME Undisturbed, touched = {}, [Next]_vars PROVE touched' = {}
<1>1. ASSUME NEW c, NEW table, NEW count, reconnect_socket(c, table, count) PROVE touched' = {}
  BY <1>1 DEF reconnect_socket
<1>2. CASE others' = others
  BY <1>2 DEF others
<1>3. CASE aeApiPoll \/ EndOfBatch \/ ReadEnd \/ \E f \in Fds : NextEntry(f)
  BY <1>2, <1>3 DEF aeApiPoll, EndOfBatch, ReadEnd, NextEntry
<1>4. CASE \E c \in Conns : thread_main(c) \/ delay_request(c)
  BY <1>2, <1>4 DEF thread_main, delay_request
<1>5. CASE ReadError
  BY <1>1, <1>5 DEF ReadError
<1>6. CASE ParseResponse
  <2>1. ASSUME NEW c, NEW keep, NEW ok, NEW late, response_complete(c, keep, ok, late)
        PROVE  touched' = {}
    BY <1>1, <1>2, <2>1 DEF response_complete
  <2> QED
    BY <1>2, <1>6, <2>1 DEF ParseResponse
<1>7. ASSUME NEW c, NEW f, socket_connected(c, f) PROVE touched' = {}
  BY <1>1, <1>2, <1>7 DEF socket_connected
<1>8. ASSUME NEW c, NEW f, socket_writeable(c, f) PROVE touched' = {}
  BY <1>1, <1>2, <1>8 DEF socket_writeable, DelayWrite, WriteRequest
<1>9. ASSUME NEW c, socket_readable(c) PROVE touched' = {}
  BY <1>2, <1>9 DEF socket_readable
<1>10. CASE \E f \in Fds : ReadHalf(f) \/ WriteHalf(f)
  BY <1>7, <1>8, <1>9, <1>10 DEF ReadHalf, WriteHalf
<1>11. CASE Outside
  <2>1. \A f \in Fds : ~CloseAgain(f) /\ ~UseAgain(f)
    BY DEF Undisturbed, CloseAgain, UseAgain
  <2>2. ASSUME NEW f, NEW s, World(f, s) PROVE touched' = {}
    BY <1>2, <2>2 DEF World
  <2>3. ASSUME NEW f \in Fds, ReleaseFd(f) PROVE touched' = {}
    BY <1>2, <2>3 DEF ReleaseFd
  <2> QED
    BY <1>11, <2>1, <2>2, <2>3 DEF Outside, Accept, Refuse, Reply, ReplyEarly, Respond, Close,
                                   Reset, TakeFd
<1>12. CASE UNCHANGED vars
  BY <1>2, <1>12 DEF vars
<1> QED
  BY <1>3, <1>4, <1>5, <1>6, <1>10, <1>11, <1>12 DEF Next, Thread

LEMMA NextCycles ==
  ASSUME Delay = FALSE
  PROVE  Together /\ Cycles /\ Undisturbed /\ [Next]_vars => Cycles'
BY NextKeeps, NextCalm DEF Kept, Cycles, Reads

LEMMA AlwaysCycles ==
  ASSUME Delay = FALSE PROVE Spec /\ []Undisturbed => [](Together /\ Cycles)
<1>1. Init => Together /\ Cycles
  BY InitTogether, InitCycles
<1>2. Together /\ Cycles /\ Undisturbed /\ [Next]_vars => (Together /\ Cycles)'
  BY NextTogether, NextCycles
<1> QED
  BY <1>1, <1>2, PTL DEF Spec

-----------------------------------------------------------------------------
(* What follows.                                                           *)

\* The owner of a descriptor is the connection that watches it.
LEMMA WatchedIsWatches ==
  ASSUME Together, NEW c \in Conns, NEW f \in Fds, Watched(c, f)
  PROVE  fd[c] = f /\ Watches(c) /\ R \in events[f].mask
BY OwnedEvents DEF EventsOwnTheirSocket, Watched, Watches, WatchesIn

LEMMA TalliedFacts ==
  ASSUME Together, Cycles, NEW c \in Conns, Watches(c)
  PROVE  LET e == events[fd[c]]
             s == sock[fd[c]]
         IN  /\ s \in SocketType /\ fd[c] \in Fds
             /\ s.owed \in Nat /\ s.part \in Nat /\ s.inbox \in Seq(Replies)
             /\ pending[c] \in Int /\ written[c] \in 0 .. Length - 1
             /\ EntryFits(e, s, pending[c], written[c], live[c], parser[c], Buf(c))
<1>1. TypeOK /\ fd[c] \in Fds
  BY DEF Together, Typed, Watches, WatchesIn
<1>2. sock[fd[c]] \in SocketType
  BY <1>1, TypeFacts
<1> QED
  BY <1>1, <1>2, TypeFacts, SocketFields DEF Cycles, ConnFits

\* Without delay() a connection begins a request cycle only on a socket on which
\* nothing of the cycle before is outstanding, however requests are cut into pieces,
\* whatever the server answers, and early, while no other thread uses a number that it
\* has closed: response_complete makes a socket writeable again only after the last
\* response, and socket_writeable stays until a whole batch is written.
THEOREM CyclesDoNotOverlap ==
  ASSUME Delay = FALSE PROVE Spec /\ []Undisturbed => []OneCycleAtATime
<1>1. Together /\ Cycles => OneCycleAtATime
  <2> SUFFICES ASSUME Together, Cycles, NEW c \in Conns, NEW f \in Fds,
                      Starting(c, f), Connected(f)
               PROVE  sock[f].owed = 0 /\ sock[f].part = 0 /\ sock[f].inbox = <<>>
    BY DEF OneCycleAtATime
  <2>1. Watches(c) /\ fd[c] = f
    BY WatchedIsWatches DEF Starting
  <2>2. /\ sock[f].inbox \in Seq(Replies)
        /\ EntryFits(events[f], sock[f], pending[c], written[c], live[c], parser[c], Buf(c))
    BY <2>1, TalliedFacts
  <2>3. /\ Told(events[f], sock[f], pending[c], written[c], live[c], parser[c], Buf(c))
        /\ Ready2Write(events[f], written[c])
    BY <2>2 DEF Starting, EntryFits, Untold, Ready2Write
  <2>4. sock[f].owed = 0 /\ sock[f].part = 0 /\ Len(sock[f].inbox) = 0
    BY <2>3 DEF Told, Tally
  <2> QED
    BY <2>2, <2>4, EmptySeq
<1> QED
  BY <1>1, AlwaysCycles, PTL

\* Without delay(), and with a server that answers requests it has received, the
\* pending of an open cycle on a healthy socket is what is unwritten, at the server, on
\* the way and read: no response is awaited that will not come, and none comes that is
\* not awaited, while no other thread uses a number that it has closed.
THEOREM PendingCounts ==
  ASSUME Delay = FALSE, EarlyReply = FALSE
  PROVE  Spec /\ []Undisturbed => []PendingIsOutstanding
<1>1. Together /\ Cycles => PendingIsOutstanding
  <2> SUFFICES ASSUME Together, Cycles, NEW c \in Conns,
                      live[c], Connected(fd[c]), ~sock[fd[c]].fin
               PROVE  pending[c] = Unsent(c) + sock[fd[c]].owed + Len(sock[fd[c]].inbox)
                                   + Unparsed(c)
    BY DEF PendingIsOutstanding
  <2> DEFINE e == events[fd[c]]
             s == sock[fd[c]]
             p == pending[c]
             w == written[c]
             ready == Ready2Write(e, w)
  <2>1. Watches(c)
    BY DEF Cycles, ConnFits
  <2>2. /\ s \in SocketType /\ p \in Int /\ w \in 0 .. Length - 1
        /\ EntryFits(e, s, p, w, live[c], parser[c], Buf(c))
    BY <2>1, TalliedFacts
  <2>3. Told(e, s, p, w, live[c], parser[c], Buf(c))
    BY <2>2 DEF EntryFits, Untold
  <2>4. /\ Tally(ready, TRUE, s.part, s.owed, EarlyOf(s), Len(s.inbox), p, w,
                 RestOf(parser[c], Buf(c)), Len(Buf(c)))
        /\ Phases(ready, EarlyOf(s), p, live[c])
    <3>1. Healthy(s) = TRUE
      BY DEF Healthy, Connected
    <3> QED
      BY <2>3, <3>1 DEF Told
  <2>5. EarlyOf(s) = 0 /\ (ready => p = Pipeline)
    BY <2>4 DEF Phases
  <2>6. /\ ready => Len(s.inbox) = 0 /\ Len(Buf(c)) = 0 /\ s.owed = 0
        /\ ~ready => p = PartOf(w) + s.owed + Len(s.inbox) + Len(Buf(c)) - 0
    BY <2>4, <2>5 DEF Tally, Balanced
  <2>7. Unparsed(c) = Len(Buf(c))
    BY DEF Unparsed, Buf
  <2>8. Unsent(c) = IF ready THEN Pipeline ELSE PartOf(w)
    BY <2>2 DEF Unsent, Ready2Write, PartOf
  <2>9. /\ s.owed \in Nat /\ Len(s.inbox) \in Nat /\ PartOf(w) \in Nat /\ Len(Buf(c)) \in Nat
    <3>1. input \in InputType
      BY TypeFacts DEF Together, Typed
    <3>2. input.buf \in Seq(Kinds) /\ <<>> \in Seq(Kinds)
      BY <3>1 DEF InputType, Kinds
    <3>3. Buf(c) \in Seq(Kinds)
      BY <3>2 DEF Buf
    <3> QED
      BY <2>2, <3>3, SocketFields, PartOfBatch, LenProperties
  <2> HIDE DEF ready, s, p, w
  <2>10. p = Unsent(c) + s.owed + Len(s.inbox) + Unparsed(c)
    BY <2>2, <2>5, <2>6, <2>7, <2>8, <2>9, Numbers
  <2> QED
    BY <2>10 DEF s, p
<1> QED
  BY <1>1, AlwaysCycles, PTL

\* Nor does such a connection ever wait for nothing: when the loop polls, its
\* connected socket has an event it listens for, or the server owes it an answer;
\* again while no other thread uses a number that it has closed.
THEOREM NeverStalls ==
  ASSUME Delay = FALSE, EarlyReply = FALSE PROVE Spec /\ []Undisturbed => []NoStall
<1>1. Together /\ Cycles => NoStall
  <2> SUFFICES ASSUME Together, Cycles, NEW c \in Conns, NEW f \in Fds,
                      pc = "poll", Watched(c, f), Connected(f),
                      Ready(f) \intersect events[f].mask = {}
               PROVE  sock[f].owed > 0
    BY DEF NoStall
  <2>1. Watches(c) /\ fd[c] = f /\ R \in events[f].mask
    BY WatchedIsWatches
  <2>2. /\ sock[f] \in SocketType /\ pending[c] \in Int /\ written[c] \in 0 .. Length - 1
        /\ sock[f].owed \in Nat /\ sock[f].inbox \in Seq(Replies)
        /\ EntryFits(events[f], sock[f], pending[c], written[c], live[c], parser[c], Buf(c))
    BY <2>1, TalliedFacts
  <2>3. W \in Ready(f) /\ (sock[f].inbox # <<>> \/ sock[f].fin => R \in Ready(f))
    BY DEF Ready, Connected, Failed
  <2>4. W \notin events[f].mask /\ sock[f].inbox = <<>> /\ ~sock[f].fin
    BY <2>1, <2>3
  <2>5. Told(events[f], sock[f], pending[c], written[c], live[c], parser[c], Buf(c))
    BY <2>2, <2>4 DEF EntryFits, Untold
  <2>6. written[c] = 0 /\ ~Ready2Write(events[f], written[c])
    BY <2>2, <2>4, <2>5, LengthPositive DEF Told, Ready2Write
  <2>7. EarlyOf(sock[f]) = 0 /\ pending[c] \in 1 .. Pipeline
    BY <2>5, <2>6 DEF Told, Phases
  <2>8. Buf(c) = <<>>
    BY Numbers DEF Cycles, Buf
  <2>9. Balanced(FALSE, sock[f].part, sock[f].owed, 0, 0, pending[c], 0, 0)
    <3>1. Healthy(sock[f]) = TRUE /\ Ready2Write(events[f], written[c]) = FALSE
      BY <2>4, <2>6 DEF Healthy, Connected, Ready2Write
    <3>2. Len(sock[f].inbox) = 0 /\ Len(Buf(c)) = 0
      BY <2>4, <2>8
    <3> QED
      BY <2>5, <2>6, <2>7, <3>1, <3>2 DEF Told, Tally
  <2> QED
    BY <2>2, <2>7, <2>9, NothingAfterZero DEF Balanced
<1> QED
  BY <1>1, AlwaysCycles, PTL

-----------------------------------------------------------------------------
(* The closed loop.                                                        *)

\* The phases and what is due, as ClosedLoop has them.
PhaseOf == [c \in Conns |-> IF live[c] THEN "busy"
                            ELSE IF \E f \in Fds : /\ Watched(c, f)
                                                   /\ events[f].rproc = "socket_readable"
                                 THEN "idle" ELSE "down"]
DueOf == [c \in Conns |-> IF live[c] THEN pending[c] ELSE 0]

LEMMA PhasesOf ==
  ASSUME EventsOwnTheirSocket
  PROVE  PhaseOf = [c \in Conns |-> Phase(c)] /\ DueOf = [c \in Conns |-> Due(c)]
<1>1. ASSUME NEW c \in Conns
      PROVE  Tells(c) <=> \E f \in Fds : Watched(c, f) /\ events[f].rproc = "socket_readable"
  BY DEF Tells, Watches, WatchesIn, Watched, EventsOwnTheirSocket
<1> QED
  BY <1>1 DEF PhaseOf, DueOf, Phase, Due

\* A step that moves c alone is one of the closed loop, which names the functions.
LEMMA MovesLoop ==
  ASSUME NEW c \in Conns, Moves(c), \A x \in Conns \ {c} : Stays(x),
         PhaseOf = [x \in Conns |-> Phase(x)], DueOf = [x \in Conns |-> Due(x)],
         PhaseOf' = [x \in Conns |-> Phase(x)'], DueOf' = [x \in Conns |-> Due(x)']
  PROVE  \/ PhaseOf' = PhaseOf /\ DueOf' = DueOf
         \/ Loop!Up(c) \/ Loop!Issue(c) \/ Loop!Respond(c) \/ Loop!Down(c)
<1> DEFINE a == PhaseOf
           d == DueOf
           a1 == PhaseOf'
           d1 == DueOf'
<1>1. /\ \A x \in Conns : a[x] = Phase(x) /\ d[x] = Due(x)
      /\ \A x \in Conns : a1[x] = Phase(x)' /\ d1[x] = Due(x)'
  OBVIOUS
<1>2. \A x \in Conns \ {c} : a1[x] = a[x] /\ d1[x] = d[x]
  BY <1>1 DEF Stays
<1>3. /\ a = [x \in Conns |-> a[x]] /\ d = [x \in Conns |-> d[x]]
      /\ a1 = [x \in Conns |-> a1[x]] /\ d1 = [x \in Conns |-> d1[x]]
  OBVIOUS
<1>4. /\ Stays(c) => a1[c] = a[c] /\ d1[c] = d[c]
      /\ Rises(c) => a[c] = "down" /\ a1[c] = "idle" /\ d1[c] = d[c]
      /\ Issues(c) => a[c] = "idle" /\ a1[c] = "busy" /\ d1[c] = Pipeline
      /\ Takes(c) => /\ a[c] = "busy" /\ d[c] > 0 /\ d1[c] = d[c] - 1
                     /\ a1[c] = IF d[c] = 1 THEN "idle" ELSE "busy"
      /\ Falls(c) => a[c] # "down" /\ a1[c] = "down" /\ d1[c] = 0
  BY <1>1 DEF Stays, Rises, Issues, Takes, Falls
<1> HIDE DEF a, d, a1, d1
<1>5. a1 = [a EXCEPT ![c] = a1[c]] /\ d1 = [d EXCEPT ![c] = d1[c]]
  BY <1>2, <1>3
<1>6. d1[c] = d[c] => d1 = d
  BY <1>2, <1>3
<1>7. CASE Stays(c)
  <2>1. a1 = a /\ d1 = d
    BY <1>2, <1>3, <1>4, <1>7
  <2> QED
    BY <2>1 DEF a, d, a1, d1
<1>8. CASE Rises(c)
  <2>1. a[c] = "down" /\ a1 = [a EXCEPT ![c] = "idle"] /\ d1 = d
    BY <1>4, <1>5, <1>6, <1>8
  <2> QED
    BY <2>1 DEF Loop!Up, PhaseOf, DueOf, a, d, a1, d1
<1>9. CASE Issues(c)
  <2>1. a[c] = "idle" /\ a1 = [a EXCEPT ![c] = "busy"] /\ d1 = [d EXCEPT ![c] = Pipeline]
    BY <1>4, <1>5, <1>9
  <2> QED
    BY <2>1 DEF Loop!Issue, PhaseOf, DueOf, a, d, a1, d1
<1>10. CASE Takes(c)
  <2>1. /\ a[c] = "busy" /\ d[c] > 0 /\ d1 = [d EXCEPT ![c] = @ - 1]
        /\ a1 = [a EXCEPT ![c] = IF d[c] = 1 THEN "idle" ELSE "busy"]
    BY <1>4, <1>5, <1>10
  <2> QED
    BY <2>1 DEF Loop!Respond, PhaseOf, DueOf, a, d, a1, d1
<1>11. CASE Falls(c)
  <2>1. a[c] # "down" /\ a1 = [a EXCEPT ![c] = "down"] /\ d1 = [d EXCEPT ![c] = 0]
    BY <1>4, <1>5, <1>11
  <2> QED
    BY <2>1 DEF Loop!Down, PhaseOf, DueOf, a, d, a1, d1
<1> QED
  BY <1>7, <1>8, <1>9, <1>10, <1>11 DEF Moves

LEMMA InitLoop == Init => Loop!Init
<1>1. Init => \A c \in Conns : ~live[c] /\ \A f \in Fds : ~Watched(c, f)
  BY DEF Init, Watched
<1> QED
  BY <1>1 DEF Loop!Init

LEMMA NextLoop ==
  ASSUME Delay = FALSE, EarlyReply = FALSE, Together, Cycles, Undisturbed, [Next]_vars
  PROVE  Loop!Next \/ (PhaseOf' = PhaseOf /\ DueOf' = DueOf)
<1>1. OneMoves
  BY NextKeeps DEF Kept
<1>2. EventsOwnTheirSocket /\ EventsOwnTheirSocket'
  <2>1. Together'
    BY NextTogether
  <2> QED
    BY <2>1, OwnedEvents, OwnedEventsNext
<1>3. PhaseOf = [c \in Conns |-> Phase(c)] /\ DueOf = [c \in Conns |-> Due(c)]
  BY <1>2, PhasesOf
<1>4. ASSUME NEW c \in Conns
      PROVE  Tells(c)' <=> (\E f \in Fds : Watched(c, f) /\ events[f].rproc = "socket_readable")'
  BY <1>2 DEF Tells, Watches, WatchesIn, Watched, EventsOwnTheirSocket
<1>5. PhaseOf' = [c \in Conns |-> Phase(c)'] /\ DueOf' = [c \in Conns |-> Due(c)']
  BY <1>4 DEF PhaseOf, DueOf, Phase, Due
<1>6. CASE \A x \in Conns : Stays(x)
  BY <1>3, <1>5, <1>6 DEF Stays
<1>7. ASSUME NEW c \in Conns, Moves(c), \A x \in Conns \ {c} : Stays(x)
      PROVE  Loop!Next \/ (PhaseOf' = PhaseOf /\ DueOf' = DueOf)
  BY <1>3, <1>5, <1>7, MovesLoop DEF Loop!Next
<1> QED
  BY <1>1, <1>6, <1>7 DEF OneMoves

\* Without delay(), and with a server that answers requests it has received, each
\* connection of a thread is a closed loop: it writes the cfg.pipeline requests of a
\* cycle, counts their responses down in response_complete and only then begins the
\* next one; what cuts a cycle short closes the socket.  No other thread uses a number
\* that it has closed.
THEOREM ClosedLoopImplemented ==
  ASSUME Delay = FALSE, EarlyReply = FALSE
  PROVE  Spec /\ []Undisturbed => ImplementsClosedLoop
<1>1. Init => Loop!Init
  BY InitLoop
<1>2. Together /\ Cycles /\ Undisturbed /\ [Next]_vars =>
        [Loop!Next]_<<[c \in Conns |-> IF live[c] THEN "busy"
                                       ELSE IF \E f \in Fds :
                                                 /\ Watched(c, f)
                                                 /\ events[f].rproc = "socket_readable"
                                            THEN "idle" ELSE "down"],
                      [c \in Conns |-> IF live[c] THEN pending[c] ELSE 0]>>
  BY NextLoop DEF PhaseOf, DueOf
<1> QED
  BY <1>1, <1>2, AlwaysCycles, PTL DEF Spec, ImplementsClosedLoop, Loop!Spec

-----------------------------------------------------------------------------
(***************************************************************************)
(* The counters.  A step adds one to each of names, unless a counter has   *)
(* reached the bound; how often connect() fails does not matter here.      *)
(***************************************************************************)
Books(n, m, names) ==
  /\ n \in CounterType /\ m \in CounterType
  /\ (\A x \in Counters : m[x] < MaxCount) =>
       /\ \A x \in Counters : n[x] < MaxCount
       /\ \A x \in Counters \ {"connect"} : m[x] = n[x] + (IF x \in names THEN 1 ELSE 0)

LEMMA BooksSame == ASSUME NEW n \in CounterType PROVE Books(n, n, {})
BY Numbers DEF Books, CounterType

LEMMA BooksBump ==
  ASSUME NEW n, NEW m, NEW names, Books(n, m, names), NEW more,
         \A x \in Counters : x \in names => x \notin more
  PROVE  Books(n, Bump(m, more), names \union more)
<1> DEFINE k == Bump(m, more)
<1>1. n \in CounterType /\ m \in CounterType /\ MaxCount \in Nat
  BY Numbers DEF Books
<1>2. k \in CounterType
  BY <1>1, BumpTyped
<1>3. ASSUME NEW x \in Counters, k[x] < MaxCount
      PROVE  m[x] < MaxCount /\ k[x] = m[x] + (IF x \in more THEN 1 ELSE 0)
  <2>1. m[x] \in Nat /\ k[x] = IF x \in more /\ m[x] < MaxCount THEN m[x] + 1 ELSE m[x]
    BY <1>1 DEF Bump, CounterType
  <2> QED
    BY <1>1, <1>3, <2>1
<1> HIDE DEF k
<1>4. ASSUME \A x \in Counters : k[x] < MaxCount
      PROVE  /\ \A x \in Counters : n[x] < MaxCount
             /\ \A x \in Counters \ {"connect"} :
                  k[x] = n[x] + (IF x \in names \union more THEN 1 ELSE 0)
  <2>1. \A x \in Counters : m[x] < MaxCount /\ k[x] = m[x] + (IF x \in more THEN 1 ELSE 0)
    BY <1>3, <1>4
  <2>2. /\ \A x \in Counters : n[x] < MaxCount
        /\ \A x \in Counters \ {"connect"} : m[x] = n[x] + (IF x \in names THEN 1 ELSE 0)
    BY <2>1 DEF Books
  <2>3. ASSUME NEW x \in Counters \ {"connect"}
        PROVE  k[x] = n[x] + (IF x \in names \union more THEN 1 ELSE 0)
    <3>1. n[x] \in Nat /\ x \in Counters
      BY <1>1 DEF CounterType
    <3>2. k[x] = m[x] + (IF x \in more THEN 1 ELSE 0)
          /\ m[x] = n[x] + (IF x \in names THEN 1 ELSE 0)
      BY <2>1, <2>2, <3>1
    <3> QED
      BY <3>1, <3>2
  <2> QED
    BY <2>2, <2>3
<1>5. Books(n, k, names \union more)
  BY <1>1, <1>2, <1>4 DEF Books
<1> QED
  BY <1>5 DEF k

\* Opening a socket, which may fail.
LEMMA BooksConnect ==
  ASSUME NEW c, NEW open, NEW table, NEW count, NEW names, Books(num, count, names),
         connect_socket(c, open, table, count)
  PROVE  Books(num, num', names)
<1>1. num' = count \/ num' = Bump(count, {"connect"})
  BY ConnectCases
<1>2. \A m \in CounterType : \A x \in Counters \ {"connect"} :
        Bump(m, {"connect"})[x] = m[x]
  BY DEF Bump
<1>3. ASSUME num' = Bump(count, {"connect"}) PROVE Books(num, num', names)
  <2>1. num \in CounterType /\ count \in CounterType /\ num' \in CounterType /\ MaxCount \in Nat
    BY <1>3, BumpTyped, Numbers DEF Books
  <2>2. \A x \in Counters : num'[x] < MaxCount => count[x] < MaxCount
    BY <1>3, <2>1 DEF Bump, CounterType
  <2>3. \A x \in Counters \ {"connect"} : num'[x] = count[x]
    BY <1>2, <1>3, <2>1
  <2> QED
    BY <2>1, <2>2, <2>3 DEF Books
<1> QED
  BY <1>1, <1>3

\* The connections with an open cycle.
OpenOnes == {c \in Conns : live[c]}
One(b) == IF b THEN 1 ELSE 0

LEMMA OpenChanges ==
  ASSUME IsFiniteSet(Conns), live \in [Conns -> BOOLEAN], live' \in [Conns -> BOOLEAN],
         NEW c \in Conns, \A x \in Conns \ {c} : live'[x] = live[x]
  PROVE  /\ Cardinality(OpenOnes) \in Nat /\ Cardinality(OpenOnes') \in Nat
         /\ Cardinality(OpenOnes') = Cardinality(OpenOnes) + One(live'[c]) - One(live[c])
<1> DEFINE A == OpenOnes
           B == OpenOnes'
<1>1. /\ IsFiniteSet(A) /\ IsFiniteSet(B)
      /\ (c \in A <=> live[c]) /\ (c \in B <=> live'[c])
      /\ \A x \in Conns \ {c} : x \in A <=> x \in B
      /\ A \subseteq Conns /\ B \subseteq Conns
  <2>1. A \subseteq Conns /\ B \subseteq Conns
    BY DEF OpenOnes
  <2>2. IsFiniteSet(A) /\ IsFiniteSet(B)
    BY <2>1, FS_Subset
  <2> QED
    BY <2>1, <2>2 DEF OpenOnes
<1>2. live[c] \in BOOLEAN /\ live'[c] \in BOOLEAN
  OBVIOUS
<1> HIDE DEF A, B
<1>3. Cardinality(A) \in Nat /\ Cardinality(B) \in Nat
  BY <1>1, FS_CardinalityType
<1>4. CASE c \in A /\ c \in B
  <2>1. A = B
    BY <1>1, <1>4
  <2> QED
    BY <1>1, <1>3, <1>4, <2>1 DEF A, B, One
<1>5. CASE c \notin A /\ c \notin B
  <2>1. A = B
    BY <1>1, <1>5
  <2> QED
    BY <1>1, <1>3, <1>5, <2>1 DEF A, B, One
<1>6. CASE c \notin A /\ c \in B
  <2>1. B = A \union {c}
    BY <1>1, <1>6
  <2>2. Cardinality(B) = Cardinality(A) + 1
    BY <1>1, <1>6, <2>1, FS_AddElement
  <2> QED
    BY <1>1, <1>3, <1>6, <2>2 DEF A, B, One
<1>7. CASE c \in A /\ c \notin B
  <2>1. B = A \ {c}
    BY <1>1, <1>7
  <2>2. Cardinality(B) = Cardinality(A) - 1
    BY <1>1, <1>7, <2>1, FS_RemoveElement
  <2> QED
    BY <1>1, <1>3, <1>7, <2>2 DEF A, B, One
<1> QED
  BY <1>4, <1>5, <1>6, <1>7

\* A cycle that is issued is open, or lost; one that is not open any more is
\* sampled or lost.
Accounted(names, before, after) ==
  LET sampled == One("latency" \in names) + One("timeout" \in names)
      lost == One("read" \in names) + One("write" \in names)
      opened == One(after) - One(before)
  IN  /\ sampled + opened <= One("issued" \in names)
      /\ One("issued" \in names) <= sampled + opened + lost

LEMMA Ledger ==
  ASSUME IsFiniteSet(Conns), live \in [Conns -> BOOLEAN], live' \in [Conns -> BOOLEAN],
         CyclesAreCounted, NEW c \in Conns, \A x \in Conns \ {c} : live'[x] = live[x],
         NEW names, Books(num, num', names), Accounted(names, live[c], live'[c])
  PROVE  CyclesAreCounted'
<1> DEFINE a == Cardinality(OpenOnes)
           b == Cardinality(OpenOnes')
           opened == One(live'[c]) - One(live[c])
<1>1. a \in Nat /\ b \in Nat /\ b = a + opened
  <2>1. One(live'[c]) \in {0, 1} /\ One(live[c]) \in {0, 1}
    BY DEF One
  <2> QED
    BY <2>1, OpenChanges
<1>2. opened \in Int
  BY DEF One
<1> HIDE DEF a, b, opened
<1>3. SUFFICES ASSUME \A x \in Counters : num'[x] < MaxCount
               PROVE  /\ num'["latency"] + num'["timeout"] + b <= num'["issued"]
                      /\ num'["issued"] <= num'["latency"] + num'["timeout"] + b
                                           + num'["read"] + num'["write"]
  BY DEF CyclesAreCounted, b, OpenOnes
<1>4. /\ num["latency"] + num["timeout"] + a <= num["issued"]
      /\ num["issued"] <= num["latency"] + num["timeout"] + a + num["read"] + num["write"]
  <2>1. \A x \in Counters : num[x] < MaxCount
    BY <1>3 DEF Books
  <2> QED
    BY <2>1 DEF CyclesAreCounted, a, OpenOnes
<1>5. \A x \in {"latency", "timeout", "issued", "read", "write"} :
        num[x] \in Nat /\ num'[x] = num[x] + One(x \in names)
  <2>1. num \in CounterType
    BY DEF Books
  <2>2. {"latency", "timeout", "issued", "read", "write"} \subseteq Counters \ {"connect"}
    BY DEF Counters
  <2>3. \A x \in Counters \ {"connect"} : num'[x] = num[x] + (IF x \in names THEN 1 ELSE 0)
    BY <1>3 DEF Books
  <2> QED
    BY <2>1, <2>2, <2>3 DEF CounterType, One
<1>6. \A x : One(x \in names) \in {0, 1}
  BY DEF One
<1>7. /\ One("latency" \in names) + One("timeout" \in names) + opened <= One("issued" \in names)
      /\ One("issued" \in names) <= One("latency" \in names) + One("timeout" \in names) + opened
                                    + (One("read" \in names) + One("write" \in names))
  BY DEF Accounted, opened
<1> DEFINE la == num["latency"]
           ti == num["timeout"]
           is == num["issued"]
           re == num["read"]
           wr == num["write"]
           dla == One("latency" \in names)
           dti == One("timeout" \in names)
           dis == One("issued" \in names)
           dre == One("read" \in names)
           dwr == One("write" \in names)
<1>8. /\ la \in Nat /\ ti \in Nat /\ is \in Nat /\ re \in Nat /\ wr \in Nat
      /\ dla \in Int /\ dti \in Int /\ dis \in Int /\ dre \in Int /\ dwr \in Int
      /\ num'["latency"] = la + dla /\ num'["timeout"] = ti + dti
      /\ num'["issued"] = is + dis /\ num'["read"] = re + dre /\ num'["write"] = wr + dwr
  BY <1>5, <1>6
<1> HIDE DEF la, ti, is, re, wr, dla, dti, dis, dre, dwr
<1>9. la + ti + a <= is /\ is <= la + ti + a + re + wr
  BY <1>4 DEF la, ti, is, re, wr
<1>10. dla + dti + opened <= dis /\ dis <= dla + dti + opened + (dre + dwr)
  BY <1>7 DEF dla, dti, dis, dre, dwr
<1> QED
  BY ONLY <1>1, <1>2, <1>8, <1>9, <1>10

\* A step that opens and ends no cycle.
LEMMA LedgerStays ==
  ASSUME CyclesAreCounted, live' = live, Books(num, num', {}) PROVE CyclesAreCounted'
<1>1. SUFFICES ASSUME \A x \in Counters : num'[x] < MaxCount
               PROVE  LET sampled == num'["latency"] + num'["timeout"]
                          open == Cardinality({c \in Conns : live[c]})
                      IN  /\ sampled + open <= num'["issued"]
                          /\ num'["issued"] <= sampled + open + num'["read"] + num'["write"]
  BY DEF CyclesAreCounted
<1>2. /\ \A x \in Counters : num[x] < MaxCount
      /\ \A x \in Counters \ {"connect"} : num'[x] = num[x] + 0
      /\ num \in CounterType
  BY <1>1 DEF Books
<1>3. \A x \in {"latency", "timeout", "issued", "read", "write"} : num'[x] = num[x]
  BY <1>2 DEF CounterType, Counters
<1>4. LET sampled == num["latency"] + num["timeout"]
          open == Cardinality({c \in Conns : live[c]})
      IN  /\ sampled + open <= num["issued"]
          /\ num["issued"] <= sampled + open + num["read"] + num["write"]
  BY <1>2 DEF CyclesAreCounted
<1> QED
  BY <1>3, <1>4

-----------------------------------------------------------------------------
(***************************************************************************)
(* A server that keeps every connection: the responses in flight and read, *)
(* and what the parser expects of them.                                    *)
(***************************************************************************)
OnlyKeeps == Replies \subseteq {"keep"} =>
               /\ \A c \in Conns : parser[c] # "eof"
               /\ \A i \in 1 .. Len(input.buf) : input.buf[i] = "keep"

LEMMA InitKeeps == Init => OnlyKeeps
<1>1. Init => input.buf = <<>> /\ \A c \in Conns : parser[c] = "start"
  BY DEF Init, NotReading
<1> QED
  BY <1>1 DEF OnlyKeeps

LEMMA KeepsStay == ASSUME OnlyKeeps, UNCHANGED <<parser, input>> PROVE OnlyKeeps'
BY DEF OnlyKeeps

\* An empty input, of parsers that wait for no end of the stream.
LEMMA KeepsEmpty ==
  ASSUME OnlyKeeps, TypeOK, NEW c, NEW ps, ps # "eof" \/ ~(Replies \subseteq {"keep"}),
         parser' = [parser EXCEPT ![c] = ps], input'.buf = <<>>
  PROVE  OnlyKeeps'
<1>1. parser \in [Conns -> Parsers]
  BY TypeFacts DEF Parsers
<1> QED
  BY <1>1 DEF OnlyKeeps

LEMMA ReadKeeps ==
  ASSUME OnlyKeeps, TypeOK, NEW c \in Conns, fd[c] \in Fds, Read(c) PROVE OnlyKeeps'
<1>1. sock[fd[c]] \in SocketType /\ parser \in [Conns -> Parsers]
  BY TypeFacts DEF Parsers
<1>2. sock[fd[c]].inbox \in Seq(Replies)
  BY <1>1, SocketFields
<1>3. ASSUME NEW k \in 1 .. Len(sock[fd[c]].inbox),
             input' = [c |-> c, buf |-> SubSeq(sock[fd[c]].inbox, 1, k), bad |-> FALSE],
             parser' = parser
      PROVE  OnlyKeeps'
  <2> DEFINE q == sock[fd[c]].inbox
  <2> HIDE DEF q
  <2>1. q \in Seq(Replies) /\ k \in 1 .. Len(q) /\ input'.buf = SubSeq(q, 1, k)
    BY <1>2, <1>3 DEF q
  <2>2. SubSeq(q, 1, k) \in Seq(Replies)
    BY <2>1
  <2>3. \A i \in 1 .. Len(SubSeq(q, 1, k)) : SubSeq(q, 1, k)[i] \in Replies
    BY <2>2
  <2> QED
    BY <1>3, <2>1, <2>3 DEF OnlyKeeps
<1>4. CASE /\ input' = [c |-> c, buf |-> <<>>, bad |-> FALSE]
           /\ parser' = [parser EXCEPT ![c] = "mid"]
  BY <1>4, KeepsEmpty
<1>5. CASE /\ input' = [c |-> c, bad |-> TRUE,
                        buf |-> IF sock[fd[c]].st = "open" /\ parser[c] = "eof" /\ ~Tls
                                THEN <<"end">> ELSE <<>>]
           /\ parser' = parser
  BY <1>5 DEF OnlyKeeps
<1>6. ASSUME NEW got \in Strange(c), input' = [c |-> c, buf |-> got, bad |-> got = <<"end">>],
             parser' \in {parser, [parser EXCEPT ![c] = IF @ = "start" THEN "mid" ELSE @]}
      PROVE  OnlyKeeps'
  <2>1. SUFFICES ASSUME Replies \subseteq {"keep"} PROVE OnlyKeeps'
    BY DEF OnlyKeeps
  <2>2. \A x \in Conns : parser[x] # "eof"
    BY <2>1 DEF OnlyKeeps
  <2>3. \A x \in Conns : parser'[x] # "eof"
    BY <1>1, <1>6, <2>2
  <2>4. got = <<>> \/ got = <<"keep">>
    BY <2>1, <2>2 DEF Strange
  <2>5. \A i \in 1 .. Len(got) : got[i] = "keep"
    BY <2>4
  <2> QED
    BY <1>6, <2>3, <2>5 DEF OnlyKeeps
<1> QED
  BY <1>3, <1>4, <1>5, <1>6 DEF Read

LEMMA ParseKeeps ==
  ASSUME OnlyKeeps, Together, Cycles, ParseResponse PROVE OnlyKeeps'
<1>1. /\ input.c \in Conns /\ TypeOK /\ input.buf \in Seq(Kinds) /\ input.buf # <<>>
      /\ input'.buf = IF Head(input.buf) = "junk" THEN <<"stray">> ELSE Tail(input.buf)
  BY ParsingFacts
<1>2. parser \in [Conns -> Parsers]
  BY <1>1, TypeFacts DEF Parsers
<1>3. SUFFICES ASSUME Replies \subseteq {"keep"} PROVE OnlyKeeps'
  BY DEF OnlyKeeps
<1>4. Head(input.buf) = "keep"
  <2>1. Len(input.buf) \in Nat /\ Len(input.buf) > 0
    BY <1>1, EmptySeq, LenProperties
  <2> QED
    BY <1>1, <1>3, <2>1 DEF OnlyKeeps
<1>5. parser' = [parser EXCEPT ![input.c] = "start"]
  BY <1>4 DEF ParseResponse
<1>6. \A i \in 1 .. Len(input'.buf) : input'.buf[i] = "keep"
  <2> DEFINE b == input.buf
             t == Tail(b)
  <2>1. t \in Seq(Kinds) /\ Len(t) = Len(b) - 1 /\ \A i \in 1 .. Len(t) : t[i] = b[i + 1]
    BY <1>1, HeadTailProperties
  <2>2. input'.buf = t
    BY <1>1, <1>4
  <2>3. Len(b) \in Nat /\ \A i \in 1 .. Len(b) : b[i] = "keep"
    BY <1>1, <1>3, LenProperties DEF OnlyKeeps
  <2> HIDE DEF b, t
  <2> QED
    BY <2>1, <2>2, <2>3
<1> QED
  BY <1>2, <1>3, <1>5, <1>6 DEF OnlyKeeps

LEMMA HalfKeeps ==
  ASSUME OnlyKeeps, Together, NEW f \in Fds, ReadHalf(f) \/ WriteHalf(f) PROVE OnlyKeeps'
<1> DEFINE c == events[f].data
<1>1. events[f].mask # {}
  BY DEF ReadHalf, WriteHalf, CallsWrite, Valid
<1>2. TypeOK /\ c \in Conns /\ fd[c] = f
  BY <1>1, OwnedEvents DEF Together, Typed, EventsOwnTheirSocket
<1> HIDE DEF c
<1>3. CASE socket_connected(c, f)
  <2>1. CASE parser' = [parser EXCEPT ![c] = "start"] /\ input' = input
    <3>1. parser \in [Conns -> Parsers]
      BY <1>2, TypeFacts DEF Parsers
    <3> QED
      BY <2>1, <3>1 DEF OnlyKeeps
  <2> QED
    BY <1>3, <2>1, KeepsStay DEF socket_connected
<1>4. CASE socket_writeable(c, f)
  BY <1>4, KeepsStay DEF socket_writeable, DelayWrite, WriteRequest, conn
<1>5. CASE socket_readable(c)
  BY <1>2, <1>5, ReadKeeps, KeepsStay DEF socket_readable
<1> QED
  BY <1>3, <1>4, <1>5 DEF ReadHalf, WriteHalf, c

LEMMA NextOnlyKeeps == ASSUME Together, Cycles, OnlyKeeps, [Next]_vars PROVE OnlyKeeps'
<1>1. CASE ReadEnd \/ ReadError
  <2>1. parser' = parser /\ input'.buf = <<>>
    BY <1>1 DEF ReadEnd, ReadError, NotReading
  <2> QED
    BY <2>1 DEF OnlyKeeps
<1>2. CASE \/ \E c \in Conns : thread_main(c) \/ delay_request(c)
           \/ aeApiPoll \/ EndOfBatch \/ \E f \in Fds : NextEntry(f)
  BY <1>2, KeepsStay DEF thread_main, delay_request, aeApiPoll, EndOfBatch, NextEntry, conn
<1>3. CASE Outside
  <2>1. UNCHANGED <<conn, loop>>
    BY <1>3 DEF Outside, Accept, Refuse, Reply, ReplyEarly, Respond, Close, Reset, TakeFd,
                ReleaseFd, CloseAgain, UseAgain, World, Becomes
  <2> QED
    BY <2>1, KeepsStay DEF conn, loop
<1>4. CASE UNCHANGED vars
  BY <1>4, KeepsStay DEF vars, conn, loop
<1> QED
  BY <1>1, <1>2, <1>3, <1>4, ParseKeeps, HalfKeeps DEF Next, Thread

-----------------------------------------------------------------------------
(***************************************************************************)
(* The steps on the counters: a step that opens and ends no cycle, and one *)
(* about a connection, whose cycle is accounted for.                       *)
(***************************************************************************)
Silent == live' = live /\ Books(num, num', {})
Settles(c) == /\ \A x \in Conns \ {c} : live'[x] = live[x]
              /\ \E names : Books(num, num', names) /\ Accounted(names, live[c], live'[c])

\* A socket is closed and another is opened for c: its cycle is lost, if it had one.
LEMMA ReconnectSettles ==
  ASSUME TypeOK, NEW c \in Conns, NEW table, NEW count, NEW names, Books(num, count, names),
         reconnect_socket(c, table, count), Accounted(names, live[c], FALSE)
  PROVE  Settles(c)
<1>1. live \in [Conns -> BOOLEAN]
  BY TypeFacts
<1>2. Books(num, num', names)
  BY BooksConnect DEF reconnect_socket
<1>3. /\ \A x \in Conns \ {c} : live'[x] = live[x]
      /\ live'[c] = FALSE
  BY <1>1 DEF reconnect_socket
<1> QED
  BY <1>2, <1>3 DEF Settles

\* The counters after a failure that is counted under one name.
LEMMA BooksOf ==
  ASSUME TypeOK, NEW names PROVE Books(num, Bump(num, names), names)
<1>1. Books(num, num, {}) /\ \A x \in Counters : x \in {} => x \notin names
  BY BooksSame, TypeFacts
<1>2. Books(num, Bump(num, names), {} \union names)
  BY <1>1, BooksBump
<1>3. {} \union names = names
  OBVIOUS
<1> QED
  BY <1>2, <1>3

LEMMA ThreadMainSettles == ASSUME TypeOK, NEW c, thread_main(c) PROVE Silent
<1>1. Books(num, num, {})
  BY BooksSame, TypeFacts
<1> QED
  BY <1>1, BooksConnect DEF thread_main, Silent

LEMMA SocketConnectedSettles ==
  ASSUME NEW c, NEW f, Called(c, f), Cycles, socket_connected(c, f),
         \/ events[f].rproc = "socket_connected"
         \/ W \in events[f].mask /\ events[f].wproc = "socket_connected"
  PROVE  Silent \/ Settles(c)
<1>1. /\ c \in Conns /\ f \in Fds /\ fd[c] = f /\ TypeOK
      /\ EntryFits(events[f], sock[f], pending[c], written[c], live[c], parser[c], <<>>)
  BY CalledCycles
<1>2. ~live[c]
  BY <1>1 DEF EntryFits, Untold, Told
<1>3. CASE UNCHANGED <<live, num>>
  BY <1>1, <1>3, BooksSame, TypeFacts DEF Silent
<1>4. CASE reconnect_socket(c, events, Bump(num, {"connect"}))
  <2>1. Accounted({"connect"}, live[c], FALSE)
    BY <1>2 DEF Accounted, One
  <2> QED
    BY <1>1, <1>4, <2>1, BooksOf, ReconnectSettles
<1> QED
  BY <1>3, <1>4 DEF socket_connected

\* A write that is the first of a cycle issues it.
LEMMA SocketWriteableSettles ==
  ASSUME EarlyReply = FALSE, NEW c, NEW f, Called(c, f), Cycles, socket_writeable(c, f),
         W \in events[f].mask, events[f].wproc = "socket_writeable"
  PROVE  Settles(c)
<1>1. /\ c \in Conns /\ f \in Fds /\ fd[c] = f /\ TypeOK
      /\ EntryFits(events[f], sock[f], pending[c], written[c], live[c], parser[c], <<>>)
  BY CalledCycles
<1>2. WriteRequest(c, f)
  <2>1. ~delayed[c]
    BY <1>1, CalledFacts DEF NoTimers
  <2> QED
    BY <2>1 DEF socket_writeable, DelayWrite
<1>3. live \in [Conns -> BOOLEAN] /\ live[c] \in BOOLEAN
  BY <1>1, TypeFacts
<1>4. ~live[c] => written[c] = 0
  <2>1. Told(events[f], sock[f], pending[c], written[c], live[c], parser[c], <<>>)
    BY <1>1 DEF EntryFits, Untold
  <2> QED
    BY <2>1 DEF Told, Phases, Ready2Write
<1> DEFINE issued == IF live[c] THEN {} ELSE {"issued"}
           count == IF written[c] = 0 /\ ~live[c] THEN Bump(num, {"issued"}) ELSE num
<1>5. Books(num, count, issued)
  BY <1>1, <1>4, BooksOf, BooksSame, TypeFacts
<1>6. CASE live' = [live EXCEPT ![c] = TRUE] /\ num' = count
  <2>1. (\A x \in Conns \ {c} : live'[x] = live[x]) /\ live'[c] = TRUE
    BY <1>1, <1>3, <1>6
  <2>2. Accounted(issued, live[c], TRUE)
    BY <1>3 DEF Accounted, One
  <2> QED
    BY <1>5, <1>6, <2>1, <2>2 DEF Settles
<1>7. CASE reconnect_socket(c, events, Bump(count, {"write"}))
  <2> DEFINE names == issued \union {"write"}
  <2>1. \A x \in Counters : x \in issued => x \notin {"write"}
    OBVIOUS
  <2>2. Accounted(names, live[c], FALSE)
    BY <1>3 DEF Accounted, One
  <2> HIDE DEF count, issued
  <2>3. Books(num, Bump(count, {"write"}), names)
    BY <1>5, <2>1, BooksBump
  <2> HIDE DEF names
  <2> QED
    BY <1>1, <1>7, <2>2, <2>3, ReconnectSettles
<1> QED
  BY <1>2, <1>6, <1>7 DEF WriteRequest

\* The callback of a response: the last one of a cycle is sampled or late; one after
\* which the server closes must be the last, for the cycle to be counted.
LEMMA ResponseSettles ==
  ASSUME EarlyReply = FALSE, Pipeline = 1 \/ Replies \subseteq {"keep"}, OnlyKeeps,
         Together, Cycles, ParseResponse, NEW c, c = input.c, NEW ok \in BOOLEAN,
         NEW late \in BOOLEAN, NEW keep, keep <=> Head(input.buf) = "keep",
         response_complete(c, keep, ok, late)
  PROVE  Settles(c)
<1>1. /\ c \in Conns /\ TypeOK /\ input.buf \in Seq(Kinds) /\ input.buf # <<>>
      /\ Told(events[cur], sock[cur], pending[c], written[c], live[c], parser[c], input.buf)
      /\ cur \in Fds
  BY ParsingFacts
<1>2. live \in [Conns -> BOOLEAN] /\ live[c] \in BOOLEAN /\ pending[c] \in Int
      /\ sock[cur] \in SocketType
  BY <1>1, TypeFacts
<1>3. live[c] /\ pending[c] \in 1 .. Pipeline
  <2> DEFINE ready == Ready2Write(events[cur], written[c])
  <2>1. Len(input.buf) \in Nat /\ Len(input.buf) > 0
    BY <1>1, EmptySeq, LenProperties
  <2>2. ~ready
    BY <1>1, <2>1 DEF Told, Tally
  <2> QED
    BY <1>1, <2>2 DEF Told, Phases
<1> DEFINE last == pending[c] - 1 = 0
           names == {"complete", IF ok THEN "succ" ELSE "status"}
                      \union (IF last THEN {IF late THEN "timeout" ELSE "latency"} ELSE {})
           count == Bump(num, names)
<1>4. Books(num, count, names)
  BY <1>1, BooksOf
<1>5. last => /\ One("latency" \in names) + One("timeout" \in names) = 1
  BY DEF One
<1>6. ~last => One("latency" \in names) + One("timeout" \in names) = 0
  BY DEF One
<1>7. One("issued" \in names) = 0 /\ One("read" \in names) = 0 /\ One("write" \in names) = 0
  BY DEF One
<1>8. Accounted(names, live[c], ~last)
  BY <1>3, <1>5, <1>6, <1>7 DEF Accounted, One
<1>9. CASE keep /\ num' = count /\ live' = [live EXCEPT ![c] = @ /\ ~last]
  <2>1. (\A x \in Conns \ {c} : live'[x] = live[x]) /\ live'[c] = ~last
    BY <1>1, <1>2, <1>3, <1>9
  <2> HIDE DEF names, last, count
  <2> QED
    BY <1>4, <1>8, <1>9, <2>1 DEF Settles
<1>10. ASSUME ~keep, NEW table, reconnect_socket(c, table, count) PROVE Settles(c)
  <2>1. Len(input.buf) \in Nat /\ Len(input.buf) > 0
    BY <1>1, EmptySeq, LenProperties
  <2>2. Pipeline = 1
    <3>1. Head(input.buf) # "keep" /\ Head(input.buf) = input.buf[1]
      <4>1. input.buf \in Seq(Kinds) /\ input.buf # <<>>
        BY <1>1
      <4> QED
        BY <1>10, <4>1
    <3>2. Replies \subseteq {"keep"} => input.buf[1] = "keep"
      BY <2>1 DEF OnlyKeeps
    <3> QED
      BY <3>1, <3>2
  <2>3. last
    BY <1>3, <2>2
  <2>4. Accounted(names, live[c], FALSE)
    BY <1>3, <1>5, <1>7, <2>3 DEF Accounted, One
  <2> HIDE DEF names, last, count
  <2> QED
    BY <1>1, <1>4, <1>10, <2>4, ReconnectSettles
<1> QED
  BY <1>9, <1>10 DEF response_complete

LEMMA ReadErrorSettles ==
  ASSUME Together, ReadError, NEW c, c = input.c PROVE c \in Conns /\ Settles(c)
<1>1. /\ reconnect_socket(c, events, Bump(num, {"read"})) /\ pc = "parse"
  BY DEF ReadError
<1>2. TypeOK /\ c \in Conns
  BY <1>1 DEF Together, Typed, HandlersHaveFd
<1>3. live[c] \in BOOLEAN
  BY <1>2, TypeFacts
<1>4. Accounted({"read"}, live[c], FALSE)
  BY <1>3 DEF Accounted, One
<1> QED
  BY <1>1, <1>2, <1>4, BooksOf, ReconnectSettles

-----------------------------------------------------------------------------
\* The halves of an entry of the batch, the parser, and every step.
LEMMA HalfSettles ==
  ASSUME Delay = FALSE, EarlyReply = FALSE, Together, Cycles, NEW f \in Fds,
         ReadHalf(f) \/ WriteHalf(f)
  PROVE  Silent \/ \E c \in Conns : Settles(c)
<1> DEFINE c == events[f].data
<1>0. TypeOK
  BY DEF Together, Typed
<1>3. c \in Conns /\ Called(c, f)
  BY HalfCalled DEF Called
<1> HIDE DEF c
<1>5. CASE ReadHalf(f)
  <2>1. \/ events[f].rproc = "socket_connected" /\ socket_connected(c, f)
        \/ events[f].rproc = "socket_readable" /\ socket_readable(c)
    BY <1>5 DEF ReadHalf, c
  <2>2. ASSUME socket_readable(c) PROVE Silent
    BY <1>0, <2>2, BooksSame, TypeFacts DEF socket_readable, Silent
  <2> QED
    BY <1>3, <2>1, <2>2, SocketConnectedSettles
<1>6. CASE WriteHalf(f)
  <2>1. /\ W \in events[f].mask
        /\ \/ events[f].wproc = "socket_connected" /\ socket_connected(c, f)
           \/ events[f].wproc = "socket_writeable" /\ socket_writeable(c, f)
    BY <1>6 DEF WriteHalf, CallsWrite, Valid, c
  <2> QED
    BY <1>3, <2>1, SocketConnectedSettles, SocketWriteableSettles
<1> QED
  BY <1>5, <1>6

LEMMA ParseSettles ==
  ASSUME EarlyReply = FALSE, Pipeline = 1 \/ Replies \subseteq {"keep"}, OnlyKeeps,
         Together, Cycles, ParseResponse
  PROVE  Silent \/ \E c \in Conns : Settles(c)
<1> DEFINE keep == Head(input.buf) = "keep"
<1>1. PICK c : c = input.c
  OBVIOUS
<1>2. c \in Conns /\ TypeOK
  BY <1>1, ParsingFacts
<1>3. CASE UNCHANGED <<live, num>>
  BY <1>2, <1>3, BooksSame, TypeFacts DEF Silent
<1>4. ASSUME NEW ok \in BOOLEAN, NEW late \in BOOLEAN, response_complete(c, keep, ok, late)
      PROVE  Settles(c)
  BY <1>1, <1>4, ResponseSettles
<1> QED
  BY <1>1, <1>2, <1>3, <1>4 DEF ParseResponse

LEMMA NextSettles ==
  ASSUME Delay = FALSE, EarlyReply = FALSE, Pipeline = 1 \/ Replies \subseteq {"keep"},
         Together, Cycles, Undisturbed, OnlyKeeps, [Next]_vars
  PROVE  Silent \/ \E c \in Conns : Settles(c)
<1>1. TypeOK /\ \A c \in Conns : ~delay_request(c)
  BY DEF delay_request, Together, Typed, NoTimers
<1>2. CASE UNCHANGED <<live, num>>
  BY <1>1, <1>2, BooksSame, TypeFacts DEF Silent
<1>3. CASE aeApiPoll \/ EndOfBatch \/ ReadEnd \/ \E f \in Fds : NextEntry(f)
  BY <1>2, <1>3 DEF aeApiPoll, EndOfBatch, ReadEnd, NextEntry, conn
<1>4. CASE Outside
  <2>1. UNCHANGED <<conn, num>>
    BY <1>4 DEF Outside, Accept, Refuse, Reply, ReplyEarly, Respond, Close, Reset, TakeFd,
                ReleaseFd, CloseAgain, UseAgain, World, Becomes
  <2> QED
    BY <1>2, <2>1 DEF conn
<1>5. CASE UNCHANGED vars
  BY <1>2, <1>5 DEF vars, conn
<1>6. CASE \E c \in Conns : thread_main(c)
  BY <1>1, <1>6, ThreadMainSettles
<1>7. CASE ReadError
  BY <1>7, ReadErrorSettles
<1>8. CASE ParseResponse
  BY <1>8, ParseSettles
<1>9. CASE \E f \in Fds : ReadHalf(f) \/ WriteHalf(f)
  BY <1>9, HalfSettles
<1> QED
  BY <1>1, <1>3, <1>4, <1>5, <1>6, <1>7, <1>8, <1>9 DEF Next, Thread

LEMMA NextCounted ==
  ASSUME Delay = FALSE, EarlyReply = FALSE, IsFiniteSet(Conns),
         Pipeline = 1 \/ Replies \subseteq {"keep"},
         Together, Together', Cycles, Undisturbed, OnlyKeeps, CyclesAreCounted, [Next]_vars
  PROVE  CyclesAreCounted'
<1>1. live \in [Conns -> BOOLEAN] /\ live' \in [Conns -> BOOLEAN]
  BY DEF Together, Typed, TypeOK, ConnOK
<1>2. ASSUME Silent PROVE CyclesAreCounted'
  BY <1>2, LedgerStays DEF Silent
<1>3. ASSUME NEW c \in Conns, Settles(c) PROVE CyclesAreCounted'
  <2>1. PICK names : Books(num, num', names) /\ Accounted(names, live[c], live'[c])
    BY <1>3 DEF Settles
  <2>2. \A x \in Conns \ {c} : live'[x] = live[x]
    BY <1>3 DEF Settles
  <2> QED
    BY <1>1, <2>1, <2>2, Ledger
<1> QED
  BY <1>2, <1>3, NextSettles

LEMMA InitCounted == Init => CyclesAreCounted
<1> SUFFICES ASSUME Init PROVE CyclesAreCounted
  OBVIOUS
<1>1. {c \in Conns : live[c]} = {}
  BY DEF Init
<1>2. Cardinality({c \in Conns : live[c]}) = 0
  BY <1>1, FS_EmptySet
<1>3. \A x \in {"latency", "timeout", "issued", "read", "write"} : num[x] = 0
  BY DEF Init, Counters
<1> QED
  BY <1>2, <1>3 DEF CyclesAreCounted

\* Without delay(), and with a server that answers requests it has received, no cycle
\* is sampled twice, and each that was begun is open, was sampled or counted late, or
\* was cut off by a failure that errors.read or errors.write counts.  With pipelining
\* this needs a server that keeps its connections: a cycle that response_complete cuts
\* off because http_should_keep_alive() says no is counted by neither.  No other thread
\* uses a number that it has closed.
THEOREM CyclesAccounted ==
  ASSUME Delay = FALSE, EarlyReply = FALSE, IsFiniteSet(Conns),
         Pipeline = 1 \/ Replies \subseteq {"keep"}
  PROVE  Spec /\ []Undisturbed => []CyclesAreCounted
<1> DEFINE Inv == Together /\ Cycles /\ OnlyKeeps /\ CyclesAreCounted
<1>1. Init => Inv
  BY InitTogether, InitCycles, InitKeeps, InitCounted
<1>2. Inv /\ Undisturbed /\ [Next]_vars => Inv'
  BY NextTogether, NextCycles, NextOnlyKeeps, NextCounted
<1>3. Inv => CyclesAreCounted
  OBVIOUS
<1> HIDE DEF Inv
<1> QED
  BY <1>1, <1>2, <1>3, PTL DEF Spec

=============================================================================
