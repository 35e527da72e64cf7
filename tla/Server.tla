------------------------------- MODULE Server -------------------------------
(***************************************************************************)
(* The life of a connection in the server: Server, Acceptor, Connection,   *)
(* Channel and Epoll of src/tcp with the callbacks HttpServer installs,    *)
(* running on the event loops of EventLoop.tla.  The main loop accepts and *)
(* forgets connections, the sub loop a connection is bound to (fd modulo   *)
(* the number of sub loops) serves it, and a close travels from the sub    *)
(* loop to the main loop and back as two functors that keep it alive.      *)
(*                                                                         *)
(* Data is abstracted to "some bytes are unread", before or after a byte   *)
(* sent as urgent; a request is answered by one Send and either kept or    *)
(* closed, which is what HttpServer does with any bytes it reads.  The     *)
(* kernel's side of a socket (unread, peer, the edges of epoll) follows    *)
(* Linux: arrivals raise an edge, epoll_wait consumes the edges and        *)
(* reports the channel's state of that moment.                             *)
(***************************************************************************)
EXTENDS Naturals, Sequences, SequencesExt, FiniteSetsExt

CONSTANTS Main,       \* main_reactor_
          NSub,       \* sub_reactors_.size()
          Fds,        \* descriptors accept() may return
          MaxConn,    \* bound: clients that ever connect
          MaxSend,    \* bound: times a client sends
          AutoClose,  \* auto_close_conn_ of HttpServer
          NoLoop, Wakeup

ASSUME NSubAssumption == NSub \in Nat \ {0}
ASSUME FdsAssumption == Fds \subseteq Nat \ {0}
ASSUME BoundsAssumption == MaxConn \in Nat /\ MaxSend \in Nat
ASSUME AutoCloseAssumption == AutoClose \in BOOLEAN

Subs  == 0 .. NSub - 1
Loops == {Main} \cup Subs
Conns == 1 .. MaxConn     \* connections in the order of their accept()
NoConn == 0

(* The two functors the server ever hands over, per connection.            *)
HandleCloseInLoop(c)    == <<"HandleCloseInLoop", c>>
ConnectionDestructor(c) == <<"ConnectionDestructor", c>>
Functors == {HandleCloseInLoop(c) : c \in Conns}
              \cup {ConnectionDestructor(c) : c \in Conns}

(* Ready events: the listening socket, the two callbacks HandleEvent may   *)
(* make for a connection, the expiry of a connection's idle timer.         *)
Listen     == <<"listen", NoConn>>
In(c)      == <<"in", c>>
Out(c)     == <<"out", c>>
Expired(c) == <<"expired", c>>
Channels   == {Listen} \cup UNION {{In(c), Out(c), Expired(c)} : c \in Conns}

ASSUME LoopsAssumption ==
  Main \notin Nat /\ NoLoop \notin Loops /\ Wakeup \notin Channels

VARIABLES
  pc, ready, eventfd, to_do_list_, functors, calling_functors_, waking,
  submitted, ran,     \* see EventLoop
  arrived,            \* clients whose TCP connection is complete
  next_conn_id_,      \* the connection the next accept() creates
  sent,               \* sends of each client so far
  unread,             \* what is unread in a socket, in order: "data", any
                      \* number of bytes of it, and the "urgent" byte
  peer,               \* the socket as its peer left it
  edge,               \* connections with an edge epoll has not reported
  connections_,       \* descriptor -> connection, NoConn when absent
  fd,                 \* descriptor of each connection
  state_,             \* Connection::state_
  watch,              \* events registered in the epoll of the sub loop
  reading,            \* connections whose read() waits, with it their loop
  establishing,       \* connection whose ConnectionEstablished main is in
  held,               \* connections of functors run in the current batch
  timer,              \* idle timer: none, armed, due
  active,             \* connections that got a message since it was armed
  crash               \* how the process ended, if it did

loopVars   == <<pc, ready, eventfd, to_do_list_, functors, calling_functors_,
                waking, submitted, ran>>
clientVars == <<arrived, sent>>
sockVars   == <<unread, peer, edge>>
connVars   == <<next_conn_id_, connections_, fd, state_, watch, reading, establishing,
                held>>
timerVars  == <<timer, active>>
vars == <<loopVars, clientVars, sockVars, connVars, timerVars, crash>>

EL == INSTANCE EventLoop

LoopOf(c) == fd[c] % NSub

(* A Connection exists as long as a shared_ptr does: the entry in          *)
(* connections_, a functor bound to it that waits, or ran in the batch not *)
(* yet destroyed, and the local one of HandleNewConnection.                *)
FunctorsIn(s) == {s[i] : i \in DOMAIN s}
HeldBy(c, f) == f \in {HandleCloseInLoop(c), ConnectionDestructor(c)}
Alive(c) ==
  \/ \E d \in Fds : connections_[d] = c
  \/ establishing = c
  \/ \E l \in Loops :
       \/ c \in held[l]
       \/ \E f \in FunctorsIn(to_do_list_[l]) \cup FunctorsIn(functors[l]) :
            HeldBy(c, f)

Accepted(c) == c < next_conn_id_

(* Mutant of OpenFds: the descriptor is closed when the connection is.     *)
OpenFdsUntilClose == {fd[c] : c \in {d \in Conns : state_[d] = "Connected"}}

(* ~Connection closes the descriptor.                                      *)
OpenFds == {fd[c] : c \in {d \in Conns : Accepted(d) /\ Alive(d)}}

Init ==
  /\ EL!Init
  /\ arrived = 0 /\ next_conn_id_ = 1
  /\ sent = [c \in Conns |-> 0]
  /\ unread = [c \in Conns |-> <<>>] /\ edge = {}
  /\ peer = [c \in Conns |-> "open"]
  /\ connections_ = [d \in Fds |-> NoConn]
  /\ fd = [c \in Conns |-> 0]
  /\ state_ = [c \in Conns |-> "Invalid"]
  /\ watch = [c \in Conns |-> "none"]
  /\ reading = {} /\ establishing = NoConn
  /\ held = [l \in Loops |-> {}]
  /\ timer = [c \in Conns |-> "none"]
  /\ active = {}
  /\ crash = "no"

-----------------------------------------------------------------------------
(* Clients.                                                                *)

Running == crash = "no"

(* An arrival wakes the epoll instance the descriptor is registered in.    *)
RaiseEdge(c) == edge' = IF watch[c] # "none" THEN edge \cup {c} ELSE edge

ClientConnect ==
  /\ Running /\ arrived < MaxConn
  /\ arrived' = arrived + 1
  /\ UNCHANGED <<loopVars, sent, sockVars, connVars, timerVars, crash>>

(* What a client does before accept() waits in the kernel; what it does    *)
(* after the descriptor was closed the server cannot see.                  *)
Open(c) == c <= arrived /\ (Accepted(c) => Alive(c))

ClientSend(c) ==
  /\ Running /\ Open(c) /\ peer[c] = "open" /\ sent[c] < MaxSend
  /\ sent' = [sent EXCEPT ![c] = @ + 1]
  /\ unread' = [unread EXCEPT ![c] = IF @ # <<>> /\ Last(@) = "data" THEN @
                                     ELSE Append(@, "data")]
  /\ RaiseEdge(c)
  /\ UNCHANGED <<loopVars, arrived, peer, connVars, timerVars, crash>>

(* send() with MSG_OOB: one urgent byte.  The socket keeps one; an earlier *)
(* one that is unread is dropped if it comes first, and is data otherwise. *)
ClientSendUrgent(c) ==
  /\ Running /\ Open(c) /\ peer[c] = "open" /\ sent[c] < MaxSend
  /\ sent' = [sent EXCEPT ![c] = @ + 1]
  /\ unread' = [unread EXCEPT ![c] = IF "data" \in ToSet(@) THEN <<"data", "urgent">>
                                     ELSE <<"urgent">>]
  /\ RaiseEdge(c)
  /\ UNCHANGED <<loopVars, arrived, peer, connVars, timerVars, crash>>

(* FIN: close() or shutdown() of the client.                               *)
ClientClose(c) ==
  /\ Running /\ Open(c) /\ peer[c] = "open"
  /\ peer' = [peer EXCEPT ![c] = "fin"]
  /\ RaiseEdge(c)
  /\ UNCHANGED <<loopVars, clientVars, unread, connVars, timerVars, crash>>

(* RST: on an open connection the next call reports ECONNRESET; after a    *)
(* FIN, as the answer to a Send for one, writing is a broken pipe.         *)
ClientReset(c) ==
  /\ Running /\ Open(c) /\ peer[c] \in {"open", "fin"}
  /\ peer' = [peer EXCEPT ![c] = IF @ = "open" THEN "rst" ELSE "pipe"]
  /\ RaiseEdge(c)
  /\ UNCHANGED <<loopVars, clientVars, unread, connVars, timerVars, crash>>

(* The timerfd of the connection's loop: its idle timer has run out.       *)
TimerExpires(c) ==
  /\ Running /\ timer[c] = "armed"
  /\ timer' = [timer EXCEPT ![c] = "due"]
  /\ UNCHANGED <<loopVars, clientVars, sockVars, connVars, active, crash>>

-----------------------------------------------------------------------------
(* The event loops.  Main runs nothing else while it is in                 *)
(* ConnectionEstablished, HandleEvent makes its second callback for a      *)
(* channel before the next channel is handled, and a sub loop whose thread *)
(* waits in read() handles nothing else.                                   *)

Free(l) ==
  /\ Running
  /\ l = Main => establishing = NoConn

SecondCallback(l) == {c \in Conns : Out(c) \in ready[l] /\ In(c) \notin ready[l]}

MayHandle(l, e) ==
  /\ Free(l)
  /\ \A c \in SecondCallback(l) : e = Out(c)
  /\ \A c \in reading : LoopOf(c) = l => e \in {In(c), Out(c)}

(* read() would return: a byte sent as urgent is not among the data.       *)
Readable(c) == "data" \in ToSet(unread[c]) \/ peer[c] # "open"

(* EPOLLIN or EPOLLPRI, which is reported for an urgent byte.              *)
Pending(c) == unread[c] # <<>> \/ peer[c] # "open"

(* What epoll_wait reports to loop l: In for EPOLLIN and for EPOLLPRI, for *)
(* which HandleEvent does the same.  The first EPOLLOUT is reported with   *)
(* EPOLLIN: only a reset leaves a Send incomplete.                         *)
OnLoop(l) == {c \in Conns : Accepted(c) /\ LoopOf(c) = l}
HarvestWith(l, listening) ==
  {In(c) : c \in {d \in edge \cap OnLoop(l) : Pending(d)}}
    \cup {Out(c) : c \in {d \in edge \cap OnLoop(l) : watch[d] = "inout"}}
    \cup {Expired(c) : c \in {d \in OnLoop(l) : timer[d] = "due"}}
    \cup (IF l = Main /\ listening THEN {Listen} ELSE {})

(* Mutants of Harvest: the listening socket is always reported; the last   *)
(* client waiting in its backlog never is.                                 *)
HarvestListenAlways(l) == HarvestWith(l, TRUE)
HarvestListenOffByOne(l) == HarvestWith(l, next_conn_id_ < arrived)

Harvest(l) == HarvestWith(l, next_conn_id_ <= arrived)

Poll(l) ==
  /\ Free(l)
  /\ EL!Poll(l, Harvest(l))
  /\ edge' = edge \ OnLoop(l)
  /\ UNCHANGED <<clientVars, unread, peer, connVars, timerVars, crash>>

(* The steps that are those of EventLoop and nothing else.                 *)
LoopStep(l) ==
  /\ Running
  /\ \/ EL!WriteWakeup(l)
     \/ EL!Bind(l)
     \/ Free(l) /\ EL!BeginDoToDoList(l)
     \/ MayHandle(l, Wakeup) /\ EL!HandleRead(l)
  /\ UNCHANGED <<clientVars, sockVars, connVars, timerVars, crash>>

(* The batch goes out of scope: its functors drop their connections.       *)
EndDoToDoList(l) ==
  /\ Running
  /\ EL!EndDoToDoList(l)
  /\ held' = [held EXCEPT ![l] = {}]
  /\ UNCHANGED <<clientVars, sockVars, next_conn_id_, connections_, fd, state_,
                 watch, reading, establishing, timerVars, crash>>

-----------------------------------------------------------------------------
(* Main loop: accepting, and the channel's registration in epoll.          *)

(* Epoll::UpdateChannel: a socket that is ready when it is added or        *)
(* modified raises an edge at once; a channel that asks for EPOLLOUT is.   *)
UpdateChannel(c, events) ==
  /\ watch' = [watch EXCEPT ![c] = events]
  /\ edge' = IF Pending(c) \/ events = "inout" THEN edge \cup {c} ELSE edge

EnableRead(c)  == UpdateChannel(c, "in")
EnableWrite(c) == UpdateChannel(c, "inout")

(* Connection::ConnectionEstablished up to EnableRead: from here on the    *)
(* sub loop may serve the connection, while main is still in this call.    *)
ConnectionEstablished(c) ==
  /\ state_' = [state_ EXCEPT ![c] = "Connected"]
  /\ EnableRead(c)
  /\ establishing' = c

HandleNewConnection(d) ==
  LET c == next_conn_id_
  IN  /\ fd' = [fd EXCEPT ![c] = d]
      /\ connections_' = [connections_ EXCEPT ![d] = c]
      /\ next_conn_id_' = c + 1
      /\ ConnectionEstablished(c)

(* Acceptor::AcceptConnection: the kernel gives the lowest descriptor that *)
(* is free; when none is, Errif ends the process.                          *)
AcceptConnection ==
  /\ MayHandle(Main, Listen)
  /\ EL!Dispatch(Main, Listen) /\ EL!NoCall(ran)
  /\ \/ /\ Fds \subseteq OpenFds
        /\ crash' = "exit"
        /\ UNCHANGED <<edge, connVars>>
     \/ /\ ~(Fds \subseteq OpenFds)
        /\ HandleNewConnection(Min(Fds \ OpenFds))
        /\ UNCHANGED <<reading, held, crash>>
  /\ UNCHANGED <<clientVars, unread, peer, timerVars>>

(* on_connect_callback_, HttpServer::HandleConnection: still on the main   *)
(* thread, the idle timer is added to the timers of the sub loop.          *)
HandleConnection ==
  /\ Running /\ establishing # NoConn
  /\ timer' = IF AutoClose THEN [timer EXCEPT ![establishing] = "armed"] ELSE timer
  /\ establishing' = NoConn
  /\ UNCHANGED <<loopVars, clientVars, sockVars, next_conn_id_, connections_, fd,
                 state_, watch, reading, held, active, crash>>

-----------------------------------------------------------------------------
(* Sub loops: serving a connection.                                        *)

(* Server::HandleClose: the main loop, never that of the caller, is to     *)
(* forget the connection.                                                  *)
ServerHandleClose(c) == EL!RunOneFunc(LoopOf(c), Main, HandleCloseInLoop(c), ran)

(* Mutant of HandleClose: state_ is not set to Disconnected.               *)
HandleCloseKeepsState(c) == UNCHANGED state_ /\ ServerHandleClose(c)

(* Connection::HandleClose: the first close hands the connection over, any *)
(* other does nothing.                                                     *)
HandleClose(c) ==
  \/ /\ state_[c] # "Disconnected"
     /\ state_' = [state_ EXCEPT ![c] = "Disconnected"]
     /\ ServerHandleClose(c)
  \/ state_[c] = "Disconnected" /\ UNCHANGED state_ /\ EL!NoCall(ran)

(* Mutant of Send: EPOLLOUT is asked for even when all of it was written.  *)
SendEnablesWrite(c) ==
  /\ peer[c] \in {"open", "fin"}
  /\ EnableWrite(c)
  /\ UNCHANGED <<peer, crash>>

(* Connection::Send.  With nothing left over from an earlier Send it       *)
(* writes: all of it, or a part when a reset arrives meanwhile, or fails;  *)
(* on a broken pipe SIGPIPE ends the process.  What is left goes to        *)
(* send_buffer_ and the channel asks for EPOLLOUT.                         *)
Send(c) ==
  \/ /\ watch[c] = "inout"
     /\ EnableWrite(c) /\ UNCHANGED <<peer, crash>>
  \/ /\ watch[c] = "in" /\ peer[c] \in {"open", "fin"}
     /\ UNCHANGED <<peer, watch, edge, crash>>
  \/ /\ watch[c] = "in" /\ peer[c] = "open"
     /\ peer' = [peer EXCEPT ![c] = "rst"]
     /\ EnableWrite(c) /\ UNCHANGED crash
  \/ /\ watch[c] = "in" /\ peer[c] = "rst"
     /\ peer' = [peer EXCEPT ![c] = "pipe"]
     /\ UNCHANGED <<watch, edge, crash>>
  \/ /\ watch[c] = "in" /\ peer[c] = "pipe"
     /\ crash' = "sigpipe"
     /\ UNCHANGED <<peer, watch, edge>>

(* HttpServer::HandleRequest and the answer to a bad request: one Send,    *)
(* after which the connection is kept or closed.                           *)
HandleRequest(c) ==
  /\ Send(c)
  /\ \/ crash' = crash /\ HandleClose(c)
     \/ UNCHANGED state_ /\ EL!NoCall(ran)

(* HttpServer::HandleMessage on bytes just read.                           *)
Answer(c) ==
  /\ active' = IF AutoClose THEN active \cup {c} ELSE active
  /\ HandleRequest(c)

(* What a read() leaves: it skips an urgent byte that comes first, and     *)
(* stops at one that comes later.                                          *)
Unurgent(u) == IF u # <<>> /\ Head(u) = "urgent" THEN Tail(u) ELSE u
AfterRead(u) == IF Unurgent(u) = <<>> THEN <<>> ELSE Tail(Unurgent(u))

(* Connection::ReadBlocking and the message callback.  Accepted sockets    *)
(* block, so one read() takes what is there, waits when nothing is, and    *)
(* sees the end or the error of the connection only when no data is left.  *)
ReadBlocking(c) ==
  /\ unread' = [unread EXCEPT ![c] = AfterRead(@)]
  /\ reading' = reading \ {c}
  /\ \/ /\ "data" \in ToSet(unread[c])
        /\ Answer(c)
     \/ /\ "data" \notin ToSet(unread[c]) /\ peer[c] # "open"
        /\ peer' = [peer EXCEPT ![c] = IF @ = "rst" THEN "pipe" ELSE @]
        /\ HandleClose(c)
        /\ UNCHANGED <<edge, watch, active, crash>>

(* Connection::Read asserts that the connection is Connected.              *)
Read(c) ==
  \/ state_[c] = "Connected" /\ ReadBlocking(c)
  \/ /\ state_[c] # "Connected"
     /\ crash' = "assert"
     /\ EL!NoCall(ran)
     /\ UNCHANGED <<sockVars, state_, watch, reading, active>>

(* Channel::HandleEventWithGuard calls read_callback_ for EPOLLIN and for  *)
(* EPOLLPRI, and then read_callback_ again for EPOLLOUT.                   *)
MayRead(c, e) == MayHandle(LoopOf(c), e) /\ (e = Out(c) => In(c) \notin ready[LoopOf(c)])

HandleEvent(c, e) ==
  /\ MayRead(c, e)
  /\ EL!Dispatch(LoopOf(c), e)
  /\ Read(c)
  /\ UNCHANGED <<clientVars, next_conn_id_, connections_, fd, establishing, held,
                 timer>>

(* The callback has come to read(), which has nothing to return: the       *)
(* thread waits there until it has.                                        *)
WaitInRead(c, e) ==
  /\ MayRead(c, e)
  /\ EL!At(LoopOf(c), "dispatch") /\ e \in ready[LoopOf(c)]
  /\ state_[c] = "Connected" /\ ~Readable(c)
  /\ reading' = reading \cup {c}
  /\ UNCHANGED <<loopVars, clientVars, sockVars, next_conn_id_, connections_, fd,
                 state_, watch, establishing, held, timerVars, crash>>

(* Mutants of ActiveCloseConn: an active connection is not looked at       *)
(* again; it counts as active forever.                                     *)
ActiveCloseConnRearming(c, again, stillActive) ==
  /\ MayHandle(LoopOf(c), Expired(c))
  /\ EL!Dispatch(LoopOf(c), Expired(c))
  /\ \/ /\ ~Alive(c) \/ c \in active
        /\ timer' = [timer EXCEPT ![c] = IF Alive(c) THEN again ELSE "none"]
        /\ active' = stillActive
        /\ EL!NoCall(ran)
        /\ UNCHANGED state_
     \/ /\ Alive(c) /\ c \notin active
        /\ timer' = [timer EXCEPT ![c] = "none"]
        /\ HandleClose(c)
        /\ UNCHANGED active
  /\ UNCHANGED <<clientVars, sockVars, next_conn_id_, connections_, fd, watch,
                 reading, establishing, held, crash>>
ActiveCloseConnOnce(c) == ActiveCloseConnRearming(c, "none", active \ {c})
ActiveCloseConnForever(c) == ActiveCloseConnRearming(c, "armed", active)

(* TimerQueue::HandleRead and ActiveCloseConn: the timer holds a weak_ptr; *)
(* a connection silent since the timer was armed is closed, for another it *)
(* may also be armed again, as its last message came less than a period    *)
(* ago.                                                                    *)
ActiveCloseConn(c) ==
  /\ MayHandle(LoopOf(c), Expired(c))
  /\ EL!Dispatch(LoopOf(c), Expired(c))
  /\ \/ /\ ~Alive(c)
        /\ timer' = [timer EXCEPT ![c] = "none"]
        /\ EL!NoCall(ran)
        /\ UNCHANGED <<state_, active>>
     \/ /\ Alive(c)
        /\ timer' = [timer EXCEPT ![c] = "none"]
        /\ HandleClose(c)
        /\ UNCHANGED active
     \/ /\ Alive(c) /\ c \in active
        /\ timer' = [timer EXCEPT ![c] = "armed"]
        /\ active' = active \ {c}
        /\ EL!NoCall(ran)
        /\ UNCHANGED state_
  /\ UNCHANGED <<clientVars, sockVars, next_conn_id_, connections_, fd, watch,
                 reading, establishing, held, crash>>

-----------------------------------------------------------------------------
(* The two functors.                                                       *)

(* Mutants of RunHandleCloseInLoop: the connection is not handed back to   *)
(* its loop; it is, but the loop is not woken.                             *)
RunHandleCloseInLoopQueueing(c, queueing) ==
  /\ Free(Main)
  /\ EL!Take(Main) /\ Head(functors[Main]) = HandleCloseInLoop(c)
  /\ ran' = ran \cup {HandleCloseInLoop(c)}
  /\ held' = [held EXCEPT ![Main] = @ \cup {c}]
  /\ connections_' = [connections_ EXCEPT ![fd[c]] = NoConn]
  /\ to_do_list_' = IF queueing
                    THEN [to_do_list_ EXCEPT ![LoopOf(c)] = Append(@, ConnectionDestructor(c))]
                    ELSE to_do_list_
  /\ submitted' = IF queueing THEN submitted \cup {ConnectionDestructor(c)} ELSE submitted
  /\ UNCHANGED <<waking, crash, clientVars, sockVars, next_conn_id_, fd, state_,
                 watch, reading, establishing, timerVars>>
RunHandleCloseInLoopDropping(c) == RunHandleCloseInLoopQueueing(c, FALSE)
RunHandleCloseInLoopSilent(c) == RunHandleCloseInLoopQueueing(c, TRUE)

(* Server::HandleCloseInLoop on the main loop: asserts that connections_   *)
(* has an entry for the descriptor, erases it and hands the connection to  *)
(* its loop.                                                               *)
RunHandleCloseInLoop(c) ==
  /\ Free(Main)
  /\ EL!Take(Main) /\ Head(functors[Main]) = HandleCloseInLoop(c)
  /\ ran' = ran \cup {HandleCloseInLoop(c)}
  /\ held' = [held EXCEPT ![Main] = @ \cup {c}]
  /\ \/ /\ connections_[fd[c]] = NoConn
        /\ crash' = "assert"
        /\ UNCHANGED <<to_do_list_, waking, submitted, connections_>>
     \/ /\ connections_[fd[c]] # NoConn
        /\ connections_' = [connections_ EXCEPT ![fd[c]] = NoConn]
        /\ EL!QueueOneFunc(Main, LoopOf(c), ConnectionDestructor(c))
        /\ UNCHANGED crash
  /\ UNCHANGED <<clientVars, sockVars, next_conn_id_, fd, state_, watch,
                 reading, establishing, timerVars>>

(* Epoll::DeleteChannel: Errif ends the process if the channel is not in   *)
(* epoll.                                                                  *)
DeleteChannel(c) ==
  /\ crash' = IF watch[c] = "none" THEN "exit" ELSE crash
  /\ watch' = [watch EXCEPT ![c] = "none"]
  /\ edge' = edge \ {c}

(* Connection::ConnectionDestructor, on the loop of the connection.        *)
RunConnectionDestructor(c) ==
  /\ Running
  /\ EL!Take(LoopOf(c)) /\ Head(functors[LoopOf(c)]) = ConnectionDestructor(c)
  /\ EL!NoCall(ran \cup {ConnectionDestructor(c)})
  /\ held' = [held EXCEPT ![LoopOf(c)] = @ \cup {c}]
  /\ DeleteChannel(c)
  /\ UNCHANGED <<clientVars, unread, peer, next_conn_id_, connections_, fd, state_,
                 reading, establishing, timerVars>>

-----------------------------------------------------------------------------
(* The steps of the thread of loop l.                                      *)
ThreadStep(l) ==
  \/ Poll(l)
  \/ LoopStep(l)
  \/ EndDoToDoList(l)
  \/ \E c \in OnLoop(l) :
       \/ \E e \in {In(c), Out(c)} : HandleEvent(c, e) \/ WaitInRead(c, e)
       \/ ActiveCloseConn(c)
       \/ RunConnectionDestructor(c)
  \/ l = Main /\ \/ AcceptConnection \/ HandleConnection
                 \/ \E c \in Conns : RunHandleCloseInLoop(c)

Next ==
  \/ ClientConnect
  \/ \E c \in Conns : \/ ClientSend(c) \/ ClientSendUrgent(c)
                      \/ ClientClose(c) \/ ClientReset(c) \/ TimerExpires(c)
  \/ \E l \in Loops : ThreadStep(l)

(* Threads are scheduled and timers expire; clients may stop at any point. *)
Fairness == /\ \A l \in Loops : WF_vars(ThreadStep(l))
            /\ \A c \in Conns : WF_vars(TimerExpires(c))

Spec == Init /\ [][Next]_vars /\ Fairness

-----------------------------------------------------------------------------
(* Types.                                                                  *)
TypeOK ==
  /\ EL!TypeOK
  /\ arrived \in 0 .. MaxConn /\ next_conn_id_ \in 1 .. arrived + 1
  /\ sent \in [Conns -> 0 .. MaxSend]
  /\ unread \in [Conns -> Seq({"data", "urgent"})] /\ edge \subseteq Conns
  /\ peer \in [Conns -> {"open", "fin", "rst", "pipe"}]
  /\ connections_ \in [Fds -> Conns \cup {NoConn}]
  /\ fd \in [Conns -> Fds \cup {0}]
  /\ state_ \in [Conns -> {"Invalid", "Connected", "Disconnected"}]
  /\ watch \in [Conns -> {"none", "in", "inout"}]
  /\ reading \subseteq Conns /\ establishing \in Conns \cup {NoConn}
  /\ held \in [Loops -> SUBSET Conns]
  /\ timer \in [Conns -> {"none", "armed", "due"}]
  /\ active \subseteq Conns
  /\ crash \in {"no", "exit", "assert", "sigpipe"}

Waiting(l) == FunctorsIn(to_do_list_[l]) \cup FunctorsIn(functors[l])

(* connections_ is keyed by a descriptor that the kernel reuses: the entry *)
(* a waiting HandleCloseInLoop will erase is still that of its own         *)
(* connection, so the assertion of Server.cpp:83 holds and no newer        *)
(* connection on the same descriptor is dropped.                           *)
CloseFindsItsOwnEntry ==
  \A c \in Conns : HandleCloseInLoop(c) \in Waiting(Main) => connections_[fd[c]] = c

(* epoll and the batch of ready channels hold raw Channel pointers: the    *)
(* Connection that owns the channel exists as long as either does.         *)
NoDanglingChannel ==
  \A c \in Conns :
    \/ watch[c] # "none"
    \/ \E l \in Loops : {In(c), Out(c)} \cap ready[l] # {}
    => Alive(c)

(* The phases of an accepted connection, which two threads step through:   *)
(* served; closed by its loop and waiting for the main loop; forgotten by  *)
(* the main loop and waiting for its own; out of epoll.  connections_,     *)
(* state_, the two functors and epoll agree on the phase at any time.      *)
LifeCycle ==
  \A c \in Conns : Accepted(c) =>
    << state_[c], connections_[fd[c]] = c, HandleCloseInLoop(c) \in Waiting(Main),
       ConnectionDestructor(c) \in Waiting(LoopOf(c)), watch[c] # "none" >>
    \in { <<"Connected",    TRUE,  FALSE, FALSE, TRUE>>,
          <<"Disconnected", TRUE,  TRUE,  FALSE, TRUE>>,
          <<"Disconnected", FALSE, FALSE, TRUE,  TRUE>>,
          <<"Disconnected", FALSE, FALSE, FALSE, FALSE>> }

(* With automatic closing on, a connection that is served always has a     *)
(* timer that will look at it again, or main is about to add it.           *)
IdleConnectionsAreWatched ==
  AutoClose =>
    \A c \in Conns :
      state_[c] = "Connected" => timer[c] # "none" \/ establishing = c

(* A sub loop sleeps in the read of a blocking socket for an urgent byte   *)
(* only (Channel.cpp:24, Connection.cpp:229): whenever a callback of a     *)
(* served connection is due there is something to read, or all there is    *)
(* is an urgent byte, which read() does not return.                        *)
ReadBlocksOnUrgentOnly ==
  \A c \in Conns, l \in Loops :
    {In(c), Out(c)} \cap ready[l] # {} /\ state_[c] = "Connected"
      => Readable(c) \/ unread[c] = <<"urgent">>

(* The server drives its loops as EventLoop allows: it hands functors only *)
(* to loops whose thread runs, and each functor at most once, so every     *)
(* property of EventLoop holds of the server.                              *)
ImplementsEventLoop == EL!Protocol

(* A read() that waits for bytes its client does not send stops the loop,  *)
(* for every other connection of the loop.                                 *)
Ended == crash # "no"
Stalled(c) == \E d \in reading \ {c} : LoopOf(d) = LoopOf(c)
NotStalled(c) == []<>~Stalled(c)

(* Every client the kernel has accepted gets its Connection, whatever the  *)
(* sub loops do.                                                           *)
ClientsAreAccepted ==
  \A c \in Conns : c <= arrived ~> Accepted(c) \/ Ended

(* A closed connection is destroyed and its descriptor returned, through   *)
(* the main loop and back through its own, unless a read() for another     *)
(* client keeps that loop.                                                 *)
ClosedIsDestroyed ==
  \A c \in Conns :
    NotStalled(c) => (state_[c] = "Disconnected" ~> ~Alive(c) \/ Ended)

(* A connection whose peer has gone is noticed and destroyed: Read treats  *)
(* read() = 0 as "the client disconnected" and closes (Connection.cpp:232).*)
PeerGoneIsDestroyed ==
  \A c \in Conns :
    NotStalled(c) => (Accepted(c) /\ peer[c] # "open" ~> ~Alive(c) \/ Ended)

(* Connection.cpp:163 asserts that Read only runs on a connected           *)
(* connection.                                                             *)
ReadOnlyWhenConnected == crash # "assert"
=============================================================================
